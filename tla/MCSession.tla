----------------------------- MODULE MCSession -----------------------------
(* Model values and symmetry for the runs of Session. *)
EXTENDS SessionInbox, TLC

CONSTANTS m1, m2, m3, r1, r2

RunnerSymmetry == Permutations({r1, r2})
=============================================================================
