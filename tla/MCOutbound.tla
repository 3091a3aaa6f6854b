----------------------------- MODULE MCOutbound -----------------------------
(* Model values for the runs of Outbound. *)
EXTENDS Outbound

CONSTANTS active, minute, t1
=============================================================================
