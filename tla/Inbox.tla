------------------------------- MODULE Inbox -------------------------------
(***************************************************************************)
(* What a session promises for the messages written to it, with containers, *)
(* processes and databases left out: a message is claimed before anything   *)
(* becomes of it, is either finished, handed back or given up by the claim, *)
(* and what is finished or given up stays so.  A crash can only hand claims *)
(* back.                                                                    *)
(***************************************************************************)
CONSTANTS
  Msgs,     \* messages
  Direct    \* messages a tool call may consume without a claim

VARIABLE state  \* [Msgs -> State]

State == {"absent", "pending", "claimed", "done", "failed", "stray"}

Claimed == {m \in Msgs : state[m] = "claimed"}

Init == state = [m \in Msgs |-> "absent"]

Arrive(m) ==
  /\ state[m] = "absent"
  /\ state' = [state EXCEPT ![m] = "pending"]

\* A poll takes a set of pending messages.
Claim(S) ==
  /\ \A m \in S : state[m] = "pending"
  /\ state' = [m \in Msgs |-> IF m \in S THEN "claimed" ELSE state[m]]

\* Claimed messages are finished.
Finish(S) ==
  /\ S \subseteq Claimed
  /\ state' = [m \in Msgs |-> IF m \in S THEN "done" ELSE state[m]]

Consume(m) ==
  /\ m \in Direct /\ state[m] = "pending"
  /\ state' = [state EXCEPT ![m] = "done"]

\* Messages of S are in the hands of a process that answers to nobody any more:
\* from here on nothing is promised of them.
Stray(S) ==
  /\ \A m \in S : state[m] \in {"pending", "claimed"}
  /\ state' = [m \in Msgs |-> IF m \in S THEN "stray" ELSE state[m]]

\* Every claim is revoked: handed back, or given up for the messages of S.
Revoke(S) ==
  /\ S \subseteq Claimed
  /\ state' = [m \in Msgs |-> IF m \in S THEN "failed"
                              ELSE IF m \in Claimed THEN "pending" ELSE state[m]]

Next ==
  \/ \E m \in Msgs : Arrive(m) \/ Consume(m)
  \/ \E S \in SUBSET Msgs : Claim(S) \/ Finish(S) \/ Stray(S) \/ Revoke(S)

Spec == Init /\ [][Next]_state
=============================================================================
