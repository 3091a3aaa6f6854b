--------------------------- MODULE MCPermissions ---------------------------
(* Scenarios for the runs of Permissions: who writes what where. *)
EXTENDS Permissions

\* A group wired to two agents (e1, e4) and a group nobody knows (e2, e3).
\* Nobody is a member of any agent; e4 comes without a user id.
MCChan == [e \in Events |-> IF e \in {"e2", "e3"} THEN "new" ELSE "home"]
MCFrom == [e \in Events |-> IF e = "e4" THEN "nobody" ELSE "stranger"]
MCMode == [c \in Channels |-> "mention-sticky"]
MCPolicy == [c \in Channels |-> "request_approval"]
MCWired == {<<"home", 1>>, <<"home", 2>>}
StickyMembers == {<<"stranger", 1>>}
=============================================================================
