--------------------------- MODULE SessionInbox ---------------------------
(***************************************************************************)
(* Session implements Inbox: the state of a message is read off its row of  *)
(* messages_in and its row of processing_ack together; a message a container *)
(* has had unfinished that outlived its docker stop is astray.              *)
(***************************************************************************)
EXTENDS Session

StateOf(m) ==
  IF m \in shared THEN "stray"
  ELSE IF ack[m] = "completed" THEN "done"
  ELSE IF ack[m] = "processing" THEN "claimed"
  ELSE IF status[m] = "completed" THEN "done"
  ELSE status[m]

MessageState == [m \in Msgs |-> StateOf(m)]

Promise == INSTANCE Inbox WITH Direct <- SystemMsg, state <- MessageState

\* The session keeps the promise of Inbox: every step of the router, the sweep
\* and the poll loop is a step of Inbox or none.
ImplementsInbox == Promise!Spec
=============================================================================
