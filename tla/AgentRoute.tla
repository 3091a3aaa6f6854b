----------------------------- MODULE AgentRoute -----------------------------
(***************************************************************************)
(* Agent-to-agent messages: sessions of one agent group (the peers) write to  *)
(* a worker agent, whose replies the host routes back.  Where a reply goes is  *)
(* decided by the in_reply_to the container writes and by the                *)
(* source_session_id the host has stamped on the worker's inbound rows.      *)
(*                                                                         *)
(* The send_message tool runs in the MCP server, a process of its own, whose  *)
(* copy of current-batch.ts nobody sets: its rows carry no in_reply_to.  A    *)
(* <message> block of the final text carries the newest row of the           *)
(* destination, whatever batch is being answered.                            *)
(***************************************************************************)
EXTENDS Naturals, Sequences, FiniteSets, SequencesExt

CONSTANTS
  Peers,       \* sessions of the asking group, numbered in order of creation
  MaxAsks,     \* bound: requests per session
  MaxReplies,  \* bound: replies of the worker
  MaxCrashes   \* bound: host crashes between routing and markDelivered

ConstantAssumption ==
  /\ IsFiniteSet(Peers) /\ Peers \subseteq Nat \ {0} /\ Peers # {}
  /\ MaxAsks \in Nat /\ MaxReplies \in Nat /\ MaxCrashes \in Nat

None == 0

VARIABLES
  active,   \* peers whose session is active
  granted,  \* agent_destinations: the worker may write to the group
  inbox,    \* messages_in of the worker: the source_session_id of each row
  taken,    \* rows of inbox the worker's query has been given
  batch,    \* rows it is answering
  asks,     \* requests written and not yet marked delivered: [from, n]
  replies,  \* replies written and not yet marked delivered
  asked,    \* history: requests written so far, per peer
  said,     \* history: replies written so far
  landed,   \* history: the last reply routed, and to which session
  copies,   \* history: replies routed
  crashes

vars == <<active, granted, inbox, taken, batch, asks, replies, asked, said, landed, copies,
          crashes>>
workerVars == <<inbox, taken, batch, replies, said>>
history    == <<landed, copies, crashes>>

\* A reply: the row it names or 0, and the row it answers (history).
Replies == [id : 1..MaxReplies, ref : Nat, row : Nat]

TypeOK ==
  /\ active \in SUBSET Peers /\ granted \in BOOLEAN
  /\ inbox \in Seq(Peers) /\ taken \in Nat /\ taken <= Len(inbox)
  /\ batch \in SUBSET (1..taken)
  /\ asks \in SUBSET [from : Peers, n : 1..MaxAsks] /\ replies \in SUBSET Replies
  /\ \A o \in replies : o.row \in 1..Len(inbox) /\ o.ref <= Len(inbox)
  /\ asked \in [Peers -> 0..MaxAsks] /\ said \in 0..MaxReplies
  /\ landed \in SUBSET [reply : Replies, at : Peers] /\ copies \in Nat /\ crashes \in Nat

Init ==
  /\ active = Peers /\ granted = TRUE
  /\ inbox = <<>> /\ taken = 0 /\ batch = {}
  /\ asks = {} /\ replies = {}
  /\ asked = [p \in Peers |-> 0] /\ said = 0 /\ landed = {} /\ copies = 0 /\ crashes = 0

(***************************************************************************)
(* The peers.                                                              *)
(***************************************************************************)
Ask(p) ==
  /\ p \in active /\ asked[p] < MaxAsks
  /\ asked' = [asked EXCEPT ![p] = @ + 1]
  /\ asks' = asks \cup {[from |-> p, n |-> asked'[p]]}
  /\ UNCHANGED <<active, granted, workerVars, history>>

Close(p) ==
  /\ p \in active /\ Cardinality(active) > 1
  /\ active' = active \ {p}
  /\ UNCHANGED <<granted, workerVars, asks, asked, history>>

(***************************************************************************)
(* The worker's container.                                                 *)
(***************************************************************************)
\* A poll: the rows not taken yet become a batch, or join the running query.
TakeRows ==
  /\ taken < Len(inbox)
  /\ taken' = Len(inbox) /\ batch' = batch \cup ((taken + 1)..Len(inbox))
  /\ UNCHANGED <<active, granted, inbox, asks, replies, asked, said, history>>

Reply(i, ref) ==
  /\ said < MaxReplies /\ said' = said + 1
  /\ replies' = replies \cup {[id |-> said + 1, ref |-> ref, row |-> i]}
  /\ UNCHANGED <<active, granted, inbox, taken, batch, asks, asked, history>>

\* send_message: getCurrentInReplyTo() of the MCP process is null.
SendMessage(i) == i \in batch /\ Reply(i, 0)

\* sendToDestination: resolveDestinationThread takes the newest row of the peer.
FinalText(i) == i \in batch /\ Reply(i, Len(inbox))

QueryEnds ==
  /\ batch # {}
  /\ batch' = {}
  /\ UNCHANGED <<active, granted, inbox, taken, asks, replies, asked, said, history>>

(***************************************************************************)
(* The host.  A session is drained in order, a row at a time.  A crash between *)
(* routeAgentMessage and markDelivered leaves the row to be routed again.     *)
(***************************************************************************)
Marked(m, queue, crash) ==
  IF crash THEN crashes < MaxCrashes /\ crashes' = crashes + 1 /\ queue' = queue
           ELSE queue' = queue \ {m} /\ UNCHANGED crashes

\* routeAgentMessage to the worker, which has one session; the row is stamped
\* with the session it comes from.
RouteAsk(m, crash) ==
  /\ m \in asks /\ \A x \in asks : x.from = m.from => m.n <= x.n
  /\ inbox' = Append(inbox, m.from)
  /\ Marked(m, asks, crash)
  /\ UNCHANGED <<active, granted, taken, batch, replies, asked, said, landed, copies>>

\* Mutant: the oldest row of the peer.
PeerAffinityOldest == IF inbox = <<>> THEN None ELSE Head(inbox)

\* getMostRecentPeerSourceSessionId.
PeerAffinity == IF inbox = <<>> THEN None ELSE Last(inbox)

\* getInboundSourceSessionId, then the fallback.
Origin(o) == IF o.ref # 0 THEN inbox[o.ref] ELSE PeerAffinity

\* findSessionByAgentGroup: the newest active session.
Newest == CHOOSE p \in active : \A q \in active : q <= p

\* resolveTargetSession.
TargetSession(o) == IF Origin(o) \in active THEN Origin(o) ELSE Newest

First(o) == o \in replies /\ \A x \in replies : o.id <= x.id

\* routeAgentMessage to the peers: refused without a destination.
RouteReply(o, crash) ==
  /\ First(o) /\ granted
  /\ landed' = {[reply |-> o, at |-> TargetSession(o)]} /\ copies' = copies + 1
  /\ Marked(o, replies, crash)
  /\ UNCHANGED <<active, granted, inbox, taken, batch, asks, asked, said>>

\* The attempts at a refused reply are used up.
GiveUp(o) ==
  /\ First(o) /\ ~granted
  /\ replies' = replies \ {o}
  /\ UNCHANGED <<active, granted, inbox, taken, batch, asks, asked, said, history>>

\* ncl destinations remove.
Revoke ==
  /\ granted /\ granted' = FALSE
  /\ UNCHANGED <<active, workerVars, asks, asked, history>>

Next ==
  \/ \E p \in Peers : Ask(p) \/ Close(p)
  \/ \E i \in batch : SendMessage(i) \/ FinalText(i)
  \/ \E m \in asks, crash \in BOOLEAN : RouteAsk(m, crash)
  \/ \E o \in replies, crash \in BOOLEAN : RouteReply(o, crash)
  \/ \E o \in replies : GiveUp(o)
  \/ TakeRows \/ QueryEnds \/ Revoke

Spec == Init /\ [][Next]_vars

(***************************************************************************)
(* Properties.                                                             *)
(***************************************************************************)
\* The session a delivered reply is for.
For(d) == inbox[d.reply.row]

\* A reply is put into an active session, and it strays from the session it
\* answers only in two cases: that session is closed, or the worker has a row of
\* another session newer than the answered one -- when the final text was
\* written, or when the reply of the tool was routed (resolveTargetSession,
\* resolveDestinationThread; agent-route.ts:119-125 promises it returns to where
\* the conversation started).
StraysOnlyToNewer ==
  [][copies' # copies => \A d \in landed' :
       /\ d.at \in active
       /\ \/ d.at = For(d) \/ For(d) \notin active
          \/ \E j \in (d.reply.row + 1)..(IF d.reply.ref = 0 THEN Len(inbox) ELSE d.reply.ref) :
               inbox[j] # For(d)]_vars
=============================================================================
