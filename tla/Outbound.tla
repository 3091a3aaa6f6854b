------------------------------ MODULE Outbound ------------------------------
(***************************************************************************)
(* The outbound half of one session: rows the container appends to          *)
(* messages_out, the two polls of the host that drain them (pollActive each *)
(* second, pollSweep each minute, both through deliverSessionMessages), the *)
(* channel adapter they wait for, and the requests about scheduled tasks    *)
(* that travel in the same queue and are applied to inbound.db (Tasks).     *)
(*                                                                         *)
(* A row's number is its place in the order of seq.  The drain holds its    *)
(* rows in memory across every await of the adapter; attempts are counted   *)
(* in memory only; outcomes are rows of inbound.db's delivered table.       *)
(***************************************************************************)
EXTENDS Tasks, Sequences

CONSTANTS
  Polls,        \* the poll loops of the host: active, sweep
  Requests,     \* kinds of system row in the model, see RequestKinds
  ChatKinds,    \* kinds of other row in the model, see OtherKinds
  MaxOut,       \* bound: rows of messages_out
  MaxAttempts,  \* MAX_DELIVERY_ATTEMPTS
  MaxRestarts   \* bound: host restarts

\* chat: a channel the agent may write to; denied: no such group, or not one
\* of the agent's destinations; unrouted: no routing fields on the row.
OtherKinds == {"chat", "denied", "unrouted"}
RequestKinds == {"schedule", "series", "cancel", "pause", "resume", "once", "every"}

ASSUME OutboundAssumption ==
  /\ Requests \subseteq RequestKinds /\ ChatKinds \subseteq OtherKinds
  /\ MaxOut \in Nat /\ MaxAttempts \in Nat \ {0} /\ MaxRestarts \in Nat

VARIABLES
  out,       \* messages_out: [kind, series] in the order of seq
  outcome,   \* [1..MaxOut -> "none" | "delivered" | "failed"] delivered table
  attempts,  \* deliveryAttempts
  inflight,  \* the session is in inflightDeliveries
  queue,     \* [Polls -> rows of its snapshot still to deliver]
  sending,   \* [Polls -> "no" | "asked" | "done"] the first row of the queue
  shown,     \* [1..MaxOut -> times the platform showed it or it was applied]
  refused,   \* [1..MaxOut -> attempts that threw]
  restarts   \* host restarts so far

deliveryVars == <<outcome, attempts, inflight, queue, sending, shown, refused>>
outVars == <<out, deliveryVars, restarts>>
vars == <<taskVars, outVars>>

Out == 1..MaxOut
OutRow == [kind : RequestKinds \cup OtherKinds, series : Series]

OutboundTypeOK ==
  /\ TasksTypeOK
  /\ out \in Seq(OutRow) /\ Len(out) <= MaxOut
  /\ outcome \in [Out -> {"none", "delivered", "failed"}]
  /\ attempts \in [Out -> Nat]
  /\ inflight \in BOOLEAN
  /\ queue \in [Polls -> SUBSET (1..Len(out))]
  /\ sending \in [Polls -> {"no", "asked", "done"}]
  /\ shown \in [Out -> Nat]
  /\ refused \in [Out -> Nat]
  /\ restarts \in Nat

Init ==
  /\ TasksInit
  /\ out = <<>>
  /\ outcome = [m \in Out |-> "none"]
  /\ attempts = [m \in Out |-> 0]
  /\ inflight = FALSE
  /\ queue = [p \in Polls |-> {}]
  /\ sending = [p \in Polls |-> "no"]
  /\ shown = [m \in Out |-> 0]
  /\ refused = [m \in Out |-> 0]
  /\ restarts = 0

(***************************************************************************)
(* The container appends a row.                                            *)
(***************************************************************************)
Write(k, s) ==
  /\ Len(out) < MaxOut
  /\ out' = Append(out, [kind |-> k, series |-> s])
  /\ UNCHANGED <<taskVars, deliveryVars, restarts>>

(***************************************************************************)
(* deliverSessionMessages and drainSession.                                *)
(***************************************************************************)
\* Due rows without an entry in delivered.
Undelivered == {m \in 1..Len(out) : outcome[m] = "none"}

\* Mutant: newest first.
LastOf(p) == CHOOSE m \in queue[p] : \A n \in queue[p] : n <= m

\* A drain goes through its snapshot in the order of seq.
HeadOf(p) == CHOOSE m \in queue[p] : \A n \in queue[p] : m <= n

\* Mutant: the drain starts on a session another poll is draining.
PollRacing(p) ==
  /\ queue[p] = {} /\ Undelivered # {}
  /\ inflight' = TRUE
  /\ queue' = [queue EXCEPT ![p] = Undelivered]
  /\ UNCHANGED <<taskVars, out, outcome, attempts, sending, shown, refused, restarts>>

\* The in-flight guard, then the snapshot of what is due and undelivered.
Poll(p) ==
  /\ ~inflight /\ Undelivered # {}
  /\ inflight' = TRUE
  /\ queue' = [queue EXCEPT ![p] = Undelivered]
  /\ UNCHANGED <<taskVars, out, outcome, attempts, sending, shown, refused, restarts>>

\* Mutant: the guard is not lifted behind the last row.
AdvanceLocked(p) ==
  /\ queue' = [queue EXCEPT ![p] = @ \ {HeadOf(p)}]
  /\ sending' = [sending EXCEPT ![p] = "no"]
  /\ UNCHANGED inflight

\* On to the next row; the guard is lifted behind the last one.
Advance(p) ==
  /\ queue' = [queue EXCEPT ![p] = @ \ {HeadOf(p)}]
  /\ sending' = [sending EXCEPT ![p] = "no"]
  /\ inflight' = (queue[p] # {HeadOf(p)})

\* INSERT OR IGNORE INTO delivered.
Record(m, v) ==
  outcome' = IF outcome[m] = "none" THEN [outcome EXCEPT ![m] = v] ELSE outcome

Settle(p) ==
  /\ Record(HeadOf(p), "delivered")
  /\ attempts' = [attempts EXCEPT ![HeadOf(p)] = 0]
  /\ Advance(p)

\* Mutant: a row is given up one attempt early.
ThrowEarly(p) ==
  LET m == HeadOf(p)
      n == attempts[m] + 1
  IN  /\ refused' = [refused EXCEPT ![m] = @ + 1]
      /\ IF n >= MaxAttempts - 1
         THEN Record(m, "failed") /\ attempts' = [attempts EXCEPT ![m] = 0]
         ELSE UNCHANGED outcome /\ attempts' = [attempts EXCEPT ![m] = n]
      /\ Advance(p)

\* deliverMessage threw.
Throw(p) ==
  LET m == HeadOf(p)
      n == attempts[m] + 1
  IN  /\ refused' = [refused EXCEPT ![m] = @ + 1]
      /\ IF n >= MaxAttempts
         THEN Record(m, "failed") /\ attempts' = [attempts EXCEPT ![m] = 0]
         ELSE UNCHANGED outcome /\ attempts' = [attempts EXCEPT ![m] = n]
      /\ Advance(p)

Turn(p, kinds) ==
  queue[p] # {} /\ sending[p] = "no" /\ out[HeadOf(p)].kind \in kinds

\* adapter.deliver is called.
Deliver(p) ==
  /\ Turn(p, {"chat"})
  /\ sending' = [sending EXCEPT ![p] = "asked"]
  /\ UNCHANGED <<taskVars, out, outcome, attempts, inflight, queue, shown, refused, restarts>>

\* The platform shows the message.
Show(p) ==
  /\ sending[p] = "asked"
  /\ sending' = [sending EXCEPT ![p] = "done"]
  /\ shown' = [shown EXCEPT ![HeadOf(p)] = @ + 1]
  /\ UNCHANGED <<taskVars, out, outcome, attempts, inflight, queue, refused, restarts>>

\* The adapter's promise, or the request's handler, resolves: markDelivered.
Resolve(p) ==
  /\ sending[p] = "done"
  /\ Settle(p)
  /\ UNCHANGED <<taskVars, out, shown, refused, restarts>>

\* The promise rejects, the message shown or not.
Reject(p) ==
  /\ sending[p] # "no" /\ out[HeadOf(p)].kind = "chat"
  /\ Throw(p)
  /\ UNCHANGED <<taskVars, out, shown, restarts>>

\* No routing fields: deliverMessage returns and the row counts as delivered.
DeliverNothing(p) ==
  /\ Turn(p, {"unrouted"})
  /\ Settle(p)
  /\ UNCHANGED <<taskVars, out, shown, refused, restarts>>

DeliverDenied(p) ==
  /\ Turn(p, {"denied"})
  /\ Throw(p)
  /\ UNCHANGED <<taskVars, out, shown, restarts>>

\* What handleSystemAction does with a row about series s.
Apply(k, s) ==
  \/ k = "schedule" /\ ScheduleTask(s, FALSE)
  \/ k = "series" /\ ScheduleTask(s, TRUE)
  \/ k = "cancel" /\ CancelTask(s)
  \/ k = "pause" /\ PauseTask(s)
  \/ k = "resume" /\ ResumeTask(s)
  \/ k = "once" /\ UpdateTask(s, FALSE)
  \/ k = "every" /\ UpdateTask(s, TRUE)

HandleSystemAction(p) ==
  LET row == out[HeadOf(p)]
  IN  /\ Turn(p, RequestKinds)
      /\ Apply(row.kind, row.series)
      /\ sending' = [sending EXCEPT ![p] = "done"]
      /\ shown' = [shown EXCEPT ![HeadOf(p)] = @ + 1]
      /\ UNCHANGED <<out, outcome, attempts, inflight, queue, refused, restarts>>

\* The task was inserted before a crash: UNIQUE on messages_in.id.
ScheduleAgain(p) ==
  /\ Turn(p, {"schedule", "series"}) /\ ~Schedulable(out[HeadOf(p)].series)
  /\ Throw(p)
  /\ UNCHANGED <<taskVars, out, shown, restarts>>

(***************************************************************************)
(* The host dies and starts again: memory is lost, the databases are not.  *)
(***************************************************************************)
ForgetDrains ==
  /\ attempts' = [m \in Out |-> 0]
  /\ inflight' = FALSE
  /\ queue' = [p \in Polls |-> {}]
  /\ sending' = [p \in Polls |-> "no"]
  /\ restarts' = restarts + 1
  /\ UNCHANGED <<out, outcome, shown, refused>>

HostRestart ==
  /\ restarts < MaxRestarts
  /\ ForgetDrains
  /\ SweepForgotten
  /\ UNCHANGED <<task, recurs, taskAck, goesOn, held, fanFaults>>

HostRestartInFanOut ==
  /\ \E x \in Row : FanOutCrash(x)
  /\ ForgetDrains

(***************************************************************************)
(* Specification.                                                          *)
(***************************************************************************)
PollStep(p) ==
  \/ Poll(p) \/ Deliver(p) \/ Show(p) \/ Resolve(p) \/ Reject(p)
  \/ DeliverNothing(p) \/ DeliverDenied(p) \/ HandleSystemAction(p) \/ ScheduleAgain(p)

TaskStep == (SweepStep \/ ContainerStep) /\ UNCHANGED outVars

Next ==
  \/ \E k \in Requests \cup ChatKinds, s \in Series : Write(k, s)
  \/ \E p \in Polls : PollStep(p)
  \/ TaskStep \/ HostRestart \/ HostRestartInFanOut

Spec == Init /\ [][Next]_vars

\* The polls re-arm their timers whatever happened in a tick, and an adapter
\* answers, if only with an error.
PollFairness ==
  \A p \in Polls :
    /\ WF_vars(Poll(p)) /\ WF_vars(Deliver(p)) /\ WF_vars(Resolve(p) \/ Reject(p))
    /\ WF_vars(DeliverNothing(p) \/ DeliverDenied(p))
    /\ WF_vars(HandleSystemAction(p) \/ ScheduleAgain(p))

FairSpec == Spec /\ PollFairness
-----------------------------------------------------------------------------
\* inflightDeliveries: one poll at most drains the session, only rows without
\* an outcome are in its hands, and the guard is up exactly as long.
OneDrain ==
  /\ \A p, q \in Polls : queue[p] # {} /\ queue[q] # {} => p = q
  /\ inflight <=> \E p \in Polls : queue[p] # {}
  /\ \A p \in Polls : sending[p] # "no" => queue[p] # {}
  /\ \A p \in Polls : \A m \in queue[p] : outcome[m] = "none"

\* The user sees a message twice, or a request is applied twice, only after an
\* attempt that threw or a host restart between showing it and recording it:
\* the two polls never deliver one row both.
NoDuplicate ==
  \A m \in Out : shown[m] <= 1 + refused[m] + restarts

\* Rows reach the user, and requests are applied, in the order of seq: one
\* overtakes an earlier one only when that one is settled or has been refused.
InOrder ==
  [][\A m \in 1..Len(out) : shown'[m] > shown[m]
       => \A n \in 1..(m - 1) : outcome[n] # "none" \/ refused[n] > 0]_shown

\* A row is given up after MaxAttempts refusals and no earlier, and a restart
\* grants it no more than that many again.
GivenUpAfterAttempts ==
  \A m \in Out :
    /\ outcome[m] = "failed" => refused[m] >= MaxAttempts
    /\ refused[m] <= MaxAttempts * (1 + restarts)

\* The inductive invariant.  A row without an outcome has been shown no more
\* often than attempts failed, but for the one being recorded; its refusals are
\* those counted since the last restart and at most a full count before each.
ShownInv ==
  \A m \in Out :
    outcome[m] = "none" =>
      shown[m] <= refused[m] + restarts
                  + (IF \E p \in Polls : sending[p] = "done" /\ HeadOf(p) = m THEN 1 ELSE 0)

AttemptsInv ==
  \A m \in Out :
    /\ attempts[m] < MaxAttempts
    /\ outcome[m] = "none" =>
         attempts[m] <= refused[m] /\ refused[m] <= MaxAttempts * restarts + attempts[m]

\* What a drain has left behind is settled or has been refused.
OrderInv ==
  \A p \in Polls : \A m \in queue[p] : \A n \in 1..(m - 1) :
    n \in queue[p] \/ outcome[n] # "none" \/ refused[n] > 0

OutboundInv ==
  /\ OutboundTypeOK
  /\ TasksInv
  /\ OneDrain
  /\ OrderInv
  /\ ShownInv
  /\ NoDuplicate
  /\ AttemptsInv
  /\ GivenUpAfterAttempts

\* Every row written is delivered or given up.
RowsSettle ==
  \A m \in Out : m <= Len(out) ~> outcome[m] # "none"
=============================================================================
