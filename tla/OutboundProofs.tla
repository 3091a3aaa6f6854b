--------------------------- MODULE OutboundProofs ---------------------------
(***************************************************************************)
(* Outbound and the tasks it drives keep their inductive invariant for     *)
(* every number of polls, rows, series, attempts and restarts.             *)
(***************************************************************************)
EXTENDS Outbound, FiniteSetTheorems, WellFoundedInduction, TLAPS

-----------------------------------------------------------------------------
(***************************************************************************)
(* Tasks.                                                                  *)
(***************************************************************************)
\* A row is a row of its own series.
LEMMA RowFacts ==
  /\ \A s \in Series : RowsOf(s) \subseteq Row /\ <<s, 1>> \in RowsOf(s)
  /\ \A x \in Row : x[1] \in Series /\ x \in RowsOf(x[1])
  /\ \A s \in Series : \A x \in RowsOf(s) : x[1] = s
  BY TasksAssumption DEF Row, RowsOf

\* insertRecurrence takes a row of the same series nobody has written.
LEMMA NewRowFacts ==
  ASSUME NEW x \in Row, Unwritten(x[1]) # {}
  PROVE  /\ NewRow(x[1]) \in Row
         /\ NewRow(x[1]) \in RowsOf(x[1])
         /\ task[NewRow(x[1])] = "absent"
  <1>1. NewRow(x[1]) \in Unwritten(x[1])
    BY DEF NewRow
  <1> QED BY <1>1, RowFacts DEF Unwritten

\* No task has been written: the invariant of the tasks holds.
LEMMA TasksInitInv == TasksInit => TasksInv
  BY DEF TasksInit, TasksInv, TasksTypeOK, SeriesNotForgotten

\* Requests of the agent keep the invariant.
LEMMA RequestsTaskInv ==
  ASSUME TasksInv, NEW s \in Series, NEW b \in BOOLEAN,
         \/ ScheduleTask(s, b) \/ CancelTask(s) \/ PauseTask(s) \/ ResumeTask(s)
         \/ UpdateTask(s, b)
  PROVE  TasksInv'
<1> USE RowFacts DEF TasksInv, TasksTypeOK, InStatus, SetTask
<1>1. CASE ScheduleTask(s, b)
  <2>1. TasksTypeOK'
    BY <1>1 DEF ScheduleTask, Schedulable
  <2>2. SeriesNotForgotten'
    BY <1>1 DEF ScheduleTask, Schedulable, SeriesNotForgotten
  <2> QED BY <1>1, <2>1, <2>2 DEF ScheduleTask, Schedulable
<1>2. CASE CancelTask(s)
  <2>1. TasksTypeOK'
    BY <1>2 DEF CancelTask
  <2>2. SeriesNotForgotten'
    BY <1>2 DEF CancelTask, SeriesNotForgotten
  <2> QED BY <1>2, <2>1, <2>2 DEF CancelTask
<1>3. CASE PauseTask(s)
  <2>1. TasksTypeOK'
    BY <1>3 DEF PauseTask
  <2>2. SeriesNotForgotten'
    BY <1>3 DEF PauseTask, SeriesNotForgotten
  <2> QED BY <1>3, <2>1, <2>2 DEF PauseTask
<1>4. CASE ResumeTask(s)
  <2>1. TasksTypeOK'
    BY <1>4 DEF ResumeTask
  <2>2. SeriesNotForgotten'
    BY <1>4 DEF ResumeTask, SeriesNotForgotten
  <2> QED BY <1>4, <2>1, <2>2 DEF ResumeTask
<1>5. CASE UpdateTask(s, b)
  <2>1. TasksTypeOK'
    BY <1>5 DEF UpdateTask
  <2>2. SeriesNotForgotten'
    BY <1>5 DEF UpdateTask, SeriesNotForgotten
  <2> QED BY <1>5, <2>1, <2>2 DEF UpdateTask
<1> QED BY <1>1, <1>2, <1>3, <1>4, <1>5

\* Claims and completions of the container keep it.
LEMMA ContainerTaskInv == TasksInv /\ ContainerStep => TasksInv'
<1> SUFFICES ASSUME TasksInv, NEW x \in Row, ClaimTask(x) \/ CompleteTask(x)
             PROVE  TasksInv'
  BY DEF ContainerStep
<1> USE DEF TasksInv, TasksTypeOK
<1>1. SeriesNotForgotten'
  BY DEF ClaimTask, CompleteTask, SeriesNotForgotten
<1> QED BY <1>1 DEF ClaimTask, CompleteTask

\* Half a fan-out leaves both rows with the recurrence, and a tick that is over or
\* goes on without the row.
LEMMA HalfTaskInv ==
  ASSUME TasksInv, NEW x \in Row, HalfFanOut(x),
         \/ tick' = "idle" /\ fanout' = {}
         \/ tick' = tick /\ fanout' = fanout \ {x}
  PROVE  TasksInv'
<1> USE RowFacts DEF TasksInv, TasksTypeOK, SetTask
<1>0. /\ NewRow(x[1]) \in Row
      /\ task[NewRow(x[1])] = "absent"
  BY NewRowFacts DEF HalfFanOut
<1>1. TasksTypeOK'
  BY <1>0 DEF HalfFanOut
<1>2. SeriesNotForgotten'
  BY <1>0 DEF HalfFanOut, SeriesNotForgotten
<1> QED BY <1>0, <1>1, <1>2 DEF HalfFanOut

\* The sweep keeps it: a row that runs out of retries takes its series out of
\* goesOn, a fan-out hands the recurrence to the row it writes.
LEMMA SweepTaskInv ==
  ASSUME TasksInv, SweepStep
  PROVE  TasksInv'
<1> USE RowFacts DEF TasksInv, TasksTypeOK, SetTask
<1>1. CASE SweepSync
  <2>1. TasksTypeOK'
    BY <1>1 DEF SweepSync
  <2>2. SeriesNotForgotten'
    BY <1>1 DEF SweepSync, SeriesNotForgotten
  <2> QED BY <1>1, <2>1, <2>2 DEF SweepSync
<1>2. CASE SweepEnds
  BY <1>2 DEF SweepEnds, SeriesNotForgotten
<1>3. ASSUME NEW gone \in BOOLEAN, NEW spent \in SUBSET {x \in Row : taskAck[x] = "processing"},
             SweepReset(gone, spent)
      PROVE  TasksInv'
  <2>1. TasksTypeOK'
    BY <1>3 DEF SweepReset
  <2>2. SeriesNotForgotten'
    BY <1>3 DEF SweepReset, SeriesNotForgotten
  <2> QED BY <1>3, <2>1, <2>2 DEF SweepReset
<1>4. ASSUME NEW x \in Row, FanOut(x) PROVE TasksInv'
  <2>0. /\ NewRow(x[1]) \in Row /\ NewRow(x[1]) \in RowsOf(x[1])
        /\ task[NewRow(x[1])] = "absent" /\ task[x] = "completed"
    BY <1>4, NewRowFacts DEF FanOut
  <2>1. TasksTypeOK'
    BY <1>4, <2>0 DEF FanOut
  <2>2. SeriesNotForgotten'
    <3> SUFFICES ASSUME NEW s \in goesOn
                 PROVE  \E y \in RowsOf(s) \cap recurs' : task'[y] \in {"pending", "paused", "completed"}
      BY <1>4 DEF FanOut, SeriesNotForgotten
    <3>1. CASE s = x[1]
      <4>1. NewRow(s) \in RowsOf(s) \cap recurs' /\ task'[NewRow(s)] = "pending"
        BY <1>4, <2>0, <3>1 DEF FanOut
      <4> QED BY <4>1
    <3>2. CASE s # x[1]
      <4>1. PICK y \in RowsOf(s) \cap recurs : task[y] \in {"pending", "paused", "completed"}
        BY DEF SeriesNotForgotten
      <4>2. y \in RowsOf(s) \cap recurs' /\ task'[y] = task[y]
        BY <1>4, <2>0, <3>2, <4>1 DEF FanOut
      <4> QED BY <4>1, <4>2
    <3> QED BY <3>1, <3>2
  <2> QED BY <1>4, <2>0, <2>1, <2>2 DEF FanOut
<1>5. ASSUME NEW x \in Row, FanOutThrows(x) PROVE TasksInv'
  BY <1>5, HalfTaskInv DEF FanOutThrows
<1>6. ASSUME NEW x \in Row, FanOutSkips(x) PROVE TasksInv'
  BY <1>6 DEF FanOutSkips, SeriesNotForgotten
<1> QED BY <1>1, <1>2, <1>3, <1>4, <1>5, <1>6 DEF SweepStep

\* So does a crash between the two writes.
LEMMA CrashTaskInv ==
  ASSUME TasksInv, NEW x \in Row, FanOutCrash(x)
  PROVE  TasksInv'
BY HalfTaskInv DEF FanOutCrash, SweepForgotten

-----------------------------------------------------------------------------
(***************************************************************************)
(* The drain.                                                              *)
(***************************************************************************)
\* The snapshot of a drain holds rows of messages_out.
LEMMA QueueFacts ==
  ASSUME OutboundTypeOK, NEW p \in Polls
  PROVE  queue[p] \subseteq Out /\ Len(out) \in Nat
  <1>1. Len(out) \in Nat /\ Len(out) <= MaxOut /\ queue[p] \subseteq 1..Len(out)
    BY DEF OutboundTypeOK
  <1>2. 1..Len(out) \subseteq Out
    BY <1>1, OutboundAssumption DEF Out
  <1> QED BY <1>1, <1>2

\* The head of a snapshot is one of its rows, and the first.
LEMMA HeadFacts ==
  ASSUME OutboundTypeOK, NEW p \in Polls, queue[p] # {}
  PROVE  /\ HeadOf(p) \in queue[p]
         /\ HeadOf(p) \in 1..Len(out)
         /\ HeadOf(p) \in Out
         /\ \A n \in queue[p] : HeadOf(p) <= n
  <1>1. queue[p] \in SUBSET Nat /\ queue[p] \subseteq 1..Len(out) /\ Len(out) \in Nat
    BY DEF OutboundTypeOK
  <1>2. PICK m \in queue[p] : \A n \in queue[p] : ~ (n < m)
    <2>1. PICK m \in queue[p] : \A n \in queue[p] : <<n, m>> \notin OpToRel(<, Nat)
      BY <1>1, NatLessThanWellFounded, WFMin
    <2> QED BY <1>1, <2>1 DEF OpToRel
  <1>3. HeadOf(p) \in queue[p] /\ \A n \in queue[p] : HeadOf(p) <= n
    BY <1>1, <1>2 DEF HeadOf
  <1> QED BY <1>1, <1>3, QueueFacts

\* The empty session satisfies the inductive invariant.
LEMMA InitInv == Init => OutboundInv
<1> SUFFICES ASSUME Init PROVE OutboundInv
  OBVIOUS
<1>1. TasksInv
  BY TasksInitInv DEF Init
<1>2. OutboundTypeOK
  <2>1. out \in Seq(OutRow) /\ Len(out) = 0 /\ Len(out) <= MaxOut
    BY OutboundAssumption DEF Init
  <2>2. queue \in [Polls -> SUBSET (1..Len(out))]
    BY <2>1 DEF Init
  <2>3. outcome \in [Out -> {"none", "delivered", "failed"}] /\ sending \in [Polls -> {"no", "asked", "done"}]
    BY DEF Init
  <2>4. inflight \in BOOLEAN
    BY Zenon DEF Init
  <2> QED BY <1>1, <2>1, <2>2, <2>3, <2>4 DEF Init, TasksInv, OutboundTypeOK
<1>3. OneDrain
  BY DEF Init, OneDrain
<1>4. ShownInv /\ NoDuplicate /\ AttemptsInv /\ GivenUpAfterAttempts
  BY OutboundAssumption DEF Init, ShownInv, NoDuplicate, AttemptsInv, GivenUpAfterAttempts, Out
<1>5. OrderInv
  BY DEF Init, OrderInv
<1> QED BY <1>1, <1>2, <1>3, <1>4, <1>5 DEF OutboundInv

\* While a poll drains, the others have nothing in their hands.
LEMMA Alone ==
  ASSUME OutboundInv, NEW p \in Polls, queue[p] # {}
  PROVE  /\ \A q \in Polls : q # p => queue[q] = {} /\ sending[q] = "no"
         /\ outcome[HeadOf(p)] = "none"
         /\ HeadOf(p) \in Out
         /\ inflight
  BY HeadFacts DEF OutboundInv, OneDrain, OutboundTypeOK

\* Another round of attempts.
LEMMA Rounds ==
  ASSUME NEW r \in Nat
  PROVE  MaxAttempts * r \in Nat /\ MaxAttempts * (1 + r) = MaxAttempts * r + MaxAttempts
  BY OutboundAssumption

\* When the drain leaves its head behind, no row is on its way.
LEMMA AdvanceFacts ==
  ASSUME OutboundInv, NEW p \in Polls, queue[p] # {}, Advance(p)
  PROVE  /\ queue' \in [Polls -> SUBSET (1..Len(out))]
         /\ sending' \in [Polls -> {"no", "asked", "done"}]
         /\ inflight' \in BOOLEAN
         /\ \A q \in Polls : sending'[q] = "no"
         /\ \A q \in Polls : q # p => queue'[q] = {}
         /\ queue'[p] = queue[p] \ {HeadOf(p)}
         /\ inflight' <=> queue'[p] # {}
  <1>1. OutboundTypeOK /\ HeadOf(p) \in queue[p]
    BY HeadFacts DEF OutboundInv
  <1>2. queue'[p] = queue[p] \ {HeadOf(p)} /\ sending'[p] = "no"
    BY <1>1 DEF Advance, OutboundTypeOK
  <1>3. \A q \in Polls : q # p => queue'[q] = {} /\ sending'[q] = "no"
    BY <1>1, Alone DEF Advance, OutboundTypeOK
  <1>4. queue' \in [Polls -> SUBSET (1..Len(out))] /\ sending' \in [Polls -> {"no", "asked", "done"}]
    BY <1>1 DEF Advance, OutboundTypeOK
  <1>5. inflight' <=> queue'[p] # {}
    BY <1>1, <1>2 DEF Advance
  <1>6. inflight' \in BOOLEAN
    BY Zenon DEF Advance
  <1> QED BY <1>2, <1>3, <1>4, <1>5, <1>6

\* One drain at a time, whatever outcome the head was given.
LEMMA AdvanceOneDrain ==
  ASSUME OutboundInv, NEW p \in Polls, queue[p] # {}, Advance(p),
         \A m \in Out : m # HeadOf(p) => outcome'[m] = outcome[m]
  PROVE  OneDrain'
  <1>1. \A m \in queue'[p] : m \in Out /\ m # HeadOf(p) /\ m \in queue[p]
    BY AdvanceFacts, QueueFacts DEF OutboundInv
  <1>2. \A m \in queue'[p] : outcome'[m] = "none"
    BY <1>1 DEF OutboundInv, OneDrain
  <1> QED BY <1>2, AdvanceFacts DEF OneDrain

\* The head is left behind settled or refused.
LEMMA AdvanceOrder ==
  ASSUME OutboundInv, NEW p \in Polls, queue[p] # {}, Advance(p),
         \A m \in Out : m # HeadOf(p) => outcome'[m] = outcome[m] /\ refused'[m] = refused[m],
         outcome'[HeadOf(p)] # "none" \/ refused'[HeadOf(p)] > 0
  PROVE  OrderInv'
  <1>1. SUFFICES ASSUME NEW m \in queue'[p], NEW n \in 1..(m - 1), n \notin queue'[p]
                 PROVE  outcome'[n] # "none" \/ refused'[n] > 0
    BY AdvanceFacts DEF OrderInv
  <1>2. CASE n = HeadOf(p)
    BY <1>2
  <1>3. CASE n # HeadOf(p)
    <2>1. m \in queue[p] /\ n \notin queue[p]
      BY <1>1, <1>3, AdvanceFacts
    <2>2. n \in Out
      BY <2>1, QueueFacts, OutboundAssumption DEF OutboundInv, Out
    <2> QED BY <1>3, <2>1, <2>2 DEF OutboundInv, OrderInv
  <1> QED BY <1>2, <1>3

\* A row that is settled.
LEMMA SettleInv ==
  ASSUME OutboundInv, NEW p \in Polls, queue[p] # {}, Settle(p),
         UNCHANGED <<taskVars, out, shown, refused, restarts>>
  PROVE  OutboundInv'
<1> DEFINE h == HeadOf(p)
<1>0. /\ OutboundTypeOK /\ Advance(p) /\ h \in Out /\ outcome[h] = "none"
  BY Alone DEF OutboundInv, Settle
<1>1. outcome' = [outcome EXCEPT ![h] = "delivered"] /\ attempts' = [attempts EXCEPT ![h] = 0]
  BY <1>0 DEF Settle, Record
<1> HIDE DEF h
<1>2. TasksInv'
  BY DEF OutboundInv, taskVars, TasksInv, TasksTypeOK, SeriesNotForgotten
<1>3. OutboundTypeOK'
  BY <1>0, <1>1, <1>2, AdvanceFacts DEF OutboundTypeOK, TasksInv
<1>4. OneDrain'
  BY <1>0, <1>1, AdvanceOneDrain DEF OutboundTypeOK, h
<1>5. ShownInv'
  <2>1. \A m \in Out : m # h => outcome'[m] = outcome[m]
    BY <1>0, <1>1 DEF OutboundTypeOK
  <2>2. outcome'[h] # "none"
    BY <1>0, <1>1 DEF OutboundTypeOK
  <2>3. \A m \in Out : m # h => ~ \E q \in Polls : sending[q] = "done" /\ HeadOf(q) = m
    BY Alone DEF h
  <2>4. \A m \in Out : outcome'[m] = "none" => shown[m] <= refused[m] + restarts
    <3>1. \A m \in Out : shown[m] \in Nat /\ refused[m] \in Nat /\ restarts \in Nat
      BY <1>0 DEF OutboundTypeOK
    <3> QED BY <2>1, <2>2, <2>3, <3>1 DEF ShownInv, OutboundInv
  <2>5. \A m \in Out : shown'[m] \in Nat /\ refused'[m] \in Nat /\ restarts' \in Nat
    BY <1>3 DEF OutboundTypeOK
  <2> QED BY <2>4, <2>5 DEF ShownInv
<1>6. NoDuplicate'
  BY DEF OutboundInv, NoDuplicate
<1>7. AttemptsInv' /\ GivenUpAfterAttempts'
  BY <1>0, <1>1, OutboundAssumption DEF OutboundInv, OutboundTypeOK, AttemptsInv, GivenUpAfterAttempts
<1>8. OrderInv'
  <2>1. \A m \in Out : m # h => outcome'[m] = outcome[m]
    BY <1>0, <1>1 DEF OutboundTypeOK
  <2>2. outcome'[h] # "none"
    BY <1>0, <1>1 DEF OutboundTypeOK
  <2> QED BY <1>0, <2>1, <2>2, AdvanceOrder DEF h
<1> QED BY <1>2, <1>3, <1>4, <1>5, <1>6, <1>7, <1>8 DEF OutboundInv

\* A row whose delivery threw.
LEMMA ThrowInv ==
  ASSUME OutboundInv, NEW p \in Polls, queue[p] # {}, Throw(p),
         UNCHANGED <<taskVars, out, shown, restarts>>
  PROVE  OutboundInv'
<1> DEFINE h == HeadOf(p)
           n == attempts[h] + 1
<1>0. /\ OutboundTypeOK /\ Advance(p) /\ h \in Out /\ outcome[h] = "none"
  BY Alone DEF OutboundInv, Throw
<1>1. /\ refused' = [refused EXCEPT ![h] = @ + 1]
      /\ \/ /\ n >= MaxAttempts
            /\ outcome' = [outcome EXCEPT ![h] = "failed"] /\ attempts' = [attempts EXCEPT ![h] = 0]
         \/ /\ n < MaxAttempts
            /\ outcome' = outcome /\ attempts' = [attempts EXCEPT ![h] = n]
  BY <1>0, OutboundAssumption DEF Throw, Record, OutboundTypeOK
<1> HIDE DEF h
<1>2. TasksInv'
  BY DEF OutboundInv, taskVars, TasksInv, TasksTypeOK, SeriesNotForgotten
<1>3. OutboundTypeOK'
  <2>1. refused' \in [Out -> Nat]
    BY <1>0, <1>1 DEF OutboundTypeOK
  <2>2. outcome' \in [Out -> {"none", "delivered", "failed"}]
    BY <1>0, <1>1 DEF OutboundTypeOK
  <2>3. attempts' \in [Out -> Nat]
    <3>1. attempts[h] + 1 \in Nat /\ 0 \in Nat /\ attempts \in [Out -> Nat]
      BY <1>0 DEF OutboundTypeOK
    <3> QED BY <1>0, <1>1, <3>1
  <2> QED BY <1>0, <1>2, <2>1, <2>2, <2>3, AdvanceFacts DEF OutboundTypeOK, TasksInv
<1>3a. \A m \in Out : m # h => outcome'[m] = outcome[m] /\ refused'[m] = refused[m] /\ attempts'[m] = attempts[m]
  BY <1>0, <1>1 DEF OutboundTypeOK
<1>3b. refused'[h] = refused[h] + 1
  BY <1>0, <1>1 DEF OutboundTypeOK
<1>4. OneDrain'
  BY <1>0, <1>3a, AdvanceOneDrain DEF h
<1>5. ShownInv'
  <2>1. \A m \in Out : m # h => ~ \E q \in Polls : sending[q] = "done" /\ HeadOf(q) = m
    BY Alone DEF h
  <2>2. ASSUME NEW m \in Out, outcome'[m] = "none" PROVE shown[m] <= refused'[m] + restarts
    <3>1. outcome[m] = "none" /\ shown[m] \in Nat /\ refused[m] \in Nat /\ restarts \in Nat
      BY <1>0, <1>3a, <2>2 DEF OutboundTypeOK
    <3> QED BY <1>3a, <1>3b, <2>1, <2>2, <3>1 DEF ShownInv, OutboundInv
  <2>3. \A m \in Out : shown[m] \in Nat /\ refused'[m] \in Nat /\ restarts \in Nat
    BY <1>3 DEF OutboundTypeOK
  <2> QED BY <2>2, <2>3 DEF ShownInv
<1>6. NoDuplicate'
  <2> SUFFICES ASSUME NEW m \in Out PROVE shown[m] <= 1 + refused'[m] + restarts
    BY DEF NoDuplicate
  <2>1. /\ shown[m] \in Nat /\ refused[m] \in Nat /\ restarts \in Nat
        /\ shown[m] <= 1 + refused[m] + restarts
    BY <1>0 DEF OutboundTypeOK, OutboundInv, NoDuplicate
  <2> QED BY <1>3a, <1>3b, <2>1
<1>7. AttemptsInv'
  BY <1>0, <1>1, <1>3a, <1>3b, Rounds, OutboundAssumption DEF OutboundInv, OutboundTypeOK, AttemptsInv
<1>8. GivenUpAfterAttempts'
  <2>1. refused'[h] <= MaxAttempts * (1 + restarts) /\ (outcome'[h] = "failed" => refused'[h] >= MaxAttempts)
    BY <1>0, <1>1, <1>3b, Rounds, OutboundAssumption DEF OutboundInv, OutboundTypeOK, AttemptsInv
  <2> QED BY <1>3a, <2>1 DEF OutboundInv, GivenUpAfterAttempts
<1>9. OrderInv'
  <2>1. refused'[h] > 0
    BY <1>0, <1>3b DEF OutboundTypeOK
  <2> QED BY <1>0, <1>3a, <2>1, AdvanceOrder DEF h
<1> QED BY <1>2, <1>3, <1>4, <1>5, <1>6, <1>7, <1>8, <1>9 DEF OutboundInv

\* A message is shown, or a request applied, once per attempt.
LEMMA ShowInv ==
  ASSUME OutboundInv, NEW p \in Polls, queue[p] # {}, sending[p] # "done",
         sending' = [sending EXCEPT ![p] = "done"],
         shown' = [shown EXCEPT ![HeadOf(p)] = @ + 1],
         TasksInv',
         UNCHANGED <<out, outcome, attempts, inflight, queue, refused, restarts>>
  PROVE  OutboundInv'
<1> DEFINE h == HeadOf(p)
<1>0. OutboundTypeOK /\ h \in Out /\ outcome[h] = "none"
  BY Alone DEF OutboundInv
<1>1. HeadOf(p)' = h
  BY DEF HeadOf
<1> HIDE DEF h
<1>2. shown'[h] = shown[h] + 1 /\ \A m \in Out : m # h => shown'[m] = shown[m]
  BY <1>0 DEF OutboundTypeOK, h
<1>3. OutboundTypeOK'
  <2>1. sending' \in [Polls -> {"no", "asked", "done"}]
    BY <1>0 DEF OutboundTypeOK
  <2>2. shown' \in [Out -> Nat]
    <3>1. shown[h] + 1 \in Nat
      BY <1>0 DEF OutboundTypeOK
    <3> QED BY <1>0, <3>1 DEF OutboundTypeOK, h
  <2> QED BY <1>0, <2>1, <2>2 DEF OutboundTypeOK, TasksInv
<1>4. OneDrain'
  BY <1>0 DEF OutboundInv, OneDrain, OutboundTypeOK
<1>5. shown[h] <= refused[h] + restarts
  <2>1. ~ \E q \in Polls : sending[q] = "done" /\ HeadOf(q) = h
    BY Alone
  <2> QED BY <1>0, <2>1 DEF OutboundInv, ShownInv, OutboundTypeOK
<1>6. ShownInv'
  <2>1. sending'[p] = "done"
    BY <1>0 DEF OutboundTypeOK
  <2>2. \A m \in Out : m # h => ~ \E q \in Polls : sending[q] = "done" /\ HeadOf(q) = m
    BY Alone DEF h
  <2>3. \A m \in Out : m # h /\ outcome[m] = "none" => shown[m] <= refused[m] + restarts
    <3>1. \A m \in Out : shown[m] \in Nat /\ refused[m] \in Nat /\ restarts \in Nat
      BY <1>0 DEF OutboundTypeOK
    <3> QED BY <2>2, <3>1 DEF OutboundInv, ShownInv
  <2>4. \A m \in Out : shown'[m] \in Nat /\ refused'[m] \in Nat /\ restarts' \in Nat
                     /\ shown[m] \in Nat
    BY <1>0, <1>3 DEF OutboundTypeOK
  <2>5. \A m \in Out : m # h /\ outcome'[m] = "none" => shown'[m] <= refused'[m] + restarts'
    BY <1>2, <2>3
  <2>6. shown'[h] <= refused'[h] + restarts' + 1
    BY <1>0, <1>2, <1>5, <2>4
  <2>7. \E q \in Polls : sending'[q] = "done" /\ HeadOf(q)' = h
    BY <1>1, <2>1
  <2> QED BY <2>4, <2>5, <2>6, <2>7 DEF ShownInv
<1>7. NoDuplicate'
  BY <1>0, <1>2, <1>5 DEF OutboundInv, NoDuplicate, OutboundTypeOK
<1>8. AttemptsInv' /\ GivenUpAfterAttempts'
  BY DEF OutboundInv, AttemptsInv, GivenUpAfterAttempts
<1>9. OrderInv'
  BY DEF OutboundInv, OrderInv
<1> QED BY <1>3, <1>4, <1>6, <1>7, <1>8, <1>9 DEF OutboundInv

\* What happens to the tasks alone does not disturb the drain.
LEMMA TasksMoveInv ==
  ASSUME OutboundInv, TasksInv', UNCHANGED outVars
  PROVE  OutboundInv'
<1>1. OutboundTypeOK'
  BY DEF OutboundInv, OutboundTypeOK, TasksInv, outVars, deliveryVars
<1>2. /\ OneDrain' /\ OrderInv' /\ ShownInv' /\ NoDuplicate' /\ AttemptsInv'
      /\ GivenUpAfterAttempts'
  BY DEF OutboundInv, OneDrain, OrderInv, ShownInv, NoDuplicate, AttemptsInv, GivenUpAfterAttempts,
         HeadOf, outVars, deliveryVars
<1> QED BY <1>1, <1>2 DEF OutboundInv

\* A step that leaves the tasks alone keeps their invariant.
LEMMA TasksUnchanged == TasksInv /\ UNCHANGED taskVars => TasksInv'
  BY DEF taskVars, TasksInv, TasksTypeOK, SeriesNotForgotten

\* A restart forgets the drain and its attempts.
LEMMA RestartInv ==
  ASSUME OutboundInv, TasksInv', ForgetDrains
  PROVE  OutboundInv'
<1>0. OutboundTypeOK
  BY DEF OutboundInv
<1>1. OutboundTypeOK'
  <2>1. inflight' \in BOOLEAN
    BY Zenon DEF ForgetDrains
  <2> QED BY <1>0, <2>1 DEF ForgetDrains, OutboundTypeOK, TasksInv
<1>2. OneDrain'
  BY <1>0 DEF ForgetDrains, OneDrain, OutboundTypeOK
<1>3. ShownInv'
  <2>2. \A m \in Out : shown[m] \in Nat /\ refused[m] \in Nat /\ restarts \in Nat
    BY <1>0 DEF OutboundTypeOK
  <2>3. \A m \in Out : shown[m] <= 1 + refused[m] + restarts
    BY DEF OutboundInv, NoDuplicate
  <2> QED BY <2>2, <2>3 DEF ForgetDrains, ShownInv
<1>4. NoDuplicate'
  BY <1>0 DEF OutboundInv, NoDuplicate, OutboundTypeOK, ForgetDrains
<1>5. AttemptsInv' /\ GivenUpAfterAttempts'
  <2> SUFFICES ASSUME NEW m \in Out
               PROVE  /\ outcome[m] = "none" => 0 <= refused[m] /\ refused[m] <= MaxAttempts * (1 + restarts)
                      /\ outcome[m] = "failed" => refused[m] >= MaxAttempts
                      /\ refused[m] <= MaxAttempts * (1 + (1 + restarts))
    BY <1>0, OutboundAssumption DEF ForgetDrains, AttemptsInv, GivenUpAfterAttempts, OutboundTypeOK
  <2>1. /\ restarts \in Nat /\ refused[m] \in Nat /\ MaxAttempts \in Nat
        /\ refused[m] <= MaxAttempts * (1 + restarts)
        /\ outcome[m] = "failed" => refused[m] >= MaxAttempts
    BY <1>0, OutboundAssumption DEF OutboundInv, GivenUpAfterAttempts, OutboundTypeOK
  <2>2. /\ MaxAttempts * (1 + restarts) \in Nat
        /\ MaxAttempts * (1 + (1 + restarts)) = MaxAttempts * (1 + restarts) + MaxAttempts
    BY <2>1, Rounds
  <2> QED BY <2>1, <2>2
<1>6. OrderInv'
  BY <1>0 DEF ForgetDrains, OrderInv, OutboundTypeOK
<1> QED BY <1>1, <1>2, <1>3, <1>4, <1>5, <1>6 DEF OutboundInv

-----------------------------------------------------------------------------
(***************************************************************************)
(* Steps of the specification.                                             *)
(***************************************************************************)
\* A new row is nobody's yet.
LEMMA WriteInv ==
  ASSUME OutboundInv, NEW k \in Requests \cup ChatKinds, NEW s \in Series, Write(k, s)
  PROVE  OutboundInv'
<1>0. OutboundTypeOK
  BY DEF OutboundInv
<1>1. /\ out' \in Seq(OutRow) /\ Len(out') = Len(out) + 1 /\ Len(out') <= MaxOut
      /\ Len(out) \in Nat
  BY <1>0, OutboundAssumption DEF Write, OutboundTypeOK, OutRow
<1>2. queue' \in [Polls -> SUBSET (1..Len(out'))]
  <2>1. 1..Len(out) \subseteq 1..Len(out')
    BY <1>1
  <2>2. queue' = queue /\ queue \in [Polls -> SUBSET (1..Len(out))]
    BY <1>0 DEF Write, deliveryVars, OutboundTypeOK
  <2> QED BY <2>1, <2>2
<1>3. TasksInv'
  BY TasksUnchanged DEF Write, OutboundInv
<1>4. OutboundTypeOK'
  BY <1>0, <1>1, <1>2, <1>3 DEF Write, deliveryVars, OutboundTypeOK, TasksInv
<1>5. /\ OneDrain' /\ OrderInv' /\ ShownInv' /\ NoDuplicate' /\ AttemptsInv'
      /\ GivenUpAfterAttempts'
  BY DEF OutboundInv, OneDrain, OrderInv, ShownInv, NoDuplicate, AttemptsInv,
         GivenUpAfterAttempts, HeadOf, Write, deliveryVars
<1> QED BY <1>3, <1>4, <1>5 DEF OutboundInv

\* The in-flight guard keeps a second drain out.
LEMMA PollInv ==
  ASSUME OutboundInv, NEW p \in Polls, Poll(p)
  PROVE  OutboundInv'
<1>0. /\ OutboundTypeOK
      /\ \A q \in Polls : queue[q] = {} /\ sending[q] = "no"
      /\ Undelivered \subseteq 1..Len(out)
  BY DEF OutboundInv, OneDrain, Poll, Undelivered
<1>1. /\ queue'[p] = Undelivered /\ queue'[p] # {}
      /\ \A q \in Polls : q # p => queue'[q] = {}
      /\ queue' \in [Polls -> SUBSET (1..Len(out))]
  BY <1>0 DEF Poll, OutboundTypeOK
<1>2. inflight' = TRUE
  BY DEF Poll
<1>3. TasksInv'
  BY TasksUnchanged DEF Poll, OutboundInv
<1>4. OutboundTypeOK'
  BY <1>0, <1>1, <1>2, <1>3 DEF Poll, OutboundTypeOK, TasksInv
<1>5. OneDrain'
  BY <1>0, <1>1, <1>2 DEF Poll, OneDrain, Undelivered
<1>6. OrderInv'
  <2> SUFFICES ASSUME NEW m \in queue'[p], NEW n \in 1..(m - 1), n \notin queue'[p]
               PROVE  outcome[n] # "none"
    BY <1>1 DEF OrderInv, Poll
  <2>1. m \in 1..Len(out) /\ Len(out) \in Nat
    BY <1>0, <1>1 DEF OutboundTypeOK
  <2>2. n \in 1..Len(out)
    BY <2>1
  <2> QED BY <1>1, <2>2 DEF Undelivered
<1>7. ShownInv'
  BY <1>0 DEF Poll, OutboundInv, ShownInv
<1>8. NoDuplicate' /\ AttemptsInv' /\ GivenUpAfterAttempts'
  BY DEF Poll, OutboundInv, NoDuplicate, AttemptsInv, GivenUpAfterAttempts
<1> QED BY <1>3, <1>4, <1>5, <1>6, <1>7, <1>8 DEF OutboundInv

\* deliverMessage keeps it, on each of its branches.
LEMMA DeliverInv ==
  ASSUME OutboundInv, NEW p \in Polls, Deliver(p)
  PROVE  OutboundInv'
<1>0. OutboundTypeOK /\ queue[p] # {} /\ sending[p] = "no"
  BY DEF OutboundInv, Deliver, Turn
<1>1. /\ sending' \in [Polls -> {"no", "asked", "done"}]
      /\ \A q \in Polls : sending'[q] = "done" <=> sending[q] = "done"
      /\ \A q \in Polls : q # p => sending'[q] = sending[q]
  BY <1>0 DEF Deliver, OutboundTypeOK
<1>2. TasksInv'
  BY TasksUnchanged DEF Deliver, OutboundInv
<1>3. OutboundTypeOK'
  BY <1>0, <1>1, <1>2 DEF Deliver, OutboundTypeOK, TasksInv
<1>4. OneDrain'
  BY <1>0, <1>1 DEF Deliver, OneDrain, OutboundInv
<1>5. ShownInv'
  BY <1>1 DEF Deliver, OutboundInv, ShownInv, HeadOf
<1>6. OrderInv' /\ NoDuplicate' /\ AttemptsInv' /\ GivenUpAfterAttempts'
  BY DEF Deliver, OutboundInv, OrderInv, NoDuplicate, AttemptsInv, GivenUpAfterAttempts
<1> QED BY <1>2, <1>3, <1>4, <1>5, <1>6 DEF OutboundInv

\* A request of the agent is applied to the tasks.
LEMMA HandleInv ==
  ASSUME OutboundInv, NEW p \in Polls, HandleSystemAction(p)
  PROVE  OutboundInv'
<1>0. OutboundTypeOK /\ queue[p] # {} /\ sending[p] = "no" /\ HeadOf(p) \in 1..Len(out)
  BY HeadFacts DEF OutboundInv, HandleSystemAction, Turn
<1>1. out[HeadOf(p)].series \in Series
  <2>1. \A i \in 1..Len(out) : out[i] \in OutRow
    BY <1>0 DEF OutboundTypeOK
  <2> QED BY <1>0, <2>1 DEF OutRow
<1>2. TasksInv'
  BY <1>1, RequestsTaskInv DEF HandleSystemAction, Apply, OutboundInv
<1> QED BY <1>0, <1>2, ShowInv DEF HandleSystemAction

\* Every step of a poll keeps it.
LEMMA PollStepInv ==
  ASSUME OutboundInv, NEW p \in Polls, PollStep(p)
  PROVE  OutboundInv'
<1>1. CASE Poll(p)
  BY <1>1, PollInv
<1>2. CASE Deliver(p)
  BY <1>2, DeliverInv
<1>3. CASE Show(p)
  <2>1. queue[p] # {}
    BY <1>3 DEF Show, OutboundInv, OneDrain
  <2>2. TasksInv'
    BY <1>3, TasksUnchanged DEF Show, OutboundInv
  <2> QED BY <1>3, <2>1, <2>2, ShowInv DEF Show
<1>4. CASE Resolve(p)
  <2>1. queue[p] # {}
    BY <1>4 DEF Resolve, OutboundInv, OneDrain
  <2> QED BY <1>4, <2>1, SettleInv DEF Resolve
<1>5. CASE Reject(p)
  <2>1. queue[p] # {}
    BY <1>5 DEF Reject, OutboundInv, OneDrain
  <2> QED BY <1>5, <2>1, ThrowInv DEF Reject
<1>6. CASE DeliverNothing(p)
  BY <1>6, SettleInv DEF DeliverNothing, Turn
<1>7. CASE DeliverDenied(p)
  BY <1>7, ThrowInv DEF DeliverDenied, Turn
<1>8. CASE HandleSystemAction(p)
  BY <1>8, HandleInv
<1>9. CASE ScheduleAgain(p)
  BY <1>9, ThrowInv DEF ScheduleAgain, Turn
<1> QED BY <1>1, <1>2, <1>3, <1>4, <1>5, <1>6, <1>7, <1>8, <1>9 DEF PollStep

\* Both kinds of restart keep it.
LEMMA RestartStepInv ==
  ASSUME OutboundInv, HostRestart \/ HostRestartInFanOut
  PROVE  OutboundInv'
<1>1. CASE HostRestart
  <2>1. TasksInv'
    BY <1>1 DEF HostRestart, SweepForgotten, OutboundInv, TasksInv, TasksTypeOK, SeriesNotForgotten
  <2> QED BY <1>1, <2>1, RestartInv DEF HostRestart
<1>2. CASE HostRestartInFanOut
  BY <1>2, CrashTaskInv, RestartInv DEF HostRestartInFanOut, OutboundInv
<1> QED BY <1>1, <1>2

\* Every step keeps the inductive invariant.
LEMMA NextInv == OutboundInv /\ [Next]_vars => OutboundInv'
<1> SUFFICES ASSUME OutboundInv, [Next]_vars PROVE OutboundInv'
  OBVIOUS
<1>1. CASE \E k \in Requests \cup ChatKinds, s \in Series : Write(k, s)
  BY <1>1, WriteInv
<1>2. CASE \E p \in Polls : PollStep(p)
  BY <1>2, PollStepInv
<1>3. CASE TaskStep
  BY <1>3, SweepTaskInv, ContainerTaskInv, TasksMoveInv DEF TaskStep, OutboundInv
<1>4. CASE HostRestart \/ HostRestartInFanOut
  BY <1>4, RestartStepInv
<1>5. CASE UNCHANGED vars
  BY <1>5, TasksUnchanged, TasksMoveInv DEF vars, OutboundInv
<1> QED BY <1>1, <1>2, <1>3, <1>4, <1>5 DEF Next
-----------------------------------------------------------------------------
(***************************************************************************)
(* One row of a series carries the recurrence.                             *)
(***************************************************************************)
\* The rows of a series that will be cloned, or that an update could make so.
Carriers(s) == {x \in RowsOf(s) : x \in recurs \/ task[x] \in {"pending", "paused"}}

\* Rows are written from the first on, an unwritten one has no recurrence, and
\* only a fan-out that stops half-way leaves a second carrier.
CarrierInv ==
  \A s \in Series :
    /\ Schedulable(s) => \A x \in RowsOf(s) : task[x] = "absent"
    /\ \A x \in RowsOf(s) \cap recurs : task[x] # "absent"
    /\ Cardinality(Carriers(s)) <= 1 + fanFaults

\* A series has MaxRows rows, so its carriers can be counted.
LEMMA CarriersFinite ==
  ASSUME NEW s \in Series
  PROVE  /\ IsFiniteSet(RowsOf(s))
         /\ IsFiniteSet(Carriers(s)) /\ Cardinality(Carriers(s)) \in Nat
<1>0. MaxRows \in Int
  BY TasksAssumption
<1>1. IsFiniteSet({s}) /\ IsFiniteSet(1..MaxRows)
  <2>1. IsFiniteSet({s})
    BY FS_Singleton
  <2>2. IsFiniteSet(1..MaxRows)
    BY <1>0, FS_Interval
  <2> QED BY <2>1, <2>2
<1>2. IsFiniteSet(RowsOf(s))
  BY <1>1, FS_Product DEF RowsOf
<1>3. Carriers(s) \subseteq RowsOf(s)
  BY DEF Carriers
<1> QED BY <1>2, <1>3, FS_Subset, FS_CardinalityType

\* Carriers that are among the ones of before are no more than they were.
LEMMA CarriersShrink ==
  ASSUME CarrierInv, fanFaults \in Nat, NEW s \in Series, NEW S \in SUBSET Carriers(s)
  PROVE  Cardinality(S) <= 1 + fanFaults
<1>1. Cardinality(S) <= Cardinality(Carriers(s)) /\ Cardinality(S) \in Nat
  BY CarriersFinite, FS_Subset, FS_CardinalityType
<1> QED BY <1>1, CarriersFinite DEF CarrierInv

\* A step that writes no row and gives none a recurrence that was not live.
LEMMA CarriersKept ==
  ASSUME TasksInv, TasksInv', CarrierInv, fanFaults' = fanFaults,
         \A x \in Row : /\ task'[x] = "absent" <=> task[x] = "absent"
                        /\ task'[x] \in {"pending", "paused"} => task[x] \in {"pending", "paused"}
                        /\ x \in recurs' => x \in recurs \/ task[x] \in {"pending", "paused"}
  PROVE  CarrierInv'
<1> SUFFICES ASSUME NEW s \in Series
             PROVE  /\ Schedulable(s)' => \A x \in RowsOf(s) : task'[x] = "absent"
                    /\ \A x \in RowsOf(s) \cap recurs' : task'[x] # "absent"
                    /\ Cardinality(Carriers(s)') <= 1 + fanFaults
  BY DEF CarrierInv, RowsOf
<1>1. fanFaults \in Nat
  BY DEF TasksInv, TasksTypeOK
<1>2. Carriers(s)' \in SUBSET Carriers(s)
  BY RowFacts DEF Carriers
<1>3. Cardinality(Carriers(s)') <= 1 + fanFaults
  BY <1>1, <1>2, CarriersShrink
<1> QED BY <1>3, RowFacts DEF CarrierInv, Schedulable

\* The first row of a series is its only one.
LEMMA ScheduleCarrier ==
  ASSUME TasksInv, CarrierInv, NEW z \in Series, NEW b \in BOOLEAN, ScheduleTask(z, b)
  PROVE  CarrierInv'
<1> SUFFICES ASSUME NEW s \in Series
             PROVE  /\ Schedulable(s)' => \A x \in RowsOf(s) : task'[x] = "absent"
                    /\ \A x \in RowsOf(s) \cap recurs' : task'[x] # "absent"
                    /\ Cardinality(Carriers(s)') <= 1 + fanFaults
  BY DEF CarrierInv, RowsOf, ScheduleTask
<1>0. fanFaults \in Nat /\ task \in [Row -> {"absent", "pending", "paused", "completed", "failed"}]
  BY DEF TasksInv, TasksTypeOK
<1>1. CASE s = z
  <2>1. Carriers(s)' \subseteq {<<s, 1>>}
    BY <1>0, <1>1, RowFacts DEF ScheduleTask, Carriers, CarrierInv, SetTask
  <2>2. Cardinality({<<s, 1>>}) = 1 /\ IsFiniteSet({<<s, 1>>})
    BY FS_Singleton
  <2>3. Cardinality(Carriers(s)') <= 1 /\ Cardinality(Carriers(s)') \in Nat
    BY <2>1, <2>2, FS_Subset, FS_CardinalityType
  <2>4. ~ Schedulable(s)' /\ \A x \in RowsOf(s) \cap recurs' : task'[x] # "absent"
    BY <1>0, <1>1, RowFacts DEF ScheduleTask, Schedulable, CarrierInv, SetTask
  <2> QED BY <1>0, <2>3, <2>4
<1>2. CASE s # z
  <2>1. Carriers(s)' \in SUBSET Carriers(s)
    BY <1>0, <1>2, RowFacts DEF ScheduleTask, Carriers, SetTask
  <2>2. Cardinality(Carriers(s)') <= 1 + fanFaults
    BY <1>0, <2>1, CarriersShrink
  <2> QED BY <1>0, <1>2, <2>2, RowFacts DEF ScheduleTask, Schedulable, CarrierInv, SetTask
<1> QED BY <1>1, <1>2

\* Every request of the agent leaves a series with the carriers it allows.
LEMMA RequestsCarrier ==
  ASSUME TasksInv, TasksInv', CarrierInv, NEW z \in Series, NEW b \in BOOLEAN,
         \/ ScheduleTask(z, b) \/ CancelTask(z) \/ PauseTask(z) \/ ResumeTask(z)
         \/ UpdateTask(z, b)
  PROVE  CarrierInv'
<1> DEFINE Kept == /\ fanFaults' = fanFaults
                   /\ \A x \in Row :
                        /\ task'[x] = "absent" <=> task[x] = "absent"
                        /\ task'[x] \in {"pending", "paused"} => task[x] \in {"pending", "paused"}
                        /\ x \in recurs' => x \in recurs \/ task[x] \in {"pending", "paused"}
<1>0. task \in [Row -> {"absent", "pending", "paused", "completed", "failed"}]
  BY DEF TasksInv, TasksTypeOK
<1>1. CASE ScheduleTask(z, b)
  BY <1>1, ScheduleCarrier
<1>2. CASE CancelTask(z)
  <2>1. Kept BY <1>0, <1>2 DEF CancelTask, SetTask, InStatus
  <2> QED BY <2>1, CarriersKept
<1>3. CASE PauseTask(z)
  <2>1. Kept BY <1>0, <1>3 DEF PauseTask, SetTask, InStatus
  <2> QED BY <2>1, CarriersKept
<1>4. CASE ResumeTask(z)
  <2>1. Kept BY <1>0, <1>4 DEF ResumeTask, SetTask, InStatus
  <2> QED BY <2>1, CarriersKept
<1>5. CASE UpdateTask(z, b)
  <2>1. Kept BY <1>0, <1>5 DEF UpdateTask, InStatus
  <2> QED BY <2>1, CarriersKept
<1> QED BY <1>1, <1>2, <1>3, <1>4, <1>5

\* A fan-out that is not cut short hands the recurrence on.
LEMMA FanOutCarrier ==
  ASSUME TasksInv, CarrierInv, NEW x \in Row, FanOut(x)
  PROVE  CarrierInv'
<1>0. /\ NewRow(x[1]) \in Row /\ NewRow(x[1]) \in RowsOf(x[1])
      /\ task[NewRow(x[1])] = "absent" /\ task[x] = "completed" /\ x \in recurs
      /\ task \in [Row -> {"absent", "pending", "paused", "completed", "failed"}]
      /\ fanFaults \in Nat
  BY NewRowFacts DEF FanOut, TasksInv, TasksTypeOK
<1> SUFFICES ASSUME NEW s \in Series
             PROVE  /\ Schedulable(s)' => \A y \in RowsOf(s) : task'[y] = "absent"
                    /\ \A y \in RowsOf(s) \cap recurs' : task'[y] # "absent"
                    /\ Cardinality(Carriers(s)') <= 1 + fanFaults
  BY DEF CarrierInv, RowsOf, FanOut
<1>1. CASE s = x[1]
  <2>0. x \in RowsOf(s) /\ NewRow(s) \in RowsOf(s)
    BY <1>0, <1>1, RowFacts
  <2>a. PICK n : n = NewRow(x[1])
    OBVIOUS
  <2>b. task' = [y \in Row |-> IF y = n THEN "pending" ELSE task[y]] /\ recurs' = (recurs \cup {n}) \ {x}
    BY <2>a DEF FanOut, SetTask
  <2>c. n \in RowsOf(s) /\ n \in Row /\ RowsOf(s) \subseteq Row /\ n # x
    BY <1>0, <1>1, <2>a, RowFacts
  <2>1. Carriers(s)' = (Carriers(s) \ {x}) \cup {n}
    <3>1. Carriers(s)' = {y \in RowsOf(s) : y \in recurs' \/ task'[y] \in {"pending", "paused"}}
      BY DEF Carriers, RowsOf
    <3>2. ASSUME NEW y \in RowsOf(s)
          PROVE  task'[y] = IF y = n THEN "pending" ELSE task[y]
      BY <2>b, <2>c
    <3> QED BY <1>0, <2>b, <2>c, <3>1, <3>2 DEF Carriers
  <2>2. /\ IsFiniteSet(Carriers(s) \ {x})
        /\ Cardinality(Carriers(s) \ {x}) = Cardinality(Carriers(s)) - 1
    BY <1>0, <2>0, CarriersFinite, FS_RemoveElement DEF Carriers
  <2>3. n \notin Carriers(s) \ {x}
    BY <1>0, <1>1, <2>0, <2>a DEF Carriers, CarrierInv
  <2>4. Cardinality(Carriers(s)') = Cardinality(Carriers(s))
    <3> DEFINE rest == Carriers(s) \ {x}
    <3>1. Cardinality(rest \cup {n}) = Cardinality(rest) + 1
      <4> HIDE DEF rest
      <4> QED BY <2>2, <2>3, FS_AddElement DEF rest
    <3> QED BY <2>1, <2>2, <3>1, CarriersFinite
  <2>5. ~ Schedulable(s)'
    BY <1>0, <1>1, <2>0, RowFacts DEF FanOut, Schedulable, CarrierInv, SetTask
  <2>6. \A y \in RowsOf(s) \cap recurs' : task'[y] # "absent"
    BY <1>0, <1>1, <2>0, RowFacts DEF FanOut, CarrierInv, SetTask
  <2> QED BY <2>4, <2>5, <2>6 DEF CarrierInv
<1>2. CASE s # x[1]
  <2>1. Carriers(s)' \in SUBSET Carriers(s)
    BY <1>0, <1>2, RowFacts DEF FanOut, Carriers, SetTask
  <2>2. Cardinality(Carriers(s)') <= 1 + fanFaults
    BY <1>0, <2>1, CarriersShrink
  <2> QED BY <1>0, <1>2, <2>2, RowFacts DEF FanOut, Schedulable, CarrierInv, SetTask
<1> QED BY <1>1, <1>2

\* One that is leaves both rows, and counts.
LEMMA HalfCarrier ==
  ASSUME TasksInv, CarrierInv, NEW x \in Row, HalfFanOut(x)
  PROVE  CarrierInv'
<1>0. /\ NewRow(x[1]) \in Row /\ NewRow(x[1]) \in RowsOf(x[1])
      /\ task[NewRow(x[1])] = "absent" /\ task[x] = "completed"
      /\ task \in [Row -> {"absent", "pending", "paused", "completed", "failed"}]
      /\ fanFaults \in Nat
  BY NewRowFacts DEF HalfFanOut, TasksInv, TasksTypeOK
<1> SUFFICES ASSUME NEW s \in Series
             PROVE  /\ Schedulable(s)' => \A y \in RowsOf(s) : task'[y] = "absent"
                    /\ \A y \in RowsOf(s) \cap recurs' : task'[y] # "absent"
                    /\ Cardinality(Carriers(s)') <= 2 + fanFaults
  BY <1>0 DEF CarrierInv, RowsOf, HalfFanOut
<1>1. CASE s = x[1]
  <2>0. x \in RowsOf(s) /\ NewRow(s) \in RowsOf(s)
    BY <1>0, <1>1, RowFacts
  <2>a. PICK n : n = NewRow(x[1])
    OBVIOUS
  <2>b. task' = [y \in Row |-> IF y = n THEN "pending" ELSE task[y]] /\ recurs' = recurs \cup {n}
    BY <2>a DEF HalfFanOut, SetTask
  <2>c. n \in RowsOf(s) /\ n \in Row /\ RowsOf(s) \subseteq Row /\ n # x
    BY <1>0, <1>1, <2>a, RowFacts
  <2>1. Carriers(s)' = Carriers(s) \cup {n}
    <3>1. Carriers(s)' = {y \in RowsOf(s) : y \in recurs' \/ task'[y] \in {"pending", "paused"}}
      BY DEF Carriers, RowsOf
    <3>2. ASSUME NEW y \in RowsOf(s)
          PROVE  task'[y] = IF y = n THEN "pending" ELSE task[y]
      BY <2>b, <2>c
    <3> QED BY <1>0, <2>b, <2>c, <3>1, <3>2 DEF Carriers
  <2>2. Cardinality(Carriers(s)') <= Cardinality(Carriers(s)) + 1
    <3>1. Cardinality(Carriers(s) \cup {n}) <= Cardinality(Carriers(s)) + 1
      <4> DEFINE old == Carriers(s)
      <4>1. IsFiniteSet(old) /\ Cardinality(old) \in Nat
        BY CarriersFinite
      <4>2. Cardinality(old \cup {n}) <= Cardinality(old) + 1
        <5>1. n \notin old
          BY <1>0, <1>1, <2>0, <2>a DEF Carriers, CarrierInv
        <5> HIDE DEF old
        <5>2. Cardinality(old \cup {n}) = Cardinality(old) + 1
          BY <4>1, <5>1, FS_AddElement
        <5> QED BY <4>1, <5>2
      <4> QED BY <4>2
    <3> QED BY <2>1, <3>1
  <2>5. ~ Schedulable(s)'
    BY <1>0, <1>1, <2>0, RowFacts DEF HalfFanOut, Schedulable, CarrierInv, SetTask
  <2>6. \A y \in RowsOf(s) \cap recurs' : task'[y] # "absent"
    BY <1>0, <1>1, <2>0, RowFacts DEF HalfFanOut, CarrierInv, SetTask
  <2>7. Cardinality(Carriers(s)') <= 2 + fanFaults
    <3>1. IsFiniteSet(Carriers(s)') /\ Cardinality(Carriers(s)') \in Nat
      BY <2>1, FS_AddElement, CarriersFinite, FS_CardinalityType
    <3> QED BY <1>0, <2>2, <3>1, CarriersFinite DEF CarrierInv
  <2> QED BY <2>5, <2>6, <2>7
<1>2. CASE s # x[1]
  <2>1. Carriers(s)' \in SUBSET Carriers(s)
    BY <1>0, <1>2, RowFacts DEF HalfFanOut, Carriers, SetTask
  <2>2. Cardinality(Carriers(s)') <= 1 + fanFaults /\ Cardinality(Carriers(s)') \in Nat
    BY <1>0, <2>1, CarriersShrink, CarriersFinite, FS_Subset, FS_CardinalityType
  <2> QED BY <1>0, <1>2, <2>2, RowFacts DEF HalfFanOut, Schedulable, CarrierInv, SetTask
<1> QED BY <1>1, <1>2

\* The sweep and the container.
LEMMA TaskStepCarrier ==
  ASSUME TasksInv, TasksInv', CarrierInv, SweepStep \/ ContainerStep
  PROVE  CarrierInv'
<1> DEFINE Kept == /\ fanFaults' = fanFaults
                   /\ \A x \in Row :
                        /\ task'[x] = "absent" <=> task[x] = "absent"
                        /\ task'[x] \in {"pending", "paused"} => task[x] \in {"pending", "paused"}
                        /\ x \in recurs' => x \in recurs \/ task[x] \in {"pending", "paused"}
<1>0. /\ task \in [Row -> {"absent", "pending", "paused", "completed", "failed"}]
      /\ \A x \in Row : taskAck[x] # "none" => task[x] \in {"pending", "paused", "completed"}
  BY DEF TasksInv, TasksTypeOK
<1>1. CASE SweepSync
  <2>1. Kept BY <1>0, <1>1 DEF SweepSync, SetTask
  <2> QED BY <2>1, CarriersKept
<1>2. CASE SweepEnds
  <2>1. Kept BY <1>0, <1>2 DEF SweepEnds
  <2> QED BY <2>1, CarriersKept
<1>3. ASSUME NEW gone \in BOOLEAN, NEW spent \in SUBSET {x \in Row : taskAck[x] = "processing"},
             SweepReset(gone, spent)
      PROVE  CarrierInv'
  <2>1. Kept BY <1>0, <1>3 DEF SweepReset, SetTask
  <2> QED BY <2>1, CarriersKept
<1>4. ASSUME NEW x \in Row, FanOut(x) \/ FanOutThrows(x) PROVE CarrierInv'
  BY <1>4, FanOutCarrier, HalfCarrier DEF FanOutThrows
<1>6. ASSUME NEW x \in Row, FanOutSkips(x) PROVE CarrierInv'
  <2>1. Kept BY <1>6 DEF FanOutSkips
  <2> QED BY <2>1, CarriersKept
<1>5. CASE ContainerStep
  <2>1. Kept BY <1>0, <1>5 DEF ContainerStep, ClaimTask, CompleteTask
  <2> QED BY <2>1, CarriersKept
<1> QED BY <1>1, <1>2, <1>3, <1>4, <1>5, <1>6 DEF SweepStep

\* Every step of the program keeps the carriers counted.
LEMMA CarrierStep ==
  ASSUME OutboundInv, OutboundInv', CarrierInv, [Next]_vars
  PROVE  CarrierInv'
<1>0. TasksInv /\ TasksInv' /\ OutboundTypeOK
  BY DEF OutboundInv
<1>1. ASSUME UNCHANGED taskVars PROVE CarrierInv'
  BY <1>1 DEF taskVars, CarrierInv, Carriers, Schedulable, RowsOf
<1>2. ASSUME NEW p \in Polls, HandleSystemAction(p) PROVE CarrierInv'
  <2>1. out[HeadOf(p)].series \in Series
    <3>1. HeadOf(p) \in 1..Len(out)
      BY <1>0, <1>2, HeadFacts DEF OutboundInv, HandleSystemAction, Turn
    <3>2. \A i \in 1..Len(out) : out[i] \in OutRow
      BY <1>0 DEF OutboundTypeOK
    <3> QED BY <3>1, <3>2 DEF OutRow
  <2> QED BY <1>0, <1>2, <2>1, RequestsCarrier DEF HandleSystemAction, Apply
<1>3. CASE \E p \in Polls : PollStep(p)
  BY <1>1, <1>2, <1>3
  DEF PollStep, Poll, Deliver, Show, Resolve, Reject, DeliverNothing, DeliverDenied, ScheduleAgain
<1>4. CASE TaskStep
  BY <1>0, <1>4, TaskStepCarrier DEF TaskStep
<1>5. CASE HostRestart
  <2>1. UNCHANGED <<task, recurs, fanFaults>>
    BY <1>5 DEF HostRestart
  <2> QED BY <2>1 DEF CarrierInv, Carriers, Schedulable, RowsOf
<1>6. CASE HostRestartInFanOut
  BY <1>0, <1>6, HalfCarrier DEF HostRestartInFanOut, FanOutCrash
<1>7. CASE \E k \in Requests \cup ChatKinds, s \in Series : Write(k, s)
  BY <1>1, <1>7 DEF Write
<1>8. CASE UNCHANGED vars
  BY <1>1, <1>8 DEF vars
<1> QED BY <1>3, <1>4, <1>5, <1>6, <1>7, <1>8 DEF Next

\* No row, no carrier.
LEMMA CarrierInit == Init => CarrierInv
<1> SUFFICES ASSUME Init, NEW s \in Series
             PROVE  /\ \A x \in RowsOf(s) : task[x] = "absent"
                    /\ recurs = {}
                    /\ Cardinality(Carriers(s)) <= 1 + fanFaults
  BY DEF CarrierInv
<1>1. (\A x \in RowsOf(s) : task[x] = "absent") /\ recurs = {} /\ fanFaults = 0
  BY RowFacts DEF Init, TasksInit
<1>2. Carriers(s) = {}
  BY <1>1 DEF Carriers
<1> QED BY <1>1, <1>2, FS_EmptySet

-----------------------------------------------------------------------------
(***************************************************************************)
(* The theorems.                                                           *)
(***************************************************************************)
\* The inductive invariant of the drain and of the tasks it schedules holds in
\* every reachable state.
THEOREM OutboundInvariant == Spec => []OutboundInv
  BY InitInv, NextInv, PTL DEF Spec

\* delivery.ts, inflightDeliveries: the two polls never drain a session both.
THEOREM DrainsOnce == Spec => []OneDrain
<1>1. OutboundInv => OneDrain
  BY DEF OutboundInv
<1> QED BY <1>1, OutboundInvariant, PTL

\* A row is shown twice only behind an attempt that threw or a restart.
THEOREM ShownOnce == Spec => []NoDuplicate
<1>1. OutboundInv => NoDuplicate
  BY DEF OutboundInv
<1> QED BY <1>1, OutboundInvariant, PTL

\* delivery.ts, MAX_DELIVERY_ATTEMPTS: given up after that many refusals, and
\* refused at most that often per life of the host.
THEOREM AttemptsCounted == Spec => []GivenUpAfterAttempts
<1>1. OutboundInv => GivenUpAfterAttempts
  BY DEF OutboundInv
<1> QED BY <1>1, OutboundInvariant, PTL

\* recurrence.ts: the recurrence of a live series is always on some row.
THEOREM SeriesKept == Spec => []SeriesNotForgotten
<1>1. OutboundInv => SeriesNotForgotten
  BY DEF OutboundInv, TasksInv
<1> QED BY <1>1, OutboundInvariant, PTL

\* recurrence.ts: as many rows of a series are cloned by the sweep as there
\* were fan-outs that stopped between their two writes, and one.
THEOREM OneCarrierEach == Spec => []OneCarrier
<1>1. OutboundInv /\ CarrierInv => OneCarrier
  <2> SUFFICES ASSUME OutboundInv, CarrierInv, NEW s \in Series
               PROVE  Cardinality(RowsOf(s) \cap recurs) <= 1 + fanFaults
    BY DEF OneCarrier
  <2>1. RowsOf(s) \cap recurs \in SUBSET Carriers(s) /\ fanFaults \in Nat
    BY DEF Carriers, OutboundInv, TasksInv, TasksTypeOK
  <2> QED BY <2>1, CarriersShrink
<1>2. OutboundInv /\ OutboundInv' /\ CarrierInv /\ [Next]_vars => CarrierInv'
  BY CarrierStep
<1> QED BY <1>1, <1>2, CarrierInit, OutboundInvariant, PTL DEF Spec

\* Only the head of the drain is shown or applied.
LEMMA HeadIsShown ==
  ASSUME OutboundInv, [Next]_vars, NEW m \in 1..Len(out), shown'[m] > shown[m]
  PROVE  \E p \in Polls : queue[p] # {} /\ m = HeadOf(p)
<1>0. OutboundTypeOK /\ m \in Out
  <2>1. OutboundTypeOK /\ Len(out) \in Nat /\ Len(out) <= MaxOut /\ MaxOut \in Nat
    BY OutboundAssumption DEF OutboundInv, OutboundTypeOK
  <2> QED BY <2>1 DEF Out
<1>1. shown' # shown
  BY <1>0 DEF OutboundTypeOK
<1>2. PICK p \in Polls : Show(p) \/ HandleSystemAction(p)
  BY <1>1
  DEF Next, vars, outVars, deliveryVars, Write, PollStep, Poll, Deliver, Resolve, Reject,
      DeliverNothing, DeliverDenied, ScheduleAgain, TaskStep, HostRestart, HostRestartInFanOut,
      ForgetDrains
<1>3. queue[p] # {} /\ shown' = [shown EXCEPT ![HeadOf(p)] = @ + 1]
  BY <1>2 DEF Show, HandleSystemAction, Turn, OutboundInv, OneDrain
<1> QED BY <1>0, <1>3 DEF OutboundTypeOK

\* drainSession goes through its snapshot in the order of seq, and a later
\* snapshot starts with what an earlier one has left undelivered.
THEOREM DeliveredInOrder == Spec => InOrder
<1> DEFINE A == \A m \in 1..Len(out) : shown'[m] > shown[m]
                  => \A n \in 1..(m - 1) : outcome[n] # "none" \/ refused[n] > 0
<1>1. OutboundInv /\ [Next]_vars => [A]_shown
  <2> SUFFICES ASSUME OutboundInv, [Next]_vars, NEW m \in 1..Len(out), shown'[m] > shown[m],
                      NEW n \in 1..(m - 1)
               PROVE  outcome[n] # "none" \/ refused[n] > 0
    OBVIOUS
  <2>1. PICK p \in Polls : queue[p] # {} /\ m = HeadOf(p)
    BY HeadIsShown
  <2>2. m \in queue[p] /\ n \notin queue[p]
    BY <2>1, HeadFacts DEF OutboundInv
  <2> QED BY <2>2 DEF OutboundInv, OrderInv
<1> QED BY <1>1, OutboundInvariant, PTL DEF Spec, InOrder
=============================================================================
