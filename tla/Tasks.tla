------------------------------- MODULE Tasks -------------------------------
(***************************************************************************)
(* Scheduled tasks of one session: rows of messages_in with kind = 'task'. *)
(* A recurring task is a series of rows; when one has been completed the    *)
(* sweep inserts the next and takes the recurrence off the old one          *)
(* (handleRecurrence).  The agent's requests (schedule, cancel, pause,      *)
(* resume, update) reach inbound.db as system rows the delivery loop        *)
(* applies: module Outbound says when; the operators here say what they do. *)
(*                                                                         *)
(* The claim and completion of a row by the container are those of module   *)
(* Session, reduced to one row at a time.  process_after passes sooner or   *)
(* later, so a pending row may be claimed in any state.                     *)
(***************************************************************************)
EXTENDS Integers, FiniteSets

CONSTANTS
  Series,      \* task ids the agent makes up (series_id)
  MaxRows,     \* bound: rows of a series
  MaxFanFaults \* bound: fan-outs that stop between their two writes

ASSUME TasksAssumption == MaxRows \in Nat \ {0} /\ MaxFanFaults \in Nat

VARIABLES
  task,       \* [Row -> status column, "absent" before the row is written]
  recurs,     \* rows whose recurrence column is not NULL
  taskAck,    \* [Row -> "none" | "processing" | "completed"]
  tick,       \* where the sweep is: "idle" | "synced" | "fanout"
  fanout,     \* getCompletedRecurring's answer, still to be cloned
  goesOn,     \* series with a recurrence that nobody has ended
  held,       \* series whose last applied request was pause_task
  fanFaults   \* fan-outs that stopped between insertRecurrence and clearRecurrence

taskVars == <<task, recurs, taskAck, tick, fanout, goesOn, held, fanFaults>>

Row == Series \X (1..MaxRows)
RowsOf(s) == {s} \X (1..MaxRows)

TasksTypeOK ==
  /\ task \in [Row -> {"absent", "pending", "paused", "completed", "failed"}]
  /\ recurs \in SUBSET Row
  /\ taskAck \in [Row -> {"none", "processing", "completed"}]
  /\ tick \in {"idle", "synced", "fanout"}
  /\ fanout \in SUBSET Row
  /\ goesOn \in SUBSET Series
  /\ held \in SUBSET Series
  /\ fanFaults \in Nat

TasksInit ==
  /\ task = [x \in Row |-> "absent"]
  /\ recurs = {}
  /\ taskAck = [x \in Row |-> "none"]
  /\ tick = "idle" /\ fanout = {}
  /\ goesOn = {} /\ held = {}
  /\ fanFaults = 0

\* The rows cancel, pause, resume and update match: id or series_id.
InStatus(s, statuses) == {x \in RowsOf(s) : task[x] \in statuses}
SetTask(rows, v) == task' = [x \in Row |-> IF x \in rows THEN v ELSE task[x]]

(***************************************************************************)
(* The agent's requests, as the host applies them.                         *)
(***************************************************************************)
\* The row's id is the request's own: a second application violates UNIQUE.
Schedulable(s) == task[<<s, 1>>] = "absent"

ScheduleTask(s, recurring) ==
  /\ Schedulable(s)
  /\ SetTask({<<s, 1>>}, "pending")
  /\ recurs' = IF recurring THEN recurs \cup {<<s, 1>>} ELSE recurs
  /\ goesOn' = IF recurring THEN goesOn \cup {s} ELSE goesOn
  /\ UNCHANGED <<taskAck, tick, fanout, held, fanFaults>>

\* cancel_task: the live rows are done and carry no recurrence.
CancelTask(s) ==
  /\ SetTask(InStatus(s, {"pending", "paused"}), "completed")
  /\ recurs' = recurs \ InStatus(s, {"pending", "paused"})
  /\ goesOn' = goesOn \ {s}
  /\ held' = held \ {s}
  /\ UNCHANGED <<taskAck, tick, fanout, fanFaults>>

PauseTask(s) ==
  /\ SetTask(InStatus(s, {"pending"}), "paused")
  /\ held' = IF Schedulable(s) THEN held ELSE held \cup {s}
  /\ UNCHANGED <<recurs, taskAck, tick, fanout, goesOn, fanFaults>>

ResumeTask(s) ==
  /\ SetTask(InStatus(s, {"paused"}), "pending")
  /\ held' = held \ {s}
  /\ UNCHANGED <<recurs, taskAck, tick, fanout, goesOn, fanFaults>>

\* update_task with a recurrence field: an empty one makes the task one-shot.
\* One that matches no row is answered by a chat row (Session's Arrive).
UpdateTask(s, recurring) ==
  LET live == InStatus(s, {"pending", "paused"})
  IN  /\ recurs' = IF recurring THEN recurs \cup live ELSE recurs \ live
      /\ goesOn' = IF ~recurring THEN goesOn \ {s}
                   ELSE IF live # {} THEN goesOn \cup {s} ELSE goesOn
      /\ UNCHANGED <<task, taskAck, tick, fanout, held, fanFaults>>

(***************************************************************************)
(* The container.                                                          *)
(***************************************************************************)
ClaimTask(x) ==
  /\ task[x] = "pending" /\ taskAck[x] = "none"
  /\ taskAck' = [taskAck EXCEPT ![x] = "processing"]
  /\ UNCHANGED <<task, recurs, tick, fanout, goesOn, held, fanFaults>>

CompleteTask(x) ==
  /\ taskAck[x] = "processing"
  /\ taskAck' = [taskAck EXCEPT ![x] = "completed"]
  /\ UNCHANGED <<task, recurs, tick, fanout, goesOn, held, fanFaults>>

(***************************************************************************)
(* The sweep: sync, reset, fan out.                                        *)
(***************************************************************************)
SweepSync ==
  /\ tick = "idle"
  /\ SetTask({x \in Row : taskAck[x] = "completed"}, "completed")
  /\ tick' = "synced"
  /\ UNCHANGED <<recurs, taskAck, fanout, goesOn, held, fanFaults>>

\* Steps 3 and 4: the container is kept or it is gone, and every claim with it;
\* the pending rows of spent are out of retries.  Step 5 reads what to clone.
SweepReset(gone, spent) ==
  LET claims == {x \in Row : gone /\ taskAck[x] = "processing"}
  IN  /\ tick = "synced"
      /\ spent \subseteq {x \in claims : task[x] = "pending"}
      /\ SetTask(spent, "failed")
      /\ taskAck' = [x \in Row |-> IF x \in claims THEN "none" ELSE taskAck[x]]
      /\ goesOn' = goesOn \ {x[1] : x \in spent}
      /\ tick' = "fanout"
      /\ fanout' = {x \in recurs : task[x] = "completed"}
      /\ UNCHANGED <<recurs, held, fanFaults>>

\* A row of the series not written yet; insertRecurrence makes up its id.
Unwritten(s) == {x \in RowsOf(s) : task[x] = "absent"}
NewRow(s) == CHOOSE x \in Unwritten(s) : TRUE

\* Mutant: the recurrence is taken off in one tick, the next row is written in
\* none when the host dies in between.
FanOutCrashClearsFirst(x) ==
  /\ tick = "fanout" /\ x \in fanout /\ fanFaults < MaxFanFaults
  /\ recurs' = recurs \ {x}
  /\ fanFaults' = fanFaults + 1
  /\ tick' = "idle" /\ fanout' = {}
  /\ UNCHANGED <<task, taskAck, goesOn, held>>

\* What is left of the sweep when the host dies.
SweepForgotten == tick' = "idle" /\ fanout' = {}

\* insertRecurrence without clearRecurrence.
HalfFanOut(x) ==
  /\ tick = "fanout" /\ x \in fanout /\ fanFaults < MaxFanFaults
  /\ Unwritten(x[1]) # {}
  /\ SetTask({NewRow(x[1])}, "pending")
  /\ recurs' = recurs \cup {NewRow(x[1])}
  /\ fanFaults' = fanFaults + 1
  /\ UNCHANGED <<taskAck, goesOn, held>>

\* The host dies between the two writes.
FanOutCrash(x) == HalfFanOut(x) /\ SweepForgotten

\* The second write throws: the loop catches it and goes on to the next row.
FanOutThrows(x) == HalfFanOut(x) /\ fanout' = fanout \ {x} /\ UNCHANGED tick

\* The cron expression does not parse or the first write throws, in any tick.
FanOutSkips(x) ==
  /\ tick = "fanout" /\ x \in fanout
  /\ fanout' = fanout \ {x}
  /\ UNCHANGED <<task, recurs, taskAck, tick, goesOn, held, fanFaults>>

\* Mutant: the recurrence stays on the completed row.
FanOutKeeps(x) ==
  /\ tick = "fanout" /\ x \in fanout /\ Unwritten(x[1]) # {}
  /\ SetTask({NewRow(x[1])}, "pending")
  /\ recurs' = recurs \cup {NewRow(x[1])}
  /\ fanout' = fanout \ {x}
  /\ UNCHANGED <<taskAck, tick, goesOn, held, fanFaults>>

\* insertRecurrence, then clearRecurrence on the original.
FanOut(x) ==
  /\ tick = "fanout" /\ x \in fanout /\ Unwritten(x[1]) # {}
  /\ SetTask({NewRow(x[1])}, "pending")
  /\ recurs' = (recurs \cup {NewRow(x[1])}) \ {x}
  /\ fanout' = fanout \ {x}
  /\ UNCHANGED <<taskAck, tick, goesOn, held, fanFaults>>

SweepEnds ==
  /\ tick = "fanout" /\ \A x \in fanout : Unwritten(x[1]) = {}
  /\ tick' = "idle" /\ fanout' = {}
  /\ UNCHANGED <<task, recurs, taskAck, goesOn, held, fanFaults>>

SweepStep ==
  \/ SweepSync \/ SweepEnds
  \/ \E gone \in BOOLEAN : \E spent \in SUBSET {x \in Row : taskAck[x] = "processing"} :
       SweepReset(gone, spent)
  \/ \E x \in Row : FanOut(x) \/ FanOutThrows(x) \/ FanOutSkips(x)

ContainerStep == \E x \in Row : ClaimTask(x) \/ CompleteTask(x)
-----------------------------------------------------------------------------
\* A recurring series that neither the agent nor the retry limit has ended
\* keeps a row that carries its recurrence, whatever dies or throws in the
\* fan-out: the task is never silently forgotten.
SeriesNotForgotten ==
  \A s \in goesOn : \E x \in RowsOf(s) \cap recurs : task[x] \in {"pending", "paused", "completed"}

\* Its inductive form, with what the sweep has in its hands.
TasksInv ==
  /\ TasksTypeOK
  /\ \A x \in Row : taskAck[x] # "none" => task[x] \in {"pending", "paused", "completed"}
  /\ \A x \in fanout : x \in recurs /\ task[x] = "completed"
  /\ SeriesNotForgotten

\* The fan-out leaves one row of a series carrying the recurrence; each one that
\* stops between its two writes may leave one more, and the task then runs
\* twice as often for good.
OneCarrier ==
  \A s \in Series : Cardinality(RowsOf(s) \cap recurs) <= 1 + fanFaults

\* mcp-tools/scheduling.ts, pause_task: a paused task "will not run until
\* resumed".  A pause that finds the row completed but not yet cloned matches
\* nothing, and one that finds it claimed is overwritten by the sync.
PausedDoesNotRun ==
  [][\A x \in Row : taskAck[x] = "none" /\ taskAck'[x] = "processing"
       => x[1] \notin held]_taskAck
=============================================================================
