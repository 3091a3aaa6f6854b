------------------------------ MODULE Session ------------------------------
(***************************************************************************)
(* One session of the v2 two-database design: the host process (router     *)
(* writes, wakeContainer, the 60 s host sweep, container restart, host      *)
(* crash and start-up clean-up) and the agent containers that poll the      *)
(* session (runPollLoop / processQuery), communicating only through         *)
(*                                                                         *)
(*   inbound.db   messages_in     (host writes, container reads)           *)
(*   outbound.db  processing_ack  (container writes, host reads; the host  *)
(*                                 deletes 'processing' rows)              *)
(*   the heartbeat file           (container touches, host stats/removes)  *)
(*                                                                         *)
(* A host action is one synchronous stretch of the Node event loop (the    *)
(* code between two awaits), cut where it blocks in `docker stop` while the *)
(* container runs on.  A container action is one stretch of the poll loop   *)
(* between two awaits, cut between the read of the two databases and the    *)
(* claim: a container that outlives its docker stop polls beside the next.  *)
(* Time is abstracted to the comparisons                                    *)
(* the code makes: a claim is older than its tolerance (aged), the          *)
(* heartbeat is newer than a claim (beat), older than the ceiling (hb =     *)
(* "stale"), process_after is still in the future (notDue).                 *)
(*                                                                         *)
(* No row of this module is recurring: sweep step 5 has nothing to do.      *)
(***************************************************************************)
EXTENDS Integers, FiniteSets

CONSTANTS
  Msgs,        \* ids of messages_in rows
  Runners,     \* container instances; a slot is reused once it is dead
  NoRunner,    \* activeContainers has no entry for the session
  Trigger,     \* rows written with trigger = 1 (the others: accumulated context)
  OnWake,      \* rows written with on_wake = 1 by a container restart
  Scheduled,   \* rows written with a future process_after
  Scripted,    \* tasks that carry a pre-task script
  ClearCmd,    \* chat rows whose text is /clear
  SlashCmd,    \* chat rows that are any other runner command
  SystemMsg,   \* rows of kind 'system' (answers awaited by an MCP tool)
  MaxTries,    \* MAX_TRIES of the sweep
  MaxPrompt,   \* maxMessagesPerPrompt
  MaxFaults,   \* bound: crashes, failures of docker or of a database, and
               \* silent restarts in a behaviour
  MaxDetached  \* bound: containers that live on at a time without the host

ASSUME RunnersAssumption == NoRunner \notin Runners
ASSUME RowsAssumption ==
  /\ Trigger \subseteq Msgs
  /\ OnWake \subseteq Trigger
  /\ Scheduled \subseteq Msgs \ OnWake
  /\ Scripted \subseteq Msgs
  /\ ClearCmd \subseteq Msgs
  /\ SlashCmd \subseteq Msgs
  /\ SystemMsg \subseteq Msgs
ASSUME BoundsAssumption ==
  /\ MaxTries \in Nat
  /\ MaxPrompt \in Nat \ {0}
  /\ MaxFaults \in Nat
  /\ MaxDetached \in Nat

VARIABLES
  (* inbound.db: messages_in *)
  status,    \* [Msgs -> "absent" | "pending" | "completed" | "failed"]
  seq,       \* [Msgs -> seq column, 0 while absent]
  topSeq,    \* MAX(seq): rows are never deleted
  tries,     \* [Msgs -> tries column]
  notDue,    \* rows whose process_after is in the future
  (* outbound.db: processing_ack *)
  ack,       \* [Msgs -> "none" | "processing" | "completed"]
  aged,      \* claims older than max(60 s, declared Bash timeout)
  beat,      \* claims made before the last heartbeat
  (* heartbeat file *)
  hb,        \* "absent" | "fresh" | "stale" (older than the ceiling)
  (* host memory *)
  hostUp,
  active,    \* activeContainers.get(session)
  client,    \* the docker client spawned for a container, until its 'close':
             \* "none" | "attached" | "killed" (its container lives on)
  spawning,  \* spawnContainer calls in flight for the session
  onExit,    \* containers whose 'close' is to wake a fresh one
  sweep,     \* "idle" | "waking" (awaits wakeContainer) | "check" | "reset"
  stopping,  \* the host is blocked in docker stop of the active container
  (* container memory, per instance *)
  phase,     \* see Phases
  first,     \* isFirstPoll
  seen,      \* rows a poll has read and is about to claim
  batch,     \* processingIds of the current iteration
  follow,    \* rows claimed by the follow-up poll in flight
  stale,     \* rows claimed by follow-up polls whose query is done
  ended,     \* endedForCommand
  turn,      \* rows given to the agent whose turn has no result yet
  (* history *)
  detached,  \* live containers the host has lost: docker stop failed, or their client died
  shared,    \* unfinished rows such a container has held, or unclaimed at its boot
  faults     \* faults so far

inboundVars == <<status, seq, topSeq, tries, notDue>>
ackVars     == <<ack, aged, beat>>
hostVars    == <<hostUp, active, client, spawning, onExit, sweep, stopping>>
localVars   == <<first, seen, batch, follow, stale, ended, turn>>
strayVars   == <<detached, shared>>
vars == <<inboundVars, ackVars, hb, hostVars, phase, localVars, strayVars, faults>>

Phases == {"dead", "boot", "poll", "claimed", "gate", "query", "hung"}

TypeOK ==
  /\ status \in [Msgs -> {"absent", "pending", "completed", "failed"}]
  /\ seq \in [Msgs -> Nat]
  /\ topSeq \in Nat
  /\ tries \in [Msgs -> Nat]
  /\ notDue \in SUBSET Msgs
  /\ ack \in [Msgs -> {"none", "processing", "completed"}]
  /\ aged \in SUBSET Msgs
  /\ beat \in SUBSET Msgs
  /\ hb \in {"absent", "fresh", "stale"}
  /\ hostUp \in BOOLEAN
  /\ active \in Runners \cup {NoRunner}
  /\ client \in [Runners -> {"none", "attached", "killed"}]
  /\ spawning \in Nat
  /\ onExit \in SUBSET Runners
  /\ sweep \in {"idle", "waking", "check", "reset"}
  /\ stopping \in BOOLEAN
  /\ phase \in [Runners -> Phases]
  /\ first \in [Runners -> BOOLEAN]
  /\ seen \in [Runners -> SUBSET Msgs]
  /\ batch \in [Runners -> SUBSET Msgs]
  /\ follow \in [Runners -> SUBSET Msgs]
  /\ stale \in [Runners -> SUBSET Msgs]
  /\ ended \in [Runners -> BOOLEAN]
  /\ turn \in [Runners -> SUBSET Msgs]
  /\ detached \in SUBSET Runners
  /\ shared \in SUBSET Msgs
  /\ faults \in Nat

Init ==
  /\ status = [m \in Msgs |-> "absent"]
  /\ seq = [m \in Msgs |-> 0]
  /\ topSeq = 0
  /\ tries = [m \in Msgs |-> 0]
  /\ notDue = {}
  /\ ack = [m \in Msgs |-> "none"]
  /\ aged = {} /\ beat = {}
  /\ hb = "absent"
  /\ hostUp = TRUE
  /\ active = NoRunner
  /\ spawning = 0
  /\ onExit = {}
  /\ client = [r \in Runners |-> "none"]
  /\ sweep = "idle"
  /\ stopping = FALSE
  /\ phase = [r \in Runners |-> "dead"]
  /\ first = [r \in Runners |-> FALSE]
  /\ seen = [r \in Runners |-> {}]
  /\ batch = [r \in Runners |-> {}]
  /\ follow = [r \in Runners |-> {}]
  /\ stale = [r \in Runners |-> {}]
  /\ ended = [r \in Runners |-> FALSE]
  /\ turn = [r \in Runners |-> {}]
  /\ detached = {} /\ shared = {}
  /\ faults = 0

(***************************************************************************)
(* State functions.                                                        *)
(***************************************************************************)
Alive(r)  == phase[r] # "dead"                     \* the process exists
InQuery(r) == phase[r] \in {"query", "hung"}       \* the stream is open
Claims    == {m \in Msgs : ack[m] = "processing"}  \* getProcessingClaims
Acked     == {m \in Msgs : ack[m] # "none"}

\* The host's event loop is not inside a synchronous stretch: docker stop blocks
\* it, and the sweep awaits nothing but the wake.
Free == hostUp /\ ~stopping /\ sweep \in {"idle", "waking"}

\* The rows a container has in its hands, and those not completed among them.
Held(r) == seen[r] \cup batch[r] \cup follow[r] \cup stale[r]
Unfinished(r) == {m \in Held(r) : ack[m] # "completed"}

NextEvenSeq == IF topSeq < 2 THEN 2 ELSE topSeq + 2 - (topSeq % 2)

\* countDueMessages, on the statuses st.
Due(st) == {m \in Trigger : st[m] = "pending" /\ m \notin notDue}

\* getPendingMessages: the newest MaxPrompt due rows, and only then the
\* rows that already have an ack are dropped.
Newest(S) ==
  {m \in S : Cardinality({n \in S : seq[n] > seq[m]}) < MaxPrompt}

\* Mutant: completed rows are not filtered out.
PendingForClaimedOnly(r) ==
  Newest({m \in Msgs : /\ status[m] = "pending"
                       /\ m \notin notDue
                       /\ m \in OnWake => first[r]}) \ Claims

\* Mutant: on_wake rows are returned on every poll.
PendingForEveryPoll(r) ==
  Newest({m \in Msgs : status[m] = "pending" /\ m \notin notDue}) \ Acked

PendingFor(r) ==
  Newest({m \in Msgs : /\ status[m] = "pending"
                       /\ m \notin notDue
                       /\ m \in OnWake => first[r]}) \ Acked

\* Writes of one status for the rows of S in processing_ack; a new claim is
\* young and no heartbeat has followed it.
SetAck(S, v) ==
  /\ ack' = [m \in Msgs |-> IF m \in S THEN v ELSE ack[m]]
  /\ aged' = aged \ S
  /\ beat' = beat \ S

\* touchHeartbeat after SetAck(S, "completed"), when touched holds.
CompleteAndTouch(S, touched) ==
  /\ ack' = [m \in Msgs |-> IF m \in S THEN "completed" ELSE ack[m]]
  /\ aged' = aged \ S
  /\ beat' = IF touched THEN Claims \ S ELSE beat \ S
  /\ hb' = IF touched THEN "fresh" ELSE hb

\* The memory of the instances in R is lost.
Forget(R) ==
  /\ first' = [r \in Runners |-> IF r \in R THEN FALSE ELSE first[r]]
  /\ seen' = [r \in Runners |-> IF r \in R THEN {} ELSE seen[r]]
  /\ batch' = [r \in Runners |-> IF r \in R THEN {} ELSE batch[r]]
  /\ follow' = [r \in Runners |-> IF r \in R THEN {} ELSE follow[r]]
  /\ stale' = [r \in Runners |-> IF r \in R THEN {} ELSE stale[r]]
  /\ ended' = [r \in Runners |-> IF r \in R THEN FALSE ELSE ended[r]]
  /\ turn' = [r \in Runners |-> IF r \in R THEN {} ELSE turn[r]]

Fault == faults < MaxFaults /\ faults' = faults + 1

\* Rows that come into the hands of r, when the host has lost it.
Share(r, S) == shared' = IF r \in detached THEN shared \cup S ELSE shared

(***************************************************************************)
(* Host: wakeContainer, spawnContainer, killContainer and 'close'.         *)
(***************************************************************************)
\* Mutant: wakePromises does not de-duplicate.
WakeEach ==
  spawning' = IF active = NoRunner THEN spawning + 1 ELSE spawning

Wake ==
  spawning' = IF active = NoRunner /\ spawning = 0 THEN spawning + 1
                                                   ELSE spawning

\* The await of sweep step 2 resumes when the wake promise settles.
SweepResumes == sweep' = IF sweep = "waking" THEN "check" ELSE sweep

Spawned(r) ==
  /\ Free /\ spawning > 0 /\ phase[r] = "dead" /\ client[r] = "none"
  /\ spawning' = spawning - 1
  /\ hb' = "absent" /\ beat' = {}
  /\ active' = r /\ client' = [client EXCEPT ![r] = "attached"]
  /\ phase' = [phase EXCEPT ![r] = "boot"]
  /\ SweepResumes
  /\ UNCHANGED <<inboundVars, ack, aged, hostUp, onExit, stopping, localVars, strayVars,
                 faults>>

SpawnFails ==
  /\ Free /\ spawning > 0 /\ Fault
  /\ spawning' = spawning - 1
  /\ SweepResumes
  /\ UNCHANGED <<inboundVars, ackVars, hb, hostUp, active, client, onExit, stopping, phase,
                 localVars, strayVars>>

\* The docker client of a live container is gone: its 'close' will delete the entry.
Detach(r) ==
  /\ Alive(r) /\ Fault
  /\ Cardinality(detached \cup {r}) <= MaxDetached
  /\ client' = [client EXCEPT ![r] = "killed"]
  /\ detached' = detached \cup {r}
  /\ shared' = shared \cup Unfinished(r)
  /\ UNCHANGED <<phase, localVars>>

\* Mutant: the entry is deleted at once and docker stop is left to itself.
KillUnawaited ==
  /\ hostUp /\ stopping /\ stopping' = FALSE
  /\ client' = [client EXCEPT ![active] = "none"]
  /\ active' = NoRunner
  /\ UNCHANGED <<inboundVars, ackVars, hb, hostUp, spawning, onExit, sweep, phase, localVars,
                 strayVars, faults>>

\* killContainer, whose docker stop has let the container run on until now: it is
\* gone; or the stop failed (no daemon, no container of that name yet), only the
\* client is killed, and the error goes no further.
Kill ==
  /\ hostUp /\ stopping /\ active # NoRunner
  /\ stopping' = FALSE
  /\ \/ /\ phase' = [phase EXCEPT ![active] = "dead"]
        /\ Forget({active})
        /\ detached' = detached \ {active}
        /\ UNCHANGED <<client, shared, faults>>
     \/ Detach(active)
  /\ UNCHANGED <<inboundVars, ackVars, hb, hostUp, active, spawning, onExit, sweep>>

\* 'close' of the client deletes the session's entry, also when the container
\* lives on, and runs the onExit of a restart.
Closed(r) ==
  /\ Free
  /\ \/ client[r] = "killed"
     \/ client[r] = "attached" /\ ~Alive(r)
  /\ client' = [client EXCEPT ![r] = "none"]
  /\ active' = NoRunner
  /\ onExit' = onExit \ {r}
  /\ spawning' = IF r \in onExit /\ spawning = 0 THEN spawning + 1 ELSE spawning
  /\ UNCHANGED <<inboundVars, ackVars, hb, hostUp, sweep, stopping, phase, localVars,
                 strayVars, faults>>

(***************************************************************************)
(* Host: rows arriving.                                                    *)
(***************************************************************************)
InsertRow(m) ==
  /\ Free /\ status[m] = "absent"
  /\ status' = [status EXCEPT ![m] = "pending"]
  /\ seq' = [seq EXCEPT ![m] = NextEvenSeq]
  /\ topSeq' = NextEvenSeq

\* Router and other in-process writers: insert, then wake when trigger = 1.
Arrive(m) ==
  /\ m \notin OnWake \cup Scheduled
  /\ InsertRow(m)
  /\ IF m \in Trigger THEN Wake ELSE UNCHANGED spawning
  /\ UNCHANGED <<tries, notDue, ackVars, hb, hostUp, active, client, onExit, sweep, stopping,
                 phase, localVars, strayVars, faults>>

\* insertTask with a future process_after: nobody is woken.
Schedule(m) ==
  /\ m \in Scheduled
  /\ InsertRow(m)
  /\ notDue' = notDue \cup {m}
  /\ UNCHANGED <<tries, ackVars, hb, hostVars, phase, localVars, strayVars, faults>>

\* restartAgentGroupContainers with a wake message, up to its docker stop: the
\* row is there while the container still runs.
Restart(m) ==
  /\ m \in OnWake /\ active # NoRunner
  /\ InsertRow(m)
  /\ onExit' = onExit \cup {active}
  /\ stopping' = TRUE
  /\ UNCHANGED <<tries, notDue, ackVars, hb, hostUp, active, client, spawning, sweep, phase,
                 localVars, strayVars, faults>>

\* The same without a wake message: nobody is woken.
Stop ==
  /\ Free /\ active # NoRunner /\ Fault
  /\ stopping' = TRUE
  /\ UNCHANGED <<inboundVars, ackVars, hb, hostUp, active, client, spawning, onExit, sweep,
                 phase, localVars, strayVars>>

(***************************************************************************)
(* Host: the sweep.                                                        *)
(***************************************************************************)
\* Mutant: the ack's own status is copied.
SyncProcessingAcksCopied ==
  [m \in Msgs |-> IF ack[m] # "none" THEN ack[m] ELSE status[m]]

SyncProcessingAcks ==
  [m \in Msgs |-> IF ack[m] = "completed" THEN "completed" ELSE status[m]]

\* Mutant: the sweep syncs and wakes nobody.
SweepBeginAsleep ==
  /\ Free /\ sweep = "idle"
  /\ status' = SyncProcessingAcks
  /\ sweep' = "check"
  /\ UNCHANGED <<seq, topSeq, tries, notDue, ackVars, hb, hostUp, active, client, spawning,
                 onExit, stopping, phase, localVars, strayVars, faults>>

\* Steps 1 and 2: sync the acks, wake a container if work is due.
SweepBegin ==
  /\ Free /\ sweep = "idle"
  /\ status' = SyncProcessingAcks
  /\ IF Due(SyncProcessingAcks) # {} /\ active = NoRunner
     THEN Wake /\ sweep' = "waking"
     ELSE UNCHANGED spawning /\ sweep' = "check"
  /\ UNCHANGED <<seq, topSeq, tries, notDue, ackVars, hb, hostUp, active, client, onExit,
                 stopping, phase, localVars, strayVars, faults>>

\* Mutant: one retry too many.
ResetOnceMore ==
  LET retried   == {m \in Claims : status[m] = "pending" /\ m \notin notDue}
      exhausted == {m \in retried : tries[m] > MaxTries}
  IN  /\ status' = [m \in Msgs |-> IF m \in exhausted THEN "failed" ELSE status[m]]
      /\ tries' = [m \in Msgs |-> IF m \in retried \ exhausted THEN tries[m] + 1
                                                               ELSE tries[m]]
      /\ notDue' = notDue \cup (retried \ exhausted)
      /\ \/ SetAck(Claims, "none") /\ UNCHANGED faults
         \/ Fault /\ UNCHANGED ackVars
      /\ UNCHANGED <<seq, topSeq>>

\* resetStuckProcessingRows; the deletion of the claims may fail and is passed over.
ResetStuckProcessingRows ==
  LET retried   == {m \in Claims : status[m] = "pending" /\ m \notin notDue}
      exhausted == {m \in retried : tries[m] >= MaxTries}
  IN  /\ status' = [m \in Msgs |-> IF m \in exhausted THEN "failed" ELSE status[m]]
      /\ tries' = [m \in Msgs |-> IF m \in retried \ exhausted THEN tries[m] + 1
                                                               ELSE tries[m]]
      /\ notDue' = notDue \cup (retried \ exhausted)
      /\ \/ SetAck(Claims, "none") /\ UNCHANGED faults
         \/ Fault /\ UNCHANGED ackVars
      /\ UNCHANGED <<seq, topSeq>>

\* decideStuckAction: the absolute ceiling, then each claim.
Stuck ==
  \/ hb = "stale"
  \/ \E m \in Claims : m \in aged /\ (hb = "absent" \/ m \notin beat)

\* Mutant: claims are reset without the stop.
SweepCheckSpares ==
  /\ hostUp /\ sweep = "check"
  /\ sweep' = IF active = NoRunner \/ Stuck THEN "reset" ELSE "idle"
  /\ UNCHANGED <<inboundVars, ackVars, hb, hostUp, active, client, spawning, onExit, stopping,
                 phase, localVars, strayVars, faults>>

\* Steps 3 and 4, on the answer isContainerRunning gives after the await: a stuck
\* container is stopped first, and what is claimed after that is reset.
SweepCheck ==
  /\ hostUp /\ sweep = "check"
  /\ stopping' = (active # NoRunner /\ Stuck)
  /\ sweep' = IF active = NoRunner \/ Stuck THEN "reset" ELSE "idle"
  /\ UNCHANGED <<inboundVars, ackVars, hb, hostUp, active, client, spawning, onExit, phase,
                 localVars, strayVars, faults>>

SweepReset ==
  /\ hostUp /\ ~stopping /\ sweep = "reset"
  /\ sweep' = "idle"
  /\ ResetStuckProcessingRows
  /\ UNCHANGED <<hb, hostUp, active, client, spawning, onExit, stopping, phase, localVars,
                 strayVars>>

(***************************************************************************)
(* Container: runPollLoop.                                                 *)
(***************************************************************************)
\* clearStaleProcessingAcks takes every claim for one of a dead container.
Boot(r) ==
  /\ phase[r] = "boot"
  /\ phase' = [phase EXCEPT ![r] = "poll"]
  /\ first' = [first EXCEPT ![r] = TRUE]
  /\ SetAck(Claims, "none") /\ Share(r, Claims)
  /\ UNCHANGED <<inboundVars, hb, hostVars, seen, batch, follow, stale, ended, turn, detached,
                 faults>>

\* A poll that finds a trigger = 1 row takes the whole batch ...
PollReads(r) ==
  LET rows == PendingFor(r) \ SystemMsg
  IN  /\ phase[r] = "poll" /\ seen[r] = {}
      /\ rows \cap Trigger # {}
      /\ seen' = [seen EXCEPT ![r] = rows] /\ Share(r, rows)
      /\ UNCHANGED <<inboundVars, ackVars, hb, hostVars, phase, first, batch, follow, stale,
                     ended, turn, detached, faults>>

\* ... and claims it (markProcessing replaces what is there).
PollClaims(r) ==
  /\ phase[r] = "poll" /\ seen[r] # {}
  /\ SetAck(seen[r], "processing")
  /\ batch' = [batch EXCEPT ![r] = seen[r]]
  /\ seen' = [seen EXCEPT ![r] = {}]
  /\ phase' = [phase EXCEPT ![r] = "claimed"]
  /\ first' = [first EXCEPT ![r] = FALSE]
  /\ UNCHANGED <<inboundVars, hb, hostVars, follow, stale, ended, turn, strayVars, faults>>

\* The accumulate gate, or nothing to do: sleep.
PollSleeps(r) ==
  /\ phase[r] = "poll" /\ first[r] /\ seen[r] = {}
  /\ (PendingFor(r) \ SystemMsg) \cap Trigger = {}
  /\ first' = [first EXCEPT ![r] = FALSE]
  /\ UNCHANGED <<inboundVars, ackVars, hb, hostVars, phase, seen, batch, follow, stale,
                 ended, turn, strayVars, faults>>

\* /clear is handled by the loop itself and completed at once.
Commands(r) ==
  LET cleared == batch[r] \cap ClearCmd
      rest    == batch[r] \ ClearCmd
  IN  /\ phase[r] = "claimed"
      /\ SetAck(cleared, "completed")
      /\ batch' = [batch EXCEPT ![r] = rest]
      /\ phase' = [phase EXCEPT ![r] = IF rest = {} THEN "poll" ELSE "gate"]
      /\ UNCHANGED <<inboundVars, hb, hostVars, first, seen, follow, stale, ended, turn, strayVars,
                     faults>>

\* Mutant: the batch is completed when it is handed to the agent.
GateCompletes(r) ==
  /\ phase[r] = "gate"
  /\ CompleteAndTouch(batch[r], TRUE)
  /\ turn' = [turn EXCEPT ![r] = batch[r]]
  /\ phase' = [phase EXCEPT ![r] = "query"]
  /\ UNCHANGED <<inboundVars, hostVars, first, seen, batch, follow, stale, ended,
                 strayVars, faults>>

\* Pre-task scripts: each may gate its own row; what is kept is prompted.
Gate(r) ==
  \E skipped \in SUBSET (batch[r] \cap Scripted) :
    LET keep == batch[r] \ skipped
    IN  /\ phase[r] = "gate"
        /\ CompleteAndTouch(skipped, batch[r] \cap Scripted # {})
        /\ batch' = [batch EXCEPT ![r] = keep]
        /\ turn' = [turn EXCEPT ![r] = keep]
        /\ phase' = [phase EXCEPT ![r] = IF keep = {} THEN "poll" ELSE "query"]
        /\ UNCHANGED <<inboundVars, hostVars, first, seen, follow, stale, ended, strayVars,
                       faults>>

(***************************************************************************)
(* Container: processQuery.                                                *)
(***************************************************************************)
\* A stream event other than 'result': the provider speaks in its turns only.
Event(r) ==
  /\ phase[r] = "query" /\ seen[r] = {} /\ turn[r] # {}
  /\ CompleteAndTouch({}, TRUE)
  /\ UNCHANGED <<inboundVars, hostVars, phase, localVars, strayVars, faults>>

\* A 'result': the turn is done, the initial batch is completed.  A row pushed
\* in mid-turn is answered by this result or by a later one.
Result(r) ==
  /\ phase[r] = "query" /\ seen[r] = {} /\ turn[r] # {}
  /\ CompleteAndTouch(batch[r], TRUE)
  /\ \E open \in SUBSET (turn[r] \ batch[r]) :
       open # turn[r] /\ turn' = [turn EXCEPT ![r] = open]
  /\ UNCHANGED <<inboundVars, hostVars, phase, first, seen, batch, follow, stale,
                 ended, strayVars, faults>>

\* The provider goes silent with its stream open.
Hang(r) ==
  /\ phase[r] = "query"
  /\ phase' = [phase EXCEPT ![r] = "hung"]
  /\ UNCHANGED <<inboundVars, ackVars, hb, hostVars, localVars, strayVars, faults>>

\* The stream ends or throws: done = true, then markCompleted(processingIds).
QueryEnd(r) ==
  /\ phase[r] = "query" /\ seen[r] = {}
  /\ SetAck(batch[r], "completed")
  /\ phase' = [phase EXCEPT ![r] = "poll"]
  /\ batch' = [batch EXCEPT ![r] = {}]
  /\ turn' = [turn EXCEPT ![r] = {}]
  /\ stale' = [stale EXCEPT ![r] = @ \cup follow[r]]
  /\ follow' = [follow EXCEPT ![r] = {}]
  /\ ended' = [ended EXCEPT ![r] = FALSE]
  /\ UNCHANGED <<inboundVars, hb, hostVars, first, seen, strayVars, faults>>

\* The follow-up poll, up to its await: a pending command ends the stream,
\* anything else is taken (whatever its trigger) ...
FollowReads(r) ==
  LET pending == PendingFor(r)
      rows    == pending \ SystemMsg
  IN  /\ InQuery(r) /\ seen[r] = {} /\ follow[r] = {} /\ ~ended[r]
      /\ \/ /\ pending \cap (ClearCmd \cup SlashCmd) # {}
            /\ ended' = [ended EXCEPT ![r] = TRUE]
            /\ UNCHANGED <<seen, shared>>
         \/ /\ pending \cap (ClearCmd \cup SlashCmd) = {}
            /\ rows # {}
            /\ seen' = [seen EXCEPT ![r] = rows] /\ Share(r, rows)
            /\ UNCHANGED ended
      /\ UNCHANGED <<inboundVars, ackVars, hb, hostVars, phase, first, batch, follow, stale,
                     turn, detached, faults>>

\* ... and claimed.
FollowClaims(r) ==
  /\ InQuery(r) /\ seen[r] # {}
  /\ SetAck(seen[r], "processing")
  /\ follow' = [follow EXCEPT ![r] = seen[r]]
  /\ seen' = [seen EXCEPT ![r] = {}]
  /\ UNCHANGED <<inboundVars, hb, hostVars, phase, first, batch, stale, ended, turn, strayVars,
                 faults>>

\* After the await, the query still open: push the rows and complete them.
FollowPush(r) ==
  \E skipped \in SUBSET (follow[r] \cap Scripted) :
    /\ InQuery(r) /\ follow[r] # {}
    /\ CompleteAndTouch(follow[r], follow[r] \cap Scripted # {})
    /\ turn' = [turn EXCEPT ![r] = @ \cup (follow[r] \ skipped)]
    /\ follow' = [follow EXCEPT ![r] = {}]
    /\ UNCHANGED <<inboundVars, hostVars, phase, first, seen, batch, stale, ended, strayVars,
                   faults>>

\* After the await, the query done: rows no script skipped stay claimed.
FollowDrop(r) ==
  \E rows \in SUBSET stale[r] : \E skipped \in SUBSET (rows \cap Scripted) :
    /\ Alive(r) /\ rows # {}
    /\ CompleteAndTouch(skipped, rows \cap Scripted # {})
    /\ stale' = [stale EXCEPT ![r] = @ \ rows]
    /\ UNCHANGED <<inboundVars, hostVars, phase, first, seen, batch, follow, ended, turn,
                   strayVars, faults>>

\* ask_user_question finds the answer row it waits for.
TakeAnswer(r, m) ==
  /\ InQuery(r) /\ m \in SystemMsg
  /\ status[m] = "pending" /\ ack[m] = "none"
  /\ SetAck({m}, "completed")
  /\ UNCHANGED <<inboundVars, hb, hostVars, phase, localVars, strayVars, faults>>

(***************************************************************************)
(* Faults and time.                                                        *)
(***************************************************************************)
Crash(r) ==
  /\ Alive(r) /\ Fault
  /\ phase' = [phase EXCEPT ![r] = "dead"]
  /\ Forget({r})
  /\ detached' = detached \ {r}
  /\ UNCHANGED <<inboundVars, ackVars, hb, hostVars, shared>>

\* The docker client dies, its container does not.
ClientDies(r) ==
  /\ client[r] = "attached" /\ Detach(r)
  /\ UNCHANGED <<inboundVars, ackVars, hb, hostUp, active, spawning, onExit, sweep, stopping>>

\* The host dies; its containers go on.
HostCrash ==
  /\ hostUp /\ Fault
  /\ hostUp' = FALSE
  /\ active' = NoRunner /\ client' = [r \in Runners |-> "none"]
  /\ spawning' = 0 /\ onExit' = {} /\ sweep' = "idle" /\ stopping' = FALSE
  /\ UNCHANGED <<inboundVars, ackVars, hb, phase, localVars, strayVars>>

\* main(): cleanupOrphans stops what an earlier run left behind, but for what
\* docker ps did not list and docker stop failed for.
HostStart ==
  \E left \in SUBSET {r \in Runners : Alive(r)} :
    /\ ~hostUp
    /\ hostUp' = TRUE
    /\ left # {} => faults < MaxFaults /\ Cardinality(left) <= MaxDetached
    /\ faults' = IF left = {} THEN faults ELSE faults + 1
    /\ phase' = [r \in Runners |-> IF r \in left THEN phase[r] ELSE "dead"]
    /\ Forget(Runners \ left)
    /\ detached' = left
    /\ shared' = shared \cup UNION {Unfinished(r) : r \in left}
    /\ UNCHANGED <<inboundVars, ackVars, hb, active, client, spawning, onExit, sweep, stopping>>

ClaimAges(m) ==
  /\ m \in Claims \ aged
  /\ aged' = aged \cup {m}
  /\ UNCHANGED <<inboundVars, ack, beat, hb, hostVars, phase, localVars, strayVars, faults>>

HeartbeatAges ==
  /\ hb = "fresh"
  /\ hb' = "stale"
  /\ UNCHANGED <<inboundVars, ackVars, hostVars, phase, localVars, strayVars, faults>>

BecomesDue(m) ==
  /\ m \in notDue
  /\ notDue' = notDue \ {m}
  /\ UNCHANGED <<status, seq, topSeq, tries, ackVars, hb, hostVars, phase, localVars,
                 strayVars, faults>>

(***************************************************************************)
(* Specification.                                                          *)
(***************************************************************************)
HostStep ==
  \/ \E m \in Msgs : Arrive(m) \/ Schedule(m) \/ Restart(m)
  \/ \E r \in Runners : Spawned(r) \/ Closed(r) \/ ClientDies(r)
  \/ SpawnFails \/ Stop \/ Kill \/ SweepBegin \/ SweepCheck \/ SweepReset
  \/ HostCrash \/ HostStart

RunnerStep(r) ==
  \/ Boot(r) \/ PollReads(r) \/ PollClaims(r) \/ PollSleeps(r) \/ Commands(r) \/ Gate(r)
  \/ Event(r) \/ Result(r) \/ Hang(r) \/ QueryEnd(r)
  \/ FollowReads(r) \/ FollowClaims(r) \/ FollowPush(r) \/ FollowDrop(r)
  \/ \E m \in Msgs : TakeAnswer(r, m)
  \/ Crash(r)

TimeStep ==
  \/ \E m \in Msgs : ClaimAges(m) \/ BecomesDue(m)
  \/ HeartbeatAges

Next == HostStep \/ (\E r \in Runners : RunnerStep(r)) \/ TimeStep

Spec == Init /\ [][Next]_vars

(***************************************************************************)
(* Fairness.  The sweep re-arms its own timer, a callback that waits for the *)
(* event loop gets it between two ticks (hence SF), a live poll loop runs,   *)
(* time passes, a provider that is not hung ends its turns and closes a      *)
(* stream it was asked to end, docker stop returns.                          *)
(* Nothing arrives or crashes of necessity, no stop has to work, and a hung *)
(* provider never comes back.                                               *)
(***************************************************************************)
HostFairness ==
  /\ WF_vars(SweepBegin) /\ WF_vars(SweepCheck) /\ WF_vars(SweepReset)
  /\ WF_vars(Kill) /\ WF_vars(HostStart)
  /\ SF_vars(\E r \in Runners : Spawned(r))
  /\ \A r \in Runners : SF_vars(Closed(r))

RunnerFairness ==
  \A r \in Runners :
    /\ WF_vars(Boot(r))
    /\ WF_vars(PollReads(r)) /\ WF_vars(PollClaims(r)) /\ WF_vars(PollSleeps(r))
    /\ WF_vars(Commands(r)) /\ WF_vars(Gate(r)) /\ WF_vars(Result(r))
    /\ WF_vars(FollowReads(r)) /\ WF_vars(FollowClaims(r))
    /\ WF_vars(FollowPush(r)) /\ WF_vars(FollowDrop(r))
    /\ WF_vars(ended[r] /\ QueryEnd(r))

TimeFairness ==
  /\ \A m \in Msgs : WF_vars(ClaimAges(m)) /\ WF_vars(BecomesDue(m))
  /\ WF_vars(HeartbeatAges)

FairSpec == Spec /\ HostFairness /\ RunnerFairness /\ TimeFairness
-----------------------------------------------------------------------------
(***************************************************************************)
(* Properties.  A container may outlive its docker stop, its client or its  *)
(* host's start-up; then another is started beside it.  The properties say  *)
(* what holds all the same: of every container the host has not lost, and   *)
(* of every row no lost container has had in its hands unfinished.          *)
(***************************************************************************)
\* wakeContainer's de-duplication (wakePromises, activeContainers) and the
\* close handler leave at most one live container per session, through restarts,
\* crashes and concurrent wakes, but for those a docker stop failed for: two would
\* answer everything twice.
AtMostOneRunner ==
  \A r, s \in Runners \ detached : Alive(r) /\ Alive(s) => r = s

\* While the host is up every live container is the one isContainerRunning
\* answers for, or one whose stop has failed or whose client has died: nothing
\* else runs unknown to it.
HostKnowsRunner ==
  hostUp => \A r \in Runners : Alive(r) => active = r \/ r \in detached

\* 'processing' rows are deleted only behind a dead container
\* (deleteOrphanProcessingClaims, clearStaleProcessingAcks) or one that outlived
\* its stop: whatever else a live poll loop holds in memory is still claimed, or
\* completed by itself, in outbound.db.
RunnerHoldsClaims ==
  \A r \in Runners :
    /\ batch[r] \subseteq Acked \cup shared
    /\ phase[r] \in {"claimed", "gate"} => batch[r] \subseteq Claims \cup shared
    /\ follow[r] \cup stale[r] \subseteq Claims \cup shared

\* A message of the initial batch stays claimed until its turn has a result,
\* so a container killed in mid-turn leaves it to be retried.
OpenTurnIsClaimed ==
  \A r \in Runners : turn[r] \cap batch[r] \subseteq Claims \cup shared

\* The sweep gives a message up exactly when its retries are spent, and a
\* given-up message is one no container has completed or still holds, unless one
\* that outlived its stop had it.
FailedIsExhausted ==
  \A m \in Msgs :
    /\ tries[m] <= MaxTries
    /\ status[m] = "failed" =>
         /\ tries[m] = MaxTries
         /\ m \notin shared => ack[m] # "completed" /\ \A r \in Runners : m \notin Held(r)

\* messages_in statuses are final: neither a late ack, a retry nor a restart
\* moves a row out of completed, nor out of failed, where only a container that
\* outlived its stop may still complete it.
OutcomesAreFinal ==
  [][\A m \in Msgs :
       status[m] = "completed" \/ (status[m] = "failed" /\ m \notin shared)
         => status'[m] = status[m]]_status

\* What a container has completed stays completed and is never prompted again by
\* a later one, even before the host has synced its ack into messages_in; only a
\* container that outlived its stop may have read it meanwhile.
CompletedNotReprompted ==
  [][\A m \in Msgs \ shared : ack[m] = "completed" =>
       ack'[m] = "completed" /\ \A r \in Runners : m \in turn'[r] => m \in turn[r]]_<<ack, turn>>

\* Every trigger = 1 row that reaches inbound.db is completed or given up, in
\* spite of crashes of the container and of the host, failed spawns and stops,
\* silent providers and claims dropped by a finished query.  A wake message that
\* is retried may come due behind a first poll and wait for that container's end.
DueRowsSettle ==
  \A m \in Trigger \ OnWake : status[m] = "pending" ~> status[m] \in {"completed", "failed"}

\* An on_wake row is claimed by a container's first poll only: one that had polled
\* before the restart wrote the row lets it be, however long docker stop takes.
\* A container that is stopped before its first poll is not kept from it.
OnWakeOnFirstPoll ==
  [][\A m \in OnWake : ack[m] = "none" /\ ack'[m] = "processing"
       => \E r \in Runners : phase[r] = "poll" /\ first[r] /\ m \in batch'[r]]_ack
-----------------------------------------------------------------------------
(***************************************************************************)
(* The inductive invariant behind the safety properties.                   *)
(***************************************************************************)
\* Host: the entry in activeContainers is that of the one docker client there is;
\* a live container without an attached client is lost; a spawn is in flight only
\* while there is no entry, and one at most; the sweep resets claims only when no
\* container is left but lost ones.
HostInv ==
  /\ \A r \in Runners : client[r] # "none" => active = r
  /\ active # NoRunner => client[active] # "none"
  /\ \A r \in Runners :
       /\ hostUp /\ Alive(r) /\ r \notin detached => client[r] = "attached"
       /\ client[r] = "killed" /\ Alive(r) => r \in detached
       /\ r \in detached => Alive(r)
  /\ ~hostUp => active = NoRunner /\ spawning = 0 /\ sweep = "idle" /\ ~stopping
  /\ stopping => active # NoRunner
  /\ spawning \in {0, 1}
  /\ spawning = 1 => active = NoRunner
  /\ sweep = "reset" /\ ~stopping => \A r \in Runners : Alive(r) => r \in detached
  /\ AtMostOneRunner

\* What the memory of an instance may hold in each phase.
MemoryInv ==
  \A r \in Runners :
    /\ phase[r] \in {"dead", "boot"} => stale[r] = {}
    /\ phase[r] \in {"dead", "boot", "poll"} => batch[r] = {}
    /\ ~InQuery(r) => follow[r] = {} /\ turn[r] = {}
    /\ phase[r] \notin {"poll", "query", "hung"} => seen[r] = {}
    /\ InQuery(r) /\ seen[r] # {} => follow[r] = {}
    /\ first[r] => phase[r] = "poll"
    /\ seen[r] \cap OnWake # {} => first[r]
    /\ batch[r] \cap (follow[r] \cup stale[r]) \subseteq shared
    /\ follow[r] \cap stale[r] \subseteq shared
    /\ seen[r] \cap SystemMsg = {}

\* The two databases agree: what is read or claimed is pending, or given up with
\* its claim left behind, and no row is acked before it is written.
RowsInv ==
  \A m \in Msgs :
    /\ status[m] = "absent" => ack[m] = "none" /\ m \notin shared
    /\ m \notin shared /\ ack[m] = "processing" => status[m] \in {"pending", "failed"}
    /\ \A r \in Runners : m \in seen[r] \ shared => status[m] = "pending" /\ ack[m] = "none"

\* What a lost container has in its hands is marked.
StrayInv == \A r \in detached : Unfinished(r) \subseteq shared

SessionInv ==
  /\ TypeOK
  /\ HostInv
  /\ MemoryInv
  /\ RowsInv
  /\ StrayInv
  /\ RunnerHoldsClaims
  /\ OpenTurnIsClaimed
  /\ FailedIsExhausted

-----------------------------------------------------------------------------
(***************************************************************************)
(* What the comments of the code promise and the code does not keep.       *)
(***************************************************************************)
\* host-sweep.ts:174-177 and 311-314: a fresh container gets its chance to
\* clear orphan claims before the sweep may kill it.  The same tick that
\* wakes it judges it by the dead container's claims.
FreshContainerSpared ==
  [][sweep = "check" /\ stopping' => phase[active] # "boot"]_vars

\* host-sweep.ts:14-16: rows a crashed container left 'processing' are reset
\* with tries++.  The container woken first clears them uncharged, so a row
\* that crashes every container is retried without limit.
CrashedClaimCharged ==
  [][\A m \in Msgs :
       /\ ack[m] = "processing" /\ ack'[m] = "none"
       /\ status[m] = "pending" /\ m \notin notDue
       => tries'[m] = tries[m] + 1 \/ status'[m] = "failed"]_ack

\* poll-loop.ts:275-278: the rows of a stuck turn are reset to pending when the
\* host kills the container.  Pushed follow-ups are completed before their turn.
OpenTurnIsReset ==
  \A r \in Runners : turn[r] \subseteq Claims
=============================================================================
