--------------------------- MODULE SessionProofs ---------------------------
(***************************************************************************)
(* Session keeps its inductive invariant for every set of messages, every   *)
(* number of container instances and every bound.                           *)
(***************************************************************************)
EXTENDS SessionInbox, TLAPS

\* The next even seq is a natural number.
LEMMA NextEvenSeqType == TypeOK => NextEvenSeq \in Nat
  BY DEF TypeOK, NextEvenSeq

\* Writes to processing_ack stay in its types.
LEMMA SetAckType ==
  ASSUME TypeOK, NEW S \in SUBSET Msgs, NEW v \in {"none", "processing", "completed"},
         SetAck(S, v)
  PROVE  /\ ack' \in [Msgs -> {"none", "processing", "completed"}]
         /\ aged' \in SUBSET Msgs
         /\ beat' \in SUBSET Msgs
  BY DEF TypeOK, SetAck

\* The death of an instance leaves its memory empty, and others' alone.
LEMMA ForgetType ==
  ASSUME TypeOK, NEW R \in SUBSET Runners, Forget(R)
  PROVE  /\ first' \in [Runners -> BOOLEAN]
         /\ seen' \in [Runners -> SUBSET Msgs]
         /\ batch' \in [Runners -> SUBSET Msgs]
         /\ follow' \in [Runners -> SUBSET Msgs]
         /\ stale' \in [Runners -> SUBSET Msgs]
         /\ ended' \in [Runners -> BOOLEAN]
         /\ turn' \in [Runners -> SUBSET Msgs]
  <1>1. first' \in [Runners -> BOOLEAN] /\ ended' \in [Runners -> BOOLEAN]
    BY ZenonT(30) DEF TypeOK, Forget
  <1>2. /\ seen' \in [Runners -> SUBSET Msgs] /\ batch' \in [Runners -> SUBSET Msgs]
        /\ follow' \in [Runners -> SUBSET Msgs]
    BY DEF TypeOK, Forget
  <1>3. stale' \in [Runners -> SUBSET Msgs] /\ turn' \in [Runners -> SUBSET Msgs]
    BY DEF TypeOK, Forget
  <1> QED BY <1>1, <1>2, <1>3

\* An instance that is gone has forgotten everything, and others nothing.
LEMMA ForgetMemory ==
  ASSUME TypeOK, NEW R \in SUBSET Runners, Forget(R)
  PROVE  /\ \A s \in R : /\ ~first'[s] /\ seen'[s] = {} /\ batch'[s] = {} /\ follow'[s] = {}
                         /\ stale'[s] = {} /\ turn'[s] = {}
         /\ \A s \in Runners \ R :
              /\ first'[s] = first[s] /\ seen'[s] = seen[s] /\ batch'[s] = batch[s]
              /\ follow'[s] = follow[s] /\ stale'[s] = stale[s] /\ turn'[s] = turn[s]
  BY DEF Forget, TypeOK

\* The rows a container holds are rows.
LEMMA HeldType ==
  ASSUME TypeOK, NEW r \in Runners
  PROVE  Held(r) \subseteq Msgs /\ Unfinished(r) \subseteq Msgs
  BY DEF TypeOK, Held, Unfinished

\* Losing sight of a container stays in the types.
LEMMA DetachType ==
  ASSUME TypeOK, NEW r \in Runners, Detach(r)
  PROVE  /\ client' \in [Runners -> {"none", "attached", "killed"}]
         /\ detached' \in SUBSET Runners
         /\ shared' \in SUBSET Msgs
         /\ faults' \in Nat
  BY HeldType DEF TypeOK, Detach, Fault

\* A poll returns unacked pending rows, on_wake ones to a first poll only.
LEMMA PendingForRows ==
  ASSUME TypeOK, NEW r
  PROVE  /\ PendingFor(r) \subseteq Msgs
         /\ \A m \in PendingFor(r) : /\ status[m] = "pending" /\ ack[m] = "none"
                                     /\ m \in OnWake => first[r]
  BY DEF PendingFor, Newest, Acked, TypeOK

\* resetStuckProcessingRows stays in the types.
LEMMA ResetType ==
  ASSUME TypeOK, ResetStuckProcessingRows
  PROVE  /\ status' \in [Msgs -> {"absent", "pending", "completed", "failed"}]
         /\ seq' \in [Msgs -> Nat]
         /\ topSeq' \in Nat
         /\ tries' \in [Msgs -> Nat]
         /\ notDue' \in SUBSET Msgs
         /\ ack' \in [Msgs -> {"none", "processing", "completed"}]
         /\ aged' \in SUBSET Msgs
         /\ beat' \in SUBSET Msgs
         /\ faults' \in Nat
<1>1. /\ status' \in [Msgs -> {"absent", "pending", "completed", "failed"}]
      /\ seq' \in [Msgs -> Nat] /\ topSeq' \in Nat
      /\ tries' \in [Msgs -> Nat] /\ notDue' \in SUBSET Msgs
  BY DEF TypeOK, ResetStuckProcessingRows, Claims
<1>2. (SetAck(Claims, "none") /\ UNCHANGED faults) \/ (Fault /\ UNCHANGED ackVars)
  BY DEF ResetStuckProcessingRows
<1>3. Claims \in SUBSET Msgs
  BY DEF Claims
<1>4. /\ ack' \in [Msgs -> {"none", "processing", "completed"}]
      /\ aged' \in SUBSET Msgs /\ beat' \in SUBSET Msgs /\ faults' \in Nat
  BY <1>2, <1>3, SetAckType DEF TypeOK, Fault, ackVars
<1> QED BY <1>1, <1>4

\* A container's step keeps every variable in its type.
LEMMA RunnerType == ASSUME TypeOK, NEW r \in Runners, RunnerStep(r) PROVE TypeOK'
<1> USE RunnersAssumption, RowsAssumption, BoundsAssumption
        DEF TypeOK, Phases, inboundVars, ackVars, hostVars, localVars, strayVars
<1>p. PendingFor(r) \subseteq Msgs
  BY PendingForRows
<1>1. CASE Boot(r)
  BY <1>1 DEF Boot, SetAck, Share, Claims
<1>2. CASE PollReads(r)
  BY <1>2, <1>p DEF PollReads, Share
<1>2a. CASE PollClaims(r)
  BY <1>2a DEF PollClaims, SetAck
<1>3. CASE PollSleeps(r)
  BY <1>3 DEF PollSleeps
<1>4. CASE Commands(r)
  BY <1>4 DEF Commands, SetAck
<1>5. CASE Gate(r)
  BY <1>5 DEF Gate, CompleteAndTouch, Claims
<1>6. CASE Event(r)
  BY <1>6 DEF Event, CompleteAndTouch, Claims
<1>7. CASE Result(r)
  BY <1>7 DEF Result, CompleteAndTouch, Claims
<1>8. CASE Hang(r)
  BY <1>8 DEF Hang
<1>9. CASE QueryEnd(r)
  BY <1>9 DEF QueryEnd, SetAck
<1>10. CASE FollowReads(r)
  <2>1. ended' \in [Runners -> BOOLEAN]
    <3>1. [ended EXCEPT ![r] = TRUE] \in [Runners -> BOOLEAN]
      OBVIOUS
    <3>2. ended' = ended \/ ended' = [ended EXCEPT ![r] = TRUE]
      BY <1>10 DEF FollowReads
    <3> QED BY <3>1, <3>2, Zenon
  <2>2. seen' \in [Runners -> SUBSET Msgs] /\ shared' \in SUBSET Msgs
    BY <1>10, <1>p DEF FollowReads, Share
  <2>3. UNCHANGED <<inboundVars, ackVars, hb, hostVars, phase, first, batch, follow, stale,
                    turn, detached, faults>>
    BY <1>10 DEF FollowReads
  <2> QED BY <2>1, <2>2, <2>3
<1>10a. CASE FollowClaims(r)
  BY <1>10a DEF FollowClaims, SetAck
<1>11. CASE FollowPush(r)
  BY <1>11 DEF FollowPush, CompleteAndTouch, Claims
<1>12. CASE FollowDrop(r)
  BY <1>12 DEF FollowDrop, CompleteAndTouch, Claims
<1>13. ASSUME NEW m \in Msgs, TakeAnswer(r, m) PROVE TypeOK'
  BY <1>13 DEF TakeAnswer, SetAck
<1>14. CASE Crash(r)
  <2>1. Forget({r})
    BY <1>14 DEF Crash
  <2> QED BY <1>14, <2>1, ForgetType DEF Crash, Fault
<1> QED
  BY <1>1, <1>2, <1>2a, <1>3, <1>4, <1>5, <1>6, <1>7, <1>8, <1>9, <1>10, <1>10a, <1>11,
     <1>12, <1>13, <1>14 DEF RunnerStep

\* Every action keeps every variable in its type.
LEMMA TypeStep == TypeOK /\ [Next]_vars => TypeOK'
<1> SUFFICES ASSUME TypeOK, [Next]_vars PROVE TypeOK'
  OBVIOUS
<1> USE RunnersAssumption, RowsAssumption, BoundsAssumption
        DEF TypeOK, Phases, inboundVars, ackVars, hostVars, localVars, strayVars
<1>1. ASSUME NEW m \in Msgs, Arrive(m) PROVE TypeOK'
  BY <1>1, NextEvenSeqType DEF Arrive, InsertRow, Wake
<1>2. ASSUME NEW m \in Msgs, Schedule(m) PROVE TypeOK'
  BY <1>2, NextEvenSeqType DEF Schedule, InsertRow
<1>3. ASSUME NEW m \in Msgs, Restart(m) PROVE TypeOK'
  BY <1>3, NextEvenSeqType DEF Restart, InsertRow
<1>4. CASE Stop
  BY <1>4 DEF Stop, Fault
<1>5. ASSUME NEW r \in Runners, Spawned(r) PROVE TypeOK'
  BY <1>5 DEF Spawned, SweepResumes
<1>6. ASSUME NEW r \in Runners, Closed(r) PROVE TypeOK'
  BY <1>6 DEF Closed
<1>7. CASE SpawnFails
  BY <1>7 DEF SpawnFails, SweepResumes, Fault
<1>8. ASSUME NEW r \in Runners, ClientDies(r) PROVE TypeOK'
  BY <1>8, DetachType DEF ClientDies, Detach
<1>9. CASE Kill
  <2>0. active \in Runners
    BY <1>9 DEF Kill
  <2>1. CASE Detach(active)
    BY <1>9, <2>0, <2>1, DetachType DEF Kill, Detach
  <2>2. CASE /\ phase' = [phase EXCEPT ![active] = "dead"]
             /\ Forget({active}) /\ detached' = detached \ {active}
             /\ UNCHANGED <<client, shared, faults>>
    BY <1>9, <2>0, <2>2, ForgetType DEF Kill
  <2> QED BY <1>9, <2>1, <2>2 DEF Kill
<1>10. CASE SweepBegin
  <2>1. status' \in [Msgs -> {"absent", "pending", "completed", "failed"}]
    BY <1>10 DEF SweepBegin, SyncProcessingAcks
  <2>2. spawning' \in Nat /\ sweep' \in {"idle", "waking", "check", "reset"}
    BY <1>10 DEF SweepBegin, Wake
  <2>3. UNCHANGED <<seq, topSeq, tries, notDue, ackVars, hb, hostUp, active, client, onExit,
                    stopping, phase, localVars, strayVars, faults>>
    BY <1>10 DEF SweepBegin
  <2> QED BY <2>1, <2>2, <2>3
<1>11. CASE SweepCheck
  <2>1. stopping' \in BOOLEAN
    BY <1>11, Zenon DEF SweepCheck
  <2>2. sweep' \in {"idle", "waking", "check", "reset"}
    BY <1>11 DEF SweepCheck
  <2>3. UNCHANGED <<inboundVars, ackVars, hb, hostUp, active, client, spawning, onExit, phase,
                    localVars, strayVars, faults>>
    BY <1>11 DEF SweepCheck
  <2> QED BY <2>1, <2>2, <2>3
<1>12. CASE SweepReset
  BY <1>12, ResetType DEF SweepReset
<1>13. CASE HostCrash
  <2>1. /\ faults' \in Nat /\ spawning' \in Nat /\ active' \in Runners \cup {NoRunner}
        /\ onExit' \in SUBSET Runners /\ sweep' \in {"idle", "waking", "check", "reset"}
    BY <1>13 DEF HostCrash, Fault
  <2>2. hostUp' \in BOOLEAN /\ stopping' \in BOOLEAN
    BY <1>13, Zenon DEF HostCrash
  <2>3. client' \in [Runners -> {"none", "attached", "killed"}]
    BY <1>13 DEF HostCrash
  <2>4. UNCHANGED <<inboundVars, ackVars, hb, phase, localVars, strayVars>>
    BY <1>13 DEF HostCrash
  <2> QED BY <2>1, <2>2, <2>3, <2>4
<1>14. CASE HostStart
  <2>1. PICK left \in SUBSET {r \in Runners : Alive(r)} :
          /\ hostUp' = TRUE
          /\ faults' = IF left = {} THEN faults ELSE faults + 1
          /\ phase' = [r \in Runners |-> IF r \in left THEN phase[r] ELSE "dead"]
          /\ Forget(Runners \ left)
          /\ detached' = left
          /\ shared' = shared \cup UNION {Unfinished(r) : r \in left}
          /\ UNCHANGED <<inboundVars, ackVars, hb, active, client, spawning, onExit, sweep,
                         stopping>>
    BY <1>14 DEF HostStart
  <2>2. UNION {Unfinished(r) : r \in left} \subseteq Msgs
    BY HeldType
  <2>3. phase' \in [Runners -> Phases] /\ faults' \in Nat /\ detached' \in SUBSET Runners
    BY <2>1
  <2>4. hostUp' \in BOOLEAN
    BY <2>1, Zenon
  <2> QED BY <2>1, <2>2, <2>3, <2>4, ForgetType
<1>15. ASSUME NEW r \in Runners, RunnerStep(r) PROVE TypeOK'
  BY <1>15, RunnerType
<1>16. CASE TimeStep
  BY <1>16 DEF TimeStep, ClaimAges, HeartbeatAges, BecomesDue
<1>17. CASE UNCHANGED vars
  BY <1>17 DEF vars
<1> QED
  BY <1>1, <1>2, <1>3, <1>4, <1>5, <1>6, <1>7, <1>8, <1>9, <1>10, <1>11, <1>12, <1>13, <1>14,
     <1>15, <1>16, <1>17
  DEF Next, HostStep
-----------------------------------------------------------------------------
(***************************************************************************)
(* What the steps do to containers and their memory.                        *)
(***************************************************************************)
\* A container step moves one live instance, writes nothing of the host's, and
\* never takes a row out of the shared ones.
LEMMA RunnerFrame ==
  ASSUME TypeOK, NEW r \in Runners, RunnerStep(r)
  PROVE  /\ Alive(r)
         /\ \/ phase'[r] # "dead" /\ detached' = detached
            \/ phase'[r] = "dead" /\ detached' = detached \ {r}
         /\ \A s \in Runners \ {r} :
              /\ phase'[s] = phase[s] /\ first'[s] = first[s] /\ seen'[s] = seen[s]
              /\ batch'[s] = batch[s] /\ follow'[s] = follow[s] /\ stale'[s] = stale[s]
              /\ turn'[s] = turn[s]
         /\ shared \subseteq shared'
         /\ UNCHANGED <<inboundVars, hostVars>>
<1> DEFINE G == /\ Alive(r)
                /\ \/ phase'[r] # "dead" /\ detached' = detached
                   \/ phase'[r] = "dead" /\ detached' = detached \ {r}
                /\ \A s \in Runners \ {r} :
                     /\ phase'[s] = phase[s] /\ first'[s] = first[s] /\ seen'[s] = seen[s]
                     /\ batch'[s] = batch[s] /\ follow'[s] = follow[s] /\ stale'[s] = stale[s]
                     /\ turn'[s] = turn[s]
                /\ shared \subseteq shared'
                /\ UNCHANGED <<inboundVars, hostVars>>
<1> SUFFICES G
  OBVIOUS
<1> USE DEF Alive, InQuery, TypeOK, localVars, strayVars
<1>1. CASE Boot(r)  BY <1>1 DEF Boot, Share
<1>2. CASE PollReads(r)  BY <1>2 DEF PollReads, Share
<1>2a. CASE PollClaims(r)  BY <1>2a DEF PollClaims
<1>3. CASE PollSleeps(r)  BY <1>3 DEF PollSleeps
<1>4. CASE Commands(r)  BY <1>4 DEF Commands
<1>5. CASE Gate(r)  BY <1>5 DEF Gate
<1>6. CASE Event(r)  BY <1>6 DEF Event
<1>7. CASE Result(r)  BY <1>7 DEF Result
<1>8. CASE Hang(r)  BY <1>8 DEF Hang
<1>9. CASE QueryEnd(r)  BY <1>9 DEF QueryEnd
<1>10. CASE FollowReads(r)  BY <1>10 DEF FollowReads, Share
<1>10a. CASE FollowClaims(r)  BY <1>10a DEF FollowClaims
<1>11. CASE FollowPush(r)  BY <1>11 DEF FollowPush
<1>12. CASE FollowDrop(r)  BY <1>12 DEF FollowDrop
<1>13. ASSUME NEW m \in Msgs, TakeAnswer(r, m) PROVE G
  BY <1>13 DEF TakeAnswer
<1>14. CASE Crash(r)
  <2>1. \A s \in Runners \ {r} :
          /\ first'[s] = first[s] /\ seen'[s] = seen[s] /\ batch'[s] = batch[s]
          /\ follow'[s] = follow[s] /\ stale'[s] = stale[s] /\ turn'[s] = turn[s]
    BY <1>14, ForgetMemory DEF Crash
  <2> QED BY <1>14, <2>1 DEF Crash
<1> QED
  BY <1>1, <1>2, <1>2a, <1>3, <1>4, <1>5, <1>6, <1>7, <1>8, <1>9, <1>10, <1>10a, <1>11,
     <1>12, <1>13, <1>14 DEF RunnerStep

\* killContainer ends the container, or loses it; no other is touched.
LEMMA KillFrame ==
  ASSUME TypeOK, Kill
  PROVE  /\ active \in Runners /\ hostUp /\ stopping /\ ~stopping'
         /\ \/ /\ phase' = [phase EXCEPT ![active] = "dead"] /\ Forget({active})
               /\ detached' = detached \ {active} /\ UNCHANGED <<client, shared>>
            \/ Detach(active)
         /\ UNCHANGED <<hostUp, active, spawning, sweep>>
  BY DEF Kill, TypeOK

\* A step of the host leaves each instance and its memory alone, starts it, or ends it.
LEMMA HostFrame ==
  ASSUME TypeOK, HostStep \/ TimeStep \/ UNCHANGED vars
  PROVE  /\ shared \subseteq shared'
         /\ \A r \in Runners :
              \/ /\ phase'[r] = "dead" /\ ~first'[r] /\ seen'[r] = {} /\ batch'[r] = {}
                 /\ follow'[r] = {} /\ stale'[r] = {} /\ turn'[r] = {}
              \/ /\ phase'[r] = phase[r] \/ (phase[r] = "dead" /\ phase'[r] = "boot")
                 /\ first'[r] = first[r] /\ seen'[r] = seen[r] /\ batch'[r] = batch[r]
                 /\ follow'[r] = follow[r] /\ stale'[r] = stale[r] /\ turn'[r] = turn[r]
<1> DEFINE Gone(r) == /\ phase'[r] = "dead" /\ ~first'[r] /\ seen'[r] = {} /\ batch'[r] = {}
                      /\ follow'[r] = {} /\ stale'[r] = {} /\ turn'[r] = {}
           Kept(r) == /\ first'[r] = first[r] /\ seen'[r] = seen[r] /\ batch'[r] = batch[r]
                      /\ follow'[r] = follow[r] /\ stale'[r] = stale[r] /\ turn'[r] = turn[r]
           Moved(r) == phase'[r] = phase[r] \/ (phase[r] = "dead" /\ phase'[r] = "boot")
           G == /\ shared \subseteq shared'
                /\ \A r \in Runners : Gone(r) \/ (Moved(r) /\ Kept(r))
<1> SUFFICES G
  OBVIOUS
<1>u. ASSUME UNCHANGED <<phase, localVars>>, shared \subseteq shared' PROVE G
  BY <1>u DEF localVars
<1>d. ASSUME NEW r, Detach(r) PROVE G
  BY <1>d, <1>u DEF Detach
<1>1. ASSUME NEW r \in Runners, Spawned(r) PROVE G
  BY <1>1 DEF Spawned, TypeOK, localVars, strayVars
<1>2. ASSUME NEW r \in Runners, Closed(r) PROVE G
  BY <1>2, <1>u DEF Closed, strayVars
<1>3. ASSUME NEW r \in Runners, ClientDies(r) PROVE G
  BY <1>3, <1>d DEF ClientDies
<1>4. CASE Kill
  <2>1. CASE Detach(active)
    BY <2>1, <1>d
  <2>2. CASE /\ phase' = [phase EXCEPT ![active] = "dead"] /\ Forget({active})
             /\ UNCHANGED shared /\ active \in Runners
    <3>1. \A s \in Runners \ {active} : Moved(s) /\ Kept(s)
      BY <2>2, ForgetMemory DEF TypeOK
    <3>2. Gone(active)
      BY <2>2, ForgetMemory DEF TypeOK
    <3> QED BY <2>2, <3>1, <3>2
  <2> QED BY <1>4, <2>1, <2>2, KillFrame
<1>5. CASE HostStart
  <2>1. PICK left \in SUBSET Runners :
          /\ phase' = [r \in Runners |-> IF r \in left THEN phase[r] ELSE "dead"]
          /\ Forget(Runners \ left)
          /\ shared \subseteq shared'
    BY <1>5 DEF HostStart
  <2>2. \A s \in left : Moved(s) /\ Kept(s)
    BY <2>1, ForgetMemory
  <2>3. \A s \in Runners \ left : Gone(s)
    BY <2>1, ForgetMemory
  <2> QED BY <2>1, <2>2, <2>3
<1>6. ASSUME NEW m \in Msgs, Arrive(m) \/ Schedule(m) \/ Restart(m) PROVE G
  BY <1>6, <1>u DEF Arrive, Schedule, Restart, strayVars
<1>7. CASE SpawnFails \/ Stop \/ SweepBegin \/ SweepCheck \/ SweepReset \/ HostCrash
  BY <1>7, <1>u DEF SpawnFails, Stop, SweepBegin, SweepCheck, SweepReset, HostCrash, strayVars
<1>8. CASE TimeStep \/ UNCHANGED vars
  BY <1>8, <1>u DEF TimeStep, ClaimAges, BecomesDue, HeartbeatAges, vars, strayVars
<1> QED
  BY <1>1, <1>2, <1>3, <1>4, <1>5, <1>6, <1>7, <1>8 DEF HostStep
-----------------------------------------------------------------------------
(***************************************************************************)
(* The host's view of its containers.                                      *)
(***************************************************************************)
\* One entry, one client, one spawn, one container that is not lost: kept by
\* every action.
LEMMA HostInvStep == SessionInv /\ [Next]_vars => HostInv'
<1> SUFFICES ASSUME SessionInv, [Next]_vars PROVE HostInv'
  OBVIOUS
<1> USE RunnersAssumption
<1>0. TypeOK /\ HostInv
  BY DEF SessionInv
<1>1. ASSUME NEW m \in Msgs, Arrive(m) PROVE HostInv'
  <2>1. /\ UNCHANGED <<hostUp, active, client, sweep, stopping, phase, detached>> /\ hostUp
        /\ ~stopping /\ sweep # "reset"
    BY <1>1 DEF Arrive, InsertRow, Free, strayVars
  <2>2. spawning' = spawning \/ (active = NoRunner /\ spawning' = 1)
    BY <1>1, <1>0 DEF Arrive, Wake, HostInv
  <2> QED BY <1>0, <2>1, <2>2 DEF HostInv, AtMostOneRunner, Alive
<1>2. ASSUME NEW m \in Msgs, Schedule(m) PROVE HostInv'
  BY <1>0, <1>2 DEF Schedule, HostInv, AtMostOneRunner, Alive, hostVars, strayVars
<1>3. ASSUME NEW m \in Msgs, Restart(m) PROVE HostInv'
  BY <1>0, <1>3 DEF Restart, InsertRow, Free, HostInv, AtMostOneRunner, Alive, strayVars
<1>4. CASE Stop
  BY <1>0, <1>4 DEF Stop, Free, HostInv, AtMostOneRunner, Alive, strayVars
<1>5. ASSUME NEW r \in Runners, Spawned(r) PROVE HostInv'
  <2>1. /\ active = NoRunner /\ spawning' = 0 /\ hostUp /\ ~stopping
        /\ \A s \in Runners : client[s] = "none"
        /\ \A s \in Runners : Alive(s) => s \in detached
    BY <1>0, <1>5 DEF Spawned, HostInv, TypeOK, Free
  <2>2. /\ active' = r /\ client' = [client EXCEPT ![r] = "attached"]
        /\ phase' = [phase EXCEPT ![r] = "boot"] /\ phase[r] = "dead"
        /\ UNCHANGED <<hostUp, stopping, detached>> /\ sweep' # "reset"
    BY <1>5 DEF Spawned, SweepResumes, Free, strayVars
  <2>3. r \notin detached
    BY <1>0, <2>2 DEF HostInv, Alive
  <2> QED BY <1>0, <2>1, <2>2, <2>3 DEF HostInv, AtMostOneRunner, Alive, TypeOK
<1>6. ASSUME NEW r \in Runners, Closed(r) PROVE HostInv'
  <2>1. /\ active = r /\ hostUp /\ ~stopping /\ sweep # "reset" /\ spawning = 0
        /\ Alive(r) => r \in detached
    BY <1>0, <1>6 DEF Closed, HostInv, TypeOK, Free, Alive
  <2>2. /\ active' = NoRunner /\ client' = [client EXCEPT ![r] = "none"]
        /\ spawning' \in {0, 1}
        /\ UNCHANGED <<hostUp, stopping, sweep, phase, detached>>
    BY <1>6, <2>1 DEF Closed, strayVars
  <2> QED BY <1>0, <2>1, <2>2 DEF HostInv, AtMostOneRunner, Alive, TypeOK
<1>7. CASE SpawnFails
  BY <1>0, <1>7 DEF SpawnFails, SweepResumes, Free, HostInv, AtMostOneRunner, Alive, strayVars
<1>8. ASSUME NEW r \in Runners, ClientDies(r) PROVE HostInv'
  <2>1. /\ Alive(r) /\ client' = [client EXCEPT ![r] = "killed"] /\ client[r] # "none"
        /\ detached' = detached \cup {r}
        /\ UNCHANGED <<phase, hostUp, active, spawning, sweep, stopping>>
    BY <1>8 DEF ClientDies, Detach
  <2> QED BY <1>0, <2>1 DEF HostInv, AtMostOneRunner, Alive, TypeOK
<1>9. CASE Kill
  <2>0. active \in Runners /\ hostUp /\ ~stopping' /\ UNCHANGED <<hostUp, active, spawning, sweep>>
    BY <1>0, <1>9, KillFrame
  <2>1. CASE Detach(active)
    <3>1. /\ client' = [client EXCEPT ![active] = "killed"]
          /\ detached' = detached \cup {active} /\ Alive(active) /\ UNCHANGED phase
      BY <2>1 DEF Detach
    <3> QED BY <1>0, <2>0, <3>1 DEF HostInv, AtMostOneRunner, Alive, TypeOK
  <2>2. CASE /\ phase' = [phase EXCEPT ![active] = "dead"]
             /\ detached' = detached \ {active} /\ UNCHANGED client
    BY <1>0, <2>0, <2>2 DEF HostInv, AtMostOneRunner, Alive, TypeOK
  <2> QED BY <1>0, <1>9, <2>1, <2>2, KillFrame
<1>10. CASE SweepBegin
  <2>1. /\ UNCHANGED <<hostUp, active, client, stopping, phase, detached>> /\ sweep' # "reset"
        /\ spawning' = spawning \/ (active = NoRunner /\ spawning' = 1)
        /\ hostUp /\ ~stopping
    BY <1>0, <1>10 DEF SweepBegin, Wake, Free, strayVars, HostInv
  <2> QED BY <1>0, <2>1 DEF HostInv, AtMostOneRunner, Alive
<1>11. CASE SweepCheck
  <2>1. /\ UNCHANGED <<hostUp, active, client, spawning, phase, detached>> /\ hostUp
        /\ stopping' => active # NoRunner
        /\ sweep' = "reset" /\ ~stopping' => active = NoRunner
    BY <1>11 DEF SweepCheck, strayVars
  <2> QED BY <1>0, <2>1 DEF HostInv, AtMostOneRunner, Alive
<1>12. CASE SweepReset
  BY <1>0, <1>12 DEF SweepReset, HostInv, AtMostOneRunner, Alive, strayVars
<1>13. CASE HostCrash
  BY <1>0, <1>13 DEF HostCrash, HostInv, AtMostOneRunner, Alive, strayVars
<1>14. CASE HostStart
  <2>1. PICK left \in SUBSET {r \in Runners : Alive(r)} :
          /\ ~hostUp /\ hostUp'
          /\ phase' = [r \in Runners |-> IF r \in left THEN phase[r] ELSE "dead"]
          /\ detached' = left
          /\ UNCHANGED <<active, client, spawning, sweep, stopping>>
    BY <1>14 DEF HostStart
  <2> QED BY <1>0, <2>1 DEF HostInv, AtMostOneRunner, Alive, TypeOK
<1>15. ASSUME NEW r \in Runners, RunnerStep(r) PROVE HostInv'
  <2>1. /\ Alive(r) /\ UNCHANGED hostVars
        /\ \A s \in Runners \ {r} : phase'[s] = phase[s]
        /\ \/ phase'[r] # "dead" /\ detached' = detached
           \/ phase'[r] = "dead" /\ detached' = detached \ {r}
    BY <1>0, <1>15, RunnerFrame
  <2>2. \A s \in Runners : Alive(s)' => Alive(s) /\ (s \in detached <=> s \in detached')
    BY <2>1 DEF Alive
  <2>3. \A s \in Runners : s \in detached' => Alive(s)' /\ s \in detached
    BY <1>0, <2>1 DEF HostInv, Alive
  <2> HIDE <1>15
  <2> QED BY <1>0, <2>1, <2>2, <2>3 DEF HostInv, AtMostOneRunner, hostVars
<1>16. CASE TimeStep
  BY <1>0, <1>16 DEF TimeStep, ClaimAges, HeartbeatAges, BecomesDue, HostInv,
                     AtMostOneRunner, Alive, hostVars, strayVars
<1>17. CASE UNCHANGED vars
  BY <1>0, <1>17 DEF vars, hostVars, strayVars, HostInv, AtMostOneRunner, Alive
<1> QED
  BY <1>1, <1>2, <1>3, <1>4, <1>5, <1>6, <1>7, <1>8, <1>9, <1>10, <1>11, <1>12, <1>13, <1>14,
     <1>15, <1>16, <1>17
  DEF Next, HostStep
-----------------------------------------------------------------------------
(***************************************************************************)
(* Rows in the hands of containers.                                        *)
(***************************************************************************)
\* An unshared row in hand is unacked when only read, claimed or completed when
\* taken; and two instances hold no unfinished unshared row between them.
LEMMA HeldRows ==
  ASSUME SessionInv, NEW m \in Msgs, m \notin shared, NEW r \in Runners
  PROVE  /\ m \in seen[r] => status[m] = "pending" /\ ack[m] = "none" /\ m \notin SystemMsg
         /\ m \in batch[r] => ack[m] \in {"processing", "completed"}
         /\ m \in batch[r] /\ phase[r] \in {"claimed", "gate"} => ack[m] = "processing"
         /\ m \in follow[r] \cup stale[r] => ack[m] = "processing"
         /\ m \in turn[r] \cap batch[r] => ack[m] = "processing"
         /\ m \in Held(r) /\ ack[m] # "completed" => Alive(r) /\ r \notin detached
         /\ \A s \in Runners : m \in Held(r) \cap Held(s) /\ ack[m] # "completed" => r = s
<1>0. TypeOK /\ MemoryInv /\ RowsInv /\ HostInv /\ StrayInv
  BY DEF SessionInv
<1>1. m \in seen[r] => status[m] = "pending" /\ ack[m] = "none" /\ m \notin SystemMsg
  BY <1>0 DEF RowsInv, MemoryInv
<1>2. ack[m] \in {"none", "processing", "completed"}
  BY <1>0 DEF TypeOK
<1>3. /\ m \in batch[r] => ack[m] \in {"processing", "completed"}
      /\ m \in batch[r] /\ phase[r] \in {"claimed", "gate"} => ack[m] = "processing"
      /\ m \in follow[r] \cup stale[r] => ack[m] = "processing"
      /\ m \in turn[r] \cap batch[r] => ack[m] = "processing"
  BY <1>2 DEF SessionInv, RunnerHoldsClaims, OpenTurnIsClaimed, Acked, Claims
<1>4. \A s \in Runners : m \in Held(s) /\ ack[m] # "completed" => Alive(s) /\ s \notin detached
  BY <1>0 DEF MemoryInv, StrayInv, Held, Unfinished, Alive, InQuery
<1>5. \A s \in Runners : m \in Held(r) \cap Held(s) /\ ack[m] # "completed" => r = s
  BY <1>0, <1>4 DEF HostInv, AtMostOneRunner
<1> QED BY <1>1, <1>3, <1>4, <1>5

\* What a container step may take into its hands: pending rows, shared at once
\* when the host has lost the container.
LEMMA RunnerTakes ==
  ASSUME SessionInv, NEW r \in Runners, RunnerStep(r), NEW m \in Msgs, m \in Held(r)', m \notin Held(r)
  PROVE  /\ status[m] = "pending" /\ ack[m] = "none" /\ ack'[m] = "none"
         /\ r \in detached => m \in shared'
<1> DEFINE G == /\ status[m] = "pending" /\ ack[m] = "none" /\ ack'[m] = "none"
                /\ r \in detached => m \in shared'
<1> SUFFICES G
  OBVIOUS
<1>0. TypeOK
  BY DEF SessionInv
<1>p. /\ PendingFor(r) \subseteq Msgs
      /\ \A n \in PendingFor(r) : status[n] = "pending" /\ ack[n] = "none"
  BY <1>0, PendingForRows
<1> USE <1>0 DEF Held, TypeOK
<1>1. CASE Boot(r)  BY <1>1 DEF Boot
<1>2. CASE PollReads(r)  BY <1>2, <1>p DEF PollReads, Share, ackVars
<1>3. CASE PollClaims(r)  BY <1>3 DEF PollClaims
<1>4. CASE PollSleeps(r)  BY <1>4 DEF PollSleeps
<1>5. CASE Commands(r)  BY <1>5 DEF Commands
<1>6. CASE Gate(r)  BY <1>6 DEF Gate
<1>7. CASE Event(r) \/ Hang(r)  BY <1>7 DEF Event, Hang, localVars
<1>8. CASE Result(r)  BY <1>8 DEF Result
<1>9. CASE QueryEnd(r)  BY <1>9 DEF QueryEnd
<1>10. CASE FollowReads(r)  BY <1>10, <1>p DEF FollowReads, Share, ackVars
<1>11. CASE FollowClaims(r)  BY <1>11 DEF FollowClaims
<1>12. CASE FollowPush(r)  BY <1>12 DEF FollowPush
<1>13. CASE FollowDrop(r)  BY <1>13 DEF FollowDrop
<1>14. ASSUME NEW n \in Msgs, TakeAnswer(r, n) PROVE G
  BY <1>14 DEF TakeAnswer, localVars
<1>15. CASE Crash(r)
  BY <1>15, ForgetMemory DEF Crash
<1> QED
  BY <1>1, <1>2, <1>3, <1>4, <1>5, <1>6, <1>7, <1>8, <1>9, <1>10, <1>11, <1>12, <1>13,
     <1>14, <1>15 DEF RunnerStep

\* What a container step may do to one row's ack: claim what it has read, complete
\* what it has taken, take an answer, or (at start-up) drop the claim.
LEMMA RunnerAcks ==
  ASSUME SessionInv, NEW r \in Runners, RunnerStep(r), NEW m \in Msgs, ack'[m] # ack[m]
  PROVE  \/ ack'[m] = "processing" /\ m \in seen[r]
         \/ ack'[m] = "completed" /\ m \in batch[r] \cup follow[r] \cup stale[r]
         \/ /\ ack'[m] = "completed" /\ ack[m] = "none" /\ status[m] = "pending"
            /\ m \in SystemMsg
         \/ /\ ack'[m] = "none" /\ ack[m] = "processing" /\ phase[r] = "boot"
            /\ r \in detached => m \in shared'
<1> DEFINE G == \/ ack'[m] = "processing" /\ m \in seen[r]
                \/ ack'[m] = "completed" /\ m \in batch[r] \cup follow[r] \cup stale[r]
                \/ /\ ack'[m] = "completed" /\ ack[m] = "none" /\ status[m] = "pending"
                   /\ m \in SystemMsg
                \/ /\ ack'[m] = "none" /\ ack[m] = "processing" /\ phase[r] = "boot"
                   /\ r \in detached => m \in shared'
<1> SUFFICES G
  OBVIOUS
<1>1. CASE Boot(r)
  BY <1>1 DEF Boot, SetAck, Claims, Share
<1>2. CASE PollClaims(r) \/ FollowClaims(r)
  BY <1>2 DEF PollClaims, FollowClaims, SetAck
<1>3. CASE Commands(r)
  BY <1>3 DEF Commands, SetAck
<1>4. CASE Gate(r)
  BY <1>4 DEF Gate, CompleteAndTouch
<1>5. CASE Event(r) \/ Result(r)
  BY <1>5 DEF Event, Result, CompleteAndTouch
<1>6. CASE QueryEnd(r)
  BY <1>6 DEF QueryEnd, SetAck
<1>7. CASE FollowPush(r) \/ FollowDrop(r)
  BY <1>7 DEF FollowPush, FollowDrop, CompleteAndTouch
<1>8. ASSUME NEW n \in Msgs, TakeAnswer(r, n) PROVE G
  BY <1>8 DEF TakeAnswer, SetAck
<1>9. CASE PollReads(r) \/ PollSleeps(r) \/ FollowReads(r) \/ Hang(r) \/ Crash(r)
  BY <1>9 DEF PollReads, PollSleeps, FollowReads, Hang, Crash, ackVars
<1> QED
  BY <1>1, <1>2, <1>3, <1>4, <1>5, <1>6, <1>7, <1>8, <1>9 DEF RunnerStep

\* A row a container step writes an ack for is its own: an unshared one no other
\* instance holds unfinished keeps its ack.
LEMMA OthersAcks ==
  ASSUME SessionInv, NEW r \in Runners, RunnerStep(r), NEW m \in Msgs, m \notin shared',
         NEW s \in Runners, s # r, m \in Held(s)
  PROVE  ack'[m] = ack[m]
<1>0. m \notin shared
  BY RunnerFrame DEF SessionInv
<1>1. Alive(r)
  BY RunnerFrame DEF SessionInv
<1>2. SUFFICES ASSUME ack'[m] # ack[m] PROVE FALSE
  OBVIOUS
<1>3. CASE ack[m] = "completed"
  BY <1>0, <1>2, <1>3, RunnerAcks, HeldRows DEF Held
<1>4. CASE ack[m] # "completed"
  <2>1. m \notin Held(r) /\ s \notin detached /\ Alive(s)
    BY <1>0, <1>4, HeldRows
  <2>2. m \notin SystemMsg \/ ack[m] # "none"
    BY <1>0, HeldRows DEF Held
  <2>3. ack'[m] = "none" /\ ack[m] = "processing" /\ (r \in detached => m \in shared')
    BY <1>2, <2>1, <2>2, RunnerAcks DEF Held
  <2>4. r \in detached
    BY <1>1, <2>1 DEF SessionInv, HostInv, AtMostOneRunner
  <2> QED BY <2>3, <2>4
<1> QED BY <1>3, <1>4

\* What a host step may do to one row's ack: nothing, or (with none but lost
\* containers left alive) drop the claim.
LEMMA HostAcks ==
  ASSUME SessionInv, HostStep \/ TimeStep \/ UNCHANGED vars, NEW m \in Msgs, ack'[m] # ack[m]
  PROVE  /\ SweepReset
         /\ ack' = [n \in Msgs |-> IF n \in Claims THEN "none" ELSE ack[n]]
         /\ ack[m] = "processing" /\ ack'[m] = "none"
         /\ \A r \in Runners : Alive(r) => r \in detached
<1>1. SweepReset
  BY DEF HostStep, TimeStep, vars, ackVars, Arrive, Schedule, Restart, Stop, Spawned, Closed,
         ClientDies, SpawnFails, Kill, SweepBegin, SweepCheck, HostCrash, HostStart, ClaimAges,
         BecomesDue, HeartbeatAges
<1>2. ack' = [n \in Msgs |-> IF n \in Claims THEN "none" ELSE ack[n]]
  BY <1>1 DEF SweepReset, ResetStuckProcessingRows, SetAck, ackVars
<1>3. ack[m] = "processing" /\ ack'[m] = "none"
  BY <1>2 DEF Claims
<1>4. \A r \in Runners : Alive(r) => r \in detached
  BY <1>1 DEF SweepReset, SessionInv, HostInv
<1> QED BY <1>1, <1>2, <1>3, <1>4

\* What a step other than a container's may do to one row of messages_in:
\* insert it, sync its completion, charge it a retry or give it up.
LEMMA HostRows ==
  ASSUME SessionInv, HostStep \/ TimeStep \/ UNCHANGED vars, NEW m \in Msgs
  PROVE  \/ status'[m] = status[m] /\ tries'[m] = tries[m]
         \/ status[m] = "absent" /\ status'[m] = "pending" /\ tries'[m] = tries[m]
         \/ ack[m] = "completed" /\ status'[m] = "completed" /\ tries'[m] = tries[m]
         \/ /\ SweepReset /\ ack[m] = "processing" /\ status[m] = "pending"
            /\ \/ tries[m] >= MaxTries /\ status'[m] = "failed" /\ tries'[m] = tries[m]
               \/ tries[m] < MaxTries /\ status'[m] = "pending" /\ tries'[m] = tries[m] + 1
<1> DEFINE G == \/ status'[m] = status[m] /\ tries'[m] = tries[m]
                \/ status[m] = "absent" /\ status'[m] = "pending" /\ tries'[m] = tries[m]
                \/ ack[m] = "completed" /\ status'[m] = "completed" /\ tries'[m] = tries[m]
                \/ /\ SweepReset /\ ack[m] = "processing" /\ status[m] = "pending"
                   /\ \/ tries[m] >= MaxTries /\ status'[m] = "failed" /\ tries'[m] = tries[m]
                      \/ tries[m] < MaxTries /\ status'[m] = "pending" /\ tries'[m] = tries[m] + 1
<1> SUFFICES G
  OBVIOUS
<1>0. TypeOK
  BY DEF SessionInv
<1>1. ASSUME NEW n \in Msgs, Arrive(n) \/ Schedule(n) \/ Restart(n) PROVE G
  <2>1. InsertRow(n) /\ UNCHANGED tries
    BY <1>1 DEF Arrive, Schedule, Restart
  <2> QED BY <1>0, <2>1 DEF InsertRow, TypeOK
<1>2. ASSUME NEW r \in Runners, Spawned(r) \/ Closed(r) \/ ClientDies(r) PROVE G
  BY <1>2 DEF Spawned, Closed, ClientDies, inboundVars
<1>3. CASE SweepBegin
  BY <1>3 DEF SweepBegin, SyncProcessingAcks
<1>4. CASE SweepReset
  <2> DEFINE retried == {n \in Claims : status[n] = "pending" /\ n \notin notDue}
             exhausted == {n \in retried : tries[n] >= MaxTries}
  <2>1. /\ status' = [n \in Msgs |-> IF n \in exhausted THEN "failed" ELSE status[n]]
        /\ tries' = [n \in Msgs |-> IF n \in retried \ exhausted THEN tries[n] + 1
                                                               ELSE tries[n]]
    BY <1>4 DEF SweepReset, ResetStuckProcessingRows
  <2>2. CASE m \notin retried
    BY <2>1, <2>2
  <2>3. CASE m \in exhausted
    BY <1>4, <2>1, <2>3 DEF Claims
  <2>4. CASE m \in retried \ exhausted
    <3>1. tries[m] < MaxTries
      BY <1>0, <2>4, BoundsAssumption DEF TypeOK
    <3> QED BY <1>4, <2>1, <2>4, <3>1 DEF Claims
  <2> QED BY <2>2, <2>3, <2>4
<1>5. CASE SpawnFails \/ Stop \/ Kill \/ SweepCheck \/ HostCrash \/ HostStart
  BY <1>5 DEF SpawnFails, Stop, Kill, SweepCheck, HostCrash, HostStart, inboundVars
<1>6. CASE TimeStep
  BY <1>6 DEF TimeStep, ClaimAges, HeartbeatAges, BecomesDue, inboundVars
<1>7. CASE UNCHANGED vars
  BY <1>7 DEF vars, inboundVars
<1> QED
  BY <1>1, <1>2, <1>3, <1>4, <1>5, <1>6, <1>7 DEF HostStep

\* A row that becomes shared has been written and is not completed.
LEMMA SharedRows ==
  ASSUME SessionInv, [Next]_vars, NEW m \in Msgs, m \in shared', m \notin shared
  PROVE  /\ status'[m] = status[m]
         /\ \/ ack[m] = "none" /\ ack'[m] = "none" /\ status[m] = "pending"
            \/ ack[m] = "processing" /\ status[m] \in {"pending", "failed"}
         /\ ack'[m] = ack[m] \/ ack[m] = "processing"
<1> DEFINE U == \/ ack[m] = "none" /\ status[m] = "pending"
                \/ ack[m] = "processing" /\ status[m] \in {"pending", "failed"}
<1>0. TypeOK /\ RowsInv
  BY DEF SessionInv
<1>1. ASSUME NEW r \in Runners, m \in Unfinished(r) PROVE U
  BY <1>0, <1>1, HeldRows DEF Unfinished, Held, RowsInv, TypeOK
<1>2. CASE \E r \in Runners : RunnerStep(r)
  <2>1. PICK r \in Runners : RunnerStep(r)
    BY <1>2
  <2>2. status' = status
    BY <1>0, <2>1, RunnerFrame DEF inboundVars
  <2>3. \/ Boot(r) /\ m \in Claims
        \/ (PollReads(r) \/ FollowReads(r)) /\ m \in PendingFor(r)
    BY <2>1 DEF RunnerStep, Share, Boot, PollReads, PollClaims, PollSleeps, Commands, Gate,
       Event, Result, Hang, QueryEnd, FollowReads, FollowClaims, FollowPush, FollowDrop,
       TakeAnswer, Crash, strayVars
  <2>4. CASE Boot(r) /\ m \in Claims
    BY <1>0, <2>2, <2>4 DEF Claims, RowsInv
  <2>5. CASE (PollReads(r) \/ FollowReads(r)) /\ m \in PendingFor(r)
    BY <1>0, <2>2, <2>5, PendingForRows DEF PollReads, FollowReads, ackVars
  <2> QED BY <2>3, <2>4, <2>5
<1>3. CASE HostStep \/ TimeStep \/ UNCHANGED vars
  <2>1. /\ \E r \in Runners : m \in Unfinished(r)
        /\ UNCHANGED <<inboundVars, ackVars>>
    <3>1. CASE \E r \in Runners : ClientDies(r)
      BY <3>1 DEF ClientDies, Detach
    <3>2. CASE Kill
      BY <1>0, <3>2, KillFrame DEF Kill, Detach
    <3>3. CASE HostStart
      BY <3>3 DEF HostStart
    <3> QED
      BY <1>3, <3>1, <3>2, <3>3
      DEF HostStep, TimeStep, vars, strayVars, Arrive, Schedule, Restart, Stop, Spawned, Closed,
         SpawnFails, SweepBegin, SweepCheck, SweepReset, HostCrash, ClaimAges,
         BecomesDue, HeartbeatAges
  <2> QED BY <1>1, <2>1 DEF inboundVars, ackVars
<1> QED BY <1>2, <1>3 DEF Next
-----------------------------------------------------------------------------
(***************************************************************************)
(* The invariants, one by one.                                             *)
(***************************************************************************)
\* A container's own memory keeps to its phase through each of its steps.
LEMMA OwnMemory ==
  ASSUME SessionInv, NEW r \in Runners, RunnerStep(r)
  PROVE  /\ phase'[r] \in {"dead", "boot"} => stale'[r] = {}
         /\ phase'[r] \in {"dead", "boot", "poll"} => batch'[r] = {}
         /\ ~InQuery(r)' => follow'[r] = {} /\ turn'[r] = {}
         /\ phase'[r] \notin {"poll", "query", "hung"} => seen'[r] = {}
         /\ InQuery(r)' /\ seen'[r] # {} => follow'[r] = {}
         /\ first'[r] => phase'[r] = "poll"
         /\ seen'[r] \cap OnWake # {} => first'[r]
         /\ batch'[r] \cap (follow'[r] \cup stale'[r]) \subseteq shared'
         /\ follow'[r] \cap stale'[r] \subseteq shared'
         /\ seen'[r] \cap SystemMsg = {}
<1> DEFINE G == /\ phase'[r] \in {"dead", "boot"} => stale'[r] = {}
                /\ phase'[r] \in {"dead", "boot", "poll"} => batch'[r] = {}
                /\ ~InQuery(r)' => follow'[r] = {} /\ turn'[r] = {}
                /\ phase'[r] \notin {"poll", "query", "hung"} => seen'[r] = {}
                /\ InQuery(r)' /\ seen'[r] # {} => follow'[r] = {}
                /\ first'[r] => phase'[r] = "poll"
                /\ seen'[r] \cap OnWake # {} => first'[r]
                /\ batch'[r] \cap (follow'[r] \cup stale'[r]) \subseteq shared'
                /\ follow'[r] \cap stale'[r] \subseteq shared'
                /\ seen'[r] \cap SystemMsg = {}
<1> SUFFICES G
  OBVIOUS
<1>0. TypeOK
  BY DEF SessionInv
<1>m. /\ phase[r] \in {"dead", "boot"} => stale[r] = {}
      /\ phase[r] \in {"dead", "boot", "poll"} => batch[r] = {}
      /\ ~InQuery(r) => follow[r] = {} /\ turn[r] = {}
      /\ phase[r] \notin {"poll", "query", "hung"} => seen[r] = {}
      /\ InQuery(r) /\ seen[r] # {} => follow[r] = {}
      /\ first[r] => phase[r] = "poll"
      /\ seen[r] \cap OnWake # {} => first[r]
      /\ batch[r] \cap (follow[r] \cup stale[r]) \subseteq shared
      /\ follow[r] \cap stale[r] \subseteq shared
      /\ seen[r] \cap SystemMsg = {}
  BY DEF SessionInv, MemoryInv
<1>s. shared \subseteq shared'
  BY <1>0, RunnerFrame
<1>p. /\ PendingFor(r) \subseteq Msgs
      /\ \A n \in PendingFor(r) : n \in OnWake => first[r]
  BY <1>0, PendingForRows
<1>d. seen[r] \cap (batch[r] \cup follow[r] \cup stale[r]) \subseteq shared
  BY <1>0, HeldRows DEF TypeOK
<1> USE <1>0, <1>m, <1>s DEF TypeOK, InQuery
<1>1. CASE Boot(r)
  BY <1>1 DEF Boot
<1>2. CASE PollReads(r)
  BY <1>2, <1>p DEF PollReads
<1>3. CASE PollClaims(r)
  BY <1>3, <1>d DEF PollClaims
<1>4. CASE PollSleeps(r)
  BY <1>4 DEF PollSleeps
<1>5. CASE Commands(r)
  BY <1>5 DEF Commands
<1>6. CASE Gate(r)
  <2>1. PICK keep \in SUBSET batch[r] :
          /\ phase[r] = "gate"
          /\ batch' = [batch EXCEPT ![r] = keep]
          /\ turn' = [turn EXCEPT ![r] = keep]
          /\ phase' = [phase EXCEPT ![r] = IF keep = {} THEN "poll" ELSE "query"]
          /\ UNCHANGED <<first, seen, follow, stale>>
    BY <1>6 DEF Gate
  <2> QED BY <2>1
<1>7. CASE Event(r)
  BY <1>7 DEF Event, localVars
<1>8. CASE Result(r)
  BY <1>8 DEF Result
<1>9. CASE Hang(r)
  BY <1>9 DEF Hang, localVars
<1>10. CASE QueryEnd(r)
  BY <1>10 DEF QueryEnd
<1>11. CASE FollowReads(r)
  <2>1. /\ InQuery(r) /\ follow[r] = {} /\ ~first[r]
        /\ UNCHANGED <<phase, first, batch, follow, stale, turn>>
        /\ \/ UNCHANGED seen
           \/ seen' = [seen EXCEPT ![r] = PendingFor(r) \ SystemMsg]
    BY <1>11 DEF FollowReads
  <2> QED BY <2>1, <1>p
<1>12. CASE FollowClaims(r)
  BY <1>12, <1>d DEF FollowClaims
<1>13. CASE FollowPush(r)
  BY <1>13 DEF FollowPush
<1>14. CASE FollowDrop(r)
  BY <1>14 DEF FollowDrop, Alive
<1>15. ASSUME NEW m \in Msgs, TakeAnswer(r, m) PROVE G
  BY <1>15 DEF TakeAnswer, localVars
<1>16. CASE Crash(r)
  <2>1. Forget({r}) /\ phase' = [phase EXCEPT ![r] = "dead"]
    BY <1>16 DEF Crash
  <2> QED BY <2>1, ForgetMemory
<1> QED
  BY <1>1, <1>2, <1>3, <1>4, <1>5, <1>6, <1>7, <1>8, <1>9, <1>10, <1>11, <1>12, <1>13,
     <1>14, <1>15, <1>16 DEF RunnerStep

\* The sets an instance holds fit its phase and do not overlap.
LEMMA MemoryInvStep == SessionInv /\ [Next]_vars => MemoryInv'
<1> SUFFICES ASSUME SessionInv, [Next]_vars, NEW r \in Runners
             PROVE  /\ phase'[r] \in {"dead", "boot"} => stale'[r] = {}
                    /\ phase'[r] \in {"dead", "boot", "poll"} => batch'[r] = {}
                    /\ ~InQuery(r)' => follow'[r] = {} /\ turn'[r] = {}
                    /\ phase'[r] \notin {"poll", "query", "hung"} => seen'[r] = {}
                    /\ InQuery(r)' /\ seen'[r] # {} => follow'[r] = {}
                    /\ first'[r] => phase'[r] = "poll"
                    /\ seen'[r] \cap OnWake # {} => first'[r]
                    /\ batch'[r] \cap (follow'[r] \cup stale'[r]) \subseteq shared'
                    /\ follow'[r] \cap stale'[r] \subseteq shared'
                    /\ seen'[r] \cap SystemMsg = {}
  BY DEF MemoryInv
<1>0. TypeOK /\ MemoryInv
  BY DEF SessionInv
<1>1. CASE RunnerStep(r)
  BY <1>1, OwnMemory
<1>2. ASSUME NEW s \in Runners, RunnerStep(s), s # r
      PROVE  /\ phase'[r] = phase[r] /\ first'[r] = first[r] /\ seen'[r] = seen[r]
             /\ batch'[r] = batch[r] /\ follow'[r] = follow[r] /\ stale'[r] = stale[r]
             /\ turn'[r] = turn[r] /\ shared \subseteq shared'
  BY <1>0, <1>2, RunnerFrame
<1>3. CASE \E s \in Runners \ {r} : RunnerStep(s)
  BY <1>0, <1>2, <1>3 DEF MemoryInv, InQuery
<1>4. CASE HostStep \/ TimeStep \/ UNCHANGED vars
  BY <1>0, <1>4, HostFrame DEF MemoryInv, InQuery
<1> QED BY <1>1, <1>3, <1>4 DEF Next

\* The rows in hand after a step were in hand before, or are pending ones a poll
\* of their container has read.
LEMMA HeldStep ==
  ASSUME SessionInv, [Next]_vars, NEW r \in Runners, NEW m \in Msgs, m \in Held(r)', m \notin Held(r)
  PROVE  /\ status[m] = "pending" /\ status'[m] = "pending" /\ ack[m] = "none" /\ ack'[m] = "none"
         /\ r \in detached' => m \in shared'
<1>0. TypeOK
  BY DEF SessionInv
<1>1. CASE \E s \in Runners : RunnerStep(s)
  <2>1. PICK s \in Runners : RunnerStep(s)
    BY <1>1
  <2>2. s = r
    BY <1>0, <2>1, RunnerFrame DEF Held
  <2>3. detached' \subseteq detached /\ status' = status
    BY <1>0, <2>1, RunnerFrame DEF inboundVars
  <2> QED BY <2>1, <2>2, <2>3, RunnerTakes
<1>2. CASE HostStep \/ TimeStep \/ UNCHANGED vars
  BY <1>0, <1>2, HostFrame DEF Held
<1> QED BY <1>1, <1>2 DEF Next

\* A row just read keeps its ack until it is claimed.
LEMMA RunnerReads ==
  ASSUME SessionInv, NEW r \in Runners, RunnerStep(r), NEW m \in Msgs, m \notin shared',
         m \in seen'[r]
  PROVE  ack'[m] = ack[m] /\ (m \in seen[r] \/ (status[m] = "pending" /\ ack[m] = "none"))
<1> DEFINE G == ack'[m] = ack[m] /\ (m \in seen[r] \/ (status[m] = "pending" /\ ack[m] = "none"))
<1> SUFFICES G
  OBVIOUS
<1>0. TypeOK /\ m \notin shared
  BY RunnerFrame DEF SessionInv
<1>m. /\ phase[r] \notin {"poll", "query", "hung"} => seen[r] = {}
      /\ InQuery(r) /\ seen[r] # {} => follow[r] = {}
  BY DEF SessionInv, MemoryInv
<1>p. /\ PendingFor(r) \subseteq Msgs
      /\ \A n \in PendingFor(r) : status[n] = "pending" /\ ack[n] = "none"
  BY <1>0, PendingForRows
<1>d. m \in seen[r] => m \notin stale[r] /\ m \notin SystemMsg
  BY <1>0, HeldRows
<1> USE <1>0, <1>m DEF TypeOK, InQuery
<1>1. CASE Boot(r)  BY <1>1 DEF Boot
<1>2. CASE PollReads(r)  BY <1>2, <1>p DEF PollReads, ackVars
<1>3. CASE PollClaims(r)  BY <1>3 DEF PollClaims
<1>4. CASE PollSleeps(r)  BY <1>4 DEF PollSleeps, ackVars
<1>5. CASE Commands(r)  BY <1>5 DEF Commands
<1>6. CASE Gate(r)  BY <1>6 DEF Gate
<1>7. CASE Event(r) \/ Result(r)  BY <1>7 DEF Event, Result, localVars
<1>8. CASE Hang(r)  BY <1>8 DEF Hang, localVars, ackVars
<1>9. CASE QueryEnd(r)  BY <1>9 DEF QueryEnd
<1>10. CASE FollowReads(r)  BY <1>10, <1>p DEF FollowReads, ackVars
<1>11. CASE FollowClaims(r)  BY <1>11 DEF FollowClaims
<1>12. CASE FollowPush(r)  BY <1>12 DEF FollowPush
<1>13. CASE FollowDrop(r)
  <2>1. UNCHANGED seen
    BY <1>13 DEF FollowDrop
  <2>2. \E S \in SUBSET stale[r] : ack' = [n \in Msgs |-> IF n \in S THEN "completed" ELSE ack[n]]
    BY <1>13 DEF FollowDrop, CompleteAndTouch
  <2> QED BY <2>1, <2>2, <1>d
<1>14. ASSUME NEW n \in Msgs, TakeAnswer(r, n) PROVE G
  BY <1>14, <1>d DEF TakeAnswer, SetAck, localVars
<1>15. CASE Crash(r)
  BY <1>15, ForgetMemory DEF Crash
<1> QED
  BY <1>1, <1>2, <1>3, <1>4, <1>5, <1>6, <1>7, <1>8, <1>9, <1>10, <1>11, <1>12, <1>13,
     <1>14, <1>15 DEF RunnerStep

\* A row keeps being absent or written, whoever steps.
LEMMA RunnerRows ==
  ASSUME SessionInv, NEW r \in Runners, RunnerStep(r)
  PROVE  status' = status /\ tries' = tries
  BY RunnerFrame DEF SessionInv, inboundVars

\* Only pending rows are read and claimed and only written rows acked, kept by
\* every action.
LEMMA RowsInvStep == SessionInv /\ [Next]_vars => RowsInv'
<1> SUFFICES ASSUME SessionInv, [Next]_vars, NEW m \in Msgs
             PROVE  /\ status'[m] = "absent" => ack'[m] = "none" /\ m \notin shared'
                    /\ m \notin shared' /\ ack'[m] = "processing"
                         => status'[m] \in {"pending", "failed"}
                    /\ \A r \in Runners : m \in seen'[r] \ shared'
                         => status'[m] = "pending" /\ ack'[m] = "none"
  BY DEF RowsInv
<1>0. TypeOK
  BY DEF SessionInv
<1>1. /\ status[m] = "absent" => ack[m] = "none" /\ m \notin shared
      /\ m \notin shared /\ ack[m] = "processing" => status[m] \in {"pending", "failed"}
      /\ \A r \in Runners : m \in seen[r] \ shared => status[m] = "pending" /\ ack[m] = "none"
  BY DEF SessionInv, RowsInv
<1>2. status'[m] = "absent" => m \notin shared'
  <2>1. status'[m] = "absent" => status[m] = "absent"
    BY RunnerRows, HostRows DEF Next
  <2> QED BY <1>1, <2>1, SharedRows
<1>3. CASE \E r \in Runners : RunnerStep(r)
  <2>1. PICK r \in Runners : RunnerStep(r)
    BY <1>3
  <2>2. status' = status /\ shared \subseteq shared'
    BY <1>0, <2>1, RunnerRows, RunnerFrame
  <2>3. m \notin shared =>
          /\ m \in batch[r] => ack[m] # "none"
          /\ m \in follow[r] \cup stale[r] => ack[m] # "none"
    BY HeldRows
  <2>4. status'[m] = "absent" => ack'[m] = "none"
    BY <1>1, <2>1, <2>2, <2>3, RunnerAcks
  <2>5. m \notin shared' /\ ack'[m] = "processing" => status'[m] \in {"pending", "failed"}
    BY <1>1, <2>1, <2>2, RunnerAcks
  <2>6. ASSUME NEW s \in Runners, m \in seen'[s], m \notin shared'
        PROVE  status'[m] = "pending" /\ ack'[m] = "none"
    <3>1. CASE s = r
      BY <1>1, <2>1, <2>2, <2>6, <3>1, RunnerReads
    <3>2. CASE s # r
      <4>1. seen'[s] = seen[s]
        BY <1>0, <2>1, <3>2, RunnerFrame
      <4>2. ack'[m] = ack[m]
        BY <2>1, <2>6, <3>2, <4>1, OthersAcks DEF Held
      <4> QED BY <1>1, <2>2, <2>6, <4>1, <4>2
    <3> QED BY <3>1, <3>2
  <2> QED BY <1>2, <2>4, <2>5, <2>6
<1>4. CASE HostStep \/ TimeStep \/ UNCHANGED vars
  <2>1. \/ ack'[m] = ack[m]
        \/ ack[m] = "processing" /\ ack'[m] = "none"
    BY <1>4, HostAcks
  <2>2. shared \subseteq shared' /\ \A r \in Runners : seen'[r] \subseteq seen[r]
    BY <1>0, <1>4, HostFrame
  <2>3. \/ status'[m] = status[m]
        \/ status[m] = "absent" /\ status'[m] = "pending"
        \/ ack[m] = "completed" /\ status'[m] = "completed"
        \/ ack[m] = "processing" /\ status'[m] \in {"pending", "failed"}
    BY <1>4, HostRows
  <2> QED BY <1>1, <1>2, <2>1, <2>2, <2>3
<1> QED BY <1>3, <1>4 DEF Next

\* A container the host loses leaves what it has in hand marked.
LEMMA StrayInvStep == SessionInv /\ [Next]_vars => StrayInv'
<1> SUFFICES ASSUME SessionInv, [Next]_vars PROVE StrayInv'
  OBVIOUS
<1> SUFFICES ASSUME NEW r \in Runners, r \in detached', NEW m \in Msgs,
                    m \in Held(r)', ack'[m] # "completed", m \notin shared'
             PROVE  FALSE
  <2>1. TypeOK'
    BY TypeStep DEF SessionInv
  <2>2. /\ detached' \subseteq Runners
        /\ \A s \in Runners : Held(s)' \subseteq Msgs
    BY <2>1 DEF Held, TypeOK
  <2> QED BY <2>2 DEF StrayInv, Unfinished
<1>0. TypeOK /\ StrayInv
  BY DEF SessionInv
<1>1. m \in Held(r)
  BY HeldStep
<1>2. shared \subseteq shared'
  BY <1>0, RunnerFrame, HostFrame DEF Next
<1>3. ack[m] # "completed"
  BY <1>2, RunnerAcks, HostAcks, HeldRows DEF Next
<1>4. r \notin detached
  BY <1>0, <1>1, <1>2, <1>3 DEF StrayInv, Unfinished
<1>5. ~ \E s \in Runners : RunnerStep(s)
  BY <1>0, <1>4, RunnerFrame
<1>6. Unfinished(r) \subseteq shared'
  <2>1. ASSUME NEW s \in Runners, ClientDies(s) PROVE Unfinished(r) \subseteq shared'
    BY <1>4, <2>1 DEF ClientDies, Detach
  <2>2. CASE Kill
    BY <1>0, <1>4, <2>2, KillFrame DEF Detach
  <2>3. CASE HostStart
    BY <2>3 DEF HostStart
  <2> QED
    BY <1>4, <1>5, <2>1, <2>2, <2>3
    DEF Next, HostStep, TimeStep, vars, strayVars, Arrive, Schedule, Restart, Stop, Spawned, Closed,
        SpawnFails, SweepBegin, SweepCheck, SweepReset, HostCrash, ClaimAges,
        BecomesDue, HeartbeatAges
<1> QED BY <1>1, <1>2, <1>3, <1>6 DEF Unfinished

\* A message is given up when its retries are spent, and nobody has it in hand:
\* kept by every action.
LEMMA FailedStep == SessionInv /\ [Next]_vars => FailedIsExhausted'
<1> SUFFICES ASSUME SessionInv, [Next]_vars, NEW m \in Msgs
             PROVE  /\ tries'[m] <= MaxTries
                    /\ status'[m] = "failed" =>
                         /\ tries'[m] = MaxTries
                         /\ m \notin shared' =>
                              ack'[m] # "completed" /\ \A r \in Runners : m \notin Held(r)'
  BY DEF FailedIsExhausted
<1>0. TypeOK
  BY DEF SessionInv
<1>1. /\ tries[m] \in Nat /\ MaxTries \in Nat /\ tries[m] <= MaxTries
      /\ status[m] = "failed" =>
           /\ tries[m] = MaxTries
           /\ m \notin shared => ack[m] # "completed" /\ \A r \in Runners : m \notin Held(r)
  BY <1>0, BoundsAssumption DEF SessionInv, FailedIsExhausted, TypeOK
<1>2. shared \subseteq shared'
  BY <1>0, RunnerFrame, HostFrame DEF Next
<1>3. CASE \E s \in Runners : RunnerStep(s)
  <2>1. PICK s \in Runners : RunnerStep(s)
    BY <1>3
  <2>2. status' = status /\ tries' = tries
    BY <2>1, RunnerRows
  <2>3. ASSUME status[m] = "failed", m \notin shared'
        PROVE  ack'[m] # "completed" /\ \A r \in Runners : m \notin Held(r)'
    <3>1. ack[m] # "completed" /\ \A r \in Runners : m \notin Held(r)
      BY <1>1, <1>2, <2>3
    <3>2. ack'[m] # "completed"
      BY <2>1, <2>3, <3>1, RunnerAcks DEF Held
    <3> QED BY <2>3, <3>1, <3>2, HeldStep
  <2> QED BY <1>1, <2>2, <2>3
<1>4. CASE HostStep \/ TimeStep \/ UNCHANGED vars
  <2>1. \A r \in Runners : Held(r)' \subseteq Held(r)
    BY <1>0, <1>4, HostFrame DEF Held
  <2>2. ack'[m] = ack[m] \/ ack'[m] = "none"
    BY <1>4, HostAcks
  <2>3. CASE status'[m] = status[m] /\ tries'[m] = tries[m]
    BY <1>1, <1>2, <2>1, <2>2, <2>3
  <2>4. CASE status'[m] # "failed" /\ tries'[m] = tries[m]
    BY <1>1, <2>4
  <2>5. CASE /\ SweepReset /\ ack[m] = "processing" /\ status[m] = "pending"
             /\ tries[m] >= MaxTries /\ status'[m] = "failed" /\ tries'[m] = tries[m]
    <3>1. \A r \in Runners : Alive(r) => r \in detached
      BY <2>5 DEF SweepReset, SessionInv, HostInv
    <3>2. m \notin shared => \A r \in Runners : m \notin Held(r)
      BY <2>5, <3>1, HeldRows
    <3> QED BY <1>1, <1>2, <2>1, <2>2, <2>5, <3>2
  <2>6. CASE tries[m] < MaxTries /\ status'[m] = "pending" /\ tries'[m] = tries[m] + 1
    BY <1>1, <2>6
  <2> QED BY <1>4, <2>3, <2>4, <2>5, <2>6, HostRows
<1> QED BY <1>3, <1>4 DEF Next

\* A container's own step keeps what it holds claimed or completed.
LEMMA OwnClaims ==
  ASSUME SessionInv, NEW r \in Runners, RunnerStep(r), NEW m \in Msgs, m \notin shared'
  PROVE  /\ m \in batch'[r] => ack'[m] \in {"processing", "completed"}
         /\ m \in batch'[r] /\ phase'[r] \in {"claimed", "gate"} => ack'[m] = "processing"
         /\ m \in follow'[r] \cup stale'[r] => ack'[m] = "processing"
         /\ m \in turn'[r] \cap batch'[r] => ack'[m] = "processing"
<1> DEFINE G == /\ m \in batch'[r] => ack'[m] \in {"processing", "completed"}
                /\ m \in batch'[r] /\ phase'[r] \in {"claimed", "gate"} => ack'[m] = "processing"
                /\ m \in follow'[r] \cup stale'[r] => ack'[m] = "processing"
                /\ m \in turn'[r] \cap batch'[r] => ack'[m] = "processing"
<1> SUFFICES G
  OBVIOUS
<1>0. TypeOK /\ m \notin shared
  BY RunnerFrame DEF SessionInv
<1>m. /\ phase[r] \in {"dead", "boot"} => stale[r] = {}
      /\ phase[r] \in {"dead", "boot", "poll"} => batch[r] = {}
      /\ ~InQuery(r) => follow[r] = {} /\ turn[r] = {}
      /\ InQuery(r) /\ seen[r] # {} => follow[r] = {}
      /\ batch[r] \cap (follow[r] \cup stale[r]) \subseteq shared
      /\ follow[r] \cap stale[r] \subseteq shared
  BY DEF SessionInv, MemoryInv
<1>h. /\ m \in seen[r] => ack[m] = "none" /\ m \notin SystemMsg
      /\ m \in batch[r] => ack[m] \in {"processing", "completed"}
      /\ m \in batch[r] /\ phase[r] \in {"claimed", "gate"} => ack[m] = "processing"
      /\ m \in follow[r] \cup stale[r] => ack[m] = "processing"
      /\ m \in turn[r] \cap batch[r] => ack[m] = "processing"
  BY <1>0, HeldRows
<1> USE <1>0, <1>m, <1>h DEF TypeOK, InQuery
<1>1. CASE Boot(r)  BY <1>1 DEF Boot
<1>2. CASE PollReads(r)  BY <1>2 DEF PollReads, ackVars
<1>3. CASE PollClaims(r)  BY <1>3 DEF PollClaims, SetAck
<1>4. CASE PollSleeps(r)  BY <1>4 DEF PollSleeps, ackVars
<1>5. CASE Commands(r)  BY <1>5 DEF Commands, SetAck
<1>6. CASE Gate(r)
  <2>1. PICK skipped \in SUBSET (batch[r] \cap Scripted) :
          /\ phase[r] = "gate"
          /\ ack' = [n \in Msgs |-> IF n \in skipped THEN "completed" ELSE ack[n]]
          /\ batch' = [batch EXCEPT ![r] = batch[r] \ skipped]
          /\ turn' = [turn EXCEPT ![r] = batch[r] \ skipped]
          /\ UNCHANGED <<follow, stale>>
    BY <1>6 DEF Gate, CompleteAndTouch
  <2> QED BY <2>1
<1>7. CASE Event(r)  BY <1>7 DEF Event, CompleteAndTouch, localVars
<1>8. CASE Result(r)
  <2>1. /\ phase[r] = "query"
        /\ ack' = [n \in Msgs |-> IF n \in batch[r] THEN "completed" ELSE ack[n]]
        /\ \E open \in SUBSET (turn[r] \ batch[r]) : turn' = [turn EXCEPT ![r] = open]
        /\ UNCHANGED <<phase, batch, follow, stale>>
    BY <1>8 DEF Result, CompleteAndTouch
  <2> QED BY <2>1
<1>9. CASE Hang(r)  BY <1>9 DEF Hang, localVars, ackVars
<1>10. CASE QueryEnd(r)
  BY <1>10 DEF QueryEnd, SetAck
<1>11. CASE FollowReads(r)
  <2>1. UNCHANGED <<ack, phase, batch, follow, stale, turn>>
    BY <1>11 DEF FollowReads, ackVars
  <2> QED BY <2>1
<1>12. CASE FollowClaims(r)  BY <1>12 DEF FollowClaims, SetAck
<1>13. CASE FollowPush(r)
  <2>1. PICK skipped \in SUBSET (follow[r] \cap Scripted) :
          /\ InQuery(r)
          /\ ack' = [n \in Msgs |-> IF n \in follow[r] THEN "completed" ELSE ack[n]]
          /\ turn' = [turn EXCEPT ![r] = turn[r] \cup (follow[r] \ skipped)]
          /\ follow' = [follow EXCEPT ![r] = {}]
          /\ UNCHANGED <<phase, batch, stale>>
    BY <1>13 DEF FollowPush, CompleteAndTouch
  <2> QED BY <2>1
<1>14. CASE FollowDrop(r)
  <2>1. PICK rows \in SUBSET stale[r] : \E skipped \in SUBSET rows :
          /\ ack' = [n \in Msgs |-> IF n \in skipped THEN "completed" ELSE ack[n]]
          /\ stale' = [stale EXCEPT ![r] = stale[r] \ rows]
          /\ UNCHANGED <<phase, batch, follow, turn>>
    BY <1>14 DEF FollowDrop, CompleteAndTouch
  <2> QED BY <2>1
<1>15. ASSUME NEW n \in Msgs, TakeAnswer(r, n) PROVE G
  BY <1>15 DEF TakeAnswer, SetAck, localVars
<1>16. CASE Crash(r)
  BY <1>16, ForgetMemory DEF Crash
<1> QED
  BY <1>1, <1>2, <1>3, <1>4, <1>5, <1>6, <1>7, <1>8, <1>9, <1>10, <1>11, <1>12, <1>13,
     <1>14, <1>15, <1>16 DEF RunnerStep

\* What a container holds stays claimed, or completed by itself, whoever steps.
LEMMA ClaimsStep ==
  SessionInv /\ [Next]_vars => RunnerHoldsClaims' /\ OpenTurnIsClaimed'
<1> SUFFICES ASSUME SessionInv, [Next]_vars PROVE RunnerHoldsClaims' /\ OpenTurnIsClaimed'
  OBVIOUS
<1>0. TypeOK /\ TypeOK'
  BY TypeStep DEF SessionInv
<1>1. shared \subseteq shared'
  BY <1>0, RunnerFrame, HostFrame DEF Next
<1>2. ASSUME NEW r \in Runners, NEW m \in Msgs, m \notin shared'
      PROVE  /\ m \in batch'[r] => ack'[m] \in {"processing", "completed"}
             /\ m \in batch'[r] /\ phase'[r] \in {"claimed", "gate"} => ack'[m] = "processing"
             /\ m \in follow'[r] \cup stale'[r] => ack'[m] = "processing"
             /\ m \in turn'[r] \cap batch'[r] => ack'[m] = "processing"
  <2>0. m \notin shared
    BY <1>1, <1>2
  <2>h. /\ m \in batch[r] => ack[m] \in {"processing", "completed"}
        /\ m \in batch[r] /\ phase[r] \in {"claimed", "gate"} => ack[m] = "processing"
        /\ m \in follow[r] \cup stale[r] => ack[m] = "processing"
        /\ m \in turn[r] \cap batch[r] => ack[m] = "processing"
        /\ m \in Held(r) /\ ack[m] # "completed" => Alive(r) /\ r \notin detached
    BY <2>0, HeldRows
  <2>1. CASE RunnerStep(r)
    BY <1>2, <2>1, OwnClaims
  <2>2. CASE \E s \in Runners \ {r} : RunnerStep(s)
    <3>1. PICK s \in Runners \ {r} : RunnerStep(s)
      BY <2>2
    <3>2. /\ phase'[r] = phase[r] /\ batch'[r] = batch[r] /\ follow'[r] = follow[r]
          /\ stale'[r] = stale[r] /\ turn'[r] = turn[r]
      BY <1>0, <3>1, RunnerFrame
    <3>3. m \in Held(r) => ack'[m] = ack[m]
      BY <1>2, <3>1, OthersAcks
    <3> QED BY <2>h, <3>2, <3>3 DEF Held
  <2>3. CASE HostStep \/ TimeStep \/ UNCHANGED vars
    <3>1. m \in Held(r) => ack'[m] = ack[m]
      BY <2>3, <2>h, HostAcks
    <3> QED BY <1>0, <2>3, <2>h, <3>1, HostFrame DEF Held
  <2> QED BY <2>1, <2>2, <2>3 DEF Next
<1> QED BY <1>0, <1>2 DEF RunnerHoldsClaims, OpenTurnIsClaimed, Acked, Claims, TypeOK

\* The invariant holds at the start.
LEMMA SessionInit == Init => SessionInv
<1> SUFFICES ASSUME Init PROVE SessionInv
  OBVIOUS
<1>1. TypeOK
  BY RunnersAssumption, BoundsAssumption DEF Init, TypeOK, Phases
<1>2. HostInv
  BY RunnersAssumption DEF Init, HostInv, AtMostOneRunner, Alive
<1>3. MemoryInv
  BY DEF Init, MemoryInv, InQuery
<1>4. RowsInv /\ StrayInv
  BY DEF Init, RowsInv, StrayInv
<1>5. RunnerHoldsClaims /\ OpenTurnIsClaimed
  BY DEF Init, RunnerHoldsClaims, OpenTurnIsClaimed
<1>6. FailedIsExhausted
  BY BoundsAssumption DEF Init, FailedIsExhausted
<1> QED BY <1>1, <1>2, <1>3, <1>4, <1>5, <1>6 DEF SessionInv

\* The inductive invariant: types, the host's view, what the instances remember,
\* and the agreement of the two databases, with all that a failed docker stop, a
\* failed clean-up or a dying client may leave behind.
THEOREM SessionInvariant == Spec => []SessionInv
<1>1. SessionInv /\ [Next]_vars => SessionInv'
  <2> SUFFICES ASSUME SessionInv, [Next]_vars PROVE SessionInv'
    OBVIOUS
  <2>1. TypeOK'
    BY TypeStep DEF SessionInv
  <2>2. HostInv' /\ MemoryInv' /\ RowsInv' /\ StrayInv' /\ FailedIsExhausted'
    BY HostInvStep, MemoryInvStep, RowsInvStep, StrayInvStep, FailedStep
  <2>3. RunnerHoldsClaims' /\ OpenTurnIsClaimed'
    BY ClaimsStep
  <2> QED BY <2>1, <2>2, <2>3 DEF SessionInv
<1> QED BY <1>1, SessionInit, PTL DEF Spec

\* container-runner.ts: two containers never serve one session at a time, whatever
\* is restarted, killed, crashed or woken twice, but for those a docker stop or
\* the clean-up at start-up has failed for, or whose client has died.
THEOREM OneRunner == Spec => []AtMostOneRunner
<1>1. SessionInv => AtMostOneRunner
  BY DEF SessionInv, HostInv
<1> QED BY <1>1, SessionInvariant, PTL

\* isContainerRunning never overlooks a live container, but for the same ones.
THEOREM HostKnows == Spec => []HostKnowsRunner
<1>1. SessionInv => HostKnowsRunner
  BY DEF SessionInv, HostInv, HostKnowsRunner, Alive
<1> QED BY <1>1, SessionInvariant, PTL

\* The sweep never takes a claim from under a live poll loop, but for rows a
\* container it has failed to stop had in its hands.
THEOREM ClaimsAreHeld == Spec => []RunnerHoldsClaims
<1>1. SessionInv => RunnerHoldsClaims
  BY DEF SessionInv
<1> QED BY <1>1, SessionInvariant, PTL

\* poll-loop.ts: a message of the initial batch stays claimed while its turn is
\* open, so nobody else answers it; the same rows excepted.
THEOREM OpenTurnHeld == Spec => []OpenTurnIsClaimed
<1>1. SessionInv => OpenTurnIsClaimed
  BY DEF SessionInv
<1> QED BY <1>1, SessionInvariant, PTL

\* A message is given up only when its retries are spent; then nobody holds it and
\* nobody has completed it, but a container that outlived its stop.
THEOREM GivenUpIsExhausted == Spec => []FailedIsExhausted
<1>1. SessionInv => FailedIsExhausted
  BY DEF SessionInv
<1> QED BY <1>1, SessionInvariant, PTL

\* No step takes a row of messages_in out of completed; out of failed, only the
\* late ack of a container that outlived its stop does.
THEOREM FinalOutcomes == Spec => OutcomesAreFinal
<1> DEFINE A == \A m \in Msgs :
                  status[m] = "completed" \/ (status[m] = "failed" /\ m \notin shared)
                    => status'[m] = status[m]
<1>1. SessionInv /\ [Next]_vars => [A]_status
  <2> SUFFICES ASSUME SessionInv, [Next]_vars, NEW m \in Msgs,
                      status[m] = "completed" \/ (status[m] = "failed" /\ m \notin shared)
               PROVE  status'[m] = status[m]
    OBVIOUS
  <2>1. CASE \E r \in Runners : RunnerStep(r)
    BY <2>1, RunnerRows
  <2>2. CASE HostStep \/ TimeStep \/ UNCHANGED vars
    <3>1. status[m] = "failed" /\ m \notin shared => ack[m] # "completed"
      BY DEF SessionInv, FailedIsExhausted
    <3> QED BY <2>2, <3>1, HostRows
  <2> QED BY <2>1, <2>2 DEF Next
<1> QED BY <1>1, SessionInvariant, PTL DEF Spec, OutcomesAreFinal

\* A step that puts an unshared row into a turn finds it claimed.
LEMMA TurnStep ==
  ASSUME SessionInv, [Next]_vars, NEW r \in Runners, NEW m \in Msgs, m \notin shared,
         m \in turn'[r], m \notin turn[r]
  PROVE  ack[m] # "completed"
<1>0. TypeOK
  BY DEF SessionInv
<1>1. CASE \E s \in Runners : RunnerStep(s)
  <2>1. PICK s \in Runners : RunnerStep(s)
    BY <1>1
  <2>2. s = r
    BY <1>0, <2>1, RunnerFrame
  <2>3. CASE Gate(r)
    <3>1. m \in batch[r] /\ phase[r] = "gate"
      BY <1>0, <2>3 DEF Gate, TypeOK
    <3> QED BY <3>1, HeldRows
  <2>4. CASE FollowPush(r)
    <3>1. m \in follow[r]
      BY <1>0, <2>4 DEF FollowPush, TypeOK
    <3> QED BY <3>1, HeldRows
  <2>5. CASE Result(r) \/ QueryEnd(r)
    BY <1>0, <2>5 DEF Result, QueryEnd, TypeOK
  <2>6. CASE Crash(r)
    BY <1>0, <2>6, ForgetMemory DEF Crash
  <2>7. CASE UNCHANGED turn
    BY <2>7
  <2> QED
    BY <2>1, <2>2, <2>3, <2>4, <2>5, <2>6, <2>7
    DEF RunnerStep, Boot, PollReads, PollClaims, PollSleeps, Commands, Event, Hang,
        FollowReads, FollowClaims, FollowDrop, TakeAnswer, localVars
<1>2. CASE HostStep \/ TimeStep \/ UNCHANGED vars
  BY <1>0, <1>2, HostFrame
<1> QED BY <1>1, <1>2 DEF Next

\* Nothing a container has completed is claimed or prompted again, unless one that
\* outlived its stop had read it before.
THEOREM NoReprompt == Spec => CompletedNotReprompted
<1> DEFINE A == \A m \in Msgs \ shared : ack[m] = "completed" =>
                  ack'[m] = "completed" /\ \A r \in Runners : m \in turn'[r] => m \in turn[r]
<1>1. SessionInv /\ [Next]_vars => [A]_<<ack, turn>>
  <2> SUFFICES ASSUME SessionInv, [Next]_vars, NEW m \in Msgs \ shared, ack[m] = "completed"
               PROVE  /\ ack'[m] = "completed"
                      /\ \A r \in Runners : m \in turn'[r] => m \in turn[r]
    OBVIOUS
  <2>1. \A r \in Runners : m \in turn'[r] => m \in turn[r]
    BY TurnStep
  <2>2. m \notin UNION {seen[r] : r \in Runners}
    BY HeldRows
  <2>3. ack'[m] = "completed"
    BY <2>2, RunnerAcks, HostAcks DEF Next
  <2> QED BY <2>1, <2>3
<1> QED BY <1>1, SessionInvariant, PTL DEF Spec, CompletedNotReprompted

\* A restart's wake message is taken by a first poll only.
THEOREM WakeOnFirstPoll == Spec => OnWakeOnFirstPoll
<1> DEFINE A == \A m \in OnWake : ack[m] = "none" /\ ack'[m] = "processing"
                  => \E r \in Runners : phase[r] = "poll" /\ first[r] /\ m \in batch'[r]
<1>1. SessionInv /\ [Next]_vars => [A]_ack
  <2> SUFFICES ASSUME SessionInv, [Next]_vars, NEW m \in OnWake,
                      ack[m] = "none", ack'[m] = "processing"
               PROVE  \E r \in Runners : phase[r] = "poll" /\ first[r] /\ m \in batch'[r]
    OBVIOUS
  <2>0. m \in Msgs
    BY RowsAssumption
  <2>1. PICK r \in Runners : RunnerStep(r)
    BY <2>0, HostAcks DEF Next
  <2>2. m \in seen[r]
    BY <2>0, <2>1, RunnerAcks
  <2>3. first[r] /\ phase[r] = "poll"
    BY <2>2 DEF SessionInv, MemoryInv
  <2>4. PollClaims(r)
    BY <2>0, <2>1, <2>2, <2>3
    DEF RunnerStep, Boot, PollReads, PollSleeps, Commands, Gate, Event, Result, Hang, QueryEnd,
        FollowReads, FollowClaims, FollowPush, FollowDrop, TakeAnswer, Crash, SetAck,
        CompleteAndTouch, ackVars, InQuery
  <2> QED BY <2>2, <2>3, <2>4 DEF PollClaims, SessionInv, TypeOK
<1> QED BY <1>1, SessionInvariant, PTL DEF Spec, OnWakeOnFirstPoll
-----------------------------------------------------------------------------
(***************************************************************************)
(* Session implements Inbox for every value of the constants: each step of  *)
(* the host or of a container is a step of Inbox on MessageState or none.   *)
(***************************************************************************)
\* A write of processing_ack that claims unacked pending rows is a Claim, one
\* that completes acked rows a Finish of those still claimed; shared rows are
\* astray whatever is written.
LEMMA AckWrite ==
  ASSUME TypeOK, UNCHANGED <<status, shared>>, NEW S \in SUBSET Msgs,
         NEW v \in {"processing", "completed"},
         ack' = [m \in Msgs |-> IF m \in S THEN v ELSE ack[m]],
         v = "processing" => \A m \in S \ shared : status[m] = "pending" /\ ack[m] = "none",
         v = "completed" => S \ shared \subseteq Acked
  PROVE  Promise!Next
<1> USE DEF MessageState, StateOf
<1>1. CASE v = "processing"
  <2>0. PICK T \in SUBSET Msgs : T = S \ shared
    OBVIOUS
  <2>1. Promise!Claim(T)
    BY <1>1, <2>0 DEF Promise!Claim
  <2> QED BY <2>1 DEF Promise!Next
<1>2. CASE v = "completed"
  <2>0. PICK T \in SUBSET Msgs : T = (S \cap Claims) \ shared
    OBVIOUS
  <2>1. T \subseteq Promise!Claimed
    BY <2>0 DEF Promise!Claimed, Claims
  <2>2. \A m \in Msgs : ack[m] \in {"none", "processing", "completed"}
    BY DEF TypeOK
  <2>3. MessageState' = [m \in Msgs |-> IF m \in T THEN "done" ELSE MessageState[m]]
    <3>1. \A m \in Msgs : StateOf(m)' = IF m \in T THEN "done" ELSE StateOf(m)
      BY <1>2, <2>0, <2>2 DEF Claims, Acked
    <3> QED BY <3>1
  <2>4. Promise!Finish(T)
    BY <2>1, <2>3 DEF Promise!Finish
  <2> QED BY <2>4 DEF Promise!Next
<1> QED BY <1>1, <1>2

\* Steps that write neither database's status and lose nobody stutter.
LEMMA Stutter == ASSUME UNCHANGED <<status, ack, shared>> PROVE UNCHANGED MessageState
  BY DEF MessageState, StateOf

\* Dropping every claim revokes it: the rows that are failed then are given up.
LEMMA Revocation ==
  ASSUME SessionInv, UNCHANGED shared,
         ack' = [m \in Msgs |-> IF m \in Claims THEN "none" ELSE ack[m]],
         \A m \in Msgs : m \in Claims \ shared => status'[m] \in {"pending", "failed"},
         \A m \in Msgs : m \notin Claims => status'[m] = status[m]
  PROVE  Promise!Next
<1> USE DEF MessageState, StateOf
<1>0. PICK T \in SUBSET Msgs : T = {m \in Claims \ shared : status'[m] = "failed"}
  BY DEF Claims
<1>1. \A m \in Msgs : ack[m] \in {"none", "processing", "completed"}
  BY DEF SessionInv, TypeOK
<1>2. T \subseteq Promise!Claimed
  BY <1>0 DEF Promise!Claimed, Claims
<1>3. \A m \in Msgs : m \in Promise!Claimed <=> m \in Claims /\ m \notin shared
  BY <1>1 DEF Promise!Claimed, Claims, SessionInv, TypeOK
<1>4. \A m \in Msgs : StateOf(m)' = IF m \in T THEN "failed"
                                    ELSE IF m \in Promise!Claimed THEN "pending"
                                    ELSE MessageState[m]
  BY <1>0, <1>1, <1>3 DEF Claims
<1>5. MessageState' = [m \in Msgs |-> IF m \in T THEN "failed"
                                      ELSE IF m \in Promise!Claimed THEN "pending"
                                      ELSE MessageState[m]]
  BY <1>4
<1>6. Promise!Revoke(T)
  BY <1>2, <1>5 DEF Promise!Revoke
<1> QED BY <1>6 DEF Promise!Next

\* Rows that become shared go astray when no other row's state changes.
LEMMA Straying ==
  ASSUME SessionInv, [Next]_vars, NEW S \in SUBSET Msgs, shared' = shared \cup S,
         \A m \in Msgs : m \notin shared' => status'[m] = status[m] /\ ack'[m] = ack[m]
  PROVE  Promise!Next
<1> USE DEF MessageState, StateOf
<1>0. PICK T \in SUBSET Msgs : T = S \ shared
  OBVIOUS
<1>1. \A m \in T : StateOf(m) \in {"pending", "claimed"}
  BY <1>0, SharedRows
<1>2. \A m \in Msgs : StateOf(m)' = IF m \in T THEN "stray" ELSE StateOf(m)
  BY <1>0
<1>3. MessageState' = [m \in Msgs |-> IF m \in T THEN "stray" ELSE MessageState[m]]
  BY <1>2
<1>4. Promise!Stray(T)
  BY <1>1, <1>3 DEF Promise!Stray
<1> QED BY <1>4 DEF Promise!Next

\* A new row arrives.
LEMMA Arrival ==
  ASSUME SessionInv, NEW m \in Msgs, InsertRow(m), UNCHANGED <<ack, shared>>
  PROVE  Promise!Next
<1>1. ack[m] = "none" /\ m \notin shared
  BY DEF InsertRow, SessionInv, RowsInv
<1>2. StateOf(m) = "absent"
  BY <1>1 DEF InsertRow, StateOf
<1>3. \A n \in Msgs : StateOf(n)' = IF n = m THEN "pending" ELSE StateOf(n)
  BY <1>1 DEF InsertRow, StateOf, SessionInv, TypeOK
<1>4. Promise!Arrive(m)
  BY <1>2, <1>3 DEF Promise!Arrive, MessageState
<1> QED BY <1>4 DEF Promise!Next

\* A container's step is a step of Inbox or none.
LEMMA RunnerImplements ==
  ASSUME SessionInv, [Next]_vars, NEW r \in Runners, RunnerStep(r)
  PROVE  Promise!Next \/ UNCHANGED MessageState
<1> DEFINE G == Promise!Next \/ UNCHANGED MessageState
<1> SUFFICES G
  OBVIOUS
<1>0. TypeOK
  BY DEF SessionInv
<1>1. status' = status
  BY RunnerRows
<1>h. \A m \in Msgs \ shared :
        /\ m \in seen[r] => status[m] = "pending" /\ ack[m] = "none"
        /\ m \in batch[r] \cup follow[r] \cup stale[r] => m \in Acked
  BY HeldRows DEF Acked
<1>t. /\ seen[r] \subseteq Msgs /\ batch[r] \subseteq Msgs /\ follow[r] \subseteq Msgs
      /\ stale[r] \subseteq Msgs
  BY <1>0 DEF TypeOK
<1>s. ASSUME UNCHANGED <<ack, shared>> PROVE G
  BY <1>1, <1>s, Stutter
<1>p. ASSUME NEW S \in SUBSET Msgs, S \subseteq seen[r], UNCHANGED shared, SetAck(S, "processing")
      PROVE  G
  <2>1. \A m \in S \ shared : status[m] = "pending" /\ ack[m] = "none"
    BY <1>h, <1>p
  <2>2. ack' = [m \in Msgs |-> IF m \in S THEN "processing" ELSE ack[m]]
    BY <1>p DEF SetAck
  <2> QED BY <1>0, <1>1, <1>p, <2>1, <2>2, AckWrite
<1>c. ASSUME NEW S \in SUBSET Msgs, S \subseteq batch[r] \cup follow[r] \cup stale[r],
             UNCHANGED shared, ack' = [m \in Msgs |-> IF m \in S THEN "completed" ELSE ack[m]]
      PROVE  G
  <2>1. S \ shared \subseteq Acked
    BY <1>h, <1>c
  <2> QED BY <1>0, <1>1, <1>c, <2>1, AckWrite
<1>2. CASE Boot(r)
  <2>1. ack' = [m \in Msgs |-> IF m \in Claims THEN "none" ELSE ack[m]]
    BY <1>2 DEF Boot, SetAck
  <2>2. CASE r \in detached
    <3>1. shared' = shared \cup Claims
      BY <1>2, <2>2 DEF Boot, Share
    <3>2. \A m \in Msgs : m \notin shared' => ack'[m] = ack[m]
      BY <2>1, <3>1
    <3> QED BY <1>1, <3>1, <3>2, Straying DEF Claims
  <2>3. CASE r \notin detached
    <3>1. UNCHANGED shared
      BY <1>2, <2>3 DEF Boot, Share
    <3>2. \A m \in Msgs : m \in Claims \ shared => status'[m] \in {"pending", "failed"}
      BY <1>1 DEF Claims, SessionInv, RowsInv
    <3> QED BY <1>1, <2>1, <3>1, <3>2, Revocation
  <2> QED BY <2>2, <2>3
<1>3. CASE PollReads(r) \/ FollowReads(r)
  <2>1. UNCHANGED ack /\ \E S \in SUBSET Msgs : shared' = shared \cup S
    BY <1>0, <1>3, PendingForRows DEF PollReads, FollowReads, Share, ackVars
  <2> QED BY <1>1, <2>1, Straying
<1>4. CASE PollClaims(r) \/ FollowClaims(r)
  <2>1. UNCHANGED shared /\ SetAck(seen[r], "processing")
    BY <1>4 DEF PollClaims, FollowClaims, strayVars
  <2> QED BY <1>p, <1>t, <2>1
<1>5. CASE Commands(r)
  <2>1. UNCHANGED shared
        /\ ack' = [m \in Msgs |-> IF m \in batch[r] \cap ClearCmd THEN "completed" ELSE ack[m]]
    BY <1>5 DEF Commands, SetAck, strayVars
  <2> QED BY <1>c, <1>t, <2>1
<1>6. CASE Gate(r)
  <2>1. UNCHANGED shared
        /\ \E S \in SUBSET batch[r] :
             ack' = [m \in Msgs |-> IF m \in S THEN "completed" ELSE ack[m]]
    BY <1>6 DEF Gate, CompleteAndTouch, strayVars
  <2> QED BY <1>c, <1>t, <2>1
<1>7. CASE Event(r)
  <2>1. UNCHANGED <<ack, shared>>
    BY <1>0, <1>7 DEF Event, CompleteAndTouch, strayVars, TypeOK
  <2> QED BY <1>s, <2>1
<1>8. CASE Result(r) \/ QueryEnd(r)
  <2>1. UNCHANGED shared
        /\ ack' = [m \in Msgs |-> IF m \in batch[r] THEN "completed" ELSE ack[m]]
    BY <1>8 DEF Result, QueryEnd, CompleteAndTouch, SetAck, strayVars
  <2> QED BY <1>c, <1>t, <2>1
<1>9. CASE FollowPush(r)
  <2>1. UNCHANGED shared
        /\ ack' = [m \in Msgs |-> IF m \in follow[r] THEN "completed" ELSE ack[m]]
    BY <1>9 DEF FollowPush, CompleteAndTouch, strayVars
  <2> QED BY <1>c, <1>t, <2>1
<1>10. CASE FollowDrop(r)
  <2>1. UNCHANGED shared
        /\ \E S \in SUBSET stale[r] :
             ack' = [m \in Msgs |-> IF m \in S THEN "completed" ELSE ack[m]]
    BY <1>10 DEF FollowDrop, CompleteAndTouch, strayVars
  <2> QED BY <1>c, <1>t, <2>1
<1>11. ASSUME NEW m \in Msgs, TakeAnswer(r, m) PROVE G
  <2>1. /\ m \in SystemMsg /\ status[m] = "pending" /\ ack[m] = "none" /\ UNCHANGED shared
        /\ ack' = [n \in Msgs |-> IF n = m THEN "completed" ELSE ack[n]]
    BY <1>11 DEF TakeAnswer, SetAck, strayVars
  <2>2. CASE m \in shared
    <3>1. \A n \in Msgs : StateOf(n)' = StateOf(n)
      BY <1>1, <2>1, <2>2 DEF StateOf
    <3> QED BY <3>1 DEF MessageState
  <2>3. CASE m \notin shared
    <3>1. StateOf(m) = "pending"
      BY <2>1, <2>3 DEF StateOf
    <3>2. \A n \in Msgs : StateOf(n)' = IF n = m THEN "done" ELSE StateOf(n)
      BY <1>1, <2>1, <2>3 DEF StateOf
    <3>3. Promise!Consume(m)
      BY <2>1, <3>1, <3>2 DEF Promise!Consume, MessageState
    <3> QED BY <3>3 DEF Promise!Next
  <2> QED BY <2>2, <2>3
<1>12. CASE PollSleeps(r) \/ Hang(r) \/ Crash(r)
  BY <1>12, <1>s DEF PollSleeps, Hang, Crash, ackVars, strayVars
<1> QED
  BY <1>2, <1>3, <1>4, <1>5, <1>6, <1>7, <1>8, <1>9, <1>10, <1>11, <1>12 DEF RunnerStep

\* A step of the host or of time is a step of Inbox or none.
LEMMA HostImplements ==
  ASSUME SessionInv, [Next]_vars, HostStep \/ TimeStep \/ UNCHANGED vars
  PROVE  Promise!Next \/ UNCHANGED MessageState
<1> DEFINE G == Promise!Next \/ UNCHANGED MessageState
<1> SUFFICES G
  OBVIOUS
<1>0. TypeOK
  BY DEF SessionInv
<1>1. ASSUME NEW m \in Msgs, Arrive(m) \/ Schedule(m) \/ Restart(m) PROVE G
  BY <1>1, Arrival DEF Arrive, Schedule, Restart, ackVars, strayVars
<1>2. ASSUME NEW r, r \in Runners, Detach(r), UNCHANGED <<inboundVars, ackVars>> PROVE G
  BY <1>0, <1>2, HeldType, Straying DEF Detach, inboundVars, ackVars
<1>3. ASSUME NEW r \in Runners, Spawned(r) \/ Closed(r) \/ ClientDies(r) PROVE G
  BY <1>2, <1>3, Stutter DEF Spawned, Closed, ClientDies, inboundVars, ackVars, strayVars
<1>4. CASE Kill
  <2>1. UNCHANGED <<inboundVars, ackVars>> /\ active \in Runners
    BY <1>0, <1>4, KillFrame DEF Kill
  <2> QED BY <1>0, <1>2, <1>4, <2>1, KillFrame, Stutter DEF inboundVars, ackVars
<1>5. CASE HostStart
  <2>1. PICK left \in SUBSET Runners :
          shared' = shared \cup UNION {Unfinished(r) : r \in left}
    BY <1>5 DEF HostStart
  <2>2. UNION {Unfinished(r) : r \in left} \in SUBSET Msgs
    BY <1>0, HeldType
  <2>3. UNCHANGED <<status, ack>>
    BY <1>5 DEF HostStart, inboundVars, ackVars
  <2> QED BY <2>1, <2>2, <2>3, Straying
<1>6. CASE SweepBegin
  <2>1. /\ status' = [m \in Msgs |-> IF ack[m] = "completed" THEN "completed" ELSE status[m]]
        /\ UNCHANGED <<ack, shared>>
    BY <1>6 DEF SweepBegin, SyncProcessingAcks, ackVars, strayVars
  <2>2. \A m \in Msgs : StateOf(m)' = StateOf(m)
    BY <2>1 DEF StateOf
  <2> QED BY <2>2 DEF MessageState
<1>7. CASE SweepReset
  <2> DEFINE retried == {n \in Claims : status[n] = "pending" /\ n \notin notDue}
             exhausted == {n \in retried : tries[n] >= MaxTries}
  <2>1. /\ status' = [n \in Msgs |-> IF n \in exhausted THEN "failed" ELSE status[n]]
        /\ SetAck(Claims, "none") \/ UNCHANGED ackVars
        /\ UNCHANGED shared
    BY <1>7 DEF SweepReset, ResetStuckProcessingRows, strayVars
  <2>2. \A m \in Msgs : m \in Claims \ shared => status'[m] \in {"pending", "failed"}
    BY <2>1 DEF Claims, SessionInv, RowsInv
  <2>3. \A m \in Msgs : m \notin Claims => status'[m] = status[m]
    BY <2>1
  <2>4. CASE SetAck(Claims, "none")
    BY <2>1, <2>2, <2>3, <2>4, Revocation DEF SetAck
  <2>5. CASE UNCHANGED ackVars
    <3>1. \A m \in Msgs : StateOf(m)' = StateOf(m)
      BY <2>1, <2>3, <2>5 DEF StateOf, ackVars, Claims
    <3> QED BY <3>1 DEF MessageState
  <2> QED BY <2>1, <2>4, <2>5
<1>8. CASE SpawnFails \/ Stop \/ SweepCheck \/ HostCrash \/ TimeStep \/ UNCHANGED vars
  BY <1>8, Stutter
  DEF SpawnFails, Stop, SweepCheck, HostCrash, TimeStep, ClaimAges, BecomesDue, HeartbeatAges,
      vars, inboundVars, ackVars, strayVars
<1> QED
  BY <1>1, <1>3, <1>4, <1>5, <1>6, <1>7, <1>8 DEF HostStep

\* The session keeps Inbox's promise: claimed before anything becomes of it, then
\* finished, handed back or given up for good, until a container that outlived
\* its docker stop has had it.
THEOREM SessionImplementsInbox == Spec => ImplementsInbox
<1>1. Init => Promise!Init
  BY DEF Init, Promise!Init, MessageState, StateOf
<1>2. SessionInv /\ [Next]_vars => [Promise!Next]_MessageState
  BY RunnerImplements, HostImplements DEF Next
<1> QED BY <1>1, <1>2, SessionInvariant, PTL DEF Spec, ImplementsInbox, Promise!Spec
=============================================================================
