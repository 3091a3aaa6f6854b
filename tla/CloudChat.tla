----------------------------- MODULE CloudChat -----------------------------
(***************************************************************************)
(* Chat in the cloud: the host pushes a message on a Redis list (or stream),  *)
(* one of a pool of sub-agents takes it, tries to answer it, and pushes the   *)
(* response for the host to deliver.  BRPOP removes what it returns, so what  *)
(* a sub-agent or the host holds is nowhere else; a stream entry stays        *)
(* pending until it is acknowledged, but nobody claims what a dead consumer   *)
(* has left.                                                               *)
(*                                                                         *)
(* A message comes from a wired chat (router.ts) or from a direct message     *)
(* without an agent (the channel request gate of index.ts).                  *)
(***************************************************************************)
EXTENDS Naturals, Sequences, FiniteSets

CONSTANTS
  Wired, Direct,  \* the messages
  Workers,        \* sub-agents
  MaxRetries,     \* _MAX_RETRIES
  MaxFaults       \* bound: lost connections, crashes, failed deliveries

Messages == Wired \cup Direct

ConstantAssumption ==
  /\ Wired \cap Direct = {} /\ IsFiniteSet(Messages) /\ IsFiniteSet(Workers)
  /\ MaxRetries \in Nat /\ MaxFaults \in Nat

VARIABLES
  streams,   \* REDIS_STREAMS_ENABLED
  group,     \* the consumer group of the stream exists
  arrived,   \* messages the host has been given
  list,      \* queue:agent:dispatch
  stream,    \* stream:agent:dispatch, entries a consumer may still be given
  job,       \* per sub-agent: the entry it works on, none or one
  burying,   \* sub-agents between the dead letter and the apology
  left,      \* entries a consumer died with, pending in the stream, or gone
  dead,      \* queue:agent:{user}:dlq
  responses, \* queue:orchestrator:responses
  delivery,  \* the response the host delivers, none or one
  local,     \* messages handed to the session database (see Session)
  told,      \* history: replies the user was shown, per message
  twice,     \* history: messages whose push or delivery failed after taking effect
  gone,      \* history: messages whose entry or response was lost, or is in front of the group
  faults

vars == <<streams, group, arrived, list, stream, job, burying, left, dead, responses, delivery, local,
          told, twice, gone, faults>>
modeVars == <<streams, group>>
workerVars == <<job, burying, left, dead>>
hostVars == <<arrived, delivery, local>>

Entries == [msg : Messages, retry : 0..MaxRetries]

TypeOK ==
  /\ streams \in BOOLEAN /\ group \in BOOLEAN /\ arrived \in SUBSET Messages
  /\ list \in Seq(Entries) /\ stream \in Seq(Entries)
  /\ job \in [Workers -> SUBSET Entries] /\ \A w \in Workers : Cardinality(job[w]) <= 1
  /\ burying \in SUBSET Workers /\ left \in SUBSET Entries /\ dead \in SUBSET Entries
  /\ responses \in Seq(Messages) /\ delivery \in SUBSET Messages /\ Cardinality(delivery) <= 1
  /\ local \in SUBSET Messages /\ told \in [Messages -> Nat]
  /\ twice \in SUBSET Messages /\ gone \in SUBSET Messages /\ faults \in 0..MaxFaults

Init ==
  /\ streams \in BOOLEAN /\ group = FALSE
  /\ arrived = {} /\ list = <<>> /\ stream = <<>>
  /\ job = [w \in Workers |-> {}] /\ burying = {} /\ left = {} /\ dead = {}
  /\ responses = <<>> /\ delivery = {} /\ local = {}
  /\ told = [m \in Messages |-> 0] /\ twice = {} /\ gone = {} /\ faults = 0

Fault == faults < MaxFaults /\ faults' = faults + 1

(***************************************************************************)
(* The host takes a message in.                                            *)
(***************************************************************************)
\* enqueueForAgent, enqueueForAgentStream: the gate knows only the list.
Push(m) ==
  LET e == [msg |-> m, retry |-> 0]
  IN  IF streams /\ m \in Wired THEN stream' = Append(stream, e) /\ UNCHANGED list
                                ELSE list' = Append(list, e) /\ UNCHANGED stream

Enqueue(m) ==
  /\ m \notin arrived /\ arrived' = arrived \cup {m}
  /\ Push(m)
  /\ UNCHANGED <<modeVars, workerVars, responses, delivery, local, told, twice, gone, faults>>

\* The push throws, whether or not Redis has done it.
PushThrows(m) ==
  /\ m \notin arrived /\ arrived' = arrived \cup {m} /\ Fault
  /\ \/ Push(m) /\ twice' = twice \cup {m}
     \/ UNCHANGED <<list, stream, twice>>
  /\ UNCHANGED <<modeVars, workerVars, responses, delivery>>

\* router.ts: the message goes to the session database and its container.
FallsBackLocal(m) ==
  /\ m \in Wired /\ PushThrows(m)
  /\ local' = local \cup {m}
  /\ UNCHANGED <<told, gone>>

\* index.ts: the host answers itself (respondToDM), with an apology when the
\* model or the first delivery fails; if CLOUD_RESPONDER_ENABLED is false or
\* the apology fails too, nobody answers.
FallsBackDirect(m) ==
  /\ m \in Direct /\ PushThrows(m)
  /\ \/ told' = [told EXCEPT ![m] = @ + 1] /\ UNCHANGED gone
     \/ gone' = gone \cup {m} /\ UNCHANGED told
  /\ UNCHANGED local

(***************************************************************************)
(* A sub-agent (poll_queue).                                               *)
(***************************************************************************)
Idle(w) == job[w] = {}
Free(w) == job' = [job EXCEPT ![w] = {}] /\ burying' = burying \ {w}

\* _ensure_group: the group begins behind what is in the stream (id "$"), so that what
\* the host has pushed before is given to nobody.
EnsureGroup(w) ==
  /\ streams /\ ~group /\ Idle(w)
  /\ group' = TRUE
  /\ stream' = <<>>
  /\ gone' = gone \cup {stream[i].msg : i \in DOMAIN stream}
  /\ UNCHANGED <<streams, workerVars, list, responses, hostVars, told, twice, faults>>

\* _read_inbound: XREADGROUP in streams mode, BRPOP otherwise.
Read(w) ==
  /\ Idle(w)
  /\ IF streams
       THEN /\ group /\ stream # <<>> /\ job' = [job EXCEPT ![w] = {Head(stream)}]
            /\ stream' = Tail(stream) /\ UNCHANGED list
       ELSE /\ list # <<>> /\ job' = [job EXCEPT ![w] = {Head(list)}]
            /\ list' = Tail(list) /\ UNCHANGED stream
  /\ UNCHANGED <<modeVars, burying, left, dead, responses, hostVars, told, twice, gone, faults>>

\* process_message returns, be it with the apology it makes of its own errors.
Answer(w) ==
  /\ w \notin burying
  /\ \E e \in job[w] : responses' = Append(responses, e.msg)
  /\ Free(w)
  /\ UNCHANGED <<modeVars, list, stream, left, dead, hostVars, told, twice, gone, faults>>

\* Mutant: the entry goes back as it came.
RetryUncounted(w) ==
  /\ w \notin burying
  /\ \E e \in job[w] :
       /\ e.retry < MaxRetries
       /\ list' = Append(list, e)
  /\ Free(w)
  /\ UNCHANGED <<modeVars, stream, left, dead, responses, hostVars, told, twice, gone, faults>>

\* 45 s have passed, or process_message throws.  In either mode the entry is
\* pushed on the list, behind what waits there.
Retry(w) ==
  /\ w \notin burying
  /\ \E e \in job[w] :
       /\ e.retry < MaxRetries
       /\ list' = Append(list, [e EXCEPT !.retry = @ + 1])
  /\ Free(w)
  /\ UNCHANGED <<modeVars, stream, left, dead, responses, hostVars, told, twice, gone, faults>>

Bury(w) ==
  /\ w \notin burying
  /\ \E e \in job[w] : e.retry = MaxRetries /\ dead' = dead \cup {e}
  /\ burying' = burying \cup {w}
  /\ UNCHANGED <<modeVars, list, stream, job, left, responses, hostVars, told, twice, gone, faults>>

Attempt(w) == Answer(w) \/ Retry(w) \/ Bury(w)

\* Mutant: the apology is sent and the poll loop goes on with the same entry.
ApologizeAgain(w) ==
  /\ w \in burying
  /\ \E e \in job[w] : responses' = Append(responses, e.msg)
  /\ burying' = burying \ {w} /\ Len(responses) < 2
  /\ UNCHANGED <<modeVars, list, stream, job, left, dead, hostVars, told, twice, gone, faults>>

Apologize(w) ==
  /\ w \in burying
  /\ \E e \in job[w] : responses' = Append(responses, e.msg)
  /\ Free(w)
  /\ UNCHANGED <<modeVars, list, stream, left, dead, hostVars, told, twice, gone, faults>>

\* The sub-agent dies, is stopped for a deployment, or loses Redis when it
\* pushes -- before the push has taken effect or after.
Drops(w) ==
  /\ ~Idle(w) /\ Fault
  /\ \E e \in job[w] :
       /\ left' = left \cup {e}
       /\ \/ gone' = gone \cup {e.msg} /\ UNCHANGED <<list, responses>>
          \/ responses' = Append(responses, e.msg) /\ UNCHANGED <<list, gone>>
          \/ /\ w \notin burying /\ e.retry < MaxRetries
             /\ list' = Append(list, [e EXCEPT !.retry = @ + 1]) /\ UNCHANGED <<responses, gone>>
  /\ Free(w)
  /\ UNCHANGED <<modeVars, stream, dead, hostVars, told, twice>>

(***************************************************************************)
(* The host delivers (pollResponses, startResponsePoll).                   *)
(***************************************************************************)
Fetch ==
  /\ delivery = {} /\ responses # <<>>
  /\ delivery' = {Head(responses)} /\ responses' = Tail(responses)
  /\ UNCHANGED <<modeVars, arrived, list, stream, workerVars, local, told, twice, gone, faults>>

Deliver ==
  /\ \E m \in delivery : told' = [told EXCEPT ![m] = @ + 1]
  /\ delivery' = {}
  /\ UNCHANGED <<modeVars, arrived, list, stream, workerVars, responses, local, twice, gone, faults>>

\* The adapter throws or is missing, or the host dies: there is no other try.
DeliveryLost ==
  /\ delivery # {} /\ Fault
  /\ gone' = gone \cup delivery /\ delivery' = {}
  /\ UNCHANGED <<modeVars, arrived, list, stream, workerVars, responses, local, told, twice>>

Next ==
  \/ \E m \in Messages : Enqueue(m) \/ FallsBackLocal(m) \/ FallsBackDirect(m)
  \/ \E w \in Workers : EnsureGroup(w) \/ Read(w) \/ Attempt(w) \/ Apologize(w) \/ Drops(w)
  \/ Fetch \/ Deliver \/ DeliveryLost

\* Some sub-agent takes what waits; wait_for ends every attempt in 45 s, with
\* whatever outcome; the host polls.
Reading == \E w \in Workers : EnsureGroup(w) \/ Read(w)
Working(w) == Attempt(w) \/ Apologize(w)
Responding == Fetch \/ Deliver

Fairness == WF_vars(Reading) /\ (\A w \in Workers : WF_vars(Working(w))) /\ WF_vars(Responding)

Spec == Init /\ [][Next]_vars /\ Fairness

(***************************************************************************)
(* Properties.                                                             *)
(***************************************************************************)
\* How often a message is still to be answered.
Pending(m) ==
  Cardinality({i \in DOMAIN list : list[i].msg = m})
    + Cardinality({i \in DOMAIN stream : stream[i].msg = m})
    + Cardinality({w \in Workers : \E e \in job[w] : e.msg = m})
    + Cardinality({i \in DOMAIN responses : responses[i] = m})
    + Cardinality(delivery \cap {m})

\* However often it is tried again, buried and lost, a message is in one place,
\* or was told once: a second reply only follows a push Redis had done although
\* it threw, which the host answered itself (poll_queue, the gate's fallback).
\* And nothing vanishes but by a lost entry or response.
OneReply ==
  \A m \in Messages :
    LET all == Pending(m) + told[m] + Cardinality({m} \cap local)
    IN  /\ all <= 1 + Cardinality({m} \cap twice)
        /\ m \in arrived \ gone => all >= 1

\* Entries no sub-agent will read: in streams mode those of the list, where the
\* gate and every retry put them.
Stranded(m) == streams /\ \E i \in DOMAIN list : list[i].msg = m

\* Every message is answered, even if every attempt at it fails: after the
\* retries there is an apology.  (Unless it was lost, or is stranded.)
Answered ==
  arrived # {} ~>
    \A m \in arrived : told[m] > 0 \/ m \in local \/ m \in gone \/ Stranded(m)
=============================================================================
