--------------------------- MODULE ProfileProofs ---------------------------
(***************************************************************************)
(* The proofs about the user's profile (Profile): its types, and the         *)
(* inductive invariant behind EditsStand, HistoryFresh and OnboardedOnce.    *)
(***************************************************************************)
EXTENDS ProfileParts, FiniteSetTheorems, TLAPS

(***************************************************************************)
(* Profile: the inductive invariant. Its types first.                      *)
(***************************************************************************)
\* A value is 0, the one of before, or an edit of its field that was taken.
Edits == {"depth", "domain"}
ToldFields(s, n) == {x \in [depth : 0..Len(s.says) + 1, domain : 0..Len(s.says) + 1] :
                 \A f \in Edits : \/ x[f] = 0 \/ x[f] = Len(s.says) + 1
                                  \/ x[f] \in 1..n /\ s.says[x[f]] = f}
KnownFields == ToldFields(script, spoken)

SpokenTypes ==
  /\ script \in Sayings /\ spoken \in Nat /\ spoken <= Len(script.says)
  /\ at \in [Answerers -> Pr!Places] /\ msg \in [Answerers -> 0..spoken]

MemoryTypes ==
  /\ consent \in Pr!Statuses /\ wizard \in Pr!Phases /\ greeted \in BOOLEAN
  /\ profileFaults \in Nat /\ profileFaults <= script.faults

\* A sub-agent has a message of its own while it works.
EditPlaces == {"edit", "editProbe", "put", "cache"}
OwnMessage ==
  /\ \A w \in Answerers : at[w] = "idle" <=> msg[w] = 0
  /\ \A w, x \in Answerers : msg[w] = msg[x] /\ msg[w] # 0 => w = x
  /\ \A w \in Answerers :
       /\ at[w] \in EditPlaces => script.says[msg[w]] \in Edits
       /\ at[w] # "idle" /\ script.says[msg[w]] \in Edits =>
            at[w] \in EditPlaces \cup {"reply", "wizard", "limit"}

ReadTypes ==
  /\ got = [w \in Answerers |-> got[w]]
  /\ \A w \in Answerers :
       /\ at[w] \in {"reply", "wizard", "answer", "store"} => got[w].phase \in Pr!Phases
       /\ at[w] \in {"put", "cache"} =>
            got[w].fields \in KnownFields /\ got[w].fields[script.says[msg[w]]] = msg[w]
       /\ at[w] \in {"refill", "think"} => got[w].seen \subseteq 1..spoken

RequestType(s, n) == [kind : Pr!Requests, w : Answerers, m : 1..n, fields : ToldFields(s, n)]
RequestTypes ==
  /\ requests \in Seq(RequestType(script, spoken))
  /\ \A i \in 1..Len(requests) : requests[i].kind = "edit" =>
       /\ script.says[requests[i].m] \in Edits
       /\ requests[i].fields[script.says[requests[i].m]] = requests[i].m

TableTypes ==
  /\ table \in [done : BOOLEAN, fields : KnownFields]
  /\ profile.at = "cached" => profile.it \in KnownFields
  /\ recall.at = "cached" => recall.it \subseteq 1..spoken
  /\ chats \subseteq 1..spoken

StoryTypes ==
  /\ finished \subseteq 1..spoken /\ refetched \subseteq 1..spoken
  /\ storing \subseteq [w : Answerers, item : 1..spoken, pushed : BOOLEAN]
  /\ settled \in [Answerers -> SUBSET (1..spoken)]

MarkTypes ==
  /\ acked \subseteq 1..spoken /\ overlapped \subseteq 1..spoken
  /\ undone \subseteq (1..spoken) \cup {0, Len(script.says) + 1}

WalkTypes == SpokenTypes /\ OwnMessage /\ ReadTypes
ProfileTypes ==
  /\ WalkTypes /\ MemoryTypes /\ RequestTypes
  /\ TableTypes /\ StoryTypes /\ MarkTypes

(***************************************************************************)
(* Profile: what the gateway, the cache and the sub-agents hold of an edit.*)
(***************************************************************************)
Says(m) == script.says[m]
Editor(w) == at[w] \in EditPlaces
Apart == \A w, x \in Answerers : Editor(w) /\ Editor(x) /\ w # x => msg[w] \in overlapped

Edit(i) == requests[i].kind = "edit"
\* A field that is not set is refused, so it stands in nobody's way.
Kept(v, x) == x[Says(v)] \in {v, 0}
\* A request an edit waits for.
Reading(r) == r.kind = "preferences" /\ at[r.w] = "editProbe" /\ msg[r.w] = r.m
\* The request that sets v, or the table if it has it, and what comes after.
SetAt(v, k) ==
  /\ k \in 0..Len(requests)
  /\ k = 0 => table.fields[Says(v)] = v /\ table.done
  /\ k # 0 => Edit(k) /\ requests[k].m = v /\ table.fields[Says(v)] # v
  /\ \A i \in 1..Len(requests) :
       /\ i < k /\ Edit(i) => requests[i].fields[Says(v)] # v
       /\ i > k /\ Edit(i) => Kept(v, requests[i].fields)
       /\ Reading(requests[i]) => i > k
Acked(v) == v \in acked \ overlapped
Put(v) == v \notin overlapped /\ (v \in acked \/ \E w \in Answerers : at[w] = "cache" /\ msg[w] = v)
PutInv == \A v \in 1..spoken : Put(v) => Says(v) \in Edits /\ v \notin undone /\ \E k \in 0..Len(requests) : SetAt(v, k)
AckedInv ==
  \A v \in 1..spoken : Acked(v) =>
    /\ profile.at = "cached" => Kept(v, profile.it)
    /\ \A w \in Answerers :
         /\ at[w] \in {"put", "cache"} /\ Says(msg[w]) # Says(v) => Kept(v, got[w].fields)
         /\ at[w] = "cache" => Says(msg[w]) # Says(v)

\* A message in hand is nowhere yet.
Without(m, x) == \A f \in Edits : x[f] # m
NewInv ==
  \A w \in Answerers : at[w] \notin {"idle", "cache"} =>
    /\ profile.at = "cached" => Without(msg[w], profile.it)
    /\ \A x \in Answerers \ {w} : at[x] \in {"put", "cache"} => Without(msg[w], got[x].fields)
    /\ Without(msg[w], table.fields) /\ msg[w] \notin undone
    /\ \A i \in 1..Len(requests) : Edit(i) => Without(msg[w], requests[i].fields)
ProbeInv ==
  \A w \in Answerers : at[w] \in {"reply", "wizard", "limit", "edit"} =>
    \A i \in 1..Len(requests) :
      requests[i].kind = "preferences" => requests[i].w # w \/ requests[i].m # msg[w]
      \/ Says(msg[w]) \notin Edits

(***************************************************************************)
(* Profile: what the history held when it was read.                        *)
(***************************************************************************)
Stored(m, k) ==
  m \in chats \cup refetched \/ \E j \in 1..k : requests[j].kind = "chat" /\ requests[j].m = m
PushedStores == {t \in storing : t.pushed}
PushedInv ==
  /\ \A m \in finished : Stored(m, Len(requests))
  /\ \A t \in PushedStores : Stored(t.item, Len(requests))
FetchInv ==
  \A i \in 1..Len(requests) :
    requests[i].kind = "history" /\ Pr!Awaits(requests[i]) => \A m \in finished : Stored(m, i - 1)
\* Nobody asked for the history yet.
Before == {"reply", "wizard", "answer", "store", "clear", "greeting", "probe", "greet", "activate",
  "limit", "edit", "editProbe", "put", "cache", "chat"}
AskInv ==
  \A w \in Answerers : at[w] \in Before =>
    \A i \in 1..Len(requests) : requests[i].kind = "history" => requests[i].w # w \/ requests[i].m # msg[w]
SeenInv ==
  /\ recall.at = "cached" => finished \subseteq recall.it \cup refetched
  /\ \A w \in Answerers :
       /\ settled[w] \subseteq finished
       /\ at[w] = "refill" => finished \subseteq got[w].seen \cup refetched
       /\ at[w] = "think" => settled[w] \subseteq got[w].seen \cup refetched

(***************************************************************************)
(* Profile: how many wizards were begun.                                   *)
(***************************************************************************)
Meeting == {w \in Answerers : at[w] \in {"probe", "greet"}}
Starting == {w \in Answerers : at[w] = "activate"}
WizardInv ==
  /\ wizards \in Nat /\ excused \in Nat
  /\ IsFiniteSet(Meeting) /\ IsFiniteSet(Starting)
  /\ wizards + Cardinality(Meeting) + Cardinality(Starting)
       <= excused + (IF greeted \/ Meeting # {} THEN 1 ELSE 0)

EditsInv == Apart /\ PutInv /\ AckedInv /\ NewInv /\ ProbeInv
HistoryInv == PushedInv /\ FetchInv /\ AskInv /\ SeenInv
ProfileInv == ProfileTypes /\ EditsInv /\ HistoryInv /\ WizardInv

LEMMA ProfileConstants ==
  ASSUME ProfileFit, SpokenTypes
  PROVE  /\ script.says \in Seq(Pr!Kinds) /\ script.faults \in Nat /\ Len(script.says) \in Nat
         /\ \A m \in 1..spoken : m \in 1..Len(script.says) /\ script.says[m] \in Pr!Kinds
BY DEF ProfileFit, Pr!ConstantAssumption, SpokenTypes

\* What is known grows with what was spoken.
LEMMA KnownGrow ==
  ASSUME NEW s, NEW n \in Nat
  PROVE  ToldFields(s, n) \subseteq ToldFields(s, n + 1)
BY DEF ToldFields

LEMMA UnsetKnown ==
  ASSUME ProfileFit, SpokenTypes
  PROVE  Pr!Unset \in KnownFields /\ \A f \in Edits : Pr!Unset[f] = 0
<1>1. Len(script.says) \in Nat
  BY ProfileConstants
<1> QED BY <1>1 DEF Pr!Unset, KnownFields, ToldFields, Edits

\* An edit is merged into what is known.
LEMMA MergedKnown ==
  ASSUME ProfileFit, SpokenTypes, NEW b \in KnownFields, NEW w \in Answerers, msg[w] # 0,
         script.says[msg[w]] \in Edits
  PROVE  /\ Pr!Merged(w, b) \in KnownFields
         /\ Pr!Merged(w, b)[script.says[msg[w]]] = msg[w]
         /\ \A g \in Edits : g # script.says[msg[w]] => Pr!Merged(w, b)[g] = b[g]
<1> DEFINE f == script.says[msg[w]]  c == [b EXCEPT ![f] = msg[w]]  n == Len(script.says)
<1>0. c = Pr!Merged(w, b) /\ n \in Nat /\ msg[w] \in 1..spoken /\ spoken <= n /\ spoken \in Nat
  BY ProfileConstants DEF Pr!Merged, Pr!Said, Pr!Says, SpokenTypes
<1>1. b \in [depth : 0..n + 1, domain : 0..n + 1] /\ f \in Edits
  BY DEF ToldFields, KnownFields
<1>2. /\ c \in [depth : 0..n + 1, domain : 0..n + 1]
      /\ c[f] = msg[w] /\ \A g \in Edits : g # f => c[g] = b[g]
  <2> HIDE DEF f, n
  <2> QED BY <1>0, <1>1 DEF Edits
<1>3. ASSUME NEW g \in Edits PROVE c[g] = 0 \/ c[g] = n + 1 \/ (c[g] \in 1..spoken /\ script.says[c[g]] = g)
  <2>1. CASE g = f
    <3>1. c[g] = msg[w]
      BY <2>1, <1>2
    <3> HIDE DEF c
    <3> QED BY <2>1, <3>1, <1>0
  <2>2. CASE g # f
    <3>1. c[g] = b[g]
      BY <2>2, <1>2
    <3> HIDE DEF c
    <3> QED BY <3>1 DEF KnownFields, ToldFields
  <2> QED BY <2>1, <2>2
<1>4. c \in KnownFields
  <2> HIDE DEF c
  <2> QED BY <1>2, <1>3 DEF KnownFields, ToldFields
<1> QED BY <1>0, <1>2, <1>4

LEMMA EndsOwn ==
  ASSUME SpokenTypes, OwnMessage, NEW w \in Answerers, UNCHANGED <<script, spoken>>,
         at' = [at EXCEPT ![w] = "idle"], msg' = [msg EXCEPT ![w] = 0]
  PROVE  SpokenTypes' /\ OwnMessage'
<1>1. SpokenTypes'
  BY DEF SpokenTypes, Pr!Places
<1>2. \A x \in Answerers : IF x = w THEN at'[x] = "idle" /\ msg'[x] = 0 ELSE at'[x] = at[x] /\ msg'[x] = msg[x]
  BY DEF SpokenTypes
<1> QED BY <1>1, <1>2 DEF OwnMessage, EditPlaces

LEMMA MovesOwn ==
  ASSUME SpokenTypes, OwnMessage, NEW w \in Answerers, UNCHANGED <<script, spoken, msg>>,
         NEW p \in Pr!Places \ {"idle"}, at' = [at EXCEPT ![w] = p], at[w] # "idle",
         p \in EditPlaces => script.says[msg[w]] \in Edits,
         script.says[msg[w]] \in Edits => p \in EditPlaces \cup {"reply", "wizard", "limit"}
  PROVE  SpokenTypes' /\ OwnMessage'
<1>1. SpokenTypes'
  BY DEF SpokenTypes
<1>2. \A x \in Answerers : IF x = w THEN at'[x] = p ELSE at'[x] = at[x]
  BY DEF SpokenTypes
<1> QED BY <1>1, <1>2 DEF OwnMessage, EditPlaces

LEMMA StayOwn ==
  ASSUME SpokenTypes, OwnMessage, UNCHANGED <<script, spoken, msg, at>>
  PROVE  SpokenTypes' /\ OwnMessage'
BY DEF SpokenTypes, OwnMessage

LEMMA TakesOwn ==
  ASSUME ProfileFit, SpokenTypes, OwnMessage, NEW w \in Answerers, Pr!Take(w)
  PROVE  SpokenTypes' /\ OwnMessage'
<1>1. PICK p \in {"wizard", "reply"} : at' = [at EXCEPT ![w] = p]
  BY DEF Pr!Take, Pr!NeedsConsent, Pr!Goes
<1>2. /\ script' = script /\ spoken' = spoken + 1 /\ spoken' <= Len(script.says) /\ at[w] = "idle"
      /\ msg' = [msg EXCEPT ![w] = spoken']
  BY ProfileConstants DEF Pr!Take, Pr!Says, SpokenTypes
<1>3. SpokenTypes'
  BY <1>1, <1>2 DEF SpokenTypes, Pr!Places
<1>4. \A x \in Answerers : IF x = w THEN at'[x] = p /\ msg'[x] = spoken + 1
                         ELSE at'[x] = at[x] /\ msg'[x] = msg[x] /\ msg[x] <= spoken
  BY <1>1, <1>2 DEF SpokenTypes
<1> QED BY <1>1, <1>2, <1>3, <1>4 DEF OwnMessage, EditPlaces, SpokenTypes

LEMMA MovesRead ==
  ASSUME ReadTypes, NEW w \in Answerers, UNCHANGED <<script, spoken>>,
         \A x \in Answerers \ {w} : at'[x] = at[x] /\ msg'[x] = msg[x] /\ got'[x] = got[x],
         got' = [x \in Answerers |-> got'[x]],
         at'[w] \in {"reply", "wizard", "answer", "store"} => got'[w].phase \in Pr!Phases,
         at'[w] \in {"put", "cache"} =>
           got'[w].fields \in KnownFields /\ got'[w].fields[script.says[msg'[w]]] = msg'[w],
         at'[w] \in {"refill", "think"} => got'[w].seen \subseteq 1..spoken
  PROVE  ReadTypes'
<1>1. KnownFields' = KnownFields
  BY DEF KnownFields
<1> QED BY <1>1 DEF ReadTypes

LEMMA StayRead == ASSUME ReadTypes, UNCHANGED <<script, spoken, at, msg, got>> PROVE ReadTypes'
BY DEF ReadTypes, KnownFields

LEMMA StayRequests == ASSUME RequestTypes, UNCHANGED <<script, spoken, requests>> PROVE RequestTypes'
BY DEF RequestTypes

LEMMA AddsRequest ==
  ASSUME RequestTypes, SpokenTypes, UNCHANGED <<script, spoken>>, NEW r \in RequestType(script, spoken),
         r.kind = "edit" => script.says[r.m] \in Edits /\ r.fields[script.says[r.m]] = r.m,
         requests' = Append(requests, r)
  PROVE  RequestTypes' /\ Len(requests') = Len(requests) + 1 /\ Len(requests) \in Nat
         /\ requests'[Len(requests')] = r /\ \A i \in 1..Len(requests) : requests'[i] = requests[i]
<1>1. /\ requests' \in Seq(RequestType(script, spoken)) /\ Len(requests') = Len(requests) + 1 /\ Len(requests) \in Nat
      /\ requests'[Len(requests')] = r /\ \A i \in 1..Len(requests) : requests'[i] = requests[i]
  <2> DEFINE T == RequestType(script, spoken)
  <2>1. requests \in Seq(T) /\ r \in T
    BY DEF RequestTypes
  <2> HIDE DEF T
  <2> SUFFICES requests' \in Seq(T) /\ Len(requests') = Len(requests) + 1 /\ Len(requests) \in Nat
      /\ requests'[Len(requests')] = r /\ \A i \in 1..Len(requests) : requests'[i] = requests[i]
    BY DEF T
  <2> QED BY <2>1
<1>2. ASSUME NEW i \in 1..Len(requests'), requests'[i].kind = "edit"
      PROVE  script.says[requests'[i].m] \in Edits /\ requests'[i].fields[script.says[requests'[i].m]] = requests'[i].m
  <2>1. CASE i = Len(requests')
    BY <2>1, <1>1, <1>2
  <2>2. CASE i \in 1..Len(requests)
    BY <2>2, <1>1, <1>2 DEF RequestTypes
  <2> QED BY <2>1, <2>2, <1>1
<1> QED BY <1>1, <1>2 DEF RequestTypes

LEMMA DropsRequest ==
  ASSUME RequestTypes, SpokenTypes, UNCHANGED <<script, spoken>>, requests # <<>>,
         requests' = Tail(requests)
  PROVE  RequestTypes' /\ Len(requests) = Len(requests') + 1 /\ Len(requests') \in Nat
         /\ Head(requests) = requests[1] /\ requests[1] \in RequestType(script, spoken) /\ 1 \in 1..Len(requests)
         /\ \A i \in 1..Len(requests') : requests'[i] = requests[i + 1] /\ i + 1 \in 1..Len(requests)
<1>1. requests' \in Seq(RequestType(script, spoken)) /\ Len(requests) = Len(requests') + 1 /\ Len(requests') \in Nat
         /\ Head(requests) = requests[1] /\ requests[1] \in RequestType(script, spoken) /\ 1 \in 1..Len(requests)
         /\ \A i \in 1..Len(requests') : requests'[i] = requests[i + 1] /\ i + 1 \in 1..Len(requests)
  <2> DEFINE T == RequestType(script, spoken)
  <2>1. requests \in Seq(T)
    BY DEF RequestTypes
  <2> HIDE DEF T
  <2> SUFFICES requests' \in Seq(T) /\ Len(requests) = Len(requests') + 1 /\ Len(requests') \in Nat
         /\ Head(requests) = requests[1] /\ requests[1] \in T /\ 1 \in 1..Len(requests)
         /\ \A i \in 1..Len(requests') : requests'[i] = requests[i + 1] /\ i + 1 \in 1..Len(requests)
    BY DEF T
  <2> QED BY <2>1
<1> QED BY <1>1 DEF RequestTypes

LEMMA DoneTypes ==
  ASSUME WalkTypes, NEW w \in Answerers, Pr!Done(w), UNCHANGED <<script, spoken>>
  PROVE  /\ WalkTypes'
         /\ settled \in [Answerers -> SUBSET (1..spoken)] => settled' \in [Answerers -> SUBSET (1..spoken)]
<1>1. /\ at' = [at EXCEPT ![w] = "idle"] /\ msg' = [msg EXCEPT ![w] = 0]
      /\ got' = [got EXCEPT ![w] = Pr!Nothing] /\ settled' = [settled EXCEPT ![w] = {}]
  BY DEF Pr!Done, Pr!Goes, Pr!Keeps
<1>2. SpokenTypes' /\ OwnMessage'
  BY <1>1, EndsOwn DEF WalkTypes
<1>3. /\ \A x \in Answerers \ {w} : at'[x] = at[x] /\ msg'[x] = msg[x] /\ got'[x] = got[x]
      /\ at'[w] = "idle"
  BY <1>1 DEF WalkTypes, SpokenTypes, ReadTypes
<1>4. got' = [x \in Answerers |-> got'[x]]
  BY <1>1 DEF WalkTypes, ReadTypes
<1>5. ReadTypes'
  BY <1>3, <1>4, MovesRead DEF WalkTypes
<1> QED BY <1>1, <1>2, <1>5 DEF WalkTypes

LEMMA GoesTypes ==
  ASSUME WalkTypes, NEW w \in Answerers, UNCHANGED <<script, spoken, msg>>, at[w] # "idle",
         NEW p \in Pr!Places \ {"idle"}, Pr!Goes(w, p),
         p \in EditPlaces => script.says[msg[w]] \in Edits,
         script.says[msg[w]] \in Edits => p \in EditPlaces \cup {"reply", "wizard", "limit"},
         got' = got \/ \E x : Pr!Keeps(w, x),
         p \in {"reply", "wizard", "answer", "store"} => got'[w].phase \in Pr!Phases,
         p \in {"put", "cache"} =>
           got'[w].fields \in KnownFields /\ got'[w].fields[script.says[msg[w]]] = msg[w],
         p \in {"refill", "think"} => got'[w].seen \subseteq 1..spoken
  PROVE  WalkTypes'
<1>1. at' = [at EXCEPT ![w] = p]
  BY DEF Pr!Goes
<1>2. SpokenTypes' /\ OwnMessage'
  BY <1>1, MovesOwn DEF WalkTypes
<1>3. \A x \in Answerers \ {w} : at'[x] = at[x] /\ msg'[x] = msg[x] /\ got'[x] = got[x]
  BY <1>1 DEF WalkTypes, SpokenTypes, ReadTypes, Pr!Keeps
<1>4. got' = [x \in Answerers |-> got'[x]]
  BY <1>1 DEF WalkTypes, ReadTypes, Pr!Keeps
<1>5. at'[w] = p
  BY <1>1 DEF WalkTypes, SpokenTypes
<1>6. ReadTypes'
  BY <1>3, <1>4, <1>5, MovesRead DEF WalkTypes
<1> QED BY <1>2, <1>6 DEF WalkTypes

LEMMA StayWalk == ASSUME WalkTypes, UNCHANGED <<script, spoken, at, msg, got>> PROVE WalkTypes'
BY StayOwn, StayRead DEF WalkTypes

LEMMA StayMemory ==
  ASSUME MemoryTypes, UNCHANGED <<script, consent, wizard, greeted, profileFaults>> PROVE MemoryTypes'
BY DEF MemoryTypes

LEMMA FaultMemory ==
  ASSUME ProfileFit, SpokenTypes, MemoryTypes, UNCHANGED <<script, consent, wizard, greeted>>,
         Pr!Fault \/ UNCHANGED profileFaults
  PROVE  MemoryTypes'
BY ProfileConstants DEF MemoryTypes, Pr!Fault

LEMMA StayTable ==
  ASSUME TableTypes, UNCHANGED <<script, spoken, table, chats>>, profile' \in {profile, Pr!Nothing},
         recall' \in {recall, Pr!Nothing}
  PROVE  TableTypes'
BY DEF TableTypes, KnownFields, Pr!Nothing

LEMMA StayStory ==
  ASSUME StoryTypes, UNCHANGED <<script, spoken, finished, refetched>>, storing' \subseteq storing,
         settled' \in [Answerers -> SUBSET (1..spoken)]
  PROVE  StoryTypes'
BY DEF StoryTypes

LEMMA StayMarks ==
  ASSUME MarkTypes, UNCHANGED <<script, spoken, undone>>, acked' \subseteq 1..spoken,
         overlapped' \subseteq 1..spoken
  PROVE  MarkTypes'
BY DEF MarkTypes

LEMMA AcksAndOverlaps ==
  ASSUME MarkTypes, SpokenTypes, NEW w \in Answerers, at[w] # "idle", OwnMessage
  PROVE  acked \subseteq 1..spoken /\ overlapped \subseteq 1..spoken /\ msg[w] \in 1..spoken
BY DEF MarkTypes, SpokenTypes, OwnMessage

LEMMA SettledTypes == ASSUME StoryTypes PROVE settled \in [Answerers -> SUBSET (1..spoken)]
BY DEF StoryTypes

LEMMA AsksTypes ==
  ASSUME ProfileFit, ProfileTypes, NEW w \in Answerers, Pr!Asks(w)
  PROVE  ProfileTypes'
<1>0. WalkTypes /\ MemoryTypes /\ RequestTypes /\ TableTypes /\ StoryTypes /\ MarkTypes /\ SpokenTypes /\ OwnMessage
  BY DEF ProfileTypes, WalkTypes
<1>1. Pr!Done(w) /\ UNCHANGED <<script, spoken>> /\ at[w] # "idle"
  BY DEF Pr!Asks, Pr!talk, Pr!memory, Pr!caches, Pr!stores, Pr!story, Pr!ghosts
<1>2. WalkTypes' /\ settled' \in [Answerers -> SUBSET (1..spoken)]
  BY <1>0, <1>1, DoneTypes, SettledTypes
<1>3. MemoryTypes'
  BY <1>0, ProfileConstants DEF Pr!Asks, Pr!talk, Pr!memory, Pr!caches, Pr!stores, Pr!story, Pr!ghosts,
     MemoryTypes, Pr!Fault, Pr!Phases, Pr!Statuses
<1>4. RequestTypes'
  BY <1>0, <1>1, StayRequests DEF Pr!Asks, Pr!talk, Pr!memory, Pr!caches, Pr!stores, Pr!story, Pr!ghosts
<1>5. TableTypes'
  BY <1>0, <1>1, StayTable DEF Pr!Asks, Pr!talk, Pr!memory, Pr!caches, Pr!stores, Pr!story, Pr!ghosts
<1>6. StoryTypes'
  BY <1>0, <1>1, <1>2, StayStory DEF Pr!Asks, Pr!talk, Pr!memory, Pr!caches, Pr!stores, Pr!story, Pr!ghosts
<1>7. MarkTypes'
  <2>1. UNCHANGED undone /\ acked' \subseteq acked \cup {msg[w]} /\ overlapped' \subseteq overlapped \cup {msg[w]}
    BY DEF Pr!Asks, Pr!talk, Pr!memory, Pr!caches, Pr!stores, Pr!story, Pr!ghosts
  <2> QED BY <1>0, <1>1, <2>1, AcksAndOverlaps, StayMarks
<1> QED BY <1>2, <1>3, <1>4, <1>5, <1>6, <1>7 DEF ProfileTypes

LEMMA ClearStateTypes ==
  ASSUME ProfileFit, ProfileTypes, NEW w \in Answerers, Pr!ClearState(w)
  PROVE  ProfileTypes'
<1>0. WalkTypes /\ MemoryTypes /\ RequestTypes /\ TableTypes /\ StoryTypes /\ MarkTypes /\ SpokenTypes /\ OwnMessage
  BY DEF ProfileTypes, WalkTypes
<1>1. Pr!Done(w) /\ UNCHANGED <<script, spoken>> /\ at[w] # "idle"
  BY DEF Pr!ClearState, Pr!talk, Pr!memory, Pr!caches, Pr!stores, Pr!story, Pr!ghosts
<1>2. WalkTypes' /\ settled' \in [Answerers -> SUBSET (1..spoken)]
  BY <1>0, <1>1, DoneTypes, SettledTypes
<1>3. MemoryTypes'
  BY <1>0, ProfileConstants DEF Pr!ClearState, Pr!talk, Pr!memory, Pr!caches, Pr!stores, Pr!story,
     Pr!ghosts, MemoryTypes, Pr!Fault, Pr!Phases, Pr!Statuses
<1>4. RequestTypes'
  BY <1>0, <1>1, StayRequests DEF Pr!ClearState, Pr!talk, Pr!memory, Pr!caches, Pr!stores, Pr!story,
     Pr!ghosts
<1>5. TableTypes'
  BY <1>0, <1>1, StayTable DEF Pr!ClearState, Pr!talk, Pr!memory, Pr!caches, Pr!stores, Pr!story, Pr!ghosts
<1>6. StoryTypes'
  BY <1>0, <1>1, <1>2, StayStory DEF Pr!ClearState, Pr!talk, Pr!memory, Pr!caches, Pr!stores, Pr!story,
     Pr!ghosts
<1>7. MarkTypes'
  <2>1. UNCHANGED undone /\ acked' \subseteq acked \cup {msg[w]} /\ overlapped' \subseteq overlapped \cup {msg[w]}
    BY DEF Pr!ClearState, Pr!talk, Pr!memory, Pr!caches, Pr!stores, Pr!story, Pr!ghosts
  <2> QED BY <1>0, <1>1, <2>1, AcksAndOverlaps, StayMarks
<1> QED BY <1>2, <1>3, <1>4, <1>5, <1>6, <1>7 DEF ProfileTypes

LEMMA ActivatesTypes ==
  ASSUME ProfileFit, ProfileTypes, NEW w \in Answerers, Pr!Activates(w)
  PROVE  ProfileTypes'
<1>0. WalkTypes /\ MemoryTypes /\ RequestTypes /\ TableTypes /\ StoryTypes /\ MarkTypes /\ SpokenTypes /\ OwnMessage
  BY DEF ProfileTypes, WalkTypes
<1>1. Pr!Done(w) /\ UNCHANGED <<script, spoken>> /\ at[w] # "idle"
  BY DEF Pr!Activates, Pr!talk, Pr!memory, Pr!caches, Pr!stores, Pr!story, Pr!ghosts
<1>2. WalkTypes' /\ settled' \in [Answerers -> SUBSET (1..spoken)]
  BY <1>0, <1>1, DoneTypes, SettledTypes
<1>3. MemoryTypes'
  BY <1>0, ProfileConstants DEF Pr!Activates, Pr!talk, Pr!memory, Pr!caches, Pr!stores, Pr!story, Pr!ghosts,
     MemoryTypes, Pr!Fault, Pr!Phases, Pr!Statuses
<1>4. RequestTypes'
  BY <1>0, <1>1, StayRequests DEF Pr!Activates, Pr!talk, Pr!memory, Pr!caches, Pr!stores, Pr!story,
     Pr!ghosts
<1>5. TableTypes'
  BY <1>0, <1>1, StayTable DEF Pr!Activates, Pr!talk, Pr!memory, Pr!caches, Pr!stores, Pr!story, Pr!ghosts
<1>6. StoryTypes'
  BY <1>0, <1>1, <1>2, StayStory DEF Pr!Activates, Pr!talk, Pr!memory, Pr!caches, Pr!stores, Pr!story,
     Pr!ghosts
<1>7. MarkTypes'
  <2>1. UNCHANGED undone /\ acked' \subseteq acked \cup {msg[w]} /\ overlapped' \subseteq overlapped \cup {msg[w]}
    BY DEF Pr!Activates, Pr!talk, Pr!memory, Pr!caches, Pr!stores, Pr!story, Pr!ghosts
  <2> QED BY <1>0, <1>1, <2>1, AcksAndOverlaps, StayMarks
<1> QED BY <1>2, <1>3, <1>4, <1>5, <1>6, <1>7 DEF ProfileTypes

LEMMA RefusedTypes ==
  ASSUME ProfileFit, ProfileTypes, NEW w \in Answerers, Pr!Refused(w)
  PROVE  ProfileTypes'
<1>0. WalkTypes /\ MemoryTypes /\ RequestTypes /\ TableTypes /\ StoryTypes /\ MarkTypes /\ SpokenTypes /\ OwnMessage
  BY DEF ProfileTypes, WalkTypes
<1>1. Pr!Done(w) /\ UNCHANGED <<script, spoken>> /\ at[w] # "idle"
  BY DEF Pr!Refused, Pr!talk, Pr!memory, Pr!caches, Pr!stores, Pr!story, Pr!ghosts
<1>2. WalkTypes' /\ settled' \in [Answerers -> SUBSET (1..spoken)]
  BY <1>0, <1>1, DoneTypes, SettledTypes
<1>3. MemoryTypes'
  BY <1>0, ProfileConstants DEF Pr!Refused, Pr!talk, Pr!memory, Pr!caches, Pr!stores, Pr!story, Pr!ghosts,
     MemoryTypes, Pr!Fault, Pr!Phases, Pr!Statuses
<1>4. RequestTypes'
  BY <1>0, <1>1, StayRequests DEF Pr!Refused, Pr!talk, Pr!memory, Pr!caches, Pr!stores, Pr!story, Pr!ghosts
<1>5. TableTypes'
  BY <1>0, <1>1, StayTable DEF Pr!Refused, Pr!talk, Pr!memory, Pr!caches, Pr!stores, Pr!story, Pr!ghosts
<1>6. StoryTypes'
  BY <1>0, <1>1, <1>2, StayStory DEF Pr!Refused, Pr!talk, Pr!memory, Pr!caches, Pr!stores, Pr!story,
     Pr!ghosts
<1>7. MarkTypes'
  <2>1. UNCHANGED undone /\ acked' \subseteq acked \cup {msg[w]} /\ overlapped' \subseteq overlapped \cup {msg[w]}
    BY DEF Pr!Refused, Pr!talk, Pr!memory, Pr!caches, Pr!stores, Pr!story, Pr!ghosts
  <2> QED BY <1>0, <1>1, <2>1, AcksAndOverlaps, StayMarks
<1> QED BY <1>2, <1>3, <1>4, <1>5, <1>6, <1>7 DEF ProfileTypes

LEMMA PutFailsTypes ==
  ASSUME ProfileFit, ProfileTypes, NEW w \in Answerers, Pr!PutFails(w)
  PROVE  ProfileTypes'
<1>0. WalkTypes /\ MemoryTypes /\ RequestTypes /\ TableTypes /\ StoryTypes /\ MarkTypes /\ SpokenTypes /\ OwnMessage
  BY DEF ProfileTypes, WalkTypes
<1>1. Pr!Done(w) /\ UNCHANGED <<script, spoken>> /\ at[w] # "idle"
  BY DEF Pr!PutFails, Pr!talk, Pr!memory, Pr!caches, Pr!stores, Pr!story, Pr!ghosts
<1>2. WalkTypes' /\ settled' \in [Answerers -> SUBSET (1..spoken)]
  BY <1>0, <1>1, DoneTypes, SettledTypes
<1>3. MemoryTypes'
  BY <1>0, ProfileConstants DEF Pr!PutFails, Pr!talk, Pr!memory, Pr!caches, Pr!stores, Pr!story, Pr!ghosts,
     MemoryTypes, Pr!Fault, Pr!Phases, Pr!Statuses
<1>4. RequestTypes'
  BY <1>0, <1>1, StayRequests DEF Pr!PutFails, Pr!talk, Pr!memory, Pr!caches, Pr!stores, Pr!story, Pr!ghosts
<1>5. TableTypes'
  BY <1>0, <1>1, StayTable DEF Pr!PutFails, Pr!talk, Pr!memory, Pr!caches, Pr!stores, Pr!story, Pr!ghosts
<1>6. StoryTypes'
  BY <1>0, <1>1, <1>2, StayStory DEF Pr!PutFails, Pr!talk, Pr!memory, Pr!caches, Pr!stores, Pr!story,
     Pr!ghosts
<1>7. MarkTypes'
  <2>1. UNCHANGED undone /\ acked' \subseteq acked \cup {msg[w]} /\ overlapped' \subseteq overlapped \cup {msg[w]}
    BY DEF Pr!PutFails, Pr!talk, Pr!memory, Pr!caches, Pr!stores, Pr!story, Pr!ghosts
  <2> QED BY <1>0, <1>1, <2>1, AcksAndOverlaps, StayMarks
<1> QED BY <1>2, <1>3, <1>4, <1>5, <1>6, <1>7 DEF ProfileTypes

LEMMA BustTypes ==
  ASSUME ProfileFit, ProfileTypes, NEW w \in Answerers, Pr!Bust(w)
  PROVE  ProfileTypes'
<1>0. WalkTypes /\ MemoryTypes /\ RequestTypes /\ TableTypes /\ StoryTypes /\ MarkTypes /\ SpokenTypes /\ OwnMessage
  BY DEF ProfileTypes, WalkTypes
<1>1. Pr!Done(w) /\ UNCHANGED <<script, spoken>> /\ at[w] # "idle"
  BY DEF Pr!Bust, Pr!talk, Pr!memory, Pr!caches, Pr!stores, Pr!story, Pr!ghosts
<1>2. WalkTypes' /\ settled' \in [Answerers -> SUBSET (1..spoken)]
  BY <1>0, <1>1, DoneTypes, SettledTypes
<1>3. MemoryTypes'
  BY <1>0, ProfileConstants DEF Pr!Bust, Pr!talk, Pr!memory, Pr!caches, Pr!stores, Pr!story, Pr!ghosts,
     MemoryTypes, Pr!Fault, Pr!Phases, Pr!Statuses
<1>4. RequestTypes'
  BY <1>0, <1>1, StayRequests DEF Pr!Bust, Pr!talk, Pr!memory, Pr!caches, Pr!stores, Pr!story, Pr!ghosts
<1>5. TableTypes'
  BY <1>0, <1>1, StayTable DEF Pr!Bust, Pr!talk, Pr!memory, Pr!caches, Pr!stores, Pr!story, Pr!ghosts
<1>6. StoryTypes'
  BY <1>0, <1>1, <1>2, StayStory DEF Pr!Bust, Pr!talk, Pr!memory, Pr!caches, Pr!stores, Pr!story, Pr!ghosts
<1>7. MarkTypes'
  <2>1. UNCHANGED undone /\ acked' \subseteq acked \cup {msg[w]} /\ overlapped' \subseteq overlapped \cup {msg[w]}
    BY DEF Pr!Bust, Pr!talk, Pr!memory, Pr!caches, Pr!stores, Pr!story, Pr!ghosts
  <2> QED BY <1>0, <1>1, <2>1, AcksAndOverlaps, StayMarks
<1> QED BY <1>2, <1>3, <1>4, <1>5, <1>6, <1>7 DEF ProfileTypes

LEMMA DiesTypes ==
  ASSUME ProfileFit, ProfileTypes, NEW w \in Answerers, Pr!Dies(w)
  PROVE  ProfileTypes'
<1>0. WalkTypes /\ MemoryTypes /\ RequestTypes /\ TableTypes /\ StoryTypes /\ MarkTypes /\ SpokenTypes /\ OwnMessage
  BY DEF ProfileTypes, WalkTypes
<1>1. Pr!Done(w) /\ UNCHANGED <<script, spoken>> /\ at[w] # "idle"
  BY DEF Pr!Dies, Pr!talk, Pr!memory, Pr!caches, Pr!stores, Pr!story, Pr!ghosts
<1>2. WalkTypes' /\ settled' \in [Answerers -> SUBSET (1..spoken)]
  BY <1>0, <1>1, DoneTypes, SettledTypes
<1>3. MemoryTypes'
  BY <1>0, ProfileConstants DEF Pr!Dies, Pr!talk, Pr!memory, Pr!caches, Pr!stores, Pr!story, Pr!ghosts,
     MemoryTypes, Pr!Fault, Pr!Phases, Pr!Statuses
<1>4. RequestTypes'
  BY <1>0, <1>1, StayRequests DEF Pr!Dies, Pr!talk, Pr!memory, Pr!caches, Pr!stores, Pr!story, Pr!ghosts
<1>5. TableTypes'
  BY <1>0, <1>1, StayTable DEF Pr!Dies, Pr!talk, Pr!memory, Pr!caches, Pr!stores, Pr!story, Pr!ghosts
<1>6. StoryTypes'
  BY <1>0, <1>1, <1>2, StayStory DEF Pr!Dies, Pr!talk, Pr!memory, Pr!caches, Pr!stores, Pr!story, Pr!ghosts
<1>7. MarkTypes'
  <2>1. UNCHANGED undone /\ acked' \subseteq acked \cup {msg[w]} /\ overlapped' \subseteq overlapped \cup {msg[w]}
    BY DEF Pr!Dies, Pr!talk, Pr!memory, Pr!caches, Pr!stores, Pr!story, Pr!ghosts
  <2> QED BY <1>0, <1>1, <2>1, AcksAndOverlaps, StayMarks
<1> QED BY <1>2, <1>3, <1>4, <1>5, <1>6, <1>7 DEF ProfileTypes

LEMMA CacheFailsTypes ==
  ASSUME ProfileFit, ProfileTypes, NEW w \in Answerers, Pr!CacheFails(w)
  PROVE  ProfileTypes'
<1>0. WalkTypes /\ MemoryTypes /\ RequestTypes /\ TableTypes /\ StoryTypes /\ MarkTypes /\ SpokenTypes /\ OwnMessage
  BY DEF ProfileTypes, WalkTypes
<1>1. Pr!Done(w) /\ UNCHANGED <<script, spoken>> /\ at[w] # "idle"
  BY DEF Pr!CacheFails, Pr!talk, Pr!memory, Pr!caches, Pr!stores, Pr!story, Pr!ghosts
<1>2. WalkTypes' /\ settled' \in [Answerers -> SUBSET (1..spoken)]
  BY <1>0, <1>1, DoneTypes, SettledTypes
<1>3. MemoryTypes'
  BY <1>0, ProfileConstants DEF Pr!CacheFails, Pr!talk, Pr!memory, Pr!caches, Pr!stores, Pr!story,
     Pr!ghosts, MemoryTypes, Pr!Fault, Pr!Phases, Pr!Statuses
<1>4. RequestTypes'
  BY <1>0, <1>1, StayRequests DEF Pr!CacheFails, Pr!talk, Pr!memory, Pr!caches, Pr!stores, Pr!story,
     Pr!ghosts
<1>5. TableTypes'
  BY <1>0, <1>1, StayTable DEF Pr!CacheFails, Pr!talk, Pr!memory, Pr!caches, Pr!stores, Pr!story, Pr!ghosts
<1>6. StoryTypes'
  BY <1>0, <1>1, <1>2, StayStory DEF Pr!CacheFails, Pr!talk, Pr!memory, Pr!caches, Pr!stores, Pr!story,
     Pr!ghosts
<1>7. MarkTypes'
  <2>1. UNCHANGED undone /\ acked' \subseteq acked \cup {msg[w]} /\ overlapped' \subseteq overlapped \cup {msg[w]}
    BY DEF Pr!CacheFails, Pr!talk, Pr!memory, Pr!caches, Pr!stores, Pr!story, Pr!ghosts
  <2> QED BY <1>0, <1>1, <2>1, AcksAndOverlaps, StayMarks
<1> QED BY <1>2, <1>3, <1>4, <1>5, <1>6, <1>7 DEF ProfileTypes

LEMMA CacheProfileTypes ==
  ASSUME ProfileFit, ProfileTypes, NEW w \in Answerers, Pr!CacheProfile(w)
  PROVE  ProfileTypes'
<1>0. WalkTypes /\ MemoryTypes /\ RequestTypes /\ TableTypes /\ StoryTypes /\ MarkTypes /\ SpokenTypes /\ OwnMessage
  BY DEF ProfileTypes, WalkTypes
<1>1. Pr!Done(w) /\ UNCHANGED <<script, spoken>> /\ at[w] # "idle"
  BY DEF Pr!CacheProfile, Pr!talk, Pr!memory, Pr!caches, Pr!stores, Pr!story, Pr!ghosts
<1>2. WalkTypes' /\ settled' \in [Answerers -> SUBSET (1..spoken)]
  BY <1>0, <1>1, DoneTypes, SettledTypes
<1>3. MemoryTypes'
  BY <1>0, ProfileConstants DEF Pr!CacheProfile, Pr!talk, Pr!memory, Pr!caches, Pr!stores, Pr!story,
     Pr!ghosts, MemoryTypes, Pr!Fault, Pr!Phases, Pr!Statuses
<1>4. RequestTypes'
  BY <1>0, <1>1, StayRequests DEF Pr!CacheProfile, Pr!talk, Pr!memory, Pr!caches, Pr!stores, Pr!story,
     Pr!ghosts
<1>5. TableTypes'
  <2>1. profile' = Pr!Cached(got[w].fields) /\ UNCHANGED <<recall, table, chats>> /\ at[w] = "cache"
    BY DEF Pr!CacheProfile, Pr!talk, Pr!memory, Pr!caches, Pr!stores, Pr!story, Pr!ghosts
  <2>2. got[w].fields \in KnownFields
    BY <1>0, <2>1 DEF WalkTypes, ReadTypes
  <2> QED BY <1>0, <1>1, <2>1, <2>2 DEF TableTypes, KnownFields, Pr!Cached
<1>6. StoryTypes'
  BY <1>0, <1>1, <1>2, StayStory DEF Pr!CacheProfile, Pr!talk, Pr!memory, Pr!caches, Pr!stores, Pr!story,
     Pr!ghosts
<1>7. MarkTypes'
  <2>1. UNCHANGED undone /\ acked' \subseteq acked \cup {msg[w]} /\ overlapped' \subseteq overlapped \cup {msg[w]}
    BY DEF Pr!CacheProfile, Pr!talk, Pr!memory, Pr!caches, Pr!stores, Pr!story, Pr!ghosts
  <2> QED BY <1>0, <1>1, <2>1, AcksAndOverlaps, StayMarks
<1> QED BY <1>2, <1>3, <1>4, <1>5, <1>6, <1>7 DEF ProfileTypes

LEMMA AddsTypes ==
  ASSUME ProfileFit, ProfileTypes, NEW w \in Answerers, UNCHANGED <<script, spoken>>, at[w] # "idle",
         NEW k \in Pr!Requests, NEW x \in KnownFields, Pr!Request(k, w, x),
         k = "edit" => script.says[msg[w]] \in Edits /\ x[script.says[msg[w]]] = msg[w]
  PROVE  RequestTypes'
<1>0. RequestTypes /\ MarkTypes /\ SpokenTypes /\ OwnMessage
  BY DEF ProfileTypes, WalkTypes
<1> DEFINE r == [kind |-> k, w |-> w, m |-> msg[w], fields |-> x]
<1>1. r \in RequestType(script, spoken) /\ r.kind = k /\ r.m = msg[w] /\ r.fields = x
  BY <1>0, AcksAndOverlaps DEF RequestType, KnownFields
<1>2. requests' = Append(requests, r)
  BY DEF Pr!Request
<1> HIDE DEF r
<1> QED BY <1>0, <1>1, <1>2, AddsRequest

LEMMA ConsentsTypes ==
  ASSUME ProfileFit, ProfileTypes, NEW w \in Answerers, Pr!Consents(w)
  PROVE  ProfileTypes'
<1>0. WalkTypes /\ MemoryTypes /\ RequestTypes /\ TableTypes /\ StoryTypes /\ MarkTypes /\ SpokenTypes /\ OwnMessage
      /\ ReadTypes
  BY DEF ProfileTypes, WalkTypes
<1>1. UNCHANGED <<script, spoken, msg>> /\ at[w] # "idle"
  BY DEF Pr!Consents, Pr!talk, Pr!memory, Pr!caches, Pr!stores, Pr!story, Pr!ghosts
<1>2. WalkTypes'
  <2>1. Pr!Goes(w, "wizard") /\ got' = got /\ at[w] = "reply"
    BY DEF Pr!Consents
  <2>2. got[w].phase \in Pr!Phases
    BY <1>0, <2>1 DEF ReadTypes
  <2> QED BY <1>0, <1>1, <2>1, <2>2, GoesTypes DEF EditPlaces, Pr!Places
<1>3. MemoryTypes'
  BY <1>0, ProfileConstants DEF Pr!Consents, Pr!talk, Pr!memory, Pr!caches, Pr!stores, Pr!story, Pr!ghosts,
     MemoryTypes, Pr!Fault, Pr!Phases, Pr!Statuses
<1>4. RequestTypes'
  BY <1>0, <1>1, StayRequests DEF Pr!Consents, Pr!talk, Pr!memory, Pr!caches, Pr!stores, Pr!story, Pr!ghosts
<1>5. TableTypes'
  BY <1>0, <1>1, StayTable DEF Pr!Consents, Pr!talk, Pr!memory, Pr!caches, Pr!stores, Pr!story, Pr!ghosts
<1>6. StoryTypes'
  BY <1>0, <1>1, SettledTypes, StayStory DEF Pr!Consents, Pr!talk, Pr!memory, Pr!caches, Pr!stores,
     Pr!story, Pr!ghosts
<1>7. MarkTypes'
  <2>1. UNCHANGED undone /\ acked' \subseteq acked /\ overlapped' \subseteq overlapped
    BY DEF Pr!Consents, Pr!talk, Pr!memory, Pr!caches, Pr!stores, Pr!story, Pr!ghosts
  <2> QED BY <1>0, <1>1, <2>1, AcksAndOverlaps, StayMarks
<1> QED BY <1>2, <1>3, <1>4, <1>5, <1>6, <1>7 DEF ProfileTypes

LEMMA LoadStateTypes ==
  ASSUME ProfileFit, ProfileTypes, NEW w \in Answerers, NEW ok \in BOOLEAN, Pr!LoadState(w, ok)
  PROVE  ProfileTypes'
<1>0. WalkTypes /\ MemoryTypes /\ RequestTypes /\ TableTypes /\ StoryTypes /\ MarkTypes /\ SpokenTypes /\ OwnMessage
      /\ ReadTypes
  BY DEF ProfileTypes, WalkTypes
<1>1. UNCHANGED <<script, spoken, msg>> /\ at[w] # "idle"
  BY DEF Pr!LoadState, Pr!talk, Pr!memory, Pr!caches, Pr!stores, Pr!story, Pr!ghosts
<1>2. WalkTypes'
  <2> DEFINE h == IF ok THEN wizard ELSE "none"
             p == IF Pr!Said(w) \in Pr!Commands THEN "limit" ELSE IF h # "none" THEN "answer" ELSE "greeting"
  <2>1. Pr!Goes(w, p) /\ Pr!Keeps(w, [at |-> "phase", phase |-> h]) /\ at[w] = "wizard"
    BY DEF Pr!LoadState
  <2>2. h \in Pr!Phases
    BY <1>0 DEF MemoryTypes, Pr!Phases
  <2>3. got'[w].phase = h
    BY <1>0, <2>1 DEF Pr!Keeps, ReadTypes
  <2>4. p \in {"limit", "answer", "greeting"} /\ (script.says[msg[w]] \in Edits => p = "limit")
    BY DEF Pr!Said, Pr!Says, Pr!Commands, Pr!Edits, Edits
  <2> HIDE DEF p, h
  <2> QED BY <1>0, <1>1, <2>1, <2>2, <2>3, <2>4, GoesTypes DEF EditPlaces, Pr!Places
<1>3. MemoryTypes'
  BY <1>0, ProfileConstants DEF Pr!LoadState, Pr!talk, Pr!memory, Pr!caches, Pr!stores, Pr!story, Pr!ghosts,
     MemoryTypes, Pr!Fault, Pr!Phases, Pr!Statuses
<1>4. RequestTypes'
  BY <1>0, <1>1, StayRequests DEF Pr!LoadState, Pr!talk, Pr!memory, Pr!caches, Pr!stores, Pr!story,
     Pr!ghosts
<1>5. TableTypes'
  BY <1>0, <1>1, StayTable DEF Pr!LoadState, Pr!talk, Pr!memory, Pr!caches, Pr!stores, Pr!story, Pr!ghosts
<1>6. StoryTypes'
  BY <1>0, <1>1, SettledTypes, StayStory DEF Pr!LoadState, Pr!talk, Pr!memory, Pr!caches, Pr!stores,
     Pr!story, Pr!ghosts
<1>7. MarkTypes'
  <2>1. UNCHANGED undone /\ acked' \subseteq acked /\ overlapped' \subseteq overlapped
    BY DEF Pr!LoadState, Pr!talk, Pr!memory, Pr!caches, Pr!stores, Pr!story, Pr!ghosts
  <2> QED BY <1>0, <1>1, <2>1, AcksAndOverlaps, StayMarks
<1> QED BY <1>2, <1>3, <1>4, <1>5, <1>6, <1>7 DEF ProfileTypes

LEMMA StorePreferencesTypes ==
  ASSUME ProfileFit, ProfileTypes, NEW w \in Answerers, NEW ok \in BOOLEAN, Pr!StorePreferences(w, ok)
  PROVE  ProfileTypes'
<1>0. WalkTypes /\ MemoryTypes /\ RequestTypes /\ TableTypes /\ StoryTypes /\ MarkTypes /\ SpokenTypes /\ OwnMessage
      /\ ReadTypes
  BY DEF ProfileTypes, WalkTypes
<1>1. UNCHANGED <<script, spoken, msg>> /\ at[w] # "idle"
  BY DEF Pr!StorePreferences, Pr!talk, Pr!memory, Pr!caches, Pr!stores, Pr!story, Pr!ghosts
<1>2. WalkTypes'
  <2>1. Pr!Goes(w, "clear") /\ (got' = got \/ \E x : Pr!Keeps(w, x))
    BY DEF Pr!StorePreferences
  <2>2. script.says[msg[w]] \notin Edits
    BY <1>0, <1>1 DEF Pr!StorePreferences, OwnMessage, Pr!Said, Pr!Says, Pr!Commands, Pr!Edits, Edits,
       EditPlaces, Pr!Places
  <2> QED BY <1>0, <1>1, <2>1, <2>2, GoesTypes DEF EditPlaces, Pr!Places
<1>3. MemoryTypes'
  BY <1>0, ProfileConstants DEF Pr!StorePreferences, Pr!talk, Pr!memory, Pr!caches, Pr!stores, Pr!story,
     Pr!ghosts, MemoryTypes, Pr!Fault, Pr!Phases, Pr!Statuses
<1>4. RequestTypes'
  <2>1. UNCHANGED requests \/ Pr!Request("onboarded", w, Pr!Unset)
    BY DEF Pr!StorePreferences
  <2> QED BY <1>0, <1>1, <2>1, UnsetKnown, AddsTypes, StayRequests DEF Pr!Requests, Pr!Reads
<1>5. TableTypes'
  BY <1>0, <1>1, StayTable DEF Pr!StorePreferences, Pr!talk, Pr!memory, Pr!caches, Pr!stores, Pr!story,
     Pr!ghosts
<1>6. StoryTypes'
  BY <1>0, <1>1, SettledTypes, StayStory DEF Pr!StorePreferences, Pr!talk, Pr!memory, Pr!caches, Pr!stores,
     Pr!story, Pr!ghosts
<1>7. MarkTypes'
  <2>1. UNCHANGED undone /\ acked' \subseteq acked /\ overlapped' \subseteq overlapped
    BY DEF Pr!StorePreferences, Pr!talk, Pr!memory, Pr!caches, Pr!stores, Pr!story, Pr!ghosts
  <2> QED BY <1>0, <1>1, <2>1, AcksAndOverlaps, StayMarks
<1> QED BY <1>2, <1>3, <1>4, <1>5, <1>6, <1>7 DEF ProfileTypes

LEMMA GreetsTypes ==
  ASSUME ProfileFit, ProfileTypes, NEW w \in Answerers, NEW ok \in BOOLEAN, Pr!Greets(w, ok)
  PROVE  ProfileTypes'
<1>0. WalkTypes /\ MemoryTypes /\ RequestTypes /\ TableTypes /\ StoryTypes /\ MarkTypes /\ SpokenTypes /\ OwnMessage
      /\ ReadTypes
  BY DEF ProfileTypes, WalkTypes
<1>1. UNCHANGED <<script, spoken, msg>> /\ at[w] # "idle"
  BY DEF Pr!Greets, Pr!talk, Pr!memory, Pr!caches, Pr!stores, Pr!story, Pr!ghosts
<1>2. WalkTypes'
  <2>1. PICK p \in {"limit", "probe"} : Pr!Goes(w, p) /\ got' = got
    BY DEF Pr!Greets
  <2>2. script.says[msg[w]] \notin Edits
    BY <1>0, <1>1 DEF Pr!Greets, OwnMessage, Pr!Said, Pr!Says, Pr!Commands, Pr!Edits, Edits, EditPlaces,
       Pr!Places
  <2> QED BY <1>0, <1>1, <2>1, <2>2, GoesTypes DEF EditPlaces, Pr!Places
<1>3. MemoryTypes'
  BY <1>0, ProfileConstants DEF Pr!Greets, Pr!talk, Pr!memory, Pr!caches, Pr!stores, Pr!story, Pr!ghosts,
     MemoryTypes, Pr!Fault, Pr!Phases, Pr!Statuses
<1>4. RequestTypes'
  <2>1. UNCHANGED requests \/ Pr!Request("preferences", w, Pr!Unset)
    BY DEF Pr!Greets
  <2> QED BY <1>0, <1>1, <2>1, UnsetKnown, AddsTypes, StayRequests DEF Pr!Requests, Pr!Reads
<1>5. TableTypes'
  BY <1>0, <1>1, StayTable DEF Pr!Greets, Pr!talk, Pr!memory, Pr!caches, Pr!stores, Pr!story, Pr!ghosts
<1>6. StoryTypes'
  BY <1>0, <1>1, SettledTypes, StayStory DEF Pr!Greets, Pr!talk, Pr!memory, Pr!caches, Pr!stores, Pr!story,
     Pr!ghosts
<1>7. MarkTypes'
  <2>1. UNCHANGED undone /\ acked' \subseteq acked /\ overlapped' \subseteq overlapped
    BY DEF Pr!Greets, Pr!talk, Pr!memory, Pr!caches, Pr!stores, Pr!story, Pr!ghosts
  <2> QED BY <1>0, <1>1, <2>1, AcksAndOverlaps, StayMarks
<1> QED BY <1>2, <1>3, <1>4, <1>5, <1>6, <1>7 DEF ProfileTypes

LEMMA MarksTypes ==
  ASSUME ProfileFit, ProfileTypes, NEW w \in Answerers, NEW ok \in BOOLEAN, Pr!Marks(w, ok)
  PROVE  ProfileTypes'
<1>0. WalkTypes /\ MemoryTypes /\ RequestTypes /\ TableTypes /\ StoryTypes /\ MarkTypes /\ SpokenTypes /\ OwnMessage
      /\ ReadTypes
  BY DEF ProfileTypes, WalkTypes
<1>1. UNCHANGED <<script, spoken, msg>> /\ at[w] # "idle"
  BY DEF Pr!Marks, Pr!talk, Pr!memory, Pr!caches, Pr!stores, Pr!story, Pr!ghosts
<1>2. WalkTypes'
  <2>1. PICK p \in {"limit", "activate"} : Pr!Goes(w, p) /\ Pr!Keeps(w, Pr!Nothing)
    BY DEF Pr!Marks
  <2>2. script.says[msg[w]] \notin Edits
    BY <1>0, <1>1 DEF Pr!Marks, OwnMessage, Pr!Said, Pr!Says, Pr!Commands, Pr!Edits, Edits, EditPlaces,
       Pr!Places
  <2> QED BY <1>0, <1>1, <2>1, <2>2, GoesTypes DEF EditPlaces, Pr!Places
<1>3. MemoryTypes'
  BY <1>0, ProfileConstants DEF Pr!Marks, Pr!talk, Pr!memory, Pr!caches, Pr!stores, Pr!story, Pr!ghosts,
     MemoryTypes, Pr!Fault, Pr!Phases, Pr!Statuses
<1>4. RequestTypes'
  BY <1>0, <1>1, StayRequests DEF Pr!Marks, Pr!talk, Pr!memory, Pr!caches, Pr!stores, Pr!story, Pr!ghosts
<1>5. TableTypes'
  BY <1>0, <1>1, StayTable DEF Pr!Marks, Pr!talk, Pr!memory, Pr!caches, Pr!stores, Pr!story, Pr!ghosts
<1>6. StoryTypes'
  BY <1>0, <1>1, SettledTypes, StayStory DEF Pr!Marks, Pr!talk, Pr!memory, Pr!caches, Pr!stores, Pr!story,
     Pr!ghosts
<1>7. MarkTypes'
  <2>1. UNCHANGED undone /\ acked' \subseteq acked /\ overlapped' \subseteq overlapped
    BY DEF Pr!Marks, Pr!talk, Pr!memory, Pr!caches, Pr!stores, Pr!story, Pr!ghosts
  <2> QED BY <1>0, <1>1, <2>1, AcksAndOverlaps, StayMarks
<1> QED BY <1>2, <1>3, <1>4, <1>5, <1>6, <1>7 DEF ProfileTypes

LEMMA AllowedTypes ==
  ASSUME ProfileFit, ProfileTypes, NEW w \in Answerers, Pr!Allowed(w)
  PROVE  ProfileTypes'
<1>0. WalkTypes /\ MemoryTypes /\ RequestTypes /\ TableTypes /\ StoryTypes /\ MarkTypes /\ SpokenTypes /\ OwnMessage
      /\ ReadTypes
  BY DEF ProfileTypes, WalkTypes
<1>1. UNCHANGED <<script, spoken, msg>> /\ at[w] # "idle"
  BY DEF Pr!Allowed, Pr!talk, Pr!memory, Pr!caches, Pr!stores, Pr!story, Pr!ghosts
<1>2. WalkTypes'
  <2>1. PICK p \in {"edit", "bust", "chat"} : Pr!Goes(w, p) /\ got' = got /\ (p = "edit" <=> script.says[msg[w]] \in Edits)
    BY DEF Pr!Allowed, Pr!Said, Pr!Says, Pr!Edits, Edits
  <2> QED BY <1>0, <1>1, <2>1, GoesTypes DEF EditPlaces, Pr!Places
<1>3. MemoryTypes'
  BY <1>0, ProfileConstants DEF Pr!Allowed, Pr!talk, Pr!memory, Pr!caches, Pr!stores, Pr!story, Pr!ghosts,
     MemoryTypes, Pr!Fault, Pr!Phases, Pr!Statuses
<1>4. RequestTypes'
  BY <1>0, <1>1, StayRequests DEF Pr!Allowed, Pr!talk, Pr!memory, Pr!caches, Pr!stores, Pr!story, Pr!ghosts
<1>5. TableTypes'
  BY <1>0, <1>1, StayTable DEF Pr!Allowed, Pr!talk, Pr!memory, Pr!caches, Pr!stores, Pr!story, Pr!ghosts
<1>6. StoryTypes'
  BY <1>0, <1>1, SettledTypes, StayStory DEF Pr!Allowed, Pr!talk, Pr!memory, Pr!caches, Pr!stores, Pr!story,
     Pr!ghosts
<1>7. MarkTypes'
  <2>1. UNCHANGED undone /\ acked' = acked /\ overlapped' \subseteq overlapped \cup {msg[w]} \cup {msg[v] : v \in Pr!Editing}
    BY DEF Pr!Allowed, Pr!talk, Pr!memory, Pr!caches, Pr!stores, Pr!story, Pr!ghosts
  <2>2. \A v \in Pr!Editing : msg[v] \in 1..spoken
    BY <1>0, AcksAndOverlaps DEF Pr!Editing
  <2> QED BY <1>0, <1>1, <2>1, <2>2, AcksAndOverlaps, StayMarks
<1> QED BY <1>2, <1>3, <1>4, <1>5, <1>6, <1>7 DEF ProfileTypes

LEMMA ReadProfileTypes ==
  ASSUME ProfileFit, ProfileTypes, NEW w \in Answerers, Pr!ReadProfile(w)
  PROVE  ProfileTypes'
<1>0. WalkTypes /\ MemoryTypes /\ RequestTypes /\ TableTypes /\ StoryTypes /\ MarkTypes /\ SpokenTypes /\ OwnMessage
      /\ ReadTypes
  BY DEF ProfileTypes, WalkTypes
<1>1. UNCHANGED <<script, spoken, msg>> /\ at[w] # "idle"
  BY DEF Pr!ReadProfile, Pr!talk, Pr!memory, Pr!caches, Pr!stores, Pr!story, Pr!ghosts
<1>2. WalkTypes'
  <2>0. script.says[msg[w]] \in Edits /\ at[w] = "edit" /\ msg[w] # 0
    BY <1>0 DEF Pr!ReadProfile, OwnMessage, EditPlaces
  <2>1. CASE Pr!Is(profile)
    <3>1. Pr!Goes(w, "put") /\ Pr!Keeps(w, [at |-> "fields", fields |-> Pr!Merged(w, profile.it)])
      BY <2>1 DEF Pr!ReadProfile
    <3>2. profile.it \in KnownFields
      BY <1>0, <2>1 DEF TableTypes, Pr!Is
    <3>3. got'[w].fields = Pr!Merged(w, profile.it)
      BY <1>0, <3>1 DEF Pr!Keeps, ReadTypes
    <3> QED BY <1>0, <1>1, <2>0, <3>1, <3>2, <3>3, MergedKnown, GoesTypes DEF EditPlaces, Pr!Places
  <2>2. CASE ~Pr!Is(profile)
    <3>1. Pr!Goes(w, "editProbe") /\ got' = got
      BY <2>2 DEF Pr!ReadProfile
    <3> QED BY <1>0, <1>1, <2>0, <3>1, GoesTypes DEF EditPlaces, Pr!Places
  <2> QED BY <2>1, <2>2
<1>3. MemoryTypes'
  BY <1>0, ProfileConstants DEF Pr!ReadProfile, Pr!talk, Pr!memory, Pr!caches, Pr!stores, Pr!story,
     Pr!ghosts, MemoryTypes, Pr!Fault, Pr!Phases, Pr!Statuses
<1>4. RequestTypes'
  <2>1. UNCHANGED requests \/ Pr!Request("preferences", w, Pr!Unset)
    BY DEF Pr!ReadProfile
  <2> QED BY <1>0, <1>1, <2>1, UnsetKnown, AddsTypes, StayRequests DEF Pr!Requests, Pr!Reads
<1>5. TableTypes'
  BY <1>0, <1>1, StayTable DEF Pr!ReadProfile, Pr!talk, Pr!memory, Pr!caches, Pr!stores, Pr!story, Pr!ghosts
<1>6. StoryTypes'
  BY <1>0, <1>1, SettledTypes, StayStory DEF Pr!ReadProfile, Pr!talk, Pr!memory, Pr!caches, Pr!stores,
     Pr!story, Pr!ghosts
<1>7. MarkTypes'
  <2>1. UNCHANGED undone /\ acked' \subseteq acked /\ overlapped' \subseteq overlapped
    BY DEF Pr!ReadProfile, Pr!talk, Pr!memory, Pr!caches, Pr!stores, Pr!story, Pr!ghosts
  <2> QED BY <1>0, <1>1, <2>1, AcksAndOverlaps, StayMarks
<1> QED BY <1>2, <1>3, <1>4, <1>5, <1>6, <1>7 DEF ProfileTypes

LEMMA PutTypes ==
  ASSUME ProfileFit, ProfileTypes, NEW w \in Answerers, Pr!Put(w)
  PROVE  ProfileTypes'
<1>0. WalkTypes /\ MemoryTypes /\ RequestTypes /\ TableTypes /\ StoryTypes /\ MarkTypes /\ SpokenTypes /\ OwnMessage
      /\ ReadTypes
  BY DEF ProfileTypes, WalkTypes
<1>1. UNCHANGED <<script, spoken, msg>> /\ at[w] # "idle"
  BY DEF Pr!Put, Pr!talk, Pr!memory, Pr!caches, Pr!stores, Pr!story, Pr!ghosts
<1>2. WalkTypes'
  <2>0. script.says[msg[w]] \in Edits /\ at[w] = "put" /\ got[w].fields \in KnownFields /\ got[w].fields[script.says[msg[w]]] = msg[w]
    BY <1>0 DEF Pr!Put, OwnMessage, EditPlaces, ReadTypes
  <2>1. Pr!Goes(w, "cache") /\ got' = got
    BY DEF Pr!Put
  <2> QED BY <1>0, <1>1, <2>0, <2>1, GoesTypes DEF EditPlaces, Pr!Places
<1>3. MemoryTypes'
  BY <1>0, ProfileConstants DEF Pr!Put, Pr!talk, Pr!memory, Pr!caches, Pr!stores, Pr!story, Pr!ghosts,
     MemoryTypes, Pr!Fault, Pr!Phases, Pr!Statuses
<1>4. RequestTypes'
  <2>0. script.says[msg[w]] \in Edits /\ at[w] = "put" /\ got[w].fields \in KnownFields /\ got[w].fields[script.says[msg[w]]] = msg[w]
    BY <1>0 DEF Pr!Put, OwnMessage, EditPlaces, ReadTypes
  <2>1. Pr!Request("edit", w, got[w].fields)
    BY DEF Pr!Put
  <2> QED BY <1>0, <1>1, <2>0, <2>1, AddsTypes DEF Pr!Requests, Pr!Reads
<1>5. TableTypes'
  BY <1>0, <1>1, StayTable DEF Pr!Put, Pr!talk, Pr!memory, Pr!caches, Pr!stores, Pr!story, Pr!ghosts
<1>6. StoryTypes'
  BY <1>0, <1>1, SettledTypes, StayStory DEF Pr!Put, Pr!talk, Pr!memory, Pr!caches, Pr!stores, Pr!story,
     Pr!ghosts
<1>7. MarkTypes'
  <2>1. UNCHANGED undone /\ acked' \subseteq acked /\ overlapped' \subseteq overlapped
    BY DEF Pr!Put, Pr!talk, Pr!memory, Pr!caches, Pr!stores, Pr!story, Pr!ghosts
  <2> QED BY <1>0, <1>1, <2>1, AcksAndOverlaps, StayMarks
<1> QED BY <1>2, <1>3, <1>4, <1>5, <1>6, <1>7 DEF ProfileTypes

LEMMA GetHistoryTypes ==
  ASSUME ProfileFit, ProfileTypes, NEW w \in Answerers, Pr!GetHistory(w)
  PROVE  ProfileTypes'
<1>0. WalkTypes /\ MemoryTypes /\ RequestTypes /\ TableTypes /\ StoryTypes /\ MarkTypes /\ SpokenTypes /\ OwnMessage
      /\ ReadTypes
  BY DEF ProfileTypes, WalkTypes
<1>1. UNCHANGED <<script, spoken, msg>> /\ at[w] # "idle"
  BY DEF Pr!GetHistory, Pr!talk, Pr!memory, Pr!caches, Pr!stores, Pr!story, Pr!ghosts
<1>2. WalkTypes'
  <2>0. script.says[msg[w]] \notin Edits
    BY <1>0, <1>1 DEF Pr!GetHistory, OwnMessage, Pr!Said, Pr!Says, Pr!Commands, Pr!Edits, Edits, EditPlaces,
       Pr!Places
  <2>1. CASE Pr!Is(recall)
    <3>1. Pr!Goes(w, "think") /\ Pr!Keeps(w, [at |-> "seen", seen |-> recall.it])
      BY <2>1 DEF Pr!GetHistory
    <3>2. recall.it \subseteq 1..spoken
      BY <1>0, <2>1 DEF TableTypes, Pr!Is
    <3>3. got'[w].seen = recall.it
      BY <1>0, <3>1 DEF Pr!Keeps, ReadTypes
    <3> QED BY <1>0, <1>1, <2>0, <3>1, <3>2, <3>3, GoesTypes DEF EditPlaces, Pr!Places
  <2>2. CASE ~Pr!Is(recall)
    <3>1. Pr!Goes(w, "history") /\ got' = got
      BY <2>2 DEF Pr!GetHistory
    <3> QED BY <1>0, <1>1, <2>0, <3>1, GoesTypes DEF EditPlaces, Pr!Places
  <2> QED BY <2>1, <2>2
<1>3. MemoryTypes'
  BY <1>0, ProfileConstants DEF Pr!GetHistory, Pr!talk, Pr!memory, Pr!caches, Pr!stores, Pr!story,
     Pr!ghosts, MemoryTypes, Pr!Fault, Pr!Phases, Pr!Statuses
<1>4. RequestTypes'
  <2>1. UNCHANGED requests \/ Pr!Request("history", w, Pr!Unset)
    BY DEF Pr!GetHistory
  <2> QED BY <1>0, <1>1, <2>1, UnsetKnown, AddsTypes, StayRequests DEF Pr!Requests, Pr!Reads
<1>5. TableTypes'
  BY <1>0, <1>1, StayTable DEF Pr!GetHistory, Pr!talk, Pr!memory, Pr!caches, Pr!stores, Pr!story, Pr!ghosts
<1>6. StoryTypes'
  BY <1>0, <1>1, SettledTypes, StayStory DEF Pr!GetHistory, Pr!talk, Pr!memory, Pr!caches, Pr!stores,
     Pr!story, Pr!ghosts
<1>7. MarkTypes'
  <2>1. UNCHANGED undone /\ acked' \subseteq acked /\ overlapped' \subseteq overlapped
    BY DEF Pr!GetHistory, Pr!talk, Pr!memory, Pr!caches, Pr!stores, Pr!story, Pr!ghosts
  <2> QED BY <1>0, <1>1, <2>1, AcksAndOverlaps, StayMarks
<1> QED BY <1>2, <1>3, <1>4, <1>5, <1>6, <1>7 DEF ProfileTypes

LEMMA RefillTypes ==
  ASSUME ProfileFit, ProfileTypes, NEW w \in Answerers, Pr!Refill(w)
  PROVE  ProfileTypes'
<1>0. WalkTypes /\ MemoryTypes /\ RequestTypes /\ TableTypes /\ StoryTypes /\ MarkTypes /\ SpokenTypes /\ OwnMessage
      /\ ReadTypes
  BY DEF ProfileTypes, WalkTypes
<1>1. UNCHANGED <<script, spoken, msg>> /\ at[w] # "idle"
  BY DEF Pr!Refill, Pr!talk, Pr!memory, Pr!caches, Pr!stores, Pr!story, Pr!ghosts
<1>2. WalkTypes'
  <2>0. script.says[msg[w]] \notin Edits
    BY <1>0, <1>1 DEF Pr!Refill, OwnMessage, Pr!Said, Pr!Says, Pr!Commands, Pr!Edits, Edits, EditPlaces,
       Pr!Places
  <2>1. Pr!Goes(w, "think") /\ got' = got /\ got[w].seen \subseteq 1..spoken
    BY <1>0 DEF Pr!Refill, ReadTypes
  <2> QED BY <1>0, <1>1, <2>0, <2>1, GoesTypes DEF EditPlaces, Pr!Places
<1>3. MemoryTypes'
  BY <1>0, ProfileConstants DEF Pr!Refill, Pr!talk, Pr!memory, Pr!caches, Pr!stores, Pr!story, Pr!ghosts,
     MemoryTypes, Pr!Fault, Pr!Phases, Pr!Statuses
<1>4. RequestTypes'
  BY <1>0, <1>1, StayRequests DEF Pr!Refill, Pr!talk, Pr!memory, Pr!caches, Pr!stores, Pr!story, Pr!ghosts
<1>5. TableTypes'
  <2>1. recall' = Pr!Cached(got[w].seen) /\ UNCHANGED <<profile, table, chats>> /\ got[w].seen \subseteq 1..spoken
    BY <1>0 DEF Pr!Refill, Pr!talk, Pr!memory, Pr!caches, Pr!stores, Pr!story, Pr!ghosts, ReadTypes
  <2> QED BY <1>0, <1>1, <2>1 DEF TableTypes, KnownFields, Pr!Cached
<1>6. StoryTypes'
  BY <1>0, <1>1, SettledTypes, StayStory DEF Pr!Refill, Pr!talk, Pr!memory, Pr!caches, Pr!stores, Pr!story,
     Pr!ghosts
<1>7. MarkTypes'
  <2>1. UNCHANGED undone /\ acked' \subseteq acked /\ overlapped' \subseteq overlapped
    BY DEF Pr!Refill, Pr!talk, Pr!memory, Pr!caches, Pr!stores, Pr!story, Pr!ghosts
  <2> QED BY <1>0, <1>1, <2>1, AcksAndOverlaps, StayMarks
<1> QED BY <1>2, <1>3, <1>4, <1>5, <1>6, <1>7 DEF ProfileTypes

LEMMA ThinkTypes ==
  ASSUME ProfileFit, ProfileTypes, NEW w \in Answerers, Pr!Think(w)
  PROVE  ProfileTypes'
<1>0. WalkTypes /\ MemoryTypes /\ RequestTypes /\ TableTypes /\ StoryTypes /\ MarkTypes /\ SpokenTypes /\ OwnMessage
      /\ ReadTypes
  BY DEF ProfileTypes, WalkTypes
<1>1. UNCHANGED <<script, spoken, msg>> /\ at[w] # "idle"
  BY DEF Pr!Think, Pr!talk, Pr!memory, Pr!caches, Pr!stores, Pr!story, Pr!ghosts
<1>2. WalkTypes'
  <2>1. Pr!Goes(w, "bust") /\ (got' = got \/ \E x : Pr!Keeps(w, x))
    BY DEF Pr!Think
  <2>2. script.says[msg[w]] \notin Edits
    BY <1>0, <1>1 DEF Pr!Think, OwnMessage, Pr!Said, Pr!Says, Pr!Commands, Pr!Edits, Edits, EditPlaces,
       Pr!Places
  <2> QED BY <1>0, <1>1, <2>1, <2>2, GoesTypes DEF EditPlaces, Pr!Places
<1>3. MemoryTypes'
  BY <1>0, ProfileConstants DEF Pr!Think, Pr!talk, Pr!memory, Pr!caches, Pr!stores, Pr!story, Pr!ghosts,
     MemoryTypes, Pr!Fault, Pr!Phases, Pr!Statuses
<1>4. RequestTypes'
  BY <1>0, <1>1, StayRequests DEF Pr!Think, Pr!talk, Pr!memory, Pr!caches, Pr!stores, Pr!story, Pr!ghosts
<1>5. TableTypes'
  BY <1>0, <1>1, StayTable DEF Pr!Think, Pr!talk, Pr!memory, Pr!caches, Pr!stores, Pr!story, Pr!ghosts
<1>6. StoryTypes'
  <2>1. storing' = storing \cup {[w |-> w, item |-> msg[w], pushed |-> FALSE]} /\ UNCHANGED <<finished, refetched, settled>>
    BY DEF Pr!Think, Pr!talk, Pr!memory, Pr!caches, Pr!stores, Pr!story, Pr!ghosts
  <2>2. msg[w] \in 1..spoken
    BY <1>0, <1>1, AcksAndOverlaps
  <2>3. [w |-> w, item |-> msg[w], pushed |-> FALSE] \in [w : Answerers, item : 1..spoken, pushed : BOOLEAN]
    BY <2>2
  <2> QED BY <1>0, <1>1, <2>1, <2>3 DEF StoryTypes
<1>7. MarkTypes'
  <2>1. UNCHANGED undone /\ acked' \subseteq acked /\ overlapped' \subseteq overlapped
    BY DEF Pr!Think, Pr!talk, Pr!memory, Pr!caches, Pr!stores, Pr!story, Pr!ghosts
  <2> QED BY <1>0, <1>1, <2>1, AcksAndOverlaps, StayMarks
<1> QED BY <1>2, <1>3, <1>4, <1>5, <1>6, <1>7 DEF ProfileTypes

LEMMA TakeTypes ==
  ASSUME ProfileFit, ProfileTypes, NEW w \in Answerers, Pr!Take(w)
  PROVE  ProfileTypes'
<1>0. WalkTypes /\ MemoryTypes /\ RequestTypes /\ TableTypes /\ StoryTypes /\ MarkTypes /\ SpokenTypes /\ OwnMessage
      /\ ReadTypes
  BY DEF ProfileTypes, WalkTypes
<1>1. /\ script' = script /\ spoken' = spoken + 1 /\ spoken \in Nat /\ at[w] = "idle"
      /\ msg' = [msg EXCEPT ![w] = spoken + 1] /\ settled' = [settled EXCEPT ![w] = finished]
      /\ Pr!NeedsConsent(w)
      /\ UNCHANGED <<consent, wizard, greeted, profile, recall, requests, table, chats, storing, finished,
                     refetched, acked, overlapped, undone, profileFaults>>
  BY <1>0 DEF Pr!Take, SpokenTypes, Pr!memory, Pr!caches, Pr!stores, Pr!ghosts
<1>2. SpokenTypes' /\ OwnMessage'
  BY <1>0, TakesOwn
<1>3. KnownFields \subseteq KnownFields' /\ ToldFields(script, spoken) \subseteq ToldFields(script', spoken')
      /\ 1..spoken \subseteq 1..spoken'
  BY <1>1, KnownGrow DEF KnownFields
<1>4. ReadTypes'
  <2>1. PICK p \in {"wizard", "reply"} : at' = [at EXCEPT ![w] = p]
    BY <1>1 DEF Pr!NeedsConsent, Pr!Goes
  <2>2. got' = [got EXCEPT ![w] = [at |-> "phase", phase |-> "none"]]
    BY <1>1 DEF Pr!NeedsConsent, Pr!Keeps
  <2>3. \A x \in Answerers \ {w} : at'[x] = at[x] /\ msg'[x] = msg[x] /\ got'[x] = got[x]
    BY <1>0, <1>1, <2>1, <2>2 DEF SpokenTypes, ReadTypes
  <2>4. at'[w] \in {"wizard", "reply"} /\ got'[w].phase \in Pr!Phases
    BY <1>0, <2>1, <2>2 DEF SpokenTypes, ReadTypes, Pr!Phases
  <2>5. got' = [x \in Answerers |-> got'[x]]
    BY <1>0, <2>2 DEF ReadTypes
  <2> QED BY <1>0, <1>1, <1>3, <2>3, <2>4, <2>5 DEF ReadTypes
<1>5. MemoryTypes'
  BY <1>0, <1>1, StayMemory
<1>6. RequestTypes'
  <2>1. RequestType(script, spoken) \subseteq RequestType(script', spoken')
    BY <1>3 DEF RequestType
  <2>2. requests' \in Seq(RequestType(script', spoken'))
    <3> DEFINE S == RequestType(script, spoken)  T == RequestType(script', spoken')
    <3>1. requests \in Seq(S) /\ S \subseteq T /\ requests' = requests
      BY <1>0, <1>1, <2>1 DEF RequestTypes
    <3> HIDE DEF S, T
    <3>2. requests' \in Seq(T)
      BY <3>1
    <3> QED BY <3>2 DEF T
  <2> QED BY <1>0, <1>1, <2>2 DEF RequestTypes
<1>7. TableTypes'
  <2>1. table' \in [done : BOOLEAN, fields : KnownFields']
    BY <1>0, <1>1, <1>3 DEF TableTypes
  <2> QED BY <1>0, <1>1, <1>3, <2>1 DEF TableTypes
<1>8. StoryTypes'
  <2>1. [w : Answerers, item : 1..spoken, pushed : BOOLEAN] \subseteq [w : Answerers, item : 1..spoken', pushed : BOOLEAN]
    BY <1>3
  <2> QED BY <1>0, <1>1, <1>3, <2>1 DEF StoryTypes
<1>9. MarkTypes'
  BY <1>0, <1>1, <1>3 DEF MarkTypes
<1> QED BY <1>2, <1>4, <1>5, <1>6, <1>7, <1>8, <1>9 DEF ProfileTypes, WalkTypes

LEMMA AnswersTypes ==
  ASSUME ProfileFit, ProfileTypes, NEW w \in Answerers, Pr!Answers(w)
  PROVE  ProfileTypes'
<1>0. WalkTypes /\ MemoryTypes /\ RequestTypes /\ TableTypes /\ StoryTypes /\ MarkTypes /\ SpokenTypes /\ OwnMessage
      /\ ReadTypes
  BY DEF ProfileTypes, WalkTypes
<1>1. UNCHANGED <<script, spoken>> /\ at[w] = "answer" /\ script.says[msg[w]] \notin Edits
      /\ got[w].phase \in Pr!Phases
      /\ UNCHANGED <<consent, greeted, profile, recall, requests, table, chats, storing, finished,
                     refetched, acked, overlapped, undone, profileFaults>>
  BY <1>0 DEF Pr!Answers, OwnMessage, EditPlaces, ReadTypes, Pr!talk, Pr!caches, Pr!stores, Pr!ghosts
<1>2. \/ Pr!Goes(w, "store") /\ UNCHANGED <<msg, got, settled>>
      \/ Pr!Done(w)
  BY DEF Pr!Answers
<1>3. WalkTypes' /\ settled' \in [Answerers -> SUBSET (1..spoken)]
  <2>1. CASE Pr!Goes(w, "store") /\ UNCHANGED <<msg, got, settled>>
    BY <1>0, <1>1, <2>1, GoesTypes, SettledTypes DEF EditPlaces, Pr!Places
  <2>2. CASE Pr!Done(w)
    BY <1>0, <1>1, <2>2, DoneTypes, SettledTypes
  <2> QED BY <1>2, <2>1, <2>2
<1>4. MemoryTypes'
  <2>1. wizard' \in Pr!Phases
    BY <1>0, <1>1 DEF Pr!Answers, MemoryTypes, Pr!Phases
  <2> QED BY <1>0, <1>1, <2>1 DEF MemoryTypes
<1>5. RequestTypes' /\ TableTypes' /\ StoryTypes' /\ MarkTypes'
  BY <1>0, <1>1, <1>3, StayRequests, StayTable, StayStory, StayMarks, AcksAndOverlaps
<1> QED BY <1>3, <1>4, <1>5 DEF ProfileTypes

\* What a sub-agent makes of an answer.
LEMMA ToldTypes ==
  ASSUME ProfileFit, ProfileTypes, NEW w \in Answerers, UNCHANGED <<script, spoken, msg>>,
         at[w] \in {"probe", "editProbe", "history"},
         NEW b \in KnownFields, NEW isKnown \in BOOLEAN, NEW h \in SUBSET (1..spoken),
         Pr!Told(w, b, isKnown, h)
  PROVE  WalkTypes'
<1>0. WalkTypes /\ SpokenTypes /\ OwnMessage /\ ReadTypes
  BY DEF ProfileTypes, WalkTypes
<1>1. CASE at[w] = "probe"
  <2>1. Pr!Goes(w, "greet") /\ (\E x : Pr!Keeps(w, x)) /\ script.says[msg[w]] \notin Edits
    BY <1>0, <1>1 DEF Pr!Told, OwnMessage, EditPlaces
  <2> QED BY <1>0, <1>1, <2>1, GoesTypes DEF EditPlaces, Pr!Places
<1>2. CASE at[w] = "history"
  <2>1. Pr!Goes(w, "refill") /\ Pr!Keeps(w, [at |-> "seen", seen |-> h]) /\ script.says[msg[w]] \notin Edits
    BY <1>0, <1>2 DEF Pr!Told, OwnMessage, EditPlaces
  <2>2. got'[w].seen = h
    BY <1>0, <2>1 DEF Pr!Keeps, ReadTypes
  <2> QED BY <1>0, <1>2, <2>1, <2>2, GoesTypes DEF EditPlaces, Pr!Places
<1>3. CASE at[w] = "editProbe"
  <2> DEFINE c == IF isKnown THEN b ELSE Pr!Unset
  <2>1. /\ Pr!Goes(w, "put") /\ Pr!Keeps(w, [at |-> "fields", fields |-> Pr!Merged(w, c)])
        /\ script.says[msg[w]] \in Edits /\ msg[w] # 0 /\ c \in KnownFields
    BY <1>0, <1>3, UnsetKnown DEF Pr!Told, OwnMessage, EditPlaces
  <2>2. got'[w].fields = Pr!Merged(w, c)
    BY <1>0, <2>1 DEF Pr!Keeps, ReadTypes
  <2> HIDE DEF c
  <2> QED BY <1>0, <1>3, <2>1, <2>2, MergedKnown, GoesTypes DEF EditPlaces, Pr!Places
<1> QED BY <1>1, <1>2, <1>3

LEMMA TimesOutTypes ==
  ASSUME ProfileFit, ProfileTypes, NEW w \in Answerers, Pr!TimesOut(w)
  PROVE  ProfileTypes'
<1>0. WalkTypes /\ MemoryTypes /\ RequestTypes /\ TableTypes /\ StoryTypes /\ MarkTypes /\ SpokenTypes /\ OwnMessage
      /\ ReadTypes
  BY DEF ProfileTypes, WalkTypes
<1>1. UNCHANGED <<script, spoken, msg>> /\ at[w] \in {"probe", "editProbe", "history"} /\ Pr!Fault
      /\ UNCHANGED <<consent, wizard, greeted, profile, recall, requests, table, chats, storing, finished,
                     refetched, acked, overlapped, undone>>
      /\ settled' \in [Answerers -> SUBSET (1..spoken)]
  BY <1>0 DEF Pr!TimesOut, Pr!talk, Pr!memory, Pr!caches, Pr!stores, Pr!ghosts, StoryTypes
<1>2. WalkTypes'
  <2>1. CASE at[w] = "history"
    <3>1. Pr!Goes(w, "think") /\ Pr!Keeps(w, [at |-> "seen", seen |-> {}]) /\ script.says[msg[w]] \notin Edits
      BY <1>0, <2>1 DEF Pr!TimesOut, OwnMessage, EditPlaces
    <3>2. got'[w].seen = {}
      BY <1>0, <3>1 DEF Pr!Keeps, ReadTypes
    <3> QED BY <1>0, <1>1, <2>1, <3>1, <3>2, GoesTypes DEF EditPlaces, Pr!Places
  <2>2. CASE at[w] # "history"
    <3>1. Pr!Told(w, Pr!Unset, FALSE, {}) /\ Pr!Unset \in KnownFields
      BY <1>0, <2>2, UnsetKnown DEF Pr!TimesOut
    <3> QED BY <1>1, <3>1, ToldTypes
  <2> QED BY <2>1, <2>2
<1>3. MemoryTypes'
  BY <1>0, <1>1, FaultMemory
<1>4. RequestTypes' /\ TableTypes' /\ StoryTypes' /\ MarkTypes'
  BY <1>0, <1>1, StayRequests, StayTable, StayStory, StayMarks, AcksAndOverlaps DEF MarkTypes
<1> QED BY <1>2, <1>3, <1>4 DEF ProfileTypes

LEMMA StorePushTypes ==
  ASSUME ProfileFit, ProfileTypes, NEW t \in storing, Pr!StorePush(t)
  PROVE  ProfileTypes'
<1>0. WalkTypes /\ MemoryTypes /\ RequestTypes /\ TableTypes /\ StoryTypes /\ MarkTypes /\ SpokenTypes
  BY DEF ProfileTypes, WalkTypes
<1> DEFINE r == [kind |-> "chat", w |-> t.w, m |-> t.item, fields |-> Pr!Unset]
<1>1. /\ UNCHANGED <<script, spoken, at, msg, got, consent, wizard, greeted, profile, recall, table, chats, finished, settled,
                     refetched, acked, overlapped, undone, profileFaults>>
      /\ storing' = (storing \ {t}) \cup {[t EXCEPT !.pushed = TRUE]} /\ requests' = Append(requests, r)
  BY DEF Pr!StorePush, Pr!talk, Pr!memory, Pr!caches, Pr!stores, Pr!ghosts, Pr!story
<1>2. t \in [w : Answerers, item : 1..spoken, pushed : BOOLEAN]
  BY <1>0 DEF StoryTypes
<1>3. r \in RequestType(script, spoken) /\ r.kind = "chat"
  BY <1>0, <1>2, UnsetKnown DEF RequestType, KnownFields, Pr!Requests, Pr!Reads
<1>4. RequestTypes'
  <2> HIDE DEF r
  <2> QED BY <1>0, <1>1, <1>3, AddsRequest
<1>5. StoryTypes'
  <2>1. [t EXCEPT !.pushed = TRUE] \in [w : Answerers, item : 1..spoken, pushed : BOOLEAN]
    BY <1>2
  <2> QED BY <1>0, <1>1, <2>1 DEF StoryTypes
<1>6. WalkTypes' /\ MemoryTypes' /\ TableTypes' /\ MarkTypes'
  BY <1>0, <1>1, StayWalk, StayMemory, StayTable, StayMarks DEF MarkTypes
<1> QED BY <1>4, <1>5, <1>6 DEF ProfileTypes

LEMMA StoreDeleteTypes ==
  ASSUME ProfileFit, ProfileTypes, NEW t \in storing, Pr!StoreDelete(t)
  PROVE  ProfileTypes'
<1>0. WalkTypes /\ MemoryTypes /\ RequestTypes /\ TableTypes /\ StoryTypes /\ MarkTypes /\ SpokenTypes
  BY DEF ProfileTypes, WalkTypes
<1>1. /\ UNCHANGED <<script, spoken, at, msg, got, consent, wizard, greeted, profile, requests, table, chats, settled,
                     acked, overlapped, undone, profileFaults>>
      /\ storing' = storing \ {t} /\ recall' = Pr!Nothing /\ finished' = finished \cup {t.item}
      /\ refetched' \subseteq refetched \cup {t.item}
  BY DEF Pr!StoreDelete, Pr!talk, Pr!memory, Pr!caches, Pr!stores, Pr!ghosts, Pr!story
<1>2. t \in [w : Answerers, item : 1..spoken, pushed : BOOLEAN]
  BY <1>0 DEF StoryTypes
<1>5. StoryTypes'
  BY <1>0, <1>1, <1>2 DEF StoryTypes
<1>6. WalkTypes' /\ MemoryTypes' /\ TableTypes' /\ MarkTypes' /\ RequestTypes'
  BY <1>0, <1>1, StayWalk, StayMemory, StayTable, StayMarks, StayRequests DEF MarkTypes
<1> QED BY <1>5, <1>6 DEF ProfileTypes

LEMMA ExpiresTypes ==
  ASSUME ProfileFit, ProfileTypes, Pr!Expires
  PROVE  ProfileTypes'
<1>0. WalkTypes /\ MemoryTypes /\ RequestTypes /\ TableTypes /\ StoryTypes /\ MarkTypes /\ SpokenTypes
  BY DEF ProfileTypes, WalkTypes
<1>1. /\ UNCHANGED <<script, spoken, at, msg, got, consent, greeted, requests, table, chats, storing, finished, settled,
                     refetched, acked, overlapped, undone>> /\ Pr!Fault
      /\ wizard' \in {wizard, "none"} /\ profile' \in {profile, Pr!Nothing} /\ recall' \in {recall, Pr!Nothing}
  BY DEF Pr!Expires, Pr!talk, Pr!stores, Pr!ghosts, Pr!story
<1>2. MemoryTypes'
  BY <1>0, <1>1, ProfileConstants DEF MemoryTypes, Pr!Fault, Pr!Phases
<1>6. WalkTypes' /\ TableTypes' /\ MarkTypes' /\ RequestTypes' /\ StoryTypes'
  BY <1>0, <1>1, StayWalk, StayTable, StayMarks, StayRequests, StayStory DEF MarkTypes, StoryTypes
<1> QED BY <1>2, <1>6 DEF ProfileTypes

LEMMA KnownNumbers ==
  ASSUME NEW b \in KnownFields, NEW f \in Edits
  PROVE  b[f] \in (1..spoken) \cup {0, Len(script.says) + 1}
BY DEF KnownFields, ToldFields, Edits

\* What the first request is.
LEMMA FirstRequest ==
  ASSUME ProfileTypes, requests # <<>>, requests' = Tail(requests), UNCHANGED <<script, spoken>>
  PROVE  /\ RequestTypes'
         /\ Head(requests) \in RequestType(script, spoken) /\ Head(requests).w \in Answerers
         /\ Head(requests).m \in 1..spoken /\ Head(requests).fields \in KnownFields
         /\ Head(requests).kind \in Pr!Requests
BY DropsRequest DEF ProfileTypes, WalkTypes, RequestType, KnownFields

LEMMA HandleTypes ==
  ASSUME ProfileFit, ProfileTypes, Pr!Handle
  PROVE  ProfileTypes'
<1>0. WalkTypes /\ MemoryTypes /\ RequestTypes /\ TableTypes /\ StoryTypes /\ MarkTypes /\ SpokenTypes
  BY DEF ProfileTypes, WalkTypes
<1> DEFINE r == Head(requests)
<1>1. /\ UNCHANGED <<script, spoken, msg, consent, wizard, greeted, profile, recall, storing, finished, settled,
                     refetched, acked, profileFaults>>
      /\ requests # <<>> /\ requests' = Tail(requests)
      /\ \/ Pr!HandleGetUserPreference(r) \/ Pr!HandleGetChatHistory(r) \/ Pr!HandlePutUserPreference(r)
         \/ Pr!HandlePutChatMessage(r)
  BY DEF Pr!Handle, Pr!talk, Pr!memory, Pr!caches, Pr!story
<1>2. RequestTypes' /\ r.w \in Answerers /\ r.m \in 1..spoken /\ r.fields \in KnownFields
  BY <1>1, FirstRequest
<1>3. table.fields \in KnownFields /\ table.done \in BOOLEAN /\ chats \in SUBSET (1..spoken)
  BY <1>0 DEF TableTypes
<1> HIDE DEF r
<1>4. WalkTypes'
  <2>1. CASE UNCHANGED <<at, got>>
    BY <1>0, <1>1, <2>1, StayWalk
  <2>2. CASE Pr!HandleGetUserPreference(r) /\ Pr!Awaits(r)
    <3>1. Pr!Told(r.w, table.fields, table.done, {}) /\ at[r.w] \in {"probe", "editProbe", "history"}
      BY <2>2 DEF Pr!HandleGetUserPreference, Pr!GetUserPreference, Pr!Awaits
    <3>2. {} \in SUBSET (1..spoken)
      OBVIOUS
    <3> QED BY <1>1, <1>2, <1>3, <3>1, <3>2, ToldTypes
  <2>3. CASE Pr!HandleGetChatHistory(r) /\ Pr!Awaits(r)
    <3>1. Pr!Told(r.w, Pr!Unset, FALSE, chats) /\ at[r.w] \in {"probe", "editProbe", "history"}
      BY <2>3 DEF Pr!HandleGetChatHistory, Pr!GetChatHistory, Pr!Awaits
    <3> QED BY <1>0, <1>1, <1>2, <1>3, <3>1, UnsetKnown, ToldTypes
  <2>4. (Pr!HandleGetUserPreference(r) /\ Pr!Awaits(r)) \/ (Pr!HandleGetChatHistory(r) /\ Pr!Awaits(r)) \/ UNCHANGED <<at, got>>
    BY <1>1 DEF Pr!HandleGetUserPreference, Pr!HandleGetChatHistory, Pr!HandlePutUserPreference,
       Pr!HandlePutChatMessage
  <2> QED BY <2>1, <2>2, <2>3, <2>4
<1>5. chats' \subseteq 1..spoken /\ overlapped' \subseteq 1..spoken
  BY <1>0, <1>1, <1>2, <1>3 DEF MarkTypes, Pr!HandleGetUserPreference, Pr!HandleGetChatHistory,
     Pr!HandlePutUserPreference, Pr!HandlePutChatMessage, Pr!stores
<1>6. table' \in [done : BOOLEAN, fields : KnownFields]
  <2>1. table \in [done : BOOLEAN, fields : KnownFields]
    BY <1>0 DEF TableTypes
  <2>2. table' = table \/ table' = [done |-> TRUE, fields |-> table.fields] \/ table' = [done |-> TRUE, fields |-> r.fields]
    BY <1>1 DEF Pr!HandleGetUserPreference, Pr!HandleGetChatHistory, Pr!PutUserPreference,
       Pr!HandlePutUserPreference, Pr!HandlePutChatMessage, Pr!stores
  <2>3. [done |-> TRUE, fields |-> table.fields] \in [done : BOOLEAN, fields : KnownFields]
    BY <1>3
  <2>4. [done |-> TRUE, fields |-> r.fields] \in [done : BOOLEAN, fields : KnownFields]
    BY <1>2
  <2> QED BY <2>1, <2>2, <2>3, <2>4
<1>7. undone' \subseteq (1..spoken) \cup {0, Len(script.says) + 1}
  <2>1. undone' = undone \/ \E S \in SUBSET Edits : undone' = undone \cup {table.fields[f] : f \in S}
    <3>1. undone' = undone \/ undone' = undone \cup {table.fields[f] : f \in {f \in Pr!Edits :
                                 f # Pr!Says[r.m] /\ table'.fields[f] # table.fields[f]}}
      BY <1>1 DEF Pr!HandleGetUserPreference, Pr!HandleGetChatHistory,
         Pr!HandlePutUserPreference, Pr!HandlePutChatMessage, Pr!stores
    <3>2. {f \in Pr!Edits : f # Pr!Says[r.m] /\ table'.fields[f] # table.fields[f]} \in SUBSET Edits
      BY DEF Pr!Edits, Edits
    <3> QED BY <3>1, <3>2
  <2>2. ASSUME NEW S \in SUBSET Edits PROVE {table.fields[f] : f \in S} \subseteq (1..spoken) \cup {0, Len(script.says) + 1}
    BY <1>3, KnownNumbers
  <2> QED BY <1>0, <2>1, <2>2 DEF MarkTypes
<1>8. TableTypes' /\ StoryTypes' /\ MarkTypes' /\ MemoryTypes'
  BY <1>0, <1>1, <1>5, <1>6, <1>7, StayMemory DEF TableTypes, StoryTypes, MarkTypes, KnownFields
<1> QED BY <1>2, <1>4, <1>8 DEF ProfileTypes

LEMMA HandleFailsTypes ==
  ASSUME ProfileFit, ProfileTypes, Pr!HandleFails
  PROVE  ProfileTypes'
<1>0. WalkTypes /\ MemoryTypes /\ RequestTypes /\ TableTypes /\ StoryTypes /\ MarkTypes /\ SpokenTypes
  BY DEF ProfileTypes, WalkTypes
<1> DEFINE r == Head(requests)
<1>1. /\ UNCHANGED <<script, spoken, msg, consent, wizard, greeted, profile, recall, storing, finished,
                     table, chats, acked, undone>>
      /\ requests # <<>> /\ requests' = Tail(requests) /\ Pr!Fault
      /\ UNCHANGED <<at, got>> \/ (Pr!Awaits(r) /\ r.kind \in Pr!Reads /\ Pr!Told(r.w, Pr!Unset, FALSE, {}))
      /\ settled' = settled \/ settled' = [settled EXCEPT ![r.w] = {}]
      /\ refetched' \subseteq refetched \cup finished \cup {r.m}
      /\ overlapped' \subseteq overlapped \cup {r.m}
  BY DEF Pr!HandleFails, Pr!talk, Pr!memory, Pr!caches, Pr!stores
<1>2. RequestTypes' /\ r.w \in Answerers /\ r.m \in 1..spoken
  BY <1>1, FirstRequest
<1> HIDE DEF r
<1>4. WalkTypes'
  <2>1. CASE UNCHANGED <<at, got>>
    BY <1>0, <1>1, <2>1, StayWalk
  <2>2. CASE Pr!Awaits(r) /\ Pr!Told(r.w, Pr!Unset, FALSE, {})
    <3>1. at[r.w] \in {"probe", "editProbe", "history"} /\ {} \in SUBSET (1..spoken)
      BY <2>2 DEF Pr!Awaits
    <3> QED BY <1>0, <1>1, <1>2, <2>2, <3>1, UnsetKnown, ToldTypes
  <2> QED BY <1>1, <2>1, <2>2
<1>5. StoryTypes' /\ MarkTypes'
  BY <1>0, <1>1, <1>2 DEF StoryTypes, MarkTypes
<1>6. MemoryTypes' /\ TableTypes'
  BY <1>0, <1>1, FaultMemory, StayTable
<1> QED BY <1>2, <1>4, <1>5, <1>6 DEF ProfileTypes

LEMMA ProfileTypesInit == ASSUME ProfileFit, Pr!Init PROVE ProfileTypes
<1>1. SpokenTypes
  BY DEF ProfileFit, Pr!ConstantAssumption, Pr!Init, SpokenTypes, Pr!Places
<1>a. /\ script.consent \in Pr!Statuses /\ script.wizard \in Pr!Phases /\ script.faults \in Nat
      /\ script.greeted \in BOOLEAN /\ script.known \in BOOLEAN
  <2>1. script \in Sayings
    BY <1>1 DEF SpokenTypes
  <2>2. {script.greeted, script.known, script.cached} \subseteq BOOLEAN
    BY <2>1, Zenon DEF ProfileFit, Pr!ConstantAssumption
  <2>3. script.greeted \in BOOLEAN /\ script.known \in BOOLEAN
    BY <2>2, Zenon
  <2> QED BY <2>1, <2>3 DEF ProfileFit, Pr!ConstantAssumption
<1>2. WalkTypes /\ MemoryTypes /\ StoryTypes /\ MarkTypes
  <2>1. OwnMessage
    BY DEF Pr!Init, OwnMessage, EditPlaces
  <2>2. ReadTypes
    <3>1. got = [w \in Answerers |-> Pr!Nothing] /\ \A w \in Answerers : at[w] = "idle"
      BY DEF Pr!Init
    <3> QED BY <3>1 DEF ReadTypes
  <2>3. MemoryTypes
    BY <1>a DEF Pr!Init, MemoryTypes
  <2>4. spoken = 0 /\ Len(script.says) \in Nat
    BY <1>1, ProfileConstants DEF Pr!Init
  <2>5. StoryTypes /\ MarkTypes
    BY <2>4 DEF Pr!Init, StoryTypes, MarkTypes
  <2> QED BY <1>1, <2>1, <2>2, <2>3, <2>5 DEF WalkTypes
<1>3. RequestTypes
  BY DEF Pr!Init, RequestTypes
<1>4. TableTypes
  <2>1. Pr!Unset \in KnownFields /\ Len(script.says) \in Nat
    BY <1>1, UnsetKnown, ProfileConstants
  <2>2. [depth |-> Len(script.says) + 1, domain |-> Len(script.says) + 1] \in KnownFields
    BY <2>1 DEF KnownFields, ToldFields, Edits
  <2>3. table \in [done : BOOLEAN, fields : KnownFields]
    <3> DEFINE b == IF script.known THEN [depth |-> Len(script.says) + 1, domain |-> Len(script.says) + 1] ELSE Pr!Unset
    <3>1. table = [done |-> script.known, fields |-> b]
      BY DEF Pr!Init, Pr!Old, Pr!Says
    <3>2. b \in KnownFields
      BY <2>1, <2>2
    <3> HIDE DEF b
    <3> QED BY <1>a, <3>1, <3>2
  <2> QED BY <2>3 DEF Pr!Init, TableTypes, Pr!Cached, Pr!Nothing
<1> QED BY <1>1, <1>2, <1>3, <1>4 DEF ProfileTypes

\* Where a sub-agent goes without reading or sending anything.
Plain == {"wizard", "answer", "store", "clear", "greeting", "activate", "limit", "edit", "chat", "bust"}
StaysAt(x) == at'[x] = at[x] /\ msg'[x] = msg[x] /\ got'[x] = got[x] /\ settled'[x] = settled[x]
Stops(x) == at'[x] = "idle" /\ msg'[x] = 0 /\ settled'[x] = {}
Walks(x) ==
  /\ msg'[x] = msg[x] /\ settled'[x] = settled[x]
  /\ at[x] \in Before \ {"cache"} /\ at'[x] \in Plain
  /\ at'[x] \in {"wizard", "limit", "edit"} => at[x] \in {"reply", "wizard", "limit"} \/ Says(msg[x]) \notin Edits
  /\ at'[x] = "edit" => \A y \in Answerers \ {x} : Editor(y) => {msg[x], msg[y]} \subseteq overlapped'
Alone(w) == \A x \in Answerers \ {w} : StaysAt(x)
Hushed ==
  /\ UNCHANGED <<script, spoken, requests, table, chats, finished, refetched, acked, undone>>
  /\ overlapped \subseteq overlapped' /\ storing' \subseteq storing
  /\ profile' \in {profile, Pr!Nothing} /\ recall' \in {recall, Pr!Nothing}
  /\ \/ \A x \in Answerers : StaysAt(x)
     \/ \E w \in Answerers : Alone(w) /\ (Stops(w) \/ Walks(w))

LEMMA DoneStops ==
  ASSUME ProfileTypes, NEW w \in Answerers, Pr!Done(w)
  PROVE  Alone(w) /\ Stops(w)
<1>1. /\ at' = [at EXCEPT ![w] = "idle"] /\ msg' = [msg EXCEPT ![w] = 0]
      /\ got' = [got EXCEPT ![w] = Pr!Nothing] /\ settled' = [settled EXCEPT ![w] = {}]
  BY DEF Pr!Done, Pr!Goes, Pr!Keeps
<1> QED BY <1>1 DEF ProfileTypes, WalkTypes, SpokenTypes, ReadTypes, StoryTypes, Alone, StaysAt, Stops

LEMMA GoesAlone ==
  ASSUME ProfileTypes, NEW w \in Answerers, NEW p, Pr!Goes(w, p), UNCHANGED <<msg, settled>>,
         got' = got \/ \E x : Pr!Keeps(w, x)
  PROVE  Alone(w) /\ at'[w] = p
<1>1. at' = [at EXCEPT ![w] = p]
  BY DEF Pr!Goes
<1> QED BY <1>1 DEF ProfileTypes, WalkTypes, SpokenTypes, ReadTypes, StoryTypes, Alone, StaysAt, Pr!Keeps

LEMMA AsksQuiet == ASSUME ProfileTypes, NEW w \in Answerers, Pr!Asks(w) PROVE Hushed
<1>1. /\ UNCHANGED <<script, spoken, requests, table, chats, finished, refetched, acked, undone>>
      /\ overlapped \subseteq overlapped' /\ storing' \subseteq storing
      /\ profile' \in {profile, Pr!Nothing} /\ recall' \in {recall, Pr!Nothing} /\ Pr!Done(w)
  BY DEF Pr!Asks, Pr!talk, Pr!memory, Pr!caches, Pr!stores, Pr!story, Pr!ghosts
<1> QED BY <1>1, DoneStops DEF Hushed

LEMMA ClearStateQuiet == ASSUME ProfileTypes, NEW w \in Answerers, Pr!ClearState(w) PROVE Hushed
<1>1. /\ UNCHANGED <<script, spoken, requests, table, chats, finished, refetched, acked, undone>>
      /\ overlapped \subseteq overlapped' /\ storing' \subseteq storing
      /\ profile' \in {profile, Pr!Nothing} /\ recall' \in {recall, Pr!Nothing} /\ Pr!Done(w)
  BY DEF Pr!ClearState, Pr!talk, Pr!memory, Pr!caches, Pr!stores, Pr!story, Pr!ghosts
<1> QED BY <1>1, DoneStops DEF Hushed

LEMMA ActivatesQuiet == ASSUME ProfileTypes, NEW w \in Answerers, Pr!Activates(w) PROVE Hushed
<1>1. /\ UNCHANGED <<script, spoken, requests, table, chats, finished, refetched, acked, undone>>
      /\ overlapped \subseteq overlapped' /\ storing' \subseteq storing
      /\ profile' \in {profile, Pr!Nothing} /\ recall' \in {recall, Pr!Nothing} /\ Pr!Done(w)
  BY DEF Pr!Activates, Pr!talk, Pr!memory, Pr!caches, Pr!stores, Pr!story, Pr!ghosts
<1> QED BY <1>1, DoneStops DEF Hushed

LEMMA RefusedQuiet == ASSUME ProfileTypes, NEW w \in Answerers, Pr!Refused(w) PROVE Hushed
<1>1. /\ UNCHANGED <<script, spoken, requests, table, chats, finished, refetched, acked, undone>>
      /\ overlapped \subseteq overlapped' /\ storing' \subseteq storing
      /\ profile' \in {profile, Pr!Nothing} /\ recall' \in {recall, Pr!Nothing} /\ Pr!Done(w)
  BY DEF Pr!Refused, Pr!talk, Pr!memory, Pr!caches, Pr!stores, Pr!story, Pr!ghosts
<1> QED BY <1>1, DoneStops DEF Hushed

LEMMA PutFailsQuiet == ASSUME ProfileTypes, NEW w \in Answerers, Pr!PutFails(w) PROVE Hushed
<1>1. /\ UNCHANGED <<script, spoken, requests, table, chats, finished, refetched, acked, undone>>
      /\ overlapped \subseteq overlapped' /\ storing' \subseteq storing
      /\ profile' \in {profile, Pr!Nothing} /\ recall' \in {recall, Pr!Nothing} /\ Pr!Done(w)
  BY DEF Pr!PutFails, Pr!talk, Pr!memory, Pr!caches, Pr!stores, Pr!story, Pr!ghosts
<1> QED BY <1>1, DoneStops DEF Hushed

LEMMA BustQuiet == ASSUME ProfileTypes, NEW w \in Answerers, Pr!Bust(w) PROVE Hushed
<1>1. /\ UNCHANGED <<script, spoken, requests, table, chats, finished, refetched, acked, undone>>
      /\ overlapped \subseteq overlapped' /\ storing' \subseteq storing
      /\ profile' \in {profile, Pr!Nothing} /\ recall' \in {recall, Pr!Nothing} /\ Pr!Done(w)
  BY DEF Pr!Bust, Pr!talk, Pr!memory, Pr!caches, Pr!stores, Pr!story, Pr!ghosts
<1> QED BY <1>1, DoneStops DEF Hushed

LEMMA DiesQuiet == ASSUME ProfileTypes, NEW w \in Answerers, Pr!Dies(w) PROVE Hushed
<1>1. /\ UNCHANGED <<script, spoken, requests, table, chats, finished, refetched, acked, undone>>
      /\ overlapped \subseteq overlapped' /\ storing' \subseteq storing
      /\ profile' \in {profile, Pr!Nothing} /\ recall' \in {recall, Pr!Nothing} /\ Pr!Done(w)
  BY DEF Pr!Dies, Pr!talk, Pr!memory, Pr!caches, Pr!stores, Pr!story, Pr!ghosts
<1> QED BY <1>1, DoneStops DEF Hushed

LEMMA ConsentsQuiet == ASSUME ProfileTypes, NEW w \in Answerers, Pr!Consents(w) PROVE Hushed
<1>0. OwnMessage
  BY DEF ProfileTypes, WalkTypes
<1>1. /\ UNCHANGED <<script, spoken, requests, table, chats, finished, refetched, acked, undone>>
      /\ overlapped \subseteq overlapped' /\ storing' \subseteq storing
      /\ profile' \in {profile, Pr!Nothing} /\ recall' \in {recall, Pr!Nothing}
      /\ UNCHANGED <<msg, settled>>
  BY DEF Pr!Consents, Pr!talk, Pr!memory, Pr!caches, Pr!stores, Pr!story, Pr!ghosts
<1>2. PICK p \in {"wizard"} : Pr!Goes(w, p) /\ (got' = got \/ \E x : Pr!Keeps(w, x))
  BY DEF Pr!Consents
<1>3. Alone(w) /\ at'[w] = p
  BY <1>1, <1>2, GoesAlone
<1>4. Walks(w)
  BY <1>0, <1>1, <1>3 DEF Walks, Plain, Before, Pr!Consents, OwnMessage, EditPlaces, Says
<1> QED BY <1>1, <1>3, <1>4 DEF Hushed

LEMMA LoadStateQuiet ==
  ASSUME ProfileTypes, NEW w \in Answerers, NEW ok \in BOOLEAN, Pr!LoadState(w, ok)
  PROVE  Hushed
<1>0. OwnMessage
  BY DEF ProfileTypes, WalkTypes
<1>1. /\ UNCHANGED <<script, spoken, requests, table, chats, finished, refetched, acked, undone>>
      /\ overlapped \subseteq overlapped' /\ storing' \subseteq storing
      /\ profile' \in {profile, Pr!Nothing} /\ recall' \in {recall, Pr!Nothing}
      /\ UNCHANGED <<msg, settled>>
  BY DEF Pr!LoadState, Pr!talk, Pr!memory, Pr!caches, Pr!stores, Pr!story, Pr!ghosts
<1>2. PICK p \in {"limit", "answer", "greeting"} : Pr!Goes(w, p) /\ (got' = got \/ \E x : Pr!Keeps(w, x))
  BY DEF Pr!LoadState
<1>3. Alone(w) /\ at'[w] = p
  BY <1>1, <1>2, GoesAlone
<1>4. Walks(w)
  BY <1>0, <1>1, <1>3 DEF Walks, Plain, Before, Pr!LoadState, OwnMessage, EditPlaces, Says
<1> QED BY <1>1, <1>3, <1>4 DEF Hushed

LEMMA MarksQuiet ==
  ASSUME ProfileTypes, NEW w \in Answerers, NEW ok \in BOOLEAN, Pr!Marks(w, ok)
  PROVE  Hushed
<1>0. OwnMessage
  BY DEF ProfileTypes, WalkTypes
<1>1. /\ UNCHANGED <<script, spoken, requests, table, chats, finished, refetched, acked, undone>>
      /\ overlapped \subseteq overlapped' /\ storing' \subseteq storing
      /\ profile' \in {profile, Pr!Nothing} /\ recall' \in {recall, Pr!Nothing}
      /\ UNCHANGED <<msg, settled>>
  BY DEF Pr!Marks, Pr!talk, Pr!memory, Pr!caches, Pr!stores, Pr!story, Pr!ghosts
<1>2. PICK p \in {"activate", "limit"} : Pr!Goes(w, p) /\ (got' = got \/ \E x : Pr!Keeps(w, x))
  BY DEF Pr!Marks
<1>3. Alone(w) /\ at'[w] = p
  BY <1>1, <1>2, GoesAlone
<1>4. Walks(w)
  BY <1>0, <1>1, <1>3 DEF Walks, Plain, Before, Pr!Marks, OwnMessage, EditPlaces, Says
<1> QED BY <1>1, <1>3, <1>4 DEF Hushed

LEMMA AnswersQuiet == ASSUME ProfileTypes, NEW w \in Answerers, Pr!Answers(w) PROVE Hushed
<1>1. /\ UNCHANGED <<script, spoken, requests, table, chats, finished, refetched, acked, undone, overlapped, storing, profile, recall>>
      /\ at[w] = "answer"
      /\ (Pr!Goes(w, "store") /\ UNCHANGED <<msg, settled, got>>) \/ Pr!Done(w)
  BY DEF Pr!Answers, Pr!talk, Pr!memory, Pr!caches, Pr!stores, Pr!story, Pr!ghosts
<1>2. CASE Pr!Goes(w, "store") /\ UNCHANGED <<msg, settled, got>>
  <2>1. Alone(w) /\ at'[w] = "store"
    BY <1>2, GoesAlone
  <2>2. Walks(w)
    BY <1>1, <1>2, <2>1 DEF Walks, Plain, Before
  <2> QED BY <1>1, <2>1, <2>2 DEF Hushed
<1>3. CASE Pr!Done(w)
  BY <1>1, <1>3, DoneStops DEF Hushed
<1> QED BY <1>1, <1>2, <1>3

LEMMA AllowedQuiet == ASSUME ProfileTypes, NEW w \in Answerers, Pr!Allowed(w) PROVE Hushed
<1>1. /\ UNCHANGED <<script, spoken, requests, table, chats, finished, refetched, acked, undone>>
      /\ overlapped \subseteq overlapped' /\ storing' \subseteq storing
      /\ profile' \in {profile, Pr!Nothing} /\ recall' \in {recall, Pr!Nothing}
      /\ UNCHANGED <<msg, settled>> /\ at[w] = "limit"
  BY DEF Pr!Allowed, Pr!talk, Pr!memory, Pr!caches, Pr!stores, Pr!story, Pr!ghosts
<1>2. PICK p \in {"edit", "bust", "chat"} : Pr!Goes(w, p) /\ got' = got /\ (p = "edit" => Says(msg[w]) \in Edits)
  BY DEF Pr!Allowed, Says, Pr!Said, Pr!Says, Edits, Pr!Edits
<1>3. Alone(w) /\ at'[w] = p
  BY <1>1, <1>2, GoesAlone
<1>4. ASSUME NEW y \in Answerers \ {w}, Editor(y), p = "edit" PROVE {msg[w], msg[y]} \subseteq overlapped'
  <2>1. y \in Pr!Editing
    BY <1>4 DEF Pr!Editing, Editor, EditPlaces
  <2>2. overlapped' = overlapped \cup {msg[w]} \cup {msg[v] : v \in Pr!Editing}
    BY <1>2, <1>4, <2>1 DEF Pr!Allowed, Says, Pr!Said, Pr!Says, Edits, Pr!Edits
  <2> QED BY <2>1, <2>2
<1>5. Walks(w)
  BY <1>1, <1>2, <1>3, <1>4 DEF Walks, Plain, Before
<1> QED BY <1>1, <1>3, <1>5 DEF Hushed

LEMMA ExpiresQuiet == ASSUME ProfileTypes, Pr!Expires PROVE Hushed
BY DEF Pr!Expires, Pr!talk, Pr!memory, Pr!caches, Pr!stores, Pr!story, Pr!ghosts, Hushed, StaysAt

LEMMA StutterQuiet == ASSUME UNCHANGED Pr!vars PROVE Hushed
BY DEF Pr!vars, Hushed, StaysAt, Pr!talk, Pr!memory, Pr!caches, Pr!stores, Pr!story, Pr!ghosts

(***************************************************************************)
(* Profile: edits.                                                         *)
(***************************************************************************)
\* What is said of a message in hand.
Awake(x) == at[x] \notin {"idle", "cache"}
Bides(x) == at'[x] = at[x] /\ msg'[x] = msg[x] /\ got'[x] = got[x]
Passes(x) ==
  /\ msg'[x] = msg[x] /\ Awake(x) /\ at'[x] \notin {"idle", "editProbe", "put", "cache"}
  /\ at'[x] \in {"reply", "wizard", "limit", "edit"} =>
       at[x] \in {"reply", "wizard", "limit", "edit"} \/ Says(msg[x]) \notin Edits
  /\ at'[x] = "edit" /\ at[x] # "edit" =>
       \A y \in Answerers \ {x} : Bides(y) /\ (Editor(y) => {msg[x], msg[y]} \subseteq overlapped')
\* Nothing is sent, or something that is no edit and no edit waits for.
Sends == \E r : /\ requests' = Append(requests, r) /\ r.kind # "edit"
                /\ r.kind = "preferences" => Says(r.m) \notin Edits
EditsRest ==
  /\ UNCHANGED <<script, spoken, table, undone>>
  /\ acked' \ overlapped' \subseteq acked /\ overlapped \subseteq overlapped' /\ profile' \in {profile, Pr!Nothing}
  /\ requests' = requests \/ Sends
  /\ \A x \in Answerers : Bides(x) \/ at'[x] = "idle" \/ Passes(x)

LEMMA RequestsLength == ASSUME ProfileTypes
  PROVE  /\ Len(requests) \in Nat /\ \A i \in 1..Len(requests) : requests[i].w \in Answerers /\ requests[i].m \in 1..spoken
         /\ \A i \in 1..Len(requests) : requests[i].fields \in KnownFields
<1>1. requests \in Seq(RequestType(script, spoken))
  BY DEF ProfileTypes, RequestTypes
<1>2. Len(requests) \in Nat /\ \A i \in 1..Len(requests) : requests[i] \in RequestType(script, spoken)
  BY <1>1
<1> QED BY <1>2 DEF RequestType, KnownFields

\* A sequence that grows at its end.
LEMMA GrowsAtEnd == ASSUME ProfileTypes, NEW r, requests' = Append(requests, r)
  PROVE  /\ Len(requests') = Len(requests) + 1 /\ requests'[Len(requests) + 1] = r
         /\ \A i \in 1..Len(requests) : requests'[i] = requests[i]
<1>1. requests \in Seq(RequestType(script, spoken))
  BY DEF ProfileTypes, RequestTypes
<1> QED BY <1>1

\* Nobody begins to wait for an old request.
NoNewReading ==
  \A i \in 1..Len(requests) :
    LET r == requests[i] IN r.kind = "preferences" /\ at'[r.w] = "editProbe" /\ msg'[r.w] = r.m => Reading(r)

LEMMA MovesSet ==
  ASSUME ProfileTypes, NEW v, NEW k, SetAt(v, k), UNCHANGED <<script, table>>, NoNewReading,
         \/ requests' = requests
         \/ \E r : requests' = Append(requests, r) /\ (r.kind = "edit" => Kept(v, r.fields))
  PROVE  SetAt(v, k)'
<1>1. Len(requests) \in Nat
  BY RequestsLength
<1>2. CASE requests' = requests
  BY <1>2 DEF SetAt, Edit, Kept, Says, Reading, NoNewReading
<1>3. ASSUME NEW r, requests' = Append(requests, r), r.kind = "edit" => Kept(v, r.fields)
      PROVE  SetAt(v, k)'
  <2>1. /\ Len(requests') = Len(requests) + 1 /\ requests'[Len(requests) + 1] = r
        /\ \A i \in 1..Len(requests) : requests'[i] = requests[i]
    BY <1>3, GrowsAtEnd
  <2>2. k \in 0..Len(requests') /\ (k # 0 => requests'[k] = requests[k])
    BY <1>1, <2>1 DEF SetAt
  <2>3. /\ k = 0 => table'.fields[Says(v)'] = v /\ table'.done
        /\ k # 0 => Edit(k)' /\ requests'[k].m = v /\ table'.fields[Says(v)'] # v
    BY <1>1, <2>2 DEF SetAt, Edit, Says
  <2>4. ASSUME NEW i \in 1..Len(requests')
        PROVE  /\ i < k /\ Edit(i)' => requests'[i].fields[Says(v)'] # v
               /\ i > k /\ Edit(i)' => Kept(v, requests[i].fields)'
               /\ Reading(requests[i])' => i > k
    <3>1. CASE i = Len(requests) + 1
      <4>1. i > k
        BY <1>1, <3>1 DEF SetAt
      <4>2. Edit(i)' => Kept(v, requests[i].fields)'
        BY <1>3, <2>1, <3>1 DEF Edit, Kept, Says
      <4> QED BY <1>1, <3>1, <4>1, <4>2 DEF SetAt
    <3>2. CASE i \in 1..Len(requests)
      BY <2>1, <3>2 DEF SetAt, Edit, Kept, Says, Reading, NoNewReading
    <3> QED BY <1>1, <2>1, <3>1, <3>2
  <2> QED BY <2>2, <2>3, <2>4 DEF SetAt
<1> QED BY <1>2, <1>3

LEMMA KeepsPut ==
  ASSUME ProfileTypes, PutInv, UNCHANGED <<script, spoken, table, undone>>, NoNewReading,
         requests' = requests \/ Sends,
         \A v \in 1..spoken : Put(v)' => Put(v)
  PROVE  PutInv'
<1> SUFFICES ASSUME NEW v \in 1..spoken, Put(v)
             PROVE  Says(v)' \in Edits /\ v \notin undone' /\ \E k \in 0..Len(requests)' : SetAt(v, k)'
  BY DEF PutInv
<1>1. PICK k \in 0..Len(requests) : SetAt(v, k)
  BY DEF PutInv
<1>2. SetAt(v, k)'
  BY <1>1, MovesSet DEF Sends
<1>3. k \in 0..Len(requests)'
  BY <1>2 DEF SetAt
<1> QED BY <1>2, <1>3 DEF PutInv, Says

LEMMA RestApart == ASSUME ProfileTypes, Apart, EditsRest PROVE Apart'
<1> SUFFICES ASSUME NEW w \in Answerers, NEW x \in Answerers, at'[w] \in EditPlaces, at'[x] \in EditPlaces,
                    w # x
             PROVE  msg'[w] \in overlapped'
  BY DEF Apart, Editor
<1>1. overlapped \subseteq overlapped'
  BY DEF EditsRest
<1>2. (Bides(w) \/ Passes(w)) /\ (Bides(x) \/ Passes(x))
  BY DEF EditsRest, EditPlaces
<1>3. (Editor(w) \/ at'[w] = "edit") /\ (Editor(x) \/ at'[x] = "edit") /\ msg'[w] = msg[w]
  BY <1>2 DEF Bides, Passes, Editor, EditPlaces
<1>4. CASE Editor(w) /\ Editor(x)
  BY <1>1, <1>3, <1>4 DEF Apart
<1>5. CASE ~Editor(w)
  <2>1. at'[w] = "edit" /\ at[w] # "edit" /\ Passes(w)
    BY <1>2, <1>3, <1>5 DEF Editor, EditPlaces, Bides
  <2>2. Bides(x) /\ (Editor(x) => msg[w] \in overlapped')
    BY <2>1 DEF Passes
  <2>3. Editor(x)
    BY <2>2 DEF Bides, Editor
  <2> QED BY <1>3, <2>2, <2>3
<1>6. CASE ~Editor(x)
  <2>1. at'[x] = "edit" /\ at[x] # "edit" /\ Passes(x)
    BY <1>2, <1>3, <1>6 DEF Editor, EditPlaces, Bides
  <2>2. Bides(w) /\ (Editor(w) => msg[w] \in overlapped')
    BY <2>1 DEF Passes
  <2>3. Editor(w)
    BY <2>2 DEF Bides, Editor
  <2> QED BY <1>3, <2>2, <2>3
<1> QED BY <1>4, <1>5, <1>6

LEMMA RestReading == ASSUME ProfileTypes, EditsRest PROVE NoNewReading
<1>1. \A x \in Answerers : at'[x] = "editProbe" => at[x] = "editProbe" /\ msg'[x] = msg[x]
  BY DEF EditsRest, Bides, Passes
<1> QED BY <1>1, RequestsLength DEF NoNewReading, Reading

LEMMA RestPut == ASSUME ProfileTypes, PutInv, EditsRest PROVE PutInv'
<1>1. \A x \in Answerers : at'[x] = "cache" => at[x] = "cache" /\ msg'[x] = msg[x]
  BY DEF EditsRest, Bides, Passes
<1>2. \A v \in 1..spoken : Put(v)' => Put(v)
  BY <1>1 DEF Put, EditsRest
<1> QED BY <1>2, RestReading, KeepsPut DEF EditsRest

LEMMA RestAcked == ASSUME ProfileTypes, AckedInv, EditsRest PROVE AckedInv'
<1>1. \A x \in Answerers : at'[x] \in {"put", "cache"} => Bides(x)
  BY DEF EditsRest, Passes
<1>2. ASSUME NEW v \in 1..spoken, Acked(v)'
      PROVE  /\ profile'.at = "cached" => Kept(v, profile.it)'
             /\ \A w \in Answerers :
                  /\ at'[w] \in {"put", "cache"} /\ Says(msg[w])' # Says(v)' => Kept(v, got[w].fields)'
                  /\ at'[w] = "cache" => Says(msg[w])' # Says(v)'
  <2>1. Acked(v) /\ script' = script /\ profile' \in {profile, Pr!Nothing}
    BY <1>2 DEF Acked, EditsRest
  <2> QED BY <1>1, <2>1 DEF AckedInv, Bides, Says, Kept, Pr!Nothing
<1> QED BY <1>2 DEF AckedInv, EditsRest

LEMMA RestNew == ASSUME ProfileTypes, NewInv, EditsRest PROVE NewInv'
<1>0. UNCHANGED <<script, table, undone>> /\ profile' \in {profile, Pr!Nothing}
  BY DEF EditsRest
<1>1. \A x \in Answerers : at'[x] \in {"put", "cache"} => Bides(x)
  BY DEF EditsRest, Passes
<1>2. \A x \in Answerers : at'[x] \notin {"idle", "cache"} => Awake(x) /\ msg'[x] = msg[x]
  BY DEF EditsRest, Passes, Bides, Awake
<1> SUFFICES ASSUME NEW w \in Answerers, at'[w] \notin {"idle", "cache"}
      PROVE  /\ profile'.at = "cached" => Without(msg[w], profile'.it)
             /\ \A x \in Answerers \ {w} : at'[x] \in {"put", "cache"} => Without(msg[w], got'[x].fields)
             /\ Without(msg[w], table.fields) /\ msg[w] \notin undone
             /\ \A i \in 1..Len(requests') : requests'[i].kind = "edit" => Without(msg[w], requests'[i].fields)
  BY <1>0, <1>2 DEF NewInv, Edit, Without
<1>3. Awake(w) /\ msg'[w] = msg[w]
  BY <1>2
<1>4. \A i \in 1..Len(requests) : requests[i].kind = "edit" => Without(msg[w], requests[i].fields)
  BY <1>3 DEF NewInv, Awake, Edit
<1>5. \A i \in 1..Len(requests') : requests'[i].kind = "edit" => Without(msg[w], requests'[i].fields)
  <2>1. CASE requests' = requests
    BY <1>4, <2>1
  <2>2. ASSUME NEW r, requests' = Append(requests, r), r.kind # "edit"
        PROVE  \A i \in 1..Len(requests') : requests'[i].kind = "edit" => Without(msg[w], requests'[i].fields)
    BY <1>4, <2>2, GrowsAtEnd, RequestsLength
  <2> QED BY <2>1, <2>2 DEF EditsRest, Sends
<1> QED BY <1>0, <1>1, <1>3, <1>5 DEF NewInv, Awake, Bides, Pr!Nothing

LEMMA RestProbe == ASSUME ProfileTypes, ProbeInv, EditsRest PROVE ProbeInv'
<1> SUFFICES ASSUME NEW w \in Answerers, at'[w] \in {"reply", "wizard", "limit", "edit"},
                    NEW i \in 1..Len(requests'), requests'[i].kind = "preferences", requests'[i].w = w,
                    requests'[i].m = msg'[w], Says(msg[w])' \in Edits
             PROVE  FALSE
  BY DEF ProbeInv
<1>1. script' = script /\ msg'[w] = msg[w] /\ at[w] \in {"reply", "wizard", "limit", "edit"}
  BY DEF EditsRest, Bides, Passes, Says
<1>2. ~(i \in 1..Len(requests) /\ requests'[i] = requests[i])
  BY <1>1 DEF ProbeInv, Says
<1>3. PICK r : requests' = Append(requests, r) /\ (r.kind = "preferences" => Says(r.m) \notin Edits)
  BY <1>2 DEF EditsRest, Sends
<1>4. i = Len(requests) + 1 /\ requests'[i] = r
  BY <1>2, <1>3, GrowsAtEnd, RequestsLength
<1> QED BY <1>1, <1>3, <1>4 DEF Says

LEMMA RestEdits == ASSUME ProfileTypes, EditsInv, EditsRest PROVE EditsInv'
BY RestApart, RestPut, RestAcked, RestNew, RestProbe DEF EditsInv

LEMMA QuietRest == ASSUME ProfileTypes, Hushed PROVE EditsRest
<1>1. ASSUME NEW w \in Answerers, Alone(w), Walks(w) PROVE Passes(w)
  BY <1>1 DEF Walks, Passes, Plain, Before, Alone, StaysAt, Bides, Awake
<1>2. ASSUME NEW x \in Answerers PROVE Bides(x) \/ at'[x] = "idle" \/ Passes(x)
  BY <1>1 DEF Hushed, Alone, StaysAt, Bides, Stops
<1> QED BY <1>2 DEF Hushed, EditsRest

\* One sub-agent goes on, and no edit is concerned.
LEMMA GoesRest ==
  ASSUME ProfileTypes, NEW w \in Answerers, NEW p, Pr!Goes(w, p),
         UNCHANGED <<msg, script, spoken, table, acked, undone, overlapped>>,
         got' = got \/ \E x : Pr!Keeps(w, x),
         Awake(w), p \notin {"idle", "reply", "wizard", "edit", "editProbe", "put", "cache"}, p = "limit" => Says(msg[w]) \notin Edits,
         profile' \in {profile, Pr!Nothing}, requests' = requests \/ Sends
  PROVE  EditsRest
<1>1. at' = [at EXCEPT ![w] = p] /\ at \in [Answerers -> Pr!Places]
  BY DEF Pr!Goes, ProfileTypes, WalkTypes, SpokenTypes
<1>2. ASSUME NEW x \in Answerers \ {w} PROVE Bides(x)
  <2>1. got'[x] = got[x]
    BY DEF Pr!Keeps, ProfileTypes, WalkTypes, ReadTypes
  <2> QED BY <1>1, <2>1 DEF Bides
<1>3. Passes(w)
  BY <1>1 DEF Passes
<1>4. \A x \in Answerers : Bides(x) \/ at'[x] = "idle" \/ Passes(x)
  BY <1>2, <1>3
<1> QED BY <1>4 DEF EditsRest

LEMMA StorePreferencesRest ==
  ASSUME ProfileTypes, NEW w \in Answerers, NEW ok \in BOOLEAN, Pr!StorePreferences(w, ok)
  PROVE  EditsRest
<1>1. /\ UNCHANGED <<msg, got, script, spoken, table, acked, undone, overlapped, profile>>
      /\ Pr!Goes(w, "clear") /\ Awake(w)
  BY DEF Pr!StorePreferences, Pr!talk, Pr!caches, Pr!stores, Pr!ghosts, Awake
<1>2. requests' = requests \/ Sends
  BY DEF Pr!StorePreferences, Pr!Request, Sends
<1> QED BY <1>1, <1>2, GoesRest

LEMMA GreetsRest ==
  ASSUME ProfileTypes, NEW w \in Answerers, NEW ok \in BOOLEAN, Pr!Greets(w, ok)
  PROVE  EditsRest
<1>1. /\ UNCHANGED <<msg, got, script, spoken, table, acked, undone, overlapped, profile>>
      /\ (Pr!Goes(w, "limit") \/ Pr!Goes(w, "probe")) /\ Awake(w) /\ at[w] = "greeting"
  BY DEF Pr!Greets, Pr!talk, Pr!caches, Pr!stores, Awake
<1>2. Says(msg[w]) \notin Edits
  BY <1>1 DEF ProfileTypes, WalkTypes, OwnMessage, EditPlaces, Says
<1>3. requests' = requests \/ Sends
  BY <1>2 DEF Pr!Greets, Pr!Request, Sends
<1> QED BY <1>1, <1>2, <1>3, GoesRest

LEMMA GetHistoryRest == ASSUME ProfileTypes, NEW w \in Answerers, Pr!GetHistory(w) PROVE EditsRest
<1>1. /\ UNCHANGED <<msg, script, spoken, table, acked, undone, overlapped, profile>> /\ Awake(w)
      /\ Pr!Goes(w, "think") \/ Pr!Goes(w, "history")
      /\ got' = got \/ \E x : Pr!Keeps(w, x)
  BY DEF Pr!GetHistory, Pr!talk, Pr!caches, Pr!stores, Pr!ghosts, Awake
<1>2. requests' = requests \/ Sends
  BY DEF Pr!GetHistory, Pr!Request, Sends
<1> QED BY <1>1, <1>2, GoesRest

LEMMA RefillRest == ASSUME ProfileTypes, NEW w \in Answerers, Pr!Refill(w) PROVE EditsRest
<1>1. /\ UNCHANGED <<msg, got, script, spoken, table, acked, undone, overlapped, profile, requests>> /\ Awake(w)
      /\ Pr!Goes(w, "think")
  BY DEF Pr!Refill, Pr!talk, Pr!caches, Pr!stores, Pr!ghosts, Awake
<1> QED BY <1>1, GoesRest

LEMMA ThinkRest == ASSUME ProfileTypes, NEW w \in Answerers, Pr!Think(w) PROVE EditsRest
<1>1. /\ UNCHANGED <<msg, got, script, spoken, table, acked, undone, overlapped, profile, requests>> /\ Awake(w)
      /\ Pr!Goes(w, "bust")
  BY DEF Pr!Think, Pr!talk, Pr!caches, Pr!stores, Pr!ghosts, Awake
<1> QED BY <1>1, GoesRest

LEMMA StorePushRest == ASSUME ProfileTypes, NEW t \in storing, Pr!StorePush(t) PROVE EditsRest
<1>1. UNCHANGED <<at, msg, got, script, spoken, table, acked, undone, overlapped, profile>> /\ Sends
  BY DEF Pr!StorePush, Pr!talk, Pr!caches, Pr!stores, Pr!ghosts, Sends
<1> QED BY <1>1 DEF EditsRest, Bides

LEMMA StoreDeleteRest == ASSUME ProfileTypes, NEW t \in storing, Pr!StoreDelete(t) PROVE EditsRest
<1>1. UNCHANGED <<at, msg, got, script, spoken, table, acked, undone, overlapped, profile, requests>>
  BY DEF Pr!StoreDelete, Pr!talk, Pr!caches, Pr!stores, Pr!ghosts, Sends
<1> QED BY <1>1 DEF EditsRest, Bides

LEMMA CacheFailsRest == ASSUME ProfileTypes, NEW w \in Answerers, Pr!CacheFails(w) PROVE EditsRest
<1>1. /\ UNCHANGED <<script, spoken, table, undone, profile, requests>> /\ Pr!Done(w)
      /\ acked' = acked \cup {msg[w]} /\ overlapped' = overlapped \cup {msg[w]}
  BY DEF Pr!CacheFails, Pr!talk, Pr!caches, Pr!stores
<1>2. Alone(w) /\ Stops(w)
  BY <1>1, DoneStops
<1>3. \A x \in Answerers : Bides(x) \/ at'[x] = "idle"
  BY <1>2 DEF Alone, StaysAt, Bides, Stops
<1> QED BY <1>1, <1>3 DEF EditsRest

LEMMA TimesOutRest ==
  ASSUME ProfileTypes, NEW w \in Answerers, Pr!TimesOut(w), at[w] # "editProbe"
  PROVE  EditsRest
<1>1. /\ UNCHANGED <<msg, script, spoken, table, acked, undone, overlapped, profile, requests>> /\ Awake(w)
  BY DEF Pr!TimesOut, Pr!talk, Pr!caches, Pr!stores, Pr!ghosts, Awake
<1>2. (Pr!Goes(w, "think") \/ Pr!Goes(w, "greet")) /\ \E x : Pr!Keeps(w, x)
  BY DEF Pr!TimesOut, Pr!Told
<1> QED BY <1>1, <1>2, GoesRest

\* What a message in hand, and one acknowledged, are.
LEMMA HandWords == ASSUME ProfileTypes
  PROVE  /\ spoken \in Nat /\ \A x \in Answerers : msg[x] \in 0..spoken /\ (at[x] = "idle" <=> msg[x] = 0)
         /\ \A x, y \in Answerers : msg[x] = msg[y] /\ msg[x] # 0 => x = y
         /\ \A x \in Answerers : Editor(x) => Says(msg[x]) \in Edits /\ msg[x] \in 1..spoken /\ at[x] # "idle"
         /\ acked \subseteq 1..spoken /\ overlapped \subseteq 1..spoken
<1>1. SpokenTypes /\ OwnMessage /\ MarkTypes
  BY DEF ProfileTypes, WalkTypes
<1>2. spoken \in Nat /\ \A x \in Answerers : msg[x] \in 0..spoken /\ (at[x] = "idle" <=> msg[x] = 0)
  BY <1>1 DEF SpokenTypes, OwnMessage
<1>3. \A x \in Answerers : Editor(x) => Says(msg[x]) \in Edits /\ at[x] # "idle"
  BY <1>1 DEF Editor, OwnMessage, Says, EditPlaces
<1>4. \A x \in Answerers : Editor(x) => msg[x] \in 1..spoken
  BY <1>2, <1>3
<1> QED BY <1>1, <1>2, <1>3, <1>4 DEF OwnMessage, MarkTypes

LEMMA AckedWords == ASSUME ProfileTypes, PutInv, NEW v \in 1..spoken, Acked(v)
  PROVE  Put(v) /\ Says(v) \in Edits
BY DEF Acked, Put, PutInv

(***************************************************************************)
(* A message is taken.                                                     *)
(***************************************************************************)
LEMMA TakeEdits ==
  ASSUME ProfileFit, ProfileTypes, EditsInv, NEW w \in Answerers, Pr!Take(w)
  PROVE  EditsInv'
<1>0. WalkTypes /\ RequestTypes /\ TableTypes /\ MarkTypes /\ SpokenTypes /\ ReadTypes
  BY DEF ProfileTypes, WalkTypes
<1>1. /\ script' = script /\ spoken' = spoken + 1 /\ spoken \in Nat /\ at[w] = "idle" /\ spoken + 1 <= Len(script.says)
      /\ Len(script.says) \in Nat /\ msg' = [msg EXCEPT ![w] = spoken + 1] /\ Pr!NeedsConsent(w)
      /\ UNCHANGED <<profile, requests, table, acked, overlapped, undone>>
  BY <1>0, ProfileConstants DEF Pr!Take, SpokenTypes, Pr!caches, Pr!stores, Pr!ghosts, Pr!Says
<1>2. at'[w] \in {"wizard", "reply"} /\ msg'[w] = spoken + 1
  BY <1>0, <1>1 DEF SpokenTypes, Pr!NeedsConsent, Pr!Goes
<1>3. \A x \in Answerers \ {w} : at'[x] = at[x] /\ msg'[x] = msg[x] /\ got'[x] = got[x]
  BY <1>0, <1>1 DEF SpokenTypes, ReadTypes, Pr!NeedsConsent, Pr!Goes, Pr!Keeps
<1>4. Apart'
  BY <1>1, <1>2, <1>3 DEF EditsInv, Apart, Editor, EditPlaces
<1>5. NoNewReading
  BY <1>2, <1>3, RequestsLength DEF NoNewReading, Reading
<1>6. PutInv'
  <2> SUFFICES ASSUME NEW v \in 1..spoken + 1, Put(v)'
               PROVE  Says(v)' \in Edits /\ v \notin undone' /\ \E k \in 0..Len(requests)' : SetAt(v, k)'
    BY <1>1 DEF PutInv
  <2>1. v \in 1..spoken /\ Put(v)
    BY <1>1, <1>2, <1>3, HandWords DEF Put
  <2>2. PICK k \in 0..Len(requests) : SetAt(v, k)
    BY <2>1 DEF EditsInv, PutInv
  <2>3. SetAt(v, k)'
    BY <1>1, <1>5, <2>2, MovesSet
  <2> QED BY <1>1, <2>1, <2>2, <2>3 DEF EditsInv, PutInv, Says
<1>7. AckedInv'
  <2> SUFFICES ASSUME NEW v \in 1..spoken + 1, Acked(v)'
               PROVE  /\ profile.at = "cached" => Kept(v, profile.it)
                      /\ \A x \in Answerers :
                           /\ at'[x] \in {"put", "cache"} /\ Says(msg'[x]) # Says(v) => Kept(v, got'[x].fields)
                           /\ at'[x] = "cache" => Says(msg'[x]) # Says(v)
    BY <1>1 DEF AckedInv, Kept, Says
  <2>1. v \in 1..spoken /\ Acked(v)
    BY <1>1, HandWords DEF Acked
  <2> QED BY <1>2, <1>3, <2>1 DEF EditsInv, AckedInv
<1>8. ASSUME NEW b \in KnownFields PROVE Without(spoken + 1, b)
  BY <1>1 DEF KnownFields, ToldFields, Without
<1>9. NewInv'
  <2> SUFFICES ASSUME NEW x \in Answerers, at'[x] \notin {"idle", "cache"}
        PROVE  /\ profile.at = "cached" => Without(msg'[x], profile.it)
               /\ \A y \in Answerers \ {x} : at'[y] \in {"put", "cache"} => Without(msg'[x], got'[y].fields)
               /\ Without(msg'[x], table.fields) /\ msg'[x] \notin undone
               /\ \A i \in 1..Len(requests) : Edit(i) => Without(msg'[x], requests[i].fields)
    BY <1>1 DEF NewInv, Edit, Without
  <2>1. CASE x = w
    <3>1. profile.at = "cached" => Without(msg'[x], profile.it)
      BY <1>0, <1>2, <1>8, <2>1 DEF TableTypes
    <3>2. \A y \in Answerers \ {x} : at'[y] \in {"put", "cache"} => Without(msg'[x], got'[y].fields)
      BY <1>0, <1>2, <1>3, <1>8, <2>1 DEF ReadTypes
    <3>3. Without(msg'[x], table.fields)
      BY <1>0, <1>2, <1>8, <2>1 DEF TableTypes
    <3>4. msg'[x] \notin undone
      BY <1>0, <1>1, <1>2, <2>1 DEF MarkTypes
    <3>5. \A i \in 1..Len(requests) : Edit(i) => Without(msg'[x], requests[i].fields)
      BY <1>2, <1>8, <2>1, RequestsLength
    <3> QED BY <3>1, <3>2, <3>3, <3>4, <3>5
  <2>2. CASE x # w
    <3>1. at[x] \notin {"idle", "cache"} /\ msg'[x] = msg[x]
      BY <1>3, <2>2
    <3>2. \A y \in Answerers : at'[y] \in {"put", "cache"} => at[y] = at'[y] /\ got'[y] = got[y]
      BY <1>2, <1>3
    <3> QED BY <3>1, <3>2 DEF EditsInv, NewInv
  <2> QED BY <2>1, <2>2
<1>10. ProbeInv'
  <2> SUFFICES ASSUME NEW x \in Answerers, at'[x] \in {"reply", "wizard", "limit", "edit"},
                      NEW i \in 1..Len(requests), requests[i].kind = "preferences", requests[i].w = x, requests[i].m = msg'[x]
               PROVE  Says(msg'[x]) \notin Edits
    BY <1>1 DEF ProbeInv, Says
  <2>1. x # w
    BY <1>1, <1>2, RequestsLength
  <2> QED BY <1>3, <2>1 DEF EditsInv, ProbeInv
<1> QED BY <1>4, <1>6, <1>7, <1>9, <1>10 DEF EditsInv

(***************************************************************************)
(* A profile is read, and the edit merged into it.                         *)
(***************************************************************************)
\* What may be merged into: it keeps what was acknowledged, and knows nothing of a message in hand.
Base(w, b) ==
  /\ b \in KnownFields
  /\ \A v \in 1..spoken : Acked(v) /\ Says(v) # Says(msg[w]) => Kept(v, b)
  /\ \A x \in Answerers \ {w} : Awake(x) => Without(msg[x], b)
\* What stays when w has merged it.
Merges(w, b) ==
  /\ at[w] \in {"edit", "editProbe"} /\ at' = [at EXCEPT ![w] = "put"] /\ UNCHANGED <<script, spoken, msg, profile, acked>>
  /\ got' = [got EXCEPT ![w] = [at |-> "fields", fields |-> Pr!Merged(w, b)]] /\ overlapped \subseteq overlapped'
\* No request is new.
NoNews == \A i \in 1..Len(requests') : \E j \in 1..Len(requests) : requests'[i] = requests[j]

LEMMA MergesAlone ==
  ASSUME ProfileTypes, NEW w \in Answerers, NEW b, Merges(w, b)
  PROVE  /\ at'[w] = "put" /\ got'[w].fields = Pr!Merged(w, b)
         /\ \A x \in Answerers \ {w} : at'[x] = at[x] /\ msg'[x] = msg[x] /\ got'[x] = got[x]
BY DEF ProfileTypes, WalkTypes, SpokenTypes, ReadTypes, Merges

LEMMA MergesApart == ASSUME ProfileTypes, Apart, NEW w \in Answerers, NEW b, Merges(w, b) PROVE Apart'
<1>1. \A x \in Answerers : Editor(x)' => Editor(x)
  BY MergesAlone DEF Merges, Editor, EditPlaces
<1> QED BY <1>1 DEF Apart, Merges

LEMMA MergesAcked ==
  ASSUME ProfileFit, ProfileTypes, PutInv, AckedInv, NEW w \in Answerers, NEW b, Base(w, b), Merges(w, b)
  PROVE  AckedInv'
<1>1. msg[w] # 0 /\ Says(msg[w]) \in Edits
  BY HandWords DEF Merges, Editor, EditPlaces
<1>2. \A g \in Edits : g # Says(msg[w]) => Pr!Merged(w, b)[g] = b[g]
  BY <1>1, MergedKnown DEF Base, ProfileTypes, WalkTypes, Says
<1> SUFFICES ASSUME NEW v \in 1..spoken, Acked(v)'
             PROVE  /\ profile.at = "cached" => Kept(v, profile.it)
                    /\ \A x \in Answerers :
                         /\ at'[x] \in {"put", "cache"} /\ Says(msg[x]) # Says(v) => Kept(v, got'[x].fields)
                         /\ at'[x] = "cache" => Says(msg[x]) # Says(v)
  BY DEF AckedInv, Kept, Says, Merges
<1>3. Acked(v) /\ Says(v) \in Edits
  <2>1. Acked(v)
    BY DEF Acked, Merges
  <2> QED BY <2>1, AckedWords
<1>4. Says(msg[w]) # Says(v) => Kept(v, got'[w].fields)
  BY <1>2, <1>3, MergesAlone DEF Base, Kept
<1> QED BY <1>3, <1>4, MergesAlone DEF AckedInv

LEMMA MergesNew ==
  ASSUME ProfileFit, ProfileTypes, NewInv, NEW w \in Answerers, NEW b, Base(w, b), Merges(w, b), NoNews,
         UNCHANGED <<table, undone>>
  PROVE  NewInv'
<1>1. msg[w] # 0 /\ Says(msg[w]) \in Edits /\ at[w] \notin {"idle", "cache"} /\ at[w] \notin {"put", "cache"}
  BY HandWords DEF Merges, Editor, EditPlaces
<1>2. Pr!Merged(w, b)[Says(msg[w])] = msg[w] /\ \A g \in Edits : g # Says(msg[w]) => Pr!Merged(w, b)[g] = b[g]
  BY <1>1, MergedKnown DEF Base, ProfileTypes, WalkTypes, Says
<1> SUFFICES ASSUME NEW x \in Answerers, at'[x] \notin {"idle", "cache"}
             PROVE  /\ profile.at = "cached" => Without(msg[x], profile.it)
                    /\ \A y \in Answerers \ {x} : at'[y] \in {"put", "cache"} => Without(msg[x], got'[y].fields)
                    /\ Without(msg[x], table.fields) /\ msg[x] \notin undone
                    /\ \A i \in 1..Len(requests') : requests'[i].kind = "edit" => Without(msg[x], requests'[i].fields)
  BY DEF NewInv, Without, Edit, Merges
<1>3. Awake(x)
  BY <1>1, MergesAlone DEF Awake
<1>4. x # w => Without(msg[x], Pr!Merged(w, b))
  <2>1. x # w => msg[x] # msg[w]
    BY <1>1, HandWords
  <2> QED BY <1>2, <1>3, <2>1 DEF Base, Without
<1>5. \A y \in Answerers \ {x} : at'[y] \in {"put", "cache"} => Without(msg[x], got'[y].fields)
  BY <1>3, <1>4, MergesAlone DEF NewInv, Awake
<1>6. \A i \in 1..Len(requests') : requests'[i].kind = "edit" => Without(msg[x], requests'[i].fields)
  BY <1>3 DEF NoNews, NewInv, Awake, Edit
<1> QED BY <1>3, <1>5, <1>6 DEF NewInv, Awake

LEMMA MergesProbe ==
  ASSUME ProfileTypes, ProbeInv, NEW w \in Answerers, NEW b, Merges(w, b), NoNews
  PROVE  ProbeInv'
<1>1. \A x \in Answerers : at'[x] \in {"reply", "wizard", "limit", "edit"} => at'[x] = at[x] /\ msg'[x] = msg[x]
  BY MergesAlone
<1> QED BY <1>1 DEF ProbeInv, NoNews, Merges, Says

LEMMA StayNoNews == ASSUME requests' = requests PROVE NoNews
BY DEF NoNews

LEMMA MergesReading == ASSUME ProfileTypes, NEW w \in Answerers, NEW b, Merges(w, b) PROVE NoNewReading
<1>1. \A x \in Answerers : at'[x] = "editProbe" => at[x] = "editProbe" /\ msg'[x] = msg[x]
  BY MergesAlone
<1> QED BY <1>1, RequestsLength DEF NoNewReading, Reading

LEMMA MergesPuts ==
  ASSUME ProfileTypes, NEW w \in Answerers, NEW b, Merges(w, b), NEW v, Put(v)' PROVE Put(v)
<1>1. \A x \in Answerers : at'[x] = "cache" => at[x] = "cache" /\ msg'[x] = msg[x]
  BY MergesAlone
<1> QED BY <1>1 DEF Put, Merges

\* Nothing else happens.
LEMMA MergesEdits ==
  ASSUME ProfileFit, ProfileTypes, EditsInv, NEW w \in Answerers, NEW b, Base(w, b), Merges(w, b),
         UNCHANGED <<requests, table, undone>>
  PROVE  EditsInv'
<1>1. PutInv'
  BY MergesReading, MergesPuts, KeepsPut DEF EditsInv, Merges
<1> QED BY <1>1, StayNoNews, MergesApart, MergesAcked, MergesNew, MergesProbe DEF EditsInv

LEMMA UnsetBase == ASSUME ProfileFit, ProfileTypes, PutInv, NEW w \in Answerers PROVE Base(w, Pr!Unset)
<1>1. Pr!Unset \in KnownFields /\ \A f \in Edits : Pr!Unset[f] = 0
  BY UnsetKnown DEF ProfileTypes, WalkTypes
<1>2. \A v \in 1..spoken : Acked(v) => Kept(v, Pr!Unset)
  BY <1>1, AckedWords DEF Kept
<1>3. \A x \in Answerers : Awake(x) => Without(msg[x], Pr!Unset)
  BY <1>1, HandWords DEF Awake, Without
<1> QED BY <1>1, <1>2, <1>3 DEF Base

LEMMA TimesOutEdits ==
  ASSUME ProfileFit, ProfileTypes, EditsInv, NEW w \in Answerers, Pr!TimesOut(w)
  PROVE  EditsInv'
<1>1. CASE at[w] # "editProbe"
  BY <1>1, TimesOutRest, RestEdits
<1>2. CASE at[w] = "editProbe"
  <2>1. Merges(w, Pr!Unset) /\ UNCHANGED <<requests, table, undone>>
    BY <1>2 DEF Pr!TimesOut, Pr!Told, Pr!Goes, Pr!Keeps, Merges, Pr!talk, Pr!caches, Pr!stores, Pr!ghosts
  <2> QED BY <2>1, UnsetBase, MergesEdits DEF EditsInv
<1> QED BY <1>1, <1>2

LEMMA ReadProfileEdits ==
  ASSUME ProfileFit, ProfileTypes, EditsInv, NEW w \in Answerers, Pr!ReadProfile(w)
  PROVE  EditsInv'
<1>1. CASE profile.at = "cached"
  <2>1. Merges(w, profile.it) /\ UNCHANGED <<requests, table, undone>>
    BY <1>1 DEF Pr!ReadProfile, Pr!Is, Pr!Goes, Pr!Keeps, Merges, Pr!talk, Pr!caches, Pr!stores, Pr!ghosts
  <2>2. Base(w, profile.it)
    BY <1>1 DEF Base, ProfileTypes, TableTypes, EditsInv, AckedInv, NewInv, Awake
  <2> QED BY <2>1, <2>2, MergesEdits
<1>2. CASE profile.at # "cached"
  <2> DEFINE r == [kind |-> "preferences", w |-> w, m |-> msg[w], fields |-> Pr!Unset]
  <2>1. /\ UNCHANGED <<msg, got, script, spoken, table, acked, undone, overlapped, profile>> /\ at[w] = "edit"
        /\ at' = [at EXCEPT ![w] = "editProbe"] /\ requests' = Append(requests, r)
    BY <1>2 DEF Pr!ReadProfile, Pr!Is, Pr!Goes, Pr!Request, Pr!talk, Pr!caches, Pr!stores, Pr!ghosts
  <2>2. at'[w] = "editProbe" /\ \A x \in Answerers \ {w} : at'[x] = at[x]
    BY <2>1 DEF ProfileTypes, WalkTypes, SpokenTypes
  <2>3. Says(msg[w]) \in Edits
    BY <2>1, HandWords DEF Editor, EditPlaces
  <2>4. NoNewReading
    BY <2>1, <2>2, <2>3, RequestsLength DEF NoNewReading, Reading, EditsInv, ProbeInv
  <2>5. /\ r.kind = "preferences" /\ r.w = w
        /\ Len(requests') = Len(requests) + 1 /\ requests'[Len(requests) + 1] = r
        /\ \A i \in 1..Len(requests) : requests'[i] = requests[i]
    BY <2>1, GrowsAtEnd
  <2> HIDE DEF r
  <2>6. Apart'
    BY <2>1, <2>2 DEF EditsInv, Apart, Editor, EditPlaces
  <2>7. PutInv'
    <3> SUFFICES ASSUME NEW v \in 1..spoken, Put(v)'
                 PROVE  Says(v)' \in Edits /\ v \notin undone' /\ \E k \in 0..Len(requests)' : SetAt(v, k)'
      BY <2>1 DEF PutInv
    <3>1. Put(v)
      BY <2>1, <2>2 DEF Put
    <3>2. PICK k \in 0..Len(requests) : SetAt(v, k)
      BY <3>1 DEF EditsInv, PutInv
    <3>3. SetAt(v, k)'
      BY <2>1, <2>4, <2>5, <3>2, MovesSet
    <3>4. k \in 0..Len(requests)'
      BY <3>3 DEF SetAt
    <3> QED BY <2>1, <3>1, <3>3, <3>4 DEF EditsInv, PutInv, Says
  <2>8. AckedInv'
    <3>1. \A x \in Answerers : at'[x] \in {"put", "cache"} => at'[x] = at[x]
      BY <2>2
    <3> QED BY <2>1, <3>1 DEF EditsInv, AckedInv, Acked, Kept, Says
  <2>9. NewInv'
    <3>1. \A x \in Answerers : (at'[x] \in {"put", "cache"} => at'[x] = at[x]) /\ (at'[x] \notin {"idle", "cache"} => at[x] \notin {"idle", "cache"})
      BY <2>1, <2>2
    <3>2. \A i \in 1..Len(requests') : requests'[i].kind = "edit" => i \in 1..Len(requests) /\ requests'[i] = requests[i]
      BY <2>5, RequestsLength
    <3> QED BY <2>1, <3>1, <3>2 DEF EditsInv, NewInv, Edit, Without
  <2>10. ProbeInv'
    <3>1. \A x \in Answerers : at'[x] \in {"reply", "wizard", "limit", "edit"} => at'[x] = at[x] /\ x # w
      BY <2>2
    <3>2. \A i \in 1..Len(requests') :
             (i \in 1..Len(requests) /\ requests'[i] = requests[i]) \/ requests'[i].w = w
      BY <2>5, RequestsLength
    <3> QED BY <2>1, <3>1, <3>2 DEF EditsInv, ProbeInv, Says
  <2> QED BY <2>6, <2>7, <2>8, <2>9, <2>10 DEF EditsInv
<1> QED BY <1>1, <1>2

(***************************************************************************)
(* An edit is sent, and acknowledged.                                      *)
(***************************************************************************)
LEMMA PutSets == ASSUME ProfileFit, ProfileTypes, EditsInv, NEW w \in Answerers, Pr!Put(w) PROVE PutInv'
<1> DEFINE r == [kind |-> "edit", w |-> w, m |-> msg[w], fields |-> got[w].fields]
<1>1. /\ UNCHANGED <<msg, got, script, spoken, table, undone, overlapped, profile>> /\ at[w] = "put"
      /\ at' = [at EXCEPT ![w] = "cache"] /\ requests' = Append(requests, r) /\ acked' = {m \in acked : Says(m) # Says(msg[w])}
  BY DEF Pr!Put, Pr!Goes, Pr!Request, Pr!talk, Pr!caches, Pr!stores, Says, Pr!Says, Pr!Said
<1>2. at'[w] = "cache" /\ \A x \in Answerers \ {w} : at'[x] = at[x]
  BY <1>1 DEF ProfileTypes, WalkTypes, SpokenTypes
<1>3. Says(msg[w]) \in Edits /\ msg[w] \in 1..spoken /\ Editor(w)
  BY <1>1, HandWords DEF Editor, EditPlaces
<1>4. Awake(w) /\ Without(msg[w], table.fields) /\ msg[w] \notin undone /\ \A i \in 1..Len(requests) : Edit(i) => Without(msg[w], requests[i].fields)
  BY <1>1 DEF EditsInv, NewInv, Awake
<1>5. /\ Len(requests') = Len(requests) + 1 /\ requests'[Len(requests) + 1] = r /\ Len(requests) \in Nat
      /\ \A i \in 1..Len(requests) : requests'[i] = requests[i]
  BY <1>1, GrowsAtEnd, RequestsLength
<1>6. NoNewReading
  BY <1>1, <1>2, RequestsLength DEF NoNewReading, Reading
<1>7. r.kind = "edit" /\ r.m = msg[w] /\ r.fields = got[w].fields
  OBVIOUS
<1> HIDE DEF r
<1> SUFFICES ASSUME NEW v \in 1..spoken, Put(v)'
             PROVE  Says(v)' \in Edits /\ v \notin undone' /\ \E k \in 0..Len(requests)' : SetAt(v, k)'
  BY <1>1 DEF PutInv
<1>8. v \notin overlapped
  BY <1>1 DEF Put
<1>9. CASE v = msg[w]
  <2>1. \A x \in Answerers \ {w} : ~Editor(x)
    BY <1>3, <1>8, <1>9 DEF EditsInv, Apart
  <2> PICK n \in Nat : n = Len(requests) + 1
    BY <1>5
  <2>2. \A i \in 1..n : ~Reading(requests[i])'
    <3> SUFFICES ASSUME NEW i \in 1..n, requests'[i].kind = "preferences", at'[requests'[i].w] = "editProbe"
                 PROVE  FALSE
      BY DEF Reading
    <3>1. i \in 1..Len(requests) /\ requests'[i] = requests[i]
      BY <1>5, <1>7
    <3> QED BY <1>2, <2>1, <3>1, RequestsLength DEF Editor, EditPlaces
  <2>3. ASSUME NEW i \in 1..n, i < n, Edit(i)'
        PROVE  requests'[i].fields[Says(v)'] # v
    <3>1. i \in 1..Len(requests) /\ Edit(i) /\ requests'[i] = requests[i]
      BY <1>5, <2>3 DEF Edit
    <3> QED BY <1>1, <1>3, <1>4, <1>9, <3>1 DEF Without, Says
  <2>4. Edit(n)' /\ requests'[n].m = v
    BY <1>5, <1>7, <1>9 DEF Edit
  <2>5. table'.fields[Says(v)'] # v
    BY <1>1, <1>3, <1>4, <1>9 DEF Without, Says
  <2>6. SetAt(v, n)'
    BY <1>5, <2>2, <2>3, <2>4, <2>5 DEF SetAt
  <2>7. n \in 0..Len(requests)'
    BY <1>5
  <2> QED BY <1>1, <1>3, <1>4, <1>9, <2>6, <2>7 DEF Says
<1>10. CASE v # msg[w]
  <2>1. v \in acked /\ Says(v) # Says(msg[w])
    <3>1. ASSUME NEW x \in Answerers, at'[x] = "cache", msg[x] = v PROVE FALSE
      <4>1. x # w /\ Editor(x)
        BY <1>2, <1>10, <3>1 DEF Editor, EditPlaces
      <4> QED BY <1>3, <1>8, <3>1, <4>1 DEF EditsInv, Apart
    <3> QED BY <1>1, <3>1 DEF Put
  <2>2. Acked(v) /\ Put(v)
    BY <1>8, <2>1 DEF Acked, Put
  <2>3. PICK k \in 0..Len(requests) : SetAt(v, k)
    BY <2>2 DEF EditsInv, PutInv
  <2>4. Kept(v, r.fields)
    BY <1>1, <1>7, <2>1, <2>2 DEF EditsInv, AckedInv
  <2>5. SetAt(v, k)'
    BY <1>1, <1>6, <2>3, <2>4, MovesSet
  <2>6. k \in 0..Len(requests)'
    BY <2>5 DEF SetAt
  <2> QED BY <1>1, <2>2, <2>5, <2>6 DEF EditsInv, PutInv, Says
<1> QED BY <1>9, <1>10

LEMMA PutEdits == ASSUME ProfileFit, ProfileTypes, EditsInv, NEW w \in Answerers, Pr!Put(w) PROVE EditsInv'
<1> DEFINE r == [kind |-> "edit", w |-> w, m |-> msg[w], fields |-> got[w].fields]
<1>1. /\ UNCHANGED <<msg, got, script, spoken, table, undone, overlapped, profile>> /\ at[w] = "put"
      /\ at' = [at EXCEPT ![w] = "cache"] /\ requests' = Append(requests, r) /\ acked' = {m \in acked : Says(m) # Says(msg[w])}
  BY DEF Pr!Put, Pr!Goes, Pr!Request, Pr!talk, Pr!caches, Pr!stores, Says, Pr!Says, Pr!Said
<1>2. at'[w] = "cache" /\ \A x \in Answerers \ {w} : at'[x] = at[x]
  BY <1>1 DEF ProfileTypes, WalkTypes, SpokenTypes
<1>5. /\ Len(requests') = Len(requests) + 1 /\ requests'[Len(requests) + 1] = r /\ Len(requests) \in Nat
      /\ \A i \in 1..Len(requests) : requests'[i] = requests[i]
  BY <1>1, GrowsAtEnd, RequestsLength
<1>7. r.kind = "edit" /\ r.m = msg[w] /\ r.fields = got[w].fields
  OBVIOUS
<1> HIDE DEF r
<1>8. Apart'
  <2>1. \A x \in Answerers : Editor(x)' => Editor(x)
    BY <1>1, <1>2 DEF Editor, EditPlaces
  <2> QED BY <1>1, <2>1 DEF EditsInv, Apart
<1>9. AckedInv'
  <2> SUFFICES ASSUME NEW v \in 1..spoken, Acked(v)'
               PROVE  /\ profile.at = "cached" => Kept(v, profile.it)
                      /\ \A x \in Answerers :
                           /\ at'[x] \in {"put", "cache"} /\ Says(msg[x]) # Says(v) => Kept(v, got[x].fields)
                           /\ at'[x] = "cache" => Says(msg[x]) # Says(v)
    BY <1>1 DEF AckedInv, Kept, Says
  <2>1. Acked(v) /\ Says(v) # Says(msg[w])
    BY <1>1 DEF Acked
  <2> QED BY <1>1, <1>2, <2>1 DEF EditsInv, AckedInv
<1>10. NewInv'
  <2> SUFFICES ASSUME NEW x \in Answerers, at'[x] \notin {"idle", "cache"}
               PROVE  /\ profile.at = "cached" => Without(msg[x], profile.it)
                      /\ \A y \in Answerers \ {x} : at'[y] \in {"put", "cache"} => Without(msg[x], got[y].fields)
                      /\ Without(msg[x], table.fields) /\ msg[x] \notin undone
                      /\ \A i \in 1..Len(requests') : requests'[i].kind = "edit" => Without(msg[x], requests'[i].fields)
    BY <1>1 DEF NewInv, Without, Edit
  <2>1. Awake(x) /\ x # w
    BY <1>2 DEF Awake
  <2>2. Without(msg[x], got[w].fields)
    BY <1>1, <2>1 DEF EditsInv, NewInv, Awake
  <2>3. \A i \in 1..Len(requests') : requests'[i].kind = "edit" => Without(msg[x], requests'[i].fields)
    BY <1>5, <1>7, <2>1, <2>2 DEF EditsInv, NewInv, Awake, Edit
  <2> QED BY <1>1, <1>2, <2>1, <2>3 DEF EditsInv, NewInv, Awake
<1>11. ProbeInv'
  <2>1. \A x \in Answerers : at'[x] \in {"reply", "wizard", "limit", "edit"} => at'[x] = at[x]
    BY <1>2
  <2>2. \A i \in 1..Len(requests') : requests'[i].kind = "preferences" => i \in 1..Len(requests) /\ requests'[i] = requests[i]
    BY <1>5, <1>7
  <2> QED BY <1>1, <2>1, <2>2 DEF EditsInv, ProbeInv, Says
<1> QED BY <1>8, <1>9, <1>10, <1>11, PutSets DEF EditsInv

LEMMA CacheProfileEdits ==
  ASSUME ProfileFit, ProfileTypes, EditsInv, NEW w \in Answerers, Pr!CacheProfile(w)
  PROVE  EditsInv'
<1>1. /\ UNCHANGED <<script, spoken, table, undone, overlapped, requests>> /\ at[w] = "cache" /\ Pr!Done(w)
      /\ acked' = acked \cup {msg[w]} /\ profile' = Pr!Cached(got[w].fields)
  BY DEF Pr!CacheProfile, Pr!talk, Pr!stores
<1>2. at'[w] = "idle" /\ \A x \in Answerers \ {w} : at'[x] = at[x] /\ msg'[x] = msg[x] /\ got'[x] = got[x]
  BY <1>1, DoneStops DEF Alone, StaysAt, Stops
<1>3. profile'.at = "cached" /\ profile'.it = got[w].fields
  BY <1>1 DEF Pr!Cached
<1>4. Says(msg[w]) \in Edits /\ msg[w] \in 1..spoken /\ Editor(w) /\ got[w].fields[Says(msg[w])] = msg[w]
  BY <1>1, HandWords DEF Editor, EditPlaces, ProfileTypes, WalkTypes, ReadTypes, Says
<1>5. Apart'
  <2>1. \A x \in Answerers : Editor(x)' => Editor(x) /\ x # w
    BY <1>2 DEF Editor, EditPlaces
  <2> QED BY <1>1, <1>2, <2>1 DEF EditsInv, Apart
<1>6. PutInv'
  <2>1. \A v \in 1..spoken : Put(v)' => Put(v)
    BY <1>1, <1>2 DEF Put
  <2>2. NoNewReading
    BY <1>2, RequestsLength DEF NoNewReading, Reading
  <2> QED BY <1>1, <2>1, <2>2, KeepsPut DEF EditsInv
<1>7. AckedInv'
  <2> SUFFICES ASSUME NEW v \in 1..spoken, Acked(v)'
               PROVE  /\ Kept(v, got[w].fields)
                      /\ \A x \in Answerers :
                           /\ at'[x] \in {"put", "cache"} /\ Says(msg'[x]) # Says(v) => Kept(v, got'[x].fields)
                           /\ at'[x] = "cache" => Says(msg'[x]) # Says(v)
    BY <1>1, <1>3 DEF AckedInv, Kept, Says
  <2>1. v \notin overlapped /\ (v = msg[w] \/ Acked(v))
    BY <1>1 DEF Acked
  <2>2. CASE v = msg[w]
    <3>1. \A x \in Answerers \ {w} : ~Editor(x)
      BY <1>4, <2>1, <2>2 DEF EditsInv, Apart
    <3>2. \A x \in Answerers : at'[x] \notin {"put", "cache"}
      BY <1>2, <3>1 DEF Editor, EditPlaces
    <3> QED BY <1>4, <2>2, <3>2 DEF Kept
  <2>3. CASE Acked(v)
    <3>1. Says(msg[w]) # Says(v) /\ Kept(v, got[w].fields)
      BY <1>1, <2>3 DEF EditsInv, AckedInv
    <3> QED BY <1>2, <2>3, <3>1 DEF EditsInv, AckedInv
  <2> QED BY <2>1, <2>2, <2>3
<1>8. NewInv'
  <2> SUFFICES ASSUME NEW x \in Answerers, at'[x] \notin {"idle", "cache"}
               PROVE  /\ Without(msg'[x], got[w].fields)
                      /\ \A y \in Answerers \ {x} : at'[y] \in {"put", "cache"} => Without(msg'[x], got'[y].fields)
                      /\ Without(msg'[x], table.fields) /\ msg'[x] \notin undone
                      /\ \A i \in 1..Len(requests) : Edit(i) => Without(msg'[x], requests[i].fields)
    BY <1>1, <1>3 DEF NewInv, Without, Edit
  <2>1. x # w /\ Awake(x) /\ msg'[x] = msg[x]
    BY <1>2 DEF Awake
  <2>2. \A y \in Answerers : at'[y] \in {"put", "cache"} => at[y] = at'[y] /\ got'[y] = got[y]
    BY <1>2
  <2> QED BY <1>1, <2>1, <2>2 DEF EditsInv, NewInv, Awake
<1>9. ProbeInv'
  <2>1. \A x \in Answerers : at'[x] \in {"reply", "wizard", "limit", "edit"} => at'[x] = at[x] /\ msg'[x] = msg[x]
    BY <1>2
  <2> QED BY <1>1, <2>1 DEF EditsInv, ProbeInv, Says
<1> QED BY <1>5, <1>6, <1>7, <1>8, <1>9 DEF EditsInv

(***************************************************************************)
(* The gateway and the edits.                                              *)
(***************************************************************************)
Pops == requests # <<>> /\ requests' = Tail(requests) /\ UNCHANGED <<script, spoken, msg, profile, acked>>

LEMMA PopsLength == ASSUME ProfileTypes, Pops
  PROVE  /\ Len(requests) = Len(requests') + 1 /\ Len(requests') \in Nat /\ 1 \in 1..Len(requests)
         /\ Head(requests) = requests[1] /\ requests[1].w \in Answerers /\ requests[1].m \in 1..spoken
         /\ requests[1].fields \in KnownFields /\ requests[1].kind \in Pr!Requests
         /\ \A i \in 1..Len(requests') : requests'[i] = requests[i + 1] /\ i + 1 \in 1..Len(requests)
BY DropsRequest DEF Pops, ProfileTypes, WalkTypes, RequestType, KnownFields

LEMMA PopsNoNews == ASSUME ProfileTypes, Pops PROVE NoNews
BY PopsLength DEF NoNews

\* The request that sets v moves up.
LEMMA PopsSet ==
  ASSUME ProfileTypes, Pops, NEW v, NEW k \in Nat, NEW j \in Nat, SetAt(v, k), NoNewReading,
         j = 0 \/ (k = j + 1 /\ j # 0),
         j = 0 => table'.fields[Says(v)] = v /\ table'.done,
         j # 0 => table'.fields[Says(v)] # v,
         j = 0 => k \in {0, 1}
  PROVE  SetAt(v, j)'
<1>1. /\ Len(requests) = Len(requests') + 1 /\ Len(requests') \in Nat /\ 1 \in 1..Len(requests)
      /\ \A i \in 1..Len(requests') : requests'[i] = requests[i + 1] /\ i + 1 \in 1..Len(requests)
  BY PopsLength
<1>2. script' = script
  BY DEF Pops
<1>3. j \in 0..Len(requests') /\ (j # 0 => requests'[j] = requests[k])
  BY <1>1 DEF SetAt
<1>4. j # 0 => Edit(j)' /\ requests'[j].m = v
  BY <1>3 DEF SetAt, Edit
<1>5. ASSUME NEW i \in 1..Len(requests')
      PROVE  /\ i < j /\ Edit(i)' => requests'[i].fields[Says(v)'] # v
             /\ i > j /\ Edit(i)' => Kept(v, requests[i].fields)'
             /\ Reading(requests[i])' => i > j
  <2> DEFINE n == i + 1
  <2>1. n \in 1..Len(requests) /\ requests'[i] = requests[n]
    BY <1>1
  <2>2. (i < j => n < k) /\ (i > j => n > k) /\ (n > k => i > j \/ j = 0) /\ i > 0
    OBVIOUS
  <2> HIDE DEF n
  <2>3. /\ n < k /\ requests[n].kind = "edit" => requests[n].fields[Says(v)] # v
        /\ n > k /\ requests[n].kind = "edit" => Kept(v, requests[n].fields)
        /\ Reading(requests[n]) => n > k
    BY <2>1 DEF SetAt, Edit
  <2>4. Reading(requests[i])' => Reading(requests[n])
    BY <2>1 DEF Reading, NoNewReading
  <2>5. i < j /\ Edit(i)' => requests'[i].fields[Says(v)'] # v
    BY <1>2, <2>1, <2>2, <2>3 DEF Edit, Says
  <2>6. i > j /\ Edit(i)' => Kept(v, requests[i].fields)'
    BY <1>2, <2>1, <2>2, <2>3 DEF Edit, Says, Kept
  <2>7. Reading(requests[i])' => i > j
    BY <2>2, <2>3, <2>4
  <2> QED BY <2>5, <2>6, <2>7
<1>6. (j = 0 => table'.fields[Says(v)'] = v /\ table'.done) /\ (j # 0 => table'.fields[Says(v)'] # v)
  BY <1>2 DEF Says
<1> QED BY <1>3, <1>4, <1>5, <1>6 DEF SetAt

\* A request that sets nothing goes.
LEMMA PopsPut ==
  ASSUME ProfileTypes, PutInv, Pops, NoNewReading, undone' = undone,
         table'.fields = table.fields, table.done => table'.done,
         requests[1].kind = "edit" => requests[1].m \in overlapped',
         \A v \in 1..spoken : Put(v)' => Put(v)
  PROVE  PutInv'
<1> SUFFICES ASSUME NEW v \in 1..spoken, Put(v)'
             PROVE  Says(v)' \in Edits /\ v \notin undone' /\ \E k \in 0..Len(requests)' : SetAt(v, k)'
  BY DEF PutInv, Pops
<1>1. PICK k \in 0..Len(requests) : SetAt(v, k)
  BY DEF PutInv
<1>2. k \in Nat /\ k # 1
  BY <1>1, PopsLength DEF SetAt, Edit, Put
<1> DEFINE j == IF k = 0 THEN 0 ELSE k - 1
<1>3. j \in Nat /\ (j = 0 <=> k = 0) /\ (j # 0 => k = j + 1)
  BY <1>2
<1> HIDE DEF j
<1>4. SetAt(v, j)'
  BY <1>1, <1>2, <1>3, PopsSet DEF SetAt
<1>5. j \in 0..Len(requests)'
  BY <1>4 DEF SetAt
<1> QED BY <1>4, <1>5 DEF PutInv, Says, Pops

\* What is so of the others when the answer to a read is taken, or nobody takes it.
LEMMA PopsStays ==
  ASSUME ProfileTypes, Pops, UNCHANGED <<at, got>>, overlapped \subseteq overlapped'
  PROVE  /\ Apart => Apart' /\ NoNewReading
         /\ \A v \in 1..spoken : Put(v)' => Put(v)
         /\ AckedInv => AckedInv'
         /\ ProbeInv => ProbeInv'
<1>1. Apart => Apart'
  BY DEF Apart, Editor, Pops
<1>2. NoNewReading
  BY DEF NoNewReading, Reading, Pops
<1>3. \A v \in 1..spoken : Put(v)' => Put(v)
  BY DEF Put, Pops
<1>4. AckedInv => AckedInv'
  BY DEF AckedInv, Acked, Kept, Says, Pops
<1>5. ProbeInv => ProbeInv'
  BY PopsNoNews DEF ProbeInv, NoNews, Says, Pops
<1> QED BY <1>1, <1>2, <1>3, <1>4, <1>5

LEMMA PopsNew ==
  ASSUME ProfileTypes, Pops, UNCHANGED <<at, got>>, NewInv,
         \A x \in Answerers : Awake(x) => Without(msg[x], table'.fields) /\ msg[x] \notin undone'
  PROVE  NewInv'
<1> SUFFICES ASSUME NEW x \in Answerers, at[x] \notin {"idle", "cache"}
             PROVE  /\ profile.at = "cached" => Without(msg[x], profile.it)
                    /\ \A y \in Answerers \ {x} : at[y] \in {"put", "cache"} => Without(msg[x], got[y].fields)
                    /\ Without(msg[x], table'.fields) /\ msg[x] \notin undone'
                    /\ \A i \in 1..Len(requests') : requests'[i].kind = "edit" => Without(msg[x], requests'[i].fields)
  BY DEF NewInv, Without, Edit, Pops
<1>1. \A i \in 1..Len(requests') : requests'[i].kind = "edit" => Without(msg[x], requests'[i].fields)
  BY PopsNoNews DEF NewInv, NoNews, Edit
<1> QED BY <1>1 DEF NewInv, Awake

\* The answer goes to one who does not edit.
LEMMA PopsAnswers ==
  ASSUME ProfileTypes, EditsInv, Pops, NEW w \in Answerers, NEW p \in {"greet", "refill"}, NEW x,
         Pr!Goes(w, p), Pr!Keeps(w, x),
         at[w] \in {"probe", "history"}, overlapped \subseteq overlapped', UNCHANGED <<table, undone>>, requests[1].kind # "edit"
  PROVE  EditsInv'
<1>1. at'[w] = p /\ at' \in [Answerers -> Pr!Places] /\ \A y \in Answerers \ {w} : at'[y] = at[y] /\ msg'[y] = msg[y] /\ got'[y] = got[y]
  BY DEF Pr!Goes, Pr!Keeps, ProfileTypes, WalkTypes, SpokenTypes, ReadTypes, Pops, Pr!Places
<1>2. \A y \in Answerers : at'[y] \in EditPlaces \cup {"reply", "wizard", "limit"} => at'[y] = at[y] /\ got'[y] = got[y]
  BY <1>1 DEF EditPlaces
<1>3. \A y \in Answerers : at'[y] \notin {"idle", "cache"} => Awake(y)
  BY <1>1 DEF Awake
<1>4. Apart'
  BY <1>2 DEF EditsInv, Apart, Editor, Pops
<1>5. NoNewReading
  BY <1>2, RequestsLength DEF NoNewReading, Reading, Pops, EditPlaces
<1>6. \A v \in 1..spoken : Put(v)' => Put(v)
  BY <1>2 DEF Put, Pops, EditPlaces
<1>7. PutInv'
  BY <1>5, <1>6, PopsPut DEF EditsInv
<1>8. AckedInv'
  BY <1>2 DEF EditsInv, AckedInv, Acked, Kept, Says, Pops, EditPlaces
<1>9. NewInv'
  BY <1>2, <1>3, PopsNoNews DEF EditsInv, NewInv, NoNews, Edit, Awake, Without, Pops, EditPlaces
<1>10. ProbeInv'
  BY <1>2, PopsNoNews DEF EditsInv, ProbeInv, NoNews, Says, Pops, EditPlaces
<1> QED BY <1>4, <1>7, <1>8, <1>9, <1>10 DEF EditsInv

\* Nobody takes an answer, and nothing is stored.
LEMMA PopsIdle ==
  ASSUME ProfileTypes, EditsInv, Pops, UNCHANGED <<at, got, undone>>, overlapped \subseteq overlapped',
         table'.fields = table.fields, table.done => table'.done,
         requests[1].kind = "edit" => requests[1].m \in overlapped'
  PROVE  EditsInv'
<1>1. /\ Apart' /\ NoNewReading /\ AckedInv' /\ ProbeInv'
      /\ \A v \in 1..spoken : Put(v)' => Put(v)
  BY PopsStays DEF EditsInv
<1>2. PutInv'
  BY <1>1, PopsPut DEF EditsInv
<1>3. NewInv'
  BY PopsNew DEF EditsInv, NewInv, Awake
<1> QED BY <1>1, <1>2, <1>3 DEF EditsInv

\* One who edits merges what it is told.
LEMMA PopsMerges ==
  ASSUME ProfileFit, ProfileTypes, EditsInv, Pops, NEW w \in Answerers, NEW b, Base(w, b), Merges(w, b),
         UNCHANGED <<table, undone>>, requests[1].kind # "edit"
  PROVE  EditsInv'
<1>1. NoNewReading /\ \A v \in 1..spoken : Put(v)' => Put(v)
  BY MergesReading, MergesPuts
<1>2. PutInv'
  BY <1>1, PopsPut DEF EditsInv
<1> QED BY <1>2, PopsNoNews, MergesApart, MergesAcked, MergesNew, MergesProbe DEF EditsInv

\* The request sets its edit.
LEMMA StoresEdits ==
  ASSUME ProfileFit, ProfileTypes, EditsInv, Pops, UNCHANGED <<at, got, overlapped>>,
         requests[1].kind = "edit",
         table' = [done |-> TRUE, fields |-> requests[1].fields], 0 \notin {requests[1].fields.depth, requests[1].fields.domain},
         undone' = undone \cup {table.fields[f] : f \in {f \in Edits : f # Says(requests[1].m) /\ table'.fields[f] # table.fields[f]}}
  PROVE  EditsInv'
<1> DEFINE r == requests[1]
<1>1. /\ Apart' /\ NoNewReading /\ AckedInv' /\ ProbeInv'
      /\ \A v \in 1..spoken : Put(v)' => Put(v)
  BY PopsStays DEF EditsInv
<1>2. r.kind = "edit" /\ r.fields \in KnownFields /\ r.fields[Says(r.m)] = r.m /\ (\A f \in Edits : r.fields[f] # 0)
      /\ 1 \in 1..Len(requests) /\ r = requests[1]
  BY PopsLength DEF ProfileTypes, RequestTypes, Says, Edits
<1>3. table'.fields = r.fields /\ table'.done /\ table.fields \in KnownFields /\ script' = script /\ spoken' = spoken
  BY DEF Pops, ProfileTypes, TableTypes
<1>4. \A z \in undone' : z \in undone \/ \E f \in Edits : f # Says(r.m) /\ r.fields[f] # table.fields[f] /\ z = table.fields[f]
  BY <1>3
<1> HIDE DEF r
<1>5. NewInv'
  <2> SUFFICES ASSUME NEW x \in Answerers, Awake(x) PROVE Without(msg[x], table'.fields) /\ msg[x] \notin undone'
    BY PopsNew DEF EditsInv
  <2>1. Without(msg[x], r.fields) /\ Without(msg[x], table.fields) /\ msg[x] \notin undone
    BY <1>2 DEF EditsInv, NewInv, Awake, Edit
  <2> QED BY <1>3, <1>4, <2>1 DEF Without
<1>6. ASSUME NEW v \in 1..spoken, Put(v)'
      PROVE  Says(v) \in Edits /\ v \notin undone' /\ \E k \in 0..Len(requests)' : SetAt(v, k)'
  <2>1. Put(v) /\ Says(v) \in Edits /\ v \notin undone
    BY <1>1, <1>6 DEF EditsInv, PutInv
  <2>2. PICK k \in 0..Len(requests) : SetAt(v, k)
    BY <2>1 DEF EditsInv, PutInv
  <2>3. \A f \in Edits : table.fields[f] = v => f = Says(v)
    <3>1. v # 0 /\ v # Len(script.says) + 1
      BY ProfileConstants DEF ProfileTypes, WalkTypes, SpokenTypes
    <3> QED BY <1>3, <3>1 DEF KnownFields, ToldFields, Says
  <2>4. k \in Nat /\ (k # 0 => k = (k - 1) + 1 /\ k - 1 \in Nat)
    BY PopsLength
  <2>5. CASE k = 0
    <3>1. table.fields[Says(v)] = v /\ r.fields[Says(v)] = v
      BY <1>2, <2>1, <2>2, <2>5 DEF SetAt, Edit, Kept
    <3>2. SetAt(v, 0)'
      BY <1>1, <1>3, <2>2, <2>5, <3>1, PopsSet
    <3>3. v \notin undone'
      BY <1>4, <2>1, <2>3, <3>1
    <3> QED BY <2>1, <3>2, <3>3 DEF SetAt
  <2>6. CASE k = 1
    <3>1. r.m = v
      BY <1>2, <2>2, <2>6 DEF SetAt
    <3>2. SetAt(v, 0)'
      BY <1>1, <1>2, <1>3, <2>2, <2>6, <3>1, PopsSet
    <3>3. v \notin undone'
      BY <1>4, <2>1, <2>3, <3>1
    <3> QED BY <2>1, <3>2, <3>3 DEF SetAt
  <2>7. CASE k > 1
    <3>1. r.fields[Says(v)] # v /\ table.fields[Says(v)] # v
      BY <1>2, <2>2, <2>7 DEF SetAt, Edit
    <3> PICK j \in Nat : j = k - 1 /\ j # 0
      BY <2>4, <2>7
    <3>2. SetAt(v, j)'
      BY <1>1, <1>3, <2>2, <2>4, <2>7, <3>1, PopsSet
    <3>3. v \notin undone'
      BY <1>4, <2>1, <2>3, <3>1
    <3>4. j \in 0..Len(requests)'
      BY <3>2 DEF SetAt
    <3> QED BY <2>1, <3>2, <3>3, <3>4
  <2> QED BY <2>4, <2>5, <2>6, <2>7
<1>7. PutInv'
  BY <1>3, <1>6 DEF PutInv, Says
<1> QED BY <1>1, <1>5, <1>7 DEF EditsInv

\* A sub-agent in editProbe is told the table only when what it reads is all stored.
LEMMA TableBase ==
  ASSUME ProfileTypes, EditsInv, NEW w \in Answerers, 1 \in 1..Len(requests), Reading(requests[1])
  PROVE  Base(w, table.fields)
<1>1. table.fields \in KnownFields
  BY DEF ProfileTypes, TableTypes
<1>2. ASSUME NEW v \in 1..spoken, Acked(v) PROVE Kept(v, table.fields)
  <2>1. Put(v)
    BY <1>2 DEF Acked, Put
  <2>2. PICK k \in 0..Len(requests) : SetAt(v, k)
    BY <2>1 DEF EditsInv, PutInv
  <2>3. k = 0
    BY <2>2, RequestsLength DEF SetAt
  <2> QED BY <2>2, <2>3 DEF SetAt, Kept
<1>3. \A x \in Answerers : Awake(x) => Without(msg[x], table.fields)
  BY DEF EditsInv, NewInv, Awake
<1> QED BY <1>1, <1>2, <1>3 DEF Base

\* The table has what the preferences are when it is not done: nothing is known.
LEMMA HandleEdits == ASSUME ProfileFit, ProfileTypes, EditsInv, Pr!Handle PROVE EditsInv'
<1> DEFINE r == requests[1]
<1>1. Pops /\ UNCHANGED <<storing, finished, refetched>>
      /\ \/ Pr!HandleGetUserPreference(r) \/ Pr!HandleGetChatHistory(r) \/ Pr!HandlePutUserPreference(r)
         \/ Pr!HandlePutChatMessage(r)
  <2>1. Pops /\ UNCHANGED <<storing, finished, refetched>>
    BY DEF Pr!Handle, Pops, Pr!talk, Pr!caches, Pr!story
  <2>2. Head(requests) = r
    BY <2>1, PopsLength
  <2> QED BY <2>1, <2>2 DEF Pr!Handle
<1>2. r.w \in Answerers /\ r.m \in 1..spoken /\ r.fields \in KnownFields /\ 1 \in 1..Len(requests) /\ r = requests[1]
  BY <1>1, PopsLength
<1> HIDE DEF r
<1>3. CASE Pr!HandleGetUserPreference(r)
  <2>0. r.kind = "preferences" /\ UNCHANGED <<table, overlapped, undone>>
    BY <1>3 DEF Pr!HandleGetUserPreference, Pr!stores
  <2>1. CASE Pr!Awaits(r)
    <3>1. Pr!Told(r.w, table.fields, table.done, {}) /\ at[r.w] \in {"probe", "editProbe"} /\ msg[r.w] = r.m
      BY <1>3, <2>0, <2>1 DEF Pr!HandleGetUserPreference, Pr!GetUserPreference, Pr!Awaits
    <3>2. CASE at[r.w] = "probe"
      <4>1. Pr!Goes(r.w, "greet") /\ \E x : Pr!Keeps(r.w, x)
        BY <3>1, <3>2 DEF Pr!Told
      <4> QED BY <1>1, <1>2, <2>0, <3>2, <4>1, PopsAnswers
    <3>3. CASE at[r.w] = "editProbe"
      <4> DEFINE b == IF table.done THEN table.fields ELSE Pr!Unset
      <4>1. Pr!Goes(r.w, "put") /\ Pr!Keeps(r.w, [at |-> "fields", fields |-> Pr!Merged(r.w, b)])
        BY <3>1, <3>3 DEF Pr!Told
      <4>2. Base(r.w, b)
        <5>1. Base(r.w, table.fields)
          BY <1>2, <2>0, <3>1, <3>3, TableBase DEF Reading
        <5>2. Base(r.w, Pr!Unset)
          BY <1>2, UnsetBase DEF EditsInv
        <5> QED BY <5>1, <5>2
      <4> HIDE DEF b
      <4>3. Merges(r.w, b)
        BY <1>1, <2>0, <3>3, <4>1 DEF Merges, Pr!Goes, Pr!Keeps, Pops
      <4> QED BY <1>1, <1>2, <2>0, <4>2, <4>3, PopsMerges
    <3> QED BY <3>1, <3>2, <3>3
  <2>2. CASE ~Pr!Awaits(r)
    <3>1. UNCHANGED <<at, got>>
      BY <1>3, <2>2 DEF Pr!HandleGetUserPreference
    <3> QED BY <1>1, <1>2, <2>0, <3>1, PopsIdle
  <2> QED BY <2>1, <2>2
<1>4. CASE Pr!HandleGetChatHistory(r)
  <2>0. r.kind = "history" /\ UNCHANGED <<table, overlapped, undone>>
    BY <1>4 DEF Pr!HandleGetChatHistory, Pr!stores
  <2>1. CASE Pr!Awaits(r)
    <3>1. Pr!Goes(r.w, "refill") /\ (\E x : Pr!Keeps(r.w, x)) /\ at[r.w] = "history"
      BY <1>4, <2>0, <2>1 DEF Pr!HandleGetChatHistory, Pr!Awaits, Pr!Told
    <3> QED BY <1>1, <1>2, <2>0, <3>1, PopsAnswers
  <2>2. CASE ~Pr!Awaits(r)
    <3>1. UNCHANGED <<at, got>>
      BY <1>4, <2>2 DEF Pr!HandleGetChatHistory
    <3> QED BY <1>1, <1>2, <2>0, <3>1, PopsIdle
  <2> QED BY <2>1, <2>2
<1>5. CASE Pr!HandlePutChatMessage(r)
  <2>1. UNCHANGED <<table, at, got, overlapped, undone>> /\ r.kind # "edit"
    BY <1>5 DEF Pr!HandlePutChatMessage
  <2> QED BY <1>1, <1>2, <2>1, PopsIdle
<1>6. CASE Pr!HandlePutUserPreference(r)
  <2>1. UNCHANGED <<at, got>> /\ r.kind \in {"edit", "onboarded"}
        /\ undone' = undone \cup
             {table.fields[f] : f \in {f \in Edits : f # Says(r.m) /\ table'.fields[f] # table.fields[f]}}
        /\ overlapped' = IF r.kind = "edit" /\ table' = table THEN overlapped \cup {r.m} ELSE overlapped
    BY <1>6 DEF Pr!HandlePutUserPreference, Edits, Pr!Edits, Says, Pr!Says
  <2>2. overlapped \subseteq overlapped'
    BY <2>1
  <2>3. CASE r.kind = "onboarded"
    <3>1. table'.fields = table.fields /\ table'.done
      BY <1>6, <2>3 DEF Pr!HandlePutUserPreference, Pr!PutUserPreference
    <3>2. undone' = undone
      BY <2>1, <3>1
    <3> QED BY <1>1, <1>2, <2>1, <2>2, <2>3, <3>1, <3>2, PopsIdle
  <2>4. CASE r.kind = "edit" /\ table' = table
    <3>1. undone' = undone
      BY <2>1, <2>4
    <3> QED BY <1>1, <1>2, <2>1, <2>2, <2>4, <3>1, PopsIdle
  <2>5. CASE r.kind = "edit" /\ table' # table
    <3>1. table' = [done |-> TRUE, fields |-> r.fields] /\ 0 \notin {r.fields.depth, r.fields.domain}
      BY <1>6, <2>5 DEF Pr!HandlePutUserPreference, Pr!PutUserPreference
    <3>2. overlapped' = overlapped
      BY <2>1, <2>5
    <3> QED BY <1>1, <1>2, <2>1, <2>5, <3>1, <3>2, StoresEdits
  <2> QED BY <2>1, <2>3, <2>4, <2>5
<1> QED BY <1>1, <1>3, <1>4, <1>5, <1>6

LEMMA HandleFailsEdits == ASSUME ProfileFit, ProfileTypes, EditsInv, Pr!HandleFails PROVE EditsInv'
<1> DEFINE r == requests[1]
<1>1. Pops /\ UNCHANGED <<table, undone>>
  BY DEF Pr!HandleFails, Pops, Pr!talk, Pr!caches, Pr!stores
<1>2. Head(requests) = r
  BY <1>1, PopsLength
<1>3. /\ IF r.kind \in Pr!Reads /\ Pr!Awaits(r) THEN Pr!Told(r.w, Pr!Unset, FALSE, {}) ELSE UNCHANGED <<at, got>>
      /\ overlapped' = IF r.kind = "edit" THEN overlapped \cup {r.m} ELSE overlapped
  BY <1>2 DEF Pr!HandleFails
<1>4. r.w \in Answerers /\ r.m \in 1..spoken /\ r.fields \in KnownFields /\ 1 \in 1..Len(requests) /\ r = requests[1]
  BY <1>1, PopsLength
<1> HIDE DEF r
<1>5. overlapped \subseteq overlapped' /\ (r.kind = "edit" => r.m \in overlapped')
  BY <1>3
<1>6. CASE r.kind \in Pr!Reads /\ Pr!Awaits(r)
  <2>1. Pr!Told(r.w, Pr!Unset, FALSE, {}) /\ at[r.w] \in {"probe", "editProbe", "history"} /\ r.kind # "edit"
    BY <1>3, <1>6 DEF Pr!Awaits, Pr!Reads
  <2>2. CASE at[r.w] \in {"probe", "history"}
    <3>1. (Pr!Goes(r.w, "greet") \/ Pr!Goes(r.w, "refill")) /\ \E x : Pr!Keeps(r.w, x)
      BY <2>1, <2>2 DEF Pr!Told
    <3> QED BY <1>1, <1>4, <1>5, <2>1, <2>2, <3>1, PopsAnswers
  <2>3. CASE at[r.w] = "editProbe"
    <3>1. Merges(r.w, Pr!Unset)
      BY <1>1, <1>5, <2>1, <2>3 DEF Pr!Told, Merges, Pr!Goes, Pr!Keeps, Pops
    <3> QED BY <1>1, <1>4, <2>1, <3>1, UnsetBase, PopsMerges DEF EditsInv
  <2> QED BY <2>1, <2>2, <2>3
<1>7. CASE ~(r.kind \in Pr!Reads /\ Pr!Awaits(r))
  BY <1>1, <1>3, <1>4, <1>5, <1>7, PopsIdle
<1> QED BY <1>6, <1>7

(***************************************************************************)
(* Profile: the history.                                                   *)
(***************************************************************************)
\* What happens to a sub-agent that has no history to do with.
Passing(x) ==
  /\ msg'[x] = msg[x] /\ settled'[x] \in {settled[x], {}} /\ at'[x] \notin {"history", "refill"}
  /\ at'[x] = "think" => settled'[x] = {}
  /\ at'[x] \in Before => at[x] \in Before
HistoryRest ==
  /\ UNCHANGED <<finished, chats, refetched>> /\ PushedStores' \subseteq PushedStores
  /\ requests' = requests \/ \E r : requests' = Append(requests, r) /\ r.kind # "history"
  /\ recall' \in {recall, Pr!Nothing}
  /\ \A x \in Answerers : StaysAt(x) \/ (at'[x] = "idle" /\ settled'[x] = {}) \/ Passing(x)

LEMMA StoredGrows ==
  ASSUME ProfileTypes, NEW k \in Nat, NEW l \in Nat, k <= l, NEW m, Stored(m, k),
         chats \subseteq chats', refetched \subseteq refetched',
         \A i \in 1..k : requests'[i] = requests[i]
  PROVE  Stored(m, l)'
BY DEF Stored

LEMMA AddedKeeps ==
  ASSUME ProfileTypes, requests' = requests \/ \E r : requests' = Append(requests, r) /\ r.kind # "history"
  PROVE  /\ Len(requests) \in Nat /\ Len(requests') \in Nat /\ Len(requests) <= Len(requests')
         /\ \A i \in 1..Len(requests) : requests'[i] = requests[i]
         /\ \A i \in 1..Len(requests') : requests'[i].kind = "history" => i \in 1..Len(requests)
<1>1. CASE requests' = requests
  BY <1>1, RequestsLength
<1>2. ASSUME NEW r, requests' = Append(requests, r), r.kind # "history"
      PROVE  /\ Len(requests) \in Nat /\ Len(requests') \in Nat /\ Len(requests) <= Len(requests')
             /\ \A i \in 1..Len(requests) : requests'[i] = requests[i]
             /\ \A i \in 1..Len(requests') : requests'[i].kind = "history" => i \in 1..Len(requests)
  BY <1>2, GrowsAtEnd, RequestsLength
<1> QED BY <1>1, <1>2

LEMMA RestHistory == ASSUME ProfileTypes, HistoryInv, HistoryRest PROVE HistoryInv'
<1>1. /\ Len(requests) \in Nat /\ Len(requests') \in Nat /\ Len(requests) <= Len(requests')
      /\ \A i \in 1..Len(requests) : requests'[i] = requests[i]
      /\ \A i \in 1..Len(requests') : requests'[i].kind = "history" => i \in 1..Len(requests)
  BY AddedKeeps DEF HistoryRest
<1>2. /\ UNCHANGED <<finished, chats, refetched>> /\ PushedStores' \subseteq PushedStores /\ recall' \in {recall, Pr!Nothing}
      /\ \A x \in Answerers : StaysAt(x) \/ (at'[x] = "idle" /\ settled'[x] = {}) \/ Passing(x)
  BY DEF HistoryRest
<1>3. ASSUME NEW m, NEW k \in 0..Len(requests), NEW l \in Nat, k <= l, Stored(m, k) PROVE Stored(m, l)'
  BY <1>1, <1>2, <1>3 DEF Stored
<1> PICK n \in Nat : n = Len(requests')
  BY <1>1
<1>4. PushedInv'
  <2>1. ASSUME NEW m, Stored(m, Len(requests)) PROVE Stored(m, n)'
    BY <1>1, <1>3, <2>1
  <2> QED BY <1>2, <2>1 DEF HistoryInv, PushedInv, Stored
<1>5. FetchInv'
  <2> SUFFICES ASSUME NEW i \in 1..n, requests'[i].kind = "history", Pr!Awaits(requests[i])',
                      NEW m \in finished
               PROVE  Stored(m, i - 1)'
    BY <1>2 DEF FetchInv
  <2>1. i \in 1..Len(requests) /\ requests'[i] = requests[i] /\ requests[i].w \in Answerers
    BY <1>1, RequestsLength
  <2>2. at'[requests[i].w] = "history" /\ msg'[requests[i].w] = requests[i].m
    BY <2>1 DEF Pr!Awaits
  <2>3. StaysAt(requests[i].w)
    BY <1>2, <2>1, <2>2 DEF Passing
  <2>4. Pr!Awaits(requests[i])
    BY <2>1, <2>2, <2>3 DEF Pr!Awaits, StaysAt
  <2>5. Stored(m, i - 1) /\ i - 1 \in 0..Len(requests) /\ i - 1 \in Nat
    BY <1>1, <2>1, <2>4 DEF HistoryInv, FetchInv
  <2> QED BY <1>3, <2>5
<1>6. AskInv'
  <2> SUFFICES ASSUME NEW w \in Answerers, at'[w] \in Before, NEW i \in 1..n, requests'[i].kind = "history",
                      requests'[i].w = w, requests'[i].m = msg'[w]
               PROVE  FALSE
    BY DEF AskInv
  <2>1. i \in 1..Len(requests) /\ requests'[i] = requests[i]
    BY <1>1
  <2>2. at[w] \in Before /\ msg'[w] = msg[w]
    BY <1>2 DEF StaysAt, Passing, Before
  <2> QED BY <2>1, <2>2 DEF HistoryInv, AskInv
<1>7. SeenInv'
  <2>1. recall'.at = "cached" => finished' \subseteq recall'.it \cup refetched'
    BY <1>2 DEF HistoryInv, SeenInv, Pr!Nothing
  <2>2. ASSUME NEW w \in Answerers
        PROVE  /\ settled'[w] \subseteq finished
               /\ at'[w] = "refill" => finished \subseteq got'[w].seen \cup refetched
               /\ at'[w] = "think" => settled'[w] \subseteq got'[w].seen \cup refetched
    BY <1>2 DEF HistoryInv, SeenInv, StaysAt, Passing
  <2> QED BY <1>2, <2>1, <2>2 DEF SeenInv
<1> QED BY <1>4, <1>5, <1>6, <1>7 DEF HistoryInv

LEMMA QuietHistory == ASSUME ProfileTypes, Hushed PROVE HistoryRest
<1>1. ASSUME NEW w \in Answerers, Alone(w), Walks(w) PROVE Passing(w)
  BY <1>1 DEF Walks, Passing, Plain, Before
<1>2. \A x \in Answerers : StaysAt(x) \/ (at'[x] = "idle" /\ settled'[x] = {}) \/ Passing(x)
  BY <1>1 DEF Hushed, Alone, Stops
<1>3. PushedStores' \subseteq PushedStores
  BY DEF Hushed, PushedStores
<1> QED BY <1>2, <1>3 DEF Hushed, HistoryRest

\* One sub-agent goes on, and the history is not concerned.
LEMMA GoesHistory ==
  ASSUME ProfileTypes, NEW w \in Answerers, NEW p, Pr!Goes(w, p),
         UNCHANGED <<msg, settled, finished, chats, refetched>>,
         got' = got \/ \E x : Pr!Keeps(w, x), at[w] \in Before \/ p = "bust", p \notin {"history", "refill", "think"},
         PushedStores' \subseteq PushedStores, recall' \in {recall, Pr!Nothing},
         requests' = requests \/ \E r : requests' = Append(requests, r) /\ r.kind # "history"
  PROVE  HistoryRest
<1>1. Alone(w) /\ at'[w] = p
  BY GoesAlone
<1>2. Passing(w)
  BY <1>1 DEF Passing, Before
<1> QED BY <1>1, <1>2 DEF HistoryRest, Alone

LEMMA StorePreferencesHistory ==
  ASSUME ProfileTypes, NEW w \in Answerers, NEW ok \in BOOLEAN, Pr!StorePreferences(w, ok)
  PROVE  HistoryRest
<1>1. /\ UNCHANGED <<msg, got, settled, finished, chats, refetched, storing, recall>> /\ Pr!Goes(w, "clear") /\ at[w] \in Before
  BY DEF Pr!StorePreferences, Pr!talk, Pr!caches, Pr!stores, Pr!story, Before
<1>2. requests' = requests \/ \E r : requests' = Append(requests, r) /\ r.kind # "history"
  BY DEF Pr!StorePreferences, Pr!Request
<1> QED BY <1>1, <1>2, GoesHistory DEF PushedStores

LEMMA GreetsHistory ==
  ASSUME ProfileTypes, NEW w \in Answerers, NEW ok \in BOOLEAN, Pr!Greets(w, ok)
  PROVE  HistoryRest
<1>1. /\ UNCHANGED <<msg, got, settled, finished, chats, refetched, storing, recall>> /\ at[w] \in Before
      /\ Pr!Goes(w, "limit") \/ Pr!Goes(w, "probe")
  BY DEF Pr!Greets, Pr!talk, Pr!caches, Pr!stores, Pr!story, Before
<1>2. requests' = requests \/ \E r : requests' = Append(requests, r) /\ r.kind # "history"
  BY DEF Pr!Greets, Pr!Request
<1> QED BY <1>1, <1>2, GoesHistory DEF PushedStores

LEMMA ReadProfileHistory == ASSUME ProfileTypes, NEW w \in Answerers, Pr!ReadProfile(w) PROVE HistoryRest
<1>1. /\ UNCHANGED <<msg, settled, finished, chats, refetched, storing, recall>> /\ at[w] \in Before
      /\ Pr!Goes(w, "put") \/ Pr!Goes(w, "editProbe")
      /\ got' = got \/ \E x : Pr!Keeps(w, x)
  BY DEF Pr!ReadProfile, Pr!talk, Pr!caches, Pr!stores, Pr!story, Before
<1>2. requests' = requests \/ \E r : requests' = Append(requests, r) /\ r.kind # "history"
  BY DEF Pr!ReadProfile, Pr!Request
<1> QED BY <1>1, <1>2, GoesHistory DEF PushedStores

LEMMA PutHistory == ASSUME ProfileTypes, NEW w \in Answerers, Pr!Put(w) PROVE HistoryRest
<1>1. /\ UNCHANGED <<msg, got, settled, finished, chats, refetched, storing, recall>> /\ at[w] \in Before
      /\ Pr!Goes(w, "cache")
  BY DEF Pr!Put, Pr!talk, Pr!caches, Pr!stores, Pr!story, Before
<1>2. requests' = requests \/ \E r : requests' = Append(requests, r) /\ r.kind # "history"
  BY DEF Pr!Put, Pr!Request
<1> QED BY <1>1, <1>2, GoesHistory DEF PushedStores

LEMMA ThinkHistory == ASSUME ProfileTypes, NEW w \in Answerers, Pr!Think(w) PROVE HistoryRest
<1>1. /\ UNCHANGED <<msg, got, settled, finished, chats, refetched, requests, recall>> /\ Pr!Goes(w, "bust")
  BY DEF Pr!Think, Pr!talk, Pr!caches, Pr!stores, Pr!story
<1>2. PushedStores' \subseteq PushedStores
  BY DEF Pr!Think, PushedStores
<1> QED BY <1>1, <1>2, GoesHistory

LEMMA CachedHistory ==
  ASSUME ProfileTypes, NEW w \in Answerers, Pr!CacheProfile(w) \/ Pr!CacheFails(w)
  PROVE  HistoryRest
<1>1. /\ UNCHANGED <<finished, chats, refetched, requests, recall, storing>> /\ Pr!Done(w)
  BY DEF Pr!CacheProfile, Pr!CacheFails, Pr!talk, Pr!caches, Pr!stores
<1>2. Alone(w) /\ Stops(w)
  BY <1>1, DoneStops
<1>3. \A x \in Answerers : StaysAt(x) \/ (at'[x] = "idle" /\ settled'[x] = {})
  BY <1>2 DEF Alone, Stops
<1> QED BY <1>1, <1>3 DEF HistoryRest, PushedStores

LEMMA TimesOutHistory == ASSUME ProfileTypes, NEW w \in Answerers, Pr!TimesOut(w) PROVE HistoryRest
<1>1. /\ UNCHANGED <<msg, finished, chats, refetched, requests, recall, storing>> /\ at[w] \in {"probe", "editProbe", "history"}
  BY DEF Pr!TimesOut, Pr!talk, Pr!caches, Pr!stores
<1>2. CASE at[w] = "history"
  <2>1. at' = [at EXCEPT ![w] = "think"] /\ (\E x : Pr!Keeps(w, x)) /\ settled' = [settled EXCEPT ![w] = {}]
    BY <1>2 DEF Pr!TimesOut, Pr!Goes
  <2>2. at'[w] = "think" /\ settled'[w] = {} /\ \A x \in Answerers \ {w} : StaysAt(x)
    BY <1>1, <2>1 DEF ProfileTypes, WalkTypes, SpokenTypes, ReadTypes, StoryTypes, StaysAt, Pr!Keeps
  <2>3. Passing(w)
    BY <1>1, <2>2 DEF Passing, Before
  <2>4. \A x \in Answerers : StaysAt(x) \/ Passing(x)
    BY <2>2, <2>3
  <2> QED BY <1>1, <2>4 DEF HistoryRest, PushedStores
<1>3. CASE at[w] # "history"
  <2>1. (Pr!Goes(w, "greet") \/ Pr!Goes(w, "put")) /\ (\E x : Pr!Keeps(w, x)) /\ settled' = settled /\ at[w] \in Before
    BY <1>1, <1>3 DEF Pr!TimesOut, Pr!Told, Before
  <2> QED BY <1>1, <2>1, GoesHistory DEF PushedStores
<1> QED BY <1>2, <1>3

(***************************************************************************)
(* A message is taken, and its history read.                               *)
(***************************************************************************)
LEMMA TakeHistory ==
  ASSUME ProfileFit, ProfileTypes, HistoryInv, NEW w \in Answerers, Pr!Take(w)
  PROVE  HistoryInv'
<1>0. SpokenTypes /\ ReadTypes /\ StoryTypes
  BY DEF ProfileTypes, WalkTypes
<1>1. /\ spoken \in Nat /\ msg' = [msg EXCEPT ![w] = spoken + 1] /\ settled' = [settled EXCEPT ![w] = finished] /\ at[w] = "idle"
      /\ UNCHANGED <<requests, recall, chats, finished, refetched, storing>>
  BY <1>0 DEF Pr!Take, SpokenTypes, Pr!caches, Pr!stores
<1>2. at'[w] \in {"wizard", "reply"} /\ msg'[w] = spoken + 1 /\ settled'[w] = finished
      /\ \A x \in Answerers \ {w} : StaysAt(x)
  BY <1>0, <1>1 DEF SpokenTypes, ReadTypes, StoryTypes, Pr!Take, Pr!NeedsConsent, Pr!Goes, Pr!Keeps, StaysAt
<1>3. PushedInv'
  BY <1>1 DEF HistoryInv, PushedInv, PushedStores, Stored
<1>4. FetchInv'
  <2>1. \A i \in 1..Len(requests) : requests[i].kind = "history" /\ Pr!Awaits(requests[i])' => Pr!Awaits(requests[i])
    BY <1>1, <1>2, RequestsLength DEF Pr!Awaits, StaysAt
  <2> QED BY <1>1, <2>1 DEF HistoryInv, FetchInv, Stored
<1>5. AskInv'
  <2> SUFFICES ASSUME NEW x \in Answerers, at'[x] \in Before, NEW i \in 1..Len(requests),
                      requests[i].kind = "history",
                      requests[i].w = x, requests[i].m = msg'[x]
               PROVE  FALSE
    BY <1>1 DEF AskInv
  <2>1. x # w
    BY <1>1, <1>2, RequestsLength
  <2> QED BY <1>2, <2>1 DEF HistoryInv, AskInv, StaysAt
<1>6. SeenInv'
  BY <1>1, <1>2 DEF HistoryInv, SeenInv, StaysAt
<1> QED BY <1>3, <1>4, <1>5, <1>6 DEF HistoryInv

LEMMA GetHistoryHistory ==
  ASSUME ProfileFit, ProfileTypes, HistoryInv, NEW w \in Answerers, Pr!GetHistory(w)
  PROVE  HistoryInv'
<1>0. SpokenTypes /\ ReadTypes /\ StoryTypes
  BY DEF ProfileTypes, WalkTypes
<1>1. UNCHANGED <<msg, settled, recall, chats, finished, refetched, storing>> /\ at[w] = "chat"
  BY DEF Pr!GetHistory, Pr!talk, Pr!caches, Pr!stores, Pr!story
<1>2. CASE recall.at = "cached"
  <2>1. at' = [at EXCEPT ![w] = "think"] /\ got' = [got EXCEPT ![w] = [at |-> "seen", seen |-> recall.it]] /\ requests' = requests
    BY <1>2 DEF Pr!GetHistory, Pr!Is, Pr!Goes, Pr!Keeps
  <2>2. at'[w] = "think" /\ got'[w].seen = recall.it /\ \A x \in Answerers \ {w} : StaysAt(x)
    BY <1>0, <1>1, <2>1 DEF SpokenTypes, ReadTypes, StaysAt
  <2>3. PushedInv'
    BY <1>1, <2>1 DEF HistoryInv, PushedInv, PushedStores, Stored
  <2>4. FetchInv'
    <3>1. \A i \in 1..Len(requests) : requests[i].kind = "history" /\ Pr!Awaits(requests[i])' => Pr!Awaits(requests[i])
      BY <2>1, <2>2, RequestsLength DEF Pr!Awaits, StaysAt
    <3> QED BY <1>1, <2>1, <3>1 DEF HistoryInv, FetchInv, Stored
  <2>5. AskInv'
    <3>1. \A x \in Answerers : at'[x] \in Before => StaysAt(x)
      BY <2>2 DEF Before
    <3> QED BY <2>1, <3>1 DEF HistoryInv, AskInv, StaysAt
  <2>6. SeenInv'
    <3>1. settled[w] \subseteq recall.it \cup refetched
      BY <1>2 DEF HistoryInv, SeenInv
    <3> QED BY <1>1, <2>2, <3>1 DEF HistoryInv, SeenInv, StaysAt
  <2> QED BY <2>3, <2>4, <2>5, <2>6 DEF HistoryInv
<1>3. CASE recall.at # "cached"
  <2> DEFINE r == [kind |-> "history", w |-> w, m |-> msg[w], fields |-> Pr!Unset]
  <2>1. at' = [at EXCEPT ![w] = "history"] /\ got' = got /\ requests' = Append(requests, r)
    BY <1>3 DEF Pr!GetHistory, Pr!Is, Pr!Goes, Pr!Request
  <2>2. at'[w] = "history" /\ \A x \in Answerers \ {w} : StaysAt(x)
    BY <1>0, <1>1, <2>1 DEF SpokenTypes, StaysAt
  <2>3. /\ Len(requests') = Len(requests) + 1 /\ Len(requests) \in Nat /\ requests'[Len(requests) + 1] = r
        /\ \A i \in 1..Len(requests) : requests'[i] = requests[i]
    BY <2>1, GrowsAtEnd, RequestsLength
  <2> PICK n \in Nat : n = Len(requests)
    BY <2>3
  <2>4. r.w = w /\ r.kind = "history"
    OBVIOUS
  <2> HIDE DEF r
  <2>5. ASSUME NEW m, NEW k \in 0..n, NEW l \in Nat, k <= l, Stored(m, k) PROVE Stored(m, l)'
    BY <1>1, <2>3, <2>5 DEF Stored
  <2>6. PushedInv'
    <3> PICK l \in Nat : l = Len(requests') /\ n <= l
      BY <2>3
    <3>1. \A m : Stored(m, n) => Stored(m, l)'
      BY <2>3, <2>5
    <3> QED BY <1>1, <3>1 DEF HistoryInv, PushedInv, PushedStores, Stored
  <2>7. FetchInv'
    <3> SUFFICES ASSUME NEW i \in 1..n + 1, requests'[i].kind = "history", Pr!Awaits(requests[i])',
                        NEW m \in finished
                 PROVE  Stored(m, i - 1)'
      BY <1>1, <2>3 DEF FetchInv
    <3>1. CASE i = n + 1
      <4>1. Stored(m, n)
        BY DEF HistoryInv, PushedInv
      <4> QED BY <2>5, <3>1, <4>1
    <3>2. CASE i \in 1..n
      <4>1. requests'[i] = requests[i] /\ requests[i].w \in Answerers
        BY <2>3, <3>2, RequestsLength
      <4>2. at'[requests[i].w] = "history" /\ msg[requests[i].w] = requests[i].m
        BY <1>1, <4>1 DEF Pr!Awaits
      <4>3. requests[i].w # w
        BY <1>1, <3>2, <4>1, <4>2 DEF HistoryInv, AskInv, Before
      <4>4. Pr!Awaits(requests[i])
        BY <2>2, <4>1, <4>2, <4>3 DEF Pr!Awaits, StaysAt
      <4>5. Stored(m, i - 1) /\ i - 1 \in 0..n /\ i - 1 \in Nat
        BY <3>2, <4>1, <4>4 DEF HistoryInv, FetchInv
      <4> QED BY <2>5, <4>5
    <3> QED BY <3>1, <3>2
  <2>8. AskInv'
    <3> SUFFICES ASSUME NEW x \in Answerers, at'[x] \in Before, NEW i \in 1..n + 1,
                        requests'[i].kind = "history",
                        requests'[i].w = x, requests'[i].m = msg'[x]
                 PROVE  FALSE
      BY <2>3 DEF AskInv
    <3>1. x # w /\ at[x] \in Before /\ msg'[x] = msg[x]
      BY <2>2 DEF Before, StaysAt
    <3>2. i \in 1..n /\ requests'[i] = requests[i]
      BY <2>3, <2>4, <3>1
    <3> QED BY <3>1, <3>2 DEF HistoryInv, AskInv
  <2>9. SeenInv'
    BY <1>1, <2>2 DEF HistoryInv, SeenInv, StaysAt
  <2> QED BY <2>6, <2>7, <2>8, <2>9 DEF HistoryInv
<1> QED BY <1>2, <1>3

LEMMA RefillHistory ==
  ASSUME ProfileFit, ProfileTypes, HistoryInv, NEW w \in Answerers, Pr!Refill(w)
  PROVE  HistoryInv'
<1>0. SpokenTypes /\ ReadTypes /\ StoryTypes
  BY DEF ProfileTypes, WalkTypes
<1>1. UNCHANGED <<msg, got, settled, chats, finished, refetched, storing, requests>> /\ at[w] = "refill"
      /\ at' = [at EXCEPT ![w] = "think"] /\ recall' = Pr!Cached(got[w].seen)
  BY DEF Pr!Refill, Pr!talk, Pr!stores, Pr!story, Pr!Goes
<1>2. at'[w] = "think" /\ (\A x \in Answerers \ {w} : StaysAt(x)) /\ recall'.it = got[w].seen
  BY <1>0, <1>1 DEF SpokenTypes, StaysAt, Pr!Cached
<1>3. PushedInv'
  BY <1>1 DEF HistoryInv, PushedInv, PushedStores, Stored
<1>4. FetchInv'
  <2>1. \A i \in 1..Len(requests) : requests[i].kind = "history" /\ Pr!Awaits(requests[i])' => Pr!Awaits(requests[i])
    BY <1>1, <1>2, RequestsLength DEF Pr!Awaits, StaysAt
  <2> QED BY <1>1, <2>1 DEF HistoryInv, FetchInv, Stored
<1>5. AskInv'
  <2>1. \A x \in Answerers : at'[x] \in Before => StaysAt(x)
    BY <1>2 DEF Before
  <2> QED BY <1>1, <2>1 DEF HistoryInv, AskInv, StaysAt
<1>6. SeenInv'
  BY <1>1, <1>2 DEF HistoryInv, SeenInv, StaysAt
<1> QED BY <1>3, <1>4, <1>5, <1>6 DEF HistoryInv

(***************************************************************************)
(* What is said is stored.                                                 *)
(***************************************************************************)
LEMMA StorePushHistory ==
  ASSUME ProfileFit, ProfileTypes, HistoryInv, NEW t \in storing, Pr!StorePush(t)
  PROVE  HistoryInv'
<1> DEFINE r == [kind |-> "chat", w |-> t.w, m |-> t.item, fields |-> Pr!Unset]
           u == [t EXCEPT !.pushed = TRUE]
<1>1. /\ UNCHANGED <<at, msg, got, settled, chats, finished, refetched, recall>> /\ requests' = Append(requests, r)
      /\ storing' = (storing \ {t}) \cup {u}
  BY DEF Pr!StorePush, Pr!talk, Pr!caches, Pr!stores, Pr!story
<1>2. r.kind = "chat" /\ r.m = t.item /\ u.item = t.item
  BY DEF ProfileTypes, StoryTypes
<1>3. /\ Len(requests') = Len(requests) + 1 /\ Len(requests) \in Nat /\ requests'[Len(requests) + 1] = r
      /\ \A i \in 1..Len(requests) : requests'[i] = requests[i]
  BY <1>1, GrowsAtEnd, RequestsLength
<1> HIDE DEF r, u
<1> PICK n \in Nat : n = Len(requests)
  BY <1>3
<1>4. ASSUME NEW m, NEW k \in 0..n, NEW l \in Nat, k <= l, Stored(m, k) PROVE Stored(m, l)'
  BY <1>1, <1>3, <1>4 DEF Stored
<1>5. PushedInv'
  <2> PICK l \in Nat : l = Len(requests') /\ l = n + 1
    BY <1>3
  <2>1. \A m : Stored(m, n) => Stored(m, l)'
    BY <1>4
  <2>2. Stored(u.item, l)'
    BY <1>2, <1>3 DEF Stored
  <2> QED BY <1>1, <2>1, <2>2 DEF HistoryInv, PushedInv, PushedStores, Stored
<1>6. FetchInv'
  <2> SUFFICES ASSUME NEW i \in 1..n + 1, requests'[i].kind = "history", Pr!Awaits(requests[i])',
                      NEW m \in finished
               PROVE  Stored(m, i - 1)'
    BY <1>1, <1>3 DEF FetchInv
  <2>1. i \in 1..n /\ requests'[i] = requests[i]
    BY <1>2, <1>3
  <2>2. Pr!Awaits(requests[i])
    BY <1>1, <2>1 DEF Pr!Awaits
  <2>3. Stored(m, i - 1) /\ i - 1 \in 0..n /\ i - 1 \in Nat
    BY <2>1, <2>2 DEF HistoryInv, FetchInv
  <2> QED BY <1>4, <2>3
<1>7. AskInv'
  <2>1. \A i \in 1..n + 1 : requests'[i].kind = "history" => i \in 1..n /\ requests'[i] = requests[i]
    BY <1>2, <1>3
  <2> QED BY <1>1, <1>3, <2>1 DEF HistoryInv, AskInv
<1>8. SeenInv'
  BY <1>1 DEF HistoryInv, SeenInv
<1> QED BY <1>5, <1>6, <1>7, <1>8 DEF HistoryInv

LEMMA StoreDeleteHistory ==
  ASSUME ProfileFit, ProfileTypes, HistoryInv, NEW t \in storing, Pr!StoreDelete(t)
  PROVE  HistoryInv'
<1>1. /\ UNCHANGED <<at, msg, got, settled, chats, requests>> /\ recall' = Pr!Nothing /\ finished' = finished \cup {t.item}
      /\ storing' = storing \ {t} /\ t.pushed
      /\ refetched' = IF \E w \in Answerers : at[w] \in {"history", "refill"} THEN refetched \cup {t.item} ELSE refetched
  BY DEF Pr!StoreDelete, Pr!talk, Pr!caches, Pr!stores
<1>2. refetched \subseteq refetched' /\ recall'.at # "cached"
  BY <1>1 DEF Pr!Nothing
<1>3. \A m, k : Stored(m, k) => Stored(m, k)'
  BY <1>1, <1>2 DEF Stored
<1>4. PushedInv'
  <2>1. Stored(t.item, Len(requests))
    BY <1>1 DEF HistoryInv, PushedInv, PushedStores
  <2> QED BY <1>1, <1>3, <2>1 DEF HistoryInv, PushedInv, PushedStores, Stored
<1>5. FetchInv'
  <2> SUFFICES ASSUME NEW i \in 1..Len(requests), requests[i].kind = "history", Pr!Awaits(requests[i]),
                      NEW m \in finished'
               PROVE  Stored(m, i - 1)'
    BY <1>1 DEF FetchInv, Pr!Awaits
  <2>1. CASE m \in finished
    BY <1>3, <2>1 DEF HistoryInv, FetchInv
  <2>2. CASE m = t.item
    <3>1. at[requests[i].w] = "history" /\ requests[i].w \in Answerers
      BY RequestsLength DEF Pr!Awaits
    <3>2. m \in refetched'
      BY <1>1, <2>2, <3>1
    <3> QED BY <3>2 DEF Stored
  <2> QED BY <1>1, <2>1, <2>2
<1>6. AskInv'
  BY <1>1 DEF HistoryInv, AskInv
<1>7. SeenInv'
  BY <1>1, <1>2 DEF HistoryInv, SeenInv
<1> QED BY <1>4, <1>5, <1>6, <1>7 DEF HistoryInv

\* The gateway and the history.
HistoryPops ==
  /\ Pops /\ UNCHANGED <<finished, storing, recall>> /\ chats \subseteq chats' /\ refetched \subseteq refetched'
  /\ requests[1].kind = "chat" => requests[1].m \in chats' \cup refetched'
HistoryTold ==
  \A x \in Answerers :
    \/ StaysAt(x)
    \/ /\ msg'[x] = msg[x] /\ settled'[x] \subseteq settled[x] /\ at'[x] \notin {"history", "think"}
       /\ at'[x] \in Before => at[x] \in Before
       /\ at'[x] = "refill" => finished \subseteq got'[x].seen \cup refetched'

LEMMA PopsHistory == ASSUME ProfileTypes, HistoryInv, HistoryPops, HistoryTold PROVE HistoryInv'
<1>1. /\ Len(requests) = Len(requests') + 1 /\ Len(requests') \in Nat /\ 1 \in 1..Len(requests)
      /\ \A i \in 1..Len(requests') : requests'[i] = requests[i + 1] /\ i + 1 \in 1..Len(requests)
  BY PopsLength DEF HistoryPops
<1>2. UNCHANGED <<finished, storing, recall>> /\ chats \subseteq chats' /\ refetched \subseteq refetched'
  BY DEF HistoryPops
<1>3. ASSUME NEW m, NEW k \in 0..Len(requests'), Stored(m, k + 1) PROVE Stored(m, k)'
  <2>1. CASE m \in chats \cup refetched
    BY <1>2, <2>1 DEF Stored
  <2>2. ASSUME NEW j \in 1..k + 1, requests[j].kind = "chat", requests[j].m = m PROVE Stored(m, k)'
    <3>1. CASE j = 1
      BY <2>2, <3>1 DEF HistoryPops, Stored
    <3>2. CASE j # 1
      <4> DEFINE i == j - 1
      <4>1. i \in 1..k /\ i \in 1..Len(requests') /\ i + 1 = j
        BY <1>1, <3>2
      <4> HIDE DEF i
      <4>2. requests'[i] = requests[j]
        BY <1>1, <4>1
      <4> QED BY <2>2, <4>1, <4>2 DEF Stored
    <3> QED BY <3>1, <3>2
  <2> QED BY <1>3, <2>1, <2>2 DEF Stored
<1> PICK n \in Nat : n = Len(requests')
  BY <1>1
<1>4. PushedInv'
  <2>1. \A m : Stored(m, Len(requests)) => Stored(m, n)'
    BY <1>1, <1>3
  <2> QED BY <1>2, <2>1 DEF HistoryInv, PushedInv, PushedStores, Stored
<1>5. FetchInv'
  <2> SUFFICES ASSUME NEW i \in 1..n, requests'[i].kind = "history", Pr!Awaits(requests[i])',
                      NEW m \in finished
               PROVE  Stored(m, i - 1)'
    BY <1>2 DEF FetchInv
  <2>1. i + 1 \in 1..Len(requests) /\ requests'[i] = requests[i + 1] /\ requests[i + 1].w \in Answerers
    BY <1>1, RequestsLength
  <2>2. at'[requests[i + 1].w] = "history" /\ msg'[requests[i + 1].w] = requests[i + 1].m
    BY <2>1 DEF Pr!Awaits
  <2>3. StaysAt(requests[i + 1].w)
    BY <2>1, <2>2 DEF HistoryTold
  <2>4. Pr!Awaits(requests[i + 1])
    BY <2>1, <2>2, <2>3 DEF Pr!Awaits, StaysAt
  <2>5. Stored(m, (i + 1) - 1)
    BY <2>1, <2>4 DEF HistoryInv, FetchInv
  <2>6. (i + 1) - 1 = (i - 1) + 1 /\ i - 1 \in 0..n
    OBVIOUS
  <2> QED BY <1>3, <2>5, <2>6
<1>6. AskInv'
  <2> SUFFICES ASSUME NEW w \in Answerers, at'[w] \in Before, NEW i \in 1..n, requests'[i].kind = "history",
                      requests'[i].w = w, requests'[i].m = msg'[w]
               PROVE  FALSE
    BY DEF AskInv
  <2>1. at[w] \in Before /\ msg'[w] = msg[w]
    BY DEF HistoryTold, StaysAt
  <2> QED BY <1>1, <2>1 DEF HistoryInv, AskInv
<1>7. SeenInv'
  <2>1. recall'.at = "cached" => finished' \subseteq recall'.it \cup refetched'
    BY <1>2 DEF HistoryInv, SeenInv
  <2>2. ASSUME NEW w \in Answerers
        PROVE  /\ settled'[w] \subseteq finished
               /\ at'[w] = "refill" => finished \subseteq got'[w].seen \cup refetched'
               /\ at'[w] = "think" => settled'[w] \subseteq got'[w].seen \cup refetched'
    BY <1>2 DEF HistoryInv, SeenInv, HistoryTold, StaysAt
  <2> QED BY <1>2, <2>1, <2>2 DEF SeenInv
<1> QED BY <1>4, <1>5, <1>6, <1>7 DEF HistoryInv

LEMMA FirstAwaited == ASSUME ProfileTypes, HistoryInv, 1 \in 1..Len(requests), requests[1].kind = "history", Pr!Awaits(requests[1])
  PROVE finished \subseteq chats \cup refetched
<1>1. \A m \in finished : Stored(m, 1 - 1)
  BY DEF HistoryInv, FetchInv
<1> QED BY <1>1 DEF Stored

LEMMA HandleHistory == ASSUME ProfileFit, ProfileTypes, HistoryInv, Pr!Handle PROVE HistoryInv'
<1> DEFINE r == requests[1]
<1>1. Pops /\ UNCHANGED <<storing, finished, refetched, settled, recall, msg>>
      /\ \/ Pr!HandleGetUserPreference(r) \/ Pr!HandleGetChatHistory(r) \/ Pr!HandlePutUserPreference(r)
         \/ Pr!HandlePutChatMessage(r)
  <2>1. Pops /\ UNCHANGED <<storing, finished, refetched, settled, recall, msg>>
    BY DEF Pr!Handle, Pops, Pr!talk, Pr!caches, Pr!story
  <2>2. Head(requests) = r
    BY <2>1, PopsLength
  <2> QED BY <2>1, <2>2 DEF Pr!Handle
<1>2. r.w \in Answerers /\ r.m \in 1..spoken /\ 1 \in 1..Len(requests) /\ r = requests[1]
  BY <1>1, PopsLength
<1> HIDE DEF r
<1>3. chats \subseteq chats' /\ (r.kind = "chat" => r.m \in chats')
  BY <1>1 DEF Pr!HandleGetUserPreference, Pr!HandleGetChatHistory, Pr!HandlePutUserPreference,
     Pr!HandlePutChatMessage, Pr!stores
<1>4. HistoryPops
  BY <1>1, <1>2, <1>3 DEF HistoryPops
<1>5. CASE UNCHANGED <<at, got>>
  <2>1. HistoryTold
    BY <1>1, <1>5 DEF HistoryTold, StaysAt
  <2> QED BY <1>4, <2>1, PopsHistory
<1>6. CASE Pr!HandleGetUserPreference(r) /\ Pr!Awaits(r)
  <2>1. Pr!Told(r.w, table.fields, table.done, {}) /\ at[r.w] \in {"probe", "editProbe"}
    BY <1>6 DEF Pr!HandleGetUserPreference, Pr!GetUserPreference, Pr!Awaits
  <2>2. (Pr!Goes(r.w, "greet") \/ Pr!Goes(r.w, "put")) /\ \E x : Pr!Keeps(r.w, x)
    BY <2>1 DEF Pr!Told
  <2>3. Alone(r.w) /\ at'[r.w] \in {"greet", "put"}
    BY <1>1, <1>2, <2>2, GoesAlone
  <2>4. HistoryTold
    BY <1>1, <2>1, <2>3 DEF HistoryTold, Alone, Before
  <2> QED BY <1>4, <2>4, PopsHistory
<1>7. CASE Pr!HandleGetChatHistory(r) /\ Pr!Awaits(r)
  <2>1. Pr!Goes(r.w, "refill") /\ Pr!Keeps(r.w, [at |-> "seen", seen |-> chats]) /\ r.kind = "history"
    BY <1>7 DEF Pr!HandleGetChatHistory, Pr!GetChatHistory, Pr!Awaits, Pr!Told
  <2>2. Alone(r.w) /\ at'[r.w] = "refill"
    BY <1>1, <1>2, <2>1, GoesAlone
  <2>3. got'[r.w].seen = chats
    BY <1>2, <2>1 DEF Pr!Keeps, ProfileTypes, WalkTypes, ReadTypes
  <2>4. finished \subseteq chats \cup refetched
    BY <1>2, <1>7, <2>1, FirstAwaited
  <2>5. HistoryTold
    BY <1>1, <2>2, <2>3, <2>4 DEF HistoryTold, Alone, Before
  <2> QED BY <1>4, <2>5, PopsHistory
<1>8. (Pr!HandleGetUserPreference(r) /\ Pr!Awaits(r)) \/ (Pr!HandleGetChatHistory(r) /\ Pr!Awaits(r)) \/ UNCHANGED <<at, got>>
  BY <1>1 DEF Pr!HandleGetUserPreference, Pr!HandleGetChatHistory, Pr!HandlePutUserPreference,
     Pr!HandlePutChatMessage
<1> QED BY <1>5, <1>6, <1>7, <1>8

LEMMA HandleFailsHistory == ASSUME ProfileFit, ProfileTypes, HistoryInv, Pr!HandleFails PROVE HistoryInv'
<1> DEFINE r == requests[1]
<1>1. Pops /\ UNCHANGED <<storing, finished, recall, msg, chats>>
  BY DEF Pr!HandleFails, Pops, Pr!talk, Pr!caches, Pr!stores
<1>2. Head(requests) = r
  BY <1>1, PopsLength
<1>3. /\ IF r.kind \in Pr!Reads /\ Pr!Awaits(r) THEN Pr!Told(r.w, Pr!Unset, FALSE, {}) ELSE UNCHANGED <<at, got>>
      /\ settled' = IF r.kind = "history" /\ Pr!Awaits(r) THEN [settled EXCEPT ![r.w] = {}] ELSE settled
      /\ refetched' = CASE r.kind = "history" -> refetched \cup finished
                        [] r.kind = "chat" -> refetched \cup {r.m}
                        [] OTHER -> refetched
  BY <1>2 DEF Pr!HandleFails
<1>4. r.w \in Answerers /\ r.m \in 1..spoken /\ 1 \in 1..Len(requests) /\ r = requests[1]
  BY <1>1, PopsLength
<1> HIDE DEF r
<1>5. refetched \subseteq refetched' /\ (r.kind = "chat" => r.m \in refetched') /\ (r.kind = "history" => finished \subseteq refetched')
  BY <1>3
<1>6. HistoryPops
  BY <1>1, <1>4, <1>5 DEF HistoryPops
<1>7. CASE r.kind \in Pr!Reads /\ Pr!Awaits(r)
  <2>1. Pr!Told(r.w, Pr!Unset, FALSE, {}) /\ at[r.w] \in {"probe", "editProbe", "history"} /\ (at[r.w] = "history" <=> r.kind = "history")
    BY <1>3, <1>7 DEF Pr!Awaits, Pr!Reads
  <2>2. PICK p \in {"greet", "put", "refill"} : Pr!Goes(r.w, p) /\ (\E x : Pr!Keeps(r.w, x)) /\ (p = "refill" <=> r.kind = "history")
    BY <2>1 DEF Pr!Told
  <2>3. settled' = [settled EXCEPT ![r.w] = settled'[r.w]] /\ settled'[r.w] \subseteq settled[r.w]
    BY <1>3, <1>4, <1>7 DEF ProfileTypes, StoryTypes
  <2>4. (\A x \in Answerers \ {r.w} : StaysAt(x)) /\ at'[r.w] = p
    BY <1>1, <1>4, <2>2, <2>3 DEF ProfileTypes, WalkTypes, SpokenTypes, ReadTypes, StoryTypes, StaysAt,
       Pr!Goes, Pr!Keeps
  <2>5. HistoryTold
    BY <1>1, <1>5, <2>1, <2>2, <2>3, <2>4 DEF HistoryTold, Before
  <2> QED BY <1>6, <2>5, PopsHistory
<1>8. CASE ~(r.kind \in Pr!Reads /\ Pr!Awaits(r))
  <2>1. UNCHANGED <<at, got, settled>>
    BY <1>3, <1>8 DEF Pr!Reads
  <2>2. HistoryTold
    BY <1>1, <2>1 DEF HistoryTold, StaysAt
  <2> QED BY <1>6, <2>2, PopsHistory
<1> QED BY <1>7, <1>8

(***************************************************************************)
(* Profile: the wizard.                                                    *)
(***************************************************************************)
Meets(p) == p \in {"probe", "greet"}
WizardRest ==
  /\ UNCHANGED <<wizards, excused>> /\ (greeted => greeted')
  /\ \A x \in Answerers : (Meets(at'[x]) => Meets(at[x])) /\ (at'[x] = "activate" => at[x] = "activate")

LEMMA MeetingCounts ==
  ASSUME WizardInv
  PROVE  /\ Cardinality(Meeting) \in Nat /\ Cardinality(Starting) \in Nat
         /\ Meeting # {} => Cardinality(Meeting) >= 1
<1>1. IsFiniteSet(Meeting) /\ IsFiniteSet(Starting)
  BY DEF WizardInv
<1>2. Cardinality(Meeting) \in Nat /\ Cardinality(Starting) \in Nat
  BY <1>1, FS_CardinalityType
<1>3. Meeting # {} => Cardinality(Meeting) # 0
  BY <1>1, FS_EmptySet
<1> QED BY <1>2, <1>3

LEMMA RestWizard == ASSUME WizardInv, WizardRest PROVE WizardInv'
<1>0. IsFiniteSet(Meeting) /\ IsFiniteSet(Starting)
  BY DEF WizardInv
<1>1. Meeting' \subseteq Meeting /\ Starting' \subseteq Starting
  BY DEF WizardRest, Meeting, Starting, Meets
<1>2. /\ IsFiniteSet(Meeting') /\ Cardinality(Meeting') <= Cardinality(Meeting) /\ Cardinality(Meeting') \in Nat
      /\ IsFiniteSet(Starting') /\ Cardinality(Starting') <= Cardinality(Starting) /\ Cardinality(Starting') \in Nat
  BY <1>0, <1>1, FS_Subset, FS_CardinalityType
<1>3. Meeting' = {} => Cardinality(Meeting') = 0
  BY FS_EmptySet
<1>4. wizards \in Nat /\ excused \in Nat /\ wizards' = wizards /\ excused' = excused /\ (greeted => greeted')
      /\ wizards + Cardinality(Meeting) + Cardinality(Starting)
           <= excused + (IF greeted \/ Meeting # {} THEN 1 ELSE 0)
  BY DEF WizardInv, WizardRest
<1> DEFINE c == Cardinality(Meeting)  d == Cardinality(Meeting')  s == Cardinality(Starting)  t == Cardinality(Starting')
<1>5. /\ c \in Nat /\ d \in Nat /\ s \in Nat /\ t \in Nat /\ d <= c /\ t <= s
      /\ (Meeting # {} => c >= 1) /\ (Meeting' = {} => d = 0)
      /\ wizards + c + s <= excused + (IF greeted \/ Meeting # {} THEN 1 ELSE 0)
  BY <1>2, <1>3, <1>4, MeetingCounts
<1> HIDE DEF c, d, s, t
<1>6. wizards + d + t <= excused + (IF greeted' \/ Meeting' # {} THEN 1 ELSE 0)
  BY <1>4, <1>5
<1> QED BY <1>2, <1>4, <1>6 DEF WizardInv, d, t

LEMMA GoesWizard ==
  ASSUME ProfileTypes, NEW w \in Answerers, NEW p, Pr!Goes(w, p), ~Meets(p), p # "activate",
         UNCHANGED <<wizards, excused, greeted>>
  PROVE  WizardRest
<1>1. at'[w] = p /\ \A x \in Answerers \ {w} : at'[x] = at[x]
  BY DEF Pr!Goes, ProfileTypes, WalkTypes, SpokenTypes
<1> QED BY <1>1 DEF WizardRest

LEMMA StaysWizard == ASSUME UNCHANGED <<at, wizards, excused, greeted>> PROVE WizardRest
BY DEF WizardRest

LEMMA TakeWizard == ASSUME ProfileTypes, NEW w \in Answerers, Pr!Take(w) PROVE WizardRest
<1>1. UNCHANGED <<wizards, excused, greeted>>
  BY DEF Pr!Take, Pr!memory, Pr!ghosts
<1>2. PICK p \in {"wizard", "reply"} : Pr!Goes(w, p)
  BY DEF Pr!Take, Pr!NeedsConsent
<1> QED BY <1>1, <1>2, GoesWizard DEF Meets

LEMMA ConsentsWizard == ASSUME ProfileTypes, NEW w \in Answerers, Pr!Consents(w) PROVE WizardRest
<1>1. UNCHANGED <<wizards, excused, greeted>>
  BY DEF Pr!Consents, Pr!memory, Pr!ghosts
<1>2. PICK p \in {"wizard"} : Pr!Goes(w, p)
  BY DEF Pr!Consents
<1> QED BY <1>1, <1>2, GoesWizard DEF Meets

LEMMA AsksWizard == ASSUME ProfileTypes, NEW w \in Answerers, Pr!Asks(w) PROVE WizardRest
<1>1. UNCHANGED <<wizards, excused, greeted>>
  BY DEF Pr!Asks, Pr!memory, Pr!ghosts
<1>2. PICK p \in {"idle"} : Pr!Goes(w, p)
  BY DEF Pr!Asks, Pr!Done
<1> QED BY <1>1, <1>2, GoesWizard DEF Meets

LEMMA AnswersWizard == ASSUME ProfileTypes, NEW w \in Answerers, Pr!Answers(w) PROVE WizardRest
<1>1. UNCHANGED <<wizards, excused, greeted>>
  BY DEF Pr!Answers, Pr!memory, Pr!ghosts
<1>2. PICK p \in {"store", "idle"} : Pr!Goes(w, p)
  BY DEF Pr!Answers, Pr!Done
<1> QED BY <1>1, <1>2, GoesWizard DEF Meets

LEMMA ClearStateWizard == ASSUME ProfileTypes, NEW w \in Answerers, Pr!ClearState(w) PROVE WizardRest
<1>1. UNCHANGED <<wizards, excused, greeted>>
  BY DEF Pr!ClearState, Pr!memory, Pr!ghosts
<1>2. PICK p \in {"idle"} : Pr!Goes(w, p)
  BY DEF Pr!ClearState, Pr!Done
<1> QED BY <1>1, <1>2, GoesWizard DEF Meets

LEMMA AllowedWizard == ASSUME ProfileTypes, NEW w \in Answerers, Pr!Allowed(w) PROVE WizardRest
<1>1. UNCHANGED <<wizards, excused, greeted>>
  BY DEF Pr!Allowed, Pr!memory, Pr!ghosts
<1>2. PICK p \in {"edit", "bust", "chat"} : Pr!Goes(w, p)
  BY DEF Pr!Allowed
<1> QED BY <1>1, <1>2, GoesWizard DEF Meets

LEMMA RefusedWizard == ASSUME ProfileTypes, NEW w \in Answerers, Pr!Refused(w) PROVE WizardRest
<1>1. UNCHANGED <<wizards, excused, greeted>>
  BY DEF Pr!Refused, Pr!memory, Pr!ghosts
<1>2. PICK p \in {"idle"} : Pr!Goes(w, p)
  BY DEF Pr!Refused, Pr!Done
<1> QED BY <1>1, <1>2, GoesWizard DEF Meets

LEMMA ReadProfileWizard == ASSUME ProfileTypes, NEW w \in Answerers, Pr!ReadProfile(w) PROVE WizardRest
<1>1. UNCHANGED <<wizards, excused, greeted>>
  BY DEF Pr!ReadProfile, Pr!memory, Pr!ghosts
<1>2. PICK p \in {"put", "editProbe"} : Pr!Goes(w, p)
  BY DEF Pr!ReadProfile
<1> QED BY <1>1, <1>2, GoesWizard DEF Meets

LEMMA PutWizard == ASSUME ProfileTypes, NEW w \in Answerers, Pr!Put(w) PROVE WizardRest
<1>1. UNCHANGED <<wizards, excused, greeted>>
  BY DEF Pr!Put, Pr!memory, Pr!ghosts
<1>2. PICK p \in {"cache"} : Pr!Goes(w, p)
  BY DEF Pr!Put
<1> QED BY <1>1, <1>2, GoesWizard DEF Meets

LEMMA PutFailsWizard == ASSUME ProfileTypes, NEW w \in Answerers, Pr!PutFails(w) PROVE WizardRest
<1>1. UNCHANGED <<wizards, excused, greeted>>
  BY DEF Pr!PutFails, Pr!memory, Pr!ghosts
<1>2. PICK p \in {"idle"} : Pr!Goes(w, p)
  BY DEF Pr!PutFails, Pr!Done
<1> QED BY <1>1, <1>2, GoesWizard DEF Meets

LEMMA CacheProfileWizard == ASSUME ProfileTypes, NEW w \in Answerers, Pr!CacheProfile(w) PROVE WizardRest
<1>1. UNCHANGED <<wizards, excused, greeted>>
  BY DEF Pr!CacheProfile, Pr!memory, Pr!ghosts
<1>2. PICK p \in {"idle"} : Pr!Goes(w, p)
  BY DEF Pr!CacheProfile, Pr!Done
<1> QED BY <1>1, <1>2, GoesWizard DEF Meets

LEMMA CacheFailsWizard == ASSUME ProfileTypes, NEW w \in Answerers, Pr!CacheFails(w) PROVE WizardRest
<1>1. UNCHANGED <<wizards, excused, greeted>>
  BY DEF Pr!CacheFails, Pr!memory, Pr!ghosts
<1>2. PICK p \in {"idle"} : Pr!Goes(w, p)
  BY DEF Pr!CacheFails, Pr!Done
<1> QED BY <1>1, <1>2, GoesWizard DEF Meets

LEMMA GetHistoryWizard == ASSUME ProfileTypes, NEW w \in Answerers, Pr!GetHistory(w) PROVE WizardRest
<1>1. UNCHANGED <<wizards, excused, greeted>>
  BY DEF Pr!GetHistory, Pr!memory, Pr!ghosts
<1>2. PICK p \in {"think", "history"} : Pr!Goes(w, p)
  BY DEF Pr!GetHistory
<1> QED BY <1>1, <1>2, GoesWizard DEF Meets

LEMMA RefillWizard == ASSUME ProfileTypes, NEW w \in Answerers, Pr!Refill(w) PROVE WizardRest
<1>1. UNCHANGED <<wizards, excused, greeted>>
  BY DEF Pr!Refill, Pr!memory, Pr!ghosts
<1>2. PICK p \in {"think"} : Pr!Goes(w, p)
  BY DEF Pr!Refill
<1> QED BY <1>1, <1>2, GoesWizard DEF Meets

LEMMA ThinkWizard == ASSUME ProfileTypes, NEW w \in Answerers, Pr!Think(w) PROVE WizardRest
<1>1. UNCHANGED <<wizards, excused, greeted>>
  BY DEF Pr!Think, Pr!memory, Pr!ghosts
<1>2. PICK p \in {"bust"} : Pr!Goes(w, p)
  BY DEF Pr!Think
<1> QED BY <1>1, <1>2, GoesWizard DEF Meets

LEMMA BustWizard == ASSUME ProfileTypes, NEW w \in Answerers, Pr!Bust(w) PROVE WizardRest
<1>1. UNCHANGED <<wizards, excused, greeted>>
  BY DEF Pr!Bust, Pr!memory, Pr!ghosts
<1>2. PICK p \in {"idle"} : Pr!Goes(w, p)
  BY DEF Pr!Bust, Pr!Done
<1> QED BY <1>1, <1>2, GoesWizard DEF Meets

LEMMA DiesWizard == ASSUME ProfileTypes, NEW w \in Answerers, Pr!Dies(w) PROVE WizardRest
<1>1. UNCHANGED <<wizards, excused, greeted>>
  BY DEF Pr!Dies, Pr!memory, Pr!ghosts
<1>2. PICK p \in {"idle"} : Pr!Goes(w, p)
  BY DEF Pr!Dies, Pr!Done
<1> QED BY <1>1, <1>2, GoesWizard DEF Meets

LEMMA LoadStateWizard ==
  ASSUME ProfileTypes, NEW w \in Answerers, NEW ok \in BOOLEAN, Pr!LoadState(w, ok)
  PROVE  WizardRest
<1>1. UNCHANGED <<wizards, excused, greeted>>
  BY DEF Pr!LoadState, Pr!memory, Pr!ghosts
<1>2. PICK p \in {"limit", "answer", "greeting"} : Pr!Goes(w, p)
  BY DEF Pr!LoadState
<1> QED BY <1>1, <1>2, GoesWizard DEF Meets

LEMMA StorePreferencesWizard ==
  ASSUME ProfileTypes, NEW w \in Answerers, NEW ok \in BOOLEAN, Pr!StorePreferences(w, ok)
  PROVE  WizardRest
<1>1. UNCHANGED <<wizards, excused, greeted>>
  BY DEF Pr!StorePreferences, Pr!memory, Pr!ghosts
<1>2. PICK p \in {"clear"} : Pr!Goes(w, p)
  BY DEF Pr!StorePreferences
<1> QED BY <1>1, <1>2, GoesWizard DEF Meets

LEMMA ToldWizard ==
  ASSUME ProfileTypes, NEW w \in Answerers, NEW b, NEW isKnown, NEW h, Pr!Told(w, b, isKnown, h),
         at[w] \in {"probe", "editProbe", "history"},
         UNCHANGED <<wizards, excused, greeted>>
  PROVE  WizardRest
<1>1. CASE at[w] = "probe"
  <2>1. at'[w] = "greet" /\ \A x \in Answerers \ {w} : at'[x] = at[x]
    BY <1>1 DEF Pr!Told, Pr!Goes, ProfileTypes, WalkTypes, SpokenTypes
  <2> QED BY <1>1, <2>1 DEF WizardRest, Meets
<1>2. CASE at[w] # "probe"
  <2>1. PICK p \in {"put", "refill"} : Pr!Goes(w, p)
    BY <1>2 DEF Pr!Told
  <2> QED BY <2>1, GoesWizard DEF Meets
<1> QED BY <1>1, <1>2

LEMMA TimesOutWizard == ASSUME ProfileTypes, NEW w \in Answerers, Pr!TimesOut(w) PROVE WizardRest
<1>1. UNCHANGED <<wizards, excused, greeted>> /\ at[w] \in {"probe", "editProbe", "history"}
  BY DEF Pr!TimesOut, Pr!memory, Pr!ghosts
<1>2. Pr!Goes(w, "think") \/ Pr!Told(w, Pr!Unset, FALSE, {})
  BY DEF Pr!TimesOut
<1> QED BY <1>1, <1>2, ToldWizard, GoesWizard DEF Meets

LEMMA HandleWizard == ASSUME ProfileTypes, Pr!Handle PROVE WizardRest
<1> DEFINE r == Head(requests)
<1>1. /\ UNCHANGED <<wizards, excused, greeted>> /\ requests # <<>> /\ requests' = Tail(requests) /\ UNCHANGED <<script, spoken>>
      /\ \/ Pr!HandleGetUserPreference(r) \/ Pr!HandleGetChatHistory(r) \/ Pr!HandlePutUserPreference(r)
         \/ Pr!HandlePutChatMessage(r)
  BY DEF Pr!Handle, Pr!memory, Pr!talk
<1>2. r.w \in Answerers
  BY <1>1, FirstRequest
<1> HIDE DEF r
<1>3. \/ UNCHANGED at
      \/ /\ at[r.w] \in {"probe", "editProbe", "history"}
         /\ Pr!Told(r.w, table.fields, table.done, {}) \/ Pr!Told(r.w, Pr!Unset, FALSE, chats)
  BY <1>1 DEF Pr!HandleGetUserPreference, Pr!HandleGetChatHistory, Pr!HandlePutUserPreference,
     Pr!HandlePutChatMessage, Pr!Awaits, Pr!GetUserPreference, Pr!GetChatHistory
<1> QED BY <1>1, <1>2, <1>3, ToldWizard, StaysWizard

LEMMA HandleFailsWizard == ASSUME ProfileTypes, Pr!HandleFails PROVE WizardRest
<1> DEFINE r == Head(requests)
<1>1. /\ UNCHANGED <<wizards, excused, greeted>> /\ requests # <<>> /\ requests' = Tail(requests) /\ UNCHANGED <<script, spoken>>
      /\ IF r.kind \in Pr!Reads /\ Pr!Awaits(r) THEN Pr!Told(r.w, Pr!Unset, FALSE, {}) ELSE UNCHANGED <<at, got>>
  BY DEF Pr!HandleFails, Pr!memory, Pr!talk
<1>2. r.w \in Answerers
  BY <1>1, FirstRequest
<1> HIDE DEF r
<1>3. UNCHANGED at \/ (at[r.w] \in {"probe", "editProbe", "history"} /\ Pr!Told(r.w, Pr!Unset, FALSE, {}))
  BY <1>1 DEF Pr!Awaits, Pr!Reads
<1> QED BY <1>1, <1>2, <1>3, ToldWizard, StaysWizard

\* Who goes to the probe is one more that meets.
LEMMA GreetsWizard ==
  ASSUME ProfileTypes, WizardInv, NEW w \in Answerers, NEW ok \in BOOLEAN, Pr!Greets(w, ok)
  PROVE  WizardInv'
<1>0. at[w] = "greeting" /\ UNCHANGED <<wizards, greeted>> /\ greeted \in BOOLEAN
  BY DEF Pr!Greets, Pr!memory, ProfileTypes, MemoryTypes
<1>1. CASE greeted /\ ok
  <2>1. Pr!Goes(w, "limit") /\ excused' = excused
    BY <1>1 DEF Pr!Greets
  <2> QED BY <1>0, <2>1, GoesWizard, RestWizard DEF Meets
<1>2. CASE ~(greeted /\ ok)
  <2>1. at' = [at EXCEPT ![w] = "probe"]
    BY <1>2 DEF Pr!Greets, Pr!Goes
  <2>2. at'[w] = "probe" /\ \A x \in Answerers \ {w} : at'[x] = at[x]
    BY <2>1 DEF ProfileTypes, WalkTypes, SpokenTypes
  <2>3. Meeting' = Meeting \cup {w} /\ w \notin Meeting /\ Starting' = Starting
    BY <1>0, <2>2 DEF Meeting, Starting
  <2>4. IsFiniteSet(Meeting) /\ IsFiniteSet(Starting)
    BY DEF WizardInv
  <2>5. IsFiniteSet(Meeting') /\ Cardinality(Meeting') = Cardinality(Meeting) + 1
    BY <2>3, <2>4, FS_AddElement
  <2>6. (greeted \/ Meeting # {} => excused' = excused + 1) /\ (excused' = excused \/ excused' = excused + 1)
    <3>1. excused' = IF ~ok \/ (~greeted /\ \E v \in Answerers \ {w} : at[v] \in {"probe", "greet"})
                     THEN excused + 1 ELSE excused
      BY DEF Pr!Greets
    <3>2. Meeting # {} => \E v \in Answerers \ {w} : at[v] \in {"probe", "greet"}
      BY <1>0 DEF Meeting
    <3>3. CASE greeted
      BY <1>2, <3>1, <3>3
    <3>4. CASE ~greeted
      BY <3>1, <3>2, <3>4
    <3> QED BY <3>3, <3>4
  <2>7. /\ wizards \in Nat /\ excused \in Nat
        /\ wizards + Cardinality(Meeting) + Cardinality(Starting) <= excused + (IF greeted \/ Meeting # {} THEN 1 ELSE 0)
        /\ Meeting = {} => Cardinality(Meeting) = 0
    BY FS_EmptySet DEF WizardInv
  <2> DEFINE c == Cardinality(Meeting)  d == Cardinality(Meeting')  s == Cardinality(Starting)
  <2>8. /\ c \in Nat /\ d = c + 1 /\ s \in Nat /\ wizards + c + s <= excused + (IF greeted \/ Meeting # {} THEN 1 ELSE 0)
    BY <2>5, <2>7, MeetingCounts
  <2> HIDE DEF c, d, s
  <2>9. wizards + d + s <= excused' + 1 /\ excused' \in Nat
    <3>1. CASE greeted \/ Meeting # {}
      BY <2>6, <2>7, <2>8, <3>1
    <3>2. CASE ~(greeted \/ Meeting # {})
      <4>0. (IF greeted \/ Meeting # {} THEN 1 ELSE 0) = 0
        BY <3>2, Zenon
      <4>1. wizards + c + s <= excused
        <5> DEFINE e == IF greeted \/ Meeting # {} THEN 1 ELSE 0
        <5>1. e = 0 /\ wizards + c + s <= excused + e
          BY <2>8, <4>0
        <5> HIDE DEF e
        <5> QED BY <2>7, <2>8, <5>1
      <4> QED BY <2>6, <2>7, <2>8, <4>1
    <3> QED BY <3>1, <3>2
  <2>10. Meeting' # {}
    BY <2>3
  <2> QED BY <1>0, <2>3, <2>4, <2>5, <2>7, <2>9, <2>10 DEF WizardInv, d, s
<1> QED BY <1>1, <1>2

LEMMA MarksWizard ==
  ASSUME ProfileTypes, WizardInv, NEW w \in Answerers, NEW ok \in BOOLEAN, Pr!Marks(w, ok)
  PROVE  WizardInv'
<1>0. at[w] = "greet" /\ UNCHANGED wizards /\ greeted' = (greeted \/ ok) /\ greeted \in BOOLEAN
  BY DEF Pr!Marks, ProfileTypes, MemoryTypes
<1>1. PICK p \in {"activate", "limit"} : at' = [at EXCEPT ![w] = p]
  BY DEF Pr!Marks, Pr!Goes
<1>2. at'[w] = p /\ \A x \in Answerers \ {w} : at'[x] = at[x]
  BY <1>1 DEF ProfileTypes, WalkTypes, SpokenTypes
<1>3. Meeting' = Meeting \ {w} /\ w \in Meeting /\ w \notin Starting
      /\ Starting' \in {Starting, Starting \cup {w}}
  BY <1>0, <1>2 DEF Meeting, Starting
<1>4. IsFiniteSet(Meeting) /\ IsFiniteSet(Starting)
  BY DEF WizardInv
<1>5. IsFiniteSet(Meeting') /\ Cardinality(Meeting') = Cardinality(Meeting) - 1
  BY <1>3, <1>4, FS_RemoveElement
<1>6. IsFiniteSet(Starting') /\ Cardinality(Starting') \in {Cardinality(Starting), Cardinality(Starting) + 1}
  BY <1>3, <1>4, FS_AddElement
<1>7. wizards \in Nat /\ excused \in Nat /\ (IF ok THEN excused' = excused ELSE excused' = excused + 1)
      /\ wizards + Cardinality(Meeting) + Cardinality(Starting) <= excused + 1
  BY <1>3 DEF WizardInv, Pr!Marks
<1> DEFINE c == Cardinality(Meeting)  d == Cardinality(Meeting')  s == Cardinality(Starting)  t == Cardinality(Starting')
<1>8. c \in Nat /\ d = c - 1 /\ s \in Nat /\ t \in {s, s + 1} /\ wizards + c + s <= excused + 1
  BY <1>5, <1>6, <1>7, MeetingCounts
<1> HIDE DEF c, d, s, t
<1>9. wizards + d + t <= excused' + (IF greeted' \/ Meeting' # {} THEN 1 ELSE 0) /\ excused' \in Nat
  BY <1>0, <1>7, <1>8
<1> QED BY <1>0, <1>5, <1>6, <1>7, <1>9 DEF WizardInv, d, t

LEMMA ActivatesWizard ==
  ASSUME ProfileTypes, WizardInv, NEW w \in Answerers, Pr!Activates(w)
  PROVE  WizardInv'
<1>0. at[w] = "activate" /\ wizards' = wizards + 1 /\ UNCHANGED <<greeted, excused>> /\ at' = [at EXCEPT ![w] = "idle"]
  BY DEF Pr!Activates, Pr!Done, Pr!Goes
<1>2. at'[w] = "idle" /\ \A x \in Answerers \ {w} : at'[x] = at[x]
  BY <1>0 DEF ProfileTypes, WalkTypes, SpokenTypes
<1>3. Meeting' = Meeting /\ Starting' = Starting \ {w} /\ w \in Starting
  BY <1>0, <1>2 DEF Meeting, Starting
<1>4. IsFiniteSet(Meeting) /\ IsFiniteSet(Starting)
  BY DEF WizardInv
<1>5. IsFiniteSet(Starting') /\ Cardinality(Starting') = Cardinality(Starting) - 1
  BY <1>3, <1>4, FS_RemoveElement
<1> DEFINE c == Cardinality(Meeting)  s == Cardinality(Starting)  t == Cardinality(Starting')
<1>6. /\ wizards \in Nat /\ excused \in Nat /\ c \in Nat /\ s \in Nat /\ t = s - 1
      /\ wizards + c + s <= excused + (IF greeted \/ Meeting # {} THEN 1 ELSE 0)
  BY <1>5, MeetingCounts DEF WizardInv
<1> HIDE DEF c, s, t
<1>7. (wizards + 1) + c + t <= excused + (IF greeted \/ Meeting # {} THEN 1 ELSE 0)
  BY <1>6
<1> QED BY <1>0, <1>3, <1>4, <1>5, <1>6, <1>7 DEF WizardInv, c, t

(***************************************************************************)
(* Profile: the invariant.                                                 *)
(***************************************************************************)
LEMMA ProfileInit == ASSUME ProfileFit, Pr!Init PROVE ProfileInv
<1>1. ProfileTypes
  BY ProfileTypesInit
<1>2. /\ requests = <<>> /\ acked = {} /\ overlapped = {} /\ undone = {} /\ storing = {} /\ finished = {} /\ recall = Pr!Nothing
      /\ wizards = 0 /\ excused = 0 /\ \A w \in Answerers : at[w] = "idle" /\ settled[w] = {}
  BY DEF Pr!Init
<1>3. Len(requests) = 0
  BY <1>2
<1>4. EditsInv
  BY <1>2, <1>3 DEF EditsInv, Apart, PutInv, AckedInv, NewInv, ProbeInv, Editor, EditPlaces, Put, Acked
<1>5. HistoryInv
  BY <1>2, <1>3 DEF HistoryInv, PushedInv, PushedStores, FetchInv, AskInv, SeenInv, Before, Pr!Nothing
<1>6. Meeting = {} /\ Starting = {}
  BY <1>2 DEF Meeting, Starting
<1>7. WizardInv
  BY <1>2, <1>6, FS_EmptySet DEF WizardInv
<1> QED BY <1>1, <1>4, <1>5, <1>7 DEF ProfileInv

LEMMA ProfileWorks ==
  ASSUME ProfileFit, ProfileInv, NEW w \in Answerers, Pr!Works(w)
  PROVE  ProfileInv'
<1>0. ProfileTypes /\ EditsInv /\ HistoryInv /\ WizardInv
  BY DEF ProfileInv
<1>1. CASE Pr!Take(w)
  <2>1. ProfileTypes'
    BY <1>0, <1>1, TakeTypes
  <2>2. EditsInv'
    BY <1>0, <1>1, TakeEdits
  <2>3. HistoryInv'
    BY <1>0, <1>1, TakeHistory
  <2>4. WizardInv'
    BY <1>0, <1>1, TakeWizard, RestWizard
  <2> QED BY <2>1, <2>2, <2>3, <2>4 DEF ProfileInv
<1>2. CASE Pr!Consents(w)
  <2>1. ProfileTypes'
    BY <1>0, <1>2, ConsentsTypes
  <2>2. EditsInv'
    BY <1>0, <1>2, ConsentsQuiet, QuietRest, RestEdits
  <2>3. HistoryInv'
    BY <1>0, <1>2, ConsentsQuiet, QuietHistory, RestHistory
  <2>4. WizardInv'
    BY <1>0, <1>2, ConsentsWizard, RestWizard
  <2> QED BY <2>1, <2>2, <2>3, <2>4 DEF ProfileInv
<1>3. CASE Pr!Asks(w)
  <2>1. ProfileTypes'
    BY <1>0, <1>3, AsksTypes
  <2>2. EditsInv'
    BY <1>0, <1>3, AsksQuiet, QuietRest, RestEdits
  <2>3. HistoryInv'
    BY <1>0, <1>3, AsksQuiet, QuietHistory, RestHistory
  <2>4. WizardInv'
    BY <1>0, <1>3, AsksWizard, RestWizard
  <2> QED BY <2>1, <2>2, <2>3, <2>4 DEF ProfileInv
<1>4. CASE Pr!Answers(w)
  <2>1. ProfileTypes'
    BY <1>0, <1>4, AnswersTypes
  <2>2. EditsInv'
    BY <1>0, <1>4, AnswersQuiet, QuietRest, RestEdits
  <2>3. HistoryInv'
    BY <1>0, <1>4, AnswersQuiet, QuietHistory, RestHistory
  <2>4. WizardInv'
    BY <1>0, <1>4, AnswersWizard, RestWizard
  <2> QED BY <2>1, <2>2, <2>3, <2>4 DEF ProfileInv
<1>5. CASE Pr!ClearState(w)
  <2>1. ProfileTypes'
    BY <1>0, <1>5, ClearStateTypes
  <2>2. EditsInv'
    BY <1>0, <1>5, ClearStateQuiet, QuietRest, RestEdits
  <2>3. HistoryInv'
    BY <1>0, <1>5, ClearStateQuiet, QuietHistory, RestHistory
  <2>4. WizardInv'
    BY <1>0, <1>5, ClearStateWizard, RestWizard
  <2> QED BY <2>1, <2>2, <2>3, <2>4 DEF ProfileInv
<1>6. CASE Pr!Activates(w)
  <2>1. ProfileTypes'
    BY <1>0, <1>6, ActivatesTypes
  <2>2. EditsInv'
    BY <1>0, <1>6, ActivatesQuiet, QuietRest, RestEdits
  <2>3. HistoryInv'
    BY <1>0, <1>6, ActivatesQuiet, QuietHistory, RestHistory
  <2>4. WizardInv'
    BY <1>0, <1>6, ActivatesWizard
  <2> QED BY <2>1, <2>2, <2>3, <2>4 DEF ProfileInv
<1>7. CASE Pr!Allowed(w)
  <2>1. ProfileTypes'
    BY <1>0, <1>7, AllowedTypes
  <2>2. EditsInv'
    BY <1>0, <1>7, AllowedQuiet, QuietRest, RestEdits
  <2>3. HistoryInv'
    BY <1>0, <1>7, AllowedQuiet, QuietHistory, RestHistory
  <2>4. WizardInv'
    BY <1>0, <1>7, AllowedWizard, RestWizard
  <2> QED BY <2>1, <2>2, <2>3, <2>4 DEF ProfileInv
<1>8. CASE Pr!Refused(w)
  <2>1. ProfileTypes'
    BY <1>0, <1>8, RefusedTypes
  <2>2. EditsInv'
    BY <1>0, <1>8, RefusedQuiet, QuietRest, RestEdits
  <2>3. HistoryInv'
    BY <1>0, <1>8, RefusedQuiet, QuietHistory, RestHistory
  <2>4. WizardInv'
    BY <1>0, <1>8, RefusedWizard, RestWizard
  <2> QED BY <2>1, <2>2, <2>3, <2>4 DEF ProfileInv
<1>9. CASE Pr!ReadProfile(w)
  <2>1. ProfileTypes'
    BY <1>0, <1>9, ReadProfileTypes
  <2>2. EditsInv'
    BY <1>0, <1>9, ReadProfileEdits
  <2>3. HistoryInv'
    BY <1>0, <1>9, ReadProfileHistory, RestHistory
  <2>4. WizardInv'
    BY <1>0, <1>9, ReadProfileWizard, RestWizard
  <2> QED BY <2>1, <2>2, <2>3, <2>4 DEF ProfileInv
<1>10. CASE Pr!Put(w)
  <2>1. ProfileTypes'
    BY <1>0, <1>10, PutTypes
  <2>2. EditsInv'
    BY <1>0, <1>10, PutEdits
  <2>3. HistoryInv'
    BY <1>0, <1>10, PutHistory, RestHistory
  <2>4. WizardInv'
    BY <1>0, <1>10, PutWizard, RestWizard
  <2> QED BY <2>1, <2>2, <2>3, <2>4 DEF ProfileInv
<1>11. CASE Pr!PutFails(w)
  <2>1. ProfileTypes'
    BY <1>0, <1>11, PutFailsTypes
  <2>2. EditsInv'
    BY <1>0, <1>11, PutFailsQuiet, QuietRest, RestEdits
  <2>3. HistoryInv'
    BY <1>0, <1>11, PutFailsQuiet, QuietHistory, RestHistory
  <2>4. WizardInv'
    BY <1>0, <1>11, PutFailsWizard, RestWizard
  <2> QED BY <2>1, <2>2, <2>3, <2>4 DEF ProfileInv
<1>12. CASE Pr!CacheProfile(w)
  <2>1. ProfileTypes'
    BY <1>0, <1>12, CacheProfileTypes
  <2>2. EditsInv'
    BY <1>0, <1>12, CacheProfileEdits
  <2>3. HistoryInv'
    BY <1>0, <1>12, CachedHistory, RestHistory
  <2>4. WizardInv'
    BY <1>0, <1>12, CacheProfileWizard, RestWizard
  <2> QED BY <2>1, <2>2, <2>3, <2>4 DEF ProfileInv
<1>13. CASE Pr!CacheFails(w)
  <2>1. ProfileTypes'
    BY <1>0, <1>13, CacheFailsTypes
  <2>2. EditsInv'
    BY <1>0, <1>13, CacheFailsRest, RestEdits
  <2>3. HistoryInv'
    BY <1>0, <1>13, CachedHistory, RestHistory
  <2>4. WizardInv'
    BY <1>0, <1>13, CacheFailsWizard, RestWizard
  <2> QED BY <2>1, <2>2, <2>3, <2>4 DEF ProfileInv
<1>14. CASE Pr!GetHistory(w)
  <2>1. ProfileTypes'
    BY <1>0, <1>14, GetHistoryTypes
  <2>2. EditsInv'
    BY <1>0, <1>14, GetHistoryRest, RestEdits
  <2>3. HistoryInv'
    BY <1>0, <1>14, GetHistoryHistory
  <2>4. WizardInv'
    BY <1>0, <1>14, GetHistoryWizard, RestWizard
  <2> QED BY <2>1, <2>2, <2>3, <2>4 DEF ProfileInv
<1>15. CASE Pr!Refill(w)
  <2>1. ProfileTypes'
    BY <1>0, <1>15, RefillTypes
  <2>2. EditsInv'
    BY <1>0, <1>15, RefillRest, RestEdits
  <2>3. HistoryInv'
    BY <1>0, <1>15, RefillHistory
  <2>4. WizardInv'
    BY <1>0, <1>15, RefillWizard, RestWizard
  <2> QED BY <2>1, <2>2, <2>3, <2>4 DEF ProfileInv
<1>16. CASE Pr!Think(w)
  <2>1. ProfileTypes'
    BY <1>0, <1>16, ThinkTypes
  <2>2. EditsInv'
    BY <1>0, <1>16, ThinkRest, RestEdits
  <2>3. HistoryInv'
    BY <1>0, <1>16, ThinkHistory, RestHistory
  <2>4. WizardInv'
    BY <1>0, <1>16, ThinkWizard, RestWizard
  <2> QED BY <2>1, <2>2, <2>3, <2>4 DEF ProfileInv
<1>17. CASE Pr!Bust(w)
  <2>1. ProfileTypes'
    BY <1>0, <1>17, BustTypes
  <2>2. EditsInv'
    BY <1>0, <1>17, BustQuiet, QuietRest, RestEdits
  <2>3. HistoryInv'
    BY <1>0, <1>17, BustQuiet, QuietHistory, RestHistory
  <2>4. WizardInv'
    BY <1>0, <1>17, BustWizard, RestWizard
  <2> QED BY <2>1, <2>2, <2>3, <2>4 DEF ProfileInv
<1>18. CASE Pr!TimesOut(w)
  <2>1. ProfileTypes'
    BY <1>0, <1>18, TimesOutTypes
  <2>2. EditsInv'
    BY <1>0, <1>18, TimesOutEdits
  <2>3. HistoryInv'
    BY <1>0, <1>18, TimesOutHistory, RestHistory
  <2>4. WizardInv'
    BY <1>0, <1>18, TimesOutWizard, RestWizard
  <2> QED BY <2>1, <2>2, <2>3, <2>4 DEF ProfileInv
<1>19. CASE Pr!Dies(w)
  <2>1. ProfileTypes'
    BY <1>0, <1>19, DiesTypes
  <2>2. EditsInv'
    BY <1>0, <1>19, DiesQuiet, QuietRest, RestEdits
  <2>3. HistoryInv'
    BY <1>0, <1>19, DiesQuiet, QuietHistory, RestHistory
  <2>4. WizardInv'
    BY <1>0, <1>19, DiesWizard, RestWizard
  <2> QED BY <2>1, <2>2, <2>3, <2>4 DEF ProfileInv
<1>20. ASSUME NEW ok \in BOOLEAN, Pr!LoadState(w, ok) PROVE ProfileInv'
  <2>1. ProfileTypes'
    BY <1>0, <1>20, LoadStateTypes
  <2>2. EditsInv'
    BY <1>0, <1>20, LoadStateQuiet, QuietRest, RestEdits
  <2>3. HistoryInv'
    BY <1>0, <1>20, LoadStateQuiet, QuietHistory, RestHistory
  <2>4. WizardInv'
    BY <1>0, <1>20, LoadStateWizard, RestWizard
  <2> QED BY <2>1, <2>2, <2>3, <2>4 DEF ProfileInv
<1>21. ASSUME NEW ok \in BOOLEAN, Pr!StorePreferences(w, ok) PROVE ProfileInv'
  <2>1. ProfileTypes'
    BY <1>0, <1>21, StorePreferencesTypes
  <2>2. EditsInv'
    BY <1>0, <1>21, StorePreferencesRest, RestEdits
  <2>3. HistoryInv'
    BY <1>0, <1>21, StorePreferencesHistory, RestHistory
  <2>4. WizardInv'
    BY <1>0, <1>21, StorePreferencesWizard, RestWizard
  <2> QED BY <2>1, <2>2, <2>3, <2>4 DEF ProfileInv
<1>22. ASSUME NEW ok \in BOOLEAN, Pr!Greets(w, ok) PROVE ProfileInv'
  <2>1. ProfileTypes'
    BY <1>0, <1>22, GreetsTypes
  <2>2. EditsInv'
    BY <1>0, <1>22, GreetsRest, RestEdits
  <2>3. HistoryInv'
    BY <1>0, <1>22, GreetsHistory, RestHistory
  <2>4. WizardInv'
    BY <1>0, <1>22, GreetsWizard
  <2> QED BY <2>1, <2>2, <2>3, <2>4 DEF ProfileInv
<1>23. ASSUME NEW ok \in BOOLEAN, Pr!Marks(w, ok) PROVE ProfileInv'
  <2>1. ProfileTypes'
    BY <1>0, <1>23, MarksTypes
  <2>2. EditsInv'
    BY <1>0, <1>23, MarksQuiet, QuietRest, RestEdits
  <2>3. HistoryInv'
    BY <1>0, <1>23, MarksQuiet, QuietHistory, RestHistory
  <2>4. WizardInv'
    BY <1>0, <1>23, MarksWizard
  <2> QED BY <2>1, <2>2, <2>3, <2>4 DEF ProfileInv
<1> QED BY <1>1, <1>2, <1>3, <1>4, <1>5, <1>6, <1>7, <1>8, <1>9, <1>10, <1>11, <1>12, <1>13, <1>14, <1>15,
     <1>16, <1>17, <1>18, <1>19, <1>20, <1>21, <1>22, <1>23 DEF Pr!Works

LEMMA ProfileStep ==
  ASSUME ProfileFit, ProfileInv, [Pr!Next]_(Pr!vars)
  PROVE  ProfileInv'
<1>0. ProfileTypes /\ EditsInv /\ HistoryInv /\ WizardInv
  BY DEF ProfileInv
<1>1. ASSUME NEW w \in Answerers, Pr!Works(w) PROVE ProfileInv'
  BY <1>1, ProfileWorks
<1>2. ASSUME NEW t \in storing, Pr!StorePush(t) PROVE ProfileInv'
  <2>1. WizardRest
    BY <1>2, StaysWizard DEF Pr!StorePush, Pr!memory, Pr!ghosts
  <2> QED BY <1>0, <1>2, <2>1, StorePushTypes, StorePushRest, RestEdits, StorePushHistory, RestWizard
       DEF ProfileInv
<1>3. ASSUME NEW t \in storing, Pr!StoreDelete(t) PROVE ProfileInv'
  <2>1. WizardRest
    BY <1>3, StaysWizard DEF Pr!StoreDelete, Pr!memory, Pr!ghosts
  <2> QED BY <1>0, <1>3, <2>1, StoreDeleteTypes, StoreDeleteRest, RestEdits, StoreDeleteHistory, RestWizard
       DEF ProfileInv
<1>4. CASE Pr!Handle
  BY <1>0, <1>4, HandleTypes, HandleEdits, HandleHistory, HandleWizard, RestWizard DEF ProfileInv
<1>5. CASE Pr!HandleFails
  BY <1>0, <1>5, HandleFailsTypes, HandleFailsEdits, HandleFailsHistory, HandleFailsWizard, RestWizard
     DEF ProfileInv
<1>6. CASE Pr!Expires
  <2>1. WizardRest
    BY <1>6, StaysWizard DEF Pr!Expires, Pr!ghosts
  <2> QED BY <1>0, <1>6, <2>1, ExpiresTypes, ExpiresQuiet, QuietRest, RestEdits, QuietHistory, RestHistory,
       RestWizard DEF ProfileInv
<1>7. CASE UNCHANGED Pr!vars
  <2>1. WizardRest
    BY <1>7, StaysWizard DEF Pr!vars, Pr!memory, Pr!ghosts
  <2>2. ProfileTypes'
    <3>1. WalkTypes /\ MemoryTypes /\ RequestTypes /\ TableTypes /\ StoryTypes /\ MarkTypes
      BY <1>0 DEF ProfileTypes
    <3>2. UNCHANGED <<script, spoken, at, msg, got, consent, wizard, greeted, profile, recall, requests, table, chats, storing,
                      finished, settled, refetched, acked, overlapped, undone, profileFaults>>
      BY <1>7 DEF Pr!vars, Pr!talk, Pr!memory, Pr!caches, Pr!stores, Pr!story, Pr!ghosts
    <3> QED BY <3>1, <3>2, StayWalk, StayMemory, StayRequests, StayTable DEF ProfileTypes, StoryTypes,
         MarkTypes
  <2> QED BY <1>0, <1>7, <2>1, <2>2, StutterQuiet, QuietRest, RestEdits, QuietHistory, RestHistory,
       RestWizard DEF ProfileInv
<1> QED BY <1>1, <1>2, <1>3, <1>4, <1>5, <1>6, <1>7 DEF Pr!Next

LEMMA ProfileHolds ==
  ASSUME ProfileFit, ProfileInv
  PROVE  Pr!EditsStand /\ Pr!HistoryFresh /\ Pr!OnboardedOnce
<1>0. ProfileTypes /\ EditsInv /\ HistoryInv /\ WizardInv
  BY DEF ProfileInv
<1>1. Pr!EditsStand
  <2> SUFFICES ASSUME NEW v \in undone, v \in acked, v \notin overlapped PROVE FALSE
    BY DEF Pr!EditsStand
  <2>1. v \in 1..spoken
    BY <1>0 DEF ProfileTypes, MarkTypes
  <2> QED BY <1>0, <2>1 DEF EditsInv, PutInv, Put
<1>2. Pr!HistoryFresh
  BY <1>0 DEF Pr!HistoryFresh, HistoryInv, SeenInv
<1>3. Pr!OnboardedOnce
  <2> DEFINE c == Cardinality(Meeting)  s == Cardinality(Starting)  b == IF greeted \/ Meeting # {} THEN 1 ELSE 0
  <2>1. c \in Nat /\ s \in Nat /\ wizards \in Nat /\ excused \in Nat /\ wizards + c + s <= excused + b /\ b \in {0, 1}
    BY <1>0, MeetingCounts DEF WizardInv
  <2> HIDE DEF c, s, b
  <2>2. wizards <= 1 + excused
    BY <2>1
  <2> QED BY <2>2 DEF Pr!OnboardedOnce
<1> QED BY <1>1, <1>2, <1>3

LEMMA ProfileTyped == ASSUME ProfileFit, ProfileInv PROVE Pr!TypeOK
<1>0. WalkTypes /\ MemoryTypes /\ RequestTypes /\ TableTypes /\ StoryTypes /\ MarkTypes /\ SpokenTypes /\ ReadTypes
  BY DEF ProfileInv, ProfileTypes, WalkTypes
<1>1. Len(script.says) \in Nat /\ spoken \in Nat /\ spoken <= Len(script.says) /\ script.faults \in Nat
  BY <1>0, ProfileConstants DEF SpokenTypes
<1>2. 1..spoken \subseteq 1..Len(script.says) /\ 0..spoken \subseteq 0..Len(script.says) /\ spoken \in 0..Len(script.says)
  BY <1>1
<1>3. Pr!Items = 1..Len(script.says) /\ Pr!Fields = [depth : 0..Len(script.says) + 1, domain : 0..Len(script.says) + 1]
      /\ Pr!Says = script.says /\ Pr!Old = Len(script.says) + 1
  BY DEF Pr!Items, Pr!Fields, Pr!Says, Pr!Old
<1>4. KnownFields \subseteq Pr!Fields /\ ToldFields(script, spoken) \subseteq Pr!Fields
  BY <1>3 DEF KnownFields, ToldFields
<1>5. /\ script \in Sayings /\ spoken \in 0..Len(Pr!Says)
      /\ at \in [Answerers -> Pr!Places] /\ msg \in [Answerers -> 0..Len(Pr!Says)]
  BY <1>0, <1>2, <1>3 DEF SpokenTypes
<1>6. \A w \in Answerers :
       /\ at[w] \in {"wizard", "answer", "store"} => got[w].phase \in Pr!Phases
       /\ at[w] \in {"put", "cache"} => got[w].fields \in Pr!Fields
       /\ at[w] \in {"refill", "think"} => got[w].seen \in SUBSET Pr!Items
  BY <1>0, <1>2, <1>3, <1>4 DEF ReadTypes
<1>7. consent \in Pr!Statuses /\ wizard \in Pr!Phases /\ greeted \in BOOLEAN /\ profileFaults \in 0..script.faults
  BY <1>0, <1>1 DEF MemoryTypes
<1>8. /\ Pr!Is(profile) => profile.it \in Pr!Fields
      /\ Pr!Is(recall) => recall.it \in SUBSET Pr!Items
      /\ table.done \in BOOLEAN /\ table.fields \in Pr!Fields /\ chats \in SUBSET Pr!Items
  BY <1>0, <1>2, <1>3, <1>4 DEF TableTypes, Pr!Is
<1>9. requests \in Seq([kind : Pr!Requests, w : Answerers, m : 1..Len(Pr!Says), fields : Pr!Fields])
  <2> DEFINE S == RequestType(script, spoken)  T == [kind : Pr!Requests, w : Answerers, m : 1..Len(Pr!Says), fields : Pr!Fields]
  <2>1. S \subseteq T
    BY <1>2, <1>3, <1>4 DEF RequestType
  <2>2. requests \in Seq(S)
    BY <1>0 DEF RequestTypes
  <2> HIDE DEF S, T
  <2>3. requests \in Seq(T)
    BY <2>1, <2>2
  <2> QED BY <2>3 DEF T
<1>10. /\ storing \in SUBSET [w : Answerers, item : Pr!Items, pushed : BOOLEAN]
       /\ finished \in SUBSET Pr!Items /\ settled \in [Answerers -> SUBSET Pr!Items] /\ refetched \in SUBSET Pr!Items
  <2>1. [w : Answerers, item : 1..spoken, pushed : BOOLEAN] \subseteq [w : Answerers, item : Pr!Items, pushed : BOOLEAN]
    BY <1>2, <1>3
  <2> QED BY <1>0, <1>2, <1>3, <2>1 DEF StoryTypes
<1>11. /\ acked \in SUBSET (1..Len(Pr!Says)) /\ overlapped \in SUBSET (1..Len(Pr!Says)) /\ undone \in SUBSET (0..Pr!Old)
  <2>1. (1..spoken) \cup {0, Len(script.says) + 1} \subseteq 0..Pr!Old
    BY <1>1, <1>3
  <2> QED BY <1>0, <1>2, <1>3, <2>1 DEF MarkTypes
<1>12. wizards \in Nat /\ excused \in Nat
  BY DEF ProfileInv, WizardInv
<1> QED BY <1>5, <1>6, <1>7, <1>8, <1>9, <1>10, <1>11, <1>12 DEF Pr!TypeOK
=============================================================================
