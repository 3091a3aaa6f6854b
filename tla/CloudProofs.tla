---------------------------- MODULE CloudProofs -----------------------------
(***************************************************************************)
(* Chat in the cloud, reminders, connected accounts and the briefing: for  *)
(* any number of messages, sub-agents, reminders, users, links and faults. *)
(* What can be in several places is counted: Copies is how many entries a  *)
(* message has, Readers the sub-agents that have read a reminder.          *)
(***************************************************************************)
EXTENDS CloudParts, FiniteSetTheorems, TLAPS

(***************************************************************************)
(* Counting.                                                               *)
(***************************************************************************)
\* The instances count with the operators of FiniteSets.
LEMMA CloudCounts ==
  /\ \A S : Cc!Cardinality(S) = Cardinality(S)
  /\ \A S : Cc!IsFiniteSet(S) <=> IsFiniteSet(S)
<1>1. \A S : Cc!Cardinality(S) = Cardinality(S)
  BY DEF Cc!Cardinality, Cardinality
<1>2. \A S : Cc!IsFiniteSet(S) <=> IsFiniteSet(S)
  BY Zenon DEF Cc!IsFiniteSet, IsFiniteSet
<1> QED BY <1>1, <1>2

\* How many elements of a list are in V.
Hits(q, V) == Cardinality({i \in DOMAIN q : q[i] \in V})
One(b) == IF b THEN 1 ELSE 0

LEMMA HitsType ==
  ASSUME NEW T, NEW q \in Seq(T), NEW V
  PROVE  IsFiniteSet({i \in DOMAIN q : q[i] \in V}) /\ Hits(q, V) \in Nat
<1> DEFINE S == {i \in DOMAIN q : q[i] \in V}
<1>1. S \subseteq 1..Len(q) /\ Len(q) \in Int
  OBVIOUS
<1>2. IsFiniteSet(1..Len(q))
  BY <1>1, FS_Interval
<1>3. IsFiniteSet(S)
  BY <1>1, <1>2, FS_Subset
<1> QED BY <1>3, FS_CardinalityType DEF Hits

LEMMA HitsEmpty == \A V : Hits(<<>>, V) = 0
<1> SUFFICES ASSUME NEW V PROVE Hits(<<>>, V) = 0
  OBVIOUS
<1>1. {i \in DOMAIN <<>> : <<>>[i] \in V} = {}
  OBVIOUS
<1> QED BY <1>1, FS_EmptySet DEF Hits

LEMMA HitsNone ==
  ASSUME NEW q, NEW V, \A i \in DOMAIN q : q[i] \notin V PROVE Hits(q, V) = 0
<1>1. {i \in DOMAIN q : q[i] \in V} = {}
  OBVIOUS
<1> QED BY <1>1, FS_EmptySet DEF Hits

LEMMA HitsAppend ==
  ASSUME NEW T, NEW q \in Seq(T), NEW e \in T, NEW V
  PROVE  Hits(Append(q, e), V) = Hits(q, V) + One(e \in V)
<1> DEFINE p == Append(q, e)  S == {i \in DOMAIN q : q[i] \in V}  n == Len(q) + 1
<1>1. /\ DOMAIN p = DOMAIN q \cup {n} /\ n \notin DOMAIN q /\ p[n] = e
      /\ \A i \in DOMAIN q : p[i] = q[i]
  OBVIOUS
<1>2. {i \in DOMAIN p : p[i] \in V} = IF e \in V THEN S \cup {n} ELSE S
  <2> HIDE DEF p, n
  <2> QED BY <1>1
<1>3. IsFiniteSet(S) /\ Cardinality(S) \in Nat
  BY HitsType DEF Hits
<1>4. n \notin S
  BY <1>1
<1>5. Cardinality(S \cup {n}) = Cardinality(S) + 1
  <2> HIDE DEF S, n
  <2> QED BY <1>3, <1>4, FS_AddElement
<1>6. Hits(q, V) = Cardinality(S) /\ Hits(p, V) = Cardinality({i \in DOMAIN p : p[i] \in V})
  BY DEF Hits
<1> HIDE DEF S, n, p
<1>7. Hits(p, V) = Hits(q, V) + One(e \in V)
  <2>1. CASE e \in V
    <3>1. {i \in DOMAIN p : p[i] \in V} = S \cup {n}
      BY <1>2, <2>1
    <3> QED BY <1>5, <1>6, <2>1, <3>1 DEF One
  <2>2. CASE e \notin V
    <3>1. {i \in DOMAIN p : p[i] \in V} = S
      BY <1>2, <2>2
    <3>2. One(e \in V) = 0
      BY <2>2 DEF One
    <3>3. Hits(p, V) = Cardinality(S) /\ Hits(q, V) = Cardinality(S) /\ Cardinality(S) \in Nat
      BY <1>3, <1>6, <3>1
    <3> QED BY <3>2, <3>3
  <2> QED BY <2>1, <2>2
<1> QED BY <1>7 DEF p

LEMMA HitsTail ==
  ASSUME NEW T, NEW q \in Seq(T), q # <<>>, NEW V
  PROVE  Hits(q, V) = Hits(Tail(q), V) + One(Head(q) \in V)
<1> DEFINE p == Tail(q)
           S == {i \in DOMAIN q : q[i] \in V}  U == {i \in DOMAIN p : p[i] \in V}
           f == [i \in U |-> i + 1]
<1>1. /\ Len(q) \in Nat \ {0} /\ p \in Seq(T) /\ DOMAIN p = 1..(Len(q) - 1)
      /\ DOMAIN q = 1..Len(q) /\ Head(q) = q[1]
      /\ \A i \in DOMAIN p : p[i] = q[i + 1]
  OBVIOUS
<1>2. IsFiniteSet(S) /\ IsFiniteSet(U) /\ Cardinality(S) \in Nat /\ Cardinality(U) \in Nat
  BY <1>1, HitsType DEF Hits
<1>3. f \in Bijection(U, S \ {1})
  <2> HIDE DEF p
  <2>1. f \in [U -> S \ {1}]
    BY <1>1
  <2>2. \A i, j \in U : f[i] = f[j] => i = j
    BY <1>1
  <2>3. \A k \in S \ {1} : \E i \in U : f[i] = k
    <3> TAKE k \in S \ {1}
    <3>1. k - 1 \in U /\ f[k - 1] = k
      BY <1>1
    <3> QED BY <3>1
  <2> HIDE DEF f
  <2> QED BY <2>1, <2>2, <2>3 DEF Bijection, Injection, Surjection, IsInjective
<1>4. Cardinality(S \ {1}) = Cardinality(U)
  <2> HIDE DEF S, U, f
  <2>1. ExistsBijection(U, S \ {1})
    BY <1>3 DEF ExistsBijection
  <2> QED BY <1>2, <2>1, FS_Bijection
<1>5. Cardinality(S \ {1}) = IF 1 \in S THEN Cardinality(S) - 1 ELSE Cardinality(S)
  <2> HIDE DEF S
  <2> QED BY <1>2, FS_RemoveElement
<1>6. 1 \in S <=> Head(q) \in V
  BY <1>1
<1>7. Hits(q, V) = Cardinality(S) /\ Hits(p, V) = Cardinality(U)
  BY DEF Hits
<1> HIDE DEF S, U, p
<1>8. Hits(q, V) = Hits(p, V) + One(Head(q) \in V)
  BY <1>2, <1>4, <1>5, <1>6, <1>7 DEF One
<1> QED BY <1>8 DEF p

(***************************************************************************)
(* Chat in the cloud.                                                      *)
(***************************************************************************)
Of(m) == {e \in Cc!Entries : e.msg = m}
Holders(m) == {w \in Workers : \E e \in work[w] : e.msg = m}

\* Where a message may be, and how often it is there.
Listed(m) == Hits(list, Of(m))
Streamed(m) == Hits(stream, Of(m))
Worked(m) == Cardinality(Holders(m))
Answers(m) == Hits(responses, {m})
Outgoing(m) == One(m \in delivery)
Handed(m) == One(m \in local)

Copies(m) ==
  Listed(m) + Streamed(m) + Worked(m) + Answers(m) + Outgoing(m) + repliesTold[m] + Handed(m)

\* What has not arrived is nowhere; what has is in one place or was answered once.
FateInv(m) ==
  /\ m \notin arrived => Copies(m) = 0 /\ m \notin twice
  /\ Copies(m) <= 1 + One(m \in twice)
  /\ m \in arrived \ chatGone => Copies(m) >= 1

\* A sub-agent works on one entry, the host delivers one response.
CloudTypes ==
  /\ streams \in BOOLEAN /\ group \in BOOLEAN
  /\ arrived \in SUBSET Cc!Messages
  /\ list \in Seq(Cc!Entries) /\ stream \in Seq(Cc!Entries)
  /\ work \in [Workers -> SUBSET Cc!Entries]
  /\ \A w \in Workers : work[w] = {} \/ \E e \in Cc!Entries : work[w] = {e}
  /\ burying \in SUBSET Workers /\ left \in SUBSET Cc!Entries /\ dead \in SUBSET Cc!Entries
  /\ responses \in Seq(Cc!Messages)
  /\ delivery = {} \/ \E m \in Cc!Messages : delivery = {m}
  /\ local \in SUBSET Cc!Messages /\ repliesTold \in [Cc!Messages -> Nat]
  /\ twice \in SUBSET Cc!Messages /\ chatGone \in SUBSET Cc!Messages
  /\ chatFaults \in 0..ChatFaults

CloudInv == CloudTypes /\ \A m \in Cc!Messages : FateInv(m)

\* The numbers of a message are numbers.
LEMMA CloudNumbers ==
  ASSUME CloudFit, CloudTypes, NEW m \in Cc!Messages
  PROVE  /\ Listed(m) \in Nat /\ Streamed(m) \in Nat /\ Worked(m) \in Nat /\ Answers(m) \in Nat
         /\ Outgoing(m) \in {0, 1} /\ Handed(m) \in {0, 1} /\ repliesTold[m] \in Nat
         /\ IsFiniteSet(Holders(m)) /\ IsFiniteSet(Workers)
<1>1. IsFiniteSet(Workers)
  BY CloudCounts DEF CloudFit, Cc!ConstantAssumption
<1>2. IsFiniteSet(Holders(m)) /\ Worked(m) \in Nat
  BY <1>1, FS_Subset, FS_CardinalityType DEF Holders, Worked
<1>3. Listed(m) \in Nat /\ Streamed(m) \in Nat /\ Answers(m) \in Nat
  BY HitsType DEF Listed, Streamed, Answers, CloudTypes
<1> QED BY <1>1, <1>2, <1>3 DEF Outgoing, Handed, One, CloudTypes

\* A sub-agent takes an entry, or is done with it.
LEMMA HoldersTake ==
  ASSUME CloudFit, CloudTypes, NEW m \in Cc!Messages, NEW w \in Workers, NEW e \in Cc!Entries,
         work[w] = {}, work' = [work EXCEPT ![w] = {e}]
  PROVE  Worked(m)' = Worked(m) + One(e.msg = m)
<1>1. w \notin Holders(m) /\ Holders(m)' = IF e.msg = m THEN Holders(m) \cup {w} ELSE Holders(m)
  BY DEF Holders, CloudTypes
<1>2. IsFiniteSet(Holders(m)) /\ Cardinality(Holders(m)) \in Nat
  BY CloudNumbers DEF Worked
<1> DEFINE H == Holders(m)
<1> HIDE DEF H
<1>3. Cardinality(H \cup {w}) = Cardinality(H) + 1
  BY <1>1, <1>2, FS_AddElement DEF H
<1>4. CASE e.msg = m
  BY <1>1, <1>3, <1>4 DEF Worked, One, H
<1>5. CASE e.msg # m
  BY <1>1, <1>2, <1>5 DEF Worked, One
<1> QED BY <1>4, <1>5

LEMMA HoldersFree ==
  ASSUME CloudFit, CloudTypes, NEW m \in Cc!Messages, NEW w \in Workers, NEW e \in Cc!Entries,
         work[w] = {e}, work' = [work EXCEPT ![w] = {}]
  PROVE  Worked(m) = Worked(m)' + One(e.msg = m)
<1>1. /\ w \in Holders(m) <=> e.msg = m
      /\ Holders(m)' = Holders(m) \ {w}
  BY DEF Holders, CloudTypes
<1>2. IsFiniteSet(Holders(m)) /\ Cardinality(Holders(m)) \in Nat
  BY CloudNumbers DEF Worked
<1> DEFINE H == Holders(m)
<1> HIDE DEF H
<1>3. Cardinality(H \ {w}) = IF w \in H THEN Cardinality(H) - 1 ELSE Cardinality(H)
  BY <1>2, FS_RemoveElement DEF H
<1>4. Worked(m) = Cardinality(H) /\ Worked(m)' = Cardinality(H \ {w})
  BY <1>1 DEF Worked, H
<1>5. w \in H <=> e.msg = m
  BY <1>1 DEF H
<1>6. Cardinality(H) \in Nat
  BY <1>2 DEF H
<1> QED BY <1>3, <1>4, <1>5, <1>6 DEF One

\* Entries and responses come and go.
LEMMA EntryAppend ==
  ASSUME NEW m \in Cc!Messages, NEW e \in Cc!Entries, NEW q \in Seq(Cc!Entries)
  PROVE  Hits(Append(q, e), Of(m)) = Hits(q, Of(m)) + One(e.msg = m)
<1>1. Hits(Append(q, e), Of(m)) = Hits(q, Of(m)) + One(e \in Of(m))
  BY HitsAppend
<1>2. One(e \in Of(m)) = One(e.msg = m)
  BY DEF One, Of
<1> QED BY <1>1, <1>2

LEMMA EntryTail ==
  ASSUME NEW m \in Cc!Messages, NEW q \in Seq(Cc!Entries), q # <<>>
  PROVE  Hits(q, Of(m)) = Hits(Tail(q), Of(m)) + One(Head(q).msg = m)
<1>1. Hits(q, Of(m)) = Hits(Tail(q), Of(m)) + One(Head(q) \in Of(m))
  BY HitsTail
<1>2. One(Head(q) \in Of(m)) = One(Head(q).msg = m)
  BY DEF One, Of
<1> QED BY <1>1, <1>2

LEMMA ResponseAppend ==
  ASSUME NEW m \in Cc!Messages, NEW e \in Cc!Messages, NEW q \in Seq(Cc!Messages)
  PROVE  Hits(Append(q, e), {m}) = Hits(q, {m}) + One(e = m)
<1>1. Hits(Append(q, e), {m}) = Hits(q, {m}) + One(e \in {m})
  BY HitsAppend
<1>2. One(e \in {m}) = One(e = m)
  BY DEF One
<1> QED BY <1>1, <1>2

LEMMA ResponseTail ==
  ASSUME NEW m \in Cc!Messages, NEW q \in Seq(Cc!Messages), q # <<>>
  PROVE  Hits(q, {m}) = Hits(Tail(q), {m}) + One(Head(q) = m)
<1>1. Hits(q, {m}) = Hits(Tail(q), {m}) + One(Head(q) \in {m})
  BY HitsTail
<1>2. One(Head(q) \in {m}) = One(Head(q) = m)
  BY DEF One
<1> QED BY <1>1, <1>2

LEMMA CloudInit == ASSUME CloudFit, Cc!Init PROVE CloudInv
<1>0. streams \in BOOLEAN /\ group \in BOOLEAN
  BY Zenon DEF Cc!Init
<1>1. CloudTypes
  BY <1>0 DEF Cc!Init, CloudTypes, CloudFit, Cc!ConstantAssumption
<1>2. ASSUME NEW m \in Cc!Messages PROVE FateInv(m)
  <2>1. Holders(m) = {}
    BY DEF Cc!Init, Holders
  <2>2. Worked(m) = 0
    BY <2>1, FS_EmptySet DEF Worked
  <2>3. Listed(m) = 0 /\ Streamed(m) = 0 /\ Answers(m) = 0
    BY HitsEmpty DEF Cc!Init, Listed, Streamed, Answers
  <2> QED BY <2>2, <2>3 DEF Cc!Init, FateInv, Copies, Outgoing, Handed, One
<1> QED BY <1>1, <1>2 DEF CloudInv

\* Lists keep their type.
LEMMA SeqAppend == ASSUME NEW T, NEW q \in Seq(T), NEW e \in T PROVE Append(q, e) \in Seq(T)
  OBVIOUS

LEMMA SeqTail ==
  ASSUME NEW T, NEW q \in Seq(T), q # <<>> PROVE Tail(q) \in Seq(T) /\ Head(q) \in T
  OBVIOUS

LEMMA CloudTypesStep == ASSUME CloudFit, CloudTypes, Cc!Next PROVE CloudTypes'
<1> USE DEF CloudTypes, Cc!modeVars, Cc!workerVars, Cc!hostVars, Cc!Fault
<1>e. ASSUME NEW e \in Cc!Entries, e.retry < MaxRetries
      PROVE  [e EXCEPT !.retry = @ + 1] \in Cc!Entries
  <2>1. e.msg \in Cc!Messages /\ e.retry \in 0..MaxRetries /\ MaxRetries \in Nat
        /\ e = [msg |-> e.msg, retry |-> e.retry]
    BY DEF Cc!Entries, CloudFit, Cc!ConstantAssumption
  <2>2. e.retry + 1 \in 0..MaxRetries
    BY <1>e, <2>1
  <2>3. ASSUME NEW n \in 0..MaxRetries PROVE [e EXCEPT !.retry = n] \in Cc!Entries
    BY <2>1 DEF Cc!Entries
  <2> QED BY <2>2, <2>3
<1>p. ASSUME NEW m \in Cc!Messages, Cc!Push(m)
      PROVE  list' \in Seq(Cc!Entries) /\ stream' \in Seq(Cc!Entries)
  <2>1. [msg |-> m, retry |-> 0] \in Cc!Entries
    BY DEF Cc!Entries, CloudFit, Cc!ConstantAssumption
  <2>2. PICK e \in Cc!Entries :
          \/ stream' = Append(stream, e) /\ UNCHANGED list
          \/ list' = Append(list, e) /\ UNCHANGED stream
    BY <1>p, <2>1 DEF Cc!Push
  <2>3. list \in Seq(Cc!Entries) /\ stream \in Seq(Cc!Entries)
    OBVIOUS
  <2>4. Append(list, e) \in Seq(Cc!Entries) /\ Append(stream, e) \in Seq(Cc!Entries)
    BY <2>3, SeqAppend
  <2> QED BY <2>2, <2>4
<1>m. \A e \in Cc!Entries : e.msg \in Cc!Messages
  BY DEF Cc!Entries
<1>0. Wired \subseteq Cc!Messages /\ Direct \subseteq Cc!Messages /\ ChatFaults \in Nat
  BY DEF Cc!Messages, CloudFit, Cc!ConstantAssumption
<1>f. ASSUME NEW w \in Workers, Cc!Free(w)
      PROVE  /\ work' \in [Workers -> SUBSET Cc!Entries] /\ burying' \in SUBSET Workers
             /\ \A v \in Workers : work'[v] = {} \/ \E f \in Cc!Entries : work'[v] = {f}
  <2>1. work' \in [Workers -> SUBSET Cc!Entries] /\ burying' \in SUBSET Workers
    BY <1>f DEF Cc!Free
  <2>2. \A v \in Workers : work'[v] = {} \/ work'[v] = work[v]
    BY <1>f DEF Cc!Free
  <2> QED BY <2>1, <2>2
<1>r. ASSUME NEW w \in Workers, \E e \in work[w] : responses' = Append(responses, e.msg)
      PROVE  responses' \in Seq(Cc!Messages)
  <2>1. PICK e \in work[w] : responses' = Append(responses, e.msg)
    BY <1>r
  <2>2. e.msg \in Cc!Messages /\ responses \in Seq(Cc!Messages)
    BY <1>m
  <2> QED BY <2>1, <2>2, SeqAppend
<1>1. ASSUME NEW m \in Cc!Messages, Cc!Enqueue(m) PROVE CloudTypes'
  BY <1>1, <1>p DEF Cc!Enqueue
<1>2. ASSUME NEW m \in Cc!Messages, Cc!PushThrows(m)
      PROVE  /\ list' \in Seq(Cc!Entries) /\ stream' \in Seq(Cc!Entries)
             /\ arrived' \in SUBSET Cc!Messages /\ twice' \in SUBSET Cc!Messages
             /\ chatFaults' \in 0..ChatFaults
             /\ UNCHANGED <<streams, group, work, burying, left, dead, responses, delivery>>
  BY <1>0, <1>2, <1>p DEF Cc!PushThrows
<1>3. ASSUME NEW m \in Cc!Messages, Cc!FallsBackLocal(m) PROVE CloudTypes'
  BY <1>2, <1>3 DEF Cc!FallsBackLocal
<1>4. ASSUME NEW m \in Cc!Messages, Cc!FallsBackDirect(m) PROVE CloudTypes'
  <2>0. \/ repliesTold' = [repliesTold EXCEPT ![m] = @ + 1] /\ UNCHANGED chatGone
        \/ chatGone' = chatGone \cup {m} /\ UNCHANGED repliesTold
    BY <1>4 DEF Cc!FallsBackDirect
  <2>1. repliesTold' \in [Cc!Messages -> Nat]
    <3>1. [repliesTold EXCEPT ![m] = @ + 1] \in [Cc!Messages -> Nat]
      OBVIOUS
    <3> QED BY <2>0, <3>1
  <2>2. chatGone' \in SUBSET Cc!Messages
    BY <2>0
  <2> QED BY <1>2, <1>4, <2>1, <2>2 DEF Cc!FallsBackDirect
<1>5. ASSUME NEW w \in Workers, Cc!Read(w) PROVE CloudTypes'
  <2>0. list # <<>> => Head(list) \in Cc!Entries /\ Tail(list) \in Seq(Cc!Entries)
    BY SeqTail
  <2>a. stream # <<>> => Head(stream) \in Cc!Entries /\ Tail(stream) \in Seq(Cc!Entries)
    BY SeqTail
  <2>1. PICK e \in Cc!Entries : work' = [work EXCEPT ![w] = {e}]
    BY <1>5, <2>0, <2>a DEF Cc!Read
  <2>2. list' \in Seq(Cc!Entries) /\ stream' \in Seq(Cc!Entries)
    BY <1>5, <2>0, <2>a DEF Cc!Read
  <2>3. work' \in [Workers -> SUBSET Cc!Entries]
    BY <2>1
  <2>4. \A v \in Workers : work'[v] = {} \/ \E f \in Cc!Entries : work'[v] = {f}
    BY <2>1
  <2>5. UNCHANGED <<streams, group, arrived, burying, left, dead, responses, delivery, local, repliesTold,
                    twice, chatGone, chatFaults>>
    BY <1>5 DEF Cc!Read, Cc!workerVars, Cc!hostVars
  <2> QED BY <2>2, <2>3, <2>4, <2>5
<1>6. ASSUME NEW w \in Workers, Cc!Answer(w) PROVE CloudTypes'
  <2>1. UNCHANGED <<streams, group, arrived, list, stream, left, dead, delivery, local, repliesTold, twice,
                    chatGone, chatFaults>>
    BY <1>6 DEF Cc!Answer
  <2>2. Cc!Free(w) /\ responses' \in Seq(Cc!Messages)
    BY <1>6, <1>r DEF Cc!Answer
  <2> QED BY <1>f, <2>1, <2>2
<1>7. ASSUME NEW w \in Workers, Cc!Retry(w) PROVE CloudTypes'
  <2>1. PICK e \in work[w] : e.retry < MaxRetries /\ list' = Append(list, [e EXCEPT !.retry = @ + 1])
    BY <1>7 DEF Cc!Retry
  <2>2. [e EXCEPT !.retry = @ + 1] \in Cc!Entries
    BY <1>e, <2>1
  <2>3. list' \in Seq(Cc!Entries)
    BY <2>1, <2>2
  <2>4. /\ Cc!Free(w)
        /\ UNCHANGED <<streams, group, arrived, stream, left, dead, responses, delivery, local, repliesTold,
                       twice, chatGone, chatFaults>>
    BY <1>7 DEF Cc!Retry
  <2> QED BY <1>f, <2>3, <2>4
<1>8. ASSUME NEW w \in Workers, Cc!Bury(w) PROVE CloudTypes'
  BY <1>8 DEF Cc!Bury
<1>9. ASSUME NEW w \in Workers, Cc!Apologize(w) PROVE CloudTypes'
  <2>1. UNCHANGED <<streams, group, arrived, list, stream, left, dead, delivery, local, repliesTold, twice,
                    chatGone, chatFaults>>
    BY <1>9 DEF Cc!Apologize
  <2>2. Cc!Free(w) /\ responses' \in Seq(Cc!Messages)
    BY <1>9, <1>r DEF Cc!Apologize
  <2> QED BY <1>f, <2>1, <2>2
<1>10. ASSUME NEW w \in Workers, Cc!Drops(w) PROVE CloudTypes'
  <2>1. PICK e \in work[w] :
          /\ left' = left \cup {e}
          /\ \/ chatGone' = chatGone \cup {e.msg} /\ UNCHANGED <<list, responses>>
             \/ responses' = Append(responses, e.msg) /\ UNCHANGED <<list, chatGone>>
             \/ /\ e.retry < MaxRetries
                /\ list' = Append(list, [e EXCEPT !.retry = @ + 1]) /\ UNCHANGED <<responses, chatGone>>
    BY <1>10 DEF Cc!Drops
  <2>2. e \in Cc!Entries /\ e.msg \in Cc!Messages
    BY <1>m, <2>1
  <2>3. /\ list' \in Seq(Cc!Entries) /\ responses' \in Seq(Cc!Messages)
        /\ chatGone' \in SUBSET Cc!Messages /\ left' \in SUBSET Cc!Entries
    <3>1. e.retry < MaxRetries => [e EXCEPT !.retry = @ + 1] \in Cc!Entries
      BY <1>e, <2>2
    <3>2. e.retry < MaxRetries => Append(list, [e EXCEPT !.retry = @ + 1]) \in Seq(Cc!Entries)
      BY <3>1, SeqAppend
    <3>3. Append(responses, e.msg) \in Seq(Cc!Messages)
      BY <2>2, SeqAppend
    <3>4. list \in Seq(Cc!Entries) /\ responses \in Seq(Cc!Messages)
      OBVIOUS
    <3>5. list' \in Seq(Cc!Entries)
      BY <2>1, <3>2, <3>4, Zenon
    <3>6. responses' \in Seq(Cc!Messages)
      BY <2>1, <3>3, <3>4, Zenon
    <3>7. chatGone' \in SUBSET Cc!Messages /\ left' \in SUBSET Cc!Entries
      BY <2>1, <2>2
    <3> QED BY <3>5, <3>6, <3>7, Zenon
  <2>4. /\ Cc!Free(w) /\ chatFaults' \in 0..ChatFaults
        /\ UNCHANGED <<streams, group, arrived, stream, dead, delivery, local, repliesTold, twice>>
    BY <1>0, <1>10 DEF Cc!Drops
  <2> QED BY <1>f, <2>3, <2>4
<1>11. CASE Cc!Fetch
  <2>1. Head(responses) \in Cc!Messages /\ Tail(responses) \in Seq(Cc!Messages)
    BY <1>11 DEF Cc!Fetch
  <2> QED BY <1>11, <2>1 DEF Cc!Fetch
<1>12. CASE Cc!Deliver
  <2>1. repliesTold' \in [Cc!Messages -> Nat]
    BY <1>12 DEF Cc!Deliver
  <2> QED BY <1>12, <2>1 DEF Cc!Deliver
<1>13. CASE Cc!DeliveryLost
  <2>1. UNCHANGED <<streams, group, arrived, list, stream, work, burying, left, dead, responses,
             local, repliesTold, twice>>
    BY <1>13 DEF Cc!DeliveryLost
  <2>2. chatGone' \in SUBSET Cc!Messages /\ delivery' = {} /\ chatFaults' \in 0..ChatFaults
    BY <1>0, <1>13 DEF Cc!DeliveryLost
  <2> QED BY <2>1, <2>2
<1>14. ASSUME NEW w \in Workers, Cc!EnsureGroup(w) PROVE CloudTypes'
  <2>1. <<>> \in Seq(Cc!Entries) /\ {stream[i].msg : i \in DOMAIN stream} \subseteq Cc!Messages
    BY <1>m
  <2>2. /\ group' = TRUE /\ stream' = <<>>
        /\ chatGone' = chatGone \cup {stream[i].msg : i \in DOMAIN stream}
        /\ UNCHANGED <<streams, arrived, list, work, burying, left, dead, responses, delivery,
             local, repliesTold, twice, chatFaults>>
    BY <1>14 DEF Cc!EnsureGroup
  <2>3. group' \in BOOLEAN
    BY Zenon, <2>2
  <2>4. chatGone' \in SUBSET Cc!Messages /\ stream' \in Seq(Cc!Entries)
    BY <2>1, <2>2
  <2>5. /\ UNCHANGED <<streams, arrived, list, work, burying, left, dead, responses, delivery,
             local, repliesTold, twice, chatFaults>>
    BY <2>2
  <2> QED BY <2>3, <2>4, <2>5
<1> QED BY <1>1, <1>3, <1>4, <1>5, <1>6, <1>7, <1>8, <1>9, <1>10, <1>11, <1>12, <1>13, <1>14
        DEF Cc!Next, Cc!Attempt

\* How many copies of a message there are is a number.
LEMMA CopiesNat ==
  ASSUME CloudFit, CloudTypes, NEW m \in Cc!Messages
  PROVE  Copies(m) \in Nat
  BY CloudNumbers DEF Copies

\* A step that moves the copies of a message about, or loses some for good.
LEMMA FateMoves ==
  ASSUME CloudFit, CloudInv, NEW m \in Cc!Messages,
         arrived' = arrived, twice' = twice, chatGone \subseteq chatGone',
         \/ Copies(m)' = Copies(m)
         \/ m \in chatGone' /\ Copies(m)' \in Int /\ Copies(m)' <= Copies(m) /\ m \in arrived
  PROVE  FateInv(m)'
<1>1. Copies(m) \in Nat
  BY CopiesNat DEF CloudInv
<1>2. FateInv(m)
  BY DEF CloudInv
<1>3. One(m \in twice) \in {0, 1} /\ One(m \in twice)' = One(m \in twice)
  BY DEF One
<1> QED BY <1>1, <1>2, <1>3 DEF FateInv

\* A message of which there is no copy is nowhere.
LEMMA NoCopies ==
  ASSUME CloudFit, CloudTypes, NEW m \in Cc!Messages, Copies(m) = 0
  PROVE  /\ Listed(m) = 0 /\ Streamed(m) = 0 /\ Worked(m) = 0 /\ Answers(m) = 0
         /\ Outgoing(m) = 0 /\ Handed(m) = 0 /\ repliesTold[m] = 0
<1>1. /\ Listed(m) \in Nat /\ Streamed(m) \in Nat /\ Worked(m) \in Nat /\ Answers(m) \in Nat
      /\ Outgoing(m) \in Nat /\ Handed(m) \in Nat /\ repliesTold[m] \in Nat
  BY CloudNumbers
<1>2. Listed(m) + Streamed(m) + Worked(m) + Answers(m) + Outgoing(m) + repliesTold[m] + Handed(m) = 0
  BY DEF Copies
<1> DEFINE a == Listed(m)  b == Streamed(m)  c == Worked(m)  d == Answers(m)
           e == Outgoing(m)  f == repliesTold[m]  g == Handed(m)
<1>3. /\ a \in Nat /\ b \in Nat /\ c \in Nat /\ d \in Nat /\ e \in Nat /\ f \in Nat /\ g \in Nat
      /\ a + b + c + d + e + f + g = 0
  BY <1>1, <1>2
<1> HIDE DEF a, b, c, d, e, f, g
<1>4. a = 0 /\ b = 0 /\ c = 0 /\ d = 0 /\ e = 0 /\ f = 0 /\ g = 0
  BY <1>3
<1> QED BY <1>4 DEF a, b, c, d, e, f, g

\* What is somewhere has arrived.
LEMMA FateArrived ==
  ASSUME CloudFit, CloudInv, NEW m \in Cc!Messages,
         \/ \E w \in Workers : \E e \in work[w] : e.msg = m
         \/ m \in delivery
  PROVE  m \in arrived
<1>1. Copies(m) # 0
  <2>1. CASE \E w \in Workers : \E e \in work[w] : e.msg = m
    <3>1. Holders(m) # {} /\ IsFiniteSet(Holders(m))
      BY <2>1, CloudNumbers DEF Holders, CloudInv
    <3>2. Worked(m) # 0
      BY <3>1, FS_EmptySet DEF Worked
    <3> QED BY <3>2, NoCopies DEF CloudInv
  <2>2. CASE m \in delivery
    <3>1. Outgoing(m) = 1
      BY <2>2 DEF Outgoing, One
    <3> QED BY <3>1, NoCopies DEF CloudInv
  <2> QED BY <2>1, <2>2
<1> QED BY <1>1 DEF CloudInv, FateInv

\* The host takes a message in: it is pushed, or handed on when the push throws.
LEMMA PushFate ==
  ASSUME CloudFit, CloudInv, NEW n \in Cc!Messages, n \notin arrived, Cc!Push(n),
         NEW m \in Cc!Messages
  PROVE  /\ Listed(m)' + Streamed(m)' = Listed(m) + Streamed(m) + One(n = m)
         /\ Listed(m)' \in Nat /\ Streamed(m)' \in Nat
<1> DEFINE e == [msg |-> n, retry |-> 0]
<1>1. e \in Cc!Entries /\ e.msg = n
  BY DEF Cc!Entries, CloudFit, Cc!ConstantAssumption
<1>2. \/ stream' = Append(stream, e) /\ list' = list
      \/ list' = Append(list, e) /\ stream' = stream
  BY DEF Cc!Push
<1>3. list \in Seq(Cc!Entries) /\ stream \in Seq(Cc!Entries)
  BY DEF CloudInv, CloudTypes
<1> HIDE DEF e
<1>4. /\ Hits(Append(list, e), Of(m)) = Listed(m) + One(n = m)
      /\ Hits(Append(stream, e), Of(m)) = Streamed(m) + One(n = m)
  BY <1>1, <1>3, EntryAppend DEF Listed, Streamed
<1>5. Listed(m) \in Nat /\ Streamed(m) \in Nat /\ One(n = m) \in {0, 1}
  BY CloudNumbers DEF CloudInv, One
<1>6. CASE stream' = Append(stream, e) /\ list' = list
  <2>1. Streamed(m)' = Streamed(m) + One(n = m) /\ Listed(m)' = Listed(m)
    BY <1>4, <1>6 DEF Streamed, Listed
  <2> QED BY <1>5, <2>1
<1>7. CASE list' = Append(list, e) /\ stream' = stream
  <2>1. Listed(m)' = Listed(m) + One(n = m) /\ Streamed(m)' = Streamed(m)
    BY <1>4, <1>7 DEF Streamed, Listed
  <2> QED BY <1>5, <2>1
<1> QED BY <1>2, <1>6, <1>7

\* Where a message may be stays a number after a step.
LEMMA CloudNext ==
  ASSUME CloudFit, CloudTypes, Cc!Next, NEW m \in Cc!Messages
  PROVE  /\ Listed(m)' \in Nat /\ Streamed(m)' \in Nat /\ Worked(m)' \in Nat /\ Answers(m)' \in Nat
<1>1. CloudTypes'
  BY CloudTypesStep
<1>2. IsFiniteSet(Workers)
  BY CloudNumbers
<1>3. Holders(m)' \subseteq Workers
  BY DEF Holders
<1>4. Worked(m)' \in Nat
  BY <1>2, <1>3, FS_Subset, FS_CardinalityType DEF Worked
<1>5. list' \in Seq(Cc!Entries) /\ stream' \in Seq(Cc!Entries) /\ responses' \in Seq(Cc!Messages)
  BY <1>1 DEF CloudTypes
<1> QED BY <1>4, <1>5, HitsType DEF Listed, Streamed, Answers

\* An entry that is tried again is an entry of the same message.
LEMMA RetryEntry ==
  ASSUME NEW e \in Cc!Entries, e.retry < MaxRetries, CloudFit
  PROVE  [e EXCEPT !.retry = @ + 1] \in Cc!Entries /\ [e EXCEPT !.retry = @ + 1].msg = e.msg
<1>1. e.msg \in Cc!Messages /\ e.retry \in 0..MaxRetries /\ MaxRetries \in Nat
  BY DEF Cc!Entries, CloudFit, Cc!ConstantAssumption
<1>2. e.retry + 1 \in 0..MaxRetries
  BY <1>1
<1>3. ASSUME NEW n \in 0..MaxRetries
      PROVE  [e EXCEPT !.retry = n] \in Cc!Entries /\ [e EXCEPT !.retry = n].msg = e.msg
  BY <1>1 DEF Cc!Entries
<1> QED BY <1>2, <1>3

\* None, or one, is counted.
LEMMA FewCount == \A S : (S = {} \/ \E e : S = {e}) => Cc!Cardinality(S) <= 1
<1>1. Cc!Cardinality({}) = 0
  BY CloudCounts, FS_EmptySet
<1>2. \A e : Cc!Cardinality({e}) = 1
  BY CloudCounts, FS_Singleton
<1> SUFFICES ASSUME NEW S, S = {} \/ \E e : S = {e} PROVE Cc!Cardinality(S) <= 1
  OBVIOUS
<1>3. CASE S = {}
  BY <1>1, <1>3
<1>4. CASE \E e : S = {e}
  <2>1. PICK e : S = {e}
    BY <1>4
  <2>2. Cc!Cardinality(S) = 1
    BY <1>2, <2>1, Zenon
  <2> QED BY <2>2
<1> QED BY <1>3, <1>4

LEMMA CountOne == \A m, S : Cc!Cardinality(S \cap {m}) = One(m \in S)
<1> SUFFICES ASSUME NEW m, NEW S PROVE Cc!Cardinality(S \cap {m}) = One(m \in S)
  OBVIOUS
<1>1. CASE m \in S
  <2>1. S \cap {m} = {m}
    BY <1>1
  <2>2. Cc!Cardinality({m}) = 1
    BY CloudCounts, FS_Singleton
  <2> QED BY <1>1, <2>1, <2>2 DEF One
<1>2. CASE m \notin S
  <2>1. S \cap {m} = {}
    BY <1>2
  <2>2. Cc!Cardinality({}) = 0
    BY CloudCounts, FS_EmptySet
  <2> QED BY <1>2, <2>1, <2>2 DEF One
<1> QED BY <1>1, <1>2

LEMMA IntakeFate ==
  ASSUME CloudFit, CloudInv, NEW n \in Cc!Messages,
         Cc!Enqueue(n) \/ Cc!FallsBackLocal(n) \/ Cc!FallsBackDirect(n),
         NEW m \in Cc!Messages
  PROVE  FateInv(m)'
<1> DEFINE new == One(n = m)  inQ == Listed(m) + Streamed(m)
<1> USE DEF Cc!modeVars, Cc!workerVars, Cc!hostVars
<1>0. /\ Listed(m) \in Nat /\ Streamed(m) \in Nat /\ Worked(m) \in Nat /\ Answers(m) \in Nat
      /\ Outgoing(m) \in {0, 1} /\ Handed(m) \in {0, 1} /\ repliesTold[m] \in Nat
      /\ FateInv(m) /\ CloudTypes
  BY CloudNumbers DEF CloudInv
<1>1. n \notin arrived /\ arrived' = arrived \cup {n} /\ UNCHANGED <<work, responses, delivery>>
  BY DEF Cc!Enqueue, Cc!FallsBackLocal, Cc!FallsBackDirect, Cc!PushThrows
<1>2. Worked(m)' = Worked(m) /\ Answers(m)' = Answers(m) /\ Outgoing(m)' = Outgoing(m)
  BY <1>1 DEF Worked, Holders, Answers, Outgoing
<1>3. /\ n = m => Copies(m) = 0 /\ m \notin twice
      /\ m \in arrived' <=> m \in arrived \/ n = m
  BY <1>0, <1>1 DEF FateInv
<1>4. CASE Cc!Enqueue(n)
  <2>1. /\ Listed(m)' + Streamed(m)' = Listed(m) + Streamed(m) + One(n = m)
        /\ Listed(m)' \in Nat /\ Streamed(m)' \in Nat
    BY <1>1, <1>4, PushFate DEF Cc!Enqueue
  <2>2. /\ Handed(m)' = Handed(m) /\ repliesTold'[m] = repliesTold[m]
        /\ chatGone' = chatGone /\ twice' = twice
    BY <1>4 DEF Cc!Enqueue, Handed
  <2>3. Copies(m)' = Copies(m) + One(n = m) /\ Copies(m) \in Nat
    BY <1>0, <1>2, <2>1, <2>2 DEF Copies, One
  <2> QED BY <1>0, <1>3, <2>2, <2>3 DEF FateInv, One
<1>5. CASE Cc!FallsBackLocal(n) \/ Cc!FallsBackDirect(n)
  <2>1. \/ /\ Listed(m)' + Streamed(m)' = Listed(m) + Streamed(m) + One(n = m)
           /\ Listed(m)' \in Nat /\ Streamed(m)' \in Nat
           /\ twice' = twice \cup {n}
        \/ Listed(m)' = Listed(m) /\ Streamed(m)' = Streamed(m) /\ twice' = twice
    <3>1. \/ Cc!Push(n) /\ twice' = twice \cup {n}
          \/ UNCHANGED <<list, stream, twice>>
      BY <1>5 DEF Cc!FallsBackLocal, Cc!FallsBackDirect, Cc!PushThrows
    <3>2. CASE Cc!Push(n) /\ twice' = twice \cup {n}
      BY <1>1, <3>2, PushFate
    <3>3. CASE UNCHANGED <<list, stream, twice>>
      BY <3>3 DEF Listed, Streamed
    <3> QED BY <3>1, <3>2, <3>3
  <2>2. \/ /\ Handed(m)' + repliesTold'[m] = Handed(m) + repliesTold[m] + One(n = m)
           /\ Handed(m)' \in Nat /\ repliesTold'[m] \in Nat
           /\ chatGone' = chatGone
        \/ Handed(m)' = Handed(m) /\ repliesTold'[m] = repliesTold[m] /\ chatGone' = chatGone \cup {n}
    <3>1. CASE Cc!FallsBackLocal(n)
      <4>1. local' = local \cup {n} /\ repliesTold' = repliesTold /\ chatGone' = chatGone
        BY <3>1 DEF Cc!FallsBackLocal
      <4>2. n = m => Handed(m) = 0
        BY <1>0, <1>3 DEF Copies
      <4> QED BY <1>0, <4>1, <4>2 DEF Handed, One
    <3>2. CASE Cc!FallsBackDirect(n)
      <4>1. /\ local' = local
            /\ \/ repliesTold' = [repliesTold EXCEPT ![n] = @ + 1] /\ chatGone' = chatGone
               \/ chatGone' = chatGone \cup {n} /\ repliesTold' = repliesTold
        BY <3>2 DEF Cc!FallsBackDirect
      <4>2. Handed(m)' = Handed(m)
        BY <4>1 DEF Handed
      <4>3. repliesTold \in [Cc!Messages -> Nat]
        BY <1>0 DEF CloudTypes
      <4> QED BY <1>0, <4>1, <4>2, <4>3 DEF One
    <3> QED BY <1>5, <3>1, <3>2
  <2>3. CASE n = m
    <3>1. One(n = m) = 1
      BY <2>3 DEF One
    <3>2. Copies(m) = 0 /\ m \notin twice
      BY <1>3, <2>3
    <3>a. /\ Listed(m) = 0 /\ Streamed(m) = 0 /\ Worked(m) = 0 /\ Answers(m) = 0
          /\ Outgoing(m) = 0 /\ Handed(m) = 0 /\ repliesTold[m] = 0
      BY <1>0, <3>2, NoCopies
    <3>b. Copies(m)' = (Listed(m)' + Streamed(m)') + (Handed(m)' + repliesTold'[m])
      <4>1. Copies(m)' = Listed(m)' + Streamed(m)' + 0 + 0 + 0 + repliesTold'[m] + Handed(m)'
        BY <1>2, <3>a DEF Copies
      <4>2. /\ Listed(m)' \in Nat /\ Streamed(m)' \in Nat
            /\ Handed(m)' \in Nat /\ repliesTold'[m] \in Nat
        BY <2>1, <2>2, <3>a
      <4> QED BY <4>1, <4>2
    <3>c. \/ Listed(m)' + Streamed(m)' = 1 /\ m \in twice'
          \/ Listed(m)' + Streamed(m)' = 0
      BY <2>1, <2>3, <3>1, <3>a
    <3>d. \/ Handed(m)' + repliesTold'[m] = 1
          \/ Handed(m)' + repliesTold'[m] = 0 /\ m \in chatGone'
      BY <2>2, <2>3, <3>1, <3>a
    <3>3. /\ Copies(m)' \in {0, 1, 2}
          /\ Copies(m)' = 2 => m \in twice'
          /\ Copies(m)' = 0 => m \in chatGone'
      BY <3>b, <3>c, <3>d
    <3> QED BY <1>3, <2>3, <3>3 DEF FateInv, One
  <2>4. CASE n # m
    <3>1. One(n = m) = 0
      BY <2>4 DEF One
    <3>2. Copies(m)' = Copies(m) /\ Copies(m) \in Nat
      BY <1>0, <1>2, <2>1, <2>2, <2>4, <3>1 DEF Copies
    <3>3. (m \in twice' <=> m \in twice) /\ (m \in chatGone' <=> m \in chatGone)
      BY <2>1, <2>2, <2>4
    <3> QED BY <1>0, <1>3, <2>4, <3>2, <3>3 DEF FateInv, One
  <2> QED BY <2>3, <2>4
<1> QED BY <1>4, <1>5
\* A sub-agent works.
LEMMA WorkFate ==
  ASSUME CloudFit, CloudInv, NEW w \in Workers,
         Cc!Read(w) \/ Cc!Answer(w) \/ Cc!Retry(w) \/ Cc!Bury(w) \/ Cc!Apologize(w) \/ Cc!Drops(w),
         NEW m \in Cc!Messages
  PROVE  FateInv(m)'
<1> USE DEF Cc!modeVars, Cc!workerVars, Cc!hostVars
<1>0. /\ Listed(m) \in Nat /\ Streamed(m) \in Nat /\ Worked(m) \in Nat /\ Answers(m) \in Nat
      /\ Outgoing(m) \in {0, 1} /\ Handed(m) \in {0, 1} /\ repliesTold[m] \in Nat
      /\ CloudTypes
  BY CloudNumbers DEF CloudInv
<1>1. /\ UNCHANGED <<arrived, twice, delivery, local, repliesTold>>
      /\ chatGone \subseteq chatGone'
  BY DEF Cc!Read, Cc!Answer, Cc!Retry, Cc!Bury, Cc!Apologize, Cc!Drops
<1>2. /\ Outgoing(m)' = Outgoing(m) /\ Handed(m)' = Handed(m) /\ repliesTold'[m] = repliesTold[m]
  BY <1>1 DEF Outgoing, Handed
<1>3. ASSUME NEW e \in Cc!Entries, e.retry < MaxRetries
      PROVE  [e EXCEPT !.retry = @ + 1] \in Cc!Entries /\ [e EXCEPT !.retry = @ + 1].msg = e.msg
  BY <1>3, RetryEntry
<1>4. CASE Cc!Read(w)
  <2>1. PICK e \in Cc!Entries :
          /\ work[w] = {} /\ work' = [work EXCEPT ![w] = {e}] /\ responses' = responses
          /\ \/ list # <<>> /\ e = Head(list) /\ list' = Tail(list) /\ stream' = stream
             \/ stream # <<>> /\ e = Head(stream) /\ stream' = Tail(stream) /\ list' = list
    <3>1. list \in Seq(Cc!Entries) /\ stream \in Seq(Cc!Entries)
      BY <1>0 DEF CloudTypes
    <3>2. (list # <<>> => Head(list) \in Cc!Entries) /\ (stream # <<>> => Head(stream) \in Cc!Entries)
      BY <3>1, SeqTail
    <3>3. CASE streams
      BY <1>4, <3>2, <3>3 DEF Cc!Read, Cc!Idle
    <3>4. CASE ~streams
      BY <1>4, <3>2, <3>4 DEF Cc!Read, Cc!Idle
    <3> QED BY <3>3, <3>4
  <2>2. Worked(m)' = Worked(m) + One(e.msg = m)
    BY <1>0, <2>1, HoldersTake
  <2>3. \/ Listed(m) = Listed(m)' + One(e.msg = m) /\ Streamed(m)' = Streamed(m)
        \/ Streamed(m) = Streamed(m)' + One(e.msg = m) /\ Listed(m)' = Listed(m)
    <3>1. list \in Seq(Cc!Entries) /\ stream \in Seq(Cc!Entries)
      BY <1>0 DEF CloudTypes
    <3>2. CASE list # <<>> /\ e = Head(list) /\ list' = Tail(list) /\ stream' = stream
      BY <3>1, <3>2, EntryTail DEF Listed, Streamed
    <3>3. CASE stream # <<>> /\ e = Head(stream) /\ stream' = Tail(stream) /\ list' = list
      BY <3>1, <3>3, EntryTail DEF Listed, Streamed
    <3> QED BY <2>1, <3>2, <3>3
  <2>4. /\ Listed(m)' \in Nat /\ Streamed(m)' \in Nat
    BY <1>0, <1>4, CloudNext DEF Cc!Next, Cc!Attempt
  <2>5. Answers(m)' = Answers(m)
    BY <2>1 DEF Answers
  <2>6. Copies(m)' = Copies(m)
    BY <1>0, <1>2, <2>2, <2>3, <2>4, <2>5 DEF Copies, One
  <2> QED BY <1>1, <2>6, FateMoves
<1>5. CASE Cc!Bury(w)
  <2>1. Copies(m)' = Copies(m)
    BY <1>2, <1>5 DEF Cc!Bury, Copies, Listed, Streamed, Worked, Holders, Answers
  <2> QED BY <1>1, <2>1, FateMoves
<1>6. CASE Cc!Answer(w) \/ Cc!Retry(w) \/ Cc!Apologize(w) \/ Cc!Drops(w)
  <2>1. PICK e \in work[w] :
          /\ stream' = stream
          /\ \/ responses' = Append(responses, e.msg) /\ list' = list
             \/ /\ e.retry < MaxRetries /\ list' = Append(list, [e EXCEPT !.retry = @ + 1])
                /\ responses' = responses
             \/ list' = list /\ responses' = responses /\ chatGone' = chatGone \cup {e.msg}
    BY <1>6 DEF Cc!Answer, Cc!Retry, Cc!Apologize, Cc!Drops
  <2>2. e \in Cc!Entries /\ e.msg \in Cc!Messages /\ work[w] = {e}
    BY <1>0, <2>1 DEF CloudTypes, Cc!Entries
  <2>3. work' = [work EXCEPT ![w] = {}]
    BY <1>6 DEF Cc!Answer, Cc!Retry, Cc!Apologize, Cc!Drops, Cc!Free
  <2>4. Worked(m) = Worked(m)' + One(e.msg = m) /\ Streamed(m)' = Streamed(m)
    BY <1>0, <2>1, <2>2, <2>3, HoldersFree DEF Streamed
  <2>5. Worked(m)' \in Nat
    BY <1>0, <1>6, CloudNext DEF Cc!Next, Cc!Attempt
  <2>6. CASE responses' = Append(responses, e.msg) /\ list' = list
    <3>1. responses \in Seq(Cc!Messages)
      BY <1>0 DEF CloudTypes
    <3>2. Answers(m)' = Answers(m) + One(e.msg = m) /\ Listed(m)' = Listed(m)
      BY <2>2, <2>6, <3>1, ResponseAppend DEF Answers, Listed
    <3>3. Copies(m)' = Copies(m)
      BY <1>0, <1>2, <2>4, <2>5, <3>2 DEF Copies, One
    <3> QED BY <1>1, <3>3, FateMoves
  <2>7. CASE /\ e.retry < MaxRetries /\ list' = Append(list, [e EXCEPT !.retry = @ + 1])
             /\ responses' = responses
    <3>0. list \in Seq(Cc!Entries)
      BY <1>0 DEF CloudTypes
    <3>1. PICK f \in Cc!Entries : list' = Append(list, f) /\ f.msg = e.msg
      BY <1>3, <2>2, <2>7
    <3>2. Listed(m)' = Listed(m) + One(e.msg = m) /\ Answers(m)' = Answers(m)
      BY <2>7, <3>0, <3>1, EntryAppend DEF Answers, Listed
    <3>3. Copies(m)' = Copies(m)
      BY <1>0, <1>2, <2>4, <2>5, <3>2 DEF Copies, One
    <3> QED BY <1>1, <3>3, FateMoves
  <2>8. CASE list' = list /\ responses' = responses /\ chatGone' = chatGone \cup {e.msg}
    <3>1. Listed(m)' = Listed(m) /\ Answers(m)' = Answers(m)
      BY <2>8 DEF Listed, Answers
    <3>2. CASE e.msg = m
      <4>1. m \in chatGone' /\ m \in arrived
        BY <2>1, <2>8, <3>2, FateArrived
      <4>2. Copies(m)' \in Int /\ Copies(m)' <= Copies(m)
        BY <1>0, <1>2, <2>4, <2>5, <3>1 DEF Copies, One
      <4> QED BY <1>1, <4>1, <4>2, FateMoves
    <3>3. CASE e.msg # m
      <4>1. Copies(m)' = Copies(m)
        BY <1>0, <1>2, <2>4, <2>5, <3>1, <3>3 DEF Copies, One
      <4> QED BY <1>1, <4>1, FateMoves
    <3> QED BY <3>2, <3>3
  <2> QED BY <2>1, <2>6, <2>7, <2>8
<1> QED BY <1>4, <1>5, <1>6

\* A sub-agent makes the consumer group: what is in front of it is lost.
LEMMA GroupFate ==
  ASSUME CloudFit, CloudInv, NEW w \in Workers, Cc!EnsureGroup(w), NEW m \in Cc!Messages
  PROVE  FateInv(m)'
<1>0. /\ Listed(m) \in Nat /\ Streamed(m) \in Nat /\ Worked(m) \in Nat /\ Answers(m) \in Nat
      /\ Outgoing(m) \in {0, 1} /\ Handed(m) \in {0, 1} /\ repliesTold[m] \in Nat
      /\ CloudTypes /\ FateInv(m)
  BY CloudNumbers DEF CloudInv
<1>1. /\ UNCHANGED <<arrived, list, work, responses, delivery, local, repliesTold, twice>>
      /\ stream' = <<>> /\ chatGone' = chatGone \cup {stream[i].msg : i \in DOMAIN stream}
  BY DEF Cc!EnsureGroup, Cc!workerVars, Cc!hostVars
<1>2. /\ Listed(m)' = Listed(m) /\ Worked(m)' = Worked(m) /\ Answers(m)' = Answers(m)
      /\ Outgoing(m)' = Outgoing(m) /\ Handed(m)' = Handed(m) /\ repliesTold'[m] = repliesTold[m]
  BY <1>1 DEF Listed, Worked, Holders, Answers, Outgoing, Handed
<1>3. Streamed(m)' = 0
  BY <1>1, HitsEmpty DEF Streamed
<1>4. CASE m \in chatGone'
  <2>1. Copies(m)' \in Int /\ Copies(m)' <= Copies(m)
    BY <1>0, <1>2, <1>3 DEF Copies
  <2>2. CASE m \in arrived
    BY <1>1, <1>4, <2>1, <2>2, FateMoves
  <2>3. CASE m \notin arrived
    <3>1. Copies(m) = 0
      BY <1>0, <2>3 DEF FateInv
    <3>2. Streamed(m) = 0
      BY <1>0, <3>1, NoCopies
    <3>3. Copies(m)' = Copies(m)
      BY <1>2, <1>3, <3>2 DEF Copies
    <3> QED BY <1>1, <3>3, FateMoves
  <2> QED BY <2>2, <2>3
<1>5. CASE m \notin chatGone'
  <2>1. \A i \in DOMAIN stream : stream[i] \notin Of(m)
    BY <1>1, <1>5 DEF Of
  <2>2. Streamed(m) = 0
    BY <2>1, HitsNone DEF Streamed
  <2>3. Copies(m)' = Copies(m)
    BY <1>2, <1>3, <2>2 DEF Copies
  <2> QED BY <1>1, <2>3, FateMoves
<1> QED BY <1>4, <1>5

\* The host delivers.
LEMMA DeliveryFate ==
  ASSUME CloudFit, CloudInv, Cc!Fetch \/ Cc!Deliver \/ Cc!DeliveryLost,
         NEW m \in Cc!Messages
  PROVE  FateInv(m)'
<1> USE DEF Cc!modeVars, Cc!workerVars, Cc!hostVars
<1>0. /\ Listed(m) \in Nat /\ Streamed(m) \in Nat /\ Worked(m) \in Nat /\ Answers(m) \in Nat
      /\ Outgoing(m) \in {0, 1} /\ Handed(m) \in {0, 1} /\ repliesTold[m] \in Nat
      /\ CloudTypes
  BY CloudNumbers DEF CloudInv
<1>1. /\ UNCHANGED <<arrived, twice, list, stream, work, local>>
      /\ chatGone \subseteq chatGone'
  BY DEF Cc!Fetch, Cc!Deliver, Cc!DeliveryLost
<1>2. /\ Listed(m)' = Listed(m) /\ Streamed(m)' = Streamed(m) /\ Worked(m)' = Worked(m)
      /\ Handed(m)' = Handed(m)
  BY <1>1 DEF Listed, Streamed, Worked, Holders, Handed
<1>3. CASE Cc!Fetch
  <2>1. responses \in Seq(Cc!Messages) /\ responses # <<>> /\ responses' = Tail(responses)
        /\ delivery = {} /\ delivery' = {Head(responses)} /\ repliesTold' = repliesTold
    BY <1>0, <1>3 DEF Cc!Fetch, CloudTypes
  <2>2. Answers(m) = Answers(m)' + One(Head(responses) = m)
    BY <2>1, ResponseTail DEF Answers
  <2>3. Answers(m)' \in Nat
    BY <1>0, <1>3, CloudNext DEF Cc!Next
  <2>4. Outgoing(m)' = Outgoing(m) + One(Head(responses) = m)
    BY <2>1 DEF Outgoing, One
  <2>5. Copies(m)' = Copies(m)
    BY <1>0, <1>2, <2>1, <2>2, <2>3, <2>4 DEF Copies, One
  <2> QED BY <1>1, <2>5, FateMoves
<1>4. CASE Cc!Deliver
  <2>1. PICK n \in Cc!Messages : delivery = {n} /\ repliesTold' = [repliesTold EXCEPT ![n] = @ + 1]
    BY <1>0, <1>4 DEF Cc!Deliver, CloudTypes
  <2>2. delivery' = {} /\ responses' = responses
    BY <1>4 DEF Cc!Deliver
  <2>3. Outgoing(m)' = 0 /\ Outgoing(m) = One(n = m) /\ Answers(m)' = Answers(m)
    BY <2>1, <2>2 DEF Outgoing, Answers, One
  <2>4. repliesTold'[m] = repliesTold[m] + One(n = m)
    BY <1>0, <2>1 DEF One, CloudTypes
  <2>5. Copies(m)' = Copies(m)
    BY <1>0, <1>2, <2>3, <2>4 DEF Copies, One
  <2> QED BY <1>1, <2>5, FateMoves
<1>5. CASE Cc!DeliveryLost
  <2>1. /\ chatGone' = chatGone \cup delivery /\ delivery' = {} /\ responses' = responses
        /\ repliesTold' = repliesTold
    BY <1>5 DEF Cc!DeliveryLost
  <2>2. Outgoing(m)' = 0 /\ Answers(m)' = Answers(m)
    BY <2>1 DEF Outgoing, Answers, One
  <2>3. CASE m \in delivery
    <3>1. m \in chatGone' /\ m \in arrived
      BY <2>1, <2>3, FateArrived
    <3>2. Copies(m)' \in Int /\ Copies(m)' <= Copies(m)
      BY <1>0, <1>2, <2>1, <2>2 DEF Copies
    <3> QED BY <1>1, <3>1, <3>2, FateMoves
  <2>4. CASE m \notin delivery
    <3>1. Outgoing(m) = 0
      BY <2>4 DEF Outgoing, One
    <3>2. Copies(m)' = Copies(m)
      BY <1>2, <2>1, <2>2, <3>1 DEF Copies
    <3> QED BY <1>1, <3>2, FateMoves
  <2> QED BY <2>3, <2>4
<1> QED BY <1>3, <1>4, <1>5

LEMMA CloudStep == ASSUME CloudFit, CloudInv, [Cc!Next]_(Cc!vars) PROVE CloudInv'
<1>1. CASE Cc!Next
  <2>1. CloudTypes'
    BY <1>1, CloudTypesStep DEF CloudInv
  <2>2. ASSUME NEW m \in Cc!Messages PROVE FateInv(m)'
    BY <1>1, IntakeFate, WorkFate, GroupFate, DeliveryFate DEF Cc!Next, Cc!Attempt
  <2> QED BY <2>1, <2>2 DEF CloudInv, Cc!Messages
<1>2. CASE UNCHANGED Cc!vars
  <2> USE <1>2 DEF Cc!vars, Cc!workerVars, Cc!hostVars
  <2>1. CloudTypes'
    BY DEF CloudTypes, CloudInv
  <2>2. \A m \in Cc!Messages : FateInv(m)'
    BY DEF CloudInv, FateInv, Copies, Listed, Streamed, Worked, Holders, Answers, Outgoing, Handed
  <2> QED BY <2>1, <2>2 DEF CloudInv
<1> QED BY <1>1, <1>2

LEMMA CloudHolds == ASSUME CloudFit, CloudInv PROVE Cc!OneReply /\ Cc!TypeOK
<1>1. ASSUME NEW m \in Cc!Messages
      PROVE  Cc!Pending(m) + repliesTold[m] + Cc!Cardinality({m} \cap local) = Copies(m)
  <2>1. Cc!Cardinality({i \in DOMAIN list : list[i].msg = m}) = Listed(m)
    <3>1. {i \in DOMAIN list : list[i].msg = m} = {i \in DOMAIN list : list[i] \in Of(m)}
      BY DEF Of, CloudInv, CloudTypes
    <3> QED BY <3>1, CloudCounts DEF Listed, Hits
  <2>2. Cc!Cardinality({i \in DOMAIN stream : stream[i].msg = m}) = Streamed(m)
    <3>1. {i \in DOMAIN stream : stream[i].msg = m} = {i \in DOMAIN stream : stream[i] \in Of(m)}
      BY DEF Of, CloudInv, CloudTypes
    <3> QED BY <3>1, CloudCounts DEF Streamed, Hits
  <2>3. Cc!Cardinality({w \in Workers : \E e \in work[w] : e.msg = m}) = Worked(m)
    BY CloudCounts DEF Worked, Holders
  <2>4. Cc!Cardinality({i \in DOMAIN responses : responses[i] = m}) = Answers(m)
    <3>1. {i \in DOMAIN responses : responses[i] = m} = {i \in DOMAIN responses : responses[i] \in {m}}
      OBVIOUS
    <3> QED BY <3>1, CloudCounts DEF Answers, Hits
  <2>5. \A S : Cc!Cardinality(S \cap {m}) = One(m \in S)
    BY CountOne
  <2>6. Cc!Cardinality(delivery \cap {m}) = Outgoing(m) /\ Cc!Cardinality({m} \cap local) = Handed(m)
    <3>1. {m} \cap local = local \cap {m}
      OBVIOUS
    <3> QED BY <2>5, <3>1 DEF Outgoing, Handed
  <2>7. Cc!Pending(m) = Listed(m) + Streamed(m) + Worked(m) + Answers(m) + Outgoing(m)
    BY <2>1, <2>2, <2>3, <2>4, <2>6 DEF Cc!Pending
  <2> QED BY <2>6, <2>7 DEF Copies
<1>2. ASSUME NEW m \in Cc!Messages PROVE Cc!Cardinality({m} \cap twice) = One(m \in twice)
  <2>1. {m} \cap twice = twice \cap {m}
    OBVIOUS
  <2> QED BY <2>1, CountOne
<1>3. Cc!OneReply
  BY <1>1, <1>2 DEF Cc!OneReply, CloudInv, FateInv
<1>4. Cc!TypeOK
  <2>1. \A w \in Workers : Cc!Cardinality(work[w]) <= 1
    <3> SUFFICES ASSUME NEW w \in Workers PROVE Cc!Cardinality(work[w]) <= 1
      OBVIOUS
    <3>1. work[w] = {} \/ \E e : work[w] = {e}
      BY DEF CloudInv, CloudTypes
    <3> QED BY <3>1, FewCount
  <2>2. Cc!Cardinality(delivery) <= 1
    <3>1. delivery = {} \/ \E e : delivery = {e}
      BY DEF CloudInv, CloudTypes
    <3> QED BY <3>1, FewCount
  <2> QED BY <2>1, <2>2 DEF CloudInv, CloudTypes, Cc!TypeOK
<1> QED BY <1>3, <1>4

(***************************************************************************)
(* Reminders.                                                              *)
(***************************************************************************)
\* The sub-agents that have read a reminder and not pushed it yet.
Readers(r) == {w \in Workers : r \in hands[w]}

\* One read is free, each other is counted; one that was pushed and is still in the
\* set is about to be removed, or was left there by a fault.
RemindInv(r) ==
  /\ fired[r] + Cardinality(Readers(r)) <= 1 + again[r]
  /\ r \in calledOff \/ r \notin due => fired[r] = 0 /\ Readers(r) = {}
  /\ r \in calledOff => r \in added \ set
  /\ r \in added => r \in set \/ r \in cancelled \/ fired[r] > 0
  /\ fired[r] > 0 /\ r \in set => r \in tornPushes \/ \E w \in Workers : r \in pushed[w]
  /\ \A w \in Workers : r \in pushed[w] => fired[r] > 0

RemindersInv == Re!TypeOK /\ \A r \in Reminders : RemindInv(r)

LEMMA ReadersFinite ==
  ASSUME CloudFit, NEW r
  PROVE  IsFiniteSet(Readers(r)) /\ Cardinality(Readers(r)) \in Nat
<1>1. IsFiniteSet(Workers)
  BY CloudCounts DEF CloudFit, Cc!ConstantAssumption
<1>2. Readers(r) \subseteq Workers
  BY DEF Readers
<1> QED BY <1>1, <1>2, FS_Subset, FS_CardinalityType

LEMMA RemindersInit == ASSUME CloudFit, Re!Init PROVE RemindersInv
<1>1. Re!TypeOK
  BY DEF Re!Init, Re!TypeOK, CloudFit, Re!ConstantAssumption
<1>2. ASSUME NEW r \in Reminders PROVE RemindInv(r)
  <2>1. Readers(r) = {}
    BY DEF Re!Init, Readers
  <2>2. Cardinality(Readers(r)) = 0
    BY <2>1, FS_EmptySet
  <2> QED BY <2>1, <2>2 DEF Re!Init, RemindInv
<1> QED BY <1>1, <1>2 DEF RemindersInv

LEMMA RemindersTypes == ASSUME CloudFit, Re!TypeOK, Re!Next PROVE Re!TypeOK'
<1> USE DEF Re!TypeOK, Re!history, Re!Fault
<1>0. ReminderFaults \in Nat
  BY DEF CloudFit, Re!ConstantAssumption
<1>1. ASSUME NEW r \in Reminders, Re!Add(r) PROVE Re!TypeOK'
  BY <1>1 DEF Re!Add
<1>2. ASSUME NEW r \in Reminders, Re!BecomesDue(r) PROVE Re!TypeOK'
  BY <1>2 DEF Re!BecomesDue
<1>3. ASSUME NEW r \in Reminders, Re!Cancel(r) PROVE Re!TypeOK'
  BY <1>3 DEF Re!Cancel
<1>4. ASSUME NEW w \in Workers, Re!Scan(w) PROVE Re!TypeOK'
  BY <1>4 DEF Re!Scan
<1>5. ASSUME NEW w \in Workers, Re!Remove(w) PROVE Re!TypeOK'
  BY <1>5 DEF Re!Remove
<1>6. ASSUME NEW w \in Workers, Re!RemoveFails(w) PROVE Re!TypeOK'
  BY <1>0, <1>6 DEF Re!RemoveFails
<1>7. ASSUME NEW w \in Workers, Re!Dies(w) PROVE Re!TypeOK'
  BY <1>0, <1>7 DEF Re!Dies
<1>8. ASSUME NEW w \in Workers, NEW r \in Reminders, Re!Fire(w, r) PROVE Re!TypeOK'
  BY <1>8 DEF Re!Fire
<1>9. ASSUME NEW w \in Workers, NEW r \in Reminders, Re!PushFails(w, r) PROVE Re!TypeOK'
  BY <1>0, <1>9 DEF Re!PushFails
<1> QED BY <1>1, <1>2, <1>3, <1>4, <1>5, <1>6, <1>7, <1>8, <1>9 DEF Re!Next

\* The user adds and cancels, time passes.
LEMMA UserReminds ==
  ASSUME CloudFit, RemindersInv, NEW x \in Reminders,
         Re!Add(x) \/ Re!BecomesDue(x) \/ Re!Cancel(x), NEW r \in Reminders
  PROVE  RemindInv(r)'
<1> USE DEF Re!history
<1>0. RemindInv(r) /\ Re!TypeOK /\ UNCHANGED <<hands, pushed, fired, again, tornPushes>>
  BY DEF RemindersInv, Re!Add, Re!BecomesDue, Re!Cancel
<1>1. Readers(r)' = Readers(r)
  BY <1>0 DEF Readers
<1>2. CASE Re!Add(x)
  BY <1>0, <1>1, <1>2 DEF Re!Add, RemindInv, Re!TypeOK
<1>3. CASE Re!BecomesDue(x)
  BY <1>0, <1>1, <1>3 DEF Re!BecomesDue, RemindInv, Re!TypeOK
<1>4. CASE Re!Cancel(x)
  <2>1. CASE r = x /\ r \in calledOff' /\ r \notin calledOff
    <3>1. r \notin Re!Held /\ r \notin tornPushes /\ r \in set
      BY <1>4, <2>1 DEF Re!Cancel
    <3>2. \A w \in Workers : r \notin hands[w] /\ r \notin pushed[w]
      BY <3>1 DEF Re!Held
    <3>3. Readers(r) = {} /\ fired[r] = 0
      BY <1>0, <3>1, <3>2 DEF RemindInv, Readers, Re!TypeOK
    <3> QED BY <1>0, <1>1, <1>4, <2>1, <3>3 DEF Re!Cancel, RemindInv, Re!TypeOK
  <2>2. CASE r # x \/ r \in calledOff \/ r \notin calledOff'
    BY <1>0, <1>1, <1>4, <2>2 DEF Re!Cancel, RemindInv, Re!TypeOK
  <2> QED BY <2>1, <2>2
<1> QED BY <1>2, <1>3, <1>4

\* A sub-agent that lets go of a reminder is one reader fewer.
LEMMA ReaderLeaves ==
  ASSUME CloudFit, NEW r, NEW w \in Workers, r \in hands[w], Readers(r)' = Readers(r) \ {w}
  PROVE  Cardinality(Readers(r)') = Cardinality(Readers(r)) - 1
<1> DEFINE R == Readers(r)
<1>1. IsFiniteSet(R) /\ w \in R
  BY ReadersFinite DEF Readers
<1> HIDE DEF R
<1>2. Cardinality(R \ {w}) = Cardinality(R) - 1
  BY <1>1, FS_RemoveElement
<1> QED BY <1>2 DEF R

\* The readers of a reminder no step of theirs touches.
LEMMA ScanReminds ==
  ASSUME CloudFit, RemindersInv, NEW w \in Workers, Re!Scan(w), NEW r \in Reminders
  PROVE  RemindInv(r)'
<1>0. /\ RemindInv(r) /\ Re!TypeOK
      /\ Cardinality(Readers(r)) \in Nat /\ IsFiniteSet(Readers(r))
  BY ReadersFinite DEF RemindersInv
<1>1. CASE r \notin set \cap due
  <2>1. Readers(r)' = Readers(r) /\ again'[r] = again[r]
    BY <1>0, <1>1 DEF Re!Scan, Readers, Re!TypeOK
  <2> QED BY <1>0, <2>1 DEF Re!Scan, RemindInv
<1>2. CASE r \in set \cap due
  <2>1. Readers(r)' = Readers(r) \cup {w} /\ w \notin Readers(r)
    BY <1>0, <1>2 DEF Re!Scan, Readers, Re!TypeOK
  <2>2. Cardinality(Readers(r)') = Cardinality(Readers(r)) + 1
    <3> DEFINE R == Readers(r)
    <3>1. IsFiniteSet(R) /\ w \notin R
      BY <1>0, <2>1
    <3> HIDE DEF R
    <3>2. Cardinality(R \cup {w}) = Cardinality(R) + 1
      BY <3>1, FS_AddElement
    <3> QED BY <2>1, <3>2 DEF R
  <2>3. UNCHANGED <<added, set, due, pushed, fired, tornPushes, calledOff, cancelled>>
    BY DEF Re!Scan
  <2>4. r \notin calledOff
    BY <1>0, <1>2 DEF RemindInv
  <2>5. fired[r] + Cardinality(Readers(r)') <= 1 + again'[r]
    <3>1. CASE r \in Re!Held \/ r \in tornPushes
      <4>1. again'[r] = again[r] + 1 /\ again[r] \in Nat /\ fired[r] \in Nat
        BY <1>0, <1>2, <3>1 DEF Re!Scan, Re!TypeOK
      <4> QED BY <1>0, <2>2, <4>1 DEF RemindInv
    <3>2. CASE r \notin Re!Held /\ r \notin tornPushes
      <4>1. \A v \in Workers : r \notin hands[v] /\ r \notin pushed[v]
        BY <3>2 DEF Re!Held
      <4>2. Readers(r) = {} /\ fired[r] = 0
        BY <1>0, <1>2, <3>2, <4>1 DEF RemindInv, Readers, Re!TypeOK
      <4>3. Cardinality(Readers(r)') = 1
        BY <2>2, <4>2, FS_EmptySet
      <4>4. again'[r] \in Nat
        BY <1>0 DEF Re!Scan, Re!TypeOK
      <4> QED BY <4>2, <4>3, <4>4
    <3> QED BY <3>1, <3>2
  <2> QED BY <1>0, <1>2, <2>3, <2>4, <2>5 DEF RemindInv
<1> QED BY <1>1, <1>2

\* A reminder is pushed, with or without effect.
LEMMA PushReminds ==
  ASSUME CloudFit, RemindersInv, NEW w \in Workers, NEW x \in Reminders,
         Re!Fire(w, x) \/ Re!PushFails(w, x), NEW r \in Reminders
  PROVE  RemindInv(r)'
<1>0. /\ RemindInv(r) /\ Re!TypeOK
      /\ Cardinality(Readers(r)) \in Nat /\ fired[r] \in Nat /\ again[r] \in Nat
  BY ReadersFinite DEF RemindersInv, Re!TypeOK
<1>1. /\ x \in hands[w] /\ hands' = [hands EXCEPT ![w] = @ \ {x}] /\ pushed[w] = {}
      /\ UNCHANGED <<added, set, due, again, calledOff, cancelled>>
      /\ \/ /\ fired' = [fired EXCEPT ![x] = @ + 1] /\ tornPushes' = tornPushes \cup {x}
            /\ pushed' = pushed
         \/ /\ fired' = [fired EXCEPT ![x] = @ + 1] /\ tornPushes' = tornPushes
            /\ pushed' = [pushed EXCEPT ![w] = {x}]
         \/ fired' = fired /\ tornPushes' = tornPushes /\ pushed' = pushed
  BY DEF Re!Fire, Re!PushFails
<1>2. CASE r = x
  <2>1. Readers(r)' = Readers(r) \ {w}
    BY <1>0, <1>1, <1>2 DEF Readers, Re!TypeOK
  <2>2. Cardinality(Readers(r)') = Cardinality(Readers(r)) - 1
    BY <1>1, <1>2, <2>1, ReaderLeaves
  <2>3. fired'[r] \in {fired[r], fired[r] + 1}
    BY <1>0, <1>1, <1>2 DEF Re!TypeOK
  <2>4. Readers(r) # {}
    BY <1>1, <1>2 DEF Readers
  <2>5. r \notin calledOff /\ r \in due
    BY <1>0, <2>4 DEF RemindInv
  <2>6. fired'[r] + Cardinality(Readers(r)') <= 1 + again'[r]
    BY <1>0, <1>1, <2>2, <2>3 DEF RemindInv
  <2>7. fired'[r] > 0 /\ r \in set' => r \in tornPushes' \/ \E v \in Workers : r \in pushed'[v]
    BY <1>0, <1>1, <1>2 DEF RemindInv, Re!TypeOK
  <2>8. \A v \in Workers : r \in pushed'[v] => fired'[r] > 0
    BY <1>0, <1>1, <1>2 DEF RemindInv, Re!TypeOK
  <2>9. r \in added => r \in set \/ r \in cancelled \/ fired'[r] > 0
    BY <1>0, <2>3 DEF RemindInv
  <2> QED BY <1>1, <2>5, <2>6, <2>7, <2>8, <2>9 DEF RemindInv
<1>3. CASE r # x
  <2>1. Readers(r)' = Readers(r) /\ fired'[r] = fired[r]
    BY <1>0, <1>1, <1>3 DEF Readers, Re!TypeOK
  <2>2. /\ r \in tornPushes' <=> r \in tornPushes
        /\ \A v \in Workers : r \in pushed'[v] <=> r \in pushed[v]
    BY <1>0, <1>1, <1>3 DEF Re!TypeOK
  <2> QED BY <1>0, <1>1, <2>1, <2>2 DEF RemindInv
<1> QED BY <1>2, <1>3

\* The entry is removed, or is not.
LEMMA EndReminds ==
  ASSUME CloudFit, RemindersInv, NEW w \in Workers,
         Re!Remove(w) \/ Re!RemoveFails(w) \/ Re!Dies(w), NEW r \in Reminders
  PROVE  RemindInv(r)'
<1> USE DEF Re!history
<1>0. /\ RemindInv(r) /\ Re!TypeOK
      /\ Cardinality(Readers(r)) \in Nat /\ fired[r] \in Nat /\ again[r] \in Nat
  BY ReadersFinite DEF RemindersInv, Re!TypeOK
<1>1. UNCHANGED <<added, due, fired, again, calledOff, cancelled>>
  BY DEF Re!Remove, Re!RemoveFails, Re!Dies
<1>2. \A v \in Workers : r \in pushed'[v] => r \in pushed[v]
  BY <1>0 DEF Re!Remove, Re!RemoveFails, Re!Dies, Re!TypeOK
<1>3. \/ set' = set \ pushed[w] /\ tornPushes' = tornPushes
      \/ set' = set /\ tornPushes' = tornPushes \cup pushed[w]
  BY DEF Re!Remove, Re!RemoveFails, Re!Dies
<1>4. pushed' = [pushed EXCEPT ![w] = {}]
  BY DEF Re!Remove, Re!RemoveFails, Re!Dies
<1>5. Readers(r)' \subseteq Readers(r)
  BY <1>0 DEF Readers, Re!Remove, Re!RemoveFails, Re!Dies, Re!TypeOK
<1>6. Cardinality(Readers(r)') <= Cardinality(Readers(r)) /\ Cardinality(Readers(r)') \in Nat
  BY <1>5, ReadersFinite, FS_Subset, FS_CardinalityType
<1>7. fired[r] + Cardinality(Readers(r)') <= 1 + again[r]
  BY <1>0, <1>6 DEF RemindInv
<1>8. fired[r] > 0 /\ r \in set' => r \in tornPushes' \/ \E v \in Workers : r \in pushed'[v]
  <2>1. CASE r \in pushed[w]
    BY <1>3, <2>1
  <2>2. CASE r \notin pushed[w]
    <3>1. \A v \in Workers : r \in pushed'[v] <=> r \in pushed[v]
      BY <1>0, <1>4, <2>2 DEF Re!TypeOK
    <3> QED BY <1>0, <1>3, <2>2, <3>1 DEF RemindInv
  <2> QED BY <2>1, <2>2
<1>9. r \in added => r \in set' \/ r \in cancelled \/ fired[r] > 0
  BY <1>0, <1>3 DEF RemindInv
<1> QED BY <1>0, <1>1, <1>2, <1>3, <1>5, <1>7, <1>8, <1>9 DEF RemindInv

LEMMA RemindersStep == ASSUME CloudFit, RemindersInv, [Re!Next]_(Re!vars) PROVE RemindersInv'
<1>1. CASE Re!Next
  <2>1. Re!TypeOK'
    BY <1>1, RemindersTypes DEF RemindersInv
  <2>2. ASSUME NEW r \in Reminders PROVE RemindInv(r)'
    BY <1>1, UserReminds, ScanReminds, PushReminds, EndReminds DEF Re!Next
  <2> QED BY <2>1, <2>2 DEF RemindersInv
<1>2. CASE UNCHANGED Re!vars
  BY <1>2 DEF Re!vars, Re!history, RemindersInv, RemindInv, Readers, Re!TypeOK
<1> QED BY <1>1, <1>2

LEMMA RemindersHold == ASSUME CloudFit, RemindersInv PROVE Re!RemindedOnce
<1> SUFFICES ASSUME NEW r \in Reminders
             PROVE  /\ fired[r] <= 1 + again[r]
                    /\ r \in calledOff \/ r \notin due => fired[r] = 0
                    /\ r \in added => r \in set \/ r \in cancelled \/ fired[r] > 0
  BY DEF Re!RemindedOnce
<1>1. /\ RemindInv(r) /\ Cardinality(Readers(r)) \in Nat /\ fired[r] \in Nat /\ again[r] \in Nat
  BY ReadersFinite DEF RemindersInv, Re!TypeOK
<1> QED BY <1>1 DEF RemindInv

(***************************************************************************)
(* Connected accounts and the briefing.                                    *)
(***************************************************************************)
\* The link of a user, or none.
Owned(l, g, u) == g # Ac!None => g \in DOMAIN l /\ l[g].user = u

\* A user's key holds what the user was told, and only links of the user.
TokensInv ==
  \A u \in Ac!Users, s \in Ac!Services :
    /\ Owned(links, tokens[u][s], u)
    /\ <<u, s>> \notin unsure => tokens[u][s] = meant[u][s]

\* Nobody is written to twice in a run, and what the run will store again is what is
\* stored, or the user was told something while the run was at it.
RosterInv ==
  /\ \A k \in DOMAIN roster :
       /\ roster[k].name \in Bare \cup {Tag} /\ day \in 1..MaxDays
       /\ roster[k].name \in Ac!Users => \A s \in Ac!Services :
            /\ Owned(links, roster[k].grants[s], roster[k].name)
            /\ s \in roster[k].left =>
                 \/ <<roster[k].name, s>> \in unsure
                 \/ roster[k].grants[s] = tokens[roster[k].name][s]
  /\ \A j, k \in DOMAIN roster : roster[j].name = roster[k].name => j = k

\* Whoever has had today's briefing is not on the list any more, unless the timer has
\* fired twice.
MailInv ==
  /\ \A k \in DOMAIN mail :
       /\ mail[k].day <= day
       /\ mail[k].to # NoBody => \A s \in Ac!Services : Owned(links, mail[k].grants[s], mail[k].to)
       /\ mail[k].day = day /\ day \notin firedTwice =>
            \A j \in DOMAIN roster : Ac!Address(roster[j].name) # mail[k].to
  /\ \A k, m \in DOMAIN mail :
       (k # m /\ mail[k].to = mail[m].to /\ mail[k].day = mail[m].day) =>
         mail[k].day \in firedTwice

AccountsInv == Ac!TypeOK /\ TokensInv /\ RosterInv /\ MailInv

LEMMA AccountsCounts ==
  /\ \A S : Ac!Cardinality(S) = Cardinality(S)
  /\ \A S : Ac!IsFiniteSet(S) <=> IsFiniteSet(S)
<1>1. \A S : Ac!Cardinality(S) = Cardinality(S)
  BY DEF Ac!Cardinality, Cardinality
<1>2. \A S : Ac!IsFiniteSet(S) <=> IsFiniteSet(S)
  BY Zenon DEF Ac!IsFiniteSet, IsFiniteSet
<1> QED BY <1>1, <1>2

LEMMA AccountsConstants ==
  ASSUME CloudFit
  PROVE  /\ Bare \cap Tagged = {} /\ Tag \notin Ac!Users /\ NoBody \notin Ac!Users /\ Tag # NoBody
         /\ MaxLinks \in Nat /\ MaxDays \in Nat /\ AccountFaults \in Nat
  BY DEF CloudFit, Ac!ConstantAssumption

LEMMA AccountsInit == ASSUME CloudFit, Ac!Init PROVE AccountsInv
<1> USE AccountsConstants DEF Ac!Init
<1>1. Ac!TypeOK
  BY DEF Ac!TypeOK, Ac!Grants, Ac!Names
<1>2. TokensInv
  <2> SUFFICES ASSUME NEW u \in Ac!Users, NEW s \in Ac!Services
               PROVE  Owned(links, tokens[u][s], u) /\ tokens[u][s] = meant[u][s]
    BY DEF TokensInv
  <2>1. u \in Ac!Names
    BY DEF Ac!Names
  <2>2. tokens[u] = [t \in Ac!Services |-> Ac!None] /\ meant[u] = [t \in Ac!Services |-> Ac!None]
    BY <2>1
  <2> QED BY <2>2 DEF Owned
<1>3. RosterInv /\ MailInv
  BY DEF RosterInv, MailInv
<1> QED BY <1>1, <1>2, <1>3 DEF AccountsInv

LinkType == [user : Ac!Users, service : Ac!Services, at : {"open", "read", "granted", "over"}]

\* A link, further.
LEMMA LinkAt ==
  ASSUME NEW l \in LinkType, NEW v \in {"open", "read", "granted", "over"}
  PROVE  [l EXCEPT !.at = v] \in LinkType /\ [l EXCEPT !.at = v].user = l.user
  BY DEF LinkType

\* The list of links with one that got further.
LEMMA LinksTouched ==
  ASSUME Ac!TypeOK, NEW i \in DOMAIN links, NEW v \in {"open", "read", "granted", "over"},
         links' = [links EXCEPT ![i].at = v]
  PROVE  /\ links' \in Seq(LinkType)
         /\ Len(links') <= MaxLinks /\ DOMAIN links' = DOMAIN links
         /\ \A j \in DOMAIN links : links'[j].user = links[j].user
<1>1. links \in Seq(LinkType) /\ Len(links) <= MaxLinks
  BY DEF Ac!TypeOK, LinkType
<1>2. links[i] \in LinkType
  BY <1>1
<1>3. PICK l \in LinkType : links' = [links EXCEPT ![i] = l] /\ l.user = links[i].user
  BY <1>2, LinkAt
<1>4. links' \in Seq(LinkType) /\ Len(links') = Len(links) /\ DOMAIN links' = DOMAIN links
  BY <1>1, <1>3
<1>5. \A j \in DOMAIN links : links'[j].user = links[j].user
  BY <1>1, <1>3
<1> QED BY <1>1, <1>4, <1>5

\* Links that come, or get further, keep what was said of links.
LEMMA LinksGrow ==
  ASSUME AccountsInv, Ac!TypeOK',
         DOMAIN links \subseteq DOMAIN links', \A j \in DOMAIN links : links'[j].user = links[j].user,
         UNCHANGED <<tokens, meant, unsure, day, firedTwice, mail>>,
         roster' = roster \/ roster' = <<>>
  PROVE  AccountsInv'
<1>1. \A g, u : Owned(links, g, u) => Owned(links', g, u)
  BY DEF Owned
<1>2. TokensInv'
  BY <1>1 DEF AccountsInv, TokensInv
<1>3. RosterInv'
  <2>1. CASE roster' = roster
    BY <1>1, <2>1 DEF AccountsInv, RosterInv
  <2>2. CASE roster' = <<>>
    BY <2>2 DEF RosterInv
  <2> QED BY <2>1, <2>2
<1>4. MailInv'
  <2>1. \A j \in DOMAIN roster' : j \in DOMAIN roster /\ roster'[j] = roster[j]
    OBVIOUS
  <2> QED BY <1>1, <2>1 DEF AccountsInv, MailInv, Ac!Address
<1> QED BY <1>2, <1>3, <1>4 DEF AccountsInv

LEMMA LinksInv ==
  ASSUME CloudFit, AccountsInv,
         \/ \E u \in Ac!Users, s \in Ac!Services : Ac!Connect(u, s)
         \/ \E i \in DOMAIN links : Ac!Expire(i) \/ Ac!Callback(i) \/ Ac!Exchange(i)
         \/ Ac!Stop
  PROVE  AccountsInv'
<1> USE DEF Ac!TypeOK
<1>0. Ac!TypeOK /\ links \in Seq(LinkType) /\ AccountFaults \in Nat
  BY AccountsConstants DEF AccountsInv, LinkType
<1>1. ASSUME NEW u \in Ac!Users, NEW s \in Ac!Services, Ac!Connect(u, s) PROVE AccountsInv'
  <2>1. [user |-> u, service |-> s, at |-> "open"] \in LinkType
    BY DEF LinkType
  <2>2. PICK l \in LinkType : links' = Append(links, l) /\ Len(links) < MaxLinks
    BY <1>1, <2>1 DEF Ac!Connect
  <2>3. UNCHANGED <<tokens, meant, unsure, roster, day, firedTwice, mail, accountFaults>>
    BY <1>1 DEF Ac!Connect
  <2>4. links' \in Seq(LinkType) /\ Len(links') = Len(links) + 1
    BY <1>0, <2>2
  <2>5. DOMAIN links \subseteq DOMAIN links' /\ \A j \in DOMAIN links : links'[j].user = links[j].user
    BY <1>0, <2>2
  <2>6. Len(links') <= MaxLinks
    BY <1>0, <2>2, <2>4, AccountsConstants
  <2>7. Ac!TypeOK'
    BY <1>0, <2>3, <2>4, <2>6 DEF LinkType
  <2> QED BY <2>3, <2>5, <2>7, LinksGrow
<1>2. ASSUME NEW i \in DOMAIN links, Ac!Expire(i) \/ Ac!Callback(i) \/ Ac!Exchange(i)
      PROVE  AccountsInv'
  <2>1. PICK v \in {"open", "read", "granted", "over"} : links' = [links EXCEPT ![i].at = v]
    BY <1>2 DEF Ac!Expire, Ac!Callback, Ac!Exchange
  <2>2. /\ UNCHANGED <<tokens, meant, unsure, roster, day, firedTwice, mail>>
        /\ accountFaults' \in 0..AccountFaults
    BY <1>0, <1>2 DEF Ac!Expire, Ac!Callback, Ac!Exchange, Ac!Fault
  <2>3. /\ links' \in Seq(LinkType)
        /\ Len(links') <= MaxLinks /\ DOMAIN links' = DOMAIN links
        /\ \A j \in DOMAIN links : links'[j].user = links[j].user
    BY <1>0, <2>1, LinksTouched
  <2>4. Ac!TypeOK'
    BY <1>0, <2>2, <2>3 DEF LinkType
  <2> QED BY <2>2, <2>3, <2>4, LinksGrow
<1>3. CASE Ac!Stop
  <2>1. /\ UNCHANGED <<tokens, meant, unsure, day, firedTwice, mail>> /\ roster' = <<>>
        /\ accountFaults' \in 0..AccountFaults
    BY <1>0, <1>3 DEF Ac!Stop, Ac!Fault
  <2>2. \A l \in LinkType : [l EXCEPT !.at = "over"] \in LinkType /\ [l EXCEPT !.at = "over"].user = l.user
    BY LinkAt
  <2>3. links' = [i \in DOMAIN links |-> IF links[i].at \in {"read", "granted"}
                                          THEN [links[i] EXCEPT !.at = "over"] ELSE links[i]]
    BY <1>3 DEF Ac!Stop
  <2>4. DOMAIN links = 1..Len(links) /\ Len(links) \in Nat /\ \A i \in DOMAIN links : links[i] \in LinkType
    BY <1>0
  <2>5. /\ DOMAIN links' = DOMAIN links /\ \A j \in DOMAIN links : links'[j] \in LinkType /\ links'[j].user = links[j].user
    <3> QED BY <2>2, <2>3, <2>4
  <2>6. links' \in Seq(LinkType) /\ Len(links') = Len(links)
    <3>1. links' \in [1..Len(links) -> LinkType]
      BY <2>3, <2>4, <2>5
    <3> QED BY <2>4, <3>1
  <2>7. Ac!TypeOK'
    BY <1>0, <2>1, <2>6 DEF LinkType
  <2> QED BY <2>1, <2>5, <2>7, LinksGrow
<1> QED BY <1>1, <1>2, <1>3

\* A user is told what holds of a service; while the run has yet to store tokens of
\* theirs for it, or if they are told amiss, it stays unsure.
LEMMA TellInv ==
  ASSUME CloudFit, AccountsInv, Ac!TypeOK', NEW u \in Ac!Users, NEW s \in Ac!Services,
         DOMAIN links' = DOMAIN links, \A j \in DOMAIN links : links'[j].user = links[j].user,
         UNCHANGED <<roster, day, firedTwice, mail>>,
         \A x \in Ac!Users, y \in Ac!Services : <<x, y>> # <<u, s>> =>
           /\ tokens'[x][y] = tokens[x][y] /\ meant'[x][y] = meant[x][y]
           /\ <<x, y>> \in unsure' <=> <<x, y>> \in unsure,
         Owned(links', tokens'[u][s], u),
         <<u, s>> \notin unsure' =>
           /\ tokens'[u][s] = meant'[u][s]
           /\ \A k \in DOMAIN roster : roster[k].name = u => s \notin roster[k].left
  PROVE  AccountsInv'
<1>1. \A g, x : Owned(links, g, x) => Owned(links', g, x)
  BY DEF Owned
<1>2. TokensInv'
  <2> SUFFICES ASSUME NEW x \in Ac!Users, NEW y \in Ac!Services
               PROVE  /\ Owned(links', tokens'[x][y], x)
                      /\ <<x, y>> \notin unsure' => tokens'[x][y] = meant'[x][y]
    BY DEF TokensInv
  <2>1. CASE <<x, y>> = <<u, s>>
    BY <2>1
  <2>2. CASE <<x, y>> # <<u, s>>
    BY <1>1, <2>2 DEF AccountsInv, TokensInv
  <2> QED BY <2>1, <2>2
<1>3. RosterInv'
  <2>1. ASSUME NEW k \in DOMAIN roster, roster[k].name \in Ac!Users, NEW y \in Ac!Services
        PROVE  /\ Owned(links', roster[k].grants[y], roster[k].name)
               /\ y \in roster[k].left =>
                    \/ <<roster[k].name, y>> \in unsure'
                    \/ roster[k].grants[y] = tokens'[roster[k].name][y]
    <3> DEFINE x == roster[k].name
    <3>0. /\ Owned(links, roster[k].grants[y], x)
          /\ y \in roster[k].left => <<x, y>> \in unsure \/ roster[k].grants[y] = tokens[x][y]
      BY <2>1 DEF AccountsInv, RosterInv
    <3>1. Owned(links', roster[k].grants[y], roster[k].name)
      BY <1>1, <3>0
    <3>2. CASE <<x, y>> = <<u, s>>
      BY <3>1, <3>2
    <3>3. CASE <<x, y>> # <<u, s>>
      BY <2>1, <3>0, <3>1, <3>3
    <3> QED BY <3>2, <3>3
  <2> QED BY <2>1 DEF AccountsInv, RosterInv, Ac!Users
<1>4. MailInv'
  BY <1>1 DEF AccountsInv, MailInv, Ac!Address
<1> QED BY <1>2, <1>3, <1>4 DEF AccountsInv

LEMMA StoreInv ==
  ASSUME CloudFit, AccountsInv, NEW i \in DOMAIN links, Ac!Store(i)
  PROVE  AccountsInv'
<1>0. Ac!TypeOK /\ links \in Seq(LinkType) /\ AccountFaults \in Nat /\ DOMAIN links \subseteq Ac!Links
  BY AccountsConstants DEF AccountsInv, LinkType, Ac!TypeOK, Ac!Links
<1> DEFINE u == links[i].user  s == links[i].service
<1>1. u \in Ac!Users /\ s \in Ac!Services /\ u \in Ac!Names /\ i \in Ac!Links /\ <<u, s>> \in Ac!Users \X Ac!Services
  <2>1. links[i] \in LinkType
    BY <1>0
  <2> QED BY <1>0, <2>1 DEF LinkType, Ac!Names
<1>2. /\ links' \in Seq(LinkType) /\ Len(links') <= MaxLinks /\ DOMAIN links' = DOMAIN links
      /\ \A j \in DOMAIN links : links'[j].user = links[j].user
  <2>1. links' = [links EXCEPT ![i].at = "over"]
    BY DEF Ac!Store
  <2> QED BY <1>0, <2>1, LinksTouched
<1>3. UNCHANGED <<roster, day, firedTwice, mail>> /\ accountFaults' \in 0..AccountFaults
  <2>1. UNCHANGED <<roster, day, firedTwice, mail>>
    BY DEF Ac!Store
  <2>2. accountFaults' = accountFaults \/ Ac!Fault
    BY DEF Ac!Store
  <2> QED BY <1>0, <2>1, <2>2 DEF Ac!Fault, Ac!TypeOK
<1>4. \/ /\ tokens' = [tokens EXCEPT ![u][s] = i] /\ meant' = [meant EXCEPT ![u][s] = i]
         /\ unsure' = IF Ac!Overlapped(u, s, i) THEN unsure \cup {<<u, s>>} ELSE unsure \ {<<u, s>>}
      \/ tokens' = tokens /\ meant' = [meant EXCEPT ![u][s] = i] /\ unsure' = unsure \cup {<<u, s>>}
      \/ /\ tokens' = [tokens EXCEPT ![u][s] = i] /\ meant' = meant
         /\ unsure' = unsure \cup {<<u, s>>}
  BY DEF Ac!Store, Ac!Tell
<1> HIDE DEF u, s
<1>5. /\ tokens' \in [Ac!Names -> Ac!Grants] /\ meant' \in [Ac!Users -> Ac!Grants]
      /\ unsure' \in SUBSET (Ac!Users \X Ac!Services)
  <2>1. /\ [tokens EXCEPT ![u][s] = i] \in [Ac!Names -> Ac!Grants]
        /\ [meant EXCEPT ![u][s] = i] \in [Ac!Users -> Ac!Grants]
    BY <1>0, <1>1 DEF Ac!TypeOK, Ac!Grants
  <2>2. tokens' \in [Ac!Names -> Ac!Grants] /\ meant' \in [Ac!Users -> Ac!Grants]
    BY <1>0, <1>4, <2>1 DEF Ac!TypeOK
  <2>3. unsure' \in SUBSET (Ac!Users \X Ac!Services)
    BY <1>0, <1>1, <1>4 DEF Ac!TypeOK
  <2> QED BY <2>2, <2>3
<1>6. Ac!TypeOK'
  BY <1>0, <1>2, <1>3, <1>5 DEF Ac!TypeOK, LinkType
<1>7. ASSUME NEW x \in Ac!Users, NEW y \in Ac!Services, <<x, y>> # <<u, s>>
      PROVE  /\ tokens'[x][y] = tokens[x][y] /\ meant'[x][y] = meant[x][y]
             /\ <<x, y>> \in unsure' <=> <<x, y>> \in unsure
  <2>1. tokens[x] \in Ac!Grants /\ meant[x] \in Ac!Grants /\ x \in Ac!Names
    BY <1>0 DEF Ac!TypeOK, Ac!Names
  <2> QED BY <1>0, <1>1, <1>4, <1>7, <2>1 DEF Ac!TypeOK, Ac!Grants
<1>8. tokens'[u][s] = i \/ tokens'[u][s] = tokens[u][s]
  BY <1>0, <1>1, <1>4 DEF Ac!TypeOK, Ac!Grants
<1>9. Owned(links', tokens'[u][s], u)
  <2>1. Owned(links, tokens[u][s], u)
    BY <1>1 DEF AccountsInv, TokensInv
  <2>2. links'[i].user = u
    BY <1>2 DEF u
  <2> QED BY <1>2, <1>8, <2>1, <2>2 DEF Owned
<1>10. <<u, s>> \notin unsure' =>
         /\ tokens'[u][s] = meant'[u][s]
         /\ \A k \in DOMAIN roster : roster[k].name = u => s \notin roster[k].left
  <2> SUFFICES ASSUME <<u, s>> \notin unsure'
               PROVE  /\ tokens'[u][s] = meant'[u][s]
                      /\ \A k \in DOMAIN roster : roster[k].name = u => s \notin roster[k].left
    OBVIOUS
  <2>1. /\ tokens' = [tokens EXCEPT ![u][s] = i] /\ meant' = [meant EXCEPT ![u][s] = i]
        /\ ~ Ac!Overlapped(u, s, i)
    BY <1>4
  <2>2. tokens'[u][s] = i /\ meant'[u][s] = i
    BY <1>0, <1>1, <2>1 DEF Ac!TypeOK, Ac!Grants
  <2> QED BY <2>1, <2>2 DEF Ac!Overlapped
<1> QED BY <1>1, <1>2, <1>3, <1>6, <1>7, <1>9, <1>10, TellInv

LEMMA DisconnectInv ==
  ASSUME CloudFit, AccountsInv, NEW u \in Ac!Users, NEW s \in Ac!Services,
         Ac!Disconnect(u, s)
  PROVE  AccountsInv'
<1>0. Ac!TypeOK /\ AccountFaults \in Nat /\ u \in Ac!Names /\ Ac!None \notin DOMAIN links
  BY AccountsConstants DEF AccountsInv, Ac!TypeOK, Ac!Names, Ac!None
<1>3. UNCHANGED <<links, roster, day, firedTwice, mail>> /\ accountFaults' \in 0..AccountFaults
  BY <1>0 DEF Ac!Disconnect, Ac!Fault, Ac!TypeOK
<1>4. /\ tokens' = [tokens EXCEPT ![u][s] = Ac!None]
      /\ \/ /\ meant' = [meant EXCEPT ![u][s] = Ac!None]
            /\ unsure' = IF Ac!Overlapped(u, s, Ac!None) THEN unsure \cup {<<u, s>>} ELSE unsure \ {<<u, s>>}
         \/ meant' = meant /\ unsure' = unsure \cup {<<u, s>>}
  BY DEF Ac!Disconnect, Ac!Tell, Ac!Without
<1>5. /\ tokens' \in [Ac!Names -> Ac!Grants] /\ meant' \in [Ac!Users -> Ac!Grants]
      /\ unsure' \in SUBSET (Ac!Users \X Ac!Services)
  BY <1>0, <1>4 DEF Ac!TypeOK, Ac!Grants
<1>6. Ac!TypeOK'
  BY <1>0, <1>3, <1>5 DEF Ac!TypeOK
<1>7. ASSUME NEW x \in Ac!Users, NEW y \in Ac!Services, <<x, y>> # <<u, s>>
      PROVE  /\ tokens'[x][y] = tokens[x][y] /\ meant'[x][y] = meant[x][y]
             /\ <<x, y>> \in unsure' <=> <<x, y>> \in unsure
  <2>1. tokens[x] \in Ac!Grants /\ meant[x] \in Ac!Grants /\ x \in Ac!Names
    BY <1>0 DEF Ac!TypeOK, Ac!Names
  <2> QED BY <1>0, <1>4, <1>7, <2>1 DEF Ac!TypeOK, Ac!Grants
<1>8. tokens'[u][s] = Ac!None
  BY <1>0, <1>4 DEF Ac!TypeOK, Ac!Grants
<1>9. Owned(links', tokens'[u][s], u)
  BY <1>8 DEF Owned
<1>10. <<u, s>> \notin unsure' =>
         /\ tokens'[u][s] = meant'[u][s]
         /\ \A k \in DOMAIN roster : roster[k].name = u => s \notin roster[k].left
  <2> SUFFICES ASSUME <<u, s>> \notin unsure'
               PROVE  /\ tokens'[u][s] = meant'[u][s]
                      /\ \A k \in DOMAIN roster : roster[k].name = u => s \notin roster[k].left
    OBVIOUS
  <2>1. meant' = [meant EXCEPT ![u][s] = Ac!None] /\ ~ Ac!Overlapped(u, s, Ac!None)
    BY <1>4
  <2>2. meant'[u][s] = Ac!None
    BY <1>0, <2>1 DEF Ac!TypeOK, Ac!Grants
  <2> QED BY <1>8, <2>1, <2>2 DEF Ac!Overlapped
<1> QED BY <1>3, <1>6, <1>7, <1>9, <1>10, TellInv

RosterType == [name : Ac!Names, grants : Ac!Grants, left : SUBSET Ac!Services]

\* Only the key of a user without a tag carries the user's own name.
LEMMA FoundOwn ==
  ASSUME CloudFit, Ac!TypeOK, NEW u \in Bare, NEW s \in Ac!Services
  PROVE  Ac!Found(u, s) = {tokens[u][s]}
<1>1. \A m \in Ac!Names : Ac!NamedBy(m) = u <=> m = u
  BY AccountsConstants DEF Ac!NamedBy, Ac!Names, Ac!Users
<1>2. u \in Ac!Names /\ Ac!Connected \subseteq Ac!Names
  BY DEF Ac!Names, Ac!Users, Ac!Connected
<1>3. {m \in Ac!Connected : Ac!NamedBy(m) = u} = Ac!Connected \cap {u}
  BY <1>1, <1>2
<1>4. CASE tokens[u][s] = Ac!None
  <2>1. {tokens[n][s] : n \in {m \in Ac!Connected : Ac!NamedBy(m) = u}} \ {Ac!None} = {}
    BY <1>3, <1>4
  <2> QED BY <1>4, <2>1 DEF Ac!Found
<1>5. CASE tokens[u][s] # Ac!None
  <2>1. u \in Ac!Connected
    BY <1>2, <1>5 DEF Ac!Connected
  <2>2. {tokens[n][s] : n \in {m \in Ac!Connected : Ac!NamedBy(m) = u}} \ {Ac!None} = {tokens[u][s]}
    BY <1>3, <1>5, <2>1
  <2> QED BY <2>2 DEF Ac!Found
<1> QED BY <1>4, <1>5

\* The run goes through each name once, with what is stored.
LEMMA GatherFacts ==
  ASSUME CloudFit, AccountsInv, Ac!Gather
  PROVE  /\ roster' \in Seq(RosterType)
         /\ \A k \in DOMAIN roster' :
              /\ roster'[k].name \in Bare \cup {Tag}
              /\ roster'[k].name \in Ac!Users => \A s \in Ac!Services :
                   /\ Owned(links, roster'[k].grants[s], roster'[k].name)
                   /\ roster'[k].grants[s] = tokens[roster'[k].name][s]
         /\ \A j, k \in DOMAIN roster' : roster'[j].name = roster'[k].name => j = k
<1> DEFINE S == {Ac!NamedBy(n) : n \in Ac!Connected}
<1>0. Ac!TypeOK
  BY DEF AccountsInv
<1>1. PICK names \in Ac!SetToSeqs(S) :
        \E grants \in [DOMAIN names -> Ac!Grants] :
          /\ \A k \in DOMAIN names : \A s \in Ac!Services : grants[k][s] \in Ac!Found(names[k], s)
          /\ roster' = [k \in DOMAIN names |-> Ac!Entry(names[k], grants[k])]
  BY DEF Ac!Gather
<1>2. PICK grants \in [DOMAIN names -> Ac!Grants] :
        /\ \A k \in DOMAIN names : \A s \in Ac!Services : grants[k][s] \in Ac!Found(names[k], s)
        /\ roster' = [k \in DOMAIN names |-> Ac!Entry(names[k], grants[k])]
  BY <1>1
<1>3. S \subseteq Bare \cup {Tag} /\ S \subseteq Ac!Names /\ IsFiniteSet(S)
  <2>1. S \subseteq Bare \cup {Tag} /\ S \subseteq Ac!Names
    BY DEF Ac!Connected, Ac!NamedBy, Ac!Names, Ac!Users
  <2>2. IsFiniteSet(Ac!Names)
    <3>1. IsFiniteSet(Ac!Users)
      BY AccountsCounts DEF CloudFit, Ac!ConstantAssumption
    <3> QED BY <3>1, FS_AddElement DEF Ac!Names
  <2> QED BY <2>1, <2>2, FS_Subset
<1>4. PICK c \in Nat : names \in [1..c -> S] /\ \A i, j \in 1..c : i # j => names[i] # names[j]
  <2>1. Ac!Cardinality(S) \in Nat
    BY <1>3, AccountsCounts, FS_CardinalityType
  <2> HIDE DEF S
  <2>2. /\ names \in [1..Ac!Cardinality(S) -> S]
        /\ \A i, j \in 1..Ac!Cardinality(S) : i # j => names[i] # names[j]
    BY Zenon DEF Ac!SetToSeqs
  <2> QED BY <2>1, <2>2
<1> HIDE DEF S
<1>5. DOMAIN names = 1..c /\ DOMAIN roster' = 1..c
  BY <1>2, <1>4
<1>6. ASSUME NEW k \in 1..c
      PROVE  /\ roster'[k] \in RosterType
             /\ roster'[k].name = names[k] /\ roster'[k].grants = grants[k] /\ names[k] \in Bare \cup {Tag}
  <2>1. roster'[k] = [name |-> names[k], grants |-> grants[k], left |-> {s \in Ac!Services : grants[k][s] # Ac!None}]
    BY <1>2, <1>5 DEF Ac!Entry
  <2>2. names[k] \in S /\ grants[k] \in Ac!Grants
    BY <1>4, <1>5
  <2> QED BY <1>3, <2>1, <2>2 DEF RosterType
<1>7. roster' \in Seq(RosterType)
  <2>1. roster' \in [1..c -> RosterType]
    BY <1>2, <1>5, <1>6
  <2> QED BY <2>1
<1>8. ASSUME NEW k \in 1..c, names[k] \in Ac!Users, NEW s \in Ac!Services
      PROVE  grants[k][s] = tokens[names[k]][s] /\ Owned(links, grants[k][s], names[k])
  <2>1. names[k] \in Bare
    BY <1>6, <1>8, AccountsConstants
  <2>2. grants[k][s] = tokens[names[k]][s]
    BY <1>0, <1>2, <1>5, <2>1, FoundOwn
  <2> QED BY <1>8, <2>2 DEF AccountsInv, TokensInv
<1>9. \A j, k \in 1..c : roster'[j].name = roster'[k].name => j = k
  BY <1>4, <1>6
<1> QED BY <1>5, <1>6, <1>7, <1>8, <1>9

LetterType == [to : Ac!Users \cup {NoBody}, grants : Ac!Grants, day : 1..MaxDays]

LEMMA SeqAt == ASSUME NEW T, NEW q \in Seq(T), NEW k \in DOMAIN q PROVE q[k] \in T
  OBVIOUS

\* The types of the parts, one by one.
LEMMA AccountsParts ==
  ASSUME CloudFit, Ac!TypeOK
  PROVE  /\ roster \in Seq(RosterType) /\ mail \in Seq(LetterType)
         /\ day \in 0..MaxDays /\ firedTwice \in SUBSET (1..MaxDays) /\ accountFaults \in 0..AccountFaults
         /\ MaxDays \in Nat /\ AccountFaults \in Nat
         /\ \A k \in DOMAIN mail : mail[k] \in LetterType /\ mail[k].day \in 1..MaxDays
         /\ \A k \in DOMAIN roster : roster[k] \in RosterType
<1>1. roster \in Seq(RosterType) /\ mail \in Seq(LetterType)
  BY DEF Ac!TypeOK, RosterType, LetterType
<1>2. day \in 0..MaxDays /\ firedTwice \in SUBSET (1..MaxDays) /\ accountFaults \in 0..AccountFaults
  BY DEF Ac!TypeOK
<1>3. \A k \in DOMAIN mail : mail[k] \in LetterType
  BY <1>1, SeqAt
<1>4. \A k \in DOMAIN mail : mail[k].day \in 1..MaxDays
  BY <1>3 DEF LetterType
<1>5. \A k \in DOMAIN roster : roster[k] \in RosterType
  BY <1>1, SeqAt
<1> QED BY <1>1, <1>2, <1>3, <1>4, <1>5, AccountsConstants

LEMMA MorningInv ==
  ASSUME CloudFit, AccountsInv, Ac!Morning \/ Ac!MorningAgain
  PROVE  AccountsInv'
<1>0. Ac!TypeOK /\ AccountFaults \in Nat /\ MaxDays \in Nat
  BY AccountsConstants DEF AccountsInv
<1>a. day \in 0..MaxDays /\ firedTwice \in SUBSET (1..MaxDays) /\ \A k \in DOMAIN mail : mail[k].day \in 1..MaxDays
  BY <1>0, AccountsParts
<1>1. /\ UNCHANGED <<links, tokens, meant, unsure, mail>> /\ Ac!Gather
      /\ accountFaults' \in 0..AccountFaults
      /\ \/ day' = day + 1 /\ day < MaxDays /\ firedTwice' = firedTwice
         \/ day' = day /\ day > 0 /\ firedTwice' = firedTwice \cup {day}
  BY <1>0 DEF Ac!Morning, Ac!MorningAgain, Ac!Fault, Ac!TypeOK
<1>2. day' \in 1..MaxDays /\ firedTwice' \in SUBSET (1..MaxDays) /\ firedTwice \subseteq firedTwice' /\ day <= day'
      /\ (day' = day => day' \in firedTwice')
  <2>1. CASE day' = day + 1 /\ day < MaxDays /\ firedTwice' = firedTwice
    BY <1>0, <1>a, <2>1
  <2>2. CASE day' = day /\ day > 0 /\ firedTwice' = firedTwice \cup {day}
    <3>1. day \in 1..MaxDays /\ day <= day
      BY <1>0, <1>a, <2>2
    <3> QED BY <1>a, <2>2, <3>1
  <2> QED BY <1>1, <2>1, <2>2
<1>3. Ac!TypeOK'
  BY <1>0, <1>1, <1>2, GatherFacts DEF Ac!TypeOK, RosterType
<1>4. TokensInv'
  BY <1>1 DEF AccountsInv, TokensInv
<1>5. RosterInv'
  BY <1>1, <1>2, GatherFacts DEF RosterInv
<1>6. MailInv'
  <2>1. \A k \in DOMAIN mail : mail[k].day <= day /\ mail[k].day \in Int
    <3>1. \A k \in DOMAIN mail : mail[k].day \in 1..MaxDays
      BY <1>a
    <3> QED BY <1>0, <3>1 DEF AccountsInv, MailInv
  <2>2. \A k \in DOMAIN mail : mail[k].day <= day' /\ (mail[k].day = day' => day' \in firedTwice')
    BY <1>0, <1>1, <1>2, <2>1 DEF Ac!TypeOK
  <2> QED BY <1>1, <1>2, <2>2 DEF AccountsInv, MailInv
<1> QED BY <1>3, <1>4, <1>5, <1>6 DEF AccountsInv

LEMMA WriteBackInv ==
  ASSUME CloudFit, AccountsInv, Ac!WriteBack
  PROVE  AccountsInv'
<1> DEFINE r == Head(roster)  s == Ac!First(r.left)  n == r.name
<1>0. /\ Ac!TypeOK /\ AccountFaults \in Nat /\ roster # <<>> /\ roster \in Seq(RosterType)
      /\ r = roster[1] /\ 1 \in DOMAIN roster /\ r \in RosterType
  <2>1. Ac!TypeOK /\ AccountFaults \in Nat /\ roster # <<>>
    BY AccountsConstants DEF AccountsInv, Ac!WriteBack
  <2>2. roster \in Seq(RosterType) /\ \A k \in DOMAIN roster : roster[k] \in RosterType
    BY <2>1, AccountsParts
  <2>3. 1 \in DOMAIN roster /\ Head(roster) = roster[1]
    BY <2>1, <2>2
  <2> QED BY <2>1, <2>2, <2>3
<1>1. s \in r.left /\ s \in Ac!Services /\ n \in Ac!Names /\ r.grants \in Ac!Grants /\ r.grants[s] \in {Ac!None} \cup Ac!Links
  <2>1. r.left # {} /\ r.left \subseteq Ac!Services /\ n \in Ac!Names /\ r.grants \in Ac!Grants
    BY <1>0 DEF Ac!WriteBack, RosterType
  <2>2. s \in r.left
    BY <2>1 DEF Ac!First, Ac!Services
  <2> QED BY <2>1, <2>2 DEF Ac!Grants
<1>2. /\ UNCHANGED <<links, meant, unsure, day, firedTwice, mail>>
      /\ roster' = [roster EXCEPT ![1].left = @ \ {s}]
      /\ tokens' = [tokens EXCEPT ![n][s] = r.grants[s]] \/ tokens' = tokens
      /\ accountFaults' \in 0..AccountFaults
  <2>1. /\ UNCHANGED <<links, meant, unsure, day, firedTwice, mail>>
        /\ tokens' = [tokens EXCEPT ![n][s] = r.grants[s]] \/ tokens' = tokens
        /\ accountFaults' = accountFaults \/ Ac!Fault
    BY DEF Ac!WriteBack
  <2>2. roster' = [roster EXCEPT ![1].left = @ \ {s}]
    BY <1>0 DEF Ac!WriteBack
  <2> QED BY <1>0, <2>1, <2>2 DEF Ac!Fault, Ac!TypeOK
<1>3. /\ roster' \in Seq(RosterType) /\ DOMAIN roster' = DOMAIN roster
      /\ \A k \in DOMAIN roster : /\ roster'[k].name = roster[k].name
                                  /\ roster'[k].grants = roster[k].grants
                                  /\ roster'[k].left \subseteq roster[k].left
  <2>1. PICK e \in RosterType : /\ roster' = [roster EXCEPT ![1] = e]
                                /\ e.name = r.name /\ e.grants = r.grants /\ e.left \subseteq r.left
    <3> DEFINE e == [r EXCEPT !.left = @ \ {s}]
    <3>1. roster' = [roster EXCEPT ![1] = e]
      BY <1>0, <1>2
    <3>2. e \in RosterType /\ e.name = r.name /\ e.grants = r.grants /\ e.left \subseteq r.left
      <4> HIDE DEF s
      <4>1. r \in RosterType
        BY <1>0
      <4> HIDE DEF r
      <4> QED BY <4>1 DEF RosterType
    <3> QED BY <3>1, <3>2
  <2> QED BY <1>0, <2>1
<1> HIDE DEF r, s, n
<1>4. tokens' \in [Ac!Names -> Ac!Grants]
  <2>1. [tokens EXCEPT ![n][s] = r.grants[s]] \in [Ac!Names -> Ac!Grants]
    BY <1>0, <1>1 DEF Ac!TypeOK, Ac!Grants
  <2> QED BY <1>0, <1>2, <2>1 DEF Ac!TypeOK
<1>5. Ac!TypeOK'
  BY <1>0, <1>2, <1>3, <1>4 DEF Ac!TypeOK, RosterType
<1>6. ASSUME NEW x \in Ac!Users, NEW y \in Ac!Services, <<x, y>> # <<n, s>>
      PROVE  tokens'[x][y] = tokens[x][y]
  <2>1. tokens[x] \in Ac!Grants /\ x \in Ac!Names
    BY <1>0 DEF Ac!TypeOK, Ac!Names
  <2> QED BY <1>0, <1>1, <1>2, <1>6, <2>1 DEF Ac!TypeOK, Ac!Grants
<1>7. ASSUME n \in Ac!Users
      PROVE  /\ Owned(links, tokens'[n][s], n)
             /\ <<n, s>> \in unsure \/ tokens'[n][s] = tokens[n][s]
  <2>1. tokens'[n][s] = r.grants[s] \/ tokens'[n][s] = tokens[n][s]
    BY <1>0, <1>1, <1>2 DEF Ac!TypeOK, Ac!Grants
  <2>2. Owned(links, tokens[n][s], n)
    BY <1>1, <1>7 DEF AccountsInv, TokensInv
  <2>3. Owned(links, r.grants[s], n) /\ (<<n, s>> \in unsure \/ r.grants[s] = tokens[n][s])
    BY <1>0, <1>1, <1>7 DEF AccountsInv, RosterInv, n
  <2> QED BY <2>1, <2>2, <2>3
<1>8. TokensInv'
  <2> SUFFICES ASSUME NEW x \in Ac!Users, NEW y \in Ac!Services
               PROVE  /\ Owned(links, tokens'[x][y], x)
                      /\ <<x, y>> \notin unsure => tokens'[x][y] = meant[x][y]
    BY <1>2 DEF TokensInv
  <2>1. Owned(links, tokens[x][y], x) /\ (<<x, y>> \notin unsure => tokens[x][y] = meant[x][y])
    BY DEF AccountsInv, TokensInv
  <2>2. CASE <<x, y>> = <<n, s>>
    BY <1>7, <2>1, <2>2
  <2>3. CASE <<x, y>> # <<n, s>>
    BY <1>6, <2>1, <2>3
  <2> QED BY <2>2, <2>3
<1>9. RosterInv'
  <2>1. ASSUME NEW k \in DOMAIN roster, roster[k].name \in Ac!Users, NEW y \in Ac!Services
        PROVE  /\ Owned(links, roster[k].grants[y], roster[k].name)
               /\ y \in roster'[k].left =>
                    \/ <<roster[k].name, y>> \in unsure
                    \/ roster[k].grants[y] = tokens'[roster[k].name][y]
    <3> DEFINE x == roster[k].name
    <3>0. /\ Owned(links, roster[k].grants[y], x)
          /\ y \in roster[k].left => <<x, y>> \in unsure \/ roster[k].grants[y] = tokens[x][y]
      BY <2>1 DEF AccountsInv, RosterInv
    <3>1. roster'[k].left \subseteq roster[k].left
      BY <1>3
    <3>2. CASE <<x, y>> = <<n, s>>
      BY <1>7, <2>1, <3>0, <3>1, <3>2
    <3>3. CASE <<x, y>> # <<n, s>>
      BY <1>6, <2>1, <3>0, <3>1, <3>3
    <3> QED BY <3>2, <3>3
  <2> QED BY <1>2, <1>3, <2>1 DEF AccountsInv, RosterInv
<1>10. MailInv'
  BY <1>2, <1>3 DEF AccountsInv, MailInv, Ac!Address
<1> QED BY <1>5, <1>8, <1>9, <1>10 DEF AccountsInv

LEMMA SendInv ==
  ASSUME CloudFit, AccountsInv, Ac!SendBriefing
  PROVE  AccountsInv'
<1> DEFINE e == Ac!Letter
<1>0. /\ Ac!TypeOK /\ AccountFaults \in Nat /\ roster # <<>> /\ roster \in Seq(RosterType) /\ 1 \in DOMAIN roster
      /\ Head(roster) = roster[1] /\ mail \in Seq(LetterType)
  <2>1. Ac!TypeOK /\ AccountFaults \in Nat /\ roster # <<>>
    BY AccountsConstants DEF AccountsInv, Ac!SendBriefing
  <2>2. roster \in Seq(RosterType) /\ mail \in Seq(LetterType)
    BY <2>1, AccountsParts
  <2>3. 1 \in DOMAIN roster /\ Head(roster) = roster[1]
    BY <2>1, <2>2
  <2> QED BY <2>1, <2>2, <2>3
<1>1. /\ UNCHANGED <<links, tokens, meant, unsure, day, firedTwice>>
      /\ roster' = Tail(roster)
      /\ mail' = Append(mail, e) \/ mail' = mail
      /\ accountFaults' \in 0..AccountFaults
  <2>1. accountFaults' = accountFaults \/ Ac!Fault
    BY DEF Ac!SendBriefing
  <2> QED BY <1>0, <2>1 DEF Ac!SendBriefing, Ac!Fault, Ac!TypeOK
<1>2. /\ roster' \in Seq(RosterType)
      /\ \A k \in DOMAIN roster' : k + 1 \in DOMAIN roster /\ roster'[k] = roster[k + 1] /\ k \in Int /\ k + 1 # 1
  BY <1>0, <1>1
<1>3. /\ e \in LetterType /\ e.day = day /\ e.to = Ac!Address(roster[1].name) /\ e.grants = roster[1].grants
      /\ e.to # NoBody => roster[1].name \in Ac!Users /\ e.to = roster[1].name
  <2>1. roster[1] \in RosterType /\ roster[1].name \in Bare \cup {Tag} /\ day \in 1..MaxDays
    BY <1>0 DEF AccountsInv, RosterInv
  <2> QED BY <1>0, <2>1 DEF RosterType, LetterType, Ac!Letter, Ac!Address, Ac!Users
<1> HIDE DEF e
<1>4. /\ mail' \in Seq(LetterType)
      /\ \A k \in DOMAIN mail' : \/ k \in DOMAIN mail /\ mail'[k] = mail[k]
                                 \/ k = Len(mail) + 1 /\ mail'[k] = e /\ mail' = Append(mail, e)
  <2>1. CASE mail' = mail
    BY <1>0, <2>1
  <2>2. CASE mail' = Append(mail, e)
    <3>1. mail' \in Seq(LetterType) /\ Len(mail') = Len(mail) + 1
      BY <1>0, <1>3, <2>2
    <3>2. mail'[Len(mail) + 1] = e /\ \A k \in 1..Len(mail) : mail'[k] = mail[k]
      BY <1>0, <2>2
    <3>3. DOMAIN mail' = 1..Len(mail) + 1 /\ DOMAIN mail = 1..Len(mail) /\ Len(mail) \in Nat
      BY <1>0, <3>1
    <3> QED BY <2>2, <3>1, <3>2, <3>3
  <2> QED BY <1>1, <2>1, <2>2
<1>5. Ac!TypeOK'
  BY <1>0, <1>1, <1>2, <1>4 DEF Ac!TypeOK, RosterType, LetterType
<1>6. TokensInv'
  BY <1>1 DEF AccountsInv, TokensInv
<1>7. RosterInv'
  <2>1. \A j, k \in DOMAIN roster' : roster'[j].name = roster'[k].name => j = k
    BY <1>2 DEF AccountsInv, RosterInv
  <2> QED BY <1>1, <1>2, <2>1 DEF AccountsInv, RosterInv
<1>8. ASSUME NEW j \in DOMAIN roster', e.day \notin firedTwice
      PROVE  Ac!Address(roster'[j].name) # e.to
  <2>1. roster'[j].name \in Bare \cup {Tag} /\ roster[1].name \in Bare \cup {Tag} /\ roster'[j].name # roster[1].name
    BY <1>0, <1>2 DEF AccountsInv, RosterInv
  <2> QED BY <1>3, <2>1, AccountsConstants DEF Ac!Address, Ac!Users
<1>9. MailInv'
  <2>1. ASSUME NEW k \in DOMAIN mail'
        PROVE  /\ mail'[k].day <= day
               /\ mail'[k].to # NoBody => \A s \in Ac!Services : Owned(links, mail'[k].grants[s], mail'[k].to)
               /\ mail'[k].day = day /\ day \notin firedTwice =>
                    \A j \in DOMAIN roster' : Ac!Address(roster'[j].name) # mail'[k].to
    <3>1. CASE k \in DOMAIN mail /\ mail'[k] = mail[k]
      BY <1>2, <3>1 DEF AccountsInv, MailInv
    <3>2. CASE mail'[k] = e
      <4>1. day <= day
        BY <1>0 DEF Ac!TypeOK
      <4>2. e.to # NoBody => \A s \in Ac!Services : Owned(links, e.grants[s], e.to)
        BY <1>0, <1>3 DEF AccountsInv, RosterInv
      <4> QED BY <1>3, <1>8, <3>2, <4>1, <4>2
    <3> QED BY <1>4, <3>1, <3>2
  <2>2. ASSUME NEW k \in DOMAIN mail', NEW m \in DOMAIN mail', k # m,
               mail'[k].to = mail'[m].to, mail'[k].day = mail'[m].day
        PROVE  mail'[k].day \in firedTwice
    <3>1. CASE k \in DOMAIN mail /\ mail'[k] = mail[k] /\ m \in DOMAIN mail /\ mail'[m] = mail[m]
      BY <2>2, <3>1 DEF AccountsInv, MailInv
    <3>2. ASSUME NEW i \in DOMAIN mail, mail[i].to = e.to, mail[i].day = e.day PROVE e.day \in firedTwice
      BY <1>0, <1>3, <3>2 DEF AccountsInv, MailInv
    <3> QED BY <1>4, <2>2, <3>1, <3>2
  <2> QED BY <1>1, <2>1, <2>2 DEF MailInv
<1> QED BY <1>5, <1>6, <1>7, <1>9 DEF AccountsInv

LEMMA AccountsStep == ASSUME CloudFit, AccountsInv, [Ac!Next]_(Ac!vars) PROVE AccountsInv'
<1>1. CASE Ac!Next
  BY <1>1, LinksInv, StoreInv, DisconnectInv, MorningInv, WriteBackInv, SendInv DEF Ac!Next
<1>2. CASE UNCHANGED Ac!vars
  <2> USE <1>2 DEF Ac!vars
  <2>1. Ac!TypeOK'
    BY DEF Ac!TypeOK, AccountsInv
  <2>2. TokensInv' /\ RosterInv' /\ MailInv'
    BY DEF AccountsInv, TokensInv, RosterInv, MailInv, Ac!Address
  <2> QED BY <2>1, <2>2 DEF AccountsInv
<1> QED BY <1>1, <1>2

LEMMA AccountsHold == ASSUME CloudFit, AccountsInv PROVE Ac!TokensAsTold /\ Ac!BriefedOnce
<1>1. Ac!TokensAsTold
  BY DEF AccountsInv, TokensInv, Ac!TokensAsTold, Owned
<1>2. Ac!BriefedOnce
  BY DEF AccountsInv, MailInv, Ac!BriefedOnce, Owned
<1> QED BY <1>1, <1>2

(***************************************************************************)
(* Documents and the index, for any number of files, links, orders and     *)
(* faults.  What a file owes the index is Due: the chunks whose push was   *)
(* seen to return; each is in the index, in the gateway's queue, or the    *)
(* file has lost it.  The queue keeps its order, so what was handed over   *)
(* before a question is in front of it.                                    *)
(***************************************************************************)

(***************************************************************************)
(* Sequences and single elements.                                          *)
(***************************************************************************)
\* Appending adds an element, taking the head leaves the others.
LEMMA MembersAppend ==
  ASSUME NEW T, NEW q \in Seq(T), NEW e \in T
  PROVE  Append(q, e) \in Seq(T) /\ Do!ToSet(Append(q, e)) = Do!ToSet(q) \cup {e}
<1>1. Append(q, e) \in Seq(T) /\ Len(Append(q, e)) = Len(q) + 1 /\ Len(q) \in Nat
  OBVIOUS
<1>2. \A i \in 1..Len(q) : Append(q, e)[i] = q[i]
  OBVIOUS
<1>3. Append(q, e)[Len(q) + 1] = e
  OBVIOUS
<1>4. DOMAIN Append(q, e) = 1..Len(q) + 1 /\ DOMAIN q = 1..Len(q)
  BY <1>1
<1> DEFINE p == Append(q, e)
<1> HIDE DEF p
<1>5. Do!ToSet(p) = Do!ToSet(q) \cup {e}
  <2>1. ASSUME NEW x \in Do!ToSet(p) PROVE x \in Do!ToSet(q) \cup {e}
    <3>1. PICK i \in DOMAIN p : p[i] = x
      BY DEF Do!ToSet
    <3>2. CASE i \in 1..Len(q)
      BY <1>2, <1>4, <3>1, <3>2 DEF Do!ToSet, p
    <3>3. CASE i = Len(q) + 1
      BY <1>3, <3>1, <3>3 DEF p
    <3> QED BY <1>1, <1>4, <3>1, <3>2, <3>3 DEF p
  <2>2. ASSUME NEW x \in Do!ToSet(q) PROVE x \in Do!ToSet(p)
    <3>1. PICK i \in DOMAIN q : q[i] = x
      BY DEF Do!ToSet
    <3>2. i \in DOMAIN p /\ p[i] = x
      BY <1>1, <1>2, <1>4, <3>1 DEF p
    <3> QED BY <3>2 DEF Do!ToSet
  <2>3. e \in Do!ToSet(p)
    <3>1. Len(q) + 1 \in DOMAIN p /\ p[Len(q) + 1] = e
      BY <1>1, <1>3, <1>4 DEF p
    <3> QED BY <3>1 DEF Do!ToSet
  <2> QED BY <2>1, <2>2, <2>3
<1> QED BY <1>1, <1>5 DEF p

LEMMA MembersTail ==
  ASSUME NEW T, NEW q \in Seq(T), q # <<>>
  PROVE  /\ Head(q) \in T /\ Tail(q) \in Seq(T)
         /\ Head(q) \in Do!ToSet(q) /\ Do!ToSet(Tail(q)) \subseteq Do!ToSet(q)
         /\ \A e \in Do!ToSet(q) : e = Head(q) \/ e \in Do!ToSet(Tail(q))
<1>1. Head(q) \in T /\ Tail(q) \in Seq(T) /\ Len(q) \in Nat /\ Len(q) > 0 /\ Len(Tail(q)) = Len(q) - 1
  OBVIOUS
<1>2. \A i \in 1..Len(q) - 1 : Tail(q)[i] = q[i + 1]
  OBVIOUS
<1>3. DOMAIN q = 1..Len(q) /\ DOMAIN Tail(q) = 1..Len(q) - 1 /\ Head(q) = q[1] /\ 1 \in DOMAIN q
  BY <1>1
<1> DEFINE t == Tail(q)
<1> HIDE DEF t
<1>4. Head(q) \in Do!ToSet(q)
  BY <1>3 DEF Do!ToSet
<1>5. ASSUME NEW e \in Do!ToSet(t) PROVE e \in Do!ToSet(q)
  <2>1. PICK i \in DOMAIN t : t[i] = e
    BY DEF Do!ToSet
  <2>2. i + 1 \in DOMAIN q /\ q[i + 1] = e
    BY <1>1, <1>2, <1>3, <2>1 DEF t
  <2> QED BY <2>2 DEF Do!ToSet
<1>6. ASSUME NEW e \in Do!ToSet(q) PROVE e = Head(q) \/ e \in Do!ToSet(t)
  <2>1. PICK i \in DOMAIN q : q[i] = e
    BY DEF Do!ToSet
  <2>2. CASE i = 1
    BY <1>3, <2>1, <2>2
  <2>3. CASE i # 1
    <3>1. i - 1 \in DOMAIN t /\ t[i - 1] = e
      BY <1>1, <1>2, <1>3, <2>1, <2>3 DEF t
    <3> QED BY <3>1 DEF Do!ToSet
  <2> QED BY <2>2, <2>3
<1> QED BY <1>1, <1>4, <1>5, <1>6 DEF t

LEMMA MembersOf ==
  ASSUME NEW T, NEW q \in Seq(T)
  PROVE  Do!ToSet(q) \subseteq T
  BY DEF Do!ToSet

\* No element, or one.
AtMostOne(S, T) == S = {} \/ \E e \in T : S = {e}

LEMMA FewDocs ==
  ASSUME NEW S, NEW T, AtMostOne(S, T)
  PROVE  S \in SUBSET T /\ Do!Cardinality(S) <= 1
<1>1. Do!Cardinality(S) = Cardinality(S)
  BY DEF Do!Cardinality, Cardinality
<1>2. Cardinality(S) <= 1
  <2>1. CASE S = {}
    BY <2>1, FS_EmptySet
  <2>2. ASSUME NEW e \in T, S = {e} PROVE Cardinality(S) <= 1
    <3>1. Cardinality({e}) = 1
      BY FS_Singleton
    <3> QED BY <2>2, <3>1
  <2> QED BY <2>1, <2>2 DEF AtMostOne
<1> QED BY <1>1, <1>2 DEF AtMostOne

(***************************************************************************)
(* Documents: the types.                                                   *)
(***************************************************************************)
IndexJobs == [task : Do!Jobs, pushed : 0..Chunks + 1]
Readings == [link : Urls, alone : BOOLEAN, pushed : 0..Chunks + 1]

StoreTypes ==
  /\ plan \in FilePlans /\ uploaded \in SUBSET Do!Files /\ staged \in SUBSET Do!Files
  /\ documents \in SUBSET Do!Objects /\ seen \in SUBSET Do!Files

FaultTypes == plan \in FilePlans /\ fileFaults \in 0..plan.faults

IndexerTypes ==
  /\ pending \in Seq(Do!Files) /\ indexing \in Seq(Do!Jobs)
  /\ AtMostOne(indexJob, IndexJobs)
  /\ flag \in BOOLEAN /\ stuck \in BOOLEAN

SearchTypes ==
  /\ gateway \in Seq(Do!Requests) /\ index \in [Do!Names -> [1..Chunks -> Nat]]
  /\ erased \in SUBSET Do!Own /\ chunksGone \in SUBSET Do!Names

CommandTypes ==
  /\ reading \in SUBSET Readings /\ pasted \in 0..plan.pastes
  /\ AtMostOne(order, Do!Orders) /\ ordered \in 0..MaxOrders
  /\ listed \in SUBSET (Do!Objects \cup Urls)

ChatTypes ==
  /\ asking \in {"no", "waiting", "nothing"} /\ noDocs \in BOOLEAN
  /\ noticesTold \in [Do!Files -> SUBSET {"done", "sorry"}]
  /\ cleared \in SUBSET Do!Own /\ known \in SUBSET Do!Own /\ raced \in SUBSET Do!Own
  /\ attempted \in SUBSET Do!Files

DocTypes == StoreTypes /\ FaultTypes /\ IndexerTypes /\ SearchTypes /\ CommandTypes /\ ChatTypes

LEMMA DocTypesOK == ASSUME DocTypes PROVE Do!TypeOK
<1>1. indexJob \in SUBSET IndexJobs /\ Do!Cardinality(indexJob) <= 1
  BY FewDocs DEF DocTypes, IndexerTypes
<1>2. order \in SUBSET Do!Orders /\ Do!Cardinality(order) <= 1
  BY FewDocs DEF DocTypes, CommandTypes
<1> HIDE DEF Do!Orders
<1> QED BY <1>1, <1>2
        DEF DocTypes, StoreTypes, FaultTypes, IndexerTypes, SearchTypes, CommandTypes, ChatTypes, IndexJobs, Readings, Do!TypeOK

LEMMA DocConstants ==
  ASSUME CloudFit
  PROVE  /\ Personal \cap Corporate = {} /\ Misfiled \subseteq Corporate
         /\ Urls \cap Do!Files = {} /\ Drafts \cap Do!Names = {}
         /\ Chunks \in Nat \ {0} /\ MaxOrders \in Nat
         /\ \A p \in FilePlans : p.pastes \in Nat /\ p.orders \in 0..MaxOrders /\ p.faults \in Nat
  BY DEF CloudFit, Do!ConstantAssumption

\* What a request says, by its kind.
LEMMA RequestKinds ==
  ASSUME NEW r \in Do!Requests
  PROVE  /\ r.kind = "chunk" => /\ r.file \in Do!Names /\ r.n \in 1..Chunks
                                /\ r = [kind |-> "chunk", file |-> r.file, n |-> r.n]
         /\ r.kind = "unlink" => r.name \in Urls
         /\ r.kind = "delete" => r.name \in Do!Objects
         /\ r.kind = "draft" => r.name \in Drafts
<1>1. CASE r \in [kind : {"chunk"}, file : Do!Names, n : 1..Chunks]
  BY <1>1
<1>2. CASE r \in [kind : {"search", "forget"}]
  BY <1>2
<1>3. CASE r \in Do!Orders
  <2>1. PICK n : r \in Do!OrdersAt(n)
    BY <1>3 DEF Do!Orders
  <2> QED BY <2>1 DEF Do!OrdersAt, Do!ForgetUrl, Do!DeleteDocument, Do!Draft, Do!ListDocuments, Do!Ingested
<1> QED BY <1>1, <1>2, <1>3 DEF Do!Requests

LEMMA RequestsAre ==
  /\ \A f \in Do!Names, n \in 1..Chunks : [kind |-> "chunk", file |-> f, n |-> n] \in Do!Requests
  /\ [kind |-> "search"] \in Do!Requests /\ [kind |-> "forget"] \in Do!Requests
  /\ \A n \in 0..MaxOrders : Do!OrdersAt(n) \subseteq Do!Orders /\ Do!OrdersAt(n) \subseteq Do!Requests
  /\ \A n : \A o \in Do!OrdersAt(n) : o.kind \notin {"chunk", "search", "forget"}
<1>1. \A f \in Do!Names, n \in 1..Chunks : [kind |-> "chunk", file |-> f, n |-> n] \in Do!Requests
  BY DEF Do!Requests
<1>2. [kind |-> "search"] \in Do!Requests /\ [kind |-> "forget"] \in Do!Requests
  BY DEF Do!Requests
<1>3. \A n \in 0..MaxOrders : Do!OrdersAt(n) \subseteq Do!Orders
  BY Zenon DEF Do!Orders
<1>4. Do!Orders \subseteq Do!Requests
  BY Zenon DEF Do!Requests
<1>5. \A n : \A o \in Do!OrdersAt(n) : o.kind \notin {"chunk", "search", "forget"}
  BY DEF Do!OrdersAt, Do!ForgetUrl, Do!DeleteDocument, Do!Draft, Do!ListDocuments, Do!Ingested
<1> QED BY <1>1, <1>2, <1>3, <1>4, <1>5

LEMMA DocInitTypes == ASSUME CloudFit, Do!Init PROVE DocTypes
<1> USE DocConstants DEF Do!Init
<1>1. StoreTypes /\ FaultTypes
  BY DEF StoreTypes, FaultTypes
<1>2. IndexerTypes
  <2>1. pending \in Seq(Do!Files) /\ indexing \in Seq(Do!Jobs)
    OBVIOUS
  <2>2. AtMostOne(indexJob, IndexJobs)
    BY DEF AtMostOne
  <2>3. flag \in BOOLEAN /\ stuck \in BOOLEAN
    OBVIOUS
  <2> QED BY <2>1, <2>2, <2>3 DEF IndexerTypes
<1>3. CommandTypes
  <2>1. plan.pastes \in Nat
    OBVIOUS
  <2> QED BY <2>1 DEF CommandTypes, AtMostOne
<1>4. SearchTypes
  BY DEF SearchTypes
<1>5. ChatTypes
  BY DEF ChatTypes
<1> QED BY <1>1, <1>2, <1>3, <1>4, <1>5 DEF DocTypes

(***************************************************************************)
(* Documents: each step keeps the types.                                   *)
(***************************************************************************)
LEMMA JobsAre ==
  /\ \A f \in Do!Files : Do!Task(f, FALSE) \in Do!Jobs /\ Do!Task(f, FALSE).file = f
  /\ \A f \in Do!Files : Do!Dispatched(f) \in Do!Jobs /\ Do!Dispatched(f).file = f
<1>1. ASSUME NEW f \in Do!Files, NEW b \in BOOLEAN, NEW c \in BOOLEAN
      PROVE  /\ Do!Task(f, b) \in Do!Jobs /\ Do!Task(f, b).file = f
             /\ [Do!Task(f, b) EXCEPT !.found = c] \in Do!Jobs
             /\ [Do!Task(f, b) EXCEPT !.found = c].file = f
  BY DEF Do!Task, Do!Jobs
<1>2. \A f \in Do!Files : (f \in Personal) \in BOOLEAN /\ (f \notin Misfiled) \in BOOLEAN
  OBVIOUS
<1> QED BY <1>1, <1>2 DEF Do!Dispatched

LEMMA JobFurther ==
  ASSUME CloudFit, NEW j \in IndexJobs, j.pushed <= Chunks
  PROVE  /\ [j EXCEPT !.pushed = @ + 1] \in IndexJobs
         /\ [j EXCEPT !.pushed = @ + 1].task = j.task
         /\ [j EXCEPT !.pushed = @ + 1].pushed = j.pushed + 1
<1>1. Chunks \in Nat /\ j.pushed \in 0..Chunks + 1
  BY DocConstants DEF IndexJobs
<1>2. j.pushed + 1 \in 0..Chunks + 1
  BY <1>1
<1> QED BY <1>2 DEF IndexJobs

LEMMA ReadFurther ==
  ASSUME CloudFit, NEW j \in Readings, j.pushed <= Chunks
  PROVE  /\ [j EXCEPT !.pushed = @ + 1] \in Readings
         /\ [j EXCEPT !.pushed = @ + 1].link = j.link
         /\ [j EXCEPT !.pushed = @ + 1].pushed = j.pushed + 1
<1>1. Chunks \in Nat /\ j.pushed \in 0..Chunks + 1
  BY DocConstants DEF Readings
<1>2. j.pushed + 1 \in 0..Chunks + 1
  BY <1>1
<1> QED BY <1>2 DEF Readings

LEMMA CurrentIs ==
  ASSUME IndexerTypes, indexJob # {}
  PROVE  Do!Current \in IndexJobs /\ indexJob = {Do!Current}
<1>1. PICK j \in IndexJobs : indexJob = {j}
  BY DEF IndexerTypes, AtMostOne
<1>2. Do!Current = j
  BY <1>1 DEF Do!Current
<1> QED BY <1>1, <1>2

LEMMA EndTypes ==
  ASSUME IndexerTypes, ChatTypes, indexJob # {}, NEW words \in {"done", "sorry"}, Do!EndSaying(words)
  PROVE  /\ IndexerTypes' /\ attempted' \in SUBSET Do!Files
         /\ noticesTold' \in [Do!Files -> SUBSET {"done", "sorry"}]
<1>1. Do!Current.task.file \in Do!Files
  BY CurrentIs DEF IndexJobs, Do!Jobs
<1>2. IndexerTypes'
  BY DEF IndexerTypes, AtMostOne, Do!EndSaying
<1>3. attempted' \in SUBSET Do!Files
  BY <1>1 DEF ChatTypes, Do!EndSaying
<1>4. noticesTold' \in [Do!Files -> SUBSET {"done", "sorry"}]
  BY DEF ChatTypes, Do!EndSaying
<1> QED BY <1>2, <1>3, <1>4

LEMMA ErasingTypes ==
  ASSUME SearchTypes, NEW found, Do!Erasing(found), gateway' \in Seq(Do!Requests)
  PROVE  SearchTypes'
<1>1. index' \in [Do!Names -> [1..Chunks -> Nat]]
  BY DEF SearchTypes, Do!Erasing
<1>2. Do!Visible \subseteq Do!Names
  BY DEF Do!Visible
<1>3. Do!Settled \subseteq Do!Own
  BY DEF Do!Settled, Do!Own
<1> QED BY <1>1, <1>2, <1>3 DEF SearchTypes, Do!Erasing

LEMMA StoreStay == ASSUME StoreTypes, UNCHANGED <<plan, uploaded, staged, documents, seen>> PROVE StoreTypes'
  BY DEF StoreTypes

LEMMA IndexerStay == ASSUME IndexerTypes, UNCHANGED <<pending, indexing, indexJob, flag, stuck>> PROVE IndexerTypes'
  BY DEF IndexerTypes

LEMMA SearchStay == ASSUME SearchTypes, UNCHANGED <<gateway, index, erased, chunksGone>> PROVE SearchTypes'
  BY DEF SearchTypes

LEMMA CommandStay == ASSUME CommandTypes, UNCHANGED <<plan, reading, pasted, order, ordered, listed>> PROVE CommandTypes'
  BY DEF CommandTypes

LEMMA ChatStay == ASSUME ChatTypes, UNCHANGED <<asking, noDocs, known, raced, noticesTold, cleared, attempted>> PROVE ChatTypes'
  BY DEF ChatTypes

LEMMA FaultStay ==
  ASSUME CloudFit, FaultTypes, plan' = plan, UNCHANGED fileFaults \/ Do!Fault
  PROVE  FaultTypes'
<1>1. plan.faults \in Nat
  BY DocConstants DEF FaultTypes
<1> QED BY <1>1 DEF FaultTypes, Do!Fault

LEMMA DocTypesStep == ASSUME CloudFit, DocTypes, Do!Next PROVE DocTypes'
<1> USE DEF DocTypes
<1>1. ASSUME NEW f \in Do!Files, Do!Upload(f) PROVE DocTypes'
  <2>0. /\ UNCHANGED <<gateway, index, erased, chunksGone,
                    reading, pasted, order, ordered, listed,
                    asking, noDocs, known, raced, noticesTold, cleared, attempted>>
        /\ plan' = plan /\ (UNCHANGED fileFaults \/ Do!Fault)
    BY <1>1 DEF Do!Upload, Do!objects, Do!commands, Do!indexer, Do!search, Do!chat, Do!history
  <2>1. StoreTypes'
    BY <1>1 DEF Do!Upload, StoreTypes
  <2>2. IndexerTypes'
    <3>1. pending' \in Seq(Do!Files)
      BY <1>1, MembersAppend DEF Do!Upload, IndexerTypes
    <3>2. UNCHANGED <<indexing, indexJob, flag, stuck>>
      BY <1>1 DEF Do!Upload
    <3> QED BY <3>1, <3>2 DEF IndexerTypes
  <2> QED BY <2>0, <2>1, <2>2, FaultStay, SearchStay, CommandStay, ChatStay
<1>2. ASSUME NEW f \in Do!Files, Do!Scan(f) PROVE DocTypes'
  <2>0. /\ UNCHANGED <<gateway, index, erased, chunksGone,
                    reading, pasted, order, ordered, listed,
                    asking, noDocs, known, raced, noticesTold, cleared, attempted>>
        /\ plan' = plan /\ (UNCHANGED fileFaults \/ Do!Fault)
    BY <1>2 DEF Do!Scan, Do!Queue, Do!objects, Do!commands, Do!indexer, Do!search, Do!chat, Do!history
  <2>1. StoreTypes'
    BY <1>2 DEF Do!Scan, Do!Queue, StoreTypes
  <2>2. IndexerTypes'
    <3>1. indexing' \in Seq(Do!Jobs)
      BY <1>2, JobsAre, MembersAppend DEF Do!Scan, Do!Queue, IndexerTypes
    <3>2. UNCHANGED <<pending, indexJob, flag, stuck>>
      BY <1>2 DEF Do!Scan, Do!Queue
    <3> QED BY <3>1, <3>2 DEF IndexerTypes
  <2> QED BY <2>0, <2>1, <2>2, FaultStay, SearchStay, CommandStay, ChatStay
<1>3. ASSUME NEW f \in Do!Files, Do!SeenExpires(f) PROVE DocTypes'
  <2>0. /\ UNCHANGED <<pending, indexing, indexJob, flag, stuck,
                    gateway, index, erased, chunksGone,
                    reading, pasted, order, ordered, listed,
                    asking, noDocs, known, raced, noticesTold, cleared, attempted>>
        /\ plan' = plan /\ (UNCHANGED fileFaults \/ Do!Fault)
    BY <1>3 DEF Do!SeenExpires, Do!objects, Do!commands, Do!indexer, Do!search, Do!chat, Do!history
  <2>1. StoreTypes'
    BY <1>3 DEF Do!SeenExpires, StoreTypes
  <2> QED BY <2>0, <2>1, FaultStay, IndexerStay, SearchStay, CommandStay, ChatStay
<1>4. ASSUME NEW o \in Do!OrdersAt(ordered), ordered < plan.orders, Do!Order(o) PROVE DocTypes'
  <2>0. /\ UNCHANGED <<uploaded, staged, documents, seen,
                    pending, indexing, indexJob, flag, stuck,
                    asking, noDocs, known, raced, noticesTold, cleared, attempted>>
        /\ plan' = plan /\ (UNCHANGED fileFaults \/ Do!Fault)
    BY <1>4 DEF Do!Order, Do!objects, Do!commands, Do!indexer, Do!search, Do!chat, Do!history
  <2>1. SearchTypes'
    <3>1. ordered \in 0..MaxOrders
      BY DEF CommandTypes
    <3>2. o \in Do!Requests
      BY <3>1, RequestsAre
    <3>3. gateway' \in Seq(Do!Requests)
      BY <1>4, <3>2, MembersAppend DEF Do!Order, SearchTypes
    <3>4. UNCHANGED <<index, erased, chunksGone>>
      BY <1>4 DEF Do!Order
    <3> QED BY <3>3, <3>4 DEF SearchTypes
  <2>2. CommandTypes'
    <3>1. ordered \in 0..MaxOrders /\ plan.orders \in 0..MaxOrders /\ MaxOrders \in Nat
      BY DocConstants DEF CommandTypes, StoreTypes
    <3>2. AtMostOne(order', Do!Orders)
      BY <1>4, <3>1, RequestsAre DEF Do!Order, AtMostOne
    <3>3. ordered' \in 0..MaxOrders
      BY <1>4, <3>1 DEF Do!Order
    <3>4. UNCHANGED <<reading, pasted, listed>>
      BY <1>4 DEF Do!Order
    <3> QED BY <2>0, <3>2, <3>3, <3>4 DEF CommandTypes
  <2> QED BY <2>0, <2>1, <2>2, FaultStay, StoreStay, IndexerStay, ChatStay
<1>5. ASSUME NEW l \in Urls, NEW alone \in BOOLEAN, Do!Paste(l, alone) PROVE DocTypes'
  <2>0. /\ UNCHANGED <<uploaded, staged, documents, seen,
                    asking, noDocs, known, raced, noticesTold, cleared, attempted>>
        /\ plan' = plan /\ (UNCHANGED fileFaults \/ Do!Fault)
    BY <1>5 DEF Do!Paste, Do!objects, Do!commands, Do!indexer, Do!search, Do!chat, Do!history
  <2>1. IndexerTypes'
    BY <1>5 DEF Do!Paste, IndexerTypes
  <2>2. SearchTypes'
    BY <1>5 DEF Do!Paste, SearchTypes
  <2>3. CommandTypes'
    <3>1. plan.pastes \in Nat /\ Chunks \in Nat
      BY DocConstants DEF StoreTypes
    <3>2. reading' \in SUBSET Readings
      BY <1>5, <3>1 DEF Do!Paste, CommandTypes, Readings
    <3>3. pasted' \in 0..plan.pastes
      BY <1>5, <3>1 DEF Do!Paste, CommandTypes
    <3>4. UNCHANGED <<order, ordered, listed>>
      BY <1>5 DEF Do!Paste
    <3> QED BY <2>0, <3>2, <3>3, <3>4 DEF CommandTypes
  <2> QED BY <2>0, <2>1, <2>2, <2>3, FaultStay, StoreStay, ChatStay
<1>6. ASSUME NEW t \in reading, Do!PushPart(t) PROVE DocTypes'
  <2>0. /\ UNCHANGED <<uploaded, staged, documents, seen,
                    pending, indexing, indexJob, flag, stuck,
                    asking, noDocs, known, raced, noticesTold, cleared, attempted>>
        /\ plan' = plan /\ (UNCHANGED fileFaults \/ Do!Fault)
    BY <1>6 DEF Do!PushPart, Do!objects, Do!commands, Do!indexer, Do!search, Do!chat, Do!history
  <2>1. SearchTypes'
    <3>1. t \in Readings /\ t.pushed < Chunks
      BY <1>6 DEF CommandTypes, Do!PushPart
    <3>2. [kind |-> "chunk", file |-> t.link, n |-> t.pushed + 1] \in Do!Requests
      BY <3>1, RequestsAre, DocConstants DEF Readings, Do!Names
    <3>3. gateway' \in Seq(Do!Requests)
      BY <1>6, <3>2, MembersAppend DEF Do!PushPart, SearchTypes
    <3>4. UNCHANGED <<index, erased, chunksGone>>
      BY <1>6 DEF Do!PushPart
    <3> QED BY <3>3, <3>4 DEF SearchTypes
  <2>2. CommandTypes'
    <3>1. t \in Readings /\ t.pushed < Chunks
      BY <1>6 DEF CommandTypes, Do!PushPart
    <3>a. t.pushed <= Chunks
      BY <3>1, DocConstants DEF Readings
    <3>b. [t EXCEPT !.pushed = @ + 1] \in Readings
      BY <3>1, <3>a, ReadFurther
    <3>2. reading' \in SUBSET Readings
      BY <1>6, <3>b DEF Do!PushPart, CommandTypes
    <3>3. UNCHANGED <<pasted, order, ordered, listed>>
      BY <1>6 DEF Do!PushPart
    <3> QED BY <2>0, <3>2, <3>3 DEF CommandTypes
  <2> QED BY <2>0, <2>1, <2>2, FaultStay, StoreStay, IndexerStay, ChatStay
<1>7. ASSUME NEW t \in reading, Do!ClearNoDocs(t) PROVE DocTypes'
  <2>0. /\ UNCHANGED <<uploaded, staged, documents, seen,
                    pending, indexing, indexJob, flag, stuck,
                    gateway, index, erased, chunksGone>>
        /\ plan' = plan /\ (UNCHANGED fileFaults \/ Do!Fault)
    BY <1>7 DEF Do!ClearNoDocs, Do!objects, Do!commands, Do!indexer, Do!search, Do!chat, Do!history
  <2>1. CommandTypes'
    <3>1. t \in Readings /\ t.pushed = Chunks
      BY <1>7 DEF CommandTypes, Do!ClearNoDocs
    <3>b. [t EXCEPT !.pushed = @ + 1] \in Readings
      BY <3>1, ReadFurther, DocConstants
    <3>2. reading' \in SUBSET Readings
      BY <1>7, <3>b DEF Do!ClearNoDocs, CommandTypes
    <3>3. UNCHANGED <<pasted, order, ordered, listed>>
      BY <1>7 DEF Do!ClearNoDocs
    <3> QED BY <2>0, <3>2, <3>3 DEF CommandTypes
  <2>2. ChatTypes'
    <3>1. t.link \in Do!Own
      BY DEF CommandTypes, Readings, Do!Own
    <3> QED BY <1>7, <3>1 DEF Do!ClearNoDocs, ChatTypes
  <2> QED BY <2>0, <2>1, <2>2, FaultStay, StoreStay, IndexerStay, SearchStay
<1>8. ASSUME NEW t \in reading, Do!StopReading(t) PROVE DocTypes'
  <2>0. /\ UNCHANGED <<uploaded, staged, documents, seen,
                    gateway, index, erased, chunksGone,
                    asking, noDocs, known, raced, noticesTold, cleared, attempted>>
        /\ plan' = plan /\ (UNCHANGED fileFaults \/ Do!Fault)
    BY <1>8 DEF Do!StopReading, Do!EndReading, Do!objects, Do!commands, Do!indexer, Do!search, Do!chat, Do!history
  <2>1. IndexerTypes'
    BY <1>8 DEF Do!StopReading, Do!EndReading, IndexerTypes
  <2>2. CommandTypes'
    <3>1. reading' \in SUBSET Readings
      BY <1>8 DEF Do!StopReading, Do!EndReading, CommandTypes
    <3>2. UNCHANGED <<pasted, order, ordered, listed>>
      BY <1>8 DEF Do!StopReading, Do!EndReading
    <3> QED BY <2>0, <3>1, <3>2 DEF CommandTypes
  <2> QED BY <2>0, <2>1, <2>2, FaultStay, StoreStay, SearchStay, ChatStay
<1>9. ASSUME NEW t \in reading, Do!ReadNothing(t) PROVE DocTypes'
  <2>0. /\ UNCHANGED <<uploaded, staged, documents, seen,
                    gateway, index, erased, chunksGone,
                    asking, noDocs, known, raced, noticesTold, cleared, attempted>>
        /\ plan' = plan /\ (UNCHANGED fileFaults \/ Do!Fault)
    BY <1>9 DEF Do!ReadNothing, Do!EndReading, Do!objects, Do!commands, Do!indexer, Do!search, Do!chat, Do!history
  <2>1. IndexerTypes'
    BY <1>9 DEF Do!ReadNothing, Do!EndReading, IndexerTypes
  <2>2. CommandTypes'
    <3>1. reading' \in SUBSET Readings
      BY <1>9 DEF Do!ReadNothing, Do!EndReading, CommandTypes
    <3>2. UNCHANGED <<pasted, order, ordered, listed>>
      BY <1>9 DEF Do!ReadNothing, Do!EndReading
    <3> QED BY <2>0, <3>1, <3>2 DEF CommandTypes
  <2> QED BY <2>0, <2>1, <2>2, FaultStay, StoreStay, SearchStay, ChatStay
<1>10. ASSUME NEW t \in reading, Do!PushFails(t) PROVE DocTypes'
  <2>0. /\ UNCHANGED <<uploaded, staged, documents, seen,
                    gateway, index, erased, chunksGone,
                    asking, noDocs, known, raced, noticesTold, cleared, attempted>>
        /\ plan' = plan /\ (UNCHANGED fileFaults \/ Do!Fault)
    BY <1>10 DEF Do!PushFails, Do!EndReading, Do!objects, Do!commands, Do!indexer, Do!search, Do!chat, Do!history
  <2>1. IndexerTypes'
    BY <1>10 DEF Do!PushFails, Do!EndReading, IndexerTypes
  <2>2. CommandTypes'
    <3>1. reading' \in SUBSET Readings
      BY <1>10 DEF Do!PushFails, Do!EndReading, CommandTypes
    <3>2. UNCHANGED <<pasted, order, ordered, listed>>
      BY <1>10 DEF Do!PushFails, Do!EndReading
    <3> QED BY <2>0, <3>1, <3>2 DEF CommandTypes
  <2> QED BY <2>0, <2>1, <2>2, FaultStay, StoreStay, SearchStay, ChatStay
<1>11. ASSUME NEW t \in reading, Do!BreakOff(t) PROVE DocTypes'
  <2>0. /\ UNCHANGED <<uploaded, staged, documents, seen,
                    gateway, index, erased, chunksGone,
                    asking, noDocs, known, raced, noticesTold, cleared, attempted>>
        /\ plan' = plan /\ (UNCHANGED fileFaults \/ Do!Fault)
    BY <1>11 DEF Do!BreakOff, Do!objects, Do!commands, Do!indexer, Do!search, Do!chat, Do!history
  <2>1. IndexerTypes'
    BY <1>11 DEF Do!BreakOff, Do!EndReading, IndexerTypes
  <2>2. CommandTypes'
    <3>1. reading' \in SUBSET Readings
      BY <1>11 DEF Do!BreakOff, Do!EndReading, CommandTypes
    <3>2. UNCHANGED <<pasted, order, ordered, listed>>
      BY <1>11 DEF Do!BreakOff, Do!EndReading
    <3> QED BY <2>0, <3>1, <3>2 DEF CommandTypes
  <2> QED BY <2>0, <2>1, <2>2, FaultStay, StoreStay, SearchStay, ChatStay
<1>12. ASSUME Do!Dispatch PROVE DocTypes'
  <2>0. /\ UNCHANGED <<uploaded, staged, documents, seen,
                    gateway, index, erased, chunksGone,
                    reading, pasted, order, ordered, listed,
                    asking, noDocs, known, raced, noticesTold, cleared, attempted>>
        /\ plan' = plan /\ (UNCHANGED fileFaults \/ Do!Fault)
    BY <1>12 DEF Do!Dispatch, Do!objects, Do!commands, Do!indexer, Do!search, Do!chat, Do!history
  <2>1. IndexerTypes'
    <3>1. /\ Head(pending) \in Do!Files /\ Tail(pending) \in Seq(Do!Files)
      BY <1>12, MembersTail DEF Do!Dispatch, IndexerTypes
    <3>2. pending' \in Seq(Do!Files) /\ indexing' \in Seq(Do!Jobs)
      BY <1>12, <3>1, JobsAre, MembersAppend DEF Do!Dispatch, IndexerTypes
    <3>3. flag' \in BOOLEAN /\ stuck' \in BOOLEAN /\ UNCHANGED indexJob
      BY <1>12 DEF Do!Dispatch, IndexerTypes
    <3> QED BY <3>2, <3>3 DEF IndexerTypes
  <2> QED BY <2>0, <2>1, FaultStay, StoreStay, SearchStay, CommandStay, ChatStay
<1>13. ASSUME Do!DispatchFails PROVE DocTypes'
  <2>0. /\ UNCHANGED <<uploaded, staged, documents, seen,
                    gateway, index, erased, chunksGone,
                    reading, pasted, order, ordered, listed>>
        /\ plan' = plan /\ (UNCHANGED fileFaults \/ Do!Fault)
    BY <1>13 DEF Do!DispatchFails, Do!objects, Do!commands, Do!indexer, Do!search, Do!chat, Do!history
  <2>1. IndexerTypes'
    <3>1. /\ Head(pending) \in Do!Files /\ Tail(pending) \in Seq(Do!Files)
      BY <1>13, MembersTail DEF Do!DispatchFails, IndexerTypes
    <3>2. pending' \in Seq(Do!Files) /\ indexing' \in Seq(Do!Jobs)
      <4>1. Append(indexing, Do!Dispatched(Head(pending))) \in Seq(Do!Jobs)
        BY <3>1, JobsAre, MembersAppend DEF IndexerTypes
      <4> QED BY <1>13, <3>1, <4>1 DEF Do!DispatchFails, IndexerTypes
    <3>3. flag' \in BOOLEAN /\ stuck' \in BOOLEAN /\ UNCHANGED indexJob
      BY <1>13 DEF Do!DispatchFails, IndexerTypes
    <3> QED BY <3>2, <3>3 DEF IndexerTypes
  <2>2. ChatTypes'
    <3>1. UNCHANGED <<asking, noDocs, known, raced, cleared, attempted>>
      BY <1>13 DEF Do!DispatchFails, Do!chat
    <3>2. noticesTold' \in [Do!Files -> SUBSET {"done", "sorry"}]
      BY <1>13 DEF Do!DispatchFails, ChatTypes
    <3> QED BY <3>1, <3>2 DEF ChatTypes
  <2> QED BY <2>0, <2>1, <2>2, FaultStay, StoreStay, SearchStay, CommandStay
<1>14. ASSUME Do!DispatchDies PROVE DocTypes'
  <2>0. /\ UNCHANGED <<uploaded, staged, documents, seen,
                    gateway, index, erased, chunksGone,
                    reading, pasted, order, ordered, listed,
                    asking, noDocs, known, raced, noticesTold, cleared, attempted>>
        /\ plan' = plan /\ (UNCHANGED fileFaults \/ Do!Fault)
    BY <1>14 DEF Do!DispatchDies, Do!objects, Do!commands, Do!indexer, Do!search, Do!chat, Do!history
  <2>1. IndexerTypes'
    <3>1. pending' \in Seq(Do!Files)
      BY <1>14, MembersTail DEF Do!DispatchDies, IndexerTypes
    <3>2. flag' \in BOOLEAN /\ stuck' \in BOOLEAN /\ UNCHANGED <<indexing, indexJob>>
      BY <1>14 DEF Do!DispatchDies, IndexerTypes
    <3> QED BY <3>1, <3>2 DEF IndexerTypes
  <2> QED BY <2>0, <2>1, FaultStay, StoreStay, SearchStay, CommandStay, ChatStay
<1>15. ASSUME Do!FlagExpires PROVE DocTypes'
  <2>0. /\ UNCHANGED <<uploaded, staged, documents, seen,
                    gateway, index, erased, chunksGone,
                    reading, pasted, order, ordered, listed,
                    asking, noDocs, known, raced, noticesTold, cleared, attempted>>
        /\ plan' = plan /\ (UNCHANGED fileFaults \/ Do!Fault)
    BY <1>15 DEF Do!FlagExpires, Do!objects, Do!commands, Do!indexer, Do!search, Do!chat, Do!history
  <2>1. IndexerTypes'
    BY <1>15 DEF Do!FlagExpires, IndexerTypes
  <2> QED BY <2>0, <2>1, FaultStay, StoreStay, SearchStay, CommandStay, ChatStay
<1>16. ASSUME Do!Take PROVE DocTypes'
  <2>0. /\ UNCHANGED <<uploaded, staged, documents, seen,
                    gateway, index, erased, chunksGone,
                    reading, pasted, order, ordered, listed,
                    asking, noDocs, known, raced, noticesTold, cleared, attempted>>
        /\ plan' = plan /\ (UNCHANGED fileFaults \/ Do!Fault)
    BY <1>16 DEF Do!Take, Do!objects, Do!commands, Do!indexer, Do!search, Do!chat, Do!history
  <2>1. IndexerTypes'
    <3>1. Head(indexing) \in Do!Jobs /\ indexing' \in Seq(Do!Jobs)
      BY <1>16, MembersTail DEF Do!Take, IndexerTypes
    <3>2. AtMostOne(indexJob', IndexJobs)
      BY <1>16, <3>1, DocConstants DEF Do!Take, AtMostOne, IndexJobs
    <3>3. UNCHANGED <<pending, flag, stuck>>
      BY <1>16 DEF Do!Take
    <3> QED BY <3>1, <3>2, <3>3 DEF IndexerTypes
  <2> QED BY <2>0, <2>1, FaultStay, StoreStay, SearchStay, CommandStay, ChatStay
<1>17. ASSUME Do!CannotIndex PROVE DocTypes'
  <2>0. /\ UNCHANGED <<uploaded, staged, documents, seen,
                    gateway, index, erased, chunksGone,
                    reading, pasted, order, ordered, listed>>
        /\ plan' = plan /\ (UNCHANGED fileFaults \/ Do!Fault)
    BY <1>17 DEF Do!CannotIndex, Do!EndSaying, Do!objects, Do!commands, Do!indexer, Do!search, Do!chat, Do!history
  <2>1. IndexerTypes'
    BY <1>17, EndTypes DEF Do!CannotIndex
  <2>2. ChatTypes'
    BY <1>17, EndTypes DEF Do!CannotIndex, ChatTypes, Do!chat
  <2> QED BY <2>0, <2>1, <2>2, FaultStay, StoreStay, SearchStay, CommandStay
<1>18. ASSUME Do!PushChunk PROVE DocTypes'
  <2>0. /\ UNCHANGED <<uploaded, staged, documents, seen,
                    reading, pasted, order, ordered, listed,
                    asking, noDocs, known, raced, noticesTold, cleared, attempted>>
        /\ plan' = plan /\ (UNCHANGED fileFaults \/ Do!Fault)
    BY <1>18 DEF Do!PushChunk, Do!objects, Do!commands, Do!indexer, Do!search, Do!chat, Do!history
  <2>1. IndexerTypes'
    <3>1. Do!Current \in IndexJobs /\ Do!Current.pushed < Chunks
      BY <1>18, CurrentIs DEF Do!PushChunk
    <3>a. Do!Current.pushed <= Chunks
      BY <3>1, DocConstants DEF IndexJobs
    <3>b. [Do!Current EXCEPT !.pushed = @ + 1] \in IndexJobs
      BY <3>1, <3>a, JobFurther
    <3>2. AtMostOne(indexJob', IndexJobs)
      BY <1>18, <3>b DEF Do!PushChunk, AtMostOne
    <3>3. UNCHANGED <<pending, indexing, flag, stuck>>
      BY <1>18 DEF Do!PushChunk
    <3> QED BY <3>2, <3>3 DEF IndexerTypes
  <2>2. SearchTypes'
    <3>1. Do!Current \in IndexJobs /\ Do!Current.pushed < Chunks
      BY <1>18, CurrentIs DEF Do!PushChunk
    <3>2. [kind |-> "chunk", file |-> Do!Current.task.file, n |-> Do!Current.pushed + 1] \in Do!Requests
      BY <3>1, RequestsAre, DocConstants DEF IndexJobs, Do!Jobs, Do!Names
    <3>3. gateway' \in Seq(Do!Requests)
      BY <1>18, <3>2, MembersAppend DEF Do!PushChunk, SearchTypes
    <3>4. UNCHANGED <<index, erased, chunksGone>>
      BY <1>18 DEF Do!PushChunk
    <3> QED BY <3>3, <3>4 DEF SearchTypes
  <2> QED BY <2>0, <2>1, <2>2, FaultStay, StoreStay, CommandStay, ChatStay
<1>19. ASSUME Do!Settle PROVE DocTypes'
  <2>0. /\ UNCHANGED <<gateway, index, erased, chunksGone,
                    reading, pasted, order, ordered, listed>>
        /\ plan' = plan /\ (UNCHANGED fileFaults \/ Do!Fault)
    BY <1>19 DEF Do!Settle, Do!Move, Do!objects, Do!commands, Do!indexer, Do!search, Do!chat, Do!history
  <2>1. StoreTypes'
    <3>1. Do!Current.task.file \in Do!Files
      BY <1>19, CurrentIs DEF Do!Settle, IndexJobs, Do!Jobs
    <3>2. UNCHANGED <<plan, uploaded, seen>> /\ Do!Move(Do!Current.task.file)
      BY <1>19 DEF Do!Settle
    <3> QED BY <3>1, <3>2 DEF Do!Move, StoreTypes, Do!Objects
  <2>2. IndexerTypes'
    <3>1. Do!Current \in IndexJobs /\ Do!Current.pushed = Chunks
      BY <1>19, CurrentIs DEF Do!Settle
    <3>b. [Do!Current EXCEPT !.pushed = @ + 1] \in IndexJobs
      BY <3>1, JobFurther, DocConstants
    <3>2. AtMostOne(indexJob', IndexJobs)
      BY <1>19, <3>b DEF Do!Settle, AtMostOne
    <3>3. UNCHANGED <<pending, indexing, flag, stuck>>
      BY <1>19 DEF Do!Settle
    <3> QED BY <3>2, <3>3 DEF IndexerTypes
  <2>3. ChatTypes'
    BY <1>19 DEF Do!Settle, ChatTypes, Do!Own
  <2> QED BY <2>0, <2>1, <2>2, <2>3, FaultStay, SearchStay, CommandStay
<1>20. ASSUME Do!Finish PROVE DocTypes'
  <2>0. /\ UNCHANGED <<uploaded, staged, documents, seen,
                    gateway, index, erased, chunksGone,
                    reading, pasted, order, ordered, listed>>
        /\ plan' = plan /\ (UNCHANGED fileFaults \/ Do!Fault)
    BY <1>20 DEF Do!Finish, Do!EndSaying, Do!objects, Do!commands, Do!indexer, Do!search, Do!chat, Do!history
  <2>1. IndexerTypes'
    BY <1>20, EndTypes DEF Do!Finish
  <2>2. ChatTypes'
    BY <1>20, EndTypes DEF Do!Finish, ChatTypes, Do!chat
  <2> QED BY <2>0, <2>1, <2>2, FaultStay, StoreStay, SearchStay, CommandStay
<1>21. ASSUME Do!TimesOut PROVE DocTypes'
  <2>0. /\ UNCHANGED <<uploaded, staged, documents, seen,
                    gateway, index, erased, chunksGone,
                    reading, pasted, order, ordered, listed>>
        /\ plan' = plan /\ (UNCHANGED fileFaults \/ Do!Fault)
    BY <1>21 DEF Do!TimesOut, Do!EndSaying, Do!objects, Do!commands, Do!indexer, Do!search, Do!chat, Do!history
  <2>1. IndexerTypes'
    BY <1>21, EndTypes DEF Do!TimesOut
  <2>2. ChatTypes'
    BY <1>21, EndTypes DEF Do!TimesOut, ChatTypes, Do!chat
  <2> QED BY <2>0, <2>1, <2>2, FaultStay, StoreStay, SearchStay, CommandStay
<1>22. ASSUME Do!IndexerDies PROVE DocTypes'
  <2>0. /\ UNCHANGED <<uploaded, staged, documents, seen,
                    gateway, index, erased, chunksGone,
                    reading, pasted, order, ordered, listed>>
        /\ plan' = plan /\ (UNCHANGED fileFaults \/ Do!Fault)
    BY <1>22 DEF Do!IndexerDies, Do!objects, Do!commands, Do!indexer, Do!search, Do!chat, Do!history
  <2>1. IndexerTypes'
    BY <1>22 DEF Do!IndexerDies, IndexerTypes, AtMostOne
  <2>2. ChatTypes'
    <3>1. Do!Current.task.file \in Do!Files
      BY <1>22, CurrentIs DEF Do!IndexerDies, IndexJobs, Do!Jobs
    <3> QED BY <1>22, <3>1 DEF Do!IndexerDies, ChatTypes, Do!chat
  <2> QED BY <2>0, <2>1, <2>2, FaultStay, StoreStay, SearchStay, CommandStay
<1>23. ASSUME Do!IndexChunk PROVE DocTypes'
  <2>0. /\ UNCHANGED <<uploaded, staged, documents, seen,
                    pending, indexing, indexJob, flag, stuck,
                    reading, pasted, order, ordered, listed,
                    asking, noDocs, known, raced, noticesTold, cleared, attempted>>
        /\ plan' = plan /\ (UNCHANGED fileFaults \/ Do!Fault)
    BY <1>23 DEF Do!IndexChunk, Do!objects, Do!commands, Do!indexer, Do!search, Do!chat, Do!history
  <2>1. SearchTypes'
    <3>1. gateway' \in Seq(Do!Requests) /\ Do!Request \in Do!Requests
      BY <1>23, MembersTail DEF Do!IndexChunk, SearchTypes, Do!Request
    <3>2. Do!Request.file \in Do!Names /\ Do!Request.n \in 1..Chunks
      BY <1>23, <3>1, RequestKinds DEF Do!IndexChunk
    <3>3. index' \in [Do!Names -> [1..Chunks -> Nat]]
      <4> DEFINE f == Do!Request.file  n == Do!Request.n
      <4>1. index' = [index EXCEPT ![f][n] = @ + 1]
        BY <1>23 DEF Do!IndexChunk
      <4>2. index \in [Do!Names -> [1..Chunks -> Nat]] /\ f \in Do!Names /\ n \in 1..Chunks
        BY <3>2 DEF SearchTypes
      <4> HIDE DEF f, n
      <4>a. index[f] \in [1..Chunks -> Nat]
        BY <4>2
      <4>b. index[f][n] \in Nat
        BY <4>2, <4>a
      <4>3. index[f] \in [1..Chunks -> Nat] /\ index[f][n] + 1 \in Nat
        BY <4>a, <4>b
      <4>4. [index[f] EXCEPT ![n] = index[f][n] + 1] \in [1..Chunks -> Nat]
        BY <4>2, <4>3
      <4> QED BY <4>1, <4>2, <4>4
    <3>4. UNCHANGED <<erased, chunksGone>>
      BY <1>23 DEF Do!IndexChunk
    <3> QED BY <3>1, <3>3, <3>4 DEF SearchTypes
  <2> QED BY <2>0, <2>1, FaultStay, StoreStay, IndexerStay, CommandStay, ChatStay
<1>24. ASSUME Do!RequestFails PROVE DocTypes'
  <2>0. /\ UNCHANGED <<uploaded, staged, documents, seen,
                    pending, indexing, indexJob, flag, stuck,
                    asking, noDocs, known, raced, noticesTold, cleared, attempted>>
        /\ plan' = plan /\ (UNCHANGED fileFaults \/ Do!Fault)
    BY <1>24 DEF Do!RequestFails, Do!objects, Do!commands, Do!indexer, Do!search, Do!chat, Do!history
  <2>1. SearchTypes'
    <3>1. gateway' \in Seq(Do!Requests) /\ Do!Request \in Do!Requests
      BY <1>24, MembersTail DEF Do!RequestFails, SearchTypes, Do!Request
    <3>2. chunksGone' \in SUBSET Do!Names
      BY <1>24, <3>1, RequestKinds DEF Do!RequestFails, SearchTypes
    <3>3. UNCHANGED <<index, erased>>
      BY <1>24 DEF Do!RequestFails
    <3> QED BY <3>1, <3>2, <3>3 DEF SearchTypes
  <2>2. CommandTypes'
    <3>1. order' \in {order, {}} /\ UNCHANGED <<reading, pasted, ordered>> /\ listed' \in SUBSET (Do!Objects \cup Urls)
      BY <1>24 DEF Do!RequestFails, Do!Answering, CommandTypes, AtMostOne
    <3> QED BY <2>0, <3>1 DEF CommandTypes, AtMostOne
  <2> QED BY <2>0, <2>1, <2>2, FaultStay, StoreStay, IndexerStay, ChatStay
<1>25. ASSUME Do!Search PROVE DocTypes'
  <2>0. /\ UNCHANGED <<uploaded, staged, documents, seen,
                    pending, indexing, indexJob, flag, stuck,
                    reading, pasted, order, ordered, listed>>
        /\ plan' = plan /\ (UNCHANGED fileFaults \/ Do!Fault)
    BY <1>25 DEF Do!Search, Do!objects, Do!commands, Do!indexer, Do!search, Do!chat, Do!history
  <2>1. SearchTypes'
    <3>1. gateway' \in Seq(Do!Requests)
      BY <1>25, MembersTail DEF Do!Search, SearchTypes
    <3>2. UNCHANGED <<index, erased, chunksGone>>
      BY <1>25 DEF Do!Search
    <3> QED BY <3>1, <3>2 DEF SearchTypes
  <2>2. ChatTypes'
    BY <1>25 DEF Do!Search, ChatTypes, Do!history
  <2> QED BY <2>0, <2>1, <2>2, FaultStay, StoreStay, IndexerStay, CommandStay
<1>26. ASSUME Do!Erase PROVE DocTypes'
  <2>0. /\ UNCHANGED <<uploaded, staged, documents, seen,
                    pending, indexing, indexJob, flag, stuck,
                    asking, noDocs, known, raced, noticesTold, cleared, attempted>>
        /\ plan' = plan /\ (UNCHANGED fileFaults \/ Do!Fault)
    BY <1>26 DEF Do!Erase, Do!Erasing, Do!objects, Do!commands, Do!indexer, Do!search, Do!chat, Do!history
  <2>1. SearchTypes'
    <3>1. gateway' \in Seq(Do!Requests)
      BY <1>26, MembersTail DEF Do!Erase, SearchTypes
    <3> QED BY <1>26, <3>1, ErasingTypes DEF Do!Erase
  <2>2. CommandTypes'
    BY <1>26, <2>0 DEF Do!Erase, CommandTypes
  <2> QED BY <2>0, <2>1, <2>2, FaultStay, StoreStay, IndexerStay, ChatStay
<1>27. ASSUME Do!EraseLink PROVE DocTypes'
  <2>0. /\ UNCHANGED <<uploaded, staged, documents, seen,
                    pending, indexing, indexJob, flag, stuck,
                    asking, noDocs, known, raced, noticesTold, cleared, attempted>>
        /\ plan' = plan /\ (UNCHANGED fileFaults \/ Do!Fault)
    BY <1>27 DEF Do!EraseLink, Do!Erasing, Do!objects, Do!commands, Do!indexer, Do!search, Do!chat, Do!history
  <2>1. SearchTypes'
    <3>1. gateway' \in Seq(Do!Requests) /\ Do!Request \in Do!Requests
      BY <1>27, MembersTail DEF Do!EraseLink, SearchTypes, Do!Request
    <3> QED BY <1>27, <3>1, ErasingTypes DEF Do!EraseLink
  <2>2. CommandTypes'
    <3>1. order' \in {order, {}} /\ UNCHANGED <<reading, pasted, ordered>> /\ listed' \in SUBSET (Do!Objects \cup Urls)
      BY <1>27 DEF Do!EraseLink, Do!Answering, CommandTypes, AtMostOne
    <3> QED BY <2>0, <3>1 DEF CommandTypes, AtMostOne
  <2> QED BY <2>0, <2>1, <2>2, FaultStay, StoreStay, IndexerStay, ChatStay
<1>28. ASSUME Do!DeleteObject PROVE DocTypes'
  <2>0. /\ UNCHANGED <<pending, indexing, indexJob, flag, stuck,
                    asking, noDocs, known, raced, noticesTold, cleared, attempted>>
        /\ plan' = plan /\ (UNCHANGED fileFaults \/ Do!Fault)
    BY <1>28 DEF Do!DeleteObject, Do!objects, Do!commands, Do!indexer, Do!search, Do!chat, Do!history
  <2>1. StoreTypes'
    BY <1>28 DEF Do!DeleteObject, StoreTypes
  <2>2. SearchTypes'
    <3>1. gateway' \in Seq(Do!Requests)
      BY <1>28, MembersTail DEF Do!DeleteObject, SearchTypes
    <3>2. UNCHANGED <<index, erased, chunksGone>>
      BY <1>28 DEF Do!DeleteObject
    <3> QED BY <3>1, <3>2 DEF SearchTypes
  <2>3. CommandTypes'
    <3>1. order' \in {order, {}} /\ UNCHANGED <<reading, pasted, ordered>> /\ listed' \in SUBSET (Do!Objects \cup Urls)
      BY <1>28 DEF Do!DeleteObject, Do!Answering, CommandTypes, AtMostOne
    <3> QED BY <2>0, <3>1 DEF CommandTypes, AtMostOne
  <2> QED BY <2>0, <2>1, <2>2, <2>3, FaultStay, IndexerStay, ChatStay
<1>29. ASSUME Do!StoreDraft PROVE DocTypes'
  <2>0. /\ UNCHANGED <<pending, indexing, indexJob, flag, stuck,
                    asking, noDocs, known, raced, noticesTold, cleared, attempted>>
        /\ plan' = plan /\ (UNCHANGED fileFaults \/ Do!Fault)
    BY <1>29 DEF Do!StoreDraft, Do!objects, Do!commands, Do!indexer, Do!search, Do!chat, Do!history
  <2>1. StoreTypes'
    <3>1. Do!Request \in Do!Requests
      BY <1>29, MembersTail DEF Do!StoreDraft, SearchTypes, Do!Request
    <3>2. Do!Request.name \in Do!Objects
      BY <1>29, <3>1, RequestKinds DEF Do!StoreDraft, Do!Objects
    <3> QED BY <1>29, <3>2 DEF Do!StoreDraft, Do!WithDraft, StoreTypes
  <2>2. SearchTypes'
    <3>1. gateway' \in Seq(Do!Requests)
      BY <1>29, MembersTail DEF Do!StoreDraft, SearchTypes
    <3>2. UNCHANGED <<index, erased, chunksGone>>
      BY <1>29 DEF Do!StoreDraft
    <3> QED BY <3>1, <3>2 DEF SearchTypes
  <2>3. CommandTypes'
    <3>1. order' \in {order, {}} /\ UNCHANGED <<reading, pasted, ordered>> /\ listed' \in SUBSET (Do!Objects \cup Urls)
      BY <1>29 DEF Do!StoreDraft, Do!Answering, CommandTypes, AtMostOne
    <3> QED BY <2>0, <3>1 DEF CommandTypes, AtMostOne
  <2> QED BY <2>0, <2>1, <2>2, <2>3, FaultStay, IndexerStay, ChatStay
<1>30. ASSUME Do!ShowFiles PROVE DocTypes'
  <2>0. /\ UNCHANGED <<uploaded, staged, documents, seen,
                    pending, indexing, indexJob, flag, stuck,
                    asking, noDocs, known, raced, noticesTold, cleared, attempted>>
        /\ plan' = plan /\ (UNCHANGED fileFaults \/ Do!Fault)
    BY <1>30 DEF Do!ShowFiles, Do!Show, Do!objects, Do!commands, Do!indexer, Do!search, Do!chat, Do!history
  <2>1. SearchTypes'
    <3>1. gateway' \in Seq(Do!Requests)
      BY <1>30, MembersTail DEF Do!ShowFiles, SearchTypes, Do!Show
    <3>2. UNCHANGED <<index, erased, chunksGone>>
      BY <1>30 DEF Do!ShowFiles, Do!Show
    <3> QED BY <3>1, <3>2 DEF SearchTypes
  <2>2. CommandTypes'
    <3>1. documents \in SUBSET (Do!Objects \cup Urls)
      BY DEF StoreTypes
    <3>2. listed' \in {listed, documents} /\ order' \in {order, {}} /\ UNCHANGED <<reading, pasted, ordered>>
      BY <1>30 DEF Do!ShowFiles, Do!Show, Do!Answering, CommandTypes, AtMostOne
    <3> QED BY <2>0, <3>1, <3>2 DEF CommandTypes, AtMostOne
  <2> QED BY <2>0, <2>1, <2>2, FaultStay, StoreStay, IndexerStay, ChatStay
<1>31. ASSUME Do!ShowLinks PROVE DocTypes'
  <2>0. /\ UNCHANGED <<uploaded, staged, documents, seen,
                    pending, indexing, indexJob, flag, stuck,
                    asking, noDocs, known, raced, noticesTold, cleared, attempted>>
        /\ plan' = plan /\ (UNCHANGED fileFaults \/ Do!Fault)
    BY <1>31 DEF Do!ShowLinks, Do!Show, Do!objects, Do!commands, Do!indexer, Do!search, Do!chat, Do!history
  <2>1. SearchTypes'
    <3>1. gateway' \in Seq(Do!Requests)
      BY <1>31, MembersTail DEF Do!ShowLinks, SearchTypes, Do!Show
    <3>2. UNCHANGED <<index, erased, chunksGone>>
      BY <1>31 DEF Do!ShowLinks, Do!Show
    <3> QED BY <3>1, <3>2 DEF SearchTypes
  <2>2. CommandTypes'
    <3>1. Do!Listed \in SUBSET (Do!Objects \cup Urls)
      BY DEF Do!Listed
    <3>2. listed' \in {listed, Do!Listed} /\ order' \in {order, {}} /\ UNCHANGED <<reading, pasted, ordered>>
      BY <1>31 DEF Do!ShowLinks, Do!Show, Do!Answering, CommandTypes, AtMostOne
    <3> QED BY <2>0, <3>1, <3>2 DEF CommandTypes, AtMostOne
  <2> QED BY <2>0, <2>1, <2>2, FaultStay, StoreStay, IndexerStay, ChatStay
<1>32. ASSUME Do!Ask PROVE DocTypes'
  <2>0. /\ UNCHANGED <<uploaded, staged, documents, seen,
                    pending, indexing, indexJob, flag, stuck,
                    reading, pasted, order, ordered, listed>>
        /\ plan' = plan /\ (UNCHANGED fileFaults \/ Do!Fault)
    BY <1>32 DEF Do!Ask, Do!Send, Do!objects, Do!commands, Do!indexer, Do!search, Do!chat, Do!history
  <2>1. SearchTypes'
    <3>1. gateway' \in Seq(Do!Requests)
      BY <1>32, RequestsAre, MembersAppend DEF Do!Ask, Do!Send, SearchTypes
    <3>2. UNCHANGED <<index, erased, chunksGone>>
      BY <1>32 DEF Do!Ask
    <3> QED BY <3>1, <3>2 DEF SearchTypes
  <2>2. ChatTypes'
    BY <1>32 DEF Do!Ask, ChatTypes, Do!history
  <2> QED BY <2>0, <2>1, <2>2, FaultStay, StoreStay, IndexerStay, CommandStay
<1>33. ASSUME Do!SearchTimesOut PROVE DocTypes'
  <2>0. /\ UNCHANGED <<uploaded, staged, documents, seen,
                    pending, indexing, indexJob, flag, stuck,
                    gateway, index, erased, chunksGone,
                    reading, pasted, order, ordered, listed>>
        /\ plan' = plan /\ (UNCHANGED fileFaults \/ Do!Fault)
    BY <1>33 DEF Do!SearchTimesOut, Do!objects, Do!commands, Do!indexer, Do!search, Do!chat, Do!history
  <2>1. ChatTypes'
    BY <1>33 DEF Do!SearchTimesOut, ChatTypes, Do!history
  <2> QED BY <2>0, <2>1, FaultStay, StoreStay, IndexerStay, SearchStay, CommandStay
<1>34. ASSUME Do!SetNoDocs PROVE DocTypes'
  <2>0. /\ UNCHANGED <<uploaded, staged, documents, seen,
                    pending, indexing, indexJob, flag, stuck,
                    gateway, index, erased, chunksGone,
                    reading, pasted, order, ordered, listed>>
        /\ plan' = plan /\ (UNCHANGED fileFaults \/ Do!Fault)
    BY <1>34 DEF Do!SetNoDocs, Do!objects, Do!commands, Do!indexer, Do!search, Do!chat, Do!history
  <2>1. ChatTypes'
    BY <1>34 DEF Do!SetNoDocs, ChatTypes, Do!history
  <2> QED BY <2>0, <2>1, FaultStay, StoreStay, IndexerStay, SearchStay, CommandStay
<1>35. ASSUME Do!NoDocsExpires PROVE DocTypes'
  <2>0. /\ UNCHANGED <<uploaded, staged, documents, seen,
                    pending, indexing, indexJob, flag, stuck,
                    gateway, index, erased, chunksGone,
                    reading, pasted, order, ordered, listed>>
        /\ plan' = plan /\ (UNCHANGED fileFaults \/ Do!Fault)
    BY <1>35 DEF Do!NoDocsExpires, Do!objects, Do!commands, Do!indexer, Do!search, Do!chat, Do!history
  <2>1. ChatTypes'
    BY <1>35 DEF Do!NoDocsExpires, ChatTypes, Do!history
  <2> QED BY <2>0, <2>1, FaultStay, StoreStay, IndexerStay, SearchStay, CommandStay
<1>36. ASSUME Do!Forget PROVE DocTypes'
  <2>0. /\ UNCHANGED <<uploaded, staged, documents, seen,
                    pending, indexing, indexJob, flag, stuck,
                    reading, pasted, order, ordered, listed,
                    asking, noDocs, known, raced, noticesTold, cleared, attempted>>
        /\ plan' = plan /\ (UNCHANGED fileFaults \/ Do!Fault)
    BY <1>36 DEF Do!Forget, Do!Send, Do!objects, Do!commands, Do!indexer, Do!search, Do!chat, Do!history
  <2>1. SearchTypes'
    <3>1. gateway' \in Seq(Do!Requests)
      BY <1>36, RequestsAre, MembersAppend DEF Do!Forget, Do!Send, SearchTypes
    <3>2. UNCHANGED <<index, erased, chunksGone>>
      BY <1>36 DEF Do!Forget
    <3> QED BY <3>1, <3>2 DEF SearchTypes
  <2> QED BY <2>0, <2>1, FaultStay, StoreStay, IndexerStay, CommandStay, ChatStay
<1>37. ASSUME Do!OrderTimesOut PROVE DocTypes'
  <2>0. /\ UNCHANGED <<uploaded, staged, documents, seen,
                    pending, indexing, indexJob, flag, stuck,
                    gateway, index, erased, chunksGone,
                    asking, noDocs, known, raced, noticesTold, cleared, attempted>>
        /\ plan' = plan /\ (UNCHANGED fileFaults \/ Do!Fault)
    BY <1>37 DEF Do!OrderTimesOut, Do!objects, Do!commands, Do!indexer, Do!search, Do!chat, Do!history
  <2>1. CommandTypes'
    BY <1>37, <2>0 DEF Do!OrderTimesOut, CommandTypes, AtMostOne
  <2> QED BY <2>0, <2>1, FaultStay, StoreStay, IndexerStay, SearchStay, ChatStay
<1> QED BY <1>1, <1>2, <1>3, <1>4, <1>5, <1>6, <1>7, <1>8, <1>9, <1>10, <1>11, <1>12, <1>13, <1>14, <1>15, <1>16, <1>17, <1>18, <1>19, <1>20, <1>21, <1>22, <1>23, <1>24, <1>25, <1>26, <1>27, <1>28, <1>29, <1>30, <1>31, <1>32, <1>33, <1>34, <1>35, <1>36, <1>37
        DEF Do!Next, Do!Read, Do!UserNext, Do!GatewayNext, Do!IndexerNext

(***************************************************************************)
(* Documents: the gateway's queue.                                         *)
(***************************************************************************)
ChunkOf(f, n) == [kind |-> "chunk", file |-> f, n |-> n]

\* A request is queued; the question's only by Ask.
Pushed(r) == gateway' = Append(gateway, r) /\ UNCHANGED <<index, chunksGone>> /\ (r.kind = "search" => Do!Ask)

\* The request in front is served: a chunk is indexed, or lost; another one leaves the
\* index alone, or erases.
Served(r) ==
  /\ gateway # <<>> /\ r = Head(gateway) /\ gateway' = Tail(gateway)
  /\ \/ /\ r.kind = "chunk" /\ index' = [index EXCEPT ![r.file][r.n] = @ + 1] /\ UNCHANGED chunksGone
     \/ /\ r.kind = "chunk" /\ UNCHANGED index /\ chunksGone' = chunksGone \cup {r.file}
     \/ /\ r.kind # "chunk" /\ UNCHANGED <<index, chunksGone>>
     \/ /\ r.kind # "chunk" /\ \E found : Do!Erasing(found)

LEMMA GatewaySteps ==
  ASSUME CloudFit, DocTypes, Do!Next
  PROVE  \/ UNCHANGED <<gateway, index, chunksGone>>
         \/ \E r \in Do!Requests : Pushed(r)
         \/ \E r \in Do!Requests : Served(r)
<1> USE DEF Do!objects, Do!search
<1>h. gateway # <<>> => Head(gateway) \in Do!Requests
  BY MembersTail DEF DocTypes, SearchTypes
<1>1. ASSUME NEW f \in Do!Files, Do!Upload(f) \/ Do!Scan(f) \/ Do!SeenExpires(f)
      PROVE  UNCHANGED <<gateway, index, chunksGone>>
  BY <1>1 DEF Do!Upload, Do!Scan, Do!Queue, Do!SeenExpires
<1>2. ASSUME NEW o \in Do!OrdersAt(ordered), Do!Order(o), ordered < plan.orders
      PROVE  \E r \in Do!Requests : Pushed(r)
  <2>1. o \in Do!Requests /\ o.kind # "search"
    BY RequestsAre DEF DocTypes, CommandTypes
  <2> QED BY <1>2, <2>1 DEF Do!Order, Pushed
<1>3. ASSUME NEW l \in Urls, NEW alone \in BOOLEAN, Do!Paste(l, alone)
      PROVE  UNCHANGED <<gateway, index, chunksGone>>
  BY <1>3 DEF Do!Paste
<1>4. ASSUME NEW t \in reading, Do!PushPart(t)
      PROVE  \E r \in Do!Requests : Pushed(r)
  <2>1. t \in Readings /\ t.pushed < Chunks
    BY <1>4 DEF DocTypes, CommandTypes, Do!PushPart
  <2>2. ChunkOf(t.link, t.pushed + 1) \in Do!Requests
    BY <2>1, RequestsAre, DocConstants DEF Readings, Do!Names, ChunkOf
  <2>3. ChunkOf(t.link, t.pushed + 1).kind # "search"
    BY DEF ChunkOf
  <2>4. Pushed(ChunkOf(t.link, t.pushed + 1))
    BY <1>4, <2>3 DEF Do!PushPart, Pushed, ChunkOf
  <2> QED BY <2>2, <2>4
<1>5. ASSUME NEW t \in reading,
             Do!ClearNoDocs(t) \/ Do!StopReading(t) \/ Do!ReadNothing(t) \/ Do!PushFails(t) \/ Do!BreakOff(t)
      PROVE  UNCHANGED <<gateway, index, chunksGone>>
  BY <1>5 DEF Do!ClearNoDocs, Do!StopReading, Do!ReadNothing, Do!PushFails, Do!BreakOff, Do!EndReading
<1>6. CASE Do!Dispatch \/ Do!DispatchFails \/ Do!DispatchDies \/ Do!FlagExpires \/ Do!Take
  BY <1>6 DEF Do!Dispatch, Do!DispatchFails, Do!DispatchDies, Do!FlagExpires, Do!Take
<1>7. CASE Do!CannotIndex \/ Do!Settle \/ Do!Finish \/ Do!TimesOut \/ Do!IndexerDies
  BY <1>7 DEF Do!CannotIndex, Do!Settle, Do!Finish, Do!TimesOut, Do!IndexerDies
<1>8. CASE Do!PushChunk
  <2> DEFINE r == ChunkOf(Do!Current.task.file, Do!Current.pushed + 1)
  <2>1. Do!Current \in IndexJobs /\ Do!Current.pushed < Chunks
    BY <1>8, CurrentIs DEF Do!PushChunk, DocTypes
  <2>2. r \in Do!Requests
    BY <2>1, RequestsAre, DocConstants DEF IndexJobs, Do!Jobs, Do!Names, ChunkOf
  <2>3. r.kind # "search"
    BY DEF ChunkOf
  <2>4. Pushed(r)
    BY <1>8, <2>3 DEF Do!PushChunk, Pushed, ChunkOf
  <2> QED BY <2>2, <2>4
<1>9. CASE Do!IndexChunk
  BY <1>h, <1>9 DEF Do!IndexChunk, Served, Do!Request
<1>10. CASE Do!RequestFails
  BY <1>h, <1>10 DEF Do!RequestFails, Served, Do!Request
<1>11. CASE Do!Search \/ Do!DeleteObject \/ Do!StoreDraft
  BY <1>h, <1>11 DEF Do!Search, Do!DeleteObject, Do!StoreDraft, Served, Do!Request
<1>12. CASE Do!ShowFiles \/ Do!ShowLinks
  BY <1>h, <1>12 DEF Do!ShowFiles, Do!ShowLinks, Do!Show, Served, Do!Request
<1>13. CASE Do!Erase \/ Do!EraseLink
  <2> HIDE DEF Do!Erasing
  <2>1. gateway # <<>> /\ Head(gateway).kind # "chunk" /\ gateway' = Tail(gateway) /\ \E found : Do!Erasing(found)
    BY <1>13 DEF Do!Erase, Do!EraseLink, Do!Request
  <2> QED BY <1>h, <2>1 DEF Served
<1>14. CASE Do!Ask \/ Do!Forget
  <2>1. CASE Do!Ask
    BY <2>1, RequestsAre DEF Do!Ask, Do!Send, Pushed
  <2>2. CASE Do!Forget
    BY <2>2, RequestsAre DEF Do!Forget, Do!Send, Pushed
  <2> QED BY <1>14, <2>1, <2>2
<1>15. CASE Do!SearchTimesOut \/ Do!SetNoDocs \/ Do!NoDocsExpires \/ Do!OrderTimesOut
  BY <1>15 DEF Do!SearchTimesOut, Do!SetNoDocs, Do!NoDocsExpires, Do!OrderTimesOut
<1> QED BY <1>1, <1>2, <1>3, <1>4, <1>5, <1>6, <1>7, <1>8, <1>9, <1>10, <1>11, <1>12, <1>13, <1>14, <1>15
        DEF Do!Next, Do!Read, Do!UserNext, Do!GatewayNext, Do!IndexerNext

\* A chunk that is in the index or on its way there stays so, or its file has lost it.
Present(f, n) == index[f][n] > 0 \/ ChunkOf(f, n) \in Do!ToSet(gateway)

LEMMA ErasedAreGone ==
  ASSUME DocTypes, NEW found, Do!Erasing(found), NEW f \in Do!Names, NEW n \in 1..Chunks
  PROVE  /\ chunksGone \subseteq chunksGone'
         /\ f \notin chunksGone' => index'[f][n] = index[f][n]
<1>1. index \in [Do!Names -> [1..Chunks -> Nat]]
  BY DEF DocTypes, SearchTypes
<1>2. f \in found /\ f \notin Do!Visible => index[f][n] = 0
  <2>1. index[f][n] \in Nat
    BY <1>1
  <2> QED BY <2>1 DEF Do!Visible
<1>3. index'[f][n] = IF f \in found THEN 0 ELSE index[f][n]
  BY <1>1 DEF Do!Erasing
<1> QED BY <1>2, <1>3 DEF Do!Erasing

LEMMA ServedKeeps ==
  ASSUME CloudFit, DocTypes, NEW r \in Do!Requests, Served(r), NEW f \in Do!Names, NEW n \in 1..Chunks
  PROVE  /\ chunksGone \subseteq chunksGone'
         /\ f \notin chunksGone' => \/ index'[f][n] = index[f][n] /\ r # ChunkOf(f, n)
                                    \/ index'[f][n] > 0
<1>0. index \in [Do!Names -> [1..Chunks -> Nat]] /\ index[f][n] \in Nat
  BY DEF DocTypes, SearchTypes
<1>k. ChunkOf(f, n).kind = "chunk" /\ ChunkOf(f, n).file = f
  BY DEF ChunkOf
<1>1. CASE r.kind = "chunk" /\ index' = [index EXCEPT ![r.file][r.n] = @ + 1] /\ UNCHANGED chunksGone
  <2>1. r.file \in Do!Names /\ r.n \in 1..Chunks /\ r = ChunkOf(r.file, r.n)
    BY <1>1, RequestKinds DEF ChunkOf
  <2>2. CASE r.file = f /\ r.n = n
    <3>1. index' = [index EXCEPT ![f][n] = @ + 1]
      BY <1>1, <2>2
    <3>2. index'[f][n] = index[f][n] + 1
      BY <1>0, <3>1
    <3>3. index'[f][n] > 0
      BY <1>0, <3>2
    <3> QED BY <1>1, <3>3
  <2>3. CASE ~(r.file = f /\ r.n = n)
    <3>1. index'[f][n] = index[f][n]
      BY <1>0, <1>1, <2>1, <2>3
    <3>2. r # ChunkOf(f, n)
      BY <2>3 DEF ChunkOf
    <3> QED BY <1>1, <3>1, <3>2
  <2> QED BY <1>1, <2>2, <2>3
<1>2. CASE r.kind = "chunk" /\ UNCHANGED index /\ chunksGone' = chunksGone \cup {r.file}
  BY <1>2, <1>k
<1>3. CASE r.kind # "chunk" /\ UNCHANGED <<index, chunksGone>>
  BY <1>3, <1>k
<1>4. CASE r.kind # "chunk" /\ \E found : Do!Erasing(found)
  BY <1>4, <1>k, ErasedAreGone
<1> QED BY <1>1, <1>2, <1>3, <1>4 DEF Served

LEMMA PresentStays ==
  ASSUME CloudFit, DocTypes, Do!Next, NEW f \in Do!Names, NEW n \in 1..Chunks
  PROVE  /\ chunksGone \subseteq chunksGone'
         /\ Present(f, n) /\ f \notin chunksGone' => Present(f, n)'
<1>0. gateway \in Seq(Do!Requests)
  BY DEF DocTypes, SearchTypes
<1>1. CASE UNCHANGED <<gateway, index, chunksGone>>
  BY <1>1 DEF Present
<1>2. ASSUME NEW r \in Do!Requests, Pushed(r)
      PROVE  /\ chunksGone \subseteq chunksGone'
             /\ Present(f, n) /\ f \notin chunksGone' => Present(f, n)'
  BY <1>0, <1>2, MembersAppend DEF Pushed, Present
<1>3. ASSUME NEW r \in Do!Requests, Served(r)
      PROVE  /\ chunksGone \subseteq chunksGone'
             /\ Present(f, n) /\ f \notin chunksGone' => Present(f, n)'
  <2>1. \A e \in Do!ToSet(gateway) : e = r \/ e \in Do!ToSet(gateway')
    BY <1>0, <1>3, MembersTail DEF Served
  <2> QED BY <1>3, <2>1, ServedKeeps DEF Present
<1> QED BY <1>1, <1>2, <1>3, GatewaySteps

(***************************************************************************)
(* Documents: what was said of a file, and the question that found nothing. *)
(***************************************************************************)
\* The chunks a file or link must have handed over by now.
Due(f, n) ==
  \/ f \in cleared
  \/ f \in Do!Files /\ "done" \in noticesTold[f]
  \/ \E j \in indexJob : j.task.file = f /\ n <= j.pushed
  \/ \E t \in reading : t.link = f /\ n <= t.pushed

DueInv == \A f \in Do!Names \ chunksGone, n \in 1..Chunks : Due(f, n) => Present(f, n)

\* The flag is up for a reason.
FlagInv ==
  flag => \/ stuck
          \/ reading # {}
          \/ \E t \in Do!ToSet(indexing) \cup {j.task : j \in indexJob} : t.file \in Personal

\* What a step adds to Due has been handed over, or is being.
LEMMA DueFromReading ==
  ASSUME CloudFit, DocTypes, NEW t \in reading, Do!Read(t),
         NEW f \in Do!Names, NEW n \in 1..Chunks, Due(f, n)'
  PROVE  Due(f, n) \/ Present(f, n)'
<1>0. t \in Readings /\ t.link \in Do!Names /\ Chunks \in Nat /\ n \in Int /\ t.pushed \in Int
  BY DocConstants DEF DocTypes, CommandTypes, Readings, Do!Names
<1>1. CASE Do!PushPart(t)
  <2>1. UNCHANGED <<cleared, noticesTold, indexJob>> /\ reading' = (reading \ {t}) \cup {[t EXCEPT !.pushed = @ + 1]}
        /\ t.pushed < Chunks /\ gateway' = Append(gateway, ChunkOf(t.link, t.pushed + 1))
    BY <1>1 DEF Do!PushPart, Do!indexer, Do!history, ChunkOf
  <2>a. t.pushed <= Chunks
    BY <1>0, <2>1
  <2>2. [t EXCEPT !.pushed = @ + 1].link = t.link /\ [t EXCEPT !.pushed = @ + 1].pushed = t.pushed + 1
    BY <1>0, <2>a, ReadFurther
  <2>3. ChunkOf(t.link, t.pushed + 1) \in Do!ToSet(gateway')
    <3>1. ChunkOf(t.link, t.pushed + 1) \in Do!Requests
      BY <1>0, <2>1, RequestsAre DEF ChunkOf, Readings
    <3> QED BY <2>1, <3>1, MembersAppend DEF DocTypes, SearchTypes
  <2>4. Due(f, n) \/ (f = t.link /\ n = t.pushed + 1)
    <3>1. CASE \E s \in reading' : s.link = f /\ n <= s.pushed
      <4>1. PICK s \in reading' : s.link = f /\ n <= s.pushed
        BY <3>1
      <4>2. CASE s \in reading
        BY <4>1, <4>2 DEF Due
      <4>3. CASE s = [t EXCEPT !.pushed = @ + 1]
        <5>1. f = t.link /\ n <= t.pushed + 1
          BY <2>2, <4>1, <4>3
        <5>2. n <= t.pushed \/ n = t.pushed + 1
          BY <1>0, <5>1
        <5> QED BY <5>1, <5>2 DEF Due
      <4> QED BY <2>1, <4>1, <4>2, <4>3
    <3>2. CASE ~\E s \in reading' : s.link = f /\ n <= s.pushed
      BY <2>1, <3>2 DEF Due
    <3> QED BY <3>1, <3>2
  <2> QED BY <2>3, <2>4 DEF Present
<1>2. CASE Do!ClearNoDocs(t)
  <2>1. UNCHANGED <<noticesTold, indexJob>> /\ reading' = (reading \ {t}) \cup {[t EXCEPT !.pushed = @ + 1]}
        /\ t.pushed = Chunks /\ cleared' = cleared \cup {t.link}
    BY <1>2 DEF Do!ClearNoDocs, Do!indexer
  <2>2. [t EXCEPT !.pushed = @ + 1].link = t.link
    BY <1>0, <2>1, ReadFurther
  <2>3. n <= t.pushed
    BY <1>0, <2>1
  <2> QED BY <2>1, <2>2, <2>3 DEF Due
<1>3. CASE Do!StopReading(t) \/ Do!ReadNothing(t) \/ Do!PushFails(t) \/ Do!BreakOff(t)
  <2>1. UNCHANGED <<cleared, noticesTold, indexJob>> /\ reading' = reading \ {t}
    BY <1>3 DEF Do!StopReading, Do!ReadNothing, Do!PushFails, Do!BreakOff, Do!EndReading, Do!history
  <2> QED BY <2>1 DEF Due
<1> QED BY <1>1, <1>2, <1>3 DEF Do!Read

LEMMA DueFromIndexer ==
  ASSUME CloudFit, DocTypes, indexJob # {},
         \/ Do!PushChunk \/ Do!CannotIndex \/ Do!Settle \/ Do!Finish \/ Do!TimesOut \/ Do!IndexerDies,
         NEW f \in Do!Names, NEW n \in 1..Chunks, Due(f, n)'
  PROVE  Due(f, n) \/ Present(f, n)'
<1> DEFINE c == Do!Current
<1>0. /\ c \in IndexJobs /\ indexJob = {c} /\ c.task.file \in Do!Files /\ c.task.file \in Do!Names
      /\ Chunks \in Nat /\ n \in Int /\ c.pushed \in Int
  BY CurrentIs, DocConstants DEF DocTypes, IndexJobs, Do!Jobs, Do!Names
<1>t. noticesTold \in [Do!Files -> SUBSET {"done", "sorry"}]
  BY DEF DocTypes, ChatTypes
<1>1. CASE Do!PushChunk
  <2>1. /\ UNCHANGED <<cleared, noticesTold, reading>> /\ indexJob' = {[c EXCEPT !.pushed = @ + 1]}
        /\ c.pushed < Chunks /\ gateway' = Append(gateway, ChunkOf(c.task.file, c.pushed + 1))
    BY <1>1 DEF Do!PushChunk, Do!commands, Do!history, ChunkOf
  <2>a. c.pushed <= Chunks
    BY <1>0, <2>1
  <2>2. [c EXCEPT !.pushed = @ + 1].task = c.task /\ [c EXCEPT !.pushed = @ + 1].pushed = c.pushed + 1
    BY <1>0, <2>a, JobFurther
  <2>3. ChunkOf(c.task.file, c.pushed + 1) \in Do!ToSet(gateway')
    <3>1. ChunkOf(c.task.file, c.pushed + 1) \in Do!Requests
      BY <1>0, <2>1, RequestsAre DEF ChunkOf, IndexJobs
    <3> QED BY <2>1, <3>1, MembersAppend DEF DocTypes, SearchTypes
  <2> HIDE DEF c
  <2>4. Due(f, n) \/ (f = c.task.file /\ n = c.pushed + 1)
    <3>1. CASE \E j \in indexJob' : j.task.file = f /\ n <= j.pushed
      <4>1. f = c.task.file /\ n <= c.pushed + 1
        BY <2>1, <2>2, <3>1
      <4>2. n <= c.pushed \/ n = c.pushed + 1
        BY <1>0, <4>1
      <4> QED BY <1>0, <4>1, <4>2 DEF Due
    <3>2. CASE ~\E j \in indexJob' : j.task.file = f /\ n <= j.pushed
      BY <2>1, <3>2 DEF Due
    <3> QED BY <3>1, <3>2
  <2> QED BY <2>3, <2>4 DEF Present
<1>2. CASE Do!Settle
  <2>1. /\ UNCHANGED <<noticesTold, reading>> /\ indexJob' = {[c EXCEPT !.pushed = @ + 1]}
        /\ c.pushed = Chunks /\ cleared' \subseteq cleared \cup {c.task.file}
    BY <1>2 DEF Do!Settle, Do!commands
  <2>2. [c EXCEPT !.pushed = @ + 1].task = c.task
    BY <1>0, <2>1, JobFurther
  <2>3. n <= c.pushed
    BY <1>0, <2>1
  <2> HIDE DEF c
  <2>4. f = c.task.file => Due(f, n)
    BY <1>0, <2>3 DEF Due
  <2>5. f # c.task.file => Due(f, n)
    BY <2>1, <2>2 DEF Due
  <2> QED BY <2>4, <2>5
<1>3. CASE Do!Finish
  <2>1. /\ UNCHANGED <<cleared, reading>> /\ indexJob' = {} /\ c.pushed = Chunks + 1
        /\ noticesTold' \in {noticesTold, [noticesTold EXCEPT ![c.task.file] = @ \cup {"done"}]}
    BY <1>3 DEF Do!Finish, Do!EndSaying, Do!commands
  <2>2. n <= c.pushed
    BY <1>0, <2>1
  <2> HIDE DEF c
  <2>3. f = c.task.file => Due(f, n)
    BY <1>0, <2>2 DEF Due
  <2>4. f # c.task.file => Due(f, n)
    BY <1>0, <1>t, <2>1 DEF Due
  <2> QED BY <2>3, <2>4
<1>4. CASE Do!CannotIndex \/ Do!TimesOut
  <2>1. /\ UNCHANGED <<cleared, reading>> /\ indexJob' = {}
        /\ noticesTold' \in {noticesTold, [noticesTold EXCEPT ![c.task.file] = @ \cup {"sorry"}]}
    BY <1>4 DEF Do!CannotIndex, Do!TimesOut, Do!EndSaying, Do!commands
  <2> HIDE DEF c
  <2>2. f \in Do!Files /\ "done" \in noticesTold'[f] => "done" \in noticesTold[f]
    BY <1>0, <1>t, <2>1
  <2> QED BY <2>1, <2>2 DEF Due
<1>5. CASE Do!IndexerDies
  <2>1. UNCHANGED <<cleared, reading, noticesTold>> /\ indexJob' = {}
    BY <1>5 DEF Do!IndexerDies, Do!commands
  <2> QED BY <2>1 DEF Due
<1> QED BY <1>1, <1>2, <1>3, <1>4, <1>5

LEMMA DueFromOthers ==
  ASSUME CloudFit, DocTypes, Do!Next,
         ~ \E t \in reading : Do!Read(t), ~(Do!IndexerNext \/ Do!TimesOut \/ Do!IndexerDies),
         NEW f \in Do!Names, NEW n \in 1..Chunks, Due(f, n)'
  PROVE  Due(f, n)
<1> USE DEF Do!objects, Do!commands, Do!indexer, Do!search, Do!chat, Do!history
<1>0. n \in 1..Chunks /\ Chunks \in Nat
  BY DocConstants
<1>1. CASE UNCHANGED <<cleared, noticesTold, indexJob, reading>>
  BY <1>1 DEF Due
<1>2. ASSUME NEW l \in Urls, NEW alone \in BOOLEAN, Do!Paste(l, alone) PROVE Due(f, n)
  <2>1. UNCHANGED <<cleared, noticesTold, indexJob>>
        /\ reading' = reading \cup {[link |-> l, alone |-> alone, pushed |-> 0]}
    BY <1>2 DEF Do!Paste
  <2>2. ~(n <= 0)
    BY <1>0
  <2> QED BY <2>1, <2>2 DEF Due
<1>3. CASE Do!Take
  <2>1. UNCHANGED <<cleared, noticesTold, reading>> /\ indexJob' = {[task |-> Head(indexing), pushed |-> 0]}
    BY <1>3 DEF Do!Take
  <2>2. ~(n <= 0)
    BY <1>0
  <2> QED BY <2>1, <2>2 DEF Due
<1>4. CASE Do!DispatchFails
  <2>1. UNCHANGED <<cleared, indexJob, reading>>
        /\ noticesTold' \in {noticesTold, [noticesTold EXCEPT ![Head(pending)] = @ \cup {"sorry"}]}
    BY <1>4 DEF Do!DispatchFails
  <2>2. f \in Do!Files /\ "done" \in noticesTold'[f] => "done" \in noticesTold[f]
    BY <2>1 DEF DocTypes, ChatTypes
  <2> QED BY <2>1, <2>2 DEF Due
<1>5. ASSUME NEW g \in Do!Files, Do!Upload(g) \/ Do!Scan(g) \/ Do!SeenExpires(g)
      PROVE  UNCHANGED <<cleared, noticesTold, indexJob, reading>>
  BY <1>5 DEF Do!Upload, Do!Scan, Do!Queue, Do!SeenExpires
<1>6. ASSUME NEW o, Do!Order(o) PROVE UNCHANGED <<cleared, noticesTold, indexJob, reading>>
  BY <1>6 DEF Do!Order
<1>7. CASE Do!Dispatch \/ Do!DispatchDies \/ Do!FlagExpires
  <2>1. UNCHANGED <<cleared, noticesTold, indexJob, reading>>
    BY <1>7 DEF Do!Dispatch, Do!DispatchDies, Do!FlagExpires
  <2> QED BY <1>1, <2>1
<1>8. CASE Do!GatewayNext \/ Do!RequestFails
  <2>1. UNCHANGED <<cleared, noticesTold, indexJob, reading>>
    BY <1>8 DEF Do!GatewayNext, Do!RequestFails, Do!IndexChunk, Do!Search, Do!Erase, Do!EraseLink, Do!DeleteObject,
      Do!StoreDraft, Do!ShowFiles, Do!ShowLinks, Do!Show
  <2> QED BY <1>1, <2>1
<1>9. CASE Do!UserNext
  <2>1. UNCHANGED <<cleared, noticesTold, indexJob, reading>>
    BY <1>9 DEF Do!UserNext, Do!Ask, Do!SearchTimesOut, Do!SetNoDocs, Do!NoDocsExpires, Do!Forget, Do!OrderTimesOut
  <2> QED BY <1>1, <2>1
<1> QED BY <1>1, <1>2, <1>3, <1>4, <1>5, <1>6, <1>7, <1>8, <1>9 DEF Do!Next

LEMMA DueStep == ASSUME CloudFit, DocTypes, DueInv, Do!Next PROVE DueInv'
<1>1. Do!Names' = Do!Names
  OBVIOUS
<1> SUFFICES ASSUME NEW f \in Do!Names, f \notin chunksGone', NEW n \in 1..Chunks, Due(f, n)'
             PROVE  Present(f, n)'
  BY DEF DueInv
<1>2. CASE \E t \in reading : Do!Read(t)
  BY <1>2, DueFromReading, PresentStays DEF DueInv
<1>3. CASE Do!IndexerNext \/ Do!TimesOut \/ Do!IndexerDies
  <2>1. indexJob # {}
    BY <1>3 DEF Do!IndexerNext, Do!PushChunk, Do!CannotIndex, Do!Settle, Do!Finish, Do!TimesOut, Do!IndexerDies
  <2> QED BY <1>3, <2>1, DueFromIndexer, PresentStays DEF DueInv, Do!IndexerNext
<1>4. CASE (~ \E t \in reading : Do!Read(t)) /\ ~(Do!IndexerNext \/ Do!TimesOut \/ Do!IndexerDies)
  BY <1>4, DueFromOthers, PresentStays DEF DueInv
<1> QED BY <1>2, <1>3, <1>4

\* The tasks that are on their way to the indexer, or there.
Tasks == Do!ToSet(indexing) \cup {j.task : j \in indexJob}

LEMMA FlagStep == ASSUME CloudFit, DocTypes, FlagInv, Do!Next PROVE FlagInv'
<1> USE DEF Do!objects, Do!commands, Do!indexer, Do!search, Do!chat, Do!history
<1> DEFINE G == flag => stuck \/ reading # {} \/ \E t \in Tasks : t.file \in Personal
<1>g. FlagInv <=> G
  BY DEF FlagInv, Tasks
<1>i. indexing \in Seq(Do!Jobs) /\ pending \in Seq(Do!Files) /\ AtMostOne(indexJob, IndexJobs)
  BY DEF DocTypes, IndexerTypes
<1>1. CASE UNCHANGED <<flag, stuck, reading, indexing, indexJob>>
  BY <1>1 DEF FlagInv
<1>a. ASSUME NEW q \in Do!Jobs, indexing' = Append(indexing, q), UNCHANGED indexJob
      PROVE  Tasks' = Tasks \cup {q}
  <2>1. Do!ToSet(indexing') = Do!ToSet(indexing) \cup {q}
    BY <1>i, <1>a, MembersAppend
  <2> QED BY <1>a, <2>1 DEF Tasks
<1>2. ASSUME NEW f \in Do!Files, Do!Scan(f) PROVE FlagInv'
  <2>1. UNCHANGED <<flag, stuck, reading, indexJob>> /\ indexing' = Append(indexing, Do!Task(f, FALSE))
    BY <1>2 DEF Do!Scan, Do!Queue
  <2>2. Tasks \subseteq Tasks'
    BY <1>a, <2>1, JobsAre
  <2> QED BY <2>1, <2>2 DEF FlagInv, Tasks
<1>3. ASSUME NEW f \in Do!Files, Do!Upload(f) \/ Do!SeenExpires(f) PROVE FlagInv'
  <2>1. UNCHANGED <<flag, stuck, reading, indexing, indexJob>>
    BY <1>3 DEF Do!Upload, Do!SeenExpires
  <2> QED BY <1>1, <2>1
<1>4. ASSUME NEW o, Do!Order(o) PROVE FlagInv'
  <2>1. UNCHANGED <<flag, stuck, reading, indexing, indexJob>>
    BY <1>4 DEF Do!Order
  <2> QED BY <1>1, <2>1
<1>5. ASSUME NEW l \in Urls, NEW alone \in BOOLEAN, Do!Paste(l, alone) PROVE FlagInv'
  <2>1. reading' # {}
    BY <1>5 DEF Do!Paste
  <2> QED BY <2>1 DEF FlagInv
<1>6. ASSUME NEW t \in reading, Do!PushPart(t) \/ Do!ClearNoDocs(t) PROVE FlagInv'
  <2>1. reading' # {}
    BY <1>6 DEF Do!PushPart, Do!ClearNoDocs
  <2> QED BY <2>1 DEF FlagInv
<1>7. ASSUME NEW t \in reading, Do!StopReading(t) \/ Do!ReadNothing(t) \/ Do!PushFails(t) PROVE FlagInv'
  <2>1. flag' = FALSE
    BY <1>7 DEF Do!StopReading, Do!ReadNothing, Do!PushFails, Do!EndReading
  <2> QED BY <2>1 DEF FlagInv
<1>8. ASSUME NEW t \in reading, Do!BreakOff(t) PROVE FlagInv'
  <2>1. stuck' = flag /\ flag' = flag
    BY <1>8 DEF Do!BreakOff
  <2> QED BY <2>1 DEF FlagInv
<1>9. CASE Do!Dispatch
  <2>1. /\ Head(pending) \in Do!Files /\ UNCHANGED <<reading, indexJob>>
        /\ indexing' = Append(indexing, Do!Dispatched(Head(pending)))
        /\ Head(pending) \notin Personal => UNCHANGED <<flag, stuck>>
    BY <1>i, <1>9, MembersTail DEF Do!Dispatch
  <2>2. Tasks' = Tasks \cup {Do!Dispatched(Head(pending))} /\ Do!Dispatched(Head(pending)).file = Head(pending)
    BY <1>a, <2>1, JobsAre
  <2>3. CASE Head(pending) \in Personal
    <3>1. \E q \in Tasks' : q.file \in Personal
      BY <2>2, <2>3
    <3> QED BY <3>1 DEF FlagInv, Tasks
  <2>4. CASE Head(pending) \notin Personal
    <3>1. UNCHANGED <<flag, stuck, reading>> /\ Tasks \subseteq Tasks'
      BY <2>1, <2>2, <2>4
    <3> QED BY <3>1 DEF FlagInv, Tasks
  <2> QED BY <2>3, <2>4
<1>10. CASE Do!DispatchFails
  <2>1. /\ Head(pending) \in Do!Files /\ UNCHANGED <<stuck, reading, indexJob>>
        /\ indexing' = Append(indexing, Do!Dispatched(Head(pending))) \/ UNCHANGED indexing
        /\ flag' = FALSE \/ flag' = flag
    BY <1>i, <1>10, MembersTail DEF Do!DispatchFails
  <2>2. Tasks \subseteq Tasks'
    <3>1. CASE UNCHANGED indexing
      BY <2>1, <3>1 DEF Tasks
    <3>2. CASE indexing' = Append(indexing, Do!Dispatched(Head(pending)))
      BY <1>a, <2>1, <3>2, JobsAre
    <3> QED BY <2>1, <3>1, <3>2
  <2> QED BY <2>1, <2>2 DEF FlagInv, Tasks
<1>11. CASE Do!DispatchDies
  <2>1. UNCHANGED <<reading, indexing, indexJob>> /\ (stuck' = TRUE \/ UNCHANGED <<flag, stuck>>)
    BY <1>11 DEF Do!DispatchDies
  <2> QED BY <2>1 DEF FlagInv
<1>12. CASE Do!FlagExpires
  BY <1>12 DEF Do!FlagExpires, FlagInv
<1>13. CASE Do!Take
  <2>1. /\ UNCHANGED <<flag, stuck, reading>> /\ indexJob = {} /\ indexing # <<>> /\ indexing' = Tail(indexing)
        /\ indexJob' = {[task |-> Head(indexing), pushed |-> 0]}
    BY <1>13 DEF Do!Take
  <2>2. \A e \in Do!ToSet(indexing) : e = Head(indexing) \/ e \in Do!ToSet(indexing')
    BY <1>i, <2>1, MembersTail
  <2>3. Tasks \subseteq Tasks'
    BY <2>1, <2>2 DEF Tasks
  <2> QED BY <2>1, <2>3 DEF FlagInv, Tasks
<1>14. CASE Do!CannotIndex \/ Do!Finish \/ Do!TimesOut
  <2>1. /\ indexJob # {} /\ UNCHANGED <<reading, indexing>>
        /\ \/ flag' = FALSE
           \/ Do!Current.task.file \notin Personal /\ UNCHANGED <<flag, stuck>>
    BY <1>14 DEF Do!CannotIndex, Do!Finish, Do!TimesOut, Do!EndSaying
  <2>2. indexJob = {Do!Current}
    BY <2>1, CurrentIs DEF DocTypes
  <2>3. CASE flag' = FALSE
    BY <2>3 DEF FlagInv
  <2>4. CASE Do!Current.task.file \notin Personal /\ UNCHANGED <<flag, stuck>>
    <3>1. \A q \in Tasks : q.file \in Personal => q \in Do!ToSet(indexing)
      BY <2>2, <2>4 DEF Tasks
    <3>2. \A q \in Do!ToSet(indexing) : q \in Tasks'
      BY <2>1 DEF Tasks
    <3> QED BY <2>1, <2>4, <3>1, <3>2 DEF FlagInv, Tasks
  <2> QED BY <2>1, <2>3, <2>4
<1>15. CASE Do!PushChunk \/ Do!Settle
  <2>1. /\ indexJob # {} /\ UNCHANGED <<flag, stuck, reading, indexing>>
        /\ indexJob' = {[Do!Current EXCEPT !.pushed = @ + 1]}
    BY <1>15 DEF Do!PushChunk, Do!Settle
  <2>a. Do!Current.pushed <= Chunks
    BY <1>15, CurrentIs, DocConstants DEF Do!PushChunk, Do!Settle, IndexJobs, DocTypes
  <2>2. indexJob = {Do!Current} /\ [Do!Current EXCEPT !.pushed = @ + 1].task = Do!Current.task
    BY <2>1, <2>a, CurrentIs, JobFurther DEF DocTypes
  <2> QED BY <2>1, <2>2 DEF FlagInv
<1>16. CASE Do!IndexerDies
  <2>1. stuck' = flag /\ flag' = flag
    BY <1>16 DEF Do!IndexerDies
  <2> QED BY <2>1 DEF FlagInv
<1>17. CASE Do!GatewayNext \/ Do!RequestFails
  <2>1. UNCHANGED <<flag, stuck, reading, indexing, indexJob>>
    BY <1>17 DEF Do!GatewayNext, Do!RequestFails, Do!IndexChunk, Do!Search, Do!Erase, Do!EraseLink, Do!DeleteObject,
      Do!StoreDraft, Do!ShowFiles, Do!ShowLinks, Do!Show
  <2> QED BY <1>1, <2>1
<1>18. CASE Do!UserNext
  <2>1. UNCHANGED <<flag, stuck, reading, indexing, indexJob>>
    BY <1>18 DEF Do!UserNext, Do!Ask, Do!SearchTimesOut, Do!SetNoDocs, Do!NoDocsExpires, Do!Forget, Do!OrderTimesOut
  <2> QED BY <1>1, <2>1
<1> QED
  BY <1>2, <1>3, <1>4, <1>5, <1>6, <1>7, <1>8, <1>9, <1>10, <1>11, <1>12, <1>13, <1>14, <1>15, <1>16, <1>17, <1>18
  DEF Do!Next, Do!Read, Do!IndexerNext

\* A chunk of a file is in the index, or in front of the k-th request.
QueuedAhead(f, k) == index[f][1] > 0 \/ \E i \in DOMAIN gateway : i < k /\ gateway[i] = ChunkOf(f, 1)

\* The question that waits has in front of it what was handed over before it, and one
\* that found nothing had nothing to find.
SearchInv ==
  /\ noDocs => cleared \subseteq raced \cup chunksGone
  /\ asking = "nothing" => known \subseteq chunksGone
  /\ asking = "waiting" => \A k \in DOMAIN gateway : gateway[k].kind = "search" =>
       \A f \in known \ chunksGone : QueuedAhead(f, k)

LEMMA SearchQueue ==
  ASSUME CloudFit, DocTypes, SearchInv, Do!Next, asking = "waiting", asking' = "waiting", known' = known,
         ~Do!Ask, NEW k \in DOMAIN gateway', gateway'[k].kind = "search", NEW f \in known \ chunksGone'
  PROVE  QueuedAhead(f, k)'
<1>0. /\ gateway \in Seq(Do!Requests) /\ f \in Do!Names /\ 1 \in 1..Chunks
      /\ index \in [Do!Names -> [1..Chunks -> Nat]]
  BY DocConstants DEF DocTypes, SearchTypes, ChatTypes, Do!Names, Do!Own, Do!Files
<1>g. chunksGone \subseteq chunksGone'
  BY <1>0, PresentStays
<1>1. CASE UNCHANGED <<gateway, index, chunksGone>>
  BY <1>1 DEF SearchInv, QueuedAhead
<1>2. ASSUME NEW r \in Do!Requests, Pushed(r) PROVE QueuedAhead(f, k)'
  <2>1. r.kind # "search" /\ gateway' = Append(gateway, r) /\ index' = index
    BY <1>2 DEF Pushed
  <2>2. k \in DOMAIN gateway /\ gateway'[k] = gateway[k]
    BY <1>0, <2>1
  <2>3. QueuedAhead(f, k)
    BY <1>g, <2>2 DEF SearchInv
  <2>4. \A i \in DOMAIN gateway : i \in DOMAIN gateway' /\ gateway'[i] = gateway[i]
    BY <1>0, <2>1
  <2> QED BY <2>1, <2>3, <2>4 DEF QueuedAhead
<1>3. ASSUME NEW r \in Do!Requests, Served(r) PROVE QueuedAhead(f, k)'
  <2>1. gateway # <<>> /\ r = gateway[1] /\ gateway' = Tail(gateway)
    BY <1>0, <1>3 DEF Served
  <2>2. k \in Int /\ k + 1 \in DOMAIN gateway /\ gateway'[k] = gateway[k + 1]
    BY <1>0, <2>1
  <2>3. QueuedAhead(f, k + 1)
    BY <1>g, <2>2 DEF SearchInv
  <2>4. (index'[f][1] = index[f][1] /\ r # ChunkOf(f, 1)) \/ index'[f][1] > 0
    BY <1>0, <1>3, ServedKeeps
  <2>5. CASE index'[f][1] > 0
    BY <2>5 DEF QueuedAhead
  <2>6. CASE index'[f][1] = index[f][1] /\ r # ChunkOf(f, 1) /\ ~(index[f][1] > 0)
    <3>1. PICK i \in DOMAIN gateway : i < k + 1 /\ gateway[i] = ChunkOf(f, 1)
      BY <2>3, <2>6 DEF QueuedAhead
    <3>2. i # 1 /\ i \in Int
      BY <1>0, <2>1, <2>6, <3>1
    <3>3. i - 1 \in DOMAIN gateway' /\ gateway'[i - 1] = gateway[i] /\ i - 1 < k
      BY <1>0, <2>1, <2>2, <3>1, <3>2
    <3> QED BY <3>1, <3>3 DEF QueuedAhead
  <2> QED BY <2>4, <2>5, <2>6
<1> QED BY <1>1, <1>2, <1>3, GatewaySteps

LEMMA AskSearch ==
  ASSUME CloudFit, DocTypes, DueInv, Do!Ask
  PROVE  SearchInv'
<1>1. /\ asking' = "waiting" /\ known' = cleared /\ noDocs' = noDocs /\ ~noDocs
      /\ UNCHANGED <<index, chunksGone>> /\ gateway' = Append(gateway, [kind |-> "search"])
      /\ \A e \in Do!ToSet(gateway) : e.kind # "search"
  BY DEF Do!Ask, Do!Send
<1>0. /\ gateway \in Seq(Do!Requests) /\ 1 \in 1..Chunks /\ cleared \subseteq Do!Names
  BY DocConstants DEF DocTypes, SearchTypes, ChatTypes, Do!Names, Do!Own, Do!Files
<1>2. ASSUME NEW k \in DOMAIN gateway', gateway'[k].kind = "search", NEW f \in cleared \ chunksGone
      PROVE  QueuedAhead(f, k)'
  <2>1. Len(gateway) \in Nat /\ DOMAIN gateway = 1..Len(gateway)
        /\ \A i \in DOMAIN gateway : i \in DOMAIN gateway' /\ gateway'[i] = gateway[i] /\ i \in Int
    BY <1>0, <1>1
  <2>2. k = Len(gateway) + 1
    <3>1. k \in DOMAIN gateway => gateway[k] \in Do!ToSet(gateway)
      BY DEF Do!ToSet
    <3>2. k \in DOMAIN gateway \/ k = Len(gateway) + 1
      BY <1>0, <1>1
    <3> QED BY <1>1, <1>2, <2>1, <3>1, <3>2
  <2>3. Present(f, 1)
    BY <1>0, <1>2 DEF DueInv, Due
  <2>4. CASE index[f][1] > 0
    BY <1>1, <2>4 DEF QueuedAhead
  <2>5. CASE ChunkOf(f, 1) \in Do!ToSet(gateway)
    <3>1. PICK i \in DOMAIN gateway : gateway[i] = ChunkOf(f, 1)
      BY <2>5 DEF Do!ToSet
    <3>2. i < k
      BY <2>1, <2>2
    <3> QED BY <2>1, <3>1, <3>2 DEF QueuedAhead
  <2> QED BY <2>3, <2>4, <2>5 DEF Present
<1> QED BY <1>1, <1>2 DEF SearchInv

\* The search that finds nothing.
LEMMA NothingFound ==
  ASSUME CloudFit, DocTypes, SearchInv, Do!Search
  PROVE  SearchInv'
<1>0. /\ gateway \in Seq(Do!Requests) /\ 1 \in 1..Chunks /\ known \subseteq Do!Names
      /\ index \in [Do!Names -> [1..Chunks -> Nat]]
  BY DocConstants DEF DocTypes, SearchTypes, ChatTypes, Do!Names, Do!Own, Do!Files
<1>1. /\ gateway # <<>> /\ Head(gateway).kind = "search" /\ gateway' = Tail(gateway)
      /\ asking' = IF asking # "waiting" THEN asking ELSE IF Do!Visible = {} THEN "nothing" ELSE "no"
      /\ UNCHANGED <<index, chunksGone, known, noDocs, raced, cleared>>
  BY DEF Do!Search, Do!Request, Do!history
<1>2. CASE asking # "waiting"
  BY <1>1, <1>2 DEF SearchInv
<1>3. CASE asking = "waiting"
  <2>1. asking' = "nothing" \/ asking' = "no"
    BY <1>1, <1>3
  <2>2. ASSUME asking' = "nothing", NEW f \in known \ chunksGone PROVE FALSE
    <3>1. Do!Visible = {}
      BY <1>1, <1>3, <2>2
    <3>2. 1 \in DOMAIN gateway /\ gateway[1].kind = "search"
      BY <1>0, <1>1
    <3>3. index[f][1] > 0 \/ \E i \in DOMAIN gateway : i < 1
      BY <1>3, <3>2, <2>2 DEF SearchInv, QueuedAhead
    <3>4. \A i \in DOMAIN gateway : ~(i < 1)
      BY <1>0
    <3> QED BY <1>0, <3>1, <3>3, <3>4 DEF Do!Visible
  <2> QED BY <1>1, <2>1, <2>2 DEF SearchInv
<1> QED BY <1>2, <1>3

LEMMA SearchStep == ASSUME CloudFit, DocTypes, DueInv, SearchInv, Do!Next PROVE SearchInv'
<1> USE DEF Do!objects, Do!commands, Do!indexer, Do!search, Do!chat, Do!history
<1>g. chunksGone \subseteq chunksGone'
  <2>1. CASE UNCHANGED chunksGone
    BY <2>1
  <2>2. ASSUME NEW r \in Do!Requests, Served(r) PROVE chunksGone \subseteq chunksGone'
    BY <2>2 DEF Served, Do!Erasing
  <2> QED BY <2>1, <2>2, GatewaySteps DEF Pushed
<1>1. ASSUME UNCHANGED <<asking, known, noDocs, raced, cleared>>, ~Do!Ask PROVE SearchInv'
  BY <1>1, <1>g, SearchQueue DEF SearchInv
<1>2. ASSUME UNCHANGED <<asking, known>>, ~Do!Ask, noDocs' = FALSE PROVE SearchInv'
  BY <1>2, <1>g, SearchQueue DEF SearchInv
<1>a. ASSUME Do!Ask PROVE SearchInv'
  BY <1>a, AskSearch
<1>b. ASSUME Do!Search PROVE SearchInv'
  BY <1>b, NothingFound
<1>c. CASE Do!SearchTimesOut
  BY <1>c DEF Do!SearchTimesOut, SearchInv
<1>d. CASE Do!SetNoDocs
  BY <1>d DEF Do!SetNoDocs, SearchInv
<1>e. CASE Do!NoDocsExpires
  BY <1>2, <1>a, <1>e DEF Do!NoDocsExpires
<1>f. CASE Do!Forget \/ Do!OrderTimesOut
  BY <1>1, <1>a, <1>f DEF Do!Forget, Do!OrderTimesOut
<1>3. ASSUME NEW f \in Do!Files, Do!Upload(f) \/ Do!Scan(f) \/ Do!SeenExpires(f) PROVE SearchInv'
  <2>1. UNCHANGED <<asking, known, noDocs, raced, cleared>>
    BY <1>3 DEF Do!Upload, Do!Scan, Do!Queue, Do!SeenExpires
  <2> QED BY <1>1, <1>a, <2>1
<1>4. ASSUME NEW o, Do!Order(o) PROVE SearchInv'
  <2>1. UNCHANGED <<asking, known, noDocs, raced, cleared>>
    BY <1>4 DEF Do!Order
  <2> QED BY <1>1, <1>a, <2>1
<1>5. ASSUME NEW l \in Urls, NEW alone \in BOOLEAN, Do!Paste(l, alone) PROVE SearchInv'
  <2>1. UNCHANGED <<asking, known, noDocs, raced, cleared>>
    BY <1>5 DEF Do!Paste
  <2> QED BY <1>1, <1>a, <2>1
<1>6. ASSUME NEW t \in reading, Do!ClearNoDocs(t) PROVE SearchInv'
  <2>1. UNCHANGED <<asking, known>> /\ noDocs' = FALSE
    BY <1>6 DEF Do!ClearNoDocs
  <2> QED BY <1>2, <1>a, <2>1
<1>7. ASSUME NEW t \in reading,
             Do!PushPart(t) \/ Do!StopReading(t) \/ Do!ReadNothing(t) \/ Do!PushFails(t) \/ Do!BreakOff(t)
      PROVE  SearchInv'
  <2>1. UNCHANGED <<asking, known, noDocs, raced, cleared>>
    BY <1>7 DEF Do!PushPart, Do!StopReading, Do!ReadNothing, Do!PushFails, Do!BreakOff, Do!EndReading
  <2> QED BY <1>1, <1>a, <2>1
<1>8. CASE Do!Dispatch \/ Do!DispatchFails \/ Do!DispatchDies \/ Do!FlagExpires \/ Do!Take
  <2>1. UNCHANGED <<asking, known, noDocs, raced, cleared>>
    BY <1>8 DEF Do!Dispatch, Do!DispatchFails, Do!DispatchDies, Do!FlagExpires, Do!Take
  <2> QED BY <1>1, <1>a, <2>1
<1>9. CASE Do!CannotIndex \/ Do!PushChunk \/ Do!Finish \/ Do!TimesOut \/ Do!IndexerDies
  <2>1. UNCHANGED <<asking, known, noDocs, raced, cleared>>
    BY <1>9 DEF Do!CannotIndex, Do!PushChunk, Do!Finish, Do!TimesOut, Do!IndexerDies
  <2> QED BY <1>1, <1>a, <2>1
<1>10. CASE Do!Settle
  <2>1. UNCHANGED <<asking, known>> /\ (noDocs' = FALSE \/ UNCHANGED <<noDocs, raced, cleared>>)
    BY <1>10 DEF Do!Settle
  <2> QED BY <1>1, <1>2, <1>a, <2>1
<1>11. CASE Do!IndexChunk \/ Do!Erase \/ Do!EraseLink \/ Do!DeleteObject \/ Do!StoreDraft \/ Do!ShowFiles
            \/ Do!ShowLinks \/ Do!RequestFails
  <2>1. UNCHANGED <<asking, known, noDocs, raced, cleared>>
    BY <1>11 DEF Do!IndexChunk, Do!Erase, Do!EraseLink, Do!DeleteObject, Do!StoreDraft, Do!ShowFiles,
      Do!ShowLinks, Do!Show, Do!RequestFails
  <2> QED BY <1>1, <1>a, <2>1
<1> QED
  BY <1>a, <1>b, <1>c, <1>d, <1>e, <1>f, <1>3, <1>4, <1>5, <1>6, <1>7, <1>8, <1>9, <1>10, <1>11
  DEF Do!Next, Do!Read, Do!UserNext, Do!GatewayNext, Do!IndexerNext

(***************************************************************************)
(* Documents: what was erased.                                             *)
(***************************************************************************)
\* Nothing of a file or link is on its way to the index.
Quiet(f) ==
  /\ f \in Personal => /\ f \in uploaded /\ f \notin staged /\ f \notin Do!ToSet(pending)
                       /\ \A t \in Tasks : t.file # f
  /\ f \in Urls => \A t \in reading : t.link # f
  /\ \A r \in Do!ToSet(gateway) : r.kind = "chunk" => r.file # f

Unlisted(f) == f \in Urls => f \notin listed

StoredInv == staged \subseteq uploaded /\ documents \cap Personal \subseteq uploaded

ErasedInv ==
  /\ \A f \in erased : Quiet(f) /\ Unlisted(f) /\ \A n \in 1..Chunks : index[f][n] = 0
  /\ StoredInv

\* What is in the store was uploaded, but for the drafts.
LEMMA StoredStep == ASSUME CloudFit, DocTypes, StoredInv, Do!Next PROVE StoredInv'
<1> USE DEF Do!objects, Do!commands, Do!indexer, Do!search, Do!chat, Do!history
<1>1. CASE UNCHANGED <<uploaded, staged, documents>>
  BY <1>1 DEF StoredInv
<1>2. ASSUME NEW f \in Do!Files, Do!Upload(f) \/ Do!Scan(f) \/ Do!SeenExpires(f) PROVE StoredInv'
  BY <1>2 DEF Do!Upload, Do!Scan, Do!Queue, Do!SeenExpires, StoredInv
<1>3. ASSUME NEW o, Do!Order(o) PROVE UNCHANGED <<uploaded, staged, documents>>
  BY <1>3 DEF Do!Order
<1>4. ASSUME NEW l \in Urls, NEW alone \in BOOLEAN, Do!Paste(l, alone) PROVE UNCHANGED <<uploaded, staged, documents>>
  BY <1>4 DEF Do!Paste
<1>5. ASSUME NEW t \in reading, Do!Read(t) PROVE UNCHANGED <<uploaded, staged, documents>>
  BY <1>5 DEF Do!Read, Do!PushPart, Do!ClearNoDocs, Do!StopReading, Do!ReadNothing, Do!PushFails, Do!BreakOff,
    Do!EndReading
<1>6. CASE Do!Dispatch \/ Do!DispatchFails \/ Do!DispatchDies \/ Do!FlagExpires \/ Do!Take
  <2>1. UNCHANGED <<uploaded, staged, documents>>
    BY <1>6 DEF Do!Dispatch, Do!DispatchFails, Do!DispatchDies, Do!FlagExpires, Do!Take
  <2> QED BY <1>1, <2>1
<1>7. CASE Do!CannotIndex \/ Do!PushChunk \/ Do!Finish \/ Do!TimesOut \/ Do!IndexerDies
  <2>1. UNCHANGED <<uploaded, staged, documents>>
    BY <1>7 DEF Do!CannotIndex, Do!PushChunk, Do!Finish, Do!TimesOut, Do!IndexerDies
  <2> QED BY <1>1, <2>1
<1>8. CASE Do!Settle
  <2>1. UNCHANGED uploaded /\ Do!Move(Do!Current.task.file) /\ Do!Current.task.file \in staged
    BY <1>8 DEF Do!Settle, Do!Readable, Do!Named
  <2> QED BY <2>1 DEF Do!Move, StoredInv
<1>9. CASE Do!DeleteObject
  BY <1>9 DEF Do!DeleteObject, StoredInv
<1>10. CASE Do!StoreDraft
  <2>1. Do!Request \in Do!Requests /\ Do!Request.kind = "draft"
    BY <1>10, MembersTail DEF Do!StoreDraft, DocTypes, SearchTypes, Do!Request
  <2>2. Do!Request.name \in Drafts /\ Drafts \cap Personal = {}
    BY <2>1, RequestKinds, DocConstants DEF Do!Names, Do!Files
  <2> QED BY <1>10, <2>2 DEF Do!StoreDraft, Do!WithDraft, StoredInv
<1>11. CASE Do!IndexChunk \/ Do!Search \/ Do!Erase \/ Do!EraseLink \/ Do!ShowFiles \/ Do!ShowLinks \/ Do!RequestFails
  <2>1. UNCHANGED <<uploaded, staged, documents>>
    BY <1>11 DEF Do!IndexChunk, Do!Search, Do!Erase, Do!EraseLink, Do!ShowFiles, Do!ShowLinks, Do!Show,
      Do!RequestFails
  <2> QED BY <1>1, <2>1
<1>12. CASE Do!UserNext
  <2>1. UNCHANGED <<uploaded, staged, documents>>
    BY <1>12 DEF Do!UserNext, Do!Ask, Do!SearchTimesOut, Do!SetNoDocs, Do!NoDocsExpires, Do!Forget, Do!OrderTimesOut
  <2> QED BY <1>1, <2>1
<1> QED
  BY <1>1, <1>2, <1>3, <1>4, <1>5, <1>6, <1>7, <1>8, <1>9, <1>10, <1>11, <1>12
  DEF Do!Next, Do!GatewayNext, Do!IndexerNext

\* What is settled when something is erased is quiet.
LEMMA SettledQuiet ==
  ASSUME CloudFit, DocTypes, StoredInv, NEW f \in Do!Settled
  PROVE  Quiet(f)
<1> DEFINE files == [k \in DOMAIN indexing |-> indexing[k].file]
           Coming == pending \o files
           Chunked == {r.file : r \in {q \in Do!ToSet(gateway) : q.kind = "chunk"}}
<1>0. /\ pending \in Seq(Do!Files) /\ indexing \in Seq(Do!Jobs)
      /\ Personal \cap Urls = {} /\ \A k \in DOMAIN indexing : indexing[k].file \in Do!Files
  <2>1. pending \in Seq(Do!Files) /\ indexing \in Seq(Do!Jobs)
    BY DEF DocTypes, IndexerTypes
  <2>2. \A k \in DOMAIN indexing : indexing[k] \in Do!Jobs
    BY <2>1
  <2>3. \A k \in DOMAIN indexing : indexing[k].file \in Do!Files
    BY <2>2 DEF Do!Jobs
  <2>4. Personal \cap Urls = {}
    BY DocConstants DEF Do!Files
  <2> QED BY <2>1, <2>3, <2>4
<1>1. files \in Seq(Do!Files) /\ Len(files) = Len(indexing) /\ Len(files) \in Nat /\ Len(pending) \in Nat
  BY <1>0
<1>2. \A x \in Do!ToSet(pending) : x \in Do!ToSet(Coming)
  <2>1. ASSUME NEW k \in DOMAIN pending PROVE k \in DOMAIN Coming /\ Coming[k] = pending[k]
    <3> HIDE DEF files
    <3> QED BY <1>0, <1>1
  <2> QED BY <2>1 DEF Do!ToSet
<1>3. \A t \in Do!ToSet(indexing) : t.file \in Do!ToSet(Coming)
  <2>1. ASSUME NEW k \in DOMAIN indexing
        PROVE  Len(pending) + k \in DOMAIN Coming /\ Coming[Len(pending) + k] = indexing[k].file
    <3>1. k \in DOMAIN files /\ files[k] = indexing[k].file
      OBVIOUS
    <3> HIDE DEF files
    <3> QED BY <1>0, <1>1, <3>1
  <2> QED BY <2>1 DEF Do!ToSet
<1>4. /\ f \in Personal => f \in documents /\ f \notin staged \cup Do!ToSet(Coming) \cup {j.task.file : j \in indexJob}
      /\ f \in Urls => \A t \in reading : t.link # f
      /\ f \notin Chunked
  <2> HIDE DEF Coming
  <2>1. f \in (((documents \cap Personal) \ (staged \cup Do!ToSet(Coming) \cup {j.task.file : j \in indexJob} \cup Chunked))
               \cup (Urls \ ({t.link : t \in reading} \cup Chunked)))
    BY DEF Do!Settled, Coming
  <2> QED BY <1>0, <2>1
<1>5. \A r \in Do!ToSet(gateway) : r.kind = "chunk" => r.file # f
  BY <1>4
<1>6. f \in Personal => \A t \in Tasks : t.file # f
  BY <1>3, <1>4 DEF Tasks
<1>7. f \in Personal => f \in uploaded
  BY <1>4 DEF StoredInv
<1> QED BY <1>2, <1>4, <1>5, <1>6, <1>7 DEF Quiet

\* Whatever is quiet stays so until the link is pasted again.
LEMMA QuietStays ==
  ASSUME CloudFit, DocTypes, StoredInv, Do!Next, NEW f \in Do!Own, Quiet(f),
         ~ \E alone \in BOOLEAN : Do!Paste(f, alone)
  PROVE  Quiet(f)'
<1> USE DEF Do!objects, Do!commands, Do!indexer, Do!search, Do!chat, Do!history
<1>0. /\ pending \in Seq(Do!Files) /\ indexing \in Seq(Do!Jobs) /\ gateway \in Seq(Do!Requests)
      /\ reading \subseteq Readings /\ Personal \cap Urls = {} /\ Do!Files \cap Urls = {}
      /\ f \in Personal \/ f \in Urls
  BY DocConstants DEF DocTypes, IndexerTypes, SearchTypes, CommandTypes, Do!Files, Do!Own
<1> DEFINE Calm == \A r \in Do!ToSet(gateway) : r.kind = "chunk" => r.file # f
           Idle == f \in Personal => /\ f \in uploaded /\ f \notin staged /\ f \notin Do!ToSet(pending)
                                     /\ \A t \in Tasks : t.file # f
           Unread == f \in Urls => \A t \in reading : t.link # f
<1>q. (Quiet(f) <=> Idle /\ Unread /\ Calm) /\ (Quiet(f)' <=> Idle' /\ Unread' /\ Calm')
  BY DEF Quiet
<1>u. UNCHANGED <<uploaded, staged, pending, indexing, indexJob>> => Idle'
  BY <1>q DEF Tasks
<1>t. UNCHANGED gateway => Calm'
  BY <1>q
<1>r. UNCHANGED reading => Unread'
  BY <1>q
<1>p. ASSUME NEW r \in Do!Requests, gateway' = Append(gateway, r), r.kind = "chunk" => r.file # f
      PROVE  Calm'
  <2>1. Do!ToSet(gateway') = Do!ToSet(gateway) \cup {r}
    BY <1>0, <1>p, MembersAppend
  <2> QED BY <1>p, <1>q, <2>1
<1>s. ASSUME gateway # <<>>, gateway' = Tail(gateway) PROVE Calm'
  <2>1. Do!ToSet(gateway') \subseteq Do!ToSet(gateway)
    BY <1>0, <1>s, MembersTail
  <2> QED BY <1>q, <2>1
<1>a. ASSUME NEW q \in Do!Jobs, indexing' = Append(indexing, q), q.file # f, UNCHANGED indexJob
      PROVE  \A t \in Tasks' : t.file # f \/ t \in Tasks
  <2>1. Do!ToSet(indexing') = Do!ToSet(indexing) \cup {q}
    BY <1>0, <1>a, MembersAppend
  <2> QED BY <1>a, <2>1 DEF Tasks
<1> HIDE DEF Calm, Unread
<1>1. ASSUME NEW g \in Do!Files, Do!Upload(g) PROVE Quiet(f)'
  <2>1. UNCHANGED <<gateway, reading, indexing, indexJob>> /\ uploaded' = uploaded \cup {g}
        /\ staged' = staged \cup {g} /\ g \notin uploaded /\ (pending' = Append(pending, g) \/ UNCHANGED pending)
    BY <1>1 DEF Do!Upload
  <2>2. Do!ToSet(Append(pending, g)) = Do!ToSet(pending) \cup {g}
    BY <1>0, MembersAppend
  <2>3. Idle'
    BY <1>q, <2>1, <2>2 DEF Tasks
  <2> QED BY <1>q, <1>t, <1>r, <2>1, <2>3
<1>2. ASSUME NEW g \in Do!Files, Do!Scan(g) PROVE Quiet(f)'
  <2>1. /\ UNCHANGED <<gateway, reading, uploaded, staged, pending, indexJob>> /\ g \in staged
        /\ indexing' = Append(indexing, Do!Task(g, FALSE)) /\ Do!Task(g, FALSE) \in Do!Jobs /\ Do!Task(g, FALSE).file = g
    BY <1>2, JobsAre DEF Do!Scan, Do!Queue, Do!Named
  <2>2. f \in Personal => \A t \in Tasks' : t.file # f
    BY <1>a, <1>q, <2>1
  <2>3. Idle'
    BY <1>q, <2>1, <2>2
  <2> QED BY <1>q, <1>t, <1>r, <2>1, <2>3
<1>3. ASSUME NEW g \in Do!Files, Do!SeenExpires(g) PROVE Quiet(f)'
  <2>1. UNCHANGED <<gateway, reading, uploaded, staged, pending, indexing, indexJob>>
    BY <1>3 DEF Do!SeenExpires
  <2> QED BY <1>q, <1>u, <1>t, <1>r, <2>1
<1>4. ASSUME NEW o \in Do!OrdersAt(ordered), ordered < plan.orders, Do!Order(o) PROVE Quiet(f)'
  <2>1. UNCHANGED <<reading, uploaded, staged, pending, indexing, indexJob>> /\ gateway' = Append(gateway, o)
    BY <1>4 DEF Do!Order
  <2>2. o \in Do!Requests /\ o.kind # "chunk"
    BY RequestsAre DEF DocTypes, CommandTypes
  <2> QED BY <1>q, <1>u, <1>p, <1>r, <2>1, <2>2
<1>5. ASSUME NEW l \in Urls, NEW alone \in BOOLEAN, Do!Paste(l, alone) PROVE Quiet(f)'
  <2>1. UNCHANGED <<gateway, uploaded, staged, pending, indexing, indexJob>>
        /\ reading' = reading \cup {[link |-> l, alone |-> alone, pushed |-> 0]}
    BY <1>5 DEF Do!Paste
  <2>2. l # f
    BY <1>5
  <2>3. Unread'
    BY <1>q, <2>1, <2>2 DEF Unread
  <2> QED BY <1>q, <1>u, <1>t, <2>1, <2>3
<1>6. ASSUME NEW t \in reading, Do!PushPart(t) PROVE Quiet(f)'
  <2>1. /\ UNCHANGED <<uploaded, staged, pending, indexing, indexJob>> /\ t.pushed < Chunks
        /\ reading' = (reading \ {t}) \cup {[t EXCEPT !.pushed = @ + 1]}
        /\ gateway' = Append(gateway, ChunkOf(t.link, t.pushed + 1))
    BY <1>6 DEF Do!PushPart, ChunkOf
  <2>2. t \in Readings /\ t.link \in Urls /\ t.link # f
    BY <1>0, <1>q DEF Readings, Unread
  <2>3. t.pushed <= Chunks /\ t.pushed + 1 \in 1..Chunks
    BY <2>1, <2>2, DocConstants DEF Readings
  <2>4. [t EXCEPT !.pushed = @ + 1].link = t.link
    BY <2>2, <2>3, ReadFurther
  <2>5. ChunkOf(t.link, t.pushed + 1) \in Do!Requests /\ ChunkOf(t.link, t.pushed + 1).file = t.link
    BY <2>2, <2>3, RequestsAre DEF ChunkOf, Do!Names
  <2>6. Unread'
    BY <1>q, <2>1, <2>2, <2>4 DEF Unread
  <2> QED BY <1>q, <1>u, <1>p, <2>1, <2>2, <2>5, <2>6
<1>7. ASSUME NEW t \in reading, Do!ClearNoDocs(t) PROVE Quiet(f)'
  <2>1. /\ UNCHANGED <<gateway, uploaded, staged, pending, indexing, indexJob>> /\ t.pushed = Chunks
        /\ reading' = (reading \ {t}) \cup {[t EXCEPT !.pushed = @ + 1]}
    BY <1>7 DEF Do!ClearNoDocs
  <2>2. [t EXCEPT !.pushed = @ + 1].link = t.link
    BY <1>0, <2>1, ReadFurther, DocConstants
  <2>3. Unread'
    BY <1>q, <2>1, <2>2 DEF Unread
  <2> QED BY <1>q, <1>u, <1>t, <2>1, <2>3
<1>8. ASSUME NEW t \in reading, Do!StopReading(t) \/ Do!ReadNothing(t) \/ Do!PushFails(t) \/ Do!BreakOff(t)
      PROVE  Quiet(f)'
  <2>1. UNCHANGED <<gateway, uploaded, staged, pending, indexing, indexJob>> /\ reading' = reading \ {t}
    BY <1>8 DEF Do!StopReading, Do!ReadNothing, Do!PushFails, Do!BreakOff, Do!EndReading
  <2>2. Unread'
    BY <1>q, <2>1 DEF Unread
  <2> QED BY <1>q, <1>u, <1>t, <2>1, <2>2
<1>9. CASE Do!Dispatch \/ Do!DispatchFails \/ Do!DispatchDies
  <2> DEFINE g == Head(pending)
  <2>1. /\ pending # <<>> /\ pending' = Tail(pending) /\ UNCHANGED <<gateway, reading, uploaded, staged, indexJob>>
        /\ indexing' = Append(indexing, Do!Dispatched(g)) \/ UNCHANGED indexing
    BY <1>9 DEF Do!Dispatch, Do!DispatchFails, Do!DispatchDies
  <2>2. /\ g \in Do!Files /\ g \in Do!ToSet(pending) /\ Do!ToSet(pending') \subseteq Do!ToSet(pending)
        /\ Do!Dispatched(g) \in Do!Jobs /\ Do!Dispatched(g).file = g
    BY <1>0, <2>1, MembersTail, JobsAre
  <2> HIDE DEF g
  <2>3. f \in Personal => \A t \in Tasks' : t.file # f
    <3>1. CASE UNCHANGED indexing
      BY <1>q, <2>1, <3>1 DEF Tasks
    <3>2. CASE indexing' = Append(indexing, Do!Dispatched(g))
      BY <1>a, <1>q, <2>1, <2>2, <3>2
    <3> QED BY <2>1, <3>1, <3>2
  <2>4. Idle'
    BY <1>q, <2>1, <2>2, <2>3
  <2> QED BY <1>q, <1>t, <1>r, <2>1, <2>4
<1>10. CASE Do!FlagExpires
  <2>1. UNCHANGED <<gateway, reading, uploaded, staged, pending, indexing, indexJob>>
    BY <1>10 DEF Do!FlagExpires
  <2> QED BY <1>q, <1>u, <1>t, <1>r, <2>1
<1>11. CASE Do!Take
  <2>1. /\ UNCHANGED <<gateway, reading, uploaded, staged, pending>> /\ indexing # <<>>
        /\ indexing' = Tail(indexing) /\ indexJob' = {[task |-> Head(indexing), pushed |-> 0]}
    BY <1>11 DEF Do!Take
  <2>2. Head(indexing) \in Do!ToSet(indexing) /\ Do!ToSet(indexing') \subseteq Do!ToSet(indexing)
    BY <1>0, <2>1, MembersTail
  <2>3. Tasks' \subseteq Tasks
    BY <2>1, <2>2 DEF Tasks
  <2>4. Idle'
    BY <1>q, <2>1, <2>3
  <2> QED BY <1>q, <1>t, <1>r, <2>1, <2>4
<1>12. CASE Do!CannotIndex \/ Do!Finish \/ Do!TimesOut \/ Do!IndexerDies
  <2>1. UNCHANGED <<gateway, reading, uploaded, staged, pending, indexing>> /\ indexJob' = {}
    BY <1>12 DEF Do!CannotIndex, Do!Finish, Do!TimesOut, Do!IndexerDies, Do!EndSaying
  <2>2. Tasks' \subseteq Tasks
    BY <2>1 DEF Tasks
  <2>3. Idle'
    BY <1>q, <2>1, <2>2
  <2> QED BY <1>q, <1>t, <1>r, <2>1, <2>3
<1>c. ASSUME Do!PushChunk \/ Do!Settle
      PROVE  /\ Do!Current \in IndexJobs /\ Do!Current.pushed <= Chunks
             /\ indexJob = {Do!Current} /\ indexJob' = {[Do!Current EXCEPT !.pushed = @ + 1]}
             /\ Tasks' = Tasks /\ (f \in Personal => Do!Current.task.file # f)
             /\ UNCHANGED <<reading, uploaded, pending, indexing>> /\ staged' \subseteq staged
  <2>1. /\ indexJob # {} /\ indexJob' = {[Do!Current EXCEPT !.pushed = @ + 1]}
        /\ UNCHANGED <<reading, uploaded, pending, indexing>> /\ staged' \subseteq staged
    BY <1>c DEF Do!PushChunk, Do!Settle, Do!Move
  <2>2. Do!Current \in IndexJobs /\ indexJob = {Do!Current}
    BY <2>1, CurrentIs DEF DocTypes
  <2>3. Do!Current.pushed <= Chunks
    BY <1>c, <2>2, DocConstants DEF Do!PushChunk, Do!Settle, IndexJobs
  <2>4. [Do!Current EXCEPT !.pushed = @ + 1].task = Do!Current.task
    BY <2>2, <2>3, JobFurther
  <2>5. Tasks' = Tasks
    BY <2>1, <2>2, <2>4 DEF Tasks
  <2>6. f \in Personal => Do!Current.task.file # f
    BY <1>q, <2>2 DEF Tasks
  <2> QED BY <2>1, <2>2, <2>3, <2>5, <2>6
<1>13. CASE Do!PushChunk
  <2> DEFINE r == ChunkOf(Do!Current.task.file, Do!Current.pushed + 1)
  <2>1. Do!Current.pushed < Chunks /\ gateway' = Append(gateway, r) /\ UNCHANGED staged
    BY <1>13 DEF Do!PushChunk, ChunkOf
  <2>2. Do!Current.pushed + 1 \in 1..Chunks /\ Do!Current.task.file \in Do!Files
    BY <1>c, <1>13, <2>1, DocConstants DEF IndexJobs, Do!Jobs
  <2>3. r \in Do!Requests /\ r.file = Do!Current.task.file
    BY <2>2, RequestsAre DEF ChunkOf, Do!Names
  <2>4. r.file # f
    BY <1>0, <1>c, <1>13, <2>2, <2>3
  <2> HIDE DEF r
  <2>5. Idle'
    BY <1>c, <1>q, <1>13, <2>1
  <2> QED BY <1>c, <1>q, <1>p, <1>r, <1>13, <2>1, <2>3, <2>4, <2>5
<1>14. CASE Do!Settle
  <2>1. UNCHANGED gateway
    BY <1>14 DEF Do!Settle
  <2>2. Idle'
    BY <1>c, <1>q, <1>14
  <2> QED BY <1>c, <1>q, <1>t, <1>r, <1>14, <2>1, <2>2
<1>15. CASE Do!GatewayNext \/ Do!RequestFails
  <2>1. gateway # <<>> /\ gateway' = Tail(gateway) /\ UNCHANGED <<reading, uploaded, staged, pending, indexing, indexJob>>
    BY <1>15 DEF Do!GatewayNext, Do!IndexChunk, Do!Search, Do!Erase, Do!EraseLink, Do!DeleteObject, Do!StoreDraft,
      Do!ShowFiles, Do!ShowLinks, Do!Show, Do!RequestFails
  <2> QED BY <1>q, <1>u, <1>s, <1>r, <2>1
<1>16. CASE Do!Ask \/ Do!Forget
  <2>1. UNCHANGED <<reading, uploaded, staged, pending, indexing, indexJob>>
        /\ (gateway' = Append(gateway, [kind |-> "search"]) \/ gateway' = Append(gateway, [kind |-> "forget"]))
    BY <1>16 DEF Do!Ask, Do!Forget, Do!Send
  <2>2. Calm'
    BY <1>p, <2>1, RequestsAre
  <2> QED BY <1>q, <1>u, <1>r, <2>1, <2>2
<1>17. CASE Do!SearchTimesOut \/ Do!SetNoDocs \/ Do!NoDocsExpires \/ Do!OrderTimesOut
  <2>1. UNCHANGED <<gateway, reading, uploaded, staged, pending, indexing, indexJob>>
    BY <1>17 DEF Do!SearchTimesOut, Do!SetNoDocs, Do!NoDocsExpires, Do!OrderTimesOut
  <2> QED BY <1>q, <1>u, <1>t, <1>r, <2>1
<1> QED
  BY <1>1, <1>2, <1>3, <1>4, <1>5, <1>6, <1>7, <1>8, <1>9, <1>10, <1>11, <1>12, <1>13, <1>14, <1>15, <1>16, <1>17
  DEF Do!Next, Do!Read, Do!UserNext, Do!IndexerNext

\* What is erased by a step was settled, and is out of the index.
LEMMA ErasedBefore ==
  ASSUME CloudFit, DocTypes, Do!Next, NEW f \in erased'
  PROVE  \/ f \in erased /\ ~ \E alone \in BOOLEAN : Do!Paste(f, alone)
         \/ /\ f \in Do!Settled /\ listed' = {} /\ ~ \E alone \in BOOLEAN : Do!Paste(f, alone)
            /\ \A n \in 1..Chunks : index'[f][n] = 0
<1> USE DEF Do!objects, Do!commands, Do!indexer, Do!search, Do!chat, Do!history
<1>0. /\ index \in [Do!Names -> [1..Chunks -> Nat]] /\ Do!Own \subseteq Do!Names
      /\ \A S : Do!Settled \cap S \subseteq Do!Own
  BY DEF DocTypes, SearchTypes, Do!Own, Do!Names, Do!Files, Do!Settled
<1>1. CASE Do!Erase \/ Do!EraseLink
  <2>1. PICK found : Do!Erasing(found)
    BY <1>1 DEF Do!Erase, Do!EraseLink
  <2>2. listed' = {} /\ UNCHANGED reading /\ UNCHANGED pasted
    BY <1>1 DEF Do!Erase, Do!EraseLink
  <2>p. plan.pastes \in Nat /\ pasted \in 0..plan.pastes
    BY DocConstants DEF DocTypes, StoreTypes, CommandTypes
  <2>3. ~ \E alone \in BOOLEAN : Do!Paste(f, alone)
    BY <2>2, <2>p DEF Do!Paste
  <2>4. f \in erased \/ (f \in Do!Settled /\ f \in found)
    BY <2>1 DEF Do!Erasing
  <2>5. f \in Do!Settled /\ f \in found => \A n \in 1..Chunks : index'[f][n] = 0
    <3>1. f \in Do!Settled => f \in Do!Names
      BY <1>0
    <3> QED BY <2>1, <3>1 DEF Do!Erasing
  <2> QED BY <2>2, <2>3, <2>4, <2>5
<1>2. ASSUME NEW l \in Urls, NEW alone \in BOOLEAN, Do!Paste(l, alone)
      PROVE  f \in erased /\ ~ \E b \in BOOLEAN : Do!Paste(f, b)
  <2>1. erased' = erased \ {l} /\ reading' = reading \cup {[link |-> l, alone |-> alone, pushed |-> 0]}
        /\ \A t \in reading : t.link # l
    BY <1>2 DEF Do!Paste
  <2>2. f # l
    BY <2>1
  <2>3. ASSUME NEW b \in BOOLEAN, Do!Paste(f, b) PROVE FALSE
    <3>1. reading' = reading \cup {[link |-> f, alone |-> b, pushed |-> 0]}
      BY <2>3 DEF Do!Paste
    <3>2. [link |-> l, alone |-> alone, pushed |-> 0].link # f /\ [link |-> l, alone |-> alone, pushed |-> 0].link = l
      BY <2>2
    <3>3. [link |-> l, alone |-> alone, pushed |-> 0] \in reading
      BY <2>1, <3>1, <3>2
    <3> QED BY <2>1, <3>2, <3>3
  <2> QED BY <2>1, <2>3
<1>3. ASSUME ~(Do!Erase \/ Do!EraseLink), ~ \E l \in Urls, alone \in BOOLEAN : Do!Paste(l, alone)
      PROVE  UNCHANGED erased
  <2>1. ASSUME NEW g \in Do!Files, Do!Upload(g) \/ Do!Scan(g) \/ Do!SeenExpires(g) PROVE UNCHANGED erased
    BY <2>1 DEF Do!Upload, Do!Scan, Do!Queue, Do!SeenExpires
  <2>2. ASSUME NEW o, Do!Order(o) PROVE UNCHANGED erased
    BY <2>2 DEF Do!Order
  <2>3. ASSUME NEW t \in reading, Do!Read(t) PROVE UNCHANGED erased
    BY <2>3 DEF Do!Read, Do!PushPart, Do!ClearNoDocs, Do!StopReading, Do!ReadNothing, Do!PushFails, Do!BreakOff,
      Do!EndReading
  <2>4. CASE Do!Dispatch \/ Do!DispatchFails \/ Do!DispatchDies \/ Do!FlagExpires \/ Do!Take
    BY <2>4 DEF Do!Dispatch, Do!DispatchFails, Do!DispatchDies, Do!FlagExpires, Do!Take
  <2>5. CASE Do!IndexerNext \/ Do!TimesOut \/ Do!IndexerDies
    BY <2>5 DEF Do!IndexerNext, Do!CannotIndex, Do!PushChunk, Do!Settle, Do!Finish, Do!TimesOut, Do!IndexerDies
  <2>6. CASE Do!IndexChunk \/ Do!Search \/ Do!DeleteObject \/ Do!StoreDraft \/ Do!ShowFiles \/ Do!ShowLinks
             \/ Do!RequestFails
    BY <2>6 DEF Do!IndexChunk, Do!Search, Do!DeleteObject, Do!StoreDraft, Do!ShowFiles, Do!ShowLinks, Do!Show,
      Do!RequestFails
  <2>7. CASE Do!UserNext
    BY <2>7 DEF Do!UserNext, Do!Ask, Do!SearchTimesOut, Do!SetNoDocs, Do!NoDocsExpires, Do!Forget, Do!OrderTimesOut
  <2> QED BY <1>3, <2>1, <2>2, <2>3, <2>4, <2>5, <2>6, <2>7 DEF Do!Next, Do!GatewayNext
<1>4. ASSUME NEW alone \in BOOLEAN, Do!Paste(f, alone), ~ \E l \in Urls, b \in BOOLEAN : Do!Paste(l, b)
      PROVE  f \notin erased'
  BY <1>4 DEF Do!Paste
<1> QED BY <1>1, <1>2, <1>3, <1>4

\* The index of what is quiet stays as it is, or goes.
LEMMA QuietIndex ==
  ASSUME CloudFit, DocTypes, Do!Next, NEW f \in Do!Own, Quiet(f),
         \A n \in 1..Chunks : index[f][n] = 0
  PROVE  \A n \in 1..Chunks : index'[f][n] = 0
<1>0. index \in [Do!Names -> [1..Chunks -> Nat]] /\ gateway \in Seq(Do!Requests) /\ f \in Do!Names
  BY DEF DocTypes, SearchTypes, Do!Own, Do!Names, Do!Files
<1>1. CASE UNCHANGED <<gateway, index, chunksGone>>
  BY <1>1
<1>2. ASSUME NEW r \in Do!Requests, Pushed(r) PROVE index' = index
  BY <1>2 DEF Pushed
<1>3. ASSUME NEW r \in Do!Requests, Served(r), NEW n \in 1..Chunks PROVE index'[f][n] = 0
  <2>1. r.kind = "chunk" => r.file # f
    BY <1>0, <1>3, MembersTail DEF Served, Quiet
  <2>2. CASE r.kind = "chunk" /\ index' = [index EXCEPT ![r.file][r.n] = @ + 1]
    <3>1. r.file \in Do!Names
      BY <2>2, RequestKinds
    <3> QED BY <1>0, <2>1, <2>2, <3>1
  <2>3. CASE index' = index
    BY <2>3
  <2>4. ASSUME NEW found, Do!Erasing(found) PROVE index'[f][n] = 0
    BY <1>0, <2>4 DEF Do!Erasing
  <2> QED BY <1>3, <2>2, <2>3, <2>4 DEF Served
<1> QED BY <1>1, <1>2, <1>3, GatewaySteps

\* What is listed was in the index, or in the store.
LEMMA UnlistedStays ==
  ASSUME CloudFit, DocTypes, Do!Next, NEW f \in Do!Own, Unlisted(f),
         \A n \in 1..Chunks : index[f][n] = 0
  PROVE  Unlisted(f)'
<1> USE DEF Do!objects, Do!commands, Do!indexer, Do!search, Do!chat, Do!history
<1>0. f \in Urls => f \notin documents /\ f \notin Do!Listed
  <2>1. f \in Urls => f \notin Do!Objects
    BY DocConstants DEF Do!Objects, Do!Names, Do!Files
  <2> QED BY <2>1 DEF DocTypes, StoreTypes, Do!Listed, Do!Visible
<1>1. ASSUME NEW g \in Do!Files, Do!Upload(g) \/ Do!Scan(g) \/ Do!SeenExpires(g) PROVE UNCHANGED listed
  BY <1>1 DEF Do!Upload, Do!Scan, Do!Queue, Do!SeenExpires
<1>2. ASSUME NEW o, Do!Order(o) PROVE UNCHANGED listed
  BY <1>2 DEF Do!Order
<1>3. ASSUME NEW t \in reading, Do!Read(t) PROVE UNCHANGED listed
  BY <1>3 DEF Do!Read, Do!PushPart, Do!ClearNoDocs, Do!StopReading, Do!ReadNothing, Do!PushFails, Do!BreakOff,
    Do!EndReading
<1>4. CASE Do!Dispatch \/ Do!DispatchFails \/ Do!DispatchDies \/ Do!FlagExpires \/ Do!Take
  <2>1. UNCHANGED listed
    BY <1>4 DEF Do!Dispatch, Do!DispatchFails, Do!DispatchDies, Do!FlagExpires, Do!Take
  <2> QED BY <2>1 DEF Unlisted
<1>5. CASE Do!IndexerNext \/ Do!TimesOut \/ Do!IndexerDies
  <2>1. UNCHANGED listed
    BY <1>5 DEF Do!IndexerNext, Do!CannotIndex, Do!PushChunk, Do!Settle, Do!Finish, Do!TimesOut, Do!IndexerDies
  <2> QED BY <2>1 DEF Unlisted
<1>6. CASE Do!GatewayNext \/ Do!RequestFails
  <2>1. listed' \in {listed, {}, documents, Do!Listed}
    BY <1>6 DEF Do!GatewayNext, Do!RequestFails, Do!IndexChunk, Do!Search, Do!Erase, Do!EraseLink, Do!DeleteObject,
      Do!StoreDraft, Do!ShowFiles, Do!ShowLinks, Do!Show
  <2> QED BY <1>0, <2>1 DEF Unlisted
<1>7. CASE Do!UserNext
  <2>1. UNCHANGED listed
    BY <1>7 DEF Do!UserNext, Do!Ask, Do!SearchTimesOut, Do!SetNoDocs, Do!NoDocsExpires, Do!Forget, Do!OrderTimesOut
  <2> QED BY <2>1 DEF Unlisted
<1>8. ASSUME NEW l \in Urls, NEW alone \in BOOLEAN, Do!Paste(l, alone) PROVE UNCHANGED listed
  BY <1>8 DEF Do!Paste
<1> QED BY <1>1, <1>2, <1>3, <1>4, <1>5, <1>6, <1>7, <1>8 DEF Do!Next, Unlisted

LEMMA ErasedStep == ASSUME CloudFit, DocTypes, ErasedInv, Do!Next PROVE ErasedInv'
<1>0. erased \subseteq Do!Own /\ Do!Settled \subseteq Do!Own
  BY DEF DocTypes, SearchTypes, Do!Settled, Do!Own
<1>1. StoredInv'
  BY StoredStep DEF ErasedInv
<1>2. ASSUME NEW f \in erased' PROVE Quiet(f)' /\ Unlisted(f)' /\ \A n \in 1..Chunks : index'[f][n] = 0
  <2>1. CASE f \in erased /\ ~ \E alone \in BOOLEAN : Do!Paste(f, alone)
    <3>1. Quiet(f) /\ Unlisted(f) /\ f \in Do!Own /\ \A n \in 1..Chunks : index[f][n] = 0
      BY <1>0, <2>1 DEF ErasedInv
    <3> QED BY <2>1, <3>1, QuietStays, QuietIndex, UnlistedStays DEF ErasedInv
  <2>2. CASE /\ f \in Do!Settled /\ listed' = {} /\ ~ \E alone \in BOOLEAN : Do!Paste(f, alone)
             /\ \A n \in 1..Chunks : index'[f][n] = 0
    <3>1. Quiet(f) /\ f \in Do!Own
      BY <1>0, <2>2, SettledQuiet DEF ErasedInv
    <3>2. Quiet(f)'
      BY <2>2, <3>1, QuietStays DEF ErasedInv
    <3> QED BY <2>2, <3>2 DEF Unlisted
  <2> QED BY <2>1, <2>2, ErasedBefore
<1> QED BY <1>1, <1>2 DEF ErasedInv

(***************************************************************************)
(* Documents: all of it.                                                   *)
(***************************************************************************)
DocumentsInv == DocTypes /\ DueInv /\ FlagInv /\ SearchInv /\ ErasedInv

LEMMA DocumentsInit == ASSUME CloudFit, Do!Init PROVE DocumentsInv
<1>1. DocTypes
  BY DocInitTypes
<1>2. DueInv
  BY DEF DueInv, Due, Do!Init
<1>3. FlagInv /\ SearchInv /\ ErasedInv
  BY DEF FlagInv, SearchInv, ErasedInv, StoredInv, Do!Init
<1> QED BY <1>1, <1>2, <1>3 DEF DocumentsInv

LEMMA DocumentsStep == ASSUME CloudFit, DocumentsInv, [Do!Next]_(Do!vars) PROVE DocumentsInv'
<1>1. CASE Do!Next
  BY <1>1, DocTypesStep, DueStep, FlagStep, SearchStep, ErasedStep DEF DocumentsInv
<1>2. CASE UNCHANGED Do!vars
  <2> USE <1>2 DEF Do!vars, Do!objects, Do!commands, Do!indexer, Do!search, Do!chat, Do!history, DocumentsInv
  <2>1. StoreTypes' /\ FaultTypes' /\ IndexerTypes' /\ SearchTypes' /\ CommandTypes' /\ ChatTypes'
    BY StoreStay, IndexerStay, SearchStay, CommandStay, ChatStay DEF DocTypes, FaultTypes
  <2>2. DueInv'
    BY DEF DueInv, Due, Present
  <2>3. FlagInv' /\ SearchInv'
    BY DEF FlagInv, SearchInv, QueuedAhead
  <2>4. ErasedInv'
    BY DEF ErasedInv, StoredInv, Quiet, Unlisted, Tasks
  <2> QED BY <2>1, <2>2, <2>3, <2>4 DEF DocTypes
<1> QED BY <1>1, <1>2

LEMMA DocumentsHold ==
  ASSUME CloudFit, DocumentsInv
  PROVE  Do!NoDocsIsTrue /\ Do!NoticesAreTrue /\ Do!ErasedStays /\ Do!TypeOK
<1>1. Do!TypeOK
  BY DocTypesOK DEF DocumentsInv
<1>2. Do!NoDocsIsTrue
  BY DEF DocumentsInv, SearchInv, Do!NoDocsIsTrue
<1>3. Do!NoticesAreTrue
  <2>1. \A f \in Do!Files \ chunksGone : "done" \in noticesTold[f] =>
          \A n \in 1..Chunks : index[f][n] > 0 \/ ChunkOf(f, n) \in Do!ToSet(gateway)
    BY DEF DocumentsInv, DueInv, Due, Present, Do!Names
  <2> QED BY <2>1 DEF DocumentsInv, FlagInv, Do!NoticesAreTrue, ChunkOf
<1>4. Do!ErasedStays
  BY DEF DocumentsInv, ErasedInv, Quiet, Unlisted, Do!ErasedStays
<1> QED BY <1>1, <1>2, <1>3, <1>4

=============================================================================
