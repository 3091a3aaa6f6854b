----------------------------- MODULE HostProofs -----------------------------
(***************************************************************************)
(* Messages between agents, the life of the host, the setup wizard and the *)
(* adapters the host runs: for any number of peers, replies, signals,      *)
(* settings, deaths, runs of the wizard, mishaps and channels; of texts,   *)
(* questions, closes, pairings and crashes, and a queue of any length; of  *)
(* updates, posts and failed calls.                                        *)
(***************************************************************************)
EXTENDS HostParts, AdapterParts, FiniteSetTheorems, TLAPS

(***************************************************************************)
(* Numbers: what a set of them has least and greatest.                     *)
(***************************************************************************)
\* The least number principle, from counting: if T had no least element, the numbers
\* below all of T would be finitely many and closed under successor.
LEMMA LeastNat ==
  ASSUME NEW T, T \subseteq Nat, T # {}
  PROVE  \E x \in T : \A y \in T : x <= y
<1> SUFFICES ASSUME \A x \in T : \E y \in T : y < x PROVE FALSE
  OBVIOUS
<1> DEFINE D == {n \in Nat : \A x \in T : n < x}
           f == [n \in D |-> n + 1]
<1>1. PICK t \in T : TRUE
  OBVIOUS
<1>2. 0 \in D
  OBVIOUS
<1>3. \A n \in D : n + 1 \in D
  <2> TAKE n \in D
  <2>1. n + 1 \notin T
    OBVIOUS
  <2>2. \A x \in T : n + 1 < x
    BY <2>1
  <2> QED BY <2>2
<1>4. IsFiniteSet(D)
  <2>1. D \in SUBSET (0..t)
    OBVIOUS
  <2>2. IsFiniteSet(0..t)
    BY FS_Interval
  <2> HIDE DEF D
  <2> QED BY <2>1, <2>2, FS_Subset
<1>5. f \in [D -> D \ {0}]
  BY <1>3
<1>6. \A m, n \in D : f[m] = f[n] => m = n
  OBVIOUS
<1> HIDE DEF D, f
<1>7. IsFiniteSet(D \ {0}) /\ Cardinality(D \ {0}) = Cardinality(D) - 1 /\ Cardinality(D) \in Nat
  BY <1>2, <1>4, FS_RemoveElement, FS_CardinalityType
<1>8. Cardinality(D \ {0}) < Cardinality(D)
  BY <1>7
<1>9. \E m, n \in D : m # n /\ f[m] = f[n]
  BY <1>4, <1>5, <1>7, <1>8, FS_PigeonHole
<1> QED BY <1>6, <1>9

\* A finite set of numbers has a greatest one: otherwise the next greater one would
\* number the set by a proper subset of it.
LEMMA GreatestNat ==
  ASSUME NEW T, T \subseteq Nat, T # {}, IsFiniteSet(T)
  PROVE  \E x \in T : \A y \in T : y <= x
<1> SUFFICES ASSUME \A x \in T : \E y \in T : x < y PROVE FALSE
  OBVIOUS
<1> DEFINE above(x) == {y \in T : x < y}
           next(x) == CHOOSE y \in above(x) : \A z \in above(x) : y <= z
           f == [x \in T |-> next(x)]
<1>1. PICK least \in T : \A y \in T : least <= y
  BY LeastNat
<1>2. \A x \in T : next(x) \in above(x) /\ \A z \in above(x) : next(x) <= z
  <2> TAKE x \in T
  <2>1. above(x) \subseteq Nat /\ above(x) # {}
    OBVIOUS
  <2> HIDE DEF above
  <2>2. \E y \in above(x) : \A z \in above(x) : y <= z
    BY <2>1, LeastNat
  <2> QED BY <2>2
<1>3. \A x \in T : next(x) \in T /\ x < next(x) /\ \A z \in T : x < z => next(x) <= z
  BY <1>2
<1> HIDE DEF next
<1>4. f \in [T -> T \ {least}]
  BY <1>1, <1>3
<1>5. \A x, y \in T : f[x] = f[y] => x = y
  <2>1. \A x, y \in T : x < y => next(x) < next(y)
    <3> TAKE x, y \in T
    <3> HAVE x < y
    <3>1. next(x) <= y /\ y < next(y) /\ next(x) \in Nat /\ next(y) \in Nat
      BY <1>3
    <3> QED BY <3>1
  <2>2. \A x, y \in T : x < y => f[x] < f[y]
    BY <2>1
  <2>3. \A x \in T : f[x] \in Nat
    BY <1>3
  <2> HIDE DEF f
  <2>4. \A x, y \in T : x = y \/ x < y \/ y < x
    OBVIOUS
  <2> QED BY <2>2, <2>3, <2>4
<1> HIDE DEF f
<1>6. IsFiniteSet(T \ {least}) /\ Cardinality(T \ {least}) = Cardinality(T) - 1 /\ Cardinality(T) \in Nat
  BY FS_RemoveElement, FS_CardinalityType
<1>7. Cardinality(T \ {least}) < Cardinality(T)
  BY <1>6
<1>8. \E x, y \in T : x # y /\ f[x] = f[y]
  BY <1>4, <1>6, <1>7, FS_PigeonHole
<1> QED BY <1>5, <1>8

(***************************************************************************)
(* Messages between agents.                                                *)
(***************************************************************************)
\* A reply answers a row the worker was given and names that row or a later one.
RefersAhead == \A o \in replies : o.ref # 0 => o.row <= o.ref

AgentsInv == Ar!TypeOK /\ active # {} /\ RefersAhead

LEMMA AgentsInit == ASSUME HostFit, Ar!Init PROVE AgentsInv
BY DEF HostFit, Ar!ConstantAssumption, Ar!Init, AgentsInv, Ar!TypeOK, RefersAhead

\* There is a newest active session, and the reply goes to an active one.
LEMMA NewestActive ==
  ASSUME HostFit, AgentsInv
  PROVE  /\ Ar!Newest \in active
         /\ \A o : Ar!TargetSession(o) \in active /\ Ar!TargetSession(o) \in Peers
<1>1. active \subseteq Nat /\ IsFiniteSet(active)
  <2>1. active \in SUBSET Peers
    BY DEF AgentsInv, Ar!TypeOK
  <2>2. IsFiniteSet(Peers) /\ Peers \subseteq Nat
    BY DEF HostFit, Ar!ConstantAssumption, Ar!IsFiniteSet, IsFiniteSet
  <2> QED BY <2>1, <2>2, FS_Subset
<1>2. \E p \in active : \A q \in active : q <= p
  BY <1>1, GreatestNat DEF AgentsInv
<1>3. Ar!Newest \in active
  BY <1>2 DEF Ar!Newest
<1> QED BY <1>3 DEF Ar!TargetSession, AgentsInv, Ar!TypeOK

LEMMA AgentsAsk ==
  ASSUME HostFit, AgentsInv, NEW p \in Peers, Ar!Ask(p)
  PROVE  AgentsInv'
<1>1. asked[p] + 1 \in 1..MaxAsks /\ asked' = [asked EXCEPT ![p] = asked[p] + 1]
  BY DEF HostFit, Ar!ConstantAssumption, AgentsInv, Ar!TypeOK, Ar!Ask
<1>2. asked' \in [Peers -> 0..MaxAsks] /\ asked'[p] \in 1..MaxAsks
  BY <1>1 DEF AgentsInv, Ar!TypeOK
<1>3. asks' \in SUBSET [from : Peers, n : 1..MaxAsks]
  BY <1>2 DEF AgentsInv, Ar!TypeOK, Ar!Ask
<1> QED BY <1>2, <1>3 DEF AgentsInv, Ar!TypeOK, RefersAhead, Ar!Ask, Ar!workerVars, Ar!history

LEMMA AgentsClose ==
  ASSUME HostFit, AgentsInv, NEW p \in Peers, Ar!Close(p)
  PROVE  AgentsInv'
<1>1. active \ {p} # {}
  <2> SUFFICES ASSUME active \ {p} = {} PROVE FALSE
    OBVIOUS
  <2>1. active = {p}
    BY DEF Ar!Close
  <2>2. Cardinality({p}) = 1
    BY FS_Singleton
  <2>3. Ar!Cardinality({p}) = Cardinality({p})
    BY DEF Ar!Cardinality, Cardinality
  <2>4. Ar!Cardinality(active) > 1
    BY DEF Ar!Close
  <2> QED BY <2>1, <2>2, <2>3, <2>4
<1> QED BY <1>1 DEF AgentsInv, Ar!TypeOK, RefersAhead, Ar!Close, Ar!workerVars, Ar!history

LEMMA AgentsTakeRows ==
  ASSUME AgentsInv, Ar!TakeRows
  PROVE  AgentsInv'
<1>1. inbox \in Seq(Peers) /\ taken \in 0..Len(inbox) /\ batch \in SUBSET (1..taken)
  BY DEF AgentsInv, Ar!TypeOK
<1>2. /\ taken' \in Nat /\ taken' <= Len(inbox) /\ batch' \in SUBSET (1..taken')
      /\ UNCHANGED <<active, granted, inbox, asks, replies, asked, said, landed, copies, crashes>>
  <2>1. /\ taken' = Len(inbox) /\ batch' = batch \cup ((taken + 1)..Len(inbox))
        /\ UNCHANGED <<active, granted, inbox, asks, replies, asked, said, landed, copies, crashes>>
    BY DEF Ar!TakeRows, Ar!history
  <2>2. Len(inbox) \in Nat
    BY <1>1
  <2>3. \A b \in batch' : b \in 1..Len(inbox)
    <3> TAKE b \in batch'
    <3>1. CASE b \in batch
      BY <1>1, <2>2, <3>1
    <3>2. CASE b \in (taken + 1)..Len(inbox)
      BY <1>1, <2>2, <3>2
    <3> QED BY <2>1, <3>1, <3>2
  <2> QED BY <2>1, <2>2, <2>3
<1> QED BY <1>2 DEF AgentsInv, Ar!TypeOK, RefersAhead

LEMMA AgentsReply ==
  ASSUME HostFit, AgentsInv, NEW i \in batch, Ar!SendMessage(i) \/ Ar!FinalText(i)
  PROVE  AgentsInv'
<1>1. PICK ref \in {0, Len(inbox)} : Ar!Reply(i, ref)
  BY DEF Ar!SendMessage, Ar!FinalText
<1>2. inbox \in Seq(Peers) /\ taken \in 0..Len(inbox) /\ i \in 1..Len(inbox) /\ said \in 0..MaxReplies
  BY DEF AgentsInv, Ar!TypeOK
<1>3. ref \in Nat /\ ref <= Len(inbox) /\ (ref # 0 => i <= ref)
  BY <1>1, <1>2
<1> DEFINE o == [id |-> said + 1, ref |-> ref, row |-> i]
<1>4. o \in Ar!Replies /\ said' \in 0..MaxReplies
  BY <1>1, <1>2, <1>3 DEF Ar!Reply, Ar!Replies, HostFit, Ar!ConstantAssumption
<1>5. replies' = replies \cup {o}
  BY <1>1 DEF Ar!Reply
<1>6. o.row = i /\ o.ref = ref
  OBVIOUS
<1> HIDE DEF o
<1> QED BY <1>1, <1>2, <1>3, <1>4, <1>5, <1>6 DEF AgentsInv, Ar!TypeOK, RefersAhead, Ar!Reply, Ar!history

LEMMA AgentsQueryEnds ==
  ASSUME AgentsInv, Ar!QueryEnds
  PROVE  AgentsInv'
BY DEF AgentsInv, Ar!TypeOK, RefersAhead, Ar!QueryEnds, Ar!history

LEMMA AgentsRouteAsk ==
  ASSUME AgentsInv, NEW m \in asks, NEW crash \in BOOLEAN, Ar!RouteAsk(m, crash)
  PROVE  AgentsInv'
<1>1. m.from \in Peers /\ inbox \in Seq(Peers)
  BY DEF AgentsInv, Ar!TypeOK
<1>2. inbox' \in Seq(Peers) /\ Len(inbox') = Len(inbox) + 1 /\ Len(inbox) \in Nat
  BY <1>1 DEF Ar!RouteAsk
<1>3. asks' \in SUBSET asks /\ crashes' \in Nat
  BY DEF AgentsInv, Ar!TypeOK, Ar!RouteAsk, Ar!Marked
<1>4. UNCHANGED <<active, granted, taken, batch, replies, asked, said, landed, copies>>
  BY DEF Ar!RouteAsk
<1>5. \A r \in replies : r.row \in 1..Len(inbox') /\ r.ref <= Len(inbox')
  BY <1>2 DEF AgentsInv, Ar!TypeOK, Ar!Replies
<1>6. taken' \in Nat /\ taken' <= Len(inbox') /\ batch' \in SUBSET (1..taken') /\ RefersAhead' /\ active' # {}
  BY <1>2, <1>4 DEF AgentsInv, Ar!TypeOK, RefersAhead
<1>7. asks' \in SUBSET [from : Peers, n : 1..MaxAsks] /\ replies' \in SUBSET Ar!Replies
  BY <1>3, <1>4 DEF AgentsInv, Ar!TypeOK
<1>8. /\ active' \in SUBSET Peers /\ granted' \in BOOLEAN /\ asked' \in [Peers -> 0..MaxAsks]
      /\ said' \in 0..MaxReplies /\ landed' \in SUBSET [reply : Ar!Replies, at : Peers] /\ copies' \in Nat
  BY <1>4 DEF AgentsInv, Ar!TypeOK
<1> QED BY <1>2, <1>3, <1>4, <1>5, <1>6, <1>7, <1>8 DEF AgentsInv, Ar!TypeOK

LEMMA AgentsRouteReply ==
  ASSUME HostFit, AgentsInv, NEW o \in replies, NEW crash \in BOOLEAN, Ar!RouteReply(o, crash)
  PROVE  AgentsInv'
<1>1. landed' \in SUBSET [reply : Ar!Replies, at : Peers]
  BY NewestActive DEF AgentsInv, Ar!TypeOK, Ar!RouteReply
<1>2. replies' \in SUBSET replies /\ crashes' \in Nat /\ copies' \in Nat
  BY DEF AgentsInv, Ar!TypeOK, Ar!RouteReply, Ar!Marked
<1>3. UNCHANGED <<active, granted, inbox, taken, batch, asks, asked, said>>
  BY DEF Ar!RouteReply
<1> QED BY <1>1, <1>2, <1>3 DEF AgentsInv, Ar!TypeOK, RefersAhead

LEMMA AgentsStep ==
  ASSUME HostFit, AgentsInv, [Ar!Next]_(Ar!vars)
  PROVE  AgentsInv'
<1>1. ASSUME NEW o \in replies, Ar!GiveUp(o) PROVE AgentsInv'
  BY <1>1 DEF AgentsInv, Ar!TypeOK, RefersAhead, Ar!GiveUp, Ar!history
<1>2. ASSUME Ar!Revoke PROVE AgentsInv'
  BY <1>2 DEF AgentsInv, Ar!TypeOK, RefersAhead, Ar!Revoke, Ar!history, Ar!workerVars
<1>3. CASE UNCHANGED Ar!vars
  BY <1>3 DEF AgentsInv, Ar!TypeOK, RefersAhead, Ar!vars
<1> QED BY <1>1, <1>2, <1>3, AgentsAsk, AgentsClose, AgentsTakeRows, AgentsReply, AgentsQueryEnds,
  AgentsRouteAsk, AgentsRouteReply DEF Ar!Next

\* Where a reply may go: to an active session, and to another one than it is for only
\* if that one is closed or a newer row is of another session.
LEMMA AgentsStray ==
  ASSUME HostFit, AgentsInv, Ar!Next, copies' # copies, NEW d \in landed'
  PROVE  /\ d.at \in active
         /\ \/ d.at = Ar!For(d) \/ Ar!For(d) \notin active
            \/ \E j \in (d.reply.row + 1)..(IF d.reply.ref = 0 THEN Len(inbox) ELSE d.reply.ref) :
                 inbox[j] # Ar!For(d)
<1>1. PICK o \in replies, crash \in BOOLEAN : Ar!RouteReply(o, crash)
  <2>1. \E o \in replies, crash \in BOOLEAN : Ar!RouteReply(o, crash)
    BY DEF Ar!Next, Ar!Ask, Ar!Close, Ar!TakeRows, Ar!SendMessage, Ar!FinalText, Ar!Reply, Ar!QueryEnds,
      Ar!RouteAsk, Ar!GiveUp, Ar!Revoke, Ar!history
  <2> QED BY <2>1
<1>2. d.reply = o /\ d.at = Ar!TargetSession(o)
  BY <1>1 DEF Ar!RouteReply
<1>3. d.at \in active
  BY <1>2, NewestActive
<1>4. inbox \in Seq(Peers) /\ o.row \in 1..Len(inbox) /\ o.ref \in 0..Len(inbox) /\ (o.ref # 0 => o.row <= o.ref)
  BY DEF AgentsInv, Ar!TypeOK, Ar!Replies, RefersAhead
<1> DEFINE newest == IF o.ref = 0 THEN Len(inbox) ELSE o.ref
<1>5. newest \in 1..Len(inbox) /\ o.row <= newest
  BY <1>4
<1>6. Ar!Origin(o) = inbox[newest]
  <2>1. inbox # <<>> /\ Ar!Last(inbox) = inbox[Len(inbox)]
    BY <1>4 DEF Ar!Last
  <2> QED BY <2>1 DEF Ar!Origin, Ar!PeerAffinity
<1>7. Ar!For(d) = inbox[o.row]
  BY <1>2 DEF Ar!For
<1>8. CASE inbox[newest] = inbox[o.row]
  BY <1>2, <1>6, <1>7, <1>8, <1>3 DEF Ar!TargetSession
<1>9. CASE inbox[newest] # inbox[o.row]
  <2>1. newest \in (o.row + 1)..newest
    <3>1. newest # o.row
      BY <1>9
    <3> QED BY <3>1, <1>4, <1>5
  <2> HIDE DEF newest
  <2>2. \E j \in (o.row + 1)..newest : inbox[j] # inbox[o.row]
    BY <2>1, <1>9
  <2> USE DEF newest
  <2> QED BY <1>2, <1>3, <1>7, <2>2
<1> QED BY <1>8, <1>9

(***************************************************************************)
(* The life of the host.                                                   *)
(***************************************************************************)
LifeType == [cloud : BOOLEAN, adapters : SUBSET Ho!Adapters, changes : Nat, signals : Nat,
             starts : Nat, begun : Nat]
BreakerType == [marker : BOOLEAN, attempt : Nat, recent : BOOLEAN]
AdapterType == [at : {"none", "setup", "absent", "active"}, errors : 0..SetupRetries]
StopType == [at : Ho!Stages, done : SUBSET Ho!Adapters]
Entries == [Keys -> SettingValues \cup {"none"}]
SettingsType == [table : Entries, env : Entries, exported : Entries, told : Entries,
                 restored : BOOLEAN, changes : Nat]

LifeTypes == /\ life \in LifeType /\ life.begun <= life.starts /\ phase \in Ho!Phases
             /\ services \in {"none", "up"} /\ cli \in {"off", "up", "held", "closing"}
             /\ restart \in {"none", "timer", "sent"} /\ unclean \in Nat /\ marked \in BOOLEAN
BreakerTypes == breaker \in BreakerType /\ breaker.attempt <= life.begun
AdapterTypes == adapter \in [Ho!Adapters -> AdapterType]
StopTypes == stop \in [Signals -> StopType]
SettingsTypes == settings \in SettingsType

\* The counter file counts the deaths of which it was not told.
Counted ==
  IF marked THEN breaker.marker
  ELSE /\ ~breaker.marker
       /\ breaker.attempt = IF phase = "down" THEN unclean ELSE unclean + 1

\* What cannot be said of a shutdown unless another one is at the adapters.
AtEnd == \E s \in Signals : stop[s].at = "teardown"
Overtaken ==
  /\ \A s \in Signals : stop[s].at = "cloud" => services = "up" \/ AtEnd
  /\ \A s \in Signals : stop[s].at = "lost" => AtEnd
  /\ life.cloud /\ services = "none" /\ phase \in {"opening", "adapters", "running"} => AtEnd

\* What a process that has not come so far has not begun.
Unbegun ==
  /\ phase = "down" => restart = "none" /\ \A s \in Signals : stop[s].at = "none"
  /\ phase \in {"down", "backoff", "starting"} => services = "none"
  /\ phase # "running" => cli = "off" /\ \A s \in Signals : stop[s].at # "closing"
  /\ \A s \in Signals : stop[s].at = "closing" => cli \in {"off", "closing"}

Promised == restart = "sent" => \E s \in Signals : stop[s].at # "none"

\* What the admin was told of a setting is in the table, and an import left every exported
\* setting at its exported value.
Told ==
  /\ \A k \in Keys : settings.told[k] # "none" => settings.table[k] = settings.told[k]
  /\ settings.restored => \A k \in Keys : settings.exported[k] # "none" =>
       Ho!ResolveSettingValue(settings.table, k) = settings.exported[k]

HostTypes == LifeTypes /\ BreakerTypes /\ AdapterTypes /\ StopTypes /\ SettingsTypes
HostInv == HostTypes /\ Counted /\ Overtaken /\ Unbegun /\ Promised /\ Told

LEMMA StayLifeTypes == ASSUME LifeTypes, UNCHANGED <<life, phase, services, cli, restart, unclean, marked>> PROVE LifeTypes'
BY DEF LifeTypes

LEMMA StayBreakerTypes == ASSUME BreakerTypes, UNCHANGED <<breaker, life>> PROVE BreakerTypes'
BY DEF BreakerTypes

LEMMA StayAdapterTypes == ASSUME AdapterTypes, UNCHANGED <<adapter>> PROVE AdapterTypes'
BY DEF AdapterTypes

LEMMA StayStopTypes == ASSUME StopTypes, UNCHANGED <<stop>> PROVE StopTypes'
BY DEF StopTypes

LEMMA StaySettingsTypes == ASSUME SettingsTypes, UNCHANGED <<settings>> PROVE SettingsTypes'
BY DEF SettingsTypes

LEMMA StayCounted == ASSUME Counted, UNCHANGED <<breaker, phase, unclean, marked>> PROVE Counted'
BY DEF Counted

LEMMA StayOvertaken == ASSUME Overtaken, UNCHANGED <<stop, services, life, phase>> PROVE Overtaken'
BY DEF Overtaken, AtEnd

LEMMA StayUnbegun == ASSUME Unbegun, UNCHANGED <<phase, restart, stop, services, cli>> PROVE Unbegun'
BY DEF Unbegun

LEMMA StayPromised == ASSUME Promised, UNCHANGED <<restart, stop>> PROVE Promised'
BY DEF Promised

LEMMA StayTold == ASSUME Told, UNCHANGED <<settings>> PROVE Told'
BY DEF Told, Ho!ResolveSettingValue

LEMMA SaveFields ==
  ASSUME SettingsTypes, NEW body \in Ho!Bodies
  PROVE  Ho!Save(body) =
           [table |-> Ho!Updated(settings.table, body), env |-> settings.env,
            exported |-> settings.exported,
            told |-> [k \in Keys |-> IF body[k] \in SettingValues THEN body[k] ELSE settings.told[k]],
            restored |-> FALSE, changes |-> settings.changes + 1]
<1> DEFINE tableOf == Ho!Updated(settings.table, body)
           toldOf == [k \in Keys |-> IF body[k] \in SettingValues THEN body[k] ELSE settings.told[k]]
<1>1. Ho!Save(body) = [settings EXCEPT !.changes = settings.changes + 1, !.table = tableOf,
                                        !.restored = FALSE, !.told = toldOf]
  BY DEF Ho!Save
<1> HIDE DEF tableOf, toldOf
<1>2. Ho!Save(body) = [table |-> tableOf, env |-> settings.env, exported |-> settings.exported,
                       told |-> toldOf, restored |-> FALSE, changes |-> settings.changes + 1]
  BY <1>1 DEF SettingsTypes, SettingsType
<1> QED BY <1>2 DEF tableOf, toldOf

LEMMA SaveTypes ==
  ASSUME SettingsTypes, NEW body \in Ho!Bodies, settings' = Ho!Save(body)
  PROVE  SettingsTypes'
<1> DEFINE tableOf == Ho!Updated(settings.table, body)
           toldOf == [k \in Keys |-> IF body[k] \in SettingValues THEN body[k] ELSE settings.told[k]]
<1>1. tableOf \in Entries
  BY DEF Ho!Updated, Entries, SettingsTypes, SettingsType
<1>2. toldOf \in Entries
  BY DEF Entries, SettingsTypes, SettingsType
<1>3. settings.changes + 1 \in Nat /\ settings.env \in Entries /\ settings.exported \in Entries
  BY DEF SettingsTypes, SettingsType
<1>4. settings' = [table |-> tableOf, env |-> settings.env, exported |-> settings.exported, told |-> toldOf,
                   restored |-> FALSE, changes |-> settings.changes + 1]
  BY SaveFields
<1> HIDE DEF tableOf, toldOf
<1> QED BY <1>1, <1>2, <1>3, <1>4 DEF SettingsTypes, SettingsType

LEMMA SaveTells ==
  ASSUME SettingsTypes, Told, NEW body \in Ho!Bodies, settings' = Ho!Save(body)
  PROVE  Told'
<1>1. settings'.restored = FALSE /\ settings'.table = Ho!Updated(settings.table, body)
      /\ settings'.told = [k \in Keys |-> IF body[k] \in SettingValues THEN body[k] ELSE settings.told[k]]
  BY SaveFields
<1>2. \A k \in Keys : settings'.told[k] # "none" => settings'.table[k] = settings'.told[k]
  BY <1>1 DEF Told, Ho!Updated
<1> QED BY <1>1, <1>2 DEF Told

\* What an import makes of a table, or of what was told.
Imported(entries) ==
  [k \in Keys |-> IF /\ settings.exported[k] # "none"
                     /\ ~Ho!Skipped(settings.table, k, settings.exported[k])
                  THEN settings.exported[k] ELSE entries[k]]

LEMMA ImportFields ==
  ASSUME SettingsTypes, Ho!ImportSettings
  PROVE  settings' = [table |-> Imported(settings.table), env |-> settings.env,
                      exported |-> settings.exported, told |-> Imported(settings.told),
                      restored |-> TRUE, changes |-> settings.changes + 1]
<1> DEFINE applied == {k \in {j \in Keys : settings.exported[j] # "none"} :
                         ~Ho!Skipped(settings.table, k, settings.exported[k])}
           made(entries) == [k \in Keys |-> IF k \in applied THEN settings.exported[k] ELSE entries[k]]
<1>1. settings' = [settings EXCEPT !.changes = settings.changes + 1, !.restored = TRUE,
                     !.table = made(settings.table), !.told = made(settings.told)]
  BY DEF Ho!ImportSettings
<1>2. made(settings.table) = Imported(settings.table) /\ made(settings.told) = Imported(settings.told)
  BY DEF Imported
<1> HIDE DEF made
<1> QED BY <1>1, <1>2 DEF SettingsTypes, SettingsType

LEMMA ImportTypes == ASSUME SettingsTypes, Ho!ImportSettings PROVE SettingsTypes'
<1>1. settings.table \in Entries /\ settings.told \in Entries /\ settings.env \in Entries
      /\ settings.exported \in Entries /\ settings.changes + 1 \in Nat
  BY DEF SettingsTypes, SettingsType
<1>2. \A e \in Entries : Imported(e) \in Entries
  BY <1>1 DEF Imported, Entries
<1> DEFINE tableOf == Imported(settings.table)
           toldOf == Imported(settings.told)
<1>3. tableOf \in Entries /\ toldOf \in Entries
  BY <1>1, <1>2
<1>4. settings' = [table |-> tableOf, env |-> settings.env, exported |-> settings.exported, told |-> toldOf,
                   restored |-> TRUE, changes |-> settings.changes + 1]
  BY ImportFields
<1> HIDE DEF tableOf, toldOf
<1> QED BY <1>1, <1>3, <1>4 DEF SettingsTypes, SettingsType

LEMMA ImportTells == ASSUME SettingsTypes, Told, Ho!ImportSettings PROVE Told'
<1>1. /\ settings'.table = Imported(settings.table) /\ settings'.told = Imported(settings.told)
      /\ settings'.exported = settings.exported /\ settings'.env = settings.env
  BY ImportFields
<1>2. \A k \in Keys : settings'.told[k] # "none" => settings'.table[k] = settings'.told[k]
  BY <1>1 DEF Told, Imported
<1>3. ASSUME NEW k \in Keys, settings'.exported[k] # "none"
      PROVE  Ho!ResolveSettingValue(settings.table, k)' = settings'.exported[k]
  <2>1. CASE Ho!Skipped(settings.table, k, settings.exported[k])
    <3>1. settings'.table[k] = settings.table[k]
      BY <1>1, <2>1 DEF Imported
    <3>2. Ho!ResolveSettingValue(settings.table, k) = settings.exported[k]
      BY <2>1 DEF Ho!Skipped
    <3> QED BY <1>1, <3>1, <3>2 DEF Ho!ResolveSettingValue, Ho!Default
  <2>2. CASE ~Ho!Skipped(settings.table, k, settings.exported[k])
    <3>1. settings'.table[k] = settings.exported[k]
      BY <1>1, <1>3, <2>2 DEF Imported
    <3> QED BY <1>1, <1>3, <3>1 DEF Ho!ResolveSettingValue
  <2> QED BY <2>1, <2>2
<1> QED BY <1>2, <1>3 DEF Told

LEMMA ResetTypes == ASSUME LifeTypes, BreakerTypes, life' = life, Ho!Reset PROVE BreakerTypes'
<1>1. breaker' = [marker |-> TRUE, attempt |-> 0, recent |-> breaker.recent]
  BY DEF Ho!Reset, BreakerTypes, BreakerType
<1> QED BY <1>1 DEF BreakerTypes, BreakerType, LifeTypes, LifeType

LEMMA HostStart == ASSUME HostFit, HostInv, Ho!Start PROVE HostInv'
<1> HostTypes /\ Counted /\ Overtaken /\ Unbegun /\ Promised /\ Told
  BY DEF HostInv
<1> LifeTypes /\ BreakerTypes /\ AdapterTypes /\ StopTypes /\ SettingsTypes
  BY DEF HostTypes
<1>u. UNCHANGED <<adapter, stop, services, cli, restart, settings>>
  BY DEF Ho!Start
<1>1. LifeTypes'
  <2>1. life' \in LifeType /\ life'.begun <= life'.starts
    BY DEF LifeTypes, LifeType, Ho!Start
  <2>2. phase' \in Ho!Phases /\ unclean' \in Nat /\ marked' \in BOOLEAN
    BY DEF LifeTypes, Ho!Start, Ho!Phases
  <2> QED BY <1>u, <2>1, <2>2 DEF LifeTypes
<1>2. BreakerTypes'
  BY <1>u DEF BreakerTypes, Ho!Start, Ho!Attempt, BreakerType, LifeTypes, LifeType
<1>3. AdapterTypes'
  BY <1>u, StayAdapterTypes
<1>4. StopTypes'
  BY <1>u, StayStopTypes
<1>5. SettingsTypes'
  BY <1>u, StaySettingsTypes
<1>6. Counted'
  <2>1. breaker' = Ho!Attempt /\ marked' = FALSE /\ phase' # "down" /\ phase = "down"
        /\ unclean' = IF marked \/ ~breaker.recent THEN 0 ELSE unclean
    BY DEF Ho!Start, Ho!Running
  <2>2. unclean \in Nat /\ breaker \in BreakerType
    BY DEF LifeTypes, BreakerTypes
  <2>3. Ho!Attempt.marker = FALSE
    BY DEF Ho!Attempt
  <2>4. Ho!Attempt.attempt = unclean' + 1
    BY <2>1, <2>2 DEF Counted, Ho!Attempt, BreakerType
  <2> QED BY <2>1, <2>3, <2>4 DEF Counted
<1>7. Overtaken'
  BY <1>u DEF Overtaken, Ho!Start, AtEnd, StopTypes, StopType, LifeTypes
<1>8. Unbegun'
  BY <1>u DEF Unbegun, Ho!Start, Ho!Running
<1>9. Promised'
  BY <1>u, StayPromised
<1>10. Told'
  BY <1>u, StayTold
<1> QED BY <1>1, <1>2, <1>3, <1>4, <1>5, <1>6, <1>7, <1>8, <1>9, <1>10 DEF HostInv, HostTypes

LEMMA HostWaited == ASSUME HostFit, HostInv, Ho!Waited PROVE HostInv'
<1> HostTypes /\ Counted /\ Overtaken /\ Unbegun /\ Promised /\ Told
  BY DEF HostInv
<1> LifeTypes /\ BreakerTypes /\ AdapterTypes /\ StopTypes /\ SettingsTypes
  BY DEF HostTypes
<1>u. UNCHANGED <<life, breaker, adapter, stop, services, cli, restart, settings, unclean, marked>>
  BY DEF Ho!Waited
<1>1. LifeTypes'
  BY <1>u DEF LifeTypes, Ho!Waited, LifeType, Ho!Phases
<1>2. BreakerTypes'
  BY <1>u, StayBreakerTypes
<1>3. AdapterTypes'
  BY <1>u, StayAdapterTypes
<1>4. StopTypes'
  BY <1>u, StayStopTypes
<1>5. SettingsTypes'
  BY <1>u, StaySettingsTypes
<1>6. Counted'
  BY <1>u DEF Counted, Ho!Waited, LifeTypes, BreakerTypes, BreakerType, LifeType
<1>7. Overtaken'
  BY <1>u DEF Overtaken, Ho!Waited, AtEnd, StopTypes, StopType, LifeTypes
<1>8. Unbegun'
  BY <1>u DEF Unbegun, Ho!Waited, StopTypes, StopType, LifeTypes
<1>9. Promised'
  BY <1>u, StayPromised
<1>10. Told'
  BY <1>u, StayTold
<1> QED BY <1>1, <1>2, <1>3, <1>4, <1>5, <1>6, <1>7, <1>8, <1>9, <1>10 DEF HostInv, HostTypes

LEMMA HostHour == ASSUME HostFit, HostInv, Ho!Hour PROVE HostInv'
<1> HostTypes /\ Counted /\ Overtaken /\ Unbegun /\ Promised /\ Told
  BY DEF HostInv
<1> LifeTypes /\ BreakerTypes /\ AdapterTypes /\ StopTypes /\ SettingsTypes
  BY DEF HostTypes
<1>u. UNCHANGED <<life, phase, adapter, stop, services, cli, restart, settings, unclean, marked>>
  BY DEF Ho!Hour
<1>1. LifeTypes'
  BY <1>u, StayLifeTypes
<1>2. BreakerTypes'
  BY <1>u DEF BreakerTypes, Ho!Hour, BreakerType, LifeTypes, LifeType
<1>3. AdapterTypes'
  BY <1>u, StayAdapterTypes
<1>4. StopTypes'
  BY <1>u, StayStopTypes
<1>5. SettingsTypes'
  BY <1>u, StaySettingsTypes
<1>6. Counted'
  BY <1>u DEF Counted, Ho!Hour, LifeTypes, BreakerTypes, BreakerType, LifeType
<1>7. Overtaken'
  BY <1>u, StayOvertaken
<1>8. Unbegun'
  BY <1>u, StayUnbegun
<1>9. Promised'
  BY <1>u, StayPromised
<1>10. Told'
  BY <1>u, StayTold
<1> QED BY <1>1, <1>2, <1>3, <1>4, <1>5, <1>6, <1>7, <1>8, <1>9, <1>10 DEF HostInv, HostTypes

LEMMA HostDies == ASSUME HostFit, HostInv, Ho!Dies PROVE HostInv'
<1> HostTypes /\ Counted /\ Overtaken /\ Unbegun /\ Promised /\ Told
  BY DEF HostInv
<1> LifeTypes /\ BreakerTypes /\ AdapterTypes /\ StopTypes /\ SettingsTypes
  BY DEF HostTypes
<1>u. UNCHANGED <<life, breaker, settings, marked>>
  BY DEF Ho!Dies, Ho!Ends
<1>1. LifeTypes'
  BY <1>u DEF LifeTypes, Ho!Dies, Ho!Ends, LifeType, Ho!Phases
<1>2. BreakerTypes'
  BY <1>u, StayBreakerTypes
<1>3. AdapterTypes'
  <2>1. 0 \in 0..SetupRetries
    BY DEF HostFit, Ho!ConstantAssumption
  <2> QED BY <2>1 DEF AdapterTypes, AdapterType, Ho!Dies, Ho!Ends
<1>4. StopTypes'
  BY <1>u DEF StopTypes, Ho!Dies, Ho!Ends, StopType, Ho!Stages
<1>5. SettingsTypes'
  BY <1>u, StaySettingsTypes
<1>6. Counted'
  BY <1>u DEF Counted, Ho!Dies, Ho!Ends, Ho!Running, LifeTypes, BreakerTypes, BreakerType
<1>7. Overtaken'
  BY <1>u DEF Overtaken, Ho!Dies, Ho!Ends, AtEnd, StopTypes, StopType, LifeTypes
<1>8. Unbegun'
  BY <1>u DEF Unbegun, Ho!Dies, Ho!Ends, StopTypes, StopType, LifeTypes
<1>9. Promised'
  BY <1>u DEF Promised, Ho!Dies, Ho!Ends, StopTypes, StopType
<1>10. Told'
  BY <1>u, StayTold
<1> QED BY <1>1, <1>2, <1>3, <1>4, <1>5, <1>6, <1>7, <1>8, <1>9, <1>10 DEF HostInv, HostTypes

LEMMA HostBoot == ASSUME HostFit, HostInv, Ho!BootstrapCloudServices PROVE HostInv'
<1> HostTypes /\ Counted /\ Overtaken /\ Unbegun /\ Promised /\ Told
  BY DEF HostInv
<1> LifeTypes /\ BreakerTypes /\ AdapterTypes /\ StopTypes /\ SettingsTypes
  BY DEF HostTypes
<1>u. UNCHANGED <<life, breaker, adapter, stop, cli, restart, settings, unclean, marked>>
  BY DEF Ho!BootstrapCloudServices
<1>1. LifeTypes'
  BY <1>u DEF LifeTypes, Ho!BootstrapCloudServices, LifeType, Ho!Phases
<1>2. BreakerTypes'
  BY <1>u, StayBreakerTypes
<1>3. AdapterTypes'
  BY <1>u, StayAdapterTypes
<1>4. StopTypes'
  BY <1>u, StayStopTypes
<1>5. SettingsTypes'
  BY <1>u, StaySettingsTypes
<1>6. Counted'
  BY <1>u DEF Counted, Ho!BootstrapCloudServices, LifeTypes, BreakerTypes, BreakerType, LifeType
<1>7. Overtaken'
  BY <1>u DEF Overtaken, Ho!BootstrapCloudServices, AtEnd, Unbegun, LifeTypes
<1>8. Unbegun'
  BY <1>u DEF Unbegun, Ho!BootstrapCloudServices, StopTypes, StopType, LifeTypes
<1>9. Promised'
  BY <1>u, StayPromised
<1>10. Told'
  BY <1>u, StayTold
<1> QED BY <1>1, <1>2, <1>3, <1>4, <1>5, <1>6, <1>7, <1>8, <1>9, <1>10 DEF HostInv, HostTypes

LEMMA HostInitDb == ASSUME HostFit, HostInv, Ho!InitDb PROVE HostInv'
<1> HostTypes /\ Counted /\ Overtaken /\ Unbegun /\ Promised /\ Told
  BY DEF HostInv
<1> LifeTypes /\ BreakerTypes /\ AdapterTypes /\ StopTypes /\ SettingsTypes
  BY DEF HostTypes
<1>u. UNCHANGED <<life, breaker, adapter, stop, services, cli, restart, settings, unclean, marked>>
  BY DEF Ho!InitDb
<1>1. LifeTypes'
  BY <1>u DEF LifeTypes, Ho!InitDb, LifeType, Ho!Phases
<1>2. BreakerTypes'
  BY <1>u, StayBreakerTypes
<1>3. AdapterTypes'
  BY <1>u, StayAdapterTypes
<1>4. StopTypes'
  BY <1>u, StayStopTypes
<1>5. SettingsTypes'
  BY <1>u, StaySettingsTypes
<1>6. Counted'
  BY <1>u DEF Counted, Ho!InitDb, LifeTypes, BreakerTypes, BreakerType, LifeType
<1>7. Overtaken'
  BY <1>u DEF Overtaken, Ho!InitDb, AtEnd, StopTypes, StopType, LifeTypes
<1>8. Unbegun'
  BY <1>u DEF Unbegun, Ho!InitDb, StopTypes, StopType, LifeTypes
<1>9. Promised'
  BY <1>u, StayPromised
<1>10. Told'
  BY <1>u, StayTold
<1> QED BY <1>1, <1>2, <1>3, <1>4, <1>5, <1>6, <1>7, <1>8, <1>9, <1>10 DEF HostInv, HostTypes

LEMMA HostFactory == ASSUME HostFit, HostInv, NEW a \in Ho!Adapters, Ho!Factory(a) PROVE HostInv'
<1> HostTypes /\ Counted /\ Overtaken /\ Unbegun /\ Promised /\ Told
  BY DEF HostInv
<1> LifeTypes /\ BreakerTypes /\ AdapterTypes /\ StopTypes /\ SettingsTypes
  BY DEF HostTypes
<1>u. UNCHANGED <<life, phase, breaker, stop, services, cli, restart, settings, unclean, marked>>
  BY DEF Ho!Factory, Ho!AtAdapter
<1>1. LifeTypes'
  BY <1>u, StayLifeTypes
<1>2. BreakerTypes'
  BY <1>u, StayBreakerTypes
<1>3. AdapterTypes'
  BY <1>u DEF AdapterTypes, Ho!Factory, Ho!AtAdapter, AdapterType
<1>4. StopTypes'
  BY <1>u, StayStopTypes
<1>5. SettingsTypes'
  BY <1>u, StaySettingsTypes
<1>6. Counted'
  BY <1>u, StayCounted
<1>7. Overtaken'
  BY <1>u, StayOvertaken
<1>8. Unbegun'
  BY <1>u, StayUnbegun
<1>9. Promised'
  BY <1>u, StayPromised
<1>10. Told'
  BY <1>u, StayTold
<1> QED BY <1>1, <1>2, <1>3, <1>4, <1>5, <1>6, <1>7, <1>8, <1>9, <1>10 DEF HostInv, HostTypes

LEMMA HostSetUp == ASSUME HostFit, HostInv, NEW a \in Ho!Adapters, Ho!SetUp(a) PROVE HostInv'
<1> HostTypes /\ Counted /\ Overtaken /\ Unbegun /\ Promised /\ Told
  BY DEF HostInv
<1> LifeTypes /\ BreakerTypes /\ AdapterTypes /\ StopTypes /\ SettingsTypes
  BY DEF HostTypes
<1>u. UNCHANGED <<life, phase, breaker, stop, services, cli, restart, settings, unclean, marked>>
  BY DEF Ho!SetUp, Ho!AtAdapter
<1>1. LifeTypes'
  BY <1>u, StayLifeTypes
<1>2. BreakerTypes'
  BY <1>u, StayBreakerTypes
<1>3. AdapterTypes'
  BY <1>u DEF AdapterTypes, Ho!SetUp, Ho!AtAdapter, AdapterType
<1>4. StopTypes'
  BY <1>u, StayStopTypes
<1>5. SettingsTypes'
  BY <1>u, StaySettingsTypes
<1>6. Counted'
  BY <1>u, StayCounted
<1>7. Overtaken'
  BY <1>u, StayOvertaken
<1>8. Unbegun'
  BY <1>u, StayUnbegun
<1>9. Promised'
  BY <1>u, StayPromised
<1>10. Told'
  BY <1>u, StayTold
<1> QED BY <1>1, <1>2, <1>3, <1>4, <1>5, <1>6, <1>7, <1>8, <1>9, <1>10 DEF HostInv, HostTypes

LEMMA HostSetUpFails == ASSUME HostFit, HostInv, NEW a \in Ho!Adapters, Ho!SetUpFails(a) PROVE HostInv'
<1> HostTypes /\ Counted /\ Overtaken /\ Unbegun /\ Promised /\ Told
  BY DEF HostInv
<1> LifeTypes /\ BreakerTypes /\ AdapterTypes /\ StopTypes /\ SettingsTypes
  BY DEF HostTypes
<1>u. UNCHANGED <<life, phase, breaker, stop, services, cli, restart, settings, unclean, marked>>
  BY DEF Ho!SetUpFails, Ho!AtAdapter
<1>1. LifeTypes'
  BY <1>u, StayLifeTypes
<1>2. BreakerTypes'
  BY <1>u, StayBreakerTypes
<1>3. AdapterTypes'
  <2>1. adapter[a] \in AdapterType /\ SetupRetries \in Nat
    BY DEF AdapterTypes, HostFit, Ho!ConstantAssumption
  <2>2. adapter[a].errors < SetupRetries => adapter[a].errors + 1 \in 0..SetupRetries
    BY <2>1 DEF AdapterType
  <2>3. CASE adapter[a].errors < SetupRetries /\ adapter' = [adapter EXCEPT ![a].errors = adapter[a].errors + 1]
    BY <2>2, <2>3 DEF AdapterTypes, AdapterType
  <2>4. CASE adapter' = [adapter EXCEPT ![a].at = "absent"]
    BY <2>4 DEF AdapterTypes, AdapterType
  <2> QED BY <2>3, <2>4 DEF Ho!SetUpFails
<1>4. StopTypes'
  BY <1>u, StayStopTypes
<1>5. SettingsTypes'
  BY <1>u, StaySettingsTypes
<1>6. Counted'
  BY <1>u, StayCounted
<1>7. Overtaken'
  BY <1>u, StayOvertaken
<1>8. Unbegun'
  BY <1>u, StayUnbegun
<1>9. Promised'
  BY <1>u, StayPromised
<1>10. Told'
  BY <1>u, StayTold
<1> QED BY <1>1, <1>2, <1>3, <1>4, <1>5, <1>6, <1>7, <1>8, <1>9, <1>10 DEF HostInv, HostTypes

LEMMA HostRun == ASSUME HostFit, HostInv, Ho!Run PROVE HostInv'
<1> HostTypes /\ Counted /\ Overtaken /\ Unbegun /\ Promised /\ Told
  BY DEF HostInv
<1> LifeTypes /\ BreakerTypes /\ AdapterTypes /\ StopTypes /\ SettingsTypes
  BY DEF HostTypes
<1>u. UNCHANGED <<life, breaker, adapter, stop, services, restart, settings, unclean, marked>>
  BY DEF Ho!Run
<1>1. LifeTypes'
  BY <1>u DEF LifeTypes, Ho!Run, LifeType, Ho!Phases
<1>2. BreakerTypes'
  BY <1>u, StayBreakerTypes
<1>3. AdapterTypes'
  BY <1>u, StayAdapterTypes
<1>4. StopTypes'
  BY <1>u, StayStopTypes
<1>5. SettingsTypes'
  BY <1>u, StaySettingsTypes
<1>6. Counted'
  BY <1>u DEF Counted, Ho!Run, LifeTypes, BreakerTypes, BreakerType, LifeType
<1>7. Overtaken'
  BY <1>u DEF Overtaken, Ho!Run, AtEnd, StopTypes, StopType, LifeTypes
<1>8. Unbegun'
  BY <1>u DEF Unbegun, Ho!Run, StopTypes, StopType, LifeTypes
<1>9. Promised'
  BY <1>u, StayPromised
<1>10. Told'
  BY <1>u, StayTold
<1> QED BY <1>1, <1>2, <1>3, <1>4, <1>5, <1>6, <1>7, <1>8, <1>9, <1>10 DEF HostInv, HostTypes

LEMMA HostClient == ASSUME HostFit, HostInv, Ho!Client PROVE HostInv'
<1> HostTypes /\ Counted /\ Overtaken /\ Unbegun /\ Promised /\ Told
  BY DEF HostInv
<1> LifeTypes /\ BreakerTypes /\ AdapterTypes /\ StopTypes /\ SettingsTypes
  BY DEF HostTypes
<1>u. UNCHANGED <<life, phase, breaker, adapter, stop, services, restart, settings, unclean, marked>>
  BY DEF Ho!Client
<1>1. LifeTypes'
  BY <1>u DEF LifeTypes, Ho!Client, LifeType, Ho!Phases
<1>2. BreakerTypes'
  BY <1>u, StayBreakerTypes
<1>3. AdapterTypes'
  BY <1>u, StayAdapterTypes
<1>4. StopTypes'
  BY <1>u, StayStopTypes
<1>5. SettingsTypes'
  BY <1>u, StaySettingsTypes
<1>6. Counted'
  BY <1>u, StayCounted
<1>7. Overtaken'
  BY <1>u, StayOvertaken
<1>8. Unbegun'
  BY <1>u DEF Unbegun, Ho!Client, StopTypes, StopType, LifeTypes
<1>9. Promised'
  BY <1>u, StayPromised
<1>10. Told'
  BY <1>u, StayTold
<1> QED BY <1>1, <1>2, <1>3, <1>4, <1>5, <1>6, <1>7, <1>8, <1>9, <1>10 DEF HostInv, HostTypes

LEMMA HostSignal == ASSUME HostFit, HostInv, NEW s \in Signals, Ho!Signal(s) PROVE HostInv'
<1> HostTypes /\ Counted /\ Overtaken /\ Unbegun /\ Promised /\ Told
  BY DEF HostInv
<1> LifeTypes /\ BreakerTypes /\ AdapterTypes /\ StopTypes /\ SettingsTypes
  BY DEF HostTypes
<1>u. UNCHANGED <<life, phase, breaker, adapter, services, cli, restart, settings, unclean, marked>>
  BY DEF Ho!Signal, Ho!Go
<1>1. LifeTypes'
  BY <1>u, StayLifeTypes
<1>2. BreakerTypes'
  BY <1>u, StayBreakerTypes
<1>3. AdapterTypes'
  BY <1>u, StayAdapterTypes
<1>4. StopTypes'
  BY <1>u DEF StopTypes, Ho!Signal, Ho!Go, StopType, Ho!Stages
<1>5. SettingsTypes'
  BY <1>u, StaySettingsTypes
<1>6. Counted'
  BY <1>u, StayCounted
<1>7. Overtaken'
  BY <1>u DEF Overtaken, Ho!Signal, Ho!Go, AtEnd, StopTypes, StopType, LifeTypes
<1>8. Unbegun'
  BY <1>u DEF Unbegun, Ho!Signal, Ho!Running, Ho!Go, StopTypes, StopType, LifeTypes
<1>9. Promised'
  BY <1>u DEF Promised, Ho!Signal, Ho!Go, StopTypes, StopType
<1>10. Told'
  BY <1>u, StayTold
<1> QED BY <1>1, <1>2, <1>3, <1>4, <1>5, <1>6, <1>7, <1>8, <1>9, <1>10 DEF HostInv, HostTypes

LEMMA HostRestartSignal == ASSUME HostFit, HostInv, NEW s \in Signals, Ho!RestartSignal(s) PROVE HostInv'
<1> HostTypes /\ Counted /\ Overtaken /\ Unbegun /\ Promised /\ Told
  BY DEF HostInv
<1> LifeTypes /\ BreakerTypes /\ AdapterTypes /\ StopTypes /\ SettingsTypes
  BY DEF HostTypes
<1>u. UNCHANGED <<life, phase, breaker, adapter, services, cli, settings, unclean, marked>>
  BY DEF Ho!RestartSignal, Ho!Go
<1>1. LifeTypes'
  BY <1>u DEF LifeTypes, Ho!RestartSignal, Ho!Go, LifeType, Ho!Phases
<1>2. BreakerTypes'
  BY <1>u, StayBreakerTypes
<1>3. AdapterTypes'
  BY <1>u, StayAdapterTypes
<1>4. StopTypes'
  BY <1>u DEF StopTypes, Ho!RestartSignal, Ho!Go, StopType, Ho!Stages
<1>5. SettingsTypes'
  BY <1>u, StaySettingsTypes
<1>6. Counted'
  BY <1>u, StayCounted
<1>7. Overtaken'
  BY <1>u DEF Overtaken, Ho!RestartSignal, Ho!Go, AtEnd, StopTypes, StopType, LifeTypes
<1>8. Unbegun'
  BY <1>u DEF Unbegun, Ho!RestartSignal, Ho!Go, StopTypes, StopType, LifeTypes
<1>9. Promised'
  BY <1>u DEF Promised, Ho!RestartSignal, Ho!Go, StopTypes, StopType
<1>10. Told'
  BY <1>u, StayTold
<1> QED BY <1>1, <1>2, <1>3, <1>4, <1>5, <1>6, <1>7, <1>8, <1>9, <1>10 DEF HostInv, HostTypes

LEMMA HostMark == ASSUME HostFit, HostInv, NEW s \in Signals, Ho!Mark(s) PROVE HostInv'
<1> HostTypes /\ Counted /\ Overtaken /\ Unbegun /\ Promised /\ Told
  BY DEF HostInv
<1> LifeTypes /\ BreakerTypes /\ AdapterTypes /\ StopTypes /\ SettingsTypes
  BY DEF HostTypes
<1>u. UNCHANGED <<life, phase, adapter, services, cli, restart, settings, unclean>>
  BY DEF Ho!Mark, Ho!Go
<1>1. LifeTypes'
  BY <1>u DEF LifeTypes, Ho!Mark, Ho!Go, LifeType, Ho!Phases
<1>2. BreakerTypes'
  BY <1>u, ResetTypes DEF Ho!Mark
<1>3. AdapterTypes'
  BY <1>u, StayAdapterTypes
<1>4. StopTypes'
  BY <1>u DEF StopTypes, Ho!Mark, Ho!Go, StopType, Ho!Stages
<1>5. SettingsTypes'
  BY <1>u, StaySettingsTypes
<1>6. Counted'
  BY <1>u DEF Counted, Ho!Mark, Ho!Reset, BreakerTypes, BreakerType
<1>7. Overtaken'
  BY <1>u DEF Overtaken, Ho!Mark, Ho!Go, AtEnd, StopTypes, StopType, LifeTypes
<1>8. Unbegun'
  BY <1>u DEF Unbegun, Ho!Mark, Ho!Go, StopTypes, StopType, LifeTypes
<1>9. Promised'
  BY <1>u DEF Promised, Ho!Mark, Ho!Go, StopTypes, StopType
<1>10. Told'
  BY <1>u, StayTold
<1> QED BY <1>1, <1>2, <1>3, <1>4, <1>5, <1>6, <1>7, <1>8, <1>9, <1>10 DEF HostInv, HostTypes

LEMMA HostStopCli == ASSUME HostFit, HostInv, NEW s \in Signals, Ho!StopCliServer(s) PROVE HostInv'
<1> HostTypes /\ Counted /\ Overtaken /\ Unbegun /\ Promised /\ Told
  BY DEF HostInv
<1> LifeTypes /\ BreakerTypes /\ AdapterTypes /\ StopTypes /\ SettingsTypes
  BY DEF HostTypes
<1>u. UNCHANGED <<life, phase, breaker, adapter, services, restart, settings, unclean, marked>>
  BY DEF Ho!StopCliServer, Ho!Go
<1>1. LifeTypes'
  BY <1>u DEF LifeTypes, Ho!StopCliServer, Ho!Go, LifeType, Ho!Phases
<1>2. BreakerTypes'
  BY <1>u, StayBreakerTypes
<1>3. AdapterTypes'
  BY <1>u, StayAdapterTypes
<1>4. StopTypes'
  BY <1>u DEF StopTypes, Ho!StopCliServer, Ho!Go, StopType, Ho!Stages
<1>5. SettingsTypes'
  BY <1>u, StaySettingsTypes
<1>6. Counted'
  BY <1>u, StayCounted
<1>7. Overtaken'
  BY <1>u DEF Overtaken, Ho!StopCliServer, Ho!Go, AtEnd, StopTypes, StopType, LifeTypes
<1>8. Unbegun'
  BY <1>u DEF Unbegun, Ho!StopCliServer, Ho!Go, StopTypes, StopType, LifeTypes
<1>9. Promised'
  BY <1>u DEF Promised, Ho!StopCliServer, Ho!Go, StopTypes, StopType
<1>10. Told'
  BY <1>u, StayTold
<1> QED BY <1>1, <1>2, <1>3, <1>4, <1>5, <1>6, <1>7, <1>8, <1>9, <1>10 DEF HostInv, HostTypes

LEMMA HostCliClosed == ASSUME HostFit, HostInv, NEW s \in Signals, Ho!CliClosed(s) PROVE HostInv'
<1> HostTypes /\ Counted /\ Overtaken /\ Unbegun /\ Promised /\ Told
  BY DEF HostInv
<1> LifeTypes /\ BreakerTypes /\ AdapterTypes /\ StopTypes /\ SettingsTypes
  BY DEF HostTypes
<1>u. UNCHANGED <<life, phase, breaker, adapter, services, cli, restart, settings, unclean, marked>>
  BY DEF Ho!CliClosed, Ho!Go
<1>1. LifeTypes'
  BY <1>u, StayLifeTypes
<1>2. BreakerTypes'
  BY <1>u, StayBreakerTypes
<1>3. AdapterTypes'
  BY <1>u, StayAdapterTypes
<1>4. StopTypes'
  BY <1>u DEF StopTypes, Ho!CliClosed, Ho!Go, StopType, Ho!Stages
<1>5. SettingsTypes'
  BY <1>u, StaySettingsTypes
<1>6. Counted'
  BY <1>u, StayCounted
<1>7. Overtaken'
  BY <1>u DEF Overtaken, Ho!CliClosed, Ho!Go, AtEnd, StopTypes, StopType, LifeTypes
<1>8. Unbegun'
  BY <1>u DEF Unbegun, Ho!CliClosed, Ho!Go, StopTypes, StopType, LifeTypes
<1>9. Promised'
  BY <1>u DEF Promised, Ho!CliClosed, Ho!Go, StopTypes, StopType
<1>10. Told'
  BY <1>u, StayTold
<1> QED BY <1>1, <1>2, <1>3, <1>4, <1>5, <1>6, <1>7, <1>8, <1>9, <1>10 DEF HostInv, HostTypes

LEMMA HostCloudDown == ASSUME HostFit, HostInv, NEW s \in Signals, Ho!ShutdownCloudServices(s) PROVE HostInv'
<1> HostTypes /\ Counted /\ Overtaken /\ Unbegun /\ Promised /\ Told
  BY DEF HostInv
<1> LifeTypes /\ BreakerTypes /\ AdapterTypes /\ StopTypes /\ SettingsTypes
  BY DEF HostTypes
<1>u. UNCHANGED <<life, phase, breaker, adapter, cli, restart, settings, unclean, marked>>
  BY DEF Ho!ShutdownCloudServices, Ho!Go
<1>1. LifeTypes'
  BY <1>u DEF LifeTypes, Ho!ShutdownCloudServices, Ho!Go, LifeType, Ho!Phases
<1>2. BreakerTypes'
  BY <1>u, StayBreakerTypes
<1>3. AdapterTypes'
  BY <1>u, StayAdapterTypes
<1>4. StopTypes'
  BY <1>u DEF StopTypes, Ho!ShutdownCloudServices, Ho!Go, StopType, Ho!Stages
<1>5. SettingsTypes'
  BY <1>u, StaySettingsTypes
<1>6. Counted'
  BY <1>u, StayCounted
<1>7. Overtaken'
  BY <1>u DEF Overtaken, Ho!ShutdownCloudServices, Ho!Go, AtEnd, StopTypes, StopType, LifeTypes
<1>8. Unbegun'
  BY <1>u DEF Unbegun, Ho!ShutdownCloudServices, Ho!Go, StopTypes, StopType, LifeTypes
<1>9. Promised'
  BY <1>u DEF Promised, Ho!ShutdownCloudServices, Ho!Go, StopTypes, StopType
<1>10. Told'
  BY <1>u, StayTold
<1> QED BY <1>1, <1>2, <1>3, <1>4, <1>5, <1>6, <1>7, <1>8, <1>9, <1>10 DEF HostInv, HostTypes

LEMMA HostTeardown == ASSUME HostFit, HostInv, NEW s \in Signals, Ho!Teardown(s) PROVE HostInv'
<1> HostTypes /\ Counted /\ Overtaken /\ Unbegun /\ Promised /\ Told
  BY DEF HostInv
<1> LifeTypes /\ BreakerTypes /\ AdapterTypes /\ StopTypes /\ SettingsTypes
  BY DEF HostTypes
<1>u. UNCHANGED <<life, phase, breaker, adapter, services, cli, restart, settings, unclean, marked>>
  BY DEF Ho!Teardown
<1>1. LifeTypes'
  BY <1>u, StayLifeTypes
<1>2. BreakerTypes'
  BY <1>u, StayBreakerTypes
<1>3. AdapterTypes'
  BY <1>u, StayAdapterTypes
<1>4. StopTypes'
  <2>1. PICK a \in Ho!Active : stop' = [stop EXCEPT ![s].done = stop[s].done \cup {a}]
    BY DEF Ho!Teardown
  <2>2. a \in Ho!Adapters
    BY DEF Ho!Active
  <2> QED BY <2>1, <2>2 DEF StopTypes, StopType
<1>5. SettingsTypes'
  BY <1>u, StaySettingsTypes
<1>6. Counted'
  BY <1>u, StayCounted
<1>7. Overtaken'
  BY <1>u DEF Overtaken, Ho!Teardown, AtEnd, StopTypes, StopType, LifeTypes
<1>8. Unbegun'
  BY <1>u DEF Unbegun, Ho!Teardown, StopTypes, StopType, LifeTypes
<1>9. Promised'
  BY <1>u DEF Promised, Ho!Teardown, StopTypes, StopType
<1>10. Told'
  BY <1>u, StayTold
<1> QED BY <1>1, <1>2, <1>3, <1>4, <1>5, <1>6, <1>7, <1>8, <1>9, <1>10 DEF HostInv, HostTypes

LEMMA HostExit == ASSUME HostFit, HostInv, NEW s \in Signals, Ho!Exit(s) PROVE HostInv'
<1> HostTypes /\ Counted /\ Overtaken /\ Unbegun /\ Promised /\ Told
  BY DEF HostInv
<1> LifeTypes /\ BreakerTypes /\ AdapterTypes /\ StopTypes /\ SettingsTypes
  BY DEF HostTypes
<1>u. UNCHANGED <<life, settings>>
  BY DEF Ho!Exit, Ho!Ends, Ho!Reset
<1>1. LifeTypes'
  BY <1>u DEF LifeTypes, Ho!Exit, Ho!Ends, Ho!Reset, LifeType, Ho!Phases
<1>2. BreakerTypes'
  BY <1>u, ResetTypes DEF Ho!Exit
<1>3. AdapterTypes'
  <2>1. 0 \in 0..SetupRetries
    BY DEF HostFit, Ho!ConstantAssumption
  <2> QED BY <2>1 DEF AdapterTypes, AdapterType, Ho!Exit, Ho!Ends
<1>4. StopTypes'
  BY <1>u DEF StopTypes, Ho!Exit, Ho!Ends, Ho!Reset, StopType, Ho!Stages
<1>5. SettingsTypes'
  BY <1>u, StaySettingsTypes
<1>6. Counted'
  BY <1>u DEF Counted, Ho!Exit, Ho!Ends, Ho!Reset, LifeTypes, BreakerTypes, BreakerType, LifeType
<1>7. Overtaken'
  BY <1>u DEF Overtaken, Ho!Exit, Ho!Ends, Ho!Reset, AtEnd, StopTypes, StopType, LifeTypes
<1>8. Unbegun'
  BY <1>u DEF Unbegun, Ho!Exit, Ho!Ends, Ho!Reset, StopTypes, StopType, LifeTypes
<1>9. Promised'
  BY <1>u DEF Promised, Ho!Exit, Ho!Ends, Ho!Reset, StopTypes, StopType
<1>10. Told'
  BY <1>u, StayTold
<1> QED BY <1>1, <1>2, <1>3, <1>4, <1>5, <1>6, <1>7, <1>8, <1>9, <1>10 DEF HostInv, HostTypes

LEMMA HostPut == ASSUME HostFit, HostInv, Ho!PutSettings PROVE HostInv'
<1> HostTypes /\ Counted /\ Overtaken /\ Unbegun /\ Promised /\ Told
  BY DEF HostInv
<1> LifeTypes /\ BreakerTypes /\ AdapterTypes /\ StopTypes /\ SettingsTypes
  BY DEF HostTypes
<1>u. UNCHANGED <<life, phase, breaker, adapter, stop, services, cli, restart, unclean, marked>>
  BY DEF Ho!PutSettings, Ho!AtSettings
<1>1. LifeTypes'
  BY <1>u, StayLifeTypes
<1>2. BreakerTypes'
  BY <1>u, StayBreakerTypes
<1>3. AdapterTypes'
  BY <1>u, StayAdapterTypes
<1>4. StopTypes'
  BY <1>u, StayStopTypes
<1>5. SettingsTypes'
  <2>1. PICK body \in Ho!Bodies : settings' = Ho!Save(body)
    BY DEF Ho!PutSettings
  <2> QED BY <2>1, SaveTypes
<1>6. Counted'
  BY <1>u, StayCounted
<1>7. Overtaken'
  BY <1>u, StayOvertaken
<1>8. Unbegun'
  BY <1>u, StayUnbegun
<1>9. Promised'
  BY <1>u, StayPromised
<1>10. Told'
  <2>1. PICK body \in Ho!Bodies : settings' = Ho!Save(body)
    BY DEF Ho!PutSettings
  <2> QED BY <2>1, SaveTells
<1> QED BY <1>1, <1>2, <1>3, <1>4, <1>5, <1>6, <1>7, <1>8, <1>9, <1>10 DEF HostInv, HostTypes

LEMMA HostApply == ASSUME HostFit, HostInv, Ho!ApplySettings PROVE HostInv'
<1> HostTypes /\ Counted /\ Overtaken /\ Unbegun /\ Promised /\ Told
  BY DEF HostInv
<1> LifeTypes /\ BreakerTypes /\ AdapterTypes /\ StopTypes /\ SettingsTypes
  BY DEF HostTypes
<1>u. UNCHANGED <<life, phase, breaker, adapter, stop, services, cli, unclean, marked>>
  BY DEF Ho!ApplySettings, Ho!AtSettings
<1>1. LifeTypes'
  BY <1>u DEF LifeTypes, Ho!ApplySettings, Ho!AtSettings, LifeType, Ho!Phases
<1>2. BreakerTypes'
  BY <1>u, StayBreakerTypes
<1>3. AdapterTypes'
  BY <1>u, StayAdapterTypes
<1>4. StopTypes'
  BY <1>u, StayStopTypes
<1>5. SettingsTypes'
  <2>1. PICK body \in Ho!Bodies : settings' = Ho!Save(body)
    BY DEF Ho!ApplySettings
  <2> QED BY <2>1, SaveTypes
<1>6. Counted'
  BY <1>u, StayCounted
<1>7. Overtaken'
  BY <1>u, StayOvertaken
<1>8. Unbegun'
  BY <1>u DEF Unbegun, Ho!ApplySettings, Ho!AtSettings, StopTypes, StopType, LifeTypes
<1>9. Promised'
  BY <1>u DEF Promised, Ho!ApplySettings, Ho!AtSettings, StopTypes, StopType
<1>10. Told'
  <2>1. PICK body \in Ho!Bodies : settings' = Ho!Save(body)
    BY DEF Ho!ApplySettings
  <2> QED BY <2>1, SaveTells
<1> QED BY <1>1, <1>2, <1>3, <1>4, <1>5, <1>6, <1>7, <1>8, <1>9, <1>10 DEF HostInv, HostTypes

LEMMA HostExport == ASSUME HostFit, HostInv, Ho!ExportOverrides PROVE HostInv'
<1> HostTypes /\ Counted /\ Overtaken /\ Unbegun /\ Promised /\ Told
  BY DEF HostInv
<1> LifeTypes /\ BreakerTypes /\ AdapterTypes /\ StopTypes /\ SettingsTypes
  BY DEF HostTypes
<1>u. UNCHANGED <<life, phase, breaker, adapter, stop, services, cli, restart, unclean, marked>>
  BY DEF Ho!ExportOverrides, Ho!AtSettings
<1>1. LifeTypes'
  BY <1>u, StayLifeTypes
<1>2. BreakerTypes'
  BY <1>u, StayBreakerTypes
<1>3. AdapterTypes'
  BY <1>u, StayAdapterTypes
<1>4. StopTypes'
  BY <1>u, StayStopTypes
<1>5. SettingsTypes'
  <2>1. settings' = [table |-> settings.table, env |-> settings.env,
        exported |-> settings.table, told |-> settings.told,
        restored |-> FALSE, changes |-> settings.changes + 1]
    BY DEF Ho!ExportOverrides, SettingsTypes, SettingsType
  <2> QED BY <2>1 DEF SettingsTypes, SettingsType
<1>6. Counted'
  BY <1>u, StayCounted
<1>7. Overtaken'
  BY <1>u, StayOvertaken
<1>8. Unbegun'
  BY <1>u, StayUnbegun
<1>9. Promised'
  BY <1>u, StayPromised
<1>10. Told'
  BY <1>u DEF Told, Ho!ExportOverrides, Ho!AtSettings, SettingsTypes, SettingsType, Entries, Ho!ResolveSettingValue
<1> QED BY <1>1, <1>2, <1>3, <1>4, <1>5, <1>6, <1>7, <1>8, <1>9, <1>10 DEF HostInv, HostTypes

LEMMA HostImport == ASSUME HostFit, HostInv, Ho!ImportSettings PROVE HostInv'
<1> HostTypes /\ Counted /\ Overtaken /\ Unbegun /\ Promised /\ Told
  BY DEF HostInv
<1> LifeTypes /\ BreakerTypes /\ AdapterTypes /\ StopTypes /\ SettingsTypes
  BY DEF HostTypes
<1>u. UNCHANGED <<life, phase, breaker, adapter, stop, services, cli, restart, unclean, marked>>
  BY DEF Ho!ImportSettings, Ho!AtSettings
<1>1. LifeTypes'
  BY <1>u, StayLifeTypes
<1>2. BreakerTypes'
  BY <1>u, StayBreakerTypes
<1>3. AdapterTypes'
  BY <1>u, StayAdapterTypes
<1>4. StopTypes'
  BY <1>u, StayStopTypes
<1>5. SettingsTypes'
  <2> QED BY ImportTypes
<1>6. Counted'
  BY <1>u, StayCounted
<1>7. Overtaken'
  BY <1>u, StayOvertaken
<1>8. Unbegun'
  BY <1>u, StayUnbegun
<1>9. Promised'
  BY <1>u, StayPromised
<1>10. Told'
  <2> QED BY ImportTells
<1> QED BY <1>1, <1>2, <1>3, <1>4, <1>5, <1>6, <1>7, <1>8, <1>9, <1>10 DEF HostInv, HostTypes

LEMMA HostResetSetting == ASSUME HostFit, HostInv, NEW k \in Keys, Ho!ResetSetting(k) PROVE HostInv'
<1> HostTypes /\ Counted /\ Overtaken /\ Unbegun /\ Promised /\ Told
  BY DEF HostInv
<1> LifeTypes /\ BreakerTypes /\ AdapterTypes /\ StopTypes /\ SettingsTypes
  BY DEF HostTypes
<1>u. UNCHANGED <<life, phase, breaker, adapter, stop, services, cli, restart, unclean, marked>>
  BY DEF Ho!ResetSetting, Ho!AtSettings
<1>1. LifeTypes'
  BY <1>u, StayLifeTypes
<1>2. BreakerTypes'
  BY <1>u, StayBreakerTypes
<1>3. AdapterTypes'
  BY <1>u, StayAdapterTypes
<1>4. StopTypes'
  BY <1>u, StayStopTypes
<1>5. SettingsTypes'
  <2>1. settings' = [table |-> [settings.table EXCEPT ![k] = "none"], env |-> settings.env,
        exported |-> settings.exported, told |-> [settings.told EXCEPT ![k] = "none"],
        restored |-> FALSE, changes |-> settings.changes + 1]
    BY DEF Ho!ResetSetting, SettingsTypes, SettingsType
  <2>2. [settings.table EXCEPT ![k] = "none"] \in Entries /\ [settings.told EXCEPT ![k] = "none"] \in Entries
    BY DEF SettingsTypes, SettingsType, Entries
  <2> QED BY <2>1, <2>2 DEF SettingsTypes, SettingsType
<1>6. Counted'
  BY <1>u, StayCounted
<1>7. Overtaken'
  BY <1>u, StayOvertaken
<1>8. Unbegun'
  BY <1>u, StayUnbegun
<1>9. Promised'
  BY <1>u, StayPromised
<1>10. Told'
  BY <1>u DEF Told, Ho!ResetSetting, Ho!AtSettings, SettingsTypes, SettingsType, Entries, Ho!ResolveSettingValue
<1> QED BY <1>1, <1>2, <1>3, <1>4, <1>5, <1>6, <1>7, <1>8, <1>9, <1>10 DEF HostInv, HostTypes

LEMMA HostEditEnv == ASSUME HostFit, HostInv, NEW k \in Keys, NEW v \in SettingValues, Ho!EditEnv(k, v) PROVE HostInv'
<1> HostTypes /\ Counted /\ Overtaken /\ Unbegun /\ Promised /\ Told
  BY DEF HostInv
<1> LifeTypes /\ BreakerTypes /\ AdapterTypes /\ StopTypes /\ SettingsTypes
  BY DEF HostTypes
<1>u. UNCHANGED <<life, phase, breaker, adapter, stop, services, cli, restart, unclean, marked>>
  BY DEF Ho!EditEnv
<1>1. LifeTypes'
  BY <1>u, StayLifeTypes
<1>2. BreakerTypes'
  BY <1>u, StayBreakerTypes
<1>3. AdapterTypes'
  BY <1>u, StayAdapterTypes
<1>4. StopTypes'
  BY <1>u, StayStopTypes
<1>5. SettingsTypes'
  <2>1. settings' = [table |-> settings.table, env |-> [settings.env EXCEPT ![k] = v],
        exported |-> settings.exported, told |-> settings.told,
        restored |-> FALSE, changes |-> settings.changes + 1]
    BY DEF Ho!EditEnv, SettingsTypes, SettingsType
  <2>2. [settings.env EXCEPT ![k] = v] \in Entries
    BY DEF SettingsTypes, SettingsType, Entries
  <2> QED BY <2>1, <2>2 DEF SettingsTypes, SettingsType
<1>6. Counted'
  BY <1>u, StayCounted
<1>7. Overtaken'
  BY <1>u, StayOvertaken
<1>8. Unbegun'
  BY <1>u, StayUnbegun
<1>9. Promised'
  BY <1>u, StayPromised
<1>10. Told'
  BY <1>u DEF Told, Ho!EditEnv, SettingsTypes, SettingsType, Entries, Ho!ResolveSettingValue
<1> QED BY <1>1, <1>2, <1>3, <1>4, <1>5, <1>6, <1>7, <1>8, <1>9, <1>10 DEF HostInv, HostTypes

LEMMA HostInit == ASSUME HostFit, Ho!Init PROVE HostInv
<1>1. HostTypes
  <2>1. SettingsTypes
    <3>1. Ho!Unset \in Entries
      BY DEF Ho!Unset, Entries
    <3> QED BY <3>1 DEF Ho!Init, SettingsTypes, SettingsType
  <2>2. AdapterTypes
    BY DEF HostFit, Ho!ConstantAssumption, Ho!Init, AdapterTypes, AdapterType
  <2>3. StopTypes
    BY DEF Ho!Init, StopTypes, StopType, Ho!Stages
  <2>4. life \in LifeType /\ life.begun = 0
    <3>1. PICK l \in Lives : life = [cloud |-> l.cloud, adapters |-> l.adapters, changes |-> l.changes,
                                     signals |-> l.signals, starts |-> l.starts, begun |-> 0]
      BY DEF Ho!Init, Ho!Lifes
    <3>2. l.adapters \in SUBSET Ho!Adapters
      BY DEF Ho!Adapters
    <3>3. l.cloud \in BOOLEAN /\ l.changes \in Nat /\ l.signals \in Nat /\ l.starts \in Nat
      BY DEF HostFit, Ho!ConstantAssumption
    <3> QED BY <3>1, <3>2, <3>3 DEF LifeType
  <2>5. BreakerTypes
    BY <2>4 DEF Ho!Init, BreakerTypes, BreakerType
  <2>6. life.begun <= life.starts
    BY <2>4 DEF LifeType
  <2>7. LifeTypes
    BY <2>4, <2>6 DEF Ho!Init, LifeTypes, Ho!Phases
  <2> QED BY <2>1, <2>2, <2>3, <2>5, <2>7 DEF HostTypes
<1>2. Counted /\ Overtaken /\ Unbegun /\ Promised
  BY DEF Ho!Init, Counted, Overtaken, Unbegun, Promised
<1>3. Told
  BY DEF Ho!Init, Ho!Unset, Told
<1> QED BY <1>1, <1>2, <1>3 DEF HostInv

LEMMA HostStep == ASSUME HostFit, HostInv, [Ho!Next]_(Ho!hostVars) PROVE HostInv'
<1>1. CASE UNCHANGED Ho!hostVars
  <2> UNCHANGED <<life, phase, breaker, adapter, stop, services, cli, restart, settings, unclean, marked>>
    BY <1>1 DEF Ho!hostVars
  <2> QED BY StayLifeTypes, StayBreakerTypes, StayAdapterTypes, StayStopTypes, StaySettingsTypes, StayCounted, StayOvertaken, StayUnbegun, StayPromised, StayTold DEF HostInv, HostTypes
<1>2. CASE Ho!Main
  BY <1>2, HostStart, HostWaited, HostHour, HostDies, HostBoot, HostInitDb, HostFactory, HostSetUp, HostSetUpFails, HostRun, HostClient DEF Ho!Main
<1>3. CASE Ho!Shutdown
  BY <1>3, HostSignal, HostRestartSignal, HostMark, HostStopCli, HostCliClosed, HostCloudDown, HostTeardown, HostExit DEF Ho!Shutdown
<1>4. CASE Ho!Configure
  BY <1>4, HostPut, HostApply, HostExport, HostImport, HostResetSetting, HostEditEnv DEF Ho!Configure
<1> QED BY <1>1, <1>2, <1>3, <1>4 DEF Ho!Next

LEMMA HostHolds ==
  ASSUME HostFit, HostInv
  PROVE  Ho!TypeOK /\ Ho!BackoffIsEarned /\ Ho!ShutdownIsWhole /\ Ho!RestartComes /\ Ho!SettingsHold
<1> LifeTypes /\ BreakerTypes /\ AdapterTypes /\ StopTypes /\ SettingsTypes /\ Counted /\ Overtaken /\ Unbegun /\ Promised /\ Told
  BY DEF HostInv, HostTypes
<1>1. Ho!TypeOK
  BY DEF Ho!TypeOK, LifeTypes, BreakerTypes, AdapterTypes, StopTypes, SettingsTypes, LifeType, BreakerType, AdapterType, StopType,
    SettingsType, Entries
<1>2. Ho!BackoffIsEarned
  BY DEF Ho!BackoffIsEarned, Ho!Running, Counted
<1>3. Ho!ShutdownIsWhole
  BY DEF Ho!ShutdownIsWhole, Overtaken, AtEnd, LifeTypes, Ho!Phases
<1>4. Ho!RestartComes
  BY DEF Ho!RestartComes, Promised, Unbegun, Overtaken, AtEnd, LifeTypes
<1>5. Ho!SettingsHold
  BY DEF Ho!SettingsHold, Told, Ho!ResolveSettingValue
<1> QED BY <1>1, <1>2, <1>3, <1>4, <1>5

(***************************************************************************)
(* Setup.                                                                  *)
(***************************************************************************)
\* The step a place belongs to, by its number; a process that waits or is gone is at none.
Stage(p) ==
  IF p \in Se!ChannelParts THEN 9
  ELSE CASE p = "environment" -> 1 [] p = "container" -> 2 [] p = "onecli" -> 3 [] p = "auth" -> 4
         [] p = "mounts" -> 5 [] p = "service" -> 6 [] p \in {"cli-agent", "ping", "cleanup", "next"} -> 7
         [] p \in {"timezone", "confirm", "persist"} -> 8 [] p = "channel" -> 9 [] p = "verify" -> 10
         [] OTHER -> 0

LEMMA OrderOfSteps ==
  /\ DOMAIN Se!Order = 1..10 /\ Len(Se!Order) = 10
  /\ Se!Steps = {"environment", "container", "onecli", "auth", "mounts", "service", "cli-agent",
                 "timezone", "channel", "verify"}
  /\ Se!Steps \cap Se!ChannelParts = {} /\ Se!Order[9] = "channel" /\ Se!Order[10] = "verify"
  /\ \A k \in 1..10 : Se!Order[k] \in Se!Steps /\ Stage(Se!Order[k]) = k
  /\ \A s \in Se!Steps : Stage(s) \in 1..10 /\ Se!Order[Stage(s)] = s
<1> DEFINE O == <<"environment", "container", "onecli", "auth", "mounts", "service", "cli-agent",
                 "timezone", "channel", "verify">>
<1>1. Se!Order = O
  BY DEF Se!Order
<1>2. DOMAIN O = 1..10 /\ Len(O) = 10
  OBVIOUS
<1>3. /\ O[1] = "environment" /\ O[2] = "container" /\ O[3] = "onecli" /\ O[4] = "auth" /\ O[5] = "mounts"
      /\ O[6] = "service" /\ O[7] = "cli-agent" /\ O[8] = "timezone" /\ O[9] = "channel" /\ O[10] = "verify"
  OBVIOUS
<1>4. \A k \in 1..10 : k = 1 \/ k = 2 \/ k = 3 \/ k = 4 \/ k = 5 \/ k = 6 \/ k = 7 \/ k = 8 \/ k = 9 \/ k = 10
  OBVIOUS
<1>5. /\ Stage("environment") = 1 /\ Stage("container") = 2 /\ Stage("onecli") = 3 /\ Stage("auth") = 4
      /\ Stage("mounts") = 5 /\ Stage("service") = 6 /\ Stage("cli-agent") = 7 /\ Stage("timezone") = 8
      /\ Stage("channel") = 9 /\ Stage("verify") = 10
  BY DEF Stage, Se!ChannelParts
<1> HIDE DEF O
<1>6. Se!Steps = {O[k] : k \in 1..10}
  BY <1>1, <1>2 DEF Se!Steps
<1>7. Se!Steps = {"environment", "container", "onecli", "auth", "mounts", "service", "cli-agent",
                 "timezone", "channel", "verify"}
  BY <1>3, <1>4, <1>6
<1>8. \A k \in 1..10 : O[k] \in Se!Steps /\ Stage(O[k]) = k
  BY <1>3, <1>4, <1>5, <1>7
<1>9. \A s \in Se!Steps : Stage(s) \in 1..10 /\ O[Stage(s)] = s
  BY <1>3, <1>5, <1>7
<1>10. Se!Steps \cap Se!ChannelParts = {}
  BY <1>7 DEF Se!ChannelParts
<1> QED BY <1>1, <1>2, <1>3, <1>7, <1>8, <1>9, <1>10

\* p is the first step after the k-th, but for cli-agent, that is not skipped.
NextStep(p, k, skip) ==
  /\ p \in Se!Steps /\ p \notin skip /\ k < Stage(p)
  /\ \A x \in Se!Steps \ {"cli-agent"} : x \notin skip /\ k < Stage(x) => Stage(p) <= Stage(x)

LEMMA FirstLeft ==
  ASSUME NEW k \in 0..9, NEW skip, NEW agents, "verify" \notin skip
  PROVE  NextStep(Se!From(k + 1, skip, agents), k, skip)
<1> DEFINE unskipped == {j \in (k + 1)..10 :
                     Se!Order[j] \notin skip /\ (Se!Order[j] = "cli-agent" => agents = {})}
<1>1. Se!From(k + 1, skip, agents) = IF unskipped = {} THEN "idle" ELSE Se!Order[Se!Min(unskipped)]
  BY OrderOfSteps DEF Se!From
<1>2. 10 \in unskipped
  BY OrderOfSteps
<1>3. unskipped \subseteq Nat /\ unskipped # {}
  BY <1>2
<1>4. \E m \in unskipped : \A j \in unskipped : m <= j
  BY <1>3, LeastNat
<1> DEFINE m == Se!Min(unskipped)
<1>5. m \in unskipped /\ \A j \in unskipped : m <= j
  BY <1>4 DEF Se!Min
<1>6. Se!From(k + 1, skip, agents) = Se!Order[m]
  BY <1>1, <1>2
<1>7. m \in (k + 1)..10 /\ m \in 1..10 /\ Se!Order[m] \notin skip
  BY <1>5
<1> HIDE DEF m
<1>8. Se!Order[m] \in Se!Steps /\ Stage(Se!Order[m]) = m /\ k < m
  BY <1>7, OrderOfSteps
<1>9. ASSUME NEW x \in Se!Steps \ {"cli-agent"}, x \notin skip, k < Stage(x)
      PROVE  m <= Stage(x)
  <2>1. Stage(x) \in 1..10 /\ Se!Order[Stage(x)] = x
    BY OrderOfSteps
  <2>2. Stage(x) \in unskipped
    BY <1>9, <2>1
  <2> QED BY <1>5, <2>2
<1> QED BY <1>6, <1>7, <1>8, <1>9 DEF NextStep

SetupRunType ==
  [at : Se!Steps \cup Se!Parts \cup {"idle", "failed"}, skip : SUBSET Se!Steps,
   offers : SUBSET (Se!Steps \cup Se!Parts), owed : Se!Steps \cup Se!Parts \cup {"none"},
   choice : Channels \cup {"skip"}, said : {"none", "set", "almost"}]
SetupWorldType ==
  [env : SUBSET {"onecli", "credentials"}, tz : Se!Zones, secret : BOOLEAN,
   adapter : [Channels -> {"none", "sources", "packages", "built"}],
   agents : SUBSET {"ping-test", "terminal", "assistant"},
   service : [up : BOOLEAN, credentials : BOOLEAN, adapters : SUBSET Channels, tz : Se!Zones],
   deaf : BOOLEAN]
SetupCounts ==
  wanted \in Channels \cup {"any"} /\ processes \in 0..MaxRuns /\ mishaps \in 0..MaxMishaps

\* Steps that fail() may be asked to resume at, and the ones among them that a retry is
\* sure to come to.
Excepted == {"timezone", "terminal", "cli-agent"}
Early == {"environment", "container", "onecli", "auth", "mounts", "service"}
Failing == Early \cup Se!ChannelParts \cup Excepted

\* Where a process is was not skipped, the choice of a channel and verify never are.
Unskipped(r) ==
  /\ r.at \in Se!Steps => r.at \notin r.skip
  /\ "channel" \notin r.skip /\ "verify" \notin r.skip

\* A step is on offer while the process waits in fail(), and will not be skipped.
OffersAhead(r) ==
  /\ r.offers \subseteq Failing
  /\ \A s \in r.offers \cap Se!Steps : r.at = "failed" /\ (s \in Early => s \notin r.skip)
  /\ "terminal" \in r.offers => r.at = "failed"

\* The step that is owed lies ahead.
OwedAhead(r) ==
  /\ r.owed \in Failing \cup {"none"}
  /\ r.owed \in Early => r.owed \notin r.skip /\ Stage(r.at) <= Stage(r.owed)
  /\ r.owed \in Se!ChannelParts => Stage(r.at) <= 9 /\ r.at \notin Se!ChannelParts
  /\ r.said # "none" => r.at = "idle" /\ r.owed \notin Early \cup Se!ChannelParts

RunOK(r) == r \in SetupRunType /\ Unskipped(r) /\ OffersAhead(r) /\ OwedAhead(r)

\* The run as Done, Go and Fail leave it.
Moved(p, skip, offers, s) ==
  [run EXCEPT !.at = p, !.skip = skip, !.offers = offers, !.owed = Se!Paid(s)]

LEMMA MovedRecord ==
  ASSUME NEW p, NEW skip, NEW offers, NEW s, run \in SetupRunType
  PROVE  /\ Moved(p, skip, offers, s).at = p /\ Moved(p, skip, offers, s).skip = skip
         /\ Moved(p, skip, offers, s).offers = offers
         /\ Moved(p, skip, offers, s).owed = IF run.owed = s THEN "none" ELSE run.owed
         /\ Moved(p, skip, offers, s).choice = run.choice /\ Moved(p, skip, offers, s).said = run.said
         /\ p \in Se!Steps \cup Se!Parts \cup {"idle", "failed"} /\ skip \in SUBSET Se!Steps
            /\ offers \in SUBSET (Se!Steps \cup Se!Parts) => Moved(p, skip, offers, s) \in SetupRunType
BY DEF Moved, SetupRunType, Se!Paid

\* On to the next step: s is done, or not logged, or its failure is passed over.
LEMMA RunOn ==
  ASSUME RunOK(run), NEW s, NEW p, NEW skip, NEW offers, run.at \notin {"idle", "failed"},
         Stage(run.at) \in 1..8 \/ run.at \in Se!ChannelParts,
         skip = run.skip \/ (s \in Se!Steps \ {"channel", "verify"} /\ skip = run.skip \cup {s}),
         s \in Early => Stage(s) = Stage(run.at),
         s \in Se!Steps => p # s,
         NextStep(p, Stage(run.at), run.skip),
         s = run.at \/ Stage(run.at) > 6,
         offers = run.offers \/ (s \in Se!ChannelParts /\ offers = run.offers \cup {s})
  PROVE  RunOK(Moved(p, skip, offers, s))
<1> DEFINE r == Moved(p, skip, offers, s)
<1>1. run \in SetupRunType /\ Unskipped(run) /\ OffersAhead(run) /\ OwedAhead(run)
  BY DEF RunOK
<1>0. Stage(run.at) \in 1..9
  BY DEF Stage
<1>2. p \in Se!Steps /\ p \notin skip /\ Stage(run.at) < Stage(p) /\ skip \subseteq Se!Steps
  BY <1>1, OrderOfSteps DEF NextStep, SetupRunType
<1>3. /\ r.at = p /\ r.skip = skip /\ r.offers = offers /\ r.said = run.said
      /\ r.owed = IF run.owed = s THEN "none" ELSE run.owed
      /\ r \in SetupRunType
  <2>1. offers \in SUBSET (Se!Steps \cup Se!Parts)
    BY <1>1 DEF SetupRunType, Se!Parts
  <2> QED BY <1>1, <1>2, <2>1, MovedRecord
<1> HIDE DEF r
<1>4. Unskipped(r)
  BY <1>1, <1>2, <1>3 DEF Unskipped
<1>5. OffersAhead(r)
  <2>1. run.offers \cap Se!Steps = {} /\ "terminal" \notin run.offers /\ run.offers \subseteq Failing
    BY <1>1 DEF OffersAhead
  <2>2. offers \cap Se!Steps = {} /\ "terminal" \notin offers /\ offers \subseteq Failing
    BY <2>1, OrderOfSteps DEF Failing, Se!ChannelParts
  <2> QED BY <1>3, <2>2 DEF OffersAhead
<1>6. run.said = "none"
  BY <1>1 DEF OwedAhead
<1>7. ASSUME r.owed \in Early
      PROVE  r.owed \notin r.skip /\ Stage(r.at) <= Stage(r.owed)
  <2>1. run.owed \in Early /\ run.owed # s /\ r.owed = run.owed
    BY <1>3, <1>7 DEF Early
  <2>2. run.owed \notin run.skip /\ Stage(run.at) <= Stage(run.owed) /\ run.owed \in Se!Steps
    BY <1>1, <2>1, OrderOfSteps DEF OwedAhead, Early
  <2>3. Stage(run.owed) \in 1..6
    BY <2>1 DEF Early, Stage, Se!ChannelParts
  <2>4. Stage(run.at) < Stage(run.owed)
    <3>1. s = run.at
      BY <1>0, <2>2, <2>3
    <3>2. run.at \in Se!Steps \/ Stage(run.at) > 6
      BY OrderOfSteps DEF Stage
    <3>3. Stage(run.at) # Stage(run.owed)
      <4>1. run.at \in Se!Steps
        BY <1>0, <2>2, <2>3, <3>2
      <4>2. Se!Order[Stage(run.at)] = run.at /\ Se!Order[Stage(run.owed)] = run.owed
        BY <2>2, <4>1, OrderOfSteps
      <4> QED BY <2>1, <3>1, <4>2
    <3> QED BY <1>0, <2>2, <2>3, <3>3
  <2>5. Stage(p) <= Stage(run.owed)
    <3>1. run.owed \in Se!Steps \ {"cli-agent"}
      BY <2>1, <2>2 DEF Early
    <3> QED BY <2>2, <2>4, <3>1 DEF NextStep
  <2> QED BY <1>3, <2>1, <2>2, <2>5
<1>8. ASSUME r.owed \in Se!ChannelParts
      PROVE  Stage(r.at) <= 9 /\ r.at \notin Se!ChannelParts
  <2>1. run.owed \in Se!ChannelParts
    BY <1>3, <1>8 DEF Se!ChannelParts
  <2>2. run.at \notin Se!ChannelParts /\ Stage(run.at) \in 1..8
    BY <1>1, <2>1 DEF OwedAhead
  <2>3. Stage("channel") = 9 /\ "channel" \in Se!Steps
    BY OrderOfSteps DEF Stage, Se!ChannelParts
  <2>4. "channel" \notin run.skip
    BY <1>1 DEF Unskipped
  <2>5. Stage(p) <= 9
    BY <2>2, <2>3, <2>4 DEF NextStep
  <2> QED BY <1>2, <1>3, <2>5, OrderOfSteps
<1>9. r.owed \in Failing \cup {"none"}
  <2>1. run.owed \in Failing \cup {"none"}
    BY <1>1 DEF OwedAhead
  <2> QED BY <1>3, <2>1
<1>10. OwedAhead(r)
  BY <1>3, <1>6, <1>7, <1>8, <1>9, Zenon DEF OwedAhead
<1> QED BY <1>3, <1>4, <1>5, <1>10 DEF RunOK, r

\* Aside to a part of the same step, back to the choice of a channel, or to the end.
LEMMA RunAside ==
  ASSUME RunOK(run), NEW s, NEW p, NEW skip, NEW offers,
         Stage(run.at) \in 1..8 \/ run.at \in Se!ChannelParts,
         skip = run.skip \/ (s \in Se!Steps \ {"channel", "verify"} /\ skip = run.skip \cup {s}),
         s \notin Early,
         p \in Se!Parts \cup {"channel", "idle"}, Stage(p) <= Stage(run.at),
         p \in Se!ChannelParts \cup {"channel"} => run.at \in Se!ChannelParts,
         p = "idle" => Stage(run.at) = 9, p # "idle" => Stage(p) = Stage(run.at),
         offers = run.offers \/ (s \in Se!ChannelParts /\ offers = run.offers \cup {s})
  PROVE  RunOK(Moved(p, skip, offers, s))
<1> DEFINE r == Moved(p, skip, offers, s)
<1>1. run \in SetupRunType /\ Unskipped(run) /\ OffersAhead(run) /\ OwedAhead(run)
  BY DEF RunOK
<1>0. Stage(run.at) \in 1..9 /\ run.at \notin {"idle", "failed"}
  BY DEF Stage, Se!ChannelParts
<1>3. /\ r.at = p /\ r.skip = skip /\ r.offers = offers /\ r.said = run.said
      /\ r.owed = IF run.owed = s THEN "none" ELSE run.owed
      /\ r \in SetupRunType
  <2>1. offers \in SUBSET (Se!Steps \cup Se!Parts) /\ skip \in SUBSET Se!Steps
    BY <1>1 DEF SetupRunType, Se!Parts
  <2>2. p \in Se!Steps \cup Se!Parts \cup {"idle", "failed"}
    BY OrderOfSteps
  <2> QED BY <1>1, <2>1, <2>2, MovedRecord
<1> HIDE DEF r
<1>4. Unskipped(r)
  <2>1. p \in Se!Steps => p = "channel"
    BY OrderOfSteps DEF Se!Parts, Se!ChannelParts
  <2>2. "channel" \notin skip /\ "verify" \notin skip
    BY <1>1 DEF Unskipped
  <2> QED BY <1>3, <2>1, <2>2 DEF Unskipped
<1>5. OffersAhead(r)
  <2>1. run.offers \cap Se!Steps = {} /\ "terminal" \notin run.offers /\ run.offers \subseteq Failing
    BY <1>0, <1>1 DEF OffersAhead
  <2>2. offers \cap Se!Steps = {} /\ "terminal" \notin offers /\ offers \subseteq Failing
    BY <2>1, OrderOfSteps DEF Failing, Se!ChannelParts
  <2> QED BY <1>3, <2>2 DEF OffersAhead
<1>6. run.said = "none"
  BY <1>0, <1>1 DEF OwedAhead
<1>7. ASSUME r.owed \in Early
      PROVE  r.owed \notin r.skip /\ Stage(r.at) <= Stage(r.owed)
  <2>1. run.owed \in Early /\ run.owed # s /\ r.owed = run.owed
    BY <1>3, <1>7 DEF Early
  <2>2. run.owed \notin run.skip /\ Stage(run.at) <= Stage(run.owed)
    BY <1>1, <2>1 DEF OwedAhead
  <2>3. Stage(run.owed) \in 1..6
    BY <2>1 DEF Early, Stage, Se!ChannelParts
  <2>4. p # "idle" /\ Stage(p) = Stage(run.at)
    BY <1>0, <2>2, <2>3
  <2> QED BY <1>3, <2>1, <2>2, <2>4
<1>8. ASSUME r.owed \in Se!ChannelParts
      PROVE  Stage(r.at) <= 9 /\ r.at \notin Se!ChannelParts
  <2>1. run.owed \in Se!ChannelParts
    BY <1>3, <1>8 DEF Se!ChannelParts
  <2>2. run.at \notin Se!ChannelParts
    BY <1>1, <2>1 DEF OwedAhead
  <2>3. Stage("idle") = 0
    BY DEF Stage, Se!ChannelParts
  <2> QED BY <1>0, <1>3, <2>2, <2>3
<1>9. r.owed \in Failing \cup {"none"}
  <2>1. run.owed \in Failing \cup {"none"}
    BY <1>1 DEF OwedAhead
  <2> QED BY <1>3, <2>1
<1>10. OwedAhead(r)
  BY <1>3, <1>6, <1>7, <1>8, <1>9, Zenon DEF OwedAhead
<1> QED BY <1>3, <1>4, <1>5, <1>10 DEF RunOK, r

\* Into fail(), which waits.
LEMMA RunFails ==
  ASSUME RunOK(run), NEW s \in Failing,
         Stage(run.at) \in 1..8 \/ run.at \in Se!ChannelParts,
         s \in Early => s = run.at
  PROVE  RunOK(Moved("failed", run.skip, run.offers \cup {s}, s))
<1> DEFINE r == Moved("failed", run.skip, run.offers \cup {s}, s)
<1>1. run \in SetupRunType /\ Unskipped(run) /\ OffersAhead(run) /\ OwedAhead(run)
  BY DEF RunOK
<1>0. run.at \notin {"idle", "failed"}
  BY DEF Stage, Se!ChannelParts
<1>3. /\ r.at = "failed" /\ r.skip = run.skip /\ r.offers = run.offers \cup {s} /\ r.said = run.said
      /\ r.owed = IF run.owed = s THEN "none" ELSE run.owed
      /\ r \in SetupRunType
  <2>1. run.offers \cup {s} \in SUBSET (Se!Steps \cup Se!Parts) /\ run.skip \in SUBSET Se!Steps
    BY <1>1, OrderOfSteps DEF SetupRunType, Se!Parts, Failing, Early, Excepted
  <2> QED BY <1>1, <2>1, MovedRecord
<1> HIDE DEF r
<1>4. Unskipped(r)
  BY <1>1, <1>3, OrderOfSteps DEF Unskipped
<1>5. OffersAhead(r)
  <2>1. run.offers \cap Se!Steps = {} /\ "terminal" \notin run.offers /\ run.offers \subseteq Failing
    BY <1>0, <1>1 DEF OffersAhead
  <2>2. s \in Early => s \in Se!Steps /\ s \notin run.skip
    BY <1>1, OrderOfSteps DEF Unskipped, Early
  <2> QED BY <1>3, <2>1, <2>2 DEF OffersAhead
<1>6. run.said = "none"
  BY <1>0, <1>1 DEF OwedAhead
<1>7. Stage("failed") = 0 /\ "failed" \notin Se!ChannelParts
  BY DEF Stage, Se!ChannelParts
<1>8. ASSUME r.owed \in Early
      PROVE  r.owed \notin r.skip /\ Stage(r.at) <= Stage(r.owed)
  <2>1. run.owed \in Early /\ r.owed = run.owed
    BY <1>3, <1>8 DEF Early
  <2>2. run.owed \notin run.skip
    BY <1>1, <2>1 DEF OwedAhead
  <2>3. Stage(run.owed) \in 1..6
    BY <2>1 DEF Early, Stage, Se!ChannelParts
  <2> QED BY <1>3, <1>7, <2>1, <2>2, <2>3
<1>9. r.owed \in Failing \cup {"none"}
  <2>1. run.owed \in Failing \cup {"none"}
    BY <1>1 DEF OwedAhead
  <2> QED BY <1>3, <2>1
<1>11. Stage(r.at) <= 9 /\ r.at \notin Se!ChannelParts
  BY <1>3, <1>7
<1>10. OwedAhead(r)
  BY <1>3, <1>6, <1>8, <1>9, <1>11, Zenon DEF OwedAhead
<1> QED BY <1>3, <1>4, <1>5, <1>10 DEF RunOK, r

(***************************************************************************)
(* What a step leaves behind.                                              *)
(***************************************************************************)
LEMMA SetupConstants ==
  ASSUME HostFit
  PROVE  Channels \subseteq Se!Known /\ MaxRuns \in Nat /\ MaxMishaps \in Nat
BY DEF HostFit, Se!ConstantAssumption

LEMMA WireTypes ==
  ASSUME world \in SetupWorldType, NEW agent \in {"ping-test", "terminal", "assistant"}, Se!Wire(agent)
  PROVE  /\ world' \in SetupWorldType /\ world'.agents = world.agents \cup {agent}
         /\ world'.env = world.env /\ world'.service = world.service /\ world'.deaf = world.deaf
         /\ world'.tz = world.tz /\ world'.adapter = world.adapter
BY DEF Se!Wire, SetupWorldType

LEMMA ZoneTypes ==
  ASSUME world \in SetupWorldType, NEW given, Se!SetZone(given)
  PROVE  world' \in SetupWorldType
<1>1. world' = [world EXCEPT !.tz = IF given THEN "chosen"
                                    ELSE IF world.tz = "none" THEN "detected" ELSE world.tz]
  BY DEF Se!SetZone
<1>2. (IF given THEN "chosen" ELSE IF world.tz = "none" THEN "detected" ELSE world.tz) \in Se!Zones
  BY DEF SetupWorldType, Se!Zones
<1> QED BY <1>1, <1>2 DEF SetupWorldType

\* The service after a restart that was heard, or not.
LEMMA RestartTypes ==
  ASSUME NEW w \in SetupWorldType
  PROVE  /\ Se!Restarted(w) \in SetupWorldType
         /\ Se!Restarted(w).service.credentials <=> "credentials" \in w.env
         /\ Se!Restarted(w).service.tz = w.tz /\ Se!Restarted(w).tz = w.tz
         /\ Se!Restarted(w).service.adapters = {c \in Channels : w.adapter[c] = "built"}
         /\ Se!Restarted(w).env = w.env /\ Se!Restarted(w).adapter = w.adapter
         /\ \A v \in Se!Unheard(w) : v \in SetupWorldType /\ v.deaf /\ v.env = w.env
<1> DEFINE serves == [up |-> TRUE, credentials |-> "credentials" \in w.env,
                      adapters |-> {c \in Channels : w.adapter[c] = "built"}, tz |-> w.tz]
<1>1. Se!Restarted(w) = [w EXCEPT !.deaf = FALSE, !.service = serves]
  BY DEF Se!Restarted
<1>2. serves \in [up : BOOLEAN, credentials : BOOLEAN, adapters : SUBSET Channels, tz : Se!Zones]
  BY DEF SetupWorldType
<1>3. /\ serves.credentials <=> "credentials" \in w.env
      /\ serves.tz = w.tz /\ serves.adapters = {c \in Channels : w.adapter[c] = "built"}
  OBVIOUS
<1> HIDE DEF serves
<1>4. /\ Se!Restarted(w) \in SetupWorldType /\ Se!Restarted(w).service = serves
      /\ Se!Restarted(w).env = w.env /\ Se!Restarted(w).adapter = w.adapter /\ Se!Restarted(w).tz = w.tz
  BY <1>1, <1>2 DEF SetupWorldType
<1>5. Se!Down \in [up : BOOLEAN, credentials : BOOLEAN, adapters : SUBSET Channels, tz : Se!Zones]
  BY DEF Se!Down, Se!Zones
<1>6. [w EXCEPT !.deaf = TRUE] \in SetupWorldType /\ [w EXCEPT !.deaf = TRUE, !.service = Se!Down] \in SetupWorldType
  BY <1>5 DEF SetupWorldType
<1>7. /\ [w EXCEPT !.deaf = TRUE].deaf /\ [w EXCEPT !.deaf = TRUE, !.service = Se!Down].deaf
      /\ [w EXCEPT !.deaf = TRUE].env = w.env /\ [w EXCEPT !.deaf = TRUE, !.service = Se!Down].env = w.env
  BY DEF SetupWorldType
<1>8. \A v \in Se!Unheard(w) : v \in SetupWorldType /\ v.deaf /\ v.env = w.env
  BY <1>6, <1>7 DEF Se!Unheard
<1> QED BY <1>3, <1>4, <1>8

LEMMA BuiltTypes == ASSUME world \in SetupWorldType PROVE Se!Built \in SetupWorldType
<1> DEFINE a == [c \in Channels |-> IF world.adapter[c] = "packages" THEN "built" ELSE world.adapter[c]]
<1>1. Se!Built = [world EXCEPT !.adapter = a]
  BY DEF Se!Built
<1>2. a \in [Channels -> {"none", "sources", "packages", "built"}]
  BY DEF SetupWorldType
<1> HIDE DEF a
<1> QED BY <1>1, <1>2 DEF SetupWorldType

\* The adapter of the channel that is set up is fetched, and credentials are written.
LEMMA FetchTypes ==
  ASSUME world \in SetupWorldType, run.choice \in Channels, NEW x \in {"none", "sources", "packages", "built"}
  PROVE  /\ [world EXCEPT !.adapter[run.choice] = x] \in SetupWorldType
         /\ Se!Fetch(world) \in SetupWorldType
         /\ Se!WithCredentials(world) \in SetupWorldType
         /\ Se!WithCredentials(Se!Fetch(world)) \in SetupWorldType
         /\ "credentials" \in Se!WithCredentials(world).env
         /\ "credentials" \in Se!WithCredentials(Se!Fetch(world)).env
<1>1. \A y \in {"none", "sources", "packages", "built"} :
        [world EXCEPT !.adapter[run.choice] = y] \in SetupWorldType
  <2> TAKE y \in {"none", "sources", "packages", "built"}
  <2> DEFINE a == [world.adapter EXCEPT ![run.choice] = y]
  <2>1. a \in [Channels -> {"none", "sources", "packages", "built"}]
    BY DEF SetupWorldType
  <2>2. [world EXCEPT !.adapter[run.choice] = y] = [world EXCEPT !.adapter = a]
    OBVIOUS
  <2> HIDE DEF a
  <2> QED BY <2>1, <2>2 DEF SetupWorldType
<1>2. Se!Fetch(world) \in SetupWorldType
  <2>1. world.adapter[run.choice] \in {"none", "sources", "packages", "built"}
    BY DEF SetupWorldType
  <2> QED BY <1>1, <2>1 DEF Se!Fetch
<1>3. \A w \in SetupWorldType :
        Se!WithCredentials(w) \in SetupWorldType /\ "credentials" \in Se!WithCredentials(w).env
  BY DEF Se!WithCredentials, SetupWorldType
<1> QED BY <1>1, <1>2, <1>3

\* The parts a channel's flow has, and the part that follows one.
PartsOf(c) ==
  CASE c = "telegram" -> {"token", "install", "pair", "init"}
    [] c \in {"discord", "slack"} -> {"token", "install", "dm", "init"}
    [] c = "imessage" -> {"mode", "install", "init"}
    [] c = "signal" -> {"cli", "install", "link", "restart", "init"}
    [] c = "whatsapp" -> {"install", "link", "restart", "init"}
    [] c = "teams" -> {"app", "bot", "manifest", "sideload", "install", "handoff"}
PartAfter(c, p) ==
  CASE p \in {"token", "mode", "cli", "sideload"} -> "install"
    [] p = "app" -> "bot" [] p = "bot" -> "manifest" [] p = "manifest" -> "sideload"
    [] p = "install" -> (CASE c = "telegram" -> "pair" [] c \in {"discord", "slack"} -> "dm"
                           [] c \in Se!Linking -> "link" [] c = "teams" -> "handoff" [] OTHER -> "init")
    [] p = "link" -> "restart" [] p \in {"dm", "pair", "restart"} -> "init"
    [] OTHER -> "none"
FirstPart(c) ==
  CASE c \in {"telegram", "discord", "slack"} -> "token" [] c = "imessage" -> "mode"
    [] c = "signal" -> "cli" [] c = "whatsapp" -> "install" [] c = "teams" -> "app"

LEMMA FlowParts ==
  ASSUME NEW c \in Se!Known
  PROVE  /\ Se!Flow[c][1] = FirstPart(c) /\ FirstPart(c) \in PartsOf(c)
         /\ PartsOf(c) \subseteq Se!ChannelParts
         /\ \A p \in PartsOf(c) : PartAfter(c, p) # "none" => PartAfter(c, p) \in PartsOf(c)
         /\ \A p \in PartsOf(c) :
              \E i \in DOMAIN Se!Flow[c] :
                /\ Se!Flow[c][i] = p
                /\ \A j \in DOMAIN Se!Flow[c] : Se!Flow[c][j] = p => j = i
                /\ IF PartAfter(c, p) = "none" THEN i = Len(Se!Flow[c])
                   ELSE i # Len(Se!Flow[c]) /\ Se!Flow[c][i + 1] = PartAfter(c, p)
<1> DEFINE Walked(f) ==
             \A p \in PartsOf(c) :
               \E i \in DOMAIN f :
                 /\ f[i] = p /\ \A j \in DOMAIN f : f[j] = p => j = i
                 /\ IF PartAfter(c, p) = "none" THEN i = Len(f)
                    ELSE i # Len(f) /\ f[i + 1] = PartAfter(c, p)
<1>1. CASE c = "telegram"
  <2>1. Se!Flow[c] = <<"token", "install", "pair", "init">>
    BY <1>1 DEF Se!Flow, Se!TelegramFlow
  <2>2. PartsOf(c) = {"token", "install", "pair", "init"} /\ FirstPart(c) = "token"
    BY <1>1 DEF PartsOf, FirstPart
  <2>3. PartAfter(c, "token") = "install" /\ PartAfter(c, "install") = "pair"
        /\ PartAfter(c, "pair") = "init" /\ PartAfter(c, "init") = "none"
    BY <1>1 DEF PartAfter, Se!Linking
  <2>4. Walked(Se!Flow[c])
    <3> DEFINE f == Se!Flow[c]
    <3>1. DOMAIN f = 1..4 /\ Len(f) = 4
      BY <2>1
    <3>2. f[1] = "token" /\ f[2] = "install" /\ f[3] = "pair" /\ f[4] = "init"
      BY <2>1
    <3>3. \A j \in 1..4 : j = 1 \/ j = 2 \/ j = 3 \/ j = 4
      OBVIOUS
    <3> HIDE DEF f
    <3>4. 1 \in DOMAIN f /\ f[1] = "token" /\ \A j \in DOMAIN f : f[j] = "token" => j = 1
      BY <3>1, <3>2, <3>3
    <3>5. 2 \in DOMAIN f /\ f[2] = "install" /\ \A j \in DOMAIN f : f[j] = "install" => j = 2
      BY <3>1, <3>2, <3>3
    <3>6. 3 \in DOMAIN f /\ f[3] = "pair" /\ \A j \in DOMAIN f : f[j] = "pair" => j = 3
      BY <3>1, <3>2, <3>3
    <3>7. 4 \in DOMAIN f /\ f[4] = "init" /\ \A j \in DOMAIN f : f[j] = "init" => j = 4
      BY <3>1, <3>2, <3>3
    <3> QED BY <2>2, <2>3, <3>1, <3>2, <3>4, <3>5, <3>6, <3>7 DEF f
  <2>5. Se!Flow[c][1] = FirstPart(c) /\ FirstPart(c) \in PartsOf(c) /\ PartsOf(c) \subseteq Se!ChannelParts
    BY <2>1, <2>2 DEF Se!ChannelParts
  <2>6. \A p \in PartsOf(c) : PartAfter(c, p) # "none" => PartAfter(c, p) \in PartsOf(c)
    BY <2>2, <2>3
  <2> QED BY <2>4, <2>5, <2>6
<1>2. CASE c = "discord"
  <2>1. Se!Flow[c] = <<"token", "install", "dm", "init">>
    BY <1>2 DEF Se!Flow, Se!DiscordFlow
  <2>2. PartsOf(c) = {"token", "install", "dm", "init"} /\ FirstPart(c) = "token"
    BY <1>2 DEF PartsOf, FirstPart
  <2>3. PartAfter(c, "token") = "install" /\ PartAfter(c, "install") = "dm"
        /\ PartAfter(c, "dm") = "init" /\ PartAfter(c, "init") = "none"
    BY <1>2 DEF PartAfter, Se!Linking
  <2>4. Walked(Se!Flow[c])
    <3> DEFINE f == Se!Flow[c]
    <3>1. DOMAIN f = 1..4 /\ Len(f) = 4
      BY <2>1
    <3>2. f[1] = "token" /\ f[2] = "install" /\ f[3] = "dm" /\ f[4] = "init"
      BY <2>1
    <3>3. \A j \in 1..4 : j = 1 \/ j = 2 \/ j = 3 \/ j = 4
      OBVIOUS
    <3> HIDE DEF f
    <3>4. 1 \in DOMAIN f /\ f[1] = "token" /\ \A j \in DOMAIN f : f[j] = "token" => j = 1
      BY <3>1, <3>2, <3>3
    <3>5. 2 \in DOMAIN f /\ f[2] = "install" /\ \A j \in DOMAIN f : f[j] = "install" => j = 2
      BY <3>1, <3>2, <3>3
    <3>6. 3 \in DOMAIN f /\ f[3] = "dm" /\ \A j \in DOMAIN f : f[j] = "dm" => j = 3
      BY <3>1, <3>2, <3>3
    <3>7. 4 \in DOMAIN f /\ f[4] = "init" /\ \A j \in DOMAIN f : f[j] = "init" => j = 4
      BY <3>1, <3>2, <3>3
    <3> QED BY <2>2, <2>3, <3>1, <3>2, <3>4, <3>5, <3>6, <3>7 DEF f
  <2>5. Se!Flow[c][1] = FirstPart(c) /\ FirstPart(c) \in PartsOf(c) /\ PartsOf(c) \subseteq Se!ChannelParts
    BY <2>1, <2>2 DEF Se!ChannelParts
  <2>6. \A p \in PartsOf(c) : PartAfter(c, p) # "none" => PartAfter(c, p) \in PartsOf(c)
    BY <2>2, <2>3
  <2> QED BY <2>4, <2>5, <2>6
<1>3. CASE c = "slack"
  <2>1. Se!Flow[c] = <<"token", "install", "dm", "init">>
    BY <1>3 DEF Se!Flow, Se!SlackFlow
  <2>2. PartsOf(c) = {"token", "install", "dm", "init"} /\ FirstPart(c) = "token"
    BY <1>3 DEF PartsOf, FirstPart
  <2>3. PartAfter(c, "token") = "install" /\ PartAfter(c, "install") = "dm"
        /\ PartAfter(c, "dm") = "init" /\ PartAfter(c, "init") = "none"
    BY <1>3 DEF PartAfter, Se!Linking
  <2>4. Walked(Se!Flow[c])
    <3> DEFINE f == Se!Flow[c]
    <3>1. DOMAIN f = 1..4 /\ Len(f) = 4
      BY <2>1
    <3>2. f[1] = "token" /\ f[2] = "install" /\ f[3] = "dm" /\ f[4] = "init"
      BY <2>1
    <3>3. \A j \in 1..4 : j = 1 \/ j = 2 \/ j = 3 \/ j = 4
      OBVIOUS
    <3> HIDE DEF f
    <3>4. 1 \in DOMAIN f /\ f[1] = "token" /\ \A j \in DOMAIN f : f[j] = "token" => j = 1
      BY <3>1, <3>2, <3>3
    <3>5. 2 \in DOMAIN f /\ f[2] = "install" /\ \A j \in DOMAIN f : f[j] = "install" => j = 2
      BY <3>1, <3>2, <3>3
    <3>6. 3 \in DOMAIN f /\ f[3] = "dm" /\ \A j \in DOMAIN f : f[j] = "dm" => j = 3
      BY <3>1, <3>2, <3>3
    <3>7. 4 \in DOMAIN f /\ f[4] = "init" /\ \A j \in DOMAIN f : f[j] = "init" => j = 4
      BY <3>1, <3>2, <3>3
    <3> QED BY <2>2, <2>3, <3>1, <3>2, <3>4, <3>5, <3>6, <3>7 DEF f
  <2>5. Se!Flow[c][1] = FirstPart(c) /\ FirstPart(c) \in PartsOf(c) /\ PartsOf(c) \subseteq Se!ChannelParts
    BY <2>1, <2>2 DEF Se!ChannelParts
  <2>6. \A p \in PartsOf(c) : PartAfter(c, p) # "none" => PartAfter(c, p) \in PartsOf(c)
    BY <2>2, <2>3
  <2> QED BY <2>4, <2>5, <2>6
<1>4. CASE c = "imessage"
  <2>1. Se!Flow[c] = <<"mode", "install", "init">>
    BY <1>4 DEF Se!Flow, Se!IMessageFlow
  <2>2. PartsOf(c) = {"mode", "install", "init"} /\ FirstPart(c) = "mode"
    BY <1>4 DEF PartsOf, FirstPart
  <2>3. PartAfter(c, "mode") = "install" /\ PartAfter(c, "install") = "init"
        /\ PartAfter(c, "init") = "none"
    BY <1>4 DEF PartAfter, Se!Linking
  <2>4. Walked(Se!Flow[c])
    <3> DEFINE f == Se!Flow[c]
    <3>1. DOMAIN f = 1..3 /\ Len(f) = 3
      BY <2>1
    <3>2. f[1] = "mode" /\ f[2] = "install" /\ f[3] = "init"
      BY <2>1
    <3>3. \A j \in 1..3 : j = 1 \/ j = 2 \/ j = 3
      OBVIOUS
    <3> HIDE DEF f
    <3>4. 1 \in DOMAIN f /\ f[1] = "mode" /\ \A j \in DOMAIN f : f[j] = "mode" => j = 1
      BY <3>1, <3>2, <3>3
    <3>5. 2 \in DOMAIN f /\ f[2] = "install" /\ \A j \in DOMAIN f : f[j] = "install" => j = 2
      BY <3>1, <3>2, <3>3
    <3>6. 3 \in DOMAIN f /\ f[3] = "init" /\ \A j \in DOMAIN f : f[j] = "init" => j = 3
      BY <3>1, <3>2, <3>3
    <3> QED BY <2>2, <2>3, <3>1, <3>2, <3>4, <3>5, <3>6 DEF f
  <2>5. Se!Flow[c][1] = FirstPart(c) /\ FirstPart(c) \in PartsOf(c) /\ PartsOf(c) \subseteq Se!ChannelParts
    BY <2>1, <2>2 DEF Se!ChannelParts
  <2>6. \A p \in PartsOf(c) : PartAfter(c, p) # "none" => PartAfter(c, p) \in PartsOf(c)
    BY <2>2, <2>3
  <2> QED BY <2>4, <2>5, <2>6
<1>5. CASE c = "signal"
  <2>1. Se!Flow[c] = <<"cli", "install", "link", "restart", "init">>
    BY <1>5 DEF Se!Flow, Se!SignalFlow
  <2>2. PartsOf(c) = {"cli", "install", "link", "restart", "init"} /\ FirstPart(c) = "cli"
    BY <1>5 DEF PartsOf, FirstPart
  <2>3. PartAfter(c, "cli") = "install" /\ PartAfter(c, "install") = "link"
        /\ PartAfter(c, "link") = "restart" /\ PartAfter(c, "restart") = "init"
        /\ PartAfter(c, "init") = "none"
    BY <1>5 DEF PartAfter, Se!Linking
  <2>4. Walked(Se!Flow[c])
    <3> DEFINE f == Se!Flow[c]
    <3>1. DOMAIN f = 1..5 /\ Len(f) = 5
      BY <2>1
    <3>2. f[1] = "cli" /\ f[2] = "install" /\ f[3] = "link" /\ f[4] = "restart" /\ f[5] = "init"
      BY <2>1
    <3>3. \A j \in 1..5 : j = 1 \/ j = 2 \/ j = 3 \/ j = 4 \/ j = 5
      OBVIOUS
    <3> HIDE DEF f
    <3>4. 1 \in DOMAIN f /\ f[1] = "cli" /\ \A j \in DOMAIN f : f[j] = "cli" => j = 1
      BY <3>1, <3>2, <3>3
    <3>5. 2 \in DOMAIN f /\ f[2] = "install" /\ \A j \in DOMAIN f : f[j] = "install" => j = 2
      BY <3>1, <3>2, <3>3
    <3>6. 3 \in DOMAIN f /\ f[3] = "link" /\ \A j \in DOMAIN f : f[j] = "link" => j = 3
      BY <3>1, <3>2, <3>3
    <3>7. 4 \in DOMAIN f /\ f[4] = "restart" /\ \A j \in DOMAIN f : f[j] = "restart" => j = 4
      BY <3>1, <3>2, <3>3
    <3>8. 5 \in DOMAIN f /\ f[5] = "init" /\ \A j \in DOMAIN f : f[j] = "init" => j = 5
      BY <3>1, <3>2, <3>3
    <3> QED BY <2>2, <2>3, <3>1, <3>2, <3>4, <3>5, <3>6, <3>7, <3>8 DEF f
  <2>5. Se!Flow[c][1] = FirstPart(c) /\ FirstPart(c) \in PartsOf(c) /\ PartsOf(c) \subseteq Se!ChannelParts
    BY <2>1, <2>2 DEF Se!ChannelParts
  <2>6. \A p \in PartsOf(c) : PartAfter(c, p) # "none" => PartAfter(c, p) \in PartsOf(c)
    BY <2>2, <2>3
  <2> QED BY <2>4, <2>5, <2>6
<1>6. CASE c = "whatsapp"
  <2>1. Se!Flow[c] = <<"install", "link", "restart", "init">>
    BY <1>6 DEF Se!Flow, Se!WhatsAppFlow
  <2>2. PartsOf(c) = {"install", "link", "restart", "init"} /\ FirstPart(c) = "install"
    BY <1>6 DEF PartsOf, FirstPart
  <2>3. PartAfter(c, "install") = "link" /\ PartAfter(c, "link") = "restart"
        /\ PartAfter(c, "restart") = "init" /\ PartAfter(c, "init") = "none"
    BY <1>6 DEF PartAfter, Se!Linking
  <2>4. Walked(Se!Flow[c])
    <3> DEFINE f == Se!Flow[c]
    <3>1. DOMAIN f = 1..4 /\ Len(f) = 4
      BY <2>1
    <3>2. f[1] = "install" /\ f[2] = "link" /\ f[3] = "restart" /\ f[4] = "init"
      BY <2>1
    <3>3. \A j \in 1..4 : j = 1 \/ j = 2 \/ j = 3 \/ j = 4
      OBVIOUS
    <3> HIDE DEF f
    <3>4. 1 \in DOMAIN f /\ f[1] = "install" /\ \A j \in DOMAIN f : f[j] = "install" => j = 1
      BY <3>1, <3>2, <3>3
    <3>5. 2 \in DOMAIN f /\ f[2] = "link" /\ \A j \in DOMAIN f : f[j] = "link" => j = 2
      BY <3>1, <3>2, <3>3
    <3>6. 3 \in DOMAIN f /\ f[3] = "restart" /\ \A j \in DOMAIN f : f[j] = "restart" => j = 3
      BY <3>1, <3>2, <3>3
    <3>7. 4 \in DOMAIN f /\ f[4] = "init" /\ \A j \in DOMAIN f : f[j] = "init" => j = 4
      BY <3>1, <3>2, <3>3
    <3> QED BY <2>2, <2>3, <3>1, <3>2, <3>4, <3>5, <3>6, <3>7 DEF f
  <2>5. Se!Flow[c][1] = FirstPart(c) /\ FirstPart(c) \in PartsOf(c) /\ PartsOf(c) \subseteq Se!ChannelParts
    BY <2>1, <2>2 DEF Se!ChannelParts
  <2>6. \A p \in PartsOf(c) : PartAfter(c, p) # "none" => PartAfter(c, p) \in PartsOf(c)
    BY <2>2, <2>3
  <2> QED BY <2>4, <2>5, <2>6
<1>7. CASE c = "teams"
  <2>1. Se!Flow[c] = <<"app", "bot", "manifest", "sideload", "install", "handoff">>
    BY <1>7 DEF Se!Flow, Se!TeamsFlow
  <2>2. PartsOf(c) = {"app", "bot", "manifest", "sideload", "install", "handoff"} /\ FirstPart(c) = "app"
    BY <1>7 DEF PartsOf, FirstPart
  <2>3. PartAfter(c, "app") = "bot" /\ PartAfter(c, "bot") = "manifest"
        /\ PartAfter(c, "manifest") = "sideload" /\ PartAfter(c, "sideload") = "install"
        /\ PartAfter(c, "install") = "handoff" /\ PartAfter(c, "handoff") = "none"
    BY <1>7 DEF PartAfter, Se!Linking
  <2>4. Walked(Se!Flow[c])
    <3> DEFINE f == Se!Flow[c]
    <3>1. DOMAIN f = 1..6 /\ Len(f) = 6
      BY <2>1
    <3>2. f[1] = "app" /\ f[2] = "bot" /\ f[3] = "manifest" /\ f[4] = "sideload" /\ f[5] = "install" /\ f[6] = "handoff"
      BY <2>1
    <3>3. \A j \in 1..6 : j = 1 \/ j = 2 \/ j = 3 \/ j = 4 \/ j = 5 \/ j = 6
      OBVIOUS
    <3> HIDE DEF f
    <3>4. 1 \in DOMAIN f /\ f[1] = "app" /\ \A j \in DOMAIN f : f[j] = "app" => j = 1
      BY <3>1, <3>2, <3>3
    <3>5. 2 \in DOMAIN f /\ f[2] = "bot" /\ \A j \in DOMAIN f : f[j] = "bot" => j = 2
      BY <3>1, <3>2, <3>3
    <3>6. 3 \in DOMAIN f /\ f[3] = "manifest" /\ \A j \in DOMAIN f : f[j] = "manifest" => j = 3
      BY <3>1, <3>2, <3>3
    <3>7. 4 \in DOMAIN f /\ f[4] = "sideload" /\ \A j \in DOMAIN f : f[j] = "sideload" => j = 4
      BY <3>1, <3>2, <3>3
    <3>8. 5 \in DOMAIN f /\ f[5] = "install" /\ \A j \in DOMAIN f : f[j] = "install" => j = 5
      BY <3>1, <3>2, <3>3
    <3>9. 6 \in DOMAIN f /\ f[6] = "handoff" /\ \A j \in DOMAIN f : f[j] = "handoff" => j = 6
      BY <3>1, <3>2, <3>3
    <3> QED BY <2>2, <2>3, <3>1, <3>2, <3>4, <3>5, <3>6, <3>7, <3>8, <3>9 DEF f
  <2>5. Se!Flow[c][1] = FirstPart(c) /\ FirstPart(c) \in PartsOf(c) /\ PartsOf(c) \subseteq Se!ChannelParts
    BY <2>1, <2>2 DEF Se!ChannelParts
  <2>6. \A p \in PartsOf(c) : PartAfter(c, p) # "none" => PartAfter(c, p) \in PartsOf(c)
    BY <2>2, <2>3
  <2> QED BY <2>4, <2>5, <2>6
<1> QED BY <1>1, <1>2, <1>3, <1>4, <1>5, <1>6, <1>7 DEF Se!Known

LEMMA ThenIs ==
  ASSUME HostFit, run.choice \in Channels, NEW p \in PartsOf(run.choice)
  PROVE  Se!Then(p) = IF PartAfter(run.choice, p) = "none" THEN Se!After("channel")
                      ELSE PartAfter(run.choice, p)
<1> DEFINE f == Se!Flow[run.choice]
           k == CHOOSE i \in DOMAIN f : f[i] = p
<1>1. run.choice \in Se!Known
  BY SetupConstants
<1>2. PICK i \in DOMAIN f :
        /\ f[i] = p
        /\ \A j \in DOMAIN f : f[j] = p => j = i
        /\ IF PartAfter(run.choice, p) = "none" THEN i = Len(f)
           ELSE i # Len(f) /\ f[i + 1] = PartAfter(run.choice, p)
  BY <1>1, FlowParts
<1>3. Se!Then(p) = IF k = Len(f) THEN Se!After("channel") ELSE f[k + 1]
  BY DEF Se!Then
<1>4. k \in DOMAIN f /\ f[k] = p
  BY <1>2
<1>5. k = i
  BY <1>2, <1>4
<1> HIDE DEF k, f
<1> QED BY <1>2, <1>3, <1>5

\* Past a step comes the next one that is not skipped.
LEMMA AfterIs ==
  ASSUME Unskipped(run), NEW s \in Se!Steps \ {"verify"}
  PROVE  NextStep(Se!After(s), Stage(s), run.skip)
<1>1. Stage(s) \in 1..10 /\ Se!Order[Stage(s)] = s
  BY OrderOfSteps
<1>2. \A i \in DOMAIN Se!Order : Se!Order[i] = s => i = Stage(s)
  BY OrderOfSteps
<1>3. (CHOOSE i \in DOMAIN Se!Order : Se!Order[i] = s) = Stage(s)
  BY <1>1, <1>2, OrderOfSteps
<1>4. Stage(s) # 10
  BY <1>1, OrderOfSteps
<1>5. Stage(s) \in 0..9
  BY <1>1, <1>4
<1>6. Se!After(s) = Se!From(Stage(s) + 1, run.skip, world'.agents)
  BY <1>3 DEF Se!After
<1> QED BY <1>5, <1>6, FirstLeft DEF Unskipped

LEMMA AfterChannel == ASSUME Unskipped(run) PROVE Se!After("channel") = "verify"
<1>1. "channel" \in Se!Steps \ {"verify"} /\ Stage("channel") = 9
  BY OrderOfSteps DEF Stage, Se!ChannelParts
<1>2. NextStep(Se!After("channel"), 9, run.skip)
  BY <1>1, AfterIs
<1>3. Se!After("channel") \in Se!Steps /\ Stage(Se!After("channel")) > 9
  BY <1>2, OrderOfSteps DEF NextStep
<1>4. Stage(Se!After("channel")) = 10
  BY <1>3, OrderOfSteps
<1> QED BY <1>3, <1>4, OrderOfSteps

(***************************************************************************)
(* The invariant: runs go on at steps not skipped, channels in their flows.  *)
(***************************************************************************)
ChoiceOK(r) ==
  /\ Stage(r.at) \in 1..8 => r.choice = "skip"
  /\ r.at \in Se!ChannelParts => r.choice \in Channels /\ r.at \in PartsOf(r.choice)

\* The service that runs knows what is there, as far as a restart was heard.
Knows(r, w) ==
  \/ w.deaf
  \/ /\ w.service.credentials /\ w.service.tz = w.tz
     /\ r.choice \in w.service.adapters \/ w.adapter[r.choice] # "built"

\* What the flow of a channel that wires the assistant has achieved where it is, if no
\* failure was passed over.
WiredOK(r, w) ==
  r.choice \in Se!Wiring /\ r.offers = {} =>
    /\ r.at = "restart" => "credentials" \in w.env
    /\ r.at \in {"dm", "init", "verify"} \/ r.said # "none" => "credentials" \in w.env /\ Knows(r, w)
    /\ r.at = "verify" \/ r.said # "none" => "assistant" \in w.agents

SetupInv ==
  /\ RunOK(run) /\ ChoiceOK(run) /\ WiredOK(run, world)
  /\ world \in SetupWorldType /\ SetupCounts

LEMMA DoneMoves ==
  ASSUME run \in SetupRunType, NEW s, NEW p, Se!Done(s, p)
  PROVE  run' = Moved(p, run.skip \cup {s}, run.offers, s) /\ UNCHANGED <<wanted, processes, mishaps>>
BY DEF Se!Done, Moved, SetupRunType

LEMMA GoMoves ==
  ASSUME run \in SetupRunType, NEW s, NEW p, Se!Go(s, p)
  PROVE  run' = Moved(p, run.skip, run.offers, s) /\ UNCHANGED <<wanted, processes, mishaps>>
BY DEF Se!Go, Moved, SetupRunType

LEMMA MishapMoves ==
  ASSUME HostFit, SetupCounts, run \in SetupRunType, NEW s, NEW p, Se!Mishap(s, p)
  PROVE  run' = Moved(p, run.skip, run.offers, s) /\ SetupCounts'
<1>1. run' = Moved(p, run.skip, run.offers, s)
  BY DEF Se!Mishap, Moved, SetupRunType
<1>2. SetupCounts'
  BY SetupConstants DEF Se!Mishap, SetupCounts
<1> QED BY <1>1, <1>2

LEMMA FailMoves ==
  ASSUME HostFit, SetupCounts, run \in SetupRunType, NEW s, NEW awaited, NEW p, Se!Fail(s, awaited, p)
  PROVE  run' = Moved(IF awaited THEN "failed" ELSE p, run.skip, run.offers \cup {s}, s) /\ SetupCounts'
<1>1. run' = Moved(IF awaited THEN "failed" ELSE p, run.skip, run.offers \cup {s}, s)
  BY DEF Se!Fail, Moved, SetupRunType
<1>2. SetupCounts'
  BY SetupConstants DEF Se!Fail, SetupCounts
<1> QED BY <1>1, <1>2

LEMMA CountsStay == ASSUME SetupCounts, UNCHANGED <<wanted, processes, mishaps>> PROVE SetupCounts'
BY DEF SetupCounts

\* Before the channel there is no choice, so what is left behind only has to be of its type.
LEMMA EarlyMove ==
  ASSUME SetupInv, Stage(run.at) \in 1..8, NEW p, NEW skip, NEW offers, NEW s,
         run' = Moved(p, skip, offers, s), RunOK(Moved(p, skip, offers, s)),
         p \notin Se!ChannelParts, world' \in SetupWorldType, SetupCounts'
  PROVE  SetupInv'
<1>1. run \in SetupRunType /\ run.choice = "skip"
  BY DEF SetupInv, RunOK, ChoiceOK
<1>2. run'.choice = "skip" /\ run'.at = p
  BY <1>1, MovedRecord
<1>3. ChoiceOK(run')
  BY <1>2 DEF ChoiceOK
<1>4. "skip" \notin Se!Wiring
  BY DEF Se!Wiring, Se!Known
<1>5. WiredOK(run', world')
  BY <1>2, <1>4 DEF WiredOK
<1> QED BY <1>3, <1>5 DEF SetupInv

\* On from step s, or from a part of it.
LEMMA EarlyOn ==
  ASSUME HostFit, SetupInv, NEW t \in Se!Steps \ {"channel", "verify"}, Stage(run.at) = Stage(t),
         NEW s, s = run.at \/ Stage(t) > 6, s \notin Early \/ s = t,
         s \in Se!Steps => s = t,
         \/ s = t /\ Se!Done(s, Se!After(t))
         \/ Se!Go(s, Se!After(t)) \/ Se!Mishap(s, Se!After(t)),
         world' \in SetupWorldType
  PROVE  SetupInv'
<1> DEFINE p == Se!After(t)
<1>1. RunOK(run) /\ run \in SetupRunType /\ Unskipped(run) /\ SetupCounts
  BY DEF SetupInv, RunOK
<1>2. NextStep(p, Stage(run.at), run.skip)
  BY <1>1, AfterIs
<1>3. Stage(run.at) \in 1..8
  <2>1. Stage(t) \in 1..10 /\ Se!Order[Stage(t)] = t
    BY OrderOfSteps
  <2>2. Stage(t) # 10 /\ Stage(t) # 9
    BY <2>1, OrderOfSteps
  <2> QED BY <2>1, <2>2
<1>4. run.at \notin {"idle", "failed"}
  BY <1>3 DEF Stage, Se!ChannelParts
<1>5. p \in Se!Steps /\ p # t /\ p \notin Se!ChannelParts
  BY <1>2, OrderOfSteps DEF NextStep
<1> HIDE DEF p
<1>6. \E skip : /\ skip = run.skip \/ (s \in Se!Steps \ {"channel", "verify"} /\ skip = run.skip \cup {s})
                /\ run' = Moved(p, skip, run.offers, s)
                /\ SetupCounts'
  BY <1>1, DoneMoves, GoMoves, MishapMoves, CountsStay DEF p
<1>7. PICK skip : /\ skip = run.skip \/ (s \in Se!Steps \ {"channel", "verify"} /\ skip = run.skip \cup {s})
                  /\ run' = Moved(p, skip, run.offers, s)
                  /\ SetupCounts'
  BY <1>6
<1>8. s \in Early => Stage(s) = Stage(run.at)
  OBVIOUS
<1>10. s = run.at \/ Stage(run.at) > 6
  OBVIOUS
<1>9. RunOK(Moved(p, skip, run.offers, s))
  BY <1>1, <1>2, <1>3, <1>4, <1>5, <1>7, <1>8, <1>10, RunOn
<1> QED BY <1>3, <1>5, <1>7, <1>9, EarlyMove

\* Aside to another part of it.
LEMMA EarlyAside ==
  ASSUME HostFit, SetupInv, Stage(run.at) \in 1..8, NEW s, s \notin Early,
         NEW p \in {"ping", "cleanup", "next", "confirm", "persist"}, Stage(p) = Stage(run.at),
         \/ s \in {"cli-agent", "timezone"} /\ Se!Done(s, p)
         \/ Se!Go(s, p) \/ Se!Mishap(s, p),
         world' \in SetupWorldType
  PROVE  SetupInv'
<1>1. RunOK(run) /\ run \in SetupRunType /\ SetupCounts
  BY DEF SetupInv, RunOK
<1>2. \E skip : /\ skip = run.skip \/ (s \in {"cli-agent", "timezone"} /\ skip = run.skip \cup {s})
                /\ run' = Moved(p, skip, run.offers, s)
                /\ SetupCounts'
  BY <1>1, DoneMoves, GoMoves, MishapMoves, CountsStay
<1>3. PICK skip : /\ skip = run.skip \/ (s \in {"cli-agent", "timezone"} /\ skip = run.skip \cup {s})
                  /\ run' = Moved(p, skip, run.offers, s)
                  /\ SetupCounts'
  BY <1>2
<1>4. p \in Se!Parts /\ p \notin Se!ChannelParts \cup {"channel", "idle"}
  BY DEF Se!Parts, Se!ChannelParts
<1>5. {"cli-agent", "timezone"} \subseteq Se!Steps \ {"channel", "verify"}
  BY OrderOfSteps
<1>6. RunOK(Moved(p, skip, run.offers, s))
  <2>1. skip = run.skip \/ (s \in Se!Steps \ {"channel", "verify"} /\ skip = run.skip \cup {s})
    BY <1>3, <1>5
  <2>2. Stage(p) <= Stage(run.at)
    OBVIOUS
  <2> QED BY <1>1, <1>4, <2>1, <2>2, RunAside
<1> QED BY <1>3, <1>4, <1>6, EarlyMove

LEMMA EarlyFails ==
  ASSUME HostFit, SetupInv, Stage(run.at) \in 1..8, NEW s \in Failing, s \in Early => s = run.at,
         NEW p, Se!Fail(s, TRUE, p), world' \in SetupWorldType
  PROVE  SetupInv'
<1>1. RunOK(run) /\ run \in SetupRunType /\ SetupCounts
  BY DEF SetupInv, RunOK
<1>2. run' = Moved("failed", run.skip, run.offers \cup {s}, s) /\ SetupCounts'
  BY <1>1, FailMoves
<1>3. RunOK(Moved("failed", run.skip, run.offers \cup {s}, s))
  BY <1>1, RunFails
<1>4. "failed" \notin Se!ChannelParts
  BY DEF Se!ChannelParts
<1> QED BY <1>2, <1>3, <1>4, EarlyMove

LEMMA StagesAre ==
  /\ Stage("environment") = 1 /\ Stage("container") = 2 /\ Stage("onecli") = 3 /\ Stage("auth") = 4
  /\ Stage("mounts") = 5 /\ Stage("service") = 6 /\ Stage("cli-agent") = 7 /\ Stage("ping") = 7
  /\ Stage("cleanup") = 7 /\ Stage("next") = 7 /\ Stage("timezone") = 8 /\ Stage("confirm") = 8
  /\ Stage("persist") = 8 /\ Stage("channel") = 9 /\ Stage("verify") = 10
  /\ Stage("idle") = 0 /\ Stage("failed") = 0
  /\ \A p \in Se!ChannelParts : Stage(p) = 9
BY DEF Stage, Se!ChannelParts

LEMMA StepsAre ==
  {"environment", "container", "onecli", "auth", "mounts", "service", "cli-agent", "timezone"}
    \subseteq Se!Steps \ {"channel", "verify"}
BY OrderOfSteps

\* A process starts, fresh or to resume at a step on offer.
LEMMA SetupStarts ==
  ASSUME HostFit, SetupInv, NEW skip \in SUBSET Se!Steps, NEW owed \in Failing \cup {"none"},
         "channel" \notin skip, "verify" \notin skip, owed \in Early => owed \notin skip,
         Se!Started(skip, owed)
  PROVE  SetupInv'
<1> DEFINE p == Se!From(1, skip, world.agents)
<1>1. NextStep(p, 0, skip)
  BY FirstLeft
<1>2. run' = [at |-> p, skip |-> skip, offers |-> {}, owed |-> owed, choice |-> "skip", said |-> "none"]
  BY DEF Se!Started
<1>3. world' = world /\ wanted' = wanted /\ mishaps' = mishaps /\ processes < MaxRuns /\ processes' = processes + 1
  BY DEF Se!Started
<1> HIDE DEF p
<1>4. p \in Se!Steps /\ p \notin skip /\ p \notin Se!ChannelParts
  BY <1>1, OrderOfSteps DEF NextStep
<1>5. owed \in Se!Steps \cup Se!Parts \cup {"none"}
  BY OrderOfSteps DEF Failing, Early, Excepted, Se!Parts
<1>6. run' \in SetupRunType
  BY <1>2, <1>4, <1>5 DEF SetupRunType
<1>7. owed \in Early => owed \in Se!Steps \ {"cli-agent"} /\ 0 < Stage(owed)
  BY OrderOfSteps, StagesAre DEF Early
<1>8. owed \in Early => Stage(p) <= Stage(owed)
  BY <1>1, <1>7 DEF NextStep
<1>9. Stage(p) <= 9
  BY <1>1, OrderOfSteps, StagesAre DEF NextStep
<1>10. Unskipped(run') /\ OffersAhead(run')
  BY <1>2, <1>4 DEF Unskipped, OffersAhead
<1>11. OwedAhead(run')
  BY <1>2, <1>4, <1>8, <1>9 DEF OwedAhead
<1>12. ChoiceOK(run') /\ WiredOK(run', world')
  BY <1>2, <1>4 DEF ChoiceOK, WiredOK, Se!Wiring, Se!Known
<1>13. SetupCounts'
  BY <1>3, SetupConstants DEF SetupInv, SetupCounts
<1> QED BY <1>3, <1>6, <1>10, <1>11, <1>12, <1>13 DEF SetupInv, RunOK

LEMMA SetupBegin == ASSUME HostFit, SetupInv, Se!Begin PROVE SetupInv'
BY SetupStarts DEF Se!Begin, Early, Se!ChannelParts

LEMMA SetupRetry ==
  ASSUME HostFit, SetupInv, NEW s, Se!Retry(s)
  PROVE  SetupInv'
<1>1. run \in SetupRunType /\ Unskipped(run) /\ OffersAhead(run) /\ s \in run.offers /\ Se!Started(run.skip, s)
  BY DEF SetupInv, RunOK, Se!Retry
<1>2. s \in Failing /\ (s \in Early => s \notin run.skip)
  BY <1>1, OrderOfSteps DEF OffersAhead, Early
<1>3. run.skip \in SUBSET Se!Steps
  BY <1>1 DEF SetupRunType
<1> QED BY <1>1, <1>2, <1>3, SetupStarts DEF Unskipped

LEMMA SetupQuit == ASSUME HostFit, SetupInv, Se!Quit PROVE SetupInv'
<1>1. run \in SetupRunType /\ Unskipped(run)
  BY DEF SetupInv, RunOK
<1>2. /\ run'.at = "idle" /\ run'.offers = {} /\ run'.owed = "none" /\ run'.said = "none"
      /\ run'.skip = run.skip /\ run' \in SetupRunType
  <2>1. run' = [run EXCEPT !.at = "idle", !.offers = {}, !.owed = "none", !.said = "none"]
    BY DEF Se!Quit
  <2> QED BY <1>1, <2>1 DEF SetupRunType
<1>3. UNCHANGED <<world, wanted, processes, mishaps>>
  BY DEF Se!Quit
<1>4. "idle" \notin Se!Steps /\ "idle" \notin Se!ChannelParts
  BY OrderOfSteps DEF Se!ChannelParts
<1>5. Unskipped(run') /\ OffersAhead(run') /\ OwedAhead(run')
  BY <1>1, <1>2, <1>4 DEF Unskipped, OffersAhead, OwedAhead, Early, Se!ChannelParts
<1>6. ChoiceOK(run') /\ WiredOK(run', world')
  BY <1>2, <1>4, StagesAre DEF ChoiceOK, WiredOK
<1>7. SetupCounts'
  BY <1>3, CountsStay DEF SetupInv
<1> QED BY <1>2, <1>3, <1>5, <1>6, <1>7 DEF SetupInv, RunOK

LEMMA SetupReexec == ASSUME HostFit, SetupInv, Se!ReexecUnderSg PROVE SetupInv'
<1> DEFINE skip == run.skip \cup {"container"}
           p == Se!From(1, skip, world.agents)
<1>1. run.at = "container" /\ UNCHANGED <<world, wanted, processes, mishaps>>
  BY DEF Se!ReexecUnderSg
<1>2. run \in SetupRunType /\ Unskipped(run) /\ OffersAhead(run) /\ OwedAhead(run) /\ ChoiceOK(run)
  BY DEF SetupInv, RunOK
<1>3. run' = Moved(p, skip, run.offers, "container")
  BY <1>2 DEF Se!ReexecUnderSg, Moved, SetupRunType
<1>4. "channel" \notin skip /\ "verify" \notin skip /\ skip \in SUBSET Se!Steps
  BY <1>2, StepsAre DEF Unskipped, SetupRunType
<1>5. NextStep(p, 0, skip)
  BY <1>4, FirstLeft
<1> HIDE DEF p
<1>6. p \in Se!Steps /\ p \notin skip /\ p \notin Se!ChannelParts
  BY <1>5, OrderOfSteps DEF NextStep
<1>7. /\ run'.at = p /\ run'.skip = skip /\ run'.offers = run.offers /\ run'.said = run.said
      /\ run'.owed = IF run.owed = "container" THEN "none" ELSE run.owed
      /\ run' \in SetupRunType
  <2>1. run.offers \in SUBSET (Se!Steps \cup Se!Parts)
    BY <1>2 DEF SetupRunType
  <2> QED BY <1>2, <1>3, <1>4, <1>6, <2>1, MovedRecord
<1>8. Stage(run.at) = 2 /\ run.said = "none"
  BY <1>1, <1>2, StagesAre DEF OwedAhead
<1>9. Unskipped(run') /\ OffersAhead(run')
  BY <1>1, <1>2, <1>4, <1>6, <1>7 DEF Unskipped, OffersAhead
<1>10. ASSUME run'.owed \in Early
       PROVE  run'.owed \notin run'.skip /\ Stage(run'.at) <= Stage(run'.owed)
  <2>1. run.owed \in Early /\ run.owed # "container" /\ run'.owed = run.owed
    BY <1>7, <1>10 DEF Early
  <2>2. run.owed \notin skip
    BY <1>2, <2>1 DEF OwedAhead
  <2>3. run.owed \in Se!Steps \ {"cli-agent"} /\ 0 < Stage(run.owed)
    BY <2>1, OrderOfSteps, StagesAre DEF Early
  <2>4. Stage(p) <= Stage(run.owed)
    BY <1>5, <2>2, <2>3 DEF NextStep
  <2> QED BY <1>7, <2>1, <2>2, <2>4
<1>11. Stage(p) <= 9
  BY <1>4, <1>5, OrderOfSteps, StagesAre DEF NextStep
<1>12. OwedAhead(run')
  <2>1. run'.owed \in Failing \cup {"none"}
    <3>1. run.owed \in Failing \cup {"none"}
      BY <1>2 DEF OwedAhead
    <3> QED BY <1>7, <3>1
  <2> QED BY <1>6, <1>7, <1>8, <1>10, <1>11, <2>1, Zenon DEF OwedAhead
<1>13. RunOK(run')
  BY <1>7, <1>9, <1>12 DEF RunOK
<1>14. SetupCounts' /\ world' \in SetupWorldType
  BY <1>1, CountsStay DEF SetupInv
<1>15. Stage(run.at) \in 1..8
  BY <1>8
<1> QED BY <1>3, <1>6, <1>13, <1>14, <1>15, EarlyMove

LEMMA SetupEnvironment == ASSUME HostFit, SetupInv, Se!Environment PROVE SetupInv'
<1>1. run.at = "environment" /\ world \in SetupWorldType
  BY DEF SetupInv, Se!Environment, Se!Check
<1>2. world' \in SetupWorldType
  BY <1>1 DEF Se!Environment, Se!Check
<1>3. Stage(run.at) \in 1..8 /\ "environment" \notin {"channel", "verify"}
  BY <1>1, StagesAre
<1>4. CASE Se!Done("environment", Se!After("environment"))
  BY <1>1, <1>2, <1>3, <1>4, StagesAre, StepsAre, EarlyOn DEF Early, Failing, Excepted
<1>5. CASE Se!Fail("environment", TRUE, "environment")
  BY <1>1, <1>2, <1>3, <1>5, StagesAre, StepsAre, EarlyFails DEF Early, Failing, Excepted
<1> QED BY <1>1, <1>4, <1>5 DEF Se!Environment, Se!Check

LEMMA SetupContainer == ASSUME HostFit, SetupInv, Se!Container PROVE SetupInv'
<1>1. run.at = "container" /\ world \in SetupWorldType
  BY DEF SetupInv, Se!Container, Se!Check
<1>2. world' \in SetupWorldType
  BY <1>1 DEF Se!Container, Se!Check
<1>3. Stage(run.at) \in 1..8 /\ "container" \notin {"channel", "verify"}
  BY <1>1, StagesAre
<1>4. CASE Se!Done("container", Se!After("container"))
  BY <1>1, <1>2, <1>3, <1>4, StagesAre, StepsAre, EarlyOn DEF Early, Failing, Excepted
<1>5. CASE Se!Fail("container", TRUE, "container")
  BY <1>1, <1>2, <1>3, <1>5, StagesAre, StepsAre, EarlyFails DEF Early, Failing, Excepted
<1> QED BY <1>1, <1>4, <1>5 DEF Se!Container, Se!Check

LEMMA SetupMounts == ASSUME HostFit, SetupInv, Se!Mounts PROVE SetupInv'
<1>1. run.at = "mounts" /\ world \in SetupWorldType
  BY DEF SetupInv, Se!Mounts, Se!Check
<1>2. world' \in SetupWorldType
  BY <1>1 DEF Se!Mounts, Se!Check
<1>3. Stage(run.at) \in 1..8 /\ "mounts" \notin {"channel", "verify"}
  BY <1>1, StagesAre
<1>4. CASE Se!Done("mounts", Se!After("mounts"))
  BY <1>1, <1>2, <1>3, <1>4, StagesAre, StepsAre, EarlyOn DEF Early, Failing, Excepted
<1>5. CASE Se!Fail("mounts", TRUE, "mounts")
  BY <1>1, <1>2, <1>3, <1>5, StagesAre, StepsAre, EarlyFails DEF Early, Failing, Excepted
<1> QED BY <1>1, <1>4, <1>5 DEF Se!Mounts, Se!Check

LEMMA SetupOnecli == ASSUME HostFit, SetupInv, Se!Onecli PROVE SetupInv'
<1>1. run.at = "onecli" /\ world \in SetupWorldType
  BY DEF SetupInv, Se!Onecli
<1>2. world' \in SetupWorldType
  <2>1. CASE Se!OnecliUrl
    BY <1>1, <2>1 DEF Se!OnecliUrl, SetupWorldType
  <2>2. CASE UNCHANGED world
    BY <1>1, <2>2
  <2> QED BY <2>1, <2>2 DEF Se!Onecli
<1>3. Stage(run.at) \in 1..8 /\ "onecli" \notin {"channel", "verify"}
  BY <1>1, StagesAre
<1>4. CASE Se!Done("onecli", Se!After("onecli"))
  BY <1>1, <1>2, <1>3, <1>4, StagesAre, StepsAre, EarlyOn DEF Early, Failing, Excepted
<1>5. CASE Se!Fail("onecli", TRUE, "onecli")
  BY <1>1, <1>2, <1>3, <1>5, StagesAre, StepsAre, EarlyFails DEF Early, Failing, Excepted
<1> QED BY <1>1, <1>4, <1>5 DEF Se!Onecli

LEMMA SetupSecretExists == ASSUME HostFit, SetupInv, Se!SecretExists PROVE SetupInv'
<1>1. run.at = "auth" /\ world \in SetupWorldType
  BY DEF SetupInv, Se!SecretExists
<1>2. world' \in SetupWorldType
  BY <1>1 DEF Se!SecretExists
<1>3. Stage(run.at) \in 1..8 /\ "auth" \notin {"channel", "verify"}
  BY <1>1, StagesAre
<1>4. CASE Se!Done("auth", Se!After("auth"))
  BY <1>1, <1>2, <1>3, <1>4, StagesAre, StepsAre, EarlyOn DEF Early, Failing, Excepted
<1> QED BY <1>1, <1>4 DEF Se!SecretExists

LEMMA SetupSubscriptionAuth == ASSUME HostFit, SetupInv, Se!SubscriptionAuth PROVE SetupInv'
<1>1. run.at = "auth" /\ world \in SetupWorldType
  BY DEF SetupInv, Se!SubscriptionAuth, Se!NoSecret, Se!SaveSecret, Se!AuthFails
<1>2. world' \in SetupWorldType
  BY <1>1 DEF Se!SubscriptionAuth, Se!NoSecret, Se!SaveSecret, Se!AuthFails, SetupWorldType
<1>3. Stage(run.at) \in 1..8 /\ "auth" \notin {"channel", "verify"}
  BY <1>1, StagesAre
<1>4. CASE Se!Go("auth", Se!After("auth"))
  BY <1>1, <1>2, <1>3, <1>4, StagesAre, StepsAre, EarlyOn DEF Early, Failing, Excepted
<1>5. CASE Se!Fail("auth", TRUE, "auth")
  BY <1>1, <1>2, <1>3, <1>5, StagesAre, StepsAre, EarlyFails DEF Early, Failing, Excepted
<1> QED BY <1>1, <1>4, <1>5 DEF Se!SubscriptionAuth, Se!NoSecret, Se!SaveSecret, Se!AuthFails

LEMMA SetupPasteAuth == ASSUME HostFit, SetupInv, Se!PasteAuth PROVE SetupInv'
<1>1. run.at = "auth" /\ world \in SetupWorldType
  BY DEF SetupInv, Se!PasteAuth, Se!NoSecret, Se!SaveSecret, Se!AuthFails
<1>2. world' \in SetupWorldType
  BY <1>1 DEF Se!PasteAuth, Se!NoSecret, Se!SaveSecret, Se!AuthFails, SetupWorldType
<1>3. Stage(run.at) \in 1..8 /\ "auth" \notin {"channel", "verify"}
  BY <1>1, StagesAre
<1>4. CASE Se!Done("auth", Se!After("auth"))
  BY <1>1, <1>2, <1>3, <1>4, StagesAre, StepsAre, EarlyOn DEF Early, Failing, Excepted
<1>5. CASE Se!Fail("auth", TRUE, "auth")
  BY <1>1, <1>2, <1>3, <1>5, StagesAre, StepsAre, EarlyFails DEF Early, Failing, Excepted
<1> QED BY <1>1, <1>4, <1>5 DEF Se!PasteAuth, Se!NoSecret, Se!SaveSecret, Se!AuthFails

LEMMA SetupSkipAuth == ASSUME HostFit, SetupInv, Se!SkipAuth PROVE SetupInv'
<1>1. run.at = "auth" /\ world \in SetupWorldType
  BY DEF SetupInv, Se!SkipAuth, Se!NoSecret
<1>2. world' \in SetupWorldType
  BY <1>1 DEF Se!SkipAuth, Se!NoSecret
<1>3. Stage(run.at) \in 1..8 /\ "auth" \notin {"channel", "verify"}
  BY <1>1, StagesAre
<1>4. CASE Se!Done("auth", Se!After("auth"))
  BY <1>1, <1>2, <1>3, <1>4, StagesAre, StepsAre, EarlyOn DEF Early, Failing, Excepted
<1> QED BY <1>1, <1>4 DEF Se!SkipAuth, Se!NoSecret

LEMMA SetupService == ASSUME HostFit, SetupInv, Se!Service PROVE SetupInv'
<1>1. run.at = "service" /\ world \in SetupWorldType
  BY DEF SetupInv, Se!Service
<1>2. world' \in SetupWorldType
  BY <1>1, BuiltTypes, RestartTypes DEF Se!Service
<1>3. Stage(run.at) \in 1..8 /\ "service" \notin {"channel", "verify"}
  BY <1>1, StagesAre
<1>4. CASE Se!Done("service", Se!After("service"))
  BY <1>1, <1>2, <1>3, <1>4, StagesAre, StepsAre, EarlyOn DEF Early, Failing, Excepted
<1> QED BY <1>1, <1>4 DEF Se!Service

LEMMA SetupServiceFails == ASSUME HostFit, SetupInv, Se!ServiceFails PROVE SetupInv'
<1>1. run.at = "service" /\ world \in SetupWorldType
  BY DEF SetupInv, Se!ServiceFails
<1>2. world' \in SetupWorldType
  BY <1>1 DEF Se!ServiceFails
<1>3. Stage(run.at) \in 1..8 /\ "service" \notin {"channel", "verify"}
  BY <1>1, StagesAre
<1>4. CASE Se!Fail("service", TRUE, "service")
  BY <1>1, <1>2, <1>3, <1>4, StagesAre, StepsAre, EarlyFails DEF Early, Failing, Excepted
<1> QED BY <1>1, <1>4 DEF Se!ServiceFails

LEMMA SetupCliAgent == ASSUME HostFit, SetupInv, Se!CliAgent PROVE SetupInv'
<1>1. run.at = "cli-agent" /\ world \in SetupWorldType
  BY DEF SetupInv, Se!CliAgent
<1>2. world' \in SetupWorldType
  <2>1. "ping-test" \in {"ping-test", "terminal", "assistant"} /\ "terminal" \in {"ping-test", "terminal", "assistant"}
    OBVIOUS
  <2> QED BY <1>1, <2>1, WireTypes DEF Se!CliAgent
<1>3. Stage(run.at) \in 1..8 /\ "cli-agent" \notin {"channel", "verify"}
  BY <1>1, StagesAre
<1>4. CASE Se!Done("cli-agent", "ping")
  BY <1>1, <1>2, <1>3, <1>4, StagesAre, StepsAre, EarlyAside DEF Early, Failing, Excepted
<1>5. CASE Se!Fail("cli-agent", TRUE, "cli-agent")
  BY <1>1, <1>2, <1>3, <1>5, StagesAre, StepsAre, EarlyFails DEF Early, Failing, Excepted
<1> QED BY <1>1, <1>4, <1>5 DEF Se!CliAgent

LEMMA SetupPing == ASSUME HostFit, SetupInv, Se!Ping PROVE SetupInv'
<1>1. run.at = "ping" /\ world \in SetupWorldType
  BY DEF SetupInv, Se!Ping
<1>2. world' \in SetupWorldType
  BY <1>1 DEF Se!Ping
<1>3. Stage(run.at) \in 1..8 /\ "ping" \notin {"channel", "verify"}
  BY <1>1, StagesAre
<1>4. CASE Se!Go("ping", "cleanup")
  BY <1>1, <1>2, <1>3, <1>4, StagesAre, StepsAre, EarlyAside DEF Early, Failing, Excepted
<1>5. CASE Se!Go("ping", Se!After("cli-agent"))
  BY <1>1, <1>2, <1>3, <1>5, StagesAre, StepsAre, EarlyOn, OrderOfSteps DEF Early, Failing, Excepted
<1>6. CASE Se!Mishap("ping", Se!After("cli-agent"))
  BY <1>1, <1>2, <1>3, <1>6, StagesAre, StepsAre, EarlyOn, OrderOfSteps DEF Early, Failing, Excepted
<1> QED BY <1>1, <1>4, <1>5, <1>6 DEF Se!Ping

LEMMA SetupCleanup == ASSUME HostFit, SetupInv, Se!Cleanup PROVE SetupInv'
<1>1. run.at = "cleanup" /\ world \in SetupWorldType
  BY DEF SetupInv, Se!Cleanup
<1>2. world' \in SetupWorldType
  BY <1>1 DEF Se!Cleanup, SetupWorldType
<1>3. Stage(run.at) \in 1..8 /\ "cleanup" \notin {"channel", "verify"}
  BY <1>1, StagesAre
<1>4. CASE Se!Go("cleanup", "next")
  BY <1>1, <1>2, <1>3, <1>4, StagesAre, StepsAre, EarlyAside DEF Early, Failing, Excepted
<1>5. CASE Se!Mishap("cleanup", "next")
  BY <1>1, <1>2, <1>3, <1>5, StagesAre, StepsAre, EarlyAside DEF Early, Failing, Excepted
<1> QED BY <1>1, <1>4, <1>5 DEF Se!Cleanup

LEMMA SetupWhatNext == ASSUME HostFit, SetupInv, Se!WhatNext PROVE SetupInv'
<1>1. run.at = "next" /\ world \in SetupWorldType
  BY DEF SetupInv, Se!WhatNext
<1>2. world' \in SetupWorldType
  <2>1. "ping-test" \in {"ping-test", "terminal", "assistant"} /\ "terminal" \in {"ping-test", "terminal", "assistant"}
    OBVIOUS
  <2> QED BY <1>1, <2>1, WireTypes DEF Se!WhatNext
<1>3. Stage(run.at) \in 1..8 /\ "next" \notin {"channel", "verify"}
  BY <1>1, StagesAre
<1>4. CASE Se!Go("next", Se!After("cli-agent"))
  BY <1>1, <1>2, <1>3, <1>4, StagesAre, StepsAre, EarlyOn, OrderOfSteps DEF Early, Failing, Excepted
<1>5. CASE Se!Go("terminal", Se!After("cli-agent"))
  BY <1>1, <1>2, <1>3, <1>5, StagesAre, StepsAre, EarlyOn, OrderOfSteps DEF Early, Failing, Excepted
<1>6. CASE Se!Fail("terminal", TRUE, "next")
  BY <1>1, <1>2, <1>3, <1>6, StagesAre, StepsAre, EarlyFails DEF Early, Failing, Excepted
<1> QED BY <1>1, <1>4, <1>5, <1>6 DEF Se!WhatNext

LEMMA SetupTimezone == ASSUME HostFit, SetupInv, Se!Timezone PROVE SetupInv'
<1>1. run.at = "timezone" /\ world \in SetupWorldType
  BY DEF SetupInv, Se!Timezone
<1>2. world' \in SetupWorldType
  BY <1>1, ZoneTypes DEF Se!Timezone
<1>3. Stage(run.at) \in 1..8 /\ "timezone" \notin {"channel", "verify"}
  BY <1>1, StagesAre
<1>4. CASE Se!Done("timezone", "confirm")
  BY <1>1, <1>2, <1>3, <1>4, StagesAre, StepsAre, EarlyAside DEF Early, Failing, Excepted
<1>5. CASE Se!Go("timezone", "confirm")
  BY <1>1, <1>2, <1>3, <1>5, StagesAre, StepsAre, EarlyAside DEF Early, Failing, Excepted
<1>6. CASE Se!Fail("timezone", TRUE, "timezone")
  BY <1>1, <1>2, <1>3, <1>6, StagesAre, StepsAre, EarlyFails DEF Early, Failing, Excepted
<1> QED BY <1>1, <1>4, <1>5, <1>6 DEF Se!Timezone

LEMMA SetupConfirm == ASSUME HostFit, SetupInv, Se!Confirm PROVE SetupInv'
<1>1. run.at = "confirm" /\ world \in SetupWorldType
  BY DEF SetupInv, Se!Confirm
<1>2. world' \in SetupWorldType
  BY <1>1 DEF Se!Confirm
<1>3. Stage(run.at) \in 1..8 /\ "confirm" \notin {"channel", "verify"}
  BY <1>1, StagesAre
<1>4. CASE Se!Go("confirm", Se!After("timezone"))
  BY <1>1, <1>2, <1>3, <1>4, StagesAre, StepsAre, EarlyOn, OrderOfSteps DEF Early, Failing, Excepted
<1>5. CASE Se!Go("confirm", "persist")
  BY <1>1, <1>2, <1>3, <1>5, StagesAre, StepsAre, EarlyAside DEF Early, Failing, Excepted
<1> QED BY <1>1, <1>4, <1>5 DEF Se!Confirm

LEMMA SetupPersist == ASSUME HostFit, SetupInv, Se!Persist PROVE SetupInv'
<1>1. run.at = "persist" /\ world \in SetupWorldType
  BY DEF SetupInv, Se!Persist
<1>2. world' \in SetupWorldType
  BY <1>1, ZoneTypes DEF Se!Persist
<1>3. Stage(run.at) \in 1..8 /\ "persist" \notin {"channel", "verify"}
  BY <1>1, StagesAre
<1>4. CASE Se!Done("timezone", Se!After("timezone"))
  BY <1>1, <1>2, <1>3, <1>4, StagesAre, StepsAre, EarlyOn DEF Early, Failing, Excepted
<1>5. CASE Se!Fail("timezone", TRUE, "timezone")
  BY <1>1, <1>2, <1>3, <1>5, StagesAre, StepsAre, EarlyFails DEF Early, Failing, Excepted
<1> QED BY <1>1, <1>4, <1>5 DEF Se!Persist

LEMMA SetupServiceUnheard == ASSUME HostFit, SetupInv, Se!ServiceUnheard PROVE SetupInv'
<1> DEFINE p == Se!After("service")
           skip == run.skip \cup {"service"}
<1>1. run.at = "service" /\ world' \in Se!Unheard(Se!Built) /\ mishaps < MaxMishaps /\ mishaps' = mishaps + 1
      /\ UNCHANGED <<wanted, processes>>
  BY DEF Se!ServiceUnheard
<1>2. RunOK(run) /\ run \in SetupRunType /\ Unskipped(run) /\ SetupCounts /\ world \in SetupWorldType
  BY DEF SetupInv, RunOK
<1>3. world' \in SetupWorldType
  BY <1>1, <1>2, BuiltTypes, RestartTypes
<1>4. SetupCounts'
  BY <1>1, <1>2, SetupConstants DEF SetupCounts
<1>5. run' = Moved(p, skip, run.offers, "service")
  BY <1>2 DEF Se!ServiceUnheard, Moved, SetupRunType
<1>6. Stage(run.at) = 6 /\ "service" \in Se!Steps \ {"channel", "verify"}
  BY <1>1, StagesAre, StepsAre
<1>7. NextStep(p, 6, run.skip)
  BY <1>2, <1>6, StagesAre, AfterIs
<1>8. p \in Se!Steps /\ p # "service" /\ p \notin Se!ChannelParts
  BY <1>7, OrderOfSteps, StagesAre DEF NextStep
<1> HIDE DEF p
<1>9. RunOK(Moved(p, skip, run.offers, "service"))
  BY <1>1, <1>2, <1>6, <1>7, <1>8, RunOn
<1>10. Stage(run.at) \in 1..8
  BY <1>6
<1> QED BY <1>3, <1>4, <1>5, <1>8, <1>9, <1>10, EarlyMove

(***************************************************************************)
(* The channel.                                                            *)
(***************************************************************************)
PartNext(c, p) == IF PartAfter(c, p) = "none" THEN "verify" ELSE PartAfter(c, p)

\* A part of a channel's flow ends: in fail(), or before the next, which a failure that is
\* not awaited also comes to.
PartEnds ==
  /\ RunOK(run') /\ ChoiceOK(run') /\ SetupCounts'
  /\ run'.choice = run.choice /\ run'.said = "none"
  /\ \/ run'.at = "failed"
     \/ run'.at = PartNext(run.choice, run.at) /\ (run'.offers = run.offers \/ run'.offers # {})

LEMMA PartGoes ==
  ASSUME HostFit, SetupInv, run.at \in Se!ChannelParts,
         \/ Se!Go(run.at, Se!Then(run.at)) \/ Se!Mishap(run.at, Se!Then(run.at))
         \/ \E awaited \in BOOLEAN : Se!Fail(run.at, awaited, Se!Then(run.at))
  PROVE  PartEnds
<1> DEFINE s == run.at
           p == Se!Then(s)
           q == PartNext(run.choice, s)
<1>1. /\ RunOK(run) /\ run \in SetupRunType /\ Unskipped(run) /\ OwedAhead(run) /\ SetupCounts
      /\ run.choice \in Channels /\ s \in PartsOf(run.choice) /\ run.choice \in Se!Known
  BY SetupConstants DEF SetupInv, RunOK, ChoiceOK
<1>2. p = q
  BY <1>1, ThenIs, AfterChannel DEF PartNext
<1>3. q = "verify" \/ q \in PartsOf(run.choice)
  BY <1>1, FlowParts DEF PartNext
<1>4. PartsOf(run.choice) \subseteq Se!ChannelParts
  BY <1>1, FlowParts
<1>5. run.said = "none" /\ s \notin {"idle", "failed"}
  BY <1>1 DEF OwedAhead, Se!ChannelParts
<1>6. Stage(s) = 9 /\ s \notin Early /\ s \in Failing /\ s \notin Se!Steps
  BY StagesAre, OrderOfSteps DEF Early, Failing, Se!ChannelParts
<1> HIDE DEF p, q
<1>7. \E offers : /\ offers = run.offers \/ offers = run.offers \cup {s}
                  /\ SetupCounts'
                  /\ \/ run' = Moved(p, run.skip, offers, s)
                     \/ run' = Moved("failed", run.skip, run.offers \cup {s}, s)
  <2>1. ASSUME Se!Go(s, p) PROVE run' = Moved(p, run.skip, run.offers, s) /\ SetupCounts'
    BY <1>1, <2>1, GoMoves, CountsStay
  <2>2. ASSUME Se!Mishap(s, p) PROVE run' = Moved(p, run.skip, run.offers, s) /\ SetupCounts'
    BY <1>1, <2>2, MishapMoves
  <2>3. ASSUME NEW awaited \in BOOLEAN, Se!Fail(s, awaited, p)
        PROVE  /\ SetupCounts'
               /\ \/ run' = Moved(p, run.skip, run.offers \cup {s}, s)
                  \/ run' = Moved("failed", run.skip, run.offers \cup {s}, s)
    <3>1. run' = Moved(IF awaited THEN "failed" ELSE p, run.skip, run.offers \cup {s}, s) /\ SetupCounts'
      BY <1>1, <2>3, FailMoves
    <3> QED BY <3>1
  <2> QED BY <2>1, <2>2, <2>3 DEF p
<1>8. PICK offers : /\ offers = run.offers \/ offers = run.offers \cup {s}
                    /\ SetupCounts'
                    /\ \/ run' = Moved(p, run.skip, offers, s)
                       \/ run' = Moved("failed", run.skip, run.offers \cup {s}, s)
  BY <1>7
<1>9. CASE run' = Moved("failed", run.skip, run.offers \cup {s}, s)
  <2>1. RunOK(run')
    BY <1>1, <1>6, <1>9, RunFails
  <2>2. run'.at = "failed" /\ run'.choice = run.choice /\ run'.said = "none"
    BY <1>1, <1>5, <1>9, MovedRecord
  <2>3. ChoiceOK(run')
    BY <2>2, StagesAre DEF ChoiceOK, Se!ChannelParts
  <2> QED BY <1>8, <2>1, <2>2, <2>3 DEF PartEnds
<1>10. CASE run' = Moved(p, run.skip, offers, s)
  <2>1. run'.at = q /\ run'.choice = run.choice /\ run'.said = "none" /\ run'.offers = offers
    BY <1>1, <1>2, <1>5, <1>10, MovedRecord
  <2>2. offers = run.offers \/ (s \in Se!ChannelParts /\ offers = run.offers \cup {s})
    BY <1>8
  <2>3. RunOK(run')
    <3>1. CASE q = "verify"
      <4>1. NextStep("verify", 9, run.skip)
        <5>1. NextStep(Se!After("channel"), Stage("channel"), run.skip)
          BY <1>1, AfterIs, OrderOfSteps
        <5> QED BY <1>1, <5>1, AfterChannel, StagesAre
      <4>2. s \in Se!Steps => "verify" # s
        BY <1>6
      <4> QED BY <1>1, <1>2, <1>5, <1>6, <1>10, <2>2, <3>1, <4>1, RunOn
    <3>2. CASE q \in PartsOf(run.choice)
      <4>1. q \in Se!Parts \cup {"channel", "idle"} /\ q \in Se!ChannelParts /\ q # "idle" /\ Stage(q) = 9
        BY <1>4, <3>2, StagesAre DEF Se!Parts, Se!ChannelParts
      <4>2. Stage(q) <= Stage(s)
        BY <1>6, <4>1
      <4> QED BY <1>1, <1>2, <1>6, <1>10, <2>2, <4>1, <4>2, RunAside
    <3> QED BY <1>3, <3>1, <3>2
  <2>4. ChoiceOK(run')
    <3>1. q \in Se!ChannelParts => q \in PartsOf(run.choice)
      BY <1>3, OrderOfSteps
    <3>2. Stage(q) \notin 1..8
      BY <1>3, <1>4, StagesAre
    <3> QED BY <1>1, <2>1, <3>1, <3>2 DEF ChoiceOK
  <2>5. run'.offers = run.offers \/ run'.offers # {}
    BY <1>8, <2>1
  <2> QED BY <1>8, <2>1, <2>3, <2>4, <2>5 DEF PartEnds, q
<1> QED BY <1>8, <1>9, <1>10

\* The part that ended leaves what the next one relies on.
LEMMA PartLeaves ==
  ASSUME SetupInv, PartEnds, run.at \in Se!ChannelParts, world' \in SetupWorldType,
         run'.choice \in Se!Wiring /\ run'.offers = {} /\ run.offers = {}
           /\ run'.at = PartNext(run.choice, run.at) =>
           /\ run'.at = "restart" => "credentials" \in world'.env
           /\ run'.at \in {"dm", "init", "verify"} => "credentials" \in world'.env /\ Knows(run', world')
           /\ run'.at = "verify" => "assistant" \in world'.agents
  PROVE  SetupInv'
<1>1. WiredOK(run', world')
  BY DEF PartEnds, WiredOK
<1> QED BY <1>1 DEF SetupInv, PartEnds

LEMMA SamePart ==
  ASSUME SetupInv, run.at \in Se!ChannelParts
  PROVE  run.choice \in Channels /\ run.at \in PartsOf(run.choice) /\ world \in SetupWorldType
         /\ run \in SetupRunType
BY DEF SetupInv, ChoiceOK, RunOK

LEMMA SetupTelegramToken == ASSUME HostFit, SetupInv, Se!TelegramToken PROVE SetupInv'
<1>1. run.at = "token" /\ run.at \in Se!ChannelParts
  BY DEF Se!TelegramToken, Se!Checked, Se!ChannelParts
<1>2. run.choice \in Channels /\ run.at \in PartsOf(run.choice) /\ world \in SetupWorldType /\ run \in SetupRunType
  BY <1>1, SamePart
<1>3. PartEnds
  BY <1>1, PartGoes DEF Se!TelegramToken, Se!Checked, Se!Ok, Se!NotOk
<1>4. world' = world
  BY DEF Se!TelegramToken, Se!Checked
<1>5. PartNext(run.choice, run.at) = "install"
  BY <1>1 DEF PartNext, PartAfter
<1> QED BY <1>1, <1>2, <1>3, <1>4, <1>5, PartLeaves

LEMMA SetupDiscordToken == ASSUME HostFit, SetupInv, Se!DiscordToken PROVE SetupInv'
<1>1. run.at = "token" /\ run.at \in Se!ChannelParts
  BY DEF Se!DiscordToken, Se!Checked, Se!ChannelParts
<1>2. run.choice \in Channels /\ run.at \in PartsOf(run.choice) /\ world \in SetupWorldType /\ run \in SetupRunType
  BY <1>1, SamePart
<1>3. PartEnds
  BY <1>1, PartGoes DEF Se!DiscordToken, Se!Checked, Se!Ok, Se!NotOk
<1>4. world' = world
  BY DEF Se!DiscordToken, Se!Checked
<1>5. PartNext(run.choice, run.at) = "install"
  BY <1>1 DEF PartNext, PartAfter
<1> QED BY <1>1, <1>2, <1>3, <1>4, <1>5, PartLeaves

LEMMA SetupSlackToken == ASSUME HostFit, SetupInv, Se!SlackToken PROVE SetupInv'
<1>1. run.at = "token" /\ run.at \in Se!ChannelParts
  BY DEF Se!SlackToken, Se!Checked, Se!ChannelParts
<1>2. run.choice \in Channels /\ run.at \in PartsOf(run.choice) /\ world \in SetupWorldType /\ run \in SetupRunType
  BY <1>1, SamePart
<1>3. PartEnds
  BY <1>1, PartGoes DEF Se!SlackToken, Se!Checked, Se!Ok, Se!NotOk
<1>4. world' = world
  BY DEF Se!SlackToken, Se!Checked
<1>5. PartNext(run.choice, run.at) = "install"
  BY <1>1 DEF PartNext, PartAfter
<1> QED BY <1>1, <1>2, <1>3, <1>4, <1>5, PartLeaves

LEMMA SetupIMessageMode == ASSUME HostFit, SetupInv, Se!IMessageMode PROVE SetupInv'
<1>1. run.at = "mode" /\ run.at \in Se!ChannelParts
  BY DEF Se!IMessageMode, Se!Checked, Se!ChannelParts
<1>2. run.choice \in Channels /\ run.at \in PartsOf(run.choice) /\ world \in SetupWorldType /\ run \in SetupRunType
  BY <1>1, SamePart
<1>3. PartEnds
  BY <1>1, PartGoes DEF Se!IMessageMode, Se!Checked, Se!Ok, Se!NotOk
<1>4. world' = world
  BY DEF Se!IMessageMode, Se!Checked
<1>5. PartNext(run.choice, run.at) = "install"
  BY <1>1 DEF PartNext, PartAfter
<1> QED BY <1>1, <1>2, <1>3, <1>4, <1>5, PartLeaves

LEMMA SetupSignalCli == ASSUME HostFit, SetupInv, Se!SignalCli PROVE SetupInv'
<1>1. run.at = "cli" /\ run.at \in Se!ChannelParts
  BY DEF Se!SignalCli, Se!Checked, Se!ChannelParts
<1>2. run.choice \in Channels /\ run.at \in PartsOf(run.choice) /\ world \in SetupWorldType /\ run \in SetupRunType
  BY <1>1, SamePart
<1>3. PartEnds
  BY <1>1, PartGoes DEF Se!SignalCli, Se!Checked, Se!Ok, Se!NotOk
<1>4. world' = world
  BY DEF Se!SignalCli, Se!Checked
<1>5. PartNext(run.choice, run.at) = "install"
  BY <1>1 DEF PartNext, PartAfter
<1> QED BY <1>1, <1>2, <1>3, <1>4, <1>5, PartLeaves

LEMMA SetupDirectMessage == ASSUME HostFit, SetupInv, Se!DirectMessage PROVE SetupInv'
<1>1. run.at = "dm" /\ run.at \in Se!ChannelParts
  BY DEF Se!DirectMessage, Se!Checked, Se!ChannelParts
<1>2. run.choice \in Channels /\ run.at \in PartsOf(run.choice) /\ world \in SetupWorldType /\ run \in SetupRunType
  BY <1>1, SamePart
<1>3. PartEnds
  BY <1>1, PartGoes DEF Se!DirectMessage, Se!Checked, Se!Ok, Se!NotOk
<1>4. world' = world
  BY DEF Se!DirectMessage, Se!Checked
<1>5. PartNext(run.choice, run.at) = "init"
  BY <1>1 DEF PartNext, PartAfter
<1>6. run.choice \in Se!Wiring /\ run.offers = {} => "credentials" \in world.env /\ Knows(run, world)
  BY <1>1 DEF SetupInv, WiredOK
<1>7. run'.choice = run.choice
  BY <1>3 DEF PartEnds
<1>8. run.choice \in Se!Wiring /\ run.offers = {} => Knows(run', world')
  BY <1>4, <1>6, <1>7 DEF Knows
<1> QED BY <1>1, <1>2, <1>3, <1>4, <1>5, <1>6, <1>7, <1>8, PartLeaves

LEMMA SetupPairTelegram == ASSUME HostFit, SetupInv, Se!PairTelegram PROVE SetupInv'
<1>1. run.at = "pair" /\ run.at \in Se!ChannelParts
  BY DEF Se!PairTelegram, Se!ChannelParts
<1>2. run.choice \in Channels /\ run.at \in PartsOf(run.choice) /\ world \in SetupWorldType /\ run \in SetupRunType
  BY <1>1, SamePart
<1>3. PartEnds
  BY <1>1, PartGoes DEF Se!PairTelegram, Se!Ok, Se!NotOk
<1>4. run.choice \notin Se!Wiring /\ run'.choice = run.choice
  BY <1>1, <1>2, <1>3, SetupConstants DEF PartEnds, PartsOf, Se!Wiring, Se!Known
<1>5. world' \in SetupWorldType
  BY <1>2 DEF Se!PairTelegram
<1> QED BY <1>1, <1>2, <1>3, <1>4, <1>5, PartLeaves

LEMMA SetupTeamsBot == ASSUME HostFit, SetupInv, Se!TeamsBot PROVE SetupInv'
<1>1. run.at = "bot" /\ run.at \in Se!ChannelParts
  BY DEF Se!TeamsBot, Se!Prompts, Se!ChannelParts
<1>2. run.choice \in Channels /\ run.at \in PartsOf(run.choice) /\ world \in SetupWorldType /\ run \in SetupRunType
  BY <1>1, SamePart
<1>3. PartEnds
  BY <1>1, PartGoes DEF Se!TeamsBot, Se!Prompts, Se!Ok, Se!NotOk
<1>4. run.choice \notin Se!Wiring /\ run'.choice = run.choice
  BY <1>1, <1>2, <1>3, SetupConstants DEF PartEnds, PartsOf, Se!Wiring, Se!Known
<1>5. world' \in SetupWorldType
  BY <1>2 DEF Se!TeamsBot, Se!Prompts
<1> QED BY <1>1, <1>2, <1>3, <1>4, <1>5, PartLeaves

LEMMA SetupTeamsSideload == ASSUME HostFit, SetupInv, Se!TeamsSideload PROVE SetupInv'
<1>1. run.at = "sideload" /\ run.at \in Se!ChannelParts
  BY DEF Se!TeamsSideload, Se!Prompts, Se!ChannelParts
<1>2. run.choice \in Channels /\ run.at \in PartsOf(run.choice) /\ world \in SetupWorldType /\ run \in SetupRunType
  BY <1>1, SamePart
<1>3. PartEnds
  BY <1>1, PartGoes DEF Se!TeamsSideload, Se!Prompts, Se!Ok, Se!NotOk
<1>4. run.choice \notin Se!Wiring /\ run'.choice = run.choice
  BY <1>1, <1>2, <1>3, SetupConstants DEF PartEnds, PartsOf, Se!Wiring, Se!Known
<1>5. world' \in SetupWorldType
  BY <1>2 DEF Se!TeamsSideload, Se!Prompts
<1> QED BY <1>1, <1>2, <1>3, <1>4, <1>5, PartLeaves

LEMMA SetupTeamsHandoff == ASSUME HostFit, SetupInv, Se!TeamsHandoff PROVE SetupInv'
<1>1. run.at = "handoff" /\ run.at \in Se!ChannelParts
  BY DEF Se!TeamsHandoff, Se!Prompts, Se!ChannelParts
<1>2. run.choice \in Channels /\ run.at \in PartsOf(run.choice) /\ world \in SetupWorldType /\ run \in SetupRunType
  BY <1>1, SamePart
<1>3. PartEnds
  BY <1>1, PartGoes DEF Se!TeamsHandoff, Se!Prompts, Se!Ok, Se!NotOk
<1>4. run.choice \notin Se!Wiring /\ run'.choice = run.choice
  BY <1>1, <1>2, <1>3, SetupConstants DEF PartEnds, PartsOf, Se!Wiring, Se!Known
<1>5. world' \in SetupWorldType
  <2>1. "assistant" \in {"ping-test", "terminal", "assistant"}
    OBVIOUS
  <2> QED BY <1>2, <2>1, WireTypes DEF Se!TeamsHandoff, Se!Prompts
<1> QED BY <1>1, <1>2, <1>3, <1>4, <1>5, PartLeaves

LEMMA SetupInitAgent == ASSUME HostFit, SetupInv, Se!InitAgent PROVE SetupInv'
<1>1. run.at = "init" /\ run.at \in Se!ChannelParts
  BY DEF Se!InitAgent, Se!ChannelParts
<1>2. run.choice \in Channels /\ run.at \in PartsOf(run.choice) /\ world \in SetupWorldType /\ run \in SetupRunType
  BY <1>1, SamePart
<1>3. PartEnds
  BY <1>1, PartGoes DEF Se!InitAgent, Se!Ok, Se!NotOk
<1>4. "assistant" \in {"ping-test", "terminal", "assistant"}
  OBVIOUS
<1>5. PartNext(run.choice, run.at) = "verify"
  BY <1>1 DEF PartNext, PartAfter
<1>6. run.choice \in Se!Wiring /\ run.offers = {} => "credentials" \in world.env /\ Knows(run, world)
  BY <1>1 DEF SetupInv, WiredOK
<1>7. run'.choice = run.choice
  BY <1>3 DEF PartEnds
<1>8. CASE Se!Wire("assistant")
  <2>1. /\ world' \in SetupWorldType /\ world'.agents = world.agents \cup {"assistant"}
        /\ world'.env = world.env /\ world'.service = world.service /\ world'.deaf = world.deaf
        /\ world'.tz = world.tz /\ world'.adapter = world.adapter
    BY <1>2, <1>4, <1>8, WireTypes
  <2>2. run.choice \in Se!Wiring /\ run.offers = {} => Knows(run', world')
    BY <1>6, <1>7, <2>1 DEF Knows
  <2>3. "assistant" \in world'.agents
    BY <2>1
  <2> QED BY <1>1, <1>3, <1>5, <1>6, <1>7, <2>1, <2>2, <2>3, PartLeaves
<1>9. CASE UNCHANGED world /\ Se!NotOk("init")
  <2>1. run'.offers # {}
    <3>1. run'.offers = run.offers \cup {"init"}
      BY <1>2, <1>9 DEF Se!NotOk, Se!Fail, SetupRunType
    <3> QED BY <3>1
  <2> QED BY <1>1, <1>2, <1>3, <1>9, <2>1, PartLeaves
<1> QED BY <1>8, <1>9 DEF Se!InitAgent

LEMMA SetupInstall == ASSUME HostFit, SetupInv, Se!Install PROVE SetupInv'
<1>1. run.at = "install" /\ run.at \in Se!ChannelParts
  BY DEF Se!Install, Se!ChannelParts
<1>2. run.choice \in Channels /\ run.at \in PartsOf(run.choice) /\ world \in SetupWorldType /\ run \in SetupRunType
  BY <1>1, SamePart
<1>3. PartEnds
  BY <1>1, PartGoes DEF Se!Install, Se!Ok, Se!NotOk
<1> DEFINE w == Se!WithCredentials(Se!Fetch(world))
<1>4. w \in SetupWorldType /\ "credentials" \in w.env
  BY <1>2, FetchTypes
<1>5. world' = Se!Restarted(w) \/ world' \in Se!Unheard(w)
  BY DEF Se!Install
<1> HIDE DEF w
<1>6. world' \in SetupWorldType /\ "credentials" \in world'.env
  BY <1>4, <1>5, RestartTypes
<1>7. run'.choice = run.choice
  BY <1>3 DEF PartEnds
<1>8. Knows(run', world')
  <2>1. CASE world' = Se!Restarted(w)
    <3>1. /\ world'.service.credentials /\ world'.service.tz = world'.tz
          /\ world'.service.adapters = {c \in Channels : world'.adapter[c] = "built"}
      BY <1>4, <2>1, RestartTypes
    <3> QED BY <1>2, <1>7, <3>1 DEF Knows
  <2>2. CASE world' \in Se!Unheard(w)
    BY <1>4, <2>2, RestartTypes DEF Knows
  <2> QED BY <1>5, <2>1, <2>2
<1>9. PartNext(run.choice, run.at) # "verify"
  <2>1. run.choice \notin Se!Linking
    BY DEF Se!Install
  <2> QED BY <1>1, <2>1 DEF PartNext, PartAfter
<1> QED BY <1>1, <1>3, <1>6, <1>8, <1>9, PartLeaves

LEMMA SetupInstallWhatsApp == ASSUME HostFit, SetupInv, Se!InstallWhatsApp PROVE SetupInv'
<1>1. run.at = "install" /\ run.at \in Se!ChannelParts
  BY DEF Se!InstallWhatsApp, Se!ChannelParts
<1>2. run.choice \in Channels /\ run.at \in PartsOf(run.choice) /\ world \in SetupWorldType /\ run \in SetupRunType
  BY <1>1, SamePart
<1>3. PartEnds
  BY <1>1, PartGoes DEF Se!InstallWhatsApp, Se!Ok, Se!NotOk
<1>4. PartNext(run.choice, run.at) = "link"
  BY <1>1 DEF PartNext, PartAfter, Se!InstallWhatsApp, Se!Linking
<1>5. world' \in SetupWorldType
  BY <1>2, FetchTypes DEF Se!InstallWhatsApp
<1> QED BY <1>1, <1>3, <1>4, <1>5, PartLeaves

LEMMA SetupInstallSignal == ASSUME HostFit, SetupInv, Se!InstallSignal PROVE SetupInv'
<1>1. run.at = "install" /\ run.at \in Se!ChannelParts
  BY DEF Se!InstallSignal, Se!ChannelParts
<1>2. run.choice \in Channels /\ run.at \in PartsOf(run.choice) /\ world \in SetupWorldType /\ run \in SetupRunType
  BY <1>1, SamePart
<1>3. PartEnds
  BY <1>1, PartGoes DEF Se!InstallSignal, Se!Ok, Se!NotOk
<1>4. PartNext(run.choice, run.at) = "link"
  BY <1>1 DEF PartNext, PartAfter, Se!InstallSignal, Se!Linking
<1>5. world' \in SetupWorldType
  <2>1. run.choice = "signal" /\ world' = [world EXCEPT !.adapter["signal"] = "built"]
    BY DEF Se!InstallSignal
  <2>2. "built" \in {"none", "sources", "packages", "built"}
    OBVIOUS
  <2> QED BY <1>2, <2>1, <2>2, FetchTypes
<1> QED BY <1>1, <1>3, <1>4, <1>5, PartLeaves

LEMMA SetupInstallFails == ASSUME HostFit, SetupInv, Se!InstallFails PROVE SetupInv'
<1>1. run.at = "install" /\ run.at \in Se!ChannelParts
  BY DEF Se!InstallFails, Se!ChannelParts
<1>2. run.choice \in Channels /\ run.at \in PartsOf(run.choice) /\ world \in SetupWorldType /\ run \in SetupRunType
  BY <1>1, SamePart
<1>3. PartEnds
  BY <1>1, PartGoes DEF Se!InstallFails, Se!Ok, Se!NotOk
<1>4. run'.offers # {}
  <2>1. run'.offers = run.offers \cup {"install"}
    BY <1>2 DEF Se!InstallFails, Se!NotOk, Se!Fail, SetupRunType
  <2> QED BY <2>1
<1>5. world' \in SetupWorldType
  <2>1. CASE UNCHANGED world
    BY <1>2, <2>1
  <2>2. ASSUME NEW x \in {"sources", "packages"}, world' = [world EXCEPT !.adapter[run.choice] = x]
        PROVE  world' \in SetupWorldType
    <3>1. x \in {"none", "sources", "packages", "built"}
      OBVIOUS
    <3> QED BY <1>2, <2>2, <3>1, FetchTypes
  <2> QED BY <2>1, <2>2 DEF Se!InstallFails
<1> QED BY <1>1, <1>3, <1>4, <1>5, PartLeaves

LEMMA SetupLinkSignal == ASSUME HostFit, SetupInv, Se!LinkSignal PROVE SetupInv'
<1>1. run.at = "link" /\ run.at \in Se!ChannelParts
  BY DEF Se!LinkSignal, Se!Link, Se!ChannelParts
<1>2. run.choice \in Channels /\ run.at \in PartsOf(run.choice) /\ world \in SetupWorldType /\ run \in SetupRunType
  BY <1>1, SamePart
<1>3. PartEnds
  BY <1>1, PartGoes DEF Se!LinkSignal, Se!Link, Se!Ok, Se!NotOk
<1>4. Se!WithCredentials(world) \in SetupWorldType /\ "credentials" \in Se!WithCredentials(world).env
  <2>1. "none" \in {"none", "sources", "packages", "built"}
    OBVIOUS
  <2> QED BY <1>2, <2>1, FetchTypes
<1>5. PartNext(run.choice, run.at) = "restart"
  BY <1>1 DEF PartNext, PartAfter
<1>6. CASE world' = Se!WithCredentials(world) /\ Se!Ok("link")
  BY <1>1, <1>3, <1>4, <1>5, <1>6, PartLeaves
<1>7. CASE Se!NotOk("link") /\ (UNCHANGED world \/ world' = Se!WithCredentials(world))
  <2>1. run'.offers = run.offers \cup {"link"}
    BY <1>2, <1>7 DEF Se!NotOk, Se!Fail, SetupRunType
  <2> QED BY <1>1, <1>2, <1>3, <1>4, <1>7, <2>1, PartLeaves
<1> QED BY <1>6, <1>7 DEF Se!LinkSignal, Se!Link

LEMMA SetupLinkWhatsApp == ASSUME HostFit, SetupInv, Se!LinkWhatsApp PROVE SetupInv'
<1>1. run.at = "link" /\ run.at \in Se!ChannelParts
  BY DEF Se!LinkWhatsApp, Se!Link, Se!ChannelParts
<1>2. run.choice \in Channels /\ run.at \in PartsOf(run.choice) /\ world \in SetupWorldType /\ run \in SetupRunType
  BY <1>1, SamePart
<1>3. PartEnds
  BY <1>1, PartGoes DEF Se!LinkWhatsApp, Se!Link, Se!Ok, Se!NotOk
<1>4. Se!WithCredentials(world) \in SetupWorldType /\ "credentials" \in Se!WithCredentials(world).env
  <2>1. "none" \in {"none", "sources", "packages", "built"}
    OBVIOUS
  <2> QED BY <1>2, <2>1, FetchTypes
<1>5. PartNext(run.choice, run.at) = "restart"
  BY <1>1 DEF PartNext, PartAfter
<1>6. CASE world' = Se!WithCredentials(world) /\ Se!Ok("link")
  BY <1>1, <1>3, <1>4, <1>5, <1>6, PartLeaves
<1>7. CASE Se!NotOk("link") /\ (UNCHANGED world \/ world' = Se!WithCredentials(world))
  <2>1. run'.offers = run.offers \cup {"link"}
    BY <1>2, <1>7 DEF Se!NotOk, Se!Fail, SetupRunType
  <2> QED BY <1>1, <1>2, <1>3, <1>4, <1>7, <2>1, PartLeaves
<1> QED BY <1>6, <1>7 DEF Se!LinkWhatsApp, Se!Link

LEMMA SetupRestartService == ASSUME HostFit, SetupInv, Se!RestartService PROVE SetupInv'
<1>1. run.at = "restart" /\ run.at \in Se!ChannelParts
  BY DEF Se!RestartService, Se!ChannelParts
<1>2. run.choice \in Channels /\ run.at \in PartsOf(run.choice) /\ world \in SetupWorldType /\ run \in SetupRunType
  BY <1>1, SamePart
<1>3. PartEnds
  BY <1>1, PartGoes DEF Se!RestartService, Se!Ok, Se!NotOk
<1>4. PartNext(run.choice, run.at) = "init"
  BY <1>1 DEF PartNext, PartAfter
<1>5. world' = Se!Restarted(world) \/ world' \in Se!Unheard(world)
  BY DEF Se!RestartService
<1>6. world' \in SetupWorldType /\ world'.env = world.env
  BY <1>2, <1>5, RestartTypes
<1>7. run.choice \in Se!Wiring /\ run.offers = {} => "credentials" \in world.env
  BY <1>1 DEF SetupInv, WiredOK
<1>8. run'.choice = run.choice
  BY <1>3 DEF PartEnds
<1>9. "credentials" \in world.env => Knows(run', world')
  <2>1. CASE world' = Se!Restarted(world)
    <3>1. /\ world'.service.credentials <=> "credentials" \in world.env
          /\ world'.service.tz = world'.tz
          /\ world'.service.adapters = {c \in Channels : world'.adapter[c] = "built"}
      BY <1>2, <2>1, RestartTypes
    <3> QED BY <1>2, <1>8, <3>1 DEF Knows
  <2>2. CASE world' \in Se!Unheard(world)
    BY <1>2, <2>2, RestartTypes DEF Knows
  <2> QED BY <1>5, <2>1, <2>2
<1> QED BY <1>1, <1>3, <1>4, <1>6, <1>7, <1>8, <1>9, PartLeaves

LEMMA SetupTeamsApp == ASSUME HostFit, SetupInv, Se!TeamsApp PROVE SetupInv'
<1>1. run.at = "app" /\ run.at \in Se!ChannelParts /\ world' = world
  BY DEF Se!TeamsApp, Se!Prompts, Se!ChannelParts
<1>2. run.choice \in Channels /\ run.at \in PartsOf(run.choice) /\ world \in SetupWorldType /\ run \in SetupRunType
  BY <1>1, SamePart
<1>3. run.choice = "teams"
  BY <1>1, <1>2, SetupConstants DEF PartsOf, Se!Known
<1>4. run.choice \notin Se!Wiring
  BY <1>3 DEF Se!Wiring
<1>5. CASE Se!Ok("app")
  <2>1. PartEnds
    BY <1>1, <1>5, PartGoes DEF Se!Ok
  <2>2. run'.choice = run.choice
    BY <2>1 DEF PartEnds
  <2> QED BY <1>1, <1>2, <1>4, <2>1, <2>2, PartLeaves
<1>6. CASE Se!Go("app", "install")
  <2>1. RunOK(run) /\ SetupCounts
    BY DEF SetupInv
  <2>2. run' = Moved("install", run.skip, run.offers, "app") /\ SetupCounts'
    BY <1>2, <1>6, <2>1, GoMoves, CountsStay
  <2>3. "install" \in Se!Parts /\ "install" \in Se!ChannelParts /\ "app" \notin Early
        /\ Stage("install") = 9 /\ Stage(run.at) = 9
    BY <1>1, StagesAre DEF Se!Parts, Se!ChannelParts, Early
  <2>4. RunOK(run')
    <3>1. Stage("install") <= Stage(run.at)
      BY <2>3
    <3> QED BY <1>1, <2>1, <2>2, <2>3, <3>1, RunAside
  <2>5. run'.at = "install" /\ run'.choice = run.choice
    BY <1>2, <2>2, MovedRecord
  <2>6. ChoiceOK(run')
    BY <1>2, <1>3, <2>3, <2>5 DEF ChoiceOK, PartsOf
  <2>7. WiredOK(run', world')
    BY <1>4, <2>5 DEF WiredOK
  <2> QED BY <1>1, <1>2, <2>2, <2>4, <2>6, <2>7 DEF SetupInv
<1> QED BY <1>5, <1>6 DEF Se!TeamsApp, Se!Prompts

LEMMA SetupTeamsManifest == ASSUME HostFit, SetupInv, Se!TeamsManifest PROVE SetupInv'
<1>1. run.at = "manifest" /\ run.at \in Se!ChannelParts /\ world' = world
  BY DEF Se!TeamsManifest, Se!ChannelParts
<1>2. run.choice \in Channels /\ run.at \in PartsOf(run.choice) /\ world \in SetupWorldType /\ run \in SetupRunType
  BY <1>1, SamePart
<1>3. run.choice = "teams"
  BY <1>1, <1>2, SetupConstants DEF PartsOf, Se!Known
<1>4. run.choice \notin Se!Wiring
  BY <1>3 DEF Se!Wiring
<1>5. CASE Se!Ok("manifest")
  <2>1. PartEnds
    BY <1>1, <1>5, PartGoes DEF Se!Ok
  <2>2. run'.choice = run.choice
    BY <2>1 DEF PartEnds
  <2> QED BY <1>1, <1>2, <1>4, <2>1, <2>2, PartLeaves
<1>6. CASE Se!Mishap("manifest", "idle")
  <2>1. RunOK(run) /\ SetupCounts
    BY DEF SetupInv
  <2>2. run' = Moved("idle", run.skip, run.offers, "manifest") /\ SetupCounts'
    BY <1>2, <1>6, <2>1, MishapMoves
  <2>3. "manifest" \notin Early /\ Stage(run.at) = 9 /\ Stage("idle") = 0 /\ "idle" \notin Se!ChannelParts \cup {"channel"}
    BY <1>1, StagesAre DEF Se!ChannelParts, Early
  <2>4. RunOK(run')
    <3>1. Stage("idle") <= Stage(run.at)
      BY <2>3
    <3> QED BY <1>1, <2>1, <2>2, <2>3, <3>1, RunAside
  <2>5. run'.at = "idle" /\ run'.choice = run.choice
    BY <1>2, <2>2, MovedRecord
  <2>6. ChoiceOK(run')
    BY <2>3, <2>5 DEF ChoiceOK
  <2>7. WiredOK(run', world')
    BY <1>4, <2>5 DEF WiredOK
  <2> QED BY <1>1, <1>2, <2>2, <2>4, <2>6, <2>7 DEF SetupInv
<1> QED BY <1>5, <1>6 DEF Se!TeamsManifest

LEMMA SetupBack == ASSUME HostFit, SetupInv, Se!Back PROVE SetupInv'
<1>1. run.at \in Se!ChannelParts /\ world' = world /\ Se!Go(run.at, "channel")
  <2>1. ASSUME NEW c \in Channels PROVE Se!Flow[c][1] \in Se!ChannelParts
    <3>1. c \in Se!Known
      BY SetupConstants
    <3> QED BY <3>1, FlowParts
  <2> QED BY <2>1 DEF Se!Back, Se!ChannelParts
<1>2. run.choice \in Channels /\ world \in SetupWorldType /\ run \in SetupRunType
  BY <1>1, SamePart
<1>3. RunOK(run) /\ SetupCounts
  BY DEF SetupInv
<1>4. run' = Moved("channel", run.skip, run.offers, run.at) /\ SetupCounts'
  BY <1>1, <1>2, <1>3, GoMoves, CountsStay
<1>5. run.at \notin Early /\ Stage(run.at) = 9 /\ Stage("channel") = 9 /\ "channel" \notin Se!ChannelParts
  BY <1>1, StagesAre DEF Se!ChannelParts, Early
<1>6. RunOK(run')
  <2>1. Stage("channel") <= Stage(run.at)
    BY <1>5
  <2> QED BY <1>1, <1>3, <1>4, <1>5, <2>1, RunAside
<1>7. run'.at = "channel" /\ run'.said = run.said
  BY <1>2, <1>4, MovedRecord
<1>8. run.said = "none"
  BY <1>1, <1>3 DEF RunOK, OwedAhead, Se!ChannelParts
<1>9. ChoiceOK(run') /\ WiredOK(run', world')
  BY <1>5, <1>7, <1>8 DEF ChoiceOK, WiredOK
<1> QED BY <1>1, <1>2, <1>4, <1>6, <1>9 DEF SetupInv

LEMMA SetupChoose ==
  ASSUME HostFit, SetupInv, NEW c \in Channels \cup {"skip"}, Se!Choose(c)
  PROVE  SetupInv'
<1> DEFINE p == IF c = "skip" THEN Se!After("channel") ELSE Se!Flow[c][1]
           owed == IF run.owed \in Se!ChannelParts THEN "none" ELSE run.owed
<1>1. /\ run \in SetupRunType /\ Unskipped(run) /\ OffersAhead(run) /\ OwedAhead(run)
      /\ world \in SetupWorldType /\ SetupCounts
  BY DEF SetupInv, RunOK
<1>2. run.at = "channel" /\ wanted' = (IF c = "skip" THEN wanted ELSE c) /\ UNCHANGED <<world, processes, mishaps>>
      /\ run' = [run EXCEPT !.choice = c, !.owed = owed, !.at = p]
  BY DEF Se!Choose
<1>3. c = "skip" => p = "verify"
  BY <1>1, AfterChannel
<1>4. c # "skip" => p = FirstPart(c) /\ p \in PartsOf(c) /\ p \in Se!ChannelParts
  <2>1. c # "skip" => c \in Se!Known
    BY SetupConstants
  <2> QED BY <2>1, FlowParts
<1> HIDE DEF p, owed
<1>5. p \in Se!ChannelParts \cup {"verify"} /\ p \in Se!Steps \cup Se!Parts
  BY <1>3, <1>4, OrderOfSteps DEF Se!Parts
<1>6. owed \in Se!Steps \cup Se!Parts \cup {"none"} /\ owed \in Failing \cup {"none"} /\ owed \notin Se!ChannelParts
  BY <1>1, OrderOfSteps DEF owed, SetupRunType, OwedAhead, Se!ChannelParts
<1>7. /\ run' \in SetupRunType /\ run'.at = p /\ run'.choice = c /\ run'.owed = owed /\ run'.skip = run.skip
      /\ run'.offers = run.offers /\ run'.said = run.said
  BY <1>1, <1>2, <1>5, <1>6 DEF SetupRunType
<1>8. run.said = "none" /\ Stage(run.at) = 9
  BY <1>1, <1>2, StagesAre DEF OwedAhead
<1>9. run.owed \notin Early
  <2>1. \A x \in Early : Stage(x) \in 1..6
    BY StagesAre DEF Early
  <2> QED BY <1>1, <1>8, <2>1 DEF OwedAhead
<1>10. owed \notin Early
  BY <1>9 DEF owed, Early
<1>11. Unskipped(run') /\ OffersAhead(run')
  <2>1. p \in Se!Steps => p = "verify"
    BY <1>5, OrderOfSteps
  <2> QED BY <1>1, <1>2, <1>7, <2>1 DEF Unskipped, OffersAhead
<1>12. OwedAhead(run')
  BY <1>6, <1>7, <1>8, <1>10 DEF OwedAhead
<1>13. ChoiceOK(run')
  <2>1. Stage(p) \notin 1..8
    BY <1>5, StagesAre
  <2>2. p \in Se!ChannelParts => c \in Channels /\ p \in PartsOf(c)
    BY <1>3, <1>4 DEF Se!ChannelParts
  <2> QED BY <1>7, <2>1, <2>2 DEF ChoiceOK
<1>14. WiredOK(run', world')
  <2>1. c \in Se!Wiring => c # "skip" /\ c \in {"whatsapp", "signal", "discord", "slack", "imessage"}
    BY DEF Se!Wiring, Se!Known
  <2>2. c \in Se!Wiring => p \notin {"restart", "dm", "init", "verify"}
    BY <1>4, <2>1 DEF FirstPart
  <2> QED BY <1>7, <1>8, <2>2 DEF WiredOK
<1>15. SetupCounts'
  BY <1>1, <1>2 DEF SetupCounts
<1> QED BY <1>1, <1>2, <1>7, <1>11, <1>12, <1>13, <1>14, <1>15 DEF SetupInv, RunOK

LEMMA SetupVerify == ASSUME HostFit, SetupInv, Se!Verify PROVE SetupInv'
<1> DEFINE word == IF Se!Verified THEN "set" ELSE "almost"
           owed == Se!Paid("verify")
<1>1. /\ run \in SetupRunType /\ Unskipped(run) /\ OffersAhead(run) /\ OwedAhead(run) /\ WiredOK(run, world)
      /\ world \in SetupWorldType /\ SetupCounts
  BY DEF SetupInv, RunOK
<1>2. run.at = "verify" /\ UNCHANGED <<world, wanted, processes, mishaps>>
      /\ run' = [run EXCEPT !.at = "idle", !.owed = owed, !.said = word]
  BY DEF Se!Verify
<1>3. word \in {"set", "almost"} /\ owed = IF run.owed = "verify" THEN "none" ELSE run.owed
  BY DEF Se!Paid
<1> HIDE DEF word, owed
<1>4. /\ run' \in SetupRunType /\ run'.at = "idle" /\ run'.choice = run.choice /\ run'.owed = owed /\ run'.skip = run.skip
      /\ run'.offers = run.offers /\ run'.said = word
  <2>1. owed \in Se!Steps \cup Se!Parts \cup {"none"}
    BY <1>1, <1>3 DEF SetupRunType
  <2> QED BY <1>1, <1>2, <1>3, <2>1 DEF SetupRunType
<1>5. owed \notin Early \cup Se!ChannelParts /\ owed \in Failing \cup {"none"}
  <2>1. \A x \in Early : Stage(x) \in 1..6
    BY StagesAre DEF Early
  <2>2. Stage(run.at) = 10
    BY <1>2, StagesAre
  <2>3. run.owed \notin Early \cup Se!ChannelParts /\ run.owed \in Failing \cup {"none"}
    BY <1>1, <2>1, <2>2 DEF OwedAhead
  <2>4. "none" \notin Early \cup Se!ChannelParts
    BY DEF Early, Se!ChannelParts
  <2> QED BY <1>3, <2>3, <2>4
<1>6. "idle" \notin Se!Steps /\ "idle" \notin Se!ChannelParts
  BY OrderOfSteps DEF Se!ChannelParts
<1>7. Unskipped(run') /\ OffersAhead(run')
  BY <1>1, <1>2, <1>4, <1>6 DEF Unskipped, OffersAhead
<1>8. OwedAhead(run')
  BY <1>4, <1>5 DEF OwedAhead
<1>9. ChoiceOK(run')
  BY <1>4, <1>6, StagesAre DEF ChoiceOK
<1>10. WiredOK(run', world')
  BY <1>1, <1>2, <1>4 DEF WiredOK, Knows
<1>11. SetupCounts'
  BY <1>1, <1>2, CountsStay
<1> QED BY <1>1, <1>2, <1>4, <1>7, <1>8, <1>9, <1>10, <1>11 DEF SetupInv, RunOK

LEMMA SetupInit == ASSUME HostFit, Se!Init PROVE SetupInv
<1>1. run = [at |-> "idle", skip |-> {}, offers |-> {}, owed |-> "none", choice |-> "skip", said |-> "none"]
      /\ wanted = "any" /\ processes = 0 /\ mishaps = 0
  BY DEF Se!Init
<1> DEFINE a == [c \in Channels |-> IF c \in Se!Fetched THEN "packages" ELSE "none"]
<1>2. world = [env |-> {}, tz |-> "none", secret |-> FALSE, agents |-> {}, adapter |-> a,
               service |-> Se!Down, deaf |-> FALSE]
  BY DEF Se!Init
<1>3. a \in [Channels -> {"none", "sources", "packages", "built"}]
  OBVIOUS
<1>4. Se!Down \in [up : BOOLEAN, credentials : BOOLEAN, adapters : SUBSET Channels, tz : Se!Zones]
  BY DEF Se!Down, Se!Zones
<1> HIDE DEF a
<1>5. world \in SetupWorldType
  BY <1>2, <1>3, <1>4 DEF SetupWorldType, Se!Zones
<1>6. run \in SetupRunType
  BY <1>1 DEF SetupRunType
<1>7. "idle" \notin Se!Steps /\ "idle" \notin Se!ChannelParts
  BY OrderOfSteps DEF Se!ChannelParts
<1>8. Unskipped(run) /\ OffersAhead(run)
  BY <1>1, <1>7 DEF Unskipped, OffersAhead
<1>9. OwedAhead(run)
  BY <1>1 DEF OwedAhead, Early, Se!ChannelParts
<1>10. ChoiceOK(run) /\ WiredOK(run, world)
  BY <1>1, <1>7, StagesAre DEF ChoiceOK, WiredOK
<1>11. SetupCounts
  BY <1>1, SetupConstants DEF SetupCounts
<1> QED BY <1>5, <1>6, <1>8, <1>9, <1>10, <1>11 DEF SetupInv, RunOK

LEMMA SetupStep ==
  ASSUME HostFit, SetupInv, [Se!Next]_(Se!vars)
  PROVE  SetupInv'
<1>1. CASE Se!Next
  BY <1>1, SetupBegin, SetupQuit, SetupRetry, SetupReexec, SetupEnvironment, SetupContainer, SetupMounts,
     SetupOnecli, SetupSecretExists, SetupSubscriptionAuth, SetupPasteAuth, SetupSkipAuth, SetupService,
     SetupServiceUnheard, SetupServiceFails, SetupCliAgent, SetupPing, SetupCleanup, SetupWhatNext,
     SetupTimezone, SetupConfirm, SetupPersist, SetupChoose, SetupBack, SetupTelegramToken,
     SetupDiscordToken, SetupSlackToken, SetupIMessageMode, SetupSignalCli, SetupDirectMessage,
     SetupTeamsApp, SetupTeamsBot, SetupTeamsManifest, SetupTeamsSideload, SetupTeamsHandoff,
     SetupInstall, SetupInstallWhatsApp, SetupInstallSignal, SetupInstallFails, SetupLinkSignal,
     SetupLinkWhatsApp, SetupRestartService, SetupPairTelegram, SetupInitAgent, SetupVerify, Zenon
     DEF Se!Next
<1>2. CASE UNCHANGED Se!vars
  <2>1. UNCHANGED <<run, world, wanted, processes, mishaps>>
    BY <1>2 DEF Se!vars
  <2>2. SetupCounts'
    BY <2>1, CountsStay DEF SetupInv
  <2> QED BY <2>1, <2>2 DEF SetupInv
<1> QED BY <1>1, <1>2

LEMMA SetupHolds ==
  ASSUME HostFit, SetupInv
  PROVE  Se!TypeOK /\ Se!RetryResumes /\ Se!ReadyMeansReady
<1>1. run \in SetupRunType /\ world \in SetupWorldType /\ SetupCounts /\ OwedAhead(run) /\ WiredOK(run, world)
  BY DEF SetupInv, RunOK
<1>2. Se!TypeOK
  BY <1>1, Zenon DEF Se!TypeOK, SetupRunType, SetupWorldType, SetupCounts
<1>3. Se!RetryResumes
  <2> SUFFICES ASSUME run.at = "verify" \/ run.said # "none", run.owed # "none"
               PROVE  run.owed \in {"timezone", "terminal", "cli-agent"}
    BY DEF Se!RetryResumes
  <2>1. \A x \in Early : Stage(x) \in 1..6
    BY StagesAre DEF Early
  <2>2. Stage("verify") = 10
    BY StagesAre
  <2>3. run.owed \notin Early \cup Se!ChannelParts /\ run.owed \in Failing
    BY <1>1, <2>1, <2>2 DEF OwedAhead
  <2> QED BY <2>3 DEF Failing, Excepted
<1>4. Se!ReadyMeansReady
  BY <1>1 DEF Se!ReadyMeansReady, Se!Adapter, WiredOK, Knows
<1> QED BY <1>2, <1>3, <1>4

(***************************************************************************)
(* The adapters.                                                           *)
(***************************************************************************)
\* Whether t waits in a queue, and no text waits twice.
Waits(t, q) == \E k \in DOMAIN q : q[k] = t
NoneTwice(q) == \A j, k \in DOMAIN q : q[j] = q[k] => j = k

LEMMA QueueAppend ==
  ASSUME NEW T, NEW q \in Seq(T), NEW e \in T
  PROVE  /\ Append(q, e) \in Seq(T) /\ Len(Append(q, e)) = Len(q) + 1
         /\ \A t : Waits(t, Append(q, e)) <=> Waits(t, q) \/ t = e
         /\ NoneTwice(q) /\ ~Waits(e, q) => NoneTwice(Append(q, e))
<1> DEFINE p == Append(q, e)
<1>1. /\ p \in Seq(T) /\ Len(p) = Len(q) + 1 /\ Len(q) \in Nat
      /\ DOMAIN q = 1..Len(q) /\ DOMAIN p = 1..(Len(q) + 1)
      /\ \A k \in DOMAIN q : p[k] = q[k]
      /\ p[Len(q) + 1] = e
  OBVIOUS
<1>2. DOMAIN p = DOMAIN q \cup {Len(q) + 1} /\ Len(q) + 1 \notin DOMAIN q
  BY <1>1
<1> HIDE DEF p
<1>3. \A t : Waits(t, p) <=> Waits(t, q) \/ t = e
  BY <1>1, <1>2, Zenon DEF Waits
<1>4. NoneTwice(q) /\ ~Waits(e, q) => NoneTwice(p)
  BY <1>1, <1>2, Zenon DEF Waits, NoneTwice
<1> QED BY <1>1, <1>3, <1>4 DEF p

LEMMA QueueTail ==
  ASSUME NEW T, NEW q \in Seq(T), q # <<>>
  PROVE  /\ Tail(q) \in Seq(T) /\ Head(q) \in T /\ Len(Tail(q)) = Len(q) - 1 /\ Len(q) \in Nat \ {0}
         /\ \A t : Waits(t, q) <=> Waits(t, Tail(q)) \/ t = Head(q)
         /\ NoneTwice(q) => NoneTwice(Tail(q)) /\ ~Waits(Head(q), Tail(q))
<1> DEFINE p == Tail(q)
<1>1. /\ p \in Seq(T) /\ Head(q) \in T /\ Len(q) \in Nat \ {0} /\ Len(p) = Len(q) - 1
      /\ DOMAIN q = 1..Len(q) /\ DOMAIN p = 1..(Len(q) - 1)
      /\ Head(q) = q[1]
      /\ \A k \in DOMAIN p : p[k] = q[k + 1]
  OBVIOUS
<1>2. \A k \in DOMAIN p : k + 1 \in DOMAIN q /\ k + 1 # 1
  BY <1>1
<1>3. \A k \in DOMAIN q : k # 1 => k - 1 \in DOMAIN p /\ p[k - 1] = q[k]
  BY <1>1
<1>4. 1 \in DOMAIN q
  BY <1>1
<1>7. \A j, k \in DOMAIN p : j + 1 = k + 1 => j = k
  BY <1>1
<1> HIDE DEF p
<1>5. \A t : Waits(t, q) <=> Waits(t, p) \/ t = Head(q)
  BY <1>1, <1>2, <1>3, <1>4, Zenon DEF Waits
<1>6. NoneTwice(q) => NoneTwice(p) /\ ~Waits(Head(q), p)
  BY <1>1, <1>2, <1>4, <1>7, Zenon DEF Waits, NoneTwice
<1> QED BY <1>1, <1>5, <1>6 DEF p

LEMMA QueuePrepend ==
  ASSUME NEW T, NEW q \in Seq(T), NEW e \in T
  PROVE  /\ <<e>> \o q \in Seq(T) /\ Len(<<e>> \o q) = Len(q) + 1
         /\ \A t : Waits(t, <<e>> \o q) <=> Waits(t, q) \/ t = e
         /\ NoneTwice(q) /\ ~Waits(e, q) => NoneTwice(<<e>> \o q)
<1> DEFINE p == <<e>> \o q
<1>1. /\ p \in Seq(T) /\ Len(p) = Len(q) + 1 /\ Len(q) \in Nat
      /\ DOMAIN q = 1..Len(q) /\ DOMAIN p = 1..(Len(q) + 1)
      /\ p[1] = e
      /\ \A k \in DOMAIN p : k # 1 => p[k] = q[k - 1]
  OBVIOUS
<1>2. \A k \in DOMAIN p : k # 1 => k - 1 \in DOMAIN q
  BY <1>1
<1>3. \A k \in DOMAIN q : k + 1 \in DOMAIN p /\ k + 1 # 1 /\ p[k + 1] = q[k]
  BY <1>1
<1>4. 1 \in DOMAIN p
  BY <1>1
<1>7. \A j, k \in DOMAIN p : j - 1 = k - 1 => j = k
  BY <1>1
<1> HIDE DEF p
<1>5. \A t : Waits(t, p) <=> Waits(t, q) \/ t = e
  <2> TAKE t
  <2>1. ASSUME NEW k \in DOMAIN p, p[k] = t PROVE Waits(t, q) \/ t = e
    BY <1>1, <1>2, <2>1, Zenon DEF Waits
  <2>2. ASSUME NEW k \in DOMAIN q, q[k] = t PROVE Waits(t, p)
    BY <1>3, <2>2, Zenon DEF Waits
  <2>3. Waits(e, p)
    BY <1>1, <1>4, Zenon DEF Waits
  <2> QED BY <2>1, <2>2, <2>3, Zenon DEF Waits
<1>6. NoneTwice(q) /\ ~Waits(e, q) => NoneTwice(p)
  BY <1>1, <1>2, <1>4, <1>7, Zenon DEF Waits, NoneTwice
<1> QED BY <1>1, <1>5, <1>6 DEF p

SockTypes ==
  /\ host \in {"down", "starting", "running", "failed"}
  /\ link \in {"none", "first", "dialing", "resting", "redialing", "stuck", "made", "open", "out"}
  /\ connected \in BOOLEAN /\ failed \in BOOLEAN
CredTypes ==
  /\ pairings \in 0..MaxPairings
  /\ paired \in 0..pairings /\ copied \in 0..pairings /\ valid \in 0..pairings /\ held \in 0..pairings
  /\ uploads \subseteq 1..pairings /\ saving \subseteq 1..pairings /\ gone \subseteq 1..pairings /\ late \subseteq 0..pairings
ModeTypes ==
  /\ backed \in BOOLEAN /\ timer \in BOOLEAN
  /\ leaving \in {"no", "reconnect", "exit"} /\ purging \in {"no", "logout", "s3"}
  /\ trouble \in 0..MaxTrouble
\* A flush leaves room for the text it holds.
QueueTypes ==
  /\ queue \in Seq(Wa!Texts) /\ hand \in Wa!Texts \cup {Wa!None}
  /\ Len(queue) <= MaxQueue + 1 /\ (hand # Wa!None => Len(queue) <= MaxQueue)
SetTypes ==
  /\ direct \subseteq Wa!Texts /\ handed \subseteq Wa!Texts /\ sent \subseteq Wa!Texts
  /\ dropped \subseteq Wa!Texts /\ lost \subseteq Wa!Texts
LiveTypes ==
  /\ live \subseteq Wa!Texts \cap (direct \cup {hand})
  /\ there \subseteq Wa!Texts \cap (direct \cup {hand})
CountTypes == shown \in [Wa!Texts -> Nat] /\ unclear \in [Wa!Texts -> Nat]
AskTypes ==
  /\ registered \in {Wa!None} \cup ({"ask"} \X TextQuestions)
  /\ coming \subseteq answered /\ answered \subseteq TextQuestions /\ acted \subseteq TextQuestions \X TextQuestions

\* A text that was handed over is in one place, the others in none.
Placed(t) ==
  /\ t \in handed <=> Waits(t, queue) \/ t \in direct \/ t = hand \/ t \in sent \/ t \in dropped \/ t \in lost
  /\ Waits(t, queue) => t \notin direct /\ t # hand /\ t \notin sent /\ t \notin dropped /\ t \notin lost
  /\ t \in direct => t # hand /\ t \notin sent /\ t \notin dropped /\ t \notin lost
  /\ t = hand => t \notin sent /\ t \notin dropped /\ t \notin lost
  /\ t \in sent => t \notin dropped /\ t \notin lost
  /\ t \in dropped => t \notin lost
PlacesInv == NoneTwice(queue) /\ \A t \in Wa!Texts : Placed(t)

\* A receipt is said once: its question was confirmed, and is asked no more.
ReceiptsInv ==
  /\ registered # Wa!None => registered \in sent
  /\ \A x \in TextQuestions : <<"receipt", x>> \in handed => <<"ask", x>> \in sent /\ registered # <<"ask", x>>

ShownInv ==
  \A t \in Wa!Texts :
    shown[t] <= unclear[t] + (IF t \in sent \/ t \in there \/ t \in lost THEN 1 ELSE 0)

WaitsInv == connected /\ queue # <<>> => hand # Wa!None \/ failed

FirstInv == link = "first" => host = "starting"

\* What was wiped is neither in the directory nor on its way there or to S3, nor in a dial
\* or a socket, nor, once its turn has come, in S3.
PurgeInv ==
  /\ purging # "no" => host = "running"
  /\ uploads \cap gone \subseteq late /\ {paired} \cap gone \subseteq late
  /\ saving \cap gone \subseteq late /\ {held} \cap gone \subseteq late
  /\ purging # "s3" => {copied} \cap gone \subseteq late

TextTypes == QueueTypes /\ SetTypes /\ LiveTypes /\ CountTypes
PairTypes == SockTypes /\ CredTypes /\ ModeTypes /\ AskTypes
WhatsAppInv == TextTypes /\ PairTypes /\ PlacesInv /\ ReceiptsInv /\ ShownInv /\ WaitsInv /\ FirstInv /\ PurgeInv

LEMMA WhatsAppConstants ==
  ASSUME AdaptersFit
  PROVE  MaxQueue \in Nat /\ MaxQueue >= 1 /\ MaxPairings \in Nat /\ MaxTrouble \in Nat
BY DEF AdaptersFit, Wa!ConstantAssumption

\* None is no text.
LEMMA NoText == Wa!None \notin Wa!Texts
BY DEF Wa!None, Wa!Texts

LEMMA StaySockTypes == ASSUME SockTypes, UNCHANGED <<host, link, connected, failed>> PROVE SockTypes'
BY DEF SockTypes

LEMMA StayCredTypes == ASSUME CredTypes, UNCHANGED <<pairings, paired, copied, valid, held, saving, uploads, gone, late>> PROVE CredTypes'
BY DEF CredTypes

LEMMA StayModeTypes == ASSUME ModeTypes, UNCHANGED <<backed, timer, leaving, purging, trouble>> PROVE ModeTypes'
BY DEF ModeTypes

LEMMA StayQueueTypes == ASSUME QueueTypes, UNCHANGED <<queue, hand>> PROVE QueueTypes'
BY DEF QueueTypes

LEMMA StaySetTypes == ASSUME SetTypes, UNCHANGED <<direct, handed, sent, dropped, lost>> PROVE SetTypes'
BY DEF SetTypes

LEMMA StayLiveTypes == ASSUME LiveTypes, UNCHANGED <<live, there, direct, hand>> PROVE LiveTypes'
BY DEF LiveTypes

LEMMA StayCountTypes == ASSUME CountTypes, UNCHANGED <<shown, unclear>> PROVE CountTypes'
BY DEF CountTypes

LEMMA StayAskTypes == ASSUME AskTypes, UNCHANGED <<registered, coming, answered, acted>> PROVE AskTypes'
BY DEF AskTypes

LEMMA StayPlacesInv == ASSUME PlacesInv, UNCHANGED <<queue, hand, direct, handed, sent, dropped, lost>> PROVE PlacesInv'
BY DEF PlacesInv, Placed

LEMMA StayReceiptsInv == ASSUME ReceiptsInv, UNCHANGED <<registered, sent, handed>> PROVE ReceiptsInv'
BY DEF ReceiptsInv

LEMMA StayShownInv == ASSUME ShownInv, UNCHANGED <<shown, unclear, sent, there, lost>> PROVE ShownInv'
BY DEF ShownInv

LEMMA StayWaitsInv == ASSUME WaitsInv, UNCHANGED <<connected, queue, hand, failed>> PROVE WaitsInv'
BY DEF WaitsInv

LEMMA StayFirstInv == ASSUME FirstInv, UNCHANGED <<link, host>> PROVE FirstInv'
BY DEF FirstInv

LEMMA StayPurgeInv == ASSUME PurgeInv, UNCHANGED <<purging, host, uploads, gone, late, paired, copied, held, saving>> PROVE PurgeInv'
BY DEF PurgeInv

\* What a text put into the queue changes: the oldest may have to go.
LEMMA EnqueueFacts ==
  ASSUME AdaptersFit, QueueTypes, SetTypes, NEW t \in Wa!Texts, Wa!Enqueue(t), NoneTwice(queue), ~Waits(t, queue)
  PROVE  /\ queue' \in Seq(Wa!Texts) /\ NoneTwice(queue') /\ queue' # <<>>
         /\ Len(queue') <= MaxQueue \/ Len(queue') = Len(queue)
         /\ \E out \in SUBSET Wa!Texts :
              /\ dropped' = dropped \cup out /\ \A u \in out : Waits(u, queue)
              /\ \A u : Waits(u, queue') <=> u = t \/ (Waits(u, queue) /\ u \notin out)
<1>1. CASE Len(queue) >= MaxQueue
  <2>1. queue # <<>>
    BY <1>1, WhatsAppConstants DEF QueueTypes
  <2>2. queue' = Append(Tail(queue), t) /\ dropped' = dropped \cup {Head(queue)}
    BY <1>1 DEF Wa!Enqueue
  <2>3. /\ Tail(queue) \in Seq(Wa!Texts) /\ Head(queue) \in Wa!Texts /\ Len(Tail(queue)) = Len(queue) - 1
        /\ Len(queue) \in Nat /\ NoneTwice(Tail(queue)) /\ ~Waits(Head(queue), Tail(queue))
        /\ \A u : Waits(u, queue) <=> Waits(u, Tail(queue)) \/ u = Head(queue)
    BY <2>1, QueueTail DEF QueueTypes
  <2>4. ~Waits(t, Tail(queue))
    BY <2>3
  <2>5. /\ queue' \in Seq(Wa!Texts) /\ NoneTwice(queue') /\ Len(queue') = Len(queue)
        /\ \A u : Waits(u, queue') <=> Waits(u, Tail(queue)) \/ u = t
    <3> DEFINE p == Tail(queue)
    <3>1. p \in Seq(Wa!Texts) /\ NoneTwice(p) /\ ~Waits(t, p) /\ queue' = Append(p, t) /\ Len(p) + 1 = Len(queue)
      BY <2>2, <2>3, <2>4
    <3> HIDE DEF p
    <3>2. /\ queue' \in Seq(Wa!Texts) /\ NoneTwice(queue') /\ Len(queue') = Len(queue)
          /\ \A u : Waits(u, queue') <=> Waits(u, p) \/ u = t
      BY <3>1, QueueAppend
    <3> QED BY <3>2 DEF p
  <2>6. queue' # <<>>
    BY <2>1, <2>3, <2>5 DEF QueueTypes
  <2> DEFINE out == {Head(queue)}
  <2>7. out \in SUBSET Wa!Texts /\ dropped' = dropped \cup out /\ \A u \in out : Waits(u, queue)
    BY <2>2, <2>3
  <2>8. \A u : Waits(u, queue') <=> u = t \/ (Waits(u, queue) /\ u \notin out)
    BY <2>3, <2>5
  <2> QED BY <2>5, <2>6, <2>7, <2>8
<1>2. CASE ~(Len(queue) >= MaxQueue)
  <2>1. queue' = Append(queue, t) /\ dropped' = dropped
    BY <1>2 DEF Wa!Enqueue
  <2>2. /\ queue' \in Seq(Wa!Texts) /\ NoneTwice(queue') /\ Len(queue') = Len(queue) + 1
        /\ \A u : Waits(u, queue') <=> Waits(u, queue) \/ u = t
    BY <2>1, QueueAppend DEF QueueTypes
  <2>3. Len(queue) \in Nat
    BY DEF QueueTypes
  <2>4. Len(queue') <= MaxQueue /\ queue' # <<>>
    BY <1>2, <2>2, <2>3, WhatsAppConstants
  <2>5. {} \in SUBSET Wa!Texts /\ dropped' = dropped \cup {}
    BY <2>1
  <2> QED BY <2>2, <2>4, <2>5
<1> QED BY <1>1, <1>2

\* What a flush takes from the queue.
LEMMA FlushFacts ==
  ASSUME AdaptersFit, QueueTypes, NoneTwice(queue), NEW on, NEW others, Wa!FlushFrom(queue, on, others)
  PROVE  /\ queue' \in Seq(Wa!Texts) /\ NoneTwice(queue')
         /\ hand' \in Wa!Texts \cup {Wa!None} /\ Len(queue') <= MaxQueue
         /\ hand' = Wa!None => queue' = <<>>
         /\ \A u \in Wa!Texts : Waits(u, queue) <=> Waits(u, queue') \/ u = hand'
         /\ ~Waits(hand', queue') \/ hand' = Wa!None
         /\ live' \subseteq others \cup ({hand'} \ {Wa!None})
<1>1. CASE queue = <<>>
  <2>1. hand' = Wa!None /\ queue' = queue /\ live' = others
    BY <1>1 DEF Wa!FlushFrom
  <2>2. Len(queue) = 0
    BY <1>1
  <2> QED BY <1>1, <2>1, <2>2, NoText, WhatsAppConstants DEF QueueTypes
<1>2. CASE queue # <<>>
  <2>1. /\ hand' = Head(queue) /\ queue' = Tail(queue)
        /\ live' = (IF on THEN others \cup {Head(queue)} ELSE others)
    BY <1>2 DEF Wa!FlushFrom
  <2>2. /\ queue' \in Seq(Wa!Texts) /\ hand' \in Wa!Texts /\ Len(queue') = Len(queue) - 1
        /\ Len(queue) \in Nat /\ NoneTwice(queue') /\ ~Waits(hand', queue')
        /\ \A u : Waits(u, queue) <=> Waits(u, queue') \/ u = hand'
    BY <1>2, <2>1, QueueTail DEF QueueTypes
  <2>3. hand' # Wa!None
    BY <2>2, NoText
  <2>4. Len(queue') <= MaxQueue
    BY <2>2, WhatsAppConstants DEF QueueTypes
  <2> QED BY <2>1, <2>2, <2>3, <2>4
<1> QED BY <1>1, <1>2

\* A text not yet handed over is sent, or queued.
LEMMA SendRawFacts ==
  ASSUME AdaptersFit, QueueTypes, SetTypes, LiveTypes, PlacesInv, NEW t \in Wa!Texts, t \notin handed, Wa!SendRaw(t),
         UNCHANGED <<hand, sent, lost, there, failed, connected>>
  PROVE  QueueTypes' /\ SetTypes' /\ LiveTypes' /\ PlacesInv' /\ handed' = handed \cup {t}
         /\ (connected => queue' = queue)
<1>1. handed' = handed \cup {t} /\ Placed(t) /\ ~Waits(t, queue)
  BY DEF Wa!SendRaw, PlacesInv, Placed
<1>2. CASE connected /\ direct' = direct \cup {t} /\ queue' = queue /\ dropped' = dropped
           /\ live' = IF link = "open" THEN live \cup {t} ELSE live
  <2>1. QueueTypes' /\ SetTypes' /\ LiveTypes'
    BY <1>1, <1>2 DEF QueueTypes, SetTypes, LiveTypes
  <2>2. ASSUME NEW u \in Wa!Texts PROVE Placed(u)'
    BY <1>1, <1>2 DEF PlacesInv, Placed
  <2> QED BY <1>1, <1>2, <2>1, <2>2 DEF PlacesInv
<1>3. CASE ~connected /\ Wa!Enqueue(t) /\ direct' = direct /\ live' = live
  <2>1. /\ queue' \in Seq(Wa!Texts) /\ NoneTwice(queue') /\ (Len(queue') <= MaxQueue \/ Len(queue') = Len(queue))
        /\ \E out \in SUBSET Wa!Texts :
              /\ dropped' = dropped \cup out /\ \A u \in out : Waits(u, queue)
              /\ \A u : Waits(u, queue') <=> u = t \/ (Waits(u, queue) /\ u \notin out)
    BY <1>1, <1>3, EnqueueFacts DEF PlacesInv
  <2>2. PICK out \in SUBSET Wa!Texts :
              /\ dropped' = dropped \cup out /\ \A u \in out : Waits(u, queue)
              /\ \A u : Waits(u, queue') <=> u = t \/ (Waits(u, queue) /\ u \notin out)
    BY <2>1
  <2>3. QueueTypes'
    <3>1. Len(queue') \in Nat /\ Len(queue) \in Nat
      BY <2>1 DEF QueueTypes
    <3> QED BY <2>1, <3>1, WhatsAppConstants DEF QueueTypes
  <2>4. SetTypes' /\ LiveTypes'
    BY <1>1, <1>3, <2>2 DEF SetTypes, LiveTypes
  <2>5. ASSUME NEW u \in Wa!Texts PROVE Placed(u)'
    BY <1>1, <1>3, <2>2 DEF PlacesInv, Placed
  <2> QED BY <1>1, <1>3, <2>1, <2>3, <2>4, <2>5 DEF PlacesInv
<1> QED BY <1>2, <1>3 DEF Wa!SendRaw

LEMMA TroubleStep ==
  ASSUME AdaptersFit, ModeTypes, Wa!Trouble \/ trouble' = trouble
  PROVE  trouble' \in 0..MaxTrouble
BY WhatsAppConstants DEF ModeTypes, Wa!Trouble

\* A send that fails though the text was shown is counted.
LEMMA FailsCounts ==
  ASSUME CountTypes, NEW t \in Wa!Texts, Wa!Fails(t), shown' = shown
  PROVE  CountTypes'
<1>1. unclear' = IF t \in there THEN [unclear EXCEPT ![t] = unclear[t] + 1] ELSE unclear
  BY DEF Wa!Fails
<1>2. unclear \in [Wa!Texts -> Nat] /\ unclear[t] + 1 \in Nat
  BY DEF CountTypes
<1>3. unclear' \in [Wa!Texts -> Nat]
  <2>1. CASE t \in there
    BY <1>1, <1>2, <2>1
  <2>2. CASE t \notin there
    BY <1>1, <1>2, <2>2
  <2> QED BY <2>1, <2>2
<1> QED BY <1>3 DEF CountTypes

LEMMA FailsShown ==
  ASSUME CountTypes, ShownInv, NEW t \in Wa!Texts, Wa!Fails(t), UNCHANGED <<shown, sent, lost>>
  PROVE  ShownInv'
<1>1. /\ there' = there \ {t}
      /\ unclear' = IF t \in there THEN [unclear EXCEPT ![t] = unclear[t] + 1] ELSE unclear
  BY DEF Wa!Fails
<1>2. ASSUME NEW u \in Wa!Texts
      PROVE  shown[u] <= unclear'[u] + (IF u \in sent \/ u \in there' \/ u \in lost THEN 1 ELSE 0)
  <2>1. shown[u] \in Nat /\ unclear[u] \in Nat
    BY DEF CountTypes
  <2>2. shown[u] <= unclear[u] + (IF u \in sent \/ u \in there \/ u \in lost THEN 1 ELSE 0)
    BY DEF ShownInv
  <2>3. CASE u = t /\ t \in there
    <3>1. unclear'[u] = unclear[u] + 1
      BY <1>1, <2>3 DEF CountTypes
    <3> QED BY <2>1, <2>2, <3>1
  <2>4. CASE ~(u = t /\ t \in there)
    <3>1. unclear'[u] = unclear[u] /\ (u \in there' <=> u \in there)
      BY <1>1, <2>4 DEF CountTypes
    <3> QED BY <2>2, <3>1
  <2> QED BY <2>3, <2>4
<1> QED BY <1>2 DEF ShownInv

LEMMA WaStepDeliver ==
  ASSUME AdaptersFit, WhatsAppInv, NEW t \in Wa!Texts, Wa!Deliver(t)
  PROVE  WhatsAppInv'
<1> SockTypes /\ CredTypes /\ ModeTypes /\ QueueTypes /\ SetTypes /\ LiveTypes /\ CountTypes /\ AskTypes
  BY DEF WhatsAppInv, TextTypes, PairTypes
<1> PlacesInv /\ ReceiptsInv /\ ShownInv /\ WaitsInv /\ FirstInv /\ PurgeInv
  BY DEF WhatsAppInv
<1>u. UNCHANGED <<host, link, connected, hand, there, sent, lost, shown, unclear, failed, registered, coming, answered, acted, backed, paired, copied, valid, pairings, timer, uploads, leaving, purging, gone, late, trouble, held, saving>>
  BY DEF Wa!Deliver, Wa!sockVars, Wa!askVars, Wa!credVars, Wa!SendRaw, Wa!Enqueue
<1>1. SockTypes'
  BY <1>u, StaySockTypes
<1>2. CredTypes'
  BY <1>u, StayCredTypes
<1>3. ModeTypes'
  BY <1>u, StayModeTypes
<1>4. QueueTypes'
  BY <1>u, SendRawFacts DEF Wa!Deliver
<1>5. SetTypes'
  BY <1>u, SendRawFacts DEF Wa!Deliver
<1>6. LiveTypes'
  BY <1>u, WhatsAppConstants, NoText DEF Wa!Deliver, Wa!sockVars, Wa!askVars, Wa!credVars, Wa!SendRaw, Wa!Enqueue, LiveTypes
<1>7. CountTypes'
  BY <1>u, StayCountTypes
<1>8. AskTypes'
  BY <1>u, StayAskTypes
<1>9. PlacesInv'
  BY <1>u, SendRawFacts DEF Wa!Deliver
<1>10. ReceiptsInv'
  <2>1. handed' = handed \cup {t} /\ t \in Wa!Delivered
    BY DEF Wa!Deliver, Wa!SendRaw
  <2>2. \A x \in TextQuestions : <<"receipt", x>> # t
    BY <2>1 DEF Wa!Delivered
  <2> QED BY <1>u, <2>1, <2>2 DEF ReceiptsInv
<1>11. ShownInv'
  BY <1>u, StayShownInv
<1>12. WaitsInv'
  BY <1>u, WhatsAppConstants, NoText DEF Wa!Deliver, Wa!sockVars, Wa!askVars, Wa!credVars, Wa!SendRaw, Wa!Enqueue, WaitsInv
<1>13. FirstInv'
  BY <1>u, StayFirstInv
<1>14. PurgeInv'
  BY <1>u, StayPurgeInv
<1> QED BY <1>1, <1>2, <1>3, <1>4, <1>5, <1>6, <1>7, <1>8, <1>9, <1>10, <1>11, <1>12, <1>13, <1>14 DEF WhatsAppInv, TextTypes, PairTypes

LEMMA WaStepShow ==
  ASSUME AdaptersFit, WhatsAppInv, NEW t \in Wa!Texts, Wa!Show(t)
  PROVE  WhatsAppInv'
<1> SockTypes /\ CredTypes /\ ModeTypes /\ QueueTypes /\ SetTypes /\ LiveTypes /\ CountTypes /\ AskTypes
  BY DEF WhatsAppInv, TextTypes, PairTypes
<1> PlacesInv /\ ReceiptsInv /\ ShownInv /\ WaitsInv /\ FirstInv /\ PurgeInv
  BY DEF WhatsAppInv
<1>u. UNCHANGED <<host, link, connected, queue, hand, direct, live, handed, sent, dropped, lost, unclear, failed, registered, coming, answered, acted, backed, paired, copied, valid, pairings, timer, uploads, leaving, purging, gone, late, trouble, held, saving>>
  BY DEF Wa!Show, Wa!sockVars, Wa!askVars, Wa!credVars
<1>1. SockTypes'
  BY <1>u, StaySockTypes
<1>2. CredTypes'
  BY <1>u, StayCredTypes
<1>3. ModeTypes'
  BY <1>u, StayModeTypes
<1>4. QueueTypes'
  BY <1>u, StayQueueTypes
<1>5. SetTypes'
  BY <1>u, StaySetTypes
<1>6. LiveTypes'
  BY <1>u, WhatsAppConstants, NoText DEF Wa!Show, Wa!sockVars, Wa!askVars, Wa!credVars, LiveTypes
<1>7. CountTypes'
  BY <1>u, WhatsAppConstants, NoText DEF Wa!Show, Wa!sockVars, Wa!askVars, Wa!credVars, CountTypes
<1>8. AskTypes'
  BY <1>u, StayAskTypes
<1>9. PlacesInv'
  BY <1>u, StayPlacesInv
<1>10. ReceiptsInv'
  BY <1>u, StayReceiptsInv
<1>11. ShownInv'
  <2>1. t \in live /\ shown' = [shown EXCEPT ![t] = shown[t] + 1] /\ there' = there \cup {t} /\ t \notin there
    BY DEF Wa!Show
  <2>2. t \notin sent /\ t \notin lost
    BY <2>1 DEF LiveTypes, PlacesInv, Placed
  <2>3. ASSUME NEW u \in Wa!Texts
        PROVE  shown'[u] <= unclear[u] + (IF u \in sent \/ u \in there' \/ u \in lost THEN 1 ELSE 0)
    <3>1. shown[u] \in Nat /\ unclear[u] \in Nat
      BY DEF CountTypes
    <3>2. CASE u = t
      <4>1. shown'[u] = shown[u] + 1
        BY <2>1, <3>2 DEF CountTypes
      <4>2. shown[u] <= unclear[u]
        BY <2>1, <2>2, <3>1, <3>2 DEF ShownInv
      <4> QED BY <2>1, <3>1, <3>2, <4>1, <4>2
    <3>3. CASE u # t
      <4>1. shown'[u] = shown[u] /\ (u \in there' <=> u \in there)
        BY <2>1, <3>3 DEF CountTypes
      <4> QED BY <4>1 DEF ShownInv
    <3> QED BY <3>2, <3>3
  <2> QED BY <1>u, <2>3 DEF ShownInv
<1>12. WaitsInv'
  BY <1>u, StayWaitsInv
<1>13. FirstInv'
  BY <1>u, StayFirstInv
<1>14. PurgeInv'
  BY <1>u, StayPurgeInv
<1> QED BY <1>1, <1>2, <1>3, <1>4, <1>5, <1>6, <1>7, <1>8, <1>9, <1>10, <1>11, <1>12, <1>13, <1>14 DEF WhatsAppInv, TextTypes, PairTypes

LEMMA WaStepSent ==
  ASSUME AdaptersFit, WhatsAppInv, NEW t \in Wa!Texts, Wa!Sent(t)
  PROVE  WhatsAppInv'
<1> SockTypes /\ CredTypes /\ ModeTypes /\ QueueTypes /\ SetTypes /\ LiveTypes /\ CountTypes /\ AskTypes
  BY DEF WhatsAppInv, TextTypes, PairTypes
<1> PlacesInv /\ ReceiptsInv /\ ShownInv /\ WaitsInv /\ FirstInv /\ PurgeInv
  BY DEF WhatsAppInv
<1>u. UNCHANGED <<host, link, connected, queue, hand, handed, dropped, lost, shown, unclear, failed, coming, answered, acted, backed, paired, copied, valid, pairings, timer, uploads, leaving, purging, gone, late, trouble, held, saving>>
  BY DEF Wa!Sent, Wa!sockVars, Wa!credVars
<1>1. SockTypes'
  BY <1>u, StaySockTypes
<1>2. CredTypes'
  BY <1>u, StayCredTypes
<1>3. ModeTypes'
  BY <1>u, StayModeTypes
<1>4. QueueTypes'
  BY <1>u, StayQueueTypes
<1>5. SetTypes'
  BY <1>u, WhatsAppConstants, NoText DEF Wa!Sent, Wa!sockVars, Wa!credVars, SetTypes
<1>6. LiveTypes'
  BY <1>u, WhatsAppConstants, NoText DEF Wa!Sent, Wa!sockVars, Wa!credVars, LiveTypes
<1>7. CountTypes'
  BY <1>u, StayCountTypes
<1>8. AskTypes'
  <2>1. t[1] = "ask" => t \in {"ask"} \X TextQuestions
    BY DEF Wa!Texts
  <2>2. registered' \in {t, registered} /\ (registered' = t => t[1] = "ask" \/ t = registered)
    BY DEF Wa!Sent
  <2> QED BY <1>u, <2>1, <2>2 DEF AskTypes
<1>9. PlacesInv'
  BY <1>u, WhatsAppConstants, NoText DEF Wa!Sent, Wa!sockVars, Wa!credVars, PlacesInv, Placed
<1>10. ReceiptsInv'
  <2>1. t \in direct /\ sent' = sent \cup {t} /\ registered' \in {t, registered} /\ t \notin sent
    BY DEF Wa!Sent, PlacesInv, Placed
  <2>2. registered' # Wa!None => registered' \in sent'
    BY <2>1 DEF ReceiptsInv
  <2>3. ASSUME NEW x \in TextQuestions, <<"receipt", x>> \in handed
        PROVE  <<"ask", x>> \in sent' /\ registered' # <<"ask", x>>
    BY <2>1, <2>3 DEF ReceiptsInv
  <2> QED BY <1>u, <2>2, <2>3 DEF ReceiptsInv
<1>11. ShownInv'
  BY <1>u, WhatsAppConstants, NoText DEF Wa!Sent, Wa!sockVars, Wa!credVars, ShownInv
<1>12. WaitsInv'
  BY <1>u, StayWaitsInv
<1>13. FirstInv'
  BY <1>u, StayFirstInv
<1>14. PurgeInv'
  BY <1>u, StayPurgeInv
<1> QED BY <1>1, <1>2, <1>3, <1>4, <1>5, <1>6, <1>7, <1>8, <1>9, <1>10, <1>11, <1>12, <1>13, <1>14 DEF WhatsAppInv, TextTypes, PairTypes

LEMMA WaStepSendFails ==
  ASSUME AdaptersFit, WhatsAppInv, NEW t \in Wa!Texts, Wa!SendFails(t)
  PROVE  WhatsAppInv'
<1> SockTypes /\ CredTypes /\ ModeTypes /\ QueueTypes /\ SetTypes /\ LiveTypes /\ CountTypes /\ AskTypes
  BY DEF WhatsAppInv, TextTypes, PairTypes
<1> PlacesInv /\ ReceiptsInv /\ ShownInv /\ WaitsInv /\ FirstInv /\ PurgeInv
  BY DEF WhatsAppInv
<1>u. UNCHANGED <<host, link, connected, hand, handed, sent, lost, shown, registered, coming, answered, acted, backed, paired, copied, valid, pairings, timer, uploads, leaving, purging, gone, late, held, saving>>
  BY DEF Wa!SendFails, Wa!sockVars, Wa!askVars, Wa!credVars, Wa!Trouble, Wa!Fails, Wa!Enqueue
<1>1. SockTypes'
  BY <1>u, WhatsAppConstants, NoText DEF Wa!SendFails, Wa!sockVars, Wa!askVars, Wa!credVars, Wa!Trouble, Wa!Fails, Wa!Enqueue, SockTypes
<1>2. CredTypes'
  BY <1>u, StayCredTypes
<1>3. ModeTypes'
  BY <1>u, WhatsAppConstants, NoText DEF Wa!SendFails, Wa!sockVars, Wa!askVars, Wa!credVars, Wa!Trouble, Wa!Fails, Wa!Enqueue, ModeTypes
<1>4. QueueTypes'
  BY <1>u, WhatsAppConstants, NoText DEF Wa!SendFails, Wa!sockVars, Wa!askVars, Wa!credVars, Wa!Trouble, Wa!Fails, Wa!Enqueue, QueueTypes
<1>5. SetTypes'
  <2>1. t \in direct /\ Wa!Enqueue(t) /\ direct' = direct \ {t}
    BY DEF Wa!SendFails
  <2>2. NoneTwice(queue) /\ ~Waits(t, queue)
    BY <2>1 DEF PlacesInv, Placed
  <2>3. /\ NoneTwice(queue')
        /\ \E out \in SUBSET Wa!Texts :
              /\ dropped' = dropped \cup out /\ \A u \in out : Waits(u, queue)
              /\ \A u : Waits(u, queue') <=> u = t \/ (Waits(u, queue) /\ u \notin out)
    BY <2>1, <2>2, EnqueueFacts
  <2>4. PICK out \in SUBSET Wa!Texts :
              /\ dropped' = dropped \cup out /\ \A u \in out : Waits(u, queue)
              /\ \A u : Waits(u, queue') <=> u = t \/ (Waits(u, queue) /\ u \notin out)
    BY <2>3
  <2> QED BY <1>u, <2>1, <2>4 DEF SetTypes
<1>6. LiveTypes'
  BY <1>u, WhatsAppConstants, NoText DEF Wa!SendFails, Wa!sockVars, Wa!askVars, Wa!credVars, Wa!Trouble, Wa!Fails, Wa!Enqueue, LiveTypes
<1>7. CountTypes'
  BY <1>u, WhatsAppConstants, NoText DEF Wa!SendFails, Wa!sockVars, Wa!askVars, Wa!credVars, Wa!Trouble, Wa!Fails, Wa!Enqueue, CountTypes
<1>8. AskTypes'
  BY <1>u, StayAskTypes
<1>9. PlacesInv'
  <2>1. t \in direct /\ Wa!Enqueue(t) /\ direct' = direct \ {t}
    BY DEF Wa!SendFails
  <2>2. NoneTwice(queue) /\ ~Waits(t, queue)
    BY <2>1 DEF PlacesInv, Placed
  <2>3. /\ NoneTwice(queue')
        /\ \E out \in SUBSET Wa!Texts :
              /\ dropped' = dropped \cup out /\ \A u \in out : Waits(u, queue)
              /\ \A u : Waits(u, queue') <=> u = t \/ (Waits(u, queue) /\ u \notin out)
    BY <2>1, <2>2, EnqueueFacts
  <2>4. PICK out \in SUBSET Wa!Texts :
              /\ dropped' = dropped \cup out /\ \A u \in out : Waits(u, queue)
              /\ \A u : Waits(u, queue') <=> u = t \/ (Waits(u, queue) /\ u \notin out)
    BY <2>3
  <2>5. ASSUME NEW u \in Wa!Texts PROVE Placed(u)'
    BY <1>u, <2>1, <2>4 DEF PlacesInv, Placed
  <2> QED BY <2>3, <2>5 DEF PlacesInv
<1>10. ReceiptsInv'
  BY <1>u, StayReceiptsInv
<1>11. ShownInv'
  <2>1. Wa!Fails(t)
    BY DEF Wa!SendFails
  <2> QED BY <1>u, <2>1, FailsShown
<1>12. WaitsInv'
  BY <1>u, WhatsAppConstants, NoText DEF Wa!SendFails, Wa!sockVars, Wa!askVars, Wa!credVars, Wa!Trouble, Wa!Fails, Wa!Enqueue, WaitsInv
<1>13. FirstInv'
  BY <1>u, StayFirstInv
<1>14. PurgeInv'
  BY <1>u, StayPurgeInv
<1> QED BY <1>1, <1>2, <1>3, <1>4, <1>5, <1>6, <1>7, <1>8, <1>9, <1>10, <1>11, <1>12, <1>13, <1>14 DEF WhatsAppInv, TextTypes, PairTypes

LEMMA WaStepFlushSent ==
  ASSUME AdaptersFit, WhatsAppInv, Wa!FlushSent
  PROVE  WhatsAppInv'
<1> SockTypes /\ CredTypes /\ ModeTypes /\ QueueTypes /\ SetTypes /\ LiveTypes /\ CountTypes /\ AskTypes
  BY DEF WhatsAppInv, TextTypes, PairTypes
<1> PlacesInv /\ ReceiptsInv /\ ShownInv /\ WaitsInv /\ FirstInv /\ PurgeInv
  BY DEF WhatsAppInv
<1>u. UNCHANGED <<host, link, connected, direct, handed, dropped, lost, shown, unclear, failed, registered, coming, answered, acted, backed, paired, copied, valid, pairings, timer, uploads, leaving, purging, gone, late, trouble, held, saving>>
  BY DEF Wa!FlushSent, Wa!sockVars, Wa!askVars, Wa!credVars
<1>1. SockTypes'
  BY <1>u, StaySockTypes
<1>2. CredTypes'
  BY <1>u, StayCredTypes
<1>3. ModeTypes'
  BY <1>u, StayModeTypes
<1>4. QueueTypes'
  <2>1. /\ hand # Wa!None /\ hand \in there /\ Wa!FlushFrom(queue, link = "open", live \ {hand})
        /\ there' = there \ {hand} /\ sent' = sent \cup {hand}
    BY DEF Wa!FlushSent
  <2>2. /\ queue' \in Seq(Wa!Texts) /\ NoneTwice(queue')
        /\ hand' \in Wa!Texts \cup {Wa!None} /\ Len(queue') <= MaxQueue
        /\ hand' = Wa!None => queue' = <<>>
        /\ \A u \in Wa!Texts : Waits(u, queue) <=> Waits(u, queue') \/ u = hand'
        /\ ~Waits(hand', queue') \/ hand' = Wa!None
        /\ live' \subseteq (live \ {hand}) \cup ({hand'} \ {Wa!None})
    BY <2>1, FlushFacts DEF PlacesInv
  <2>3. Len(queue') \in Nat
    BY <2>2
  <2> QED BY <2>2, <2>3, WhatsAppConstants DEF QueueTypes
<1>5. SetTypes'
  <2>1. /\ hand # Wa!None /\ hand \in there /\ Wa!FlushFrom(queue, link = "open", live \ {hand})
        /\ there' = there \ {hand} /\ sent' = sent \cup {hand}
    BY DEF Wa!FlushSent
  <2>2. /\ queue' \in Seq(Wa!Texts) /\ NoneTwice(queue')
        /\ hand' \in Wa!Texts \cup {Wa!None} /\ Len(queue') <= MaxQueue
        /\ hand' = Wa!None => queue' = <<>>
        /\ \A u \in Wa!Texts : Waits(u, queue) <=> Waits(u, queue') \/ u = hand'
        /\ ~Waits(hand', queue') \/ hand' = Wa!None
        /\ live' \subseteq (live \ {hand}) \cup ({hand'} \ {Wa!None})
    BY <2>1, FlushFacts DEF PlacesInv
  <2> QED BY <1>u, <2>1 DEF SetTypes, QueueTypes
<1>6. LiveTypes'
  <2>1. /\ hand # Wa!None /\ hand \in there /\ Wa!FlushFrom(queue, link = "open", live \ {hand})
        /\ there' = there \ {hand} /\ sent' = sent \cup {hand}
    BY DEF Wa!FlushSent
  <2>2. /\ queue' \in Seq(Wa!Texts) /\ NoneTwice(queue')
        /\ hand' \in Wa!Texts \cup {Wa!None} /\ Len(queue') <= MaxQueue
        /\ hand' = Wa!None => queue' = <<>>
        /\ \A u \in Wa!Texts : Waits(u, queue) <=> Waits(u, queue') \/ u = hand'
        /\ ~Waits(hand', queue') \/ hand' = Wa!None
        /\ live' \subseteq (live \ {hand}) \cup ({hand'} \ {Wa!None})
    BY <2>1, FlushFacts DEF PlacesInv
  <2> QED BY <1>u, <2>1, <2>2, NoText DEF LiveTypes
<1>7. CountTypes'
  BY <1>u, StayCountTypes
<1>8. AskTypes'
  BY <1>u, StayAskTypes
<1>9. PlacesInv'
  <2>1. /\ hand # Wa!None /\ hand \in there /\ Wa!FlushFrom(queue, link = "open", live \ {hand})
        /\ there' = there \ {hand} /\ sent' = sent \cup {hand}
    BY DEF Wa!FlushSent
  <2>2. /\ queue' \in Seq(Wa!Texts) /\ NoneTwice(queue')
        /\ hand' \in Wa!Texts \cup {Wa!None} /\ Len(queue') <= MaxQueue
        /\ hand' = Wa!None => queue' = <<>>
        /\ \A u \in Wa!Texts : Waits(u, queue) <=> Waits(u, queue') \/ u = hand'
        /\ ~Waits(hand', queue') \/ hand' = Wa!None
        /\ live' \subseteq (live \ {hand}) \cup ({hand'} \ {Wa!None})
    BY <2>1, FlushFacts DEF PlacesInv
  <2>3. ASSUME NEW t \in Wa!Texts PROVE Placed(t)'
    BY <1>u, <2>1, <2>2, NoText DEF PlacesInv, Placed
  <2> QED BY <2>2, <2>3 DEF PlacesInv
<1>10. ReceiptsInv'
  BY <1>u, WhatsAppConstants, NoText DEF Wa!FlushSent, Wa!sockVars, Wa!askVars, Wa!credVars, ReceiptsInv
<1>11. ShownInv'
  BY <1>u, WhatsAppConstants, NoText DEF Wa!FlushSent, Wa!sockVars, Wa!askVars, Wa!credVars, ShownInv
<1>12. WaitsInv'
  <2>1. /\ hand # Wa!None /\ hand \in there /\ Wa!FlushFrom(queue, link = "open", live \ {hand})
        /\ there' = there \ {hand} /\ sent' = sent \cup {hand}
    BY DEF Wa!FlushSent
  <2>2. /\ queue' \in Seq(Wa!Texts) /\ NoneTwice(queue')
        /\ hand' \in Wa!Texts \cup {Wa!None} /\ Len(queue') <= MaxQueue
        /\ hand' = Wa!None => queue' = <<>>
        /\ \A u \in Wa!Texts : Waits(u, queue) <=> Waits(u, queue') \/ u = hand'
        /\ ~Waits(hand', queue') \/ hand' = Wa!None
        /\ live' \subseteq (live \ {hand}) \cup ({hand'} \ {Wa!None})
    BY <2>1, FlushFacts DEF PlacesInv
  <2> QED BY <2>2 DEF WaitsInv
<1>13. FirstInv'
  BY <1>u, StayFirstInv
<1>14. PurgeInv'
  BY <1>u, StayPurgeInv
<1> QED BY <1>1, <1>2, <1>3, <1>4, <1>5, <1>6, <1>7, <1>8, <1>9, <1>10, <1>11, <1>12, <1>13, <1>14 DEF WhatsAppInv, TextTypes, PairTypes

LEMMA WaStepFlushFails ==
  ASSUME AdaptersFit, WhatsAppInv, Wa!FlushFails
  PROVE  WhatsAppInv'
<1> SockTypes /\ CredTypes /\ ModeTypes /\ QueueTypes /\ SetTypes /\ LiveTypes /\ CountTypes /\ AskTypes
  BY DEF WhatsAppInv, TextTypes, PairTypes
<1> PlacesInv /\ ReceiptsInv /\ ShownInv /\ WaitsInv /\ FirstInv /\ PurgeInv
  BY DEF WhatsAppInv
<1>u. UNCHANGED <<host, link, connected, direct, handed, sent, dropped, lost, shown, registered, coming, answered, acted, backed, paired, copied, valid, pairings, timer, uploads, leaving, purging, gone, late, held, saving>>
  BY DEF Wa!FlushFails, Wa!sockVars, Wa!askVars, Wa!credVars, Wa!Trouble, Wa!Fails
<1>1. SockTypes'
  BY <1>u, WhatsAppConstants, NoText DEF Wa!FlushFails, Wa!sockVars, Wa!askVars, Wa!credVars, Wa!Trouble, Wa!Fails, SockTypes
<1>2. CredTypes'
  BY <1>u, StayCredTypes
<1>3. ModeTypes'
  BY <1>u, WhatsAppConstants, NoText DEF Wa!FlushFails, Wa!sockVars, Wa!askVars, Wa!credVars, Wa!Trouble, Wa!Fails, ModeTypes
<1>4. QueueTypes'
  BY <1>u, WhatsAppConstants, NoText DEF Wa!FlushFails, Wa!sockVars, Wa!askVars, Wa!credVars, Wa!Trouble, Wa!Fails, QueueTypes
<1>5. SetTypes'
  BY <1>u, StaySetTypes
<1>6. LiveTypes'
  BY <1>u, WhatsAppConstants, NoText DEF Wa!FlushFails, Wa!sockVars, Wa!askVars, Wa!credVars, Wa!Trouble, Wa!Fails, LiveTypes
<1>7. CountTypes'
  <2>1. Wa!Fails(hand) /\ shown' = shown /\ hand \in Wa!Texts
    BY <1>u DEF Wa!FlushFails, QueueTypes
  <2> QED BY <2>1, FailsCounts
<1>8. AskTypes'
  BY <1>u, StayAskTypes
<1>9. PlacesInv'
  <2>1. queue' = <<hand>> \o queue /\ hand' = Wa!None /\ hand \in Wa!Texts
    BY DEF Wa!FlushFails, QueueTypes
  <2>2. ~Waits(hand, queue)
    BY <2>1 DEF PlacesInv, Placed
  <2>3. NoneTwice(queue') /\ \A t : Waits(t, queue') <=> Waits(t, queue) \/ t = hand
    BY <2>1, <2>2, QueuePrepend DEF QueueTypes, PlacesInv
  <2>4. ASSUME NEW t \in Wa!Texts PROVE Placed(t)'
    BY <1>u, <2>1, <2>3, NoText DEF PlacesInv, Placed
  <2> QED BY <2>3, <2>4 DEF PlacesInv
<1>10. ReceiptsInv'
  BY <1>u, StayReceiptsInv
<1>11. ShownInv'
  <2>1. Wa!Fails(hand) /\ hand \in Wa!Texts
    BY DEF Wa!FlushFails, QueueTypes
  <2> QED BY <1>u, <2>1, FailsShown
<1>12. WaitsInv'
  BY <1>u, WhatsAppConstants, NoText DEF Wa!FlushFails, Wa!sockVars, Wa!askVars, Wa!credVars, Wa!Trouble, Wa!Fails, WaitsInv
<1>13. FirstInv'
  BY <1>u, StayFirstInv
<1>14. PurgeInv'
  BY <1>u, StayPurgeInv
<1> QED BY <1>1, <1>2, <1>3, <1>4, <1>5, <1>6, <1>7, <1>8, <1>9, <1>10, <1>11, <1>12, <1>13, <1>14 DEF WhatsAppInv, TextTypes, PairTypes

LEMMA WaStepAnswer ==
  ASSUME AdaptersFit, WhatsAppInv, NEW q \in TextQuestions, Wa!Answer(q)
  PROVE  WhatsAppInv'
<1> SockTypes /\ CredTypes /\ ModeTypes /\ QueueTypes /\ SetTypes /\ LiveTypes /\ CountTypes /\ AskTypes
  BY DEF WhatsAppInv, TextTypes, PairTypes
<1> PlacesInv /\ ReceiptsInv /\ ShownInv /\ WaitsInv /\ FirstInv /\ PurgeInv
  BY DEF WhatsAppInv
<1>u. UNCHANGED <<host, link, connected, queue, hand, direct, live, there, handed, sent, dropped, lost, shown, unclear, failed, registered, acted, backed, paired, copied, valid, pairings, timer, uploads, leaving, purging, gone, late, trouble, held, saving>>
  BY DEF Wa!Answer, Wa!sockVars, Wa!textVars, Wa!credVars
<1>1. SockTypes'
  BY <1>u, StaySockTypes
<1>2. CredTypes'
  BY <1>u, StayCredTypes
<1>3. ModeTypes'
  BY <1>u, StayModeTypes
<1>4. QueueTypes'
  BY <1>u, StayQueueTypes
<1>5. SetTypes'
  BY <1>u, StaySetTypes
<1>6. LiveTypes'
  BY <1>u, StayLiveTypes
<1>7. CountTypes'
  BY <1>u, StayCountTypes
<1>8. AskTypes'
  BY <1>u, WhatsAppConstants, NoText DEF Wa!Answer, Wa!sockVars, Wa!textVars, Wa!credVars, AskTypes
<1>9. PlacesInv'
  BY <1>u, StayPlacesInv
<1>10. ReceiptsInv'
  BY <1>u, StayReceiptsInv
<1>11. ShownInv'
  BY <1>u, StayShownInv
<1>12. WaitsInv'
  BY <1>u, StayWaitsInv
<1>13. FirstInv'
  BY <1>u, StayFirstInv
<1>14. PurgeInv'
  BY <1>u, StayPurgeInv
<1> QED BY <1>1, <1>2, <1>3, <1>4, <1>5, <1>6, <1>7, <1>8, <1>9, <1>10, <1>11, <1>12, <1>13, <1>14 DEF WhatsAppInv, TextTypes, PairTypes

LEMMA WaStepHandle ==
  ASSUME AdaptersFit, WhatsAppInv, NEW q \in TextQuestions, Wa!Handle(q)
  PROVE  WhatsAppInv'
<1> SockTypes /\ CredTypes /\ ModeTypes /\ QueueTypes /\ SetTypes /\ LiveTypes /\ CountTypes /\ AskTypes
  BY DEF WhatsAppInv, TextTypes, PairTypes
<1> PlacesInv /\ ReceiptsInv /\ ShownInv /\ WaitsInv /\ FirstInv /\ PurgeInv
  BY DEF WhatsAppInv
<1>u. UNCHANGED <<host, link, connected, hand, there, sent, lost, shown, unclear, failed, answered, backed, paired, copied, valid, pairings, timer, uploads, leaving, purging, gone, late, trouble, held, saving>>
  BY DEF Wa!Handle, Wa!sockVars, Wa!credVars, Wa!SendRaw, Wa!Enqueue
<1>1. SockTypes'
  BY <1>u, StaySockTypes
<1>2. CredTypes'
  BY <1>u, StayCredTypes
<1>3. ModeTypes'
  BY <1>u, StayModeTypes
<1>4. QueueTypes'
  <2>1. \/ registered # Wa!None /\ registered' = Wa!None /\ Wa!SendRaw(Wa!Receipt(registered[2]))
        \/ UNCHANGED <<registered, handed, direct, live, queue, dropped>>
    BY DEF Wa!Handle
  <2>2. CASE UNCHANGED <<registered, handed, direct, live, queue, dropped>>
    BY <1>u, <2>2, StayQueueTypes
  <2>3. CASE registered # Wa!None /\ registered' = Wa!None /\ Wa!SendRaw(Wa!Receipt(registered[2]))
    <3>1. PICK x \in TextQuestions : registered = <<"ask", x>> /\ registered[2] = x
      BY <2>3 DEF AskTypes
    <3>2. Wa!Receipt(x) = <<"receipt", x>> /\ Wa!Receipt(x) \in Wa!Texts
      BY DEF Wa!Receipt, Wa!Texts
    <3>3. Wa!Receipt(x) \notin handed
      BY <3>1, <3>2 DEF ReceiptsInv
    <3> QED BY <1>u, <2>3, <3>1, <3>2, <3>3, SendRawFacts
  <2> QED BY <2>1, <2>2, <2>3
<1>5. SetTypes'
  <2>1. \/ registered # Wa!None /\ registered' = Wa!None /\ Wa!SendRaw(Wa!Receipt(registered[2]))
        \/ UNCHANGED <<registered, handed, direct, live, queue, dropped>>
    BY DEF Wa!Handle
  <2>2. CASE UNCHANGED <<registered, handed, direct, live, queue, dropped>>
    BY <1>u, <2>2, StaySetTypes
  <2>3. CASE registered # Wa!None /\ registered' = Wa!None /\ Wa!SendRaw(Wa!Receipt(registered[2]))
    <3>1. PICK x \in TextQuestions : registered = <<"ask", x>> /\ registered[2] = x
      BY <2>3 DEF AskTypes
    <3>2. Wa!Receipt(x) = <<"receipt", x>> /\ Wa!Receipt(x) \in Wa!Texts
      BY DEF Wa!Receipt, Wa!Texts
    <3>3. Wa!Receipt(x) \notin handed
      BY <3>1, <3>2 DEF ReceiptsInv
    <3> QED BY <1>u, <2>3, <3>1, <3>2, <3>3, SendRawFacts
  <2> QED BY <2>1, <2>2, <2>3
<1>6. LiveTypes'
  BY <1>u, WhatsAppConstants, NoText DEF Wa!Handle, Wa!sockVars, Wa!credVars, Wa!SendRaw, Wa!Enqueue, LiveTypes
<1>7. CountTypes'
  BY <1>u, StayCountTypes
<1>8. AskTypes'
  BY <1>u, WhatsAppConstants, NoText DEF Wa!Handle, Wa!sockVars, Wa!credVars, Wa!SendRaw, Wa!Enqueue, AskTypes
<1>9. PlacesInv'
  <2>1. \/ registered # Wa!None /\ registered' = Wa!None /\ Wa!SendRaw(Wa!Receipt(registered[2]))
        \/ UNCHANGED <<registered, handed, direct, live, queue, dropped>>
    BY DEF Wa!Handle
  <2>2. CASE UNCHANGED <<registered, handed, direct, live, queue, dropped>>
    BY <1>u, <2>2, StayPlacesInv
  <2>3. CASE registered # Wa!None /\ registered' = Wa!None /\ Wa!SendRaw(Wa!Receipt(registered[2]))
    <3>1. PICK x \in TextQuestions : registered = <<"ask", x>> /\ registered[2] = x
      BY <2>3 DEF AskTypes
    <3>2. Wa!Receipt(x) = <<"receipt", x>> /\ Wa!Receipt(x) \in Wa!Texts
      BY DEF Wa!Receipt, Wa!Texts
    <3>3. Wa!Receipt(x) \notin handed
      BY <3>1, <3>2 DEF ReceiptsInv
    <3> QED BY <1>u, <2>3, <3>1, <3>2, <3>3, SendRawFacts
  <2> QED BY <2>1, <2>2, <2>3
<1>10. ReceiptsInv'
  <2>1. \/ registered # Wa!None /\ registered' = Wa!None /\ Wa!SendRaw(Wa!Receipt(registered[2]))
        \/ UNCHANGED <<registered, handed, direct, live, queue, dropped>>
    BY DEF Wa!Handle
  <2>2. CASE UNCHANGED <<registered, handed, direct, live, queue, dropped>>
    BY <1>u, <2>2, StayReceiptsInv
  <2>3. CASE registered # Wa!None /\ registered' = Wa!None /\ Wa!SendRaw(Wa!Receipt(registered[2]))
    <3>1. PICK x \in TextQuestions : registered = <<"ask", x>> /\ registered[2] = x
      BY <2>3 DEF AskTypes
    <3>2. Wa!Receipt(x) = <<"receipt", x>> /\ Wa!Receipt(x) \in Wa!Texts
      BY DEF Wa!Receipt, Wa!Texts
    <3>3. Wa!Receipt(x) \notin handed
      BY <3>1, <3>2 DEF ReceiptsInv
    <3>4. handed' = handed \cup {Wa!Receipt(x)}
      BY <2>3, <3>1 DEF Wa!SendRaw
    <3>5. <<"ask", x>> \in sent
      BY <2>3, <3>1 DEF ReceiptsInv
    <3>6. \A y \in TextQuestions : <<"receipt", y>> = <<"receipt", x>> => y = x
      OBVIOUS
    <3>7. \A y \in TextQuestions : Wa!None # <<"ask", y>>
      BY DEF Wa!None
    <3>8. ASSUME NEW y \in TextQuestions, <<"receipt", y>> \in handed'
          PROVE  <<"ask", y>> \in sent' /\ registered' # <<"ask", y>>
      BY <1>u, <2>3, <3>2, <3>4, <3>5, <3>6, <3>7, <3>8 DEF ReceiptsInv
    <3> QED BY <2>3, <3>8 DEF ReceiptsInv
  <2> QED BY <2>1, <2>2, <2>3
<1>11. ShownInv'
  BY <1>u, StayShownInv
<1>12. WaitsInv'
  BY <1>u, WhatsAppConstants, NoText DEF Wa!Handle, Wa!sockVars, Wa!credVars, Wa!SendRaw, Wa!Enqueue, WaitsInv
<1>13. FirstInv'
  BY <1>u, StayFirstInv
<1>14. PurgeInv'
  BY <1>u, StayPurgeInv
<1> QED BY <1>1, <1>2, <1>3, <1>4, <1>5, <1>6, <1>7, <1>8, <1>9, <1>10, <1>11, <1>12, <1>13, <1>14 DEF WhatsAppInv, TextTypes, PairTypes

LEMMA WaStepStart ==
  ASSUME AdaptersFit, WhatsAppInv, Wa!Start
  PROVE  WhatsAppInv'
<1> SockTypes /\ CredTypes /\ ModeTypes /\ QueueTypes /\ SetTypes /\ LiveTypes /\ CountTypes /\ AskTypes
  BY DEF WhatsAppInv, TextTypes, PairTypes
<1> PlacesInv /\ ReceiptsInv /\ ShownInv /\ WaitsInv /\ FirstInv /\ PurgeInv
  BY DEF WhatsAppInv
<1>u. UNCHANGED <<connected, queue, hand, direct, live, there, handed, sent, dropped, lost, shown, unclear, failed, registered, coming, answered, acted, backed, copied, valid, pairings, timer, uploads, leaving, purging, gone, late, saving>>
  BY DEF Wa!Start, Wa!textVars, Wa!askVars, Wa!Trouble, Wa!Restored
<1>1. SockTypes'
  BY <1>u, WhatsAppConstants, NoText DEF Wa!Start, Wa!textVars, Wa!askVars, Wa!Trouble, Wa!Restored, SockTypes
<1>2. CredTypes'
  BY <1>u, WhatsAppConstants, NoText DEF Wa!Start, Wa!textVars, Wa!askVars, Wa!Trouble, Wa!Restored, CredTypes
<1>3. ModeTypes'
  BY <1>u, WhatsAppConstants, NoText DEF Wa!Start, Wa!textVars, Wa!askVars, Wa!Trouble, Wa!Restored, ModeTypes
<1>4. QueueTypes'
  BY <1>u, StayQueueTypes
<1>5. SetTypes'
  BY <1>u, StaySetTypes
<1>6. LiveTypes'
  BY <1>u, StayLiveTypes
<1>7. CountTypes'
  BY <1>u, StayCountTypes
<1>8. AskTypes'
  BY <1>u, StayAskTypes
<1>9. PlacesInv'
  BY <1>u, StayPlacesInv
<1>10. ReceiptsInv'
  BY <1>u, StayReceiptsInv
<1>11. ShownInv'
  BY <1>u, StayShownInv
<1>12. WaitsInv'
  BY <1>u, StayWaitsInv
<1>13. FirstInv'
  BY <1>u, WhatsAppConstants, NoText DEF Wa!Start, Wa!textVars, Wa!askVars, Wa!Trouble, Wa!Restored, FirstInv
<1>14. PurgeInv'
  BY <1>u, WhatsAppConstants, NoText DEF Wa!Start, Wa!textVars, Wa!askVars, Wa!Trouble, Wa!Restored, PurgeInv
<1> QED BY <1>1, <1>2, <1>3, <1>4, <1>5, <1>6, <1>7, <1>8, <1>9, <1>10, <1>11, <1>12, <1>13, <1>14 DEF WhatsAppInv, TextTypes, PairTypes

LEMMA WaStepDialed ==
  ASSUME AdaptersFit, WhatsAppInv, Wa!Dialed
  PROVE  WhatsAppInv'
<1> SockTypes /\ CredTypes /\ ModeTypes /\ QueueTypes /\ SetTypes /\ LiveTypes /\ CountTypes /\ AskTypes
  BY DEF WhatsAppInv, TextTypes, PairTypes
<1> PlacesInv /\ ReceiptsInv /\ ShownInv /\ WaitsInv /\ FirstInv /\ PurgeInv
  BY DEF WhatsAppInv
<1>u. UNCHANGED <<host, connected, queue, hand, direct, live, there, handed, sent, dropped, lost, shown, unclear, failed, registered, coming, answered, acted, backed, paired, copied, valid, pairings, timer, uploads, leaving, purging, gone, late, trouble, held, saving>>
  BY DEF Wa!Dialed, Wa!textVars, Wa!askVars, Wa!credVars
<1>1. SockTypes'
  BY <1>u, WhatsAppConstants, NoText DEF Wa!Dialed, Wa!textVars, Wa!askVars, Wa!credVars, SockTypes
<1>2. CredTypes'
  BY <1>u, StayCredTypes
<1>3. ModeTypes'
  BY <1>u, StayModeTypes
<1>4. QueueTypes'
  BY <1>u, StayQueueTypes
<1>5. SetTypes'
  BY <1>u, StaySetTypes
<1>6. LiveTypes'
  BY <1>u, StayLiveTypes
<1>7. CountTypes'
  BY <1>u, StayCountTypes
<1>8. AskTypes'
  BY <1>u, StayAskTypes
<1>9. PlacesInv'
  BY <1>u, StayPlacesInv
<1>10. ReceiptsInv'
  BY <1>u, StayReceiptsInv
<1>11. ShownInv'
  BY <1>u, StayShownInv
<1>12. WaitsInv'
  BY <1>u, StayWaitsInv
<1>13. FirstInv'
  BY <1>u, WhatsAppConstants, NoText DEF Wa!Dialed, Wa!textVars, Wa!askVars, Wa!credVars, FirstInv
<1>14. PurgeInv'
  BY <1>u, StayPurgeInv
<1> QED BY <1>1, <1>2, <1>3, <1>4, <1>5, <1>6, <1>7, <1>8, <1>9, <1>10, <1>11, <1>12, <1>13, <1>14 DEF WhatsAppInv, TextTypes, PairTypes

LEMMA WaStepDialFails ==
  ASSUME AdaptersFit, WhatsAppInv, Wa!DialFails
  PROVE  WhatsAppInv'
<1> SockTypes /\ CredTypes /\ ModeTypes /\ QueueTypes /\ SetTypes /\ LiveTypes /\ CountTypes /\ AskTypes
  BY DEF WhatsAppInv, TextTypes, PairTypes
<1> PlacesInv /\ ReceiptsInv /\ ShownInv /\ WaitsInv /\ FirstInv /\ PurgeInv
  BY DEF WhatsAppInv
<1>u. UNCHANGED <<connected, queue, hand, direct, live, there, handed, sent, dropped, lost, shown, unclear, failed, registered, coming, answered, acted, backed, paired, copied, valid, pairings, timer, uploads, leaving, purging, gone, late, saving>>
  BY DEF Wa!DialFails, Wa!textVars, Wa!askVars, Wa!credVars, Wa!Trouble
<1>1. SockTypes'
  BY <1>u, WhatsAppConstants, NoText DEF Wa!DialFails, Wa!textVars, Wa!askVars, Wa!credVars, Wa!Trouble, SockTypes
<1>2. CredTypes'
  BY <1>u, WhatsAppConstants, NoText DEF Wa!DialFails, Wa!textVars, Wa!askVars, Wa!credVars, Wa!Trouble, Wa!Reads, CredTypes
<1>3. ModeTypes'
  BY <1>u, WhatsAppConstants, NoText DEF Wa!DialFails, Wa!textVars, Wa!askVars, Wa!credVars, Wa!Trouble, ModeTypes
<1>4. QueueTypes'
  BY <1>u, StayQueueTypes
<1>5. SetTypes'
  BY <1>u, StaySetTypes
<1>6. LiveTypes'
  BY <1>u, StayLiveTypes
<1>7. CountTypes'
  BY <1>u, StayCountTypes
<1>8. AskTypes'
  BY <1>u, StayAskTypes
<1>9. PlacesInv'
  BY <1>u, StayPlacesInv
<1>10. ReceiptsInv'
  BY <1>u, StayReceiptsInv
<1>11. ShownInv'
  BY <1>u, StayShownInv
<1>12. WaitsInv'
  BY <1>u, StayWaitsInv
<1>13. FirstInv'
  BY <1>u, WhatsAppConstants, NoText DEF Wa!DialFails, Wa!textVars, Wa!askVars, Wa!credVars, Wa!Trouble, FirstInv
<1>14. PurgeInv'
  <2>1. (host' = host \/ link = "first") /\ held' = 0 /\ 0 \notin gone
    BY DEF Wa!DialFails, CredTypes
  <2> QED BY <1>u, <2>1 DEF PurgeInv, FirstInv
<1> QED BY <1>1, <1>2, <1>3, <1>4, <1>5, <1>6, <1>7, <1>8, <1>9, <1>10, <1>11, <1>12, <1>13, <1>14 DEF WhatsAppInv, TextTypes, PairTypes

LEMMA WaStepRedial ==
  ASSUME AdaptersFit, WhatsAppInv, Wa!Redial
  PROVE  WhatsAppInv'
<1> SockTypes /\ CredTypes /\ ModeTypes /\ QueueTypes /\ SetTypes /\ LiveTypes /\ CountTypes /\ AskTypes
  BY DEF WhatsAppInv, TextTypes, PairTypes
<1> PlacesInv /\ ReceiptsInv /\ ShownInv /\ WaitsInv /\ FirstInv /\ PurgeInv
  BY DEF WhatsAppInv
<1>u. UNCHANGED <<host, connected, queue, hand, direct, live, there, handed, sent, dropped, lost, shown, unclear, failed, registered, coming, answered, acted, backed, paired, copied, valid, pairings, timer, uploads, leaving, purging, gone, late, trouble, saving>>
  BY DEF Wa!Redial, Wa!textVars, Wa!askVars, Wa!credVars
<1>1. SockTypes'
  BY <1>u, WhatsAppConstants, NoText DEF Wa!Redial, Wa!textVars, Wa!askVars, Wa!credVars, SockTypes
<1>2. CredTypes'
  BY <1>u, WhatsAppConstants, NoText DEF Wa!Redial, Wa!textVars, Wa!askVars, Wa!credVars, Wa!Reads, CredTypes
<1>3. ModeTypes'
  BY <1>u, StayModeTypes
<1>4. QueueTypes'
  BY <1>u, StayQueueTypes
<1>5. SetTypes'
  BY <1>u, StaySetTypes
<1>6. LiveTypes'
  BY <1>u, StayLiveTypes
<1>7. CountTypes'
  BY <1>u, StayCountTypes
<1>8. AskTypes'
  BY <1>u, StayAskTypes
<1>9. PlacesInv'
  BY <1>u, StayPlacesInv
<1>10. ReceiptsInv'
  BY <1>u, StayReceiptsInv
<1>11. ShownInv'
  BY <1>u, StayShownInv
<1>12. WaitsInv'
  BY <1>u, StayWaitsInv
<1>13. FirstInv'
  BY <1>u, WhatsAppConstants, NoText DEF Wa!Redial, Wa!textVars, Wa!askVars, Wa!credVars, FirstInv
<1>14. PurgeInv'
  BY <1>u, WhatsAppConstants, NoText DEF Wa!Redial, Wa!textVars, Wa!askVars, Wa!credVars, Wa!Reads, PurgeInv
<1> QED BY <1>1, <1>2, <1>3, <1>4, <1>5, <1>6, <1>7, <1>8, <1>9, <1>10, <1>11, <1>12, <1>13, <1>14 DEF WhatsAppInv, TextTypes, PairTypes

LEMMA WaStepPair ==
  ASSUME AdaptersFit, WhatsAppInv, Wa!Pair
  PROVE  WhatsAppInv'
<1> SockTypes /\ CredTypes /\ ModeTypes /\ QueueTypes /\ SetTypes /\ LiveTypes /\ CountTypes /\ AskTypes
  BY DEF WhatsAppInv, TextTypes, PairTypes
<1> PlacesInv /\ ReceiptsInv /\ ShownInv /\ WaitsInv /\ FirstInv /\ PurgeInv
  BY DEF WhatsAppInv
<1>u. UNCHANGED <<host, link, connected, queue, hand, direct, live, there, handed, sent, dropped, lost, shown, unclear, failed, registered, coming, answered, acted, backed, copied, uploads, leaving, purging, gone, late, trouble, saving>>
  BY DEF Wa!Pair, Wa!sockVars, Wa!textVars, Wa!askVars
<1>1. SockTypes'
  BY <1>u, StaySockTypes
<1>2. CredTypes'
  BY <1>u, WhatsAppConstants, NoText DEF Wa!Pair, Wa!sockVars, Wa!textVars, Wa!askVars, CredTypes
<1>3. ModeTypes'
  BY <1>u, WhatsAppConstants, NoText DEF Wa!Pair, Wa!sockVars, Wa!textVars, Wa!askVars, ModeTypes
<1>4. QueueTypes'
  BY <1>u, StayQueueTypes
<1>5. SetTypes'
  BY <1>u, StaySetTypes
<1>6. LiveTypes'
  BY <1>u, StayLiveTypes
<1>7. CountTypes'
  BY <1>u, StayCountTypes
<1>8. AskTypes'
  BY <1>u, StayAskTypes
<1>9. PlacesInv'
  BY <1>u, StayPlacesInv
<1>10. ReceiptsInv'
  BY <1>u, StayReceiptsInv
<1>11. ShownInv'
  BY <1>u, StayShownInv
<1>12. WaitsInv'
  BY <1>u, StayWaitsInv
<1>13. FirstInv'
  BY <1>u, StayFirstInv
<1>14. PurgeInv'
  <2>1. pairings' = pairings + 1 /\ paired' = pairings + 1 /\ held' = pairings + 1
    BY DEF Wa!Pair
  <2>2. pairings + 1 \notin gone
    BY DEF CredTypes
  <2> QED BY <1>u, <2>1, <2>2 DEF PurgeInv
<1> QED BY <1>1, <1>2, <1>3, <1>4, <1>5, <1>6, <1>7, <1>8, <1>9, <1>10, <1>11, <1>12, <1>13, <1>14 DEF WhatsAppInv, TextTypes, PairTypes

LEMMA WaStepOpen ==
  ASSUME AdaptersFit, WhatsAppInv, Wa!Open
  PROVE  WhatsAppInv'
<1> SockTypes /\ CredTypes /\ ModeTypes /\ QueueTypes /\ SetTypes /\ LiveTypes /\ CountTypes /\ AskTypes
  BY DEF WhatsAppInv, TextTypes, PairTypes
<1> PlacesInv /\ ReceiptsInv /\ ShownInv /\ WaitsInv /\ FirstInv /\ PurgeInv
  BY DEF WhatsAppInv
<1>u. UNCHANGED <<direct, there, handed, sent, dropped, lost, shown, unclear, registered, coming, answered, acted, backed, paired, copied, valid, pairings, uploads, leaving, purging, gone, late, trouble, held, saving>>
  BY DEF Wa!Open, Wa!askVars
<1>1. SockTypes'
  BY <1>u, WhatsAppConstants, NoText DEF Wa!Open, Wa!askVars, SockTypes
<1>2. CredTypes'
  BY <1>u, StayCredTypes
<1>3. ModeTypes'
  BY <1>u, WhatsAppConstants, NoText DEF Wa!Open, Wa!askVars, ModeTypes
<1>4. QueueTypes'
  <2>1. \/ hand = Wa!None /\ Wa!FlushFrom(queue, TRUE, live)
        \/ hand # Wa!None /\ hand' = hand /\ queue' = queue /\ live' = live
    BY DEF Wa!Open
  <2>2. CASE hand # Wa!None /\ hand' = hand /\ queue' = queue /\ live' = live
    BY <1>u, <2>2 DEF QueueTypes
  <2>3. CASE hand = Wa!None /\ Wa!FlushFrom(queue, TRUE, live)
    <3>1. /\ queue' \in Seq(Wa!Texts) /\ NoneTwice(queue')
          /\ hand' \in Wa!Texts \cup {Wa!None} /\ Len(queue') <= MaxQueue
          /\ hand' = Wa!None => queue' = <<>>
          /\ \A u \in Wa!Texts : Waits(u, queue) <=> Waits(u, queue') \/ u = hand'
          /\ ~Waits(hand', queue') \/ hand' = Wa!None
          /\ live' \subseteq live \cup ({hand'} \ {Wa!None})
      BY <2>3, FlushFacts DEF PlacesInv
    <3>2. Len(queue') \in Nat
      BY <3>1
    <3> QED BY <3>1, <3>2, WhatsAppConstants DEF QueueTypes
  <2> QED BY <2>1, <2>2, <2>3
<1>5. SetTypes'
  BY <1>u, StaySetTypes
<1>6. LiveTypes'
  <2>1. \/ hand = Wa!None /\ Wa!FlushFrom(queue, TRUE, live)
        \/ hand # Wa!None /\ hand' = hand /\ queue' = queue /\ live' = live
    BY DEF Wa!Open
  <2>2. CASE hand # Wa!None /\ hand' = hand /\ queue' = queue /\ live' = live
    BY <1>u, <2>2 DEF LiveTypes
  <2>3. CASE hand = Wa!None /\ Wa!FlushFrom(queue, TRUE, live)
    <3>1. /\ queue' \in Seq(Wa!Texts) /\ NoneTwice(queue')
          /\ hand' \in Wa!Texts \cup {Wa!None} /\ Len(queue') <= MaxQueue
          /\ hand' = Wa!None => queue' = <<>>
          /\ \A u \in Wa!Texts : Waits(u, queue) <=> Waits(u, queue') \/ u = hand'
          /\ ~Waits(hand', queue') \/ hand' = Wa!None
          /\ live' \subseteq live \cup ({hand'} \ {Wa!None})
      BY <2>3, FlushFacts DEF PlacesInv
    <3> QED BY <1>u, <2>3, <3>1, NoText DEF LiveTypes
  <2> QED BY <2>1, <2>2, <2>3
<1>7. CountTypes'
  BY <1>u, StayCountTypes
<1>8. AskTypes'
  BY <1>u, StayAskTypes
<1>9. PlacesInv'
  <2>1. \/ hand = Wa!None /\ Wa!FlushFrom(queue, TRUE, live)
        \/ hand # Wa!None /\ hand' = hand /\ queue' = queue /\ live' = live
    BY DEF Wa!Open
  <2>2. CASE hand # Wa!None /\ hand' = hand /\ queue' = queue /\ live' = live
    BY <1>u, <2>2 DEF PlacesInv, Placed
  <2>3. CASE hand = Wa!None /\ Wa!FlushFrom(queue, TRUE, live)
    <3>1. /\ queue' \in Seq(Wa!Texts) /\ NoneTwice(queue')
          /\ hand' \in Wa!Texts \cup {Wa!None} /\ Len(queue') <= MaxQueue
          /\ hand' = Wa!None => queue' = <<>>
          /\ \A u \in Wa!Texts : Waits(u, queue) <=> Waits(u, queue') \/ u = hand'
          /\ ~Waits(hand', queue') \/ hand' = Wa!None
          /\ live' \subseteq live \cup ({hand'} \ {Wa!None})
      BY <2>3, FlushFacts DEF PlacesInv
    <3>2. ASSUME NEW t \in Wa!Texts PROVE Placed(t)'
      BY <1>u, <2>3, <3>1, NoText DEF PlacesInv, Placed
    <3> QED BY <3>1, <3>2 DEF PlacesInv
  <2> QED BY <2>1, <2>2, <2>3
<1>10. ReceiptsInv'
  BY <1>u, StayReceiptsInv
<1>11. ShownInv'
  BY <1>u, StayShownInv
<1>12. WaitsInv'
  <2>1. \/ hand = Wa!None /\ Wa!FlushFrom(queue, TRUE, live)
        \/ hand # Wa!None /\ hand' = hand /\ queue' = queue /\ live' = live
    BY DEF Wa!Open
  <2>2. CASE hand # Wa!None /\ hand' = hand /\ queue' = queue /\ live' = live
    BY <1>u, <2>2 DEF WaitsInv
  <2>3. CASE hand = Wa!None /\ Wa!FlushFrom(queue, TRUE, live)
    <3>1. /\ queue' \in Seq(Wa!Texts) /\ NoneTwice(queue')
          /\ hand' \in Wa!Texts \cup {Wa!None} /\ Len(queue') <= MaxQueue
          /\ hand' = Wa!None => queue' = <<>>
          /\ \A u \in Wa!Texts : Waits(u, queue) <=> Waits(u, queue') \/ u = hand'
          /\ ~Waits(hand', queue') \/ hand' = Wa!None
          /\ live' \subseteq live \cup ({hand'} \ {Wa!None})
      BY <2>3, FlushFacts DEF PlacesInv
    <3> QED BY <3>1 DEF WaitsInv
  <2> QED BY <2>1, <2>2, <2>3
<1>13. FirstInv'
  BY <1>u, WhatsAppConstants, NoText DEF Wa!Open, Wa!askVars, FirstInv
<1>14. PurgeInv'
  BY <1>u, WhatsAppConstants, NoText DEF Wa!Open, Wa!askVars, PurgeInv
<1> QED BY <1>1, <1>2, <1>3, <1>4, <1>5, <1>6, <1>7, <1>8, <1>9, <1>10, <1>11, <1>12, <1>13, <1>14 DEF WhatsAppInv, TextTypes, PairTypes

LEMMA WaStepClose ==
  ASSUME AdaptersFit, WhatsAppInv, Wa!Close
  PROVE  WhatsAppInv'
<1> SockTypes /\ CredTypes /\ ModeTypes /\ QueueTypes /\ SetTypes /\ LiveTypes /\ CountTypes /\ AskTypes
  BY DEF WhatsAppInv, TextTypes, PairTypes
<1> PlacesInv /\ ReceiptsInv /\ ShownInv /\ WaitsInv /\ FirstInv /\ PurgeInv
  BY DEF WhatsAppInv
<1>u. UNCHANGED <<host, queue, hand, direct, there, handed, sent, dropped, lost, shown, unclear, failed, registered, coming, answered, acted, backed, paired, copied, valid, pairings, timer, uploads, leaving, purging, gone, late, saving>>
  BY DEF Wa!Close, Wa!askVars, Wa!credVars, Wa!Trouble, Wa!Closes
<1>1. SockTypes'
  BY <1>u, WhatsAppConstants, NoText DEF Wa!Close, Wa!askVars, Wa!credVars, Wa!Trouble, Wa!Closes, SockTypes
<1>2. CredTypes'
  BY <1>u, WhatsAppConstants, NoText DEF Wa!Close, Wa!askVars, Wa!credVars, Wa!Trouble, Wa!Closes, Wa!Reads, CredTypes
<1>3. ModeTypes'
  BY <1>u, WhatsAppConstants, NoText DEF Wa!Close, Wa!askVars, Wa!credVars, Wa!Trouble, Wa!Closes, ModeTypes
<1>4. QueueTypes'
  BY <1>u, StayQueueTypes
<1>5. SetTypes'
  BY <1>u, StaySetTypes
<1>6. LiveTypes'
  BY <1>u, WhatsAppConstants, NoText DEF Wa!Close, Wa!askVars, Wa!credVars, Wa!Trouble, Wa!Closes, LiveTypes
<1>7. CountTypes'
  BY <1>u, StayCountTypes
<1>8. AskTypes'
  BY <1>u, StayAskTypes
<1>9. PlacesInv'
  BY <1>u, StayPlacesInv
<1>10. ReceiptsInv'
  BY <1>u, StayReceiptsInv
<1>11. ShownInv'
  BY <1>u, StayShownInv
<1>12. WaitsInv'
  BY <1>u, WhatsAppConstants, NoText DEF Wa!Close, Wa!askVars, Wa!credVars, Wa!Trouble, Wa!Closes, WaitsInv
<1>13. FirstInv'
  BY <1>u, WhatsAppConstants, NoText DEF Wa!Close, Wa!askVars, Wa!credVars, Wa!Trouble, Wa!Closes, FirstInv
<1>14. PurgeInv'
  BY <1>u, WhatsAppConstants, NoText DEF Wa!Close, Wa!askVars, Wa!credVars, Wa!Trouble, Wa!Closes, Wa!Reads, PurgeInv
<1> QED BY <1>1, <1>2, <1>3, <1>4, <1>5, <1>6, <1>7, <1>8, <1>9, <1>10, <1>11, <1>12, <1>13, <1>14 DEF WhatsAppInv, TextTypes, PairTypes

LEMMA WaStepLoggedOut ==
  ASSUME AdaptersFit, WhatsAppInv, Wa!LoggedOut
  PROVE  WhatsAppInv'
<1> SockTypes /\ CredTypes /\ ModeTypes /\ QueueTypes /\ SetTypes /\ LiveTypes /\ CountTypes /\ AskTypes
  BY DEF WhatsAppInv, TextTypes, PairTypes
<1> PlacesInv /\ ReceiptsInv /\ ShownInv /\ WaitsInv /\ FirstInv /\ PurgeInv
  BY DEF WhatsAppInv
<1>u. UNCHANGED <<queue, hand, direct, there, handed, sent, dropped, lost, shown, unclear, failed, registered, coming, answered, acted, backed, paired, copied, pairings, timer, uploads, leaving, purging, gone, late, saving>>
  BY DEF Wa!LoggedOut, Wa!askVars, Wa!Trouble
<1>1. SockTypes'
  BY <1>u, WhatsAppConstants, NoText DEF Wa!LoggedOut, Wa!askVars, Wa!Trouble, SockTypes
<1>2. CredTypes'
  BY <1>u, WhatsAppConstants, NoText DEF Wa!LoggedOut, Wa!askVars, Wa!Trouble, CredTypes
<1>3. ModeTypes'
  BY <1>u, WhatsAppConstants, NoText DEF Wa!LoggedOut, Wa!askVars, Wa!Trouble, ModeTypes
<1>4. QueueTypes'
  BY <1>u, StayQueueTypes
<1>5. SetTypes'
  BY <1>u, StaySetTypes
<1>6. LiveTypes'
  BY <1>u, WhatsAppConstants, NoText DEF Wa!LoggedOut, Wa!askVars, Wa!Trouble, LiveTypes
<1>7. CountTypes'
  BY <1>u, StayCountTypes
<1>8. AskTypes'
  BY <1>u, StayAskTypes
<1>9. PlacesInv'
  BY <1>u, StayPlacesInv
<1>10. ReceiptsInv'
  BY <1>u, StayReceiptsInv
<1>11. ShownInv'
  BY <1>u, StayShownInv
<1>12. WaitsInv'
  BY <1>u, WhatsAppConstants, NoText DEF Wa!LoggedOut, Wa!askVars, Wa!Trouble, WaitsInv
<1>13. FirstInv'
  BY <1>u, WhatsAppConstants, NoText DEF Wa!LoggedOut, Wa!askVars, Wa!Trouble, FirstInv
<1>14. PurgeInv'
  <2>1. held' = 0 /\ 0 \notin gone
    BY DEF Wa!LoggedOut, CredTypes
  <2>2. host = "running" => host' = "running"
    BY DEF Wa!LoggedOut
  <2> QED BY <1>u, <2>1, <2>2 DEF PurgeInv
<1> QED BY <1>1, <1>2, <1>3, <1>4, <1>5, <1>6, <1>7, <1>8, <1>9, <1>10, <1>11, <1>12, <1>13, <1>14 DEF WhatsAppInv, TextTypes, PairTypes

LEMMA WaStepCredsUpdate ==
  ASSUME AdaptersFit, WhatsAppInv, Wa!CredsUpdate
  PROVE  WhatsAppInv'
<1> SockTypes /\ CredTypes /\ ModeTypes /\ QueueTypes /\ SetTypes /\ LiveTypes /\ CountTypes /\ AskTypes
  BY DEF WhatsAppInv, TextTypes, PairTypes
<1> PlacesInv /\ ReceiptsInv /\ ShownInv /\ WaitsInv /\ FirstInv /\ PurgeInv
  BY DEF WhatsAppInv
<1>u. UNCHANGED <<host, link, connected, queue, hand, direct, live, there, handed, sent, dropped, lost, shown, unclear, failed, registered, coming, answered, acted, backed, paired, copied, valid, pairings, timer, uploads, leaving, purging, gone, late, trouble, held>>
  BY DEF Wa!CredsUpdate, Wa!sockVars, Wa!textVars, Wa!askVars
<1>1. SockTypes'
  BY <1>u, StaySockTypes
<1>2. CredTypes'
  BY <1>u, WhatsAppConstants, NoText DEF Wa!CredsUpdate, Wa!sockVars, Wa!textVars, Wa!askVars, Wa!Reads, CredTypes
<1>3. ModeTypes'
  BY <1>u, StayModeTypes
<1>4. QueueTypes'
  BY <1>u, StayQueueTypes
<1>5. SetTypes'
  BY <1>u, StaySetTypes
<1>6. LiveTypes'
  BY <1>u, StayLiveTypes
<1>7. CountTypes'
  BY <1>u, StayCountTypes
<1>8. AskTypes'
  BY <1>u, StayAskTypes
<1>9. PlacesInv'
  BY <1>u, StayPlacesInv
<1>10. ReceiptsInv'
  BY <1>u, StayReceiptsInv
<1>11. ShownInv'
  BY <1>u, StayShownInv
<1>12. WaitsInv'
  BY <1>u, StayWaitsInv
<1>13. FirstInv'
  BY <1>u, StayFirstInv
<1>14. PurgeInv'
  BY <1>u, WhatsAppConstants, NoText DEF Wa!CredsUpdate, Wa!sockVars, Wa!textVars, Wa!askVars, Wa!Reads, PurgeInv
<1> QED BY <1>1, <1>2, <1>3, <1>4, <1>5, <1>6, <1>7, <1>8, <1>9, <1>10, <1>11, <1>12, <1>13, <1>14 DEF WhatsAppInv, TextTypes, PairTypes

LEMMA WaStepCredsSaved ==
  ASSUME AdaptersFit, WhatsAppInv, NEW n \in 1..MaxPairings, Wa!CredsSaved(n)
  PROVE  WhatsAppInv'
<1> SockTypes /\ CredTypes /\ ModeTypes /\ QueueTypes /\ SetTypes /\ LiveTypes /\ CountTypes /\ AskTypes
  BY DEF WhatsAppInv, TextTypes, PairTypes
<1> PlacesInv /\ ReceiptsInv /\ ShownInv /\ WaitsInv /\ FirstInv /\ PurgeInv
  BY DEF WhatsAppInv
<1>u. UNCHANGED <<host, link, connected, queue, hand, direct, live, there, handed, sent, dropped, lost, shown, unclear, failed, registered, coming, answered, acted, backed, copied, valid, pairings, uploads, leaving, purging, gone, late, trouble, held>>
  BY DEF Wa!CredsSaved, Wa!sockVars, Wa!textVars, Wa!askVars
<1>1. SockTypes'
  BY <1>u, StaySockTypes
<1>2. CredTypes'
  BY <1>u, WhatsAppConstants, NoText DEF Wa!CredsSaved, Wa!sockVars, Wa!textVars, Wa!askVars, CredTypes
<1>3. ModeTypes'
  BY <1>u DEF Wa!CredsSaved, ModeTypes
<1>4. QueueTypes'
  BY <1>u, StayQueueTypes
<1>5. SetTypes'
  BY <1>u, StaySetTypes
<1>6. LiveTypes'
  BY <1>u, StayLiveTypes
<1>7. CountTypes'
  BY <1>u, StayCountTypes
<1>8. AskTypes'
  BY <1>u, StayAskTypes
<1>9. PlacesInv'
  BY <1>u, StayPlacesInv
<1>10. ReceiptsInv'
  BY <1>u, StayReceiptsInv
<1>11. ShownInv'
  BY <1>u, StayShownInv
<1>12. WaitsInv'
  BY <1>u, StayWaitsInv
<1>13. FirstInv'
  BY <1>u, StayFirstInv
<1>14. PurgeInv'
  BY <1>u, WhatsAppConstants, NoText DEF Wa!CredsSaved, Wa!sockVars, Wa!textVars, Wa!askVars, PurgeInv
<1> QED BY <1>1, <1>2, <1>3, <1>4, <1>5, <1>6, <1>7, <1>8, <1>9, <1>10, <1>11, <1>12, <1>13, <1>14 DEF WhatsAppInv, TextTypes, PairTypes

LEMMA WaStepBackupStarts ==
  ASSUME AdaptersFit, WhatsAppInv, Wa!BackupStarts
  PROVE  WhatsAppInv'
<1> SockTypes /\ CredTypes /\ ModeTypes /\ QueueTypes /\ SetTypes /\ LiveTypes /\ CountTypes /\ AskTypes
  BY DEF WhatsAppInv, TextTypes, PairTypes
<1> PlacesInv /\ ReceiptsInv /\ ShownInv /\ WaitsInv /\ FirstInv /\ PurgeInv
  BY DEF WhatsAppInv
<1>u. UNCHANGED <<host, link, connected, queue, hand, direct, live, there, handed, sent, dropped, lost, shown, unclear, failed, registered, coming, answered, acted, backed, paired, copied, valid, pairings, leaving, purging, gone, late, trouble, held, saving>>
  BY DEF Wa!BackupStarts, Wa!sockVars, Wa!textVars, Wa!askVars, Wa!Reading
<1>1. SockTypes'
  BY <1>u, StaySockTypes
<1>2. CredTypes'
  BY <1>u, WhatsAppConstants, NoText DEF Wa!BackupStarts, Wa!sockVars, Wa!textVars, Wa!askVars, Wa!Reading, CredTypes
<1>3. ModeTypes'
  BY <1>u, WhatsAppConstants, NoText DEF Wa!BackupStarts, Wa!sockVars, Wa!textVars, Wa!askVars, Wa!Reading, ModeTypes
<1>4. QueueTypes'
  BY <1>u, StayQueueTypes
<1>5. SetTypes'
  BY <1>u, StaySetTypes
<1>6. LiveTypes'
  BY <1>u, StayLiveTypes
<1>7. CountTypes'
  BY <1>u, StayCountTypes
<1>8. AskTypes'
  BY <1>u, StayAskTypes
<1>9. PlacesInv'
  BY <1>u, StayPlacesInv
<1>10. ReceiptsInv'
  BY <1>u, StayReceiptsInv
<1>11. ShownInv'
  BY <1>u, StayShownInv
<1>12. WaitsInv'
  BY <1>u, StayWaitsInv
<1>13. FirstInv'
  BY <1>u, StayFirstInv
<1>14. PurgeInv'
  BY <1>u, WhatsAppConstants, NoText DEF Wa!BackupStarts, Wa!sockVars, Wa!textVars, Wa!askVars, Wa!Reading, PurgeInv
<1> QED BY <1>1, <1>2, <1>3, <1>4, <1>5, <1>6, <1>7, <1>8, <1>9, <1>10, <1>11, <1>12, <1>13, <1>14 DEF WhatsAppInv, TextTypes, PairTypes

LEMMA WaStepBackupEnds ==
  ASSUME AdaptersFit, WhatsAppInv, NEW n \in 1..MaxPairings, Wa!BackupEnds(n)
  PROVE  WhatsAppInv'
<1> SockTypes /\ CredTypes /\ ModeTypes /\ QueueTypes /\ SetTypes /\ LiveTypes /\ CountTypes /\ AskTypes
  BY DEF WhatsAppInv, TextTypes, PairTypes
<1> PlacesInv /\ ReceiptsInv /\ ShownInv /\ WaitsInv /\ FirstInv /\ PurgeInv
  BY DEF WhatsAppInv
<1>u. UNCHANGED <<host, link, connected, queue, hand, direct, live, there, handed, sent, dropped, lost, shown, unclear, failed, registered, coming, answered, acted, backed, paired, valid, pairings, timer, leaving, purging, gone, late, held, saving>>
  BY DEF Wa!BackupEnds, Wa!sockVars, Wa!textVars, Wa!askVars, Wa!Trouble
<1>1. SockTypes'
  BY <1>u, StaySockTypes
<1>2. CredTypes'
  BY <1>u, WhatsAppConstants, NoText DEF Wa!BackupEnds, Wa!sockVars, Wa!textVars, Wa!askVars, Wa!Trouble, CredTypes
<1>3. ModeTypes'
  BY <1>u, WhatsAppConstants, NoText DEF Wa!BackupEnds, Wa!sockVars, Wa!textVars, Wa!askVars, Wa!Trouble, ModeTypes
<1>4. QueueTypes'
  BY <1>u, StayQueueTypes
<1>5. SetTypes'
  BY <1>u, StaySetTypes
<1>6. LiveTypes'
  BY <1>u, StayLiveTypes
<1>7. CountTypes'
  BY <1>u, StayCountTypes
<1>8. AskTypes'
  BY <1>u, StayAskTypes
<1>9. PlacesInv'
  BY <1>u, StayPlacesInv
<1>10. ReceiptsInv'
  BY <1>u, StayReceiptsInv
<1>11. ShownInv'
  BY <1>u, StayShownInv
<1>12. WaitsInv'
  BY <1>u, StayWaitsInv
<1>13. FirstInv'
  BY <1>u, StayFirstInv
<1>14. PurgeInv'
  BY <1>u, WhatsAppConstants, NoText DEF Wa!BackupEnds, Wa!sockVars, Wa!textVars, Wa!askVars, Wa!Trouble, PurgeInv
<1> QED BY <1>1, <1>2, <1>3, <1>4, <1>5, <1>6, <1>7, <1>8, <1>9, <1>10, <1>11, <1>12, <1>13, <1>14 DEF WhatsAppInv, TextTypes, PairTypes

LEMMA WaStepTeardown ==
  ASSUME AdaptersFit, WhatsAppInv, NEW why \in {"reconnect", "exit"}, Wa!Teardown(why)
  PROVE  WhatsAppInv'
<1> SockTypes /\ CredTypes /\ ModeTypes /\ QueueTypes /\ SetTypes /\ LiveTypes /\ CountTypes /\ AskTypes
  BY DEF WhatsAppInv, TextTypes, PairTypes
<1> PlacesInv /\ ReceiptsInv /\ ShownInv /\ WaitsInv /\ FirstInv /\ PurgeInv
  BY DEF WhatsAppInv
<1>u. UNCHANGED <<host, link, queue, hand, direct, live, there, handed, sent, dropped, lost, shown, unclear, failed, registered, coming, answered, acted, backed, paired, copied, valid, pairings, purging, gone, late, held, saving>>
  BY DEF Wa!Teardown, Wa!textVars, Wa!askVars, Wa!Trouble, Wa!Reading
<1>1. SockTypes'
  BY <1>u, WhatsAppConstants, NoText DEF Wa!Teardown, Wa!textVars, Wa!askVars, Wa!Trouble, Wa!Reading, SockTypes
<1>2. CredTypes'
  BY <1>u, WhatsAppConstants, NoText DEF Wa!Teardown, Wa!textVars, Wa!askVars, Wa!Trouble, Wa!Reading, CredTypes
<1>3. ModeTypes'
  <2>1. trouble' \in 0..MaxTrouble
    BY TroubleStep DEF Wa!Teardown
  <2> QED BY <1>u, <2>1 DEF Wa!Teardown, ModeTypes
<1>4. QueueTypes'
  BY <1>u, StayQueueTypes
<1>5. SetTypes'
  BY <1>u, StaySetTypes
<1>6. LiveTypes'
  BY <1>u, StayLiveTypes
<1>7. CountTypes'
  BY <1>u, StayCountTypes
<1>8. AskTypes'
  BY <1>u, StayAskTypes
<1>9. PlacesInv'
  BY <1>u, StayPlacesInv
<1>10. ReceiptsInv'
  BY <1>u, StayReceiptsInv
<1>11. ShownInv'
  BY <1>u, StayShownInv
<1>12. WaitsInv'
  BY <1>u, WhatsAppConstants, NoText DEF Wa!Teardown, Wa!textVars, Wa!askVars, Wa!Trouble, Wa!Reading, WaitsInv
<1>13. FirstInv'
  BY <1>u, StayFirstInv
<1>14. PurgeInv'
  BY <1>u, WhatsAppConstants, NoText DEF Wa!Teardown, Wa!textVars, Wa!askVars, Wa!Trouble, Wa!Reading, PurgeInv
<1> QED BY <1>1, <1>2, <1>3, <1>4, <1>5, <1>6, <1>7, <1>8, <1>9, <1>10, <1>11, <1>12, <1>13, <1>14 DEF WhatsAppInv, TextTypes, PairTypes

LEMMA WaStepEnded ==
  ASSUME AdaptersFit, WhatsAppInv, Wa!Ended
  PROVE  WhatsAppInv'
<1> SockTypes /\ CredTypes /\ ModeTypes /\ QueueTypes /\ SetTypes /\ LiveTypes /\ CountTypes /\ AskTypes
  BY DEF WhatsAppInv, TextTypes, PairTypes
<1> PlacesInv /\ ReceiptsInv /\ ShownInv /\ WaitsInv /\ FirstInv /\ PurgeInv
  BY DEF WhatsAppInv
<1>u. UNCHANGED <<host, queue, hand, direct, there, handed, sent, dropped, lost, shown, unclear, failed, registered, coming, answered, acted, backed, paired, copied, valid, pairings, timer, uploads, purging, gone, late, trouble, saving>>
  BY DEF Wa!Ended, Wa!askVars, Wa!credVars, Wa!Closes
<1>1. SockTypes'
  BY <1>u, WhatsAppConstants, NoText DEF Wa!Ended, Wa!askVars, Wa!credVars, Wa!Closes, SockTypes
<1>2. CredTypes'
  <2>1. held' \in {held, paired} \cup saving
    BY DEF Wa!Ended, Wa!Closes, Wa!Reads
  <2> QED BY <1>u, <2>1, WhatsAppConstants DEF CredTypes
<1>3. ModeTypes'
  BY <1>u, WhatsAppConstants, NoText DEF Wa!Ended, Wa!askVars, Wa!credVars, Wa!Closes, ModeTypes
<1>4. QueueTypes'
  BY <1>u, StayQueueTypes
<1>5. SetTypes'
  BY <1>u, StaySetTypes
<1>6. LiveTypes'
  BY <1>u, WhatsAppConstants, NoText DEF Wa!Ended, Wa!askVars, Wa!credVars, Wa!Closes, LiveTypes
<1>7. CountTypes'
  BY <1>u, StayCountTypes
<1>8. AskTypes'
  BY <1>u, StayAskTypes
<1>9. PlacesInv'
  BY <1>u, StayPlacesInv
<1>10. ReceiptsInv'
  BY <1>u, StayReceiptsInv
<1>11. ShownInv'
  BY <1>u, StayShownInv
<1>12. WaitsInv'
  <2>1. connected' => connected
    BY DEF Wa!Ended, Wa!Closes
  <2> QED BY <1>u, <2>1 DEF WaitsInv
<1>13. FirstInv'
  BY <1>u, WhatsAppConstants, NoText DEF Wa!Ended, Wa!askVars, Wa!credVars, Wa!Closes, FirstInv
<1>14. PurgeInv'
  BY <1>u, WhatsAppConstants, NoText DEF Wa!Ended, Wa!askVars, Wa!credVars, Wa!Closes, Wa!Reads, PurgeInv
<1> QED BY <1>1, <1>2, <1>3, <1>4, <1>5, <1>6, <1>7, <1>8, <1>9, <1>10, <1>11, <1>12, <1>13, <1>14 DEF WhatsAppInv, TextTypes, PairTypes

LEMMA WaStepDies ==
  ASSUME AdaptersFit, WhatsAppInv, Wa!Dies
  PROVE  WhatsAppInv'
<1> SockTypes /\ CredTypes /\ ModeTypes /\ QueueTypes /\ SetTypes /\ LiveTypes /\ CountTypes /\ AskTypes
  BY DEF WhatsAppInv, TextTypes, PairTypes
<1> PlacesInv /\ ReceiptsInv /\ ShownInv /\ WaitsInv /\ FirstInv /\ PurgeInv
  BY DEF WhatsAppInv
<1>u. UNCHANGED <<handed, sent, dropped, shown, unclear, answered, acted, backed, paired, copied, valid, pairings, gone>>
  BY DEF Wa!Dies, Wa!Trouble
<1>1. SockTypes'
  BY <1>u, WhatsAppConstants, NoText DEF Wa!Dies, Wa!Trouble, SockTypes
<1>2. CredTypes'
  BY <1>u, WhatsAppConstants, NoText DEF Wa!Dies, Wa!Trouble, CredTypes
<1>3. ModeTypes'
  <2>1. trouble' \in 0..MaxTrouble
    BY TroubleStep DEF Wa!Dies
  <2> QED BY <1>u, <2>1 DEF Wa!Dies, ModeTypes
<1>4. QueueTypes'
  BY <1>u, WhatsAppConstants, NoText DEF Wa!Dies, Wa!Trouble, QueueTypes
<1>5. SetTypes'
  <2>1. lost' = lost \cup Wa!Range(queue) \cup direct \cup ({hand} \ {Wa!None}) /\ direct' = {}
    BY DEF Wa!Dies
  <2>2. Wa!Range(queue) \subseteq Wa!Texts
    BY DEF QueueTypes, Wa!Range
  <2> QED BY <1>u, <2>1, <2>2 DEF SetTypes, QueueTypes
<1>6. LiveTypes'
  BY <1>u, WhatsAppConstants, NoText DEF Wa!Dies, Wa!Trouble, LiveTypes
<1>7. CountTypes'
  BY <1>u, StayCountTypes
<1>8. AskTypes'
  BY <1>u, WhatsAppConstants, NoText DEF Wa!Dies, Wa!Trouble, AskTypes
<1>9. PlacesInv'
  <2>1. /\ lost' = lost \cup Wa!Range(queue) \cup direct \cup ({hand} \ {Wa!None})
        /\ direct' = {} /\ queue' = <<>> /\ hand' = Wa!None
    BY DEF Wa!Dies
  <2>2. \A t : t \in Wa!Range(queue) <=> Waits(t, queue)
    BY Zenon DEF Wa!Range, Waits
  <2>3. NoneTwice(queue') /\ \A t : ~Waits(t, queue')
    BY <2>1 DEF NoneTwice, Waits
  <2>4. ASSUME NEW t \in Wa!Texts PROVE Placed(t)'
    BY <1>u, <2>1, <2>2, <2>3, NoText DEF PlacesInv, Placed
  <2> QED BY <2>3, <2>4 DEF PlacesInv
<1>10. ReceiptsInv'
  <2>1. registered' = Wa!None
    BY DEF Wa!Dies
  <2>2. \A x : Wa!None # <<"ask", x>>
    BY DEF Wa!None
  <2> QED BY <1>u, <2>1, <2>2 DEF ReceiptsInv
<1>11. ShownInv'
  <2>1. lost' = lost \cup Wa!Range(queue) \cup direct \cup ({hand} \ {Wa!None})
    BY DEF Wa!Dies
  <2>2. ASSUME NEW t \in Wa!Texts, t \in there PROVE t \in lost'
    BY <2>1, <2>2, NoText DEF LiveTypes
  <2>3. ASSUME NEW t \in Wa!Texts, t \in lost PROVE t \in lost'
    BY <2>1, <2>3
  <2>4. ASSUME NEW t \in Wa!Texts
        PROVE  shown[t] <= unclear[t] + (IF t \in sent \/ t \in there' \/ t \in lost' THEN 1 ELSE 0)
    <3>1. shown[t] \in Nat /\ unclear[t] \in Nat
      BY DEF CountTypes
    <3> QED BY <2>2, <2>3, <2>4, <3>1 DEF ShownInv
  <2> QED BY <1>u, <2>4 DEF ShownInv
<1>12. WaitsInv'
  BY <1>u, WhatsAppConstants, NoText DEF Wa!Dies, Wa!Trouble, WaitsInv
<1>13. FirstInv'
  BY <1>u, WhatsAppConstants, NoText DEF Wa!Dies, Wa!Trouble, FirstInv
<1>14. PurgeInv'
  <2>1. /\ held' = 0 /\ saving' = {} /\ uploads' = {} /\ purging' = "no"
        /\ late' = (IF purging = "s3" THEN late \cup {copied} ELSE late)
    BY DEF Wa!Dies
  <2>2. 0 \notin gone
    BY DEF CredTypes
  <2>3. late \subseteq late' /\ {copied} \cap gone \subseteq late'
    BY <2>1 DEF PurgeInv
  <2> QED BY <1>u, <2>1, <2>2, <2>3 DEF PurgeInv
<1> QED BY <1>1, <1>2, <1>3, <1>4, <1>5, <1>6, <1>7, <1>8, <1>9, <1>10, <1>11, <1>12, <1>13, <1>14 DEF WhatsAppInv, TextTypes, PairTypes

LEMMA WaStepPurge ==
  ASSUME AdaptersFit, WhatsAppInv, Wa!Purge
  PROVE  WhatsAppInv'
<1> SockTypes /\ CredTypes /\ ModeTypes /\ QueueTypes /\ SetTypes /\ LiveTypes /\ CountTypes /\ AskTypes
  BY DEF WhatsAppInv, TextTypes, PairTypes
<1> PlacesInv /\ ReceiptsInv /\ ShownInv /\ WaitsInv /\ FirstInv /\ PurgeInv
  BY DEF WhatsAppInv
<1>u. UNCHANGED <<host, link, queue, hand, direct, live, there, handed, sent, dropped, lost, shown, unclear, failed, registered, coming, answered, acted, backed, paired, copied, valid, pairings, uploads, leaving, gone, late, held, saving>>
  BY DEF Wa!Purge, Wa!textVars, Wa!askVars, Wa!Trouble
<1>1. SockTypes'
  BY <1>u, WhatsAppConstants, NoText DEF Wa!Purge, Wa!textVars, Wa!askVars, Wa!Trouble, SockTypes
<1>2. CredTypes'
  BY <1>u, StayCredTypes
<1>3. ModeTypes'
  <2>1. trouble' \in 0..MaxTrouble
    BY TroubleStep DEF Wa!Purge
  <2> QED BY <1>u, <2>1 DEF Wa!Purge, ModeTypes
<1>4. QueueTypes'
  BY <1>u, StayQueueTypes
<1>5. SetTypes'
  BY <1>u, StaySetTypes
<1>6. LiveTypes'
  BY <1>u, StayLiveTypes
<1>7. CountTypes'
  BY <1>u, StayCountTypes
<1>8. AskTypes'
  BY <1>u, StayAskTypes
<1>9. PlacesInv'
  BY <1>u, StayPlacesInv
<1>10. ReceiptsInv'
  BY <1>u, StayReceiptsInv
<1>11. ShownInv'
  BY <1>u, StayShownInv
<1>12. WaitsInv'
  BY <1>u, WhatsAppConstants, NoText DEF Wa!Purge, Wa!textVars, Wa!askVars, Wa!Trouble, WaitsInv
<1>13. FirstInv'
  BY <1>u, StayFirstInv
<1>14. PurgeInv'
  BY <1>u, WhatsAppConstants, NoText DEF Wa!Purge, Wa!textVars, Wa!askVars, Wa!Trouble, PurgeInv
<1> QED BY <1>1, <1>2, <1>3, <1>4, <1>5, <1>6, <1>7, <1>8, <1>9, <1>10, <1>11, <1>12, <1>13, <1>14 DEF WhatsAppInv, TextTypes, PairTypes

LEMMA WaStepWipe ==
  ASSUME AdaptersFit, WhatsAppInv, Wa!Wipe
  PROVE  WhatsAppInv'
<1> SockTypes /\ CredTypes /\ ModeTypes /\ QueueTypes /\ SetTypes /\ LiveTypes /\ CountTypes /\ AskTypes
  BY DEF WhatsAppInv, TextTypes, PairTypes
<1> PlacesInv /\ ReceiptsInv /\ ShownInv /\ WaitsInv /\ FirstInv /\ PurgeInv
  BY DEF WhatsAppInv
<1>u. UNCHANGED <<host, queue, hand, direct, there, handed, sent, dropped, lost, shown, unclear, failed, registered, coming, answered, acted, backed, copied, pairings, timer, uploads, leaving, trouble, saving>>
  BY DEF Wa!Wipe, Wa!askVars, Wa!LogsOut, Wa!Closes
<1>1. SockTypes'
  BY <1>u, WhatsAppConstants, NoText DEF Wa!Wipe, Wa!askVars, Wa!LogsOut, Wa!Closes, SockTypes
<1>2. CredTypes'
  <2>1. held' \in {0, held} \cup saving /\ valid' \in {0, valid}
    BY DEF Wa!Wipe, Wa!LogsOut, Wa!Closes
  <2>2. /\ paired' = 0 /\ saving' = saving /\ gone' = gone \cup 1..pairings
        /\ late' = late \cup uploads \cup saving \cup {held'}
    BY DEF Wa!Wipe
  <2>3. held' \in 0..pairings /\ valid' \in 0..pairings
    BY <2>1, WhatsAppConstants DEF CredTypes
  <2>4. gone' \subseteq 1..pairings /\ late' \subseteq 0..pairings
    BY <2>2, <2>3, WhatsAppConstants DEF CredTypes
  <2> QED BY <1>u, <2>2, <2>3, <2>4, WhatsAppConstants DEF CredTypes
<1>3. ModeTypes'
  BY <1>u, WhatsAppConstants, NoText DEF Wa!Wipe, Wa!askVars, Wa!LogsOut, Wa!Closes, ModeTypes
<1>4. QueueTypes'
  BY <1>u, StayQueueTypes
<1>5. SetTypes'
  BY <1>u, StaySetTypes
<1>6. LiveTypes'
  BY <1>u, WhatsAppConstants, NoText DEF Wa!Wipe, Wa!askVars, Wa!LogsOut, Wa!Closes, LiveTypes
<1>7. CountTypes'
  BY <1>u, StayCountTypes
<1>8. AskTypes'
  BY <1>u, StayAskTypes
<1>9. PlacesInv'
  BY <1>u, StayPlacesInv
<1>10. ReceiptsInv'
  BY <1>u, StayReceiptsInv
<1>11. ShownInv'
  BY <1>u, StayShownInv
<1>12. WaitsInv'
  <2>1. connected' => connected
    BY DEF Wa!Wipe, Wa!LogsOut, Wa!Closes
  <2> QED BY <1>u, <2>1 DEF WaitsInv
<1>13. FirstInv'
  BY <1>u, WhatsAppConstants, NoText DEF Wa!Wipe, Wa!askVars, Wa!LogsOut, Wa!Closes, FirstInv
<1>14. PurgeInv'
  <2>1. /\ purging = "logout" /\ purging' = "s3" /\ paired' = 0
        /\ gone' = gone \cup 1..pairings /\ late' = late \cup uploads \cup saving \cup {held'}
    BY DEF Wa!Wipe
  <2>2. 0 \notin gone /\ 0 \notin 1..pairings
    BY DEF CredTypes
  <2> QED BY <1>u, <2>1, <2>2 DEF PurgeInv
<1> QED BY <1>1, <1>2, <1>3, <1>4, <1>5, <1>6, <1>7, <1>8, <1>9, <1>10, <1>11, <1>12, <1>13, <1>14 DEF WhatsAppInv, TextTypes, PairTypes

LEMMA WaStepPurged ==
  ASSUME AdaptersFit, WhatsAppInv, Wa!Purged
  PROVE  WhatsAppInv'
<1> SockTypes /\ CredTypes /\ ModeTypes /\ QueueTypes /\ SetTypes /\ LiveTypes /\ CountTypes /\ AskTypes
  BY DEF WhatsAppInv, TextTypes, PairTypes
<1> PlacesInv /\ ReceiptsInv /\ ShownInv /\ WaitsInv /\ FirstInv /\ PurgeInv
  BY DEF WhatsAppInv
<1>u. UNCHANGED <<host, link, connected, queue, hand, direct, live, there, handed, sent, dropped, lost, shown, unclear, failed, registered, coming, answered, acted, backed, paired, valid, pairings, timer, uploads, leaving, gone, held, saving>>
  BY DEF Wa!Purged, Wa!sockVars, Wa!textVars, Wa!askVars, Wa!Trouble
<1>1. SockTypes'
  BY <1>u, StaySockTypes
<1>2. CredTypes'
  <2>1. copied' \in {0, copied} /\ late' \subseteq late \cup {copied}
    BY DEF Wa!Purged
  <2> QED BY <1>u, <2>1 DEF CredTypes
<1>3. ModeTypes'
  BY <1>u, WhatsAppConstants, NoText DEF Wa!Purged, Wa!sockVars, Wa!textVars, Wa!askVars, Wa!Trouble, ModeTypes
<1>4. QueueTypes'
  BY <1>u, StayQueueTypes
<1>5. SetTypes'
  BY <1>u, StaySetTypes
<1>6. LiveTypes'
  BY <1>u, StayLiveTypes
<1>7. CountTypes'
  BY <1>u, StayCountTypes
<1>8. AskTypes'
  BY <1>u, StayAskTypes
<1>9. PlacesInv'
  BY <1>u, StayPlacesInv
<1>10. ReceiptsInv'
  BY <1>u, StayReceiptsInv
<1>11. ShownInv'
  BY <1>u, StayShownInv
<1>12. WaitsInv'
  BY <1>u, StayWaitsInv
<1>13. FirstInv'
  BY <1>u, StayFirstInv
<1>14. PurgeInv'
  <2>1. /\ purging = "s3" /\ purging' = "no"
        /\ \/ copied' = 0 /\ late' = late
           \/ copied' = copied /\ late' = late \cup {copied}
    BY DEF Wa!Purged
  <2>2. 0 \notin gone
    BY DEF CredTypes
  <2> QED BY <1>u, <2>1, <2>2 DEF PurgeInv
<1> QED BY <1>1, <1>2, <1>3, <1>4, <1>5, <1>6, <1>7, <1>8, <1>9, <1>10, <1>11, <1>12, <1>13, <1>14 DEF WhatsAppInv, TextTypes, PairTypes

LEMMA WhatsAppInit == ASSUME AdaptersFit, Wa!Init PROVE WhatsAppInv
<1>1. handed \subseteq Wa!Texts /\ lost = handed
  BY DEF Wa!Init, Wa!Delivered
<1>2. QueueTypes /\ SetTypes /\ LiveTypes
  BY <1>1, WhatsAppConstants DEF Wa!Init, QueueTypes, SetTypes, LiveTypes
<1>3. shown = [t \in Wa!Texts |-> 0] /\ unclear = [t \in Wa!Texts |-> 0]
  BY DEF Wa!Init
<1>4. CountTypes
  BY <1>3 DEF CountTypes
<1>5. SockTypes /\ ModeTypes /\ AskTypes
  <2>1. SockTypes
    BY DEF Wa!Init, SockTypes
  <2>2. backed = (handed = Wa!Delivered) /\ timer = FALSE /\ leaving = "no" /\ purging = "no" /\ trouble = 0
    BY DEF Wa!Init
  <2>3. backed \in BOOLEAN
    BY <2>2
  <2>6. trouble \in 0..MaxTrouble
    BY <2>2, WhatsAppConstants
  <2>7. timer \in BOOLEAN /\ leaving \in {"no", "reconnect", "exit"} /\ purging \in {"no", "logout", "s3"}
    BY <2>2
  <2>4. ModeTypes
    BY <2>3, <2>6, <2>7, Zenon DEF ModeTypes
  <2>5. AskTypes
    BY DEF Wa!Init, AskTypes
  <2> QED BY <2>1, <2>4, <2>5
<1>6. CredTypes
  <2>1. pairings \in 0..MaxPairings /\ paired = pairings /\ copied = 0 /\ valid = pairings
    BY WhatsAppConstants DEF Wa!Init
  <2>2. uploads = {} /\ gone = {} /\ late = {} /\ held = 0 /\ saving = {}
    BY DEF Wa!Init
  <2> QED BY <2>1, <2>2, WhatsAppConstants DEF CredTypes
<1>7. PlacesInv
  <2>1. queue = <<>> /\ hand = Wa!None /\ direct = {} /\ sent = {} /\ dropped = {}
    BY DEF Wa!Init
  <2>2. NoneTwice(queue) /\ \A t : ~Waits(t, queue)
    BY <2>1 DEF NoneTwice, Waits
  <2> QED BY <1>1, <2>1, <2>2, NoText DEF PlacesInv, Placed
<1>8. ReceiptsInv
  <2>1. registered = Wa!None
    BY DEF Wa!Init
  <2>2. ASSUME NEW x \in TextQuestions PROVE <<"receipt", x>> \notin handed
    <3>1. <<"receipt", x>> \in {"receipt"} \X TextQuestions
      OBVIOUS
    <3>2. \A t \in handed : t \notin {"receipt"} \X TextQuestions
      BY DEF Wa!Init, Wa!Delivered
    <3> QED BY <3>1, <3>2
  <2> QED BY <2>1, <2>2 DEF ReceiptsInv
<1>9. ShownInv
  BY <1>3 DEF ShownInv
<1>10. WaitsInv /\ FirstInv /\ PurgeInv
  BY DEF Wa!Init, WaitsInv, FirstInv, PurgeInv
<1> QED BY <1>2, <1>4, <1>5, <1>6, <1>7, <1>8, <1>9, <1>10 DEF WhatsAppInv, TextTypes, PairTypes

LEMMA WhatsAppStep ==
  ASSUME AdaptersFit, WhatsAppInv, [Wa!Next]_(Wa!vars)
  PROVE  WhatsAppInv'
<1>1. CASE Wa!Next
  BY <1>1, WaStepDeliver, WaStepShow, WaStepSent, WaStepSendFails, WaStepFlushSent, WaStepFlushFails, WaStepAnswer, WaStepHandle, WaStepStart, WaStepDialed, WaStepDialFails, WaStepRedial, WaStepPair, WaStepOpen, WaStepClose, WaStepLoggedOut, WaStepCredsUpdate, WaStepCredsSaved, WaStepBackupStarts, WaStepBackupEnds, WaStepTeardown, WaStepEnded, WaStepDies, WaStepPurge, WaStepWipe, WaStepPurged, Zenon DEF Wa!Next
<1>2. CASE UNCHANGED Wa!vars
  <2> SockTypes /\ CredTypes /\ ModeTypes /\ QueueTypes /\ SetTypes /\ LiveTypes /\ CountTypes
      /\ AskTypes /\ PlacesInv /\ ReceiptsInv /\ ShownInv /\ WaitsInv /\ FirstInv /\ PurgeInv
    BY DEF WhatsAppInv, TextTypes, PairTypes
  <2>1. UNCHANGED <<host, link, connected, queue, hand, direct, live, there, handed, sent, dropped, lost, shown, unclear, failed, registered, coming, answered, acted, backed, paired, copied, valid, held, saving, pairings, timer, uploads, leaving, purging, gone, late, trouble>>
    BY <1>2 DEF Wa!vars, Wa!sockVars, Wa!textVars, Wa!askVars, Wa!credVars
  <2>2. QueueTypes' /\ SetTypes' /\ LiveTypes' /\ CountTypes' /\ SockTypes' /\ CredTypes' /\ ModeTypes'
    BY <2>1, StayQueueTypes, StaySetTypes, StayLiveTypes, StayCountTypes, StaySockTypes,
       StayCredTypes, StayModeTypes
  <2>3. AskTypes' /\ PlacesInv' /\ ReceiptsInv' /\ ShownInv' /\ WaitsInv' /\ FirstInv' /\ PurgeInv'
    BY <2>1, StayAskTypes, StayPlacesInv, StayReceiptsInv, StayShownInv, StayWaitsInv, StayFirstInv,
       StayPurgeInv
  <2> QED BY <2>2, <2>3 DEF WhatsAppInv, TextTypes, PairTypes
<1> QED BY <1>1, <1>2

LEMMA OneOrNone ==
  ASSUME NEW S, NEW P, \A x, y \in S : x = y, P <=> S # {}
  PROVE  Wa!Cardinality(S) = IF P THEN 1 ELSE 0
<1>1. CASE S = {}
  BY <1>1, FS_EmptySet DEF Wa!Cardinality, Cardinality
<1>2. CASE S # {}
  <2>1. PICK x : S = {x}
    BY <1>2
  <2>2. Cardinality({x}) = 1
    BY FS_Singleton
  <2> QED BY <1>2, <2>1, <2>2 DEF Wa!Cardinality, Cardinality
<1> QED BY <1>1, <1>2

LEMMA WhatsAppHolds ==
  ASSUME AdaptersFit, WhatsAppInv
  PROVE  Wa!TypeOK /\ Wa!OutgoingKept /\ Wa!PurgedStaysOut
<1> /\ SockTypes /\ CredTypes /\ ModeTypes /\ QueueTypes /\ SetTypes /\ LiveTypes /\ CountTypes
    /\ AskTypes /\ PlacesInv /\ ShownInv /\ WaitsInv /\ PurgeInv
  BY DEF WhatsAppInv, TextTypes, PairTypes
<1>1. Wa!InOnePlace
  <2> SUFFICES ASSUME NEW t \in handed
               PROVE  Wa!Cardinality({k \in DOMAIN queue : queue[k] = t})
                        + Wa!Cardinality({k \in 1..5 :
                             t \in <<direct, {hand}, sent, dropped, lost>>[k]}) = 1
    BY DEF Wa!InOnePlace
  <2> DEFINE Q == {k \in DOMAIN queue : queue[k] = t}
             E == {k \in 1..5 : t \in <<direct, {hand}, sent, dropped, lost>>[k]}
             queued == Waits(t, queue)
             ended == t \in direct \/ t = hand \/ t \in sent \/ t \in dropped \/ t \in lost
  <2>1. t \in Wa!Texts /\ Placed(t)
    BY DEF SetTypes, PlacesInv
  <2>2. (queued \/ ended) /\ ~(queued /\ ended)
    BY <2>1 DEF Placed
  <2>3. Wa!Cardinality(Q) = IF queued THEN 1 ELSE 0
    <3>1. (\A x, y \in Q : x = y) /\ (queued <=> Q # {})
      BY Zenon DEF PlacesInv, NoneTwice, Waits
    <3> HIDE DEF Q, queued
    <3> QED BY <3>1, OneOrNone
  <2>4. Wa!Cardinality(E) = IF ended THEN 1 ELSE 0
    <3> DEFINE In(k) == t \in <<direct, {hand}, sent, dropped, lost>>[k]
    <3>1. /\ In(1) <=> t \in direct
          /\ In(2) <=> t = hand
          /\ In(3) <=> t \in sent
          /\ In(4) <=> t \in dropped
          /\ In(5) <=> t \in lost
      OBVIOUS
    <3>2. E = {k \in {1, 2, 3, 4, 5} : In(k)}
      OBVIOUS
    <3> HIDE DEF In, E
    <3>3. \A x, y \in E : x = y
      BY <2>1, <3>1, <3>2 DEF Placed
    <3>4. ended <=> E # {}
      BY <3>1, <3>2
    <3> HIDE DEF ended
    <3> QED BY <3>3, <3>4, OneOrNone
  <2> HIDE DEF Q, E, queued, ended
  <2>5. Wa!Cardinality(Q) + Wa!Cardinality(E) = 1
    BY <2>2, <2>3, <2>4
  <2> QED BY <2>5 DEF Q, E
<1>2. Wa!ShownOnce
  BY DEF ShownInv, Wa!ShownOnce
<1>3. Wa!QueueWaitsForOpen
  BY DEF WaitsInv, Wa!QueueWaitsForOpen
<1>4. Wa!PurgedStaysOut
  BY DEF PurgeInv, Wa!PurgedStaysOut
<1>5. Wa!TypeOK
  <2>1. \A T \in {direct, handed, sent, dropped, lost} : T \subseteq Wa!Texts
    BY DEF SetTypes
  <2>2. queue \in Seq(Wa!Texts) /\ Len(queue) <= MaxQueue + 1 /\ hand \in Wa!Texts \cup {Wa!None}
    BY DEF QueueTypes
  <2>3. there \subseteq live \cup direct \cup {hand} /\ live \subseteq direct \cup {hand}
    BY DEF LiveTypes
  <2>4. shown \in [Wa!Texts -> Nat] /\ unclear \in [Wa!Texts -> Nat]
    BY DEF CountTypes
  <2>5. registered \in Wa!Texts \cup {Wa!None} /\ coming \subseteq answered /\ answered \subseteq TextQuestions
        /\ acted \subseteq TextQuestions \X TextQuestions
    BY DEF AskTypes, Wa!Texts
  <2>6. /\ pairings \in 0..MaxPairings /\ {paired, copied, valid, held} \subseteq 0..pairings
        /\ uploads \cup saving \subseteq 1..pairings /\ gone \subseteq 1..pairings /\ late \subseteq 0..pairings
    BY DEF CredTypes
  <2>7. /\ host \in {"down", "starting", "running", "failed"}
        /\ link \in {"none", "first", "dialing", "resting", "redialing", "stuck", "made", "open", "out"}
        /\ connected \in BOOLEAN /\ backed \in BOOLEAN /\ failed \in BOOLEAN /\ timer \in BOOLEAN
        /\ leaving \in {"no", "reconnect", "exit"} /\ purging \in {"no", "logout", "s3"}
        /\ trouble \in 0..MaxTrouble
    BY DEF SockTypes, ModeTypes
  <2> QED BY <2>1, <2>2, <2>3, <2>4, <2>5, <2>6, <2>7, Zenon DEF Wa!TypeOK
<1> QED BY <1>1, <1>2, <1>3, <1>4, <1>5 DEF Wa!OutgoingKept

(***************************************************************************)
(* Telegram: the inductive invariant.                                      *)
(***************************************************************************)
Ways == {"text", "media", "link"}
BotTypes ==
  /\ offset \in Nat /\ confirmed \in Nat /\ fetched \in Nat /\ written \in Nat
  /\ forwarded \in [Te!Updates -> Nat] /\ repeats \in [Te!Updates -> Nat]

\* What the loop has moved past, or Telegram has dropped, went to the router.
Behind(u) == u < offset \/ u < confirmed
UpdateInv(u) ==
  /\ Behind(u) /\ u \in Wordy => u \in forwarding \cup routed \cup cut
  /\ forwarded[u] <= 1 + repeats[u]
  /\ ~Behind(u) => forwarded[u] <= repeats[u]

\* A post nothing happened to is shown when it is done, and not before.
PostInv(m) ==
  m \notin unheard =>
    \/ post[m] = "waiting" /\ posted[m] = {}
    \/ post[m] = (IF m \in Media THEN "media" ELSE "text") /\ posted[m] = {}
    \/ post[m] = "done" /\ posted[m] = {IF m \in Media THEN "media" ELSE "text"}

PostTypes ==
  /\ post \in [Posts -> {"waiting", "text", "media", "link", "done"}]
  /\ posted \in [Posts -> SUBSET Ways]

TelegramInv ==
  /\ BotTypes /\ \A u \in Te!Updates : UpdateInv(u)
  /\ PostTypes /\ \A m \in Posts : PostInv(m)

LEMMA TelegramInit == ASSUME AdaptersFit, Te!Init PROVE TelegramInv
<1>1. BotTypes /\ PostTypes
  BY DEF Te!Init, BotTypes, PostTypes, Ways
<1>2. \A u \in Te!Updates : u \in Nat /\ u > 0
  BY DEF Te!Updates, AdaptersFit, Te!ConstantAssumption
<1>3. ASSUME NEW u \in Te!Updates PROVE UpdateInv(u)
  BY <1>2 DEF Te!Init, UpdateInv, Behind
<1>4. ASSUME NEW m \in Posts PROVE PostInv(m)
  BY DEF Te!Init, PostInv
<1> QED BY <1>1, <1>3, <1>4 DEF TelegramInv

\* What a step does to the posts, and to the updates, it does not do to the others.
LEMMA PostsRest ==
  ASSUME TelegramInv, UNCHANGED <<post, posted, unheard>>
  PROVE  PostTypes' /\ \A m \in Posts : PostInv(m)'
BY DEF TelegramInv, PostTypes, PostInv

LEMMA UpdatesRest ==
  ASSUME TelegramInv, UNCHANGED <<offset, written, confirmed, fetched, forwarded, repeats>>,
         forwarding \cup routed \cup cut \subseteq (forwarding \cup routed \cup cut)'
  PROVE  BotTypes' /\ \A u \in Te!Updates : UpdateInv(u)'
BY DEF TelegramInv, BotTypes, UpdateInv, Behind

LEMMA TelegramGets ==
  ASSUME AdaptersFit, TelegramInv, Te!GetUpdates
  PROVE  TelegramInv'
<1>1. /\ UNCHANGED <<offset, written, forwarding, forwarded, routed, cut, repeats, post, posted, unheard>>
      /\ confirmed' = (IF offset > confirmed THEN offset ELSE confirmed) /\ fetched' = written
  BY DEF Te!GetUpdates, Te!routeVars, Te!postVars
<1>2. BotTypes /\ BotTypes'
  BY <1>1 DEF TelegramInv, BotTypes
<1>3. ASSUME NEW u \in Te!Updates PROVE UpdateInv(u)'
  <2>1. u \in Nat
    BY DEF Te!Updates, AdaptersFit, Te!ConstantAssumption
  <2>2. Behind(u)' <=> Behind(u)
    BY <1>1, <1>2, <2>1 DEF Behind, BotTypes
  <2> QED BY <1>1, <2>2 DEF TelegramInv, UpdateInv
<1> QED BY <1>1, <1>2, <1>3, PostsRest DEF TelegramInv

LEMMA TelegramTakes ==
  ASSUME AdaptersFit, TelegramInv, Te!Takes
  PROVE  TelegramInv'
<1>1. /\ UNCHANGED <<written, confirmed, fetched, routed, cut, repeats, post, posted, unheard>>
      /\ offset' = (IF Te!Batch = {} THEN offset ELSE fetched + 1)
      /\ forwarding' = forwarding \cup (Te!Batch \cap Wordy)
      /\ forwarded' = [u \in Te!Updates |-> IF u \in Te!Batch \cap Wordy THEN forwarded[u] + 1
                                                                        ELSE forwarded[u]]
  BY DEF Te!Takes, Te!postVars
<1>2. BotTypes /\ Te!Batch = {u \in 1..fetched : confirmed <= u /\ offset <= u}
  BY DEF TelegramInv, Te!Batch
<1>3. offset' \in Nat /\ offset <= offset' /\ (\A u \in Te!Batch : u < offset')
  BY <1>1, <1>2 DEF BotTypes
<1>4. BotTypes'
  <2>1. \A u \in Te!Updates : forwarded'[u] \in Nat
    BY <1>1, <1>2 DEF BotTypes
  <2>2. forwarded' = [u \in Te!Updates |-> forwarded'[u]]
    BY <1>1
  <2> QED BY <1>1, <1>2, <1>3, <2>1, <2>2 DEF BotTypes
<1>5. ASSUME NEW u \in Te!Updates PROVE UpdateInv(u)'
  <2>1. u \in Nat /\ u > 0 /\ forwarded[u] \in Nat /\ repeats[u] \in Nat
    BY <1>2 DEF Te!Updates, AdaptersFit, Te!ConstantAssumption, BotTypes
  <2>2. UpdateInv(u)
    BY DEF TelegramInv
  <2>3. Behind(u)' /\ ~Behind(u) => u \in Te!Batch
    BY <1>1, <1>2, <1>3, <2>1 DEF Behind, BotTypes
  <2>4. u \in Te!Batch => Behind(u)' /\ ~Behind(u)
    BY <1>2, <1>3, <2>1 DEF Behind, BotTypes
  <2>5. Behind(u) => Behind(u)'
    BY <1>1, <1>2, <1>3, <2>1 DEF Behind, BotTypes
  <2>6. Behind(u)' /\ u \in Wordy => (u \in forwarding \cup routed \cup cut)'
    BY <1>1, <2>2, <2>3 DEF UpdateInv
  <2>7. repeats'[u] = repeats[u] /\ forwarded'[u] = (IF u \in Te!Batch \cap Wordy THEN forwarded[u] + 1 ELSE forwarded[u])
    BY <1>1
  <2>8. CASE u \in Te!Batch \cap Wordy
    <3>1. forwarded'[u] <= 1 + repeats'[u]
      BY <2>8, <2>7, <2>4, <2>2, <2>1 DEF UpdateInv
    <3> QED BY <2>8, <2>4, <2>6, <3>1 DEF UpdateInv
  <2>9. CASE u \notin Te!Batch \cap Wordy
    BY <2>9, <2>7, <2>5, <2>6, <2>2 DEF UpdateInv
  <2> QED BY <2>8, <2>9
<1> QED BY <1>1, <1>4, <1>5, PostsRest DEF TelegramInv

LEMMA TelegramDies ==
  ASSUME AdaptersFit, TelegramInv, Te!Dies
  PROVE  TelegramInv'
<1>1. /\ UNCHANGED <<written, confirmed, forwarded, routed, posted>>
      /\ offset' = 0 /\ fetched' = 0 /\ forwarding' = {} /\ cut' = cut \cup forwarding
      /\ repeats' = [u \in Te!Updates |-> IF confirmed <= u /\ u < offset THEN repeats[u] + 1 ELSE repeats[u]]
      /\ post' = [m \in Posts |-> IF post[m] \in Ways THEN "waiting" ELSE post[m]]
      /\ unheard' = unheard \cup {m \in Posts : post[m] \in Ways}
  BY DEF Te!Dies, Te!Ways, Ways
<1>2. BotTypes /\ PostTypes
  BY DEF TelegramInv
<1>3. BotTypes'
  <2>1. \A u \in Te!Updates : repeats'[u] \in Nat
    BY <1>1, <1>2 DEF BotTypes
  <2>2. repeats' = [u \in Te!Updates |-> repeats'[u]]
    BY <1>1
  <2> QED BY <1>1, <1>2, <2>1, <2>2 DEF BotTypes
<1>4. ASSUME NEW u \in Te!Updates PROVE UpdateInv(u)'
  <2>1. u \in Nat /\ forwarded[u] \in Nat /\ repeats[u] \in Nat /\ offset \in Nat /\ confirmed \in Nat
    BY <1>2 DEF Te!Updates, AdaptersFit, Te!ConstantAssumption, BotTypes
  <2>2. UpdateInv(u)
    BY DEF TelegramInv
  <2>3. Behind(u)' <=> u < confirmed
    BY <1>1, <2>1 DEF Behind
  <2>4. Behind(u)' /\ u \in Wordy => (u \in forwarding \cup routed \cup cut)'
    BY <1>1, <2>2, <2>3 DEF UpdateInv, Behind
  <2>5. repeats'[u] = IF confirmed <= u /\ u < offset THEN repeats[u] + 1 ELSE repeats[u]
    BY <1>1
  <2>6. forwarded'[u] = forwarded[u] /\ forwarded'[u] <= 1 + repeats'[u]
    BY <1>1, <2>1, <2>2, <2>5 DEF UpdateInv
  <2>7. ~Behind(u)' => forwarded'[u] <= repeats'[u]
    BY <2>1, <2>2, <2>3, <2>5, <2>6 DEF UpdateInv, Behind
  <2> QED BY <2>4, <2>6, <2>7 DEF UpdateInv
<1>5. PostTypes'
  BY <1>1, <1>2 DEF PostTypes, Ways
<1>6. ASSUME NEW m \in Posts PROVE PostInv(m)'
  <2>1. PostInv(m)
    BY DEF TelegramInv
  <2>2. CASE post[m] \in Ways
    BY <1>1, <2>2 DEF PostInv
  <2>3. CASE post[m] \notin Ways
    BY <1>1, <2>1, <2>3 DEF PostInv
  <2> QED BY <2>2, <2>3
<1> QED BY <1>3, <1>4, <1>5, <1>6 DEF TelegramInv

\* The posts.
LEMMA TelegramPosts ==
  ASSUME AdaptersFit, TelegramInv, NEW m \in Posts,
         \/ Te!Deliver(m)
         \/ \E way \in Te!Ways : Te!TgCall(m, way) \/ \E seen_ \in BOOLEAN : Te!TgCallFails(m, way, seen_)
  PROVE  TelegramInv'
<1>1. /\ UNCHANGED <<offset, written, confirmed, fetched, forwarding, forwarded, routed, cut, repeats>>
      /\ unheard \subseteq unheard'
  BY DEF Te!Deliver, Te!TgCall, Te!TgCallFails, Te!loopVars, Te!routeVars
<1>2. PostTypes /\ Te!Ways = Ways
  BY DEF TelegramInv, Te!Ways, Ways
<1>3. PostTypes' /\ (\A n \in Posts \ {m} : post'[n] = post[n] /\ posted'[n] = posted[n] /\ PostInv(n))
  BY <1>2 DEF Te!Deliver, Te!TgCall, Te!TgCallFails, PostTypes, Ways, TelegramInv
<1>4. PostInv(m)'
  <2>1. PostInv(m)
    BY DEF TelegramInv
  <2>2. CASE Te!Deliver(m)
    BY <2>1, <2>2, <1>2 DEF PostInv, Te!Deliver, PostTypes
  <2>3. ASSUME NEW way \in Ways, Te!TgCall(m, way) PROVE PostInv(m)'
    BY <2>1, <2>3, <1>2 DEF PostInv, Te!TgCall, Te!Posting, PostTypes, Ways
  <2>4. ASSUME NEW way \in Ways, NEW b \in BOOLEAN, Te!TgCallFails(m, way, b) PROVE PostInv(m)'
    BY <2>4 DEF PostInv, Te!TgCallFails
  <2> QED BY <2>2, <2>3, <2>4, <1>2
<1>5. ASSUME NEW n \in Posts \ {m} PROVE PostInv(n)'
  BY <1>1, <1>3 DEF PostInv
<1> QED BY <1>1, <1>3, <1>4, <1>5, UpdatesRest DEF TelegramInv

LEMMA TelegramStep ==
  ASSUME AdaptersFit, TelegramInv, [Te!Next]_(Te!telegramVars)
  PROVE  TelegramInv'
<1>1. CASE UNCHANGED Te!telegramVars
  BY <1>1, PostsRest, UpdatesRest
  DEF Te!telegramVars, Te!loopVars, Te!routeVars, Te!postVars, TelegramInv
<1>2. CASE \/ \E b \in BOOLEAN : Te!Setup(b)
           \/ Te!Asks \/ Te!FetchFails \/ Te!Retries \/ Te!Teardown
  <2>1. UNCHANGED <<offset, written, confirmed, fetched, forwarding, forwarded, routed, cut, repeats,
                    post, posted, unheard>>
    BY <1>2 DEF Te!Setup, Te!Asks, Te!FetchFails, Te!Retries, Te!Teardown, Te!routeVars, Te!postVars
  <2> QED BY <2>1, PostsRest, UpdatesRest DEF TelegramInv
<1>3. CASE Te!Writes
  <2>1. /\ UNCHANGED <<offset, confirmed, fetched, forwarding, forwarded, routed, cut, repeats, post, posted, unheard>>
        /\ written' = written + 1
    BY <1>3 DEF Te!Writes, Te!routeVars, Te!postVars
  <2>2. BotTypes' /\ \A u \in Te!Updates : UpdateInv(u)'
    BY <2>1 DEF TelegramInv, BotTypes, UpdateInv, Behind
  <2> QED BY <2>1, <2>2, PostsRest DEF TelegramInv
<1>4. ASSUME NEW u \in Te!Updates, Te!Routes(u) \/ Te!RouteFails(u) PROVE TelegramInv'
  <2>1. /\ UNCHANGED <<offset, written, confirmed, fetched, forwarded, repeats, post, posted, unheard>>
        /\ forwarding \cup routed \cup cut \subseteq (forwarding \cup routed \cup cut)'
    BY <1>4 DEF Te!Routes, Te!RouteFails, Te!loopVars, Te!postVars
  <2> QED BY <2>1, PostsRest, UpdatesRest DEF TelegramInv
<1> QED BY <1>1, <1>2, <1>3, <1>4, TelegramGets, TelegramTakes, TelegramDies, TelegramPosts DEF Te!Next

LEMMA TelegramHolds ==
  ASSUME AdaptersFit, TelegramInv
  PROVE  Te!UpdatesKept /\ Te!ForwardedOnce /\ Te!DeliveredIsShown
<1>1. Te!UpdatesKept /\ Te!ForwardedOnce
  BY DEF TelegramInv, UpdateInv, Behind, Te!UpdatesKept, Te!ForwardedOnce
<1>2. Te!DeliveredIsShown
  BY DEF TelegramInv, PostInv, Te!DeliveredIsShown
<1> QED BY <1>1, <1>2

(***************************************************************************)
(* Telegram: the bounds of its types.                                      *)
(***************************************************************************)
LEMMA BotInitTypes == ASSUME AdaptersFit, Te!Init PROVE Te!TypeOK
<1>1. MaxUpdates \in Nat /\ MaxBotFaults \in Nat
  BY AdaptersFit DEF AdaptersFit, Te!ConstantAssumption
<1>2. 0 \in 0..MaxUpdates /\ 0 \in 0..(MaxUpdates + 1) /\ 0 \in 0..MaxBotFaults
  BY <1>1
<1>3. /\ loop \in Te!Loops /\ closing \in BOOLEAN
      /\ offset \in 0..(MaxUpdates + 1) /\ written \in 0..MaxUpdates
      /\ confirmed \in 0..(MaxUpdates + 1) /\ fetched \in 0..MaxUpdates /\ botFaults \in 0..MaxBotFaults
  BY <1>2 DEF Te!Init, Te!Loops
<1>4. /\ forwarding \in SUBSET Te!Updates /\ forwarded \in [Te!Updates -> Nat]
      /\ routed \in SUBSET Te!Updates /\ cut \in SUBSET Te!Updates /\ repeats \in [Te!Updates -> Nat]
  BY DEF Te!Init
<1>5. /\ post \in [Posts -> {"waiting", "text", "media", "link", "done"}]
      /\ posted \in [Posts -> SUBSET Te!Ways] /\ unheard \in SUBSET Posts
  BY DEF Te!Init
<1> QED BY <1>3, <1>4, <1>5 DEF Te!TypeOK

LEMMA BotTypesStep == ASSUME AdaptersFit, Te!TypeOK, [Te!Next]_(Te!telegramVars) PROVE Te!TypeOK'
<1> DEFINE LoopIs == /\ loop \in Te!Loops /\ closing \in BOOLEAN
                        /\ offset \in 0..(MaxUpdates + 1) /\ written \in 0..MaxUpdates
                        /\ confirmed \in 0..(MaxUpdates + 1) /\ fetched \in 0..MaxUpdates
           RoutesAre == /\ forwarding \in SUBSET Te!Updates /\ forwarded \in [Te!Updates -> Nat]
                         /\ routed \in SUBSET Te!Updates /\ cut \in SUBSET Te!Updates
                         /\ repeats \in [Te!Updates -> Nat]
           PostsAre == /\ post \in [Posts -> {"waiting", "text", "media", "link", "done"}]
                        /\ posted \in [Posts -> SUBSET Te!Ways] /\ unheard \in SUBSET Posts
           FaultsAre == botFaults \in 0..MaxBotFaults
<1>0. MaxUpdates \in Nat /\ MaxBotFaults \in Nat
  BY AdaptersFit DEF AdaptersFit, Te!ConstantAssumption
<1>1. LoopIs /\ RoutesAre /\ PostsAre /\ FaultsAre
  BY DEF Te!TypeOK
<1>2. SUFFICES LoopIs' /\ RoutesAre' /\ PostsAre' /\ FaultsAre'
  BY DEF Te!TypeOK
<1>3. Te!Fault \/ UNCHANGED botFaults => FaultsAre'
  BY <1>0, <1>1 DEF Te!Fault
<1>4. UNCHANGED Te!routeVars => RoutesAre'
  BY <1>1 DEF Te!routeVars
<1>5. UNCHANGED Te!postVars => PostsAre'
  BY <1>1 DEF Te!postVars
<1>6. UNCHANGED Te!loopVars => LoopIs'
  BY <1>1 DEF Te!loopVars
<1>7. CASE UNCHANGED Te!telegramVars
  BY <1>3, <1>4, <1>5, <1>6, <1>7 DEF Te!telegramVars
<1>8. CASE \/ \E k \in BOOLEAN : Te!Setup(k)
           \/ Te!Writes \/ Te!Asks \/ Te!GetUpdates \/ Te!FetchFails \/ Te!Retries \/ Te!Teardown
  <2>1. LoopIs'
    <3>1. loop' \in Te!Loops /\ closing' \in BOOLEAN
      BY <1>1, <1>8 DEF Te!Setup, Te!Writes, Te!Asks, Te!GetUpdates, Te!FetchFails, Te!Retries, Te!Teardown,
         Te!Loops
    <3>2. /\ offset' = offset /\ (written' = written \/ (written < MaxUpdates /\ written' = written + 1))
          /\ confirmed' \in {offset, confirmed} /\ fetched' \in {fetched, written}
      BY <1>8 DEF Te!Setup, Te!Writes, Te!Asks, Te!GetUpdates, Te!FetchFails, Te!Retries, Te!Teardown
    <3>3. written' \in 0..MaxUpdates
      BY <1>0, <1>1, <3>2
    <3> QED BY <1>1, <3>1, <3>2, <3>3
  <2>2. UNCHANGED <<Te!routeVars, Te!postVars>> /\ (Te!Fault \/ UNCHANGED botFaults)
    BY <1>8 DEF Te!Setup, Te!Writes, Te!Asks, Te!GetUpdates, Te!FetchFails, Te!Retries, Te!Teardown
  <2> QED BY <2>1, <2>2, <1>3, <1>4, <1>5
<1>9. CASE Te!Takes
  <2>1. Te!Batch \subseteq Te!Updates
    BY <1>0, <1>1 DEF Te!Batch, Te!Updates
  <2>2. LoopIs'
    BY <1>0, <1>1, <1>9 DEF Te!Takes, Te!Loops
  <2>3. RoutesAre'
    BY <1>1, <1>9, <2>1 DEF Te!Takes
  <2>4. UNCHANGED <<Te!postVars, botFaults>>
    BY <1>9 DEF Te!Takes
  <2> QED BY <2>2, <2>3, <2>4, <1>3, <1>5
<1>10. CASE Te!Dies
  <2>1. LoopIs'
    <3>1. loop' = "down" /\ closing' = FALSE /\ offset' = 0 /\ fetched' = 0 /\ UNCHANGED <<written, confirmed>>
      BY <1>10 DEF Te!Dies
    <3>2. 0 \in 0..(MaxUpdates + 1) /\ 0 \in 0..MaxUpdates /\ "down" \in Te!Loops
      BY <1>0 DEF Te!Loops
    <3> QED BY <1>1, <3>1, <3>2
  <2>2. RoutesAre'
    BY <1>1, <1>10 DEF Te!Dies
  <2>3. PostsAre'
    BY <1>1, <1>10 DEF Te!Dies
  <2>4. Te!Fault
    BY <1>10 DEF Te!Dies
  <2> QED BY <2>1, <2>2, <2>3, <2>4, <1>3
<1>11. ASSUME NEW u \in Te!Updates, Te!Routes(u) \/ Te!RouteFails(u)
       PROVE  LoopIs' /\ RoutesAre' /\ PostsAre' /\ FaultsAre'
  <2>1. UNCHANGED <<Te!loopVars, Te!postVars>> /\ (Te!Fault \/ UNCHANGED botFaults)
    BY <1>11 DEF Te!Routes, Te!RouteFails
  <2>2. RoutesAre'
    BY <1>1, <1>11 DEF Te!Routes, Te!RouteFails
  <2> QED BY <2>1, <2>2, <1>3, <1>5, <1>6
<1>12. ASSUME NEW m \in Posts, Te!Deliver(m)
       PROVE  LoopIs' /\ RoutesAre' /\ PostsAre' /\ FaultsAre'
  <2>1. PostsAre'
    BY <1>1, <1>12 DEF Te!Deliver
  <2>2. UNCHANGED <<Te!loopVars, Te!routeVars, botFaults>>
    BY <1>12 DEF Te!Deliver
  <2> QED BY <2>1, <2>2, <1>3, <1>4, <1>6
<1>13. ASSUME NEW m \in Posts, NEW w \in Te!Ways, Te!TgCall(m, w) \/ \E b \in BOOLEAN : Te!TgCallFails(m, w, b)
       PROVE  LoopIs' /\ RoutesAre' /\ PostsAre' /\ FaultsAre'
  <2>1. PostsAre'
    BY <1>1, <1>13 DEF Te!TgCall, Te!TgCallFails
  <2>2. UNCHANGED <<Te!loopVars, Te!routeVars>> /\ (Te!Fault \/ UNCHANGED botFaults)
    BY <1>13 DEF Te!TgCall, Te!TgCallFails
  <2> QED BY <2>1, <2>2, <1>3, <1>4, <1>6
<1> QED BY <1>7, <1>8, <1>9, <1>10, <1>11, <1>12, <1>13 DEF Te!Next
=============================================================================
