------------------------- MODULE PermissionsProofs -------------------------
(***************************************************************************)
(* Proofs about Permissions: the inductive invariant of the router and the   *)
(* approval cards, and the safety properties it implies.                    *)
(***************************************************************************)
EXTENDS Permissions, WellFoundedInduction, TLAPS

(***************************************************************************)
(* The fan-out.                                                            *)
(***************************************************************************)
\* A set of agents that is not empty has a first one.
LEMMA FirstIsLeast ==
  ASSUME MessagesAssumption, NEW S \in SUBSET Agents, S # {}
  PROVE  First(S) \in S /\ \A b \in S : First(S) <= b
<1>1. S \subseteq Nat
  BY DEF MessagesAssumption
<1>2. PICK m \in S : \A n \in S : ~(n < m)
  <2>1. PICK m \in S : \A n \in S : <<n, m>> \notin OpToRel(<, Nat)
    BY <1>1, NatLessThanWellFounded, WFMin
  <2> QED BY <1>1, <2>1 DEF OpToRel
<1>3. m \in S /\ \A n \in S : m <= n
  BY <1>1, <1>2
<1> QED BY <1>3 DEF First

\* A request for an approval is about an agent the message engages.
LEMMA AskFacts ==
  ASSUME asked \in SUBSET (Events \X Agents), NEW e \in Events,
         NEW S \in SUBSET Agents, Ask(e, S)
  PROVE  /\ asked' \in SUBSET (Events \X Agents)
         /\ \A x \in asked' : x \in asked \/
              \E b \in S : /\ x = <<e, b>> /\ Engages(e, b)
                           /\ Policy[Chan[e]] = "request_approval"
                           /\ From[e] \notin Anonymous
<1> DEFINE B == {b \in S : /\ Engages(e, b) /\ ~Allowed(e, b)
                           /\ Policy[Chan[e]] = "request_approval"
                           /\ From[e] \notin Anonymous
                           /\ ~SenderPending(e)}
<1>1. asked' = asked \cup {<<e, b>> : b \in B}
  BY DEF Ask
<1>2. \A b \in B : /\ b \in S /\ b \in Agents /\ Engages(e, b)
                   /\ Policy[Chan[e]] = "request_approval"
                   /\ From[e] \notin Anonymous
  OBVIOUS
<1> HIDE DEF B
<1> QED BY <1>1, <1>2

\* A stretch that nobody is left for, and one that the first taker ends: the
\* fan-out goes on behind it or not, and its row, if it is written, was not there.
Ends(e, left, others) ==
  /\ Ask(e, left) /\ jobs' = others
  /\ sessions' = sessions /\ triggers' = triggers /\ contexts' = contexts

Serves(e, a, left, others) ==
  /\ Taken(e, a) /\ \A b \in left : Taken(e, b) => a <= b
  /\ Ask(e, {b \in left : b < a})
  /\ sessions' = sessions \cup {<<Chan[e], a>>}
  /\ \/ /\ triggers' = triggers /\ contexts' = contexts
        /\ Stopped(e) \/ (Held(e, a) /\ jobs' = others)
        /\ jobs' \in {others, others \cup {<<e, {b \in left : b > a}>>}}
     \/ /\ ~Held(e, a) /\ Insert(e, a)
        /\ jobs' = others \cup {<<e, {b \in left : b > a}>>}

\* One stretch of the fan-out is one of the two.
LEMMA AdvanceCases ==
  ASSUME MessagesAssumption, RouterTypeOK, NEW e \in Events,
         NEW left \in SUBSET Agents, NEW others, Advance(e, left, others)
  PROVE  \/ Ends(e, left, others) /\ \A b \in left : ~Taken(e, b)
         \/ \E a \in left : Serves(e, a, left, others)
<1> DEFINE takers == {a \in left : Taken(e, a)}
           a == First(takers)
<1>1. CASE takers = {}
  BY <1>1 DEF Advance, Ends
<1>2. CASE takers # {}
  <2>1. a \in takers /\ \A b \in takers : a <= b
    BY <1>2, FirstIsLeast
  <2>2. /\ Ask(e, {b \in left : b < a})
        /\ sessions' = sessions \cup {<<Chan[e], a>>}
        /\ \/ e \in Filtered /\ jobs' = others \cup {<<e, {b \in left : b > a}>>}
              /\ UNCHANGED <<triggers, contexts>>
           \/ /\ (e \in AdminCmd /\ From[e] \notin Owners) \/ Held(e, a)
              /\ jobs' = others
              /\ UNCHANGED <<triggers, contexts>>
           \/ /\ ~Held(e, a) /\ Insert(e, a)
              /\ jobs' = others \cup {<<e, {b \in left : b > a}>>}
    BY <1>2 DEF Advance
  <2> HIDE DEF a
  <2>3. a \in left /\ Taken(e, a) /\ \A b \in left : Taken(e, b) => a <= b
    BY <2>1
  <2> QED BY <2>2, <2>3 DEF Stopped, Serves
<1> QED BY <1>1, <1>2

\* The row of a taker is written once.
LEMMA InsertFacts ==
  ASSUME RouterTypeOK, NEW e \in Events, NEW a \in Agents,
         Taken(e, a), ~Held(e, a), Insert(e, a)
  PROVE  /\ triggers' \in [Events \X Agents -> Nat]
         /\ contexts' \in [Events \X Agents -> Nat]
         /\ \A x \in Events \X Agents : x # <<e, a>> =>
              triggers'[x] = triggers[x] /\ contexts'[x] = contexts[x]
         /\ \/ triggers'[<<e, a>>] = 1 /\ contexts'[<<e, a>>] = 0 /\ Wakes(e, a)
            \/ triggers'[<<e, a>>] = 0 /\ contexts'[<<e, a>>] = 1 /\ Accumulates(e, a)
<1> DEFINE x == <<e, a>>
<1>1. /\ triggers \in [Events \X Agents -> Nat]
      /\ contexts \in [Events \X Agents -> Nat]
      /\ x \in Events \X Agents
  BY DEF RouterTypeOK
<1>2. triggers[x] = 0 /\ contexts[x] = 0
  <2>1. ~(triggers[x] + contexts[x] > 0)
    BY DEF Held
  <2> HIDE DEF x
  <2>2. triggers[x] \in Nat /\ contexts[x] \in Nat
    BY <1>1
  <2> QED BY <2>1, <2>2
<1>3. CASE Wakes(e, a)
  <2>1. triggers' = [triggers EXCEPT ![x] = @ + 1] /\ contexts' = contexts
    BY <1>3 DEF Insert
  <2> HIDE DEF x
  <2>2. triggers' \in [Events \X Agents -> Nat] /\ triggers'[x] = 1
        /\ \A y \in Events \X Agents : y # x => triggers'[y] = triggers[y]
    BY <1>1, <1>2, <2>1
  <2> QED BY <1>1, <1>2, <1>3, <2>1, <2>2 DEF x
<1>4. CASE ~Wakes(e, a)
  <2>1. contexts' = [contexts EXCEPT ![x] = @ + 1] /\ triggers' = triggers
    BY <1>4 DEF Insert
  <2>2. Accumulates(e, a)
    BY <1>4 DEF Taken
  <2> HIDE DEF x
  <2>3. contexts' \in [Events \X Agents -> Nat] /\ contexts'[x] = 1
        /\ \A y \in Events \X Agents : y # x => contexts'[y] = contexts[y]
    BY <1>1, <1>2, <2>1
  <2> QED BY <1>1, <1>2, <2>1, <2>2, <2>3 DEF x
<1> QED BY <1>3, <1>4

\* What one stretch changes: nothing is taken back, and no agent gets a
\* second row of the message.
Frame(e, left, others) ==
  /\ sessions' \in SUBSET (Channels \X Agents) /\ sessions \subseteq sessions'
  /\ triggers' \in [Events \X Agents -> Nat]
  /\ contexts' \in [Events \X Agents -> Nat]
  /\ \A x \in Events \X Agents :
       \/ triggers'[x] = triggers[x] /\ contexts'[x] = contexts[x]
       \/ triggers'[x] = 1 /\ contexts'[x] = 0 /\ Wakes(x[1], x[2])
       \/ triggers'[x] = 0 /\ contexts'[x] = 1 /\ Accumulates(x[1], x[2])
  /\ jobs' \in SUBSET (Events \X SUBSET Agents)
  /\ others \subseteq jobs'
  /\ \A j \in jobs' : j \in others \/ (j[1] = e /\ j[2] \subseteq left)
  /\ asked' \in SUBSET (Events \X Agents)
  /\ \A x \in asked' : x \in asked \/
       \E b \in left : /\ x = <<e, b>> /\ Engages(e, b)
                       /\ Policy[Chan[e]] = "request_approval"
                       /\ From[e] \notin Anonymous

\* Advance stays within this frame.
LEMMA AdvanceFacts ==
  ASSUME MessagesAssumption, RouterTypeOK, NEW e \in Events,
         NEW left \in SUBSET Agents, NEW others \in SUBSET jobs,
         Advance(e, left, others)
  PROVE  Frame(e, left, others)
<1> DEFINE Later(a) == {b \in left : b > a}
           Passed(a) == {b \in left : b < a}
<1>1. /\ jobs \in SUBSET (Events \X SUBSET Agents) /\ asked \in SUBSET (Events \X Agents)
      /\ sessions \in SUBSET (Channels \X Agents) /\ Chan[e] \in Channels
      /\ triggers \in [Events \X Agents -> Nat] /\ contexts \in [Events \X Agents -> Nat]
  BY DEF RouterTypeOK, MessagesAssumption
<1>2. /\ \E S \in SUBSET left : Ask(e, S)
      /\ sessions' = sessions \/ \E a \in left : sessions' = sessions \cup {<<Chan[e], a>>}
      /\ jobs' = others \/ \E a \in left : jobs' = others \cup {<<e, Later(a)>>}
      /\ \/ triggers' = triggers /\ contexts' = contexts
         \/ \E a \in left : Taken(e, a) /\ ~Held(e, a) /\ Insert(e, a)
  <2>1. left \in SUBSET left /\ \A a \in left : Passed(a) \in SUBSET left
    OBVIOUS
  <2>2. CASE Ends(e, left, others)
    BY <2>1, <2>2 DEF Ends
  <2>3. CASE \E a \in left : Serves(e, a, left, others)
    <3>1. PICK a \in left : Serves(e, a, left, others)
      BY <2>3
    <3>2. /\ Taken(e, a) /\ Ask(e, Passed(a))
          /\ sessions' = sessions \cup {<<Chan[e], a>>}
          /\ jobs' \in {others, others \cup {<<e, Later(a)>>}}
          /\ \/ triggers' = triggers /\ contexts' = contexts
             \/ ~Held(e, a) /\ Insert(e, a)
      BY <3>1 DEF Serves
    <3> HIDE DEF Later, Passed
    <3> QED BY <2>1, <3>2
  <2> QED BY <2>2, <2>3, AdvanceCases
<1>3. sessions' \in SUBSET (Channels \X Agents) /\ sessions \subseteq sessions'
  BY <1>1, <1>2
<1>4. /\ jobs' \in SUBSET (Events \X SUBSET Agents)
      /\ others \subseteq jobs'
      /\ \A j \in jobs' : j \in others \/ (j[1] = e /\ j[2] \subseteq left)
  <2>1. \A a \in left : Later(a) \in SUBSET left /\ Later(a) \in SUBSET Agents
    OBVIOUS
  <2> HIDE DEF Later
  <2> QED BY <1>1, <1>2, <2>1
<1>5. /\ triggers' \in [Events \X Agents -> Nat]
      /\ contexts' \in [Events \X Agents -> Nat]
      /\ \A x \in Events \X Agents :
           \/ triggers'[x] = triggers[x] /\ contexts'[x] = contexts[x]
           \/ triggers'[x] = 1 /\ contexts'[x] = 0 /\ Wakes(x[1], x[2])
           \/ triggers'[x] = 0 /\ contexts'[x] = 1 /\ Accumulates(x[1], x[2])
  <2>1. CASE triggers' = triggers /\ contexts' = contexts
    BY <1>1, <2>1
  <2>2. ASSUME NEW a \in left, Taken(e, a), ~Held(e, a), Insert(e, a)
        PROVE  /\ triggers' \in [Events \X Agents -> Nat]
               /\ contexts' \in [Events \X Agents -> Nat]
               /\ \A x \in Events \X Agents :
                    \/ triggers'[x] = triggers[x] /\ contexts'[x] = contexts[x]
                    \/ triggers'[x] = 1 /\ contexts'[x] = 0 /\ Wakes(x[1], x[2])
                    \/ triggers'[x] = 0 /\ contexts'[x] = 1 /\ Accumulates(x[1], x[2])
    <3>1. /\ triggers' \in [Events \X Agents -> Nat]
          /\ contexts' \in [Events \X Agents -> Nat]
          /\ \A x \in Events \X Agents : x # <<e, a>> =>
               triggers'[x] = triggers[x] /\ contexts'[x] = contexts[x]
          /\ \/ triggers'[<<e, a>>] = 1 /\ contexts'[<<e, a>>] = 0 /\ Wakes(e, a)
             \/ triggers'[<<e, a>>] = 0 /\ contexts'[<<e, a>>] = 1 /\ Accumulates(e, a)
      BY <2>2, InsertFacts
    <3> SUFFICES ASSUME NEW x \in Events \X Agents
                 PROVE  \/ triggers'[x] = triggers[x] /\ contexts'[x] = contexts[x]
                        \/ triggers'[x] = 1 /\ contexts'[x] = 0 /\ Wakes(x[1], x[2])
                        \/ triggers'[x] = 0 /\ contexts'[x] = 1 /\ Accumulates(x[1], x[2])
      BY <3>1
    <3>2. CASE x = <<e, a>>
      <4>1. x[1] = e /\ x[2] = a
        BY <3>2
      <4> QED BY <3>1, <3>2, <4>1
    <3> QED BY <3>1, <3>2
  <2> QED BY <1>2, <2>1, <2>2
<1>6. /\ asked' \in SUBSET (Events \X Agents)
      /\ \A x \in asked' : x \in asked \/
           \E b \in left : /\ x = <<e, b>> /\ Engages(e, b)
                           /\ Policy[Chan[e]] = "request_approval"
                           /\ From[e] \notin Anonymous
  <2>1. PICK S \in SUBSET left : Ask(e, S)
    BY <1>2
  <2> QED BY <1>1, <2>1, AskFacts
<1> QED BY <1>3, <1>4, <1>5, <1>6 DEF Frame

\* A stretch never skips an agent the message wakes: it is still to come, has
\* the message, or an agent before it has ended the routing.
LEMMA AdvanceServes ==
  ASSUME MessagesAssumption, RouterTypeOK, NEW e \in Events,
         NEW left \in SUBSET Agents, NEW others \in SUBSET jobs,
         Advance(e, left, others), NEW x \in left, Wakes(e, x)
  PROVE  \/ Stopped(e)
         \/ \E j \in jobs' : j[1] = e /\ x \in j[2]
         \/ \E b \in Agents : b <= x /\ Held(e, b)'
<1>1. Taken(e, x)
  BY DEF Taken
<1> SUFFICES ASSUME ~Stopped(e)
             PROVE  \/ \E j \in jobs' : j[1] = e /\ x \in j[2]
                    \/ \E b \in Agents : b <= x /\ Held(e, b)'
  OBVIOUS
<1>2. PICK a \in left :
        /\ Taken(e, a) /\ a <= x
        /\ \/ triggers' = triggers /\ contexts' = contexts /\ Held(e, a)
           \/ /\ ~Held(e, a) /\ Insert(e, a)
              /\ jobs' = others \cup {<<e, {b \in left : b > a}>>}
  <2>1. PICK a \in left : Serves(e, a, left, others)
    BY <1>1, AdvanceCases
  <2> QED BY <1>1, <2>1 DEF Serves
<1>3. a \in Agents /\ a \in Nat /\ x \in Nat
  BY DEF MessagesAssumption
<1>4. CASE triggers' = triggers /\ contexts' = contexts /\ Held(e, a)
  <2>1. Held(e, a)'
    BY <1>3, <1>4 DEF Held
  <2> QED BY <1>2, <1>3, <2>1
<1>5. CASE /\ ~Held(e, a) /\ Insert(e, a)
           /\ jobs' = others \cup {<<e, {b \in left : b > a}>>}
  <2>1. CASE a = x
    <3>1. Held(e, x)'
      BY <1>2, <1>3, <1>5, <2>1, InsertFacts DEF Held
    <3> QED BY <1>3, <2>1, <3>1
  <2>2. CASE a # x
    <3> DEFINE j == <<e, {b \in left : b > a}>>
    <3>1. x \in {b \in left : b > a}
      BY <1>2, <1>3, <2>2
    <3>2. j \in jobs' /\ j[1] = e /\ x \in j[2]
      BY <1>5, <3>1
    <3> QED BY <3>2
  <2> QED BY <2>1, <2>2
<1> QED BY <1>2, <1>4, <1>5

(***************************************************************************)
(* What every step keeps of the routed messages and of the approvals.       *)
(***************************************************************************)
\* Sessions and members are only added: a gate once passed is passed again.
LEMMA GatesGrow ==
  ASSUME sessions \subseteq sessions', member \subseteq member',
         NEW e \in Events, NEW a \in Agents
  PROVE  /\ Engages(e, a) => Engages(e, a)'
         /\ Wakes(e, a) => Wakes(e, a)'
  BY DEF Engages, Wakes, Allowed, InScope, Access

\* Rows stay as trusted and as rare as they were.
LEMMA RowsKept ==
  ASSUME RoutedOnce, OnlyTrusted, RefusedNotStored,
         triggers' = triggers, contexts' = contexts, member \subseteq member'
  PROVE  RoutedOnce' /\ OnlyTrusted' /\ RefusedNotStored'
  BY DEF RoutedOnce, OnlyTrusted, RefusedNotStored

\* An approval keeps its way to the agent while the routing goes on.
LEMMA ApprovalsKept ==
  ASSUME TypeOK, ApprovedInv, approved' \subseteq approved,
         triggers' = triggers, contexts' = contexts,
         sessions \subseteq sessions', member \subseteq member', wired \subseteq wired',
         routing \subseteq routing', jobs' = jobs
  PROVE  ApprovedInv'
<1> SUFFICES ASSUME NEW x \in approved
             PROVE  <<Chan[x[1]], x[2]>> \in wired /\ Wakes(x[1], x[2])' /\ Served(x[1], x[2])'
  BY DEF ApprovedInv
<1>1. x[1] \in Events /\ x[2] \in Agents
  BY DEF TypeOK
<1>2. Wakes(x[1], x[2])'
  BY <1>1, GatesGrow DEF ApprovedInv
<1>3. Served(x[1], x[2])'
  BY DEF ApprovedInv, Served, Held, Stopped
<1> QED BY <1>2, <1>3 DEF ApprovedInv

\* So do requests and cards.
LEMMA AskedKept ==
  ASSUME TypeOK, AskedInv, wired \subseteq wired', sessions \subseteq sessions',
         member \subseteq member',
         asked' \subseteq asked, askedChannels' \subseteq askedChannels,
         \A p \in senderCards' : \E q \in senderCards : p.event = q.event /\ p.agent = q.agent,
         \A p \in channelCards' : \E q \in channelCards : p.event = q.event
  PROVE  AskedInv'
<1>1. \A e \in Events, a \in Agents : Asking(e, a) => Asking(e, a)'
  BY GatesGrow DEF Asking
<1>2. /\ \A x \in asked : x[1] \in Events /\ x[2] \in Agents
      /\ \A p \in senderCards : p.event \in Events /\ p.agent \in Agents
  BY DEF TypeOK, RouterTypeOK
<1>3. \A x \in asked' : Asking(x[1], x[2])'
  BY <1>1, <1>2 DEF AskedInv
<1>4. \A p \in senderCards' : Asking(p.event, p.agent)'
  BY <1>1, <1>2 DEF AskedInv
<1>5. /\ \A e \in askedChannels' : e \in Mentions /\ NewChannel(Chan[e])
      /\ \A p \in channelCards' : p.event \in Mentions /\ NewChannel(Chan[p.event])
  BY DEF AskedInv
<1> QED BY <1>3, <1>4, <1>5 DEF AskedInv, NewChannel

(***************************************************************************)
(* The router's steps.                                                     *)
(***************************************************************************)
\* A stretch of the fan-out of e in its setting: left are wired agents, others
\* the jobs that are not its own.
Stretch(e, left, others) ==
  /\ Advance(e, left, others)
  /\ \A b \in left : <<Chan[e], b>> \in wired
  /\ \A j \in jobs : j \in others \/ j = <<e, left>>
  /\ \/ routing' = routing
     \/ routing' = routing \ {e} /\ left = AgentsOf(Chan[e])
  /\ UNCHANGED <<arrived, grantVars, askedChannels, cardVars, ownVars>>

\* A stretch writes rows the gates allow, and none twice.
LEMMA StretchRows ==
  ASSUME MessagesAssumption, WiringsAssumption, RoutingInv, NEW e \in Events,
         NEW left \in SUBSET Agents, NEW others \in SUBSET jobs,
         Stretch(e, left, others)
  PROVE  RoutedOnce' /\ OnlyTrusted' /\ RefusedNotStored'
<1>1. \A x \in Events \X Agents :
        \/ triggers'[x] = triggers[x] /\ contexts'[x] = contexts[x]
        \/ triggers'[x] = 1 /\ contexts'[x] = 0 /\ Wakes(x[1], x[2])
        \/ triggers'[x] = 0 /\ contexts'[x] = 1 /\ Accumulates(x[1], x[2])
  BY AdvanceFacts DEF Stretch, RoutingInv, TypeOK, Frame
<1>2. member' = member
  BY DEF Stretch, grantVars
<1>3. RoutedOnce'
  BY <1>1 DEF RoutingInv, RoutedOnce
<1>4. OnlyTrusted'
  <2> SUFFICES ASSUME NEW f \in Events, NEW a \in Agents, triggers'[<<f, a>>] > 0
               PROVE  \/ From[f] \in Owners \/ <<From[f], a>> \in member
                      \/ (Policy[Chan[f]] = "public" /\ Chan[f] \in Open)
    BY <1>2 DEF OnlyTrusted
  <2>1. triggers[<<f, a>>] > 0 \/ Wakes(f, a)
    BY <1>1
  <2> QED BY <2>1 DEF RoutingInv, OnlyTrusted, Wakes, Allowed, InScope, Access
<1>5. RefusedNotStored'
  <2> SUFFICES ASSUME NEW f \in Events, NEW a \in Agents, contexts'[<<f, a>>] > 0
               PROVE  /\ Mode[Chan[f]] = "pattern" => f \notin Matches
                      /\ Mode[Chan[f]] # "pattern" => f \notin Mentions
    BY DEF RefusedNotStored
  <2>1. contexts[<<f, a>>] > 0 \/ Accumulates(f, a)
    BY <1>1
  <2>2. Mode[Chan[f]] \in {"pattern", "mention", "mention-sticky"}
    BY DEF MessagesAssumption, WiringsAssumption
  <2> QED BY <2>1, <2>2 DEF RoutingInv, RefusedNotStored, Accumulates, Engages
<1> QED BY <1>3, <1>4, <1>5

\* A stretch serves what was approved.
LEMMA StretchApprovals ==
  ASSUME MessagesAssumption, RoutingInv, NEW e \in Events,
         NEW left \in SUBSET Agents, NEW others \in SUBSET jobs,
         Stretch(e, left, others)
  PROVE  ApprovedInv'
<1>1. /\ approved' = approved /\ wired' = wired /\ member' = member
      /\ RouterTypeOK /\ Advance(e, left, others)
  BY DEF Stretch, grantVars, ownVars, RoutingInv, TypeOK
<1>2. /\ sessions \subseteq sessions' /\ others \subseteq jobs'
      /\ \A x \in Events \X Agents :
           \/ triggers'[x] = triggers[x] /\ contexts'[x] = contexts[x]
           \/ triggers'[x] + contexts'[x] = 1
  <2>1. /\ sessions \subseteq sessions' /\ others \subseteq jobs'
        /\ \A x \in Events \X Agents :
             \/ triggers'[x] = triggers[x] /\ contexts'[x] = contexts[x]
             \/ triggers'[x] = 1 /\ contexts'[x] = 0 /\ Wakes(x[1], x[2])
             \/ triggers'[x] = 0 /\ contexts'[x] = 1 /\ Accumulates(x[1], x[2])
    BY <1>1, AdvanceFacts DEF Frame
  <2> QED BY <2>1
<1> SUFFICES ASSUME NEW x \in approved
             PROVE  <<Chan[x[1]], x[2]>> \in wired /\ Wakes(x[1], x[2])' /\ Served(x[1], x[2])'
  BY <1>1 DEF ApprovedInv
<1>3. /\ x[1] \in Events /\ x[2] \in Agents
      /\ <<Chan[x[1]], x[2]>> \in wired /\ Wakes(x[1], x[2]) /\ Served(x[1], x[2])
  BY DEF RoutingInv, TypeOK, ApprovedInv
<1>4. Wakes(x[1], x[2])'
  BY <1>1, <1>2, <1>3, GatesGrow
<1> SUFFICES Served(x[1], x[2])'
  BY <1>3, <1>4
<1>5. CASE Stopped(x[1])
  BY <1>5 DEF Served, Stopped
<1>6. CASE x[1] = e /\ x[2] \in left
  <2>1. \/ Stopped(e)
        \/ \E j \in jobs' : j[1] = e /\ x[2] \in j[2]
        \/ \E b \in Agents : b <= x[2] /\ Held(e, b)'
    BY <1>1, <1>3, <1>6, AdvanceServes
  <2> QED BY <1>6, <2>1 DEF Served, Stopped
<1>7. CASE x[1] \in routing /\ ~(x[1] = e /\ x[2] \in left)
  <2>1. x[1] \in routing'
    BY <1>3, <1>7 DEF Stretch, AgentsOf
  <2> QED BY <2>1 DEF Served
<1>8. CASE (\E j \in jobs : j[1] = x[1] /\ x[2] \in j[2]) /\ ~(x[1] = e /\ x[2] \in left)
  <2>1. PICK j \in jobs : j[1] = x[1] /\ x[2] \in j[2]
    BY <1>8
  <2>2. j \in others
    BY <1>8, <2>1 DEF Stretch
  <2> QED BY <1>2, <2>1, <2>2 DEF Served
<1>9. CASE \E b \in Agents : b <= x[2] /\ Held(x[1], b)
  <2>1. PICK b \in Agents : b <= x[2] /\ Held(x[1], b)
    BY <1>9
  <2>2. Held(x[1], b)'
    BY <1>2, <1>3, <2>1 DEF Held
  <2> QED BY <2>1, <2>2 DEF Served
<1> QED BY <1>3, <1>4, <1>5, <1>6, <1>7, <1>8, <1>9 DEF Served

\* Every part of the invariant survives a stretch.
LEMMA StretchInv ==
  ASSUME MessagesAssumption, WiringsAssumption, RoutingInv, NEW e \in Events,
         NEW left \in SUBSET Agents, NEW others \in SUBSET jobs,
         Stretch(e, left, others)
  PROVE  RoutingInv'
<1>0. RouterTypeOK /\ Advance(e, left, others)
  BY DEF Stretch, RoutingInv, TypeOK
<1>10. Frame(e, left, others)
  BY <1>0, AdvanceFacts
<1>1. /\ RouterTypeOK
      /\ denied' = denied /\ wired' = wired /\ member' = member
      /\ askedChannels' = askedChannels
      /\ senderCards' = senderCards /\ channelCards' = channelCards
      /\ groups' = groups /\ naming' = naming /\ approved' = approved /\ faults' = faults
      /\ routing' \subseteq routing
  BY DEF Stretch, grantVars, cardVars, ownVars, RoutingInv, TypeOK
<1>2. /\ sessions' \in SUBSET (Channels \X Agents) /\ sessions \subseteq sessions'
      /\ triggers' \in [Events \X Agents -> Nat]
      /\ contexts' \in [Events \X Agents -> Nat]
      /\ jobs' \in SUBSET (Events \X SUBSET Agents)
      /\ \A j \in jobs' : j \in others \/ (j[1] = e /\ j[2] \subseteq left)
      /\ asked' \in SUBSET (Events \X Agents)
  BY <1>10 DEF Frame
<1>3. \A x \in asked' : x \in asked \/
        \E b \in left : /\ x = <<e, b>> /\ Engages(e, b)
                        /\ Policy[Chan[e]] = "request_approval"
                        /\ From[e] \notin Anonymous
  BY <1>10 DEF Frame
<1>4. arrived' = arrived
  BY DEF Stretch
<1>5. TypeOK'
  BY <1>1, <1>2, <1>4 DEF RoutingInv, TypeOK, RouterTypeOK
<1>6. OneCard' /\ NamedRowWaits'
  BY <1>1 DEF RoutingInv, OneCard, NamedRowWaits
<1>7. WiredInv'
  BY <1>1, <1>2 DEF RoutingInv, WiredInv, Stretch
<1>8. AskedInv'
  <2>1. \A f \in Events, a \in Agents : Engages(f, a) => Engages(f, a)'
    BY <1>1, <1>2, GatesGrow
  <2>2. \A x \in asked' : Asking(x[1], x[2])'
    <3> SUFFICES ASSUME NEW x \in asked' PROVE Asking(x[1], x[2])'
      OBVIOUS
    <3>1. CASE x \in asked
      <4>1. x[1] \in Events /\ x[2] \in Agents /\ Asking(x[1], x[2])
        BY <1>1, <3>1 DEF RouterTypeOK, RoutingInv, AskedInv
      <4> QED BY <1>1, <2>1, <4>1 DEF Asking
    <3>2. ASSUME NEW b \in left, x = <<e, b>>, Engages(e, b),
                 Policy[Chan[e]] = "request_approval", From[e] \notin Anonymous
          PROVE  Asking(x[1], x[2])'
      <4>1. x[1] = e /\ x[2] = b /\ b \in Agents /\ <<Chan[e], b>> \in wired
        BY <3>2 DEF Stretch
      <4> QED BY <1>1, <2>1, <3>2, <4>1 DEF Asking
    <3> QED BY <1>3, <3>1, <3>2
  <2>3. \A p \in senderCards' : Asking(p.event, p.agent)'
    <3> SUFFICES ASSUME NEW p \in senderCards PROVE Asking(p.event, p.agent)'
      BY <1>1
    <3>1. p.event \in Events /\ p.agent \in Agents /\ Asking(p.event, p.agent)
      BY <1>1 DEF RouterTypeOK, RoutingInv, AskedInv
    <3> QED BY <1>1, <2>1, <3>1 DEF Asking
  <2> QED BY <1>1, <2>2, <2>3 DEF RoutingInv, AskedInv, NewChannel
<1> QED BY <1>5, <1>6, <1>7, <1>8, StretchRows, StretchApprovals DEF RoutingInv

\* Messages arrive, are escalated or fan out.
LEMMA RouterInv ==
  ASSUME MessagesAssumption, WiringsAssumption, RoutingInv, RouterStep
  PROVE  RoutingInv'
<1> USE DEF fanVars, grantVars, cardVars, ownVars
<1>1. ASSUME NEW e \in Events, Arrive(e), UNCHANGED ownVars PROVE RoutingInv'
  <2>1. TypeOK'
    BY <1>1 DEF RoutingInv, TypeOK, RouterTypeOK, Arrive
  <2>2. RoutedOnce' /\ OnlyTrusted' /\ RefusedNotStored'
    BY <1>1, RowsKept DEF RoutingInv, Arrive
  <2>3. OneCard' /\ NamedRowWaits' /\ WiredInv'
    BY <1>1 DEF RoutingInv, Arrive, OneCard, NamedRowWaits, WiredInv
  <2>4. AskedInv'
    BY <1>1, AskedKept DEF RoutingInv, Arrive
  <2>5. ApprovedInv'
    BY <1>1, ApprovalsKept DEF RoutingInv, Arrive
  <2> QED BY <2>1, <2>2, <2>3, <2>4, <2>5 DEF RoutingInv
<1>2. ASSUME NEW e \in Events, Route(e), UNCHANGED ownVars PROVE RoutingInv'
  <2>1. CASE AgentsOf(Chan[e]) # {}
    <3>1. Stretch(e, AgentsOf(Chan[e]), jobs)
      BY <1>2, <2>1 DEF Route, Stretch, AgentsOf
    <3>2. AgentsOf(Chan[e]) \in SUBSET Agents /\ jobs \in SUBSET jobs
      BY DEF AgentsOf
    <3> QED BY <3>1, <3>2, StretchInv
  <2>2. CASE AgentsOf(Chan[e]) = {}
    <3>0. /\ UNCHANGED <<sessions, triggers, contexts, jobs, asked>>
          /\ UNCHANGED <<denied, wired, member, arrived, senderCards, channelCards>>
          /\ UNCHANGED <<groups, naming, approved, faults>>
          /\ routing' = routing \ {e} /\ e \in routing
          /\ askedChannels' \subseteq askedChannels \cup {e}
          /\ e \in askedChannels' => e \in askedChannels \/ e \in Mentions
      BY <1>2, <2>2 DEF Route
    <3>1. TypeOK'
      BY <3>0 DEF RoutingInv, TypeOK, RouterTypeOK
    <3>2. RoutedOnce' /\ OnlyTrusted' /\ RefusedNotStored'
      BY <3>0, RowsKept DEF RoutingInv
    <3>3. OneCard' /\ NamedRowWaits' /\ WiredInv'
      BY <3>0 DEF RoutingInv, OneCard, NamedRowWaits, WiredInv
    <3>4. NewChannel(Chan[e])
      BY <2>2 DEF RoutingInv, WiredInv, NewChannel, AgentsOf
    <3>5. AskedInv'
      BY <3>0, <3>4 DEF RoutingInv, AskedInv, Asking, Engages, NewChannel
    <3>6. ApprovedInv'
      <4>1. \A x \in approved : x[1] # e
        BY <2>2 DEF RoutingInv, TypeOK, ApprovedInv, AgentsOf
      <4> QED BY <3>0, <4>1 DEF RoutingInv, ApprovedInv, Wakes, Engages, Allowed,
                                InScope, Access, Served, Held
    <3> QED BY <3>1, <3>2, <3>3, <3>5, <3>6 DEF RoutingInv
  <2> QED BY <2>1, <2>2
<1>3. ASSUME NEW j \in jobs, Continue(j), UNCHANGED ownVars PROVE RoutingInv'
  <2>1. j[1] \in Events /\ j[2] \in SUBSET Agents /\ j = <<j[1], j[2]>>
    BY DEF RoutingInv, TypeOK, RouterTypeOK
  <2>2. Stretch(j[1], j[2], jobs \ {j})
    BY <1>3, <2>1 DEF Continue, Stretch, RoutingInv, WiredInv
  <2>3. jobs \ {j} \in SUBSET jobs
    OBVIOUS
  <2> QED BY <2>1, <2>2, <2>3, StretchInv
<1> QED BY <1>1, <1>2, <1>3 DEF RouterStep

(***************************************************************************)
(* The steps of the cards.                                                 *)
(***************************************************************************)
\* The steps of a sender's card.
LEMMA SenderCardInv ==
  ASSUME MessagesAssumption, RoutingInv, SenderCardStep
  PROVE  RoutingInv'
<1> USE DEF fanVars, grantVars, cardVars, ownVars, routerVars, askVars
<1>1. ASSUME NEW e \in Events, NEW a \in Agents, CreateSenderCard(e, a) PROVE RoutingInv'
  <2>1. TypeOK'
    BY <1>1 DEF RoutingInv, TypeOK, RouterTypeOK, CreateSenderCard, Card
  <2>2. RoutedOnce' /\ OnlyTrusted' /\ RefusedNotStored'
    BY <1>1, RowsKept DEF RoutingInv, CreateSenderCard
  <2>3. OneCard'
    BY <1>1 DEF RoutingInv, CreateSenderCard, OneCard, SenderPending
  <2>4. NamedRowWaits' /\ WiredInv'
    BY <1>1 DEF RoutingInv, CreateSenderCard, NamedRowWaits, WiredInv
  <2>5. AskedInv'
    <3>1. Asking(e, a)
      BY <1>1 DEF RoutingInv, AskedInv, CreateSenderCard
    <3> QED BY <1>1, <3>1 DEF RoutingInv, AskedInv, CreateSenderCard, Asking, Engages, NewChannel
  <2>6. ApprovedInv'
    BY <1>1, ApprovalsKept DEF RoutingInv, CreateSenderCard
  <2> QED BY <2>1, <2>2, <2>3, <2>4, <2>5, <2>6 DEF RoutingInv
<1>2. ASSUME NEW p \in senderCards, NEW v \in Card, SetSenderCard(p, v),
             UNCHANGED <<routerVars, askVars, channelCards, groups, naming, approved>>,
             faults' \in {faults, faults + 1}
      PROVE  RoutingInv'
  <2>0. /\ p \in [event : Events, agent : Agents, card : Card]
        /\ senderCards' = (senderCards \ {p}) \cup
             {[event |-> p.event, agent |-> p.agent, card |-> v]}
    BY <1>2 DEF RoutingInv, TypeOK, RouterTypeOK, SetSenderCard
  <2>1. TypeOK'
    BY <1>2, <2>0 DEF RoutingInv, TypeOK, RouterTypeOK
  <2>2. RoutedOnce' /\ OnlyTrusted' /\ RefusedNotStored'
    BY <1>2, RowsKept DEF RoutingInv
  <2>3. OneCard'
    BY <1>2, <2>0 DEF RoutingInv, OneCard
  <2>4. NamedRowWaits' /\ WiredInv'
    BY <1>2 DEF RoutingInv, NamedRowWaits, WiredInv
  <2>5. AskedInv'
    BY <1>2, <2>0, AskedKept DEF RoutingInv
  <2>6. ApprovedInv'
    BY <1>2, ApprovalsKept DEF RoutingInv
  <2> QED BY <2>1, <2>2, <2>3, <2>4, <2>5, <2>6 DEF RoutingInv
<1>3. ASSUME NEW p \in senderCards, ApproveSender(p) PROVE RoutingInv'
  <2>0. /\ p.event \in Events /\ p.agent \in Agents /\ From[p.event] \in Senders
        /\ member \subseteq member' /\ <<From[p.event], p.agent>> \in member'
        /\ routing' = routing \cup {p.event}
        /\ senderCards' = senderCards \ {p}
        /\ approved' = approved \cup {<<p.event, p.agent>>}
        /\ UNCHANGED <<denied, wired, fanVars, arrived, askedChannels, channelCards,
                       groups, naming, faults>>
    BY <1>3 DEF RoutingInv, TypeOK, RouterTypeOK, MessagesAssumption, ApproveSender
  <2>1. TypeOK'
    BY <1>3, <2>0 DEF RoutingInv, TypeOK, RouterTypeOK, ApproveSender
  <2>2. RoutedOnce' /\ OnlyTrusted' /\ RefusedNotStored'
    BY <2>0, RowsKept DEF RoutingInv
  <2>3. OneCard' /\ NamedRowWaits' /\ WiredInv'
    BY <2>0 DEF RoutingInv, OneCard, NamedRowWaits, WiredInv
  <2>4. AskedInv'
    BY <2>0, AskedKept DEF RoutingInv
  <2>5. ApprovedInv'
    <3>1. /\ <<Chan[p.event], p.agent>> \in wired
          /\ Wakes(p.event, p.agent)' /\ Served(p.event, p.agent)'
      BY <2>0 DEF RoutingInv, AskedInv, Asking, Wakes, Allowed, InScope, Access, Engages, Served
    <3>2. \A x \in approved : Wakes(x[1], x[2])' /\ Served(x[1], x[2])'
      <4>1. \A x \in approved : /\ x[1] \in Events /\ x[2] \in Agents
                                /\ Wakes(x[1], x[2]) /\ Served(x[1], x[2])
        BY DEF RoutingInv, TypeOK, ApprovedInv
      <4>2. \A x \in approved : Wakes(x[1], x[2])'
        BY <2>0, <4>1, GatesGrow
      <4>3. \A x \in approved : Served(x[1], x[2])'
        BY <2>0, <4>1 DEF Served, Held, Stopped
      <4> QED BY <4>2, <4>3
    <3> QED BY <2>0, <3>1, <3>2 DEF RoutingInv, ApprovedInv
  <2> QED BY <2>1, <2>2, <2>3, <2>4, <2>5 DEF RoutingInv
<1>4. ASSUME NEW p \in senderCards, DenySender(p) PROVE RoutingInv'
  <2>1. TypeOK'
    BY <1>4 DEF RoutingInv, TypeOK, RouterTypeOK, DenySender
  <2>2. RoutedOnce' /\ OnlyTrusted' /\ RefusedNotStored'
    BY <1>4, RowsKept DEF RoutingInv, DenySender
  <2>3. OneCard' /\ NamedRowWaits' /\ WiredInv'
    BY <1>4 DEF RoutingInv, DenySender, OneCard, NamedRowWaits, WiredInv
  <2>4. AskedInv'
    BY <1>4, AskedKept DEF RoutingInv, DenySender
  <2>5. ApprovedInv'
    BY <1>4, ApprovalsKept DEF RoutingInv, DenySender
  <2> QED BY <2>1, <2>2, <2>3, <2>4, <2>5 DEF RoutingInv
<1>5. ASSUME NEW p \in senderCards, SenderCardShown(p) PROVE RoutingInv'
  BY <1>2, <1>5 DEF SenderCardShown, Card
<1>6. ASSUME NEW p \in senderCards, SenderCardWasted(p) PROVE RoutingInv'
  BY <1>2, <1>6 DEF SenderCardWasted, Card, Fault
<1> QED BY <1>1, <1>3, <1>4, <1>5, <1>6 DEF SenderCardStep

\* The state of a channel's card changes; it was not spent before.
LEMMA ChannelCardSet ==
  ASSUME RoutingInv, NEW p \in channelCards, p.card # "spent", NEW v \in Card,
         NEW o \in SUBSET Agents, SetChannelCard(p, v, o),
         UNCHANGED <<routerVars, askVars, senderCards, groups, approved>>,
         faults' \in {faults, faults + 1},
         \/ naming' = naming
         \/ naming' = {Chan[p.event]} /\ v = "spent" /\ Chan[p.event] \in Channels
  PROVE  RoutingInv'
<1> USE DEF fanVars, grantVars, routerVars, askVars
<1>0. /\ p \in [event : Events, card : Card, offer : SUBSET Agents]
      /\ channelCards' = (channelCards \ {p}) \cup {[event |-> p.event, card |-> v, offer |-> o]}
  BY DEF RoutingInv, TypeOK, RouterTypeOK, SetChannelCard
<1>1. TypeOK'
  BY <1>0 DEF RoutingInv, TypeOK, RouterTypeOK
<1>2. RoutedOnce' /\ OnlyTrusted' /\ RefusedNotStored'
  BY RowsKept DEF RoutingInv
<1>3. OneCard'
  BY <1>0 DEF RoutingInv, OneCard
<1>4. NamedRowWaits'
  <2> DEFINE q == [event |-> p.event, card |-> v, offer |-> o]
  <2>1. q \in channelCards' /\ q.event = p.event /\ q.card = v
    BY <1>0
  <2>2. \A r \in channelCards : r.card = "spent" => r \in channelCards'
    BY <1>0
  <2> QED BY <2>1, <2>2 DEF RoutingInv, NamedRowWaits
<1>5. WiredInv'
  BY DEF RoutingInv, WiredInv
<1>6. AskedInv'
  BY <1>0, AskedKept DEF RoutingInv
<1>7. ApprovedInv'
  BY ApprovalsKept DEF RoutingInv
<1> QED BY <1>1, <1>2, <1>3, <1>4, <1>5, <1>6, <1>7 DEF RoutingInv

\* A channel is wired and its message replayed: the wiring lets it pass.
LEMMA WiredApproval ==
  ASSUME MessagesAssumption, WiringsAssumption, NewChannelAssumption, RoutingInv,
         NEW p \in channelCards, NEW a \in Agents, WireAndReplay(p, a),
         UNCHANGED <<denied, fanVars, arrived, askedChannels, senderCards, faults>>,
         groups' \in SUBSET Agents,
         naming' = {} \/ (naming' = naming /\ p.card # "spent")
  PROVE  RoutingInv'
<1> USE DEF fanVars
<1>0. /\ p.event \in Events /\ Chan[p.event] \in Channels /\ From[p.event] \in Senders
      /\ wired' = wired \cup {<<Chan[p.event], a>>}
      /\ member' \in SUBSET (Senders \X Agents) /\ member \subseteq member'
      /\ From[p.event] \notin Anonymous => <<From[p.event], a>> \in member'
      /\ channelCards' = channelCards \ {p}
      /\ routing' = routing \cup {p.event}
      /\ \/ approved' = approved
         \/ From[p.event] \notin Anonymous /\ approved' = approved \cup {<<p.event, a>>}
  BY DEF RoutingInv, TypeOK, RouterTypeOK, MessagesAssumption, WireAndReplay
<1>1. TypeOK'
  BY <1>0 DEF RoutingInv, TypeOK, RouterTypeOK
<1>2. RoutedOnce' /\ OnlyTrusted' /\ RefusedNotStored'
  BY <1>0, RowsKept DEF RoutingInv
<1>3. OneCard' /\ NamedRowWaits' /\ WiredInv'
  BY <1>0 DEF RoutingInv, OneCard, NamedRowWaits, WiredInv
<1>4. AskedInv'
  BY <1>0, AskedKept DEF RoutingInv
<1>5. \A x \in approved : /\ <<Chan[x[1]], x[2]>> \in wired'
                          /\ Wakes(x[1], x[2])' /\ Served(x[1], x[2])'
  <2>1. \A x \in approved : /\ x[1] \in Events /\ x[2] \in Agents
                            /\ <<Chan[x[1]], x[2]>> \in wired
                            /\ Wakes(x[1], x[2]) /\ Served(x[1], x[2])
    BY DEF RoutingInv, TypeOK, ApprovedInv
  <2>2. \A x \in approved : Wakes(x[1], x[2])'
    BY <1>0, <2>1, GatesGrow
  <2>3. \A x \in approved : Served(x[1], x[2])'
    BY <1>0, <2>1 DEF Served, Held, Stopped
  <2> QED BY <1>0, <2>1, <2>2, <2>3
<1>6. From[p.event] \notin Anonymous =>
        /\ <<Chan[p.event], a>> \in wired'
        /\ Wakes(p.event, a)' /\ Served(p.event, a)'
  <2>1. p.event \in Mentions /\ NewChannel(Chan[p.event])
    BY DEF RoutingInv, AskedInv
  <2>2. /\ Mode[Chan[p.event]] \in {"pattern", "mention-sticky"}
        /\ Mode[Chan[p.event]] = "pattern" => p.event \in Matches
    BY <1>0, <2>1 DEF WiringsAssumption, NewChannelAssumption
  <2>3. Engages(p.event, a)'
    BY <2>1, <2>2 DEF Engages
  <2> QED BY <1>0, <2>3 DEF Wakes, Allowed, InScope, Access, Served
<1>7. ApprovedInv'
  BY <1>0, <1>5, <1>6 DEF ApprovedInv
<1> QED BY <1>1, <1>2, <1>3, <1>4, <1>7 DEF RoutingInv

\* The steps of a channel's card, and the reply that names an agent.
LEMMA ChannelCardInv ==
  ASSUME MessagesAssumption, WiringsAssumption, NewChannelAssumption, RoutingInv,
         ChannelCardStep
  PROVE  RoutingInv'
<1> USE DEF fanVars, grantVars, cardVars, ownVars, routerVars, askVars
<1>0. \A p \in channelCards :
        /\ p.event \in Events /\ Chan[p.event] \in Channels
        /\ p.offer \in SUBSET Agents /\ groups \in SUBSET Agents
        /\ {"sending", "shown", "spent"} = Card
  BY DEF RoutingInv, TypeOK, RouterTypeOK, MessagesAssumption, Card
<1>1. ASSUME NEW e \in Events, CreateChannelCard(e) PROVE RoutingInv'
  <2>0. /\ \/ channelCards' = channelCards
           \/ /\ ~ChannelPending(Chan[e])
              /\ \E o \in SUBSET Agents : channelCards' = channelCards \cup
                   {[event |-> e, card |-> "sending", offer |-> o]}
        /\ e \in askedChannels /\ askedChannels' \subseteq askedChannels
        /\ UNCHANGED <<routerVars, asked, senderCards, ownVars>>
    BY <1>1 DEF CreateChannelCard, RoutingInv, TypeOK
  <2>1. TypeOK'
    <3>1. channelCards' \in SUBSET [event : Events, card : Card, offer : SUBSET Agents]
      <4>1. channelCards \in SUBSET [event : Events, card : Card, offer : SUBSET Agents]
        BY DEF RoutingInv, TypeOK, RouterTypeOK
      <4>2. \A o \in SUBSET Agents : [event |-> e, card |-> "sending", offer |-> o]
                                     \in [event : Events, card : Card, offer : SUBSET Agents]
        BY DEF Card
      <4> QED BY <2>0, <4>1, <4>2
    <3> QED BY <2>0, <3>1 DEF RoutingInv, TypeOK, RouterTypeOK
  <2>2. RoutedOnce' /\ OnlyTrusted' /\ RefusedNotStored'
    BY <2>0, RowsKept DEF RoutingInv
  <2>3. OneCard'
    BY <2>0 DEF RoutingInv, OneCard, ChannelPending
  <2>4. NamedRowWaits' /\ WiredInv'
    BY <2>0 DEF RoutingInv, NamedRowWaits, WiredInv
  <2>5. AskedInv'
    <3>1. e \in Mentions /\ NewChannel(Chan[e])
      BY <2>0 DEF RoutingInv, AskedInv
    <3> QED BY <2>0, <3>1 DEF RoutingInv, AskedInv, Asking, Engages, NewChannel
  <2>6. ApprovedInv'
    BY <2>0, ApprovalsKept DEF RoutingInv
  <2> QED BY <2>1, <2>2, <2>3, <2>4, <2>5, <2>6 DEF RoutingInv
<1>2. ASSUME NEW p \in channelCards, ChannelCardShown(p) PROVE RoutingInv'
  BY <1>0, <1>2, ChannelCardSet DEF ChannelCardShown
<1>3. ASSUME NEW p \in channelCards, ChannelCardWasted(p) PROVE RoutingInv'
  BY <1>0, <1>3, ChannelCardSet DEF ChannelCardWasted, Fault
<1>4. ASSUME NEW p \in channelCards, RejectChannel(p) PROVE RoutingInv'
  <2>1. TypeOK'
    BY <1>0, <1>4 DEF RoutingInv, TypeOK, RouterTypeOK, RejectChannel
  <2>2. RoutedOnce' /\ OnlyTrusted' /\ RefusedNotStored'
    BY <1>4, RowsKept DEF RoutingInv, RejectChannel
  <2>3. OneCard' /\ NamedRowWaits' /\ WiredInv'
    BY <1>4 DEF RoutingInv, RejectChannel, OneCard, NamedRowWaits, WiredInv
  <2>4. AskedInv'
    BY <1>4, AskedKept DEF RoutingInv, RejectChannel
  <2>5. ApprovedInv'
    BY <1>4, ApprovalsKept DEF RoutingInv, RejectChannel
  <2> QED BY <2>1, <2>2, <2>3, <2>4, <2>5 DEF RoutingInv
<1>5. ASSUME NEW p \in channelCards, ChooseExisting(p) PROVE RoutingInv'
  BY <1>0, <1>5, ChannelCardSet DEF ChooseExisting
<1>6. ASSUME NEW p \in channelCards, NewAgent(p) PROVE RoutingInv'
  BY <1>0, <1>6, ChannelCardSet DEF NewAgent
<1>7. ASSUME NEW p \in channelCards, NEW a \in Agents, Connect(p, a) PROVE RoutingInv'
  <2>1. CASE WireAndReplay(p, a)
    BY <1>0, <1>7, <2>1, WiredApproval DEF Connect, RoutingInv, TypeOK
  <2>2. CASE SetChannelCard(p, "spent", p.offer) /\ UNCHANGED <<wired, member, routing, approved>>
    BY <1>0, <1>7, <2>2, ChannelCardSet DEF Connect
  <2> QED BY <1>7, <2>1, <2>2 DEF Connect
<1>8. ASSUME NameReply PROVE RoutingInv'
  <2>1. CASE UNCHANGED <<groups, wired, member, channelCards, routing, approved>>
    <3>1. TypeOK' /\ OneCard' /\ NamedRowWaits' /\ WiredInv'
      BY <1>8, <2>1 DEF NameReply, RoutingInv, TypeOK, RouterTypeOK, OneCard,
                        NamedRowWaits, WiredInv
    <3>2. RoutedOnce' /\ OnlyTrusted' /\ RefusedNotStored'
      BY <1>8, <2>1, RowsKept DEF NameReply, RoutingInv
    <3>3. AskedInv' /\ ApprovedInv'
      BY <1>8, <2>1, AskedKept, ApprovalsKept DEF NameReply, RoutingInv
    <3> QED BY <3>1, <3>2, <3>3 DEF RoutingInv
  <2>2. ASSUME NEW p \in channelCards, NEW a \in Agents \ groups,
               groups' = groups \cup {a}, WireAndReplay(p, a)
        PROVE  RoutingInv'
    <3>1. a \in Agents /\ groups' \in SUBSET Agents /\ naming' = {}
      BY <1>0, <1>8, <2>2 DEF NameReply
    <3> QED BY <1>8, <2>2, <3>1, WiredApproval DEF NameReply
  <2> QED BY <1>8, <2>1, <2>2 DEF NameReply
<1>9. ASSUME NamePromptFails PROVE RoutingInv'
  <2>0. naming' = {} /\ faults' = faults + 1
        /\ UNCHANGED <<routerVars, askVars, cardVars, groups, approved>>
    BY <1>9 DEF NamePromptFails, Fault
  <2>1. TypeOK' /\ OneCard' /\ NamedRowWaits' /\ WiredInv'
    BY <2>0 DEF RoutingInv, TypeOK, RouterTypeOK, OneCard, NamedRowWaits, WiredInv
  <2>2. RoutedOnce' /\ OnlyTrusted' /\ RefusedNotStored'
    BY <2>0, RowsKept DEF RoutingInv
  <2>3. AskedInv' /\ ApprovedInv'
    BY <2>0, AskedKept, ApprovalsKept DEF RoutingInv
  <2> QED BY <2>1, <2>2, <2>3 DEF RoutingInv
<1> QED BY <1>1, <1>2, <1>3, <1>4, <1>5, <1>6, <1>7, <1>8, <1>9 DEF ChannelCardStep

(***************************************************************************)
(* Faults, and the theorems.                                               *)
(***************************************************************************)
\* A request that finds no approver is dropped.
LEMMA NoApproverInv ==
  ASSUME RoutingInv, NEW e \in Events, NoApprover(e)
  PROVE  RoutingInv'
<1> USE DEF cardVars, grantVars, fanVars, routerVars
<1>0. /\ asked' \subseteq asked /\ askedChannels' \subseteq askedChannels
      /\ faults' = faults + 1
      /\ UNCHANGED <<routerVars, cardVars, groups, naming, approved>>
  BY DEF NoApprover, Fault
<1>1. TypeOK'
  BY <1>0 DEF RoutingInv, TypeOK, RouterTypeOK
<1>2. RoutedOnce' /\ OnlyTrusted' /\ RefusedNotStored'
  BY <1>0, RowsKept DEF RoutingInv
<1>3. OneCard' /\ NamedRowWaits' /\ WiredInv'
  BY <1>0 DEF RoutingInv, OneCard, NamedRowWaits, WiredInv
<1>4. AskedInv'
  BY <1>0, AskedKept DEF RoutingInv
<1>5. ApprovedInv'
  BY <1>0, ApprovalsKept DEF RoutingInv
<1> QED BY <1>1, <1>2, <1>3, <1>4, <1>5 DEF RoutingInv

\* A restart keeps what is in the database.
LEMMA RestartInv == RoutingInv /\ Restart => RoutingInv'
<1> SUFFICES ASSUME RoutingInv, Restart PROVE RoutingInv'
  OBVIOUS
<1> USE DEF Restart, Fault, cardVars, grantVars
<1>1. TypeOK'
  BY DEF RoutingInv, TypeOK, RouterTypeOK
<1>2. RoutedOnce' /\ OnlyTrusted' /\ RefusedNotStored'
  BY RowsKept DEF RoutingInv
<1>3. OneCard' /\ NamedRowWaits' /\ WiredInv' /\ ApprovedInv'
  BY DEF RoutingInv, OneCard, NamedRowWaits, WiredInv, ApprovedInv
<1>4. AskedInv'
  BY AskedKept DEF RoutingInv
<1> QED BY <1>1, <1>2, <1>3, <1>4 DEF RoutingInv

\* At the start nothing has been routed or asked.
LEMMA InitInv ==
  ASSUME StartAssumption, Init
  PROVE  RoutingInv
<1>1. TypeOK
  <2>1. /\ Wired0 \in SUBSET (Channels \X Agents)
        /\ Members0 \in SUBSET (Senders \X Agents)
    BY DEF StartAssumption
  <2> QED BY <2>1 DEF Init, TypeOK, RouterTypeOK, StartAssumption
<1>2. RoutedOnce /\ OnlyTrusted /\ RefusedNotStored
  BY DEF Init, RoutedOnce, OnlyTrusted, RefusedNotStored
<1>3. OneCard /\ NamedRowWaits /\ WiredInv /\ AskedInv /\ ApprovedInv
  BY DEF Init, OneCard, NamedRowWaits, WiredInv, AskedInv, ApprovedInv
<1> QED BY <1>1, <1>2, <1>3 DEF RoutingInv

\* Whatever the wirings, the policies and the order in which messages, clicks
\* and faults come, the invariant of the router and the cards holds.
THEOREM RoutingInvariant == Spec => []RoutingInv
<1> USE MessagesAssumption, WiringsAssumption, StartAssumption, NewChannelAssumption
<1>1. Init => RoutingInv
  BY InitInv
<1>2. RoutingInv /\ [Next]_vars => RoutingInv'
  <2> SUFFICES ASSUME RoutingInv, [Next]_vars PROVE RoutingInv'
    OBVIOUS
  <2>1. CASE RouterStep
    BY <2>1, RouterInv
  <2>2. CASE SenderCardStep
    BY <2>2, SenderCardInv
  <2>3. CASE ChannelCardStep
    BY <2>3, ChannelCardInv
  <2>4. CASE \E e \in Events : NoApprover(e)
    BY <2>4, NoApproverInv
  <2>5. CASE Restart
    BY <2>5, RestartInv
  <2>6. CASE UNCHANGED vars
    <3> USE DEF vars
    <3>1. TypeOK' /\ OneCard' /\ NamedRowWaits' /\ WiredInv'
      BY <2>6 DEF RoutingInv, TypeOK, RouterTypeOK, OneCard, NamedRowWaits, WiredInv
    <3>2. RoutedOnce' /\ OnlyTrusted' /\ RefusedNotStored'
      BY <2>6, RowsKept DEF RoutingInv
    <3>3. AskedInv' /\ ApprovedInv'
      BY <2>6, AskedKept, ApprovalsKept DEF RoutingInv
    <3> QED BY <3>1, <3>2, <3>3 DEF RoutingInv
  <2> QED BY <2>1, <2>2, <2>3, <2>4, <2>5, <2>6 DEF Next
<1> QED BY <1>1, <1>2, PTL DEF Spec

\* However often a message is replayed after approvals, an agent gets it once.
THEOREM RoutesOnce == Spec => []RoutedOnce
<1>1. RoutingInv => RoutedOnce
  BY DEF RoutingInv
<1> QED BY <1>1, RoutingInvariant, PTL

\* Only a sender with access to that very agent wakes it, but for public
\* channels open to all.
THEOREM TrustedOnly == Spec => []OnlyTrusted
<1>1. RoutingInv => OnlyTrusted
  BY DEF RoutingInv
<1> QED BY <1>1, RoutingInvariant, PTL

\* A message that was refused by a gate is not accumulated as context.
THEOREM RefusedStaysOut == Spec => []RefusedNotStored
<1>1. RoutingInv => RefusedNotStored
  BY DEF RoutingInv
<1> QED BY <1>1, RoutingInvariant, PTL

\* There is one pending card per sender and channel, and one per channel.
THEOREM OneCardEach == Spec => []OneCard
<1>1. RoutingInv => OneCard
  BY DEF RoutingInv
<1> QED BY <1>1, RoutingInvariant, PTL

\* The reply with a name always finds the channel it is for.
THEOREM NameFindsRow == Spec => []NamedRowWaits
<1>1. RoutingInv => NamedRowWaits
  BY DEF RoutingInv
<1> QED BY <1>1, RoutingInvariant, PTL

\* An approved message is under way, with the agent, or was ended by an agent
\* in front of it that already had it.
THEOREM ApprovedRouted == Spec => []ApprovedIsRouted
<1>1. RoutingInv => ApprovedIsRouted
  BY DEF RoutingInv, ApprovedInv, ApprovedIsRouted, Served, UnderWay
<1> QED BY <1>1, RoutingInvariant, PTL
=============================================================================
