---------------------------- MODULE Permissions ----------------------------
(***************************************************************************)
(* The permissions module on top of the router: approval cards for unknown  *)
(* senders and unknown channels, the approver's clicks, the free-text name  *)
(* of a new agent, and the replay of the stored message.                   *)
(*                                                                         *)
(* The platform shows a card while adapter.deliver is still pending, and     *)
(* takes its buttons away when one is clicked, whoever clicked and whatever   *)
(* becomes of the click: a card is "sending", "shown" or "spent".  One        *)
(* approver answers every card.                                            *)
(***************************************************************************)
EXTENDS Router

CONSTANTS
  Groups0,   \* agent groups there are at the start
  Wired0,    \* wirings at the start
  Members0,  \* members at the start
  MaxFaults  \* bound: cards and prompts lost, clicks without effect, restarts

ASSUME StartAssumption ==
  /\ Groups0 \in SUBSET Agents
  /\ Wired0 \in SUBSET (Channels \X Groups0)
  /\ Members0 \in SUBSET ((Senders \ Anonymous) \X Groups0)
  /\ MaxFaults \in Nat

\* A channel nobody wired by hand.  Approved through a card it has pattern '.'
\* (no threads) or mention-sticky, sender_scope 'known' and
\* ignored_message_policy 'accumulate'; the router has created it with
\* unknown_sender_policy 'request_approval'.
NewChannel(c) == \A a \in Agents : <<c, a>> \notin Wired0
ASSUME NewChannelAssumption ==
  \A c \in Channels : NewChannel(c) =>
    /\ Mode[c] # "mention" /\ c \notin Open /\ c \in Accumulate
    /\ Policy[c] = "request_approval"
    /\ Mode[c] = "pattern" => \A e \in Events : Chan[e] = c => e \in Matches

VARIABLES
  groups,    \* agent_groups
  naming,    \* awaitingNameInput of the approver: set of at most one channel
  approved,  \* history: <<event, agent>> approved in this life of the host
  faults     \* faults so far

vars == <<denied, wired, sessions, member, triggers, contexts, arrived, routing, jobs,
          asked, askedChannels, senderCards, channelCards, groups, naming, approved, faults>>

TypeOK ==
  /\ RouterTypeOK
  /\ groups \in SUBSET Agents
  /\ naming \in SUBSET Channels
  /\ approved \in SUBSET (Events \X Agents)
  /\ faults \in Nat

Init ==
  /\ denied = {} /\ wired = Wired0 /\ member = Members0
  /\ sessions = {}
  /\ triggers = [x \in Events \X Agents |-> 0]
  /\ contexts = [x \in Events \X Agents |-> 0]
  /\ arrived = {} /\ routing = {} /\ jobs = {}
  /\ asked = {} /\ askedChannels = {}
  /\ senderCards = {} /\ channelCards = {}
  /\ groups = Groups0 /\ naming = {} /\ approved = {} /\ faults = 0

routerVars == <<denied, wired, sessions, member, triggers, contexts, arrived, routing, jobs>>
askVars    == <<asked, askedChannels>>
ownVars    == <<groups, naming, approved, faults>>

RouterStep ==
  /\ \/ \E e \in Events : Arrive(e) \/ Route(e)
     \/ \E j \in jobs : Continue(j)
  /\ UNCHANGED ownVars

Fault == faults < MaxFaults /\ faults' = faults + 1

(***************************************************************************)
(* Cards for unknown senders.                                              *)
(***************************************************************************)
\* Mutant: without UNIQUE(messaging_group_id, sender_identity).
CreateSenderCardAgain(e, a) ==
  /\ <<e, a>> \in asked
  /\ asked' = asked \ {<<e, a>>}
  /\ senderCards' = senderCards \cup {[event |-> e, agent |-> a, card |-> "sending"]}
  /\ UNCHANGED <<routerVars, askedChannels, channelCards, ownVars>>

\* requestSenderApproval once the approver's DM is known: the row, then the
\* card.  A row that came in between makes the INSERT throw.
CreateSenderCard(e, a) ==
  /\ <<e, a>> \in asked
  /\ asked' = asked \ {<<e, a>>}
  /\ senderCards' =
       IF SenderPending(e) THEN senderCards
       ELSE senderCards \cup {[event |-> e, agent |-> a, card |-> "sending"]}
  /\ UNCHANGED <<routerVars, askedChannels, channelCards, ownVars>>

SetSenderCard(p, v) == senderCards' = (senderCards \ {p}) \cup {[p EXCEPT !.card = v]}

SenderCardShown(p) ==
  /\ p \in senderCards /\ p.card = "sending"
  /\ SetSenderCard(p, "shown")
  /\ UNCHANGED <<routerVars, askVars, channelCards, ownVars>>

\* The delivery fails, or a click is lost or not the approver's: the row stays.
SenderCardWasted(p) ==
  /\ p \in senderCards /\ p.card # "spent" /\ Fault
  /\ SetSenderCard(p, "spent")
  /\ UNCHANGED <<routerVars, askVars, channelCards, groups, naming, approved>>

\* Mutant: the stored message is not replayed.
ApproveSenderOnly(p) ==
  /\ p \in senderCards /\ p.card = "shown"
  /\ member' = member \cup {<<From[p.event], p.agent>>}
  /\ senderCards' = senderCards \ {p}
  /\ approved' = approved \cup {<<p.event, p.agent>>}
  /\ UNCHANGED <<denied, wired, fanVars, arrived, routing, askedChannels, channelCards,
                 groups, naming, faults>>

\* handleSenderApprovalResponse, approve: member, row deleted, message replayed.
ApproveSender(p) ==
  /\ p \in senderCards /\ p.card = "shown"
  /\ member' = member \cup {<<From[p.event], p.agent>>}
  /\ senderCards' = senderCards \ {p}
  /\ routing' = routing \cup {p.event}
  /\ approved' = approved \cup {<<p.event, p.agent>>}
  /\ UNCHANGED <<denied, wired, fanVars, arrived, askedChannels, channelCards,
                 groups, naming, faults>>

DenySender(p) ==
  /\ p \in senderCards /\ p.card = "shown"
  /\ senderCards' = senderCards \ {p}
  /\ UNCHANGED <<routerVars, askVars, channelCards, ownVars>>

(***************************************************************************)
(* Cards for unknown channels.                                             *)
(***************************************************************************)
\* requestChannelApproval once name and DM are known; messaging_group_id is
\* the primary key.  With a single agent group the card offers it at once.
CreateChannelCard(e) ==
  /\ e \in askedChannels
  /\ askedChannels' = askedChannels \ {e}
  /\ channelCards' =
       IF ChannelPending(Chan[e]) \/ groups = {} THEN channelCards
       ELSE channelCards \cup
              {[event |-> e, card |-> "sending",
                offer |-> IF Cardinality(groups) = 1 THEN groups ELSE {}]}
  /\ UNCHANGED <<routerVars, asked, senderCards, ownVars>>

SetChannelCard(p, v, offer) ==
  channelCards' = (channelCards \ {p}) \cup
                  {[event |-> p.event, card |-> v, offer |-> offer]}

ChannelCardShown(p) ==
  /\ p \in channelCards /\ p.card = "sending"
  /\ SetChannelCard(p, "shown", p.offer)
  /\ UNCHANGED <<routerVars, askVars, senderCards, ownVars>>

ChannelCardWasted(p) ==
  /\ p \in channelCards /\ p.card # "spent" /\ Fault
  /\ SetChannelCard(p, "spent", p.offer)
  /\ UNCHANGED <<routerVars, askVars, senderCards, groups, naming, approved>>

RejectChannel(p) ==
  /\ p \in channelCards /\ p.card = "shown"
  /\ denied' = denied \cup {Chan[p.event]}
  /\ channelCards' = channelCards \ {p}
  /\ UNCHANGED <<wired, member, fanVars, arrived, routing, askedChannels, senderCards, ownVars>>

\* choose_existing, on the first card only: a second card under the same id.
ChooseExisting(p) ==
  /\ p \in channelCards /\ p.card = "shown" /\ p.offer = {}
  /\ SetChannelCard(p, "sending", groups)
  /\ UNCHANGED <<routerVars, askVars, senderCards, ownVars>>

\* Wire, add the sender, delete the row, replay: shared by connect and create.
WireAndReplay(p, a) ==
  /\ wired' = wired \cup {<<Chan[p.event], a>>}
  /\ member' = member \cup ({From[p.event]} \ Anonymous) \X {a}
  /\ channelCards' = channelCards \ {p}
  /\ routing' = routing \cup {p.event}
  /\ approved' = IF From[p.event] \in Anonymous THEN approved
                 ELSE approved \cup {<<p.event, a>>}

\* connect:<id>.  A pair already wired makes createMessagingGroupAgent throw.
Connect(p, a) ==
  /\ p \in channelCards /\ p.card = "shown" /\ a \in p.offer
  /\ \/ /\ <<Chan[p.event], a>> \notin wired
        /\ WireAndReplay(p, a)
     \/ /\ <<Chan[p.event], a>> \in wired
        /\ SetChannelCard(p, "spent", p.offer)
        /\ UNCHANGED <<wired, member, routing, approved>>
  /\ UNCHANGED <<denied, fanVars, arrived, askedChannels, senderCards, groups, naming, faults>>

\* Mutant: the row is deleted when the name is asked for.
NewAgentDeletes(p) ==
  /\ p \in channelCards /\ p.card = "shown" /\ Cardinality(p.offer) < 2
  /\ naming' = {Chan[p.event]}
  /\ channelCards' = channelCards \ {p}
  /\ UNCHANGED <<routerVars, askVars, senderCards, groups, approved, faults>>

\* new_agent, on the first card only: the approver is asked for a name, and
\* whatever channel was waiting for one before is forgotten.
NewAgent(p) ==
  /\ p \in channelCards /\ p.card = "shown" /\ Cardinality(p.offer) < 2
  /\ naming' = {Chan[p.event]}
  /\ SetChannelCard(p, "spent", p.offer)
  /\ UNCHANGED <<routerVars, askVars, senderCards, groups, approved, faults>>

\* The delivery of a name prompt fails: the one slot is emptied, whichever channel
\* waits in it by now.
NamePromptFails ==
  /\ naming # {} /\ Fault
  /\ naming' = {}
  /\ UNCHANGED <<routerVars, askVars, cardVars, groups, approved>>

\* The interceptor takes the approver's next DM: an empty one is swallowed, a
\* name creates the agent group and wires it.
NameReply ==
  /\ naming # {}
  /\ naming' = {}
  /\ \/ UNCHANGED <<groups, wired, member, channelCards, routing, approved>>
     \/ \E p \in channelCards : \E a \in Agents \ groups :
          /\ Chan[p.event] \in naming
          /\ groups' = groups \cup {a}
          /\ WireAndReplay(p, a)
  /\ UNCHANGED <<denied, fanVars, arrived, askedChannels, senderCards, faults>>

(***************************************************************************)
(* Faults.                                                                 *)
(***************************************************************************)
\* No DM can be opened for the approver: neither row nor card.
NoApprover(e) ==
  /\ Fault
  /\ \/ \E a \in Agents : /\ <<e, a>> \in asked
                          /\ asked' = asked \ {<<e, a>>}
                          /\ UNCHANGED askedChannels
     \/ /\ e \in askedChannels
        /\ askedChannels' = askedChannels \ {e}
        /\ UNCHANGED asked
  /\ UNCHANGED <<routerVars, cardVars, groups, naming, approved>>

\* The host restarts: what was under way in memory is gone.
Restart ==
  /\ Fault
  /\ routing' = {} /\ jobs' = {} /\ asked' = {} /\ askedChannels' = {}
  /\ naming' = {} /\ approved' = {}
  /\ UNCHANGED <<grantVars, sessions, triggers, contexts, arrived, cardVars, groups>>

SenderCardStep ==
  \/ \E e \in Events, a \in Agents : CreateSenderCard(e, a)
  \/ \E p \in senderCards : \/ SenderCardShown(p) \/ SenderCardWasted(p)
                            \/ ApproveSender(p) \/ DenySender(p)

ChannelCardStep ==
  \/ \E e \in Events : CreateChannelCard(e)
  \/ \E p \in channelCards :
       \/ ChannelCardShown(p) \/ ChannelCardWasted(p) \/ RejectChannel(p)
       \/ ChooseExisting(p) \/ NewAgent(p)
       \/ \E a \in Agents : Connect(p, a)
  \/ NamePromptFails \/ NameReply

Next ==
  \/ RouterStep \/ SenderCardStep \/ ChannelCardStep
  \/ (\E e \in Events : NoApprover(e)) \/ Restart

Spec == Init /\ [][Next]_vars
-----------------------------------------------------------------------------
(***************************************************************************)
(* Properties.                                                             *)
(***************************************************************************)
\* messageIdForAgent and the primary key of messages_in: however often a
\* message is replayed after approvals, an agent gets it once, and never both
\* as context and as a trigger.
RoutedOnce == \A x \in Events \X Agents : triggers[x] + contexts[x] <= 1

\* accessGate and senderScopeGate: only a sender with access to that very agent
\* wakes it, except in a public channel whose wirings are open to all.
OnlyTrusted ==
  \A e \in Events, a \in Agents : triggers[<<e, a>>] > 0 =>
    \/ From[e] \in Owners \/ <<From[e], a>> \in member
    \/ (Policy[Chan[e]] = "public" /\ Chan[e] \in Open)

\* router.ts:366-372: a message that addressed the agent and was refused is not
\* stored as context either: context rows never hold what engages by itself.
RefusedNotStored ==
  \A e \in Events, a \in Agents : contexts[<<e, a>>] > 0 =>
    /\ Mode[Chan[e]] = "pattern" => e \notin Matches
    /\ Mode[Chan[e]] # "pattern" => e \notin Mentions

\* One pending card per sender and channel and one per channel, although the
\* check for one and the INSERT are separated by the look-up of a DM.
OneCard ==
  /\ \A p, q \in senderCards :
       Chan[p.event] = Chan[q.event] /\ From[p.event] = From[q.event] => p = q
  /\ \A p, q \in channelCards : Chan[p.event] = Chan[q.event] => p = q

\* The channel a name is awaited for still has its pending row, with a card
\* nobody can click: the reply is never swallowed for want of a row.
NamedRowWaits ==
  \A c \in naming : \E p \in channelCards : Chan[p.event] = c /\ p.card = "spent"

\* The commands the gate stops, for the sender of e.
Stopped(e) == e \in Filtered \/ (e \in AdminCmd /\ From[e] \notin Owners)
UnderWay(e) == e \in routing \/ \E j \in jobs : j[1] = e

\* An approved message is replayed through the gates that refused it: when
\* nothing of it is under way any more the agent has it, unless the replay hit
\* an agent before it that already had it.
ApprovedIsRouted ==
  \A x \in approved :
    Stopped(x[1]) \/ UnderWay(x[1]) \/ \E b \in Agents : b <= x[2] /\ Held(x[1], b)
-----------------------------------------------------------------------------
(***************************************************************************)
(* The inductive invariant.                                                *)
(***************************************************************************)
\* Wirings are only added, and a fan-out has wired agents in front of it.
WiredInv ==
  /\ Wired0 \subseteq wired
  /\ \A j \in jobs : \A b \in j[2] : <<Chan[j[1]], b>> \in wired

\* A card, and the request before it, is about a message that engaged: the
\* approval leaves the gates nothing to refuse.
Asking(e, a) ==
  /\ <<Chan[e], a>> \in wired /\ Engages(e, a)
  /\ Policy[Chan[e]] = "request_approval" /\ From[e] \notin Anonymous

AskedInv ==
  /\ \A x \in asked : Asking(x[1], x[2])
  /\ \A p \in senderCards : Asking(p.event, p.agent)
  /\ \A e \in askedChannels : e \in Mentions /\ NewChannel(Chan[e])
  /\ \A p \in channelCards : p.event \in Mentions /\ NewChannel(Chan[p.event])

\* What was approved passes the gates, and the replay still has the agent in
\* front of it or has ended at one that has the message.
Served(e, a) ==
  \/ Stopped(e) \/ e \in routing
  \/ \E j \in jobs : j[1] = e /\ a \in j[2]
  \/ \E b \in Agents : b <= a /\ Held(e, b)

ApprovedInv ==
  \A x \in approved :
    <<Chan[x[1]], x[2]>> \in wired /\ Wakes(x[1], x[2]) /\ Served(x[1], x[2])

RoutingInv ==
  /\ TypeOK
  /\ RoutedOnce /\ OnlyTrusted /\ RefusedNotStored /\ OneCard /\ NamedRowWaits
  /\ WiredInv /\ AskedInv /\ ApprovedInv
-----------------------------------------------------------------------------
(***************************************************************************)
(* What the comments of the code promise and the code does not keep.       *)
(***************************************************************************)
\* modules/permissions/index.ts:223-224: after approval the second routing
\* attempt passes the gate.  It stops at the first agent that has the message.
ApprovedReachesAgent ==
  \A x \in approved : Stopped(x[1]) \/ UnderWay(x[1]) \/ Held(x[1], x[2])

\* router.ts:413-417: mention-sticky follow-ups fire once the thread was engaged
\* by a mention.  Accumulating a message creates the session that counts as it.
StickyNeedsMention ==
  \A e \in Events, a \in Agents :
    triggers[<<e, a>>] > 0 /\ Mode[Chan[e]] = "mention-sticky" =>
      \E f \in Mentions : Chan[f] = Chan[e] /\ triggers[<<f, a>>] > 0
=============================================================================
