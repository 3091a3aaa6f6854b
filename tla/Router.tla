------------------------------- MODULE Router -------------------------------
(***************************************************************************)
(* routeInbound: the way of a message from a channel adapter to the         *)
(* sessions of the agents wired to its channel, and the gates on that way   *)
(* (engagement, access, sender scope, commands).  A routing is a chain of   *)
(* synchronous stretches: routeInbound awaits the message interceptor        *)
(* first (routing), and deliverToAgent, with its wait for a container, once  *)
(* per agent that takes the message (jobs).  Between them other routings,    *)
(* clicks and requests run.                                                *)
(*                                                                         *)
(* What the gates ask of the permissions module (a card for the approver)   *)
(* is put into asked and askedChannels; module Permissions goes on there.    *)
(* Cloud mode, thread modes, rate limits and the dropped-message log are     *)
(* left out: one session per channel and agent.                            *)
(***************************************************************************)
EXTENDS Integers, FiniteSets

CONSTANTS
  Channels,   \* messaging groups
  Senders,    \* users, the approver not among them
  Agents,     \* agent groups, numbered in the order of the wirings' priority
  Events,     \* inbound messages
  Chan,       \* [Events -> Channels]
  From,       \* [Events -> Senders]
  Mentions,   \* events with isMention
  Matches,    \* events whose text the wirings' engage_pattern matches
  Filtered,   \* events with a command of FILTERED_COMMANDS
  AdminCmd,   \* events with a command of ADMIN_COMMANDS
  Mode,       \* [Channels -> engage_mode of the channel's wirings]
  Policy,     \* [Channels -> unknown_sender_policy]
  Open,       \* channels whose wirings have sender_scope = 'all'
  Accumulate, \* channels whose wirings accumulate what is ignored
  Owners,     \* senders with an owner or admin role
  Anonymous   \* senders the adapter gives no user id for

ASSUME MessagesAssumption ==
  /\ Agents \subseteq Nat
  /\ Chan \in [Events -> Channels]
  /\ From \in [Events -> Senders]
  /\ Filtered \cap AdminCmd = {}
  /\ Owners \cap Anonymous = {}
ASSUME WiringsAssumption ==
  /\ Mode \in [Channels -> {"pattern", "mention", "mention-sticky"}]
  /\ Policy \in [Channels -> {"strict", "request_approval", "public"}]

VARIABLES
  denied,       \* channels with denied_at
  wired,        \* messaging_group_agents: <<channel, agent>>
  sessions,     \* <<channel, agent>> with a session
  member,       \* agent_group_members: <<sender, agent>>
  triggers,     \* [event, agent -> trigger = 1 rows with the event's id]
  contexts,     \* [event, agent -> trigger = 0 rows with it]
  arrived,      \* events the platform has handed over
  routing,      \* routeInbound calls awaiting the interceptor
  jobs,         \* <<event, agents left>> of fan-outs awaiting deliverToAgent
  asked,        \* <<event, agent>>: requestSenderApproval awaiting a DM
  askedChannels,\* events: requestChannelApproval awaiting a name or DM
  senderCards,  \* pending_sender_approvals, with the state of the card
  channelCards  \* pending_channel_approvals, likewise

fanVars   == <<sessions, triggers, contexts, jobs, asked>>
grantVars == <<denied, wired, member>>
cardVars  == <<senderCards, channelCards>>

Card == {"sending", "shown", "spent"}

RouterTypeOK ==
  /\ denied \in SUBSET Channels
  /\ wired \in SUBSET (Channels \X Agents)
  /\ sessions \in SUBSET (Channels \X Agents)
  /\ member \in SUBSET (Senders \X Agents)
  /\ triggers \in [Events \X Agents -> Nat]
  /\ contexts \in [Events \X Agents -> Nat]
  /\ arrived \in SUBSET Events
  /\ routing \in SUBSET Events
  /\ jobs \in SUBSET (Events \X SUBSET Agents)
  /\ asked \in SUBSET (Events \X Agents)
  /\ askedChannels \in SUBSET Events
  /\ senderCards \in SUBSET [event : Events, agent : Agents, card : Card]
  /\ channelCards \in SUBSET [event : Events, card : Card, offer : SUBSET Agents]

(***************************************************************************)
(* The gates.                                                              *)
(***************************************************************************)
AgentsOf(c) == {a \in Agents : <<c, a>> \in wired}

\* hasInFlightSenderApproval, hasInFlightChannelApproval.
SenderPending(e) ==
  \E p \in senderCards : Chan[p.event] = Chan[e] /\ From[p.event] = From[e]
ChannelPending(c) == \E p \in channelCards : Chan[p.event] = c

\* Mutant: a member of any agent group has access to all.
AccessAnywhere(s, a) == s \in Owners \/ \E b \in Agents : <<s, b>> \in member

\* canAccessAgentGroup.
Access(s, a) == s \in Owners \/ <<s, a>> \in member

\* evaluateEngage.
Engages(e, a) ==
  \/ Mode[Chan[e]] = "pattern" /\ e \in Matches
  \/ Mode[Chan[e]] \in {"mention", "mention-sticky"} /\ e \in Mentions
  \/ Mode[Chan[e]] = "mention-sticky" /\ <<Chan[e], a>> \in sessions

Allowed(e, a) == Policy[Chan[e]] = "public" \/ Access(From[e], a)
InScope(e, a) == Chan[e] \in Open \/ Access(From[e], a)

\* The message becomes a trigger = 1 row of the agent ...
Wakes(e, a) == Engages(e, a) /\ Allowed(e, a) /\ InScope(e, a)

\* Mutant: what a gate refused is accumulated too.
AccumulatesRefused(e, a) == ~Wakes(e, a) /\ Chan[e] \in Accumulate

\* ... or a trigger = 0 row.
Accumulates(e, a) == ~Engages(e, a) /\ Chan[e] \in Accumulate

Taken(e, a) == Wakes(e, a) \/ Accumulates(e, a)

\* handleUnknownSender, on the agents of S the fan-out passes by.
Ask(e, S) ==
  asked' = asked \cup
    {<<e, a>> : a \in {b \in S : /\ Engages(e, b) /\ ~Allowed(e, b)
                                 /\ Policy[Chan[e]] = "request_approval"
                                 /\ From[e] \notin Anonymous
                                 /\ ~SenderPending(e)}}

(***************************************************************************)
(* The fan-out.                                                            *)
(***************************************************************************)
First(S) == CHOOSE a \in S : \A b \in S : a <= b

\* Mutant: every routing makes up a new row id.
HeldNever(e, a) == FALSE

\* messages_in already has the row messageIdForAgent names.
Held(e, a) == triggers[<<e, a>>] + contexts[<<e, a>>] > 0

\* deliverToAgent writes the row.
Insert(e, a) ==
  IF Wakes(e, a)
  THEN triggers' = [triggers EXCEPT ![<<e, a>>] = @ + 1] /\ UNCHANGED contexts
  ELSE contexts' = [contexts EXCEPT ![<<e, a>>] = @ + 1] /\ UNCHANGED triggers

\* One stretch of the loop over the agents left: those that do not take the
\* message are passed by, the first that takes it is served and awaited.  The
\* session is resolved before the command gate is asked.  A denied command is
\* answered through a read-only handle and an id already there hits the
\* primary key: both throw, and the fan-out ends.
Advance(e, left, others) ==
  LET takers == {a \in left : Taken(e, a)}
      a      == First(takers)
      next   == others \cup {<<e, {b \in left : b > a}>>}
      throws == (e \in AdminCmd /\ From[e] \notin Owners) \/ Held(e, a)
  IN  \/ /\ takers = {}
         /\ Ask(e, left)
         /\ jobs' = others
         /\ UNCHANGED <<sessions, triggers, contexts>>
      \/ /\ takers # {}
         /\ Ask(e, {b \in left : b < a})
         /\ sessions' = sessions \cup {<<Chan[e], a>>}
         /\ \/ e \in Filtered /\ jobs' = next /\ UNCHANGED <<triggers, contexts>>
            \/ e \notin Filtered /\ throws /\ jobs' = others
               /\ UNCHANGED <<triggers, contexts>>
            \/ e \notin Filtered /\ ~throws /\ jobs' = next /\ Insert(e, a)

(***************************************************************************)
(* Actions.                                                                *)
(***************************************************************************)
\* An adapter calls onInbound.
Arrive(e) ==
  /\ e \notin arrived
  /\ arrived' = arrived \cup {e}
  /\ routing' = routing \cup {e}
  /\ UNCHANGED <<fanVars, grantVars, askedChannels, cardVars>>

\* routeInbound behind the interceptor: a channel with no agents is escalated
\* when the bot was addressed, the others fan out.
Route(e) ==
  /\ e \in routing
  /\ routing' = routing \ {e}
  /\ \/ /\ AgentsOf(Chan[e]) # {}
        /\ Advance(e, AgentsOf(Chan[e]), jobs)
        /\ UNCHANGED askedChannels
     \/ /\ AgentsOf(Chan[e]) = {}
        /\ askedChannels' = IF /\ e \in Mentions /\ Chan[e] \notin denied
                               /\ ~ChannelPending(Chan[e])
                            THEN askedChannels \cup {e} ELSE askedChannels
        /\ UNCHANGED fanVars
  /\ UNCHANGED <<arrived, grantVars, cardVars>>

\* deliverToAgent resolves and the loop goes on.
Continue(j) ==
  /\ j \in jobs
  /\ Advance(j[1], j[2], jobs \ {j})
  /\ UNCHANGED <<arrived, routing, grantVars, askedChannels, cardVars>>
=============================================================================
