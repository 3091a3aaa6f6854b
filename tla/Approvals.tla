----------------------------- MODULE Approvals -----------------------------
(***************************************************************************)
(* Cards an administrator or a user answers with a button: approvals of      *)
(* self-modification (install_packages, add_mcp_server), OneCLI credential   *)
(* approvals and ask_user_question, with the clicks that race their          *)
(* delivery, their expiry, a restart of the host, and the container that is  *)
(* to run with the approved configuration.                                  *)
(*                                                                         *)
(* The handlers of a click run without giving way up to the deletion of the  *)
(* row (buildAgentGroupImage blocks the process), so a dispatched click is   *)
(* one step; what another step can come between are the awaited calls to the *)
(* platform.  One session asks; every approver is reachable or none is.      *)
(***************************************************************************)
EXTENDS Naturals, Sequences, FiniteSets

CONSTANTS
  Installs,     \* install_packages requests
  Servers,      \* add_mcp_server requests
  Credentials,  \* requests of the credential gateway
  Questions,    \* ask_user_question calls
  Scenarios,    \* the sets of requests that are made together
  MaxClicks,    \* bound: clicks on all the cards
  MaxFaults     \* bound: failed deliveries, crashes

Changes  == Installs \cup Servers
Requests == Changes \cup Credentials \cup Questions

ConstantAssumption ==
  /\ Installs \cap Servers = {} /\ Changes \cap Credentials = {}
  /\ (Changes \cup Credentials) \cap Questions = {}
  /\ IsFiniteSet(Requests) /\ Scenarios \subseteq SUBSET Requests
  /\ MaxClicks \in Nat /\ MaxFaults \in Nat

VARIABLES
  ask,       \* the request: "no" (not made yet), "sending" (awaits the card), "over"
  row,       \* pending_approvals and pending_questions
  card,      \* "none", "shown" with its buttons, "edited" without them
  clicked,   \* clicks on any card so far
  clicks,    \* clicks whose card edit is awaited: <<request, value>>
  waiting,   \* pending: credential requests with a resolver and a timer
  expiring,  \* credential rows whose "Expired" edit is awaited
  sweeping,  \* credential rows found at start and not yet swept
  verdict,   \* what the gateway was told
  config,    \* changes in container_configs
  image,     \* packages in the image of the agent group
  tag,       \* image_tag is set
  onWake,    \* changes whose on_wake message is pending
  box,       \* the container: "none", "waking", "fresh", "running", "closing"
  snap,      \* container.json as materialized for the container
  has,       \* the changes the container runs with
  exitWake,  \* an onExit callback waits for the close
  answers,   \* question_response rows nobody has taken
  tool,      \* ask_user_question: "polling", "answered", "late"
  up,        \* the host runs
  effect,    \* history: values of the clicks that were acted on
  sent,      \* history: deliveries begun
  torn,      \* history: crashes of the host during the build of each install
  behind,    \* history: changes applied while a wake was in flight
  stale,     \* history: changes announced to a container without them
  faults

cardVars == <<ask, row, card, clicked, clicks, sent>>
credVars == <<waiting, expiring, sweeping, verdict>>
boxVars  == <<onWake, box, snap, has, exitWake, stale>>
confVars == <<config, image, tag, torn, behind>>
toolVars == <<answers, tool>>
vars == <<cardVars, credVars, boxVars, confVars, toolVars, up, effect, faults>>

Values == {"approve", "reject", "raw"}

TypeOK ==
  /\ ask \in [Requests -> {"no", "sending", "over"}] /\ row \in SUBSET Requests
  /\ card \in [Requests -> {"none", "shown", "edited"}]
  /\ clicked \in Nat /\ clicks \in SUBSET (Requests \X Values)
  /\ waiting \in SUBSET Credentials /\ expiring \in SUBSET Credentials
  /\ sweeping \in SUBSET Credentials
  /\ verdict \in [Credentials -> {"none", "approve", "deny", "lost"}]
  /\ config \in SUBSET Changes /\ image \in SUBSET Installs /\ tag \in BOOLEAN
  /\ onWake \in SUBSET Changes /\ box \in {"none", "waking", "fresh", "running", "closing"}
  /\ snap \in [servers : SUBSET Servers, tagged : BOOLEAN]
  /\ has \in SUBSET Changes /\ exitWake \in BOOLEAN
  /\ answers \in [Questions -> Nat]
  /\ tool \in [Questions -> {"polling", "answered", "late"}]
  /\ up \in BOOLEAN /\ effect \in [Requests -> Seq(Values)] /\ sent \in [Requests -> Nat]
  /\ torn \in [Installs -> Nat] /\ behind \in SUBSET Changes /\ stale \in SUBSET Changes
  /\ faults \in Nat

Init ==
  /\ \E s \in Scenarios : ask = [r \in Requests |-> IF r \in s THEN "no" ELSE "over"]
  /\ row = {} /\ card = [r \in Requests |-> "none"]
  /\ clicked = 0 /\ clicks = {} /\ sent = [r \in Requests |-> 0]
  /\ waiting = {} /\ expiring = {} /\ sweeping = {}
  /\ verdict = [r \in Credentials |-> "none"]
  /\ config = {} /\ image = {} /\ tag = FALSE /\ torn = [r \in Installs |-> 0] /\ behind = {}
  /\ onWake = {} /\ box = "none" /\ snap = [servers |-> {}, tagged |-> FALSE]
  /\ has = {} /\ exitWake = FALSE /\ stale = {}
  /\ answers = [r \in Questions |-> 0] /\ tool = [r \in Questions |-> "polling"]
  /\ up = TRUE /\ effect = [r \in Requests |-> <<>>] /\ faults = 0

Fault == faults < MaxFaults /\ faults' = faults + 1

(***************************************************************************)
(* The request and its card.                                               *)
(***************************************************************************)
\* requestApproval, handleRequest, deliverMessage: the row of a credential is
\* written only after the card.
Request(r) ==
  /\ up /\ ask[r] = "no"
  /\ ask' = [ask EXCEPT ![r] = "sending"]
  /\ row' = IF r \in Credentials THEN row ELSE row \cup {r}
  /\ card' = [card EXCEPT ![r] = "none"]
  /\ sent' = [sent EXCEPT ![r] = @ + 1]
  /\ UNCHANGED <<clicked, clicks, credVars, boxVars, confVars, toolVars, up, effect, faults>>

\* No eligible or no reachable approver: the agent is told, the gateway denied.
NoApprover(r) ==
  /\ up /\ ask[r] = "no" /\ r \notin Questions /\ Fault
  /\ ask' = [ask EXCEPT ![r] = "over"]
  /\ verdict' = IF r \in Credentials THEN [verdict EXCEPT ![r] = "deny"] ELSE verdict
  /\ UNCHANGED <<row, card, clicked, clicks, sent, waiting, expiring, sweeping, boxVars,
                 confVars, toolVars, up, effect>>

Shown(r) ==
  /\ up /\ ask[r] = "sending" /\ card[r] = "none"
  /\ card' = [card EXCEPT ![r] = "shown"]
  /\ UNCHANGED <<ask, row, clicked, clicks, sent, credVars, boxVars, confVars, toolVars, up,
                 effect, faults>>

\* adapter.deliver returns.  A credential gets its row, its resolver, its timer.
Sent(r) ==
  /\ up /\ ask[r] = "sending" /\ card[r] # "none"
  /\ ask' = [ask EXCEPT ![r] = "over"]
  /\ IF r \in Credentials THEN row' = row \cup {r} /\ waiting' = waiting \cup {r}
                          ELSE UNCHANGED <<row, waiting>>
  /\ UNCHANGED <<card, clicked, clicks, sent, expiring, sweeping, verdict, boxVars, confVars,
                 toolVars, up, effect, faults>>

\* adapter.deliver throws, with or without a card on the screen: the agent is
\* told and its row stays; the gateway is denied; a question is sent again.
SendFails(r) ==
  /\ up /\ ask[r] = "sending" /\ Fault
  /\ ask' = [ask EXCEPT ![r] = IF r \in Questions THEN "no" ELSE "over"]
  /\ verdict' = IF r \in Credentials THEN [verdict EXCEPT ![r] = "deny"] ELSE verdict
  /\ UNCHANGED <<row, card, clicked, clicks, sent, waiting, expiring, sweeping, boxVars,
                 confVars, toolVars, up, effect>>

\* chat.onAction: the value behind a button's index is looked up in the row;
\* without a row the index itself is the value.
Click(r, v) ==
  /\ up /\ card[r] = "shown" /\ clicked < MaxClicks
  /\ clicked' = clicked + 1
  /\ clicks' = clicks \cup {<<r, IF r \in row THEN v ELSE "raw">>}
  /\ UNCHANGED <<ask, row, card, sent, credVars, boxVars, confVars, toolVars, up, effect,
                 faults>>

(***************************************************************************)
(* The container.                                                          *)
(***************************************************************************)
\* spawnContainer up to its first await: container.json is written.
Materialized(c) == [servers |-> c \cap Servers, tagged |-> tag']

\* wakeContainer: nothing for a container that runs, closes or is on its way.
Wake(c) ==
  IF box = "none" THEN box' = "waking" /\ snap' = Materialized(c)
                  ELSE UNCHANGED <<box, snap>>

\* Any other wake.  Followed only once a change is asked for: no container is
\* short of one before.
OtherWake ==
  /\ up /\ box = "none" /\ Changes \cap (row \cup config) # {}
  /\ UNCHANGED <<config, image, tag, torn, behind>>
  /\ Wake(config)
  /\ UNCHANGED <<cardVars, credVars, onWake, has, exitWake, stale, toolVars, up, effect, faults>>

\* docker run: the image behind the tag as it is now.
Spawned ==
  /\ up /\ box = "waking"
  /\ box' = "fresh"
  /\ has' = snap.servers \cup (IF snap.tagged THEN image ELSE {})
  /\ UNCHANGED <<cardVars, credVars, onWake, snap, exitWake, stale, confVars, toolVars, up,
                 effect, faults>>

SpawnFails ==
  /\ up /\ box = "waking" /\ Fault
  /\ box' = "none"
  /\ UNCHANGED <<cardVars, credVars, onWake, snap, has, exitWake, stale, confVars, toolVars,
                 up, effect>>

\* The first poll takes the on_wake messages.  (A container that is being
\* killed may take them too; the claim dies with it, see Session.)
FirstPoll ==
  /\ up /\ box = "fresh"
  /\ box' = "running"
  /\ stale' = stale \cup (onWake \ has) /\ onWake' = {}
  /\ UNCHANGED <<cardVars, credVars, snap, has, exitWake, confVars, toolVars, up, effect,
                 faults>>

\* The process ends by itself, or the host sweep ends it.
Exits ==
  /\ up /\ box \in {"fresh", "running"}
  /\ box' = "none" /\ has' = {}
  /\ UNCHANGED <<cardVars, credVars, onWake, snap, exitWake, stale, confVars, toolVars, up,
                 effect, faults>>

\* 'close': activeContainers forgets the container, then onExit wakes a new one.
Closed ==
  /\ up /\ box = "closing"
  /\ exitWake' = FALSE /\ has' = {}
  /\ UNCHANGED <<config, image, tag, torn, behind>>
  /\ IF exitWake THEN box' = "waking" /\ snap' = Materialized(config)
                 ELSE box' = "none" /\ snap' = snap
  /\ UNCHANGED <<cardVars, credVars, onWake, stale, toolVars, up, effect, faults>>

Active == box \in {"fresh", "running", "closing"}

\* Mutant: a container that has not polled yet is not killed.
KillLate(c) ==
  IF box \in {"running", "closing"}
    THEN box' = "closing" /\ exitWake' = TRUE /\ UNCHANGED snap
    ELSE UNCHANGED exitWake /\ Wake(c)

\* killContainer with an onExit that wakes, then wakeContainer.
KillAndWake(c) ==
  IF Active
    THEN box' = "closing" /\ exitWake' = TRUE /\ UNCHANGED snap
    ELSE UNCHANGED exitWake /\ Wake(c)

(***************************************************************************)
(* A click is dispatched.                                                  *)
(***************************************************************************)
\* The edit has come back, or failed and left the buttons.
Take(c, edit) ==
  /\ up /\ c \in clicks
  /\ clicks' = clicks \ {c}
  /\ card' = [card EXCEPT ![c[1]] = IF edit THEN "edited" ELSE @]
  /\ UNCHANGED <<ask, clicked, sent, expiring, sweeping, up>>

ActOn(c) == effect' = [effect EXCEPT ![c[1]] = Append(@, c[2])] /\ UNCHANGED faults

\* resolveOneCLIApproval.
Resolve(c, edit) ==
  /\ c[1] \in waiting /\ Take(c, edit) /\ ActOn(c)
  /\ waiting' = waiting \ {c[1]} /\ row' = row \ {c[1]}
  /\ verdict' = [verdict EXCEPT ![c[1]] = IF c[2] = "approve" THEN "approve" ELSE "deny"]
  /\ UNCHANGED <<boxVars, confVars, toolVars>>

\* No handler claims it; or the row of a credential that waits no more is dropped.
Unclaimed(c, edit) ==
  /\ c[1] \notin waiting /\ (c[1] \notin row \/ c[1] \in Credentials) /\ Take(c, edit)
  /\ row' = row \ {c[1]}
  /\ UNCHANGED <<waiting, verdict, boxVars, confVars, toolVars, effect, faults>>

\* Mutant: the row of a rejected request stays.
RejectKeeps(c, edit) ==
  /\ c[1] \in row \cap Changes /\ c[2] # "approve" /\ Take(c, edit) /\ ActOn(c)
  /\ UNCHANGED <<config, image, tag, torn, behind>> /\ Wake(config)
  /\ UNCHANGED <<row, waiting, verdict, onWake, has, exitWake, stale, toolVars>>

\* handleRegisteredApproval, not approved.
Reject(c, edit) ==
  /\ c[1] \in row \cap Changes /\ c[2] # "approve" /\ Take(c, edit) /\ ActOn(c)
  /\ row' = row \ {c[1]}
  /\ UNCHANGED <<config, image, tag, torn, behind>> /\ Wake(config)
  /\ UNCHANGED <<waiting, verdict, onWake, has, exitWake, stale, toolVars>>

\* applyInstallPackages, applyAddMcpServer, then the row is deleted.
Approve(c, edit) ==
  /\ c[1] \in row \cap Changes /\ c[2] = "approve" /\ Take(c, edit) /\ ActOn(c)
  /\ row' = row \ {c[1]} /\ config' = config \cup {c[1]}
  /\ IF c[1] \in Installs THEN image' = config' \cap Installs /\ tag' = TRUE
                          ELSE UNCHANGED <<image, tag>>
  /\ onWake' = onWake \cup {c[1]}
  /\ behind' = IF box = "waking" THEN behind \cup {c[1]} ELSE behind
  /\ KillAndWake(config')
  /\ UNCHANGED <<waiting, verdict, has, stale, torn, toolVars>>

\* The build fails: the configuration keeps the packages, the agent is told.
BuildFails(c, edit) ==
  /\ c[1] \in row \cap Installs /\ c[2] = "approve" /\ Take(c, edit)
  /\ effect' = [effect EXCEPT ![c[1]] = Append(@, c[2])] /\ Fault
  /\ row' = row \ {c[1]} /\ config' = config \cup {c[1]}
  /\ UNCHANGED <<image, tag, torn, behind>> /\ Wake(config')
  /\ UNCHANGED <<waiting, verdict, onWake, has, exitWake, stale, toolVars>>

\* handleInteractiveResponse.
Answer(c, edit) ==
  /\ c[1] \in row \cap Questions /\ Take(c, edit) /\ ActOn(c)
  /\ row' = row \ {c[1]} /\ answers' = [answers EXCEPT ![c[1]] = @ + 1]
  /\ UNCHANGED <<config, image, tag, torn, behind>> /\ Wake(config)
  /\ UNCHANGED <<waiting, verdict, onWake, has, exitWake, stale, tool>>

Dispatch(c, edit) ==
  \/ Resolve(c, edit) \/ Unclaimed(c, edit) \/ Answer(c, edit)
  \/ Reject(c, edit) \/ Approve(c, edit) \/ BuildFails(c, edit)

\* askUserQuestion polls until its deadline.
\* Mutant: the answer is taken before it has come.
TakeEarly(q) ==
  /\ tool[q] = "polling" /\ sent[q] > 0
  /\ tool' = [tool EXCEPT ![q] = "answered"] /\ answers' = [answers EXCEPT ![q] = @ - 1]
  /\ UNCHANGED <<cardVars, credVars, boxVars, confVars, up, effect, faults>>

TakeAnswer(q) ==
  /\ tool[q] = "polling" /\ answers[q] > 0
  /\ tool' = [tool EXCEPT ![q] = "answered"] /\ answers' = [answers EXCEPT ![q] = @ - 1]
  /\ UNCHANGED <<cardVars, credVars, boxVars, confVars, up, effect, faults>>

Deadline(q) ==
  /\ tool[q] = "polling" /\ sent[q] > 0
  /\ tool' = [tool EXCEPT ![q] = "late"]
  /\ UNCHANGED <<cardVars, credVars, boxVars, confVars, answers, up, effect, faults>>

(***************************************************************************)
(* Expiry, crash and start.                                                *)
(***************************************************************************)
\* The timer of handleRequest: deny at once, edit the card, then drop the row.
Expire(r) ==
  /\ up /\ r \in waiting
  /\ waiting' = waiting \ {r} /\ expiring' = expiring \cup {r}
  /\ verdict' = [verdict EXCEPT ![r] = "deny"]
  /\ UNCHANGED <<cardVars, sweeping, boxVars, confVars, toolVars, up, effect, faults>>

\* Mutant: the row of an expired request is only marked.
ExpiredMarked(r, edit) ==
  /\ up /\ r \in expiring
  /\ expiring' = expiring \ {r}
  /\ card' = [card EXCEPT ![r] = IF edit THEN "edited" ELSE @]
  /\ UNCHANGED <<row, ask, clicked, clicks, sent, waiting, sweeping, verdict, boxVars, confVars,
                 toolVars, up, effect, faults>>

Expired(r, edit) ==
  /\ up /\ r \in expiring
  /\ expiring' = expiring \ {r} /\ row' = row \ {r}
  /\ card' = [card EXCEPT ![r] = IF edit THEN "edited" ELSE @]
  /\ UNCHANGED <<ask, clicked, clicks, sent, waiting, sweeping, verdict, boxVars, confVars,
                 toolVars, up, effect, faults>>

\* Everything in memory goes; undelivered questions are sent again later.
Down ==
  /\ up' = FALSE /\ Fault
  /\ ask' = [r \in Requests |-> IF ask[r] # "sending" THEN ask[r]
                                ELSE IF r \in Questions THEN "no" ELSE "over"]
  /\ clicks' = {} /\ waiting' = {} /\ expiring' = {} /\ sweeping' = {}
  /\ verdict' = [r \in Credentials |->
                   IF r \in waiting \/ ask[r] = "sending" THEN "lost" ELSE verdict[r]]
  /\ box' = "none" /\ has' = {} /\ exitWake' = FALSE
  /\ UNCHANGED <<clicked, sent, snap, onWake, stale, image, tag, behind, toolVars>>

Crash == up /\ Down /\ UNCHANGED <<row, card, config, torn, effect>>

\* The image takes up to 15 minutes: the configuration is written, the row not
\* yet deleted, and the card has lost its buttons.
CrashInBuild(c, edit) ==
  /\ up /\ c \in clicks /\ c[1] \in row \cap Installs /\ c[2] = "approve" /\ Down
  /\ config' = config \cup {c[1]} /\ torn' = [torn EXCEPT ![c[1]] = @ + 1]
  /\ card' = [card EXCEPT ![c[1]] = IF edit THEN "edited" ELSE @]
  /\ effect' = [effect EXCEPT ![c[1]] = Append(@, c[2])]
  /\ UNCHANGED row

\* sweepStaleApprovals reads its rows before the gateway can send a request.
Start ==
  /\ ~up /\ up' = TRUE
  /\ sweeping' = row \cap Credentials
  /\ UNCHANGED <<cardVars, waiting, expiring, verdict, boxVars, confVars, toolVars, effect,
                 faults>>

Sweep(r, edit) ==
  /\ up /\ r \in sweeping
  /\ sweeping' = sweeping \ {r} /\ row' = row \ {r}
  /\ card' = [card EXCEPT ![r] = IF edit THEN "edited" ELSE @]
  /\ UNCHANGED <<ask, clicked, clicks, sent, waiting, expiring, verdict, boxVars, confVars,
                 toolVars, up, effect, faults>>

Next ==
  \/ \E r \in Requests :
       \/ Request(r) \/ NoApprover(r) \/ Shown(r) \/ Sent(r) \/ SendFails(r)
       \/ Click(r, "approve") \/ Click(r, "reject")
  \/ \E c \in clicks, edit \in BOOLEAN : Dispatch(c, edit) \/ CrashInBuild(c, edit)
  \/ \E r \in Credentials, edit \in BOOLEAN : Expire(r) \/ Expired(r, edit) \/ Sweep(r, edit)
  \/ \E q \in Questions : TakeAnswer(q) \/ Deadline(q)
  \/ OtherWake \/ Spawned \/ SpawnFails \/ FirstPoll \/ Exits \/ Closed
  \/ Crash \/ Start

\* The host is restarted, its timers fire, and the platform answers an edit.
Resolving(r) == \E edit \in BOOLEAN : Expire(r) \/ Expired(r, edit) \/ Sweep(r, edit)

Fairness == WF_vars(Start) /\ \A r \in Credentials : WF_vars(Resolving(r))

Spec == Init /\ [][Next]_vars /\ Fairness

(***************************************************************************)
(* Properties.                                                             *)
(***************************************************************************)
\* Builds of a request that a crash interrupted.
Torn(r) == IF r \in Installs THEN torn[r] ELSE 0

\* However often a card is clicked, and whatever expires or crashes meanwhile,
\* one click per delivery of the card is acted on, and only that click decides:
\* a change is configured and a credential granted only if the click acted on
\* said so, and a row acted on is gone (response-handler.ts, onecli-approvals.ts,
\* interactive/index.ts).  The exception is an install whose build the host did
\* not survive: its row stays, and if the card kept its buttons too, a click may
\* start the build again, once for each such crash.
FirstClickDecides ==
  /\ \A r \in Requests \ Questions : Len(effect[r]) <= 1 + Torn(r)
  /\ \A r \in Questions : Len(effect[r]) <= sent[r]
  /\ \A r \in Changes : r \in config => \E i \in DOMAIN effect[r] : effect[r][i] = "approve"
  /\ \A r \in Credentials : verdict[r] = "approve" <=> effect[r] = <<"approve">>
  /\ \A r \in row \ Questions : Len(effect[r]) <= Torn(r)

\* A credential the gateway waits for has its row, is undecided, and is neither
\* expiring nor taken for a leftover of the previous process
\* (sweepStaleApprovals runs while new requests come in).
WaitingHasRow ==
  /\ waiting \subseteq row
  /\ waiting \cap (expiring \cup sweeping) = {}
  /\ \A r \in waiting : verdict[r] = "none" /\ effect[r] = <<>>

\* A container that is told of an approved change runs with it (self-mod/
\* apply.ts): the one that runs is killed and the next one reads the new
\* configuration.  Only a change approved while a wake is in flight, whose
\* container.json is written already, reaches a container without it.
AnnouncedIsConfigured == stale \subseteq behind

\* A credential row, whatever becomes of its request, is deleted in the end
\* (resolve, expiry, click after expiry, sweep after a restart).
CredentialRowsGo == row \cap Credentials # {} ~> row \cap Credentials = {}
=============================================================================
