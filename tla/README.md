# PocketClawd: a verification development

TLA+ models of the parts of PocketClawd that carry its own logic, TLC runs that check them on
small instances, and TLAPS proofs of the safety properties of its core for every value of the
constants. Line numbers in comments and in this file refer to the repository's sources; `host:`
stands for `src/`, `runner:` for `container/agent-runner/src/`, `agent:` for
`container/sub-agent/src/`.

## 1. The system

PocketClawd is a personal assistant. A **host** process (Node, one event loop) takes messages
from chat platforms, routes them to **sessions** and starts one **container** per session; in the
container a **poll loop** feeds the messages to an agent and writes its answers back. Host and
container share no memory. They communicate through two SQLite files per session, each with one
writing side, and a heartbeat file whose mtime the host compares. In the **cloud** the host
hands messages to a pool of Python **sub-agents** over Redis instead; a **data gateway**, a worker
of the host, serves their requests to DynamoDB, S3 and OpenSearch from another Redis queue, and a
**dashboard** in the host process serves the administrator.

| component | code | state | operations |
|---|---|---|---|
| router, command gate | `host:router.ts`, `command-gate.ts` | none of its own between awaits | `routeInbound`, fan-out over wired agents, `deliverToAgent` |
| permissions | `host:modules/permissions/` | members, `pending_sender_approvals`, `pending_channel_approvals`, `awaitingNameInput` | gates, cards, clicks, name reply, replay |
| session host | `host:container-runner.ts`, `host-sweep.ts`, `container-restart.ts`, `container-runtime.ts` | `activeContainers`, `wakePromises`, sweep position | wake, spawn, kill, close, sweep tick, restart, start-up clean-up |
| session databases | `host:db/session-db.ts`, `session-manager.ts`, `runner:db/` | `messages_in`, `processing_ack`, `messages_out`, `delivered`, heartbeat | inserts, claims, completions, sync, reset |
| poll loop | `runner:poll-loop.ts`, `scheduling/task-script.ts`, `mcp-tools/interactive.ts` | first poll, claimed batch, follow-ups, open turn | poll, claim, commands, script gate, query, follow-up poll, awaited answer |
| delivery | `host:delivery.ts` | `inflightDeliveries`, `deliveryAttempts` | two polls, drain, attempts, system actions |
| scheduling | `host:modules/scheduling/` | task rows of `messages_in` | schedule, cancel, pause, resume, update, fan-out of recurrences |
| approvals, OneCLI, questions, self-modification | `host:modules/approvals/`, `interactive/`, `self-mod/` | pending rows, pending promises, timers, container configuration and image | request, card, click, expiry, sweep, build, restart |
| agent-to-agent | `host:modules/agent-to-agent/`, `runner:mcp-tools/core.ts` | `source_session_id`, `in_reply_to`, destinations | ask, reply, route, give up |
| ncl command line | `host:cli/`, `runner:cli/ncl.ts` | the row of a call, its response row | request, dispatch, approval, response, time-out |
| host start-up and shutdown | `host:index.ts`, `circuit-breaker.ts`, `channels/channel-registry.ts`, `cloud/bootstrap.ts` | counter file, clean marker, adapters, services | backoff, bootstrap, set-up with retries, shutdown, restart |
| Telegram adapter | `host:channels/telegram.ts` | `nextOffset`, the request of the loop, updates with the router | fetch, hand over, post, fail, die |
| WhatsApp adapter | `host:channels/whatsapp.ts`, `modules/whatsapp-session-backup.ts` | socket, `outgoingQueue`, `pendingQuestions`, pairing here and in S3 | dial, send, flush, answer, back up, restore, purge |
| cloud chat | `host:cloud/redis-queue/`, `router.ts`, `index.ts`, `agent:main.py` | Redis lists and streams, dead letters, responses | enqueue, take, answer, retry, bury, deliver |
| documents | `host:cloud/upload-worker/`, `s3-reindex.ts`, `data-gateway*/`, `agent:indexer.py`, `url_ingestion.py`, `rag/pipeline.py`, `commands.py` | S3 objects, queues, index, flags and caches | upload, dispatch, index, scan, search, list, delete, erase, draft, read a link |
| reminders | `agent:reminders.py` | a sorted set | add, cancel, scan, push, remove |
| accounts and briefing | `host:cloud/admin-dashboard/oauth.ts`, `cloud/morning-briefing.ts`, `agent:commands.py` | `oauth:state`, `oauth:tokens` | connect, callback, disconnect, refresh, brief |
| profile, consent, history | `agent:main.py`, `commands.py`, `persona/preference_probe.py` | Redis keys, caches, two tables | wizard, consent, edit, probe, store, refill, forget |
| dashboard | `host:cloud/admin-dashboard/` | bridge state, SSE clients, upload records, tables, settings; `failedAttempts`, cookies | QR, push, upload, test, wipe, list, settings; limit, sign in, check, route |
| setup wizard | `setup/` | `.env`, adapters, agents, service, skip list | its steps, failure, retry in a new process |

How they interact: an adapter calls `routeInbound`; the router asks the permission gates, writes
`messages_in` and awaits `wakeContainer`; the container polls `messages_in`, claims rows in
`processing_ack` and writes `messages_out`; the two delivery polls read `messages_out`, call the
adapter and record in `delivered`; rows of kind `system` are applied by the delivery loop itself
(scheduling, ncl) or lead to a card (approvals, self-modification, questions, risky ncl commands).
The sweep copies acks into `messages_in`, wakes containers for due rows, kills stuck ones, resets
what dead ones left, and clones completed recurring rows. A click on a card comes back through a
chain of response handlers; what it decides ends in a restarted container, an answer row, a
promise of the credential gateway, a command run, or a message put into `routeInbound` once more.
In the cloud `deliverToAgent` pushes to Redis; whichever sub-agent pops the entry answers over a
response list the host polls; files go from an adapter through S3 and three queues into the index.

What is hard: host functions interleave at every `await`; host and container run truly in
parallel on files; each of them may die at any point while the files stay; a provider may fall
silent with its stream open; statuses live in two databases that agree only after the next sync;
an approval replays a message through gates that other messages have meanwhile changed; a card may
be clicked before its row is written, after it expired, or in front of a host that starts; several
sub-agents share caches that are read before and written after an await; BRPOP removes what a
dying consumer holds, and a push may fail after it took effect; tokens, pairings and chunks that
were deleted may be written back by what was under way; a second signal starts a second shutdown.

What makes each part correct is stated by the properties of section 3. In short, for the core: one
container per session, known to the host, but for those that outlived a `docker stop`; a row held by
a live loop stays claimed, outcomes are final and completed rows are not prompted again, but for
rows such a container had in its hands; a row is given up exactly when its retries are spent; due
rows settle; one drain at a time, in order, without duplicates but for refusals and
restarts; a recurring task is never forgotten; only those with access wake an agent, nothing refused
is stored, a message is routed once, one card at a time, and what was approved is not lost silently.
For the rest: the first click decides; who is told of a change has it; a message is answered, and
once; what the user is told is so; what was erased, revoked or wiped does not come back; nothing
accepted is lost but by the named faults.

## 2. Modules

| module | models | composes |
|---|---|---|
| `Session` | session host, session databases, poll loop, faults and time for one session | |
| `Inbox` | abstract: what a session promises for its messages | |
| `SessionInbox` | the refinement mapping Session → Inbox | EXTENDS `Session`, INSTANCE `Inbox` |
| `Tasks` | recurring tasks of one session, operators for the agent's requests and the sweep | |
| `Outbound` | delivery of one session and the requests it applies | EXTENDS `Tasks` |
| `Router` | fan-out, gates, command gate | |
| `Permissions` | approval cards, clicks, name reply, replay | EXTENDS `Router` |
| `Approvals` | self-modification, credentials, questions: cards, clicks, expiry, the container they change | |
| `AgentRoute` | messages between agents and the way back of the replies | |
| `Cli` | ncl inside a container | |
| `Host` | life of the host process; settings | |
| `WhatsApp` | the WhatsApp adapter and its pairing | |
| `Telegram` | the Telegram adapter: the loop of updates, the posts | |
| `CloudChat` | chat over Redis | |
| `Documents` | from upload or link to index, and what is asked of it | |
| `Reminders` | the reminder set and its pushes | |
| `Accounts` | OAuth tokens and the briefing | |
| `Profile` | consent, wizard, profile, chat history | |
| `Console` | the dashboard's four desks: screen, upload, trial, data | |
| `Login` | the dashboard's door: limiter, cookies, CSRF check | |
| `Setup` | the setup wizard | |
| `DecisionParts` | constants and variables of cards, ncl calls and dashboard | INSTANCE `Approvals`, `Cli`, `Console`, `Login` |
| `CloudParts` | those of what runs for a user in the cloud | INSTANCE `CloudChat`, `Reminders`, `Accounts`, `Documents` |
| `HostParts` | those of agents, host and setup | INSTANCE `AgentRoute`, `Host`, `Setup` |
| `AdapterParts` | those of the channel adapters | INSTANCE `WhatsApp`, `Telegram` |
| `ProfileParts` | those of the user's profile | INSTANCE `Profile` |
| `Services` | all of these, side by side | EXTENDS the five |
| `MC*` | model values, symmetry, scenarios for TLC | the above |
| `SessionProofs`, `OutboundProofs`, `PermissionsProofs` | theorems about the core | EXTENDS `SessionInbox`, `Outbound`, `Permissions` |
| `DecisionProofs`, `CloudProofs`, `HostProofs`, `ProfileProofs` | the inductive invariants of the parts, and lemmas about one step of each | EXTENDS the group's module (`HostProofs` also `AdapterParts`) |
| `ServicesProofs` | the theorems about `Services` | EXTENDS the four and `Services` |

### Session

Variables follow the columns and fields: `status`, `seq`, `tries` are columns of `messages_in`;
`ack` is `processing_ack`; `active` is `activeContainers.get(session)`; `client` is the `docker run`
process the host has spawned, whose 'close' deletes that entry; `spawning` counts `spawnContainer`
calls in flight; `sweep` says where a tick is; per container instance, `phase`, `first`
(isFirstPoll), `seen` (rows a poll has read and not claimed yet), `batch` (processingIds), `follow`
(rows the follow-up poll has claimed before its await), `stale` (such rows whose query has ended),
`turn` (rows in front of the agent without a result). A host action is the synchronous stretch
between two awaits, a container action likewise; a poll is cut once more, between its read
(`PollReads`, `FollowReads`) and its claim (`PollClaims`, `FollowClaims`), as two containers may
poll one session. `SweepBegin`/`SweepCheck`/`SweepReset` are `sweepSession` around the await of the
wake and around its kill; `FollowPush`/`FollowDrop` what the follow-up poll does after the pre-task
script. Time is reduced to the comparisons the code makes: a claim is older than its tolerance
(`aged`), a heartbeat is newer than a claim (`beat`) or older than the ceiling (`hb = "stale"`),
`process_after` is in the future (`notDue`).

A kill has two ends. While the host is blocked in `docker stop` (`stopping`) nothing else of the
host runs and the container goes on. Then `Kill`: the container is gone, or the stop failed, in
which case only the client is killed and the error goes no further (`container-runner.ts:203-207`);
`Closed` deletes the entry either way, the sweep goes on to reset the claims, and the next wake
starts a container beside the one that lives on. `ClientDies` has the same effect without a stop,
and `HostStart` may leave any of the containers it finds (`container-runtime.ts:84-95`). `detached`
are the containers the host has lost that way. `shared` is history: the rows such a container has
had in its hands unfinished since, and those unacknowledged when it booted. A restart commits
the wake row and begins its stop in one step (`Restart`, one synchronous stretch), and the stop
ends in another, so the old container may poll in between. Faults: `Crash`, `HostCrash`,
`SpawnFails`, a failed stop, `ClientDies`, a `SweepReset` whose deletion of the claims throws
(`host-sweep.ts:323`), a `Stop` (restart without message) and `Hang` (a silent provider).

### Outbound and Tasks

A row of `messages_out` is its place in the order of `seq`; `queue[p]` is the snapshot poll `p`
works through, `sending[p]` whether the adapter has been asked or has answered. `Throw` is the
catch branch with its attempt counter, `Settle` `markDelivered`. `Show` and `Reject` are the
adapter and external. Requests about tasks are rows like any other; `HandleSystemAction` applies
them by the operators of `Tasks`. The sweep of `Tasks` is reduced to what tasks see: sync, reset,
read the completed recurring rows, clone each in two writes. Between the two the host may crash
(`FanOutCrash`) or the second may throw and be caught (`FanOutThrows`); a row whose cron does not
parse or whose clone is not written is passed over (`FanOutSkips`, `recurrence.ts:46`). Cron
arithmetic is reduced to: the next occurrence is later.

### Router and Permissions

`routing` holds `routeInbound` calls awaiting the interceptor, `jobs` fan-outs awaiting
`deliverToAgent` with the agents still to come. `Advance` is one stretch of the loop: agents that do
not take the message are passed by (an approval may be asked for them), the first one that does is
served. Filtered commands go on, a denied admin command and a row id already present throw and end
the fan-out. `asked`/`askedChannels` are the approval requests awaiting an approver's DM; the
pending rows carry the state of their card: the platform takes the buttons away at the first click
(`chat-sdk-bridge.ts:321-350`), so a card is sending, shown or spent. `naming` is
`awaitingNameInput`. A click that has no effect (not the approver, lost while the host was down,
delivery failed) spends the card and leaves the row: `SenderCardWasted`, `ChannelCardWasted`. One
approver answers every card; a name prompt that cannot be delivered empties the one slot, whichever
channel waits in it by then (`NamePromptFails`); mention-sticky channels are groups, one session per
channel and agent.

### Approvals

`row` is `pending_approvals` with `pending_questions`; `ask` says how far a request's card is;
`clicks` are clicks whose card edit is awaited; `waiting` is the map `pending` of the credential
gateway, `expiring` and `sweeping` rows whose edit to "Expired" is awaited. The handlers of a click
run through without giving way up to the deletion of the row (`buildAgentGroupImage` blocks the
process), so `Dispatch` is one step, and `CrashInBuild` the death of the host in the middle of it.
`box`, `snap`, `has`, `onWake` follow the container a change restarts: its configuration is read
when the wake begins (`Wake`, `Spawned`), and the announcement taken at its first poll.

### AgentRoute

Sessions of one group (`Peers`) ask a worker; `inbox` is the worker's `messages_in` by the
`source_session_id` the host stamps, a reply carries the row it refers to or 0: the MCP server is a
process of its own, so `send_message` never carries one, and the final text carries the newest row
of the destination. `PeerAffinity`, `Origin` and `Newest` are the look-ups of
`resolveTargetSession`. A crash may come between routing and `markDelivered`.

### Cli

`WriteRequest`, `TakeResponse` and `TimesOut` are the process in the container; `Drain`,
`Dispatch`, `RequestApproval`, `Respond`, `MarkDelivered` the stretches of one drain of the
delivery loop. Which commands a scope refuses is data (`command`); approved ones are dispatched
once more as the host's own.

### Host

`phase` is where `main` is; `Signals` are shutdowns that may overlap, each with its own place
(`stop`); `adapter` follows `initChannelAdapters` with its network retries; `breaker` is the
counter file and the marker. `settings` is the table, `.env` and what the admin was last told;
values are compared, never parsed, with "bad" for one that fails its validation.

### WhatsApp

`link` is the socket with every place where a dial may be left undone (`stuck`); `hand` the text
`flushOutgoingQueue` awaits, `direct` those a `sendRawMessage` awaits, `live` the ones that went to
the socket now open. Pairings are numbers: `local`, `remote` (S3) and `valid` (known to WhatsApp).
`held` is the one `connectSocket` has read for its dial, before it awaits the version of WhatsApp
Web (`Reads`, `Dialed`), and the socket uses from then on. `CredsUpdate` begins to write what is
held to the directory (`saving`), `CredsSaved` ends that and arms the timer of the backup. `LogsOut`
is a purge that reaches WhatsApp; `Wipe` deletes the directory, whatever a dial still holds.
The socket library, WhatsApp and the user are external.

### Telegram

`loop` is where `pollLoop` is: about to ask, asking, with an answer, in its pause; the batch is what
lies between `offset` and `fetched`, handed to the router at once and without waiting
(`forwarding`). Telegram keeps what is not `confirmed` by a later offset. A death begins the loop
anew at offset 0 and cuts off what the router had not done (`cut`); `repeats` counts the deaths
after which Telegram returns a forwarded update once more. `post` is how far `deliver` is with a
message: media fall back to a link, everything else that fails is logged and counts as delivered.

### CloudChat, Documents, Reminders, Accounts, Profile

One user each. Redis lists are sequences, popped whole; a step of a sub-agent is what lies between
two of its awaits on Redis, or one attempt with whatever outcome `wait_for` allows. In streams mode
the first sub-agent creates the consumer group at "$" (`EnsureGroup`, `agent:main.py:826`): entries
before that are never read (`gone`). Faults name
what may fail: a push that throws, with or without effect; a consumer that dies with what it
popped; a key that expires. In `Documents` a file is cut into `Chunks` requests to the gateway,
which also serves the searches and orders of the user in order; `plan` fixes what a behaviour sends
and asks, to keep the cases apart. In `Accounts` the user's name inside a key is split as the code
splits it, so tagged names lead to the tag. In `Profile` a value is the message that set it, so an
old value written back is seen; `at` is where each sub-agent awaits.

### Console, Login and Setup

The four desks of `Console` share no state and one is used per behaviour; `link` is the bridge's
state and `emits` the SSE updates between their awaits; a wipe goes table by table and page by page
with writes beside it. `Login` is the same server's way to them: `failedAttempts` with `older`,
which of two entries is the older and pruned first, a clock of which only the comparisons with the
window and the block matter, and per browser the `cookie` with the process that signed it; a request
is one step, as the handler does not await before its route. `guesses` and `unknown` are the
histories its properties speak of: failures per address since it was last let in or forgotten, and
browsers that were asked to sign in. `Setup` is the wizard as a path through steps (`run.at`), what
it leaves (`world`), `fail()` with its offers, and the retry as a new process with its skip list.

### Services

The parts share no state with each other or with the sessions, so a step of one leaves the others as
they are, and every behaviour of the whole is for each part a behaviour of that part. `part` says
which of the fourteen runs; the others rest in one initial state. This is the composition by
interleaving of independent components, cut down to one representative for each part: nothing is
lost, as every property of `Services` is a conjunction of properties of single parts. Where parts of
the program do share something (a card of `Cli` is a pending approval, a draft of `Documents` an
object of the bucket `Console` wipes), the module concerned models its own side.

## 3. Runs

| run | instance | shows |
|---|---|---|
| `session_settles` | 2 messages, 2 faults but no lost container, fairness | `DueRowsSettle` |
| `session_restart` | a scheduled scripted task, an on_wake row, 2 container slots, `MaxTries` 1, 1 fault, a lost container | `AtMostOneRunner`, `HostKnowsRunner`, `FailedIsExhausted`, `OutcomesAreFinal`, `CompletedNotReprompted`, `OnWakeOnFirstPoll` |
| `session_commands` | a chat row, a `/clear`, an awaited answer, `MaxTries` 0, 1 fault, a lost container | `SessionInv`, `RunnerHoldsClaims`, `OpenTurnIsClaimed`, `ImplementsInbox` |
| `session_fresh_killed` | violation | `FreshContainerSpared` |
| `session_uncharged` | violation | `CrashedClaimCharged` |
| `session_push_lost` | violation | `OpenTurnIsReset` |
| `outbound` | 2 rows of any kind, both polls, 1 series of 3 rows, 1 restart, a crash, throw or skip in the fan-out, fairness | `NoDuplicate`, `GivenUpAfterAttempts`, `SeriesNotForgotten`, `OneCarrier`, `InOrder`, `RowsSettle` |
| `outbound_paused` | violation | `PausedDoesNotRun` |
| `permissions` | a group wired to two agents, an unknown group, 4 messages of a stranger and of a sender without id, 1 fault | the named parts of `RoutingInv` |
| `permissions_replay` | violation | `ApprovedReachesAgent` |
| `permissions_sticky` | violation | `StickyNeedsMention` |
| `services` | each of the fourteen parts in turn, its own bounds and fairness | the seventeen properties below |

| property of `services` | of the parts | says |
|---|---|---|
| `FirstClickDecides` | `Approvals`, `Cli` | one click per delivered card is acted on and decides; an ncl call is put before the admin once, and again only for a death of the host, at most as often as its row has attempts |
| `AnnouncedIsConfigured` | `Approvals`, `Cli` | a container told of a change runs with it, but for one whose wake was in flight; a call's row is done only when it was answered |
| `CredentialRowsGo` | `Approvals` | a credential row is deleted in the end |
| `StraysOnlyToNewer` | `AgentRoute` | a reply goes to an active session, another one than asked only if that is closed or a newer row came |
| `OneReply`, `Answered` | `CloudChat` | a message is in one place or answered, twice only after a push that threw though it took effect; answered in the end unless lost or stranded |
| `UserToldTrue` | `Documents`, `Accounts` | the search is skipped only with nothing indexed; "done" and "still indexing" are true; accounts are connected as told |
| `ErasedStays` | `Documents` | what was erased from the index does not come back by itself |
| `EveryFileTried` | `Documents` | a stored file gets a try by the indexer |
| `RemindedOnce` | `Reminders`, `Accounts` | in time, once, not lost; a briefing is drawn from its reader's accounts |
| `MessagesKept` | `WhatsApp`, `Telegram` | a text is in one place, shown once, not left waiting by an open socket; an update Telegram dropped was handed to the router, once but for deaths, and a post without a failed call is shown as what it is |
| `PurgedStaysOut` | `WhatsApp` | a purged pairing comes back only from S3 or from what had read it before: a dial, a save, an upload under way |
| `SetupKeepsWord` | `Setup` | a retry resumes at the failed step; "ready" has what it says |
| `ProfileKeepsWord` | `Profile` | edits stand, history is fresh, the wizard runs once |
| `ConsoleKeepsWord` | `Console`, `Login` | picture, page, records, test, wipe and report say what is so; an address has few guesses per window, is turned away for its own, and a signed-in browser is served |
| `HostKeepsWord` | `Host` | the delay is earned, a begun shutdown ends, a promised restart comes, settings hold |
| `TypeOK` | all | types |

The exceptions a property of `services` makes are cases TLC found, each a behaviour of the code,
named in the module by a history variable (`behind`, `torn`, `twice`, `raced`, `unsure`, `late`,
`excused`, `overtaken`, `crossed`, ...) that is set by the overlap or fault in question and by
nothing else. What remains claims that nothing else may go wrong. `EditsStand` has the widest: an
edit may fall to an overlapping one (`overlapped`, also when that is refused or fails), to one that
read what is older (`undone`), and an acknowledgement speaks of the field until it is edited anew
(`acked`).

### Bounds, and why they are enough

* Two container slots: a slot is reused once dead, and two live containers already break
  `AtMostOneRunner`. Two messages (three with roles) are enough for every pair of batch,
  follow-up and arrival; `MaxTries = 1` has all three cases of the reset (retried, exhausted,
  skipped because not due). `MaxFaults` bounds crashes, failed spawns, stops and resets, dead
  clients and silent stops together; hangs, kills by the sweep and ageing of claims are not
  bounded. `MaxDetached` bounds the containers that live on without the host at a time: with two
  slots one of them leaves the other to a successor. The safety runs have one; `session_settles`
  has none, as two rows and two containers polling for them are some millions of states, beyond
  what TLC can check liveness on: rows beside a lost container are not shown to
  settle (with a single row, and `MaxDetached` 1 in its configuration, the run passes as well).
* `MaxPrompt` is no smaller than the number of rows that may be pending together.
* Two rows of `messages_out` already overtake and race; `MaxAttempts = 2` has both branches of the
  catch. Three rows of a series make two clonings, which a crash in between turns into a double
  carrier. When the rows of a series are used up `SweepEnds` leaves the recurrence where it is;
  no property depends on a further row.
* In `permissions` the wired group has two agents, so a replay meets one that already has the
  message, or one that has not been asked yet; agent 3 is created by a name reply. The faults may
  be a restart, a lost or wasted card, a name prompt that fails, or an approver that cannot be
  reached.
* `services`, approvals: an install with a server (two changes meet in one wake), two credentials
  (one expires while the other is clicked or swept), one question; two clicks, so that every
  request can be clicked twice; one fault.
* agents: two sessions of one request each and one reply, so an answer has a wrong session to go
  to; one crash before `markDelivered`. cloud: a wired and a direct message, two sub-agents, the
  code's two retries, two faults. documents: `MCPlans` has a personal file, a corporate and
  misfiled one, a link once and twice, links with files, and each order, in two chunks, which make
  a half-indexed file; reminders: two, two sub-agents, two faults.
* accounts: a bare and a tagged user, two links of any service, a morning, a fault. whatsapp: a
  note and a question, a queue of one (the second text meets the full queue), two pairings, two
  troubles. setup: all seven channels, two processes, one failing step. profile: `MCSayings`
  pairs what two sub-agents can be asked at once (two or three messages) with what is known of the
  user. console: two codes, one page, two files with one record kept, two moves, one fault.
* login: two addresses and a table of one entry, so one prunes the other; `MaxFailures`, window,
  block and clock are such that an entry begins, counts, blocks, expires and begins again; one
  restart. telegram: two updates, one with text; a plain post and one with media; one fault.
* cli: one call that waits while another restarts its container, one that asks and one that is
  refused; two attempts, a death of the host. host: `MCLives` has two shutdowns overlapping the
  set-up of two adapters, four starts of crashes and stops in a row, and four settings changes
  with a restart; the network retries are the code's three.
* `CHECK_DEADLOCK FALSE` only in the runs of `Permissions` and `Services`: the finite set of
  messages has been handed over and nothing is open. The other modules never stop (the sweep goes
  round).
* Symmetry is used in `session_restart` and `session_commands` over container slots, never in a
  run with a liveness property.

### Fairness

`Session!FairSpec`: the sweep re-arms its own timer in a `finally` (`host-sweep.ts:122-145`), Node
runs pending callbacks, a live poll loop polls, time passes. A provider that is not hung ends its
turns and closes a stream that was asked to end. `docker stop` returns, but need not have worked.
`Spawned` and `Closed` are strongly fair: their callbacks wait in the queue of the event loop, which
gets to them between two stretches in which the host is blocked; that they are not enabled inside
those does not put them off. Nothing is assumed about arrivals, crashes, spawn failures, failed
stops or hung providers; spawn failures are bounded by `MaxFaults`, and a fair `Spawned` says that
the runtime can start a container again eventually. `DueRowsSettle` leaves out on_wake rows: one
that a reset makes due after a container's first poll waits for that container's end.
`Outbound!FairSpec`: the polls re-arm whatever happened in a tick, and an adapter answers, if only
with an error. An adapter whose promise never settles stalls every session, since a poll awaits one
after the other (`delivery.ts:121-149`); the assumption excludes that case and the hazard list names
it.

`Services!Fairness` repeats the weak fairness of three parts. Approvals: a host that is down is
started again, and its timers and the platform's edit of a card end (`onecli-approvals.ts:198-255`);
nothing is assumed of clicks. Cloud chat: some sub-agent starts (it creates the group in its
`Reading`) and reads, `wait_for` ends an attempt within 45 seconds whatever the model does
(`agent:main.py:1025`), the host polls its response list. Documents: the upload worker, the indexer
and the 15-minute scan each go on (`s3-reindex.ts`). Faults are bounded, never fair. Since one part
runs, each condition is guarded by `part`.

### Divergences the violation runs show

1. `session_fresh_killed`: the tick that wakes a container judges it by the dead one's claims and
   kills it (`host-sweep.ts:188` against `:174-177`, `:311-314`).
2. `session_uncharged`: a fresh container deletes the claims of a crashed one before the sweep
   charges a retry, so a message that crashes its container is retried without limit
   (`runner:db/connection.ts:175` against `host-sweep.ts:14-16`). `DueRowsSettle` holds in spite of
   it because crashes are bounded in the model.
3. `session_push_lost`: follow-ups are completed when pushed; a stream that hangs loses them
   (`poll-loop.ts:342` against `:275-278`).
4. `outbound_paused`: a pause meets a claimed row, the next sync overwrites it, and the series goes
   on (`modules/scheduling/db.ts:46`).
5. `permissions_replay`: the replay ends at the first agent that already has the message
   (`router.ts:576`, primary key of `messages_in`), so the approved agent may never get it.
   `ApprovedIsRouted` is what does hold.
6. `permissions_sticky`: storing a message as context creates the session which mention-sticky
   takes for an earlier mention (`router.ts:373`).

### Met while modelling, without a run of their own

Each is part of the module named, mostly as an exception in a property.

* Session, Outbound, Permissions: the follow-up poll pushes context rows with no trigger row beside
  them (`poll-loop.ts:309` against the gate at `:87-93`); `getPendingMessages` applies its LIMIT
  before it drops acked rows, so a due row behind many newer context rows stays invisible to the
  container the host keeps waking (`runner:db/messages-in.ts:78`); the script of a row dropped from
  a finished query touches the heartbeat after the claim, which the claim check then skips while
  the container lives (`task-script.ts:104`); rows with no routing or no adapter count as delivered
  (`delivery.ts:251`); the pending row of a sender stays when there is no delivery adapter, where
  the comment says it is not created (`sender-approval.ts:110` against `:18-23`); clicker ids are
  prefixed by channel type, stored ones by `wa:` or `tg:` (`permissions/index.ts:237`).
* Session: the wake message of a restart is "picked up only by the fresh container's first poll"
  (`container-restart.ts:16-17`), but it is committed before the stop (`:27-43`): a container whose
  own first poll falls into `docker stop` takes it, and its claim is dropped or retried when it is
  gone. `OnWakeOnFirstPoll` is what does hold. A container that outlives its `docker stop`, its
  client or a host start (`container-runner.ts:203-207`, `container-runtime.ts:84-95`) polls on
  beside its successor: what both have in hand may be answered twice.
* Approvals: a change approved while a wake is in flight reaches a container whose configuration
  was read before; a host that dies in the build leaves row and card.
* AgentRoute: `agent-route.ts:119-125` promises that replies land in the session that asked; the
  row they go by is the newest one of the peer.
* Cli: an approved command is dispatched as the host's, so `groups restart` restarts every session
  of the group and its branch for "only the calling session" (`groups.ts:65-100`) is never taken;
  the call is told "sent to admin" when no approver was found or the delivery failed
  (`dispatch.ts:125`); a late response row stays pending for ever; rows of the poll loop and the MCP
  server are numbered without a transaction (`runner:db/messages-out.ts:49-57`).
* CloudChat: in streams mode the gate and every retry push to a list nobody reads, and nobody
  claims the entries of a dead consumer.
* Documents: a link alone in a message is awaited 20 seconds and then cancelled, though the log
  says it goes on (`agent:main.py:439`); the flag of a user is cleared by the first of two files;
  one link pasted twice doubles its chunks; `/forget-url` says "Removed" of nothing; `/delete`
  takes the first key with that ending and leaves the chunks; `/list` shows objects after `/forget`;
  the count in `s3-reindex.ts` looks at a field no chunk has, so corporate files are indexed again
  every week; an admin upload without the flag is looked for at a key that does not exist.
* Accounts: the briefing takes a user's name from the third part of a key, so for `wa:` and `tg:`
  users it merges tokens under the tag and writes to nobody (`morning-briefing.ts:165`, `:209-224`);
  a briefing under way writes back tokens `/disconnect` has deleted.
* Profile: `/profile` with the other field unset is acknowledged and then rejected; the first "ok"
  of a new user grants consent unasked; a read under way refills the history cache with what is
  older than a message stored since (`agent:main.py:529-531`); `/forget` leaves the tables.
* WhatsApp: a disconnect during a dial does not log out (there is no open socket) and wipes the
  directory, but not what the dial has read before its await (`whatsapp.ts:581-590`): it may open
  with the old pairing, which the next `creds.update` writes back (`:751-754`). An `open` during an
  old flush does not flush again, so texts wait for the next one
  (`whatsapp.ts:476-479`); after a close one dial and one retry are made, then none; before the
  first open that leaves `setup` unresolved; the "periodic backup" is never started.
* Setup: a retry skips saving the time zone the user named; a failed service restart is a warning;
  two channels call `fail()` without `await`; an adapter install that broke off counts as there.
* Console: emits overlap and an older one may arrive last; a wipe answers success with batches
  missed; a list cut short by S3 is shown as whole; two fields looked for are never written.
* Login: `/api/clear-rate-limits` answers "Rate limits cleared" and clears nothing
  (`admin-dashboard/index.ts`); a request whose comparison of credentials throws is neither answered
  nor counted; the reset of an expired entry in `isRateLimited` changes nothing, as both what
  prunes and what clears come after it; windows begin with a failure, so two of them let through
  twice the limit less two within one window's time.
* Telegram: updates are confirmed before the router is done, so a death loses what it was doing; a
  failed post is logged and the row counts as delivered.
* Host: a stop during the backoff resets the crash count; the marker is written before the work; the
  shutdown that finds the services gone throws and never exits, the other goes on; `stopCliServer`
  waits for clients; a restart latch is never cleared; an import skips values equal to what
  resolves now.

## 4. Proofs

All proofs are checked by TLAPS for arbitrary constants under the named assumptions of the
modules; `Permissions` needs in addition `NewChannelAssumption`, which says how a channel wired
through a card is configured (`modules/permissions/index.ts:466-486`).

* **SessionProofs.** `SessionInv` is inductive. `AtMostOneRunner` alone is not: it needs `HostInv`
  (the entry of `activeContainers` is that of the one docker client, a live container without an
  attached client is lost, a spawn is in flight only without an entry, and claims are reset only
  when no container is left but lost ones). `RunnerHoldsClaims` and `OpenTurnIsClaimed` need
  `MemoryInv` (what the memory of an instance holds in each phase, up to what a poll has read),
  `StrayInv` (what a lost container has in its hands is in `shared`) and `HostInv` again: claims
  are taken away only behind a dead container, or with a lost one about, whose rows are excepted.
  `FailedIsExhausted` needs `RowsInv`. From it: `OneRunner`, `HostKnows`, `ClaimsAreHeld`,
  `OpenTurnHeld`, `GivenUpIsExhausted`, and the action properties `FinalOutcomes`, `NoReprompt`,
  `WakeOnFirstPoll`. `SessionImplementsInbox`: each step of `Session` maps to a step of `Inbox` or a
  stutter under `MessageState`, using `SessionInv`; a row in `shared` is "stray" there, which
  `Inbox` reaches by a step of its own and promises nothing about.

  The exceptions are as narrow as the code allows: with no failed stop, dead client or leftover
  container (`MaxDetached = 0`) `detached` and `shared` stay empty and the properties are
  unconditional.
* **OutboundProofs.** `OutboundInv` is inductive: `NoDuplicate` needs `ShownInv` (a row without an
  outcome has been shown at most once more than refusals and restarts account for, and only while
  being recorded) and `OneDrain`; `GivenUpAfterAttempts` needs `AttemptsInv`; `InOrder` needs
  `OrderInv`; `SeriesNotForgotten` needs `TasksInv`, and `OneCarrier`, which counts, `CarrierInv`:
  what a clone in progress has read is the one row that carries the recurrence. Theorems
  `OutboundInvariant`, `DrainsOnce`, `ShownOnce`, `AttemptsCounted`, `SeriesKept`,
  `OneCarrierEach`, `DeliveredInOrder`.
* **PermissionsProofs.** `RoutingInv` is inductive: `OnlyTrusted`, `RoutedOnce` and
  `RefusedNotStored` follow from what one stretch of the fan-out may write (`AdvanceFacts`);
  `ApprovedIsRouted` needs `ApprovedInv` (an approved pair is wired, passes the gates for good and
  is served), which needs `AskedInv` (a card is about a message that engaged) and `AdvanceServes`
  (a stretch never skips an agent that wakes). Theorems `RoutingInvariant`, `RoutesOnce`,
  `TrustedOnly`, `RefusedStaysOut`, `OneCardEach`, `NameFindsRow`, `ApprovedRouted`.

The proofs about `Services` come in two layers. A group's proof module knows nothing of the whole:
for each of its parts it shows that the part's `Init` makes an inductive invariant true, that one
step of the part's `Next` or a stutter keeps it, and that it implies the part's properties
(`ApprovalsInit`, `ApprovalsStep`, `ApprovalsHold`, and so on for each part). `ServicesProofs` adds
that a step of the whole is, for each part, a step of that part or leaves it alone
(`ApprovalsPart` ...), and concludes for `Spec`. The invariants, and why they are needed:

* **DecisionProofs.** `ApprovalsInv`: what each place of a request implies, for a change
  (`ChangeInv`: what is clicked, built, announced), a question and a credential
  (`CredentialInv`: what is waited for has its row, is undecided, neither expiring nor swept);
  without it `FirstClickDecides` fails at the click that finds a half-removed row. `CliInv`: the
  drain handles one row (`OneByOne`), and per call (`CallInv`) the attempts since the last death
  bound the cards and what is handled says what was answered. `ConsoleInv`: per desk, what a
  stream, an upload, a trial and an erasure have behind them before the next await. `LoginInv`:
  an entry says of an address's failures how many of them lie in its window and how old the first
  is (`EntryInv`), from which the bound over two windows follows.
* **CloudProofs.** `CloudInv`: `FateInv` gives each message a sum over the places it can be in, its
  answers and its losses (`gone` for what came before the group), which every step keeps.
  `RemindersInv`: a reminder not in the set was pushed, cancelled or is held by a reader; how many
  hold it bounds its pushes. `AccountsInv`: tokens are those of a link of that user, and what the
  briefing will store again is what is stored, or the user was told something meanwhile
  (`RosterInv`). `DocumentsInv`: a chunk due is present somewhere (`DueInv`); the flag of a user who
  has files is up (`FlagInv`); what a search under way has read is what it had (`SearchInv`); what
  was erased is neither stored nor on its way back, but for the named overlaps (`ErasedInv`).
* **HostProofs.** `AgentsInv`: `RefersAhead`, a reply names its row or a later one. `HostInv`: the
  counter file counts the deaths it was not told of (`Counted`); of overlapping shutdowns the later
  overtakes (`Overtaken`); what a process has not begun before its phase (`Unbegun`); a promised
  restart has its shutdown (`Promised`); settings are as told (`Told`). That some shutdown is first
  to take the services away is a pigeonhole argument over the stages. `SetupInv`: where a run is
  fixes what it has behind it and what it skips.
  Of the adapters, in the same module: `WhatsAppInv`: `PlacesInv` (a text in one place),
  `ReceiptsInv`, `ShownInv` (shown no more often than confirmed or failed), `WaitsInv`, `FirstInv`,
  and `PurgeInv` (where a wiped pairing may still be at each stage of the purge: held by a dial,
  being saved, being uploaded, in S3). `TelegramInv`:
  `UpdateInv` (an update below the offset was forwarded as often as deaths allow) and `PostInv`.
* **ProfileProofs.** `ProfileInv` has three parts beside the types. For `EditsStand`: an
  acknowledged edit that no other overlapped is set somewhere (`PutInv`), by a request in the
  gateway's queue or by the table, with only later edits of its field behind it, and no read for an
  edit before it (`SetAt`); what is cached or about to be put keeps it (`AckedInv`); two sub-agents
  that edit at once are both marked (`Apart`); a message in hand is nowhere yet (`NewInv`), and has
  no read under way before it asks (`ProbeInv`). `EditsStand` alone says nothing of the queue, whose
  next request may undo the edit. For `HistoryFresh`: a finished message is in the chat table, raced
  a refill, or its store lies in the queue before every read somebody still waits for (`PushedInv`,
  `FetchInv`), so what a read returns has it (`SeenInv`); this is the queue's order at work. For
  `OnboardedOnce`: wizards begun and those about to begin, counted as the sub-agents that stand
  before the greeting or behind it, are no more than the excuses and one (`WizardInv`).

**ServicesProofs** states `CardsInvariant`, `CardsClickDecides`, `CardsAnnounced`,
`CardsWaitingHasRow`, `ConsoleInvariant`, `LoginInvariant`, `ConsoleWordKept`, `FlowsInvariant`,
`FlowsReplyOnce`, `FlowsRemindOnce`, `DocumentsInvariant`, `ErasedStaysErased`, `UserIsToldTrue`,
`AgentsInvariant`, `RepliesStrayOnlyToNewer`, `HostInvariant`, `HostWordKept`, `SetupInvariant`,
`SetupWordKept`, `WhatsAppInvariant`, `TelegramInvariant`, `TextsKept`, `PurgedStays`,
`ProfileInvariant`, `ProfileWordKept` and `ServicesTypes`: `TypeOK` of the whole, from the invariants
of the parts, which hold the types, and from `TypesInv`, which has the bounds of the door and of the
bot that their invariants do without. Their assumptions are `DecisionsFit`, `CloudFit`, `HostFit`,
`AdaptersFit` and `ProfileFit`: the constant assumptions of the parts, which TLC evaluates for the
instance of the run.

So every invariant and every action property a passing run checks is a theorem, and so is the
refinement `ImplementsInbox`. Only model-checked: the liveness properties
`DueRowsSettle`, `RowsSettle`, `CredentialRowsGo`, `Answered` and `EveryFileTried`, as liveness
under fairness is out of the prover's reach.

## 5. Not modelled, and why

* Prompt text, formatting, attachments, typing, mounts, images and credentials: data no property
  tells apart. Thread modes, `agent-shared` sessions, `replyTo`, the log of dropped messages.
  Session look-up and creation are synchronous in one process.
* No callers in this commit: `container-manager/lifecycle.ts`, `retryFromDLQ` and `listDLQ`,
  acquire and release of `RedisDistributedLock`, `pdpa/index.ts` (withdrawal, yearly renewal),
  `index_s3_object`, `agent:documents/commands.py`, `recordContainerFailure`,
  `requestPairingCode`, `validateCrossField`, `stopMorningBriefing`. Inert: the cloud scheduler,
  whose list of users is empty; `/api/wa-state/stream`, which is not routed.
* Entries of the chat stream that do not parse, which a sub-agent drops without a reply: everything
  this repository pushes there is the `JSON.stringify` of a message (`host:cloud/redis-queue/`).
* Rate limiters: counters whose excess by concurrent requests nothing depends on.
* The chat SDK state store: its locks and lists are used by a library outside the repository.
* The SQL and column scopes of ncl; `create_agent`; mount validation; settings' parsing.
* The dashboard's logs, charts and HTML; the AWS clients; health checks, two of which ask only
  whether something was initialised.
* Language models, speech, vision, slides and the tools of the sub-agent; embeddings and ranking.
* Terraform; the install scripts' commands; scripts `setup/` names that are not in this checkout.

Components without a module are listed with their reason in `PROJECT.json`.

## 6. Plan

Done: all modules of section 2; every safety property of the passing runs proved.

Next:

1. A context scenario of `Session` for the LIMIT of `getPendingMessages`, which counts rows that
   are acknowledged already (`db/messages-in.ts:78`).
2. The three writers of `messages_out` in a container, which number their rows by reading the
   maximum (`db/messages-out.ts:52`).
3. `DueRowsSettle` for several rows beside a lost container, once a smaller instance is found.
4. The liveness properties stay with TLC.
