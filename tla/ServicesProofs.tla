-------------------------- MODULE ServicesProofs ---------------------------
(***************************************************************************)
(* What holds of the whole: a step of Services is, for each part, a step of  *)
(* that part or leaves it alone, so what the proofs about the parts show of   *)
(* one step (DecisionProofs, CloudProofs, HostProofs, ProfileProofs) holds of  *)
(* every behaviour.                                                          *)
(***************************************************************************)
EXTENDS Services, DecisionProofs, CloudProofs, HostProofs, ProfileProofs, TLAPS

LEMMA ApprovalsPart == ASSUME [Next]_vars PROVE [Ap!Next]_(Ap!vars)
BY DEF Next, vars, Approve, Converse, Chat, Index, Remind, Connect, Text, SetUp, Know, Administer,
   Call, Live, Poll, SignIn, Rest, approvalsVars, Ap!vars, Ap!cardVars, Ap!credVars, Ap!boxVars, Ap!confVars,
   Ap!toolVars

LEMMA CliPart == ASSUME [Next]_vars PROVE [Cl!Next]_(Cl!vars)
BY DEF Next, vars, Approve, Converse, Chat, Index, Remind, Connect, Text, SetUp, Know, Administer,
   Call, Live, Poll, SignIn, Rest, cliVars, Cl!vars, Cl!rows, Cl!drain

LEMMA ConsolePart == ASSUME [Next]_vars PROVE [Co!Next]_(Co!consoleVars)
BY DEF Next, vars, Approve, Converse, Chat, Index, Remind, Connect, Text, SetUp, Know, Administer,
   Call, Live, Poll, SignIn, Rest, consoleVars, Co!consoleVars

CardsInv == ApprovalsInv /\ CliInv

THEOREM CardsInvariant == Spec => []CardsInv
<1>1. Init => CardsInv
  BY DecisionsFit, ApprovalsInit, CliInit DEF Init, CardsInv
<1>2. CardsInv /\ [Next]_vars => CardsInv'
  BY DecisionsFit, ApprovalsPart, CliPart, ApprovalsStep, CliStep DEF CardsInv
<1> QED BY <1>1, <1>2, PTL DEF Spec

\* For any number of requests, clicks, expiries, crashes and deaths of the host: one
\* click per delivery of a card is acted on, one more for each build a crash broke off,
\* and only that click decides; an ncl call has one card, and for each death of the
\* host no more further ones than a row has attempts (response-handler.ts,
\* onecli-approvals.ts, interactive/index.ts, cli/dispatch.ts).
THEOREM CardsClickDecides == Spec => []FirstClickDecides
<1>1. CardsInv => FirstClickDecides
  BY DecisionsFit, ApprovalsHold, CliHolds DEF CardsInv, FirstClickDecides
<1> QED BY <1>1, CardsInvariant, PTL

\* A container that is told of an approved change runs with it, but for changes
\* approved while it was being started; an ncl call is answered before its row is done,
\* and told of a pending approval only when one was asked for or refused
\* (self-mod/apply.ts, container-runner.ts, cli/delivery-action.ts).
THEOREM CardsAnnounced == Spec => []AnnouncedIsConfigured
<1>1. CardsInv => AnnouncedIsConfigured
  BY DecisionsFit, ApprovalsHold, CliHolds DEF CardsInv, AnnouncedIsConfigured
<1> QED BY <1>1, CardsInvariant, PTL

\* A credential the gateway waits for has its row, is undecided, and is neither
\* expiring nor taken for a leftover of the previous process (onecli-approvals.ts).
THEOREM CardsWaitingHasRow == Spec => []Ap!WaitingHasRow
<1>1. CardsInv => Ap!WaitingHasRow
  BY DecisionsFit, ApprovalsHold DEF CardsInv
<1> QED BY <1>1, CardsInvariant, PTL

\* The types of the dashboard, the counts of a user's limiter, what a pairing stream and
\* an upload have done before they go on, a trial told as it was counted, and an erasure
\* that is done before its success (admin-dashboard/index.ts).
THEOREM ConsoleInvariant == Spec => []ConsoleInv
<1>1. Init => ConsoleInv
  BY DecisionsFit, ConsoleInit DEF Init
<1>2. ConsoleInv /\ [Next]_vars => ConsoleInv'
  BY DecisionsFit, ConsolePart, ConsoleStep
<1> QED BY <1>1, <1>2, PTL DEF Spec

LEMMA LoginPart == ASSUME [Next]_vars PROVE [Lo!Next]_(Lo!loginVars)
BY DEF Next, vars, Approve, Converse, Chat, Index, Remind, Connect, Text, SetUp, Know, Administer,
   Call, Live, Poll, SignIn, Rest, loginVars, Lo!loginVars

\* The types of the door, an address's failures that are as many as its guesses since
\* they were last counted, a block that stands for as long as its cause, and a cookie
\* that is signed by the process that reads it (admin-dashboard/index.ts).
THEOREM LoginInvariant == Spec => []LoginInv
<1>1. Init => LoginInv
  BY DecisionsFit, LoginInit DEF Init
<1>2. LoginInv /\ [Next]_vars => LoginInv'
  BY DecisionsFit, LoginPart, LoginStep
<1> QED BY <1>1, <1>2, PTL DEF Spec

\* For any number of streams, requests, trials, clicks, failures and restarts of the
\* dashboard, and any number of addresses, guesses and hours: it tells a browser and an
\* administrator no more than it did, and its door keeps out guesses and nobody else
\* (admin-dashboard/index.ts).
THEOREM ConsoleWordKept == Spec => []ConsoleKeepsWord
<1>1. ConsoleInv /\ LoginInv => ConsoleKeepsWord
  BY DecisionsFit, ConsoleHolds, LoginHolds DEF ConsoleKeepsWord
<1> QED BY <1>1, ConsoleInvariant, LoginInvariant, PTL

\* What the run does to a part that is not run is nothing.
LEMMA CloudPart == ASSUME [Next]_vars PROVE [Cc!Next]_(Cc!vars)
BY DEF Next, vars, Approve, Converse, Chat, Index, Remind, Connect, Text, SetUp, Know, Administer,
   Call, Live, Poll, SignIn, Rest, cloudVars, Cc!vars

LEMMA RemindersPart == ASSUME [Next]_vars PROVE [Re!Next]_(Re!vars)
BY DEF Next, vars, Approve, Converse, Chat, Index, Remind, Connect, Text, SetUp, Know, Administer,
   Call, Live, Poll, SignIn, Rest, remindersVars, Re!vars

LEMMA AccountsPart == ASSUME [Next]_vars PROVE [Ac!Next]_(Ac!vars)
BY DEF Next, vars, Approve, Converse, Chat, Index, Remind, Connect, Text, SetUp, Know, Administer,
   Call, Live, Poll, SignIn, Rest, accountsVars, Ac!vars

\* The parts that work for a user in the cloud.
FlowsInv == CloudInv /\ RemindersInv /\ AccountsInv

THEOREM FlowsInvariant == Spec => []FlowsInv
<1>1. Init => FlowsInv
  BY CloudFit, CloudInit, RemindersInit, AccountsInit DEF Init, FlowsInv
<1>2. FlowsInv /\ [Next]_vars => FlowsInv'
  BY CloudFit, CloudPart, RemindersPart, AccountsPart, CloudStep, RemindersStep, AccountsStep
  DEF FlowsInv
<1> QED BY <1>1, <1>2, PTL DEF Spec

\* For any number of messages, sub-agents, retries and faults: a cloud message is in one
\* place or was answered once, and vanishes only with a lost entry (main.py poll_queue
\* and process_message, the gate of index.ts).
THEOREM FlowsReplyOnce == Spec => []OneReply
<1>1. FlowsInv => OneReply
  BY CloudFit, CloudHolds DEF FlowsInv, OneReply
<1> QED BY <1>1, FlowsInvariant, PTL

\* A reminder is pushed once, but for one read by several sub-agents or left behind by
\* a fault, and is not lost; the morning's briefing is drawn from the accounts of whom
\* it reaches and comes once (reminders.py, morning-briefing.ts).
THEOREM FlowsRemindOnce == Spec => []RemindedOnce
<1>1. FlowsInv => RemindedOnce
  BY CloudFit, RemindersHold, AccountsHold DEF FlowsInv, RemindedOnce
<1> QED BY <1>1, FlowsInvariant, PTL

\* The documents' part of a step of the whole.
LEMMA DocumentsPart == ASSUME [Next]_vars PROVE [Do!Next]_(Do!vars)
BY DEF Next, vars, Approve, Converse, Chat, Index, Remind, Connect, Text, SetUp, Know, Administer,
   Call, Live, Poll, SignIn, Rest, documentsVars, Do!vars, Do!objects, Do!commands, Do!indexer, Do!search, Do!chat,
   Do!history

THEOREM DocumentsInvariant == Spec => []DocumentsInv
<1>1. Init => DocumentsInv
  BY CloudFit, DocumentsInit DEF Init
<1>2. DocumentsInv /\ [Next]_vars => DocumentsInv'
  BY CloudFit, DocumentsPart, DocumentsStep
<1> QED BY <1>1, <1>2, PTL DEF Spec

\* For any number of files, links, orders and faults: what /forget, or /forget-url,
\* erased from the index does not come back by itself (commands.py, data-gateway/index.ts,
\* s3-reindex.ts).
THEOREM ErasedStaysErased == Spec => []ErasedStays
<1>1. DocumentsInv => ErasedStays
  BY CloudFit, DocumentsHold DEF ErasedStays
<1> QED BY <1>1, DocumentsInvariant, PTL

\* A question skips the search only when nothing of the user was indexed, but for a
\* search that overlapped the indexing; "done" is said of a file only when the next
\* question finds it, "still indexing" only while something is; an account is connected
\* or not as the user was last told (pipeline.py, indexer.py, url_ingestion.py; oauth.ts,
\* commands.py, morning-briefing.ts).
THEOREM UserIsToldTrue == Spec => []UserToldTrue
<1>1. DocumentsInv /\ FlowsInv => UserToldTrue
  BY CloudFit, DocumentsHold, AccountsHold DEF FlowsInv, UserToldTrue
<1> QED BY <1>1, DocumentsInvariant, FlowsInvariant, PTL

LEMMA AgentsPart == ASSUME [Next]_vars PROVE [Ar!Next]_(Ar!vars)
BY DEF Next, vars, Approve, Converse, Chat, Index, Remind, Connect, Text, SetUp, Know, Administer,
   Call, Live, Poll, SignIn, Rest, agentsVars, Ar!vars

LEMMA HostPart == ASSUME [Next]_vars PROVE [Ho!Next]_(Ho!hostVars)
BY DEF Next, vars, Approve, Converse, Chat, Index, Remind, Connect, Text, SetUp, Know, Administer,
   Call, Live, Poll, SignIn, Rest, hostVars, Ho!hostVars

LEMMA SetupPart == ASSUME [Next]_vars PROVE [Se!Next]_(Se!vars)
BY DEF Next, vars, Approve, Converse, Chat, Index, Remind, Connect, Text, SetUp, Know, Administer,
   Call, Live, Poll, SignIn, Rest, setupVars, Se!vars

\* The types of the exchange between agents, some session active, and replies that name
\* the row they answer or a later one (agent-route.ts).
THEOREM AgentsInvariant == Spec => []AgentsInv
<1>1. Init => AgentsInv
  BY HostFit, AgentsInit DEF Init
<1>2. AgentsInv /\ [Next]_vars => AgentsInv'
  BY HostFit, AgentsPart, AgentsStep
<1> QED BY <1>1, <1>2, PTL DEF Spec

\* For any number of peers, requests, replies and crashes: a reply to a peer is put into
\* an active session, and into another one than asked only if that one is closed or the
\* worker has a newer row (agent-route.ts, the runner's send_message and final text).
THEOREM RepliesStrayOnlyToNewer == Spec => StraysOnlyToNewer
<1>1. AgentsInv /\ [Next]_vars =>
        [copies' # copies => \A d \in landed' :
           /\ d.at \in active
           /\ \/ d.at = Ar!For(d) \/ Ar!For(d) \notin active
              \/ \E j \in (d.reply.row + 1)..(IF d.reply.ref = 0 THEN Len(inbox) ELSE d.reply.ref) :
                   inbox[j] # Ar!For(d)]_(Ar!vars)
  <2> SUFFICES ASSUME AgentsInv, [Next]_vars, copies' # copies, Ar!vars' # Ar!vars, NEW d \in landed'
               PROVE  /\ d.at \in active
                      /\ \/ d.at = Ar!For(d) \/ Ar!For(d) \notin active
                         \/ \E j \in (d.reply.row + 1)..(IF d.reply.ref = 0 THEN Len(inbox)
                                                                           ELSE d.reply.ref) :
                              inbox[j] # Ar!For(d)
    OBVIOUS
  <2>1. Ar!Next
    BY AgentsPart
  <2> QED BY <2>1, HostFit, AgentsStray
<1> QED BY <1>1, AgentsInvariant, PTL DEF Spec, StraysOnlyToNewer, Ar!StraysOnlyToNewer

\* The types of the host's life, the counter file that counts the deaths it was not told
\* of, a shutdown that is overtaken only by another one, what a process has not begun
\* before its phase, and settings as they were told (index.ts, circuit-breaker.ts,
\* settings-manager.ts).
THEOREM HostInvariant == Spec => []HostInv
<1>1. Init => HostInv
  BY HostFit, HostInit DEF Init
<1>2. HostInv /\ [Next]_vars => HostInv'
  BY HostFit, HostPart, HostStep
<1> QED BY <1>1, <1>2, PTL DEF Spec

\* For any number of deaths, signals and changes of settings: a start is delayed for
\* crashes only, a shutdown that has taken the services away goes on, a promised restart
\* is on its way, and settings stay as the admin was told (circuit-breaker.ts, index.ts
\* shutdown, settings/restart.ts, settings-manager.ts).
THEOREM HostWordKept == Spec => []HostKeepsWord
<1>1. HostInv => HostKeepsWord
  BY HostFit, HostHolds DEF HostKeepsWord
<1> QED BY <1>1, HostInvariant, PTL

\* A run of the wizard is at a step it has not skipped or in the flow of the channel that
\* was chosen, goes on in the order of the steps, and has behind it what it passed: what a
\* step wrote, a wired agent, a service that knows it or was not reached (setup/auto.ts,
\* setup/channels).
THEOREM SetupInvariant == Spec => []SetupInv
<1>1. Init => SetupInv
  BY HostFit, SetupInit DEF Init
<1>2. SetupInv /\ [Next]_vars => SetupInv'
  BY HostFit, SetupPart, SetupStep
<1> QED BY <1>1, <1>2, PTL DEF Spec

\* For any number of runs and mishaps: a retry resumes at the step that failed, and a run
\* that says the assistant is ready has wired it, to a service that knows the credentials
\* and the channel's adapter, unless its restart went unheard or the install broke off
\* (runStep and fail of setup/auto.ts).
THEOREM SetupWordKept == Spec => []SetupKeepsWord
<1>1. SetupInv => SetupKeepsWord
  BY HostFit, SetupHolds DEF SetupKeepsWord
<1> QED BY <1>1, SetupInvariant, PTL

LEMMA WhatsAppPart == ASSUME [Next]_vars PROVE [Wa!Next]_(Wa!vars)
BY DEF Next, vars, Approve, Converse, Chat, Index, Remind, Connect, Text, SetUp, Know, Administer,
   Call, Live, Poll, SignIn, Rest, whatsappVars, Wa!vars, Wa!sockVars, Wa!textVars, Wa!askVars, Wa!credVars

\* The types of the adapter, the place of each text, receipts that are said once, texts
\* shown as often as they were confirmed or failed, and what a purge has wiped
\* (whatsapp.ts).
THEOREM WhatsAppInvariant == Spec => []WhatsAppInv
<1>1. Init => WhatsAppInv
  BY AdaptersFit, WhatsAppInit DEF Init
<1>2. WhatsAppInv /\ [Next]_vars => WhatsAppInv'
  BY AdaptersFit, WhatsAppPart, WhatsAppStep
<1> QED BY <1>1, <1>2, PTL DEF Spec

LEMMA TelegramPart == ASSUME [Next]_vars PROVE [Te!Next]_(Te!telegramVars)
BY DEF Next, vars, Approve, Converse, Chat, Index, Remind, Connect, Text, SetUp, Know, Administer,
   Call, Live, Poll, SignIn, Rest, telegramVars, Te!telegramVars, Te!loopVars,
   Te!routeVars, Te!postVars

\* The types of the bot, what is behind an update the loop has passed, and a post that
\* was told as it was shown (telegram.ts).
THEOREM TelegramInvariant == Spec => []TelegramInv
<1>1. Init => TelegramInv
  BY AdaptersFit, TelegramInit DEF Init
<1>2. TelegramInv /\ [Next]_vars => TelegramInv'
  BY AdaptersFit, TelegramPart, TelegramStep
<1> QED BY <1>1, <1>2, PTL DEF Spec

\* For any number of texts, closes, failed sends and crashes, and a queue of any length:
\* a text handed to WhatsApp is in one place, shown once, and not left waiting by an open
\* socket that saw no failure; an update Telegram has dropped was handed to the router,
\* again only after a death, and a post without a failed call is shown as what it is
\* (whatsapp.ts sendRawMessage, flushOutgoingQueue; telegram.ts pollLoop, deliver).
THEOREM TextsKept == Spec => []MessagesKept
<1>1. WhatsAppInv /\ TelegramInv => MessagesKept
  BY AdaptersFit, WhatsAppHolds, TelegramHolds DEF MessagesKept
<1> QED BY <1>1, WhatsAppInvariant, TelegramInvariant, PTL

\* A pairing that was wiped comes back only from a copy the wipe could not reach, however
\* often the user pairs and the process dies (purgeSession, backup, the restore of the
\* next start).
THEOREM PurgedStays == Spec => []PurgedStaysOut
<1>1. WhatsAppInv => PurgedStaysOut
  BY AdaptersFit, WhatsAppHolds DEF PurgedStaysOut
<1> QED BY <1>1, WhatsAppInvariant, PTL

LEMMA ProfilePart == ASSUME [Next]_vars PROVE [Pr!Next]_(Pr!vars)
BY DEF Next, vars, Approve, Converse, Chat, Index, Remind, Connect, Text, SetUp, Know, Administer,
   Call, Live, Poll, SignIn, Rest, profileVars, Pr!vars, Pr!talk, Pr!memory, Pr!caches, Pr!stores,
   Pr!story, Pr!ghosts

\* The types of the profile's part; where an edit that was acknowledged is set, and that
\* nothing that still comes undoes it; what the history holds of the messages that are
\* finished; no more wizards begun than there is cause for (commands.py handle_profile,
\* main.py _get_chat_history, process_message, data-gateway/index.ts).
THEOREM ProfileInvariant == Spec => []ProfileInv
<1>1. Init => ProfileInv
  BY ProfileFit, ProfileInit DEF Init
<1>2. ProfileInv /\ [Next]_vars => ProfileInv'
  BY ProfileFit, ProfilePart, ProfileStep
<1> QED BY <1>1, <1>2, PTL DEF Spec

\* For any number of messages, sub-agents, edits and faults: an acknowledged edit of the
\* profile is not undone by an edit of another field, a message is answered with what was
\* stored before it, and a user is taken through the wizard once, but for what EditsStand,
\* HistoryFresh and OnboardedOnce except (commands.py handle_profile, main.py
\* _get_chat_history, process_message).
THEOREM ProfileWordKept == Spec => []ProfileKeepsWord
<1>1. ProfileInv => ProfileKeepsWord
  BY ProfileFit, ProfileHolds DEF ProfileKeepsWord
<1> QED BY <1>1, ProfileInvariant, PTL

(***************************************************************************)
(* The types of all parts.                                                 *)
(***************************************************************************)
\* The door and the bot keep the bounds of their types, the part that runs goes on to.
TypesInv == part \in Parts /\ Lo!TypeOK /\ Te!TypeOK

\* What the door counts, and what the bot has fetched and confirmed, stays within the
\* bounds of clock, restarts and updates (admin-dashboard/index.ts, telegram.ts).
THEOREM TypesInvariant == Spec => []TypesInv
<1>1. Init => TypesInv
  BY DecisionsFit, AdaptersFit, DoorInitTypes, BotInitTypes DEF Init, TypesInv
<1>2. ASSUME TypesInv, [Next]_vars PROVE TypesInv'
  <2>1. Lo!TypeOK' /\ Te!TypeOK'
    BY <1>2, DecisionsFit, AdaptersFit, LoginPart, TelegramPart, DoorTypesStep, BotTypesStep DEF TypesInv
  <2>2. part' = part
    BY <1>2 DEF Next, vars, Approve, Converse, Chat, Index, Remind, Connect, Text, SetUp, Know,
       Administer, Call, Live, Poll, SignIn, Rest
  <2> QED BY <1>2, <2>1, <2>2 DEF TypesInv
<1> QED BY <1>1, <1>2, PTL DEF Spec

\* Whichever part runs, and with any constants its assumption allows, every variable of
\* every part keeps its type and its bounds.
THEOREM ServicesTypes == Spec => []TypeOK
<1> DEFINE Inv ==
  /\ TypesInv /\ CardsInv /\ ConsoleInv /\ FlowsInv /\ DocumentsInv /\ AgentsInv /\ HostInv
  /\ SetupInv /\ WhatsAppInv /\ ProfileInv
<1>1. ASSUME Inv PROVE TypeOK
  <2>1. Ap!TypeOK /\ Cl!TypeOK /\ Co!TypeOK
    BY <1>1, DecisionsFit, ConsoleHolds DEF CardsInv, ApprovalsInv, CliInv
  <2>2. Cc!TypeOK /\ Re!TypeOK /\ Ac!TypeOK /\ Do!TypeOK
    BY <1>1, CloudFit, CloudHolds, DocTypesOK DEF FlowsInv, RemindersInv, AccountsInv, DocumentsInv
  <2>3. Ar!TypeOK /\ Ho!TypeOK /\ Se!TypeOK
    BY <1>1, HostFit, HostHolds, SetupHolds DEF AgentsInv
  <2>4. Wa!TypeOK /\ Pr!TypeOK
    BY <1>1, AdaptersFit, WhatsAppHolds, ProfileFit, ProfileTyped
  <2> QED BY <1>1, <2>1, <2>2, <2>3, <2>4 DEF TypeOK, TypesInv
<1> QED BY <1>1, TypesInvariant, CardsInvariant, ConsoleInvariant, FlowsInvariant, DocumentsInvariant,
           AgentsInvariant, HostInvariant, SetupInvariant, WhatsAppInvariant, ProfileInvariant, PTL

=============================================================================
