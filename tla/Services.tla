----------------------------- MODULE Services ------------------------------
(***************************************************************************)
(* The parts of the system that share no state with each other or with the   *)
(* sessions, side by side; DecisionParts, CloudParts, HostParts, AdapterParts *)
(* and ProfileParts say with which constants and variables.  A step of one     *)
(* part leaves the others alone, so every behaviour of the whole is, for each  *)
(* part, a behaviour of that part; a behaviour here runs one of them, the      *)
(* others rest as they began.                                                  *)
(***************************************************************************)
EXTENDS DecisionParts, CloudParts, HostParts, AdapterParts, ProfileParts

VARIABLE part \* the part that runs

vars == <<part, approvalsVars, cliVars, consoleVars, loginVars, cloudVars, remindersVars,
  accountsVars, documentsVars, agentsVars, hostVars, setupVars, whatsappVars, telegramVars,
  profileVars>>

Parts == {"approvals", "agents", "cloud", "documents", "reminders", "accounts", "whatsapp",
  "setup", "profile", "console", "cli", "host", "telegram", "login"}

\* A part that rests has one initial state.
Init ==
  /\ part \in Parts
  /\ Ap!Init /\ Ar!Init /\ Cc!Init /\ Do!Init /\ Re!Init /\ Ac!Init /\ Wa!Init /\ Se!Init /\ Pr!Init
  /\ Co!Init /\ Cl!Init /\ Ho!Init /\ Te!Init /\ Lo!Init
  /\ part # "approvals" => \A r \in Ap!Requests : ask[r] = "over"
  /\ part # "cloud" => ~streams
  /\ part # "documents" => plan = CHOOSE p \in FilePlans : TRUE
  /\ part # "whatsapp" => handed = Wa!Delivered
  /\ part # "profile" => script = CHOOSE s \in Sayings : TRUE
  /\ part # "console" => desk = "screen"
  /\ part # "cli" => command = CHOOSE s \in CallScripts : TRUE
  /\ part # "host" => life = CHOOSE l \in Ho!Lifes : TRUE
  /\ part # "login" => secrets = CHOOSE c \in SecretChoices : TRUE

\* The parts that rest.
Rest ==
  /\ UNCHANGED part
  /\ IF part = "approvals" THEN TRUE ELSE UNCHANGED approvalsVars
  /\ IF part = "agents" THEN TRUE ELSE UNCHANGED agentsVars
  /\ IF part = "cloud" THEN TRUE ELSE UNCHANGED cloudVars
  /\ IF part = "documents" THEN TRUE ELSE UNCHANGED documentsVars
  /\ IF part = "reminders" THEN TRUE ELSE UNCHANGED remindersVars
  /\ IF part = "accounts" THEN TRUE ELSE UNCHANGED accountsVars
  /\ IF part = "whatsapp" THEN TRUE ELSE UNCHANGED whatsappVars
  /\ IF part = "setup" THEN TRUE ELSE UNCHANGED setupVars
  /\ IF part = "profile" THEN TRUE ELSE UNCHANGED profileVars
  /\ IF part = "console" THEN TRUE ELSE UNCHANGED consoleVars
  /\ IF part = "cli" THEN TRUE ELSE UNCHANGED cliVars
  /\ IF part = "host" THEN TRUE ELSE UNCHANGED hostVars
  /\ IF part = "telegram" THEN TRUE ELSE UNCHANGED telegramVars
  /\ IF part = "login" THEN TRUE ELSE UNCHANGED loginVars

Approve == part = "approvals" /\ Ap!Next /\ Rest
Converse == part = "agents" /\ Ar!Next /\ Rest
Chat == part = "cloud" /\ Cc!Next /\ Rest
Index == part = "documents" /\ Do!Next /\ Rest
Remind == part = "reminders" /\ Re!Next /\ Rest
Connect == part = "accounts" /\ Ac!Next /\ Rest
Text == part = "whatsapp" /\ Wa!Next /\ Rest
SetUp == part = "setup" /\ Se!Next /\ Rest
Know == part = "profile" /\ Pr!Next /\ Rest
Administer == part = "console" /\ Co!Next /\ Rest
Call == part = "cli" /\ Cl!Next /\ Rest
Live == part = "host" /\ Ho!Next /\ Rest
Poll == part = "telegram" /\ Te!Next /\ Rest
SignIn == part = "login" /\ Lo!Next /\ Rest

Next == Approve \/ Converse \/ Chat \/ Index \/ Remind \/ Connect \/ Text \/ SetUp \/ Know
  \/ Administer \/ Call \/ Live \/ Poll \/ SignIn

\* The fairness of each part, while it runs.
Fairness ==
  /\ WF_approvalsVars(part = "approvals" /\ Ap!Start)
  /\ \A r \in Credentials : WF_approvalsVars(part = "approvals" /\ Ap!Resolving(r))
  /\ WF_cloudVars(part = "cloud" /\ Cc!Reading)
  /\ \A w \in Workers : WF_cloudVars(part = "cloud" /\ Cc!Working(w))
  /\ WF_cloudVars(part = "cloud" /\ Cc!Responding)
  /\ WF_documentsVars(part = "documents" /\ Do!Dispatch)
  /\ WF_documentsVars(part = "documents" /\ Do!Indexing)
  /\ WF_documentsVars(part = "documents" /\ Do!Scanning)

Spec == Init /\ [][Next]_vars /\ Fairness

(***************************************************************************)
(* What the parts promise.                                                 *)
(***************************************************************************)
\* The variables of the part that runs keep their types; the others rest.
TypeOK ==
  /\ part \in Parts
  /\ part = "approvals" => Ap!TypeOK
  /\ part = "agents" => Ar!TypeOK
  /\ part = "cloud" => Cc!TypeOK
  /\ part = "documents" => Do!TypeOK
  /\ part = "reminders" => Re!TypeOK
  /\ part = "accounts" => Ac!TypeOK
  /\ part = "whatsapp" => Wa!TypeOK
  /\ part = "setup" => Se!TypeOK
  /\ part = "profile" => Pr!TypeOK
  /\ part = "console" => Co!TypeOK
  /\ part = "cli" => Cl!TypeOK
  /\ part = "host" => Ho!TypeOK
  /\ part = "telegram" => Te!TypeOK
  /\ part = "login" => Lo!TypeOK

\* However often a card is clicked, and whatever expires or crashes meanwhile,
\* one click per delivery of the card is acted on, and only that click decides; an
\* ncl call has one card, but for those a death of the host costs it
\* (response-handler.ts, onecli-approvals.ts, interactive/index.ts, cli/dispatch.ts).
FirstClickDecides == Ap!FirstClickDecides /\ Cl!AskedOnce

\* A container that is told of an approved change runs with it, but for one
\* whose start the approval met half-way; an ncl call is answered before its row is
\* done, and as it is (self-mod/apply.ts, container-runner.ts, cli/delivery-action.ts).
AnnouncedIsConfigured == Ap!AnnouncedIsConfigured /\ Cl!AnsweredWhenDone

\* A credential row is deleted in the end, whatever becomes of its request
\* (onecli-approvals.ts: resolve, expiry, the sweep after a restart).
CredentialRowsGo == Ap!CredentialRowsGo

\* A reply to a peer is put into an active session, and into another one than
\* asked only if that one is closed or the worker has a newer row
\* (agent-route.ts, the runner's send_message and final text).
StraysOnlyToNewer == Ar!StraysOnlyToNewer

\* A cloud message is in one place or was answered once, whatever is retried,
\* buried or lost; it vanishes only with a lost entry (main.py, index.ts gate).
OneReply == Cc!OneReply

\* A cloud message is answered, if only by an apology, unless it was lost or is
\* stranded on the list no sub-agent reads (main.py poll_queue).
Answered == Cc!Answered

\* A question skips the search only when no file of the user was indexed, but for a
\* search that overlapped the indexing; "done" is said of a file only when the next
\* question finds it, and "still indexing" only while something is; an account is
\* connected or not as the user was last told (pipeline.py, indexer.py,
\* url_ingestion.py; oauth.ts, commands.py, morning-briefing.ts).
UserToldTrue == Do!NoDocsIsTrue /\ Do!NoticesAreTrue /\ Ac!TokensAsTold

\* What /forget, or /forget-url, erased from the index does not come back by itself
\* (commands.py, the gateway's delete_all_user_data and delete_ingested_url,
\* s3-reindex.ts).
ErasedStays == Do!ErasedStays

\* A file that was stored gets a try by the indexer, whatever fails between the
\* upload and it (upload-worker, s3-reindex.ts).
EveryFileTried == Do!EveryFileTried

\* A reminder is pushed in time and once, but for one read by two sub-agents or
\* left behind by a fault, and is not lost; the morning's briefing is drawn from the
\* accounts of whom it reaches and comes once (reminders.py, morning-briefing.ts).
RemindedOnce == Re!RemindedOnce /\ Ac!BriefedOnce

\* A text handed to WhatsApp is in one place, shown once, and not left waiting by
\* an open socket that saw no failure; an update Telegram has dropped was handed to the
\* router, and again only after a death, and a post without a failed call is shown as what
\* it is (whatsapp.ts sendRawMessage, flushOutgoingQueue; telegram.ts pollLoop, deliver).
MessagesKept ==
  /\ Wa!OutgoingKept
  /\ Te!UpdatesKept /\ Te!ForwardedOnce /\ Te!DeliveredIsShown

\* A pairing that was wiped comes back, to the directory, to S3 or to a dial, only from
\* what the wipe could not reach: an upload, a save or a dial that had it in its hands,
\* or the copy in S3 (purgeSession, connectSocket, saveCreds, backup, restore).
PurgedStaysOut == Wa!PurgedStaysOut

\* A retried setup resumes at the step that failed, and setup that says all is set
\* after wiring a channel has what it says, but for what RetryResumes and
\* ReadyMeansReady except (setup/lib/runner.ts fail, setup/auto.ts).
SetupKeepsWord == Se!RetryResumes /\ Se!ReadyMeansReady

\* An acknowledged edit of the profile is not undone by an edit of another field, a
\* message is answered with what was stored before it, and a user is taken through the
\* wizard once, but for what EditsStand, HistoryFresh and OnboardedOnce except
\* (commands.py handle_profile, main.py _get_chat_history, process_message).
ProfileKeepsWord == Pr!EditsStand /\ Pr!HistoryFresh /\ Pr!OnboardedOnce

\* The admin's page, its records of uploads, its test chat, its wipe and its lists say
\* what is so, but for what the parts except; its door bounds the guesses of an address, turns
\* one away only for failures of its own, and stays open to a browser that is signed in
\* (admin-dashboard/index.ts, live-data.ts, data-stats.ts, whatsapp-bridge.ts).
ConsoleKeepsWord ==
  /\ Co!PictureIsCurrent /\ Co!PageIsFed /\ Co!RecordsAreTrue
  /\ Co!TestIsTrue /\ Co!WipeIsTrue /\ Co!ReportIsTrue
  /\ Lo!GuessesAreFew /\ Lo!BlockedForCause /\ Lo!SignedInIsServed

\* A start is delayed for crashes only, a shutdown that has taken the services away goes
\* on, a promised restart is on its way, and settings stay as the admin was told
\* (circuit-breaker.ts, index.ts shutdown, settings/restart.ts, settings-manager.ts).
HostKeepsWord ==
  Ho!BackoffIsEarned /\ Ho!ShutdownIsWhole /\ Ho!RestartComes /\ Ho!SettingsHold

=============================================================================
