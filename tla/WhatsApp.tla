------------------------------ MODULE WhatsApp ------------------------------
(***************************************************************************)
(* The WhatsApp adapter (channels/whatsapp.ts): one socket that closes and   *)
(* is dialled again, texts that wait in memory while it is closed, questions  *)
(* answered by a slash command, and the pairing kept in a local directory and *)
(* in S3.  One chat; formatting, media, groups and identifiers are data.     *)
(* The socket library, WhatsApp itself and the user are external.            *)
(***************************************************************************)
EXTENDS Naturals, Sequences, FiniteSets, Functions

CONSTANTS
  Notes,       \* texts the host delivers
  Questions,   \* ask_question cards the host delivers
  Scenarios,   \* bound: sets of notes and questions delivered in one behaviour
  MaxQueue,    \* MAX_OUTGOING_QUEUE
  MaxPairings, \* bound: codes the user scans
  MaxTrouble   \* bound: closes, failures, log-outs, purges, reconnects, crashes together

ConstantAssumption == MaxQueue \in Nat \ {0} /\ MaxPairings \in Nat /\ MaxTrouble \in Nat

Receipt(q) == <<"receipt", q>> \* "<label> by <name>", said when q is answered
Texts == ({"note"} \X Notes) \cup ({"ask", "receipt"} \X Questions)
Delivered == Texts \ ({"receipt"} \X Questions)
None == <<"none", "none">>

VARIABLES
  host,      \* "down", "starting" (setup awaits the first open), "running" or "failed"
  link,      \* the socket: "none", "first" (setup dials), "dialing", "resting" (5 s),
             \* "redialing", "stuck" (no dial is left), "made", "open", "out" (logged out)
  connected, \* connected
  queue,     \* outgoingQueue
  hand,      \* the text flushOutgoingQueue awaits; flushing is hand # None
  direct,    \* texts a sendRawMessage awaits
  live,      \* those of hand and direct that went to the socket that is open
  there,     \* those of hand and direct that WhatsApp has shown
  handed, sent, dropped, lost, \* texts ever handed over, confirmed, shed, gone with the process
  shown, unclear, \* how often a text was shown; failed though it was shown
  failed,    \* a send failed since the last open
  pending,   \* the entry of pendingQuestions, or None
  coming, answered, \* replies being prepared; questions the user has replied to
  acted,     \* <<question replied to, question the reply decided>>
  backed,    \* DATA_BUCKET is set: the pairing is copied to S3
  local, remote, valid, \* pairing in the directory, in S3, known to WhatsApp (0: none)
  held,      \* the one connectSocket has read for the dial or socket there is (0: none)
  saving,    \* those a creds.update is writing to the directory (saveCreds)
  pairings,  \* pairings so far
  timer,     \* backupTimer
  uploads,   \* pairings on their way to S3
  leaving,   \* teardown: "no", "reconnect" or "exit" while its backup is awaited
  purging,   \* purgeSession: "no", "logout" or "s3" by what is awaited
  gone, late,\* pairings wiped by a purge; those of them left in a dial, a save or an upload
             \* under way, or in S3
  trouble

sockVars == <<host, link, connected>>
textVars == <<queue, hand, direct, live, there, handed, sent, dropped, lost, shown, unclear,
  failed>>
askVars == <<pending, coming, answered, acted>>
credVars == <<backed, local, remote, valid, held, saving, pairings, timer, uploads, gone,
  late>>
vars == <<sockVars, textVars, askVars, credVars, leaving, purging, trouble>>

\* Texts are watched with a pairing at hand and no bucket, the pairing and its copy
\* without texts: the texts of other scenarios are over before the first start.
Init ==
  /\ host = "down" /\ link = "none" /\ connected = FALSE
  /\ queue = <<>> /\ hand = None /\ direct = {} /\ live = {} /\ there = {}
  /\ \E S \in Scenarios : handed = {t \in Delivered : t[2] \notin S}
  /\ sent = {} /\ dropped = {} /\ lost = handed
  /\ shown = [t \in Texts |-> 0] /\ unclear = [t \in Texts |-> 0] /\ failed = FALSE
  /\ pending = None /\ coming = {} /\ answered = {} /\ acted = {}
  /\ backed = (handed = Delivered)
  /\ pairings = (IF backed THEN 0 ELSE MaxPairings)
  /\ local = pairings /\ remote = 0 /\ valid = pairings
  /\ held = 0 /\ saving = {} /\ timer = FALSE /\ uploads = {} /\ gone = {} /\ late = {}
  /\ leaving = "no" /\ purging = "no" /\ trouble = 0

Trouble == trouble < MaxTrouble /\ trouble' = trouble + 1

(***************************************************************************)
(* Texts.                                                                  *)
(***************************************************************************)
\* A full queue sheds its oldest text.
Enqueue(t) ==
  LET full == Len(queue) >= MaxQueue
  IN /\ queue' = Append(IF full THEN Tail(queue) ELSE queue, t)
     /\ dropped' = IF full THEN dropped \cup {Head(queue)} ELSE dropped

\* sendRawMessage up to its await: to the socket when connected, else to the queue.
SendRaw(t) ==
  /\ handed' = handed \cup {t}
  /\ \/ connected /\ direct' = direct \cup {t} /\ UNCHANGED <<queue, dropped>>
        /\ live' = IF link = "open" THEN live \cup {t} ELSE live
     \/ ~connected /\ Enqueue(t) /\ UNCHANGED <<direct, live>>

Deliver(t) ==
  /\ host = "running" /\ t \in Delivered \ handed
  /\ SendRaw(t)
  /\ UNCHANGED <<sockVars, hand, there, sent, lost, shown, unclear, failed, askVars,
       credVars, leaving, purging, trouble>>

\* WhatsApp takes a text.
Show(t) ==
  /\ link = "open" /\ t \in live \ there
  /\ there' = there \cup {t}
  /\ shown' = [shown EXCEPT ![t] = @ + 1]
  /\ UNCHANGED <<sockVars, queue, hand, direct, live, handed, sent, dropped, lost,
       unclear, failed, askVars, credVars, leaving, purging, trouble>>

\* The await of sendRawMessage returns an id; a question is registered only then.
Sent(t) ==
  /\ t \in direct \cap there
  /\ direct' = direct \ {t} /\ live' = live \ {t} /\ there' = there \ {t}
  /\ sent' = sent \cup {t}
  /\ pending' = IF t[1] = "ask" THEN t ELSE pending
  /\ UNCHANGED <<sockVars, queue, hand, handed, dropped, lost, shown, unclear, failed,
       coming, answered, acted, credVars, leaving, purging, trouble>>

\* A send on a socket that was closed fails; any other may.
Fails(t) ==
  /\ IF t \in live THEN Trouble ELSE UNCHANGED trouble
  /\ live' = live \ {t} /\ there' = there \ {t} /\ failed' = TRUE
  /\ unclear' = IF t \in there THEN [unclear EXCEPT ![t] = @ + 1] ELSE unclear

SendFails(t) ==
  /\ t \in direct /\ Fails(t)
  /\ direct' = direct \ {t} /\ Enqueue(t)
  /\ UNCHANGED <<sockVars, hand, handed, sent, lost, shown, askVars, credVars, leaving,
       purging>>

\* The queue from its head, one await per text: the flush goes on, or ends when
\* nothing is left.  It does not look at connected.
FlushFrom(rest, on, others) ==
  IF rest = <<>> THEN hand' = None /\ queue' = rest /\ live' = others
  ELSE /\ hand' = Head(rest) /\ queue' = Tail(rest)
       /\ live' = IF on THEN others \cup {Head(rest)} ELSE others

FlushSent ==
  /\ hand # None /\ hand \in there
  /\ FlushFrom(queue, link = "open", live \ {hand})
  /\ there' = there \ {hand} /\ sent' = sent \cup {hand}
  /\ UNCHANGED <<sockVars, direct, handed, dropped, lost, shown, unclear, failed, askVars,
       credVars, leaving, purging, trouble>>

\* Mutant: the text whose send failed is not put back.
FlushLoses ==
  /\ hand # None /\ Fails(hand)
  /\ hand' = None
  /\ UNCHANGED <<sockVars, queue, direct, handed, sent, dropped, lost, shown, askVars,
       credVars, leaving, purging>>

FlushFails ==
  /\ hand # None /\ Fails(hand)
  /\ queue' = <<hand>> \o queue /\ hand' = None
  /\ UNCHANGED <<sockVars, direct, handed, sent, dropped, lost, shown, askVars, credVars,
       leaving, purging>>

\* The user answers a question by its slash command.
Answer(q) ==
  /\ shown[<<"ask", q>>] > 0 /\ q \notin answered /\ host \in {"starting", "running"}
  /\ answered' = answered \cup {q} /\ coming' = coming \cup {q}
  /\ UNCHANGED <<sockVars, textVars, pending, acted, credVars, leaving, purging, trouble>>

\* The reply decides the question registered last, or goes on to the agent.
Handle(q) ==
  /\ q \in coming /\ coming' = coming \ {q}
  /\ \/ pending # None
        /\ acted' = acted \cup {<<q, pending[2]>>} /\ pending' = None
        /\ SendRaw(Receipt(pending[2]))
     \/ pending = None /\ UNCHANGED <<acted, pending, handed, direct, live, queue, dropped>>
  /\ UNCHANGED <<sockVars, hand, there, sent, lost, shown, unclear, failed, answered,
       credVars, leaving, purging, trouble>>

(***************************************************************************)
(* The socket.                                                             *)
(***************************************************************************)
\* The factory restores the directory from S3 when it is empty; setup dials.
Restored == IF local = 0 THEN remote ELSE local

\* connectSocket reads the directory first, behind or before a save under way, and
\* awaits the version of WhatsApp Web then.
Reads == {local} \cup saving

Start ==
  /\ host = "down" /\ host' = "starting" /\ link' = "first"
  /\ \/ local' = Restored /\ UNCHANGED trouble
     \/ local = 0 /\ remote # 0 /\ Trouble /\ UNCHANGED local
  /\ held' = local'
  /\ UNCHANGED <<connected, textVars, askVars, backed, remote, valid, saving, pairings,
       timer, uploads, gone, late, leaving, purging>>

Dialed ==
  /\ link \in {"first", "dialing", "redialing"} /\ link' = "made"
  /\ UNCHANGED <<host, connected, textVars, askVars, credVars, leaving, purging, trouble>>

\* The dial of setup rejects it; one after a close is repeated once.
DialFails ==
  /\ Trouble /\ held' = 0
  /\ \/ link = "first" /\ link' = "none" /\ host' = "failed"
     \/ link = "dialing" /\ link' = "resting" /\ UNCHANGED host
     \/ link = "redialing" /\ link' = "stuck" /\ UNCHANGED host
  /\ UNCHANGED <<connected, textVars, askVars, backed, local, remote, valid, saving,
       pairings, timer, uploads, gone, late, leaving, purging>>

Redial ==
  /\ link = "resting" /\ link' = "redialing" /\ held' \in Reads
  /\ UNCHANGED <<host, connected, textVars, askVars, backed, local, remote, valid, saving,
       pairings, timer, uploads, gone, late, leaving, purging, trouble>>

\* The user scans the code: new credentials, saved and due for a backup.
Pair ==
  /\ link = "made" /\ held = 0 /\ pairings < MaxPairings
  /\ pairings' = pairings + 1 /\ local' = pairings + 1 /\ valid' = pairings + 1
  /\ held' = pairings + 1 /\ timer' = backed
  /\ UNCHANGED <<sockVars, textVars, askVars, backed, remote, saving, uploads, gone, late,
       leaving, purging, trouble>>

\* connection.update "open": flush what waits unless a flush is under way.
Open ==
  /\ link = "made" /\ held # 0 /\ held = valid
  /\ link' = "open" /\ connected' = TRUE /\ timer' = backed /\ failed' = FALSE
  /\ host' = IF host = "starting" THEN "running" ELSE host
  /\ IF hand = None THEN FlushFrom(queue, TRUE, live) ELSE UNCHANGED <<hand, queue, live>>
  /\ UNCHANGED <<direct, there, handed, sent, dropped, lost, shown, unclear, askVars,
       backed, local, remote, valid, held, saving, pairings, uploads, gone, late, leaving,
       purging, trouble>>

\* connection.update "close", not logged out: dial again.
Closes(reads) ==
  /\ connected' = FALSE /\ link' = "dialing" /\ live' = {} /\ held' \in reads

Close ==
  /\ link \in {"made", "open"} /\ Trouble /\ Closes(Reads)
  /\ UNCHANGED <<host, queue, hand, direct, there, handed, sent, dropped, lost, shown,
       unclear, failed, askVars, backed, local, remote, valid, saving, pairings, timer,
       uploads, gone, late, leaving, purging>>

\* ... logged out, by the phone or because the pairing is no longer valid.
LoggedOut ==
  /\ \/ link = "open"
     \/ link = "made" /\ held # 0 /\ held # valid
  /\ IF link = "open" THEN Trouble /\ valid' = 0 ELSE UNCHANGED <<trouble, valid>>
  /\ connected' = FALSE /\ link' = "out" /\ live' = {} /\ held' = 0
  /\ host' = IF host = "starting" THEN "failed" ELSE host
  /\ UNCHANGED <<queue, hand, direct, there, handed, sent, dropped, lost, shown, unclear,
       failed, askVars, backed, local, remote, saving, pairings, timer, uploads, gone, late,
       leaving, purging>>

(***************************************************************************)
(* The pairing and its copy.                                               *)
(***************************************************************************)
\* creds.update: what the socket holds is written to the directory, then a backup
\* is due.  (Where the pairing is watched.)
CredsUpdate ==
  /\ link \in {"made", "open"} /\ held # 0 /\ backed /\ held \notin saving
  /\ saving' = saving \cup {held}
  /\ UNCHANGED <<sockVars, textVars, askVars, backed, local, remote, valid, held, pairings,
       timer, uploads, gone, late, leaving, purging, trouble>>

CredsSaved(n) ==
  /\ n \in saving /\ saving' = saving \ {n}
  /\ local' = n /\ timer' = backed
  /\ UNCHANGED <<sockVars, textVars, askVars, backed, remote, valid, held, pairings,
       uploads, gone, late, leaving, purging, trouble>>

\* What backup() reads when it starts.
Reading == IF local = 0 \/ ~backed THEN {} ELSE {local}

BackupStarts ==
  /\ timer /\ timer' = FALSE /\ uploads' = uploads \cup Reading
  /\ UNCHANGED <<sockVars, textVars, askVars, backed, local, remote, valid, held, saving,
       pairings, gone, late, leaving, purging, trouble>>

BackupEnds(n) ==
  /\ n \in uploads /\ uploads' = uploads \ {n}
  /\ \/ remote' = n /\ UNCHANGED trouble
     \/ Trouble /\ UNCHANGED remote
  /\ UNCHANGED <<sockVars, textVars, askVars, backed, local, valid, held, saving, pairings,
       timer, gone, late, leaving, purging>>

\* teardown up to its await of the last backup: the dashboard's reconnect, or the
\* shutdown of the host.
Teardown(why) ==
  /\ host = "running" /\ leaving = "no" /\ purging = "no" /\ Trouble
  /\ leaving' = why /\ connected' = FALSE /\ timer' = FALSE
  /\ uploads' = uploads \cup Reading
  /\ UNCHANGED <<host, link, textVars, askVars, backed, local, remote, valid, held, saving,
       pairings, gone, late, purging>>

\* sock.end() raises a close that is no log-out, so the socket is dialled again.
Ended ==
  /\ leaving = "reconnect" /\ local \notin uploads /\ leaving' = "no"
  /\ IF link \in {"made", "open"} THEN Closes(Reads)
     ELSE UNCHANGED <<connected, link, live, held>>
  /\ UNCHANGED <<host, queue, hand, direct, there, handed, sent, dropped, lost, shown,
       unclear, failed, askVars, backed, local, remote, valid, saving, pairings, timer,
       uploads, gone, late, purging, trouble>>

\* Only the directory and S3 survive the process.
Dies ==
  /\ host # "down"
  /\ IF leaving = "exit" THEN local \notin uploads /\ UNCHANGED trouble ELSE Trouble
  /\ host' = "down" /\ link' = "none" /\ connected' = FALSE
  /\ lost' = lost \cup Range(queue) \cup direct \cup ({hand} \ {None})
  /\ queue' = <<>> /\ hand' = None /\ direct' = {} /\ live' = {} /\ there' = {}
  /\ failed' = FALSE /\ pending' = None /\ coming' = {}
  /\ held' = 0 /\ saving' = {}
  /\ timer' = FALSE /\ uploads' = {} /\ leaving' = "no" /\ purging' = "no"
  /\ late' = IF purging = "s3" THEN late \cup {remote} ELSE late
  /\ UNCHANGED <<handed, sent, dropped, shown, unclear, answered, acted, backed, local,
       remote, valid, pairings, gone>>

\* purgeSession up to the await of logout().
Purge ==
  /\ host = "running" /\ leaving = "no" /\ purging = "no" /\ Trouble
  /\ purging' = "logout" /\ connected' = FALSE /\ timer' = FALSE
  /\ UNCHANGED <<host, link, textVars, askVars, backed, local, remote, valid, held, saving,
       pairings, uploads, gone, late, leaving>>

\* logout() and end(): an open socket is logged out; or logging out fails and the
\* socket is only ended, which dials again and reads behind the wipe; or there is
\* none to end, and a dial under way goes on with what it has read or now reads.
LogsOut ==
  \/ /\ link = "open" /\ link' = "out" /\ valid' = 0 /\ connected' = FALSE /\ live' = {}
     /\ held' = 0
  \/ link \in {"made", "open"} /\ Closes({0} \cup saving) /\ UNCHANGED valid
  \/ /\ link \notin {"made", "open"} /\ UNCHANGED <<connected, link, live, valid>>
     /\ \/ UNCHANGED held
        \/ link \in {"dialing", "redialing"} /\ held' \in {0} \cup saving

\* Mutant: the directory stays.
WipeNothing ==
  /\ purging = "logout" /\ purging' = "s3" /\ LogsOut
  /\ gone' = gone \cup 1..pairings /\ late' = late \cup uploads \cup saving \cup {held'}
  /\ UNCHANGED <<host, queue, hand, direct, there, handed, sent, dropped, lost, shown,
       unclear, failed, askVars, backed, local, remote, saving, pairings, timer, uploads,
       leaving, trouble>>

\* The directory is wiped; an upload, a save and a dial under way are not stopped.
Wipe ==
  /\ purging = "logout" /\ purging' = "s3" /\ LogsOut
  /\ local' = 0
  /\ gone' = gone \cup 1..pairings /\ late' = late \cup uploads \cup saving \cup {held'}
  /\ UNCHANGED <<host, queue, hand, direct, there, handed, sent, dropped, lost, shown,
       unclear, failed, askVars, backed, remote, saving, pairings, timer, uploads, leaving,
       trouble>>

\* The copy in S3 is deleted, or stays when that fails.
Purged ==
  /\ purging = "s3" /\ purging' = "no"
  /\ \/ remote' = 0 /\ UNCHANGED <<trouble, late>>
     \/ Trouble /\ late' = late \cup {remote} /\ UNCHANGED remote
  /\ UNCHANGED <<sockVars, textVars, askVars, backed, local, valid, held, saving, pairings,
       timer, uploads, gone, leaving>>

Next ==
  \/ \E t \in Texts : Deliver(t) \/ Show(t) \/ Sent(t) \/ SendFails(t)
  \/ FlushSent \/ FlushFails
  \/ \E q \in Questions : Answer(q) \/ Handle(q)
  \/ Start \/ Dialed \/ DialFails \/ Redial \/ Pair \/ Open \/ Close \/ LoggedOut
  \/ CredsUpdate \/ BackupStarts
  \/ \E n \in 1..MaxPairings : CredsSaved(n) \/ BackupEnds(n)
  \/ \E why \in {"reconnect", "exit"} : Teardown(why)
  \/ Ended \/ Dies \/ Purge \/ Wipe \/ Purged

Spec == Init /\ [][Next]_vars

(***************************************************************************)
(* Properties.                                                             *)
(***************************************************************************)
TypeOK ==
  /\ host \in {"down", "starting", "running", "failed"}
  /\ link \in {"none", "first", "dialing", "resting", "redialing", "stuck", "made", "open", "out"}
  /\ connected \in BOOLEAN /\ backed \in BOOLEAN /\ failed \in BOOLEAN /\ timer \in BOOLEAN
  /\ queue \in Seq(Texts) /\ Len(queue) <= MaxQueue + 1
  /\ hand \in Texts \cup {None}
  /\ \A T \in {direct, handed, sent, dropped, lost} : T \subseteq Texts
  /\ there \subseteq live \cup direct \cup {hand} /\ live \subseteq direct \cup {hand}
  /\ shown \in [Texts -> Nat] /\ unclear \in [Texts -> Nat]
  /\ pending \in Texts \cup {None} /\ coming \subseteq answered /\ answered \subseteq Questions
  /\ acted \subseteq Questions \X Questions
  /\ pairings \in 0..MaxPairings /\ {local, remote, valid, held} \subseteq 0..pairings
  /\ uploads \cup saving \subseteq 1..pairings /\ gone \subseteq 1..pairings /\ late \subseteq 0..pairings
  /\ leaving \in {"no", "reconnect", "exit"} /\ purging \in {"no", "logout", "s3"}
  /\ trouble \in 0..MaxTrouble

\* A text the host handed over is in one place: with the socket, in the queue
\* once, or at its end (confirmed, shed by a full queue, gone with the process).
InOnePlace ==
  \A t \in handed :
    LET waits == Cardinality({k \in DOMAIN queue : queue[k] = t})
        ends  == {k \in 1..5 : t \in <<direct, {hand}, sent, dropped, lost>>[k]}
    IN waits + Cardinality(ends) = 1

\* It is shown once, and again only after a send that failed though it was shown.
ShownOnce ==
  \A t \in Texts :
    shown[t] <= unclear[t] + (IF t \in sent \cup there \cup lost THEN 1 ELSE 0)

\* While connected the queue waits only behind a flush, or after a failure that
\* no reopening has followed (flushOutgoingQueue starts from "open" alone).
QueueWaitsForOpen == connected /\ queue # <<>> => hand # None \/ failed

\* Texts survive closes, failed sends and a full queue as far as the code lets
\* them: none is in two places, shown twice without cause, or forgotten in a
\* queue that an open socket should have flushed (sendRawMessage,
\* flushOutgoingQueue, connection.update).
OutgoingKept == InOnePlace /\ ShownOnce /\ QueueWaitsForOpen

\* What the dashboard's disconnect has wiped comes back neither in the directory nor
\* in S3 nor in an open socket, but for a pairing that an upload, a save or a dial had
\* in its hands when the directory was wiped, or one left in S3 by a refusal or a
\* crash before its turn (purgeSession, connectSocket, saveCreds, backup, restore).
PurgedStaysOut == purging = "no" => {local, remote, held} \cap gone \subseteq late
=============================================================================
