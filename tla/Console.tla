------------------------------ MODULE Console ------------------------------
(***************************************************************************)
(* The admin dashboard (src/src/cloud/admin-dashboard) at its four desks:    *)
(* the screen that follows the WhatsApp link, the uploads, the test chat, and  *)
(* the data it lists and wipes.  One desk is used in a behaviour; they share   *)
(* no state.                                                                   *)
(***************************************************************************)
EXTENDS Naturals, Sequences, SequencesExt, FiniteSets

CONSTANTS
  Codes,          \* QR codes the phone link may show
  Pages,          \* browser pages that may be open
  Files,          \* files the admin uploads
  MaxRecords,     \* MAX_UPLOAD_HISTORY
  MaxMoves,       \* bound: moves of the phone link, writes beside a wipe
  MaxDeskFaults   \* bound: failed calls to S3, Redis, DynamoDB or the index

ConstantAssumption ==
  /\ MaxRecords \in Nat \ {0} /\ MaxMoves \in Nat /\ MaxDeskFaults \in Nat
  /\ "none" \notin Codes /\ IsFiniteSet(Files)

VARIABLES
  desk,     \* the desk in use
  screen,   \* the bridge's state, what is being drawn and sent, and the open pages
  upload,   \* recentUploads, the uploads under way, the bucket and uploads:pending
  trial,    \* the test message under way
  data,     \* the tables, the bucket and the index, and the wipe or report under way
  moves,    \* moves made
  deskFaults

consoleVars == <<desk, screen, upload, trial, data, moves, deskFaults>>

Desks == {"screen", "upload", "trial", "data"}

Fault ==
  /\ deskFaults < MaxDeskFaults
  /\ deskFaults' = deskFaults + 1

Move ==
  /\ moves < MaxMoves
  /\ moves' = moves + 1

Fine == UNCHANGED deskFaults
Still == UNCHANGED moves

(***************************************************************************)
(* The screen.  setQrCode keeps the old picture until the new one is drawn;   *)
(* an update reads the link's state first and sends it after its awaits.       *)
(***************************************************************************)
Off == [status |-> "disconnected", qr |-> "none", url |-> "none"]
On == [Off EXCEPT !.status = "connected"]
Links == [status : {"disconnected", "qr_pending", "connected"},
          qr : Codes \cup {"none"}, url : Codes \cup {"none"}]

AtScreen == desk = "screen" /\ UNCHANGED <<desk, upload, trial, data>>

Open(p) == screen.pages[p].status # "closed"
Closed == [status |-> "closed", figures |-> {}]

CheckComponent(answers) == IF answers THEN "healthy" ELSE "unhealthy"
\* The bootstrap's checks of WhatsApp, DynamoDB and OpenSearch ask nobody.
CheckWhatsAppComponent == "healthy"
GetHealth(redis) ==
  IF "unhealthy" \in {CheckComponent(redis), CheckComponent(TRUE)} THEN "unhealthy"
  ELSE IF CheckWhatsAppComponent = "unhealthy" THEN "degraded" ELSE "healthy"

\* The live readings never fail: what cannot be read is reported as none.
GetContainersLive(up) == IF up THEN {"containers"} ELSE {}
GetContainerUtilization(up) == IF up THEN {"utilization"} ELSE {}
GetStatsLive(up) == IF up THEN {"stats"} ELSE {}
GetBedrockSpendLive(up) == IF up THEN {"spend"} ELSE {}
GetQueueDepthLive(up) == IF up THEN {"queues"} ELSE {}
\* With one of the services read not answering, or "all" answering.
Read(not) ==
  GetContainersLive(not # "ecs")
    \cup GetContainerUtilization(not \notin {"ecs", "cloudwatch"})
    \cup GetStatsLive(not # "dynamodb") \cup GetBedrockSpendLive(not # "cloudwatch")
    \cup GetQueueDepthLive(not # "redis") \cup {GetHealth(not # "redis")}

SetQrCode(q) ==
  /\ AtScreen /\ Move /\ Fine
  /\ q \notin screen.drawing
  /\ screen' = [screen EXCEPT !.link.status = "qr_pending", !.link.qr = q,
                              !.drawing = @ \cup {q}]

\* toDataURL is awaited: by now the link may have moved on.
Drawn(q) ==
  /\ AtScreen /\ Still /\ Fine
  /\ q \in screen.drawing
  /\ screen' = [screen EXCEPT !.link.url = q, !.drawing = @ \ {q},
                              !.crossed = q # screen.link.qr]

DrawFails(q) ==
  /\ AtScreen /\ Still /\ Fault
  /\ q \in screen.drawing
  /\ screen' = [screen EXCEPT !.link.url = "none", !.drawing = @ \ {q}, !.crossed = FALSE]

Cleared(link) == [screen EXCEPT !.link = link, !.crossed = FALSE]
\* Mutant: the picture outlives the link.
ConnectedKeepsPicture ==
  AtScreen /\ Move /\ Fine /\ screen' = Cleared([On EXCEPT !.url = screen.link.url])
SetWhatsAppConnected == AtScreen /\ Move /\ Fine /\ screen' = Cleared(On)
\* The adapter's close, and the disconnect and reconnect buttons.
SetWhatsAppDisconnected == AtScreen /\ Move /\ Fine /\ screen' = Cleared(Off)

\* emitHealthUpdate up to its first await: the bridge is read, the rest awaited.
Emit(s) == [s EXCEPT !.emits = Append(@, s.link.status), !.read = s.link.status]

HandleSse(p) ==
  /\ AtScreen /\ Still /\ Fine
  /\ ~Open(p) /\ Len(screen.emits) < 2
  /\ screen' = Emit([screen EXCEPT !.pages[p].status = "blank", !.timer = TRUE])

Tick ==
  /\ AtScreen /\ Still /\ Fine
  /\ screen.timer /\ Len(screen.emits) < 2 /\ \E p \in Pages : Open(p)
  /\ screen' = Emit(screen)

\* The readings answer, or one finds nothing: whoever is connected is sent the link as
\* it was read.
Sent(i, figures) ==
  screen' = [screen EXCEPT
    !.emits = RemoveAt(@, i), !.overtaken = @ \/ i > 1,
    !.pages = [p \in Pages |->
      IF Open(p) THEN [status |-> screen.emits[i], figures |-> figures] ELSE @[p]]]

Broadcast ==
  /\ AtScreen /\ Still
  /\ \E i \in DOMAIN screen.emits :
       \/ Fine /\ Sent(i, Read("all"))
       \/ Fault /\ \E not \in {"ecs", "cloudwatch", "dynamodb", "redis"} : Sent(i, Read(not))

ClosePage(p) ==
  /\ AtScreen /\ Still /\ Fine
  /\ Open(p)
  /\ screen' = [screen EXCEPT !.pages[p] = Closed]

(***************************************************************************)
(* Uploads: a record for each file, then S3, then the pending list, each       *)
(* awaited; the record is found again by its id.                               *)
(***************************************************************************)
AtUpload == desk = "upload" /\ UNCHANGED <<desk, screen, trial, data, moves>>

Recorded(f) == \E i \in DOMAIN upload.records : upload.records[i].file = f
Status(f) == (CHOOSE r \in Range(upload.records) : r.file = f).status
Marked(f, status) ==
  [i \in DOMAIN upload.records |->
     IF upload.records[i].file = f THEN [upload.records[i] EXCEPT !.status = status]
     ELSE upload.records[i]]
Shortened(records) == SubSeq(records, 1, IF Len(records) < MaxRecords THEN Len(records)
                                         ELSE MaxRecords)

HandleUpload ==
  /\ AtUpload /\ Fine
  /\ \E f \in Files :
       /\ upload.stage[f] = "none"
       /\ upload' = [upload EXCEPT
            !.records = Shortened(<<[file |-> f, status |-> "processing"]>> \o @),
            !.stage[f] = "putting"]

\* Mutant: the record is marked before the push is awaited.
PutObjectMarks(f) ==
  /\ AtUpload /\ Fine
  /\ upload.stage[f] = "putting"
  /\ upload' = [upload EXCEPT !.stage[f] = "pushing", !.stored = @ \cup {f},
                              !.records = Marked(f, "completed")]

PutObject(f) ==
  /\ AtUpload /\ Fine
  /\ upload.stage[f] = "putting"
  /\ upload' = [upload EXCEPT !.stage[f] = "pushing", !.stored = @ \cup {f}]

\* The put may have reached S3 before its call failed.
PutFails(f) ==
  /\ AtUpload /\ Fault
  /\ upload.stage[f] = "putting"
  /\ \E stored \in {upload.stored, upload.stored \cup {f}} :
       upload' = [upload EXCEPT !.stage[f] = "over", !.stored = stored,
                                !.records = Marked(f, "failed"), !.faulted = @ \cup {f}]

Enqueue(f) ==
  /\ AtUpload /\ Fine
  /\ upload.stage[f] = "pushing"
  /\ upload' = [upload EXCEPT !.stage[f] = "over", !.pending = @ \cup {f},
                              !.records = Marked(f, "completed")]

\* No cloud services, or a push that failed: only logged.
EnqueueFails(f) ==
  /\ AtUpload /\ Fault
  /\ upload.stage[f] = "pushing"
  /\ upload' = [upload EXCEPT !.stage[f] = "over", !.records = Marked(f, "completed"),
                              !.faulted = @ \cup {f}]

\* The host restarts: the records and what was under way are gone.
Restart ==
  /\ AtUpload /\ Fault
  /\ upload' = [upload EXCEPT !.records = <<>>,
       !.stage = [f \in Files |-> IF @[f] = "none" THEN "none" ELSE "over"]]

(***************************************************************************)
(* The test chat: one message, alone or with an image or document, answered   *)
(* through the sub-agent and the host's response poll within 45 s, or not.     *)
(***************************************************************************)
AtTrial == desk = "trial" /\ UNCHANGED <<desk, screen, upload, data, moves>>

HandleTestSend ==
  /\ AtTrial /\ Fine
  /\ trial.stage = "none"
  /\ \E file \in {"none", "image", "document"} :
       trial' = [trial EXCEPT !.file = file,
                              !.stage = IF file = "none" THEN "sending" ELSE "storing"]

\* Only a document is offered to the indexer; an image is sent along as a link.
StoreFile ==
  /\ AtTrial /\ Fine
  /\ trial.stage = "storing"
  /\ trial' = [trial EXCEPT !.stored = TRUE,
                            !.stage = IF trial.file = "document" THEN "pending" ELSE "sending"]

PushPending ==
  /\ AtTrial /\ Fine
  /\ trial.stage = "pending"
  /\ trial' = [trial EXCEPT !.pending = TRUE, !.stage = "sending"]

Dispatch ==
  /\ AtTrial /\ Fine
  /\ trial.stage = "sending"
  /\ trial' = [trial EXCEPT !.sent = 1, !.stage = "waiting"]

\* Any call before the wait fails, done or not: the page is told of an error.
TestFails ==
  /\ AtTrial /\ Fault
  /\ \/ /\ trial.stage = "storing"
        /\ \E done \in BOOLEAN : trial' = [trial EXCEPT !.stage = "error", !.stored = done]
     \/ /\ trial.stage = "pending"
        /\ \E done \in BOOLEAN : trial' = [trial EXCEPT !.stage = "error", !.pending = done]
     \/ /\ trial.stage = "sending"
        /\ \E done \in {0, 1} : trial' = [trial EXCEPT !.stage = "error", !.sent = done]

\* A sub-agent answers, or fails and retries what it had answered.
AgentAnswers ==
  /\ AtTrial /\ Fine
  /\ trial.sent > 0
  /\ trial' = [trial EXCEPT !.sent = @ - 1, !.replies = @ + 1]

AgentRetries ==
  /\ AtTrial /\ Fault
  /\ trial.sent > 0
  /\ trial' = [trial EXCEPT !.replies = @ + 1]

AgentDies ==
  /\ AtTrial /\ Fault
  /\ trial.sent > 0
  /\ trial' = [trial EXCEPT !.sent = @ - 1]

\* The response poll files the reply under the message's own key for 300 s.
Capture ==
  /\ AtTrial /\ Fine
  /\ trial.replies > 0
  /\ trial' = [trial EXCEPT !.replies = @ - 1, !.kept = @ + 1]

CaptureFails ==
  /\ AtTrial /\ Fault
  /\ trial.replies > 0
  /\ trial' = [trial EXCEPT !.replies = @ - 1]

Brpop ==
  /\ AtTrial /\ Fine
  /\ trial.stage = "waiting" /\ trial.kept > 0
  /\ trial' = [trial EXCEPT !.stage = "ok", !.kept = @ - 1]

TestTimesOut ==
  /\ AtTrial /\ Fine
  /\ trial.stage = "waiting" /\ trial.kept = 0
  /\ trial' = [trial EXCEPT !.stage = "timeout"]

\* The key expires; only then is a reply nobody waited for gone.
KeyExpires ==
  /\ AtTrial /\ Fine
  /\ trial.kept > 0 /\ trial.stage # "waiting"
  /\ trial' = [trial EXCEPT !.kept = 0]

(***************************************************************************)
(* The data: chat messages and preferences, the bucket and the index.  A wipe  *)
(* goes through the tables and the bucket page by page (a page is one item      *)
(* here) while users go on writing; a report reads page by page.               *)
(***************************************************************************)
Rows == <<"message", "preference">>
\* In the order of a listing: by key.
Objects == <<"personal", "corporate", "session", "misfiled">>
\* The prefixes corporate/, sessions/ and admin/.  An upload without the flag is filed
\* under users/CORPORATE/.
Spared == {"corporate", "session"}
\* Chunks of user CORPORATE.
Shared == {"corporate", "misfiled"}

AtData == desk = "data" /\ UNCHANGED <<desk, screen, upload, trial>>

HandleResetAllUsers ==
  /\ AtData /\ Still /\ Fine
  /\ data.wipe = "none" /\ data.report # "reading"
  /\ data' = [data EXCEPT !.wipe = "tables", !.ahead = Rows, !.wrote = {},
                          !.indexed = {}]

\* One page of wipeTable: a key the scan returns is deleted, or its scan or batch fails,
\* which is only logged.
WipeRow ==
  /\ AtData /\ Still
  /\ data.wipe = "tables" /\ data.ahead # <<>>
  /\ LET k == Head(data.ahead) IN
     \/ Fine /\ data' = [data EXCEPT !.table = @ \ {k}, !.ahead = Tail(@)]
     \/ Fault /\ data' = [data EXCEPT !.ahead = Tail(@), !.missed = @ \cup {k}]

TablesWiped ==
  /\ AtData /\ Still /\ Fine
  /\ data.wipe = "tables" /\ data.ahead = <<>>
  /\ data' = [data EXCEPT !.wipe = "bucket", !.ahead = Objects]

WipeObject ==
  /\ AtData /\ Still
  /\ data.wipe = "bucket" /\ data.ahead # <<>>
  /\ LET k == Head(data.ahead) IN
     \/ Fine /\ data' = [data EXCEPT !.bucket = @ \ ({k} \ Spared), !.ahead = Tail(@)]
     \/ /\ Fault /\ k \notin Spared
        /\ data' = [data EXCEPT !.ahead = Tail(@), !.missed = @ \cup {k}]

\* A listing fails: the wipe ends with an error, the index untouched.
ListFails ==
  /\ AtData /\ Still /\ Fault
  /\ data.wipe = "bucket"
  /\ data' = [data EXCEPT !.wipe = "error"]

WipeIndex ==
  /\ AtData /\ Still
  /\ data.wipe = "bucket" /\ data.ahead = <<>>
  /\ \/ Fine /\ data' = [data EXCEPT !.wipe = "success", !.index = @ \cap Shared]
     \/ Fault /\ data' = [data EXCEPT !.wipe = "success", !.missed = @ \cup {"index"}]

\* The users meanwhile: a message or preference is stored, a file sent, and the indexer
\* reads an object and stores its chunks later.
StoreRow(k) ==
  /\ AtData /\ Move /\ Fine
  /\ data' = [data EXCEPT !.table = @ \cup {k}, !.wrote = @ \cup {k}]

StoreObject ==
  /\ AtData /\ Move /\ Fine
  /\ data' = [data EXCEPT !.bucket = @ \cup {"personal"}, !.wrote = @ \cup {"personal"}]

IndexReads(o) ==
  /\ AtData /\ Move /\ Fine
  /\ o \in data.bucket \ {"session"} /\ data.reading = "none"
  /\ data' = [data EXCEPT !.reading = o]

IndexStores ==
  /\ AtData /\ Still /\ Fine
  /\ data.reading # "none"
  /\ data' = [data EXCEPT !.index = @ \cup {data.reading}, !.reading = "none",
                          !.indexed = @ \cup {data.reading}]

\* The documents' tab: the object goes; the chunks are looked for under a field
\* (s3_key.keyword) none has, and stay.
DeleteDocument(o) ==
  /\ AtData /\ Move
  /\ o \in data.bucket
  /\ \/ Fine /\ data' = [data EXCEPT !.bucket = @ \ {o}, !.removed = @ \cup {o}]
     \/ Fault /\ UNCHANGED data

\* The users' tab asks the gateway worker to delete the user's chunks.
HandleDeleteUser ==
  /\ AtData /\ Move /\ Fine
  /\ ~data.forgetting
  /\ data' = [data EXCEPT !.forgetting = TRUE]

DeleteUserDocuments ==
  /\ AtData /\ Still /\ Fine
  /\ data.forgetting
  /\ data' = [data EXCEPT !.forgetting = FALSE, !.index = @ \ {"personal"}]

\* A report lists the bucket page by page, without the link's own files.
ListAllDocuments ==
  /\ AtData /\ Still /\ Fine
  /\ data.report = "none" /\ data.wipe = "none"
  /\ data' = [data EXCEPT !.report = "reading", !.ahead = Objects, !.held = data.bucket]

ListPage ==
  /\ AtData /\ Still /\ Fine
  /\ data.report = "reading" /\ data.ahead # <<>>
  /\ data' = [data EXCEPT !.ahead = Tail(@),
       !.listed = @ \cup ({Head(data.ahead)} \cap (data.bucket \ {"session"}))]

\* A listing that fails shows what it has as all there is.
Listed ==
  /\ AtData /\ Still
  /\ data.report = "reading"
  /\ \/ data.ahead = <<>> /\ Fine /\ data' = [data EXCEPT !.report = "whole"]
     \/ /\ data.ahead # <<>> /\ Fault
        /\ data' = [data EXCEPT !.report = "part", !.ahead = <<>>]
(***************************************************************************)
(* The desks together.                                                     *)
(***************************************************************************)
Init ==
  /\ desk \in Desks
  /\ screen = [link |-> Off, drawing |-> {}, crossed |-> FALSE, emits |-> <<>>,
               read |-> "blank", overtaken |-> FALSE, timer |-> FALSE,
               pages |-> [p \in Pages |-> Closed]]
  /\ upload = [records |-> <<>>, stage |-> [f \in Files |-> "none"], stored |-> {},
               pending |-> {}, faulted |-> {}]
  /\ trial = [stage |-> "none", file |-> "none", stored |-> FALSE, pending |-> FALSE,
              sent |-> 0, replies |-> 0, kept |-> 0]
  /\ data = [table |-> Range(Rows), bucket |-> Range(Objects),
             index |-> Range(Objects) \ {"session"},
             wipe |-> "none", ahead |-> <<>>, missed |-> {}, wrote |-> {}, indexed |-> {},
             reading |-> "none", forgetting |-> FALSE, removed |-> {}, report |-> "none",
             listed |-> {}, held |-> {}]
  /\ moves = 0 /\ deskFaults = 0

Watch ==
  \/ \E q \in Codes : SetQrCode(q) \/ Drawn(q) \/ DrawFails(q)
  \/ SetWhatsAppConnected \/ SetWhatsAppDisconnected
  \/ \E p \in Pages : HandleSse(p) \/ ClosePage(p)
  \/ Tick \/ Broadcast
SendFiles ==
  \/ HandleUpload \/ Restart
  \/ \E f \in Files : PutObject(f) \/ PutFails(f) \/ Enqueue(f) \/ EnqueueFails(f)
TryOut ==
  \/ HandleTestSend \/ StoreFile \/ PushPending \/ Dispatch \/ TestFails
  \/ AgentAnswers \/ AgentRetries \/ AgentDies
  \/ Capture \/ CaptureFails \/ Brpop \/ TestTimesOut \/ KeyExpires
KeepHouse ==
  \/ HandleResetAllUsers \/ TablesWiped \/ ListFails \/ WipeIndex
  \/ WipeRow \/ WipeObject \/ ListPage
  \/ \E k \in Range(Rows) : StoreRow(k)
  \/ \E o \in Range(Objects) : IndexReads(o) \/ DeleteDocument(o)
  \/ StoreObject \/ IndexStores \/ HandleDeleteUser \/ DeleteUserDocuments
  \/ ListAllDocuments \/ Listed

Next == Watch \/ SendFiles \/ TryOut \/ KeepHouse

Spec == Init /\ [][Next]_consoleVars

TypeOK ==
  /\ desk \in Desks /\ moves \in 0..MaxMoves /\ deskFaults \in 0..MaxDeskFaults
  /\ screen.link \in Links /\ screen.drawing \subseteq Codes
  /\ \A p \in Pages : screen.pages[p].status \in
       {"closed", "blank", "disconnected", "qr_pending", "connected"}
  /\ upload.stored \cup upload.pending \cup upload.faulted \subseteq Files
  /\ Len(upload.records) <= MaxRecords
  /\ \A f \in Files : upload.stage[f] \in {"none", "putting", "pushing", "over"}
  /\ trial.stage \in {"none", "storing", "pending", "sending", "waiting", "ok", "timeout",
                      "error"}
  /\ data.table \subseteq Range(Rows)
  /\ data.bucket \cup data.index \subseteq Range(Objects)

\* With nothing being drawn, a picture is of the code now waiting to be scanned, but for
\* one drawn across a change of the link.
PictureIsCurrent ==
  screen.link.url # "none" /\ screen.drawing = {} =>
    \/ screen.link.status = "qr_pending" /\ screen.link.url = screen.link.qr
    \/ screen.crossed

\* An open page has its updates coming and was sent one at once; with none under way it
\* shows what the newest read, unless one overtook another; what it lacks could not be read.
PageIsFed ==
  \A p \in Pages : Open(p) =>
    /\ screen.timer
    /\ \/ screen.emits # <<>> \/ screen.overtaken
       \/ screen.pages[p].status = screen.read
    /\ screen.pages[p].status = "blank" \/ screen.pages[p].figures = Read("all")
       \/ deskFaults > 0

\* A record says "completed" of a file that is stored and, but for a failed push, queued;
\* "failed" only after a failure; "processing" while its upload runs.
RecordsAreTrue ==
  \A r \in Range(upload.records) :
    CASE r.status = "completed" ->
           r.file \in upload.stored /\ r.file \in upload.pending \cup upload.faulted
      [] r.status = "failed" -> r.file \in upload.faulted \ upload.pending
      [] r.status = "processing" -> upload.stage[r.file] \in {"putting", "pushing"}

\* A document offered to the indexer is stored, a test message goes out only after its
\* document, and a test that was answered leaves no second reply but a retry's.
TestIsTrue ==
  /\ trial.pending => trial.stored
  /\ trial.sent + trial.replies + trial.kept > 0 /\ trial.file = "document" => trial.pending
  /\ trial.stage = "ok" => trial.sent + trial.replies + trial.kept <= deskFaults

\* A wipe that reports success leaves nothing of the users but what a batch missed, what
\* was written meanwhile; what is spared stays, unless deleted by name.
WipeIsTrue ==
  /\ data.wipe = "success" =>
       /\ data.table \subseteq data.missed \cup data.wrote
       /\ data.bucket \ Spared \subseteq data.missed \cup data.wrote
       /\ "index" \in data.missed
          \/ data.index \ Shared \subseteq data.indexed
  /\ Spared \ data.bucket \subseteq data.removed

\* A whole report lists every document that was there throughout.
ReportIsTrue ==
  data.report = "whole" /\ data.wipe = "none" =>
    data.held \ ({"session"} \cup data.removed) \subseteq data.listed
=============================================================================
