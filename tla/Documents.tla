----------------------------- MODULE Documents -----------------------------
(***************************************************************************)
(* What a user has sent in, and what the answers are drawn from.  A channel   *)
(* adapter or the dashboard stores a file in S3 and queues it; the upload     *)
(* worker passes it to the indexer; the indexer cuts it into chunks, which     *)
(* go through the gateway's queue into the search index.  Every 15 minutes a   *)
(* scan queues what is stored and was never tried.  A link in a message is      *)
(* read by the agent itself.  Questions, and the user's orders about what is     *)
(* kept, go through the same gateway queue.                                 *)
(*                                                                         *)
(* One user, who gives one order at a time.  The object store and the index are  *)
(* external; the index finds whatever the user may see.  Dead letters are never   *)
(* read, so none are kept.                                                  *)
(***************************************************************************)
EXTENDS Naturals, Sequences, FiniteSets, SequencesExt

CONSTANTS
  Personal,   \* files the user sends through a chat channel
  Corporate,  \* files the administrator uploads for everyone
  Misfiled,   \* those of them uploaded with neither a user nor the corporate flag
  Links,      \* links the user pastes
  Drafts,     \* documents the user has drafted
  Longer,     \* pairs of the user's files and drafts: the first one's name ends with the other's
  Plans,      \* bounds: the files and links sent in one behaviour, how often links are
              \* pasted, the requests the user makes, how many of them orders, and faults:
              \* failures, crashes, and weeks gone by
  MaxOrders,  \* no plan has more
  Chunks      \* chunks a file or link is cut into

Files == Personal \cup Corporate
Names == Files \cup Links
Own == Personal \cup Links
Objects == Personal \cup Drafts
Asked == {"unlink", "delete", "draft", "list", "links"}

ConstantAssumption ==
  /\ Personal \cap Corporate = {} /\ Misfiled \subseteq Corporate
  /\ Links \cap Files = {} /\ Drafts \cap Names = {} /\ Longer \subseteq Objects \X Objects
  /\ Plans \subseteq [sent : SUBSET Names, pastes : Nat, asks : SUBSET (Asked \cup {"search", "forget"}),
                      orders : 0..MaxOrders, faults : Nat]
  /\ Chunks \in Nat \ {0} /\ MaxOrders \in Nat

VARIABLES
  plan,      \* the plan of this behaviour
  uploaded,  \* files sent so far
  staged,    \* objects under users/<u>/staging/ or corporate/
  documents, \* objects under <u>/documents/ and <u>/drafts/
  pending,   \* nanoclaw:uploads:pending
  indexing,  \* queue:orchestrator:indexing
  job,       \* what the indexer works on, none or one, with the chunks pushed
  seen,      \* s3reindex:seen:<key>
  reading,   \* links being read, with the chunks pushed
  pasted,    \* how many were pasted
  flag,      \* nanoclaw:indexing:<u>
  gateway,   \* queue:orchestrator:data_gateway
  index,     \* how often each chunk is in the search index
  asking,    \* the user's question: "no", "waiting" for the search, found "nothing"
  noDocs,    \* cache:no_docs:<u>
  order,     \* the order whose answer the user waits for, none or one
  ordered,   \* how many were given
  shown,     \* what the last list showed
  told,      \* history: notices the user was sent, per file
  cleared,   \* history: personal files and links after whose chunks the cache was deleted
  known,     \* history: of these, the ones from before the question
  raced,     \* history: files whose indexing overlapped the search that set the cache
  attempted, \* history: files the indexer read and worked on
  erased,    \* history: files and links indexed for good when they were erased
  gone,      \* history: files and links that lost a chunk, to a failure or by order
  stuck,     \* history: the flag was set by a process that died
  faults

objects == <<plan, uploaded, staged, documents, seen>>
commands == <<reading, pasted, order, ordered, shown>>
indexer == <<pending, indexing, job, flag, stuck>>
search == <<gateway, index, erased, gone>>
chat == <<asking, noDocs, known, raced>>
history == <<told, cleared, attempted>>
vars == <<objects, indexer, search, commands, chat, history, faults>>

Jobs == [file : Files, notify : BOOLEAN, found : BOOLEAN]
\* The n-th order of a user: /forget-url, /delete, /draft (once there is a text),
\* /list, /ingested.
ForgetUrl(n) == [kind : {"unlink"}, name : Links, id : {n}]
DeleteDocument(n) == [kind : {"delete"}, name : Objects, id : {n}]
Draft(n) == [kind : {"draft"}, name : Drafts, id : {n}]
ListDocuments(n) == [kind : {"list"}, id : {n}]
Ingested(n) == [kind : {"links"}, id : {n}]
OrdersAt(n) == ForgetUrl(n) \cup DeleteDocument(n) \cup Draft(n) \cup ListDocuments(n) \cup Ingested(n)
Orders == UNION {OrdersAt(n) : n \in 0..MaxOrders}
Requests == [kind : {"chunk"}, file : Names, n : 1..Chunks] \cup [kind : {"search", "forget"}] \cup Orders

TypeOK ==
  /\ plan \in Plans /\ uploaded \in SUBSET Files /\ staged \in SUBSET Files /\ documents \in SUBSET Objects
  /\ reading \in SUBSET [link : Links, alone : BOOLEAN, pushed : 0..Chunks + 1] /\ pasted \in 0..plan.pastes
  /\ order \in SUBSET Orders /\ Cardinality(order) <= 1 /\ ordered \in 0..MaxOrders
  /\ shown \in SUBSET (Objects \cup Links)
  /\ pending \in Seq(Files) /\ indexing \in Seq(Jobs) /\ seen \in SUBSET Files
  /\ job \in SUBSET [task : Jobs, pushed : 0..Chunks + 1] /\ Cardinality(job) <= 1
  /\ flag \in BOOLEAN /\ stuck \in BOOLEAN
  /\ gateway \in Seq(Requests) /\ index \in [Names -> [1..Chunks -> Nat]]
  /\ asking \in {"no", "waiting", "nothing"} /\ noDocs \in BOOLEAN
  /\ told \in [Files -> SUBSET {"done", "sorry"}]
  /\ cleared \in SUBSET Own /\ known \in SUBSET Own /\ raced \in SUBSET Own
  /\ attempted \in SUBSET Files /\ erased \in SUBSET Own /\ gone \in SUBSET Names
  /\ faults \in 0..plan.faults

Init ==
  /\ plan \in Plans /\ uploaded = {} /\ staged = {} /\ documents = {} /\ seen = {}
  /\ pending = <<>> /\ indexing = <<>> /\ job = {} /\ flag = FALSE /\ stuck = FALSE
  /\ reading = {} /\ pasted = 0 /\ order = {} /\ ordered = 0 /\ shown = {}
  /\ gateway = <<>> /\ index = [f \in Names |-> [n \in 1..Chunks |-> 0]]
  /\ erased = {} /\ gone = {}
  /\ asking = "no" /\ noDocs = FALSE /\ known = {} /\ raced = {}
  /\ told = [f \in Files |-> {}] /\ cleared = {} /\ attempted = {}
  /\ faults = 0

Fault == faults < plan.faults /\ faults' = faults + 1

(***************************************************************************)
(* Adapters, dashboard, upload worker, scan.                                *)
(***************************************************************************)
\* The object is stored, then queued; the second call may fail on its own.
Upload(f) ==
  /\ f \in (plan.sent \cap Files) \ uploaded
  /\ uploaded' = uploaded \cup {f} /\ staged' = staged \cup {f}
  /\ \/ pending' = Append(pending, f) /\ UNCHANGED faults
     \/ Fault /\ UNCHANGED pending
  /\ UNCHANGED <<plan, documents, seen, indexing, job, flag, stuck, search, chat, history, commands>>

Task(f, notify) == [file |-> f, notify |-> notify, found |-> TRUE]

\* processNextUpload.  A shared file without the corporate flag was stored under
\* users/CORPORATE/, and the worker looks for it under corporate/.
Dispatched(f) == [Task(f, f \in Personal) EXCEPT !.found = f \notin Misfiled]

Dispatch ==
  /\ pending # <<>> /\ pending' = Tail(pending)
  /\ indexing' = Append(indexing, Dispatched(Head(pending)))
  /\ IF Head(pending) \in Personal THEN flag' = TRUE /\ stuck' = FALSE ELSE UNCHANGED <<flag, stuck>>
  /\ UNCHANGED <<objects, job, search, chat, history, faults, commands>>

\* The push throws, perhaps after it took effect: the flag is deleted (that of
\* this user; a shared file carries the user CORPORATE) and the user is told.
DispatchFails ==
  /\ pending # <<>> /\ pending' = Tail(pending) /\ Fault
  /\ LET f == Head(pending)
     IN  /\ \/ indexing' = Append(indexing, Dispatched(f))
            \/ UNCHANGED indexing
         /\ IF f \in Personal
              THEN flag' = FALSE /\ told' = [told EXCEPT ![f] = @ \cup {"sorry"}]
              ELSE UNCHANGED <<flag, told>>
  /\ UNCHANGED <<objects, job, stuck, search, chat, cleared, attempted, commands>>

\* The host dies between the flag and the push.
DispatchDies ==
  /\ pending # <<>> /\ pending' = Tail(pending) /\ Fault
  /\ IF Head(pending) \in Personal THEN flag' = TRUE /\ stuck' = TRUE ELSE UNCHANGED <<flag, stuck>>
  /\ UNCHANGED <<objects, indexing, job, search, chat, history, commands>>

\* EX 90.
FlagExpires ==
  /\ flag /\ flag' = FALSE /\ stuck' = FALSE
  /\ UNCHANGED <<objects, pending, indexing, job, search, chat, history, faults, commands>>

\* The objects a job can name: the scan reads users/ and corporate/, and what was
\* moved to <u>/documents/ is under neither.
Named == staged

Queue(f) ==
  /\ seen' = seen \cup {f}
  /\ indexing' = Append(indexing, Task(f, FALSE))
  /\ UNCHANGED <<plan, uploaded, staged, documents, pending, job, flag, stuck, search, chat, history, faults, commands>>

\* Mutant: the scan reads uploads/, where nothing is.
ScanUploads(f) == f \in {} /\ Queue(f)

\* runS3ReindexJob.  Chunks are indexed without their s3Key, so the count that
\* should spare what is indexed already is always 0.
Scan(f) == f \in Named \ seen /\ Queue(f)

SeenExpires(f) ==
  /\ f \in seen /\ seen' = seen \ {f} /\ Fault
  /\ UNCHANGED <<plan, uploaded, staged, documents, indexer, search, chat, history, commands>>

(***************************************************************************)
(* The indexer.                                                            *)
(***************************************************************************)
Current == CHOOSE j \in job : TRUE
Readable == Current.task.found /\ Current.task.file \in Named

Take ==
  /\ job = {} /\ indexing # <<>>
  /\ job' = {[task |-> Head(indexing), pushed |-> 0]} /\ indexing' = Tail(indexing)
  /\ UNCHANGED <<objects, pending, flag, stuck, search, chat, history, faults, commands>>

\* index_file ends.  It clears the flag of its user and tells them, when the job
\* says where.
EndSaying(outcome) ==
  LET f == Current.task.file
  IN  /\ job' = {}
      /\ IF f \in Personal THEN flag' = FALSE /\ stuck' = FALSE ELSE UNCHANGED <<flag, stuck>>
      /\ told' = IF Current.task.notify THEN [told EXCEPT ![f] = @ \cup {outcome}] ELSE told
      /\ attempted' = IF Current.task.found THEN attempted \cup {f} ELSE attempted
      /\ UNCHANGED <<pending, indexing>>

\* Mutant: one of the early returns leaves the flag.
CannotIndexKeepsFlag ==
  /\ job # {} /\ Current.pushed = 0 /\ job' = {}
  /\ attempted' = attempted \cup {Current.task.file}
  /\ told' = IF Current.task.notify
             THEN [told EXCEPT ![Current.task.file] = @ \cup {"sorry"}] ELSE told
  /\ UNCHANGED <<objects, pending, indexing, flag, stuck, search, chat, cleared, faults, commands>>

\* The object is not there, or cannot be read, or has no text, or embedding fails.
CannotIndex ==
  /\ job # {} /\ Current.pushed = 0
  /\ EndSaying("sorry")
  /\ UNCHANGED <<objects, search, chat, cleared, faults, commands>>

PushChunk ==
  /\ job # {} /\ Readable /\ Current.pushed < Chunks
  /\ job' = {[Current EXCEPT !.pushed = @ + 1]}
  /\ gateway' = Append(gateway, [kind |-> "chunk", file |-> Current.task.file, n |-> Current.pushed + 1])
  /\ UNCHANGED <<objects, pending, indexing, flag, stuck, index, erased, gone, chat, history, faults, commands>>

\* The object of a user moves from staging/ to documents/; the move may fail.
Move(f) ==
  \/ f \in Personal /\ staged' = staged \ {f} /\ documents' = documents \cup {f} /\ UNCHANGED faults
  \/ f \in Personal /\ Fault /\ UNCHANGED <<staged, documents>>
  \/ f \in Corporate /\ UNCHANGED <<staged, documents, faults>>

\* Mutant: the cache is left alone.
SettleKeepsCache ==
  /\ job # {} /\ Readable /\ Current.pushed = Chunks
  /\ job' = {[Current EXCEPT !.pushed = @ + 1]}
  /\ cleared' = cleared \cup ({Current.task.file} \cap Personal)
  /\ Move(Current.task.file)
  /\ UNCHANGED <<plan, uploaded, seen, pending, indexing, flag, stuck, search, chat, told, attempted, commands>>

\* After the chunks: delete cache:no_docs of the job's user, move the object.
Settle ==
  /\ job # {} /\ Readable /\ Current.pushed = Chunks
  /\ job' = {[Current EXCEPT !.pushed = @ + 1]}
  /\ IF Current.task.file \in Personal
       THEN noDocs' = FALSE /\ raced' = {} /\ cleared' = cleared \cup {Current.task.file}
       ELSE UNCHANGED <<noDocs, raced, cleared>>
  /\ Move(Current.task.file)
  /\ UNCHANGED <<plan, uploaded, seen, pending, indexing, flag, stuck, search, asking, known, told, attempted, commands>>

Finish ==
  /\ job # {} /\ Current.pushed = Chunks + 1
  /\ EndSaying("done")
  /\ UNCHANGED <<objects, search, chat, cleared, faults, commands>>

\* 300 s, or Redis fails: what is pushed stays pushed.
TimesOut ==
  /\ job # {} /\ Fault
  /\ EndSaying("sorry")
  /\ UNCHANGED <<objects, search, chat, cleared, commands>>

\* The indexer dies with its job.
IndexerDies ==
  /\ job # {} /\ Fault /\ job' = {}
  /\ stuck' = flag
  /\ attempted' = attempted \cup (IF Current.task.found THEN {Current.task.file} ELSE {})
  /\ UNCHANGED <<objects, pending, indexing, flag, search, chat, told, cleared, commands>>

(***************************************************************************)
(* The gateway worker: one request at a time, in their order.               *)
(***************************************************************************)
Visible == {f \in Names : \E n \in 1..Chunks : index[f][n] > 0}
Request == Head(gateway)

IndexChunk ==
  /\ gateway # <<>> /\ Request.kind = "chunk" /\ gateway' = Tail(gateway)
  /\ index' = [index EXCEPT ![Request.file][Request.n] = @ + 1]
  /\ UNCHANGED <<objects, indexer, erased, gone, chat, history, faults, commands>>

\* A request that fails is logged; so is one the host dies with.  Whoever waits for
\* its answer is told that it failed, or waits in vain.
RequestFails ==
  /\ gateway # <<>> /\ gateway' = Tail(gateway) /\ Fault
  /\ gone' = IF Request.kind = "chunk" THEN gone \cup {Request.file} ELSE gone
  /\ order' \in {order, order \ {Request}}
  /\ UNCHANGED <<objects, indexer, index, erased, reading, pasted, ordered, shown, chat, history>>

\* The user's own chunks and the corporate ones.
Search ==
  /\ gateway # <<>> /\ Request.kind = "search" /\ gateway' = Tail(gateway)
  /\ asking' = IF asking # "waiting" THEN asking ELSE IF Visible = {} THEN "nothing" ELSE "no"
  /\ UNCHANGED <<objects, indexer, index, erased, gone, commands, noDocs, known, raced, history, faults>>

\* Files and links of which nothing is on its way any more.
Settled ==
  LET Coming == pending \o [k \in DOMAIN indexing |-> indexing[k].file]
      Pushed == {r.file : r \in {q \in ToSet(gateway) : q.kind = "chunk"}}
  IN  ((documents \cap Personal) \ (staged \cup ToSet(Coming) \cup {j.task.file : j \in job} \cup Pushed))
        \cup (Links \ ({t.link : t \in reading} \cup Pushed))

\* Mutant: the search for what to delete returns a page of it.
ErasingPage(found) ==
  /\ index' = [f \in Names |-> IF f \in found THEN [index[f] EXCEPT ![1] = 0] ELSE index[f]]
  /\ gone' = gone \cup (Visible \cap found)
  /\ erased' = erased \cup (Settled \cap found)

\* What a bulk delete takes out of the index, up to 1000 chunks.
Erasing(found) ==
  /\ index' = [f \in Names |-> IF f \in found THEN [n \in 1..Chunks |-> 0] ELSE index[f]]
  /\ gone' = gone \cup (Visible \cap found)
  /\ erased' = erased \cup (Settled \cap found)

\* handleDeleteAllUserData.
Erase ==
  /\ gateway # <<>> /\ Request.kind = "forget" /\ gateway' = Tail(gateway)
  /\ Erasing(Own) /\ shown' = {}
  /\ UNCHANGED <<objects, indexer, reading, pasted, order, ordered, chat, history, faults>>

\* An answer goes into a key of its own, and reaches only who still waits for it.
Answering == order' = order \ {Request}

\* handleDeleteIngestedUrl: "removed", be it nothing.
EraseLink ==
  /\ gateway # <<>> /\ Request.kind = "unlink" /\ gateway' = Tail(gateway)
  /\ Erasing({Request.name}) /\ Answering /\ shown' = {}
  /\ UNCHANGED <<objects, indexer, reading, pasted, ordered, chat, history, faults>>

\* The objects whose key ends with a name.
Ending(name) == {o \in documents : o = name \/ <<o, name>> \in Longer}

\* handleDeleteFile: the first that the list of the store has goes (documents/ is
\* before drafts/); its chunks stay.
DeleteObject ==
  /\ gateway # <<>> /\ Request.kind = "delete" /\ gateway' = Tail(gateway)
  /\ LET found == Ending(Request.name)
         first == IF found \cap Personal = {} THEN found ELSE found \cap Personal
     IN  IF found = {} THEN UNCHANGED documents ELSE \E o \in first : documents' = documents \ {o}
  /\ Answering /\ shown' = {}
  /\ UNCHANGED <<plan, uploaded, staged, seen, indexer, index, erased, gone, reading, pasted, ordered, chat,
                 history, faults>>

\* The store once a draft is put: one of the same name is replaced.
WithDraft(d) == documents \cup {d}

\* handleUploadDraft.
StoreDraft ==
  /\ gateway # <<>> /\ Request.kind = "draft" /\ gateway' = Tail(gateway)
  /\ documents' = WithDraft(Request.name)
  /\ Answering
  /\ UNCHANGED <<plan, uploaded, staged, seen, indexer, index, erased, gone, reading, pasted, ordered, shown,
                 chat, history, faults>>

\* listIngestedUrls: the links in the index, of more than 20 those with most chunks.
Listed == Visible \cap Links

Show(kind, list) ==
  /\ gateway # <<>> /\ Request.kind = kind /\ gateway' = Tail(gateway)
  /\ Answering
  /\ shown' = IF Request \in order THEN list ELSE shown
  /\ UNCHANGED <<objects, indexer, index, erased, gone, reading, pasted, ordered, chat, history, faults>>

\* handleListFiles: all under <u>/.  handleListIngestedUrls.
ShowFiles == Show("list", documents)
ShowLinks == Show("links", Listed)

(***************************************************************************)
(* The user.                                                               *)
(***************************************************************************)
Send(kind) == gateway' = Append(gateway, [kind |-> kind])

\* RagPipeline.query: with the cache set there is no search (and no step here).
Ask ==
  /\ "search" \in plan.asks
  /\ asking = "no" /\ ~noDocs /\ asking' = "waiting" /\ known' = cleared
  /\ \A r \in ToSet(gateway) : r.kind # "search"
  /\ Send("search")
  /\ UNCHANGED <<objects, indexer, index, erased, gone, noDocs, raced, history, faults, commands>>

\* 3 s: the answer will lie in a key nobody reads.
SearchTimesOut ==
  /\ asking = "waiting" /\ asking' = "no"
  /\ UNCHANGED <<objects, indexer, search, noDocs, known, raced, history, faults, commands>>

\* The answer arrived empty: remember it for 300 s.
SetNoDocs ==
  /\ asking = "nothing" /\ asking' = "no"
  /\ noDocs' = TRUE /\ raced' = cleared \ known
  /\ UNCHANGED <<objects, indexer, search, known, history, faults, commands>>

NoDocsExpires ==
  /\ noDocs /\ noDocs' = FALSE /\ raced' = {}
  /\ UNCHANGED <<objects, indexer, search, asking, known, history, faults, commands>>

\* handle_forget: the flags and the objects stay.
Forget ==
  /\ "forget" \in plan.asks
  /\ \A r \in ToSet(gateway) : r.kind # "forget"
  /\ documents # {} \/ pasted > 0
  /\ erased = {}
  /\ Send("forget")
  /\ UNCHANGED <<objects, indexer, index, erased, gone, commands, chat, history, faults>>

\* _dg_request.
Order(what) ==
  /\ what.kind \in plan.asks /\ ordered' = ordered + 1
  /\ order' = {what} /\ gateway' = Append(gateway, what)
  /\ UNCHANGED <<objects, indexer, index, erased, gone, reading, pasted, shown, chat, history, faults>>

\* 10 s: the user is told so, and the request is served all the same.
OrderTimesOut ==
  /\ order # {} /\ order' = {}
  /\ UNCHANGED <<objects, indexer, search, reading, pasted, ordered, shown, chat, history, faults>>

(***************************************************************************)
(* Links.  (Those that cannot be read safely are left out: nothing is done.)  *)
(***************************************************************************)
\* A message with a link: if it is nothing else, the answer waits for the reading,
\* else that goes on in the background.  One reading of a link at a time.
Paste(l, alone) ==
  /\ l \in plan.sent /\ pasted < plan.pastes /\ pasted' = pasted + 1
  /\ \A t \in reading : t.link # l
  /\ reading' = reading \cup {[link |-> l, alone |-> alone, pushed |-> 0]}
  /\ flag' = TRUE /\ stuck' = FALSE
  /\ erased' = erased \ {l}
  /\ UNCHANGED <<objects, pending, indexing, job, gateway, index, gone, order, ordered, shown, chat, history,
                 faults>>

\* Fetched, cut and embedded, chunk by chunk.
PushPart(t) ==
  /\ t.pushed < Chunks
  /\ reading' = (reading \ {t}) \cup {[t EXCEPT !.pushed = @ + 1]}
  /\ gateway' = Append(gateway, [kind |-> "chunk", file |-> t.link, n |-> t.pushed + 1])
  /\ UNCHANGED <<objects, indexer, index, erased, gone, pasted, order, ordered, shown, chat, history, faults>>

\* All pushed: delete cache:no_docs.
ClearNoDocs(t) ==
  /\ t.pushed = Chunks
  /\ reading' = (reading \ {t}) \cup {[t EXCEPT !.pushed = @ + 1]}
  /\ noDocs' = FALSE /\ raced' = {} /\ cleared' = cleared \cup {t.link}
  /\ UNCHANGED <<objects, indexer, search, pasted, order, ordered, shown, asking, known, told, attempted, faults>>

\* The reading ends; the flag goes, whoever else set it.
EndReading(t) ==
  /\ reading' = reading \ {t}
  /\ flag' = FALSE /\ stuck' = FALSE
  /\ UNCHANGED <<objects, pending, indexing, job, search, pasted, order, ordered, shown, chat, history>>

\* It cannot be fetched, or is no text, or cannot be embedded.
ReadNothing(t) == t.pushed = 0 /\ EndReading(t) /\ UNCHANGED faults

StopReading(t) == t.pushed = Chunks + 1 /\ EndReading(t) /\ UNCHANGED faults

\* Redis refuses a chunk: the rest of the link is left, the flag goes.
PushFails(t) == t.pushed < Chunks /\ EndReading(t) /\ Fault

\* An answer waits for 20 s; then wait_for cancels the reading, wherever it is.  The
\* end of the process, and a Redis that does not even take the flag back, leave as much.
BreakOff(t) ==
  /\ \/ t.alone /\ UNCHANGED faults
     \/ Fault
  /\ reading' = reading \ {t}
  /\ stuck' = flag
  /\ UNCHANGED <<objects, pending, indexing, job, flag, search, pasted, order, ordered, shown, chat, history>>

Read(t) == PushPart(t) \/ ClearNoDocs(t) \/ StopReading(t) \/ ReadNothing(t) \/ PushFails(t) \/ BreakOff(t)

UserNext == Ask \/ SearchTimesOut \/ SetNoDocs \/ NoDocsExpires \/ Forget \/ OrderTimesOut
GatewayNext == IndexChunk \/ Search \/ Erase \/ EraseLink \/ DeleteObject \/ StoreDraft \/ ShowFiles \/ ShowLinks
IndexerNext == CannotIndex \/ PushChunk \/ Settle \/ Finish

Next ==
  \/ \E f \in Files : Upload(f) \/ Scan(f) \/ SeenExpires(f)
  \/ order = {} /\ ordered < plan.orders /\ \E o \in OrdersAt(ordered) : Order(o)
  \/ \E l \in Links, alone \in BOOLEAN : Paste(l, alone)
  \/ \E t \in reading : Read(t)
  \/ Dispatch \/ DispatchFails \/ DispatchDies \/ FlagExpires
  \/ Take \/ IndexerNext \/ TimesOut \/ IndexerDies
  \/ GatewayNext \/ RequestFails \/ UserNext

Indexing == Take \/ IndexerNext
Scanning == \E f \in Files : Scan(f)

\* The upload worker, the indexer and the scan each go on.
Fairness == WF_vars(Dispatch) /\ WF_vars(Indexing) /\ WF_vars(Scanning)

Spec == Init /\ [][Next]_vars /\ Fairness

(***************************************************************************)
(* Properties.                                                             *)
(***************************************************************************)
\* While a question skips the search, no file of the user has been indexed (the
\* very next question after an upload finds it: indexer.py, no_docs) -- except
\* one whose indexing overlapped the search that came back empty: that answer
\* sets the cache again behind the indexer's delete.
NoDocsIsTrue == noDocs => cleared \subseteq raced \cup gone

\* What a user is told of the indexing is true.  "Done" only when each chunk is
\* indexed, or waits in the gateway's queue in front of the next question --
\* unless the gateway failed on one, which the indexer never learns, or the user
\* erased it.  "Still indexing" only while a file is, whichever of its ways out the
\* indexer takes, or a link is being read; or for a while after a process died, or after
\* a reading was cancelled.
NoticesAreTrue ==
  /\ \A f \in Files \ gone : "done" \in told[f] =>
       \A n \in 1..Chunks : \/ index[f][n] > 0
                          \/ [kind |-> "chunk", file |-> f, n |-> n] \in ToSet(gateway)
  /\ flag => \/ stuck
             \/ reading # {}
             \/ \E t \in ToSet(indexing) \cup {j.task : j \in job} : t.file \in Personal

\* What was erased by /forget, or a link by /forget-url, does not come back by itself,
\* in the index or in what /ingested shows.  (What was not yet indexed then, a link
\* that was being read, and objects left in staging, may.)
ErasedStays ==
  \A f \in erased :
    /\ \A n \in 1..Chunks : index[f][n] = 0
    /\ \A r \in ToSet(gateway) : r.kind = "chunk" => r.file # f
    /\ f \in Links => f \notin shown

\* Whatever fails on the way, what is stored gets a try by the indexer: the scan
\* finds it if nothing else does (s3-reindex).
EveryFileTried == uploaded # {} ~> uploaded \subseteq attempted
=============================================================================
