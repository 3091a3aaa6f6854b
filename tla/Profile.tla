------------------------------ MODULE Profile ------------------------------
(***************************************************************************)
(* What the sub-agents know of one user: consent, the onboarding wizard, the *)
(* profile edited by /profile, the chat history.  Each lives in Redis, in a  *)
(* cache with a time to live, and in the table behind the data gateway, which*)
(* handles its queue in order, one request at a time.                        *)
(***************************************************************************)
EXTENDS Naturals, Sequences, FiniteSets

CONSTANTS
  Workers,    \* sub-agents
  Scenarios   \* what the user says, what is known of the user before, and a bound on
              \* faults: time-outs, failures, deaths, refusals, expiries

Edits == {"depth", "domain"}
Commands == Edits \cup {"forget"}
Kinds == Commands \cup {"text", "yes", "no", "1", "short"}
Statuses == {"none", "granted", "declined"}
Phases == {"none", "name", "use", "style"}
Reads == {"preferences", "history"}
Requests == Reads \cup {"edit", "onboarded", "chat"}
Places == {"idle", "reply", "wizard", "answer", "store", "clear", "greeting",
  "probe", "greet", "activate", "limit", "edit", "editProbe", "put", "cache", "chat",
  "history", "refill", "think", "bust"}

ConstantAssumption ==
  \A s \in Scenarios :
    /\ s.says \in Seq(Kinds) /\ s.consent \in Statuses /\ s.wizard \in Phases
    /\ s.faults \in Nat
    /\ {s.greeted, s.known, s.cached} \subseteq BOOLEAN
    /\ s.cached => s.known

VARIABLES
  script, said,        \* what the user says, how much of it was taken
  at, msg,             \* per sub-agent: where it is, with which message
  got,                 \* the phase, profile or history it has read
  consent, wizard, greeted,
  profile,             \* cache:profile, or Nothing
  recall,              \* cache:chat_history, or Nothing
  requests,            \* queue:orchestrator:data_gateway
  table,               \* user_preferences: a value is the message that set it
  chats,               \* chat_messages
  storing,             \* fire-and-forget stores, each with its sub-agent
  finished,            \* history: stored, and the cache busted after it
  due,                 \* history: what was finished when the message was taken
  raced,               \* history: finished while a fetch was under way, or after a failed one
  acked,               \* history: edits acknowledged, and not followed by one of their field
  overlapped,          \* history: edits in hand together, or not stored or cached
  undone,              \* history: edits whose value an edit of the other field took away
  wizards, excused,    \* history: wizards started; chances to start one too many
  faults

talk == <<script, said>>
memory == <<consent, wizard, greeted>>
caches == <<profile, recall>>
stores == <<table, chats>>
story == <<finished, due, raced>>
ghosts == <<acked, overlapped, undone, wizards, excused>>
vars == <<talk, at, msg, got, memory, caches, requests, stores, storing, story, ghosts, faults>>

Says == script.says
Said(w) == Says[msg[w]]
Old == Len(Says) + 1    \* the value a field had before
Fields == [depth : 0..Old, domain : 0..Old]   \* 0: null, or not there
Unset == [depth |-> 0, domain |-> 0]
Items == 1..Len(Says)
Nothing == [at |-> "nothing"]
Cached(x) == [at |-> "cached", it |-> x]
Is(x) == x.at = "cached"

TypeOK ==
  /\ script \in Scenarios /\ said \in 0..Len(Says)
  /\ at \in [Workers -> Places] /\ msg \in [Workers -> 0..Len(Says)]
  /\ \A w \in Workers :
       /\ at[w] \in {"wizard", "answer", "store"} => got[w].phase \in Phases
       /\ at[w] \in {"put", "cache"} => got[w].fields \in Fields
       /\ at[w] \in {"refill", "think"} => got[w].seen \in SUBSET Items
  /\ consent \in Statuses /\ wizard \in Phases /\ greeted \in BOOLEAN
  /\ Is(profile) => profile.it \in Fields
  /\ Is(recall) => recall.it \in SUBSET Items
  /\ requests \in Seq([kind : Requests, w : Workers, m : 1..Len(Says), fields : Fields])
  /\ table.done \in BOOLEAN /\ table.fields \in Fields /\ chats \in SUBSET Items
  /\ storing \in SUBSET [w : Workers, item : Items, pushed : BOOLEAN]
  /\ finished \in SUBSET Items /\ due \in [Workers -> SUBSET Items] /\ raced \in SUBSET Items
  /\ acked \in SUBSET (1..Len(Says)) /\ overlapped \in SUBSET (1..Len(Says))
  /\ undone \in SUBSET (0..Old) /\ wizards \in Nat /\ excused \in Nat
  /\ faults \in 0..script.faults

Init ==
  /\ script \in Scenarios /\ said = 0
  /\ at = [w \in Workers |-> "idle"] /\ msg = [w \in Workers |-> 0]
  /\ got = [w \in Workers |-> Nothing]
  /\ consent = script.consent /\ wizard = script.wizard /\ greeted = script.greeted
  /\ table = [done |-> script.known,
              fields |-> IF script.known THEN [depth |-> Old, domain |-> Old] ELSE Unset]
  /\ profile = IF script.cached THEN Cached(table.fields) ELSE Nothing
  /\ recall = Nothing /\ requests = <<>>
  /\ chats = {} /\ storing = {} /\ finished = {} /\ due = [w \in Workers |-> {}] /\ raced = {}
  /\ acked = {} /\ overlapped = {} /\ undone = {} /\ wizards = 0 /\ excused = 0 /\ faults = 0

Fault == faults < script.faults /\ faults' = faults + 1
Goes(w, place) == at' = [at EXCEPT ![w] = place]
Keeps(w, x) == got' = [got EXCEPT ![w] = x]
\* The reply is on its way; what was read is forgotten.
Done(w) == Goes(w, "idle") /\ Keeps(w, Nothing) /\ msg' = [msg EXCEPT ![w] = 0]
           /\ due' = [due EXCEPT ![w] = {}]
Request(kind, w, fields) ==
  requests' = Append(requests, [kind |-> kind, w |-> w, m |-> msg[w], fields |-> fields])
Editing == {w \in Workers : at[w] \in {"edit", "editProbe", "put", "cache"}}

NeedsConsent(w) ==
  Goes(w, IF consent = "granted" THEN "wizard" ELSE "reply")
  /\ Keeps(w, [at |-> "phase", phase |-> "none"])

\* The first thing asked of a message is whether its user has consented.
Take(w) ==
  /\ at[w] = "idle" /\ said < Len(Says)
  /\ said' = said + 1 /\ msg' = [msg EXCEPT ![w] = said + 1] /\ due' = [due EXCEPT ![w] = finished]
  /\ NeedsConsent(w)
  /\ UNCHANGED <<script, memory, caches, requests, stores, storing, finished, raced, ghosts, faults>>

(***************************************************************************)
(* Consent and onboarding.                                                 *)
(***************************************************************************)
\* CONSENT_MESSAGE goes out when another sub-agent has taken the consent since.
Consents(w) ==
  /\ at[w] = "reply" /\ consent # "granted" /\ Said(w) = "yes"
  /\ consent' = "granted" /\ Goes(w, "wizard")
  /\ UNCHANGED <<talk, msg, got, wizard, greeted, caches, requests, stores, storing, story,
                 ghosts, faults>>

Asks(w) ==
  /\ at[w] = "reply" /\ ~(consent # "granted" /\ Said(w) = "yes")
  /\ consent' = IF consent # "granted" /\ Said(w) = "no" THEN "declined" ELSE consent
  /\ Done(w)
  /\ UNCHANGED <<talk, wizard, greeted, caches, requests, stores, storing, finished, raced,
                 ghosts, faults>>

\* A command gets by the wizard; a read that fails finds none.
LoadState(w, ok) ==
  /\ at[w] = "wizard" /\ (IF ok THEN UNCHANGED faults ELSE Fault)
  /\ LET phase == IF ok THEN wizard ELSE "none"
     IN /\ Keeps(w, [at |-> "phase", phase |-> phase])
        /\ Goes(w, IF Said(w) \in Commands THEN "limit"
                   ELSE IF phase # "none" THEN "answer" ELSE "greeting")
  /\ UNCHANGED <<talk, msg, memory, caches, requests, stores, storing, story, ghosts>>

\* The whole state is written back, from what was read.
Answers(w) ==
  /\ at[w] = "answer"
  /\ LET phase == got[w].phase IN
       \/ /\ phase = "style" /\ Said(w) = "short" /\ Goes(w, "store")
          /\ UNCHANGED <<wizard, msg, got, due>>
       \/ /\ ~(phase = "style" /\ Said(w) = "short")
          /\ wizard' = CASE phase = "name" -> "use"
                         [] phase = "use" /\ Said(w) = "1" -> "style"
                         [] OTHER -> phase
          /\ Done(w)
  /\ UNCHANGED <<talk, consent, greeted, caches, requests, stores, storing, finished, raced,
                 ghosts, faults>>

\* The queueing may fail; the wizard is over all the same.
StorePreferences(w, ok) ==
  /\ at[w] = "store" /\ Goes(w, "clear")
  /\ IF ok THEN Request("onboarded", w, Unset) /\ UNCHANGED faults
           ELSE Fault /\ UNCHANGED requests
  /\ UNCHANGED <<talk, msg, got, memory, caches, stores, storing, story, ghosts>>

ClearState(w) ==
  /\ at[w] = "clear" /\ wizard' = "none" /\ Done(w)
  /\ UNCHANGED <<talk, consent, greeted, caches, requests, stores, storing, finished, raced,
                 ghosts, faults>>

\* A marker that cannot be read is none.
Greets(w, ok) ==
  /\ at[w] = "greeting" /\ (IF ok THEN UNCHANGED faults ELSE Fault)
  /\ LET met == greeted /\ ok
     IN /\ Goes(w, IF met THEN "limit" ELSE "probe")
        /\ IF met THEN UNCHANGED requests ELSE Request("preferences", w, Unset)
  /\ excused' = IF ~ok \/ (~greeted /\ \E v \in Workers \ {w} : at[v] \in {"probe", "greet"})
                THEN excused + 1 ELSE excused
  /\ UNCHANGED <<talk, msg, got, memory, caches, stores, storing, story, acked, overlapped,
                 undone, wizards>>

\* Mutant: a user who is new is not marked yet.
MarksKnown(w, ok) ==
  /\ at[w] = "greet" /\ greeted' = (greeted \/ (ok /\ ~got[w].new))
  /\ (IF ok THEN UNCHANGED <<excused, faults>> ELSE excused' = excused + 1 /\ Fault)
  /\ Goes(w, IF got[w].new THEN "activate" ELSE "limit") /\ Keeps(w, Nothing)
  /\ UNCHANGED <<talk, msg, consent, wizard, caches, requests, stores, storing, story, acked,
                 overlapped, undone, wizards>>

\* Marked whatever the probe said, unless the write fails.
Marks(w, ok) ==
  /\ at[w] = "greet" /\ greeted' = (greeted \/ ok)
  /\ (IF ok THEN UNCHANGED <<excused, faults>> ELSE excused' = excused + 1 /\ Fault)
  /\ Goes(w, IF got[w].new THEN "activate" ELSE "limit") /\ Keeps(w, Nothing)
  /\ UNCHANGED <<talk, msg, consent, wizard, caches, requests, stores, storing, story, acked,
                 overlapped, undone, wizards>>

\* The message that began it is dropped.
Activates(w) ==
  /\ at[w] = "activate" /\ wizard' = "name" /\ wizards' = wizards + 1 /\ Done(w)
  /\ UNCHANGED <<talk, consent, greeted, caches, requests, stores, storing, finished, raced,
                 acked, overlapped, undone, excused, faults>>

(***************************************************************************)
(* Commands.                                                               *)
(***************************************************************************)
Allowed(w) ==
  /\ at[w] = "limit"
  /\ Goes(w, IF Said(w) \in Edits THEN "edit" ELSE IF Said(w) = "forget" THEN "bust" ELSE "chat")
  /\ overlapped' = IF Said(w) \in Edits /\ Editing # {}
                   THEN overlapped \cup {msg[w]} \cup {msg[v] : v \in Editing} ELSE overlapped
  /\ IF Said(w) = "forget" THEN consent' = "none" /\ wizard' = "none" /\ recall' = Nothing
                           ELSE UNCHANGED <<consent, wizard, recall>>
  /\ UNCHANGED <<talk, msg, got, greeted, profile, requests, stores, storing, story, acked,
                 undone, wizards, excused, faults>>

\* check_and_record: too many messages.
Refused(w) ==
  /\ at[w] = "limit" /\ Fault /\ Done(w)
  /\ UNCHANGED <<talk, memory, caches, requests, stores, storing, finished, raced, ghosts>>

\* The fields of the edit over those that are there.
Merged(w, base) == [base EXCEPT ![Said(w)] = msg[w]]

ReadProfile(w) ==
  /\ at[w] = "edit"
  /\ IF Is(profile)
     THEN Goes(w, "put") /\ UNCHANGED requests
          /\ Keeps(w, [at |-> "fields", fields |-> Merged(w, profile.it)])
     ELSE Goes(w, "editProbe") /\ Request("preferences", w, Unset) /\ UNCHANGED got
  /\ UNCHANGED <<talk, msg, memory, caches, stores, storing, story, ghosts, faults>>

Put(w) ==
  /\ at[w] = "put" /\ Goes(w, "cache") /\ Request("edit", w, got[w].fields)
  /\ acked' = {m \in acked : Says[m] # Said(w)}
  /\ UNCHANGED <<talk, msg, got, memory, caches, stores, storing, story, overlapped, undone,
                 wizards, excused, faults>>

PutFails(w) ==
  /\ at[w] = "put" /\ Fault /\ Done(w)
  /\ UNCHANGED <<talk, memory, caches, requests, stores, storing, finished, raced, ghosts>>

\* Mutant: only the first edit is cached.
CacheProfileOnce(w) ==
  /\ at[w] = "cache" /\ acked' = acked \cup {msg[w]} /\ Done(w)
  /\ profile' = IF Is(profile) THEN profile ELSE Cached(got[w].fields)
  /\ UNCHANGED <<talk, memory, recall, requests, stores, storing, finished, raced, overlapped,
                 undone, wizards, excused, faults>>

\* "Updated", whatever becomes of the request.
CacheProfile(w) ==
  /\ at[w] = "cache" /\ acked' = acked \cup {msg[w]} /\ Done(w)
  /\ profile' = Cached(got[w].fields)
  /\ UNCHANGED <<talk, memory, recall, requests, stores, storing, finished, raced, overlapped,
                 undone, wizards, excused, faults>>

CacheFails(w) ==
  /\ at[w] = "cache" /\ Fault /\ acked' = acked \cup {msg[w]} /\ Done(w)
  /\ overlapped' = overlapped \cup {msg[w]}
  /\ UNCHANGED <<talk, memory, caches, requests, stores, storing, finished, raced, undone,
                 wizards, excused>>

(***************************************************************************)
(* Chat.                                                                   *)
(***************************************************************************)
GetHistory(w) ==
  /\ at[w] = "chat"
  /\ IF Is(recall)
     THEN Goes(w, "think") /\ Keeps(w, [at |-> "seen", seen |-> recall.it]) /\ UNCHANGED requests
     ELSE Goes(w, "history") /\ Request("history", w, Unset) /\ UNCHANGED got
  /\ UNCHANGED <<talk, msg, memory, caches, stores, storing, story, ghosts, faults>>

Refill(w) ==
  /\ at[w] = "refill" /\ Goes(w, "think") /\ recall' = Cached(got[w].seen)
  /\ UNCHANGED <<talk, msg, got, memory, profile, requests, stores, storing, story, ghosts,
                 faults>>

\* The user's message is stored by a task of its own while the answer is made, the
\* answer by another beside the busting of the cache: one item stands for either.
Think(w) ==
  /\ at[w] = "think" /\ Goes(w, "bust")
  /\ storing' = storing \cup {[w |-> w, item |-> msg[w], pushed |-> FALSE]}
  /\ UNCHANGED <<talk, msg, got, memory, caches, requests, stores, story, ghosts, faults>>

Bust(w) ==
  /\ at[w] = "bust" /\ Done(w)
  /\ recall' = IF Said(w) = "forget" THEN recall ELSE Nothing
  /\ UNCHANGED <<talk, memory, profile, requests, stores, storing, finished, raced, ghosts,
                 faults>>

StorePush(t) ==
  /\ t \in storing /\ ~t.pushed
  /\ storing' = (storing \ {t}) \cup {[t EXCEPT !.pushed = TRUE]}
  /\ requests' = Append(requests,
       [kind |-> "chat", w |-> t.w, m |-> t.item, fields |-> Unset])
  /\ UNCHANGED <<talk, at, msg, got, memory, caches, stores, story, ghosts, faults>>

\* Mutant: nobody deletes.
StoreKeeps(t) ==
  /\ t \in storing /\ t.pushed /\ storing' = storing \ {t}
  /\ finished' = finished \cup {t.item}
  /\ raced' = IF \E w \in Workers : at[w] \in {"history", "refill"}
              THEN raced \cup {t.item} ELSE raced
  /\ UNCHANGED <<talk, at, msg, got, memory, caches, requests, stores, due, ghosts, faults>>

StoreDelete(t) ==
  /\ t \in storing /\ t.pushed /\ storing' = storing \ {t}
  /\ recall' = Nothing /\ finished' = finished \cup {t.item}
  /\ raced' = IF \E w \in Workers : at[w] \in {"history", "refill"}
              THEN raced \cup {t.item} ELSE raced
  /\ UNCHANGED <<talk, at, msg, got, memory, profile, requests, stores, due, ghosts, faults>>

(***************************************************************************)
(* The data gateway.                                                       *)
(***************************************************************************)
Awaits(r) == msg[r.w] = r.m /\ at[r.w] \in (IF r.kind = "history" THEN {"history"}
                                            ELSE {"probe", "editProbe"})

\* What a sub-agent makes of the answer to a read: of the preferences, only those
\* of a user who is not new; no answer and an error leave it with nothing.
Told(w, fields, known, seen) ==
  CASE at[w] = "probe" -> Goes(w, "greet") /\ Keeps(w, [at |-> "new", new |-> ~known])
    [] at[w] = "editProbe" ->
         /\ Goes(w, "put")
         /\ Keeps(w, [at |-> "fields", fields |-> Merged(w, IF known THEN fields ELSE Unset)])
    [] at[w] = "history" -> Goes(w, "refill") /\ Keeps(w, [at |-> "seen", seen |-> seen])

GetUserPreference == [known |-> table.done, fields |-> table.fields]
PutUserPreference(fields) == table' = [done |-> TRUE, fields |-> fields]
GetChatHistory == chats

HandleGetUserPreference(r) ==
  /\ r.kind = "preferences"
  /\ IF Awaits(r) THEN Told(r.w, GetUserPreference.fields, GetUserPreference.known, {})
                  ELSE UNCHANGED <<at, got>>
  /\ UNCHANGED <<stores, overlapped, undone>>

HandleGetChatHistory(r) ==
  /\ r.kind = "history"
  /\ IF Awaits(r) THEN Told(r.w, Unset, FALSE, GetChatHistory) ELSE UNCHANGED <<at, got>>
  /\ UNCHANGED <<stores, overlapped, undone>>

\* A null is refused; other fields of the record stay.
HandlePutUserPreference(r) ==
  /\ r.kind \in {"edit", "onboarded"}
  /\ IF r.kind = "onboarded" THEN PutUserPreference(table.fields)
     ELSE IF 0 \in {r.fields.depth, r.fields.domain} THEN UNCHANGED table
     ELSE PutUserPreference(r.fields)
  /\ undone' = undone \cup
       {table.fields[f] : f \in {f \in Edits : /\ f # Says[r.m]
                                               /\ table'.fields[f] # table.fields[f]}}
  /\ overlapped' = IF r.kind = "edit" /\ table' = table THEN overlapped \cup {r.m} ELSE overlapped
  /\ UNCHANGED <<chats, at, got>>

HandlePutChatMessage(r) ==
  /\ r.kind = "chat" /\ chats' = chats \cup {r.m}
  /\ UNCHANGED <<table, at, got, overlapped, undone>>

Handle ==
  /\ requests # <<>> /\ requests' = Tail(requests)
  /\ LET r == Head(requests) IN 
       HandleGetUserPreference(r) \/ HandleGetChatHistory(r) \/ HandlePutUserPreference(r)
         \/ HandlePutChatMessage(r)
  /\ UNCHANGED <<talk, msg, memory, caches, storing, story, acked, wizards, excused, faults>>

\* The error is answered to a read; an empty history is cached like any other.
HandleFails ==
  /\ requests # <<>> /\ requests' = Tail(requests) /\ Fault
  /\ LET r == Head(requests) IN
       /\ IF r.kind \in Reads /\ Awaits(r) THEN Told(r.w, Unset, FALSE, {})
                                           ELSE UNCHANGED <<at, got>>
       /\ due' = IF r.kind = "history" /\ Awaits(r) THEN [due EXCEPT ![r.w] = {}] ELSE due
       /\ raced' = CASE r.kind = "history" -> raced \cup finished
                     [] r.kind = "chat" -> raced \cup {r.m}
                     [] OTHER -> raced
       /\ overlapped' = IF r.kind = "edit" THEN overlapped \cup {r.m} ELSE overlapped
  /\ UNCHANGED <<talk, msg, memory, caches, stores, storing, finished, acked, undone, wizards,
                 excused>>

\* Nothing in 5 s, for the history in 3 s, which is then not cached.
TimesOut(w) ==
  /\ at[w] \in {"probe", "editProbe", "history"} /\ Fault
  /\ IF at[w] = "history"
     THEN Goes(w, "think") /\ Keeps(w, [at |-> "seen", seen |-> {}]) /\ due' = [due EXCEPT ![w] = {}]
     ELSE Told(w, Unset, FALSE, {}) /\ UNCHANGED due
  /\ UNCHANGED <<talk, msg, memory, caches, requests, stores, storing, finished, raced, ghosts>>

(***************************************************************************)
(* Time and death.                                                         *)
(***************************************************************************)
\* A time to live runs out: 120 s, 5 min, 1 h.
Expires ==
  /\ Fault
  /\ \/ Is(profile) /\ profile' = Nothing /\ UNCHANGED <<recall, wizard>>
     \/ Is(recall) /\ recall' = Nothing /\ UNCHANGED <<profile, wizard>>
     \/ wizard # "none" /\ wizard' = "none" /\ UNCHANGED <<profile, recall>>
  /\ UNCHANGED <<talk, at, msg, got, consent, greeted, requests, stores, storing, story, ghosts>>

Dies(w) ==
  /\ at[w] # "idle" /\ Fault /\ Done(w)
  /\ storing' = {t \in storing : t.w # w}
  /\ UNCHANGED <<talk, memory, caches, requests, stores, finished, raced, ghosts>>

Works(w) ==
  \/ Take(w) \/ Consents(w) \/ Asks(w) \/ Answers(w) \/ ClearState(w)
  \/ Activates(w) \/ Allowed(w) \/ Refused(w) \/ ReadProfile(w) \/ Put(w)
  \/ PutFails(w) \/ CacheProfile(w) \/ CacheFails(w) \/ GetHistory(w) \/ Refill(w)
  \/ Think(w) \/ Bust(w) \/ TimesOut(w) \/ Dies(w)
  \/ \E ok \in BOOLEAN : LoadState(w, ok) \/ StorePreferences(w, ok) \/ Greets(w, ok) \/ Marks(w, ok)

Next ==
  \/ \E w \in Workers : Works(w)
  \/ \E t \in storing : StorePush(t) \/ StoreDelete(t)
  \/ Handle \/ HandleFails \/ Expires

Spec == Init /\ [][Next]_vars

(***************************************************************************)
(* Properties.                                                             *)
(***************************************************************************)
\* An edit of one field takes away the value of the other one only if that was in hand
\* together with another edit, was refused or failed at the gateway, or did not reach the
\* cache (handle_profile reads the cache first, and the gateway takes its queue in order).
EditsStand == undone \cap acked \subseteq overlapped

\* What was stored and busted from the cache before a message was taken is in the
\* history the message is answered with, unless a fetch was under way meanwhile or
\* failed (_get_chat_history, _store_chat_message, the delete at main.py:533).
HistoryFresh == \A w \in Workers : at[w] = "think" => due[w] \subseteq got[w].seen \cup raced

\* The wizard is started once in a user's life, but for two sub-agents that greet at
\* once and a mark that could not be written or read; not after /forget (main.py:317).
OnboardedOnce == wizards <= 1 + excused
=============================================================================
