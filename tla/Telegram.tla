------------------------------ MODULE Telegram -----------------------------
(***************************************************************************)
(* The Telegram adapter (src/src/channels/telegram.ts): the long-poll loop   *)
(* that fetches updates and hands them to the router without waiting for it, *)
(* and the posts of the host's deliveries.  What a death of the process cuts *)
(* off is lost or fetched again.                                             *)
(***************************************************************************)
EXTENDS Naturals

CONSTANTS
  Wordy,        \* updates with text or a caption, numbered as they come
  Posts, Media, \* messages to post; those with an image, a sound or a document
  MaxUpdates,   \* bound: how many updates come
  MaxBotFaults  \* bound on failed calls, failed routings and deaths

ConstantAssumption ==
  /\ Wordy \subseteq Nat /\ Media \subseteq Posts /\ MaxUpdates \in Nat /\ MaxBotFaults \in Nat

Updates == 1..MaxUpdates
Loops == {"down", "off", "polling", "fetching", "fetched", "pause"}
Ways == {"text", "media", "link"}

VARIABLES
  loop,        \* setup and pollLoop
  torn,        \* polling = FALSE
  offset,      \* nextOffset
  written,     \* how many updates Telegram has
  confirmed,   \* those below it are dropped there
  fetched,     \* what getUpdates has returned, up to this one
  forwarding,  \* updates routeInbound works on
  forwarded,   \* [Updates -> how often onInbound was called]
  routed,      \* history: updates the router was done with
  cut,         \* history: whose routing failed, or was cut off by a death
  repeats,     \* [Updates -> deaths after which Telegram has a forwarded one still]
  post,        \* [Posts -> how far deliver is]
  posted,      \* [Posts -> how the message was shown]
  unheard,     \* history: posts with a failed call or a death
  botFaults

loopVars == <<loop, torn, offset, written, confirmed, fetched>>
routeVars == <<forwarding, forwarded, routed, cut, repeats>>
postVars == <<post, posted, unheard>>
telegramVars == <<loopVars, routeVars, postVars, botFaults>>

TypeOK ==
  /\ loop \in Loops /\ torn \in BOOLEAN
  /\ offset \in 0..(MaxUpdates + 1) /\ written \in 0..MaxUpdates
  /\ confirmed \in 0..(MaxUpdates + 1) /\ fetched \in 0..MaxUpdates
  /\ forwarding \in SUBSET Updates /\ forwarded \in [Updates -> Nat]
  /\ routed \in SUBSET Updates /\ cut \in SUBSET Updates /\ repeats \in [Updates -> Nat]
  /\ post \in [Posts -> {"waiting", "text", "media", "link", "done"}]
  /\ posted \in [Posts -> SUBSET Ways] /\ unheard \in SUBSET Posts
  /\ botFaults \in 0..MaxBotFaults

Init ==
  /\ loop = "down" /\ torn = FALSE /\ offset = 0 /\ written = 0 /\ confirmed = 0 /\ fetched = 0
  /\ forwarding = {} /\ forwarded = [u \in Updates |-> 0] /\ routed = {} /\ cut = {}
  /\ repeats = [u \in Updates |-> 0]
  /\ post = [m \in Posts |-> "waiting"] /\ posted = [m \in Posts |-> {}] /\ unheard = {}
  /\ botFaults = 0

Fault == botFaults < MaxBotFaults /\ botFaults' = botFaults + 1

(***************************************************************************)
(* The loop.                                                               *)
(***************************************************************************)
\* A token Telegram does not know leaves the adapter off.
Setup(known) ==
  /\ loop = "down"
  /\ loop' = IF known THEN "polling" ELSE "off"
  /\ (IF known THEN UNCHANGED botFaults ELSE Fault)
  /\ UNCHANGED <<torn, offset, written, confirmed, fetched, routeVars, postVars>>

Writes ==
  /\ written < MaxUpdates /\ written' = written + 1
  /\ UNCHANGED <<loop, torn, offset, confirmed, fetched, routeVars, postVars, botFaults>>

\* The request of the loop; it ends with polling.
Asks ==
  /\ loop = "polling" /\ ~torn /\ loop' = "fetching"
  /\ UNCHANGED <<torn, offset, written, confirmed, fetched, routeVars, postVars, botFaults>>

\* Telegram drops what is below the offset and returns the rest.
GetUpdates ==
  /\ loop = "fetching" /\ loop' = "fetched"
  /\ confirmed' = IF offset > confirmed THEN offset ELSE confirmed
  /\ fetched' = written
  /\ UNCHANGED <<torn, offset, written, routeVars, postVars, botFaults>>

\* What is new to the loop.
Batch == {u \in 1..fetched : confirmed <= u /\ offset <= u}

\* Each update moves the offset and is handed to the router, which nobody awaits; one
\* without text is not (its file goes to the indexer, see Documents).
Takes ==
  /\ loop = "fetched" /\ loop' = "polling"
  /\ offset' = IF Batch = {} THEN offset ELSE fetched + 1
  /\ forwarding' = forwarding \cup (Batch \cap Wordy)
  /\ forwarded' = [u \in Updates |-> IF u \in Batch \cap Wordy THEN forwarded[u] + 1
                                                               ELSE forwarded[u]]
  /\ UNCHANGED <<torn, written, confirmed, fetched, routed, cut, repeats, postVars, botFaults>>

\* The request fails on its way there or back.
FetchFails ==
  /\ loop \in {"fetching", "fetched"} /\ Fault /\ loop' = "pause"
  /\ UNCHANGED <<torn, offset, written, confirmed, fetched, routeVars, postVars>>

\* After 5 s, unless torn down.
Retries ==
  /\ loop = "pause" /\ loop' = "polling"
  /\ UNCHANGED <<torn, offset, written, confirmed, fetched, routeVars, postVars, botFaults>>

Teardown ==
  /\ loop # "down" /\ ~torn /\ torn' = TRUE
  /\ UNCHANGED <<loop, offset, written, confirmed, fetched, routeVars, postVars, botFaults>>

(***************************************************************************)
(* The router.                                                             *)
(***************************************************************************)
Routes(u) ==
  /\ u \in forwarding /\ forwarding' = forwarding \ {u} /\ routed' = routed \cup {u}
  /\ UNCHANGED <<loopVars, forwarded, cut, repeats, postVars, botFaults>>

\* Logged, no more.
RouteFails(u) ==
  /\ u \in forwarding /\ Fault
  /\ forwarding' = forwarding \ {u} /\ cut' = cut \cup {u}
  /\ UNCHANGED <<loopVars, forwarded, routed, repeats, postVars>>

(***************************************************************************)
(* deliver.                                                                *)
(***************************************************************************)
Deliver(m) ==
  /\ loop # "down" /\ post[m] = "waiting"
  /\ post' = [post EXCEPT ![m] = IF m \in Media THEN "media" ELSE "text"]
  /\ UNCHANGED <<loopVars, routeVars, posted, unheard, botFaults>>

Posting(m, way) == post[m] \in Ways /\ post[m] = way

TgCall(m, way) ==
  /\ Posting(m, way)
  /\ posted' = [posted EXCEPT ![m] = @ \cup {way}] /\ post' = [post EXCEPT ![m] = "done"]
  /\ UNCHANGED <<loopVars, routeVars, unheard, botFaults>>

\* An error, the message shown or not: media are replaced by a link, the rest is logged
\* and counts as delivered.
TgCallFails(m, way, seen) ==
  /\ Posting(m, way) /\ Fault
  /\ posted' = IF seen THEN [posted EXCEPT ![m] = @ \cup {way}] ELSE posted
  /\ post' = [post EXCEPT ![m] = IF way = "media" THEN "link" ELSE "done"]
  /\ unheard' = unheard \cup {m}
  /\ UNCHANGED <<loopVars, routeVars>>

\* Whoever was about to be routed is gone with the process; a delivery begins anew.
Dies ==
  /\ loop # "down" /\ Fault
  /\ loop' = "down" /\ torn' = FALSE /\ offset' = 0 /\ fetched' = 0
  /\ forwarding' = {} /\ cut' = cut \cup forwarding
  /\ repeats' = [u \in Updates |-> IF confirmed <= u /\ u < offset THEN repeats[u] + 1
                                                                  ELSE repeats[u]]
  /\ post' = [m \in Posts |-> IF post[m] \in Ways THEN "waiting" ELSE post[m]]
  /\ unheard' = unheard \cup {m \in Posts : post[m] \in Ways}
  /\ UNCHANGED <<written, confirmed, forwarded, routed, posted>>

Next ==
  \/ \E known \in BOOLEAN : Setup(known)
  \/ Writes \/ Asks \/ GetUpdates \/ Takes \/ FetchFails \/ Retries \/ Teardown \/ Dies
  \/ \E u \in Updates : Routes(u) \/ RouteFails(u)
  \/ \E m \in Posts : Deliver(m)
  \/ \E m \in Posts, way \in Ways : TgCall(m, way) \/ \E seen \in BOOLEAN : TgCallFails(m, way, seen)

Spec == Init /\ [][Next]_telegramVars

(***************************************************************************)
(* Properties.                                                             *)
(***************************************************************************)
\* What Telegram has dropped was routed or is being routed, unless its routing failed
\* or a death cut it off: the loop confirms it without waiting for the router.
UpdatesKept ==
  \A u \in Updates : u < confirmed /\ u \in Wordy => u \in forwarding \cup routed \cup cut

\* An update reaches the router once, and again only after a death that came before
\* the request that would have confirmed it.
ForwardedOnce == \A u \in Updates : forwarded[u] <= 1 + repeats[u]

\* A message that counts as delivered is shown as what it is, and only so, unless a call
\* failed; with a call that failed, or a death, it may be shown twice or not at all.
DeliveredIsShown ==
  \A m \in Posts : post[m] = "done" /\ m \notin unheard =>
    posted[m] = {IF m \in Media THEN "media" ELSE "text"}
=============================================================================
