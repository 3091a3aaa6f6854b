------------------------------- MODULE Login -------------------------------
(***************************************************************************)
(* The door of the admin dashboard (src/src/cloud/admin-dashboard/index.ts): *)
(* every request is counted by its address, signed in by its cookie or its     *)
(* credentials, and only then routed.  A request is handled without an await   *)
(* up to its route; what the routes do is in Console.                          *)
(***************************************************************************)
EXTENDS Integers, Sequences, FiniteSets

CONSTANTS
  Addresses,     \* client addresses; each has one browser, and other clients
  SecretChoices, \* what the environment may set: "pass" (ADMIN_PASS), "token"
  MaxFailures,   \* RATE_LIMIT_MAX_FAILURES
  Window,        \* RATE_LIMIT_WINDOW_MS
  Block,         \* RATE_LIMIT_BLOCK_MS
  MaxEntries,    \* FAILED_ATTEMPTS_MAX_ENTRIES
  MaxTime,       \* bound on the clock
  MaxRestarts    \* bound on restarts

ConstantAssumption ==
  /\ SecretChoices \subseteq SUBSET {"pass", "token"}
  /\ MaxFailures \in Nat \ {0, 1} /\ Window \in Nat \ {0} /\ Block \in Nat /\ Window <= Block
  /\ MaxEntries \in Nat /\ MaxTime \in Nat /\ MaxRestarts \in Nat

VARIABLES
  secrets,        \* what the environment sets
  clock,
  failedAttempts, \* [Addresses -> entry], those without one at None
  older,          \* the pairs of addresses with an entry, the one with the older first
  guesses,        \* history: when an address failed since it was last forgotten
  cookie,         \* [Addresses -> the process whose session cookie the browser holds, or 0]
  process,        \* which process runs
  unknown         \* history: browsers asked to sign in since they last got the cookie

loginVars == <<secrets, clock, failedAttempts, older, guesses, cookie, process, unknown>>

Times == 0..MaxTime
Entries == [count : Nat, first : Times, until : 0..(MaxTime + Block)]
None == [count |-> 0, first |-> 0, until |-> 0]

\* A request carries the cookies the browser has, or credentials.
Means == {"cookie", "right", "wrong"}
Wishes == {"page", "read", "change", "logout"}

TypeOK ==
  /\ secrets \in SecretChoices /\ clock \in Times
  /\ failedAttempts \in [Addresses -> Entries] /\ older \in SUBSET (Addresses \X Addresses)
  /\ guesses \in [Addresses -> Seq(Times)]
  /\ process \in 1..(MaxRestarts + 1) /\ cookie \in [Addresses -> 0..process]
  /\ unknown \in SUBSET Addresses

Init ==
  /\ secrets \in SecretChoices /\ clock = 0 /\ process = 1
  /\ failedAttempts = [a \in Addresses |-> None] /\ older = {}
  /\ guesses = [a \in Addresses |-> <<>>] /\ cookie = [a \in Addresses |-> 0]
  /\ unknown = {}

Tick ==
  /\ clock < MaxTime /\ clock' = clock + 1
  /\ UNCHANGED <<secrets, failedAttempts, older, guesses, cookie, process, unknown>>

(***************************************************************************)
(* The limiter.                                                            *)
(***************************************************************************)
HasEntry(a) == failedAttempts[a].count > 0
IsRateLimited(a) == HasEntry(a) /\ failedAttempts[a].until > clock
Expired(a) ==
  /\ failedAttempts[a].until <= clock
  /\ clock - failedAttempts[a].first > Window

\* Who keeps an entry: the expired go, and the oldest beyond the cap.
PruneFailedAttempts ==
  LET fresh == {a \in Addresses : HasEntry(a) /\ ~Expired(a)} IN
  {a \in fresh : Cardinality({b \in fresh : <<a, b>> \in older}) < MaxEntries}

Stays(a) == a \in PruneFailedAttempts
Pruned(a) == IF Stays(a) THEN failedAttempts[a] ELSE None

\* An entry begins a window, or counts on; at the limit each failure blocks anew.
Counted(entry) ==
  IF entry.count = 0 \/ clock - entry.first > Window
  THEN [count |-> 1, first |-> clock, until |-> 0]
  ELSE [entry EXCEPT !.count = @ + 1,
                     !.until = IF entry.count + 1 >= MaxFailures THEN clock + Block ELSE @]

\* What is known of an address's failures before this one: nothing of one that was
\* pruned before its window was over.
Forgotten(a) == HasEntry(a) /\ ~Stays(a) /\ ~Expired(a)
Known(a) == IF Forgotten(a) THEN <<>> ELSE guesses[a]

RecordFailedAttempt(a) ==
  /\ failedAttempts' = [b \in Addresses |-> IF b = a THEN Counted(Pruned(a)) ELSE Pruned(b)]
  /\ older' = {p \in older : Stays(p[1]) /\ Stays(p[2])}
       \cup {<<b, a>> : b \in IF Stays(a) THEN {} ELSE PruneFailedAttempts}
  /\ guesses' = [b \in Addresses |-> IF b = a THEN Append(Known(a), clock) ELSE Known(b)]

ClearFailedAttempts(a) ==
  /\ failedAttempts' = [failedAttempts EXCEPT ![a] = None]
  /\ older' = {p \in older : a \notin {p[1], p[2]}}
  /\ guesses' = [guesses EXCEPT ![a] = <<>>]

(***************************************************************************)
(* Who is signed in.  The tokens are derived from the password; without one    *)
(* each process draws its own.                                                 *)
(***************************************************************************)
HasValidSessionCookie(a) == cookie[a] # 0 /\ ("pass" \in secrets \/ cookie[a] = process)

\* With nothing configured everybody is.
IsAuthenticated(a, means) ==
  \/ secrets = {}
  \/ means = "right"
  \/ means = "cookie" /\ HasValidSessionCookie(a)

Changes(wish) == wish \in {"change", "logout"}

\* Credentials are proof enough; a cookie comes with its token in a header.
PassesCsrfCheck(a, means, wish, echoes) ==
  Changes(wish) /\ means = "cookie" => cookie[a] # 0 /\ echoes

(***************************************************************************)
(* handleAdminRequest.                                                     *)
(***************************************************************************)
SendRateLimited(a) == IsRateLimited(a) /\ UNCHANGED loginVars

SendUnauthorized(a, means) ==
  /\ ~IsRateLimited(a) /\ ~IsAuthenticated(a, means)
  /\ RecordFailedAttempt(a)
  /\ unknown' = IF means = "cookie" THEN unknown \cup {a} ELSE unknown
  /\ UNCHANGED <<secrets, clock, cookie, process>>

SendCsrfFailure(a, means, wish, echoes) ==
  /\ ~IsRateLimited(a) /\ IsAuthenticated(a, means) /\ ~PassesCsrfCheck(a, means, wish, echoes)
  /\ ClearFailedAttempts(a)
  /\ UNCHANGED <<secrets, clock, cookie, process, unknown>>

\* The page sets both cookies, the logout clears them.
Routed(a, means, wish, echoes) ==
  /\ ~IsRateLimited(a) /\ IsAuthenticated(a, means) /\ PassesCsrfCheck(a, means, wish, echoes)
  /\ ClearFailedAttempts(a)
  /\ cookie' = CASE wish = "page" -> [cookie EXCEPT ![a] = process]
                 [] wish = "logout" -> [cookie EXCEPT ![a] = 0]
                 [] OTHER -> cookie
  /\ unknown' = IF wish = "page" THEN unknown \ {a} ELSE unknown
  /\ UNCHANGED <<secrets, clock, process>>

HandleAdminRequest(a, means) ==
  \/ SendRateLimited(a)
  \/ SendUnauthorized(a, means)
  \/ \E wish \in Wishes, echoes \in BOOLEAN :
       SendCsrfFailure(a, means, wish, echoes) \/ Routed(a, means, wish, echoes)

\* The cookies last a day.
CookieExpires(a) ==
  /\ cookie[a] # 0 /\ cookie' = [cookie EXCEPT ![a] = 0]
  /\ UNCHANGED <<secrets, clock, failedAttempts, older, guesses, process, unknown>>

\* The limiter lives in memory.
Restarts ==
  /\ process <= MaxRestarts /\ process' = process + 1
  /\ failedAttempts' = [a \in Addresses |-> None] /\ older' = {}
  /\ guesses' = [a \in Addresses |-> <<>>]
  /\ UNCHANGED <<secrets, clock, cookie, unknown>>

Next ==
  \/ Tick \/ Restarts
  \/ \E a \in Addresses : CookieExpires(a)
  \/ \E a \in Addresses, means \in Means : HandleAdminRequest(a, means)

Spec == Init /\ [][Next]_loginVars

(***************************************************************************)
(* Properties.                                                             *)
(***************************************************************************)
\* Windows begin with a failure and not with the clock, so two of them meet: as many
\* failures as two windows allow, and not one more, come within one window's time, as
\* long as the address is neither forgotten nor let in between them.
GuessesAreFew ==
  \A a \in Addresses : \A i, j \in 1..Len(guesses[a]) :
    j - i >= 2 * MaxFailures - 2 => guesses[a][j] - guesses[a][i] >= Window

\* An address is turned away only after as many failures of its own as the limit, all
\* in one window, the last of them less than a block ago.
BlockedForCause ==
  \A a \in Addresses : IsRateLimited(a) =>
    LET g == guesses[a] IN
    /\ Len(g) >= MaxFailures
    /\ g[Len(g)] - g[Len(g) - MaxFailures + 1] <= Window
    /\ clock - g[Len(g)] < Block

\* With a password, a browser that holds the cookie is not asked to sign in again,
\* however often the dashboard was restarted.
SignedInIsServed ==
  \A a \in Addresses :
    "pass" \in secrets /\ a \in unknown => cookie[a] = 0
=============================================================================
