-------------------------------- MODULE Host --------------------------------
(***************************************************************************)
(* The life of the host process: the start-up backoff, the bootstrap, the       *)
(* channel adapters, the shutdown a signal starts (src/src/index.ts,             *)
(* circuit-breaker.ts, channel-registry.ts, cloud/bootstrap.ts), and the settings   *)
(* the admin changes before he restarts it (admin-dashboard/settings).            *)
(***************************************************************************)
EXTENDS Naturals, FiniteSets

CONSTANTS
  Lives,       \* scenarios: [cloud, adapters, changes, signals, starts]
  Signals,     \* shutdowns that may overlap
  SetupRetries,\* SETUP_RETRY_DELAYS_MS.length
  Keys, Values \* settings, and their values beside "bad" (fails validation)

Bodies == [Keys -> Values \cup {"bad", "none"}]
Adapters == UNION {l.adapters : l \in Lives}

ConstantAssumption ==
  /\ SetupRetries \in Nat
  /\ {"bad", "none"} \cap Values = {} /\ Values # {}
  /\ \A l \in Lives : l.cloud \in BOOLEAN /\ l.changes \in Nat /\ l.signals \in Nat
       /\ l.starts \in Nat

VARIABLES
  life,      \* the scenario, and how often the process began
  phase,     \* where main() is
  breaker,   \* circuit-breaker.json and clean-shutdown.marker
  adapter,   \* how far each adapter's set-up is, its network errors
  stop,      \* how far each shutdown is, the adapters it has torn down
  services,  \* "none" or "up": the cloud services
  cli,       \* ncl socket: "off", "up", "held" by a client, "closing"
  restart,   \* "none", "timer", "sent": restartScheduled and its timer
  settings,  \* the settings table, .env, and what the admin was told
  unclean,   \* history: deaths in a row, each within an hour of its start
  marked     \* history: this life's shutdown wrote the marker

hostVars == <<life, phase, breaker, adapter, stop, services, cli, restart, settings,
  unclean, marked>>

Phases == {"down", "backoff", "starting", "opening", "adapters", "running"}
Stages == {"none", "signalled", "marked", "closing", "cloud", "teardown", "lost"}
Running == phase # "down"

(***************************************************************************)
(* enforceStartupBackoff.                                                  *)
(***************************************************************************)
\* Mutant: the marker is looked at but not removed.
AttemptKeepsMarker ==
  LET attempt == IF breaker.attempt = 0 \/ breaker.marker \/ ~breaker.recent THEN 1
                 ELSE breaker.attempt + 1
  IN [marker |-> breaker.marker, attempt |-> attempt, recent |-> TRUE]

Attempt ==
  LET attempt == IF breaker.attempt = 0 \/ breaker.marker \/ ~breaker.recent THEN 1
                 ELSE breaker.attempt + 1
  IN [marker |-> FALSE, attempt |-> attempt, recent |-> TRUE]

Start ==
  /\ ~Running /\ life.begun < life.starts
  /\ breaker' = Attempt
  /\ phase' = IF Attempt.attempt > 1 THEN "backoff" ELSE "starting"
  /\ life' = [life EXCEPT !.begun = @ + 1]
  /\ unclean' = IF marked \/ ~breaker.recent THEN 0 ELSE unclean
  /\ marked' = FALSE
  /\ UNCHANGED <<adapter, stop, services, cli, restart, settings>>

Waited ==
  /\ phase = "backoff"
  /\ phase' = "starting"
  /\ UNCHANGED <<life, breaker, adapter, stop, services, cli, restart, settings, unclean,
                 marked>>

\* An hour has passed since the last start.
Hour ==
  /\ breaker.recent /\ phase # "backoff"
  /\ breaker' = [breaker EXCEPT !.recent = FALSE]
  /\ UNCHANGED <<life, phase, adapter, stop, services, cli, restart, settings, unclean,
                 marked>>

\* The process ends without a word: killed, or exit 1, as when secrets, gateway, Redis
\* or queue fail the bootstrap, a migration the database, or another step main().
Ends ==
  /\ phase' = "down"
  /\ adapter' = [a \in Adapters |-> [at |-> "none", errors |-> 0]]
  /\ stop' = [s \in Signals |-> [at |-> "none", done |-> {}]]
  /\ services' = "none" /\ cli' = "off" /\ restart' = "none"

Dies ==
  /\ Running
  /\ Ends
  /\ unclean' = IF marked THEN 0 ELSE unclean + 1
  /\ UNCHANGED <<life, breaker, settings, marked>>

(***************************************************************************)
(* main().                                                                 *)
(***************************************************************************)
BootstrapCloudServices ==
  /\ phase = "starting"
  /\ phase' = "opening"
  /\ services' = IF life.cloud THEN "up" ELSE "none"
  /\ UNCHANGED <<life, breaker, adapter, stop, cli, restart, settings, unclean, marked>>

InitDb ==
  /\ phase = "opening"
  /\ phase' = "adapters"
  /\ UNCHANGED <<life, breaker, adapter, stop, services, cli, restart, settings, unclean,
                 marked>>

AtAdapter(a) ==
  /\ phase = "adapters" /\ a \in life.adapters
  /\ UNCHANGED <<life, phase, breaker, stop, services, cli, restart, settings, unclean,
                 marked>>

\* The adapters are made and set up one after the other: a factory without
\* credentials or one that throws is passed over.
Factory(a) ==
  /\ AtAdapter(a)
  /\ adapter[a].at = "none" /\ \A b \in Adapters : adapter[b].at # "setup"
  /\ \E at \in {"setup", "absent"} : adapter' = [adapter EXCEPT ![a].at = at]

SetUp(a) ==
  /\ AtAdapter(a)
  /\ adapter[a].at = "setup"
  /\ adapter' = [adapter EXCEPT ![a].at = "active"]

\* A NetworkError is tried again, another error or one too many is not.
SetUpFails(a) ==
  /\ AtAdapter(a)
  /\ adapter[a].at = "setup"
  /\ \/ /\ adapter[a].errors < SetupRetries
        /\ adapter' = [adapter EXCEPT ![a].errors = @ + 1]
     \/ adapter' = [adapter EXCEPT ![a].at = "absent"]

\* Polls, sweep and ncl server start, whatever shutdown may have begun meanwhile.
Run ==
  /\ phase = "adapters"
  /\ \A a \in life.adapters : adapter[a].at \in {"active", "absent"}
  /\ phase' = "running" /\ cli' = "up"
  /\ UNCHANGED <<life, breaker, adapter, stop, services, restart, settings, unclean, marked>>

\* An ncl client opens and ends its connection.
Client ==
  /\ \/ cli = "up" /\ cli' = "held"
     \/ cli = "held" /\ cli' = "up"
     \/ cli = "closing" /\ cli' = "off"
  /\ UNCHANGED <<life, phase, breaker, adapter, stop, services, restart, settings, unclean,
                 marked>>

(***************************************************************************)
(* shutdown(): each signal runs it, the awaits of several interleave.         *)
(***************************************************************************)
Go(s, from, to) ==
  /\ stop[s].at = from
  /\ stop' = [stop EXCEPT ![s].at = to]
  /\ UNCHANGED <<life, phase, adapter, settings, unclean>>

Reset == breaker' = [breaker EXCEPT !.attempt = 0, !.marker = TRUE]

Signal(s) ==
  /\ Running /\ Cardinality({t \in Signals : stop[t].at # "none"}) < life.signals
  /\ Go(s, "none", "signalled")
  /\ UNCHANGED <<breaker, services, cli, restart, marked>>

\* The timer of the settings' restart sends SIGTERM to its own process.
RestartSignal(s) ==
  /\ Running /\ restart = "timer"
  /\ Go(s, "none", "signalled")
  /\ restart' = "sent"
  /\ UNCHANGED <<breaker, services, cli, marked>>

Mark(s) ==
  /\ Go(s, "signalled", "marked")
  /\ Reset /\ marked' = TRUE
  /\ UNCHANGED <<services, cli, restart>>

\* Callbacks, polls and sweep stop, and the ncl server: close() waits for its clients;
\* who comes second finds no server.
StopCliServer(s) ==
  /\ \/ /\ cli \in {"up", "held"}
        /\ Go(s, "marked", "closing")
        /\ cli' = IF cli = "held" THEN "closing" ELSE "off"
     \/ /\ cli \in {"off", "closing"}
        /\ Go(s, "marked", IF services = "up" THEN "cloud" ELSE "teardown")
        /\ UNCHANGED cli
  /\ UNCHANGED <<breaker, services, restart, marked>>

CliClosed(s) ==
  /\ cli = "off"
  /\ Go(s, "closing", IF services = "up" THEN "cloud" ELSE "teardown")
  /\ UNCHANGED <<breaker, services, cli, restart, marked>>

\* shutdownCloudServices awaits imports between its check and its use of _services: a
\* shutdown overtaken there by another's end throws and goes no further.
ShutdownCloudServices(s) ==
  /\ \/ services = "up" /\ Go(s, "cloud", "teardown")
     \/ services = "none" /\ Go(s, "cloud", "lost")
  /\ services' = "none"
  /\ UNCHANGED <<breaker, cli, restart, marked>>

Active == {a \in Adapters : adapter[a].at = "active"}

\* An adapter's teardown ends, well or not; the loop goes on to the next.
Teardown(s) ==
  /\ stop[s].at = "teardown"
  /\ \E a \in Active \ stop[s].done : stop' = [stop EXCEPT ![s].done = @ \cup {a}]
  /\ UNCHANGED <<life, phase, breaker, adapter, services, cli, restart, settings, unclean,
                 marked>>

TornDown(s) == stop[s].at = "teardown" /\ Active \subseteq stop[s].done

Exit(s) ==
  /\ TornDown(s)
  /\ Reset
  /\ Ends
  /\ unclean' = 0 /\ marked' = TRUE
  /\ UNCHANGED <<life, settings>>

(***************************************************************************)
(* Settings: the table over .env over the default.                         *)
(***************************************************************************)
Default == CHOOSE v \in Values : TRUE
ResolveSettingValue(table, k) ==
  IF table[k] # "none" THEN table[k] ELSE IF settings.env[k] # "none" THEN settings.env[k]
  ELSE Default

\* updateSetting of every valid entry; the others are errors.
Updated(table, body) == [k \in Keys |-> IF body[k] \in Values THEN body[k] ELSE table[k]]
Errors(body) == {k \in Keys : body[k] = "bad"}

AtSettings ==
  /\ phase = "running" /\ life.cloud /\ settings.changes < life.changes
  /\ UNCHANGED <<life, phase, breaker, adapter, stop, services, cli, unclean, marked>>

Save(body) == [settings EXCEPT
  !.changes = @ + 1, !.table = Updated(@, body), !.restored = FALSE,
  !.told = [k \in Keys |-> IF body[k] \in Values THEN body[k] ELSE @[k]]]

PutSettings ==
  /\ AtSettings
  /\ \E body \in Bodies : settings' = Save(body)
  /\ UNCHANGED restart

\* POST apply: saved, and restarted if there was no error.  The latch is never lifted.
ApplySettings ==
  /\ AtSettings
  /\ \E body \in Bodies :
       /\ settings' = Save(body)
       /\ restart' = IF Errors(body) = {} /\ restart = "none" THEN "timer" ELSE restart

ResetSetting(k) ==
  /\ AtSettings
  /\ settings' = [settings EXCEPT !.changes = @ + 1, !.table[k] = "none",
                                  !.told[k] = "none", !.restored = FALSE]
  /\ UNCHANGED restart

ExportOverrides ==
  /\ AtSettings
  /\ settings' = [settings EXCEPT !.changes = @ + 1, !.exported = settings.table,
                                  !.restored = FALSE]
  /\ UNCHANGED restart

\* Mutant: an entry is unchanged if the table has no other.
SkippedUnset(table, k, v) == table[k] \in {"none", v}

\* An entry whose value the setting has anyway is skipped.
Skipped(table, k, v) == ResolveSettingValue(table, k) = v

ImportSettings ==
  /\ AtSettings
  /\ LET entries == {k \in Keys : settings.exported[k] # "none"}
         applied == {k \in entries : ~Skipped(settings.table, k, settings.exported[k])}
     IN settings' = [settings EXCEPT
          !.changes = @ + 1, !.restored = TRUE,
          !.table = [k \in Keys |-> IF k \in applied THEN settings.exported[k] ELSE @[k]],
          !.told = [k \in Keys |-> IF k \in applied THEN settings.exported[k] ELSE @[k]]]
  /\ UNCHANGED restart

\* The operator edits .env between two lives.
EditEnv(k, v) ==
  /\ ~Running /\ settings.changes < life.changes
  /\ settings' = [settings EXCEPT !.changes = @ + 1, !.env[k] = v, !.restored = FALSE]
  /\ UNCHANGED <<life, phase, breaker, adapter, stop, services, cli, restart, unclean,
                 marked>>

Lifes ==
  {[cloud |-> l.cloud, adapters |-> l.adapters, changes |-> l.changes,
    signals |-> l.signals, starts |-> l.starts, begun |-> 0] : l \in Lives}
Unset == [k \in Keys |-> "none"]

Init ==
  /\ life \in Lifes
  /\ phase = "down"
  /\ breaker = [marker |-> FALSE, attempt |-> 0, recent |-> FALSE]
  /\ adapter = [a \in Adapters |-> [at |-> "none", errors |-> 0]]
  /\ stop = [s \in Signals |-> [at |-> "none", done |-> {}]]
  /\ services = "none" /\ cli = "off" /\ restart = "none"
  /\ settings = [table |-> Unset, env |-> Unset, exported |-> Unset, told |-> Unset,
                 restored |-> FALSE, changes |-> 0]
  /\ unclean = 0 /\ marked = FALSE

Main ==
  \/ Start \/ Waited \/ Hour \/ Dies \/ BootstrapCloudServices \/ InitDb \/ Run
  \/ Client
  \/ \E a \in Adapters : Factory(a) \/ SetUp(a) \/ SetUpFails(a)
Shutdown ==
  \E s \in Signals : \/ Signal(s) \/ RestartSignal(s) \/ Mark(s) \/ StopCliServer(s)
                     \/ CliClosed(s) \/ ShutdownCloudServices(s) \/ Teardown(s) \/ Exit(s)
Configure ==
  \/ PutSettings \/ ApplySettings \/ ExportOverrides \/ ImportSettings
  \/ \E k \in Keys : ResetSetting(k) \/ \E v \in Values : EditEnv(k, v)

Next == Main \/ Shutdown \/ Configure

Spec == Init /\ [][Next]_hostVars

TypeOK ==
  /\ phase \in Phases /\ services \in {"none", "up"}
  /\ cli \in {"off", "up", "held", "closing"} /\ restart \in {"none", "timer", "sent"}
  /\ breaker.marker \in BOOLEAN /\ breaker.recent \in BOOLEAN
  /\ breaker.attempt \in 0..life.starts
  /\ \A s \in Signals : stop[s].at \in Stages /\ stop[s].done \subseteq Adapters
  /\ \A a \in Adapters : adapter[a].errors \in 0..SetupRetries
  /\ settings.table \in [Keys -> Values \cup {"none"}]

\* A start is delayed exactly when the lives before it died within an hour of their
\* start, one after the other, none of them told to stop.
BackoffIsEarned == Running /\ ~marked => breaker.attempt = unclean + 1

\* A cloud host that is without its services is being shut down by one that goes on to
\* the end, even if it overtook another.
ShutdownIsWhole ==
  \/ ~life.cloud \/ services = "up" \/ phase \in {"down", "backoff", "starting"}
  \/ \E s \in Signals : stop[s].at = "teardown"

\* A restart the admin was promised is on its way as long as the process lives, and
\* there is never one shutdown that waits for another.
RestartComes ==
  /\ restart # "none" =>
       restart = "timer" \/ \E s \in Signals : stop[s].at \notin {"none", "lost"}
  /\ \A s \in Signals : stop[s].at = "closing" => cli \in {"off", "closing"}

\* What the admin was told is set is what resolves, in this life and the next, and an
\* import just done gives every exported setting its exported value.
SettingsHold ==
  /\ \A k \in Keys : settings.told[k] # "none" =>
       ResolveSettingValue(settings.table, k) = settings.told[k]
  /\ settings.restored => \A k \in Keys : settings.exported[k] # "none" =>
       ResolveSettingValue(settings.table, k) = settings.exported[k]
=============================================================================
