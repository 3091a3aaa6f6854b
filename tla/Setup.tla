------------------------------- MODULE Setup -------------------------------
(***************************************************************************)
(* The setup wizard (setup/auto.ts, setup/lib/runner.ts, setup/channels): a *)
(* process goes through its steps in order; a step that fails may be retried *)
(* by a new process that skips what the old one completed; and what a process *)
(* leaves behind (.env, adapter sources, agents, the service) is there for the *)
(* next.  Wording, validation and guidance are left out, and the fix that is   *)
(* run between a failure and its retry changes nothing here.                 *)
(***************************************************************************)
EXTENDS Naturals, Sequences, FiniteSetsExt

CONSTANTS
  Channels,  \* the channels the user may choose
  MaxRuns,   \* bound: processes of setup:auto
  MaxMishaps \* bound: steps that fail

Known == {"telegram", "whatsapp", "signal", "discord", "slack", "imessage", "teams"}
ConstantAssumption ==
  Channels \subseteq Known /\ MaxRuns \in Nat /\ MaxMishaps \in Nat

Fetched == {"telegram", "whatsapp"} \* their adapters are in this checkout
Linking == {"signal", "whatsapp"}   \* link a device, then restart the service
Wiring == Known \ {"telegram", "teams"} \* wire the assistant themselves
Unawaited == {"whatsapp", "teams"}  \* call fail() without await

\* The steps NANOCLAW_SKIP can name, in the order of main.
Order == <<"environment", "container", "onecli", "auth", "mounts", "service", "cli-agent",
  "timezone", "channel", "verify">>
Steps == {Order[i] : i \in DOMAIN Order}
\* Where the process is beside that: parts of cli-agent, timezone and channel.
ChannelParts == {"token", "cli", "mode", "app", "bot", "manifest", "sideload", "install",
  "link", "restart", "pair", "dm", "init", "handoff"}
Parts == ChannelParts \cup {"ping", "cleanup", "next", "terminal", "confirm", "persist"}

\* The parts of each channel's flow, in order.
TelegramFlow == <<"token", "install", "pair", "init">>
DiscordFlow == <<"token", "install", "dm", "init">>
SlackFlow == <<"token", "install", "dm", "init">>
IMessageFlow == <<"mode", "install", "init">>
SignalFlow == <<"cli", "install", "link", "restart", "init">>
WhatsAppFlow == <<"install", "link", "restart", "init">>
TeamsFlow == <<"app", "bot", "manifest", "sideload", "install", "handoff">>
Flow == [telegram |-> TelegramFlow, discord |-> DiscordFlow, slack |-> SlackFlow,
         imessage |-> IMessageFlow, signal |-> SignalFlow, whatsapp |-> WhatsAppFlow,
         teams |-> TeamsFlow]

VARIABLES
  run,       \* the process: at, where it is ("idle" without one, "failed" inside fail());
             \* skip, NANOCLAW_SKIP and completedInRun, which is behind it; offers, the
             \* steps fail() offers a fix for; owed, the step it retries, until that
             \* runs; choice, channelChoice; said, how it ended
  world,     \* what is there: env, in .env and store/; tz, TZ in .env; secret, in the
             \* vault; adapter, of each channel; agents, wired to a chat; service, what it
             \* read when it started; deaf: its last restart failed unnoticed
  wanted,    \* the channel the user sticks to, once one was chosen
  processes, mishaps

vars == <<run, world, wanted, processes, mishaps>>

Down == [up |-> FALSE, credentials |-> FALSE, adapters |-> {}, tz |-> "none"]

Init ==
  /\ wanted = "any" /\ processes = 0 /\ mishaps = 0
  /\ run = [at |-> "idle", skip |-> {}, offers |-> {}, owed |-> "none",
            choice |-> "skip", said |-> "none"]
  /\ world = [env |-> {}, tz |-> "none", secret |-> FALSE, agents |-> {},
              adapter |-> [c \in Channels |-> IF c \in Fetched THEN "packages" ELSE "none"],
              service |-> Down, deaf |-> FALSE]

\* The first step from the i-th on that is not skipped; cli-agent is when some
\* agent is wired (detectRegisteredGroups).  Without one the process is done.
From(i, skip, agents) ==
  LET left == {j \in i..Len(Order) :
                 Order[j] \notin skip /\ (Order[j] = "cli-agent" => agents = {})}
  IN IF left = {} THEN "idle" ELSE Order[Min(left)]
After(s) == From((CHOOSE i \in DOMAIN Order : Order[i] = s) + 1, run.skip, world'.agents)

\* Step s runs, so it is owed no longer.
Paid(s) == IF run.owed = s THEN "none" ELSE run.owed

\* setupLog.step of a step that succeeded or had nothing to do; on to place p.
Done(s, p) ==
  /\ run' = [run EXCEPT !.at = p, !.skip = @ \cup {s}, !.owed = Paid(s)]
  /\ UNCHANGED <<wanted, processes, mishaps>>

\* On to place p with nothing logged as completed.
Go(s, p) ==
  /\ run' = [run EXCEPT !.at = p, !.owed = Paid(s)]
  /\ UNCHANGED <<wanted, processes, mishaps>>

\* Something fails, and the flow goes on at p.
Mishap(s, p) ==
  /\ mishaps < MaxMishaps /\ mishaps' = mishaps + 1
  /\ run' = [run EXCEPT !.at = p, !.owed = Paid(s)]
  /\ UNCHANGED <<wanted, processes>>

\* fail(): a fix is offered, and the flow waits; a call that is not awaited goes on at p.
Fail(s, awaited, p) ==
  /\ mishaps < MaxMishaps /\ mishaps' = mishaps + 1
  /\ run' = [run EXCEPT !.at = IF awaited THEN "failed" ELSE p, !.owed = Paid(s),
                        !.offers = @ \cup {s}]
  /\ UNCHANGED <<wanted, processes>>

(***************************************************************************)
(* Processes.                                                              *)
(***************************************************************************)
Started(skip, owed) ==
  /\ processes < MaxRuns /\ processes' = processes + 1
  /\ run' = [at |-> From(1, skip, world.agents), skip |-> skip, offers |-> {},
             owed |-> owed, choice |-> "skip", said |-> "none"]
  /\ UNCHANGED <<world, wanted, mishaps>>

Begin == run.at = "idle" /\ run.offers = {} /\ Started({}, "none")

\* Mutant: whatever was logged is skipped, the step that failed too.
RetryAll(s) ==
  s \in run.offers /\ Started(run.skip \cup (Steps \cap {s}), s)

\* A fix was run and the user retries: setup:auto anew, told what to skip.
Retry(s) == s \in run.offers /\ Started(run.skip, s)

\* No fix, no retry, or the prompt of a fix or of the flow is cancelled: the process ends.
Quit ==
  /\ run.offers # {} \/ run.at \in ChannelParts \cup
       {"onecli", "auth", "cli-agent", "next", "confirm", "persist", "channel"}
  /\ run' = [run EXCEPT !.at = "idle", !.offers = {}, !.owed = "none", !.said = "none"]
  /\ UNCHANGED <<world, wanted, processes, mishaps>>

(***************************************************************************)
(* The steps up to the service.                                            *)
(***************************************************************************)
\* What they set up -- Node, Docker and the image, the mount allowlist -- no later step
\* reads here.
Check(s) ==
  /\ run.at = s /\ UNCHANGED world
  /\ (Done(s, After(s)) \/ Fail(s, TRUE, s))
Environment == Check("environment")
Container == Check("container")
Mounts == Check("mounts")

\* Docker was just installed: a new process under sg, told what to skip.
ReexecUnderSg ==
  LET skip == run.skip \cup {"container"} IN
  /\ run.at = "container"
  /\ run' = [run EXCEPT !.skip = skip, !.owed = Paid("container"),
                        !.at = From(1, skip, world.agents)]
  /\ UNCHANGED <<world, wanted, processes, mishaps>>

\* setup/onecli.ts: ONECLI_URL is written for a vault that is remote, reused or fresh,
\* whether it answers or not.
OnecliUrl == world' = [world EXCEPT !.env = @ \cup {"onecli"}]

Onecli ==
  /\ run.at = "onecli"
  /\ \/ OnecliUrl /\ Done("onecli", After("onecli"))
     \/ UNCHANGED world /\ Fail("onecli", TRUE, "onecli")

\* A secret that is there is enough.
SecretExists ==
  /\ run.at = "auth" /\ world.secret /\ UNCHANGED world
  /\ Done("auth", After("auth"))

SaveSecret == world' = [world EXCEPT !.secret = TRUE]
NoSecret == run.at = "auth" /\ ~world.secret
AuthFails == UNCHANGED world /\ Fail("auth", TRUE, "auth")

\* The sign-in of a subscription is logged as interactive, which is not completed.
SubscriptionAuth ==
  NoSecret /\ ((SaveSecret /\ Go("auth", After("auth"))) \/ AuthFails)

\* A token or a key is pasted, or given for an endpoint of one's own.
PasteAuth ==
  NoSecret /\ ((SaveSecret /\ Done("auth", After("auth"))) \/ AuthFails)

\* "Skip - I'll connect later": asked twice, logged as skipped.
SkipAuth == NoSecret /\ UNCHANGED world /\ Done("auth", After("auth"))

\* The world w after the service is restarted in it: it reads what is there.
Restarted(w) ==
  [w EXCEPT !.deaf = FALSE,
            !.service = [up |-> TRUE, credentials |-> "credentials" \in w.env,
                         adapters |-> {c \in Channels : w.adapter[c] = "built"}, tz |-> w.tz]]

\* ... when launchctl or systemctl fail, which is logged, or nothing manages services and
\* only a wrapper script is written: the old process runs on, or none.
Unheard(w) == {[w EXCEPT !.deaf = TRUE], [w EXCEPT !.deaf = TRUE, !.service = Down]}

\* pnpm run build, which adapter sources without their packages break.
Builds == \A c \in Channels : world.adapter[c] # "sources"
Built == [world EXCEPT !.adapter =
            [c \in Channels |-> IF @[c] = "packages" THEN "built" ELSE @[c]]]

Service ==
  /\ run.at = "service" /\ Builds
  /\ world' = Restarted(Built) /\ Done("service", After("service"))

\* The step is a success even so.
ServiceUnheard ==
  /\ run.at = "service" /\ Builds /\ world' \in Unheard(Built)
  /\ mishaps < MaxMishaps /\ mishaps' = mishaps + 1 /\ UNCHANGED <<wanted, processes>>
  /\ run' = [run EXCEPT !.at = After("service"), !.owed = Paid("service"),
                        !.skip = @ \cup {"service"}]

\* The build fails, or the platform is unknown.
ServiceFails == run.at = "service" /\ UNCHANGED world /\ Fail("service", TRUE, "service")

(***************************************************************************)
(* The first agent and its ping.                                           *)
(***************************************************************************)
Wire(agent) == world' = [world EXCEPT !.agents = @ \cup {agent}]

\* init-cli-agent with the folder _ping-test; one that fails may have wired it.
CliAgent ==
  /\ run.at = "cli-agent"
  /\ \/ Wire("ping-test") /\ Done("cli-agent", "ping")
     \/ (UNCHANGED world \/ Wire("ping-test")) /\ Fail("cli-agent", TRUE, "cli-agent")

\* A reply needs the service and a secret; without one setup goes on all the same.
Ping ==
  /\ run.at = "ping" /\ UNCHANGED world
  /\ \/ world.service.up /\ world.secret /\ Go("ping", "cleanup")
     \/ ~(world.service.up /\ world.secret) /\ Go("ping", After("cli-agent"))
     \/ Mishap("ping", After("cli-agent"))

\* The test agent is deleted, or a warning is given.
Cleanup ==
  /\ run.at = "cleanup"
  /\ \/ world' = [world EXCEPT !.agents = @ \ {"ping-test"}] /\ Go("cleanup", "next")
     \/ UNCHANGED world /\ Mishap("cleanup", "next")

\* "What next?": on with setup, or an agent for the terminal first.
WhatNext ==
  /\ run.at = "next"
  /\ \/ UNCHANGED world /\ Go("next", After("cli-agent"))
     \/ Wire("terminal") /\ Go("terminal", After("cli-agent"))
     \/ UNCHANGED world /\ Fail("terminal", TRUE, "next")

(***************************************************************************)
(* The time zone.                                                          *)
(***************************************************************************)
\* setup/timezone.ts: a zone given comes first, then the one in .env, then the system's.
SetZone(given) ==
  world' = [world EXCEPT !.tz = IF given THEN "chosen"
                                ELSE IF @ = "none" THEN "detected" ELSE @]

\* The first pass detects; one that detects none is not completed.
Timezone ==
  /\ run.at = "timezone"
  /\ \/ SetZone(FALSE) /\ Done("timezone", "confirm")
     \/ world.tz = "none" /\ UNCHANGED world /\ Go("timezone", "confirm")
     \/ UNCHANGED world /\ Fail("timezone", TRUE, "timezone")

\* The user agrees, or leaves it, or names another.
Confirm ==
  /\ run.at = "confirm" /\ UNCHANGED world
  /\ (Go("confirm", After("timezone")) \/ Go("confirm", "persist"))

\* The zone the user named is saved by the same step, under the same name.
Persist ==
  /\ run.at = "persist"
  /\ \/ SetZone(TRUE) /\ Done("timezone", After("timezone"))
     \/ UNCHANGED world /\ Fail("timezone", TRUE, "timezone")

(***************************************************************************)
(* The channel.                                                            *)
(***************************************************************************)
\* No part of a channel is a step of its own: a retry of one asks for the channel again.
Choose(c) ==
  /\ run.at = "channel" /\ (c = "skip" \/ wanted \in {"any", c})
  /\ wanted' = (IF c = "skip" THEN wanted ELSE c) /\ UNCHANGED <<world, processes, mishaps>>
  /\ run' = [run EXCEPT !.choice = c,
       !.owed = IF @ \in ChannelParts THEN "none" ELSE @,
       !.at = IF c = "skip" THEN After("channel") ELSE Flow[c][1]]

\* Part p is done; on to the next of the flow, or after the channel.
Then(p) ==
  LET f == Flow[run.choice]
      i == CHOOSE i \in DOMAIN f : f[i] = p
  IN IF i = Len(f) THEN After("channel") ELSE f[i + 1]
Ok(p) == Go(p, Then(p))
NotOk(p) == Fail(p, run.choice \notin Unawaited, Then(p))

\* BACK_TO_CHANNEL_SELECTION, from a first prompt or a gate of Teams.
Back ==
  /\ run.at \in {Flow[c][1] : c \in Channels} \cup {"bot", "sideload"} /\ UNCHANGED world
  /\ Go(run.at, "channel")

\* What the user enters is checked with the platform.
Checked(p) == run.at = p /\ UNCHANGED world /\ (Ok(p) \/ NotOk(p))
TelegramToken == run.choice = "telegram" /\ Checked("token")
DiscordToken == run.choice = "discord" /\ Checked("token")
SlackToken == run.choice = "slack" /\ Checked("token")
IMessageMode == Checked("mode")  \* local mode fails but on macOS
SignalCli == Checked("cli")      \* installed if it is missing
DirectMessage == Checked("dm")   \* a chat with the user is opened

\* Teams: prompts and walk-throughs, of which credentials in .env leave one question;
\* whether the hand-off at the end wires the assistant is up to the user.
Prompts(p) == run.at = p /\ UNCHANGED world /\ Ok(p)
TeamsApp ==
  \/ Prompts("app")
  \/ run.at = "app" /\ "credentials" \in world.env /\ UNCHANGED world /\ Go("app", "install")
TeamsBot == Prompts("bot")
TeamsSideload == Prompts("sideload")
TeamsHandoff ==
  \/ Prompts("handoff")
  \/ run.at = "handoff" /\ Wire("assistant") /\ Ok("handoff")

\* A package that cannot be built ends the process, offer and all: the result that the
\* un-awaited fail() leaves undefined is read.
TeamsManifest ==
  /\ run.at = "manifest" /\ UNCHANGED world
  /\ (Ok("manifest") \/ Mishap("manifest", "idle"))

\* add-<channel>.sh: fetch, packages and build are skipped when the sources are there;
\* the credentials are written and the service is restarted, or not, unnoticed.
Adapter == world.adapter[run.choice]
Fetch(w) == [w EXCEPT !.adapter[run.choice] = IF @ = "none" THEN "built" ELSE @]
WithCredentials(w) == [w EXCEPT !.env = @ \cup {"credentials"}]
Install ==
  LET w == WithCredentials(Fetch(world)) IN
  /\ run.at = "install" /\ run.choice \notin Linking
  /\ \/ world' = Restarted(w) /\ Ok("install")
     \/ world' \in Unheard(w) /\ Mishap("install", Then("install"))

\* add-whatsapp.sh: the adapter is fetched; linking and the restart come later.
InstallWhatsApp ==
  run.at = "install" /\ run.choice = "whatsapp" /\ world' = Fetch(world) /\ Ok("install")

\* add-signal.sh completes what broke off: packages and build are not skipped.
InstallSignal ==
  /\ run.at = "install" /\ run.choice = "signal"
  /\ world' = [world EXCEPT !.adapter["signal"] = "built"] /\ Ok("install")

\* ... each may break off: before the sources, with them, or with the packages.
InstallFails ==
  /\ run.at = "install" /\ (Adapter = "none" \/ run.choice = "signal")
  /\ \/ UNCHANGED world
     \/ \E got \in {"sources", "packages"} :
          Adapter = "none" /\ world' = [world EXCEPT !.adapter[run.choice] = got]
  /\ NotOk("install")

\* The device is linked, or has credentials already: signal-auth finds an account, which
\* goes into .env; whatsapp-auth fills store/, where a pairing code that was never entered
\* leaves credentials too, to be taken for a link the next time.
Link(c) ==
  /\ run.at = "link" /\ run.choice = c
  /\ \/ world' = WithCredentials(world) /\ Ok("link")
     \/ /\ "credentials" \notin world.env /\ NotOk("link")
        /\ UNCHANGED world \/ (c = "whatsapp" /\ world' = WithCredentials(world))
LinkSignal == Link("signal")
LinkWhatsApp == Link("whatsapp")

\* The service is restarted, failures ignored.
RestartService ==
  /\ run.at = "restart"
  /\ \/ world' = Restarted(world) /\ Ok("restart")
     \/ world' \in Unheard(world) /\ Mishap("restart", Then("restart"))

\* Telegram: nothing in this checkout consumes the code, so pairing only fails.
PairTelegram == run.at = "pair" /\ UNCHANGED world /\ NotOk("pair")

\* init-first-agent wires the assistant to the chat.
InitAgent ==
  /\ run.at = "init"
  /\ \/ Wire("assistant") /\ Ok("init")
     \/ UNCHANGED world /\ NotOk("init")

\* setup/verify.ts: the service runs, a vault is configured and an agent is wired.
Verified == world.service.up /\ "onecli" \in world.env /\ world.agents # {}

\* All set, or almost.
Verify ==
  /\ run.at = "verify" /\ UNCHANGED <<world, wanted, processes, mishaps>>
  /\ run' = [run EXCEPT !.at = "idle", !.owed = Paid("verify"),
                        !.said = IF Verified THEN "set" ELSE "almost"]

Next ==
  \/ Begin \/ Quit \/ (\E s \in Steps \cup Parts : Retry(s)) \/ ReexecUnderSg
  \/ Environment \/ Container \/ Mounts \/ Onecli
  \/ SecretExists \/ SubscriptionAuth \/ PasteAuth \/ SkipAuth
  \/ Service \/ ServiceUnheard \/ ServiceFails
  \/ CliAgent \/ Ping \/ Cleanup \/ WhatNext
  \/ Timezone \/ Confirm \/ Persist
  \/ (\E c \in Channels \cup {"skip"} : Choose(c)) \/ Back
  \/ TelegramToken \/ DiscordToken \/ SlackToken \/ IMessageMode \/ SignalCli
  \/ DirectMessage \/ TeamsApp \/ TeamsBot \/ TeamsManifest \/ TeamsSideload \/ TeamsHandoff
  \/ Install \/ InstallWhatsApp \/ InstallSignal \/ InstallFails
  \/ LinkSignal \/ LinkWhatsApp \/ RestartService \/ PairTelegram \/ InitAgent
  \/ Verify

Spec == Init /\ [][Next]_vars

(***************************************************************************)
(* Properties.                                                             *)
(***************************************************************************)
Zones == {"none", "detected", "chosen"}

\* Every variable keeps its type.
TypeOK ==
  /\ run \in [at : Steps \cup Parts \cup {"idle", "failed"}, skip : SUBSET Steps,
              offers : SUBSET (Steps \cup Parts),
              owed : Steps \cup Parts \cup {"none"}, choice : Channels \cup {"skip"},
              said : {"none", "set", "almost"}]
  /\ world \in [env : SUBSET {"onecli", "credentials"}, tz : Zones, secret : BOOLEAN,
                adapter : [Channels -> {"none", "sources", "packages", "built"}],
                agents : SUBSET {"ping-test", "terminal", "assistant"},
                service : [up : BOOLEAN, credentials : BOOLEAN, adapters : SUBSET Channels,
                           tz : Zones],
                deaf : BOOLEAN]
  /\ wanted \in Channels \cup {"any"} /\ processes \in 0..MaxRuns /\ mishaps \in 0..MaxMishaps

\* A process that retries a failed step runs it before it ends (fail() promises to
\* resume there), but for three: the zone the user named once one was detected, the
\* terminal agent, and the first agent when the attempt that failed had wired it.
RetryResumes ==
  (run.at = "verify" \/ run.said # "none") /\ run.owed # "none" =>
    run.owed \in {"timezone", "terminal", "cli-agent"}

\* When setup ends well after wiring a channel, with no failure still on offer, the
\* assistant is wired and the service that runs knows the channel's credentials, its
\* adapter and the time zone, unless its last restart failed unnoticed; the adapter may
\* be missing too after an install that broke off.
ReadyMeansReady ==
  run.said = "set" /\ run.choice \in Wiring /\ run.offers = {} =>
    /\ "assistant" \in world.agents /\ "credentials" \in world.env
    /\ LET s == world.service IN
       world.deaf \/ (s.credentials /\ s.tz = world.tz
                      /\ (run.choice \in s.adapters \/ Adapter # "built"))
=============================================================================
