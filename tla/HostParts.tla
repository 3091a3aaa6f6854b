----------------------------- MODULE HostParts ------------------------------
(***************************************************************************)
(* The host and its agents: messages between agents (AgentRoute), the life of the*)
(* host (Host), the setup wizard (Setup).                                  *)
(* They share no state.                                                    *)
(***************************************************************************)
EXTENDS Naturals, Sequences, FiniteSets

CONSTANTS
  Peers, MaxAsks, MaxReplies, MaxCrashes,
  Lives, Signals, SetupRetries, Keys, SettingValues,
  Channels, MaxRuns, MaxMishaps

VARIABLES
  active, granted, inbox, taken, batch, asks, replies, asked, said, landed, copies,
  crashes,
  life, phase, breaker, adapter, stop, services, cli, restart, settings, unclean, marked,
  run, world, wanted, processes, mishaps

agentsVars == <<active, granted, inbox, taken, batch, asks, replies, asked, said, landed,
  copies, crashes>>
hostVars == <<life, phase, breaker, adapter, stop, services, cli, restart, settings,
  unclean, marked>>
setupVars == <<run, world, wanted, processes, mishaps>>

Ar == INSTANCE AgentRoute
Ho == INSTANCE Host WITH Values <- SettingValues
Se == INSTANCE Setup

\* The instances are such as the parts are stated for.
ASSUME HostFit ==
  /\ Ar!ConstantAssumption
  /\ Ho!ConstantAssumption
  /\ Se!ConstantAssumption
=============================================================================
