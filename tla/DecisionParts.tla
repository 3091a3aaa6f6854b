--------------------------- MODULE DecisionParts ----------------------------
(***************************************************************************)
(* What an administrator decides: the cards (Approvals), the agents' ncl   *)
(* calls that ask for one (Cli), the dashboard (Console), its door (Login).*)
(* They share no state.                                                    *)
(***************************************************************************)
EXTENDS Naturals, Sequences, FiniteSets

CONSTANTS
  Installs, Servers, Credentials, Questions, RequestScenarios, MaxClicks, CardFaults,
  Calls, CallScripts, DrainAttempts, HostDeaths,
  Codes, Pages, DeskFiles, MaxRecords, MaxMoves, MaxDeskFaults,
  Addresses, SecretChoices, MaxFailures, Window, Block, MaxEntries, MaxTime, MaxRestarts

VARIABLES
  ask, row, card, clicked, clicks, waiting, expiring, sweeping, verdict, config, image,
  tag, onWake, box, snap, has, exitWake, answers, tool, up, effect, cardsSent, tornBuilds,
  behind, stale, cardFaults,
  command, ncl, number, snapshot, handling, outcome, attempts, response, cards,
  cardsAsked, refused, ran, deaths,
  desk, screen, upload, trial, data, moves, deskFaults,
  secrets, clock, failedAttempts, older, guesses, cookie, incarnation, strangers

approvalsVars == <<ask, row, card, clicked, clicks, waiting, expiring, sweeping, verdict,
  config, image, tag, onWake, box, snap, has, exitWake, answers, tool, up, effect,
  cardsSent, tornBuilds, behind, stale, cardFaults>>
cliVars == <<command, ncl, number, snapshot, handling, outcome, attempts, response, cards,
  cardsAsked, refused, ran, deaths>>
consoleVars == <<desk, screen, upload, trial, data, moves, deskFaults>>
loginVars == <<secrets, clock, failedAttempts, older, guesses, cookie, incarnation,
  strangers>>

Ap == INSTANCE Approvals WITH Scenarios <- RequestScenarios, MaxFaults <- CardFaults, faults
  <- cardFaults, sent <- cardsSent, torn <- tornBuilds
Cl == INSTANCE Cli WITH Scripts <- CallScripts, MaxAttempts <- DrainAttempts, MaxDeaths <-
  HostDeaths, asked <- cardsAsked
Co == INSTANCE Console WITH Files <- DeskFiles
Lo == INSTANCE Login WITH process <- incarnation, unknown <- strangers

\* The instances are such as the parts are stated for.
ASSUME DecisionsFit ==
  /\ Ap!ConstantAssumption
  /\ Cl!ConstantAssumption
  /\ Co!ConstantAssumption
  /\ Lo!ConstantAssumption
=============================================================================
