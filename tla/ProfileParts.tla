---------------------------- MODULE ProfileParts ----------------------------
(***************************************************************************)
(* The user's profile (Profile), with the sub-agents that answer the user. *)
(***************************************************************************)
EXTENDS Naturals, Sequences

CONSTANTS Answerers, Sayings

VARIABLES
  script, spoken, at, msg, got, consent, wizard, greeted, profile, recall, requests,
  table, chats, storing, finished, settled, refetched, acked, overlapped, undone, wizards,
  excused, profileFaults

profileVars == <<script, spoken, at, msg, got, consent, wizard, greeted, profile, recall,
  requests, table, chats, storing, finished, settled, refetched, acked, overlapped, undone,
  wizards, excused, profileFaults>>

Pr == INSTANCE Profile WITH Workers <- Answerers, Scenarios <- Sayings, said <- spoken,
  due <- settled, raced <- refetched, faults <- profileFaults

\* The instance is such as the part is stated for.
ASSUME ProfileFit == Pr!ConstantAssumption
=============================================================================
