----------------------------- MODULE CloudParts -----------------------------
(***************************************************************************)
(* What works for a user in the cloud: chat (CloudChat), reminders (Reminders),*)
(* connected accounts (Accounts), documents and the index (Documents).     *)
(* They share no state.                                                    *)
(***************************************************************************)
EXTENDS Naturals, Sequences, FiniteSets

CONSTANTS
  Wired, Direct, Workers, MaxRetries, ChatFaults,
  Reminders, ReminderFaults,
  Bare, Tagged, Tag, NoBody, MaxLinks, MaxDays, AccountFaults,
  Personal, Corporate, Misfiled, Urls, Drafts, Longer, FilePlans, MaxOrders, Chunks

VARIABLES
  streams, group, arrived, list, stream, work, burying, left, dead, responses, delivery, local,
  repliesTold, twice, chatGone, chatFaults,
  added, set, due, hands, pushed, fired, again, tornPushes, calledOff, cancelled,
  reminderFaults,
  links, tokens, meant, unsure, roster, day, firedTwice, mail, accountFaults,
  plan, uploaded, staged, documents, pending, indexing, indexJob, seen, flag, reading,
  pasted, order, ordered, listed, gateway, index, asking, noDocs, noticesTold, cleared,
  known, raced, attempted, erased, chunksGone, stuck, fileFaults

cloudVars == <<streams, group, arrived, list, stream, work, burying, left, dead, responses,
  delivery, local, repliesTold, twice, chatGone, chatFaults>>
remindersVars == <<added, set, due, hands, pushed, fired, again, tornPushes, calledOff,
  cancelled, reminderFaults>>
accountsVars == <<links, tokens, meant, unsure, roster, day, firedTwice, mail,
  accountFaults>>
documentsVars == <<plan, uploaded, staged, documents, pending, indexing, indexJob, seen,
  flag, reading, pasted, order, ordered, listed, gateway, index, asking, noDocs,
  noticesTold, cleared, known, raced, attempted, erased, chunksGone, stuck, fileFaults>>

Cc == INSTANCE CloudChat WITH MaxFaults <- ChatFaults, job <- work, told <- repliesTold,
  gone <- chatGone, faults <- chatFaults
Re == INSTANCE Reminders WITH MaxFaults <- ReminderFaults, torn <- tornPushes, faults <-
  reminderFaults
Ac == INSTANCE Accounts WITH MaxFaults <- AccountFaults, twice <- firedTwice, faults <-
  accountFaults
Do == INSTANCE Documents WITH Links <- Urls, Plans <- FilePlans, job <- indexJob, told <-
  noticesTold, gone <- chunksGone, faults <- fileFaults, shown <- listed

\* The instances are such as the parts are stated for.
ASSUME CloudFit ==
  /\ Cc!ConstantAssumption
  /\ Re!ConstantAssumption
  /\ Ac!ConstantAssumption
  /\ Do!ConstantAssumption
=============================================================================
