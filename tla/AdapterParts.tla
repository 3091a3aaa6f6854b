---------------------------- MODULE AdapterParts ----------------------------
(***************************************************************************)
(* The adapters the repository has itself: WhatsApp and Telegram.          *)
(* They share no state.                                                    *)
(***************************************************************************)
EXTENDS Naturals, Sequences, FiniteSets

CONSTANTS
  Notes, TextQuestions, TextScenarios, MaxQueue, MaxPairings, MaxTrouble,
  Wordy, Posts, Media, MaxUpdates, MaxBotFaults

VARIABLES
  host, link, connected, queue, hand, direct, live, there, handed, sent, dropped, lost,
  shown, unclear, failed, registered, coming, answered, acted, backed, paired, copied,
  valid, held, saving, pairings, timer, uploads, leaving, purging, gone, late, trouble,
  loop, closing, offset, written, confirmed, fetched, forwarding, forwarded, routed, cut,
  repeats, post, posted, unheard, botFaults

whatsappVars == <<host, link, connected, queue, hand, direct, live, there, handed, sent,
  dropped, lost, shown, unclear, failed, registered, coming, answered, acted, backed,
  paired, copied, valid, held, saving, pairings, timer, uploads, leaving, purging, gone, late,
  trouble>>
telegramVars == <<loop, closing, offset, written, confirmed, fetched, forwarding, forwarded,
  routed, cut, repeats, post, posted, unheard, botFaults>>

Wa == INSTANCE WhatsApp WITH Questions <- TextQuestions, Scenarios <- TextScenarios, pending
  <- registered, local <- paired, remote <- copied
Te == INSTANCE Telegram WITH torn <- closing

\* The instances are such as the parts are stated for.
ASSUME AdaptersFit ==
  /\ Wa!ConstantAssumption
  /\ Te!ConstantAssumption
=============================================================================
