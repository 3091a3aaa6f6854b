CONSTANTS
  m1 = m1
  m2 = m2
  m3 = m3
  r1 = r1
  r2 = r2
  Msgs = {m1, m2, m3}
  Runners = {r1, r2}
  NoRunner = NoRunner
  Trigger = {m1, m2, m3}
  OnWake = {}
  Scheduled = {}
  Scripted = {}
  ClearCmd = {m2}
  SlashCmd = {}
  SystemMsg = {m3}
  MaxTries = 0
  MaxPrompt = 3
  MaxFaults = 1
  MaxDetached = 1
SYMMETRY RunnerSymmetry
SPECIFICATION Spec
INVARIANTS
  SessionInv
  RunnerHoldsClaims
  OpenTurnIsClaimed
PROPERTIES
  ImplementsInbox
