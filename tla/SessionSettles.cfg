CONSTANTS
  m1 = m1
  m2 = m2
  m3 = m3
  r1 = r1
  r2 = r2
  Msgs = {m1, m2}
  Runners = {r1, r2}
  NoRunner = NoRunner
  Trigger = {m1, m2}
  OnWake = {}
  Scheduled = {}
  Scripted = {}
  ClearCmd = {}
  SlashCmd = {}
  SystemMsg = {}
  MaxTries = 1
  MaxPrompt = 2
  MaxFaults = 2
  MaxDetached = 0
SPECIFICATION FairSpec
PROPERTIES
  DueRowsSettle
