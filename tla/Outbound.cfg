CONSTANTS
  active = active
  minute = minute
  t1 = t1
  Series = {t1}
  MaxRows = 3
  MaxFanFaults = 1
  Polls = {active, minute}
  Requests = {"schedule", "series", "cancel", "pause", "resume", "once", "every"}
  ChatKinds = {"chat", "denied", "unrouted"}
  MaxOut = 2
  MaxAttempts = 2
  MaxRestarts = 1
SPECIFICATION FairSpec
INVARIANTS
  NoDuplicate
  GivenUpAfterAttempts
  SeriesNotForgotten
  OneCarrier
PROPERTIES
  InOrder
  RowsSettle
