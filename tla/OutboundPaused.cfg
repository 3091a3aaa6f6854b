CONSTANTS
  active = active
  minute = minute
  t1 = t1
  Series = {t1}
  MaxRows = 3
  MaxFanFaults = 0
  Polls = {active, minute}
  Requests = {"series", "pause"}
  ChatKinds = {}
  MaxOut = 2
  MaxAttempts = 2
  MaxRestarts = 0
SPECIFICATION Spec
PROPERTY PausedDoesNotRun
