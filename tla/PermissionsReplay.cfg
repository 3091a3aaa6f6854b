CONSTANTS
  Channels = {"home", "new"}
  Senders = {"stranger", "nobody"}
  Agents = {1, 2, 3}
  Events = {"e1", "e4"}
  Chan <- MCChan
  From <- MCFrom
  Mentions = {"e1"}
  Matches = {}
  Filtered = {}
  AdminCmd = {}
  Mode <- MCMode
  Policy <- MCPolicy
  Open = {}
  Accumulate = {"home", "new"}
  Owners = {}
  Anonymous = {"nobody"}
  Groups0 = {1, 2}
  Wired0 <- MCWired
  Members0 = {}
  MaxFaults = 0
SPECIFICATION Spec
CHECK_DEADLOCK FALSE
INVARIANT ApprovedReachesAgent
