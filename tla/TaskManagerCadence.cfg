\* Periods on both sides of the heartbeats, and waits that fail.
CONSTANTS
  TaskIds = {1, 2, 3}
  SchedulerId = 2
  Periods = {1, 3}
  Heartbeats = {1, 2}
  Spawnable = {TRUE}
  SemValueMax = 6
  TickModulus = 4
  Faults = {"task_take"}
  MaxExpirations = 4
SPECIFICATION CadenceSpec
INVARIANTS CadenceIsExact SlotsFollowTimer MissedHeartbeatsAreExact
