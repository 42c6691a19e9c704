\* A pipe that does not exist before one that does, which one thread registers.
CONSTANTS
  Threads = {t1}
  Registrants = {r1}
  Packets = {2}
  EventPacket = 2
  MaxNumPipes = 2
  MaxPipesPerPacket = 2
  NumMsgs = 1
  TooSmall <- MCTooSmall
  Timeouts = {"NO_WAIT"}
  Observed = {}
  Leftovers <- MCLeftovers
  MaxCalls = 1
  MaxSetups = 3
SPECIFICATION Spec
INVARIANTS OkayReachesAllListeners
\* The calls are bounded.
CHECK_DEADLOCK FALSE
