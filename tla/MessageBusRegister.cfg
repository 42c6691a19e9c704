\* Two threads that register a pipe each for one packet.
CONSTANTS
  Threads = {t1}
  Registrants = {r1, r2}
  Packets = {2}
  EventPacket = 2
  MaxNumPipes = 2
  MaxPipesPerPacket = 2
  NumMsgs = 1
  TooSmall <- MCTooSmall
  Timeouts = {"NO_WAIT"}
  Observed = {}
  Leftovers <- MCLeftovers
  MaxCalls = 1
  MaxSetups = 3
SPECIFICATION Spec
INVARIANTS RegisteredPipesAreSentTo
\* The calls are bounded.
CHECK_DEADLOCK FALSE
