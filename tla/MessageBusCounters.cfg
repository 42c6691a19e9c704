\* Two increments of the same counter.
CONSTANTS
  Threads = {t1, t2}
  Registrants = {r1}
  Packets = {2}
  EventPacket = 2
  MaxNumPipes = 2
  MaxPipesPerPacket = 2
  NumMsgs = 1
  TooSmall <- MCTooSmall
  Timeouts = {"NO_WAIT"}
  Observed = {"messages_sent"}
  Leftovers <- MCLeftovers
  MaxCalls = 1
  MaxSetups = 0
SPECIFICATION Spec
INVARIANTS CountersAreExact
\* The calls are bounded.
CHECK_DEADLOCK FALSE
