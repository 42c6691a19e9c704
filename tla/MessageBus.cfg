\* One thread of two calls and two registrants of three between them, which may
\* overlap: two pipes of two messages, the second of which is too small for an
\* event, and a packet with room for two registrations.
CONSTANTS
  Threads = {t1}
  Registrants = {r1, r2}
  Packets = {2}
  EventPacket = 2
  MaxNumPipes = 2
  MaxPipesPerPacket = 2
  NumMsgs = 2
  TooSmall <- MCTooSmall
  Timeouts = {"NO_WAIT", "WAIT_FOREVER"}
  Observed = {}
  Leftovers <- MCLeftovers
  MaxCalls = 2
  MaxSetups = 3
SPECIFICATION FairSpec
INVARIANTS BusTypeOK OnlyListenersReceive CopiesPerRegistration RegistrationsLast ResultIsOfLastPipe
PROPERTIES CallsReturn
\* The calls are bounded.
CHECK_DEADLOCK FALSE
