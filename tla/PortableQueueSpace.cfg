\* A queue of one message and calls that overlap.
CONSTANTS
  Callers = {a, b, c}
  NoCaller = nobody
  Messages = {m1}
  NoMessage = empty
  NumMsgs = 1
  CountModulus = 4
  Serialized = FALSE
  MaxDepth = 2
SPECIFICATION Spec
INVARIANTS SpaceInQueue
\* The depth of the mutex is bounded.
CHECK_DEADLOCK FALSE
