\* A queue of one message, and a call that starts while the other one waits.
CONSTANTS
  Callers = {a, b}
  NoCaller = nobody
  Messages = {m1}
  NoMessage = empty
  NumMsgs = 1
  CountModulus = 4
  Serialized = TRUE
  MaxDepth = 2
SPECIFICATION FairSpec
PROPERTIES CallsReturn
\* The depth of the mutex is bounded.
CHECK_DEADLOCK FALSE
