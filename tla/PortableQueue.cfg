\* Three threads, each of whose calls runs while the others wait, through every
\* offset.
CONSTANTS
  Callers = {a, b, c}
  NoCaller = nobody
  Messages = {m1, m2}
  NoMessage = empty
  NumMsgs = 2
  CountModulus = 8
  Serialized = TRUE
  MaxDepth = 2
SPECIFICATION Spec
INVARIANTS PortableTypeOK
PROPERTIES ImplementsFifo
\* The depth of the mutex is bounded.
CHECK_DEADLOCK FALSE
