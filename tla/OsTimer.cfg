\* One timer, which may be created anew, started twice, and two threads that
\* take its signals.
CONSTANTS
  Timers = {a}
  NumSignals = 2
  Threads = {t1, t2}
  Timeouts = {0, 1}
  MaxStarts = 2
SPECIFICATION FairSpec
INVARIANTS OsTimerTypeOK SignalsAreHandled NoStaleCallback SingleShotBound StoppedStaysStopped
PROPERTIES ArmedTimerCalls SingleShotEnds
