\* Three entries around the scheduler's, every kind of task, every fault but that of
\* a wait of a task, which fairness would force to end one.
CONSTANTS
  TaskIds = {1, 2, 3}
  SchedulerId = 2
  Periods = {1, 2}
  Heartbeats = {1}
  Spawnable = {TRUE, FALSE}
  SemValueMax = 2
  TickModulus = 4
  Faults = {"sem_create", "timer_create", "timer_start", "thread_create", "scheduler_take"}
SPECIFICATION FairSpec
INVARIANTS TypeOK ShutdownUnblocks StartResultIsTrue
PROPERTIES ShutdownCompletes NoStarvation
\* A fault may stop the system.
CHECK_DEADLOCK FALSE
