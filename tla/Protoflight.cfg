\* main, the scheduler, the telemetry task with its two ids and one application;
\* the initialization and the start of the schedule may fail.
CONSTANTS
  TaskIds = {1, 2, 3, 4, 10}
  SchedulerId = 2
  FSW_TASK_ID_MAIN = 1
  FSW_TASK_ID_TLM = 3
  FSW_TASK_ID_TELEMETRY = 10
  AppIds = {4}
  TlmRate = 2
  Periods = {2}
  Heartbeats = {2}
  Spawnable = {TRUE, FALSE}
  SemValueMax = 1
  TickModulus = 3
  Faults = {"sem_create", "timer_create", "timer_start", "thread_create"}
SPECIFICATION ProcessFairSpec
INVARIANTS MainTypeOK StartupEventIsTrue
PROPERTIES ImplementsTaskManager ProcessEnds
\* The process ends.
CHECK_DEADLOCK FALSE
