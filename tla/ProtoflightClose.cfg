\* Only main, the scheduler and the telemetry task; nothing fails.
CONSTANTS
  TaskIds = {1, 2, 3, 10}
  SchedulerId = 2
  FSW_TASK_ID_MAIN = 1
  FSW_TASK_ID_TLM = 3
  FSW_TASK_ID_TELEMETRY = 10
  AppIds = {}
  TlmRate = 2
  Periods = {2}
  Heartbeats = {2}
  Spawnable = {TRUE}
  SemValueMax = 1
  TickModulus = 3
  Faults = {}
SPECIFICATION ProcessSpec
INVARIANTS TasksCloseBeforeExit
\* The process ends.
CHECK_DEADLOCK FALSE
