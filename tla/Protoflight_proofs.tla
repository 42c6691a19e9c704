-------------------------- MODULE Protoflight_proofs --------------------------
(***************************************************************************)
(* Proofs about the process for any set of applications, periods and       *)
(* faults: it is a Task Manager, and therefore has what is proved of one.  *)
(***************************************************************************)
EXTENDS Protoflight, TaskManager_proofs

(***************************************************************************)
(* Each operation of the Task Manager is one of TM, whose faults are those *)
(* of the process and a failing os_sem_take.                               *)
(***************************************************************************)

\* What the operations are built from does not depend on the faults.
LEMMA SameRegistration ==
  /\ Unregistered = TM!Unregistered
  /\ SchedulerConfig = TM!SchedulerConfig
  /\ ClientIds = TM!ClientIds
  /\ \A t, p, h, s :
       /\ TmPeriodicTask(t, p, h, s) <=> TM!TmPeriodicTask(t, p, h, s)
       /\ TmEventTask(t, h, s) <=> TM!TmEventTask(t, h, s)
       /\ TmCallbackTask(t, p) <=> TM!TmCallbackTask(t, p)
       /\ TmMonitorTask(t) <=> TM!TmMonitorTask(t)
  BY DEF Unregistered, TM!Unregistered, SchedulerConfig, TM!SchedulerConfig,
         TM_SCHEDULER_PERIOD, TM!TM_SCHEDULER_PERIOD, ClientIds, TM!ClientIds,
         Config, TM!Config, Register, TM!Register, TmPeriodicTask,
         TM!TmPeriodicTask, TmEventTask, TM!TmEventTask, TmCallbackTask,
         TM!TmCallbackTask, TmMonitorTask, TM!TmMonitorTask

\* Initialization may fail where the process's does.
LEMMA InitializeMaps == TmInitialize => TM!TmInitialize
  BY SameRegistration DEF TmInitialize, TM!TmInitialize

\* Before main runs the Task Manager is in its initial state.
LEMMA InitMaps == ProcessInit => TM!Init
  BY SameRegistration DEF ProcessInit, Init, TM!Init

\* The steps of tm_start.
LEMMA StartMaps ==
  /\ TmStart => TM!TmStart
  /\ \A t \in TaskIds : TmStartTask(t) => TM!TmStartTask(t)
  /\ TmStartTimer => TM!TmStartTimer
  <1>1. TmStart => TM!TmStart
    BY DEF TmStart, TM!TmStart
  <1>2. ASSUME NEW t \in TaskIds, TmStartTask(t)
        PROVE  TM!TmStartTask(t)
    BY <1>2 DEF TmStartTask, TM!TmStartTask, IsFirst, TM!IsFirst, HasThread,
                TM!HasThread, OsTaskSpawn, TM!OsTaskSpawn
  <1>3. TmStartTimer => TM!TmStartTimer
    BY DEF TmStartTimer, TM!TmStartTimer
  <1> QED
    BY <1>1, <1>2, <1>3

\* The scheduler, the timer and tm_stop.
LEMMA ScheduleMaps ==
  /\ TimerExpires => TM!TimerExpires
  /\ Scheduler => TM!Scheduler
  /\ TmStop => TM!TmStop
  <1>1. \A c : Given(c) = TM!Given(c)
    BY DEF Given, TM!Given
  <1>2. \A t : /\ Releases(t) <=> TM!Releases(t)
               /\ MissesHeartbeat(t) <=> TM!MissesHeartbeat(t)
               /\ UpdatedTicks(t) = TM!UpdatedTicks(t)
               /\ BitOf(t) = TM!BitOf(t)
    BY DEF Releases, TM!Releases, MissesHeartbeat, TM!MissesHeartbeat,
           UpdatedTicks, TM!UpdatedTicks, IsDue, TM!IsDue, Ticked, TM!Ticked,
           HasThread, TM!HasThread, BitOf, TM!BitOf, IntBits, TM!IntBits
  <1>3. TimerExpires => TM!TimerExpires
    BY <1>1 DEF TimerExpires, TM!TimerExpires
  <1>4. SchedulerLoop => TM!SchedulerLoop
    BY DEF SchedulerLoop, TM!SchedulerLoop
  <1>5. SchedulerTake => TM!SchedulerTake
    BY DEF SchedulerTake, TM!SchedulerTake
  <1>6. \A t : SchedulerSlot(t) => TM!SchedulerSlot(t)
    BY <1>1, <1>2 DEF SchedulerSlot, TM!SchedulerSlot, IsFirst, TM!IsFirst
  <1>7. \A t : SchedulerDrain(t) => TM!SchedulerDrain(t)
    BY <1>1 DEF SchedulerDrain, TM!SchedulerDrain, IsFirst, TM!IsFirst
  <1>8. TmStop => TM!TmStop
    BY DEF TmStop, TM!TmStop
  <1> QED
    BY <1>3, <1>4, <1>5, <1>6, <1>7, <1>8 DEF Scheduler, TM!Scheduler

\* The steps of a task that calls tm_running with its own id.
LEMMA WorkerMaps == \A t : Worker(t) => TM!Worker(t)
  <1>1. \A t : TmRunningWait(t) => TM!TmRunningWait(t)
    BY DEF TmRunningWait, TM!TmRunningWait, TmRunningBlocks, TM!TmRunningBlocks,
           AwaitsRelease, TM!AwaitsRelease
  <1>2. \A t : TmRunningReturn(t) => TM!TmRunningReturn(t)
    BY DEF TmRunningReturn, TM!TmRunningReturn
  <1>3. \A t : TaskBody(t) => TM!TaskBody(t)
    BY DEF TaskBody, TM!TaskBody
  <1> QED
    BY <1>1, <1>2, <1>3 DEF Worker, TM!Worker

\* Every step of this Task Manager is one of the Task Manager whose tm_running
\* may fail to wait.
LEMMA NextMaps == Next => TM!Next
  <1>1. Registration => TM!Registration
    BY SameRegistration DEF Registration, TM!Registration
  <1>2. Start => TM!Start
    BY StartMaps DEF Start, TM!Start
  <1> QED
    BY <1>1, <1>2, SameRegistration, InitializeMaps, ScheduleMaps, WorkerMaps
    DEF Next, TM!Next

(***************************************************************************)
(* The calls of tm_running that pass another id than a task's own.         *)
(***************************************************************************)

\* Only tm_monitor_task registers main's id, and nobody the id that the
\* telemetry task waits with.
NeverWaits ==
  /\ DOMAIN config = TaskIds
  /\ config[FSW_TASK_ID_MAIN].type # "PERIODIC"
  /\ config[FSW_TASK_ID_TELEMETRY].type # "PERIODIC"

\* Before main runs nobody waits.
LEMMA NeverWaitsInitially ==
  ASSUME ProtoflightAssumption
  PROVE  ProcessInit => NeverWaits
  BY DEF ProtoflightAssumption, ProcessInit, Init, NeverWaits, Unregistered,
         Config, ClientIds

\* Registering any other id leaves the two as they are.
LEMMA RegisterOther ==
  ASSUME ProtoflightAssumption, NeverWaits,
         NEW t \in ClientIds \ {FSW_TASK_ID_MAIN, FSW_TASK_ID_TELEMETRY},
         NEW c, Register(t, c)
  PROVE  NeverWaits'
  BY DEF ProtoflightAssumption, NeverWaits, Register, ClientIds

\* Neither main nor the telemetry task ever waits for the scheduler.
LEMMA NeverWaitsStep ==
  ASSUME ProtoflightAssumption, NeverWaits, [ProcessNext]_processVars
  PROVE  NeverWaits'
  <1> DEFINE Others == ClientIds \ {FSW_TASK_ID_MAIN, FSW_TASK_ID_TELEMETRY}
  <1>1. CASE MainMonitorsItself
    BY <1>1 DEF MainMonitorsItself, TmMonitorTask, Register, Config, NeverWaits,
                ProtoflightAssumption, ClientIds
  <1>2. CASE MainInitializesTm
    BY <1>2 DEF MainInitializesTm, TmInitialize, Unregistered, Config, NeverWaits,
                ProtoflightAssumption, ClientIds
  <1>3. CASE TlmInitialize
    <2>1. FSW_TASK_ID_TLM \in Others
      BY DEF ProtoflightAssumption
    <2> QED
      BY <1>3, <2>1, RegisterOther DEF TlmInitialize, TmPeriodicTask
  <1>4. CASE \E t \in AppIds : AppRegisters(t)
    <2>1. PICK t \in AppIds : AppRegisters(t)
      BY <1>4
    <2>2. t \in Others
      BY DEF ProtoflightAssumption
    <2> QED
      BY <2>1, <2>2, RegisterOther DEF AppRegisters, TmPeriodicTask, TmEventTask
  <1>5. CASE MainCallsTmStart \/ MainInTmStart \/ MainReportsStartup
    BY <1>5 DEF MainCallsTmStart, MainInTmStart, MainReportsStartup, TmStart,
                TmStartTask, TmStartTimer, tmVars, NeverWaits
  <1>6. CASE MainLoops
    BY <1>6 DEF MainLoops, MainCallsTmRunning, MainReadsRunning, MainDelays, tmVars,
                NeverWaits
  <1>7. CASE TimerExpires \/ Scheduler \/ TmStop
    BY <1>7 DEF TimerExpires, Scheduler, SchedulerLoop, SchedulerTake, SchedulerSlot,
                SchedulerDrain, TmStop, NeverWaits
  <1>8. CASE TlmTelemetryTask \/ \E t \in AppIds : Worker(t)
    BY <1>8 DEF TlmTelemetryTask, TelemetryCallsTmRunning, TelemetryReports, Worker,
                TmRunningWait, TmRunningBlocks, TmRunningReturn, TaskBody, NeverWaits
  <1>9. CASE UNCHANGED processVars
    BY <1>9 DEF processVars, tmVars, NeverWaits
  <1> QED
    BY <1>1, <1>2, <1>3, <1>4, <1>5, <1>6, <1>7, <1>8, <1>9
    DEF ProcessNext, MainStarts

\* So it is in every behaviour of the process.
LEMMA NeverWaitsInvariant == ProcessSpec => []NeverWaits
  <1>1. ProcessInit => NeverWaits
    BY ProtoflightAssumption, NeverWaitsInitially
  <1>2. NeverWaits /\ [ProcessNext]_processVars => NeverWaits'
    BY ProtoflightAssumption, NeverWaitsStep
  <1> QED
    BY <1>1, <1>2, PTL DEF ProcessSpec

\* main's wait changes nothing of the Task Manager.
LEMMA MainNeverWaits ==
  ASSUME NeverWaits, MainCallsTmRunning
  PROVE  UNCHANGED tmVars
  BY DEF NeverWaits, MainCallsTmRunning, MainGoto, AwaitsRelease, tmVars

\* The telemetry task passes tm_running as if its os_sem_take had failed.
LEMMA TelemetryMaps ==
  ASSUME NeverWaits, TelemetryCallsTmRunning
  PROVE  TM!Worker(FSW_TASK_ID_TLM)
  <1>1. semaphore' = semaphore
    BY DEF TelemetryCallsTmRunning, TmRunningBlocks, AwaitsRelease, NeverWaits
  <1>2. TM!AwaitsRelease(FSW_TASK_ID_TLM)
    BY <1>1 DEF TM!AwaitsRelease
  <1> QED
    BY <1>2 DEF TelemetryCallsTmRunning, TmRunningBlocks, TM!TmRunningBlocks,
                TM!TmRunningWait, TM!Worker

\* Every other step of the process is a step of its Task Manager, or none.
LEMMA ProcessStep ==
  ASSUME ProtoflightAssumption, NeverWaits, [ProcessNext]_processVars
  PROVE  [Next]_tmVars \/ TelemetryCallsTmRunning
  <1>1. /\ FSW_TASK_ID_MAIN \in ClientIds /\ FSW_TASK_ID_TLM \in ClientIds
        /\ AppIds \subseteq ClientIds
        /\ TlmRate \in Periods /\ TlmRate \in Heartbeats /\ TRUE \in Spawnable
    BY DEF ProtoflightAssumption
  <1>2. CASE MainMonitorsItself \/ TlmInitialize \/ \E t \in AppIds : AppRegisters(t)
    BY <1>1, <1>2 DEF MainMonitorsItself, TlmInitialize, AppRegisters, Registration, Next
  <1>3. CASE MainInitializesTm \/ MainCallsTmStart \/ MainInTmStart
    BY <1>3 DEF MainInitializesTm, MainCallsTmStart, MainInTmStart, Start, Next
  <1>4. CASE MainReportsStartup \/ MainReadsRunning \/ MainDelays
    BY <1>4 DEF MainReportsStartup, MainReadsRunning, MainDelays
  <1>5. CASE MainCallsTmRunning
    BY <1>5, MainNeverWaits
  <1>6. CASE TimerExpires \/ Scheduler \/ TmStop \/ \E t \in AppIds : Worker(t)
    BY <1>1, <1>6 DEF Next
  <1>7. CASE TlmTelemetryTask
    BY <1>1, <1>7 DEF TlmTelemetryTask, TelemetryReports, Worker, Next
  <1>8. CASE UNCHANGED processVars
    BY <1>8 DEF processVars
  <1> QED
    BY <1>2, <1>3, <1>4, <1>5, <1>6, <1>7, <1>8 DEF ProcessNext, MainStarts, MainLoops

(***************************************************************************)
(* The refinement.                                                         *)
(***************************************************************************)

\* For any applications and any faults the process is a Task Manager in which
\* os_sem_take of a task may fail.
THEOREM ProcessImplementsTaskManager == ProcessSpec => ImplementsTaskManager
  <1>1. ASSUME NeverWaits, [ProcessNext]_processVars
        PROVE  [TM!Next]_TM!tmVars
    <2>1. CASE [Next]_tmVars
      BY <2>1, NextMaps DEF TM!tmVars, tmVars
    <2>2. CASE TelemetryCallsTmRunning
      <3>1. FSW_TASK_ID_TLM \in TM!ClientIds
        BY ProtoflightAssumption, SameRegistration DEF ProtoflightAssumption
      <3> QED
        BY <1>1, <2>2, <3>1, TelemetryMaps DEF TM!Next
    <2> QED
      BY <1>1, <2>1, <2>2, ProtoflightAssumption, ProcessStep
  <1> QED
    BY <1>1, InitMaps, NeverWaitsInvariant, PTL
    DEF ProcessSpec, ImplementsTaskManager, TM!Spec

(***************************************************************************)
(* The inductive invariant of the process: that of the Task Manager, and   *)
(* how far main has come.                                                  *)
(***************************************************************************)

\* main is the thread that initializes and starts the Task Manager.
MainProgress ==
  /\ main \in {"monitor", "tm_initialize"} <=> init = "boot"
  /\ main \in {"tlm_initialize", "modules"} <=> init = "ready"
  /\ main = "start" <=> init = "starting"

FailuresRemembered ==
  /\ "TM" \in module_flags <=> init # "boot" /\ schedule_timer = "none"
  /\ "TLM" \in module_flags => "sem_create" \in Faults
  /\ main \notin {"monitor", "tm_initialize", "tlm_initialize"} =>
       config[FSW_TASK_ID_TLM].type = "PERIODIC"

EventReported ==
  startup_event # NoEvent =>
    /\ main \in {"entry", "check", "delay", "exited"}
    /\ startup_event.id = IF module_flags = {} THEN "INIT_SUCCESS" ELSE "INIT_ERROR"
    /\ startup_event.modules = module_flags
    /\ startup_event.tasks <=> start_result = "OKAY"

ProcessInv ==
  /\ Inv
  /\ NeverWaits
  /\ MainTypeOK
  /\ MainProgress
  /\ FailuresRemembered
  /\ EventReported

\* The invariant holds before main runs.
LEMMA ProcessInvInitially ==
  ASSUME TaskManagerAssumption, ProtoflightAssumption
  PROVE  ProcessInit => ProcessInv
  <1> SUFFICES ASSUME ProcessInit
               PROVE  ProcessInv
    OBVIOUS
  <1>1. Inv /\ NeverWaits
    BY InitInv, NeverWaitsInitially DEF ProcessInit
  <1> QED
    BY <1>1 DEF ProcessInit, Init, ProcessInv, MainTypeOK, MainProgress,
                FailuresRemembered, EventReported, NoEvent

\* The telemetry task's call of tm_running takes nothing from a semaphore.
LEMMA InvTelemetryCalls ==
  ASSUME ProtoflightAssumption, Inv, NeverWaits, TelemetryCallsTmRunning
  PROVE  Inv'
  <1> DEFINE t == FSW_TASK_ID_TLM
  <1>1. t \in ClientIds /\ t \in TaskIds
    BY DEF ProtoflightAssumption, ClientIds
  <1>2. /\ worker[t] = "entry"
        /\ worker' = [worker EXCEPT ![t] = "check"]
        /\ UNCHANGED <<config, ticks, semaphore, schedule_semaphore, schedule_timer,
                       continue_running, tasks_scheduled, tasks_missed_heartbeat,
                       init, to_spawn, start_result, scheduler, todo>>
    BY DEF TelemetryCallsTmRunning, TmRunningBlocks, AwaitsRelease, NeverWaits
  <1>3. TypeOK'
    BY <1>1, <1>2 DEF Inv, TypeOK
  <1>4. /\ worker'[t] = "check"
        /\ \A u \in TaskIds \ {t} : worker'[u] = worker[u]
    BY <1>1, <1>2 DEF Inv, TypeOK
  <1>5. DrainProgress'
    BY <1>1, <1>2, <1>4 DEF Inv, DrainProgress, Periodic, ClientIds
  <1>6. \A u \in TaskIds : Spawned(u)' <=> Spawned(u)
    BY <1>1, <1>2, <1>4 DEF Spawned
  <1> QED
    BY <1>2, <1>3, <1>5, <1>6, UnchangedParts, UnchangedThreads DEF Inv

\* Every step of the process keeps the invariant.
LEMMA InvProcessStep ==
  ASSUME TaskManagerAssumption, ProtoflightAssumption, Inv, NeverWaits,
         [ProcessNext]_processVars
  PROVE  Inv'
  BY ProcessStep, InvStep, InvTelemetryCalls

\* What main knows and has reported, step by step of main.
LEMMA MainStep ==
  ASSUME ProtoflightAssumption, ProcessInv, MainStarts \/ MainLoops
  PROVE  MainTypeOK' /\ MainProgress' /\ FailuresRemembered' /\ EventReported'
  <1> USE DEF ProcessInv, MainTypeOK, MainProgress, FailuresRemembered,
              EventReported, MainGoto
  <1>1. CASE MainMonitorsItself
    BY <1>1 DEF MainMonitorsItself, TmMonitorTask, Register
  <1>2. CASE MainInitializesTm
    BY <1>2 DEF MainInitializesTm, TmInitialize
  <1>3. CASE TlmInitialize
    <2>1. config'[FSW_TASK_ID_TLM].type = "PERIODIC"
      BY <1>3 DEF TlmInitialize, TmPeriodicTask, Register, Config, NeverWaits,
                  ProtoflightAssumption, ClientIds
    <2> QED
      BY <1>3, <2>1 DEF TlmInitialize, TmPeriodicTask, Register
  <1>4. CASE MainCallsTmStart
    BY <1>4 DEF MainCallsTmStart, TmStart
  <1>5. CASE MainInTmStart
    <2>1. CASE \E t \in TaskIds : TmStartTask(t) /\ UNCHANGED main
      BY <1>5, <2>1 DEF MainInTmStart, TmStartTask
    <2>2. CASE TmStartTimer /\ main' = "event"
      BY <1>5, <2>2 DEF MainInTmStart, TmStartTimer, Inv, TypeOK
    <2> QED
      BY <1>5, <2>1, <2>2 DEF MainInTmStart
  <1>6. CASE MainReportsStartup
    BY <1>6, Zenon DEF MainReportsStartup, tmVars, StartupEvents
  <1>7. CASE MainLoops
    BY <1>7 DEF MainLoops, MainCallsTmRunning, MainReadsRunning, MainDelays, tmVars
  <1> QED
    BY <1>1, <1>2, <1>3, <1>4, <1>5, <1>6, <1>7 DEF MainStarts

\* The applications leave the entry of the telemetry task alone, and nobody
\* touches what main keeps.
LEMMA OtherStep ==
  ASSUME ProtoflightAssumption, ProcessInv, [ProcessNext]_processVars,
         ~(MainStarts \/ MainLoops)
  PROVE  MainTypeOK' /\ MainProgress' /\ FailuresRemembered' /\ EventReported'
  <1> USE DEF ProcessInv, MainTypeOK, MainProgress, FailuresRemembered,
              EventReported, mainVars
  <1>1. CASE \E t \in AppIds : AppRegisters(t)
    <2>1. PICK t \in AppIds : AppRegisters(t)
      BY <1>1
    <2>2. /\ config'[FSW_TASK_ID_TLM] = config[FSW_TASK_ID_TLM]
          /\ UNCHANGED <<mainVars, init, schedule_timer, start_result>>
      BY <2>1 DEF AppRegisters, TmPeriodicTask, TmEventTask, Register, NeverWaits,
                  ProtoflightAssumption, ClientIds
    <2> QED
      BY <2>2
  <1>2. CASE UNCHANGED <<mainVars, config, init, schedule_timer, start_result>>
    BY <1>2
  <1>3. CASE (TimerExpires \/ Scheduler \/ TmStop) /\ UNCHANGED mainVars
    BY <1>2, <1>3 DEF TimerExpires, Scheduler, SchedulerLoop, SchedulerTake,
                      SchedulerSlot, SchedulerDrain, TmStop
  <1>4. CASE (TlmTelemetryTask \/ \E t \in AppIds : Worker(t)) /\ UNCHANGED mainVars
    BY <1>2, <1>4 DEF TlmTelemetryTask, TelemetryCallsTmRunning, TelemetryReports,
                      Worker, TmRunningWait, TmRunningBlocks, TmRunningReturn, TaskBody
  <1>5. CASE UNCHANGED processVars
    BY <1>2, <1>5 DEF processVars, tmVars
  <1> QED
    BY <1>1, <1>3, <1>4, <1>5, Zenon DEF ProcessNext

(***************************************************************************)
(* The properties of the process.                                          *)
(***************************************************************************)

\* The inductive invariant of the process holds in every behaviour.
THEOREM ProcessInvInvariant == ProcessSpec => []ProcessInv
  <1>1. ProcessInit => ProcessInv
    BY TaskManagerAssumption, ProtoflightAssumption, ProcessInvInitially
  <1>2. ASSUME ProcessInv, [ProcessNext]_processVars
        PROVE  ProcessInv'
    <2>1. Inv' /\ NeverWaits'
      BY <1>2, TaskManagerAssumption, ProtoflightAssumption, InvProcessStep,
         NeverWaitsStep DEF ProcessInv
    <2>2. MainTypeOK' /\ MainProgress' /\ FailuresRemembered' /\ EventReported'
      BY <1>2, ProtoflightAssumption, MainStep, OtherStep
    <2> QED
      BY <2>1, <2>2 DEF ProcessInv
  <1> QED
    BY <1>1, <1>2, PTL DEF ProcessSpec

\* What main keeps has its type, with any applications and any faults.
THEOREM MainTypes == ProcessSpec => []MainTypeOK
  <1>1. ProcessInv => MainTypeOK
    BY DEF ProcessInv
  <1> QED
    BY <1>1, ProcessInvInvariant, PTL

\* The startup event tells the truth about modules, timer and threads, with any
\* applications and any faults.
THEOREM StartupEventTruth == ProcessSpec => []StartupEventIsTrue
  <1>1. ProcessInv => StartupEventIsTrue
    <2> SUFFICES ASSUME ProcessInv, startup_event # NoEvent
                 PROVE  StartupEventIsTrue
      BY DEF StartupEventIsTrue
    <2>1. init = "started"
      BY DEF ProcessInv, EventReported, MainProgress, MainTypeOK, Inv, TypeOK
    <2>2. StartResultIsTrue /\ TimerResult
      BY InvStartResult DEF ProcessInv, Inv
    <2>3. CASE startup_event.id = "INIT_SUCCESS" /\ startup_event.tasks
      <3>1. start_result = "OKAY"
        BY <2>3 DEF ProcessInv, EventReported
      <3>2. HasThread(FSW_TASK_ID_TLM)
        BY DEF ProcessInv, EventReported, FailuresRemembered, HasThread
      <3> QED
        BY <2>1, <2>2, <2>3, <3>1, <3>2
        DEF StartupEventIsTrue, StartResultIsTrue, TimerResult
    <2>4. CASE startup_event.id = "INIT_ERROR"
      <3>1. startup_event.modules # {} /\ startup_event.modules \subseteq {"TM", "TLM"}
        BY <2>4 DEF ProcessInv, EventReported, MainTypeOK
      <3> QED
        BY <2>4, <3>1
        DEF ProcessInv, EventReported, FailuresRemembered, StartupEventIsTrue
    <2> QED
      BY <2>3, <2>4 DEF StartupEventIsTrue
  <1> QED
    BY <1>1, ProcessInvInvariant, PTL

\* In the process, too, no periodic task is left blocked when the scheduler has
\* ended, and tm_start tells main truly what happened to the timer and to the
\* threads.
THEOREM ProcessKeepsTaskManager ==
  ProcessSpec => [](ShutdownUnblocks /\ StartResultIsTrue)
  <1>1. ProcessInv => ShutdownUnblocks
    BY InvShutdownUnblocks DEF ProcessInv
  <1>2. ProcessInv => StartResultIsTrue
    BY InvStartResult DEF ProcessInv
  <1> QED
    BY <1>1, <1>2, ProcessInvInvariant, PTL
================================================================================
