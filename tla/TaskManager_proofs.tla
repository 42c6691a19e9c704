-------------------------- MODULE TaskManager_proofs --------------------------
(***************************************************************************)
(* Proofs about the Task Manager for any set of tasks, any configuration,  *)
(* any set of faults and any bound of its semaphores and tick counters.    *)
(***************************************************************************)
EXTENDS TaskManager, TLAPS

(***************************************************************************)
(* The inductive invariant, in named parts.                                *)
(***************************************************************************)

\* Until tm_start no thread exists and nothing has happened to the status.
BeforeStart ==
  init \in {"boot", "ready"} =>
    /\ \A t \in TaskIds : ~Spawned(t)
    /\ start_result = "OKAY"
    /\ tasks_missed_heartbeat = {}

\* Progress of tm_start: what is still to spawn has no thread, and the timer
\* is armed by its last step only.
StartProgress ==
  /\ init = "starting" => \A t \in to_spawn : ~Spawned(t)
  /\ init # "started" => schedule_timer # "armed" /\ start_result # "TIMER_ERROR"
  /\ init = "started" => to_spawn = {}

\* Only periodic and event entries that os_task_spawn accepts get a thread.
SpawnedShouldRun == \A t \in TaskIds : Spawned(t) => ShouldRun(t)

\* What the value tm_start is about to return says of the entries it passed.
ResultSoFar ==
  init \in {"starting", "started"} =>
    /\ start_result = "OKAY" =>
         \A t \in TaskIds \ to_spawn : HasThread(t) =>
           config[t].spawnable /\ (Spawned(t) \/ "thread_create" \in Faults)
    /\ start_result = "TASK_SPAWN_ERROR" =>
         \E t \in TaskIds \ to_spawn : HasThread(t) /\ ~config[t].spawnable

TimerResult ==
  init = "started" => ((start_result = "TIMER_ERROR") <=> (schedule_timer # "armed"))

\* The last loop of the scheduler runs after tm_stop, and what it has given to
\* a task stays in the semaphore until the task has passed it for the last time.
DrainProgress ==
  /\ scheduler \in {"drain", "done"} => ~continue_running
  /\ scheduler = "done" => todo = {}
  /\ scheduler \in {"drain", "done"} =>
       \A t \in ClientIds :
         Periodic(t) /\ t \notin todo =>
           semaphore[t] > 0 \/ worker[t] \in {"check", "exited"}

\* The ticks of a periodic entry stay below its period.
TicksBelowPeriod ==
  \A t \in TaskIds : Periodic(t) => ticks[t] < config[t].schedule_period

Inv ==
  /\ TypeOK
  /\ BeforeStart
  /\ StartProgress
  /\ SpawnedShouldRun
  /\ ResultSoFar
  /\ TimerResult
  /\ DrainProgress
  /\ TicksBelowPeriod

(***************************************************************************)
(* Arithmetic and typing.                                                  *)
(***************************************************************************)

\* A wrapping counter stays below its modulus, and does not wrap before it.
LEMMA ModuloBelow ==
  ASSUME NEW m \in Nat \ {0}, NEW x \in Nat
  PROVE  x % m \in 0 .. m - 1 /\ (x < m => x % m = x)
  BY SMT

\* A give keeps a count within the bounds of a semaphore and above zero.
LEMMA GivenCount ==
  ASSUME TaskManagerAssumption, NEW c \in 0 .. SemValueMax
  PROVE  Given(c) \in 1 .. SemValueMax /\ Given(c) >= c
  BY DEF Given, TaskManagerAssumption

\* The ticks of an entry after a slot are a tick count again.
LEMMA UpdatedTicksType ==
  ASSUME TaskManagerAssumption, TypeOK, NEW t \in TaskIds
  PROVE  UpdatedTicks(t) \in 0 .. TickModulus - 1
  <1>1. TickModulus \in Nat \ {0} /\ ticks[t] + 1 \in Nat
    BY DEF TypeOK, TaskManagerAssumption, TM_SCHEDULER_PERIOD
  <1>2. Ticked(t) \in 0 .. TickModulus - 1
    BY <1>1, ModuloBelow DEF Ticked
  <1> QED
    BY <1>1, <1>2 DEF UpdatedTicks

\* The configurations that registration writes.
LEMMA ConfigType ==
  ASSUME TaskManagerAssumption,
         NEW type \in TaskTypes, NEW s \in BOOLEAN,
         NEW p \in 0 .. TickModulus - 1, NEW h \in 0 .. TickModulus - 1
  PROVE  Config(type, p, h, s) \in TaskConfig
  BY DEF Config, TaskConfig

\* Both entries that tm_initialize writes are configurations.
LEMMA InitialConfigType ==
  ASSUME TaskManagerAssumption
  PROVE  Unregistered \in TaskConfig /\ SchedulerConfig \in TaskConfig
  <1>1. /\ 0 \in 0 .. TickModulus - 1
        /\ TM_SCHEDULER_PERIOD \in 0 .. TickModulus - 1
    BY DEF TaskManagerAssumption, TM_SCHEDULER_PERIOD
  <1>2. "INVALID" \in TaskTypes /\ "PERIODIC" \in TaskTypes
    BY DEF TaskTypes
  <1> QED
    BY <1>1, <1>2, ConfigType DEF Unregistered, SchedulerConfig

\* The state before main runs has its types.
LEMMA InitType ==
  ASSUME TaskManagerAssumption
  PROVE  Init => TypeOK
  <1>1. 0 \in 0 .. TickModulus - 1 /\ 0 \in 0 .. SemValueMax
    BY DEF TaskManagerAssumption, TM_SCHEDULER_PERIOD
  <1> QED
    BY <1>1, InitialConfigType DEF Init, TypeOK

\* What a step of registration does, whichever of the four functions it is.
LEMMA RegistrationStep ==
  ASSUME TaskManagerAssumption, TypeOK, Registration
  PROVE  \E t \in ClientIds, c \in TaskConfig :
           /\ Register(t, c)
           /\ semaphore' \in {semaphore, [semaphore EXCEPT ![t] = 0]}
           /\ c.type = "PERIODIC" => c.schedule_period # 0
  <1>1. /\ 0 \in 0 .. TickModulus - 1
        /\ Periods \subseteq 0 .. TickModulus - 1
        /\ Heartbeats \subseteq 0 .. TickModulus - 1
        /\ Spawnable \subseteq BOOLEAN
    BY DEF TaskManagerAssumption, TM_SCHEDULER_PERIOD
  <1>2. {"PERIODIC", "EVENT", "CALLBACK", "MONITOR"} \subseteq TaskTypes
    BY DEF TaskTypes
  <1>3. PICK t \in ClientIds :
          \/ \E p \in Periods, h \in Heartbeats, s \in Spawnable :
               TmPeriodicTask(t, p, h, s)
          \/ \E h \in Heartbeats, s \in Spawnable : TmEventTask(t, h, s)
          \/ \E p \in Periods : TmCallbackTask(t, p)
          \/ TmMonitorTask(t)
    BY DEF Registration
  <1>4. CASE \E p \in Periods, h \in Heartbeats, s \in Spawnable :
               TmPeriodicTask(t, p, h, s)
    <2>1. PICK p \in Periods, h \in Heartbeats, s \in Spawnable :
            TmPeriodicTask(t, p, h, s)
      BY <1>4
    <2>2. Config("PERIODIC", p, h, s) \in TaskConfig
      BY <1>1, <1>2, ConfigType
    <2> QED
      BY <2>1, <2>2 DEF TmPeriodicTask, Config
  <1>5. CASE \E h \in Heartbeats, s \in Spawnable : TmEventTask(t, h, s)
    <2>1. PICK h \in Heartbeats, s \in Spawnable : TmEventTask(t, h, s)
      BY <1>5
    <2>2. Config("EVENT", 0, h, s) \in TaskConfig
      BY <1>1, <1>2, ConfigType
    <2> QED
      BY <2>1, <2>2 DEF TmEventTask, Config
  <1>6. CASE \E p \in Periods : TmCallbackTask(t, p)
    <2>1. PICK p \in Periods : TmCallbackTask(t, p)
      BY <1>6
    <2>2. Config("CALLBACK", p, 0, FALSE) \in TaskConfig
      BY <1>1, <1>2, ConfigType
    <2> QED
      BY <2>1, <2>2 DEF TmCallbackTask, Config
  <1>7. CASE TmMonitorTask(t)
    <2>1. Config("MONITOR", 0, 0, FALSE) \in TaskConfig
      BY <1>1, <1>2, ConfigType
    <2> QED
      BY <1>7, <2>1 DEF TmMonitorTask, Config
  <1> QED
    BY <1>3, <1>4, <1>5, <1>6, <1>7

\* Typing is kept by every step.
LEMMA TypeStep ==
  ASSUME TaskManagerAssumption, TypeOK, [Next]_tmVars
  PROVE  TypeOK'
  <1> USE DEF TypeOK
  <1>a. /\ SchedulerId \in TaskIds /\ ClientIds \subseteq TaskIds
        /\ 0 \in 0 .. TickModulus - 1 /\ 0 \in 0 .. SemValueMax
    BY DEF TaskManagerAssumption, TM_SCHEDULER_PERIOD, ClientIds
  <1>1. CASE TmInitialize
    BY <1>1, <1>a, InitialConfigType DEF TmInitialize
  <1>2. CASE Registration
    <2>1. PICK t \in ClientIds, c \in TaskConfig :
            /\ Register(t, c)
            /\ semaphore' \in {semaphore, [semaphore EXCEPT ![t] = 0]}
      BY <1>2, RegistrationStep
    <2> QED
      BY <2>1, <1>a DEF Register
  <1>3. CASE TmStart
    BY <1>3 DEF TmStart
  <1>4. ASSUME NEW t \in TaskIds, TmStartTask(t) PROVE TypeOK'
    BY <1>4 DEF TmStartTask, OsTaskSpawn
  <1>5. CASE TmStartTimer
    BY <1>5 DEF TmStartTimer
  <1>6. CASE TimerExpires
    BY <1>6, GivenCount DEF TimerExpires
  <1>7. CASE SchedulerLoop
    BY <1>7 DEF SchedulerLoop
  <1>8. CASE SchedulerTake
    <2>1. SemValueMax \in Nat
      BY DEF TaskManagerAssumption
    <2>2. schedule_semaphore' \in 0 .. SemValueMax
      BY <1>8, <2>1 DEF SchedulerTake
    <2> QED
      BY <1>8, <2>2 DEF SchedulerTake
  <1>9. ASSUME NEW t \in TaskIds, SchedulerSlot(t) PROVE TypeOK'
    <2>1. /\ ticks' \in [TaskIds -> 0 .. TickModulus - 1]
          /\ semaphore' \in [TaskIds -> 0 .. SemValueMax]
      <3>1. UpdatedTicks(t) \in 0 .. TickModulus - 1
        BY UpdatedTicksType
      <3>2. Given(semaphore[t]) \in 0 .. SemValueMax
        BY GivenCount
      <3> QED
        BY <1>9, <3>1, <3>2 DEF SchedulerSlot
    <2>2. BitOf(t) \subseteq IntBits
      BY DEF BitOf
    <2> QED
      BY <1>9, <2>1, <2>2 DEF SchedulerSlot
  <1>10. ASSUME NEW t \in TaskIds, SchedulerDrain(t) PROVE TypeOK'
    <2>1. Given(semaphore[t]) \in 0 .. SemValueMax
      BY GivenCount
    <2> QED
      BY <1>10, <2>1 DEF SchedulerDrain
  <1>11. ASSUME NEW t \in ClientIds, TmRunningWait(t) PROVE TypeOK'
    BY <1>11, <1>a DEF TmRunningWait, TmRunningBlocks, AwaitsRelease
  <1>12. ASSUME NEW t \in ClientIds, TmRunningReturn(t) PROVE TypeOK'
    BY <1>12, <1>a DEF TmRunningReturn
  <1>13. ASSUME NEW t \in ClientIds, TaskBody(t) PROVE TypeOK'
    BY <1>13, <1>a DEF TaskBody
  <1>14. CASE TmStop
    BY <1>14 DEF TmStop
  <1>15. CASE UNCHANGED tmVars
    BY <1>15 DEF tmVars
  <1> QED
    BY <1>1, <1>2, <1>3, <1>4, <1>5, <1>6, <1>7, <1>8, <1>9, <1>10, <1>11,
       <1>12, <1>13, <1>14, <1>15
       DEF Next, Start, Scheduler, Worker

\* Every variable of the Task Manager keeps to its range in every behaviour:
\* counts within a semaphore, ticks within their counter, bits within the int.
THEOREM TypeCorrect == Spec => []TypeOK
  <1>1. Init => TypeOK
    BY TaskManagerAssumption, InitType
  <1>2. TypeOK /\ [Next]_tmVars => TypeOK'
    BY TaskManagerAssumption, TypeStep
  <1> QED
    BY <1>1, <1>2, PTL DEF Spec

(***************************************************************************)
(* The inductive invariant.                                                *)
(***************************************************************************)

\* The invariant holds before main runs.
LEMMA InitInv ==
  ASSUME TaskManagerAssumption, Init
  PROVE  Inv
  <1>1. TypeOK
    BY InitType
  <1>2. TicksBelowPeriod
    BY DEF Init, TicksBelowPeriod, Periodic, Unregistered, Config
  <1> QED
    BY <1>1, <1>2
       DEF Init, Inv, BeforeStart, StartProgress, SpawnedShouldRun, ResultSoFar,
           TimerResult, DrainProgress, Spawned

\* The parts but typing that a step keeps because it changes none of the
\* variables they are about.
LEMMA UnchangedParts ==
  ASSUME Inv, UNCHANGED <<config, init, to_spawn>>
  PROVE  /\ UNCHANGED <<ticks>> => TicksBelowPeriod'
         /\ UNCHANGED <<schedule_timer, start_result>> =>
              TimerResult' /\ (init # "started" =>
                schedule_timer' # "armed" /\ start_result' # "TIMER_ERROR")
         /\ UNCHANGED <<scheduler, todo, continue_running, semaphore, worker>> =>
              DrainProgress'
  <1>1. UNCHANGED <<ticks>> => TicksBelowPeriod'
    BY DEF Inv, TicksBelowPeriod, Periodic
  <1>2. UNCHANGED <<schedule_timer, start_result>> =>
          TimerResult' /\ (init # "started" =>
            schedule_timer' # "armed" /\ start_result' # "TIMER_ERROR")
    BY DEF Inv, TimerResult, StartProgress
  <1>3. UNCHANGED <<scheduler, todo, continue_running, semaphore, worker>> =>
          DrainProgress'
    BY DEF Inv, DrainProgress, Periodic
  <1> QED
    BY <1>1, <1>2, <1>3

\* The parts about threads and about the result of tm_start hold after a step
\* that spawns nothing and leaves tm_start where it is.
LEMMA UnchangedThreads ==
  ASSUME Inv,
         UNCHANGED <<config, init, to_spawn, start_result, schedule_timer>>,
         \A t \in TaskIds : Spawned(t)' <=> Spawned(t),
         init \in {"boot", "ready"} =>
           tasks_missed_heartbeat' = tasks_missed_heartbeat
  PROVE  /\ BeforeStart' /\ StartProgress' /\ SpawnedShouldRun'
         /\ ResultSoFar' /\ TimerResult'
  <1>1. BeforeStart'
    BY DEF Inv, BeforeStart
  <1>2. StartProgress'
    BY DEF Inv, StartProgress, TypeOK
  <1>3. SpawnedShouldRun'
    BY DEF Inv, SpawnedShouldRun, ShouldRun, HasThread
  <1>4. ResultSoFar'
    BY DEF Inv, ResultSoFar, HasThread
  <1>5. TimerResult'
    BY DEF Inv, TimerResult
  <1> QED
    BY <1>1, <1>2, <1>3, <1>4, <1>5

\* Steps of the thread that initializes and starts the system.
LEMMA InvInitialize ==
  ASSUME TaskManagerAssumption, Inv, TmInitialize, TypeOK'
  PROVE  Inv'
  <1>1. \A t \in TaskIds : ~Spawned(t)'
    BY DEF Inv, BeforeStart, TmInitialize, Spawned
  <1>2. TicksBelowPeriod'
    BY DEF TmInitialize, TicksBelowPeriod, Periodic, SchedulerConfig,
           Unregistered, Config, TM_SCHEDULER_PERIOD
  <1>3. BeforeStart' /\ StartProgress' /\ ResultSoFar' /\ TimerResult'
    BY <1>1 DEF Inv, BeforeStart, StartProgress, ResultSoFar, TimerResult, TmInitialize
  <1>4. SchedulerId \in TaskIds /\ scheduler' = "unspawned"
    BY DEF Inv, BeforeStart, Spawned, TmInitialize, TaskManagerAssumption
  <1>5. DrainProgress'
    BY <1>4 DEF DrainProgress
  <1>6. SpawnedShouldRun'
    BY <1>1 DEF SpawnedShouldRun, TmInitialize
  <1> QED
    BY <1>2, <1>3, <1>5, <1>6 DEF Inv

\* A registration changes one entry before any thread exists.
LEMMA InvRegistration ==
  ASSUME TaskManagerAssumption, Inv, Registration, TypeOK'
  PROVE  Inv'
  <1>1. PICK t \in ClientIds, c \in TaskConfig :
          /\ Register(t, c)
          /\ c.type = "PERIODIC" => c.schedule_period # 0
    BY RegistrationStep DEF Inv
  <1>2. \A u \in TaskIds : ~Spawned(u) /\ ~Spawned(u)'
    BY <1>1 DEF Inv, BeforeStart, Register, Spawned
  <1>3. /\ scheduler' = "unspawned" /\ tasks_missed_heartbeat' = {}
        /\ init' \in {"boot", "ready"} /\ start_result' = "OKAY"
        /\ schedule_timer' # "armed"
    BY <1>1, <1>2 DEF Inv, BeforeStart, StartProgress, Register, Spawned,
                      TaskManagerAssumption
  <1>4. TicksBelowPeriod'
    <2>1. c.type = "PERIODIC" => 0 < c.schedule_period
      BY <1>1 DEF TaskConfig, TaskManagerAssumption
    <2>2. t \in TaskIds /\ config \in [TaskIds -> TaskConfig]
          /\ ticks \in [TaskIds -> 0 .. TickModulus - 1]
      BY DEF ClientIds, Inv, TypeOK
    <2> QED
      BY <1>1, <2>1, <2>2 DEF Register, Inv, TicksBelowPeriod, Periodic
  <1>5. DrainProgress' /\ SpawnedShouldRun'
    BY <1>2, <1>3 DEF DrainProgress, SpawnedShouldRun
  <1>6. BeforeStart' /\ StartProgress' /\ ResultSoFar' /\ TimerResult'
    BY <1>2, <1>3 DEF BeforeStart, StartProgress, ResultSoFar, TimerResult
  <1> QED
    BY <1>4, <1>5, <1>6 DEF Inv

\* tm_start begins with every entry still to spawn.
LEMMA InvStart ==
  ASSUME TaskManagerAssumption, Inv, TmStart, TypeOK'
  PROVE  Inv'
  <1>1. \A t \in TaskIds : ~Spawned(t) /\ ~Spawned(t)'
    BY DEF Inv, BeforeStart, TmStart, Spawned
  <1>2. BeforeStart' /\ StartProgress' /\ ResultSoFar' /\ TimerResult'
    BY <1>1 DEF Inv, BeforeStart, StartProgress, ResultSoFar, TimerResult, TmStart
  <1>3. SpawnedShouldRun' /\ TicksBelowPeriod'
    BY <1>1 DEF Inv, SpawnedShouldRun,
                TicksBelowPeriod, Periodic, TmStart
  <1>4. DrainProgress'
    BY DEF Inv, DrainProgress, Periodic, TmStart
  <1> QED
    BY <1>2, <1>3, <1>4 DEF Inv

\* tm_start passes one entry, which gets its thread or does not.
LEMMA InvStartTask ==
  ASSUME TaskManagerAssumption, Inv, TypeOK',
         NEW t \in TaskIds, TmStartTask(t)
  PROVE  Inv'
  <1>1. /\ t \in to_spawn /\ to_spawn' = to_spawn \ {t}
        /\ init = "starting" /\ init' = "starting"
        /\ UNCHANGED <<config, ticks, semaphore, schedule_timer, todo,
                       continue_running, tasks_missed_heartbeat>>
    BY DEF TmStartTask, IsFirst
  <1>2. /\ ~Spawned(t) /\ (Spawned(t)' => ShouldRun(t))
        /\ ShouldRun(t) => Spawned(t)' \/ "thread_create" \in Faults
    BY <1>1 DEF Inv, TypeOK, StartProgress, TmStartTask, OsTaskSpawn, Spawned,
                ShouldRun
  <1>3. \A u \in TaskIds \ {t} : Spawned(u)' <=> Spawned(u)
    BY DEF Inv, TypeOK, TmStartTask, OsTaskSpawn, Spawned
  <1>4. SpawnedShouldRun'
    BY <1>1, <1>2, <1>3 DEF Inv, SpawnedShouldRun, ShouldRun, HasThread
  <1>5. StartProgress' /\ BeforeStart' /\ TimerResult'
    <2>1. \A u \in to_spawn' : ~Spawned(u)'
      BY <1>1, <1>3 DEF Inv, TypeOK, StartProgress
    <2>2. schedule_timer' # "armed" /\ start_result' # "TIMER_ERROR"
      BY <1>1 DEF Inv, StartProgress, TmStartTask
    <2> QED
      BY <1>1, <2>1, <2>2 DEF StartProgress, BeforeStart, TimerResult
  <1>6. ResultSoFar'
    <2>1. CASE ShouldRun(t) \/ ~HasThread(t)
      <3>1. start_result' = start_result
        BY <2>1 DEF TmStartTask, ShouldRun
      <3>2. HasThread(t)' =>
              config'[t].spawnable /\ (Spawned(t)' \/ "thread_create" \in Faults)
        BY <1>1, <1>2, <2>1 DEF HasThread, ShouldRun
      <3> QED
        BY <1>1, <1>3, <3>1, <3>2 DEF Inv, ResultSoFar, HasThread
    <2>2. CASE HasThread(t) /\ ~config[t].spawnable
      <3>1. start_result' = "TASK_SPAWN_ERROR"
        BY <2>2 DEF TmStartTask
      <3> QED
        BY <1>1, <2>2, <3>1 DEF ResultSoFar, HasThread
    <2> QED
      BY <2>1, <2>2 DEF ShouldRun
  <1>7. DrainProgress'
    <2>1. CASE scheduler' = "loop"
      BY <2>1 DEF DrainProgress
    <2>2. CASE worker' = [worker EXCEPT ![t] = "entry"] /\ UNCHANGED scheduler
      <3>1. t # SchedulerId => worker[t] = "unspawned"
        BY <1>2 DEF Spawned
      <3> QED
        BY <1>1, <2>2, <3>1 DEF Inv, TypeOK, DrainProgress, Periodic, ClientIds
    <2>3. CASE UNCHANGED <<scheduler, worker>>
      BY <1>1, <2>3 DEF Inv, DrainProgress, Periodic
    <2> QED
      BY <2>1, <2>2, <2>3 DEF TmStartTask, OsTaskSpawn
  <1>8. TicksBelowPeriod'
    BY <1>1 DEF Inv, TicksBelowPeriod, Periodic
  <1> QED
    BY <1>4, <1>5, <1>6, <1>7, <1>8 DEF Inv

\* tm_start ends with the timer armed or with an error.
LEMMA InvStartTimer ==
  ASSUME TaskManagerAssumption, Inv, TmStartTimer, TypeOK'
  PROVE  Inv'
  <1>1. \A t \in TaskIds : Spawned(t)' <=> Spawned(t)
    BY DEF TmStartTimer, Spawned
  <1>2. StartProgress' /\ BeforeStart' /\ TimerResult'
    BY DEF Inv, StartProgress, BeforeStart, TimerResult, TmStartTimer
  <1>3. SpawnedShouldRun'
    BY <1>1 DEF Inv, SpawnedShouldRun, ShouldRun, HasThread, TmStartTimer
  <1>4. ResultSoFar'
    BY <1>1 DEF Inv, ResultSoFar, HasThread, TmStartTimer
  <1>5. DrainProgress' /\ TicksBelowPeriod'
    BY DEF Inv, DrainProgress, TicksBelowPeriod,
           Periodic, TmStartTimer
  <1> QED
    BY <1>2, <1>3, <1>4, <1>5 DEF Inv

\* Steps of the timer and of whoever calls tm_stop.
LEMMA InvTimerExpires ==
  ASSUME Inv, TimerExpires, TypeOK'
  PROVE  Inv'
  BY UnchangedParts, UnchangedThreads DEF Inv, TimerExpires, Spawned

\* tm_stop clears continue_running and nothing else.
LEMMA InvStop ==
  ASSUME Inv, TmStop, TypeOK'
  PROVE  Inv'
  <1>1. DrainProgress'
    BY DEF Inv, DrainProgress, Periodic, TmStop
  <1> QED
    BY <1>1, UnchangedParts, UnchangedThreads DEF Inv, TmStop, Spawned

\* Steps of the scheduler.
LEMMA InvSchedulerLoop ==
  ASSUME Inv, SchedulerLoop, TypeOK'
  PROVE  Inv'
  <1>1. DrainProgress'
    BY DEF Inv, DrainProgress, SchedulerLoop, ClientIds
  <1> QED
    BY <1>1, UnchangedParts, UnchangedThreads DEF Inv, SchedulerLoop, Spawned

\* The scheduler takes an expiration, or fails and stops.
LEMMA InvSchedulerTake ==
  ASSUME Inv, SchedulerTake, TypeOK'
  PROVE  Inv'
  <1>1. DrainProgress'
    BY DEF DrainProgress, SchedulerTake
  <1> QED
    BY <1>1, UnchangedParts, UnchangedThreads DEF Inv, SchedulerTake, Spawned

\* A slot: the ticks of a periodic entry stay below its period, so that its
\* heartbeat is missed only if it is shorter.
LEMMA InvSchedulerSlot ==
  ASSUME TaskManagerAssumption, Inv, TypeOK',
         NEW t \in TaskIds, SchedulerSlot(t)
  PROVE  Inv'
  <1>1. Periodic(t) => UpdatedTicks(t) < config[t].schedule_period
    <2>1. /\ config[t] \in TaskConfig /\ ticks[t] \in 0 .. TickModulus - 1
          /\ TickModulus \in Nat \ {0}
      BY DEF Inv, TypeOK, TaskManagerAssumption, TM_SCHEDULER_PERIOD
    <2>2. ASSUME Periodic(t)
          PROVE  ticks[t] + 1 <= config[t].schedule_period /\ ticks[t] + 1 < TickModulus
      BY <2>1, <2>2 DEF Inv, TicksBelowPeriod, TaskConfig
    <2>3. Periodic(t) => Ticked(t) = ticks[t] + 1
      <3>1. ticks[t] + 1 \in Nat
        BY <2>1
      <3>2. ticks[t] + 1 < TickModulus => (ticks[t] + 1) % TickModulus = ticks[t] + 1
        BY <2>1, <3>1, ModuloBelow
      <3> QED
        BY <2>2, <3>2 DEF Ticked
    <2>4. CASE IsDue(t)
      BY <2>1, <2>2, <2>4 DEF UpdatedTicks, TaskConfig
    <2>5. CASE ~IsDue(t)
      BY <2>1, <2>2, <2>3, <2>5 DEF UpdatedTicks, IsDue, Periodic, TaskConfig
    <2> QED
      BY <2>4, <2>5
  <1>2. TicksBelowPeriod'
    BY <1>1 DEF SchedulerSlot, Inv, TypeOK, TicksBelowPeriod, Periodic
  <1>3. DrainProgress'
    BY DEF DrainProgress, SchedulerSlot
  <1>4. /\ \A u \in TaskIds : Spawned(u)' <=> Spawned(u)
        /\ init \notin {"boot", "ready"}
    <2>1. Spawned(SchedulerId) /\ SchedulerId \in TaskIds
      BY DEF SchedulerSlot, Spawned, TaskManagerAssumption
    <2> QED
      BY <2>1 DEF SchedulerSlot, Spawned, Inv, BeforeStart
  <1> QED
    BY <1>2, <1>3, <1>4, UnchangedThreads DEF Inv, SchedulerSlot

\* The scheduler unblocks one entry at shutdown.
LEMMA InvSchedulerDrain ==
  ASSUME TaskManagerAssumption, Inv, TypeOK',
         NEW t \in TaskIds, SchedulerDrain(t)
  PROVE  Inv'
  <1>1. Given(semaphore[t]) > 0
    BY GivenCount DEF Inv, TypeOK
  <1>2. \A u \in TaskIds : semaphore[u] > 0 => semaphore'[u] > 0
    BY <1>1 DEF SchedulerDrain, Inv, TypeOK
  <1>3. DrainProgress'
    <2>1. Periodic(t) => semaphore'[t] > 0
      BY <1>1 DEF SchedulerDrain, Periodic, Inv, TypeOK
    <2> QED
      BY <1>2, <2>1 DEF SchedulerDrain, Inv, DrainProgress, Periodic, ClientIds
  <1> QED
    BY <1>3, UnchangedParts, UnchangedThreads DEF Inv, SchedulerDrain, Spawned

\* Steps of a task.
LEMMA InvRunningWait ==
  ASSUME Inv, TypeOK', NEW t \in ClientIds, TmRunningWait(t)
  PROVE  Inv'
  <1>1. t \in TaskIds /\ worker'[t] = "check"
    BY DEF TmRunningWait, TmRunningBlocks, AwaitsRelease, ClientIds, Inv, TypeOK
  <1>2. \A u \in TaskIds \ {t} : semaphore'[u] = semaphore[u] /\ worker'[u] = worker[u]
    BY DEF TmRunningWait, TmRunningBlocks, AwaitsRelease, Inv, TypeOK
  <1>3. DrainProgress'
    BY <1>1, <1>2 DEF TmRunningWait, TmRunningBlocks, AwaitsRelease, Inv, DrainProgress, Periodic, ClientIds
  <1>4. \A u \in TaskIds : Spawned(u)' <=> Spawned(u)
    BY <1>1, <1>2 DEF TmRunningWait, TmRunningBlocks, AwaitsRelease, Spawned
  <1> QED
    BY <1>3, <1>4, UnchangedParts, UnchangedThreads DEF Inv, TmRunningWait, TmRunningBlocks, AwaitsRelease

\* A task reads continue_running and goes on or exits.
LEMMA InvRunningReturn ==
  ASSUME Inv, TypeOK', NEW t \in ClientIds, TmRunningReturn(t)
  PROVE  Inv'
  <1>1. /\ t \in TaskIds /\ worker[t] = "check"
        /\ worker'[t] = IF continue_running THEN "running" ELSE "exited"
    BY DEF TmRunningReturn, ClientIds, Inv, TypeOK
  <1>2. \A u \in TaskIds \ {t} : worker'[u] = worker[u]
    BY DEF TmRunningReturn, Inv, TypeOK
  <1>3. DrainProgress'
    BY <1>1, <1>2 DEF TmRunningReturn, Inv, DrainProgress, Periodic, ClientIds
  <1>4. \A u \in TaskIds : Spawned(u)' <=> Spawned(u)
    BY <1>1, <1>2 DEF TmRunningReturn, Spawned
  <1> QED
    BY <1>3, <1>4, UnchangedParts, UnchangedThreads DEF Inv, TmRunningReturn

\* A task returns to tm_running.
LEMMA InvTaskBody ==
  ASSUME Inv, TypeOK', NEW t \in ClientIds, TaskBody(t)
  PROVE  Inv'
  <1>1. t \in TaskIds /\ worker[t] = "running" /\ worker'[t] = "entry"
    BY DEF TaskBody, ClientIds, Inv, TypeOK
  <1>2. \A u \in TaskIds \ {t} : worker'[u] = worker[u]
    BY DEF TaskBody, Inv, TypeOK
  <1>3. DrainProgress'
    BY <1>1, <1>2 DEF TaskBody, Inv, DrainProgress, Periodic, ClientIds
  <1>4. \A u \in TaskIds : Spawned(u)' <=> Spawned(u)
    BY <1>1, <1>2 DEF TaskBody, Spawned
  <1> QED
    BY <1>3, <1>4, UnchangedParts, UnchangedThreads DEF Inv, TaskBody

\* A step that changes nothing keeps the invariant.
LEMMA InvStutter ==
  ASSUME Inv, UNCHANGED tmVars, TypeOK'
  PROVE  Inv'
  BY UnchangedParts, UnchangedThreads DEF Inv, tmVars, Spawned

\* The invariant is kept by every step.
LEMMA InvStep ==
  ASSUME TaskManagerAssumption, Inv, [Next]_tmVars
  PROVE  Inv'
  <1>1. TypeOK'
    BY TypeStep DEF Inv
  <1> QED
    BY <1>1, InvInitialize, InvRegistration, InvStart, InvStartTask,
       InvStartTimer, InvTimerExpires, InvStop, InvSchedulerLoop,
       InvSchedulerTake, InvSchedulerSlot, InvSchedulerDrain, InvRunningWait,
       InvRunningReturn, InvTaskBody, InvStutter
       DEF Next, Start, Scheduler, Worker

\* The inductive invariant holds in every behaviour.
THEOREM InvInvariant == Spec => []Inv
  <1>1. Init => Inv
    BY TaskManagerAssumption, InitInv
  <1>2. Inv /\ [Next]_tmVars => Inv'
    BY TaskManagerAssumption, InvStep
  <1> QED
    BY <1>1, <1>2, PTL DEF Spec

(***************************************************************************)
(* The properties.                                                         *)
(***************************************************************************)

\* The invariant implies what is claimed of shutdown ...
LEMMA InvShutdownUnblocks == Inv => ShutdownUnblocks
  <1> SUFFICES ASSUME Inv, scheduler = "done",
                      NEW t \in ClientIds, Periodic(t), worker[t] = "entry"
               PROVE  semaphore[t] > 0
    BY DEF ShutdownUnblocks
  <1>1. t \notin todo
    BY DEF Inv, DrainProgress
  <1> QED
    BY <1>1 DEF Inv, DrainProgress

\* ... and of the result of tm_start.
LEMMA InvStartResult == Inv => StartResultIsTrue
  <1> SUFFICES ASSUME Inv, init = "started"
               PROVE  /\ (start_result = "TIMER_ERROR") <=> (schedule_timer # "armed")
                      /\ start_result = "OKAY" =>
                           \A t \in TaskIds : HasThread(t) =>
                             /\ config[t].spawnable
                             /\ Spawned(t) \/ "thread_create" \in Faults
                      /\ start_result = "TASK_SPAWN_ERROR" =>
                           \E t \in TaskIds : HasThread(t) /\ ~Spawned(t)
    BY DEF StartResultIsTrue
  <1>1. TaskIds \ to_spawn = TaskIds
    BY DEF Inv, StartProgress
  <1>2. \A t \in TaskIds : ~config[t].spawnable => ~Spawned(t)
    BY DEF Inv, SpawnedShouldRun, ShouldRun
  <1> QED
    BY <1>1, <1>2 DEF Inv, TimerResult, ResultSoFar

\* When the scheduler has ended, no periodic task is left blocked in
\* tm_running, whatever the tasks and the starting thread did meanwhile and
\* whichever calls failed.
THEOREM ShutdownUnblocksTasks == Spec => []ShutdownUnblocks
  BY InvShutdownUnblocks, InvInvariant, PTL

\* The value of tm_start says what happened to the timer and to the threads.
THEOREM StartResult == Spec => []StartResultIsTrue
  BY InvStartResult, InvInvariant, PTL

================================================================================
