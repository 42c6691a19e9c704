------------------------------ MODULE TaskManager ------------------------------
(***************************************************************************)
(* The Task Manager (fsw/src/tm/tm.c): registration of tasks, start of the *)
(* schedule, the scheduler task that a periodic timer drives, tm_running   *)
(* as the tasks call it, and the orderly shutdown that tm_stop asks for.   *)
(*                                                                         *)
(* Threads: the one that initializes and starts the system ("init"), the   *)
(* scheduler, one worker per spawned task, and the signal handler of the   *)
(* schedule timer.  They share the semaphores and continue_running.        *)
(*                                                                         *)
(* Abstracted: names, function pointers and arguments; stack_size and      *)
(* priority are kept as the one bit os_task_spawn looks at (spawnable);    *)
(* num_tasks and status.cycle are never read by the program.  A call that  *)
(* is rejected (NULL pointer, period 0) changes nothing and is a stuttering*)
(* step.                                                                   *)
(***************************************************************************)
EXTENDS Naturals, FiniteSets

CONSTANTS
  TaskIds,       (* the entries of tasks[] an instance looks at            *)
  SchedulerId,   (* FSW_TASK_ID_TM_SCHEDULER                               *)
  Periods,       (* schedule periods clients register (slots)              *)
  Heartbeats,    (* heartbeat periods clients register (slots)             *)
  Spawnable,     (* may stack_size and priority satisfy os_task_spawn?     *)
  SemValueMax,   (* a semaphore at this count refuses sem_post             *)
  TickModulus,   (* ticks is a uint32_t: it wraps at this value            *)
  Faults         (* the operating system calls that may fail               *)

TM_MAX_TASKS == 100
TM_SCHEDULER_PERIOD == 1

\* tasks_scheduled and tasks_missed_heartbeat are C ints.
IntBits == 0 .. 31

OsFaults == {"sem_create", "timer_create", "timer_start", "thread_create",
             "scheduler_take", "task_take"}

ASSUME TaskManagerAssumption ==
  /\ TaskIds \subseteq 0 .. TM_MAX_TASKS - 1
  /\ IsFiniteSet(TaskIds)
  /\ SchedulerId \in TaskIds
  /\ SemValueMax \in Nat \ {0}
  /\ TickModulus \in Nat /\ TickModulus > TM_SCHEDULER_PERIOD
  /\ Periods \subseteq 0 .. TickModulus - 1
  /\ Heartbeats \subseteq 0 .. TickModulus - 1
  /\ Spawnable \subseteq BOOLEAN
  /\ Faults \subseteq OsFaults

ClientIds == TaskIds \ {SchedulerId}

VARIABLES
  config,                  (* the registered part of each TM_Task          *)
  ticks,                   (* TM_Task.ticks                                *)
  semaphore,               (* TM_Task.semaphore                            *)
  schedule_semaphore,      (* given by the timer, taken by the scheduler   *)
  schedule_timer,          (* "none", "created" or "armed"                 *)
  continue_running,
  tasks_scheduled,         (* set of bits                                  *)
  tasks_missed_heartbeat,  (* set of bits                                  *)
  init,                    (* progress of the initializing thread          *)
  to_spawn,                (* entries tm_start has still to look at        *)
  start_result,            (* the value tm_start is about to return        *)
  scheduler,               (* program counter of tm_scheduler_task         *)
  todo,                    (* entries its current for loop has still to do *)
  worker                   (* program counter of every other task          *)

tmVars == <<config, ticks, semaphore, schedule_semaphore, schedule_timer,
            continue_running, tasks_scheduled, tasks_missed_heartbeat,
            init, to_spawn, start_result, scheduler, todo, worker>>

TaskTypes == {"INVALID", "PERIODIC", "EVENT", "CALLBACK", "MONITOR"}

TaskConfig == [type : TaskTypes,
               schedule_period : 0 .. TickModulus - 1,
               heartbeat_period : 0 .. TickModulus - 1,
               spawnable : BOOLEAN]

TypeOK ==
  /\ config \in [TaskIds -> TaskConfig]
  /\ ticks \in [TaskIds -> 0 .. TickModulus - 1]
  /\ semaphore \in [TaskIds -> 0 .. SemValueMax]
  /\ schedule_semaphore \in 0 .. SemValueMax
  /\ schedule_timer \in {"none", "created", "armed"}
  /\ continue_running \in BOOLEAN
  /\ tasks_scheduled \subseteq IntBits
  /\ tasks_missed_heartbeat \subseteq IntBits
  /\ init \in {"boot", "ready", "starting", "started"}
  /\ to_spawn \subseteq TaskIds
  /\ start_result \in {"OKAY", "TASK_SPAWN_ERROR", "TIMER_ERROR"}
  /\ scheduler \in {"unspawned", "loop", "take", "slot", "drain", "done"}
  /\ todo \subseteq TaskIds
  /\ worker \in [TaskIds -> {"unspawned", "entry", "check", "running", "exited"}]

(***************************************************************************)
(* Registration.                                                           *)
(***************************************************************************)
Config(type, period, heartbeat, spawnable) ==
  [type |-> type, schedule_period |-> period,
   heartbeat_period |-> heartbeat, spawnable |-> spawnable]

\* An entry of tasks[] after memset: its stack_size is 0.
Unregistered == Config("INVALID", 0, 0, FALSE)

SchedulerConfig ==
  Config("PERIODIC", TM_SCHEDULER_PERIOD, TM_SCHEDULER_PERIOD, TRUE)

\* gvTM_state before main runs.
Init ==
  /\ config = [t \in TaskIds |-> Unregistered]
  /\ ticks = [t \in TaskIds |-> 0]
  /\ semaphore = [t \in TaskIds |-> 0]
  /\ schedule_semaphore = 0
  /\ schedule_timer = "none"
  /\ continue_running = FALSE
  /\ tasks_scheduled = {}
  /\ tasks_missed_heartbeat = {}
  /\ init = "boot"
  /\ to_spawn = {}
  /\ start_result = "OKAY"
  /\ scheduler = "unspawned"
  /\ todo = {}
  /\ worker = [t \in TaskIds |-> "unspawned"]

\* The whole state is zeroed, whatever was registered before.  When the
\* registration of the scheduler, the schedule semaphore or the timer fails,
\* the steps after it are skipped and no timer exists; a semaphore that was
\* not created is zeroed memory, which is what os_sem_create leaves too.
TmInitialize ==
  /\ init = "boot"
  /\ init' = "ready"
  /\ config' = [t \in TaskIds |->
                  IF t = SchedulerId THEN SchedulerConfig ELSE Unregistered]
  /\ ticks' = [t \in TaskIds |-> 0]
  /\ semaphore' = [t \in TaskIds |-> 0]
  /\ schedule_semaphore' = 0
  /\ continue_running' = TRUE
  /\ tasks_scheduled' = {}
  /\ tasks_missed_heartbeat' = {}
  /\ \/ schedule_timer' = "created"
     \/ /\ Faults \cap {"sem_create", "timer_create"} # {}
        /\ schedule_timer' = "none"
  /\ UNCHANGED <<to_spawn, start_result, scheduler, todo, worker>>

\* What the four registration functions share.  Nothing checks that the id is
\* free: a second registration overwrites the first.
Register(t, c) ==
  /\ init \in {"boot", "ready"}
  /\ config' = [config EXCEPT ![t] = c]
  /\ ticks' = [ticks EXCEPT ![t] = 0]
  /\ UNCHANGED <<schedule_semaphore, schedule_timer, continue_running,
                 tasks_scheduled, tasks_missed_heartbeat, init, to_spawn,
                 start_result, scheduler, todo, worker>>

\* A failed os_sem_create changes the result and num_tasks only.
TmPeriodicTask(t, period, heartbeat, spawnable) ==
  /\ period # 0
  /\ Register(t, Config("PERIODIC", period, heartbeat, spawnable))
  /\ semaphore' = [semaphore EXCEPT ![t] = 0]

TmEventTask(t, heartbeat, spawnable) ==
  /\ Register(t, Config("EVENT", 0, heartbeat, spawnable))
  /\ UNCHANGED semaphore

\* A period of 0 is not rejected here.
TmCallbackTask(t, period) ==
  /\ Register(t, Config("CALLBACK", period, 0, FALSE))
  /\ UNCHANGED semaphore

TmMonitorTask(t) ==
  /\ Register(t, Config("MONITOR", 0, 0, FALSE))
  /\ UNCHANGED semaphore

Registration ==
  \E t \in ClientIds :
    \/ \E p \in Periods, h \in Heartbeats, s \in Spawnable :
         TmPeriodicTask(t, p, h, s)
    \/ \E h \in Heartbeats, s \in Spawnable : TmEventTask(t, h, s)
    \/ \E p \in Periods : TmCallbackTask(t, p)
    \/ TmMonitorTask(t)

(***************************************************************************)
(* tm_start: every PERIODIC and EVENT entry is spawned, in the order of    *)
(* their ids, while those already spawned run; then the timer is armed.    *)
(***************************************************************************)
IsFirst(t, ids) == t \in ids /\ \A u \in ids : t <= u

HasThread(t) == config[t].type \in {"PERIODIC", "EVENT"}

TmStart ==
  /\ init = "ready"
  /\ init' = "starting"
  /\ to_spawn' = TaskIds
  /\ UNCHANGED <<config, ticks, semaphore, schedule_semaphore, schedule_timer,
                 continue_running, tasks_scheduled, tasks_missed_heartbeat,
                 start_result, scheduler, todo, worker>>

\* os_task_spawn refuses what it does not accept.  The errors of pthread_create
\* are positive and the code looks for negative ones: a thread that could not
\* be created is reported like one that was.
OsTaskSpawn(t) ==
  \/ /\ config[t].spawnable
     /\ IF t = SchedulerId
        THEN scheduler' = "loop" /\ UNCHANGED worker
        ELSE worker' = [worker EXCEPT ![t] = "entry"] /\ UNCHANGED scheduler
  \/ /\ ~config[t].spawnable \/ "thread_create" \in Faults
     /\ UNCHANGED <<scheduler, worker>>

\* Mutant of TmStartTask: a later success overwrites an earlier spawn error.
TmStartTaskForgetsError(t) ==
  /\ init = "starting"
  /\ IsFirst(t, to_spawn)
  /\ to_spawn' = to_spawn \ {t}
  /\ start_result' = IF HasThread(t)
                     THEN IF config[t].spawnable THEN "OKAY" ELSE "TASK_SPAWN_ERROR"
                     ELSE start_result
  /\ IF HasThread(t) THEN OsTaskSpawn(t) ELSE UNCHANGED <<scheduler, worker>>
  /\ UNCHANGED <<config, ticks, semaphore, schedule_semaphore, schedule_timer,
                 continue_running, tasks_scheduled, tasks_missed_heartbeat,
                 init, todo>>

\* A spawn error is remembered and the loop goes on.
TmStartTask(t) ==
  /\ init = "starting"
  /\ IsFirst(t, to_spawn)
  /\ to_spawn' = to_spawn \ {t}
  /\ start_result' = IF HasThread(t) /\ ~config[t].spawnable
                     THEN "TASK_SPAWN_ERROR" ELSE start_result
  /\ IF HasThread(t) THEN OsTaskSpawn(t) ELSE UNCHANGED <<scheduler, worker>>
  /\ UNCHANGED <<config, ticks, semaphore, schedule_semaphore, schedule_timer,
                 continue_running, tasks_scheduled, tasks_missed_heartbeat,
                 init, todo>>

\* os_timer_start on a timer that was never created fails: its signal is 0,
\* which sigaddset refuses.
TmStartTimer ==
  /\ init = "starting"
  /\ to_spawn = {}
  /\ init' = "started"
  /\ \/ /\ schedule_timer = "created"
        /\ schedule_timer' = "armed"
        /\ UNCHANGED start_result
     \/ /\ schedule_timer = "none" \/ "timer_start" \in Faults
        /\ start_result' = "TIMER_ERROR"
        /\ UNCHANGED schedule_timer
  /\ UNCHANGED <<config, ticks, semaphore, schedule_semaphore,
                 continue_running, tasks_scheduled, tasks_missed_heartbeat,
                 to_spawn, scheduler, todo, worker>>

(***************************************************************************)
(* The schedule.                                                           *)
(***************************************************************************)

\* Mutant of Given: the give of a full semaphore counts.
GivenAlways(count) == count + 1

\* os_sem_give: sem_post fails on a semaphore at its maximum.
Given(count) == IF count < SemValueMax THEN count + 1 ELSE count

\* The timer's signal handler: tm_schedule_callback always asks for a restart.
TimerExpires ==
  /\ schedule_timer = "armed"
  /\ schedule_semaphore' = Given(schedule_semaphore)
  /\ UNCHANGED <<config, ticks, semaphore, schedule_timer, continue_running,
                 tasks_scheduled, tasks_missed_heartbeat, init, to_spawn,
                 start_result, scheduler, todo, worker>>

\* tm_update_task, for an entry whose ticks were just incremented.
Ticked(t) == (ticks[t] + 1) % TickModulus

IsDue(t) ==
  /\ config[t].type \in {"PERIODIC", "CALLBACK"}
  /\ Ticked(t) = config[t].schedule_period

\* Mutant of UpdatedTicks: a due entry keeps counting.
TicksNotReset(t) == Ticked(t)

UpdatedTicks(t) == IF IsDue(t) THEN 0 ELSE Ticked(t)

\* Mutant of MissesHeartbeat: compared before a due entry is reset.
MissesBeforeReset(t) ==
  /\ HasThread(t)
  /\ Ticked(t) >= config[t].heartbeat_period

MissesHeartbeat(t) ==
  /\ HasThread(t)
  /\ UpdatedTicks(t) >= config[t].heartbeat_period

\* tm_process_task: a missed heartbeat is reported instead of scheduling.
Releases(t) ==
  config[t].type = "PERIODIC" /\ IsDue(t) /\ ~MissesHeartbeat(t)

\* 1ULL << task_id, of which the int keeps the low bits.  The shift of the
\* built program takes its count modulo 64.
BitOf(t) == {t % 64} \cap IntBits

\* Mutant of SchedulerLoop: the unblocking loop ends one entry early.
SchedulerLoopStopsEarly ==
  /\ scheduler = "loop"
  /\ IF continue_running
     THEN scheduler' = "take" /\ UNCHANGED todo
     ELSE scheduler' = "drain" /\ todo' = {t \in TaskIds : \E u \in TaskIds : t < u}
  /\ UNCHANGED <<config, ticks, semaphore, schedule_semaphore, schedule_timer,
                 continue_running, tasks_scheduled, tasks_missed_heartbeat,
                 init, to_spawn, start_result, worker>>

\* The while condition.
SchedulerLoop ==
  /\ scheduler = "loop"
  /\ IF continue_running
     THEN scheduler' = "take" /\ UNCHANGED todo
     ELSE scheduler' = "drain" /\ todo' = TaskIds
  /\ UNCHANGED <<config, ticks, semaphore, schedule_semaphore, schedule_timer,
                 continue_running, tasks_scheduled, tasks_missed_heartbeat,
                 init, to_spawn, start_result, worker>>

\* Mutant of SchedulerTake: one take absorbs every expiration so far.
SchedulerTakesAll ==
  /\ scheduler = "take"
  /\ schedule_semaphore > 0
  /\ schedule_semaphore' = 0
  /\ scheduler' = "slot"
  /\ todo' = TaskIds
  /\ UNCHANGED <<config, ticks, semaphore, schedule_timer, continue_running,
                 tasks_scheduled, tasks_missed_heartbeat, init, to_spawn,
                 start_result, worker>>

\* os_sem_take of the schedule semaphore; an error shuts the system down.
SchedulerTake ==
  /\ scheduler = "take"
  /\ \/ /\ schedule_semaphore > 0
        /\ schedule_semaphore' = schedule_semaphore - 1
        /\ scheduler' = "slot"
        /\ todo' = TaskIds
        /\ UNCHANGED continue_running
     \/ /\ "scheduler_take" \in Faults
        /\ continue_running' = FALSE
        /\ scheduler' = "loop"
        /\ UNCHANGED <<schedule_semaphore, todo>>
  /\ UNCHANGED <<config, ticks, semaphore, schedule_timer, tasks_scheduled,
                 tasks_missed_heartbeat, init, to_spawn, start_result, worker>>

\* One entry of the slot's for loop: os_task_status is always OKAY, so every
\* entry is updated and processed.
SchedulerSlot(t) ==
  /\ scheduler = "slot"
  /\ IsFirst(t, todo)
  /\ ticks' = [ticks EXCEPT ![t] = UpdatedTicks(t)]
  /\ semaphore' = IF Releases(t)
                  THEN [semaphore EXCEPT ![t] = Given(@)] ELSE semaphore
  /\ tasks_scheduled' = IF Releases(t) /\ semaphore[t] < SemValueMax
                        THEN tasks_scheduled \cup BitOf(t) ELSE tasks_scheduled
  /\ tasks_missed_heartbeat' = IF MissesHeartbeat(t)
                               THEN tasks_missed_heartbeat \cup BitOf(t)
                               ELSE tasks_missed_heartbeat
  /\ todo' = todo \ {t}
  /\ scheduler' = IF todo' = {} THEN "loop" ELSE "slot"
  /\ UNCHANGED <<config, schedule_semaphore, schedule_timer, continue_running,
                 init, to_spawn, start_result, worker>>

\* Mutant of SchedulerDrain: a task that was scheduled before is passed over.
SchedulerDrainSkipsScheduled(t) ==
  /\ scheduler = "drain"
  /\ IsFirst(t, todo)
  /\ semaphore' = IF config[t].type = "PERIODIC" /\ BitOf(t) \cap tasks_scheduled = {}
                  THEN [semaphore EXCEPT ![t] = Given(@)] ELSE semaphore
  /\ todo' = todo \ {t}
  /\ scheduler' = IF todo' = {} THEN "done" ELSE "drain"
  /\ UNCHANGED <<config, ticks, schedule_semaphore, schedule_timer,
                 continue_running, tasks_scheduled, tasks_missed_heartbeat,
                 init, to_spawn, start_result, worker>>

\* One entry of the for loop that unblocks the tasks at shutdown.
SchedulerDrain(t) ==
  /\ scheduler = "drain"
  /\ IsFirst(t, todo)
  /\ semaphore' = IF config[t].type = "PERIODIC"
                  THEN [semaphore EXCEPT ![t] = Given(@)] ELSE semaphore
  /\ todo' = todo \ {t}
  /\ scheduler' = IF todo' = {} THEN "done" ELSE "drain"
  /\ UNCHANGED <<config, ticks, schedule_semaphore, schedule_timer,
                 continue_running, tasks_scheduled, tasks_missed_heartbeat,
                 init, to_spawn, start_result, worker>>

Scheduler ==
  \/ SchedulerLoop
  \/ SchedulerTake
  \/ \E t \in TaskIds : SchedulerSlot(t) \/ SchedulerDrain(t)

(***************************************************************************)
(* A task: while (tm_running(id)) { body }.                                *)
(***************************************************************************)

\* tm_running(id) up to the read of continue_running: it blocks on the semaphore
\* of a periodic entry.  The result of os_sem_take is not looked at.
AwaitsRelease(id) ==
  IF config[id].type = "PERIODIC"
  THEN \/ semaphore[id] > 0 /\ semaphore' = [semaphore EXCEPT ![id] = @ - 1]
       \/ "task_take" \in Faults /\ UNCHANGED semaphore
  ELSE UNCHANGED semaphore

\* The thread of task t calls tm_running(id).
TmRunningBlocks(t, id) ==
  /\ worker[t] = "entry"
  /\ worker' = [worker EXCEPT ![t] = "check"]
  /\ AwaitsRelease(id)
  /\ UNCHANGED <<config, ticks, schedule_semaphore, schedule_timer,
                 continue_running, tasks_scheduled, tasks_missed_heartbeat,
                 init, to_spawn, start_result, scheduler, todo>>

TmRunningWait(t) == TmRunningBlocks(t, t)

TmRunningReturn(t) ==
  /\ worker[t] = "check"
  /\ worker' = [worker EXCEPT ![t] =
                  IF continue_running THEN "running" ELSE "exited"]
  /\ UNCHANGED <<config, ticks, semaphore, schedule_semaphore, schedule_timer,
                 continue_running, tasks_scheduled, tasks_missed_heartbeat,
                 init, to_spawn, start_result, scheduler, todo>>

TaskBody(t) ==
  /\ worker[t] = "running"
  /\ worker' = [worker EXCEPT ![t] = "entry"]
  /\ UNCHANGED <<config, ticks, semaphore, schedule_semaphore, schedule_timer,
                 continue_running, tasks_scheduled, tasks_missed_heartbeat,
                 init, to_spawn, start_result, scheduler, todo>>

Worker(t) == TmRunningWait(t) \/ TmRunningReturn(t) \/ TaskBody(t)

\* Any task or callback may stop the schedule at any time.
TmStop ==
  /\ init # "boot"
  /\ continue_running' = FALSE
  /\ UNCHANGED <<config, ticks, semaphore, schedule_semaphore, schedule_timer,
                 tasks_scheduled, tasks_missed_heartbeat, init, to_spawn,
                 start_result, scheduler, todo, worker>>

Start == TmStart \/ (\E t \in TaskIds : TmStartTask(t)) \/ TmStartTimer

Next ==
  \/ TmInitialize
  \/ Registration
  \/ Start
  \/ TimerExpires
  \/ Scheduler
  \/ \E t \in ClientIds : Worker(t)
  \/ TmStop

Spec == Init /\ [][Next]_tmVars

(***************************************************************************)
(* Fairness: the initializing thread, the scheduler and every task run,    *)
(* and a body returns to tm_running; the armed timer repeats.  Nobody has  *)
(* to register anything or to call tm_stop.                                *)
(***************************************************************************)
Fairness ==
  /\ WF_tmVars(TmInitialize)
  /\ WF_tmVars(Start)
  /\ WF_tmVars(TimerExpires)
  /\ WF_tmVars(Scheduler)
  /\ \A t \in ClientIds : WF_tmVars(Worker(t))

FairSpec == Spec /\ Fairness

(***************************************************************************)
(* Properties.                                                             *)
(***************************************************************************)
Periodic(t) == config[t].type = "PERIODIC"

\* Does the thread of t exist?
Spawned(t) ==
  IF t = SchedulerId THEN scheduler # "unspawned" ELSE worker[t] # "unspawned"

ShouldRun(t) == HasThread(t) /\ config[t].spawnable

\* Once the scheduler has left its last loop no task is blocked in tm_running:
\* one that is before its os_sem_take finds a count.  This is the promise of
\* the comment on the loop, "unblock all tasks to allow them to close
\* cleanly", over every interleaving of the loop with tm_start and with tasks
\* that are anywhere in their own loop.
ShutdownUnblocks ==
  scheduler = "done" =>
    \A t \in ClientIds :
      Periodic(t) /\ worker[t] = "entry" => semaphore[t] > 0

\* What tm_start returns: a timer error exactly if the timer does not run,
\* whatever happened to the tasks; OKAY only if every periodic and event task
\* was accepted and has its thread, unless creating it failed unnoticed; and a
\* spawn error only if one of them has none.
StartResultIsTrue ==
  init = "started" =>
    /\ (start_result = "TIMER_ERROR") <=> (schedule_timer # "armed")
    /\ start_result = "OKAY" =>
         \A t \in TaskIds : HasThread(t) =>
           config[t].spawnable /\ (Spawned(t) \/ "thread_create" \in Faults)
    /\ start_result = "TASK_SPAWN_ERROR" =>
         \E t \in TaskIds : HasThread(t) /\ ~Spawned(t)

\* Shutdown completes: after tm_stop the scheduler ends and every task that has a
\* thread leaves its loop, wherever they are, whatever has failed and however late
\* the stop comes, if the timer was started and the scheduler has its thread.
ShutdownCompletes ==
  (schedule_timer = "armed" /\ scheduler # "unspawned" /\ ~continue_running) ~>
    /\ scheduler = "done"
    /\ \A t \in ClientIds : Spawned(t) => worker[t] = "exited"

\* No task starves: one that calls tm_running gets to run its body again, unless
\* the system shuts down.  A heartbeat of 0 slots is missed in every slot, so that
\* such a task is never released.
NoStarvation ==
  \A t \in ClientIds :
    (/\ worker[t] = "entry" /\ schedule_timer = "armed" /\ scheduler # "unspawned"
     /\ Periodic(t) => config[t].heartbeat_period > 0)
      ~> (worker[t] = "running" \/ ~continue_running)
================================================================================
