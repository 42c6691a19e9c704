------------------------------ MODULE Protoflight ------------------------------
(***************************************************************************)
(* The flight software process: main (protoflight.c), which initializes    *)
(* the modules, starts the Task Manager's schedule and polls until it is   *)
(* stopped; the telemetry task (fsw/src/tlm/tlm.c); and the applications   *)
(* that register tasks in between, over the Task Manager of TaskManager.   *)
(*                                                                         *)
(* main is the thread that TaskManager calls init.  When it returns the    *)
(* process ends, and with it every other thread, wherever it is.           *)
(*                                                                         *)
(* Abstracted: what a report or an event contains, and its way over the    *)
(* Message Bus (module MessageBus: sends return).  em_initialize and       *)
(* mb_initialize cannot fail and zero state that is not modelled here.     *)
(***************************************************************************)
EXTENDS TaskManager

CONSTANTS
  FSW_TASK_ID_MAIN,
  FSW_TASK_ID_TLM,        (* the telemetry task registers with this id ...  *)
  FSW_TASK_ID_TELEMETRY,  (* ... and calls tm_running with this one         *)
  TlmRate,                (* FSW_TASK_RATE_1_HZ and FSW_HEARBEAT_RATE_1_HZ  *)
  AppIds                  (* ids of the applications' tasks                 *)

ASSUME ProtoflightAssumption ==
  /\ {FSW_TASK_ID_MAIN, FSW_TASK_ID_TLM, FSW_TASK_ID_TELEMETRY} \subseteq ClientIds
  /\ FSW_TASK_ID_MAIN \notin {FSW_TASK_ID_TLM, FSW_TASK_ID_TELEMETRY}
  /\ FSW_TASK_ID_TLM # FSW_TASK_ID_TELEMETRY
  /\ AppIds \subseteq
       ClientIds \ {FSW_TASK_ID_MAIN, FSW_TASK_ID_TLM, FSW_TASK_ID_TELEMETRY}
  /\ TlmRate \in Periods \cap Heartbeats
  /\ TlmRate # 0
  /\ TRUE \in Spawnable

VARIABLES
  main,               (* where main is                                      *)
  module_flags,       (* the modules whose initialization failed            *)
  startup_event       (* the event main reported, with its parameters       *)

mainVars == <<main, module_flags, startup_event>>
processVars == <<tmVars, mainVars>>

NoEvent == [id |-> "none"]
StartupEvents == [id : {"INIT_SUCCESS", "INIT_ERROR"},
                  modules : SUBSET {"TM", "TLM"}, tasks : BOOLEAN]

MainTypeOK ==
  /\ main \in {"monitor", "tm_initialize", "tlm_initialize", "modules", "start",
               "event", "entry", "check", "delay", "exited"}
  /\ module_flags \subseteq {"TM", "TLM"}
  /\ startup_event \in StartupEvents \cup {NoEvent}

ProcessInit ==
  /\ Init
  /\ main = "monitor"
  /\ module_flags = {}
  /\ startup_event = NoEvent

MainGoto(from, to) == main = from /\ main' = to

(***************************************************************************)
(* main up to tm_start.                                                    *)
(***************************************************************************)

\* The registration that tm_initialize is about to wipe.
MainMonitorsItself ==
  /\ MainGoto("monitor", "tm_initialize")
  /\ TmMonitorTask(FSW_TASK_ID_MAIN)
  /\ UNCHANGED <<module_flags, startup_event>>

\* Mutant of MainInitializesTm: the failure is reported under another module.
MainBlamesEm ==
  /\ MainGoto("tm_initialize", "tlm_initialize")
  /\ TmInitialize
  /\ module_flags' = module_flags \cup (IF schedule_timer' = "none" THEN {"EM"} ELSE {})
  /\ UNCHANGED startup_event

MainInitializesTm ==
  /\ MainGoto("tm_initialize", "tlm_initialize")
  /\ TmInitialize
  /\ module_flags' = module_flags \cup (IF schedule_timer' = "none" THEN {"TM"} ELSE {})
  /\ UNCHANGED startup_event

\* tm_periodic_task reports a semaphore that it could not create.
TlmInitialize ==
  /\ MainGoto("tlm_initialize", "modules")
  /\ TmPeriodicTask(FSW_TASK_ID_TLM, TlmRate, TlmRate, TRUE)
  /\ \/ UNCHANGED module_flags
     \/ "sem_create" \in Faults /\ module_flags' = module_flags \cup {"TLM"}
  /\ UNCHANGED startup_event

\* Applications register their tasks before the schedule starts.
AppRegisters(t) ==
  /\ main = "modules"
  /\ \/ \E p \in Periods, h \in Heartbeats, s \in Spawnable :
          TmPeriodicTask(t, p, h, s)
     \/ \E h \in Heartbeats, s \in Spawnable : TmEventTask(t, h, s)
  /\ UNCHANGED mainVars

MainCallsTmStart ==
  /\ MainGoto("modules", "start")
  /\ TmStart
  /\ UNCHANGED <<module_flags, startup_event>>

MainInTmStart ==
  /\ main = "start"
  /\ \/ \E t \in TaskIds : TmStartTask(t) /\ UNCHANGED main
     \/ TmStartTimer /\ main' = "event"
  /\ UNCHANGED <<module_flags, startup_event>>

\* Mutant of MainReportsStartup: the result of tm_start decides alone.
MainReportsStartOnly ==
  /\ MainGoto("event", "entry")
  /\ startup_event' =
       [id |-> IF start_result = "OKAY" THEN "INIT_SUCCESS" ELSE "INIT_ERROR",
        modules |-> {}, tasks |-> start_result = "OKAY"]
  /\ UNCHANGED <<tmVars, module_flags>>

\* The event names the failed modules, and whether tm_start succeeded.
MainReportsStartup ==
  /\ MainGoto("event", "entry")
  /\ startup_event' =
       [id |-> IF module_flags = {} THEN "INIT_SUCCESS" ELSE "INIT_ERROR",
        modules |-> module_flags, tasks |-> start_result = "OKAY"]
  /\ UNCHANGED <<tmVars, module_flags>>

MainStarts ==
  \/ MainMonitorsItself \/ MainInitializesTm \/ TlmInitialize
  \/ MainCallsTmStart \/ MainInTmStart \/ MainReportsStartup

(***************************************************************************)
(* main's loop, and the end of the process.                                *)
(***************************************************************************)

\* Mutant of MainCallsTmRunning: main waits for the telemetry task's slot.
MainAwaitsTlmSlot ==
  /\ MainGoto("entry", "check")
  /\ AwaitsRelease(FSW_TASK_ID_TLM)
  /\ UNCHANGED <<config, ticks, schedule_semaphore, schedule_timer,
                 continue_running, tasks_scheduled, tasks_missed_heartbeat,
                 init, to_spawn, start_result, scheduler, todo, worker,
                 module_flags, startup_event>>

MainCallsTmRunning ==
  /\ MainGoto("entry", "check")
  /\ AwaitsRelease(FSW_TASK_ID_MAIN)
  /\ UNCHANGED <<config, ticks, schedule_semaphore, schedule_timer,
                 continue_running, tasks_scheduled, tasks_missed_heartbeat,
                 init, to_spawn, start_result, scheduler, todo, worker,
                 module_flags, startup_event>>

\* The while condition; returning from main ends the process.
MainReadsRunning ==
  /\ MainGoto("check", IF continue_running THEN "delay" ELSE "exited")
  /\ UNCHANGED <<tmVars, module_flags, startup_event>>

\* os_task_delay returns, if only with an error.
MainDelays ==
  /\ MainGoto("delay", "entry")
  /\ UNCHANGED <<tmVars, module_flags, startup_event>>

MainLoops == MainCallsTmRunning \/ MainReadsRunning \/ MainDelays

(***************************************************************************)
(* The telemetry task: while (tm_running(FSW_TASK_ID_TELEMETRY)) { report }*)
(***************************************************************************)

TelemetryCallsTmRunning ==
  TmRunningBlocks(FSW_TASK_ID_TLM, FSW_TASK_ID_TELEMETRY)

TelemetryReports == TaskBody(FSW_TASK_ID_TLM)

TlmTelemetryTask ==
  \/ TelemetryCallsTmRunning
  \/ TmRunningReturn(FSW_TASK_ID_TLM)
  \/ TelemetryReports

ProcessNext ==
  /\ main # "exited"
  /\ \/ MainStarts \/ MainLoops
     \/ \E t \in AppIds : AppRegisters(t)
     \/ /\ \/ TimerExpires \/ Scheduler \/ TmStop
           \/ TlmTelemetryTask
           \/ \E t \in AppIds : Worker(t)
        /\ UNCHANGED mainVars

ProcessSpec == ProcessInit /\ [][ProcessNext]_processVars

\* main runs.  Nothing is assumed of the timer, of the scheduler or of any task.
ProcessFairSpec ==
  /\ ProcessSpec
  /\ WF_processVars(MainStarts)
  /\ WF_processVars(MainLoops)

(***************************************************************************)
(* Properties.                                                             *)
(***************************************************************************)

\* The process is a Task Manager with its tasks, in which a task that calls
\* tm_running with an id that is not periodic behaves as one whose os_sem_take
\* failed: no order of initialization, no wrong id and no end of the process
\* makes the schedule do what TaskManager does not.
TM == INSTANCE TaskManager WITH Faults <- Faults \cup {"task_take"}
ImplementsTaskManager == TM!Spec

\* What the ground is told is true: after a startup event of success whose task
\* parameter is set the timer drives the schedule, and every task that was
\* registered, the telemetry task among them, was started or is one whose
\* thread could not be created; after an error event a module it names did not
\* initialize.
StartupEventIsTrue ==
  startup_event # NoEvent =>
    /\ startup_event.id = "INIT_SUCCESS" /\ startup_event.tasks =>
         /\ schedule_timer = "armed"
         /\ \A t \in TaskIds : HasThread(t) => Spawned(t) \/ "thread_create" \in Faults
         /\ HasThread(FSW_TASK_ID_TLM)
    /\ startup_event.id = "INIT_ERROR" =>
         \/ "TM" \in startup_event.modules /\ schedule_timer = "none"
         \/ "TLM" \in startup_event.modules /\ "sem_create" \in Faults

\* The process ends after tm_stop, however far start-up had come, and without
\* help of the timer, the scheduler or any task.
ProcessEnds == init # "boot" /\ ~continue_running ~> main = "exited"

\* tm_stop "will cause the task scheduler to attempt a clean shutdown of all
\* tasks", which tm_scheduler_task unblocks "to allow them to close cleanly":
\* the process does not end while a task is in its loop.
TasksCloseBeforeExit ==
  main = "exited" =>
    \A t \in ClientIds : Spawned(t) => worker[t] = "exited"
================================================================================
