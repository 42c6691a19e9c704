# Verification of protoflight

TLA+ models of the protoflight flight software (the repository beside this
directory), model-checked with TLC, and theorems about them checked with TLAPS.

## 1. The system

Protoflight is a small flight-software core: modules (`fsw/src`) over an
operating-system abstraction (`os/posix/src`), started by `protoflight.c`.

| Component | State | Operations | Talks to |
|---|---|---|---|
| Task Manager, `tm.c` | `tasks[100]` (type, periods, ticks, semaphore), schedule semaphore and timer, `continue_running`, two bitfields of status | `tm_initialize`, four registrations, `tm_start`, `tm_running`, `tm_stop`; the scheduler task and the timer's callback | semaphores, the timer, tasks |
| Message Bus, `mb.c` | `num_pipes`, `pipes`, per packet `num_queues` and `queues`, counters | `mb_create_pipe`, `mb_register_packet`, `mb_send`, `mb_receive` | queues; `em_event` for a NULL message |
| Event Messages, `em.c` | counters | `em_event` | `mb_send`, so that mb and em call each other |
| Telemetry, `tlm.c` | counters | a task that collects the status of every module and sends it | `tm_running`, `mb_send`, `em_event` |
| Message headers, `msg.c` | none | fill in a header | |
| Queues | `os_queue.c`: a POSIX message queue; `os_queue_portable.c` (built on WSL): a ring, a recursive mutex, two condition variables | create, send, receive | shared by all tasks |
| Timers, `os_timer.c` | `gvOS_timers[]`, the next signal, and per timer its callback, argument and signal | create, start, stop; the signal handler | the kernel's interval timers; the handler calls back, and stops its own timer |
| `os_sem.c`, `os_task.c`, `os_mutex.c`, `os_time.c` | the kernel's | wrappers of POSIX calls | |
| Process, `protoflight.c` | which modules failed to initialize | initializes the modules in order, starts the schedule, reports it, polls `tm_running` and ends the process | all modules |

What is hard about it: every task runs preemptively; a signal handler gives a
semaphore, or stops a timer, in the middle of anything; **no module of `fsw`
holds a lock**; `tm_start` runs while the tasks it has spawned run already;
shutdown is one boolean that blocked tasks cannot see, and the return of main
ends everybody; a send may fail at some pipes and not at others; a timed wait may
end with or without the mutex. What makes each part correct:

* *tm*: each periodic task is released exactly once per period and never loses
  or gains a release; every expiration of the timer becomes a slot; nobody
  starves; after `tm_stop` everybody ends and nobody stays blocked; `tm_start`
  tells the truth about a partial start; the status fields say what happened.
* *mb*, *em*, *tlm*: a pipe gets only what it listens to, once per registration;
  a registration lasts; the result describes what happened to the pipes; every call returns, also where
  mb and em call each other; the counters count.
* *queues*: a bounded first-in first-out buffer; a call that is refused changes
  nothing; a call with a deadline returns.
* *timers*: a signal always has a handler; an expiration is answered with what its own
  start passed or a later one did; an armed timer calls back; one whose callback
  asks for no restart stops.
* *process*: the order of initialization and the ids the tasks really use do
  not break the Task Manager; the startup event is true; the process ends.

The hazards, each with its line and the properties for it, are in
`PROJECT.json`.

## 2. The modules

```
Protoflight --------> TaskManager <------ TaskManagerCadence
   (EXTENDS, and          |                     |
    refines it)   TaskManager_proofs <- TaskManagerCadence_proofs
   Protoflight_proofs

OsTimer                    PortableQueue --refines--> BoundedQueue
   OsTimer_proofs             PortableQueue_proofs
   OsTimerShots_proofs     MessageBus <-- MCMessageBus
                              MessageBus_proofs <- MessageBusCopies_proofs
```

* **`TaskManager`** models `tm.c` with the parts of `os_sem.c`, `os_timer.c`
  and `os_task.c` it uses. `config` is the registered part of `tasks[]`;
  `ticks`, `semaphore`, `schedule_semaphore`, `continue_running` are the fields
  of those names; `tasks_scheduled` and `tasks_missed_heartbeat` are sets of
  the 32 bits an `int` has. `init`, `to_spawn` and `start_result` are where the
  initializing thread is; `scheduler` and `todo` where `tm_scheduler_task` is;
  `worker` where every other task is. One action is one atomic step: an
  entry of a `for` loop, a semaphore operation, a read of `continue_running`.
  `tm_update_task` and `tm_process_task` are one step for one entry, because
  the scheduler alone touches `ticks` and the status fields at that time and
  the only thing another thread can see is the `os_sem_give`. `Faults` says
  which operating system calls may fail.
* **`TaskManagerCadence`** runs the same actions with three counters beside
  them: expirations, slots processed, releases taken; and says from them which
  tasks are reported for a missed heartbeat.
* **`Protoflight`** composes `TaskManager` with main, the telemetry task and
  applications, with the ids they really use: main's registration, which
  `tm_initialize` wipes out; the telemetry task, which registers as
  `FSW_TASK_ID_TLM` and waits as `FSW_TASK_ID_TELEMETRY`; the startup event; the
  loop of main, and the end of the process, after which nothing happens. Its
  steps are `TaskManager`'s with a program counter of main. It implements
  `TaskManager` with one more fault, `"task_take"`: a `tm_running` that
  does not wait because its id is not periodic is one whose `os_sem_take` failed.
* **`OsTimer`** models `os_timer.c` over what the kernel does with an interval
  timer and its real time signal: `armed` and `pending` are the kernel's,
  `handler` is where the run of `os_timer_function` is in each thread, and
  `os_timer_start` is one step per field and call, since the handler may run
  between any two. A callback is the number of the start that passed it and
  what it returns; an argument is that number; `started`, `stopped` and `fired`
  are history.
* **`BoundedQueue`** is the abstract queue of `os_queue.h`: a call is invoked,
  takes effect at one point, and returns; only a call that blocked on a full or
  an empty queue may be refused.
* **`PortableQueue`** models `os_queue_portable.c`, one step per access to
  what the callers share; `num_queued++` and the offsets are a load and a store.
  `Fifo` maps it to `BoundedQueue`: the contents are the slots from the read
  offset on, a call is blocked from the check to the end of its wait, a send
  takes effect at the store of the count, a receive at the store of the read
  offset.
* **`MessageBus`** models `mb.c`, `em.c` and the report of `tlm.c` over the
  POSIX queues of `os_queue.c`: creation over a queue that an earlier run left,
  and what a send or receive returns and changes. `Threads` send and receive;
  `Registrants` create pipes and register packets, any number of them at once,
  since no lock keeps them apart: `place` and `local` are where each is and what
  it has read. A registration is four steps (the check and `next_queue`, the
  entry, the load and the store of `num_queues++`), a creation seven, those of
  `os_queue_create` included. Creations that overlap may share a slot of
  `pipes`, or a kernel queue (`pipes` maps slots to queues for that), count a pipe
  that nobody created, and push `num_pipes` past its maximum; registrations that
  overlap may overwrite one another, leave an entry that nobody wrote, which is pipe 0, and
  push `num_queues` past its own, so that a send reads another field as a pipe
  (`PipeAt`). **`MCMessageBus`** gives it the constants a cfg cannot write (an old
  message in a queue, a queue whose messages are too small for an event).
  `truth`, `accepted`, `opened`, `listening` and `overlapped` are history: how
  often a counter was really incremented, which pipes took the message of a call,
  which queues a pipe had, who registered, and for which packets two registrations
  were ever under way at once.
* **`..._proofs`** hold the theorems about the module of that name;
  **`OsTimerShots_proofs`** and **`MessageBusCopies_proofs`** those that count
  the calls of a timer and the copies of a message.

Definitions named `Mutant of ...` in their comment are deliberate errors in the
definition that follows; each one shows that a property would notice it.

## 3. The runs

| Run | Question | Result |
|---|---|---|
| `task_manager` | three entries of every kind, two periods, every OS call failing but the wait of a task: types, shutdown, the result of `tm_start`; does everybody run and, after `tm_stop`, end? | holds |
| `task_manager_cadence` | is the schedule exact over several slots, and which tasks are reported for a missed heartbeat? | holds |
| `protoflight` | does the process implement the Task Manager, tell the truth at startup, and end, with every OS call of start-up failing? | holds |
| `protoflight_close` | do tasks close before the process ends (`tm.h:147`, `tm.c:210`)? | violated: main returns as soon as its own `tm_running` sees the stop |
| `os_timer` | late signals, restarts and stops in any order: is there a handler, with whose callback and argument is it answered, how often is what a single shot raised delivered, does what was stopped stay so, and does an armed timer call? | holds |
| `portable_queue` | calls that run only while the others wait: is it the bounded FIFO? | holds |
| `portable_queue_space` | "Either way, there is space in the queue" (`os_queue_portable.c:268`), calls that overlap | violated: a mutex that was not obtained is taken for granted |
| `portable_queue_return` | does every call with a deadline return ("the queue mutex is always released", line 180)? | violated: a failed wait keeps the mutex |
| `message_bus` | while pipes are created and packets registered, also at once: who gets which message, how often, which registrations last, what is the sender told, does every call return? | holds; the first three for packets whose registrations never overlapped |
| `message_bus_okay` | does success mean that all listening pipes got the message (`mb.h:34`)? | violated: the last pipe decides |
| `message_bus_register` | is a packet sent to all registered pipes (`mb.h:68`)? | violated: of two registrations made at once one is lost |
| `message_bus_counters` | do the counters count (`mb_definitions.h:79`)? | violated: increments are lost |

### Bounds

* `TaskIds = {1, 2, 3}` puts an entry before and one after the scheduler's own
  in the order of every loop. An entry that is not looked at is independent of
  the others: entries interact only through the scheduler's loops,
  `continue_running` and their order. `SemValueMax = 2` reaches the limit of a
  semaphore and `TickModulus = 4` the wrap of `ticks`; the real ones are 2^31 - 1
  and 2^32. `task_manager` has periods 1 and 2 with a
  heartbeat of 1: at and below the period; the cadence run has periods 1 and 3
  with heartbeats 1 and 2, so that below, at and above it all occur, which
  cover every comparison in `tm_update_task`.
* `task_manager_cadence` has `MaxExpirations = 4` expirations before `tm_stop`:
  more than one period of 3 slots, and semaphores large enough
  (`CadenceAssumption`) that none is lost.
* `protoflight` has the five ids that matter: main's 1, the scheduler's 2, the
  two of telemetry, 3 and 10, and one application's, 4. Cadence is not its
  question, so `SemValueMax = 1` and `TickModulus = 3` are enough for a release
  that is lost and one that is taken. Deadlock is not checked because the process
  ends. `protoflight_close` has no application and no fault.
* `os_timer` has one timer that may be created anew (so that it has two
  signals), started twice with a timeout of 0 or 1, and two threads that take its
  signals, so that two expirations can be in handlers at once while a third is
  pending. More timers share nothing but the index of the next signal.
  `FiredBound` caps the count of callbacks beyond what `SingleShotBound` allows.
* `portable_queue` has two slots, so that offsets pass through every value
  and wrap, two messages to tell orders apart, and three callers: one that keeps
  the mutex after a timeout, one that waits and one that wakes it. `Serialized`
  lets a call start only while the others are idle or asleep in their wait; with
  calls that overlap more the queue is not a FIFO, as `portable_queue_space`
  shows. `MaxDepth` bounds the levels of the
  recursive mutex, which the code leaks without limit; at the bound no call
  starts, which is why deadlock is not checked there.
* `message_bus` has one sender with two calls, and two registrants with three
  calls between them, which may be creations, registrations of one pipe twice
  or of a pipe that does not exist yet, and may overlap; two slots for pipes and
  two for registrations, so that the third call finds them full or, overlapping,
  passes the maximum. One call is two messages when the message is NULL or a
  report fails. A second sender shares with the first only the queues, which
  `Leftovers` and the sender's own earlier call fill as well, and the counters,
  which are not looked at there (`Observed = {}`), since no passing property
  depends on them; the theorems are about any number of senders.
  `message_bus_okay` and `message_bus_counters` have one registrant,
  so that nothing but what they are about goes wrong; the counters run two
  senders and no registration.
* The runs of the queue and of the bus do not check deadlock because of the
  bounds on calls and depth; in `task_manager` a fault may stop the system for
  good.

### Fairness

Liveness is checked with weak fairness of each thread that is in the middle of
something, because POSIX threads of a running system are eventually scheduled,
and of the armed timer, which `os_timer_start` makes periodic. Fairness of the
body of a task says that tasks return to `tm_running`, which is their contract.
Nobody is forced to register, to call `tm_stop`, to send or to read a pipe.
`task_manager` checks liveness with every operating system call failing but the
wait of a task (`"task_take"`): fairness would let that failure end a wait that
nothing else ends (the cadence run has it). In `task_manager`
`ShutdownCompletes` and `NoStarvation` presuppose only that the timer was started
and that the scheduler has its thread; where a failed take ends the scheduler,
both hold because that take stops the system.
A `TimerExpires` that finds the semaphore full changes nothing and is a
stuttering step, so its fairness forces nothing there. In `PortableQueue` the fairness
covers the end of a timed wait but not of one with `OS_TIMEOUT_WAIT_FOREVER`.

`OsTimer` assumes that an armed timer expires, that not every thread blocks a
pending signal for ever, that callbacks return and that a client in
`os_timer_start` runs; not that anybody starts or stops a timer.

`Protoflight` assumes that main runs, and nothing of the
timer, the scheduler or any other task: `ProcessEnds` holds without them. The
assumption is that of the default scheduling policy, or of several cores. Run by root on one core, the tasks get real-time priorities, and
the telemetry task, which never waits, may keep main from running; the fairness
does not cover that.

## 4. The proofs

Every theorem holds for all values of the constants that the module's named
assumptions allow. Each is proved from an inductive invariant, since none of the
properties is inductive alone; a step lemma has one case per action, and lemmas
about what a step leaves alone dispose of the rest.

**`TaskManager_proofs`** (`TaskManagerAssumption`: any finite set of ids with the
scheduler's, all periods, limits and faults): `TypeCorrect`, `InvInvariant`, and
`ShutdownUnblocksTasks`, `StartResult`, the safety
invariants of run `task_manager`. `Inv` has, beside them:

* `BeforeStart`: before `tm_start` no thread exists, nothing is scheduled or
  missed and nobody has to be spawned.
* `StartProgress`, `SpawnedShouldRun`, `ResultSoFar`, `TimerResult`: in the
  spawning loop, only entries it has passed that `os_task_spawn` accepts have a
  thread, all of them unless creating a thread may fail, and the result so far is
  an error exactly if an entry was not accepted.
  `StartResultIsTrue` is this at the end of the loop.
* `DrainProgress`: in the loop that unblocks the tasks, each entry it has passed
  that is blocked in `tm_running` has a count. A task that takes its count
  moves past `tm_running`, reads `continue_running`, which is false for ever once
  the scheduler is in that loop, and exits: it never comes back to block. Hence
  `ShutdownUnblocks`.
* `TicksBelowPeriod`: `ticks` of a due entry restarts, so that they stay below the period.

**`TaskManagerCadence_proofs`** (also `CadenceAssumption`: semaphores that count
further than all expirations): `ExactCadence`, `SlotPerExpiration` and
`ExactHeartbeats`, the invariants of run `task_manager_cadence`, for every number of tasks, period and
heartbeat. `CadenceInv` needs two bounds beside them: no more than one slot
begins after `tm_stop` (`SlotsBounded`), and no task was released more often than
there were slots (`ReleasesBounded`), so that no semaphore is ever full and no
give is lost, the unblocking one at shutdown included. `TicksBelowPeriod` of the
Task Manager's own invariant keeps `ticks` from wrapping. `HeartbeatInv` says, beside
what `ExactHeartbeats` states, that the ticks of an event task are the slots it had,
and those of a periodic one too until its first period is over: a comparison after
the reset can only succeed with a heartbeat shorter than the period.

**`OsTimer_proofs`** (any number of timers, signals up to the size of the table,
threads and starts): `TimerTypes`, `SignalsHandled`, `CallbacksAreCurrent`.
`TimerInv` says that an entry of the table has one timer (`TableIsUnique`); that
the callback and argument of a timer are of its own starts, the argument never
newer than the callback (`FieldsAreItsOwn`); where its client is
(`ClientProgress`); that whatever is armed, pending or in a handler was raised
by a start of the timer with that signal, no newer than what the timer holds by
now (`ArmedByStart`, `HandlerInv`). The last is stable because what a timer holds
only grows (`Grows`); it is why a handler that loads callback and argument at
two moments still finds nothing stale, although the two may be of different starts.

**`OsTimerShots_proofs`** (as above): `SingleShotIsBounded` and `StoppedIsFinal`,
from `ShotsInv` and `StoppedInv` beside `TimerInv`. The kernel timer repeats until
a handler stops it, so the deliveries of a start whose callback asks for no restart
are counted against the handlers that run: while it is armed, each expiration that was
delivered still has its handler (`Bounded`), because a handler ends by stopping
the timer, and each is in a thread of its own, because it holds the signal there.
Once stopped, one expiration may be pending and no more are raised. This bounds what
the start itself raised: an expiration of an earlier start that is still under way
calls the callback that the timer holds by then as well, and how many of those
there may be is not said. The proof needs
`PlaceInv` (a start is armed on its timer's signal alone, so that the handler stops
the right one), `FreshInv` (nothing is raised for a start before its client arms
it) and `RestartInv` (the callback a handler holds asks what its start passed). A
stopped start (`StoppedInv`) is armed nowhere and is not the one a client is about
to arm.

**`Protoflight_proofs`** (any ids with `ProtoflightAssumption`, any applications
and faults): `ProcessImplementsTaskManager`, the refinement of run `protoflight`:
initial states map to initial states and every step to a step of `TaskManager`
or a stutter. It needs `NeverWaits`: the entry main waits with is never
periodic, nor the one the telemetry task waits with. `ProcessKeepsTaskManager`
carries the theorems of the Task Manager over to the process.
`MainTypes` and `StartupEventTruth` are proved from `ProcessInv`: where main is
says how far `tm_start` is, and which modules have been flagged.

**`MessageBus_proofs`** (any number of sending and registering threads, packets,
pipes and messages, creations and registrations that overlap included):
`BusTypes`, `ListenersOnly`, `ApartRegistrationsLast`, `LastPipeResult`. `BusInv`
has a part for what holds of registrants whatever others do meanwhile
(`SetupInv`: a registration writes within `queues[]`, and a slot that was filled
names a queue that exists), one for packets no two of whose registrations ever
overlapped (`ApartInv`: each counted entry was registered, and a registration
under way writes behind those counted and stores one more), one for what queues
hold (`QueueInv`) and one for each call in the loop of `mb_send`, which
knows the result of the pipe it tried last (`ThreadInv`, `ResultSoFar`). Nothing
is said of the registrations of a packet that did overlap, because nothing is
left: run `message_bus_register` shows one that is lost, and what a sender then
reads may be pipe 0 or no pipe at all. `BusTypes`, `ListenersOnly` and
`ApartRegistrationsLast` speak of such packets only where they say so.
`CountersNeverExceed` and `SoleThreadCounts` say what is left of the counters, which
run `message_bus_counters` shows to be wrong: they never show too much, and where a
single thread sends and receives (the theorem's hypothesis, not the program's
case) they are exact.

**`MessageBusCopies_proofs`** (as above): `OneCopyPerRegistration`, from `CountInv`.
The invariant is a count: the copies of a message in a queue are no more
than the registrations of its pipes that account for one (`Used`), which are those
that the sender's loop has passed or will not try any more (`Tried`). A turn of the
loop adds at most one copy and one such registration; a registration is neither
taken back nor moved, which is true of `mb.c` only where no two registrations of
the packet overlap and is assumed of no other; and a call sends each kind of
message in one loop only, for which `OriginInv` says where `em_event` is called from.

**`PortableQueue_proofs`** (`PortableQueueAssumption`: any number of threads,
messages and slots, a count wider than the queue): `PortableTypes`, for calls that
overlap too, and, where `Serialized`, `SerializedSpace` and `SerializedFifo`, the
refinement of run `portable_queue`. `SerialInv` says that one caller moves at a
time (`OneMoves`: a signal is the last a caller does to the queue), that what a
caller found when it looked at the count, or was told by a signal, is still so
when it acts on it (`CountInv`), and that the offsets are as far apart as there
are messages with a message in each slot between them (`RingInv`). `SerializedFifo`
then takes each step of the code to its step of `BoundedQueue`: the check to
`Block`, the store of a read offset to `Receive`, the store of a send's count to
`Send`. That calls overlap is what breaks it: `SpaceInQueue`, proved here, is
violated in run `portable_queue_space`.

Only model-checked: liveness under fairness, which is out of the prover's reach
(`ShutdownCompletes`, `NoStarvation`, `CallsReturn`, `ArmedTimerCalls`,
`SingleShotEnds`, `ProcessEnds`). Every invariant and every
action property of a passing run is also proved; of the refinements,
`ImplementsFifo` where `Serialized`, as in its run.

## 5. What is not modelled, and why

Wrappers of one POSIX call (`os_mutex.c`, `os_time.c`, the attributes in
`os_task.c`), formatting of names, `msg.c`'s header fields, the fields of the status
that describe the last error, `fsw.c` (empty), `incubator` (unfinished, not
built), `lib/tinycthread` and `test/unity` (vendored). Spurious wake-ups of
condition variables are left out, and memory is sequentially consistent. The
timed `os_sem_take`, whose deadline is of another clock, is used by nobody.
`mb_send` of a NULL message returns `MB_RESULT_NULL_POINTER` once `em_event` has
come back; the model ends the call there without a result.

After a thread that could not be created `os_task_spawn` detaches a handle that
is none; what follows if the program does not survive that is not modelled, nor
is the size that `mb_receive` writes behind its argument (`mb.c:133`). A signal
handler that calls back while the thread it interrupts is inside the same
library call is outside the models.

Divergences met while modelling that no run is about; the models do what the
code does:

* `tm.c:241` computes the bit of a task in 64 bits and stores it in an `int`:
  tasks with ids from 32 to 63 are never reported, and an id from 64 on is a shift
  by more than the width, which the hardware takes modulo 64, so that 64 to 95 alias
  the bits of 0 to 31; `tm_definitions.h:64` asks for as many bits as tasks
  (`BitOf`).
* `tm.c:302` counts slots, whatever the task does, and `tm.c:310` compares after the
  reset. `tm.h:46` calls the heartbeat period of a periodic task "the number of
  schedule slots from the scheduling of this task until it must provide a
  heartbeat", but a task with a heartbeat not shorter than its period is never
  reported, however long it hangs, and one with a shorter heartbeat always is.
  `tm.h:70` calls that of an event task "the maximum number of ticks between
  heartbeats", but the task is reported after that many slots however often it
  calls `tm_running`. `MissedHeartbeatsAreExact` says what is reported instead.
* `os_task.c:157` looks for a negative error of `pthread_create`, whose errors
  are positive: `tm_start` reports success for a thread that does not exist
  (`OsTaskSpawn`, and the exception in `StartResultIsTrue`); `tm.h:162` says that
  `TM_RESULT_TASK_SPAWN_ERROR` indicates a failed task.
* `tlm.c:64` waits with another id than it registered, so that the telemetry
  task never blocks and reports as fast as it runs; `tm.h:133` says that
  `tm_running` blocks rate tasks, and `tlm.c:37` registers it for 1 Hz
  (`TelemetryCallsTmRunning`).
* `os_timer.c:132` and `os_timer.c:133` store the callback and the argument of a
  start one after the other, and the handler loads them one after the other: a
  start of a timer that is running may have its callback called with the argument
  of the start before, or the callback of that start with its own argument.
  `os_timer.h:42-44` says that the argument passed is the one the callback gets.
  `NoStaleCallback` says no more than that neither is older than the expiration.
* A handler whose callback asks for no restart stops the timer after the callback
  has returned (`os_timer.c:50`), also one that was started again by then: the
  exception `EarlierInFlight` in `ArmedTimerCalls`.
* `tlm.c:73` sends the report with a packet type for its packet id, which is
  that of events.
* A timer whose callback asks for no restart repeats until the handler stops
  it, and may call again (`os_timer.c:45`; `SingleShotBound` bounds what the start
  itself raised); `os_test.c:306` says that
  it does not retrigger.
* `os_queue.c:181` compares a result of -1 with `ETIMEDOUT` and reports every
  timeout as an error.

## 6. Plan

Done: `TaskManager`, `TaskManagerCadence`, `Protoflight`, `OsTimer`, `MessageBus`,
`BoundedQueue` and `PortableQueue` with their runs, and the proofs of every safety
property the passing runs check. What is left, in this order:

1. What liveness rests on: that the unblocking loop of the scheduler, the loops of
   main and the calls of `mb_send` and `em_event` grow shorter.
2. The results of a receive told apart, so that a timeout reported as an error
   (`os_queue.c:181`) shows in a property of its caller.
