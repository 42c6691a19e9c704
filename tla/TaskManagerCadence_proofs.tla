----------------------- MODULE TaskManagerCadence_proofs -----------------------
(***************************************************************************)
(* Proofs about the cadence of the schedule for any set of tasks, periods  *)
(* and heartbeats, and any number of expirations.                          *)
(***************************************************************************)
EXTENDS TaskManagerCadence, TaskManager_proofs

(***************************************************************************)
(* The inductive invariant, beside that of the Task Manager.               *)
(***************************************************************************)

\* Until tm_start nothing is counted.
NothingCounted ==
  init \in {"boot", "ready"} =>
    /\ expired = 0 /\ schedule_semaphore = 0
    /\ \A t \in TaskIds :
         processed[t] = 0 /\ takes[t] = 0 /\ semaphore[t] = 0 /\ ticks[t] = 0

\* The slots that have begun: at most one after tm_stop, which the scheduler was
\* waiting for already.
Begun == expired - schedule_semaphore

SlotsBounded ==
  /\ continue_running => expired <= MaxExpirations
  /\ scheduler = "take" => Begun <= MaxExpirations
  /\ Begun <= MaxExpirations + 1

\* A task is released at most once in a slot, so that its semaphore is never full.
ReleasesBounded == \A t \in TaskIds : Released(t) <= processed[t]

CadenceInv ==
  /\ CadenceTypeOK
  /\ NothingCounted
  /\ SlotsFollowTimer
  /\ SlotsBounded
  /\ ReleasesBounded
  /\ CadenceIsExact

(***************************************************************************)
(* Arithmetic and types.                                                   *)
(***************************************************************************)

\* One release more is one period more of slots.
LEMMA OneMoreRelease ==
  ASSUME NEW r \in Int, NEW p \in Int
  PROVE  (r + 1) * p = r * p + p
  BY SMT

\* Ticks below the period that do not reach it with the next stay below it.
LEMMA NotYetDue ==
  ASSUME NEW c \in Nat, NEW p \in Int, c < p, c + 1 # p
  PROVE  c + 1 < p
  BY SMT

\* What is counted is a number.
LEMMA Counts ==
  ASSUME Inv, CadenceInv, NEW t \in TaskIds
  PROVE  /\ processed[t] \in Nat /\ takes[t] \in Nat /\ expired \in Nat
         /\ semaphore[t] \in Nat /\ schedule_semaphore \in Nat
         /\ Released(t) \in Int
         /\ ticks[t] \in Nat
         /\ config[t].schedule_period \in Nat /\ config[t].heartbeat_period \in Nat
  BY DEF Inv, TypeOK, TaskConfig, CadenceInv, CadenceTypeOK, Released

\* Semaphores can count more than all expirations and the unblocking give.
LEMMA SemaphoreMax ==
  ASSUME TaskManagerAssumption, CadenceAssumption
  PROVE  /\ SemValueMax \in Nat /\ MaxExpirations \in Nat
         /\ SemValueMax > MaxExpirations + 1
  BY DEF TaskManagerAssumption, CadenceAssumption

\* Before main runs nothing is counted.
LEMMA CadenceInitially ==
  ASSUME TaskManagerAssumption, CadenceAssumption, CadenceInit
  PROVE  CadenceInv
  <1>1. CadenceTypeOK /\ NothingCounted /\ SlotsFollowTimer /\ SlotsBounded
    BY DEF CadenceInit, Init, CadenceTypeOK, NothingCounted, SlotsFollowTimer,
           SlotsBounded, Begun, CadenceAssumption
  <1>2. ReleasesBounded
    BY DEF CadenceInit, Init, ReleasesBounded, Released, Unblocked
  <1>3. CadenceIsExact
    BY DEF CadenceInit, Init, CadenceIsExact, Periodic, Unregistered, Config
  <1> QED
    BY <1>1, <1>2, <1>3 DEF CadenceInv

(***************************************************************************)
(* What a step keeps because it leaves it alone.                           *)
(***************************************************************************)

\* A step in which no entry is processed, released or registered keeps the rates.
LEMMA RatesKept ==
  ASSUME CadenceInv, UNCHANGED <<config, ticks, processed>>,
         \A t \in TaskIds : Released(t)' = Released(t)
  PROVE  ReleasesBounded' /\ CadenceIsExact'
  <1>1. ReleasesBounded'
    BY DEF CadenceInv, ReleasesBounded
  <1>2. CadenceIsExact'
    BY DEF CadenceInv, CadenceIsExact, Periodic
  <1> QED
    BY <1>1, <1>2

\* Steps that neither begin a slot nor release, take or register anything.
LEMMA QuietStep ==
  ASSUME CadenceInv,
         UNCHANGED <<config, ticks, semaphore, schedule_semaphore, todo>>,
         UNCHANGED <<expired, processed, takes>>,
         scheduler' = scheduler \/ (scheduler = "unspawned" /\ scheduler' = "loop"),
         continue_running' = continue_running \/ continue_running' = FALSE,
         init' = init \/ init' \in {"starting", "started"}
  PROVE  CadenceInv'
  <1>1. CadenceTypeOK' /\ NothingCounted' /\ SlotsFollowTimer' /\ SlotsBounded'
    BY DEF CadenceInv, CadenceTypeOK, NothingCounted, SlotsFollowTimer, SlotsBounded,
           Begun
  <1>2. \A t \in TaskIds : Released(t)' = Released(t)
    BY DEF Released, Unblocked
  <1> QED
    BY <1>1, <1>2, RatesKept DEF CadenceInv

(***************************************************************************)
(* Initialization, registration and start.                                 *)
(***************************************************************************)

\* tm_initialize finds nothing counted and registers the scheduler only.
LEMMA CadenceInitialize ==
  ASSUME TaskManagerAssumption, CadenceAssumption, Inv, CadenceInv, TmInitialize,
         UNCHANGED history
  PROVE  CadenceInv'
  <1>1. /\ expired' = 0 /\ schedule_semaphore' = 0
        /\ scheduler' = "unspawned"
        /\ \A t \in TaskIds :
             processed'[t] = 0 /\ takes'[t] = 0 /\ semaphore'[t] = 0 /\ ticks'[t] = 0
    BY DEF TmInitialize, CadenceInv, NothingCounted, Inv, BeforeStart, Spawned, history,
           TaskManagerAssumption
  <1>2. CadenceTypeOK' /\ NothingCounted' /\ SlotsFollowTimer' /\ SlotsBounded'
    BY <1>1 DEF CadenceInv, CadenceTypeOK, NothingCounted, SlotsFollowTimer, SlotsBounded,
                Begun, CadenceAssumption, history
  <1>3. ReleasesBounded'
    BY <1>1 DEF ReleasesBounded, Released, Unblocked
  <1>4. CadenceIsExact'
    <2>1. \A t \in TaskIds : Periodic(t)' => config'[t].schedule_period = 1
      BY DEF TmInitialize, Periodic, SchedulerConfig, Unregistered, Config,
             TM_SCHEDULER_PERIOD
    <2>2. \A t \in TaskIds : Released(t)' = 0
      BY <1>1 DEF Released, Unblocked
    <2> QED
      BY <1>1, <2>1, <2>2 DEF CadenceIsExact
  <1> QED
    BY <1>2, <1>3, <1>4 DEF CadenceInv

\* A registration comes before the first slot: ticks start at zero.
LEMMA CadenceRegistration ==
  ASSUME TaskManagerAssumption, CadenceAssumption, Inv, Inv', CadenceInv, Registration,
         UNCHANGED history
  PROVE  CadenceInv'
  <1>1. PICK t \in ClientIds, c \in TaskConfig :
          /\ Register(t, c)
          /\ semaphore' \in {semaphore, [semaphore EXCEPT ![t] = 0]}
    BY RegistrationStep DEF Inv
  <1>2. /\ init \in {"boot", "ready"} /\ scheduler' = "unspawned"
        /\ expired' = 0 /\ schedule_semaphore' = 0
        /\ init' = init
    BY <1>1 DEF Register, CadenceInv, NothingCounted, Inv, BeforeStart, Spawned, history,
                TaskManagerAssumption
  <1>3. \A u \in TaskIds :
          processed'[u] = 0 /\ takes'[u] = 0 /\ semaphore'[u] = 0 /\ ticks'[u] = 0
    BY <1>1, <1>2 DEF Register, CadenceInv, NothingCounted, Inv, TypeOK, history
  <1>4. CadenceTypeOK' /\ NothingCounted' /\ SlotsFollowTimer' /\ SlotsBounded'
    <2>1. CadenceTypeOK'
      BY DEF CadenceInv, CadenceTypeOK, history
    <2>2. NothingCounted' /\ SlotsFollowTimer'
      BY <1>2, <1>3 DEF NothingCounted, SlotsFollowTimer
    <2>3. SlotsBounded'
      BY <1>2, SemaphoreMax DEF SlotsBounded, Begun
    <2> QED
      BY <2>1, <2>2, <2>3
  <1>5. \A u \in TaskIds : Released(u)' = 0
    BY <1>2, <1>3 DEF Released, Unblocked
  <1>6. ReleasesBounded'
    BY <1>3, <1>5 DEF ReleasesBounded
  <1>7. CadenceIsExact'
    <2>1. \A u \in TaskIds :
            Periodic(u)' => ticks'[u] < config'[u].schedule_period
      BY DEF Inv, TicksBelowPeriod
    <2>2. \A u \in TaskIds : config'[u].schedule_period \in Int
      BY DEF Inv, TypeOK, TaskConfig
    <2>3. \A p \in Int : 0 = 0 * p + 0
      OBVIOUS
    <2> QED
      BY <1>3, <1>5, <2>1, <2>2, <2>3 DEF CadenceIsExact
  <1> QED
    BY <1>4, <1>6, <1>7 DEF CadenceInv

\* tm_start and tm_stop count nothing.
LEMMA CadenceStart ==
  ASSUME TaskManagerAssumption, Inv, CadenceInv, Start \/ TmStop, UNCHANGED history
  PROVE  CadenceInv'
  <1>1. CASE TmStart
    <2>1. /\ UNCHANGED <<config, ticks, semaphore, schedule_semaphore, todo>>
          /\ UNCHANGED <<expired, processed, takes>>
          /\ scheduler' = scheduler /\ continue_running' = continue_running
          /\ init' = "starting"
      BY <1>1 DEF TmStart, history
    <2> QED
      BY <2>1, QuietStep
  <1>2. ASSUME NEW t \in TaskIds, TmStartTask(t) PROVE CadenceInv'
    <2>1. scheduler' = scheduler \/ (scheduler = "unspawned" /\ scheduler' = "loop")
      <3>1. init = "starting" /\ t \in to_spawn
        BY <1>2 DEF TmStartTask, IsFirst
      <3>2. t = SchedulerId => scheduler = "unspawned"
        BY <3>1 DEF Inv, StartProgress, Spawned
      <3>3. scheduler' = scheduler \/ (t = SchedulerId /\ scheduler' = "loop")
        BY <1>2 DEF TmStartTask, OsTaskSpawn
      <3> QED
        BY <3>2, <3>3
    <2>2. /\ UNCHANGED <<config, ticks, semaphore, schedule_semaphore, todo>>
          /\ UNCHANGED <<expired, processed, takes>>
          /\ continue_running' = continue_running /\ init' = init
      BY <1>2 DEF TmStartTask, history
    <2> QED
      BY <2>1, <2>2, QuietStep
  <1>3. CASE TmStartTimer
    <2>1. /\ UNCHANGED <<config, ticks, semaphore, schedule_semaphore, todo>>
          /\ UNCHANGED <<expired, processed, takes>>
          /\ scheduler' = scheduler /\ continue_running' = continue_running
          /\ init' = "started"
      BY <1>3 DEF TmStartTimer, history
    <2> QED
      BY <2>1, QuietStep
  <1>4. CASE TmStop
    <2>1. /\ UNCHANGED <<config, ticks, semaphore, schedule_semaphore, todo>>
          /\ UNCHANGED <<expired, processed, takes>>
          /\ scheduler' = scheduler /\ continue_running' = FALSE /\ init' = init
      BY <1>4 DEF TmStop, history
    <2> QED
      BY <2>1, QuietStep
  <1> QED
    BY <1>1, <1>2, <1>3, <1>4 DEF Start

(***************************************************************************)
(* The timer and the scheduler.                                            *)
(***************************************************************************)

\* An expiration is given to the scheduler, unless the semaphore is full.
LEMMA CadenceExpiration ==
  ASSUME TaskManagerAssumption, CadenceAssumption, Inv, CadenceInv, CountExpiration
  PROVE  CadenceInv'
  <1>1. /\ schedule_semaphore \in Nat /\ expired \in Nat /\ MaxExpirations \in Nat
        /\ \/ schedule_semaphore' = schedule_semaphore /\ expired' = expired
           \/ schedule_semaphore' = schedule_semaphore + 1 /\ expired' = expired + 1
    <2>1. /\ schedule_semaphore \in Nat /\ expired \in Nat /\ MaxExpirations \in Nat
          /\ schedule_semaphore - schedule_semaphore = 0
          /\ (schedule_semaphore + 1) - schedule_semaphore = 1
      BY SemaphoreMax DEF Inv, TypeOK, CadenceInv, CadenceTypeOK
    <2>2. /\ expired' = expired + (schedule_semaphore' - schedule_semaphore)
          /\ \/ schedule_semaphore' = schedule_semaphore
             \/ schedule_semaphore' = schedule_semaphore + 1
      BY DEF CountExpiration, TimerExpires, Given
    <2> QED
      BY <2>1, <2>2
  <1>2. /\ UNCHANGED <<config, ticks, semaphore, continue_running, init, scheduler, todo,
                       processed, takes>>
        /\ continue_running => expired < MaxExpirations
        /\ schedule_timer = "armed"
    BY DEF CountExpiration, TimerExpires
  <1>3. init \notin {"boot", "ready"}
    BY <1>2 DEF Inv, StartProgress
  <1>4. CadenceTypeOK' /\ NothingCounted'
    <2>1. expired' \in Nat
      BY <1>1
    <2>2. CadenceTypeOK'
      BY <1>2, <2>1 DEF CadenceInv, CadenceTypeOK
    <2>3. NothingCounted'
      BY <1>2, <1>3 DEF NothingCounted
    <2> QED
      BY <2>2, <2>3
  <1>5. SlotsBounded'
    <2>1. continue_running' => expired' <= MaxExpirations
      BY <1>1, <1>2
    <2>2. Begun' = Begun
      BY <1>1 DEF Begun
    <2> QED
      BY <1>2, <2>1, <2>2 DEF CadenceInv, SlotsBounded
  <1>6. SlotsFollowTimer'
    <2>1. \A t \in TaskIds : processed[t] \in Nat
      BY DEF CadenceInv, CadenceTypeOK
    <2> QED
      BY <1>1, <1>2, <2>1 DEF CadenceInv, SlotsFollowTimer
  <1>7. \A t \in TaskIds : Released(t)' = Released(t)
    BY <1>2 DEF Released, Unblocked
  <1> QED
    BY <1>2, <1>4, <1>5, <1>6, <1>7, RatesKept DEF CadenceInv

\* The scheduler looks at continue_running before it waits for a slot.
LEMMA CadenceLoop ==
  ASSUME TaskManagerAssumption, CadenceAssumption, Inv, CadenceInv, SchedulerLoop,
         UNCHANGED history
  PROVE  CadenceInv'
  <1>1. /\ UNCHANGED <<config, ticks, semaphore, schedule_semaphore, continue_running, init,
                       expired, processed, takes>>
        /\ scheduler = "loop"
        /\ \/ continue_running /\ scheduler' = "take" /\ todo' = todo
           \/ ~continue_running /\ scheduler' = "drain" /\ todo' = TaskIds
    BY DEF SchedulerLoop, history
  <1>2. \A t \in TaskIds : Released(t)' = Released(t)
    BY <1>1 DEF Released, Unblocked
  <1>3. CadenceTypeOK' /\ NothingCounted' /\ SlotsFollowTimer'
    BY <1>1 DEF CadenceInv, CadenceTypeOK, NothingCounted, SlotsFollowTimer
  <1>4. SlotsBounded'
    <2>1. expired \in Nat /\ schedule_semaphore \in Nat /\ MaxExpirations \in Nat
      BY SemaphoreMax DEF Inv, TypeOK, CadenceInv, CadenceTypeOK
    <2> QED
      BY <1>1, <2>1 DEF CadenceInv, SlotsBounded, Begun
  <1> QED
    BY <1>1, <1>2, <1>3, <1>4, RatesKept DEF CadenceInv

\* The scheduler takes one expiration for one slot, or fails and stops.
LEMMA CadenceTake ==
  ASSUME TaskManagerAssumption, CadenceAssumption, Inv, CadenceInv, SchedulerTake,
         UNCHANGED history
  PROVE  CadenceInv'
  <1>1. /\ UNCHANGED <<config, ticks, semaphore, init, expired, processed, takes>>
        /\ scheduler = "take"
        /\ \/ /\ schedule_semaphore > 0
              /\ schedule_semaphore' = schedule_semaphore - 1
              /\ scheduler' = "slot" /\ todo' = TaskIds
              /\ continue_running' = continue_running
           \/ /\ scheduler' = "loop" /\ continue_running' = FALSE
              /\ UNCHANGED <<schedule_semaphore, todo>>
    BY DEF SchedulerTake, history
  <1>2. \A t \in TaskIds : Released(t)' = Released(t)
    BY <1>1 DEF Released, Unblocked
  <1>3. init \notin {"boot", "ready"}
    BY <1>1 DEF Inv, BeforeStart, Spawned, TaskManagerAssumption
  <1>4. CadenceTypeOK' /\ NothingCounted'
    BY <1>1, <1>3 DEF CadenceInv, CadenceTypeOK, NothingCounted
  <1>5. expired \in Nat /\ schedule_semaphore \in Nat /\ MaxExpirations \in Nat
    BY SemaphoreMax DEF Inv, TypeOK, CadenceInv, CadenceTypeOK
  <1>6. SlotsBounded'
    BY <1>1, <1>5 DEF CadenceInv, SlotsBounded, Begun
  <1>7. SlotsFollowTimer'
    <2>1. \A t \in TaskIds : processed[t] \in Nat
      BY DEF CadenceInv, CadenceTypeOK
    <2> QED
      BY <1>1, <1>5, <2>1 DEF CadenceInv, SlotsFollowTimer
  <1> QED
    BY <1>1, <1>2, <1>4, <1>6, <1>7, RatesKept DEF CadenceInv

\* The next entry of a slot: its semaphore has room, and its ticks do not wrap.
LEMMA SlotHasRoom ==
  ASSUME TaskManagerAssumption, CadenceAssumption, Inv, CadenceInv,
         NEW t \in TaskIds, scheduler = "slot", t \in todo
  PROVE  Given(semaphore[t]) = semaphore[t] + 1
  <1>1. expired = processed[t] + schedule_semaphore + 1
    BY DEF CadenceInv, SlotsFollowTimer
  <1>2. takes[t] + semaphore[t] <= processed[t]
    <2>1. Released(t) = takes[t] + semaphore[t]
      BY Counts DEF Released, Unblocked
    <2> QED
      BY <2>1 DEF CadenceInv, ReleasesBounded
  <1>3. expired - schedule_semaphore <= MaxExpirations + 1
    BY DEF CadenceInv, SlotsBounded, Begun
  <1> QED
    BY <1>1, <1>2, <1>3, Counts, SemaphoreMax DEF Given

\* The ticks of a periodic entry do not wrap.
LEMMA TicksBySlot ==
  ASSUME TaskManagerAssumption, Inv, NEW t \in TaskIds, Periodic(t)
  PROVE  Ticked(t) = ticks[t] + 1
  <1>1. /\ config[t] \in TaskConfig /\ ticks[t] \in 0 .. TickModulus - 1
        /\ TickModulus \in Nat \ {0}
    BY DEF Inv, TypeOK, TaskManagerAssumption, TM_SCHEDULER_PERIOD
  <1>2. ticks[t] + 1 \in Nat /\ ticks[t] + 1 < TickModulus
    BY <1>1 DEF Inv, TicksBelowPeriod, TaskConfig
  <1> QED
    BY <1>1, <1>2, ModuloBelow DEF Ticked

\* One entry of a slot: its ticks, and its release if it is due.
LEMMA CadenceSlot ==
  ASSUME TaskManagerAssumption, CadenceAssumption, Inv, Inv', CadenceInv,
         NEW t \in TaskIds, CountSlot(t)
  PROVE  CadenceInv'
  <1>1. /\ scheduler = "slot" /\ t \in todo /\ todo' = todo \ {t}
        /\ scheduler' = IF todo' = {} THEN "loop" ELSE "slot"
        /\ UNCHANGED <<config, schedule_semaphore, continue_running, init, expired, takes>>
        /\ ticks' = [ticks EXCEPT ![t] = UpdatedTicks(t)]
        /\ processed' = [processed EXCEPT ![t] = @ + 1]
        /\ semaphore' = IF Releases(t) THEN [semaphore EXCEPT ![t] = Given(@)] ELSE semaphore
    BY DEF CountSlot, SchedulerSlot, IsFirst
  <1>2. init \notin {"boot", "ready"}
    BY <1>1 DEF Inv, BeforeStart, Spawned, TaskManagerAssumption
  <1>3. /\ \A u \in TaskIds : processed[u] \in Nat
        /\ processed'[t] = processed[t] + 1
        /\ \A u \in TaskIds \ {t} :
             /\ processed'[u] = processed[u] /\ ticks'[u] = ticks[u]
             /\ semaphore'[u] = semaphore[u]
        /\ ticks'[t] = UpdatedTicks(t)
        /\ semaphore'[t] = IF Releases(t) THEN semaphore[t] + 1 ELSE semaphore[t]
    BY <1>1, SlotHasRoom DEF CadenceInv, CadenceTypeOK, Inv, TypeOK
  <1>4. CadenceTypeOK' /\ NothingCounted'
    BY <1>1, <1>2, <1>3 DEF CadenceInv, CadenceTypeOK, NothingCounted
  <1>5. SlotsBounded'
    BY <1>1 DEF CadenceInv, SlotsBounded, Begun
  <1>6. SlotsFollowTimer'
    <2>1. \A u \in TaskIds \ {t} : u \in todo' <=> u \in todo
      BY <1>1
    <2>2. expired \in Nat /\ schedule_semaphore \in Nat
      BY DEF CadenceInv, CadenceTypeOK, Inv, TypeOK
    <2>3. expired = processed'[t] + schedule_semaphore + 0
      BY <1>1, <1>3, <2>2 DEF CadenceInv, SlotsFollowTimer
    <2>4. ASSUME NEW u \in TaskIds \ {t}
          PROVE  expired = processed'[u] + schedule_semaphore
                   + (IF scheduler' = "slot" /\ u \in todo' THEN 1 ELSE 0)
      BY <1>1, <1>3, <2>1, <2>2 DEF CadenceInv, SlotsFollowTimer
    <2> QED
      BY <1>1, <2>3, <2>4 DEF SlotsFollowTimer
  <1>7. /\ Released(t)' = IF Releases(t) THEN Released(t) + 1 ELSE Released(t)
        /\ \A u \in TaskIds \ {t} : Released(u)' = Released(u)
    BY <1>1, <1>3, Counts DEF Released, Unblocked
  <1>8. ReleasesBounded'
    BY <1>3, <1>7, Counts DEF CadenceInv, ReleasesBounded
  <1>9. CadenceIsExact'
    <2>1. ASSUME NEW u \in TaskIds \ {t}, Periodic(u), config[u].heartbeat_period > 0
          PROVE  /\ ticks'[u] < config[u].schedule_period
                 /\ processed'[u] = Released(u)' * config[u].schedule_period + ticks'[u]
      BY <1>3, <1>7, <2>1 DEF CadenceInv, CadenceIsExact
    <2>2. ASSUME Periodic(t), config[t].heartbeat_period > 0
          PROVE  /\ ticks'[t] < config[t].schedule_period
                 /\ processed'[t] = Released(t)' * config[t].schedule_period + ticks'[t]
      <3> DEFINE p == config[t].schedule_period
                 r == Released(t)
      <3>1. /\ processed[t] = r * p + ticks[t] /\ ticks[t] < p
            /\ p \in Int /\ r \in Int /\ ticks[t] \in Nat
        BY <2>2, Counts DEF CadenceInv, CadenceIsExact
      <3>2. Ticked(t) = ticks[t] + 1
        BY <2>2, TicksBySlot
      <3>3. r * p \in Int
        BY <3>1
      <3>4. CASE IsDue(t)
        <4>1. ticks'[t] = 0 /\ Releases(t) /\ ticks[t] + 1 = p
          BY <1>3, <2>2, <3>2, <3>4, Counts
             DEF UpdatedTicks, Releases, MissesHeartbeat, IsDue, Periodic
        <4>2. processed'[t] = r * p + p
          BY <1>3, <3>1, <3>3, <4>1
        <4>3. Released(t)' * p = r * p + p
          BY <1>7, <3>1, <4>1, OneMoreRelease
        <4> HIDE DEF p, r
        <4>4. r * p + p \in Int /\ 0 < p
          BY <3>1, <3>3
        <4> QED
          BY <4>1, <4>2, <4>3, <4>4 DEF p
      <3>5. CASE ~IsDue(t)
        <4>1. ticks'[t] = ticks[t] + 1 /\ ~Releases(t) /\ ticks[t] + 1 # p
          BY <1>3, <2>2, <3>2, <3>5 DEF UpdatedTicks, Releases, IsDue, Periodic
        <4>2. Released(t)' = r /\ processed'[t] = r * p + (ticks[t] + 1)
          BY <1>3, <1>7, <3>1, <3>3, <4>1
        <4>3. ticks[t] + 1 < p
          BY <3>1, <4>1, NotYetDue
        <4> HIDE DEF p, r
        <4> QED
          BY <4>1, <4>2, <4>3 DEF p
      <3> QED
        BY <3>4, <3>5
    <2> QED
      BY <1>1, <2>1, <2>2 DEF CadenceIsExact, Periodic
  <1> QED
    BY <1>4, <1>5, <1>6, <1>8, <1>9 DEF CadenceInv

\* The give that unblocks a task at shutdown is not a release, and is not lost.
LEMMA CadenceDrain ==
  ASSUME TaskManagerAssumption, CadenceAssumption, Inv, CadenceInv,
         NEW t \in TaskIds, SchedulerDrain(t), UNCHANGED history
  PROVE  CadenceInv'
  <1>1. /\ scheduler = "drain" /\ t \in todo /\ todo' = todo \ {t}
        /\ scheduler' \in {"drain", "done"}
        /\ UNCHANGED <<config, ticks, schedule_semaphore, continue_running, init,
                       expired, processed, takes>>
        /\ semaphore' = IF Periodic(t) THEN [semaphore EXCEPT ![t] = Given(@)] ELSE semaphore
        /\ scheduler' = "done" => todo' = {}
    BY DEF SchedulerDrain, IsFirst, Periodic, history
  <1>2. init \notin {"boot", "ready"}
    BY <1>1 DEF Inv, BeforeStart, Spawned, TaskManagerAssumption
  <1>3. CadenceTypeOK' /\ NothingCounted' /\ SlotsBounded' /\ SlotsFollowTimer'
    BY <1>1, <1>2 DEF CadenceInv, CadenceTypeOK, NothingCounted, SlotsBounded, Begun,
                      SlotsFollowTimer
  <1>4. Given(semaphore[t]) = semaphore[t] + 1
    <2>1. expired = processed[t] + schedule_semaphore
      BY <1>1, Counts DEF CadenceInv, SlotsFollowTimer
    <2>2. takes[t] + semaphore[t] <= processed[t]
      <3>1. Released(t) = takes[t] + semaphore[t]
        BY <1>1, Counts DEF Released, Unblocked
      <3> QED
        BY <3>1 DEF CadenceInv, ReleasesBounded
    <2>3. expired - schedule_semaphore <= MaxExpirations + 1
      BY DEF CadenceInv, SlotsBounded, Begun
    <2> QED
      BY <2>1, <2>2, <2>3, Counts, SemaphoreMax DEF Given
  <1>5. \A u \in TaskIds \ {t} : Released(u)' = Released(u)
    <2>1. \A u \in TaskIds \ {t} : semaphore'[u] = semaphore[u] /\ (Unblocked(u)' <=> Unblocked(u))
      BY <1>1 DEF Unblocked, Inv, TypeOK
    <2> QED
      BY <1>1, <2>1 DEF Released
  <1>6. Released(t)' = IF Periodic(t) THEN Released(t) ELSE Released(t) - 1
    <2>1. ~Unblocked(t) /\ Unblocked(t)'
      BY <1>1 DEF Unblocked
    <2>2. semaphore'[t] = IF Periodic(t) THEN semaphore[t] + 1 ELSE semaphore[t]
      BY <1>1, <1>4 DEF Inv, TypeOK
    <2> QED
      BY <1>1, <2>1, <2>2, Counts DEF Released
  <1>7. ReleasesBounded'
    BY <1>1, <1>5, <1>6, Counts DEF CadenceInv, ReleasesBounded
  <1>8. CadenceIsExact'
    BY <1>1, <1>5, <1>6 DEF CadenceInv, CadenceIsExact, Periodic
  <1> QED
    BY <1>3, <1>7, <1>8 DEF CadenceInv

(***************************************************************************)
(* The tasks.                                                              *)
(***************************************************************************)

\* A task takes its release from its semaphore.
LEMMA CadenceWait ==
  ASSUME Inv, CadenceInv, NEW t \in ClientIds, CountTake(t)
  PROVE  CadenceInv'
  <1>1. /\ UNCHANGED <<config, ticks, schedule_semaphore, continue_running, init, scheduler,
                       todo, expired, processed>>
        /\ takes' = [takes EXCEPT ![t] = @ + (semaphore[t] - semaphore'[t])]
        /\ worker[t] = "entry"
        /\ AwaitsRelease(t)
    BY DEF CountTake, TmRunningWait, TmRunningBlocks
  <1>2. t \in TaskIds /\ semaphore[t] \in Nat /\ takes[t] \in Nat
    BY DEF ClientIds, Inv, TypeOK, CadenceInv, CadenceTypeOK
  <1>3. /\ \A u \in TaskIds \ {t} : semaphore'[u] = semaphore[u]
        /\ \/ semaphore'[t] = semaphore[t]
           \/ semaphore'[t] = semaphore[t] - 1
    BY <1>1, <1>2 DEF AwaitsRelease, Inv, TypeOK
  <1>4. /\ takes' \in [TaskIds -> Nat]
        /\ takes'[t] = takes[t] + (semaphore[t] - semaphore'[t])
        /\ \A u \in TaskIds \ {t} : takes'[u] = takes[u]
    BY <1>1, <1>2, <1>3 DEF CadenceInv, CadenceTypeOK
  <1>5. init \notin {"boot", "ready"}
    BY <1>1, <1>2 DEF Inv, BeforeStart, Spawned, ClientIds
  <1>6. CadenceTypeOK' /\ NothingCounted' /\ SlotsBounded' /\ SlotsFollowTimer'
    BY <1>1, <1>4, <1>5 DEF CadenceInv, CadenceTypeOK, NothingCounted, SlotsBounded, Begun,
                            SlotsFollowTimer
  <1>7. \A u \in TaskIds : Released(u)' = Released(u)
    <2>1. takes'[t] + semaphore'[t] = takes[t] + semaphore[t]
      BY <1>2, <1>3, <1>4
    <2>2. \A u \in TaskIds : Unblocked(u)' <=> Unblocked(u)
      BY <1>1 DEF Unblocked
    <2>3. \A u \in TaskIds \ {t} : Released(u)' = Released(u)
      BY <1>3, <1>4, <2>2 DEF Released
    <2>4. Released(t)' = Released(t)
      <3> DEFINE b == IF Unblocked(t) THEN 1 ELSE 0
      <3>1. b' = b
        BY <1>1 DEF Unblocked
      <3>2. Released(t) = takes[t] + (semaphore[t] - b)
        BY DEF Released
      <3>3. Released(t)' = takes'[t] + (semaphore'[t] - b)
        BY <3>1 DEF Released
      <3>4. b \in Int /\ semaphore'[t] \in Int /\ takes'[t] \in Int
        BY <1>2, <1>3, <1>4
      <3> HIDE DEF b
      <3> QED
        BY <1>2, <2>1, <3>2, <3>3, <3>4
    <2> QED
      BY <2>3, <2>4
  <1> QED
    BY <1>1, <1>6, <1>7, RatesKept DEF CadenceInv

\* What a task does between two waits counts nothing.
LEMMA CadenceTaskRuns ==
  ASSUME CadenceInv, NEW t \in ClientIds, TmRunningReturn(t) \/ TaskBody(t),
         UNCHANGED history
  PROVE  CadenceInv'
  <1>1. /\ UNCHANGED <<config, ticks, semaphore, schedule_semaphore, todo>>
        /\ UNCHANGED <<expired, processed, takes>>
        /\ scheduler' = scheduler /\ continue_running' = continue_running /\ init' = init
    BY DEF TmRunningReturn, TaskBody, history
  <1> QED
    BY <1>1, QuietStep

(***************************************************************************)
(* The invariants hold of every behaviour.                                 *)
(***************************************************************************)

\* A step that is counted is a step of the Task Manager.
LEMMA CadenceStepMaps == [CadenceNext]_cadenceVars => [Next]_tmVars
  BY DEF CadenceNext, CountExpiration, CountSlot, CountTake, CountNothing, Next, Scheduler,
         Worker, cadenceVars

\* Every step keeps the invariant.
LEMMA CadenceStep ==
  ASSUME TaskManagerAssumption, CadenceAssumption, Inv, Inv', CadenceInv,
         [CadenceNext]_cadenceVars
  PROVE  CadenceInv'
  <1>1. CASE UNCHANGED cadenceVars
    <2>1. /\ UNCHANGED <<config, ticks, semaphore, schedule_semaphore, todo>>
          /\ UNCHANGED <<expired, processed, takes>>
          /\ scheduler' = scheduler /\ continue_running' = continue_running /\ init' = init
      BY <1>1 DEF cadenceVars, tmVars, history
    <2> QED
      BY <2>1, QuietStep
  <1>2. CASE CountNothing
    BY <1>2, CadenceInitialize, CadenceRegistration, CadenceStart, CadenceLoop, CadenceTake,
       CadenceDrain, CadenceTaskRuns DEF CountNothing
  <1> QED
    BY <1>1, <1>2, CadenceExpiration, CadenceSlot, CadenceWait DEF CadenceNext

\* The schedule's invariant: how many slots have begun and how often each task
\* was released, in every behaviour.
THEOREM CadenceInvInvariant == CadenceSpec => [](Inv /\ CadenceInv)
  <1>1. CadenceInit => Inv /\ CadenceInv
    BY TaskManagerAssumption, CadenceAssumption, InitInv, CadenceInitially DEF CadenceInit
  <1>2. Inv /\ CadenceInv /\ [CadenceNext]_cadenceVars => (Inv /\ CadenceInv)'
    <2> SUFFICES ASSUME Inv, CadenceInv, [CadenceNext]_cadenceVars
                 PROVE  Inv' /\ CadenceInv'
      OBVIOUS
    <2>1. Inv'
      BY TaskManagerAssumption, CadenceStepMaps, InvStep
    <2> QED
      BY <2>1, TaskManagerAssumption, CadenceAssumption, CadenceStep
  <1> QED
    BY <1>1, <1>2, PTL DEF CadenceSpec

\* Each periodic task is released exactly once per period, whatever the periods
\* and whatever else the scheduler and the tasks do.
THEOREM ExactCadence == CadenceSpec => []CadenceIsExact
  <1>1. CadenceInv => CadenceIsExact
    BY DEF CadenceInv
  <1> QED
    BY <1>1, CadenceInvInvariant, PTL

\* Every expiration of the timer becomes one slot of every entry.
THEOREM SlotPerExpiration == CadenceSpec => []SlotsFollowTimer
  <1>1. CadenceInv => SlotsFollowTimer
    BY DEF CadenceInv
  <1> QED
    BY <1>1, CadenceInvInvariant, PTL

(***************************************************************************)
(* Heartbeats.                                                             *)
(***************************************************************************)

\* Where ticks go back to zero: at the period, or where the uint32_t wraps.
TicksEnd(t) == IF Periodic(t) THEN config[t].schedule_period ELSE TickModulus

\* The ticks of a task count its slots until they first go back to zero.
TicksFollowSlots ==
  \A t \in TaskIds : HasThread(t) =>
    /\ ticks[t] <= processed[t]
    /\ processed[t] < TicksEnd(t) => ticks[t] = processed[t]

HeartbeatInv == TicksFollowSlots /\ MissedHeartbeatsAreExact

\* Before tm_start there was no slot, and nothing is reported.
LEMMA HeartbeatsBeforeStart ==
  ASSUME Inv, CadenceInv, init \in {"boot", "ready"}
  PROVE  HeartbeatInv
  <1>1. \A t \in TaskIds : processed[t] = 0 /\ ticks[t] = 0
    BY DEF CadenceInv, NothingCounted
  <1>2. tasks_missed_heartbeat = {}
    BY DEF Inv, BeforeStart
  <1>3. \A t \in TaskIds : ~Overdue(t)
    BY <1>1 DEF Overdue
  <1> QED
    BY <1>1, <1>2, <1>3 DEF HeartbeatInv, TicksFollowSlots, MissedHeartbeatsAreExact

\* So it is after a step.
LEMMA HeartbeatsBeforeStartNext ==
  ASSUME Inv', CadenceInv', init' \in {"boot", "ready"}
  PROVE  HeartbeatInv'
  <1>1. \A t \in TaskIds : processed'[t] = 0 /\ ticks'[t] = 0
    BY DEF CadenceInv, NothingCounted
  <1>2. tasks_missed_heartbeat' = {}
    BY DEF Inv, BeforeStart
  <1>3. \A t \in TaskIds : ~Overdue(t)'
    BY <1>1 DEF Overdue
  <1> QED
    BY <1>1, <1>2, <1>3 DEF HeartbeatInv, TicksFollowSlots, MissedHeartbeatsAreExact, BitOf

\* A step in which no entry is updated reports nothing.
LEMMA HeartbeatsKept ==
  ASSUME HeartbeatInv, UNCHANGED <<config, ticks, processed, tasks_missed_heartbeat>>
  PROVE  HeartbeatInv'
  <1>1. \A t \in TaskIds : Overdue(t)' <=> Overdue(t)
    BY DEF Overdue, HasThread, Periodic
  <1>2. MissedHeartbeatsAreExact'
    BY <1>1 DEF HeartbeatInv, MissedHeartbeatsAreExact, BitOf
  <1>3. TicksFollowSlots'
    BY DEF HeartbeatInv, TicksFollowSlots, HasThread, Periodic, TicksEnd
  <1> QED
    BY <1>2, <1>3 DEF HeartbeatInv

\* The ticks with which an entry is processed: as many as its slots, until they
\* first go back to zero, and never more.
LEMMA TicksInSlot ==
  ASSUME TaskManagerAssumption, CadenceAssumption, Inv, CadenceInv, HeartbeatInv,
         NEW t \in TaskIds, HasThread(t)
  PROVE  /\ UpdatedTicks(t) \in Nat /\ UpdatedTicks(t) <= processed[t] + 1
         /\ processed[t] + 1 < TicksEnd(t) => UpdatedTicks(t) = processed[t] + 1
         /\ Periodic(t) => UpdatedTicks(t) < config[t].schedule_period
  <1>1. /\ ticks[t] \in Nat /\ processed[t] \in Nat /\ config[t].schedule_period \in Nat
        /\ TickModulus \in Nat \ {0} /\ ticks[t] < TickModulus
    BY Counts DEF TaskManagerAssumption, TM_SCHEDULER_PERIOD, Inv, TypeOK
  <1>2. /\ ticks[t] <= processed[t]
        /\ processed[t] < TicksEnd(t) => ticks[t] = processed[t]
    BY DEF HeartbeatInv, TicksFollowSlots
  <1>3. CASE Periodic(t)
    <2>1. Ticked(t) = ticks[t] + 1 /\ ticks[t] < config[t].schedule_period
      BY <1>3, TicksBySlot DEF Inv, TicksBelowPeriod
    <2>2. IsDue(t) <=> ticks[t] + 1 = config[t].schedule_period
      BY <1>3, <2>1 DEF IsDue, Periodic
    <2>3. TicksEnd(t) = config[t].schedule_period
      BY <1>3 DEF TicksEnd
    <2> QED
      BY <1>1, <1>2, <2>1, <2>2, <2>3 DEF UpdatedTicks
  <1>4. CASE ~Periodic(t)
    <2>1. UpdatedTicks(t) = (ticks[t] + 1) % TickModulus /\ TicksEnd(t) = TickModulus
      BY <1>4 DEF UpdatedTicks, IsDue, Ticked, HasThread, Periodic, TicksEnd
    <2>2. /\ (ticks[t] + 1) % TickModulus \in 0 .. TickModulus - 1
          /\ ticks[t] + 1 < TickModulus => (ticks[t] + 1) % TickModulus = ticks[t] + 1
      <3>1. ticks[t] + 1 \in Nat /\ TickModulus \in Nat \ {0}
        BY <1>1
      <3> QED
        BY <3>1, ModuloBelow
    <2>3. ticks[t] + 1 = TickModulus => (ticks[t] + 1) % TickModulus <= ticks[t] + 1
      BY <1>1, <2>2
    <2> HIDE DEF UpdatedTicks
    <2> QED
      BY <1>1, <1>2, <1>4, <2>1, <2>2, <2>3
  <1> QED
    BY <1>3, <1>4

\* An entry is reported in a slot exactly if it is overdue for the first time in it,
\* or was before.
LEMMA OverdueInSlot ==
  ASSUME TaskManagerAssumption, CadenceAssumption, Inv, CadenceInv, HeartbeatInv,
         NEW t \in TaskIds, UNCHANGED config, processed'[t] = processed[t] + 1
  PROVE  /\ Overdue(t) \/ MissesHeartbeat(t) => Overdue(t)'
         /\ Overdue(t)' => Overdue(t) \/ MissesHeartbeat(t)
  <1> DEFINE h == config[t].heartbeat_period
             p == config[t].schedule_period
             n == processed[t]
  <1>1. n \in Nat /\ h \in Nat /\ p \in Nat
    BY Counts
  <1>2. h < TickModulus /\ TickModulus \in Nat /\ TickModulus > 1
    BY DEF Inv, TypeOK, TaskConfig, TaskManagerAssumption, TM_SCHEDULER_PERIOD
  <1>3. Overdue(t)' <=> HasThread(t) /\ (Periodic(t) => h < p) /\ n + 1 >= h
    BY <1>1 DEF Overdue, HasThread, Periodic
  <1>4. Overdue(t) <=> HasThread(t) /\ (Periodic(t) => h < p) /\ n > 0 /\ n >= h
    BY DEF Overdue
  <1>5. MissesHeartbeat(t) <=> HasThread(t) /\ UpdatedTicks(t) >= h
    BY DEF MissesHeartbeat
  <1>6. CASE ~HasThread(t)
    BY <1>3, <1>4, <1>5, <1>6
  <1>7. CASE HasThread(t)
    <2>1. /\ UpdatedTicks(t) \in Nat /\ UpdatedTicks(t) <= n + 1
          /\ n + 1 < TicksEnd(t) => UpdatedTicks(t) = n + 1
          /\ Periodic(t) => UpdatedTicks(t) < p
      BY <1>7, TicksInSlot
    <2>2. TicksEnd(t) = IF Periodic(t) THEN p ELSE TickModulus
      BY DEF TicksEnd
    <2>3. PICK u \in Nat : u = UpdatedTicks(t)
      BY <2>1
    <2> HIDE DEF h, p, n
    <2>4. (Overdue(t) \/ MissesHeartbeat(t)) => Overdue(t)'
      BY <1>1, <1>3, <1>4, <1>5, <1>7, <2>1, <2>3
    <2>5. ASSUME Periodic(t) => h < p, n + 1 >= h, ~(n > 0 /\ n >= h)
          PROVE  u >= h
      <3>1. n = 0 \/ n + 1 = h
        BY <1>1, <2>5
      <3>2. CASE n + 1 = h
        BY <1>1, <1>2, <2>1, <2>2, <2>3, <2>5, <3>2
      <3>3. CASE n = 0 /\ h # 1
        BY <1>1, <2>3, <2>5, <3>3
      <3> QED
        BY <3>1, <3>2, <3>3
    <2> QED
      BY <1>3, <1>4, <1>5, <1>7, <2>3, <2>4, <2>5
  <1> QED
    BY <1>6, <1>7

\* One entry of a slot: its ticks, and its report if it is overdue.
LEMMA HeartbeatSlot ==
  ASSUME TaskManagerAssumption, CadenceAssumption, Inv, CadenceInv, HeartbeatInv,
         NEW t \in TaskIds, CountSlot(t)
  PROVE  HeartbeatInv'
  <1>1. /\ config' = config
        /\ ticks' = [ticks EXCEPT ![t] = UpdatedTicks(t)]
        /\ processed' = [processed EXCEPT ![t] = @ + 1]
        /\ tasks_missed_heartbeat' = IF MissesHeartbeat(t)
                                     THEN tasks_missed_heartbeat \cup BitOf(t)
                                     ELSE tasks_missed_heartbeat
    BY DEF CountSlot, SchedulerSlot
  <1>2. /\ processed'[t] = processed[t] + 1 /\ ticks'[t] = UpdatedTicks(t)
        /\ \A u \in TaskIds \ {t} : processed'[u] = processed[u] /\ ticks'[u] = ticks[u]
    BY <1>1 DEF CadenceInv, CadenceTypeOK, Inv, TypeOK
  <1>3. TicksFollowSlots'
    <2>1. HasThread(t) => /\ ticks'[t] <= processed'[t]
                          /\ processed'[t] < TicksEnd(t) => ticks'[t] = processed'[t]
      BY <1>2, TicksInSlot
    <2>2. \A u \in TaskIds : (HasThread(u)' <=> HasThread(u)) /\ TicksEnd(u)' = TicksEnd(u)
      BY <1>1 DEF HasThread, TicksEnd, Periodic
    <2> QED
      BY <1>2, <2>1, <2>2 DEF HeartbeatInv, TicksFollowSlots
  <1>4. MissedHeartbeatsAreExact'
    <2>1. Overdue(t)' <=> Overdue(t) \/ MissesHeartbeat(t)
      BY <1>1, <1>2, OverdueInSlot
    <2>2. \A u \in TaskIds \ {t} : Overdue(u)' <=> Overdue(u)
      BY <1>1, <1>2 DEF Overdue, HasThread, Periodic
    <2>3. tasks_missed_heartbeat = UNION {BitOf(u) : u \in {v \in TaskIds : Overdue(v)}}
      BY DEF HeartbeatInv, MissedHeartbeatsAreExact
    <2>4. \A b : b \in tasks_missed_heartbeat' <=>
                 \E u \in TaskIds : Overdue(u)' /\ b \in BitOf(u)
      BY <1>1, <2>1, <2>2, <2>3
    <2>5. tasks_missed_heartbeat' =
            UNION {BitOf(u) : u \in {v \in TaskIds : Overdue(v)'}}
      BY <2>4
    <2> QED
      BY <2>5 DEF MissedHeartbeatsAreExact, BitOf
  <1> QED
    BY <1>3, <1>4 DEF HeartbeatInv

\* Every step keeps what is reported exact.
LEMMA HeartbeatStep ==
  ASSUME TaskManagerAssumption, CadenceAssumption, Inv, Inv', CadenceInv, CadenceInv',
         HeartbeatInv, [CadenceNext]_cadenceVars
  PROVE  HeartbeatInv'
  <1>1. CASE TmInitialize \/ Registration
    <2>1. init' \in {"boot", "ready"}
      BY <1>1, RegistrationStep DEF TmInitialize, Register, Inv
    <2> QED
      BY <2>1, HeartbeatsBeforeStartNext
  <1>2. ASSUME NEW t \in TaskIds, CountSlot(t) PROVE HeartbeatInv'
    BY <1>2, HeartbeatSlot
  <1>3. CASE UNCHANGED cadenceVars
    BY <1>3, HeartbeatsKept DEF cadenceVars, tmVars, history
  <1>4. CASE CountExpiration \/ \E t \in ClientIds : CountTake(t)
    BY <1>4, HeartbeatsKept DEF CountExpiration, TimerExpires, CountTake, TmRunningWait,
       TmRunningBlocks
  <1>5. ASSUME CountNothing, ~(TmInitialize \/ Registration)
        PROVE  HeartbeatInv'
    BY <1>5, HeartbeatsKept DEF CountNothing, Start, TmStart, TmStartTask, TmStartTimer, TmStop,
       SchedulerLoop, SchedulerTake, SchedulerDrain, TmRunningReturn, TaskBody, history
  <1> QED
    BY <1>1, <1>2, <1>3, <1>4, <1>5 DEF CadenceNext, CountNothing

\* Which tasks are reported for a missed heartbeat is a matter of their periods, of
\* their heartbeats and of how many slots there were, for all of them: it does not
\* depend on what any task does.
THEOREM ExactHeartbeats == CadenceSpec => []MissedHeartbeatsAreExact
  <1>1. CadenceInit => HeartbeatInv
    <2> SUFFICES ASSUME CadenceInit
                 PROVE  HeartbeatInv
      OBVIOUS
    <2>1. Inv /\ CadenceInv /\ init = "boot"
      BY TaskManagerAssumption, CadenceAssumption, InitInv, CadenceInitially
         DEF CadenceInit, Init
    <2> QED
      BY <2>1, HeartbeatsBeforeStart
  <1>2. Inv /\ Inv' /\ CadenceInv /\ CadenceInv' /\ HeartbeatInv /\ [CadenceNext]_cadenceVars
          => HeartbeatInv'
    BY TaskManagerAssumption, CadenceAssumption, HeartbeatStep
  <1>3. HeartbeatInv => MissedHeartbeatsAreExact
    BY DEF HeartbeatInv
  <1> QED
    BY <1>1, <1>2, <1>3, CadenceInvInvariant, PTL DEF CadenceSpec
================================================================================
