-------------------------- MODULE TaskManagerCadence --------------------------
(***************************************************************************)
(* The Task Manager with counters beside it: what the schedule does over a *)
(* run of slots, which no single state of tm.c records.                    *)
(***************************************************************************)
EXTENDS TaskManager, Integers

CONSTANT MaxExpirations  (* bound: timer expirations before tm_stop *)

ASSUME CadenceAssumption ==
  /\ MaxExpirations \in Nat
  /\ SemValueMax > MaxExpirations + 1   (* no give is lost in the bound *)

VARIABLES
  expired,    (* expirations of the timer that were given to the scheduler *)
  processed,  (* slots in which each entry was updated and processed       *)
  takes       (* times each task was let through its semaphore             *)

history == <<expired, processed, takes>>
cadenceVars == <<tmVars, history>>

CadenceTypeOK ==
  /\ expired \in Nat
  /\ processed \in [TaskIds -> Nat]
  /\ takes \in [TaskIds -> Nat]

CadenceInit ==
  /\ Init
  /\ expired = 0
  /\ processed = [t \in TaskIds |-> 0]
  /\ takes = [t \in TaskIds |-> 0]

CountExpiration ==
  /\ continue_running => expired < MaxExpirations
  /\ TimerExpires
  /\ expired' = expired + (schedule_semaphore' - schedule_semaphore)
  /\ UNCHANGED <<processed, takes>>

CountSlot(t) ==
  /\ SchedulerSlot(t)
  /\ processed' = [processed EXCEPT ![t] = @ + 1]
  /\ UNCHANGED <<expired, takes>>

CountTake(t) ==
  /\ TmRunningWait(t)
  /\ takes' = [takes EXCEPT ![t] = @ + (semaphore[t] - semaphore'[t])]
  /\ UNCHANGED <<expired, processed>>

CountNothing ==
  /\ \/ TmInitialize \/ Registration \/ Start \/ TmStop
     \/ SchedulerLoop \/ SchedulerTake
     \/ \E t \in TaskIds : SchedulerDrain(t)
     \/ \E t \in ClientIds : TmRunningReturn(t) \/ TaskBody(t)
  /\ UNCHANGED history

CadenceNext ==
  \/ CountExpiration
  \/ \E t \in TaskIds : CountSlot(t)
  \/ \E t \in ClientIds : CountTake(t)
  \/ CountNothing

CadenceSpec == CadenceInit /\ [][CadenceNext]_cadenceVars

\* Is t past its turn in the loop that unblocks the tasks?
Unblocked(t) == scheduler \in {"drain", "done"} /\ t \notin todo

\* Times t was released: what it took and what its semaphore still holds,
\* but for the give that unblocks it at shutdown.
Released(t) ==
  takes[t] + semaphore[t] - (IF Unblocked(t) THEN 1 ELSE 0)

\* A periodic task is released exactly once per period, counted in slots: the
\* slots seen are the releases times the period plus the ticks counted since
\* the last one.  No interleaving of the timer, the scheduler, tm_running and
\* the shutdown loses or adds a release.
CadenceIsExact ==
  \A t \in TaskIds :
    Periodic(t) /\ config[t].heartbeat_period > 0 =>
      /\ ticks[t] < config[t].schedule_period
      /\ processed[t] = Released(t) * config[t].schedule_period + ticks[t]

\* Every expiration of the timer becomes one slot, in which every entry is
\* processed once: it waits in the semaphore, is in progress or was processed.
SlotsFollowTimer ==
  \A t \in TaskIds :
    expired = processed[t] + schedule_semaphore
              + (IF scheduler = "slot" /\ t \in todo THEN 1 ELSE 0)

\* Has t been in a slot with as many ticks as its heartbeat?  tm_update_task counts
\* slots, not what the task does, and resets a due entry before the comparison.
Overdue(t) ==
  /\ HasThread(t)
  /\ Periodic(t) => config[t].heartbeat_period < config[t].schedule_period
  /\ processed[t] > 0 /\ processed[t] >= config[t].heartbeat_period

\* Which tasks are reported for a missed heartbeat, and from which slot on: an
\* event task as soon as there were as many slots as its heartbeat, a periodic one
\* only if its heartbeat is shorter than its period, and then in its first period.
\* What the task does makes no difference, although tm.h calls it the slots "until
\* it must provide a heartbeat" and "the maximum number of ticks between
\* heartbeats": a task that hangs is not reported for it, nor is one spared that
\* calls tm_running in time.
MissedHeartbeatsAreExact ==
  tasks_missed_heartbeat = UNION {BitOf(t) : t \in {u \in TaskIds : Overdue(u)}}
================================================================================
