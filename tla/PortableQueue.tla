----------------------------- MODULE PortableQueue -----------------------------
(***************************************************************************)
(* The queue built from pthreads alone (os/posix/src/os_queue_portable.c): *)
(* a ring of num_msgs slots, a recursive mutex and two condition variables,*)
(* one step of a caller per access to what the callers share.              *)
(*                                                                         *)
(* Pthread functions return a positive error number, so that none of the   *)
(* comparisons "ret_code < 0" is ever true: a mutex that was not obtained  *)
(* is treated as taken.  The deadline given to pthread_mutex_timedlock is  *)
(* in the past of the clock it uses (it is monotonic in a send and relative*)
(* in a receive), so that a contended mutex is given up at once.  Only a   *)
(* send with OS_TIMEOUT_WAIT_FOREVER has a deadline in the far future, -1  *)
(* ticks being converted to an unsigned number, unless its nanoseconds are *)
(* out of range; such a caller is patient.                                 *)
(*                                                                         *)
(* Abstracted: a message and its size are one value; calls rejected for a  *)
(* NULL pointer or a size change nothing and are left out; a wait does not *)
(* wake without a signal.                                                  *)
(***************************************************************************)
EXTENDS Naturals, Sequences

CONSTANTS
  Callers, Messages, NumMsgs,
  NoMessage,      (* what a buffer holds that was never filled              *)
  NoCaller,       (* not a caller: nobody holds the mutex                   *)
  CountModulus,   (* num_queued is a uint32_t: it wraps at this value       *)
  Serialized,     (* does a call start only while the others wait?          *)
  MaxDepth        (* bound: levels of the recursive mutex                   *)

ASSUME PortableQueueAssumption ==
  /\ NumMsgs \in Nat \ {0}
  /\ NoMessage \notin Messages
  /\ NoCaller \notin Callers
  /\ CountModulus \in Nat /\ CountModulus > NumMsgs
  /\ Serialized \in BOOLEAN
  /\ MaxDepth \in Nat \ {0}

VARIABLES
  slots,         (* buffer and msg_sizes                                   *)
  offset,        (* write_offset ("send") and read_offset ("receive")      *)
  num_queued,
  owner, depth,  (* of the mutex                                           *)
  signalled,     (* waiters a condition variable has let go                *)
  pc,            (* where each caller is in its call                       *)
  op, message,   (* the call: what it sends, or what it has received       *)
  patient,       (* the callers whose deadline never comes                 *)
  loaded,        (* the operand of the increment the caller is in          *)
  result         (* what the call returns                                  *)

portableVars == <<slots, offset, num_queued, owner, depth, signalled,
                  pc, op, message, patient, loaded, result>>

Slots == 0 .. NumMsgs - 1
Operations == {"send", "receive"}

PortableTypeOK ==
  /\ slots \in [Slots -> Messages \cup {NoMessage}]
  /\ offset \in [Operations -> Slots]
  /\ num_queued \in 0 .. CountModulus - 1
  /\ owner \in Callers \cup {NoCaller}
  /\ depth \in 0 .. MaxDepth + 1
  /\ signalled \subseteq Callers
  /\ pc \in [Callers -> {"idle", "lock", "check", "wait", "waiting", "copy",
                         "offset", "advance", "count", "update", "signal",
                         "unlock", "return"}]
  /\ op \in [Callers -> Operations]
  /\ message \in [Callers -> Messages \cup {NoMessage}]
  /\ patient \subseteq Callers
  /\ loaded \in [Callers -> 0 .. CountModulus - 1]
  /\ result \in [Callers -> {"OKAY", "TIMEOUT", "ERROR"}]

\* os_queue_create.
Init ==
  /\ slots = [s \in Slots |-> NoMessage]
  /\ offset = [o \in Operations |-> 0]
  /\ num_queued = 0
  /\ owner = NoCaller
  /\ depth = 0
  /\ signalled = {}
  /\ pc = [c \in Callers |-> "idle"]
  /\ op = [c \in Callers |-> "send"]
  /\ message = [c \in Callers |-> NoMessage]
  /\ patient = {}
  /\ loaded = [c \in Callers |-> 0]
  /\ result = [c \in Callers |-> "OKAY"]

Goto(c, from, to) == pc[c] = from /\ pc' = [pc EXCEPT ![c] = to]

\* Acquiring a recursive mutex that is free or one's own, and releasing one level.
MutexFree(c) == owner \in {NoCaller, c}
Acquire(c) == owner' = c /\ depth' = depth + 1
Release ==
  /\ depth' = depth - 1
  /\ owner' = IF depth = 1 THEN NoCaller ELSE owner

\* A caller that sleeps in its timed wait.
Waiting(c) == pc[c] = "waiting" /\ c \notin signalled

\* The local variables of a call are gone when it has returned.
Leave(c) ==
  /\ op' = [op EXCEPT ![c] = "send"]
  /\ message' = [message EXCEPT ![c] = NoMessage]
  /\ patient' = patient \ {c}
  /\ loaded' = [loaded EXCEPT ![c] = 0]
  /\ result' = [result EXCEPT ![c] = "OKAY"]

(***************************************************************************)
(* One action per step of os_queue_send and os_queue_receive.              *)
(***************************************************************************)
Call(c) ==
  /\ Goto(c, "idle", "lock")
  /\ Serialized => \A d \in Callers : pc[d] = "idle" \/ Waiting(d)
  /\ depth < MaxDepth
  /\ \/ /\ op' = [op EXCEPT ![c] = "send"]
        /\ \E m \in Messages : message' = [message EXCEPT ![c] = m]
        /\ patient' \in {patient, patient \cup {c}}
     \/ /\ op' = [op EXCEPT ![c] = "receive"]
        /\ message' = [message EXCEPT ![c] = NoMessage]
        /\ UNCHANGED patient
  /\ UNCHANGED <<slots, offset, num_queued, owner, depth, signalled, loaded, result>>

\* pthread_mutex_timedlock: the call goes on whether it has the mutex or not,
\* unless it is patient.
Lock(c) ==
  /\ Goto(c, "lock", "check")
  /\ IF MutexFree(c) THEN Acquire(c)
     ELSE c \notin patient /\ UNCHANGED <<owner, depth>>
  /\ UNCHANGED <<slots, offset, num_queued, signalled, op, message, patient,
                 loaded, result>>

\* Mutant of Blocked: the queue counts as full one message too early.
BlockedEarly(c) == num_queued = IF op[c] = "send" THEN NumMsgs - 1 ELSE 0

\* The queue is full for a send or empty for a receive.
Blocked(c) == num_queued = IF op[c] = "send" THEN NumMsgs ELSE 0

Check(c) ==
  /\ Goto(c, "check", IF Blocked(c) THEN "wait" ELSE "copy")
  /\ UNCHANGED <<slots, offset, num_queued, owner, depth, signalled, op,
                 message, patient, loaded, result>>

\* pthread_cond_timedwait refuses at once a mutex that is not the caller's, and
\* a deadline whose nanoseconds are out of range.
WaitRefused(c) ==
  /\ Goto(c, "wait", "return")
  /\ c \notin patient
  /\ result' = [result EXCEPT ![c] = "ERROR"]
  /\ UNCHANGED <<slots, offset, num_queued, owner, depth, signalled, op,
                 message, patient, loaded>>

WaitBegins(c) ==
  /\ Goto(c, "wait", "waiting")
  /\ owner = c
  /\ Release
  /\ UNCHANGED <<slots, offset, num_queued, signalled, op, message, patient,
                 loaded, result>>

\* A wait ends with the mutex, whether it was signalled or timed out, but a
\* timed out call forgets that it has it.
WaitSignalled(c) ==
  /\ Goto(c, "waiting", "copy")
  /\ c \in signalled
  /\ signalled' = signalled \ {c}
  /\ MutexFree(c)
  /\ Acquire(c)
  /\ UNCHANGED <<slots, offset, num_queued, op, message, patient, loaded,
                 result>>

WaitTimesOut(c) ==
  /\ Goto(c, "waiting", "return")
  /\ c \notin patient
  /\ signalled' = signalled \ {c}
  /\ MutexFree(c)
  /\ Acquire(c)
  /\ result' = [result EXCEPT ![c] = "TIMEOUT"]
  /\ UNCHANGED <<slots, offset, num_queued, op, message, patient, loaded>>

Copy(c) ==
  /\ Goto(c, "copy", "offset")
  /\ IF op[c] = "send"
     THEN slots' = [slots EXCEPT ![offset["send"]] = message[c]] /\ UNCHANGED message
     ELSE message' = [message EXCEPT ![c] = slots[offset["receive"]]] /\ UNCHANGED slots
  /\ UNCHANGED <<offset, num_queued, owner, depth, signalled, op, patient,
                 loaded, result>>

\* The offset and the count are each loaded, changed and stored.
LoadOffset(c) ==
  /\ Goto(c, "offset", "advance")
  /\ loaded' = [loaded EXCEPT ![c] = offset[op[c]]]
  /\ UNCHANGED <<slots, offset, num_queued, owner, depth, signalled, op,
                 message, patient, result>>

\* Mutant of StoreOffset: the offset is not wrapped.
StoreOffsetUnwrapped(c) ==
  /\ Goto(c, "advance", "count")
  /\ offset' = [offset EXCEPT ![op[c]] = loaded[c] + 1]
  /\ UNCHANGED <<slots, num_queued, owner, depth, signalled, op, message,
                 patient, loaded, result>>

StoreOffset(c) ==
  /\ Goto(c, "advance", "count")
  /\ offset' = [offset EXCEPT ![op[c]] = (loaded[c] + 1) % NumMsgs]
  /\ UNCHANGED <<slots, num_queued, owner, depth, signalled, op, message,
                 patient, loaded, result>>

LoadCount(c) ==
  /\ Goto(c, "count", "update")
  /\ loaded' = [loaded EXCEPT ![c] = num_queued]
  /\ UNCHANGED <<slots, offset, num_queued, owner, depth, signalled, op,
                 message, patient, result>>

StoreCount(c) ==
  /\ Goto(c, "update", "signal")
  /\ num_queued' = (IF op[c] = "send" THEN loaded[c] + 1
                    ELSE loaded[c] + CountModulus - 1) % CountModulus
  /\ UNCHANGED <<slots, offset, owner, depth, signalled, op, message, patient,
                 loaded, result>>

\* pthread_cond_signal lets go one of those that wait for the other operation.
Signal(c) ==
  /\ Goto(c, "signal", "unlock")
  /\ LET waiters == {d \in Callers : Waiting(d) /\ op[d] # op[c]}
     IN  IF waiters = {} THEN UNCHANGED signalled
         ELSE \E d \in waiters : signalled' = signalled \cup {d}
  /\ UNCHANGED <<slots, offset, num_queued, owner, depth, op, message, patient,
                 loaded, result>>

\* Unlocking a mutex that is another's fails, which is not noticed.
Unlock(c) ==
  /\ Goto(c, "unlock", "idle")
  /\ IF owner = c THEN Release ELSE UNCHANGED <<owner, depth>>
  /\ Leave(c)
  /\ UNCHANGED <<slots, offset, num_queued, signalled>>

\* With mutex_taken false nothing is unlocked.
ReturnWithoutUnlock(c) ==
  /\ Goto(c, "return", "idle")
  /\ Leave(c)
  /\ UNCHANGED <<slots, offset, num_queued, owner, depth, signalled>>

Step(c) ==
  \/ Lock(c) \/ Check(c)
  \/ WaitRefused(c) \/ WaitBegins(c) \/ WaitSignalled(c) \/ WaitTimesOut(c)
  \/ Copy(c) \/ LoadOffset(c) \/ StoreOffset(c) \/ LoadCount(c) \/ StoreCount(c)
  \/ Signal(c) \/ Unlock(c) \/ ReturnWithoutUnlock(c)

Next == \E c \in Callers : Call(c) \/ Step(c)

Spec == Init /\ [][Next]_portableVars

\* A thread in a call runs, and its timed wait ends.
FairSpec == Spec /\ \A c \in Callers : WF_portableVars(Step(c))

(***************************************************************************)
(* Properties.                                                             *)
(***************************************************************************)

\* A receive has moved past its message and has not been counted yet.
Passed == \E c \in Callers : op[c] = "receive" /\ pc[c] \in {"count", "update"}

\* The messages in the queue: those counted, but the one a receive has
\* already moved past.
Length == IF Passed THEN num_queued - 1 ELSE num_queued
Contents == [i \in 1 .. Length |-> slots[(offset["receive"] + i - 1) % NumMsgs]]

\* A send takes effect when it is counted, a receive when it moves on.
TookEffect(c) ==
  \/ pc[c] \in {"signal", "unlock", "return"}
  \/ op[c] = "receive" /\ pc[c] \in {"count", "update"}

\* The call a caller is in, as a user of the queue sees it.
CallOf(c) ==
  IF pc[c] = "idle" THEN [status |-> "idle"]
  ELSE IF TookEffect(c)
       THEN [status |-> "done", op |-> op[c], message |-> message[c],
             result |-> result[c]]
       ELSE [status |-> IF pc[c] \in {"wait", "waiting"} THEN "blocked" ELSE "pending",
             op |-> op[c],
             message |-> IF op[c] = "send" THEN message[c] ELSE NoMessage]
Calls == [c \in Callers |-> CallOf(c)]

Fifo == INSTANCE BoundedQueue WITH queue <- Contents, call <- Calls

\* The queue is the bounded FIFO of os_queue.h, as long as a call runs only
\* while the others wait: although a call that gave up keeps the mutex, so that
\* the later calls of other threads run without it, and although a signal and a
\* deadline may both end the same wait.
ImplementsFifo == Fifo!Spec

\* Every call that has a deadline returns, also one that finds its queue full or
\* empty and whose caller or whose neighbour timed out before.
CallsReturn ==
  \A c \in Callers : pc[c] # "idle" /\ c \notin patient ~> pc[c] = "idle"

\* "Either way, there is space in the queue": a send that copies its message
\* has room for it.
SpaceInQueue ==
  \A c \in Callers : pc[c] = "copy" /\ op[c] = "send" => num_queued < NumMsgs
================================================================================
