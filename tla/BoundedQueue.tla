----------------------------- MODULE BoundedQueue -----------------------------
(***************************************************************************)
(* What os/inc/os_queue.h promises of a queue, whichever file implements   *)
(* it: a first-in first-out buffer of at most num_msgs messages whose      *)
(* calls take effect at one point between their start and their return.    *)
(* A call blocks when it finds the queue full for a send or empty for a    *)
(* receive.  Only a call that is blocked is refused, and then it changes   *)
(* nothing; it may also go on.                                             *)
(***************************************************************************)
EXTENDS Naturals, Sequences

CONSTANTS
  Callers,   (* threads that use the queue         *)
  Messages,  (* what can be sent                   *)
  NoMessage, (* what an empty buffer holds         *)
  NumMsgs    (* num_msgs of os_queue_create        *)

VARIABLES
  queue,     (* the messages in it, oldest first   *)
  call       (* the call each thread is in, if any *)

queueVars == <<queue, call>>

NoCall == [status |-> "idle"]
Pending(op, m) == [status |-> "pending", op |-> op, message |-> m]
Done(op, m, result) ==
  [status |-> "done", op |-> op, message |-> m, result |-> result]

Init == queue = <<>> /\ call = [c \in Callers |-> NoCall]

Invoke(c) ==
  /\ call[c] = NoCall
  /\ \/ \E m \in Messages : call' = [call EXCEPT ![c] = Pending("send", m)]
     \/ call' = [call EXCEPT ![c] = Pending("receive", NoMessage)]
  /\ UNCHANGED queue

Send(c) ==
  /\ Len(queue) < NumMsgs
  /\ \E m \in Messages :
       /\ call[c] = Pending("send", m)
       /\ queue' = Append(queue, m)
       /\ call' = [call EXCEPT ![c] = Done("send", m, "OKAY")]

Receive(c) ==
  /\ queue # <<>>
  /\ call[c] = Pending("receive", NoMessage)
  /\ queue' = Tail(queue)
  /\ call' = [call EXCEPT ![c] = Done("receive", Head(queue), "OKAY")]

Block(c) ==
  /\ \/ /\ Len(queue) = NumMsgs
        /\ \E m \in Messages : call[c] = Pending("send", m)
     \/ queue = <<>> /\ call[c] = Pending("receive", NoMessage)
  /\ call' = [call EXCEPT ![c].status = "blocked"]
  /\ UNCHANGED queue

GoOn(c) ==
  /\ call[c].status = "blocked"
  /\ call' = [call EXCEPT ![c].status = "pending"]
  /\ UNCHANGED queue

Refuse(c) ==
  /\ call[c].status = "blocked"
  /\ \E r \in {"TIMEOUT", "ERROR"} :
       call' = [call EXCEPT ![c] = Done(call[c].op, call[c].message, r)]
  /\ UNCHANGED queue

Return(c) ==
  /\ call[c].status = "done"
  /\ call' = [call EXCEPT ![c] = NoCall]
  /\ UNCHANGED queue

Next ==
  \E c \in Callers :
    \/ Invoke(c) \/ Send(c) \/ Receive(c)
    \/ Block(c) \/ GoOn(c) \/ Refuse(c) \/ Return(c)

Spec == Init /\ [][Next]_queueVars
================================================================================
