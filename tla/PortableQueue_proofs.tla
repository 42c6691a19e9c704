-------------------------- MODULE PortableQueue_proofs --------------------------
(***************************************************************************)
(* Proofs about the portable queue for any number of callers, messages and *)
(* slots.                                                                  *)
(***************************************************************************)
EXTENDS PortableQueue, SequenceTheorems, TLAPS

(***************************************************************************)
(* The invariant of every behaviour: types and the recursive mutex.        *)
(***************************************************************************)

\* The mutex has levels while somebody has it, and only its owner adds to them.
MutexInv ==
  /\ owner = NoCaller <=> depth = 0
  /\ depth <= MaxDepth
  /\ \A c \in Callers : owner = c /\ pc[c] \in {"lock", "waiting"} => depth < MaxDepth
  /\ \A c \in signalled : pc[c] = "waiting"

PortableInv == PortableTypeOK /\ MutexInv

(***************************************************************************)
(* The invariant of serialized calls.                                      *)
(***************************************************************************)

\* The callers between the start of a call and its signal.  What a caller does
\* after its signal, asleep or on its way out changes no data.
Moving(c) ==
  \/ pc[c] \in {"lock", "check", "wait", "copy", "offset", "advance", "count",
                "update", "signal"}
  \/ c \in signalled

OneMoves == \A c, d \in Callers : Moving(c) /\ Moving(d) => c = d

\* Room for what the caller is about to do, or is in the middle of doing.
Room(c) == IF op[c] = "send" THEN num_queued < NumMsgs ELSE num_queued > 0

\* What the caller has done leaves room for the other operation.
RoomForOther(c) == IF op[c] = "send" THEN num_queued > 0 ELSE num_queued < NumMsgs

CountInv ==
  /\ num_queued <= NumMsgs
  /\ \A c \in Callers :
       /\ pc[c] \in {"copy", "offset", "advance", "count", "update"} => Room(c)
       /\ c \in signalled => Room(c)
       /\ pc[c] = "update" => loaded[c] = num_queued
       /\ pc[c] = "signal" => RoomForOther(c)

\* A send has moved past its slot and has not been counted yet.
Sent == \E c \in Callers : op[c] = "send" /\ pc[c] \in {"count", "update"}

\* Where the next message goes.
NextSlot == (offset["receive"] + Length) % NumMsgs

\* The offsets are as far apart as there are messages, each slot between them holds
\* one, and so do the slot that a send has filled and the buffer of a receive.
RingInv ==
  /\ offset["send"] = (offset["receive"] + IF Sent THEN Length + 1 ELSE Length) % NumMsgs
  /\ \A i \in 1 .. Length : slots[(offset["receive"] + i - 1) % NumMsgs] \in Messages
  /\ \A c \in Callers :
       /\ op[c] = "send" /\ pc[c] \in {"offset", "advance", "count", "update"} =>
            slots[NextSlot] = message[c]
       /\ op[c] = "receive" /\ pc[c] \in {"offset", "advance"} =>
            message[c] = slots[offset["receive"]]
       /\ pc[c] = "advance" => loaded[c] = offset[op[c]]

\* What a call sends is a message, what it will receive is not there yet, and
\* only a call that gave up has another result than success.
CallInv ==
  \A c \in Callers :
    /\ op[c] = "send" /\ pc[c] # "idle" => message[c] \in Messages
    /\ op[c] = "receive" /\ pc[c] \in {"lock", "check", "wait", "waiting", "copy"} =>
         message[c] = NoMessage
    /\ pc[c] # "return" => result[c] = "OKAY"

SerialInv == OneMoves /\ CountInv /\ RingInv /\ CallInv

(***************************************************************************)
(* Arithmetic.                                                             *)
(***************************************************************************)

\* A number reduced by a modulus is below it, and one below it stays.
LEMMA Modulo ==
  ASSUME NEW m \in Nat \ {0}, NEW x \in Nat
  PROVE  /\ x % m \in 0 .. m - 1
         /\ x < m => x % m = x
  BY SMT

\* Two places less than a ring's length beyond the same one are apart.
LEMMA RingApart ==
  ASSUME NEW n \in Nat \ {0}, NEW o \in 0 .. n - 1, NEW i \in 0 .. n - 1,
         NEW j \in 0 .. n - 1, i # j
  PROVE  (o + i) % n # (o + j) % n
<1>1. (o + i) % n = IF o + i < n THEN o + i ELSE o + i - n
  OBVIOUS
<1>2. (o + j) % n = IF o + j < n THEN o + j ELSE o + j - n
  OBVIOUS
<1>3. QED
  BY <1>1, <1>2

\* One place further round a ring.
LEMMA RingAdvance ==
  ASSUME NEW n \in Nat \ {0}, NEW o \in 0 .. n - 1, NEW k \in 0 .. n - 1
  PROVE  /\ (((o + k) % n) + 1) % n = (o + k + 1) % n
         /\ (((o + 1) % n) + k) % n = (o + k + 1) % n
         /\ o % n = o
<1>1. (o + k) % n = IF o + k < n THEN o + k ELSE o + k - n
  OBVIOUS
<1>2. (o + 1) % n = IF o + 1 < n THEN o + 1 ELSE 0
  OBVIOUS
<1>3. (o + k + 1) % n = IF o + k + 1 < n THEN o + k + 1 ELSE o + k + 1 - n
  OBVIOUS
<1>4. (o + k - n + 1) % n = o + k - n + 1 \/ o + k < n
  OBVIOUS
<1>5. (((o + k) % n) + 1) % n = (o + k + 1) % n
  BY <1>1, <1>3, <1>4
<1>6. k % n = k
  OBVIOUS
<1>7. (((o + 1) % n) + k) % n = (o + k + 1) % n
  BY <1>2, <1>3, <1>6
<1>8. QED
  BY <1>5, <1>7

(***************************************************************************)
(* Types and the mutex, whether or not calls are serialized.               *)
(***************************************************************************)

\* The steps of a caller keep the types and the levels of the mutex.
LEMMA PortableStep ==
  ASSUME PortableInv, NEW c \in Callers, Call(c) \/ Step(c)
  PROVE  PortableInv'
<1> USE PortableQueueAssumption DEF PortableInv, PortableTypeOK, MutexInv, Slots,
        Operations, Goto
<1>1. CASE Call(c)
  <2>1. CASE /\ op' = [op EXCEPT ![c] = "send"]
             /\ \E m \in Messages : message' = [message EXCEPT ![c] = m]
    <3>1. PICK m \in Messages : message' = [message EXCEPT ![c] = m]
      BY <2>1
    <3>2. patient' \subseteq Callers
      BY <1>1 DEF Call
    <3>3. QED
      BY <1>1, <2>1, <3>1, <3>2 DEF Call
  <2>2. CASE op' = [op EXCEPT ![c] = "receive"]
    BY <1>1, <2>2 DEF Call
  <2>3. QED
    BY <1>1, <2>1, <2>2 DEF Call
<1>2. CASE Lock(c)
  BY <1>2 DEF Lock, Acquire, MutexFree
<1>3. CASE Check(c)
  BY <1>3 DEF Check
<1>4. CASE WaitRefused(c)
  BY <1>4 DEF WaitRefused
<1>5. CASE WaitBegins(c)
  BY <1>5 DEF WaitBegins, Release
<1>6. CASE WaitSignalled(c)
  BY <1>6 DEF WaitSignalled, Acquire, MutexFree
<1>7. CASE WaitTimesOut(c)
  BY <1>7 DEF WaitTimesOut, Acquire, MutexFree
<1>8. CASE Copy(c)
  <2>1. /\ message[c] \in Messages \cup {NoMessage}
        /\ slots[offset["receive"]] \in Messages \cup {NoMessage}
    OBVIOUS
  <2>2. /\ slots' \in [Slots -> Messages \cup {NoMessage}]
        /\ message' \in [Callers -> Messages \cup {NoMessage}]
    <3>1. CASE op[c] = "send"
      BY <1>8, <2>1, <3>1 DEF Copy
    <3>2. CASE op[c] # "send"
      BY <1>8, <2>1, <3>2 DEF Copy
    <3>3. QED
      BY <3>1, <3>2
  <2>3. QED
    BY <1>8, <2>2 DEF Copy
<1>9. CASE LoadOffset(c)
  BY <1>9 DEF LoadOffset
<1>10. CASE StoreOffset(c)
  <2>1. (loaded[c] + 1) % NumMsgs \in Slots
    <3>1. loaded[c] + 1 \in Nat
      OBVIOUS
    <3>2. QED
      BY <3>1, Modulo
  <2>2. QED
    BY <1>10, <2>1 DEF StoreOffset
<1>11. CASE LoadCount(c)
  BY <1>11 DEF LoadCount
<1>12. CASE StoreCount(c)
  <2>1. num_queued' \in 0 .. CountModulus - 1
    <3>1. CountModulus \in Nat \ {0}
      OBVIOUS
    <3>2. /\ loaded[c] + 1 \in Nat
          /\ loaded[c] + CountModulus - 1 \in Nat
      OBVIOUS
    <3>3. \/ num_queued' = (loaded[c] + 1) % CountModulus
          \/ num_queued' = (loaded[c] + CountModulus - 1) % CountModulus
      BY <1>12 DEF StoreCount
    <3>4. (loaded[c] + 1) % CountModulus \in 0 .. CountModulus - 1
      BY <3>1, <3>2, Modulo
    <3>5. (loaded[c] + CountModulus - 1) % CountModulus \in 0 .. CountModulus - 1
      BY <3>1, <3>2, Modulo
    <3>6. QED
      BY <3>3, <3>4, <3>5
  <2>2. QED
    BY <1>12, <2>1 DEF StoreCount
<1>13. CASE Signal(c)
  BY <1>13 DEF Signal, Waiting
<1>14. CASE Unlock(c)
  BY <1>14 DEF Unlock, Release, Leave
<1>15. CASE ReturnWithoutUnlock(c)
  BY <1>15 DEF ReturnWithoutUnlock, Leave
<1>16. QED
  BY <1>1, <1>2, <1>3, <1>4, <1>5, <1>6, <1>7, <1>8, <1>9, <1>10, <1>11, <1>12, <1>13,
      <1>14, <1>15 DEF Step
(***************************************************************************)
(* Serialized calls.                                                       *)
(***************************************************************************)

\* A step lets no second caller move: a call starts while the others are asleep,
\* and a signal is the last a caller does to the queue.
LEMMA OneMovesStep ==
  ASSUME Serialized, PortableInv, OneMoves, NEW c \in Callers, Call(c) \/ Step(c)
  PROVE  OneMoves'
<1> USE DEF PortableInv, PortableTypeOK, MutexInv, OneMoves, Moving, Goto
<1>1. CASE Call(c)
  BY <1>1 DEF Call, Waiting
<1>2. CASE Lock(c)
  BY <1>2 DEF Lock
<1>3. CASE Check(c)
  BY <1>3 DEF Check
<1>4. CASE WaitRefused(c)
  BY <1>4 DEF WaitRefused
<1>5. CASE WaitBegins(c)
  BY <1>5 DEF WaitBegins
<1>6. CASE WaitSignalled(c)
  BY <1>6 DEF WaitSignalled
<1>7. CASE WaitTimesOut(c)
  BY <1>7 DEF WaitTimesOut
<1>8. CASE Copy(c)
  BY <1>8 DEF Copy
<1>9. CASE LoadOffset(c)
  BY <1>9 DEF LoadOffset
<1>10. CASE StoreOffset(c)
  BY <1>10 DEF StoreOffset
<1>11. CASE LoadCount(c)
  BY <1>11 DEF LoadCount
<1>12. CASE StoreCount(c)
  BY <1>12 DEF StoreCount
<1>13. CASE Signal(c)
  BY <1>13 DEF Signal, Waiting
<1>14. CASE Unlock(c)
  BY <1>14 DEF Unlock
<1>15. CASE ReturnWithoutUnlock(c)
  BY <1>15 DEF ReturnWithoutUnlock
<1>16. QED
  BY <1>1, <1>2, <1>3, <1>4, <1>5, <1>6, <1>7, <1>8, <1>9, <1>10, <1>11, <1>12, <1>13,
      <1>14, <1>15 DEF Step

\* The count stays within the queue: what a caller found when it looked, or was
\* told when it was signalled, is still so when it acts on it.
LEMMA CountStep ==
  ASSUME Serialized, PortableInv, OneMoves, CountInv, NEW c \in Callers, Call(c) \/ Step(c)
  PROVE  CountInv'
<1> USE PortableQueueAssumption
    DEF PortableInv, PortableTypeOK, MutexInv, OneMoves, CountInv, Moving, Room,
        RoomForOther, Operations, Goto
<1>1. CASE Call(c)
  BY <1>1 DEF Call, Waiting
<1>2. CASE Lock(c)
  BY <1>2 DEF Lock
<1>3. CASE Check(c)
  BY <1>3 DEF Check, Blocked
<1>4. CASE WaitRefused(c)
  BY <1>4 DEF WaitRefused
<1>5. CASE WaitBegins(c)
  BY <1>5 DEF WaitBegins
<1>6. CASE WaitSignalled(c)
  BY <1>6 DEF WaitSignalled
<1>7. CASE WaitTimesOut(c)
  BY <1>7 DEF WaitTimesOut
<1>8. CASE Copy(c)
  BY <1>8 DEF Copy
<1>9. CASE LoadOffset(c)
  BY <1>9 DEF LoadOffset
<1>10. CASE StoreOffset(c)
  BY <1>10 DEF StoreOffset
<1>11. CASE LoadCount(c)
  BY <1>11 DEF LoadCount
<1>12. CASE StoreCount(c)
  BY <1>12 DEF StoreCount
<1>13. CASE Signal(c)
  BY <1>13 DEF Signal, Waiting
<1>14. CASE Unlock(c)
  BY <1>14 DEF Unlock, Leave
<1>15. CASE ReturnWithoutUnlock(c)
  BY <1>15 DEF ReturnWithoutUnlock, Leave
<1>16. QED
  BY <1>1, <1>2, <1>3, <1>4, <1>5, <1>6, <1>7, <1>8, <1>9, <1>10, <1>11, <1>12, <1>13,
      <1>14, <1>15 DEF Step

\* The local variables of the calls.
LEMMA CallStep ==
  ASSUME PortableInv, CallInv, NEW c \in Callers, Call(c) \/ Step(c)
  PROVE  CallInv'
<1> USE PortableQueueAssumption DEF PortableInv, PortableTypeOK, CallInv, Operations, Goto
<1>1. CASE Call(c)
  BY <1>1 DEF Call
<1>2. CASE Lock(c)
  BY <1>2 DEF Lock
<1>3. CASE Check(c)
  BY <1>3 DEF Check
<1>4. CASE WaitRefused(c)
  BY <1>4 DEF WaitRefused
<1>5. CASE WaitBegins(c)
  BY <1>5 DEF WaitBegins
<1>6. CASE WaitSignalled(c)
  BY <1>6 DEF WaitSignalled
<1>7. CASE WaitTimesOut(c)
  BY <1>7 DEF WaitTimesOut
<1>8. CASE Copy(c)
  BY <1>8 DEF Copy
<1>9. CASE LoadOffset(c)
  BY <1>9 DEF LoadOffset
<1>10. CASE StoreOffset(c)
  BY <1>10 DEF StoreOffset
<1>11. CASE LoadCount(c)
  BY <1>11 DEF LoadCount
<1>12. CASE StoreCount(c)
  BY <1>12 DEF StoreCount
<1>13. CASE Signal(c)
  BY <1>13 DEF Signal
<1>14. CASE Unlock(c)
  BY <1>14 DEF Unlock, Leave
<1>15. CASE ReturnWithoutUnlock(c)
  BY <1>15 DEF ReturnWithoutUnlock, Leave
<1>16. QED
  BY <1>1, <1>2, <1>3, <1>4, <1>5, <1>6, <1>7, <1>8, <1>9, <1>10, <1>11, <1>12, <1>13,
      <1>14, <1>15 DEF Step

\* A caller that moves is the only one that can be between its offset and its
\* count.
LEMMA Uncounted ==
  ASSUME OneMoves, NEW c \in Callers, Moving(c)
  PROVE  /\ Passed <=> op[c] = "receive" /\ pc[c] \in {"count", "update"}
         /\ Sent <=> op[c] = "send" /\ pc[c] \in {"count", "update"}
  BY DEF OneMoves, Moving, Passed, Sent

\* How many messages there are: between none and all, with room for one that
\* has been sent but not counted.
LEMMA LengthBounds ==
  ASSUME PortableInv, CountInv
  PROVE  /\ Length \in 0 .. NumMsgs
         /\ Sent => Length < NumMsgs
<1>1. CASE Passed
  <2>1. num_queued > 0
    BY <1>1 DEF Passed, CountInv, Room
  <2>2. QED
    BY <1>1, <2>1, PortableQueueAssumption DEF Length, CountInv, PortableInv, PortableTypeOK
<1>2. CASE ~ Passed
  <2>1. Sent => num_queued < NumMsgs
    BY DEF Sent, CountInv, Room
  <2>2. QED
    BY <1>2, <2>1, PortableQueueAssumption DEF Length, CountInv, PortableInv, PortableTypeOK
<1>3. QED
  BY <1>1, <1>2

\* A caller that is not between its copy and its count neither before nor after
\* its step, and that leaves the ring alone.
Quiet(c) ==
  /\ {pc[c], pc'[c]} \cap {"offset", "advance", "count", "update"} = {}
  /\ \A d \in Callers \ {c} : pc'[d] = pc[d] /\ op'[d] = op[d] /\ message'[d] = message[d]
                               /\ loaded'[d] = loaded[d]
  /\ UNCHANGED <<slots, offset, num_queued>>

\* The steps of a caller outside its copy and its count.
LEMMA QuietSteps ==
  ASSUME PortableInv, NEW c \in Callers,
         \/ Call(c) \/ Lock(c) \/ Check(c) \/ WaitRefused(c) \/ WaitBegins(c)
         \/ WaitSignalled(c) \/ WaitTimesOut(c) \/ Signal(c) \/ Unlock(c)
         \/ ReturnWithoutUnlock(c)
  PROVE  Quiet(c)
<1> USE DEF PortableInv, PortableTypeOK, Goto, Quiet
<1>1. CASE Call(c)
  BY <1>1 DEF Call
<1>2. CASE Lock(c)
  BY <1>2 DEF Lock
<1>3. CASE Check(c)
  BY <1>3 DEF Check, Blocked
<1>4. CASE WaitRefused(c)
  BY <1>4 DEF WaitRefused
<1>5. CASE WaitBegins(c)
  BY <1>5 DEF WaitBegins
<1>6. CASE WaitSignalled(c)
  BY <1>6 DEF WaitSignalled
<1>7. CASE WaitTimesOut(c)
  BY <1>7 DEF WaitTimesOut
<1>8. CASE Signal(c)
  BY <1>8 DEF Signal
<1>9. CASE Unlock(c)
  BY <1>9 DEF Unlock, Leave
<1>10. CASE ReturnWithoutUnlock(c)
  BY <1>10 DEF ReturnWithoutUnlock, Leave
<1>11. QED
  BY <1>1, <1>2, <1>3, <1>4, <1>5, <1>6, <1>7, <1>8, <1>9, <1>10

\* They leave the length of the queue as it was.
LEMMA QuietLength ==
  ASSUME NEW c \in Callers, Quiet(c)
  PROVE  Passed' = Passed /\ Sent' = Sent /\ Length' = Length /\ NextSlot' = NextSlot
<1>1. Passed' <=> Passed
  BY DEF Quiet, Passed
<1>2. Sent' <=> Sent
  BY DEF Quiet, Sent
<1>3. Passed' = Passed /\ Sent' = Sent
  BY <1>1, <1>2 DEF Passed, Sent
<1>4. QED
  BY <1>3 DEF Quiet, Length, NextSlot


\* What a caller between its copy and its signal knows of the counts, before and
\* after its step: the others are elsewhere.
LEMMA MoverCounts ==
  ASSUME OneMoves, OneMoves', NEW c \in Callers, Moving(c), Moving(c)'
  PROVE  /\ Passed' <=> op'[c] = "receive" /\ pc'[c] \in {"count", "update"}
         /\ Sent' <=> op'[c] = "send" /\ pc'[c] \in {"count", "update"}
         /\ Passed <=> op[c] = "receive" /\ pc[c] \in {"count", "update"}
         /\ Sent <=> op[c] = "send" /\ pc[c] \in {"count", "update"}
         /\ \A d \in Callers \ {c} :
              pc'[d] \notin {"offset", "advance", "count", "update"}
<1>1. \A d \in Callers \ {c} : ~ Moving(d)'
  BY DEF OneMoves
<1>2. \A d \in Callers \ {c} :
        pc'[d] \notin {"offset", "advance", "count", "update"}
  BY <1>1 DEF Moving
<1>3. /\ Passed' <=> op'[c] = "receive" /\ pc'[c] \in {"count", "update"}
      /\ Sent' <=> op'[c] = "send" /\ pc'[c] \in {"count", "update"}
  BY <1>2 DEF Passed, Sent
<1>4. QED
  BY <1>2, <1>3, Uncounted

\* Storing a count that has room for the change does not wrap it.
LEMMA SendCounted ==
  ASSUME PortableInv, SerialInv, NEW c \in Callers, StoreCount(c), op[c] = "send"
  PROVE  num_queued' = num_queued + 1
<1>1. loaded[c] = num_queued /\ num_queued < NumMsgs /\ num_queued \in Nat
  BY DEF StoreCount, Goto, SerialInv, CountInv, Room, PortableInv, PortableTypeOK
<1>2. num_queued' = (num_queued + 1) % CountModulus
  BY <1>1 DEF StoreCount
<1>3. NumMsgs \in Nat /\ CountModulus \in Nat /\ CountModulus > NumMsgs
  BY PortableQueueAssumption
<1>4. (num_queued + 1) % CountModulus = num_queued + 1
  BY <1>1, <1>3
<1>5. QED
  BY <1>2, <1>4

\* The same of a receive, whose subtraction is done modulo the width of the count.
LEMMA ReceiveCounted ==
  ASSUME PortableInv, SerialInv, NEW c \in Callers, StoreCount(c), op[c] = "receive"
  PROVE  num_queued' = num_queued - 1
<1>1. loaded[c] = num_queued /\ num_queued > 0 /\ num_queued \in Nat /\ num_queued <= NumMsgs
  BY DEF StoreCount, Goto, SerialInv, CountInv, Room, PortableInv, PortableTypeOK
<1>2. num_queued' = (num_queued + CountModulus - 1) % CountModulus
  BY <1>1 DEF StoreCount
<1>3. NumMsgs \in Nat /\ CountModulus \in Nat /\ CountModulus > NumMsgs
  BY PortableQueueAssumption
<1>4. (num_queued + CountModulus - 1) % CountModulus = num_queued - 1
  BY <1>1, <1>3
<1>5. QED
  BY <1>2, <1>4

\* Every step keeps the ring.
LEMMA RingStep ==
  ASSUME PortableInv, SerialInv, OneMoves', NEW c \in Callers, Call(c) \/ Step(c)
  PROVE  RingInv'
<1> DEFINE o == offset["receive"]
<1>1. /\ NumMsgs \in Nat \ {0} /\ o \in 0 .. NumMsgs - 1
      /\ num_queued \in Nat /\ num_queued <= NumMsgs
      /\ Length \in 0 .. NumMsgs /\ (Sent => Length < NumMsgs)
      /\ op[c] \in Operations
      /\ slots \in [Slots -> Messages \cup {NoMessage}]
      /\ offset \in [Operations -> Slots]
      /\ message \in [Callers -> Messages \cup {NoMessage}]
  BY PortableQueueAssumption, LengthBounds
     DEF PortableInv, PortableTypeOK, SerialInv, CountInv, Slots, Operations
<1>2. CASE \/ Call(c) \/ Lock(c) \/ Check(c) \/ WaitRefused(c) \/ WaitBegins(c)
           \/ WaitSignalled(c) \/ WaitTimesOut(c) \/ Signal(c) \/ Unlock(c)
           \/ ReturnWithoutUnlock(c)
  <2>1. Quiet(c)
    BY <1>2, QuietSteps
  <2>2. Passed' = Passed /\ Sent' = Sent /\ Length' = Length /\ NextSlot' = NextSlot
    BY <2>1, QuietLength
  <2>3. \A d \in Callers :
          pc'[d] \in {"offset", "advance", "count", "update"} =>
            /\ d # c /\ pc'[d] = pc[d] /\ op'[d] = op[d]
            /\ message'[d] = message[d] /\ loaded'[d] = loaded[d]
    BY <2>1 DEF Quiet
  <2>4. QED
    BY <2>1, <2>2, <2>3 DEF SerialInv, RingInv, Quiet
<1>3. CASE Copy(c)
  <2>1. Moving(c) /\ Moving(c)'
    BY <1>3 DEF Copy, Goto, Moving, PortableInv, PortableTypeOK
  <2>2. pc[c] = "copy" /\ pc'[c] = "offset" /\ op' = op /\ UNCHANGED <<offset, num_queued>>
    BY <1>3 DEF Copy, Goto, PortableInv, PortableTypeOK
  <2>3. ~ Passed /\ ~ Passed' /\ ~ Sent /\ ~ Sent' /\ Length = num_queued
        /\ Length' = Length /\ NextSlot' = NextSlot
    BY <2>1, <2>2, MoverCounts DEF SerialInv, Length, NextSlot
  <2>4. offset["send"] = NextSlot
    BY <2>3 DEF SerialInv, RingInv, NextSlot
  <2>5. \A d \in Callers \ {c} : pc'[d] \notin {"offset", "advance", "count", "update"}
    BY <2>1, MoverCounts DEF SerialInv
  <2>6. CASE op[c] = "send"
    <3>1. slots' = [slots EXCEPT ![NextSlot] = message[c]] /\ message' = message
      BY <1>3, <2>4, <2>6 DEF Copy
    <3>2. Length < NumMsgs /\ NextSlot \in Slots
      BY <1>1, <2>2, <2>3, <2>4, <2>6 DEF SerialInv, CountInv, Room, Operations
    <3>3. ASSUME NEW i \in 1 .. Length
          PROVE  slots'[(o + i - 1) % NumMsgs] = slots[(o + i - 1) % NumMsgs]
      <4>1. i - 1 \in 0 .. NumMsgs - 1 /\ Length \in 0 .. NumMsgs - 1 /\ i - 1 # Length
        BY <1>1, <3>2
      <4>2. (o + (i - 1)) % NumMsgs # (o + Length) % NumMsgs
        BY <1>1, <4>1, RingApart
      <4>3. QED
        BY <1>1, <3>1, <3>2, <4>1, <4>2 DEF NextSlot, Slots
    <3>4. slots'[NextSlot] = message[c]
      BY <1>1, <3>1, <3>2
    <3>5. QED
      BY <2>2, <2>3, <2>5, <2>6, <3>1, <3>3, <3>4 DEF SerialInv, RingInv
  <2>7. CASE op[c] = "receive"
    <3>1. slots' = slots /\ message' = [message EXCEPT ![c] = slots[o]]
      BY <1>3, <2>7 DEF Copy
    <3>2. message'[c] = slots[o]
      BY <1>1, <3>1
    <3>3. QED
      BY <2>2, <2>3, <2>5, <2>7, <3>1, <3>2 DEF SerialInv, RingInv
  <2>8. QED
    BY <1>1, <2>6, <2>7 DEF Operations
<1>4. CASE LoadOffset(c)
  <2>1. Moving(c) /\ Moving(c)'
    BY <1>4 DEF LoadOffset, Goto, Moving, PortableInv, PortableTypeOK
  <2>2. /\ pc[c] = "offset" /\ pc'[c] = "advance" /\ loaded'[c] = offset[op[c]]
        /\ UNCHANGED <<slots, offset, num_queued, op, message>>
    BY <1>4 DEF LoadOffset, Goto, PortableInv, PortableTypeOK
  <2>3. ~ Passed /\ ~ Passed' /\ ~ Sent /\ ~ Sent' /\ Length' = Length /\ NextSlot' = NextSlot
    BY <2>1, <2>2, MoverCounts DEF SerialInv, Length, NextSlot
  <2>4. \A d \in Callers \ {c} : pc'[d] \notin {"offset", "advance", "count", "update"}
    BY <2>1, MoverCounts DEF SerialInv
  <2>5. QED
    BY <2>2, <2>3, <2>4 DEF SerialInv, RingInv
<1>5. CASE LoadCount(c)
  <2>1. Moving(c) /\ Moving(c)'
    BY <1>5 DEF LoadCount, Goto, Moving, PortableInv, PortableTypeOK
  <2>2. /\ pc[c] = "count" /\ pc'[c] = "update"
        /\ UNCHANGED <<slots, offset, num_queued, op, message>>
    BY <1>5 DEF LoadCount, Goto, PortableInv, PortableTypeOK
  <2>3. Passed' = Passed /\ Sent' = Sent /\ Length' = Length /\ NextSlot' = NextSlot
    <3>1. (Passed' <=> Passed) /\ (Sent' <=> Sent)
      BY <2>1, <2>2, MoverCounts DEF SerialInv
    <3>2. Passed' = Passed /\ Sent' = Sent
      BY <3>1 DEF Passed, Sent
    <3>3. QED
      BY <2>2, <3>2 DEF Length, NextSlot
  <2>4. \A d \in Callers \ {c} : pc'[d] \notin {"offset", "advance", "count", "update"}
    BY <2>1, MoverCounts DEF SerialInv
  <2>5. op[c] = "send" => slots[NextSlot] = message[c]
    BY <2>2 DEF SerialInv, RingInv
  <2>6. /\ offset["send"] = (o + IF Sent THEN Length + 1 ELSE Length) % NumMsgs
        /\ \A i \in 1 .. Length : slots[(o + i - 1) % NumMsgs] \in Messages
    BY DEF SerialInv, RingInv
  <2>7. \A d \in Callers :
          pc'[d] \in {"offset", "advance", "count", "update"} => d = c /\ pc'[d] = "update"
    BY <2>2, <2>4
  <2>8. QED
    BY <2>2, <2>3, <2>5, <2>6, <2>7 DEF RingInv
<1>6. CASE StoreOffset(c)
  <2>1. Moving(c) /\ Moving(c)'
    BY <1>6 DEF StoreOffset, Goto, Moving, PortableInv, PortableTypeOK
  <2>2. /\ pc[c] = "advance" /\ pc'[c] = "count"
        /\ offset' = [offset EXCEPT ![op[c]] = (offset[op[c]] + 1) % NumMsgs]
        /\ UNCHANGED <<slots, num_queued, op, message>>
    BY <1>6 DEF StoreOffset, Goto, PortableInv, PortableTypeOK, SerialInv, RingInv
  <2>3. \A d \in Callers :
          pc'[d] \in {"offset", "advance", "count", "update"} => d = c /\ pc'[d] = "count"
    BY <2>1, <2>2, MoverCounts DEF SerialInv
  <2>4. ~ Passed /\ ~ Sent /\ Length = num_queued /\ offset["send"] = (o + Length) % NumMsgs
    BY <2>1, <2>2, MoverCounts DEF SerialInv, Length, RingInv
  <2>5. CASE op[c] = "send"
    <3>1. ~ Passed' /\ Sent' /\ Length' = Length
      BY <2>1, <2>2, <2>4, <2>5, MoverCounts DEF SerialInv, Length
    <3>2. /\ offset'["receive"] = o /\ NextSlot' = NextSlot
          /\ offset'["send"] = (((o + Length) % NumMsgs) + 1) % NumMsgs
      BY <1>1, <2>2, <2>4, <2>5, <3>1 DEF NextSlot, Operations
    <3>3. Length \in 0 .. NumMsgs - 1
      BY <1>1, <2>2, <2>4, <2>5 DEF SerialInv, CountInv, Room
    <3>4. offset'["send"] = (o + Length + 1) % NumMsgs
      BY <1>1, <3>2, <3>3, RingAdvance
    <3>5. offset'["send"] = (o + (Length + 1)) % NumMsgs
      <4>1. o + Length + 1 = o + (Length + 1)
        BY <1>1, <3>3
      <4>2. QED
        BY <3>4, <4>1
    <3>6. slots[NextSlot] = message[c]
      BY <2>2, <2>5 DEF SerialInv, RingInv
    <3>7. \A i \in 1 .. Length : slots[(o + i - 1) % NumMsgs] \in Messages
      BY DEF SerialInv, RingInv
    <3>8. QED
      BY <2>2, <2>3, <2>5, <3>1, <3>2, <3>5, <3>6, <3>7 DEF RingInv
  <2>6. CASE op[c] = "receive"
    <3>1. Passed' /\ ~ Sent' /\ Length' = Length - 1
      BY <2>1, <2>2, <2>4, <2>6, MoverCounts DEF SerialInv, Length
    <3>2. /\ offset'["receive"] = (o + 1) % NumMsgs
          /\ offset'["send"] = (o + Length) % NumMsgs
      BY <1>1, <2>2, <2>4, <2>6, <3>1 DEF Operations
    <3>3. Length \in 1 .. NumMsgs
      BY <1>1, <2>2, <2>4, <2>6 DEF SerialInv, CountInv, Room
    <3>4. ASSUME NEW k \in 0 .. Length - 1
          PROVE  (((o + 1) % NumMsgs) + k) % NumMsgs = (o + (k + 1)) % NumMsgs
      <4>1. k \in 0 .. NumMsgs - 1 /\ o + k + 1 = o + (k + 1)
        BY <1>1, <3>3
      <4>2. (((o + 1) % NumMsgs) + k) % NumMsgs = (o + k + 1) % NumMsgs
        BY <1>1, <4>1, RingAdvance
      <4>3. QED
        BY <4>1, <4>2
    <3>5. offset'["send"] = (offset'["receive"] + Length') % NumMsgs
      <4>1. (((o + 1) % NumMsgs) + (Length - 1)) % NumMsgs = (o + ((Length - 1) + 1)) % NumMsgs
        BY <3>3, <3>4
      <4>2. (Length - 1) + 1 = Length
        BY <3>3
      <4>3. QED
        BY <3>1, <3>2, <4>1, <4>2
    <3>6. ASSUME NEW i \in 1 .. Length'
          PROVE  slots[(offset'["receive"] + i - 1) % NumMsgs] \in Messages
      <4>1. i - 1 \in 0 .. Length - 1 /\ i + 1 \in 1 .. Length /\ (i - 1) + 1 = (i + 1) - 1
        BY <3>1, <3>3
      <4>2. (((o + 1) % NumMsgs) + (i - 1)) % NumMsgs = (o + ((i - 1) + 1)) % NumMsgs
        BY <3>4, <4>1
      <4>3. slots[(o + ((i + 1) - 1)) % NumMsgs] \in Messages
        BY <4>1 DEF SerialInv, RingInv
      <4>4. QED
        BY <3>2, <4>1, <4>2, <4>3
    <3>7. QED
      BY <2>2, <2>3, <2>6, <3>1, <3>5, <3>6 DEF RingInv
  <2>7. QED
    BY <1>1, <2>5, <2>6 DEF Operations
<1>7. CASE StoreCount(c)
  <2>1. Moving(c) /\ Moving(c)'
    BY <1>7 DEF StoreCount, Goto, Moving, PortableInv, PortableTypeOK
  <2>2. /\ pc[c] = "update" /\ pc'[c] = "signal"
        /\ UNCHANGED <<slots, offset, op, message>>
    BY <1>7 DEF StoreCount, Goto, PortableInv, PortableTypeOK
  <2>3. \A d \in Callers : pc'[d] \notin {"offset", "advance", "count", "update"}
    BY <2>1, <2>2, MoverCounts DEF SerialInv
  <2>4. ~ Passed' /\ ~ Sent' /\ Length' = num_queued'
    BY <2>1, <2>2, MoverCounts DEF SerialInv, Length
  <2>5. \A i \in 1 .. Length : slots[(o + i - 1) % NumMsgs] \in Messages
    BY DEF SerialInv, RingInv
  <2>6. CASE op[c] = "send"
    <3>1. Sent /\ ~ Passed /\ Length = num_queued
      BY <2>1, <2>2, <2>6, MoverCounts DEF SerialInv, Length
    <3>2. num_queued' = Length + 1
      BY <1>1, <1>7, <2>2, <2>6, <3>1, SendCounted
    <3>3. offset["send"] = (o + (Length + 1)) % NumMsgs
      BY <3>1 DEF SerialInv, RingInv
    <3>4. slots[(o + Length) % NumMsgs] \in Messages
      BY <2>2, <2>6 DEF SerialInv, RingInv, CallInv, NextSlot
    <3>5. ASSUME NEW i \in 1 .. Length + 1
          PROVE  slots[(o + i - 1) % NumMsgs] \in Messages
      <4>1. i \in 1 .. Length \/ i - 1 = Length
        BY <1>1
      <4>2. QED
        BY <2>5, <3>4, <4>1
    <3>6. QED
      BY <2>2, <2>3, <2>4, <3>2, <3>3, <3>5 DEF RingInv
  <2>7. CASE op[c] = "receive"
    <3>1. ~ Sent /\ Passed /\ Length = num_queued - 1
      BY <2>1, <2>2, <2>7, MoverCounts DEF SerialInv, Length
    <3>2. num_queued' = Length
      BY <1>1, <1>7, <2>2, <2>7, <3>1, ReceiveCounted
    <3>3. offset["send"] = (o + Length) % NumMsgs
      BY <3>1 DEF SerialInv, RingInv
    <3>4. QED
      BY <2>2, <2>3, <2>4, <2>5, <3>2, <3>3 DEF RingInv
  <2>8. QED
    BY <1>1, <2>6, <2>7 DEF Operations
<1>8. QED
  BY <1>2, <1>3, <1>4, <1>5, <1>6, <1>7 DEF Step

(***************************************************************************)
(* The invariants of the behaviours.                                       *)
(***************************************************************************)

\* The types and the mutex hold in every state, also of calls that overlap.
LEMMA PortableInvInvariant == Spec => []PortableInv
<1>1. Init => PortableInv
  BY PortableQueueAssumption
     DEF Init, PortableInv, PortableTypeOK, MutexInv, Slots, Operations
<1>2. PortableInv /\ [Next]_portableVars => PortableInv'
  <2> SUFFICES ASSUME PortableInv, [Next]_portableVars
               PROVE  PortableInv'
    OBVIOUS
  <2>1. ASSUME NEW c \in Callers, Call(c) \/ Step(c)
        PROVE  PortableInv'
    BY <2>1, PortableStep
  <2>2. CASE UNCHANGED portableVars
    BY <2>2 DEF portableVars, PortableInv, PortableTypeOK, MutexInv
  <2>3. QED
    BY <2>1, <2>2 DEF Next
<1>3. QED
  BY <1>1, <1>2, PTL DEF Spec

\* The types of the portable queue (os_queue_portable.c): the offsets stay within
\* the ring, the count within its 32 bits and the mutex within its levels, however
\* many threads call it at once, with or without the mutex.
THEOREM PortableTypes == Spec => []PortableTypeOK
<1>1. PortableInv => PortableTypeOK
  BY DEF PortableInv
<1>2. QED
  BY <1>1, PortableInvInvariant, PTL

\* A step of a serialized call keeps their invariant.
LEMMA SerialStep ==
  ASSUME Serialized, PortableInv, SerialInv, NEW c \in Callers, Call(c) \/ Step(c)
  PROVE  SerialInv'
<1>1. OneMoves'
  BY OneMovesStep DEF SerialInv
<1>2. CountInv'
  BY CountStep DEF SerialInv
<1>3. RingInv'
  BY <1>1, RingStep
<1>4. CallInv'
  BY CallStep DEF SerialInv
<1>5. QED
  BY <1>1, <1>2, <1>3, <1>4 DEF SerialInv

\* The empty queue.
LEMMA SerialInit ==
  ASSUME Init
  PROVE  SerialInv
<1>1. OneMoves /\ CountInv /\ CallInv
  BY PortableQueueAssumption DEF Init, OneMoves, Moving, CountInv, Room, RoomForOther, CallInv
<1>2. ~ Passed /\ ~ Sent
  BY DEF Init, Passed, Sent
<1>3. Length = 0
  BY <1>2 DEF Init, Length
<1>4. offset["send"] = (offset["receive"] + Length) % NumMsgs
  BY <1>3, PortableQueueAssumption DEF Init, Operations
<1>5. RingInv
  BY <1>2, <1>3, <1>4 DEF Init, RingInv
<1>6. QED
  BY <1>1, <1>5 DEF SerialInv

\* The invariant of serialized calls holds in every state.
LEMMA SerialInvInvariant == Serialized => (Spec => []SerialInv)
<1> SUFFICES ASSUME Serialized
             PROVE  Spec => []SerialInv
  OBVIOUS
<1>1. Init => SerialInv
  BY SerialInit
<1>2. PortableInv /\ SerialInv /\ [Next]_portableVars => SerialInv'
  <2> SUFFICES ASSUME PortableInv, SerialInv, [Next]_portableVars
               PROVE  SerialInv'
    OBVIOUS
  <2>1. ASSUME NEW c \in Callers, Call(c) \/ Step(c)
        PROVE  SerialInv'
    BY <2>1, SerialStep
  <2>2. CASE UNCHANGED portableVars
    BY <2>2 DEF portableVars, SerialInv, OneMoves, Moving, CountInv, Room, RoomForOther,
                RingInv, Sent, Passed, Length, NextSlot, CallInv
  <2>3. QED
    BY <2>1, <2>2 DEF Next
<1>3. QED
  BY <1>1, <1>2, PortableInvInvariant, PTL DEF Spec

\* What the comment "Either way, there is space in the queue" says of a send that
\* copies its message (os_queue_portable.c) is true while calls are serialized,
\* for any number of threads and any size of the queue.
THEOREM SerializedSpace == Serialized => (Spec => []SpaceInQueue)
<1> SUFFICES ASSUME Serialized
             PROVE  Spec => []SpaceInQueue
  OBVIOUS
<1>1. SerialInv => SpaceInQueue
  BY DEF SerialInv, CountInv, Room, SpaceInQueue
<1>2. QED
  BY <1>1, SerialInvInvariant, PTL

(***************************************************************************)
(* Sequences that are written as functions.                                *)
(***************************************************************************)

\* A function on the first n numbers is a sequence of length n.
LEMMA FunctionIsSequence ==
  ASSUME NEW S, NEW n \in Nat, NEW f \in [1 .. n -> S]
  PROVE  f \in Seq(S) /\ Len(f) = n
<1>1. f \in Seq(S)
  BY SeqDef
<1>2. DOMAIN f = 1 .. n
  OBVIOUS
<1>3. QED
  BY <1>1, <1>2, LenProperties

\* One that agrees with another and has one place more appends to it.
LEMMA AppendedFunction ==
  ASSUME NEW S, NEW n \in Nat, NEW f \in [1 .. n -> S], NEW g \in [1 .. n + 1 -> S],
         \A i \in 1 .. n : g[i] = f[i]
  PROVE  g = Append(f, g[n + 1])
<1>1. f \in Seq(S) /\ Len(f) = n
  BY FunctionIsSequence
<1>2. g \in Seq(S) /\ Len(g) = n + 1
  BY FunctionIsSequence
<1>3. Append(f, g[n + 1]) \in Seq(S) /\ Len(Append(f, g[n + 1])) = n + 1
  BY <1>1
<1>4. \A i \in 1 .. n + 1 : Append(f, g[n + 1])[i] = g[i]
  BY <1>1
<1>5. QED
  BY <1>2, <1>3, <1>4, SeqEqual

\* One that has another's places but the first is its tail.
LEMMA TailOfFunction ==
  ASSUME NEW S, NEW n \in Nat \ {0}, NEW f \in [1 .. n -> S], NEW g \in [1 .. n - 1 -> S],
         \A i \in 1 .. n - 1 : g[i] = f[i + 1]
  PROVE  f # <<>> /\ g = Tail(f) /\ Head(f) = f[1]
<1>1. f \in Seq(S) /\ Len(f) = n /\ f # <<>>
  <2>1. f \in Seq(S) /\ Len(f) = n
    BY FunctionIsSequence
  <2>2. QED
    BY <2>1, EmptySeq
<1>2. g \in Seq(S) /\ Len(g) = n - 1
  BY FunctionIsSequence
<1>3. /\ Tail(f) \in Seq(S) /\ Len(Tail(f)) = n - 1
      /\ \A i \in 1 .. n - 1 : Tail(f)[i] = f[i + 1]
  BY <1>1, HeadTailProperties
<1>4. g = Tail(f)
  BY <1>2, <1>3, SeqEqual
<1>5. QED
  BY <1>1, <1>4

(***************************************************************************)
(* The queue implements the bounded FIFO while calls are serialized.       *)
(***************************************************************************)

\* A step of a caller changes no call but its own.
LEMMA OneCallChanges ==
  ASSUME PortableInv, NEW c \in Callers, Call(c) \/ Step(c)
  PROVE  /\ Calls' = [Calls EXCEPT ![c] = CallOf(c)']
         /\ Calls[c] = CallOf(c)
<1>1. \A d \in Callers \ {c} : /\ pc'[d] = pc[d] /\ op'[d] = op[d]
                               /\ message'[d] = message[d] /\ result'[d] = result[d]
  <2> USE DEF PortableInv, PortableTypeOK, Goto
  <2>1. CASE Call(c)
    BY <2>1 DEF Call
  <2>2. CASE Lock(c)
    BY <2>2 DEF Lock
  <2>3. CASE Check(c)
    BY <2>3 DEF Check
  <2>4. CASE WaitRefused(c)
    BY <2>4 DEF WaitRefused
  <2>5. CASE WaitBegins(c)
    BY <2>5 DEF WaitBegins
  <2>6. CASE WaitSignalled(c)
    BY <2>6 DEF WaitSignalled
  <2>7. CASE WaitTimesOut(c)
    BY <2>7 DEF WaitTimesOut
  <2>8. CASE Copy(c)
    BY <2>8 DEF Copy
  <2>9. CASE LoadOffset(c)
    BY <2>9 DEF LoadOffset
  <2>10. CASE StoreOffset(c)
    BY <2>10 DEF StoreOffset
  <2>11. CASE LoadCount(c)
    BY <2>11 DEF LoadCount
  <2>12. CASE StoreCount(c)
    BY <2>12 DEF StoreCount
  <2>13. CASE Signal(c)
    BY <2>13 DEF Signal
  <2>14. CASE Unlock(c)
    BY <2>14 DEF Unlock, Leave
  <2>15. CASE ReturnWithoutUnlock(c)
    BY <2>15 DEF ReturnWithoutUnlock, Leave
  <2>16. QED
    BY <2>1, <2>2, <2>3, <2>4, <2>5, <2>6, <2>7, <2>8, <2>9,
       <2>10, <2>11, <2>12, <2>13, <2>14, <2>15 DEF Step
<1>2. \A d \in Callers \ {c} : CallOf(d)' = CallOf(d)
  BY <1>1 DEF CallOf, TookEffect
<1>3. QED
  BY <1>2 DEF Calls

\* What the queue holds is a sequence of messages.
LEMMA ContentsAreMessages ==
  ASSUME PortableInv, SerialInv
  PROVE  Length \in Nat /\ Contents \in [1 .. Length -> Messages] /\ Len(Contents) = Length
<1>1. Length \in Nat
  BY LengthBounds DEF SerialInv
<1>2. Contents \in [1 .. Length -> Messages]
  BY DEF Contents, SerialInv, RingInv
<1>3. QED
  BY <1>1, <1>2, FunctionIsSequence

\* A step that changes neither the length nor the read offset, nor a slot in
\* between, changes none of the messages.
LEMMA SameContents ==
  ASSUME Length' = Length, offset'["receive"] = offset["receive"],
         \A i \in 1 .. Length : slots'[(offset["receive"] + i - 1) % NumMsgs]
                                  = slots[(offset["receive"] + i - 1) % NumMsgs]
  PROVE  Contents' = Contents
  BY DEF Contents

\* Steps that leave the ring alone.
LEMMA QuietContents ==
  ASSUME NEW c \in Callers, Quiet(c)
  PROVE  Contents' = Contents
  BY QuietLength, SameContents DEF Quiet

\* A step that the user of the queue cannot see.
LEMMA Unseen ==
  ASSUME PortableInv, NEW c \in Callers, Call(c) \/ Step(c),
         CallOf(c)' = CallOf(c), Contents' = Contents
  PROVE  UNCHANGED Fifo!queueVars
<1>1. Calls' = [Calls EXCEPT ![c] = Calls[c]]
  BY OneCallChanges
<1>2. Calls' = Calls
  BY <1>1 DEF Calls
<1>3. QED
  BY <1>2 DEF Fifo!queueVars

\* A call starts.
LEMMA CallInvokes ==
  ASSUME PortableInv, NEW c \in Callers, Call(c)
  PROVE  Fifo!Invoke(c)
<1>1. Contents' = Contents
  BY QuietSteps, QuietContents
<1>2. Calls' = [Calls EXCEPT ![c] = CallOf(c)'] /\ Calls[c] = CallOf(c)
  BY OneCallChanges
<1>3. pc[c] = "idle" /\ pc'[c] = "lock"
  BY DEF Call, Goto, PortableInv, PortableTypeOK
<1>4. CallOf(c) = Fifo!NoCall
  BY <1>3 DEF CallOf, Fifo!NoCall
<1>5. \/ op'[c] = "send" /\ \E m \in Messages : message'[c] = m
      \/ op'[c] = "receive"
  BY DEF Call, PortableInv, PortableTypeOK
<1>6. CASE op'[c] = "send" /\ \E m \in Messages : message'[c] = m
  <2>1. PICK m \in Messages : message'[c] = m
    BY <1>6
  <2>2. CallOf(c)' = Fifo!Pending("send", m)
    BY <1>3, <1>6, <2>1 DEF CallOf, TookEffect, Fifo!Pending
  <2>3. QED
    BY <1>1, <1>2, <1>4, <2>2 DEF Fifo!Invoke
<1>7. CASE op'[c] = "receive"
  <2>1. CallOf(c)' = Fifo!Pending("receive", NoMessage)
    BY <1>3, <1>7 DEF CallOf, TookEffect, Fifo!Pending
  <2>2. QED
    BY <1>1, <1>2, <1>4, <2>1 DEF Fifo!Invoke
<1>8. QED
  BY <1>5, <1>6, <1>7

\* A caller that looks at the count either sees nothing new or blocks.
LEMMA CheckBlocks ==
  ASSUME PortableInv, SerialInv, NEW c \in Callers, Check(c)
  PROVE  Fifo!Block(c) \/ UNCHANGED Fifo!queueVars
<1>1. Contents' = Contents
  BY QuietSteps, QuietContents
<1>2. Calls' = [Calls EXCEPT ![c] = CallOf(c)'] /\ Calls[c] = CallOf(c)
  BY OneCallChanges DEF Step
<1>3. pc[c] = "check" /\ op' = op /\ message' = message
  BY DEF Check, Goto
<1>4. CASE ~ Blocked(c)
  <2>1. pc'[c] = "copy"
    BY <1>4 DEF Check, Goto, PortableInv, PortableTypeOK
  <2>2. CallOf(c)' = CallOf(c)
    BY <1>3, <2>1 DEF CallOf, TookEffect
  <2>3. QED
    BY <1>1, <2>2, Unseen DEF Step
<1>5. CASE Blocked(c)
  <2>1. pc'[c] = "wait"
    BY <1>5 DEF Check, Goto, PortableInv, PortableTypeOK
  <2>2. CallOf(c) = Fifo!Pending(op[c], IF op[c] = "send" THEN message[c] ELSE NoMessage)
    BY <1>3 DEF CallOf, TookEffect, Fifo!Pending
  <2>3. CallOf(c)' = [CallOf(c) EXCEPT !.status = "blocked"]
    BY <1>3, <2>1, <2>2 DEF CallOf, TookEffect, Fifo!Pending
  <2>4. Calls' = [Calls EXCEPT ![c].status = "blocked"]
    BY <1>2, <2>3
  <2>5. Length = num_queued
    BY <1>3, Uncounted DEF Moving, SerialInv, Length
  <2>6. \/ op[c] = "send" /\ Len(Contents) = NumMsgs /\ message[c] \in Messages
        \/ op[c] = "receive" /\ Contents = <<>>
    <3>1. CASE op[c] = "send"
      BY <1>3, <1>5, <2>5, <3>1, ContentsAreMessages DEF Blocked, SerialInv, CallInv
    <3>2. CASE op[c] = "receive"
      <4>1. Len(Contents) = 0 /\ Contents \in Seq(Messages)
        BY <1>5, <2>5, <3>2, ContentsAreMessages, FunctionIsSequence DEF Blocked
      <4>2. QED
        BY <3>2, <4>1, EmptySeq
    <3>3. QED
      BY <3>1, <3>2 DEF PortableInv, PortableTypeOK, Operations
  <2>7. QED
    BY <1>1, <1>2, <2>2, <2>4, <2>6 DEF Fifo!Block
<1>6. QED
  BY <1>4, <1>5

\* Taking the mutex, falling asleep, loading the count and signalling another are
\* not seen.
LEMMA InnerSteps ==
  ASSUME PortableInv, SerialInv, OneMoves', NEW c \in Callers,
         \/ Lock(c) \/ WaitBegins(c) \/ Signal(c) \/ LoadOffset(c) \/ LoadCount(c)
  PROVE  UNCHANGED Fifo!queueVars
<1>1. /\ op' = op /\ message' = message /\ result' = result
      /\ \/ pc[c] = "lock" /\ pc'[c] = "check"
         \/ pc[c] = "wait" /\ pc'[c] = "waiting"
         \/ pc[c] = "signal" /\ pc'[c] = "unlock"
         \/ pc[c] = "offset" /\ pc'[c] = "advance"
         \/ pc[c] = "count" /\ pc'[c] = "update"
  BY DEF Lock, WaitBegins, Signal, LoadOffset, LoadCount, Goto, PortableInv, PortableTypeOK
<1>2. CallOf(c)' = CallOf(c)
  BY <1>1 DEF CallOf, TookEffect
<1>3. CASE Lock(c) \/ WaitBegins(c) \/ Signal(c)
  BY <1>2, <1>3, QuietSteps, QuietContents, Unseen DEF Step
<1>4. CASE LoadOffset(c) \/ LoadCount(c)
  <2>1. /\ UNCHANGED <<slots, offset, num_queued>>
        /\ \/ pc[c] = "offset" /\ pc'[c] = "advance"
           \/ pc[c] = "count" /\ pc'[c] = "update"
    BY <1>4 DEF LoadOffset, LoadCount, Goto, PortableInv, PortableTypeOK
  <2>2. Moving(c) /\ Moving(c)'
    BY <2>1 DEF Moving
  <2>3. Passed' <=> Passed
    BY <1>1, <2>1, <2>2, MoverCounts DEF SerialInv
  <2>4. Contents' = Contents
    BY <2>1, <2>3 DEF Length, Contents
  <2>5. QED
    BY <1>2, <1>4, <2>4, Unseen DEF Step
<1>5. QED
  BY <1>3, <1>4

\* A signalled caller goes on.
LEMMA SignalledGoesOn ==
  ASSUME PortableInv, NEW c \in Callers, WaitSignalled(c)
  PROVE  Fifo!GoOn(c)
<1>1. Contents' = Contents
  BY QuietSteps, QuietContents
<1>2. Calls' = [Calls EXCEPT ![c] = CallOf(c)'] /\ Calls[c] = CallOf(c)
  BY OneCallChanges DEF Step
<1>3. pc[c] = "waiting" /\ pc'[c] = "copy" /\ op' = op /\ message' = message
  BY DEF WaitSignalled, Goto, PortableInv, PortableTypeOK
<1>4. CallOf(c) = [status |-> "blocked", op |-> op[c],
                   message |-> IF op[c] = "send" THEN message[c] ELSE NoMessage]
  BY <1>3 DEF CallOf, TookEffect
<1>5. CallOf(c)' = [CallOf(c) EXCEPT !.status = "pending"]
  BY <1>3, <1>4 DEF CallOf, TookEffect
<1>6. QED
  BY <1>1, <1>2, <1>4, <1>5 DEF Fifo!GoOn

\* A caller that gives up is refused.
LEMMA GivesUpRefused ==
  ASSUME PortableInv, SerialInv, NEW c \in Callers, WaitRefused(c) \/ WaitTimesOut(c)
  PROVE  Fifo!Refuse(c)
<1>1. Contents' = Contents
  BY QuietSteps, QuietContents
<1>2. Calls' = [Calls EXCEPT ![c] = CallOf(c)'] /\ Calls[c] = CallOf(c)
  BY OneCallChanges DEF Step
<1>3. /\ pc[c] \in {"wait", "waiting"} /\ pc'[c] = "return"
      /\ op' = op /\ message' = message /\ result'[c] \in {"TIMEOUT", "ERROR"}
  BY DEF WaitRefused, WaitTimesOut, Goto, PortableInv, PortableTypeOK
<1>4. message[c] = IF op[c] = "send" THEN message[c] ELSE NoMessage
  BY <1>3 DEF SerialInv, CallInv, PortableInv, PortableTypeOK, Operations
<1>5. CallOf(c) = [status |-> "blocked", op |-> op[c], message |-> message[c]]
  BY <1>3, <1>4 DEF CallOf, TookEffect
<1>6. CallOf(c)' = Fifo!Done(op[c], message[c], result'[c])
  BY <1>3 DEF CallOf, TookEffect, Fifo!Done
<1>7. Calls[c].status = "blocked" /\ Calls[c].op = op[c] /\ Calls[c].message = message[c]
  BY <1>2, <1>5
<1>8. Calls' = [Calls EXCEPT ![c] = Fifo!Done(Calls[c].op, Calls[c].message, result'[c])]
  BY <1>2, <1>6, <1>7
<1>9. QED
  BY <1>1, <1>3, <1>7, <1>8 DEF Fifo!Refuse

\* A call that is over returns.
LEMMA OverReturns ==
  ASSUME PortableInv, NEW c \in Callers, Unlock(c) \/ ReturnWithoutUnlock(c)
  PROVE  Fifo!Return(c)
<1>1. Contents' = Contents
  BY QuietSteps, QuietContents
<1>2. Calls' = [Calls EXCEPT ![c] = CallOf(c)'] /\ Calls[c] = CallOf(c)
  BY OneCallChanges DEF Step
<1>3. pc[c] \in {"unlock", "return"} /\ pc'[c] = "idle"
  BY DEF Unlock, ReturnWithoutUnlock, Goto, PortableInv, PortableTypeOK
<1>4. CallOf(c).status = "done" /\ CallOf(c)' = Fifo!NoCall
  BY <1>3 DEF CallOf, TookEffect, Fifo!NoCall
<1>5. QED
  BY <1>1, <1>2, <1>4 DEF Fifo!Return

\* Filling a slot beyond the messages, or a caller's own buffer, is not seen.
LEMMA CopyUnseen ==
  ASSUME PortableInv, SerialInv, OneMoves', NEW c \in Callers, Copy(c)
  PROVE  UNCHANGED Fifo!queueVars
<1> DEFINE o == offset["receive"]
<1>1. pc[c] = "copy" /\ pc'[c] = "offset" /\ op' = op /\ UNCHANGED <<offset, num_queued>>
  BY DEF Copy, Goto, PortableInv, PortableTypeOK
<1>2. Moving(c) /\ Moving(c)'
  BY <1>1 DEF Moving
<1>3. ~ Passed /\ ~ Sent /\ Length' = Length /\ Length = num_queued
  BY <1>1, <1>2, MoverCounts DEF SerialInv, Length
<1>4. CallOf(c)' = CallOf(c)
  BY <1>1 DEF Copy, CallOf, TookEffect
<1>5. ASSUME NEW i \in 1 .. Length
      PROVE  slots'[(o + i - 1) % NumMsgs] = slots[(o + i - 1) % NumMsgs]
  <2>1. CASE op[c] = "send"
    <3>1. slots' = [slots EXCEPT ![(o + Length) % NumMsgs] = message[c]]
      BY <1>3, <2>1 DEF Copy, SerialInv, RingInv
    <3>2. NumMsgs \in Nat \ {0} /\ o \in 0 .. NumMsgs - 1
      BY PortableQueueAssumption DEF PortableInv, PortableTypeOK, Slots, Operations
    <3>3. Length \in Nat /\ Length < NumMsgs
      BY <1>1, <1>3, <2>1, LengthBounds DEF SerialInv, CountInv, Room
    <3>4. i - 1 \in 0 .. NumMsgs - 1 /\ Length \in 0 .. NumMsgs - 1 /\ i - 1 # Length
      BY <3>2, <3>3
    <3>5. (o + (i - 1)) % NumMsgs # (o + Length) % NumMsgs
      BY <3>2, <3>4, RingApart
    <3>6. QED
      BY <3>1, <3>5 DEF PortableInv, PortableTypeOK
  <2>2. CASE op[c] # "send"
    BY <2>2 DEF Copy
  <2>3. QED
    BY <2>1, <2>2
<1>6. Contents' = Contents
  BY <1>1, <1>3, <1>5, SameContents
<1>7. QED
  BY <1>4, <1>6, Unseen DEF Step

\* A receive takes effect when it moves on.
LEMMA OffsetReceives ==
  ASSUME PortableInv, SerialInv, PortableInv', SerialInv', NEW c \in Callers, StoreOffset(c)
  PROVE  Fifo!Receive(c) \/ UNCHANGED Fifo!queueVars
<1> DEFINE o == offset["receive"]
<1>1. /\ pc[c] = "advance" /\ pc'[c] = "count"
      /\ offset' = [offset EXCEPT ![op[c]] = (offset[op[c]] + 1) % NumMsgs]
      /\ UNCHANGED <<slots, num_queued, op, message, result>>
  <2>1. pc[c] = "advance" /\ pc'[c] = "count"
    BY DEF StoreOffset, Goto, PortableInv, PortableTypeOK
  <2>2. loaded[c] = offset[op[c]]
    BY <2>1 DEF SerialInv, RingInv
  <2>3. QED
    BY <2>1, <2>2 DEF StoreOffset
<1>2. Moving(c) /\ Moving(c)'
  BY <1>1 DEF Moving
<1>3. ~ Passed /\ Length = num_queued
  BY <1>1, <1>2, MoverCounts DEF SerialInv, Length
<1>4. Calls' = [Calls EXCEPT ![c] = CallOf(c)'] /\ Calls[c] = CallOf(c)
  BY OneCallChanges DEF Step
<1>5. CASE op[c] = "send"
  <2>1. offset'["receive"] = o
    BY <1>1, <1>5 DEF PortableInv, PortableTypeOK, Operations
  <2>2. Length' = Length
    BY <1>1, <1>2, <1>3, <1>5, MoverCounts DEF SerialInv, Length
  <2>3. Contents' = Contents
    BY <1>1, <2>1, <2>2, SameContents
  <2>4. CallOf(c)' = CallOf(c)
    BY <1>1, <1>5 DEF CallOf, TookEffect
  <2>5. QED
    BY <2>3, <2>4, Unseen DEF Step
<1>6. CASE op[c] = "receive"
  <2>1. NumMsgs \in Nat \ {0} /\ o \in 0 .. NumMsgs - 1
    BY PortableQueueAssumption DEF PortableInv, PortableTypeOK, Slots, Operations
  <2>2. offset'["receive"] = (o + 1) % NumMsgs
    BY <1>1, <1>6 DEF PortableInv, PortableTypeOK, Operations
  <2>3. Length \in 1 .. NumMsgs
    BY <1>1, <1>3, <1>6, <2>1, LengthBounds DEF SerialInv, CountInv, Room
  <2>4. Length' = Length - 1
    BY <1>1, <1>2, <1>3, <1>6, MoverCounts DEF SerialInv, Length
  <2>5. Contents \in [1 .. Length -> Messages]
    BY ContentsAreMessages
  <2>6. Contents' \in [1 .. Length - 1 -> Messages]
    BY <2>4 DEF Contents, SerialInv, RingInv
  <2>7. ASSUME NEW i \in 1 .. Length - 1
        PROVE  Contents'[i] = Contents[i + 1]
    <3>1. i - 1 \in 0 .. NumMsgs - 1 /\ i \in 1 .. Length' /\ i + 1 \in 1 .. Length
          /\ o + (i - 1) + 1 = o + ((i + 1) - 1)
      BY <2>1, <2>3, <2>4
    <3>2. (((o + 1) % NumMsgs) + (i - 1)) % NumMsgs = (o + (i - 1) + 1) % NumMsgs
      BY <2>1, <3>1, RingAdvance
    <3>3. Contents'[i] = slots[(((o + 1) % NumMsgs) + (i - 1)) % NumMsgs]
      BY <1>1, <2>2, <3>1 DEF Contents
    <3>4. Contents[i + 1] = slots[(o + ((i + 1) - 1)) % NumMsgs]
      BY <3>1 DEF Contents
    <3>5. QED
      BY <3>1, <3>2, <3>3, <3>4
  <2>8. Contents # <<>> /\ Contents' = Tail(Contents) /\ Head(Contents) = Contents[1]
    BY <2>3, <2>5, <2>6, <2>7, TailOfFunction
  <2>9. Contents[1] = message[c]
    <3>1. 1 \in 1 .. Length /\ o + (1 - 1) = o /\ o % NumMsgs = o
      BY <2>1, <2>3
    <3>2. Contents[1] = slots[(o + (1 - 1)) % NumMsgs]
      BY <3>1 DEF Contents
    <3>3. message[c] = slots[o]
      BY <1>1, <1>6 DEF SerialInv, RingInv
    <3>4. QED
      BY <3>1, <3>2, <3>3
  <2>10. CallOf(c) = Fifo!Pending("receive", NoMessage)
    BY <1>1, <1>6 DEF CallOf, TookEffect, Fifo!Pending
  <2>11. CallOf(c)' = Fifo!Done("receive", message[c], "OKAY")
    BY <1>1, <1>6 DEF CallOf, TookEffect, Fifo!Done, SerialInv, CallInv
  <2>12. QED
    BY <1>4, <2>8, <2>9, <2>10, <2>11 DEF Fifo!Receive
<1>7. QED
  BY <1>5, <1>6 DEF PortableInv, PortableTypeOK, Operations

\* A send takes effect when it is counted.
LEMMA CountSends ==
  ASSUME PortableInv, SerialInv, PortableInv', SerialInv', NEW c \in Callers, StoreCount(c)
  PROVE  Fifo!Send(c) \/ UNCHANGED Fifo!queueVars
<1> DEFINE o == offset["receive"]
<1>1. /\ pc[c] = "update" /\ pc'[c] = "signal"
      /\ UNCHANGED <<slots, offset, op, message, result>>
  BY DEF StoreCount, Goto, PortableInv, PortableTypeOK
<1>2. Moving(c) /\ Moving(c)'
  BY <1>1 DEF Moving
<1>3. ~ Passed' /\ Length' = num_queued'
  BY <1>1, <1>2, MoverCounts DEF SerialInv, Length
<1>4. Calls' = [Calls EXCEPT ![c] = CallOf(c)'] /\ Calls[c] = CallOf(c)
  BY OneCallChanges DEF Step
<1>5. CASE op[c] = "send"
  <2>1. Length = num_queued /\ Sent
    BY <1>1, <1>2, <1>5, MoverCounts DEF SerialInv, Length
  <2>2. Length' = Length + 1 /\ Length \in Nat /\ Length < NumMsgs
    BY <1>3, <1>5, <2>1, SendCounted, LengthBounds, PortableQueueAssumption DEF SerialInv
  <2>3. Contents \in [1 .. Length -> Messages] /\ Len(Contents) = Length
    BY ContentsAreMessages
  <2>4. Contents' \in [1 .. Length + 1 -> Messages]
    BY <2>2 DEF Contents, SerialInv, RingInv
  <2>5. \A i \in 1 .. Length : Contents'[i] = Contents[i]
    BY <1>1, <2>2 DEF Contents
  <2>6. Contents'[Length + 1] = message[c]
    <3>1. Length + 1 \in 1 .. Length' /\ o + ((Length + 1) - 1) = o + Length
      BY <2>2, PortableQueueAssumption DEF PortableInv, PortableTypeOK, Slots, Operations
    <3>2. Contents'[Length + 1] = slots[(o + ((Length + 1) - 1)) % NumMsgs]
      BY <1>1, <3>1 DEF Contents
    <3>3. slots[(o + Length) % NumMsgs] = message[c]
      BY <1>1, <1>5 DEF SerialInv, RingInv, NextSlot
    <3>4. QED
      BY <3>1, <3>2, <3>3
  <2>7. Contents' = Append(Contents, message[c])
    BY <2>2, <2>3, <2>4, <2>5, <2>6, AppendedFunction
  <2>8. message[c] \in Messages
    BY <1>1, <1>5 DEF SerialInv, CallInv
  <2>9. CallOf(c) = Fifo!Pending("send", message[c])
    BY <1>1, <1>5 DEF CallOf, TookEffect, Fifo!Pending
  <2>10. CallOf(c)' = Fifo!Done("send", message[c], "OKAY")
    BY <1>1, <1>5 DEF CallOf, TookEffect, Fifo!Done, SerialInv, CallInv
  <2>11. QED
    BY <1>4, <2>2, <2>3, <2>7, <2>8, <2>9, <2>10 DEF Fifo!Send
<1>6. CASE op[c] = "receive"
  <2>1. Length = num_queued - 1
    BY <1>1, <1>2, <1>6, MoverCounts DEF SerialInv, Length
  <2>2. Length' = Length
    BY <1>3, <1>6, <2>1, ReceiveCounted
  <2>3. Contents' = Contents
    BY <1>1, <2>2, SameContents
  <2>4. CallOf(c)' = CallOf(c)
    BY <1>1, <1>6 DEF CallOf, TookEffect
  <2>5. QED
    BY <2>3, <2>4, Unseen DEF Step
<1>7. QED
  BY <1>5, <1>6 DEF PortableInv, PortableTypeOK, Operations

\* While calls are serialized, the portable queue implements the bounded FIFO of
\* os_queue.h: its messages are received in the order they were sent, each once,
\* only a blocked call is refused and a refused call changes nothing, for any
\* number of threads and messages, any size and any number of calls that gave up
\* with the mutex in hand.
THEOREM SerializedFifo == Serialized => (Spec => ImplementsFifo)
<1> SUFFICES ASSUME Serialized
             PROVE  Spec => ImplementsFifo
  OBVIOUS
<1>1. Init => Fifo!Init
  <2> SUFFICES ASSUME Init
               PROVE  Fifo!Init
    OBVIOUS
  <2>1. Length = 0
    BY DEF Init, Passed, Length
  <2>2. Contents \in [1 .. 0 -> Messages]
    BY <2>1 DEF Contents
  <2>3. Contents = <<>>
    BY <2>2, FunctionIsSequence, EmptySeq
  <2>4. Calls = [c \in Callers |-> Fifo!NoCall]
    BY DEF Init, Calls, CallOf, Fifo!NoCall
  <2>5. QED
    BY <2>3, <2>4 DEF Fifo!Init
<1>2. PortableInv /\ SerialInv /\ PortableInv' /\ SerialInv' /\ [Next]_portableVars
        => [Fifo!Next]_Fifo!queueVars
  <2> SUFFICES ASSUME PortableInv, SerialInv, PortableInv', SerialInv', [Next]_portableVars
               PROVE  [Fifo!Next]_Fifo!queueVars
    OBVIOUS
  <2>1. OneMoves'
    BY DEF SerialInv
  <2>2. ASSUME NEW c \in Callers, Call(c) \/ Step(c)
        PROVE  [Fifo!Next]_Fifo!queueVars
    <3>1. CASE Call(c)
      BY <3>1, CallInvokes DEF Fifo!Next
    <3>2. CASE Check(c)
      BY <3>2, CheckBlocks DEF Fifo!Next
    <3>3. CASE Lock(c) \/ WaitBegins(c) \/ Signal(c) \/ LoadOffset(c) \/ LoadCount(c)
      BY <2>1, <3>3, InnerSteps
    <3>4. CASE WaitSignalled(c)
      BY <3>4, SignalledGoesOn DEF Fifo!Next
    <3>5. CASE WaitRefused(c) \/ WaitTimesOut(c)
      BY <3>5, GivesUpRefused DEF Fifo!Next
    <3>6. CASE Copy(c)
      BY <2>1, <3>6, CopyUnseen
    <3>7. CASE StoreOffset(c)
      BY <3>7, OffsetReceives DEF Fifo!Next
    <3>8. CASE StoreCount(c)
      BY <3>8, CountSends DEF Fifo!Next
    <3>9. CASE Unlock(c) \/ ReturnWithoutUnlock(c)
      BY <3>9, OverReturns DEF Fifo!Next
    <3>10. QED
      BY <2>2, <3>1, <3>2, <3>3, <3>4, <3>5, <3>6, <3>7, <3>8, <3>9 DEF Step
  <2>3. CASE UNCHANGED portableVars
    BY <2>3 DEF portableVars, Fifo!queueVars, Contents, Length, Passed, Calls, CallOf,
               TookEffect
  <2>4. QED
    BY <2>2, <2>3 DEF Next
<1>3. QED
  BY <1>1, <1>2, PortableInvInvariant, SerialInvInvariant, PTL
     DEF Spec, ImplementsFifo, Fifo!Spec
================================================================================
