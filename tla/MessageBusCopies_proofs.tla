------------------------- MODULE MessageBusCopies_proofs -------------------------
(***************************************************************************)
(* Proof that a queue gets a message at most once for each time that one of*)
(* its pipes was registered for the packet, for any number of threads,     *)
(* registrants, packets, pipes, calls and messages per pipe, as long as no *)
(* two registrations of this packet overlapped.                            *)
(*                                                                         *)
(* The argument is a count.  Every registration that the sending loop has  *)
(* passed accounts for at most one copy of the message: the loop passes a  *)
(* registration once, a registration that no other overlaps is neither     *)
(* moved nor overwritten, a pipe that ever had a queue is remembered, and a*)
(* call sends a message of its kind in one loop only, which for em_event   *)
(* depends on where it is called from.                                     *)
(***************************************************************************)
EXTENDS MessageBus_proofs, FiniteSetTheorems

(***************************************************************************)
(* The inductive invariant, beside BusInv.                                 *)
(***************************************************************************)

\* Where em_event is called from, and the counters that only a call with a NULL
\* message or the telemetry task increments.
OriginOK(at, c) ==
  /\ at \in {"null", "null_stored"} => c.origin = "null"
  /\ at \in {"telemetry", "tlm_error"} => c.origin = "telemetry"
  /\ at = "em_event" => c.origin \in {"null", "telemetry"}

OriginInv == \A t \in Threads : OriginOK(pc[t], call[t])

\* In its n-th call the thread has tried the i-th registration of k with a
\* message that it sends for of, or will not try it any more.
Tried(t, n, of, k, i) ==
  /\ n <= calls[t]
  /\ n = calls[t] /\ Sending(t) =>
       IF of = call[t].origin THEN k = call[t].packet => i < call[t].index
       ELSE of = "event" => call[t].origin = "app"

\* Where a sequence of messages holds one of them.
CopiesOf(held, message) == {i \in 1 .. Len(held) : held[i] = message}

\* The registrations of pipes of a queue that account for copies of a message.
Used(q, t, n, of, k) ==
  {i \in 0 .. num_queues[k] - 1 : <<queues[k][i], q>> \in opened /\ Tried(t, n, of, k, i)}

CopiesInv ==
  \A q \in DOMAIN mqueues, t \in Threads, n \in Nat, of \in Origins,
     k \in Packets \ overlapped :
    Cardinality(CopiesOf(mqueues[q], Message(t, n, of, k)))
      <= Cardinality(Used(q, t, n, of, k))

CountInv == BusInv /\ OriginInv /\ CopiesInv

(***************************************************************************)
(* Sequences of messages.                                                  *)
(***************************************************************************)

\* A sequence holds finitely many copies.
LEMMA CopiesFinite ==
  ASSUME NEW held \in Seq(Messages), NEW m
  PROVE  IsFiniteSet(CopiesOf(held, m)) /\ Cardinality(CopiesOf(held, m)) \in Nat
  <1>1. IsFiniteSet(1 .. Len(held))
    BY FS_Interval
  <1>2. CopiesOf(held, m) \in SUBSET (1 .. Len(held))
    BY DEF CopiesOf
  <1>3. IsFiniteSet(CopiesOf(held, m))
    BY <1>1, <1>2, FS_Subset
  <1> QED
    BY <1>3, FS_CardinalityType

\* A message that is appended is one more copy of itself and of nothing else.
LEMMA CopiesAppend ==
  ASSUME NEW held \in Seq(Messages), NEW new \in Messages, NEW m
  PROVE  Cardinality(CopiesOf(Append(held, new), m))
           = Cardinality(CopiesOf(held, m)) + (IF new = m THEN 1 ELSE 0)
  <1> DEFINE q == Append(held, new)
             end == Len(held) + 1
  <1>1. Len(q) = end /\ Len(held) \in Nat
    OBVIOUS
  <1>2. q[end] = new /\ \A i \in 1 .. Len(held) : q[i] = held[i]
    OBVIOUS
  <1> HIDE DEF q
  <1>3. CASE new = m
    <2>1. CopiesOf(q, m) = CopiesOf(held, m) \cup {end} /\ end \notin CopiesOf(held, m)
      BY <1>1, <1>2, <1>3 DEF CopiesOf
    <2> QED
      BY <2>1, <1>3, CopiesFinite, FS_AddElement DEF q
  <1>4. CASE new # m
    <2>1. CopiesOf(q, m) = CopiesOf(held, m)
      BY <1>1, <1>2, <1>4 DEF CopiesOf
    <2> QED
      BY <2>1, <1>4, CopiesFinite DEF q
  <1> QED
    BY <1>3, <1>4

\* A sequence without its first message holds no more copies than before.
LEMMA CopiesTail ==
  ASSUME NEW held \in Seq(Messages), held # <<>>, NEW m
  PROVE  Cardinality(CopiesOf(Tail(held), m)) <= Cardinality(CopiesOf(held, m))
  <1> DEFINE q == Tail(held)
             next == [i \in CopiesOf(q, m) |-> i + 1]
  <1>1. q \in Seq(Messages) /\ Len(q) = Len(held) - 1 /\ Len(held) \in Nat
    OBVIOUS
  <1>2. \A i \in 1 .. Len(q) : q[i] = held[i + 1] /\ i + 1 \in 1 .. Len(held)
    OBVIOUS
  <1> HIDE DEF q
  <1>3. next \in [CopiesOf(q, m) -> CopiesOf(held, m)]
    BY <1>1, <1>2 DEF CopiesOf
  <1>4. \A i, j \in CopiesOf(q, m) : next[i] = next[j] => i = j
    BY <1>1 DEF CopiesOf
  <1>5. next \in Injection(CopiesOf(q, m), CopiesOf(held, m))
    BY <1>3, <1>4 DEF Injection, IsInjective
  <1> HIDE DEF next
  <1> QED
    BY <1>5, CopiesFinite, FS_Injection DEF q

(***************************************************************************)
(* Registrations and calls: what accounts for a copy goes on to do so.     *)
(***************************************************************************)

\* A set of indices below a bound is finite.
LEMMA BelowFinite ==
  ASSUME NEW b \in Int, NEW S \in SUBSET (0 .. b)
  PROVE  IsFiniteSet(S) /\ Cardinality(S) \in Nat
  <1>1. IsFiniteSet(0 .. b)
    BY FS_Interval
  <1>2. IsFiniteSet(S)
    BY <1>1, FS_Subset
  <1> QED
    BY <1>2, FS_CardinalityType

\* Finitely many registrations account for copies.
LEMMA UsedFinite ==
  ASSUME BusInv, NEW q, NEW t, NEW n, NEW of, NEW k \in Packets
  PROVE  IsFiniteSet(Used(q, t, n, of, k)) /\ Cardinality(Used(q, t, n, of, k)) \in Nat
  <1>1. num_queues[k] - 1 \in Int
    BY DEF BusInv, SetupInv
  <1>2. Used(q, t, n, of, k) \in SUBSET (0 .. num_queues[k] - 1)
    BY DEF Used
  <1> QED
    BY <1>1, <1>2, BelowFinite

\* And so it is after a step.
LEMMA UsedFiniteNext ==
  ASSUME BusInv', NEW q, NEW t, NEW n, NEW of, NEW k \in Packets
  PROVE  IsFiniteSet(Used(q, t, n, of, k)') /\ Cardinality(Used(q, t, n, of, k)') \in Nat
  <1>1. num_queues'[k] - 1 \in Int
    BY DEF BusInv, SetupInv
  <1>2. Used(q, t, n, of, k)' \in SUBSET (0 .. num_queues'[k] - 1)
    BY DEF Used
  <1> QED
    BY <1>1, <1>2, BelowFinite

\* Only a registrant's step changes pipes and registrations.
LEMMA SetupOrThread ==
  ASSUME Next
  PROVE  UNCHANGED setupVars \/ \E r \in Registrants : Setup(r)
  BY DEF Next, MbSend, Step, MbReceive, MbSendCounted, MbSendNull, MbSendNullEvent,
     EmEventSends, MbSendToPipe, MbSendError, MbSendErrorCounted, MbSendEnds,
     EmEventCounts, TlmCounts, TlmErrorCounted, MbReceiveCounts, Counted, Return

\* What a registrant's step may change of the bus: packets whose registrations
\* overlapped stay so, and pipes and queues are only added.
LEMMA StepsAdd ==
  ASSUME Next
  PROVE  overlapped \subseteq overlapped' /\ opened \subseteq opened'
  <1>1. ASSUME NEW r \in Registrants, Setup(r)
        PROVE  overlapped \subseteq overlapped' /\ opened \subseteq opened'
    BY <1>1 DEF Setup, MbCreatePipe, MbCreateSlot, OsQueueName, OsQueueLoad, OsQueueCreate,
       MbCreateLoad, MbCreateStore, MbRegisterPacket, MbRegisterEnter, MbRegisterLoad,
       MbRegisterStore, pipeVars
  <1>2. UNCHANGED setupVars => UNCHANGED <<overlapped, opened>>
    BY DEF setupVars, pipeVars, registrantVars
  <1> QED
    BY <1>1, <1>2, SetupOrThread

\* A registration is not taken back, nor changed once it is counted: a registrant
\* that no other overlaps enters its pipe behind it, and counts one more.
LEMMA RegistrationsGrow ==
  ASSUME MessageBusAssumption, BusInv, Next, NEW k \in Packets \ overlapped',
         NEW i \in 0 .. num_queues[k] - 1
  PROVE  i \in 0 .. num_queues'[k] - 1 /\ queues'[k][i] = queues[k][i]
  <1>1. /\ num_queues \in [Packets -> Nat] /\ queues \in [Packets -> [Indices -> Nat]]
        /\ local \in [Registrants -> Locals]
    BY DEF BusInv, SetupInv
  <1>2. Apart(k)
    BY StepsAdd DEF BusInv, ApartInv
  <1>3. CASE UNCHANGED <<num_queues, queues>>
    BY <1>3
  <1>4. ASSUME NEW r \in Registrants, MbRegisterEnter(r)
        PROVE  i \in 0 .. num_queues'[k] - 1 /\ queues'[k][i] = queues[k][i]
    <2>1. PICK j \in Packets, n \in Nat, p \in Nat :
            j = local[r].packet /\ n = local[r].next /\ p = local[r].pipe
      BY <1>1 DEF Locals
    <2>2. num_queues' = num_queues /\ queues' = [queues EXCEPT ![j][n] = p]
      BY <1>4, <2>1 DEF MbRegisterEnter
    <2>3. CASE j = k
      <3>1. Registering(r, k)
        BY <1>4, <2>1, <2>3 DEF MbRegisterEnter, Place, Registering, RegisterPlaces
      <3>2. n = num_queues[k]
        BY <1>2, <2>1, <3>1 DEF Apart, EntersNext
      <3>3. i # n /\ num_queues[k] \in Nat
        BY <1>1, <3>2
      <3> QED
        BY <1>1, <2>2, <2>3, <3>3
    <2>4. CASE j # k
      BY <1>1, <2>2, <2>4
    <2> QED
      BY <2>3, <2>4
  <1>5. ASSUME NEW r \in Registrants, MbRegisterStore(r)
        PROVE  i \in 0 .. num_queues'[k] - 1 /\ queues'[k][i] = queues[k][i]
    <2>1. PICK j \in Packets, val \in Nat : j = local[r].packet /\ val = local[r].value
      BY <1>1 DEF Locals
    <2>2. queues' = queues /\ num_queues' = [num_queues EXCEPT ![j] = val + 1]
      BY <1>5, <2>1 DEF MbRegisterStore
    <2>3. CASE j = k
      <3>1. Registering(r, k) /\ place[r] = "loaded"
        BY <1>5, <2>1, <2>3 DEF MbRegisterStore, Leave, Place, Registering, RegisterPlaces
      <3>2. val = num_queues[k]
        BY <1>2, <2>1, <3>1 DEF Apart, EntersNext
      <3>3. num_queues'[k] = num_queues[k] + 1 /\ num_queues[k] \in Nat
        BY <1>1, <2>2, <2>3, <3>2
      <3> QED
        BY <2>2, <3>3
    <2>4. CASE j # k
      BY <1>1, <2>2, <2>4
    <2> QED
      BY <2>3, <2>4
  <1>6. ASSUME NEW r \in Registrants, Setup(r), ~MbRegisterEnter(r), ~MbRegisterStore(r)
        PROVE  UNCHANGED <<num_queues, queues>>
    BY <1>6 DEF Setup, MbCreatePipe, MbCreateSlot, OsQueueName, OsQueueLoad, OsQueueCreate,
       MbCreateLoad, MbCreateStore, MbRegisterPacket, MbRegisterLoad, packetVars
  <1> QED
    BY <1>3, <1>4, <1>5, <1>6, SetupOrThread DEF setupVars, packetVars

\* A registrant is in no call of a thread's.
LEMMA RegistrantsApart ==
  ASSUME NEW r \in Registrants, Setup(r)
  PROVE  UNCHANGED threadVars
  BY DEF Setup, MbCreatePipe, MbCreateSlot, OsQueueName, OsQueueLoad, OsQueueCreate,
     MbCreateLoad, MbCreateStore, MbRegisterPacket, MbRegisterEnter, MbRegisterLoad,
     MbRegisterStore

\* A thread that has tried a registration does not try it again.
LEMMA TriedGrows ==
  ASSUME MessageBusAssumption, BusInv, OriginInv, Next,
         NEW t \in Threads, NEW n \in Nat, NEW of \in Origins, NEW k \in Packets,
         NEW i \in Nat, Tried(t, n, of, k, i)
  PROVE  Tried(t, n, of, k, i)'
  <1> USE DEF Tried, Sending
  <1>1. /\ calls \in [Threads -> Nat] /\ DOMAIN pc = Threads /\ DOMAIN call = Threads
    BY DEF BusInv, ThreadInv
  <1>2. CASE UNCHANGED <<pc[t], call[t], calls[t]>>
    BY <1>2
  <1>3. ASSUME NEW u \in Threads, MbSend(u) \/ \E p \in 0 .. num_pipes - 1 : MbReceive(u, p)
        PROVE  Tried(t, n, of, k, i)'
    <2>1. /\ calls' = [calls EXCEPT ![u] = @ + 1]
          /\ \E at \in PCs : pc' = [pc EXCEPT ![u] = at]
          /\ \E c : call' = [call EXCEPT ![u] = c]
      BY <1>3, Zenon DEF MbSend, MbReceive, Goto, PCs, BeforeLoop
    <2>2. CASE u = t
      BY <1>1, <2>1, <2>2
    <2>3. CASE u # t
      BY <1>1, <1>2, <2>1, <2>3
    <2> QED
      BY <2>2, <2>3
  <1>4. ASSUME NEW u \in Threads, Step(u)
        PROVE  Tried(t, n, of, k, i)'
    <2>1. CASE EmEventSends(u)
      <3>1. /\ pc[u] = "em_event" /\ pc' = [pc EXCEPT ![u] = "sent"] /\ calls' = calls
            /\ call' = [call EXCEPT ![u] = SendCall("event", EventPacket, "NO_WAIT")]
        BY <2>1 DEF EmEventSends, Goto
      <3>2. call[u].origin \in {"null", "telemetry"}
        BY <3>1 DEF OriginInv, OriginOK
      <3>3. CASE u = t
        <4>1. call'[t].origin = "event"
          BY <1>1, <3>1, <3>3 DEF SendCall
        <4> QED
          BY <3>1, <3>2, <3>3, <4>1
      <3>4. CASE u # t
        BY <1>2, <3>1, <3>4
      <3> QED
        BY <3>3, <3>4
    <2>2. CASE MbSendToPipe(u)
      <3>1. /\ pc[u] = "loop" /\ calls' = calls /\ \E at : pc' = [pc EXCEPT ![u] = at]
            /\ pc'[u] # "idle"
            /\ \E result : call' = [call EXCEPT ![u].index = @ + 1, ![u].result = result]
        BY <1>1, <2>2, Zenon DEF MbSendToPipe, Goto
      <3>2. call[u] \in SendCalls
        BY <3>1, ThreadAt DEF InLoop
      <3>3. call[u].index \in Nat
        BY <3>2 DEF SendCalls
      <3>4. CASE u = t
        <4>1. /\ call'[t].origin = call[t].origin /\ call'[t].packet = call[t].packet
              /\ call'[t].index = call[t].index + 1
          BY <1>1, <3>1, <3>2, <3>4 DEF SendCalls
        <4>2. pc[t] = "loop"
          BY <3>1, <3>4
        <4> QED
          BY <3>1, <3>3, <3>4, <4>1, <4>2
      <3>5. CASE u # t
        BY <1>1, <1>2, <3>1, <3>5
      <3> QED
        BY <3>4, <3>5
    <2>3. CASE Return(u)
      <3>1. /\ calls' = calls /\ pc' = [pc EXCEPT ![u] = "idle"]
            /\ call' = [call EXCEPT ![u] = NoCall]
        BY <2>3 DEF Return, Goto
      <3> QED
        BY <1>1, <3>1
    <2>4. CASE /\ pc[u] # "idle" /\ UNCHANGED <<call, calls>>
               /\ \E at : pc' = [pc EXCEPT ![u] = at]
      BY <1>1, <2>4
    <2> QED
      BY <1>4, <2>1, <2>2, <2>3, <2>4 DEF Step, MbSendCounted, MbSendNull, MbSendNullEvent,
         MbSendError, MbSendErrorCounted, MbSendEnds, EmEventCounts, TlmCounts,
         TlmErrorCounted, MbReceiveCounts, Counted, Goto
  <1>5. ASSUME NEW r \in Registrants, Setup(r)
        PROVE  Tried(t, n, of, k, i)'
    BY <1>2, <1>5, RegistrantsApart DEF threadVars
  <1> QED
    BY <1>3, <1>4, <1>5 DEF Next

\* What accounts for copies of a message goes on to account for them.
LEMMA UsedGrows ==
  ASSUME MessageBusAssumption, BusInv, OriginInv, Next, NEW q,
         NEW t \in Threads, NEW n \in Nat, NEW of \in Origins, NEW k \in Packets \ overlapped'
  PROVE  Used(q, t, n, of, k) \subseteq Used(q, t, n, of, k)'
  <1> SUFFICES ASSUME NEW i \in Used(q, t, n, of, k)
               PROVE  i \in Used(q, t, n, of, k)'
    OBVIOUS
  <1>1. /\ i \in 0 .. num_queues[k] - 1 /\ <<queues[k][i], q>> \in opened
        /\ Tried(t, n, of, k, i)
    BY DEF Used
  <1>2. i \in Nat
    BY <1>1
  <1>3. i \in 0 .. num_queues'[k] - 1 /\ <<queues'[k][i], q>> \in opened'
    BY <1>1, RegistrationsGrow, StepsAdd
  <1>4. Tried(t, n, of, k, i)'
    BY <1>1, <1>2, TriedGrows
  <1> QED
    BY <1>3, <1>4 DEF Used

(***************************************************************************)
(* The queues.                                                             *)
(***************************************************************************)

\* A queue that gets no copy keeps the count.
LEMMA CountKept ==
  ASSUME MessageBusAssumption, CountInv, BusInv', Next, NEW q \in DOMAIN mqueues,
         NEW t \in Threads, NEW n \in Nat, NEW of \in Origins, NEW k \in Packets \ overlapped',
         Cardinality(CopiesOf(mqueues'[q], Message(t, n, of, k)))
           <= Cardinality(CopiesOf(mqueues[q], Message(t, n, of, k))),
         mqueues'[q] \in Seq(Messages)
  PROVE  Cardinality(CopiesOf(mqueues'[q], Message(t, n, of, k)))
           <= Cardinality(Used(q, t, n, of, k)')
  <1> DEFINE m == Message(t, n, of, k)
  <1>1. Cardinality(CopiesOf(mqueues[q], m)) <= Cardinality(Used(q, t, n, of, k))
    BY StepsAdd DEF CountInv, CopiesInv
  <1>2. IsFiniteSet(Used(q, t, n, of, k)') /\ Cardinality(Used(q, t, n, of, k)') \in Nat
    BY UsedFiniteNext
  <1>3. Cardinality(Used(q, t, n, of, k)) <= Cardinality(Used(q, t, n, of, k)')
    BY <1>2, UsedGrows, FS_Subset DEF CountInv
  <1>4. /\ Cardinality(Used(q, t, n, of, k)) \in Nat
        /\ Cardinality(CopiesOf(mqueues'[q], m)) \in Nat
        /\ Cardinality(CopiesOf(mqueues[q], m)) \in Nat
    BY UsedFinite, CopiesFinite DEF CountInv, BusInv, QueueInv
  <1> QED
    BY <1>1, <1>2, <1>3, <1>4

\* A turn of the loop puts at most one copy in one queue, and passes one
\* registration of a pipe of this queue that accounted for none before.
LEMMA CountSendToPipe ==
  ASSUME MessageBusAssumption, CountInv, BusInv', NEW t \in Threads, MbSendToPipe(t), Next
  PROVE  CopiesInv'
  <1> DEFINE k == call[t].packet
             i == call[t].index
             of == call[t].origin
             sent == Message(t, calls[t], of, k)
  <1>1. /\ pc[t] = "loop" /\ i < num_queues[k]
        /\ UNCHANGED <<setupVars, calls>>
    BY DEF MbSendToPipe
  <1>2. PICK p \in PipeAt(k, i) :
          LET os == OsQueueSend(p, k, call[t].timeout)
          IN  /\ Goto(t, "loop", IF os = "ERROR" THEN "error" ELSE "loop")
              /\ call' = [call EXCEPT
                   ![t].index = @ + 1,
                   ![t].result = IF os = "ERROR" THEN "SEND_ERROR" ELSE os]
              /\ IF os = "OKAY"
                 THEN /\ mqueues' = [mqueues EXCEPT ![pipes[p]] = Append(@, sent)]
                      /\ accepted' = [accepted EXCEPT ![t] = @ \cup {i}]
                 ELSE UNCHANGED <<mqueues, accepted>>
    BY DEF MbSendToPipe
  <1> DEFINE os == OsQueueSend(p, k, call[t].timeout)
             to == pipes[p]
  <1>3. call[t] \in SendCalls
    BY <1>1, ThreadAt DEF InLoop, CountInv
  <1>4. k \in Packets /\ of \in Origins /\ i \in 0 .. num_queues[k] - 1 /\ i \in Nat
    <2>1. k \in Packets /\ of \in Origins /\ i \in Nat
      BY <1>3 DEF SendCalls
    <2>2. num_queues[k] \in Nat
      BY <2>1 DEF CountInv, BusInv, SetupInv
    <2> QED
      BY <1>1, <2>1, <2>2
  <1>5. sent \in Messages /\ calls[t] \in Nat
    BY <1>4 DEF Message, Messages, CountInv, BusInv, ThreadInv
  <1>6. UNCHANGED <<num_queues, queues, opened, overlapped>>
    BY <1>1 DEF setupVars, pipeVars, packetVars, registrantVars
  <1>7. /\ DOMAIN mqueues' = DOMAIN mqueues
        /\ \A q \in DOMAIN mqueues : mqueues[q] \in Seq(Messages) /\ mqueues'[q] \in Seq(Messages)
    <2>1. DOMAIN mqueues' = DOMAIN mqueues
      BY <1>2
    <2> QED
      BY <2>1 DEF CountInv, BusInv, QueueInv
  <1>8. /\ calls'[t] = calls[t]
        /\ call'[t].origin = of /\ call'[t].packet = k /\ call'[t].index = i + 1
        /\ Sending(t)'
    <2>1. DOMAIN call = Threads /\ DOMAIN pc = Threads
      BY DEF CountInv, BusInv, ThreadInv
    <2>2. pc' = [pc EXCEPT ![t] = IF os = "ERROR" THEN "error" ELSE "loop"]
      BY <1>2 DEF Goto
    <2>3. call' = [call EXCEPT ![t].index = @ + 1,
                     ![t].result = IF os = "ERROR" THEN "SEND_ERROR" ELSE os]
      BY <1>2
    <2>4. call'[t].origin = of /\ call'[t].packet = k /\ call'[t].index = i + 1
      BY <1>3, <2>1, <2>3 DEF SendCalls
    <2>5. pc'[t] # "idle"
      BY <2>1, <2>2
    <2>6. of # "receive"
      BY <1>4 DEF Origins
    <2> HIDE DEF os, of
    <2> QED
      BY <1>1, <2>4, <2>5, <2>6 DEF Sending
  <1>9. Sending(t)
    BY <1>1, <1>4 DEF Sending, Origins
  <1>10. SUFFICES ASSUME NEW q \in DOMAIN mqueues, NEW u \in Threads, NEW n \in Nat,
                         NEW for \in Origins, NEW j \in Packets \ overlapped
                  PROVE  Cardinality(CopiesOf(mqueues'[q], Message(u, n, for, j)))
                           <= Cardinality(Used(q, u, n, for, j)')
    BY <1>6, <1>7 DEF CopiesInv
  <1> DEFINE m == Message(u, n, for, j)
  <1>11. CASE os = "OKAY" /\ q = to /\ m = sent
    <2>1. u = t /\ n = calls[t] /\ for = of /\ j = k
      BY <1>11 DEF Message
    <2>2. mqueues'[q] = Append(mqueues[q], sent)
      BY <1>2, <1>11
    <2>2a. <<queues[k][i], q>> \in opened
      <3>1. p \in DOMAIN pipes
        BY <1>11 DEF OsQueueSend
      <3>2. <<p, q>> \in opened
        BY <1>11, <3>1 DEF CountInv, BusInv, SetupInv
      <3>3. i \in Indices
        <4>1. num_queues[k] <= MaxPipesPerPacket /\ num_queues[k] \in Nat
          BY <1>4, <2>1 DEF CountInv, BusInv, ApartInv, Apart, SetupInv
        <4> QED
          BY <1>4, <4>1, Bounds DEF Indices
      <3> QED
        BY <1>2, <3>2, <3>3 DEF PipeAt
    <2> HIDE DEF sent, m
    <2>3. Cardinality(CopiesOf(mqueues'[q], m)) = Cardinality(CopiesOf(mqueues[q], m)) + 1
      <3>1. mqueues[q] \in Seq(Messages) /\ sent \in Messages
        BY <1>5, <1>7
      <3>2. Cardinality(CopiesOf(Append(mqueues[q], sent), m))
              = Cardinality(CopiesOf(mqueues[q], m)) + (IF sent = m THEN 1 ELSE 0)
        BY <3>1, CopiesAppend
      <3> QED
        BY <1>11, <2>2, <3>2
    <2>4. PICK this \in Nat : this = i
      BY <1>4
    <2>5. this \notin Used(q, u, n, for, j)
      BY <1>9, <2>1, <2>4 DEF Used, Tried
    <2>6. this \in Used(q, u, n, for, j)'
      <3>1. /\ calls'[u] = n /\ Sending(u)' /\ call'[u].origin = for
            /\ call'[u].index = this + 1
        BY <1>8, <2>1, <2>4
      <3>2. Tried(u, n, for, j, this)'
        BY <3>1, <2>4 DEF Tried
      <3>3. <<queues'[j][this], q>> \in opened' /\ this \in 0 .. num_queues'[j] - 1
        BY <1>4, <1>6, <2>1, <2>2a, <2>4
      <3> QED
        BY <3>2, <3>3 DEF Used
    <2>7. Used(q, u, n, for, j) \cup {this} \in SUBSET (Used(q, u, n, for, j)')
      BY <1>6, <2>6, UsedGrows DEF CountInv
    <2>8. /\ IsFiniteSet(Used(q, u, n, for, j)) /\ IsFiniteSet(Used(q, u, n, for, j)')
          /\ Cardinality(Used(q, u, n, for, j)) \in Nat
          /\ Cardinality(Used(q, u, n, for, j)') \in Nat
      BY UsedFinite, UsedFiniteNext DEF CountInv
    <2>9. Cardinality(Used(q, u, n, for, j) \cup {this})
            = Cardinality(Used(q, u, n, for, j)) + 1
      BY <2>5, <2>8, FS_AddElement
    <2>10. Cardinality(Used(q, u, n, for, j) \cup {this})
             <= Cardinality(Used(q, u, n, for, j)')
      BY <2>7, <2>8, FS_Subset
    <2>11. Cardinality(CopiesOf(mqueues[q], m)) <= Cardinality(Used(q, u, n, for, j))
      BY DEF CountInv, CopiesInv, m
    <2>12. Cardinality(CopiesOf(mqueues[q], m)) \in Nat
      BY <1>7, CopiesFinite
    <2> QED
      BY <2>3, <2>8, <2>9, <2>10, <2>11, <2>12 DEF m
  <1>12. CASE ~(os = "OKAY" /\ q = to /\ m = sent)
    <2> HIDE DEF sent
    <2>1. Cardinality(CopiesOf(mqueues'[q], m)) = Cardinality(CopiesOf(mqueues[q], m))
      <3>1. CASE mqueues'[q] = mqueues[q]
        BY <3>1
      <3>2. CASE os = "OKAY" /\ q = to /\ m # sent
        <4>1. mqueues'[q] = Append(mqueues[q], sent)
          BY <1>2, <3>2 DEF sent
        <4> HIDE DEF m
        <4>2. Cardinality(CopiesOf(Append(mqueues[q], sent), m))
                = Cardinality(CopiesOf(mqueues[q], m)) + (IF sent = m THEN 1 ELSE 0)
          BY <1>5, <1>7, CopiesAppend
        <4>3. Cardinality(CopiesOf(mqueues[q], m)) \in Nat
          BY <1>7, CopiesFinite
        <4>4. m # sent
          BY <3>2
        <4> QED
          BY <4>1, <4>2, <4>3, <4>4
      <3>3. ~(os = "OKAY" /\ q = to) => mqueues'[q] = mqueues[q]
        BY <1>2
      <3> QED
        BY <1>12, <3>1, <3>2, <3>3
    <2>2. Cardinality(CopiesOf(mqueues[q], m)) \in Nat
      BY <1>7, CopiesFinite
    <2>3. Cardinality(CopiesOf(mqueues'[q], m)) <= Cardinality(CopiesOf(mqueues[q], m))
      BY <2>1, <2>2
    <2> QED
      BY <1>6, <1>7, <2>3, CountKept
  <1> QED
    BY <1>11, <1>12

\* mb_receive takes a message from a queue and adds none.
LEMMA CountReceive ==
  ASSUME MessageBusAssumption, CountInv, BusInv', Next,
         NEW t \in Threads, NEW from \in 0 .. num_pipes - 1, MbReceive(t, from)
  PROVE  CopiesInv'
  <1>1. \/ UNCHANGED mqueues
        \/ /\ from \in DOMAIN pipes /\ mqueues[pipes[from]] # <<>>
           /\ mqueues' = [mqueues EXCEPT ![pipes[from]] = Tail(@)]
    BY DEF MbReceive, OsQueueReceive
  <1>2. DOMAIN mqueues' = DOMAIN mqueues
    BY <1>1
  <1>3. \A q \in DOMAIN mqueues : mqueues[q] \in Seq(Messages) /\ mqueues'[q] \in Seq(Messages)
    BY <1>2 DEF CountInv, BusInv, QueueInv
  <1>4. SUFFICES ASSUME NEW q \in DOMAIN mqueues, NEW u \in Threads, NEW n \in Nat,
                        NEW of \in Origins, NEW k \in Packets \ overlapped'
                 PROVE  Cardinality(CopiesOf(mqueues'[q], Message(u, n, of, k)))
                          <= Cardinality(CopiesOf(mqueues[q], Message(u, n, of, k)))
    BY <1>2, <1>3, CountKept DEF CopiesInv
  <1>5. CASE mqueues'[q] = mqueues[q]
    BY <1>3, <1>5, CopiesFinite
  <1>6. CASE mqueues[q] # <<>> /\ mqueues'[q] = Tail(mqueues[q])
    BY <1>3, <1>6, CopiesTail
  <1> QED
    BY <1>1, <1>5, <1>6

\* A new queue holds no message of a thread, only what an earlier run left.
LEMMA CountQueueCreate ==
  ASSUME MessageBusAssumption, CountInv, BusInv', Next,
         NEW made, made \notin DOMAIN mqueues, NEW old \in Leftovers,
         mqueues' = PutAt(mqueues, made, old)
  PROVE  CopiesInv'
  <1>1. /\ DOMAIN mqueues' = DOMAIN mqueues \cup {made} /\ mqueues'[made] = old
        /\ \A q \in DOMAIN mqueues : mqueues'[q] = mqueues[q]
    BY DEF PutAt
  <1>2. SUFFICES ASSUME NEW q \in DOMAIN mqueues', NEW t \in Threads, NEW n \in Nat,
                        NEW of \in Origins, NEW k \in Packets \ overlapped'
                 PROVE  Cardinality(CopiesOf(mqueues'[q], Message(t, n, of, k)))
                          <= Cardinality(Used(q, t, n, of, k)')
    BY DEF CopiesInv
  <1> DEFINE m == Message(t, n, of, k)
  <1>3. CASE q = made
    <2>1. \A i \in 1 .. Len(old) : old[i].from = EarlierRun
      BY OldMessages
    <2>2. m.from = t /\ t # EarlierRun
      BY DEF Message, MessageBusAssumption
    <2> HIDE DEF m
    <2>3. CopiesOf(mqueues'[q], m) = {}
      BY <1>1, <1>3, <2>1, <2>2 DEF CopiesOf
    <2>4. Cardinality(Used(q, t, n, of, k)') \in Nat
      BY UsedFiniteNext
    <2> QED
      BY <2>3, <2>4, FS_EmptySet DEF m
  <1>4. CASE q # made
    <2>1. q \in DOMAIN mqueues /\ mqueues'[q] = mqueues[q] /\ mqueues[q] \in Seq(Messages)
      BY <1>1, <1>4 DEF CountInv, BusInv, QueueInv
    <2>2. Cardinality(CopiesOf(mqueues'[q], m)) <= Cardinality(CopiesOf(mqueues[q], m))
      BY <2>1, CopiesFinite
    <2> QED
      BY <2>1, <2>2, CountKept
  <1> QED
    BY <1>3, <1>4

\* A step that leaves the queues alone keeps the count.
LEMMA CountQueuesKept ==
  ASSUME MessageBusAssumption, CountInv, BusInv', Next, UNCHANGED mqueues
  PROVE  CopiesInv'
  <1>1. \A q \in DOMAIN mqueues : mqueues[q] \in Seq(Messages)
    BY DEF CountInv, BusInv, QueueInv
  <1>2. ASSUME NEW q \in DOMAIN mqueues, NEW u \in Threads, NEW n \in Nat,
               NEW of \in Origins, NEW k \in Packets \ overlapped'
        PROVE  Cardinality(CopiesOf(mqueues'[q], Message(u, n, of, k)))
                 <= Cardinality(Used(q, u, n, of, k)')
    <2>1. Cardinality(CopiesOf(mqueues'[q], Message(u, n, of, k)))
            <= Cardinality(CopiesOf(mqueues[q], Message(u, n, of, k)))
      BY <1>1, CopiesFinite
    <2> QED
      BY <1>1, <2>1, CountKept
  <1> QED
    BY <1>2 DEF CopiesInv

(***************************************************************************)
(* Where em_event is called from.                                          *)
(***************************************************************************)

\* A step of one thread that says what its call is for.
LEMMA OriginMoves ==
  ASSUME BusInv, OriginInv, NEW t \in Threads, NEW at, OriginOK(at, call'[t]),
         pc' = [pc EXCEPT ![t] = at], \A u \in Threads : u # t => call'[u] = call[u]
  PROVE  OriginInv'
  BY DEF BusInv, ThreadInv, OriginInv

\* em_event is called for a NULL message or a failed report, and never for a
\* send that failed.
LEMMA OriginStep ==
  ASSUME BusInv, OriginInv, Next
  PROVE  OriginInv'
  <1> DEFINE Moves(t, at) == /\ pc' = [pc EXCEPT ![t] = at]
                             /\ OriginOK(at, call[t]) /\ call' = call
  <1>1. ASSUME NEW t \in Threads, NEW at, Moves(t, at)
        PROVE  OriginInv'
    BY <1>1, OriginMoves
  <1>2. ASSUME NEW r \in Registrants, Setup(r)
        PROVE  OriginInv'
    BY <1>2, RegistrantsApart DEF threadVars, OriginInv
  <1>3. ASSUME NEW t \in Threads, MbSend(t) \/ EmEventSends(t) \/ Return(t)
        PROVE  OriginInv'
    <2>1. /\ \A u \in Threads : u # t => call'[u] = call[u]
          /\ \E at \in {"sent", "idle"} : pc' = [pc EXCEPT ![t] = at]
      BY <1>3 DEF MbSend, EmEventSends, Return, Goto, BusInv, ThreadInv
    <2>2. \A c : \A at \in {"sent", "idle"} : OriginOK(at, c)
      BY DEF OriginOK
    <2> QED
      BY <2>1, <2>2, OriginMoves
  <1>4. ASSUME NEW t \in Threads, NEW p \in 0 .. num_pipes - 1, MbReceive(t, p)
        PROVE  OriginInv'
    <2>1. /\ \A u \in Threads : u # t => call'[u] = call[u]
          /\ \E at \in {"received", "not_received"} : pc' = [pc EXCEPT ![t] = at]
      BY <1>4 DEF MbReceive, Goto, BusInv, ThreadInv
    <2>2. \A c : \A at \in {"received", "not_received"} : OriginOK(at, c)
      BY DEF OriginOK
    <2> QED
      BY <2>1, <2>2, OriginMoves
  <1>5. ASSUME NEW t \in Threads, MbSendToPipe(t)
        PROVE  OriginInv'
    <2>1. /\ \A u \in Threads : u # t => call'[u] = call[u]
          /\ \E at \in {"loop", "error"} : pc' = [pc EXCEPT ![t] = at]
      BY <1>5 DEF MbSendToPipe, Goto, BusInv, ThreadInv
    <2>2. \A c : \A at \in {"loop", "error"} : OriginOK(at, c)
      BY DEF OriginOK
    <2> QED
      BY <2>1, <2>2, OriginMoves
  <1>6. ASSUME NEW t \in Threads, OriginOK(pc[t], call[t]),
               \/ MbSendCounted(t) \/ MbSendNull(t) \/ MbSendNullEvent(t)
               \/ MbSendError(t) \/ MbSendErrorCounted(t) \/ EmEventCounts(t) \/ TlmCounts(t)
               \/ TlmErrorCounted(t) \/ MbReceiveCounts(t) \/ Counted(t)
        PROVE  \E at : Moves(t, at)
    BY <1>6 DEF MbSendCounted, MbSendNull, MbSendNullEvent, MbSendError, MbSendErrorCounted,
       EmEventCounts, TlmCounts, TlmErrorCounted, MbReceiveCounts, Counted, Goto, OriginOK
  <1>7. ASSUME NEW t \in Threads, MbSendEnds(t)
        PROVE  \E at : Moves(t, at)
    <2>1. pc[t] = "loop" /\ call' = call
          /\ pc' = [pc EXCEPT ![t] = IF call[t].origin = "app" THEN "return"
                                     ELSE call[t].origin]
      BY <1>7 DEF MbSendEnds, Goto
    <2>2. call[t].origin \in {"app", "event", "telemetry"}
      BY <2>1, ThreadAt DEF InLoop, SendCalls, Origins
    <2> QED
      BY <2>1, <2>2 DEF OriginOK
  <1>8. ASSUME NEW t \in Threads, Step(t)
        PROVE  OriginInv'
    <2>1. OriginOK(pc[t], call[t])
      BY DEF OriginInv
    <2> HIDE DEF Moves
    <2> QED
      BY <1>1, <1>3, <1>5, <1>6, <1>7, <1>8, <2>1 DEF Step
  <1> QED
    BY <1>2, <1>3, <1>4, <1>8 DEF Next

(***************************************************************************)
(* The invariant holds of every behaviour.                                 *)
(***************************************************************************)

\* Before any call there is no queue.
LEMMA InitCount ==
  ASSUME MessageBusAssumption, Init
  PROVE  CountInv
  <1>1. BusInv
    BY InitBus
  <1>2. OriginInv
    BY DEF Init, OriginInv, OriginOK
  <1>3. DOMAIN mqueues = {}
    BY DEF Init
  <1> QED
    BY <1>1, <1>2, <1>3 DEF CountInv, CopiesInv

\* Every step keeps the invariant.
LEMMA CountStep ==
  ASSUME MessageBusAssumption, CountInv, [Next]_busVars
  PROVE  CountInv'
  <1>1. BusInv'
    BY InvStep DEF CountInv
  <1>2. CASE UNCHANGED busVars
    <2>1. UNCHANGED <<mqueues, num_queues, queues, opened, overlapped, calls, pc, call>>
      BY <1>2 DEF busVars, setupVars, pipeVars, packetVars, registrantVars, threadVars
    <2>2. OriginInv'
      BY <2>1 DEF CountInv, OriginInv
    <2>3. \A q, t, n, of, k : Used(q, t, n, of, k)' = Used(q, t, n, of, k)
      BY <2>1 DEF Used, Tried, Sending
    <2>4. CopiesInv'
      BY <2>1, <2>3 DEF CountInv, CopiesInv
    <2> QED
      BY <1>1, <2>2, <2>4 DEF CountInv
  <1>3. CASE Next
    <2>1. OriginInv'
      BY <1>3, OriginStep DEF CountInv
    <2>2. ASSUME UNCHANGED mqueues
          PROVE  CopiesInv'
      BY <1>1, <1>3, <2>2, CountQueuesKept
    <2>3. ASSUME NEW t \in Threads, MbSend(t) \/ Step(t)
          PROVE  UNCHANGED mqueues \/ MbSendToPipe(t)
      BY <2>3 DEF MbSend, Step, MbSendCounted, MbSendNull, MbSendNullEvent,
         EmEventSends, MbSendError, MbSendErrorCounted, MbSendEnds,
         EmEventCounts, TlmCounts, TlmErrorCounted, MbReceiveCounts, Counted, Return
    <2>4. ASSUME NEW r \in Registrants, Setup(r)
          PROVE  \/ UNCHANGED mqueues
                 \/ \E old \in Leftovers : /\ mqueues' = PutAt(mqueues, local[r].name, old)
                                           /\ local[r].name \notin DOMAIN mqueues
      BY <2>4 DEF Setup, MbCreatePipe, MbCreateSlot, OsQueueName, OsQueueLoad, OsQueueCreate,
         MbCreateLoad, MbCreateStore, MbRegisterPacket, MbRegisterEnter, MbRegisterLoad,
         MbRegisterStore
    <2>5. ASSUME NEW r \in Registrants, Setup(r)
          PROVE  CopiesInv'
      BY <1>1, <1>3, <2>2, <2>4, <2>5, CountQueueCreate
    <2>6. ASSUME NEW t \in Threads, MbSend(t) \/ Step(t)
          PROVE  CopiesInv'
      BY <1>1, <1>3, <2>2, <2>3, <2>6, CountSendToPipe
    <2>7. ASSUME NEW t \in Threads, NEW p \in 0 .. num_pipes - 1, MbReceive(t, p)
          PROVE  CopiesInv'
      BY <1>1, <1>3, <2>7, CountReceive
    <2>8. CopiesInv'
      BY <1>3, <2>5, <2>6, <2>7 DEF Next
    <2> QED
      BY <1>1, <2>1, <2>8 DEF CountInv
  <1> QED
    BY <1>2, <1>3

\* Each copy of a message in a queue is accounted for by a registration, of packets
\* whose registrations never overlapped.
THEOREM CountInvInvariant == Spec => []CountInv
  <1>1. Init => CountInv
    BY MessageBusAssumption, InitCount
  <1>2. CountInv /\ [Next]_busVars => CountInv'
    BY MessageBusAssumption, CountStep
  <1> QED
    BY <1>1, <1>2, PTL DEF Spec

\* A queue gets a message at most once for each registration of its pipes for the
\* packet, although mb_send reads the registrations while they change, goes on
\* after a pipe that failed, and sends an event from within a call, and although
\* pipes are created meanwhile: if no two registrations of the packet overlapped.
THEOREM OneCopyPerRegistration == Spec => []CopiesPerRegistration
  <1>1. ASSUME CountInv
        PROVE  CopiesPerRegistration
    <2> SUFFICES ASSUME NEW q \in DOMAIN mqueues, NEW t \in Threads, NEW n \in 1 .. MaxCalls,
                        NEW k \in Packets \ overlapped,
                        NEW of \in {"app", "event", "telemetry"}
                 PROVE  Cardinality(CopiesOf(mqueues[q], Message(t, n, of, k)))
                          <= Cardinality({i \in 0 .. num_queues[k] - 1 :
                                            <<queues[k][i], q>> \in opened})
      BY DEF CopiesPerRegistration, CopiesOf
    <2> DEFINE Reg == {i \in 0 .. num_queues[k] - 1 : <<queues[k][i], q>> \in opened}
    <2>1. n \in Nat /\ of \in Origins
      BY DEF Origins
    <2>2. Cardinality(CopiesOf(mqueues[q], Message(t, n, of, k)))
            <= Cardinality(Used(q, t, n, of, k))
      BY <1>1, <2>1 DEF CountInv, CopiesInv
    <2>3. num_queues[k] - 1 \in Int
      BY <1>1 DEF CountInv, BusInv, SetupInv
    <2>4. Reg \in SUBSET (0 .. num_queues[k] - 1)
      OBVIOUS
    <2>5. Used(q, t, n, of, k) \in SUBSET Reg
      BY DEF Used
    <2>6. Cardinality(Used(q, t, n, of, k)) <= Cardinality(Reg)
      BY <2>3, <2>4, <2>5, BelowFinite, FS_Subset
    <2>7. /\ Cardinality(Used(q, t, n, of, k)) \in Nat /\ Cardinality(Reg) \in Nat
          /\ Cardinality(CopiesOf(mqueues[q], Message(t, n, of, k))) \in Nat
      BY <1>1, <2>1, <2>3, <2>4, UsedFinite, CopiesFinite, BelowFinite
         DEF CountInv, BusInv, QueueInv
    <2> QED
      BY <2>2, <2>6, <2>7
  <1> QED
    BY <1>1, CountInvInvariant, PTL
================================================================================
