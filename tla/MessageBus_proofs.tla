---------------------------- MODULE MessageBus_proofs ----------------------------
(***************************************************************************)
(* Proofs about the Message Bus for any number of sending and registering  *)
(* threads, packets, pipes, calls and messages per pipe, also where calls  *)
(* of mb_create_pipe and mb_register_packet overlap.                       *)
(***************************************************************************)
EXTENDS MessageBus, TLAPS

(***************************************************************************)
(* The inductive invariant: one part for what creations and registrations  *)
(* change, one for packets whose registrations do not overlap, one for what*)
(* the queues hold, one for the counters and one for each thread.          *)
(***************************************************************************)

Locals == [pipe : Nat, packet : Packets, next : Nat, name : Nat, value : Nat]
Places == {"idle"} \cup CreatePlaces \cup RegisterPlaces

\* What holds of registrants whatever other registrants do meanwhile.
SetupInv ==
  /\ num_pipes \in Nat /\ os_num_queues \in Nat
  /\ \A p \in DOMAIN pipes : pipes[p] \in DOMAIN mqueues /\ <<p, pipes[p]>> \in opened
  /\ num_queues \in [Packets -> Nat]
  /\ queues \in [Packets -> [Indices -> Nat]]
  /\ place \in [Registrants -> Places]
  /\ local \in [Registrants -> Locals]
  /\ listening \subseteq Nat \X Packets
  /\ \A r \in Registrants : place[r] \in RegisterPlaces => local[r].next \in Indices

\* A registration that no other of its packet overlaps enters its pipe behind those
\* that are counted, and counts it.
EntersNext(r, k) ==
  /\ local[r].next = num_queues[k]
  /\ place[r] # "enter" =>
       /\ queues[k][local[r].next] = local[r].pipe
       /\ <<local[r].pipe, k>> \in listening
  /\ place[r] = "loaded" => local[r].value = num_queues[k]

Apart(k) ==
  /\ num_queues[k] <= MaxPipesPerPacket
  /\ \A i \in 0 .. num_queues[k] - 1 : <<queues[k][i], k>> \in listening
  /\ \A r, s \in Registrants : Registering(r, k) /\ Registering(s, k) => r = s
  /\ \A r \in Registrants : Registering(r, k) => EntersNext(r, k)
  /\ \A p \in Nat : <<p, k>> \in listening =>
       \/ \E r \in Registrants : Registering(r, k) /\ local[r].pipe = p
       \/ \E i \in 0 .. num_queues[k] - 1 : queues[k][i] = p

ApartInv == \A k \in Packets \ overlapped : Apart(k)

Messages ==
  [from : Threads \cup {EarlierRun}, n : Nat, of : Origins, packet : Packets]

\* A message in q came through a pipe of that queue that was registered for it.
Listened(q, m) ==
  m.from \in Threads /\ m.packet \notin overlapped =>
    \E pair \in opened : pair[2] = q /\ <<pair[1], m.packet>> \in listening

QueueInv ==
  \A q \in DOMAIN mqueues :
    /\ mqueues[q] \in Seq(Messages) /\ Len(mqueues[q]) <= NumMsgs
    /\ \A i \in 1 .. Len(mqueues[q]) : Listened(q, mqueues[q][i])

CounterInv ==
  /\ counter \in [Observed -> Nat]
  /\ loaded \in [Threads -> [name : Observed, value : Nat] \cup {NoCounter}]

SendCalls ==
  [origin : Origins, packet : Packets, timeout : Timeouts \cup {"NO_WAIT"},
   index : Nat, result : SendResults]

\* What mb_send knows of the pipes it has tried.
ResultSoFar(c, acc) ==
  /\ acc \subseteq 0 .. c.index - 1
  /\ (c.result = "NO_RECEIVER") <=> (c.index = 0)
  /\ (c.result = "OKAY") <=> (c.index - 1 \in acc)

SendOK(c, acc) == c \in SendCalls /\ ResultSoFar(c, acc)

BeforeLoop == {"sent", "null", "null_stored", "em_event"}
InLoop == {"loop", "error", "error_stored", "event", "telemetry", "tlm_error"}

\* Where a thread is, and its call.
ThreadOK(at, c, acc) ==
  \/ at = "idle"
  \/ at \in BeforeLoop /\ SendOK(c, acc)
  \/ at \in InLoop /\ SendOK(c, acc) /\ c.origin # "null"
  \/ at \in {"received", "not_received"} /\ c.origin = "receive"
  \/ at \in {"counted", "return"} /\ (c.origin = "receive" \/ SendOK(c, acc))

ThreadInv ==
  /\ pc \in [Threads -> BeforeLoop \cup InLoop \cup
                         {"idle", "received", "not_received", "counted", "return"}]
  /\ DOMAIN call = Threads
  /\ accepted \in [Threads -> SUBSET Nat]
  /\ calls \in [Threads -> Nat]
  /\ \A t \in Threads : ThreadOK(pc[t], call[t], accepted[t])

BusInv == SetupInv /\ ApartInv /\ QueueInv /\ CounterInv /\ ThreadInv

\* What a pipe holds after a message was appended to it.
LEMMA Appended ==
  \A old \in Seq(Messages), msg \in Messages : \A m \in 1 .. Len(Append(old, msg)) :
     IF m = Len(old) + 1 THEN Append(old, msg)[m] = msg
     ELSE m \in 1 .. Len(old) /\ Append(old, msg)[m] = old[m]
  OBVIOUS

\* The limits of pipes, registrations and messages are positive numbers.
LEMMA Bounds ==
  ASSUME MessageBusAssumption
  PROVE  /\ MaxNumPipes \in Nat \ {0} /\ MaxPipesPerPacket \in Nat \ {0}
         /\ NumMsgs \in Nat \ {0}
  BY DEF MessageBusAssumption

\* The invariant implies what the runs check.
LEMMA InvTypes ==
  ASSUME MessageBusAssumption, BusInv
  PROVE  BusTypeOK
  <1>1. ASSUME NEW t \in Threads, pc[t] # "idle", call[t].origin # "receive"
        PROVE  /\ call[t].index \in Nat
               /\ call[t].result \in SendResults
               /\ accepted[t] \subseteq 0 .. call[t].index - 1
    <2>1. SendOK(call[t], accepted[t])
      BY <1>1 DEF BusInv, ThreadInv, ThreadOK
    <2> QED
      BY <2>1 DEF SendOK, ResultSoFar, SendCalls
  <1>2. /\ num_pipes \in Nat /\ \A p \in DOMAIN pipes : pipes[p] \in DOMAIN mqueues
        /\ num_queues \in [Packets -> Nat] /\ queues \in [Packets -> [Indices -> Nat]]
        /\ place \in [Registrants -> Places]
        /\ \A r \in Registrants : place[r] \in RegisterPlaces => local[r].next \in Indices
    BY DEF BusInv, SetupInv
  <1>3. \A k \in Packets \ overlapped : num_queues[k] <= MaxPipesPerPacket
    BY DEF BusInv, ApartInv, Apart
  <1>4. \A q \in DOMAIN mqueues : Len(mqueues[q]) <= NumMsgs
    BY DEF BusInv, QueueInv
  <1>5. \A c \in Observed : counter[c] \in Nat
    BY DEF BusInv, CounterInv
  <1> QED
    BY <1>1, <1>2, <1>3, <1>4, <1>5 DEF BusTypeOK, Places

\* What the queues hold came through pipes that were registered for it.
LEMMA InvListeners ==
  ASSUME BusInv
  PROVE  OnlyListenersReceive
  BY DEF BusInv, QueueInv, Listened, OnlyListenersReceive

\* A registration that nothing overlapped is there.
LEMMA InvLast ==
  ASSUME BusInv
  PROVE  RegistrationsLast
  <1> SUFFICES ASSUME NEW pair \in listening, pair[2] \notin overlapped
               PROVE  \/ \E r \in Registrants :
                           Registering(r, pair[2]) /\ local[r].pipe = pair[1]
                      \/ \E i \in 0 .. num_queues[pair[2]] - 1 :
                           queues[pair[2]][i] = pair[1]
    BY DEF RegistrationsLast
  <1>1. pair[1] \in Nat /\ pair[2] \in Packets /\ pair = <<pair[1], pair[2]>>
    BY DEF BusInv, SetupInv
  <1>2. Apart(pair[2])
    BY <1>1 DEF BusInv, ApartInv
  <1> QED
    BY <1>1, <1>2 DEF Apart

\* What a thread knows of its call says what mb_send is about to return.
LEMMA InvLastPipe ==
  ASSUME BusInv
  PROVE  ResultIsOfLastPipe
  <1> SUFFICES ASSUME NEW t \in Threads, Sending(t),
                      pc[t] \in {"event", "telemetry", "return"}
               PROVE  ResultSoFar(call[t], accepted[t])
    BY DEF ResultIsOfLastPipe, ResultSoFar
  <1> QED
    BY DEF BusInv, ThreadInv, ThreadOK, SendOK, Sending, BeforeLoop

\* The bus before any call.
LEMMA InitBus ==
  ASSUME MessageBusAssumption, Init
  PROVE  BusInv
  <1>1. SetupInv
    <2>1. NoLocal \in Locals
      BY DEF NoLocal, Locals, MessageBusAssumption
    <2>2. DOMAIN pipes = {}
      BY DEF Init
    <2> QED
      BY <2>1, <2>2, Bounds DEF Init, SetupInv, Places, RegisterPlaces
  <1>2. ApartInv
    BY Bounds DEF Init, ApartInv, Apart, Registering, RegisterPlaces
  <1>3. QueueInv
    <2>1. DOMAIN mqueues = {}
      BY DEF Init
    <2> QED
      BY <2>1 DEF QueueInv
  <1>4. CounterInv
    BY DEF Init, CounterInv
  <1>5. ThreadInv
    BY DEF Init, ThreadInv, ThreadOK
  <1> QED
    BY <1>1, <1>2, <1>3, <1>4, <1>5 DEF BusInv

(***************************************************************************)
(* What a step keeps because it leaves it alone.                           *)
(***************************************************************************)

\* A step that changes no registration keeps what is known of them.
LEMMA SetupKept ==
  ASSUME BusInv, UNCHANGED setupVars, DOMAIN mqueues \subseteq DOMAIN mqueues'
  PROVE  SetupInv' /\ ApartInv'
  <1>1. UNCHANGED <<num_pipes, pipes, os_num_queues, opened, num_queues, queues, listening,
                    place, local, overlapped>>
    BY DEF setupVars, pipeVars, packetVars, registrantVars
  <1>2. SetupInv'
    BY <1>1 DEF BusInv, SetupInv
  <1>3. ApartInv'
    BY <1>1 DEF BusInv, ApartInv, Apart, EntersNext, Registering
  <1> QED
    BY <1>2, <1>3

\* A step that leaves the queues alone keeps what they hold: pipes and registrations
\* are added, and packets are not taken back from those that overlapped.
LEMMA QueuesKept ==
  ASSUME BusInv, UNCHANGED mqueues, opened \subseteq opened', listening \subseteq listening',
         overlapped \subseteq overlapped'
  PROVE  QueueInv'
  BY DEF BusInv, QueueInv, Listened

\* A step that leaves the counters alone keeps their types.
LEMMA CountersKept ==
  ASSUME BusInv, UNCHANGED <<counter, loaded>>
  PROVE  CounterInv'
  BY DEF BusInv, CounterInv

\* A step that changes no thread's position keeps what is known of the calls.
LEMMA ThreadsKept ==
  ASSUME BusInv, UNCHANGED <<pc, call, calls, accepted>>
  PROVE  ThreadInv'
  BY DEF BusInv, ThreadInv

\* An increment loads a counter, and stores it later.
LEMMA LoadKept ==
  ASSUME BusInv, NEW t \in Threads, NEW c, Load(t, c)
  PROVE  CounterInv'
  BY DEF BusInv, CounterInv, Load

\* The store that ends an increment keeps the counters' types.
LEMMA StoreKept ==
  ASSUME BusInv, NEW t \in Threads, Store(t)
  PROVE  CounterInv'
  BY DEF BusInv, CounterInv, Store, NoCounter

PCs == BeforeLoop \cup InLoop \cup
         {"idle", "received", "not_received", "counted", "return"}

\* A step of one thread that leaves its call in order.
LEMMA ThreadMoves ==
  ASSUME BusInv, NEW t \in Threads, NEW at \in PCs,
         pc' = [pc EXCEPT ![t] = at], UNCHANGED <<call, calls, accepted>>,
         ThreadOK(at, call[t], accepted[t])
  PROVE  ThreadInv'
  <1> SUFFICES ASSUME NEW u \in Threads
               PROVE  ThreadOK(pc'[u], call[u], accepted[u])
    BY DEF BusInv, ThreadInv, PCs
  <1>1. CASE u = t
    BY <1>1 DEF BusInv, ThreadInv
  <1>2. CASE u # t
    BY <1>2 DEF BusInv, ThreadInv
  <1> QED
    BY <1>1, <1>2

\* One thread moves on in its call, the others stay where they are.
LEMMA ThreadCalls ==
  ASSUME BusInv, NEW t \in Threads, NEW at \in PCs, NEW c, NEW acc \in SUBSET Nat,
         pc' = [pc EXCEPT ![t] = at],
         call' = [call EXCEPT ![t] = c],
         accepted' = [accepted EXCEPT ![t] = acc],
         calls' \in [Threads -> Nat],
         ThreadOK(at, c, acc)
  PROVE  ThreadInv'
  <1> SUFFICES ASSUME NEW u \in Threads
               PROVE  ThreadOK(pc'[u], call'[u], accepted'[u])
    BY DEF BusInv, ThreadInv, PCs
  <1>1. CASE u = t
    BY <1>1 DEF BusInv, ThreadInv
  <1>2. CASE u # t
    BY <1>2 DEF BusInv, ThreadInv
  <1> QED
    BY <1>1, <1>2

(***************************************************************************)
(* mb_create_pipe.                                                         *)
(***************************************************************************)

\* One registrant moves on with typed variables, the others stay where they are.
LEMMA RegistrantMoves ==
  ASSUME BusInv, NEW r \in Registrants, NEW from, NEW to \in Places, Place(r, from, to),
         NEW v \in Locals, local' = [local EXCEPT ![r] = v],
         to \in RegisterPlaces => v.next \in Indices
  PROVE  /\ place' \in [Registrants -> Places] /\ local' \in [Registrants -> Locals]
         /\ \A s \in Registrants : place'[s] \in RegisterPlaces => local'[s].next \in Indices
         /\ place'[r] = to /\ local'[r] = v
         /\ \A s \in Registrants : s # r => place'[s] = place[s] /\ local'[s] = local[s]
  <1>1. place \in [Registrants -> Places] /\ local \in [Registrants -> Locals]
    BY DEF BusInv, SetupInv
  <1>2. place' = [place EXCEPT ![r] = to]
    BY DEF Place
  <1>3. /\ place' \in [Registrants -> Places] /\ local' \in [Registrants -> Locals]
        /\ place'[r] = to /\ local'[r] = v
        /\ \A s \in Registrants : s # r => place'[s] = place[s] /\ local'[s] = local[s]
    BY <1>1, <1>2
  <1>4. \A s \in Registrants : place[s] \in RegisterPlaces => local[s].next \in Indices
    BY DEF BusInv, SetupInv
  <1> QED
    BY <1>3, <1>4

\* The same of a step that does not enter mb_register_packet.
LEMMA RegistrantCreates ==
  ASSUME BusInv, NEW r \in Registrants, NEW from, NEW to \in Places \ RegisterPlaces,
         NEW v \in Locals, Place(r, from, to), local' = [local EXCEPT ![r] = v]
  PROVE  /\ place' \in [Registrants -> Places] /\ local' \in [Registrants -> Locals]
         /\ \A s \in Registrants : place'[s] \in RegisterPlaces => local'[s].next \in Indices
         /\ place'[r] = to
         /\ \A s \in Registrants : s # r => place'[s] = place[s] /\ local'[s] = local[s]
  <1>1. place \in [Registrants -> Places] /\ local \in [Registrants -> Locals]
    BY DEF BusInv, SetupInv
  <1>2. place' = [place EXCEPT ![r] = to]
    BY DEF Place
  <1>3. /\ place' \in [Registrants -> Places] /\ local' \in [Registrants -> Locals]
        /\ place'[r] = to
        /\ \A s \in Registrants : s # r => place'[s] = place[s] /\ local'[s] = local[s]
    BY <1>1, <1>2
  <1>4. \A s \in Registrants : place[s] \in RegisterPlaces => local[s].next \in Indices
    BY DEF BusInv, SetupInv
  <1> QED
    BY <1>3, <1>4

\* What the registrant reads and loads are numbers.
LEMMA LocalTypes ==
  ASSUME MessageBusAssumption, BusInv, NEW r \in Registrants, NEW n \in Nat, NEW k \in Packets
  PROVE  /\ NoLocal \in Locals
         /\ local \in [Registrants -> Locals] /\ local[r] \in Locals
         /\ [local[r] EXCEPT !.next = n] \in Locals
         /\ [local[r] EXCEPT !.name = n] \in Locals
         /\ [local[r] EXCEPT !.value = n] \in Locals
  <1>1. local \in [Registrants -> Locals] /\ local[r] \in Locals
    BY DEF BusInv, SetupInv
  <1> QED
    BY <1>1 DEF Locals, NoLocal, MessageBusAssumption

\* A step of a creation does not touch what is known of registrations.
LEMMA CreationApart ==
  ASSUME BusInv, NEW r \in Registrants, place[r] \notin RegisterPlaces,
         place'[r] \notin RegisterPlaces,
         \A s \in Registrants : s # r => place'[s] = place[s] /\ local'[s] = local[s],
         UNCHANGED <<packetVars, overlapped>>
  PROVE  ApartInv'
  <1>1. UNCHANGED <<num_queues, queues, listening, overlapped>>
    BY DEF packetVars
  <1>2. \A s \in Registrants, k \in Packets :
          /\ Registering(s, k)' <=> Registering(s, k)
          /\ Registering(s, k) => place'[s] = place[s] /\ local'[s] = local[s]
    BY DEF Registering
  <1> SUFFICES ASSUME NEW k \in Packets \ overlapped
               PROVE  Apart(k)'
    BY <1>1 DEF ApartInv
  <1>3. Apart(k)
    BY DEF BusInv, ApartInv
  <1>4. \A s \in Registrants : Registering(s, k)' => EntersNext(s, k)'
    BY <1>1, <1>2, <1>3 DEF Apart, EntersNext
  <1>5. \A p \in Nat : <<p, k>> \in listening' =>
          \/ \E s \in Registrants : Registering(s, k)' /\ local'[s].pipe = p
          \/ \E i \in 0 .. num_queues'[k] - 1 : queues'[k][i] = p
    <2> SUFFICES ASSUME NEW p \in Nat, <<p, k>> \in listening
                 PROVE  \/ \E s \in Registrants : Registering(s, k)' /\ local'[s].pipe = p
                        \/ \E i \in 0 .. num_queues[k] - 1 : queues[k][i] = p
      BY <1>1
    <2>1. CASE \E s \in Registrants : Registering(s, k) /\ local[s].pipe = p
      BY <1>2, <2>1
    <2>2. CASE \E i \in 0 .. num_queues[k] - 1 : queues[k][i] = p
      BY <2>2
    <2> QED
      BY <1>3, <2>1, <2>2 DEF Apart
  <1> QED
    BY <1>1, <1>2, <1>3, <1>4, <1>5 DEF Apart

CreationStep(r) ==
  \/ MbCreatePipe(r) \/ MbCreateSlot(r) \/ OsQueueName(r) \/ OsQueueLoad(r)
  \/ MbCreateLoad(r) \/ MbCreateStore(r)

\* mb_create_pipe reads, checks and counts.
LEMMA InvCreationStep ==
  ASSUME MessageBusAssumption, BusInv, NEW r \in Registrants, CreationStep(r)
  PROVE  BusInv'
  <1>1. num_pipes \in Nat /\ os_num_queues \in Nat
    BY DEF BusInv, SetupInv
  <1>2. local[r].value \in Nat /\ EventPacket \in Packets
    BY LocalTypes DEF Locals, MessageBusAssumption
  <1>3. \E from, to \in {"idle"} \cup CreatePlaces : \E v \in Locals :
          Place(r, from, to) /\ local' = [local EXCEPT ![r] = v]
    <2>1. CASE MbCreatePipe(r)
      <3>1. Place(r, "idle", "create") /\ local' = [local EXCEPT ![r] = local[r]]
        BY <1>2, <2>1, LocalTypes DEF MbCreatePipe
      <3> QED
        BY <1>2, <3>1, LocalTypes DEF CreatePlaces
    <2>2. CASE MbCreateSlot(r)
      <3>1. Place(r, "create", "slot")
            /\ local' = [local EXCEPT ![r] = [local[r] EXCEPT !.next = num_pipes]]
        BY <2>2 DEF MbCreateSlot
      <3> QED
        BY <1>1, <1>2, <3>1, LocalTypes DEF CreatePlaces
    <2>3. CASE OsQueueName(r)
      <3>1. Place(r, "slot", "named")
            /\ local' = [local EXCEPT ![r] = [local[r] EXCEPT !.name = os_num_queues]]
        BY <2>3 DEF OsQueueName
      <3> QED
        BY <1>1, <1>2, <3>1, LocalTypes DEF CreatePlaces
    <2>4. CASE OsQueueLoad(r)
      <3>1. Place(r, "named", "counting")
            /\ local' = [local EXCEPT ![r] = [local[r] EXCEPT !.value = os_num_queues]]
        BY <2>4 DEF OsQueueLoad
      <3> QED
        BY <1>1, <1>2, <3>1, LocalTypes DEF CreatePlaces
    <2>5. CASE MbCreateLoad(r)
      <3>1. Place(r, "opened", "counted")
            /\ local' = [local EXCEPT ![r] = [local[r] EXCEPT !.value = num_pipes]]
        BY <2>5 DEF MbCreateLoad
      <3> QED
        BY <1>1, <1>2, <3>1, LocalTypes DEF CreatePlaces
    <2>6. CASE MbCreateStore(r)
      <3>1. Place(r, "counted", "idle") /\ local' = [local EXCEPT ![r] = NoLocal]
        BY <2>6 DEF MbCreateStore, Leave
      <3> QED
        BY <1>1, <1>2, <3>1, LocalTypes DEF CreatePlaces
    <2> QED
      BY <2>1, <2>2, <2>3, <2>4, <2>5, <2>6 DEF CreationStep
  <1>4. PICK from \in {"idle"} \cup CreatePlaces, to \in {"idle"} \cup CreatePlaces, v \in Locals :
          Place(r, from, to) /\ local' = [local EXCEPT ![r] = v]
    BY <1>3
  <1>5. /\ from \notin RegisterPlaces /\ to \in Places /\ to \notin RegisterPlaces
        /\ place[r] = from
    BY <1>4 DEF CreatePlaces, RegisterPlaces, Places, Place
  <1>6. /\ UNCHANGED <<pipes, opened, mqueues, packetVars, overlapped, threadVars>>
        /\ num_pipes' \in Nat /\ os_num_queues' \in Nat
    BY <1>1, <1>2 DEF CreationStep, MbCreatePipe, MbCreateSlot, OsQueueName, OsQueueLoad,
       MbCreateLoad, MbCreateStore, pipeVars
  <1>7. /\ place' \in [Registrants -> Places] /\ local' \in [Registrants -> Locals]
        /\ \A s \in Registrants : place'[s] \in RegisterPlaces => local'[s].next \in Indices
        /\ place'[r] = to
        /\ \A s \in Registrants : s # r => place'[s] = place[s] /\ local'[s] = local[s]
    BY <1>4, <1>5, RegistrantCreates
  <1>8. SetupInv'
    BY <1>6, <1>7 DEF BusInv, SetupInv, packetVars
  <1>9. ApartInv'
    BY <1>5, <1>6, <1>7, CreationApart
  <1>10. QueueInv' /\ CounterInv' /\ ThreadInv'
    BY <1>6, QueuesKept, CountersKept, ThreadsKept DEF threadVars, packetVars
  <1> QED
    BY <1>8, <1>9, <1>10 DEF BusInv

\* What an earlier run left is no message of a thread.
LEMMA OldMessages ==
  ASSUME MessageBusAssumption, NEW old \in Leftovers
  PROVE  /\ old \in Seq(Messages) /\ Len(old) <= NumMsgs
         /\ \A i \in 1 .. Len(old) : old[i].from = EarlierRun /\ old[i].from \notin Threads
  <1> DEFINE Old == [from : {EarlierRun}, n : Nat, of : Origins, packet : Packets]
  <1>1. old \in Seq(Old) /\ Len(old) <= NumMsgs
    BY DEF MessageBusAssumption
  <1>2. Old \subseteq Messages
    BY DEF Messages
  <1>3. \A m \in Old : m.from = EarlierRun /\ m.from \notin Threads
    BY DEF MessageBusAssumption
  <1> HIDE DEF Old
  <1>4. \A i \in 1 .. Len(old) : old[i] \in Old
    BY <1>1
  <1>5. old \in Seq(Messages)
    BY <1>1, <1>2
  <1> QED
    BY <1>1, <1>3, <1>4, <1>5

\* os_queue_create opens a queue for a slot, a new one or one that has its name.
LEMMA InvQueueCreate ==
  ASSUME MessageBusAssumption, BusInv, NEW r \in Registrants, OsQueueCreate(r)
  PROVE  BusInv'
  <1> DEFINE q == local[r].name
             slot == local[r].next
  <1>1. /\ UNCHANGED <<num_pipes, packetVars, setups, overlapped, threadVars>>
        /\ os_num_queues' = local[r].value + 1
    BY DEF OsQueueCreate
  <1>2. local[r].value \in Nat /\ EventPacket \in Packets
    BY LocalTypes DEF Locals, MessageBusAssumption
  <1>3. \E to \in {"opened", "idle"} : \E v \in Locals :
          Place(r, "counting", to) /\ local' = [local EXCEPT ![r] = v]
    <2>1. CASE Leave(r, "counting")
      BY <1>2, <2>1, LocalTypes DEF Leave
    <2>2. CASE Place(r, "counting", "opened") /\ UNCHANGED local
      <3>1. local' = [local EXCEPT ![r] = local[r]]
        BY <1>2, <2>2, LocalTypes
      <3> QED
        BY <1>2, <2>2, <3>1, LocalTypes
    <2> QED
      BY <2>1, <2>2 DEF OsQueueCreate
  <1>4. PICK to \in {"opened", "idle"}, v \in Locals :
          Place(r, "counting", to) /\ local' = [local EXCEPT ![r] = v]
    BY <1>3
  <1>5. /\ place[r] \notin RegisterPlaces /\ to \in Places /\ to \notin RegisterPlaces
    BY <1>4 DEF CreatePlaces, RegisterPlaces, Places, Place
  <1>6. /\ place' \in [Registrants -> Places] /\ local' \in [Registrants -> Locals]
        /\ \A s \in Registrants : place'[s] \in RegisterPlaces => local'[s].next \in Indices
        /\ place'[r] = to
        /\ \A s \in Registrants : s # r => place'[s] = place[s] /\ local'[s] = local[s]
    BY <1>4, <1>5, RegistrantCreates
  <1>7. ApartInv'
    BY <1>1, <1>5, <1>6, CreationApart
  <1>8. /\ opened \subseteq opened'
        /\ UNCHANGED mqueues \/ \E old \in Leftovers : mqueues' = PutAt(mqueues, q, old)
        /\ q \notin DOMAIN mqueues \/ UNCHANGED mqueues
        /\ UNCHANGED pipes \/ /\ pipes' = PutAt(pipes, slot, q)
                              /\ <<slot, q>> \in opened' /\ q \in DOMAIN mqueues'
    BY DEF OsQueueCreate, PutAt
  <1>9. DOMAIN mqueues \subseteq DOMAIN mqueues'
    BY <1>8 DEF PutAt
  <1>10. \A p \in DOMAIN pipes' : pipes'[p] \in DOMAIN mqueues' /\ <<p, pipes'[p]>> \in opened'
    <2>1. \A p \in DOMAIN pipes : pipes[p] \in DOMAIN mqueues' /\ <<p, pipes[p]>> \in opened'
      BY <1>8, <1>9 DEF BusInv, SetupInv
    <2>2. CASE UNCHANGED pipes
      BY <2>1, <2>2
    <2>3. CASE /\ pipes' = PutAt(pipes, slot, q)
               /\ <<slot, q>> \in opened' /\ q \in DOMAIN mqueues'
      BY <2>1, <2>3 DEF PutAt
    <2> QED
      BY <1>8, <2>2, <2>3
  <1>11. SetupInv'
    BY <1>1, <1>2, <1>6, <1>10 DEF BusInv, SetupInv, packetVars
  <1>12. QueueInv'
    <2>1. CASE UNCHANGED mqueues
      BY <1>1, <1>8, <2>1, QueuesKept DEF packetVars
    <2>2. ASSUME NEW old \in Leftovers, mqueues' = PutAt(mqueues, q, old), q \notin DOMAIN mqueues
          PROVE  QueueInv'
      <3> SUFFICES ASSUME NEW x, x \in DOMAIN mqueues'
                   PROVE  /\ mqueues'[x] \in Seq(Messages) /\ Len(mqueues'[x]) <= NumMsgs
                          /\ \A i \in 1 .. Len(mqueues'[x]) : Listened(x, mqueues[x][i])'
        BY DEF QueueInv
      <3>1. CASE x = q
        <4>1. mqueues'[x] = old
          BY <2>2, <3>1 DEF PutAt
        <4> QED
          BY <4>1, OldMessages DEF Listened
      <3>2. CASE x # q
        <4>1. x \in DOMAIN mqueues /\ mqueues'[x] = mqueues[x]
          BY <2>2, <3>2 DEF PutAt
        <4>2. \A i \in 1 .. Len(mqueues[x]) : Listened(x, mqueues[x][i])
          BY <4>1 DEF BusInv, QueueInv
        <4> QED
          BY <1>1, <1>8, <4>1, <4>2 DEF BusInv, QueueInv, Listened, packetVars
      <3> QED
        BY <3>1, <3>2
    <2> QED
      BY <1>8, <2>1, <2>2
  <1>13. CounterInv' /\ ThreadInv'
    BY <1>1, CountersKept, ThreadsKept DEF threadVars
  <1> QED
    BY <1>7, <1>11, <1>12, <1>13 DEF BusInv

(***************************************************************************)
(* mb_register_packet.                                                     *)
(***************************************************************************)

\* The parts that a step of mb_register_packet leaves alone.
LEMMA RegistrationKeeps ==
  ASSUME BusInv, UNCHANGED <<mqueues, threadVars>>, opened' = opened,
         listening \subseteq listening', overlapped \subseteq overlapped'
  PROVE  QueueInv' /\ CounterInv' /\ ThreadInv'
  BY QueuesKept, CountersKept, ThreadsKept DEF threadVars

\* A step of one registrant leaves the packets alone that it does not register.
LEMMA OtherPackets ==
  ASSUME BusInv, NEW r \in Registrants, NEW k \in Packets \ overlapped,
         ~Registering(r, k), ~Registering(r, k)',
         \A s \in Registrants : s # r => place'[s] = place[s] /\ local'[s] = local[s],
         num_queues'[k] = num_queues[k], queues'[k] = queues[k],
         \A p : <<p, k>> \in listening' <=> <<p, k>> \in listening
  PROVE  Apart(k)'
  <1>1. \A s \in Registrants :
          /\ Registering(s, k)' <=> Registering(s, k)
          /\ Registering(s, k) => place'[s] = place[s] /\ local'[s] = local[s]
    BY DEF Registering
  <1>2. Apart(k)
    BY DEF BusInv, ApartInv
  <1>3. \A s \in Registrants : Registering(s, k)' => EntersNext(s, k)'
    BY <1>1, <1>2 DEF Apart, EntersNext
  <1>4. \A p \in Nat : <<p, k>> \in listening' =>
          \/ \E s \in Registrants : Registering(s, k)' /\ local'[s].pipe = p
          \/ \E i \in 0 .. num_queues'[k] - 1 : queues'[k][i] = p
    <2> SUFFICES ASSUME NEW p \in Nat, <<p, k>> \in listening
                 PROVE  \/ \E s \in Registrants : Registering(s, k)' /\ local'[s].pipe = p
                        \/ \E i \in 0 .. num_queues[k] - 1 : queues[k][i] = p
      OBVIOUS
    <2>1. CASE \E s \in Registrants : Registering(s, k) /\ local[s].pipe = p
      BY <1>1, <2>1
    <2>2. CASE \E i \in 0 .. num_queues[k] - 1 : queues[k][i] = p
      BY <2>2
    <2> QED
      BY <1>2, <2>1, <2>2 DEF Apart
  <1> QED
    BY <1>1, <1>2, <1>3, <1>4 DEF Apart

\* The registrant has checked its packet and read where to enter its pipe.
LEMMA InvRegisterPacket ==
  ASSUME MessageBusAssumption, BusInv, NEW r \in Registrants, NEW p \in 0 .. num_pipes,
         NEW k \in Packets, MbRegisterPacket(r, p, k)
  PROVE  BusInv'
  <1> DEFINE v == [local[r] EXCEPT !.pipe = p, !.packet = k, !.next = num_queues[k]]
  <1>1. /\ Place(r, "idle", "enter") /\ num_queues[k] < MaxPipesPerPacket
        /\ local' = [local EXCEPT ![r] = v]
        /\ overlapped' = IF \E other \in Registrants : Registering(other, k)
                         THEN overlapped \cup {k} ELSE overlapped
        /\ UNCHANGED <<pipeVars, mqueues, packetVars, threadVars>>
    BY DEF MbRegisterPacket
  <1>2. num_queues[k] \in Nat /\ p \in Nat
    BY DEF BusInv, SetupInv
  <1>3. num_queues[k] \in Indices
    BY <1>1, <1>2, Bounds DEF Indices
  <1>4. /\ v \in Locals /\ v.pipe = p /\ v.packet = k /\ v.next = num_queues[k]
    BY <1>2, LocalTypes DEF Locals
  <1> HIDE DEF v
  <1>5. /\ place' \in [Registrants -> Places] /\ local' \in [Registrants -> Locals]
        /\ \A s \in Registrants : place'[s] \in RegisterPlaces => local'[s].next \in Indices
        /\ place'[r] = "enter" /\ local'[r] = v
        /\ \A s \in Registrants : s # r => place'[s] = place[s] /\ local'[s] = local[s]
    <2>1. "enter" \in Places
      BY DEF Places, RegisterPlaces
    <2> QED
      BY <1>1, <1>3, <1>4, <2>1, RegistrantMoves
  <1>6. UNCHANGED <<num_pipes, pipes, os_num_queues, opened, num_queues, queues, listening>>
    BY <1>1 DEF pipeVars, packetVars
  <1>7. SetupInv'
    BY <1>1, <1>5, <1>6 DEF BusInv, SetupInv
  <1>8. ~Registering(r, k) /\ place[r] = "idle"
    BY <1>1 DEF Place, Registering, RegisterPlaces
  <1>9. ASSUME NEW j \in Packets, j \notin overlapped'
        PROVE  Apart(j)'
    <2>1. j \in Packets \ overlapped
      BY <1>1, <1>9
    <2>2. CASE j # k
      <3>1. ~Registering(r, j) /\ ~Registering(r, j)'
        BY <1>4, <1>5, <1>8, <2>2 DEF Registering, RegisterPlaces
      <3> QED
        BY <1>5, <1>6, <2>1, <3>1, OtherPackets
    <2>3. CASE j = k
      <3>1. \A s \in Registrants : ~Registering(s, k)
        BY <1>1, <1>9, <2>3
      <3>2. \A s \in Registrants : Registering(s, k)' <=> s = r
        BY <1>4, <1>5, <3>1 DEF Registering, RegisterPlaces
      <3>3. EntersNext(r, k)'
        BY <1>4, <1>5, <1>6 DEF EntersNext
      <3>4. Apart(k)
        BY <2>1, <2>3 DEF BusInv, ApartInv
      <3> QED
        BY <1>6, <2>3, <3>1, <3>2, <3>3, <3>4 DEF Apart
    <2> QED
      BY <2>2, <2>3
  <1>10. QueueInv' /\ CounterInv' /\ ThreadInv'
    BY <1>1, <1>6, RegistrationKeeps
  <1> QED
    BY <1>7, <1>9, <1>10 DEF BusInv, ApartInv

\* The registrant stores its pipe, not yet counted.
LEMMA InvRegisterEnter ==
  ASSUME MessageBusAssumption, BusInv, NEW r \in Registrants, MbRegisterEnter(r)
  PROVE  BusInv'
  <1>0. local[r] \in Locals /\ place[r] = "enter" /\ local[r].next \in Indices
    BY DEF MbRegisterEnter, Place, RegisterPlaces, BusInv, SetupInv
  <1>a. PICK k \in Packets, p \in Nat, n \in Indices :
          k = local[r].packet /\ p = local[r].pipe /\ n = local[r].next
    BY <1>0 DEF Locals
  <1>1. /\ Place(r, "enter", "entered") /\ local' = [local EXCEPT ![r] = local[r]]
        /\ queues' = [queues EXCEPT ![k][n] = p] /\ listening' = listening \cup {<<p, k>>}
        /\ UNCHANGED <<pipeVars, mqueues, num_queues, local, overlapped, threadVars>>
    BY <1>a DEF MbRegisterEnter, BusInv, SetupInv
  <1>2. Registering(r, k) /\ local[r] \in Locals
    BY <1>0, <1>a DEF Registering, RegisterPlaces
  <1>3. /\ place' \in [Registrants -> Places] /\ local' \in [Registrants -> Locals]
        /\ \A s \in Registrants : place'[s] \in RegisterPlaces => local'[s].next \in Indices
        /\ place'[r] = "entered" /\ local'[r] = local[r]
        /\ \A s \in Registrants : s # r => place'[s] = place[s] /\ local'[s] = local[s]
    <2>1. "entered" \in Places
      BY DEF Places, RegisterPlaces
    <2> QED
      BY <1>0, <1>1, <2>1, RegistrantMoves
  <1>4. /\ queues' \in [Packets -> [Indices -> Nat]] /\ queues'[k][n] = p
        /\ \A i \in Indices : i # n => queues'[k][i] = queues[k][i]
        /\ \A j \in Packets : j # k => queues'[j] = queues[j]
    BY <1>1, <1>2 DEF BusInv, SetupInv
  <1>5. UNCHANGED <<num_pipes, pipes, os_num_queues, opened, mqueues, num_queues, overlapped>>
    BY <1>1 DEF pipeVars
  <1>6. SetupInv'
    <2>1. listening' \subseteq Nat \X Packets
      BY <1>1, <1>2 DEF BusInv, SetupInv
    <2> QED
      BY <1>3, <1>4, <1>5, <2>1 DEF BusInv, SetupInv
  <1>7. ASSUME NEW j \in Packets \ overlapped
        PROVE  Apart(j)'
    <2>1. CASE j # k
      <3>1. ~Registering(r, j) /\ ~Registering(r, j)'
        BY <1>a, <1>3, <2>1 DEF Registering
      <3>2. \A x : <<x, j>> \in listening' <=> <<x, j>> \in listening
        BY <1>1, <2>1
      <3> QED
        BY <1>3, <1>4, <1>5, <2>1, <3>1, <3>2, OtherPackets
    <2>2. CASE j = k
      <3>1. Apart(k)
        BY <2>2 DEF BusInv, ApartInv
      <3>2. \A s \in Registrants : Registering(s, k) => s = r
        BY <1>2, <3>1 DEF Apart
      <3>3. \A s \in Registrants : Registering(s, k)' <=> s = r
        BY <1>a, <1>2, <1>3, <3>2 DEF Registering, RegisterPlaces
      <3>4. n = num_queues[k] /\ num_queues[k] \in Nat /\ num_queues[k] <= MaxPipesPerPacket
        BY <1>a, <1>2, <3>1 DEF Apart, EntersNext, BusInv, SetupInv
      <3>5. \A i \in 0 .. num_queues[k] - 1 : queues'[k][i] = queues[k][i]
        <4>1. \A i \in 0 .. num_queues[k] - 1 : i \in Indices /\ i # n
          BY <3>4, Bounds DEF Indices
        <4> QED
          BY <1>4, <4>1
      <3>6. EntersNext(r, k)'
        <4>1. /\ place'[r] = "entered" /\ local'[r].next = n /\ local'[r].pipe = p
              /\ num_queues' = num_queues /\ <<p, k>> \in listening'
          BY <1>a, <1>1, <1>3, <1>5
        <4> QED
          BY <1>4, <3>4, <4>1 DEF EntersNext
      <3>7. \A i \in 0 .. num_queues'[k] - 1 : <<queues'[k][i], k>> \in listening'
        BY <1>1, <1>5, <3>1, <3>5 DEF Apart
      <3>8. ASSUME NEW x \in Nat, <<x, k>> \in listening'
            PROVE  \/ \E s \in Registrants : Registering(s, k)' /\ local'[s].pipe = x
                   \/ \E i \in 0 .. num_queues'[k] - 1 : queues'[k][i] = x
        <4>1. CASE x = p
          <5>1. Registering(r, k)' /\ local'[r].pipe = x
            BY <1>a, <1>3, <3>3, <4>1
          <5> QED
            BY <5>1
        <4>2. CASE x # p
          <5>1. <<x, k>> \in listening
            BY <1>1, <3>8, <4>2
          <5>2. ~(\E s \in Registrants : Registering(s, k) /\ local[s].pipe = x)
            BY <1>a, <3>2, <4>2
          <5> QED
            BY <1>5, <3>1, <3>5, <5>1, <5>2 DEF Apart
        <4> QED
          BY <4>1, <4>2
      <3> QED
        BY <1>5, <2>2, <3>3, <3>4, <3>6, <3>7, <3>8 DEF Apart
    <2> QED
      BY <2>1, <2>2
  <1>8. QueueInv' /\ CounterInv' /\ ThreadInv'
    BY <1>1, <1>5, RegistrationKeeps
  <1> QED
    BY <1>5, <1>6, <1>7, <1>8 DEF BusInv, ApartInv

\* The registrant loads the number of registrations to count its own.
LEMMA InvRegisterLoad ==
  ASSUME MessageBusAssumption, BusInv, NEW r \in Registrants, MbRegisterLoad(r)
  PROVE  BusInv'
  <1>0. local[r] \in Locals /\ place[r] = "entered" /\ local[r].next \in Indices
    BY DEF MbRegisterLoad, Place, RegisterPlaces, BusInv, SetupInv
  <1>a. PICK k \in Packets : k = local[r].packet
    BY <1>0 DEF Locals
  <1> DEFINE v == [local[r] EXCEPT !.value = num_queues[k]]
  <1>1. /\ Place(r, "entered", "loaded") /\ local' = [local EXCEPT ![r] = v]
        /\ UNCHANGED <<pipeVars, mqueues, packetVars, overlapped, threadVars>>
    BY <1>a DEF MbRegisterLoad
  <1>2. num_queues[k] \in Nat /\ Registering(r, k)
    BY <1>0, <1>a DEF BusInv, SetupInv, Registering, RegisterPlaces
  <1>3. /\ v \in Locals /\ v.value = num_queues[k] /\ v.packet = k
        /\ v.next = local[r].next /\ v.pipe = local[r].pipe
    BY <1>0, <1>a, <1>2 DEF Locals
  <1> HIDE DEF v
  <1>4. /\ place' \in [Registrants -> Places] /\ local' \in [Registrants -> Locals]
        /\ \A s \in Registrants : place'[s] \in RegisterPlaces => local'[s].next \in Indices
        /\ place'[r] = "loaded" /\ local'[r] = v
        /\ \A s \in Registrants : s # r => place'[s] = place[s] /\ local'[s] = local[s]
    <2>1. "loaded" \in Places
      BY DEF Places, RegisterPlaces
    <2> QED
      BY <1>0, <1>1, <1>3, <2>1, RegistrantMoves
  <1>5. UNCHANGED <<num_pipes, pipes, os_num_queues, opened, mqueues, num_queues, queues,
                    listening, overlapped>>
    BY <1>1 DEF pipeVars, packetVars
  <1>6. SetupInv'
    BY <1>4, <1>5 DEF BusInv, SetupInv
  <1>7. ASSUME NEW j \in Packets \ overlapped
        PROVE  Apart(j)'
    <2>1. CASE j # k
      <3>1. ~Registering(r, j) /\ ~Registering(r, j)'
        BY <1>a, <1>3, <1>4, <2>1 DEF Registering
      <3> QED
        BY <1>4, <1>5, <3>1, OtherPackets
    <2>2. CASE j = k
      <3>1. Apart(k)
        BY <2>2 DEF BusInv, ApartInv
      <3>2. \A s \in Registrants : Registering(s, k)' <=> Registering(s, k)
        BY <1>2, <1>3, <1>4 DEF Registering, RegisterPlaces
      <3>3. /\ local'[r].next = local[r].next /\ local'[r].pipe = local[r].pipe
            /\ local'[r].value = num_queues[k] /\ place[r] = "entered"
        BY <1>1, <1>3, <1>4 DEF Place
      <3>4. \A s \in Registrants : Registering(s, k)' => EntersNext(s, k)'
        <4>1. EntersNext(r, k)'
          <5>1. EntersNext(r, k)
            BY <1>2, <3>1 DEF Apart
          <5> QED
            BY <1>5, <3>3, <5>1 DEF EntersNext
        <4>2. \A s \in Registrants : s # r /\ Registering(s, k)' => EntersNext(s, k)'
          BY <1>4, <1>5, <3>1, <3>2 DEF Apart, EntersNext
        <4> QED
          BY <4>1, <4>2
      <3>5. \A s \in Registrants : local'[s].pipe = local[s].pipe
        BY <1>4, <3>3
      <3> QED
        BY <1>5, <2>2, <3>1, <3>2, <3>4, <3>5 DEF Apart
    <2> QED
      BY <2>1, <2>2
  <1>8. QueueInv' /\ CounterInv' /\ ThreadInv'
    BY <1>1, <1>5, RegistrationKeeps
  <1> QED
    BY <1>5, <1>6, <1>7, <1>8 DEF BusInv, ApartInv

\* The registrant has counted its registration and returns.
LEMMA InvRegisterStore ==
  ASSUME MessageBusAssumption, BusInv, NEW r \in Registrants, MbRegisterStore(r)
  PROVE  BusInv'
  <1>0. local[r] \in Locals /\ place[r] = "loaded" /\ local[r].next \in Indices
    BY DEF MbRegisterStore, Leave, Place, RegisterPlaces, BusInv, SetupInv
  <1>a. PICK k \in Packets, p \in Nat, n \in Indices, val \in Nat :
          /\ k = local[r].packet /\ p = local[r].pipe
          /\ n = local[r].next /\ val = local[r].value
    BY <1>0 DEF Locals
  <1>1. /\ Place(r, "loaded", "idle") /\ local' = [local EXCEPT ![r] = NoLocal]
        /\ num_queues' = [num_queues EXCEPT ![k] = val + 1]
        /\ UNCHANGED <<pipeVars, mqueues, queues, listening, overlapped, threadVars>>
    BY <1>a DEF MbRegisterStore, Leave
  <1>2. Registering(r, k)
    BY <1>0, <1>a DEF Registering, RegisterPlaces
  <1>3. /\ place' \in [Registrants -> Places] /\ local' \in [Registrants -> Locals]
        /\ \A s \in Registrants : place'[s] \in RegisterPlaces => local'[s].next \in Indices
        /\ place'[r] = "idle"
        /\ \A s \in Registrants : s # r => place'[s] = place[s] /\ local'[s] = local[s]
    <2>1. "idle" \in Places /\ "idle" \notin RegisterPlaces /\ NoLocal \in Locals
      BY <1>a, LocalTypes DEF Places, RegisterPlaces
    <2> QED
      BY <1>1, <2>1, RegistrantMoves
  <1>4. /\ num_queues' \in [Packets -> Nat] /\ num_queues'[k] = val + 1
        /\ \A j \in Packets : j # k => num_queues'[j] = num_queues[j]
    BY <1>1 DEF BusInv, SetupInv
  <1>5. UNCHANGED <<num_pipes, pipes, os_num_queues, opened, mqueues, queues, listening,
                    overlapped>>
    BY <1>1 DEF pipeVars
  <1>6. SetupInv'
    BY <1>3, <1>4, <1>5 DEF BusInv, SetupInv
  <1>7. place[r] = "loaded" /\ \A j : ~Registering(r, j)'
    BY <1>1, <1>3 DEF Place, Registering, RegisterPlaces
  <1>8. ASSUME NEW j \in Packets \ overlapped
        PROVE  Apart(j)'
    <2>1. CASE j # k
      <3>1. ~Registering(r, j) /\ ~Registering(r, j)'
        BY <1>a, <1>7, <2>1 DEF Registering
      <3> QED
        BY <1>3, <1>4, <1>5, <2>1, <3>1, OtherPackets
    <2>2. CASE j = k
      <3>1. Apart(k)
        BY <2>2 DEF BusInv, ApartInv
      <3>2. \A s \in Registrants : Registering(s, k) => s = r
        BY <1>2, <3>1 DEF Apart
      <3>3. \A s \in Registrants : ~Registering(s, k)'
        BY <1>3, <1>7, <3>2 DEF Registering, RegisterPlaces
      <3>4. EntersNext(r, k)
        BY <1>2, <3>1 DEF Apart
      <3>5. n = num_queues[k] /\ val = num_queues[k] /\ queues[k][n] = p
            /\ <<p, k>> \in listening
        BY <1>a, <1>7, <3>4 DEF EntersNext
      <3>6. num_queues'[k] = n + 1 /\ n + 1 <= MaxPipesPerPacket /\ n \in Nat
        <4>1. n \in Nat /\ n + 1 <= MaxPipesPerPacket
          BY Bounds DEF Indices
        <4> QED
          BY <1>4, <3>5, <4>1
      <3>7. \A i \in 0 .. num_queues'[k] - 1 : <<queues'[k][i], k>> \in listening'
        <4> SUFFICES ASSUME NEW i \in 0 .. n
                     PROVE  <<queues[k][i], k>> \in listening
          BY <1>5, <3>6
        <4>1. CASE i = n
          BY <3>5, <4>1
        <4>2. CASE i # n
          <5>1. i \in 0 .. n - 1
            BY <3>6, <4>2
          <5> QED
            BY <3>1, <3>5, <5>1 DEF Apart
        <4> QED
          BY <4>1, <4>2
      <3>8. ASSUME NEW x \in Nat, <<x, k>> \in listening'
            PROVE  \E i \in 0 .. num_queues'[k] - 1 : queues'[k][i] = x
        <4>1. CASE x = p
          <5>1. n \in 0 .. num_queues'[k] - 1 /\ queues'[k][n] = x
            BY <1>5, <3>5, <3>6, <4>1
          <5> QED
            BY <5>1
        <4>2. CASE x # p
          <5>1. ~(\E s \in Registrants : Registering(s, k) /\ local[s].pipe = x)
            BY <1>a, <3>2, <4>2
          <5>2. PICK i \in 0 .. num_queues[k] - 1 : queues[k][i] = x
            BY <1>5, <3>1, <3>8, <5>1 DEF Apart
          <5>3. i \in 0 .. n - 1
            BY <3>5, <5>2
          <5>4. i \in 0 .. num_queues'[k] - 1
            BY <3>6, <5>3
          <5>5. queues'[k][i] = x
            BY <1>5, <5>2
          <5> QED
            BY <5>4, <5>5
        <4> QED
          BY <4>1, <4>2
      <3> QED
        BY <2>2, <3>3, <3>6, <3>7, <3>8 DEF Apart
    <2> QED
      BY <2>1, <2>2
  <1>9. QueueInv' /\ CounterInv' /\ ThreadInv'
    BY <1>1, <1>5, RegistrationKeeps
  <1> QED
    BY <1>5, <1>6, <1>8, <1>9 DEF BusInv, ApartInv

\* A step of a registrant keeps the invariant, whatever the others are at.
LEMMA InvSetup ==
  ASSUME MessageBusAssumption, BusInv, NEW r \in Registrants, Setup(r)
  PROVE  BusInv'
  BY InvCreationStep, InvQueueCreate, InvRegisterPacket, InvRegisterEnter, InvRegisterLoad,
     InvRegisterStore DEF Setup, CreationStep

(***************************************************************************)
(* mb_send, em_event and the telemetry task.                               *)
(***************************************************************************)

\* The parts that every step of a thread but those at a pipe keeps.
LEMMA OthersKept ==
  ASSUME BusInv, UNCHANGED <<mqueues, setupVars>>
  PROVE  SetupInv' /\ ApartInv' /\ QueueInv'
  BY SetupKept, QueuesKept DEF setupVars, pipeVars, packetVars, registrantVars

\* Where a thread is says what its call is.
LEMMA ThreadAt ==
  ASSUME BusInv, NEW t \in Threads
  PROVE  /\ pc[t] \in BeforeLoop \cup InLoop =>
              call[t] \in SendCalls /\ SendOK(call[t], accepted[t])
         /\ pc[t] \in InLoop => call[t].origin # "null"
         /\ pc[t] \in {"received", "not_received"} => call[t].origin = "receive"
         /\ pc[t] = "counted" =>
              call[t].origin = "receive" \/ SendOK(call[t], accepted[t])
  BY DEF BusInv, ThreadInv, ThreadOK, SendOK, BeforeLoop, InLoop

\* A call that begins has tried no pipe yet.
LEMMA SendCallOK ==
  ASSUME MessageBusAssumption, NEW origin \in Origins, NEW k \in Packets,
         NEW timeout \in Timeouts \cup {"NO_WAIT"}
  PROVE  SendOK(SendCall(origin, k, timeout), {})
  <1>1. SendCall(origin, k, timeout) \in SendCalls
    BY Bounds DEF SendCall, SendCalls, SendResults
  <1> QED
    BY <1>1 DEF SendOK, ResultSoFar, SendCall

\* A call of mb_send, by whomever, starts with no pipe tried.
LEMMA InvSendStarts ==
  ASSUME MessageBusAssumption, BusInv, NEW t \in Threads,
         NEW origin \in Origins, NEW k \in Packets,
         NEW timeout \in Timeouts \cup {"NO_WAIT"},
         pc' = [pc EXCEPT ![t] = "sent"],
         call' = [call EXCEPT ![t] = SendCall(origin, k, timeout)],
         accepted' = [accepted EXCEPT ![t] = {}],
         calls' \in [Threads -> Nat],
         Load(t, "messages_sent"), UNCHANGED <<mqueues, setupVars>>
  PROVE  BusInv'
  <1>1. ThreadOK("sent", SendCall(origin, k, timeout), {})
    BY SendCallOK DEF ThreadOK, BeforeLoop
  <1>2. "sent" \in PCs
    BY DEF PCs, BeforeLoop
  <1>3. ThreadInv'
    BY <1>1, <1>2, ThreadCalls
  <1> QED
    BY <1>3, OthersKept, LoadKept DEF BusInv

\* A thread enters mb_send or em_event, or starts its report.
LEMMA InvSend ==
  ASSUME MessageBusAssumption, BusInv, NEW t \in Threads, MbSend(t)
  PROVE  BusInv'
  <1>1. /\ pc' = [pc EXCEPT ![t] = "sent"]
        /\ calls' \in [Threads -> Nat]
        /\ accepted' = [accepted EXCEPT ![t] = {}]
        /\ Load(t, "messages_sent") /\ UNCHANGED <<mqueues, setupVars>>
    BY DEF MbSend, Goto, BusInv, ThreadInv
  <1>2. EventPacket \in Packets
    BY DEF MessageBusAssumption
  <1>3. ASSUME NEW k \in Packets, NEW timeout \in Timeouts,
               call' = [call EXCEPT ![t] = SendCall("app", k, timeout)]
        PROVE  BusInv'
    BY <1>1, <1>3, InvSendStarts DEF Origins
  <1>4. ASSUME NEW origin \in {"event", "null", "telemetry"},
               call' = [call EXCEPT ![t] = SendCall(origin, EventPacket, "NO_WAIT")]
        PROVE  BusInv'
    BY <1>1, <1>2, <1>4, InvSendStarts DEF Origins
  <1> QED
    BY <1>3, <1>4 DEF MbSend

\* em_event passes its message to mb_send.
LEMMA InvEventSends ==
  ASSUME MessageBusAssumption, BusInv, NEW t \in Threads, EmEventSends(t)
  PROVE  BusInv'
  <1>1. EventPacket \in Packets /\ "event" \in Origins
    BY DEF MessageBusAssumption, Origins
  <1>2. calls' \in [Threads -> Nat]
    BY DEF EmEventSends, BusInv, ThreadInv
  <1> QED
    BY <1>1, <1>2, InvSendStarts DEF EmEventSends, Goto

\* A step that counts, or goes on, and leaves the call as it is.
LEMMA InvMoves ==
  ASSUME BusInv, NEW t \in Threads, NEW at \in PCs,
         pc' = [pc EXCEPT ![t] = at], UNCHANGED <<mqueues, setupVars>>,
         UNCHANGED <<call, calls, accepted>>,
         ThreadOK(at, call[t], accepted[t]),
         CounterInv'
  PROVE  BusInv'
  BY OthersKept, ThreadMoves DEF BusInv

\* The steps of mb_send and tlm.c that count, or choose between error and send.
LEMMA InvSendCounts ==
  ASSUME BusInv, NEW t \in Threads,
         \/ MbSendCounted(t) \/ MbSendNull(t) \/ MbSendNullEvent(t)
         \/ MbSendError(t) \/ MbSendErrorCounted(t) \/ TlmErrorCounted(t)
  PROVE  BusInv'
  <1> DEFINE At(at) == /\ pc' = [pc EXCEPT ![t] = at]
                       /\ \/ at \in BeforeLoop
                          \/ at \in InLoop /\ call[t].origin # "null"
  <1>1. UNCHANGED <<mqueues, setupVars>> /\ UNCHANGED <<call, calls, accepted>>
    BY DEF MbSendCounted, MbSendNull, MbSendNullEvent, MbSendError, MbSendErrorCounted,
           TlmErrorCounted
  <1>2. CounterInv'
    BY LoadKept, StoreKept DEF MbSendCounted, MbSendNull, MbSendNullEvent, MbSendError,
       MbSendErrorCounted, TlmErrorCounted
  <1>3. pc[t] \in BeforeLoop \cup InLoop
    BY DEF MbSendCounted, MbSendNull, MbSendNullEvent, MbSendError, MbSendErrorCounted,
           TlmErrorCounted, Goto, BeforeLoop, InLoop
  <1>4. \E at \in {"null", "null_stored", "em_event", "loop", "error_stored"} : At(at)
    <2>1. CASE MbSendCounted(t)
      <3>1. CASE call[t].origin = "null"
        <4>1. At("null")
          BY <2>1, <3>1 DEF MbSendCounted, Goto, BeforeLoop
        <4> QED
          BY <4>1
      <3>2. CASE call[t].origin # "null"
        <4>1. At("loop")
          BY <2>1, <3>2 DEF MbSendCounted, Goto, InLoop
        <4> QED
          BY <4>1
      <3> QED
        BY <3>1, <3>2
    <2>2. CASE MbSendNull(t) \/ MbSendNullEvent(t) \/ TlmErrorCounted(t)
      <3>1. At("null_stored") \/ At("em_event")
        BY <2>2 DEF MbSendNull, MbSendNullEvent, TlmErrorCounted, Goto, BeforeLoop
      <3> QED
        BY <3>1
    <2>3. CASE MbSendError(t) \/ MbSendErrorCounted(t)
      BY <2>3, ThreadAt DEF MbSendError, MbSendErrorCounted, Goto, InLoop
    <2> QED
      BY <2>1, <2>2, <2>3
  <1>5. PICK at \in {"null", "null_stored", "em_event", "loop", "error_stored"} : At(at)
    BY <1>4
  <1>6. at \in PCs /\ ThreadOK(at, call[t], accepted[t])
    BY <1>3, <1>5, ThreadAt DEF PCs, BeforeLoop, InLoop, ThreadOK
  <1> QED
    BY <1>1, <1>2, <1>5, <1>6, InvMoves

\* The loop over the pipes is left when all were tried.
LEMMA InvSendEnds ==
  ASSUME BusInv, NEW t \in Threads, MbSendEnds(t)
  PROVE  BusInv'
  <1> DEFINE at == IF call[t].origin = "app" THEN "return" ELSE call[t].origin
  <1>1. /\ pc[t] = "loop" /\ pc' = [pc EXCEPT ![t] = at]
        /\ UNCHANGED <<mqueues, setupVars, counterVars, calls, call, accepted>>
    BY DEF MbSendEnds, Goto
  <1>2. SendOK(call[t], accepted[t]) /\ call[t].origin \in {"app", "event", "telemetry"}
    BY <1>1, ThreadAt DEF InLoop, SendCalls, Origins
  <1>3. at \in PCs /\ ThreadOK(at, call[t], accepted[t])
    BY <1>2 DEF PCs, InLoop, ThreadOK
  <1>4. CounterInv'
    BY <1>1, CountersKept DEF counterVars
  <1> QED
    BY <1>1, <1>3, <1>4, InvMoves

\* The steps that count what a send or receive returned.
LEMMA InvResultCounts ==
  ASSUME BusInv, NEW t \in Threads,
         \/ EmEventCounts(t) \/ TlmCounts(t) \/ MbReceiveCounts(t) \/ Counted(t)
  PROVE  BusInv'
  <1>1. UNCHANGED <<mqueues, setupVars>> /\ UNCHANGED <<call, calls, accepted>>
    BY DEF EmEventCounts, TlmCounts, MbReceiveCounts, Counted
  <1>2. CounterInv'
    BY LoadKept, StoreKept DEF EmEventCounts, TlmCounts, MbReceiveCounts, Counted
  <1>3. \E at \in {"counted", "tlm_error", "return"} :
          pc' = [pc EXCEPT ![t] = at] /\ ThreadOK(at, call[t], accepted[t])
    <2>1. CASE EmEventCounts(t) \/ TlmCounts(t)
      BY <2>1, ThreadAt DEF EmEventCounts, TlmCounts, Goto, InLoop, ThreadOK
    <2>2. CASE MbReceiveCounts(t)
      BY <2>2, ThreadAt DEF MbReceiveCounts, Goto, ThreadOK
    <2>3. CASE Counted(t)
      BY <2>3, ThreadAt DEF Counted, Goto, ThreadOK
    <2> QED
      BY <2>1, <2>2, <2>3
  <1>4. {"counted", "tlm_error", "return"} \subseteq PCs
    BY DEF PCs, InLoop
  <1> QED
    BY <1>1, <1>2, <1>3, <1>4, InvMoves

\* A call returns.
LEMMA InvReturn ==
  ASSUME BusInv, NEW t \in Threads, Return(t)
  PROVE  BusInv'
  <1>1. /\ pc' = [pc EXCEPT ![t] = "idle"]
        /\ call' = [call EXCEPT ![t] = NoCall]
        /\ accepted' = [accepted EXCEPT ![t] = {}]
        /\ UNCHANGED <<mqueues, setupVars, counterVars, calls>>
    BY DEF Return, Goto
  <1>2. "idle" \in PCs /\ ThreadOK("idle", NoCall, {})
    BY DEF PCs, ThreadOK
  <1>3. calls' \in [Threads -> Nat]
    BY <1>1 DEF BusInv, ThreadInv
  <1>4. ThreadInv'
    BY <1>1, <1>2, <1>3, ThreadCalls
  <1> QED
    BY <1>1, <1>4, OthersKept, CountersKept DEF BusInv, counterVars

(***************************************************************************)
(* The queues: mb_send puts a message, mb_receive takes one.               *)
(***************************************************************************)

\* The queues still hold messages, and only those that were listened for.
LEMMA QueueChanges ==
  ASSUME BusInv, NEW q \in DOMAIN mqueues, NEW held \in Seq(Messages), Len(held) <= NumMsgs,
         \A i \in 1 .. Len(held) : Listened(q, held[i]),
         mqueues' = [mqueues EXCEPT ![q] = held], UNCHANGED setupVars
  PROVE  SetupInv' /\ ApartInv' /\ QueueInv'
  <1>1. DOMAIN mqueues' = DOMAIN mqueues /\ mqueues'[q] = held
        /\ \A x \in DOMAIN mqueues : x # q => mqueues'[x] = mqueues[x]
    OBVIOUS
  <1>2. UNCHANGED <<opened, listening, overlapped>>
    BY DEF setupVars, pipeVars, packetVars, registrantVars
  <1>3. ASSUME NEW x \in DOMAIN mqueues
        PROVE  /\ mqueues'[x] \in Seq(Messages) /\ Len(mqueues'[x]) <= NumMsgs
               /\ \A i \in 1 .. Len(mqueues'[x]) : Listened(x, mqueues[x][i])'
    <2>1. CASE x = q
      BY <1>1, <1>2, <2>1 DEF Listened
    <2>2. CASE x # q
      <3>1. mqueues'[x] = mqueues[x]
        BY <1>1, <2>2
      <3>2. \A i \in 1 .. Len(mqueues[x]) : Listened(x, mqueues[x][i])
        BY DEF BusInv, QueueInv
      <3> QED
        BY <1>2, <3>1, <3>2 DEF BusInv, QueueInv, Listened
    <2> QED
      BY <2>1, <2>2
  <1>4. QueueInv'
    BY <1>1, <1>3 DEF QueueInv
  <1> QED
    BY <1>1, <1>4, SetupKept

\* One turn of the loop: a pipe takes the message, or refuses it.
LEMMA InvSendToPipe ==
  ASSUME MessageBusAssumption, BusInv, NEW t \in Threads, MbSendToPipe(t)
  PROVE  BusInv'
  <1> DEFINE k == call[t].packet
             i == call[t].index
  <1>1. /\ pc[t] = "loop" /\ i < num_queues[k]
        /\ UNCHANGED <<setupVars, counterVars, calls>>
    BY DEF MbSendToPipe
  <1>2. PICK p \in PipeAt(k, i) :
          LET os == OsQueueSend(p, k, call[t].timeout)
          IN  /\ Goto(t, "loop", IF os = "ERROR" THEN "error" ELSE "loop")
              /\ call' = [call EXCEPT
                   ![t].index = @ + 1,
                   ![t].result = IF os = "ERROR" THEN "SEND_ERROR" ELSE os]
              /\ IF os = "OKAY"
                 THEN /\ mqueues' = [mqueues EXCEPT ![pipes[p]] =
                                       Append(@, Message(t, calls[t], call[t].origin, k))]
                      /\ accepted' = [accepted EXCEPT ![t] = @ \cup {i}]
                 ELSE UNCHANGED <<mqueues, accepted>>
    BY DEF MbSendToPipe
  <1> DEFINE os == OsQueueSend(p, k, call[t].timeout)
             result == IF os = "ERROR" THEN "SEND_ERROR" ELSE os
             at == IF os = "ERROR" THEN "error" ELSE "loop"
             acc == IF os = "OKAY" THEN accepted[t] \cup {i} ELSE accepted[t]
             c == [call[t] EXCEPT !.index = @ + 1, !.result = result]
             message == Message(t, calls[t], call[t].origin, k)
  <1>3. pc' = [pc EXCEPT ![t] = at] /\ call' = [call EXCEPT ![t] = c]
    BY <1>2 DEF Goto
  <1>4. IF os = "OKAY"
        THEN /\ mqueues' = [mqueues EXCEPT ![pipes[p]] = Append(@, message)]
             /\ accepted' = [accepted EXCEPT ![t] = @ \cup {i}]
        ELSE UNCHANGED <<mqueues, accepted>>
    BY <1>2
  <1>5. SendOK(call[t], accepted[t]) /\ call[t].origin # "null"
    BY <1>1, ThreadAt DEF InLoop
  <1>6. call[t] \in SendCalls /\ k \in Packets /\ i \in Nat
    BY <1>5 DEF SendOK, SendCalls
  <1>7. os \in {"ERROR", "TIMEOUT", "OKAY"}
    BY DEF OsQueueSend
  <1>8. ThreadInv'
    <2>1. c \in SendCalls
      <3>1. i + 1 \in Nat /\ result \in SendResults
        BY <1>6, <1>7 DEF SendResults
      <3> HIDE DEF i, result
      <3> QED
        BY <1>6, <3>1 DEF SendCalls, i
    <2>2. c.index = i + 1 /\ c.result = result /\ c.origin = call[t].origin
      BY <1>6 DEF SendCalls
    <2>3. accepted[t] \subseteq 0 .. i - 1
      BY <1>5 DEF SendOK, ResultSoFar
    <2>4. acc \subseteq 0 .. c.index - 1 /\ acc \in SUBSET Nat
      BY <1>6, <2>2, <2>3
    <2>5. (c.result = "NO_RECEIVER") <=> (c.index = 0)
      BY <1>6, <1>7, <2>2
    <2>6. (c.result = "OKAY") <=> (c.index - 1 \in acc)
      BY <1>6, <1>7, <2>2, <2>3
    <2>7. SendOK(c, acc)
      BY <2>1, <2>4, <2>5, <2>6 DEF SendOK, ResultSoFar
    <2>8. at \in PCs /\ ThreadOK(at, c, acc)
      BY <1>5, <2>2, <2>7 DEF PCs, InLoop, ThreadOK
    <2>9. accepted' = [accepted EXCEPT ![t] = acc]
      BY <1>4 DEF BusInv, ThreadInv
    <2>10. calls' \in [Threads -> Nat]
      BY <1>1 DEF BusInv, ThreadInv
    <2> HIDE DEF at, c, acc
    <2> QED
      BY <1>3, <2>4, <2>8, <2>9, <2>10, ThreadCalls
  <1>9. SetupInv' /\ ApartInv' /\ QueueInv'
    <2>1. CASE os # "OKAY"
      BY <1>1, <1>4, <2>1, OthersKept
    <2>2. CASE os = "OKAY"
      <3>1. p \in DOMAIN pipes /\ Len(mqueues[pipes[p]]) # NumMsgs
        BY <2>2 DEF OsQueueSend
      <3> DEFINE q == pipes[p]
                 held == Append(mqueues[q], message)
      <3>2. q \in DOMAIN mqueues /\ <<p, q>> \in opened
        BY <3>1 DEF BusInv, SetupInv
      <3>3. message \in Messages /\ message.packet = k
        BY <1>6 DEF Message, Messages, SendCalls, BusInv, ThreadInv
      <3>4. mqueues[q] \in Seq(Messages) /\ Len(mqueues[q]) <= NumMsgs
        BY <3>2 DEF BusInv, QueueInv
      <3>5. held \in Seq(Messages) /\ Len(held) <= NumMsgs
        BY <3>1, <3>3, <3>4, Bounds
      <3>6. Listened(q, message)
        <4> SUFFICES ASSUME k \notin overlapped
                     PROVE  <<p, k>> \in listening
          BY <3>2, <3>3 DEF Listened
        <4>1. Apart(k)
          BY <1>6 DEF BusInv, ApartInv
        <4>2. i \in Indices /\ i \in 0 .. num_queues[k] - 1
          BY <1>1, <1>6, <4>1, Bounds DEF Apart, Indices, BusInv, SetupInv
        <4>3. p = queues[k][i]
          BY <1>2, <4>2 DEF PipeAt
        <4> QED
          BY <4>1, <4>2, <4>3 DEF Apart
      <3>7. \A m \in 1 .. Len(mqueues[q]) : Listened(q, mqueues[q][m])
        BY <3>2 DEF BusInv, QueueInv
      <3> HIDE DEF message
      <3>8. \A m \in 1 .. Len(held) : Listened(q, held[m])
        <4>1. \A m \in 1 .. Len(held) :
                IF m = Len(mqueues[q]) + 1 THEN held[m] = message
                ELSE m \in 1 .. Len(mqueues[q]) /\ held[m] = mqueues[q][m]
          BY <3>3, <3>4, Appended, Zenon
        <4> HIDE DEF held
        <4> QED
          BY <3>6, <3>7, <4>1
      <3>9. mqueues' = [mqueues EXCEPT ![q] = held] /\ UNCHANGED setupVars
        BY <1>1, <1>4, <2>2
      <3> HIDE DEF q, held
      <3> QED
        BY <3>2, <3>5, <3>8, <3>9, QueueChanges
    <2> QED
      BY <2>1, <2>2
  <1>10. CounterInv'
    BY <1>1, CountersKept DEF counterVars
  <1> QED
    BY <1>8, <1>9, <1>10 DEF BusInv

\* mb_receive takes a message from a pipe, or fails.
LEMMA InvReceive ==
  ASSUME MessageBusAssumption, BusInv, NEW t \in Threads, NEW p \in 0 .. num_pipes - 1,
         MbReceive(t, p)
  PROVE  BusInv'
  <1>1. /\ call' = [call EXCEPT ![t] = [origin |-> "receive"]]
        /\ UNCHANGED <<setupVars, counterVars, accepted>>
        /\ calls' = [calls EXCEPT ![t] = @ + 1]
    BY DEF MbReceive
  <1>2. SetupInv' /\ ApartInv' /\ QueueInv'
    <2>1. CASE UNCHANGED mqueues
      BY <1>1, <2>1, OthersKept
    <2>2. CASE /\ p \in DOMAIN pipes /\ mqueues[pipes[p]] # <<>>
               /\ mqueues' = [mqueues EXCEPT ![pipes[p]] = Tail(@)]
      <3> DEFINE q == pipes[p]
                 held == Tail(mqueues[q])
      <3>1. /\ q \in DOMAIN mqueues /\ mqueues[q] \in Seq(Messages) /\ mqueues[q] # <<>>
            /\ Len(mqueues[q]) <= NumMsgs
        BY <2>2 DEF BusInv, SetupInv, QueueInv
      <3>2. /\ held \in Seq(Messages) /\ Len(held) = Len(mqueues[q]) - 1
            /\ Len(mqueues[q]) \in Nat
        BY <3>1
      <3>3. Len(held) <= NumMsgs
        BY <3>1, <3>2, Bounds
      <3>4. \A i \in 1 .. Len(held) :
              held[i] = mqueues[q][i + 1] /\ i + 1 \in 1 .. Len(mqueues[q])
        BY <3>1, <3>2
      <3>5. \A i \in 1 .. Len(held) : Listened(q, held[i])
        BY <3>1, <3>4 DEF BusInv, QueueInv
      <3>6. mqueues' = [mqueues EXCEPT ![q] = held]
        BY <2>2
      <3> HIDE DEF q, held
      <3> QED
        BY <1>1, <3>1, <3>2, <3>3, <3>5, <3>6, QueueChanges
    <2> QED
      BY <2>1, <2>2 DEF MbReceive, OsQueueReceive
  <1>3. PICK at \in {"received", "not_received"} : pc' = [pc EXCEPT ![t] = at]
    BY DEF MbReceive, Goto
  <1>4. ThreadInv'
    <2>1. at \in PCs /\ ThreadOK(at, [origin |-> "receive"], accepted[t])
      BY <1>3 DEF PCs, ThreadOK
    <2>2. /\ accepted' = [accepted EXCEPT ![t] = accepted[t]]
          /\ accepted[t] \in SUBSET Nat /\ calls' \in [Threads -> Nat]
      BY <1>1 DEF BusInv, ThreadInv
    <2> QED
      BY <1>1, <1>3, <2>1, <2>2, ThreadCalls
  <1>5. CounterInv'
    BY <1>1, CountersKept DEF counterVars
  <1> QED
    BY <1>2, <1>4, <1>5 DEF BusInv

(***************************************************************************)
(* The invariant holds of every behaviour.                                 *)
(***************************************************************************)

\* Every step keeps the invariant.
LEMMA InvStep ==
  ASSUME MessageBusAssumption, BusInv, [Next]_busVars
  PROVE  BusInv'
  <1>1. CASE UNCHANGED busVars
    BY <1>1, OthersKept, CountersKept, ThreadsKept DEF busVars, BusInv, threadVars
  <1>2. ASSUME NEW r \in Registrants, Setup(r) PROVE BusInv'
    BY <1>2, InvSetup
  <1>3. ASSUME NEW t \in Threads, MbSend(t) PROVE BusInv'
    BY <1>3, InvSend
  <1>4. ASSUME NEW t \in Threads, Step(t) PROVE BusInv'
    BY <1>4, InvSendCounts, InvEventSends, InvSendToPipe, InvSendEnds, InvResultCounts,
       InvReturn DEF Step
  <1>5. ASSUME NEW t \in Threads, NEW p \in 0 .. num_pipes - 1, MbReceive(t, p) PROVE BusInv'
    BY <1>5, InvReceive
  <1> QED
    BY <1>1, <1>2, <1>3, <1>4, <1>5 DEF Next

\* The invariant of mb.c, em.c and tlm.c under any interleaving of any number of
\* threads that send, receive, create pipes and register packets.  What it says of
\* a packet's registrations it says of packets that no two of them overlapped for.
THEOREM BusInvInvariant == Spec => []BusInv
  <1>1. Init => BusInv
    BY MessageBusAssumption, InitBus
  <1>2. BusInv /\ [Next]_busVars => BusInv'
    BY MessageBusAssumption, InvStep
  <1> QED
    BY <1>1, <1>2, PTL DEF Spec

\* Types: mb_register_packet enters pipes within the array, also when registrations
\* overlap, and num_queues stays within it when they do not; queues stay within
\* their size.
THEOREM BusTypes == Spec => []BusTypeOK
  <1>1. BusInv => BusTypeOK
    BY MessageBusAssumption, InvTypes
  <1> QED
    BY <1>1, BusInvInvariant, PTL

\* mb_send puts a message only in queues of pipes registered for its packet, although
\* it reads queues and num_queues while mb_register_packet changes them and pipes
\* while mb_create_pipe does, unless registrations of the packet overlapped.
THEOREM ListenersOnly == Spec => []OnlyListenersReceive
  <1>1. BusInv => OnlyListenersReceive
    BY InvListeners
  <1> QED
    BY <1>1, BusInvInvariant, PTL

\* A registration is lost only where two of the same packet overlapped: between
\* reading num_queues and storing it nothing else can take its place.
THEOREM ApartRegistrationsLast == Spec => []RegistrationsLast
  <1>1. BusInv => RegistrationsLast
    BY InvLast
  <1> QED
    BY <1>1, BusInvInvariant, PTL

\* What mb_send returns is what the last pipe of its loop returned.
THEOREM LastPipeResult == Spec => []ResultIsOfLastPipe
  <1>1. BusInv => ResultIsOfLastPipe
    BY InvLastPipe
  <1> QED
    BY <1>1, BusInvInvariant, PTL

(***************************************************************************)
(* The counters: what x++ loses, and when it loses nothing.                *)
(***************************************************************************)

\* Where an increment is between its load and its store.
Loading == {"sent", "null_stored", "error_stored", "counted", "tlm_error"}

\* A step of a thread begins an increment, ends one, or leaves the counters alone.
LEMMA CounterSteps ==
  ASSUME BusInv, [Next]_busVars
  PROVE  \/ UNCHANGED counterVars /\ \A t \in Threads : pc[t] \in Loading => pc'[t] = pc[t]
         \/ \E t \in Threads, c \in Counters :
              Load(t, c) /\ pc[t] \notin Loading /\ pc'[t] \in Loading
         \/ \E t \in Threads : Store(t)
  <1>1. DOMAIN pc = Threads
    BY DEF BusInv, ThreadInv
  <1>2. CASE UNCHANGED busVars
    BY <1>2 DEF busVars, threadVars, counterVars
  <1>2a. ASSUME NEW r \in Registrants, Setup(r) PROVE UNCHANGED threadVars
    BY <1>2a DEF Setup, MbCreatePipe, MbCreateSlot, OsQueueName, OsQueueLoad, OsQueueCreate,
       MbCreateLoad, MbCreateStore, MbRegisterPacket, MbRegisterEnter, MbRegisterLoad,
       MbRegisterStore
  <1>3. ASSUME NEW t \in Threads,
               \/ MbSend(t) \/ MbSendNull(t) \/ EmEventSends(t) \/ MbSendError(t)
               \/ EmEventCounts(t) \/ TlmCounts(t) \/ MbReceiveCounts(t)
        PROVE  \E c \in Counters : Load(t, c) /\ pc[t] \notin Loading /\ pc'[t] \in Loading
    BY <1>1, <1>3 DEF MbSend, MbSendNull, EmEventSends, MbSendError, EmEventCounts, TlmCounts,
       MbReceiveCounts, Goto, Loading, Counters
  <1>4. ASSUME NEW t \in Threads,
               \/ MbSendCounted(t) \/ MbSendNullEvent(t) \/ MbSendErrorCounted(t)
               \/ TlmErrorCounted(t) \/ Counted(t)
        PROVE  Store(t)
    BY <1>4 DEF MbSendCounted, MbSendNullEvent, MbSendErrorCounted, TlmErrorCounted, Counted
  <1>5. ASSUME NEW t \in Threads,
               \/ MbSendToPipe(t) \/ MbSendEnds(t) \/ Return(t)
               \/ \E p \in 0 .. num_pipes - 1 : MbReceive(t, p)
        PROVE  UNCHANGED counterVars /\ \A u \in Threads : pc[u] \in Loading => pc'[u] = pc[u]
    <2>1. UNCHANGED counterVars /\ pc[t] \notin Loading /\ \E at : pc' = [pc EXCEPT ![t] = at]
      BY <1>5, Zenon DEF MbSendToPipe, MbSendEnds, Return, MbReceive, Goto, Loading
    <2> QED
      BY <1>1, <2>1
  <1> QED
    BY <1>2, <1>2a, <1>3, <1>4, <1>5 DEF Next, Step, threadVars, counterVars

\* What was counted is at least what a counter holds, and more than what a thread
\* has loaded and not yet stored.
AtMostCounted ==
  /\ truth \in [Observed -> Nat]
  /\ \A c \in Observed : counter[c] <= truth[c]
  /\ \A t \in Threads : loaded[t] # NoCounter => loaded[t].value < truth[loaded[t].name]

\* An increment is counted once and, however many threads load the same value,
\* stored at most once for each: a counter never shows more than there was.
THEOREM CountersNeverExceed == Spec => []AtMostCounted
  <1>1. Init => AtMostCounted
    BY DEF Init, AtMostCounted
  <1>2. ASSUME BusInv, AtMostCounted, [Next]_busVars
        PROVE  AtMostCounted'
    <2>1. CASE UNCHANGED counterVars
      BY <1>2, <2>1 DEF AtMostCounted, counterVars
    <2>2. ASSUME NEW t \in Threads, NEW c \in Observed, Load(t, c)
          PROVE  AtMostCounted'
      <3>1. /\ loaded' = [loaded EXCEPT ![t] = [name |-> c, value |-> counter[c]]]
            /\ truth' = [truth EXCEPT ![c] = @ + 1] /\ counter' = counter
        BY <2>2 DEF Load
      <3>2. counter[c] \in Nat /\ truth[c] \in Nat /\ counter[c] <= truth[c]
        BY <1>2 DEF BusInv, CounterInv, AtMostCounted
      <3>3. /\ truth' \in [Observed -> Nat] /\ truth'[c] = truth[c] + 1
            /\ \A d \in Observed : d # c => truth'[d] = truth[d]
        BY <1>2, <3>1, <3>2 DEF AtMostCounted
      <3>4. \A d \in Observed : counter'[d] <= truth'[d]
        BY <1>2, <3>1, <3>2, <3>3 DEF AtMostCounted
      <3>5. ASSUME NEW u \in Threads, loaded'[u] # NoCounter
            PROVE  loaded'[u].value < truth'[loaded'[u].name]
        <4>1. CASE u = t
          <5>1. loaded'[u] = [name |-> c, value |-> counter[c]]
            BY <1>2, <3>1, <4>1 DEF BusInv, CounterInv
          <5> QED
            BY <3>2, <3>3, <5>1
        <4>2. CASE u # t
          <5>1. loaded'[u] = loaded[u] /\ loaded[u] \in [name : Observed, value : Nat]
            BY <1>2, <3>1, <3>5, <4>2 DEF BusInv, CounterInv
          <5>2. loaded[u].value < truth[loaded[u].name] /\ loaded[u].name \in Observed
                /\ loaded[u].value \in Nat
            BY <1>2, <3>5, <5>1 DEF AtMostCounted
          <5> QED
            BY <3>2, <3>3, <5>1, <5>2
        <4> QED
          BY <4>1, <4>2
      <3> QED
        BY <3>3, <3>4, <3>5 DEF AtMostCounted
    <2>3. ASSUME NEW t \in Threads, NEW c, c \notin Observed, Load(t, c)
          PROVE  AtMostCounted'
      BY <2>1, <2>3 DEF Load, counterVars
    <2>4. ASSUME NEW t \in Threads, Store(t)
          PROVE  AtMostCounted'
      <3>1. CASE loaded[t] = NoCounter
        BY <1>2, <2>4, <3>1 DEF Store, AtMostCounted, BusInv, CounterInv
      <3>2. CASE loaded[t] # NoCounter
        <4>1. /\ counter' = [counter EXCEPT ![loaded[t].name] = loaded[t].value + 1]
              /\ loaded' = [loaded EXCEPT ![t] = NoCounter] /\ truth' = truth
          BY <2>4, <3>2 DEF Store
        <4>2. loaded[t] \in [name : Observed, value : Nat]
          BY <1>2, <3>2 DEF BusInv, CounterInv
        <4>3. loaded[t].value < truth[loaded[t].name] /\ truth[loaded[t].name] \in Nat
          BY <1>2, <3>2, <4>2 DEF AtMostCounted
        <4>4. \A d \in Observed : counter'[d] <= truth[d]
          BY <1>2, <4>1, <4>2, <4>3 DEF AtMostCounted, BusInv, CounterInv
        <4>5. \A u \in Threads : loaded'[u] \in {loaded[u], NoCounter}
          BY <1>2, <4>1 DEF BusInv, CounterInv
        <4> QED
          BY <1>2, <4>1, <4>4, <4>5 DEF AtMostCounted
      <3> QED
        BY <3>1, <3>2
    <2> QED
      BY <1>2, <2>1, <2>2, <2>3, <2>4, CounterSteps
  <1> QED
    BY <1>1, <1>2, BusInvInvariant, PTL DEF Spec

\* A thread that nobody interrupts has loaded what the counter holds, which is
\* one less than what was counted.
ExactFor(t) ==
  /\ truth \in [Observed -> Nat]
  /\ loaded[t] = NoCounter => truth = counter
  /\ loaded[t] # NoCounter =>
       /\ pc[t] \in Loading /\ loaded[t].value = counter[loaded[t].name]
       /\ truth = [counter EXCEPT ![loaded[t].name] = @ + 1]

\* mb.c, em.c and tlm.c count exactly where one thread sends and receives: it is
\* the interleaving of two that loses counts, not any path of a call.
THEOREM SoleThreadCounts ==
  ASSUME NEW t, Threads = {t}
  PROVE  Spec => []CountersAreExact
  <1>1. Init => ExactFor(t)
    BY DEF Init, ExactFor
  <1>2. ASSUME BusInv, ExactFor(t), [Next]_busVars
        PROVE  ExactFor(t)'
    <2>1. /\ counter \in [Observed -> Nat]
          /\ loaded[t] # NoCounter => loaded[t] \in [name : Observed, value : Nat]
      BY <1>2 DEF BusInv, CounterInv
    <2>2. CASE UNCHANGED counterVars /\ (pc[t] \in Loading => pc'[t] = pc[t])
      BY <1>2, <2>2 DEF ExactFor, counterVars
    <2>3. ASSUME NEW c \in Counters, Load(t, c), pc[t] \notin Loading, pc'[t] \in Loading
          PROVE  ExactFor(t)'
      <3>1. truth = counter /\ loaded[t] = NoCounter
        BY <1>2, <2>3 DEF ExactFor
      <3>2. CASE c \notin Observed
        BY <1>2, <2>3, <3>1, <3>2 DEF Load, ExactFor
      <3>3. CASE c \in Observed
        <4>1. /\ loaded'[t] = [name |-> c, value |-> counter[c]]
              /\ truth' = [counter EXCEPT ![c] = @ + 1] /\ counter' = counter
          BY <1>2, <2>3, <3>1, <3>3 DEF Load, BusInv, CounterInv
        <4>2. loaded'[t] # NoCounter
          BY <4>1 DEF NoCounter
        <4> QED
          BY <2>1, <2>3, <3>3, <4>1, <4>2 DEF ExactFor
      <3> QED
        BY <3>2, <3>3
    <2>4. ASSUME Store(t)
          PROVE  ExactFor(t)'
      <3>1. loaded'[t] = NoCounter /\ truth' = truth
        BY <1>2, <2>4 DEF Store, BusInv, CounterInv
      <3>2. counter' = truth
        BY <1>2, <2>1, <2>4 DEF Store, ExactFor
      <3> QED
        BY <1>2, <3>1, <3>2 DEF ExactFor
    <2> QED
      BY <1>2, <2>2, <2>3, <2>4, CounterSteps
  <1>3. ExactFor(t) => CountersAreExact
    BY DEF ExactFor, CountersAreExact, Loading
  <1> QED
    BY <1>1, <1>2, <1>3, BusInvInvariant, PTL DEF Spec
================================================================================
