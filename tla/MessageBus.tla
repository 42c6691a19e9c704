------------------------------ MODULE MessageBus ------------------------------
(***************************************************************************)
(* The Message Bus (fsw/src/mb/mb.c), the Event Messages (fsw/src/em/em.c) *)
(* and the Telemetry (fsw/src/tlm/tlm.c) that send over it, and the POSIX  *)
(* message queues of os_queue.c below it.                                  *)
(*                                                                         *)
(* Some threads send and receive, others create pipes and register packets,*)
(* any number of each at once.  Nothing in mb.c, em.c or os_queue_create is *)
(* locked: mb_register_packet enters a pipe behind those that it has seen   *)
(* counted, mb_create_pipe opens a queue for the slot that it has read, a   *)
(* send reads the registrations one by one, and x++ is a load and a store.  *)
(*                                                                         *)
(* Abstracted: payloads, the send_error_* and receive_error_* fields (they *)
(* describe the last error and are read by telemetry only), calls that are *)
(* rejected before they change anything, the handle that mb_create_pipe    *)
(* gives its caller (any pipe may be registered), and the NULL_POINTER that*)
(* mb_send returns for a NULL message after em_event has come back.        *)
(***************************************************************************)
EXTENDS Naturals, Sequences, FiniteSets

CONSTANTS
  Threads,            (* that send and receive                              *)
  Registrants,        (* threads that create pipes and register packets     *)
  Packets,            (* packet ids                                         *)
  EventPacket,        (* MSG_PACKETID_EVENT                                 *)
  MaxNumPipes,        (* MB_MAX_NUM_PIPES                                   *)
  MaxPipesPerPacket,  (* MB_MAX_PIPES_PER_PACKET                            *)
  NumMsgs,            (* messages a pipe holds                              *)
  TooSmall,           (* <<queue, packet>> whose message exceeds the queue's*)
  Timeouts,           (* of the callers: "NO_WAIT", "WAIT_FOREVER"          *)
  Observed,           (* the counters an instance looks at                  *)
  Leftovers,          (* what a queue of the same name may still hold       *)
  MaxCalls,           (* bound: sends and receives of each thread           *)
  MaxSetups           (* bound: creations and registrations                 *)

Counters == {"messages_sent", "message_sent_errors", "messages_received",
             "message_receive_errors", "em_messages_received", "em_message_errors",
             "telemetry_sent", "telemetry_errors"}

\* What messages are sent for.
Origins == {"app", "null", "event", "telemetry"}

\* The sender of a message that an earlier run of the program left.
EarlierRun == "earlier run"

ASSUME MessageBusAssumption ==
  /\ EventPacket \in Packets
  /\ EarlierRun \notin Threads
  /\ {MaxNumPipes, MaxPipesPerPacket, NumMsgs} \subseteq Nat \ {0}
  /\ Timeouts \subseteq {"NO_WAIT", "WAIT_FOREVER"}
  /\ Observed \subseteq Counters
  /\ {MaxCalls, MaxSetups} \subseteq Nat
  /\ Leftovers \subseteq
       Seq([from : {EarlierRun}, n : Nat, of : Origins, packet : Packets])
  /\ \A old \in Leftovers : Len(old) <= NumMsgs

VARIABLES
  num_pipes,
  pipes,        (* the number of the queue in each slot that was filled  *)
  os_num_queues,(* gvOS_queue_num_queues, which names the next queue     *)
  mqueues,      (* the messages in each queue that was opened            *)
  num_queues,   (* of each packet's MB_PacketData                        *)
  queues,       (* of each packet's MB_PacketData                        *)
  place,        (* where each registrant is in mb_create_pipe or         *)
                (* mb_register_packet                                    *)
  local,        (* its arguments and what it has read                    *)
  setups,       (* calls of the registrants so far                       *)
  counter,      (* the status of MB and of EM                            *)
  truth,        (* how often each counter was really incremented         *)
  calls,        (* calls of each thread so far                           *)
  pc,           (* where each thread is in mb_send or mb_receive         *)
  call,         (* the call it is in                                     *)
  loaded,       (* the counter it is incrementing and the value it read  *)
  accepted,     (* the indices in queues whose pipe took its message     *)
  opened,       (* history: <<pipe, queue>>, the queues a pipe ever had  *)
  listening,    (* history: <<pipe, packet>>, the registrations entered  *)
  overlapped    (* history: packets two of whose registrations were made *)
                (* at once                                               *)

pipeVars == <<num_pipes, pipes, os_num_queues, opened>>
packetVars == <<num_queues, queues, listening>>
registrantVars == <<place, local, setups, overlapped>>
setupVars == <<pipeVars, packetVars, registrantVars>>
threadVars == <<counter, truth, calls, pc, call, loaded, accepted>>
busVars == <<setupVars, mqueues, threadVars>>

Indices == 0 .. MaxPipesPerPacket - 1

\* A message: who sent it in which of its calls, what it is and its packet id.
Message(t, n, of, k) == [from |-> t, n |-> n, of |-> of, packet |-> k]

NoCall == [origin |-> "none"]
NoCounter == [name |-> "none"]

SendResults == {"NO_RECEIVER", "OKAY", "TIMEOUT", "SEND_ERROR"}

\* The variables of mb_create_pipe and mb_register_packet: the pipe and packet
\* they are called with, next_pipe or next_queue, the number in the queue's name
\* and the value that ++ has loaded.
NoLocal == [pipe |-> 0, packet |-> EventPacket, next |-> 0, name |-> 0, value |-> 0]

CreatePlaces == {"create", "slot", "named", "counting", "opened", "counted"}
RegisterPlaces == {"enter", "entered", "loaded"}

BusTypeOK ==
  /\ num_pipes \in Nat
  /\ \A p \in DOMAIN pipes : pipes[p] \in DOMAIN mqueues
  /\ \A q \in DOMAIN mqueues : Len(mqueues[q]) <= NumMsgs
  /\ queues \in [Packets -> [Indices -> Nat]]
  /\ num_queues \in [Packets -> Nat]
  /\ \A k \in Packets \ overlapped : num_queues[k] <= MaxPipesPerPacket
  /\ place \in [Registrants -> {"idle"} \cup CreatePlaces \cup RegisterPlaces]
  /\ \A r \in Registrants : place[r] \in RegisterPlaces => local[r].next \in Indices
  /\ \A c \in Observed : counter[c] \in Nat
  /\ \A t \in Threads : pc[t] # "idle" /\ call[t].origin # "receive" =>
       /\ call[t].index \in Nat
       /\ call[t].result \in SendResults
       /\ accepted[t] \subseteq 0 .. call[t].index - 1

Init ==
  /\ num_pipes = 0
  /\ pipes = <<>>
  /\ os_num_queues = 0
  /\ mqueues = <<>>
  /\ num_queues = [k \in Packets |-> 0]
  /\ queues = [k \in Packets |-> [i \in Indices |-> 0]]
  /\ place = [r \in Registrants |-> "idle"]
  /\ local = [r \in Registrants |-> NoLocal]
  /\ setups = 0
  /\ counter = [c \in Observed |-> 0]
  /\ truth = [c \in Observed |-> 0]
  /\ calls = [t \in Threads |-> 0]
  /\ pc = [t \in Threads |-> "idle"]
  /\ call = [t \in Threads |-> NoCall]
  /\ loaded = [t \in Threads |-> NoCounter]
  /\ accepted = [t \in Threads |-> {}]
  /\ opened = {}
  /\ listening = {}
  /\ overlapped = {}

Goto(t, from, to) == pc[t] = from /\ pc' = [pc EXCEPT ![t] = to]

(***************************************************************************)
(* mb_create_pipe and os_queue_create below it.                            *)
(***************************************************************************)
Place(r, from, to) == place[r] = from /\ place' = [place EXCEPT ![r] = to]

\* The caller has its result, and its variables are gone.
Leave(r, from) == Place(r, from, "idle") /\ local' = [local EXCEPT ![r] = NoLocal]

\* The function f with the value v at x.
PutAt(f, x, v) == [y \in DOMAIN f \cup {x} |-> IF y = x THEN v ELSE f[y]]

MbCreatePipe(r) ==
  /\ Place(r, "idle", "create")
  /\ setups < MaxSetups
  /\ num_pipes < MaxNumPipes
  /\ setups' = setups + 1
  /\ UNCHANGED <<pipeVars, mqueues, packetVars, local, overlapped, threadVars>>

\* num_pipes is read again: another creation may have moved it since the check.
MbCreateSlot(r) ==
  /\ Place(r, "create", "slot")
  /\ local' = [local EXCEPT ![r].next = num_pipes]
  /\ UNCHANGED <<pipeVars, mqueues, packetVars, setups, overlapped, threadVars>>

OsQueueName(r) ==
  /\ Place(r, "slot", "named")
  /\ local' = [local EXCEPT ![r].name = os_num_queues]
  /\ UNCHANGED <<pipeVars, mqueues, packetVars, setups, overlapped, threadVars>>

OsQueueLoad(r) ==
  /\ Place(r, "named", "counting")
  /\ local' = [local EXCEPT ![r].value = os_num_queues]
  /\ UNCHANGED <<pipeVars, mqueues, packetVars, setups, overlapped, threadVars>>

\* The number is counted and the queue opened: a new one, which an earlier run of
\* the program may have left messages in, or the one of that name.  A slot past
\* the end of pipes lies in the data of packet 0, which nothing uses.
OsQueueCreate(r) ==
  LET q == local[r].name
      slot == local[r].next
  IN  /\ os_num_queues' = local[r].value + 1
      /\ \/ /\ Place(r, "counting", "opened")
            /\ IF q \in DOMAIN mqueues THEN UNCHANGED mqueues
               ELSE \E old \in Leftovers : mqueues' = PutAt(mqueues, q, old)
            /\ pipes' = PutAt(pipes, slot, q)
            /\ opened' = opened \cup {<<slot, q>>}
            /\ UNCHANGED local
         \/ Leave(r, "counting") /\ UNCHANGED <<mqueues, pipes, opened>>
      /\ UNCHANGED <<num_pipes, packetVars, setups, overlapped, threadVars>>

MbCreateLoad(r) ==
  /\ Place(r, "opened", "counted")
  /\ local' = [local EXCEPT ![r].value = num_pipes]
  /\ UNCHANGED <<pipeVars, mqueues, packetVars, setups, overlapped, threadVars>>

MbCreateStore(r) ==
  /\ Leave(r, "counted")
  /\ num_pipes' = local[r].value + 1
  /\ UNCHANGED <<pipes, os_num_queues, opened, mqueues, packetVars, setups, overlapped,
                 threadVars>>

(***************************************************************************)
(* mb_register_packet.                                                     *)
(***************************************************************************)
Registering(r, k) == place[r] \in RegisterPlaces /\ local[r].packet = k

\* Mutant of MbRegisterPacket: a full packet is registered once more.
MbRegisterPacketOnceMore(r, p, k) ==
  /\ Place(r, "idle", "enter")
  /\ setups < MaxSetups
  /\ p <= num_pipes
  /\ num_queues[k] <= MaxPipesPerPacket
  /\ setups' = setups + 1
  /\ local' = [local EXCEPT ![r].pipe = p, ![r].packet = k, ![r].next = num_queues[k]]
  /\ overlapped' = IF \E other \in Registrants : Registering(other, k)
                   THEN overlapped \cup {k} ELSE overlapped
  /\ UNCHANGED <<pipeVars, mqueues, packetVars, threadVars>>

\* Any pipe up to num_pipes itself is accepted, also one that does not exist yet.
MbRegisterPacket(r, p, k) ==
  /\ Place(r, "idle", "enter")
  /\ setups < MaxSetups
  /\ p <= num_pipes
  /\ num_queues[k] < MaxPipesPerPacket
  /\ setups' = setups + 1
  /\ local' = [local EXCEPT ![r].pipe = p, ![r].packet = k, ![r].next = num_queues[k]]
  /\ overlapped' = IF \E other \in Registrants : Registering(other, k)
                   THEN overlapped \cup {k} ELSE overlapped
  /\ UNCHANGED <<pipeVars, mqueues, packetVars, threadVars>>

\* Mutant of MbRegisterEnter: the pipe is stored one place too far.
MbRegisterEnterPastEnd(r) ==
  LET k == local[r].packet
      p == local[r].pipe
  IN  /\ Place(r, "enter", "entered")
      /\ queues' = [queues EXCEPT ![k][(local[r].next + 1) % MaxPipesPerPacket] = p]
      /\ listening' = listening \cup {<<p, k>>}
      /\ UNCHANGED <<pipeVars, mqueues, num_queues, local, setups, overlapped, threadVars>>

MbRegisterEnter(r) ==
  LET k == local[r].packet
      p == local[r].pipe
  IN  /\ Place(r, "enter", "entered")
      /\ queues' = [queues EXCEPT ![k][local[r].next] = p]
      /\ listening' = listening \cup {<<p, k>>}
      /\ UNCHANGED <<pipeVars, mqueues, num_queues, local, setups, overlapped, threadVars>>

MbRegisterLoad(r) ==
  /\ Place(r, "entered", "loaded")
  /\ local' = [local EXCEPT ![r].value = num_queues[local[r].packet]]
  /\ UNCHANGED <<pipeVars, mqueues, packetVars, setups, overlapped, threadVars>>

MbRegisterStore(r) ==
  /\ Leave(r, "loaded")
  /\ num_queues' = [num_queues EXCEPT ![local[r].packet] = local[r].value + 1]
  /\ UNCHANGED <<pipeVars, mqueues, queues, listening, setups, overlapped, threadVars>>

Setup(r) ==
  \/ MbCreatePipe(r) \/ MbCreateSlot(r) \/ OsQueueName(r) \/ OsQueueLoad(r)
  \/ OsQueueCreate(r) \/ MbCreateLoad(r) \/ MbCreateStore(r)
  \/ \E p \in 0 .. num_pipes, k \in Packets : MbRegisterPacket(r, p, k)
  \/ MbRegisterEnter(r) \/ MbRegisterLoad(r) \/ MbRegisterStore(r)

(***************************************************************************)
(* counter++: the value is loaded by the step that calls Load, and stored  *)
(* by a later one.                                                         *)
(***************************************************************************)
Load(t, c) ==
  /\ IF c \in Observed
     THEN /\ loaded' = [loaded EXCEPT ![t] = [name |-> c, value |-> counter[c]]]
          /\ truth' = [truth EXCEPT ![c] = @ + 1]
     ELSE UNCHANGED <<loaded, truth>>
  /\ UNCHANGED counter

Store(t) ==
  /\ counter' = IF loaded[t] = NoCounter THEN counter
                ELSE [counter EXCEPT ![loaded[t].name] = loaded[t].value + 1]
  /\ loaded' = [loaded EXCEPT ![t] = NoCounter]
  /\ UNCHANGED truth

counterVars == <<counter, truth, loaded>>

(***************************************************************************)
(* The POSIX queue.  The deadline is always in the past, so that a full    *)
(* queue times out at once, or out of range for WAIT_FOREVER.              *)
(***************************************************************************)
\* Mutant of OsQueueSend: a full queue takes the message.
OsQueueSendNeverFull(p, k, timeout) ==
  IF p \notin DOMAIN pipes \/ timeout = "WAIT_FOREVER" THEN "ERROR"
  ELSE IF <<pipes[p], k>> \in TooSmall THEN "ERROR" ELSE "OKAY"

OsQueueSend(p, k, timeout) ==
  IF p \notin DOMAIN pipes \/ timeout = "WAIT_FOREVER" THEN "ERROR"
  ELSE IF <<pipes[p], k>> \in TooSmall THEN "ERROR"
  ELSE IF Len(mqueues[pipes[p]]) = NumMsgs THEN "TIMEOUT" ELSE "OKAY"

(***************************************************************************)
(* mb_send, called by a module ("app"), with a NULL message ("null"), from *)
(* em_event ("event") or from the telemetry task ("telemetry").  The task  *)
(* passes MSG_PACKETTYPE_TELEMETRY as the packet id of its report, which is*)
(* the number of MSG_PACKETID_EVENT.                                       *)
(***************************************************************************)
\* Mutant of SendCall: success is assumed until a pipe fails.
SendCallAssumesOkay(origin, k, timeout) ==
  [origin |-> origin, packet |-> k, timeout |-> timeout,
   index |-> 0, result |-> "OKAY"]

SendCall(origin, k, timeout) ==
  [origin |-> origin, packet |-> k, timeout |-> timeout,
   index |-> 0, result |-> "NO_RECEIVER"]

MbSend(t) ==
  /\ Goto(t, "idle", "sent")
  /\ calls[t] < MaxCalls
  /\ calls' = [calls EXCEPT ![t] = @ + 1]
  /\ \/ \E k \in Packets, timeout \in Timeouts :
          call' = [call EXCEPT ![t] = SendCall("app", k, timeout)]
     \/ \E origin \in {"event", "null", "telemetry"} :
          call' = [call EXCEPT ![t] = SendCall(origin, EventPacket, "NO_WAIT")]
  /\ accepted' = [accepted EXCEPT ![t] = {}]
  /\ Load(t, "messages_sent")
  /\ UNCHANGED <<mqueues, setupVars>>

MbSendCounted(t) ==
  /\ Goto(t, "sent", IF call[t].origin = "null" THEN "null" ELSE "loop")
  /\ Store(t)
  /\ UNCHANGED <<mqueues, setupVars, calls, call, accepted>>

\* A NULL message is an error, and the event that reports it is sent in turn.
MbSendNull(t) ==
  /\ Goto(t, "null", "null_stored")
  /\ Load(t, "message_sent_errors")
  /\ UNCHANGED <<mqueues, setupVars, calls, call, accepted>>

MbSendNullEvent(t) ==
  /\ Goto(t, "null_stored", "em_event")
  /\ Store(t)
  /\ UNCHANGED <<mqueues, setupVars, calls, call, accepted>>

\* em_event, where it reports a failed call.
EmEventSends(t) ==
  /\ Goto(t, "em_event", "sent")
  /\ call' = [call EXCEPT ![t] = SendCall("event", EventPacket, "NO_WAIT")]
  /\ accepted' = [accepted EXCEPT ![t] = {}]
  /\ Load(t, "messages_sent")
  /\ UNCHANGED <<mqueues, setupVars, calls>>

\* The pipe that mb_send finds at an index.  Behind the array, where registrations
\* made at once may have pushed num_queues, it reads another field as a pipe.
PipeAt(k, i) ==
  IF i \in Indices THEN {queues[k][i]} ELSE 0 .. MaxNumPipes

\* Mutant of MbSendToPipe: every turn of the loop uses the first pipe.
MbSendToFirstPipe(t) ==
  LET k == call[t].packet
      i == call[t].index
  IN  /\ pc[t] = "loop" /\ i < num_queues[k]
      /\ \E p \in PipeAt(k, 0) :
           LET os_result == OsQueueSend(p, k, call[t].timeout)
           IN  /\ Goto(t, "loop", IF os_result = "ERROR" THEN "error" ELSE "loop")
               /\ call' = [call EXCEPT
                    ![t].index = @ + 1,
                    ![t].result = IF os_result = "ERROR" THEN "SEND_ERROR" ELSE os_result]
               /\ IF os_result = "OKAY"
                  THEN /\ mqueues' = [mqueues EXCEPT ![pipes[p]] =
                                        Append(@, Message(t, calls[t], call[t].origin, k))]
                       /\ accepted' = [accepted EXCEPT ![t] = @ \cup {i}]
                  ELSE UNCHANGED <<mqueues, accepted>>
      /\ UNCHANGED <<setupVars, counterVars, calls>>

\* One pipe of the loop.  A failure does not stop it.
MbSendToPipe(t) ==
  LET k == call[t].packet
      i == call[t].index
  IN  /\ pc[t] = "loop" /\ i < num_queues[k]
      /\ \E p \in PipeAt(k, i) :
           LET os_result == OsQueueSend(p, k, call[t].timeout)
           IN  /\ Goto(t, "loop", IF os_result = "ERROR" THEN "error" ELSE "loop")
               /\ call' = [call EXCEPT
                    ![t].index = @ + 1,
                    ![t].result = IF os_result = "ERROR" THEN "SEND_ERROR" ELSE os_result]
               /\ IF os_result = "OKAY"
                  THEN /\ mqueues' = [mqueues EXCEPT ![pipes[p]] =
                                        Append(@, Message(t, calls[t], call[t].origin, k))]
                       /\ accepted' = [accepted EXCEPT ![t] = @ \cup {i}]
                  ELSE UNCHANGED <<mqueues, accepted>>
      /\ UNCHANGED <<setupVars, counterVars, calls>>

MbSendError(t) ==
  /\ Goto(t, "error", "error_stored")
  /\ Load(t, "message_sent_errors")
  /\ UNCHANGED <<mqueues, setupVars, calls, call, accepted>>

\* Mutant of MbSendErrorCounted: a failed send is reported by an event.
MbSendErrorReports(t) ==
  /\ Goto(t, "error_stored", "em_event")
  /\ Store(t)
  /\ UNCHANGED <<mqueues, setupVars, calls, call, accepted>>

\* No event reports it: the failure may be that of an event.
MbSendErrorCounted(t) ==
  /\ Goto(t, "error_stored", "loop")
  /\ Store(t)
  /\ UNCHANGED <<mqueues, setupVars, calls, call, accepted>>

MbSendEnds(t) ==
  /\ pc[t] = "loop" /\ call[t].index >= num_queues[call[t].packet]
  /\ Goto(t, "loop", IF call[t].origin = "app" THEN "return" ELSE call[t].origin)
  /\ UNCHANGED <<mqueues, setupVars, counterVars, calls, call, accepted>>

\* em_event counts what mb_send returned to it.
EmEventCounts(t) ==
  /\ Goto(t, "event", "counted")
  /\ Load(t, IF call[t].result = "OKAY" THEN "em_messages_received"
             ELSE "em_message_errors")
  /\ UNCHANGED <<mqueues, setupVars, calls, call, accepted>>

\* The telemetry task counts what mb_send returned, and reports an error by an
\* event, whose own failure nobody reports.
TlmCounts(t) ==
  /\ pc[t] = "telemetry"
  /\ IF call[t].result = "OKAY"
     THEN Goto(t, "telemetry", "counted") /\ Load(t, "telemetry_sent")
     ELSE Goto(t, "telemetry", "tlm_error") /\ Load(t, "telemetry_errors")
  /\ UNCHANGED <<mqueues, setupVars, calls, call, accepted>>

TlmErrorCounted(t) ==
  /\ Goto(t, "tlm_error", "em_event")
  /\ Store(t)
  /\ UNCHANGED <<mqueues, setupVars, calls, call, accepted>>

(***************************************************************************)
(* mb_receive passes the address sizeof(MSG_Header) elements behind        *)
(* msg_size: what it finds there may be less than the size of a message,   *)
(* which os_queue_receive then leaves in the queue.  A time out is an error*)
(* like any other: mq_timedreceive returns -1, never ETIMEDOUT.            *)
(***************************************************************************)
OsQueueReceive(p) ==
  IF p \notin DOMAIN pipes THEN {"ERROR"}
  ELSE {"ERROR"} \cup (IF mqueues[pipes[p]] = <<>> THEN {} ELSE {"OKAY"})

MbReceive(t, p) ==
  /\ p < num_pipes
  /\ calls[t] < MaxCalls
  /\ calls' = [calls EXCEPT ![t] = @ + 1]
  /\ call' = [call EXCEPT ![t] = [origin |-> "receive"]]
  /\ \/ /\ "OKAY" \in OsQueueReceive(p)
        /\ mqueues' = [mqueues EXCEPT ![pipes[p]] = Tail(@)]
        /\ Goto(t, "idle", "received")
     \/ /\ "ERROR" \in OsQueueReceive(p)
        /\ Goto(t, "idle", "not_received")
        /\ UNCHANGED mqueues
  /\ UNCHANGED <<setupVars, counterVars, accepted>>

MbReceiveCounts(t) ==
  /\ \/ Goto(t, "received", "counted") /\ Load(t, "messages_received")
     \/ Goto(t, "not_received", "counted") /\ Load(t, "message_receive_errors")
  /\ UNCHANGED <<mqueues, setupVars, calls, call, accepted>>

\* The last counter of em_event or of mb_receive.
Counted(t) ==
  /\ Goto(t, "counted", "return")
  /\ Store(t)
  /\ UNCHANGED <<mqueues, setupVars, calls, call, accepted>>

Return(t) ==
  /\ Goto(t, "return", "idle")
  /\ call' = [call EXCEPT ![t] = NoCall]
  /\ accepted' = [accepted EXCEPT ![t] = {}]
  /\ UNCHANGED <<mqueues, setupVars, counterVars, calls>>

Step(t) ==
  \/ MbSendCounted(t) \/ MbSendNull(t) \/ MbSendNullEvent(t) \/ EmEventSends(t)
  \/ MbSendToPipe(t) \/ MbSendError(t) \/ MbSendErrorCounted(t) \/ MbSendEnds(t)
  \/ EmEventCounts(t) \/ TlmCounts(t) \/ TlmErrorCounted(t) \/ MbReceiveCounts(t)
  \/ Counted(t) \/ Return(t)

Next ==
  \/ \E r \in Registrants : Setup(r)
  \/ \E t \in Threads : MbSend(t) \/ Step(t)
  \/ \E t \in Threads, p \in 0 .. num_pipes - 1 : MbReceive(t, p)

Spec == Init /\ [][Next]_busVars

\* A thread in a call runs; nobody has to call or to register anything.
FairSpec == Spec /\ \A t \in Threads : WF_busVars(Step(t))

(***************************************************************************)
(* Properties.                                                             *)
(***************************************************************************)
Sending(t) == pc[t] # "idle" /\ call[t].origin # "receive"

\* A queue holds only messages of packets that a pipe of this queue was registered
\* for, although senders see a registration while it is made and queues while they
\* are created: of packets whose registrations never overlapped.
OnlyListenersReceive ==
  \A q \in DOMAIN mqueues : \A i \in 1 .. Len(mqueues[q]) :
    LET m == mqueues[q][i]
    IN  m.from \in Threads /\ m.packet \notin overlapped =>
          \E pair \in opened : pair[2] = q /\ <<pair[1], m.packet>> \in listening

\* A queue gets a message at most once for each registration of a pipe that had
\* it, also while registrations change and other pipes fail, if registrations of
\* the packet never overlapped: one that is overwritten may have had its copy.
CopiesPerRegistration ==
  \A q \in DOMAIN mqueues, t \in Threads, n \in 1 .. MaxCalls, k \in Packets \ overlapped,
     of \in {"app", "event", "telemetry"} :
    Cardinality({i \in 1 .. Len(mqueues[q]) : mqueues[q][i] = Message(t, n, of, k)})
      <= Cardinality({i \in 0 .. num_queues[k] - 1 : <<queues[k][i], q>> \in opened})

\* A registration that was entered is counted, or about to be, and is not lost: it
\* takes two that overlap, of any threads, to lose one.
RegistrationsLast ==
  \A pair \in listening :
    LET p == pair[1]
        k == pair[2]
    IN  \/ k \in overlapped
        \/ \E r \in Registrants : Registering(r, k) /\ local[r].pipe = p
        \/ \E i \in 0 .. num_queues[k] - 1 : queues[k][i] = p

\* "A call to mb_send will send the packet to all registered pipes": once every
\* mb_register_packet has returned, mb_send finds the pipe of each.
RegisteredPipesAreSentTo ==
  (\A r \in Registrants : place[r] = "idle") =>
    \A pair \in listening :
      \E i \in 0 .. num_queues[pair[2]] - 1 : queues[pair[2]][i] = pair[1]

\* What mb_send is about to return: NO_RECEIVER only if it tried no pipe, OKAY
\* exactly if the last pipe it tried took the message.
ResultIsOfLastPipe ==
  \A t \in Threads :
    Sending(t) /\ pc[t] \in {"event", "telemetry", "return"} =>
      /\ (call[t].result = "NO_RECEIVER") <=> (call[t].index = 0)
      /\ (call[t].result = "OKAY") <=> (call[t].index - 1 \in accepted[t])

\* A send or receive returns, whether its pipes are full, missing or failing
\* and whether anybody reads them, also where mb_send and em_event call each
\* other: an event that cannot be sent does not cause another one.
CallsReturn == \A t \in Threads : pc[t] # "idle" ~> pc[t] = "idle"

\* "A count of the number of messages sent over MB": when no call is in
\* progress the counters are what was counted.
CountersAreExact ==
  (\A t \in Threads : pc[t] = "idle") => counter = truth

\* mb_send "will place the message on all listening pipes" and returns "either
\* success or an error code": after success no listening pipe went without.
OkayReachesAllListeners ==
  \A t \in Threads :
    Sending(t) /\ pc[t] = "return" /\ call[t].result = "OKAY" =>
      LET PipesOf(indices) == {queues[call[t].packet][i] : i \in indices \cap Indices}
      IN  PipesOf(accepted[t]) = PipesOf(0 .. call[t].index - 1)
================================================================================
