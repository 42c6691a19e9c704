----------------------------- MODULE OsTimer_proofs -----------------------------
(***************************************************************************)
(* Proofs about the timers for any number of timers, signals, threads and  *)
(* starts, and for any timeouts.                                           *)
(***************************************************************************)
EXTENDS OsTimer, FiniteSetTheorems, TLAPS

(***************************************************************************)
(* Arithmetic.                                                             *)
(***************************************************************************)

\* The starts are counted one by one.
LEMMA CountStarts ==
  ASSUME NEW k \in Nat, DOMAIN started = 1 .. k
  PROVE  NumStarts = k
  BY FS_Interval DEF NumStarts

\* How often a start may fire is limited by a number.
LEMMA FiredBoundType ==
  ASSUME OsTimerAssumption
  PROVE  /\ FiredBound \in Nat /\ FiredBound > 0
         /\ \A n : FiredLimit(n) \in 1 .. FiredBound
  <1>1. Cardinality(Threads) \in Nat
    BY FS_CardinalityType DEF OsTimerAssumption
  <1> QED
    BY <1>1 DEF FiredBound, FiredLimit

(***************************************************************************)
(* The inductive invariant.                                                *)
(***************************************************************************)
Begun == 1 .. NumStarts

\* Each signal has one timer in the table; a timer uses one it has there.
TableIsUnique ==
  /\ \A i \in Signals, t, u \in Timers :
       <<i, t>> \in gvOS_timers /\ <<i, u>> \in gvOS_timers => t = u
  /\ \A i, t : <<i, t>> \in gvOS_timers => i < gvOS_currentSignal
  /\ \A t \in Timers : Created(t) => <<signal[t], t>> \in gvOS_timers

\* What a timer holds was passed by a start of it; the argument is written after
\* the callback.
FieldsAreItsOwn ==
  \A t \in Timers :
    /\ callback[t].start \in Begun \cup {NoStart}
    /\ callback[t].start # NoStart => started[callback[t].start].timer = t
    /\ argument[t] \in Begun \cup {NoStart}
    /\ argument[t] # NoStart => started[argument[t]].timer = t
    /\ argument[t] <= callback[t].start

\* How far os_timer_start has come with the timer.
ClientProgress ==
  \A t \in Timers :
    /\ client[t] # "idle" => callback[t].start # NoStart
    /\ client[t] \in {"install", "arm"} => Created(t) /\ argument[t] = callback[t].start
    /\ client[t] = "arm" => signal[t] \in handled

\* A start that may have armed the kernel timer of signal s: its handler was
\* installed, and its callback and argument were stored, before.
MayArm(n, s) ==
  /\ n \in Begun
  /\ s \in handled
  /\ <<s, started[n].timer>> \in gvOS_timers
  /\ n <= argument[started[n].timer]

ArmedByStart ==
  \A s \in Signals :
    /\ armed[s] # NoStart => MayArm(armed[s], s)
    /\ pending[s] # NoStart => MayArm(pending[s], s)

\* A start that stored what an expiration of start r may be answered with.
Answers(n, r) ==
  /\ n \in Begun
  /\ n >= r
  /\ started[n].timer = started[r].timer

\* What a run of os_timer_function for signal s holds.
RunInv(run, s) ==
  /\ run.pc # "idle" => MayArm(run.raised, s)
  /\ run.pc \in {"argument", "calling", "stop"} =>
       run.timer = started[run.raised].timer
  /\ run.pc \in {"argument", "calling"} => Answers(run.callback.start, run.raised)
  /\ run.pc = "calling" => Answers(run.argument, run.raised)

HandlerInv == \A h \in Threads, s \in Signals : RunInv(handler[h][s], s)

TimerInv ==
  /\ OsTimerTypeOK
  /\ TableIsUnique
  /\ FieldsAreItsOwn
  /\ ClientProgress
  /\ ArmedByStart
  /\ HandlerInv

\* Before the first call no timer, signal or handler is in use.
LEMMA TimerInvInitially ==
  ASSUME OsTimerAssumption, Init
  PROVE  TimerInv
  <1>1. NumStarts = 0 /\ DOMAIN started = 1 .. 0
    BY CountStarts DEF Init
  <1>2. 0 \in 0 .. FiredBound /\ MaxStarts \in Nat /\ NumSignals \in Nat
    BY FiredBoundType DEF OsTimerAssumption
  <1>3. OsTimerTypeOK
    <2>1. started \in [1 .. NumStarts -> [timer : Timers, restart : BOOLEAN]]
      BY <1>1 DEF Init
    <2> QED
      BY <1>1, <1>2, <2>1 DEF Init, OsTimerTypeOK, NoSignal, NoStart, HandlerStates
  <1>4. TableIsUnique /\ FieldsAreItsOwn /\ ClientProgress /\ ArmedByStart /\ HandlerInv
    BY DEF Init, TableIsUnique, FieldsAreItsOwn, ClientProgress, ArmedByStart,
           HandlerInv, RunInv, Created, NullCallback, Idle, NoStart
  <1> QED
    BY <1>3, <1>4 DEF TimerInv

(***************************************************************************)
(* What steps of clients keep: starts, handlers and table only grow, and   *)
(* arguments are replaced by later ones.                                   *)
(***************************************************************************)
Grows ==
  /\ handled \subseteq handled'
  /\ gvOS_timers \subseteq gvOS_timers'
  /\ NumStarts <= NumStarts'
  /\ \A n \in Begun : started'[n] = started[n]
  /\ \A t \in Timers : argument[t] <= argument'[t]

\* The numbers that the invariant compares.
LEMMA Numbers ==
  ASSUME OsTimerAssumption, OsTimerTypeOK
  PROVE  /\ NumStarts \in Nat /\ MaxStarts \in Nat /\ NumStarts <= MaxStarts
         /\ Begun \subseteq Nat /\ Begun \subseteq Starts
         /\ \A n \in Begun : started[n].timer \in Timers
         /\ \A t \in Timers : argument[t] \in Nat /\ callback[t].start \in Nat
  <1>1. NumStarts \in Nat /\ MaxStarts \in Nat /\ NumStarts <= MaxStarts
    BY DEF OsTimerTypeOK, OsTimerAssumption
  <1>2. Begun \subseteq Nat /\ Begun \subseteq Starts
    BY <1>1 DEF Begun, Starts
  <1>3. \A n \in Begun : started[n].timer \in Timers
    BY DEF OsTimerTypeOK, Begun
  <1>4. \A t \in Timers : argument[t] \in Nat
    BY <1>1 DEF OsTimerTypeOK, Starts, NoStart
  <1>5. \A t \in Timers : callback[t].start \in Nat
    BY <1>1 DEF OsTimerTypeOK, Starts, NoStart, Callbacks, NullCallback
  <1> QED
    BY <1>1, <1>2, <1>3, <1>4, <1>5

\* What a start may arm, and what a handler may run, stays so as starts go on.
LEMMA MayArmKept ==
  ASSUME OsTimerAssumption, OsTimerTypeOK, OsTimerTypeOK', Grows
  PROVE  /\ \A n, s : MayArm(n, s) => MayArm(n, s)'
         /\ \A run, s : RunInv(run, s) => RunInv(run, s)'
  <1>1. NumStarts \in Nat /\ NumStarts' \in Nat
    BY DEF OsTimerTypeOK
  <1>2. /\ Begun \subseteq Begun'
        /\ Begun \subseteq Nat
    BY <1>1 DEF Begun, Grows
  <1>3. \A t \in Timers : argument[t] \in Nat /\ argument'[t] \in Nat
    <2>1. Starts \cup {NoStart} \subseteq Nat
      BY DEF Starts, NoStart, OsTimerAssumption
    <2> QED
      BY <2>1 DEF OsTimerTypeOK
  <1>4. \A n \in Begun : started[n].timer \in Timers
    BY Numbers
  <1>5. ASSUME NEW n, NEW s, MayArm(n, s)
        PROVE  MayArm(n, s)'
    <2> DEFINE t == started[n].timer
    <2>1. n \in Begun /\ n \in Begun' /\ n \in Nat /\ t \in Timers
      BY <1>2, <1>4, <1>5 DEF MayArm
    <2>2. started'[n].timer = t
      BY <2>1 DEF Grows
    <2>3. n <= argument'[t]
      BY <1>3, <1>5, <2>1 DEF Grows, MayArm
    <2>4. s \in handled' /\ <<s, t>> \in gvOS_timers'
      BY <1>5 DEF Grows, MayArm
    <2> QED
      BY <2>1, <2>2, <2>3, <2>4 DEF MayArm
  <1>6. ASSUME NEW n, NEW r \in Begun, Answers(n, r)
        PROVE  Answers(n, r)'
    BY <1>2, <1>6 DEF Grows, Answers
  <1>7. ASSUME NEW run, NEW s, RunInv(run, s)
        PROVE  RunInv(run, s)'
    <2>1. run.pc # "idle" => run.raised \in Begun
      BY <1>7 DEF RunInv, MayArm
    <2> QED
      BY <1>5, <1>6, <1>7, <2>1 DEF RunInv, Grows
  <1> QED
    BY <1>5, <1>7

\* If neither the kernel nor a handler moves, what they are at stays in order.
LEMMA KernelKept ==
  ASSUME OsTimerAssumption, TimerInv, OsTimerTypeOK', Grows,
         UNCHANGED <<armed, pending, handler>>
  PROVE  ArmedByStart' /\ HandlerInv'
  <1>1. ArmedByStart'
    BY MayArmKept DEF TimerInv, ArmedByStart
  <1>2. HandlerInv'
    BY MayArmKept DEF TimerInv, HandlerInv
  <1> QED
    BY <1>1, <1>2

\* A handler that is neither idle nor just entered holds what it loaded.
LEMMA HandlerFields ==
  ASSUME NEW run \in HandlerStates
  PROVE  /\ run.pc \in {"idle", "entered", "argument", "calling", "stop"}
         /\ run.pc # "idle" => run.raised \in Starts
         /\ run.pc \in {"argument", "calling", "stop"} => run.timer \in Timers
         /\ run.pc \in {"argument", "calling"} => run.callback \in Callbacks
         /\ run.pc = "calling" => run.argument \in Starts
  BY DEF HandlerStates, Idle

(***************************************************************************)
(* os_timer_create.                                                        *)
(***************************************************************************)

\* os_timer_create gives the timer the next signal, or fails.
LEMMA InvCreate ==
  ASSUME OsTimerAssumption, TimerInv, NEW t \in Timers, OsTimerCreate(t)
  PROVE  TimerInv'
  <1> DEFINE i == gvOS_currentSignal
  <1>1. /\ i \in 0 .. NumSignals - 1 /\ NumSignals \in 1 .. OS_MAX_TIMERS
        /\ client[t] = "idle"
        /\ signal' = [signal EXCEPT ![t] = i]
        /\ gvOS_timers' = gvOS_timers \cup {<<i, t>>}
        /\ gvOS_currentSignal' = i + 1
        /\ UNCHANGED <<callback, argument, timeout, client, handled, started, armed,
                       pending, handler, stopped, fired>>
    BY DEF OsTimerCreate, Signals, OsTimerAssumption
  <1>2. i \in Nat /\ i + 1 \in 0 .. NumSignals /\ i \in 0 .. OS_MAX_TIMERS - 1
    BY <1>1 DEF OS_MAX_TIMERS
  <1>3. OsTimerTypeOK'
    BY <1>1, <1>2 DEF TimerInv, OsTimerTypeOK, NumStarts
  <1>4. TableIsUnique'
    <2>1. \A j, u : <<j, u>> \in gvOS_timers => j \in Nat /\ j < i
      BY DEF TimerInv, TableIsUnique, OsTimerTypeOK
    <2>2. \A j, u : <<j, u>> \in gvOS_timers' => <<j, u>> \in gvOS_timers \/ (j = i /\ u = t)
      BY <1>1
    <2>3. \A j, u : <<j, u>> \in gvOS_timers' => j < i + 1
      BY <1>2, <2>1, <2>2
    <2>4. \A u \in Timers : Created(u)' => <<signal'[u], u>> \in gvOS_timers'
      BY <1>1 DEF TimerInv, TableIsUnique, OsTimerTypeOK, Created
    <2>5. \A j \in Signals, u, v \in Timers :
            <<j, u>> \in gvOS_timers' /\ <<j, v>> \in gvOS_timers' => u = v
      BY <1>2, <2>1, <2>2 DEF TimerInv, TableIsUnique
    <2> QED
      BY <1>1, <2>3, <2>4, <2>5 DEF TableIsUnique
  <1>5. FieldsAreItsOwn'
    BY <1>1 DEF TimerInv, FieldsAreItsOwn, Begun, NumStarts
  <1>6. ClientProgress'
    BY <1>1 DEF TimerInv, ClientProgress, Created, OsTimerTypeOK
  <1>7. Grows
    BY <1>1, Numbers DEF TimerInv, Grows, NumStarts
  <1> QED
    BY <1>1, <1>3, <1>4, <1>5, <1>6, <1>7, KernelKept DEF TimerInv

(***************************************************************************)
(* os_timer_start.                                                         *)
(***************************************************************************)

\* os_timer_start begins: the callback is stored, the argument is still the old one.
LEMMA InvStoresCallback ==
  ASSUME OsTimerAssumption, TimerInv, NEW t \in Timers, NEW r \in BOOLEAN,
         NEW d \in Timeouts, StartStoresCallback(t, r, d)
  PROVE  TimerInv'
  <1> DEFINE n == NumStarts + 1
  <1>1. /\ client[t] = "idle" /\ NumStarts < MaxStarts
        /\ started' = [m \in 1 .. n |->
             IF m = n THEN [timer |-> t, restart |-> r] ELSE started[m]]
        /\ callback' = [callback EXCEPT ![t] = [start |-> n, restart |-> r]]
        /\ timeout' = [timeout EXCEPT ![t] = d]
        /\ client' = [client EXCEPT ![t] = "argument"]
        /\ UNCHANGED <<gvOS_currentSignal, gvOS_timers, signal, argument, handled,
                       armed, pending, handler, stopped, fired>>
    BY DEF StartStoresCallback
  <1>2. /\ NumStarts \in Nat /\ MaxStarts \in Nat /\ Timeouts \subseteq Nat
        /\ n \in Nat /\ n \in Starts /\ n # NoStart
    BY <1>1 DEF TimerInv, OsTimerTypeOK, OsTimerAssumption, Starts, NoStart
  <1>3. NumStarts' = n
    <2>1. Cardinality(1 .. n) = n
      BY <1>2, FS_Interval
    <2>2. DOMAIN started' = 1 .. n
      BY <1>1
    <2> QED
      BY <2>1, <2>2 DEF NumStarts
  <1>4. /\ Begun' = 1 .. n /\ n \in Begun' /\ Begun \subseteq Begun'
        /\ started'[n].timer = t
        /\ \A m \in Begun : started'[m] = started[m] /\ m < n
    BY <1>1, <1>2, <1>3 DEF Begun
  <1>5. OsTimerTypeOK'
    <2>1. started' \in [1 .. n -> [timer : Timers, restart : BOOLEAN]]
      BY <1>1, <1>2 DEF TimerInv, OsTimerTypeOK
    <2>2. [start |-> n, restart |-> r] \in Callbacks
      BY <1>2 DEF Callbacks
    <2>3. callback' \in [Timers -> Callbacks \cup {NullCallback}]
      BY <1>1, <2>2 DEF TimerInv, OsTimerTypeOK
    <2>4. timeout' \in [Timers -> Nat]
      BY <1>1, <1>2 DEF TimerInv, OsTimerTypeOK
    <2>5. NumStarts' \in 0 .. MaxStarts /\ started' \in [1 .. NumStarts' -> [timer : Timers, restart : BOOLEAN]]
      BY <1>1, <1>2, <1>3, <2>1
    <2> QED
      BY <1>1, <2>3, <2>4, <2>5 DEF TimerInv, OsTimerTypeOK
  <1>6. TableIsUnique'
    BY <1>1 DEF TimerInv, TableIsUnique, Created
  <1>7. FieldsAreItsOwn'
    <2> SUFFICES ASSUME NEW u \in Timers
                 PROVE  /\ callback'[u].start \in Begun' \cup {NoStart}
                        /\ callback'[u].start # NoStart
                             => started'[callback'[u].start].timer = u
                        /\ argument'[u] \in Begun' \cup {NoStart}
                        /\ argument'[u] # NoStart => started'[argument'[u]].timer = u
                        /\ argument'[u] <= callback'[u].start
      BY DEF FieldsAreItsOwn
    <2>1. /\ callback'[u].start = IF u = t THEN n ELSE callback[u].start
          /\ argument'[u] = argument[u]
      BY <1>1 DEF TimerInv, OsTimerTypeOK
    <2>2. /\ callback[u].start \in Begun \cup {NoStart}
          /\ callback[u].start # NoStart => started[callback[u].start].timer = u
          /\ argument[u] \in Begun \cup {NoStart}
          /\ argument[u] # NoStart => started[argument[u]].timer = u
          /\ argument[u] <= callback[u].start
      BY DEF TimerInv, FieldsAreItsOwn
    <2>3. argument[u] <= n
      <3>1. n \in Nat /\ \A m \in Begun : m < n /\ m \in Nat
        BY <1>2, <1>4 DEF Begun
      <3>2. argument[u] \in Begun \/ argument[u] = 0
        BY <2>2 DEF NoStart
      <3> HIDE DEF n
      <3> QED
        BY <3>1, <3>2
    <2>4. argument[u] # NoStart => started'[argument[u]] = started[argument[u]]
      BY <1>4, <2>2
    <2>5. argument[u] \in Begun' \cup {NoStart}
      BY <1>4, <2>2
    <2>6. CASE u = t
      <3>1. callback'[u].start = n
        BY <2>1, <2>6
      <3> HIDE DEF n
      <3> QED
        BY <1>4, <2>1, <2>2, <2>3, <2>4, <2>5, <2>6, <3>1
    <2>7. CASE u # t
      <3>1. callback[u].start # NoStart => started'[callback[u].start] = started[callback[u].start]
        BY <1>4, <2>2
      <3> QED
        BY <1>4, <2>1, <2>2, <2>4, <2>5, <2>7, <3>1
    <2> QED
      BY <2>6, <2>7
  <1>8. ClientProgress'
    BY <1>1, <1>2 DEF TimerInv, ClientProgress, OsTimerTypeOK, Created
  <1>9. Grows
    <2>1. \A u \in Timers : argument[u] <= argument'[u]
      BY <1>1, Numbers DEF TimerInv
    <2>2. handled \subseteq handled' /\ gvOS_timers \subseteq gvOS_timers'
      BY <1>1
    <2>3. NumStarts <= NumStarts'
      BY <1>2, <1>3
    <2> QED
      BY <1>4, <2>1, <2>2, <2>3 DEF Grows
  <1> QED
    BY <1>1, <1>5, <1>6, <1>7, <1>8, <1>9, KernelKept DEF TimerInv

\* os_timer_start stores the argument.
LEMMA InvStoresArgument ==
  ASSUME OsTimerAssumption, TimerInv, NEW t \in Timers, StartStoresArgument(t)
  PROVE  TimerInv'
  <1>1. /\ client[t] = "argument"
        /\ argument' = [argument EXCEPT ![t] = callback[t].start]
        /\ client' = [client EXCEPT ![t] = IF Created(t) THEN "install" ELSE "idle"]
        /\ UNCHANGED <<gvOS_currentSignal, gvOS_timers, signal, callback, timeout,
                       handled, started, armed, pending, handler, stopped, fired>>
    BY DEF StartStoresArgument
  <1>2. /\ callback[t].start \in Begun /\ callback[t].start \in Starts
        /\ started[callback[t].start].timer = t
        /\ Begun \subseteq Nat /\ MaxStarts \in Nat
        /\ argument[t] <= callback[t].start
    BY <1>1 DEF TimerInv, FieldsAreItsOwn, ClientProgress, OsTimerTypeOK, Begun, Starts,
                NoStart, OsTimerAssumption
  <1>3. OsTimerTypeOK'
    BY <1>1, <1>2 DEF TimerInv, OsTimerTypeOK, NumStarts
  <1>4. TableIsUnique'
    BY <1>1 DEF TimerInv, TableIsUnique, Created
  <1>5. FieldsAreItsOwn'
    <2> SUFFICES ASSUME NEW u \in Timers
                 PROVE  /\ argument'[u] \in Begun \cup {NoStart}
                        /\ argument'[u] # NoStart => started[argument'[u]].timer = u
                        /\ argument'[u] <= callback[u].start
      BY <1>1 DEF TimerInv, FieldsAreItsOwn, Begun, NumStarts
    <2>1. CASE u = t
      <3>1. argument'[t] = callback[t].start
        BY <1>1 DEF TimerInv, OsTimerTypeOK
      <3>2. callback[t].start \in Nat
        BY Numbers DEF TimerInv
      <3> QED
        BY <1>2, <2>1, <3>1, <3>2
    <2>2. CASE u # t
      BY <1>1, <2>2 DEF TimerInv, FieldsAreItsOwn, OsTimerTypeOK
    <2> QED
      BY <2>1, <2>2
  <1>6. ClientProgress'
    BY <1>1 DEF TimerInv, ClientProgress, OsTimerTypeOK, Created
  <1>7. Grows
    BY <1>1, <1>2, Numbers DEF TimerInv, OsTimerTypeOK, Grows, NumStarts
  <1> QED
    BY <1>1, <1>3, <1>4, <1>5, <1>6, <1>7, KernelKept DEF TimerInv

\* os_timer_start installs the handler of the timer's signal.
LEMMA InvInstallsHandler ==
  ASSUME OsTimerAssumption, TimerInv, NEW t \in Timers, StartInstallsHandler(t)
  PROVE  TimerInv'
  <1>1. /\ client[t] = "install"
        /\ handled' = handled \cup {signal[t]}
        /\ client' = [client EXCEPT ![t] = "arm"]
        /\ UNCHANGED <<gvOS_currentSignal, gvOS_timers, signal, callback, argument,
                 timeout, started, armed, pending, handler, stopped, fired>>
    BY DEF StartInstallsHandler
  <1>2. signal[t] \in Signals
    BY <1>1 DEF TimerInv, ClientProgress, Created, NoSignal, OsTimerTypeOK, Signals,
                OsTimerAssumption
  <1>3. OsTimerTypeOK'
    BY <1>1, <1>2 DEF TimerInv, OsTimerTypeOK, NumStarts
  <1>4. TableIsUnique'
    BY <1>1 DEF TimerInv, TableIsUnique, Created
  <1>5. FieldsAreItsOwn'
    BY <1>1 DEF TimerInv, FieldsAreItsOwn, Begun, NumStarts
  <1>6. ClientProgress'
    BY <1>1 DEF TimerInv, ClientProgress, OsTimerTypeOK, Created
  <1>7. Grows
    BY <1>1, Numbers DEF TimerInv, Grows, NumStarts
  <1> QED
    BY <1>1, <1>3, <1>4, <1>5, <1>6, <1>7, KernelKept DEF TimerInv

\* os_timer_start arms the timer, or fails to.
LEMMA InvArmsTimer ==
  ASSUME OsTimerAssumption, TimerInv, NEW t \in Timers, StartArmsTimer(t)
  PROVE  TimerInv'
  <1> DEFINE s == signal[t]
             n == IF timeout[t] = 0 THEN NoStart ELSE callback[t].start
  <1>1. /\ client[t] = "arm"
        /\ armed' = [armed EXCEPT ![s] = n]
        /\ pending' \in {pending, [pending EXCEPT ![s] = NoStart]}
        /\ client' = [client EXCEPT ![t] = "idle"]
        /\ UNCHANGED <<gvOS_currentSignal, gvOS_timers, signal, callback, argument,
                       timeout, handled, started, handler, stopped, fired>>
    BY DEF StartArmsTimer, TimerSettime
  <1>2. /\ s \in Signals /\ s \in handled /\ <<s, t>> \in gvOS_timers
        /\ callback[t].start \in Begun /\ callback[t].start # NoStart
        /\ started[callback[t].start].timer = t
        /\ argument[t] = callback[t].start
    BY <1>1 DEF TimerInv, ClientProgress, FieldsAreItsOwn, TableIsUnique, Created,
                NoSignal, OsTimerTypeOK, Signals, OsTimerAssumption
  <1>3. callback[t].start \in Nat /\ callback[t].start \in Starts
    BY <1>2, Numbers DEF TimerInv
  <1>4. MayArm(callback[t].start, s)
    <2>1. callback[t].start <= argument[t]
      BY <1>2, <1>3
    <2> QED
      BY <1>2, <2>1 DEF MayArm
  <1>5. OsTimerTypeOK'
    BY <1>1, <1>2, <1>3 DEF TimerInv, OsTimerTypeOK, NumStarts
  <1>6. TableIsUnique' /\ FieldsAreItsOwn'
    BY <1>1 DEF TimerInv, TableIsUnique, FieldsAreItsOwn, Created, Begun, NumStarts
  <1>7. ClientProgress'
    BY <1>1 DEF TimerInv, ClientProgress, OsTimerTypeOK, Created
  <1>8. \A m, i : MayArm(m, i)' <=> MayArm(m, i)
    BY <1>1 DEF MayArm, Begun, NumStarts
  <1>9. ArmedByStart'
    BY <1>1, <1>2, <1>4, <1>8 DEF TimerInv, ArmedByStart, OsTimerTypeOK
  <1>10. HandlerInv'
    BY <1>1, <1>8 DEF TimerInv, HandlerInv, RunInv, Answers, Begun, NumStarts
  <1> QED
    BY <1>5, <1>6, <1>7, <1>9, <1>10 DEF TimerInv

(***************************************************************************)
(* The kernel and os_timer_stop.                                           *)
(***************************************************************************)

\* Only the kernel's part moves, and what it is at was armed before.
LEMMA ClientsKept ==
  ASSUME TimerInv, UNCHANGED clientVars
  PROVE  /\ TableIsUnique' /\ FieldsAreItsOwn' /\ ClientProgress'
         /\ \A n, s : MayArm(n, s)' <=> MayArm(n, s)
         /\ \A run, s : RunInv(run, s)' <=> RunInv(run, s)
  <1>1. TableIsUnique'
    BY DEF TimerInv, TableIsUnique, clientVars, Created
  <1>2. FieldsAreItsOwn'
    BY DEF TimerInv, FieldsAreItsOwn, clientVars, Begun, NumStarts
  <1>3. ClientProgress'
    BY DEF TimerInv, ClientProgress, clientVars, Created
  <1>4. \A n, s : MayArm(n, s)' <=> MayArm(n, s)
    BY DEF MayArm, clientVars, Begun, NumStarts
  <1>5. \A n, r : Answers(n, r)' <=> Answers(n, r)
    BY DEF Answers, clientVars, Begun, NumStarts
  <1>6. \A run, s : RunInv(run, s)' <=> RunInv(run, s)
    BY <1>4, <1>5 DEF RunInv, clientVars
  <1> QED
    BY <1>1, <1>2, <1>3, <1>4, <1>6

\* An armed timer expires and its signal is pending.
LEMMA InvExpires ==
  ASSUME TimerInv, NEW s \in Signals, TimerExpires(s)
  PROVE  TimerInv'
  <1>1. OsTimerTypeOK'
    BY DEF TimerInv, TimerExpires, clientVars, OsTimerTypeOK, NumStarts
  <1>2. ArmedByStart'
    BY ClientsKept DEF TimerInv, TimerExpires, ArmedByStart, OsTimerTypeOK
  <1>3. HandlerInv'
    BY ClientsKept DEF TimerInv, TimerExpires, HandlerInv
  <1> QED
    BY <1>1, <1>2, <1>3, ClientsKept DEF TimerInv, TimerExpires

\* A pending signal starts a handler in some thread.
LEMMA InvDelivered ==
  ASSUME OsTimerAssumption, TimerInv, NEW h \in Threads, NEW s \in Signals,
         SignalDelivered(h, s)
  PROVE  TimerInv'
  <1>1. /\ UNCHANGED <<clientVars, armed, stopped>>
        /\ pending[s] # NoStart
        /\ pending' = [pending EXCEPT ![s] = NoStart]
        /\ handler' = [handler EXCEPT ![h][s] = [pc |-> "entered", raised |-> pending[s]]]
        /\ fired' = [fired EXCEPT ![pending[s]] =
                       IF @ < FiredLimit(pending[s]) THEN @ + 1 ELSE @]
    BY DEF SignalDelivered
  <1>2. pending[s] \in Starts /\ MayArm(pending[s], s)
    BY <1>1 DEF TimerInv, ArmedByStart, OsTimerTypeOK
  <1>3. OsTimerTypeOK'
    <2>1. [pc |-> "entered", raised |-> pending[s]] \in HandlerStates
      BY <1>2 DEF HandlerStates
    <2>2. fired' \in [Starts -> 0 .. FiredBound]
      <3>1. FiredBound \in Nat /\ FiredLimit(pending[s]) \in 1 .. FiredBound
        BY FiredBoundType
      <3>2. fired[pending[s]] \in 0 .. FiredBound
        BY <1>2 DEF TimerInv, OsTimerTypeOK
      <3>3. (IF fired[pending[s]] < FiredLimit(pending[s])
             THEN fired[pending[s]] + 1 ELSE fired[pending[s]]) \in 0 .. FiredBound
        BY <3>1, <3>2
      <3> QED
        BY <1>1, <1>2, <3>3 DEF TimerInv, OsTimerTypeOK
    <2>3. handler' \in [Threads -> [Signals -> HandlerStates]]
      BY <1>1, <2>1 DEF TimerInv, OsTimerTypeOK
    <2>4. pending' \in [Signals -> Starts \cup {NoStart}]
      BY <1>1 DEF TimerInv, OsTimerTypeOK
    <2> QED
      BY <1>1, <2>2, <2>3, <2>4 DEF TimerInv, OsTimerTypeOK, clientVars, NumStarts
  <1>4. ArmedByStart'
    BY <1>1, ClientsKept DEF TimerInv, ArmedByStart, OsTimerTypeOK
  <1>5. HandlerInv'
    <2> SUFFICES ASSUME NEW g \in Threads, NEW i \in Signals
                 PROVE  RunInv(handler'[g][i], i)
      BY <1>1, ClientsKept DEF HandlerInv
    <2>1. CASE g = h /\ i = s
      BY <1>1, <1>2, <2>1 DEF RunInv, TimerInv, OsTimerTypeOK
    <2>2. CASE ~(g = h /\ i = s)
      <3>1. handler'[g][i] = handler[g][i]
        BY <1>1, <2>2 DEF TimerInv, OsTimerTypeOK
      <3> QED
        BY <3>1 DEF TimerInv, HandlerInv
    <2> QED
      BY <2>1, <2>2
  <1> QED
    BY <1>1, <1>3, <1>4, <1>5, ClientsKept DEF TimerInv

\* Disarming a timer.
LEMMA DisarmKept ==
  ASSUME TimerInv, UNCHANGED clientVars, NEW s, TimerSettime(s, NoStart)
  PROVE  /\ armed' \in [Signals -> Starts \cup {NoStart}]
         /\ pending' \in [Signals -> Starts \cup {NoStart}]
         /\ ArmedByStart'
  <1>1. /\ armed' \in [Signals -> Starts \cup {NoStart}]
        /\ pending' \in [Signals -> Starts \cup {NoStart}]
    BY DEF TimerInv, OsTimerTypeOK, TimerSettime
  <1>2. \A i \in Signals : /\ armed'[i] \in {armed[i], NoStart}
                          /\ pending'[i] \in {pending[i], NoStart}
    BY DEF TimerInv, OsTimerTypeOK, TimerSettime
  <1>3. ArmedByStart'
    BY <1>2, ClientsKept DEF TimerInv, ArmedByStart
  <1> QED
    BY <1>1, <1>3

\* os_timer_stop disarms the timer.
LEMMA InvStop ==
  ASSUME OsTimerAssumption, TimerInv, NEW t \in Timers, OsTimerStop(t)
  PROVE  TimerInv'
  <1>1. /\ UNCHANGED <<clientVars, handler, fired>>
        /\ TimerSettime(signal[t], NoStart)
        /\ Created(t)
        /\ stopped' = stopped \cup ({armed[signal[t]]} \ {NoStart})
    BY DEF OsTimerStop
  <1>2. signal[t] \in Signals
    BY <1>1 DEF TimerInv, OsTimerTypeOK, OsTimerAssumption, Created, NoSignal, Signals
  <1>3. OsTimerTypeOK'
    BY <1>1, <1>2, DisarmKept DEF TimerInv, OsTimerTypeOK, clientVars, NumStarts
  <1>4. HandlerInv'
    BY <1>1, ClientsKept DEF TimerInv, HandlerInv
  <1> QED
    BY <1>1, <1>3, <1>4, ClientsKept, DisarmKept DEF TimerInv

(***************************************************************************)
(* os_timer_function.                                                      *)
(***************************************************************************)

\* A step that leaves the handler with what is in order, and the kernel alone or
\* with a timer disarmed.
LEMMA InvGoto ==
  ASSUME TimerInv, NEW h \in Threads, NEW s \in Signals, NEW next \in HandlerStates,
         Goto(h, s, next), RunInv(next, s),
         UNCHANGED <<armed, pending>> \/ \E i \in Nat : TimerSettime(i, NoStart)
  PROVE  TimerInv'
  <1>1. UNCHANGED <<clientVars, stopped, fired>>
    BY DEF Goto
  <1>2. handler' = [handler EXCEPT ![h][s] = next]
    BY DEF Goto
  <1>3. /\ armed' \in [Signals -> Starts \cup {NoStart}]
        /\ pending' \in [Signals -> Starts \cup {NoStart}]
        /\ ArmedByStart'
    <2>1. CASE UNCHANGED <<armed, pending>>
      BY <1>1, <2>1, ClientsKept DEF TimerInv, OsTimerTypeOK, ArmedByStart
    <2>2. CASE \E i \in Nat : TimerSettime(i, NoStart)
      BY <1>1, <2>2, DisarmKept
    <2> QED
      BY <2>1, <2>2
  <1>4. handler' \in [Threads -> [Signals -> HandlerStates]]
    BY <1>2 DEF TimerInv, OsTimerTypeOK
  <1>5. OsTimerTypeOK'
    BY <1>1, <1>3, <1>4 DEF TimerInv, OsTimerTypeOK, clientVars, NumStarts
  <1>6. HandlerInv'
    <2> SUFFICES ASSUME NEW g \in Threads, NEW i \in Signals
                 PROVE  RunInv(handler'[g][i], i)
      BY <1>1, ClientsKept DEF HandlerInv
    <2>1. CASE g = h /\ i = s
      <3>1. handler'[g][i] = next
        BY <1>2, <2>1 DEF TimerInv, OsTimerTypeOK
      <3> QED
        BY <2>1, <3>1
    <2>2. CASE ~(g = h /\ i = s)
      <3>1. handler'[g][i] = handler[g][i]
        BY <1>2, <2>2 DEF TimerInv, OsTimerTypeOK
      <3> QED
        BY <3>1 DEF TimerInv, HandlerInv
    <2> QED
      BY <2>1, <2>2
  <1> QED
    BY <1>1, <1>3, <1>5, <1>6, ClientsKept DEF TimerInv

\* Where a handler is when one of its steps is taken.
LEMMA HandlerRun ==
  ASSUME TimerInv, NEW h \in Threads, NEW s \in Signals
  PROVE  handler[h][s] \in HandlerStates /\ RunInv(handler[h][s], s)
  BY DEF TimerInv, HandlerInv, OsTimerTypeOK

\* A thread in no handler satisfies what is said of handlers.
LEMMA IdleRun ==
  ASSUME NEW s
  PROVE  Idle \in HandlerStates /\ RunInv(Idle, s)
  BY DEF HandlerStates, RunInv, Idle

\* The handler loads the callback of the timer of its signal.
LEMMA InvLoadsCallback ==
  ASSUME OsTimerAssumption, TimerInv, NEW h \in Threads, NEW s \in Signals,
         HandlerLoadsCallback(h, s)
  PROVE  TimerInv'
  <1> DEFINE run == handler[h][s]
  <1>1. run.pc = "entered" /\ UNCHANGED <<armed, pending>>
    BY DEF HandlerLoadsCallback
  <1>2. run.raised \in Starts /\ MayArm(run.raised, s)
    BY <1>1, HandlerRun, HandlerFields DEF RunInv
  <1>3. CASE Goto(h, s, Idle)
    BY <1>1, <1>3, IdleRun, InvGoto
  <1>4. ASSUME NEW t \in Timers, <<s, t>> \in gvOS_timers, callback[t] # NullCallback,
               Goto(h, s, [pc |-> "argument", raised |-> run.raised,
                           timer |-> t, callback |-> callback[t]])
        PROVE  TimerInv'
    <2> DEFINE next == [pc |-> "argument", raised |-> run.raised,
                        timer |-> t, callback |-> callback[t]]
    <2>1. callback[t] \in Callbacks
      BY <1>4 DEF TimerInv, OsTimerTypeOK
    <2>2. next \in HandlerStates
      BY <1>2, <2>1 DEF HandlerStates
    <2>3. started[run.raised].timer = t
      BY <1>2, <1>4, Numbers DEF MayArm, TimerInv, TableIsUnique
    <2>4. Answers(callback[t].start, run.raised)
      <3>1. callback[t].start \in Begun /\ started[callback[t].start].timer = t
        BY <2>1 DEF TimerInv, FieldsAreItsOwn, Callbacks, Starts, NoStart, OsTimerAssumption
      <3>2. run.raised <= argument[t] /\ argument[t] <= callback[t].start
        BY <1>2, <2>3 DEF MayArm, TimerInv, FieldsAreItsOwn
      <3>3. run.raised \in Nat /\ argument[t] \in Nat /\ callback[t].start \in Nat
        BY <1>2, Numbers DEF TimerInv, MayArm
      <3>4. callback[t].start >= run.raised
        BY <3>2, <3>3
      <3> QED
        BY <2>3, <3>1, <3>4 DEF Answers
    <2>5. RunInv(next, s)
      BY <1>2, <2>3, <2>4 DEF RunInv
    <2> QED
      BY <1>1, <1>4, <2>2, <2>5, InvGoto
  <1> QED
    BY <1>3, <1>4 DEF HandlerLoadsCallback

\* The handler loads the argument and calls.
LEMMA InvLoadsArgument ==
  ASSUME OsTimerAssumption, TimerInv, NEW h \in Threads, NEW s \in Signals,
         HandlerLoadsArgument(h, s)
  PROVE  TimerInv'
  <1> DEFINE run == handler[h][s]
             next == [pc |-> "calling", raised |-> run.raised, timer |-> run.timer,
                      callback |-> run.callback, argument |-> argument[run.timer]]
  <1>1. /\ run.pc = "argument" /\ UNCHANGED <<armed, pending>>
        /\ Goto(h, s, next)
    BY DEF HandlerLoadsArgument
  <1>2. /\ run.raised \in Starts /\ run.timer \in Timers /\ run.callback \in Callbacks
        /\ MayArm(run.raised, s)
        /\ run.timer = started[run.raised].timer
        /\ Answers(run.callback.start, run.raised)
    BY <1>1, HandlerRun, HandlerFields DEF RunInv
  <1>3. run.raised <= argument[run.timer]
    BY <1>2 DEF MayArm
  <1>4. /\ run.raised \in Nat /\ run.raised # 0 /\ argument[run.timer] \in Nat
        /\ MaxStarts \in Nat
    BY <1>2, Numbers DEF TimerInv, Starts
  <1>5. argument[run.timer] # NoStart
    BY <1>3, <1>4 DEF NoStart
  <1>6. /\ argument[run.timer] \in Begun
        /\ started[argument[run.timer]].timer = run.timer
    BY <1>2, <1>5 DEF TimerInv, FieldsAreItsOwn
  <1>7. argument[run.timer] \in Starts
    BY <1>6, Numbers DEF TimerInv
  <1>8. next \in HandlerStates
    BY <1>2, <1>7 DEF HandlerStates
  <1>9. Answers(argument[run.timer], run.raised)
    BY <1>2, <1>3, <1>4, <1>6 DEF Answers
  <1>10. RunInv(next, s)
    BY <1>2, <1>9 DEF RunInv
  <1> QED
    BY <1>1, <1>8, <1>10, InvGoto

\* The callback returns whether it wants to be called again.
LEMMA InvCallbackReturns ==
  ASSUME TimerInv, NEW h \in Threads, NEW s \in Signals, CallbackReturns(h, s)
  PROVE  TimerInv'
  <1> DEFINE run == handler[h][s]
             next == [pc |-> "stop", raised |-> run.raised, timer |-> run.timer]
  <1>1. /\ run.pc = "calling" /\ UNCHANGED <<armed, pending>>
        /\ Goto(h, s, IF run.callback.restart THEN Idle ELSE next)
    BY DEF CallbackReturns
  <1>2. /\ run.raised \in Starts /\ run.timer \in Timers
        /\ MayArm(run.raised, s) /\ run.timer = started[run.raised].timer
    BY <1>1, HandlerRun, HandlerFields DEF RunInv
  <1>3. next \in HandlerStates /\ RunInv(next, s)
    BY <1>2 DEF HandlerStates, RunInv
  <1>4. Goto(h, s, Idle) \/ Goto(h, s, next)
    BY <1>1
  <1> QED
    BY <1>1, <1>3, <1>4, IdleRun, InvGoto

\* The handler stops a timer whose callback does not.
LEMMA InvHandlerStops ==
  ASSUME OsTimerAssumption, TimerInv, NEW h \in Threads, NEW s \in Signals,
         HandlerStops(h, s)
  PROVE  TimerInv'
  <1> DEFINE i == signal[handler[h][s].timer]
  <1>1. /\ handler[h][s].pc = "stop"
        /\ TimerSettime(i, NoStart)
        /\ Goto(h, s, Idle)
    BY DEF HandlerStops
  <1>2. i \in Nat
    BY <1>1, HandlerRun, HandlerFields DEF TimerInv, OsTimerTypeOK, OsTimerAssumption
  <1> QED
    BY <1>1, <1>2, IdleRun, InvGoto

(***************************************************************************)
(* The theorems.                                                           *)
(***************************************************************************)

\* The inductive invariant holds in every behaviour.
THEOREM TimerInvInvariant == Spec => []TimerInv
  <1>1. Init => TimerInv
    BY OsTimerAssumption, TimerInvInitially
  <1>2. ASSUME TimerInv, [Next]_osTimerVars
        PROVE  TimerInv'
    <2>1. CASE \E t \in Timers :
                 \/ OsTimerCreate(t) \/ OsTimerStart(t) \/ OsTimerStop(t)
                 \/ \E r \in BOOLEAN, d \in Timeouts : StartStoresCallback(t, r, d)
      BY <1>2, <2>1, OsTimerAssumption, InvCreate, InvStoresCallback,
         InvStoresArgument, InvInstallsHandler, InvArmsTimer, InvStop
      DEF OsTimerStart
    <2>2. CASE \E s \in Signals : TimerExpires(s)
      BY <1>2, <2>2, InvExpires
    <2>3. CASE \E h \in Threads, s \in Signals : SignalDelivered(h, s)
      BY <1>2, <2>3, OsTimerAssumption, InvDelivered
    <2>4. CASE \E h \in Threads, s \in Signals : OsTimerFunction(h, s)
      BY <1>2, <2>4, OsTimerAssumption, InvLoadsCallback, InvLoadsArgument,
         InvCallbackReturns, InvHandlerStops
      DEF OsTimerFunction
    <2>5. CASE UNCHANGED osTimerVars
      <3>1. UNCHANGED clientVars
        BY <2>5 DEF osTimerVars
      <3>2. OsTimerTypeOK' /\ ArmedByStart' /\ HandlerInv'
        BY <1>2, <2>5, <3>1, ClientsKept
        DEF TimerInv, OsTimerTypeOK, ArmedByStart, HandlerInv, osTimerVars, clientVars,
            NumStarts
      <3> QED
        BY <1>2, <3>1, <3>2, ClientsKept DEF TimerInv
    <2> QED
      BY <1>2, <2>1, <2>2, <2>3, <2>4, <2>5 DEF Next
  <1> QED
    BY <1>1, <1>2, PTL DEF Spec

\* Indices stay within the table and the signals, and what handlers carry is of
\* its kind, for any number of timers and threads.
THEOREM TimerTypes == Spec => []OsTimerTypeOK
  <1>1. TimerInv => OsTimerTypeOK
    BY DEF TimerInv
  <1> QED
    BY <1>1, TimerInvInvariant, PTL

\* No expiration finds its signal unhandled, for any number of timers and
\* threads.
THEOREM SignalsHandled == Spec => []SignalsAreHandled
  <1>1. TimerInv => SignalsAreHandled
    BY DEF TimerInv, ArmedByStart, MayArm, SignalsAreHandled
  <1> QED
    BY <1>1, TimerInvInvariant, PTL

\* No handler calls the callback of a start before the one whose expiration it
\* answers, or with such an argument, for any number of timers, threads and starts.
THEOREM CallbacksAreCurrent == Spec => []NoStaleCallback
  <1>1. TimerInv => NoStaleCallback
    <2> SUFFICES ASSUME TimerInv, NEW h \in Threads, NEW s \in Signals,
                        handler[h][s].pc = "calling",
                        NEW n \in {handler[h][s].callback.start, handler[h][s].argument}
                 PROVE  /\ n >= handler[h][s].raised
                        /\ started[n].timer = started[handler[h][s].raised].timer
      BY DEF NoStaleCallback
    <2>1. Answers(n, handler[h][s].raised)
      BY HandlerRun DEF RunInv
    <2> QED
      BY <2>1 DEF Answers
  <1> QED
    BY <1>1, TimerInvInvariant, PTL
================================================================================
