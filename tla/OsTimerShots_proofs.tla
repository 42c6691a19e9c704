--------------------------- MODULE OsTimerShots_proofs ---------------------------
(***************************************************************************)
(* Proof that what a start whose callback asks for no restart raises is    *)
(* delivered a bounded number of times, for any number of timers, signals, *)
(* threads and starts.  What an earlier start raised is not counted.       *)
(*                                                                         *)
(* The kernel timer repeats until a handler stops it, so the deliveries are*)
(* counted against the handlers that run.  While the timer is armed, each  *)
(* expiration that was delivered still has its handler, since a handler    *)
(* that ends has stopped the timer; it holds the timer's signal in its own *)
(* thread, so there are at most as many as threads.  Once the timer is     *)
(* stopped one expiration may be pending, and no start arms it again: nor  *)
(* does anything, if a client has stopped it.                              *)
(***************************************************************************)
EXTENDS OsTimer_proofs

(***************************************************************************)
(* The inductive invariant, beside TimerInv.                               *)
(***************************************************************************)

\* A start is armed on its timer's signal, and raises one signal only.
PlaceInv ==
  /\ \A s \in Signals : armed[s] # NoStart => signal[started[armed[s]].timer] = s
  /\ \A r, s \in Signals :
       pending[s] # NoStart /\ pending[s] \in {armed[r], pending[r]} => r = s

\* No expiration is raised or counted for a start that has not armed its timer.
FreshInv ==
  /\ \A n \in Starts \ Begun : fired[n] = 0
  /\ \A t \in Timers : client[t] # "idle" =>
       /\ fired[callback[t].start] = 0
       /\ \A s \in Signals : callback[t].start \notin {armed[s], pending[s]}

\* A run of os_timer_function holds a callback as it was passed, and not one
\* that is passed later than what the timer holds now.
RestartOK(run) ==
  run.pc \in {"argument", "calling"} =>
    /\ run.callback.restart = started[run.callback.start].restart
    /\ run.callback.start <= callback[run.timer].start

RestartInv ==
  /\ \A t \in Timers : callback[t].start # NoStart =>
       callback[t].restart = started[callback[t].start].restart
  /\ \A h \in Threads, s \in Signals : RestartOK(handler[h][s])

\* The threads that are in the handler of an expiration of a start.
Runs(n, s) == {h \in Threads : handler[h][s] # Idle /\ handler[h][s].raised = n}

\* How often a start whose callback asks for no restart may have fired.
Bounded(n) ==
  /\ \A s \in Signals : armed[s] = n => fired[n] <= Cardinality(Runs(n, s))
  /\ \A s \in Signals : pending[s] = n => fired[n] <= Cardinality(Threads)
  /\ fired[n] <= Cardinality(Threads) + 1

SingleShot(t) == callback[t] # NullCallback /\ ~callback[t].restart

ShotInv == \A t \in Timers : SingleShot(t) => Bounded(callback[t].start)

ShotsInv == PlaceInv /\ FreshInv /\ RestartInv /\ ShotInv

(***************************************************************************)
(* The numbers that are compared.                                          *)
(***************************************************************************)

\* The handlers of an expiration are as many as threads at most.
LEMMA RunsBound ==
  ASSUME OsTimerAssumption, NEW n, NEW s
  PROVE  /\ IsFiniteSet(Runs(n, s))
         /\ Cardinality(Runs(n, s)) \in Nat
         /\ Cardinality(Threads) \in Nat
         /\ Cardinality(Runs(n, s)) <= Cardinality(Threads)
  <1>1. IsFiniteSet(Threads) /\ Runs(n, s) \in SUBSET Threads
    BY DEF OsTimerAssumption, Runs
  <1> QED
    BY <1>1, FS_Subset, FS_CardinalityType

\* And so they are after a step.
LEMMA RunsBoundNext ==
  ASSUME OsTimerAssumption, NEW n, NEW s
  PROVE  IsFiniteSet(Runs(n, s)') /\ Cardinality(Runs(n, s)') \in Nat
  <1>1. IsFiniteSet(Threads) /\ Runs(n, s)' \in SUBSET Threads
    BY DEF OsTimerAssumption, Runs
  <1> QED
    BY <1>1, FS_Subset, FS_CardinalityType

\* What is armed or pending was started, and counted by a number.
LEMMA RaisedNumbers ==
  ASSUME OsTimerAssumption, TimerInv
  PROVE  /\ \A s \in Signals : armed[s] # NoStart =>
              armed[s] \in Begun /\ started[armed[s]].timer \in Timers
         /\ \A s \in Signals : pending[s] # NoStart => pending[s] \in Begun
         /\ \A n \in Starts : fired[n] \in Nat
         /\ Begun \subseteq Starts /\ Begun \subseteq Nat
         /\ \A t \in Timers : callback[t].start \in Begun \cup {NoStart}
         /\ \A t \in Timers : callback[t] # NullCallback =>
              callback[t].start \in Begun /\ callback[t].start # NoStart
  <1>1. Begun \subseteq Starts /\ Begun \subseteq Nat /\ \A n \in Begun : started[n].timer \in Timers
    BY Numbers DEF TimerInv
  <1>2. \A s \in Signals : armed[s] # NoStart => armed[s] \in Begun
    BY DEF TimerInv, ArmedByStart, MayArm
  <1>3. \A s \in Signals : pending[s] # NoStart => pending[s] \in Begun
    BY DEF TimerInv, ArmedByStart, MayArm
  <1>4. \A n \in Starts : fired[n] \in Nat
    BY FiredBoundType DEF TimerInv, OsTimerTypeOK
  <1>5. \A t \in Timers : callback[t].start \in Begun \cup {NoStart}
    BY DEF TimerInv, FieldsAreItsOwn
  <1>6. ASSUME NEW t \in Timers, callback[t] # NullCallback
        PROVE  callback[t].start # NoStart
    <2>1. callback[t] \in Callbacks
      BY <1>6 DEF TimerInv, OsTimerTypeOK
    <2>2. callback[t].start \in Starts
      BY <2>1 DEF Callbacks
    <2> QED
      BY <2>2 DEF Starts, NoStart, OsTimerAssumption
  <1> QED
    BY <1>1, <1>2, <1>3, <1>4, <1>5, <1>6

(***************************************************************************)
(* What a step keeps that raises nothing.                                  *)
(***************************************************************************)

\* Disarming or discarding an expiration keeps where starts are raised.
LEMMA PlaceKept ==
  ASSUME PlaceInv, FreshInv,
         UNCHANGED <<signal, callback, client, started, fired>>,
         \A s \in Signals : armed'[s] \in {armed[s], NoStart},
         \A s \in Signals : pending'[s] \in {pending[s], NoStart},
         \A t \in Timers : client[t] # "idle" => callback[t].start # NoStart
  PROVE  PlaceInv' /\ FreshInv'
  <1>1. PlaceInv'
    BY DEF PlaceInv
  <1>2. FreshInv'
    BY DEF FreshInv, Begun, NumStarts
  <1> QED
    BY <1>1, <1>2

\* If the handlers of what stays armed run on, and nothing fires, a start stays
\* within its bound.
LEMMA BoundedKept ==
  ASSUME OsTimerAssumption, NEW n, n # NoStart, Bounded(n), fired[n] \in Nat,
         UNCHANGED fired,
         \A s \in Signals : armed'[s] \in {armed[s], NoStart},
         \A s \in Signals : pending'[s] \in {pending[s], NoStart},
         \A s \in Signals : armed'[s] = n => Runs(n, s) \subseteq Runs(n, s)'
  PROVE  Bounded(n)'
  <1>1. ASSUME NEW s \in Signals, armed'[s] = n
        PROVE  fired[n] <= Cardinality(Runs(n, s)')
    <2>1. fired[n] <= Cardinality(Runs(n, s))
      BY <1>1 DEF Bounded
    <2>2. Cardinality(Runs(n, s)) <= Cardinality(Runs(n, s)')
      BY <1>1, RunsBoundNext, FS_Subset
    <2> QED
      BY <2>1, <2>2, RunsBound, RunsBoundNext
  <1> QED
    BY <1>1 DEF Bounded

\* A step of the clients that arms nothing: what a timer holds stays in bounds.
LEMMA ShotKept ==
  ASSUME OsTimerAssumption, TimerInv, ShotInv,
         UNCHANGED <<callback, fired, handler>>,
         \A s \in Signals : armed'[s] \in {armed[s], NoStart},
         \A s \in Signals : pending'[s] \in {pending[s], NoStart}
  PROVE  ShotInv'
  <1> SUFFICES ASSUME NEW t \in Timers, SingleShot(t)'
               PROVE  Bounded(callback[t].start)'
    BY DEF ShotInv
  <1>1. PICK n \in Starts : n = callback[t].start /\ n # NoStart /\ Bounded(n)
    BY RaisedNumbers DEF SingleShot, ShotInv
  <1>2. \A s \in Signals : Runs(n, s) \subseteq Runs(n, s)'
    BY DEF Runs
  <1>3. Bounded(n)'
    BY <1>1, <1>2, RaisedNumbers, BoundedKept
  <1>4. callback'[t].start = n
    BY <1>1
  <1> QED
    BY <1>3, <1>4 DEF Bounded, Runs

(***************************************************************************)
(* The clients.                                                            *)
(***************************************************************************)

\* A timer that is created again is armed nowhere, so that the new signal is
\* not where it was armed before.
LEMMA ShotsCreate ==
  ASSUME OsTimerAssumption, TimerInv, ShotsInv, NEW t \in Timers, OsTimerCreate(t)
  PROVE  ShotsInv'
  <1>1. /\ Created(t) => armed[signal[t]] = NoStart
        /\ signal' = [signal EXCEPT ![t] = gvOS_currentSignal]
        /\ UNCHANGED <<callback, client, started, armed, pending, handler, fired>>
    BY DEF OsTimerCreate
  <1>2. ASSUME NEW s \in Signals, armed[s] # NoStart
        PROVE  signal'[started[armed[s]].timer] = s
    <2>1. started[armed[s]].timer \in Timers /\ signal[started[armed[s]].timer] = s
      BY <1>2, RaisedNumbers DEF ShotsInv, PlaceInv
    <2>2. s # NoSignal
      BY DEF Signals, NoSignal, OsTimerAssumption
    <2>3. started[armed[s]].timer # t
      BY <1>1, <1>2, <2>1, <2>2 DEF Created
    <2> QED
      BY <1>1, <2>1, <2>3 DEF TimerInv, OsTimerTypeOK
  <1>3. PlaceInv'
    BY <1>1, <1>2 DEF ShotsInv, PlaceInv
  <1>4. FreshInv'
    BY <1>1 DEF ShotsInv, FreshInv, Begun, NumStarts
  <1>5. RestartInv'
    BY <1>1 DEF ShotsInv, RestartInv, RestartOK
  <1>6. ShotInv'
    BY <1>1, ShotKept DEF ShotsInv
  <1> QED
    BY <1>3, <1>4, <1>5, <1>6 DEF ShotsInv

\* The start that begins has raised nothing, and what the timer held before is
\* no longer counted.
LEMMA ShotsStoresCallback ==
  ASSUME OsTimerAssumption, TimerInv, ShotsInv, NEW t \in Timers, NEW r \in BOOLEAN,
         NEW d \in Timeouts, StartStoresCallback(t, r, d)
  PROVE  ShotsInv'
  <1> DEFINE n == NumStarts + 1
  <1>1. /\ NumStarts < MaxStarts
        /\ started' = [m \in 1 .. n |->
             IF m = n THEN [timer |-> t, restart |-> r] ELSE started[m]]
        /\ callback' = [callback EXCEPT ![t] = [start |-> n, restart |-> r]]
        /\ client' = [client EXCEPT ![t] = "argument"]
        /\ UNCHANGED <<signal, armed, pending, handler, fired>>
    BY DEF StartStoresCallback
  <1>2. NumStarts \in Nat /\ n \in Starts /\ n \notin Begun /\ n # NoStart
    BY <1>1, Numbers DEF TimerInv, Starts, Begun, NoStart
  <1>3. /\ Begun \subseteq Begun' /\ started'[n] = [timer |-> t, restart |-> r]
        /\ \A m \in Begun : started'[m] = started[m] /\ m \in Nat /\ m < n
    <2>1. DOMAIN started' = 1 .. n
      BY <1>1
    <2>2. NumStarts' = n
      BY <1>2, <2>1, FS_Interval DEF NumStarts
    <2> QED
      BY <1>1, <1>2, <2>2 DEF Begun
  <1>4. /\ callback'[t] = [start |-> n, restart |-> r]
        /\ \A u \in Timers : u # t => callback'[u] = callback[u] /\ client'[u] = client[u]
    BY <1>1 DEF TimerInv, OsTimerTypeOK
  <1> HIDE DEF n
  <1>5. fired[n] = 0 /\ \A s \in Signals : armed[s] # n /\ pending[s] # n
    BY <1>2, RaisedNumbers DEF ShotsInv, FreshInv
  <1>6. PlaceInv'
    <2>1. \A s \in Signals : armed[s] # NoStart => started'[armed[s]] = started[armed[s]]
      BY <1>3, RaisedNumbers
    <2>2. \A s \in Signals : armed'[s] # NoStart => signal'[started'[armed'[s]].timer] = s
      BY <1>1, <2>1 DEF ShotsInv, PlaceInv
    <2>3. \A m, s \in Signals :
            pending'[s] # NoStart /\ pending'[s] \in {armed'[m], pending'[m]} => m = s
      BY <1>1 DEF ShotsInv, PlaceInv
    <2> QED
      BY <2>2, <2>3 DEF PlaceInv
  <1>7. FreshInv'
    <2>1. \A m \in Starts \ Begun' : fired'[m] = 0
      BY <1>1, <1>3 DEF ShotsInv, FreshInv
    <2>2. ASSUME NEW u \in Timers, client'[u] # "idle"
          PROVE  /\ fired'[callback'[u].start] = 0
                 /\ \A s \in Signals : callback'[u].start \notin {armed'[s], pending'[s]}
      BY <1>1, <1>4, <1>5, <2>2 DEF ShotsInv, FreshInv
    <2> QED
      BY <2>1, <2>2 DEF FreshInv
  <1>8. RestartInv'
    <2>1. ASSUME NEW u \in Timers, callback'[u].start # NoStart
          PROVE  callback'[u].restart = started'[callback'[u].start].restart
      <3>1. CASE u = t
        BY <1>3, <1>4, <3>1
      <3>2. CASE u # t
        BY <1>3, <1>4, <2>1, <3>2, RaisedNumbers DEF ShotsInv, RestartInv
      <3> QED
        BY <3>1, <3>2
    <2>2. ASSUME NEW h \in Threads, NEW s \in Signals,
                 handler[h][s].pc \in {"argument", "calling"}
          PROVE  LET run == handler[h][s]
                 IN  /\ run.callback.restart = started'[run.callback.start].restart
                     /\ run.callback.start <= callback'[run.timer].start
      <3> DEFINE run == handler[h][s]
      <3>1. RestartOK(run) /\ run.callback.start \in Begun /\ run.timer \in Timers
        BY <2>2, HandlerRun, HandlerFields DEF ShotsInv, RestartInv, RunInv, Answers
      <3>2. callback'[run.timer].start = n \/ callback'[run.timer].start = callback[run.timer].start
        BY <1>4, <3>1
      <3>3. run.callback.start < n /\ run.callback.start \in Nat /\ n \in Nat
        BY <1>2, <1>3, <3>1 DEF Starts
      <3>4. /\ run.callback.restart = started[run.callback.start].restart
            /\ run.callback.start <= callback[run.timer].start
        BY <2>2, <3>1 DEF RestartOK
      <3> QED
        BY <1>3, <3>1, <3>2, <3>3, <3>4
    <2> QED
      BY <1>1, <2>1, <2>2 DEF RestartInv, RestartOK
  <1>9. ShotInv'
    <2> SUFFICES ASSUME NEW u \in Timers, SingleShot(u)'
                 PROVE  Bounded(callback[u].start)'
      BY DEF ShotInv
    <2>1. CASE u = t
      BY <1>1, <1>4, <1>5, <2>1, RunsBound DEF Bounded
    <2>2. CASE u # t
      BY <1>1, <1>4, <2>2 DEF ShotsInv, ShotInv, SingleShot, Bounded, Runs
    <2> QED
      BY <2>1, <2>2
  <1> QED
    BY <1>6, <1>7, <1>8, <1>9 DEF ShotsInv

\* The steps of os_timer_start that touch no kernel timer.
LEMMA ShotsStarts ==
  ASSUME OsTimerAssumption, TimerInv, ShotsInv, NEW t \in Timers,
         StartStoresArgument(t) \/ StartInstallsHandler(t)
  PROVE  ShotsInv'
  <1>1. /\ UNCHANGED <<signal, callback, started, armed, pending, handler, fired>>
        /\ client[t] # "idle" /\ \E at : client' = [client EXCEPT ![t] = at]
    BY DEF StartStoresArgument, StartInstallsHandler
  <1>2. \A u \in Timers : client'[u] # "idle" => client[u] # "idle"
    BY <1>1 DEF TimerInv, OsTimerTypeOK
  <1>3. PlaceInv' /\ RestartInv'
    BY <1>1 DEF ShotsInv, PlaceInv, RestartInv, RestartOK
  <1>4. FreshInv'
    BY <1>1, <1>2 DEF ShotsInv, FreshInv, Begun, NumStarts
  <1>5. ShotInv'
    BY <1>1, ShotKept DEF ShotsInv
  <1> QED
    BY <1>3, <1>4, <1>5 DEF ShotsInv

\* The start that arms the timer has not fired, and is raised nowhere else.
LEMMA ShotsArmsTimer ==
  ASSUME OsTimerAssumption, TimerInv, ShotsInv, NEW t \in Timers, StartArmsTimer(t)
  PROVE  ShotsInv'
  <1>1. PICK i \in Signals, n \in Starts : i = signal[t] /\ n = callback[t].start
    <2>1. Created(t) /\ callback[t].start # NoStart
      BY DEF StartArmsTimer, TimerInv, ClientProgress
    <2>2. signal[t] \in Signals
      BY <2>1 DEF TimerInv, OsTimerTypeOK, OsTimerAssumption, Created, NoSignal, Signals
    <2>3. callback[t].start \in Starts
      BY <2>1, RaisedNumbers
    <2> QED
      BY <2>2, <2>3
  <1>2. /\ client[t] = "arm"
        /\ armed' = [armed EXCEPT ![i] = IF timeout[t] = 0 THEN NoStart ELSE n]
        /\ pending' \in {pending, [pending EXCEPT ![i] = NoStart]}
        /\ client' = [client EXCEPT ![t] = "idle"]
        /\ UNCHANGED <<signal, callback, started, handler, fired>>
    BY <1>1 DEF StartArmsTimer, TimerSettime
  <1>3. /\ fired[n] = 0 /\ n # NoStart /\ started[n].timer = t
        /\ \A s \in Signals : n \notin {armed[s], pending[s]}
    BY <1>1, <1>2 DEF ShotsInv, FreshInv, TimerInv, ClientProgress, FieldsAreItsOwn
  <1>4. \A s \in Signals : /\ armed'[s] \in {armed[s], NoStart} \/ (s = i /\ armed'[s] = n)
                           /\ pending'[s] \in {pending[s], NoStart}
    BY <1>2 DEF TimerInv, OsTimerTypeOK
  <1>5. PlaceInv'
    BY <1>1, <1>2, <1>3, <1>4 DEF ShotsInv, PlaceInv
  <1>6. FreshInv'
    <2>1. ASSUME NEW u \in Timers, client'[u] # "idle"
          PROVE  /\ fired'[callback'[u].start] = 0
                 /\ \A s \in Signals : callback'[u].start \notin {armed'[s], pending'[s]}
      <3>1. u # t /\ client[u] # "idle"
        BY <1>2, <2>1 DEF TimerInv, OsTimerTypeOK
      <3>2. callback[u].start # NoStart /\ callback[u].start # n
        BY <1>1, <1>3, <3>1 DEF TimerInv, ClientProgress, FieldsAreItsOwn
      <3> QED
        BY <1>2, <1>4, <3>1, <3>2 DEF ShotsInv, FreshInv
    <2>2. \A m \in Starts \ Begun' : fired'[m] = 0
      BY <1>2 DEF ShotsInv, FreshInv, Begun, NumStarts
    <2> QED
      BY <2>1, <2>2 DEF FreshInv
  <1>7. RestartInv'
    BY <1>2 DEF ShotsInv, RestartInv, RestartOK
  <1>8. ShotInv'
    <2> SUFFICES ASSUME NEW u \in Timers, SingleShot(u)'
                 PROVE  Bounded(callback[u].start)'
      BY DEF ShotInv
    <2>1. PICK m \in Starts : m = callback[u].start /\ m # NoStart /\ Bounded(m)
      BY <1>2, RaisedNumbers DEF SingleShot, ShotsInv, ShotInv
    <2>2. callback'[u].start = m /\ fired' = fired /\ \A s : Runs(m, s)' = Runs(m, s)
      BY <1>2, <2>1 DEF Runs
    <2>3. ASSUME NEW s \in Signals, armed'[s] = m
          PROVE  fired[m] <= Cardinality(Runs(m, s))
      BY <1>3, <1>4, <2>1, <2>3, RunsBound DEF Bounded
    <2>4. ASSUME NEW s \in Signals, pending'[s] = m
          PROVE  fired[m] <= Cardinality(Threads)
      BY <1>4, <2>1, <2>4 DEF Bounded
    <2>5. fired[m] <= Cardinality(Threads) + 1
      BY <2>1 DEF Bounded
    <2> QED
      BY <2>2, <2>3, <2>4, <2>5 DEF Bounded
  <1> QED
    BY <1>5, <1>6, <1>7, <1>8 DEF ShotsInv

\* os_timer_stop disarms.
LEMMA ShotsStop ==
  ASSUME OsTimerAssumption, TimerInv, ShotsInv, NEW t \in Timers, OsTimerStop(t)
  PROVE  ShotsInv'
  <1>1. UNCHANGED <<signal, callback, client, started, fired, handler>>
    BY DEF OsTimerStop, clientVars
  <1>2. \A s \in Signals : /\ armed'[s] \in {armed[s], NoStart}
                           /\ pending'[s] \in {pending[s], NoStart}
    BY DEF OsTimerStop, TimerSettime, TimerInv, OsTimerTypeOK
  <1>3. \A u \in Timers : client[u] # "idle" => callback[u].start # NoStart
    BY DEF TimerInv, ClientProgress
  <1>4. PlaceInv' /\ FreshInv'
    BY <1>1, <1>2, <1>3, PlaceKept DEF ShotsInv
  <1>5. RestartInv'
    BY <1>1 DEF ShotsInv, RestartInv, RestartOK
  <1>6. ShotInv'
    BY <1>1, <1>2, ShotKept DEF ShotsInv
  <1> QED
    BY <1>4, <1>5, <1>6 DEF ShotsInv

(***************************************************************************)
(* The kernel.                                                             *)
(***************************************************************************)

\* An armed timer's expirations have handlers still, and leave room for one more.
LEMMA ShotsExpires ==
  ASSUME OsTimerAssumption, TimerInv, ShotsInv, NEW i \in Signals, TimerExpires(i)
  PROVE  ShotsInv'
  <1>1. /\ armed[i] # NoStart /\ pending' = [pending EXCEPT ![i] = armed[i]]
        /\ UNCHANGED <<signal, callback, client, started, armed, fired, handler>>
    BY DEF TimerExpires, clientVars
  <1>2. \A s \in Signals : pending'[s] = IF s = i THEN armed[i] ELSE pending[s]
    BY <1>1 DEF TimerInv, OsTimerTypeOK
  <1>3. PlaceInv'
    BY <1>1, <1>2 DEF ShotsInv, PlaceInv
  <1>4. FreshInv'
    BY <1>1, <1>2 DEF ShotsInv, FreshInv, Begun, NumStarts
  <1>5. RestartInv'
    BY <1>1 DEF ShotsInv, RestartInv, RestartOK
  <1>6. ShotInv'
    <2> SUFFICES ASSUME NEW u \in Timers, SingleShot(u)'
                 PROVE  Bounded(callback[u].start)'
      BY DEF ShotInv
    <2>1. PICK m \in Starts : m = callback[u].start /\ m # NoStart /\ Bounded(m)
      BY <1>1, RaisedNumbers DEF SingleShot, ShotsInv, ShotInv
    <2>2. callback'[u].start = m /\ fired' = fired /\ \A s : Runs(m, s)' = Runs(m, s)
      BY <1>1, <2>1 DEF Runs
    <2>3. fired[m] \in Nat
      BY RaisedNumbers
    <2>4. ASSUME NEW s \in Signals, pending'[s] = m
          PROVE  fired[m] <= Cardinality(Threads)
      <3>1. CASE pending[s] = m
        BY <2>1, <3>1 DEF Bounded
      <3>2. CASE s = i /\ armed[i] = m
        BY <2>1, <2>3, <3>2, RunsBound DEF Bounded
      <3> QED
        BY <1>2, <2>4, <3>1, <3>2
    <2> QED
      BY <1>1, <2>1, <2>2, <2>4 DEF Bounded
  <1> QED
    BY <1>3, <1>4, <1>5, <1>6 DEF ShotsInv

\* A delivery counts one more, and one more thread is in the handler: it was in
\* none of this signal.
LEMMA ShotsDelivered ==
  ASSUME OsTimerAssumption, TimerInv, ShotsInv, NEW g \in Threads, NEW i \in Signals,
         SignalDelivered(g, i)
  PROVE  ShotsInv'
  <1>1. /\ pending[i] # NoStart /\ handler[g][i] = Idle
        /\ pending' = [pending EXCEPT ![i] = NoStart]
        /\ handler' = [handler EXCEPT ![g][i] = [pc |-> "entered", raised |-> pending[i]]]
        /\ fired' = [fired EXCEPT ![pending[i]] =
                       IF @ < FiredLimit(pending[i]) THEN @ + 1 ELSE @]
        /\ UNCHANGED <<signal, callback, client, started, armed>>
    BY DEF SignalDelivered, clientVars
  <1>2. PICK e \in Starts : e = pending[i] /\ e \in Begun /\ e # NoStart
    BY <1>1, RaisedNumbers
  <1>3. /\ \A m \in Starts : m # e => fired'[m] = fired[m]
        /\ fired'[e] \in {fired[e], fired[e] + 1}
    BY <1>1, <1>2 DEF TimerInv, OsTimerTypeOK
  <1>4. \A s \in Signals : pending'[s] = IF s = i THEN NoStart ELSE pending[s]
    BY <1>1 DEF TimerInv, OsTimerTypeOK
  <1>5. /\ handler'[g][i] = [pc |-> "entered", raised |-> e]
        /\ \A h \in Threads, s \in Signals :
             ~(h = g /\ s = i) => handler'[h][s] = handler[h][s]
    BY <1>1, <1>2 DEF TimerInv, OsTimerTypeOK
  <1>6. PlaceInv'
    BY <1>1, <1>4 DEF ShotsInv, PlaceInv
  <1>7. FreshInv'
    <2>1. \A m \in Starts \ Begun' : fired'[m] = 0
      BY <1>1, <1>2, <1>3 DEF ShotsInv, FreshInv, Begun, NumStarts
    <2>2. ASSUME NEW u \in Timers, client'[u] # "idle"
          PROVE  /\ fired'[callback'[u].start] = 0
                 /\ \A s \in Signals : callback'[u].start \notin {armed'[s], pending'[s]}
      <3>1. callback[u].start # e /\ callback[u].start \in Starts /\ callback[u].start # NoStart
        BY <1>1, <1>2, <2>2, RaisedNumbers DEF ShotsInv, FreshInv, TimerInv, ClientProgress
      <3> QED
        BY <1>1, <1>3, <1>4, <2>2, <3>1 DEF ShotsInv, FreshInv
    <2> QED
      BY <2>1, <2>2 DEF FreshInv
  <1>8. RestartInv'
    <2>1. ASSUME NEW h \in Threads, NEW s \in Signals
          PROVE  RestartOK(handler'[h][s])
      BY <1>5 DEF ShotsInv, RestartInv, RestartOK
    <2>2. \A t \in Timers : callback'[t].start # NoStart =>
            callback'[t].restart = started'[callback'[t].start].restart
      BY <1>1 DEF ShotsInv, RestartInv
    <2>3. \A run : RestartOK(run)' <=> RestartOK(run)
      BY <1>1 DEF RestartOK
    <2> QED
      BY <2>1, <2>2, <2>3 DEF RestartInv
  <1>9. ShotInv'
    <2> SUFFICES ASSUME NEW u \in Timers, SingleShot(u)'
                 PROVE  Bounded(callback[u].start)'
      BY DEF ShotInv
    <2>1. PICK m \in Starts : m = callback[u].start /\ m # NoStart /\ Bounded(m)
      BY <1>1, RaisedNumbers DEF SingleShot, ShotsInv, ShotInv
    <2>2. callback'[u].start = m /\ fired[m] \in Nat
      BY <1>1, <2>1, RaisedNumbers
    <2>3. \A s \in Signals : Runs(m, s) \subseteq Runs(m, s)'
      BY <1>1, <1>5 DEF Runs
    <2>4. CASE m # e
      <3>1. ASSUME NEW s \in Signals, armed'[s] = m
            PROVE  fired[m] <= Cardinality(Runs(m, s)')
        <4>1. fired[m] <= Cardinality(Runs(m, s))
          BY <1>1, <2>1, <3>1 DEF Bounded
        <4>2. Cardinality(Runs(m, s)) <= Cardinality(Runs(m, s)')
          BY <2>3, RunsBoundNext, FS_Subset
        <4> QED
          BY <2>2, <4>1, <4>2, RunsBound, RunsBoundNext
      <3>2. fired'[m] = fired[m]
        BY <1>3, <2>4
      <3>3. ASSUME NEW s \in Signals, pending'[s] = m
            PROVE  fired[m] <= Cardinality(Threads)
        BY <1>4, <2>1, <3>3 DEF Bounded
      <3>4. fired[m] <= Cardinality(Threads) + 1
        BY <2>1 DEF Bounded
      <3> QED
        BY <2>2, <3>1, <3>2, <3>3, <3>4 DEF Bounded
    <2>5. CASE m = e
      <3>1. fired[m] <= Cardinality(Threads) /\ fired'[m] \in {fired[m], fired[m] + 1}
        BY <1>2, <1>3, <2>1, <2>5 DEF Bounded
      <3>2. fired'[m] <= Cardinality(Threads) + 1
        BY <2>2, <3>1, RunsBound
      <3>3. \A s \in Signals : pending'[s] # m
        BY <1>2, <1>4, <2>1, <2>5 DEF ShotsInv, PlaceInv
      <3>4. ASSUME NEW s \in Signals, armed'[s] = m
            PROVE  fired'[m] <= Cardinality(Runs(m, s)')
        <4>1. s = i
          BY <1>1, <1>2, <2>5, <3>4 DEF ShotsInv, PlaceInv
        <4>2. fired[m] <= Cardinality(Runs(m, s))
          BY <1>1, <2>1, <3>4 DEF Bounded
        <4>3. g \notin Runs(m, s)
          BY <1>1, <4>1 DEF Runs
        <4>4. Runs(m, s) \cup {g} \in SUBSET (Runs(m, s)')
          BY <1>5, <2>3, <2>5, <4>1 DEF Runs, Idle
        <4>5. Cardinality(Runs(m, s) \cup {g}) = Cardinality(Runs(m, s)) + 1
          BY <4>3, RunsBound, FS_AddElement
        <4>6. Cardinality(Runs(m, s) \cup {g}) <= Cardinality(Runs(m, s)')
          BY <4>4, RunsBoundNext, FS_Subset
        <4> QED
          BY <2>2, <3>1, <4>2, <4>5, <4>6, RunsBound, RunsBoundNext
      <3> QED
        BY <2>2, <3>2, <3>3, <3>4 DEF Bounded
    <2> QED
      BY <2>4, <2>5
  <1> QED
    BY <1>6, <1>7, <1>8, <1>9 DEF ShotsInv

(***************************************************************************)
(* os_timer_function.                                                      *)
(***************************************************************************)

\* A handler that goes on, or ends when its start is armed no more.
LEMMA ShotsGoto ==
  ASSUME OsTimerAssumption, TimerInv, ShotsInv, NEW g \in Threads, NEW i \in Signals,
         NEW next, Goto(g, i, next), RestartOK(next), handler[g][i].pc # "idle",
         \A s \in Signals : armed'[s] \in {armed[s], NoStart},
         \A s \in Signals : pending'[s] \in {pending[s], NoStart},
         \/ next # Idle /\ next.raised = handler[g][i].raised
         \/ \A t \in Timers : SingleShot(t) /\ callback[t].start = handler[g][i].raised
               => armed'[i] # handler[g][i].raised
  PROVE  ShotsInv'
  <1>1. /\ UNCHANGED <<signal, callback, client, started, fired>>
        /\ handler' = [handler EXCEPT ![g][i] = next]
    BY DEF Goto, clientVars
  <1>2. /\ handler'[g][i] = next
        /\ \A h \in Threads, s \in Signals :
             ~(h = g /\ s = i) => handler'[h][s] = handler[h][s]
    BY <1>1 DEF TimerInv, OsTimerTypeOK
  <1>3. \A u \in Timers : client[u] # "idle" => callback[u].start # NoStart
    BY DEF TimerInv, ClientProgress
  <1>4. PlaceInv' /\ FreshInv'
    BY <1>1, <1>3, PlaceKept DEF ShotsInv
  <1>5. RestartInv'
    <2>1. ASSUME NEW h \in Threads, NEW s \in Signals
          PROVE  RestartOK(handler'[h][s])
      BY <1>2 DEF ShotsInv, RestartInv
    <2>2. \A t \in Timers : callback'[t].start # NoStart =>
            callback'[t].restart = started'[callback'[t].start].restart
      BY <1>1 DEF ShotsInv, RestartInv
    <2>3. \A run : RestartOK(run)' <=> RestartOK(run)
      BY <1>1 DEF RestartOK
    <2> QED
      BY <2>1, <2>2, <2>3 DEF RestartInv
  <1>6. ShotInv'
    <2> SUFFICES ASSUME NEW t \in Timers, SingleShot(t)'
                 PROVE  Bounded(callback[t].start)'
      BY DEF ShotInv
    <2>1. PICK n \in Starts : n = callback[t].start /\ n # NoStart /\ Bounded(n)
      BY <1>1, RaisedNumbers DEF SingleShot, ShotsInv, ShotInv
    <2>2. SingleShot(t) /\ callback'[t].start = n
      BY <1>1, <2>1 DEF SingleShot
    <2>3. \A s \in Signals : armed'[s] = n => Runs(n, s) \subseteq Runs(n, s)'
      BY <1>2, <2>1, <2>2 DEF Runs
    <2>4. Bounded(n)'
      BY <1>1, <2>1, <2>3, RaisedNumbers, BoundedKept
    <2> QED
      BY <2>2, <2>4 DEF Bounded, Runs
  <1> QED
    BY <1>4, <1>5, <1>6 DEF ShotsInv

\* The handler finds a callback: its timer was started.
LEMMA ShotsLoadsCallback ==
  ASSUME OsTimerAssumption, TimerInv, ShotsInv, NEW g \in Threads, NEW i \in Signals,
         HandlerLoadsCallback(g, i)
  PROVE  ShotsInv'
  <1> DEFINE run == handler[g][i]
  <1>1. run.pc = "entered" /\ UNCHANGED <<armed, pending>>
    BY DEF HandlerLoadsCallback
  <1>2. MayArm(run.raised, i)
    BY <1>1, HandlerRun DEF RunInv
  <1>3. PICK own \in Timers : <<i, own>> \in gvOS_timers /\ callback[own] # NullCallback
    <2> DEFINE t == started[run.raised].timer
    <2>1. t \in Timers /\ <<i, t>> \in gvOS_timers /\ run.raised <= argument[t]
      BY <1>2, Numbers DEF MayArm, TimerInv
    <2> HIDE DEF t
    <2>2. argument[t] <= callback[t].start
      BY <2>1 DEF TimerInv, FieldsAreItsOwn
    <2>3. argument[t] \in Nat /\ callback[t].start \in Nat
      BY <2>1, Numbers DEF TimerInv
    <2>4. run.raised \in Begun
      BY <1>2 DEF MayArm
    <2>5. NumStarts \in Nat
      BY Numbers DEF TimerInv
    <2>6. run.raised \in Nat /\ run.raised > 0
      BY <2>4, <2>5 DEF Begun
    <2>7. callback[t].start # NoStart
      BY <2>1, <2>2, <2>3, <2>6 DEF NoStart
    <2> QED
      BY <2>1, <2>7 DEF NullCallback
  <1>4. PICK t \in Timers :
          Goto(g, i, [pc |-> "argument", raised |-> run.raised, timer |-> t,
                      callback |-> callback[t]]) /\ callback[t] # NullCallback
    BY <1>3 DEF HandlerLoadsCallback
  <1> DEFINE next == [pc |-> "argument", raised |-> run.raised, timer |-> t,
                      callback |-> callback[t]]
  <1>5. RestartOK(next)
    BY <1>4, RaisedNumbers DEF ShotsInv, RestartInv, RestartOK
  <1>6. next # Idle /\ next.raised = run.raised
    BY DEF Idle
  <1> HIDE DEF next
  <1>7. Goto(g, i, next)
    BY <1>4 DEF next
  <1> QED
    BY <1>1, <1>5, <1>6, <1>7, ShotsGoto

\* The handler loads the argument and goes on.
LEMMA ShotsLoadsArgument ==
  ASSUME OsTimerAssumption, TimerInv, ShotsInv, NEW g \in Threads, NEW i \in Signals,
         HandlerLoadsArgument(g, i)
  PROVE  ShotsInv'
  <1> DEFINE run == handler[g][i]
             next == [pc |-> "calling", raised |-> run.raised, timer |-> run.timer,
                      callback |-> run.callback, argument |-> argument[run.timer]]
  <1>1. /\ run.pc = "argument" /\ UNCHANGED <<armed, pending>>
        /\ Goto(g, i, next)
    BY DEF HandlerLoadsArgument
  <1>2. RestartOK(next)
    BY <1>1 DEF ShotsInv, RestartInv, RestartOK
  <1>3. next # Idle /\ next.raised = run.raised
    BY DEF Idle
  <1> HIDE DEF next
  <1> QED
    BY <1>1, <1>2, <1>3, ShotsGoto

\* A callback that asks for no restart leads to os_timer_stop; one that asks for
\* it is not of a start that is to fire once.
LEMMA ShotsCallbackReturns ==
  ASSUME OsTimerAssumption, TimerInv, ShotsInv, NEW g \in Threads, NEW i \in Signals,
         CallbackReturns(g, i)
  PROVE  ShotsInv'
  <1> DEFINE run == handler[g][i]
             next == [pc |-> "stop", raised |-> run.raised, timer |-> run.timer]
  <1>1. /\ run.pc = "calling" /\ UNCHANGED <<armed, pending>>
        /\ Goto(g, i, IF run.callback.restart THEN Idle ELSE next)
    BY DEF CallbackReturns
  <1>2. CASE ~run.callback.restart
    <2>1. RestartOK(next) /\ next # Idle /\ next.raised = run.raised
      BY DEF RestartOK, Idle
    <2>2. Goto(g, i, next)
      BY <1>1, <1>2
    <2> HIDE DEF next
    <2> QED
      BY <1>1, <2>1, <2>2, ShotsGoto
  <1>3. CASE run.callback.restart
    <2>1. ASSUME NEW t \in Timers, SingleShot(t), callback[t].start = run.raised
          PROVE  FALSE
      <3>1. /\ MayArm(run.raised, i) /\ run.timer = started[run.raised].timer
            /\ Answers(run.callback.start, run.raised) /\ RestartOK(run)
        BY <1>1, HandlerRun DEF RunInv, ShotsInv, RestartInv
      <3>2. run.timer = t /\ callback[t].start # NoStart
        BY <2>1, <3>1, RaisedNumbers DEF TimerInv, FieldsAreItsOwn, SingleShot
      <3>3. /\ run.callback.start >= run.raised
            /\ run.callback.start <= run.raised
            /\ run.callback.restart = started[run.callback.start].restart
        BY <1>1, <2>1, <3>1, <3>2 DEF Answers, RestartOK
      <3>4. run.callback.start \in Nat /\ run.raised \in Nat
        BY <3>1, Numbers DEF MayArm, Answers, TimerInv
      <3>5. run.callback.start = run.raised
        BY <3>3, <3>4
      <3>6. callback[t].restart = started[run.raised].restart
        BY <2>1, <3>2 DEF ShotsInv, RestartInv
      <3> QED
        BY <1>3, <2>1, <3>3, <3>5, <3>6 DEF SingleShot
    <2>2. Goto(g, i, Idle) /\ RestartOK(Idle)
      BY <1>1, <1>3 DEF RestartOK, Idle
    <2> QED
      BY <1>1, <2>1, <2>2, ShotsGoto
  <1> QED
    BY <1>2, <1>3

\* The handler ends by stopping the timer, on whose signal alone its start may be
\* armed.
LEMMA ShotsHandlerStops ==
  ASSUME OsTimerAssumption, TimerInv, ShotsInv, NEW g \in Threads, NEW i \in Signals,
         HandlerStops(g, i)
  PROVE  ShotsInv'
  <1> DEFINE run == handler[g][i]
             at == signal[run.timer]
  <1>1. /\ run.pc = "stop" /\ Goto(g, i, Idle)
        /\ armed' = [armed EXCEPT ![at] = NoStart]
        /\ pending' \in {pending, [pending EXCEPT ![at] = NoStart]}
    BY DEF HandlerStops, TimerSettime
  <1>2. \A s \in Signals : /\ armed'[s] = IF s = at THEN NoStart ELSE armed[s]
                           /\ pending'[s] \in {pending[s], NoStart}
    BY <1>1 DEF TimerInv, OsTimerTypeOK
  <1>3. run.timer = started[run.raised].timer /\ run.raised # NoStart
    <2>1. MayArm(run.raised, i) /\ run.timer = started[run.raised].timer
      BY <1>1, HandlerRun DEF RunInv
    <2> QED
      BY <2>1 DEF MayArm, Begun, NoStart
  <1>4. armed'[i] # run.raised
    BY <1>2, <1>3 DEF ShotsInv, PlaceInv
  <1>5. RestartOK(Idle)
    BY DEF RestartOK, Idle
  <1>6. \A s \in Signals : armed'[s] \in {armed[s], NoStart}
    BY <1>2
  <1> QED
    BY <1>1, <1>2, <1>4, <1>5, <1>6, ShotsGoto

(***************************************************************************)
(* What was stopped: a start that is armed on one signal only, and that no *)
(* client is about to arm.                                                 *)
(***************************************************************************)
StoppedInv ==
  \A n \in stopped :
    /\ n \in Begun /\ ~IsArmed(n)
    /\ \A t \in Timers : client[t] # "idle" => callback[t].start # n

\* A step that stops no start, begins none, and arms none but what a client was
\* about to arm.
LEMMA StoppedKept ==
  ASSUME StoppedInv, UNCHANGED stopped, Begun \subseteq Begun',
         \A s \in Signals :
           \/ armed'[s] \in {armed[s], NoStart}
           \/ \E t \in Timers : client[t] # "idle" /\ armed'[s] = callback[t].start,
         \A t \in Timers : client'[t] # "idle" =>
           \/ client[t] # "idle" /\ callback'[t].start = callback[t].start
           \/ callback'[t].start \notin Begun,
         NoStart \notin Begun
  PROVE  StoppedInv'
  BY DEF StoppedInv, IsArmed

\* No later start has the number of one that was stopped.
LEMMA StoppedStarts ==
  ASSUME OsTimerAssumption, TimerInv, StoppedInv, NEW t \in Timers,
         \/ OsTimerCreate(t) \/ OsTimerStart(t)
         \/ \E r \in BOOLEAN, d \in Timeouts : StartStoresCallback(t, r, d)
  PROVE  StoppedInv'
  <1>1. NumStarts \in Nat /\ NoStart \notin Begun
    BY Numbers DEF TimerInv, Begun, NoStart
  <1>2. CASE OsTimerCreate(t)
    <2>1. UNCHANGED <<started, stopped, armed, client, callback>>
      BY <1>2 DEF OsTimerCreate
    <2>2. Begun' = Begun
      BY <2>1 DEF Begun, NumStarts
    <2> QED
      BY <1>1, <2>1, <2>2, StoppedKept
  <1>3. CASE OsTimerStart(t)
    <2>1. /\ UNCHANGED <<started, stopped, callback>>
          /\ client[t] # "idle" /\ \E at : client' = [client EXCEPT ![t] = at]
      BY <1>3 DEF OsTimerStart, StartStoresArgument, StartInstallsHandler, StartArmsTimer
    <2>2. Begun' = Begun /\ \A u \in Timers : client'[u] # "idle" => client[u] # "idle"
      BY <2>1 DEF Begun, NumStarts, TimerInv, OsTimerTypeOK
    <2>3. \A s \in Signals : armed'[s] \in {armed[s], NoStart, callback[t].start}
      BY <1>3 DEF OsTimerStart, StartStoresArgument, StartInstallsHandler, StartArmsTimer,
         TimerSettime, TimerInv, OsTimerTypeOK
    <2> QED
      BY <1>1, <2>1, <2>2, <2>3, StoppedKept
  <1>4. CASE \E r \in BOOLEAN, d \in Timeouts : StartStoresCallback(t, r, d)
    <2> DEFINE n == NumStarts + 1
    <2>1. PICK r \in BOOLEAN :
            /\ started' = [m \in 1 .. n |->
                 IF m = n THEN [timer |-> t, restart |-> r] ELSE started[m]]
            /\ callback' = [callback EXCEPT ![t] = [start |-> n, restart |-> r]]
            /\ client' = [client EXCEPT ![t] = "argument"]
            /\ UNCHANGED <<armed, stopped>>
      BY <1>4 DEF StartStoresCallback
    <2>2. n \in Nat /\ n \notin Begun
      BY <1>1 DEF Begun
    <2>3. Begun \subseteq Begun'
      <3>1. NumStarts' = n
        BY <2>1, <2>2, FS_Interval DEF NumStarts
      <3> QED
        BY <1>1, <3>1 DEF Begun
    <2>4. /\ callback'[t].start = n
          /\ \A u \in Timers : u # t => callback'[u] = callback[u] /\ client'[u] = client[u]
      BY <2>1 DEF TimerInv, OsTimerTypeOK
    <2> HIDE DEF n
    <2> QED
      BY <1>1, <2>1, <2>2, <2>3, <2>4, StoppedKept
  <1> QED
    BY <1>2, <1>3, <1>4

\* What os_timer_stop stops was armed on that signal alone, by a client that has
\* returned.
LEMMA StoppedByClient ==
  ASSUME OsTimerAssumption, TimerInv, ShotsInv, StoppedInv, NEW t \in Timers, OsTimerStop(t)
  PROVE  StoppedInv'
  <1>1. /\ stopped' = stopped \cup ({armed[signal[t]]} \ {NoStart})
        /\ armed' = [armed EXCEPT ![signal[t]] = NoStart]
        /\ Created(t) /\ UNCHANGED <<started, callback, client>>
    BY DEF OsTimerStop, TimerSettime, clientVars
  <1>2. signal[t] \in Signals /\ NoStart \notin Begun
    BY <1>1, Numbers DEF TimerInv, OsTimerTypeOK, OsTimerAssumption, Created, NoSignal, Signals,
       Begun, NoStart
  <1>3. \A s \in Signals : armed'[s] = IF s = signal[t] THEN NoStart ELSE armed[s]
    BY <1>1, <1>2 DEF TimerInv, OsTimerTypeOK
  <1>4. Begun' = Begun
    BY <1>1 DEF Begun, NumStarts
  <1> SUFFICES ASSUME NEW n \in stopped'
               PROVE  /\ n \in Begun /\ ~ \E s \in Signals : armed'[s] = n
                      /\ \A u \in Timers : client[u] # "idle" => callback[u].start # n
    BY <1>1, <1>4 DEF StoppedInv, IsArmed
  <1>5. CASE n \in stopped
    BY <1>2, <1>3, <1>5 DEF StoppedInv, IsArmed
  <1>6. CASE n = armed[signal[t]] /\ n # NoStart
    <2>1. n \in Begun /\ \A u \in Timers : client[u] # "idle" => callback[u].start # n
      BY <1>2, <1>6, RaisedNumbers DEF ShotsInv, FreshInv
    <2>2. \A s \in Signals : armed[s] = n => s = signal[t]
      BY <1>2, <1>6 DEF ShotsInv, PlaceInv
    <2> QED
      BY <1>3, <1>6, <2>1, <2>2
  <1> QED
    BY <1>1, <1>5, <1>6

\* An expiration arms nothing, and a handler disarms at most.
LEMMA StoppedBesideKernel ==
  ASSUME OsTimerAssumption, TimerInv, StoppedInv, NEW s \in Signals,
         \/ TimerExpires(s)
         \/ \E h \in Threads : SignalDelivered(h, s) \/ OsTimerFunction(h, s)
  PROVE  StoppedInv'
  <1>1. UNCHANGED <<started, stopped, callback, client>>
    BY DEF TimerExpires, SignalDelivered, OsTimerFunction, HandlerLoadsCallback,
       HandlerLoadsArgument, CallbackReturns, HandlerStops, Goto, clientVars
  <1>2. \A i \in Signals : armed'[i] \in {armed[i], NoStart}
    BY DEF TimerExpires, SignalDelivered, OsTimerFunction, HandlerLoadsCallback,
       HandlerLoadsArgument, CallbackReturns, HandlerStops, TimerSettime, TimerInv, OsTimerTypeOK
  <1>3. Begun' = Begun /\ NoStart \notin Begun
    BY <1>1, Numbers DEF Begun, NumStarts, TimerInv, NoStart
  <1> QED
    BY <1>1, <1>2, <1>3, StoppedKept

(***************************************************************************)
(* The theorems.                                                           *)
(***************************************************************************)

\* Each delivery of a start that is to fire once has its handler, or is the last.
THEOREM ShotsInvInvariant == Spec => []ShotsInv
  <1>1. Init => ShotsInv
    BY OsTimerAssumption, RunsBound DEF Init, ShotsInv, PlaceInv, FreshInv, RestartInv, RestartOK,
       ShotInv, SingleShot, Bounded, NullCallback, NoStart, Idle
  <1>2. ASSUME TimerInv, ShotsInv, [Next]_osTimerVars
        PROVE  ShotsInv'
    <2>1. CASE UNCHANGED osTimerVars
      BY <1>2, <2>1 DEF osTimerVars, clientVars, ShotsInv, PlaceInv, FreshInv, RestartInv,
         RestartOK, ShotInv, SingleShot, Bounded, Runs, Begun, NumStarts
    <2>2. CASE \E t \in Timers :
                 \/ OsTimerCreate(t) \/ OsTimerStart(t) \/ OsTimerStop(t)
                 \/ \E r \in BOOLEAN, d \in Timeouts : StartStoresCallback(t, r, d)
      BY <1>2, <2>2, OsTimerAssumption, ShotsCreate, ShotsStoresCallback, ShotsStarts,
         ShotsArmsTimer, ShotsStop DEF OsTimerStart
    <2>3. CASE \E s \in Signals : TimerExpires(s)
      BY <1>2, <2>3, OsTimerAssumption, ShotsExpires
    <2>4. CASE \E h \in Threads, s \in Signals : SignalDelivered(h, s)
      BY <1>2, <2>4, OsTimerAssumption, ShotsDelivered
    <2>5. CASE \E h \in Threads, s \in Signals : OsTimerFunction(h, s)
      BY <1>2, <2>5, OsTimerAssumption, ShotsLoadsCallback, ShotsLoadsArgument,
         ShotsCallbackReturns, ShotsHandlerStops DEF OsTimerFunction
    <2> QED
      BY <1>2, <2>1, <2>2, <2>3, <2>4, <2>5 DEF Next
  <1> QED
    BY <1>1, <1>2, TimerInvInvariant, PTL DEF Spec

\* What the start of a timer's callback raised is delivered at most once to each
\* thread and once more, if the callback asks for no restart, for any number of
\* timers, threads and starts, although the kernel timer repeats until a handler
\* has stopped it.
THEOREM SingleShotIsBounded == Spec => []SingleShotBound
  <1>1. ShotsInv => SingleShotBound
    BY DEF ShotsInv, ShotInv, SingleShot, Bounded, SingleShotBound
  <1> QED
    BY <1>1, ShotsInvInvariant, PTL

\* A start that a client has stopped is armed by nothing again, for any number of
\* timers, threads and starts: a handler that is under way disarms at most, and
\* the start that runs has another number.
THEOREM StoppedIsFinal == Spec => []StoppedStaysStopped
  <1>1. Init => StoppedInv
    BY DEF Init, StoppedInv
  <1>2. ASSUME TimerInv, ShotsInv, StoppedInv, [Next]_osTimerVars
        PROVE  StoppedInv'
    <2>1. CASE UNCHANGED osTimerVars
      BY <1>2, <2>1 DEF osTimerVars, clientVars, StoppedInv, IsArmed, Begun, NumStarts
    <2>2. CASE Next
      BY <1>2, <2>2, OsTimerAssumption, StoppedStarts, StoppedByClient, StoppedBesideKernel
         DEF Next
    <2> QED
      BY <1>2, <2>1, <2>2
  <1>3. StoppedInv => StoppedStaysStopped
    BY DEF StoppedInv, StoppedStaysStopped
  <1> QED
    BY <1>1, <1>2, <1>3, TimerInvInvariant, ShotsInvInvariant, PTL DEF Spec
================================================================================
