-------------------------------- MODULE OsTimer --------------------------------
(***************************************************************************)
(* The timers of the operating system layer (os/posix/src/os_timer.c): the *)
(* calls of the clients, the signal handler that runs their callbacks, and *)
(* what the kernel does with an interval timer and its real time signal.   *)
(*                                                                         *)
(* A kernel timer and its signal have the same index, since os_timer_create*)
(* makes one of each.  A signal is taken by any thread that is not already *)
(* in the handler of the same signal, so two expirations of one timer may  *)
(* be handled at once, and the handler runs between any two steps of a     *)
(* client.                                                                 *)
(*                                                                         *)
(* Abstracted: a callback is the number of the os_timer_start that passed  *)
(* it and what it returns; an argument is that number.  Rejected calls     *)
(* change nothing.  A client stops only a timer it created, and does not   *)
(* create one again that it has running; each timer has one client at a    *)
(* time.                                                                   *)
(***************************************************************************)
EXTENDS Naturals, FiniteSets

CONSTANTS
  Timers,       (* the OS_Timer structures                                  *)
  NumSignals,   (* SIGRTMAX - SIGRTMIN + 1                                  *)
  Threads,      (* of the process: those that may take a signal             *)
  Timeouts,     (* clients pass, in ticks                                   *)
  MaxStarts     (* bound: calls of os_timer_start                           *)

OS_MAX_TIMERS == 32

\* Linux has 31 such signals: the table is never too small for them.
ASSUME OsTimerAssumption ==
  /\ NumSignals \in 1 .. OS_MAX_TIMERS
  /\ IsFiniteSet(Threads)
  /\ Timeouts \subseteq Nat
  /\ MaxStarts \in Nat

VARIABLES
  gvOS_currentSignal,
  gvOS_timers,      (* set of <<index, timer>>: the entries that are not NULL *)
  signal,           (* OS_Timer.signal and .timer: the index of both          *)
  callback,         (* OS_Timer.callback                                      *)
  argument,         (* OS_Timer.argument                                      *)
  timeout,          (* OS_Timer.timeout                                       *)
  client,           (* where the client of each timer is in os_timer_start    *)
  handled,          (* signals whose action is os_timer_function              *)
  armed,            (* per kernel timer: the start that armed it              *)
  pending,          (* per signal: the start whose expiration raised it       *)
  handler,          (* per thread and signal: its run of os_timer_function    *)
  started,          (* per start so far: its timer, and what its callback asks *)
  stopped,          (* starts ended by a client's os_timer_stop               *)
  fired             (* how often each start's expirations were delivered      *)

clientVars == <<gvOS_currentSignal, gvOS_timers, signal, callback, argument,
                timeout, client, handled, started>>
osTimerVars == <<clientVars, armed, pending, handler, stopped, fired>>

Signals == 0 .. NumSignals - 1
NoSignal == NumSignals
NoStart == 0
Starts == 1 .. MaxStarts
NullCallback == [start |-> NoStart, restart |-> FALSE]
Callbacks == [start : Starts, restart : BOOLEAN]
Idle == [pc |-> "idle"]

NumStarts == Cardinality(DOMAIN started)

\* Bound: fired counts up to one more than what SingleShotBound allows, and for
\* a callback that asks for restarts whether there was any.
FiredBound == Cardinality(Threads) + 2
FiredLimit(n) == IF started[n].restart THEN 1 ELSE FiredBound

HandlerStates ==
  {Idle}
    \cup [pc : {"entered"}, raised : Starts]
    \cup [pc : {"argument"}, raised : Starts, timer : Timers, callback : Callbacks]
    \cup [pc : {"calling"}, raised : Starts, timer : Timers, callback : Callbacks,
          argument : Starts]
    \cup [pc : {"stop"}, raised : Starts, timer : Timers]

OsTimerTypeOK ==
  /\ gvOS_currentSignal \in 0 .. NumSignals
  /\ gvOS_timers \subseteq (0 .. OS_MAX_TIMERS - 1) \X Timers
  /\ signal \in [Timers -> 0 .. NumSignals]
  /\ callback \in [Timers -> Callbacks \cup {NullCallback}]
  /\ argument \in [Timers -> Starts \cup {NoStart}]
  /\ timeout \in [Timers -> Nat]
  /\ client \in [Timers -> {"idle", "argument", "install", "arm"}]
  /\ handled \subseteq Signals
  /\ armed \in [Signals -> Starts \cup {NoStart}]
  /\ pending \in [Signals -> Starts \cup {NoStart}]
  /\ handler \in [Threads -> [Signals -> HandlerStates]]
  /\ NumStarts \in 0 .. MaxStarts
  /\ started \in [1 .. NumStarts -> [timer : Timers, restart : BOOLEAN]]
  /\ stopped \subseteq Starts
  /\ fired \in [Starts -> 0 .. FiredBound]

Init ==
  /\ gvOS_currentSignal = 0
  /\ gvOS_timers = {}
  /\ signal = [t \in Timers |-> NoSignal]
  /\ callback = [t \in Timers |-> NullCallback]
  /\ argument = [t \in Timers |-> NoStart]
  /\ timeout = [t \in Timers |-> 0]
  /\ client = [t \in Timers |-> "idle"]
  /\ handled = {}
  /\ armed = [s \in Signals |-> NoStart]
  /\ pending = [s \in Signals |-> NoStart]
  /\ handler = [h \in Threads |-> [s \in Signals |-> Idle]]
  /\ started = <<>>
  /\ stopped = {}
  /\ fired = [n \in Starts |-> 0]

Created(t) == signal[t] # NoSignal

(***************************************************************************)
(* The kernel.                                                             *)
(***************************************************************************)

\* timer_settime with a value of 0 disarms.  POSIX leaves open whether it
\* discards an expiration that is pending.
TimerSettime(s, n) ==
  /\ armed' = [armed EXCEPT ![s] = n]
  /\ pending' \in {pending, [pending EXCEPT ![s] = NoStart]}

\* An expiration while the signal is pending is an overrun, and counts nowhere.
TimerExpires(s) ==
  /\ armed[s] # NoStart
  /\ pending[s] = NoStart
  /\ pending' = [pending EXCEPT ![s] = armed[s]]
  /\ UNCHANGED <<clientVars, armed, handler, stopped, fired>>

\* The signal is blocked in a thread that is in its handler.
SignalDelivered(h, s) ==
  /\ pending[s] # NoStart
  /\ handler[h][s] = Idle
  /\ handler' = [handler EXCEPT ![h][s] = [pc |-> "entered", raised |-> pending[s]]]
  /\ fired' = [fired EXCEPT ![pending[s]] =
                 IF @ < FiredLimit(pending[s]) THEN @ + 1 ELSE @]
  /\ pending' = [pending EXCEPT ![s] = NoStart]
  /\ UNCHANGED <<clientVars, armed, stopped>>

(***************************************************************************)
(* os_timer_create.                                                        *)
(***************************************************************************)

\* Mutant of OsTimerCreate: a signal beyond SIGRTMAX is accepted.
OsTimerCreateUnchecked(t) ==
  /\ client[t] = "idle"
  /\ Created(t) => armed[signal[t]] = NoStart
  /\ signal' = [signal EXCEPT ![t] = gvOS_currentSignal]
  /\ gvOS_timers' = gvOS_timers \cup {<<gvOS_currentSignal, t>>}
  /\ gvOS_currentSignal' = gvOS_currentSignal + 1
  /\ UNCHANGED <<callback, argument, timeout, client, handled, started, armed,
                 pending, handler, stopped, fired>>

\* timer_create refuses a signal beyond SIGRTMAX; the test of the index against
\* SIGRTMAX, a signal number, never does.  A timer that is created again leaves
\* its old kernel timer and entry behind.
OsTimerCreate(t) ==
  /\ client[t] = "idle"
  /\ Created(t) => armed[signal[t]] = NoStart
  /\ gvOS_currentSignal \in Signals
  /\ signal' = [signal EXCEPT ![t] = gvOS_currentSignal]
  /\ gvOS_timers' = gvOS_timers \cup {<<gvOS_currentSignal, t>>}
  /\ gvOS_currentSignal' = gvOS_currentSignal + 1
  /\ UNCHANGED <<callback, argument, timeout, client, handled, started, armed,
                 pending, handler, stopped, fired>>

(***************************************************************************)
(* os_timer_start.  The timer may be running: the handler reads callback   *)
(* and argument between any two of these steps.                            *)
(***************************************************************************)
StartStoresCallback(t, restart, ticks) ==
  /\ client[t] = "idle"
  /\ NumStarts < MaxStarts
  /\ LET n == NumStarts + 1
     IN  /\ started' = [m \in 1 .. n |->
              IF m = n THEN [timer |-> t, restart |-> restart] ELSE started[m]]
         /\ callback' = [callback EXCEPT ![t] = [start |-> n, restart |-> restart]]
  /\ timeout' = [timeout EXCEPT ![t] = ticks]
  /\ client' = [client EXCEPT ![t] = "argument"]
  /\ UNCHANGED <<gvOS_currentSignal, gvOS_timers, signal, argument, handled,
                 armed, pending, handler, stopped, fired>>

\* Mutant of StartStoresArgument: the argument of an earlier start is kept.
StartKeepsArgument(t) ==
  /\ client[t] = "argument"
  /\ argument' = IF argument[t] = NoStart
                 THEN [argument EXCEPT ![t] = callback[t].start] ELSE argument
  /\ client' = [client EXCEPT ![t] = IF Created(t) THEN "install" ELSE "idle"]
  /\ UNCHANGED <<gvOS_currentSignal, gvOS_timers, signal, callback, timeout, handled,
                 started, armed, pending, handler, stopped, fired>>

\* Mutant of StartStoresArgument: the handler is installed by the first start
\* of any timer only.
StartInstallsOnce(t) ==
  /\ client[t] = "argument"
  /\ argument' = [argument EXCEPT ![t] = callback[t].start]
  /\ client' = [client EXCEPT ![t] =
       IF ~Created(t) THEN "idle" ELSE IF handled = {} THEN "install" ELSE "arm"]
  /\ UNCHANGED <<gvOS_currentSignal, gvOS_timers, signal, callback, timeout, handled,
                 started, armed, pending, handler, stopped, fired>>

\* A timer that was never created has signal 0, which sigaddset refuses.
StartStoresArgument(t) ==
  /\ client[t] = "argument"
  /\ argument' = [argument EXCEPT ![t] = callback[t].start]
  /\ client' = [client EXCEPT ![t] = IF Created(t) THEN "install" ELSE "idle"]
  /\ UNCHANGED <<gvOS_currentSignal, gvOS_timers, signal, callback, timeout, handled,
                 started, armed, pending, handler, stopped, fired>>

StartInstallsHandler(t) ==
  /\ client[t] = "install"
  /\ handled' = handled \cup {signal[t]}
  /\ client' = [client EXCEPT ![t] = "arm"]
  /\ UNCHANGED <<gvOS_currentSignal, gvOS_timers, signal, callback, argument,
                 timeout, started, armed, pending, handler, stopped, fired>>

\* A timeout of 0 is an it_value of 0.
StartArmsTimer(t) ==
  /\ client[t] = "arm"
  /\ TimerSettime(signal[t], IF timeout[t] = 0 THEN NoStart ELSE callback[t].start)
  /\ client' = [client EXCEPT ![t] = "idle"]
  /\ UNCHANGED <<gvOS_currentSignal, gvOS_timers, signal, callback, argument,
                 timeout, handled, started, handler, stopped, fired>>

OsTimerStart(t) ==
  StartStoresArgument(t) \/ StartInstallsHandler(t) \/ StartArmsTimer(t)

OsTimerStop(t) ==
  /\ client[t] = "idle"
  /\ Created(t)
  /\ TimerSettime(signal[t], NoStart)
  /\ stopped' = stopped \cup ({armed[signal[t]]} \ {NoStart})
  /\ UNCHANGED <<clientVars, handler, fired>>

(***************************************************************************)
(* os_timer_function.                                                      *)
(***************************************************************************)
Goto(h, s, next) ==
  /\ handler' = [handler EXCEPT ![h][s] = next]
  /\ UNCHANGED <<clientVars, stopped, fired>>

\* Mutant of HandlerLoadsCallback: the first entry of the table is not valid.
HandlerIgnoresFirst(h, s) ==
  /\ handler[h][s].pc = "entered"
  /\ \/ \E t \in Timers :
          /\ <<s, t>> \in gvOS_timers /\ s > 0
          /\ callback[t] # NullCallback
          /\ Goto(h, s, [pc |-> "argument", raised |-> handler[h][s].raised,
                         timer |-> t, callback |-> callback[t]])
     \/ /\ ~ \E t \in Timers :
               <<s, t>> \in gvOS_timers /\ s > 0 /\ callback[t] # NullCallback
        /\ Goto(h, s, Idle)
  /\ UNCHANGED <<armed, pending>>

HandlerLoadsCallback(h, s) ==
  /\ handler[h][s].pc = "entered"
  /\ \/ \E t \in Timers :
          /\ <<s, t>> \in gvOS_timers
          /\ callback[t] # NullCallback
          /\ Goto(h, s, [pc |-> "argument", raised |-> handler[h][s].raised,
                         timer |-> t, callback |-> callback[t]])
     \/ /\ ~ \E t \in Timers : <<s, t>> \in gvOS_timers /\ callback[t] # NullCallback
        /\ Goto(h, s, Idle)
  /\ UNCHANGED <<armed, pending>>

HandlerLoadsArgument(h, s) ==
  LET run == handler[h][s]
  IN  /\ run.pc = "argument"
      /\ Goto(h, s, [pc |-> "calling", raised |-> run.raised, timer |-> run.timer,
                     callback |-> run.callback, argument |-> argument[run.timer]])
      /\ UNCHANGED <<armed, pending>>

\* Mutant of CallbackReturns: the timer is stopped where it should restart.
CallbackReturnsInverted(h, s) ==
  LET run == handler[h][s]
  IN  /\ run.pc = "calling"
      /\ Goto(h, s, IF run.callback.restart
                    THEN [pc |-> "stop", raised |-> run.raised, timer |-> run.timer]
                    ELSE Idle)
      /\ UNCHANGED <<armed, pending>>

\* Mutant of CallbackReturns: a restart arms the timer again.
CallbackReturnsArms(h, s) ==
  LET run == handler[h][s]
  IN  /\ run.pc = "calling"
      /\ IF run.callback.restart
         THEN /\ TimerSettime(signal[run.timer], run.raised)
              /\ Goto(h, s, Idle)
         ELSE /\ Goto(h, s, [pc |-> "stop", raised |-> run.raised, timer |-> run.timer])
              /\ UNCHANGED <<armed, pending>>

CallbackReturns(h, s) ==
  LET run == handler[h][s]
  IN  /\ run.pc = "calling"
      /\ Goto(h, s, IF run.callback.restart THEN Idle
                    ELSE [pc |-> "stop", raised |-> run.raised, timer |-> run.timer])
      /\ UNCHANGED <<armed, pending>>

\* Mutant of HandlerStops: the expiration is discarded and the timer goes on.
HandlerDiscards(h, s) ==
  /\ handler[h][s].pc = "stop"
  /\ pending' = [pending EXCEPT ![signal[handler[h][s].timer]] = NoStart]
  /\ Goto(h, s, Idle)
  /\ UNCHANGED armed

\* os_timer_stop of whatever the timer runs by now.
HandlerStops(h, s) ==
  /\ handler[h][s].pc = "stop"
  /\ TimerSettime(signal[handler[h][s].timer], NoStart)
  /\ Goto(h, s, Idle)

OsTimerFunction(h, s) ==
  \/ HandlerLoadsCallback(h, s) \/ HandlerLoadsArgument(h, s)
  \/ CallbackReturns(h, s) \/ HandlerStops(h, s)

Next ==
  \/ \E t \in Timers :
       \/ OsTimerCreate(t)
       \/ \E restart \in BOOLEAN, ticks \in Timeouts :
            StartStoresCallback(t, restart, ticks)
       \/ OsTimerStart(t)
       \/ OsTimerStop(t)
  \/ \E s \in Signals :
       \/ TimerExpires(s)
       \/ \E h \in Threads : SignalDelivered(h, s) \/ OsTimerFunction(h, s)

Spec == Init /\ [][Next]_osTimerVars

\* Armed timers expire, no thread blocks the signals for ever, a callback
\* returns, and a client that is in os_timer_start runs.
Fairness ==
  /\ \A t \in Timers : WF_osTimerVars(OsTimerStart(t))
  /\ \A s \in Signals :
       /\ WF_osTimerVars(TimerExpires(s))
       /\ WF_osTimerVars(\E h \in Threads : SignalDelivered(h, s))
       /\ \A h \in Threads : WF_osTimerVars(OsTimerFunction(h, s))

FairSpec == Spec /\ Fairness

(***************************************************************************)
(* Properties.                                                             *)
(***************************************************************************)

\* A real time signal that nobody handles ends the process: whatever order
\* clients, expirations and handlers run in, no signal is raised before
\* os_timer_start has installed os_timer_function for it.
SignalsAreHandled == \A s \in Signals : pending[s] # NoStart => s \in handled

\* An expiration is answered by what its own os_timer_start passed or, if the
\* same timer was started again since, by what a later one did: never by the
\* callback or the argument of an earlier start, or of another timer.  It is not
\* said that callback and argument are of the same start: a handler between two
\* steps of os_timer_start calls the new callback with the old argument, and one
\* that loads them around it the old callback with the new argument.
NoStaleCallback ==
  \A h \in Threads, s \in Signals :
    LET run == handler[h][s]
    IN  run.pc = "calling" =>
          \A n \in {run.callback.start, run.argument} :
            n >= run.raised /\ started[n].timer = started[run.raised].timer

\* The kernel timer repeats until a handler stops it after the callback has
\* returned: while a timer holds a callback that asks for no restart, what its own
\* start raised is delivered at most once to each thread that takes signals, and
\* once more, the expiration that may be pending by then.  Expirations of an
\* earlier start that are still under way call the callback too, and are not
\* counted here.
SingleShotBound ==
  \A t \in Timers :
    callback[t] # NullCallback /\ ~callback[t].restart =>
      fired[callback[t].start] <= Cardinality(Threads) + 1

IsArmed(n) == \E s \in Signals : armed[s] = n

\* What os_timer_stop has stopped stays stopped: neither a handler that was under
\* way nor a later start, also of a timer created anew, arms it again.
StoppedStaysStopped == \A n \in stopped : ~IsArmed(n)

CallsFor(n) ==
  \E h \in Threads, s \in Signals :
    handler[h][s].pc = "calling" /\ handler[h][s].raised = n

Superseded(n) == \A t \in Timers : callback[t].start # n

\* Is an expiration of an earlier start of the same timer on its way to a
\* handler, or in one?  Its signal is another one if the timer was created anew.
EarlierInFlight(n) ==
  \E s \in Signals :
    LET InFlight == {pending[s]} \cup {handler[h][s].raised : h \in {g \in Threads : handler[g][s] # Idle}}
    IN  \E m \in InFlight \ {NoStart} : m < n /\ started[m].timer = started[n].timer

\* An armed timer calls back, and one whose callback asks for it goes on to,
\* until its client stops or starts it again: unless an expiration of an earlier
\* start was in flight when it was armed, whose handler may yet stop it.
ArmedTimerCalls ==
  \A n \in Starts :
    IsArmed(n) /\ (fired[n] = 0 \/ started[n].restart) /\ ~EarlierInFlight(n)
      ~> CallsFor(n) \/ n \in stopped \/ Superseded(n)

\* A timer whose callback asks for no restart is disarmed in the end.
SingleShotEnds ==
  \A n \in Starts : IsArmed(n) /\ ~started[n].restart ~> ~IsArmed(n)
================================================================================
