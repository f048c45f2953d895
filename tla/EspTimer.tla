------------------------------- MODULE EspTimer --------------------------------
(****************************************************************************)
(* The esp_timer interface of src/timer.nim over the FreeRTOS timer         *)
(* service.                                                                 *)
(*                                                                          *)
(* An application task calls the interface.  Each call sends a command to   *)
(* the timer service task and then, in a step of its own, stores the new    *)
(* state in the timer object.  The timer service task expires timers,       *)
(* executes commands in order and runs the callbacks, which may call the    *)
(* interface too.  Time is abstract: an armed timer may expire at any       *)
(* moment the service task looks at it.                                     *)
(*                                                                          *)
(* The application keeps the rules of esp_timer.h: it starts a timer that   *)
(* is not running and deletes one that is stopped or an expired one-shot,   *)
(* and not while another call on the timer is in progress.                  *)
(* Operators named X_y (y a word for a fault) are faulty variants of X that *)
(* the mutation checks use; the specification does not.                     *)
(*                                                                          *)
(* Memory is not modelled beyond its lifetime: the first access to a freed  *)
(* object sets uaf, and nothing is said about what follows.                 *)
(****************************************************************************)
EXTENDS Integers, Sequences

CONSTANTS
    Timers,       \* timer handles
    QueueLength,  \* configTIMER_QUEUE_LENGTH
    Apis,         \* bound: the calls made
    MaxCalls,     \* bound: number of calls
    MaxFires      \* bound: callbacks counted since the last call

VARIABLES
    obj,     \* [Timers -> {"none", "live", "freed"}]  memory of esp_timer_obj
    state,   \* [Timers -> esp_timer_state_t]
    os,      \* [Timers -> {"none", "live", "freed"}]  memory of the FreeRTOS timer
    armed,   \* [Timers -> BOOLEAN]  the FreeRTOS timer is in the active list
    xTimerQueue, \* the commands sent to the service task
    call,    \* [Callers -> the interface call in progress]
    tmr,     \* where the timer service task is
    last,    \* [Timers -> last call made on the timer]
    fires,   \* [Timers -> callbacks begun since then]
    calls,   \* calls made so far
    uaf      \* freed memory has been accessed

timerVars == <<obj, state, os, armed, xTimerQueue, call, tmr, last, fires, calls, uaf>>

ASSUME EspTimerAssumption ==
    /\ QueueLength \in Nat \ {0} /\ MaxCalls \in Nat /\ MaxFires \in Nat \ {0}
    /\ Apis \subseteq {"start_once", "start_periodic", "stop", "delete"}

App == "app"
Service == "service"
Callers == {App, Service}

NoCall == [pc |-> "none"]
Loop == [pc |-> "loop"]

TimerInit ==
    /\ obj = [t \in Timers |-> "none"]
    /\ state = [t \in Timers |-> "INIT"]
    /\ os = [t \in Timers |-> "none"]
    /\ armed = [t \in Timers |-> FALSE]
    /\ xTimerQueue = <<>>
    /\ call = [c \in Callers |-> NoCall]
    /\ tmr = Loop
    /\ last = [t \in Timers |-> "none"]
    /\ fires = [t \in Timers |-> 0]
    /\ calls = 0
    /\ uaf = FALSE

--------------------------------------------------------------------------------
(* The interface.                                                           *)
esp_timer_create(t) ==
    /\ ~uaf /\ obj[t] = "none" /\ call[App] = NoCall
    /\ obj' = [obj EXCEPT ![t] = "live"]
    /\ os' = [os EXCEPT ![t] = "live"]
    /\ state' = [state EXCEPT ![t] = "INIT"]
    /\ last' = [last EXCEPT ![t] = "create"]
    /\ UNCHANGED <<armed, xTimerQueue, call, tmr, fires, calls, uaf>>

(* The timer is stopped, or a one-shot timer that has expired.              *)
notRunning(t) ==
    \/ last[t] \in {"create", "stop"}
    \/ last[t] = "start_once" /\ fires[t] > 0

inCall(t) == \E c \in Callers : call[c] # NoCall /\ call[c].t = t

command_deleteOnlyStops(api) ==
    IF api \in {"stop", "delete"} THEN "STOP" ELSE "CHANGE_PERIOD"

command(api) == CASE api \in {"start_once", "start_periodic"} -> "CHANGE_PERIOD"
                  [] api = "stop" -> "STOP"
                  [] api = "delete" -> "DELETE"

stateOf(api) == CASE api = "start_once" -> "ONCE"
                  [] api = "start_periodic" -> "CYCLE"
                  [] api = "stop" -> "STOP"

(* A task calls the interface: the application at any time, the service     *)
(* task from inside a callback.                                             *)
Call(c, api, t) ==
    /\ ~uaf /\ api \in Apis /\ calls < MaxCalls /\ obj[t] = "live"
    /\ call[c] = NoCall
    /\ c = Service => tmr.pc = "callback" /\ ~tmr.called
    /\ api # "stop" => notRunning(t)
    /\ api = "delete" => ~inCall(t)
    /\ call' = [call EXCEPT ![c] = [pc |-> "send", api |-> api, t |-> t]]
    /\ tmr' = IF c = Service THEN [tmr EXCEPT !.called = TRUE] ELSE tmr
    /\ last' = [last EXCEPT ![t] = CASE api # "stop" -> api
                                     [] api = "stop" /\ ~inCall(t) -> "stopping"
                                     [] OTHER -> "unordered"]
    /\ fires' = [fires EXCEPT ![t] = 0]
    /\ calls' = calls + 1
    /\ UNCHANGED <<obj, state, os, armed, xTimerQueue, uaf>>

(* xTimerChangePeriod, xTimerStop, xTimerDelete with portMAX_DELAY: the     *)
(* caller waits while the queue is full.                                    *)
CallSend(c) ==
    /\ ~uaf /\ call[c].pc = "send" /\ Len(xTimerQueue) < QueueLength
    /\ xTimerQueue' = Append(xTimerQueue, [cmd |-> command(call[c].api), t |-> call[c].t])
    /\ call' = [call EXCEPT ![c].pc = "store"]
    /\ UNCHANGED <<obj, state, os, armed, tmr, last, fires, calls, uaf>>

(* The state is stored after the command is sent; delete frees the object.  *)
CallStore(c) ==
    /\ ~uaf /\ call[c].pc = "store"
    /\ LET t == call[c].t
           api == call[c].api
       IN IF api = "delete"
          THEN /\ obj' = [obj EXCEPT ![t] = "freed"]
               /\ UNCHANGED <<state, last, fires, uaf>>
          ELSE /\ uaf' = (obj[t] = "freed")
               /\ state' = [state EXCEPT ![t] = stateOf(api)]
               /\ last' = [last EXCEPT ![t] = IF @ = "stopping" THEN "stop" ELSE @]
               /\ fires' = [fires EXCEPT ![t] = IF last[t] = "stopping" THEN 0 ELSE @]
               /\ UNCHANGED obj
    /\ call' = [call EXCEPT ![c] = NoCall]
    /\ UNCHANGED <<os, armed, xTimerQueue, tmr, calls>>

--------------------------------------------------------------------------------
(* The timer service task.                                                  *)

(* esp_timer_callback begins: it reads the timer object.                    *)
beginCallback(t) ==
    /\ uaf' = (obj[t] = "freed" \/ os[t] = "freed")
    /\ tmr' = [pc |-> "callback", t |-> t, called |-> FALSE]
    /\ fires' = [fires EXCEPT ![t] = IF @ < MaxFires THEN @ + 1 ELSE @]

(* prvProcessExpiredTimer: every timer is one-shot for FreeRTOS.            *)
Expire(t) ==
    /\ ~uaf /\ tmr = Loop /\ armed[t]
    /\ armed' = [armed EXCEPT ![t] = FALSE]
    /\ beginCallback(t)
    /\ UNCHANGED <<obj, state, os, xTimerQueue, call, last, calls>>

(* prvProcessReceivedCommands: one command; a reset whose time has already  *)
(* come runs the callback at once.                                          *)
Drain == [pc |-> "drain"]

StartDraining ==
    /\ ~uaf /\ tmr = Loop /\ xTimerQueue # <<>>
    /\ tmr' = Drain
    /\ UNCHANGED <<obj, state, os, armed, xTimerQueue, call, last, fires, calls, uaf>>

ProcessCommand ==
    /\ ~uaf /\ tmr = Drain /\ xTimerQueue # <<>>
    /\ LET t == Head(xTimerQueue).t
           cmd == Head(xTimerQueue).cmd
       IN \/ /\ armed' = [armed EXCEPT ![t] = cmd \in {"CHANGE_PERIOD", "RESET"}]
             /\ os' = IF cmd = "DELETE" THEN [os EXCEPT ![t] = "freed"] ELSE os
             /\ uaf' = (os[t] = "freed")
             /\ UNCHANGED <<tmr, fires>>
          \/ /\ cmd = "RESET"
             /\ armed' = [armed EXCEPT ![t] = FALSE]
             /\ beginCallback(t)
             /\ UNCHANGED os
    /\ xTimerQueue' = Tail(xTimerQueue)
    /\ UNCHANGED <<obj, state, call, last, calls>>

DrainDone ==
    /\ ~uaf /\ tmr = Drain /\ xTimerQueue = <<>>
    /\ tmr' = Loop
    /\ UNCHANGED <<obj, state, os, armed, xTimerQueue, call, last, fires, calls, uaf>>

(* The user's callback has returned: esp_timer_callback reads the state.    *)
CallbackReturned_resetsStopped ==
    /\ ~uaf /\ tmr.pc = "callback" /\ call[Service] = NoCall
    /\ uaf' = (obj[tmr.t] = "freed")
    /\ tmr' = [pc |-> IF state[tmr.t] = "ONCE" THEN "stop" ELSE "reset", t |-> tmr.t]
    /\ UNCHANGED <<obj, state, os, armed, xTimerQueue, call, last, fires, calls>>

CallbackReturned ==
    /\ ~uaf /\ tmr.pc = "callback" /\ call[Service] = NoCall
    /\ uaf' = (obj[tmr.t] = "freed")
    /\ tmr' = CASE state[tmr.t] = "CYCLE" -> [pc |-> "reset", t |-> tmr.t]
                [] state[tmr.t] = "ONCE" -> [pc |-> "stop", t |-> tmr.t]
                [] OTHER -> Drain
    /\ UNCHANGED <<obj, state, os, armed, xTimerQueue, call, last, fires, calls>>

(* xTimerReset or xTimerStop from the service task, with portMAX_DELAY.     *)
CallbackReset ==
    /\ ~uaf /\ tmr.pc = "reset" /\ Len(xTimerQueue) < QueueLength
    /\ xTimerQueue' = Append(xTimerQueue, [cmd |-> "RESET", t |-> tmr.t])
    /\ tmr' = Drain
    /\ UNCHANGED <<obj, state, os, armed, call, last, fires, calls, uaf>>

CallbackStop ==
    /\ ~uaf /\ tmr.pc = "stop" /\ Len(xTimerQueue) < QueueLength
    /\ xTimerQueue' = Append(xTimerQueue, [cmd |-> "STOP", t |-> tmr.t])
    /\ tmr' = [tmr EXCEPT !.pc = "stopStore"]
    /\ UNCHANGED <<obj, state, os, armed, call, last, fires, calls, uaf>>

CallbackStopStore ==
    /\ ~uaf /\ tmr.pc = "stopStore"
    /\ uaf' = (obj[tmr.t] = "freed")
    /\ state' = [state EXCEPT ![tmr.t] = "STOP"]
    /\ tmr' = Drain
    /\ UNCHANGED <<obj, os, armed, xTimerQueue, call, last, fires, calls>>

ServiceTask ==
    \/ \E t \in Timers : Expire(t)
    \/ StartDraining \/ ProcessCommand \/ DrainDone
    \/ CallbackReturned \/ CallbackReset \/ CallbackStop \/ CallbackStopStore

Calling ==
    \E c \in Callers, api \in {"start_once", "start_periodic", "stop", "delete"}, t \in Timers :
        Call(c, api, t)

TimerNext ==
    \/ \E t \in Timers : esp_timer_create(t)
    \/ Calling
    \/ \E c \in Callers : CallSend(c) \/ CallStore(c)
    \/ ServiceTask

(* The scheduler runs every task that is ready; expiry is part of the       *)
(* service task, since an armed timer's time comes.  The k-th task is the   *)
(* service task, the application in its call, or the service task in a call *)
(* of a callback.                                                           *)
TimerTask(k) ==
    \/ k = 1 /\ ServiceTask
    \/ k = 2 /\ (CallSend(App) \/ CallStore(App))
    \/ k = 3 /\ (CallSend(Service) \/ CallStore(Service))

TimerSpec ==
    TimerInit /\ [][TimerNext]_timerVars /\ \A k \in 1 .. 3 : WF_timerVars(TimerTask(k))

--------------------------------------------------------------------------------
(* esp_timer_stop returns once its command is queued, while a callback of   *)
(* the timer may be past its read of the state and about to send a reset    *)
(* behind the stop: still, after esp_timer_stop has returned at most one    *)
(* more callback of the timer begins, until it is started again.            *)
StopIsFinal == \A t \in Timers : last[t] = "stop" => fires[t] =< 1

(* The service task waits for room in the queue that it alone empties.      *)
ServiceStuck ==
    /\ Len(xTimerQueue) = QueueLength
    /\ tmr.pc \in {"reset", "stop"} \/ call[Service].pc = "send"

(* esp_timer_delete frees the object at once and leaves the FreeRTOS timer  *)
(* to the service task: it is freed too, unless the service task blocks on  *)
(* its own queue or freed memory is accessed first.                         *)
OsTimerFreed ==
    \A t \in Timers : obj[t] = "freed" ~> (os[t] = "freed" \/ uaf \/ ServiceStuck)

(* A timer that is stopped, or a one-shot that has expired, may be deleted: *)
(* neither the object nor the FreeRTOS timer is used after it is freed.     *)
NoUseAfterFree == ~uaf
================================================================================
