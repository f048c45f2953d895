---------------------------- MODULE EspTimerProofs -----------------------------
(****************************************************************************)
(* Proof that esp_timer_stop is final (module EspTimer), for every set of   *)
(* timers, length of the command queue and number of calls.                 *)
(****************************************************************************)
EXTENDS EspTimer, SequenceTheorems, TLAPS

ApiNames == {"start_once", "start_periodic", "stop", "delete"}
Commands == [cmd : {"CHANGE_PERIOD", "STOP", "DELETE", "RESET"}, t : Timers]
Requests == [pc : {"send", "store"}, api : ApiNames, t : Timers]
InCallback == [pc : {"callback"}, t : Timers, called : BOOLEAN]
AfterCallback == [pc : {"reset", "stop", "stopStore"}, t : Timers]

TimerTypes ==
    /\ state \in [Timers -> {"INIT", "ONCE", "CYCLE", "STOP"}]
    /\ armed \in [Timers -> BOOLEAN]
    /\ xTimerQueue \in Seq(Commands)
    /\ call \in [Callers -> {NoCall} \cup Requests]
    /\ tmr \in {Loop, Drain} \cup InCallback \cup AfterCallback
    /\ last \in [Timers -> {"none", "create", "stopping", "stop", "unordered",
                            "start_once", "start_periodic", "delete"}]
    /\ fires \in [Timers -> Nat]

(* Where the queue holds a reset of t.                                      *)
Resets(q, t) == {i \in 1 .. Len(q) : q[i].cmd = "RESET" /\ q[i].t = t}

(* The service task has one callback of t to answer for: it is in it, about *)
(* to send the reset, or the reset is in the queue, which it empties before *)
(* it looks at the clock again.                                             *)
OneReset(t) ==
    /\ tmr = Loop => Resets(xTimerQueue, t) = {}
    /\ tmr.pc \in {"callback", "reset"} /\ tmr.t = t => Resets(xTimerQueue, t) = {}
    /\ \A i, j \in Resets(xTimerQueue, t) : i = j

(* Every start of t in the queue has a stop, delete or reset of t behind it. *)
Followed(q, t) ==
    \A i \in 1 .. Len(q) : q[i].cmd = "CHANGE_PERIOD" /\ q[i].t = t =>
      \E j \in i + 1 .. Len(q) : q[j].cmd # "CHANGE_PERIOD" /\ q[j].t = t

(* The queue holds a command of t that ends what a start began.             *)
Disarming(q, t) == \E j \in 1 .. Len(q) : q[j].cmd # "CHANGE_PERIOD" /\ q[j].t = t

(* No callback of t can begin any more.                                     *)
Quiet(t) ==
    /\ Resets(xTimerQueue, t) = {} /\ Followed(xTimerQueue, t)
    /\ tmr.pc = "reset" => tmr.t # t
    /\ armed[t] => tmr # Loop /\ Disarming(xTimerQueue, t)

On(c, t) == call[c] # NoCall /\ call[c].t = t

(* A stop in progress is the only call on its timer, and once its command   *)
(* is sent no start is left that would undo it.                             *)
StopInOrder(t) ==
    /\ last[t] = "stopping" =>
         /\ \E c \in Callers : On(c, t)
         /\ \A c, d \in Callers : On(c, t) /\ On(d, t) => c = d
         /\ \A c \in Callers : On(c, t) =>
              call[c].api = "stop" /\ (call[c].pc = "store" => Followed(xTimerQueue, t))
    /\ last[t] = "stop" => state[t] = "STOP" /\ \A c \in Callers : ~On(c, t)

(* After the stop: one callback may begin, and once it has, no other can.   *)
Final(t) ==
    last[t] = "stop" =>
      /\ fires[t] =< 1
      /\ fires[t] = 0 => Followed(xTimerQueue, t)
      /\ fires[t] # 0 => Quiet(t)

TimerInv == TimerTypes /\ \A t \in Timers : OneReset(t) /\ StopInOrder(t) /\ Final(t)
--------------------------------------------------------------------------------
(* The command queue: what Tail and Append do to the places of commands.    *)
LEMMA QueueTail ==
    ASSUME NEW q \in Seq(Commands), q # <<>>
    PROVE  /\ Tail(q) \in Seq(Commands) /\ Head(q) = q[1] /\ q[1] \in Commands
           /\ Len(q) \in Nat \ {0} /\ Len(Tail(q)) = Len(q) - 1
           /\ \A i \in 1 .. Len(Tail(q)) : Tail(q)[i] = q[i + 1]
<1>1. Head(q) = q[1]
  OBVIOUS
<1>2. /\ Tail(q) \in Seq(Commands) /\ Head(q) \in Commands /\ Len(Tail(q)) = Len(q) - 1
      /\ \A i \in 1 .. Len(Tail(q)) : Tail(q)[i] = q[i + 1]
  BY HeadTailProperties
<1>3. Len(q) \in Nat \ {0}
  BY EmptySeq, LenProperties
<1> QED
  BY <1>1, <1>2, <1>3

LEMMA QueueAppend ==
    ASSUME NEW q \in Seq(Commands), NEW e \in Commands
    PROVE  /\ Append(q, e) \in Seq(Commands) /\ Len(q) \in Nat
           /\ Len(Append(q, e)) = Len(q) + 1 /\ Append(q, e)[Len(q) + 1] = e
           /\ \A i \in 1 .. Len(q) : Append(q, e)[i] = q[i]
  BY AppendProperties, LenProperties

LEMMA ResetsTail ==
    ASSUME NEW q \in Seq(Commands), q # <<>>, NEW t \in Timers,
           \A i, j \in Resets(q, t) : i = j
    PROVE  /\ \A i, j \in Resets(Tail(q), t) : i = j
           /\ Resets(q, t) = {} => Resets(Tail(q), t) = {}
           /\ q[1].cmd = "RESET" /\ q[1].t = t => Resets(Tail(q), t) = {}
<1>1. \A i \in Resets(Tail(q), t) : i \in Nat \ {0} /\ i + 1 \in Resets(q, t)
  BY QueueTail DEF Resets
<1>2. q[1].cmd = "RESET" /\ q[1].t = t => 1 \in Resets(q, t)
  BY QueueTail DEF Resets
<1> QED
  BY <1>1, <1>2

LEMMA ResetsAppend ==
    ASSUME NEW q \in Seq(Commands), NEW e \in Commands, NEW t \in Timers
    PROVE  /\ e.cmd # "RESET" \/ e.t # t => Resets(Append(q, e), t) = Resets(q, t)
           /\ e.cmd = "RESET" /\ e.t = t =>
                Resets(Append(q, e), t) = Resets(q, t) \cup {Len(q) + 1}
  BY QueueAppend DEF Resets

LEMMA FollowedTail ==
    ASSUME NEW q \in Seq(Commands), q # <<>>, NEW t \in Timers, Followed(q, t)
    PROVE  /\ Followed(Tail(q), t)
           /\ q[1].cmd = "CHANGE_PERIOD" /\ q[1].t = t => Disarming(Tail(q), t)
<1> DEFINE u == Tail(q)
<1>1. /\ Len(q) \in Nat \ {0} /\ Len(u) = Len(q) - 1
      /\ \A i \in 1 .. Len(u) : u[i] = q[i + 1]
  BY QueueTail
<1> HIDE DEF u
<1>2. ASSUME NEW i \in 1 .. Len(q), q[i].cmd = "CHANGE_PERIOD", q[i].t = t
      PROVE  \E j \in i .. Len(u) : u[j].cmd # "CHANGE_PERIOD" /\ u[j].t = t
  <2>1. PICK j \in i + 1 .. Len(q) : q[j].cmd # "CHANGE_PERIOD" /\ q[j].t = t
    BY <1>2 DEF Followed
  <2>2. j - 1 \in i .. Len(u) /\ u[j - 1] = q[j]
    BY <1>1, <2>1
  <2> QED
    BY <2>1, <2>2
<1>3. Followed(u, t)
  <2> SUFFICES ASSUME NEW i \in 1 .. Len(u), u[i].cmd = "CHANGE_PERIOD", u[i].t = t
               PROVE  \E j \in i + 1 .. Len(u) : u[j].cmd # "CHANGE_PERIOD" /\ u[j].t = t
    BY DEF Followed
  <2>1. i + 1 \in 1 .. Len(q) /\ q[i + 1] = u[i]
    BY <1>1
  <2> QED
    BY <1>2, <2>1
<1>4. q[1].cmd = "CHANGE_PERIOD" /\ q[1].t = t =>
        \E j \in 1 .. Len(u) : u[j].cmd # "CHANGE_PERIOD" /\ u[j].t = t
  <2>1. 1 \in 1 .. Len(q)
    BY <1>1
  <2> QED
    BY <1>2, <2>1
<1> QED
  BY <1>3, <1>4 DEF u, Disarming

LEMMA FollowedAppend ==
    ASSUME NEW q \in Seq(Commands), NEW e \in Commands, NEW t \in Timers,
           \/ e.t = t /\ e.cmd # "CHANGE_PERIOD"
           \/ e.t # t /\ Followed(q, t)
    PROVE  Followed(Append(q, e), t)
<1> DEFINE u == Append(q, e)
<1>1. /\ Len(q) \in Nat /\ Len(u) = Len(q) + 1 /\ u[Len(q) + 1] = e
      /\ \A i \in 1 .. Len(q) : u[i] = q[i]
  BY QueueAppend
<1> HIDE DEF u
<1> SUFFICES ASSUME NEW i \in 1 .. Len(u), u[i].cmd = "CHANGE_PERIOD", u[i].t = t
             PROVE  \E j \in i + 1 .. Len(u) : u[j].cmd # "CHANGE_PERIOD" /\ u[j].t = t
  BY DEF Followed, u
<1>2. i # Len(q) + 1
  BY <1>1
<1>3. i \in 1 .. Len(q) /\ u[i] = q[i]
  BY <1>1, <1>2
<1>4. CASE e.t = t /\ e.cmd # "CHANGE_PERIOD"
  <2>1. Len(q) + 1 \in i + 1 .. Len(u)
    BY <1>1, <1>3
  <2> QED
    BY <1>1, <1>4, <2>1
<1>5. CASE e.t # t /\ Followed(q, t)
  <2>1. PICK j \in i + 1 .. Len(q) : q[j].cmd # "CHANGE_PERIOD" /\ q[j].t = t
    BY <1>3, <1>5 DEF Followed
  <2>2. j \in i + 1 .. Len(u) /\ j \in 1 .. Len(q)
    BY <1>1, <1>3
  <2> QED
    BY <1>1, <2>1, <2>2
<1> QED
  BY <1>4, <1>5

LEMMA DisarmingAppend ==
    ASSUME NEW q \in Seq(Commands), NEW e \in Commands, NEW t \in Timers, Disarming(q, t)
    PROVE  Disarming(Append(q, e), t)
<1>1. PICK j \in 1 .. Len(q) : q[j].cmd # "CHANGE_PERIOD" /\ q[j].t = t
  BY DEF Disarming
<1>2. j \in 1 .. Len(Append(q, e)) /\ Append(q, e)[j] = q[j]
  BY QueueAppend
<1> QED
  BY <1>1, <1>2 DEF Disarming

LEMMA DisarmingTail ==
    ASSUME NEW q \in Seq(Commands), q # <<>>, NEW t \in Timers, Disarming(q, t),
           q[1].cmd = "CHANGE_PERIOD" \/ q[1].t # t
    PROVE  Disarming(Tail(q), t)
<1>1. PICK j \in 1 .. Len(q) : q[j].cmd # "CHANGE_PERIOD" /\ q[j].t = t
  BY DEF Disarming
<1>2. j # 1
  BY <1>1
<1>3. j - 1 \in 1 .. Len(Tail(q)) /\ Tail(q)[j - 1] = q[j]
  BY <1>2, QueueTail
<1> QED
  BY <1>1, <1>3 DEF Disarming
--------------------------------------------------------------------------------
LEMMA TimerInitInv == TimerInit => TimerInv
<1> SUFFICES ASSUME TimerInit PROVE TimerInv
  OBVIOUS
<1>1. TimerTypes
  BY EmptySeq DEF TimerInit, TimerTypes
<1>2. ASSUME NEW t \in Timers PROVE OneReset(t) /\ StopInOrder(t) /\ Final(t)
  <2>1. Resets(xTimerQueue, t) = {} /\ last[t] = "none"
    BY EmptySeq DEF TimerInit, Resets
  <2> QED
    BY <2>1 DEF OneReset, StopInOrder, Final
<1> QED
  BY <1>1, <1>2 DEF TimerInv

LEMMA CreateInv ==
    ASSUME TimerInv, NEW t0 \in Timers, esp_timer_create(t0)
    PROVE  TimerInv'
<1> USE DEF TimerInv, TimerTypes
<1>1. TimerTypes'
  BY DEF esp_timer_create
<1>2. ASSUME NEW t \in Timers PROVE OneReset(t)' /\ StopInOrder(t)' /\ Final(t)'
  <2>1. last'[t] \in {"stop", "stopping"} => t # t0 /\ last'[t] = last[t] /\ state'[t] = state[t]
    BY DEF esp_timer_create
  <2>2. UNCHANGED <<xTimerQueue, tmr, call, fires, armed>>
    BY DEF esp_timer_create
  <2>3. OneReset(t)'
    BY <2>2 DEF OneReset
  <2>4. StopInOrder(t)'
    BY <2>1, <2>2 DEF StopInOrder, On
  <2>5. Final(t)'
    BY <2>1, <2>2 DEF Final, Quiet
  <2> QED
    BY <2>3, <2>4, <2>5
<1> QED
  BY <1>1, <1>2

LEMMA CallInv ==
    ASSUME TimerInv, NEW c \in Callers, NEW api \in ApiNames, NEW t0 \in Timers, Call(c, api, t0)
    PROVE  TimerInv'
<1> DEFINE r == [pc |-> "send", api |-> api, t |-> t0]
<1>1. /\ r \in Requests /\ r # NoCall /\ r.t = t0 /\ r.api = api /\ r.pc = "send"
  BY DEF Requests, NoCall
<1>2. /\ call' = [call EXCEPT ![c] = r] /\ call[c] = NoCall
      /\ UNCHANGED <<state, armed, xTimerQueue>> /\ fires' = [fires EXCEPT ![t0] = 0]
  BY DEF Call
<1> HIDE DEF r
<1>3. /\ tmr' \in {Loop, Drain} \cup InCallback \cup AfterCallback
      /\ tmr' = Loop <=> tmr = Loop
      /\ tmr'.pc = tmr.pc
      /\ tmr.pc \in {"callback", "reset"} => tmr'.t = tmr.t
  <2>1. CASE c = Service
    <3>1. tmr \in InCallback /\ tmr' = [tmr EXCEPT !.called = TRUE]
      BY <2>1 DEF Call, TimerInv, TimerTypes, Loop, Drain, InCallback, AfterCallback
    <3> QED
      BY <3>1 DEF InCallback, Loop
  <2>2. CASE c # Service
    <3>1. tmr' = tmr
      BY <2>2 DEF Call
    <3> QED
      BY <3>1 DEF TimerInv, TimerTypes
  <2> QED
    BY <2>1, <2>2
<1>4. /\ last'[t0] \in {"stopping", "unordered", "start_once", "start_periodic", "delete"}
      /\ last'[t0] = "stopping" => api = "stop" /\ ~inCall(t0)
      /\ last' = [last EXCEPT ![t0] = last'[t0]]
  BY DEF Call, TimerInv, TimerTypes, ApiNames
<1>5. TimerTypes'
  <2>1. call' \in [Callers -> {NoCall} \cup Requests]
    BY <1>1, <1>2 DEF TimerInv, TimerTypes
  <2>2. last' \in [Timers -> {"none", "create", "stopping", "stop", "unordered",
                              "start_once", "start_periodic", "delete"}]
    BY <1>4 DEF TimerInv, TimerTypes
  <2> QED
    BY <1>2, <1>3, <2>1, <2>2 DEF TimerInv, TimerTypes
<1>6. call'[c] = r /\ \A x \in Callers : x # c => call'[x] = call[x]
  BY <1>2 DEF TimerInv, TimerTypes
<1>7. ASSUME NEW t \in Timers PROVE OneReset(t)'
  BY <1>2, <1>3 DEF TimerInv, OneReset
<1>8. StopInOrder(t0)'
  <2>1. last'[t0] = "stopping" => \A x \in Callers : On(x, t0)' <=> x = c
    BY <1>1, <1>4, <1>6 DEF On, inCall
  <2> QED
    BY <1>1, <1>4, <1>6, <2>1 DEF StopInOrder
<1>9. ASSUME NEW t \in Timers, t # t0 PROVE StopInOrder(t)' /\ Final(t)'
  <2>1. \A x \in Callers : (On(x, t)' <=> On(x, t)) /\ (On(x, t) => call'[x] = call[x])
    BY <1>1, <1>2, <1>6, <1>9 DEF On
  <2>2. last'[t] = last[t] /\ fires'[t] = fires[t]
    BY <1>2, <1>4, <1>9 DEF TimerInv, TimerTypes
  <2>3. StopInOrder(t)'
    BY <1>2, <2>1, <2>2 DEF TimerInv, StopInOrder
  <2>4. Final(t)'
    BY <1>2, <1>3, <2>2 DEF TimerInv, Final, Quiet
  <2> QED
    BY <2>3, <2>4
<1>10. Final(t0)'
  BY <1>4 DEF Final
<1> QED
  BY <1>5, <1>7, <1>8, <1>9, <1>10 DEF TimerInv

LEMMA CallSendInv ==
    ASSUME TimerInv, NEW c \in Callers, CallSend(c)
    PROVE  TimerInv'
<1>1. call[c] \in Requests /\ call[c] # NoCall /\ xTimerQueue \in Seq(Commands)
  BY DEF CallSend, TimerInv, TimerTypes, NoCall, Requests
<1>2. PICK e \in Commands : /\ xTimerQueue' = Append(xTimerQueue, e) /\ e.cmd # "RESET" /\ e.t = call[c].t
                            /\ call[c].api = "stop" => e.cmd = "STOP"
  <2> DEFINE e == [cmd |-> command(call[c].api), t |-> call[c].t]
  <2>1. command(call[c].api) \in {"CHANGE_PERIOD", "STOP", "DELETE"}
    BY <1>1 DEF Requests, ApiNames, command
  <2>2. call[c].api = "stop" => command(call[c].api) = "STOP"
    BY DEF command
  <2>3. e \in Commands /\ e.cmd # "RESET" /\ e.t = call[c].t
    BY <1>1, <2>1 DEF Commands, Requests
  <2>4. xTimerQueue' = Append(xTimerQueue, e)
    BY DEF CallSend
  <2> QED
    BY <2>2, <2>3, <2>4
<1>3. /\ call' = [call EXCEPT ![c].pc = "store"]
      /\ UNCHANGED <<state, armed, tmr, last, fires>>
  BY DEF CallSend
<1>4. /\ call'[c] \in Requests /\ call'[c] # NoCall /\ call'[c].t = call[c].t
      /\ call'[c].api = call[c].api /\ \A x \in Callers : x # c => call'[x] = call[x]
      /\ call' \in [Callers -> {NoCall} \cup Requests]
  <2> DEFINE r == [call[c] EXCEPT !.pc = "store"]
  <2>1. r \in Requests /\ r # NoCall /\ r.t = call[c].t /\ r.api = call[c].api
    BY <1>1 DEF Requests, NoCall
  <2>2. call' = [call EXCEPT ![c] = r]
    BY <1>3
  <2> HIDE DEF r
  <2> QED
    BY <2>1, <2>2 DEF TimerInv, TimerTypes
<1>5. TimerTypes'
  BY <1>1, <1>2, <1>3, <1>4, QueueAppend DEF TimerInv, TimerTypes
<1>6. ASSUME NEW t \in Timers PROVE OneReset(t)' /\ StopInOrder(t)' /\ Final(t)'
  <2>1. Resets(xTimerQueue, t)' = Resets(xTimerQueue, t)
    BY <1>1, <1>2, ResetsAppend
  <2>2. OneReset(t)'
    BY <1>3, <2>1 DEF TimerInv, OneReset
  <2>3. \A x \in Callers : On(x, t)' <=> On(x, t)
    BY <1>1, <1>4 DEF On
  <2>4. \/ e.t = t /\ e.cmd # "CHANGE_PERIOD"
        \/ e.t # t /\ Followed(xTimerQueue, t) => Followed(xTimerQueue, t)'
    BY <1>1, <1>2, FollowedAppend
  <2>5. e.t = t /\ e.cmd # "CHANGE_PERIOD" => Followed(xTimerQueue, t)'
    BY <1>1, <1>2, FollowedAppend
  <2>6. ASSUME last[t] = "stopping", NEW x \in Callers, On(x, t)
        PROVE  call'[x].api = "stop" /\ (call'[x].pc = "store" => Followed(xTimerQueue, t)')
    <3>1. call[x].api = "stop" /\ (call[x].pc = "store" => Followed(xTimerQueue, t))
      BY <2>6 DEF TimerInv, StopInOrder
    <3>2. CASE x = c
      <4>1. e.t = t /\ e.cmd = "STOP"
        BY <1>2, <2>6, <3>1, <3>2 DEF On
      <4> QED
        BY <1>4, <2>5, <3>1, <3>2, <4>1
    <3>3. CASE x # c
      <4>1. e.t # t
        BY <1>1, <1>2, <2>6, <3>3 DEF TimerInv, StopInOrder, On
      <4> QED
        BY <1>4, <2>4, <3>1, <3>3, <4>1
    <3> QED
      BY <3>2, <3>3
  <2>7. StopInOrder(t)'
    BY <1>3, <2>3, <2>6 DEF TimerInv, StopInOrder
  <2>8. last[t] = "stop" => e.t # t
    BY <1>1, <1>2 DEF TimerInv, StopInOrder, On
  <2>9. Disarming(xTimerQueue, t) => Disarming(xTimerQueue, t)'
    BY <1>1, <1>2, DisarmingAppend
  <2>10. Final(t)'
    BY <1>3, <2>1, <2>4, <2>8, <2>9 DEF TimerInv, Final, Quiet
  <2> QED
    BY <2>2, <2>7, <2>10
<1> QED
  BY <1>5, <1>6 DEF TimerInv

LEMMA CallStoreInv ==
    ASSUME TimerInv, NEW c \in Callers, CallStore(c)
    PROVE  TimerInv'
<1>1. call[c] \in Requests /\ call[c] # NoCall /\ call[c].t \in Timers
  BY DEF CallStore, TimerInv, TimerTypes, NoCall, Requests
<1>2. call' = [call EXCEPT ![c] = NoCall] /\ UNCHANGED <<armed, xTimerQueue, tmr>>
  BY DEF CallStore
<1>3. PICK t0 \in Timers : t0 = call[c].t
  BY <1>1
<1>4. call'[c] = NoCall /\ \A x \in Callers : x # c => call'[x] = call[x]
  BY <1>2 DEF TimerInv, TimerTypes
<1>5. /\ \A t \in Timers : t # t0 =>
           state'[t] = state[t] /\ last'[t] = last[t] /\ fires'[t] = fires[t]
      /\ TimerTypes'
  <2>1. CASE call[c].api = "delete"
    BY <1>2, <2>1 DEF CallStore, TimerInv, TimerTypes
  <2>2. CASE call[c].api # "delete"
    <3>1. stateOf(call[c].api) \in {"ONCE", "CYCLE", "STOP"}
      BY <1>1, <2>2 DEF Requests, ApiNames, stateOf
    <3>2. /\ state' = [state EXCEPT ![t0] = stateOf(call[c].api)]
          /\ last' = [last EXCEPT ![t0] = IF @ = "stopping" THEN "stop" ELSE @]
          /\ fires' = [fires EXCEPT ![t0] = IF last[t0] = "stopping" THEN 0 ELSE @]
      BY <1>3, <2>2 DEF CallStore
    <3>3. TimerTypes'
      BY <1>2, <3>1, <3>2 DEF TimerInv, TimerTypes
    <3> QED
      BY <3>2, <3>3 DEF TimerInv, TimerTypes
  <2> QED
    BY <2>1, <2>2
<1>6. ASSUME NEW t \in Timers PROVE OneReset(t)'
  BY <1>2 DEF TimerInv, OneReset
<1>7. ASSUME NEW t \in Timers, t # t0 PROVE StopInOrder(t)' /\ Final(t)'
  <2>1. \A x \in Callers : (On(x, t)' <=> On(x, t)) /\ (On(x, t) => call'[x] = call[x])
    BY <1>3, <1>4, <1>7 DEF On
  <2>2. state'[t] = state[t] /\ last'[t] = last[t] /\ fires'[t] = fires[t]
    BY <1>5, <1>7
  <2>3. StopInOrder(t)'
    BY <1>2, <2>1, <2>2 DEF TimerInv, StopInOrder
  <2>4. Final(t)'
    BY <1>2, <2>2 DEF TimerInv, Final, Quiet
  <2> QED
    BY <2>3, <2>4
<1>8. StopInOrder(t0)' /\ Final(t0)'
  <2>1. On(c, t0)
    BY <1>1, <1>3 DEF On
  <2>2. last[t0] # "stop"
    BY <2>1 DEF TimerInv, StopInOrder
  <2>3. CASE last[t0] = "stopping"
    <3>1. /\ call[c].api = "stop" /\ Followed(xTimerQueue, t0)
          /\ \A x \in Callers : On(x, t0) => x = c
      BY <2>1, <2>3 DEF TimerInv, StopInOrder, CallStore
    <3>2. last'[t0] = "stop" /\ state'[t0] = "STOP" /\ fires'[t0] = 0
      BY <1>3, <2>3, <3>1 DEF CallStore, stateOf, TimerInv, TimerTypes
    <3>3. \A x \in Callers : ~On(x, t0)'
      BY <1>4, <3>1 DEF On
    <3>4. Followed(xTimerQueue, t0)'
      BY <1>2, <3>1
    <3> QED
      BY <3>2, <3>3, <3>4 DEF StopInOrder, Final
  <2>4. CASE last[t0] # "stopping"
    <3>1. last'[t0] = last[t0]
      BY <1>3, <2>4 DEF CallStore, TimerInv, TimerTypes
    <3> QED
      BY <2>2, <2>4, <3>1 DEF StopInOrder, Final
  <2> QED
    BY <2>3, <2>4
<1> QED
  BY <1>5, <1>6, <1>7, <1>8 DEF TimerInv

(* A callback of t0 begins when the queue holds no other reset of it.       *)
LEMMA BeginCallback ==
    ASSUME TimerInv, NEW t0 \in Timers, beginCallback(t0),
           armed' = [armed EXCEPT ![t0] = FALSE], UNCHANGED <<state, call, last>>,
           xTimerQueue' \in Seq(Commands), Resets(xTimerQueue, t0)' = {},
           last[t0] = "stop" => fires[t0] = 0,
           \A t \in Timers :
             /\ \A i, j \in Resets(xTimerQueue, t)' : i = j
             /\ Resets(xTimerQueue, t) = {} => Resets(xTimerQueue, t)' = {}
             /\ Followed(xTimerQueue, t) => Followed(xTimerQueue, t)',
           \A t \in Timers : t # t0 =>
             (armed[t] /\ tmr # Loop /\ Disarming(xTimerQueue, t) => Disarming(xTimerQueue, t)')
    PROVE  TimerInv'
<1>1. /\ tmr' \in InCallback /\ tmr'.pc = "callback" /\ tmr'.t = t0 /\ tmr' # Loop
      /\ fires' \in [Timers -> Nat] /\ \A t \in Timers : t # t0 => fires'[t] = fires[t]
      /\ fires[t0] = 0 => fires'[t0] = 1
  BY EspTimerAssumption DEF beginCallback, InCallback, Loop, TimerInv, TimerTypes
<1>2. TimerTypes'
  BY <1>1 DEF TimerInv, TimerTypes
<1>3. ASSUME NEW t \in Timers PROVE OneReset(t)' /\ StopInOrder(t)' /\ Final(t)'
  <2>1. OneReset(t)'
    BY <1>1 DEF OneReset
  <2>2. StopInOrder(t)'
    BY DEF TimerInv, StopInOrder, On
  <2>3. CASE t = t0 /\ last[t] = "stop"
    <3>1. fires[t0] = 0 /\ fires'[t0] = 1 /\ Followed(xTimerQueue, t0)'
      BY <1>1, <2>3 DEF TimerInv, Final
    <3>2. ~armed'[t0]
      BY DEF TimerInv, TimerTypes
    <3>3. Quiet(t0)'
      BY <1>1, <3>1, <3>2 DEF Quiet
    <3> QED
      BY <2>1, <2>2, <2>3, <3>1, <3>3 DEF Final
  <2>4. CASE t # t0 /\ last[t] = "stop"
    <3>1. armed'[t] = armed[t] /\ fires'[t] = fires[t]
      BY <1>1, <2>4 DEF TimerInv, TimerTypes
    <3>2. Quiet(t) => Quiet(t)'
      BY <1>1, <2>4, <3>1 DEF Quiet
    <3>3. Final(t)'
      BY <2>4, <3>1, <3>2 DEF TimerInv, Final
    <3> QED
      BY <2>1, <2>2, <3>3
  <2>5. CASE last[t] # "stop"
    BY <2>1, <2>2, <2>5 DEF Final
  <2> QED
    BY <2>3, <2>4, <2>5
<1> QED
  BY <1>2, <1>3 DEF TimerInv

LEMMA ExpireInv ==
    ASSUME TimerInv, NEW t0 \in Timers, Expire(t0)
    PROVE  TimerInv'
<1>1. /\ tmr = Loop /\ armed[t0] /\ armed' = [armed EXCEPT ![t0] = FALSE] /\ beginCallback(t0)
      /\ UNCHANGED <<state, xTimerQueue, call, last>>
  BY DEF Expire
<1>2. Resets(xTimerQueue, t0)' = {} /\ xTimerQueue' \in Seq(Commands)
  BY <1>1 DEF TimerInv, OneReset, TimerTypes
<1>3. last[t0] = "stop" => fires[t0] = 0
  BY <1>1 DEF TimerInv, Final, Quiet
<1>4. \A t \in Timers : \A i, j \in Resets(xTimerQueue, t)' : i = j
  BY <1>1 DEF TimerInv, OneReset
<1> QED
  BY <1>1, <1>2, <1>3, <1>4, BeginCallback

LEMMA ProcessCommandInv ==
    ASSUME TimerInv, ProcessCommand
    PROVE  TimerInv'
<1>1. /\ tmr = Drain /\ xTimerQueue # <<>> /\ xTimerQueue' = Tail(xTimerQueue) /\ xTimerQueue \in Seq(Commands)
      /\ UNCHANGED <<state, call, last>>
  BY DEF ProcessCommand, TimerInv, TimerTypes
<1>2. /\ xTimerQueue' \in Seq(Commands) /\ Head(xTimerQueue) = xTimerQueue[1] /\ xTimerQueue[1] \in Commands
      /\ Len(xTimerQueue) \in Nat \ {0}
  BY <1>1, QueueTail
<1>3. PICK t0 \in Timers : t0 = xTimerQueue[1].t
  BY <1>2 DEF Commands
<1>4. ASSUME NEW t \in Timers
      PROVE  /\ \A i, j \in Resets(xTimerQueue, t)' : i = j
             /\ Resets(xTimerQueue, t) = {} => Resets(xTimerQueue, t)' = {}
             /\ xTimerQueue[1].cmd = "RESET" /\ t0 = t => Resets(xTimerQueue, t)' = {}
  BY <1>1, <1>3, ResetsTail DEF TimerInv, OneReset
<1>5. ASSUME NEW t \in Timers, Followed(xTimerQueue, t)
      PROVE  /\ Followed(xTimerQueue, t)'
             /\ xTimerQueue[1].cmd = "CHANGE_PERIOD" /\ t0 = t => Disarming(xTimerQueue, t)'
  BY <1>1, <1>3, <1>5, FollowedTail
<1>6. ASSUME NEW t \in Timers, Disarming(xTimerQueue, t), t # t0 PROVE Disarming(xTimerQueue, t)'
  BY <1>1, <1>3, <1>6, DisarmingTail
<1>7. xTimerQueue[1].cmd = "RESET" => Resets(xTimerQueue, t0) # {}
  BY <1>2, <1>3 DEF Resets
<1>8. tmr # Loop /\ tmr.pc = "drain"
  BY <1>1 DEF Loop, Drain
<1>9. CASE /\ armed' = [armed EXCEPT ![t0] = xTimerQueue[1].cmd \in {"CHANGE_PERIOD", "RESET"}]
           /\ UNCHANGED <<tmr, fires>>
  <2>1. armed' \in [Timers -> BOOLEAN]
    BY <1>9 DEF TimerInv, TimerTypes
  <2>2. TimerTypes'
    BY <1>1, <1>2, <1>9, <2>1 DEF TimerInv, TimerTypes
  <2>3. ASSUME NEW t \in Timers PROVE OneReset(t)' /\ StopInOrder(t)' /\ Final(t)'
    <3>1. OneReset(t)'
      BY <1>1, <1>4, <1>8, <1>9 DEF OneReset
    <3>2. StopInOrder(t)'
      BY <1>1, <1>5 DEF TimerInv, StopInOrder, On
    <3>3. Quiet(t) => Quiet(t)'
      <4> SUFFICES ASSUME Quiet(t) PROVE Quiet(t)'
        OBVIOUS
      <4>1. Resets(xTimerQueue, t)' = {} /\ Followed(xTimerQueue, t)' /\ tmr'.pc # "reset" /\ tmr' # Loop
        BY <1>4, <1>5, <1>8, <1>9 DEF Quiet
      <4>2. CASE t = t0
        <5>1. armed'[t] => xTimerQueue[1].cmd = "CHANGE_PERIOD"
          BY <1>7, <1>9, <4>2 DEF Quiet, TimerInv, TimerTypes
        <5> QED
          BY <1>5, <4>1, <4>2, <5>1 DEF Quiet
      <4>3. CASE t # t0
        <5>1. armed'[t] => armed[t]
          BY <1>9, <4>3 DEF TimerInv, TimerTypes
        <5> QED
          BY <1>6, <4>1, <4>3, <5>1 DEF Quiet
      <4> QED
        BY <4>2, <4>3
    <3>4. Final(t)'
      BY <1>1, <1>5, <1>9, <3>3 DEF TimerInv, Final
    <3> QED
      BY <3>1, <3>2, <3>4
  <2> QED
    BY <2>2, <2>3 DEF TimerInv
<1>10. CASE /\ xTimerQueue[1].cmd = "RESET" /\ armed' = [armed EXCEPT ![t0] = FALSE]
            /\ beginCallback(t0)
  <2>1. last[t0] = "stop" => fires[t0] = 0
    BY <1>7, <1>10 DEF TimerInv, Final, Quiet
  <2>2. Resets(xTimerQueue, t0)' = {}
    BY <1>4, <1>10
  <2> QED
    BY <1>1, <1>2, <1>4, <1>5, <1>6, <1>10, <2>1, <2>2, BeginCallback
<1> QED
  BY <1>2, <1>3, <1>9, <1>10 DEF ProcessCommand

(* The service task moves on without a command or a callback.               *)
LEMMA ServiceMoves ==
    ASSUME TimerInv, UNCHANGED <<armed, xTimerQueue, call, last, fires>>,
           state' \in [Timers -> {"INIT", "ONCE", "CYCLE", "STOP"}],
           \A t \in Timers : state[t] = "STOP" => state'[t] = "STOP",
           tmr' \in {Loop, Drain} \cup InCallback \cup AfterCallback,
           tmr' = Loop => xTimerQueue = <<>>,
           tmr'.pc # "callback",
           tmr'.pc = "reset" => /\ tmr.pc = "callback" /\ tmr'.t = tmr.t
                                /\ state[tmr.t] # "STOP"
    PROVE  TimerInv'
<1>1. TimerTypes'
  BY DEF TimerInv, TimerTypes
<1>2. xTimerQueue = <<>> => \A t \in Timers : Resets(xTimerQueue, t) = {} /\ ~Disarming(xTimerQueue, t)
  BY EmptySeq DEF Resets, Disarming
<1>3. ASSUME NEW t \in Timers PROVE OneReset(t)' /\ StopInOrder(t)' /\ Final(t)'
  <2>1. OneReset(t)'
    BY <1>2 DEF TimerInv, OneReset
  <2>2. StopInOrder(t)'
    BY DEF TimerInv, StopInOrder, On
  <2>3. last[t] = "stop" => state[t] = "STOP"
    BY DEF TimerInv, StopInOrder
  <2>4. Final(t)'
    BY <1>2, <2>3 DEF TimerInv, Final, Quiet
  <2> QED
    BY <2>1, <2>2, <2>4
<1> QED
  BY <1>1, <1>3 DEF TimerInv

LEMMA ServiceStepsInv ==
    ASSUME TimerInv,
           StartDraining \/ DrainDone \/ CallbackReturned \/ CallbackStopStore
    PROVE  TimerInv'
<1>1. Loop # Drain /\ Drain.pc = "drain" /\ Loop.pc = "loop"
  BY DEF Loop, Drain
<1>2. CASE StartDraining
  BY <1>1, <1>2, ServiceMoves DEF StartDraining, TimerInv, TimerTypes
<1>3. CASE DrainDone
  BY <1>1, <1>3, ServiceMoves DEF DrainDone, TimerInv, TimerTypes
<1>4. CASE CallbackReturned
  <2>1. tmr.pc = "callback" /\ tmr.t \in Timers
    BY <1>4 DEF CallbackReturned, TimerInv, TimerTypes, Loop, Drain, InCallback, AfterCallback
  <2>2. \/ tmr' = Drain
        \/ /\ tmr' \in AfterCallback /\ tmr'.pc \in {"reset", "stop"} /\ tmr'.t = tmr.t
           /\ state[tmr.t] # "STOP" /\ tmr' # Loop
    BY <1>4, <2>1 DEF CallbackReturned, AfterCallback, Loop
  <2>3. UNCHANGED <<armed, xTimerQueue, call, last, fires, state>>
    BY <1>4 DEF CallbackReturned
  <2> QED
    BY <1>1, <2>1, <2>2, <2>3, ServiceMoves DEF TimerInv, TimerTypes
<1>5. CASE CallbackStopStore
  <2>1. /\ UNCHANGED <<armed, xTimerQueue, call, last, fires>> /\ tmr' = Drain
        /\ state' = [state EXCEPT ![tmr.t] = "STOP"]
    BY <1>5 DEF CallbackStopStore
  <2>2. /\ state' \in [Timers -> {"INIT", "ONCE", "CYCLE", "STOP"}]
        /\ \A t \in Timers : state[t] = "STOP" => state'[t] = "STOP"
    BY <2>1 DEF TimerInv, TimerTypes
  <2> QED
    BY <1>1, <2>1, <2>2, ServiceMoves
<1> QED
  BY <1>2, <1>3, <1>4, <1>5

(* The service task sends the command that ends or repeats the timer whose  *)
(* callback has returned.                                                   *)
LEMMA CallbackSendsInv ==
    ASSUME TimerInv, CallbackReset \/ CallbackStop
    PROVE  TimerInv'
<1>1. tmr \in AfterCallback /\ tmr.t \in Timers /\ tmr.pc \in {"reset", "stop"}
  BY DEF CallbackReset, CallbackStop, TimerInv, TimerTypes, Loop, Drain, InCallback, AfterCallback
<1>2. PICK t0 \in Timers : t0 = tmr.t
  BY <1>1
<1>3. PICK e \in Commands : /\ xTimerQueue' = Append(xTimerQueue, e) /\ e.t = t0 /\ e.cmd \in {"RESET", "STOP"}
                            /\ e.cmd = "RESET" => tmr.pc = "reset"
  <2> DEFINE r(c) == [cmd |-> c, t |-> tmr.t]
  <2>1. \A c \in {"RESET", "STOP"} : r(c) \in Commands /\ r(c).t = t0 /\ r(c).cmd = c
    BY <1>2 DEF Commands
  <2>2. \/ xTimerQueue' = Append(xTimerQueue, r("RESET")) /\ tmr.pc = "reset"
        \/ xTimerQueue' = Append(xTimerQueue, r("STOP"))
    BY DEF CallbackReset, CallbackStop
  <2> HIDE DEF r
  <2> QED
    BY <2>1, <2>2
<1>4. /\ UNCHANGED <<state, armed, call, last, fires>> /\ xTimerQueue \in Seq(Commands)
      /\ tmr' \in {Drain} \cup AfterCallback /\ tmr'.pc \in {"drain", "stopStore"} /\ tmr' # Loop
  <2>1. CASE CallbackReset
    BY <2>1 DEF CallbackReset, TimerInv, TimerTypes, Drain, Loop
  <2>2. CASE CallbackStop
    BY <1>1, <2>2 DEF CallbackStop, TimerInv, TimerTypes, AfterCallback, Loop
  <2> QED
    BY <2>1, <2>2
<1>5. TimerTypes'
  BY <1>3, <1>4, QueueAppend DEF TimerInv, TimerTypes
<1>6. ASSUME NEW t \in Timers PROVE OneReset(t)' /\ StopInOrder(t)' /\ Final(t)'
  <2>1. e.cmd # "RESET" \/ e.t # t => Resets(xTimerQueue, t)' = Resets(xTimerQueue, t)
    BY <1>3, <1>4, ResetsAppend
  <2>2. e.cmd = "RESET" /\ e.t = t =>
          Resets(xTimerQueue, t) = {} /\ Resets(xTimerQueue, t)' = {Len(xTimerQueue) + 1}
    <3>1. e.cmd = "RESET" /\ e.t = t =>
            Resets(xTimerQueue, t)' = Resets(xTimerQueue, t) \cup {Len(xTimerQueue) + 1}
      BY <1>3, <1>4, ResetsAppend
    <3>2. e.cmd = "RESET" /\ e.t = t => Resets(xTimerQueue, t) = {}
      BY <1>2, <1>3 DEF TimerInv, OneReset
    <3> QED
      BY <3>1, <3>2
  <2>3. OneReset(t)'
    BY <1>4, <2>1, <2>2 DEF TimerInv, OneReset
  <2>4. Followed(xTimerQueue, t) => Followed(xTimerQueue, t)'
    BY <1>3, <1>4, FollowedAppend
  <2>5. Disarming(xTimerQueue, t) => Disarming(xTimerQueue, t)'
    BY <1>3, <1>4, DisarmingAppend
  <2>6. StopInOrder(t)'
    BY <1>4, <2>4 DEF TimerInv, StopInOrder, On
  <2>7. Quiet(t) => Quiet(t)'
    BY <1>2, <1>3, <1>4, <2>1, <2>4, <2>5 DEF Quiet
  <2>8. Final(t)'
    BY <1>4, <2>4, <2>7 DEF TimerInv, Final
  <2> QED
    BY <2>3, <2>6, <2>8
<1> QED
  BY <1>5, <1>6 DEF TimerInv

LEMMA TimerStep == TimerInv /\ [TimerNext]_timerVars => TimerInv'
<1> SUFFICES ASSUME TimerInv, [TimerNext]_timerVars PROVE TimerInv'
  OBVIOUS
<1>1. CASE UNCHANGED timerVars
  BY <1>1 DEF timerVars, TimerInv, TimerTypes, OneReset, StopInOrder, Final, Quiet, On
<1>2. CASE \E t \in Timers : esp_timer_create(t)
  BY <1>2, CreateInv
<1>3. CASE Calling
  BY <1>3, CallInv DEF Calling, ApiNames
<1>4. CASE \E c \in Callers : CallSend(c) \/ CallStore(c)
  BY <1>4, CallSendInv, CallStoreInv
<1>5. CASE ServiceTask
  BY <1>5, ExpireInv, ProcessCommandInv, ServiceStepsInv, CallbackSendsInv DEF ServiceTask
<1> QED
  BY <1>1, <1>2, <1>3, <1>4, <1>5 DEF TimerNext

(* The inductive invariant: types, one reset per timer in the queue at the  *)
(* most, stops that no start overtakes.                                     *)
THEOREM TimerInvariant == TimerSpec => []TimerInv
  BY TimerInitInv, TimerStep, PTL DEF TimerSpec

(* After esp_timer_stop has returned at most one more callback of the timer *)
(* begins until it is started again, for any number of timers, calls from   *)
(* the application and from callbacks, and any length of the queue.         *)
THEOREM StopEndsTimer == TimerSpec => []StopIsFinal
<1>1. TimerInv => StopIsFinal
  BY DEF TimerInv, Final, StopIsFinal
<1> QED
  BY <1>1, TimerInvariant, PTL
================================================================================
