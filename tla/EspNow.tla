------------------------------ MODULE EspNow ------------------------------
(***************************************************************************)
(* The ESP-NOW example (espnow_example_main.c) on two devices.  Each one   *)
(* broadcasts until both have heard each other; then the one with the      *)
(* bigger magic number sends a fixed count of unicast frames and ends.     *)
(* The Wi-Fi task of a device calls example_espnow_send_cb and _recv_cb,   *)
(* which put events into a bounded queue (and block while it is full);     *)
(* example_espnow_task takes them out.  The radio loses and damages        *)
(* frames.  Sequence numbers and payload are left out: nothing reads them. *)
(***************************************************************************)
EXTENDS Naturals, Sequences

CONSTANTS
    QueueSize,  \* ESPNOW_QUEUE_SIZE
    SendCount,  \* CONFIG_ESPNOW_SEND_COUNT
    Magics      \* the values esp_random() may give

\* main/Kconfig.projbuild: ESPNOW_SEND_COUNT ranges from 1.
ASSUME EspNowAssumption == SendCount \in Nat \ {0} /\ Magics \subseteq Nat

Devices == {1, 2}
Other(d) == 3 - d

VARIABLES
    task,    \* per device: "delay", "run" or "gone"
    param,   \* example_espnow_send_param_t
    queue,   \* example_espnow_queue
    tx,      \* frames handed to the Wi-Fi task by esp_now_send()
    peers,   \* whether the other device is in the peer list
    unicasts \* history: unicast frames handed to the Wi-Fi task

espnowVars == <<task, param, queue, tx, peers, unicasts>>

Frames == [type : {"BROADCAST", "UNICAST"}, state : {0, 1}, magic : Magics]

\* example_espnow_data_prepare(): fill the send buffer from the parameters.
data_prepare(p, type) ==
    [p EXCEPT !.buffer = [type |-> type, state |-> p.state, magic |-> p.magic]]

\* example_espnow_init(): the first broadcast is already in the buffer.
EspNowInit ==
    /\ task = [d \in Devices |-> "delay"]
    /\ param \in [Devices ->
         {data_prepare([unicast |-> FALSE, broadcast |-> TRUE, state |-> 0,
                        magic |-> m, count |-> SendCount, buffer |-> 0],
                       "BROADCAST") : m \in Magics}]
    /\ queue = [d \in Devices |-> <<>>]
    /\ tx = [d \in Devices |-> <<>>]
    /\ peers = [d \in Devices |-> FALSE]
    /\ unicasts = [d \in Devices |-> 0]

\* example_espnow_deinit() and vTaskDelete().
deinit(d) ==
    /\ task' = [task EXCEPT ![d] = "gone"]
    /\ queue' = [queue EXCEPT ![d] = <<>>]
    /\ tx' = [tx EXCEPT ![d] = <<>>]
    /\ UNCHANGED <<param, peers, unicasts>>

\* esp_now_send() of the buffer of p succeeds; p becomes the parameters.
esp_now_send(d, p) ==
    /\ tx' = [tx EXCEPT ![d] = Append(@, p.buffer)]
    /\ unicasts' = IF p.buffer.type = "UNICAST" THEN [unicasts EXCEPT ![d] = @ + 1] ELSE unicasts
    /\ param' = [param EXCEPT ![d] = p]

----------------------------------------------------------------------------
(* example_espnow_task                                                     *)

FirstSend(d) ==
    /\ task[d] = "delay"
    /\ \/ /\ esp_now_send(d, param[d])
          /\ task' = [task EXCEPT ![d] = "run"]
          /\ UNCHANGED <<queue, peers>>
       \/ deinit(d)

\* EXAMPLE_ESPNOW_SEND_CB for a frame the device may repeat: count a unicast
\* frame, end after the last one, otherwise send the next to the same address.
SendNext(d, bcast) ==
    LET p    == [param[d] EXCEPT !.count = IF bcast THEN @ ELSE @ - 1]
        next == data_prepare(p, IF bcast THEN "BROADCAST" ELSE "UNICAST")
    IN  \/ /\ ~bcast /\ p.count = 0
           /\ deinit(d)
        \/ /\ bcast \/ p.count # 0
           /\ esp_now_send(d, next)
           /\ queue' = [queue EXCEPT ![d] = Tail(@)]
           /\ UNCHANGED <<task, peers>>
        \/ /\ bcast \/ p.count # 0   \* esp_now_send() failed
           /\ deinit(d)

OnSendCb(d) ==
    LET e == Head(queue[d])
    IN  /\ task[d] = "run" /\ queue[d] # <<>> /\ e.id = "SEND_CB"
        /\ IF e.bcast /\ ~param[d].broadcast
           THEN /\ queue' = [queue EXCEPT ![d] = Tail(@)]
                /\ UNCHANGED <<task, param, tx, peers, unicasts>>
           ELSE SendNext(d, e.bcast)

\* Mutant: the magic numbers are not compared.
MustSend_always(p, f) == f.state = 1 /\ ~p.unicast

\* Mutant: the magic number must be greater.
MustSend_greater(p, f) == f.state = 1 /\ ~p.unicast /\ p.magic > f.magic

\* The device with the bigger magic number sends; on equal ones, both do.
MustSend(p, f) == f.state = 1 /\ ~p.unicast /\ p.magic >= f.magic

\* EXAMPLE_ESPNOW_RECV_CB, a broadcast: learn the peer, which needs memory the
\* first time; perhaps start sending.
OnBroadcast(d, f) ==
    LET heard == [param[d] EXCEPT !.state = 1]
        uni   == data_prepare(heard, "UNICAST")
    IN  \/ ~peers[d] /\ deinit(d)
        \/ /\ MustSend(heard, f)
           /\ esp_now_send(d, [uni EXCEPT !.broadcast = FALSE, !.unicast = TRUE])
           /\ queue' = [queue EXCEPT ![d] = Tail(@)]
           /\ peers' = [peers EXCEPT ![d] = TRUE]
           /\ UNCHANGED task
        \/ MustSend(heard, f) /\ deinit(d)   \* esp_now_send() failed
        \/ /\ ~MustSend(heard, f)
           /\ param' = [param EXCEPT ![d] = heard]
           /\ queue' = [queue EXCEPT ![d] = Tail(@)]
           /\ peers' = [peers EXCEPT ![d] = TRUE]
           /\ UNCHANGED <<task, tx, unicasts>>

\* A unicast frame ends the device's own broadcasts.
OnUnicast(d) ==
    /\ param' = [param EXCEPT ![d].broadcast = FALSE]
    /\ queue' = [queue EXCEPT ![d] = Tail(@)]
    /\ UNCHANGED <<task, tx, peers, unicasts>>

OnRecvCb(d) ==
    LET e == Head(queue[d])
    IN  /\ task[d] = "run" /\ queue[d] # <<>> /\ e.id = "RECV_CB"
        /\ \/ ~e.damaged /\ e.frame.type = "BROADCAST" /\ OnBroadcast(d, e.frame)
           \/ ~e.damaged /\ e.frame.type = "UNICAST" /\ OnUnicast(d)
           \/ /\ e.damaged   \* example_espnow_data_parse(): wrong CRC
              /\ queue' = [queue EXCEPT ![d] = Tail(@)]
              /\ UNCHANGED <<task, param, tx, peers, unicasts>>

----------------------------------------------------------------------------
(* The Wi-Fi tasks and the radio.                                          *)

\* xQueueSend(..., portMAX_DELAY): the Wi-Fi task blocks while it is full.
HasRoom(d) == Len(queue[d]) < QueueSize

example_espnow_send_cb(q, d) ==
    [q EXCEPT ![d] = Append(@, [id |-> "SEND_CB",
                                bcast |-> Head(tx[d]).type = "BROADCAST"])]

example_espnow_recv_cb(q, d, f, damaged) ==
    [q EXCEPT ![d] = Append(@, [id |-> "RECV_CB", frame |-> f, damaged |-> damaged])]

\* The frame goes out; whether it is heard or not, the sender's callback runs.
Transmit(d, q) ==
    /\ tx[d] # <<>> /\ HasRoom(d)
    /\ tx' = [tx EXCEPT ![d] = Tail(@)]
    /\ queue' = example_espnow_send_cb(q, d)
    /\ UNCHANGED <<task, param, peers, unicasts>>

Lost(d) == Transmit(d, queue)

Heard(d, damaged) ==
    LET o == Other(d)
    IN  /\ task[o] # "gone" /\ HasRoom(o) /\ tx[d] # <<>>
        /\ Transmit(d, example_espnow_recv_cb(queue, o, Head(tx[d]), damaged))

TaskStep(d) == FirstSend(d) \/ OnSendCb(d) \/ OnRecvCb(d)

Sending(d) == Lost(d) \/ \E damaged \in BOOLEAN : Heard(d, damaged)

EspNowNext == \E d \in Devices : TaskStep(d) \/ Sending(d)

EspNowSpec == EspNowInit /\ [][EspNowNext]_espnowVars

\* What runs again and again: the two tasks and the two radios.
EspNowTask(k) ==
    \/ k \in Devices /\ TaskStep(k)
    \/ k - 2 \in Devices /\ Sending(k - 2)

----------------------------------------------------------------------------
(* Properties.                                                             *)

\* Unicast frames the Wi-Fi task has not sent, and callbacks of unicast frames
\* that the task has not handled: positions in tx and in the queue.
UnicastFrames == {f \in Frames : f.type = "UNICAST"}
UnicastCbs == {[id |-> "SEND_CB", bcast |-> FALSE]}
Places(q, S) == {i \in 1 .. Len(q) : q[i] \in S}
Unsent(d) == Places(tx[d], UnicastFrames)
Unhandled(d) == Places(queue[d], UnicastCbs)

\* Only the device that has the bigger magic number ever turns to unicast,
\* whatever order broadcasts and callbacks come in.  It has one unicast frame
\* under way at a time, on its way out or as a callback, although it may be
\* broadcasting too; so it sends CONFIG_ESPNOW_SEND_COUNT of them at the most.
OneSender ==
    \A d \in Devices :
      /\ param[d].unicast => param[d].magic >= param[Other(d)].magic
      /\ unicasts[d] <= SendCount
      /\ task[d] = "run" /\ param[d].unicast =>
           /\ unicasts[d] = SendCount - param[d].count + 1
           /\ \/ Unsent(d) = {} /\ \E i \in 1 .. Len(queue[d]) : Unhandled(d) = {i}
              \/ Unhandled(d) = {} /\ \E i \in 1 .. Len(tx[d]) : Unsent(d) = {i}

\* A device has turned to unicast, or one has given up after a send error.
SomeSender == \E d \in Devices : param[d].unicast \/ task[d] = "gone"
============================================================================
