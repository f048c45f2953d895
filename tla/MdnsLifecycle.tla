---------------------------- MODULE MdnsLifecycle ----------------------------
(****************************************************************************)
(* mdns_init() and mdns_free() of src/mdns.c against the tasks they start   *)
(* and stop: the service task, the timer callback, the event loop and, by   *)
(* way of src/mdns_networking.c, the lwIP thread.  mdns_free() tells the    *)
(* service task to stop through the action queue and waits for it; the      *)
(* timer it only stops, which does not wait for a callback in progress.     *)
(*                                                                          *)
(* A PCB has at most one packet in the tx list, with a flag that says it    *)
(* was handed to the action queue.  Packets are addresses 1 .. MaxHeap,     *)
(* used again once freed.  What the actions do besides is the subject of    *)
(* MdnsResponder and MdnsSearch.  The application calls the interface from  *)
(* one task.                                                                *)
(*                                                                          *)
(* Operators named X_y (y a word for a fault) are faulty variants of X that *)
(* the mutation checks use; the specification does not.                     *)
(****************************************************************************)
EXTENDS Naturals, Sequences, FiniteSets, FiniteSetsExt, SequencesExt

CONSTANTS
    Pcbs,         \* the pairs of interface and protocol
    QueueLen,     \* MDNS_ACTION_QUEUE_LEN
    MaxHeap,      \* bound: packets allocated at once
    MaxInits      \* bound: calls of mdns_init()

ASSUME LifeAssumption == IsFiniteSet(Pcbs) /\ QueueLen \in Nat /\ MaxHeap \in Nat

VARIABLES
    _mdns_server,   \* allocated
    action_queue,   \* its actions: [type, packet]
    tx_queue_head,  \* the scheduled packets: [packet, pcb, queued]
    heap,           \* addresses of packets that are allocated
    services,       \* the server has services
    semaphore,      \* _mdns_service_semaphore exists
    task,           \* the service task: "none", "receive", or the action it has taken,
                    \* a record like those in the queue
    timer,          \* "off", "on", "stopping": the command waits for the timer task
    cb,             \* _mdns_timer_cb: "idle", or the function it is about to run
    registered,     \* the event handlers are registered
    pcbs,           \* PCBs that are up; the main one exists while there are any
    user,           \* where mdns_init() or mdns_free() stands
    inits,          \* calls of mdns_init() so far
    late,           \* history: the timer was stopped under a callback
    killed          \* history: the service task was deleted, not stopped

lifeVars == <<_mdns_server, action_queue, tx_queue_head, heap, services, semaphore, task,
              timer, cb, registered, pcbs, user, inits, late, killed>>

_pcb_main == pcbs # {}

action(type, p) == [type |-> type, packet |-> p]
noTask == action("none", 0)      \* there is no service task
receiving == action("receive", 0)  \* it waits for an action

LifeInit ==
    /\ _mdns_server = FALSE /\ action_queue = <<>> /\ tx_queue_head = <<>> /\ heap = {}
    /\ services = FALSE /\ semaphore = FALSE /\ task = noTask /\ timer = "off" /\ cb = "idle"
    /\ registered = FALSE /\ pcbs = {} /\ user = "idle" /\ inits = 0
    /\ late = FALSE /\ killed = FALSE

hasRoom == Len(action_queue) < QueueLen

(* xQueueSend() without waiting; an action that does not fit is freed.      *)
send(type, p) ==
    action_queue' = IF hasRoom THEN Append(action_queue, action(type, p)) ELSE action_queue

--------------------------------------------------------------------------------
(* What src/mdns_networking.c does in the lwIP thread.  Joining the group   *)
(* fails when the interface went down before its event came; leaving it may *)
(* fail in the same way, and nobody looks.                                  *)
_udp_join_group == BOOLEAN

(* The one socket that all PCBs share exists or can be opened.              *)
_udp_pcb_main_init == IF _pcb_main THEN {TRUE} ELSE BOOLEAN

(* The results that opening the PCB p may have.                             *)
_udp_pcb_init(p) ==
    IF ~_mdns_server \/ p \in pcbs THEN {FALSE}
    ELSE {joined /\ open : joined \in _udp_join_group, open \in _udp_pcb_main_init}

_mdns_pcb_init(p) ==
    \E ok \in _udp_pcb_init(p) : pcbs' = IF ok THEN pcbs \cup {p} ELSE pcbs

_mdns_pcb_deinit(p) == pcbs' = pcbs \ {p}

(* _mdns_free_tx_packet: the packets freed are given back.                  *)
_mdns_free_tx_packet(ps, freed) == ps \ freed

--------------------------------------------------------------------------------
(* mdns_init.  Where the first allocations fail nothing has changed.  A     *)
(* callback that outlives mdns_free() is taken to end before the next       *)
(* mdns_init(): one that does not would meet the new server.                *)
InitServer ==
    /\ user = "idle" /\ ~_mdns_server /\ inits < MaxInits /\ (late => cb = "idle")
    /\ _mdns_server' = TRUE
    /\ user' = "init_register" /\ inits' = inits + 1
    /\ killed' = FALSE
    /\ UNCHANGED <<action_queue, tx_queue_head, heap, services, semaphore, task, timer, cb,
                   registered, pcbs, late>>

InitRegister ==
    /\ user = "init_register"
    /\ \/ registered' = TRUE /\ user' = "init_pcbs"
       \/ UNCHANGED registered /\ user' = "init_undo"
    /\ UNCHANGED <<_mdns_server, action_queue, tx_queue_head, heap, services, semaphore, task,
                   timer, cb, pcbs, inits, late, killed>>

(* One by one the interfaces that have an address; packets may come in as   *)
(* soon as the first is open.  There is no host name yet, so nothing is     *)
(* scheduled.                                                               *)
InitPcbs ==
    /\ user = "init_pcbs"
    /\ \/ (\E p \in Pcbs \ pcbs : _mdns_pcb_init(p)) /\ UNCHANGED user
       \/ user' = "init_start" /\ UNCHANGED pcbs
    /\ UNCHANGED <<_mdns_server, action_queue, tx_queue_head, heap, services, semaphore, task,
                   timer, cb, registered, inits, late, killed>>

(* _mdns_service_task_start().  A timer that cannot be started leaves the   *)
(* semaphore for the next call; a task that cannot be created takes the     *)
(* timer, which has not fired yet, and the semaphore along.                 *)
InitStart ==
    /\ user = "init_start"
    /\ \/ timer' = "on" /\ task' = receiving /\ semaphore' = TRUE /\ user' = "idle"
       \/ UNCHANGED <<timer, task>> /\ semaphore' \in BOOLEAN /\ user' = "init_undo"
    /\ UNCHANGED <<_mdns_server, action_queue, tx_queue_head, heap, services, cb, registered,
                   pcbs, inits, late, killed>>

(* The labels at the end of mdns_init().                                    *)
InitUndo ==
    /\ user = "init_undo"
    /\ pcbs' = {} /\ registered' = FALSE
    /\ action_queue' = <<>> /\ _mdns_server' = FALSE
    /\ user' = "idle"
    /\ UNCHANGED <<tx_queue_head, heap, services, semaphore, task, timer, cb, inits, late,
                   killed>>

--------------------------------------------------------------------------------
(* mdns_free.  The services are cleared by the service task.                *)
FreeBegin ==
    /\ user = "idle" /\ _mdns_server
    /\ registered' = FALSE
    /\ IF services THEN send("SERVICES_CLEAR", 0) ELSE UNCHANGED action_queue
    /\ user' = "stop_timer"
    /\ UNCHANGED <<_mdns_server, tx_queue_head, heap, services, semaphore, task, timer, cb,
                   pcbs, inits, late, killed>>

_mdns_stop_timer ==
    /\ user = "stop_timer"
    /\ timer' = "stopping"
    /\ late' = (late \/ cb # "idle")
    /\ user' = "stop_task"
    /\ UNCHANGED <<_mdns_server, action_queue, tx_queue_head, heap, services, semaphore, task,
                   cb, registered, pcbs, inits, killed>>

(* Mutant: when the queue is full nothing is done about it.                 *)
TaskStop_notSent ==
    /\ user = "stop_task"
    /\ send("TASK_STOP", 0)
    /\ user' = "stop_wait"
    /\ UNCHANGED <<_mdns_server, tx_queue_head, heap, services, semaphore, task, timer, cb,
                   registered, pcbs, inits, late, killed>>

(* _mdns_service_task_stop(): the task is told to stop; when the queue is   *)
(* full it is deleted, whatever it is doing.                                *)
TaskStop ==
    /\ user = "stop_task"
    /\ send("TASK_STOP", 0)
    /\ IF hasRoom THEN UNCHANGED <<task, killed>> ELSE task' = noTask /\ killed' = TRUE
    /\ user' = "stop_wait"
    /\ UNCHANGED <<_mdns_server, tx_queue_head, heap, services, semaphore, timer, cb,
                   registered, pcbs, inits, late>>

(* Mutant: the end of the task is not waited for.                           *)
TaskStopWait_none ==
    /\ user = "stop_wait"
    /\ semaphore' = FALSE
    /\ user' = "free_pcbs"
    /\ UNCHANGED <<_mdns_server, action_queue, tx_queue_head, heap, services, task, timer, cb,
                   registered, pcbs, inits, late, killed>>

TaskStopWait ==
    /\ user = "stop_wait" /\ task = noTask
    /\ semaphore' = FALSE
    /\ user' = "free_pcbs"
    /\ UNCHANGED <<_mdns_server, action_queue, tx_queue_head, heap, services, task, timer, cb,
                   registered, pcbs, inits, late, killed>>

(* _mdns_pcb_deinit(), one PCB after the other, in the lwIP thread.         *)
FreePcb ==
    /\ user = "free_pcbs"
    /\ \/ (\E p \in pcbs : _mdns_pcb_deinit(p)) /\ UNCHANGED user
       \/ pcbs = {} /\ UNCHANGED pcbs /\ user' = "free_queue"
    /\ UNCHANGED <<_mdns_server, action_queue, tx_queue_head, heap, services, semaphore, task,
                   timer, cb, registered, inits, late, killed>>

(* _mdns_free_action(): the packet of a TX_HANDLE action is freed with it.  *)
freedByActions == {action_queue[i].packet : i \in DOMAIN action_queue} \ {0}

FreeQueue ==
    /\ user = "free_queue"
    /\ heap' = _mdns_free_tx_packet(heap, freedByActions)
    /\ action_queue' = <<>>
    /\ user' = "free_server"
    /\ UNCHANGED <<_mdns_server, tx_queue_head, services, semaphore, task, timer, cb, registered,
                   pcbs, inits, late, killed>>

listed == {e.packet : e \in Range(tx_queue_head)}

(* _mdns_clear_tx_queue_head() and the server itself.                       *)
FreeServer ==
    /\ user = "free_server"
    /\ heap' = _mdns_free_tx_packet(heap, listed)
    /\ tx_queue_head' = <<>>
    /\ _mdns_server' = FALSE
    /\ services' = FALSE
    /\ user' = "idle"
    /\ UNCHANGED <<action_queue, semaphore, task, timer, cb, registered, pcbs, inits, late,
                   killed>>

--------------------------------------------------------------------------------
(* What the application queues: a host name or a service, which starts      *)
(* probing.                                                                 *)
Api ==
    /\ user = "idle" /\ _mdns_server
    /\ \E type \in {"HOSTNAME_SET", "SERVICE_ADD"} : send(type, 0)
    /\ hasRoom
    /\ UNCHANGED <<_mdns_server, tx_queue_head, heap, services, semaphore, task, timer, cb,
                   registered, pcbs, user, inits, late, killed>>

event_handler ==
    /\ registered /\ hasRoom
    /\ send("SYSTEM_EVENT", 0)
    /\ UNCHANGED <<_mdns_server, tx_queue_head, heap, services, semaphore, task, timer, cb,
                   registered, pcbs, user, inits, late, killed>>

PacketReceived ==
    /\ _pcb_main /\ hasRoom
    /\ send("RX_HANDLE", 0)
    /\ UNCHANGED <<_mdns_server, tx_queue_head, heap, services, semaphore, task, timer, cb,
                   registered, pcbs, user, inits, late, killed>>

--------------------------------------------------------------------------------
(* The service task.  It takes an action and executes it under the lock.    *)
Receive ==
    /\ task = receiving /\ action_queue # <<>>
    /\ task' = IF Head(action_queue).type = "TASK_STOP" THEN noTask ELSE Head(action_queue)
    /\ action_queue' = Tail(action_queue)
    /\ UNCHANGED <<_mdns_server, tx_queue_head, heap, services, semaphore, timer, cb,
                   registered, pcbs, user, inits, late, killed>>

(* _mdns_clear_pcb_tx_queue_head(): the packets of the PCBs P leave the     *)
(* list and are freed, also one that was handed over.                       *)
kept(P) == {e \in Range(tx_queue_head) : e.pcb \notin P}

cleared(P) ==
    _mdns_free_tx_packet(heap, {e.packet : e \in {f \in Range(tx_queue_head) : f.pcb \in P}})

(* _mdns_schedule_tx_packet(): a packet goes where its time belongs, which  *)
(* may be anywhere; the others stay in their order.                         *)
scheduled(old, new) ==
    {q \in SetToSeqs(old \cup new) :
       \A i, j \in DOMAIN tx_queue_head, k, l \in DOMAIN q :
         i < j /\ tx_queue_head[i] \in old /\ tx_queue_head[j] \in old
           /\ q[k] = tx_queue_head[i] /\ q[l] = tx_queue_head[j] => k < l}

(* The PCBs P start probing; the ones in got get a packet to probe with, at *)
(* some free address.                                                       *)
startProbing(P) ==
    \E got \in SUBSET P : \E at \in [got -> (1 .. MaxHeap) \ cleared(P)] :
        /\ IsInjective(at)
        /\ heap' = cleared(P) \cup Range(at)
        /\ tx_queue_head' \in
             scheduled(kept(P), {[packet |-> at[p], pcb |-> p, queued |-> FALSE] : p \in got})

ExecProbe ==
    /\ task.type \in {"HOSTNAME_SET", "SERVICE_ADD"}
    /\ services' = (services \/ task.type = "SERVICE_ADD")
    /\ startProbing(pcbs)
    /\ UNCHANGED pcbs

(* An interface gets an address or loses it.  A PCB that is open probes     *)
(* again; one that cannot be opened stays as it is.                         *)
ExecSystemEvent ==
    /\ task.type = "SYSTEM_EVENT"
    /\ \E p \in Pcbs :
        \/ _mdns_pcb_init(p) /\ (p \in pcbs') /\ startProbing({p})
        \/ _mdns_pcb_init(p) /\ (p \notin pcbs') /\ UNCHANGED <<tx_queue_head, heap>>
        \/ /\ _mdns_pcb_deinit(p)
           /\ tx_queue_head' \in scheduled(kept({p}), {}) /\ heap' = cleared({p})
    /\ UNCHANGED services

ExecServicesClear ==
    /\ task.type = "SERVICES_CLEAR"
    /\ services' = FALSE
    /\ UNCHANGED <<tx_queue_head, heap, pcbs>>

ExecReceived ==
    /\ task.type = "RX_HANDLE"
    /\ UNCHANGED <<tx_queue_head, heap, pcbs, services>>

(* Only the first packet of the list is handled, and only if it is the one  *)
(* that was handed over.  It goes out, and is then freed or, while the PCB  *)
(* still probes or announces, scheduled again.                              *)
ExecTxHandle ==
    /\ task.type = "TX_HANDLE"
    /\ LET h == Head(tx_queue_head)
       IN IF tx_queue_head # <<>> /\ h.queued /\ h.packet = task.packet
          THEN \/ /\ tx_queue_head' = Tail(tx_queue_head)
                  /\ heap' = _mdns_free_tx_packet(heap, {h.packet})
               \/ /\ tx_queue_head' \in scheduled(Range(tx_queue_head) \ {h},
                                                 {[h EXCEPT !.queued = FALSE]})
                  /\ UNCHANGED heap
          ELSE UNCHANGED <<tx_queue_head, heap>>
    /\ UNCHANGED <<pcbs, services>>

Execute ==
    /\ semaphore /\ _mdns_server
    /\ \/ ExecProbe \/ ExecSystemEvent \/ ExecServicesClear \/ ExecReceived \/ ExecTxHandle
    /\ task' = receiving
    /\ UNCHANGED <<_mdns_server, action_queue, semaphore, timer, cb, registered, user, inits,
                   late, killed>>

--------------------------------------------------------------------------------
(* The timer task.  It may still call back before it sees the command.      *)
Expire ==
    /\ timer # "off" /\ cb = "idle"
    /\ cb' = "scheduler"
    /\ late' = (late \/ timer = "stopping")
    /\ UNCHANGED <<_mdns_server, action_queue, tx_queue_head, heap, services, semaphore, task,
                   timer, registered, pcbs, user, inits, killed>>

Stopped ==
    /\ timer = "stopping" /\ cb = "idle"
    /\ timer' = "off"
    /\ UNCHANGED <<_mdns_server, action_queue, tx_queue_head, heap, services, semaphore, task,
                   cb, registered, pcbs, user, inits, late, killed>>

unqueued == {i \in DOMAIN tx_queue_head : ~tx_queue_head[i].queued}

(* The first packet that was not handed over yet, if it is due and there is *)
(* room.                                                                    *)
_mdns_scheduler_run ==
    /\ cb = "scheduler" /\ semaphore /\ _mdns_server
    /\ cb' = "search"
    /\ \/ /\ unqueued # {} /\ hasRoom
          /\ send("TX_HANDLE", tx_queue_head[Min(unqueued)].packet)
          /\ tx_queue_head' = [tx_queue_head EXCEPT ![Min(unqueued)].queued = TRUE]
       \/ UNCHANGED <<action_queue, tx_queue_head>>
    /\ UNCHANGED <<_mdns_server, heap, services, semaphore, task, timer, registered, pcbs,
                   user, inits, late, killed>>

(* The searches are left to MdnsSearch; the lock and the server are needed. *)
SearchRun ==
    /\ cb = "search" /\ semaphore /\ _mdns_server
    /\ cb' = "idle"
    /\ UNCHANGED <<_mdns_server, action_queue, tx_queue_head, heap, services, semaphore, task,
                   timer, registered, pcbs, user, inits, late, killed>>

--------------------------------------------------------------------------------
mdns_init == InitServer \/ InitRegister \/ InitPcbs \/ InitStart \/ InitUndo
mdns_free == _mdns_stop_timer \/ TaskStop \/ TaskStopWait \/ FreePcb \/ FreeQueue \/ FreeServer
_mdns_service_task == Receive \/ Execute
_mdns_timer_cb == Expire \/ Stopped \/ _mdns_scheduler_run \/ SearchRun

LifeNext == mdns_init \/ FreeBegin \/ mdns_free \/ Api \/ event_handler \/ PacketReceived
                \/ _mdns_service_task \/ _mdns_timer_cb

LifeSpec == LifeInit /\ [][LifeNext]_lifeVars

(* What runs again and again: a task in mdns_free() and the service task.   *)
(* Nobody needs to send packets or events.                                  *)
LifeTask(k) == (k = 1 /\ mdns_free) \/ (k = 2 /\ _mdns_service_task)

--------------------------------------------------------------------------------
(* A packet is in the tx list and, once handed over, in an action too; both *)
(* free it when mdns_free() takes them down.  It is freed once, unless the  *)
(* service task was deleted because the action queue was full, or a late    *)
(* callback queued it behind TASK_STOP.                                     *)
FreedOnce ==
    ~killed /\ ~late =>
        /\ listed \subseteq heap
        /\ user = "free_queue" => freedByActions = {}

(* Nobody is left who could touch the server, its queue or the semaphore    *)
(* after they are gone: not the service task, the event loop or the lwIP    *)
(* thread, through every order of init, failure, free and their steps.  The *)
(* timer callback is only safe when it was not under way, or begun again,   *)
(* while the timer was being stopped.  And what is freed is freed once.     *)
NobodyLeft ==
    /\ task # noTask => _mdns_server /\ semaphore
    /\ registered \/ _pcb_main => _mdns_server
    /\ cb # "idle" /\ ~late => _mdns_server /\ semaphore
    /\ user = "idle" /\ ~_mdns_server =>
        /\ action_queue = <<>> /\ tx_queue_head = <<>> /\ heap = {}
        /\ timer # "on"
    /\ FreedOnce

(* A task is in mdns_free().                                                *)
Freeing == user \in {"stop_timer", "stop_task", "stop_wait", "free_pcbs", "free_queue", "free_server"}
================================================================================
