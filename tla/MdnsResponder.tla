----------------------------- MODULE MdnsResponder -----------------------------
(****************************************************************************)
(* The mDNS responder of src/mdns.c and src/mdns_networking.c.              *)
(*                                                                          *)
(* Four kinds of task meet in it.  Application tasks call the mdns_* API,   *)
(* the system event task reports interfaces coming and going, and the lwIP  *)
(* thread delivers received packets: each of these appends an action to a   *)
(* bounded queue.  The service task takes one action at a time and executes *)
(* it under a lock.  The timer task takes the same lock every 100 ms, looks *)
(* for a scheduled packet whose time has come and appends an action for it. *)
(*                                                                          *)
(* A PCB (one interface and IP version) probes for its names, announces     *)
(* them and then answers questions.  The responder keeps the packets it     *)
(* will send in a list sorted by time.                                      *)
(*                                                                          *)
(* Abstractions.  A name is not spelled out: what counts is whether the     *)
(* host name, the default instance name and a service's own instance name   *)
(* are set, and which probes were sent since a name was chosen.  A packet   *)
(* is the set of names it asks for and the set of names it has records of.  *)
(* A received packet is one question or one record with its verdict.        *)
(* Time is kept as the time left until a packet is due.  Memory allocation  *)
(* succeeds.  Each service type is managed by one task, which waits for     *)
(* mdns_service_add to take effect before its next call.                    *)
(*                                                                          *)
(* Operators named X_y (y a word for a fault) are faulty variants of X that *)
(* the mutation checks use; the specification does not.                     *)
(****************************************************************************)
EXTENDS Integers, Sequences, FiniteSets, SequencesExt

CONSTANTS
    PcbOrder,       \* the PCBs <<interface, protocol>>, in the order the loops visit them
    Services,       \* service types, and the objects that hold them
    Host,           \* stands for the host name in questions and records
    MaxServices,    \* MDNS_MAX_SERVICES
    QueueLength,    \* MDNS_ACTION_QUEUE_LEN
    ProbeDelays,    \* 120 ms and up to 127 ms more, in ticks
    SlowProbe,      \* 880 ms more after many failed probes
    FailedLimit,    \* 5 failed probes
    ProbeInterval,  \* 250 ms
    AnnounceInterval, \* 1000 ms
    ShareDelays,    \* 25 to 100 ms
    WrapAt,         \* ticks until the 32-bit millisecond clock wraps; 0: wrapped long ago
    Inputs,         \* bound: the kinds of input the environment gives
    MaxInputs       \* bound: how many

VARIABLES
    hostname,    \* BOOLEAN: a host name is set
    instance,    \* BOOLEAN: a default instance name is set
    services,    \* SUBSET Services: the registered services
    ownInstance, \* [Services -> BOOLEAN]: the service has its own instance name
    pcbs,        \* [Pcbs -> mdns_pcb_t]
    txq,         \* tx_queue_head: the scheduled packets
    queue,       \* action_queue
    toWrap,      \* ticks until the millisecond clock wraps
    fault,       \* freed or absent memory was used: nothing more is said
    inputs,      \* inputs so far
    probes,      \* history: [Pcbs -> [Names -> 0 .. 4]] probes sent for a name, or CutShort
    wire         \* history: <<PCB, name, probes>>: names whose records the last step sent

server == <<hostname, instance, services, ownInstance, pcbs, txq>>
vars == <<server, queue, toWrap, fault, inputs, probes, wire>>

Pcbs == ToSet(PcbOrder)
Names == Services \cup {Host}
CutShort == 4   \* in probes: the probing of the name was given up

(* mdns_pcb_state_t *)
PCB_OFF == 0
PCB_DUP == 1
PCB_INIT == 2
PCB_PROBE_1 == 3
PCB_PROBE_3 == 5
PCB_ANNOUNCE_1 == 6
PCB_ANNOUNCE_3 == 8
PCB_RUNNING == 9

ASSUME MdnsAssumption ==
    /\ PcbOrder \in Seq({"STA", "AP", "ETH"} \X {"V4", "V6"}) /\ IsInjective(PcbOrder)
    /\ IsFiniteSet(Services) /\ Host \notin Services
    /\ QueueLength \in Nat \ {0} /\ MaxServices \in Nat /\ MaxInputs \in Nat
    /\ ProbeDelays \subseteq Nat /\ ShareDelays \subseteq Nat
    /\ {SlowProbe, ProbeInterval, AnnounceInterval, WrapAt, FailedLimit} \subseteq Nat

--------------------------------------------------------------------------------
(* A PCB, and the packets scheduled for it.  The operators below take and   *)
(* return m, the part of the state a handler works on:                      *)
(* [hostname, pcbs, txq, probes, wire].                                     *)
Closed == [up |-> FALSE, state |-> PCB_OFF, services |-> {}, ip |-> FALSE,
           running |-> FALSE, failed |-> 0]

PCB_STATE_IS_PROBING(pcb) == pcb.state > PCB_OFF /\ pcb.state < PCB_ANNOUNCE_1
PCB_STATE_IS_ANNOUNCING(pcb) == pcb.state > PCB_PROBE_3 /\ pcb.state < PCB_RUNNING

server_m == [hostname |-> hostname, pcbs |-> pcbs, txq |-> txq, probes |-> probes, wire |-> {}]

setPcb(m, p, pcb) == [m EXCEPT !.pcbs[p] = pcb]
setState(m, p, state) == setPcb(m, p, [m.pcbs[p] EXCEPT !.state = state])

(* The address malloc returns for a new packet.                             *)
newId(m) ==
    CHOOSE n \in 1 .. Len(m.txq) + 1 : \A k \in 1 .. Len(m.txq) : m.txq[k].id # n

packet(m, p) ==
    [id |-> newId(m), pcb |-> p, questions |-> {}, servers |-> {}, answers |-> {},
     additional |-> {}, distributed |-> FALSE, queued |-> FALSE, due |-> 0, late |-> FALSE]

(* send_at of q is after send_at of x, compared as unsigned numbers: one    *)
(* that lies past the wrap is smaller than one before it.                   *)
after(q, x) == IF q.late # x.late THEN x.late ELSE q.due > x.due

(* The first place of a list that is in K, 0 if there is none.              *)
First(K) == IF K = {} THEN 0 ELSE Min(K)

schedule(m, x, ms) ==
    LET y == [x EXCEPT !.due = ms, !.late = ms >= toWrap]
        k == First({i \in 1 .. Len(m.txq) : after(m.txq[i], y)})
    IN [m EXCEPT !.txq = IF k = 0 THEN Append(@, y) ELSE InsertAt(@, k, y)]

(* The loops over lists: each has its body, and an instance of Loop.        *)
keep(x, list, k) == IF k \in x.drop THEN list ELSE Append(list, x.list[k])
kept == INSTANCE Loop WITH Step <- keep

(* The list without the places in drop.                                     *)
without(list, drop) == kept!loop([list |-> list, drop |-> drop], <<>>, Len(list))

packetsOf(m, p) == {k \in 1 .. Len(m.txq) : m.txq[k].pcb = p}

clear_pcb_tx_queue(m, p) == [m EXCEPT !.txq = without(@, packetsOf(m, p))]

(* A packet goes out on an open PCB; lwIP refuses it on a closed one.  The  *)
(* histories record the probes sent for a name and the names answered for.  *)
dispatch(m, x) ==
    IF ~m.pcbs[x.pcb].up THEN m
    ELSE [m EXCEPT !.probes[x.pcb] =
                [n \in Names |-> CASE n \in x.servers /\ @[n] < 3 -> @[n] + 1
                                   [] n \in x.servers /\ @[n] = CutShort -> 1
                                   [] OTHER -> @[n]],
             !.wire = @ \cup {<<x.pcb, n, m.probes[x.pcb][n]>> : n \in x.answers}]

(* A name on a PCB has to be probed again: a conflict, a new name, its     *)
(* service was removed, or the PCB was closed.                              *)
forget(m, ps, ns) ==
    [m EXCEPT !.probes = [p \in Pcbs |-> [n \in Names |->
        IF p \in ps /\ n \in ns THEN 0 ELSE @[p][n]]]]

(* The lists of a packet hold a record once.                                *)
alloc_answer(list, names) == list \cup names
dealloc_answer(list, name) == list \ {name}

get_next_pcb_packet(m, p) == First(packetsOf(m, p))

withIp(names, include_ip) == names \cup (IF include_ip THEN {Host} ELSE {})

--------------------------------------------------------------------------------
(* Probing and announcing.                                                  *)
create_probe_packet(m, p, svcs, ip) ==
    [packet(m, p) EXCEPT !.questions = withIp(svcs, ip), !.servers = withIp(svcs, ip)]

create_announce_packet(m, p, svcs, ip) ==
    [packet(m, p) EXCEPT !.answers = alloc_answer({}, withIp(svcs, ip))]

init_pcb_probe_new_service(m, p, svcs, ip, delay) ==
    LET pcb == m.pcbs[p]
        all == IF PCB_STATE_IS_PROBING(pcb) THEN svcs \cup pcb.services ELSE svcs
        all_ip == pcb.ip \/ ip
        wait == delay + (IF pcb.failed > FailedLimit THEN SlowProbe ELSE 0)
    IN setPcb(schedule(m, create_probe_packet(m, p, all, all_ip), wait), p,
              [pcb EXCEPT !.ip = all_ip, !.services = all, !.running = TRUE,
                          !.state = PCB_PROBE_1])

init_pcb_probe_clearsLast(m, p, svcs, ip, delay) ==
    IF ~m.hostname THEN setState(clear_pcb_tx_queue(m, p), p, PCB_RUNNING)
    ELSE clear_pcb_tx_queue(init_pcb_probe_new_service(m, p, svcs, ip, delay), p)

init_pcb_probe(m, p, svcs, ip, delay) ==
    LET n == clear_pcb_tx_queue(m, p)
    IN IF ~m.hostname THEN setState(n, p, PCB_RUNNING)
       ELSE init_pcb_probe_new_service(n, p, svcs, ip, delay)

restart_pcb(m, p, svcs, delay) == init_pcb_probe(m, p, svcs, TRUE, delay)

probe_pcb(x, m, k) ==
    LET p == PcbOrder[k]
        pcb == m.pcbs[p]
        clear == [pcb EXCEPT !.services = {}, !.running = FALSE]
    IN IF ~pcb.up THEN m
       ELSE init_pcb_probe(IF x.clear THEN setPcb(m, p, clear) ELSE m,
                           p, x.services, x.ip, x.delay[p])
probed == INSTANCE Loop WITH Step <- probe_pcb

probe_all_pcbs(m, svcs, ip, clearOld, delay) ==
    probed!loop([services |-> svcs, ip |-> ip, clear |-> clearOld, delay |-> delay],
                m, Len(PcbOrder))

withoutInstance == {s \in services : ~ownInstance[s]}

restart_all_pcbs(m, delay) ==
    probe_all_pcbs([m EXCEPT !.txq = <<>>], services, TRUE, TRUE, delay)

(* The probe lists are emptied, and only the services that take the default *)
(* instance name are probed for again: the history marks the others.        *)
cut_short(m) ==
    [m EXCEPT !.probes = [p \in Pcbs |-> [n \in Names |->
        IF m.pcbs[p].up /\ n \in m.pcbs[p].services \ withoutInstance /\ @[p][n] < 3
        THEN CutShort ELSE @[p][n]]]]

restart_all_pcbs_no_instance(m, delay) ==
    IF withoutInstance = {} THEN m
    ELSE probe_all_pcbs(cut_short(m), withoutInstance, FALSE, TRUE, delay)

(* New records join the announcement in progress, or start one.             *)
join_announcement(m, p, k, svcs, ip) ==
    LET q == m.txq[k]
        more == alloc_answer(q.answers, withIp(svcs, ip))
        rest == IF ip THEN dealloc_answer(q.additional, Host) ELSE q.additional
    IN setState([m EXCEPT !.txq[k] = [q EXCEPT !.answers = more, !.additional = rest]],
                p, PCB_ANNOUNCE_1)

start_announcement(m, p, svcs, ip) ==
    schedule(setState(m, p, PCB_ANNOUNCE_1), create_announce_packet(m, p, svcs, ip), 0)

announce_pcb(m, p, svcs, ip, delay) ==
    LET pcb == m.pcbs[p]
        k == get_next_pcb_packet(m, p)
    IN CASE ~pcb.up -> m
         [] pcb.up /\ PCB_STATE_IS_PROBING(pcb) -> init_pcb_probe(m, p, svcs, ip, delay)
         [] pcb.up /\ PCB_STATE_IS_ANNOUNCING(pcb) /\ k # 0 ->
               join_announcement(m, p, k, svcs, ip)
         [] pcb.up /\ pcb.state = PCB_RUNNING /\ m.hostname ->
               start_announcement(m, p, svcs, ip)
         [] OTHER -> m

announce_next(x, m, k) ==
    announce_pcb(m, PcbOrder[k], x.services, x.ip, x.delay[PcbOrder[k]])
announced == INSTANCE Loop WITH Step <- announce_next

announce_all_pcbs(m, svcs, ip, delay) ==
    announced!loop([services |-> svcs, ip |-> ip, delay |-> delay], m, Len(PcbOrder))

(* Goodbyes: records with a lifetime of zero, sent at once where the PCB is *)
(* running.                                                                 *)
pcb_send_bye(m, p, svcs, ip) ==
    dispatch(m, [packet(m, p) EXCEPT !.answers = alloc_answer({}, withIp(svcs, ip))])

bye_next(x, m, k) ==
    LET p == PcbOrder[k]
    IN IF m.pcbs[p].up /\ m.pcbs[p].state = PCB_RUNNING
       THEN pcb_send_bye(m, p, x.services, x.ip) ELSE m
left == INSTANCE Loop WITH Step <- bye_next

send_bye(m, svcs, ip) ==
    IF ~m.hostname THEN m
    ELSE left!loop([services |-> svcs, ip |-> ip], m, Len(PcbOrder))

send_final_bye(m, ip) == IF withoutInstance = {} THEN m ELSE send_bye(m, withoutInstance, ip)

send_bye_all_pcbs_no_instance(m) ==
    IF withoutInstance = {} THEN m ELSE send_bye(m, withoutInstance, FALSE)

(* The head of the list is sent, and drives the state of its PCB.           *)
tx_handle_packet(m, x) ==
    LET p == x.pcb
        n == dispatch(m, x)
        pcb == n.pcbs[p]
    IN CASE pcb.state = PCB_OFF -> m
         [] pcb.state \in PCB_PROBE_1 .. PCB_PROBE_3 - 1 ->
               setState(schedule(n, x, ProbeInterval), p, pcb.state + 1)
         [] pcb.state = PCB_PROBE_3 ->
               setPcb(schedule(n, [packet(n, p) EXCEPT !.answers = x.servers], ProbeInterval), p,
                      [pcb EXCEPT !.running = FALSE, !.ip = FALSE, !.services = {},
                                  !.failed = 0, !.state = PCB_ANNOUNCE_1])
         [] pcb.state \in PCB_ANNOUNCE_1 .. PCB_ANNOUNCE_3 - 1 ->
               setState(schedule(n, x, AnnounceInterval), p, pcb.state + 1)
         [] pcb.state = PCB_ANNOUNCE_3 -> setState(n, p, PCB_RUNNING)
         [] OTHER -> n

--------------------------------------------------------------------------------
(* Removing a service from everything that is scheduled.                    *)
remove_scheduled_service_packets_listOnly(m, s) ==
    [m EXCEPT !.pcbs = [p \in Pcbs |-> [@[p] EXCEPT !.services = @ \ {s}]]]

remove_scheduled_service_packets_packetsOnly(m, s) ==
    [m EXCEPT !.txq = [k \in 1 .. Len(@) |->
        [@[k] EXCEPT !.answers = @ \ {s}, !.servers = @ \ {s}, !.questions = @ \ {s}]]]

dealloc_scheduled_service_answers(list, s) == list \ {s}

(* The packet at place k, and its PCB, which stops probing or announcing    *)
(* when nothing is left to probe for or to announce.                        *)
remove_from_packet(s, m, k) ==
    LET q == m.txq[k]
        pcb == m.pcbs[q.pcb]
        probes_it == pcb.up /\ PCB_STATE_IS_PROBING(pcb) /\ s \in pcb.services
        answers == dealloc_scheduled_service_answers(q.answers, s)
        ends == \/ probes_it /\ pcb.services = {s} /\ ~pcb.ip
                \/ /\ pcb.up /\ PCB_STATE_IS_ANNOUNCING(pcb)
                   /\ q.answers # {} /\ answers = {}
    IN [m EXCEPT
          !.txq[k] = [q EXCEPT !.answers = answers,
                               !.additional = dealloc_scheduled_service_answers(@, s),
                               !.servers = dealloc_scheduled_service_answers(@, s),
                               !.questions = IF probes_it THEN @ \ {s} ELSE @],
          !.pcbs[q.pcb] = [pcb EXCEPT !.services = IF probes_it THEN @ \ {s} ELSE @,
                                      !.running = IF probes_it /\ ends THEN FALSE ELSE @,
                                      !.state = IF ends THEN PCB_RUNNING ELSE @]]
removed == INSTANCE Loop WITH Step <- remove_from_packet

empty(q) == q.questions \cup q.servers \cup q.answers \cup q.additional = {}

remove_scheduled_service_packets(m, s) ==
    LET n == removed!loop(s, forget(m, Pcbs, {s}), Len(m.txq))
    IN [n EXCEPT !.txq = without(@, {k \in 1 .. Len(@) : empty(@[k])})]

remove_next(x, m, k) == remove_scheduled_service_packets(m, x[k])
cleared == INSTANCE Loop WITH Step <- remove_next

(* Known answers heard from others are taken out of a delayed answer to a   *)
(* truncated question; last tells whether it was the name's last record.    *)
drop_answer(q, p, n, last) ==
    IF q.pcb = p /\ q.distributed /\ last THEN [q EXCEPT !.answers = @ \ {n}] ELSE q

remove_scheduled_answer(m, p, n, last) ==
    [m EXCEPT !.txq = [k \in 1 .. Len(@) |-> drop_answer(@[k], p, n, last)]]

(* The search reads the first answer of such a packet without a check.      *)
noAnswerLeft(m, p) ==
    \E k \in 1 .. Len(m.txq) :
        m.txq[k].pcb = p /\ m.txq[k].distributed /\ m.txq[k].answers = {}

--------------------------------------------------------------------------------
(* Interfaces.                                                              *)
get_other_if(i) == CASE i = "STA" -> "ETH" [] i = "ETH" -> "STA" [] OTHER -> "MAX"

pcb_deinit(m, p) == [forget(m, {p}, Names) EXCEPT !.pcbs[p] = Closed]

(* joined: the multicast group could be joined and the socket bound.        *)
enable_pcb(m, p, joined, delay) ==
    IF p \notin Pcbs \/ ~(m.pcbs[p].up \/ joined) THEN m
    ELSE restart_pcb(IF m.pcbs[p].up THEN m
                     ELSE [m EXCEPT !.pcbs[p].up = TRUE, !.pcbs[p].failed = 0],
                     p, services, delay[p])

disable_pcb(m, p, joined, delay) ==
    LET other == <<get_other_if(p[1]), p[2]>>
        n == pcb_deinit(clear_pcb_tx_queue(m, p), p)
        o == IF other \in Pcbs /\ n.pcbs[other].state = PCB_DUP
             THEN enable_pcb(setState(n, other, PCB_OFF), other, joined, delay)
             ELSE n
    IN IF p \notin Pcbs THEN m
       ELSE setState(IF m.pcbs[p].up THEN o ELSE m, p, PCB_OFF)

(* The other interface is on the same subnet: this one is stopped.          *)
dup_pcb(x, m, k) ==
    LET p == PcbOrder[k]
        other == <<get_other_if(x.if), p[2]>>
        c == IF m.pcbs[p].up THEN pcb_deinit(clear_pcb_tx_queue(m, p), p) ELSE m
    IN IF p[1] # x.if \/ other \notin Pcbs \/ ~m.pcbs[other].up THEN m
       ELSE announce_pcb(setState(c, p, PCB_DUP), other, {}, TRUE, x.delay[other])
duplicates == INSTANCE Loop WITH Step <- dup_pcb

dup_interface(m, i, delay) == duplicates!loop([if |-> i, delay |-> delay], m, Len(PcbOrder))

(* An interface is stopped or started by an event of the system.            *)
disable_if(m, i, joined, delay) ==
    disable_pcb(disable_pcb(m, <<i, "V4">>, joined, delay), <<i, "V6">>, joined, delay)

(* The PCB of the other protocol announces the new address.                 *)
enable_if(m, i, v, w, joined, delay) ==
    LET n == enable_pcb(m, <<i, v>>, joined, delay)
    IN IF <<i, w>> \in Pcbs THEN announce_pcb(n, <<i, w>>, {}, TRUE, delay[<<i, w>>]) ELSE n

handle_system_event(m, e, joined, delay) ==
    CASE e.event = "CONNECTED" -> enable_pcb(m, <<e.if, "V4">>, joined, delay)
      [] e.event = "DISCONNECTED" -> disable_if(m, e.if, joined, delay)
      [] e.event = "GOT_IP" -> enable_if(m, e.if, "V4", "V6", joined, delay)
      [] e.event = "GOT_IP6" -> enable_if(m, e.if, "V6", "V4", joined, delay)

--------------------------------------------------------------------------------
(* Inputs: calls of the API, system events and received packets, each an    *)
(* action for the service task.  When the queue is full they are refused or *)
(* dropped.                                                                 *)
SystemEvents ==
    [type : {"SYSTEM_EVENT"}, event : {"CONNECTED", "DISCONNECTED"}, if : {"STA", "AP"}]
        \cup [type : {"SYSTEM_EVENT"}, event : {"GOT_IP"}, if : {"STA"}]
        \cup [type : {"SYSTEM_EVENT"}, event : {"GOT_IP6"}, if : {"STA", "AP", "ETH"}]

send(kind, a) ==
    /\ ~fault /\ kind \in Inputs /\ inputs < MaxInputs /\ Len(queue) < QueueLength
    /\ queue' = Append(queue, a)
    /\ inputs' = inputs + 1
    /\ wire' = {}
    /\ UNCHANGED <<server, toWrap, fault, probes>>

event_handler(e) == e.if \in {p[1] : p \in Pcbs} /\ send(e.event, e)

mdns_hostname_set == send("HOSTNAME_SET", [type |-> "HOSTNAME_SET"])

mdns_instance_name_set == send("INSTANCE_SET", [type |-> "INSTANCE_SET"])

get_service_item(s) == s \in services

can_add_more_services == Cardinality(services) < MaxServices

mdns_service_add(s, own) ==
    /\ can_add_more_services /\ ~get_service_item(s)
    /\ \A k \in 1 .. Len(queue) : ~(queue[k].type = "SERVICE_ADD" /\ queue[k].service = s)
    /\ send("SERVICE_ADD", [type |-> "SERVICE_ADD", service |-> s, own |-> own])

(* mdns_service_port_set, the mdns_service_txt_* calls,                     *)
(* mdns_service_instance_name_set and mdns_service_remove look the service  *)
(* up and send a pointer to it.                                             *)
ServiceActions == {"SERVICE_PORT_SET", "SERVICE_TXT_SET", "SERVICE_TXT_DEL",
                   "SERVICE_INSTANCE_SET", "SERVICE_DEL"}

mdns_service_call(type, s) ==
    get_service_item(s) /\ send(type, [type |-> type, service |-> s])

mdns_service_remove_all == services # {} /\ send("SERVICES_CLEAR", [type |-> "SERVICES_CLEAR"])

(* The verdicts on a received question or record that is about our names.   *)
RxKinds ==
    [kind : {"question"}, name : Services, truncated : BOOLEAN]
        \cup [kind : {"unique"}, name : Names]
        \cup [kind : {"known"}, name : Names, last : BOOLEAN]
        \cup [kind : {"srvConflict", "txtConflict"}, name : Services]
        \cup [kind : {"addrConflict", "addrOther"}, name : {Host}]

_udp_recv(p, rx) ==
    /\ pcbs[p].up
    /\ rx.kind = "addrOther" => get_other_if(p[1]) # "MAX"
    /\ send(rx.kind, [type |-> "RX_HANDLE", pcb |-> p, rx |-> rx])

--------------------------------------------------------------------------------
(* The service task executes one action under the lock.                     *)
executes(type) == ~fault /\ queue # <<>> /\ Head(queue).type = type

done(m) ==
    /\ \E n \in {m} :
           /\ hostname' = n.hostname /\ pcbs' = n.pcbs /\ txq' = n.txq
           /\ probes' = n.probes /\ wire' = n.wire
    /\ queue' = Tail(queue)
    /\ UNCHANGED <<toWrap, inputs>>

crash ==
    /\ fault' = TRUE /\ wire' = {} /\ queue' = Tail(queue)
    /\ UNCHANGED <<server, toWrap, inputs, probes>>

Delays == [Pcbs -> ProbeDelays]

ExecSystemEvent ==
    /\ executes("SYSTEM_EVENT")
    /\ \E joined \in BOOLEAN, delay \in Delays :
           done(handle_system_event(server_m, Head(queue), joined, delay))
    /\ UNCHANGED <<instance, services, ownInstance, fault>>

ExecHostnameSet ==
    /\ executes("HOSTNAME_SET")
    /\ \E delay \in Delays :
           done(restart_all_pcbs([forget(send_final_bye(server_m, TRUE), Pcbs, Names)
                                      EXCEPT !.hostname = TRUE], delay))
    /\ UNCHANGED <<instance, services, ownInstance, fault>>

ExecInstanceSet ==
    /\ executes("INSTANCE_SET")
    /\ instance' = TRUE
    /\ \E delay \in Delays :
           done(restart_all_pcbs_no_instance(
                    forget(send_bye_all_pcbs_no_instance(server_m), Pcbs, withoutInstance), delay))
    /\ UNCHANGED <<services, ownInstance, fault>>

ExecServiceAdd ==
    /\ executes("SERVICE_ADD")
    /\ LET s == Head(queue).service
       IN /\ services' = services \cup {s}
          /\ ownInstance' = [ownInstance EXCEPT ![s] = Head(queue).own]
          /\ \E delay \in Delays : done(probe_all_pcbs(server_m, {s}, FALSE, FALSE, delay))
    /\ UNCHANGED <<instance, fault>>

(* The pointer may be stale: the service was removed meanwhile.             *)
ExecServiceInstanceSet ==
    /\ executes("SERVICE_INSTANCE_SET")
    /\ LET s == Head(queue).service
       IN \/ s \notin services /\ crash
          \/ /\ s \in services
             /\ ownInstance' = [ownInstance EXCEPT ![s] = TRUE]
             /\ \E delay \in Delays :
                    LET m == IF ownInstance[s] THEN send_bye(server_m, {s}, FALSE) ELSE server_m
                    IN done(probe_all_pcbs(forget(m, Pcbs, {s}), {s}, FALSE, FALSE, delay))
             /\ UNCHANGED <<instance, services, fault>>

(* Removing a TXT item from a service that has none announces nothing.      *)
ExecServiceUpdate ==
    \E type \in {"SERVICE_PORT_SET", "SERVICE_TXT_SET", "SERVICE_TXT_DEL"} :
        /\ executes(type)
        /\ LET s == Head(queue).service
           IN \/ s \notin services /\ crash
              \/ /\ s \in services
                 /\ \E delay \in Delays :
                        done(announce_all_pcbs(server_m, {s}, type = "SERVICE_PORT_SET", delay))
                 /\ UNCHANGED <<instance, services, ownInstance, fault>>
              \/ /\ s \in services /\ type = "SERVICE_TXT_DEL"
                 /\ done(server_m)
                 /\ UNCHANGED <<instance, services, ownInstance, fault>>

(* The list is walked without a check that it has an element.               *)
ExecServiceDel ==
    /\ executes("SERVICE_DEL")
    /\ LET s == Head(queue).service
       IN \/ services = {} /\ crash
          \/ /\ services # {}
             /\ services' = services \ {s}
             /\ done(IF s \in services
                     THEN remove_scheduled_service_packets(send_bye(server_m, {s}, FALSE), s)
                     ELSE server_m)
             /\ UNCHANGED <<instance, ownInstance, fault>>

ExecServicesClear ==
    /\ executes("SERVICES_CLEAR")
    /\ services' = {}
    /\ done(cleared!loop(SetToSeq(services), send_final_bye(server_m, FALSE),
                         Cardinality(services)))
    /\ UNCHANGED <<instance, ownInstance, fault>>

(* A stale action: its packet is gone, or not at the head of the list.      *)
ExecTxHandle_staysQueued ==
    /\ executes("TX_HANDLE")
    /\ done(IF txq # <<>> /\ Head(txq).id = Head(queue).packet /\ Head(txq).queued
            THEN tx_handle_packet([server_m EXCEPT !.txq = Tail(@)], Head(txq))
            ELSE server_m)
    /\ UNCHANGED <<instance, services, ownInstance, fault>>

ExecTxHandle ==
    /\ executes("TX_HANDLE")
    /\ done(IF txq # <<>> /\ Head(txq).id = Head(queue).packet /\ Head(txq).queued
            THEN tx_handle_packet([server_m EXCEPT !.txq = Tail(@)],
                                  [Head(txq) EXCEPT !.queued = FALSE])
            ELSE server_m)
    /\ UNCHANGED <<instance, services, ownInstance, fault>>

--------------------------------------------------------------------------------
(* mdns_parse_packet, and the actions it takes on our names.                *)
(* A service without a name of its own takes the default one, or the host's. *)
get_service_instance_name(s) == ownInstance[s] \/ instance \/ hostname

ours(n) ==
    IF n = Host THEN hostname ELSE get_service_item(n) /\ get_service_instance_name(n)

(* Questions are answered once the PCB has probed its names: at once when   *)
(* only we can answer, after a random delay when others may.                *)
answer_afterTwoProbes(m, p, rx, wait) ==
    IF ~hostname \/ ~ours(rx.name) \/ m.pcbs[p].state < PCB_PROBE_3 THEN m
    ELSE dispatch(m, [packet(m, p) EXCEPT !.answers = {rx.name, Host}])

answer(m, p, rx, wait) ==
    IF ~hostname \/ ~ours(rx.name) \/ m.pcbs[p].state =< PCB_PROBE_3 THEN m
    ELSE IF rx.kind = "question"
         THEN schedule(m, [packet(m, p) EXCEPT !.answers = {rx.name}, !.additional = {Host},
                                               !.distributed = rx.truncated], wait)
         ELSE dispatch(m, [packet(m, p) EXCEPT !.answers = {rx.name, Host}])

(* Another host claims our service's name.                                  *)
failedProbe(m, p) == [m EXCEPT !.pcbs[p].failed = IF @ =< FailedLimit THEN @ + 1 ELSE @]

srv_conflict(m, p, s, delay) ==
    CASE ~m.pcbs[p].running ->
            init_pcb_probe(forget(pcb_send_bye(m, p, {s}, FALSE), {p}, {s}),
                           p, {s}, FALSE, delay[p])
      [] m.pcbs[p].running /\ ownInstance[s] ->
            probe_all_pcbs(forget(failedProbe(m, p), Pcbs, {s}), {s}, FALSE, FALSE, delay)
      [] m.pcbs[p].running /\ ~ownInstance[s] /\ instance ->
            restart_all_pcbs_no_instance(forget(failedProbe(m, p), Pcbs, withoutInstance), delay)
      [] OTHER -> restart_all_pcbs(forget(failedProbe(m, p), Pcbs, Names), delay)

(* The TXT record differs from ours.                                        *)
txt_conflict(m, p, s, delay) ==
    IF m.pcbs[p].running THEN m ELSE init_pcb_probe(m, p, {s}, TRUE, delay[p])

(* Another host claims our host name.                                       *)
addr_conflict(m, p, delay) ==
    IF m.pcbs[p].running
    THEN restart_all_pcbs(forget(failedProbe(m, p), Pcbs, Names), delay)
    ELSE init_pcb_probe(forget(m, {p}, {Host}), p, {}, TRUE, delay[p])

ExecRxHandle ==
    /\ executes("RX_HANDLE")
    /\ LET p == Head(queue).pcb
           rx == Head(queue).rx
           k == rx.kind
           bad == k = "known" /\ ours(rx.name) /\ noAnswerLeft(server_m, p)
       IN /\ fault' = bad
          /\ \E delay \in Delays, wait \in ShareDelays :
                done(CASE bad -> server_m
                       [] k \in {"question", "unique"} -> answer(server_m, p, rx, wait)
                       [] k = "known" /\ ours(rx.name) /\ ~bad ->
                             remove_scheduled_answer(server_m, p, rx.name, rx.last)
                       [] k = "srvConflict" /\ ours(rx.name) ->
                             srv_conflict(server_m, p, rx.name, delay)
                       [] k = "txtConflict" /\ ours(rx.name) ->
                             txt_conflict(server_m, p, rx.name, delay)
                       [] k = "addrConflict" /\ ours(Host) -> addr_conflict(server_m, p, delay)
                       [] k = "addrOther" /\ ours(Host) -> dup_interface(server_m, p[1], delay)
                       [] OTHER -> server_m)
    /\ UNCHANGED <<instance, services, ownInstance>>

--------------------------------------------------------------------------------
(* The timer task: the first packet not yet handed over, if it is due.      *)
_mdns_scheduler_run_markedAnyway ==
    /\ ~fault
    /\ LET k == First({i \in 1 .. Len(txq) : ~txq[i].queued})
       IN /\ k # 0 /\ txq[k].due < 0
          /\ queue' = IF Len(queue) = QueueLength THEN queue
                      ELSE Append(queue, [type |-> "TX_HANDLE", packet |-> txq[k].id])
          /\ txq' = [txq EXCEPT ![k].queued = TRUE]
    /\ wire' = {}
    /\ UNCHANGED <<hostname, instance, services, ownInstance, pcbs, toWrap, fault, inputs, probes>>

_mdns_scheduler_run ==
    /\ ~fault /\ Len(queue) < QueueLength
    /\ LET k == First({i \in 1 .. Len(txq) : ~txq[i].queued})
       IN /\ k # 0 /\ txq[k].due < 0
          /\ queue' = Append(queue, [type |-> "TX_HANDLE", packet |-> txq[k].id])
          /\ txq' = [txq EXCEPT ![k].queued = TRUE]
    /\ wire' = {}
    /\ UNCHANGED <<hostname, instance, services, ownInstance, pcbs, toWrap, fault, inputs, probes>>

Tick ==
    /\ ~fault
    /\ toWrap > 0 \/ \E k \in 1 .. Len(txq) : txq[k].due >= 0
    /\ toWrap' = IF toWrap > 0 THEN toWrap - 1 ELSE 0
    /\ txq' = [k \in 1 .. Len(txq) |->
                  [txq[k] EXCEPT !.due = IF @ >= 0 THEN @ - 1 ELSE @]]
    /\ wire' = {}
    /\ UNCHANGED <<hostname, instance, services, ownInstance, pcbs, queue, fault, inputs, probes>>

--------------------------------------------------------------------------------
(* mdns_init: interfaces that have an address are opened; without a host    *)
(* name they answer nothing.                                                *)
Init ==
    /\ hostname = FALSE /\ instance = FALSE
    /\ services = {} /\ ownInstance = [s \in Services |-> FALSE]
    /\ \E open \in SUBSET Pcbs :
           pcbs = [p \in Pcbs |-> IF p \in open
                                  THEN [Closed EXCEPT !.up = TRUE, !.state = PCB_RUNNING]
                                  ELSE Closed]
    /\ txq = <<>> /\ queue = <<>>
    /\ toWrap = WrapAt /\ fault = FALSE /\ inputs = 0
    /\ probes = [p \in Pcbs |-> [n \in Names |-> 0]] /\ wire = {}

Environment ==
    \/ \E e \in SystemEvents : event_handler(e)
    \/ mdns_hostname_set \/ mdns_instance_name_set
    \/ \E s \in Services, own \in BOOLEAN : mdns_service_add(s, own)
    \/ \E type \in ServiceActions, s \in Services : mdns_service_call(type, s)
    \/ mdns_service_remove_all
    \/ \E p \in Pcbs, rx \in RxKinds : _udp_recv(p, rx)

ServiceTask ==
    \/ ExecSystemEvent \/ ExecHostnameSet \/ ExecInstanceSet
    \/ ExecServiceAdd \/ ExecServiceInstanceSet \/ ExecServiceUpdate
    \/ ExecServiceDel \/ ExecServicesClear \/ ExecTxHandle \/ ExecRxHandle

Next == Environment \/ ServiceTask \/ _mdns_scheduler_run \/ Tick

(* The service task waits for actions without a timeout: an action in the   *)
(* queue is taken.  Only its steps shorten the queue.  The timer fires      *)
(* periodically and time passes.                                            *)
TakesAction == ~fault /\ queue # <<>> /\ queue' = Tail(queue)

Spec == Init /\ [][Next]_vars
            /\ WF_queue(TakesAction) /\ WF_vars(_mdns_scheduler_run) /\ WF_vars(Tick)

--------------------------------------------------------------------------------
(* The list of services a PCB probes for points to registered services      *)
(* only, and is empty unless the PCB is probing: init_pcb_probe copies it   *)
(* into an array it sizes without it.  This and the next property are for   *)
(* inputs without conflicts or without closed interfaces: a conflict that   *)
(* was received on a PCB which is closed before the action is executed      *)
(* makes the closed PCB probe, and nothing that removes a service looks at  *)
(* the list of a closed PCB.                                                *)
ProbeListSound ==
    ~fault => \A p \in Pcbs :
        /\ pcbs[p].services \subseteq services
        /\ ~PCB_STATE_IS_PROBING(pcbs[p]) => pcbs[p].services = {}

(* A scheduled packet holds pointers to registered services only, whatever  *)
(* was removed, renamed or cleared since it was scheduled.                  *)
PacketsSound ==
    ~fault => \A k \in 1 .. Len(txq) :
        (txq[k].questions \cup txq[k].servers \cup txq[k].answers) \ {Host} \subseteq services

(* An open PCB that probes or announces always has a packet scheduled:      *)
(* nothing else moves it on.                                                *)
ActivePcbHasPacket ==
    \A p \in Pcbs : pcbs[p].up /\ pcbs[p].state \in PCB_PROBE_1 .. PCB_ANNOUNCE_3
                        => \E k \in 1 .. Len(txq) : txq[k].pcb = p

(* A packet marked as handed over has its action in the queue; without one  *)
(* it would block the head of the list for ever.                            *)
QueuedHasAction ==
    \A k \in 1 .. Len(txq) : txq[k].queued
        => \E j \in 1 .. Len(queue) :
               queue[j].type = "TX_HANDLE" /\ queue[j].packet = txq[k].id

(* Records, goodbyes too, are sent only for names that were probed three    *)
(* times on the PCB since the name was chosen, lost in a conflict or the    *)
(* PCB was opened: a goodbye for a name that another host owns would make   *)
(* everybody forget that host.  Without a host name nothing is probed, and  *)
(* the goodbye that answers a conflicting SRV record is sent all the same.  *)
(* One way around probing is left: a change of the default instance name    *)
(* drops the services with a name of their own from the probe lists.  Late  *)
(* conflicts are left out as above.                                         *)
NoUnprobedAnswer == hostname => \A a \in wire : a[3] \in {3, CutShort}

(* After the last input every open PCB ends up running.                     *)
RunningEventually ==
    <>[](fault \/ \A p \in Pcbs : pcbs[p].up => pcbs[p].state = PCB_RUNNING)

(* mdns_service_port_set and its siblings report a service that is not      *)
(* there; one they accept is still there when the action is executed.       *)
ServicePointersLive == ~fault
================================================================================
