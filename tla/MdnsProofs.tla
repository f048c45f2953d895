------------------------------ MODULE MdnsProofs -------------------------------
(****************************************************************************)
(* Proofs about parts of the mDNS component: the collision rules between    *)
(* any number of boards (module MdnsTiebreak), mdns_init() and mdns_free()  *)
(* against the tasks they start and stop (MdnsLifecycle), and the searches  *)
(* of waiting tasks against the timer and the results (MdnsSearch).         *)
(****************************************************************************)
EXTENDS MdnsTiebreak, MdnsLifecycle, MdnsSearch, SequenceTheorems, FiniteSetTheorems,
        WellFoundedInduction, TLAPS

(* A host without an instance name uses its host name as one.               *)
HostStates ==
    {s \in [host : Nat, inst : Nat, step : Nat, svc : BOOLEAN, ip : BOOLEAN] :
       ~OwnInstance => s.inst = s.host}

(* A packet carries the addresses and the port of its sender.               *)
TiePackets ==
    {m \in [from : Hosts, probe : BOOLEAN, first : BOOLEAN, svc : BOOLEAN, ip : BOOLEAN,
            host : Nat, inst : Nat, port : Nat, txt : Nat, ip4 : Nat, ip6 : Nat] :
       /\ m.ip4 = Ip4[m.from] /\ m.ip6 = Ip6[m.from] /\ m.port = Port[m.from]
       /\ ~OwnInstance => m.inst = m.host}

Highest(h) == \A g \in Hosts : Ip4[g] <= Ip4[h] /\ Ip6[g] <= Ip6[h]

(* Boards with the same firmware offer their service on one port.  Where an *)
(* instance name is set, the ports need not agree.                          *)
SameFirmware == OwnInstance \/ \A g, h \in Hosts : Port[g] = Port[h]

TieInv ==
    /\ st \in [Hosts -> HostStates]
    /\ inbox \in [Hosts -> Seq(TiePackets)]
    /\ WinnerKeepsHost
--------------------------------------------------------------------------------
(* Probing starts over: the names stay.                                     *)
LEMMA ProbeKeepsNames ==
    ASSUME NEW s \in HostStates, NEW svc \in BOOLEAN, NEW ip \in BOOLEAN
    PROVE  init_pcb_probe(s, svc, ip) \in HostStates /\ init_pcb_probe(s, svc, ip).host = s.host
<1> DEFINE a == svc \/ (probing(s) /\ s.svc)
           b == ip \/ (probing(s) /\ s.ip)
           s1 == [s EXCEPT !.step = 1]
           s2 == [s1 EXCEPT !.svc = a]
           s3 == [s2 EXCEPT !.ip = b]
<1>1. a \in BOOLEAN /\ b \in BOOLEAN
  BY DEF probing
<1>2. init_pcb_probe(s, svc, ip) = s3
  BY DEF init_pcb_probe
<1> HIDE DEF a, b
<1>3. s1 \in HostStates /\ s1.host = s.host
  BY DEF HostStates
<1> HIDE DEF s1
<1>4. s2 \in HostStates /\ s2.host = s.host
  BY <1>1, <1>3 DEF HostStates
<1> HIDE DEF s2
<1>5. s3 \in HostStates /\ s3.host = s.host
  BY <1>1, <1>4 DEF HostStates
<1> QED
  BY <1>2, <1>5

LEMMA RenameTyped ==
    ASSUME NEW s \in HostStates
    PROVE  renameHost(s) \in HostStates
<1> DEFINE n == mangle_name(s.host)
           i == IF OwnInstance THEN s.inst ELSE n
           s1 == [s EXCEPT !.host = n, !.inst = IF OwnInstance THEN @ ELSE n]
<1>1. n \in Nat /\ i \in Nat /\ (~OwnInstance => i = n)
  BY DEF HostStates, mangle_name
<1>2. s1 = [[s EXCEPT !.host = n] EXCEPT !.inst = i]
  BY DEF HostStates
<1>3. renameHost(s) = init_pcb_probe(s1, TRUE, TRUE)
  BY DEF renameHost
<1> HIDE DEF n, i, s1
<1>4. s1 \in HostStates
  BY <1>1, <1>2 DEF HostStates
<1> QED
  BY <1>3, <1>4, ProbeKeepsNames

LEMMA VerdictFacts ==
    ASSUME NEW a \in Nat, NEW b \in Nat
    PROVE  (b <= a => verdict(a, b) <= 0) /\ (a = b => verdict(a, b) = 0)
  BY DEF verdict

(* A service record: with one port for all, it never costs a host its name. *)
LEMMA SrvRecord ==
    ASSUME NEW h \in Hosts, NEW s \in HostStates, NEW m \in TiePackets
    PROVE  /\ srv_record(h, s, m) \in HostStates
           /\ SameFirmware => srv_record(h, s, m).host = s.host
<1> DEFINE t == [s EXCEPT !.inst = mangle_name(@)]
<1>1. OwnInstance => t \in HostStates /\ t.host = s.host
  BY DEF HostStates, mangle_name
<1>2. /\ srv_record(h, s, m) \in {s, init_pcb_probe(s, TRUE, FALSE),
                                  init_pcb_probe(t, TRUE, FALSE), renameHost(s)}
      /\ srv_record(h, s, m) = s \/ srv_record(h, s, m) = init_pcb_probe(s, TRUE, FALSE)
         \/ (OwnInstance /\ srv_record(h, s, m) = init_pcb_probe(t, TRUE, FALSE))
         \/ (/\ ~OwnInstance /\ srv_record(h, s, m) = renameHost(s)
             /\ m.inst = s.inst /\ ~(check_srv_collision(h, s, m) <= 0))
  BY DEF srv_record
<1>3. SameFirmware /\ ~OwnInstance /\ m.inst = s.inst => check_srv_collision(h, s, m) <= 0
  <2> SUFFICES ASSUME SameFirmware, ~OwnInstance, m.inst = s.inst
               PROVE  check_srv_collision(h, s, m) <= 0
    OBVIOUS
  <2>1. m.host = s.host /\ m.port = Port[h] /\ m.port \in Nat /\ s.host \in Nat
    BY DEF SameFirmware, HostStates, TiePackets
  <2>2. suffixLen(s.host) \in Nat
    BY <2>1 DEF suffixLen
  <2>3. /\ verdict(suffixLen(s.host), suffixLen(m.host)) = 0
        /\ verdict(Port[h], m.port) = 0 /\ verdict(s.host, m.host) = 0
    BY <2>1, <2>2, VerdictFacts
  <2> QED
    BY <2>3 DEF check_srv_collision
<1> HIDE DEF t
<1>4. srv_record(h, s, m) \in HostStates
  BY <1>1, <1>2, ProbeKeepsNames, RenameTyped
<1>5. SameFirmware => srv_record(h, s, m).host = s.host
  <2>1. CASE srv_record(h, s, m) = s
    BY <2>1
  <2>2. CASE srv_record(h, s, m) = init_pcb_probe(s, TRUE, FALSE)
    BY <2>2, ProbeKeepsNames
  <2>3. CASE OwnInstance /\ srv_record(h, s, m) = init_pcb_probe(t, TRUE, FALSE)
    BY <1>1, <2>3, ProbeKeepsNames
  <2> QED
    BY <1>2, <1>3, <2>1, <2>2, <2>3
<1> QED
  BY <1>4, <1>5

LEMMA TxtRecord ==
    ASSUME NEW s \in HostStates, NEW m \in TiePackets, NEW col \in Int
    PROVE  txt_record(s, m, col) \in HostStates /\ txt_record(s, m, col).host = s.host
  BY ProbeKeepsNames DEF txt_record

(* An address record: the host that has the higher address keeps its name.  *)
LEMMA AddrRecord ==
    ASSUME NEW s \in HostStates, NEW m \in TiePackets, NEW col \in Int
    PROVE  /\ addr_record(s, m, col) \in HostStates
           /\ col <= 0 => addr_record(s, m, col).host = s.host
  BY ProbeKeepsNames, RenameTyped DEF addr_record

LEMMA Records ==
    ASSUME NEW h \in Hosts, NEW s \in HostStates, NEW m \in TiePackets, NEW txtCol \in Int
    PROVE  /\ records(h, s, m, txtCol) \in HostStates
           /\ SameFirmware /\ Highest(h) => records(h, s, m, txtCol).host = s.host
<1> DEFINE s1 == IF m.svc THEN srv_record(h, s, m) ELSE s
           s2 == IF m.svc /\ ~m.probe THEN txt_record(s1, m, txtCol) ELSE s1
           s3 == IF m.ip THEN addr_record(s2, m, check_a_collision(h, m)) ELSE s2
           s4 == IF m.ip THEN addr_record(s3, m, check_aaaa_collision(h, m)) ELSE s3
<1>1. records(h, s, m, txtCol) = s4
  BY DEF records
<1>2. /\ check_a_collision(h, m) \in Int /\ check_aaaa_collision(h, m) \in Int
      /\ Highest(h) => check_a_collision(h, m) <= 0 /\ check_aaaa_collision(h, m) <= 0
  <2>1. /\ Ip4[h] \in Nat /\ Ip6[h] \in Nat /\ m.from \in Hosts
        /\ m.ip4 = Ip4[m.from] /\ m.ip6 = Ip6[m.from] /\ m.ip4 \in Nat /\ m.ip6 \in Nat
    BY TieAssumption DEF TiePackets
  <2>2. Highest(h) => m.ip4 <= Ip4[h] /\ m.ip6 <= Ip6[h]
    BY <2>1 DEF Highest
  <2> QED
    BY <2>1, <2>2 DEF check_a_collision, check_aaaa_collision, verdict
<1>3. s1 \in HostStates /\ (SameFirmware => s1.host = s.host)
  BY SrvRecord
<1> HIDE DEF s1
<1>4. s2 \in HostStates /\ (SameFirmware => s2.host = s.host)
  BY <1>3, TxtRecord
<1> HIDE DEF s2
<1>5. s3 \in HostStates /\ (SameFirmware /\ Highest(h) => s3.host = s.host)
  BY <1>2, <1>4, AddrRecord
<1> HIDE DEF s3
<1>6. s4 \in HostStates /\ (SameFirmware /\ Highest(h) => s4.host = s.host)
  BY <1>2, <1>5, AddrRecord
<1> QED
  BY <1>1, <1>6
--------------------------------------------------------------------------------
LEMMA PacketTyped ==
    ASSUME st \in [Hosts -> HostStates], NEW h \in Hosts,
           NEW probe \in BOOLEAN, NEW svc \in BOOLEAN, NEW ip \in BOOLEAN
    PROVE  packet(h, probe, svc, ip) \in TiePackets
<1>1. /\ st[h].host \in Nat /\ st[h].inst \in Nat /\ (~OwnInstance => st[h].inst = st[h].host)
      /\ Ip4[h] \in Nat /\ Ip6[h] \in Nat /\ Port[h] \in Nat /\ TxtLen[h] \in Nat
  BY TieAssumption DEF HostStates
<1>2. (probe /\ st[h].step = 1) \in BOOLEAN
  OBVIOUS
<1> QED
  BY <1>1, <1>2 DEF packet, TiePackets

LEMMA DeliverTyped ==
    ASSUME NEW box \in [Hosts -> Seq(TiePackets)], NEW to, NEW m \in TiePackets
    PROVE  deliver(box, to, m) \in [Hosts -> Seq(TiePackets)]
<1>1. \A g \in Hosts : box[g] \in Seq(TiePackets) /\ Append(box[g], m) \in Seq(TiePackets)
  BY AppendProperties
<1> QED
  BY <1>1 DEF deliver

LEMMA TieInitInv == TieInit => TieInv
<1> SUFFICES ASSUME TieInit PROVE TieInv
  OBVIOUS
<1>1. [host |-> 0, inst |-> 0, step |-> 0, svc |-> FALSE, ip |-> FALSE] \in HostStates
  BY DEF HostStates
<1> QED
  BY <1>1, EmptySeq DEF TieInit, TieInv, WinnerKeepsHost

(* One board moves: its state keeps its type and, if no board has a higher  *)
(* address, its host name.                                                  *)
LEMMA BoardMoves ==
    ASSUME TieInv, NEW h \in Hosts, NEW s \in HostStates,
           st' = [st EXCEPT ![h] = s], inbox' \in [Hosts -> Seq(TiePackets)],
           Highest(h) => s.host = st[h].host
    PROVE  TieInv'
<1>1. st' \in [Hosts -> HostStates]
  BY DEF TieInv
<1>2. \A g \in Hosts : Highest(g) => st'[g].host = st[g].host
  BY DEF TieInv
<1>3. WinnerKeepsHost'
  BY <1>2 DEF TieInv, WinnerKeepsHost, Highest
<1> QED
  BY <1>1, <1>3 DEF TieInv

LEMMA TieStep == SameFirmware /\ TieInv /\ [TieNext]_tieVars => TieInv'
<1> SUFFICES ASSUME SameFirmware, TieInv, [TieNext]_tieVars PROVE TieInv'
  OBVIOUS
<1>1. CASE UNCHANGED <<st, inbox>>
  BY <1>1 DEF TieInv, WinnerKeepsHost
<1>2. ASSUME NEW h \in Hosts, Boot(h) PROVE TieInv'
  <2> DEFINE s1 == [st[h] EXCEPT !.step = 1]
             s2 == [s1 EXCEPT !.svc = TRUE]
             s3 == [s2 EXCEPT !.ip = TRUE]
  <2>1. st' = [st EXCEPT ![h] = s3] /\ inbox' = inbox
    BY <1>2 DEF Boot
  <2>2. st[h] \in HostStates
    BY DEF TieInv
  <2>3. s1 \in HostStates /\ s1.host = st[h].host
    BY <2>2 DEF HostStates
  <2> HIDE DEF s1
  <2>4. s2 \in HostStates /\ s2.host = st[h].host
    BY <2>3 DEF HostStates
  <2> HIDE DEF s2
  <2>5. s3 \in HostStates /\ s3.host = st[h].host
    BY <2>4 DEF HostStates
  <2> HIDE DEF s3
  <2> QED
    BY <2>1, <2>5, BoardMoves DEF TieInv
<1>3. ASSUME NEW h \in Hosts, tx_handle_packet(h) PROVE TieInv'
  <2> DEFINE s == [st[h] EXCEPT !.step = @ + 1]
             m == packet(h, probing(st[h]), st[h].svc, st[h].ip)
  <2>1. st[h] \in HostStates
    BY DEF TieInv
  <2>2. st' = [st EXCEPT ![h] = s] /\ inbox' = deliver(inbox, Hosts \ {h}, m)
    BY <1>3 DEF tx_handle_packet
  <2>3. s \in HostStates /\ s.host = st[h].host
    BY <2>1 DEF HostStates
  <2>4. m \in TiePackets
    <3>1. probing(st[h]) \in BOOLEAN /\ st[h].svc \in BOOLEAN /\ st[h].ip \in BOOLEAN
      BY <2>1 DEF HostStates, probing
    <3> QED
      BY <3>1, PacketTyped DEF TieInv
  <2> HIDE DEF s, m
  <2>5. inbox' \in [Hosts -> Seq(TiePackets)]
    BY <2>2, <2>4, DeliverTyped DEF TieInv
  <2> QED
    BY <2>2, <2>3, <2>5, BoardMoves
<1>4. ASSUME NEW h \in Hosts, mdns_parse_packet(h) PROVE TieInv'
  <2> DEFINE m == Head(inbox[h])
             s == st[h]
             asksInst == m.svc /\ m.inst = s.inst
             asksHost == m.ip /\ m.host = s.host
             after(c) == IF m.probe /\ ~asksInst /\ ~asksHost THEN s ELSE records(h, s, m, c)
             reply == packet(h, FALSE, asksInst, asksInst \/ asksHost)
             rest == [inbox EXCEPT ![h] = Tail(@)]
             to == IF m.first THEN {m.from} ELSE Hosts \ {h}
  <2>1. s \in HostStates /\ inbox[h] \in Seq(TiePackets) /\ inbox[h] # <<>>
    BY <1>4 DEF TieInv, mdns_parse_packet
  <2>2. m \in TiePackets /\ Tail(inbox[h]) \in Seq(TiePackets)
    BY <2>1, HeadTailProperties
  <2>3. PICK c \in check_txt_collision(h, m) :
          st' = [st EXCEPT ![h] = after(c)] /\ inbox' \in {rest, deliver(rest, to, reply)}
    BY <1>4, Zenon DEF mdns_parse_packet
  <2>4. c \in Int
    <3>1. m.txt \in Nat /\ TxtLen[h] \in Nat
      BY <2>2, TieAssumption DEF TiePackets
    <3> QED
      BY <3>1 DEF check_txt_collision, verdict
  <2>5. after(c) \in HostStates /\ (Highest(h) => after(c).host = st[h].host)
    BY <2>1, <2>2, <2>4, Records
  <2>6. rest \in [Hosts -> Seq(TiePackets)]
    BY <2>2 DEF TieInv
  <2>7. reply \in TiePackets
    <3>1. asksInst \in BOOLEAN /\ (asksInst \/ asksHost) \in BOOLEAN
      BY <2>2 DEF TiePackets
    <3> HIDE DEF asksInst, asksHost
    <3> QED
      BY <3>1, PacketTyped DEF TieInv
  <2> HIDE DEF after, reply, rest
  <2>8. inbox' \in [Hosts -> Seq(TiePackets)]
    BY <2>3, <2>6, <2>7, DeliverTyped
  <2> QED
    BY <2>3, <2>5, <2>8, BoardMoves
<1> QED
  BY <1>1, <1>2, <1>3, <1>4 DEF TieNext, Board, Tick, tieVars

(* The inductive invariant of the collisions: states and packets tell the   *)
(* truth about their host, and the winner has the name it was given.        *)
THEOREM TieInvariant == SameFirmware /\ TieSpec => []TieInv
<1> SUFFICES ASSUME SameFirmware PROVE TieSpec => []TieInv
  OBVIOUS
<1>1. TieInv /\ [TieNext]_tieVars => TieInv'
  BY TieStep
<1> QED
  BY <1>1, TieInitInv, PTL DEF TieSpec

(* Whatever number of boards with one firmware come up on a link, in any    *)
(* order and with any crossing of their packets: the one with the highest   *)
(* addresses keeps the host name it was given.                              *)
THEOREM WinnerKeepsItsHost == SameFirmware /\ TieSpec => []WinnerKeepsHost
<1>1. TieInv => WinnerKeepsHost
  BY DEF TieInv
<1> QED
  BY <1>1, TieInvariant, PTL

--------------------------------------------------------------------------------
(* The life cycle.                                                          *)

ActionTypes == {"SERVICES_CLEAR", "TASK_STOP", "HOSTNAME_SET", "SERVICE_ADD", "SYSTEM_EVENT",
                "RX_HANDLE", "TX_HANDLE"}
LifeActions == [type : ActionTypes, packet : Nat]
TxEntries == [packet : Nat, pcb : Pcbs, queued : BOOLEAN]

Starting == {"init_register", "init_pcbs", "init_start", "init_undo"}
TakenDown == {"free_pcbs", "free_queue", "free_server"}

LifeTypes ==
    /\ _mdns_server \in BOOLEAN /\ semaphore \in BOOLEAN /\ registered \in BOOLEAN
    /\ late \in BOOLEAN /\ killed \in BOOLEAN
    /\ action_queue \in Seq(LifeActions) /\ tx_queue_head \in Seq(TxEntries)
    /\ task \in {noTask, receiving} \cup LifeActions
    /\ timer \in {"off", "on", "stopping"} /\ cb \in {"idle", "scheduler", "search"}
    /\ pcbs \subseteq Pcbs
    /\ user \in {"idle", "stop_timer", "stop_task", "stop_wait"} \cup Starting \cup TakenDown

(* The server is up and nobody has begun to take it down.                   *)
Up == user \in {"idle", "stop_timer"} /\ _mdns_server

(* Who is there in which phase of mdns_init() and mdns_free().              *)
Phases ==
    /\ user # "idle" => _mdns_server
    /\ user \in Starting \/ ~_mdns_server => task = noTask /\ timer # "on" /\ tx_queue_head = <<>>
    /\ ~_mdns_server => action_queue = <<>> /\ ~registered /\ pcbs = {}
    /\ Up => task # noTask /\ semaphore /\ timer = "on"
    /\ user = "stop_timer" => ~registered
    /\ user = "stop_task" => task # noTask
    /\ user \in {"stop_task", "stop_wait"} => semaphore /\ timer # "on" /\ ~registered
    /\ user \in TakenDown => task = noTask /\ ~semaphore /\ timer # "on" /\ ~registered
    /\ user \in {"free_queue", "free_server"} => pcbs = {}
    /\ user = "free_server" => action_queue = <<>>
    /\ cb # "idle" /\ ~late => Up

NoStop(q) == \A i \in 1 .. Len(q) : q[i].type # "TASK_STOP"
NoPacket(q) == \A i \in 1 .. Len(q) : q[i].packet = 0
NoPacketBehindStop(q) ==
    \A i, j \in 1 .. Len(q) : q[i].type = "TASK_STOP" /\ i < j => q[j].packet = 0

(* A packet is handed over before the task is told to stop, and the task    *)
(* has taken what came before that when it is gone.                         *)
StopIsLast ==
    /\ user \notin {"stop_wait", "free_pcbs", "free_queue"} => NoStop(action_queue)
    /\ ~killed /\ ~late =>
         /\ user = "stop_wait" => NoPacketBehindStop(action_queue)
         /\ user \in {"stop_wait", "free_pcbs", "free_queue"} /\ task = noTask =>
              NoPacket(action_queue)

(* The scheduled packets are the allocated ones, each listed once.          *)
Distinct(q) == \A i, j \in DOMAIN q : q[i].packet = q[j].packet => i = j

Packets ==
    /\ Distinct(tx_queue_head)
    /\ heap \subseteq listed
    /\ user # "free_server" \/ (~killed /\ ~late) => listed \subseteq heap

LifeInv == LifeTypes /\ Phases /\ StopIsLast /\ Packets
--------------------------------------------------------------------------------
(* The action queue.                                                        *)
LEMMA ActionsAppend ==
    ASSUME NEW q \in Seq(LifeActions), NEW a \in LifeActions
    PROVE  /\ Append(q, a) \in Seq(LifeActions)
           /\ NoStop(q) /\ a.type # "TASK_STOP" => NoStop(Append(q, a))
           /\ NoPacket(q) /\ a.packet = 0 => NoPacket(Append(q, a))
           /\ NoPacketBehindStop(q) /\ a.packet = 0 => NoPacketBehindStop(Append(q, a))
           /\ NoStop(q) => NoPacketBehindStop(Append(q, a))
<1> DEFINE u == Append(q, a)
<1>1. /\ u \in Seq(LifeActions) /\ Len(u) = Len(q) + 1 /\ Len(q) \in Nat
      /\ u[Len(q) + 1] = a /\ \A i \in 1 .. Len(q) : u[i] = q[i]
  BY AppendProperties, LenProperties
<1> HIDE DEF u
<1>2. \A i \in 1 .. Len(u) : (i \in 1 .. Len(q) /\ u[i] = q[i]) \/ (i = Len(q) + 1 /\ u[i] = a)
  BY <1>1
<1>3. NoStop(q) /\ a.type # "TASK_STOP" => NoStop(u)
  BY <1>2 DEF NoStop
<1>4. NoPacket(q) /\ a.packet = 0 => NoPacket(u)
  BY <1>2 DEF NoPacket
<1>5. NoPacketBehindStop(q) /\ a.packet = 0 => NoPacketBehindStop(u)
  BY <1>1, <1>2 DEF NoPacketBehindStop
<1>6. NoStop(q) => NoPacketBehindStop(u)
  BY <1>1, <1>2 DEF NoStop, NoPacketBehindStop
<1> QED
  BY <1>1, <1>3, <1>4, <1>5, <1>6 DEF u

LEMMA ActionsTail ==
    ASSUME NEW q \in Seq(LifeActions), q # <<>>
    PROVE  /\ Tail(q) \in Seq(LifeActions) /\ Head(q) \in LifeActions
           /\ NoStop(q) => NoStop(Tail(q)) /\ Head(q).type # "TASK_STOP"
           /\ NoPacket(q) => NoPacket(Tail(q))
           /\ NoPacketBehindStop(q) => NoPacketBehindStop(Tail(q))
           /\ NoPacketBehindStop(q) /\ Head(q).type = "TASK_STOP" => NoPacket(Tail(q))
<1> DEFINE u == Tail(q)
<1>1. /\ u \in Seq(LifeActions) /\ Head(q) \in LifeActions /\ Len(u) = Len(q) - 1
      /\ \A i \in 1 .. Len(u) : u[i] = q[i + 1]
  BY HeadTailProperties
<1>2. Head(q) = q[1] /\ Len(q) \in Nat \ {0}
  BY EmptySeq, LenProperties
<1> HIDE DEF u
<1>3. \A i \in 1 .. Len(u) : i \in Nat \ {0} /\ i + 1 \in 1 .. Len(q) /\ u[i] = q[i + 1]
  BY <1>1, <1>2
<1>4. NoStop(q) => NoStop(u) /\ Head(q).type # "TASK_STOP"
  BY <1>2, <1>3 DEF NoStop
<1>5. NoPacket(q) => NoPacket(u)
  BY <1>3 DEF NoPacket
<1>6. NoPacketBehindStop(q) => NoPacketBehindStop(u)
  <2> SUFFICES ASSUME NoPacketBehindStop(q), NEW i \in 1 .. Len(u), NEW j \in 1 .. Len(u),
                      u[i].type = "TASK_STOP", i < j
               PROVE  u[j].packet = 0
    BY DEF NoPacketBehindStop
  <2>1. /\ i + 1 \in 1 .. Len(q) /\ u[i] = q[i + 1] /\ j + 1 \in 1 .. Len(q) /\ u[j] = q[j + 1]
        /\ i + 1 < j + 1
    BY <1>3
  <2> QED
    BY <2>1 DEF NoPacketBehindStop
<1>7. NoPacketBehindStop(q) /\ Head(q).type = "TASK_STOP" => NoPacket(u)
  BY <1>2, <1>3 DEF NoPacketBehindStop, NoPacket
<1> QED
  BY <1>1, <1>4, <1>5, <1>6, <1>7 DEF u

LEMMA NoActions == NoStop(<<>>) /\ NoPacket(<<>>) /\ NoPacketBehindStop(<<>>)
  BY EmptySeq DEF NoStop, NoPacket, NoPacketBehindStop

--------------------------------------------------------------------------------
(* The tx list.                                                             *)
PacketsOf(S) == {e.packet : e \in S}
OnePerPacket(S) == \A e, f \in S : e.packet = f.packet => e = f

LEMMA RangeFinite ==
    ASSUME NEW T, NEW q \in Seq(T)
    PROVE  IsFiniteSet(Range(q)) /\ Range(q) \subseteq T
<1>1. q \in [1 .. Len(q) -> T] /\ Len(q) \in Nat
  BY LenProperties
<1>2. q \in Surjection(1 .. Len(q), Range(q))
  BY <1>1 DEF Surjection, Range
<1>3. IsFiniteSet(1 .. Len(q))
  BY <1>1, FS_Interval
<1> QED
  BY <1>1, <1>2, <1>3, FS_Surjection DEF Range

LEMMA SequenceOfSet ==
    ASSUME NEW T, NEW S, S \subseteq T, IsFiniteSet(S), NEW q \in SetToSeqs(S)
    PROVE  q \in Seq(T) /\ Range(q) = S /\ IsInjective(q)
<1>1. Cardinality(S) \in Nat
  BY FS_CardinalityType
<1>2. q \in [1 .. Cardinality(S) -> S] /\ IsInjective(q)
  BY DEF SetToSeqs, IsInjective
<1>3. IsFiniteSet(1 .. Cardinality(S)) /\ Cardinality(1 .. Cardinality(S)) = Cardinality(S)
  BY <1>1, FS_Interval
<1>4. q \in Injection(1 .. Cardinality(S), S)
  BY <1>2 DEF Injection
<1>5. q \in Surjection(1 .. Cardinality(S), S)
  BY <1>3, <1>4, FS_Injection
<1>6. Range(q) = S
  BY <1>2, <1>5 DEF Surjection, Range
<1>7. q \in Seq(T)
  BY <1>1, <1>2, SeqDef
<1> QED
  BY <1>2, <1>6, <1>7

(* A list that is some order of a set of entries.                           *)
LEMMA ListOfSet ==
    ASSUME NEW S, S \subseteq TxEntries, IsFiniteSet(S), OnePerPacket(S), NEW q \in SetToSeqs(S)
    PROVE  q \in Seq(TxEntries) /\ Distinct(q) /\ Range(q) = S
<1>1. q \in Seq(TxEntries) /\ Range(q) = S /\ IsInjective(q)
  BY SequenceOfSet
<1>2. Distinct(q)
  BY <1>1 DEF Distinct, IsInjective, Range, OnePerPacket
<1> QED
  BY <1>1, <1>2

LEMMA DistinctRange ==
    ASSUME NEW q \in Seq(TxEntries), Distinct(q)
    PROVE  OnePerPacket(Range(q))
  BY DEF Distinct, OnePerPacket, Range

LEMMA TailOfList ==
    ASSUME NEW q \in Seq(TxEntries), Distinct(q), q # <<>>
    PROVE  /\ Tail(q) \in Seq(TxEntries) /\ Distinct(Tail(q))
           /\ Head(q) \in Range(q)
           /\ Range(Tail(q)) = Range(q) \ {Head(q)}
           /\ PacketsOf(Range(Tail(q))) = PacketsOf(Range(q)) \ {Head(q).packet}
<1> DEFINE u == Tail(q)
<1>1. /\ u \in Seq(TxEntries) /\ Len(u) = Len(q) - 1
      /\ \A i \in 1 .. Len(u) : u[i] = q[i + 1]
  BY HeadTailProperties
<1>2. Head(q) = q[1] /\ Len(q) \in Nat \ {0} /\ DOMAIN q = 1 .. Len(q) /\ DOMAIN u = 1 .. Len(u)
  BY <1>1, EmptySeq, LenProperties
<1> HIDE DEF u
<1>3. \A i \in DOMAIN u : i \in Nat \ {0} /\ i + 1 \in DOMAIN q /\ u[i] = q[i + 1]
  BY <1>1, <1>2
<1>4. Distinct(u)
  BY <1>3 DEF Distinct
<1>5. 1 \in DOMAIN q /\ Head(q) \in Range(q)
  BY <1>2 DEF Range
<1>6. \A j \in DOMAIN q : j = 1 \/ (j - 1 \in DOMAIN u /\ q[j] = u[j - 1])
  BY <1>1, <1>2
<1>7. \A i \in DOMAIN u : u[i].packet # Head(q).packet
  BY <1>2, <1>3, <1>5 DEF Distinct
<1>8. Range(u) = Range(q) \ {Head(q)}
  <2>1. \A i \in DOMAIN u : u[i] \in Range(q) /\ u[i] # Head(q)
    BY <1>3, <1>7 DEF Range
  <2>2. \A j \in DOMAIN q : q[j] = Head(q) \/ q[j] \in Range(u)
    BY <1>2, <1>6 DEF Range
  <2> QED
    BY <2>1, <2>2, Zenon DEF Range
<1>9. PacketsOf(Range(u)) = PacketsOf(Range(q)) \ {Head(q).packet}
  <2>1. OnePerPacket(Range(q))
    BY DistinctRange
  <2> QED
    BY <1>5, <1>8, <2>1, Zenon DEF PacketsOf, OnePerPacket
<1> QED
  BY <1>1, <1>4, <1>5, <1>8, <1>9 DEF u

(* Handing over a packet marks its entry and moves nothing.                 *)
LEMMA MarkedList ==
    ASSUME NEW q \in Seq(TxEntries), Distinct(q), NEW n \in DOMAIN q
    PROVE  LET u == [q EXCEPT ![n].queued = TRUE]
           IN  u \in Seq(TxEntries) /\ Distinct(u) /\ PacketsOf(Range(u)) = PacketsOf(Range(q))
<1> DEFINE e == [q[n] EXCEPT !.queued = TRUE]
           u == [q EXCEPT ![n] = e]
<1>1. q[n] \in TxEntries /\ DOMAIN q = 1 .. Len(q)
  BY ElementOfSeq, LenProperties
<1>2. e \in TxEntries /\ e.packet = q[n].packet
  BY <1>1 DEF TxEntries
<1> HIDE DEF e
<1>3. u \in Seq(TxEntries) /\ DOMAIN u = DOMAIN q
  BY <1>1, <1>2, ExceptSeq
<1>4. \A i \in DOMAIN q : u[i].packet = q[i].packet
  BY <1>1, <1>2
<1> HIDE DEF u
<1>5. Distinct(u)
  BY <1>3, <1>4 DEF Distinct
<1>6. PacketsOf(Range(u)) = PacketsOf(Range(q))
  <2>1. ASSUME NEW p PROVE p \in PacketsOf(Range(u)) <=> \E i \in DOMAIN q : p = u[i].packet
    BY <1>3, Zenon DEF PacketsOf, Range
  <2>2. ASSUME NEW p PROVE p \in PacketsOf(Range(q)) <=> \E i \in DOMAIN q : p = q[i].packet
    BY Zenon DEF PacketsOf, Range
  <2>3. ASSUME NEW p PROVE p \in PacketsOf(Range(u)) <=> p \in PacketsOf(Range(q))
    BY <1>4, <2>1, <2>2
  <2> QED
    BY <2>3
<1>7. [q EXCEPT ![n].queued = TRUE] = u
  BY Zenon DEF u, e
<1> QED
  BY <1>3, <1>5, <1>6, <1>7, Zenon

(* Some packets leave the list and are freed, others come in at addresses   *)
(* that are free; what is allocated is then again what is listed.           *)
LEMMA ListChanges ==
    ASSUME LifeTypes, Distinct(tx_queue_head), heap = listed, NEW P \in SUBSET Pcbs,
           NEW new \in SUBSET TxEntries, IsFiniteSet(new), OnePerPacket(new),
           PacketsOf(new) \cap cleared(P) = {},
           NEW q \in scheduled(kept(P), new)
    PROVE  /\ q \in Seq(TxEntries) /\ Distinct(q)
           /\ PacketsOf(Range(q)) = cleared(P) \cup PacketsOf(new)
<1> DEFINE all == Range(tx_queue_head)
           out == {f \in all : f.pcb \in P}
           S == kept(P) \cup new
<1>1. IsFiniteSet(all) /\ all \subseteq TxEntries /\ OnePerPacket(all)
  BY RangeFinite, DistinctRange DEF LifeTypes
<1>2. heap = PacketsOf(all) /\ cleared(P) = PacketsOf(all) \ PacketsOf(out)
  BY DEF listed, PacketsOf, cleared, _mdns_free_tx_packet
<1>3. kept(P) = all \ out
  BY DEF kept
<1>4. cleared(P) = PacketsOf(kept(P))
  <2>0. out \subseteq all
    OBVIOUS
  <2> HIDE DEF all, out
  <2>1. \A e \in all, f \in out : e.packet = f.packet => e \in out
    BY <1>1, <2>0, Zenon DEF OnePerPacket
  <2>2. \A x : x \in PacketsOf(all \ out) => x \in PacketsOf(all) \ PacketsOf(out)
    BY <2>1, Zenon DEF PacketsOf
  <2>3. \A x : x \in PacketsOf(all) \ PacketsOf(out) => x \in PacketsOf(all \ out)
    BY Zenon DEF PacketsOf
  <2> QED
    BY <1>2, <1>3, <2>2, <2>3
<1>5. IsFiniteSet(S)
  BY <1>1, <1>3, FS_Subset, FS_Union
<1>6. S \subseteq TxEntries
  BY <1>1, <1>3
<1>7. OnePerPacket(S)
  <2>1. \A e \in kept(P), f \in new : e.packet # f.packet
    BY <1>4, Zenon DEF PacketsOf
  <2>2. OnePerPacket(kept(P))
    BY <1>1, <1>3 DEF OnePerPacket
  <2> QED
    BY <2>1, <2>2, Zenon DEF OnePerPacket
<1>8. q \in SetToSeqs(S)
  BY DEF scheduled
<1>9. q \in Seq(TxEntries) /\ Distinct(q) /\ Range(q) = S
  <2> HIDE DEF S
  <2> QED
    BY <1>5, <1>6, <1>7, <1>8, ListOfSet
<1> QED
  BY <1>4, <1>9, Zenon DEF PacketsOf

LEMMA ProbingLists ==
    ASSUME LifeTypes, Distinct(tx_queue_head), heap = listed, NEW P \in SUBSET Pcbs,
           startProbing(P)
    PROVE  /\ tx_queue_head' \in Seq(TxEntries) /\ Distinct(tx_queue_head')
           /\ heap' = PacketsOf(Range(tx_queue_head'))
<1>0. PICK got \in SUBSET P : \E at \in [got -> (1 .. MaxHeap) \ cleared(P)] :
        /\ IsInjective(at)
        /\ heap' = cleared(P) \cup Range(at)
        /\ tx_queue_head' \in
             scheduled(kept(P), {[packet |-> at[p], pcb |-> p, queued |-> FALSE] : p \in got})
  BY Zenon DEF startProbing
<1>1. PICK at \in [got -> (1 .. MaxHeap) \ cleared(P)] :
        /\ IsInjective(at)
        /\ heap' = cleared(P) \cup Range(at)
        /\ tx_queue_head' \in
             scheduled(kept(P), {[packet |-> at[p], pcb |-> p, queued |-> FALSE] : p \in got})
  BY <1>0, Zenon
<1> DEFINE entry == [p \in got |-> [packet |-> at[p], pcb |-> p, queued |-> FALSE]]
           new == {[packet |-> at[p], pcb |-> p, queued |-> FALSE] : p \in got}
<1>2. \A p \in got : /\ p \in Pcbs /\ at[p] \in Nat /\ at[p] \notin cleared(P)
                     /\ at[p] \in 1 .. MaxHeap
  BY LifeAssumption
<1>3. new \in SUBSET TxEntries
  <2>1. \A p \in got : [packet |-> at[p], pcb |-> p, queued |-> FALSE] \in TxEntries
    BY <1>2 DEF TxEntries
  <2> QED
    BY <2>1
<1>4. IsFiniteSet(new)
  <2>1. IsFiniteSet(got)
    BY LifeAssumption, FS_Subset
  <2>2. entry \in Surjection(got, new)
    BY DEF Surjection
  <2> QED
    BY <2>1, <2>2, FS_Surjection
<1>5. PacketsOf(new) = Range(at)
  <2>1. \A p \in got : [packet |-> at[p], pcb |-> p, queued |-> FALSE].packet = at[p]
    OBVIOUS
  <2> QED
    BY <2>1 DEF PacketsOf, Range
<1>6. OnePerPacket(new)
  <2>1. ASSUME NEW e \in new, NEW f \in new, e.packet = f.packet PROVE e = f
    <3>1. PICK p \in got : e = [packet |-> at[p], pcb |-> p, queued |-> FALSE]
      OBVIOUS
    <3>2. PICK r \in got : f = [packet |-> at[r], pcb |-> r, queued |-> FALSE]
      OBVIOUS
    <3>3. at[p] = at[r]
      BY <2>1, <3>1, <3>2
    <3> QED
      BY <1>1, <3>1, <3>2, <3>3 DEF IsInjective
  <2> QED
    BY <2>1 DEF OnePerPacket
<1>7. PacketsOf(new) \cap cleared(P) = {}
  BY <1>2, <1>5 DEF Range
<1>8. PICK q \in scheduled(kept(P), new) : q = tx_queue_head'
  BY <1>1
<1> HIDE DEF new
<1>9. /\ q \in Seq(TxEntries) /\ Distinct(q)
      /\ PacketsOf(Range(q)) = cleared(P) \cup PacketsOf(new)
  BY <1>3, <1>4, <1>6, <1>7, ListChanges
<1> QED
  BY <1>1, <1>5, <1>8, <1>9

LEMMA ClearingLists ==
    ASSUME LifeTypes, Distinct(tx_queue_head), heap = listed, NEW P \in SUBSET Pcbs,
           tx_queue_head' \in scheduled(kept(P), {}), heap' = cleared(P)
    PROVE  /\ tx_queue_head' \in Seq(TxEntries) /\ Distinct(tx_queue_head')
           /\ heap' = PacketsOf(Range(tx_queue_head'))
<1>1. PICK q \in scheduled(kept(P), {}) : q = tx_queue_head'
  OBVIOUS
<1>2. PacketsOf({}) = {} /\ OnePerPacket({}) /\ IsFiniteSet({})
  BY FS_EmptySet DEF PacketsOf, OnePerPacket
<1>3. /\ q \in Seq(TxEntries) /\ Distinct(q)
      /\ PacketsOf(Range(q)) = cleared(P) \cup PacketsOf({})
  BY <1>2, ListChanges
<1> QED
  BY <1>1, <1>2, <1>3

(* The first packet goes out: it is freed, or it is scheduled again.        *)
LEMMA HandledLists ==
    ASSUME LifeTypes, Distinct(tx_queue_head), heap = listed, ExecTxHandle
    PROVE  /\ tx_queue_head' \in Seq(TxEntries) /\ Distinct(tx_queue_head')
           /\ heap' = PacketsOf(Range(tx_queue_head'))
<1> DEFINE h == Head(tx_queue_head)
           all == Range(tx_queue_head)
<1>1. tx_queue_head \in Seq(TxEntries) /\ heap = PacketsOf(all)
  BY DEF LifeTypes, listed, PacketsOf
<1>2. CASE UNCHANGED <<tx_queue_head, heap>>
  BY <1>1, <1>2
<1>3. CASE tx_queue_head # <<>> /\ tx_queue_head' = Tail(tx_queue_head) /\ heap' = heap \ {h.packet}
  BY <1>1, <1>3, TailOfList
<1>4. CASE /\ tx_queue_head # <<>> /\ UNCHANGED heap
           /\ tx_queue_head' \in scheduled(all \ {h}, {[h EXCEPT !.queued = FALSE]})
  <2> DEFINE g == [h EXCEPT !.queued = FALSE]
             S == (all \ {h}) \cup {g}
  <2>1. h \in all /\ all \subseteq TxEntries /\ IsFiniteSet(all) /\ OnePerPacket(all)
    BY <1>1, <1>4, TailOfList, RangeFinite, DistinctRange
  <2> HIDE DEF h, all
  <2>2. g \in TxEntries /\ g.packet = h.packet
    BY <2>1 DEF TxEntries
  <2> HIDE DEF g
  <2>3. S \subseteq TxEntries /\ IsFiniteSet(S)
    BY <2>1, <2>2, FS_RemoveElement, FS_AddElement
  <2>4. OnePerPacket(S)
    BY <2>1, <2>2, Zenon DEF OnePerPacket
  <2>5. PacketsOf(S) = PacketsOf(all)
    BY <2>1, <2>2, Zenon DEF PacketsOf
  <2>6. PICK q \in SetToSeqs(S) : q = tx_queue_head'
    BY <1>4 DEF scheduled, g
  <2> HIDE DEF S
  <2>7. q \in Seq(TxEntries) /\ Distinct(q) /\ Range(q) = S
    BY <2>3, <2>4, ListOfSet
  <2> QED
    BY <1>1, <1>4, <2>5, <2>6, <2>7
<1> QED
  BY <1>2, <1>3, <1>4 DEF ExecTxHandle, _mdns_free_tx_packet

--------------------------------------------------------------------------------
(* The steps of the life cycle.                                             *)
LEMMA EmptyList == Range(<<>>) = {} /\ Distinct(<<>>)
  BY DEF Range, Distinct

LEMMA LifeInitInv == LifeInit => LifeInv
<1> SUFFICES ASSUME LifeInit PROVE LifeInv
  OBVIOUS
<1> USE DEF LifeInit
<1>1. LifeTypes
  BY EmptySeq DEF LifeTypes
<1>2. Phases
  BY DEF Phases, Starting, TakenDown, Up
<1>3. StopIsLast
  BY NoActions DEF StopIsLast
<1>4. Packets
  BY EmptyList DEF Packets, listed
<1> QED
  BY <1>1, <1>2, <1>3, <1>4 DEF LifeInv

(* A step that leaves the packets alone.                                    *)
LEMMA SamePackets ==
    ASSUME Packets, UNCHANGED <<tx_queue_head, heap>>,
           user = "free_server" => user' = "free_server",
           user' = "free_server" => user = "free_server",
           killed' = killed, late => late'
    PROVE  Packets'
<1>1. listed' = listed
  BY DEF listed
<1> QED
  BY <1>1 DEF Packets

LEMMA InitSteps == LifeInv /\ mdns_init => LifeInv'
<1> SUFFICES ASSUME LifeInv, mdns_init PROVE LifeInv'
  OBVIOUS
<1> USE DEF LifeInv
<1>1. CASE InitServer
  <2> USE <1>1 DEF InitServer
  <2>1. LifeTypes'
    BY DEF LifeTypes, Starting
  <2>2. Phases'
    BY DEF LifeTypes, Phases, Starting, TakenDown, Up
  <2>3. StopIsLast'
    BY DEF StopIsLast
  <2>4. Packets'
    BY DEF Packets, Phases, listed
  <2> QED
    BY <2>1, <2>2, <2>3, <2>4
<1>2. CASE InitRegister
  <2> USE <1>2 DEF InitRegister
  <2>1. LifeTypes'
    BY DEF LifeTypes, Starting
  <2>2. Phases'
    BY DEF LifeTypes, Phases, Starting, TakenDown, Up
  <2>3. StopIsLast'
    BY DEF StopIsLast
  <2>4. Packets'
    BY SamePackets
  <2> QED
    BY <2>1, <2>2, <2>3, <2>4
<1>3. CASE InitPcbs
  <2> USE <1>3 DEF InitPcbs
  <2>0. pcbs' \subseteq Pcbs
    BY DEF LifeTypes, _mdns_pcb_init
  <2>1. LifeTypes'
    BY <2>0 DEF LifeTypes, Starting
  <2>2. Phases'
    BY DEF LifeTypes, Phases, Starting, TakenDown, Up
  <2>3. StopIsLast'
    BY DEF StopIsLast
  <2>4. Packets'
    BY SamePackets
  <2> QED
    BY <2>1, <2>2, <2>3, <2>4
<1>4. CASE InitStart
  <2> USE <1>4 DEF InitStart
  <2>1. LifeTypes'
    BY DEF LifeTypes, Starting
  <2>2. Phases'
    BY DEF LifeTypes, Phases, Starting, TakenDown, Up, receiving, noTask, action
  <2>3. StopIsLast'
    BY DEF StopIsLast
  <2>4. Packets'
    BY SamePackets
  <2> QED
    BY <2>1, <2>2, <2>3, <2>4
<1>5. CASE InitUndo
  <2> USE <1>5 DEF InitUndo
  <2>1. LifeTypes'
    BY EmptySeq DEF LifeTypes, Starting
  <2>2. Phases'
    BY DEF LifeTypes, Phases, Starting, TakenDown, Up
  <2>3. StopIsLast'
    BY NoActions DEF StopIsLast
  <2>4. Packets'
    BY SamePackets
  <2> QED
    BY <2>1, <2>2, <2>3, <2>4
<1> QED
  BY <1>1, <1>2, <1>3, <1>4, <1>5 DEF mdns_init

LEMMA ActionTyped ==
    ASSUME NEW type \in ActionTypes, NEW p \in Nat
    PROVE  action(type, p) \in LifeActions
  BY DEF action, LifeActions, ActionTypes

(* Sending an action.                                                       *)
LEMMA SendTyped ==
    ASSUME LifeTypes, NEW type \in ActionTypes, NEW p \in Nat, send(type, p)
    PROVE  /\ action_queue' \in Seq(LifeActions)
           /\ NoStop(action_queue) /\ type # "TASK_STOP" => NoStop(action_queue')
           /\ NoPacket(action_queue) /\ p = 0 => NoPacket(action_queue')
           /\ NoPacketBehindStop(action_queue) /\ p = 0 => NoPacketBehindStop(action_queue')
           /\ NoStop(action_queue) => NoPacketBehindStop(action_queue')
<1> DEFINE a == action(type, p)
<1>1. a.type = type /\ a.packet = p
  BY DEF action
<1>2. action_queue \in Seq(LifeActions)
  BY DEF LifeTypes
<1>3. NoStop(action_queue) => NoPacketBehindStop(action_queue)
  BY DEF NoStop, NoPacketBehindStop
<1> HIDE DEF a
<1>4. action_queue' = action_queue \/ action_queue' = Append(action_queue, a)
  BY DEF send, a
<1>5. CASE action_queue' = action_queue
  BY <1>2, <1>3, <1>5
<1>6. CASE action_queue' = Append(action_queue, a)
  <2>1. a \in LifeActions
    BY ActionTyped DEF a
  <2> QED
    BY <1>1, <1>2, <1>6, <2>1, ActionsAppend DEF a
<1> QED
  BY <1>4, <1>5, <1>6

LEMMA FreeSteps == LifeInv /\ (FreeBegin \/ mdns_free) => LifeInv'
<1> SUFFICES ASSUME LifeInv, FreeBegin \/ mdns_free PROVE LifeInv'
  OBVIOUS
<1> USE DEF LifeInv
<1>1. CASE FreeBegin
  <2>0. action_queue' \in Seq(LifeActions) /\ (NoStop(action_queue) => NoStop(action_queue'))
    <3>1. LifeTypes /\ action_queue \in Seq(LifeActions) /\ "SERVICES_CLEAR" \in ActionTypes
      BY DEF LifeTypes, ActionTypes
    <3>2. action_queue' = action_queue \/ send("SERVICES_CLEAR", 0)
      BY <1>1 DEF FreeBegin
    <3> QED
      BY <3>1, <3>2, SendTyped
  <2> USE <1>1 DEF FreeBegin
  <2>1. LifeTypes'
    BY <2>0 DEF LifeTypes
  <2>2. Phases'
    BY DEF LifeTypes, Phases, Starting, TakenDown, Up
  <2>3. StopIsLast'
    BY <2>0 DEF StopIsLast
  <2>4. Packets'
    BY SamePackets
  <2> QED
    BY <2>1, <2>2, <2>3, <2>4
<1>2. CASE _mdns_stop_timer
  <2> USE <1>2 DEF _mdns_stop_timer
  <2>0. late' \in BOOLEAN
    BY DEF LifeTypes
  <2>1. LifeTypes'
    BY <2>0 DEF LifeTypes
  <2>2. Phases'
    BY DEF LifeTypes, Phases, Starting, TakenDown, Up
  <2>3. StopIsLast'
    BY DEF StopIsLast
  <2>4. Packets'
    BY SamePackets
  <2> QED
    BY <2>1, <2>2, <2>3, <2>4
<1>3. CASE TaskStop
  <2>0. /\ action_queue' \in Seq(LifeActions)
        /\ NoStop(action_queue) => NoPacketBehindStop(action_queue')
    <3>1. "TASK_STOP" \in ActionTypes
      BY DEF ActionTypes
    <3> QED
      BY <1>3, <3>1, SendTyped DEF TaskStop
  <2> USE <1>3 DEF TaskStop
  <2>1. LifeTypes'
    BY <2>0 DEF LifeTypes
  <2>2. Phases'
    BY DEF LifeTypes, Phases, Starting, TakenDown, Up
  <2>3. StopIsLast'
    BY <2>0 DEF StopIsLast, Phases, LifeTypes
  <2>4. Packets'
    <3>1. listed' = listed
      BY DEF listed
    <3> QED
      BY <3>1 DEF Packets
  <2> QED
    BY <2>1, <2>2, <2>3, <2>4
<1>4. CASE TaskStopWait
  <2> USE <1>4 DEF TaskStopWait
  <2>1. LifeTypes'
    BY DEF LifeTypes, TakenDown
  <2>2. Phases'
    BY DEF LifeTypes, Phases, Starting, TakenDown, Up
  <2>3. StopIsLast'
    BY DEF StopIsLast
  <2>4. Packets'
    BY SamePackets
  <2> QED
    BY <2>1, <2>2, <2>3, <2>4
<1>5. CASE FreePcb
  <2> USE <1>5 DEF FreePcb
  <2>0. pcbs' \subseteq Pcbs
    BY DEF LifeTypes, _mdns_pcb_deinit
  <2>1. LifeTypes'
    BY <2>0 DEF LifeTypes, TakenDown
  <2>2. Phases'
    BY DEF LifeTypes, Phases, Starting, TakenDown, Up
  <2>3. StopIsLast'
    BY DEF StopIsLast
  <2>4. Packets'
    BY SamePackets
  <2> QED
    BY <2>1, <2>2, <2>3, <2>4
<1>6. CASE FreeQueue
  <2> USE <1>6 DEF FreeQueue
  <2>1. LifeTypes'
    BY EmptySeq DEF LifeTypes, TakenDown
  <2>2. Phases'
    BY DEF LifeTypes, Phases, Starting, TakenDown, Up
  <2>3. StopIsLast'
    BY NoActions DEF StopIsLast
  <2>4. Packets'
    <3>1. listed' = listed
      BY DEF listed
    <3>2. ~killed /\ ~late => freedByActions = {}
      <4>1. ~killed /\ ~late => NoPacket(action_queue)
        BY DEF StopIsLast, Phases, TakenDown
      <4>2. DOMAIN action_queue = 1 .. Len(action_queue)
        BY LenProperties DEF LifeTypes
      <4> QED
        BY <4>1, <4>2 DEF NoPacket, freedByActions
    <3> QED
      BY <3>1, <3>2 DEF Packets, _mdns_free_tx_packet
  <2> QED
    BY <2>1, <2>2, <2>3, <2>4
<1>7. CASE FreeServer
  <2> USE <1>7 DEF FreeServer
  <2>1. LifeTypes'
    BY EmptySeq DEF LifeTypes
  <2>2. Phases'
    BY DEF LifeTypes, Phases, Starting, TakenDown, Up
  <2>3. StopIsLast'
    BY DEF StopIsLast
  <2>4. Packets'
    <3>1. listed' = {} /\ heap' = {}
      BY EmptyList DEF listed, Packets, _mdns_free_tx_packet
    <3> QED
      BY <3>1, EmptyList DEF Packets
  <2> QED
    BY <2>1, <2>2, <2>3, <2>4
<1> QED
  BY <1>1, <1>2, <1>3, <1>4, <1>5, <1>6, <1>7 DEF mdns_free

(* What comes into the queue from outside carries no packet.                *)
LEMMA SendSteps == LifeInv /\ (Api \/ event_handler \/ PacketReceived) => LifeInv'
<1> SUFFICES ASSUME LifeInv, Api \/ event_handler \/ PacketReceived PROVE LifeInv'
  OBVIOUS
<1> USE DEF LifeInv
<1>1. PICK type \in ActionTypes \ {"TASK_STOP"} : send(type, 0)
  BY DEF Api, event_handler, PacketReceived, ActionTypes
<1>2. /\ action_queue' \in Seq(LifeActions)
      /\ NoStop(action_queue) => NoStop(action_queue')
      /\ NoPacket(action_queue) => NoPacket(action_queue')
      /\ NoPacketBehindStop(action_queue) => NoPacketBehindStop(action_queue')
  BY <1>1, SendTyped
<1>3. /\ UNCHANGED <<_mdns_server, tx_queue_head, heap, services, semaphore, task, timer, cb>>
      /\ UNCHANGED <<registered, pcbs, user, inits, late, killed>>
  BY DEF Api, event_handler, PacketReceived
<1>4. _mdns_server /\ user # "free_server"
  <2>1. registered \/ pcbs # {} \/ Up
    BY DEF Api, event_handler, PacketReceived, _pcb_main, Up
  <2> QED
    BY <2>1 DEF Phases, LifeTypes, Up, TakenDown
<1>5. LifeTypes'
  BY <1>2, <1>3 DEF LifeTypes
<1>6. Phases'
  BY <1>3, <1>4 DEF Phases, Up
<1>7. StopIsLast'
  BY <1>2, <1>3 DEF StopIsLast
<1>8. Packets'
  BY <1>3, SamePackets
<1> QED
  BY <1>5, <1>6, <1>7, <1>8

(* The service task takes an action; it ends on TASK_STOP.                  *)
LEMMA ReceiveStep == LifeInv /\ Receive => LifeInv'
<1> SUFFICES ASSUME LifeInv, Receive PROVE LifeInv'
  OBVIOUS
<1> USE DEF LifeInv
<1> DEFINE h == Head(action_queue)
<1>1. task = receiving /\ task # noTask /\ action_queue # <<>> /\ action_queue \in Seq(LifeActions)
  BY DEF Receive, LifeTypes, receiving, noTask, action
<1>2. /\ action_queue' \in Seq(LifeActions) /\ h \in LifeActions
      /\ NoStop(action_queue) => NoStop(action_queue') /\ h.type # "TASK_STOP"
      /\ NoPacket(action_queue) => NoPacket(action_queue')
      /\ NoPacketBehindStop(action_queue) => NoPacketBehindStop(action_queue')
      /\ NoPacketBehindStop(action_queue) /\ h.type = "TASK_STOP" => NoPacket(action_queue')
  BY <1>1, ActionsTail DEF Receive
<1>3. /\ UNCHANGED <<_mdns_server, tx_queue_head, heap, services, semaphore, timer, cb>>
      /\ UNCHANGED <<registered, pcbs, user, inits, late, killed>>
      /\ task' = IF h.type = "TASK_STOP" THEN noTask ELSE h
  BY DEF Receive
<1>4. h # noTask
  BY <1>2 DEF LifeActions, ActionTypes, noTask, action
<1> HIDE DEF h
<1>5. user \in {"idle", "stop_timer", "stop_task", "stop_wait"} /\ _mdns_server
  BY <1>1 DEF LifeTypes, Phases
<1>6. h.type = "TASK_STOP" => user = "stop_wait"
  BY <1>2, <1>5 DEF StopIsLast
<1>7. LifeTypes'
  BY <1>2, <1>3 DEF LifeTypes
<1>8. Phases'
  BY <1>1, <1>3, <1>4, <1>5, <1>6 DEF Phases, Up, Starting, TakenDown
<1>9. StopIsLast'
  BY <1>2, <1>3, <1>4, <1>5, <1>6 DEF StopIsLast
<1>10. Packets'
  BY <1>3, SamePackets
<1> QED
  BY <1>7, <1>8, <1>9, <1>10

(* The service task executes an action.                                     *)
LEMMA ExecuteStep == LifeInv /\ Execute => LifeInv'
<1> SUFFICES ASSUME LifeInv, Execute PROVE LifeInv'
  OBVIOUS
<1> USE DEF LifeInv
<1>1. /\ UNCHANGED <<_mdns_server, action_queue, semaphore, timer, cb, registered, user, inits>>
      /\ UNCHANGED <<late, killed>> /\ task' = receiving /\ receiving # noTask
  BY DEF Execute, receiving, noTask, action
<1>2. task # noTask
  BY DEF Execute, ExecProbe, ExecSystemEvent, ExecServicesClear, ExecReceived, ExecTxHandle,
         noTask, action
<1>3. user \in {"idle", "stop_timer", "stop_task", "stop_wait"} /\ _mdns_server
  BY <1>2 DEF LifeTypes, Phases
<1>4. Distinct(tx_queue_head) /\ heap = listed /\ pcbs \in SUBSET Pcbs
  BY <1>3 DEF Packets, LifeTypes
<1>5. listed = PacketsOf(Range(tx_queue_head)) /\ listed' = PacketsOf(Range(tx_queue_head'))
  BY DEF listed, PacketsOf
<1>6. pcbs' \subseteq Pcbs
  BY <1>4 DEF Execute, ExecProbe, ExecSystemEvent, ExecServicesClear, ExecReceived, ExecTxHandle,
              _mdns_pcb_init, _mdns_pcb_deinit
<1>7. /\ tx_queue_head' \in Seq(TxEntries) /\ Distinct(tx_queue_head')
      /\ heap' = listed'
  <2>1. CASE UNCHANGED <<tx_queue_head, heap>>
    BY <1>4, <1>5, <2>1 DEF LifeTypes
  <2>2. CASE ExecProbe
    BY <1>4, <1>5, <2>2, ProbingLists DEF ExecProbe
  <2>3. CASE ExecSystemEvent
    <3>1. PICK p \in Pcbs :
            \/ startProbing({p})
            \/ UNCHANGED <<tx_queue_head, heap>>
            \/ tx_queue_head' \in scheduled(kept({p}), {}) /\ heap' = cleared({p})
      BY <2>3 DEF ExecSystemEvent
    <3> QED
      BY <1>4, <1>5, <2>1, <3>1, ProbingLists, ClearingLists
  <2>4. CASE ExecTxHandle
    BY <1>4, <1>5, <2>4, HandledLists
  <2> QED
    BY <2>1, <2>2, <2>3, <2>4 DEF Execute, ExecServicesClear, ExecReceived
<1>8. LifeTypes'
  BY <1>1, <1>6, <1>7 DEF LifeTypes
<1>9. Phases'
  BY <1>1, <1>2, <1>3 DEF Phases, Up, Starting, TakenDown
<1>10. StopIsLast'
  BY <1>1, <1>3 DEF StopIsLast
<1>11. Packets'
  BY <1>1, <1>7 DEF Packets
<1> QED
  BY <1>8, <1>9, <1>10, <1>11

(* The scheduler takes the first packet it has not handed over yet.         *)
LEMMA FirstUnqueued ==
    ASSUME LifeTypes, unqueued # {}
    PROVE  Min(unqueued) \in DOMAIN tx_queue_head
<1> DEFINE Before == {ss \in Nat \X Nat : ss[1] < ss[2]}
<1>1. IsWellFoundedOn(Before, Nat)
  BY NatLessThanWellFounded DEF OpToRel
<1>2. unqueued \subseteq DOMAIN tx_queue_head /\ unqueued \subseteq Nat
  BY LenProperties DEF LifeTypes, unqueued
<1>3. PICK n \in unqueued : \A m \in unqueued : ~ (<<m, n>> \in Before)
  BY <1>1, <1>2, WFMin, Zenon
<1>4. ASSUME NEW m \in unqueued PROVE n =< m
  <2>1. m \in Nat /\ n \in Nat /\ ~ (<<m, n>> \in Before)
    BY <1>2, <1>3
  <2> QED
    BY <2>1
<1> QED
  BY <1>2, <1>4 DEF Min

LEMMA SchedulerStep == LifeInv /\ _mdns_scheduler_run => LifeInv'
<1> SUFFICES ASSUME LifeInv, _mdns_scheduler_run PROVE LifeInv'
  OBVIOUS
<1> USE DEF LifeInv
<1>1. /\ UNCHANGED <<_mdns_server, heap, services, semaphore, task, timer, registered, pcbs>>
      /\ UNCHANGED <<user, inits, late, killed>> /\ cb' = "search"
      /\ cb = "scheduler" /\ semaphore /\ _mdns_server
  BY DEF _mdns_scheduler_run
<1>2. CASE UNCHANGED <<action_queue, tx_queue_head>>
  <2>1. LifeTypes'
    BY <1>1, <1>2 DEF LifeTypes
  <2>2. Phases'
    BY <1>1, <1>2 DEF Phases, Up
  <2>3. StopIsLast'
    BY <1>1, <1>2 DEF StopIsLast
  <2>4. Packets'
    BY <1>1, <1>2, SamePackets
  <2> QED
    BY <2>1, <2>2, <2>3, <2>4
<1>3. CASE /\ unqueued # {}
           /\ send("TX_HANDLE", tx_queue_head[Min(unqueued)].packet)
           /\ tx_queue_head' = [tx_queue_head EXCEPT ![Min(unqueued)].queued = TRUE]
  <2>1. PICK n \in DOMAIN tx_queue_head : n = Min(unqueued)
    BY <1>3, FirstUnqueued
  <2>2. tx_queue_head \in Seq(TxEntries) /\ Distinct(tx_queue_head)
    BY DEF LifeTypes, Packets
  <2>3. /\ tx_queue_head' \in Seq(TxEntries) /\ Distinct(tx_queue_head')
        /\ PacketsOf(Range(tx_queue_head')) = PacketsOf(Range(tx_queue_head))
    BY <1>3, <2>1, <2>2, MarkedList
  <2>4. listed' = listed
    BY <2>3 DEF listed, PacketsOf
  <2>5. PICK p \in Nat : send("TX_HANDLE", p)
    <3>1. tx_queue_head[n] \in TxEntries
      BY <2>1, <2>2, ElementOfSeq, LenProperties
    <3>2. tx_queue_head[n].packet \in Nat
      BY <3>1 DEF TxEntries
    <3> QED
      BY <1>3, <2>1, <3>2
  <2>6. action_queue' \in Seq(LifeActions) /\ (NoStop(action_queue) => NoStop(action_queue'))
    <3>1. "TX_HANDLE" \in ActionTypes
      BY DEF ActionTypes
    <3> QED
      BY <2>5, <3>1, SendTyped
  <2>7. tx_queue_head # <<>>
    BY <2>1
  <2>8. user \in {"idle", "stop_timer", "stop_task", "stop_wait"}
    BY <1>1, <2>7 DEF LifeTypes, Phases
  <2>9. ~late => Up
    BY <1>1 DEF Phases
  <2>10. LifeTypes'
    BY <1>1, <2>3, <2>6 DEF LifeTypes
  <2>11. Phases'
    BY <1>1, <2>7, <2>8 DEF Phases, Up, Starting, TakenDown
  <2>12. StopIsLast'
    BY <1>1, <2>6, <2>8, <2>9 DEF StopIsLast, Up
  <2>13. Packets'
    BY <1>1, <2>3, <2>4 DEF Packets
  <2> QED
    BY <2>10, <2>11, <2>12, <2>13
<1> QED
  BY <1>2, <1>3 DEF _mdns_scheduler_run

LEMMA TimerSteps == LifeInv /\ (Expire \/ Stopped \/ SearchRun) => LifeInv'
<1> SUFFICES ASSUME LifeInv, Expire \/ Stopped \/ SearchRun PROVE LifeInv'
  OBVIOUS
<1> USE DEF LifeInv
<1>1. /\ UNCHANGED <<_mdns_server, action_queue, tx_queue_head, heap, services, semaphore>>
      /\ UNCHANGED <<task, registered, pcbs, user, inits, killed>>
  BY DEF Expire, Stopped, SearchRun
<1>2. late' \in BOOLEAN /\ (late => late')
  BY DEF Expire, Stopped, SearchRun, LifeTypes
<1>3. timer = "on" => Up
  BY DEF LifeTypes, Phases, Up, Starting, TakenDown
<1>4. LifeTypes'
  BY <1>1, <1>2 DEF LifeTypes, Expire, Stopped, SearchRun
<1>5. Phases'
  BY <1>1, <1>2, <1>3 DEF LifeTypes, Phases, Up, Expire, Stopped, SearchRun
<1>6. StopIsLast'
  BY <1>1, <1>2 DEF StopIsLast, LifeTypes
<1>7. Packets'
  BY <1>1, <1>2, SamePackets
<1> QED
  BY <1>4, <1>5, <1>6, <1>7

LEMMA LifeStutter == LifeInv /\ UNCHANGED lifeVars => LifeInv'
<1> SUFFICES ASSUME LifeInv, UNCHANGED lifeVars PROVE LifeInv'
  OBVIOUS
<1> USE DEF LifeInv, lifeVars
<1>1. LifeTypes'
  BY DEF LifeTypes
<1>2. Phases'
  BY DEF Phases, Up
<1>3. StopIsLast'
  BY DEF StopIsLast
<1>4. Packets'
  BY SamePackets
<1> QED
  BY <1>1, <1>2, <1>3, <1>4

(* The inductive invariant of the life cycle: who is there in which phase   *)
(* of mdns_init() and mdns_free(), that no packet stands behind TASK_STOP,  *)
(* and that the allocated packets are the listed ones, each listed once.    *)
THEOREM LifeInvariant == LifeSpec => []LifeInv
<1>1. LifeInv /\ [LifeNext]_lifeVars => LifeInv'
  BY InitSteps, FreeSteps, SendSteps, ReceiveStep, ExecuteStep, SchedulerStep, TimerSteps,
     LifeStutter
  DEF LifeNext, _mdns_service_task, _mdns_timer_cb
<1> QED
  BY <1>1, LifeInitInv, PTL DEF LifeSpec

(* For every number of interfaces, every length of the action queue and     *)
(* every number of packets: whoever could touch the server, its queue or    *)
(* its semaphore is gone before mdns_free() gives them back, nothing stays  *)
(* allocated, and a packet is freed once unless the task was deleted or a   *)
(* timer callback came late.                                                *)
THEOREM NobodyIsLeft == LifeSpec => []NobodyLeft
<1>1. LifeInv => NobodyLeft
  <2> SUFFICES ASSUME LifeInv PROVE NobodyLeft
    OBVIOUS
  <2> USE DEF LifeInv
  <2>1. task # noTask => _mdns_server /\ semaphore
    BY DEF LifeTypes, Phases, Up, Starting, TakenDown
  <2>2. registered \/ _pcb_main => _mdns_server
    BY DEF Phases, _pcb_main
  <2>3. cb # "idle" /\ ~late => _mdns_server /\ semaphore
    BY DEF Phases, Up
  <2>4. user = "idle" /\ ~_mdns_server =>
          action_queue = <<>> /\ tx_queue_head = <<>> /\ heap = {} /\ timer # "on"
    BY EmptyList DEF Phases, Packets, listed
  <2>5. FreedOnce
    <3>1. ~killed /\ ~late => listed \subseteq heap
      BY DEF Packets
    <3>2. ~killed /\ ~late /\ user = "free_queue" => NoPacket(action_queue)
      BY DEF StopIsLast, Phases, TakenDown
    <3>3. DOMAIN action_queue = 1 .. Len(action_queue)
      BY LenProperties DEF LifeTypes
    <3>4. NoPacket(action_queue) => freedByActions = {}
      BY <3>3 DEF NoPacket, freedByActions
    <3> QED
      BY <3>1, <3>2, <3>4 DEF FreedOnce
  <2> QED
    BY <2>1, <2>2, <2>3, <2>4, <2>5 DEF NobodyLeft
<1> QED
  BY <1>1, LifeInvariant, PTL

--------------------------------------------------------------------------------
(* The queries.                                                             *)

Searches == [live : BOOLEAN, state : {"OFF", "INIT", "RUNNING"}, results : Nat, max : Nat,
             sem : {0, 1}, age : Nat, unsent : Nat]
SearchActions == [type : {"SEARCH_ADD", "SEARCH_SEND", "SEARCH_END"}, search : Tasks]
Receipts == [type : {"RX_HANDLE"}, found : SUBSET Tasks, cut : BOOLEAN]
Requests == SearchActions \cup Receipts

SearchTypes ==
    /\ search \in [Tasks -> Searches] /\ waiting \subseteq Tasks
    /\ search_once \in Seq(Tasks) /\ queue \in Seq(Requests)

(* A search that is listed has an owner who waits; it may be full, but has  *)
(* not more results than its owner wants.                                   *)
Wanting(s) == s.live /\ s.sem = 0 /\ (s.max = 0 \/ s.results =< s.max)

(* What holds of a search whose end, or whose listing, waits in the queue.  *)
Ending(S, L, t) == t \in L /\ S[t].state = "OFF" /\ S[t].age > Timeout
Adding(S, L, t) == t \notin L /\ Wanting(S[t])

QueueTrue(q, S, L) ==
    \A k \in DOMAIN q : /\ q[k].type = "SEARCH_END" => Ending(S, L, q[k].search)
                        /\ q[k].type = "SEARCH_ADD" => Adding(S, L, q[k].search)

Claims(r) == r.type \in {"SEARCH_ADD", "SEARCH_END"}
OneClaim(q) ==
    \A i, j \in DOMAIN q : Claims(q[i]) /\ Claims(q[j]) /\ q[i].search = q[j].search => i = j

(* No packet is read to its end before the timer's end of a full search: it *)
(* would end that search first.                                             *)
ReadOut(r) == r.type = "RX_HANDLE" /\ ~r.cut

EndsFirst(q, S) ==
    \A k \in DOMAIN q :
        q[k].type = "SEARCH_END" /\ search_is_done(S[q[k].search]) =>
            \A i \in 1 .. k - 1 : ~ReadOut(q[i])

SearchInv ==
    /\ SearchTypes /\ ~fault
    /\ \A t \in Tasks : search[t].live <=> t \in waiting
    /\ IsInjective(search_once)
    /\ \A t \in Range(search_once) : Wanting(search[t])
    /\ QueueTrue(queue, search, Range(search_once))
    /\ OneClaim(queue)
    /\ EndsFirst(queue, search)
    /\ QueryWaits
--------------------------------------------------------------------------------
(* The action queue as the queries see it.                                  *)
LEMMA ClaimTyped ==
    ASSUME NEW r \in Requests
    PROVE  /\ r.type \in {"SEARCH_ADD", "SEARCH_SEND", "SEARCH_END"} => r.search \in Tasks
           /\ Claims(r) => r.search \in Tasks
           /\ r.type = "RX_HANDLE" => r.found \in SUBSET Tasks
  BY DEF Requests, SearchActions, Receipts, Claims

LEMMA RequestsTail ==
    ASSUME NEW q \in Seq(Requests), q # <<>>, OneClaim(q)
    PROVE  /\ Tail(q) \in Seq(Requests) /\ Head(q) \in Requests /\ OneClaim(Tail(q))
           /\ \A k \in DOMAIN Tail(q) : /\ k + 1 \in DOMAIN q /\ Tail(q)[k] = q[k + 1]
                                        /\ Tail(q)[k] \in Requests /\ k \in Nat \ {0}
                                        /\ \A i \in 1 .. k - 1 : Tail(q)[i] = q[i + 1]
           /\ \A k \in DOMAIN Tail(q) : Claims(Head(q)) /\ Claims(Tail(q)[k]) =>
                                            Tail(q)[k].search # Head(q).search
           /\ 1 \in DOMAIN q /\ Head(q) = q[1]
<1> DEFINE u == Tail(q)
<1>1. /\ u \in Seq(Requests) /\ Head(q) \in Requests /\ Len(u) = Len(q) - 1
      /\ \A k \in 1 .. Len(u) : u[k] = q[k + 1]
  BY HeadTailProperties
<1>2. Head(q) = q[1] /\ Len(q) \in Nat \ {0} /\ DOMAIN q = 1 .. Len(q) /\ DOMAIN u = 1 .. Len(u)
  BY <1>1, EmptySeq, LenProperties
<1> HIDE DEF u
<1>3. \A k \in DOMAIN u : k \in Nat \ {0} /\ k + 1 \in DOMAIN q /\ u[k] = q[k + 1]
  BY <1>1, <1>2
<1>4. \A k \in DOMAIN u : u[k] \in Requests /\ \A i \in 1 .. k - 1 : u[i] = q[i + 1]
  BY <1>1, <1>2, ElementOfSeq
<1>5. 1 \in DOMAIN q
  BY <1>2
<1>6. OneClaim(u)
  BY <1>3 DEF OneClaim
<1>7. \A k \in DOMAIN u : Claims(Head(q)) /\ Claims(u[k]) => u[k].search # Head(q).search
  BY <1>2, <1>3, <1>5 DEF OneClaim
<1> QED
  BY <1>1, <1>2, <1>3, <1>4, <1>5, <1>6, <1>7 DEF u

(* An action goes in at the end.  Its search has no other there.            *)
LEMMA RequestsAppend ==
    ASSUME NEW q \in Seq(Requests), NEW r \in Requests, OneClaim(q),
           \A k \in DOMAIN q : Claims(r) /\ Claims(q[k]) => q[k].search # r.search
    PROVE  /\ Append(q, r) \in Seq(Requests) /\ OneClaim(Append(q, r))
           /\ \A k \in DOMAIN Append(q, r) : (k \in DOMAIN q /\ Append(q, r)[k] = q[k])
                                               \/ Append(q, r)[k] = r
           /\ \A k \in DOMAIN q : \A i \in 1 .. k - 1 : Append(q, r)[i] = q[i]
<1> DEFINE u == Append(q, r)
<1>1. /\ u \in Seq(Requests) /\ Len(u) = Len(q) + 1 /\ Len(q) \in Nat
      /\ u[Len(q) + 1] = r /\ \A i \in 1 .. Len(q) : u[i] = q[i]
  BY AppendProperties, LenProperties
<1>2. DOMAIN q = 1 .. Len(q) /\ DOMAIN u = 1 .. Len(u)
  BY <1>1, LenProperties
<1> HIDE DEF u
<1>3. /\ \A k \in DOMAIN u : (k \in DOMAIN q /\ u[k] = q[k]) \/ (k = Len(q) + 1 /\ u[k] = r)
      /\ \A k \in DOMAIN q : \A i \in 1 .. k - 1 : u[i] = q[i]
  BY <1>1, <1>2
<1>4. OneClaim(u)
  <2> SUFFICES ASSUME NEW a \in DOMAIN u, NEW b \in DOMAIN u, Claims(u[a]), Claims(u[b]),
                      u[a].search = u[b].search
               PROVE  a = b
    BY DEF OneClaim
  <2> QED
    BY <1>3 DEF OneClaim
<1> QED
  BY <1>1, <1>3, <1>4 DEF u

LEMMA RequestsConcat ==
    ASSUME NEW q \in Seq(Requests), NEW r \in Seq(Requests), OneClaim(q), OneClaim(r),
           \A i \in DOMAIN q, j \in DOMAIN r :
               Claims(q[i]) /\ Claims(r[j]) => q[i].search # r[j].search
    PROVE  /\ q \o r \in Seq(Requests) /\ OneClaim(q \o r)
           /\ \A k \in DOMAIN (q \o r) : \/ k \in DOMAIN q /\ (q \o r)[k] = q[k]
                                         \/ \E j \in DOMAIN r : (q \o r)[k] = r[j]
           /\ \A k \in DOMAIN q : \A i \in 1 .. k - 1 : (q \o r)[i] = q[i]
           /\ DOMAIN (q \o r) = 1 .. Len(q) + Len(r) /\ DOMAIN q = 1 .. Len(q)
<1> DEFINE u == q \o r
<1>1. /\ u \in Seq(Requests) /\ Len(u) = Len(q) + Len(r) /\ Len(q) \in Nat /\ Len(r) \in Nat
      /\ \A i \in 1 .. Len(u) : u[i] = IF i <= Len(q) THEN q[i] ELSE r[i - Len(q)]
  BY ConcatProperties, LenProperties
<1>2. DOMAIN q = 1 .. Len(q) /\ DOMAIN u = 1 .. Len(u) /\ DOMAIN r = 1 .. Len(r)
  BY <1>1, LenProperties
<1> HIDE DEF u
<1>3. /\ \A k \in DOMAIN u : \/ k \in DOMAIN q /\ u[k] = q[k]
                             \/ k - Len(q) \in DOMAIN r /\ u[k] = r[k - Len(q)]
      /\ \A k \in DOMAIN q : \A i \in 1 .. k - 1 : u[i] = q[i]
  BY <1>1, <1>2
<1>4. OneClaim(u)
  <2> SUFFICES ASSUME NEW a \in DOMAIN u, NEW b \in DOMAIN u, Claims(u[a]), Claims(u[b]),
                      u[a].search = u[b].search
               PROVE  a = b
    BY DEF OneClaim
  <2>1. a \in Nat /\ b \in Nat
    BY <1>2
  <2>2. CASE a \in DOMAIN q /\ u[a] = q[a]
    BY <1>3, <2>2 DEF OneClaim
  <2>3. CASE a - Len(q) \in DOMAIN r /\ u[a] = r[a - Len(q)]
    <3>1. b - Len(q) \in DOMAIN r /\ u[b] = r[b - Len(q)]
      BY <1>3, <2>3
    <3>2. a - Len(q) = b - Len(q)
      BY <2>3, <3>1 DEF OneClaim
    <3> QED
      BY <1>1, <2>1, <3>2
  <2> QED
    BY <1>3, <2>2, <2>3
<1> QED
  BY <1>1, <1>2, <1>3, <1>4 DEF u
--------------------------------------------------------------------------------
(* The steps of the queries.                                                *)
LEMMA SearchInitInv == SearchInit => SearchInv
<1> SUFFICES ASSUME SearchInit PROVE SearchInv
  OBVIOUS
<1> USE DEF SearchInit
<1>1. Freed \in Searches /\ Freed.live = FALSE /\ Freed.sem = 0
  BY DEF Freed, Searches
<1> HIDE DEF Freed
<1>2. SearchTypes
  BY <1>1, EmptySeq DEF SearchTypes
<1>3. /\ IsInjective(search_once) /\ Range(search_once) = {}
      /\ QueueTrue(queue, search, Range(search_once)) /\ OneClaim(queue)
      /\ EndsFirst(queue, search)
  BY EmptySeq DEF IsInjective, Range, QueueTrue, OneClaim, EndsFirst
<1>4. QueryWaits
  BY <1>1 DEF QueryWaits
<1> QED
  BY <1>1, <1>2, <1>3, <1>4 DEF SearchInv

(* The searches that have an action in the queue, or are listed, have an    *)
(* owner.                                                                   *)
LEMMA ClaimedHasOwner ==
    ASSUME SearchInv, NEW t \in Tasks, ~Wanting(search[t])
    PROVE  /\ t \notin Range(search_once)
           /\ \A k \in DOMAIN queue : Claims(queue[k]) => queue[k].search # t
  BY DEF SearchInv, QueueTrue, Claims, Ending, Adding

LEMMA QueryStep ==
    ASSUME SearchInv, NEW t \in Tasks, NEW max \in Limits, mdns_query(t, max)
    PROVE  SearchInv'
<1> DEFINE n == search_init(max)
           r == [type |-> "SEARCH_ADD", search |-> t]
           L == Range(search_once)
<1>1. search \in [Tasks -> Searches] /\ search_once \in Seq(Tasks) /\ queue \in Seq(Requests)
  BY DEF SearchInv, SearchTypes
<1>2. n \in Searches /\ n.live /\ n.sem = 0 /\ n.results = 0 /\ n.max = max /\ max \in Nat
  BY SearchAssumption DEF search_init, Freed, Searches
<1>3. Wanting(n)
  BY <1>2 DEF Wanting
<1> HIDE DEF n
<1>4. /\ search' = [search EXCEPT ![t] = n] /\ queue' = Append(queue, r)
      /\ waiting' = waiting \cup {t} /\ UNCHANGED <<search_once, fault>> /\ t \notin waiting
  BY DEF mdns_query, n
<1>5. ~search[t].live
  BY <1>4 DEF SearchInv
<1>6. t \notin L /\ \A k \in DOMAIN queue : Claims(queue[k]) => queue[k].search # t
  BY <1>5, ClaimedHasOwner DEF Wanting
<1>7. r \in Requests /\ r.search = t /\ r.type = "SEARCH_ADD"
  BY DEF Requests, SearchActions
<1> HIDE DEF r, L
<1>8. /\ queue' \in Seq(Requests) /\ OneClaim(queue')
      /\ \A k \in DOMAIN queue' : (k \in DOMAIN queue /\ queue'[k] = queue[k]) \/ queue'[k] = r
      /\ \A k \in DOMAIN queue : \A i \in 1 .. k - 1 : queue'[i] = queue[i]
  BY <1>1, <1>4, <1>6, <1>7, RequestsAppend DEF SearchInv
<1>9. \A u \in Tasks : search'[u] = IF u = t THEN n ELSE search[u]
  BY <1>1, <1>4
<1>10. L' = L /\ L \subseteq Tasks
  BY <1>1, <1>4, RangeFinite DEF L
<1>11. SearchTypes'
  BY <1>1, <1>2, <1>4, <1>8 DEF SearchTypes, SearchInv
<1>12. \A u \in Tasks : search'[u].live <=> u \in waiting'
  BY <1>2, <1>4, <1>9 DEF SearchInv
<1>13. \A u \in L' : Wanting(search'[u])
  BY <1>6, <1>9, <1>10 DEF SearchInv, L
<1>14. QueueTrue(queue', search', L')
  <2> SUFFICES ASSUME NEW k \in DOMAIN queue'
               PROVE  /\ queue'[k].type = "SEARCH_END" => Ending(search', L', queue'[k].search)
                      /\ queue'[k].type = "SEARCH_ADD" => Adding(search', L', queue'[k].search)
    BY DEF QueueTrue
  <2>1. CASE queue'[k] = r
    BY <1>3, <1>6, <1>7, <1>9, <1>10, <2>1 DEF Adding
  <2>2. CASE k \in DOMAIN queue /\ queue'[k] = queue[k]
    <3>1. queue[k] \in Requests
      BY <1>1, <2>2, ElementOfSeq, LenProperties
    <3>2. Claims(queue[k]) => queue[k].search \in Tasks /\ queue[k].search # t
      BY <1>6, <2>2, <3>1, ClaimTyped
    <3>3. /\ queue[k].type = "SEARCH_END" => Ending(search, L, queue[k].search)
          /\ queue[k].type = "SEARCH_ADD" => Adding(search, L, queue[k].search)
      BY <2>2 DEF SearchInv, QueueTrue, L
    <3> QED
      BY <1>9, <1>10, <2>2, <3>2, <3>3 DEF Claims, Ending, Adding
  <2> QED
    BY <1>8, <2>1, <2>2
<1>15. QueryWaits'
  BY <1>2, <1>9 DEF SearchInv, QueryWaits
<1>16. EndsFirst(queue', search')
  <2> SUFFICES ASSUME NEW k \in DOMAIN queue', queue'[k].type = "SEARCH_END",
                      search_is_done(search'[queue'[k].search]), NEW i \in 1 .. k - 1
               PROVE  ~ReadOut(queue'[i])
    BY DEF EndsFirst
  <2>1. k \in DOMAIN queue /\ queue'[k] = queue[k] /\ queue'[i] = queue[i]
    BY <1>7, <1>8
  <2>2. queue[k].search \in Tasks /\ queue[k].search # t
    BY <1>1, <1>6, <2>1, ClaimTyped, ElementOfSeq, LenProperties DEF Claims
  <2> QED
    BY <1>9, <2>1, <2>2 DEF SearchInv, EndsFirst
<1> QED
  BY <1>4, <1>8, <1>11, <1>12, <1>13, <1>14, <1>15, <1>16 DEF SearchInv, L

LEMMA ReturnStep ==
    ASSUME SearchInv, NEW t \in Tasks, QueryReturns(t)
    PROVE  SearchInv'
<1> DEFINE L == Range(search_once)
<1>1. search \in [Tasks -> Searches] /\ search_once \in Seq(Tasks) /\ queue \in Seq(Requests)
  BY DEF SearchInv, SearchTypes
<1>2. Freed \in Searches /\ ~Freed.live /\ Freed.sem = 0
  BY DEF Freed, Searches
<1> HIDE DEF Freed
<1>3. /\ search' = [search EXCEPT ![t] = Freed] /\ waiting' = waiting \ {t}
      /\ UNCHANGED <<search_once, queue, fault>> /\ search[t].sem = 1
  BY DEF QueryReturns
<1>4. t \notin L /\ \A k \in DOMAIN queue : Claims(queue[k]) => queue[k].search # t
  BY <1>3, ClaimedHasOwner DEF Wanting
<1> HIDE DEF L
<1>5. \A u \in Tasks : search'[u] = IF u = t THEN Freed ELSE search[u]
  BY <1>1, <1>3
<1>6. L' = L /\ L \subseteq Tasks
  BY <1>1, <1>3, RangeFinite DEF L
<1>7. SearchTypes'
  BY <1>1, <1>2, <1>3 DEF SearchTypes, SearchInv
<1>8. \A u \in Tasks : search'[u].live <=> u \in waiting'
  BY <1>2, <1>3, <1>5 DEF SearchInv
<1>9. \A u \in L' : Wanting(search'[u])
  BY <1>4, <1>5, <1>6 DEF SearchInv, L
<1>10. QueueTrue(queue', search', L')
  <2> SUFFICES ASSUME NEW k \in DOMAIN queue
               PROVE  /\ queue[k].type = "SEARCH_END" => Ending(search', L', queue[k].search)
                      /\ queue[k].type = "SEARCH_ADD" => Adding(search', L', queue[k].search)
    BY <1>3 DEF QueueTrue
  <2>1. queue[k] \in Requests
    BY <1>1, ElementOfSeq, LenProperties
  <2>2. Claims(queue[k]) => queue[k].search \in Tasks /\ queue[k].search # t
    BY <1>4, <2>1, ClaimTyped
  <2>3. /\ queue[k].type = "SEARCH_END" => Ending(search, L, queue[k].search)
        /\ queue[k].type = "SEARCH_ADD" => Adding(search, L, queue[k].search)
    BY DEF SearchInv, QueueTrue, L
  <2> QED
    BY <1>5, <1>6, <2>2, <2>3 DEF Claims, Ending, Adding
<1>11. QueryWaits'
  BY <1>2, <1>5 DEF SearchInv, QueryWaits
<1>12. EndsFirst(queue', search')
  <2> SUFFICES ASSUME NEW k \in DOMAIN queue, queue[k].type = "SEARCH_END",
                      search_is_done(search'[queue[k].search]), NEW i \in 1 .. k - 1
               PROVE  ~ReadOut(queue[i])
    BY <1>3 DEF EndsFirst
  <2>1. queue[k].search \in Tasks /\ queue[k].search # t
    BY <1>1, <1>4, ClaimTyped, ElementOfSeq, LenProperties DEF Claims
  <2> QED
    BY <1>5, <2>1 DEF SearchInv, EndsFirst
<1> QED
  BY <1>3, <1>7, <1>8, <1>9, <1>10, <1>11, <1>12 DEF SearchInv, L

LEMMA SearchTickStep ==
    ASSUME SearchInv, SearchTick
    PROVE  SearchInv'
<1> DEFINE L == Range(search_once)
           aged(s) == [s EXCEPT !.age = IF @ =< Timeout THEN @ + 1 ELSE @,
                                !.unsent = IF @ =< Resend THEN @ + 1 ELSE @]
<1>1. search \in [Tasks -> Searches] /\ search_once \in Seq(Tasks) /\ queue \in Seq(Requests)
  BY DEF SearchInv, SearchTypes
<1>2. ASSUME NEW s \in Searches
      PROVE  /\ aged(s) \in Searches /\ aged(s).live = s.live /\ aged(s).state = s.state
             /\ aged(s).sem = s.sem /\ aged(s).max = s.max /\ aged(s).results = s.results
             /\ s.age > Timeout => aged(s).age > Timeout
  <2> DEFINE a == IF s.age =< Timeout THEN s.age + 1 ELSE s.age
             b == IF s.unsent =< Resend THEN s.unsent + 1 ELSE s.unsent
  <2>1. a \in Nat /\ b \in Nat /\ (s.age > Timeout => a > Timeout)
    BY SearchAssumption DEF Searches
  <2>2. aged(s) = [[s EXCEPT !.age = a] EXCEPT !.unsent = b]
    BY DEF Searches
  <2> HIDE DEF a, b
  <2> QED
    BY <2>1, <2>2 DEF Searches
<1> HIDE DEF aged
<1>3. /\ search' = [t \in Tasks |-> IF ~search[t].live THEN search[t] ELSE aged(search[t])]
      /\ UNCHANGED <<search_once, queue, waiting, fault>>
  BY DEF SearchTick, aged
<1>4. ASSUME NEW u \in Tasks
      PROVE  /\ search'[u] \in Searches /\ search'[u].live = search[u].live
             /\ search'[u].state = search[u].state /\ search'[u].sem = search[u].sem
             /\ search'[u].max = search[u].max /\ search'[u].results = search[u].results
             /\ search[u].age > Timeout => search'[u].age > Timeout
  BY <1>1, <1>2, <1>3
<1>5. L' = L /\ L \subseteq Tasks
  BY <1>1, <1>3, RangeFinite
<1> HIDE DEF L
<1>6. SearchTypes'
  BY <1>1, <1>3, <1>4 DEF SearchTypes, SearchInv
<1>7. \A u \in Tasks : search'[u].live <=> u \in waiting'
  BY <1>3, <1>4 DEF SearchInv
<1>8. \A u \in Tasks : Wanting(search[u]) => Wanting(search'[u])
  BY <1>4 DEF Wanting
<1>9. QueueTrue(queue', search', L')
  <2> SUFFICES ASSUME NEW k \in DOMAIN queue
               PROVE  /\ queue[k].type = "SEARCH_END" => Ending(search', L', queue[k].search)
                      /\ queue[k].type = "SEARCH_ADD" => Adding(search', L', queue[k].search)
    BY <1>3 DEF QueueTrue
  <2>1. queue[k] \in Requests
    BY <1>1, ElementOfSeq, LenProperties
  <2>2. Claims(queue[k]) => queue[k].search \in Tasks
    BY <2>1, ClaimTyped
  <2>3. /\ queue[k].type = "SEARCH_END" => Ending(search, L, queue[k].search)
        /\ queue[k].type = "SEARCH_ADD" => Adding(search, L, queue[k].search)
    BY DEF SearchInv, QueueTrue, L
  <2> QED
    BY <1>4, <1>5, <1>8, <2>2, <2>3 DEF Claims, Ending, Adding
<1>10. QueryWaits'
  BY <1>4 DEF SearchInv, QueryWaits
<1>11. \A u \in L' : Wanting(search'[u])
  BY <1>5, <1>8 DEF SearchInv, L
<1>12. EndsFirst(queue', search')
  <2> SUFFICES ASSUME NEW k \in DOMAIN queue, queue[k].type = "SEARCH_END",
                      search_is_done(search'[queue[k].search]), NEW i \in 1 .. k - 1
               PROVE  ~ReadOut(queue[i])
    BY <1>3 DEF EndsFirst
  <2>1. queue[k].search \in Tasks
    BY <1>1, ClaimTyped, ElementOfSeq, LenProperties DEF Claims
  <2>2. search_is_done(search[queue[k].search])
    BY <1>4, <2>1 DEF search_is_done
  <2> QED
    BY <2>2 DEF SearchInv, EndsFirst
<1> QED
  BY <1>3, <1>6, <1>7, <1>9, <1>10, <1>11, <1>12 DEF SearchInv, L

LEMMA PacketStep ==
    ASSUME SearchInv, NEW found \in SUBSET Tasks, NEW cut \in BOOLEAN, _udp_recv(found, cut)
    PROVE  SearchInv'
<1> DEFINE r == [type |-> "RX_HANDLE", found |-> found, cut |-> cut]
<1>1. queue' = Append(queue, r) /\ UNCHANGED <<search, search_once, waiting, fault>>
  BY DEF _udp_recv
<1>2. r \in Requests /\ r.type = "RX_HANDLE" /\ ~Claims(r)
  BY DEF Requests, Receipts, Claims
<1> HIDE DEF r
<1>3. /\ queue' \in Seq(Requests) /\ OneClaim(queue')
      /\ \A k \in DOMAIN queue' : (k \in DOMAIN queue /\ queue'[k] = queue[k]) \/ queue'[k] = r
      /\ \A k \in DOMAIN queue : \A i \in 1 .. k - 1 : queue'[i] = queue[i]
  BY <1>1, <1>2, RequestsAppend DEF SearchInv, SearchTypes
<1>4. QueueTrue(queue', search, Range(search_once)) /\ EndsFirst(queue', search)
  BY <1>2, <1>3 DEF SearchInv, QueueTrue, EndsFirst
<1>5. SearchTypes'
  BY <1>1, <1>3 DEF SearchInv, SearchTypes
<1>6. QueryWaits'
  BY <1>1 DEF SearchInv, QueryWaits
<1> QED
  BY <1>1, <1>3, <1>4, <1>5, <1>6 DEF SearchInv

(* The service task takes the head of the queue.                            *)
LEMMA RequestTaken ==
    ASSUME SearchInv, queue # <<>>
    PROVE  /\ Head(queue) \in Requests /\ Tail(queue) \in Seq(Requests) /\ OneClaim(Tail(queue))
           /\ Head(queue).type = "SEARCH_END" =>
                Ending(search, Range(search_once), Head(queue).search)
           /\ Head(queue).type = "SEARCH_ADD" =>
                Adding(search, Range(search_once), Head(queue).search)
           /\ QueueTrue(Tail(queue), search, Range(search_once))
           /\ EndsFirst(Tail(queue), search)
           /\ \A k \in DOMAIN Tail(queue) :
                ReadOut(Head(queue)) /\ Tail(queue)[k].type = "SEARCH_END" =>
                    ~search_is_done(search[Tail(queue)[k].search])
           /\ \A k \in DOMAIN Tail(queue) : Claims(Tail(queue)[k]) =>
                /\ Tail(queue)[k].search \in Tasks
                /\ Claims(Head(queue)) => Tail(queue)[k].search # Head(queue).search
<1>1. queue \in Seq(Requests) /\ OneClaim(queue) /\ QueueTrue(queue, search, Range(search_once))
  BY DEF SearchInv, SearchTypes
<1>2. /\ Tail(queue) \in Seq(Requests) /\ Head(queue) \in Requests /\ OneClaim(Tail(queue))
      /\ \A k \in DOMAIN Tail(queue) : /\ k + 1 \in DOMAIN queue /\ Tail(queue)[k] = queue[k + 1]
                                       /\ Tail(queue)[k] \in Requests /\ k \in Nat \ {0}
                                       /\ \A i \in 1 .. k - 1 : Tail(queue)[i] = queue[i + 1]
      /\ \A k \in DOMAIN Tail(queue) : Claims(Head(queue)) /\ Claims(Tail(queue)[k]) =>
                                            Tail(queue)[k].search # Head(queue).search
      /\ 1 \in DOMAIN queue /\ Head(queue) = queue[1]
  BY <1>1, RequestsTail
<1>3. QueueTrue(Tail(queue), search, Range(search_once))
  BY <1>1, <1>2 DEF QueueTrue
<1>4. \A k \in DOMAIN Tail(queue) : Claims(Tail(queue)[k]) => Tail(queue)[k].search \in Tasks
  BY <1>2, ClaimTyped
<1>5. ASSUME NEW k \in DOMAIN Tail(queue), Tail(queue)[k].type = "SEARCH_END",
             search_is_done(search[Tail(queue)[k].search])
      PROVE  ~ReadOut(Head(queue)) /\ \A i \in 1 .. k - 1 : ~ReadOut(Tail(queue)[i])
  <2>1. \A i \in 1 .. (k + 1) - 1 : ~ReadOut(queue[i])
    BY <1>2, <1>5 DEF SearchInv, EndsFirst
  <2>2. 1 \in 1 .. (k + 1) - 1 /\ \A i \in 1 .. k - 1 : i + 1 \in 1 .. (k + 1) - 1
    BY <1>2
  <2> QED
    BY <1>2, <2>1, <2>2
<1>6. EndsFirst(Tail(queue), search)
  BY <1>5 DEF EndsFirst
<1> QED
  BY <1>1, <1>2, <1>3, <1>4, <1>5, <1>6 DEF QueueTrue

LEMMA AddStep ==
    ASSUME SearchInv, ExecSearchAdd
    PROVE  SearchInv'
<1> DEFINE t == Head(queue).search
           L == Range(search_once)
<1>1. /\ queue # <<>> /\ Head(queue).type = "SEARCH_ADD" /\ queue' = Tail(queue)
      /\ search_once' = <<t>> \o search_once /\ UNCHANGED <<search, waiting>>
      /\ fault' = (~search[t].live \/ t \in L)
  BY DEF ExecSearchAdd, executes
<1>2. /\ Head(queue) \in Requests /\ queue' \in Seq(Requests) /\ OneClaim(queue')
      /\ Adding(search, L, t) /\ QueueTrue(queue', search, L) /\ EndsFirst(queue', search)
      /\ \A k \in DOMAIN queue' : Claims(queue'[k]) => queue'[k].search # t
  BY <1>1, RequestTaken DEF Claims
<1>3. t \in Tasks
  BY <1>1, <1>2, ClaimTyped
<1> HIDE DEF t
<1>4. search_once' \in Seq(Tasks) /\ IsInjective(search_once') /\ Range(search_once') = L \cup {t}
  <2> DEFINE u == <<t>> \o search_once
  <2>1. search_once \in Seq(Tasks) /\ IsInjective(search_once) /\ t \notin L
    BY <1>2 DEF SearchInv, SearchTypes, Adding
  <2>2. <<t>> \in Seq(Tasks) /\ Len(<<t>>) = 1 /\ <<t>>[1] = t
    BY <1>3
  <2>3. /\ u \in Seq(Tasks) /\ Len(u) = 1 + Len(search_once) /\ Len(search_once) \in Nat
        /\ \A i \in 1 .. Len(u) : u[i] = IF i <= 1 THEN <<t>>[i] ELSE search_once[i - 1]
    BY <2>1, <2>2, ConcatProperties, LenProperties
  <2>4. DOMAIN u = 1 .. Len(u) /\ DOMAIN search_once = 1 .. Len(search_once)
    BY <2>1, <2>3, LenProperties
  <2> HIDE DEF u
  <2>5. u[1] = t /\ \A i \in 1 .. Len(search_once) : u[i + 1] = search_once[i]
    BY <2>2, <2>3
  <2>6. \A i \in DOMAIN u : \/ i = 1 /\ u[i] = t
                            \/ i - 1 \in DOMAIN search_once /\ u[i] = search_once[i - 1]
    BY <2>2, <2>3, <2>4
  <2>7. IsInjective(u)
    <3> SUFFICES ASSUME NEW i \in DOMAIN u, NEW j \in DOMAIN u, u[i] = u[j] PROVE i = j
      BY DEF IsInjective
    <3>1. i \in Nat /\ j \in Nat
      BY <2>4
    <3>2. \A k \in DOMAIN search_once : search_once[k] # t
      BY <2>1 DEF Range
    <3>3. CASE i = 1
      BY <2>5, <2>6, <3>2, <3>3
    <3>4. CASE i - 1 \in DOMAIN search_once /\ u[i] = search_once[i - 1]
      <4>1. j - 1 \in DOMAIN search_once /\ u[j] = search_once[j - 1]
        BY <2>6, <3>2, <3>4
      <4>2. i - 1 = j - 1
        BY <2>1, <3>4, <4>1 DEF IsInjective
      <4> QED
        BY <3>1, <4>2
    <3> QED
      BY <2>6, <3>3, <3>4
  <2>8. Range(u) = L \cup {t}
    <3>1. \A i \in DOMAIN u : u[i] \in L \cup {t}
      BY <2>6 DEF Range
    <3>2. 1 \in DOMAIN u /\ \A i \in DOMAIN search_once : i + 1 \in DOMAIN u
      BY <2>3, <2>4
    <3>3. t \in Range(u) /\ \A i \in DOMAIN search_once : search_once[i] \in Range(u)
      BY <2>4, <2>5, <3>2 DEF Range
    <3> QED
      BY <3>1, <3>3, Zenon DEF Range
  <2> QED
    BY <1>1, <2>3, <2>7, <2>8 DEF u
<1>5. SearchTypes'
  BY <1>1, <1>2, <1>4 DEF SearchInv, SearchTypes
<1>6. \A u \in Range(search_once') : Wanting(search'[u])
  BY <1>1, <1>2, <1>4 DEF SearchInv, Adding
<1>7. QueueTrue(queue', search', Range(search_once'))
  BY <1>1, <1>2, <1>4 DEF QueueTrue, Claims, Ending, Adding
<1>8. QueryWaits'
  BY <1>1 DEF SearchInv, QueryWaits
<1>9. ~fault'
  BY <1>1, <1>2 DEF Adding, Wanting
<1> QED
  BY <1>1, <1>2, <1>4, <1>5, <1>6, <1>7, <1>8, <1>9 DEF SearchInv

LEMMA SendStep ==
    ASSUME SearchInv, ExecSearchSend
    PROVE  SearchInv'
<1>1. queue # <<>> /\ queue' = Tail(queue) /\ UNCHANGED <<search, search_once, waiting, fault>>
  BY DEF ExecSearchSend, executes
<1>2. /\ queue' \in Seq(Requests) /\ OneClaim(queue')
      /\ QueueTrue(queue', search, Range(search_once)) /\ EndsFirst(queue', search)
  BY <1>1, RequestTaken
<1>3. SearchTypes'
  BY <1>1, <1>2 DEF SearchInv, SearchTypes
<1>4. QueryWaits'
  BY <1>1 DEF SearchInv, QueryWaits
<1> QED
  BY <1>1, <1>2, <1>3, <1>4 DEF SearchInv

(* The list without some of its searches.                                   *)
LEMMA ListDetached ==
    ASSUME SearchInv, NEW D, NEW q \in detached(D)
    PROVE  q \in Seq(Tasks) /\ IsInjective(q) /\ Range(q) = Range(search_once) \ D
<1>1. IsFiniteSet(Range(search_once)) /\ Range(search_once) \subseteq Tasks
  BY RangeFinite DEF SearchInv, SearchTypes
<1> DEFINE S == Range(search_once) \ D
<1>2. IsFiniteSet(S) /\ S \subseteq Tasks
  BY <1>1, FS_Subset
<1>3. q \in SetToSeqs(S)
  BY DEF detached
<1> HIDE DEF S
<1>4. q \in Seq(Tasks) /\ Range(q) = S /\ IsInjective(q)
  BY <1>2, <1>3, SequenceOfSet
<1> QED
  BY <1>4 DEF S

LEMMA FinishTyped ==
    ASSUME NEW s \in Searches
    PROVE  /\ search_finish(s) \in Searches /\ search_finish(s).sem = 1
           /\ search_finish(s).live = s.live /\ search_finish(s).age = s.age
           /\ search_finish(s).max = s.max /\ search_finish(s).results = s.results
<1> DEFINE a == [s EXCEPT !.state = "OFF"]
<1>1. /\ a \in Searches /\ a.live = s.live /\ a.age = s.age /\ a.max = s.max
      /\ a.results = s.results
  BY DEF Searches
<1>2. search_finish(s) = [a EXCEPT !.sem = 1]
  BY DEF search_finish, Searches
<1> HIDE DEF a
<1> QED
  BY <1>1, <1>2 DEF Searches

LEMMA EndStep ==
    ASSUME SearchInv, ExecSearchEnd
    PROVE  SearchInv'
<1> DEFINE t == Head(queue).search
           L == Range(search_once)
<1>1. queue # <<>> /\ Head(queue).type = "SEARCH_END" /\ queue' = Tail(queue) /\ UNCHANGED waiting
  BY DEF ExecSearchEnd, executes
<1>2. /\ Head(queue) \in Requests /\ queue' \in Seq(Requests) /\ OneClaim(queue')
      /\ Ending(search, L, t) /\ QueueTrue(queue', search, L) /\ EndsFirst(queue', search)
      /\ \A k \in DOMAIN queue' : Claims(queue'[k]) =>
            queue'[k].search # t /\ queue'[k].search \in Tasks
  BY <1>1, RequestTaken DEF Claims
<1>3. t \in Tasks /\ search[t].live
  BY <1>1, <1>2, ClaimTyped DEF Ending, SearchInv, Wanting
<1>4. /\ search' = [search EXCEPT ![t] = search_finish(search[t])]
      /\ search_once' \in detached({t}) /\ ~fault'
  BY <1>3 DEF ExecSearchEnd
<1>5. search \in [Tasks -> Searches] /\ search_once \in Seq(Tasks)
  BY DEF SearchInv, SearchTypes
<1> HIDE DEF t
<1>6. search_once' \in Seq(Tasks) /\ IsInjective(search_once') /\ Range(search_once') = L \ {t}
  <2>1. PICK q \in detached({t}) : q = search_once'
    BY <1>4
  <2>2. PICK u \in Tasks : u = t
    BY <1>3
  <2>3. q \in Seq(Tasks) /\ IsInjective(q) /\ Range(q) = L \ {u}
    BY <2>1, <2>2, ListDetached
  <2> QED
    BY <2>1, <2>2, <2>3
<1> DEFINE f == search_finish(search[t])
<1>7. /\ f \in Searches /\ f.sem = 1 /\ f.live = search[t].live /\ f.age = search[t].age
  BY <1>3, <1>5, FinishTyped
<1> HIDE DEF f
<1>8. \A u \in Tasks : search'[u] = IF u = t THEN f ELSE search[u]
  BY <1>4, <1>5 DEF f
<1>9. L \subseteq Tasks
  BY <1>5, RangeFinite
<1> HIDE DEF L
<1>10. SearchTypes'
  BY <1>1, <1>2, <1>4, <1>5, <1>6, <1>7 DEF SearchInv, SearchTypes, f
<1>11. \A u \in Tasks : search'[u].live <=> u \in waiting'
  BY <1>1, <1>7, <1>8 DEF SearchInv
<1>12. \A u \in Range(search_once') : Wanting(search'[u])
  BY <1>6, <1>8, <1>9 DEF SearchInv, L
<1>13. QueueTrue(queue', search', Range(search_once'))
  BY <1>2, <1>6, <1>8 DEF QueueTrue, Claims, Ending, Adding
<1>14. QueryWaits'
  BY <1>2, <1>3, <1>7, <1>8 DEF SearchInv, QueryWaits, Ending
<1>15. EndsFirst(queue', search')
  BY <1>2, <1>8 DEF EndsFirst, Claims
<1> QED
  BY <1>2, <1>4, <1>6, <1>10, <1>11, <1>12, <1>13, <1>14, <1>15 DEF SearchInv

LEMMA ResultTyped ==
    ASSUME NEW s \in Searches
    PROVE  /\ search_result_add(s) \in Searches /\ search_result_add(s).sem = s.sem
           /\ search_result_add(s).live = s.live /\ search_result_add(s).age = s.age
           /\ search_result_add(s).max = s.max /\ search_result_add(s).state = s.state
           /\ s.state = "OFF" => search_result_add(s) = s
           /\ Wanting(s) => Wanting(search_result_add(s))
<1> DEFINE r == IF s.max = 0 THEN s.results ELSE s.results + 1
<1>1. /\ r \in Nat /\ s.results \in Nat /\ s.max \in Nat
      /\ s.max = 0 \/ s.results < s.max => s.max = 0 \/ r =< s.max
  BY DEF Searches
<1>2. \/ search_result_add(s) = s
      \/ /\ search_result_add(s) = [s EXCEPT !.results = r] /\ s.state # "OFF"
         /\ s.max = 0 \/ s.results < s.max
  BY DEF search_result_add
<1> HIDE DEF r
<1> USE DEF Wanting
<1> QED
  BY <1>1, <1>2 DEF Searches

LEMMA RxStep ==
    ASSUME SearchInv, ExecRxHandle
    PROVE  SearchInv'
<1> DEFINE L == Range(search_once)
           found == Head(queue).found \cap L
           added == [t \in Tasks |-> IF t \in found THEN search_result_add(search[t]) ELSE search[t]]
           done == {t \in L : ~Head(queue).cut /\ search_is_done(added[t])}
<1>1. /\ queue # <<>> /\ queue' = Tail(queue) /\ UNCHANGED <<waiting, fault>>
      /\ Head(queue).type = "RX_HANDLE"
      /\ search' = [t \in Tasks |-> IF t \in done THEN search_finish(added[t]) ELSE added[t]]
      /\ search_once' \in detached(done)
  BY DEF ExecRxHandle, executes
<1>2. /\ queue' \in Seq(Requests) /\ OneClaim(queue') /\ QueueTrue(queue', search, L)
      /\ EndsFirst(queue', search)
      /\ \A k \in DOMAIN queue' : Claims(queue'[k]) => queue'[k].search \in Tasks
      /\ \A k \in DOMAIN queue' : queue'[k].type = "SEARCH_END" /\ ~Head(queue).cut =>
                                      ~search_is_done(search[queue'[k].search])
  BY <1>1, RequestTaken DEF ReadOut
<1>3. search \in [Tasks -> Searches] /\ search_once \in Seq(Tasks)
  BY DEF SearchInv, SearchTypes
<1>4. ASSUME NEW t \in Tasks
      PROVE  /\ added[t] \in Searches /\ added[t].sem = search[t].sem
             /\ added[t].live = search[t].live /\ added[t].age = search[t].age
             /\ added[t].max = search[t].max /\ added[t].state = search[t].state
             /\ search[t].state = "OFF" \/ t \notin L => added[t] = search[t]
             /\ Wanting(search[t]) => Wanting(added[t])
  <2>1. search[t] \in Searches /\ search[t].results \in Nat
    BY <1>3 DEF Searches
  <2>2. added[t] = search[t] \/ (added[t] = search_result_add(search[t]) /\ t \in L)
    OBVIOUS
  <2>3. t \notin L => added[t] = search[t]
    OBVIOUS
  <2> HIDE DEF added
  <2> QED
    BY <2>1, <2>2, <2>3, ResultTyped
<1>5. L \subseteq Tasks
  BY <1>3, RangeFinite
<1>6. \A t \in Tasks : t \in done <=>
          t \in L /\ ~Head(queue).cut /\ added[t].max # 0 /\ added[t].results >= added[t].max
  BY DEF search_is_done
<1>7. done \subseteq L
  OBVIOUS
<1> HIDE DEF added
<1>8. search_once' \in Seq(Tasks) /\ IsInjective(search_once') /\ Range(search_once') = L \ done
  <2>1. PICK D : D = done
    OBVIOUS
  <2>2. PICK q \in detached(D) : q = search_once'
    BY <1>1, <2>1
  <2>3. q \in Seq(Tasks) /\ IsInjective(q) /\ Range(q) = L \ D
    BY <2>2, ListDetached
  <2> QED
    BY <2>1, <2>2, <2>3
<1> HIDE DEF done
<1>9. \A t \in L : Wanting(search[t])
  BY DEF SearchInv
<1> HIDE DEF L, found
<1>10. ASSUME NEW t \in Tasks
       PROVE  /\ search'[t] \in Searches /\ search'[t].live = search[t].live
              /\ t \notin done => search'[t] = added[t]
              /\ t \in done => /\ search'[t].max # 0 /\ search'[t].results = search'[t].max
  <2>1. t \notin done => search'[t] = added[t] /\ search'[t] \in Searches
    BY <1>1, <1>4
  <2>2. ASSUME t \in done
        PROVE  /\ search'[t] \in Searches /\ search'[t].live = search[t].live
               /\ search'[t].max # 0 /\ search'[t].results = search'[t].max
    <3>1. search'[t] = search_finish(added[t]) /\ added[t] \in Searches
      BY <1>1, <1>4, <2>2
    <3>2. /\ added[t].max # 0 /\ added[t].results >= added[t].max
          /\ added[t].results =< added[t].max
      BY <1>4, <1>6, <1>7, <1>9, <2>2 DEF Wanting
    <3>3. added[t].max \in Nat /\ added[t].results \in Nat
      BY <1>3, <3>1 DEF Searches
    <3>4. added[t].results = added[t].max
      BY <3>2, <3>3
    <3> QED
      BY <1>4, <3>1, <3>2, <3>4, FinishTyped
  <2> QED
    BY <1>4, <2>1, <2>2
<1>11. SearchTypes'
  BY <1>1, <1>2, <1>8, <1>10 DEF SearchInv, SearchTypes
<1>12. \A u \in Tasks : search'[u].live <=> u \in waiting'
  BY <1>1, <1>10 DEF SearchInv
<1>13. \A u \in Range(search_once') : Wanting(search'[u])
  <2> SUFFICES ASSUME NEW u \in L \ done PROVE Wanting(search'[u])
    BY <1>8
  <2>1. u \in Tasks /\ search'[u] = added[u] /\ Wanting(search[u])
    BY <1>4, <1>5, <1>9, <1>10
  <2> QED
    BY <1>4, <2>1
<1>14. QueueTrue(queue', search', Range(search_once'))
  <2> SUFFICES ASSUME NEW k \in DOMAIN queue', Claims(queue'[k])
               PROVE  /\ queue'[k].type = "SEARCH_END" =>
                           Ending(search', L \ done, queue'[k].search)
                      /\ queue'[k].type = "SEARCH_ADD" =>
                           Adding(search', L \ done, queue'[k].search)
    BY <1>8 DEF QueueTrue, Claims
  <2> DEFINE u == queue'[k].search
  <2>1. /\ u \in Tasks
        /\ queue'[k].type = "SEARCH_END" => Ending(search, L, u)
        /\ queue'[k].type = "SEARCH_ADD" => Adding(search, L, u)
    BY <1>2 DEF QueueTrue
  <2> HIDE DEF u
  <2>2. ~Head(queue).cut /\ queue'[k].type = "SEARCH_END" => ~search_is_done(search[u])
    BY <1>2 DEF u
  <2>3. ASSUME Ending(search, L, u), queue'[k].type = "SEARCH_END"
        PROVE  Ending(search', L \ done, u)
    <3>1. added[u] = search[u] /\ u \in L
      BY <1>4, <2>1, <2>3 DEF Ending
    <3>2. u \notin done
      BY <1>6, <2>1, <2>2, <2>3, <3>1 DEF search_is_done
    <3> QED
      BY <1>10, <2>1, <2>3, <3>1, <3>2 DEF Ending
  <2>4. ASSUME Adding(search, L, u) PROVE Adding(search', L \ done, u)
    <3>1. added[u] = search[u] /\ u \notin done
      BY <1>4, <1>7, <2>1, <2>4 DEF Adding
    <3> QED
      BY <1>10, <2>1, <2>4, <3>1 DEF Adding
  <2> QED
    BY <2>1, <2>3, <2>4 DEF u
<1>15. QueryWaits'
  <2> SUFFICES ASSUME NEW u \in Tasks, search'[u].sem = 1, u \notin done
               PROVE  search'[u].age > Timeout \/ (search'[u].max # 0 /\ search'[u].results = search'[u].max)
    BY <1>10 DEF QueryWaits
  <2>1. search'[u] = added[u] /\ search[u].sem = 1
    BY <1>4, <1>10
  <2>2. u \notin L
    BY <1>9, <2>1 DEF Wanting
  <2> QED
    BY <1>4, <2>1, <2>2 DEF SearchInv, QueryWaits
<1>16. EndsFirst(queue', search')
  <2> SUFFICES ASSUME NEW k \in DOMAIN queue', queue'[k].type = "SEARCH_END",
                      search_is_done(search'[queue'[k].search])
               PROVE  \A i \in 1 .. k - 1 : ~ReadOut(queue'[i])
    BY DEF EndsFirst
  <2> DEFINE u == queue'[k].search
  <2>1. u \in Tasks /\ Ending(search, L, u) /\ Ending(search', L \ done, u)
    BY <1>2, <1>8, <1>14 DEF QueueTrue, Claims
  <2> HIDE DEF u
  <2>2. search'[u] = added[u] /\ added[u] = search[u]
    BY <1>4, <1>10, <2>1 DEF Ending
  <2> QED
    BY <1>2, <2>2 DEF EndsFirst, u
<1> QED
  BY <1>1, <1>2, <1>8, <1>11, <1>12, <1>13, <1>14, <1>15, <1>16 DEF SearchInv

LEMMA RunTyped ==
    ASSUME NEW s \in Searches, NEW sent
    PROVE  /\ run_search(s, sent) \in Searches /\ run_search(s, sent).live = s.live
           /\ run_search(s, sent).sem = s.sem /\ run_search(s, sent).age = s.age
           /\ run_search(s, sent).max = s.max /\ run_search(s, sent).results = s.results
<1>1. wants(s) \in {"none", "SEARCH_SEND", "SEARCH_END"}
  BY DEF wants
<1>2. CASE wants(s) = "SEARCH_END"
  <2> DEFINE x == IF sent THEN "OFF" ELSE "RUNNING"
  <2>1. run_search(s, sent) = [s EXCEPT !.state = x] /\ x \in {"OFF", "RUNNING"}
    BY <1>2 DEF run_search
  <2> HIDE DEF x
  <2> QED
    BY <2>1 DEF Searches
<1>3. CASE wants(s) = "SEARCH_SEND"
  <2> DEFINE x == IF sent THEN 0 ELSE Resend
             a == [s EXCEPT !.state = "RUNNING"]
  <2>1. run_search(s, sent) = [a EXCEPT !.unsent = x] /\ x \in Nat
    BY <1>3, SearchAssumption DEF run_search, Searches
  <2> HIDE DEF x
  <2>2. /\ a \in Searches /\ a.live = s.live /\ a.sem = s.sem /\ a.age = s.age /\ a.max = s.max
        /\ a.results = s.results
    BY DEF Searches
  <2> HIDE DEF a
  <2>3. /\ run_search(s, sent) \in Searches /\ run_search(s, sent).live = s.live
        /\ run_search(s, sent).sem = s.sem /\ run_search(s, sent).age = s.age
        /\ run_search(s, sent).max = s.max /\ run_search(s, sent).results = s.results
    BY <2>1, <2>2 DEF Searches
  <2> QED
    BY <1>1, <1>3, <2>3
<1>4. CASE wants(s) = "none"
  <2>1. run_search(s, sent) = s
    BY <1>4 DEF run_search
  <2> QED
    BY <1>1, <1>4, <2>1
<1> QED
  BY <1>1, <1>2, <1>3, <1>4

LEMMA RunEnds ==
    ASSUME NEW s \in Searches, wants(s) = "SEARCH_END"
    PROVE  run_search(s, TRUE).state = "OFF" /\ run_search(s, TRUE).age > Timeout
<1>1. s.age > Timeout
  BY DEF wants
<1>2. run_search(s, TRUE) = [s EXCEPT !.state = "OFF"]
  BY DEF run_search
<1> QED
  BY <1>1, <1>2 DEF Searches

LEMMA WantsTyped ==
    ASSUME NEW s \in Searches
    PROVE  /\ wants(s) \in {"none", "SEARCH_SEND", "SEARCH_END"}
           /\ wants(s) # "none" => s.state # "OFF"
  BY DEF wants

LEMMA RunStep ==
    ASSUME SearchInv, _mdns_search_run, ~endedLate'
    PROVE  SearchInv'
<1> DEFINE L == Range(search_once)
           wanted == {k \in DOMAIN search_once : wants(search[search_once[k]]) # "none"}
           sent == {k \in wanted : Len(queue) + Cardinality({j \in wanted : j < k}) < QueueLength}
           at(K) == {search_once[k] : k \in K}
           request(k) == send_search_action(wants(search[search_once[k]]), search_once[k])
<1>1. /\ UNCHANGED <<search_once, waiting, fault>>
      /\ search' = [t \in Tasks |-> IF t \in at(wanted) THEN run_search(search[t], t \in at(sent))
                                    ELSE search[t]]
  BY DEF _mdns_search_run
<1>2. PICK order \in SetToSeqs(sent) :
        queue' = queue \o [i \in 1 .. Len(order) |-> request(order[i])]
  BY DEF _mdns_search_run
<1>30. PacketAhead => \A t \in at(sent) :
          ~(wants(search[t]) = "SEARCH_END" /\ search_is_done(search[t]))
  BY DEF _mdns_search_run
<1>3. search \in [Tasks -> Searches] /\ search_once \in Seq(Tasks) /\ queue \in Seq(Requests)
  BY DEF SearchInv, SearchTypes
<1>4. /\ DOMAIN search_once = 1 .. Len(search_once) /\ Len(search_once) \in Nat
      /\ \A k \in DOMAIN search_once : search_once[k] \in Tasks
  BY <1>3, ElementOfSeq, LenProperties
<1>5. L \subseteq Tasks /\ \A t \in L : Wanting(search[t])
  BY <1>3, RangeFinite DEF SearchInv
<1>6. sent \subseteq wanted /\ wanted \subseteq DOMAIN search_once
  OBVIOUS
<1>7. \A k \in wanted : wants(search[search_once[k]]) # "none"
  OBVIOUS
<1>8. order \in Seq(sent) /\ IsInjective(order) /\ Range(order) = sent
  <2>1. IsFiniteSet(sent)
    <3>1. IsFiniteSet(1 .. Len(search_once)) /\ sent \subseteq 1 .. Len(search_once)
      BY <1>4, <1>6, FS_Interval
    <3> HIDE DEF sent
    <3> QED
      BY <3>1, FS_Subset
  <2> HIDE DEF sent
  <2>2. PICK S : S = sent
    OBVIOUS
  <2>3. S \subseteq S /\ IsFiniteSet(S) /\ order \in SetToSeqs(S)
    BY <2>1, <2>2
  <2>4. order \in Seq(S) /\ IsInjective(order) /\ Range(order) = S
    BY <2>3, SequenceOfSet
  <2> QED
    BY <2>2, <2>4
<1> HIDE DEF sent, wanted
<1> DEFINE new == [i \in 1 .. Len(order) |-> request(order[i])]
<1>9. ASSUME NEW k \in wanted
      PROVE  /\ k \in DOMAIN search_once /\ search_once[k] \in Tasks /\ search_once[k] \in L
             /\ search[search_once[k]] \in Searches
             /\ search[search_once[k]].state # "OFF"
             /\ request(k) \in Requests /\ request(k).search = search_once[k]
             /\ request(k).type # "SEARCH_ADD"
             /\ request(k).type = wants(search[search_once[k]])
  <2>1. k \in DOMAIN search_once /\ search_once[k] \in Tasks /\ search_once[k] \in L
    BY <1>4, <1>6 DEF Range
  <2>2. search[search_once[k]] \in Searches
    BY <1>3, <2>1
  <2>3. /\ search[search_once[k]].state # "OFF"
        /\ wants(search[search_once[k]]) \in {"SEARCH_SEND", "SEARCH_END"}
    BY <1>7, <2>2, WantsTyped
  <2> QED
    BY <2>1, <2>2, <2>3 DEF send_search_action, Requests, SearchActions
<1>10. /\ Len(order) \in Nat /\ DOMAIN order = 1 .. Len(order)
       /\ \A i \in 1 .. Len(order) : order[i] \in sent /\ order[i] \in wanted
  BY <1>6, <1>8, ElementOfSeq, LenProperties
<1> HIDE DEF request
<1>11. new \in Seq(Requests) /\ DOMAIN new = 1 .. Len(order)
  <2>1. new \in [1 .. Len(order) -> Requests]
    BY <1>9, <1>10
  <2> QED
    BY <1>10, <2>1, SeqDef
<1>12. \A i \in DOMAIN new : new[i] = request(order[i]) /\ order[i] \in sent /\ order[i] \in wanted
  BY <1>10, <1>11
<1> HIDE DEF new
<1>13. OneClaim(new)
  <2> SUFFICES ASSUME NEW i \in DOMAIN new, NEW j \in DOMAIN new, new[i].search = new[j].search
               PROVE  i = j
    BY DEF OneClaim
  <2>1. search_once[order[i]] = search_once[order[j]]
    BY <1>9, <1>12
  <2>2. order[i] = order[j]
    BY <1>9, <1>12, <2>1 DEF SearchInv, IsInjective
  <2> QED
    BY <1>8, <1>10, <1>11, <2>2 DEF IsInjective
<1>14. \A i \in DOMAIN queue : Claims(queue[i]) =>
         /\ queue[i].search \in Tasks
         /\ \A k \in wanted : queue[i].search # search_once[k]
  <2> SUFFICES ASSUME NEW i \in DOMAIN queue, Claims(queue[i])
               PROVE  /\ queue[i].search \in Tasks
                      /\ \A k \in wanted : queue[i].search # search_once[k]
    OBVIOUS
  <2>1. queue[i] \in Requests
    BY <1>3, ElementOfSeq, LenProperties
  <2>2. queue[i].search \in Tasks
    BY <2>1, ClaimTyped
  <2>3. Ending(search, L, queue[i].search) \/ Adding(search, L, queue[i].search)
    BY DEF SearchInv, QueueTrue, Claims
  <2> QED
    BY <1>9, <2>2, <2>3 DEF Ending, Adding
<1>15. /\ queue' \in Seq(Requests) /\ OneClaim(queue')
       /\ \A k \in DOMAIN queue' : \/ k \in DOMAIN queue /\ queue'[k] = queue[k]
                                   \/ \E j \in DOMAIN new : queue'[k] = new[j]
       /\ \A k \in DOMAIN queue : \A i \in 1 .. k - 1 : queue'[i] = queue[i]
       /\ \A k \in DOMAIN queue' : \A i \in 1 .. k - 1 : i \in DOMAIN queue'
  <2>1. \A i \in DOMAIN queue, j \in DOMAIN new :
          Claims(queue[i]) /\ Claims(new[j]) => queue[i].search # new[j].search
    BY <1>9, <1>12, <1>14
  <2>2. queue' = queue \o new /\ OneClaim(queue)
    BY <1>2 DEF new, SearchInv
  <2>3. queue \in Seq(Requests) /\ new \in Seq(Requests)
    BY <1>3, <1>11
  <2>4. /\ queue \o new \in Seq(Requests) /\ OneClaim(queue \o new)
        /\ \A k \in DOMAIN (queue \o new) : \/ k \in DOMAIN queue /\ (queue \o new)[k] = queue[k]
                                            \/ \E j \in DOMAIN new : (queue \o new)[k] = new[j]
        /\ \A k \in DOMAIN queue : \A i \in 1 .. k - 1 : (queue \o new)[i] = queue[i]
    BY <1>13, <2>1, <2>2, <2>3, RequestsConcat, Zenon
  <2>5. DOMAIN queue' = 1 .. Len(queue') /\ Len(queue') \in Nat
    BY <2>2, <2>4, LenProperties
  <2>6. \A k \in DOMAIN queue' : \A i \in 1 .. k - 1 : i \in DOMAIN queue'
    BY <2>5
  <2> QED
    BY <2>2, <2>4, <2>6, Zenon
<1>16. ASSUME NEW t \in Tasks
       PROVE  /\ search'[t] \in Searches /\ search'[t].live = search[t].live
              /\ search'[t].sem = search[t].sem /\ search'[t].age = search[t].age
              /\ search'[t].max = search[t].max /\ search'[t].results = search[t].results
              /\ (\A k \in wanted : t # search_once[k]) => search'[t] = search[t]
  <2>1. search[t] \in Searches
    BY <1>3
  <2>2. search'[t] = IF t \in at(wanted) THEN run_search(search[t], t \in at(sent)) ELSE search[t]
    BY <1>1
  <2>3. (\A k \in wanted : t # search_once[k]) => t \notin at(wanted)
    OBVIOUS
  <2> HIDE DEF at
  <2> DEFINE b == t \in at(sent)
  <2>4. search'[t] = search[t] \/ search'[t] = run_search(search[t], b)
    BY <2>2
  <2> HIDE DEF b
  <2> QED
    BY <2>1, <2>2, <2>3, <2>4, RunTyped
<1>17. ASSUME NEW k \in sent, request(k).type = "SEARCH_END"
       PROVE  Ending(search', L, search_once[k])
  <2> DEFINE t == search_once[k]
  <2>1. k \in wanted /\ t \in at(wanted) /\ t \in at(sent)
    BY <1>6
  <2>2. t \in Tasks /\ t \in L /\ search[t] \in Searches /\ wants(search[t]) = "SEARCH_END"
    BY <1>9, <1>17, <2>1
  <2> HIDE DEF t
  <2>3. search'[t] = run_search(search[t], TRUE)
    BY <1>1, <2>1, <2>2
  <2>4. search'[t].state = "OFF" /\ search'[t].age > Timeout
    BY <2>2, <2>3, RunEnds
  <2> QED
    BY <2>2, <2>4 DEF Ending, t
<1>18. Range(search_once') = L
  BY <1>1
<1> HIDE DEF L
<1>19. QueueTrue(queue', search', L)
  <2> SUFFICES ASSUME NEW k \in DOMAIN queue', Claims(queue'[k])
               PROVE  /\ queue'[k].type = "SEARCH_END" => Ending(search', L, queue'[k].search)
                      /\ queue'[k].type = "SEARCH_ADD" => Adding(search', L, queue'[k].search)
    BY DEF QueueTrue, Claims
  <2>1. CASE k \in DOMAIN queue /\ queue'[k] = queue[k]
    <3>1. queue[k].search \in Tasks /\ search'[queue[k].search] = search[queue[k].search]
      BY <1>14, <1>16, <2>1
    <3>2. /\ queue[k].type = "SEARCH_END" => Ending(search, L, queue[k].search)
          /\ queue[k].type = "SEARCH_ADD" => Adding(search, L, queue[k].search)
      BY <2>1 DEF SearchInv, QueueTrue, L
    <3> QED
      BY <2>1, <3>1, <3>2 DEF Ending, Adding
  <2>2. CASE \E j \in DOMAIN new : queue'[k] = new[j]
    <3>1. PICK j \in DOMAIN new : queue'[k] = new[j]
      BY <2>2
    <3>2. PICK o \in sent : queue'[k] = request(o) /\ o \in wanted
      BY <1>12, <3>1
    <3>3. request(o).type # "SEARCH_ADD" /\ request(o).search = search_once[o]
      BY <1>9, <3>2
    <3> QED
      BY <1>17, <3>2, <3>3
  <2> QED
    BY <1>15, <2>1, <2>2
<1>20. SearchTypes'
  <2>1. search' \in [Tasks -> Searches]
    BY <1>1, <1>16
  <2> QED
    BY <1>1, <1>15, <2>1 DEF SearchInv, SearchTypes
<1>21. \A u \in Tasks : search'[u].live <=> u \in waiting'
  BY <1>1, <1>16 DEF SearchInv
<1>22. \A u \in L : Wanting(search'[u])
  BY <1>5, <1>16 DEF Wanting
<1>23. QueryWaits'
  BY <1>16 DEF SearchInv, QueryWaits
<1>24. EndsFirst(queue', search')
  <2> SUFFICES ASSUME NEW k \in DOMAIN queue', queue'[k].type = "SEARCH_END",
                      search_is_done(search'[queue'[k].search]), NEW i \in 1 .. k - 1,
                      ReadOut(queue'[i])
               PROVE  FALSE
    BY DEF EndsFirst
  <2>1. CASE k \in DOMAIN queue /\ queue'[k] = queue[k]
    <3>1. queue'[i] = queue[i] /\ queue[k].search \in Tasks
      BY <1>14, <1>15, <2>1 DEF Claims
    <3>2. search_is_done(search[queue[k].search])
      BY <1>16, <2>1, <3>1 DEF search_is_done
    <3> QED
      BY <2>1, <3>1, <3>2 DEF SearchInv, EndsFirst
  <2>2. CASE \E j \in DOMAIN new : queue'[k] = new[j]
    <3>1. PICK o \in sent : queue'[k] = request(o) /\ o \in wanted
      BY <1>12, <2>2
    <3>2. /\ request(o).type = wants(search[search_once[o]]) /\ search_once[o] \in Tasks
          /\ request(o).search = search_once[o]
      BY <1>9, <3>1
    <3>3. search_is_done(search[search_once[o]]) /\ search_once[o] \in at(sent)
      BY <1>16, <3>1, <3>2 DEF search_is_done
    <3>4. ~PacketAhead
      BY <1>30, <3>1, <3>2, <3>3
    <3>5. i \in DOMAIN queue /\ queue'[i] = queue[i]
      <4>1. i \in DOMAIN queue'
        BY <1>15
      <4>2. CASE \E j \in DOMAIN new : queue'[i] = new[j]
        <5>1. PICK b \in wanted : queue'[i] = request(b)
          BY <1>12, <4>2
        <5>2. request(b).type \in {"none", "SEARCH_SEND", "SEARCH_END"}
          BY <1>9, <5>1, WantsTyped
        <5> QED
          BY <5>1, <5>2 DEF ReadOut
      <4> QED
        BY <1>15, <4>1, <4>2
    <3>6. i \in 1 .. Len(queue)
      BY <1>3, <3>5, LenProperties
    <3> QED
      BY <3>4, <3>5, <3>6 DEF PacketAhead, ReadOut
  <2> QED
    BY <1>15, <2>1, <2>2
<1> QED
  BY <1>1, <1>15, <1>18, <1>19, <1>20, <1>21, <1>22, <1>23, <1>24 DEF SearchInv

LEMMA SearchStep ==
    (endedLate \/ SearchInv) /\ [SearchNext]_searchVars => (endedLate' \/ SearchInv')
<1> SUFFICES ASSUME SearchInv, ~endedLate', [SearchNext]_searchVars PROVE SearchInv'
  <2>1. endedLate /\ [SearchNext]_searchVars => endedLate'
    BY DEF SearchNext, searchVars, mdns_query, QueryReturns, _mdns_search_run, SearchTick,
           _udp_recv, ServiceTask, ExecSearchAdd, ExecSearchSend, ExecSearchEnd, ExecRxHandle
  <2> QED
    BY <2>1
<1>1. CASE UNCHANGED searchVars
  <2>1. UNCHANGED <<search, search_once, queue, waiting, fault>>
    BY <1>1 DEF searchVars
  <2>2. SearchTypes' /\ QueryWaits'
    BY <2>1 DEF SearchInv, SearchTypes, QueryWaits
  <2> QED
    BY <2>1, <2>2 DEF SearchInv
<1> QED
  BY <1>1, QueryStep, ReturnStep, RunStep, SearchTickStep, PacketStep, AddStep, SendStep, EndStep,
     RxStep
  DEF SearchNext, ServiceTask

(* The inductive invariant of the queries: a listed search has an owner who *)
(* waits and has not more results than he wants, an end in the queue stands *)
(* for a listed search that is off and over its time, and no packet that    *)
(* would end it is in front; a search has at most one action that adds or   *)
(* ends it.  It holds until the timer ends a full search behind a packet.   *)
THEOREM SearchInvariant == SearchSpec => [](endedLate \/ SearchInv)
  BY SearchInitInv, SearchStep, PTL DEF SearchSpec

(* For any number of querying tasks, any timeout, limit of results and      *)
(* length of the queue, and with packets that the parser leaves early:      *)
(* whoever walks the list of searches meets only searches whose owner       *)
(* waits, and the end that the timer queued never meets one that its        *)
(* results ended before, unless the timer has ended, behind a packet, a     *)
(* search that such a packet had left full.                                 *)
THEOREM SearchesAreLive == SearchSpec => []SearchesLive
<1>1. endedLate \/ SearchInv => SearchesLive
  <2> SUFFICES ASSUME SearchInv PROVE SearchesLive
    BY DEF SearchesLive
  <2>1. DOMAIN search_once = 1 .. Len(search_once) /\ DOMAIN queue = 1 .. Len(queue)
    BY LenProperties DEF SearchInv, SearchTypes
  <2>2. \A k \in 1 .. Len(search_once) :
          search[search_once[k]].live /\ search[search_once[k]].sem = 0
    BY <2>1 DEF SearchInv, Range, Wanting
  <2>3. \A j \in 1 .. Len(queue) :
          queue[j].type = "SEARCH_END" => queue[j].search \in Range(search_once)
    BY <2>1 DEF SearchInv, QueueTrue, Ending
  <2> QED
    BY <2>2, <2>3 DEF SearchInv, SearchesLive
<1> QED
  BY <1>1, SearchInvariant, PTL

(* A query ends because its time is over or because it has as many results  *)
(* as it asked for, never through an action of an earlier query, with the   *)
(* same exception.                                                          *)
THEOREM QueriesEndForReason == SearchSpec => []EndedForReason
<1>1. endedLate \/ SearchInv => EndedForReason
  BY DEF SearchInv, EndedForReason
<1> QED
  BY <1>1, SearchInvariant, PTL
================================================================================
