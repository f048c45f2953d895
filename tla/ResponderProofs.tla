---------------------------- MODULE ResponderProofs ----------------------------
(****************************************************************************)
(* Proofs about the mDNS responder (MdnsResponder), for any number of PCBs, *)
(* services, inputs and actions in the queue, and for all delays.           *)
(****************************************************************************)
EXTENDS MdnsResponder, SequenceTheorems, FiniteSetTheorems, WellFoundedInduction, TLAPS

(* A conflict that was received on a PCB which is closed before it is       *)
(* handled makes the closed PCB probe: the claims about pointers and probes *)
(* are for boards where one or the other does not happen.                   *)
Closing == {"DISCONNECTED", "addrOther"}
Conflicting == {"srvConflict", "txtConflict", "addrConflict"}
NoLateConflict == Inputs \cap Conflicting = {} \/ Inputs \cap Closing = {}

--------------------------------------------------------------------------------
(* Types.                                                                   *)
PcbStates == [up : BOOLEAN, state : 0 .. 9, services : SUBSET Services, ip : BOOLEAN,
              running : BOOLEAN, failed : Nat]

Packets == [id : Nat, pcb : Pcbs, questions : SUBSET Names, servers : SUBSET Names,
            answers : SUBSET Names, additional : SUBSET Names, distributed : BOOLEAN,
            queued : BOOLEAN, due : Int, late : BOOLEAN]

Counts == [Pcbs -> [Names -> 0 .. 4]]

Servers == [hostname : BOOLEAN, pcbs : [Pcbs -> PcbStates], txq : Seq(Packets),
            probes : Counts, wire : SUBSET (Pcbs \X Names \X (0 .. 4))]

Actions ==
    SystemEvents \cup [type : {"HOSTNAME_SET", "INSTANCE_SET", "SERVICES_CLEAR"}]
        \cup [type : {"SERVICE_ADD"}, service : Services, own : BOOLEAN]
        \cup [type : ServiceActions, service : Services]
        \cup [type : {"RX_HANDLE"}, pcb : Pcbs, rx : RxKinds]
        \cup [type : {"TX_HANDLE"}, packet : Nat]

--------------------------------------------------------------------------------
(* The invariant, PCB by PCB.  The packets of a PCB, and that it has no two. *)
Of(q, p) == {q[k] : k \in {i \in 1 .. Len(q) : q[i].pcb = p}}
Alone(q, p) == \A i, j \in 1 .. Len(q) : q[i].pcb = p /\ q[j].pcb = p => i = j

Probing(pcb) == pcb.state \in PCB_PROBE_1 .. PCB_PROBE_3
Listed(pcb) == withIp(pcb.services, pcb.ip)

(* A PCB that probes has one packet, which asks for what is on its list.    *)
ProbeOk(m, p) ==
    /\ m.pcbs[p].running /\ Listed(m.pcbs[p]) # {}
    /\ Of(m.txq, p) # {} /\ Alone(m.txq, p)
    /\ \A q \in Of(m.txq, p) :
           q.questions = Listed(m.pcbs[p]) /\ q.servers = Listed(m.pcbs[p]) /\ q.answers = {}

(* Any other has no list and asks nothing; one that announces has a packet  *)
(* with the records, which no known answer empties.                         *)
ListOk(m, p) ==
    m.pcbs[p].services = {} /\ \A q \in Of(m.txq, p) : q.questions = {} /\ q.servers = {}

AnnounceOk(m, p) == \E q \in Of(m.txq, p) : ~q.distributed /\ q.answers # {}

OpenOk(m, p) ==
    m.pcbs[p].up =>
        /\ m.pcbs[p].state >= PCB_PROBE_1
        /\ Probing(m.pcbs[p]) => ProbeOk(m, p)
        /\ m.pcbs[p].state > PCB_PROBE_3 => ListOk(m, p)
        /\ PCB_STATE_IS_ANNOUNCING(m.pcbs[p]) => AnnounceOk(m, p)

Unnamed(m, p) == ~m.hostname => m.pcbs[p].services = {}

(* Pointers are to the services S; a closed PCB has nothing to do.          *)
PointersOk(m, p, S) ==
    /\ m.pcbs[p].services \subseteq S
    /\ ~m.pcbs[p].up => /\ m.pcbs[p].services = {} /\ m.pcbs[p].state < PCB_PROBE_1
                        /\ Of(m.txq, p) = {}
    /\ \A q \in Of(m.txq, p) : q.answers \subseteq S \cup {Host}

(* The names N were probed, or are being probed.                            *)
Settled(c) == c \in {3, CutShort}
NameOk(pcb, n, c) ==
    IF Probing(pcb) /\ n \in Listed(pcb)
    THEN c >= pcb.state - PCB_PROBE_1 /\ (c = CutShort => pcb.state = PCB_PROBE_1)
    ELSE Settled(c)
NamesOk(m, p, N) ==
    m.hostname /\ m.pcbs[p].up => \A n \in N : NameOk(m.pcbs[p], n, m.probes[p][n])

PcbOk(m, p, S, N) ==
    /\ OpenOk(m, p) /\ Unnamed(m, p)
    /\ NoLateConflict => PointersOk(m, p, S) /\ NamesOk(m, p, N)

WireOk(m) == NoLateConflict /\ m.hostname => \A a \in m.wire : Settled(a[3])

(* A conflict waits in the queue only while its PCB is open.                *)
ActionOk(a, ps) ==
    /\ a.type = "SYSTEM_EVENT" => a.event \in Inputs
    /\ a.type = "RX_HANDLE" =>
           /\ a.rx.kind \in Inputs
           /\ NoLateConflict /\ a.rx.kind \in Conflicting => ps[a.pcb].up

RInv ==
    /\ server_m \in Servers /\ services \subseteq Services
    /\ ownInstance \in [Services -> BOOLEAN] /\ instance \in BOOLEAN /\ toWrap \in Nat
    /\ wire \in SUBSET (Pcbs \X Names \X (0 .. 4))
    /\ queue \in Seq(Actions) /\ \A k \in 1 .. Len(queue) : ActionOk(queue[k], pcbs)
    /\ \A p \in Pcbs : PcbOk(server_m, p, services, services \cup {Host})
    /\ NoLateConflict /\ hostname => \A a \in wire : Settled(a[3])

--------------------------------------------------------------------------------
(* Lists.                                                                   *)
Below == {ss \in Nat \X Nat : ss[1] < ss[2]}

LEMMA FirstOf ==
    ASSUME NEW n \in Nat, NEW K \in SUBSET (1 .. n)
    PROVE  /\ K = {} => First(K) = 0
           /\ K # {} => First(K) \in K /\ First(K) # 0
<1> SUFFICES ASSUME K # {} PROVE First(K) \in K /\ First(K) # 0
  BY DEF First
<1>1. IsWellFoundedOn(Below, Nat)
  BY NatLessThanWellFounded DEF OpToRel, Below
<1>2. K \in SUBSET Nat
  OBVIOUS
<1>3. PICK m \in K : \A k \in K : ~ (<<k, m>> \in Below)
  BY <1>1, <1>2, WFMin, Zenon
<1>4. ASSUME NEW k \in K PROVE m =< k
  <2>1. k \in Nat /\ m \in Nat
    BY <1>2
  <2>2. ~(k < m)
    BY <1>3, <2>1 DEF Below
  <2> QED
    BY <2>1, <2>2
<1>5. First(K) \in K
  BY <1>4 DEF First, Min
<1> QED
  BY <1>5

LEMMA Inserted ==
    ASSUME NEW S, NEW s \in Seq(S), NEW y \in S, NEW k \in 1 .. Len(s)
    PROVE  LET t == InsertAt(s, k, y)
           IN /\ t \in Seq(S) /\ Len(t) = Len(s) + 1
              /\ \A i \in 1 .. Len(t) :
                     t[i] = IF i < k THEN s[i] ELSE IF i = k THEN y ELSE s[i - 1]
<1> DEFINE a == SubSeq(s, 1, k - 1)
           b == SubSeq(s, k, Len(s))
           c == <<y>>
           t == a \o c \o b
<1>0. Len(s) \in Nat /\ k \in Nat
  BY LenProperties
<1>1. a \in Seq(S) /\ Len(a) = k - 1 /\ \A i \in 1 .. k - 1 : a[i] = s[i]
  BY <1>0, SubSeqProperties
<1>2. /\ b \in Seq(S) /\ Len(b) = Len(s) - k + 1
      /\ \A i \in 1 .. Len(s) - k + 1 : b[i] = s[k + i - 1]
  BY <1>0, SubSeqProperties
<1>3. c \in Seq(S) /\ Len(c) = 1 /\ c[1] = y
  OBVIOUS
<1> HIDE DEF a, b, c
<1> DEFINE d == a \o c
<1>4. d \in Seq(S) /\ Len(d) = k /\ \A i \in 1 .. k : d[i] = IF i < k THEN s[i] ELSE y
  <2>1. /\ d \in Seq(S) /\ Len(d) = Len(a) + Len(c)
        /\ \A i \in 1 .. Len(a) + Len(c) : d[i] = IF i =< Len(a) THEN a[i] ELSE c[i - Len(a)]
    BY <1>1, <1>3, ConcatProperties
  <2>2. Len(a) + Len(c) = k
    BY <1>0, <1>1, <1>3
  <2>3. ASSUME NEW i \in 1 .. k PROVE d[i] = IF i < k THEN s[i] ELSE y
    <3>1. i < k => i \in 1 .. k - 1 /\ i =< Len(a)
      BY <1>0, <1>1
    <3>2. ~(i < k) => ~(i =< Len(a)) /\ i - Len(a) = 1
      BY <1>0, <1>1
    <3> HIDE DEF d
    <3> QED
      BY <1>1, <1>3, <2>1, <2>2, <3>1, <3>2
  <2> QED
    BY <2>1, <2>2, <2>3
<1>5. /\ t \in Seq(S) /\ Len(t) = Len(s) + 1
      /\ \A i \in 1 .. Len(s) + 1 : t[i] = IF i =< k THEN d[i] ELSE b[i - k]
  <2> HIDE DEF d
  <2>1. t = d \o b
    BY DEF d
  <2> HIDE DEF t
  <2>2. /\ t \in Seq(S) /\ Len(t) = Len(d) + Len(b)
        /\ \A i \in 1 .. Len(d) + Len(b) : t[i] = IF i =< Len(d) THEN d[i] ELSE b[i - Len(d)]
    BY <1>2, <1>4, <2>1, ConcatProperties
  <2>3. Len(d) + Len(b) = Len(s) + 1
    BY <1>0, <1>2, <1>4
  <2> QED
    BY <1>4, <2>2, <2>3
<1> HIDE DEF d, t
<1>6. ASSUME NEW i \in 1 .. Len(s) + 1
      PROVE  t[i] = IF i < k THEN s[i] ELSE IF i = k THEN y ELSE s[i - 1]
  <2>1. CASE i =< k
    <3>1. i \in 1 .. k
      BY <1>0, <2>1
    <3> QED
      BY <1>0, <1>4, <1>5, <2>1, <3>1
  <2>2. CASE i > k
    <3>1. i - k \in 1 .. Len(s) - k + 1 /\ k + (i - k) - 1 = i - 1
      BY <1>0, <2>2
    <3>2. t[i] = b[i - k]
      BY <1>0, <1>5, <2>2
    <3> QED
      BY <1>0, <1>2, <2>2, <3>1, <3>2
  <2>3. i =< k \/ i > k
    BY <1>0
  <2> QED
    BY <2>1, <2>2, <2>3
<1> QED
  BY <1>5, <1>6 DEF InsertAt, a, b, c, t


--------------------------------------------------------------------------------
(* The queue of packets.  What a change of the packets of p leaves alone.   *)
Elsewhere(s, t, p) ==
    \A o \in Pcbs \ {p} : Of(t, o) = Of(s, o) /\ (Alone(s, o) => Alone(t, o))

LEMMA OfMember ==
    ASSUME NEW s \in Seq(Packets), NEW p, NEW k \in 1 .. Len(s), s[k].pcb = p
    PROVE  s[k] \in Of(s, p)
BY DEF Of

LEMMA OfWhere ==
    ASSUME NEW s \in Seq(Packets), NEW p, NEW q \in Of(s, p)
    PROVE  /\ \E k \in 1 .. Len(s) : s[k] = q
           /\ q \in Packets /\ q.pcb = p
<1>1. PICK k \in 1 .. Len(s) : s[k] = q /\ s[k].pcb = p
  BY DEF Of
<1>2. s[k] \in Packets
  BY ElementOfSeq
<1> QED
  BY <1>1, <1>2

(* y is added, in whatever place.                                           *)
Added(s, t, y) ==
    /\ t \in Seq(Packets)
    /\ Elsewhere(s, t, y.pcb)
    /\ Of(t, y.pcb) = Of(s, y.pcb) \cup {y}
    /\ Of(s, y.pcb) = {} => Alone(t, y.pcb)

LEMMA InsertAdds ==
    ASSUME NEW s \in Seq(Packets), NEW t \in Seq(Packets), NEW y \in Packets,
           NEW k \in 1 .. Len(s) + 1, Len(t) = Len(s) + 1,
           \A i \in 1 .. Len(t) : t[i] = IF i < k THEN s[i] ELSE IF i = k THEN y ELSE s[i - 1]
    PROVE  Added(s, t, y)
<1>0. Len(s) \in Nat /\ k \in Nat /\ k \in 1 .. Len(t) /\ t[k] = y
  BY LenProperties
<1> DEFINE f(i) == IF i < k THEN i ELSE i - 1
           g(i) == IF i < k THEN i ELSE i + 1
<1>1. ASSUME NEW i \in 1 .. Len(t), i # k PROVE f(i) \in 1 .. Len(s) /\ t[i] = s[f(i)]
  <2>1. CASE i < k
    BY <1>0, <2>1
  <2>2. CASE i > k
    BY <1>0, <2>2
  <2>3. i < k \/ i > k
    BY <1>0, <1>1
  <2> QED
    BY <2>1, <2>2, <2>3
<1>2. ASSUME NEW i \in 1 .. Len(s) PROVE g(i) \in 1 .. Len(t) /\ t[g(i)] = s[i] /\ g(i) # k
  BY <1>0
<1>3. ASSUME NEW i \in 1 .. Len(t), NEW j \in 1 .. Len(t), i # k, j # k, f(i) = f(j)
      PROVE  i = j
  <2>1. i \in Int /\ j \in Int /\ k \in Int
    BY <1>0
  <2>2. /\ i < k => f(i) = i
        /\ i > k => f(i) = i - 1
    BY <2>1
  <2>3. /\ j < k => f(j) = j
        /\ j > k => f(j) = j - 1
    BY <2>1
  <2>4. f(i) = f(j) /\ i # k /\ j # k
    BY <1>3
  <2> HIDE DEF f
  <2> QED
    BY <2>1, <2>2, <2>3, <2>4
<1> HIDE DEF f, g
<1>4. ASSUME NEW o, o # y.pcb PROVE Of(t, o) = Of(s, o) /\ (Alone(s, o) => Alone(t, o))
  <2>1. ASSUME NEW q \in Of(t, o) PROVE q \in Of(s, o)
    <3>1. PICK i \in 1 .. Len(t) : t[i] = q /\ t[i].pcb = o
      BY DEF Of
    <3>2. i # k
      BY <1>0, <1>4, <3>1
    <3> QED
      BY <1>1, <3>1, <3>2 DEF Of
  <2>2. ASSUME NEW q \in Of(s, o) PROVE q \in Of(t, o)
    <3>1. PICK i \in 1 .. Len(s) : s[i] = q /\ s[i].pcb = o
      BY DEF Of
    <3> QED
      BY <1>2, <3>1 DEF Of
  <2>3. ASSUME Alone(s, o), NEW i \in 1 .. Len(t), NEW j \in 1 .. Len(t),
               t[i].pcb = o, t[j].pcb = o
        PROVE  i = j
    <3>1. i # k /\ j # k
      BY <1>0, <1>4, <2>3
    <3>2. f(i) = f(j)
      BY <1>1, <2>3, <3>1 DEF Alone
    <3> QED
      BY <1>3, <3>1, <3>2
  <2> QED
    BY <2>1, <2>2, <2>3 DEF Alone
<1>5. Of(t, y.pcb) = Of(s, y.pcb) \cup {y}
  <2>1. ASSUME NEW q \in Of(t, y.pcb) PROVE q \in Of(s, y.pcb) \cup {y}
    <3>1. PICK i \in 1 .. Len(t) : t[i] = q /\ t[i].pcb = y.pcb
      BY DEF Of
    <3> QED
      BY <1>0, <1>1, <3>1 DEF Of
  <2>2. ASSUME NEW q \in Of(s, y.pcb) PROVE q \in Of(t, y.pcb)
    <3>1. PICK i \in 1 .. Len(s) : s[i] = q /\ s[i].pcb = y.pcb
      BY DEF Of
    <3> QED
      BY <1>2, <3>1 DEF Of
  <2>3. y \in Of(t, y.pcb)
    BY <1>0 DEF Of
  <2> QED
    BY <2>1, <2>2, <2>3
<1>6. ASSUME Of(s, y.pcb) = {} PROVE Alone(t, y.pcb)
  <2>1. \A i \in 1 .. Len(t) : t[i].pcb = y.pcb => i = k
    BY <1>1, <1>6 DEF Of
  <2> QED
    BY <2>1 DEF Alone
<1> QED
  BY <1>4, <1>5, <1>6 DEF Added, Elsewhere

(* Some places are left out.                                                *)
KeepGood(x, i, l) ==
    /\ l \in Seq(Packets) /\ x.list \in Seq(Packets) /\ i \in 0 .. Len(x.list)
    /\ \A a \in 1 .. Len(l) : \E b \in 1 .. i : b \notin x.drop /\ l[a] = x.list[b]
    /\ \A b \in 1 .. i : b \notin x.drop => \E a \in 1 .. Len(l) : l[a] = x.list[b]
    /\ \A o : Alone(x.list, o) => Alone(l, o)

KeepRounds == INSTANCE LoopProofs WITH Step <- keep, Good <- KeepGood

LEMMA KeepNext ==
    ASSUME NEW x, NEW l, NEW i \in 1 .. Len(x.list), KeepGood(x, i - 1, l)
    PROVE  KeepGood(x, i, keep(x, l, i))
<1> DEFINE q == x.list[i]
           t == Append(l, q)
<1>1. /\ l \in Seq(Packets) /\ x.list \in Seq(Packets) /\ Len(x.list) \in Nat /\ i \in Nat
      /\ \A a \in 1 .. Len(l) : \E b \in 1 .. i - 1 : b \notin x.drop /\ l[a] = x.list[b]
      /\ \A b \in 1 .. i - 1 : b \notin x.drop => \E a \in 1 .. Len(l) : l[a] = x.list[b]
      /\ \A o : Alone(x.list, o) => Alone(l, o)
  BY LenProperties DEF KeepGood
<1>2. CASE i \in x.drop
  <2>1. keep(x, l, i) = l
    BY <1>2 DEF keep
  <2>2. \A b \in 1 .. i : b \notin x.drop => b \in 1 .. i - 1
    BY <1>1, <1>2
  <2>3. \A b \in 1 .. i - 1 : b \in 1 .. i
    BY <1>1
  <2>4. i \in 0 .. Len(x.list)
    BY <1>1
  <2> QED
    BY <1>1, <2>1, <2>2, <2>3, <2>4 DEF KeepGood
<1>3. CASE i \notin x.drop
  <2>1. keep(x, l, i) = t
    BY <1>3 DEF keep
  <2>2. q \in Packets
    BY <1>1, ElementOfSeq
  <2>3. /\ t \in Seq(Packets) /\ Len(t) = Len(l) + 1 /\ Len(l) \in Nat
        /\ \A a \in 1 .. Len(l) : t[a] = l[a] 
        /\ t[Len(l) + 1] = q
    BY <1>1, <2>2, AppendProperties, LenProperties
  <2>4. \A a \in 1 .. Len(t) : a \in 1 .. Len(l) \/ a = Len(t)
    BY <2>3
  <2>5. \A b \in 1 .. i - 1 : b \in 1 .. i /\ b # i
    BY <1>1
  <2>6. \A b \in 1 .. i : b \in 1 .. i - 1 \/ b = i
    BY <1>1
  <2>7. i \in 1 .. i /\ i \in 0 .. Len(x.list) /\ Len(t) \in 1 .. Len(t)
        /\ (1 .. Len(l)) \subseteq (1 .. Len(t)) /\ 1 .. i \subseteq 1 .. Len(x.list)
    BY <1>1, <2>3
  <2> HIDE DEF t
  <2>8. ASSUME NEW a \in 1 .. Len(t)
        PROVE  \E b \in 1 .. i : b \notin x.drop /\ t[a] = x.list[b]
    <3>1. CASE a \in 1 .. Len(l)
      <4>1. PICK b \in 1 .. i - 1 : b \notin x.drop /\ l[a] = x.list[b]
        BY <1>1, <3>1
      <4> QED
        BY <2>3, <2>5, <3>1, <4>1
    <3>2. CASE a = Len(t)
      <4>1. t[a] = x.list[i]
        BY <2>3, <3>2
      <4> QED
        BY <1>3, <2>7, <4>1
    <3> QED
      BY <2>4, <3>1, <3>2
  <2>9. \A b \in 1 .. i : b \notin x.drop => \E a \in 1 .. Len(t) : t[a] = x.list[b]
    BY <1>1, <2>3, <2>6, <2>7
  <2>10. ASSUME NEW o, Alone(x.list, o), NEW a \in 1 .. Len(t), NEW c \in 1 .. Len(t),
                t[a].pcb = o, t[c].pcb = o
         PROVE  a = c
    <3>1. ASSUME NEW d \in 1 .. Len(l), t[d].pcb = o, t[Len(t)].pcb = o PROVE FALSE
      <4>1. PICK b \in 1 .. i - 1 : l[d] = x.list[b]
        BY <1>1
      <4>2. x.list[b].pcb = o /\ x.list[i].pcb = o /\ b # i /\ b \in 1 .. Len(x.list)
        BY <2>3, <2>5, <2>7, <3>1, <4>1
      <4> QED
        BY <2>7, <2>10, <4>2 DEF Alone
    <3>2. CASE a \in 1 .. Len(l) /\ c \in 1 .. Len(l)
      <4>1. Alone(l, o) /\ l[a].pcb = o /\ l[c].pcb = o
        BY <1>1, <2>3, <2>10, <3>2
      <4> QED
        BY <3>2, <4>1 DEF Alone
    <3> QED
      BY <2>4, <2>10, <3>1, <3>2
  <2>11. ASSUME NEW o, Alone(x.list, o) PROVE Alone(t, o)
    BY <2>10, <2>11 DEF Alone
  <2> QED
    BY <1>1, <2>1, <2>3, <2>7, <2>8, <2>9, <2>11 DEF KeepGood
<1> QED
  BY <1>2, <1>3

LEMMA WithoutPlaces ==
    ASSUME NEW s \in Seq(Packets), NEW D
    PROVE  LET t == without(s, D)
           IN /\ t \in Seq(Packets)
              /\ \A o : Of(t, o) = {s[k] : k \in {i \in 1 .. Len(s) : s[i].pcb = o /\ i \notin D}}
              /\ \A o : Alone(s, o) => Alone(t, o)
<1> DEFINE x == [list |-> s, drop |-> D]
           t == without(s, D)
<1>1. x.list = s /\ x.drop = D /\ Len(s) \in Nat
  BY LenProperties
<1> HIDE DEF x
<1>2. KeepGood(x, 0, <<>>)
  <2>1. <<>> \in Seq(Packets) /\ Len(<<>>) = 0
    BY EmptySeq
  <2>2. \A o : Alone(<<>>, o)
    BY <2>1 DEF Alone
  <2> QED
    BY <1>1, <2>1, <2>2 DEF KeepGood
<1>3. \A i \in 1 .. Len(s) : \A y : KeepGood(x, i - 1, y) => KeepGood(x, i, keep(x, y, i))
  BY <1>1, KeepNext
<1>4. KeepGood(x, Len(s), KeepRounds!loop(x, <<>>, Len(s)))
  BY <1>1, <1>2, <1>3, KeepRounds!LoopKeeps
<1>5. t = KeepRounds!loop(x, <<>>, Len(s))
  BY DEF without, x, KeepRounds!loop, kept!loop
<1>6. KeepGood(x, Len(s), t)
  BY <1>4, <1>5
<1> HIDE DEF t
<1>7. /\ t \in Seq(Packets)
      /\ \A a \in 1 .. Len(t) : \E b \in 1 .. Len(s) : b \notin D /\ t[a] = s[b]
      /\ \A b \in 1 .. Len(s) : b \notin D => \E a \in 1 .. Len(t) : t[a] = s[b]
      /\ \A o : Alone(s, o) => Alone(t, o)
  BY <1>1, <1>6 DEF KeepGood
<1>8. ASSUME NEW o
      PROVE  Of(t, o) = {s[k] : k \in {i \in 1 .. Len(s) : s[i].pcb = o /\ i \notin D}}
  <2>1. ASSUME NEW q \in Of(t, o)
        PROVE  \E k \in 1 .. Len(s) : s[k].pcb = o /\ k \notin D /\ q = s[k]
    <3>1. PICK a \in 1 .. Len(t) : t[a] = q /\ t[a].pcb = o
      BY DEF Of
    <3> QED
      BY <1>7, <3>1
  <2>2. ASSUME NEW k \in 1 .. Len(s), s[k].pcb = o, k \notin D PROVE s[k] \in Of(t, o)
    <3>1. PICK a \in 1 .. Len(t) : t[a] = s[k]
      BY <1>7, <2>2
    <3> QED
      BY <2>2, <3>1 DEF Of
  <2> QED
    BY <2>1, <2>2
<1> QED
  BY <1>7, <1>8 DEF t

(* One packet is replaced by another of the same PCB.                       *)
Replaced(s, k, y, t) ==
    /\ Elsewhere(s, t, y.pcb)
    /\ y \in Of(t, y.pcb)
    /\ \A q \in Of(t, y.pcb) : q = y \/ q \in Of(s, y.pcb)
    /\ \A q \in Of(s, y.pcb) : q = s[k] \/ q \in Of(t, y.pcb)
    /\ Alone(s, y.pcb) => Alone(t, y.pcb) /\ Of(t, y.pcb) = {y}

LEMMA ReplacedIn ==
    ASSUME NEW s \in Seq(Packets), NEW k \in 1 .. Len(s), NEW y \in Packets, y.pcb = s[k].pcb,
           NEW t \in Seq(Packets), Len(t) = Len(s), t[k] = y,
           \A i \in 1 .. Len(s) : i # k => t[i] = s[i]
    PROVE  Replaced(s, k, y, t)
<1>1. /\ t \in Seq(Packets) /\ Len(t) = Len(s) /\ t[k] = y
      /\ \A i \in 1 .. Len(s) : i # k => t[i] = s[i]
  OBVIOUS
<1>2. \A i \in 1 .. Len(s) : t[i].pcb = s[i].pcb
  BY <1>1
<1>3. \A o : Alone(s, o) => Alone(t, o)
  BY <1>1, <1>2 DEF Alone
<1>4. ASSUME NEW o, o # y.pcb PROVE Of(t, o) = Of(s, o)
  <2>1. \A i \in 1 .. Len(s) : s[i].pcb = o => t[i] = s[i] /\ t[i].pcb = o
    BY <1>1, <1>2, <1>4
  <2>2. \A i \in 1 .. Len(s) : t[i].pcb = o => t[i] = s[i] /\ s[i].pcb = o
    BY <1>1, <1>2, <1>4
  <2>3. ASSUME NEW q \in Of(s, o) PROVE q \in Of(t, o)
    BY <1>1, <2>1 DEF Of
  <2>4. ASSUME NEW q \in Of(t, o) PROVE q \in Of(s, o)
    BY <1>1, <2>2 DEF Of
  <2> QED
    BY <2>3, <2>4
<1>5. y \in Of(t, y.pcb)
  BY <1>1 DEF Of
<1>6. ASSUME NEW q \in Of(t, y.pcb) PROVE q = y \/ q \in Of(s, y.pcb)
  BY <1>1, <1>2 DEF Of
<1>7. ASSUME NEW q \in Of(s, y.pcb) PROVE q = s[k] \/ q \in Of(t, y.pcb)
  BY <1>1, <1>2 DEF Of
<1>8. ASSUME Alone(s, y.pcb), NEW q \in Of(t, y.pcb) PROVE q = y
  <2>1. PICK i \in 1 .. Len(t) : t[i] = q /\ t[i].pcb = y.pcb
    BY DEF Of
  <2>2. i = k
    BY <1>1, <1>2, <1>8, <2>1 DEF Alone
  <2> QED
    BY <1>1, <2>1, <2>2
<1> QED
  BY <1>1, <1>3, <1>4, <1>5, <1>6, <1>7, <1>8 DEF Replaced, Elsewhere

(* The head of the queue is taken off.                                      *)
LEMMA TakenOff ==
    ASSUME NEW s \in Seq(Packets), s # <<>>
    PROVE  LET x == Head(s) t == Tail(s)
           IN /\ x \in Packets /\ t \in Seq(Packets)
              /\ Elsewhere(s, t, x.pcb)
              /\ Of(s, x.pcb) = Of(t, x.pcb) \cup {x}
              /\ Alone(s, x.pcb) => Of(t, x.pcb) = {}
<1> DEFINE x == Head(s)
           t == Tail(s)
<1>1. /\ x \in Packets /\ t \in Seq(Packets) /\ Len(s) \in Nat /\ Len(t) = Len(s) - 1
      /\ x = s[1] /\ 1 \in 1 .. Len(s)
      /\ \A i \in 1 .. Len(s) - 1 : t[i] = s[i + 1]
  <2>1. Len(s) \in Nat \ {0}
    BY EmptySeq, LenProperties
  <2>2. x = s[1] /\ 1 \in 1 .. Len(s)
    BY <2>1
  <2>3. x \in Packets /\ t \in Seq(Packets) /\ Len(t) = Len(s) - 1
    BY HeadTailProperties
  <2> QED
    BY <2>1, <2>2, <2>3, HeadTailProperties
<1> HIDE DEF x, t
<1>2. ASSUME NEW i \in 1 .. Len(t)
      PROVE  i + 1 \in 1 .. Len(s) /\ t[i] = s[i + 1] /\ i + 1 # 1
  BY <1>1
<1>3. ASSUME NEW i \in 1 .. Len(s), i # 1 PROVE i - 1 \in 1 .. Len(t) /\ t[i - 1] = s[i]
  <2>1. i - 1 \in 1 .. Len(s) - 1 /\ (i - 1) + 1 = i
    BY <1>1, <1>3
  <2> QED
    BY <1>1, <2>1
<1>4. ASSUME NEW o, NEW q \in Of(t, o) PROVE q \in Of(s, o)
  <2>1. PICK i \in 1 .. Len(t) : t[i] = q /\ t[i].pcb = o
    BY DEF Of
  <2> QED
    BY <1>2, <2>1 DEF Of
<1>5. ASSUME NEW o, NEW q \in Of(s, o) PROVE q = x \/ q \in Of(t, o)
  <2>1. PICK i \in 1 .. Len(s) : s[i] = q /\ s[i].pcb = o
    BY DEF Of
  <2> QED
    BY <1>1, <1>3, <2>1 DEF Of
<1>6. x \in Of(s, x.pcb)
  BY <1>1 DEF Of
<1>7. ASSUME NEW o, Alone(s, o), NEW i \in 1 .. Len(t), NEW j \in 1 .. Len(t),
             t[i].pcb = o, t[j].pcb = o
      PROVE  i = j
  <2>1. i + 1 = j + 1
    BY <1>2, <1>7 DEF Alone
  <2> QED
    BY <2>1
<1>8. \A o : Alone(s, o) => Alone(t, o)
  BY <1>7 DEF Alone
<1>9. ASSUME NEW o, o # x.pcb PROVE Of(t, o) = Of(s, o)
  <2>1. x \notin Of(s, o)
    BY <1>1, <1>9 DEF Of
  <2> QED
    BY <1>4, <1>5, <2>1
<1>10. ASSUME Alone(s, x.pcb), NEW q \in Of(t, x.pcb) PROVE FALSE
  <2>1. PICK i \in 1 .. Len(t) : t[i] = q /\ t[i].pcb = x.pcb
    BY DEF Of
  <2> QED
    BY <1>1, <1>2, <1>10, <2>1 DEF Alone
<1>11. Of(s, x.pcb) = Of(t, x.pcb) \cup {x}
  BY <1>4, <1>5, <1>6
<1> QED
  BY <1>1, <1>8, <1>9, <1>10, <1>11 DEF x, t, Elsewhere

--------------------------------------------------------------------------------
(* The server.                                                              *)
LEMMA NewIdOk ==
    ASSUME NEW m \in Servers
    PROVE  newId(m) \in Nat
<1> DEFINE l == Len(m.txq)
           at(n) == {k \in 1 .. l : m.txq[k].id = n}
<1>1. l \in Nat
  BY LenProperties DEF Servers
<1>2. \E n \in 1 .. l + 1 : at(n) = {}
  <2> SUFFICES ASSUME \A n \in 1 .. l + 1 : at(n) # {} PROVE FALSE
    OBVIOUS
  <2> DEFINE f == [n \in 1 .. l + 1 |-> CHOOSE k \in 1 .. l : m.txq[k].id = n]
  <2>1. ASSUME NEW n \in 1 .. l + 1 PROVE f[n] \in 1 .. l /\ m.txq[f[n]].id = n
    <3>1. \E k \in 1 .. l : m.txq[k].id = n
      OBVIOUS
    <3> QED
      BY <3>1
  <2>2. f \in [1 .. l + 1 -> 1 .. l]
    BY <2>1
  <2> HIDE DEF f, l
  <2>3. /\ IsFiniteSet(1 .. l) /\ IsFiniteSet(1 .. l + 1)
        /\ Cardinality(1 .. l) < Cardinality(1 .. l + 1)
    <3>1. l \in Int /\ l + 1 \in Int /\ 1 \in Int
      BY <1>1
    <3>2. IsFiniteSet(1 .. l) /\ Cardinality(1 .. l) = IF 1 > l THEN 0 ELSE l - 1 + 1
      BY <3>1, FS_Interval
    <3>3. /\ IsFiniteSet(1 .. l + 1)
          /\ Cardinality(1 .. l + 1) = IF 1 > l + 1 THEN 0 ELSE (l + 1) - 1 + 1
      BY <3>1, FS_Interval
    <3> QED
      BY <1>1, <3>2, <3>3
  <2>4. PICK a \in 1 .. l + 1, b \in 1 .. l + 1 : a # b /\ f[a] = f[b]
    BY <2>2, <2>3, FS_PigeonHole
  <2> QED
    BY <2>1, <2>4
<1>3. newId(m) \in 1 .. l + 1
  <2>1. \E n \in 1 .. l + 1 : \A k \in 1 .. l : m.txq[k].id # n
    BY <1>2
  <2> QED
    BY <2>1 DEF newId
<1> QED
  BY <1>1, <1>3

LEMMA PacketOk ==
    ASSUME NEW m \in Servers, NEW p \in Pcbs
    PROVE  /\ packet(m, p) \in Packets /\ packet(m, p).pcb = p /\ ~packet(m, p).distributed
           /\ packet(m, p).questions = {} /\ packet(m, p).servers = {}
           /\ packet(m, p).answers = {} /\ packet(m, p).additional = {}
BY NewIdOk DEF packet, Packets

(* What a step for PCB p leaves alone: the other PCBs.                      *)
Others(m, n, p) ==
    /\ n.hostname = m.hostname
    /\ \A o \in Pcbs \ {p} : n.pcbs[o] = m.pcbs[o] /\ n.probes[o] = m.probes[o]
    /\ Elsewhere(m.txq, n.txq, p)

LEMMA OthersOk ==
    ASSUME NEW m, NEW n, NEW p, Others(m, n, p), NEW o \in Pcbs, o # p,
           NEW S, NEW N, PcbOk(m, o, S, N)
    PROVE  PcbOk(n, o, S, N) /\ n.pcbs[o] = m.pcbs[o]
<1>1. /\ n.hostname = m.hostname /\ n.pcbs[o] = m.pcbs[o] /\ n.probes[o] = m.probes[o]
      /\ Of(n.txq, o) = Of(m.txq, o) /\ (Alone(m.txq, o) => Alone(n.txq, o))
  BY DEF Others, Elsewhere
<1>2. OpenOk(n, o)
  BY <1>1 DEF PcbOk, OpenOk, ProbeOk, ListOk, AnnounceOk
<1>3. Unnamed(n, o)
  BY <1>1 DEF PcbOk, Unnamed
<1>4. NoLateConflict => PointersOk(n, o, S) /\ NamesOk(n, o, N)
  BY <1>1 DEF PcbOk, PointersOk, NamesOk
<1> QED
  BY <1>1, <1>2, <1>3, <1>4 DEF PcbOk

LEMMA OthersTrans ==
    ASSUME NEW m, NEW n, NEW l, NEW p, Others(m, n, p), Others(n, l, p)
    PROVE  Others(m, l, p)
BY DEF Others, Elsewhere

LEMMA ServerFields ==
    ASSUME NEW m \in Servers
    PROVE  /\ m = [hostname |-> m.hostname, pcbs |-> m.pcbs, txq |-> m.txq,
                   probes |-> m.probes, wire |-> m.wire]
           /\ m.hostname \in BOOLEAN /\ m.pcbs \in [Pcbs -> PcbStates]
           /\ m.txq \in Seq(Packets) /\ m.probes \in Counts
           /\ m.wire \in SUBSET (Pcbs \X Names \X (0 .. 4))
BY DEF Servers

LEMMA NewQueue ==
    ASSUME NEW m \in Servers, NEW q \in Seq(Packets), NEW n, n = [m EXCEPT !.txq = q]
    PROVE  /\ n \in Servers /\ n.txq = q /\ n.hostname = m.hostname
           /\ n.pcbs = m.pcbs /\ n.probes = m.probes /\ n.wire = m.wire
BY DEF Servers

LEMMA NewPcb ==
    ASSUME NEW m \in Servers, NEW p \in Pcbs, NEW pcb \in PcbStates,
           NEW n, n = setPcb(m, p, pcb)
    PROVE  /\ n \in Servers /\ n.txq = m.txq /\ n.hostname = m.hostname
           /\ n.pcbs[p] = pcb /\ n.probes = m.probes /\ n.wire = m.wire
           /\ \A o \in Pcbs \ {p} : n.pcbs[o] = m.pcbs[o]
           /\ Others(m, n, p)
<1> DEFINE f == [m.pcbs EXCEPT ![p] = pcb]
<1>1. f \in [Pcbs -> PcbStates] /\ f[p] = pcb /\ \A o \in Pcbs \ {p} : f[o] = m.pcbs[o]
  BY ServerFields
<1>2. n = [m EXCEPT !.pcbs = f]
  BY ServerFields DEF setPcb
<1> HIDE DEF f
<1>3. /\ n \in Servers /\ n.txq = m.txq /\ n.hostname = m.hostname
      /\ n.pcbs = f /\ n.probes = m.probes /\ n.wire = m.wire
  BY <1>1, <1>2 DEF Servers
<1>4. Others(m, n, p)
  BY <1>1, <1>3 DEF Others, Elsewhere
<1> QED
  BY <1>1, <1>3, <1>4

LEMMA NewState ==
    ASSUME NEW pcb \in PcbStates, NEW state \in 0 .. 9, NEW r,
           r = [pcb EXCEPT !.state = state]
    PROVE  /\ r \in PcbStates /\ r.state = state /\ r.up = pcb.up
           /\ r.services = pcb.services /\ r.ip = pcb.ip /\ r.running = pcb.running
BY DEF PcbStates

(* n is m with the packet x scheduled.                                      *)
Scheduled(m, x, n) ==
    /\ n \in Servers /\ n.hostname = m.hostname /\ n.pcbs = m.pcbs
    /\ n.probes = m.probes /\ n.wire = m.wire /\ Others(m, n, x.pcb)
    /\ \E y \in Packets :
           /\ y.pcb = x.pcb /\ y.questions = x.questions /\ y.servers = x.servers
           /\ y.answers = x.answers /\ y.distributed = x.distributed
           /\ Added(m.txq, n.txq, y)

LEMMA ScheduleOk ==
    ASSUME toWrap \in Nat, NEW m \in Servers, NEW x \in Packets, NEW ms \in Nat,
           NEW n, n = schedule(m, x, ms)
    PROVE  Scheduled(m, x, n)
<1> DEFINE y == [x EXCEPT !.due = ms, !.late = ms >= toWrap]
           K == {i \in 1 .. Len(m.txq) : after(m.txq[i], y)}
           k == First(K)
           q == IF k = 0 THEN Append(m.txq, y) ELSE InsertAt(m.txq, k, y)
<1>1. /\ y \in Packets /\ y.pcb = x.pcb /\ y.questions = x.questions /\ y.servers = x.servers
      /\ y.answers = x.answers /\ y.distributed = x.distributed
  <2> DEFINE z == [x EXCEPT !.due = ms]
             b == ms >= toWrap
  <2>1. /\ z \in Packets /\ z.pcb = x.pcb /\ z.questions = x.questions /\ z.servers = x.servers
        /\ z.answers = x.answers /\ z.distributed = x.distributed
    BY DEF Packets
  <2>2. b \in BOOLEAN /\ y = [z EXCEPT !.late = b]
    BY DEF Packets
  <2> HIDE DEF z, b, y
  <2> QED
    BY <2>1, <2>2 DEF Packets
<1>2. n = [m EXCEPT !.txq = q]
  BY DEF schedule
<1> HIDE DEF y
<1>3. m.txq \in Seq(Packets) /\ Len(m.txq) \in Nat
  BY ServerFields, LenProperties
<1>4. q \in Seq(Packets) /\ Added(m.txq, q, y)
  <2>0. K \in SUBSET (1 .. Len(m.txq))
    OBVIOUS
  <2> HIDE DEF K
  <2>1. CASE k = 0
    <3>1. /\ q = Append(m.txq, y) /\ q \in Seq(Packets) /\ Len(q) = Len(m.txq) + 1
          /\ \A i \in 1 .. Len(m.txq) : q[i] = m.txq[i]
          /\ q[Len(m.txq) + 1] = y
      BY <1>1, <1>3, <2>1, AppendProperties
    <3> HIDE DEF q, k
    <3>2. Len(m.txq) + 1 \in 1 .. Len(m.txq) + 1
      BY <1>3
    <3>3. ASSUME NEW i \in 1 .. Len(q)
          PROVE  q[i] = IF i < Len(m.txq) + 1 THEN m.txq[i]
                        ELSE IF i = Len(m.txq) + 1 THEN y ELSE m.txq[i - 1]
      BY <1>3, <3>1
    <3> QED
      BY <1>1, <1>3, <3>1, <3>2, <3>3, InsertAdds
  <2>2. CASE k # 0
    <3>1. k \in 1 .. Len(m.txq)
      BY <1>3, <2>0, <2>2, FirstOf
    <3>2. q = InsertAt(m.txq, k, y)
      BY <2>2
    <3> HIDE DEF q, k
    <3>3. /\ q \in Seq(Packets) /\ Len(q) = Len(m.txq) + 1
          /\ \A i \in 1 .. Len(q) :
                 q[i] = IF i < k THEN m.txq[i] ELSE IF i = k THEN y ELSE m.txq[i - 1]
      BY <1>1, <1>3, <3>1, <3>2, Inserted
    <3>4. k \in 1 .. Len(m.txq) + 1
      BY <1>3, <3>1
    <3> QED
      BY <1>1, <1>3, <3>3, <3>4, InsertAdds
  <2> QED
    BY <2>1, <2>2
<1> HIDE DEF q
<1>5. /\ n \in Servers /\ n.txq = q /\ n.hostname = m.hostname
      /\ n.pcbs = m.pcbs /\ n.probes = m.probes /\ n.wire = m.wire
  BY <1>2, <1>4, NewQueue
<1>6. Others(m, n, x.pcb)
  BY <1>1, <1>4, <1>5 DEF Others, Added
<1> QED
  BY <1>1, <1>4, <1>5, <1>6 DEF Scheduled

LEMMA ClearOk ==
    ASSUME NEW m \in Servers, NEW p \in Pcbs, NEW n, n = clear_pcb_tx_queue(m, p)
    PROVE  /\ n \in Servers /\ n.hostname = m.hostname /\ n.pcbs = m.pcbs
           /\ n.probes = m.probes /\ n.wire = m.wire /\ Others(m, n, p)
           /\ Of(n.txq, p) = {}
<1> DEFINE D == packetsOf(m, p)
           t == without(m.txq, D)
<1>1. m.txq \in Seq(Packets)
  BY ServerFields
<1> HIDE DEF D
<1>2. /\ t \in Seq(Packets)
      /\ \A o : Of(t, o) = {m.txq[k] : k \in {i \in 1 .. Len(m.txq) : m.txq[i].pcb = o /\ i \notin D}}
      /\ \A o : Alone(m.txq, o) => Alone(t, o)
  BY <1>1, WithoutPlaces
<1>3. n = [m EXCEPT !.txq = t]
  BY DEF clear_pcb_tx_queue, D
<1> HIDE DEF t
<1>4. /\ n \in Servers /\ n.txq = t /\ n.hostname = m.hostname
      /\ n.pcbs = m.pcbs /\ n.probes = m.probes /\ n.wire = m.wire
  BY <1>2, <1>3, NewQueue
<1>5. \A i \in 1 .. Len(m.txq) : (i \in D) <=> (m.txq[i].pcb = p)
  BY DEF D, packetsOf
<1>6. Of(t, p) = {}
  BY <1>2, <1>5
<1>7. ASSUME NEW o, o # p PROVE Of(t, o) = Of(m.txq, o)
  <2>1. {i \in 1 .. Len(m.txq) : m.txq[i].pcb = o /\ i \notin D}
            = {i \in 1 .. Len(m.txq) : m.txq[i].pcb = o}
    BY <1>5, <1>7
  <2> QED
    BY <1>2, <2>1 DEF Of
<1>8. Others(m, n, p)
  BY <1>2, <1>4, <1>7 DEF Others, Elsewhere
<1> QED
  BY <1>4, <1>6, <1>8

--------------------------------------------------------------------------------
(* Probing.                                                                 *)
Asking(x, p, l) ==
    x \in Packets /\ x.pcb = p /\ x.answers = {} /\ x.questions = l /\ x.servers = l

LEMMA ProbePacketOk ==
    ASSUME NEW m \in Servers, NEW p \in Pcbs, NEW svcs \in SUBSET Services, NEW ip,
           NEW x, x = create_probe_packet(m, p, svcs, ip)
    PROVE  Asking(x, p, withIp(svcs, ip))
<1> DEFINE l == withIp(svcs, ip)
           a == packet(m, p)
           b == [a EXCEPT !.questions = l]
<1>1. l \in SUBSET Names
  BY DEF withIp, Names
<1>2. a \in Packets /\ a.pcb = p /\ a.answers = {}
  BY PacketOk
<1>3. x = [b EXCEPT !.servers = l]
  BY <1>2 DEF create_probe_packet, Packets
<1> HIDE DEF l, a
<1>4. b \in Packets /\ b.pcb = p /\ b.answers = {} /\ b.questions = l
  BY <1>1, <1>2 DEF Packets
<1> HIDE DEF b
<1>5. x \in Packets /\ x.pcb = p /\ x.answers = {} /\ x.questions = l /\ x.servers = l
  BY <1>1, <1>3, <1>4 DEF Packets
<1> QED
  BY <1>5 DEF l, Asking

(* The names that p has to probe after a call for svcs and ip: those, and   *)
(* the ones on its list.                                                    *)
Wanted(pcb, svcs, ip) ==
    withIp(svcs \cup (IF PCB_STATE_IS_PROBING(pcb) THEN pcb.services ELSE {}), pcb.ip \/ ip)

(* Before a PCB probes, nothing is asked of its packets: they are dropped.  *)
MayProbe(m, p, svcs, ip, S, N) ==
    /\ Unnamed(m, p)
    /\ NoLateConflict =>
           /\ m.pcbs[p].up /\ m.pcbs[p].services \subseteq S /\ svcs \subseteq S
           /\ m.hostname => \A n \in N : n \in Wanted(m.pcbs[p], svcs, ip) \/ Settled(m.probes[p][n])

(* What a call for PCB p does: it is as it should be, the others are as     *)
(* they were, and no PCB is closed.                                         *)
Done(m, n, p, S, N) ==
    /\ n \in Servers /\ n.wire = m.wire /\ Others(m, n, p)
    /\ m.pcbs[p].up => n.pcbs[p].up
    /\ PcbOk(n, p, S, N)

LEMMA InitProbe ==
    ASSUME toWrap \in Nat, NEW m \in Servers, NEW p \in Pcbs,
           NEW svcs \in SUBSET Services, NEW ip \in BOOLEAN, withIp(svcs, ip) # {},
           NEW delay \in Nat, NEW S, NEW N \in SUBSET Names, MayProbe(m, p, svcs, ip, S, N),
           NEW n, n = init_pcb_probe(m, p, svcs, ip, delay)
    PROVE  Done(m, n, p, S, N)
<1>0. PICK c : c = clear_pcb_tx_queue(m, p)
  OBVIOUS
<1>1. /\ c \in Servers /\ c.hostname = m.hostname /\ c.pcbs = m.pcbs
      /\ c.probes = m.probes /\ c.wire = m.wire /\ Others(m, c, p) /\ Of(c.txq, p) = {}
  BY <1>0, ClearOk
<1>2. m.pcbs[p] \in PcbStates /\ m.hostname \in BOOLEAN /\ m.probes[p] \in [Names -> 0 .. 4]
  BY ServerFields DEF Counts
<1>3. CASE ~m.hostname
  <2> DEFINE r == [c.pcbs[p] EXCEPT !.state = PCB_RUNNING]
  <2>1. n = setPcb(c, p, r)
    BY <1>0, <1>1, <1>3 DEF init_pcb_probe, setState
  <2>2. /\ r \in PcbStates /\ r.state = PCB_RUNNING /\ r.up = m.pcbs[p].up
        /\ r.services = m.pcbs[p].services
    <3>1. r = [m.pcbs[p] EXCEPT !.state = PCB_RUNNING]
      BY <1>1
    <3> HIDE DEF r
    <3> QED
      BY <1>2, <3>1 DEF PcbStates, PCB_RUNNING
  <2> HIDE DEF r
  <2>3. /\ n \in Servers /\ n.txq = c.txq /\ n.hostname = c.hostname
        /\ n.pcbs[p] = r /\ n.probes = c.probes /\ n.wire = c.wire /\ Others(c, n, p)
    BY <1>1, <2>1, <2>2, NewPcb
  <2>4. Others(m, n, p)
    BY <1>1, <2>3, OthersTrans
  <2>5. r.services = {}
    BY <1>3, <2>2 DEF MayProbe, Unnamed
  <2>6. OpenOk(n, p) /\ Unnamed(n, p)
    BY <1>1, <2>2, <2>3, <2>5
       DEF OpenOk, Unnamed, ListOk, Probing, PCB_STATE_IS_ANNOUNCING, PCB_RUNNING, PCB_PROBE_1,
           PCB_PROBE_3
  <2>7. NoLateConflict => PointersOk(n, p, S) /\ NamesOk(n, p, N)
    BY <1>1, <1>3, <2>2, <2>3, <2>5 DEF PointersOk, NamesOk, MayProbe
  <2>8. PcbOk(n, p, S, N)
    BY <2>6, <2>7 DEF PcbOk
  <2> QED
    BY <1>1, <2>2, <2>3, <2>4, <2>8 DEF Done
<1>4. CASE m.hostname
  <2> DEFINE pcb == m.pcbs[p]
             all == IF PCB_STATE_IS_PROBING(pcb) THEN svcs \cup pcb.services ELSE svcs
             all_ip == pcb.ip \/ ip
             r == [pcb EXCEPT !.ip = all_ip, !.services = all, !.running = TRUE,
                              !.state = PCB_PROBE_1]
  <2>50. PICK x : x = create_probe_packet(c, p, all, all_ip)
    OBVIOUS
  <2>51. PICK wait \in Nat :
               wait = delay + (IF pcb.failed > FailedLimit THEN SlowProbe ELSE 0)
    BY MdnsAssumption
  <2>52. PICK d : d = schedule(c, x, wait)
    OBVIOUS
  <2>53. wait \in Nat
    BY <2>51
  <2>1. n = setPcb(d, p, r)
    BY <1>0, <1>1, <1>4, <2>50, <2>51, <2>52 DEF init_pcb_probe, init_pcb_probe_new_service
  <2>2. all \in SUBSET Services /\ all_ip \in BOOLEAN
    <3>1. pcb.services \in SUBSET Services /\ pcb.ip \in BOOLEAN
      BY <1>2 DEF PcbStates
    <3> QED
      BY <3>1
  <2>3. withIp(all, all_ip) = Wanted(pcb, svcs, ip) /\ withIp(all, all_ip) # {}
    BY DEF Wanted, withIp
  <2>4. /\ r \in PcbStates /\ r.state = PCB_PROBE_1 /\ r.up = pcb.up /\ r.running = TRUE
        /\ r.services = all /\ r.ip = all_ip
    <3> DEFINE r1 == [pcb EXCEPT !.ip = all_ip]
               r2 == [r1 EXCEPT !.services = all]
               r3 == [r2 EXCEPT !.running = TRUE]
    <3>1. r = [r3 EXCEPT !.state = PCB_PROBE_1]
      BY <1>2 DEF PcbStates
    <3> HIDE DEF all, all_ip, r
    <3>2. r1 \in PcbStates /\ r1.up = pcb.up /\ r1.ip = all_ip
      BY <1>2, <2>2 DEF PcbStates
    <3> HIDE DEF r1
    <3>3. r2 \in PcbStates /\ r2.up = pcb.up /\ r2.ip = all_ip /\ r2.services = all
      BY <2>2, <3>2 DEF PcbStates
    <3> HIDE DEF r2
    <3>4. /\ r3 \in PcbStates /\ r3.up = pcb.up /\ r3.ip = all_ip /\ r3.services = all
          /\ r3.running = TRUE
      BY <3>3 DEF PcbStates
    <3> HIDE DEF r3
    <3> QED
      BY <3>1, <3>4 DEF PcbStates, PCB_PROBE_1
  <2> HIDE DEF all, all_ip, r
  <2>5. /\ x \in Packets /\ x.pcb = p /\ x.answers = {}
        /\ x.questions = withIp(all, all_ip) /\ x.servers = withIp(all, all_ip)
    <3>0. PICK inc : inc = all_ip
      OBVIOUS
    <3>1. PICK svs \in SUBSET Services : svs = all /\ inc = all_ip
      BY <2>2, <3>0
    <3>2. x = create_probe_packet(c, p, svs, inc) /\ c \in Servers
      BY <1>1, <2>50, <3>1
    <3>3. Asking(x, p, withIp(svs, inc))
      BY <3>2, ProbePacketOk
    <3> QED
      BY <3>1, <3>3 DEF Asking
  <2>6. /\ d \in Servers /\ d.hostname = c.hostname /\ d.pcbs = c.pcbs
        /\ d.probes = c.probes /\ d.wire = c.wire /\ Others(c, d, p)
        /\ \E y \in Packets :
               /\ y.pcb = x.pcb /\ y.questions = x.questions /\ y.servers = x.servers
               /\ y.answers = x.answers /\ y.distributed = x.distributed
               /\ Added(c.txq, d.txq, y)
    <3>1. Scheduled(c, x, d)
      BY <1>1, <2>5, <2>52, <2>53, ScheduleOk
    <3> QED
      BY <2>5, <3>1 DEF Scheduled
  <2>7. /\ n \in Servers /\ n.txq = d.txq /\ n.hostname = d.hostname
        /\ n.pcbs[p] = r /\ n.probes = d.probes /\ n.wire = d.wire /\ Others(d, n, p)
    BY <2>1, <2>4, <2>6, NewPcb
  <2>8. Others(m, n, p)
    BY <1>1, <2>6, <2>7, OthersTrans
  <2>9. PICK y \in Packets : /\ y.pcb = p /\ y.answers = {} /\ Added(c.txq, d.txq, y)
                             /\ y.questions = withIp(all, all_ip)
                             /\ y.servers = withIp(all, all_ip)
    BY <2>5, <2>6
  <2>10. Of(n.txq, p) = {y} /\ Alone(n.txq, p)
    BY <1>1, <2>7, <2>9 DEF Added
  <2>11. Listed(r) = withIp(all, all_ip)
    BY <2>4 DEF Listed
  <2>12. ProbeOk(n, p)
    BY <2>3, <2>4, <2>7, <2>9, <2>10, <2>11 DEF ProbeOk
  <2>13. OpenOk(n, p) /\ Unnamed(n, p)
    BY <1>1, <1>4, <2>4, <2>6, <2>7, <2>12
       DEF OpenOk, Unnamed, Probing, PCB_STATE_IS_ANNOUNCING, PCB_RUNNING, PCB_PROBE_1,
           PCB_PROBE_3
  <2>14. ASSUME NoLateConflict PROVE PointersOk(n, p, S) /\ NamesOk(n, p, N)
    <3>1. r.services \subseteq S /\ r.up
      BY <2>4, <2>14 DEF MayProbe, all
    <3>2. PointersOk(n, p, S)
      BY <2>7, <2>9, <2>10, <3>1 DEF PointersOk
    <3>3. Probing(r)
      BY <2>4 DEF Probing, PCB_PROBE_1, PCB_PROBE_3
    <3>4. ASSUME NEW a \in N PROVE NameOk(r, a, m.probes[p][a])
      <4>1. a \in Listed(r) \/ Settled(m.probes[p][a])
        BY <1>4, <2>3, <2>11, <2>14 DEF MayProbe
      <4>2. m.probes[p][a] \in 0 .. 4
        BY <1>2
      <4>3. CASE a \in Listed(r)
        BY <2>4, <3>3, <4>2, <4>3 DEF NameOk, PCB_PROBE_1
      <4> QED
        BY <4>1, <4>3 DEF NameOk
    <3>5. NamesOk(n, p, N)
      BY <1>1, <2>6, <2>7, <3>4 DEF NamesOk
    <3> QED
      BY <3>2, <3>5
  <2>15. PcbOk(n, p, S, N)
    BY <2>13, <2>14 DEF PcbOk
  <2>16. n.pcbs[p].up = m.pcbs[p].up
    BY <2>4, <2>7
  <2> QED
    BY <1>1, <2>6, <2>7, <2>8, <2>15, <2>16 DEF Done
<1> QED
  BY <1>3, <1>4

(* All PCBs are as they should be; what a handler does to all of them.      *)
Fine(m, S, N) == m \in Servers /\ \A p \in Pcbs : PcbOk(m, p, S, N)
Opens(m, n) == \A p \in Pcbs : m.pcbs[p].up => n.pcbs[p].up
Handled(m, n, S, N) ==
    Fine(n, S, N) /\ Opens(m, n) /\ n.hostname = m.hostname /\ n.wire = m.wire

LEMMA DoneAll ==
    ASSUME NEW m, NEW n, NEW p \in Pcbs, NEW S, NEW N,
           Fine(m, S, N), Done(m, n, p, S, N)
    PROVE  Handled(m, n, S, N)
<1>1. /\ n \in Servers /\ n.wire = m.wire /\ Others(m, n, p)
      /\ (m.pcbs[p].up => n.pcbs[p].up) /\ PcbOk(n, p, S, N)
  BY DEF Done
<1>2. ASSUME NEW o \in Pcbs PROVE PcbOk(n, o, S, N) /\ (m.pcbs[o].up => n.pcbs[o].up)
  <2>1. PcbOk(m, o, S, N)
    BY DEF Fine
  <2>2. CASE o = p
    BY <1>1, <2>2
  <2>3. CASE o # p
    BY <1>1, <2>1, <2>3, OthersOk
  <2> QED
    BY <2>2, <2>3
<1> QED
  BY <1>1, <1>2 DEF Handled, Fine, Opens, Others

(* Before a loop probes on PCB p, whose list it may clear first.            *)
Unlisted(pcb) == [pcb EXCEPT !.services = {}, !.running = FALSE]
Ready(m, p, svcs, ip, clear, S, N) ==
    IF m.pcbs[p].up
    THEN MayProbe(IF clear THEN setPcb(m, p, Unlisted(m.pcbs[p])) ELSE m, p, svcs, ip, S, N)
    ELSE PcbOk(m, p, S, N)

LEMMA MayProbeSame ==
    ASSUME NEW m, NEW n, NEW p, NEW svcs, NEW ip, NEW S, NEW N, MayProbe(m, p, svcs, ip, S, N),
           n.hostname = m.hostname, n.pcbs[p] = m.pcbs[p], n.probes[p] = m.probes[p]
    PROVE  MayProbe(n, p, svcs, ip, S, N)
BY DEF MayProbe, Unnamed

LEMMA UnlistedOk ==
    ASSUME NEW pcb \in PcbStates, NEW r, r = Unlisted(pcb)
    PROVE  /\ r \in PcbStates /\ r.services = {} /\ r.up = pcb.up /\ r.ip = pcb.ip
           /\ r.state = pcb.state
<1> DEFINE a == [pcb EXCEPT !.services = {}]
<1>1. /\ a \in PcbStates /\ a.services = {} /\ a.up = pcb.up /\ a.ip = pcb.ip
      /\ a.state = pcb.state
  BY DEF PcbStates
<1>2. r = [a EXCEPT !.running = FALSE]
  BY DEF Unlisted, PcbStates
<1> HIDE DEF a
<1> QED
  BY <1>1, <1>2 DEF PcbStates

LEMMA ReadyElsewhere ==
    ASSUME NEW m \in Servers, NEW n \in Servers, NEW o, NEW p \in Pcbs, p # o,
           Others(m, n, o), NEW svcs, NEW ip, NEW clear, NEW S, NEW N,
           Ready(m, p, svcs, ip, clear, S, N)
    PROVE  Ready(n, p, svcs, ip, clear, S, N)
<1>1. /\ n.hostname = m.hostname /\ n.pcbs[p] = m.pcbs[p] /\ n.probes[p] = m.probes[p]
      /\ m.pcbs[p] \in PcbStates
  BY ServerFields DEF Others
<1>2. CASE ~m.pcbs[p].up
  BY <1>1, <1>2, OthersOk DEF Ready
<1>3. CASE m.pcbs[p].up /\ ~clear
  BY <1>1, <1>3, MayProbeSame DEF Ready
<1>4. CASE m.pcbs[p].up /\ clear
  <2>1. PICK r : r = Unlisted(m.pcbs[p])
    OBVIOUS
  <2>2. PICK a, b : a = setPcb(m, p, r) /\ b = setPcb(n, p, r)
    OBVIOUS
  <2>3. r \in PcbStates
    BY <1>1, <2>1, UnlistedOk
  <2>4. a.hostname = m.hostname /\ a.pcbs[p] = r /\ a.probes = m.probes
    BY <2>2, <2>3, NewPcb
  <2>5. b.hostname = n.hostname /\ b.pcbs[p] = r /\ b.probes = n.probes
    BY <2>2, <2>3, NewPcb
  <2>6. MayProbe(a, p, svcs, ip, S, N)
    BY <1>4, <2>1, <2>2 DEF Ready
  <2>7. MayProbe(b, p, svcs, ip, S, N)
    BY <1>1, <2>4, <2>5, <2>6, MayProbeSame
  <2> QED
    BY <1>1, <1>4, <2>1, <2>2, <2>7 DEF Ready
<1> QED
  BY <1>2, <1>3, <1>4

LEMMA ProbeNext ==
    ASSUME toWrap \in Nat, NEW m \in Servers, NEW x, NEW k, PcbOrder[k] \in Pcbs,
           x.services \in SUBSET Services, x.ip \in BOOLEAN, withIp(x.services, x.ip) # {},
           x.delay \in [Pcbs -> Nat], NEW S, NEW N \in SUBSET Names,
           Ready(m, PcbOrder[k], x.services, x.ip, x.clear, S, N), NEW n, n = probe_pcb(x, m, k)
    PROVE  Done(m, n, PcbOrder[k], S, N)
<1>0. PICK p \in Pcbs : p = PcbOrder[k]
  OBVIOUS
<1>1. CASE ~m.pcbs[p].up
  <2>1. n = m
    BY <1>0, <1>1 DEF probe_pcb
  <2>2. Others(m, m, p)
    BY DEF Others, Elsewhere
  <2> QED
    BY <1>0, <1>1, <2>1, <2>2 DEF Done, Ready
<1>2. CASE m.pcbs[p].up
  <2>1. PICK a : a = IF x.clear THEN setPcb(m, p, Unlisted(m.pcbs[p])) ELSE m
    OBVIOUS
  <2>2. PICK svcs \in SUBSET Services, ip \in BOOLEAN, delay \in Nat :
            svcs = x.services /\ ip = x.ip /\ delay = x.delay[p]
    OBVIOUS
  <2>3. n = init_pcb_probe(a, p, svcs, ip, delay)
    BY <1>0, <1>2, <2>1, <2>2 DEF probe_pcb, Unlisted
  <2>4. /\ a \in Servers /\ Others(m, a, p) /\ a.wire = m.wire
        /\ a.pcbs[p].up = m.pcbs[p].up
    <3>1. CASE ~x.clear
      BY <2>1, <3>1 DEF Others, Elsewhere
    <3>2. CASE x.clear
      <4>1. PICK r : r = Unlisted(m.pcbs[p])
        OBVIOUS
      <4>2. r \in PcbStates /\ r.up = m.pcbs[p].up
        BY <4>1, ServerFields, UnlistedOk
      <4>3. a = setPcb(m, p, r)
        BY <2>1, <3>2, <4>1
      <4> QED
        BY <4>2, <4>3, NewPcb
    <3> QED
      BY <3>1, <3>2
  <2>5. MayProbe(a, p, svcs, ip, S, N)
    BY <1>0, <1>2, <2>1, <2>2 DEF Ready
  <2>6. Done(a, n, p, S, N)
    <3>1. withIp(svcs, ip) # {}
      BY <2>2
    <3> QED
      BY <2>3, <2>4, <2>5, <3>1, InitProbe
  <2> QED
    BY <1>0, <2>4, <2>6, OthersTrans DEF Done
<1> QED
  BY <1>1, <1>2

(* The loops visit every PCB, once.                                         *)
LEMMA Visits ==
    /\ Len(PcbOrder) \in Nat
    /\ \A k \in 1 .. Len(PcbOrder) : PcbOrder[k] \in Pcbs
    /\ \A p \in Pcbs : \E k \in 1 .. Len(PcbOrder) : p = PcbOrder[k]
    /\ \A j, k \in 1 .. Len(PcbOrder) : PcbOrder[j] = PcbOrder[k] => j = k
<1>1. PcbOrder \in Seq({"STA", "AP", "ETH"} \X {"V4", "V6"}) /\ IsInjective(PcbOrder)
  BY MdnsAssumption
<1>2. Len(PcbOrder) \in Nat /\ DOMAIN PcbOrder = 1 .. Len(PcbOrder)
  BY <1>1, LenProperties
<1> QED
  BY <1>1, <1>2 DEF Pcbs, ToSet, IsInjective

LEMMA PcbPairs ==
    ASSUME NEW p \in Pcbs
    PROVE  p \in {"STA", "AP", "ETH"} \X {"V4", "V6"}
<1>1. PcbOrder \in Seq({"STA", "AP", "ETH"} \X {"V4", "V6"})
  BY MdnsAssumption
<1>2. PICK k \in 1 .. Len(PcbOrder) : p = PcbOrder[k]
  BY Visits
<1> QED
  BY <1>1, <1>2, ElementOfSeq

ProbeRounds == INSTANCE LoopProofs WITH Step <- probe_pcb, Good <- probe_pcb

LEMMA ProbeAll ==
    ASSUME toWrap \in Nat, NEW m \in Servers, NEW svcs \in SUBSET Services,
           NEW ip \in BOOLEAN, NEW clear, withIp(svcs, ip) # {}, NEW delay \in [Pcbs -> Nat],
           NEW S, NEW N \in SUBSET Names,
           \A p \in Pcbs : Ready(m, p, svcs, ip, clear, S, N),
           NEW n, n = probe_all_pcbs(m, svcs, ip, clear, delay)
    PROVE  Handled(m, n, S, N)
<1> DEFINE L == Len(PcbOrder)
           x == [services |-> svcs, ip |-> ip, clear |-> clear, delay |-> delay]
           P(i, y) == /\ y.hostname = m.hostname /\ y.wire = m.wire /\ Opens(m, y)
                      /\ \A k \in 1 .. L :
                             IF k =< i THEN PcbOk(y, PcbOrder[k], S, N)
                             ELSE Ready(y, PcbOrder[k], svcs, ip, clear, S, N)
           G == {z \in (0 .. L) \X Servers : P(z[1], z[2])}
<1>0. /\ L \in Nat /\ (\A k \in 1 .. L : PcbOrder[k] \in Pcbs)
      /\ (\A p \in Pcbs : \E k \in 1 .. L : p = PcbOrder[k])
      /\ (\A j, k \in 1 .. L : PcbOrder[j] = PcbOrder[k] => j = k)
  BY Visits
<1>1. x.services = svcs /\ x.ip = ip /\ x.clear = clear /\ x.delay = delay
  OBVIOUS
<1>2. n = probed!loop(x, m, L)
  BY DEF probe_all_pcbs
<1> HIDE DEF x, L
<1>3. P(0, m)
  <2>1. Opens(m, m)
    BY DEF Opens
  <2>2. \A k \in 1 .. L : ~(k =< 0)
    BY <1>0
  <2> QED
    BY <1>0, <2>1, <2>2
<1>4. ASSUME NEW i \in 1 .. L, NEW y \in Servers, P(i - 1, y),
             NEW z, z = probe_pcb(x, y, i)
      PROVE  z \in Servers /\ P(i, z)
  <2>0. i \in Nat /\ ~(i =< i - 1)
    BY <1>0
  <2>1. Ready(y, PcbOrder[i], svcs, ip, clear, S, N)
    BY <1>4, <2>0
  <2>2. PICK p \in Pcbs : p = PcbOrder[i]
    BY <1>0
  <2>3. Done(y, z, p, S, N)
    BY <1>1, <1>4, <2>1, <2>2, ProbeNext
  <2>4. /\ z \in Servers /\ z.wire = y.wire /\ Others(y, z, p)
        /\ (y.pcbs[p].up => z.pcbs[p].up) /\ PcbOk(z, p, S, N)
    BY <2>3 DEF Done
  <2>5. z.hostname = y.hostname /\ Opens(y, z)
    BY <2>4 DEF Others, Opens
  <2>6. Opens(m, z)
    BY <1>4, <2>5 DEF Opens
  <2>7. ASSUME NEW k \in 1 .. L
        PROVE  IF k =< i THEN PcbOk(z, PcbOrder[k], S, N)
               ELSE Ready(z, PcbOrder[k], svcs, ip, clear, S, N)
    <3>1. CASE k = i
      BY <2>0, <2>2, <2>4, <3>1
    <3>2. CASE k < i
      <4>1. k =< i - 1 /\ k =< i /\ PcbOrder[k] # p /\ PcbOrder[k] \in Pcbs
        BY <1>0, <2>0, <2>2, <3>2
      <4>2. PcbOk(y, PcbOrder[k], S, N)
        BY <1>4, <4>1
      <4> QED
        BY <2>4, <4>1, <4>2, OthersOk
    <3>3. CASE k > i
      <4>1. ~(k =< i - 1) /\ ~(k =< i) /\ PcbOrder[k] # p /\ PcbOrder[k] \in Pcbs
        BY <1>0, <2>0, <2>2, <3>3
      <4>2. Ready(y, PcbOrder[k], svcs, ip, clear, S, N)
        BY <1>4, <4>1
      <4> QED
        BY <2>4, <4>1, <4>2, ReadyElsewhere
    <3>4. k = i \/ k < i \/ k > i
      BY <1>0
    <3> QED
      BY <3>1, <3>2, <3>3, <3>4
  <2> QED
    BY <1>4, <2>4, <2>5, <2>6, <2>7
<1>5. <<0, m>> \in G
  BY <1>0, <1>3
<1>6. ASSUME NEW i \in 1 .. L, NEW y, <<i - 1, y>> \in G PROVE <<i, probe_pcb(x, y, i)>> \in G
  <2>1. y \in Servers /\ P(i - 1, y)
    BY <1>6
  <2>2. PICK z : z = probe_pcb(x, y, i)
    OBVIOUS
  <2>3. z \in Servers /\ P(i, z)
    BY <1>4, <2>1, <2>2
  <2>4. i \in 0 .. L
    BY <1>0
  <2> QED
    BY <2>2, <2>3, <2>4
<1> HIDE DEF G
<1>7. <<L, ProbeRounds!loop(x, m, L)>> \in G
  BY <1>0, <1>5, <1>6, ProbeRounds!LoopStays
<1>8. n = ProbeRounds!loop(x, m, L)
  BY <1>2 DEF ProbeRounds!loop, probed!loop
<1>9. n \in Servers /\ P(L, n)
  BY <1>7, <1>8 DEF G
<1>10. ASSUME NEW p \in Pcbs PROVE PcbOk(n, p, S, N)
  BY <1>0, <1>9
<1> QED
  BY <1>9, <1>10 DEF Handled, Fine

(* A PCB that was as it should be may probe for more names, or again for    *)
(* some it lost.                                                            *)
LEMMA MayProbeAgain ==
    ASSUME NEW m \in Servers, NEW p \in Pcbs, NEW svcs, NEW ip, NEW S, NEW T, NEW M,
           NEW N \in SUBSET Names, PcbOk(m, p, S, M), NoLateConflict => m.pcbs[p].up,
           S \subseteq T, svcs \subseteq T, N \subseteq M \cup withIp(svcs, ip)
    PROVE  MayProbe(m, p, svcs, ip, T, N)
<1>1. Unnamed(m, p)
  BY DEF PcbOk
<1>2. ASSUME NoLateConflict
      PROVE  m.pcbs[p].up /\ m.pcbs[p].services \subseteq T /\ svcs \subseteq T
  BY <1>2 DEF PcbOk, PointersOk
<1>3. ASSUME NoLateConflict, m.hostname, NEW n \in N
      PROVE  n \in Wanted(m.pcbs[p], svcs, ip) \/ Settled(m.probes[p][n])
  <2>1. CASE n \in withIp(svcs, ip)
    BY <2>1 DEF Wanted, withIp
  <2>2. CASE n \in M
    <3>1. NameOk(m.pcbs[p], n, m.probes[p][n])
      BY <1>2, <1>3, <2>2 DEF PcbOk, NamesOk
    <3>2. CASE Probing(m.pcbs[p]) /\ n \in Listed(m.pcbs[p])
      <4>1. m.pcbs[p].state \in 0 .. 9
        BY ServerFields DEF PcbStates
      <4>2. PCB_STATE_IS_PROBING(m.pcbs[p])
        BY <3>2, <4>1
           DEF Probing, PCB_STATE_IS_PROBING, PCB_PROBE_1, PCB_PROBE_3, PCB_OFF, PCB_ANNOUNCE_1
      <4> QED
        BY <3>2, <4>2 DEF Wanted, Listed, withIp
    <3> QED
      BY <3>1, <3>2 DEF NameOk
  <2> QED
    BY <2>1, <2>2
<1> QED
  BY <1>1, <1>2, <1>3 DEF MayProbe

LEMMA PcbMore ==
    ASSUME NEW m, NEW p, NEW S, NEW T, NEW M, NEW N, PcbOk(m, p, S, M), S \subseteq T,
           N \subseteq M \/ ~m.pcbs[p].up
    PROVE  PcbOk(m, p, T, N)
<1>1. NoLateConflict => PointersOk(m, p, T)
  BY DEF PcbOk, PointersOk
<1>2. NoLateConflict => NamesOk(m, p, N)
  BY DEF PcbOk, NamesOk
<1> QED
  BY <1>1, <1>2 DEF PcbOk

LEMMA FineMore ==
    ASSUME NEW m, NEW S, NEW T, NEW M, NEW N, Fine(m, S, M), S \subseteq T, N \subseteq M
    PROVE  Fine(m, T, N)
<1>1. ASSUME NEW p \in Pcbs PROVE PcbOk(m, p, T, N)
  <2>1. PcbOk(m, p, S, M)
    BY DEF Fine
  <2> QED
    BY <2>1, PcbMore
<1> QED
  BY <1>1 DEF Fine

LEMMA ReadyJoin ==
    ASSUME NEW m, NEW svcs, NEW ip, NEW S, NEW T, NEW M, NEW N \in SUBSET Names,
           Fine(m, S, M), S \subseteq T, svcs \subseteq T, N \subseteq M \cup withIp(svcs, ip)
    PROVE  \A p \in Pcbs : Ready(m, p, svcs, ip, FALSE, T, N)
<1> SUFFICES ASSUME NEW p \in Pcbs PROVE Ready(m, p, svcs, ip, FALSE, T, N)
  OBVIOUS
<1>1. m \in Servers /\ PcbOk(m, p, S, M)
  BY DEF Fine
<1>2. CASE ~m.pcbs[p].up
  BY <1>1, <1>2, PcbMore DEF Ready
<1>3. CASE m.pcbs[p].up
  <2>1. MayProbe(m, p, svcs, ip, T, N)
    BY <1>1, <1>3, MayProbeAgain
  <2> QED
    BY <1>3, <2>1 DEF Ready
<1> QED
  BY <1>2, <1>3

(* Histories: a name is forgotten, a probe failed.                          *)
LEMMA ForgetOk ==
    ASSUME NEW m, NEW ps, NEW ns, NEW S, NEW N \in SUBSET Names, Fine(m, S, N),
           NEW n, n = forget(m, ps, ns)
    PROVE  /\ Fine(n, S, N \ ns) /\ n.hostname = m.hostname /\ n.wire = m.wire
           /\ n.pcbs = m.pcbs /\ n.txq = m.txq
<1> DEFINE c == [p \in Pcbs |-> [a \in Names |-> IF p \in ps /\ a \in ns THEN 0 ELSE m.probes[p][a]]]
<1>1. m \in Servers /\ m.probes \in [Pcbs -> [Names -> 0 .. 4]]
  BY ServerFields DEF Fine, Counts
<1>2. c \in Counts /\ \A p \in Pcbs : \A a \in Names \ ns : c[p][a] = m.probes[p][a]
  BY <1>1 DEF Counts
<1>3. n = [m EXCEPT !.probes = c]
  BY <1>1 DEF forget, Servers
<1> HIDE DEF c
<1>4. /\ n \in Servers /\ n.hostname = m.hostname /\ n.wire = m.wire
      /\ n.pcbs = m.pcbs /\ n.txq = m.txq /\ n.probes = c
  BY <1>1, <1>2, <1>3 DEF Servers
<1>5. ASSUME NEW p \in Pcbs PROVE PcbOk(n, p, S, N \ ns)
  <2>1. PcbOk(m, p, S, N)
    BY DEF Fine
  <2>2. OpenOk(n, p) /\ Unnamed(n, p)
    BY <1>4, <2>1 DEF PcbOk, OpenOk, Unnamed, ProbeOk, ListOk, AnnounceOk
  <2>3. NoLateConflict => PointersOk(n, p, S)
    BY <1>4, <2>1 DEF PcbOk, PointersOk
  <2>4. NoLateConflict => NamesOk(n, p, N \ ns)
    BY <1>2, <1>4, <2>1 DEF PcbOk, NamesOk
  <2> QED
    BY <2>2, <2>3, <2>4 DEF PcbOk
<1> QED
  BY <1>4, <1>5 DEF Fine

LEMMA FailedOk ==
    ASSUME NEW m, NEW p \in Pcbs, NEW S, NEW N, Fine(m, S, N), NEW n, n = failedProbe(m, p)
    PROVE  Handled(m, n, S, N)
<1> DEFINE f == IF m.pcbs[p].failed =< FailedLimit THEN m.pcbs[p].failed + 1
                ELSE m.pcbs[p].failed
           r == [m.pcbs[p] EXCEPT !.failed = f]
<1>1. m \in Servers /\ m.pcbs[p] \in PcbStates /\ PcbOk(m, p, S, N)
  BY ServerFields DEF Fine
<1>2. n = setPcb(m, p, r)
  BY <1>1 DEF failedProbe, setPcb, Servers
<1>3. f \in Nat
  BY <1>1 DEF PcbStates
<1> HIDE DEF f
<1>4. /\ r \in PcbStates /\ r.up = m.pcbs[p].up /\ r.state = m.pcbs[p].state
      /\ r.services = m.pcbs[p].services /\ r.ip = m.pcbs[p].ip
      /\ r.running = m.pcbs[p].running
  BY <1>1, <1>3 DEF PcbStates
<1> HIDE DEF r
<1>5. /\ n \in Servers /\ n.txq = m.txq /\ n.hostname = m.hostname
      /\ n.pcbs[p] = r /\ n.probes = m.probes /\ n.wire = m.wire
      /\ Others(m, n, p)
  BY <1>1, <1>2, <1>4, NewPcb
<1>6. Listed(r) = Listed(m.pcbs[p])
  BY <1>4 DEF Listed
<1>7. OpenOk(n, p) /\ Unnamed(n, p)
  BY <1>1, <1>4, <1>5, <1>6
     DEF PcbOk, OpenOk, Unnamed, ProbeOk, ListOk, AnnounceOk, Probing, PCB_STATE_IS_ANNOUNCING
<1>8. NoLateConflict => PointersOk(n, p, S) /\ NamesOk(n, p, N)
  BY <1>1, <1>4, <1>5, <1>6 DEF PcbOk, PointersOk, NamesOk, NameOk, Probing
<1>9. Done(m, n, p, S, N)
  BY <1>4, <1>5, <1>7, <1>8 DEF Done, PcbOk
<1> QED
  BY <1>9, DoneAll

--------------------------------------------------------------------------------
(* Restarts.  All names are probed for again, whatever was known of them.   *)
LEMMA RestartAll ==
    ASSUME toWrap \in Nat, services \subseteq Services, NEW m, NEW delay \in [Pcbs -> Nat],
           Fine(m, services, {}), NEW n, n = restart_all_pcbs(m, delay)
    PROVE  Handled(m, n, services, services \cup {Host})
<1>0. PICK S \in SUBSET Services, N \in SUBSET Names : S = services /\ N = services \cup {Host}
  BY DEF Names
<1>1. PICK a : a = [m EXCEPT !.txq = <<>>]
  OBVIOUS
<1>2. m \in Servers /\ <<>> \in Seq(Packets)
  BY EmptySeq DEF Fine
<1>3. /\ a \in Servers /\ a.txq = <<>> /\ a.hostname = m.hostname
      /\ a.pcbs = m.pcbs /\ a.probes = m.probes /\ a.wire = m.wire
  BY <1>1, <1>2 DEF Servers
<1>4. n = probe_all_pcbs(a, S, TRUE, TRUE, delay)
  BY <1>0, <1>1 DEF restart_all_pcbs
<1>5. ASSUME NEW p \in Pcbs PROVE Ready(a, p, S, TRUE, TRUE, S, N)
  <2>1. PcbOk(m, p, S, {}) /\ m.pcbs[p] \in PcbStates
    BY <1>0, ServerFields DEF Fine
  <2>2. CASE ~a.pcbs[p].up
    <3>1. Of(a.txq, p) = {}
      BY <1>3 DEF Of
    <3>2. OpenOk(a, p) /\ Unnamed(a, p)
      BY <1>3, <2>1, <2>2 DEF PcbOk, OpenOk, Unnamed
    <3>3. NoLateConflict => PointersOk(a, p, S) /\ NamesOk(a, p, N)
      BY <1>3, <2>1, <2>2, <3>1 DEF PcbOk, PointersOk, NamesOk
    <3> QED
      BY <2>2, <3>2, <3>3 DEF PcbOk, Ready
  <2>3. CASE a.pcbs[p].up
    <3>1. PICK r : r = Unlisted(a.pcbs[p])
      OBVIOUS
    <3>2. r \in PcbStates /\ r.services = {} /\ r.up = a.pcbs[p].up
      BY <1>3, <2>1, <3>1, UnlistedOk
    <3>3. PICK b : b = setPcb(a, p, r)
      OBVIOUS
    <3>4. b.hostname = a.hostname /\ b.pcbs[p] = r
      BY <1>3, <3>2, <3>3, NewPcb
    <3>5. \A k \in N : k \in Wanted(r, S, TRUE)
      BY <1>0 DEF Wanted, withIp
    <3>6. MayProbe(b, p, S, TRUE, S, N)
      BY <2>3, <3>2, <3>4, <3>5 DEF MayProbe, Unnamed
    <3> QED
      BY <2>3, <3>1, <3>3, <3>6 DEF Ready
  <2> QED
    BY <2>2, <2>3
<1>6. withIp(S, TRUE) # {}
  BY DEF withIp
<1>7. Handled(a, n, S, N)
  BY <1>3, <1>4, <1>5, <1>6, ProbeAll
<1> QED
  BY <1>0, <1>3, <1>7 DEF Handled, Opens

(* The services without a name of their own are probed for again.  Of the   *)
(* others, those whose probing is given up are marked.                      *)
(* What is left of the names N after the probing was cut short.             *)
HalfProbed(m, n, N) ==
    \A p \in Pcbs : \A a \in N :
        NoLateConflict /\ m.hostname /\ m.pcbs[p].up
            => a \in withoutInstance \/ (a = Host /\ m.pcbs[p].ip) \/ Settled(n.probes[p][a])

LEMMA CutShortOk ==
    ASSUME NEW m, NEW S, NEW M, NEW N \in SUBSET Names, Fine(m, S, M),
           N \subseteq M \cup withoutInstance, NEW n, n = cut_short(m)
    PROVE  /\ n \in Servers /\ n.hostname = m.hostname /\ n.wire = m.wire
           /\ n.pcbs = m.pcbs /\ n.txq = m.txq
           /\ HalfProbed(m, n, N)
<1> DEFINE cut(p, a) == /\ m.pcbs[p].up /\ a \in m.pcbs[p].services \ withoutInstance
                        /\ m.probes[p][a] < 3
           c == [p \in Pcbs |-> [a \in Names |-> IF cut(p, a) THEN CutShort ELSE m.probes[p][a]]]
<1>1. m \in Servers /\ m.probes \in [Pcbs -> [Names -> 0 .. 4]]
  BY ServerFields DEF Fine, Counts
<1>2. /\ c \in Counts
      /\ \A p \in Pcbs : \A a \in Names :
             c[p][a] = IF cut(p, a) THEN CutShort ELSE m.probes[p][a]
  BY <1>1 DEF Counts, CutShort
<1>3. n = [m EXCEPT !.probes = c]
  BY <1>1 DEF cut_short, Servers
<1> HIDE DEF c
<1>4. /\ n \in Servers /\ n.hostname = m.hostname /\ n.wire = m.wire
      /\ n.pcbs = m.pcbs /\ n.txq = m.txq /\ n.probes = c
  BY <1>1, <1>2, <1>3 DEF Servers
<1>5. ASSUME NEW p \in Pcbs, NEW a \in N, NoLateConflict, m.hostname, m.pcbs[p].up
      PROVE  \/ a \in withoutInstance \/ (a = Host /\ m.pcbs[p].ip)
             \/ Settled(n.probes[p][a])
  <2>0. SUFFICES ASSUME a \notin withoutInstance, ~(a = Host /\ m.pcbs[p].ip)
                 PROVE  Settled(n.probes[p][a])
    OBVIOUS
  <2>1. NameOk(m.pcbs[p], a, m.probes[p][a])
    BY <1>5, <2>0 DEF Fine, PcbOk, NamesOk
  <2>2. m.probes[p][a] \in 0 .. 4 /\ a \in Names
    BY <1>1
  <2>3. CASE a \in m.pcbs[p].services
    <3>1. n.probes[p][a] = CutShort \/ (n.probes[p][a] = m.probes[p][a] /\ ~(m.probes[p][a] < 3))
      BY <1>2, <1>4, <1>5, <2>0, <2>2, <2>3
    <3> QED
      BY <2>2, <3>1 DEF Settled, CutShort
  <2>4. CASE a \notin m.pcbs[p].services
    <3>1. a \notin Listed(m.pcbs[p])
      BY <2>0, <2>4 DEF Listed, withIp
    <3>2. Settled(m.probes[p][a])
      BY <2>1, <3>1 DEF NameOk
    <3>3. n.probes[p][a] = m.probes[p][a]
      BY <1>2, <1>4, <2>2, <2>4
    <3> QED
      BY <3>2, <3>3
  <2> QED
    BY <2>3, <2>4
<1>6. HalfProbed(m, n, N)
  BY <1>5 DEF HalfProbed
<1> QED
  BY <1>4, <1>6

LEMMA RestartSome ==
    ASSUME toWrap \in Nat, services \subseteq Services, NEW m, NEW delay \in [Pcbs -> Nat],
           Fine(m, services, (services \cup {Host}) \ withoutInstance),
           NEW n, n = restart_all_pcbs_no_instance(m, delay)
    PROVE  Handled(m, n, services, services \cup {Host})
<1>0. PICK S \in SUBSET Services, N \in SUBSET Names, svcs \in SUBSET Services :
          S = services /\ N = services \cup {Host} /\ svcs = withoutInstance
  BY DEF Names, withoutInstance
<1>1. CASE withoutInstance = {}
  <2>1. n = m
    BY <1>1 DEF restart_all_pcbs_no_instance
  <2>2. (services \cup {Host}) \ withoutInstance = services \cup {Host}
    BY <1>1
  <2> QED
    BY <2>1, <2>2 DEF Handled, Opens
<1>2. CASE withoutInstance # {}
  <2>1. PICK a : a = cut_short(m)
    OBVIOUS
  <2>2. n = probe_all_pcbs(a, svcs, FALSE, TRUE, delay)
    BY <1>0, <1>2, <2>1 DEF restart_all_pcbs_no_instance
  <2>3. /\ a \in Servers /\ a.hostname = m.hostname /\ a.wire = m.wire
        /\ a.pcbs = m.pcbs /\ a.txq = m.txq
        /\ HalfProbed(m, a, N)
    <3>1. N \subseteq (N \ withoutInstance) \cup withoutInstance
      OBVIOUS
    <3>2. Fine(m, S, N \ withoutInstance)
      BY <1>0
    <3>3. PICK K \in SUBSET Names : K = N \ withoutInstance
      OBVIOUS
    <3>4. Fine(m, S, K) /\ N \subseteq K \cup withoutInstance
      BY <3>1, <3>2, <3>3
    <3> QED
      BY <2>1, <3>4, CutShortOk
  <2>4. ASSUME NEW p \in Pcbs PROVE Ready(a, p, svcs, FALSE, TRUE, S, N)
    <3>1. PcbOk(m, p, S, N \ withoutInstance) /\ m \in Servers /\ m.pcbs[p] \in PcbStates
      BY <1>0, ServerFields DEF Fine
    <3>2. CASE ~a.pcbs[p].up
      <4>1. OpenOk(a, p) /\ Unnamed(a, p)
        BY <2>3, <3>1, <3>2 DEF PcbOk, OpenOk, Unnamed
      <4>2. NoLateConflict => PointersOk(a, p, S) /\ NamesOk(a, p, N)
        BY <2>3, <3>1, <3>2 DEF PcbOk, PointersOk, NamesOk
      <4> QED
        BY <3>2, <4>1, <4>2 DEF PcbOk, Ready
    <3>3. CASE a.pcbs[p].up
      <4>1. PICK r : r = Unlisted(a.pcbs[p])
        OBVIOUS
      <4>2. r \in PcbStates /\ r.services = {} /\ r.up = a.pcbs[p].up /\ r.ip = m.pcbs[p].ip
        BY <2>3, <3>1, <4>1, UnlistedOk
      <4>3. PICK b : b = setPcb(a, p, r)
        OBVIOUS
      <4>4. b.hostname = a.hostname /\ b.pcbs[p] = r /\ b.probes = a.probes
        BY <2>3, <4>2, <4>3, NewPcb
      <4>5. ASSUME NoLateConflict, b.hostname, NEW k \in N
            PROVE  k \in Wanted(r, svcs, FALSE) \/ Settled(b.probes[p][k])
        <5>1. k \in withoutInstance \/ (k = Host /\ m.pcbs[p].ip) \/ Settled(a.probes[p][k])
          BY <2>3, <3>3, <4>4, <4>5 DEF HalfProbed
        <5> QED
          BY <1>0, <4>2, <4>4, <5>1 DEF Wanted, withIp
      <4>6. svcs \subseteq S
        BY <1>0 DEF withoutInstance
      <4>7. MayProbe(b, p, svcs, FALSE, S, N)
        BY <3>3, <4>2, <4>4, <4>5, <4>6 DEF MayProbe, Unnamed
      <4> QED
        BY <3>3, <4>1, <4>3, <4>7 DEF Ready
    <3> QED
      BY <3>2, <3>3
  <2>5. withIp(svcs, FALSE) # {}
    BY <1>0, <1>2 DEF withIp
  <2>6. Handled(a, n, S, N)
    BY <2>2, <2>3, <2>4, <2>5, ProbeAll
  <2> QED
    BY <1>0, <2>3, <2>6 DEF Handled, Opens
<1> QED
  BY <1>1, <1>2

--------------------------------------------------------------------------------
(* Announcing.  A PCB past its probes, and what its packets may hold.       *)
LEMMA PastProbes ==
    ASSUME NEW m \in Servers, NEW n \in Servers, NEW p \in Pcbs, NEW S, NEW N,
           PcbOk(m, p, S, N), m.pcbs[p].up, m.pcbs[p].state > PCB_PROBE_3,
           n.pcbs[p].up, n.pcbs[p].state > PCB_PROBE_3, n.pcbs[p].services = {},
           n.hostname = m.hostname, n.probes[p] = m.probes[p],
           \A q \in Of(n.txq, p) : q.questions = {} /\ q.servers = {},
           NoLateConflict => \A q \in Of(n.txq, p) : q.answers \subseteq S \cup {Host},
           PCB_STATE_IS_ANNOUNCING(n.pcbs[p]) => AnnounceOk(n, p)
    PROVE  PcbOk(n, p, S, N)
<1>1. m.pcbs[p].state \in 0 .. 9 /\ n.pcbs[p].state \in 0 .. 9
  BY ServerFields DEF PcbStates
<1>2. ~Probing(m.pcbs[p]) /\ ~Probing(n.pcbs[p]) /\ n.pcbs[p].state >= PCB_PROBE_1
  BY <1>1 DEF Probing, PCB_PROBE_1, PCB_PROBE_3
<1>3. OpenOk(n, p) /\ Unnamed(n, p)
  BY <1>2 DEF OpenOk, Unnamed, ListOk
<1>4. NoLateConflict => PointersOk(n, p, S)
  BY DEF PointersOk
<1>5. NoLateConflict => NamesOk(n, p, N)
  BY <1>2 DEF PcbOk, NamesOk, NameOk
<1> QED
  BY <1>3, <1>4, <1>5 DEF PcbOk

Telling(m, p, l) == [packet(m, p) EXCEPT !.answers = l]

LEMMA TellingOk ==
    ASSUME NEW m \in Servers, NEW p \in Pcbs, NEW l \in SUBSET Names, NEW x, x = Telling(m, p, l)
    PROVE  /\ x \in Packets /\ x.pcb = p /\ x.questions = {} /\ x.servers = {}
           /\ x.answers = l /\ ~x.distributed
<1>1. PICK a : a = packet(m, p)
  OBVIOUS
<1>2. /\ a \in Packets /\ a.pcb = p /\ a.questions = {} /\ a.servers = {} /\ ~a.distributed
  BY <1>1, PacketOk
<1>3. x = [a EXCEPT !.answers = l]
  BY <1>1 DEF Telling
<1> QED
  BY <1>2, <1>3 DEF Packets

LEMMA AnnouncePcb ==
    ASSUME toWrap \in Nat, NEW m \in Servers, NEW p \in Pcbs, NEW svcs \in SUBSET Services,
           NEW ip \in BOOLEAN, withIp(svcs, ip) # {}, NEW delay \in Nat, NEW S,
           NEW N \in SUBSET Names, svcs \subseteq S, PcbOk(m, p, S, N),
           NEW n, n = announce_pcb(m, p, svcs, ip, delay)
    PROVE  Done(m, n, p, S, N)
<1>0. /\ m.pcbs[p] \in PcbStates /\ m.pcbs[p].state \in 0 .. 9 /\ m.txq \in Seq(Packets)
      /\ Len(m.txq) \in Nat
  BY ServerFields, LenProperties DEF PcbStates
<1>1. PICK k : k = get_next_pcb_packet(m, p)
  OBVIOUS
<1>2. PICK l \in SUBSET Names : l = withIp(svcs, ip)
  BY DEF withIp, Names
<1>3. CASE n = m
  <2>1. Others(m, m, p)
    BY DEF Others, Elsewhere
  <2> QED
    BY <1>3, <2>1 DEF Done
<1>4. CASE m.pcbs[p].up /\ PCB_STATE_IS_PROBING(m.pcbs[p])
  <2>0. ~PCB_STATE_IS_ANNOUNCING(m.pcbs[p]) /\ m.pcbs[p].state # PCB_RUNNING
    BY <1>0, <1>4 DEF PCB_STATE_IS_PROBING, PCB_STATE_IS_ANNOUNCING, PCB_PROBE_3,
                      PCB_ANNOUNCE_1, PCB_RUNNING
  <2>1. n = init_pcb_probe(m, p, svcs, ip, delay)
    BY <1>4, <2>0 DEF announce_pcb
  <2>2. MayProbe(m, p, svcs, ip, S, N)
    BY <1>4, MayProbeAgain
  <2> QED
    BY <2>1, <2>2, InitProbe
<1>5. CASE m.pcbs[p].up /\ PCB_STATE_IS_ANNOUNCING(m.pcbs[p]) /\ k # 0
  <2> DEFINE q == m.txq[k]
             b == [q EXCEPT !.answers = q.answers \cup l]
             y == [b EXCEPT !.additional = IF ip THEN q.additional \ {Host} ELSE q.additional]
             r == [m.pcbs[p] EXCEPT !.state = PCB_ANNOUNCE_1]
             t == [m.txq EXCEPT ![k] = y]
  <2>1. k \in 1 .. Len(m.txq) /\ q.pcb = p /\ q \in Packets
    <3>1. PICK K : K = packetsOf(m, p)
      OBVIOUS
    <3>2. K \in SUBSET (1 .. Len(m.txq))
      BY <3>1 DEF packetsOf
    <3>3. k \in K
      BY <1>0, <1>1, <1>5, <3>1, <3>2, FirstOf DEF get_next_pcb_packet
    <3>4. k \in 1 .. Len(m.txq) /\ q.pcb = p
      BY <3>1, <3>3 DEF packetsOf
    <3> QED
      BY <1>0, <3>4, ElementOfSeq
  <2>2. PICK a : a = [m EXCEPT !.txq = t]
    OBVIOUS
  <2>3. n = setPcb(a, p, r)
    <3>1. ~PCB_STATE_IS_PROBING(m.pcbs[p]) /\ m.pcbs[p].state # PCB_RUNNING
      BY <1>0, <1>5 DEF PCB_STATE_IS_PROBING, PCB_STATE_IS_ANNOUNCING, PCB_PROBE_3,
                        PCB_ANNOUNCE_1, PCB_RUNNING
    <3>2. n = join_announcement(m, p, k, svcs, ip)
      BY <1>1, <1>5, <3>1 DEF announce_pcb
    <3>3. y = [q EXCEPT !.answers = alloc_answer(q.answers, l),
                        !.additional = IF ip THEN dealloc_answer(q.additional, Host)
                                       ELSE q.additional]
      BY <2>1 DEF alloc_answer, dealloc_answer, Packets
    <3> HIDE DEF y
    <3>4. a = [m EXCEPT !.txq[k] = y]
      BY <2>2
    <3>5. a.pcbs = m.pcbs
      BY <2>2 DEF Servers
    <3> QED
      BY <1>2, <3>2, <3>3, <3>4, <3>5 DEF join_announcement, setState
  <2>4. /\ y \in Packets /\ y.pcb = p /\ y.questions = q.questions /\ y.servers = q.servers
        /\ y.answers = q.answers \cup l /\ y.distributed = q.distributed
    <3>1. /\ b \in Packets /\ b.pcb = p /\ b.questions = q.questions /\ b.servers = q.servers
          /\ b.answers = q.answers \cup l /\ b.distributed = q.distributed
      BY <2>1 DEF Packets
    <3>2. q.additional \in SUBSET Names
      BY <2>1 DEF Packets
    <3> HIDE DEF b, q
    <3> QED
      BY <3>1, <3>2 DEF Packets
  <2> HIDE DEF y
  <2>5. r \in PcbStates /\ r.up = m.pcbs[p].up /\ r.services = m.pcbs[p].services
        /\ r.state = PCB_ANNOUNCE_1
    BY <1>0 DEF PcbStates, PCB_ANNOUNCE_1
  <2> HIDE DEF r
  <2>6. /\ t \in Seq(Packets) /\ Elsewhere(m.txq, t, p) /\ y \in Of(t, p)
        /\ \A z \in Of(t, p) : z = y \/ z \in Of(m.txq, p)
        /\ \A z \in Of(m.txq, p) : z = q \/ z \in Of(t, p)
    <3>1. /\ t \in Seq(Packets) /\ Len(t) = Len(m.txq) /\ t[k] = y
          /\ \A i \in 1 .. Len(m.txq) : i # k => t[i] = m.txq[i]
      BY <1>0, <2>1, <2>4, ExceptSeq
    <3> HIDE DEF t
    <3>2. Replaced(m.txq, k, y, t)
      BY <1>0, <2>1, <2>4, <3>1, ReplacedIn
    <3> QED
      BY <2>4, <3>1, <3>2 DEF Replaced
  <2> HIDE DEF t
  <2>7. /\ a \in Servers /\ a.txq = t /\ a.hostname = m.hostname
        /\ a.pcbs = m.pcbs /\ a.probes = m.probes /\ a.wire = m.wire
    BY <2>2, <2>6, NewQueue
  <2>8. /\ n \in Servers /\ n.txq = a.txq /\ n.hostname = a.hostname
        /\ n.pcbs[p] = r /\ n.probes = a.probes /\ n.wire = a.wire
        /\ Others(a, n, p)
    BY <2>3, <2>5, <2>7, NewPcb
  <2>9. Others(m, n, p)
    <3>1. Others(m, a, p)
      BY <2>6, <2>7 DEF Others
    <3> QED
      BY <2>8, <3>1, OthersTrans
  <2>10. m.pcbs[p].state > PCB_PROBE_3 /\ r.state > PCB_PROBE_3
    BY <1>5, <2>5 DEF PCB_STATE_IS_ANNOUNCING, PCB_PROBE_3, PCB_ANNOUNCE_1
  <2>11. ListOk(m, p) /\ AnnounceOk(m, p)
    BY <1>5, <2>10 DEF PcbOk, OpenOk
  <2>12. q \in Of(m.txq, p)
    BY <1>0, <2>1, OfMember
  <2>13. \A z \in Of(n.txq, p) : z.questions = {} /\ z.servers = {}
    BY <2>4, <2>6, <2>7, <2>8, <2>11, <2>12 DEF ListOk
  <2>14. ASSUME NoLateConflict, NEW z \in Of(n.txq, p) PROVE z.answers \subseteq S \cup {Host}
    <3>1. \A w \in Of(m.txq, p) : w.answers \subseteq S \cup {Host}
      BY <2>14 DEF PcbOk, PointersOk
    <3>2. l \subseteq S \cup {Host}
      BY <1>2 DEF withIp
    <3> QED
      BY <2>4, <2>6, <2>7, <2>8, <2>12, <3>1, <3>2
  <2>15. AnnounceOk(n, p)
    <3>1. PICK z \in Of(m.txq, p) : ~z.distributed /\ z.answers # {}
      BY <2>11 DEF AnnounceOk
    <3>2. CASE z = q
      BY <2>4, <2>6, <2>7, <2>8, <3>1, <3>2 DEF AnnounceOk
    <3> QED
      BY <2>6, <2>7, <2>8, <3>1, <3>2 DEF AnnounceOk
  <2>16. n.pcbs[p].services = {} /\ n.pcbs[p].up
    BY <1>5, <2>5, <2>8, <2>11 DEF ListOk
  <2>17. PcbOk(n, p, S, N)
    BY <1>5, <2>7, <2>8, <2>10, <2>13, <2>14, <2>15, <2>16, PastProbes
  <2> QED
    BY <2>7, <2>8, <2>9, <2>16, <2>17 DEF Done
<1>6. CASE m.pcbs[p].up /\ m.pcbs[p].state = PCB_RUNNING /\ m.hostname
  <2> DEFINE r == [m.pcbs[p] EXCEPT !.state = PCB_ANNOUNCE_1]
  <2>1. PICK a : a = setPcb(m, p, r)
    OBVIOUS
  <2>2. PICK x : x = Telling(m, p, l)
    OBVIOUS
  <2>3. n = schedule(a, x, 0)
    <3>1. ~PCB_STATE_IS_PROBING(m.pcbs[p]) /\ ~PCB_STATE_IS_ANNOUNCING(m.pcbs[p])
      BY <1>6 DEF PCB_STATE_IS_PROBING, PCB_STATE_IS_ANNOUNCING, PCB_RUNNING, PCB_ANNOUNCE_1
    <3>2. x = create_announce_packet(m, p, svcs, ip)
      BY <1>2, <2>2 DEF create_announce_packet, alloc_answer, Telling
    <3>3. n = start_announcement(m, p, svcs, ip)
      BY <1>6, <3>1 DEF announce_pcb
    <3> QED
      BY <2>1, <3>2, <3>3 DEF start_announcement, setState
  <2>4. r \in PcbStates /\ r.up = m.pcbs[p].up /\ r.services = m.pcbs[p].services
        /\ r.state = PCB_ANNOUNCE_1
    BY <1>0 DEF PcbStates, PCB_ANNOUNCE_1
  <2> HIDE DEF r
  <2>5. /\ a \in Servers /\ a.txq = m.txq /\ a.hostname = m.hostname
        /\ a.pcbs[p] = r /\ a.probes = m.probes /\ a.wire = m.wire
        /\ Others(m, a, p)
    BY <2>1, <2>4, NewPcb
  <2>6. /\ x \in Packets /\ x.pcb = p /\ x.questions = {} /\ x.servers = {}
        /\ x.answers = l /\ ~x.distributed
    BY <2>2, TellingOk
  <2>7. Scheduled(a, x, n)
    BY <2>3, <2>5, <2>6, ScheduleOk
  <2>8. /\ n \in Servers /\ n.hostname = a.hostname /\ n.pcbs = a.pcbs
        /\ n.probes = a.probes /\ n.wire = a.wire /\ Others(a, n, p)
    BY <2>6, <2>7 DEF Scheduled
  <2>9. PICK y \in Packets : /\ y.pcb = p /\ y.questions = {} /\ y.servers = {}
                             /\ y.answers = l /\ ~y.distributed /\ Added(a.txq, n.txq, y)
    BY <2>6, <2>7 DEF Scheduled
  <2>10. Of(n.txq, p) = Of(m.txq, p) \cup {y}
    BY <2>5, <2>9 DEF Added
  <2>11. m.pcbs[p].state > PCB_PROBE_3 /\ r.state > PCB_PROBE_3
    BY <1>6, <2>4 DEF PCB_RUNNING, PCB_PROBE_3, PCB_ANNOUNCE_1
  <2>12. ListOk(m, p)
    BY <1>6, <2>11 DEF PcbOk, OpenOk
  <2>13. \A z \in Of(n.txq, p) : z.questions = {} /\ z.servers = {}
    BY <2>9, <2>10, <2>12 DEF ListOk
  <2>14. ASSUME NoLateConflict, NEW z \in Of(n.txq, p) PROVE z.answers \subseteq S \cup {Host}
    <3>1. \A w \in Of(m.txq, p) : w.answers \subseteq S \cup {Host}
      BY <2>14 DEF PcbOk, PointersOk
    <3>2. l \subseteq S \cup {Host}
      BY <1>2 DEF withIp
    <3> QED
      BY <2>9, <2>10, <3>1, <3>2
  <2>15. AnnounceOk(n, p)
    BY <1>2, <2>9, <2>10 DEF AnnounceOk
  <2>16. n.pcbs[p].services = {} /\ n.pcbs[p].up /\ n.pcbs[p] = r
    BY <1>6, <2>4, <2>5, <2>8, <2>12 DEF ListOk
  <2>17. PcbOk(n, p, S, N)
    BY <1>6, <2>5, <2>8, <2>11, <2>13, <2>14, <2>15, <2>16, PastProbes
  <2>18. Others(m, n, p)
    BY <2>5, <2>8, OthersTrans
  <2> QED
    BY <2>5, <2>8, <2>16, <2>17, <2>18 DEF Done
<1>7. \/ n = m
      \/ m.pcbs[p].up /\ PCB_STATE_IS_PROBING(m.pcbs[p])
      \/ m.pcbs[p].up /\ PCB_STATE_IS_ANNOUNCING(m.pcbs[p]) /\ k # 0
      \/ m.pcbs[p].up /\ m.pcbs[p].state = PCB_RUNNING /\ m.hostname
  BY <1>1 DEF announce_pcb
<1> QED
  BY <1>3, <1>4, <1>5, <1>6, <1>7

LEMMA HandledTrans ==
    ASSUME NEW m, NEW n, NEW l, NEW S, NEW N, NEW M, NEW T,
           Handled(m, n, T, M), Handled(n, l, S, N)
    PROVE  Handled(m, l, S, N)
BY DEF Handled, Opens

LEMMA HandledSame ==
    ASSUME NEW m, NEW S, NEW N, Fine(m, S, N)
    PROVE  Handled(m, m, S, N)
BY DEF Handled, Opens

AnnounceRounds == INSTANCE LoopProofs WITH Step <- announce_next, Good <- announce_next

LEMMA AnnounceAll ==
    ASSUME toWrap \in Nat, NEW m, NEW svcs \in SUBSET Services, NEW ip \in BOOLEAN,
           withIp(svcs, ip) # {}, NEW delay \in [Pcbs -> Nat], NEW S,
           NEW N \in SUBSET Names, svcs \subseteq S, Fine(m, S, N),
           NEW n, n = announce_all_pcbs(m, svcs, ip, delay)
    PROVE  Handled(m, n, S, N)
<1> DEFINE L == Len(PcbOrder)
           x == [services |-> svcs, ip |-> ip, delay |-> delay]
           G == {z \in (0 .. L) \X Servers : Handled(m, z[2], S, N)}
<1>0. L \in Nat /\ (\A k \in 1 .. L : PcbOrder[k] \in Pcbs)
  BY Visits
<1>1. x.services = svcs /\ x.ip = ip /\ x.delay = delay
  OBVIOUS
<1>2. n = announced!loop(x, m, L)
  BY DEF announce_all_pcbs
<1> HIDE DEF x, L
<1>3. <<0, m>> \in G
  <2>1. Handled(m, m, S, N) /\ m \in Servers
    BY HandledSame DEF Fine
  <2> QED
    BY <1>0, <2>1
<1>4. ASSUME NEW i \in 1 .. L, NEW y, <<i - 1, y>> \in G PROVE <<i, announce_next(x, y, i)>> \in G
  <2>1. y \in Servers /\ Handled(m, y, S, N)
    BY <1>4
  <2>2. PICK z : z = announce_next(x, y, i)
    OBVIOUS
  <2>3. PICK p \in Pcbs, d \in Nat : p = PcbOrder[i] /\ d = delay[p]
    BY <1>0
  <2>4. z = announce_pcb(y, p, svcs, ip, d)
    BY <1>1, <2>2, <2>3 DEF announce_next
  <2>5. Fine(y, S, N) /\ PcbOk(y, p, S, N)
    BY <2>1 DEF Handled, Fine
  <2>6. Done(y, z, p, S, N)
    BY <2>1, <2>4, <2>5, AnnouncePcb
  <2>7. Handled(y, z, S, N)
    BY <2>5, <2>6, DoneAll
  <2>8. Handled(m, z, S, N) /\ z \in Servers
    BY <2>1, <2>7, HandledTrans DEF Handled, Fine
  <2>9. i \in 0 .. L
    BY <1>0
  <2> QED
    BY <2>2, <2>8, <2>9
<1> HIDE DEF G
<1>5. <<L, AnnounceRounds!loop(x, m, L)>> \in G
  BY <1>0, <1>3, <1>4, AnnounceRounds!LoopStays
<1>6. n = AnnounceRounds!loop(x, m, L)
  BY <1>2 DEF AnnounceRounds!loop, announced!loop
<1> QED
  BY <1>5, <1>6 DEF G

--------------------------------------------------------------------------------
(* Sending.  A packet that asks for nothing changes nothing but the wire.   *)
Sent(m, n) ==
    /\ n \in Servers /\ n.hostname = m.hostname /\ n.pcbs = m.pcbs
    /\ n.txq = m.txq /\ n.probes = m.probes

LEMMA SentOk ==
    ASSUME NEW m, NEW n, NEW S, NEW N, Fine(m, S, N), Sent(m, n)
    PROVE  Fine(n, S, N) /\ Opens(m, n)
<1>1. ASSUME NEW p \in Pcbs PROVE PcbOk(n, p, S, N)
  <2>1. PcbOk(m, p, S, N)
    BY DEF Fine
  <2>2. OpenOk(n, p) /\ Unnamed(n, p)
    BY <2>1 DEF Sent, PcbOk, OpenOk, Unnamed, ProbeOk, ListOk, AnnounceOk
  <2>3. NoLateConflict => PointersOk(n, p, S) /\ NamesOk(n, p, N)
    BY <2>1 DEF Sent, PcbOk, PointersOk, NamesOk
  <2> QED
    BY <2>2, <2>3 DEF PcbOk
<1> QED
  BY <1>1 DEF Fine, Sent, Opens

LEMMA DispatchOk ==
    ASSUME NEW m \in Servers, NEW x \in Packets, x.servers = {}, WireOk(m),
           NoLateConflict /\ m.hostname /\ m.pcbs[x.pcb].up =>
               \A a \in x.answers : Settled(m.probes[x.pcb][a]),
           NEW n, n = dispatch(m, x)
    PROVE  Sent(m, n) /\ WireOk(n)
<1>1. CASE ~m.pcbs[x.pcb].up
  BY <1>1 DEF dispatch, Sent
<1>2. CASE m.pcbs[x.pcb].up
  <2> DEFINE p == x.pcb
             f == [a \in Names |-> CASE a \in x.servers /\ m.probes[p][a] < 3 -> m.probes[p][a] + 1
                                     [] a \in x.servers /\ m.probes[p][a] = CutShort -> 1
                                     [] OTHER -> m.probes[p][a]]
             c == [m.probes EXCEPT ![p] = f]
             w == m.wire \cup {<<p, a, m.probes[p][a]>> : a \in x.answers}
             b == [m EXCEPT !.probes = c]
  <2>1. p \in Pcbs /\ x.answers \in SUBSET Names
    BY DEF Packets
  <2>2. m.probes \in [Pcbs -> [Names -> 0 .. 4]]
    BY ServerFields DEF Counts
  <2>3. n = [b EXCEPT !.wire = w]
    BY <1>2 DEF dispatch, Servers
  <2>4. f = m.probes[p]
    BY <2>1, <2>2
  <2> HIDE DEF f
  <2>5. c = m.probes
    BY <2>1, <2>2, <2>4
  <2>6. w \in SUBSET (Pcbs \X Names \X (0 .. 4))
    BY <2>1, <2>2, ServerFields
  <2>7. b = m
    <3> HIDE DEF c
    <3> QED
      BY <2>5 DEF Servers
  <2> HIDE DEF b, c, w
  <2>8. Sent(m, n) /\ n.wire = w
    BY <2>3, <2>6, <2>7 DEF Sent, Servers
  <2>9. ASSUME NoLateConflict, n.hostname, NEW a \in w PROVE Settled(a[3])
    <3>1. m.hostname
      BY <2>8, <2>9 DEF Sent
    <3>2. CASE a \in m.wire
      BY <2>9, <3>1, <3>2 DEF WireOk
    <3>3. CASE a \in {<<p, k, m.probes[p][k]>> : k \in x.answers}
      BY <1>2, <2>9, <3>1, <3>3
    <3> QED
      BY <3>2, <3>3 DEF w
  <2> QED
    BY <2>8, <2>9 DEF WireOk
<1> QED
  BY <1>1, <1>2

LEMMA SentTrans ==
    ASSUME NEW m, NEW n, NEW l, Sent(m, n), Sent(n, l)
    PROVE  Sent(m, l)
BY DEF Sent

(* A PCB that does not probe may send records of all its names.             *)
LEMMA TellOk ==
    ASSUME NEW m, NEW p \in Pcbs, NEW S, NEW N \in SUBSET Names, Fine(m, S, N), WireOk(m),
           NEW l \in SUBSET N, m.pcbs[p].up => ~Probing(m.pcbs[p]),
           NEW x \in Packets, x.pcb = p, x.servers = {}, x.answers = l,
           NEW n, n = dispatch(m, x)
    PROVE  Sent(m, n) /\ WireOk(n)
<1>1. m \in Servers /\ PcbOk(m, p, S, N)
  BY DEF Fine
<1>2. ASSUME NoLateConflict, m.hostname, m.pcbs[x.pcb].up, NEW a \in x.answers
      PROVE  Settled(m.probes[x.pcb][a])
  BY <1>1, <1>2 DEF PcbOk, NamesOk, NameOk
<1> QED
  BY <1>1, <1>2, DispatchOk

LEMMA PcbSendBye ==
    ASSUME NEW m, NEW p \in Pcbs, NEW S, NEW N \in SUBSET Names, Fine(m, S, N), WireOk(m),
           NEW svcs, NEW ip, withIp(svcs, ip) \subseteq N,
           m.pcbs[p].up => ~Probing(m.pcbs[p]),
           NEW n, n = pcb_send_bye(m, p, svcs, ip)
    PROVE  Sent(m, n) /\ WireOk(n)
<1>1. PICK l \in SUBSET N : l = withIp(svcs, ip)
  OBVIOUS
<1>2. PICK x : x = Telling(m, p, l)
  OBVIOUS
<1>3. n = dispatch(m, x)
  BY <1>1, <1>2 DEF pcb_send_bye, alloc_answer, Telling
<1>4. x \in Packets /\ x.pcb = p /\ x.servers = {} /\ x.answers = l
  BY <1>2, TellingOk DEF Fine
<1> QED
  BY <1>3, <1>4, TellOk

ByeRounds == INSTANCE LoopProofs WITH Step <- bye_next, Good <- bye_next

LEMMA SendBye ==
    ASSUME NEW m, NEW S, NEW N \in SUBSET Names, Fine(m, S, N), WireOk(m),
           NEW svcs, NEW ip, withIp(svcs, ip) \subseteq N, NEW n, n = send_bye(m, svcs, ip)
    PROVE  Sent(m, n) /\ WireOk(n)
<1> DEFINE L == Len(PcbOrder)
           x == [services |-> svcs, ip |-> ip]
           G == {z \in (0 .. L) \X Servers : Sent(m, z[2]) /\ WireOk(z[2])}
<1>0. L \in Nat /\ (\A k \in 1 .. L : PcbOrder[k] \in Pcbs)
  BY Visits
<1>1. x.services = svcs /\ x.ip = ip
  OBVIOUS
<1>2. m \in Servers /\ Sent(m, m)
  BY DEF Fine, Sent
<1>3. CASE ~m.hostname
  BY <1>2, <1>3 DEF send_bye
<1>4. CASE m.hostname
  <2>1. n = left!loop(x, m, L)
    BY <1>4 DEF send_bye
  <2> HIDE DEF x, L
  <2>2. <<0, m>> \in G
    BY <1>0, <1>2
  <2>3. ASSUME NEW i \in 1 .. L, NEW y, <<i - 1, y>> \in G PROVE <<i, bye_next(x, y, i)>> \in G
    <3>1. y \in Servers /\ Sent(m, y) /\ WireOk(y)
      BY <2>3
    <3>2. PICK z : z = bye_next(x, y, i)
      OBVIOUS
    <3>3. PICK p \in Pcbs : p = PcbOrder[i]
      BY <1>0
    <3>4. Sent(y, z) /\ WireOk(z)
      <4>1. CASE y.pcbs[p].up /\ y.pcbs[p].state = PCB_RUNNING
        <5>1. z = pcb_send_bye(y, p, svcs, ip)
          BY <1>1, <3>2, <3>3, <4>1 DEF bye_next
        <5>2. Fine(y, S, N)
          BY <3>1, SentOk
        <5>3. ~Probing(y.pcbs[p])
          BY <4>1 DEF Probing, PCB_RUNNING, PCB_PROBE_1, PCB_PROBE_3
        <5> QED
          BY <3>1, <5>1, <5>2, <5>3, PcbSendBye
      <4>2. CASE ~(y.pcbs[p].up /\ y.pcbs[p].state = PCB_RUNNING)
        <5>1. z = y
          BY <3>2, <3>3, <4>2 DEF bye_next
        <5> QED
          BY <3>1, <5>1 DEF Sent
      <4> QED
        BY <4>1, <4>2
    <3>5. Sent(m, z) /\ z \in Servers
      BY <3>1, <3>4, SentTrans DEF Sent
    <3>6. i \in 0 .. L
      BY <1>0
    <3> QED
      BY <3>2, <3>4, <3>5, <3>6
  <2> HIDE DEF G
  <2>4. <<L, ByeRounds!loop(x, m, L)>> \in G
    BY <1>0, <2>2, <2>3, ByeRounds!LoopStays
  <2>5. n = ByeRounds!loop(x, m, L)
    BY <2>1 DEF ByeRounds!loop, left!loop
  <2> QED
    BY <2>4, <2>5 DEF G
<1> QED
  BY <1>3, <1>4

(* The goodbyes for the services without a name of their own.               *)
LEMMA FinalBye ==
    ASSUME NEW m, services \subseteq Services, Fine(m, services, services \cup {Host}), WireOk(m),
           NEW ip, NEW n, n = send_final_bye(m, ip)
    PROVE  Sent(m, n) /\ WireOk(n)
<1>0. PICK N \in SUBSET Names : N = services \cup {Host}
  BY DEF Names
<1>1. CASE withoutInstance = {}
  BY <1>1 DEF send_final_bye, Fine, Sent
<1>2. CASE withoutInstance # {}
  <2>1. n = send_bye(m, withoutInstance, ip)
    BY <1>2 DEF send_final_bye
  <2>2. withIp(withoutInstance, ip) \subseteq N
    BY <1>0 DEF withIp, withoutInstance
  <2> QED
    BY <1>0, <2>1, <2>2, SendBye
<1> QED
  BY <1>1, <1>2

--------------------------------------------------------------------------------
(* A step for PCB p that may also send.                                     *)
Changed(m, n, p, S, N) ==
    /\ n \in Servers /\ Others(m, n, p) /\ PcbOk(n, p, S, N)
    /\ m.pcbs[p].up => n.pcbs[p].up

LEMMA ChangedAll ==
    ASSUME NEW m, NEW n, NEW p \in Pcbs, NEW S, NEW N, Fine(m, S, N), Changed(m, n, p, S, N)
    PROVE  Fine(n, S, N) /\ Opens(m, n) /\ n.hostname = m.hostname
<1>1. ASSUME NEW o \in Pcbs PROVE PcbOk(n, o, S, N) /\ (m.pcbs[o].up => n.pcbs[o].up)
  <2>1. PcbOk(m, o, S, N)
    BY DEF Fine
  <2>2. CASE o = p
    BY <2>2 DEF Changed
  <2>3. CASE o # p
    BY <2>1, <2>3, OthersOk DEF Changed
  <2> QED
    BY <2>2, <2>3
<1> QED
  BY <1>1 DEF Changed, Fine, Opens, Others

StateSet(m, n, p, state) ==
    /\ n \in Servers /\ n.txq = m.txq /\ n.hostname = m.hostname
    /\ n.probes = m.probes /\ n.wire = m.wire /\ Others(m, n, p)
    /\ n.pcbs[p].state = state /\ n.pcbs[p].up = m.pcbs[p].up
    /\ n.pcbs[p].services = m.pcbs[p].services /\ n.pcbs[p].ip = m.pcbs[p].ip
    /\ n.pcbs[p].running = m.pcbs[p].running

LEMMA SetStateOk ==
    ASSUME NEW m \in Servers, NEW p \in Pcbs, NEW state \in 0 .. 9,
           NEW n, n = setState(m, p, state)
    PROVE  StateSet(m, n, p, state)
<1> DEFINE r == [m.pcbs[p] EXCEPT !.state = state]
<1>0. m.pcbs[p] \in PcbStates
  BY ServerFields
<1>1. n = setPcb(m, p, r)
  BY DEF setState
<1>2. /\ r \in PcbStates /\ r.state = state /\ r.up = m.pcbs[p].up
      /\ r.services = m.pcbs[p].services /\ r.ip = m.pcbs[p].ip
      /\ r.running = m.pcbs[p].running
  BY <1>0 DEF PcbStates
<1> HIDE DEF r
<1> QED
  BY <1>1, <1>2, NewPcb DEF StateSet

(* A packet of questions and their answers goes out.                        *)
Counted(c) == IF c < 3 THEN c + 1 ELSE IF c = CutShort THEN 1 ELSE c

LEMMA DispatchProbe ==
    ASSUME NEW m \in Servers, NEW x \in Packets, NEW p \in Pcbs, x.pcb = p, x.answers = {},
           NEW n, n = dispatch(m, x)
    PROVE  /\ n \in Servers /\ n.hostname = m.hostname /\ n.pcbs = m.pcbs
           /\ n.txq = m.txq /\ n.wire = m.wire /\ Others(m, n, p)
           /\ \A a \in Names : a \notin x.servers => n.probes[p][a] = m.probes[p][a]
           /\ m.pcbs[p].up =>
                  \A a \in x.servers : n.probes[p][a] = Counted(m.probes[p][a])
<1>1. CASE ~m.pcbs[p].up
  <2>1. n = m
    BY <1>1 DEF dispatch
  <2> QED
    BY <1>1, <2>1 DEF Others, Elsewhere
<1>2. CASE m.pcbs[p].up
  <2> DEFINE f == [a \in Names |-> CASE a \in x.servers /\ m.probes[p][a] < 3 -> m.probes[p][a] + 1
                                     [] a \in x.servers /\ m.probes[p][a] = CutShort -> 1
                                     [] OTHER -> m.probes[p][a]]
             c == [m.probes EXCEPT ![p] = f]
             w == m.wire \cup {<<p, a, m.probes[p][a]>> : a \in x.answers}
             b == [m EXCEPT !.probes = c]
  <2>1. x.servers \in SUBSET Names
    BY DEF Packets
  <2>2. m.probes \in [Pcbs -> [Names -> 0 .. 4]]
    BY ServerFields DEF Counts
  <2>3. n = [b EXCEPT !.wire = w]
    BY <1>2 DEF dispatch, Servers
  <2>4. ASSUME NEW a \in Names
        PROVE  /\ f[a] \in 0 .. 4
               /\ a \notin x.servers => f[a] = m.probes[p][a]
               /\ a \in x.servers => f[a] = Counted(m.probes[p][a])
    <3>1. m.probes[p][a] \in 0 .. 4
      BY <2>2
    <3>2. CASE a \notin x.servers
      BY <3>1, <3>2
    <3>3. CASE a \in x.servers
      <4>1. CASE m.probes[p][a] < 3
        <5>1. m.probes[p][a] # CutShort
          BY <3>1, <4>1 DEF CutShort
        <5> QED
          BY <3>1, <3>3, <4>1, <5>1 DEF Counted
      <4>2. CASE m.probes[p][a] = CutShort
        BY <3>1, <3>3, <4>2 DEF Counted, CutShort
      <4>3. CASE ~(m.probes[p][a] < 3) /\ m.probes[p][a] # CutShort
        BY <3>1, <3>3, <4>3 DEF Counted
      <4> QED
        BY <4>1, <4>2, <4>3
    <3> QED
      BY <3>2, <3>3
  <2>5. f \in [Names -> 0 .. 4]
    BY <2>4
  <2> HIDE DEF f
  <2>6. c \in Counts /\ c[p] = f /\ \A o \in Pcbs \ {p} : c[o] = m.probes[o]
    BY <2>2, <2>5 DEF Counts
  <2>7. w = m.wire
    OBVIOUS
  <2> HIDE DEF c, w
  <2>8. b \in Servers /\ b.hostname = m.hostname /\ b.pcbs = m.pcbs /\ b.txq = m.txq
        /\ b.wire = m.wire /\ b.probes = c
    BY <2>6 DEF Servers
  <2> HIDE DEF b
  <2>9. n \in Servers /\ n.hostname = m.hostname /\ n.pcbs = m.pcbs /\ n.txq = m.txq
        /\ n.wire = m.wire /\ n.probes = c
    BY <2>3, <2>7, <2>8, ServerFields DEF Servers
  <2>10. Others(m, n, p)
    BY <2>6, <2>9 DEF Others, Elsewhere
  <2> QED
    BY <2>1, <2>4, <2>6, <2>9, <2>10
<1> QED
  BY <1>1, <1>2

(* The head h of the list is taken off; x is what is left of it.            *)
Taken(m, a, x, h, p) ==
    /\ a \in Servers /\ x \in Packets /\ x.pcb = p /\ a.hostname = m.hostname
    /\ a.pcbs = m.pcbs /\ a.probes = m.probes /\ a.wire = m.wire /\ Others(m, a, p)
    /\ x.questions = h.questions /\ x.servers = h.servers /\ x.answers = h.answers
    /\ x.distributed = h.distributed /\ h \in Of(m.txq, p)
    /\ Of(m.txq, p) = Of(a.txq, p) \cup {h} /\ (Alone(m.txq, p) => Of(a.txq, p) = {})

LEMMA TakenClosed ==
    ASSUME NEW m, NEW p \in Pcbs, NEW S, NEW N, Fine(m, S, N), NEW a, NEW x, NEW h,
           Taken(m, a, x, h, p), ~m.pcbs[p].up, NEW n \in Servers, Others(m, n, p),
           ~n.pcbs[p].up, n.pcbs[p].services \subseteq m.pcbs[p].services
    PROVE  Changed(m, n, p, S, N)
<1>1. PcbOk(m, p, S, N) /\ h \in Of(m.txq, p) /\ n.hostname = m.hostname
  BY DEF Fine, Taken, Others
<1>2. ~NoLateConflict
  BY <1>1 DEF PcbOk, PointersOk
<1> QED
  BY <1>1, <1>2 DEF Changed, PcbOk, OpenOk, Unnamed

LEMMA TxProbe ==
    ASSUME toWrap \in Nat, NEW m, NEW p \in Pcbs, NEW S, NEW N \in SUBSET Names, Fine(m, S, N),
           NEW a, NEW x, NEW h, Taken(m, a, x, h, p), m.pcbs[p].up,
           NEW state \in 3 .. 4, m.pcbs[p].state = state, NEW d, d = dispatch(a, x),
           NEW e, e = schedule(d, x, ProbeInterval), NEW n, n = setState(e, p, state + 1)
    PROVE  Changed(m, n, p, S, N) /\ n.wire = m.wire
<1>1. /\ m \in Servers /\ m.pcbs[p] \in PcbStates /\ PcbOk(m, p, S, N)
      /\ m.probes \in [Pcbs -> [Names -> 0 .. 4]]
  BY ServerFields DEF Fine, Counts
<1>2. Probing(m.pcbs[p]) /\ ProbeOk(m, p)
  BY <1>1 DEF PcbOk, OpenOk, Probing, PCB_PROBE_1, PCB_PROBE_3
<1>3. /\ x.answers = {} /\ x.questions = Listed(m.pcbs[p]) /\ x.servers = Listed(m.pcbs[p])
      /\ a \in Servers /\ x \in Packets /\ x.pcb = p /\ Of(a.txq, p) = {}
      /\ a.hostname = m.hostname /\ a.pcbs = m.pcbs /\ a.probes = m.probes /\ a.wire = m.wire
      /\ Others(m, a, p)
  BY <1>2 DEF Taken, ProbeOk
<1>4. /\ d \in Servers /\ d.hostname = m.hostname /\ d.pcbs = m.pcbs /\ d.txq = a.txq
      /\ d.wire = m.wire /\ Others(a, d, p)
      /\ \A k \in Names : k \notin x.servers => d.probes[p][k] = m.probes[p][k]
      /\ \A k \in x.servers : d.probes[p][k] = Counted(m.probes[p][k])
  BY <1>3, DispatchProbe
<1>5. ProbeInterval \in Nat
  BY MdnsAssumption
<1>6. Scheduled(d, x, e)
  BY <1>3, <1>4, <1>5, ScheduleOk
<1>7. /\ e \in Servers /\ e.hostname = d.hostname /\ e.pcbs = d.pcbs
      /\ e.probes = d.probes /\ e.wire = d.wire /\ Others(d, e, p)
  BY <1>3, <1>6 DEF Scheduled
<1>8. PICK y \in Packets : /\ y.pcb = p /\ y.questions = x.questions /\ y.servers = x.servers
                           /\ y.answers = x.answers /\ Added(d.txq, e.txq, y)
  BY <1>3, <1>6 DEF Scheduled
<1>9. state + 1 \in 0 .. 9 /\ state + 1 \in 3 .. 5
  OBVIOUS
<1>10. StateSet(e, n, p, state + 1)
  BY <1>7, <1>9, SetStateOk
<1>11. /\ n \in Servers /\ n.txq = e.txq /\ n.hostname = m.hostname
       /\ n.probes = d.probes /\ n.wire = m.wire /\ Others(e, n, p)
       /\ n.pcbs[p].state = state + 1 /\ n.pcbs[p].up
       /\ n.pcbs[p].services = m.pcbs[p].services /\ n.pcbs[p].ip = m.pcbs[p].ip
       /\ n.pcbs[p].running = m.pcbs[p].running
  BY <1>4, <1>7, <1>10 DEF StateSet
<1>12. Others(m, n, p)
  BY <1>3, <1>4, <1>7, <1>11, OthersTrans
<1>13. Of(n.txq, p) = {y} /\ Alone(n.txq, p)
  BY <1>3, <1>4, <1>8, <1>11 DEF Added
<1>14. Listed(n.pcbs[p]) = Listed(m.pcbs[p])
  BY <1>11 DEF Listed
<1>15. ProbeOk(n, p) /\ Probing(n.pcbs[p])
  <2>1. Probing(n.pcbs[p])
    BY <1>9, <1>11 DEF Probing, PCB_PROBE_1, PCB_PROBE_3
  <2>2. ProbeOk(n, p)
    <3>1. m.pcbs[p].running /\ Listed(m.pcbs[p]) # {}
      BY <1>2 DEF ProbeOk
    <3>2. n.pcbs[p].running /\ Listed(n.pcbs[p]) # {}
      BY <1>11, <1>14, <3>1
    <3>3. /\ y.questions = Listed(n.pcbs[p]) /\ y.servers = Listed(n.pcbs[p])
          /\ y.answers = {}
      BY <1>3, <1>8, <1>14
    <3> QED
      BY <1>13, <3>2, <3>3 DEF ProbeOk
  <2> QED
    BY <2>1, <2>2
<1>16. OpenOk(n, p) /\ Unnamed(n, p)
  BY <1>1, <1>11, <1>15
     DEF OpenOk, Unnamed, PcbOk, PCB_PROBE_1, PCB_PROBE_3, PCB_STATE_IS_ANNOUNCING
<1>17. NoLateConflict => PointersOk(n, p, S)
  BY <1>1, <1>3, <1>8, <1>11, <1>13 DEF PcbOk, PointersOk
<1>18. ASSUME NoLateConflict, m.hostname, NEW k \in N
       PROVE  NameOk(n.pcbs[p], k, n.probes[p][k])
  <2>1. NameOk(m.pcbs[p], k, m.probes[p][k]) /\ m.probes[p][k] \in 0 .. 4
    BY <1>1, <1>18 DEF PcbOk, NamesOk
  <2>2. CASE k \in Listed(m.pcbs[p])
    <3>1. /\ m.probes[p][k] >= state - PCB_PROBE_1
          /\ m.probes[p][k] = CutShort => state = PCB_PROBE_1
      BY <1>2, <2>1, <2>2 DEF NameOk
    <3>2. n.probes[p][k] = Counted(m.probes[p][k])
      BY <1>3, <1>4, <1>11, <2>2
    <3>3. n.probes[p][k] >= (state + 1) - PCB_PROBE_1 /\ n.probes[p][k] # CutShort
      BY <2>1, <3>1, <3>2 DEF Counted, PCB_PROBE_1, CutShort
    <3> QED
      BY <1>11, <1>14, <1>15, <2>2, <3>3 DEF NameOk
  <2>3. CASE k \notin Listed(m.pcbs[p])
    <3>1. Settled(m.probes[p][k]) /\ n.probes[p][k] = m.probes[p][k]
      BY <1>3, <1>4, <1>11, <2>1, <2>3 DEF NameOk
    <3> QED
      BY <1>14, <2>3, <3>1 DEF NameOk
  <2> QED
    BY <2>2, <2>3
<1>19. NoLateConflict => NamesOk(n, p, N)
  BY <1>11, <1>18 DEF NamesOk
<1> QED
  BY <1>11, <1>12, <1>16, <1>17, <1>19 DEF Changed, PcbOk

LEMMA TxLastProbe ==
    ASSUME toWrap \in Nat, NEW m, NEW p \in Pcbs, NEW S, NEW N \in SUBSET Names, Fine(m, S, N),
           NEW a, NEW x, NEW h, Taken(m, a, x, h, p), m.pcbs[p].up,
           m.pcbs[p].state = PCB_PROBE_3, NEW d, d = dispatch(a, x),
           NEW l \in SUBSET Names, l = x.servers,
           NEW e, e = schedule(d, Telling(d, p, l), ProbeInterval),
           NEW r \in PcbStates, r.up, r.services = {}, r.state = PCB_ANNOUNCE_1,
           NEW n, n = setPcb(e, p, r)
    PROVE  Changed(m, n, p, S, N) /\ n.wire = m.wire
<1>1. /\ m \in Servers /\ m.pcbs[p] \in PcbStates /\ PcbOk(m, p, S, N)
      /\ m.probes \in [Pcbs -> [Names -> 0 .. 4]]
  BY ServerFields DEF Fine, Counts
<1>2. Probing(m.pcbs[p]) /\ ProbeOk(m, p)
  BY <1>1 DEF PcbOk, OpenOk, Probing, PCB_PROBE_1, PCB_PROBE_3
<1>3. /\ x.answers = {} /\ x.servers = Listed(m.pcbs[p]) /\ Listed(m.pcbs[p]) # {}
      /\ a \in Servers /\ x \in Packets /\ x.pcb = p /\ Of(a.txq, p) = {}
      /\ a.hostname = m.hostname /\ a.pcbs = m.pcbs /\ a.probes = m.probes /\ a.wire = m.wire
      /\ Others(m, a, p)
  BY <1>2 DEF Taken, ProbeOk
<1>4. /\ d \in Servers /\ d.hostname = m.hostname /\ d.pcbs = m.pcbs /\ d.txq = a.txq
      /\ d.wire = m.wire /\ Others(a, d, p)
      /\ \A k \in Names : k \notin x.servers => d.probes[p][k] = m.probes[p][k]
      /\ \A k \in x.servers : d.probes[p][k] = Counted(m.probes[p][k])
  BY <1>3, DispatchProbe
<1>5. ProbeInterval \in Nat
  BY MdnsAssumption
<1>6. PICK t : t = Telling(d, p, l)
  OBVIOUS
<1>7. /\ t \in Packets /\ t.pcb = p /\ t.questions = {} /\ t.servers = {}
      /\ t.answers = l /\ ~t.distributed
  BY <1>4, <1>6, TellingOk
<1>8. Scheduled(d, t, e)
  BY <1>4, <1>5, <1>6, <1>7, ScheduleOk
<1>9. /\ e \in Servers /\ e.hostname = d.hostname /\ e.pcbs = d.pcbs
      /\ e.probes = d.probes /\ e.wire = d.wire /\ Others(d, e, p)
  BY <1>7, <1>8 DEF Scheduled
<1>10. PICK y \in Packets : /\ y.pcb = p /\ y.questions = {} /\ y.servers = {}
                            /\ y.answers = l /\ ~y.distributed /\ Added(d.txq, e.txq, y)
  BY <1>7, <1>8 DEF Scheduled
<1>11. /\ n \in Servers /\ n.txq = e.txq /\ n.hostname = e.hostname
       /\ n.pcbs[p] = r /\ n.probes = e.probes /\ n.wire = e.wire /\ Others(e, n, p)
  BY <1>9, NewPcb
<1>12. Others(m, n, p)
  BY <1>3, <1>4, <1>9, <1>11, OthersTrans
<1>13. Of(n.txq, p) = {y}
  BY <1>3, <1>4, <1>10, <1>11 DEF Added
<1>14. ListOk(n, p) /\ AnnounceOk(n, p)
  BY <1>3, <1>10, <1>11, <1>13 DEF ListOk, AnnounceOk
<1>15. OpenOk(n, p) /\ Unnamed(n, p)
  BY <1>11, <1>14 DEF OpenOk, Unnamed, Probing, PCB_PROBE_1, PCB_PROBE_3, PCB_ANNOUNCE_1
<1>16. ASSUME NoLateConflict PROVE PointersOk(n, p, S)
  <2>1. l \subseteq S \cup {Host}
    BY <1>1, <1>3, <1>16 DEF PcbOk, PointersOk, Listed, withIp
  <2> QED
    BY <1>10, <1>11, <1>13, <2>1 DEF PointersOk
<1>17. ~Probing(r)
  BY DEF Probing, PCB_PROBE_1, PCB_PROBE_3, PCB_ANNOUNCE_1
<1>18. ASSUME NoLateConflict, m.hostname, NEW k \in N PROVE NameOk(r, k, n.probes[p][k])
  <2>1. NameOk(m.pcbs[p], k, m.probes[p][k]) /\ m.probes[p][k] \in 0 .. 4
    BY <1>1, <1>18 DEF PcbOk, NamesOk
  <2>2. CASE k \in Listed(m.pcbs[p])
    <3>1. m.probes[p][k] >= 2 /\ m.probes[p][k] # CutShort
      BY <1>2, <2>1, <2>2 DEF NameOk, PCB_PROBE_1, PCB_PROBE_3
    <3>2. n.probes[p][k] = Counted(m.probes[p][k])
      BY <1>3, <1>4, <1>9, <1>11, <2>2
    <3>3. n.probes[p][k] = 3
      BY <2>1, <3>1, <3>2 DEF Counted, CutShort
    <3> QED
      BY <1>17, <3>3 DEF NameOk, Settled
  <2>3. CASE k \notin Listed(m.pcbs[p])
    <3>1. Settled(m.probes[p][k]) /\ n.probes[p][k] = m.probes[p][k]
      BY <1>3, <1>4, <1>9, <1>11, <2>1, <2>3 DEF NameOk
    <3> QED
      BY <1>17, <3>1 DEF NameOk
  <2> QED
    BY <2>2, <2>3
<1>19. NoLateConflict => NamesOk(n, p, N)
  BY <1>4, <1>9, <1>11, <1>18 DEF NamesOk
<1> QED
  BY <1>4, <1>9, <1>11, <1>12, <1>15, <1>16, <1>19 DEF Changed, PcbOk

(* The PCB is past its probes: the packet has records only.                 *)
LEMMA TxRecords ==
    ASSUME NEW m, NEW p \in Pcbs, NEW S, NEW N \in SUBSET Names, N = S \cup {Host},
           Fine(m, S, N), WireOk(m), NEW a, NEW x, NEW h, Taken(m, a, x, h, p), m.pcbs[p].up,
           m.pcbs[p].state > PCB_PROBE_3, NEW d, d = dispatch(a, x)
    PROVE  Sent(a, d) /\ WireOk(d) /\ x.servers = {} /\ x.questions = {}
<1>1. m \in Servers /\ m.pcbs[p] \in PcbStates /\ PcbOk(m, p, S, N)
  BY ServerFields DEF Fine
<1>2. ListOk(m, p) /\ ~Probing(m.pcbs[p])
  <2>1. m.pcbs[p].state \in 0 .. 9
    BY <1>1 DEF PcbStates
  <2> QED
    BY <1>1, <2>1 DEF PcbOk, OpenOk, Probing, PCB_PROBE_1, PCB_PROBE_3
<1>3. x.servers = {} /\ x.questions = {} /\ a \in Servers /\ x \in Packets /\ x.pcb = p
  BY <1>2 DEF Taken, ListOk
<1>4. a.hostname = m.hostname /\ a.pcbs = m.pcbs /\ a.probes = m.probes /\ a.wire = m.wire
  BY DEF Taken
<1>5. WireOk(a)
  BY <1>4 DEF WireOk
<1>6. ASSUME NoLateConflict, a.hostname, a.pcbs[x.pcb].up, NEW k \in x.answers
      PROVE  Settled(a.probes[x.pcb][k])
  <2>1. k \in N
    BY <1>1, <1>6 DEF Taken, PcbOk, PointersOk
  <2>2. NameOk(m.pcbs[p], k, m.probes[p][k])
    BY <1>1, <1>4, <1>6, <2>1 DEF PcbOk, NamesOk
  <2> QED
    BY <1>2, <1>3, <1>4, <2>2 DEF NameOk
<1> QED
  BY <1>3, <1>5, <1>6, DispatchOk

LEMMA TxAnnounce ==
    ASSUME toWrap \in Nat, NEW m, NEW p \in Pcbs, NEW S, NEW N \in SUBSET Names,
           N = S \cup {Host}, Fine(m, S, N), WireOk(m), NEW a, NEW x, NEW h,
           Taken(m, a, x, h, p), m.pcbs[p].up, NEW state \in 6 .. 7, m.pcbs[p].state = state,
           NEW d, d = dispatch(a, x), NEW e, e = schedule(d, x, AnnounceInterval),
           NEW n, n = setState(e, p, state + 1)
    PROVE  Changed(m, n, p, S, N) /\ WireOk(n)
<1>1. m \in Servers /\ PcbOk(m, p, S, N) /\ m.pcbs[p].state > PCB_PROBE_3
  BY DEF Fine, PCB_PROBE_3
<1>2. Sent(a, d) /\ WireOk(d) /\ x.servers = {} /\ x.questions = {}
  BY <1>1, TxRecords
<1>3. /\ d \in Servers /\ d.hostname = m.hostname /\ d.pcbs = m.pcbs /\ d.txq = a.txq
      /\ d.probes = m.probes /\ x \in Packets /\ x.pcb = p /\ Others(m, d, p)
  <2>1. Others(m, a, p)
    BY DEF Taken
  <2>2. Others(a, d, p)
    BY <1>2 DEF Sent, Others, Elsewhere
  <2>3. Others(m, d, p)
    BY <2>1, <2>2, OthersTrans
  <2> QED
    BY <1>2, <2>3 DEF Taken, Sent
<1>4. AnnounceInterval \in Nat
  BY MdnsAssumption
<1>5. Scheduled(d, x, e)
  BY <1>3, <1>4, ScheduleOk
<1>6. /\ e \in Servers /\ e.hostname = d.hostname /\ e.pcbs = d.pcbs
      /\ e.probes = d.probes /\ e.wire = d.wire /\ Others(d, e, p)
  BY <1>3, <1>5 DEF Scheduled
<1>7. PICK y \in Packets : /\ y.pcb = p /\ y.questions = {} /\ y.servers = {}
                           /\ y.answers = x.answers /\ y.distributed = x.distributed
                           /\ Added(d.txq, e.txq, y)
  BY <1>2, <1>3, <1>5 DEF Scheduled
<1>8. state + 1 \in 0 .. 9 /\ state + 1 \in 7 .. 8
  OBVIOUS
<1>9. StateSet(e, n, p, state + 1)
  BY <1>6, <1>8, SetStateOk
<1>10. /\ n \in Servers /\ n.txq = e.txq /\ n.hostname = m.hostname
       /\ n.probes = m.probes /\ n.wire = d.wire /\ Others(e, n, p)
       /\ n.pcbs[p].state = state + 1 /\ n.pcbs[p].up
       /\ n.pcbs[p].services = m.pcbs[p].services
  BY <1>3, <1>6, <1>9 DEF StateSet
<1>11. Others(m, n, p)
  BY <1>3, <1>6, <1>10, OthersTrans
<1>12. Of(n.txq, p) = Of(a.txq, p) \cup {y}
  BY <1>3, <1>7, <1>10 DEF Added
<1>13. ListOk(m, p) /\ AnnounceOk(m, p)
  BY <1>1 DEF PcbOk, OpenOk, PCB_STATE_IS_ANNOUNCING, PCB_PROBE_3, PCB_RUNNING
<1>14. \A z \in Of(n.txq, p) : z.questions = {} /\ z.servers = {}
  BY <1>7, <1>12, <1>13 DEF ListOk, Taken
<1>15. NoLateConflict => \A z \in Of(n.txq, p) : z.answers \subseteq S \cup {Host}
  BY <1>1, <1>7, <1>12 DEF PcbOk, PointersOk, Taken
<1>16. AnnounceOk(n, p)
  <2>1. PICK z \in Of(m.txq, p) : ~z.distributed /\ z.answers # {}
    BY <1>13 DEF AnnounceOk
  <2>2. CASE z = h
    BY <1>7, <1>12, <2>1, <2>2 DEF AnnounceOk, Taken
  <2>3. CASE z # h
    BY <1>12, <2>1, <2>3 DEF AnnounceOk, Taken
  <2> QED
    BY <2>2, <2>3
<1>17. n.pcbs[p].state > PCB_PROBE_3 /\ n.pcbs[p].services = {}
  BY <1>8, <1>10, <1>13 DEF ListOk, PCB_PROBE_3
<1>18. PcbOk(n, p, S, N)
  BY <1>1, <1>10, <1>14, <1>15, <1>16, <1>17, PastProbes
<1>19. WireOk(n)
  BY <1>2, <1>3, <1>10 DEF WireOk
<1> QED
  BY <1>10, <1>11, <1>18, <1>19 DEF Changed

(* Afterwards the PCB is running.                                           *)
LEMMA TxRunning ==
    ASSUME NEW m, NEW p \in Pcbs, NEW S, NEW N \in SUBSET Names,
           N = S \cup {Host}, Fine(m, S, N), WireOk(m), NEW a, NEW x, NEW h,
           Taken(m, a, x, h, p), m.pcbs[p].up,
           NEW d, d = dispatch(a, x), m.pcbs[p].state > PCB_PROBE_3,
           NEW n, \/ n = setState(d, p, PCB_RUNNING)
                  \/ n = d /\ m.pcbs[p].state = PCB_RUNNING
    PROVE  Changed(m, n, p, S, N) /\ WireOk(n)
<1>1. m \in Servers /\ PcbOk(m, p, S, N)
  BY DEF Fine
<1>2. Sent(a, d) /\ WireOk(d)
  BY TxRecords
<1>3. /\ d \in Servers /\ d.hostname = m.hostname /\ d.pcbs = m.pcbs /\ d.txq = a.txq
      /\ d.probes = m.probes /\ Others(m, d, p)
  <2>1. Others(m, a, p)
    BY DEF Taken
  <2>2. Others(a, d, p)
    BY <1>2 DEF Sent, Others, Elsewhere
  <2>3. Others(m, d, p)
    BY <2>1, <2>2, OthersTrans
  <2> QED
    BY <1>2, <2>3 DEF Taken, Sent
<1>4. /\ n \in Servers /\ n.txq = a.txq /\ n.hostname = m.hostname
      /\ n.probes = m.probes /\ n.wire = d.wire /\ Others(m, n, p)
      /\ n.pcbs[p].state = PCB_RUNNING /\ n.pcbs[p].up
      /\ n.pcbs[p].services = m.pcbs[p].services
  <2>1. CASE n = setState(d, p, PCB_RUNNING)
    <3>1. n = setState(d, p, 9) /\ 9 \in 0 .. 9
      BY <2>1 DEF PCB_RUNNING
    <3>2. StateSet(d, n, p, 9)
      BY <1>3, <3>1, SetStateOk
    <3>3. Others(m, n, p)
      BY <1>3, <3>2, OthersTrans DEF StateSet
    <3> QED
      BY <1>3, <3>2, <3>3 DEF StateSet, PCB_RUNNING
  <2>2. CASE n = d /\ m.pcbs[p].state = PCB_RUNNING
    BY <1>3, <2>2
  <2> QED
    BY <2>1, <2>2
<1>5. ListOk(m, p)
  BY <1>1 DEF PcbOk, OpenOk
<1>6. \A z \in Of(n.txq, p) : z.questions = {} /\ z.servers = {}
  BY <1>4, <1>5 DEF ListOk, Taken
<1>7. NoLateConflict => \A z \in Of(n.txq, p) : z.answers \subseteq S \cup {Host}
  BY <1>1, <1>4 DEF PcbOk, PointersOk, Taken
<1>8. n.pcbs[p].state > PCB_PROBE_3 /\ n.pcbs[p].services = {}
      /\ ~PCB_STATE_IS_ANNOUNCING(n.pcbs[p])
  BY <1>4, <1>5 DEF ListOk, PCB_PROBE_3, PCB_RUNNING, PCB_STATE_IS_ANNOUNCING
<1>9. PcbOk(n, p, S, N)
  BY <1>1, <1>4, <1>6, <1>7, <1>8, PastProbes
<1>10. WireOk(n)
  BY <1>2, <1>3, <1>4 DEF WireOk
<1> QED
  BY <1>4, <1>9, <1>10 DEF Changed

LEMMA TakeHead ==
    ASSUME NEW m \in Servers, m.txq # <<>>, NEW a, a = [m EXCEPT !.txq = Tail(@)],
           NEW h, h = Head(m.txq), NEW x, x = [h EXCEPT !.queued = FALSE]
    PROVE  h.pcb \in Pcbs /\ Taken(m, a, x, h, h.pcb)
<1>1. m.txq \in Seq(Packets)
  BY ServerFields
<1>2. PICK t : t = Tail(m.txq)
  OBVIOUS
<1>3. /\ h \in Packets /\ t \in Seq(Packets)
      /\ Elsewhere(m.txq, t, h.pcb)
      /\ Of(m.txq, h.pcb) = Of(t, h.pcb) \cup {h}
      /\ Alone(m.txq, h.pcb) => Of(t, h.pcb) = {}
  BY <1>1, <1>2, TakenOff
<1>4. /\ x \in Packets /\ x.pcb = h.pcb /\ x.questions = h.questions
      /\ x.servers = h.servers /\ x.answers = h.answers /\ x.distributed = h.distributed
      /\ h.pcb \in Pcbs
  BY <1>3 DEF Packets
<1>5. /\ a \in Servers /\ a.txq = t /\ a.hostname = m.hostname
      /\ a.pcbs = m.pcbs /\ a.probes = m.probes /\ a.wire = m.wire
  BY <1>2, <1>3 DEF Servers
<1>6. Others(m, a, h.pcb)
  BY <1>3, <1>5 DEF Others
<1> QED
  BY <1>3, <1>4, <1>5, <1>6 DEF Taken

(* The PCB may have been closed: nothing is sent then.                      *)
LEMMA TxClosed ==
    ASSUME toWrap \in Nat, NEW m, NEW p \in Pcbs, NEW S, NEW N, Fine(m, S, N),
           NEW a, NEW x, NEW h, Taken(m, a, x, h, p), ~m.pcbs[p].up, WireOk(m),
           NEW d, d = dispatch(a, x), NEW b \in Packets, b.pcb = p, NEW ms \in Nat,
           NEW e, e = schedule(d, b, ms), NEW state \in 0 .. 9,
           NEW r \in PcbStates, ~r.up, r.services = {},
           NEW n, \/ n = d \/ n = setState(d, p, state) \/ n = setState(e, p, state)
                  \/ n = setPcb(e, p, r)
    PROVE  Changed(m, n, p, S, N) /\ WireOk(n)
<1>1. /\ d = a /\ a \in Servers /\ a.pcbs = m.pcbs /\ a.wire = m.wire /\ Others(m, a, p)
      /\ a.hostname = m.hostname
  BY DEF Taken, dispatch
<1>2. Scheduled(a, b, e)
  BY <1>1, ScheduleOk
<1>3. e \in Servers /\ Others(a, e, p) /\ e.pcbs = a.pcbs /\ e.wire = a.wire
      /\ e.hostname = a.hostname
  BY <1>2 DEF Scheduled
<1>4. /\ n \in Servers /\ Others(m, n, p) /\ ~n.pcbs[p].up /\ n.wire = m.wire
      /\ n.pcbs[p].services \subseteq m.pcbs[p].services /\ n.hostname = m.hostname
  <2>1. CASE n = d
    BY <1>1, <2>1
  <2>2. CASE n = setState(d, p, state)
    <3>1. StateSet(a, n, p, state)
      BY <1>1, <2>2, SetStateOk
    <3>2. Others(m, n, p)
      BY <1>1, <3>1, OthersTrans DEF StateSet
    <3> QED
      BY <1>1, <3>1, <3>2 DEF StateSet
  <2>3. CASE n = setState(e, p, state)
    <3>1. StateSet(e, n, p, state)
      BY <1>3, <2>3, SetStateOk
    <3>2. Others(m, n, p)
      BY <1>1, <1>3, <3>1, OthersTrans DEF StateSet
    <3> QED
      BY <1>1, <1>3, <3>1, <3>2 DEF StateSet
  <2>4. CASE n = setPcb(e, p, r)
    <3>1. n \in Servers /\ n.pcbs[p] = r /\ n.wire = e.wire /\ Others(e, n, p)
          /\ n.hostname = e.hostname
      BY <1>3, <2>4, NewPcb
    <3>2. Others(m, n, p)
      BY <1>1, <1>3, <3>1, OthersTrans
    <3> QED
      BY <1>1, <1>3, <3>1, <3>2
  <2> QED
    BY <2>1, <2>2, <2>3, <2>4
<1>5. Changed(m, n, p, S, N)
  BY <1>4, TakenClosed
<1> QED
  BY <1>4, <1>5 DEF WireOk

LEMMA TxHandle ==
    ASSUME toWrap \in Nat, NEW m, NEW p \in Pcbs, NEW S, NEW N \in SUBSET Names,
           N = S \cup {Host}, Fine(m, S, N), WireOk(m), NEW a, NEW x, NEW h,
           Taken(m, a, x, h, p), NEW n, n = tx_handle_packet(a, x)
    PROVE  Changed(m, n, p, S, N) /\ WireOk(n)
<1>1. PICK d : d = dispatch(a, x)
  OBVIOUS
<1>2. /\ m.pcbs[p] \in PcbStates /\ m.pcbs[p].state \in 0 .. 9 /\ m \in Servers
      /\ x \in Packets /\ x.pcb = p /\ a.pcbs = m.pcbs /\ x.servers \in SUBSET Names
      /\ a \in Servers /\ a.wire = m.wire /\ a.hostname = m.hostname /\ Others(m, a, p)
  BY ServerFields DEF Fine, PcbStates, Taken, Packets
<1>3. d.pcbs = m.pcbs /\ d \in Servers
  <2>1. CASE ~a.pcbs[p].up
    BY <1>1, <1>2, <2>1 DEF dispatch
  <2>2. CASE a.pcbs[p].up
    <3>1. PcbOk(m, p, S, N) /\ m.pcbs[p].state >= PCB_PROBE_1
      BY <1>2, <2>2 DEF Fine, PcbOk, OpenOk
    <3>2. CASE m.pcbs[p].state > PCB_PROBE_3
      BY <1>1, <1>2, <2>2, <3>2, TxRecords DEF Sent
    <3>3. CASE ~(m.pcbs[p].state > PCB_PROBE_3)
      <4>1. Probing(m.pcbs[p])
        BY <1>2, <3>1, <3>3 DEF Probing, PCB_PROBE_1, PCB_PROBE_3
      <4>2. x.answers = {}
        BY <1>2, <2>2, <3>1, <4>1 DEF PcbOk, OpenOk, ProbeOk, Taken
      <4> QED
        BY <1>1, <1>2, <4>2, DispatchProbe
    <3> QED
      BY <3>2, <3>3
  <2> QED
    BY <2>1, <2>2
<1>4. PICK state \in 0 .. 9 : state = m.pcbs[p].state
  BY <1>2
<1>5. PICK l \in SUBSET Names : l = x.servers
  BY <1>2
<1>6. PICK b : b = Telling(d, p, l)
  OBVIOUS
<1>7. b \in Packets /\ b.pcb = p
  BY <1>3, <1>6, TellingOk
<1>8. PICK e1, e2, e3 : /\ e1 = schedule(d, x, ProbeInterval)
                        /\ e2 = schedule(d, b, ProbeInterval)
                        /\ e3 = schedule(d, x, AnnounceInterval)
  OBVIOUS
<1>9. ProbeInterval \in Nat /\ AnnounceInterval \in Nat
  BY MdnsAssumption
<1> DEFINE pcb == m.pcbs[p]
           r1 == [pcb EXCEPT !.running = FALSE]
           r2 == [r1 EXCEPT !.ip = FALSE]
           r3 == [r2 EXCEPT !.services = {}]
           r4 == [r3 EXCEPT !.failed = 0]
           r == [r4 EXCEPT !.state = PCB_ANNOUNCE_1]
<1>10. r = [pcb EXCEPT !.running = FALSE, !.ip = FALSE, !.services = {},
                       !.failed = 0, !.state = PCB_ANNOUNCE_1]
  BY <1>2 DEF PcbStates
<1>11. r \in PcbStates /\ r.up = pcb.up /\ r.services = {} /\ r.state = PCB_ANNOUNCE_1
  <2>1. r1 \in PcbStates /\ r1.up = pcb.up
    BY <1>2 DEF PcbStates
  <2> HIDE DEF r1
  <2>2. r2 \in PcbStates /\ r2.up = pcb.up
    BY <2>1 DEF PcbStates
  <2> HIDE DEF r2
  <2>3. r3 \in PcbStates /\ r3.up = pcb.up /\ r3.services = {}
    BY <2>2 DEF PcbStates
  <2> HIDE DEF r3
  <2>4. r4 \in PcbStates /\ r4.up = pcb.up /\ r4.services = {}
    BY <2>3 DEF PcbStates
  <2> HIDE DEF r4
  <2> QED
    BY <2>4 DEF PcbStates, PCB_ANNOUNCE_1
<1>12. /\ state = 0 => n = a
       /\ state \in 3 .. 4 => n = setState(e1, p, state + 1)
       /\ state = 5 => n = setPcb(e2, p, r)
       /\ state \in 6 .. 7 => n = setState(e3, p, state + 1)
       /\ state = 8 => n = setState(d, p, PCB_RUNNING)
       /\ state \in {1, 2, 9} => n = d
  <2> HIDE DEF r
  <2>1. b = [packet(d, p) EXCEPT !.answers = x.servers]
    BY <1>5, <1>6 DEF Telling
  <2>2. x.pcb = p /\ d.pcbs[p] = pcb /\ pcb.state = state
    BY <1>2, <1>3, <1>4
  <2>3. n = CASE state = 0 -> a
              [] state \in 3 .. 4 -> setState(e1, p, state + 1)
              [] state = 5 -> setPcb(e2, p, r)
              [] state \in 6 .. 7 -> setState(e3, p, state + 1)
              [] state = 8 -> setState(d, p, PCB_RUNNING)
              [] OTHER -> d
    BY <1>1, <1>8, <1>10, <2>1, <2>2
       DEF tx_handle_packet, PCB_OFF, PCB_PROBE_1, PCB_PROBE_3, PCB_ANNOUNCE_1, PCB_ANNOUNCE_3
  <2> QED
    BY <2>3
<1> HIDE DEF r
<1>13. CASE ~m.pcbs[p].up
  <2>1. d = a
    BY <1>1, <1>2, <1>13 DEF dispatch
  <2>2. ~r.up
    BY <1>11, <1>13
  <2>3. CASE state \in {0, 1, 2, 9}
    <3>1. n = d
      BY <1>12, <2>1, <2>3
    <3> QED
      BY <1>1, <1>7, <1>8, <1>9, <1>11, <1>13, <2>2, <3>1, TxClosed
  <2>4. CASE state \in 3 .. 4
    <3>1. n = setState(e1, p, state + 1) /\ state + 1 \in 0 .. 9
      BY <1>12, <2>4
    <3> QED
      BY <1>1, <1>2, <1>8, <1>9, <1>11, <1>13, <2>2, <3>1, TxClosed
  <2>5. CASE state = 5
    <3>1. n = setPcb(e2, p, r)
      BY <1>12, <2>5
    <3> QED
      BY <1>1, <1>7, <1>8, <1>9, <1>11, <1>13, <2>2, <3>1, TxClosed
  <2>6. CASE state \in 6 .. 7
    <3>1. n = setState(e3, p, state + 1) /\ state + 1 \in 0 .. 9
      BY <1>12, <2>6
    <3> QED
      BY <1>1, <1>2, <1>8, <1>9, <1>11, <1>13, <2>2, <3>1, TxClosed
  <2>7. CASE state = 8
    <3>1. n = setState(d, p, 9) /\ 9 \in 0 .. 9
      BY <1>12, <2>7 DEF PCB_RUNNING
    <3> QED
      BY <1>1, <1>7, <1>8, <1>9, <1>11, <1>13, <2>2, <3>1, TxClosed
  <2> QED
    BY <2>3, <2>4, <2>5, <2>6, <2>7
<1>14. CASE m.pcbs[p].up
  <2>1. state >= 3
    BY <1>4, <1>14 DEF Fine, PcbOk, OpenOk, PCB_PROBE_1
  <2>2. CASE state \in 3 .. 4
    <3>1. n = setState(e1, p, state + 1)
      BY <1>12, <2>2
    <3>2. Changed(m, n, p, S, N) /\ n.wire = m.wire
      BY <1>1, <1>4, <1>8, <1>14, <2>2, <3>1, TxProbe
    <3> QED
      BY <3>2 DEF WireOk, Changed, Others
  <2>3. CASE state = 5
    <3>1. n = setPcb(e2, p, r) /\ e2 = schedule(d, Telling(d, p, l), ProbeInterval)
      BY <1>6, <1>8, <1>12, <2>3
    <3>2. m.pcbs[p].state = PCB_PROBE_3 /\ r.up
      BY <1>4, <1>11, <1>14, <2>3 DEF PCB_PROBE_3
    <3>3. Changed(m, n, p, S, N) /\ n.wire = m.wire
      BY <1>1, <1>5, <1>11, <1>14, <3>1, <3>2, TxLastProbe
    <3> QED
      BY <3>3 DEF WireOk, Changed, Others
  <2>4. CASE state \in 6 .. 7
    <3>1. n = setState(e3, p, state + 1)
      BY <1>12, <2>4
    <3> QED
      BY <1>1, <1>4, <1>8, <1>14, <2>4, <3>1, TxAnnounce
  <2>5. CASE state = 8 \/ state = 9
    <3>1. /\ m.pcbs[p].state > PCB_PROBE_3
          /\ n = setState(d, p, PCB_RUNNING) \/ (n = d /\ m.pcbs[p].state = PCB_RUNNING)
      BY <1>4, <1>12, <2>5 DEF PCB_PROBE_3, PCB_RUNNING
    <3> QED
      BY <1>1, <1>14, <3>1, TxRunning
  <2> QED
    BY <2>1, <2>2, <2>3, <2>4, <2>5
<1> QED
  BY <1>13, <1>14

--------------------------------------------------------------------------------
(* Removing a service s.  After i packets: none of these has a record of s, *)
(* and a PCB that still probes for s has a packet among the others.         *)
Half(m, p, i, s, S, N) ==
    /\ PcbOk(m, p, S, N)
    /\ \A k \in 1 .. i : m.txq[k].pcb = p => s \notin m.txq[k].answers
    /\ m.pcbs[p].up /\ s \in m.pcbs[p].services
           => \E k \in i + 1 .. Len(m.txq) : m.txq[k].pcb = p

(* The packet at place i and its PCB, without s.                            *)
Stripped(m, q, y, r, s) ==
    LET pcb == m.pcbs[q.pcb]
        probes_it == pcb.up /\ PCB_STATE_IS_PROBING(pcb) /\ s \in pcb.services
        ends == \/ probes_it /\ pcb.services = {s} /\ ~pcb.ip
                \/ /\ pcb.up /\ PCB_STATE_IS_ANNOUNCING(pcb)
                   /\ q.answers # {} /\ q.answers \ {s} = {}
    IN /\ y \in Packets /\ y.pcb = q.pcb /\ y.answers = q.answers \ {s}
       /\ y.servers = q.servers \ {s} /\ y.distributed = q.distributed
       /\ y.questions = IF probes_it THEN q.questions \ {s} ELSE q.questions
       /\ r \in PcbStates /\ r.up = pcb.up /\ r.ip = pcb.ip
       /\ r.services = IF probes_it THEN pcb.services \ {s} ELSE pcb.services
       /\ r.running = IF probes_it /\ ends THEN FALSE ELSE pcb.running
       /\ r.state = IF ends THEN PCB_RUNNING ELSE pcb.state

Removal(m, n, i, s) ==
    \E y, r : /\ Stripped(m, m.txq[i], y, r, s)
              /\ n = setPcb([m EXCEPT !.txq = [m.txq EXCEPT ![i] = y]], m.txq[i].pcb, r)

LEMMA RemoveOne ==
    ASSUME NEW m \in Servers, NEW i \in 1 .. Len(m.txq), NEW s \in Services,
           NEW n, n = remove_from_packet(s, m, i)
    PROVE  Removal(m, n, i, s)
<1> DEFINE q == m.txq[i]
           pcb == m.pcbs[q.pcb]
           probes_it == pcb.up /\ PCB_STATE_IS_PROBING(pcb) /\ s \in pcb.services
           ends == \/ probes_it /\ pcb.services = {s} /\ ~pcb.ip
                   \/ /\ pcb.up /\ PCB_STATE_IS_ANNOUNCING(pcb)
                      /\ q.answers # {} /\ q.answers \ {s} = {}
           asked == IF probes_it THEN q.questions \ {s} ELSE q.questions
           listed == IF probes_it THEN pcb.services \ {s} ELSE pcb.services
           runs == IF probes_it /\ ends THEN FALSE ELSE pcb.running
           next == IF ends THEN PCB_RUNNING ELSE pcb.state
           y1 == [q EXCEPT !.answers = q.answers \ {s}]
           y2 == [y1 EXCEPT !.additional = q.additional \ {s}]
           y3 == [y2 EXCEPT !.servers = q.servers \ {s}]
           y == [y3 EXCEPT !.questions = asked]
           r1 == [pcb EXCEPT !.services = listed]
           r2 == [r1 EXCEPT !.running = runs]
           r == [r2 EXCEPT !.state = next]
<1>1. q \in Packets /\ q.pcb \in Pcbs /\ pcb \in PcbStates
  <2>1. q \in Packets
    BY ServerFields, ElementOfSeq
  <2> QED
    BY <2>1, ServerFields DEF Packets
<1>2. y = [q EXCEPT !.answers = q.answers \ {s}, !.additional = q.additional \ {s},
                    !.servers = q.servers \ {s}, !.questions = asked]
  <2> HIDE DEF asked
  <2> QED
    BY <1>1 DEF Packets
<1>3. r = [pcb EXCEPT !.services = listed, !.running = runs, !.state = next]
  <2> HIDE DEF listed, runs, next
  <2> QED
    BY <1>1 DEF PcbStates
<1>4. n = [m EXCEPT !.txq[i] = y, !.pcbs[q.pcb] = r]
  <2> HIDE DEF y, r
  <2> QED
    BY <1>2, <1>3 DEF remove_from_packet, dealloc_scheduled_service_answers
<1>5. /\ asked \in SUBSET Names /\ listed \in SUBSET Services
      /\ runs \in BOOLEAN /\ next \in 0 .. 9
  <2>1. /\ q.questions \in SUBSET Names /\ pcb.services \in SUBSET Services
        /\ pcb.running \in BOOLEAN /\ pcb.state \in 0 .. 9
    BY <1>1 DEF Packets, PcbStates
  <2> HIDE DEF ends, probes_it
  <2>2. asked \in SUBSET Names
    BY <2>1
  <2>3. listed \in SUBSET Services
    BY <2>1
  <2>4. runs \in BOOLEAN
    <3>1. runs = FALSE \/ runs = pcb.running
      OBVIOUS
    <3> QED
      BY <2>1, <3>1
  <2>5. next \in 0 .. 9
    <3>1. next = PCB_RUNNING \/ next = pcb.state
      OBVIOUS
    <3> HIDE DEF next
    <3> QED
      BY <2>1, <3>1 DEF PCB_RUNNING
  <2> QED
    BY <2>2, <2>3, <2>4, <2>5
<1> HIDE DEF asked, listed, runs, next
<1>6. /\ y \in Packets /\ y.pcb = q.pcb /\ y.answers = q.answers \ {s}
      /\ y.servers = q.servers \ {s} /\ y.distributed = q.distributed /\ y.questions = asked
  <2>1. /\ y1 \in Packets /\ y1.pcb = q.pcb /\ y1.answers = q.answers \ {s}
        /\ y1.distributed = q.distributed /\ q.additional \in SUBSET Names
        /\ q.servers \in SUBSET Names
    BY <1>1 DEF Packets
  <2> HIDE DEF y1
  <2>2. /\ y2 \in Packets /\ y2.pcb = q.pcb /\ y2.answers = q.answers \ {s}
        /\ y2.distributed = q.distributed
    BY <2>1 DEF Packets
  <2> HIDE DEF y2
  <2>3. /\ y3 \in Packets /\ y3.pcb = q.pcb /\ y3.answers = q.answers \ {s}
        /\ y3.distributed = q.distributed /\ y3.servers = q.servers \ {s}
    BY <2>1, <2>2 DEF Packets
  <2> HIDE DEF y3
  <2> QED
    BY <1>5, <2>3 DEF Packets
<1>7. /\ r \in PcbStates /\ r.up = pcb.up /\ r.ip = pcb.ip /\ r.services = listed
      /\ r.running = runs /\ r.state = next
  <2>1. r1 \in PcbStates /\ r1.up = pcb.up /\ r1.ip = pcb.ip /\ r1.services = listed
    BY <1>1, <1>5 DEF PcbStates
  <2> HIDE DEF r1
  <2>2. /\ r2 \in PcbStates /\ r2.up = pcb.up /\ r2.ip = pcb.ip /\ r2.services = listed
        /\ r2.running = runs
    BY <1>5, <2>1 DEF PcbStates
  <2> HIDE DEF r2
  <2> QED
    BY <1>5, <2>2 DEF PcbStates
<1> HIDE DEF y, r
<1>8. n = setPcb([m EXCEPT !.txq = [m.txq EXCEPT ![i] = y]], q.pcb, r)
  BY <1>4 DEF setPcb, Servers
<1>9. Stripped(m, q, y, r, s)
  BY <1>6, <1>7 DEF Stripped, asked, listed, runs, next
<1> QED
  BY <1>8, <1>9 DEF Removal

LEMMA StrippedOk ==
    ASSUME NEW m \in Servers, NEW p \in Pcbs, NEW q \in Of(m.txq, p), NEW s \in Services,
           NEW S, NEW N \in SUBSET Names, s \notin N, PcbOk(m, p, S, N), NEW y, NEW r,
           Stripped(m, q, y, r, s), q.pcb = p, NEW n \in Servers, n.hostname = m.hostname,
           n.pcbs[p] = r, n.probes = m.probes, y \in Of(n.txq, p),
           \A z \in Of(n.txq, p) : z = y \/ z \in Of(m.txq, p),
           \A z \in Of(m.txq, p) : z = q \/ z \in Of(n.txq, p),
           Alone(m.txq, p) => Alone(n.txq, p) /\ Of(n.txq, p) = {y}
    PROVE  PcbOk(n, p, S, N) /\ (r.up => s \notin r.services)
<1> DEFINE pcb == m.pcbs[p]
<1>0. pcb \in PcbStates /\ pcb.state \in 0 .. 9 /\ Host \notin Services
  BY ServerFields, MdnsAssumption DEF PcbStates
<1>1. CASE ~pcb.up
  <2>1. /\ y.answers = q.answers \ {s} /\ ~r.up /\ r.services = pcb.services
        /\ r.state = pcb.state
    BY <1>1 DEF Stripped
  <2>2. OpenOk(n, p) /\ Unnamed(n, p)
    BY <1>1, <2>1 DEF PcbOk, OpenOk, Unnamed
  <2>3. NoLateConflict => PointersOk(n, p, S) /\ NamesOk(n, p, N)
    BY <1>1, <2>1 DEF PcbOk, PointersOk, NamesOk
  <2> QED
    BY <2>1, <2>2, <2>3 DEF PcbOk
<1>2. CASE pcb.up /\ pcb.state > PCB_PROBE_3
  <2>1. ~PCB_STATE_IS_PROBING(pcb)
    BY <1>0, <1>2 DEF PCB_STATE_IS_PROBING, PCB_PROBE_3, PCB_ANNOUNCE_1
  <2>2. ListOk(m, p)
    BY <1>2 DEF PcbOk, OpenOk
  <2>3. /\ y.answers = q.answers \ {s} /\ r.up /\ r.services = {} /\ y.questions = {}
        /\ y.servers = {} /\ y.distributed = q.distributed
        /\ r.state = IF PCB_STATE_IS_ANNOUNCING(pcb) /\ q.answers # {} /\ q.answers \ {s} = {}
                     THEN PCB_RUNNING ELSE pcb.state
    BY <1>2, <2>1, <2>2 DEF Stripped, ListOk
  <2>4. r.state > PCB_PROBE_3
    BY <1>2, <2>3 DEF PCB_RUNNING, PCB_PROBE_3
  <2>5. \A z \in Of(n.txq, p) : z.questions = {} /\ z.servers = {}
    BY <2>2, <2>3 DEF ListOk
  <2>6. NoLateConflict => \A z \in Of(n.txq, p) : z.answers \subseteq S \cup {Host}
    BY <2>3 DEF PcbOk, PointersOk
  <2>7. ASSUME PCB_STATE_IS_ANNOUNCING(r) PROVE AnnounceOk(n, p)
    <3>2. r.state # PCB_RUNNING
      BY <1>0, <2>3, <2>7 DEF PCB_STATE_IS_ANNOUNCING, PCB_RUNNING
    <3>3. r.state = pcb.state
      BY <2>3, <3>2
    <3>4. PCB_STATE_IS_ANNOUNCING(pcb)
      BY <2>7, <3>3 DEF PCB_STATE_IS_ANNOUNCING
    <3>5. q.answers # {} => q.answers \ {s} # {}
      BY <2>3, <3>2, <3>4
    <3>6. PICK z \in Of(m.txq, p) : ~z.distributed /\ z.answers # {}
      BY <1>2, <3>4 DEF PcbOk, OpenOk, AnnounceOk
    <3>7. CASE z = q
      BY <2>3, <3>5, <3>6, <3>7 DEF AnnounceOk
    <3>8. CASE z # q
      BY <3>6, <3>8 DEF AnnounceOk
    <3> QED
      BY <3>7, <3>8
  <2>8. PcbOk(n, p, S, N)
    BY <1>2, <2>3, <2>4, <2>5, <2>6, <2>7, PastProbes
  <2> QED
    BY <2>3, <2>8
<1>3. CASE pcb.up /\ ~(pcb.state > PCB_PROBE_3)
  <2>1. Probing(pcb) /\ PCB_STATE_IS_PROBING(pcb) /\ ~PCB_STATE_IS_ANNOUNCING(pcb)
    BY <1>0, <1>3 DEF PcbOk, OpenOk, Probing, PCB_STATE_IS_PROBING, PCB_STATE_IS_ANNOUNCING,
                      PCB_PROBE_1, PCB_PROBE_3, PCB_ANNOUNCE_1, PCB_OFF, PCB_RUNNING
  <2>2. ProbeOk(m, p)
    BY <1>3, <2>1 DEF PcbOk, OpenOk
  <2>3. /\ q.questions = Listed(pcb) /\ q.servers = Listed(pcb) /\ q.answers = {}
        /\ Of(n.txq, p) = {y} /\ Alone(n.txq, p) /\ pcb.running /\ Listed(pcb) # {}
    BY <2>2 DEF ProbeOk
  <2>4. pcb.services \in SUBSET Services
    BY <1>0 DEF PcbStates
  <2>5. CASE s \notin pcb.services
    <3>1. /\ y.answers = {} /\ y.questions = Listed(pcb) /\ y.servers = Listed(pcb) \ {s}
          /\ r.up /\ r.services = pcb.services /\ r.ip = pcb.ip /\ r.running = pcb.running
          /\ r.state = pcb.state
      BY <1>3, <2>1, <2>3, <2>5 DEF Stripped
    <3>2. Listed(r) = Listed(pcb) /\ s \notin Listed(pcb)
      BY <1>0, <2>5, <3>1 DEF Listed, withIp
    <3>3. y.servers = Listed(pcb)
      BY <3>1, <3>2
    <3>4. ProbeOk(n, p)
      BY <2>3, <3>1, <3>2, <3>3 DEF ProbeOk
    <3>5. OpenOk(n, p) /\ Unnamed(n, p)
      BY <1>3, <3>1, <3>4
         DEF PcbOk, OpenOk, Unnamed, Probing, PCB_STATE_IS_ANNOUNCING, PCB_PROBE_1, PCB_PROBE_3
    <3>6. NoLateConflict => PointersOk(n, p, S)
      BY <2>3, <3>1 DEF PcbOk, PointersOk
    <3>7. ASSUME NoLateConflict, n.hostname, NEW k \in N PROVE NameOk(r, k, n.probes[p][k])
      <4>1. NameOk(pcb, k, m.probes[p][k])
        BY <1>3, <3>7 DEF PcbOk, NamesOk
      <4>2. Probing(r)
        BY <2>1, <3>1 DEF Probing
      <4> QED
        BY <2>1, <3>1, <3>2, <4>1, <4>2 DEF NameOk
    <3> QED
      BY <2>5, <3>1, <3>5, <3>6, <3>7 DEF PcbOk, NamesOk
  <2>6. CASE s \in pcb.services /\ pcb.services = {s} /\ ~pcb.ip
    <3>1. Listed(pcb) = {s}
      BY <2>6 DEF Listed, withIp
    <3>2. /\ y.answers = {} /\ y.questions = {} /\ y.servers = {}
          /\ r.up /\ r.services = {} /\ r.state = PCB_RUNNING
      BY <1>3, <2>1, <2>3, <2>6, <3>1 DEF Stripped
    <3>3. ~Probing(r) /\ ~PCB_STATE_IS_ANNOUNCING(r)
      BY <3>2 DEF Probing, PCB_STATE_IS_ANNOUNCING, PCB_PROBE_1, PCB_PROBE_3, PCB_RUNNING
    <3>4. OpenOk(n, p) /\ Unnamed(n, p)
      BY <2>3, <3>2, <3>3
         DEF OpenOk, Unnamed, ListOk, PCB_PROBE_1, PCB_RUNNING
    <3>5. NoLateConflict => PointersOk(n, p, S)
      BY <2>3, <3>2 DEF PointersOk
    <3>6. ASSUME NoLateConflict, n.hostname, NEW k \in N PROVE NameOk(r, k, n.probes[p][k])
      <4>1. NameOk(pcb, k, m.probes[p][k])
        BY <1>3, <3>6 DEF PcbOk, NamesOk
      <4>2. k \notin Listed(pcb)
        BY <3>1
      <4> QED
        BY <3>3, <4>1, <4>2 DEF NameOk
    <3> QED
      BY <3>2, <3>4, <3>5, <3>6 DEF PcbOk, NamesOk
  <2>7. CASE s \in pcb.services /\ ~(pcb.services = {s} /\ ~pcb.ip)
    <3>1. /\ y.answers = {} /\ y.questions = Listed(pcb) \ {s} /\ y.servers = Listed(pcb) \ {s}
          /\ r.up /\ r.services = pcb.services \ {s} /\ r.ip = pcb.ip /\ r.running = pcb.running
          /\ r.state = pcb.state
      BY <1>3, <2>1, <2>3, <2>7 DEF Stripped
    <3>2. Listed(r) = Listed(pcb) \ {s} /\ Listed(r) # {}
      <4>1. Listed(r) = Listed(pcb) \ {s}
        BY <1>0, <3>1 DEF Listed, withIp
      <4>2. CASE pcb.ip
        <5>1. Host \in withIp(r.services, r.ip)
          BY <3>1, <4>2 DEF withIp
        <5> QED
          BY <4>1, <5>1 DEF Listed
      <4>3. CASE ~pcb.ip
        <5>1. PICK k \in pcb.services : k # s
          BY <2>7, <4>3
        <5> QED
          BY <3>1, <4>1, <5>1 DEF Listed, withIp
      <4> QED
        BY <4>1, <4>2, <4>3
    <3>3. Probing(r)
      BY <2>1, <3>1 DEF Probing
    <3>4. ProbeOk(n, p)
      BY <2>3, <3>1, <3>2 DEF ProbeOk
    <3>5. OpenOk(n, p) /\ Unnamed(n, p)
      BY <1>3, <3>1, <3>4
         DEF PcbOk, OpenOk, Unnamed, Probing, PCB_STATE_IS_ANNOUNCING, PCB_PROBE_1, PCB_PROBE_3
    <3>6. NoLateConflict => PointersOk(n, p, S)
      BY <2>3, <3>1 DEF PcbOk, PointersOk
    <3>7. ASSUME NoLateConflict, n.hostname, NEW k \in N PROVE NameOk(r, k, n.probes[p][k])
      <4>1. NameOk(pcb, k, m.probes[p][k])
        BY <1>3, <3>7 DEF PcbOk, NamesOk
      <4>2. (k \in Listed(r)) <=> (k \in Listed(pcb))
        BY <3>2
      <4> QED
        BY <2>1, <3>1, <3>3, <4>1, <4>2 DEF NameOk
    <3> QED
      BY <3>1, <3>5, <3>6, <3>7 DEF PcbOk, NamesOk
  <2> QED
    BY <2>5, <2>6, <2>7
<1> QED
  BY <1>1, <1>2, <1>3

(* One round of the loop.                                                   *)
Kept(m, n) == Len(n.txq) = Len(m.txq) /\ n.hostname = m.hostname /\ n.wire = m.wire /\ Opens(m, n)

LEMMA RemoveNext ==
    ASSUME NEW m \in Servers, NEW i \in 1 .. Len(m.txq), NEW s \in Services, NEW S,
           NEW N \in SUBSET Names, s \notin N, \A o \in Pcbs : Half(m, o, i - 1, s, S, N),
           NEW n, n = remove_from_packet(s, m, i)
    PROVE  n \in Servers /\ Kept(m, n) /\ \A o \in Pcbs : Half(n, o, i, s, S, N)
<1>0. m.txq \in Seq(Packets) /\ Len(m.txq) \in Nat /\ i \in Nat
  BY ServerFields, LenProperties
<1>1. PICK q : q = m.txq[i]
  OBVIOUS
<1>2. q \in Packets
  BY <1>0, <1>1, ElementOfSeq
<1>3. PICK p \in Pcbs : p = q.pcb
  BY <1>2 DEF Packets
<1>4. PICK y, r : Stripped(m, q, y, r, s)
                  /\ n = setPcb([m EXCEPT !.txq = [m.txq EXCEPT ![i] = y]], p, r)
  <2>1. PICK y, r : Stripped(m, m.txq[i], y, r, s)
                    /\ n = setPcb([m EXCEPT !.txq = [m.txq EXCEPT ![i] = y]], m.txq[i].pcb, r)
    <3>1. Removal(m, n, i, s)
      BY RemoveOne
    <3> QED
      BY <3>1 DEF Removal
  <2>2. Stripped(m, q, y, r, s)
    BY <1>1, <2>1
  <2>3. n = setPcb([m EXCEPT !.txq = [m.txq EXCEPT ![i] = y]], p, r)
    BY <1>1, <1>3, <2>1
  <2> QED
    BY <2>2, <2>3
<1>5. /\ y \in Packets /\ y.pcb = p /\ r \in PcbStates /\ r.up = m.pcbs[p].up
      /\ y.answers = q.answers \ {s}
  BY <1>3, <1>4 DEF Stripped
<1>6. PICK t : t = [m.txq EXCEPT ![i] = y]
  OBVIOUS
<1>7. /\ t \in Seq(Packets) /\ Len(t) = Len(m.txq) /\ t[i] = y
      /\ \A k \in 1 .. Len(m.txq) : k # i => t[k] = m.txq[k]
  BY <1>0, <1>5, <1>6, ExceptSeq
<1>8. Replaced(m.txq, i, y, t)
  BY <1>0, <1>1, <1>3, <1>5, <1>7, ReplacedIn
<1>9. PICK a : a = [m EXCEPT !.txq = t]
  OBVIOUS
<1>10. /\ a \in Servers /\ a.txq = t /\ a.hostname = m.hostname
       /\ a.pcbs = m.pcbs /\ a.probes = m.probes /\ a.wire = m.wire
  BY <1>7, <1>9, NewQueue
<1>11. /\ n \in Servers /\ n.txq = t /\ n.hostname = m.hostname /\ n.pcbs[p] = r
       /\ n.probes = m.probes /\ n.wire = m.wire
       /\ \A o \in Pcbs \ {p} : n.pcbs[o] = m.pcbs[o]
  <2>1. n = setPcb(a, p, r)
    BY <1>4, <1>6, <1>9
  <2> QED
    BY <1>5, <1>10, <2>1, NewPcb
<1>12. Others(m, n, p)
  BY <1>5, <1>8, <1>11 DEF Others, Replaced
<1>13. PcbOk(n, p, S, N) /\ (r.up => s \notin r.services)
  <2>1. /\ y \in Of(n.txq, p)
        /\ \A z \in Of(n.txq, p) : z = y \/ z \in Of(m.txq, p)
        /\ \A z \in Of(m.txq, p) : z = q \/ z \in Of(n.txq, p)
        /\ Alone(m.txq, p) => Alone(n.txq, p) /\ Of(n.txq, p) = {y}
    BY <1>1, <1>5, <1>8, <1>11 DEF Replaced
  <2>2. PcbOk(m, p, S, N) /\ q \in Of(m.txq, p)
    BY <1>0, <1>1, <1>3, OfMember DEF Half
  <2>3. q.pcb = p /\ Stripped(m, q, y, r, s)
    BY <1>3, <1>4
  <2>4. n \in Servers /\ n.hostname = m.hostname /\ n.pcbs[p] = r /\ n.probes = m.probes
    BY <1>11
  <2> QED
    BY <2>1, <2>2, <2>3, <2>4, StrippedOk
<1>14. Half(n, p, i, s, S, N)
  <2>1. ASSUME NEW k \in 1 .. i, n.txq[k].pcb = p PROVE s \notin n.txq[k].answers
    <3>1. CASE k = i
      BY <1>5, <1>7, <1>11, <3>1
    <3>2. CASE k # i
      <4>1. k \in 1 .. i - 1 /\ k \in 1 .. Len(m.txq)
        BY <1>0, <3>2
      <4> QED
        BY <1>7, <1>11, <2>1, <3>2, <4>1 DEF Half
    <3> QED
      BY <3>1, <3>2
  <2> QED
    BY <1>11, <1>13, <2>1 DEF Half
<1>15. ASSUME NEW o \in Pcbs, o # p PROVE Half(n, o, i, s, S, N)
  <2>1. Half(m, o, i - 1, s, S, N)
    OBVIOUS
  <2>2. PcbOk(n, o, S, N) /\ n.pcbs[o] = m.pcbs[o]
    BY <1>12, <1>15, <2>1, OthersOk DEF Half
  <2>3. ASSUME NEW k \in 1 .. i, n.txq[k].pcb = o PROVE s \notin n.txq[k].answers
    <3>1. k # i
      BY <1>5, <1>7, <1>11, <1>15, <2>3
    <3>2. k \in 1 .. i - 1 /\ k \in 1 .. Len(m.txq)
      BY <1>0, <3>1
    <3> QED
      BY <1>7, <1>11, <2>1, <2>3, <3>1, <3>2 DEF Half
  <2>4. ASSUME n.pcbs[o].up, s \in n.pcbs[o].services
        PROVE  \E k \in i + 1 .. Len(n.txq) : n.txq[k].pcb = o
    <3>1. PICK k \in (i - 1) + 1 .. Len(m.txq) : m.txq[k].pcb = o
      BY <2>1, <2>2, <2>4 DEF Half
    <3>2. k # i
      BY <1>1, <1>3, <1>15, <3>1
    <3>3. k \in i + 1 .. Len(m.txq) /\ k \in 1 .. Len(m.txq)
      BY <1>0, <3>1, <3>2
    <3> QED
      BY <1>7, <1>11, <3>1, <3>2, <3>3
  <2> QED
    BY <2>2, <2>3, <2>4 DEF Half
<1>16. Kept(m, n)
  <2>1. Opens(m, n)
    BY <1>5, <1>11 DEF Opens
  <2> QED
    BY <1>7, <1>11, <2>1 DEF Kept
<1> QED
  BY <1>11, <1>14, <1>15, <1>16

RemoveRounds == INSTANCE LoopProofs WITH Step <- remove_from_packet, Good <- remove_from_packet

LEMMA RemoveAll ==
    ASSUME NEW m, NEW s \in Services, NEW S, NEW N \in SUBSET Names, s \notin N,
           Fine(m, S, N), NEW n, n = removed!loop(s, m, Len(m.txq))
    PROVE  Handled(m, n, S \ {s}, N)
<1> DEFINE L == Len(m.txq)
           G == {z \in (0 .. L) \X Servers :
                    Kept(m, z[2]) /\ \A o \in Pcbs : Half(z[2], o, z[1], s, S, N)}
<1>0. m \in Servers /\ L \in Nat /\ m.txq \in Seq(Packets)
  BY ServerFields, LenProperties DEF Fine
<1>1. ASSUME NEW o \in Pcbs PROVE Half(m, o, 0, s, S, N)
  <2>1. PcbOk(m, o, S, N) /\ m.pcbs[o].state \in 0 .. 9
    BY <1>0, ServerFields DEF Fine, PcbStates
  <2>2. ASSUME m.pcbs[o].up, s \in m.pcbs[o].services
        PROVE  \E k \in 0 + 1 .. Len(m.txq) : m.txq[k].pcb = o
    <3>1. ~(m.pcbs[o].state > PCB_PROBE_3)
      BY <2>1, <2>2 DEF PcbOk, OpenOk, ListOk
    <3>2. Probing(m.pcbs[o])
      BY <2>1, <2>2, <3>1 DEF PcbOk, OpenOk, Probing, PCB_PROBE_1, PCB_PROBE_3
    <3>3. Of(m.txq, o) # {}
      BY <2>1, <2>2, <3>2 DEF PcbOk, OpenOk, ProbeOk
    <3>4. PICK k \in 1 .. Len(m.txq) : m.txq[k].pcb = o
      BY <3>3 DEF Of
    <3> QED
      BY <1>0, <3>4
  <2> QED
    BY <2>1, <2>2 DEF Half
<1>2. Kept(m, m)
  BY DEF Kept, Opens
<1> HIDE DEF L
<1>3. <<0, m>> \in G
  BY <1>0, <1>1, <1>2
<1>4. ASSUME NEW i \in 1 .. L, NEW y, <<i - 1, y>> \in G
      PROVE  <<i, remove_from_packet(s, y, i)>> \in G
  <2>1. y \in Servers /\ Kept(m, y) /\ \A o \in Pcbs : Half(y, o, i - 1, s, S, N)
    BY <1>4
  <2>2. PICK z : z = remove_from_packet(s, y, i)
    OBVIOUS
  <2>3. i \in 1 .. Len(y.txq)
    BY <2>1 DEF Kept, L
  <2>4. z \in Servers /\ Kept(y, z) /\ \A o \in Pcbs : Half(z, o, i, s, S, N)
    BY <2>1, <2>2, <2>3, RemoveNext
  <2>5. Kept(m, z)
    BY <2>1, <2>4 DEF Kept, Opens
  <2>6. i \in 0 .. L
    BY <1>0
  <2> QED
    BY <2>2, <2>4, <2>5, <2>6
<1> HIDE DEF G
<1>5. <<L, RemoveRounds!loop(s, m, L)>> \in G
  BY <1>0, <1>3, <1>4, RemoveRounds!LoopStays
<1>6. n = RemoveRounds!loop(s, m, L)
  BY DEF L, RemoveRounds!loop, removed!loop
<1>7. n \in Servers /\ Kept(m, n) /\ \A o \in Pcbs : Half(n, o, L, s, S, N)
  BY <1>5, <1>6 DEF G
<1>8. Len(n.txq) = L /\ n.txq \in Seq(Packets)
  BY <1>7, ServerFields DEF Kept, L
<1>9. ASSUME NEW o \in Pcbs PROVE PcbOk(n, o, S \ {s}, N)
  <2>1. PcbOk(n, o, S, N) /\ (n.pcbs[o].up => s \notin n.pcbs[o].services)
    BY <1>0, <1>7, <1>8 DEF Half
  <2>2. ASSUME NEW q \in Of(n.txq, o) PROVE s \notin q.answers
    <3>1. PICK k \in 1 .. L : n.txq[k] = q /\ n.txq[k].pcb = o
      BY <1>8 DEF Of
    <3> QED
      BY <1>7, <3>1 DEF Half
  <2>3. NoLateConflict => PointersOk(n, o, S \ {s})
    BY <2>1, <2>2 DEF PcbOk, PointersOk
  <2> QED
    BY <2>1, <2>3 DEF PcbOk
<1> QED
  BY <1>7, <1>9 DEF Handled, Fine, Kept

(* Packets that are left with nothing are dropped.                          *)
LEMMA DropEmpty ==
    ASSUME NEW m, NEW S, NEW N, Fine(m, S, N), NEW n,
           n = [m EXCEPT !.txq = without(@, {k \in 1 .. Len(@) : empty(@[k])})]
    PROVE  Handled(m, n, S, N)
<1>1. m \in Servers /\ m.txq \in Seq(Packets)
  BY ServerFields DEF Fine
<1>2. PICK D : D = {k \in 1 .. Len(m.txq) : empty(m.txq[k])}
  OBVIOUS
<1>3. PICK t : t = without(m.txq, D)
  OBVIOUS
<1>4. /\ t \in Seq(Packets)
      /\ \A o : Of(t, o) = {m.txq[k] : k \in {i \in 1 .. Len(m.txq) :
                                                   m.txq[i].pcb = o /\ i \notin D}}
      /\ \A o : Alone(m.txq, o) => Alone(t, o)
  BY <1>1, <1>3, WithoutPlaces
<1>5. n = [m EXCEPT !.txq = t]
  BY <1>1, <1>2, <1>3 DEF Servers
<1>6. /\ n \in Servers /\ n.txq = t /\ n.hostname = m.hostname
      /\ n.pcbs = m.pcbs /\ n.probes = m.probes /\ n.wire = m.wire
  <2>1. t \in Seq(Packets)
    BY <1>4
  <2>2. PICK a : a = [m EXCEPT !.txq = t]
    OBVIOUS
  <2>3. n = a
    BY <1>5, <2>2
  <2> QED
    <3>1. /\ a \in Servers /\ a.txq = t /\ a.hostname = m.hostname
          /\ a.pcbs = m.pcbs /\ a.probes = m.probes /\ a.wire = m.wire
      BY <1>1, <2>1, <2>2, NewQueue
    <3> QED
      BY <2>3, <3>1
<1>7. ASSUME NEW o \in Pcbs PROVE PcbOk(n, o, S, N)
  <2>1. PcbOk(m, o, S, N)
    BY DEF Fine
  <2>2. ASSUME NEW q \in Of(t, o) PROVE q \in Of(m.txq, o)
    <3>1. PICK k \in 1 .. Len(m.txq) : m.txq[k] = q /\ m.txq[k].pcb = o
      BY <1>4
    <3> QED
      BY <3>1 DEF Of
  <2>3. ASSUME NEW q \in Of(m.txq, o), ~empty(q) PROVE q \in Of(t, o)
    <3>1. PICK k \in 1 .. Len(m.txq) : m.txq[k] = q /\ m.txq[k].pcb = o
      BY DEF Of
    <3>2. k \notin D
      BY <1>2, <2>3, <3>1
    <3> QED
      BY <1>4, <3>1, <3>2
  <2>4. ASSUME ProbeOk(m, o) PROVE ProbeOk(n, o)
    <3>1. PICK q : q \in Of(m.txq, o)
      BY <2>4 DEF ProbeOk
    <3>2. ~empty(q)
      BY <2>4, <3>1 DEF ProbeOk, empty
    <3>3. Of(t, o) # {}
      BY <2>3, <3>1, <3>2
    <3> QED
      BY <1>4, <1>6, <2>2, <2>4, <3>3 DEF ProbeOk
  <2>5. ASSUME AnnounceOk(m, o) PROVE AnnounceOk(n, o)
    <3>1. PICK q \in Of(m.txq, o) : ~q.distributed /\ q.answers # {}
      BY <2>5 DEF AnnounceOk
    <3>2. ~empty(q)
      BY <3>1 DEF empty
    <3> QED
      BY <1>6, <2>3, <3>1, <3>2 DEF AnnounceOk
  <2>6. ListOk(m, o) => ListOk(n, o)
    BY <1>6, <2>2 DEF ListOk
  <2>7. OpenOk(n, o) /\ Unnamed(n, o)
    BY <1>6, <2>1, <2>4, <2>5, <2>6 DEF PcbOk, OpenOk, Unnamed
  <2>8. NoLateConflict => PointersOk(n, o, S) /\ NamesOk(n, o, N)
    BY <1>6, <2>1, <2>2 DEF PcbOk, PointersOk, NamesOk
  <2> QED
    BY <2>7, <2>8 DEF PcbOk
<1> QED
  BY <1>6, <1>7 DEF Handled, Fine, Opens

LEMMA RemoveService ==
    ASSUME NEW m, NEW s \in Services, NEW S, NEW N \in SUBSET Names, Fine(m, S, N),
           NEW n, n = remove_scheduled_service_packets(m, s)
    PROVE  Handled(m, n, S \ {s}, N \ {s})
<1>1. PICK a : a = forget(m, Pcbs, {s})
  OBVIOUS
<1>2. PICK b : b = removed!loop(s, a, Len(a.txq))
  OBVIOUS
<1>3. /\ Fine(a, S, N \ {s}) /\ a.hostname = m.hostname /\ a.wire = m.wire
      /\ a.pcbs = m.pcbs /\ a.txq = m.txq
  <2>1. PICK ps, ns : ps = Pcbs /\ ns = {s}
    OBVIOUS
  <2>2. a = forget(m, ps, ns)
    BY <1>1, <2>1
  <2>3. /\ Fine(a, S, N \ ns) /\ a.hostname = m.hostname /\ a.wire = m.wire
        /\ a.pcbs = m.pcbs /\ a.txq = m.txq
    BY <2>2, ForgetOk
  <2> QED
    BY <2>1, <2>3
<1>4. Handled(m, a, S, N \ {s})
  BY <1>3 DEF Handled, Opens
<1>5. Handled(a, b, S \ {s}, N \ {s})
  <2>1. PICK M \in SUBSET Names : M = N \ {s}
    OBVIOUS
  <2> QED
    BY <1>2, <1>3, <2>1, RemoveAll
<1>6. n = [b EXCEPT !.txq = without(@, {k \in 1 .. Len(@) : empty(@[k])})]
  BY <1>1, <1>2, <1>3 DEF remove_scheduled_service_packets
<1>7. Handled(b, n, S \ {s}, N \ {s})
  BY <1>5, <1>6, DropEmpty DEF Handled
<1> QED
  BY <1>4, <1>5, <1>7, HandledTrans

--------------------------------------------------------------------------------
(* Removing all services, one by one.                                       *)
LEMMA SetListed ==
    ASSUME NEW S, IsFiniteSet(S), NEW f, f = SetToSeq(S)
    PROVE  /\ Cardinality(S) \in Nat
           /\ \A i \in 1 .. Cardinality(S) : f[i] \in S
           /\ \A s \in S : \E i \in 1 .. Cardinality(S) : f[i] = s
<1>1. Cardinality(S) \in Nat /\ ExistsBijection(1 .. Cardinality(S), S)
  BY FS_CardinalityType
<1>2. PICK L \in Nat : L = Cardinality(S)
  BY <1>1
<1>3. PICK g : g \in Bijection(1 .. L, S)
  BY <1>1, <1>2 DEF ExistsBijection
<1>4. g \in [1 .. L -> S] /\ IsInjective(g)
  BY <1>3 DEF Bijection, Injection
<1>5. f \in [1 .. L -> S] /\ IsInjective(f)
  BY <1>2, <1>4 DEF SetToSeq
<1>6. f \in Injection(1 .. L, S)
  BY <1>5 DEF Injection
<1>7. Cardinality(1 .. L) = L
  <2>1. Cardinality(1 .. L) = IF 1 > L THEN 0 ELSE L - 1 + 1
    BY FS_Interval
  <2> QED
    BY <2>1
<1>8. f \in Surjection(1 .. L, S)
  BY <1>2, <1>6, <1>7, FS_Injection
<1> QED
  BY <1>1, <1>2, <1>5, <1>8 DEF Surjection

ClearRounds == INSTANCE LoopProofs WITH Step <- remove_next, Good <- remove_next

LEMMA ClearAll ==
    ASSUME NEW m, NEW S \in SUBSET Services, NEW N \in SUBSET Names, N = S \cup {Host},
           Fine(m, S, N), NEW n, n = cleared!loop(SetToSeq(S), m, Cardinality(S))
    PROVE  Handled(m, n, {}, {Host})
<1>1. PICK f : f = SetToSeq(S)
  OBVIOUS
<1>2. IsFiniteSet(S)
  BY MdnsAssumption, FS_Subset
<1>3. PICK L \in Nat : L = Cardinality(S)
  BY <1>2, FS_CardinalityType
<1>4. (\A i \in 1 .. L : f[i] \in S) /\ \A s \in S : \E i \in 1 .. L : f[i] = s
  BY <1>1, <1>2, <1>3, SetListed
<1> DEFINE gone(i) == {f[k] : k \in 1 .. i}
           G == {z \in (0 .. L) \X Servers : Handled(m, z[2], S \ gone(z[1]), N \ gone(z[1]))}
<1>5. <<0, m>> \in G
  <2>1. gone(0) = {}
    OBVIOUS
  <2>2. Handled(m, m, S, N) /\ m \in Servers
    BY HandledSame DEF Fine
  <2>3. S \ gone(0) = S /\ N \ gone(0) = N
    BY <2>1
  <2> HIDE DEF gone
  <2> QED
    BY <2>2, <2>3
<1>6. ASSUME NEW i \in 1 .. L PROVE gone(i) = gone(i - 1) \cup {f[i]}
  <2>1. \A k : k \in 1 .. i <=> k \in 1 .. i - 1 \/ k = i
    OBVIOUS
  <2> QED
    BY <2>1
<1> HIDE DEF gone
<1>7. ASSUME NEW i \in 1 .. L, NEW y, <<i - 1, y>> \in G PROVE <<i, remove_next(f, y, i)>> \in G
  <2>1. y \in Servers /\ Handled(m, y, S \ gone(i - 1), N \ gone(i - 1))
    BY <1>7
  <2>2. PICK z : z = remove_next(f, y, i)
    OBVIOUS
  <2>3. PICK s \in Services : s = f[i]
    BY <1>4
  <2>4. z = remove_scheduled_service_packets(y, s)
    BY <2>2, <2>3 DEF remove_next
  <2>5. PICK T, M \in SUBSET Names : T = S \ gone(i - 1) /\ M = N \ gone(i - 1)
    OBVIOUS
  <2>6. Fine(y, T, M)
    BY <2>1, <2>5 DEF Handled
  <2>7. Handled(y, z, T \ {s}, M \ {s})
    BY <2>4, <2>6, RemoveService
  <2>8. T \ {s} = S \ gone(i) /\ M \ {s} = N \ gone(i)
    BY <1>6, <2>3, <2>5
  <2>9. Handled(m, z, S \ gone(i), N \ gone(i))
    <3>1. Handled(m, y, T, M)
      BY <2>1, <2>5
    <3>2. PICK T1, M1 : T1 = T \ {s} /\ M1 = M \ {s}
      OBVIOUS
    <3>3. Handled(m, z, T1, M1)
      BY <2>7, <3>1, <3>2, HandledTrans
    <3> QED
      BY <2>8, <3>2, <3>3
  <2>10. z \in Servers /\ i \in 0 .. L
    BY <2>7 DEF Handled, Fine
  <2> QED
    BY <2>2, <2>9, <2>10
<1> HIDE DEF G
<1>8. <<L, ClearRounds!loop(f, m, L)>> \in G
  BY <1>5, <1>7, ClearRounds!LoopStays
<1>9. n = ClearRounds!loop(f, m, L)
  BY <1>1, <1>3 DEF ClearRounds!loop, cleared!loop
<1>10. Handled(m, n, S \ gone(L), N \ gone(L))
  BY <1>8, <1>9 DEF G
<1>11. S \ gone(L) = {} /\ N \ gone(L) = {Host}
  <2>1. gone(L) = S
    BY <1>4 DEF gone
  <2> QED
    BY <2>1, MdnsAssumption
<1> QED
  BY <1>10, <1>11

--------------------------------------------------------------------------------
(* Known answers: a delayed answer loses a record, an announcement none.    *)
LEMMA KnownAnswer ==
    ASSUME NEW m, NEW p, NEW a, NEW last, NEW S, NEW N, Fine(m, S, N),
           NEW n, n = remove_scheduled_answer(m, p, a, last)
    PROVE  Handled(m, n, S, N)
<1>1. m \in Servers /\ m.txq \in Seq(Packets) /\ Len(m.txq) \in Nat
  BY ServerFields, LenProperties DEF Fine
<1>2. PICK s \in Seq(Packets) : s = m.txq
  BY <1>1
<1> DEFINE less(q) == drop_answer(q, p, a, last)
           t == [k \in 1 .. Len(s) |-> less(s[k])]
<1>3. ASSUME NEW q \in Packets
      PROVE  /\ less(q) \in Packets /\ less(q).pcb = q.pcb /\ less(q).questions = q.questions
             /\ less(q).servers = q.servers /\ less(q).answers \subseteq q.answers
             /\ ~q.distributed => less(q) = q
  BY DEF Packets, drop_answer
<1>4. n = [m EXCEPT !.txq = t]
  <2>1. n = [m EXCEPT !.txq = [k \in 1 .. Len(m.txq) |-> less(m.txq[k])]]
    BY DEF remove_scheduled_answer
  <2> QED
    BY <1>2, <2>1
<1> HIDE DEF less
<1>5. t \in Seq(Packets) /\ Len(t) = Len(s) /\ \A k \in 1 .. Len(s) : t[k] = less(s[k])
  <2>1. \A k \in 1 .. Len(s) : s[k] \in Packets
    BY ElementOfSeq
  <2>2. Len(s) \in Nat
    BY LenProperties
  <2>3. t \in [1 .. Len(s) -> Packets]
    BY <1>3, <2>1
  <2> QED
    BY <2>2, <2>3
<1> HIDE DEF t
<1>6. /\ n \in Servers /\ n.txq = t /\ n.hostname = m.hostname
      /\ n.pcbs = m.pcbs /\ n.probes = m.probes /\ n.wire = m.wire
  BY <1>1, <1>4, <1>5, NewQueue
<1>7. ASSUME NEW o \in Pcbs PROVE PcbOk(n, o, S, N)
  <2>1. PcbOk(m, o, S, N)
    BY DEF Fine
  <2>2. ASSUME NEW q \in Of(t, o)
        PROVE  \E z \in Of(s, o) : /\ q.questions = z.questions /\ q.servers = z.servers
                                   /\ q.answers \subseteq z.answers
    <3>1. PICK k \in 1 .. Len(s) : t[k] = q /\ t[k].pcb = o
      BY <1>5 DEF Of
    <3>2. s[k] \in Packets /\ q = less(s[k])
      BY <1>5, <3>1, ElementOfSeq
    <3>3. s[k].pcb = o
      BY <1>3, <3>1, <3>2
    <3>4. s[k] \in Of(s, o)
      BY <3>3, OfMember
    <3> QED
      BY <1>3, <3>2, <3>4
  <2>3. ASSUME NEW z \in Of(s, o)
        PROVE  \E q \in Of(t, o) : ~z.distributed => q = z
    <3>1. PICK k \in 1 .. Len(s) : s[k] = z /\ s[k].pcb = o
      BY DEF Of
    <3>2. z \in Packets /\ t[k] = less(z)
      BY <1>5, <3>1, ElementOfSeq
    <3>3. t[k].pcb = o /\ k \in 1 .. Len(t)
      BY <1>3, <1>5, <3>1, <3>2
    <3>4. t[k] \in Of(t, o)
      BY <1>5, <3>3, OfMember
    <3> QED
      BY <1>3, <3>2, <3>4
  <2>4. Alone(s, o) => Alone(t, o)
    <3>1. \A k \in 1 .. Len(s) : t[k].pcb = s[k].pcb
      BY <1>3, <1>5, ElementOfSeq
    <3> QED
      BY <1>5, <3>1 DEF Alone
  <2>5. ASSUME ProbeOk(m, o) PROVE ProbeOk(n, o)
    <3>1. Of(t, o) # {} /\ Alone(t, o)
      BY <1>2, <2>3, <2>4, <2>5 DEF ProbeOk
    <3>2. ASSUME NEW q \in Of(t, o)
          PROVE  /\ q.questions = Listed(m.pcbs[o]) /\ q.servers = Listed(m.pcbs[o])
                 /\ q.answers = {}
      BY <1>2, <2>2, <2>5 DEF ProbeOk
    <3> QED
      BY <1>6, <2>5, <3>1, <3>2 DEF ProbeOk
  <2>6. ASSUME AnnounceOk(m, o) PROVE AnnounceOk(n, o)
    <3>1. PICK z \in Of(s, o) : ~z.distributed /\ z.answers # {}
      BY <1>2, <2>6 DEF AnnounceOk
    <3>2. z \in Of(t, o)
      BY <2>3, <3>1
    <3> QED
      BY <1>6, <3>1, <3>2 DEF AnnounceOk
  <2>7. ListOk(m, o) => ListOk(n, o)
    BY <1>2, <1>6, <2>2 DEF ListOk
  <2>8. OpenOk(n, o) /\ Unnamed(n, o)
    BY <1>6, <2>1, <2>5, <2>6, <2>7 DEF PcbOk, OpenOk, Unnamed
  <2>9. NoLateConflict => PointersOk(n, o, S)
    <3>1. ASSUME Of(s, o) = {} PROVE Of(t, o) = {}
      BY <2>2, <3>1
    <3>2. ASSUME NoLateConflict, NEW q \in Of(t, o) PROVE q.answers \subseteq S \cup {Host}
      BY <1>2, <2>1, <2>2, <3>2 DEF PcbOk, PointersOk
    <3> QED
      BY <1>2, <1>6, <2>1, <3>1, <3>2 DEF PcbOk, PointersOk
  <2>10. NoLateConflict => NamesOk(n, o, N)
    BY <1>6, <2>1 DEF PcbOk, NamesOk
  <2> QED
    BY <2>8, <2>9, <2>10 DEF PcbOk
<1> QED
  BY <1>6, <1>7 DEF Handled, Fine, Opens

--------------------------------------------------------------------------------
(* Received questions and records.  What handling one leaves behind.        *)
Replied(m, n, S, N) == Fine(n, S, N) /\ Opens(m, n) /\ n.hostname = m.hostname /\ WireOk(n)

LEMMA HandledReplied ==
    ASSUME NEW m, NEW n, NEW S, NEW N, Handled(m, n, S, N), WireOk(m)
    PROVE  Replied(m, n, S, N)
BY DEF Handled, Replied, WireOk

LEMMA SentReplied ==
    ASSUME NEW m, NEW n, NEW S, NEW N, Fine(m, S, N), Sent(m, n), WireOk(n)
    PROVE  Replied(m, n, S, N)
BY SentOk DEF Replied, Sent

(* The packet with a delayed answer.                                        *)
Later(m, p, a, truncated) ==
    [packet(m, p) EXCEPT !.answers = {a}, !.additional = {Host}, !.distributed = truncated]

LEMMA LaterOk ==
    ASSUME NEW m \in Servers, NEW p \in Pcbs, NEW a \in Names, NEW truncated \in BOOLEAN,
           NEW x, x = Later(m, p, a, truncated)
    PROVE  x \in Packets /\ x.pcb = p /\ x.questions = {} /\ x.servers = {} /\ x.answers = {a}
<1>1. PICK b : b = packet(m, p)
  OBVIOUS
<1>2. b \in Packets /\ b.pcb = p /\ b.questions = {} /\ b.servers = {}
  BY <1>1, PacketOk
<1> DEFINE c == [b EXCEPT !.answers = {a}]
           d == [c EXCEPT !.additional = {Host}]
<1>3. c \in Packets /\ c.pcb = p /\ c.questions = {} /\ c.servers = {} /\ c.answers = {a}
  BY <1>2 DEF Packets
<1> HIDE DEF c
<1>4. d \in Packets /\ d.pcb = p /\ d.questions = {} /\ d.servers = {} /\ d.answers = {a}
  BY <1>3 DEF Packets, Names
<1>5. x = [d EXCEPT !.distributed = truncated]
  BY <1>1, <1>2 DEF Later, c, Packets
<1> HIDE DEF d
<1> QED
  BY <1>4, <1>5 DEF Packets

LEMMA AnswerLater ==
    ASSUME toWrap \in Nat, NEW m, NEW p \in Pcbs, NEW S, NEW N \in SUBSET Names,
           N = S \cup {Host}, Fine(m, S, N), m.pcbs[p].state > PCB_PROBE_3, NEW a \in N,
           NEW truncated \in BOOLEAN, NEW wait \in Nat, NEW x, x = Later(m, p, a, truncated),
           NEW n, n = schedule(m, x, wait)
    PROVE  Handled(m, n, S, N)
<1>1. m \in Servers /\ PcbOk(m, p, S, N) /\ m.pcbs[p].state \in 0 .. 9
  BY ServerFields DEF Fine, PcbStates
<1>2. x \in Packets /\ x.pcb = p /\ x.questions = {} /\ x.servers = {} /\ x.answers = {a}
  BY <1>1, LaterOk
<1>3. Scheduled(m, x, n)
  BY <1>1, <1>2, ScheduleOk
<1>4. PICK y \in Packets : /\ y.pcb = p /\ y.questions = {} /\ y.servers = {} /\ y.answers = {a}
                           /\ Added(m.txq, n.txq, y)
  BY <1>2, <1>3 DEF Scheduled
<1>5. /\ n \in Servers /\ n.hostname = m.hostname /\ n.pcbs = m.pcbs
      /\ n.probes = m.probes /\ n.wire = m.wire /\ Others(m, n, p)
  BY <1>2, <1>3 DEF Scheduled
<1>6. Of(n.txq, p) = Of(m.txq, p) \cup {y}
  BY <1>4 DEF Added
<1>7. CASE m.pcbs[p].up
  <2>1. ListOk(m, p)
    BY <1>1, <1>7 DEF PcbOk, OpenOk
  <2>2. m.pcbs[p].services = {} /\ \A q \in Of(n.txq, p) : q.questions = {} /\ q.servers = {}
    BY <1>4, <1>6, <2>1 DEF ListOk
  <2>3. NoLateConflict => \A q \in Of(n.txq, p) : q.answers \subseteq S \cup {Host}
    BY <1>1, <1>4, <1>6 DEF PcbOk, PointersOk
  <2>4. PCB_STATE_IS_ANNOUNCING(n.pcbs[p]) => AnnounceOk(n, p)
    BY <1>1, <1>5, <1>6, <1>7 DEF PcbOk, OpenOk, AnnounceOk
  <2>5. PcbOk(n, p, S, N)
    BY <1>1, <1>5, <1>7, <2>2, <2>3, <2>4, PastProbes
  <2>6. Done(m, n, p, S, N)
    BY <1>5, <1>7, <2>5 DEF Done
  <2> QED
    BY <2>6, DoneAll
<1>8. CASE ~m.pcbs[p].up
  <2>1. ~NoLateConflict
    BY <1>1, <1>8 DEF PcbOk, PointersOk, PCB_PROBE_1, PCB_PROBE_3
  <2>2. PcbOk(n, p, S, N)
    BY <1>1, <1>5, <1>8, <2>1 DEF PcbOk, OpenOk, Unnamed
  <2>3. Done(m, n, p, S, N)
    BY <1>5, <1>8, <2>2 DEF Done
  <2> QED
    BY <2>3, DoneAll
<1> QED
  BY <1>7, <1>8

LEMMA OursOk ==
    ASSUME NEW a, ours(a)
    PROVE  a \in services \cup {Host}
BY DEF ours, get_service_item

LEMMA Answer ==
    ASSUME toWrap \in Nat, services \subseteq Services, NEW m, NEW p \in Pcbs, NEW rx \in RxKinds,
           rx.kind \in {"question", "unique"}, NEW wait \in Nat, WireOk(m),
           Fine(m, services, services \cup {Host}), NEW n, n = answer(m, p, rx, wait)
    PROVE  Replied(m, n, services, services \cup {Host})
<1>0. PICK S \in SUBSET Services, N \in SUBSET Names : S = services /\ N = services \cup {Host}
  BY DEF Names
<1>1. Fine(m, S, N) /\ m \in Servers /\ m.pcbs[p].state \in 0 .. 9
  BY <1>0, ServerFields DEF Fine, PcbStates
<1>2. CASE ~hostname \/ ~ours(rx.name) \/ m.pcbs[p].state =< PCB_PROBE_3
  <2>1. n = m
    BY <1>2 DEF answer
  <2> QED
    BY <1>0, <1>1, <2>1, HandledSame, HandledReplied
<1>3. CASE hostname /\ ours(rx.name) /\ ~(m.pcbs[p].state =< PCB_PROBE_3)
  <2>1. PICK a \in N : a = rx.name
    BY <1>0, <1>3, OursOk
  <2>2. m.pcbs[p].state > PCB_PROBE_3
    BY <1>1, <1>3 DEF PCB_PROBE_3
  <2>3. CASE rx.kind = "question"
    <3>1. rx.truncated \in BOOLEAN
      BY <2>3 DEF RxKinds
    <3>2. PICK truncated \in BOOLEAN : truncated = rx.truncated
      BY <3>1
    <3>3. PICK x : x = Later(m, p, a, truncated)
      OBVIOUS
    <3>4. n = schedule(m, x, wait)
      BY <1>3, <2>1, <2>3, <3>2, <3>3 DEF answer, Later
    <3>5. Handled(m, n, S, N)
      BY <1>0, <1>1, <2>2, <3>3, <3>4, AnswerLater
    <3> QED
      BY <1>0, <3>5, HandledReplied
  <2>4. CASE rx.kind # "question"
    <3>1. PICK l \in SUBSET N : l = {a, Host}
      BY <1>0
    <3>2. PICK x : x = Telling(m, p, l)
      OBVIOUS
    <3>3. n = dispatch(m, x)
      BY <1>3, <2>1, <2>4, <3>1, <3>2 DEF answer, Telling
    <3>4. x \in Packets /\ x.pcb = p /\ x.servers = {} /\ x.answers = l
      BY <1>1, <3>2, TellingOk
    <3>5. ~Probing(m.pcbs[p])
      BY <1>1, <2>2 DEF Probing, PCB_PROBE_1, PCB_PROBE_3
    <3>6. Sent(m, n) /\ WireOk(n)
      BY <1>1, <3>3, <3>4, <3>5, TellOk
    <3> QED
      BY <1>0, <1>1, <3>6, SentReplied
  <2> QED
    BY <2>3, <2>4
<1> QED
  BY <1>2, <1>3

(* One PCB probes again, for names of which only it may have lost some.     *)
LEMMA ProbeHere ==
    ASSUME toWrap \in Nat, NEW m \in Servers, NEW p \in Pcbs, NEW svcs \in SUBSET Services,
           NEW ip \in BOOLEAN, withIp(svcs, ip) # {}, NEW delay \in Nat, NEW S, NEW M,
           NEW N \in SUBSET Names, PcbOk(m, p, S, M), NoLateConflict => m.pcbs[p].up,
           \A o \in Pcbs \ {p} : PcbOk(m, o, S, N), svcs \subseteq S,
           N \subseteq M \cup withIp(svcs, ip), NEW n, n = init_pcb_probe(m, p, svcs, ip, delay)
    PROVE  Handled(m, n, S, N)
<1>1. MayProbe(m, p, svcs, ip, S, N)
  BY MayProbeAgain
<1>2. Done(m, n, p, S, N)
  BY <1>1, InitProbe
<1>3. /\ n \in Servers /\ n.wire = m.wire /\ Others(m, n, p)
      /\ (m.pcbs[p].up => n.pcbs[p].up) /\ PcbOk(n, p, S, N)
  BY <1>2 DEF Done
<1>4. ASSUME NEW o \in Pcbs PROVE PcbOk(n, o, S, N) /\ (m.pcbs[o].up => n.pcbs[o].up)
  <2>1. CASE o = p
    BY <1>3, <2>1
  <2>2. CASE o # p
    <3>1. PcbOk(m, o, S, N)
      BY <2>2
    <3> QED
      BY <1>3, <2>2, <3>1, OthersOk
  <2> QED
    BY <2>1, <2>2
<1> QED
  BY <1>3, <1>4 DEF Handled, Fine, Opens, Others

ForgottenHere(m, n, p, ns, S, N) ==
    /\ PcbOk(n, p, S, N \ ns) /\ Others(m, n, p) /\ n \in Servers /\ n.wire = m.wire
    /\ n.pcbs = m.pcbs /\ \A o \in Pcbs \ {p} : PcbOk(n, o, S, N)

LEMMA ForgetHere ==
    ASSUME NEW m, NEW p \in Pcbs, NEW ns, NEW S, NEW N \in SUBSET Names, Fine(m, S, N),
           NEW ps, ps = {p}, NEW n, n = forget(m, ps, ns)
    PROVE  ForgottenHere(m, n, p, ns, S, N)
<1>1. ps = {p}
  OBVIOUS
<1>2. n = forget(m, ps, ns)
  OBVIOUS
<1>3. /\ Fine(n, S, N \ ns) /\ n.hostname = m.hostname /\ n.wire = m.wire
      /\ n.pcbs = m.pcbs /\ n.txq = m.txq
  BY <1>2, ForgetOk
<1>4. m \in Servers /\ m.probes \in [Pcbs -> [Names -> 0 .. 4]]
  BY ServerFields DEF Fine, Counts
<1>5. n.probes = [q \in Pcbs |-> [a \in Names |-> IF q \in ps /\ a \in ns THEN 0 ELSE m.probes[q][a]]]
  BY <1>2, <1>4 DEF forget, Servers
<1>6. ASSUME NEW o \in Pcbs \ {p} PROVE n.probes[o] = m.probes[o]
  <2>1. n.probes[o] = [a \in Names |-> m.probes[o][a]]
    BY <1>1, <1>5
  <2> QED
    BY <1>4, <2>1
<1>7. Others(m, n, p)
  BY <1>3, <1>6 DEF Others, Elsewhere
<1>8. ASSUME NEW o \in Pcbs \ {p} PROVE PcbOk(n, o, S, N)
  <2>1. PcbOk(m, o, S, N) /\ o # p
    BY DEF Fine
  <2> QED
    BY <1>7, <2>1, OthersOk
<1> QED
  BY <1>3, <1>7, <1>8 DEF Fine, ForgottenHere

(* Conflicts.                                                               *)
LEMMA FailedForgotten ==
    ASSUME NEW m, NEW p \in Pcbs, NEW S, NEW N \in SUBSET Names, Fine(m, S, N), NEW ns,
           NEW n, n = forget(failedProbe(m, p), Pcbs, ns)
    PROVE  Handled(m, n, S, N \ ns)
<1>1. PICK a : a = failedProbe(m, p)
  OBVIOUS
<1>2. Handled(m, a, S, N)
  BY <1>1, FailedOk
<1>3. PICK ps : ps = Pcbs
  OBVIOUS
<1>4. n = forget(a, ps, ns)
  BY <1>1, <1>3
<1>5. Fine(a, S, N)
  BY <1>2 DEF Handled
<1>6. /\ Fine(n, S, N \ ns) /\ n.hostname = a.hostname /\ n.wire = a.wire /\ n.pcbs = a.pcbs
  BY <1>4, <1>5, ForgetOk
<1> QED
  BY <1>2, <1>6 DEF Handled, Opens

LEMMA SrvConflict ==
    ASSUME toWrap \in Nat, services \subseteq Services, NEW m, NEW p \in Pcbs, NEW s \in services,
           WireOk(m), Fine(m, services, services \cup {Host}), NoLateConflict => m.pcbs[p].up,
           NEW delay \in [Pcbs -> Nat], NEW n, n = srv_conflict(m, p, s, delay)
    PROVE  Replied(m, n, services, services \cup {Host})
<1>0. PICK S \in SUBSET Services, N \in SUBSET Names : S = services /\ N = services \cup {Host}
  BY DEF Names
<1>1. Fine(m, S, N) /\ m \in Servers /\ PcbOk(m, p, S, N)
  BY <1>0 DEF Fine
<1>2. PICK one \in SUBSET Services : one = {s}
  BY <1>0
<1>3. withIp(one, FALSE) = {s} /\ one \subseteq S /\ s \in N
  BY <1>0, <1>2 DEF withIp
<1>4. CASE ~m.pcbs[p].running
  <2>1. PICK a : a = pcb_send_bye(m, p, one, FALSE)
    OBVIOUS
  <2>2. PICK b : b = forget(a, {p}, one)
    OBVIOUS
  <2>3. PICK d \in Nat : d = delay[p]
    OBVIOUS
  <2>4. n = init_pcb_probe(b, p, one, FALSE, d)
    BY <1>2, <1>4, <2>1, <2>2, <2>3 DEF srv_conflict
  <2>5. m.pcbs[p].up => ~Probing(m.pcbs[p])
    BY <1>1, <1>4 DEF PcbOk, OpenOk, ProbeOk
  <2>6. Sent(m, a) /\ WireOk(a)
    <3>1. withIp(one, FALSE) \subseteq N
      BY <1>3
    <3> QED
      BY <1>1, <2>1, <2>5, <3>1, PcbSendBye
  <2>7. Replied(m, a, S, N)
    BY <1>1, <2>6, SentReplied
  <2>8. Fine(a, S, N)
    BY <2>7 DEF Replied
  <2>9. /\ PcbOk(b, p, S, N \ one) /\ Others(a, b, p) /\ b \in Servers /\ b.wire = a.wire
        /\ b.pcbs = a.pcbs /\ \A o \in Pcbs \ {p} : PcbOk(b, o, S, N)
    <3>1. PICK ps : ps = {p}
      OBVIOUS
    <3>2. b = forget(a, ps, one)
      BY <2>2, <3>1
    <3>3. ForgottenHere(a, b, p, one, S, N)
      BY <2>8, <3>1, <3>2, ForgetHere
    <3> QED
      BY <3>3 DEF ForgottenHere
  <2>10. PICK M : M = N \ one
    OBVIOUS
  <2>11. Handled(b, n, S, N)
    <3>1. N \subseteq M \cup withIp(one, FALSE) /\ withIp(one, FALSE) # {}
      BY <1>2, <1>3, <2>10
    <3>2. PcbOk(b, p, S, M) /\ b \in Servers /\ \A o \in Pcbs \ {p} : PcbOk(b, o, S, N)
      BY <2>9, <2>10
    <3>3. NoLateConflict => b.pcbs[p].up
      BY <2>6, <2>9 DEF Sent
    <3> QED
      BY <1>3, <2>4, <3>1, <3>2, <3>3, ProbeHere
  <2>12. Opens(m, n) /\ n.hostname = m.hostname /\ n.wire = a.wire
    BY <2>6, <2>9, <2>11 DEF Handled, Opens, Sent, Others
  <2>13. WireOk(n)
    BY <2>6, <2>12 DEF WireOk, Sent
  <2> QED
    BY <1>0, <2>11, <2>12, <2>13 DEF Replied, Handled
<1>5. CASE m.pcbs[p].running /\ ownInstance[s]
  <2>1. PICK a : a = forget(failedProbe(m, p), Pcbs, one)
    OBVIOUS
  <2>2. n = probe_all_pcbs(a, one, FALSE, FALSE, delay)
    BY <1>2, <1>5, <2>1 DEF srv_conflict
  <2>3. Handled(m, a, S, N \ one)
    BY <1>1, <2>1, FailedForgotten
  <2>4. PICK M : M = N \ one
    OBVIOUS
  <2>5. Fine(a, S, M) /\ a \in Servers
    BY <2>3, <2>4 DEF Handled, Fine
  <2>6. N \subseteq M \cup withIp(one, FALSE) /\ withIp(one, FALSE) # {}
    BY <1>2, <1>3, <2>4
  <2>7. \A o \in Pcbs : Ready(a, o, one, FALSE, FALSE, S, N)
    BY <1>3, <2>5, <2>6, ReadyJoin
  <2>8. Handled(a, n, S, N)
    BY <2>2, <2>5, <2>6, <2>7, ProbeAll
  <2>9. Handled(m, n, S, N)
    BY <2>3, <2>4, <2>8, HandledTrans
  <2> QED
    BY <1>0, <2>9, HandledReplied
<1>6. CASE m.pcbs[p].running /\ ~ownInstance[s] /\ instance
  <2>1. PICK w : w = withoutInstance
    OBVIOUS
  <2>2. PICK a : a = forget(failedProbe(m, p), Pcbs, w)
    OBVIOUS
  <2>3. n = restart_all_pcbs_no_instance(a, delay)
    BY <1>6, <2>1, <2>2 DEF srv_conflict
  <2>4. Handled(m, a, S, N \ w)
    BY <1>1, <2>2, FailedForgotten
  <2>5. Fine(a, services, (services \cup {Host}) \ withoutInstance)
    BY <1>0, <2>1, <2>4 DEF Handled
  <2>6. Handled(a, n, services, services \cup {Host})
    BY <2>3, <2>5, RestartSome
  <2>7. PICK M : M = N \ w
    OBVIOUS
  <2>8. Handled(m, n, S, N)
    BY <1>0, <2>4, <2>6, <2>7, HandledTrans
  <2> QED
    BY <1>0, <2>8, HandledReplied
<1>7. CASE m.pcbs[p].running /\ ~ownInstance[s] /\ ~instance
  <2>1. PICK w : w = Names
    OBVIOUS
  <2>2. PICK a : a = forget(failedProbe(m, p), Pcbs, w)
    OBVIOUS
  <2>3. n = restart_all_pcbs(a, delay)
    BY <1>7, <2>1, <2>2 DEF srv_conflict
  <2>4. Handled(m, a, S, N \ w)
    BY <1>1, <2>2, FailedForgotten
  <2>5. N \ w = {}
    BY <2>1
  <2>6. Fine(a, services, {})
    BY <1>0, <2>4, <2>5 DEF Handled
  <2>7. Handled(a, n, services, services \cup {Host})
    BY <2>3, <2>6, RestartAll
  <2>8. PICK M : M = N \ w
    OBVIOUS
  <2>9. Handled(m, n, S, N)
    BY <1>0, <2>4, <2>7, <2>8, HandledTrans
  <2> QED
    BY <1>0, <2>9, HandledReplied
<1> QED
  BY <1>4, <1>5, <1>6, <1>7

LEMMA TxtConflict ==
    ASSUME toWrap \in Nat, services \subseteq Services, NEW m, NEW p \in Pcbs, NEW s \in services,
           WireOk(m), Fine(m, services, services \cup {Host}), NoLateConflict => m.pcbs[p].up,
           NEW delay \in [Pcbs -> Nat], NEW n, n = txt_conflict(m, p, s, delay)
    PROVE  Replied(m, n, services, services \cup {Host})
<1>0. PICK S \in SUBSET Services, N \in SUBSET Names : S = services /\ N = services \cup {Host}
  BY DEF Names
<1>1. Fine(m, S, N) /\ m \in Servers /\ PcbOk(m, p, S, N)
  BY <1>0 DEF Fine
<1>2. PICK one \in SUBSET Services : one = {s}
  BY <1>0
<1>3. CASE m.pcbs[p].running
  <2>1. n = m
    BY <1>3 DEF txt_conflict
  <2> QED
    BY <1>0, <1>1, <2>1, HandledSame, HandledReplied
<1>4. CASE ~m.pcbs[p].running
  <2>1. PICK d \in Nat : d = delay[p]
    OBVIOUS
  <2>2. n = init_pcb_probe(m, p, one, TRUE, d)
    BY <1>2, <1>4, <2>1 DEF txt_conflict
  <2>3. withIp(one, TRUE) # {} /\ N \subseteq N \cup withIp(one, TRUE) /\ one \subseteq S
    BY <1>0, <1>2 DEF withIp
  <2>4. \A o \in Pcbs \ {p} : PcbOk(m, o, S, N)
    BY <1>1 DEF Fine
  <2>5. Handled(m, n, S, N)
    BY <1>1, <2>2, <2>3, <2>4, ProbeHere
  <2> QED
    BY <1>0, <2>5, HandledReplied
<1> QED
  BY <1>3, <1>4

LEMMA AddrConflict ==
    ASSUME toWrap \in Nat, services \subseteq Services, NEW m, NEW p \in Pcbs,
           WireOk(m), Fine(m, services, services \cup {Host}), NoLateConflict => m.pcbs[p].up,
           NEW delay \in [Pcbs -> Nat], NEW n, n = addr_conflict(m, p, delay)
    PROVE  Replied(m, n, services, services \cup {Host})
<1>0. PICK S \in SUBSET Services, N \in SUBSET Names : S = services /\ N = services \cup {Host}
  BY DEF Names
<1>1. Fine(m, S, N) /\ m \in Servers /\ PcbOk(m, p, S, N)
  BY <1>0 DEF Fine
<1>2. CASE m.pcbs[p].running
  <2>1. PICK w : w = Names
    OBVIOUS
  <2>2. PICK a : a = forget(failedProbe(m, p), Pcbs, w)
    OBVIOUS
  <2>3. n = restart_all_pcbs(a, delay)
    BY <1>2, <2>1, <2>2 DEF addr_conflict
  <2>4. Handled(m, a, S, N \ w)
    BY <1>1, <2>2, FailedForgotten
  <2>5. N \ w = {}
    BY <2>1
  <2>6. Fine(a, services, {})
    BY <1>0, <2>4, <2>5 DEF Handled
  <2>7. Handled(a, n, services, services \cup {Host})
    BY <2>3, <2>6, RestartAll
  <2>8. PICK M : M = N \ w
    OBVIOUS
  <2>9. Handled(m, n, S, N)
    BY <1>0, <2>4, <2>7, <2>8, HandledTrans
  <2> QED
    BY <1>0, <2>9, HandledReplied
<1>3. CASE ~m.pcbs[p].running
  <2>1. PICK one : one = {Host}
    OBVIOUS
  <2>2. PICK b : b = forget(m, {p}, one)
    OBVIOUS
  <2>3. PICK d \in Nat, none \in SUBSET Services : d = delay[p] /\ none = {}
    OBVIOUS
  <2>4. n = init_pcb_probe(b, p, none, TRUE, d)
    BY <1>3, <2>1, <2>2, <2>3 DEF addr_conflict
  <2>5. /\ PcbOk(b, p, S, N \ one) /\ Others(m, b, p) /\ b \in Servers /\ b.wire = m.wire
        /\ b.pcbs = m.pcbs /\ \A o \in Pcbs \ {p} : PcbOk(b, o, S, N)
    <3>1. PICK ps : ps = {p}
      OBVIOUS
    <3>2. b = forget(m, ps, one)
      BY <2>2, <3>1
    <3>3. ForgottenHere(m, b, p, one, S, N)
      BY <1>1, <3>1, <3>2, ForgetHere
    <3> QED
      BY <3>3 DEF ForgottenHere
  <2>6. PICK M : M = N \ one
    OBVIOUS
  <2>7. withIp(none, TRUE) = {Host}
    BY <2>3 DEF withIp
  <2>8. Handled(b, n, S, N)
    <3>1. N \subseteq M \cup withIp(none, TRUE) /\ withIp(none, TRUE) # {} /\ none \subseteq S
      BY <2>1, <2>3, <2>6, <2>7
    <3>2. PcbOk(b, p, S, M) /\ b \in Servers /\ \A o \in Pcbs \ {p} : PcbOk(b, o, S, N)
      BY <2>5, <2>6
    <3>3. NoLateConflict => b.pcbs[p].up
      BY <2>5
    <3> QED
      BY <2>4, <3>1, <3>2, <3>3, ProbeHere
  <2>9. Handled(m, n, S, N)
    BY <2>5, <2>8 DEF Handled, Opens, Others
  <2> QED
    BY <1>0, <2>9, HandledReplied
<1> QED
  BY <1>2, <1>3

--------------------------------------------------------------------------------
(* Interfaces.  A PCB is opened.                                            *)
LEMMA EnablePcb ==
    ASSUME toWrap \in Nat, services \subseteq Services, NEW m, NEW p \in Pcbs,
           Fine(m, services, services \cup {Host}), NEW joined, NEW delay \in [Pcbs -> Nat],
           NEW n, n = enable_pcb(m, p, joined, delay)
    PROVE  Done(m, n, p, services, services \cup {Host})
<1>0. PICK S \in SUBSET Services, N \in SUBSET Names, d \in Nat :
          S = services /\ N = services \cup {Host} /\ d = delay[p]
  BY DEF Names
<1>1. m \in Servers /\ PcbOk(m, p, S, N) /\ m.pcbs[p] \in PcbStates /\ Others(m, m, p)
  BY <1>0, ServerFields DEF Fine, Others, Elsewhere
<1>2. withIp(S, TRUE) = N /\ withIp(S, TRUE) # {}
  BY <1>0 DEF withIp
<1>3. CASE ~(m.pcbs[p].up \/ joined)
  <2>1. n = m
    BY <1>3 DEF enable_pcb
  <2> QED
    BY <1>0, <1>1, <2>1 DEF Done
<1>4. CASE m.pcbs[p].up
  <2>1. n = init_pcb_probe(m, p, S, TRUE, d)
    BY <1>0, <1>4 DEF enable_pcb, restart_pcb
  <2>2. MayProbe(m, p, S, TRUE, S, N)
    BY <1>1, <1>2, <1>4, MayProbeAgain
  <2> QED
    BY <1>0, <1>1, <1>2, <2>1, <2>2, InitProbe
<1>5. CASE ~m.pcbs[p].up /\ joined
  <2> DEFINE r1 == [m.pcbs[p] EXCEPT !.up = TRUE]
             r == [r1 EXCEPT !.failed = 0]
  <2>1. r1 \in PcbStates /\ r1.up /\ r1.services = m.pcbs[p].services
    BY <1>1 DEF PcbStates
  <2>2. PICK a : a = setPcb(m, p, r)
    OBVIOUS
  <2>3. a = [m EXCEPT !.pcbs[p].up = TRUE, !.pcbs[p].failed = 0]
    BY <1>1, <2>2 DEF setPcb, Servers, PcbStates
  <2> HIDE DEF r1
  <2>4. r \in PcbStates /\ r.up /\ r.services = m.pcbs[p].services
    BY <2>1 DEF PcbStates
  <2> HIDE DEF r
  <2>5. n = init_pcb_probe(a, p, S, TRUE, d)
    BY <1>0, <1>5, <2>3 DEF enable_pcb, restart_pcb
  <2>6. /\ a \in Servers /\ a.hostname = m.hostname /\ a.pcbs[p] = r
        /\ a.wire = m.wire /\ Others(m, a, p)
    BY <1>1, <2>2, <2>4, NewPcb
  <2>7. MayProbe(a, p, S, TRUE, S, N)
    <3>1. Unnamed(a, p)
      BY <1>1, <2>4, <2>6 DEF PcbOk, Unnamed
    <3>2. NoLateConflict => a.pcbs[p].services \subseteq S
      BY <1>1, <2>4, <2>6 DEF PcbOk, PointersOk
    <3>3. ASSUME NEW k \in N PROVE k \in Wanted(a.pcbs[p], S, TRUE)
      BY <1>2, <3>3 DEF Wanted, withIp
    <3> QED
      BY <2>4, <2>6, <3>1, <3>2, <3>3 DEF MayProbe
  <2>8. Done(a, n, p, S, N)
    BY <1>2, <2>5, <2>6, <2>7, InitProbe
  <2> QED
    BY <1>0, <1>5, <2>6, <2>8, OthersTrans DEF Done
<1> QED
  BY <1>3, <1>4, <1>5

(* A PCB is closed; what stopping some PCBs leaves behind.                  *)
Stopped(m, n, S, N) == Fine(n, S, N) /\ n.hostname = m.hostname /\ n.wire = m.wire

LEMMA ClosePcb ==
    ASSUME NEW m, NEW p \in Pcbs, NEW S, NEW N \in SUBSET Names, Fine(m, S, N),
           NEW n, n = pcb_deinit(clear_pcb_tx_queue(m, p), p)
    PROVE  Stopped(m, n, S, N) /\ ~n.pcbs[p].up /\ Others(m, n, p)
<1>1. PICK c : c = clear_pcb_tx_queue(m, p)
  OBVIOUS
<1>2. m \in Servers
  BY DEF Fine
<1>3. /\ c \in Servers /\ c.hostname = m.hostname /\ c.pcbs = m.pcbs
      /\ c.probes = m.probes /\ c.wire = m.wire /\ Others(m, c, p) /\ Of(c.txq, p) = {}
  BY <1>1, <1>2, ClearOk
<1> DEFINE ps == {p}
           cs == [q \in Pcbs |-> [a \in Names |-> IF q \in ps /\ a \in Names THEN 0
                                                  ELSE c.probes[q][a]]]
<1>4. c.probes \in [Pcbs -> [Names -> 0 .. 4]]
  BY <1>3, ServerFields DEF Counts
<1>5. cs \in Counts /\ \A o \in Pcbs \ {p} : cs[o] = c.probes[o]
  <2>1. cs \in Counts
    BY <1>4 DEF Counts
  <2>2. ASSUME NEW o \in Pcbs \ {p} PROVE cs[o] = c.probes[o]
    <3>1. cs[o] = [a \in Names |-> c.probes[o][a]]
      OBVIOUS
    <3> QED
      BY <1>4, <3>1
  <2> QED
    BY <2>1, <2>2
<1>6. PICK b : b = forget(c, {p}, Names)
  OBVIOUS
<1>7. b = [c EXCEPT !.probes = cs]
  BY <1>3, <1>6 DEF forget, Servers
<1> HIDE DEF cs
<1>8. /\ b \in Servers /\ b.hostname = m.hostname /\ b.wire = m.wire
      /\ b.pcbs = m.pcbs /\ b.txq = c.txq /\ b.probes = cs
  BY <1>3, <1>5, <1>7 DEF Servers
<1>9. Others(m, b, p)
  BY <1>3, <1>5, <1>8 DEF Others
<1>10. PICK r : r = Closed
  OBVIOUS
<1>11. r \in PcbStates /\ ~r.up /\ r.services = {} /\ r.state = 0
  BY <1>10 DEF Closed, PcbStates, PCB_OFF
<1>12. n = setPcb(b, p, r)
  BY <1>1, <1>6, <1>10 DEF pcb_deinit, setPcb
<1>13. /\ n \in Servers /\ n.txq = b.txq /\ n.hostname = b.hostname
       /\ n.pcbs[p] = r /\ n.wire = b.wire /\ Others(b, n, p)
  BY <1>8, <1>11, <1>12, NewPcb
<1>14. Others(m, n, p)
  BY <1>9, <1>13, OthersTrans
<1>15. PcbOk(n, p, S, N)
  <2>1. OpenOk(n, p) /\ Unnamed(n, p)
    BY <1>11, <1>13 DEF OpenOk, Unnamed
  <2>2. PointersOk(n, p, S)
    BY <1>3, <1>8, <1>11, <1>13 DEF PointersOk, PCB_PROBE_1
  <2>3. NamesOk(n, p, N)
    BY <1>11, <1>13 DEF NamesOk
  <2> QED
    BY <2>1, <2>2, <2>3 DEF PcbOk
<1>16. ASSUME NEW o \in Pcbs PROVE PcbOk(n, o, S, N)
  <2>1. CASE o = p
    BY <1>15, <2>1
  <2>2. CASE o # p
    <3>1. PcbOk(m, o, S, N)
      BY DEF Fine
    <3> QED
      BY <1>14, <2>2, <3>1, OthersOk
  <2> QED
    BY <2>1, <2>2
<1> QED
  BY <1>8, <1>11, <1>13, <1>14, <1>16 DEF Stopped, Fine

(* The state of a closed PCB says whether it is off or a duplicate.         *)
LEMMA ClosedState ==
    ASSUME NEW m, NEW p \in Pcbs, NEW S, NEW N, Fine(m, S, N), ~m.pcbs[p].up,
           NEW state \in 0 .. 9, state < PCB_PROBE_1, NEW n, n = setState(m, p, state)
    PROVE  Handled(m, n, S, N) /\ ~n.pcbs[p].up /\ Others(m, n, p)
<1>1. m \in Servers /\ PcbOk(m, p, S, N)
  BY DEF Fine
<1>2. StateSet(m, n, p, state)
  BY <1>1, SetStateOk
<1>3. /\ n \in Servers /\ n.txq = m.txq /\ n.hostname = m.hostname
      /\ n.probes = m.probes /\ n.wire = m.wire /\ Others(m, n, p)
      /\ n.pcbs[p].state = state /\ n.pcbs[p].up = m.pcbs[p].up
      /\ n.pcbs[p].services = m.pcbs[p].services
  BY <1>2 DEF StateSet
<1>4. OpenOk(n, p) /\ Unnamed(n, p)
  BY <1>1, <1>3 DEF OpenOk, PcbOk, Unnamed
<1>5. NoLateConflict => PointersOk(n, p, S) /\ NamesOk(n, p, N)
  BY <1>1, <1>3 DEF PcbOk, PointersOk, NamesOk
<1>6. Done(m, n, p, S, N)
  BY <1>3, <1>4, <1>5 DEF Done, PcbOk
<1>7. Handled(m, n, S, N)
  BY <1>6, DoneAll
<1> QED
  BY <1>3, <1>7

LEMMA OtherIf ==
    ASSUME NEW i
    PROVE  get_other_if(i) # i \/ i = "MAX"
BY DEF get_other_if

LEMMA DisablePcb ==
    ASSUME toWrap \in Nat, services \subseteq Services, NEW m, NEW p,
           Fine(m, services, services \cup {Host}), NEW joined, NEW delay \in [Pcbs -> Nat],
           NEW l, l = disable_pcb(m, p, joined, delay)
    PROVE  Stopped(m, l, services, services \cup {Host})
<1>0. PICK S \in SUBSET Services, N \in SUBSET Names : S = services /\ N = services \cup {Host}
  BY DEF Names
<1>1. CASE p \notin Pcbs
  BY <1>1 DEF disable_pcb, Stopped
<1>2. CASE p \in Pcbs /\ ~m.pcbs[p].up
  <2>1. l = setState(m, p, 0)
    BY <1>2 DEF disable_pcb, PCB_OFF
  <2>2. 0 \in 0 .. 9 /\ 0 < PCB_PROBE_1
    BY DEF PCB_PROBE_1
  <2>3. Handled(m, l, S, N)
    BY <1>0, <1>2, <2>1, <2>2, ClosedState
  <2> QED
    BY <1>0, <2>3 DEF Handled, Stopped
<1>3. CASE p \in Pcbs /\ m.pcbs[p].up
  <2>1. PICK n : n = pcb_deinit(clear_pcb_tx_queue(m, p), p)
    OBVIOUS
  <2>2. PICK other : other = <<get_other_if(p[1]), p[2]>>
    OBVIOUS
  <2>3. PICK o : o = IF other \in Pcbs /\ n.pcbs[other].state = PCB_DUP
                     THEN enable_pcb(setState(n, other, PCB_OFF), other, joined, delay)
                     ELSE n
    OBVIOUS
  <2>4. l = setState(o, p, 0)
    BY <1>3, <2>1, <2>2, <2>3 DEF disable_pcb, PCB_OFF
  <2>5. Stopped(m, n, S, N) /\ ~n.pcbs[p].up
    BY <1>0, <1>3, <2>1, ClosePcb
  <2>6. Fine(n, S, N)
    BY <2>5 DEF Stopped
  <2>7. Handled(n, o, S, N) /\ ~o.pcbs[p].up
    <3>1. CASE ~(other \in Pcbs /\ n.pcbs[other].state = PCB_DUP)
      BY <2>3, <2>5, <2>6, <3>1, HandledSame
    <3>2. CASE other \in Pcbs /\ n.pcbs[other].state = PCB_DUP
      <4>1. PICK a : a = setState(n, other, 0)
        OBVIOUS
      <4>2. o = enable_pcb(a, other, joined, delay)
        BY <2>3, <3>2, <4>1 DEF PCB_OFF
      <4>3. ~n.pcbs[other].up
        <5>1. PcbOk(n, other, S, N)
          BY <2>6, <3>2 DEF Fine
        <5> QED
          BY <3>2, <5>1 DEF PcbOk, OpenOk, PCB_DUP, PCB_PROBE_1
      <4>4. 0 \in 0 .. 9 /\ 0 < PCB_PROBE_1
        BY DEF PCB_PROBE_1
      <4>5. Handled(n, a, S, N) /\ Others(n, a, other)
        BY <2>6, <3>2, <4>1, <4>3, <4>4, ClosedState
      <4>6. Fine(a, services, services \cup {Host})
        BY <1>0, <4>5 DEF Handled
      <4>7. Done(a, o, other, S, N)
        BY <1>0, <3>2, <4>2, <4>6, EnablePcb
      <4>8. Handled(a, o, S, N)
        BY <1>0, <3>2, <4>6, <4>7, DoneAll
      <4>9. other # p
        <5>1. p \in {"STA", "AP", "ETH"} \X {"V4", "V6"}
          BY <1>3, PcbPairs
        <5>2. p[1] # "MAX"
          BY <5>1
        <5>3. other[1] # p[1]
          BY <2>2, <5>2, OtherIf
        <5> QED
          BY <5>3
      <4>10. ~o.pcbs[p].up
        <5>1. a.pcbs[p] = n.pcbs[p] /\ o.pcbs[p] = a.pcbs[p]
          BY <1>3, <4>5, <4>7, <4>9 DEF Others, Done
        <5> QED
          BY <2>5, <5>1
      <4> QED
        BY <4>5, <4>8, <4>10, HandledTrans
    <3> QED
      BY <3>1, <3>2
  <2>8. Handled(o, l, S, N)
    <3>1. 0 \in 0 .. 9 /\ 0 < PCB_PROBE_1
      BY DEF PCB_PROBE_1
    <3> QED
      BY <1>3, <2>4, <2>7, <3>1, ClosedState DEF Handled
  <2> QED
    BY <1>0, <2>5, <2>7, <2>8 DEF Handled, Stopped
<1> QED
  BY <1>1, <1>2, <1>3

(* The address is announced on a PCB.                                       *)
LEMMA AnnounceAddress ==
    ASSUME toWrap \in Nat, NEW m, NEW p \in Pcbs, NEW S, NEW N \in SUBSET Names, Fine(m, S, N),
           NEW d \in Nat, NEW none \in SUBSET Services, none = {},
           NEW n, n = announce_pcb(m, p, none, TRUE, d)
    PROVE  Handled(m, n, S, N)
<1>2. n = announce_pcb(m, p, none, TRUE, d)
  OBVIOUS
<1>3. withIp(none, TRUE) # {} /\ none \subseteq S
  BY DEF withIp
<1>4. m \in Servers /\ PcbOk(m, p, S, N)
  BY DEF Fine
<1>5. Done(m, n, p, S, N)
  BY <1>2, <1>3, <1>4, AnnouncePcb
<1> QED
  BY <1>5, DoneAll

LEMMA DupPcb ==
    ASSUME toWrap \in Nat, NEW x, x.delay \in [Pcbs -> Nat], NEW m, NEW k, PcbOrder[k] \in Pcbs,
           NEW S, NEW N \in SUBSET Names, Fine(m, S, N), NEW n, n = dup_pcb(x, m, k)
    PROVE  Stopped(m, n, S, N)
<1>1. PICK p \in Pcbs : p = PcbOrder[k]
  OBVIOUS
<1>2. PICK other : other = <<get_other_if(x.if), p[2]>>
  OBVIOUS
<1>3. PICK c : c = IF m.pcbs[p].up THEN pcb_deinit(clear_pcb_tx_queue(m, p), p) ELSE m
  OBVIOUS
<1>4. Stopped(m, c, S, N) /\ ~c.pcbs[p].up
  <2>1. CASE m.pcbs[p].up
    BY <1>3, <2>1, ClosePcb
  <2>2. CASE ~m.pcbs[p].up
    BY <1>3, <2>2 DEF Stopped
  <2> QED
    BY <2>1, <2>2
<1>5. CASE p[1] # x.if \/ other \notin Pcbs \/ ~m.pcbs[other].up
  <2>1. n = m
    BY <1>1, <1>2, <1>5 DEF dup_pcb
  <2> QED
    BY <2>1 DEF Stopped
<1>6. CASE ~(p[1] # x.if \/ other \notin Pcbs \/ ~m.pcbs[other].up)
  <2>1. PICK a : a = setState(c, p, 1)
    OBVIOUS
  <2>2. PICK delay \in [Pcbs -> Nat] : delay = x.delay
    OBVIOUS
  <2>3. n = announce_pcb(a, other, {}, TRUE, delay[other])
    BY <1>1, <1>2, <1>3, <1>6, <2>1, <2>2 DEF dup_pcb, PCB_DUP
  <2>4. 1 \in 0 .. 9 /\ 1 < PCB_PROBE_1
    BY DEF PCB_PROBE_1
  <2>5. Handled(c, a, S, N)
    BY <1>4, <2>1, <2>4, ClosedState DEF Stopped
  <2>6. Handled(a, n, S, N)
    <3>1. PICK none \in SUBSET Services, d \in Nat : none = {} /\ d = delay[other]
      BY <1>6
    <3>2. n = announce_pcb(a, other, none, TRUE, d)
      BY <2>3, <3>1
    <3>3. Fine(a, S, N) /\ other \in Pcbs
      BY <1>6, <2>5 DEF Handled
    <3> QED
      BY <3>1, <3>2, <3>3, AnnounceAddress
  <2> QED
    BY <1>4, <2>5, <2>6 DEF Stopped, Handled
<1> QED
  BY <1>5, <1>6

DupRounds == INSTANCE LoopProofs WITH Step <- dup_pcb, Good <- dup_pcb

LEMMA DupInterface ==
    ASSUME toWrap \in Nat, NEW i, NEW delay \in [Pcbs -> Nat], NEW m,
           NEW S, NEW N \in SUBSET Names, Fine(m, S, N), NEW n, n = dup_interface(m, i, delay)
    PROVE  Stopped(m, n, S, N)
<1> DEFINE L == Len(PcbOrder)
           x == [if |-> i, delay |-> delay]
           G == {z \in (0 .. L) \X Servers : Stopped(m, z[2], S, N)}
<1>0. L \in Nat /\ (\A k \in 1 .. L : PcbOrder[k] \in Pcbs)
  BY Visits
<1>1. x.delay = delay
  OBVIOUS
<1>2. n = duplicates!loop(x, m, L)
  BY DEF dup_interface
<1> HIDE DEF x, L
<1>3. <<0, m>> \in G
  <2>1. Stopped(m, m, S, N) /\ m \in Servers
    BY DEF Stopped, Fine
  <2> QED
    BY <1>0, <2>1
<1>4. ASSUME NEW k \in 1 .. L, NEW y, <<k - 1, y>> \in G PROVE <<k, dup_pcb(x, y, k)>> \in G
  <2>1. y \in Servers /\ Stopped(m, y, S, N)
    BY <1>4
  <2>2. PICK z : z = dup_pcb(x, y, k)
    OBVIOUS
  <2>3. Stopped(y, z, S, N)
    BY <1>0, <1>1, <2>1, <2>2, DupPcb DEF Stopped
  <2>4. Stopped(m, z, S, N) /\ z \in Servers
    BY <2>1, <2>3 DEF Stopped, Fine
  <2>5. k \in 0 .. L
    BY <1>0
  <2> QED
    BY <2>2, <2>4, <2>5
<1> HIDE DEF G
<1>5. <<L, DupRounds!loop(x, m, L)>> \in G
  BY <1>0, <1>3, <1>4, DupRounds!LoopStays
<1>6. n = DupRounds!loop(x, m, L)
  BY <1>2 DEF DupRounds!loop, duplicates!loop
<1> QED
  BY <1>5, <1>6 DEF G

LEMMA EnableAny ==
    ASSUME toWrap \in Nat, services \subseteq Services, NEW m, NEW p,
           Fine(m, services, services \cup {Host}), NEW joined, NEW delay \in [Pcbs -> Nat],
           NEW n, n = enable_pcb(m, p, joined, delay)
    PROVE  Handled(m, n, services, services \cup {Host})
<1>1. CASE p \in Pcbs
  BY <1>1, EnablePcb, DoneAll
<1>2. CASE p \notin Pcbs
  <2>1. n = m
    BY <1>2 DEF enable_pcb
  <2> QED
    BY <2>1, HandledSame
<1> QED
  BY <1>1, <1>2

LEMMA EnableIf ==
    ASSUME toWrap \in Nat, services \subseteq Services, NEW m, NEW i, NEW v, NEW w,
           Fine(m, services, services \cup {Host}), NEW joined, NEW delay \in [Pcbs -> Nat],
           NEW n, n = enable_if(m, i, v, w, joined, delay)
    PROVE  Handled(m, n, services, services \cup {Host})
<1>0. PICK N \in SUBSET Names : N = services \cup {Host}
  BY DEF Names
<1>1. PICK p, q : p = <<i, v>> /\ q = <<i, w>>
  OBVIOUS
<1>2. PICK a : a = enable_pcb(m, p, joined, delay)
  OBVIOUS
<1>3. Handled(m, a, services, N)
  BY <1>0, <1>2, EnableAny
<1>4. n = IF q \in Pcbs THEN announce_pcb(a, q, {}, TRUE, delay[q]) ELSE a
  BY <1>1, <1>2 DEF enable_if
<1>5. CASE q \notin Pcbs
  BY <1>0, <1>3, <1>4, <1>5
<1>6. CASE q \in Pcbs
  <2>1. Handled(a, n, services, N)
    <3>1. PICK none \in SUBSET Services, d \in Nat : none = {} /\ d = delay[q]
      BY <1>6
    <3>2. n = announce_pcb(a, q, none, TRUE, d)
      BY <1>4, <1>6, <3>1
    <3>3. Fine(a, services, N)
      BY <1>3 DEF Handled
    <3> QED
      BY <1>6, <3>1, <3>2, <3>3, AnnounceAddress
  <2> QED
    BY <1>0, <1>3, <2>1, HandledTrans
<1> QED
  BY <1>5, <1>6

LEMMA SystemEvent ==
    ASSUME toWrap \in Nat, services \subseteq Services, NEW m, NEW e \in SystemEvents,
           Fine(m, services, services \cup {Host}), NEW joined, NEW delay \in [Pcbs -> Nat],
           NEW n, n = handle_system_event(m, e, joined, delay)
    PROVE  /\ Stopped(m, n, services, services \cup {Host})
           /\ Opens(m, n) \/ e.event = "DISCONNECTED"
<1>0. e.event \in {"CONNECTED", "DISCONNECTED", "GOT_IP", "GOT_IP6"}
  BY DEF SystemEvents
<1>1. CASE e.event = "CONNECTED"
  <2>1. PICK p : p = <<e.if, "V4">>
    OBVIOUS
  <2>2. n = enable_pcb(m, p, joined, delay)
    BY <1>1, <2>1 DEF handle_system_event
  <2>3. Handled(m, n, services, services \cup {Host})
    BY <2>2, EnableAny
  <2> QED
    BY <2>3 DEF Handled, Stopped
<1>2. CASE e.event = "GOT_IP"
  <2>1. PICK i : i = e.if
    OBVIOUS
  <2>2. n = enable_if(m, i, "V4", "V6", joined, delay)
    BY <1>2, <2>1 DEF handle_system_event
  <2>3. Handled(m, n, services, services \cup {Host})
    BY <2>2, EnableIf
  <2> QED
    BY <2>3 DEF Handled, Stopped
<1>3. CASE e.event = "GOT_IP6"
  <2>1. PICK i : i = e.if
    OBVIOUS
  <2>2. n = enable_if(m, i, "V6", "V4", joined, delay)
    BY <1>3, <2>1 DEF handle_system_event
  <2>3. Handled(m, n, services, services \cup {Host})
    BY <2>2, EnableIf
  <2> QED
    BY <2>3 DEF Handled, Stopped
<1>4. CASE e.event = "DISCONNECTED"
  <2>1. PICK p, q : p = <<e.if, "V4">> /\ q = <<e.if, "V6">>
    OBVIOUS
  <2>2. PICK a : a = disable_pcb(m, p, joined, delay)
    OBVIOUS
  <2>3. n = disable_pcb(a, q, joined, delay)
    BY <1>4, <2>1, <2>2 DEF handle_system_event, disable_if
  <2>4. Stopped(m, a, services, services \cup {Host})
    BY <2>2, DisablePcb
  <2>5. Stopped(a, n, services, services \cup {Host})
    BY <2>3, <2>4, DisablePcb DEF Stopped
  <2> QED
    BY <1>4, <2>4, <2>5 DEF Stopped
<1> QED
  BY <1>0, <1>1, <1>2, <1>3, <1>4

--------------------------------------------------------------------------------
(* Steps.  The packets may be touched up: due earlier, or handed over.      *)
Alike(q, z) ==
    /\ q.pcb = z.pcb /\ q.questions = z.questions /\ q.servers = z.servers
    /\ q.answers = z.answers /\ q.distributed = z.distributed

LEMMA Retouched ==
    ASSUME NEW m, NEW n \in Servers, NEW S, NEW N, Fine(m, S, N), n.hostname = m.hostname,
           n.pcbs = m.pcbs, n.probes = m.probes, Len(n.txq) = Len(m.txq),
           \A k \in 1 .. Len(m.txq) : Alike(n.txq[k], m.txq[k])
    PROVE  Fine(n, S, N)
<1>1. m \in Servers
  BY DEF Fine
<1>2. PICK s \in Seq(Packets), t \in Seq(Packets) : s = m.txq /\ t = n.txq
  BY <1>1, ServerFields
<1>3. Len(t) = Len(s) /\ \A k \in 1 .. Len(s) : Alike(t[k], s[k])
  BY <1>2
<1>4. ASSUME NEW o \in Pcbs PROVE PcbOk(n, o, S, N)
  <2>1. PcbOk(m, o, S, N)
    BY DEF Fine
  <2>2. ASSUME NEW q \in Of(t, o) PROVE \E z \in Of(s, o) : Alike(q, z)
    <3>1. PICK k \in 1 .. Len(s) : t[k] = q /\ t[k].pcb = o
      BY <1>3 DEF Of
    <3>2. s[k].pcb = o
      BY <1>3, <3>1 DEF Alike
    <3>3. s[k] \in Of(s, o)
      BY <3>2, OfMember
    <3> QED
      BY <1>3, <3>1, <3>3
  <2>3. ASSUME NEW z \in Of(s, o) PROVE \E q \in Of(t, o) : Alike(q, z)
    <3>1. PICK k \in 1 .. Len(t) : s[k] = z /\ s[k].pcb = o
      BY <1>3 DEF Of
    <3>2. t[k].pcb = o
      BY <1>3, <3>1 DEF Alike
    <3>3. t[k] \in Of(t, o)
      BY <3>2, OfMember
    <3> QED
      BY <1>3, <3>1, <3>3
  <2>4. Alone(s, o) => Alone(t, o)
    <3>1. \A k \in 1 .. Len(s) : t[k].pcb = s[k].pcb
      BY <1>3 DEF Alike
    <3> QED
      BY <1>3, <3>1 DEF Alone
  <2>5. ASSUME ProbeOk(m, o) PROVE ProbeOk(n, o)
    <3>1. Of(t, o) # {} /\ Alone(t, o)
      BY <1>2, <2>3, <2>4, <2>5 DEF ProbeOk
    <3>2. ASSUME NEW q \in Of(t, o)
          PROVE  /\ q.questions = Listed(m.pcbs[o]) /\ q.servers = Listed(m.pcbs[o])
                 /\ q.answers = {}
      BY <1>2, <2>2, <2>5 DEF ProbeOk, Alike
    <3> QED
      BY <1>2, <2>5, <3>1, <3>2 DEF ProbeOk
  <2>6. ASSUME AnnounceOk(m, o) PROVE AnnounceOk(n, o)
    <3>1. PICK z \in Of(s, o) : ~z.distributed /\ z.answers # {}
      BY <1>2, <2>6 DEF AnnounceOk
    <3>2. PICK q \in Of(t, o) : Alike(q, z)
      BY <2>3
    <3> QED
      BY <1>2, <3>1, <3>2 DEF AnnounceOk, Alike
  <2>7. ListOk(m, o) => ListOk(n, o)
    BY <1>2, <2>2 DEF ListOk, Alike
  <2>8. OpenOk(n, o) /\ Unnamed(n, o)
    BY <2>1, <2>5, <2>6, <2>7 DEF PcbOk, OpenOk, Unnamed
  <2>9. NoLateConflict => PointersOk(n, o, S)
    <3>1. ASSUME Of(s, o) = {} PROVE Of(t, o) = {}
      BY <2>2, <3>1
    <3>2. ASSUME NoLateConflict, NEW q \in Of(t, o) PROVE q.answers \subseteq S \cup {Host}
      BY <1>2, <2>1, <2>2, <3>2 DEF PcbOk, PointersOk, Alike
    <3> QED
      BY <1>2, <2>1, <3>1, <3>2 DEF PcbOk, PointersOk
  <2>10. NoLateConflict => NamesOk(n, o, N)
    BY <2>1 DEF PcbOk, NamesOk
  <2> QED
    BY <2>8, <2>9, <2>10 DEF PcbOk
<1> QED
  BY <1>4 DEF Fine

(* The state in which an action is executed.                                *)
Current(m) ==
    /\ m \in Servers /\ Fine(m, services, services \cup {Host}) /\ WireOk(m) /\ m.wire = {}
    /\ m.hostname = hostname /\ m.pcbs = pcbs /\ m.txq = txq /\ m.probes = probes
    /\ toWrap \in Nat /\ services \subseteq Services /\ instance \in BOOLEAN
    /\ ownInstance \in [Services -> BOOLEAN] /\ queue \in Seq(Actions)
    /\ \A k \in 1 .. Len(queue) : ActionOk(queue[k], pcbs)

LEMMA RInvCurrent ==
    ASSUME RInv, NEW m, m = server_m
    PROVE  Current(m)
<1>1. /\ m \in Servers /\ services \subseteq Services /\ instance \in BOOLEAN
      /\ ownInstance \in [Services -> BOOLEAN] /\ queue \in Seq(Actions) /\ toWrap \in Nat
      /\ \A k \in 1 .. Len(queue) : ActionOk(queue[k], pcbs)
      /\ \A p \in Pcbs : PcbOk(m, p, services, services \cup {Host})
  BY DEF RInv
<1>2. /\ m.wire = {} /\ m.hostname = hostname /\ m.pcbs = pcbs /\ m.txq = txq
      /\ m.probes = probes
  BY DEF server_m
<1>3. WireOk(m)
  BY <1>2 DEF WireOk
<1> QED
  BY <1>1, <1>2, <1>3 DEF Current, Fine

LEMMA ActionShape ==
    ASSUME NEW a \in Actions
    PROVE  /\ a.type = "SYSTEM_EVENT" => a \in SystemEvents
           /\ a.type = "SERVICE_ADD" => a.service \in Services /\ a.own \in BOOLEAN
           /\ a.type \in ServiceActions => a.service \in Services
           /\ a.type = "RX_HANDLE" => a.pcb \in Pcbs /\ a.rx \in RxKinds
<1>1. CASE a \in SystemEvents
  BY <1>1 DEF SystemEvents, ServiceActions
<1>2. CASE a \in [type : {"HOSTNAME_SET", "INSTANCE_SET", "SERVICES_CLEAR"}]
  BY <1>2 DEF ServiceActions
<1>3. CASE a \in [type : {"SERVICE_ADD"}, service : Services, own : BOOLEAN]
  BY <1>3 DEF ServiceActions
<1>4. CASE a \in [type : ServiceActions, service : Services]
  BY <1>4 DEF ServiceActions
<1>5. CASE a \in [type : {"RX_HANDLE"}, pcb : Pcbs, rx : RxKinds]
  BY <1>5 DEF ServiceActions
<1>6. CASE a \in [type : {"TX_HANDLE"}, packet : Nat]
  BY <1>6 DEF ServiceActions
<1> QED
  BY <1>1, <1>2, <1>3, <1>4, <1>5, <1>6 DEF Actions

(* The new state, and what is left of the queue.                            *)
RNext(c, w, q) ==
    /\ hostname' = c.hostname /\ pcbs' = c.pcbs /\ txq' = c.txq
    /\ probes' = c.probes /\ wire' = w /\ queue' = q

LEMMA StepOk ==
    ASSUME NEW c, NEW w, NEW q \in Seq(Actions), RNext(c, w, q), NEW S, NEW t \in Nat,
           services' = S, toWrap' = t, S \in SUBSET Services, instance' \in BOOLEAN,
           ownInstance' \in [Services -> BOOLEAN], w = c.wire, Fine(c, S, S \cup {Host}),
           WireOk(c), \A k \in 1 .. Len(q) : ActionOk(q[k], c.pcbs)
    PROVE  RInv'
<1>1. PICK d : d = [hostname |-> c.hostname, pcbs |-> c.pcbs, txq |-> c.txq,
                    probes |-> c.probes, wire |-> {}]
  OBVIOUS
<1>2. c \in Servers
  BY DEF Fine
<1>3. d = server_m'
  BY <1>1 DEF RNext, server_m
<1>4. Sent(c, d)
  BY <1>1, <1>2 DEF Sent, Servers
<1>5. PICK N : N = S \cup {Host}
  OBVIOUS
<1>6. Fine(d, S, N)
  BY <1>4, <1>5, SentOk
<1>7. w \in SUBSET (Pcbs \X Names \X (0 .. 4)) /\ (NoLateConflict /\ c.hostname => \A a \in w : Settled(a[3]))
  BY <1>2, ServerFields DEF WireOk
<1>8. d \in Servers /\ \A p \in Pcbs : PcbOk(d, p, S, S \cup {Host})
  BY <1>5, <1>6 DEF Fine
<1>9. /\ hostname' = c.hostname /\ pcbs' = c.pcbs /\ wire' = w /\ queue' = q
      /\ services' = S /\ toWrap' = t /\ server_m' = d
  BY <1>3 DEF RNext
<1>10. (server_m \in Servers)' /\ (services \subseteq Services)'
  BY <1>8, <1>9
<1>11. (\A p \in Pcbs : PcbOk(server_m, p, services, services \cup {Host}))'
  BY <1>8, <1>9
<1>12. (queue \in Seq(Actions) /\ \A k \in 1 .. Len(queue) : ActionOk(queue[k], pcbs))'
  BY <1>9
<1>13. (NoLateConflict /\ hostname => \A a \in wire : Settled(a[3]))'
  BY <1>7, <1>9
<1>14. (wire \in SUBSET (Pcbs \X Names \X (0 .. 4)))'
  BY <1>7, <1>9
<1>15. (ownInstance \in [Services -> BOOLEAN] /\ instance \in BOOLEAN /\ toWrap \in Nat)'
  BY <1>9
<1> QED
  BY <1>10, <1>11, <1>12, <1>13, <1>14, <1>15 DEF RInv

(* Actions that wait stay as they should be while no PCB is closed; PCBs    *)
(* are closed only where no conflict is received.                           *)
Keeps(m, n) == Opens(m, n) \/ (NoLateConflict => Inputs \cap Conflicting = {})

LEMMA ActionStays ==
    ASSUME NEW a \in Actions, NEW m, NEW n, ActionOk(a, m.pcbs), Keeps(m, n)
    PROVE  ActionOk(a, n.pcbs)
<1>1. a.type = "RX_HANDLE" => a.pcb \in Pcbs
  BY ActionShape
<1> QED
  BY <1>1 DEF ActionOk, Keeps, Opens

Executes(n) == RNext(n, n.wire, Tail(queue)) /\ toWrap' = toWrap

LEMMA DoneExecutes ==
    ASSUME NEW n, done(n)
    PROVE  Executes(n)
BY DEF done, Executes, RNext

LEMMA ExecStep ==
    ASSUME NEW m, Current(m), queue # <<>>, NEW n, Executes(n), NEW S, services' = S,
           S \in SUBSET Services, instance' \in BOOLEAN, ownInstance' \in [Services -> BOOLEAN],
           Fine(n, S, S \cup {Host}), WireOk(n), Keeps(m, n)
    PROVE  RInv'
<1>0. queue \in Seq(Actions) /\ toWrap \in Nat /\ m.pcbs = pcbs
  BY DEF Current
<1>1. PICK q : q = Tail(queue)
  OBVIOUS
<1>2. q \in Seq(Actions) /\ Len(q) = Len(queue) - 1 /\ Len(queue) \in Nat
      /\ \A k \in 1 .. Len(q) : q[k] = queue[k + 1]
  BY <1>0, <1>1, HeadTailProperties, LenProperties
<1>3. ASSUME NEW k \in 1 .. Len(q) PROVE ActionOk(q[k], n.pcbs)
  <2>1. k + 1 \in 1 .. Len(queue) /\ q[k] = queue[k + 1]
    BY <1>2
  <2>2. q[k] \in Actions
    BY <1>2, ElementOfSeq
  <2>3. ActionOk(q[k], m.pcbs)
    BY <2>1 DEF Current
  <2> QED
    BY <2>2, <2>3, ActionStays
<1>4. PICK t \in Nat : t = toWrap
  BY <1>0
<1>5. PICK w : w = n.wire
  OBVIOUS
<1>6. RNext(n, w, q) /\ toWrap' = t
  BY <1>1, <1>4, <1>5 DEF Executes
<1> QED
  BY <1>2, <1>3, <1>5, <1>6, StepOk

LEMMA HeadOf ==
    ASSUME NEW m, Current(m), queue # <<>>, NEW a, a = Head(queue)
    PROVE  a \in Actions /\ ActionOk(a, pcbs)
<1>1. queue \in Seq(Actions) /\ \A k \in 1 .. Len(queue) : ActionOk(queue[k], pcbs)
  BY DEF Current
<1>2. Len(queue) \in Nat \ {0}
  BY <1>1, EmptySeq
<1>3. a = queue[1] /\ 1 \in 1 .. Len(queue)
  BY <1>1, <1>2
<1> QED
  BY <1>1, <1>3, ElementOfSeq

LEMMA DelaysOk ==
    ASSUME NEW delay \in Delays
    PROVE  delay \in [Pcbs -> Nat]
BY MdnsAssumption DEF Delays

(* After Replied: no PCB was closed.                                        *)
LEMMA RepliedKeeps ==
    ASSUME NEW m, NEW n, NEW S, NEW N, Replied(m, n, S, N)
    PROVE  Fine(n, S, N) /\ WireOk(n) /\ Keeps(m, n)
BY DEF Replied, Keeps

LEMMA SystemEventOk ==
    ASSUME RInv, ExecSystemEvent
    PROVE  RInv'
<1>1. PICK m : m = server_m
  OBVIOUS
<1>2. Current(m) /\ queue # <<>>
  BY <1>1, RInvCurrent DEF ExecSystemEvent, executes
<1>3. PICK e : e = Head(queue)
  OBVIOUS
<1>4. e \in Actions /\ ActionOk(e, pcbs) /\ e.type = "SYSTEM_EVENT"
  BY <1>2, <1>3, HeadOf DEF ExecSystemEvent, executes
<1>5. e \in SystemEvents /\ e.event \in Inputs
  BY <1>4, ActionShape DEF ActionOk
<1>6. PICK joined \in BOOLEAN, delay \in Delays :
          done(handle_system_event(server_m, Head(queue), joined, delay))
  BY DEF ExecSystemEvent
<1>7. PICK n : n = handle_system_event(m, e, joined, delay)
  OBVIOUS
<1>8. Executes(n)
  <2>1. done(n)
    BY <1>1, <1>3, <1>6, <1>7 DEF done
  <2> QED
    BY <2>1, DoneExecutes
<1>9. delay \in [Pcbs -> Nat]
  BY DelaysOk
<1>10. /\ Stopped(m, n, services, services \cup {Host})
       /\ Opens(m, n) \/ e.event = "DISCONNECTED"
  BY <1>2, <1>5, <1>7, <1>9, SystemEvent DEF Current
<1>11. Keeps(m, n)
  BY <1>5, <1>10 DEF Keeps, NoLateConflict, Closing
<1>12. Fine(n, services, services \cup {Host}) /\ WireOk(n)
  BY <1>2, <1>10 DEF Stopped, Current, WireOk
<1>13. PICK S : S = services
  OBVIOUS
<1>14. /\ services' = S /\ S \in SUBSET Services /\ instance' \in BOOLEAN
       /\ ownInstance' \in [Services -> BOOLEAN]
  BY <1>2, <1>13 DEF ExecSystemEvent, Current
<1> QED
  BY <1>2, <1>8, <1>11, <1>12, <1>13, <1>14, ExecStep

LEMMA NoNameNoBye ==
    ASSUME NEW m, ~m.hostname, NEW ip
    PROVE  send_final_bye(m, ip) = m
BY DEF send_final_bye, send_bye

LEMMA HostnameSetOk ==
    ASSUME RInv, ExecHostnameSet
    PROVE  RInv'
<1>1. PICK m : m = server_m
  OBVIOUS
<1>2. Current(m) /\ queue # <<>>
  BY <1>1, RInvCurrent DEF ExecHostnameSet, executes
<1>3. PICK delay \in Delays :
          done(restart_all_pcbs([forget(send_final_bye(server_m, TRUE), Pcbs, Names)
                                     EXCEPT !.hostname = TRUE], delay))
  BY DEF ExecHostnameSet
<1>4. PICK a : a = send_final_bye(m, TRUE)
  OBVIOUS
<1>5. PICK ps, ns : ps = Pcbs /\ ns = Names
  OBVIOUS
<1>6. PICK b : b = forget(a, ps, ns)
  OBVIOUS
<1>7. PICK c : c = [b EXCEPT !.hostname = TRUE]
  OBVIOUS
<1>8. PICK n : n = restart_all_pcbs(c, delay)
  OBVIOUS
<1>9. Executes(n)
  <2>1. done(n)
    BY <1>1, <1>3, <1>4, <1>5, <1>6, <1>7, <1>8 DEF done
  <2> QED
    BY <2>1, DoneExecutes
<1>10. PICK S \in SUBSET Services, N \in SUBSET Names : S = services /\ N = services \cup {Host}
  BY <1>2 DEF Current, Names
<1>11. Sent(m, a) /\ WireOk(a)
  BY <1>2, <1>4, FinalBye DEF Current
<1>12. Fine(a, S, N)
  BY <1>2, <1>10, <1>11, SentOk DEF Current
<1>13. /\ Fine(b, S, N \ ns) /\ b.hostname = a.hostname /\ b.wire = a.wire
       /\ b.pcbs = a.pcbs /\ b.txq = a.txq
  BY <1>6, <1>12, ForgetOk
<1>14. N \ ns = {}
  BY <1>5
<1>15. b \in Servers /\ Fine(b, S, {})
  BY <1>13, <1>14 DEF Fine
<1>16. /\ c \in Servers /\ c.hostname /\ c.pcbs = b.pcbs /\ c.txq = b.txq /\ c.wire = b.wire
       /\ c.probes = b.probes
  BY <1>7, <1>15 DEF Servers
<1>17. Fine(c, S, {})
  <2>1. ASSUME NEW p \in Pcbs PROVE PcbOk(c, p, S, {})
    <3>1. PcbOk(b, p, S, {})
      BY <1>15 DEF Fine
    <3>2. OpenOk(c, p) /\ Unnamed(c, p)
      BY <1>16, <3>1 DEF PcbOk, OpenOk, Unnamed, ProbeOk, ListOk, AnnounceOk
    <3>3. NoLateConflict => PointersOk(c, p, S) /\ NamesOk(c, p, {})
      BY <1>16, <3>1 DEF PcbOk, PointersOk, NamesOk
    <3> QED
      BY <3>2, <3>3 DEF PcbOk
  <2> QED
    BY <1>16, <2>1 DEF Fine
<1>18. Handled(c, n, S, N)
  <2>1. toWrap \in Nat /\ services \subseteq Services /\ delay \in [Pcbs -> Nat]
    BY <1>2, DelaysOk DEF Current
  <2>2. Fine(c, services, {})
    BY <1>10, <1>17
  <2> QED
    BY <1>8, <1>10, <2>1, <2>2, RestartAll
<1>19. WireOk(n)
  <2>1. n.wire = a.wire
    BY <1>13, <1>16, <1>18 DEF Handled
  <2>2. CASE m.hostname
    BY <1>11, <2>1, <2>2 DEF WireOk, Sent
  <2>3. CASE ~m.hostname
    <3>1. a = m
      BY <1>4, <2>3, NoNameNoBye
    <3> QED
      BY <1>2, <2>1, <3>1 DEF Current, WireOk
  <2> QED
    BY <2>2, <2>3
<1>20. Keeps(m, n)
  BY <1>11, <1>13, <1>16, <1>18 DEF Keeps, Opens, Handled, Sent
<1>21. /\ services' = S /\ instance' \in BOOLEAN /\ ownInstance' \in [Services -> BOOLEAN]
  BY <1>2, <1>10 DEF ExecHostnameSet, Current
<1>22. Fine(n, S, S \cup {Host})
  BY <1>10, <1>18 DEF Handled
<1> QED
  BY <1>2, <1>9, <1>19, <1>20, <1>21, <1>22, ExecStep

LEMMA InstanceSetOk ==
    ASSUME RInv, ExecInstanceSet
    PROVE  RInv'
<1>1. PICK m : m = server_m
  OBVIOUS
<1>2. Current(m) /\ queue # <<>>
  BY <1>1, RInvCurrent DEF ExecInstanceSet, executes
<1>3. PICK delay \in Delays :
          done(restart_all_pcbs_no_instance(
                   forget(send_bye_all_pcbs_no_instance(server_m), Pcbs, withoutInstance), delay))
  BY DEF ExecInstanceSet
<1>4. PICK a : a = send_final_bye(m, FALSE)
  OBVIOUS
<1>5. PICK ps, ns : ps = Pcbs /\ ns = withoutInstance
  OBVIOUS
<1>6. PICK b : b = forget(a, ps, ns)
  OBVIOUS
<1>7. PICK n : n = restart_all_pcbs_no_instance(b, delay)
  OBVIOUS
<1>8. a = send_bye_all_pcbs_no_instance(server_m)
  BY <1>1, <1>4 DEF send_bye_all_pcbs_no_instance, send_final_bye
<1>9. Executes(n)
  <2>1. done(n)
    BY <1>3, <1>5, <1>6, <1>7, <1>8 DEF done
  <2> QED
    BY <2>1, DoneExecutes
<1>10. PICK S \in SUBSET Services, N \in SUBSET Names : S = services /\ N = services \cup {Host}
  BY <1>2 DEF Current, Names
<1>11. Sent(m, a) /\ WireOk(a)
  BY <1>2, <1>4, FinalBye DEF Current
<1>12. Fine(a, S, N)
  BY <1>2, <1>10, <1>11, SentOk DEF Current
<1>13. /\ Fine(b, S, N \ ns) /\ b.hostname = a.hostname /\ b.wire = a.wire
       /\ b.pcbs = a.pcbs /\ b.txq = a.txq
  BY <1>6, <1>12, ForgetOk
<1>14. Handled(b, n, S, N)
  <2>1. toWrap \in Nat /\ services \subseteq Services /\ delay \in [Pcbs -> Nat]
    BY <1>2, DelaysOk DEF Current
  <2>2. Fine(b, services, (services \cup {Host}) \ withoutInstance)
    BY <1>5, <1>10, <1>13
  <2> QED
    BY <1>7, <1>10, <2>1, <2>2, RestartSome
<1>15. WireOk(n)
  BY <1>11, <1>13, <1>14 DEF WireOk, Handled
<1>16. Keeps(m, n)
  BY <1>11, <1>13, <1>14 DEF Keeps, Opens, Handled, Sent
<1>17. /\ services' = S /\ instance' \in BOOLEAN /\ ownInstance' \in [Services -> BOOLEAN]
  BY <1>2, <1>10 DEF ExecInstanceSet, Current
<1>18. Fine(n, S, S \cup {Host})
  BY <1>10, <1>14 DEF Handled
<1> QED
  BY <1>2, <1>9, <1>15, <1>16, <1>17, <1>18, ExecStep

LEMMA ServiceAddOk ==
    ASSUME RInv, ExecServiceAdd
    PROVE  RInv'
<1>1. PICK m : m = server_m
  OBVIOUS
<1>2. Current(m) /\ queue # <<>>
  BY <1>1, RInvCurrent DEF ExecServiceAdd, executes
<1>3. PICK a : a = Head(queue)
  OBVIOUS
<1>4. a \in Actions /\ a.type = "SERVICE_ADD"
  BY <1>2, <1>3, HeadOf DEF ExecServiceAdd, executes
<1>5. a.service \in Services /\ a.own \in BOOLEAN
  BY <1>4, ActionShape
<1>6. PICK delay \in Delays : done(probe_all_pcbs(server_m, {a.service}, FALSE, FALSE, delay))
  BY <1>3 DEF ExecServiceAdd
<1>7. PICK one \in SUBSET Services : one = {a.service}
  BY <1>5
<1>8. PICK n : n = probe_all_pcbs(m, one, FALSE, FALSE, delay)
  OBVIOUS
<1>9. Executes(n)
  <2>1. done(n)
    BY <1>1, <1>6, <1>7, <1>8 DEF done
  <2> QED
    BY <2>1, DoneExecutes
<1>10. PICK S \in SUBSET Services : S = services
  BY <1>2 DEF Current
<1>11. PICK T \in SUBSET Services : T = S \cup one
  OBVIOUS
<1>12. PICK M \in SUBSET Names : M = S \cup {Host}
  BY DEF Names
<1>13. PICK N \in SUBSET Names : N = T \cup {Host}
  BY DEF Names
<1>14. Fine(m, S, M) /\ m \in Servers
  BY <1>2, <1>10, <1>12 DEF Current
<1>15. /\ S \subseteq T /\ one \subseteq T /\ N \subseteq M \cup withIp(one, FALSE)
       /\ withIp(one, FALSE) # {}
  BY <1>7, <1>11, <1>12, <1>13 DEF withIp
<1>16. \A p \in Pcbs : Ready(m, p, one, FALSE, FALSE, T, N)
  BY <1>14, <1>15, ReadyJoin
<1>17. Handled(m, n, T, N)
  <2>1. toWrap \in Nat /\ delay \in [Pcbs -> Nat]
    BY <1>2, DelaysOk DEF Current
  <2> QED
    BY <1>8, <1>14, <1>15, <1>16, <2>1, ProbeAll
<1>18. Replied(m, n, T, N)
  BY <1>2, <1>17, HandledReplied DEF Current
<1>19. Fine(n, T, T \cup {Host}) /\ WireOk(n) /\ Keeps(m, n)
  BY <1>13, <1>18, RepliedKeeps
<1>20. /\ services' = T /\ instance' \in BOOLEAN
  BY <1>2, <1>3, <1>7, <1>10, <1>11 DEF ExecServiceAdd, Current
<1>21. ownInstance' \in [Services -> BOOLEAN]
  <2>1. ownInstance' = [ownInstance EXCEPT ![a.service] = a.own]
    BY <1>3 DEF ExecServiceAdd
  <2>2. ownInstance \in [Services -> BOOLEAN]
    BY <1>2 DEF Current
  <2> QED
    BY <1>5, <2>1, <2>2
<1> QED
  BY <1>2, <1>9, <1>19, <1>20, <1>21, ExecStep

(* A step that changes nothing but the queue, a crash for one.              *)
LEMMA SkipOk ==
    ASSUME NEW m, Current(m), queue # <<>>, Executes(m), services' = services,
           instance' = instance, ownInstance' = ownInstance
    PROVE  RInv'
<1>1. PICK S : S = services
  OBVIOUS
<1>2. Fine(m, S, S \cup {Host}) /\ WireOk(m) /\ Keeps(m, m)
  BY <1>1 DEF Current, Keeps, Opens
<1>3. /\ services' = S /\ S \in SUBSET Services /\ instance' \in BOOLEAN
      /\ ownInstance' \in [Services -> BOOLEAN]
  BY <1>1 DEF Current
<1> QED
  BY <1>2, <1>3, ExecStep

LEMMA CrashOk ==
    ASSUME RInv, queue # <<>>, crash
    PROVE  RInv'
<1>1. PICK m : m = server_m
  OBVIOUS
<1>2. Current(m)
  BY <1>1, RInvCurrent
<1>3. /\ Executes(m) /\ services' = services /\ instance' = instance
      /\ ownInstance' = ownInstance
  BY <1>1 DEF crash, server, Executes, RNext, server_m
<1> QED
  BY <1>2, <1>3, SkipOk

Forgotten(a, b, ns, S, N) ==
    /\ Fine(b, S, N \ ns) /\ b.hostname = a.hostname /\ b.wire = a.wire
    /\ b.pcbs = a.pcbs /\ b.txq = a.txq

LEMMA ForgetThese ==
    ASSUME NEW a, NEW b, NEW ns, NEW S, NEW N, N \in SUBSET Names, Fine(a, S, N),
           b = forget(a, Pcbs, ns)
    PROVE  Forgotten(a, b, ns, S, N)
<1>1. PICK ps : ps = Pcbs
  OBVIOUS
<1>2. b = forget(a, ps, ns)
  BY <1>1
<1>3. /\ Fine(b, S, N \ ns) /\ b.hostname = a.hostname /\ b.wire = a.wire
      /\ b.pcbs = a.pcbs /\ b.txq = a.txq
  BY <1>2, ForgetOk
<1> QED
  BY <1>3 DEF Forgotten

LEMMA ServiceInstanceSetOk ==
    ASSUME RInv, ExecServiceInstanceSet
    PROVE  RInv'
<1>1. PICK m : m = server_m
  OBVIOUS
<1>2. Current(m) /\ queue # <<>>
  BY <1>1, RInvCurrent DEF ExecServiceInstanceSet, executes
<1>3. PICK s : s = Head(queue).service
  OBVIOUS
<1>4. CASE s \notin services /\ crash
  BY <1>2, <1>4, CrashOk
<1>5. CASE /\ s \in services /\ ownInstance' = [ownInstance EXCEPT ![s] = TRUE]
           /\ \E delay \in Delays :
                  LET l == IF ownInstance[s] THEN send_bye(server_m, {s}, FALSE) ELSE server_m
                  IN done(probe_all_pcbs(forget(l, Pcbs, {s}), {s}, FALSE, FALSE, delay))
           /\ UNCHANGED <<instance, services, fault>>
  <2>1. PICK delay \in Delays :
            done(probe_all_pcbs(forget(IF ownInstance[s] THEN send_bye(server_m, {s}, FALSE)
                                       ELSE server_m, Pcbs, {s}), {s}, FALSE, FALSE, delay))
    BY <1>5
  <2>2. PICK S \in SUBSET Services, N \in SUBSET Names : S = services /\ N = services \cup {Host}
    BY <1>2 DEF Current, Names
  <2>3. PICK one \in SUBSET Services : one = {s}
    BY <1>5, <2>2
  <2>4. PICK a : a = IF ownInstance[s] THEN send_bye(m, one, FALSE) ELSE m
    OBVIOUS
  <2>5. PICK ps : ps = Pcbs
    OBVIOUS
  <2>6. PICK b : b = forget(a, ps, one)
    OBVIOUS
  <2>7. PICK n : n = probe_all_pcbs(b, one, FALSE, FALSE, delay)
    OBVIOUS
  <2>8. Executes(n)
    <3>1. done(n)
      BY <1>1, <2>1, <2>3, <2>4, <2>5, <2>6, <2>7 DEF done
    <3> QED
      BY <3>1, DoneExecutes
  <2>9. Fine(m, S, N) /\ m \in Servers /\ WireOk(m)
    BY <1>2, <2>2 DEF Current
  <2>10. withIp(one, FALSE) = one /\ one # {} /\ one \subseteq S /\ one \subseteq N
    BY <1>5, <2>2, <2>3 DEF withIp
  <2>11. Sent(m, a) /\ WireOk(a)
    <3>1. CASE ownInstance[s]
      <4>1. a = send_bye(m, one, FALSE) /\ withIp(one, FALSE) \subseteq N
        BY <2>4, <2>10, <3>1
      <4> QED
        BY <2>9, <4>1, SendBye
    <3>2. CASE ~ownInstance[s]
      BY <2>4, <2>9, <3>2 DEF Sent
    <3> QED
      BY <3>1, <3>2
  <2>12. Fine(a, S, N)
    BY <2>9, <2>11, SentOk
  <2>13. /\ Fine(b, S, N \ one) /\ b.hostname = a.hostname /\ b.wire = a.wire
         /\ b.pcbs = a.pcbs /\ b.txq = a.txq
    <3>1. b = forget(a, Pcbs, one) /\ N \in SUBSET Names
      BY <2>5, <2>6
    <3>2. Forgotten(a, b, one, S, N)
      BY <2>12, <3>1, ForgetThese
    <3> QED
      BY <3>2 DEF Forgotten
  <2>14. PICK M : M = N \ one
    OBVIOUS
  <2>15. Fine(b, S, M) /\ b \in Servers
    BY <2>13, <2>14 DEF Fine
  <2>16. N \subseteq M \cup withIp(one, FALSE) /\ withIp(one, FALSE) # {}
    BY <2>10, <2>14
  <2>17. \A p \in Pcbs : Ready(b, p, one, FALSE, FALSE, S, N)
    BY <2>10, <2>15, <2>16, ReadyJoin
  <2>18. Handled(b, n, S, N)
    <3>1. toWrap \in Nat /\ delay \in [Pcbs -> Nat]
      BY <1>2, DelaysOk DEF Current
    <3> QED
      BY <2>7, <2>15, <2>16, <2>17, <3>1, ProbeAll
  <2>19. WireOk(n)
    BY <2>11, <2>13, <2>18 DEF WireOk, Handled
  <2>20. Keeps(m, n)
    BY <2>11, <2>13, <2>18 DEF Keeps, Opens, Handled, Sent
  <2>21. /\ services' = S /\ instance' \in BOOLEAN
    BY <1>2, <1>5, <2>2 DEF Current
  <2>22. ownInstance' \in [Services -> BOOLEAN]
    <3>1. ownInstance \in [Services -> BOOLEAN] /\ s \in Services
      BY <1>2, <1>5 DEF Current
    <3> QED
      BY <1>5, <3>1
  <2>23. Fine(n, S, S \cup {Host})
    BY <2>2, <2>18 DEF Handled
  <2> QED
    BY <1>2, <2>8, <2>19, <2>20, <2>21, <2>22, <2>23, ExecStep
<1> QED
  BY <1>3, <1>4, <1>5 DEF ExecServiceInstanceSet

LEMMA ServiceUpdateOk ==
    ASSUME RInv, ExecServiceUpdate
    PROVE  RInv'
<1>1. PICK m : m = server_m
  OBVIOUS
<1>2. PICK type \in {"SERVICE_PORT_SET", "SERVICE_TXT_SET", "SERVICE_TXT_DEL"} :
          /\ executes(type)
          /\ LET s == Head(queue).service
             IN \/ s \notin services /\ crash
                \/ /\ s \in services
                   /\ \E delay \in Delays :
                          done(announce_all_pcbs(server_m, {s}, type = "SERVICE_PORT_SET", delay))
                   /\ UNCHANGED <<instance, services, ownInstance, fault>>
                \/ /\ s \in services /\ type = "SERVICE_TXT_DEL"
                   /\ done(server_m)
                   /\ UNCHANGED <<instance, services, ownInstance, fault>>
  BY DEF ExecServiceUpdate
<1>3. Current(m) /\ queue # <<>>
  BY <1>1, <1>2, RInvCurrent DEF executes
<1>4. PICK s : s = Head(queue).service
  OBVIOUS
<1>5. CASE s \notin services /\ crash
  BY <1>3, <1>5, CrashOk
<1>6. CASE done(server_m) /\ UNCHANGED <<instance, services, ownInstance, fault>>
  <2>1. Executes(m)
    <3>1. done(m)
      BY <1>1, <1>6 DEF done
    <3> QED
      BY <3>1, DoneExecutes
  <2> QED
    BY <1>3, <1>6, <2>1, SkipOk
<1>7. CASE /\ s \in services
           /\ \E delay \in Delays :
                  done(announce_all_pcbs(server_m, {s}, type = "SERVICE_PORT_SET", delay))
           /\ UNCHANGED <<instance, services, ownInstance, fault>>
  <2>1. PICK delay \in Delays :
            done(announce_all_pcbs(server_m, {s}, type = "SERVICE_PORT_SET", delay))
    BY <1>7
  <2>2. PICK S \in SUBSET Services, N \in SUBSET Names : S = services /\ N = services \cup {Host}
    BY <1>3 DEF Current, Names
  <2>3. PICK one \in SUBSET Services : one = {s}
    BY <1>7, <2>2
  <2>4. PICK ip \in BOOLEAN : ip = (type = "SERVICE_PORT_SET")
    OBVIOUS
  <2>5. PICK n : n = announce_all_pcbs(m, one, ip, delay)
    OBVIOUS
  <2>6. Executes(n)
    <3>1. done(n)
      BY <1>1, <2>1, <2>3, <2>4, <2>5 DEF done
    <3> QED
      BY <3>1, DoneExecutes
  <2>7. Fine(m, S, N) /\ WireOk(m)
    BY <1>3, <2>2 DEF Current
  <2>8. withIp(one, ip) # {} /\ one \subseteq S
    BY <1>7, <2>2, <2>3 DEF withIp
  <2>9. Handled(m, n, S, N)
    <3>1. toWrap \in Nat /\ delay \in [Pcbs -> Nat]
      BY <1>3, DelaysOk DEF Current
    <3> QED
      BY <2>5, <2>7, <2>8, <3>1, AnnounceAll
  <2>10. Replied(m, n, S, N)
    BY <2>7, <2>9, HandledReplied
  <2>11. Fine(n, S, S \cup {Host}) /\ WireOk(n) /\ Keeps(m, n)
    BY <2>2, <2>10, RepliedKeeps
  <2>12. /\ services' = S /\ instance' \in BOOLEAN /\ ownInstance' \in [Services -> BOOLEAN]
    BY <1>3, <1>7, <2>2 DEF Current
  <2> QED
    BY <1>3, <2>6, <2>11, <2>12, ExecStep
<1> QED
  BY <1>2, <1>4, <1>5, <1>6, <1>7

LEMMA ServiceDelOk ==
    ASSUME RInv, ExecServiceDel
    PROVE  RInv'
<1>1. PICK m : m = server_m
  OBVIOUS
<1>2. Current(m) /\ queue # <<>>
  BY <1>1, RInvCurrent DEF ExecServiceDel, executes
<1>3. PICK s : s = Head(queue).service
  OBVIOUS
<1>4. CASE services = {} /\ crash
  BY <1>2, <1>4, CrashOk
<1>5. CASE /\ services' = services \ {s}
           /\ done(IF s \in services
                   THEN remove_scheduled_service_packets(send_bye(server_m, {s}, FALSE), s)
                   ELSE server_m)
           /\ UNCHANGED <<instance, ownInstance, fault>>
  <2>1. PICK S \in SUBSET Services, N \in SUBSET Names : S = services /\ N = services \cup {Host}
    BY <1>2 DEF Current, Names
  <2>2. CASE s \notin services
    <3>1. services' = services
      BY <1>5, <2>2
    <3>2. done(m)
      BY <1>1, <1>5, <2>2 DEF done
    <3>3. Executes(m)
      BY <3>2, DoneExecutes
    <3> QED
      BY <1>2, <1>5, <3>1, <3>3, SkipOk
  <2>3. CASE s \in services
    <3>1. PICK one : one = {s}
      OBVIOUS
    <3>2. PICK a : a = send_bye(m, one, FALSE)
      OBVIOUS
    <3>3. PICK n : n = remove_scheduled_service_packets(a, s)
      OBVIOUS
    <3>4. Executes(n)
      <4>1. done(n)
        BY <1>1, <1>5, <2>3, <3>1, <3>2, <3>3 DEF done
      <4> QED
        BY <4>1, DoneExecutes
    <3>5. Fine(m, S, N) /\ WireOk(m)
      BY <1>2, <2>1 DEF Current
    <3>6. withIp(one, FALSE) \subseteq N
      BY <2>1, <2>3, <3>1 DEF withIp
    <3>7. Sent(m, a) /\ WireOk(a)
      BY <3>2, <3>5, <3>6, SendBye
    <3>8. Fine(a, S, N)
      BY <3>5, <3>7, SentOk
    <3>9. Handled(a, n, S \ {s}, N \ {s})
      BY <2>1, <2>3, <3>3, <3>8, RemoveService
    <3>10. PICK T \in SUBSET Services : T = S \ {s}
      OBVIOUS
    <3>11. N \ {s} = T \cup {Host}
      BY <2>1, <2>3, <3>10, MdnsAssumption
    <3>12. Fine(n, T, T \cup {Host})
      BY <3>9, <3>10, <3>11 DEF Handled
    <3>13. WireOk(n)
      BY <3>7, <3>9 DEF WireOk, Handled
    <3>14. Keeps(m, n)
      BY <3>7, <3>9 DEF Keeps, Opens, Handled, Sent
    <3>15. /\ services' = T /\ instance' \in BOOLEAN /\ ownInstance' \in [Services -> BOOLEAN]
      BY <1>2, <1>5, <2>1, <3>10 DEF Current
    <3> QED
      BY <1>2, <3>4, <3>12, <3>13, <3>14, <3>15, ExecStep
  <2> QED
    BY <2>2, <2>3
<1> QED
  BY <1>3, <1>4, <1>5 DEF ExecServiceDel

LEMMA ServicesClearOk ==
    ASSUME RInv, ExecServicesClear
    PROVE  RInv'
<1>1. PICK m : m = server_m
  OBVIOUS
<1>2. Current(m) /\ queue # <<>>
  BY <1>1, RInvCurrent DEF ExecServicesClear, executes
<1>3. PICK S \in SUBSET Services, N \in SUBSET Names : S = services /\ N = services \cup {Host}
  BY <1>2 DEF Current, Names
<1>4. PICK a : a = send_final_bye(m, FALSE)
  OBVIOUS
<1>5. PICK n : n = cleared!loop(SetToSeq(S), a, Cardinality(S))
  OBVIOUS
<1>6. Executes(n)
  <2>1. done(n)
    BY <1>1, <1>3, <1>4, <1>5 DEF ExecServicesClear, done
  <2> QED
    BY <2>1, DoneExecutes
<1>7. Sent(m, a) /\ WireOk(a)
  BY <1>2, <1>4, FinalBye DEF Current
<1>8. Fine(a, S, N)
  BY <1>2, <1>3, <1>7, SentOk DEF Current
<1>9. Handled(a, n, {}, {Host})
  <2>1. N = S \cup {Host}
    BY <1>3
  <2> QED
    BY <1>5, <1>8, <2>1, ClearAll
<1>10. PICK T \in SUBSET Services : T = {}
  OBVIOUS
<1>11. Fine(n, T, T \cup {Host})
  <2>1. T \cup {Host} = {Host}
    BY <1>10
  <2> QED
    BY <1>9, <1>10, <2>1 DEF Handled
<1>12. WireOk(n)
  BY <1>7, <1>9 DEF WireOk, Handled
<1>13. Keeps(m, n)
  BY <1>7, <1>9 DEF Keeps, Opens, Handled, Sent
<1>14. /\ services' = T /\ instance' \in BOOLEAN /\ ownInstance' \in [Services -> BOOLEAN]
  BY <1>2, <1>10 DEF ExecServicesClear, Current
<1> QED
  BY <1>2, <1>6, <1>11, <1>12, <1>13, <1>14, ExecStep

LEMMA TxHandleOk ==
    ASSUME RInv, ExecTxHandle
    PROVE  RInv'
<1>1. PICK m : m = server_m
  OBVIOUS
<1>2. Current(m) /\ queue # <<>>
  BY <1>1, RInvCurrent DEF ExecTxHandle, executes
<1>3. m.txq = txq
  BY <1>2 DEF Current
<1>4. CASE ~(txq # <<>> /\ Head(txq).id = Head(queue).packet /\ Head(txq).queued)
  <2>1. done(m)
    BY <1>1, <1>4 DEF ExecTxHandle, done
  <2>2. Executes(m)
    BY <2>1, DoneExecutes
  <2> QED
    BY <1>2, <2>2, SkipOk DEF ExecTxHandle
<1>5. CASE txq # <<>> /\ Head(txq).id = Head(queue).packet /\ Head(txq).queued
  <2>1. PICK a : a = [m EXCEPT !.txq = Tail(@)]
    OBVIOUS
  <2>2. PICK h : h = Head(m.txq)
    OBVIOUS
  <2>3. PICK x : x = [h EXCEPT !.queued = FALSE]
    OBVIOUS
  <2>4. PICK n : n = tx_handle_packet(a, x)
    OBVIOUS
  <2>5. Executes(n)
    <3>1. done(n)
      BY <1>1, <1>3, <1>5, <2>1, <2>2, <2>3, <2>4 DEF ExecTxHandle, done
    <3> QED
      BY <3>1, DoneExecutes
  <2>6. PICK S \in SUBSET Services, N \in SUBSET Names : S = services /\ N = services \cup {Host}
    BY <1>2 DEF Current, Names
  <2>7. h.pcb \in Pcbs /\ Taken(m, a, x, h, h.pcb)
    BY <1>2, <1>3, <1>5, <2>1, <2>2, <2>3, TakeHead DEF Current
  <2>8. PICK p \in Pcbs : p = h.pcb
    BY <2>7
  <2>9. Fine(m, S, N) /\ WireOk(m) /\ N = S \cup {Host} /\ toWrap \in Nat
    BY <1>2, <2>6 DEF Current
  <2>10. Changed(m, n, p, S, N) /\ WireOk(n)
    BY <2>4, <2>7, <2>8, <2>9, TxHandle
  <2>11. Fine(n, S, N) /\ Opens(m, n)
    BY <2>9, <2>10, ChangedAll
  <2>12. Fine(n, S, S \cup {Host}) /\ Keeps(m, n)
    BY <2>9, <2>11 DEF Keeps
  <2>13. /\ services' = S /\ instance' \in BOOLEAN /\ ownInstance' \in [Services -> BOOLEAN]
    BY <1>2, <2>6 DEF ExecTxHandle, Current
  <2> QED
    BY <1>2, <2>5, <2>10, <2>12, <2>13, ExecStep
<1> QED
  BY <1>4, <1>5

(* What a received packet leads to.                                         *)
received(m, p, rx, delay, wait) ==
    CASE rx.kind = "known" /\ ours(rx.name) /\ noAnswerLeft(m, p) -> m
      [] rx.kind \in {"question", "unique"} -> answer(m, p, rx, wait)
      [] rx.kind = "known" /\ ours(rx.name) /\ ~noAnswerLeft(m, p) ->
            remove_scheduled_answer(m, p, rx.name, rx.last)
      [] rx.kind = "srvConflict" /\ ours(rx.name) -> srv_conflict(m, p, rx.name, delay)
      [] rx.kind = "txtConflict" /\ ours(rx.name) -> txt_conflict(m, p, rx.name, delay)
      [] rx.kind = "addrConflict" /\ ours(Host) -> addr_conflict(m, p, delay)
      [] rx.kind = "addrOther" /\ ours(Host) -> dup_interface(m, p[1], delay)
      [] OTHER -> m

LEMMA RxShape ==
    ASSUME NEW rx \in RxKinds
    PROVE  /\ rx.kind \in {"question", "unique", "known", "srvConflict", "txtConflict",
                           "addrConflict", "addrOther"}
           /\ rx.kind \in {"srvConflict", "txtConflict"} => rx.name \in Services
<1>1. CASE rx \in [kind : {"question"}, name : Services, truncated : BOOLEAN]
  BY <1>1
<1>2. CASE rx \in [kind : {"unique"}, name : Names]
  BY <1>2
<1>3. CASE rx \in [kind : {"known"}, name : Names, last : BOOLEAN]
  BY <1>3
<1>4. CASE rx \in [kind : {"srvConflict", "txtConflict"}, name : Services]
  BY <1>4
<1>5. CASE rx \in [kind : {"addrConflict", "addrOther"}, name : {Host}]
  BY <1>5
<1> QED
  BY <1>1, <1>2, <1>3, <1>4, <1>5 DEF RxKinds

LEMMA RxReplied ==
    ASSUME NEW m, Current(m), NEW p \in Pcbs, NEW rx \in RxKinds, rx.kind # "addrOther",
           NoLateConflict /\ rx.kind \in Conflicting => m.pcbs[p].up,
           NEW delay \in [Pcbs -> Nat], NEW wait \in Nat,
           NEW n, n = received(m, p, rx, delay, wait)
    PROVE  Replied(m, n, services, services \cup {Host})
<1>1. /\ m \in Servers /\ Fine(m, services, services \cup {Host}) /\ WireOk(m)
      /\ toWrap \in Nat /\ services \subseteq Services
  BY DEF Current
<1>2. CASE n = m
  BY <1>1, <1>2 DEF Replied, Opens
<1>3. CASE rx.kind \in {"question", "unique"}
  <2>1. n = answer(m, p, rx, wait)
    <3>1. /\ rx.kind # "known" /\ rx.kind # "srvConflict" /\ rx.kind # "txtConflict"
          /\ rx.kind # "addrConflict" /\ rx.kind # "addrOther"
      BY <1>3
    <3> QED
      BY <1>3, <3>1 DEF received
  <2> QED
    BY <1>1, <1>3, <2>1, Answer
<1>4. CASE rx.kind = "known" /\ ours(rx.name) /\ ~noAnswerLeft(m, p)
  <2>1. n = remove_scheduled_answer(m, p, rx.name, rx.last)
    BY <1>4 DEF received
  <2>2. PICK a, last : a = rx.name /\ last = rx.last
    OBVIOUS
  <2>3. n = remove_scheduled_answer(m, p, a, last)
    BY <2>1, <2>2
  <2>4. PICK S, N : S = services /\ N = services \cup {Host}
    OBVIOUS
  <2>5. Handled(m, n, S, N)
    BY <1>1, <2>3, <2>4, KnownAnswer
  <2>6. Replied(m, n, S, N)
    BY <1>1, <2>5, HandledReplied
  <2> QED
    BY <2>4, <2>6
<1>5. CASE rx.kind = "srvConflict" /\ ours(rx.name)
  <2>1. n = srv_conflict(m, p, rx.name, delay)
    BY <1>5 DEF received
  <2>2. PICK s \in services : s = rx.name
    BY <1>5, OursOk, RxShape, MdnsAssumption
  <2>3. n = srv_conflict(m, p, s, delay)
    BY <2>1, <2>2
  <2>4. NoLateConflict => m.pcbs[p].up
    BY <1>5 DEF Conflicting
  <2> QED
    BY <1>1, <2>3, <2>4, SrvConflict
<1>6. CASE rx.kind = "txtConflict" /\ ours(rx.name)
  <2>1. n = txt_conflict(m, p, rx.name, delay)
    BY <1>6 DEF received
  <2>2. PICK s \in services : s = rx.name
    BY <1>6, OursOk, RxShape, MdnsAssumption
  <2>3. n = txt_conflict(m, p, s, delay)
    BY <2>1, <2>2
  <2>4. NoLateConflict => m.pcbs[p].up
    BY <1>6 DEF Conflicting
  <2> QED
    BY <1>1, <2>3, <2>4, TxtConflict
<1>7. CASE rx.kind = "addrConflict" /\ ours(Host)
  <2>1. n = addr_conflict(m, p, delay)
    BY <1>7 DEF received
  <2>2. NoLateConflict => m.pcbs[p].up
    BY <1>7 DEF Conflicting
  <2> QED
    BY <1>1, <2>1, <2>2, AddrConflict
<1>8. ASSUME ~(rx.kind \in {"question", "unique"}),
             ~(rx.kind = "known" /\ ours(rx.name) /\ ~noAnswerLeft(m, p)),
             ~(rx.kind = "srvConflict" /\ ours(rx.name)),
             ~(rx.kind = "txtConflict" /\ ours(rx.name)),
             ~(rx.kind = "addrConflict" /\ ours(Host))
      PROVE  n = m
  BY <1>8 DEF received
<1> QED
  BY <1>2, <1>3, <1>4, <1>5, <1>6, <1>7, <1>8

LEMMA RxHandleOk ==
    ASSUME RInv, ExecRxHandle
    PROVE  RInv'
<1>1. PICK m : m = server_m
  OBVIOUS
<1>2. Current(m) /\ queue # <<>>
  BY <1>1, RInvCurrent DEF ExecRxHandle, executes
<1>3. PICK e : e = Head(queue)
  OBVIOUS
<1>4. e \in Actions /\ ActionOk(e, pcbs) /\ e.type = "RX_HANDLE"
  BY <1>2, <1>3, HeadOf DEF ExecRxHandle, executes
<1>5. PICK p \in Pcbs, rx \in RxKinds : p = e.pcb /\ rx = e.rx
  BY <1>4, ActionShape
<1>6. rx.kind \in Inputs /\ (NoLateConflict /\ rx.kind \in Conflicting => m.pcbs[p].up)
  BY <1>2, <1>4, <1>5 DEF ActionOk, Current
<1>7. PICK delay \in Delays, wait \in ShareDelays : done(received(m, p, rx, delay, wait))
  BY <1>1, <1>3, <1>5 DEF ExecRxHandle, received
<1>8. PICK n : n = received(m, p, rx, delay, wait)
  OBVIOUS
<1>9. Executes(n)
  <2>1. done(n)
    BY <1>7, <1>8 DEF done
  <2> QED
    BY <2>1, DoneExecutes
<1>10. delay \in [Pcbs -> Nat] /\ wait \in Nat
  BY DelaysOk, MdnsAssumption
<1>11. /\ Fine(n, services, services \cup {Host}) /\ WireOk(n) /\ Keeps(m, n)
  <2>1. CASE rx.kind # "addrOther"
    <3>1. Replied(m, n, services, services \cup {Host})
      BY <1>2, <1>6, <1>8, <1>10, <2>1, RxReplied
    <3> QED
      BY <3>1 DEF Replied, Keeps
  <2>2. CASE rx.kind = "addrOther"
    <3>1. Keeps(m, n)
      BY <1>6, <2>2 DEF Keeps, NoLateConflict, Closing
    <3>2. CASE n = m
      BY <1>2, <3>1, <3>2 DEF Current
    <3>3. CASE n = dup_interface(m, p[1], delay)
      <4>1. PICK i : i = p[1]
        OBVIOUS
      <4>2. n = dup_interface(m, i, delay)
        BY <3>3, <4>1
      <4>3. PICK S \in SUBSET Services, N \in SUBSET Names : S = services /\ N = services \cup {Host}
        BY <1>2 DEF Current, Names
      <4>4. Fine(m, S, N) /\ toWrap \in Nat
        BY <1>2, <4>3 DEF Current
      <4>5. Stopped(m, n, S, N)
        BY <1>10, <4>2, <4>4, DupInterface
      <4>6. Fine(n, S, N) /\ WireOk(n)
        BY <1>2, <4>5 DEF Stopped, Current, WireOk
      <4> QED
        BY <3>1, <4>3, <4>6
    <3>4. n = m \/ n = dup_interface(m, p[1], delay)
      BY <1>8, <2>2 DEF received
    <3> QED
      BY <3>2, <3>3, <3>4
  <2> QED
    BY <2>1, <2>2
<1>12. PICK S : S = services
  OBVIOUS
<1>13. /\ services' = S /\ S \in SUBSET Services /\ instance' \in BOOLEAN
       /\ ownInstance' \in [Services -> BOOLEAN]
  BY <1>2, <1>12 DEF ExecRxHandle, Current
<1> QED
  BY <1>2, <1>9, <1>11, <1>12, <1>13, ExecStep

--------------------------------------------------------------------------------
(* Inputs, the timer task and the clock.                                    *)
LEMMA SendOk ==
    ASSUME RInv, NEW a \in Actions, ActionOk(a, pcbs), NEW kind, send(kind, a)
    PROVE  RInv'
<1>1. PICK m : m = server_m
  OBVIOUS
<1>2. Current(m)
  BY <1>1, RInvCurrent
<1>3. queue \in Seq(Actions) /\ m.pcbs = pcbs /\ m.wire = {}
  BY <1>2 DEF Current
<1>4. PICK q : q = Append(queue, a)
  OBVIOUS
<1>5. /\ q \in Seq(Actions) /\ Len(q) = Len(queue) + 1 /\ Len(queue) \in Nat
      /\ \A k \in 1 .. Len(queue) : q[k] = queue[k]
      /\ q[Len(queue) + 1] = a
  BY <1>3, <1>4, AppendProperties, LenProperties
<1>6. ASSUME NEW k \in 1 .. Len(q) PROVE ActionOk(q[k], m.pcbs)
  <2>1. CASE k \in 1 .. Len(queue)
    BY <1>2, <1>5, <2>1 DEF Current
  <2>2. CASE k = Len(queue) + 1
    BY <1>3, <1>5, <2>2
  <2> QED
    BY <1>5, <2>1, <2>2
<1>7. PICK S, w : S = services /\ w = m.wire
  OBVIOUS
<1>8. PICK t \in Nat : t = toWrap
  BY <1>2 DEF Current
<1>9. RNext(m, w, q) /\ services' = S /\ toWrap' = t
  BY <1>2, <1>4, <1>7, <1>8 DEF send, server, RNext, Current
<1>10. /\ S \in SUBSET Services /\ instance' \in BOOLEAN
       /\ ownInstance' \in [Services -> BOOLEAN]
  BY <1>2, <1>7 DEF send, server, Current
<1>11. Fine(m, S, S \cup {Host}) /\ WireOk(m)
  BY <1>2, <1>7 DEF Current
<1> QED
  BY <1>5, <1>6, <1>7, <1>9, <1>10, <1>11, StepOk

LEMMA EventHandlerOk ==
    ASSUME RInv, NEW e \in SystemEvents, event_handler(e)
    PROVE  RInv'
<1>1. e \in Actions /\ e.type = "SYSTEM_EVENT"
  BY DEF Actions, SystemEvents
<1>2. PICK kind : kind = e.event
  OBVIOUS
<1>3. send(kind, e) /\ kind \in Inputs
  BY <1>2 DEF event_handler, send
<1>4. ActionOk(e, pcbs)
  BY <1>1, <1>2, <1>3 DEF ActionOk
<1> QED
  BY <1>1, <1>3, <1>4, SendOk

LEMMA PlainOk ==
    ASSUME RInv, NEW a \in Actions, a.type # "SYSTEM_EVENT", a.type # "RX_HANDLE",
           NEW kind, send(kind, a)
    PROVE  RInv'
<1>1. ActionOk(a, pcbs)
  BY DEF ActionOk
<1> QED
  BY <1>1, SendOk

LEMMA CallOk ==
    ASSUME RInv,
           \/ mdns_hostname_set \/ mdns_instance_name_set \/ mdns_service_remove_all
           \/ \E s \in Services, own \in BOOLEAN : mdns_service_add(s, own)
           \/ \E type \in ServiceActions, s \in Services : mdns_service_call(type, s)
    PROVE  RInv'
<1>1. CASE mdns_hostname_set
  <2>1. PICK a, kind : a = [type |-> "HOSTNAME_SET"] /\ kind = "HOSTNAME_SET"
    OBVIOUS
  <2>2. a \in Actions /\ a.type # "SYSTEM_EVENT" /\ a.type # "RX_HANDLE" /\ send(kind, a)
    BY <1>1, <2>1 DEF Actions, mdns_hostname_set
  <2> QED
    BY <2>2, PlainOk
<1>2. CASE mdns_instance_name_set
  <2>1. PICK a, kind : a = [type |-> "INSTANCE_SET"] /\ kind = "INSTANCE_SET"
    OBVIOUS
  <2>2. a \in Actions /\ a.type # "SYSTEM_EVENT" /\ a.type # "RX_HANDLE" /\ send(kind, a)
    BY <1>2, <2>1 DEF Actions, mdns_instance_name_set
  <2> QED
    BY <2>2, PlainOk
<1>3. CASE mdns_service_remove_all
  <2>1. PICK a, kind : a = [type |-> "SERVICES_CLEAR"] /\ kind = "SERVICES_CLEAR"
    OBVIOUS
  <2>2. a \in Actions /\ a.type # "SYSTEM_EVENT" /\ a.type # "RX_HANDLE" /\ send(kind, a)
    BY <1>3, <2>1 DEF Actions, mdns_service_remove_all
  <2> QED
    BY <2>2, PlainOk
<1>4. ASSUME NEW s \in Services, NEW own \in BOOLEAN, mdns_service_add(s, own)
      PROVE  RInv'
  <2>1. PICK a, kind : a = [type |-> "SERVICE_ADD", service |-> s, own |-> own]
                          /\ kind = "SERVICE_ADD"
    OBVIOUS
  <2>2. a \in Actions /\ a.type # "SYSTEM_EVENT" /\ a.type # "RX_HANDLE" /\ send(kind, a)
    BY <1>4, <2>1 DEF Actions, mdns_service_add
  <2> QED
    BY <2>2, PlainOk
<1>5. ASSUME NEW type \in ServiceActions, NEW s \in Services, mdns_service_call(type, s)
      PROVE  RInv'
  <2>1. PICK a, kind : a = [type |-> type, service |-> s] /\ kind = type
    OBVIOUS
  <2>2. a \in Actions
    BY <2>1 DEF Actions
  <2>3. a.type # "SYSTEM_EVENT" /\ a.type # "RX_HANDLE"
    BY <2>1 DEF ServiceActions
  <2>4. send(kind, a)
    BY <1>5, <2>1 DEF mdns_service_call
  <2> QED
    BY <2>2, <2>3, <2>4, PlainOk
<1> QED
  BY <1>1, <1>2, <1>3, <1>4, <1>5

LEMMA ReceiveOk ==
    ASSUME RInv, NEW p \in Pcbs, NEW rx \in RxKinds, _udp_recv(p, rx)
    PROVE  RInv'
<1>1. PICK a, kind : a = [type |-> "RX_HANDLE", pcb |-> p, rx |-> rx] /\ kind = rx.kind
  OBVIOUS
<1>2. a \in Actions /\ a.type = "RX_HANDLE" /\ a.pcb = p /\ a.rx = rx
  BY <1>1 DEF Actions
<1>3. send(kind, a) /\ pcbs[p].up
  BY <1>1 DEF _udp_recv
<1>4. kind \in Inputs
  BY <1>3 DEF send
<1>5. ActionOk(a, pcbs)
  BY <1>1, <1>2, <1>3, <1>4 DEF ActionOk
<1> QED
  BY <1>2, <1>3, <1>5, SendOk

(* The packets of the list are touched, but not what they say.              *)
LEMMA TouchOk ==
    ASSUME RInv, NEW q \in Seq(Packets), txq' = q, Len(q) = Len(txq),
           \A k \in 1 .. Len(txq) : Alike(q[k], txq[k]), wire' = {},
           UNCHANGED <<hostname, instance, services, ownInstance, pcbs, probes>>,
           NEW l \in Seq(Actions), queue' = l, \A k \in 1 .. Len(l) : ActionOk(l[k], pcbs),
           NEW t \in Nat, toWrap' = t
    PROVE  RInv'
<1>1. PICK m : m = server_m
  OBVIOUS
<1>2. Current(m)
  BY <1>1, RInvCurrent
<1>3. PICK n : n = [m EXCEPT !.txq = q]
  OBVIOUS
<1>4. n \in Servers /\ n.hostname = m.hostname /\ n.pcbs = m.pcbs /\ n.probes = m.probes
      /\ n.wire = m.wire /\ n.txq = q
  BY <1>2, <1>3, NewQueue DEF Current, Servers
<1>5. PICK S, N : S = services /\ N = services \cup {Host}
  OBVIOUS
<1>6. Fine(m, S, N) /\ m.txq = txq
  BY <1>2, <1>5 DEF Current
<1>7. Fine(n, S, N)
  BY <1>4, <1>6, Retouched
<1>8. WireOk(n)
  BY <1>2, <1>4 DEF Current, WireOk
<1>9. PICK w : w = n.wire
  OBVIOUS
<1>10. RNext(n, w, l) /\ services' = S
  BY <1>2, <1>4, <1>5, <1>9 DEF RNext, Current
<1>11. /\ S \in SUBSET Services /\ instance' \in BOOLEAN
       /\ ownInstance' \in [Services -> BOOLEAN]
  BY <1>2, <1>5 DEF Current
<1>12. \A k \in 1 .. Len(l) : ActionOk(l[k], n.pcbs)
  BY <1>2, <1>4 DEF Current
<1>13. Fine(n, S, S \cup {Host})
  BY <1>5, <1>7
<1> QED
  BY <1>8, <1>9, <1>10, <1>11, <1>12, <1>13, StepOk

LEMMA SchedulerOk ==
    ASSUME RInv, _mdns_scheduler_run
    PROVE  RInv'
<1>1. PICK m : m = server_m
  OBVIOUS
<1>2. Current(m)
  BY <1>1, RInvCurrent
<1>3. txq \in Seq(Packets) /\ Len(txq) \in Nat /\ queue \in Seq(Actions) /\ Len(queue) \in Nat
  BY <1>2, ServerFields, LenProperties DEF Current
<1>4. PICK k : k = First({i \in 1 .. Len(txq) : ~txq[i].queued})
  OBVIOUS
<1>5. k # 0 /\ txq' = [txq EXCEPT ![k].queued = TRUE]
      /\ queue' = Append(queue, [type |-> "TX_HANDLE", packet |-> txq[k].id])
  BY <1>4 DEF _mdns_scheduler_run
<1>6. k \in 1 .. Len(txq)
  <2>0. PICK L \in Nat : L = Len(txq)
    BY <1>3
  <2>1. PICK K \in SUBSET (1 .. L) : K = {i \in 1 .. Len(txq) : ~txq[i].queued}
    BY <2>0
  <2>2. k = First(K)
    BY <1>4, <2>1
  <2>3. K # {} => First(K) \in K
    BY FirstOf
  <2>4. K = {} => First(K) = 0
    BY FirstOf
  <2> QED
    BY <1>5, <2>1, <2>2, <2>3, <2>4
<1>7. PICK x : x = txq[k]
  OBVIOUS
<1>8. x \in Packets
  BY <1>3, <1>6, <1>7, ElementOfSeq
<1>9. PICK z : z = [x EXCEPT !.queued = TRUE]
  OBVIOUS
<1>10. z \in Packets /\ Alike(z, x)
  BY <1>8, <1>9 DEF Packets, Alike
<1>11. PICK q : q = [txq EXCEPT ![k] = z]
  OBVIOUS
<1>12. txq' = q
  BY <1>5, <1>7, <1>9, <1>11
<1>13. q \in Seq(Packets) /\ Len(q) = Len(txq)
       /\ \A i \in 1 .. Len(txq) : q[i] = IF i = k THEN z ELSE txq[i]
  BY <1>3, <1>6, <1>10, <1>11, ExceptSeq
<1>14. ASSUME NEW i \in 1 .. Len(txq) PROVE Alike(q[i], txq[i])
  <2>1. CASE i = k
    BY <1>7, <1>10, <1>13, <2>1
  <2>2. CASE i # k
    BY <1>13, <2>2 DEF Alike
  <2> QED
    BY <2>1, <2>2
<1>15. PICK a : a = [type |-> "TX_HANDLE", packet |-> x.id]
  OBVIOUS
<1>16. a \in Actions /\ ActionOk(a, pcbs)
  <2>1. x.id \in Nat
    BY <1>8 DEF Packets
  <2>2. a.type = "TX_HANDLE" /\ a \in [type : {"TX_HANDLE"}, packet : Nat]
    BY <1>15, <2>1
  <2> QED
    BY <2>2 DEF Actions, ActionOk
<1>17. PICK l : l = Append(queue, a)
  OBVIOUS
<1>18. /\ l \in Seq(Actions) /\ Len(l) = Len(queue) + 1
       /\ (\A i \in 1 .. Len(queue) : l[i] = queue[i]) /\ l[Len(queue) + 1] = a
  BY <1>3, <1>16, <1>17, AppendProperties
<1>19. ASSUME NEW i \in 1 .. Len(l) PROVE ActionOk(l[i], pcbs)
  <2>1. CASE i \in 1 .. Len(queue)
    BY <1>2, <1>18, <2>1 DEF Current
  <2>2. CASE i = Len(queue) + 1
    BY <1>16, <1>18, <2>2
  <2> QED
    BY <1>3, <1>18, <2>1, <2>2
<1>20. queue' = l
  BY <1>5, <1>7, <1>15, <1>17
<1>21. PICK t \in Nat : t = toWrap
  BY <1>2 DEF Current
<1>22. /\ toWrap' = t /\ wire' = {}
       /\ UNCHANGED <<hostname, instance, services, ownInstance, pcbs, probes>>
  BY <1>21 DEF _mdns_scheduler_run
<1> QED
  BY <1>12, <1>13, <1>14, <1>18, <1>19, <1>20, <1>22, TouchOk

LEMMA TickOk ==
    ASSUME RInv, Tick
    PROVE  RInv'
<1>1. PICK m : m = server_m
  OBVIOUS
<1>2. Current(m)
  BY <1>1, RInvCurrent
<1>3. txq \in Seq(Packets) /\ Len(txq) \in Nat
  BY <1>2, ServerFields, LenProperties DEF Current
<1>4. PICK q : q = [k \in 1 .. Len(txq) |->
                       [txq[k] EXCEPT !.due = IF @ >= 0 THEN @ - 1 ELSE @]]
  OBVIOUS
<1>5. ASSUME NEW k \in 1 .. Len(txq) PROVE q[k] \in Packets /\ Alike(q[k], txq[k])
  <2>1. PICK x : x = txq[k]
    OBVIOUS
  <2>2. x \in Packets
    BY <1>3, <2>1, ElementOfSeq
  <2>3. PICK d \in Int : d = IF x.due >= 0 THEN x.due - 1 ELSE x.due
    BY <2>2 DEF Packets
  <2>4. PICK z : z = [x EXCEPT !.due = d]
    OBVIOUS
  <2>5. q[k] = z
    BY <1>4, <2>1, <2>3, <2>4
  <2>6. z \in Packets /\ Alike(z, x)
    BY <2>2, <2>4 DEF Packets, Alike
  <2> QED
    BY <2>1, <2>5, <2>6
<1>6. DOMAIN q = 1 .. Len(txq)
  BY <1>4
<1>7. q \in Seq(Packets) /\ Len(q) = Len(txq)
  <2>1. q = [k \in 1 .. Len(txq) |-> q[k]]
    BY <1>4
  <2>2. q \in [1 .. Len(txq) -> Packets]
    BY <1>5, <2>1
  <2> QED
    BY <1>3, <2>2
<1>8. PICK l \in Seq(Actions) : l = queue
  BY <1>2 DEF Current
<1>9. PICK t \in Nat : t = IF toWrap > 0 THEN toWrap - 1 ELSE 0
  BY <1>2 DEF Current
<1>10. /\ txq' = q /\ queue' = l /\ toWrap' = t /\ wire' = {}
       /\ UNCHANGED <<hostname, instance, services, ownInstance, pcbs, probes>>
  BY <1>4, <1>8, <1>9 DEF Tick
<1>11. \A k \in 1 .. Len(l) : ActionOk(l[k], pcbs)
  BY <1>2, <1>8 DEF Current
<1> QED
  BY <1>5, <1>7, <1>10, <1>11, TouchOk

--------------------------------------------------------------------------------
(* The invariant holds, and the properties follow.                          *)
LEMMA StutterOk ==
    ASSUME RInv, UNCHANGED vars
    PROVE  RInv'
<1>1. /\ UNCHANGED <<services, ownInstance, instance, toWrap, queue, wire, pcbs, hostname>>
      /\ server_m' = server_m
  BY DEF vars, server, server_m
<1>2. (server_m \in Servers)' /\ (services \subseteq Services)'
  BY <1>1 DEF RInv
<1>3. (ownInstance \in [Services -> BOOLEAN] /\ instance \in BOOLEAN /\ toWrap \in Nat)'
  BY <1>1 DEF RInv
<1>4. (wire \in SUBSET (Pcbs \X Names \X (0 .. 4)))'
  BY <1>1 DEF RInv
<1>5. (queue \in Seq(Actions) /\ \A k \in 1 .. Len(queue) : ActionOk(queue[k], pcbs))'
  BY <1>1 DEF RInv
<1>6. (\A p \in Pcbs : PcbOk(server_m, p, services, services \cup {Host}))'
  BY <1>1 DEF RInv
<1>7. (NoLateConflict /\ hostname => \A a \in wire : Settled(a[3]))'
  BY <1>1 DEF RInv
<1> QED
  BY <1>2, <1>3, <1>4, <1>5, <1>6, <1>7 DEF RInv

LEMMA InitOk ==
    ASSUME Init
    PROVE  RInv
<1>1. PICK open \in SUBSET Pcbs :
          pcbs = [p \in Pcbs |-> IF p \in open
                                 THEN [Closed EXCEPT !.up = TRUE, !.state = PCB_RUNNING]
                                 ELSE Closed]
  BY DEF Init
<1>2. PICK m : m = server_m
  OBVIOUS
<1>3. /\ m.hostname = FALSE /\ m.pcbs = pcbs /\ m.txq = <<>> /\ m.wire = {}
      /\ m.probes = [p \in Pcbs |-> [n \in Names |-> 0]]
  BY <1>2 DEF server_m, Init
<1>4. ASSUME NEW p \in Pcbs
      PROVE  /\ m.pcbs[p] \in PcbStates /\ m.pcbs[p].services = {}
             /\ m.pcbs[p].up => m.pcbs[p].state = PCB_RUNNING
             /\ ~m.pcbs[p].up => m.pcbs[p].state = PCB_OFF
  <2>1. CASE p \in open
    <3>1. m.pcbs[p] = [Closed EXCEPT !.up = TRUE, !.state = PCB_RUNNING]
      BY <1>1, <1>3, <2>1
    <3>2. m.pcbs[p] = [up |-> TRUE, state |-> PCB_RUNNING, services |-> {}, ip |-> FALSE,
                       running |-> FALSE, failed |-> 0]
      BY <3>1, Zenon DEF Closed
    <3> QED
      BY <3>2 DEF PcbStates, PCB_RUNNING
  <2>2. CASE p \notin open
    <3>1. m.pcbs[p] = Closed
      BY <1>1, <1>3, <2>2
    <3> QED
      BY <3>1 DEF Closed, PcbStates, PCB_OFF, PCB_RUNNING
  <2> QED
    BY <2>1, <2>2
<1>5. m \in Servers
  <2>1. m.pcbs \in [Pcbs -> PcbStates]
    <3>1. m.pcbs = [p \in Pcbs |-> m.pcbs[p]]
      BY <1>1, <1>3
    <3> QED
      BY <1>4, <3>1
  <2>2. m.probes \in Counts
    BY <1>3 DEF Counts
  <2>3. m.txq \in Seq(Packets) /\ m.wire \in SUBSET (Pcbs \X Names \X (0 .. 4))
    BY <1>3
  <2>4. m = [hostname |-> m.hostname, pcbs |-> m.pcbs, txq |-> m.txq, probes |-> m.probes,
             wire |-> m.wire]
    BY <1>2 DEF server_m
  <2> QED
    BY <1>3, <2>1, <2>2, <2>3, <2>4 DEF Servers
<1>6. \A p \in Pcbs : Of(m.txq, p) = {}
  BY <1>3 DEF Of
<1>7. ASSUME NEW p \in Pcbs PROVE PcbOk(m, p, {}, {Host})
  <2>1. OpenOk(m, p)
    BY <1>4, <1>6 DEF OpenOk, Probing, ListOk, PCB_STATE_IS_ANNOUNCING, PCB_RUNNING,
                      PCB_PROBE_1, PCB_PROBE_3
  <2>2. Unnamed(m, p) /\ NamesOk(m, p, {Host})
    BY <1>3, <1>4 DEF Unnamed, NamesOk
  <2>3. PointersOk(m, p, {})
    BY <1>4, <1>6 DEF PointersOk, PCB_OFF, PCB_PROBE_1
  <2> QED
    BY <2>1, <2>2, <2>3 DEF PcbOk
<1>8. services = {} /\ queue = <<>> /\ wire = {} /\ instance = FALSE /\ toWrap = WrapAt
      /\ ownInstance = [s \in Services |-> FALSE]
  BY DEF Init
<1>9. queue \in Seq(Actions) /\ \A k \in 1 .. Len(queue) : ActionOk(queue[k], pcbs)
  BY <1>8
<1>10. services \cup {Host} = {Host}
  BY <1>8
<1>11. \A p \in Pcbs : PcbOk(m, p, services, services \cup {Host})
  BY <1>7, <1>8, <1>10
<1>12. toWrap \in Nat /\ ownInstance \in [Services -> BOOLEAN] /\ instance \in BOOLEAN
  BY <1>8, MdnsAssumption
<1>13. services \subseteq Services /\ wire \in SUBSET (Pcbs \X Names \X (0 .. 4))
  BY <1>8
<1>14. \A a \in wire : Settled(a[3])
  BY <1>8
<1> QED
  BY <1>2, <1>5, <1>9, <1>11, <1>12, <1>13, <1>14 DEF RInv

LEMMA NextOk ==
    ASSUME RInv, Next
    PROVE  RInv'
<1>1. CASE Environment
  <2>1. ASSUME NEW e \in SystemEvents, event_handler(e) PROVE RInv'
    BY <2>1, EventHandlerOk
  <2>2. ASSUME NEW p \in Pcbs, NEW rx \in RxKinds, _udp_recv(p, rx) PROVE RInv'
    BY <2>2, ReceiveOk
  <2> QED
    BY <1>1, <2>1, <2>2, CallOk DEF Environment
<1>2. CASE ServiceTask
  BY <1>2, SystemEventOk, HostnameSetOk, InstanceSetOk, ServiceAddOk, ServiceInstanceSetOk,
     ServiceUpdateOk, ServiceDelOk, ServicesClearOk, TxHandleOk, RxHandleOk DEF ServiceTask
<1>3. CASE _mdns_scheduler_run
  BY <1>3, SchedulerOk
<1>4. CASE Tick
  BY <1>4, TickOk
<1> QED
  BY <1>1, <1>2, <1>3, <1>4 DEF Next

(* The inductive invariant of the responder: what a PCB in each state of    *)
(* probing and announcing has scheduled, what it points to, which of its    *)
(* names were probed, and what the actions in the queue refer to.           *)
THEOREM ResponderInvariant == Spec => []RInv
<1>1. Init => RInv
  BY InitOk
<1>2. RInv /\ [Next]_vars => RInv'
  BY NextOk, StutterOk
<1> QED
  BY <1>1, <1>2, PTL DEF Spec

(* A PCB with a list probes, and then its packet asks for the names of the  *)
(* list: what PcbOk says of one PCB.                                        *)
LEMMA PcbSound ==
    ASSUME RInv, NoLateConflict, NEW p \in Pcbs
    PROVE  /\ pcbs[p].services \subseteq services
           /\ ~PCB_STATE_IS_PROBING(pcbs[p]) => pcbs[p].services = {}
           /\ \A q \in Of(txq, p) :
                  (q.questions \cup q.servers \cup q.answers) \ {Host} \subseteq services
<1>1. PICK m : m = server_m
  OBVIOUS
<1>2. m \in Servers /\ m.pcbs = pcbs /\ m.txq = txq
      /\ PcbOk(m, p, services, services \cup {Host})
  BY <1>1 DEF RInv, server_m
<1>3. OpenOk(m, p) /\ PointersOk(m, p, services)
  BY <1>2 DEF PcbOk
<1>4. pcbs[p] \in PcbStates
  BY <1>2, ServerFields
<1>5. pcbs[p].state \in 0 .. 9 /\ pcbs[p].up \in BOOLEAN
  BY <1>4 DEF PcbStates
<1>6. CASE ~pcbs[p].up
  <2>1. pcbs[p].services = {} /\ Of(txq, p) = {}
    BY <1>2, <1>3, <1>6 DEF PointersOk
  <2> QED
    BY <2>1
<1>7. CASE pcbs[p].up /\ pcbs[p].state > PCB_PROBE_3
  <2>1. ListOk(m, p)
    BY <1>2, <1>3, <1>7 DEF OpenOk
  <2> QED
    BY <1>2, <1>3, <2>1 DEF ListOk, PointersOk
<1>8. CASE pcbs[p].up /\ pcbs[p].state =< PCB_PROBE_3
  <2>1. pcbs[p].state >= PCB_PROBE_1
    BY <1>2, <1>3, <1>8 DEF OpenOk
  <2>2. Probing(pcbs[p]) /\ PCB_STATE_IS_PROBING(pcbs[p])
    BY <1>5, <1>8, <2>1 DEF Probing, PCB_STATE_IS_PROBING, PCB_PROBE_1, PCB_PROBE_3,
                            PCB_OFF, PCB_ANNOUNCE_1
  <2>3. ProbeOk(m, p)
    BY <1>2, <1>3, <1>8, <2>2 DEF OpenOk
  <2>4. pcbs[p].services \subseteq services
    BY <1>2, <1>3 DEF PointersOk
  <2>5. Listed(pcbs[p]) \ {Host} \subseteq services
    BY <2>4 DEF Listed, withIp
  <2>6. ASSUME NEW q \in Of(txq, p)
        PROVE  (q.questions \cup q.servers \cup q.answers) \ {Host} \subseteq services
    BY <1>2, <2>3, <2>5, <2>6 DEF ProbeOk
  <2> QED
    BY <2>2, <2>4, <2>6
<1>9. pcbs[p].state > PCB_PROBE_3 \/ pcbs[p].state =< PCB_PROBE_3
  BY <1>5 DEF PCB_PROBE_3
<1> QED
  BY <1>5, <1>6, <1>7, <1>8, <1>9

(* The list of services a PCB probes for names registered services only,    *)
(* and is empty unless the PCB probes, as init_pcb_probe takes for granted  *)
(* when it copies the list.                                                 *)
THEOREM ProbeListsAreSound ==
    ASSUME NoLateConflict
    PROVE  Spec => []ProbeListSound
<1>1. RInv => ProbeListSound
  BY PcbSound DEF ProbeListSound
<1> QED
  BY <1>1, ResponderInvariant, PTL

(* No scheduled packet points to a service that was removed or cleared.     *)
THEOREM PacketsAreSound ==
    ASSUME NoLateConflict
    PROVE  Spec => []PacketsSound
<1>1. ASSUME RInv PROVE PacketsSound
  <2>1. txq \in Seq(Packets)
    BY <1>1, ServerFields DEF RInv, server_m
  <2>2. ASSUME NEW k \in 1 .. Len(txq)
        PROVE  (txq[k].questions \cup txq[k].servers \cup txq[k].answers) \ {Host}
                   \subseteq services
    <3>1. PICK q, p : q = txq[k] /\ p = txq[k].pcb
      OBVIOUS
    <3>2. q \in Packets
      BY <2>1, <3>1, ElementOfSeq
    <3>3. p \in Pcbs
      BY <3>1, <3>2 DEF Packets
    <3>4. q \in Of(txq, p)
      BY <3>1 DEF Of
    <3>5. (q.questions \cup q.servers \cup q.answers) \ {Host} \subseteq services
      BY <1>1, <3>3, <3>4, PcbSound
    <3> QED
      BY <3>1, <3>5
  <2> QED
    BY <2>2 DEF PacketsSound
<1> QED
  BY <1>1, ResponderInvariant, PTL

(* An open PCB that probes or announces has a packet scheduled, which moves *)
(* it on: removed services, known answers, conflicts and restarts leave it  *)
(* one or end its probing or announcing.                                    *)
THEOREM ActivePcbsGoOn == Spec => []ActivePcbHasPacket
<1>1. ASSUME RInv, NEW p \in Pcbs, pcbs[p].up, pcbs[p].state \in PCB_PROBE_1 .. PCB_ANNOUNCE_3
      PROVE  \E k \in 1 .. Len(txq) : txq[k].pcb = p
  <2>1. PICK m : m = server_m
    OBVIOUS
  <2>2. m.pcbs = pcbs /\ m.txq = txq /\ PcbOk(m, p, services, services \cup {Host})
    BY <1>1, <2>1 DEF RInv, server_m
  <2>3. OpenOk(m, p)
    BY <2>2 DEF PcbOk
  <2>4. Probing(pcbs[p]) \/ PCB_STATE_IS_ANNOUNCING(pcbs[p])
    BY <1>1 DEF Probing, PCB_STATE_IS_ANNOUNCING, PCB_PROBE_1, PCB_PROBE_3, PCB_ANNOUNCE_3,
                PCB_RUNNING
  <2>5. Of(txq, p) # {}
    BY <1>1, <2>2, <2>3, <2>4 DEF OpenOk, ProbeOk, AnnounceOk
  <2> QED
    BY <2>5 DEF Of
<1>2. RInv => ActivePcbHasPacket
  BY <1>1 DEF ActivePcbHasPacket
<1> QED
  BY <1>2, ResponderInvariant, PTL

(* Records and goodbyes are sent only for names that were probed on the PCB *)
(* since the name was chosen, lost in a conflict or the PCB was opened, or  *)
(* whose probing a new default instance name cut short.                     *)
THEOREM AnswersAreProbed ==
    ASSUME NoLateConflict
    PROVE  Spec => []NoUnprobedAnswer
<1>1. RInv => NoUnprobedAnswer
  BY DEF RInv, NoUnprobedAnswer, Settled
<1> QED
  BY <1>1, ResponderInvariant, PTL
================================================================================
