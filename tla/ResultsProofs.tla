----------------------------- MODULE ResultsProofs -----------------------------
(****************************************************************************)
(* Proofs about the results of the mDNS queries (MdnsResults).              *)
(****************************************************************************)
EXTENDS MdnsResults, SequenceTheorems, WellFoundedInduction, TLAPS

--------------------------------------------------------------------------------
(* What there is, and what a search is kept to.                             *)
Addresses == [type : AddressTypes, host : Names]

Results ==
    [pcb : RxPcbs, instance_name : Names \cup {None}, hostname : Names \cup {None},
     port : Offers \cup {None}, txt : Offers \cup {None}, addr : Seq(Addresses)]

Searches ==
    [type : Types \cup {"ANY"}, name : Names \cup {None}, service : Names \cup {None},
     max : Nat, state : {"RUNNING", "OFF", "DONE", "RETURNED"},
     result : Seq(Results), answer : Names \cup {None, "NOT_FOUND"}]

SearchOk(s) ==
    /\ s \in Searches
    /\ SearchTrue(s)
    /\ s.type \in AddressTypes => s.service = None

(* A result, and the results of a PTR search, only gain.                    *)
Gained(r, q) ==
    /\ q.pcb = r.pcb /\ q.instance_name = r.instance_name
    /\ r.hostname # None => q.hostname = r.hostname
    /\ r.txt # None => q.txt = r.txt
    /\ \A k \in 1 .. Len(r.addr) : \E i \in 1 .. Len(q.addr) : q.addr[i] = r.addr[k]

Grows(s, u) ==
    \A j \in 1 .. Len(s.result) : \E i \in 1 .. Len(u.result) :
        Gained(s.result[j], u.result[i])

Same(s, u) ==
    /\ u.type = s.type /\ u.name = s.name /\ u.service = s.service /\ u.max = s.max
    /\ u.answer = s.answer

(* What a step does to a search.                                            *)
Step(s, u) ==
    /\ SearchOk(u) /\ Same(s, u) /\ u.state = s.state /\ Grows(s, u)

(* A search that an SRV or TXT of o may be added to, because it is for it   *)
(* or because its name is ours, and one that an address of a host may be    *)
(* added to.                                                                *)
Asked(s, o) ==
    /\ s.service = o.service
    /\ s.type # "PTR" => s.name = o.instance

Fits(s, o) ==
    /\ s.type \notin AddressTypes
    /\ Asked(s, o) \/ name_is_ours(Record("SRV", o))

FitsHost(s, h) ==
    \/ s.type = "PTR"
    \/ s.name = h
    \/ s.type \notin AddressTypes /\ h = OurHost

(* The first place of a list.                                               *)
Below == {ss \in Nat \X Nat : ss[1] < ss[2]}

LEMMA FirstOf ==
    ASSUME NEW n \in Nat, NEW K \in SUBSET (1 .. n)
    PROVE  /\ K = {} => First(K) = 0
           /\ K # {} => First(K) \in K /\ First(K) # 0 /\ \A k \in K : First(K) =< k
<1> SUFFICES ASSUME K # {}
             PROVE  First(K) \in K /\ First(K) # 0 /\ \A k \in K : First(K) =< k
  BY DEF First
<1>1. IsWellFoundedOn(Below, Nat)
  BY NatLessThanWellFounded DEF OpToRel, Below
<1>2. K \in SUBSET Nat
  OBVIOUS
<1>3. PICK m \in K : \A k \in K : ~ (<<k, m>> \in Below)
  BY <1>1, <1>2, WFMin, Zenon
<1>4. ASSUME NEW k \in K PROVE m =< k
  <2>1. ~ (<<k, m>> \in Below)
    BY <1>3
  <2>2. m \in Nat /\ k \in Nat
    BY <1>2
  <2> QED
    BY <2>1, <2>2 DEF Below
<1>5. Min(K) \in K /\ \A k \in K : Min(K) =< k
  BY <1>3, <1>4 DEF Min
<1> QED
  BY <1>5 DEF First

(* What ResultTrue says of a result depends on the question alone.          *)
LEMMA TrueOfQuestion ==
    ASSUME NEW s, NEW u, Same(s, u), NEW r
    PROVE  ResultTrue(s, r) <=> ResultTrue(u, r)
<1>1. \A o : about(s, r, o) <=> about(u, r, o)
  BY DEF Same, about
<1>2. \A a : AddressTrue(s, r, a) <=> AddressTrue(u, r, a)
  BY <1>1 DEF Same, AddressTrue
<1>3. \A o : strays(s, r, o) <=> strays(u, r, o)
  BY DEF Same, strays
<1>4. \A i : InstanceTrue(s, i) <=> InstanceTrue(u, i)
  BY DEF Same, InstanceTrue
<1> QED
  BY <1>1, <1>2, <1>3, <1>4 DEF ResultTrue

(* An SRV or TXT is what its result may have, and names what it may name.   *)
LEMMA FitsTrue ==
    ASSUME NEW s, NEW o, Fits(s, o), NEW r, s.type = "PTR" => r.instance_name = o.instance
    PROVE  about(s, r, o) \/ strays(s, r, o)
BY DEF Fits, Asked, about, strays

LEMMA FitsInstance ==
    ASSUME NEW s, NEW o \in Offers, Fits(s, o)
    PROVE  InstanceTrue(s, o.instance)
<1>1. Asked(s, o) \/ o.service \in DOMAIN OurInstances
  BY DEF Fits, name_is_ours, Record, AddressTypes
<1> QED
  BY <1>1 DEF Fits, Asked, InstanceTrue

LEMMA GainedRefl ==
    ASSUME NEW r
    PROVE  Gained(r, r)
BY DEF Gained

LEMMA GainedTrans ==
    ASSUME NEW a, NEW b, NEW c, Gained(a, b), Gained(b, c)
    PROVE  Gained(a, c)
<1>1. ASSUME NEW k \in 1 .. Len(a.addr) PROVE \E i \in 1 .. Len(c.addr) : c.addr[i] = a.addr[k]
  <2>1. PICK j \in 1 .. Len(b.addr) : b.addr[j] = a.addr[k]
    BY DEF Gained
  <2> QED
    BY <2>1 DEF Gained
<1>2. a.hostname # None => c.hostname = a.hostname
  BY DEF Gained
<1>3. a.txt # None => c.txt = a.txt
  BY DEF Gained
<1>4. c.pcb = a.pcb /\ c.instance_name = a.instance_name
  BY DEF Gained
<1> QED
  BY <1>1, <1>2, <1>3, <1>4 DEF Gained

LEMMA GrowsTrans ==
    ASSUME NEW s, NEW t, NEW u, Grows(s, t), Grows(t, u)
    PROVE  Grows(s, u)
<1> SUFFICES ASSUME NEW j \in 1 .. Len(s.result)
             PROVE  \E i \in 1 .. Len(u.result) : Gained(s.result[j], u.result[i])
  BY DEF Grows
<1>1. PICK k \in 1 .. Len(t.result) : Gained(s.result[j], t.result[k])
  BY DEF Grows
<1>2. PICK i \in 1 .. Len(u.result) : Gained(t.result[k], u.result[i])
  BY DEF Grows
<1> QED
  BY <1>1, <1>2, GainedTrans

LEMMA StepTrans ==
    ASSUME NEW s, NEW t, NEW u, Step(s, t), Step(t, u)
    PROVE  Step(s, u)
<1>1. Grows(s, u)
  BY GrowsTrans DEF Step
<1>2. Same(s, u)
  BY DEF Step, Same
<1> QED
  BY <1>1, <1>2 DEF Step

LEMMA StepRefl ==
    ASSUME NEW s, SearchOk(s)
    PROVE  Step(s, s)
<1>1. Grows(s, s)
  BY GainedRefl DEF Grows
<1> QED
  BY <1>1 DEF Step, Same

(* A new result in front.                                                   *)
LEMMA ChainStep ==
    ASSUME NEW s, SearchOk(s), NEW r \in Results, ResultTrue(s, r),
           s.type = "PTR" => OfInstance(s, r.instance_name, r.pcb) = {}
    PROVE  /\ Step(s, Chain(s, r))
           /\ HasRoom(s) => \E k \in 1 .. Len(Chain(s, r).result) : Chain(s, r).result[k] = r
<1>0. CASE ~HasRoom(s)
  BY <1>0, StepRefl DEF Chain
<1>1. CASE HasRoom(s)
  <2> DEFINE l == <<r>> \o s.result
             u == [s EXCEPT !.result = l]
  <2>1. s \in Searches /\ s.result \in Seq(Results) /\ s.max \in Nat /\ <<r>> \in Seq(Results)
    BY DEF SearchOk, Searches
  <2>2. Chain(s, r) = u
    BY <1>1 DEF Chain
  <2>3. Len(s.result) \in Nat /\ Len(<<r>>) = 1 /\ <<r>>[1] = r
    BY <2>1, LenProperties
  <2>4. /\ l \in Seq(Results)
        /\ Len(l) = Len(<<r>>) + Len(s.result)
        /\ \A i \in 1 .. Len(<<r>>) + Len(s.result) :
               l[i] = IF i <= Len(<<r>>) THEN <<r>>[i] ELSE s.result[i - Len(<<r>>)]
    BY <2>1, ConcatProperties, Zenon
  <2> HIDE DEF l
  <2>5. Len(l) = Len(s.result) + 1 /\ Len(l) \in Nat
    BY <2>3, <2>4
  <2>6. l[1] = r
    BY <2>3, <2>4
  <2>7. \A i \in 1 .. Len(l) : i # 1 => i - 1 \in 1 .. Len(s.result) /\ l[i] = s.result[i - 1]
    BY <2>3, <2>4, <2>5
  <2>8. ASSUME NEW j \in 1 .. Len(s.result)
        PROVE  j + 1 \in 1 .. Len(l) /\ l[j + 1] = s.result[j]
    <3>1. j + 1 \in 1 .. Len(l) /\ j + 1 # 1 /\ (j + 1) - 1 = j
      BY <2>3, <2>5
    <3> QED
      BY <3>1, <2>7
  <2>9. /\ u \in Searches /\ u.result = l /\ Same(s, u) /\ u.state = s.state
    BY <2>1, <2>4 DEF Searches, Same
  <2> HIDE DEF u
  <2>10. Grows(s, u)
    BY <2>8, <2>9, GainedRefl DEF Grows
  <2>11. SearchTrue(u)
    <3>1. u.max # 0 => Len(u.result) =< u.max
      BY <1>1, <2>1, <2>3, <2>5, <2>9 DEF HasRoom, Same
    <3>2. ASSUME NEW j \in 1 .. Len(u.result) PROVE ResultTrue(u, u.result[j])
      <4>1. ResultTrue(s, l[j])
        BY <2>6, <2>7, <2>9 DEF SearchOk, SearchTrue
      <4> QED
        BY <4>1, <2>9, TrueOfQuestion
    <3>3. ASSUME u.type = "PTR" PROVE ListedOnce(u)
      <4>1. s.type = "PTR" /\ ListedOnce(s)
        BY <3>3, <2>9 DEF Same, SearchOk, SearchTrue
      <4>2. \A k \in 1 .. Len(s.result) :
                ~(s.result[k].pcb = r.pcb /\ s.result[k].instance_name = r.instance_name)
        BY <4>1 DEF OfInstance, OnPcb
      <4> SUFFICES ASSUME NEW i \in 1 .. Len(l), NEW j \in 1 .. Len(l),
                          l[i].pcb = l[j].pcb, l[i].instance_name = l[j].instance_name
                   PROVE  i = j
        BY <2>9 DEF ListedOnce
      <4>3. CASE i = 1 /\ j # 1
        BY <4>3, <4>2, <2>6, <2>7
      <4>4. CASE i # 1 /\ j = 1
        BY <4>4, <4>2, <2>6, <2>7
      <4>5. CASE i # 1 /\ j # 1
        <5>0. /\ i - 1 \in 1 .. Len(s.result) /\ l[i] = s.result[i - 1]
              /\ j - 1 \in 1 .. Len(s.result) /\ l[j] = s.result[j - 1]
          BY <4>5, <2>7
        <5>1. i - 1 = j - 1
          BY <4>1, <5>0, Zenon DEF ListedOnce
        <5> QED
          BY <5>1, <2>5
      <4> QED
        BY <4>3, <4>4, <4>5
    <3>4. u.answer \in {None, "NOT_FOUND", u.name}
      BY <2>9 DEF Same, SearchOk, SearchTrue
    <3> QED
      BY <3>1, <3>2, <3>3, <3>4 DEF SearchTrue
  <2>12. SearchOk(u)
    BY <2>9, <2>11 DEF SearchOk, Same
  <2>13. 1 \in 1 .. Len(u.result) /\ u.result[1] = r
    BY <2>3, <2>5, <2>6, <2>9
  <2> QED
    BY <2>2, <2>9, <2>10, <2>12, <2>13 DEF Step
<1> QED
  BY <1>0, <1>1

(* A result in the place of another that it gained from.                    *)
LEMMA SetStep ==
    ASSUME NEW s, SearchOk(s), NEW at \in 1 .. Len(s.result), NEW r \in Results,
           ResultTrue(s, r), Gained(s.result[at], r)
    PROVE  /\ Step(s, SetResult(s, at, r))
           /\ Len(SetResult(s, at, r).result) = Len(s.result)
           /\ SetResult(s, at, r).result[at] = r
<1> DEFINE l == [s.result EXCEPT ![at] = r]
           u == [s EXCEPT !.result = l]
<1>1. s \in Searches /\ s.result \in Seq(Results)
  BY DEF SearchOk, Searches
<1>2. SetResult(s, at, r) = u
  BY <1>1 DEF SetResult, Searches
<1>3. /\ l \in Seq(Results) /\ Len(l) = Len(s.result)
      /\ \A j \in 1 .. Len(s.result) : l[j] = IF j = at THEN r ELSE s.result[j]
  <2> HIDE DEF l
  <2>1. l = [s.result EXCEPT ![at] = r]
    BY DEF l
  <2> QED
    BY <1>1, <2>1, ExceptSeq
<1> HIDE DEF l
<1>4. /\ u \in Searches /\ u.result = l /\ Same(s, u) /\ u.state = s.state
  BY <1>1, <1>3 DEF Searches, Same
<1> HIDE DEF u
<1>5. \A j \in 1 .. Len(s.result) : Gained(s.result[j], l[j])
  BY <1>3, GainedRefl
<1>6. Grows(s, u)
  BY <1>3, <1>4, <1>5 DEF Grows
<1>7. SearchTrue(u)
  <2>1. u.max # 0 => Len(u.result) =< u.max
    BY <1>3, <1>4 DEF Same, SearchOk, SearchTrue
  <2>2. ASSUME NEW j \in 1 .. Len(u.result) PROVE ResultTrue(u, u.result[j])
    <3>1. ResultTrue(s, l[j])
      BY <1>3, <1>4 DEF SearchOk, SearchTrue
    <3> QED
      BY <3>1, <1>4, TrueOfQuestion
  <2>3. ASSUME u.type = "PTR" PROVE ListedOnce(u)
    <3>1. ListedOnce(s)
      BY <2>3, <1>4 DEF Same, SearchOk, SearchTrue
    <3>2. \A j \in 1 .. Len(s.result) :
              l[j].pcb = s.result[j].pcb /\ l[j].instance_name = s.result[j].instance_name
      BY <1>5 DEF Gained
    <3> QED
      BY <3>1, <3>2, <1>3, <1>4 DEF ListedOnce
  <2>4. u.answer \in {None, "NOT_FOUND", u.name}
    BY <1>4 DEF Same, SearchOk, SearchTrue
  <2> QED
    BY <2>1, <2>2, <2>3, <2>4 DEF SearchTrue
<1>8. SearchOk(u)
  BY <1>4, <1>7 DEF SearchOk, Same
<1> QED
  BY <1>2, <1>3, <1>4, <1>6, <1>8 DEF Step

--------------------------------------------------------------------------------
(* The records, each for a search it fits.                                  *)
LEMMA NewResultTrue ==
    ASSUME NEW p \in RxPcbs, NEW s
    PROVE  NewResult(p) \in Results /\ ResultTrue(s, NewResult(p))
<1> DEFINE r == NewResult(p)
<1>1. <<>> \in Seq(Addresses) /\ Len(<<>>) = 0
  BY EmptySeq
<1>2. /\ r \in Results /\ r.instance_name = None /\ r.hostname = None /\ r.port = None
      /\ r.txt = None /\ r.addr = <<>>
  BY <1>1 DEF NewResult, Results
<1> HIDE DEF r
<1>3. \A k \in 1 .. Len(r.addr) : FALSE
  BY <1>1, <1>2
<1> QED
  BY <1>2, <1>3 DEF ResultTrue, r

(* The address is in the result afterwards; nothing else changes.           *)
LEMMA AddIp ==
    ASSUME NEW o \in Offers, NEW type \in AddressTypes, NEW r \in Results
    PROVE  LET q == result_add_ip(r, Record(type, o))
           IN /\ q \in Results /\ Gained(r, q)
              /\ q.hostname = r.hostname /\ q.port = r.port /\ q.txt = r.txt
              /\ \E k \in 1 .. Len(q.addr) : q.addr[k].type = type
              /\ \A k \in 1 .. Len(q.addr) :
                     \/ q.addr[k].host = o.host
                     \/ \E i \in 1 .. Len(r.addr) : q.addr[k] = r.addr[i]
<1> DEFINE a == [type |-> type, host |-> o.host]
           l == <<a>> \o r.addr
           q == result_add_ip(r, Record(type, o))
<1>1. a \in Addresses /\ a.type = type /\ a.host = o.host
  BY ResultAssumption DEF Addresses
<1>2. result_addr_create_ip(Record(type, o)) = a
  BY DEF result_addr_create_ip, Record
<1> HIDE DEF a
<1>3. r.addr \in Seq(Addresses) /\ <<a>> \in Seq(Addresses) /\ Len(<<a>>) = 1 /\ <<a>>[1] = a
  BY <1>1 DEF Results
<1>4. Len(r.addr) \in Nat
  BY <1>3, LenProperties
<1>5. CASE Contains(r.addr, a)
  <2>1. q = r
    BY <1>2, <1>5 DEF result_add_ip
  <2>2. PICK i \in 1 .. Len(r.addr) : r.addr[i] = a
    BY <1>5 DEF Contains
  <2> QED
    BY <1>1, <2>1, <2>2, GainedRefl
<1>6. CASE ~Contains(r.addr, a)
  <2>1. q = [r EXCEPT !.addr = l]
    BY <1>2, <1>6 DEF result_add_ip
  <2>2. /\ l \in Seq(Addresses)
        /\ Len(l) = Len(<<a>>) + Len(r.addr)
        /\ \A i \in 1 .. Len(<<a>>) + Len(r.addr) :
               l[i] = IF i <= Len(<<a>>) THEN <<a>>[i] ELSE r.addr[i - Len(<<a>>)]
    BY <1>3, ConcatProperties, Zenon
  <2> HIDE DEF l
  <2>3. Len(l) = Len(r.addr) + 1 /\ l[1] = a /\ 1 \in 1 .. Len(l)
    BY <1>3, <1>4, <2>2
  <2>4. ASSUME NEW i \in 1 .. Len(l), i # 1
        PROVE  i - 1 \in 1 .. Len(r.addr) /\ l[i] = r.addr[i - 1]
    BY <1>3, <1>4, <2>2, <2>3, <2>4
  <2>5. ASSUME NEW j \in 1 .. Len(r.addr) PROVE \E i \in 1 .. Len(l) : l[i] = r.addr[j]
    <3>1. j + 1 \in 1 .. Len(l) /\ j + 1 # 1 /\ (j + 1) - 1 = j
      BY <1>4, <2>3
    <3> QED
      BY <3>1, <2>4
  <2>6. /\ q \in Results /\ q.addr = l /\ q.pcb = r.pcb /\ q.instance_name = r.instance_name
        /\ q.hostname = r.hostname /\ q.port = r.port /\ q.txt = r.txt
    BY <2>1, <2>2 DEF Results
  <2> HIDE DEF q
  <2>7. Gained(r, q)
    BY <2>5, <2>6 DEF Gained
  <2>8. \A k \in 1 .. Len(q.addr) :
            \/ q.addr[k].host = o.host
            \/ \E i \in 1 .. Len(r.addr) : q.addr[k] = r.addr[i]
    BY <1>1, <2>3, <2>4, <2>6
  <2>9. \E k \in 1 .. Len(q.addr) : q.addr[k].type = type
    BY <1>1, <2>3, <2>6
  <2> QED
    BY <2>6, <2>7, <2>8, <2>9 DEF q
<1> QED
  BY <1>5, <1>6

LEMMA PlacesFirst ==
    ASSUME NEW s, SearchOk(s), NEW K \in SUBSET (1 .. Len(s.result))
    PROVE  /\ K = {} => First(K) = 0
           /\ K # {} => First(K) \in K /\ First(K) # 0
<1>1. Len(s.result) \in Nat
  BY LenProperties DEF SearchOk, Searches
<1> QED
  BY <1>1, FirstOf

LEMMA PtrStep ==
    ASSUME NEW s, SearchOk(s), NEW i \in Names, InstanceTrue(s, i),
           NEW p \in RxPcbs
    PROVE  LET u == search_result_add_ptr(s, i, p)
           IN /\ Step(s, u)
              /\ HasRoom(s) \/ OfInstance(s, i, p) # {} => OfInstance(u, i, p) # {}
<1> DEFINE u == search_result_add_ptr(s, i, p)
           r == [NewResult(p) EXCEPT !.instance_name = i]
<1>1. OfInstance(s, i, p) \subseteq 1 .. Len(s.result)
  BY DEF OfInstance, OnPcb
<1>2. InstanceResult(s, i, p) # 0 <=> OfInstance(s, i, p) # {}
  BY <1>1, PlacesFirst DEF InstanceResult
<1>3. CASE OfInstance(s, i, p) # {}
  BY <1>2, <1>3, StepRefl DEF search_result_add_ptr
<1>4. CASE OfInstance(s, i, p) = {}
  <2>1. u = Chain(s, r)
    BY <1>2, <1>4 DEF search_result_add_ptr
  <2>2. NewResult(p) \in Results /\ ResultTrue(s, NewResult(p))
    BY NewResultTrue
  <2>3. /\ r \in Results /\ r.pcb = p /\ r.instance_name = i
        /\ r.hostname = None /\ r.port = None /\ r.txt = None /\ r.addr = <<>>
    BY <2>2 DEF NewResult, Results
  <2> HIDE DEF r, u
  <2>4. \A k \in 1 .. Len(r.addr) : FALSE
    BY <2>3
  <2>5. ResultTrue(s, r)
    BY <2>3, <2>4 DEF ResultTrue
  <2>6. /\ Step(s, u)
        /\ HasRoom(s) => \E k \in 1 .. Len(u.result) : u.result[k] = r
    BY <1>4, <2>1, <2>3, <2>5, ChainStep
  <2>7. HasRoom(s) => OfInstance(u, i, p) # {}
    BY <2>3, <2>6 DEF OfInstance, OnPcb
  <2> QED
    BY <1>4, <2>6, <2>7 DEF u
<1> QED
  BY <1>3, <1>4

LEMMA SrvStep ==
    ASSUME NEW s, SearchOk(s), NEW o \in Offers, Fits(s, o),
           NEW p \in RxPcbs
    PROVE  LET u == take_srv(s, o, p)
           IN /\ Step(s, u)
              /\ s.type = "PTR" /\ (HasRoom(s) \/ OfInstance(s, o.instance, p) # {}) =>
                     \E j \in OfInstance(u, o.instance, p) : u.result[j].hostname # None
<1> DEFINE u == take_srv(s, o, p)
<1>0. o.instance \in Names /\ o.host \in Names /\ o # None /\ o.host # None
      /\ InstanceTrue(s, o.instance)
  BY ResultAssumption, FitsInstance
<1>1. CASE s.type # "PTR"
  <2> DEFINE n == NewResult(p)
             r == [n EXCEPT !.hostname = o.host, !.port = o]
  <2>1. CASE OfHost(s, o.host, p) # {}
    BY <1>1, <2>1, StepRefl DEF take_srv, search_result_add_srv
  <2>2. CASE OfHost(s, o.host, p) = {}
    <3>1. u = Chain(s, r)
      BY <1>1, <2>2 DEF take_srv, search_result_add_srv
    <3>2. n \in Results
      BY NewResultTrue
    <3>3. /\ r \in Results /\ r.pcb = p /\ r.hostname = o.host /\ r.port = o
          /\ r.txt = None /\ r.addr = <<>> /\ r.instance_name = None
      BY <3>2, <1>0 DEF NewResult, Results
    <3> HIDE DEF r, u
    <3>4. about(s, r, o) \/ strays(s, r, o)
      BY <1>1, FitsTrue
    <3>5. \A k \in 1 .. Len(r.addr) : FALSE
      BY <3>3
    <3>6. ResultTrue(s, r)
      BY <1>0, <3>3, <3>4, <3>5 DEF ResultTrue
    <3> QED
      BY <1>1, <3>1, <3>3, <3>6, ChainStep DEF u
  <2> QED
    BY <2>1, <2>2
<1>2. CASE s.type = "PTR"
  <2> DEFINE t == search_result_add_ptr(s, o.instance, p)
             K == OfInstance(t, o.instance, p)
             at == First(K)
             r == [t.result[at] EXCEPT !.hostname = o.host, !.port = o]
  <2>1. /\ Step(s, t)
        /\ HasRoom(s) \/ OfInstance(s, o.instance, p) # {} => K # {}
    BY <1>0, <1>2, PtrStep
  <2>2. u = IF at = 0 \/ (at # 0 /\ t.result[at].hostname # None) THEN t
            ELSE SetResult(t, at, r)
    BY <1>2 DEF take_srv, InstanceResult
  <2> HIDE DEF t, u
  <2>3. SearchOk(t) /\ Same(s, t)
    BY <2>1 DEF Step
  <2>4. K \in SUBSET (1 .. Len(t.result))
    BY DEF OfInstance, OnPcb
  <2>5. (K = {} => at = 0) /\ (K # {} => at \in K /\ at # 0)
    BY <2>3, <2>4, PlacesFirst
  <2>6. CASE at = 0
    BY <2>1, <2>2, <2>5, <2>6 DEF u
  <2>7. CASE at # 0 /\ t.result[at].hostname # None
    BY <2>1, <2>2, <2>5, <2>7 DEF u
  <2>8. CASE at # 0 /\ t.result[at].hostname = None
    <3> DEFINE q == t.result[at]
    <3> HIDE DEF at, K
    <3>1. at \in K /\ at \in 1 .. Len(t.result) /\ u = SetResult(t, at, r)
      BY <2>2, <2>4, <2>5, <2>8
    <3>2. q \in Results /\ q.pcb = p /\ q.instance_name = o.instance /\ ResultTrue(t, q)
      BY <3>1, <2>3, ElementOfSeq DEF SearchOk, Searches, SearchTrue, K, OfInstance, OnPcb
    <3>3. ASSUME NEW k \in 1 .. Len(q.addr) PROVE FALSE
      <4>1. q.addr[k] \in Addresses /\ AddressTrue(t, q, q.addr[k])
        BY <3>2, ElementOfSeq DEF Results, ResultTrue
      <4>2. q.addr[k].host \in Names /\ q.addr[k].host = None
        BY <4>1, <2>3, <2>8, <1>2 DEF AddressTrue, Same, Addresses
      <4> QED
        BY <4>2, ResultAssumption
    <3> HIDE DEF q
    <3>4. r = [q EXCEPT !.hostname = o.host, !.port = o]
      BY DEF q
    <3>5. /\ r \in Results /\ r.hostname = o.host /\ r.port = o
          /\ r.pcb = q.pcb /\ r.instance_name = q.instance_name
          /\ r.txt = q.txt /\ r.addr = q.addr
      BY <3>2, <3>4, <1>0 DEF Results
    <3> HIDE DEF r
    <3>6. Gained(q, r)
      BY <3>3, <3>5, <2>8 DEF Gained, q
    <3>7. about(t, r, o) \/ strays(t, r, o)
      <4>1. about(s, r, o) \/ strays(s, r, o)
        BY <1>2, <3>2, <3>5, FitsTrue
      <4> QED
        BY <2>3, <4>1 DEF about, strays, Same
    <3>8. r.txt # None => about(t, r, r.txt) \/ strays(t, r, r.txt)
      BY <3>2, <3>5 DEF about, strays, ResultTrue
    <3>9. r.instance_name # None => InstanceTrue(t, r.instance_name)
      BY <3>2, <3>5 DEF ResultTrue
    <3>13. ResultTrue(t, r)
      BY <1>0, <3>3, <3>5, <3>7, <3>8, <3>9 DEF ResultTrue
    <3>10. /\ Step(t, u) /\ Len(u.result) = Len(t.result) /\ u.result[at] = r
      BY <2>3, <3>1, <3>5, <3>6, <3>13, SetStep DEF q
    <3>11. Step(s, u)
      BY <2>1, <3>10, StepTrans
    <3>12. at \in OfInstance(u, o.instance, p) /\ u.result[at].hostname # None
      BY <1>0, <3>1, <3>2, <3>5, <3>10 DEF OfInstance, OnPcb
    <3> QED
      BY <3>11, <3>12 DEF u
  <2> QED
    BY <2>6, <2>7, <2>8
<1> QED
  BY <1>1, <1>2

LEMMA TxtStep ==
    ASSUME NEW s, SearchOk(s), NEW o \in Offers, Fits(s, o),
           NEW p \in RxPcbs
    PROVE  LET u == take_txt(s, o, p)
           IN /\ Step(s, u)
              /\ s.type = "PTR" /\ o.txt /\ OfInstance(s, o.instance, p) # {} =>
                     \E j \in OfInstance(u, o.instance, p) : u.result[j].txt # None
<1> DEFINE u == take_txt(s, o, p)
<1>0. o.instance \in Names /\ o # None /\ InstanceTrue(s, o.instance)
  BY ResultAssumption, FitsInstance
<1>1. CASE s.type # "PTR"
  <2> DEFINE n == NewResult(p)
             r == [n EXCEPT !.txt = o]
             K == OnPcb(s, p)
             at == First(K)
             q == s.result[at]
             w == [q EXCEPT !.txt = o]
  <2>1. K \in SUBSET (1 .. Len(s.result))
    BY DEF OnPcb
  <2>2. (K = {} => at = 0) /\ (K # {} => at \in K /\ at # 0)
    BY <2>1, PlacesFirst
  <2>3. u = IF ~o.txt THEN s
            ELSE IF at = 0 THEN Chain(s, r)
            ELSE IF q.txt # None THEN s
            ELSE SetResult(s, at, w)
    BY <1>1 DEF take_txt, search_result_add_txt
  <2> HIDE DEF u, K, at
  <2>4. CASE u = s
    BY <1>1, <2>4, StepRefl DEF u
  <2>5. CASE at # 0 /\ q.txt = None /\ u = SetResult(s, at, w)
    <3>1. at \in 1 .. Len(s.result) /\ q \in Results /\ ResultTrue(s, q)
      BY <2>1, <2>2, <2>5, ElementOfSeq DEF SearchOk, Searches, SearchTrue
    <3>2. w = [q EXCEPT !.txt = o]
      OBVIOUS
    <3> HIDE DEF q, w
    <3>3. /\ w \in Results /\ w.txt = o /\ w.pcb = q.pcb /\ w.instance_name = q.instance_name
          /\ w.hostname = q.hostname /\ w.port = q.port /\ w.addr = q.addr
      BY <1>0, <3>1, <3>2 DEF Results
    <3>4. Gained(q, w)
      BY <2>5, <3>3 DEF Gained
    <3>5. \A x : about(s, q, x) <=> about(s, w, x)
      BY <3>3 DEF about
    <3>6. \A a : AddressTrue(s, q, a) <=> AddressTrue(s, w, a)
      BY <3>3, <3>5 DEF AddressTrue
    <3>7. about(s, w, o) \/ strays(s, w, o)
      BY <1>1, FitsTrue
    <3>10. \A x : strays(s, q, x) <=> strays(s, w, x)
      BY <3>3 DEF strays
    <3>8. ResultTrue(s, w)
      BY <3>1, <3>3, <3>5, <3>6, <3>7, <3>10 DEF ResultTrue
    <3>9. Step(s, u)
      BY <2>5, <3>1, <3>3, <3>4, <3>8, SetStep DEF q
    <3> QED
      BY <1>1, <3>9 DEF u
  <2>6. CASE u = Chain(s, r)
    <3>1. n \in Results
      BY NewResultTrue
    <3>2. /\ r \in Results /\ r.hostname = None /\ r.port = None /\ r.txt = o
          /\ r.addr = <<>> /\ r.instance_name = None
      BY <3>1, <1>0 DEF NewResult, Results
    <3> HIDE DEF r
    <3>3. about(s, r, o) \/ strays(s, r, o)
      BY <1>1, FitsTrue
    <3>4. \A k \in 1 .. Len(r.addr) : FALSE
      BY <3>2
    <3>5. ResultTrue(s, r)
      BY <3>2, <3>3, <3>4 DEF ResultTrue
    <3>6. Step(s, u)
      BY <1>1, <2>6, <3>2, <3>5, ChainStep
    <3> QED
      BY <1>1, <3>6 DEF u
  <2> QED
    BY <2>3, <2>4, <2>5, <2>6, ResultAssumption
<1>2. CASE s.type = "PTR"
  <2> DEFINE t == search_result_add_ptr(s, o.instance, p)
             K == OfInstance(t, o.instance, p)
             at == First(K)
             q == t.result[at]
             r == [q EXCEPT !.txt = o]
  <2>1. /\ Step(s, t)
        /\ OfInstance(s, o.instance, p) # {} => K # {}
    BY <1>0, <1>2, PtrStep
  <2>2. u = IF at = 0 \/ ~o.txt \/ (at # 0 /\ q.txt # None) THEN t
            ELSE SetResult(t, at, r)
    BY <1>2 DEF take_txt, InstanceResult
  <2> HIDE DEF t, u
  <2>3. SearchOk(t) /\ Same(s, t)
    BY <2>1 DEF Step
  <2>4. K \in SUBSET (1 .. Len(t.result))
    BY DEF OfInstance, OnPcb
  <2>5. (K = {} => at = 0) /\ (K # {} => at \in K /\ at # 0)
    BY <2>3, <2>4, PlacesFirst
  <2>6. CASE at = 0 \/ ~o.txt
    BY <2>1, <2>2, <2>5, <2>6 DEF u
  <2>7. CASE at # 0 /\ o.txt /\ q.txt # None
    BY <2>1, <2>2, <2>5, <2>7 DEF u
  <2>8. CASE at # 0 /\ o.txt /\ q.txt = None
    <3> HIDE DEF at, K
    <3>1. at \in K /\ at \in 1 .. Len(t.result) /\ u = SetResult(t, at, r)
      BY <2>2, <2>4, <2>5, <2>8
    <3>2. q \in Results /\ q.pcb = p /\ q.instance_name = o.instance /\ ResultTrue(t, q)
      BY <3>1, <2>3, ElementOfSeq DEF SearchOk, Searches, SearchTrue, K, OfInstance, OnPcb
    <3>3. r = [q EXCEPT !.txt = o]
      OBVIOUS
    <3> HIDE DEF q, r
    <3>4. /\ r \in Results /\ r.txt = o /\ r.pcb = q.pcb /\ r.instance_name = q.instance_name
          /\ r.hostname = q.hostname /\ r.port = q.port /\ r.addr = q.addr
      BY <1>0, <3>2, <3>3 DEF Results
    <3>5. Gained(q, r)
      BY <2>8, <3>4 DEF Gained
    <3>6. \A x : about(t, q, x) <=> about(t, r, x)
      BY <3>4 DEF about
    <3>7. \A a : AddressTrue(t, q, a) <=> AddressTrue(t, r, a)
      BY <3>4, <3>6 DEF AddressTrue
    <3>8. about(t, r, o) \/ strays(t, r, o)
      <4>1. about(s, r, o) \/ strays(s, r, o)
        BY <1>2, <3>2, <3>4, FitsTrue
      <4> QED
        BY <2>3, <4>1 DEF about, strays, Same
    <3>13. \A x : strays(t, q, x) <=> strays(t, r, x)
      BY <3>4 DEF strays
    <3>9. ResultTrue(t, r)
      BY <3>2, <3>4, <3>6, <3>7, <3>8, <3>13 DEF ResultTrue
    <3>10. /\ Step(t, u) /\ Len(u.result) = Len(t.result) /\ u.result[at] = r
      BY <2>3, <3>1, <3>4, <3>5, <3>9, SetStep DEF q
    <3>11. Step(s, u)
      BY <2>1, <3>10, StepTrans
    <3>12. at \in OfInstance(u, o.instance, p) /\ u.result[at].txt # None
      BY <1>0, <3>1, <3>2, <3>4, <3>10 DEF OfInstance, OnPcb
    <3> QED
      BY <3>11, <3>12 DEF u
  <2> QED
    BY <2>6, <2>7, <2>8
<1> QED
  BY <1>1, <1>2

LEMMA IpStep ==
    ASSUME NEW s, SearchOk(s), NEW o \in Offers, NEW type \in AddressTypes,
           FitsHost(s, o.host), NEW p \in RxPcbs
    PROVE  LET u == search_result_add_ip(s, Record(type, o), p)
           IN /\ Step(s, u)
              /\ s.type = "PTR" /\ OfHost(s, o.host, p) # {} =>
                     \E j \in OfHost(u, o.host, p) :
                         \E k \in 1 .. Len(u.result[j].addr) : u.result[j].addr[k].type = type
<1> DEFINE rec == Record(type, o)
           K == IF s.type = "PTR" THEN OfHost(s, o.host, p) ELSE OnPcb(s, p)
           at == First(K)
           q == s.result[at]
           w == result_add_ip(q, rec)
           r == result_add_ip(NewResult(p), rec)
           u == search_result_add_ip(s, rec, p)
<1>0. rec.type = type /\ rec.offer = o
  BY DEF Record
<1>1. K \in SUBSET (1 .. Len(s.result))
  BY DEF OfHost, OnPcb
<1>2. (K = {} => at = 0) /\ (K # {} => at \in K /\ at # 0)
  BY <1>1, PlacesFirst
<1> HIDE DEF rec
<1>3. u = IF s.type \notin {type, "ANY", "PTR"} \/ (at = 0 /\ s.type = "PTR") THEN s
          ELSE IF at # 0 THEN SetResult(s, at, w)
          ELSE Chain(s, r)
  BY <1>0 DEF search_result_add_ip
<1> HIDE DEF u, at, K
<1>4. CASE s.type \notin {type, "ANY", "PTR"}
  <2>1. u = s
    BY <1>3, <1>4
  <2> QED
    BY <1>4, <2>1, StepRefl DEF u, rec
<1>5. CASE s.type \in {type, "ANY", "PTR"} /\ at # 0
  <2>1. u = SetResult(s, at, w)
    BY <1>3, <1>5
  <2>2. at \in K /\ at \in 1 .. Len(s.result) /\ q \in Results /\ ResultTrue(s, q)
    BY <1>1, <1>2, <1>5, ElementOfSeq DEF SearchOk, Searches, SearchTrue
  <2>3. s.type = "PTR" => q.hostname = o.host /\ q.pcb = p
    BY <2>2 DEF K, OfHost, OnPcb
  <2> HIDE DEF q
  <2>4. /\ w \in Results /\ Gained(q, w)
        /\ w.hostname = q.hostname /\ w.port = q.port /\ w.txt = q.txt
        /\ \E k \in 1 .. Len(w.addr) : w.addr[k].type = type
        /\ \A k \in 1 .. Len(w.addr) :
               \/ w.addr[k].host = o.host
               \/ \E i \in 1 .. Len(q.addr) : w.addr[k] = q.addr[i]
    BY <2>2, AddIp DEF rec
  <2> HIDE DEF w
  <2>5. \A x : (about(s, q, x) <=> about(s, w, x)) /\ (strays(s, q, x) <=> strays(s, w, x))
    BY <2>4 DEF about, strays, Gained
  <2>6. \A a : AddressTrue(s, q, a) <=> AddressTrue(s, w, a)
    BY <2>4, <2>5 DEF AddressTrue
  <2>7. ASSUME NEW k \in 1 .. Len(w.addr) PROVE AddressTrue(s, w, w.addr[k])
    <3>1. CASE w.addr[k].host = o.host
      <4>1. CASE s.type = "PTR"
        BY <2>3, <2>4, <3>1, <4>1 DEF AddressTrue
      <4>2. CASE s.type # "PTR"
        BY <1>5, <3>1, <4>2 DEF AddressTrue, FitsHost, AddressTypes
      <4> QED
        BY <4>1, <4>2
    <3>2. CASE \E i \in 1 .. Len(q.addr) : w.addr[k] = q.addr[i]
      BY <2>2, <2>6, <3>2 DEF ResultTrue
    <3> QED
      BY <2>4, <3>1, <3>2
  <2>11. w.instance_name = q.instance_name
    BY <2>4 DEF Gained
  <2>8. ResultTrue(s, w)
    BY <2>2, <2>4, <2>5, <2>7, <2>11 DEF ResultTrue
  <2>9. /\ Step(s, u) /\ Len(u.result) = Len(s.result) /\ u.result[at] = w
    BY <2>1, <2>2, <2>4, <2>8, SetStep DEF q
  <2>10. s.type = "PTR" => at \in OfHost(u, o.host, p)
    BY <2>2, <2>3, <2>4, <2>9 DEF OfHost, OnPcb, Gained
  <2> QED
    BY <2>4, <2>9, <2>10 DEF u, rec
<1>6. CASE s.type = "PTR" /\ at = 0
  <2>1. u = s
    BY <1>3, <1>6
  <2>2. OfHost(s, o.host, p) = {}
    BY <1>2, <1>6 DEF K
  <2> QED
    BY <2>1, <2>2, StepRefl DEF u, rec
<1>7. CASE s.type \in {type, "ANY"} /\ s.type # "PTR" /\ at = 0
  <2>1. u = Chain(s, r)
    BY <1>3, <1>7
  <2>2. NewResult(p) \in Results /\ ResultTrue(s, NewResult(p))
    BY NewResultTrue
  <2>3. /\ NewResult(p).hostname = None /\ NewResult(p).port = None
        /\ NewResult(p).txt = None /\ NewResult(p).addr = <<>>
        /\ NewResult(p).instance_name = None
    BY DEF NewResult
  <2>4. /\ r \in Results /\ r.hostname = None /\ r.port = None /\ r.txt = None
        /\ r.instance_name = None
        /\ \A k \in 1 .. Len(r.addr) :
               \/ r.addr[k].host = o.host
               \/ \E i \in 1 .. Len(<<>>) : r.addr[k] = <<>>[i]
    BY <2>2, <2>3, AddIp DEF rec, Gained
  <2> HIDE DEF r
  <2>5. \A k \in 1 .. Len(r.addr) : r.addr[k].host = o.host
    BY <2>4
  <2>6. ASSUME NEW k \in 1 .. Len(r.addr) PROVE AddressTrue(s, r, r.addr[k])
    BY <1>7, <2>5 DEF AddressTrue, FitsHost, AddressTypes
  <2>7. ResultTrue(s, r)
    BY <2>4, <2>6 DEF ResultTrue
  <2>8. Step(s, u)
    BY <1>7, <2>1, <2>4, <2>7, ChainStep
  <2> QED
    BY <1>7, <2>8 DEF u, rec
<1> QED
  BY <1>4, <1>5, <1>6, <1>7

--------------------------------------------------------------------------------
(* The records of a packet, for the list of searches.                       *)
ListOk(l) == l \in Seq(Searches) /\ \A k \in 1 .. Len(l) : SearchOk(l[k])

ListStep(l, m) == Len(m) = Len(l) /\ \A k \in 1 .. Len(l) : Step(l[k], m[k])

LEMMA ListLength ==
    ASSUME NEW l, ListOk(l)
    PROVE  Len(l) \in Nat /\ DOMAIN l = 1 .. Len(l) /\ \A k \in 1 .. Len(l) : l[k] \in Searches
BY LenProperties, ElementOfSeq DEF ListOk

(* A list made of steps of the searches.                                    *)
LEMMA ListOfSteps ==
    ASSUME NEW l, ListOk(l), NEW m, m = [k \in 1 .. Len(l) |-> m[k]],
           \A k \in 1 .. Len(l) : Step(l[k], m[k])
    PROVE  ListOk(m) /\ ListStep(l, m)
<1>1. Len(l) \in Nat
  BY ListLength
<1>2. \A k \in 1 .. Len(l) : m[k] \in Searches /\ SearchOk(m[k])
  BY DEF Step, SearchOk
<1>3. m \in [1 .. Len(l) -> Searches]
  BY <1>2
<1>4. m \in Seq(Searches)
  BY <1>1, <1>3, SeqDef
<1>5. Len(m) = Len(l)
  <2>1. DOMAIN m = 1 .. Len(l) /\ DOMAIN m = 1 .. Len(m) /\ Len(m) \in Nat
    BY <1>3, <1>4, LenProperties
  <2> QED
    BY <1>1, <2>1
<1> QED
  BY <1>2, <1>4, <1>5 DEF ListOk, ListStep

LEMMA ListStepTrans ==
    ASSUME NEW l, NEW m, NEW n, ListStep(l, m), ListStep(m, n)
    PROVE  ListStep(l, n)
BY StepTrans DEF ListStep

LEMMA ListStepRefl ==
    ASSUME NEW l, ListOk(l)
    PROVE  ListStep(l, l)
BY StepRefl DEF ListStep, ListOk

(* What a record of o may be added to; one it matches, or, for a name of    *)
(* ours, any but one for an address.                                        *)
Takes(s, type, o) ==
    /\ type \in AddressTypes => FitsHost(s, o.host)
    /\ type \in {"SRV", "TXT"} => Fits(s, o)
    /\ type = "PTR" => InstanceTrue(s, o.instance)

LEMMA OursFits ==
    ASSUME NEW s, s.type \notin AddressTypes, NEW o \in Offers, NEW type \in Types,
           name_is_ours(Record(type, o))
    PROVE  Takes(s, type, o)
<1>1. CASE type \in AddressTypes
  BY <1>1 DEF name_is_ours, Record, Takes, FitsHost, AddressTypes
<1>2. CASE type \in {"SRV", "TXT"}
  <2>1. name_is_ours(Record("SRV", o))
    BY <1>2 DEF name_is_ours, Record, AddressTypes
  <2> QED
    BY <1>2, <2>1 DEF Takes, Fits, AddressTypes
<1>3. CASE type = "PTR"
  <2>1. o.service \in DOMAIN OurInstances
    BY <1>3 DEF name_is_ours, Record, AddressTypes
  <2> QED
    BY <1>3, <2>1 DEF Takes, InstanceTrue, AddressTypes
<1> QED
  BY <1>1, <1>2, <1>3 DEF Types, AddressTypes

LEMMA MatchFits ==
    ASSUME NEW s, NEW o \in Offers, NEW type \in Types, NEW p,
           matches(s, Record(type, o), p)
    PROVE  Takes(s, type, o) /\ (type \notin AddressTypes => s.type \notin AddressTypes)
<1> DEFINE rec == Record(type, o)
<1>0. rec.type = type /\ rec.offer = o
  BY DEF Record
<1> HIDE DEF rec
<1>1. CASE type \in AddressTypes
  <2>1. s.type # "PTR" => s.name = o.host
    BY <1>0, <1>1 DEF matches, rec, AddressTypes
  <2> QED
    BY <1>1, <2>1 DEF FitsHost, AddressTypes, Takes
<1>2. CASE type \in {"SRV", "TXT"}
  BY <1>0, <1>2 DEF matches, rec, AddressTypes, Takes, Fits, Asked
<1>3. CASE type = "PTR"
  BY <1>0, <1>3 DEF matches, rec, AddressTypes, Takes, InstanceTrue
<1> QED
  BY <1>1, <1>2, <1>3 DEF Types, AddressTypes

LEMMA Found ==
    ASSUME NEW l, ListOk(l), NEW rec, NEW p
    PROVE  LET k == search_find_from(l, 1, rec, p)
           IN /\ k \in 0 .. Len(l)
              /\ k # 0 => matches(l[k], rec, p)
              /\ Len(l) >= 1 /\ matches(l[1], rec, p) => k = 1
<1> DEFINE K == {k \in 1 .. Len(l) : matches(l[k], rec, p)}
<1>1. Len(l) \in Nat /\ K \in SUBSET (1 .. Len(l))
  BY ListLength
<1>2. /\ K = {} => First(K) = 0
      /\ K # {} => First(K) \in K /\ First(K) # 0 /\ \A k \in K : First(K) =< k
  BY <1>1, FirstOf
<1>3. search_find_from(l, 1, rec, p) = First(K)
  BY DEF search_find_from
<1>4. Len(l) >= 1 /\ matches(l[1], rec, p) => 1 \in K
  BY <1>1
<1>5. \A k \in K : k \in 1 .. Len(l) /\ matches(l[k], rec, p)
  OBVIOUS
<1> HIDE DEF K
<1>6. CASE K = {}
  BY <1>1, <1>2, <1>3, <1>4, <1>6
<1>7. CASE K # {}
  <2> DEFINE f == First(K)
  <2>1. f \in K /\ f # 0 /\ (1 \in K => f =< 1)
    BY <1>2, <1>7
  <2> HIDE DEF f
  <2>2. f \in 1 .. Len(l) /\ matches(l[f], rec, p)
    BY <1>5, <2>1
  <2>3. f \in 0 .. Len(l) /\ (1 \in K => f = 1)
    BY <1>1, <2>1, <2>2
  <2> QED
    BY <1>3, <1>4, <2>2, <2>3 DEF f
<1> QED
  BY <1>6, <1>7

(* A record for the search selected for it.                                 *)
LEMMA AddRecord ==
    ASSUME NEW l, ListOk(l), NEW cur \in 0 .. Len(l), NEW o \in Offers,
           NEW type \in Types, NEW p \in RxPcbs, cur # 0 => Takes(l[cur], type, o)
    PROVE  LET m == add_record(l, cur, Record(type, o), p)
           IN ListOk(m) /\ ListStep(l, m)
<1> DEFINE rec == Record(type, o)
           m == add_record(l, cur, rec, p)
<1>0. rec.type = type /\ rec.offer = o
  BY DEF Record
<1>1. Len(l) \in Nat /\ DOMAIN l = 1 .. Len(l)
  BY ListLength
<1>2. \A k \in 1 .. Len(l) : SearchOk(l[k]) /\ Step(l[k], l[k])
  BY StepRefl DEF ListOk
<1>3. CASE cur = 0
  BY <1>3, ListStepRefl DEF add_record
<1>4. ASSUME cur # 0, NEW u, Step(l[cur], u), m = [l EXCEPT ![cur] = u]
      PROVE  ListOk(m) /\ ListStep(l, m)
  <2>1. cur \in 1 .. Len(l)
    BY <1>1, <1>4
  <2>2. m = [k \in 1 .. Len(l) |-> IF k = cur THEN u ELSE l[k]]
    BY <1>1, <1>4
  <2> HIDE DEF m
  <2>3. m = [k \in 1 .. Len(l) |-> m[k]] /\ \A k \in 1 .. Len(l) : Step(l[k], m[k])
    BY <1>2, <1>4, <2>2
  <2> QED
    BY <2>3, ListOfSteps
<1>5. cur # 0 => cur \in 1 .. Len(l) /\ SearchOk(l[cur])
  BY <1>1, <1>2
<1>6. CASE cur # 0 /\ type = "PTR"
  <2>1. m = [l EXCEPT ![cur] = search_result_add_ptr(l[cur], o.instance, p)]
    BY <1>0, <1>6 DEF add_record
  <2>2. Step(l[cur], search_result_add_ptr(l[cur], o.instance, p))
    BY <1>5, <1>6, PtrStep, ResultAssumption DEF Takes
  <2> QED
    BY <1>4, <1>6, <2>1, <2>2
<1>7. CASE cur # 0 /\ type = "SRV"
  <2>1. m = [l EXCEPT ![cur] = take_srv(l[cur], o, p)]
    BY <1>0, <1>7 DEF add_record
  <2>2. Step(l[cur], take_srv(l[cur], o, p))
    BY <1>5, <1>7, SrvStep DEF Takes
  <2> QED
    BY <1>4, <1>7, <2>1, <2>2
<1>8. CASE cur # 0 /\ type = "TXT"
  <2>1. m = [l EXCEPT ![cur] = take_txt(l[cur], o, p)]
    BY <1>0, <1>8 DEF add_record
  <2>2. Step(l[cur], take_txt(l[cur], o, p))
    BY <1>5, <1>8, TxtStep DEF Takes
  <2> QED
    BY <1>4, <1>8, <2>1, <2>2
<1>9. CASE cur # 0 /\ type \in AddressTypes
  <2>1. m = [k \in 1 .. Len(l) |->
                IF k = cur \/ (k > cur /\ matches(l[k], rec, p))
                THEN search_result_add_ip(l[k], rec, p) ELSE l[k]]
    BY <1>0, <1>9 DEF add_record, address_record, AddressTypes
  <2>2. ASSUME NEW k \in 1 .. Len(l), k = cur \/ matches(l[k], rec, p)
        PROVE  Step(l[k], search_result_add_ip(l[k], rec, p))
    <3>1. FitsHost(l[k], o.host)
      BY <1>9, <2>2, MatchFits DEF Takes
    <3> QED
      BY <1>2, <1>9, <3>1, IpStep
  <2> HIDE DEF m, rec
  <2>3. m = [k \in 1 .. Len(l) |-> m[k]]
    BY <2>1
  <2>4. \A k \in 1 .. Len(l) : Step(l[k], m[k])
    BY <1>2, <2>1, <2>2
  <2>5. ListOk(m) /\ ListStep(l, m)
    BY <2>3, <2>4, ListOfSteps
  <2> QED
    BY <2>5 DEF m, rec
<1> QED
  BY <1>3, <1>6, <1>7, <1>8, <1>9 DEF Types, AddressTypes

(* One record after another: the search selected last is for no address.    *)
Parsed(m) ==
    /\ m = [searches |-> m.searches, cur |-> m.cur]
    /\ ListOk(m.searches) /\ m.cur \in 0 .. Len(m.searches)
    /\ m.cur # 0 => m.searches[m.cur].type \notin AddressTypes

LEMMA ParseRecord ==
    ASSUME NEW m, NEW o \in Offers, NEW type \in Types, NEW p \in RxPcbs,
           Parsed(m)
    PROVE  LET n == parse_record(m, Record(type, o), p)
           IN Parsed(n) /\ ListStep(m.searches, n.searches)
<1> DEFINE rec == Record(type, o)
           l == m.searches
           cur == select_search(l, m.cur, rec, p)
           n == parse_record(m, rec, p)
<1>0. rec.type = type /\ rec.offer = o
  BY DEF Record
<1>1. ListOk(l) /\ Len(l) \in Nat
  BY ListLength DEF Parsed
<1>2. /\ cur \in 0 .. Len(l)
      /\ cur # 0 => /\ Takes(l[cur], type, o)
                    /\ type \notin AddressTypes => l[cur].type \notin AddressTypes
  <2>1. CASE name_is_ours(rec)
    <3>1. cur = m.cur
      BY <2>1 DEF select_search
    <3> QED
      BY <2>1, <3>1, OursFits DEF Parsed
  <2>2. CASE ~name_is_ours(rec)
    <3>1. cur = search_find_from(l, 1, rec, p)
      BY <2>2 DEF select_search
    <3>2. cur \in 0 .. Len(l) /\ (cur # 0 => matches(l[cur], rec, p))
      BY <1>1, <3>1, Found
    <3> QED
      BY <3>2, MatchFits
  <2> QED
    BY <2>1, <2>2
<1> HIDE DEF cur
<1>3. /\ ListOk(add_record(l, cur, rec, p))
      /\ ListStep(l, add_record(l, cur, rec, p))
  BY <1>1, <1>2, AddRecord
<1>4. n = [searches |-> add_record(l, cur, rec, p),
           cur |-> IF type \in AddressTypes THEN 0 ELSE cur]
  BY <1>0 DEF parse_record, cur
<1> HIDE DEF l, rec, n
<1>5. /\ n.searches = add_record(l, cur, rec, p)
      /\ n.cur = IF type \in AddressTypes THEN 0 ELSE cur
      /\ n = [searches |-> n.searches, cur |-> n.cur]
  BY <1>4
<1>6. Len(n.searches) = Len(l)
  BY <1>3, <1>5 DEF ListStep
<1>7. n.cur # 0 => n.searches[n.cur].type \notin AddressTypes
  <2> SUFFICES ASSUME n.cur # 0 PROVE n.searches[n.cur].type \notin AddressTypes
    OBVIOUS
  <2>1. n.cur = cur /\ cur \in 1 .. Len(l) /\ l[cur].type \notin AddressTypes
    BY <1>1, <1>2, <1>5
  <2>2. Same(l[cur], n.searches[cur])
    BY <1>3, <1>5, <2>1 DEF ListStep, Step
  <2> QED
    BY <2>1, <2>2 DEF Same
<1>8. n.cur \in 0 .. Len(n.searches)
  BY <1>1, <1>2, <1>5, <1>6
<1>9. Parsed(n)
  BY <1>3, <1>5, <1>7, <1>8 DEF Parsed
<1> QED
  BY <1>3, <1>5, <1>9 DEF n, l, rec

(* The packets: records of any offers.                                      *)
Packet(packet) ==
    /\ Len(packet) \in Nat
    /\ \A k \in 1 .. Len(packet) :
           \E o \in Offers, type \in Types : packet[k] = Record(type, o)

LoopGood(x, i, m) ==
    /\ ListStep(searches, m.searches) /\ Parsed(m)
    /\ Packet(x.packet) /\ x.p \in RxPcbs /\ i =< Len(x.packet)

Rounds == INSTANCE LoopProofs WITH Step <- next_record, Good <- LoopGood

LEMMA SameLoop ==
    ASSUME NEW x, NEW m, NEW n
    PROVE  Rounds!loop(x, m, n) = parsed!loop(x, m, n)
BY DEF Rounds!loop, parsed!loop

LEMMA NextRecord ==
    ASSUME NEW x, NEW m, NEW i \in 1 .. Len(x.packet), LoopGood(x, i - 1, m)
    PROVE  LoopGood(x, i, next_record(x, m, i))
<1> DEFINE n == next_record(x, m, i)
<1>1. Packet(x.packet) /\ Parsed(m)
  BY DEF LoopGood
<1>2. PICK o \in Offers, type \in Types : x.packet[i] = Record(type, o)
  BY <1>1 DEF Packet
<1>3. n = parse_record(m, Record(type, o), x.p)
  BY <1>2 DEF next_record
<1> HIDE DEF n
<1>4. x.p \in RxPcbs /\ ListStep(searches, m.searches)
  BY DEF LoopGood
<1>5. Parsed(n) /\ ListStep(m.searches, n.searches)
  BY <1>1, <1>3, <1>4, ParseRecord
<1>6. ListStep(searches, n.searches)
  BY <1>4, <1>5, ListStepTrans
<1>7. i =< Len(x.packet)
  OBVIOUS
<1> QED
  BY <1>1, <1>4, <1>5, <1>6, <1>7 DEF LoopGood, n

LEMMA ParsePacket ==
    ASSUME ListOk(searches), NEW p \in RxPcbs, NEW packet, Packet(packet)
    PROVE  LET l == parsed!loop([packet |-> packet, p |-> p],
                                 [searches |-> searches, cur |-> 0], Len(packet)).searches
           IN ListOk(l) /\ ListStep(searches, l)
<1> DEFINE x == [packet |-> packet, p |-> p]
           m == [searches |-> searches, cur |-> 0]
<1>1. x.packet = packet /\ x.p = p /\ m.searches = searches /\ m.cur = 0
      /\ m = [searches |-> m.searches, cur |-> m.cur]
  OBVIOUS
<1> HIDE DEF x, m
<1>2. Len(searches) \in Nat /\ Len(packet) \in Nat
  BY ListLength DEF Packet
<1>3. Parsed(m)
  BY <1>1, <1>2 DEF Parsed
<1>4. LoopGood(x, 0, m)
  BY <1>1, <1>3, ListStepRefl DEF LoopGood
<1>5. \A i \in 1 .. Len(packet) : \A y :
          LoopGood(x, i - 1, y) => LoopGood(x, i, next_record(x, y, i))
  BY <1>1, NextRecord
<1>6. LoopGood(x, Len(packet), Rounds!loop(x, m, Len(packet)))
  BY <1>2, <1>4, <1>5, Rounds!LoopKeeps
<1>7. LoopGood(x, Len(packet), parsed!loop(x, m, Len(packet)))
  BY <1>6, SameLoop
<1> HIDE DEF parsed!loop
<1>8. /\ ListStep(searches, parsed!loop(x, m, Len(packet)).searches)
      /\ ListOk(parsed!loop(x, m, Len(packet)).searches)
  BY <1>7 DEF LoopGood, Parsed
<1> QED
  BY <1>8 DEF x, m

--------------------------------------------------------------------------------
(* Steps that change the state of a search, and what a query returns.       *)
Later(s, u) == SearchOk(u) /\ Same(s, u) /\ Grows(s, u)

LEMMA StateLater ==
    ASSUME NEW s, SearchOk(s), NEW state \in {"RUNNING", "OFF", "DONE", "RETURNED"}
    PROVE  Later(s, [s EXCEPT !.state = state])
<1> DEFINE u == [s EXCEPT !.state = state]
<1>1. s \in Searches
  BY DEF SearchOk
<1>2. u \in Searches /\ Same(s, u) /\ u.result = s.result
  BY <1>1 DEF Searches, Same
<1> HIDE DEF u
<1>3. \A r : ResultTrue(s, r) <=> ResultTrue(u, r)
  BY <1>2, TrueOfQuestion
<1>4. ListedOnce(s) => ListedOnce(u)
  BY <1>2 DEF ListedOnce
<1>5. SearchTrue(u)
  BY <1>2, <1>3, <1>4 DEF SearchTrue, SearchOk, Same
<1>6. Grows(s, u)
  BY <1>2, GainedRefl DEF Grows
<1>7. SearchOk(u)
  BY <1>2, <1>5 DEF SearchOk, Same
<1> QED
  BY <1>2, <1>6, <1>7 DEF Later, u

(* mdns_query_a and mdns_query_aaaa: the results are freed, and the answer  *)
(* is an address of the host with the name, since a search for an address   *)
(* names no service.                                                        *)
LEMMA ReturnedOk ==
    ASSUME NEW s, SearchOk(s)
    PROVE  /\ SearchOk(Returned(s))
           /\ Returned(s).type = s.type
           /\ s.type \notin AddressTypes => Later(s, Returned(s))
<1>1. CASE s.type \notin AddressTypes
  <2>1. Returned(s) = [s EXCEPT !.state = "RETURNED"]
    BY <1>1 DEF Returned
  <2> QED
    BY <1>1, <2>1, StateLater DEF Later, Same
<1>2. CASE s.type \in AddressTypes
  <2> DEFINE a == AddressAnswer(s)
             t == [s EXCEPT !.state = "RETURNED", !.answer = a]
             u == [t EXCEPT !.result = <<>>]
  <2>1. Returned(s) = u
    BY <1>2 DEF Returned, query_results_free
  <2>2. s \in Searches /\ s.result \in Seq(Results) /\ s.service = None
    BY <1>2 DEF SearchOk, Searches
  <2>3. a \in {"NOT_FOUND", s.name} /\ a \in Names \cup {None, "NOT_FOUND"}
    <3> DEFINE l == s.result[1].addr
               K == {k \in 1 .. Len(l) : l[k].type = s.type}
    <3>1. CASE s.result = <<>> \/ (s.result # <<>> /\ First(K) = 0)
      BY <3>1 DEF AddressAnswer
    <3>2. CASE s.result # <<>> /\ First(K) # 0
      <4>1. a = l[First(K)].host
        BY <3>2 DEF AddressAnswer
      <4>2. Len(s.result) \in Nat \ {0}
        BY <2>2, <3>2, EmptySeq
      <4>3. 1 \in 1 .. Len(s.result)
        BY <4>2
      <4>4. s.result[1] \in Results /\ ResultTrue(s, s.result[1])
        BY <2>2, <4>3, ElementOfSeq DEF SearchOk, SearchTrue
      <4>5. l \in Seq(Addresses) /\ Len(l) \in Nat
        BY <4>4, LenProperties DEF Results
      <4> HIDE DEF l, a
      <4>6. K \in SUBSET (1 .. Len(l))
        OBVIOUS
      <4>7. First(K) \in K
        BY <3>2, <4>5, <4>6, FirstOf
      <4> HIDE DEF K
      <4>8. First(K) \in 1 .. Len(l)
        BY <4>6, <4>7
      <4>9. l[First(K)] \in Addresses /\ AddressTrue(s, s.result[1], l[First(K)])
        BY <4>4, <4>5, <4>8, ElementOfSeq DEF ResultTrue, l
      <4>10. a \in Names
        BY <4>1, <4>9 DEF Addresses
      <4>11. (~ \E o \in Offers : about(s, s.result[1], o)) /\ s.type # "ANY"
        BY <1>2, <2>2, ResultAssumption DEF about, AddressTypes
      <4>12. a = s.name
        BY <1>2, <4>1, <4>9, <4>11 DEF AddressTrue, AddressTypes
      <4> QED
        BY <4>10, <4>12
    <3> QED
      BY <3>1, <3>2
  <2> HIDE DEF a
  <2>4. /\ t \in Searches /\ t.type = s.type /\ t.name = s.name /\ t.service = s.service
        /\ t.max = s.max /\ t.answer = a
    BY <2>2, <2>3 DEF Searches
  <2> HIDE DEF t
  <2>5. <<>> \in Seq(Results) /\ Len(<<>>) = 0
    BY EmptySeq
  <2>6. /\ u \in Searches /\ u.type = s.type /\ u.name = s.name /\ u.service = s.service
        /\ u.max = s.max /\ u.answer = a /\ u.result = <<>>
    BY <2>4, <2>5 DEF Searches
  <2> HIDE DEF u
  <2>7. s.max \in Nat
    BY <2>2 DEF Searches
  <2>8. SearchTrue(u)
    BY <1>2, <2>3, <2>5, <2>6, <2>7 DEF SearchTrue, AddressTypes
  <2>9. SearchOk(u)
    BY <2>2, <2>6, <2>8 DEF SearchOk
  <2> QED
    BY <1>2, <2>1, <2>6, <2>9
<1> QED
  BY <1>1, <1>2

ListLater(l, m) == Len(m) = Len(l) /\ \A k \in 1 .. Len(l) : Later(l[k], m[k])

LEMMA ListOfOk ==
    ASSUME NEW l, ListOk(l), NEW m, m = [k \in 1 .. Len(l) |-> m[k]],
           \A k \in 1 .. Len(l) : SearchOk(m[k])
    PROVE  ListOk(m) /\ Len(m) = Len(l)
<1>1. Len(l) \in Nat
  BY ListLength
<1>2. \A k \in 1 .. Len(l) : m[k] \in Searches /\ SearchOk(m[k])
  BY DEF SearchOk
<1>3. m \in [1 .. Len(l) -> Searches]
  BY <1>2
<1>4. m \in Seq(Searches)
  BY <1>1, <1>3, SeqDef
<1>5. Len(m) = Len(l)
  <2>1. DOMAIN m = 1 .. Len(l) /\ DOMAIN m = 1 .. Len(m) /\ Len(m) \in Nat
    BY <1>3, <1>4, LenProperties
  <2> QED
    BY <1>1, <2>1
<1> QED
  BY <1>2, <1>4, <1>5 DEF ListOk

LEMMA FinishDone ==
    ASSUME NEW l, ListOk(l)
    PROVE  ListOk(search_finish_done(l)) /\ ListLater(l, search_finish_done(l))
<1> DEFINE m == search_finish_done(l)
<1>1. m = [k \in 1 .. Len(l) |->
              IF search_is_full(l[k]) THEN [l[k] EXCEPT !.state = "DONE"] ELSE l[k]]
  BY DEF search_finish_done
<1> HIDE DEF m
<1>2. ASSUME NEW k \in 1 .. Len(l) PROVE Later(l[k], m[k])
  <2>1. SearchOk(l[k])
    BY DEF ListOk
  <2>2. Later(l[k], l[k])
    BY <2>1, StepRefl DEF Step, Later
  <2>3. Later(l[k], [l[k] EXCEPT !.state = "DONE"])
    BY <2>1, StateLater
  <2> QED
    BY <1>1, <2>2, <2>3
<1>3. m = [k \in 1 .. Len(l) |-> m[k]] /\ \A k \in 1 .. Len(l) : SearchOk(m[k])
  BY <1>1, <1>2 DEF Later
<1>4. ListOk(m) /\ Len(m) = Len(l)
  BY <1>3, ListOfOk
<1> QED
  BY <1>2, <1>4 DEF ListLater, m

(* Whatever a packet does to the searches.                                  *)
LEMMA PacketLater ==
    ASSUME ListOk(searches), NEW p \in RxPcbs, NEW packet, Packet(packet),
           NEW cut \in BOOLEAN
    PROVE  LET l == parse_records(packet, p, cut)
           IN ListOk(l) /\ ListLater(searches, l)
<1> DEFINE l == parsed!loop([packet |-> packet, p |-> p],
                             [searches |-> searches, cur |-> 0], Len(packet)).searches
           m == search_finish_done(l)
<1>1. ListOk(l) /\ ListStep(searches, l)
  BY ParsePacket
<1>2. parse_records(packet, p, cut) = IF cut THEN l ELSE m
  BY DEF parse_records
<1> HIDE DEF l
<1>3. ListLater(searches, l)
  BY <1>1 DEF ListStep, Step, ListLater, Later
<1>4. ListOk(m) /\ ListLater(l, m)
  BY <1>1, FinishDone
<1> HIDE DEF m
<1>5. ListLater(searches, m)
  <2>1. \A k \in 1 .. Len(searches) : Grows(searches[k], m[k]) /\ Same(searches[k], m[k])
    BY <1>3, <1>4, GrowsTrans DEF ListLater, Later, Same
  <2> QED
    BY <2>1, <1>3, <1>4 DEF ListLater, Later
<1> QED
  BY <1>1, <1>2, <1>3, <1>4, <1>5

--------------------------------------------------------------------------------
(* The invariants, step by step.                                            *)
SearchesOk == ListOk(searches) /\ up \subseteq RxPcbs /\ Len(searches) >= 1

LEMMA SearchesInit ==
    ASSUME ResultInit
    PROVE  SearchesOk /\ taken = {}
<1>1. PICK q \in Queries : searches = [k \in 1 .. Len(q) |-> query(q[k])]
  BY DEF ResultInit
<1> DEFINE Qs == [type : Types \cup {"ANY"}, name : Names \cup {None},
                  service : Names \cup {None}, max : Nat]
<1>2. q \in Seq(Qs) /\ q # <<>>
  BY ResultAssumption
<1> HIDE DEF Qs
<1>3. Len(q) \in Nat /\ Len(q) # 0 /\ \A k \in 1 .. Len(q) : q[k] \in Qs
  BY <1>2, EmptySeq, ElementOfSeq, LenProperties
<1>4. ASSUME NEW c \in Qs PROVE SearchOk(query(c))
  <2> DEFINE s == query(c)
  <2>1. <<>> \in Seq(Results) /\ Len(<<>>) = 0
    BY EmptySeq
  <2>2. \E type \in Types \cup {"ANY"}, name \in Names \cup {None},
           service \in Names \cup {None}, max \in Nat :
               /\ s = Search(type, name, service, max)
               /\ type \in AddressTypes => service = None
    BY <2>1 DEF Qs, Types, AddressTypes, query, mdns_query_ptr, mdns_query_srv,
                mdns_query_txt, mdns_query_a, mdns_query_aaaa
  <2> HIDE DEF s
  <2>3. PICK type \in Types \cup {"ANY"}, name \in Names \cup {None},
             service \in Names \cup {None}, max \in Nat :
               /\ s = Search(type, name, service, max)
               /\ type \in AddressTypes => service = None
    BY <2>2
  <2>4. /\ s.type = type /\ s.service = service /\ s.max = max /\ s.result = <<>>
        /\ s.answer = None
    BY <2>3 DEF Search
  <2>5. s \in Searches
    BY <2>1, <2>3 DEF Search, Searches
  <2>6. SearchTrue(s)
    BY <2>1, <2>4 DEF SearchTrue, ListedOnce
  <2> QED
    BY <2>3, <2>4, <2>5, <2>6 DEF SearchOk, s
<1>5. \A k \in 1 .. Len(q) : SearchOk(searches[k]) /\ searches[k] \in Searches
  BY <1>1, <1>3, <1>4 DEF SearchOk
<1>6. searches \in [1 .. Len(q) -> Searches]
  BY <1>1, <1>5
<1>7. searches \in Seq(Searches)
  BY <1>3, <1>6, SeqDef
<1>8. Len(searches) = Len(q)
  <2>1. DOMAIN searches = 1 .. Len(q) /\ DOMAIN searches = 1 .. Len(searches)
        /\ Len(searches) \in Nat
    BY <1>6, <1>7, LenProperties
  <2> QED
    BY <1>3, <2>1
<1>9. Len(searches) >= 1
  BY <1>3, <1>8
<1> QED
  BY <1>5, <1>7, <1>8, <1>9 DEF ListOk, SearchesOk, ResultInit

(* The packets that arrive.                                                 *)
LEMMA Arrivals ==
    ASSUME NEW packet \in Responses
    PROVE  Packet(packet)
<1> DEFINE Records == [type : Types, offer : Offers]
<1>1. packet \in Seq(Records)
  BY ResultAssumption
<1>2. \A rec \in Records : rec = Record(rec.type, rec.offer)
                           /\ rec.type \in Types /\ rec.offer \in Offers
  BY DEF Record
<1> HIDE DEF Records
<1>3. Len(packet) \in Nat /\ \A k \in 1 .. Len(packet) : packet[k] \in Records
  BY <1>1, LenProperties, ElementOfSeq
<1> QED
  BY <1>2, <1>3 DEF Packet

LEMMA Answers ==
    ASSUME NEW o \in Offers
    PROVE  Len(WholeAnswer(o)) = 5 /\ Packet(WholeAnswer(o))
<1> DEFINE T == <<"PTR", "SRV", "TXT", "A", "AAAA">>
           w == WholeAnswer(o)
<1>1. \A k \in 1 .. 5 : T[k] \in Types
  BY DEF Types
<1>2. w = [k \in 1 .. 5 |-> Record(T[k], o)]
  BY DEF WholeAnswer
<1> HIDE DEF T, w
<1>3. Len(w) = 5
  <2> DEFINE S == {Record(type, o) : type \in Types}
  <2>1. w \in [1 .. 5 -> S]
    BY <1>1, <1>2
  <2> HIDE DEF S
  <2>2. w \in Seq(S)
    BY <2>1, SeqDef
  <2>3. DOMAIN w = 1 .. 5 /\ DOMAIN w = 1 .. Len(w) /\ Len(w) \in Nat
    BY <2>1, <2>2, LenProperties
  <2> QED
    BY <2>3
<1>4. Packet(w)
  BY <1>1, <1>2, <1>3 DEF Packet
<1> QED
  BY <1>3, <1>4 DEF w

(* A step on one search of the list.                                        *)
LEMMA OneSearch ==
    ASSUME NEW l, ListOk(l), NEW k \in 1 .. Len(l), NEW u, SearchOk(u)
    PROVE  LET m == [l EXCEPT ![k] = u]
           IN /\ ListOk(m) /\ Len(m) = Len(l)
              /\ m[k] = u /\ \A j \in 1 .. Len(l) : j # k => m[j] = l[j]
<1> DEFINE m == [l EXCEPT ![k] = u]
<1>1. DOMAIN l = 1 .. Len(l)
  BY ListLength
<1>2. m = [j \in 1 .. Len(l) |-> IF j = k THEN u ELSE l[j]]
  BY <1>1
<1> HIDE DEF m
<1>3. m = [j \in 1 .. Len(l) |-> m[j]] /\ \A j \in 1 .. Len(l) : SearchOk(m[j])
  BY <1>2 DEF ListOk
<1>4. ListOk(m) /\ Len(m) = Len(l)
  BY <1>3, ListOfOk
<1> QED
  BY <1>2, <1>4 DEF m

LEMMA SelfLater ==
    ASSUME ListOk(searches)
    PROVE  ListLater(searches, searches)
BY StepRefl DEF ListOk, ListLater, Later, Step

(* What a step does to the list: every search is later, except that one for *)
(* an address may return.                                                   *)
LEMMA StepOfNext ==
    ASSUME SearchesOk, [ResultNext]_resultVars
    PROVE  /\ SearchesOk' /\ Len(searches') = Len(searches)
           /\ \A k \in 1 .. Len(searches) :
                  searches[k].type \notin AddressTypes => Later(searches[k], searches'[k])
<1>1. ASSUME ListOk(searches'), ListLater(searches, searches'), up' = up
      PROVE  /\ SearchesOk' /\ Len(searches') = Len(searches)
             /\ \A k \in 1 .. Len(searches) :
                    searches[k].type \notin AddressTypes => Later(searches[k], searches'[k])
  BY <1>1 DEF SearchesOk, ListLater
<1>2. ASSUME NEW k \in 1 .. Len(searches), NEW u, SearchOk(u), up' = up,
             searches' = [searches EXCEPT ![k] = u],
             searches[k].type \notin AddressTypes => Later(searches[k], u)
      PROVE  /\ SearchesOk' /\ Len(searches') = Len(searches)
             /\ \A j \in 1 .. Len(searches) :
                    searches[j].type \notin AddressTypes => Later(searches[j], searches'[j])
  <2>1. ListOk(searches) /\ ListLater(searches, searches)
    BY SelfLater DEF SearchesOk
  <2>2. /\ ListOk(searches') /\ Len(searches') = Len(searches)
        /\ searches'[k] = u /\ \A j \in 1 .. Len(searches) : j # k => searches'[j] = searches[j]
    <3> DEFINE m == [searches EXCEPT ![k] = u]
    <3>1. /\ ListOk(m) /\ Len(m) = Len(searches)
          /\ m[k] = u /\ \A j \in 1 .. Len(searches) : j # k => m[j] = searches[j]
      <4>1. k \in 1 .. Len(searches) /\ SearchOk(u)
        BY <1>2
      <4> QED
        BY <2>1, <4>1, OneSearch
    <3>2. searches' = m
      BY <1>2
    <3> HIDE DEF m
    <3> QED
      BY <3>1, <3>2
  <2>3. \A j \in 1 .. Len(searches) :
            searches[j].type \notin AddressTypes => Later(searches[j], searches'[j])
    BY <1>2, <2>1, <2>2 DEF ListLater
  <2> QED
    BY <1>2, <2>2, <2>3 DEF SearchesOk
<1>3. ASSUME NEW packet \in Responses, NEW p \in RxPcbs, Announced(packet, p)
      PROVE  ListOk(searches') /\ ListLater(searches, searches') /\ up' = up
  <2>1. PICK cut \in BOOLEAN : parse_packet(packet, p, cut)
    BY <1>3 DEF Announced
  <2>2. Packet(packet)
    BY Arrivals
  <2> QED
    BY <2>1, <2>2, PacketLater DEF parse_packet, SearchesOk
<1>4. ASSUME NEW o \in Offers, NEW p \in RxPcbs, Answered(o, p)
      PROVE  ListOk(searches') /\ ListLater(searches, searches') /\ up' = up
  <2>1. parse_packet(WholeAnswer(o), p, FALSE)
    BY <1>4 DEF Answered
  <2>2. Packet(WholeAnswer(o))
    BY Answers
  <2> QED
    BY <2>1, <2>2, PacketLater DEF parse_packet, SearchesOk
<1>5. ASSUME searches' = searches, up' = up
      PROVE  ListOk(searches') /\ ListLater(searches, searches') /\ up' = up
  BY <1>5, SelfLater DEF SearchesOk
<1>6. ASSUME NEW k \in 1 .. Len(searches)
      PROVE  SearchOk(searches[k])
  BY DEF SearchesOk, ListOk
<1>7. ASSUME NEW k \in 1 .. Len(searches), NEW state \in {"OFF", "DONE"}, up' = up,
             searches' = [searches EXCEPT ![k].state = state]
      PROVE  /\ SearchesOk' /\ Len(searches') = Len(searches)
             /\ \A j \in 1 .. Len(searches) :
                    searches[j].type \notin AddressTypes => Later(searches[j], searches'[j])
  <2> DEFINE u == [searches[k] EXCEPT !.state = state]
  <2>1. Later(searches[k], u)
    BY <1>6, StateLater
  <2>2. searches' = [searches EXCEPT ![k] = u]
    BY <1>7
  <2> HIDE DEF u
  <2>3. SearchOk(u)
    BY <2>1 DEF Later
  <2> QED
    BY <1>2, <1>7, <2>1, <2>2, <2>3
<1>8. ASSUME NEW k \in 1 .. Len(searches), ResultReturns(k)
      PROVE  /\ SearchesOk' /\ Len(searches') = Len(searches)
             /\ \A j \in 1 .. Len(searches) :
                    searches[j].type \notin AddressTypes => Later(searches[j], searches'[j])
  <2>1. searches' = [searches EXCEPT ![k] = Returned(searches[k])] /\ up' = up
    BY <1>8 DEF ResultReturns
  <2>2. /\ SearchOk(Returned(searches[k]))
        /\ searches[k].type \notin AddressTypes => Later(searches[k], Returned(searches[k]))
    BY <1>6, ReturnedOk
  <2> QED
    BY <1>2, <2>1, <2>2
<1>9. CASE UNCHANGED resultVars
  BY <1>1, <1>5, <1>9 DEF resultVars
<1>10. CASE \E p \in RxPcbs :
               \/ \E packet \in Responses : Announced(packet, p)
               \/ \E o \in Offers : Answered(o, p)
  BY <1>1, <1>3, <1>4, <1>10
<1>11. CASE \E k \in 1 .. Len(searches) :
                search_send(k) \/ search_off(k) \/ search_end(k) \/ ResultReturns(k)
  <2>1. PICK k \in 1 .. Len(searches) :
                search_send(k) \/ search_off(k) \/ search_end(k) \/ ResultReturns(k)
    BY <1>11
  <2>2. CASE search_send(k)
    BY <1>1, <1>5, <2>2 DEF search_send
  <2>3. CASE search_off(k)
    BY <1>7, <2>3 DEF search_off
  <2>4. CASE search_end(k)
    BY <1>7, <2>4 DEF search_end
  <2> QED
    BY <1>8, <2>1, <2>2, <2>3, <2>4
<1> QED
  BY <1>9, <1>10, <1>11 DEF ResultNext

(* What a query returns of an instance or a host, that instance or host     *)
(* said of itself: no record is added to the result of another instance,    *)
(* host or PCB by _mdns_search_result_add_ptr, _srv, _txt and _ip, however  *)
(* the records of the hosts are mixed in packets, interleaved or cut short, *)
(* except records with a name of ours, which the parser adds to the search  *)
(* of the record before (mdns.c:2746-2757), never to one for an address.    *)
(* No query gets more results than it asked for, or an instance twice on a  *)
(* PCB; mdns_query_a and _aaaa return an address of the host asked for.     *)
THEOREM ResultsAreTrue == ResultSpec => []ResultsTrue
<1>1. ResultInit => SearchesOk
  BY SearchesInit
<1>2. SearchesOk /\ [ResultNext]_resultVars => SearchesOk'
  BY StepOfNext
<1>3. SearchesOk => ResultsTrue
  BY DEF SearchesOk, ListOk, SearchOk, ResultsTrue
<1> QED
  BY <1>1, <1>2, <1>3, PTL DEF ResultSpec

--------------------------------------------------------------------------------
(* A host's whole answer, record by record.                                 *)
Hosted(s, o, p) == \E j \in OfInstance(s, o.instance, p) : s.result[j].hostname # None

Described(s, o, p) == \E j \in OfInstance(s, o.instance, p) : s.result[j].txt # None

(* What was taken stays.                                                    *)
LEMMA GrowsKeeps ==
    ASSUME NEW s, NEW u, Grows(s, u), NEW o, NEW p, o # None, o.host # None
    PROVE  /\ OfInstance(s, o.instance, p) # {} => OfInstance(u, o.instance, p) # {}
           /\ Hosted(s, o, p) => Hosted(u, o, p)
           /\ InstanceTaken(s, o, p) => InstanceTaken(u, o, p)
           /\ \A type : AddressTaken(s, o, p, type) => AddressTaken(u, o, p, type)
<1>1. \A j \in 1 .. Len(s.result) : \E i \in 1 .. Len(u.result) :
          Gained(s.result[j], u.result[i])
  BY DEF Grows
<1>0. ASSUME NEW j \in OfInstance(s, o.instance, p)
      PROVE  \E i \in OfInstance(u, o.instance, p) : Gained(s.result[j], u.result[i])
  <2>1. j \in 1 .. Len(s.result) /\ s.result[j].pcb = p /\ s.result[j].instance_name = o.instance
    BY DEF OfInstance, OnPcb
  <2>2. PICK i \in 1 .. Len(u.result) : Gained(s.result[j], u.result[i])
    BY <1>1, <2>1
  <2>3. i \in OfInstance(u, o.instance, p)
    BY <2>1, <2>2 DEF OfInstance, OnPcb, Gained
  <2> QED
    BY <2>2, <2>3
<1>2. OfInstance(s, o.instance, p) # {} => OfInstance(u, o.instance, p) # {}
  BY <1>0
<1>3. ASSUME Hosted(s, o, p) PROVE Hosted(u, o, p)
  <2>1. PICK j \in OfInstance(s, o.instance, p) : s.result[j].hostname # None
    BY <1>3 DEF Hosted
  <2>2. PICK i \in OfInstance(u, o.instance, p) : Gained(s.result[j], u.result[i])
    BY <1>0
  <2> QED
    BY <2>1, <2>2 DEF Hosted, Gained
<1>4. ASSUME InstanceTaken(s, o, p) PROVE InstanceTaken(u, o, p)
  <2>1. PICK j \in 1 .. Len(s.result) :
            /\ s.result[j].pcb = p /\ s.result[j].instance_name = o.instance
            /\ s.result[j].hostname = o.host
            /\ o.txt => s.result[j].txt = o
    BY <1>4 DEF InstanceTaken
  <2>2. PICK i \in 1 .. Len(u.result) : Gained(s.result[j], u.result[i])
    BY <1>1
  <2>3. u.result[i].pcb = p /\ u.result[i].instance_name = o.instance
    BY <2>1, <2>2 DEF Gained
  <2>4. u.result[i].hostname = o.host /\ (o.txt => u.result[i].txt = o)
    BY <2>1, <2>2 DEF Gained
  <2> QED
    BY <2>3, <2>4 DEF InstanceTaken
<1>5. ASSUME NEW type, AddressTaken(s, o, p, type) PROVE AddressTaken(u, o, p, type)
  <2>1. PICK j \in 1 .. Len(s.result) :
            /\ s.result[j].pcb = p /\ s.result[j].hostname = o.host
            /\ \E k \in 1 .. Len(s.result[j].addr) : s.result[j].addr[k].type = type
    BY <1>5 DEF AddressTaken
  <2>2. PICK i \in 1 .. Len(u.result) : Gained(s.result[j], u.result[i])
    BY <1>1
  <2>3. \E k \in 1 .. Len(u.result[i].addr) : u.result[i].addr[k].type = type
    BY <2>1, <2>2 DEF Gained
  <2>4. u.result[i].pcb = p /\ u.result[i].hostname = o.host
    BY <2>1, <2>2 DEF Gained
  <2> QED
    BY <2>3, <2>4 DEF AddressTaken
<1> QED
  BY <1>2, <1>3, <1>4, <1>5

(* The instance has one owner, and a PTR search one result for it.          *)
LEMMA TakenOf ==
    ASSUME OneOwner, NEW s, SearchOk(s), s.type = "PTR", NEW o \in Offers,
           s.service = o.service, o.instance \notin Range(OurInstances),
           NEW p, Hosted(s, o, p), o.txt => Described(s, o, p)
    PROVE  InstanceTaken(s, o, p)
<1>1. PICK j \in OfInstance(s, o.instance, p) : s.result[j].hostname # None
  BY DEF Hosted
<1> DEFINE r == s.result[j]
<1>2. j \in 1 .. Len(s.result) /\ r.pcb = p /\ r.instance_name = o.instance
  BY <1>1 DEF OfInstance, OnPcb
<1>3. r \in Results /\ ResultTrue(s, r)
  BY <1>2, ElementOfSeq DEF SearchOk, Searches, SearchTrue
<1>7. \A x : ~strays(s, r, x)
  BY <1>2 DEF strays, name_is_ours, Record, AddressTypes, Range
<1>4. r.port = o
  <2>1. r.port \in Offers /\ about(s, r, r.port)
    BY <1>1, <1>3, <1>7 DEF ResultTrue, Results
  <2> QED
    BY <1>2, <2>1 DEF about, OneOwner
<1>5. r.hostname = o.host
  BY <1>3, <1>4, ResultAssumption DEF ResultTrue
<1>6. ASSUME o.txt PROVE r.txt = o
  <2>1. PICK i \in OfInstance(s, o.instance, p) : s.result[i].txt # None
    BY <1>6 DEF Described
  <2>2. i = j
    BY <1>2, <2>1 DEF OfInstance, OnPcb, SearchOk, SearchTrue, ListedOnce
  <2>3. r.txt \in Offers /\ about(s, r, r.txt)
    BY <1>3, <1>7, <2>1, <2>2 DEF ResultTrue, Results
  <2> QED
    BY <1>2, <2>3 DEF about, OneOwner
<1> QED
  BY <1>2, <1>5, <1>6 DEF InstanceTaken

(* The first search is selected while it runs for the service of the offer: *)
(* by an address through the host, or after the record before.              *)
LEMMA FirstSelected ==
    ASSUME NEW m, NEW o \in Offers, NEW type \in Types, NEW p \in RxPcbs,
           Parsed(m), Len(m.searches) >= 1,
           m.searches[1].type = "PTR", m.searches[1].service = o.service,
           m.searches[1].state = "RUNNING",
           IF name_is_ours(Record(type, o)) THEN m.cur = 1
           ELSE type \in AddressTypes => OfHost(m.searches[1], o.host, p) # {}
    PROVE  LET n == parse_record(m, Record(type, o), p)
               s == m.searches[1]
           IN /\ type \notin AddressTypes => n.cur = 1
              /\ type = "PTR" => n.searches[1] = search_result_add_ptr(s, o.instance, p)
              /\ type = "SRV" => n.searches[1] = take_srv(s, o, p)
              /\ type = "TXT" => n.searches[1] = take_txt(s, o, p)
              /\ type \in AddressTypes =>
                     n.searches[1] = search_result_add_ip(s, Record(type, o), p)
<1> DEFINE rec == Record(type, o)
           l == m.searches
           n == parse_record(m, rec, p)
<1>0. rec.type = type /\ rec.offer = o
  BY DEF Record
<1>1. ListOk(l) /\ Len(l) \in Nat /\ DOMAIN l = 1 .. Len(l) /\ 1 \in 1 .. Len(l)
  BY ListLength DEF Parsed
<1> HIDE DEF rec
<1>2. select_search(l, m.cur, rec, p) = 1
  <2>1. CASE name_is_ours(rec)
    BY <2>1 DEF select_search, rec
  <2>2. CASE ~name_is_ours(rec)
    <3>1. select_search(l, m.cur, rec, p) = search_find_from(l, 1, rec, p)
      BY <2>2 DEF select_search
    <3>2. matches(l[1], rec, p)
      <4>1. CASE type \in AddressTypes
        BY <1>0, <2>2, <4>1 DEF matches, AddressTypes, rec
      <4>2. CASE type \in {"SRV", "TXT"}
        BY <1>0, <4>2 DEF matches, AddressTypes
      <4>3. CASE type = "PTR"
        BY <1>0, <4>3 DEF matches, AddressTypes
      <4> QED
        BY <4>1, <4>2, <4>3 DEF Types, AddressTypes
    <3> QED
      BY <1>1, <3>1, <3>2, Found
  <2> QED
    BY <2>1, <2>2
<1>3. n = [searches |-> add_record(l, 1, rec, p),
           cur |-> IF type \in AddressTypes THEN 0 ELSE 1]
  BY <1>0, <1>2 DEF parse_record
<1>4. n.searches = add_record(l, 1, rec, p) /\ (type \notin AddressTypes => n.cur = 1)
  BY <1>3
<1> HIDE DEF n
<1>5. CASE type = "PTR"
  <2>1. n.searches = [l EXCEPT ![1] = search_result_add_ptr(l[1], o.instance, p)]
    BY <1>0, <1>4, <1>5 DEF add_record
  <2> QED
    BY <1>1, <1>4, <1>5, <2>1 DEF n, rec, AddressTypes
<1>6. CASE type = "SRV"
  <2>1. n.searches = [l EXCEPT ![1] = take_srv(l[1], o, p)]
    BY <1>0, <1>4, <1>6 DEF add_record
  <2> QED
    BY <1>1, <1>4, <1>6, <2>1 DEF n, rec, AddressTypes
<1>7. CASE type = "TXT"
  <2>1. n.searches = [l EXCEPT ![1] = take_txt(l[1], o, p)]
    BY <1>0, <1>4, <1>7 DEF add_record
  <2> QED
    BY <1>1, <1>4, <1>7, <2>1 DEF n, rec, AddressTypes
<1>8. CASE type \in AddressTypes
  <2>1. n.searches = [k \in 1 .. Len(l) |->
                         IF k = 1 \/ (k > 1 /\ matches(l[k], rec, p))
                         THEN search_result_add_ip(l[k], rec, p) ELSE l[k]]
    BY <1>0, <1>4, <1>8 DEF add_record, address_record, AddressTypes
  <2>2. n.searches[1] = search_result_add_ip(l[1], rec, p)
    BY <1>1, <2>1
  <2> QED
    BY <1>8, <2>2 DEF n, rec, AddressTypes
<1> QED
  BY <1>5, <1>6, <1>7, <1>8 DEF Types, AddressTypes

Ready(m, o, p) ==
    /\ Parsed(m) /\ Len(m.searches) >= 1
    /\ m.searches[1].type = "PTR" /\ m.searches[1].service = o.service
    /\ m.searches[1].state = "RUNNING" /\ OfHost(m.searches[1], o.host, p) # {}
    /\ o.host = OurHost => m.cur = 1

LEMMA AddressSelected ==
    ASSUME NEW m, NEW o \in Offers, NEW type \in AddressTypes, NEW p \in RxPcbs,
           Ready(m, o, p)
    PROVE  AddressTaken(parse_record(m, Record(type, o), p).searches[1], o, p, type)
<1> DEFINE s == m.searches[1]
           u == parse_record(m, Record(type, o), p).searches[1]
<1>1. type \in Types /\ (name_is_ours(Record(type, o)) <=> o.host = OurHost)
  BY DEF Types, AddressTypes, name_is_ours, Record
<1>2. u = search_result_add_ip(s, Record(type, o), p)
  BY <1>1, FirstSelected DEF Ready
<1>3. ListOk(m.searches) /\ Len(m.searches) >= 1
  BY DEF Ready, Parsed
<1>4. 1 \in 1 .. Len(m.searches)
  BY <1>3, ListLength
<1>5. SearchOk(s)
  BY <1>3, <1>4 DEF ListOk
<1>6. FitsHost(s, o.host) /\ s.type = "PTR" /\ OfHost(s, o.host, p) # {}
  BY DEF FitsHost, Ready
<1> HIDE DEF s, u
<1>7. \E j \in OfHost(u, o.host, p) :
          \E k \in 1 .. Len(u.result[j].addr) : u.result[j].addr[k].type = type
  BY <1>2, <1>5, <1>6, IpStep
<1>8. AddressTaken(u, o, p, type)
  BY <1>7 DEF AddressTaken, OfHost, OnPcb
<1> QED
  BY <1>8 DEF u

(* PTR, SRV, TXT, A and AAAA, each of which finds the first search again.   *)
AllTaken(s, o, p) ==
    /\ InstanceTaken(s, o, p) /\ AddressTaken(s, o, p, "A")
    /\ o.host # OurHost => AddressTaken(s, o, p, "AAAA")

LEMMA WholeAnswerTaken ==
    ASSUME OneOwner, SearchesOk, NEW o \in Offers, NEW p \in RxPcbs,
           o.instance \notin Range(OurInstances), MeetsRoom(searches[1], o)
    PROVE  AllTaken(parse_records(WholeAnswer(o), p, FALSE)[1], o, p)
<1> DEFINE w == WholeAnswer(o)
           x == [packet |-> w, p |-> p]
           m0 == [searches |-> searches, cur |-> 0]
<1>1. Len(w) = 5
  BY Answers
<1>2. /\ w[1] = Record("PTR", o) /\ w[2] = Record("SRV", o) /\ w[3] = Record("TXT", o)
      /\ w[4] = Record("A", o) /\ w[5] = Record("AAAA", o)
  BY DEF WholeAnswer
<1> HIDE DEF w
<1>3. x.packet = w /\ x.p = p /\ m0.searches = searches /\ m0.cur = 0
      /\ m0 = [searches |-> m0.searches, cur |-> m0.cur]
  OBVIOUS
<1> HIDE DEF x, m0
<1>4. PICK f : Rounds!Rounds(x, m0, 5, f) /\ Rounds!loop(x, m0, 5) = f[5]
  BY Rounds!LoopRounds
<1>5. f[0] = m0 /\ \A i \in 1 .. 5 : f[i] = next_record(x, f[i - 1], i)
  BY <1>4 DEF Rounds!Rounds
<1>6. /\ f[1] = parse_record(m0, Record("PTR", o), p)
      /\ f[2] = parse_record(f[1], Record("SRV", o), p)
      /\ f[3] = parse_record(f[2], Record("TXT", o), p)
      /\ f[4] = parse_record(f[3], Record("A", o), p)
      /\ f[5] = parse_record(f[4], Record("AAAA", o), p)
  <2>1. /\ f[1] = next_record(x, f[0], 1) /\ f[2] = next_record(x, f[1], 2)
        /\ f[3] = next_record(x, f[2], 3) /\ f[4] = next_record(x, f[3], 4)
        /\ f[5] = next_record(x, f[4], 5)
    BY <1>5
  <2> QED
    BY <1>2, <1>3, <1>5, <2>1 DEF next_record
<1> DEFINE s0 == searches[1]
           s1 == f[1].searches[1]
           s2 == f[2].searches[1]
           s3 == f[3].searches[1]
           s4 == f[4].searches[1]
           s5 == f[5].searches[1]
<1>7. /\ ListOk(searches) /\ Len(searches) >= 1 /\ Len(searches) \in Nat
      /\ 1 \in 1 .. Len(searches)
  BY ListLength DEF SearchesOk
<1>8. Parsed(m0)
  BY <1>3, <1>7 DEF Parsed
<1>9. /\ s0.type = "PTR" /\ s0.service = o.service /\ s0.state = "RUNNING" /\ HasRoom(s0)
  BY DEF MeetsRoom
<1>10. o \in Offers /\ o # None /\ o.host # None /\ o.instance \in Names
  BY ResultAssumption
<1>11. \A s, u : Step(s, u) =>
           /\ SearchOk(u) /\ Grows(s, u) /\ u.type = s.type /\ u.service = s.service
           /\ u.state = s.state
  BY DEF Step, Same
<1>12. \A m, n : ListStep(m, n) /\ Len(m) >= 1 /\ Len(m) \in Nat =>
           Len(n) >= 1 /\ Len(n) \in Nat /\ Step(m[1], n[1])
  <2> SUFFICES ASSUME NEW m, NEW n, ListStep(m, n), Len(m) >= 1, Len(m) \in Nat
               PROVE  Len(n) >= 1 /\ Len(n) \in Nat /\ Step(m[1], n[1])
    OBVIOUS
  <2>1. 1 \in 1 .. Len(m)
    OBVIOUS
  <2> QED
    BY <2>1 DEF ListStep
<1>13. {"PTR", "SRV", "TXT", "A", "AAAA"} \subseteq Types /\ AddressTypes = {"A", "AAAA"}
  BY DEF Types, AddressTypes
<1>14. \A s : s.type = "PTR" /\ s.service = o.service => Fits(s, o) /\ FitsHost(s, o.host)
  BY <1>13 DEF Fits, Asked, FitsHost
<1>15. /\ ~name_is_ours(Record("SRV", o)) /\ ~name_is_ours(Record("TXT", o))
       /\ InstanceTrue(s0, o.instance)
  <2>1. o.service \in DOMAIN OurInstances => OurInstances[o.service] \in Range(OurInstances)
    BY DEF Range
  <2>2. InstanceTrue(s0, o.instance)
    BY <1>9 DEF InstanceTrue
  <2> QED
    BY <2>1, <2>2 DEF name_is_ours, Record, AddressTypes
<1> HIDE DEF s0, s1, s2, s3, s4, s5
(* PTR, passed over if we offer the service too.                            *)
<1>21. /\ Parsed(f[1]) /\ Len(f[1].searches) >= 1 /\ Len(f[1].searches) \in Nat
       /\ Step(s0, s1)
  <2>1. Parsed(f[1]) /\ ListStep(searches, f[1].searches)
    BY <1>3, <1>6, <1>8, <1>13, ParseRecord
  <2> QED
    BY <1>7, <1>12, <2>1 DEF s0, s1
<1>23. SearchOk(s0)
  BY <1>7 DEF ListOk, s0
<1>24. HasRoom(s1) \/ OfInstance(s1, o.instance, p) # {}
  <2>1. CASE ~name_is_ours(Record("PTR", o))
    <3>1. s1 = search_result_add_ptr(s0, o.instance, p)
      BY <1>3, <1>6, <1>7, <1>8, <1>9, <1>13, <2>1, FirstSelected DEF s0, s1
    <3> QED
      BY <1>9, <1>10, <1>15, <1>23, <3>1, PtrStep
  <2>2. CASE name_is_ours(Record("PTR", o))
    <3>1. select_search(searches, 0, Record("PTR", o), p) = 0
      BY <2>2 DEF select_search
    <3>2. f[1].searches = searches
      BY <1>3, <1>6, <3>1 DEF parse_record, add_record
    <3> QED
      BY <1>9, <3>2 DEF s0, s1
  <2> QED
    BY <2>1, <2>2
<1>25. SearchOk(s1) /\ s1.type = "PTR" /\ s1.service = o.service /\ s1.state = "RUNNING"
  BY <1>9, <1>11, <1>21
(* SRV                                                                      *)
<1>31. /\ Parsed(f[2]) /\ Len(f[2].searches) >= 1 /\ Len(f[2].searches) \in Nat
       /\ Step(s1, s2)
  <2>1. Parsed(f[2]) /\ ListStep(f[1].searches, f[2].searches)
    BY <1>6, <1>13, <1>21, ParseRecord
  <2> QED
    BY <1>12, <1>21, <2>1 DEF s1, s2
<1>32. s2 = take_srv(s1, o, p)
  BY <1>6, <1>13, <1>15, <1>21, <1>25, FirstSelected DEF s1, s2
<1>33. Hosted(s2, o, p)
  BY <1>10, <1>14, <1>24, <1>25, <1>32, SrvStep DEF Hosted
<1>34. /\ SearchOk(s2) /\ s2.type = "PTR" /\ s2.service = o.service /\ s2.state = "RUNNING"
       /\ OfInstance(s2, o.instance, p) # {}
  BY <1>11, <1>25, <1>31, <1>33 DEF Hosted
(* TXT                                                                      *)
<1>41. /\ Parsed(f[3]) /\ Len(f[3].searches) >= 1 /\ Len(f[3].searches) \in Nat
       /\ Step(s2, s3)
  <2>1. Parsed(f[3]) /\ ListStep(f[2].searches, f[3].searches)
    BY <1>6, <1>13, <1>31, ParseRecord
  <2> QED
    BY <1>12, <1>31, <2>1 DEF s2, s3
<1>42. s3 = take_txt(s2, o, p) /\ f[3].cur = 1
  BY <1>6, <1>13, <1>15, <1>31, <1>34, FirstSelected DEF s2, s3
<1>43. o.txt => Described(s3, o, p)
  BY <1>10, <1>14, <1>34, <1>42, TxtStep DEF Described
<1>44. SearchOk(s3) /\ s3.type = "PTR" /\ s3.service = o.service /\ s3.state = "RUNNING"
  BY <1>11, <1>34, <1>41
<1>45. Hosted(s3, o, p)
  BY <1>10, <1>11, <1>33, <1>41, GrowsKeeps
<1>46. InstanceTaken(s3, o, p)
  BY <1>10, <1>43, <1>44, <1>45, TakenOf
<1>47. OfHost(s3, o.host, p) # {}
  BY <1>46 DEF InstanceTaken, OfHost, OnPcb
(* A                                                                        *)
<1>51. /\ Parsed(f[4]) /\ Len(f[4].searches) >= 1 /\ Len(f[4].searches) \in Nat
       /\ Step(s3, s4)
  <2>1. Parsed(f[4]) /\ ListStep(f[3].searches, f[4].searches)
    BY <1>6, <1>13, <1>41, ParseRecord
  <2> QED
    BY <1>12, <1>41, <2>1 DEF s3, s4
<1>52. Ready(f[3], o, p) /\ "A" \in AddressTypes
  BY <1>13, <1>41, <1>42, <1>44, <1>47 DEF Ready, s3
<1>53. AddressTaken(s4, o, p, "A")
  <2>1. AddressTaken(parse_record(f[3], Record("A", o), p).searches[1], o, p, "A")
    BY <1>52, AddressSelected, Zenon
  <2> QED
    BY <1>6, <2>1 DEF s4
<1>54. /\ SearchOk(s4) /\ s4.type = "PTR" /\ s4.service = o.service /\ s4.state = "RUNNING"
       /\ InstanceTaken(s4, o, p)
  BY <1>10, <1>11, <1>44, <1>46, <1>51, GrowsKeeps
<1>55. OfHost(s4, o.host, p) # {}
  BY <1>54 DEF InstanceTaken, OfHost, OnPcb
(* AAAA                                                                     *)
<1>61. Parsed(f[5]) /\ Len(f[5].searches) >= 1 /\ Len(f[5].searches) \in Nat /\ Step(s4, s5)
  <2>1. Parsed(f[5]) /\ ListStep(f[4].searches, f[5].searches)
    BY <1>6, <1>13, <1>51, ParseRecord
  <2> QED
    BY <1>12, <1>51, <2>1 DEF s4, s5
<1>62. InstanceTaken(s5, o, p) /\ AddressTaken(s5, o, p, "A")
  BY <1>10, <1>11, <1>53, <1>54, <1>61, GrowsKeeps
<1>63. ASSUME o.host # OurHost PROVE AddressTaken(s5, o, p, "AAAA")
  <2>1. Ready(f[4], o, p) /\ "AAAA" \in AddressTypes
    BY <1>13, <1>51, <1>54, <1>55, <1>63 DEF Ready, s4
  <2>2. AddressTaken(parse_record(f[4], Record("AAAA", o), p).searches[1], o, p, "AAAA")
    BY <2>1, AddressSelected, Zenon
  <2> QED
    BY <1>6, <2>2 DEF s5
<1>64. AllTaken(s5, o, p)
  BY <1>62, <1>63 DEF AllTaken
(* The searches it filled end.                                              *)
<1> DEFINE l == search_finish_done(f[5].searches)
<1>71. parse_records(w, p, FALSE) = l
  <2>1. parsed!loop(x, m0, 5) = f[5]
    BY <1>4, SameLoop
  <2> QED
    BY <1>1, <2>1 DEF parse_records, x, m0
<1>72. ListOk(f[5].searches) /\ ListLater(f[5].searches, l)
  BY <1>61, FinishDone DEF Parsed
<1> HIDE DEF l
<1>73. Grows(s5, l[1])
  <2>1. 1 \in 1 .. Len(f[5].searches)
    BY <1>61
  <2> QED
    BY <1>72, <2>1 DEF ListLater, Later, s5
<1>74. AllTaken(l[1], o, p)
  BY <1>10, <1>64, <1>73, GrowsKeeps DEF AllTaken
<1> QED
  BY <1>71, <1>74 DEF w

(* What was taken, and that the first search is one for it.                 *)
TakenOk ==
    /\ SearchesOk
    /\ taken \subseteq Offers \X RxPcbs
    /\ taken # {} => searches[1].type = "PTR"
    /\ \A t \in taken : t[1].instance \notin Range(OurInstances) =>
                            AllTaken(searches[1], t[1], t[2])

LEMMA TakenStep ==
    ASSUME OneOwner, TakenOk, [ResultNext]_resultVars
    PROVE  TakenOk'
<1>1. /\ SearchesOk /\ SearchesOk' /\ Len(searches') = Len(searches)
      /\ \A k \in 1 .. Len(searches) :
             searches[k].type \notin AddressTypes => Later(searches[k], searches'[k])
  BY StepOfNext DEF TakenOk
<1>2. 1 \in 1 .. Len(searches)
  BY <1>1, ListLength DEF SearchesOk
<1>3. searches[1].type = "PTR" =>
          Grows(searches[1], searches'[1]) /\ searches'[1].type = "PTR"
  BY <1>1, <1>2 DEF Later, Same, AddressTypes
<1>4. ASSUME NEW t \in taken, t[1].instance \notin Range(OurInstances)
      PROVE  AllTaken(searches'[1], t[1], t[2])
  <2>1. t[1] \in Offers /\ t[2] \in RxPcbs
    BY DEF TakenOk
  <2>2. t[1] # None /\ t[1].host # None
    BY <2>1, ResultAssumption
  <2>3. AllTaken(searches[1], t[1], t[2]) /\ Grows(searches[1], searches'[1])
    BY <1>3, <1>4 DEF TakenOk
  <2> QED
    BY <2>2, <2>3, GrowsKeeps DEF AllTaken
<1>5. CASE taken' = taken
  BY <1>1, <1>3, <1>4, <1>5 DEF TakenOk
<1>6. ASSUME NEW o \in Offers, NEW p \in RxPcbs, Answered(o, p) PROVE TakenOk'
  <2>1. CASE ~MeetsRoom(searches[1], o)
    <3>1. taken' = taken
      BY <1>6, <2>1 DEF Answered
    <3> QED
      BY <1>5, <3>1
  <2>2. CASE MeetsRoom(searches[1], o)
    <3>1. taken' = taken \cup {<<o, p>>}
      BY <1>6, <2>2 DEF Answered
    <3>2. searches' = parse_records(WholeAnswer(o), p, FALSE)
      BY <1>6 DEF Answered, parse_packet
    <3>3. o.instance \notin Range(OurInstances) => AllTaken(searches'[1], o, p)
      BY <1>1, <2>2, <3>2, WholeAnswerTaken
    <3>4. searches'[1].type = "PTR"
      BY <1>3, <2>2 DEF MeetsRoom
    <3>5. \A t \in taken' : t[1].instance \notin Range(OurInstances) =>
                                AllTaken(searches'[1], t[1], t[2])
      BY <1>4, <3>1, <3>3
    <3>6. taken' \subseteq Offers \X RxPcbs
      BY <3>1 DEF TakenOk
    <3> QED
      BY <1>1, <3>4, <3>5, <3>6 DEF TakenOk
  <2> QED
    BY <2>1, <2>2
<1>7. CASE UNCHANGED resultVars
  BY <1>5, <1>7 DEF resultVars
<1>8. CASE \E p \in RxPcbs :
              \/ \E packet \in Responses : Announced(packet, p)
              \/ \E o \in Offers : Answered(o, p)
  BY <1>5, <1>6, <1>8 DEF Announced
<1>9. CASE \E k \in 1 .. Len(searches) :
               search_send(k) \/ search_off(k) \/ search_end(k) \/ ResultReturns(k)
  BY <1>5, <1>9 DEF search_send, search_off, search_end, ResultReturns
<1> QED
  BY <1>7, <1>8, <1>9 DEF ResultNext

(* A host's answer to a question, met by a PTR search with room for it, is  *)
(* in the results as a whole from then on: the instance with its host and   *)
(* TXT, and the host's addresses, although the first of its records may     *)
(* have filled the search (_mdns_search_finish_done runs after the last     *)
(* record) and whatever arrives later.  Not so an instance with the name of *)
(* one of ours, whose records _mdns_name_is_ours takes for a conflict.      *)
THEOREM AnswersAreTakenWhole ==
    ASSUME OneOwner
    PROVE  ResultSpec => []AnswerTakenWhole
<1>1. ResultInit => TakenOk
  BY SearchesInit DEF TakenOk
<1>2. TakenOk /\ [ResultNext]_resultVars => TakenOk'
  BY TakenStep
<1>3. TakenOk => AnswerTakenWhole
  BY DEF TakenOk, AllTaken, AnswerTakenWhole
<1> QED
  BY <1>1, <1>2, <1>3, PTL DEF ResultSpec
================================================================================
