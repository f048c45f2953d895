------------------------------ MODULE MdnsResults ------------------------------
(****************************************************************************)
(* What a query of the mDNS client in src/mdns.c collects.                  *)
(*                                                                          *)
(* The parser hands each record of a response to the first listed search    *)
(* it matches.  A PTR search builds one result per instance and PCB out of  *)
(* PTR, SRV and TXT records of the instance and A and AAAA records of its   *)
(* host; the other searches collect the records of one name.  A PTR         *)
(* question tells the instances it knows in full, and their hosts do not    *)
(* answer it again.                                                         *)
(*                                                                          *)
(* An offer is a service instance somewhere on the network: its records     *)
(* carry its instance, service and host, and an address record its host.    *)
(* Names are compared without regard to case and are model values here.     *)
(* When a search ends, and how its memory is freed, is in MdnsSearch.       *)
(*                                                                          *)
(* Operators named X_y (y a word for a fault) are faulty variants of X that *)
(* the mutation checks use; the specification does not.                     *)
(****************************************************************************)
EXTENDS Integers, Sequences, SequencesExt

CONSTANTS
    Offers,    \* set of [instance, service, host, txt]: txt, has any TXT item
    RxPcbs,    \* interface and protocol
    Names,     \* of instances, services and hosts
    OurHost,   \* the host name of this server, which another host may use too
    OurInstances,  \* [types of our services -> our instance], names of others too
    Responses, \* sequences of records that arrive in one packet
    Queries,   \* set of sequences of [type, name, service, max]
    None       \* a null pointer

VARIABLES
    searches,  \* _mdns_server->search_once and the searches just finished
    question,  \* [RxPcbs -> the known answers of the last question, or None]
    up,        \* PCBs in use, state > PCB_INIT
    taken      \* offers, by PCB, whose answer met a PTR search with room for it

resultVars == <<searches, question, up, taken>>

Types == {"PTR", "SRV", "TXT", "A", "AAAA"}
AddressTypes == {"A", "AAAA"}

(* A record has a name, and at least one query is made.  OneOwner: an       *)
(* instance has one owner, which is what the hosts probe for.               *)
ASSUME ResultAssumption ==
    /\ \A o \in Offers : o \in [instance : Names, service : Names, host : Names, txt : BOOLEAN]
    /\ Responses \subseteq Seq([type : Types, offer : Offers])
    /\ \A q \in Queries :
           /\ q # <<>>
           /\ q \in Seq([type : Types \cup {"ANY"}, name : Names \cup {None},
                         service : Names \cup {None}, max : Nat])
    /\ None \notin Names /\ None \notin Offers

OneOwner ==
    \A o1, o2 \in Offers :
        o1.instance = o2.instance /\ o1.service = o2.service => o1 = o2

--------------------------------------------------------------------------------
(* The calls that start a query, and what they search for.                  *)
Search(type, name, service, max) ==
    [type |-> type, name |-> name, service |-> service, max |-> max,
     state |-> "RUNNING", result |-> <<>>, answer |-> None]

mdns_query_ptr(service, max) == Search("PTR", None, service, max)
mdns_query_srv(instance, service) == Search("SRV", instance, service, 1)
mdns_query_txt(instance, service) == Search("TXT", instance, service, 1)
mdns_query_a(name) == Search("A", name, None, 1)
mdns_query_aaaa(name) == Search("AAAA", name, None, 1)

query(q) ==
    CASE q.type = "PTR"  -> mdns_query_ptr(q.service, q.max)
      [] q.type = "SRV"  -> mdns_query_srv(q.name, q.service)
      [] q.type = "TXT"  -> mdns_query_txt(q.name, q.service)
      [] q.type = "A"    -> mdns_query_a(q.name)
      [] q.type = "AAAA" -> mdns_query_aaaa(q.name)
      [] OTHER           -> Search(q.type, q.name, q.service, q.max)

ResultInit ==
    /\ \E q \in Queries : searches = [k \in 1 .. Len(q) |-> query(q[k])]
    /\ up \in SUBSET RxPcbs \ {{}}
    /\ question = [p \in RxPcbs |-> None]
    /\ taken = {}

Listed(k) == searches[k].state \in {"RUNNING", "OFF"}

--------------------------------------------------------------------------------
(* Records and results.                                                     *)
Record(type, o) == [type |-> type, offer |-> o]

NewResult(p) ==
    [pcb |-> p, instance_name |-> None, hostname |-> None, port |-> None,
     txt |-> None, addr |-> <<>>]

HasRoom(s) == s.max = 0 \/ Len(s.result) < s.max

(* A new result goes to the front.                                          *)
Chain(s, r) == IF HasRoom(s) THEN [s EXCEPT !.result = <<r>> \o @] ELSE s

SetResult(s, at, r) == [s EXCEPT !.result[at] = r]

(* The results got on a PCB, those that name a host, those of an instance.  *)
OnPcb(s, p) == {k \in 1 .. Len(s.result) : s.result[k].pcb = p}
OfHost(s, host, p) == {k \in OnPcb(s, p) : s.result[k].hostname = host}
OfInstance(s, i, p) == {k \in OnPcb(s, p) : s.result[k].instance_name = i}

(* The first place of a list that is in K, 0 if there is none.              *)
First(K) == IF K = {} THEN 0 ELSE Min(K)

(* A search matches a record by its type and by the name it asks for; a     *)
(* PTR search takes an address of a host it has heard of on the same PCB.   *)
matches(s, rec, p) ==
    /\ s.state = "RUNNING"
    /\ CASE rec.type \in AddressTypes ->
              /\ s.type \in {"ANY", "PTR", rec.type}
              /\ s.type = "ANY" => s.service = None
              /\ IF s.type # "PTR" THEN s.name = rec.offer.host
                 ELSE OfHost(s, rec.offer.host, p) # {}
         [] rec.type \in {"SRV", "TXT"} ->
              /\ s.type \in {"ANY", "PTR", rec.type}
              /\ s.service = rec.offer.service
              /\ s.type # "PTR" => s.name = rec.offer.instance
         [] rec.type = "PTR" -> s.type = "PTR" /\ s.service = rec.offer.service

search_find_from(list, from, rec, p) ==
    First({k \in from .. Len(list) : matches(list[k], rec, p)})

result_addr_create_ip(rec) == [type |-> rec.type, host |-> rec.offer.host]

result_add_ip(r, rec) ==
    LET a == result_addr_create_ip(rec)
    IN IF Contains(r.addr, a) THEN r ELSE [r EXCEPT !.addr = <<a>> \o @]

search_result_add_ip(s, rec, p) ==
    LET at == First(IF s.type = "PTR" THEN OfHost(s, rec.offer.host, p) ELSE OnPcb(s, p))
    IN IF s.type \notin {rec.type, "ANY", "PTR"} \/ (at = 0 /\ s.type = "PTR") THEN s
       ELSE IF at # 0 THEN SetResult(s, at, result_add_ip(s.result[at], rec))
       ELSE Chain(s, result_add_ip(NewResult(p), rec))

InstanceResult_anyOnPcb(s, i, p) == First(OnPcb(s, p))

InstanceResult(s, i, p) == First(OfInstance(s, i, p))

search_result_add_ptr(s, i, p) ==
    IF InstanceResult(s, i, p) # 0 THEN s
    ELSE Chain(s, [NewResult(p) EXCEPT !.instance_name = i])

search_result_add_srv(s, o, p) ==
    IF OfHost(s, o.host, p) # {} THEN s
    ELSE Chain(s, [NewResult(p) EXCEPT !.hostname = o.host, !.port = o])

search_result_add_txt(s, o, p) ==
    LET at == First(OnPcb(s, p))
    IN IF at = 0 THEN Chain(s, [NewResult(p) EXCEPT !.txt = o])
       ELSE IF s.result[at].txt # None THEN s
       ELSE SetResult(s, at, [s.result[at] EXCEPT !.txt = o])

--------------------------------------------------------------------------------
(* The records of a response.                                               *)
take_srv(s, o, p) ==
    IF s.type # "PTR" THEN search_result_add_srv(s, o, p)
    ELSE LET t  == search_result_add_ptr(s, o.instance, p)
             at == InstanceResult(t, o.instance, p)
         IN IF at = 0 \/ (at # 0 /\ t.result[at].hostname # None) THEN t
            ELSE SetResult(t, at, [t.result[at] EXCEPT !.hostname = o.host, !.port = o])

take_txt(s, o, p) ==
    IF s.type # "PTR" THEN IF o.txt THEN search_result_add_txt(s, o, p) ELSE s
    ELSE LET t  == search_result_add_ptr(s, o.instance, p)
             at == InstanceResult(t, o.instance, p)
         IN IF at = 0 \/ ~o.txt \/ (at # 0 /\ t.result[at].txt # None) THEN t
            ELSE SetResult(t, at, [t.result[at] EXCEPT !.txt = o])

(* An address is for every search that matches it, from the one found on.   *)
address_record(list, cur, rec, p) ==
    [k \in 1 .. Len(list) |->
        IF k = cur \/ (k > cur /\ matches(list[k], rec, p))
        THEN search_result_add_ip(list[k], rec, p) ELSE list[k]]

(* A record for the search selected for it, cur, 0 if there is none.        *)
add_record(list, cur, rec, p) ==
    CASE cur = 0 -> list
      [] cur # 0 /\ rec.type = "PTR" ->
           [list EXCEPT ![cur] = search_result_add_ptr(@, rec.offer.instance, p)]
      [] cur # 0 /\ rec.type = "SRV" -> [list EXCEPT ![cur] = take_srv(@, rec.offer, p)]
      [] cur # 0 /\ rec.type = "TXT" -> [list EXCEPT ![cur] = take_txt(@, rec.offer, p)]
      [] OTHER -> address_record(list, cur, rec, p)

(* Names of ours: the host name, the types of our services, our instances.  *)
name_is_ours(rec) ==
    IF rec.type \in AddressTypes THEN rec.offer.host = OurHost
    ELSE /\ rec.offer.service \in DOMAIN OurInstances
         /\ rec.type # "PTR" => rec.offer.instance = OurInstances[rec.offer.service]

(* A record with a name of ours is not looked up: it goes to the search the *)
(* record before it selected, whatever that one is for, and if there is     *)
(* none to the responder (collisions, known answers).                       *)
select_search(list, last, rec, p) ==
    IF name_is_ours(rec) THEN last ELSE search_find_from(list, 1, rec, p)

(* One record of a packet.  m is [searches, cur], cur the search selected   *)
(* last; an address leaves none selected.                                   *)
parse_record(m, rec, p) ==
    LET cur == select_search(m.searches, m.cur, rec, p)
    IN [searches |-> add_record(m.searches, cur, rec, p),
        cur      |-> IF rec.type \in AddressTypes THEN 0 ELSE cur]

search_is_full(s) == s.state \in {"RUNNING", "OFF"} /\ s.max # 0 /\ Len(s.result) >= s.max

search_finish_done(list) ==
    [k \in 1 .. Len(list) |->
        IF search_is_full(list[k]) THEN [list[k] EXCEPT !.state = "DONE"] ELSE list[k]]

(* A response; a malformed rest cuts it short, and the searches it filled   *)
(* then stay listed.                                                        *)
parse_records_finishEach(packet, p, cut) ==
    FoldLeft(LAMBDA m, rec :
                 LET n == parse_record(m, rec, p)
                 IN [n EXCEPT !.searches = search_finish_done(@)],
             [searches |-> searches, cur |-> 0], packet).searches

next_record(x, m, i) == parse_record(m, x.packet[i], x.p)

parsed == INSTANCE Loop WITH Step <- next_record

parse_records(packet, p, cut) ==
    LET list == parsed!loop([packet |-> packet, p |-> p],
                             [searches |-> searches, cur |-> 0], Len(packet)).searches
    IN IF cut THEN list ELSE search_finish_done(list)

parse_packet(packet, p, cut) ==
    /\ p \in up
    /\ searches' = parse_records(packet, p, cut)
    /\ UNCHANGED <<question, up>>

(* What arrives: any records together, and the full answer of a host whose  *)
(* offer a PTR question does not name as a known answer.                    *)
WholeAnswer(o) ==
    [k \in 1 .. 5 |-> Record(<<"PTR", "SRV", "TXT", "A", "AAAA">>[k], o)]

Announced(packet, p) ==
    \E cut \in BOOLEAN : parse_packet(packet, p, cut) /\ UNCHANGED taken

MeetsRoom(s, o) ==
    s.type = "PTR" /\ s.service = o.service /\ s.state = "RUNNING" /\ HasRoom(s)

Answered(o, p) ==
    /\ question[p] # None /\ o.instance \notin question[p]
    /\ parse_packet(WholeAnswer(o), p, FALSE)
    /\ taken' = taken \cup {t \in {<<o, p>>} : MeetsRoom(searches[1], o)}

--------------------------------------------------------------------------------
(* The question of a search on the PCBs in use, with its known answers.     *)
known_answers(s, p) ==
    {s.result[k].instance_name : k \in {j \in 1 .. Len(s.result) :
        /\ s.type = "PTR" /\ s.result[j].pcb = p
        /\ s.result[j].instance_name # None /\ s.result[j].hostname # None
        /\ s.result[j].addr # <<>>}}

search_send(k) ==
    /\ Listed(k)
    /\ question' = [p \in RxPcbs |-> IF p \in up THEN known_answers(searches[k], p)
                                   ELSE question[p]]
    /\ UNCHANGED <<searches, up, taken>>

(* The time of a search is over; its end waits in the action queue.         *)
search_off(k) ==
    /\ searches[k].state = "RUNNING"
    /\ searches' = [searches EXCEPT ![k].state = "OFF"]
    /\ UNCHANGED <<question, up, taken>>

search_end(k) ==
    /\ searches[k].state = "OFF"
    /\ searches' = [searches EXCEPT ![k].state = "DONE"]
    /\ UNCHANGED <<question, up, taken>>

(* mdns_query_a and mdns_query_aaaa give the first address of their kind of *)
(* the first result and free the results; the others give the results.      *)
AddressAnswer(s) ==
    LET at == IF s.result = <<>> THEN 0
              ELSE First({k \in 1 .. Len(s.result[1].addr) : s.result[1].addr[k].type = s.type})
    IN IF at = 0 THEN "NOT_FOUND" ELSE s.result[1].addr[at].host

query_results_free(s) == [s EXCEPT !.result = <<>>]

Returned(s) ==
    IF s.type \in AddressTypes
    THEN query_results_free([s EXCEPT !.state = "RETURNED", !.answer = AddressAnswer(s)])
    ELSE [s EXCEPT !.state = "RETURNED"]

ResultReturns(k) ==
    /\ searches[k].state = "DONE"
    /\ searches' = [searches EXCEPT ![k] = Returned(@)]
    /\ UNCHANGED <<question, up, taken>>

ResultNext ==
    \/ \E p \in RxPcbs :
           \/ \E packet \in Responses : Announced(packet, p)
           \/ \E o \in Offers : Answered(o, p)
    \/ \E k \in 1 .. Len(searches) :
           search_send(k) \/ search_off(k) \/ search_end(k) \/ ResultReturns(k)

ResultSpec == ResultInit /\ [][ResultNext]_resultVars

--------------------------------------------------------------------------------
(* What a result says of an instance or a host is what that instance and    *)
(* that host said of themselves, whatever else answered in between, alone   *)
(* or in one packet.  An address is of the host the result names; in a      *)
(* search for a name, of the host with that name, or of a host that offers  *)
(* the instance.  The exception is the fault of select_search: in a search  *)
(* that is not for an address there may be any instance of a service that   *)
(* we offer too, the SRV or TXT of our own instance (of whoever uses its    *)
(* name), and in one for ANY our host name; no other name gets where it was *)
(* not asked for.                                                           *)
about(s, r, o) ==
    /\ o.service = s.service
    /\ o.instance = IF s.type = "PTR" THEN r.instance_name ELSE s.name

strays(s, r, o) ==
    /\ s.type \notin AddressTypes /\ name_is_ours(Record("SRV", o))
    /\ s.type = "PTR" => o.instance = r.instance_name

InstanceTrue(s, i) ==
    \E o \in Offers :
        /\ o.instance = i
        /\ \/ o.service = s.service
           \/ s.type \notin AddressTypes /\ o.service \in DOMAIN OurInstances

AddressTrue(s, r, a) ==
    IF s.type = "PTR" THEN a.host = r.hostname
    ELSE \/ a.host = s.name
         \/ \E o \in Offers : about(s, r, o) /\ o.host = a.host
         \/ s.type = "ANY" /\ a.host = OurHost

ResultTrue(s, r) ==
    /\ r.instance_name # None => InstanceTrue(s, r.instance_name)
    /\ r.port # None => /\ about(s, r, r.port) \/ strays(s, r, r.port)
                        /\ r.hostname = r.port.host
    /\ r.port = None => r.hostname = None
    /\ r.txt # None => about(s, r, r.txt) \/ strays(s, r, r.txt)
    /\ \A k \in 1 .. Len(r.addr) : AddressTrue(s, r, r.addr[k])

(* A PTR search lists an instance once per PCB.                             *)
ListedOnce(s) ==
    \A i, j \in 1 .. Len(s.result) :
        /\ s.result[i].pcb = s.result[j].pcb
        /\ s.result[i].instance_name = s.result[j].instance_name
        => i = j

(* No search has more results than it asked for, and what mdns_query_a and  *)
(* mdns_query_aaaa return is an address of the host they asked for.         *)
SearchTrue(s) ==
    /\ s.max # 0 => Len(s.result) =< s.max
    /\ \A j \in 1 .. Len(s.result) : ResultTrue(s, s.result[j])
    /\ s.type = "PTR" => ListedOnce(s)
    /\ s.answer \in {None, "NOT_FOUND", s.name}

ResultsTrue == \A k \in 1 .. Len(searches) : SearchTrue(searches[k])

(* A host's own answer to a question, taken as it comes, leaves the newest  *)
(* search, if it asks for the service, with all of it, even where its first *)
(* record fills the search, and where its PTR is passed over because we     *)
(* offer the service too.  The addresses of a host are kept once for each   *)
(* PCB, with one of its instances; of a host that uses our host name too,   *)
(* one address is kept.  Of an instance with the name of one of ours, under *)
(* our type or another, nothing is said: its records, or those of another   *)
(* with that name, are kept for the wrong search or for none.               *)
InstanceTaken(s, o, p) ==
    \E j \in 1 .. Len(s.result) :
        /\ s.result[j].pcb = p /\ s.result[j].instance_name = o.instance
        /\ s.result[j].hostname = o.host
        /\ o.txt => s.result[j].txt = o

AddressTaken(s, o, p, type) ==
    \E j \in 1 .. Len(s.result) :
        /\ s.result[j].pcb = p /\ s.result[j].hostname = o.host
        /\ \E k \in 1 .. Len(s.result[j].addr) : s.result[j].addr[k].type = type

AnswerTakenWhole ==
    \A t \in {u \in taken : u[1].instance \notin Range(OurInstances)} :
        /\ InstanceTaken(searches[1], t[1], t[2])
        /\ AddressTaken(searches[1], t[1], t[2], "A")
        /\ t[1].host # OurHost => AddressTaken(searches[1], t[1], t[2], "AAAA")
================================================================================
