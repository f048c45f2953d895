------------------------------- MODULE MdnsWire -------------------------------
(****************************************************************************)
(* How src/mdns.c turns a scheduled packet into bytes and reads a received  *)
(* one: _mdns_dispatch_tx_packet with the append functions it calls, and    *)
(* the decoding half of mdns_parse_packet.                                  *)
(*                                                                          *)
(* The buffer is a function from offsets to the items that start there: a   *)
(* label, a compression pointer, a final zero, the ten bytes of type,       *)
(* class, TTL and data length, a number or an address.  Sizes and offsets   *)
(* are the code's, so the buffer fills up where the code's does.  Nothing   *)
(* is rolled back when an append fails, so what was written before stays.   *)
(*                                                                          *)
(* Abstractions.  Labels are lower case and are told from the bytes of      *)
(* numbers, addresses and TXT strings.  The high byte of a type, of a       *)
(* priority and of a question's type is zero, and reads as the end of a     *)
(* name that was cut short.  The local of _mdns_append_fqdn that collects a *)
(* name is not initialised, and the bytes after the end of the packet are   *)
(* those of an earlier one: both are chosen freely.                         *)
(*                                                                          *)
(* Operators named X_y (y a word for a fault) are faulty variants of X that *)
(* the mutation checks use; the specification does not.                     *)
(****************************************************************************)
EXTENDS Integers, Sequences, FiniteSets, TLC, SequencesExt

CONSTANTS
    MaxPacketSize,  \* MDNS_MAX_PACKET_SIZE
    LabelLen,       \* [labels -> Nat]: their lengths
    TypeLabels,     \* the labels that start with an underscore
    Host,           \* the label of the host name
    Services,       \* the services, as records [instance, service, proto, txt]; txt is
                    \* a sequence of items [key, value], the lengths of the two
    Questions,      \* the questions: [name, type], a sequence of labels and a type
    Stale,          \* the sets of lengths at which the uninitialised flag may be set
    Dup,            \* BOOLEAN: the other interface is on the same subnet
    MaxEntries      \* bound: questions and answers tried for a packet

VARIABLES
    pkt,      \* the buffer: [index, at, cut]; cut: some append has failed (history)
    section,  \* the list the loop of _mdns_dispatch_tx_packet is in; 5: sent, 6: read,
              \* 7: not sent
    count,    \* the four counts of the header
    entries,  \* the questions and answers tried so far
    whole,    \* history: what was appended before the first failure
    rx        \* what the receiver made of it

wireVars == <<pkt, section, count, entries, whole, rx>>

HeadLen == 12
Local == "local"

(* There is room for the header, and every label has a length.              *)
ASSUME WireAssumption ==
    /\ MaxPacketSize \in Nat /\ MaxPacketSize >= HeadLen
    /\ LabelLen \in [DOMAIN LabelLen -> Nat]
    /\ {Host, Local, "_services", "_dns-sd", "_udp"} \subseteq DOMAIN LabelLen
    /\ \A s \in Services : /\ {s.instance, s.service, s.proto} \subseteq DOMAIN LabelLen
                           /\ s.txt \in Seq([key : Nat, value : Nat])
    /\ \A q \in Questions : q.name \in Seq(DOMAIN LabelLen)

--------------------------------------------------------------------------------
(* The buffer.  An append returns [p, n]: the buffer and the length the     *)
(* function returns, 0 for an error.                                        *)
Size(c) ==
    CASE c.kind = "label" -> LabelLen[c.label] + 1
      [] c.kind = "txt" -> c.item.key + c.item.value + 2
      [] c.kind = "end" -> 1
      [] c.kind \in {"ptr", "num", "qtype", "qclass"} -> 2
      [] c.kind = "type" -> 10
      [] c.kind = "a" -> 4
      [] c.kind = "aaaa" -> 16

put(p, c) ==
    [p |-> [p EXCEPT !.index = @ + Size(c), !.at = (p.index :> c) @@ @], n |-> Size(c)]
fail(p) == [p |-> [p EXCEPT !.cut = TRUE], n |-> 0]
putIf(fits, p, c) == IF fits THEN put(p, c) ELSE fail(p)

append_u8(p, c) == putIf(~(p.index >= MaxPacketSize), p, c)
append_u16(p, c) == putIf(~(p.index + 1 >= MaxPacketSize), p, c)
(* The length is returned in eight bits.                                    *)
append_string(p, c) ==
    LET w == putIf(~(p.index + Size(c) >= MaxPacketSize), p, c) IN [w EXCEPT !.n = @ % 256]

(* Mutant: the test is exact, as the tests of the other functions nearly are. *)
append_type_exact(p, t) ==
    putIf(~(p.index + 10 > MaxPacketSize), p, [kind |-> "type", type |-> t, len |-> 0])
(* The test refuses one byte more than it must.                             *)
append_type(p, t) ==
    putIf(~(p.index + 10 >= MaxPacketSize), p, [kind |-> "type", type |-> t, len |-> 0])

set_data_len(p, at, len) == [p EXCEPT !.at[at].len = len]

--------------------------------------------------------------------------------
(* Reading a name.  Labels are collected into at most four parts; a second  *)
(* label that is neither a type nor the domain is joined to the first.      *)
Collected ==
    [parts : Seq(DOMAIN LabelLen \cup {Local, "joined", "txt"}), invalid : BOOLEAN]

addPart(name, l) ==
    LET n == [name EXCEPT !.invalid = @ \/ Len(name.parts) = 4]
    IN IF Len(n.parts) = 1 /\ l \notin TypeLabels \cup {Local}
       THEN [n EXCEPT !.parts = <<"joined">>]
       ELSE IF n.invalid THEN n ELSE [n EXCEPT !.parts = Append(@, l)]

unreadable(name) == [ok |-> FALSE, name |-> name, next |-> 0]

(* after: what the bytes behind the end of the packet say when a name that  *)
(* was cut short runs into them.                                            *)
behind(p, at, name, after) ==
    IF at = p.index /\ after # "bad"
    THEN [ok |-> TRUE, next |-> at + 1,
          name |-> IF after = "zero" THEN name ELSE addPart(name, Local)]
    ELSE unreadable(name)

(* from[start, at, name]: the rest of a name that starts at start is at at. *)
read_fqdn(p, o, collected, after) ==
    LET from[start \in Nat, at \in Nat, name \in Collected] ==
            IF at \notin DOMAIN p.at THEN behind(p, at, name, after)
            ELSE LET c == p.at[at] IN
            CASE c.kind = "label" -> from[start, at + Size(c), addPart(name, c.label)]
              [] c.kind = "txt" -> from[start, at + Size(c), addPart(name, "txt")]
              [] c.kind = "ptr" ->
                    LET n == [name EXCEPT !.invalid = @ \/ Len(name.parts) = 4]
                        r == from[c.to, c.to, n]
                    IN IF c.to >= start \/ ~r.ok THEN unreadable(n)
                       ELSE [r EXCEPT !.next = at + 2]
              [] c.kind \in {"end", "type", "num", "qtype"} ->
                    [ok |-> TRUE, name |-> name, next |-> at + 1]
              [] OTHER -> unreadable(name)
    IN from[o, o, collected]

(* A name is its parts; it must end in the domain.                          *)
inDomain(r) ==
    IF r.ok /\ r.name.parts # <<>> /\ ~r.name.invalid
         /\ (Len(r.name.parts) = 1 \/ Last(r.name.parts) # Local)
    THEN unreadable(r.name)
    ELSE r

parse_fqdn(p, at, after) ==
    inDomain(read_fqdn(p, at, [parts |-> <<>>, invalid |-> FALSE], after))

--------------------------------------------------------------------------------
(* Mutant: any name that starts with the same label is taken.               *)
find_suffix_firstLabel(p, names, stale, after) ==
    LET hits == {o \in DOMAIN p.at : p.at[o].kind = "label" /\ p.at[o].label = names[1]}
    IN [found |-> IF hits = {} THEN 0 ELSE CHOOSE o \in hits : \A h \in hits : o <= h,
        failed |-> FALSE, invalid |-> FALSE]

(* Writing a name.  The rest of the name is looked for in what was already  *)
(* written: at each label equal to its first, the name that starts there is *)
(* read and compared.  stale is the set of lengths at which the             *)
(* uninitialised flag says that the collected name is invalid.              *)
find_suffix(p, names, stale, after) ==
    LET hits == SetToSortSeq({o \in DOMAIN p.at : /\ p.at[o].kind = "label"
                                                  /\ p.at[o].label = names[1]}, <)
        step(s, o) ==
            LET r == read_fqdn(p, o, [parts |-> <<>>, invalid |-> s.invalid], after)
            IN IF s.found # 0 \/ s.failed THEN s
               ELSE [found |-> IF r.ok /\ r.name.parts = names THEN o ELSE 0,
                     failed |-> ~r.ok, invalid |-> r.name.invalid]
    IN FoldLeft(step, [found |-> 0, failed |-> FALSE, invalid |-> Len(names) \in stale], hits)

(* One label of a name: a pointer to what the search has found ends it,     *)
(* else the label is written in plain.  m is [p, n, more].                  *)
compressed(p, s, plain) ==
    IF s.failed THEN fail(p)
    ELSE IF s.found # 0 THEN append_u16(p, [kind |-> "ptr", to |-> s.found])
    ELSE plain

after_label(m, s, w) ==
    [p |-> w.p, n |-> m.n + w.n, more |-> ~s.failed /\ s.found = 0 /\ w.n # 0]

after_search(m, s, plain) == after_label(m, s, compressed(m.p, s, plain))

append_label(x, m, i) ==
    IF ~m.more THEN m
    ELSE after_search(m, find_suffix(m.p, SubSeq(x.names, i, Len(x.names)), x.stale, x.after),
                      append_string(m.p, [kind |-> "label", label |-> x.names[i]]))

labels == INSTANCE Loop WITH Step <- append_label

(* When a later label fails, the length written so far is returned.         *)
append_fqdn(p, names, stale, after) ==
    LET m == labels!loop([names |-> names, stale |-> stale, after |-> after],
                         [p |-> p, n |-> 0, more |-> TRUE], Len(names))
        e == append_u8(m.p, [kind |-> "end"])
    IN IF m.more THEN [p |-> e.p, n |-> m.n + e.n] ELSE [p |-> m.p, n |-> m.n]

--------------------------------------------------------------------------------
(* Records.  E is <<stale, after>> for the names of one record.             *)
hostName == <<Host, Local>>
typeName(s) == <<s.service, s.proto, Local>>
fullName(s) == <<s.instance>> \o typeName(s)
discoveryName == <<"_services", "_dns-sd", "_udp", Local>>

fqdn(p, names, E) == append_fqdn(p, names, E[1], E[2])

(* A name, the fixed part and the data, whose length is filled in at last.  *)
withLength(n, f, d) ==
    IF d.n = 0 THEN d
    ELSE [p |-> set_data_len(d.p, n.p.index, d.n), n |-> n.n + f.n + d.n]

withData(n, f, data(_)) == IF f.n = 0 THEN f ELSE withLength(n, f, data(f.p))

withType(n, nameChecked, t, data(_)) ==
    IF nameChecked /\ n.n = 0 THEN n ELSE withData(n, append_type(n.p, t), data)

record(p, name, E, nameChecked, t, data(_)) ==
    withType(fqdn(p, name, E), nameChecked, t, data)

append_ptr_record(p, s, E) ==
    record(p, typeName(s), E, TRUE, "PTR", LAMBDA q : fqdn(q, fullName(s), E))

(* The result of the first name is not looked at.                           *)
append_sdptr_record(p, s, E) ==
    record(p, discoveryName, E, FALSE, "PTR", LAMBDA q : fqdn(q, typeName(s), E))

(* The zero byte of an empty TXT record is stored without a test for room.  *)
append_item(txt, m, i) ==
    LET w == append_string(m.p, [kind |-> "txt", item |-> txt[i]])
    IN IF ~m.more THEN m
       ELSE [p |-> w.p, n |-> IF w.n = 0 THEN 0 ELSE m.n + w.n, more |-> w.n # 0]

items == INSTANCE Loop WITH Step <- append_item

txt_data(p, txt) ==
    LET m == items!loop(txt, [p |-> p, n |-> 0, more |-> TRUE], Len(txt))
    IN IF txt = <<>> THEN put(p, [kind |-> "end"]) ELSE [p |-> m.p, n |-> m.n]

append_txt_record(p, s, E) ==
    record(p, fullName(s), E, TRUE, "TXT", LAMBDA q : txt_data(q, s.txt))

srv_data(p, E) ==
    LET priority == append_u16(p, [kind |-> "num"])
        weight == append_u16(priority.p, [kind |-> "num"])
        port == append_u16(weight.p, [kind |-> "num"])
        h == fqdn(port.p, hostName, E)
    IN IF priority.n + weight.n + port.n # 6 THEN [p |-> port.p, n |-> 0]
       ELSE [p |-> h.p, n |-> IF h.n = 0 THEN 0 ELSE h.n + 6]

append_srv_record(p, s, E) ==
    record(p, fullName(s), E, TRUE, "SRV", LAMBDA q : srv_data(q, E))

append_a_record(p, E) ==
    record(p, hostName, E, TRUE, "A",
           LAMBDA q : putIf(~(q.index + 3 >= MaxPacketSize), q, [kind |-> "a"]))

append_aaaa_record(p, E) ==
    record(p, hostName, E, TRUE, "AAAA",
           LAMBDA q : putIf(~(q.index + 16 > MaxPacketSize), q, [kind |-> "aaaa"]))

added(r) == [p |-> r.p, n |-> IF r.n > 0 THEN 1 ELSE 0]

(* The interface has no address yet.                                        *)
_ipv6_address_is_zero(a) == a.addrs = 0

(* An address of the other interface follows when both are on one subnet.   *)
addresses(p, a, E, one(_, _)) ==
    LET first == one(p, E)
        second == one(first.p, E)
    IN IF _ipv6_address_is_zero(a) THEN [p |-> p, n |-> 0]
       ELSE IF a.addrs = 1 \/ first.n = 0 THEN added(first)
       ELSE [p |-> second.p, n |-> 1 + added(second).n]

(* The number of records added.                                             *)
append_answer(p, a, E) ==
    CASE a.type = "PTR" -> added(append_ptr_record(p, a.service, E))
      [] a.type = "SDPTR" -> added(append_sdptr_record(p, a.service, E))
      [] a.type = "SRV" -> added(append_srv_record(p, a.service, E))
      [] a.type = "TXT" -> added(append_txt_record(p, a.service, E))
      [] a.type = "A" -> addresses(p, a, E, append_a_record)
      [] a.type = "AAAA" -> addresses(p, a, E, append_aaaa_record)

(* The question counts although its type or class may not have fitted.      *)
append_question(p, q, E) ==
    LET n == fqdn(p, q.name, E)
        t == append_u16(n.p, [kind |-> "qtype", type |-> q.type])
        c == append_u16(t.p, [kind |-> "qclass"])
    IN IF n.n = 0 THEN n ELSE [c EXCEPT !.n = 1]

--------------------------------------------------------------------------------
(* _mdns_dispatch_tx_packet: the questions, then the three lists of         *)
(* answers.  What the lists hold is chosen as the loops go along.           *)
(* addrs: how many interfaces have an address to tell.                      *)
Answers == [type : {"A", "AAAA"}, addrs : 0 .. IF Dup THEN 2 ELSE 1]
    \cup {[type |-> t, service |-> s] : t \in {"PTR", "SRV", "TXT", "SDPTR"}, s \in Services}

Environment == Stale \X {"zero", "more", "bad"}

(* What a reader should find for an answer, once or twice.  A TXT item      *)
(* without a key is of no use to it.                                        *)
meaning(a) ==
    CASE a.type = "PTR" -> <<typeName(a.service), "PTR", fullName(a.service)>>
      [] a.type = "SDPTR" -> <<discoveryName, "PTR", typeName(a.service)>>
      [] a.type = "SRV" -> <<fullName(a.service), "SRV", hostName>>
      [] a.type = "TXT" -> <<fullName(a.service), "TXT",
                             SelectSeq(a.service.txt, LAMBDA i : i.key > 0)>>
      [] OTHER -> <<hostName, a.type, <<>>>>

WireInit ==
    /\ pkt = [index |-> HeadLen, at |-> <<>>, cut |-> FALSE]
    /\ section = 1 /\ count = <<0, 0, 0, 0>> /\ entries = 0
    /\ whole = [questions |-> <<>>, records |-> <<>>]
    /\ rx = [questions |-> <<>>, records |-> <<>>, complete |-> FALSE]

AppendQuestion ==
    /\ section = 1 /\ entries < MaxEntries /\ entries' = entries + 1
    /\ \E q \in Questions, E \in Environment : \E r \in {append_question(pkt, q, E)} :
        /\ pkt' = r.p
        /\ count' = [count EXCEPT ![1] = @ + r.n]
        /\ whole' = IF r.p.cut THEN whole
                    ELSE [whole EXCEPT !.questions = Append(@, <<q.name, q.type>>)]
    /\ UNCHANGED <<section, rx>>

AppendAnswer ==
    /\ section <= 4 /\ entries < MaxEntries /\ entries' = entries + 1
    /\ \E a \in Answers, E \in Environment : \E r \in {append_answer(pkt, a, E)} :
        /\ pkt' = r.p
        /\ whole' = IF r.p.cut THEN whole
                    ELSE [whole EXCEPT !.records = @ \o [i \in 1 .. r.n |-> meaning(a)]]
        /\ \E k \in 2 .. 4 :
            /\ k >= section
            /\ section' = k
            /\ count' = [count EXCEPT ![k] = @ + r.n]
    /\ UNCHANGED rx

(* _mdns_udp_pcb_write: there may be no memory for it, or lwIP refuses it.  *)
(* Nobody looks at the result.                                              *)
_mdns_udp_pcb_write == {"sent", "refused"}

(* The packet is written to the PCB and a receiver gets it as it is.        *)
Send ==
    /\ section <= 4 /\ entries > 0
    /\ \E result \in _mdns_udp_pcb_write : section' = IF result = "sent" THEN 5 ELSE 7
    /\ UNCHANGED <<pkt, count, entries, whole, rx>>

--------------------------------------------------------------------------------
(* The decoding half of mdns_parse_packet.                                  *)
isAt(p, o, kind) == o \in DOMAIN p.at /\ p.at[o].kind = kind

readQuestion(p, o, r) ==
    IF ~r.ok \/ ~isAt(p, r.next, "qtype") THEN [ok |-> FALSE, next |-> o, list |-> <<>>]
    ELSE [ok |-> TRUE, next |-> r.next + 4, list |-> <<<<r.name.parts, p.at[r.next].type>>>>]

(* The first question that cannot be read ends the packet.                  *)
parse_questions(p, n, after) ==
    LET step(m, i) == IF ~m.ok THEN m
                      ELSE [readQuestion(p, m.next, parse_fqdn(p, m.next, after))
                               EXCEPT !.list = m.list \o @]
    IN FoldLeft(step, [ok |-> TRUE, next |-> HeadLen, list |-> <<>>], [i \in 1 .. n |-> i])

(* _mdns_result_txt_create: the strings of the record that have a key.  The *)
(* sender always writes an equals sign; without one, as other hosts may     *)
(* send it, the code skips the length byte of the next item.                *)
txt_items(p, o, to) ==
    LET from[k \in Nat] == IF k >= to \/ ~isAt(p, k, "txt") THEN <<>>
                           ELSE <<p.at[k].item>> \o from[k + Size(p.at[k])]
    IN from[o]

txt_items_count_get(p, o, len) == IF len = 1 THEN 0 ELSE Len(txt_items(p, o, o + len))

txt_item_name_get_len(i) == IF i.key = 0 THEN -1 ELSE i.key

result_txt_create(p, o, len) ==
    IF txt_items_count_get(p, o, len) = 0 THEN <<>>
    ELSE SelectSeq(txt_items(p, o, o + len), LAMBDA i : txt_item_name_get_len(i) >= 0)

recordData(p, c, o, after) ==
    CASE c.type = "PTR" -> parse_fqdn(p, o, after).name.parts
      [] c.type = "SRV" -> parse_fqdn(p, o + 6, after).name.parts
      [] c.type = "TXT" -> result_txt_create(p, o, c.len)
      [] OTHER -> <<>>

readRecord(p, r, after) ==
    LET c == p.at[r.next]
        data == r.next + 10
    IN IF ~r.ok \/ ~isAt(p, r.next, "type") \/ data + c.len > p.index
       THEN [ok |-> FALSE, next |-> 0, list |-> <<>>]
       ELSE [ok |-> TRUE, next |-> data + c.len,
             list |-> <<<<r.name.parts, c.type, recordData(p, c, data, after)>>>>]

(* If there are any, the records are read to the end of the data, whatever  *)
(* the counts say.  Each takes a byte and more.                             *)
read_record(x, m, i) ==
    IF ~m.ok \/ m.next >= x.p.index THEN m
    ELSE [readRecord(x.p, parse_fqdn(x.p, m.next, x.after), x.after) EXCEPT !.list = m.list \o @]

records_read == INSTANCE Loop WITH Step <- read_record

read_records(p, m, after) == records_read!loop([p |-> p, after |-> after], m, p.index)

receive_packet ==
    /\ section = 5
    /\ section' = 6
    /\ \E after \in {"zero", "more", "bad"} :
       \E q \in {parse_questions(pkt, count[1], after)} :
       \E r \in {IF count[2] + count[3] + count[4] = 0 THEN [q EXCEPT !.list = <<>>]
                 ELSE read_records(pkt, [q EXCEPT !.list = <<>>], after)} :
           rx' = [questions |-> q.list, records |-> r.list, complete |-> q.ok /\ r.ok]
    /\ UNCHANGED <<pkt, count, entries, whole>>

WireNext == AppendQuestion \/ AppendAnswer \/ Send \/ receive_packet

WireSpec == WireInit /\ [][WireNext]_wireVars

--------------------------------------------------------------------------------
(* Nothing is ever stored behind the end of the static buffer, whichever    *)
(* records are tried and whichever of them fail: also not the zero byte of  *)
(* an empty TXT record, which is stored without a test of its own.          *)
NoOverrun == pkt.index <= MaxPacketSize

(* A receiver finds the questions and records that were appended before the *)
(* first failure, with their names, types and data: compression pointers    *)
(* lead to the name that was meant, whatever was found to be compressible,  *)
(* and what a failed append left behind hides nothing before it.  When      *)
(* nothing failed it finds exactly those, and the header counts them.       *)
ReadBack ==
    section = 6 =>
        /\ IsPrefix(whole.questions, rx.questions)
        /\ IsPrefix(whole.records, rx.records)
        /\ ~pkt.cut => /\ rx.complete
                       /\ rx.questions = whole.questions /\ rx.records = whole.records
                       /\ Len(rx.questions) = count[1]
                       /\ Len(rx.records) = count[2] + count[3] + count[4]
================================================================================
