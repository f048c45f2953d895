------------------------------ MODULE WireProofs ------------------------------
(****************************************************************************)
(* Proofs about the encoding of mDNS packets (MdnsWire): the buffer.        *)
(****************************************************************************)
EXTENDS MdnsWire, SequenceTheorems, TLAPS

(* A buffer, and what an append returns.                                    *)
Buffer(p) ==
    /\ p = [index |-> p.index, at |-> p.at, cut |-> p.cut]
    /\ p.index \in Nat /\ p.index =< MaxPacketSize

Appended(w) == w = [p |-> w.p, n |-> w.n] /\ Buffer(w.p) /\ w.n \in Nat

Labels == DOMAIN LabelLen

--------------------------------------------------------------------------------
(* The appends.                                                             *)
LEMMA PutOk ==
    ASSUME NEW p, Buffer(p), NEW c, Size(c) \in Nat,
           p.index + Size(c) =< MaxPacketSize
    PROVE  /\ Appended(put(p, c)) /\ put(p, c).n = Size(c)
           /\ put(p, c).p.index = p.index + Size(c)
<1> DEFINE q == [p EXCEPT !.index = @ + Size(c), !.at = (p.index :> c) @@ @]
<1>1. put(p, c) = [p |-> q, n |-> Size(c)]
  BY DEF put
<1>2. /\ q = [index |-> q.index, at |-> q.at, cut |-> q.cut]
      /\ q.index = p.index + Size(c)
  <2> DEFINE i == p.index + Size(c)
             a == (p.index :> c) @@ p.at
  <2>1. p = [index |-> p.index, at |-> p.at, cut |-> p.cut]
    BY DEF Buffer
  <2>2. q = [[p EXCEPT !.index = i] EXCEPT !.at = a]
    BY <2>1
  <2> HIDE DEF i, a, q
  <2>3. q = [index |-> i, at |-> a, cut |-> p.cut]
    BY <2>1, <2>2
  <2> QED
    BY <2>3 DEF i
<1> HIDE DEF q
<1>3. q.index \in Nat
  BY <1>2 DEF Buffer
<1>4. Buffer(q)
  BY <1>2, <1>3 DEF Buffer
<1> QED
  BY <1>1, <1>2, <1>4 DEF Appended

LEMMA FailOk ==
    ASSUME NEW p, Buffer(p)
    PROVE  Appended(fail(p)) /\ fail(p).n = 0
<1> DEFINE t == TRUE
           q == [p EXCEPT !.cut = t]
<1>1. q = [index |-> q.index, at |-> q.at, cut |-> q.cut] /\ q.index = p.index
  <2>1. p = [index |-> p.index, at |-> p.at, cut |-> p.cut]
    BY DEF Buffer
  <2> HIDE DEF t
  <2>2. q = [index |-> p.index, at |-> p.at, cut |-> t]
    BY <2>1
  <2> HIDE DEF q
  <2> QED
    BY <2>2
<1>2. fail(p) = [p |-> q, n |-> 0]
  BY DEF fail
<1> HIDE DEF q
<1>3. Buffer(q)
  BY <1>1 DEF Buffer
<1> QED
  BY <1>2, <1>3 DEF Appended

LEMMA U8Ok ==
    ASSUME NEW p, Buffer(p), NEW c, Size(c) = 1
    PROVE  Appended(append_u8(p, c))
<1>1. CASE p.index >= MaxPacketSize
  BY <1>1, FailOk DEF append_u8, putIf
<1>2. CASE ~(p.index >= MaxPacketSize)
  <2>1. p.index + Size(c) =< MaxPacketSize /\ Size(c) \in Nat
    BY <1>2, WireAssumption DEF Buffer
  <2> QED
    BY <1>2, <2>1, PutOk DEF append_u8, putIf
<1> QED
  BY <1>1, <1>2

LEMMA U16Ok ==
    ASSUME NEW p, Buffer(p), NEW c, Size(c) = 2
    PROVE  Appended(append_u16(p, c))
<1>1. CASE p.index + 1 >= MaxPacketSize
  BY <1>1, FailOk DEF append_u16, putIf
<1>2. CASE ~(p.index + 1 >= MaxPacketSize)
  <2>1. p.index + Size(c) =< MaxPacketSize /\ Size(c) \in Nat
    BY <1>2, WireAssumption DEF Buffer
  <2> QED
    BY <1>2, <2>1, PutOk DEF append_u16, putIf
<1> QED
  BY <1>1, <1>2

LEMMA StringOk ==
    ASSUME NEW p, Buffer(p), NEW c, Size(c) \in Nat
    PROVE  Appended(append_string(p, c))
<1> DEFINE w == putIf(~(p.index + Size(c) >= MaxPacketSize), p, c)
<1>1. Appended(w)
  <2>1. CASE p.index + Size(c) >= MaxPacketSize
    BY <2>1, FailOk DEF putIf
  <2>2. CASE ~(p.index + Size(c) >= MaxPacketSize)
    <3>1. p.index + Size(c) =< MaxPacketSize
      BY <2>2, WireAssumption DEF Buffer
    <3> QED
      BY <2>2, <3>1, PutOk DEF putIf
  <2> QED
    BY <2>1, <2>2
<1>2. append_string(p, c) = [w EXCEPT !.n = @ % 256]
  BY DEF append_string
<1> HIDE DEF w
<1>3. append_string(p, c) = [p |-> w.p, n |-> w.n % 256]
  BY <1>1, <1>2 DEF Appended
<1>4. w.n % 256 \in Nat
  BY <1>1 DEF Appended
<1> QED
  BY <1>1, <1>3, <1>4 DEF Appended

(* A byte is left behind the fixed part of a record.                        *)
LEMMA TypeOk ==
    ASSUME NEW p, Buffer(p), NEW t
    PROVE  LET f == append_type(p, t)
           IN Appended(f) /\ (f.n # 0 => f.p.index + 1 =< MaxPacketSize)
<1> DEFINE c == [kind |-> "type", type |-> t, len |-> 0]
<1>1. Size(c) = 10
  BY DEF Size
<1> HIDE DEF c
<1>2. CASE p.index + 10 >= MaxPacketSize
  <2>1. append_type(p, t) = fail(p)
    BY <1>2 DEF append_type, putIf
  <2> QED
    BY <2>1, FailOk
<1>3. CASE ~(p.index + 10 >= MaxPacketSize)
  <2>1. p.index + Size(c) =< MaxPacketSize /\ p.index + 10 + 1 =< MaxPacketSize
    BY <1>1, <1>3, WireAssumption DEF Buffer
  <2>2. append_type(p, t) = put(p, c)
    BY <1>3 DEF append_type, putIf, c
  <2>3. Appended(put(p, c)) /\ put(p, c).p.index = p.index + 10
    BY <1>1, <2>1, PutOk
  <2> QED
    BY <2>1, <2>2, <2>3
<1> QED
  BY <1>2, <1>3

LEMMA LengthOk ==
    ASSUME NEW p, Buffer(p), NEW at, NEW len
    PROVE  Buffer(set_data_len(p, at, len))
<1> DEFINE q == set_data_len(p, at, len)
<1>1. q = [p EXCEPT !.at = [p.at EXCEPT ![at] = [p.at[at] EXCEPT !.len = len]]]
  BY DEF set_data_len, Buffer
<1>2. q = [index |-> q.index, at |-> q.at, cut |-> q.cut] /\ q.index = p.index
  BY <1>1 DEF Buffer
<1> HIDE DEF q
<1> QED
  BY <1>2 DEF Buffer, q

--------------------------------------------------------------------------------
(* Names, label by label; what the search for a name to point to finds does *)
(* not matter.                                                              *)
LabelsGood(x, i, m) == x.names \in Seq(Labels) /\ Buffer(m.p) /\ m.n \in Nat

Label == INSTANCE LoopProofs WITH Step <- append_label, Good <- LabelsGood

LEMMA AppendLabel ==
    ASSUME NEW x, NEW m, NEW i \in 1 .. Len(x.names), LabelsGood(x, i - 1, m)
    PROVE  LabelsGood(x, i, append_label(x, m, i))
<1> DEFINE s == find_suffix(m.p, SubSeq(x.names, i, Len(x.names)), x.stale, x.after)
           c == [kind |-> "label", label |-> x.names[i]]
           t == [kind |-> "ptr", to |-> s.found]
           w == compressed(m.p, s, append_string(m.p, c))
           u == append_label(x, m, i)
<1>1. x.names \in Seq(Labels) /\ Buffer(m.p) /\ m.n \in Nat
  BY DEF LabelsGood
<1>2. x.names[i] \in Labels
  BY <1>1, ElementOfSeq
<1>3. Size(c) = LabelLen[x.names[i]] + 1
  BY DEF Size
<1>4. Size(c) \in Nat
  <2>1. PICK a : a = x.names[i]
    OBVIOUS
  <2>2. LabelLen[a] \in Nat
    BY <1>2, <2>1, WireAssumption DEF Labels
  <2> QED
    BY <1>3, <2>1, <2>2
<1>5. Size(t) = 2
  BY DEF Size
<1>6. u = IF ~m.more THEN m
          ELSE [p |-> w.p, n |-> m.n + w.n, more |-> ~s.failed /\ s.found = 0 /\ w.n # 0]
  BY DEF append_label, after_search, after_label
<1> HIDE DEF s, c, u
<1>7. Appended(w)
  <2>1. Appended(fail(m.p)) /\ Appended(append_u16(m.p, t)) /\ Appended(append_string(m.p, c))
    BY <1>1, <1>4, <1>5, FailOk, U16Ok, StringOk
  <2> QED
    BY <2>1 DEF compressed
<1> HIDE DEF w
<1>8. CASE ~m.more
  BY <1>1, <1>6, <1>8 DEF LabelsGood, u
<1>9. CASE m.more
  <2>1. u.p = w.p /\ u.n = m.n + w.n
    BY <1>6, <1>9
  <2>2. u.n \in Nat /\ Buffer(u.p)
    BY <1>1, <1>7, <2>1 DEF Appended
  <2> QED
    BY <1>1, <2>2 DEF LabelsGood, u
<1> QED
  BY <1>8, <1>9

LEMMA FqdnOk ==
    ASSUME NEW p, Buffer(p), NEW names \in Seq(Labels), NEW E
    PROVE  Appended(fqdn(p, names, E))
<1> DEFINE x == [names |-> names, stale |-> E[1], after |-> E[2]]
           m0 == [p |-> p, n |-> 0, more |-> TRUE]
           m == labels!loop(x, m0, Len(names))
           c == [kind |-> "end"]
           e == append_u8(m.p, c)
<1>1. fqdn(p, names, E) =
          IF m.more THEN [p |-> e.p, n |-> m.n + e.n] ELSE [p |-> m.p, n |-> m.n]
  BY DEF fqdn, append_fqdn
<1>2. x.names = names /\ m0.p = p /\ m0.n = 0 /\ Len(names) \in Nat
  BY LenProperties
<1> HIDE DEF x, m0
<1>3. LabelsGood(x, 0, m0)
  BY <1>2 DEF LabelsGood
<1>4. \A i \in 1 .. Len(names) : \A y :
          LabelsGood(x, i - 1, y) => LabelsGood(x, i, append_label(x, y, i))
  BY <1>2, AppendLabel
<1>5. LabelsGood(x, Len(names), Label!loop(x, m0, Len(names)))
  BY <1>2, <1>3, <1>4, Label!LoopKeeps
<1>6. Label!loop(x, m0, Len(names)) = m
  BY DEF Label!loop, labels!loop
<1> HIDE DEF m
<1>7. Buffer(m.p) /\ m.n \in Nat
  BY <1>5, <1>6 DEF LabelsGood
<1>8. Size(c) = 1
  BY DEF Size
<1>9. Appended(e)
  BY <1>7, <1>8, U8Ok
<1> HIDE DEF e
<1>10. m.n + e.n \in Nat /\ Buffer(e.p)
  BY <1>7, <1>9 DEF Appended
<1>11. CASE m.more
  BY <1>1, <1>10, <1>11 DEF Appended
<1>12. CASE ~m.more
  BY <1>1, <1>7, <1>12 DEF Appended
<1> QED
  BY <1>11, <1>12

--------------------------------------------------------------------------------
(* Records.                                                                 *)
LEMMA NamesOk ==
    /\ hostName \in Seq(Labels) /\ discoveryName \in Seq(Labels)
    /\ \A s \in Services : typeName(s) \in Seq(Labels) /\ fullName(s) \in Seq(Labels)
<1>1. {Host, Local, "_services", "_dns-sd", "_udp"} \subseteq Labels
  BY WireAssumption DEF Labels
<1>2. hostName \in Seq(Labels) /\ discoveryName \in Seq(Labels)
  BY <1>1 DEF hostName, discoveryName
<1>3. ASSUME NEW s \in Services PROVE typeName(s) \in Seq(Labels) /\ fullName(s) \in Seq(Labels)
  <2>1. s.instance \in Labels /\ s.service \in Labels /\ s.proto \in Labels
    BY WireAssumption DEF Labels
  <2>2. typeName(s) \in Seq(Labels) /\ <<s.instance>> \in Seq(Labels)
    BY <1>1, <2>1 DEF typeName
  <2> QED
    BY <2>2, ConcatProperties DEF fullName
<1> QED
  BY <1>2, <1>3

LEMMA WithLengthOk ==
    ASSUME NEW n, Appended(n), NEW f, Appended(f), NEW d, Appended(d)
    PROVE  Appended(withLength(n, f, d))
<1> DEFINE q == set_data_len(d.p, n.p.index, d.n)
<1>1. Buffer(q)
  BY LengthOk DEF Appended
<1>2. withLength(n, f, d) = IF d.n = 0 THEN d ELSE [p |-> q, n |-> n.n + f.n + d.n]
  BY DEF withLength
<1> HIDE DEF q
<1>3. n.n + f.n + d.n \in Nat
  BY DEF Appended
<1> QED
  BY <1>1, <1>2, <1>3 DEF Appended

(* The data of the records; that of a TXT record needs the byte.            *)
ItemsGood(txt, i, m) == txt \in Seq([key : Nat, value : Nat]) /\ Buffer(m.p) /\ m.n \in Nat

Item == INSTANCE LoopProofs WITH Step <- append_item, Good <- ItemsGood

LEMMA AppendItem ==
    ASSUME NEW txt, NEW m, NEW i \in 1 .. Len(txt), ItemsGood(txt, i - 1, m)
    PROVE  ItemsGood(txt, i, append_item(txt, m, i))
<1> DEFINE c == [kind |-> "txt", item |-> txt[i]]
           w == append_string(m.p, c)
           u == append_item(txt, m, i)
<1>1. txt \in Seq([key : Nat, value : Nat]) /\ Buffer(m.p) /\ m.n \in Nat
  BY DEF ItemsGood
<1>2. txt[i] \in [key : Nat, value : Nat]
  BY <1>1, ElementOfSeq
<1>3. Size(c) = txt[i].key + txt[i].value + 2
  BY DEF Size
<1>4. Size(c) \in Nat
  BY <1>2, <1>3
<1>5. Appended(w)
  BY <1>1, <1>4, StringOk
<1>6. u = IF ~m.more THEN m
          ELSE [p |-> w.p, n |-> IF w.n = 0 THEN 0 ELSE m.n + w.n, more |-> w.n # 0]
  BY DEF append_item
<1> HIDE DEF w, u
<1>7. CASE ~m.more
  BY <1>1, <1>6, <1>7 DEF ItemsGood, u
<1>8. CASE m.more
  <2>1. u.p = w.p /\ u.n = IF w.n = 0 THEN 0 ELSE m.n + w.n
    BY <1>6, <1>8
  <2>2. u.n \in Nat /\ Buffer(u.p)
    BY <1>1, <1>5, <2>1 DEF Appended
  <2> QED
    BY <1>1, <2>2 DEF ItemsGood, u
<1> QED
  BY <1>7, <1>8

LEMMA TxtDataOk ==
    ASSUME NEW p, Buffer(p), p.index + 1 =< MaxPacketSize,
           NEW txt \in Seq([key : Nat, value : Nat])
    PROVE  Appended(txt_data(p, txt))
<1> DEFINE m0 == [p |-> p, n |-> 0, more |-> TRUE]
           m == items!loop(txt, m0, Len(txt))
           c == [kind |-> "end"]
<1>1. txt_data(p, txt) = IF txt = <<>> THEN put(p, c) ELSE [p |-> m.p, n |-> m.n]
  BY DEF txt_data
<1>2. Size(c) = 1
  BY DEF Size
<1>3. Appended(put(p, c))
  BY <1>2, PutOk
<1>4. Len(txt) \in Nat /\ m0.p = p /\ m0.n = 0
  BY LenProperties
<1> HIDE DEF m0
<1>5. ItemsGood(txt, 0, m0)
  BY <1>4 DEF ItemsGood
<1>6. \A i \in 1 .. Len(txt) : \A y :
          ItemsGood(txt, i - 1, y) => ItemsGood(txt, i, append_item(txt, y, i))
  BY AppendItem
<1>7. ItemsGood(txt, Len(txt), Item!loop(txt, m0, Len(txt)))
  BY <1>4, <1>5, <1>6, Item!LoopKeeps
<1>8. Item!loop(txt, m0, Len(txt)) = m
  BY DEF Item!loop, items!loop
<1> HIDE DEF m
<1>9. Buffer(m.p) /\ m.n \in Nat
  BY <1>7, <1>8 DEF ItemsGood
<1> QED
  BY <1>1, <1>3, <1>9 DEF Appended

LEMMA SrvDataOk ==
    ASSUME NEW p, Buffer(p), NEW E
    PROVE  Appended(srv_data(p, E))
<1> DEFINE c == [kind |-> "num"]
           w1 == append_u16(p, c)
           w2 == append_u16(w1.p, c)
           w3 == append_u16(w2.p, c)
           h == fqdn(w3.p, hostName, E)
<1>1. Size(c) = 2
  BY DEF Size
<1>2. srv_data(p, E) =
          IF w1.n + w2.n + w3.n # 6 THEN [p |-> w3.p, n |-> 0]
          ELSE [p |-> h.p, n |-> IF h.n = 0 THEN 0 ELSE h.n + 6]
  BY DEF srv_data
<1> HIDE DEF c
<1>3. Appended(w1)
  BY <1>1, U16Ok
<1> HIDE DEF w1
<1>4. Appended(w2)
  BY <1>1, <1>3, U16Ok DEF Appended
<1> HIDE DEF w2
<1>5. Appended(w3)
  BY <1>1, <1>4, U16Ok DEF Appended
<1> HIDE DEF w3
<1>6. Appended(h)
  BY <1>5, NamesOk, FqdnOk DEF Appended
<1> HIDE DEF h
<1>7. (IF h.n = 0 THEN 0 ELSE h.n + 6) \in Nat
  BY <1>6 DEF Appended
<1> QED
  BY <1>2, <1>5, <1>6, <1>7 DEF Appended

LEMMA AddressDataOk ==
    ASSUME NEW q, Buffer(q)
    PROVE  /\ Appended(putIf(~(q.index + 3 >= MaxPacketSize), q, [kind |-> "a"]))
           /\ Appended(putIf(~(q.index + 16 > MaxPacketSize), q, [kind |-> "aaaa"]))
<1> DEFINE c == [kind |-> "a"]
           d == [kind |-> "aaaa"]
<1>1. Size(c) = 4 /\ Size(d) = 16
  BY DEF Size
<1> HIDE DEF c, d
<1>2. Appended(putIf(~(q.index + 3 >= MaxPacketSize), q, c))
  <2>1. ~(q.index + 3 >= MaxPacketSize) => q.index + Size(c) =< MaxPacketSize
    BY <1>1, WireAssumption DEF Buffer
  <2> QED
    BY <1>1, <2>1, FailOk, PutOk DEF putIf
<1>3. Appended(putIf(~(q.index + 16 > MaxPacketSize), q, d))
  <2>1. ~(q.index + 16 > MaxPacketSize) => q.index + Size(d) =< MaxPacketSize
    BY <1>1, WireAssumption DEF Buffer
  <2> QED
    BY <1>1, <2>1, FailOk, PutOk DEF putIf
<1> QED
  BY <1>2, <1>3 DEF c, d

LEMMA AddedOk ==
    ASSUME NEW r, Appended(r)
    PROVE  Appended(added(r))
BY DEF added, Appended

(* A name, the fixed part, and data that fits behind it.                    *)
LEMMA RecordOk ==
    ASSUME NEW p, Buffer(p), NEW names \in Seq(Labels), NEW E, NEW t
    PROVE  LET n == fqdn(p, names, E)
               f == append_type(n.p, t)
           IN /\ Appended(n) /\ Appended(f) /\ Buffer(f.p)
              /\ f.n # 0 => f.p.index + 1 =< MaxPacketSize
<1> DEFINE n == fqdn(p, names, E)
<1>1. Appended(n)
  BY FqdnOk
<1> HIDE DEF n
<1>2. LET f == append_type(n.p, t)
      IN Appended(f) /\ (f.n # 0 => f.p.index + 1 =< MaxPacketSize)
  BY <1>1, TypeOk DEF Appended
<1> QED
  BY <1>1, <1>2 DEF n, Appended

LEMMA RecordsOk ==
    ASSUME NEW p, Buffer(p), NEW E
    PROVE  /\ \A s \in Services :
                  /\ Appended(append_ptr_record(p, s, E))
                  /\ Appended(append_sdptr_record(p, s, E))
                  /\ Appended(append_srv_record(p, s, E))
                  /\ Appended(append_txt_record(p, s, E))
           /\ Appended(append_a_record(p, E))
           /\ Appended(append_aaaa_record(p, E))
<1>1. ASSUME NEW s \in Services PROVE Appended(append_ptr_record(p, s, E))
  <2> DEFINE n == fqdn(p, typeName(s), E)
             f == append_type(n.p, "PTR")
             d == fqdn(f.p, fullName(s), E)
  <2>1. append_ptr_record(p, s, E) =
            IF n.n = 0 THEN n ELSE IF f.n = 0 THEN f ELSE withLength(n, f, d)
    BY DEF append_ptr_record, record, withType, withData
  <2>2. Appended(n) /\ Appended(f) /\ Buffer(f.p)
    BY NamesOk, RecordOk
  <2> HIDE DEF n, f
  <2>3. Appended(d)
    BY <2>2, NamesOk, FqdnOk
  <2> QED
    BY <2>1, <2>2, <2>3, WithLengthOk
<1>2. ASSUME NEW s \in Services PROVE Appended(append_sdptr_record(p, s, E))
  <2> DEFINE n == fqdn(p, discoveryName, E)
             f == append_type(n.p, "PTR")
             d == fqdn(f.p, typeName(s), E)
  <2>1. append_sdptr_record(p, s, E) = IF f.n = 0 THEN f ELSE withLength(n, f, d)
    BY DEF append_sdptr_record, record, withType, withData
  <2>2. Appended(n) /\ Appended(f) /\ Buffer(f.p)
    BY NamesOk, RecordOk
  <2> HIDE DEF n, f
  <2>3. Appended(d)
    BY <2>2, NamesOk, FqdnOk
  <2> QED
    BY <2>1, <2>2, <2>3, WithLengthOk
<1>3. ASSUME NEW s \in Services PROVE Appended(append_srv_record(p, s, E))
  <2> DEFINE n == fqdn(p, fullName(s), E)
             f == append_type(n.p, "SRV")
             d == srv_data(f.p, E)
  <2>1. append_srv_record(p, s, E) =
            IF n.n = 0 THEN n ELSE IF f.n = 0 THEN f ELSE withLength(n, f, d)
    BY DEF append_srv_record, record, withType, withData
  <2>2. Appended(n) /\ Appended(f) /\ Buffer(f.p)
    BY NamesOk, RecordOk
  <2> HIDE DEF n, f
  <2>3. Appended(d)
    BY <2>2, SrvDataOk
  <2> QED
    BY <2>1, <2>2, <2>3, WithLengthOk
<1>4. ASSUME NEW s \in Services PROVE Appended(append_txt_record(p, s, E))
  <2> DEFINE n == fqdn(p, fullName(s), E)
             f == append_type(n.p, "TXT")
             d == txt_data(f.p, s.txt)
  <2>1. append_txt_record(p, s, E) =
            IF n.n = 0 THEN n ELSE IF f.n = 0 THEN f ELSE withLength(n, f, d)
    BY DEF append_txt_record, record, withType, withData
  <2>2. /\ Appended(n) /\ Appended(f) /\ Buffer(f.p)
        /\ f.n # 0 => f.p.index + 1 =< MaxPacketSize
    BY NamesOk, RecordOk
  <2> HIDE DEF n, f
  <2>3. f.n # 0 => Appended(d)
    BY <2>2, TxtDataOk, WireAssumption
  <2> QED
    BY <2>1, <2>2, <2>3, WithLengthOk
<1>5. Appended(append_a_record(p, E))
  <2> DEFINE n == fqdn(p, hostName, E)
             f == append_type(n.p, "A")
             d == putIf(~(f.p.index + 3 >= MaxPacketSize), f.p, [kind |-> "a"])
  <2>1. append_a_record(p, E) =
            IF n.n = 0 THEN n ELSE IF f.n = 0 THEN f ELSE withLength(n, f, d)
    BY DEF append_a_record, record, withType, withData
  <2>2. Appended(n) /\ Appended(f) /\ Buffer(f.p)
    BY NamesOk, RecordOk
  <2> HIDE DEF n, f
  <2>3. Appended(d)
    BY <2>2, AddressDataOk
  <2> HIDE DEF d
  <2> QED
    BY <2>1, <2>2, <2>3, WithLengthOk
<1>6. Appended(append_aaaa_record(p, E))
  <2> DEFINE n == fqdn(p, hostName, E)
             f == append_type(n.p, "AAAA")
             d == putIf(~(f.p.index + 16 > MaxPacketSize), f.p, [kind |-> "aaaa"])
  <2>1. append_aaaa_record(p, E) =
            IF n.n = 0 THEN n ELSE IF f.n = 0 THEN f ELSE withLength(n, f, d)
    BY DEF append_aaaa_record, record, withType, withData
  <2>2. Appended(n) /\ Appended(f) /\ Buffer(f.p)
    BY NamesOk, RecordOk
  <2> HIDE DEF n, f
  <2>3. Appended(d)
    BY <2>2, AddressDataOk
  <2> HIDE DEF d
  <2> QED
    BY <2>1, <2>2, <2>3, WithLengthOk
<1> QED
  BY <1>1, <1>2, <1>3, <1>4, <1>5, <1>6

LEMMA AnswerOk ==
    ASSUME NEW p, Buffer(p), NEW E, NEW a \in Answers
    PROVE  Buffer(append_answer(p, a, E).p)
<1>1. CASE a.type \in {"PTR", "SDPTR", "SRV", "TXT"}
  <2>1. a.service \in Services
    BY <1>1 DEF Answers
  <2>2. /\ Appended(added(append_ptr_record(p, a.service, E)))
        /\ Appended(added(append_sdptr_record(p, a.service, E)))
        /\ Appended(added(append_srv_record(p, a.service, E)))
        /\ Appended(added(append_txt_record(p, a.service, E)))
    BY <2>1, RecordsOk, AddedOk
  <2>3. Appended(append_answer(p, a, E))
    BY <1>1, <2>2 DEF append_answer
  <2> QED
    BY <2>3 DEF Appended
<1>2. CASE a.type = "A"
  <2> DEFINE r1 == append_a_record(p, E)
             r2 == append_a_record(r1.p, E)
  <2>1. append_answer(p, a, E) =
            IF _ipv6_address_is_zero(a) THEN [p |-> p, n |-> 0]
            ELSE IF a.addrs = 1 \/ r1.n = 0 THEN added(r1)
            ELSE [p |-> r2.p, n |-> 1 + added(r2).n]
    BY <1>2 DEF append_answer, addresses
  <2>2. Appended(r1)
    BY RecordsOk
  <2> HIDE DEF r1
  <2>3. Buffer(r1.p) /\ Buffer(added(r1).p)
    BY <2>2, AddedOk DEF Appended
  <2>4. Appended(r2)
    BY <2>3, RecordsOk
  <2> HIDE DEF r2
  <2> QED
    BY <2>1, <2>3, <2>4 DEF Appended
<1>3. CASE a.type = "AAAA"
  <2> DEFINE r1 == append_aaaa_record(p, E)
             r2 == append_aaaa_record(r1.p, E)
  <2>1. append_answer(p, a, E) =
            IF _ipv6_address_is_zero(a) THEN [p |-> p, n |-> 0]
            ELSE IF a.addrs = 1 \/ r1.n = 0 THEN added(r1)
            ELSE [p |-> r2.p, n |-> 1 + added(r2).n]
    BY <1>3 DEF append_answer, addresses
  <2>2. Appended(r1)
    BY RecordsOk
  <2> HIDE DEF r1
  <2>3. Buffer(r1.p) /\ Buffer(added(r1).p)
    BY <2>2, AddedOk DEF Appended
  <2>4. Appended(r2)
    BY <2>3, RecordsOk
  <2> HIDE DEF r2
  <2> QED
    BY <2>1, <2>3, <2>4 DEF Appended
<1>4. a.type \in {"PTR", "SDPTR", "SRV", "TXT", "A", "AAAA"}
  BY DEF Answers
<1> QED
  BY <1>1, <1>2, <1>3, <1>4

LEMMA QuestionOk ==
    ASSUME NEW p, Buffer(p), NEW E, NEW q \in Questions
    PROVE  Buffer(append_question(p, q, E).p)
<1> DEFINE n == fqdn(p, q.name, E)
           x == [kind |-> "qtype", type |-> q.type]
           y == [kind |-> "qclass"]
           t == append_u16(n.p, x)
           c == append_u16(t.p, y)
<1>1. append_question(p, q, E) = IF n.n = 0 THEN n ELSE [c EXCEPT !.n = 1]
  BY DEF append_question
<1>2. Size(x) = 2 /\ Size(y) = 2
  BY DEF Size
<1> HIDE DEF x, y
<1>3. Appended(n)
  BY FqdnOk, WireAssumption DEF Labels
<1> HIDE DEF n
<1>4. Appended(t)
  BY <1>2, <1>3, U16Ok DEF Appended
<1> HIDE DEF t
<1>5. Appended(c)
  BY <1>2, <1>4, U16Ok DEF Appended
<1> HIDE DEF c
<1>6. [c EXCEPT !.n = 1].p = c.p
  BY <1>5 DEF Appended
<1> QED
  BY <1>1, <1>3, <1>5, <1>6 DEF Appended

--------------------------------------------------------------------------------
(* _mdns_dispatch_tx_packet never stores behind the end of its static       *)
(* buffer: for every packet size, length of names, set of services and list *)
(* of questions and answers, whatever is found to be compressible, which    *)
(* appends fail and what they leave behind, the zero byte included that an  *)
(* empty TXT record stores without a test.                                  *)
THEOREM EncoderStaysInside == WireSpec => []NoOverrun
<1> DEFINE Inv == Buffer(pkt)
<1>1. WireInit => Inv
  BY WireAssumption DEF WireInit, Buffer, HeadLen
<1>2. Inv /\ [WireNext]_wireVars => Inv'
  <2> SUFFICES ASSUME Inv, [WireNext]_wireVars PROVE Inv'
    OBVIOUS
  <2>1. CASE AppendQuestion
    <3>1. PICK q \in Questions, E \in Environment : pkt' = append_question(pkt, q, E).p
      BY <2>1 DEF AppendQuestion
    <3> QED
      BY <3>1, QuestionOk
  <2>2. CASE AppendAnswer
    <3>1. PICK a \in Answers, E \in Environment : pkt' = append_answer(pkt, a, E).p
      BY <2>2 DEF AppendAnswer
    <3> QED
      BY <3>1, AnswerOk
  <2>3. CASE Send
    BY <2>3 DEF Send
  <2>4. CASE receive_packet
    BY <2>4 DEF receive_packet
  <2>5. CASE UNCHANGED wireVars
    BY <2>5 DEF wireVars
  <2> QED
    BY <2>1, <2>2, <2>3, <2>4, <2>5 DEF WireNext
<1>3. Inv => NoOverrun
  BY DEF Buffer, NoOverrun
<1> QED
  BY <1>1, <1>2, <1>3, PTL DEF WireSpec
===============================================================================
