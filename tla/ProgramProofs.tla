----------------------------- MODULE ProgramProofs -----------------------------
(****************************************************************************)
(* Proofs about the example programs, for every value of their constants.   *)
(*                                                                          *)
(* OTA (module Ota): the parser writes exactly the image, and the update    *)
(* implements AtomicUpdate.  softAP provisioning (Prov): g_prov is not used *)
(* after it is freed, and the client is told the truth.  iperf's tasks own  *)
(* the buffer they work on (Iperf), the echo server gives back each byte    *)
(* once (Echo), the CoAP client shows a resource without gaps (Coap).  Of   *)
(* two ESP-NOW devices one sends (EspNow), and the blocks of the SPI link   *)
(* arrive in order (SpiLink).                                               *)
(****************************************************************************)
EXTENDS Ota, EspNow, SpiLink, Prov, Iperf, Echo, Coap,
        SequenceTheorems, FiniteSetTheorems, TLAPS

Layouts == {"split", "whole", "skip"}
Units == [v : Nat, i : Int]
ParserStates == {"INIT", "PREPARE", "START", "RECVED"}
Firms == [state : ParserStates, content_len : Int, read_bytes : Int, write_bytes : Int,
          ota_size : Int, ota_offset : Int, buf : Int, bytes : Int]
Downloading == {"recv", "end", "set_boot", "restart"}
Pcs == {"start", "wait", "socket", "request", "begin", "deleted", "crashed"} \cup Downloading

OtaTypes ==
    /\ layout \in Layouts
    /\ published \in 1 .. MaxVersion
    /\ flash \in [Partitions -> Seq(Units)]
    /\ boot \in Partitions /\ running \in Partitions
    /\ pc \in Pcs
    /\ stream \in [v : 1 .. MaxVersion, got : Nat, open : BOOLEAN]
    /\ firm \in Firms

(* What the parser knows when `got' units of the stream have come: where    *)
(* the image starts once the Content-Length line is read, and how much of   *)
(* the image it has handed on.                                              *)
ParserAt(f, got) ==
    /\ f.content_len = 0 => f.state = "INIT" /\ got \in {0, 2}
    /\ f.content_len # 0 =>
         got >= 4 /\ f.ota_size = OtaSize /\ f.ota_offset = ImageStart(UpdatePartition)
    /\ f.state = "INIT" => got < HeaderLen /\ f.read_bytes = 0 /\ f.write_bytes = 0
    /\ f.state = "PREPARE" =>
         /\ got >= HeaderLen /\ f.read_bytes = got - HeaderLen /\ f.write_bytes = 0
         /\ f.read_bytes = 0 \/ f.read_bytes < f.ota_offset
    /\ f.state = "START" =>
         /\ f.write_bytes = got - HeaderLen - f.ota_offset
         /\ f.write_bytes \in 0 .. OtaSize
    /\ f.state = "RECVED" => f.write_bytes = OtaSize

(* What is in the partition is the beginning of the image.                  *)
DataIsImage(data, n) ==
    /\ Len(data) = n /\ n \in 0 .. OtaSize
    /\ \A k \in 1 .. n : data[k] = [v |-> stream.v, i |-> ImageStart(UpdatePartition) + k - 1]

Parsed ==
    /\ pc \in {"request", "begin"} => stream.got = 0
    /\ pc \in Downloading =>
         /\ ParserAt(firm, stream.got)
         /\ DataIsImage(flash[UpdatePartition], firm.write_bytes)
    /\ pc = "recv" => firm.state # "RECVED"
    /\ pc = "crashed" => firm.state = "INIT"

(* Partition p starts with the image of version v.                          *)
Holds(p, v) == IsPrefix(Image(v, p), flash[p])

(* The partition that boots holds an image, and the download is not older.  *)
Bootable ==
    /\ pc # "restart" => running = boot
    /\ pc = "restart" => boot = UpdatePartition
    /\ pc = "set_boot" => Verifies(UpdatePartition)
    /\ \E v \in 1 .. published :
         /\ Holds(boot, v)
         /\ pc \in {"request", "begin"} \cup Downloading => v <= stream.v
    /\ stream.v <= published

OtaInv == OtaTypes /\ Parsed /\ Bootable
-----------------------------------------------------------------------------
(* Where things are in the served file.                                     *)
LEMMA UpdatePartitionIsOther ==
    ASSUME running \in Partitions
    PROVE  UpdatePartition \in Partitions /\ UpdatePartition # running
  BY DEF Partitions, UpdatePartition, get_ota_partition_count

LEMMA Geometry ==
    ASSUME layout \in Layouts, NEW p \in Partitions
    PROVE  /\ ImageStart(p) \in Nat /\ ContentLen \in Nat \ {0}
           /\ ImageStart(p) + OtaSize <= ContentLen
           /\ HeaderLen \in Nat /\ HeaderLen >= 6
           /\ StreamLen = HeaderLen + ContentLen
<1>1. HeaderLen \in Nat /\ HeaderLen >= 6 /\ StreamLen = HeaderLen + ContentLen
  BY OtaAssumption DEF HeaderLen, StreamLen
<1>2. CASE p = 0
  <2>1. ImageStart(p) = IF layout = "skip" THEN SkipSize ELSE 0
    BY <1>2, OtaAssumption DEF ImageStart, Layouts
  <2> QED
    BY <1>1, <2>1, OtaAssumption DEF ContentLen, Layouts, get_ota_partition_count
<1>3. CASE p = 1
  BY <1>1, <1>3, OtaAssumption DEF ImageStart, ContentLen, Layouts, get_ota_partition_count
<1> QED
  BY <1>2, <1>3 DEF Partitions

(* A file that ends with the image is complete when the image is.           *)
LEMMA WholeFile ==
    ASSUME layout \in Layouts, NEW p \in Partitions, ContentLen - ImageStart(p) <= OtaSize
    PROVE  ContentLen - ImageStart(p) = OtaSize
<1>1. CASE p = 0
  BY <1>1, OtaAssumption DEF ImageStart, ContentLen, Layouts, get_ota_partition_count
<1>2. CASE p = 1
  BY <1>2, OtaAssumption DEF ImageStart, ContentLen, Layouts, get_ota_partition_count
<1> QED
  BY <1>1, <1>2 DEF Partitions

(* _esp_ota_firm_parse_http finds the image.                                *)
LEMMA LengthsFound ==
    ASSUME layout \in Layouts, running \in Partitions, NEW f \in Firms
    PROVE  LET g == Lengths(f)
           IN  /\ g \in Firms
               /\ g.content_len = ContentLen /\ g.ota_size = OtaSize
               /\ g.ota_offset = ImageStart(UpdatePartition)
               /\ g.state = f.state /\ g.read_bytes = f.read_bytes
               /\ g.write_bytes = f.write_bytes
<1> DEFINE off == ImageStart(UpdatePartition)
           e == [f EXCEPT !.content_len = ContentLen]
           h == [e EXCEPT !.ota_size = OtaSize]
           g == [h EXCEPT !.ota_offset = off]
<1>1. off \in Nat /\ ContentLen \in Nat
  BY UpdatePartitionIsOther, Geometry
<1>2. Lengths(f) = [f EXCEPT !.content_len = ContentLen, !.ota_size = OtaSize,
                             !.ota_offset = off]
  <2>1. CASE layout = "split"
    <3>1. ContentLen = OtaSize * 2 /\ ContentLen \div 2 = OtaSize
      BY <2>1, OtaAssumption DEF ContentLen, get_ota_partition_count
    <3>2. OtaSize * UpdatePartition = off
      BY <2>1, UpdatePartitionIsOther, OtaAssumption DEF ImageStart, Partitions
    <3> QED
      BY <2>1, <3>1, <3>2 DEF Lengths, split_lengths, get_ota_partition_count
  <2>2. CASE layout = "whole"
    BY <2>2 DEF Lengths, whole_lengths, ContentLen, ImageStart
  <2>3. CASE layout = "skip"
    <3>1. ContentLen - SkipSize = OtaSize /\ off = SkipSize
      BY <2>3, OtaAssumption DEF ContentLen, ImageStart
    <3> QED
      BY <2>3, <3>1 DEF Lengths, skip_lengths
  <2> QED
    BY <2>1, <2>2, <2>3 DEF Layouts
<1>3. Lengths(f) = g
  BY <1>2
<1>4. e \in Firms /\ h \in Firms /\ g \in Firms
  <2>1. e \in Firms
    BY <1>1 DEF Firms
  <2> HIDE DEF e
  <2>2. h \in Firms
    BY <2>1, OtaAssumption DEF Firms
  <2> HIDE DEF h
  <2>3. g \in Firms
    BY <1>1, <2>2 DEF Firms
  <2> QED
    BY <2>1, <2>2, <2>3
<1>5. /\ g.content_len = ContentLen /\ g.ota_size = OtaSize /\ g.ota_offset = off
      /\ g.state = f.state /\ g.read_bytes = f.read_bytes /\ g.write_bytes = f.write_bytes
  BY DEF Firms
<1> QED
  BY <1>3, <1>4, <1>5

(* What the parser hands to esp_ota_write() continues what it handed before.*)
Continues(f, g) ==
    IF can_write(g)
    THEN /\ g.bytes \in Nat /\ g.write_bytes = f.write_bytes + g.bytes
         /\ g.buf = HeaderLen + ImageStart(UpdatePartition) + f.write_bytes
    ELSE g.write_bytes = f.write_bytes

LEMMA PrepareStep ==
    ASSUME layout \in Layouts, running \in Partitions, NEW f \in Firms,
           NEW a \in Nat, NEW b \in Nat, a < b, b - a <= OtaSize,
           f.state = "PREPARE", ParserAt(f, a)
    PROVE  LET g == Prepare(f, a, b)
           IN  g \in Firms /\ ParserAt(g, b) /\ Continues(f, g) /\ g.state # "RECVED"
<1> DEFINE off == ImageStart(UpdatePartition)
           read == f.read_bytes + (b - a)
           over == read - f.ota_offset
<1>1. off \in Nat /\ HeaderLen \in Nat /\ HeaderLen >= 6 /\ OtaSize \in Nat
  BY UpdatePartitionIsOther, Geometry, OtaAssumption
<1>2. /\ f.content_len # 0 /\ f.ota_size = OtaSize /\ f.ota_offset = off /\ f.write_bytes = 0
      /\ a >= HeaderLen /\ f.read_bytes = a - HeaderLen
      /\ f.read_bytes = 0 \/ f.read_bytes < off
  BY DEF ParserAt
<1>3. read = b - HeaderLen /\ read \in Nat /\ over \in Int
  BY <1>1, <1>2
<1>4. CASE read >= off
  <2> DEFINE e == [f EXCEPT !.read_bytes = read]
             h == [e EXCEPT !.state = "START"]
             i == [h EXCEPT !.buf = b - over]
             j == [i EXCEPT !.bytes = over]
             g == [j EXCEPT !.write_bytes = f.write_bytes + over]
  <2>1. Prepare(f, a, b) = g
    BY <1>2, <1>4 DEF Prepare
  <2>2. /\ g.state = "START" /\ g.content_len = f.content_len /\ g.ota_size = f.ota_size
        /\ g.ota_offset = f.ota_offset /\ g.write_bytes = f.write_bytes + over
        /\ g.bytes = over /\ g.buf = b - over
    BY DEF Firms
  <2>3. g \in Firms
    <3>1. e \in Firms
      BY <1>3 DEF Firms
    <3> HIDE DEF e
    <3>2. h \in Firms
      BY <3>1 DEF Firms, ParserStates
    <3> HIDE DEF h
    <3>3. i \in Firms
      BY <1>3, <3>2 DEF Firms
    <3> HIDE DEF i
    <3>4. j \in Firms
      BY <1>3, <3>3 DEF Firms
    <3> HIDE DEF j
    <3> QED
      BY <1>2, <1>3, <3>4 DEF Firms
  <2> HIDE DEF g
  <2>4. over \in 0 .. OtaSize
    BY <1>1, <1>2, <1>3, <1>4
  <2>5. ParserAt(g, b)
    BY <1>1, <1>2, <1>3, <2>2, <2>4 DEF ParserAt
  <2>6. Continues(f, g)
    BY <1>1, <1>2, <1>3, <2>2, <2>4 DEF Continues, can_write
  <2> QED
    BY <2>1, <2>2, <2>3, <2>5, <2>6
<1>5. CASE ~(read >= off)
  <2> DEFINE g == [f EXCEPT !.read_bytes = read]
  <2>1. Prepare(f, a, b) = g
    BY <1>2, <1>3, <1>5 DEF Prepare
  <2>2. g \in Firms
    BY <1>3 DEF Firms
  <2>3. /\ g.state = "PREPARE" /\ g.content_len = f.content_len /\ g.ota_size = f.ota_size
        /\ g.ota_offset = f.ota_offset /\ g.write_bytes = 0 /\ g.read_bytes = read
    BY <1>2 DEF Firms
  <2> HIDE DEF g
  <2>4. ParserAt(g, b)
    BY <1>1, <1>2, <1>3, <1>5, <2>3 DEF ParserAt
  <2>5. Continues(f, g)
    BY <1>2, <2>3 DEF Continues, can_write
  <2> QED
    BY <2>1, <2>2, <2>3, <2>4, <2>5
<1> QED
  BY <1>4, <1>5

LEMMA StartStep ==
    ASSUME layout \in Layouts, running \in Partitions, NEW f \in Firms,
           NEW a \in Nat, NEW b \in Nat, a < b, f.state = "START", ParserAt(f, a)
    PROVE  LET g == Start(f, a, b)
           IN  g \in Firms /\ ParserAt(g, b) /\ Continues(f, g)
<1> DEFINE off == ImageStart(UpdatePartition)
           full == f.write_bytes + (b - a) > OtaSize
           bytes == IF full THEN OtaSize - f.write_bytes ELSE b - a
           state == IF full THEN "RECVED" ELSE "START"
           e == [f EXCEPT !.bytes = bytes]
           h == [e EXCEPT !.buf = a]
           i == [h EXCEPT !.state = state]
           g == [i EXCEPT !.write_bytes = f.write_bytes + bytes]
<1>1. off \in Nat /\ HeaderLen \in Nat /\ OtaSize \in Nat
  BY UpdatePartitionIsOther, Geometry, OtaAssumption
<1>2. /\ f.content_len # 0 /\ f.ota_size = OtaSize /\ f.ota_offset = off
      /\ f.write_bytes = a - HeaderLen - off /\ f.write_bytes \in 0 .. OtaSize
  BY DEF ParserAt
<1>3. Start(f, a, b) = g
  BY <1>2 DEF Start
<1>4. bytes \in Nat /\ state \in ParserStates
  BY <1>1, <1>2 DEF ParserStates
<1>5. /\ g.state = state /\ g.content_len = f.content_len /\ g.ota_size = f.ota_size
      /\ g.ota_offset = f.ota_offset /\ g.write_bytes = f.write_bytes + bytes
      /\ g.bytes = bytes /\ g.buf = a
  BY DEF Firms
<1>6. g \in Firms
  <2> HIDE DEF bytes, state
  <2>1. e \in Firms
    BY <1>4 DEF Firms
  <2> HIDE DEF e
  <2>2. h \in Firms
    BY <2>1 DEF Firms
  <2> HIDE DEF h
  <2>3. i \in Firms
    BY <1>4, <2>2 DEF Firms
  <2> HIDE DEF i
  <2> QED
    BY <1>2, <1>4, <2>3 DEF Firms
<1> HIDE DEF g
<1>7. ParserAt(g, b)
  BY <1>1, <1>2, <1>4, <1>5 DEF ParserAt
<1>8. Continues(f, g)
  BY <1>1, <1>2, <1>4, <1>5 DEF Continues, can_write
<1> QED
  BY <1>3, <1>6, <1>7, <1>8

(* The header: its end, and the Content-Length line, may be anywhere in the *)
(* message, but a line that is cut ends the task.                           *)
LEMMA HeaderStep ==
    ASSUME layout \in Layouts, running \in Partitions, NEW f \in Firms,
           NEW a \in Nat, NEW b \in Nat, a < b, b - a <= OtaSize,
           f.state = "INIT", ParserAt(f, a),
           f.content_len = 0 => ~LengthCut(a, b), ~LineCut(b)
    PROVE  LET g == parse_msg(f, a, b)
           IN  g \in Firms /\ ParserAt(g, b) /\ Continues(f, g) /\ g.state # "RECVED"
<1> DEFINE off == ImageStart(UpdatePartition)
           g == _esp_ota_firm_parse_http(f, a, b)
           h == [g EXCEPT !.state = "PREPARE"]
<1>1. /\ off \in Nat /\ HeaderLen \in Nat /\ HeaderLen >= 6 /\ OtaSize \in Nat
      /\ ContentLen \in Nat \ {0}
  BY UpdatePartitionIsOther, Geometry, OtaAssumption
<1>2. /\ a < HeaderLen /\ f.read_bytes = 0 /\ f.write_bytes = 0
      /\ f.content_len # 0 => a >= 4 /\ f.ota_size = OtaSize /\ f.ota_offset = off
      /\ f.content_len = 0 => a \in {0, 2}
  BY DEF ParserAt
<1>3. /\ g \in Firms /\ g.state = "INIT" /\ g.read_bytes = 0 /\ g.write_bytes = 0
      /\ g.content_len # 0 => b >= 4 /\ g.ota_size = OtaSize /\ g.ota_offset = off
      /\ g.content_len = 0 => a \in {0, 2} /\ ~LengthInside(a, b) /\ f.content_len = 0
  BY <1>1, <1>2, LengthsFound DEF _esp_ota_firm_parse_http, LengthInside
<1>4. g.content_len = 0 => b = 2
  <2>1. SUFFICES ASSUME g.content_len = 0 PROVE b = 2
    OBVIOUS
  <2>2. a \in {0, 2} /\ b < 4 /\ b # 3
    BY <1>3, <2>1 DEF LengthInside, LengthCut
  <2>3. b # 1
    BY <1>1 DEF LineCut
  <2> QED
    BY <2>2, <2>3
<1> HIDE DEF g
<1>5. /\ h \in Firms /\ h.state = "PREPARE" /\ h.read_bytes = 0 /\ h.write_bytes = 0
      /\ h.content_len = g.content_len /\ h.ota_size = g.ota_size
      /\ h.ota_offset = g.ota_offset
  BY <1>3 DEF Firms, ParserStates
<1> HIDE DEF h
<1>6. CASE b < HeaderLen
  <2>1. parse_msg(f, a, b) = g
    BY <1>6 DEF parse_msg, g
  <2>2. ParserAt(g, b)
    BY <1>3, <1>4, <1>6 DEF ParserAt
  <2>3. Continues(f, g)
    BY <1>2, <1>3 DEF Continues, can_write
  <2> QED
    BY <1>3, <2>1, <2>2, <2>3
<1>7. ASSUME b >= HeaderLen PROVE g.content_len # 0 /\ ParserAt(h, HeaderLen)
  BY <1>1, <1>3, <1>4, <1>5, <1>7, HeaderLen >= 4 DEF ParserAt
<1>8. CASE b = HeaderLen
  <2>1. parse_msg(f, a, b) = h
    BY <1>8 DEF parse_msg, g, h
  <2>2. Continues(f, h)
    BY <1>2, <1>5 DEF Continues, can_write
  <2> QED
    BY <1>1, <1>5, <1>7, <1>8, <2>1, <2>2
<1>9. CASE b > HeaderLen
  <2>1. parse_msg(f, a, b) = Prepare(h, HeaderLen, b)
    BY <1>1, <1>9 DEF parse_msg, g, h
  <2>2. b - HeaderLen <= OtaSize
    BY <1>1, <1>2
  <2>3. LET p == Prepare(h, HeaderLen, b)
        IN  p \in Firms /\ ParserAt(p, b) /\ Continues(h, p) /\ p.state # "RECVED"
    BY <1>1, <1>5, <1>7, <1>9, <2>2, PrepareStep
  <2>4. \A p : Continues(h, p) => Continues(f, p)
    BY <1>2, <1>5 DEF Continues
  <2> QED
    BY <2>1, <2>3, <2>4
<1> QED
  BY <1>1, <1>6, <1>8, <1>9

(* esp_ota_firm_parse_msg, in every state in which it consumes a message.   *)
LEMMA ParseStep ==
    ASSUME layout \in Layouts, running \in Partitions, NEW f \in Firms,
           NEW a \in Nat, NEW b \in Nat, a < b, b - a <= OtaSize,
           f.state # "RECVED", ParserAt(f, a),
           f.state = "INIT" => /\ f.content_len = 0 => ~LengthCut(a, b)
                               /\ ~LineCut(b)
    PROVE  LET g == parse_msg(f, a, b)
           IN  g \in Firms /\ ParserAt(g, b) /\ Continues(f, g)
<1>1. CASE f.state = "INIT"
  BY <1>1, HeaderStep
<1>2. CASE f.state = "PREPARE"
  <2>1. parse_msg(f, a, b) = Prepare(f, a, b)
    BY <1>2 DEF parse_msg
  <2> QED
    BY <1>2, <2>1, PrepareStep
<1>3. CASE f.state = "START"
  <2>1. parse_msg(f, a, b) = Start(f, a, b)
    BY <1>3 DEF parse_msg
  <2> QED
    BY <1>3, <2>1, StartStep
<1> QED
  BY <1>1, <1>2, <1>3 DEF Firms, ParserStates

-----------------------------------------------------------------------------
(* Images and what a partition holds.                                       *)
LEMMA PrefixOf ==
    ASSUME NEW S, NEW s \in Seq(S), NEW t \in Seq(S)
    PROVE  IsPrefix(s, t) <=> /\ Len(s) <= Len(t)
                              /\ \A k \in 1 .. Len(s) : s[k] = t[k]
<1>1. Len(s) \in Nat /\ Len(t) \in Nat
  BY LenProperties
<1>2. CASE Len(s) <= Len(t)
  <2>1. /\ \A k \in 1 .. Len(s) : s[k] \in S
        /\ \A k \in 1 .. Len(s) : t[k] \in S
    BY <1>1, <1>2, ElementOfSeq
  <2> DEFINE u == SubSeq(s, 1, Len(s))
             w == SubSeq(t, 1, Len(s))
  <2>2. /\ u \in Seq(S) /\ Len(u) = Len(s)
        /\ \A k \in 1 .. Len(s) : u[k] = s[k]
    BY <1>1, <2>1, SubSeqProperties
  <2>3. /\ w \in Seq(S) /\ Len(w) = Len(s)
        /\ \A k \in 1 .. Len(s) : w[k] = t[k]
    BY <1>1, <2>1, SubSeqProperties
  <2> HIDE DEF u, w
  <2>4. u = w <=> \A k \in 1 .. Len(s) : u[k] = w[k]
    BY <2>2, <2>3, SeqEqual
  <2> QED
    BY <1>2, <2>2, <2>3, <2>4 DEF IsPrefix, u, w
<1>3. CASE ~(Len(s) <= Len(t))
  BY <1>3 DEF IsPrefix
<1> QED
  BY <1>2, <1>3

LEMMA ImageIs ==
    ASSUME layout \in Layouts, NEW p \in Partitions, NEW v \in Nat
    PROVE  /\ Image(v, p) \in Seq(Units) /\ Len(Image(v, p)) = OtaSize
           /\ \A k \in 1 .. OtaSize : Image(v, p)[k] = [v |-> v, i |-> ImageStart(p) + k - 1]
<1>1. ImageStart(p) \in Nat /\ OtaSize \in Nat
  BY Geometry, OtaAssumption
<1>2. \A k \in 1 .. OtaSize : [v |-> v, i |-> ImageStart(p) + k - 1] \in Units
  BY <1>1 DEF Units
<1>3. Image(v, p) \in [1 .. OtaSize -> Units]
  BY <1>2 DEF Image
<1>4. Image(v, p) \in Seq(Units)
  BY <1>1, <1>3, SeqDef
<1>5. Len(Image(v, p)) = OtaSize
  BY <1>1, <1>3, <1>4, LenProperties
<1> QED
  BY <1>4, <1>5 DEF Image

LEMMA HoldsIs ==
    ASSUME layout \in Layouts, flash \in [Partitions -> Seq(Units)],
           NEW p \in Partitions, NEW v \in Nat
    PROVE  Holds(p, v) <=>
             /\ OtaSize <= Len(flash[p])
             /\ \A k \in 1 .. OtaSize : flash[p][k] = [v |-> v, i |-> ImageStart(p) + k - 1]
<1>1. flash[p] \in Seq(Units)
  OBVIOUS
<1>2. /\ Image(v, p) \in Seq(Units) /\ Len(Image(v, p)) = OtaSize
      /\ \A k \in 1 .. OtaSize : Image(v, p)[k] = [v |-> v, i |-> ImageStart(p) + k - 1]
  BY ImageIs
<1>3. IsPrefix(Image(v, p), flash[p]) <=>
        OtaSize <= Len(flash[p]) /\ \A k \in 1 .. OtaSize : Image(v, p)[k] = flash[p][k]
  BY <1>1, <1>2, PrefixOf
<1> QED
  BY <1>2, <1>3 DEF Holds

(* A partition holds the image of one version at most.                      *)
LEMMA HoldsOne ==
    ASSUME layout \in Layouts, flash \in [Partitions -> Seq(Units)],
           NEW p \in Partitions, NEW v \in Nat, NEW w \in Nat, Holds(p, v), Holds(p, w)
    PROVE  v = w
<1>1. 1 \in 1 .. OtaSize
  BY OtaAssumption
<1>2. flash[p][1] = [v |-> v, i |-> ImageStart(p) + 1 - 1]
  BY <1>1, HoldsIs
<1>3. flash[p][1] = [v |-> w, i |-> ImageStart(p) + 1 - 1]
  BY <1>1, HoldsIs
<1> QED
  BY <1>2, <1>3

(* A partition that verifies holds the version that was downloaded to it.   *)
LEMMA VerifiesDownload ==
    ASSUME OtaTypes, DataIsImage(flash[UpdatePartition], firm.write_bytes),
           Verifies(UpdatePartition)
    PROVE  Holds(UpdatePartition, stream.v)
<1>1. UpdatePartition \in Partitions /\ layout \in Layouts
      /\ flash \in [Partitions -> Seq(Units)] /\ OtaSize \in Nat \ {0}
      /\ MaxVersion \in Nat /\ stream.v \in Nat
  BY UpdatePartitionIsOther, OtaAssumption DEF OtaTypes
<1>2. PICK p \in Partitions : p = UpdatePartition
  BY <1>1
<1>3. PICK v \in 1 .. MaxVersion : IsPrefix(Image(v, p), flash[p])
  BY <1>2 DEF Verifies
<1>4. v \in Nat /\ Holds(p, v)
  BY <1>1, <1>3 DEF Holds
<1>5. OtaSize <= Len(flash[p])
      /\ \A k \in 1 .. OtaSize : flash[p][k] = [v |-> v, i |-> ImageStart(p) + k - 1]
  BY <1>1, <1>4, HoldsIs
<1>6. Len(flash[p]) = firm.write_bytes /\ firm.write_bytes \in 0 .. OtaSize
  BY <1>2 DEF DataIsImage
<1>7. \A k \in 1 .. OtaSize : flash[p][k] = [v |-> stream.v, i |-> ImageStart(p) + k - 1]
  BY <1>1, <1>2, <1>5, <1>6 DEF DataIsImage
<1>8. 1 \in 1 .. OtaSize
  BY <1>1
<1>9. v = stream.v
  <2>1. [v |-> v, i |-> ImageStart(p) + 1 - 1] = [v |-> stream.v, i |-> ImageStart(p) + 1 - 1]
    BY <1>5, <1>7, <1>8
  <2> QED
    BY <2>1
<1> QED
  BY <1>2, <1>4, <1>9

(* Writing what the parser hands on continues the image.                    *)
LEMMA WriteContinues ==
    ASSUME layout \in Layouts, running \in Partitions, stream.v \in Nat,
           NEW data \in Seq(Units), NEW f \in Firms, NEW g \in Firms,
           DataIsImage(data, f.write_bytes), Continues(f, g), can_write(g),
           g.write_bytes \in 0 .. OtaSize
    PROVE  data \o Written(g) \in Seq(Units) /\ DataIsImage(data \o Written(g), g.write_bytes)
<1> DEFINE off == ImageStart(UpdatePartition)
           w == Written(g)
           n == f.write_bytes
<1>1. off \in Nat /\ HeaderLen \in Nat /\ OtaSize \in Nat
  BY UpdatePartitionIsOther, Geometry, OtaAssumption
<1>2. /\ Len(data) = n /\ n \in 0 .. OtaSize
      /\ \A k \in 1 .. n : data[k] = [v |-> stream.v, i |-> off + k - 1]
  BY DEF DataIsImage
<1>3. g.bytes \in Nat /\ g.write_bytes = n + g.bytes /\ g.buf = HeaderLen + off + n
  BY DEF Continues
<1>4. w = [k \in 1 .. g.bytes |-> [v |-> stream.v, i |-> off + n + k - 1]]
  <2>1. \A k \in 1 .. g.bytes : g.buf + k - 1 - HeaderLen = off + n + k - 1
    BY <1>1, <1>2, <1>3
  <2> QED
    BY <2>1 DEF Written
<1>5. w \in Seq(Units) /\ Len(w) = g.bytes
  <2>1. \A k \in 1 .. g.bytes : [v |-> stream.v, i |-> off + n + k - 1] \in Units
    BY <1>1, <1>2, <1>3 DEF Units
  <2>2. w \in [1 .. g.bytes -> Units]
    BY <1>4, <2>1
  <2> HIDE DEF w
  <2>3. w \in Seq(Units)
    BY <1>3, <2>2, SeqDef
  <2> QED
    BY <1>3, <2>2, <2>3, LenProperties
<1>6. \A k \in 1 .. g.bytes : w[k] = [v |-> stream.v, i |-> off + n + k - 1]
  BY <1>4
<1> HIDE DEF w
<1>7. /\ data \o w \in Seq(Units) /\ Len(data \o w) = n + g.bytes
      /\ \A k \in 1 .. n + g.bytes : (data \o w)[k] = IF k <= n THEN data[k] ELSE w[k - n]
  <2>1. /\ data \o w \in Seq(Units) /\ Len(data \o w) = Len(data) + Len(w)
        /\ \A k \in 1 .. Len(data) + Len(w) : (data \o w)[k] =
               IF k <= Len(data) THEN data[k] ELSE w[k - Len(data)]
    BY <1>5, ConcatProperties
  <2> QED
    BY <1>2, <1>5, <2>1
<1>8. ASSUME NEW k \in 1 .. n + g.bytes
      PROVE  (data \o w)[k] = [v |-> stream.v, i |-> off + k - 1]
  <2>1. CASE k <= n
    BY <1>2, <1>3, <1>7, <2>1
  <2>2. CASE ~(k <= n)
    <3>0. n \in Nat /\ g.bytes \in Nat /\ off \in Nat
      BY <1>1, <1>2, <1>3
    <3>1. k - n \in 1 .. g.bytes /\ off + n + (k - n) - 1 = off + k - 1
      <4> HIDE DEF n, off
      <4> QED
        BY <1>8, <2>2, <3>0
    <3>2. (data \o w)[k] = w[k - n]
      BY <1>7, <2>2
    <3> QED
      BY <1>6, <3>1, <3>2
  <2> QED
    BY <2>1, <2>2
<1>9. DataIsImage(data \o w, g.write_bytes)
  BY <1>3, <1>7, <1>8 DEF DataIsImage
<1> QED
  BY <1>7, <1>9 DEF w

-----------------------------------------------------------------------------
LEMMA OtaInitInv == OtaInit => OtaInv
<1> SUFFICES ASSUME OtaInit PROVE OtaInv
  OBVIOUS
<1>1. /\ layout \in Layouts /\ published = 1 /\ boot = 0 /\ running = 0 /\ pc = "start"
      /\ stream = [v |-> 1, got |-> 0, open |-> FALSE] /\ firm = firmInit
      /\ flash = [p \in Partitions |-> IF p = 0 THEN Image(1, 0) ELSE <<>>]
  BY DEF OtaInit, Layouts
<1>2. 0 \in Partitions /\ 1 \in Nat /\ 1 \in 1 .. MaxVersion
  BY OtaAssumption DEF Partitions
<1>3. Image(1, 0) \in Seq(Units) /\ <<>> \in Seq(Units)
  BY <1>1, <1>2, ImageIs, EmptySeq
<1>4. flash \in [Partitions -> Seq(Units)]
  BY <1>1, <1>3
<1>5. firm \in Firms
  BY <1>1 DEF firmInit, Firms, ParserStates
<1>6. OtaTypes
  BY <1>1, <1>2, <1>4, <1>5 DEF OtaTypes, Pcs
<1>7. Parsed
  BY <1>1 DEF Parsed, Downloading
<1>8. Holds(boot, 1)
  <2>1. flash[0] = Image(1, 0)
    BY <1>1, <1>2
  <2>2. IsPrefix(Image(1, 0), Image(1, 0))
    BY <1>3, PrefixOf, LenProperties
  <2> QED
    BY <1>1, <2>1, <2>2 DEF Holds
<1>9. Bootable
  BY <1>1, <1>2, <1>8 DEF Bootable, Downloading
<1> QED
  BY <1>6, <1>7, <1>9 DEF OtaInv

(* A step that neither boots nor changes the partition that boots: what     *)
(* boots stays, and the download must not have become older.                *)
LEMMA BootStays ==
    ASSUME OtaInv, UNCHANGED <<layout, boot, running>>, flash'[boot] = flash[boot],
           published' \in 1 .. MaxVersion, published <= published',
           stream'.v <= published', pc' # "restart" \/ pc = "restart",
           pc = "restart" => pc' = "restart",
           pc' = "set_boot" => Verifies(UpdatePartition)',
           \/ pc' \notin {"request", "begin"} \cup Downloading
           \/ stream'.v = published'
           \/ pc \in {"request", "begin"} \cup Downloading /\ stream'.v = stream.v
    PROVE  Bootable'
<1>1. PICK v \in 1 .. published :
         /\ Holds(boot, v)
         /\ pc \in {"request", "begin"} \cup Downloading => v <= stream.v
  BY DEF OtaInv, Bootable
<1>2. published \in Nat /\ published' \in Nat /\ MaxVersion \in Nat
  BY OtaAssumption DEF OtaInv, OtaTypes
<1>3. v \in 1 .. published' /\ v <= published'
  BY <1>1, <1>2
<1>4. Holds(boot, v)'
  BY <1>1 DEF Holds, Image, ImageStart
<1>5. pc' \in {"request", "begin"} \cup Downloading => v <= stream'.v
  BY <1>1, <1>3
<1>6. UpdatePartition' = UpdatePartition
  BY DEF UpdatePartition
<1> QED
  BY <1>3, <1>4, <1>5, <1>6 DEF OtaInv, Bootable

(* The steps that do not touch the flash.                                   *)
LEMMA OtaQuiet ==
    ASSUME OtaInv,
           UNCHANGED <<layout, flash, boot, running, firm>>,
           published' \in 1 .. MaxVersion, published <= published', pc' \in Pcs,
           stream' \in [v : 1 .. MaxVersion, got : Nat, open : BOOLEAN],
           stream'.v <= published', pc = "restart" <=> pc' = "restart",
           \/ pc' \notin {"request", "begin", "crashed"} \cup Downloading
           \/ pc' = pc /\ stream'.v = stream.v /\ stream'.got = stream.got
           \/ pc' = "request" /\ stream'.v = published' /\ stream'.got = 0
           \/ pc = "request" /\ pc' = "begin" /\ stream' = stream
           \/ pc = "recv" /\ pc' = "end" /\ stream'.v = stream.v /\ stream'.got = stream.got
           \/ pc = "end" /\ pc' = "set_boot" /\ stream' = stream /\ Verifies(UpdatePartition)
    PROVE  OtaInv'
<1>1. OtaTypes'
  BY DEF OtaInv, OtaTypes
<1>2. /\ UpdatePartition' = UpdatePartition /\ HeaderLen' = HeaderLen
      /\ \A p : ImageStart(p)' = ImageStart(p)
      /\ \A v, p : Image(v, p)' = Image(v, p)
  BY DEF UpdatePartition, HeaderLen, ImageStart, Image
<1>4. Parsed'
  <2>1. CASE pc' \notin {"request", "begin", "crashed"} \cup Downloading
    BY <2>1 DEF Parsed, Downloading
  <2>2. CASE pc' \in {"request", "begin"}
    BY <2>2 DEF Parsed, Downloading, OtaInv
  <2>3. CASE pc' = "crashed"
    BY <2>3 DEF Parsed, Downloading, OtaInv
  <2>4. CASE pc' \in Downloading
    <3>1. pc \in Downloading /\ stream'.v = stream.v /\ stream'.got = stream.got
          /\ (pc' = "recv" => pc = "recv")
      BY <2>4 DEF Downloading
    <3>2. ParserAt(firm, stream.got) /\ DataIsImage(flash[UpdatePartition], firm.write_bytes)
          /\ (pc' = "recv" => firm.state # "RECVED")
      BY <3>1 DEF OtaInv, Parsed
    <3>3. ParserAt(firm, stream.got)'
      BY <1>2, <3>1, <3>2 DEF ParserAt
    <3>4. DataIsImage(flash[UpdatePartition], firm.write_bytes)'
      BY <1>2, <3>1, <3>2 DEF DataIsImage
    <3> QED
      BY <2>4, <3>2, <3>3, <3>4 DEF Parsed, Downloading
  <2> QED
    BY <2>1, <2>2, <2>3, <2>4
<1>5. Verifies(UpdatePartition)' = Verifies(UpdatePartition)
  BY <1>2 DEF Verifies
<1>6. Bootable'
  <2>1. pc' = "set_boot" => Verifies(UpdatePartition)'
    BY <1>5 DEF OtaInv, Bootable, Downloading
  <2>2. \/ pc' \notin {"request", "begin"} \cup Downloading
        \/ stream'.v = published'
        \/ pc \in {"request", "begin"} \cup Downloading /\ stream'.v = stream.v
    BY DEF Downloading
  <2> QED
    BY <2>1, <2>2, BootStays
<1> QED
  BY <1>1, <1>4, <1>6 DEF OtaInv

(* The task up to the download, and its ways out.                           *)
LEMMA OtaTaskInv ==
    ASSUME OtaInv,
           app_main \/ Connected \/ connect_to_http_server \/ SendRequest \/ Closed
             \/ ReceiveFails \/ End \/ Publish \/ (StationNext /\ UNCHANGED otaVars)
    PROVE  OtaInv'
<1>0. /\ published \in 1 .. MaxVersion /\ MaxVersion \in Nat /\ stream.v <= published
      /\ stream \in [v : 1 .. MaxVersion, got : Nat, open : BOOLEAN] /\ pc \in Pcs
  BY OtaAssumption DEF OtaInv, OtaTypes, Bootable
<1> USE DEF Pcs, Downloading
<1>1. ASSUME task_fatal_error, UNCHANGED <<layout, published, flash, boot, running, firm>>,
             pc # "restart"
      PROVE  OtaInv'
  <2>1. pc' = "deleted" /\ stream' \in [v : 1 .. MaxVersion, got : Nat, open : BOOLEAN]
        /\ stream'.v = stream.v
    BY <1>0, <1>1 DEF task_fatal_error
  <2> QED
    BY <1>0, <1>1, <2>1, OtaQuiet
<1>2. CASE app_main \/ Connected
  BY <1>0, <1>2, OtaQuiet DEF app_main, Connected
<1>3. ASSUME connect_to_http_server, ~task_fatal_error PROVE OtaInv'
  <2>1. /\ pc = "socket" /\ pc' = "request"
        /\ stream' = [v |-> published, got |-> 0, open |-> TRUE]
        /\ UNCHANGED <<layout, published, flash, boot, running, firm>>
    BY <1>3 DEF connect_to_http_server
  <2>2. stream' \in [v : 1 .. MaxVersion, got : Nat, open : BOOLEAN]
        /\ stream'.v = published /\ stream'.got = 0
    BY <1>0, <2>1
  <2> QED
    BY <1>0, <2>1, <2>2, OtaQuiet
<1>4. ASSUME SendRequest, ~task_fatal_error PROVE OtaInv'
  BY <1>0, <1>4, OtaQuiet DEF SendRequest
<1>5. CASE Closed
  <2>1. /\ pc = "recv" /\ pc' = "end"
        /\ stream' = [stream EXCEPT !.open = FALSE]
        /\ UNCHANGED <<layout, published, flash, boot, running, firm>>
    BY <1>5 DEF Closed
  <2>2. stream' \in [v : 1 .. MaxVersion, got : Nat, open : BOOLEAN]
        /\ stream'.v = stream.v /\ stream'.got = stream.got
    BY <1>0, <2>1
  <2> QED
    BY <1>0, <2>1, <2>2, OtaQuiet
<1>6. ASSUME End, ~task_fatal_error PROVE OtaInv'
  BY <1>0, <1>6, OtaQuiet DEF End
<1>7. CASE Publish
  BY <1>0, <1>7, OtaQuiet DEF Publish
<1>8. CASE StationNext /\ UNCHANGED otaVars
  BY <1>0, <1>8, OtaQuiet DEF otaVars
<1>9. ASSUME connect_to_http_server \/ SendRequest \/ ReceiveFails \/ End, task_fatal_error
      PROVE  OtaInv'
  BY <1>1, <1>9 DEF connect_to_http_server, SendRequest, ReceiveFails, End
<1>10. CASE ReceiveFails
  BY <1>9, <1>10 DEF ReceiveFails
<1> QED
  BY <1>2, <1>3, <1>4, <1>5, <1>6, <1>7, <1>8, <1>9, <1>10

(* esp_ota_begin() erases the other partition.                              *)
LEMMA BeginInv ==
    ASSUME OtaInv, Begin
    PROVE  OtaInv'
<1>0. /\ published \in 1 .. MaxVersion /\ MaxVersion \in Nat /\ stream.v <= published
      /\ stream \in [v : 1 .. MaxVersion, got : Nat, open : BOOLEAN]
      /\ flash \in [Partitions -> Seq(Units)] /\ boot \in Partitions /\ running = boot
      /\ pc = "begin" /\ UNCHANGED <<layout, published, boot, running>> /\ stream.got = 0
      /\ layout \in Layouts
  BY OtaAssumption DEF OtaInv, OtaTypes, Bootable, Begin, Parsed
<1>1. CASE task_fatal_error /\ UNCHANGED <<flash, firm>>
  <2>1. pc' = "deleted" /\ stream' \in [v : 1 .. MaxVersion, got : Nat, open : BOOLEAN]
        /\ stream'.v = stream.v
    BY <1>0, <1>1 DEF task_fatal_error
  <2> QED
    BY <1>0, <1>1, <2>1, OtaQuiet DEF Pcs, Downloading
<1>2. CASE /\ flash' = [flash EXCEPT ![UpdatePartition] = <<>>]
           /\ firm' = firmInit /\ pc' = "recv" /\ UNCHANGED stream
  <2>1. UpdatePartition \in Partitions /\ UpdatePartition # boot
        /\ UpdatePartition' = UpdatePartition
    BY <1>0, UpdatePartitionIsOther DEF UpdatePartition
  <2>2. <<>> \in Seq(Units) /\ Len(<<>>) = 0
    BY EmptySeq
  <2>3. flash' \in [Partitions -> Seq(Units)] /\ flash'[UpdatePartition] = <<>>
        /\ flash'[boot] = flash[boot]
    BY <1>0, <1>2, <2>1, <2>2
  <2>4. firm' \in Firms /\ firm'.state = "INIT" /\ firm'.content_len = 0
        /\ firm'.read_bytes = 0 /\ firm'.write_bytes = 0
    BY <1>2 DEF firmInit, Firms, ParserStates
  <2>5. OtaTypes'
    BY <1>0, <1>2, <2>3, <2>4 DEF OtaTypes, OtaInv, Pcs, Downloading
  <2>6. HeaderLen \in Nat /\ HeaderLen >= 6
    BY <1>0, Geometry
  <2>7. Parsed'
    <3>1. ParserAt(firm, stream.got)'
      BY <1>0, <1>2, <2>4, <2>6 DEF ParserAt, HeaderLen
    <3>2. DataIsImage(flash[UpdatePartition], firm.write_bytes)'
      BY <2>1, <2>2, <2>3, <2>4, OtaAssumption DEF DataIsImage
    <3> QED
      BY <1>2, <2>4, <3>1, <3>2 DEF Parsed
  <2>8. Bootable'
    BY <1>0, <1>2, <2>3, BootStays DEF Downloading
  <2> QED
    BY <2>5, <2>7, <2>8 DEF OtaInv
<1> QED
  BY <1>1, <1>2 DEF Begin

(* esp_ota_set_boot_partition() after esp_ota_end(): the new partition is   *)
(* complete, and of the version that was served.                            *)
LEMMA SetBootInv ==
    ASSUME OtaInv, SetBoot
    PROVE  OtaInv'
<1>0. /\ published \in 1 .. MaxVersion /\ MaxVersion \in Nat /\ stream.v <= published
      /\ stream \in [v : 1 .. MaxVersion, got : Nat, open : BOOLEAN]
      /\ pc = "set_boot" /\ UNCHANGED <<layout, published, flash, running, firm>>
      /\ OtaTypes /\ Verifies(UpdatePartition)
  BY OtaAssumption DEF OtaInv, OtaTypes, Bootable, SetBoot
<1>1. CASE task_fatal_error /\ UNCHANGED boot
  <2>1. pc' = "deleted" /\ stream' \in [v : 1 .. MaxVersion, got : Nat, open : BOOLEAN]
        /\ stream'.v = stream.v
    BY <1>0, <1>1 DEF task_fatal_error
  <2> QED
    BY <1>0, <1>1, <2>1, OtaQuiet DEF Pcs, Downloading
<1>2. CASE boot' = UpdatePartition /\ pc' = "restart" /\ UNCHANGED stream
  <2>1. UpdatePartition \in Partitions /\ UpdatePartition' = UpdatePartition
    BY <1>0, UpdatePartitionIsOther DEF UpdatePartition, OtaTypes
  <2>2. OtaTypes'
    BY <1>0, <1>2, <2>1 DEF OtaTypes, Pcs, Downloading
  <2>3. ParserAt(firm, stream.got) /\ DataIsImage(flash[UpdatePartition], firm.write_bytes)
    BY <1>0 DEF OtaInv, Parsed, Downloading
  <2>4. ParserAt(firm, stream.got)'
    BY <1>0, <1>2, <2>1, <2>3 DEF ParserAt, HeaderLen, ImageStart
  <2>5. DataIsImage(flash[UpdatePartition], firm.write_bytes)'
    BY <1>0, <1>2, <2>1, <2>3 DEF DataIsImage, ImageStart
  <2>6. Parsed'
    BY <1>2, <2>4, <2>5 DEF Parsed
  <2>7. Holds(UpdatePartition, stream.v)
    BY <1>0, <2>3, VerifiesDownload
  <2>8. Holds(boot, stream.v)'
    BY <1>0, <1>2, <2>7 DEF Holds, Image, ImageStart
  <2>9. stream'.v \in 1 .. published' /\ stream'.v <= stream'.v
    BY <1>0, <1>2
  <2>10. Bootable'
    BY <1>0, <1>2, <2>1, <2>8, <2>9 DEF Bootable
  <2> QED
    BY <2>2, <2>6, <2>10 DEF OtaInv
<1> QED
  BY <1>1, <1>2 DEF SetBoot

(* The bootloader, after a restart or a loss of power.                      *)
LEMMA BootInv ==
    ASSUME OtaInv, Boot
    PROVE  OtaInv'
<1>1. /\ running' = boot /\ pc' = "start" /\ firm' = firmInit
      /\ stream' = [v |-> 1, got |-> 0, open |-> FALSE]
      /\ UNCHANGED <<layout, published, flash, boot>>
  BY DEF Boot
<1>2. published \in 1 .. MaxVersion /\ MaxVersion \in Nat
  BY OtaAssumption DEF OtaInv, OtaTypes
<1>3. firm' \in Firms
  BY <1>1 DEF firmInit, Firms, ParserStates
<1>4. stream' \in [v : 1 .. MaxVersion, got : Nat, open : BOOLEAN] /\ stream'.v <= published'
  BY <1>1, <1>2
<1>5. OtaTypes'
  BY <1>1, <1>3, <1>4 DEF OtaInv, OtaTypes, Pcs
<1>6. Parsed'
  BY <1>1 DEF Parsed, Downloading
<1>7. PICK v \in 1 .. published : Holds(boot, v)
  BY DEF OtaInv, Bootable
<1>8. Holds(boot, v)'
  BY <1>1, <1>7 DEF Holds, Image, ImageStart
<1>9. Bootable'
  BY <1>1, <1>4, <1>7, <1>8 DEF Bootable, Downloading
<1> QED
  BY <1>5, <1>6, <1>9 DEF OtaInv

(* A message of n units: it kills the task, or the parser goes on and what  *)
(* it hands over is written.                                                *)
LEMMA ReceiveInv ==
    ASSUME OtaInv, NEW n \in 1 .. TextBuffSize, Receive(n)
    PROVE  OtaInv'
<1> DEFINE a == stream.got
           b == stream.got + n
           f == parse_msg(firm, a, b)
<1>0. /\ published \in 1 .. MaxVersion /\ MaxVersion \in Nat /\ stream.v <= published
      /\ stream \in [v : 1 .. MaxVersion, got : Nat, open : BOOLEAN]
      /\ flash \in [Partitions -> Seq(Units)] /\ boot \in Partitions /\ running = boot
      /\ layout \in Layouts /\ firm \in Firms
      /\ UNCHANGED <<layout, published, boot, running>> /\ pc = "recv"
  BY OtaAssumption DEF OtaInv, OtaTypes, Bootable, Receive
<1>1. /\ a \in Nat /\ b \in Nat /\ a < b /\ b - a <= OtaSize /\ firm.state # "RECVED"
      /\ ParserAt(firm, a) /\ DataIsImage(flash[UpdatePartition], firm.write_bytes)
  BY <1>0, OtaAssumption DEF OtaInv, Parsed, Downloading
<1>2. ~Spins(firm) /\ ~Wraps(firm)
  <2>1. ~Spins(firm)
    BY <1>0, <1>1 DEF Spins, Firms, ParserStates
  <2>2. ASSUME firm.state = "START"
        PROVE  firm.ota_size = OtaSize /\ firm.write_bytes \in 0 .. OtaSize
    BY <1>1, <2>2 DEF ParserAt
  <2>3. ~Wraps(firm)
    BY <2>2, OtaAssumption DEF Wraps
  <2> QED
    BY <2>1, <2>3
<1>3. stream' = [stream EXCEPT !.got = b, !.open = pc' # "deleted"]
  BY DEF Receive
<1>4. /\ stream' \in [v : 1 .. MaxVersion, got : Nat, open : BOOLEAN]
      /\ stream'.v = stream.v /\ stream'.got = b
  <2>1. (pc' # "deleted") \in BOOLEAN
    OBVIOUS
  <2> QED
    BY <1>0, <1>1, <1>3, <2>1
<1>5. CASE pc' \in {"crashed", "deleted"}
  <2>1. pc' = "crashed" => firm.state = "INIT"
    BY <1>2, <1>5 DEF Receive
  <2>2. UNCHANGED <<firm, flash>>
    BY <1>5 DEF Receive
  <2>3. OtaTypes'
    BY <1>0, <1>4, <1>5, <2>2 DEF OtaTypes, OtaInv, Pcs
  <2>4. Parsed'
    BY <1>5, <2>1, <2>2 DEF Parsed, Downloading
  <2>5. Bootable'
    BY <1>0, <1>4, <1>5, <2>2, BootStays DEF Downloading
  <2> QED
    BY <2>3, <2>4, <2>5 DEF OtaInv
<1>6. CASE pc' \notin {"crashed", "deleted"}
  <2>1. /\ pc' = IF can_write(f) /\ is_finished(f) THEN "end" ELSE "recv"
        /\ firm.state = "INIT" => /\ firm.content_len = 0 => ~LengthCut(a, b)
                                  /\ LengthCut(a, b) \/ ~LineCut(b)
    BY <1>2, <1>6 DEF Receive
  <2>2. firm.state = "INIT" => /\ firm.content_len = 0 => ~LengthCut(a, b)
                               /\ ~LineCut(b)
    BY <1>1, <2>1 DEF ParserAt, LengthCut
  <2>3. /\ firm' = f
        /\ flash' = IF can_write(f)
                    THEN [flash EXCEPT ![UpdatePartition] = @ \o Written(f)] ELSE flash
    BY <2>1 DEF Receive
  <2>4. running \in Partitions
    BY <1>0
  <2>5. f \in Firms /\ ParserAt(f, b) /\ Continues(firm, f)
    BY <1>0, <1>1, <2>2, <2>4, ParseStep
  <2> HIDE DEF f
  <2>6. UpdatePartition \in Partitions /\ UpdatePartition # boot
        /\ UpdatePartition' = UpdatePartition
    BY <1>0, UpdatePartitionIsOther DEF UpdatePartition
  <2>7. can_write(f) => f.write_bytes \in 0 .. OtaSize
    BY <2>5, OtaAssumption DEF ParserAt, can_write
  <2>8. /\ flash' \in [Partitions -> Seq(Units)]
        /\ DataIsImage(flash'[UpdatePartition], f.write_bytes)
        /\ flash'[boot] = flash[boot]
    <3>1. CASE can_write(f)
      <4>1. flash[UpdatePartition] \in Seq(Units) /\ stream.v \in Nat
        BY <1>0, <2>6
      <4>2. /\ flash[UpdatePartition] \o Written(f) \in Seq(Units)
            /\ DataIsImage(flash[UpdatePartition] \o Written(f), f.write_bytes)
        BY <1>0, <1>1, <2>4, <2>5, <2>7, <3>1, <4>1, WriteContinues
      <4> QED
        BY <1>0, <2>3, <2>6, <3>1, <4>2
    <3>2. CASE ~can_write(f)
      BY <1>0, <1>1, <2>3, <2>5, <3>2 DEF Continues
    <3> QED
      BY <3>1, <3>2
  <2>9. OtaTypes'
    BY <1>0, <1>4, <2>1, <2>3, <2>5, <2>8 DEF OtaTypes, Pcs, Downloading
  <2>10. Parsed'
    <3>1. ParserAt(firm, stream.got)'
      BY <1>0, <1>4, <2>3, <2>5, <2>6 DEF ParserAt, HeaderLen, ImageStart
    <3>2. DataIsImage(flash[UpdatePartition], firm.write_bytes)'
      BY <1>0, <1>4, <2>3, <2>6, <2>8 DEF DataIsImage, ImageStart
    <3>3. pc' = "recv" => firm'.state # "RECVED"
      BY <2>1, <2>3 DEF can_write, is_finished
    <3> QED
      BY <2>1, <3>1, <3>2, <3>3 DEF Parsed
  <2>11. Bootable'
    BY <1>0, <1>4, <2>1, <2>8, BootStays DEF Downloading
  <2> QED
    BY <2>9, <2>10, <2>11 DEF OtaInv
<1> QED
  BY <1>5, <1>6

LEMMA OtaStep == OtaInv /\ [OtaNext]_otaAllVars => OtaInv'
<1> SUFFICES ASSUME OtaInv, [OtaNext]_otaAllVars PROVE OtaInv'
  OBVIOUS
<1>1. CASE UNCHANGED otaAllVars
  <2>1. /\ published \in 1 .. MaxVersion /\ MaxVersion \in Nat /\ stream.v <= published
        /\ stream \in [v : 1 .. MaxVersion, got : Nat, open : BOOLEAN] /\ pc \in Pcs
    BY OtaAssumption DEF OtaInv, OtaTypes, Bootable
  <2> QED
    BY <1>1, <2>1, OtaQuiet DEF otaAllVars, otaVars
<1> QED
  BY <1>1, OtaTaskInv, BeginInv, ReceiveInv, SetBootInv, BootInv
     DEF OtaNext, Restart, PowerLoss

(* The inductive invariant of the update: the parser's place in the stream, *)
(* what is written so far, and complete images in the partitions that boot. *)
THEOREM OtaInvariant == OtaSpec => []OtaInv
  BY OtaInitInv, OtaStep, PTL DEF OtaSpec

(* esp_ota_firm_parse_msg keeps exactly the image of the partition it       *)
(* updates, wherever recv() cuts the stream and whatever the sizes: what is *)
(* written is a prefix of the image, and all of it once the parser says     *)
(* RECVED or the file has come.  It never loops for ever and crashes on a   *)
(* Content-Length line that is cut in two only.                             *)
THEOREM OtaWritesImage == OtaSpec => []WrittenIsImage
<1>1. ASSUME OtaInv PROVE WrittenIsImage
  <2>1. pc # "spin" /\ (pc = "crashed" => firm.state = "INIT")
    BY <1>1 DEF OtaInv, OtaTypes, Pcs, Downloading, Parsed
  <2>2. ASSUME pc \in Downloading
        PROVE  /\ IsPrefix(flash[UpdatePartition], Image(stream.v, UpdatePartition))
               /\ is_finished(firm) \/ stream.got = StreamLen =>
                    flash[UpdatePartition] = Image(stream.v, UpdatePartition)
    <3> DEFINE off == ImageStart(UpdatePartition)
    <3>1. /\ UpdatePartition \in Partitions /\ layout \in Layouts /\ stream.v \in Nat
          /\ flash \in [Partitions -> Seq(Units)] /\ OtaSize \in Nat \ {0}
          /\ firm \in Firms /\ stream.got \in Nat
      BY <1>1, UpdatePartitionIsOther, OtaAssumption DEF OtaInv, OtaTypes
    <3>2. ParserAt(firm, stream.got) /\ DataIsImage(flash[UpdatePartition], firm.write_bytes)
      BY <1>1, <2>2 DEF OtaInv, Parsed
    <3>3. PICK data \in Seq(Units), image \in Seq(Units) :
            /\ data = flash[UpdatePartition] /\ image = Image(stream.v, UpdatePartition)
            /\ Len(data) = firm.write_bytes /\ Len(data) <= OtaSize /\ Len(image) = OtaSize
            /\ \A k \in 1 .. Len(data) : data[k] = image[k]
      <4>1. flash[UpdatePartition] \in Seq(Units)
        BY <3>1
      <4>2. /\ Image(stream.v, UpdatePartition) \in Seq(Units)
            /\ Len(Image(stream.v, UpdatePartition)) = OtaSize
            /\ \A k \in 1 .. OtaSize : Image(stream.v, UpdatePartition)[k]
                 = [v |-> stream.v, i |-> off + k - 1]
        BY <3>1, ImageIs
      <4>3. /\ Len(flash[UpdatePartition]) = firm.write_bytes
            /\ firm.write_bytes \in 0 .. OtaSize
            /\ \A k \in 1 .. firm.write_bytes :
                 flash[UpdatePartition][k] = [v |-> stream.v, i |-> off + k - 1]
        BY <3>2 DEF DataIsImage
      <4>4. \A k \in 1 .. firm.write_bytes :
               flash[UpdatePartition][k] = Image(stream.v, UpdatePartition)[k]
        <5> TAKE k \in 1 .. firm.write_bytes
        <5>1. k \in 1 .. OtaSize
          BY <3>1, <4>3
        <5> QED
          BY <4>2, <4>3, <5>1
      <4> QED
        BY <3>1, <4>1, <4>2, <4>3, <4>4
    <3>4. IsPrefix(data, image)
      BY <3>3, PrefixOf
    <3>5. ASSUME is_finished(firm) \/ stream.got = StreamLen
          PROVE  firm.write_bytes = OtaSize
      <4>1. /\ off \in Nat /\ ContentLen \in Nat \ {0} /\ off + OtaSize <= ContentLen
            /\ HeaderLen \in Nat /\ StreamLen = HeaderLen + ContentLen
        BY <3>1, Geometry
      <4>2. CASE is_finished(firm)
        BY <3>1, <3>2, <4>2 DEF is_finished, Firms, ParserStates, ParserAt
      <4>3. CASE stream.got = StreamLen /\ firm.state = "START"
        <5>1. firm.content_len # 0 /\ firm.write_bytes = stream.got - HeaderLen - off
              /\ firm.write_bytes <= OtaSize
          BY <3>1, <3>2, <4>3 DEF ParserAt
        <5>2. ContentLen - off <= OtaSize /\ firm.write_bytes = ContentLen - off
          BY <4>1, <4>3, <5>1
        <5> QED
          BY <3>1, <5>2, WholeFile
      <4>4. CASE stream.got = StreamLen /\ firm.state \in {"INIT", "PREPARE"}
        BY <3>1, <3>2, <4>1, <4>4 DEF ParserAt
      <4> QED
        BY <3>1, <3>5, <4>2, <4>3, <4>4 DEF is_finished, Firms, ParserStates
    <3>6. firm.write_bytes = OtaSize => data = image
      BY <3>3, SeqEqual
    <3> QED
      BY <3>3, <3>4, <3>5, <3>6
  <2> QED
    BY <2>1, <2>2 DEF WrittenIsImage, Downloading
<1> QED
  BY <1>1, OtaInvariant, PTL
-----------------------------------------------------------------------------
(* The refinement.                                                          *)
LEMMA InstalledIs ==
    ASSUME OtaTypes, NEW v \in 1 .. MaxVersion, Holds(boot, v)
    PROVE  Installed = v
<1> DEFINE whole == {w \in 1 .. MaxVersion : IsPrefix(Image(w, boot), flash[boot])}
<1>1. MaxVersion \in Nat
  BY OtaAssumption
<1>2. v \in whole
  BY DEF Holds
<1>3. \A w \in whole : w = v
  <2>1. SUFFICES ASSUME NEW w \in whole PROVE w = v
    OBVIOUS
  <2>2. Holds(boot, w) /\ w \in Nat /\ v \in Nat
    BY <1>1, <2>1 DEF Holds
  <2> QED
    BY <2>2, HoldsOne DEF OtaTypes
<1> QED
  BY <1>2, <1>3 DEF Installed

InstalledUnique ==
    \A v \in 1 .. MaxVersion : OtaTypes /\ Holds(boot, v) => Installed = v

LEMMA InstalledIsUnique == InstalledUnique
  BY InstalledIs DEF InstalledUnique

LEMMA InitIsInstalled == OtaInit => Update!Init
<1> SUFFICES ASSUME OtaInit PROVE Installed = 1
  BY DEF Update!Init
<1>1. OtaTypes /\ published = 1
  BY OtaInitInv DEF OtaInv, OtaInit
<1>2. PICK v \in 1 .. published : Holds(boot, v)
  BY OtaInitInv DEF OtaInv, Bootable
<1>3. v = 1 /\ v \in 1 .. MaxVersion
  BY <1>1, <1>2, OtaAssumption
<1> QED
  BY <1>1, <1>2, <1>3, InstalledIs

(* Every step is an update to a version that is not older, or none.         *)
LEMMA StepIsUpdate ==
    OtaInv /\ OtaInv' /\ [OtaNext]_otaAllVars => [Update!Update]_Installed
<1> SUFFICES ASSUME OtaInv, OtaInv', [OtaNext]_otaAllVars
             PROVE  Update!Update \/ Installed' = Installed
  OBVIOUS
<1>1. PICK v \in 1 .. published :
         /\ Holds(boot, v)
         /\ pc \in {"request", "begin"} \cup Downloading => v <= stream.v
  BY DEF OtaInv, Bootable
<1>2. /\ published \in 1 .. MaxVersion /\ MaxVersion \in Nat /\ stream.v \in 1 .. MaxVersion
      /\ OtaTypes /\ OtaTypes'
  BY OtaAssumption DEF OtaInv, OtaTypes
<1>3. v \in 1 .. MaxVersion
  BY <1>1, <1>2
<1>4. Installed = v
  BY <1>1, <1>2, <1>3, InstalledIs
<1>5. ASSUME UNCHANGED <<layout, boot>>, flash'[boot] = flash[boot] PROVE Installed' = Installed
  BY <1>5 DEF Installed, Image, ImageStart
<1>6. CASE SetBoot /\ boot' = UpdatePartition /\ pc' = "restart"
  <2>1. Holds(UpdatePartition, stream.v)
    BY <1>2, <1>6, VerifiesDownload DEF SetBoot, OtaInv, Bootable, Parsed, Downloading
  <2>2. Holds(boot, stream.v)'
    BY <1>6, <2>1 DEF Holds, Image, ImageStart, SetBoot, task_fatal_error
  <2>3. PICK w \in 1 .. MaxVersion : w = stream.v /\ w = stream'.v /\ v <= w
    BY <1>1, <1>2, <1>6 DEF SetBoot, Downloading, task_fatal_error
  <2>4. Holds(boot, w)'
    BY <2>2, <2>3
  <2>5. Installed' = w
    <3>1. InstalledUnique'
      BY InstalledIsUnique, PTL
    <3> QED
      BY <1>2, <2>3, <2>4, <3>1 DEF InstalledUnique
  <2>6. w \in v .. MaxVersion
    BY <1>2, <1>3, <2>3
  <2> QED
    BY <1>4, <2>5, <2>6 DEF Update!Update
<1>7. CASE SetBoot /\ boot' = boot
  BY <1>5, <1>7 DEF SetBoot
<1>8. CASE Begin \/ \E n \in 1 .. TextBuffSize : Receive(n)
  <2>1. running = boot /\ running \in Partitions /\ flash \in [Partitions -> Seq(Units)]
    BY <1>8 DEF OtaInv, Bootable, OtaTypes, Begin, Receive
  <2>2. UpdatePartition # boot
    BY <2>1, UpdatePartitionIsOther
  <2>3. flash' = flash \/ \E d : flash' = [flash EXCEPT ![UpdatePartition] = d]
    BY <1>8 DEF Begin, Receive
  <2>4. flash'[boot] = flash[boot] /\ UNCHANGED <<layout, boot>>
    BY <1>8, <2>1, <2>2, <2>3 DEF Begin, Receive
  <2> QED
    BY <1>5, <2>4
<1>9. CASE Restart \/ PowerLoss
  BY <1>5, <1>9 DEF Restart, PowerLoss, Boot
<1>10. CASE app_main \/ Connected \/ connect_to_http_server \/ SendRequest \/ Closed
            \/ ReceiveFails \/ End \/ Publish \/ (StationNext /\ UNCHANGED otaVars)
            \/ UNCHANGED otaAllVars
  BY <1>5, <1>10 DEF app_main, Connected, connect_to_http_server, SendRequest, Closed,
     ReceiveFails, End, Publish, otaVars, otaAllVars
<1> QED
  BY <1>6, <1>7, <1>8, <1>9, <1>10 DEF OtaNext, SetBoot

(* ota_example_task implements AtomicUpdate: through loss of power at any   *)
(* moment, early close, and failed calls in any order the partition that    *)
(* boots holds a complete image, and only a complete image of a version     *)
(* that is not older takes its place.                                       *)
THEOREM OtaIsAtomic == OtaSpec => UpdateIsAtomic
  BY InitIsInstalled, StepIsUpdate, OtaInvariant, PTL DEF OtaSpec, UpdateIsAtomic, Update!Spec

--------------------------------------------------------------------------------
ProvEvents == Reasons \cup {"STA_START", "GOT_IP"}

(* The types of the variables that matter.                                  *)
ProvTypes ==
    /\ mode \in {"start", "prov", "sta"}
    /\ stored \in Configs \cup {"none"}
    /\ g_prov \in [ptr : {"null", "live", "dangling"},
                   wifi_state : {"CONNECTING", "CONNECTED", "DISCONNECTED"},
                   timer : {"none", "created", "armed"}]
    /\ service \in BOOLEAN /\ handlers \in BOOLEAN /\ overtaken \in BOOLEAN
    /\ ctx \in Configs \cup {"none"}
    /\ http \in {"idle", "started"}
    /\ stopTask \in {"none", "stop_service", "unregister", "delete_timer", "free", "null"}
    /\ sta \in {"off", "idle", "connecting", "up"}
    /\ posted \in Seq(ProvEvents)
    /\ applies \in Nat

(* What stop_prov_task has taken down at each of its steps.  Its timer is   *)
(* what starts it, so it must be gone before the data it stands for.        *)
Teardown ==
    /\ service \/ handlers => mode = "prov" /\ g_prov.ptr = "live"
    /\ service => handlers
    /\ http = "started" => service
    /\ stopTask \in {"unregister", "delete_timer", "free", "null"} => ~service
    /\ stopTask \in {"delete_timer", "free", "null"} => ~handlers
    /\ stopTask \in {"stop_service", "unregister", "delete_timer", "free"} =>
         g_prov.ptr = "live"
    /\ stopTask = "null" <=> g_prov.ptr = "dangling"
    /\ stopTask \in {"free", "null"} => g_prov.timer = "none"
    /\ g_prov.timer # "none" => g_prov.ptr = "live"
    /\ mode = "start" => g_prov = NoProv /\ stopTask = "none" /\ sta = "off" /\ posted = <<>>

(* Before the first request the driver is off.                              *)
NotApplied ==
    /\ stored = "none" => applies = 0
    /\ mode = "prov" /\ applies = 0 =>
         sta = "off" /\ posted = <<>> /\ http = "idle"

LastPosted == posted[Len(posted)]

(* After the first request the newest event that is not handled says what   *)
(* the driver does; once all are handled, wifi_state does.                  *)
Pending ==
    mode = "prov" /\ applies = 1 /\ ~overtaken =>
      /\ \A i \in 1 .. Len(posted) : posted[i] = "OTHER" => i = Len(posted)
      /\ posted # <<>> =>
           /\ LastPosted = "STA_START" => sta = "connecting"
           /\ LastPosted = "GOT_IP" => sta = "up"
           /\ LastPosted \in Reasons => sta = "idle"
      /\ http = "started" => posted # <<>>
      /\ posted = <<>> /\ handlers =>
           /\ g_prov.wifi_state = "CONNECTED" <=> sta = "up"
           /\ g_prov.wifi_state = "DISCONNECTED" => sta = "idle"

ProvInv == ProvTypes /\ Teardown /\ NotApplied /\ Pending
-----------------------------------------------------------------------------
LEMMA ProvInitInv == ProvInit => ProvInv
<1> SUFFICES ASSUME ProvInit PROVE ProvInv
  OBVIOUS
<1> USE DEF ProvInit, NoProv
<1>1. posted \in Seq(ProvEvents) /\ Len(posted) = 0
  BY EmptySeq
<1>2. ProvTypes
  BY <1>1 DEF ProvTypes, Configs
<1>3. Teardown /\ NotApplied /\ Pending
  BY <1>1 DEF Teardown, NotApplied, Pending
<1> QED
  BY <1>2, <1>3 DEF ProvInv

(* The events that are handled are taken from the head of the queue.        *)
LEMMA TailOf ==
    ASSUME NEW S, NEW q \in Seq(S), q # <<>>
    PROVE  /\ Tail(q) \in Seq(S) /\ Head(q) \in S /\ Head(q) = q[1]
           /\ Len(q) \in Nat \ {0} /\ Len(Tail(q)) = Len(q) - 1
           /\ \A i \in 1 .. Len(Tail(q)) : Tail(q)[i] = q[i + 1]
           /\ Tail(q) = <<>> <=> Len(q) = 1
<1>1. /\ Tail(q) \in Seq(S) /\ Head(q) \in S /\ Len(Tail(q)) = Len(q) - 1
      /\ \A i \in 1 .. Len(Tail(q)) : Tail(q)[i] = q[i + 1]
  BY HeadTailProperties
<1>2. Head(q) = q[1]
  OBVIOUS
<1>3. Len(q) \in Nat \ {0} /\ (Tail(q) # <<>> => Len(Tail(q)) \in Nat \ {0})
  BY <1>1, EmptySeq
<1>4. Tail(q) = <<>> => Len(Tail(q)) = 0
  BY EmptySeq
<1> QED
  BY <1>1, <1>2, <1>3, <1>4

LEMMA AppendTo ==
    ASSUME NEW S, NEW q \in Seq(S), NEW e \in S
    PROVE  /\ Append(q, e) \in Seq(S) /\ Len(q) \in Nat /\ Len(Append(q, e)) = Len(q) + 1
           /\ Append(q, e) # <<>> /\ Append(q, e)[Len(q) + 1] = e
           /\ \A i \in 1 .. Len(q) : Append(q, e)[i] = q[i]
  BY EmptySeq, AppendProperties

LEMMA OneOf ==
    ASSUME NEW S, NEW e \in S
    PROVE  <<e>> \in Seq(S) /\ Len(<<e>>) = 1 /\ <<e>>[1] = e /\ <<e>> # <<>>
  BY EmptySeq

LEMMA ProvMainInv == ProvInv /\ ProvMain => ProvInv'
<1> SUFFICES ASSUME ProvInv, ProvMain PROVE ProvInv'
  OBVIOUS
<1> USE DEF ProvInv, ProvMain, NoProv
<1>1. CASE app_prov_is_provisioned
  <2>1. posted' \in Seq(ProvEvents) /\ posted' # <<>>
    BY <1>1, OneOf DEF wifi_init_sta, ProvEvents
  <2>2. ProvTypes'
    BY <1>1, <2>1 DEF wifi_init_sta, ProvTypes, Teardown
  <2>3. Teardown' /\ NotApplied' /\ Pending'
    BY <1>1 DEF wifi_init_sta, ProvTypes, Teardown, NotApplied, Pending, app_prov_is_provisioned
  <2> QED
    BY <2>2, <2>3
<1>2. CASE ~app_prov_is_provisioned
  <2>1. ProvTypes'
    BY <1>2 DEF start_softap_provisioning, ProvTypes
  <2>2. Teardown' /\ NotApplied' /\ Pending'
    BY <1>2 DEF start_softap_provisioning, ProvTypes, Teardown, NotApplied, Pending,
                app_prov_is_provisioned
  <2> QED
    BY <2>1, <2>2
<1> QED
  BY <1>1, <1>2

LEMMA ProvRebootInv == ProvInv /\ ProvReboot => ProvInv'
<1> SUFFICES ASSUME ProvInv, ProvReboot PROVE ProvInv'
  OBVIOUS
<1> USE DEF ProvInv, ProvReboot, NoProv
<1>1. posted' \in Seq(ProvEvents)
  BY EmptySeq
<1>2. ProvTypes'
  BY <1>1 DEF ProvTypes
<1>3. Teardown' /\ NotApplied' /\ Pending'
  BY DEF ProvTypes, Teardown, NotApplied, Pending
<1> QED
  BY <1>2, <1>3

LEMMA SetConfigInv == ProvInv /\ set_config_handler => ProvInv'
  BY DEF set_config_handler, ProvInv, ProvTypes, Teardown, NotApplied, Pending, LastPosted

(* The request: the driver starts, and says so the first time.              *)
LEMMA ApplyStartInv == ProvInv /\ ApplyStart => ProvInv'
<1> SUFFICES ASSUME ProvInv, ApplyStart PROVE ProvInv'
  OBVIOUS
<1> USE DEF ProvInv, ApplyStart
<1>1. posted \in Seq(ProvEvents) /\ "STA_START" \in ProvEvents
  BY DEF ProvTypes, ProvEvents
<1>2. ProvTypes' /\ Teardown'
  BY <1>1, AppendTo DEF ProvTypes, Teardown, Configs
<1>3. NotApplied'
  BY DEF NotApplied, ProvTypes, Configs
<1>4. Pending'
  <2>1. CASE applies = 0
    <3>1. posted' = Append(<<>>, "STA_START") /\ posted = <<>>
      BY <2>1 DEF NotApplied, Teardown
    <3>2. Len(posted') = 1 /\ posted' # <<>> /\ posted'[1] = "STA_START"
      BY <1>1, <3>1, AppendTo, EmptySeq
    <3> QED
      BY <3>2 DEF Pending, LastPosted, Reasons
  <2>2. CASE applies # 0
    BY <2>2 DEF Pending, ProvTypes
  <2> QED
    BY <2>1, <2>2
<1> QED
  BY <1>2, <1>3, <1>4

LEMMA ApplyEndInv == ProvInv /\ ApplyEnd => ProvInv'
<1> SUFFICES ASSUME ProvInv, ApplyEnd PROVE ProvInv'
  OBVIOUS
<1> USE DEF ProvInv, ApplyEnd
<1>1. ProvTypes' /\ Teardown' /\ NotApplied'
  BY DEF ProvTypes, Teardown, NotApplied, Configs
<1>2. Pending'
  BY DEF Pending, LastPosted, Teardown
<1> QED
  BY <1>1, <1>2

(* An event is handled: when it was the last one, its handler leaves        *)
(* wifi_state and the driver in agreement.                                  *)
LEMMA ProvEventInv == ProvInv /\ ProvEvent => ProvInv'
<1> SUFFICES ASSUME ProvInv, ProvEvent PROVE ProvInv'
  OBVIOUS
<1> USE DEF ProvInv
<1> DEFINE e == Head(posted)
<1>0. posted \in Seq(ProvEvents) /\ posted # <<>> /\ posted' = Tail(posted)
  BY DEF ProvTypes, ProvEvent
<1>1. /\ posted' \in Seq(ProvEvents) /\ e \in ProvEvents /\ e = posted[1]
      /\ Len(posted) \in Nat \ {0} /\ Len(posted') = Len(posted) - 1
      /\ \A i \in 1 .. Len(posted') : posted'[i] = posted[i + 1]
      /\ posted' = <<>> <=> Len(posted) = 1
  BY <1>0, TailOf
<1>2. posted' # <<>> => LastPosted' = LastPosted
  BY <1>1 DEF LastPosted
<1>3. UNCHANGED <<mode, stored, service, handlers, ctx, http, stopTask, applies>>
  BY DEF ProvEvent
<1>4. CASE mode = "prov" /\ handlers /\ g_prov.ptr # "null" /\ app_prov_event_handler(e)
           /\ overtaken' = (overtaken \/ http = "started")
  <2>0. /\ g_prov \in [ptr : {"null", "live", "dangling"},
                       wifi_state : {"CONNECTING", "CONNECTED", "DISCONNECTED"},
                       timer : {"none", "created", "armed"}]
        /\ sta \in {"off", "idle", "connecting", "up"}
        /\ e \in {"STA_START", "GOT_IP", "AUTH_ERROR", "AP_NOT_FOUND", "OTHER"}
    BY <1>1 DEF ProvTypes, ProvEvents, Reasons
  <2>1. /\ g_prov' \in [ptr : {"null", "live", "dangling"},
                        wifi_state : {"CONNECTING", "CONNECTED", "DISCONNECTED"},
                        timer : {"none", "created", "armed"}]
        /\ sta' \in {"off", "idle", "connecting", "up"}
        /\ g_prov'.ptr = g_prov.ptr
        /\ g_prov.timer = "none" => g_prov'.timer = "none"
        /\ e = "STA_START" => g_prov'.wifi_state = "CONNECTING" /\ sta' = sta
        /\ e = "GOT_IP" => g_prov'.wifi_state = "CONNECTED" /\ sta' = sta
        /\ e \in {"AUTH_ERROR", "AP_NOT_FOUND"} =>
              g_prov'.wifi_state = "DISCONNECTED" /\ sta' = sta
        /\ e = "OTHER" => /\ g_prov'.wifi_state = "CONNECTING"
                         /\ sta' = IF sta = "idle" THEN "connecting" ELSE sta
    <3>1. CASE e = "STA_START"
      BY <1>4, <2>0, <3>1 DEF app_prov_event_handler
    <3>2. CASE e = "GOT_IP"
      BY <1>4, <2>0, <3>2 DEF app_prov_event_handler
    <3>3. CASE e \in {"AUTH_ERROR", "AP_NOT_FOUND"}
      BY <1>4, <2>0, <3>3 DEF app_prov_event_handler
    <3>4. CASE e = "OTHER"
      BY <1>4, <2>0, <3>4 DEF app_prov_event_handler
    <3> QED
      BY <2>0, <3>1, <3>2, <3>3, <3>4
  <2>2. ProvTypes'
    BY <1>1, <1>3, <1>4, <2>1 DEF ProvTypes
  <2>3. Teardown'
    BY <1>0, <1>3, <2>0, <2>1 DEF Teardown, NoProv, ProvTypes
  <2>4. NotApplied'
    BY <1>0, <1>3, <1>4 DEF NotApplied
  <2>5. Pending'
    <3>1. CASE mode = "prov" /\ applies = 1 /\ ~overtaken /\ http # "started"
      <4>1. \A i \in 1 .. Len(posted') : posted'[i] = "OTHER" => i = Len(posted')
        BY <1>1, <3>1 DEF Pending
      <4>2. CASE posted' # <<>>
        <5>1. e # "OTHER"
          BY <1>1, <3>1, <4>2 DEF Pending
        <5>2. sta' = sta
          BY <1>1, <2>1, <5>1 DEF ProvEvents, Reasons
        <5> QED
          BY <1>0, <1>2, <1>3, <3>1, <4>1, <4>2, <5>2 DEF Pending
      <4>3. CASE posted' = <<>>
        <5>1. LastPosted = e
          BY <1>1, <4>3 DEF LastPosted
        <5>2. e \in {"STA_START", "GOT_IP", "AUTH_ERROR", "AP_NOT_FOUND", "OTHER"}
          BY <1>1 DEF ProvEvents, Reasons
        <5> QED
          BY <1>0, <1>3, <2>1, <3>1, <4>1, <4>3, <5>1, <5>2 DEF Pending, Reasons
      <4> QED
        BY <4>2, <4>3
    <3>2. CASE ~(mode = "prov" /\ applies = 1 /\ ~overtaken /\ http # "started")
      BY <1>3, <1>4, <3>2 DEF Pending
    <3> QED
      BY <3>1, <3>2
  <2> QED
    BY <2>2, <2>3, <2>4, <2>5
<1>5. CASE mode = "prov" /\ ~(handlers /\ g_prov.ptr # "null")
           /\ UNCHANGED <<g_prov, sta, s_retry_num, overtaken>>
  <2>1. ~handlers
    BY <1>5 DEF Teardown
  <2>2. ProvTypes' /\ Teardown' /\ NotApplied'
    BY <1>0, <1>1, <1>3, <1>5 DEF ProvTypes, Teardown, NotApplied
  <2>3. http # "started"
    BY <2>1, <1>5 DEF Teardown
  <2>4. Pending'
    <3>1. mode = "prov" /\ applies = 1 /\ ~overtaken =>
            \A i \in 1 .. Len(posted') : posted'[i] = "OTHER" => i = Len(posted')
      BY <1>1 DEF Pending
    <3> QED
      BY <1>0, <1>2, <1>3, <1>5, <2>1, <2>3, <3>1 DEF Pending
  <2> QED
    BY <2>2, <2>4
<1>6. CASE mode = "sta" /\ event_handler(e) /\ UNCHANGED <<g_prov, overtaken>>
  <2>1. sta' \in {"off", "idle", "connecting", "up"}
    BY <1>1, <1>6 DEF event_handler, ProvTypes, ProvEvents, Reasons
  <2>2. ProvTypes'
    BY <1>1, <1>3, <1>6, <2>1 DEF ProvTypes
  <2>3. Teardown' /\ NotApplied' /\ Pending'
    BY <1>0, <1>3, <1>6 DEF Teardown, NotApplied, Pending
  <2> QED
    BY <2>2, <2>3
<1> QED
  BY <1>4, <1>5, <1>6 DEF ProvEvent

LEMMA StopTaskInv ==
    ProvInv /\ (_stop_prov_cb \/ StopService \/ Unregister \/ FreeProv) => ProvInv'
<1> SUFFICES ASSUME ProvInv, _stop_prov_cb \/ StopService \/ Unregister \/ FreeProv
             PROVE  ProvInv'
  OBVIOUS
<1> USE DEF ProvInv
<1>0. UNCHANGED posted
  BY DEF _stop_prov_cb, StopService, Unregister, FreeProv
<1>1. ASSUME _stop_prov_cb PROVE ProvInv'
  <2>1. ProvTypes'
    BY <1>0, <1>1 DEF _stop_prov_cb, ProvTypes
  <2>0. /\ g_prov'.ptr = "live" /\ g_prov.ptr = "live" /\ g_prov'.timer = "created"
        /\ mode # "start"
    BY <1>1 DEF _stop_prov_cb, ProvTypes, Teardown, NoProv
  <2>2. Teardown' /\ NotApplied'
    BY <1>0, <1>1, <2>0 DEF _stop_prov_cb, Teardown, NotApplied
  <2>3. Pending'
    BY <1>0, <1>1 DEF _stop_prov_cb, ProvTypes, Teardown, Pending, LastPosted
  <2> QED
    BY <2>1, <2>2, <2>3
<1>2. ASSUME StopService PROVE ProvInv'
  <2>1. ProvTypes'
    <3>1. UNCHANGED <<mode, stored, g_prov, handlers, ctx, http, sta, posted, applies, overtaken>>
      BY <1>2 DEF StopService
    <3>2. service' \in BOOLEAN /\ stopTask' = "unregister"
      BY <1>2 DEF StopService
    <3> QED
      BY <3>1, <3>2 DEF ProvTypes
  <2>2. Teardown' /\ NotApplied'
    BY <1>0, <1>2 DEF StopService, ProvTypes, Teardown, NotApplied
  <2>3. Pending'
    BY <1>0, <1>2 DEF StopService, ProvTypes, Teardown, Pending, LastPosted
  <2> QED
    BY <2>1, <2>2, <2>3
<1>3. ASSUME Unregister PROVE ProvInv'
  <2>1. ProvTypes'
    <3>1. UNCHANGED <<mode, stored, g_prov, service, ctx, http, sta, posted, applies, overtaken>>
      BY <1>3 DEF Unregister
    <3>2. handlers' \in BOOLEAN /\ stopTask' = "delete_timer"
      BY <1>3 DEF Unregister
    <3> QED
      BY <3>1, <3>2 DEF ProvTypes
  <2>2. Teardown' /\ NotApplied'
    BY <1>0, <1>3 DEF Unregister, ProvTypes, Teardown, NotApplied
  <2>3. Pending'
    BY <1>0, <1>3 DEF Unregister, ProvTypes, Teardown, Pending, LastPosted
  <2> QED
    BY <2>1, <2>2, <2>3
<1>4. ASSUME FreeProv PROVE ProvInv'
  <2>1. ProvTypes'
    BY <1>0, <1>4 DEF FreeProv, ProvTypes
  <2>2. Teardown' /\ NotApplied'
    BY <1>0, <1>4 DEF FreeProv, ProvTypes, Teardown, NotApplied
  <2>3. Pending'
    BY <1>0, <1>4 DEF FreeProv, ProvTypes, Teardown, Pending, LastPosted
  <2> QED
    BY <2>1, <2>2, <2>3
<1> QED
  BY <1>1, <1>2, <1>3, <1>4

(* The driver comes to a result and posts it.                               *)
LEMMA StaDriverInv == ProvInv /\ StaDriver => ProvInv'
<1> SUFFICES ASSUME ProvInv, StaDriver PROVE ProvInv'
  OBVIOUS
<1> USE DEF ProvInv
<1>1. PICK r \in ProvEvents :
         /\ posted' = Append(posted, r)
         /\ r = "GOT_IP" => sta' = "up"
         /\ r # "GOT_IP" => sta' = "idle" /\ r \in Reasons
  BY DEF StaDriver, StaUp, StaRefused, StaLost, ProvEvents, Reasons
<1>2. sta \in {"connecting", "up"} /\ sta' \in {"idle", "up"} /\ r # "STA_START"
  BY <1>1 DEF StaDriver, StaUp, StaRefused, StaLost, Reasons
<1>3. UNCHANGED <<mode, stored, g_prov, service, handlers, ctx, http, stopTask, applies,
                  overtaken>>
  BY DEF StaDriver
<1>4. /\ posted' \in Seq(ProvEvents) /\ Len(posted) \in Nat /\ Len(posted') = Len(posted) + 1
      /\ posted' # <<>> /\ posted'[Len(posted) + 1] = r
      /\ \A i \in 1 .. Len(posted) : posted'[i] = posted[i]
  BY <1>1, AppendTo DEF ProvTypes
<1>5. ProvTypes' /\ Teardown' /\ NotApplied'
  BY <1>2, <1>3, <1>4 DEF ProvTypes, Teardown, NotApplied
<1>6. Pending'
  <2>1. CASE mode = "prov" /\ applies = 1 /\ ~overtaken
    <3>1. \A i \in 1 .. Len(posted) : posted[i] # "OTHER"
      <4>1. SUFFICES ASSUME NEW i \in 1 .. Len(posted), posted[i] = "OTHER" PROVE FALSE
        OBVIOUS
      <4>2. i = Len(posted) /\ posted # <<>>
        BY <1>4, <2>1, <4>1, EmptySeq DEF Pending
      <4> QED
        BY <1>2, <2>1, <4>1, <4>2 DEF Pending, LastPosted, Reasons
    <3>2. \A i \in 1 .. Len(posted') : posted'[i] = "OTHER" => i = Len(posted')
      BY <1>4, <3>1
    <3>3. LastPosted' = r
      BY <1>4 DEF LastPosted
    <3>4. /\ r = "GOT_IP" => sta' = "up"
          /\ r \in Reasons => sta' = "idle"
      BY <1>1 DEF Reasons
    <3> QED
      BY <1>2, <1>4, <3>2, <3>3, <3>4 DEF Pending
  <2>2. CASE ~(mode = "prov" /\ applies = 1 /\ ~overtaken)
    BY <1>3, <2>2 DEF Pending
  <2> QED
    BY <2>1, <2>2
<1> QED
  BY <1>5, <1>6

LEMMA ProvStep == ProvInv /\ [ProvNext]_provVars => ProvInv'
<1>1. ProvInv /\ UNCHANGED provVars => ProvInv'
  BY DEF provVars, ProvInv, ProvTypes, Teardown, NotApplied, Pending, LastPosted
<1> QED
  BY <1>1, ProvMainInv, ProvRebootInv, SetConfigInv, ApplyStartInv, ApplyEndInv, ProvEventInv,
     StopTaskInv, StaDriverInv DEF ProvNext, ProvTasks

(* The inductive invariant of provisioning: who is there in each step of    *)
(* stop_prov_task, and which events are pending for the station's state.    *)
THEOREM ProvInvariant == ProvSpec => []ProvInv
  BY ProvInitInv, ProvStep, PTL DEF ProvSpec

(* g_prov is not used once it is freed, and stop_prov_task runs with it: in *)
(* every interleaving of app_prov_event_handler, the endpoint handlers, the *)
(* timer and stop_prov_task.                                                *)
THEOREM ProvDataIsLive == ProvSpec => []ProvDataLive
<1>1. ProvInv => ProvDataLive
  BY DEF ProvInv, ProvTypes, Teardown, ProvDataLive
<1> QED
  BY <1>1, ProvInvariant, PTL

(* get_status_handler tells the truth after the first request: the state    *)
(* that app_prov_event_handler keeps is what became of the connection.      *)
THEOREM StatusIsTruthful == ProvSpec => []StatusTruthful
<1>1. ProvInv => StatusTruthful
  BY DEF ProvInv, ProvTypes, Pending, StatusTruthful
<1> QED
  BY <1>1, ProvInvariant, PTL

--------------------------------------------------------------------------------
(* iperf: s_iperf_is_running stands for the whole life of a traffic task,   *)
(* and while there is one s_iperf_ctrl.buffer is its run's.  The flag may   *)
(* be set without a task: after a start that failed.                        *)
IperfTypes ==
    /\ is_running \in BOOLEAN
    /\ ctrl \in [role : Roles, finish : BOOLEAN, buffer : Nat]
    /\ traffic \in [pc : {"none", "open", "accept", "loop", "free", "exit"}, buffer : Nat]
    /\ run \in Nat

RunOwnsBuffer ==
    /\ traffic.pc # "none" => is_running
    /\ traffic.pc \in {"open", "accept", "loop", "free"} =>
         ctrl.buffer = run /\ heap = {run}
    /\ traffic.pc \in {"accept", "loop"} => traffic.buffer = run
    /\ traffic.pc \in {"exit", "none"} => ctrl.buffer = 0 /\ heap = {}

IperfInv == IperfTypes /\ RunOwnsBuffer

LEMMA IperfInitInv == IperfInit => IperfInv
<1> SUFFICES ASSUME IperfInit PROVE IperfInv
  OBVIOUS
<1>1. is_running \in BOOLEAN /\ "tcp_server" \in Roles
  BY DEF IperfInit, Roles
<1>2. IperfTypes
  BY <1>1 DEF IperfInit, IperfTypes
<1>3. RunOwnsBuffer
  BY DEF IperfInit, RunOwnsBuffer
<1> QED
  BY <1>2, <1>3 DEF IperfInv

(* The steps that leave s_iperf_ctrl's buffer and the tasks alone.          *)
LEMMA IperfQuiet ==
    ASSUME IperfInv, UNCHANGED <<is_running, heap, traffic, run>>,
           ctrl' = ctrl \/ ctrl' = [ctrl EXCEPT !.finish = TRUE]
    PROVE  IperfInv'
<1>1. /\ ctrl' \in [role : Roles, finish : BOOLEAN, buffer : Nat]
      /\ ctrl'.buffer = ctrl.buffer
  BY DEF IperfInv, IperfTypes
<1>2. IperfTypes'
  BY <1>1 DEF IperfInv, IperfTypes
<1>3. RunOwnsBuffer'
  BY <1>1 DEF IperfInv, RunOwnsBuffer
<1> QED
  BY <1>2, <1>3 DEF IperfInv

LEMMA IperfStartInv ==
    ASSUME IperfInv, NEW role \in Roles, iperf_start(role)
    PROVE  IperfInv'
<1> USE DEF IperfInv
<1>1. traffic.pc = "none" /\ heap = {} /\ run' = run + 1 /\ run \in Nat
  BY DEF iperf_start, IperfTypes, RunOwnsBuffer
<1>2. \/ /\ ctrl' = [role |-> role, finish |-> FALSE, buffer |-> run + 1]
         /\ heap' = {run + 1}
         /\ traffic' = [pc |-> "open", buffer |-> 0]
      \/ /\ ctrl' = [role |-> role, finish |-> FALSE, buffer |-> 0]
         /\ UNCHANGED <<heap, traffic>>
  BY <1>1 DEF iperf_start
<1>3. is_running' \in BOOLEAN /\ is_running'
  BY DEF iperf_start
<1>4. IperfTypes'
  <2>1. ctrl' \in [role : Roles, finish : BOOLEAN, buffer : Nat]
    <3>1. \E b \in Nat : ctrl' = [role |-> role, finish |-> FALSE, buffer |-> b]
      BY <1>1, <1>2
    <3> QED
      BY <3>1
  <2>2. traffic' \in [pc : {"none", "open", "accept", "loop", "free", "exit"}, buffer : Nat]
    BY <1>2 DEF IperfTypes
  <2> QED
    BY <1>1, <1>3, <2>1, <2>2 DEF IperfTypes
<1>5. RunOwnsBuffer'
  BY <1>1, <1>2, <1>3 DEF RunOwnsBuffer
<1> QED
  BY <1>4, <1>5

LEMMA IperfTrafficInv == IperfInv /\ (Traffic \/ Accept) => IperfInv'
<1> SUFFICES ASSUME IperfInv, Traffic \/ Accept PROVE IperfInv'
  OBVIOUS
<1> USE DEF IperfInv, TrafficTo
<1>1. ASSUME TrafficOpen PROVE IperfInv'
  <2>1. UNCHANGED <<is_running, ctrl, heap, run>> /\ traffic.pc = "open"
    BY <1>1 DEF TrafficOpen
  <2>2. \/ traffic' = [traffic EXCEPT !.pc = "free"]
        \/ \E at \in {"loop", "accept", "free"} : traffic' = [pc |-> at, buffer |-> ctrl.buffer]
    BY <1>1 DEF TrafficOpen, OpenFails, iperf_run_udp_client, iperf_run_tcp_client,
                iperf_run_udp_server, iperf_run_tcp_server
  <2> QED
    BY <2>1, <2>2 DEF IperfTypes, RunOwnsBuffer
<1>2. ASSUME Accept PROVE IperfInv'
  <2>1. UNCHANGED <<is_running, ctrl, heap, run>> /\ traffic.pc = "accept"
    BY <1>2 DEF Accept
  <2>2. \E at \in {"loop", "free"} : traffic' = [traffic EXCEPT !.pc = at]
    BY <1>2 DEF Accept, OpenFails
  <2> QED
    BY <2>1, <2>2 DEF IperfTypes, RunOwnsBuffer
<1>3. ASSUME TrafficEnd PROVE IperfInv'
  BY <1>3 DEF TrafficEnd, IperfTypes, RunOwnsBuffer
<1>4. ASSUME TrafficFree PROVE IperfInv'
  BY <1>4 DEF TrafficFree, IperfTypes, RunOwnsBuffer
<1>5. ASSUME TrafficExit PROVE IperfInv'
  <2>1. is_running' \in BOOLEAN
    BY <1>5 DEF TrafficExit
  <2> QED
    BY <1>5, <2>1 DEF TrafficExit, IperfTypes, RunOwnsBuffer
<1> QED
  BY <1>1, <1>2, <1>3, <1>4, <1>5 DEF Traffic

LEMMA IperfStep == IperfInv /\ [IperfNext]_iperfVars => IperfInv'
<1> SUFFICES ASSUME IperfInv, [IperfNext]_iperfVars PROVE IperfInv'
  OBVIOUS
<1>1. CASE Console \/ JoinStart \/ wifi_cmd_ap_set \/ wifi_cmd_sta_scan \/ iperf_stop
  BY <1>1, IperfQuiet DEF Console, StopReturned, JoinWaited, JoinConnect, JoinStart,
     wifi_cmd_ap_set, wifi_cmd_sta_scan, iperf_stop
<1>2. CASE FirstDatagram \/ Handler \/ StationUp \/ StationLost
  BY <1>2, IperfQuiet DEF FirstDatagram, Handler, StationUp, StationLost
<1>3. ASSUME NEW r \in 1 .. MaxCommands, iperf_report_task(r) PROVE IperfInv'
  BY <1>3, IperfQuiet DEF iperf_report_task
<1>4. CASE UNCHANGED iperfVars
  BY <1>4, IperfQuiet DEF iperfVars
<1> QED
  BY <1>1, <1>2, <1>3, <1>4, IperfStartInv, IperfTrafficInv DEF IperfNext

(* The inductive invariant of iperf: a running task owns the buffer of the  *)
(* last run, and a buffer exists only while s_iperf_ctrl points to it.      *)
THEOREM IperfInvariant == IperfSpec => []IperfInv
  BY IperfInitInv, IperfStep, PTL DEF IperfSpec

(* The console, report and traffic tasks change s_iperf_ctrl without a      *)
(* lock, and still the traffic task works on its own run's buffer until     *)
(* iperf_task_traffic frees it, and no buffer is left behind.               *)
THEOREM BufferIsOwned == IperfSpec => []BufferOwned
<1>1. IperfInv => BufferOwned
  BY DEF IperfInv, IperfTypes, RunOwnsBuffer, BufferOwned
<1> QED
  BY <1>1, IperfInvariant, PTL

-----------------------------------------------------------------------------
(* coap_client.  A block is asked for when the one before it has been       *)
(* printed, whatever became of the packets: that holds of the requests and  *)
(* responses on their way as well as of what was printed.                   *)
Requests == [num : Nat, copy : BOOLEAN]
Responses == [num : Nat, more : BOOLEAN, class : {2, 5}, copy : BOOLEAN]

CoapTypes ==
    /\ getter \in [pc : {"resolve", "off", "context", "session", "request", "run",
                         "clean_up", "deleted"},
                   resp_wait : BOOLEAN, wait_ms : Nat, woken : BOOLEAN,
                   printed : SUBSET Nat,
                   held : SUBSET {"ainfo", "optlist", "ctx", "session"}]
    /\ asked \subseteq Requests
    /\ answers \subseteq Responses

Follows(n) == n = 0 \/ n - 1 \in getter.printed

InOrder ==
    /\ \A n \in getter.printed : Follows(n)
    /\ \A q \in asked : Follows(q.num)
    /\ \A r \in answers : Follows(r.num)
    /\ getter.pc = "deleted" => getter.held = {}

CoapInv == CoapTypes /\ InOrder

LEMMA CoapInitInv == CoapInit => CoapInv
<1> SUFFICES ASSUME CoapInit PROVE CoapInv
  OBVIOUS
<1>1. PICK at \in {"resolve", "off"} :
         getter = [pc |-> at, resp_wait |-> TRUE, wait_ms |-> 0, woken |-> FALSE,
                   printed |-> {}, held |-> {}]
  BY DEF CoapInit
<1> QED
  BY <1>1 DEF CoapInit, CoapInv, CoapTypes, InOrder, Follows

(* What the client task does apart from its handler.                        *)
LEMMA GetterInv ==
    ASSUME CoapInv,
           resolve \/ new_context \/ new_session \/ send_request \/ clean_up
             \/ run_once_error \/ \E spent \in 0 .. 1 : run_once(spent)
    PROVE  CoapInv'
<1> USE DEF CoapInv
<1>1. ASSUME resolve \/ new_context \/ new_session PROVE CoapInv'
  <2>1. UNCHANGED <<asked, answers>>
    BY <1>1 DEF resolve, new_context, new_session
  <2>2. \/ getter' = getter
        \/ getter' = [getter EXCEPT !.pc = "clean_up"]
        \/ \E at \in {"context", "session", "request"},
              held \in SUBSET {"ainfo", "optlist", "ctx", "session"} :
             getter' = [getter EXCEPT !.pc = at, !.held = held]
    <3>1. CASE resolve
      BY <3>1 DEF resolve
    <3>2. CASE new_context
      BY <3>2, getter.held \cup {"ctx"} \in SUBSET {"ainfo", "optlist", "ctx", "session"}
         DEF new_context, CoapTypes
    <3>3. CASE new_session
      BY <3>3, getter.held \cup {"session"} \in SUBSET {"ainfo", "optlist", "ctx", "session"}
         DEF new_session, CoapTypes
    <3> QED
      BY <1>1, <3>1, <3>2, <3>3
  <2> QED
    BY <2>1, <2>2 DEF CoapTypes, InOrder, Follows
<1>2. CASE send_request
  <2>1. asked' = {[num |-> 0, copy |-> FALSE]} \/ asked' = asked
    BY <1>2 DEF send_request
  <2>2. answers' = answers /\ getter'.printed = getter.printed /\ getter'.pc # "deleted"
    BY <1>2 DEF send_request, CoapTypes
  <2>3. CoapTypes'
    <3>1. \/ getter' = [getter EXCEPT !.pc = "clean_up"]
          \/ getter' = [getter EXCEPT !.pc = "run", !.resp_wait = TRUE, !.wait_ms = WaitTime]
      BY <1>2 DEF send_request
    <3>2. asked' \subseteq Requests
      BY <2>1, [num |-> 0, copy |-> FALSE] \in Requests DEF CoapTypes, Requests
    <3> QED
      BY <2>2, <3>1, <3>2, CoapAssumption DEF CoapTypes
  <2>4. InOrder'
    BY <2>1, <2>2 DEF InOrder, Follows
  <2> QED
    BY <2>3, <2>4
<1>3. CASE clean_up
  BY <1>3 DEF clean_up, CoapTypes, InOrder, Follows
<1>4. CASE run_once_error
  BY <1>4 DEF run_once_error, CoapTypes, InOrder, Follows
<1>5. ASSUME NEW spent \in 0 .. 1, run_once(spent) PROVE CoapInv'
  <2> DEFINE wait_ms == IF spent < getter.wait_ms THEN getter.wait_ms - spent
                        ELSE getter.wait_ms
             at == IF spent >= getter.wait_ms \/ ~getter.resp_wait THEN "clean_up" ELSE "run"
  <2>0. wait_ms \in Nat /\ at \in {"clean_up", "run"}
    BY DEF CoapTypes
  <2>1. getter' = [getter EXCEPT !.woken = FALSE, !.wait_ms = wait_ms, !.pc = at]
    BY <1>5 DEF run_once, CoapTypes
  <2>2. UNCHANGED <<asked, answers>>
    BY <1>5 DEF run_once
  <2> HIDE DEF wait_ms, at
  <2> QED
    BY <2>0, <2>1, <2>2 DEF CoapTypes, InOrder, Follows
<1> QED
  BY <1>1, <1>2, <1>3, <1>4, <1>5

(* A response of class 2 is printed, and the block after it asked for.      *)
LEMMA MessageHandlerInv ==
    ASSUME CoapInv, NEW r \in answers, message_handler(r)
    PROVE  CoapInv'
<1> USE DEF CoapInv
<1>1. r \in Responses /\ Follows(r.num)
  BY DEF CoapTypes, InOrder
<1>2. answers' \subseteq answers /\ getter.pc = "run"
  BY DEF message_handler
<1>3. /\ getter' \in [pc : {"run"}, resp_wait : BOOLEAN, wait_ms : Nat, woken : BOOLEAN,
                      printed : SUBSET Nat,
                      held : SUBSET {"ainfo", "optlist", "ctx", "session"}]
      /\ getter'.printed = IF r.class = 2 THEN getter.printed \cup {r.num}
                           ELSE getter.printed
  <2>1. PICK printed \in SUBSET Nat :
          /\ printed = IF r.class = 2 THEN getter.printed \cup {r.num} ELSE getter.printed
          /\ \/ getter' = [getter EXCEPT !.woken = TRUE, !.printed = printed,
                                         !.resp_wait = TRUE, !.wait_ms = WaitTime]
             \/ getter' = [getter EXCEPT !.woken = TRUE, !.printed = printed,
                                         !.resp_wait = FALSE]
    BY <1>1 DEF message_handler, CoapTypes, Responses
  <2> QED
    BY <1>2, <2>1, CoapAssumption DEF CoapTypes
<1>4. \/ asked' = asked
      \/ r.class = 2 /\ asked' = asked \cup {[num |-> r.num + 1, copy |-> FALSE]}
  BY DEF message_handler, nextBlock
<1>5. CoapTypes'
  <2>1. asked' \subseteq Requests
    <3>1. [num |-> r.num + 1, copy |-> FALSE] \in Requests
      BY <1>1 DEF Requests, Responses
    <3> QED
      BY <1>4, <3>1 DEF CoapTypes
  <2> QED
    BY <1>2, <1>3, <2>1 DEF CoapTypes
<1>6. InOrder'
  <2>1. \A n : Follows(n) => Follows(n)'
    BY <1>3 DEF Follows
  <2>2. \A n \in getter'.printed : Follows(n)'
    BY <1>1, <1>3, <2>1 DEF InOrder
  <2>3. r.class = 2 => Follows(r.num + 1)'
    BY <1>1, <1>3 DEF Follows, Responses
  <2> QED
    BY <1>2, <1>3, <1>4, <2>1, <2>2, <2>3 DEF InOrder, Follows
<1> QED
  BY <1>5, <1>6

(* The network loses and doubles; a reply has the number of its request.    *)
LEMMA CoapNetworkInv == CoapInv /\ (Network \/ PacketLost \/ Doubled) => CoapInv'
<1> SUFFICES ASSUME CoapInv, Network \/ PacketLost \/ Doubled PROVE CoapInv'
  OBVIOUS
<1> USE DEF CoapInv
<1>1. UNCHANGED getter
  BY DEF Network, Reply, PacketLost, Doubled
<1>2. \A q \in asked' : q \in Requests /\ \E p \in asked : p.num = q.num
  <2>1. CASE Network \/ PacketLost
    BY <2>1 DEF Network, Reply, PacketLost, CoapTypes
  <2>2. CASE Doubled
    <3>1. \A q \in Requests : /\ [q EXCEPT !.copy = TRUE] \in Requests
                             /\ [q EXCEPT !.copy = TRUE].num = q.num
      BY DEF Requests
    <3>2. CASE UNCHANGED asked
      BY <3>2 DEF CoapTypes
    <3>3. ASSUME NEW q \in asked, asked' = asked \cup {[q EXCEPT !.copy = TRUE]}
          PROVE  \A p \in asked' : p \in Requests /\ \E o \in asked : o.num = p.num
      <4>1. q \in Requests
        BY DEF CoapTypes
      <4> QED
        BY <3>1, <3>3, <4>1 DEF CoapTypes
    <3> QED
      BY <2>2, <3>2, <3>3 DEF Doubled
  <2> QED
    BY <2>1, <2>2
<1>3. \A r \in answers' : /\ r \in Responses
                          /\ \/ \E p \in answers : p.num = r.num
                             \/ \E q \in asked : q.num = r.num
  <2>1. ASSUME NEW q \in asked, Reply(q), NEW r \in answers'
        PROVE  r \in answers \/ (r \in Responses /\ r.num = q.num)
    <3> DEFINE reply == [num |-> q.num, more |-> q.num + 1 < Blocks, class |-> 2,
                         copy |-> q.copy]
    <3>1. \/ answers' = answers \cup {reply}
          \/ answers' = answers \cup {[reply EXCEPT !.class = 5, !.more = FALSE]}
      BY <2>1 DEF Reply
    <3>2. q.num \in Nat /\ q.copy \in BOOLEAN
      BY DEF CoapTypes, Requests
    <3>3. reply \in Responses /\ reply.num = q.num
      BY <3>2 DEF Responses
    <3> HIDE DEF reply
    <3>4. /\ [reply EXCEPT !.class = 5, !.more = FALSE] \in Responses
          /\ [reply EXCEPT !.class = 5, !.more = FALSE].num = q.num
      BY <3>3 DEF Responses
    <3> QED
      BY <2>1, <3>1, <3>3, <3>4
  <2>2. ASSUME PacketLost \/ Doubled, NEW r \in answers'
        PROVE  r \in Responses /\ \E p \in answers : p.num = r.num
    <3>1. answers \subseteq Responses
      BY DEF CoapTypes
    <3>2. CASE PacketLost
      <4>1. r \in answers
        BY <2>2, <3>2 DEF PacketLost
      <4> QED
        BY <3>1, <4>1
    <3>3. CASE Doubled
      <4>1. r \in answers \/ \E p \in answers : r = [p EXCEPT !.copy = TRUE]
        BY <2>2, <3>3 DEF Doubled
      <4>2. ASSUME NEW p \in answers, r = [p EXCEPT !.copy = TRUE]
            PROVE  r \in Responses /\ p.num = r.num
        BY <3>1, <4>2 DEF Responses
      <4> QED
        BY <3>1, <4>1, <4>2
    <3> QED
      BY <2>2, <3>2, <3>3
  <2> QED
    BY <2>1, <2>2 DEF Network, CoapTypes
<1>4. CoapTypes'
  BY <1>1, <1>2, <1>3 DEF CoapTypes
<1>5. InOrder'
  BY <1>1, <1>2, <1>3 DEF InOrder, Follows
<1> QED
  BY <1>4, <1>5

LEMMA CoapStep == CoapInv /\ [CoapNext]_coapVars => CoapInv'
<1> SUFFICES ASSUME CoapInv, [CoapNext]_coapVars PROVE CoapInv'
  OBVIOUS
<1>1. CASE UNCHANGED getterVars
  BY <1>1 DEF getterVars, CoapInv, CoapTypes, InOrder, Follows
<1>2. CASE Serving \/ server_error \/ hnd_espressif_delete
           \/ \E v \in Values \cup {"empty"} : hnd_espressif_put(v)
  BY <1>1, <1>2 DEF Serving, server_context, ServerStep, new_endpoint, server_resource,
     hnd_espressif_get, server_error, hnd_espressif_delete, hnd_espressif_put
<1>3. CASE UNCHANGED coapVars
  BY <1>1, <1>3 DEF coapVars, getterVars
<1> QED
  BY <1>2, <1>3, GetterInv, MessageHandlerInv, CoapNetworkInv DEF CoapNext, Getter

(* The inductive invariant of the CoAP programs: blocks asked for and under *)
(* way follow blocks the client has.                                        *)
THEOREM CoapInvariant == CoapSpec => []CoapInv
  BY CoapInitInv, CoapStep, PTL DEF CoapSpec

(* What coap_client has printed has no gap, although packets are lost,      *)
(* doubled and reordered; and its task releases all it holds.               *)
THEOREM NoGapInBlocks == CoapSpec => []BlocksNoGap
<1>1. CoapInv => BlocksNoGap
  BY DEF CoapInv, InOrder, Follows, BlocksNoGap
<1> QED
  BY <1>1, CoapInvariant, PTL

-----------------------------------------------------------------------------
(* The echo programs.  Only TCP has connections; the server holds bytes     *)
(* between recv() and send() only, and they belong to the connection its    *)
(* socket stands for.                                                       *)
Connections == [up : Nat, down : Nat, sent : Nat, heard : Nat, client : BOOLEAN,
                server : {"queued", "open", "closed"}, broken : BOOLEAN]

ServerTasks == [pc : {"socket", "bind", "listen", "accept", "recv", "send", "close", "dead"},
                sock : Nat, held : Nat]
ClientTasks == [pc : {"socket", "connect", "send", "recv", "pause", "close", "dead"}, sock : Nat]

TcpTypes ==
    /\ \E n \in Nat : conns \in [1 .. n -> Connections]
    /\ server \in ServerTasks
    /\ client \in ClientTasks

SocketsOpen ==
    /\ server.sock = 0 \/ server.sock \in DOMAIN conns
    /\ server.pc \in {"recv", "send", "close"} => server.sock \in DOMAIN conns
    /\ server.pc # "send" => server.held = 0
    /\ client.pc \in {"send", "recv", "pause", "close"} => client.sock \in DOMAIN conns

(* A connection k of which the server holds h bytes.                        *)
Balanced(k, h) == k.broken \/ k.sent = k.up + k.down + k.heard + h

(* The bytes of connection c that the server holds.                         *)
HeldOf(c) == IF server.sock = c THEN server.held ELSE 0

TcpInv == TcpTypes /\ SocketsOpen /\ \A c \in DOMAIN conns : Balanced(conns[c], HeldOf(c))

EchoInv ==
    /\ proto \in {"tcp", "udp"}
    /\ proto = "udp" => conns = <<>>
    /\ proto = "tcp" => TcpInv

LEMMA EchoInitInv == EchoInit => EchoInv
<1> SUFFICES ASSUME EchoInit PROVE EchoInv
  OBVIOUS
<1>1. conns \in [1 .. 0 -> Connections] /\ DOMAIN conns = {}
  BY DEF EchoInit
<1>2. TcpInv
  BY <1>1 DEF EchoInit, TcpInv, TcpTypes, SocketsOpen, ServerTasks, ClientTasks
<1> QED
  BY <1>2 DEF EchoInit, EchoInv

(* A step of the server that leaves the connections alone.                  *)
LEMMA ServerMoves ==
    ASSUME TcpInv, UNCHANGED <<conns, client>>,
           NEW at \in {"socket", "bind", "listen", "accept", "dead"},
           server' = [server EXCEPT !.pc = at], server.pc # "send"
    PROVE  TcpInv'
<1>1. server'.sock = server.sock /\ server'.held = server.held /\ server'.pc = at
  BY DEF TcpInv, TcpTypes, ServerTasks
<1>2. TcpTypes'
  BY DEF TcpInv, TcpTypes, ServerTasks
<1>3. SocketsOpen'
  BY <1>1 DEF TcpInv, SocketsOpen
<1>4. \A c \in DOMAIN conns : Balanced(conns[c], HeldOf(c))'
  BY <1>1 DEF TcpInv, Balanced, HeldOf
<1> QED
  BY <1>2, <1>3, <1>4 DEF TcpInv

LEMMA ClientMoves ==
    ASSUME TcpInv, UNCHANGED <<conns, server>>,
           client' \in ClientTasks,
           client'.pc \in {"send", "recv", "pause", "close"} => client'.sock \in DOMAIN conns
    PROVE  TcpInv'
<1>1. TcpTypes' /\ SocketsOpen'
  BY DEF TcpInv, TcpTypes, SocketsOpen
<1>2. \A c \in DOMAIN conns : Balanced(conns[c], HeldOf(c))'
  BY DEF TcpInv, Balanced, HeldOf
<1> QED
  BY <1>1, <1>2 DEF TcpInv

(* A step on connection c that keeps its balance.                           *)
LEMMA ConnectionMoves ==
    ASSUME TcpInv, NEW c \in DOMAIN conns, NEW k \in Connections,
           DOMAIN conns' = DOMAIN conns,
           conns' = [conns EXCEPT ![c] = k],
           server' \in ServerTasks,
           client' \in ClientTasks,
           SocketsOpen',
           \A d \in DOMAIN conns \ {c} : HeldOf(d)' = HeldOf(d),
           Balanced(k, HeldOf(c)')
    PROVE  TcpInv'
<1>1. PICK n \in Nat : conns \in [1 .. n -> Connections]
  BY DEF TcpInv, TcpTypes
<1>2. conns' \in [1 .. n -> Connections]
  BY <1>1
<1>3. TcpTypes'
  BY <1>2 DEF TcpTypes
<1>4. \A d \in DOMAIN conns : Balanced(conns[d], HeldOf(d))'
  <2> TAKE d \in DOMAIN conns
  <2>1. CASE d = c
    BY <1>1, <2>1 DEF Balanced
  <2>2. CASE d # c
    BY <1>1, <2>2 DEF Balanced, TcpInv
  <2> QED
    BY <2>1, <2>2
<1> QED
  BY <1>3, <1>4 DEF TcpInv

(* What keeps a connection's balance.                                       *)
LEMMA ServerEndSet ==
    ASSUME NEW k \in Connections, NEW h \in Nat, Balanced(k, h), NEW v \in {"queued", "open", "closed"}
    PROVE  [k EXCEPT !.server = v] \in Connections /\ Balanced([k EXCEPT !.server = v], h)
<1> DEFINE l == [k EXCEPT !.server = v]
<1>1. l \in Connections
  BY DEF Connections
<1>2. /\ l.broken = k.broken /\ l.sent = k.sent /\ l.up = k.up /\ l.down = k.down
      /\ l.heard = k.heard
  BY DEF Connections
<1> QED
  BY <1>1, <1>2 DEF Balanced

LEMMA BytesTaken ==
    ASSUME NEW k \in Connections, Balanced(k, 0), NEW m \in Nat, m <= k.up
    PROVE  [k EXCEPT !.up = @ - m] \in Connections /\ Balanced([k EXCEPT !.up = @ - m], m)
<1> DEFINE l == [k EXCEPT !.up = @ - m]
<1>1. l \in Connections
  BY DEF Connections
<1>2. /\ l.broken = k.broken /\ l.sent = k.sent /\ l.up = k.up - m /\ l.down = k.down
      /\ l.heard = k.heard /\ k.up \in Nat /\ k.down \in Nat /\ k.heard \in Nat
  BY DEF Connections
<1> QED
  BY <1>1, <1>2 DEF Balanced

LEMMA BytesGiven ==
    ASSUME NEW k \in Connections, NEW h \in Nat, Balanced(k, h)
    PROVE  [k EXCEPT !.down = @ + h] \in Connections /\ Balanced([k EXCEPT !.down = @ + h], 0)
<1> DEFINE l == [k EXCEPT !.down = @ + h]
<1>1. l \in Connections
  BY DEF Connections
<1>2. /\ l.broken = k.broken /\ l.sent = k.sent /\ l.up = k.up /\ l.down = k.down + h
      /\ l.heard = k.heard /\ k.up \in Nat /\ k.down \in Nat /\ k.heard \in Nat
  BY DEF Connections
<1> QED
  BY <1>1, <1>2 DEF Balanced

(* accept(), recv(), send() and close() of the server.                      *)
LEMMA ServerSocketInv ==
    ASSUME TcpInv, proto = "tcp",
           tcp_server_accept \/ tcp_server_recv \/ tcp_server_send \/ tcp_server_close
    PROVE  TcpInv'
<1> USE DEF ServerAt, ServerGoes
<1>0. PICK n \in Nat : conns \in [1 .. n -> Connections]
  BY DEF TcpInv, TcpTypes
<1>1. /\ server \in ServerTasks
      /\ client \in ClientTasks
      /\ UNCHANGED client
  BY DEF TcpInv, TcpTypes, tcp_server_accept, tcp_server_recv, tcp_server_send, tcp_server_close
<1>2. /\ \A c \in DOMAIN conns : Balanced(conns[c], HeldOf(c)) /\ conns[c] \in Connections
      /\ SocketsOpen
  BY <1>0 DEF TcpInv
<1>3. ASSUME tcp_server_accept PROVE TcpInv'
  <2>1. PICK c \in DOMAIN conns :
          /\ server.pc = "accept"
          /\ server' = [server EXCEPT !.pc = "recv", !.sock = c]
          /\ conns' = [conns EXCEPT ![c].server = "open"]
    BY <1>3 DEF tcp_server_accept
  <2>2. PICK k \in Connections : k = [conns[c] EXCEPT !.server = "open"] /\ Balanced(k, 0)
    <3>1. conns[c] \in Connections /\ Balanced(conns[c], 0)
      BY <1>1, <1>2, <2>1 DEF Balanced, HeldOf, SocketsOpen
    <3> QED
      BY <3>1, ServerEndSet
  <2>3. conns' = [conns EXCEPT ![c] = k] /\ DOMAIN conns' = DOMAIN conns
    BY <1>0, <2>1, <2>2
  <2>4. /\ server'.pc = "recv" /\ server'.sock = c /\ server'.held = 0 /\ server.held = 0
        /\ server' \in ServerTasks
    <3>1. c \in Nat /\ server.held = 0
      BY <1>0, <1>2, <2>1 DEF SocketsOpen
    <3> QED
      BY <1>1, <2>1, <3>1 DEF ServerTasks
  <2>5. SocketsOpen' /\ \A d \in DOMAIN conns : HeldOf(d)' = HeldOf(d) /\ HeldOf(d)' = 0
    BY <1>1, <1>2, <2>3, <2>4 DEF SocketsOpen, HeldOf
  <2> QED
    BY <1>1, <2>2, <2>3, <2>4, <2>5, ConnectionMoves
<1>4. ASSUME tcp_server_recv PROVE TcpInv'
  <2>1. PICK c \in DOMAIN conns : c = server.sock /\ server.held = 0 /\ server.pc = "recv"
    BY <1>2, <1>4 DEF tcp_server_recv, SocketsOpen
  <2>2. CASE server' = [server EXCEPT !.pc = "close"] /\ UNCHANGED conns
    <3>1. PICK k \in Connections : k = conns[c] /\ Balanced(k, 0)
      BY <1>2, <2>1 DEF HeldOf
    <3>2. conns' = [conns EXCEPT ![c] = k] /\ DOMAIN conns' = DOMAIN conns
      BY <1>0, <2>2, <3>1
    <3>3. /\ server'.pc = "close" /\ server'.sock = c /\ server'.held = 0
          /\ server' \in ServerTasks
      BY <1>1, <2>1, <2>2 DEF ServerTasks
    <3>4. SocketsOpen' /\ \A d \in DOMAIN conns : HeldOf(d)' = HeldOf(d) /\ HeldOf(d)' = 0
      BY <1>1, <1>2, <2>1, <3>2, <3>3 DEF SocketsOpen, HeldOf
    <3> QED
      BY <1>1, <2>1, <3>1, <3>2, <3>3, <3>4, ConnectionMoves
  <2>3. ASSUME NEW m \in 1 .. atMost(conns[c].up, BufLen),
               conns' = [conns EXCEPT ![c].up = @ - m],
               server' = [server EXCEPT !.pc = "send", !.held = m]
        PROVE  TcpInv'
    <3>0. conns[c] \in Connections /\ m \in Nat /\ m <= conns[c].up
      BY <1>2, <2>1, <2>3, EchoAssumption DEF atMost, Connections
    <3>1. PICK k \in Connections : k = [conns[c] EXCEPT !.up = @ - m] /\ Balanced(k, m)
      <4>1. Balanced(conns[c], 0)
        BY <1>2, <2>1 DEF HeldOf
      <4> QED
        BY <3>0, <4>1, BytesTaken
    <3>2. conns' = [conns EXCEPT ![c] = k] /\ DOMAIN conns' = DOMAIN conns
      BY <1>0, <2>3, <3>1
    <3>3. /\ server'.pc = "send" /\ server'.sock = c /\ server'.held = m
          /\ server' \in ServerTasks
      BY <1>1, <2>1, <2>3, <3>0 DEF ServerTasks
    <3>4. SocketsOpen' /\ HeldOf(c)' = m /\ \A d \in DOMAIN conns \ {c} : HeldOf(d)' = HeldOf(d)
      BY <1>1, <1>2, <2>1, <3>2, <3>3 DEF SocketsOpen, HeldOf
    <3> QED
      BY <1>1, <2>1, <3>1, <3>2, <3>3, <3>4, ConnectionMoves
  <2> QED
    BY <1>4, <2>1, <2>2, <2>3 DEF tcp_server_recv
<1>5. ASSUME tcp_server_send PROVE TcpInv'
  <2>1. PICK c \in DOMAIN conns : c = server.sock /\ server.pc = "send" /\ conns[c] \in Connections
    BY <1>2, <1>5 DEF tcp_server_send, SocketsOpen
  <2>2. PICK k \in Connections :
          /\ k = IF conns[c].broken THEN conns[c]
                 ELSE [conns[c] EXCEPT !.down = @ + server.held]
          /\ Balanced(k, 0)
    <3>1. Balanced(conns[c], server.held) /\ server.held \in Nat
      BY <1>1, <1>2, <2>1 DEF HeldOf, ServerTasks
    <3>2. conns[c].broken => Balanced(conns[c], 0)
      BY DEF Balanced
    <3> QED
      BY <2>1, <3>1, <3>2, BytesGiven
  <2>3. conns' = [conns EXCEPT ![c] = k] /\ DOMAIN conns' = DOMAIN conns
    BY <1>0, <1>5, <2>1, <2>2 DEF tcp_server_send
  <2>4. /\ server'.pc \in {"recv", "close"} /\ server'.sock = c /\ server'.held = 0
        /\ server' \in ServerTasks
    <3>1. PICK at \in {"recv", "close"} : server' = [server EXCEPT !.pc = at, !.held = 0]
      BY <1>5 DEF tcp_server_send
    <3> QED
      BY <1>1, <2>1, <3>1 DEF ServerTasks
  <2>5. SocketsOpen' /\ HeldOf(c)' = 0 /\ \A d \in DOMAIN conns \ {c} : HeldOf(d)' = HeldOf(d)
    BY <1>1, <1>2, <2>1, <2>3, <2>4 DEF SocketsOpen, HeldOf
  <2> QED
    BY <1>1, <2>1, <2>2, <2>3, <2>4, <2>5, ConnectionMoves
<1>6. ASSUME tcp_server_close PROVE TcpInv'
  <2>1. PICK c \in DOMAIN conns : c = server.sock /\ conns[c] \in Connections /\ server.held = 0
    BY <1>2, <1>6 DEF tcp_server_close, SocketsOpen
  <2>2. PICK k \in Connections : k = [conns[c] EXCEPT !.server = "closed"] /\ Balanced(k, 0)
    <3>1. conns[c] \in Connections /\ Balanced(conns[c], 0)
      BY <1>2, <2>1 DEF Balanced, HeldOf
    <3> QED
      BY <3>1, ServerEndSet
  <2>3. conns' = [conns EXCEPT ![c] = k] /\ DOMAIN conns' = DOMAIN conns
    BY <1>0, <1>6, <2>1, <2>2 DEF tcp_server_close
  <2>4. /\ server'.pc = "socket" /\ server'.sock = 0 /\ server'.held = 0
        /\ server' \in ServerTasks
    BY <1>1, <1>6, <2>1 DEF tcp_server_close, ServerTasks
  <2>5. SocketsOpen' /\ \A d \in DOMAIN conns : HeldOf(d)' = HeldOf(d) /\ HeldOf(d)' = 0
    BY <1>1, <1>2, <2>1, <2>3, <2>4 DEF SocketsOpen, HeldOf
  <2> QED
    BY <1>1, <2>1, <2>2, <2>3, <2>4, <2>5, ConnectionMoves
<1> QED
  BY <1>3, <1>4, <1>5, <1>6

LEMMA BytesSent ==
    ASSUME NEW k \in Connections
    PROVE  LET l == [k EXCEPT !.up = @ + MsgLen, !.sent = @ + MsgLen]
           IN  l \in Connections /\ \A h \in Nat : Balanced(k, h) => Balanced(l, h)
<1> DEFINE j == [k EXCEPT !.up = @ + MsgLen]
           l == [k EXCEPT !.up = @ + MsgLen, !.sent = @ + MsgLen]
<1>0. j \in Connections
  BY EchoAssumption DEF Connections
<1>1. l \in Connections
  <2>1. l = [j EXCEPT !.sent = @ + MsgLen]
    OBVIOUS
  <2> HIDE DEF l, j
  <2> QED
    BY <1>0, <2>1, EchoAssumption DEF Connections
<1>2. /\ l.broken = k.broken /\ l.sent = k.sent + MsgLen /\ l.up = k.up + MsgLen
      /\ l.down = k.down /\ l.heard = k.heard
      /\ k.up \in Nat /\ k.down \in Nat /\ k.heard \in Nat /\ k.sent \in Nat
  BY DEF Connections
<1> QED
  BY <1>1, <1>2, EchoAssumption DEF Balanced

LEMMA BytesRead ==
    ASSUME NEW k \in Connections, NEW m \in Nat, m <= k.down
    PROVE  LET l == [k EXCEPT !.down = @ - m, !.heard = @ + m]
           IN  l \in Connections /\ \A h \in Nat : Balanced(k, h) => Balanced(l, h)
<1> DEFINE j == [k EXCEPT !.down = @ - m]
           l == [k EXCEPT !.down = @ - m, !.heard = @ + m]
<1>0. j \in Connections
  BY DEF Connections
<1>1. l \in Connections
  <2>1. l = [j EXCEPT !.heard = @ + m]
    OBVIOUS
  <2> HIDE DEF l, j
  <2> QED
    BY <1>0, <2>1 DEF Connections
<1>2. /\ l.broken = k.broken /\ l.sent = k.sent /\ l.up = k.up
      /\ l.down = k.down - m /\ l.heard = k.heard + m
      /\ k.up \in Nat /\ k.down \in Nat /\ k.heard \in Nat /\ k.sent \in Nat
  BY DEF Connections
<1> QED
  BY <1>1, <1>2 DEF Balanced

(* A step of the client on its connection: the server's end is as it was.   *)
LEMMA ClientEndMoves ==
    ASSUME TcpInv, UNCHANGED server, NEW c \in DOMAIN conns, NEW k \in Connections,
           conns' = [conns EXCEPT ![c] = k],
           \A h \in Nat : Balanced(conns[c], h) => Balanced(k, h),
           client' \in ClientTasks,
           client'.pc \in {"send", "recv", "pause", "close"} => client'.sock \in DOMAIN conns
    PROVE  TcpInv'
<1>0. DOMAIN conns' = DOMAIN conns
  OBVIOUS
<1>1. server' \in ServerTasks /\ SocketsOpen'
  BY <1>0 DEF TcpInv, TcpTypes, SocketsOpen
<1>2. \A d \in DOMAIN conns : HeldOf(d)' = HeldOf(d)
  BY DEF HeldOf
<1>3. HeldOf(c) \in Nat
  BY DEF TcpInv, TcpTypes, ServerTasks, HeldOf
<1>4. Balanced(k, HeldOf(c)')
  BY <1>2, <1>3 DEF TcpInv
<1> QED
  BY <1>0, <1>1, <1>2, <1>4, ConnectionMoves

LEMMA ClientSocketInv ==
    ASSUME TcpInv, proto = "tcp", tcp_client_send \/ tcp_client_recv \/ tcp_client_close
    PROVE  TcpInv'
<1> USE DEF ClientAt, ClientGoes
<1>0. PICK n \in Nat : conns \in [1 .. n -> Connections]
  BY DEF TcpInv, TcpTypes
<1>1. client \in ClientTasks /\ UNCHANGED server
  BY DEF TcpInv, TcpTypes, tcp_client_send, tcp_client_recv, tcp_client_close
<1>2. PICK c \in DOMAIN conns : c = client.sock /\ conns[c] \in Connections
  BY <1>0 DEF TcpInv, SocketsOpen, tcp_client_send, tcp_client_recv, tcp_client_close
<1>3. ASSUME NEW at \in {"close", "recv", "pause"}, client' = [client EXCEPT !.pc = at]
      PROVE  client' \in ClientTasks /\ client'.sock \in DOMAIN conns
  BY <1>1, <1>2, <1>3 DEF ClientTasks
<1>4. ASSUME NEW at \in {"close", "recv", "pause"}, client' = [client EXCEPT !.pc = at],
             UNCHANGED conns
      PROVE  TcpInv'
  BY <1>1, <1>3, <1>4, ClientMoves
<1>5. ASSUME tcp_client_send, ~conns[c].broken PROVE TcpInv'
  <2>1. conns' = [conns EXCEPT ![c].up = @ + MsgLen, ![c].sent = @ + MsgLen]
        /\ client' = [client EXCEPT !.pc = "recv"]
    BY <1>2, <1>5 DEF tcp_client_send
  <2>2. PICK k \in Connections : /\ k = [conns[c] EXCEPT !.up = @ + MsgLen, !.sent = @ + MsgLen]
                                 /\ \A h \in Nat : Balanced(conns[c], h) => Balanced(k, h)
    BY <1>2, BytesSent
  <2>3. conns' = [conns EXCEPT ![c] = k]
    BY <1>0, <2>1, <2>2
  <2> QED
    BY <1>1, <1>3, <2>1, <2>2, <2>3, ClientEndMoves
<1>6. ASSUME NEW m \in 1 .. atMost(conns[c].down, BufLen),
             conns' = [conns EXCEPT ![c].down = @ - m, ![c].heard = @ + m],
             client' = [client EXCEPT !.pc = "pause"]
      PROVE  TcpInv'
  <2>1. m \in Nat /\ m <= conns[c].down
    BY <1>2, <1>6, EchoAssumption DEF atMost, Connections
  <2>2. PICK k \in Connections : /\ k = [conns[c] EXCEPT !.down = @ - m, !.heard = @ + m]
                                 /\ \A h \in Nat : Balanced(conns[c], h) => Balanced(k, h)
    BY <1>2, <2>1, BytesRead
  <2>3. conns' = [conns EXCEPT ![c] = k]
    BY <1>0, <1>6, <2>2
  <2> QED
    BY <1>1, <1>3, <1>6, <2>2, <2>3, ClientEndMoves
<1>7. ASSUME tcp_client_close PROVE TcpInv'
  <2>1. PICK k \in Connections : /\ k = [conns[c] EXCEPT !.client = FALSE]
                                 /\ \A h \in Nat : Balanced(conns[c], h) => Balanced(k, h)
    <3> DEFINE k == [conns[c] EXCEPT !.client = FALSE]
    <3>1. /\ k \in Connections
          /\ k.broken = conns[c].broken /\ k.sent = conns[c].sent /\ k.up = conns[c].up
          /\ k.down = conns[c].down /\ k.heard = conns[c].heard
      BY <1>2 DEF Connections
    <3> QED
      BY <3>1 DEF Balanced
  <2>2. conns' = [conns EXCEPT ![c] = k]
    BY <1>0, <1>2, <1>7, <2>1 DEF tcp_client_close
  <2>3. client' \in ClientTasks /\ client'.pc = "socket"
    BY <1>7 DEF tcp_client_close, ClientTasks
  <2> QED
    BY <1>1, <2>1, <2>2, <2>3, ClientEndMoves
<1>8. CASE tcp_client_send
  BY <1>2, <1>4, <1>5, <1>8 DEF tcp_client_send
<1>9. CASE tcp_client_recv
  BY <1>2, <1>4, <1>6, <1>9 DEF tcp_client_recv
<1> QED
  BY <1>7, <1>8, <1>9

(* A new connection is empty, and not the one the server's socket is for.   *)
LEMMA ConnectInv ==
    ASSUME TcpInv, tcp_client_connect
    PROVE  TcpInv'
<1> USE DEF ClientAt, ClientGoes
<1>1. PICK n \in Nat : conns \in [1 .. n -> Connections]
  BY DEF TcpInv, TcpTypes
<1>2. Cardinality(DOMAIN conns) = n
  BY <1>1, FS_Interval
<1>3. client \in ClientTasks /\ server \in ServerTasks /\ SocketsOpen /\ UNCHANGED server
  BY DEF TcpInv, TcpTypes, tcp_client_connect
<1>4. CASE client' = [client EXCEPT !.pc = "socket"] /\ UNCHANGED conns
  <2>1. client' \in ClientTasks /\ client'.pc = "socket"
    BY <1>3, <1>4 DEF ClientTasks
  <2> QED
    BY <1>3, <1>4, <2>1, ClientMoves
<1>5. CASE /\ client' = [pc |-> "send", sock |-> n + 1]
           /\ conns' = [c \in 1 .. n + 1 |-> IF c = n + 1 THEN NewConn ELSE conns[c]]
  <2>1. NewConn \in Connections /\ Balanced(NewConn, 0)
    BY DEF NewConn, Connections, Balanced
  <2>2. conns' \in [1 .. n + 1 -> Connections]
    BY <1>1, <1>5, <2>1
  <2>3. client' \in ClientTasks /\ client'.sock = n + 1
    BY <1>5 DEF ClientTasks
  <2>4. TcpTypes'
    BY <1>3, <2>2, <2>3 DEF TcpTypes
  <2>5. SocketsOpen'
    BY <1>1, <1>3, <2>2, <2>3 DEF SocketsOpen
  <2>6. ASSUME NEW c \in DOMAIN conns' PROVE Balanced(conns[c], HeldOf(c))'
    <3>1. CASE c = n + 1
      <4>1. HeldOf(c)' = 0 /\ conns'[c] = NewConn
        BY <1>1, <1>3, <1>5, <3>1 DEF HeldOf, SocketsOpen
      <4> QED
        BY <2>1, <4>1 DEF Balanced
    <3>2. CASE c # n + 1
      <4>1. HeldOf(c)' = HeldOf(c) /\ conns'[c] = conns[c] /\ c \in DOMAIN conns
        BY <1>1, <1>3, <1>5, <2>2, <2>6, <3>2 DEF HeldOf
      <4> QED
        BY <4>1 DEF Balanced, TcpInv
    <3> QED
      BY <3>1, <3>2
  <2> QED
    BY <2>4, <2>5, <2>6 DEF TcpInv
<1> QED
  BY <1>2, <1>4, <1>5 DEF tcp_client_connect

(* The network breaks a connection: what was under way is gone.             *)
LEMMA BreakInv ==
    ASSUME TcpInv, NEW c \in DOMAIN conns, Break(c)
    PROVE  TcpInv'
<1>0. PICK n \in Nat : conns \in [1 .. n -> Connections]
  BY DEF TcpInv, TcpTypes
<1> DEFINE j == [conns[c] EXCEPT !.broken = TRUE]
           k == [conns[c] EXCEPT !.broken = TRUE, !.up = 0, !.down = 0]
<1>1. j \in Connections
  BY <1>0 DEF Connections
<1>2. k = [j EXCEPT !.up = 0, !.down = 0]
  OBVIOUS
<1>3. conns' = [conns EXCEPT ![c] = k] /\ UNCHANGED <<server, client>>
  BY <1>0 DEF Break
<1> HIDE DEF j, k
<1>4. k \in Connections
  BY <1>1, <1>2 DEF Connections
<1>5. k.broken
  <2>1. conns[c] \in Connections
    BY <1>0
  <2> QED
    BY <2>1 DEF Connections, k
<1>6. \A h \in Nat : Balanced(k, h)
  BY <1>5 DEF Balanced
<1>7. client' \in ClientTasks
      /\ (client'.pc \in {"send", "recv", "pause", "close"} => client'.sock \in DOMAIN conns)
  BY <1>3 DEF TcpInv, TcpTypes, SocketsOpen
<1>8. PICK l \in Connections : l = k
  BY <1>4
<1> QED
  BY <1>3, <1>6, <1>7, <1>8, ClientEndMoves

LEMMA EchoStep == EchoInv /\ [EchoNext]_echoVars => EchoInv'
<1> SUFFICES ASSUME EchoInv, [EchoNext]_echoVars PROVE EchoInv'
  OBVIOUS
<1>1. UNCHANGED proto
  BY DEF EchoNext, Server, Client, Break, Lose, Duplicate, Pause, echoVars,
     tcp_server_socket, tcp_server_bind, tcp_server_listen, tcp_server_accept,
     tcp_server_recv, tcp_server_send, tcp_server_close, tcp_client_socket,
     tcp_client_connect, tcp_client_send, tcp_client_recv, tcp_client_close,
     udp_server_socket, udp_server_bind, udp_server_recv, udp_server_send, udp_server_close,
     udp_client_socket, udp_client_send, udp_client_recv, udp_client_close
<1>2. CASE proto = "udp"
  <2>0. conns = <<>> /\ ~\E c \in DOMAIN conns : Break(c)
    BY <1>2 DEF EchoInv
  <2>1. UNCHANGED conns
    BY <1>2, <2>0 DEF ServerAt, ClientAt, EchoNext, Server, Client, Lose, Duplicate,
       Pause, echoVars, tcp_server_socket, tcp_server_bind, tcp_server_listen,
       tcp_server_accept, tcp_server_recv, tcp_server_send, tcp_server_close,
       tcp_client_socket, tcp_client_connect, tcp_client_send, tcp_client_recv,
       tcp_client_close, udp_server_socket, udp_server_bind, udp_server_recv,
       udp_server_send, udp_server_close, udp_client_socket, udp_client_send,
       udp_client_recv, udp_client_close
  <2> QED
    BY <1>1, <1>2, <2>1 DEF EchoInv
<1>3. CASE proto = "tcp"
  <2>0. TcpInv
    BY <1>3 DEF EchoInv
  <2>1. SUFFICES TcpInv'
    BY <1>1, <1>3 DEF EchoInv
  <2>2. CASE tcp_server_socket \/ tcp_server_bind \/ tcp_server_listen
    <3>1. \E at \in {"socket", "bind", "listen", "accept", "dead"} :
             server' = [server EXCEPT !.pc = at]
      BY <2>2 DEF tcp_server_socket, tcp_server_bind, tcp_server_listen, ServerGoes
    <3>2. UNCHANGED <<conns, client>> /\ server.pc # "send"
      BY <2>2 DEF tcp_server_socket, tcp_server_bind, tcp_server_listen, ServerAt
    <3> QED
      BY <2>0, <3>1, <3>2, ServerMoves
  <2>3. CASE tcp_client_socket \/ Pause
    <3>1. UNCHANGED <<conns, server>>
      BY <2>3 DEF tcp_client_socket, Pause
    <3>2. \/ \E at \in {"connect", "dead"} : client' = [client EXCEPT !.pc = at]
          \/ client.pc = "pause" /\ client' = [client EXCEPT !.pc = "send"]
      BY <2>3 DEF tcp_client_socket, Pause, ClientGoes
    <3>3. client \in ClientTasks /\ (client.pc = "pause" => client.sock \in DOMAIN conns)
      BY <2>0 DEF TcpInv, TcpTypes, SocketsOpen
    <3>4. client' \in ClientTasks
          /\ (client'.pc \in {"send", "recv", "pause", "close"} => client'.sock \in DOMAIN conns)
      BY <3>2, <3>3 DEF ClientTasks
    <3> QED
      BY <2>0, <3>1, <3>4, ClientMoves
  <2>4. CASE Lose \/ Duplicate \/ UNCHANGED echoVars
    <3>1. UNCHANGED <<conns, server, client>>
      BY <2>4 DEF Lose, Duplicate, echoVars
    <3>2. client' \in ClientTasks
          /\ (client'.pc \in {"send", "recv", "pause", "close"} => client'.sock \in DOMAIN conns)
      BY <2>0, <3>1 DEF TcpInv, TcpTypes, SocketsOpen
    <3> QED
      BY <2>0, <3>1, <3>2, ClientMoves
  <2>5. ~(udp_server_socket \/ udp_server_bind \/ udp_server_recv \/ udp_server_send
          \/ udp_server_close \/ udp_client_socket \/ udp_client_send \/ udp_client_recv
          \/ udp_client_close)
    BY <1>3 DEF ServerAt, ClientAt, udp_server_socket, udp_server_bind, udp_server_recv,
       udp_server_send, udp_server_close, udp_client_socket, udp_client_send,
       udp_client_recv, udp_client_close
  <2> QED
    BY <1>3, <2>0, <2>2, <2>3, <2>4, <2>5, ServerSocketInv, ClientSocketInv, ConnectInv,
       BreakInv DEF EchoNext, Server, Client
<1> QED
  BY <1>2, <1>3 DEF EchoInv

(* The inductive invariant of the echo programs: types, whom each end is    *)
(* connected to, and the balance of bytes of each connection.               *)
THEOREM EchoInvariant == EchoSpec => []EchoInv
  BY EchoInitInv, EchoStep, PTL DEF EchoSpec

(* The TCP echo server gives back what it was sent, no more and no less, in *)
(* whatever pieces recv() hands it over, for every length of message and    *)
(* buffer.                                                                  *)
THEOREM EachByteOnce == EchoSpec => []EveryByteOnce
<1>1. EchoInv => EveryByteOnce
  BY DEF EchoInv, TcpInv, Balanced, HeldOf, EveryByteOnce
<1> QED
  BY <1>1, EchoInvariant, PTL

--------------------------------------------------------------------------------
(* Two links between boards: ESP-NOW (module EspNow) and SPI (SpiLink).      *)
SendCbs == [id : {"SEND_CB"}, bcast : BOOLEAN]
RecvCbs == [id : {"RECV_CB"}, frame : Frames, damaged : BOOLEAN]
Events == SendCbs \cup RecvCbs
Params == [unicast : BOOLEAN, broadcast : BOOLEAN, state : {0, 1}, magic : Magics,
           count : Nat, buffer : Frames]

EspNowTypes ==
    /\ task \in [Devices -> {"delay", "run", "gone"}]
    /\ param \in [Devices -> Params]
    /\ queue \in [Devices -> Seq(Events)]
    /\ tx \in [Devices -> Seq(Frames)]
    /\ peers \in [Devices -> BOOLEAN]
    /\ unicasts \in [Devices -> Nat]

(* A frame carries the magic number of the device that sent it.             *)
MagicsTrue(d) ==
    /\ param[d].buffer.magic = param[d].magic
    /\ \A i \in 1 .. Len(tx[d]) : tx[d][i].magic = param[d].magic
    /\ \A i \in 1 .. Len(queue[d]) :
         queue[d][i].id = "RECV_CB" => queue[d][i].frame.magic = param[Other(d)].magic
    /\ param[d].unicast => param[d].magic >= param[Other(d)].magic

(* The unicast frames form one chain: each is sent when the callback of the *)
(* one before it is handled.                                                *)
OneUnderWay(d) ==
    \/ Unsent(d) = {} /\ \E i \in 1 .. Len(queue[d]) : Unhandled(d) = {i}
    \/ Unhandled(d) = {} /\ \E i \in 1 .. Len(tx[d]) : Unsent(d) = {i}

Chain(d) ==
    /\ unicasts[d] <= SendCount
    /\ task[d] = "gone" => tx[d] = <<>>
    /\ task[d] = "delay" =>
         tx[d] = <<>> /\ ~param[d].unicast /\ param[d].buffer.type = "BROADCAST"
    /\ task[d] # "gone" /\ ~param[d].unicast =>
         /\ Unsent(d) = {} /\ Unhandled(d) = {}
         /\ unicasts[d] = 0 /\ param[d].count = SendCount
    /\ task[d] # "gone" /\ param[d].unicast =>
         /\ param[d].count \in 1 .. SendCount
         /\ unicasts[d] = SendCount - param[d].count + 1
         /\ OneUnderWay(d)

EspNowInv == EspNowTypes /\ \A d \in Devices : MagicsTrue(d) /\ Chain(d)
-----------------------------------------------------------------------------
(* Where the members of S are, after a step on the queue.                   *)
LEMMA PlacesEmpty ==
    ASSUME NEW S PROVE Places(<<>>, S) = {}
  BY EmptySeq DEF Places

LEMMA PlacesAppend ==
    ASSUME NEW T, NEW S, NEW q \in Seq(T), NEW e \in T
    PROVE  /\ e \in S => Places(Append(q, e), S) = Places(q, S) \cup {Len(q) + 1}
           /\ e \notin S => Places(Append(q, e), S) = Places(q, S)
<1>1. /\ Len(Append(q, e)) = Len(q) + 1 /\ Len(q) \in Nat
      /\ Append(q, e)[Len(q) + 1] = e
      /\ \A i \in 1 .. Len(q) : Append(q, e)[i] = q[i]
  BY AppendProperties, LenProperties
<1> QED
  BY <1>1 DEF Places

LEMMA UnicastFramesAppend ==
    ASSUME NEW q \in Seq(Frames), NEW f \in Frames
    PROVE  /\ f \in UnicastFrames =>
                Places(Append(q, f), UnicastFrames) = Places(q, UnicastFrames) \cup {Len(q) + 1}
           /\ f \notin UnicastFrames =>
                Places(Append(q, f), UnicastFrames) = Places(q, UnicastFrames)
  BY PlacesAppend

LEMMA PlacesTail ==
    ASSUME NEW T, NEW S, NEW q \in Seq(T), q # <<>>
    PROVE  \A i \in Nat : i \in Places(Tail(q), S) <=> i >= 1 /\ i + 1 \in Places(q, S)
<1>1. /\ Len(Tail(q)) = Len(q) - 1 /\ Len(q) \in Nat \ {0}
      /\ \A i \in 1 .. Len(Tail(q)) : Tail(q)[i] = q[i + 1]
  BY HeadTailProperties, EmptySeq
<1> QED
  BY <1>1 DEF Places

LEMMA TailKeepsNone ==
    ASSUME NEW T, NEW S, NEW q \in Seq(T), q # <<>>, Places(q, S) = {}
    PROVE  Places(Tail(q), S) = {}
<1>1. Places(Tail(q), S) \subseteq Nat
  BY HeadTailProperties, LenProperties DEF Places
<1> QED
  BY <1>1, PlacesTail

(* The one is first and leaves, or it is not and stays.                     *)
LEMMA TailOfOne ==
    ASSUME NEW T, NEW S, NEW q \in Seq(T), q # <<>>,
           NEW i \in 1 .. Len(q), Places(q, S) = {i}
    PROVE  /\ Head(q) \in S => Places(Tail(q), S) = {}
           /\ Head(q) \notin S => \E j \in 1 .. Len(Tail(q)) : Places(Tail(q), S) = {j}
<1>1. Places(Tail(q), S) \subseteq Nat /\ Len(q) \in Nat \ {0} /\ Len(Tail(q)) = Len(q) - 1
  BY HeadTailProperties, LenProperties, EmptySeq DEF Places
<1>2. Head(q) = q[1]
  OBVIOUS
<1>3. Head(q) \in S <=> i = 1
  BY <1>1, <1>2 DEF Places
<1>4. CASE i = 1
  BY <1>1, <1>3, <1>4, PlacesTail
<1>5. CASE i # 1
  <2>1. i - 1 \in 1 .. Len(Tail(q))
    BY <1>1, <1>5
  <2>2. \A j \in Nat : j \in Places(Tail(q), S) <=> j >= 1 /\ j + 1 = i
    BY PlacesTail
  <2>3. Places(Tail(q), S) = {i - 1}
    BY <1>1, <2>1, <2>2
  <2> QED
    BY <1>3, <1>5, <2>1, <2>3
<1> QED
  BY <1>4, <1>5
-----------------------------------------------------------------------------
LEMMA TheOther ==
    ASSUME NEW d \in Devices
    PROVE  Other(d) \in Devices /\ Other(d) # d /\ Other(Other(d)) = d /\ Devices = {d, Other(d)}
  BY DEF Devices, Other

LEMMA EspNowInitInv == EspNowInit => EspNowInv
<1> SUFFICES ASSUME EspNowInit PROVE EspNowInv
  OBVIOUS
<1> USE EspNowAssumption
<1> DEFINE raw(m) == [unicast |-> FALSE, broadcast |-> TRUE, state |-> 0, magic |-> m,
                      count |-> SendCount, buffer |-> 0]
           begun(m) == data_prepare(raw(m), "BROADCAST")
<1>1. ASSUME NEW m \in Magics
      PROVE  /\ begun(m) \in Params
             /\ begun(m).buffer.magic = begun(m).magic /\ ~begun(m).unicast
             /\ begun(m).count = SendCount /\ begun(m).buffer.type = "BROADCAST"
  <2> DEFINE f == [type |-> "BROADCAST", state |-> 0, magic |-> m]
  <2>1. f \in Frames /\ f.magic = m /\ f.type = "BROADCAST"
    BY DEF Frames
  <2>2. begun(m) = [raw(m) EXCEPT !.buffer = f]
    BY DEF data_prepare
  <2> HIDE DEF begun, f
  <2>3. begun(m) \in Params
    BY <2>1, <2>2 DEF Params
  <2> QED
    BY <2>1, <2>2, <2>3
<1>3. param \in [Devices -> {begun(m) : m \in Magics}]
  BY Zenon DEF EspNowInit
<1> HIDE DEF begun
<1>4. \A d \in Devices : \E m \in Magics : param[d] = begun(m)
  BY <1>3
<1>5. EspNowTypes
  <2>1. param \in [Devices -> Params]
    BY <1>1, <1>3, <1>4
  <2> QED
    BY <2>1, EmptySeq DEF EspNowInit, EspNowTypes
<1>6. ASSUME NEW d \in Devices PROVE MagicsTrue(d) /\ Chain(d)
  <2>1. /\ task[d] = "delay" /\ queue[d] = <<>> /\ tx[d] = <<>> /\ unicasts[d] = 0
        /\ Len(queue[d]) = 0 /\ Len(tx[d]) = 0
    BY EmptySeq DEF EspNowInit
  <2>2. PICK m \in Magics : param[d] = begun(m)
    BY <1>4
  <2>3. /\ param[d].buffer.magic = param[d].magic /\ ~param[d].unicast
        /\ param[d].count = SendCount /\ param[d].buffer.type = "BROADCAST"
    BY <1>1, <2>2
  <2>4. MagicsTrue(d)
    BY <2>1, <2>3 DEF MagicsTrue
  <2>5. Unsent(d) = {} /\ Unhandled(d) = {}
    BY <2>1, PlacesEmpty DEF Unsent, Unhandled
  <2> QED
    BY <2>1, <2>3, <2>4, <2>5 DEF Chain
<1> QED
  BY <1>5, <1>6 DEF EspNowInv

(* The device that does not move: at the most a frame of the other arrives. *)
LEMMA Untouched ==
    ASSUME EspNowInv, NEW d \in Devices,
           task'[d] = task[d], param'[d] = param[d], tx'[d] = tx[d],
           unicasts'[d] = unicasts[d], param'[Other(d)].magic = param[Other(d)].magic,
           \/ queue'[d] = queue[d]
           \/ \E e \in RecvCbs : /\ e.frame.magic = param[Other(d)].magic
                                 /\ queue'[d] = Append(queue[d], e)
    PROVE  MagicsTrue(d)' /\ Chain(d)'
<1> USE DEF EspNowInv, EspNowTypes
<1>1. Unsent(d)' = Unsent(d)
  BY DEF Unsent
<1>2. CASE queue'[d] = queue[d]
  <2>1. Unhandled(d)' = Unhandled(d)
    BY <1>2 DEF Unhandled
  <2>2. MagicsTrue(d)'
    BY <1>2 DEF MagicsTrue
  <2>3. OneUnderWay(d)' <=> OneUnderWay(d)
    BY <1>1, <1>2, <2>1 DEF OneUnderWay
  <2>4. Chain(d)'
    BY <1>1, <2>1, <2>3 DEF Chain
  <2> QED
    BY <2>2, <2>4
<1>3. ASSUME NEW e \in RecvCbs, e.frame.magic = param[Other(d)].magic,
             queue'[d] = Append(queue[d], e)
      PROVE  MagicsTrue(d)' /\ Chain(d)'
  <2>1. /\ queue[d] \in Seq(Events) /\ e \in Events
        /\ Len(queue[d]) \in Nat
    BY LenProperties DEF Events
  <2>2. /\ Len(queue'[d]) = Len(queue[d]) + 1 /\ queue'[d][Len(queue[d]) + 1] = e
        /\ \A i \in 1 .. Len(queue[d]) : queue'[d][i] = queue[d][i]
    BY <1>3, <2>1, AppendProperties
  <2>3. e \notin UnicastCbs
    BY DEF RecvCbs, UnicastCbs
  <2>4. Unhandled(d)' = Unhandled(d)
    BY <1>3, <2>1, <2>3, PlacesAppend DEF Unhandled
  <2>5. MagicsTrue(d)'
    <3>1. ASSUME NEW i \in 1 .. Len(queue'[d]), queue'[d][i].id = "RECV_CB"
          PROVE  queue'[d][i].frame.magic = param'[Other(d)].magic
      <4>1. CASE i = Len(queue[d]) + 1
        BY <1>3, <2>2, <4>1
      <4>2. CASE i # Len(queue[d]) + 1
        <5>1. i \in 1 .. Len(queue[d])
          BY <2>1, <2>2, <4>2
        <5> QED
          BY <2>2, <3>1, <5>1 DEF MagicsTrue
      <4> QED
        BY <4>1, <4>2
    <3> QED
      BY <3>1 DEF MagicsTrue
  <2>6. OneUnderWay(d) => OneUnderWay(d)'
    <3>1. \A i \in 1 .. Len(queue[d]) : i \in 1 .. Len(queue'[d])
      BY <2>1, <2>2
    <3> QED
      BY <1>1, <2>4, <3>1 DEF OneUnderWay
  <2>7. Chain(d)'
    BY <1>1, <2>4, <2>6 DEF Chain
  <2> QED
    BY <2>5, <2>7
<1> QED
  BY <1>2, <1>3

(* The queue of device d without its first event is still true to the other *)
(* device.                                                                  *)
LEMMA TailTrue ==
    ASSUME EspNowInv, NEW d \in Devices, queue[d] # <<>>,
           queue'[d] = Tail(queue[d]), param'[Other(d)].magic = param[Other(d)].magic
    PROVE  \A i \in 1 .. Len(queue'[d]) :
             queue'[d][i].id = "RECV_CB" => queue'[d][i].frame.magic = param'[Other(d)].magic
<1>1. queue[d] \in Seq(Events)
  BY DEF EspNowInv, EspNowTypes
<1>2. /\ Len(Tail(queue[d])) = Len(queue[d]) - 1 /\ Len(queue[d]) \in Nat
      /\ \A i \in 1 .. Len(Tail(queue[d])) : Tail(queue[d])[i] = queue[d][i + 1]
  BY <1>1, HeadTailProperties, EmptySeq
<1>3. \A i \in 1 .. Len(queue[d]) :
        queue[d][i].id = "RECV_CB" => queue[d][i].frame.magic = param[Other(d)].magic
  BY DEF EspNowInv, MagicsTrue
<1>4. \A i \in 1 .. Len(queue'[d]) : i + 1 \in 1 .. Len(queue[d])
  BY <1>2
<1> QED
  BY <1>2, <1>3, <1>4

(* The tasks end: nothing is under way on the device any more.              *)
LEMMA DeinitInv ==
    ASSUME EspNowInv, NEW d \in Devices, deinit(d)
    PROVE  EspNowInv'
<1> USE TheOther, EmptySeq
<1>1. EspNowTypes'
  BY DEF EspNowInv, EspNowTypes, deinit
<1>2. /\ task'[d] = "gone" /\ queue'[d] = <<>> /\ tx'[d] = <<>>
      /\ task'[Other(d)] = task[Other(d)] /\ queue'[Other(d)] = queue[Other(d)]
      /\ tx'[Other(d)] = tx[Other(d)] /\ param' = param /\ unicasts' = unicasts
  BY DEF EspNowInv, EspNowTypes, deinit
<1>3. MagicsTrue(d)' /\ Chain(d)'
  <2>1. MagicsTrue(d)'
    BY <1>2 DEF EspNowInv, MagicsTrue
  <2>2. Chain(d)'
    BY <1>2 DEF EspNowInv, Chain
  <2> QED
    BY <2>1, <2>2
<1>4. MagicsTrue(Other(d))' /\ Chain(Other(d))'
  BY <1>2, Untouched
<1> QED
  BY <1>1, <1>3, <1>4 DEF EspNowInv

(* Another event is taken: a callback of a unicast frame stays where it is. *)
LEMMA OtherEventTaken ==
    ASSUME NEW d \in Devices, queue[d] \in Seq(Events), queue[d] # <<>>,
           Head(queue[d]) \notin UnicastCbs, queue'[d] = Tail(queue[d])
    PROVE  /\ Unhandled(d) = {} => Unhandled(d)' = {}
           /\ \A i \in 1 .. Len(queue[d]) : Unhandled(d) = {i} =>
                \E j \in 1 .. Len(queue'[d]) : Unhandled(d)' = {j}
<1>1. Unhandled(d) = Places(queue[d], UnicastCbs)
  BY DEF Unhandled
<1>2. Unhandled(d)' = Places(Tail(queue[d]), UnicastCbs)
  BY DEF Unhandled
<1>3. Unhandled(d) = {} => Unhandled(d)' = {}
  BY <1>1, <1>2, TailKeepsNone
<1>4. ASSUME NEW i \in 1 .. Len(queue[d]), Unhandled(d) = {i}
      PROVE  \E j \in 1 .. Len(queue'[d]) : Unhandled(d)' = {j}
  BY <1>1, <1>2, <1>4, TailOfOne
<1> QED
  BY <1>3, <1>4

(* An event that is not the callback of a unicast frame is handled and      *)
(* nothing is sent.                                                         *)
LEMMA HandledInv ==
    ASSUME EspNowInv, NEW d \in Devices, NEW p \in Params,
           task[d] = "run", queue[d] # <<>>, Head(queue[d]) \notin UnicastCbs,
           queue' = [queue EXCEPT ![d] = Tail(@)], param' = [param EXCEPT ![d] = p],
           p.unicast = param[d].unicast, p.magic = param[d].magic,
           p.count = param[d].count, p.buffer = param[d].buffer,
           task' = task, tx' = tx, unicasts' = unicasts, peers' \in [Devices -> BOOLEAN]
    PROVE  EspNowInv'
<1> Other(d) \in Devices /\ Other(d) # d /\ Other(Other(d)) = d /\ Devices = {d, Other(d)}
  BY TheOther
<1>1. /\ queue[d] \in Seq(Events) /\ Tail(queue[d]) \in Seq(Events)
      /\ queue'[d] = Tail(queue[d]) /\ queue'[Other(d)] = queue[Other(d)]
      /\ param'[d] = p /\ param'[Other(d)] = param[Other(d)]
  BY HeadTailProperties DEF EspNowInv, EspNowTypes
<1>2. EspNowTypes'
  BY <1>1 DEF EspNowInv, EspNowTypes
<1>3. MagicsTrue(d)'
  <2>1. \A i \in 1 .. Len(queue'[d]) :
          queue'[d][i].id = "RECV_CB" => queue'[d][i].frame.magic = param'[Other(d)].magic
    BY <1>1, TailTrue
  <2> QED
    BY <1>1, <2>1 DEF EspNowInv, MagicsTrue
<1>4. Unsent(d)' = Unsent(d)
  BY DEF Unsent
<1>5. /\ Unhandled(d) = {} => Unhandled(d)' = {}
      /\ \A i \in 1 .. Len(queue[d]) : Unhandled(d) = {i} =>
           \E j \in 1 .. Len(queue'[d]) : Unhandled(d)' = {j}
  BY <1>1, OtherEventTaken
<1>6. OneUnderWay(d) => OneUnderWay(d)'
  BY <1>4, <1>5 DEF OneUnderWay
<1>7. Chain(d)'
  BY <1>1, <1>4, <1>5, <1>6 DEF EspNowInv, Chain
<1>8. MagicsTrue(Other(d))' /\ Chain(Other(d))'
  BY <1>1, Untouched
<1> QED
  BY <1>2, <1>3, <1>7, <1>8 DEF EspNowInv

(* What esp_now_send() of the buffer of p does to the types and to the      *)
(* magic numbers, with the event in hand taken out of the queue or not.     *)
LEMMA SentInv ==
    ASSUME EspNowInv, NEW d \in Devices, NEW p \in Params, esp_now_send(d, p),
           p.magic = param[d].magic, p.buffer.magic = p.magic,
           p.unicast => p.magic >= param[Other(d)].magic,
           \/ queue' = queue
           \/ queue[d] # <<>> /\ queue' = [queue EXCEPT ![d] = Tail(@)],
           task' = [task EXCEPT ![d] = "run"], peers' \in [Devices -> BOOLEAN],
           Chain(d)'
    PROVE  EspNowInv'
<1> Other(d) \in Devices /\ Other(d) # d /\ Other(Other(d)) = d /\ Devices = {d, Other(d)}
  BY TheOther
<1>1. /\ queue[d] \in Seq(Events)
      /\ \/ queue'[d] = queue[d]
         \/ queue[d] # <<>> /\ queue'[d] = Tail(queue[d])
      /\ queue'[Other(d)] = queue[Other(d)] /\ queue' \in [Devices -> Seq(Events)]
  <2>1. queue[d] \in Seq(Events) /\ queue \in [Devices -> Seq(Events)]
    BY DEF EspNowInv, EspNowTypes
  <2>2. queue[d] # <<>> => Tail(queue[d]) \in Seq(Events)
    BY <2>1, HeadTailProperties
  <2>3. CASE queue' = queue
    BY <2>1, <2>2, <2>3
  <2>4. CASE queue[d] # <<>> /\ queue' = [queue EXCEPT ![d] = Tail(@)]
    BY <2>1, <2>2, <2>4
  <2> QED
    BY <2>3, <2>4
<1>2. /\ tx[d] \in Seq(Frames) /\ Append(tx[d], p.buffer) \in Seq(Frames)
      /\ p.buffer \in Frames /\ Len(tx[d]) \in Nat
  BY AppendProperties, LenProperties DEF EspNowInv, EspNowTypes, Params
<1>3. /\ tx' = [tx EXCEPT ![d] = Append(@, p.buffer)] /\ param' = [param EXCEPT ![d] = p]
      /\ unicasts' \in [Devices -> Nat] /\ unicasts'[Other(d)] = unicasts[Other(d)]
  BY DEF esp_now_send, EspNowInv, EspNowTypes
<1>4. /\ tx'[d] = Append(tx[d], p.buffer) /\ tx'[Other(d)] = tx[Other(d)]
      /\ param'[d] = p /\ param'[Other(d)] = param[Other(d)]
      /\ task'[d] = "run" /\ task'[Other(d)] = task[Other(d)]
  BY <1>3 DEF EspNowInv, EspNowTypes
<1>5. EspNowTypes'
  <2>1. tx' \in [Devices -> Seq(Frames)]
    BY <1>2, <1>3 DEF EspNowInv, EspNowTypes
  <2>2. param' \in [Devices -> Params] /\ task' \in [Devices -> {"delay", "run", "gone"}]
    BY <1>3 DEF EspNowInv, EspNowTypes
  <2> QED
    BY <1>1, <1>3, <2>1, <2>2 DEF EspNowTypes
<1>6. MagicsTrue(d)'
  <2>1. \A i \in 1 .. Len(queue'[d]) :
          queue'[d][i].id = "RECV_CB" => queue'[d][i].frame.magic = param'[Other(d)].magic
    <3>1. CASE queue'[d] = queue[d]
      BY <1>4, <3>1 DEF EspNowInv, MagicsTrue
    <3>2. CASE queue[d] # <<>> /\ queue'[d] = Tail(queue[d])
      BY <1>4, <3>2, TailTrue
    <3> QED
      BY <1>1, <3>1, <3>2
  <2>2. /\ Len(tx'[d]) = Len(tx[d]) + 1 /\ tx'[d][Len(tx[d]) + 1] = p.buffer
        /\ \A i \in 1 .. Len(tx[d]) : tx'[d][i] = tx[d][i]
    BY <1>2, <1>4, AppendProperties
  <2>3. ASSUME NEW i \in 1 .. Len(tx'[d]) PROVE tx'[d][i].magic = p.magic
    <3>1. CASE i = Len(tx[d]) + 1
      BY <2>2, <3>1
    <3>2. CASE i # Len(tx[d]) + 1
      <4>1. i \in 1 .. Len(tx[d])
        BY <1>2, <2>2, <3>2
      <4> QED
        BY <2>2, <4>1 DEF EspNowInv, MagicsTrue
    <3> QED
      BY <3>1, <3>2
  <2> QED
    BY <1>4, <2>1, <2>3 DEF MagicsTrue
<1>7. MagicsTrue(Other(d))' /\ Chain(Other(d))'
  BY <1>1, <1>3, <1>4, Untouched
<1> QED
  BY <1>5, <1>6, <1>7 DEF EspNowInv

(* The radio takes the first frame; the sender's callback enters its queue  *)
(* and the frame may enter the queue of the other device.                   *)
LEMMA SendingInv ==
    ASSUME EspNowInv, NEW d \in Devices, Sending(d)
    PROVE  EspNowInv'
<1> Other(d) \in Devices /\ Other(d) # d /\ Other(Other(d)) = d /\ Devices = {d, Other(d)}
  BY TheOther
<1> DEFINE o == Other(d)
           cb == [id |-> "SEND_CB", bcast |-> Head(tx[d]).type = "BROADCAST"]
           ev(b) == [id |-> "RECV_CB", frame |-> Head(tx[d]), damaged |-> b]
<1>1. /\ tx[d] # <<>> /\ tx' = [tx EXCEPT ![d] = Tail(@)]
      /\ task' = task /\ param' = param /\ peers' = peers /\ unicasts' = unicasts
  BY DEF Sending, Lost, Heard, Transmit
<1>2. /\ tx[d] \in Seq(Frames) /\ queue[d] \in Seq(Events) /\ queue[o] \in Seq(Events)
      /\ Len(queue[d]) \in Nat /\ queue \in [Devices -> Seq(Events)]
  BY LenProperties DEF EspNowInv, EspNowTypes
<1>3. /\ Head(tx[d]) \in Frames /\ Tail(tx[d]) \in Seq(Frames)
      /\ Head(tx[d]).magic = param[d].magic /\ Head(tx[d]) = tx[d][1]
  <2>1. Len(tx[d]) \in Nat \ {0} /\ Head(tx[d]) = tx[d][1]
    BY <1>1, <1>2, EmptySeq, LenProperties
  <2> QED
    BY <1>1, <1>2, <2>1, HeadTailProperties DEF EspNowInv, MagicsTrue
<1>4. /\ cb \in Events /\ cb.id = "SEND_CB"
      /\ cb \in UnicastCbs <=> Head(tx[d]) \in UnicastFrames
  BY <1>3 DEF Events, SendCbs, UnicastCbs, UnicastFrames, Frames
<1>ev. \A b \in BOOLEAN : ev(b) \in RecvCbs /\ ev(b).frame.magic = param[d].magic
  BY <1>3 DEF RecvCbs
<1> DEFINE Arrived == \E e \in RecvCbs : /\ e.frame.magic = param[d].magic
                                          /\ queue'[o] = Append(queue[o], e)
           Queued == /\ queue'[d] = Append(queue[d], cb) /\ (queue'[o] = queue[o] \/ Arrived)
                     /\ DOMAIN queue' = Devices /\ queue' = [x \in Devices |-> queue'[x]]
<1>5. Queued
  <2>1. CASE Lost(d)
    <3>1. queue' = [queue EXCEPT ![d] = Append(@, cb)]
      BY <2>1 DEF Lost, Transmit, example_espnow_send_cb
    <3> QED
      BY <1>2, <3>1
  <2>2. ASSUME NEW b \in BOOLEAN, Heard(d, b)
        PROVE  Queued
    <3>1. queue' = [[queue EXCEPT ![o] = Append(@, ev(b))] EXCEPT ![d] = Append(@, cb)]
      BY <2>2 DEF Heard, Transmit, example_espnow_send_cb, example_espnow_recv_cb
    <3> HIDE DEF ev, cb
    <3>2. queue'[d] = Append(queue[d], cb) /\ queue'[o] = Append(queue[o], ev(b))
      BY <1>2, <3>1
    <3>3. DOMAIN queue' = Devices /\ queue' = [x \in Devices |-> queue'[x]]
      BY <1>2, <3>1
    <3> QED
      BY <1>ev, <3>2, <3>3
  <2> HIDE DEF Queued
  <2> QED
    BY <2>1, <2>2 DEF Sending
<1> HIDE DEF cb, ev
<1>6. EspNowTypes'
  <2>1. queue'[d] \in Seq(Events)
    BY <1>2, <1>4, <1>5, AppendProperties
  <2>2. queue'[o] \in Seq(Events)
    <3>1. ASSUME NEW e \in RecvCbs, queue'[o] = Append(queue[o], e) PROVE queue'[o] \in Seq(Events)
      BY <1>2, <3>1, AppendProperties DEF Events
    <3> QED
      BY <1>2, <1>5, <3>1
  <2>3. queue' \in [Devices -> Seq(Events)]
    BY <1>5, <2>1, <2>2
  <2> QED
    BY <1>1, <1>3, <2>3 DEF EspNowInv, EspNowTypes
<1>7. tx'[d] = Tail(tx[d]) /\ tx'[o] = tx[o]
  BY <1>1 DEF EspNowInv, EspNowTypes
<1>8. MagicsTrue(d)'
  <2>1. /\ Len(queue'[d]) = Len(queue[d]) + 1 /\ queue'[d][Len(queue[d]) + 1] = cb
        /\ \A i \in 1 .. Len(queue[d]) : queue'[d][i] = queue[d][i]
    BY <1>2, <1>4, <1>5, AppendProperties
  <2>2. ASSUME NEW i \in 1 .. Len(queue'[d]), queue'[d][i].id = "RECV_CB"
        PROVE  queue'[d][i].frame.magic = param'[o].magic
    <3>1. i # Len(queue[d]) + 1
      BY <1>4, <2>1, <2>2
    <3>2. i \in 1 .. Len(queue[d])
      BY <1>2, <2>1, <3>1
    <3> QED
      BY <1>1, <2>1, <2>2, <3>2 DEF EspNowInv, MagicsTrue
  <2>3. /\ Len(tx'[d]) = Len(tx[d]) - 1 /\ Len(tx[d]) \in Nat
        /\ \A i \in 1 .. Len(tx'[d]) : tx'[d][i] = tx[d][i + 1]
    <3>1. /\ Len(Tail(tx[d])) = Len(tx[d]) - 1
          /\ \A i \in 1 .. Len(Tail(tx[d])) : Tail(tx[d])[i] = tx[d][i + 1]
      BY <1>1, <1>2, HeadTailProperties
    <3> QED
      BY <1>2, <1>7, <3>1, LenProperties
  <2>4. ASSUME NEW i \in 1 .. Len(tx'[d]) PROVE tx'[d][i].magic = param'[d].magic
    <3>1. i + 1 \in 1 .. Len(tx[d])
      BY <2>3
    <3> QED
      BY <1>1, <2>3, <3>1 DEF EspNowInv, MagicsTrue
  <2> QED
    BY <1>1, <2>2, <2>4 DEF EspNowInv, MagicsTrue
<1>9. /\ Unsent(d) = Places(tx[d], UnicastFrames) /\ Unhandled(d) = Places(queue[d], UnicastCbs)
      /\ Unsent(d)' = Places(Tail(tx[d]), UnicastFrames)
      /\ Unhandled(d)' = Places(Append(queue[d], cb), UnicastCbs)
  BY <1>5, <1>7 DEF Unsent, Unhandled
<1>cb. /\ Head(tx[d]) \notin UnicastFrames => Unhandled(d)' = Unhandled(d)
       /\ Head(tx[d]) \in UnicastFrames => Unhandled(d)' = Unhandled(d) \cup {Len(queue[d]) + 1}
  BY <1>2, <1>4, <1>9, PlacesAppend
<1>10. Unsent(d) = {} => /\ Head(tx[d]) \notin UnicastFrames
                         /\ Unsent(d)' = {} /\ Unhandled(d)' = Unhandled(d)
  <2>1. Len(tx[d]) \in Nat \ {0}
    BY <1>1, <1>2, EmptySeq, LenProperties
  <2>2. Unsent(d) = {} => Head(tx[d]) \notin UnicastFrames
    BY <1>3, <2>1 DEF Unsent, Places
  <2>3. Unsent(d) = {} => Unsent(d)' = {}
    BY <1>1, <1>2, <1>9, TailKeepsNone
  <2> QED
    BY <1>cb, <2>2, <2>3
<1>11. OneUnderWay(d) => OneUnderWay(d)'
  <2>1. Len(queue'[d]) = Len(queue[d]) + 1
    BY <1>2, <1>4, <1>5, AppendProperties
  <2>2. ASSUME Unsent(d) = {}, NEW i \in 1 .. Len(queue[d]), Unhandled(d) = {i}
        PROVE  OneUnderWay(d)'
    <3>1. i \in 1 .. Len(queue'[d])
      BY <1>2, <2>1
    <3> QED
      BY <1>10, <2>2, <3>1 DEF OneUnderWay
  <2>3. ASSUME Unhandled(d) = {}, NEW i \in 1 .. Len(tx[d]), Unsent(d) = {i}
        PROVE  OneUnderWay(d)'
    <3>1. CASE Head(tx[d]) \in UnicastFrames
      <4>1. Unsent(d)' = {}
        <5>1. Places(tx[d], UnicastFrames) = {i} /\ tx[d] \in Seq(Frames) /\ tx[d] # <<>>
          BY <1>1, <1>2, <1>9, <2>3, Zenon
        <5>2. Places(Tail(tx[d]), UnicastFrames) = {}
          BY <3>1, <5>1, TailOfOne, Zenon
        <5> QED
          BY <1>9, <5>2, Zenon
      <4>2. Unhandled(d)' = {Len(queue[d]) + 1}
        BY <1>cb, <2>3, <3>1
      <4>3. Len(queue[d]) + 1 \in 1 .. Len(queue'[d])
        BY <1>2, <2>1
      <4> QED
        BY <4>1, <4>2, <4>3 DEF OneUnderWay
    <3>2. CASE Head(tx[d]) \notin UnicastFrames
      <4>1. \E j \in 1 .. Len(tx'[d]) : Unsent(d)' = {j}
        <5>1. Places(tx[d], UnicastFrames) = {i} /\ tx[d] \in Seq(Frames) /\ tx[d] # <<>>
          BY <1>1, <1>2, <1>9, <2>3, Zenon
        <5>2. \E j \in 1 .. Len(Tail(tx[d])) : Places(Tail(tx[d]), UnicastFrames) = {j}
          BY <3>2, <5>1, TailOfOne, Zenon
        <5> QED
          BY <1>7, <1>9, <5>2, Zenon
      <4>2. Unhandled(d)' = {}
        BY <1>cb, <2>3, <3>2
      <4> QED
        BY <4>1, <4>2 DEF OneUnderWay
    <3> QED
      BY <3>1, <3>2
  <2> QED
    BY <2>2, <2>3 DEF OneUnderWay
<1>12. Chain(d)'
  <2>1. task[d] = "run"
    BY <1>1 DEF EspNowInv, EspNowTypes, Chain
  <2> QED
    BY <1>1, <1>10, <1>11, <2>1 DEF EspNowInv, Chain
<1>13. MagicsTrue(o)' /\ Chain(o)'
  BY <1>1, <1>5, <1>7, Untouched
<1> QED
  BY <1>6, <1>8, <1>12, <1>13 DEF EspNowInv

(* The first broadcast.                                                     *)
LEMMA FirstSendInv ==
    ASSUME EspNowInv, NEW d \in Devices, FirstSend(d)
    PROVE  EspNowInv'
<1>1. CASE deinit(d)
  BY <1>1, DeinitInv
<1>2. CASE /\ task[d] = "delay" /\ esp_now_send(d, param[d])
           /\ task' = [task EXCEPT ![d] = "run"] /\ queue' = queue /\ peers' = peers
  <2>1. /\ param[d] \in Params /\ param[d].buffer.type = "BROADCAST" /\ ~param[d].unicast
        /\ param[d].buffer \in Frames /\ task'[d] = "run" /\ peers' \in [Devices -> BOOLEAN]
        /\ tx[d] = <<>> /\ tx[d] \in Seq(Frames) /\ param[d].buffer.magic = param[d].magic
    BY <1>2 DEF EspNowInv, EspNowTypes, Chain, MagicsTrue, Params
  <2>2. /\ unicasts' = unicasts /\ param'[d] = param[d]
        /\ tx'[d] = Append(tx[d], param[d].buffer)
    BY <1>2, <2>1 DEF esp_now_send, EspNowInv, EspNowTypes
  <2>3. Unsent(d) = {} /\ Unhandled(d) = {} /\ unicasts[d] = 0 /\ param[d].count = SendCount
    BY <1>2, <2>1 DEF EspNowInv, Chain
  <2>4. param[d].buffer \notin UnicastFrames
    BY <2>1 DEF UnicastFrames
  <2>5. Unsent(d)' = {} /\ Unhandled(d)' = {}
    <3>1. Places(Append(tx[d], param[d].buffer), UnicastFrames) = Places(tx[d], UnicastFrames)
      BY <2>1, <2>4, UnicastFramesAppend
    <3> QED
      BY <1>2, <2>2, <2>3, <3>1 DEF Unsent, Unhandled
  <2>6. Chain(d)'
    BY <2>1, <2>2, <2>3, <2>5, EspNowAssumption DEF Chain
  <2> QED
    BY <1>2, <2>1, <2>6, SentInv
<1> QED
  BY <1>1, <1>2 DEF FirstSend

(* A broadcast follows another event: the unicast chain is as it was.       *)
LEMMA BroadcastInv ==
    ASSUME EspNowInv, NEW d \in Devices, NEW p \in Params, esp_now_send(d, p),
           task[d] = "run", task' = task, peers' = peers,
           queue[d] # <<>>, Head(queue[d]) \notin UnicastCbs,
           queue' = [queue EXCEPT ![d] = Tail(@)],
           p.buffer.type = "BROADCAST", p.unicast = param[d].unicast,
           p.count = param[d].count, p.magic = param[d].magic, p.buffer.magic = p.magic
    PROVE  EspNowInv'
<1>1. /\ queue[d] \in Seq(Events) /\ queue'[d] = Tail(queue[d]) /\ tx[d] \in Seq(Frames)
      /\ p.buffer \in Frames /\ p.buffer \notin UnicastFrames
      /\ task' = [task EXCEPT ![d] = "run"] /\ peers' \in [Devices -> BOOLEAN]
  BY DEF EspNowInv, EspNowTypes, UnicastFrames, Params
<1>2. /\ unicasts' = unicasts /\ param'[d] = p /\ tx'[d] = Append(tx[d], p.buffer)
  BY DEF esp_now_send, EspNowInv, EspNowTypes
<1>3. Unsent(d)' = Unsent(d)
  <2>1. Places(Append(tx[d], p.buffer), UnicastFrames) = Places(tx[d], UnicastFrames)
    BY <1>1, UnicastFramesAppend
  <2> QED
    BY <1>2, <2>1 DEF Unsent
<1>4. /\ Unhandled(d) = {} => Unhandled(d)' = {}
      /\ \A i \in 1 .. Len(queue[d]) : Unhandled(d) = {i} =>
           \E j \in 1 .. Len(queue'[d]) : Unhandled(d)' = {j}
  BY <1>1, OtherEventTaken
<1>5. OneUnderWay(d) => OneUnderWay(d)'
  <2>1. Len(tx'[d]) = Len(tx[d]) + 1 /\ Len(tx[d]) \in Nat
    BY <1>1, <1>2, AppendProperties, LenProperties
  <2>2. \A i \in 1 .. Len(tx[d]) : i \in 1 .. Len(tx'[d])
    BY <2>1
  <2> QED
    BY <1>3, <1>4, <2>2 DEF OneUnderWay
<1>6. Chain(d)'
  BY <1>2, <1>3, <1>4, <1>5 DEF EspNowInv, Chain
<1>7. p.unicast => p.magic >= param[Other(d)].magic
  BY DEF EspNowInv, MagicsTrue
<1> QED
  BY <1>1, <1>6, <1>7, SentInv

(* A unicast frame is sent while no other one is under way: the first one,  *)
(* or the next one once the callback of the last one is taken.              *)
LEMMA UnicastInv ==
    ASSUME EspNowInv, NEW d \in Devices, NEW p \in Params, esp_now_send(d, p),
           task[d] = "run", task' = task, peers' \in [Devices -> BOOLEAN],
           queue[d] # <<>>, queue' = [queue EXCEPT ![d] = Tail(@)],
           p.buffer.type = "UNICAST", p.unicast = TRUE,
           p.count \in 1 .. SendCount, unicasts[d] = SendCount - p.count,
           p.magic = param[d].magic, p.buffer.magic = p.magic,
           p.magic >= param[Other(d)].magic,
           Unsent(d) = {}, Unhandled(d)' = {}
    PROVE  EspNowInv'
<1>1. /\ tx[d] \in Seq(Frames) /\ p.buffer \in Frames /\ p.buffer \in UnicastFrames
      /\ task' = [task EXCEPT ![d] = "run"] /\ task'[d] = "run"
  BY DEF EspNowInv, EspNowTypes, UnicastFrames, Params
<1>2. /\ unicasts'[d] = unicasts[d] + 1 /\ param'[d] = p /\ tx'[d] = Append(tx[d], p.buffer)
  BY DEF esp_now_send, EspNowInv, EspNowTypes
<1>3. Unsent(d)' = {Len(tx[d]) + 1}
  <2>1. Places(Append(tx[d], p.buffer), UnicastFrames)
          = Places(tx[d], UnicastFrames) \cup {Len(tx[d]) + 1}
    BY <1>1, UnicastFramesAppend
  <2> QED
    BY <1>2, <2>1 DEF Unsent
<1>4. OneUnderWay(d)'
  <2>1. Len(tx'[d]) = Len(tx[d]) + 1 /\ Len(tx[d]) \in Nat
    BY <1>1, <1>2, AppendProperties, LenProperties
  <2>2. Len(tx[d]) + 1 \in 1 .. Len(tx'[d])
    BY <2>1
  <2> QED
    BY <1>3, <2>2 DEF OneUnderWay
<1>5. unicasts'[d] <= SendCount /\ unicasts'[d] = SendCount - p.count + 1
  BY <1>2, EspNowAssumption
<1>6. Chain(d)'
  BY <1>1, <1>2, <1>4, <1>5 DEF Chain
<1> QED
  BY <1>1, <1>6, SentInv

(* EXAMPLE_ESPNOW_SEND_CB.                                                  *)
LEMMA OnSendCbInv ==
    ASSUME EspNowInv, NEW d \in Devices, OnSendCb(d)
    PROVE  EspNowInv'
<1> DEFINE e == Head(queue[d])
<1>1. task[d] = "run" /\ queue[d] # <<>> /\ e.id = "SEND_CB"
  BY DEF OnSendCb
<1>2. /\ queue[d] \in Seq(Events) /\ e \in SendCbs /\ queue'[d] = queue'[d]
      /\ e = queue[d][1] /\ Len(queue[d]) \in Nat \ {0}
  <2>1. queue[d] \in Seq(Events)
    BY DEF EspNowInv, EspNowTypes
  <2>2. e \in Events /\ Len(queue[d]) \in Nat \ {0}
    BY <1>1, <2>1, HeadTailProperties, EmptySeq, LenProperties
  <2>3. e \in SendCbs
    BY <1>1, <2>2 DEF Events, SendCbs, RecvCbs
  <2> QED
    BY <2>1, <2>2, <2>3
<1>3. e \in UnicastCbs <=> ~e.bcast
  BY <1>2 DEF SendCbs, UnicastCbs
<1>4. /\ param[d] \in Params /\ param[d].count \in Nat /\ param \in [Devices -> Params]
      /\ queue \in [Devices -> Seq(Events)] /\ peers \in [Devices -> BOOLEAN]
  BY DEF EspNowInv, EspNowTypes, Params
<1>5. CASE deinit(d)
  BY <1>5, DeinitInv
<1>6. CASE /\ e.bcast /\ queue' = [queue EXCEPT ![d] = Tail(@)]
           /\ UNCHANGED <<task, param, tx, peers, unicasts>>
  <2>1. param' = [param EXCEPT ![d] = param[d]]
    BY <1>4, <1>6
  <2> QED
    BY <1>1, <1>3, <1>4, <1>6, <2>1, HandledInv
<1>7. ASSUME NEW b \in BOOLEAN, b = e.bcast, SendNext(d, b), ~deinit(d)
      PROVE  EspNowInv'
  <2> DEFINE p == [param[d] EXCEPT !.count = IF b THEN @ ELSE @ - 1]
             type == IF b THEN "BROADCAST" ELSE "UNICAST"
             f == [type |-> type, state |-> p.state, magic |-> p.magic]
             next == [p EXCEPT !.buffer = f]
  <2>1. next = data_prepare(p, type)
    BY DEF data_prepare
  <2>2. /\ b \/ p.count # 0
        /\ esp_now_send(d, next) /\ queue' = [queue EXCEPT ![d] = Tail(@)]
        /\ task' = task /\ peers' = peers
    BY <1>7, <2>1, Zenon DEF SendNext
  <2>3. ~b => param[d].unicast /\ Unsent(d) = {} /\ Unhandled(d)' = {}
    <3> SUFFICES ASSUME ~b PROVE param[d].unicast /\ Unsent(d) = {} /\ Unhandled(d)' = {}
      OBVIOUS
    <3>1. e \in UnicastCbs
      BY <1>3, <1>7
    <3>2. 1 \in Unhandled(d)
      BY <1>2, <3>1 DEF Unhandled, Places
    <3>3. param[d].unicast /\ OneUnderWay(d)
      BY <1>1, <3>2 DEF EspNowInv, Chain
    <3>4. PICK i \in 1 .. Len(queue[d]) : Unsent(d) = {} /\ Unhandled(d) = {i}
      BY <3>2, <3>3 DEF OneUnderWay
    <3>5. Places(Tail(queue[d]), UnicastCbs) = {}
      <4>1. Places(queue[d], UnicastCbs) = {i}
        BY <3>4 DEF Unhandled
      <4> QED
        BY <1>1, <1>2, <3>1, <4>1, TailOfOne
    <3>6. queue'[d] = Tail(queue[d])
      BY <1>4, <2>2
    <3> QED
      BY <3>3, <3>4, <3>5, <3>6 DEF Unhandled
  <2>4. /\ p.count = IF b THEN param[d].count ELSE param[d].count - 1
        /\ p.unicast = param[d].unicast /\ p.magic = param[d].magic /\ p.state = param[d].state
    BY <1>4 DEF Params
  <2>5. p.count \in Nat /\ (~b => p.count \in 1 .. SendCount /\ unicasts[d] = SendCount - p.count)
    <3>1. ~b => param[d].count \in 1 .. SendCount /\ unicasts[d] = SendCount - param[d].count + 1
      BY <1>1, <2>3 DEF EspNowInv, Chain
    <3> QED
      BY <1>4, <2>2, <2>4, <3>1, EspNowAssumption
  <2>6. p \in Params
    <3> DEFINE c == IF b THEN param[d].count ELSE param[d].count - 1
    <3>1. c \in Nat /\ p = [param[d] EXCEPT !.count = c]
      BY <2>4, <2>5
    <3> HIDE DEF c, p
    <3> QED
      BY <1>4, <3>1 DEF Params
  <2> HIDE DEF p
  <2>7. f \in Frames /\ f.type = type /\ f.magic = p.magic
    BY <2>6 DEF Frames, Params
  <2> HIDE DEF f
  <2>8. /\ next \in Params /\ next.buffer = f /\ next.count = p.count
        /\ next.unicast = p.unicast /\ next.magic = p.magic
    BY <2>6, <2>7 DEF Params
  <2> HIDE DEF next
  <2>9. CASE b
    BY <1>1, <1>3, <1>7, <2>2, <2>4, <2>7, <2>8, <2>9, BroadcastInv
  <2>10. CASE ~b
    <3>1. p.magic >= param[Other(d)].magic
      BY <2>3, <2>4, <2>10 DEF EspNowInv, MagicsTrue
    <3>2. peers' \in [Devices -> BOOLEAN]
      BY <1>4, <2>2
    <3>3. next.unicast = TRUE
      BY <2>3, <2>4, <2>6, <2>8, <2>10 DEF Params
    <3> QED
      BY <1>1, <2>2, <2>3, <2>4, <2>5, <2>7, <2>8, <2>10, <3>1, <3>2, <3>3, UnicastInv
  <2> QED
    BY <2>9, <2>10
<1> QED
  <2>1. e.bcast \in BOOLEAN
    BY <1>2 DEF SendCbs
  <2>2. SendNext(d, e.bcast) => EspNowInv'
    BY <1>5, <1>7, <2>1
  <2> QED
    BY <1>6, <2>2 DEF OnSendCb

(* EXAMPLE_ESPNOW_RECV_CB.                                                  *)
LEMMA OnRecvCbInv ==
    ASSUME EspNowInv, NEW d \in Devices, OnRecvCb(d)
    PROVE  EspNowInv'
<1> DEFINE e == Head(queue[d])
<1>1. task[d] = "run" /\ queue[d] # <<>> /\ e.id = "RECV_CB"
  BY DEF OnRecvCb
<1>2. /\ queue[d] \in Seq(Events) /\ e \in RecvCbs /\ e.frame.magic = param[Other(d)].magic
      /\ e \notin UnicastCbs
  <2>1. queue[d] \in Seq(Events)
    BY DEF EspNowInv, EspNowTypes
  <2>2. e \in Events /\ Len(queue[d]) \in Nat \ {0} /\ e = queue[d][1]
    BY <1>1, <2>1, HeadTailProperties, EmptySeq, LenProperties
  <2>3. e \in RecvCbs /\ e \notin UnicastCbs
    BY <1>1, <2>2 DEF Events, SendCbs, RecvCbs, UnicastCbs
  <2>4. e.frame.magic = param[Other(d)].magic
    <3>1. 1 \in 1 .. Len(queue[d])
      BY <2>2
    <3> QED
      BY <1>1, <2>2, <3>1 DEF EspNowInv, MagicsTrue
  <2> QED
    BY <2>1, <2>3, <2>4
<1>3. /\ param[d] \in Params /\ param \in [Devices -> Params] /\ e.frame \in Frames
      /\ queue \in [Devices -> Seq(Events)] /\ peers \in [Devices -> BOOLEAN]
  BY <1>2 DEF EspNowInv, EspNowTypes, RecvCbs
<1>4. CASE deinit(d)
  BY <1>4, DeinitInv
<1>5. CASE /\ queue' = [queue EXCEPT ![d] = Tail(@)]
           /\ UNCHANGED <<task, param, tx, peers, unicasts>>
  <2>1. param' = [param EXCEPT ![d] = param[d]]
    BY <1>3, <1>5
  <2> QED
    BY <1>1, <1>2, <1>3, <1>5, <2>1, HandledInv
<1>6. CASE OnUnicast(d)
  <2> DEFINE p == [param[d] EXCEPT !.broadcast = FALSE]
  <2>1. /\ p \in Params /\ p.unicast = param[d].unicast /\ p.magic = param[d].magic
        /\ p.count = param[d].count /\ p.buffer = param[d].buffer
    BY <1>3 DEF Params
  <2>2. param' = [param EXCEPT ![d] = p]
    BY <1>6 DEF OnUnicast
  <2> HIDE DEF p
  <2> QED
    BY <1>1, <1>2, <1>3, <1>6, <2>1, <2>2, HandledInv DEF OnUnicast
<1>7. CASE OnBroadcast(d, e.frame)
  <2> DEFINE heard == [param[d] EXCEPT !.state = 1]
             f == [type |-> "UNICAST", state |-> heard.state, magic |-> heard.magic]
             uni == [heard EXCEPT !.buffer = f]
             quiet == [uni EXCEPT !.broadcast = FALSE]
             p == [quiet EXCEPT !.unicast = TRUE]
  <2>1. /\ heard \in Params /\ heard.unicast = param[d].unicast /\ heard.magic = param[d].magic
        /\ heard.count = param[d].count /\ heard.buffer = param[d].buffer
    BY <1>3 DEF Params
  <2>2. uni = data_prepare(heard, "UNICAST")
    BY DEF data_prepare
  <2>3. p = [data_prepare(heard, "UNICAST") EXCEPT !.broadcast = FALSE, !.unicast = TRUE]
    BY <2>2, Zenon
  <2>4. \/ deinit(d)
        \/ /\ MustSend(heard, e.frame) /\ esp_now_send(d, p)
           /\ queue' = [queue EXCEPT ![d] = Tail(@)]
           /\ peers' = [peers EXCEPT ![d] = TRUE] /\ task' = task
        \/ /\ param' = [param EXCEPT ![d] = heard]
           /\ queue' = [queue EXCEPT ![d] = Tail(@)]
           /\ peers' = [peers EXCEPT ![d] = TRUE]
           /\ task' = task /\ tx' = tx /\ unicasts' = unicasts
    BY <1>7, <2>3, Zenon DEF OnBroadcast
  <2> HIDE DEF heard
  <2>5. f \in Frames /\ f.type = "UNICAST" /\ f.magic = heard.magic
    BY <2>1 DEF Frames, Params
  <2> HIDE DEF f
  <2>6. /\ uni \in Params /\ uni.buffer = f /\ uni.count = heard.count /\ uni.magic = heard.magic
    BY <2>1, <2>5 DEF Params
  <2> HIDE DEF uni
  <2>7. /\ quiet \in Params /\ quiet.buffer = f /\ quiet.count = heard.count
        /\ quiet.magic = heard.magic
    BY <2>6 DEF Params
  <2> HIDE DEF quiet
  <2>8. /\ p \in Params /\ p.buffer = f /\ p.count = heard.count /\ p.magic = heard.magic
        /\ p.unicast = TRUE
    BY <2>7 DEF Params
  <2> HIDE DEF p
  <2>9. [peers EXCEPT ![d] = TRUE] \in [Devices -> BOOLEAN]
    BY <1>3
  <2>10. CASE /\ MustSend(heard, e.frame) /\ esp_now_send(d, p)
              /\ queue' = [queue EXCEPT ![d] = Tail(@)]
              /\ peers' = [peers EXCEPT ![d] = TRUE] /\ task' = task
    <3>1. ~param[d].unicast /\ p.magic >= param[Other(d)].magic
      BY <1>2, <2>1, <2>8, <2>10 DEF MustSend
    <3>2. Unsent(d) = {} /\ Unhandled(d) = {} /\ unicasts[d] = 0 /\ param[d].count = SendCount
      BY <1>1, <3>1 DEF EspNowInv, Chain
    <3>3. p.count \in 1 .. SendCount /\ unicasts[d] = SendCount - p.count
      BY <2>1, <2>8, <3>2, EspNowAssumption
    <3>4. Unhandled(d)' = {}
      <4>1. queue'[d] = Tail(queue[d])
        BY <1>3, <2>10
      <4> QED
        BY <1>1, <1>2, <3>2, <4>1, OtherEventTaken
    <3>5. peers' \in [Devices -> BOOLEAN]
      BY <2>9, <2>10
    <3> QED
      BY <1>1, <2>1, <2>5, <2>8, <2>10, <3>1, <3>2, <3>3, <3>4, <3>5, UnicastInv
  <2>11. CASE /\ param' = [param EXCEPT ![d] = heard]
              /\ queue' = [queue EXCEPT ![d] = Tail(@)]
              /\ peers' = [peers EXCEPT ![d] = TRUE]
              /\ task' = task /\ tx' = tx /\ unicasts' = unicasts
    <3>1. peers' \in [Devices -> BOOLEAN]
      BY <2>9, <2>11, Zenon
    <3>2. task[d] = "run" /\ queue[d] # <<>> /\ Head(queue[d]) \notin UnicastCbs
      BY <1>1, <1>2
    <3> QED
      BY <1>1, <2>1, <2>11, <3>1, <3>2, HandledInv, Zenon
  <2> QED
    BY <1>4, <2>4, <2>10, <2>11
<1> QED
  BY <1>5, <1>6, <1>7 DEF OnRecvCb

LEMMA EspNowStep == EspNowInv /\ [EspNowNext]_espnowVars => EspNowInv'
<1>1. ASSUME EspNowInv, UNCHANGED espnowVars PROVE EspNowInv'
  <2>1. /\ task' = task /\ param' = param /\ queue' = queue
        /\ tx' = tx /\ peers' = peers /\ unicasts' = unicasts
    BY <1>1 DEF espnowVars
  <2>2. EspNowTypes'
    BY <1>1, <2>1 DEF EspNowInv, EspNowTypes
  <2>3. ASSUME NEW d \in Devices PROVE MagicsTrue(d)' /\ Chain(d)'
    <3>1. Unsent(d)' = Unsent(d) /\ Unhandled(d)' = Unhandled(d)
      BY <2>1 DEF Unsent, Unhandled
    <3>2. MagicsTrue(d)' <=> MagicsTrue(d)
      BY <2>1 DEF MagicsTrue
    <3>3. Chain(d)' <=> Chain(d)
      BY <2>1, <3>1 DEF Chain, OneUnderWay
    <3> QED
      BY <1>1, <3>2, <3>3 DEF EspNowInv
  <2> QED
    BY <2>2, <2>3 DEF EspNowInv
<1>2. ASSUME EspNowInv, NEW d \in Devices, TaskStep(d) \/ Sending(d) PROVE EspNowInv'
  BY <1>2, FirstSendInv, OnSendCbInv, OnRecvCbInv, SendingInv DEF TaskStep
<1> QED
  BY <1>1, <1>2 DEF EspNowNext

(* The inductive invariant of the ESP-NOW example.                          *)
THEOREM EspNowInvariant == EspNowSpec => []EspNowInv
  BY EspNowInitInv, EspNowStep, PTL DEF EspNowSpec

(* Only the device with the bigger magic number turns to unicast, it has    *)
(* one unicast frame under way at a time and sends no more than the         *)
(* configured count, whatever the radio loses, damages or delays.           *)
THEOREM OnlyOneSender == EspNowSpec => []OneSender
<1>1. EspNowInv => OneSender
  BY DEF EspNowInv, MagicsTrue, Chain, OneUnderWay, OneSender
<1> QED
  BY <1>1, EspNowInvariant, PTL

--------------------------------------------------------------------------------
(* The SPI link.                                                            *)

MasterType == [send : Seq(Nat), recv : Seq(Nat), mode : {"NULL", "READ", "WRITE"},
               transmit_len : Nat, wait_recv_data : BOOLEAN]
SlaveType == [tx : Seq(Nat), rx : Seq(Nat), total_recv_len : Nat, total_send_len : Nat,
              sending_flag : BOOLEAN, wait_recv_data : BOOLEAN]
SpiType == [toSlave : Nat, toMaster : Nat, mosi : Nat, miso : Nat]

SpiTypes ==
    /\ master \in MasterType /\ slave \in SlaveType /\ spi \in SpiType
    /\ line \in {0, 1} /\ mirq \in BOOLEAN
    /\ writer \in [pc : {"send", "kick"}, n : Nat]
    /\ reader \in [pc : {"receive", "check", "clear"}, n : Nat]

(* From slave to master: one transaction at a time.  A block is in the data *)
(* register from the callback that loaded it until the handler takes it.    *)
Loaded == IF master.mode = "READ" /\ sirq = {} THEN 1 ELSE 0

UpPhases ==
    /\ master.mode \in {"NULL", "READ"} /\ sirq \in {{}, {"RD_STA"}, {"RD_BUF"}}
    /\ master.wait_recv_data \/ sirq # {} => ~mirq
    /\ master.wait_recv_data => Loaded = 1
    /\ master.mode = "READ" => /\ slave.sending_flag /\ master.transmit_len > 0
                               /\ slave.total_send_len = master.transmit_len - Loaded
                               /\ slave.total_send_len =< Len(slave.tx)
    /\ Loaded = 1 => spi.miso = reader.n + Len(master.recv) + 1
    /\ master.mode = "NULL" /\ sirq # {} =>
         sirq = {"RD_BUF"} /\ slave.sending_flag /\ slave.total_send_len = 0
    /\ master.mode = "NULL" /\ sirq = {} /\ slave.sending_flag =>
         /\ slave.total_send_len = spi.toMaster
         /\ spi.toMaster > 0 /\ spi.toMaster =< Len(slave.tx)
    /\ ~slave.sending_flag => ~mirq

UpInv ==
    /\ SpiTypes /\ UpPhases
    /\ master.send = <<>>
    /\ InARow(reader.n, master.recv)
    /\ InARow(writer.n - Len(slave.tx), slave.tx)
    /\ writer.n - Len(slave.tx) = reader.n + Len(master.recv) + Loaded

(* From master to slave: the slave has room for the block it asked for,     *)
(* or its callback waits for the task to make some.                         *)
Blocked == slave.wait_recv_data /\ reader.pc # "clear"
Travelling == IF "WR_BUF" \in sirq THEN 1 ELSE 0

DownPhases ==
    /\ master.mode \in {"NULL", "WRITE"}
    /\ master.mode = "NULL" => /\ sirq \subseteq {"RD_STA", "WR_STA"} /\ ~Blocked
                               /\ slave.total_recv_len = 0
                               /\ "WR_STA" \in sirq => spi.toSlave = 0
    /\ master.mode = "WRITE" =>
         /\ sirq \in {{}, {"WR_BUF"}, {"WR_STA"}, {"RD_STA", "WR_STA"}}
         /\ master.transmit_len =< Len(master.send)
         /\ sirq # {} => ~mirq /\ ~Blocked
         /\ Blocked => ~mirq
         /\ IF "WR_STA" \in sirq
            THEN spi.toSlave = master.transmit_len /\ spi.toSlave > 0 /\ slave.total_recv_len = 0
            ELSE slave.total_recv_len = master.transmit_len + Travelling
         /\ Travelling = 1 => spi.mosi = reader.n + Len(slave.rx) + 1
    /\ Len(slave.rx) =< Capacity
    /\ Len(slave.rx) = Capacity => Blocked

DownInv ==
    /\ SpiTypes /\ DownPhases
    /\ slave.tx = <<>> /\ spi.toMaster = 0 /\ ~slave.sending_flag
    /\ InARow(reader.n, slave.rx)
    /\ InARow(writer.n - Len(master.send), master.send)
    /\ writer.n - Len(master.send) = reader.n + Len(slave.rx) + Travelling

SpiInv == races = {} => (dir = "up" => UpInv) /\ (dir = "down" => DownInv)

LEMMA AppendInARow ==
    ASSUME NEW b \in Seq(Nat), NEW f \in Int, InARow(f, b), NEW x \in Nat, x = f + Len(b) + 1
    PROVE  /\ Append(b, x) \in Seq(Nat) /\ Len(Append(b, x)) = Len(b) + 1
           /\ InARow(f, Append(b, x))
<1>1. /\ Append(b, x) \in Seq(Nat) /\ Len(Append(b, x)) = Len(b) + 1
      /\ \A i \in 1 .. Len(b) : Append(b, x)[i] = b[i]
      /\ Append(b, x)[Len(b) + 1] = x
  BY AppendProperties
<1>2. DOMAIN b = 1 .. Len(b) /\ DOMAIN Append(b, x) = 1 .. Len(b) + 1 /\ Len(b) \in Nat
  BY <1>1, LenProperties
<1> QED
  BY <1>1, <1>2 DEF InARow

LEMMA TailInARow ==
    ASSUME NEW b \in Seq(Nat), NEW f \in Int, InARow(f, b), b # <<>>
    PROVE  /\ Tail(b) \in Seq(Nat) /\ Len(Tail(b)) = Len(b) - 1 /\ Len(b) > 0
           /\ Head(b) = f + 1 /\ Head(b) \in Nat /\ InARow(f + 1, Tail(b))
<1>1. /\ Head(b) \in Nat /\ Tail(b) \in Seq(Nat) /\ Len(Tail(b)) = Len(b) - 1
      /\ \A i \in 1 .. Len(Tail(b)) : Tail(b)[i] = b[i + 1]
  BY HeadTailProperties
<1>2. /\ Len(b) \in Nat /\ Len(b) # 0 /\ Head(b) = b[1] /\ DOMAIN b = 1 .. Len(b)
      /\ DOMAIN Tail(b) = 1 .. Len(b) - 1
  BY <1>1, EmptySeq, LenProperties
<1>3. Head(b) = f + 1
  BY <1>2 DEF InARow
<1>4. ASSUME NEW i \in DOMAIN Tail(b) PROVE Tail(b)[i] = f + 1 + i
  <2>1. i + 1 \in DOMAIN b /\ Tail(b)[i] = b[i + 1] /\ i \in Int
    BY <1>1, <1>2, <1>4
  <2> QED
    BY <2>1 DEF InARow
<1> QED
  BY <1>1, <1>2, <1>3, <1>4 DEF InARow

LEMMA DropInARow ==
    ASSUME NEW b \in Seq(Nat), NEW f \in Int, InARow(f, b), NEW n \in 0 .. Len(b)
    PROVE  /\ SubSeq(b, n + 1, Len(b)) \in Seq(Nat)
           /\ Len(SubSeq(b, n + 1, Len(b))) = Len(b) - n
           /\ InARow(f + n, SubSeq(b, n + 1, Len(b)))
<1> DEFINE r == SubSeq(b, n + 1, Len(b))
<1>1. Len(b) \in Nat /\ DOMAIN b = 1 .. Len(b) /\ n \in Nat /\ n =< Len(b)
  BY LenProperties
<1>2. /\ r \in Seq(Nat)
      /\ Len(r) = IF n + 1 =< Len(b) THEN Len(b) - (n + 1) + 1 ELSE 0
      /\ \A i \in 1 .. Len(b) - (n + 1) + 1 : r[i] = b[(n + 1) + i - 1]
  <2>1. n + 1 \in Int /\ Len(b) \in Int /\ \A i \in n + 1 .. Len(b) : b[i] \in Nat
    BY <1>1, ElementOfSeq
  <2> QED
    BY <2>1, SubSeqProperties
<1> HIDE DEF r
<1>3. Len(r) = Len(b) - n
  <2>1. \A k, m \in Nat : m =< k => (IF m + 1 =< k THEN k - (m + 1) + 1 ELSE 0) = k - m
    OBVIOUS
  <2> QED
    BY <1>1, <1>2, <2>1
<1>4. DOMAIN r = 1 .. Len(b) - n
  BY <1>2, <1>3, LenProperties
<1>5. ASSUME NEW i \in DOMAIN r PROVE r[i] = f + n + i
  <2>1. i \in 1 .. Len(b) - (n + 1) + 1 /\ i \in Int /\ i > 0 /\ i =< Len(b) - n
    BY <1>1, <1>4
  <2>2. r[i] = b[(n + 1) + i - 1]
    BY <1>2, <2>1
  <2>3. (n + 1) + i - 1 = n + i /\ n + i \in 1 .. Len(b)
    BY <1>1, <2>1
  <2>4. b[n + i] = f + (n + i)
    BY <1>1, <2>3 DEF InARow
  <2> QED
    BY <1>1, <2>1, <2>2, <2>3, <2>4
<1>6. InARow(f + n, r)
  BY <1>5 DEF InARow
<1> QED
  BY <1>2, <1>3, <1>6 DEF r

LEMMA ConcatInARow ==
    ASSUME NEW b \in Seq(Nat), NEW w \in Nat, InARow(w - Len(b), b), NEW n \in Nat
    PROVE  /\ b \o Numbered(w, n) \in Seq(Nat)
           /\ Len(b \o Numbered(w, n)) = Len(b) + n
           /\ InARow(w - Len(b), b \o Numbered(w, n))
<1> DEFINE c == Numbered(w, n)
           r == b \o c
<1>1. Len(b) \in Nat /\ DOMAIN b = 1 .. Len(b)
  BY LenProperties
<1>2. c \in Seq(Nat) /\ Len(c) = n /\ \A i \in 1 .. n : c[i] = w + i
  <2>1. c \in [1 .. n -> Nat]
    BY DEF Numbered
  <2>2. c \in Seq(Nat)
    BY <2>1, SeqDef
  <2> QED
    BY <2>1, <2>2, LenProperties DEF Numbered
<1> HIDE DEF c
<1>3. /\ r \in Seq(Nat) /\ Len(r) = Len(b) + n
      /\ \A i \in 1 .. Len(b) + n : r[i] = IF i =< Len(b) THEN b[i] ELSE c[i - Len(b)]
  BY <1>2, ConcatProperties
<1>4. DOMAIN r = 1 .. Len(b) + n
  BY <1>3, LenProperties
<1> HIDE DEF r
<1>5. ASSUME NEW i \in DOMAIN r PROVE r[i] = w - Len(b) + i
  <2>1. i \in 1 .. Len(b) + n
    BY <1>4
  <2>2. CASE i =< Len(b)
    BY <1>1, <1>3, <2>1, <2>2 DEF InARow
  <2>3. CASE i > Len(b)
    <3>1. i - Len(b) \in 1 .. n /\ r[i] = c[i - Len(b)]
      BY <1>1, <1>3, <2>1, <2>3
    <3> QED
      BY <1>1, <1>2, <2>1, <3>1
  <2> QED
    BY <1>1, <2>1, <2>2, <2>3
<1>6. InARow(w - Len(b), r)
  BY <1>5 DEF InARow
<1> QED
  BY <1>3, <1>6 DEF r, c

(* The state a direction's invariant is about has its types and lengths.    *)
LEMMA SpiTyped ==
    ASSUME SpiTypes
    PROVE  /\ master.send \in Seq(Nat) /\ master.recv \in Seq(Nat) /\ master.transmit_len \in Nat
           /\ slave.tx \in Seq(Nat) /\ slave.rx \in Seq(Nat)
           /\ slave.total_recv_len \in Nat /\ slave.total_send_len \in Nat
           /\ Len(master.send) \in Nat /\ Len(master.recv) \in Nat
           /\ Len(slave.tx) \in Nat /\ Len(slave.rx) \in Nat
           /\ spi.toSlave \in Nat /\ spi.toMaster \in Nat /\ spi.mosi \in Nat /\ spi.miso \in Nat
           /\ writer.n \in Nat /\ reader.n \in Nat
<1>1. /\ master.send \in Seq(Nat) /\ master.recv \in Seq(Nat) /\ master.transmit_len \in Nat
      /\ slave.tx \in Seq(Nat) /\ slave.rx \in Seq(Nat)
      /\ slave.total_recv_len \in Nat /\ slave.total_send_len \in Nat
  BY DEF SpiTypes, MasterType, SlaveType
<1>2. /\ spi.toSlave \in Nat /\ spi.toMaster \in Nat /\ spi.mosi \in Nat /\ spi.miso \in Nat
      /\ writer.n \in Nat /\ reader.n \in Nat
  BY DEF SpiTypes, SpiType
<1> QED
  BY <1>1, <1>2, LenProperties

LEMMA DownSend ==
    ASSUME DownInv, MasterWriteSend
    PROVE  DownInv'
<1> DEFINE b == master.send \o Numbered(writer.n, WriteLen)
<1> USE SpiAssumption
<1>1. SpiTypes
  BY DEF DownInv
<1>0. /\ master.send \in Seq(Nat) /\ Len(master.send) \in Nat /\ writer.n \in Nat
      /\ writer.n - Len(master.send) \in Int
  BY <1>1, SpiTyped
<1>2. /\ b \in Seq(Nat) /\ Len(b) = Len(master.send) + WriteLen
      /\ InARow(writer.n - Len(master.send), b)
  <2>1. InARow(writer.n - Len(master.send), master.send)
    BY DEF DownInv
  <2> QED
    BY <1>0, <2>1, ConcatInARow
<1>3. /\ master' = [master EXCEPT !.send = b]
      /\ writer' = [pc |-> "kick", n |-> writer.n + WriteLen]
      /\ UNCHANGED <<slave, spi, line, mirq, sirq, reader>>
  BY DEF MasterWriteSend
<1> HIDE DEF b
<1>4. /\ master' \in MasterType /\ master'.send = b /\ master'.mode = master.mode
      /\ master'.transmit_len = master.transmit_len
  BY <1>1, <1>2, <1>3 DEF SpiTypes, MasterType
<1>5. /\ writer' \in [pc : {"send", "kick"}, n : Nat] /\ writer'.n = writer.n + WriteLen
  BY <1>0, <1>3
<1>6. SpiTypes'
  BY <1>1, <1>3, <1>4, <1>5 DEF SpiTypes
<1>7. Len(master'.send) = Len(master.send) + WriteLen /\ WriteLen \in Nat
  BY <1>2, <1>4
<1>8. /\ writer'.n - Len(master'.send) = writer.n - Len(master.send)
      /\ Len(master.send) =< Len(master'.send)
  BY <1>0, <1>5, <1>7
<1>9. master.mode = "WRITE" => master.transmit_len =< Len(master'.send)
  <2>1. master.transmit_len \in Nat
    BY <1>1, SpiTyped
  <2>2. master.mode = "WRITE" => master.transmit_len =< Len(master.send)
    BY DEF DownInv, DownPhases
  <2> QED
    BY <1>0, <1>7, <2>1, <2>2
<1>10. DownPhases'
  BY <1>3, <1>4, <1>9 DEF DownInv, DownPhases, Blocked, Travelling
<1> QED
  BY <1>2, <1>3, <1>4, <1>6, <1>8, <1>10 DEF DownInv, Travelling

LEMMA DownKick ==
    ASSUME DownInv, MasterWriteKick
    PROVE  DownInv'
<1>1. SpiTypes
  BY DEF DownInv
<1>2. /\ writer' = [writer EXCEPT !.pc = "send"]
      /\ UNCHANGED <<master, slave, spi, line, sirq, reader>>
      /\ mirq' = (mirq \/ master.mode = "NULL")
  BY DEF MasterWriteKick
<1>3. writer' \in [pc : {"send", "kick"}, n : Nat] /\ writer'.n = writer.n
  BY <1>1, <1>2 DEF SpiTypes
<1>4. mirq' \in BOOLEAN
  BY <1>2
<1>5. SpiTypes'
  BY <1>1, <1>2, <1>3, <1>4 DEF SpiTypes
<1>6. DownPhases'
  <2>1. master.mode = "WRITE" => mirq' = mirq
    BY <1>1, <1>2 DEF SpiTypes
  <2> QED
    BY <1>2, <2>1 DEF DownInv, DownPhases, Blocked, Travelling
<1> QED
  BY <1>2, <1>3, <1>5, <1>6 DEF DownInv, Travelling

LEMMA DownReceive ==
    ASSUME DownInv, SlaveReadReceive
    PROVE  DownInv'
<1> USE SpiAssumption
<1> DEFINE n == IF Len(slave.rx) < ReadLen THEN Len(slave.rx) ELSE ReadLen
           b == SubSeq(slave.rx, n + 1, Len(slave.rx))
<1>1. SpiTypes
  BY DEF DownInv
<1>0. slave.rx \in Seq(Nat) /\ Len(slave.rx) \in Nat /\ reader.n \in Nat
  BY <1>1, SpiTyped
<1>2. /\ reader.pc = "receive" /\ reader' = [pc |-> "check", n |-> reader.n + n]
      /\ slave' = [slave EXCEPT !.rx = b]
      /\ UNCHANGED <<master, spi, line, mirq, sirq, writer>>
  BY DEF SlaveReadReceive
<1>3. n \in 0 .. Len(slave.rx)
  BY <1>1, SpiTyped
<1> HIDE DEF n
<1>4. /\ b \in Seq(Nat) /\ Len(b) = Len(slave.rx) - n /\ InARow(reader.n + n, b)
  <2>1. InARow(reader.n, slave.rx)
    BY DEF DownInv
  <2>2. reader.n \in Int
    BY <1>0
  <2> HIDE DEF b
  <2>3. /\ SubSeq(slave.rx, n + 1, Len(slave.rx)) \in Seq(Nat)
        /\ Len(SubSeq(slave.rx, n + 1, Len(slave.rx))) = Len(slave.rx) - n
        /\ InARow(reader.n + n, SubSeq(slave.rx, n + 1, Len(slave.rx)))
    BY <1>0, <1>3, <2>1, <2>2, DropInARow, Zenon
  <2> QED
    BY <2>3, Zenon DEF b
<1> HIDE DEF b
<1>5. /\ slave' \in SlaveType /\ slave'.rx = b /\ slave'.tx = slave.tx
      /\ slave'.total_recv_len = slave.total_recv_len
      /\ slave'.wait_recv_data = slave.wait_recv_data
      /\ slave'.sending_flag = slave.sending_flag
  BY <1>1, <1>2, <1>4 DEF SpiTypes, SlaveType
<1>6. /\ reader' \in [pc : {"receive", "check", "clear"}, n : Nat]
      /\ reader'.n = reader.n + n /\ reader'.pc = "check"
  BY <1>0, <1>2, <1>3
<1>7. SpiTypes'
  BY <1>1, <1>2, <1>5, <1>6 DEF SpiTypes
<1>8. Blocked' <=> Blocked
  BY <1>2, <1>5, <1>6 DEF Blocked
<1>9. reader'.n + Len(slave'.rx) = reader.n + Len(slave.rx)
  <2>1. n \in Nat /\ Len(slave'.rx) = Len(slave.rx) - n /\ reader'.n = reader.n + n
    BY <1>0, <1>3, <1>4, <1>5, <1>6
  <2> QED
    BY <1>0, <2>1
<1>10. Len(slave'.rx) =< Len(slave.rx) /\ Len(slave'.rx) \in Nat
  <2>1. n \in Nat /\ n =< Len(slave.rx) /\ Len(slave'.rx) = Len(slave.rx) - n
    BY <1>0, <1>3, <1>4, <1>5
  <2> QED
    BY <1>0, <2>1
<1>11. /\ Len(slave'.rx) =< Capacity
       /\ Len(slave'.rx) = Capacity => Blocked'
  <2>1. Len(slave.rx) =< Capacity /\ (Len(slave.rx) = Capacity => Blocked) /\ Capacity \in Nat
    BY SpiAssumption DEF DownInv, DownPhases
  <2> QED
    BY <1>0, <1>8, <1>10, <2>1
<1>12. DownPhases'
  BY <1>2, <1>5, <1>8, <1>9, <1>11 DEF DownInv, DownPhases, Travelling
<1> QED
  BY <1>2, <1>4, <1>5, <1>6, <1>7, <1>9, <1>12 DEF DownInv, Travelling

LEMMA DownCheck ==
    ASSUME DownInv, SlaveReadCheck, races' = {}
    PROVE  DownInv'
<1>1. SpiTypes
  BY DEF DownInv
<1>2. /\ reader.pc = "check" /\ UNCHANGED <<master, slave, spi, sirq, writer>>
  BY DEF SlaveReadCheck
<1>3. CASE slave.wait_recv_data /\ Len(slave.rx) > 1
  <2>1. /\ reader' = [reader EXCEPT !.pc = "clear"] /\ line' = 1
        /\ mirq' = (mirq \/ (1 = 1 /\ line = 0)) /\ Space(slave.rx) # 0
    BY <1>3 DEF SlaveReadCheck, SetLine
  <2>2. /\ reader' \in [pc : {"receive", "check", "clear"}, n : Nat]
        /\ reader'.n = reader.n /\ reader'.pc = "clear"
    BY <1>1, <2>1 DEF SpiTypes
  <2>3. mirq' \in BOOLEAN
    BY <2>1
  <2>4. SpiTypes'
    BY <1>1, <1>2, <2>1, <2>2, <2>3 DEF SpiTypes
  <2>5. Blocked /\ ~Blocked' /\ Len(slave.rx) # Capacity
    BY <1>1, <1>2, <1>3, <2>1, <2>2, SpiTyped, SpiAssumption DEF Blocked, Space
  <2>6. master.mode = "WRITE" /\ sirq = {}
    BY <2>5 DEF DownInv, DownPhases
  <2>7. DownPhases'
    BY <1>2, <2>2, <2>5, <2>6 DEF DownInv, DownPhases, Travelling
  <2> QED
    BY <1>2, <2>2, <2>4, <2>7 DEF DownInv, Travelling
<1>4. CASE ~(slave.wait_recv_data /\ Len(slave.rx) > 1)
  <2>1. /\ reader' = [reader EXCEPT !.pc = "receive"] /\ UNCHANGED <<line, mirq>>
    BY <1>4 DEF SlaveReadCheck
  <2>2. /\ reader' \in [pc : {"receive", "check", "clear"}, n : Nat]
        /\ reader'.n = reader.n /\ reader'.pc = "receive"
    BY <1>1, <2>1 DEF SpiTypes
  <2>3. SpiTypes'
    BY <1>1, <1>2, <2>1, <2>2 DEF SpiTypes
  <2>4. Blocked' <=> Blocked
    BY <1>2, <2>2 DEF Blocked
  <2>5. DownPhases'
    BY <1>2, <2>1, <2>2, <2>4 DEF DownInv, DownPhases, Travelling
  <2> QED
    BY <1>2, <2>2, <2>3, <2>5 DEF DownInv, Travelling
<1> QED
  BY <1>3, <1>4

LEMMA DownClear ==
    ASSUME DownInv, SlaveReadClear
    PROVE  DownInv'
<1>1. SpiTypes
  BY DEF DownInv
<1>2. /\ reader.pc = "clear" /\ reader' = [reader EXCEPT !.pc = "receive"]
      /\ slave' = [slave EXCEPT !.wait_recv_data = FALSE]
      /\ UNCHANGED <<master, spi, line, mirq, sirq, writer>>
  BY DEF SlaveReadClear
<1>3. /\ reader' \in [pc : {"receive", "check", "clear"}, n : Nat]
      /\ reader'.n = reader.n /\ reader'.pc = "receive"
  BY <1>1, <1>2 DEF SpiTypes
<1>4. /\ slave' \in SlaveType /\ slave'.rx = slave.rx /\ slave'.tx = slave.tx
      /\ slave'.total_recv_len = slave.total_recv_len
      /\ slave'.wait_recv_data = FALSE
      /\ slave'.sending_flag = slave.sending_flag
  BY <1>1, <1>2 DEF SpiTypes, SlaveType
<1>5. SpiTypes'
  BY <1>1, <1>2, <1>3, <1>4 DEF SpiTypes
<1>6. ~Blocked /\ ~Blocked'
  BY <1>2, <1>4 DEF Blocked
<1>7. DownPhases'
  BY <1>2, <1>3, <1>4, <1>6 DEF DownInv, DownPhases, Travelling
<1> QED
  BY <1>2, <1>3, <1>4, <1>5, <1>7 DEF DownInv, Travelling

LEMMA DownIdle ==
    ASSUME DownInv, IsrIdle, UNCHANGED <<slave, line, writer, reader>>
    PROVE  DownInv'
<1>1. SpiTypes
  BY DEF DownInv
<1>2. /\ master.send \in Seq(Nat) /\ Len(master.send) \in Nat /\ spi.toMaster = 0
      /\ master.mode = "NULL" /\ mirq' = FALSE
  BY <1>1, SpiTyped DEF DownInv, IsrIdle
<1>3. /\ sirq \subseteq {"RD_STA", "WR_STA"} /\ ~Blocked /\ slave.total_recv_len = 0
      /\ "WR_STA" \in sirq => spi.toSlave = 0
  BY <1>2 DEF DownInv, DownPhases
<1>4. ~Blocked'
  BY <1>3 DEF Blocked
<1>5. CASE master.send # <<>>
  <2> DEFINE m1 == [master EXCEPT !.mode = "WRITE"]
             n == Len(master.send)
  <2>1. /\ master' = [m1 EXCEPT !.transmit_len = n]
        /\ spi' = [spi EXCEPT !.toSlave = n] /\ sirq' = sirq \cup {"WR_STA"}
    BY <1>5 DEF IsrIdle, spi_master_send_length, spi_trans
  <2>2. n \in Nat /\ n > 0
    BY <1>2, <1>5, EmptySeq
  <2>3. /\ m1 \in MasterType /\ m1.mode = "WRITE" /\ m1.send = master.send
    BY <1>1 DEF SpiTypes, MasterType
  <2> HIDE DEF m1, n
  <2>4. /\ master' \in MasterType /\ master'.mode = "WRITE" /\ master'.send = master.send
        /\ master'.transmit_len = n
    BY <2>1, <2>2, <2>3 DEF MasterType
  <2>5. spi' \in SpiType /\ spi'.toSlave = n /\ spi'.toMaster = spi.toMaster
    BY <1>1, <2>1, <2>2 DEF SpiTypes, SpiType
  <2>6. SpiTypes'
    BY <1>1, <1>2, <2>4, <2>5 DEF SpiTypes
  <2>7. /\ sirq' \in {{"WR_STA"}, {"RD_STA", "WR_STA"}} /\ "WR_STA" \in sirq'
        /\ "WR_BUF" \notin sirq' /\ "WR_BUF" \notin sirq
    <3>1. sirq' = {"WR_STA"} \/ sirq' = {"RD_STA", "WR_STA"}
      BY <1>3, <2>1
    <3> QED
      BY <1>3, <3>1
  <2>8. DownPhases'
    <3>1. master'.transmit_len =< Len(master'.send)
      BY <2>2, <2>4 DEF n
    <3> QED
      BY <1>2, <1>3, <1>4, <2>2, <2>4, <2>5, <2>7, <3>1 DEF DownInv, DownPhases, Travelling
  <2> QED
    BY <2>4, <2>5, <2>6, <2>7, <2>8 DEF DownInv, Travelling
<1>6. CASE master.send = <<>>
  <2> DEFINE m1 == [master EXCEPT !.transmit_len = spi.toMaster]
  <2>1. /\ master' = [m1 EXCEPT !.mode = IF spi.toMaster > 0 THEN "READ" ELSE "NULL"]
        /\ spi' = spi /\ sirq' = sirq \cup {"RD_STA"}
    BY <1>6 DEF IsrIdle, spi_master_get_length, spi_trans
  <2>2. m1 \in MasterType /\ m1.send = master.send
    <3>1. master \in MasterType /\ spi.toMaster \in Nat
      BY <1>1, <1>2 DEF SpiTypes
    <3> QED
      BY <3>1 DEF MasterType
  <2>3. master' = [m1 EXCEPT !.mode = "NULL"]
    BY <1>2, <2>1
  <2> HIDE DEF m1
  <2>4. master' \in MasterType /\ master'.mode = "NULL" /\ master'.send = master.send
    BY <2>2, <2>3 DEF MasterType
  <2>5. SpiTypes'
    BY <1>1, <1>2, <2>1, <2>4 DEF SpiTypes
  <2>6. /\ sirq' \subseteq {"RD_STA", "WR_STA"} /\ ("WR_STA" \in sirq' <=> "WR_STA" \in sirq)
        /\ "WR_BUF" \notin sirq' /\ "WR_BUF" \notin sirq
    BY <1>3, <2>1
  <2>7. DownPhases'
    BY <1>3, <1>4, <2>1, <2>4, <2>6 DEF DownInv, DownPhases
  <2> QED
    BY <2>1, <2>4, <2>5, <2>6, <2>7 DEF DownInv, Travelling
<1> QED
  BY <1>5, <1>6

LEMMA DownWrite ==
    ASSUME DownInv, mirq, IsrWrite, UNCHANGED <<slave, line, writer, reader>>
    PROVE  DownInv'
<1>1. SpiTypes
  BY DEF DownInv
<1>2. /\ master.send \in Seq(Nat) /\ Len(master.send) \in Nat /\ master.mode = "WRITE"
      /\ master.transmit_len \in Nat /\ Len(slave.rx) \in Nat
      /\ writer.n \in Nat /\ reader.n \in Nat
  BY <1>1, SpiTyped DEF IsrWrite
<1>3. /\ sirq = {} /\ ~Blocked /\ slave.total_recv_len = master.transmit_len
      /\ master.transmit_len =< Len(master.send)
  <2>1. sirq = {} /\ ~Blocked
    BY <1>2 DEF DownInv, DownPhases
  <2> QED
    BY <1>2, <2>1 DEF DownInv, DownPhases, Travelling
<1>4. ~Blocked'
  BY <1>3 DEF Blocked
<1>5. CASE master.transmit_len > 0
  <2> DEFINE b == Tail(master.send)
             m1 == [master EXCEPT !.send = b]
             k == master.transmit_len - 1
             x == Head(master.send)
             f == writer.n - Len(master.send)
  <2>1. /\ spi' = [spi EXCEPT !.mosi = x] /\ sirq' = sirq \cup {"WR_BUF"}
        /\ master' = [m1 EXCEPT !.transmit_len = k] /\ mirq' = FALSE
    BY <1>2, <1>5 DEF IsrWrite, spi_trans, MasterType
  <2>2. f \in Int /\ InARow(f, master.send) /\ master.send # <<>>
    <3>1. Len(master.send) # 0
      BY <1>2, <1>3, <1>5
    <3> QED
      BY <1>2, <3>1, EmptySeq DEF DownInv
  <2>3. /\ b \in Seq(Nat) /\ Len(b) = Len(master.send) - 1 /\ x = f + 1 /\ x \in Nat
        /\ InARow(f + 1, b)
    <3> HIDE DEF f
    <3> QED
      BY <1>2, <2>2, TailInARow
  <2>4. k \in Nat /\ master.transmit_len = k + 1
    BY <1>2, <1>5
  <2> HIDE DEF b, x, k
  <2>5. m1 \in MasterType /\ m1.send = b /\ m1.mode = "WRITE"
    BY <1>1, <1>2, <2>3 DEF SpiTypes, MasterType
  <2> HIDE DEF m1
  <2>6. /\ master' \in MasterType /\ master'.send = b /\ master'.mode = "WRITE"
        /\ master'.transmit_len = k
    BY <2>1, <2>4, <2>5 DEF MasterType
  <2>7. /\ spi' \in SpiType /\ spi'.mosi = x /\ spi'.toMaster = spi.toMaster
    BY <1>1, <2>1, <2>3 DEF SpiTypes, SpiType
  <2>8. SpiTypes'
    BY <1>1, <2>1, <2>6, <2>7 DEF SpiTypes
  <2>9. sirq' = {"WR_BUF"} /\ Travelling' = 1 /\ Travelling = 0
    BY <1>3, <2>1 DEF Travelling
  <2>10. f = reader.n + Len(slave.rx)
    BY <1>2, <2>9 DEF DownInv
  <2>11. /\ writer.n - Len(master'.send) = f + 1 /\ f + 1 = reader.n + Len(slave.rx) + Travelling'
    <3>1. Len(master'.send) = Len(master.send) - 1
      BY <2>3, <2>6
    <3>2. f + 1 = reader.n + Len(slave.rx) + Travelling'
      BY <1>2, <2>9, <2>10
    <3>3. writer.n \in Nat /\ Len(master.send) \in Nat
      BY <1>1, SpiTyped
    <3>4. writer.n - Len(master'.send) = f + 1
      BY <3>1, <3>3
    <3> QED
      BY <3>2, <3>4
  <2>12. DownPhases'
    <3>1. /\ master'.transmit_len =< Len(master'.send)
          /\ slave'.total_recv_len = master'.transmit_len + Travelling'
      BY <1>2, <1>3, <2>3, <2>4, <2>6, <2>9
    <3>2. spi'.mosi = reader'.n + Len(slave'.rx) + 1
      BY <2>3, <2>7, <2>10
    <3>3. "WR_STA" \notin sirq'
      BY <2>9
    <3>4. /\ Len(slave'.rx) =< Capacity /\ (Len(slave'.rx) = Capacity => Blocked')
      BY <1>3 DEF DownInv, DownPhases
    <3> QED
      BY <1>4, <2>1, <2>6, <2>9, <3>1, <3>2, <3>3, <3>4 DEF DownPhases
  <2>13. InARow(writer'.n - Len(master'.send), master'.send)
    BY <2>3, <2>6, <2>11
  <2> QED
    BY <2>7, <2>8, <2>11, <2>12, <2>13 DEF DownInv
<1>6. CASE ~(master.transmit_len > 0)
  <2>1. master' = [master EXCEPT !.mode = "NULL"] /\ mirq' = (master.send # <<>>)
    BY <1>6 DEF IsrWrite
  <2>2. /\ spi' = spi \/ spi' = [spi EXCEPT !.toSlave = 0]
        /\ sirq' = {} \/ (sirq' = {"WR_STA"} /\ spi' = [spi EXCEPT !.toSlave = 0])
    BY <1>3, <1>6 DEF IsrWrite, spi_master_send_length, spi_trans
  <2>3. /\ master' \in MasterType /\ master'.mode = "NULL" /\ master'.send = master.send
    BY <1>1, <2>1 DEF SpiTypes, MasterType
  <2>4. /\ spi' \in SpiType /\ spi'.toMaster = spi.toMaster
        /\ "WR_STA" \in sirq' => spi'.toSlave = 0
    BY <1>1, <2>2 DEF SpiTypes, SpiType
  <2>5. mirq' \in BOOLEAN
    BY <2>1
  <2>6. SpiTypes'
    BY <1>1, <2>3, <2>4, <2>5 DEF SpiTypes
  <2>7. sirq' \subseteq {"RD_STA", "WR_STA"} /\ Travelling' = 0 /\ Travelling = 0
    BY <1>3, <2>2 DEF Travelling
  <2>8. slave.total_recv_len = 0
    BY <1>2, <1>3, <1>6
  <2>9. DownPhases'
    <3>1. /\ Len(slave'.rx) =< Capacity /\ (Len(slave'.rx) = Capacity => Blocked')
      BY <1>3 DEF DownInv, DownPhases
    <3> QED
      BY <1>4, <2>3, <2>4, <2>7, <2>8, <3>1 DEF DownPhases
  <2> QED
    BY <2>3, <2>4, <2>6, <2>7, <2>9 DEF DownInv
<1> QED
  BY <1>5, <1>6

(* The callback, when nothing is being sent to the master: what it does for *)
(* each set of transactions.                                                *)
LEMMA DownCallback ==
    ASSUME DownInv, spi_event_callback, races' = {}
    PROVE  DownInv'
<1> DEFINE x0 == [s |-> slave, r |-> spi, trigger |-> FALSE]
           y == WriteBufDone(x0)
           z == WriteStatusDone(x0)
<1>1. SpiTypes
  BY DEF DownInv
<1>2. /\ slave \in SlaveType /\ slave.rx \in Seq(Nat) /\ Len(slave.rx) \in Nat
      /\ reader.n \in Nat /\ writer.n \in Nat /\ Len(master.send) \in Nat
      /\ slave.total_recv_len \in Nat /\ master.transmit_len \in Nat
      /\ spi.mosi \in Nat /\ spi.toSlave \in Nat
  BY <1>1, SpiTyped DEF SpiTypes
<1>3. /\ sirq # {} /\ sirq' = {} /\ UNCHANGED <<master, writer, reader>>
  BY DEF spi_event_callback
<1>4. Travelling' = 0
  BY <1>3 DEF Travelling
<1>5. slave.tx = <<>>
  BY DEF DownInv
<1>6. /\ \/ sirq = {"WR_BUF"} /\ master.mode = "WRITE"
         \/ "WR_STA" \in sirq /\ "WR_BUF" \notin sirq
         \/ sirq = {"RD_STA"} /\ master.mode = "NULL"
      /\ "RD_BUF" \notin sirq /\ ~Blocked
      /\ master.mode = "WRITE" => ~mirq
  <2>1. CASE master.mode = "NULL"
    BY <1>3, <2>1 DEF DownInv, DownPhases
  <2>2. CASE master.mode = "WRITE"
    <3>1. sirq \in {{"WR_BUF"}, {"WR_STA"}, {"RD_STA", "WR_STA"}} /\ ~Blocked /\ ~mirq
      BY <1>3, <2>2 DEF DownInv, DownPhases
    <3> QED
      BY <2>2, <3>1
  <2> QED
    BY <2>1, <2>2 DEF DownInv, DownPhases
<1>7. CASE sirq = {"WR_BUF"} /\ master.mode = "WRITE"
  <2> DEFINE rx == Append(slave.rx, spi.mosi)
             ok == Space(rx) >= 1
             s1 == [slave EXCEPT !.rx = rx]
             s2 == [s1 EXCEPT !.total_recv_len = slave.total_recv_len - 1]
             s3 == [s2 EXCEPT !.wait_recv_data = slave.wait_recv_data \/ ~ok]
  <2>1. Travelling = 1 /\ "WR_STA" \notin sirq /\ "RD_STA" \notin sirq
    BY <1>7 DEF Travelling
  <2>2. /\ spi.mosi = reader.n + Len(slave.rx) + 1
        /\ slave.total_recv_len = master.transmit_len + 1
        /\ Len(slave.rx) =< Capacity /\ Len(slave.rx) # Capacity
    BY <1>6, <1>7, <2>1 DEF DownInv, DownPhases
  <2>3. /\ rx \in Seq(Nat) /\ Len(rx) = Len(slave.rx) + 1 /\ InARow(reader.n, rx)
    <3>1. InARow(reader.n, slave.rx)
      BY DEF DownInv
    <3>2. reader.n \in Int /\ slave.rx \in Seq(Nat) /\ spi.mosi \in Nat
      BY <1>2
    <3>3. spi.mosi = reader.n + Len(slave.rx) + 1
      BY <2>2
    <3> HIDE DEF rx
    <3>4. /\ Append(slave.rx, spi.mosi) \in Seq(Nat)
          /\ Len(Append(slave.rx, spi.mosi)) = Len(slave.rx) + 1
          /\ InARow(reader.n, Append(slave.rx, spi.mosi))
      BY <3>1, <3>2, <3>3, AppendInARow, Zenon
    <3> QED
      BY <3>4, Zenon DEF rx
  <2>4. SendFromISR(slave.rx, spi.mosi) = rx
    <3>1. Len(slave.rx) \in Nat /\ Len(slave.rx) =< Capacity /\ Len(slave.rx) # Capacity
      BY <1>2, <2>2
    <3>2. Space(slave.rx) > 0
      BY <3>1, SpiAssumption DEF Space
    <3> QED
      BY <3>2, Zenon DEF SendFromISR, rx
  <2>5. y.s = s3 /\ y.r = spi /\ y.trigger = ok
    <3>1. slave.total_recv_len > 0
      BY <1>2, <2>2
    <3>2. y.s = [slave EXCEPT !.rx = rx, !.total_recv_len = slave.total_recv_len - 1,
                              !.wait_recv_data = slave.wait_recv_data \/ ~ok]
      BY <1>2, <2>4, <3>1 DEF WriteBufDone, SlaveType
    <3>3. y.r = spi /\ y.trigger = (FALSE \/ ok)
      BY <2>4, <3>1 DEF WriteBufDone
    <3>4. y.s = s3
      BY <3>2
    <3>5. y.trigger = ok
      <4>1. (FALSE \/ ok) = ok
        OBVIOUS
      <4> HIDE DEF y, ok
      <4> QED
        BY <3>3, <4>1
    <3> QED
      BY <3>3, <3>4, <3>5
  <2>6. /\ slave' = y.s /\ spi' = y.r /\ SetLine(IF y.trigger THEN 1 ELSE 0, 0)
        /\ reader.pc = "clear" => Space(y.s.rx) # 0
    <3>1. When("RD_BUF", ReadBufDone, x0) = x0
      BY <1>6 DEF When
    <3>2. When("WR_BUF", WriteBufDone, x0) = y
      BY <1>7 DEF When
    <3>3. When("WR_STA", WriteStatusDone, y) = y
      BY <2>1 DEF When
    <3>4. When("RD_STA", LoadBlock, y) = y
      BY <2>1 DEF When
    <3> HIDE DEF y, x0
    <3> QED
      BY <1>7, <3>1, <3>2, <3>3, <3>4 DEF spi_event_callback, x0
  <2> HIDE DEF y
  <2>7. ok <=> Len(rx) # Capacity
    <3>1. Space(rx) = Capacity - Len(rx) /\ Len(rx) = Len(slave.rx) + 1
      BY <2>3 DEF Space
    <3> HIDE DEF rx
    <3>2. Len(slave.rx) \in Nat /\ Len(slave.rx) =< Capacity /\ Len(slave.rx) # Capacity
      BY <1>2, <2>2
    <3>3. Capacity \in Nat
      BY SpiAssumption
    <3>4. Len(rx) \in Nat /\ Len(rx) =< Capacity
      BY <3>1, <3>2, <3>3
    <3> QED
      BY <3>1, <3>3, <3>4
  <2>8. Len(rx) =< Capacity /\ (reader.pc = "clear" => Len(rx) # Capacity)
    <3>1. y.s.rx = rx
      BY <1>2, <2>5 DEF SlaveType
    <3>2. reader.pc = "clear" => Space(rx) # 0
      BY <2>6, <3>1
    <3> QED
      BY <1>2, <2>2, <2>3, <3>2, SpiAssumption DEF Space
  <2>9. slave.total_recv_len - 1 = master.transmit_len /\ slave.total_recv_len - 1 \in Nat
    BY <1>2, <2>2
  <2> HIDE DEF rx, ok
  <2>10. /\ s1 \in SlaveType /\ s1.rx = rx /\ s1.tx = slave.tx /\ s1.sending_flag = slave.sending_flag
    BY <1>2, <2>3 DEF SlaveType
  <2> HIDE DEF s1
  <2>11. /\ s2 \in SlaveType /\ s2.rx = rx /\ s2.tx = slave.tx /\ s2.sending_flag = slave.sending_flag
         /\ s2.total_recv_len = master.transmit_len
    BY <2>9, <2>10 DEF SlaveType
  <2> HIDE DEF s2
  <2>12. /\ s3 \in SlaveType /\ s3.rx = rx /\ s3.tx = slave.tx /\ s3.sending_flag = slave.sending_flag
         /\ s3.total_recv_len = master.transmit_len
         /\ s3.wait_recv_data <=> slave.wait_recv_data \/ ~ok
    <3> DEFINE w == slave.wait_recv_data \/ ~ok
    <3>1. w \in BOOLEAN
      OBVIOUS
    <3>2. s3 = [s2 EXCEPT !.wait_recv_data = w]
      OBVIOUS
    <3> HIDE DEF w, s3
    <3>3. /\ s3 \in SlaveType /\ s3.rx = rx /\ s3.tx = slave.tx
          /\ s3.sending_flag = slave.sending_flag /\ s3.total_recv_len = master.transmit_len
          /\ s3.wait_recv_data = w
      BY <2>11, <3>1, <3>2 DEF SlaveType
    <3> QED
      BY <3>3 DEF w
  <2> HIDE DEF s3
  <2>13. slave' = s3 /\ spi' = spi
    BY <2>5, <2>6
  <2>14. /\ line' \in {0, 1} /\ mirq' \in BOOLEAN /\ (~ok => ~mirq')
    <3>1. /\ line' = (IF ok THEN 1 ELSE 0)
          /\ mirq' = (mirq \/ ((IF ok THEN 1 ELSE 0) = 1 /\ 0 = 0))
      BY <2>5, <2>6 DEF SetLine
    <3>2. CASE ok
      BY <3>1, <3>2
    <3>3. CASE ~ok
      <4>1. (IF ok THEN 1 ELSE 0) = 0
        BY <3>3
      <4>2. line' = 0 /\ mirq' = (mirq \/ (0 = 1 /\ 0 = 0))
        BY <3>1, <4>1
      <4>3. ~mirq
        BY <1>6, <1>7
      <4>4. (mirq \/ (0 = 1 /\ 0 = 0)) = FALSE
        BY <4>3
      <4>5. mirq' = FALSE
        BY <4>2, <4>4
      <4> QED
        BY <4>2, <4>5
    <3> QED
      BY <3>2, <3>3
  <2>15. SpiTypes'
    BY <1>1, <1>3, <2>12, <2>13, <2>14 DEF SpiTypes
  <2>16. Blocked' <=> ~ok
    BY <1>3, <1>6, <2>7, <2>8, <2>12, <2>13 DEF Blocked
  <2>17. DownPhases'
    <3>1. /\ Len(slave'.rx) =< Capacity /\ (Len(slave'.rx) = Capacity => Blocked')
      BY <2>7, <2>8, <2>12, <2>13, <2>16
    <3>2. master.transmit_len =< Len(master.send)
      BY <1>7 DEF DownInv, DownPhases
    <3>3. slave'.total_recv_len = master.transmit_len + Travelling'
      BY <1>2, <1>4, <2>12, <2>13
    <3> QED
      BY <1>3, <1>4, <1>7, <2>14, <2>16, <3>1, <3>2, <3>3 DEF DownPhases
  <2>18. writer.n - Len(master.send) = reader.n + Len(rx) + 0
    <3>1. writer.n - Len(master.send) = reader.n + Len(slave.rx) + 1
      BY <2>1 DEF DownInv
    <3>2. Len(rx) = Len(slave.rx) + 1
      BY <2>3
    <3>3. reader.n + Len(rx) + 0 = reader.n + Len(slave.rx) + 1
      BY <1>2, <3>2
    <3> QED
      BY <3>1, <3>3
  <2> QED
    BY <1>3, <1>4, <2>3, <2>12, <2>13, <2>15, <2>17, <2>18 DEF DownInv
<1>8. CASE "WR_STA" \in sirq /\ "WR_BUF" \notin sirq
  <2> DEFINE n == spi.toSlave
             s1 == [slave EXCEPT !.total_recv_len = n]
  <2>1. Len(slave.tx) = 0
    BY <1>5
  <2>2. z.s = s1 /\ z.r = spi
    BY <2>1 DEF WriteStatusDone
  <2>3. z.trigger = (n > 0)
    <3>1. z.trigger = (FALSE \/ n > 0 \/ Len(slave.tx) > 0)
      BY DEF WriteStatusDone
    <3>2. (FALSE \/ n > 0 \/ Len(slave.tx) > 0) = (n > 0)
      BY <1>2, <2>1
    <3> HIDE DEF z
    <3> QED
      BY <3>1, <3>2
  <2>4. s1 \in SlaveType /\ s1.rx = slave.rx /\ s1.tx = slave.tx
        /\ s1.sending_flag = slave.sending_flag /\ s1.total_recv_len = n
        /\ s1.wait_recv_data = slave.wait_recv_data
    BY <1>2 DEF SlaveType
  <2>5. /\ slave' = z.s /\ spi' = z.r /\ SetLine(IF z.trigger THEN 1 ELSE 0, 0)
    <3>1. When("RD_BUF", ReadBufDone, x0) = x0
      BY <1>6 DEF When
    <3>2. When("WR_BUF", WriteBufDone, x0) = x0
      BY <1>8 DEF When
    <3>3. When("WR_STA", WriteStatusDone, x0) = z
      BY <1>8 DEF When
    <3>4. When("RD_STA", LoadBlock, z) = z
      <4>1. z.s.tx = <<>>
        BY <1>5, <2>2, <2>4
      <4> HIDE DEF z
      <4>2. LoadBlock(z) = z
        BY <4>1 DEF LoadBlock
      <4> QED
        BY <4>2 DEF When
    <3> HIDE DEF z, x0
    <3> QED
      BY <3>1, <3>2, <3>3, <3>4 DEF spi_event_callback, x0
  <2> HIDE DEF z, s1
  <2>6. /\ slave' = s1 /\ spi' = spi
    BY <2>2, <2>5
  <2>7. line' \in {0, 1} /\ mirq' \in BOOLEAN
    <3>1. line' \in {0, 1} /\ mirq' = (mirq \/ ((IF z.trigger THEN 1 ELSE 0) = 1 /\ 0 = 0))
      BY <2>5 DEF SetLine
    <3> QED
      BY <3>1
  <2>8. SpiTypes'
    BY <1>1, <1>3, <2>4, <2>6, <2>7 DEF SpiTypes
  <2>9. ~Blocked'
    BY <1>3, <1>6, <2>4, <2>6 DEF Blocked
  <2>10. Travelling = 0
    BY <1>8 DEF Travelling
  <2>11. /\ master.mode = "NULL" => n = 0
         /\ master.mode = "WRITE" => n = master.transmit_len /\ n = n + Travelling'
    BY <1>2, <1>4, <1>8 DEF DownInv, DownPhases
  <2>12. DownPhases'
    <3>1. /\ Len(slave'.rx) =< Capacity /\ (Len(slave'.rx) = Capacity => Blocked')
      BY <1>6, <2>4, <2>6 DEF DownInv, DownPhases
    <3>2. /\ master.mode \in {"NULL", "WRITE"}
          /\ master.mode = "WRITE" => master.transmit_len =< Len(master.send)
      BY DEF DownInv, DownPhases
    <3> QED
      BY <1>3, <1>4, <2>4, <2>6, <2>9, <2>11, <3>1, <3>2 DEF DownPhases
  <2> QED
    BY <1>3, <1>4, <2>4, <2>6, <2>8, <2>10, <2>12 DEF DownInv
<1>9. CASE sirq = {"RD_STA"} /\ master.mode = "NULL"
  <2>1. /\ slave' = slave /\ spi' = spi /\ SetLine(0, 0)
    <3>1. When("RD_BUF", ReadBufDone, x0) = x0
      BY <1>6 DEF When
    <3>2. When("WR_BUF", WriteBufDone, x0) = x0
      BY <1>9 DEF When
    <3>3. When("WR_STA", WriteStatusDone, x0) = x0
      BY <1>9 DEF When
    <3>4. When("RD_STA", LoadBlock, x0) = x0
      BY <1>5 DEF When, LoadBlock
    <3>5. x0.s = slave /\ x0.r = spi /\ x0.trigger = FALSE
      OBVIOUS
    <3>6. /\ slave' = x0.s /\ spi' = x0.r /\ SetLine(IF x0.trigger THEN 1 ELSE 0, 0)
      <4> HIDE DEF x0
      <4> QED
        BY <3>1, <3>2, <3>3, <3>4 DEF spi_event_callback, x0
    <3> HIDE DEF x0
    <3> QED
      BY <3>5, <3>6
  <2>2. line' \in {0, 1} /\ mirq' \in BOOLEAN
    <3>1. line' = 0 /\ mirq' = (mirq \/ (0 = 1 /\ 0 = 0))
      BY <2>1 DEF SetLine
    <3> QED
      BY <3>1
  <2>3. SpiTypes'
    BY <1>1, <1>3, <2>1, <2>2 DEF SpiTypes
  <2>4. ~Blocked' /\ Travelling = 0
    BY <1>3, <1>6, <1>9, <2>1 DEF Blocked, Travelling
  <2>5. DownPhases'
    BY <1>3, <1>6, <1>9, <2>1, <2>4 DEF DownInv, DownPhases
  <2> QED
    BY <1>3, <1>4, <2>1, <2>3, <2>4, <2>5 DEF DownInv
<1> QED
  BY <1>6, <1>7, <1>8, <1>9

LEMMA UpSend ==
    ASSUME UpInv, SlaveWriteSend
    PROVE  UpInv'
<1> DEFINE b == slave.tx \o Numbered(writer.n, WriteLen)
<1>1. SpiTypes /\ WriteLen \in Nat
  BY SpiAssumption DEF UpInv
<1>2. /\ slave.tx \in Seq(Nat) /\ Len(slave.tx) \in Nat /\ writer.n \in Nat
      /\ slave.total_send_len \in Nat /\ spi.toMaster \in Nat
      /\ writer.n - Len(slave.tx) \in Int
  BY <1>1, SpiTyped
<1>3. /\ b \in Seq(Nat) /\ Len(b) = Len(slave.tx) + WriteLen
      /\ InARow(writer.n - Len(slave.tx), b)
  BY <1>1, <1>2, ConcatInARow DEF UpInv
<1>4. /\ slave' = [slave EXCEPT !.tx = b]
      /\ writer' = [pc |-> "kick", n |-> writer.n + WriteLen]
      /\ UNCHANGED <<master, spi, line, mirq, sirq, reader>>
  BY DEF SlaveWriteSend
<1> HIDE DEF b
<1>5. /\ slave' \in SlaveType /\ slave'.tx = b /\ slave'.sending_flag = slave.sending_flag
      /\ slave'.total_send_len = slave.total_send_len
  BY <1>1, <1>3, <1>4 DEF SpiTypes, SlaveType
<1>6. /\ writer' \in [pc : {"send", "kick"}, n : Nat] /\ writer'.n = writer.n + WriteLen
  BY <1>1, <1>2, <1>4
<1>7. SpiTypes'
  BY <1>1, <1>4, <1>5, <1>6 DEF SpiTypes
<1>8. Len(slave'.tx) = Len(slave.tx) + WriteLen
  BY <1>3, <1>5
<1>9. /\ writer'.n - Len(slave'.tx) = writer.n - Len(slave.tx)
      /\ slave.total_send_len =< Len(slave.tx) => slave.total_send_len =< Len(slave'.tx)
      /\ spi.toMaster =< Len(slave.tx) => spi.toMaster =< Len(slave'.tx)
  <2>1. writer'.n - Len(slave'.tx) = writer.n - Len(slave.tx)
    BY <1>1, <1>2, <1>6, <1>8
  <2>2. Len(slave.tx) =< Len(slave'.tx) /\ Len(slave'.tx) \in Nat
    BY <1>1, <1>2, <1>8
  <2>3. slave.total_send_len =< Len(slave.tx) => slave.total_send_len =< Len(slave'.tx)
    BY <1>2, <2>2
  <2>4. spi.toMaster =< Len(slave.tx) => spi.toMaster =< Len(slave'.tx)
    BY <1>2, <2>2
  <2> QED
    BY <2>1, <2>3, <2>4
<1>10. Loaded' = Loaded
  BY <1>4 DEF Loaded
<1>11. UpPhases'
  BY <1>4, <1>5, <1>9, <1>10 DEF UpInv, UpPhases
<1> QED
  BY <1>3, <1>4, <1>5, <1>7, <1>9, <1>10, <1>11 DEF UpInv

LEMMA UpKick ==
    ASSUME UpInv, SlaveWriteKick, races' = {}
    PROVE  UpInv'
<1>1. SpiTypes
  BY DEF UpInv
<1>2. /\ slave.tx \in Seq(Nat) /\ Len(slave.tx) \in Nat
  BY <1>1, SpiTyped
<1>3. /\ writer' = [writer EXCEPT !.pc = "send"] /\ UNCHANGED <<master, sirq, reader>>
  BY DEF SlaveWriteKick
<1>4. writer' \in [pc : {"send", "kick"}, n : Nat] /\ writer'.n = writer.n
  BY <1>1, <1>3 DEF SpiTypes
<1>5. Loaded' = Loaded
  BY <1>3 DEF Loaded
<1>6. CASE slave.sending_flag
  <2>1. UNCHANGED <<slave, spi, line, mirq>>
    BY <1>6 DEF SlaveWriteKick
  <2>2. SpiTypes'
    BY <1>1, <1>3, <1>4, <2>1 DEF SpiTypes
  <2>3. UpPhases'
    BY <1>3, <1>5, <2>1 DEF UpInv, UpPhases
  <2> QED
    BY <1>3, <1>4, <1>5, <2>1, <2>2, <2>3 DEF UpInv
<1>7. CASE ~slave.sending_flag
  <2> DEFINE n == Len(slave.tx)
             s1 == [slave EXCEPT !.total_send_len = n]
             s2 == [s1 EXCEPT !.sending_flag = TRUE]
  <2>1. /\ slave' = s2 /\ spi' = [spi EXCEPT !.toMaster = n] /\ line' = 1
        /\ mirq' = (mirq \/ (1 = 1 /\ line = 0)) /\ slave.tx # <<>>
    BY <1>7 DEF SlaveWriteKick, SetLine
  <2>2. n \in Nat /\ n > 0
    BY <1>2, <2>1, EmptySeq
  <2> HIDE DEF n
  <2>3. s1 \in SlaveType /\ s1.tx = slave.tx /\ s1.total_send_len = n
    BY <1>1, <2>2 DEF SpiTypes, SlaveType
  <2> HIDE DEF s1
  <2>4. /\ slave' \in SlaveType /\ slave'.tx = slave.tx /\ slave'.total_send_len = n
        /\ slave'.sending_flag = TRUE
    BY <2>1, <2>3 DEF SlaveType
  <2>5. spi' \in SpiType /\ spi'.toMaster = n /\ spi'.miso = spi.miso
    BY <1>1, <2>1, <2>2 DEF SpiTypes, SpiType
  <2>6. mirq' \in BOOLEAN
    BY <2>1
  <2>7. SpiTypes'
    BY <1>1, <1>3, <1>4, <2>1, <2>4, <2>5, <2>6 DEF SpiTypes
  <2>8. master.mode = "NULL" /\ sirq = {} /\ Loaded = 0 /\ ~master.wait_recv_data
    <3>1. master.mode = "NULL"
      BY <1>7 DEF UpInv, UpPhases
    <3>2. Loaded = 0
      BY <3>1 DEF Loaded
    <3> QED
      BY <1>7, <3>1, <3>2 DEF UpInv, UpPhases
  <2>9. n =< Len(slave'.tx)
    BY <2>2, <2>4 DEF n
  <2>10. UpPhases'
    BY <1>3, <1>5, <2>2, <2>4, <2>5, <2>8, <2>9 DEF UpPhases
  <2> QED
    BY <1>3, <1>4, <1>5, <2>4, <2>7, <2>10 DEF UpInv
<1> QED
  BY <1>6, <1>7

LEMMA UpReceive ==
    ASSUME UpInv, MasterReadReceive
    PROVE  UpInv'
<1> DEFINE n == IF Len(master.recv) < ReadLen THEN Len(master.recv) ELSE ReadLen
           b == SubSeq(master.recv, n + 1, Len(master.recv))
<1>1. SpiTypes /\ ReadLen \in Nat
  BY SpiAssumption DEF UpInv
<1>2. master.recv \in Seq(Nat) /\ Len(master.recv) \in Nat /\ reader.n \in Nat
  BY <1>1, SpiTyped
<1>3. /\ reader' = [pc |-> "check", n |-> reader.n + n]
      /\ master' = [master EXCEPT !.recv = b]
      /\ UNCHANGED <<slave, spi, line, mirq, sirq, writer>>
  BY DEF MasterReadReceive
<1>4. n \in 0 .. Len(master.recv)
  BY <1>1, <1>2
<1> HIDE DEF n
<1>5. /\ b \in Seq(Nat) /\ Len(b) = Len(master.recv) - n /\ InARow(reader.n + n, b)
  <2>1. InARow(reader.n, master.recv)
    BY DEF UpInv
  <2>2. reader.n \in Int
    BY <1>2
  <2> HIDE DEF b
  <2>3. /\ SubSeq(master.recv, n + 1, Len(master.recv)) \in Seq(Nat)
        /\ Len(SubSeq(master.recv, n + 1, Len(master.recv))) = Len(master.recv) - n
        /\ InARow(reader.n + n, SubSeq(master.recv, n + 1, Len(master.recv)))
    BY <1>2, <1>4, <2>1, <2>2, DropInARow, Zenon
  <2> QED
    BY <2>3, Zenon DEF b
<1> HIDE DEF b
<1>6. /\ master' \in MasterType /\ master'.recv = b /\ master'.send = master.send
      /\ master'.mode = master.mode /\ master'.transmit_len = master.transmit_len
      /\ master'.wait_recv_data = master.wait_recv_data
  BY <1>1, <1>3, <1>5 DEF SpiTypes, MasterType
<1>7. /\ reader' \in [pc : {"receive", "check", "clear"}, n : Nat]
      /\ reader'.n = reader.n + n
  BY <1>2, <1>3, <1>4
<1>8. SpiTypes'
  BY <1>1, <1>3, <1>6, <1>7 DEF SpiTypes
<1>9. reader'.n + Len(master'.recv) = reader.n + Len(master.recv)
  BY <1>2, <1>4, <1>5, <1>6, <1>7
<1>10. Loaded' = Loaded
  BY <1>3, <1>6 DEF Loaded
<1>11. UpPhases'
  BY <1>3, <1>6, <1>9, <1>10 DEF UpInv, UpPhases
<1> QED
  BY <1>3, <1>5, <1>6, <1>7, <1>8, <1>9, <1>10, <1>11 DEF UpInv

LEMMA UpCheck ==
    ASSUME UpInv, MasterReadCheck
    PROVE  UpInv'
<1>1. SpiTypes
  BY DEF UpInv
<1>2. /\ reader' = [reader EXCEPT !.pc = "receive"]
      /\ UNCHANGED <<slave, spi, line, sirq, writer>>
  BY DEF MasterReadCheck
<1>3. /\ reader' \in [pc : {"receive", "check", "clear"}, n : Nat] /\ reader'.n = reader.n
  BY <1>1, <1>2 DEF SpiTypes
<1>4. CASE master.wait_recv_data /\ Len(master.recv) > 1
  <2>1. master' = [master EXCEPT !.wait_recv_data = FALSE] /\ mirq' = TRUE
    BY <1>4 DEF MasterReadCheck
  <2>2. /\ master' \in MasterType /\ master'.recv = master.recv /\ master'.send = master.send
        /\ master'.mode = master.mode /\ master'.transmit_len = master.transmit_len
        /\ master'.wait_recv_data = FALSE
    BY <1>1, <2>1 DEF SpiTypes, MasterType
  <2>3. SpiTypes'
    BY <1>1, <1>2, <1>3, <2>1, <2>2 DEF SpiTypes
  <2>4. Loaded' = Loaded
    BY <1>2, <2>2 DEF Loaded
  <2>5. master.mode = "READ" /\ sirq = {} /\ slave.sending_flag
    <3>1. Loaded = 1
      BY <1>4 DEF UpInv, UpPhases
    <3>2. master.mode = "READ" /\ sirq = {}
      BY <3>1 DEF Loaded
    <3> QED
      BY <3>2 DEF UpInv, UpPhases
  <2>6. UpPhases'
    BY <1>2, <1>3, <2>2, <2>4, <2>5 DEF UpInv, UpPhases
  <2> QED
    BY <1>2, <1>3, <2>2, <2>3, <2>4, <2>6 DEF UpInv
<1>5. CASE ~(master.wait_recv_data /\ Len(master.recv) > 1)
  <2>1. UNCHANGED <<master, mirq>>
    BY <1>5 DEF MasterReadCheck
  <2>2. SpiTypes'
    BY <1>1, <1>2, <1>3, <2>1 DEF SpiTypes
  <2>3. Loaded' = Loaded
    BY <1>2, <2>1 DEF Loaded
  <2>4. UpPhases'
    BY <1>2, <1>3, <2>1, <2>3 DEF UpInv, UpPhases
  <2> QED
    BY <1>2, <1>3, <2>1, <2>2, <2>3, <2>4 DEF UpInv
<1> QED
  BY <1>4, <1>5

LEMMA UpIdle ==
    ASSUME UpInv, mirq, IsrIdle, UNCHANGED <<slave, line, writer, reader>>
    PROVE  UpInv'
<1> DEFINE n == spi.toMaster
           m1 == [master EXCEPT !.transmit_len = n]
<1>1. SpiTypes /\ n \in Nat
  BY SpiTyped DEF UpInv
<1>2. /\ master.mode = "NULL" /\ mirq' = FALSE /\ master.send = <<>>
      /\ spi' = spi /\ sirq' = sirq \cup {"RD_STA"}
      /\ master' = [m1 EXCEPT !.mode = IF n > 0 THEN "READ" ELSE "NULL"]
  BY DEF IsrIdle, UpInv, spi_master_get_length, spi_trans
<1>3. /\ sirq = {} /\ slave.sending_flag /\ ~master.wait_recv_data /\ Loaded = 0
  <2>1. Loaded = 0
    BY <1>2 DEF Loaded
  <2> QED
    BY <2>1 DEF UpInv, UpPhases
<1>4. n > 0 /\ n =< Len(slave.tx) /\ slave.total_send_len = n
  BY <1>2, <1>3 DEF UpInv, UpPhases
<1>5. sirq' = {"RD_STA"} /\ Loaded' = 0
  BY <1>2, <1>3 DEF Loaded
<1>6. master' = [m1 EXCEPT !.mode = "READ"]
  BY <1>2, <1>4
<1>7. /\ m1 \in MasterType /\ m1.send = master.send /\ m1.recv = master.recv
      /\ m1.wait_recv_data = master.wait_recv_data /\ m1.transmit_len = n
  BY <1>1 DEF SpiTypes, MasterType
<1> HIDE DEF m1
<1>8. /\ master' \in MasterType /\ master'.send = master.send /\ master'.recv = master.recv
      /\ master'.wait_recv_data = master.wait_recv_data /\ master'.transmit_len = n
      /\ master'.mode = "READ"
  BY <1>6, <1>7 DEF MasterType
<1>9. SpiTypes'
  BY <1>1, <1>2, <1>8 DEF SpiTypes
<1>10. slave'.total_send_len = master'.transmit_len - Loaded'
  BY <1>1, <1>4, <1>5, <1>8
<1>11. UpPhases'
  BY <1>2, <1>3, <1>4, <1>5, <1>8, <1>10 DEF UpPhases
<1> QED
  BY <1>3, <1>5, <1>8, <1>9, <1>11 DEF UpInv

LEMMA UpRead ==
    ASSUME UpInv, mirq, IsrRead, UNCHANGED <<slave, line, writer, reader>>
    PROVE  UpInv'
<1>1. SpiTypes
  BY DEF UpInv
<1>2. /\ master.recv \in Seq(Nat) /\ Len(master.recv) \in Nat /\ spi.miso \in Nat
      /\ reader.n \in Nat /\ writer.n \in Nat /\ Len(slave.tx) \in Nat
      /\ master.transmit_len \in Nat /\ slave.total_send_len \in Nat
  BY <1>1, SpiTyped
<1>3. master.mode = "READ" /\ sirq = {} /\ ~master.wait_recv_data /\ Loaded = 1 /\ spi' = spi
  <2>1. master.mode = "READ" /\ spi' = spi
    BY DEF IsrRead
  <2>2. sirq = {} /\ ~master.wait_recv_data
    BY DEF UpInv, UpPhases
  <2> QED
    BY <2>1, <2>2 DEF Loaded
<1>4. /\ slave.sending_flag /\ master.transmit_len > 0
      /\ slave.total_send_len = master.transmit_len - 1
      /\ slave.total_send_len =< Len(slave.tx)
      /\ spi.miso = reader.n + Len(master.recv) + 1
  BY <1>3 DEF UpInv, UpPhases
<1>5. CASE Space(master.recv) >= 1
  <2> DEFINE left == master.transmit_len - 1
             b == Append(master.recv, spi.miso)
             m1 == [master EXCEPT !.recv = b]
             m2 == [m1 EXCEPT !.transmit_len = left]
             m3 == [m2 EXCEPT !.mode = IF left = 0 THEN "NULL" ELSE "READ"]
  <2>1. /\ sirq' = sirq \cup {"RD_BUF"} /\ master' = m3
        /\ mirq' = (left = 0 /\ master.send # <<>>)
    BY <1>5 DEF IsrRead, spi_trans
  <2>2. ~mirq' /\ mirq' \in BOOLEAN
    BY <2>1 DEF UpInv
  <2>3. left \in Nat /\ slave.total_send_len = left
    BY <1>2, <1>4
  <2>4. b \in Seq(Nat) /\ Len(b) = Len(master.recv) + 1 /\ InARow(reader.n, b)
    <3>1. InARow(reader.n, master.recv)
      BY DEF UpInv
    <3>2. reader.n \in Int
      BY <1>2
    <3> QED
      BY <1>2, <1>4, <3>1, <3>2, AppendInARow
  <2> HIDE DEF b, left
  <2>5. /\ m1 \in MasterType /\ m1.recv = b /\ m1.send = master.send
        /\ m1.wait_recv_data = master.wait_recv_data
    BY <1>1, <2>4 DEF SpiTypes, MasterType
  <2> HIDE DEF m1
  <2>6. /\ m2 \in MasterType /\ m2.recv = b /\ m2.send = master.send
        /\ m2.wait_recv_data = master.wait_recv_data /\ m2.transmit_len = left
    BY <2>3, <2>5 DEF MasterType
  <2> HIDE DEF m2
  <2>7. /\ master' \in MasterType /\ master'.recv = b /\ master'.send = master.send
        /\ master'.wait_recv_data = master.wait_recv_data /\ master'.transmit_len = left
        /\ master'.mode = IF left = 0 THEN "NULL" ELSE "READ"
    BY <2>1, <2>6 DEF MasterType
  <2> HIDE DEF m3
  <2>8. sirq' = {"RD_BUF"} /\ Loaded' = 0
    BY <1>3, <2>1 DEF Loaded
  <2>9. SpiTypes'
    BY <1>1, <1>3, <2>2, <2>7 DEF SpiTypes
  <2>10. UpPhases'
    <3>1. left # 0 => left > 0
      BY <2>3
    <3>2. slave'.total_send_len = left /\ left = left - Loaded'
      BY <2>3, <2>8
    <3>3. CASE left = 0
      <4>1. master'.mode = "NULL"
        BY <2>7, <3>3
      <4>2. slave'.total_send_len = 0 /\ slave'.sending_flag
        BY <1>4, <3>2, <3>3
      <4>3. ~master'.wait_recv_data /\ sirq' # {} /\ Loaded' # 1
        BY <1>3, <2>7, <2>8
      <4> QED
        BY <2>2, <2>8, <4>1, <4>2, <4>3 DEF UpPhases
    <3>4. CASE left # 0
      <4>1. master'.mode = "READ"
        BY <2>7, <3>4
      <4>2. slave'.total_send_len =< Len(slave'.tx)
        BY <1>4
      <4> QED
        BY <1>3, <1>4, <2>2, <2>7, <2>8, <3>1, <3>2, <3>4, <4>1, <4>2 DEF UpPhases
    <3> QED
      BY <3>3, <3>4
  <2>11. writer.n - Len(slave.tx) = reader.n + Len(b) + 0
    <3>1. writer.n - Len(slave.tx) = reader.n + Len(master.recv) + 1
      BY <1>3 DEF UpInv
    <3>2. Len(b) = Len(master.recv) + 1 /\ Len(master.recv) \in Nat /\ reader.n \in Nat
      BY <1>2, <2>4
    <3>3. reader.n + Len(b) + 0 = reader.n + Len(master.recv) + 1
      BY <3>2
    <3> QED
      BY <3>1, <3>3, Zenon
  <2> QED
    BY <2>4, <2>7, <2>8, <2>9, <2>10, <2>11 DEF UpInv
<1>6. CASE ~(Space(master.recv) >= 1)
  <2>1. /\ master' = [master EXCEPT !.wait_recv_data = TRUE] /\ mirq' = FALSE /\ sirq' = sirq
    BY <1>6 DEF IsrRead
  <2>2. /\ master' \in MasterType /\ master'.recv = master.recv /\ master'.send = master.send
        /\ master'.mode = master.mode /\ master'.transmit_len = master.transmit_len
    BY <1>1, <2>1 DEF SpiTypes, MasterType
  <2>3. Loaded' = 1
    BY <1>3, <2>1, <2>2 DEF Loaded
  <2>4. SpiTypes'
    BY <1>1, <1>3, <2>1, <2>2 DEF SpiTypes
  <2>5. UpPhases'
    BY <1>3, <1>4, <2>1, <2>2, <2>3 DEF UpPhases
  <2> QED
    BY <1>3, <2>2, <2>3, <2>4, <2>5 DEF UpInv
<1> QED
  BY <1>5, <1>6

(* A block goes from the slave's buffer into the data register.             *)
LEMMA UpLoad ==
    ASSUME UpInv, sirq # {}, master.mode = "READ", sirq' = {},
           UNCHANGED <<master, writer, reader>>,
           NEW x, x = LoadBlock([s |-> slave, r |-> spi, trigger |-> FALSE]),
           slave' = x.s, spi' = x.r, SetLine(IF x.trigger THEN 1 ELSE 0, 0)
    PROVE  UpInv'
<1> DEFINE b == Tail(slave.tx)
           f == writer.n - Len(slave.tx)
           k == slave.total_send_len - 1
           s1 == [slave EXCEPT !.tx = b]
           s2 == [s1 EXCEPT !.total_send_len = k]
<1>1. SpiTypes
  BY DEF UpInv
<1>2. /\ slave.tx \in Seq(Nat) /\ Len(slave.tx) \in Nat /\ Len(master.recv) \in Nat
      /\ reader.n \in Nat /\ writer.n \in Nat /\ master.transmit_len \in Nat
      /\ slave.total_send_len \in Nat
  BY <1>1, SpiTyped
<1>3. Loaded = 0 /\ Loaded' = 1
  BY DEF Loaded
<1>4. /\ slave.sending_flag /\ master.transmit_len > 0
      /\ slave.total_send_len = master.transmit_len - 0
      /\ slave.total_send_len =< Len(slave.tx) /\ ~mirq /\ ~master.wait_recv_data
  BY <1>3 DEF UpInv, UpPhases
<1>5. /\ Len(slave.tx) > 0 /\ slave.total_send_len # 0 /\ slave.tx # <<>>
      /\ k \in Nat /\ k = master.transmit_len - 1 /\ k =< Len(slave.tx) - 1
  <2>1. Len(slave.tx) > 0 /\ slave.total_send_len # 0
    BY <1>2, <1>4
  <2> QED
    BY <1>2, <1>4, <2>1, EmptySeq
<1>6. /\ x.s = s2 /\ x.r = [spi EXCEPT !.miso = Head(slave.tx)] /\ x.trigger = TRUE
  <2>1. s2 = [slave EXCEPT !.tx = b, !.total_send_len = k]
    BY <1>1 DEF SpiTypes, SlaveType
  <2> QED
    BY <1>1, <1>5, <2>1 DEF LoadBlock, SpiTypes, SlaveType
<1>7. f \in Int /\ InARow(f, slave.tx) /\ f = reader.n + Len(master.recv)
  BY <1>2, <1>3 DEF UpInv
<1>8. /\ b \in Seq(Nat) /\ Len(b) = Len(slave.tx) - 1
      /\ Head(slave.tx) = f + 1 /\ Head(slave.tx) \in Nat /\ InARow(f + 1, b)
  <2> HIDE DEF f
  <2> QED
    BY <1>2, <1>5, <1>7, TailInARow
<1> HIDE DEF b, k
<1>9. /\ s1 \in SlaveType /\ s1.tx = b /\ s1.sending_flag = slave.sending_flag
  BY <1>1, <1>8 DEF SpiTypes, SlaveType
<1> HIDE DEF s1
<1>10. /\ slave' \in SlaveType /\ slave'.tx = b /\ slave'.sending_flag = slave.sending_flag
       /\ slave'.total_send_len = k
  BY <1>5, <1>6, <1>9 DEF SlaveType
<1>11. spi' \in SpiType /\ spi'.miso = f + 1
  BY <1>1, <1>6, <1>8 DEF SpiTypes, SpiType
<1>12. line' \in {0, 1} /\ mirq' = TRUE
  BY <1>6 DEF SetLine
<1>13. SpiTypes'
  BY <1>1, <1>10, <1>11, <1>12 DEF SpiTypes
<1>14. UpPhases'
  <2>1. /\ slave'.total_send_len = master.transmit_len - Loaded'
        /\ slave'.total_send_len =< Len(slave'.tx)
    BY <1>2, <1>3, <1>5, <1>8, <1>10
  <2>2. spi'.miso = reader.n + Len(master.recv) + 1
    BY <1>7, <1>11
  <2> QED
    BY <1>3, <1>4, <1>10, <2>1, <2>2 DEF UpPhases
<1>15. writer.n - Len(slave'.tx) = f + 1 /\ f + 1 = reader.n + Len(master.recv) + Loaded'
  <2>1. Len(slave'.tx) = Len(slave.tx) - 1
    BY <1>8, <1>10
  <2>2. f + 1 = reader.n + Len(master.recv) + Loaded'
    BY <1>3, <1>7
  <2>3. writer.n - (Len(slave.tx) - 1) = f + 1
    BY <1>2
  <2> QED
    BY <2>1, <2>2, <2>3
<1>16. master.send = <<>> /\ InARow(reader.n, master.recv)
  BY DEF UpInv
<1> QED
  BY <1>8, <1>10, <1>13, <1>14, <1>15, <1>16 DEF UpInv

LEMMA UpCallback ==
    ASSUME UpInv, spi_event_callback
    PROVE  UpInv'
<1> DEFINE x0 == [s |-> slave, r |-> spi, trigger |-> FALSE]
           y == ReadBufDone(x0)
           z == LoadBlock(x0)
<1>1. SpiTypes
  BY DEF UpInv
<1>2. /\ slave.tx \in Seq(Nat) /\ Len(slave.tx) \in Nat /\ slave \in SlaveType
      /\ slave.total_send_len \in Nat /\ master.transmit_len \in Nat
  BY <1>1, SpiTyped DEF SpiTypes
<1>3. /\ sirq # {} /\ sirq' = {} /\ UNCHANGED <<master, writer, reader>>
  BY DEF spi_event_callback
<1>4. /\ sirq = {"RD_STA"} \/ sirq = {"RD_BUF"}
      /\ Loaded = 0 /\ ~mirq /\ ~master.wait_recv_data
      /\ "WR_BUF" \notin sirq /\ "WR_STA" \notin sirq
  <2>1. sirq = {"RD_STA"} \/ sirq = {"RD_BUF"}
    BY <1>3 DEF UpInv, UpPhases
  <2>2. Loaded = 0
    BY <1>3 DEF Loaded
  <2>3. ~mirq /\ ~master.wait_recv_data
    BY <1>3, <2>2 DEF UpInv, UpPhases
  <2> QED
    BY <2>1, <2>2, <2>3
<1>5. \A v : When("WR_BUF", WriteBufDone, v) = v /\ When("WR_STA", WriteStatusDone, v) = v
  BY <1>4 DEF When
<1>6. CASE sirq = {"RD_STA"}
  <2>1. /\ slave' = z.s /\ spi' = z.r /\ SetLine(IF z.trigger THEN 1 ELSE 0, 0)
    <3>1. When("RD_BUF", ReadBufDone, x0) = x0
      BY <1>6 DEF When
    <3>2. When("RD_STA", LoadBlock, x0) = z
      BY <1>6 DEF When
    <3> HIDE DEF z, x0
    <3> QED
      BY <1>5, <3>1, <3>2 DEF spi_event_callback, x0
  <2>2. master.mode = "READ"
    BY <1>3, <1>6 DEF UpInv, UpPhases
  <2> QED
    BY <1>3, <2>1, <2>2, UpLoad
<1>7. CASE sirq = {"RD_BUF"}
  <2>1. /\ slave' = y.s /\ spi' = y.r /\ SetLine(IF y.trigger THEN 1 ELSE 0, 0)
    <3>1. When("RD_BUF", ReadBufDone, x0) = y
      BY <1>7 DEF When
    <3>2. When("RD_STA", LoadBlock, y) = y
      BY <1>7 DEF When
    <3> HIDE DEF y, x0
    <3> QED
      BY <1>5, <3>1, <3>2 DEF spi_event_callback, x0
  <2>2. CASE master.mode = "READ"
    <3>1. slave.total_send_len # 0
      <4>1. slave.total_send_len = master.transmit_len - 0 /\ master.transmit_len > 0
        BY <1>4, <2>2 DEF UpInv, UpPhases
      <4> QED
        BY <1>2, <4>1
    <3>2. y = z
      BY <3>1 DEF ReadBufDone
    <3> HIDE DEF y
    <3> QED
      BY <1>3, <2>1, <2>2, <3>2, UpLoad
  <2>3. CASE master.mode = "NULL"
    <3> DEFINE n == Len(slave.tx)
               s1 == [slave EXCEPT !.sending_flag = n > 0]
               s2 == [s1 EXCEPT !.total_send_len = n]
               r1 == IF n > 0 THEN [spi EXCEPT !.toMaster = n] ELSE spi
    <3>1. slave.total_send_len = 0
      BY <1>3, <2>3 DEF UpInv, UpPhases
    <3>2. y.s = s2 /\ y.r = r1 /\ (y.trigger <=> n > 0)
      <4>1. y.s = s2
        BY <3>1 DEF ReadBufDone
      <4>2. y.r = r1
        BY <3>1 DEF ReadBufDone
      <4>3. y.trigger = (FALSE \/ n > 0)
        BY <3>1 DEF ReadBufDone
      <4> HIDE DEF y
      <4> QED
        BY <4>1, <4>2, <4>3
    <3> HIDE DEF y
    <3>3. s1 \in SlaveType /\ s1.tx = slave.tx /\ (s1.sending_flag <=> n > 0)
      <4> DEFINE w == n > 0
      <4>1. w \in BOOLEAN
        OBVIOUS
      <4>2. s1 = [slave EXCEPT !.sending_flag = w]
        OBVIOUS
      <4> HIDE DEF w, s1
      <4>3. s1 \in SlaveType /\ s1.tx = slave.tx /\ s1.sending_flag = w
        BY <1>2, <4>1, <4>2 DEF SlaveType
      <4> QED
        BY <4>3 DEF w
    <3> HIDE DEF s1
    <3>4. /\ slave' \in SlaveType /\ slave'.tx = slave.tx /\ (slave'.sending_flag <=> n > 0)
          /\ slave'.total_send_len = n
      BY <1>2, <2>1, <3>2, <3>3 DEF SlaveType
    <3>5. spi' \in SpiType /\ (n > 0 => spi'.toMaster = n)
      <4>1. spi' = r1
        BY <2>1, <3>2
      <4> QED
        BY <1>1, <1>2, <4>1 DEF SpiTypes, SpiType
    <3>6. line' \in {0, 1} /\ mirq' \in BOOLEAN /\ (~(n > 0) => ~mirq')
      <4>1. line' = (IF y.trigger THEN 1 ELSE 0)
            /\ mirq' = (mirq \/ ((IF y.trigger THEN 1 ELSE 0) = 1 /\ 0 = 0))
        BY <2>1 DEF SetLine
      <4>2. CASE n > 0
        <5>1. (IF y.trigger THEN 1 ELSE 0) = 1
          BY <3>2, <4>2
        <5>2. mirq' = TRUE /\ line' = 1
          BY <4>1, <5>1
        <5> QED
          BY <4>2, <5>2
      <4>3. CASE ~(n > 0)
        <5>1. (IF y.trigger THEN 1 ELSE 0) = 0
          BY <3>2, <4>3
        <5>2. mirq' = (mirq \/ (0 = 1 /\ 0 = 0)) /\ line' = 0
          BY <4>1, <5>1
        <5>3. (mirq \/ (0 = 1 /\ 0 = 0)) = FALSE
          BY <1>4
        <5>4. mirq' = FALSE
          BY <5>2, <5>3
        <5> QED
          BY <5>2, <5>4
      <4> QED
        BY <4>2, <4>3
    <3>7. SpiTypes'
      BY <1>1, <1>3, <3>4, <3>5, <3>6 DEF SpiTypes
    <3>8. Loaded' = 0
      BY <1>3, <2>3 DEF Loaded
    <3>9. n =< Len(slave'.tx) /\ n \in Nat
      BY <1>2, <3>4
    <3> HIDE DEF n
    <3>10. UpPhases'
      BY <1>3, <1>4, <2>3, <3>4, <3>5, <3>6, <3>8, <3>9 DEF UpPhases
    <3> QED
      BY <1>3, <1>4, <3>4, <3>7, <3>8, <3>10 DEF UpInv
  <2> QED
    BY <2>2, <2>3 DEF UpInv, UpPhases
<1> QED
  BY <1>4, <1>6, <1>7

LEMMA SpiInitInv == SpiInit => SpiInv
<1> SUFFICES ASSUME SpiInit PROVE SpiInv
  OBVIOUS
<1>1. <<>> \in Seq(Nat) /\ Len(<<>>) = 0 /\ DOMAIN <<>> = {}
  OBVIOUS
<1>2. SpiTypes
  BY <1>1 DEF SpiInit, SpiTypes, MasterType, SlaveType, SpiType, NoBlock
<1>3. /\ master.mode = "NULL" /\ master.send = <<>> /\ master.recv = <<>>
      /\ master.wait_recv_data = FALSE /\ sirq = {} /\ mirq = FALSE
      /\ slave.tx = <<>> /\ slave.rx = <<>> /\ slave.total_recv_len = 0
      /\ slave.sending_flag = FALSE /\ slave.wait_recv_data = FALSE
      /\ spi.toMaster = 0 /\ reader.n = 0 /\ writer.n = 0
  BY DEF SpiInit
<1>4. Loaded = 0 /\ Travelling = 0 /\ ~Blocked
  BY <1>3 DEF Loaded, Travelling, Blocked
<1>5. UpPhases
  BY <1>3, <1>4 DEF UpPhases
<1>6. DownPhases
  BY <1>1, <1>3, <1>4, SpiAssumption DEF DownPhases
<1>7. \A f : InARow(f, <<>>)
  BY <1>1 DEF InARow
<1>8. UpInv
  <2>1. writer.n - Len(slave.tx) = reader.n + Len(master.recv) + Loaded
    <3>1. Len(slave.tx) = 0 /\ Len(master.recv) = 0
      BY <1>1, <1>3
    <3>2. 0 - 0 = 0 + 0 + 0
      OBVIOUS
    <3> QED
      BY <1>3, <1>4, <3>1, <3>2
  <2> QED
    BY <1>2, <1>3, <1>5, <1>7, <2>1 DEF UpInv
<1>9. DownInv
  <2>1. writer.n - Len(master.send) = reader.n + Len(slave.rx) + Travelling
    <3>1. Len(master.send) = 0 /\ Len(slave.rx) = 0
      BY <1>1, <1>3
    <3>2. 0 - 0 = 0 + 0 + 0
      OBVIOUS
    <3> QED
      BY <1>3, <1>4, <3>1, <3>2
  <2> QED
    BY <1>2, <1>3, <1>6, <1>7, <2>1 DEF DownInv
<1> QED
  BY <1>8, <1>9 DEF SpiInv

(* A race, once lost, stays in the history, and the direction stays.        *)
LEMMA SpiHistory ==
    ASSUME SpiNext
    PROVE  races \subseteq races' /\ dir' = dir
  BY DEF SpiNext, gpio_isr_handler, spi_event_callback, SpiWriter, SpiReader, MasterWriteSend,
         MasterWriteKick, MasterReadReceive, MasterReadCheck, SlaveReadReceive, SlaveReadCheck,
         SlaveReadClear, SlaveWriteSend, SlaveWriteKick

LEMMA SpiStep == SpiInv /\ [SpiNext]_spiVars => SpiInv'
<1>1. ASSUME SpiInv, UNCHANGED spiVars PROVE SpiInv'
  BY <1>1 DEF SpiInv, spiVars, UpInv, DownInv, UpPhases, DownPhases, SpiTypes, Loaded,
              Travelling, Blocked
<1>2. ASSUME SpiInv, SpiNext, races' = {}, dir' = "up" PROVE UpInv'
  <2>1. races = {} /\ dir = "up"
    BY <1>2, SpiHistory
  <2>2. UpInv
    BY <1>2, <2>1 DEF SpiInv
  <2>3. CASE gpio_isr_handler
    <3>1. master.mode # "WRITE"
      BY <2>2 DEF UpInv, UpPhases
    <3> QED
      BY <2>2, <2>3, <3>1, UpIdle, UpRead DEF gpio_isr_handler, IsrWrite
  <2>4. CASE spi_event_callback
    BY <2>2, <2>4, UpCallback
  <2>5. CASE SpiWriter
    BY <1>2, <2>1, <2>2, <2>5, UpSend, UpKick DEF SpiWriter, MasterWriteSend, MasterWriteKick
  <2>6. CASE SpiReader
    BY <2>1, <2>2, <2>6, UpReceive, UpCheck
       DEF SpiReader, SlaveReadReceive, SlaveReadCheck, SlaveReadClear
  <2> QED
    BY <1>2, <2>3, <2>4, <2>5, <2>6 DEF SpiNext
<1>3. ASSUME SpiInv, SpiNext, races' = {}, dir' = "down" PROVE DownInv'
  <2>1. races = {} /\ dir = "down"
    BY <1>3, SpiHistory
  <2>2. DownInv
    BY <1>3, <2>1 DEF SpiInv
  <2>3. CASE gpio_isr_handler
    <3>1. master.mode # "READ"
      BY <2>2 DEF DownInv, DownPhases
    <3> QED
      BY <2>2, <2>3, <3>1, DownIdle, DownWrite DEF gpio_isr_handler, IsrRead
  <2>4. CASE spi_event_callback
    BY <1>3, <2>2, <2>4, DownCallback
  <2>5. CASE SpiWriter
    BY <2>1, <2>2, <2>5, DownSend, DownKick DEF SpiWriter, SlaveWriteSend, SlaveWriteKick
  <2>6. CASE SpiReader
    BY <1>3, <2>1, <2>2, <2>6, DownReceive, DownCheck, DownClear
       DEF SpiReader, MasterReadReceive, MasterReadCheck
  <2> QED
    BY <1>3, <2>3, <2>4, <2>5, <2>6 DEF SpiNext
<1> QED
  BY <1>1, <1>2, <1>3 DEF SpiInv

(* The inductive invariant of the SPI link.                                 *)
THEOREM SpiInvariant == SpiSpec => []SpiInv
  BY SpiInitInv, SpiStep, PTL DEF SpiSpec

(* As long as none of the three races is lost, every block crosses the link *)
(* once and in order, whatever the interrupts and the tasks interleave, for *)
(* every size of the ring buffers and of the reads and writes.              *)
THEOREM BlocksAreInOrder == SpiSpec => []BlocksInOrder
<1>1. SpiInv => BlocksInOrder
  <2> SUFFICES ASSUME SpiInv, races = {} PROVE BlocksInOrder
    BY DEF BlocksInOrder, UpInOrder, DownInOrder
  <2>1. ASSUME dir = "up" PROVE UpInOrder
    <3>1. UpInv
      BY <2>1 DEF SpiInv
    <3>2. reader.n + Len(master.recv) \in Nat
      <4>1. SpiTypes
        BY <3>1 DEF UpInv
      <4>2. reader.n \in Nat /\ Len(master.recv) \in Nat
        BY <4>1, SpiTyped
      <4> QED
        BY <4>2
    <3>3. Loaded \in {0, 1}
      BY DEF Loaded
    <3>4. writer.n - Len(slave.tx) - (reader.n + Len(master.recv)) = Loaded
      BY <3>1, <3>2, <3>3 DEF UpInv
    <3> QED
      BY <3>1, <3>3, <3>4 DEF UpInv, UpInOrder
  <2>2. ASSUME dir = "down" PROVE DownInOrder
    <3>1. DownInv
      BY <2>2 DEF SpiInv
    <3>2. reader.n + Len(slave.rx) \in Nat
      <4>1. SpiTypes
        BY <3>1 DEF DownInv
      <4>2. reader.n \in Nat /\ Len(slave.rx) \in Nat
        BY <4>1, SpiTyped
      <4> QED
        BY <4>2
    <3>3. sirq = {} => Travelling = 0
      BY DEF Travelling
    <3> QED
      BY <3>1, <3>2, <3>3 DEF DownInv, DownInOrder
  <2> QED
    BY <2>1, <2>2 DEF BlocksInOrder, UpInOrder, DownInOrder
<1> QED
  BY <1>1, SpiInvariant, PTL
================================================================================
