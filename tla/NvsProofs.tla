------------------------------- MODULE NvsProofs -------------------------------
(****************************************************************************)
(* Proofs about the key-value store of module Nvs: its types, that at most  *)
(* one page is active at every step of every call and after every loss of   *)
(* power, and that visible items are whole, for every geometry of the       *)
(* flash, every hash function and every set of keys, values and spans.      *)
(****************************************************************************)
EXTENDS Nvs, SequenceTheorems, WellFoundedInduction, TLAPS

PageStates == {PS_UNINITIALIZED, PS_ACTIVE, PS_FULL}
EntryStates == {ES_EMPTY, ES_WRITTEN, ES_ERASED}
Tables == [Entries -> EntryStates]
Addresses == Pages \X Entries
CacheLines == [hash : Nat, address : {NoAddress} \cup Addresses]

Locals == [pg : Int, maxSeq : Nat,
           then : {"idle", "fit", "retry", "compact", "eraseOld", "eraseAll"},
           target : Entries, tbl : {<<>>} \cup Tables, word : Int]

Jobs == {j \in [hdr : Cell, span : Nat, cells : Seq(Cell)] : Len(j.cells) >= j.span - 1}

Frames == [src : Pages, clean : BOOLEAN, next : Int, tbl : Tables, job : Jobs]

(* The types of the flash, of the place in a call and of the RAM.           *)
FlashOK ==
    /\ state \in [Pages -> PageStates]
    /\ seqNumber \in [Pages -> Nat]
    /\ dirty \in [Pages -> {Clean, Dirty}]
    /\ entryTable \in [Pages -> Tables]
    /\ entries \in [Pages -> [Entries -> Cell]]

PlaceOK ==
    /\ pc \in {"off", "idle", "initErase", "initHeader", "write", "fit", "retry", "item", "data",
               "table", "compact", "eraseOld", "eraseAll", "eraseTable", "flashErase"}
    /\ loc.pg \in Pages \/ (loc.pg = NumPages /\ pc \in {"eraseOld", "eraseAll"})

RamOK ==
    /\ loc \in Locals /\ job \in Jobs /\ comp \in Seq(Frames)
    /\ handles \in [Names -> SUBSET AllBits]
    /\ cacheTable \in [0 .. CacheSize - 1 -> CacheLines]

OpOK == op.ns \in SUBSET AllBits /\ op.key \in SUBSET AllBits

(* What each place in a call knows about the pages.  While a page is being  *)
(* initialized no other page is active: this is why the page it becomes is  *)
(* the only one.  From there until writeItem returns, the page in the       *)
(* locals is the active one.                                                *)
Initializing ==
    pc \in {"initErase", "initHeader"} =>
        /\ ActivePages = {}
        /\ loc.then \in {"idle", "fit", "retry", "compact"}
        /\ loc.then = "compact" => comp # <<>>
        /\ pc = "initHeader" => state[loc.pg] = PS_UNINITIALIZED

Writing ==
    /\ pc \in {"fit", "retry", "item", "data", "table", "compact"} => loc.pg \in ActivePages
    /\ pc \in {"item", "data", "table", "eraseTable"} => loc.tbl \in Tables
    /\ pc = "compact" => comp # <<>>
    /\ pc = "eraseTable" => loc.then \in {"eraseOld", "eraseAll"}

IInv == FlashOK /\ PlaceOK /\ RamOK /\ Initializing /\ Writing /\ AtMostOneActive

--------------------------------------------------------------------------------
(* Facts about the operators the store is built from.                       *)

Less == {ss \in Nat \X Nat : ss[1] < ss[2]}

(* A set of numbers that is not empty has a least element: the loops of the *)
(* code that stop at the first page or entry find one.                      *)
LEMMA LeastOf ==
    ASSUME NEW S \in SUBSET Nat, S # {}
    PROVE  \E n \in S : \A m \in S : n =< m
<1>1. IsWellFoundedOn(Less, Nat)
  BY NatLessThanWellFounded DEF OpToRel, Less
<1>2. PICK n \in S : \A m \in S : ~ (<<m, n>> \in Less)
  BY <1>1, WFMin, Zenon
<1>3. ASSUME NEW m \in S PROVE n =< m
  <2>1. ~ (<<m, n>> \in Less)
    BY <1>2
  <2>2. m \in Nat /\ n \in Nat
    BY <1>2
  <2> QED BY <2>1, <2>2 DEF Less
<1> QED BY <1>2, <1>3

(* The numbers of pages and entries are natural numbers.                    *)
LEMMA Indices ==
    /\ Pages \subseteq Nat /\ Entries \subseteq Nat
    /\ 0 \in Pages /\ 0 \in Entries
    /\ \A p \in Pages : nextPage(p) \in Pages /\ nextPage(p) # p
<1>1. Pages \subseteq Nat /\ Entries \subseteq Nat /\ 0 \in Pages /\ 0 \in Entries
  BY GeometryAssumption DEF Pages, Entries
<1>2. ASSUME NEW p \in Pages PROVE nextPage(p) \in Pages /\ nextPage(p) # p
  <2>1. CASE p + 1 < NumPages
    <3>1. (p + 1) % NumPages = p + 1
      BY <2>1, GeometryAssumption DEF Pages
    <3> QED BY <2>1, <3>1, GeometryAssumption DEF Pages, nextPage
  <2>2. CASE p + 1 = NumPages
    <3>1. NumPages % NumPages = 0
      BY GeometryAssumption
    <3> QED BY <2>2, <3>1, GeometryAssumption DEF Pages, nextPage
  <2> QED BY <2>1, <2>2, GeometryAssumption DEF Pages
<1> QED BY <1>1, <1>2

(* Programming a word leads from a state to a state.                        *)
LEMMA NorStates ==
    /\ \A a, b \in PageStates : Nor(a, b) \in PageStates
    /\ \A a, b \in EntryStates : Nor(a, b) \in EntryStates
    /\ \A a, b \in {Clean, Dirty} : Nor(a, b) \in {Clean, Dirty}
    /\ Nor(PS_UNINITIALIZED, PS_ACTIVE) = PS_ACTIVE
    /\ \A a : Nor(a, PS_FULL) = PS_FULL
    /\ \A a \in PageStates : Nor(a, PS_UNINITIALIZED) = a
    /\ PS_UNINITIALIZED # PS_ACTIVE /\ PS_ACTIVE # PS_FULL /\ PS_UNINITIALIZED # PS_FULL
BY DEF Nor, PageStates, EntryStates, PS_UNINITIALIZED, PS_ACTIVE, PS_FULL,
       ES_EMPTY, ES_WRITTEN, ES_ERASED, Clean, Dirty

(* An entry shows as written once its bits were programmed so.              *)
LEMMA NorEntries ==
    /\ ES_EMPTY # ES_WRITTEN /\ ES_ERASED # ES_WRITTEN
    /\ \A a, b \in EntryStates : Nor(a, b) = ES_WRITTEN => a = ES_WRITTEN \/ b = ES_WRITTEN
BY DEF Nor, EntryStates, ES_EMPTY, ES_WRITTEN, ES_ERASED

(* Programming a cell yields a cell.                                        *)
LEMMA NorCells == \A a, b \in Cell : NorCell(a, b) \in Cell
BY DEF Cell, NorCell

(* Every span fits the bits of its field and is read back from them; of two *)
(* spans programmed over each other the bits make no larger one.            *)
LEMMA Spans ==
    /\ \A b : SpanOf(b) \in 0 .. 127
    /\ \A n \in 0 .. 127 : BitsOf(n) \in SUBSET AllBits /\ SpanOf(BitsOf(n)) = n
    /\ \A a, b : SpanOf(a \cap b) =< SpanOf(b)
    /\ SpanOf(AllBits) = 127
<1>1. \A b : SpanOf(b) \in 0 .. 127
  BY DEF SpanOf
<1>2. ASSUME NEW n \in 0 .. 127 PROVE \E b \in SUBSET (0 .. 6) : SpanOf(b) = n
  <2>1. \A m \in Nat : \E d \in {0, 1}, q \in Nat : m = d + 2 * q
    <3> TAKE m \in Nat
    <3> DEFINE d == m % 2
               q == m \div 2
    <3>1. d \in {0, 1} /\ q \in Nat /\ m = d + 2 * q
      OBVIOUS
    <3> HIDE DEF d, q
    <3> QED BY <3>1
  <2>2. PICK d0 \in {0, 1}, q0 \in Nat : n = d0 + 2 * q0
    <3>1. n \in Nat
      OBVIOUS
    <3> QED BY <2>1, <3>1
  <2>3. PICK d1 \in {0, 1}, q1 \in Nat : q0 = d1 + 2 * q1
    BY <2>1
  <2>4. PICK d2 \in {0, 1}, q2 \in Nat : q1 = d2 + 2 * q2
    BY <2>1
  <2>5. PICK d3 \in {0, 1}, q3 \in Nat : q2 = d3 + 2 * q3
    BY <2>1
  <2>6. PICK d4 \in {0, 1}, q4 \in Nat : q3 = d4 + 2 * q4
    BY <2>1
  <2>7. PICK d5 \in {0, 1}, q5 \in Nat : q4 = d5 + 2 * q5
    BY <2>1
  <2>8. q5 \in {0, 1} /\ n = d0 + 2*d1 + 4*d2 + 8*d3 + 16*d4 + 32*d5 + 64*q5
    BY <2>2, <2>3, <2>4, <2>5, <2>6, <2>7
  <2> DEFINE part(i, d) == IF d = 1 THEN {i} ELSE {}
             b == part(0, d0) \cup part(1, d1) \cup part(2, d2) \cup part(3, d3)
                    \cup part(4, d4) \cup part(5, d5) \cup part(6, q5)
  <2>9. /\ (0 \in b) <=> (d0 = 1)
        /\ (1 \in b) <=> (d1 = 1)
        /\ (2 \in b) <=> (d2 = 1)
        /\ (3 \in b) <=> (d3 = 1)
        /\ (4 \in b) <=> (d4 = 1)
        /\ (5 \in b) <=> (d5 = 1)
        /\ (6 \in b) <=> (q5 = 1)
    OBVIOUS
  <2>10. b \in SUBSET (0 .. 6)
    OBVIOUS
  <2> HIDE DEF b
  <2>11. SpanOf(b) = n
    BY <2>8, <2>9 DEF SpanOf
  <2> QED BY <2>10, <2>11
<1>3. ASSUME NEW n \in 0 .. 127 PROVE BitsOf(n) \in SUBSET AllBits /\ SpanOf(BitsOf(n)) = n
  <2>1. BitsOf(n) \in SUBSET (0 .. 6) /\ SpanOf(BitsOf(n)) = n
    BY <1>2 DEF BitsOf
  <2> QED BY <2>1 DEF AllBits
<1>4. \A a, b : SpanOf(a \cap b) =< SpanOf(b)
  BY DEF SpanOf
<1>5. SpanOf(AllBits) = 127
  BY DEF SpanOf, AllBits
<1> QED BY <1>1, <1>3, <1>4, <1>5

(* The page findActivePage returns.                                         *)
LEMMA FindActivePage ==
    ASSUME state \in [Pages -> PageStates], seqNumber \in [Pages -> Nat], AtMostOneActive
    PROVE  /\ findActivePage[1] \in Pages \cup {-1} /\ findActivePage[2] \in Nat
           /\ ActivePages # {} => findActivePage[1] \in ActivePages
           /\ findActivePage[1] \notin UninitPages /\ findActivePage[1] # -1
                => findActivePage[1] \in ActivePages
           /\ findActivePage[1] \in UninitPages \cup {-1} => ActivePages = {}
<1>0. -1 \notin Pages /\ ActivePages \subseteq Pages /\ UninitPages \subseteq Pages
      /\ ActivePages \cap UninitPages = {}
  BY Indices, NorStates DEF ActivePages, UninitPages
<1>1. CASE ActivePages # {}
  <2> DEFINE best(p) == \A q \in ActivePages : \/ seqNumber[q] < seqNumber[p]
                                               \/ seqNumber[q] = seqNumber[p] /\ q =< p
             pg == CHOOSE p \in ActivePages : best(p)
  <2>1. PICK a \in ActivePages : TRUE
    BY <1>1
  <2>2. best(a)
    BY <1>0, <2>1, Indices DEF AtMostOneActive
  <2> HIDE DEF best
  <2>3. pg \in ActivePages
    BY <2>1, <2>2
  <2>4. findActivePage = <<pg, seqNumber[pg]>>
    BY <1>1 DEF findActivePage, best
  <2> HIDE DEF pg
  <2> QED BY <1>0, <1>1, <2>3, <2>4
<1>2. CASE ActivePages = {} /\ UninitPages # {}
  <2> DEFINE pg == CHOOSE p \in UninitPages : \A q \in UninitPages : p =< q
  <2>1. \E p \in UninitPages : \A q \in UninitPages : p =< q
    BY <1>0, <1>2, Indices, LeastOf
  <2>2. pg \in UninitPages
    BY <2>1
  <2>3. findActivePage = <<pg, 0>>
    BY <1>2 DEF findActivePage
  <2> HIDE DEF pg
  <2> QED BY <1>0, <1>2, <2>2, <2>3
<1>3. CASE ActivePages = {} /\ UninitPages = {}
  <2>1. findActivePage = <<-1, 0>>
    BY <1>3 DEF findActivePage
  <2> QED BY <1>0, <1>3, <2>1
<1> QED BY <1>1, <1>2, <1>3

(* The entries findConsecutiveEntries returns.                              *)
LEMMA FindConsecutiveEntries ==
    ASSUME NEW table, NEW span
    PROVE  LET t == findConsecutiveEntries(table, span)
           IN /\ t \in Entries \cup {-1}
              /\ t # -1 => /\ t + span =< EntriesPerPage
                           /\ \A e \in t .. t + span - 1 : table[e] = ES_EMPTY
<1> DEFINE fits == {t \in Entries : /\ t + span =< EntriesPerPage
                                    /\ \A e \in t .. t + span - 1 : table[e] = ES_EMPTY}
<1>1. CASE fits = {}
  BY <1>1 DEF findConsecutiveEntries
<1>2. CASE fits # {}
  <2> DEFINE t == CHOOSE t \in fits : \A u \in fits : t =< u
  <2>1. \E n \in fits : \A u \in fits : n =< u
    BY <1>2, Indices, LeastOf
  <2>2. t \in fits
    BY <2>1
  <2>3. findConsecutiveEntries(table, span) = t
    BY <1>2 DEF findConsecutiveEntries
  <2> HIDE DEF t
  <2> QED BY <2>2, <2>3
<1> QED BY <1>1, <1>2

(* Operations on an entry table yield an entry table.                       *)
LEMMA TableOperations ==
    /\ erasedTable \in Tables
    /\ \A t \in Tables : \A first, span, es :
           es \in EntryStates => setEntries(t, first, span, es) \in Tables
    /\ \A t, new \in Tables : \A w : norWord(t, w, new) \in Tables
<1>1. erasedTable \in Tables
  BY DEF erasedTable, Tables, EntryStates
<1>2. ASSUME NEW t \in Tables, NEW first, NEW span, NEW es \in EntryStates
      PROVE  setEntries(t, first, span, es) \in Tables
  BY DEF setEntries, Tables
<1>3. ASSUME NEW t \in Tables, NEW new \in Tables, NEW w
      PROVE  norWord(t, w, new) \in Tables
  BY NorStates DEF norWord, Tables
<1> QED BY <1>1, <1>2, <1>3

(* The cache holds addresses of entries.                                    *)
LEMMA CacheOperations ==
    ASSUME NEW ct \in [0 .. CacheSize - 1 -> CacheLines],
           NEW ns \in SUBSET AllBits, NEW key \in SUBSET AllBits
    PROVE  /\ cacheIdx(ns, key) \in 0 .. CacheSize - 1
           /\ \A a \in Addresses : updateCache(ct, ns, key, a) \in [0 .. CacheSize - 1 -> CacheLines]
           /\ invalidateCache(ct, ns, key) \in [0 .. CacheSize - 1 -> CacheLines]
<1>1. KeyHash(ns, key) \in Nat /\ CacheSize \in Nat \ {0}
  BY InputAssumption
<1>2. cacheIdx(ns, key) \in 0 .. CacheSize - 1
  BY <1>1 DEF cacheIdx
<1>3. ASSUME NEW a \in Addresses
      PROVE  updateCache(ct, ns, key, a) \in [0 .. CacheSize - 1 -> CacheLines]
  <2>1. [hash |-> KeyHash(ns, key), address |-> a] \in CacheLines
    BY <1>1 DEF CacheLines
  <2> QED BY <1>2, <2>1 DEF updateCache
<1>4. invalidateCache(ct, ns, key) \in [0 .. CacheSize - 1 -> CacheLines]
  BY <1>2 DEF invalidateCache, CacheLines
<1> QED BY <1>2, <1>3, <1>4

(* The item findItem finds is an entry of the flash.                        *)
LEMMA FindItem ==
    ASSUME RamOK, NEW ns \in SUBSET AllBits, NEW key \in SUBSET AllBits, NEW typ
    PROVE  findItem(ns, typ, key) \in {NoAddress} \cup Addresses
<1>1. ASSUME NEW S \in SUBSET Addresses, S # {}
      PROVE  firstOf(S) \in S
  <2> DEFINE ps == {a[1] : a \in S}
  <2>1. ps \in SUBSET Nat /\ ps # {}
    BY <1>1, Indices DEF Addresses
  <2>2. PICK p \in ps : \A q \in ps : p =< q
    BY <2>1, LeastOf
  <2> DEFINE es == {e \in Entries : <<p, e>> \in S}
  <2>3. es \in SUBSET Nat /\ es # {}
    <3>1. PICK a \in S : a[1] = p
      BY <2>2
    <3>2. a = <<a[1], a[2]>> /\ a[2] \in Entries
      BY DEF Addresses
    <3>3. a[2] \in es
      BY <3>1, <3>2
    <3> QED BY <3>3, Indices
  <2>4. PICK e \in es : \A f \in es : e =< f
    BY <2>3, LeastOf
  <2>5. <<p, e>> \in S
    BY <2>4
  <2>6. ASSUME NEW b \in S PROVE p < b[1] \/ (p = b[1] /\ e =< b[2])
    <3>1. b = <<b[1], b[2]>> /\ b[1] \in Pages /\ b[2] \in Entries /\ b[1] \in ps
      BY DEF Addresses
    <3>2. p =< b[1] /\ p \in Nat /\ b[1] \in Nat
      BY <2>1, <2>2, <3>1
    <3>3. CASE p = b[1]
      BY <2>4, <3>1, <3>3
    <3> QED BY <3>2, <3>3
  <2> HIDE DEF ps, es
  <2>7. \E a \in S : \A b \in S : a[1] < b[1] \/ (a[1] = b[1] /\ a[2] =< b[2])
    BY <2>5, <2>6
  <2> QED BY <2>7 DEF firstOf
<1>2. scanned(ns, key) \in SUBSET Addresses
  BY DEF scanned, Addresses
<1>3. getFromCache(ns, key) \in {NoAddress} \cup Addresses
  <2>1. cacheTable[cacheIdx(ns, key)] \in CacheLines
    BY CacheOperations DEF RamOK
  <2> QED BY <2>1 DEF getFromCache, CacheLines
<1> QED BY <1>1, <1>2, <1>3 DEF findItem

(* Cells of items.                                                          *)
LEMMA Cells ==
    /\ Blank \in Cell
    /\ \A ns, typ, key, val \in SUBSET AllBits, span \in 0 .. 127 : Item(ns, typ, key, val, span) \in Cell
    /\ \A val \in SUBSET AllBits, ds \in 0 .. 127 : DataCell(val, ds) \in Cell
    /\ NoJob \in Jobs /\ NoLoc \in Locals
    /\ cacheZero \in [0 .. CacheSize - 1 -> CacheLines]
<1>1. Blank \in Cell
  BY DEF Blank, Cell
<1>2. ASSUME NEW ns \in SUBSET AllBits, NEW typ \in SUBSET AllBits, NEW key \in SUBSET AllBits,
             NEW val \in SUBSET AllBits, NEW span \in 0 .. 127
      PROVE  Item(ns, typ, key, val, span) \in Cell
  BY Spans DEF Item, Cell
<1>3. ASSUME NEW val \in SUBSET AllBits, NEW ds \in 0 .. 127 PROVE DataCell(val, ds) \in Cell
  <2>1. {9} \in SUBSET AllBits
    BY DEF AllBits
  <2> QED BY <2>1, Spans DEF DataCell, Cell
<1>4. NoJob \in Jobs
  BY <1>1, EmptySeq DEF NoJob, Jobs
<1>5. NoLoc \in Locals
  BY Indices DEF NoLoc, Locals
<1>6. cacheZero \in [0 .. CacheSize - 1 -> CacheLines]
  BY DEF cacheZero, CacheLines, NoAddress
<1> QED BY <1>1, <1>2, <1>3, <1>4, <1>5, <1>6

--------------------------------------------------------------------------------
(* One lemma per action: the step preserves the invariant.                  *)

LEMMA InitInv == Init => IInv
<1> SUFFICES ASSUME Init PROVE IInv
  OBVIOUS
<1>1. PS_UNINITIALIZED # PS_ACTIVE /\ 0 \in Pages
  BY NorStates, Indices
<1>2. FlashOK
  BY Cells, TableOperations DEF Init, FlashOK, PageStates
<1>3. PlaceOK
  BY <1>1 DEF Init, PlaceOK, NoLoc
<1>4. RamOK
  BY Cells, EmptySeq DEF Init, RamOK, NoHandle
<1>5. Initializing /\ Writing
  BY DEF Init, Initializing, Writing
<1>6. AtMostOneActive
  BY <1>1 DEF Init, AtMostOneActive, ActivePages
<1> QED BY <1>2, <1>3, <1>4, <1>5, <1>6 DEF IInv

(* Erasing a sector: the flash stays well formed, and the erased page is    *)
(* not active.                                                              *)
LEMMA EraseSectorStep ==
    ASSUME FlashOK, AtMostOneActive, NEW p \in Pages, eraseSector(p)
    PROVE  /\ FlashOK' /\ AtMostOneActive'
           /\ ActivePages' \subseteq ActivePages
           /\ state'[p] = PS_UNINITIALIZED
<1>1. FlashOK'
  <2>1. [e \in Entries |-> Blank] \in [Entries -> Cell]
    BY Cells
  <2> QED BY <2>1, TableOperations DEF FlashOK, eraseSector, PageStates
<1>2. state'[p] = PS_UNINITIALIZED /\ ActivePages' \subseteq ActivePages
  BY NorStates DEF FlashOK, eraseSector, ActivePages
<1>3. AtMostOneActive'
  BY <1>2 DEF AtMostOneActive
<1> QED BY <1>1, <1>2, <1>3

LEMMA InitializePageEraseInv == IInv /\ InitializePageErase => IInv'
<1> SUFFICES ASSUME IInv, InitializePageErase PROVE IInv'
  OBVIOUS
<1>1. loc.pg \in Pages
  BY DEF IInv, InitializePageErase, PlaceOK
<1>2. /\ FlashOK' /\ AtMostOneActive' /\ ActivePages' \subseteq ActivePages
      /\ state'[loc.pg] = PS_UNINITIALIZED
  BY <1>1, EraseSectorStep DEF IInv, InitializePageErase
<1>3. PlaceOK' /\ RamOK'
  BY <1>1 DEF IInv, InitializePageErase, PlaceOK, RamOK
<1>4. Initializing' /\ Writing'
  BY <1>2 DEF IInv, InitializePageErase, Initializing, Writing
<1> QED BY <1>2, <1>3, <1>4 DEF IInv

LEMMA InitializePageHeaderInv == IInv /\ InitializePageHeader => IInv'
<1> SUFFICES ASSUME IInv, InitializePageHeader PROVE IInv'
  OBVIOUS
<1>1. /\ loc.pg \in Pages /\ loc.maxSeq \in Nat
      /\ loc.then \in {"idle", "fit", "retry", "compact"}
  BY DEF IInv, InitializePageHeader, PlaceOK, RamOK, Locals, Initializing
<1>2. state' = [state EXCEPT ![loc.pg] = PS_ACTIVE]
  BY NorStates DEF IInv, InitializePageHeader, Initializing, FlashOK
<1>3. FlashOK'
  BY <1>1, <1>2 DEF IInv, FlashOK, PageStates, InitializePageHeader
<1>4. PlaceOK' /\ RamOK'
  BY <1>1 DEF IInv, InitializePageHeader, PlaceOK, RamOK
<1>5. ActivePages' = {loc.pg}
  BY <1>1, <1>2 DEF IInv, InitializePageHeader, Initializing, ActivePages, FlashOK
<1>6. Initializing' /\ Writing'
  BY <1>1, <1>5 DEF IInv, InitializePageHeader, Initializing, Writing
<1>7. AtMostOneActive'
  BY <1>5 DEF AtMostOneActive
<1> QED BY <1>3, <1>4, <1>6, <1>7 DEF IInv

(* A step that only reads the flash.                                        *)
LEMMA FlashUnchanged ==
    ASSUME FlashOK, AtMostOneActive, UNCHANGED flash
    PROVE  FlashOK' /\ AtMostOneActive' /\ ActivePages' = ActivePages
<1>1. FlashOK' /\ ActivePages' = ActivePages
  BY DEF flash, FlashOK, ActivePages
<1> QED BY <1>1 DEF AtMostOneActive

(* A call returns: nothing is known of the pages any more.                  *)
LEMMA ReturnStep ==
    ASSUME RamOK, NEW res, NEW val, Return(res, val), comp' \in Seq(Frames),
           handles' \in [Names -> SUBSET AllBits],
           cacheTable' \in [0 .. CacheSize - 1 -> CacheLines]
    PROVE  PlaceOK' /\ RamOK' /\ Initializing' /\ Writing'
<1>1. PlaceOK'
  BY Indices DEF Return, PlaceOK, NoLoc
<1>2. RamOK'
  BY Cells DEF Return, RamOK
<1>3. Initializing' /\ Writing'
  BY DEF Return, Initializing, Writing
<1> QED BY <1>1, <1>2, <1>3

(* A reset clears the RAM.                                                  *)
LEMMA ResetStep ==
    ASSUME Reset
    PROVE  PlaceOK' /\ RamOK' /\ Initializing' /\ Writing'
<1>1. PlaceOK'
  BY Indices DEF Reset, PlaceOK, NoLoc
<1>2. RamOK'
  BY Cells, EmptySeq DEF Reset, RamOK, NoHandle
<1>3. Initializing' /\ Writing'
  BY DEF Reset, Initializing, Writing
<1> QED BY <1>1, <1>2, <1>3

LEMMA WriteItemStartInv == IInv /\ WriteItemStart => IInv'
<1> SUFFICES ASSUME IInv, WriteItemStart PROVE IInv'
  OBVIOUS
<1> DEFINE found == findActivePage
           pg == IF found[1] = -1 THEN 0 ELSE found[1]
<1>1. FlashOK' /\ AtMostOneActive' /\ ActivePages' = ActivePages /\ state' = state
  BY FlashUnchanged DEF IInv, WriteItemStart, flash
<1>2. /\ found[1] \in Pages \cup {-1} /\ found[2] \in Nat
      /\ found[1] \notin UninitPages /\ found[1] # -1 => found[1] \in ActivePages
      /\ found[1] \in UninitPages \cup {-1} => ActivePages = {}
  BY FindActivePage DEF IInv, FlashOK
<1>3. loc' = [NoLoc EXCEPT !.pg = pg, !.maxSeq = found[2], !.then = "fit"]
      /\ pc' = (IF found[1] = -1 \/ state[pg] = PS_UNINITIALIZED THEN "initErase" ELSE "fit")
  BY DEF WriteItemStart
<1> HIDE DEF found
<1>4. pg \in Pages /\ pg \in Int
  <2>1. pg \in Pages
    BY <1>2, Indices
  <2> QED BY <2>1 DEF Pages
<1>5. loc' \in Locals /\ loc'.pg = pg /\ loc'.then = "fit"
  <2> HIDE DEF pg
  <2> QED BY <1>2, <1>3, <1>4, Cells DEF Locals
<1>6. pc' = "fit" => pg \in ActivePages
  BY <1>2, <1>3, <1>4 DEF UninitPages
<1>7. pc' = "initErase" => ActivePages = {}
  BY <1>2, <1>3, <1>4 DEF UninitPages
<1> HIDE DEF pg
<1>8. pc' \in {"initErase", "fit"}
  BY <1>3
<1>9. PlaceOK' /\ RamOK'
  BY <1>4, <1>5, <1>8 DEF IInv, PlaceOK, RamOK, WriteItemStart
<1>10. Initializing' /\ Writing'
  BY <1>1, <1>5, <1>6, <1>7, <1>8 DEF Initializing, Writing
<1> QED BY <1>1, <1>9, <1>10 DEF IInv

(* An item is placed on the active page.                                    *)
LEMMA PlaceStep ==
    ASSUME IInv, NEW t \in Entries, place(t), loc.pg \in ActivePages, UNCHANGED <<flash, comp>>,
           job' = job, handles' = handles, cacheTable' = cacheTable
    PROVE  IInv'
<1>1. FlashOK' /\ AtMostOneActive' /\ ActivePages' = ActivePages
  BY FlashUnchanged DEF IInv
<1>2. loc.pg \in Pages
  BY DEF ActivePages
<1>3. setEntries(entryTable[loc.pg], t, job.span, ES_WRITTEN) \in Tables
  BY <1>2, TableOperations DEF IInv, FlashOK, EntryStates
<1>4. loc' \in Locals /\ loc'.pg = loc.pg /\ loc'.tbl \in Tables
  BY <1>3 DEF place, IInv, RamOK, Locals
<1>5. PlaceOK' /\ RamOK'
  BY <1>2, <1>4 DEF IInv, place, PlaceOK, RamOK
<1>6. Initializing' /\ Writing'
  BY <1>1, <1>4 DEF place, Initializing, Writing
<1> QED BY <1>1, <1>5, <1>6 DEF IInv

LEMMA WriteItemFitsInv == IInv /\ WriteItemFits => IInv'
<1> SUFFICES ASSUME IInv, WriteItemFits PROVE IInv'
  OBVIOUS
<1> DEFINE t == findConsecutiveEntries(entryTable[loc.pg], job.span)
<1>1. t \in Entries
  BY FindConsecutiveEntries DEF WriteItemFits
<1>2. loc.pg \in ActivePages
  BY DEF IInv, Writing, WriteItemFits
<1>3. place(t) /\ UNCHANGED <<flash, comp>> /\ job' = job /\ handles' = handles
      /\ cacheTable' = cacheTable
  BY DEF WriteItemFits
<1> HIDE DEF t
<1> QED BY <1>1, <1>2, <1>3, PlaceStep

LEMMA WriteItemPageFullInv == IInv /\ WriteItemPageFull => IInv'
<1> SUFFICES ASSUME IInv, WriteItemPageFull PROVE IInv'
  OBVIOUS
<1> DEFINE nx == nextPage(loc.pg)
           fr == [src |-> nx, clean |-> dirty[nx] = Clean, next |-> 0,
                  tbl |-> entryTable[nx], job |-> job]
<1>1. loc.pg \in ActivePages /\ loc.pg \in Pages
  BY DEF IInv, Writing, WriteItemPageFull, ActivePages
<1>2. nx \in Pages /\ nextPage(nx) \in Pages /\ nx \in Int /\ nextPage(nx) \in Int
  <2>1. nx \in Pages /\ nextPage(nx) \in Pages
    BY <1>1, Indices
  <2> QED BY <2>1 DEF Pages
<1>3. state' = [state EXCEPT ![loc.pg] = PS_FULL]
  BY NorStates DEF WriteItemPageFull
<1>4. FlashOK'
  BY <1>1, <1>3 DEF IInv, FlashOK, WriteItemPageFull, PageStates
<1>5. ActivePages' = {}
  BY <1>1, <1>3, NorStates DEF IInv, FlashOK, AtMostOneActive, ActivePages
<1>6. pc' = "initErase" /\ job' = job /\ handles' = handles /\ cacheTable' = cacheTable
  BY DEF WriteItemPageFull
<1>7. \/ loc' = [loc EXCEPT !.pg = nx, !.then = "retry"] /\ comp' = comp
      \/ loc' = [loc EXCEPT !.pg = nextPage(nx), !.then = "compact"] /\ comp' = <<fr>> \o comp
  BY DEF WriteItemPageFull
<1>8. fr \in Frames
  BY <1>2 DEF Frames, IInv, FlashOK, RamOK
<1>9. <<fr>> \in Seq(Frames) /\ comp \in Seq(Frames) /\ <<fr>> # <<>>
  <2> HIDE DEF fr
  <2> QED BY <1>8 DEF IInv, RamOK
<1>10. <<fr>> \o comp \in Seq(Frames) /\ <<fr>> \o comp # <<>>
  <2> HIDE DEF fr
  <2> QED BY <1>9, ConcatProperties, ConcatEqualIffEmpty
<1> HIDE DEF nx, fr
<1>11. CASE loc' = [loc EXCEPT !.pg = nx, !.then = "retry"] /\ comp' = comp
  <2>1. loc' \in Locals /\ loc'.pg = nx /\ loc'.then = "retry"
    BY <1>2, <1>11 DEF IInv, RamOK, Locals
  <2>2. PlaceOK' /\ RamOK'
    BY <1>2, <1>6, <1>9, <1>11, <2>1 DEF PlaceOK, RamOK, IInv
  <2>3. Initializing' /\ Writing'
    BY <1>5, <1>6, <2>1 DEF Initializing, Writing
  <2> QED BY <1>4, <1>5, <2>2, <2>3 DEF IInv, AtMostOneActive
<1>12. CASE loc' = [loc EXCEPT !.pg = nextPage(nx), !.then = "compact"] /\ comp' = <<fr>> \o comp
  <2>1. loc' \in Locals /\ loc'.pg = nextPage(nx) /\ loc'.then = "compact"
    BY <1>2, <1>12 DEF IInv, RamOK, Locals
  <2>2. PlaceOK' /\ RamOK'
    BY <1>2, <1>6, <1>10, <1>12, <2>1 DEF PlaceOK, RamOK, IInv
  <2>3. Initializing' /\ Writing'
    BY <1>5, <1>6, <1>10, <1>12, <2>1 DEF Initializing, Writing
  <2> QED BY <1>4, <1>5, <2>2, <2>3 DEF IInv, AtMostOneActive
<1> QED BY <1>7, <1>11, <1>12

(* writeItem returns to compactPage or to the caller.                       *)
LEMMA WriteItemReturnStep ==
    ASSUME IInv, FlashOK', AtMostOneActive', ActivePages' = ActivePages, loc.pg \in ActivePages,
           NEW res, NEW val, WriteItemReturn(res, val), comp' = comp,
           handles' \in [Names -> SUBSET AllBits],
           cacheTable' \in [0 .. CacheSize - 1 -> CacheLines]
    PROVE  IInv'
<1>1. CASE comp = <<>>
  <2>1. Return(res, val)
    BY <1>1 DEF WriteItemReturn
  <2>2. PlaceOK' /\ RamOK' /\ Initializing' /\ Writing'
    BY <2>1, ReturnStep DEF IInv, RamOK
  <2> QED BY <2>2 DEF IInv
<1>2. CASE comp # <<>>
  <2>1. pc' = "compact" /\ job' = job /\ loc' = loc
    BY <1>2 DEF WriteItemReturn
  <2>2. PlaceOK' /\ RamOK'
    BY <2>1 DEF IInv, PlaceOK, RamOK, ActivePages
  <2>3. Initializing' /\ Writing'
    BY <1>2, <2>1 DEF Initializing, Writing
  <2> QED BY <2>2, <2>3 DEF IInv
<1> QED BY <1>1, <1>2

LEMMA WriteItemRetryInv == IInv /\ WriteItemRetry => IInv'
<1> SUFFICES ASSUME IInv, WriteItemRetry PROVE IInv'
  OBVIOUS
<1> DEFINE t == findConsecutiveEntries(entryTable[loc.pg], job.span)
<1>1. t \in Entries \cup {-1}
  BY FindConsecutiveEntries
<1>2. loc.pg \in ActivePages
  BY DEF IInv, Writing, WriteItemRetry
<1>3. /\ FlashOK' /\ AtMostOneActive' /\ ActivePages' = ActivePages
      /\ UNCHANGED <<flash, comp>> /\ comp' = comp /\ handles' = handles /\ cacheTable' = cacheTable
  BY FlashUnchanged DEF IInv, WriteItemRetry
<1>4. CASE t = -1
  <2>1. WriteItemReturn("NO_FREE_PAGES", {})
    BY <1>4 DEF WriteItemRetry
  <2> QED BY <1>2, <1>3, <2>1, WriteItemReturnStep DEF IInv, RamOK
<1>5. CASE t # -1
  <2>1. place(t) /\ job' = job
    BY <1>5 DEF WriteItemRetry
  <2> HIDE DEF t
  <2> QED BY <1>1, <1>2, <1>3, <1>5, <2>1, PlaceStep
<1> QED BY <1>4, <1>5

(* A step that leaves the page headers alone.                               *)
LEMMA HeadersUnchanged ==
    ASSUME FlashOK, AtMostOneActive, UNCHANGED <<state, seqNumber>>,
           dirty' \in [Pages -> {Clean, Dirty}], entryTable' \in [Pages -> Tables],
           entries' \in [Pages -> [Entries -> Cell]]
    PROVE  FlashOK' /\ AtMostOneActive' /\ ActivePages' = ActivePages
<1>1. FlashOK' /\ ActivePages' = ActivePages
  BY DEF FlashOK, ActivePages
<1> QED BY <1>1 DEF AtMostOneActive

LEMMA WriteItemHeaderInv == IInv /\ WriteItemHeader => IInv'
<1> SUFFICES ASSUME IInv, WriteItemHeader PROVE IInv'
  OBVIOUS
<1>1. /\ loc.pg \in ActivePages /\ loc.pg \in Pages /\ loc.target \in Entries
      /\ loc.tbl \in Tables /\ job.hdr \in Cell
  BY DEF IInv, Writing, WriteItemHeader, ActivePages, RamOK, Locals, Jobs
<1>2. entries' \in [Pages -> [Entries -> Cell]]
  <2>1. NorCell(entries[loc.pg][loc.target], job.hdr) \in Cell
    BY <1>1, NorCells DEF IInv, FlashOK
  <2> QED BY <1>1, <2>1 DEF IInv, FlashOK, WriteItemHeader
<1>3. FlashOK' /\ AtMostOneActive' /\ ActivePages' = ActivePages
  BY <1>2, HeadersUnchanged DEF IInv, FlashOK, WriteItemHeader
<1>4. loc.target \div EntriesPerByte \in Int
  BY <1>1, GeometryAssumption DEF Entries
<1>5. loc' \in Locals /\ loc'.pg = loc.pg /\ loc'.tbl = loc.tbl
  BY <1>4 DEF IInv, RamOK, Locals, WriteItemHeader
<1>6. PlaceOK' /\ RamOK'
  BY <1>1, <1>5 DEF IInv, WriteItemHeader, PlaceOK, RamOK
<1>7. Initializing' /\ Writing'
  BY <1>1, <1>3, <1>5 DEF WriteItemHeader, Initializing, Writing
<1> QED BY <1>3, <1>6, <1>7 DEF IInv

LEMMA WriteItemDataInv == IInv /\ WriteItemData => IInv'
<1> SUFFICES ASSUME IInv, WriteItemData PROVE IInv'
  OBVIOUS
<1>1. /\ loc.pg \in ActivePages /\ loc.pg \in Pages /\ loc.target \in Entries
      /\ loc.tbl \in Tables /\ job.cells \in Seq(Cell) /\ job.span \in Nat
      /\ Len(job.cells) >= job.span - 1
  BY DEF IInv, Writing, WriteItemData, ActivePages, RamOK, Locals, Jobs
<1>2. ASSUME NEW e \in Entries, e \in loc.target + 1 .. loc.target + job.span - 1
      PROVE  NorCell(entries[loc.pg][e], job.cells[e - loc.target]) \in Cell
  <2>1. e - loc.target \in 1 .. Len(job.cells)
    BY <1>1, <1>2, LenProperties DEF Entries
  <2>2. job.cells[e - loc.target] \in Cell
    BY <1>1, <2>1, ElementOfSeq
  <2> QED BY <1>1, <2>2, NorCells DEF IInv, FlashOK
<1>3. entries' \in [Pages -> [Entries -> Cell]]
  <2> DEFINE row == [e \in Entries |-> IF e \in loc.target + 1 .. loc.target + job.span - 1
                                       THEN NorCell(entries[loc.pg][e], job.cells[e - loc.target])
                                       ELSE entries[loc.pg][e]]
  <2>1. row \in [Entries -> Cell]
    BY <1>1, <1>2 DEF IInv, FlashOK
  <2>2. entries' = [entries EXCEPT ![loc.pg] = row]
    BY DEF WriteItemData
  <2> HIDE DEF row
  <2> QED BY <2>1, <2>2 DEF IInv, FlashOK
<1>4. FlashOK' /\ AtMostOneActive' /\ ActivePages' = ActivePages
  BY <1>3, HeadersUnchanged DEF IInv, FlashOK, WriteItemData
<1>5. PlaceOK' /\ RamOK'
  BY <1>1 DEF IInv, WriteItemData, PlaceOK, RamOK
<1>6. Initializing' /\ Writing'
  BY <1>1, <1>4 DEF WriteItemData, Initializing, Writing
<1> QED BY <1>4, <1>5, <1>6 DEF IInv

(* A word of the table of the page in the locals is programmed.             *)
LEMMA TableWordStep ==
    ASSUME FlashOK, AtMostOneActive, RamOK, loc.tbl \in Tables, loc.pg \in Pages,
           entryTable' = [entryTable EXCEPT ![loc.pg] = norWord(@, loc.word, loc.tbl)],
           UNCHANGED <<state, seqNumber, dirty, entries>>
    PROVE  FlashOK' /\ AtMostOneActive' /\ ActivePages' = ActivePages
<1>1. norWord(entryTable[loc.pg], loc.word, loc.tbl) \in Tables
  BY TableOperations DEF FlashOK
<1>2. entryTable' \in [Pages -> Tables]
  BY <1>1 DEF FlashOK
<1> QED BY <1>2, HeadersUnchanged DEF FlashOK

LEMMA WriteItemTableInv == IInv /\ WriteItemTable => IInv'
<1> SUFFICES ASSUME IInv, WriteItemTable PROVE IInv'
  OBVIOUS
<1>1. /\ loc.pg \in ActivePages /\ loc.pg \in Pages /\ loc.target \in Entries
      /\ loc.tbl \in Tables /\ loc.word \in Int
      /\ job.hdr.ns \in SUBSET AllBits /\ job.hdr.key \in SUBSET AllBits
      /\ job.hdr.val \in SUBSET AllBits
  BY DEF IInv, Writing, WriteItemTable, ActivePages, RamOK, Locals, Jobs, Cell
<1>2. FlashOK' /\ AtMostOneActive' /\ ActivePages' = ActivePages
  BY <1>1, TableWordStep DEF IInv, WriteItemTable
<1>3. CASE loc.word < endWord
  <2>1. /\ loc' = [loc EXCEPT !.word = @ + 1] /\ pc' = "table" /\ comp' = comp
        /\ UNCHANGED <<cacheTable, handles, job>>
    BY <1>3 DEF WriteItemTable
  <2>2. loc' \in Locals /\ loc'.pg = loc.pg /\ loc'.tbl = loc.tbl
    BY <1>1, <2>1 DEF IInv, RamOK, Locals
  <2>3. PlaceOK' /\ RamOK'
    BY <1>1, <2>1, <2>2 DEF IInv, PlaceOK, RamOK
  <2>4. Initializing' /\ Writing'
    BY <1>1, <1>2, <2>1, <2>2 DEF Initializing, Writing
  <2> QED BY <1>2, <2>3, <2>4 DEF IInv
<1>4. CASE ~ (loc.word < endWord)
  <2>1. /\ cacheTable' = updateCache(cacheTable, job.hdr.ns, job.hdr.key, <<loc.pg, loc.target>>)
        /\ handles' = (IF comp = <<>> /\ op.api = "open"
                       THEN [handles EXCEPT ![op.name] = job.hdr.val] ELSE handles)
        /\ WriteItemReturn("OK", {job.hdr.val}) /\ comp' = comp
    BY <1>4 DEF WriteItemTable
  <2>2. cacheTable' \in [0 .. CacheSize - 1 -> CacheLines]
    <3>1. <<loc.pg, loc.target>> \in Addresses
      BY <1>1 DEF Addresses
    <3> QED BY <1>1, <2>1, <3>1, CacheOperations DEF IInv, RamOK
  <2>3. handles' \in [Names -> SUBSET AllBits]
    BY <1>1, <2>1 DEF IInv, RamOK
  <2> QED BY <1>1, <1>2, <2>1, <2>2, <2>3, WriteItemReturnStep
<1> QED BY <1>3, <1>4

(* The suspended writeItem that compactPage works for.                      *)
LEMMA FrameOK ==
    ASSUME IInv, pc = "compact"
    PROVE  /\ comp \in Seq(Frames) /\ comp # <<>> /\ Tail(comp) \in Seq(Frames)
           /\ frame.src \in Pages /\ frame.job \in Jobs
<1>1. comp \in Seq(Frames) /\ comp # <<>>
  BY DEF IInv, RamOK, Writing
<1>2. Head(comp) \in Frames /\ Tail(comp) \in Seq(Frames)
  BY <1>1, HeadTailProperties
<1>3. frame.src \in Pages /\ frame.job \in Jobs
  BY <1>2 DEF frame, Frames
<1> QED BY <1>1, <1>2, <1>3

LEMMA CompactPageMoveInv == IInv /\ CompactPageMove => IInv'
<1> SUFFICES ASSUME IInv, CompactPageMove PROVE IInv'
  OBVIOUS
<1> DEFINE e == CHOOSE e \in toMove : \A f \in toMove : e =< f
           hdr == entries[frame.src][e]
           span == SpanOf(hdr.span)
           cells == [i \in 1 .. span - 1 |->
                        IF e + i \in Entries THEN entries[frame.src][e + i] ELSE Blank]
<1>1. comp \in Seq(Frames) /\ comp # <<>> /\ frame.src \in Pages
  BY FrameOK DEF CompactPageMove
<1>2. e \in Entries
  <2>1. toMove \in SUBSET Nat /\ toMove \subseteq Entries /\ toMove # {}
    BY Indices DEF toMove, CompactPageMove
  <2>2. \E n \in toMove : \A f \in toMove : n =< f
    BY <2>1, LeastOf
  <2> QED BY <2>1, <2>2
<1>3. /\ span > 0 /\ job' = [hdr |-> hdr, span |-> span, cells |-> cells]
      /\ comp' = [comp EXCEPT ![1].next = e + 1] /\ pc' = "write" /\ loc' = loc
      /\ UNCHANGED flash /\ handles' = handles /\ cacheTable' = cacheTable
  BY DEF CompactPageMove
<1> HIDE DEF e
<1>4. hdr \in Cell /\ span \in Nat
  <2>1. span \in Nat
    <3>1. span \in 0 .. 127
      BY Spans
    <3> QED BY <3>1
  <2> QED BY <1>1, <1>2, <2>1 DEF IInv, FlashOK
<1> HIDE DEF hdr, span
<1>5. cells \in Seq(Cell) /\ Len(cells) = span - 1
  <2>1. \A i \in 1 .. span - 1 : (IF e + i \in Entries THEN entries[frame.src][e + i] ELSE Blank) \in Cell
    BY <1>1, Cells DEF IInv, FlashOK
  <2>2. span - 1 \in Nat
    BY <1>3, <1>4
  <2> QED BY <2>1, <2>2
<1> HIDE DEF cells
<1>6. job' \in Jobs
  BY <1>3, <1>4, <1>5 DEF Jobs
<1>7. comp' \in Seq(Frames)
  <2>1. 1 \in 1 .. Len(comp) /\ comp[1] \in Frames
    BY <1>1, EmptySeq, ElementOfSeq
  <2>2. e + 1 \in Int
    BY <1>2 DEF Entries
  <2>3. [comp[1] EXCEPT !.next = e + 1] \in Frames
    BY <2>1, <2>2 DEF Frames
  <2>4. comp' = [comp EXCEPT ![1] = [comp[1] EXCEPT !.next = e + 1]]
    BY <1>3, <2>1
  <2> QED BY <1>1, <2>1, <2>3, <2>4, ExceptSeq
<1>8. FlashOK' /\ AtMostOneActive'
  BY <1>3, FlashUnchanged DEF IInv
<1>9. PlaceOK' /\ RamOK'
  BY <1>3, <1>6, <1>7 DEF IInv, PlaceOK, RamOK, Writing, ActivePages, CompactPageMove
<1>10. Initializing' /\ Writing'
  BY <1>3 DEF Initializing, Writing
<1> QED BY <1>8, <1>9, <1>10 DEF IInv

LEMMA CompactPageDoneInv == IInv /\ CompactPageDone => IInv'
<1> SUFFICES ASSUME IInv, CompactPageDone PROVE IInv'
  OBVIOUS
<1> DEFINE found == findActivePage
<1>1. /\ comp \in Seq(Frames) /\ comp # <<>> /\ frame.src \in Pages
      /\ frame.job \in Jobs /\ Tail(comp) \in Seq(Frames)
  BY FrameOK DEF CompactPageDone
<1>2. /\ state' = [state EXCEPT ![frame.src] = Nor(@, PS_UNINITIALIZED)]
      /\ job' = frame.job /\ comp' = Tail(comp) /\ pc' = "retry"
      /\ loc' = [NoLoc EXCEPT !.pg = found[1], !.maxSeq = found[2]]
      /\ handles' = handles /\ cacheTable' = cacheTable
      /\ UNCHANGED <<seqNumber, dirty, entryTable, entries>>
  BY DEF CompactPageDone
<1>3. state' = state
  BY <1>1, <1>2, NorStates DEF IInv, FlashOK
<1>4. FlashOK' /\ AtMostOneActive' /\ ActivePages' = ActivePages
  BY <1>2, <1>3, FlashUnchanged DEF IInv, flash
<1>5. found[1] \in ActivePages /\ found[2] \in Nat
  <2>1. ActivePages # {}
    BY DEF IInv, Writing, CompactPageDone
  <2> QED BY <2>1, FindActivePage DEF IInv, FlashOK
<1> HIDE DEF found
<1>6. found[1] \in Pages /\ found[1] \in Int
  BY <1>5 DEF ActivePages, Pages
<1>7. loc' \in Locals /\ loc'.pg = found[1]
  BY <1>2, <1>5, <1>6, Cells DEF Locals
<1>8. PlaceOK' /\ RamOK'
  BY <1>1, <1>2, <1>6, <1>7 DEF IInv, PlaceOK, RamOK
<1>9. Initializing' /\ Writing'
  BY <1>2, <1>4, <1>5, <1>7 DEF Initializing, Writing
<1> QED BY <1>4, <1>8, <1>9 DEF IInv

(* The erasing loops turn to a page.                                        *)
LEMMA ErasingPage ==
    ASSUME RamOK, NEW p \in Pages, NEW t \in Tables, NEW back \in {"eraseOld", "eraseAll"},
           loc' = [loc EXCEPT !.pg = p, !.tbl = t, !.word = 0, !.then = back],
           pc' = "eraseTable"
    PROVE  loc' \in Locals /\ PlaceOK' /\ Initializing' /\ Writing'
<1>1. loc' \in Locals /\ loc'.pg = p /\ loc'.tbl = t /\ loc'.then = back
  <2>1. p \in Int /\ 0 \in Int /\ loc \in Locals
        /\ back \in {"idle", "fit", "retry", "compact", "eraseOld", "eraseAll"}
    BY DEF Pages, RamOK
  <2>2. t \in {<<>>} \cup Tables
    OBVIOUS
  <2> QED BY <2>1, <2>2 DEF Locals
<1>2. PlaceOK'
  BY <1>1 DEF PlaceOK
<1>3. Initializing' /\ Writing'
  BY <1>1 DEF Initializing, Writing
<1> QED BY <1>1, <1>2, <1>3

(* The erasing loops stop at the first page that has something to erase.    *)
LEMMA LeastPage == ASSUME NEW S \in SUBSET Pages, S # {} PROVE leastPage(S) \in S
<1>1. \E p \in S : \A q \in S : p =< q
  BY Indices, LeastOf
<1> QED BY <1>1 DEF leastPage

LEMMA EraseOldItemPageInv == IInv /\ OpOK /\ EraseOldItemPage => IInv'
<1> SUFFICES ASSUME IInv, OpOK, EraseOldItemPage PROVE IInv'
  OBVIOUS
<1> DEFINE p == leastPage(pagesWithOld)
           t == eraseOld(p, op.ns, op.typ, op.key)
<1>1. p \in Pages
  BY LeastPage DEF EraseOldItemPage, pagesWithOld
<1> HIDE DEF p
<1>2. t \in Tables
  BY <1>1 DEF eraseOld, Tables, EntryStates, IInv, FlashOK
<1> HIDE DEF t
<1>3. /\ dirty' = [dirty EXCEPT ![p] = Nor(@, Dirty)] /\ pc' = "eraseTable"
      /\ loc' = [loc EXCEPT !.pg = p, !.tbl = t, !.word = 0, !.then = "eraseOld"]
      /\ cacheTable' = invalidateCache(cacheTable, op.ns, op.key)
      /\ UNCHANGED <<state, seqNumber, entryTable, entries>>
      /\ handles' = handles /\ job' = job /\ comp' = comp
  BY DEF EraseOldItemPage, p, t
<1>4. FlashOK' /\ AtMostOneActive' /\ ActivePages' = ActivePages
  <2>1. dirty' \in [Pages -> {Clean, Dirty}]
    BY <1>1, <1>3, NorStates DEF IInv, FlashOK
  <2> QED BY <1>3, <2>1, HeadersUnchanged DEF IInv, FlashOK
<1>5. loc' \in Locals /\ PlaceOK' /\ Initializing' /\ Writing'
  BY <1>1, <1>2, <1>3, ErasingPage DEF IInv
<1>6. cacheTable' \in [0 .. CacheSize - 1 -> CacheLines]
  BY <1>3, CacheOperations DEF IInv, RamOK, OpOK
<1> QED BY <1>3, <1>4, <1>5, <1>6 DEF IInv, RamOK

LEMMA EraseOldItemDoneInv == IInv /\ EraseOldItemDone => IInv'
<1> SUFFICES ASSUME IInv, EraseOldItemDone PROVE IInv'
  OBVIOUS
<1>1. FlashOK' /\ AtMostOneActive'
      /\ handles' = handles /\ cacheTable' = cacheTable /\ comp' = comp
  BY FlashUnchanged DEF IInv, EraseOldItemDone
<1>2. CASE op.api = "set"
  <2>1. pc' = "write" /\ loc' = NoLoc /\ job' = job
    BY <1>2 DEF EraseOldItemDone
  <2>2. PlaceOK'
    BY <2>1, Indices DEF PlaceOK, NoLoc
  <2>3. RamOK'
    BY <1>1, <2>1, Cells DEF IInv, RamOK
  <2>4. Initializing' /\ Writing'
    BY <2>1 DEF Initializing, Writing
  <2> QED BY <1>1, <2>2, <2>3, <2>4 DEF IInv
<1>3. CASE op.api # "set"
  <2>1. Return("OK", {})
    BY <1>3 DEF EraseOldItemDone
  <2>2. PlaceOK' /\ RamOK' /\ Initializing' /\ Writing'
    BY <1>1, <2>1, ReturnStep DEF IInv, RamOK
  <2> QED BY <1>1, <2>2 DEF IInv
<1> QED BY <1>2, <1>3

LEMMA EraseTableWordInv == IInv /\ EraseTableWord => IInv'
<1> SUFFICES ASSUME IInv, EraseTableWord PROVE IInv'
  OBVIOUS
<1>1. /\ loc.pg \in Pages /\ loc.tbl \in Tables /\ loc.then \in {"eraseOld", "eraseAll"}
      /\ loc \in Locals /\ loc.word \in Int
  BY DEF IInv, PlaceOK, Writing, EraseTableWord, RamOK, Locals
<1>2. /\ FlashOK' /\ AtMostOneActive'
      /\ handles' = handles /\ cacheTable' = cacheTable /\ comp' = comp /\ job' = job
  BY <1>1, TableWordStep DEF IInv, EraseTableWord
<1>3. CASE loc.word < TableWords - 1
  <2>1. loc' = [loc EXCEPT !.word = @ + 1] /\ pc' = "eraseTable"
    BY <1>3 DEF EraseTableWord
  <2>2. loc' \in Locals /\ loc'.pg = loc.pg /\ loc'.tbl = loc.tbl /\ loc'.then = loc.then
    BY <1>1, <2>1 DEF Locals
  <2>3. PlaceOK' /\ RamOK'
    BY <1>1, <1>2, <2>1, <2>2 DEF IInv, PlaceOK, RamOK
  <2>4. Initializing' /\ Writing'
    BY <1>1, <2>1, <2>2 DEF Initializing, Writing
  <2> QED BY <1>2, <2>3, <2>4 DEF IInv
<1>4. CASE ~ (loc.word < TableWords - 1)
  <2>1. loc' = [NoLoc EXCEPT !.pg = loc.pg + 1] /\ pc' = loc.then
    BY <1>4 DEF EraseTableWord
  <2>2. loc.pg + 1 \in Int /\ (loc.pg + 1 \in Pages \/ loc.pg + 1 = NumPages)
    BY <1>1, GeometryAssumption DEF Pages
  <2>3. loc' \in Locals /\ loc'.pg = loc.pg + 1
    BY <2>1, <2>2, Cells DEF Locals
  <2>4. PlaceOK' /\ RamOK'
    BY <1>1, <1>2, <2>1, <2>2, <2>3 DEF IInv, PlaceOK, RamOK
  <2>5. Initializing' /\ Writing'
    BY <1>1, <2>1 DEF Initializing, Writing
  <2> QED BY <1>2, <2>4, <2>5 DEF IInv
<1> QED BY <1>3, <1>4

LEMMA EraseAllPageInv == IInv /\ EraseAllPage => IInv'
<1> SUFFICES ASSUME IInv, EraseAllPage PROVE IInv'
  OBVIOUS
<1> DEFINE p == leastPage(pagesOfNamespace)
           t == eraseNamespace(p, op.ns)
<1>1. p \in Pages
  BY LeastPage DEF EraseAllPage, pagesOfNamespace
<1> HIDE DEF p
<1>2. t \in Tables
  BY <1>1 DEF eraseNamespace, Tables, EntryStates, IInv, FlashOK
<1> HIDE DEF t
<1>3. /\ pc' = "eraseTable"
      /\ loc' = [loc EXCEPT !.pg = p, !.tbl = t, !.word = 0, !.then = "eraseAll"]
      /\ handles' = handles /\ cacheTable' = cacheTable /\ comp' = comp /\ job' = job
  BY DEF EraseAllPage, p, t
<1>4. FlashOK' /\ AtMostOneActive'
  BY FlashUnchanged DEF IInv, EraseAllPage
<1>5. loc' \in Locals /\ PlaceOK' /\ Initializing' /\ Writing'
  BY <1>1, <1>2, <1>3, ErasingPage DEF IInv
<1> QED BY <1>3, <1>4, <1>5 DEF IInv, RamOK

LEMMA EraseAllDoneInv == IInv /\ EraseAllDone => IInv'
<1> SUFFICES ASSUME IInv, EraseAllDone PROVE IInv'
  OBVIOUS
<1>1. FlashOK' /\ AtMostOneActive'
  BY FlashUnchanged DEF IInv, EraseAllDone
<1>2. PlaceOK' /\ RamOK' /\ Initializing' /\ Writing'
  BY ReturnStep DEF IInv, RamOK, EraseAllDone
<1> QED BY <1>1, <1>2 DEF IInv

LEMMA FlashEraseSectorInv == IInv /\ FlashEraseSector => IInv'
<1> SUFFICES ASSUME IInv, FlashEraseSector PROVE IInv'
  OBVIOUS
<1>1. loc.pg \in Pages
  BY DEF IInv, PlaceOK, FlashEraseSector
<1>2. FlashOK' /\ AtMostOneActive'
      /\ handles' = handles /\ cacheTable' = cacheTable /\ comp' = comp
  BY <1>1, EraseSectorStep DEF IInv, FlashEraseSector
<1>3. CASE loc.pg < NumPages - 1
  <2>1. loc' = [loc EXCEPT !.pg = @ + 1] /\ pc' = "flashErase" /\ job' = job
    BY <1>3 DEF FlashEraseSector
  <2>2. loc.pg + 1 \in Pages /\ loc.pg + 1 \in Int
    BY <1>1, <1>3, GeometryAssumption DEF Pages
  <2>3. loc' \in Locals /\ loc'.pg = loc.pg + 1
    BY <2>1, <2>2 DEF IInv, RamOK, Locals
  <2>4. PlaceOK' /\ RamOK'
    BY <1>2, <2>1, <2>2, <2>3 DEF IInv, PlaceOK, RamOK
  <2>5. Initializing' /\ Writing'
    BY <2>1 DEF Initializing, Writing
  <2> QED BY <1>2, <2>4, <2>5 DEF IInv
<1>4. CASE ~ (loc.pg < NumPages - 1)
  <2>1. Return("OK", {})
    BY <1>4 DEF FlashEraseSector
  <2>2. PlaceOK' /\ RamOK' /\ Initializing' /\ Writing'
    BY <1>2, <2>1, ReturnStep DEF IInv, RamOK
  <2> QED BY <1>2, <2>2 DEF IInv
<1> QED BY <1>3, <1>4

(* Power losses, defects and the start of the chip.                         *)
LEMMA ResetInv == IInv /\ (PowerLoss \/ Defect) => IInv'
<1> SUFFICES ASSUME IInv, PowerLoss \/ Defect PROVE IInv'
  OBVIOUS
<1>1. Reset /\ UNCHANGED flash
  BY DEF PowerLoss, Defect
<1> QED BY <1>1, ResetStep, FlashUnchanged DEF IInv

LEMMA BootInv == IInv /\ Boot => IInv'
<1> SUFFICES ASSUME IInv, Boot PROVE IInv'
  OBVIOUS
<1>1. /\ FlashOK' /\ AtMostOneActive' /\ ActivePages' = ActivePages
      /\ handles' = handles /\ cacheTable' = cacheTable /\ comp' = comp /\ job' = job
  BY FlashUnchanged DEF IInv, Boot
<1>2. findActivePage[1] = -1 => ActivePages = {}
  BY FindActivePage DEF IInv, FlashOK
<1>3. /\ loc' = NoLoc /\ pc' \in {"initErase", "idle"}
      /\ pc' = "initErase" => ActivePages = {}
  BY <1>2 DEF Boot
<1>4. loc'.pg = 0 /\ loc'.then = "idle" /\ loc' \in Locals
  BY <1>3, Cells DEF NoLoc
<1>5. PlaceOK' /\ RamOK'
  BY <1>1, <1>3, <1>4, Indices DEF IInv, PlaceOK, RamOK
<1>6. Initializing' /\ Writing'
  BY <1>1, <1>3, <1>4 DEF Initializing, Writing
<1> QED BY <1>1, <1>5, <1>6 DEF IInv

(* A call of the application starts, or does all its work in the RAM.       *)
LEMMA CallStep ==
    ASSUME IInv, pc = "idle", pc' \in {"idle", "write", "eraseOld", "eraseAll", "flashErase"},
           UNCHANGED flash, loc' = loc, comp' = comp, job' \in Jobs,
           handles' \in [Names -> SUBSET AllBits],
           cacheTable' \in [0 .. CacheSize - 1 -> CacheLines]
    PROVE  IInv'
<1>1. FlashOK' /\ AtMostOneActive'
  BY FlashUnchanged DEF IInv
<1>2. PlaceOK' /\ RamOK'
  BY DEF IInv, PlaceOK, RamOK
<1>3. Initializing' /\ Writing'
  BY DEF Initializing, Writing
<1> QED BY <1>1, <1>2, <1>3 DEF IInv

(* The inputs of the calls.                                                 *)
LEMMA Inputs ==
    /\ Names \subseteq SUBSET AllBits /\ Keys \subseteq SUBSET AllBits
    /\ Values \subseteq SUBSET AllBits
    /\ BlobSpans \subseteq 0 .. 127 /\ DataSpans \subseteq 0 .. 127
    /\ {} \in SUBSET AllBits /\ T_U8 \in SUBSET AllBits /\ T_BLOB \in SUBSET AllBits
    /\ T_ANY \in SUBSET AllBits /\ NewNamespaceId \in SUBSET AllBits
<1>1. /\ Names \subseteq SUBSET AllBits /\ Keys \subseteq SUBSET AllBits
      /\ Values \subseteq SUBSET AllBits
      /\ BlobSpans \subseteq 2 .. 127 /\ DataSpans \subseteq 0 .. 127
  BY InputAssumption
<1>2. BlobSpans \subseteq 0 .. 127
  BY <1>1
<1>3. /\ {} \in SUBSET AllBits /\ T_U8 \in SUBSET AllBits /\ T_BLOB \in SUBSET AllBits
      /\ T_ANY \in SUBSET AllBits /\ NewNamespaceId \in SUBSET AllBits
  BY DEF AllBits, T_U8, T_BLOB, T_ANY, NewNamespaceId
<1> QED BY <1>1, <1>2, <1>3

LEMMA OpenInv == ASSUME IInv, NEW n \in Names, OpenKnown(n) \/ OpenNew(n) PROVE IInv'
<1>1. {} \in SUBSET AllBits /\ n \in SUBSET AllBits /\ RamOK /\ FlashOK
  BY Inputs DEF IInv
<1>2. CASE OpenKnown(n)
  <2> DEFINE a == findItem({}, T_U8, n)
             ns == IF n = Phy THEN {} ELSE entries[a[1]][a[2]].val
  <2>1. n # Phy => a \in Addresses
    BY <1>1, <1>2, FindItem DEF OpenKnown
  <2>2. /\ handles' = [handles EXCEPT ![n] = ns]
        /\ cacheTable' = (IF n = Phy THEN cacheTable ELSE updateCache(cacheTable, {}, n, a))
        /\ pc = "idle" /\ pc' = "idle" /\ UNCHANGED flash /\ loc' = loc /\ comp' = comp
        /\ job' = job
    BY <1>2 DEF OpenKnown, Answer
  <2> HIDE DEF a
  <2>3. ns \in SUBSET AllBits
    <3>1. CASE n # Phy
      <4>1. a[1] \in Pages /\ a[2] \in Entries
        BY <2>1, <3>1 DEF Addresses
      <4>2. entries[a[1]][a[2]] \in Cell
        BY <1>1, <4>1 DEF FlashOK
      <4> QED BY <3>1, <4>2 DEF Cell
    <3> QED BY <1>1, <3>1
  <2> HIDE DEF ns
  <2>4. handles' \in [Names -> SUBSET AllBits] /\ job' \in Jobs
    BY <1>1, <2>2, <2>3 DEF RamOK
  <2>5. cacheTable' \in [0 .. CacheSize - 1 -> CacheLines]
    BY <1>1, <2>1, <2>2, CacheOperations DEF RamOK
  <2> QED BY <2>2, <2>4, <2>5, CallStep
<1>3. CASE OpenNew(n)
  <2>1. /\ job' = [hdr |-> Item({}, T_U8, n, NewNamespaceId, 1), span |-> 1, cells |-> <<>>]
        /\ pc = "idle" /\ pc' = "write" /\ UNCHANGED flash /\ loc' = loc /\ comp' = comp
        /\ handles' = handles /\ cacheTable' = cacheTable
    BY <1>3 DEF OpenNew, mayWrite
  <2>2. Item({}, T_U8, n, NewNamespaceId, 1) \in Cell
    BY <1>1, Inputs, Cells
  <2>3. job' \in Jobs
    BY <2>1, <2>2, EmptySeq DEF Jobs
  <2> QED BY <1>1, <2>1, <2>3, CallStep DEF RamOK
<1> QED BY <1>2, <1>3

LEMMA GetInv == ASSUME IInv, NEW n \in Names, NEW typ, NEW k \in Keys, Get(n, typ, k) PROVE IInv'
<1> DEFINE ns == handles[n]
           a == findItem(ns, typ, k)
<1>1. ns \in SUBSET AllBits /\ k \in SUBSET AllBits /\ RamOK
  BY Inputs DEF IInv, RamOK
<1> HIDE DEF ns
<1>2. a \in {NoAddress} \cup Addresses
  BY <1>1, FindItem
<1> HIDE DEF a
<1>3. /\ \/ cacheTable' = cacheTable
         \/ a # NoAddress /\ cacheTable' = updateCache(cacheTable, ns, k, a)
      /\ pc = "idle" /\ pc' = "idle" /\ UNCHANGED flash /\ loc' = loc /\ comp' = comp
      /\ job' = job /\ handles' = handles
  BY DEF Get, Answer, a, ns
<1>4. cacheTable' \in [0 .. CacheSize - 1 -> CacheLines]
  <2>1. cacheTable \in [0 .. CacheSize - 1 -> CacheLines]
    BY <1>1 DEF RamOK
  <2>2. a \in Addresses => updateCache(cacheTable, ns, k, a) \in [0 .. CacheSize - 1 -> CacheLines]
    BY <1>1, <2>1, CacheOperations
  <2> QED BY <1>2, <1>3, <2>1, <2>2
<1> QED BY <1>1, <1>3, <1>4, CallStep DEF RamOK

LEMMA SetInv ==
    ASSUME IInv, NEW n \in Names, NEW typ \in SUBSET AllBits, NEW k \in Keys, NEW v \in Values,
           NEW span \in 1 .. 127, NEW ds \in 0 .. 127, Set(n, typ, k, v, span, ds)
    PROVE  IInv'
<1> DEFINE cells == [i \in 1 .. span - 1 |-> DataCell(v, ds)]
           hdr == Item(handles[n], typ, k, v, span)
<1>1. handles[n] \in SUBSET AllBits /\ k \in SUBSET AllBits /\ v \in SUBSET AllBits /\ RamOK
  BY Inputs DEF IInv, RamOK
<1>2. /\ job' = [hdr |-> hdr, span |-> span, cells |-> cells]
      /\ pc = "idle" /\ pc' = "eraseOld" /\ UNCHANGED flash /\ loc' = loc /\ comp' = comp
      /\ handles' = handles /\ cacheTable' = cacheTable
  BY DEF Set, mayWrite
<1>3. hdr \in Cell /\ DataCell(v, ds) \in Cell
  <2>1. span \in 0 .. 127
    OBVIOUS
  <2> QED BY <1>1, <2>1, Cells
<1> HIDE DEF hdr
<1>4. cells \in Seq(Cell) /\ Len(cells) = span - 1
  <2>1. span - 1 \in Nat
    OBVIOUS
  <2> QED BY <1>3, <2>1
<1> HIDE DEF cells
<1>5. job' \in Jobs
  <2>1. span \in Nat
    OBVIOUS
  <2> QED BY <1>2, <1>3, <1>4, <2>1 DEF Jobs
<1> QED BY <1>1, <1>2, <1>5, CallStep DEF RamOK

LEMMA CallsInv == IInv /\ Calls => IInv'
<1> SUFFICES ASSUME IInv, Calls PROVE IInv'
  OBVIOUS
<1>1. ASSUME NEW n \in Names, OpenKnown(n) \/ OpenNew(n) PROVE IInv'
  BY <1>1, OpenInv
<1>2. ASSUME NEW n \in Names, NEW k \in Keys, Get(n, T_U8, k) \/ Get(n, T_BLOB, k) PROVE IInv'
  BY <1>2, GetInv
<1>3. ASSUME NEW n \in Names, NEW k \in Keys, NEW v \in Values, SetU8(n, k, v) PROVE IInv'
  <2>1. 1 \in 1 .. 127 /\ 0 \in 0 .. 127
    OBVIOUS
  <2> QED BY <1>3, <2>1, SetInv, Inputs DEF SetU8
<1>4. ASSUME NEW n \in Names, NEW k \in Keys, NEW v \in Values, NEW span \in BlobSpans,
             NEW ds \in DataSpans, SetBlob(n, k, v, span, ds)
      PROVE  IInv'
  <2>1. span \in 1 .. 127 /\ ds \in 0 .. 127
    BY InputAssumption
  <2> QED BY <1>4, <2>1, SetInv, Inputs DEF SetBlob
<1>5. ASSUME NEW n \in Names, NEW k \in Keys, EraseKey(n, k) PROVE IInv'
  BY <1>5, CallStep DEF EraseKey, IInv, RamOK
<1>6. ASSUME NEW n \in Names, EraseAll(n) PROVE IInv'
  BY <1>6, CallStep DEF EraseAll, IInv, RamOK
<1>7. ASSUME FlashErase PROVE IInv'
  BY <1>7, CallStep DEF FlashErase, IInv, RamOK
<1> QED BY <1>1, <1>2, <1>3, <1>4, <1>5, <1>6, <1>7 DEF Calls

(* The namespace and the key of the call being served.                      *)
LEMMA OpInv == IInv /\ OpOK /\ [Next]_vars => OpOK'
<1> SUFFICES ASSUME IInv, OpOK, [Next]_vars PROVE OpOK'
  OBVIOUS
<1>0. /\ op' = op => OpOK'
      /\ op' = NoOp => OpOK'
      /\ \A api, name, typ, ns, key : ns \in SUBSET AllBits /\ key \in SUBSET AllBits
             /\ op' = call(api, name, ns, typ, key) => OpOK'
  BY DEF OpOK, NoOp, call
<1>1. CASE Boot \/ PowerLoss \/ UNCHANGED vars
  <2>1. op' = op \/ op' = NoOp
    BY <1>1 DEF Boot, PowerLoss, Reset, vars
  <2> QED BY <1>0, <2>1
<1>2. CASE Step
  <2>1. op' = op \/ op' = NoOp
    BY <1>2 DEF Step, InitializePageErase, InitializePageHeader, WriteItemStart, WriteItemFits,
         WriteItemPageFull, WriteItemRetry, WriteItemHeader, WriteItemData, WriteItemTable,
         CompactPageMove, CompactPageDone, EraseOldItemPage, EraseOldItemDone, EraseTableWord,
         EraseAllPage, EraseAllDone, FlashEraseSector, Defect, Reset, Return, WriteItemReturn, place
  <2> QED BY <1>0, <2>1
<1>3. CASE Calls
  <2>0. \A n \in Names : handles[n] \in SUBSET AllBits
    BY DEF IInv, RamOK
  <2>1. ASSUME NEW n \in Names, OpenKnown(n) PROVE OpOK'
    BY <1>0, <2>1 DEF OpenKnown, Answer
  <2>2. ASSUME NEW n \in Names, OpenNew(n) PROVE OpOK'
    BY <1>0, <2>2, Inputs DEF OpenNew
  <2>3. ASSUME NEW n \in Names, NEW typ, NEW k \in Keys, Get(n, typ, k) PROVE OpOK'
    BY <1>0, <2>3 DEF Get, Answer
  <2>4. ASSUME NEW n \in Names, NEW typ, NEW k \in Keys, NEW v, NEW span, NEW ds,
               Set(n, typ, k, v, span, ds)
        PROVE  OpOK'
    BY <1>0, <2>0, <2>4, Inputs DEF Set
  <2>5. ASSUME NEW n \in Names, NEW k \in Keys, EraseKey(n, k) PROVE OpOK'
    BY <1>0, <2>0, <2>5, Inputs DEF EraseKey
  <2>6. ASSUME NEW n \in Names, EraseAll(n) PROVE OpOK'
    BY <1>0, <2>0, <2>6, Inputs DEF EraseAll
  <2>7. ASSUME FlashErase PROVE OpOK'
    BY <1>0, <2>7, Inputs DEF FlashErase
  <2> QED BY <1>3, <2>1, <2>2, <2>3, <2>4, <2>5, <2>6, <2>7 DEF Calls, SetU8, SetBlob
<1> QED BY <1>1, <1>2, <1>3 DEF Next

(* The invariant is inductive.                                              *)
LEMMA NextInv == IInv /\ OpOK /\ [Next]_vars => IInv'
<1> SUFFICES ASSUME IInv, OpOK, [Next]_vars PROVE IInv'
  OBVIOUS
<1>1. CASE UNCHANGED vars
  <2>1. UNCHANGED <<flash, pc, loc, job, comp, handles, cacheTable>>
    BY <1>1 DEF vars
  <2>2. FlashOK' /\ AtMostOneActive' /\ ActivePages' = ActivePages /\ state' = state
    BY <2>1, FlashUnchanged DEF IInv, flash
  <2>3. PlaceOK' /\ RamOK'
    BY <2>1 DEF IInv, PlaceOK, RamOK
  <2>4. Initializing' /\ Writing'
    BY <2>1, <2>2 DEF IInv, Initializing, Writing
  <2> QED BY <2>2, <2>3, <2>4 DEF IInv
<1>2. CASE Step
  BY <1>2, InitializePageEraseInv, InitializePageHeaderInv, WriteItemStartInv, WriteItemFitsInv,
     WriteItemPageFullInv, WriteItemRetryInv, WriteItemHeaderInv, WriteItemDataInv,
     WriteItemTableInv, CompactPageMoveInv, CompactPageDoneInv, EraseOldItemPageInv,
     EraseOldItemDoneInv, EraseTableWordInv, EraseAllPageInv, EraseAllDoneInv,
     FlashEraseSectorInv, ResetInv DEF Step
<1>3. CASE Boot \/ PowerLoss \/ Calls
  BY <1>3, BootInv, ResetInv, CallsInv
<1> QED BY <1>1, <1>2, <1>3 DEF Next

(* Every state of the store satisfies the invariant.                        *)
THEOREM Invariance == Spec => [](IInv /\ OpOK)
<1>1. Init => IInv /\ OpOK
  BY InitInv DEF Init, OpOK, NoOp
<1>2. IInv /\ OpOK /\ [Next]_vars => (IInv /\ OpOK)'
  BY NextInv, OpInv
<1> QED BY <1>1, <1>2, PTL DEF Spec

(* The flash, the place in a call and the page index are well typed at      *)
(* every step of every call and after every loss of power: no call of       *)
(* nvs.nim programs a page or an entry outside the store.                   *)
THEOREM TypeCorrect == Spec => []TypeOK
<1>1. IInv => TypeOK
  BY DEF IInv, FlashOK, PlaceOK, TypeOK, PageStates, Tables, EntryStates
<1> QED BY <1>1, Invariance, PTL

(* At most one page is in state ACTIVE, whatever the number of pages and    *)
(* entries and wherever power is lost between two operations of writeItem,  *)
(* compactPage, initializePage or the erasing calls: findActivePage never   *)
(* has to choose.                                                           *)
THEOREM OneActivePage == Spec => []AtMostOneActive
<1>1. IInv => AtMostOneActive
  BY DEF IInv
<1> QED BY <1>1, Invariance, PTL
--------------------------------------------------------------------------------
(* Whole items.  compactPage takes every entry its copy of the table shows  *)
(* as written for the header of an item, the entries of user data too.  A   *)
(* data entry whose third byte reads as 2 or more is then moved together    *)
(* with entries that are not its own, and a header among those arrives      *)
(* without its data.  Items stay whole as long as no page is compacted, or  *)
(* the data reads as a span of 0 or 1.                                      *)
DataIsShort == DataSpans \subseteq {0, 1} \/ MaxDepth = 0

(* What user data looks like when it is read as a header.  A cell that is   *)
(* like this stays like this, whatever is programmed over it.               *)
DataLike(cell) == cell.key \subseteq {9} /\ (SpanOf(cell.span) =< 1 \/ MaxDepth = 0)

Whole(p, e) ==
    LET cell == entries[p][e]
    IN \/ cell = Blank \/ DataLike(cell)
       \/ \A f \in e + 1 .. e + SpanOf(cell.span) - 1 : f \in Entries /\ DataLike(entries[p][f])

(* The header is programmed and its data is not: the one item that is not   *)
(* whole, and that the table does not show.                                 *)
Half(p, e) == pc = "data" /\ p = loc.pg /\ e = loc.target

JobWhole(j) ==
    \/ j.span = 0 /\ j.hdr = Blank
    \/ /\ j.span = SpanOf(j.hdr.span)
       /\ j.hdr = Blank \/ \A i \in 1 .. j.span - 1 : DataLike(j.cells[i])

FrameWhole(fr) ==
    /\ JobWhole(fr.job)
    /\ \A e \in Entries : fr.tbl[e] = ES_WRITTEN => Whole(fr.src, e) \/ Half(fr.src, e)

ShownWhole == \A p \in Pages, e \in Entries : entryTable[p][e] = ES_WRITTEN => Whole(p, e)

CompWhole ==
    /\ Len(comp) =< MaxDepth
    /\ \A i \in 1 .. Len(comp) : FrameWhole(comp[i])

Region == loc.target .. loc.target + job.span - 1

PlacedWhole ==
    /\ pc \in {"item", "data", "table"} => loc.target + job.span =< EntriesPerPage
    /\ pc \in {"item", "data"} =>
         /\ job.span = 0 \/ entryTable[loc.pg][loc.target] # ES_WRITTEN
         /\ \A e \in Entries : loc.tbl[e] = ES_WRITTEN => e \in Region \/ Whole(loc.pg, e)
    /\ pc = "data" => job.span > 1 /\ entries[loc.pg][loc.target].span \subseteq job.hdr.span
    /\ pc \in {"table", "eraseTable"} =>
         \A e \in Entries : loc.tbl[e] = ES_WRITTEN => Whole(loc.pg, e)

WInv == ShownWhole /\ JobWhole(job) /\ CompWhole /\ PlacedWhole

(* Cells like data stay like data, and no span grows.                       *)
LEMMA ProgrammedCell ==
    ASSUME NEW a \in Cell, NEW b \in Cell
    PROVE  /\ DataLike(a) \/ DataLike(b) => DataLike(NorCell(a, b))
           /\ SpanOf(NorCell(a, b).span) =< SpanOf(a.span)
           /\ SpanOf(NorCell(a, b).span) =< SpanOf(b.span)
           /\ NorCell(a, b).span \subseteq b.span
           /\ NorCell(a, Blank) = a
<1>1. NorCell(a, b).span = a.span \cap b.span /\ NorCell(a, b).key = a.key \cap b.key
  BY DEF NorCell
<1>2. a.span \cap b.span = b.span \cap a.span
  OBVIOUS
<1>3. /\ SpanOf(a.span \cap b.span) =< SpanOf(a.span)
      /\ SpanOf(a.span \cap b.span) =< SpanOf(b.span)
  <2>1. \A s, t : SpanOf(s \cap t) =< SpanOf(t)
    BY Spans
  <2>2. SpanOf(b.span \cap a.span) =< SpanOf(a.span)
    BY <2>1
  <2>3. SpanOf(a.span \cap b.span) =< SpanOf(b.span)
    BY <2>1
  <2> QED BY <1>2, <2>2, <2>3
<1>4. /\ SpanOf(a.span \cap b.span) \in Nat /\ SpanOf(a.span) \in Nat /\ SpanOf(b.span) \in Nat
  <2>1. \A s : SpanOf(s) \in Nat
    BY DEF SpanOf
  <2> QED BY <2>1
<1>5. DataLike(a) \/ DataLike(b) => DataLike(NorCell(a, b))
  BY <1>1, <1>3, <1>4 DEF DataLike
<1>6. NorCell(a, Blank) = a
  BY DEF NorCell, Blank, Cell
<1> QED BY <1>1, <1>3, <1>5, <1>6

(* Every cell is left alone or programmed.                                  *)
Programmed ==
    \A q \in Pages, f \in Entries :
        \/ entries'[q][f] = entries[q][f]
        \/ \E c \in Cell : entries'[q][f] = NorCell(entries[q][f], c)

(* An item that is whole stays whole when cells are programmed, unless it   *)
(* is a new header on a blank cell.                                         *)
LEMMA WholeStays ==
    ASSUME FlashOK, Programmed, NEW q \in Pages, NEW e \in Entries, Whole(q, e),
           \/ entries[q][e] # Blank \/ entries'[q][e] = entries[q][e]
           \/ DataLike(entries'[q][e])
    PROVE  Whole(q, e)'
<1>1. \A f \in Entries : entries[q][f] \in Cell
  BY DEF FlashOK
<1>2. \A f \in Entries : DataLike(entries[q][f]) => DataLike(entries'[q][f])
  BY <1>1, ProgrammedCell DEF Programmed
<1>3. /\ SpanOf(entries'[q][e].span) \in Nat /\ SpanOf(entries[q][e].span) \in Nat
      /\ SpanOf(entries'[q][e].span) =< SpanOf(entries[q][e].span)
  <2>1. SpanOf(entries'[q][e].span) \in Nat /\ SpanOf(entries[q][e].span) \in Nat
    BY DEF SpanOf
  <2>2. CASE entries'[q][e] = entries[q][e]
    BY <2>1, <2>2
  <2>3. CASE \E c \in Cell : entries'[q][e] = NorCell(entries[q][e], c)
    BY <1>1, <2>1, <2>3, ProgrammedCell
  <2> QED BY <2>1, <2>2, <2>3 DEF Programmed
<1>4. CASE entries'[q][e] = Blank \/ DataLike(entries'[q][e])
  BY <1>4 DEF Whole
<1>5. CASE ~ (entries'[q][e] = Blank \/ DataLike(entries'[q][e]))
  <2>1. entries[q][e] # Blank /\ ~ DataLike(entries[q][e])
    BY <1>2, <1>5
  <2>2. \A f \in e + 1 .. e + SpanOf(entries[q][e].span) - 1 :
            f \in Entries /\ DataLike(entries[q][f])
    BY <2>1 DEF Whole
  <2>3. ASSUME NEW f \in e + 1 .. e + SpanOf(entries'[q][e].span) - 1
        PROVE  f \in Entries /\ DataLike(entries'[q][f])
    <3>1. f \in e + 1 .. e + SpanOf(entries[q][e].span) - 1
      BY <1>3 DEF Entries
    <3> QED BY <1>2, <2>2, <3>1
  <2> QED BY <2>3 DEF Whole
<1> QED BY <1>4, <1>5

(* The items that the suspended calls of compactPage have still to move.    *)
LEMMA CompStays ==
    ASSUME CompWhole, comp' = comp,
           \A q \in Pages, e \in Entries : Whole(q, e) \/ Half(q, e) => Whole(q, e)' \/ Half(q, e)',
           comp \in Seq(Frames)
    PROVE  CompWhole'
<1>1. ASSUME NEW i \in 1 .. Len(comp) PROVE FrameWhole(comp[i])'
  <2>1. comp[i] \in Frames
    BY ElementOfSeq
  <2>2. comp[i].src \in Pages
    BY <2>1 DEF Frames
  <2>3. FrameWhole(comp[i]) /\ comp'[i] = comp[i]
    BY DEF CompWhole
  <2>4. JobWhole(comp'[i].job)
    BY <2>3 DEF FrameWhole
  <2>5. ASSUME NEW e \in Entries, comp'[i].tbl[e] = ES_WRITTEN
        PROVE  Whole(comp[i].src, e)' \/ Half(comp[i].src, e)'
    <3>1. Whole(comp[i].src, e) \/ Half(comp[i].src, e)
      BY <2>3, <2>5 DEF FrameWhole
    <3>2. Whole(comp[i].src, e)' \/ Half(comp[i].src, e)'
      BY <2>2, <2>3, <3>1 DEF Whole, Half
    <3> QED BY <3>2
  <2> QED BY <2>4, <2>5 DEF FrameWhole, JobWhole
<1> QED BY <1>1 DEF CompWhole

(* A step that neither programs nor places anything.                        *)
LEMMA QuietStep ==
    ASSUME IInv, WInv, UNCHANGED <<entryTable, entries>>, JobWhole(job'),
           pc' \notin {"item", "data", "table", "eraseTable"},
           comp' = <<>> \/ (comp' = comp /\ pc # "data")
    PROVE  WInv'
<1>1. ASSUME NEW q, NEW e, Whole(q, e) PROVE Whole(q, e)'
  BY <1>1 DEF Whole
<1>2. ShownWhole'
  BY <1>1 DEF WInv, ShownWhole
<1>3. CompWhole'
  <2>1. CASE comp' = <<>>
    BY <2>1, InputAssumption, EmptySeq DEF CompWhole
  <2>2. CASE comp' = comp /\ pc # "data"
    BY <1>1, <2>2, CompStays DEF WInv, IInv, RamOK, Half
  <2> QED BY <2>1, <2>2
<1>4. PlacedWhole'
  BY DEF PlacedWhole
<1>5. JobWhole(job)'
  BY DEF JobWhole
<1> QED BY <1>2, <1>3, <1>4, <1>5 DEF WInv

LEMMA NoJobWhole == JobWhole(NoJob)
BY DEF JobWhole, NoJob

LEMMA InitWhole == Init => WInv
<1> SUFFICES ASSUME Init PROVE WInv
  OBVIOUS
<1>1. ShownWhole
  BY NorEntries DEF Init, ShownWhole, erasedTable
<1>2. JobWhole(job)
  BY NoJobWhole DEF Init
<1>3. CompWhole
  BY InputAssumption, EmptySeq DEF Init, CompWhole
<1>4. PlacedWhole
  BY DEF Init, PlacedWhole
<1> QED BY <1>1, <1>2, <1>3, <1>4 DEF WInv

(* A sector is erased.                                                      *)
LEMMA EraseSectorWhole ==
    ASSUME IInv, WInv, NEW p \in Pages, eraseSector(p), JobWhole(job'), comp' = comp,
           pc # "data", pc' \notin {"item", "data", "table", "eraseTable"}
    PROVE  WInv'
<1>1. ASSUME NEW q \in Pages, NEW e \in Entries, Whole(q, e) PROVE Whole(q, e)'
  <2>1. CASE q = p
    BY <2>1 DEF eraseSector, IInv, FlashOK, Whole
  <2>2. CASE q # p
    BY <1>1, <2>2 DEF eraseSector, IInv, FlashOK, Whole
  <2> QED BY <2>1, <2>2
<1>2. ShownWhole'
  <2>1. ASSUME NEW q \in Pages, NEW e \in Entries, entryTable'[q][e] = ES_WRITTEN
        PROVE  entryTable[q][e] = ES_WRITTEN
    <3>1. q # p
      BY <2>1, NorEntries DEF eraseSector, IInv, FlashOK, erasedTable
    <3> QED BY <2>1, <3>1 DEF eraseSector, IInv, FlashOK
  <2> QED BY <1>1, <2>1 DEF WInv, ShownWhole
<1>3. CompWhole'
  BY <1>1, CompStays DEF WInv, IInv, RamOK, Half
<1>4. PlacedWhole' /\ JobWhole(job)'
  BY DEF PlacedWhole, JobWhole
<1> QED BY <1>2, <1>3, <1>4 DEF WInv

LEMMA InitializePageEraseWhole == IInv /\ WInv /\ InitializePageErase => WInv'
<1> SUFFICES ASSUME IInv, WInv, InitializePageErase PROVE WInv'
  OBVIOUS
<1>1. /\ loc.pg \in Pages /\ eraseSector(loc.pg) /\ job' = job /\ comp' = comp
      /\ pc = "initErase" /\ pc' = "initHeader"
  BY DEF IInv, PlaceOK, InitializePageErase
<1> QED BY <1>1, EraseSectorWhole DEF WInv

LEMMA FlashEraseSectorWhole == IInv /\ WInv /\ FlashEraseSector => WInv'
<1> SUFFICES ASSUME IInv, WInv, FlashEraseSector PROVE WInv'
  OBVIOUS
<1>1. /\ loc.pg \in Pages /\ eraseSector(loc.pg) /\ comp' = comp
      /\ pc = "flashErase" /\ pc' \in {"flashErase", "idle"} /\ job' \in {job, NoJob}
  BY DEF IInv, PlaceOK, FlashEraseSector, Return
<1>2. JobWhole(job')
  BY <1>1, NoJobWhole DEF WInv
<1> QED BY <1>1, <1>2, EraseSectorWhole

(* The steps between the operations on the flash.                           *)
LEMMA QuietSteps ==
    ASSUME IInv, WInv,
           \/ InitializePageHeader \/ WriteItemStart \/ EraseOldItemDone \/ EraseAllDone
           \/ Boot \/ PowerLoss \/ Defect
    PROVE  WInv'
<1>1. /\ UNCHANGED <<entryTable, entries>> /\ job' \in {job, NoJob}
      /\ comp' = <<>> \/ (comp' = comp /\ pc # "data")
      /\ pc' \notin {"item", "data", "table", "eraseTable"}
  <2>1. CASE InitializePageHeader
    BY <2>1 DEF InitializePageHeader, IInv, Initializing
  <2>2. CASE WriteItemStart
    BY <2>2 DEF WriteItemStart, flash
  <2>3. CASE EraseOldItemDone \/ EraseAllDone
    BY <2>3 DEF EraseOldItemDone, EraseAllDone, Return, flash
  <2>4. CASE Boot \/ PowerLoss \/ Defect
    BY <2>4 DEF Boot, PowerLoss, Defect, Reset, flash
  <2> QED BY <2>1, <2>2, <2>3, <2>4
<1>2. JobWhole(job')
  BY <1>1, NoJobWhole DEF WInv
<1> QED BY <1>1, <1>2, QuietStep

(* An item is placed on the active page.                                    *)
LEMMA PlaceWhole ==
    ASSUME IInv, WInv, NEW t \in Entries, place(t), loc.pg \in Pages, UNCHANGED flash,
           comp' = comp, job' = job, pc # "data", t + job.span =< EntriesPerPage,
           \A e \in t .. t + job.span - 1 : entryTable[loc.pg][e] = ES_EMPTY
    PROVE  WInv'
<1>1. UNCHANGED <<entryTable, entries>>
  BY DEF flash
<1>2. ASSUME NEW q, NEW e, Whole(q, e) PROVE Whole(q, e)'
  BY <1>1, <1>2 DEF Whole
<1>3. ShownWhole'
  BY <1>1, <1>2 DEF WInv, ShownWhole
<1>4. CompWhole'
  BY <1>2, CompStays DEF WInv, IInv, RamOK, Half
<1>5. JobWhole(job)'
  BY DEF WInv, JobWhole
<1>6. /\ pc' = "item" /\ loc'.pg = loc.pg /\ loc'.target = t
      /\ loc'.tbl = setEntries(entryTable[loc.pg], t, job.span, ES_WRITTEN)
  BY DEF place, IInv, RamOK, Locals
<1>7. PlacedWhole'
  <2>1. loc'.target + job'.span =< EntriesPerPage
    BY <1>6
  <2>2. job'.span = 0 \/ entryTable'[loc'.pg][loc'.target] # ES_WRITTEN
    <3>1. CASE job.span # 0
      <4>1. job.span \in Nat /\ t \in Nat
        BY Indices DEF IInv, RamOK, Jobs
      <4>2. t \in t .. t + job.span - 1
        BY <3>1, <4>1
      <4> QED BY <1>1, <1>6, <4>2, NorEntries
    <3> QED BY <3>1
  <2>3. ASSUME NEW e \in Entries, loc'.tbl[e] = ES_WRITTEN
        PROVE  e \in Region' \/ Whole(loc.pg, e)'
    <3>1. e \in t .. t + job.span - 1 \/ entryTable[loc.pg][e] = ES_WRITTEN
      BY <1>6, <2>3 DEF setEntries
    <3>2. CASE entryTable[loc.pg][e] = ES_WRITTEN
      <4>1. Whole(loc.pg, e)
        BY <3>2 DEF WInv, ShownWhole
      <4>2. Whole(loc.pg, e)'
        BY <1>1, <1>6, <4>1 DEF Whole
      <4> QED BY <4>2
    <3>3. CASE e \in t .. t + job.span - 1
      BY <1>6, <3>3 DEF Region
    <3> QED BY <3>1, <3>2, <3>3
  <2> QED BY <1>6, <2>1, <2>2, <2>3 DEF PlacedWhole
<1> QED BY <1>3, <1>4, <1>5, <1>7 DEF WInv

LEMMA WriteItemFitsWhole == IInv /\ WInv /\ WriteItemFits => WInv'
<1> SUFFICES ASSUME IInv, WInv, WriteItemFits PROVE WInv'
  OBVIOUS
<1> DEFINE t == findConsecutiveEntries(entryTable[loc.pg], job.span)
<1>1. /\ t \in Entries /\ t + job.span =< EntriesPerPage
      /\ \A e \in t .. t + job.span - 1 : entryTable[loc.pg][e] = ES_EMPTY
  BY FindConsecutiveEntries DEF WriteItemFits
<1>2. loc.pg \in Pages /\ pc = "fit"
  BY DEF IInv, Writing, WriteItemFits, ActivePages
<1>3. place(t) /\ UNCHANGED flash /\ comp' = comp /\ job' = job
  BY DEF WriteItemFits
<1> HIDE DEF t
<1> QED BY <1>1, <1>2, <1>3, PlaceWhole

(* writeItem returns to compactPage or to the caller.                       *)
LEMMA ReturnWhole ==
    ASSUME NEW res, NEW val, WriteItemReturn(res, val)
    PROVE  job' \in {job, NoJob} /\ pc' \in {"compact", "idle"}
BY DEF WriteItemReturn, Return

LEMMA WriteItemRetryWhole == IInv /\ WInv /\ WriteItemRetry => WInv'
<1> SUFFICES ASSUME IInv, WInv, WriteItemRetry PROVE WInv'
  OBVIOUS
<1> DEFINE t == findConsecutiveEntries(entryTable[loc.pg], job.span)
<1>1. /\ t \in Entries \cup {-1}
      /\ t # -1 => /\ t + job.span =< EntriesPerPage
                   /\ \A e \in t .. t + job.span - 1 : entryTable[loc.pg][e] = ES_EMPTY
  BY FindConsecutiveEntries
<1>2. loc.pg \in Pages /\ pc = "retry" /\ UNCHANGED flash /\ comp' = comp
  BY DEF IInv, Writing, WriteItemRetry, ActivePages
<1>3. CASE t = -1
  <2>1. WriteItemReturn("NO_FREE_PAGES", {})
    BY <1>3 DEF WriteItemRetry
  <2>2. JobWhole(job')
    BY <2>1, ReturnWhole, NoJobWhole DEF WInv
  <2> QED BY <1>2, <2>1, <2>2, ReturnWhole, QuietStep DEF flash
<1>4. CASE t # -1
  <2>1. place(t) /\ job' = job
    BY <1>4 DEF WriteItemRetry
  <2> HIDE DEF t
  <2> QED BY <1>1, <1>2, <1>4, <2>1, PlaceWhole
<1> QED BY <1>3, <1>4

(* The page is full: the next one is initialized or compacted.              *)
LEMMA WriteItemPageFullWhole == IInv /\ WInv /\ WriteItemPageFull => WInv'
<1> SUFFICES ASSUME IInv, WInv, WriteItemPageFull PROVE WInv'
  OBVIOUS
<1> DEFINE nx == nextPage(loc.pg)
           fr == [src |-> nx, clean |-> dirty[nx] = Clean, next |-> 0,
                  tbl |-> entryTable[nx], job |-> job]
<1>1. /\ UNCHANGED <<entryTable, entries>> /\ pc = "fit" /\ pc' = "initErase" /\ job' = job
      /\ \/ comp' = comp
         \/ Len(comp) < MaxDepth /\ comp' = <<fr>> \o comp
  BY DEF WriteItemPageFull
<1>2. nx \in Pages
  BY Indices DEF IInv, Writing, WriteItemPageFull, ActivePages
<1> HIDE DEF nx
<1>3. CASE comp' = comp
  BY <1>1, <1>3, QuietStep DEF WInv
<1>4. CASE Len(comp) < MaxDepth /\ comp' = <<fr>> \o comp
  <2>1. ASSUME NEW q, NEW e, Whole(q, e) PROVE Whole(q, e)'
    BY <1>1, <2>1 DEF Whole
  <2>2. fr.src = nx /\ fr.tbl = entryTable[nx] /\ fr.job = job
    OBVIOUS
  <2> HIDE DEF fr
  <2>3. /\ Len(comp') = Len(comp) + 1 /\ Len(comp) \in Nat /\ comp'[1] = fr
        /\ \A i \in 2 .. Len(comp) + 1 : comp'[i] = comp[i - 1]
    BY <1>4 DEF IInv, RamOK
  <2>4. ASSUME NEW i \in 1 .. Len(comp') PROVE FrameWhole(comp[i])'
    <3>1. CASE i = 1
      <4>1. JobWhole(comp'[1].job)
        BY <2>2, <2>3 DEF WInv
      <4>2. ASSUME NEW e \in Entries, comp'[1].tbl[e] = ES_WRITTEN PROVE Whole(comp[1].src, e)'
        <5>1. Whole(nx, e)
          BY <1>2, <2>2, <2>3, <4>2 DEF WInv, ShownWhole
        <5>2. Whole(comp[1].src, e)'
          BY <1>1, <2>2, <2>3, <5>1 DEF Whole
        <5> QED BY <5>2
      <4> QED BY <3>1, <4>1, <4>2 DEF FrameWhole, JobWhole
    <3>2. CASE i # 1
      <4>1. i - 1 \in 1 .. Len(comp) /\ comp'[i] = comp[i - 1]
        BY <2>3, <3>2
      <4>2. FrameWhole(comp[i - 1])
        BY <4>1 DEF WInv, CompWhole
      <4>3. JobWhole(comp'[i].job)
        BY <4>1, <4>2 DEF FrameWhole
      <4>4. ASSUME NEW e \in Entries, comp'[i].tbl[e] = ES_WRITTEN PROVE Whole(comp[i].src, e)'
        <5>1. Whole(comp[i - 1].src, e)
          BY <1>1, <4>1, <4>2, <4>4 DEF FrameWhole, Half
        <5>2. Whole(comp[i].src, e)'
          BY <1>1, <4>1, <5>1 DEF Whole
        <5> QED BY <5>2
      <4> QED BY <4>3, <4>4 DEF FrameWhole, JobWhole
    <3> QED BY <3>1, <3>2
  <2>5. CompWhole'
    BY <1>4, <2>3, <2>4, InputAssumption DEF CompWhole
  <2>6. ShownWhole'
    BY <1>1, <2>1 DEF WInv, ShownWhole
  <2>7. PlacedWhole' /\ JobWhole(job)'
    BY <1>1 DEF WInv, PlacedWhole, JobWhole
  <2> QED BY <2>5, <2>6, <2>7 DEF WInv
<1> QED BY <1>1, <1>3, <1>4

(* The header of an item is programmed: only its own entry may not be whole *)
(* yet, and the table does not show it.                                     *)
LEMMA WriteItemHeaderWhole == IInv /\ WInv /\ WriteItemHeader => WInv'
<1> SUFFICES ASSUME IInv, WInv, WriteItemHeader PROVE WInv'
  OBVIOUS
<1>1. /\ loc.pg \in Pages /\ loc.target \in Entries /\ job.hdr \in Cell /\ job.span \in Nat
      /\ pc = "item" /\ FlashOK /\ comp \in Seq(Frames)
  BY DEF IInv, Writing, WriteItemHeader, ActivePages, RamOK, Locals, Jobs
<1>2. PICK pg \in Pages, t \in Entries : loc.pg = pg /\ loc.target = t
  BY <1>1
<1>3. /\ entries' = [entries EXCEPT ![pg][t] = NorCell(@, job.hdr)] /\ entryTable' = entryTable
      /\ pc' = (IF job.span > 1 THEN "data" ELSE "table") /\ job' = job /\ comp' = comp
  BY <1>2 DEF WriteItemHeader
<1>4. loc'.pg = pg /\ loc'.target = t /\ loc'.tbl = loc.tbl
  BY <1>2 DEF WriteItemHeader, IInv, RamOK, Locals
<1>5. /\ t + job.span =< EntriesPerPage
      /\ job.span = 0 \/ entryTable[pg][t] # ES_WRITTEN
      /\ \A e \in Entries : loc.tbl[e] = ES_WRITTEN => e \in Region \/ Whole(pg, e)
      /\ JobWhole(job) /\ ShownWhole /\ CompWhole
  BY <1>1, <1>2 DEF WInv, PlacedWhole
<1>6. /\ \A q \in Pages, e \in Entries : q # pg \/ e # t => entries'[q][e] = entries[q][e]
      /\ entries'[pg][t] = NorCell(entries[pg][t], job.hdr) /\ entries[pg][t] \in Cell
  BY <1>1, <1>3 DEF FlashOK
<1>7. Programmed
  BY <1>1, <1>6 DEF Programmed
<1>8. ASSUME NEW q \in Pages, NEW e \in Entries, q # pg \/ e # t, Whole(q, e) PROVE Whole(q, e)'
  BY <1>1, <1>6, <1>7, <1>8, WholeStays
<1>9. /\ job.span = 1 => Whole(pg, t)'
      /\ job.span = 0 /\ Whole(pg, t) => Whole(pg, t)'
  <2>1. CASE job.span = 0 /\ job.hdr = Blank
    <3>1. entries'[pg][t] = entries[pg][t]
      BY <1>1, <1>6, <2>1, ProgrammedCell
    <3> QED BY <1>1, <1>7, <2>1, <3>1, WholeStays
  <2>2. CASE job.span = SpanOf(job.hdr.span)
    <3>1. ASSUME job.span =< 1 PROVE Whole(pg, t)'
      <4>1. SpanOf(entries'[pg][t].span) =< 1 /\ SpanOf(entries'[pg][t].span) \in Nat
        <5>1. SpanOf(entries'[pg][t].span) \in Nat
          BY DEF SpanOf
        <5>2. SpanOf(entries'[pg][t].span) =< job.span
          BY <1>1, <1>6, <2>2, ProgrammedCell
        <5> QED BY <1>1, <3>1, <5>1, <5>2
      <4>2. t + 1 .. t + SpanOf(entries'[pg][t].span) - 1 = {}
        BY <4>1 DEF Entries
      <4> QED BY <4>2 DEF Whole
    <3> QED BY <3>1
  <2> QED BY <1>5, <2>1, <2>2 DEF JobWhole
<1>10. ShownWhole'
  <2>1. ASSUME NEW q \in Pages, NEW e \in Entries, entryTable'[q][e] = ES_WRITTEN
        PROVE  Whole(q, e)'
    <3>1. Whole(q, e)
      BY <1>3, <1>5, <2>1 DEF ShownWhole
    <3>2. q = pg /\ e = t => job.span = 0
      BY <1>3, <1>5, <2>1
    <3> QED BY <1>8, <1>9, <3>1, <3>2
  <2> QED BY <2>1 DEF ShownWhole
<1>11. CompWhole'
  <2>1. ASSUME NEW q \in Pages, NEW e \in Entries, Whole(q, e) \/ Half(q, e)
        PROVE  Whole(q, e)' \/ Half(q, e)'
    <3>1. Whole(q, e)
      BY <1>1, <2>1 DEF Half
    <3>2. CASE q # pg \/ e # t
      BY <1>8, <3>1, <3>2
    <3>3. CASE q = pg /\ e = t /\ job.span > 1
      BY <1>3, <1>4, <3>3 DEF Half
    <3>4. CASE q = pg /\ e = t /\ ~ (job.span > 1)
      <4>1. job.span = 0 \/ job.span = 1
        BY <1>1, <3>4
      <4> QED BY <1>9, <3>1, <3>4, <4>1
    <3> QED BY <3>2, <3>3, <3>4
  <2> QED BY <1>1, <1>3, <1>5, <2>1, CompStays
<1>12. PlacedWhole'
  <2>1. Region = t .. t + job.span - 1 /\ Region' = Region
    BY <1>2, <1>3, <1>4 DEF Region
  <2>2. loc'.target + job'.span =< EntriesPerPage
    BY <1>3, <1>4, <1>5
  <2>3. CASE job.span > 1
    <3>1. job'.span = 0 \/ entryTable'[loc'.pg][loc'.target] # ES_WRITTEN
      BY <1>3, <1>4, <1>5
    <3>2. ASSUME NEW e \in Entries, loc'.tbl[e] = ES_WRITTEN
          PROVE  e \in Region' \/ Whole(loc.pg, e)'
      <4>1. CASE e \in Region
        BY <2>1, <4>1
      <4>2. CASE e \notin Region
        <5>1. e # t
          BY <1>1, <2>1, <2>3, <4>2 DEF Entries
        <5>2. Whole(pg, e)'
          BY <1>4, <1>5, <1>8, <3>2, <4>2, <5>1
        <5>3. Whole(loc.pg, e)'
          BY <1>4, <5>2 DEF Whole
        <5> QED BY <5>3
      <4> QED BY <4>1, <4>2
    <3>3. entries'[loc'.pg][loc'.target].span \subseteq job'.hdr.span
      BY <1>1, <1>3, <1>4, <1>6, ProgrammedCell
    <3> QED BY <1>3, <2>2, <2>3, <3>1, <3>2, <3>3 DEF PlacedWhole
  <2>4. CASE ~ (job.span > 1)
    <3>0. job.span = 0 \/ job.span = 1
      BY <1>1, <2>4
    <3>1. ASSUME NEW e \in Entries, loc'.tbl[e] = ES_WRITTEN PROVE Whole(loc.pg, e)'
      <4>1. e \in Region => e = t /\ job.span = 1
        BY <2>1, <3>0 DEF Entries
      <4>2. CASE e \in Region
        <5>1. Whole(pg, e)'
          BY <1>9, <4>1, <4>2
        <5>2. Whole(loc.pg, e)'
          BY <1>4, <5>1 DEF Whole
        <5> QED BY <5>2
      <4>3. CASE e \notin Region
        <5>1. Whole(pg, e) /\ (e = t => job.span = 0)
          <6>1. job.span = 1 => t \in Region
            BY <2>1 DEF Entries
          <6> QED BY <1>4, <1>5, <3>0, <3>1, <4>3, <6>1
        <5>2. Whole(pg, e)'
          BY <1>8, <1>9, <5>1
        <5>3. Whole(loc.pg, e)'
          BY <1>4, <5>2 DEF Whole
        <5> QED BY <5>3
      <4> QED BY <4>2, <4>3
    <3> QED BY <1>3, <2>2, <2>4, <3>1 DEF PlacedWhole
  <2> QED BY <2>3, <2>4
<1>13. JobWhole(job)'
  BY <1>3, <1>5 DEF JobWhole
<1> QED BY <1>10, <1>11, <1>12, <1>13 DEF WInv

(* The data is programmed behind its header: the item is whole.             *)
LEMMA WriteItemDataWhole == IInv /\ WInv /\ WriteItemData => WInv'
<1> SUFFICES ASSUME IInv, WInv, WriteItemData PROVE WInv'
  OBVIOUS
<1>1. /\ loc.pg \in Pages /\ loc.target \in Entries /\ job \in Jobs /\ job.hdr \in Cell
      /\ job.span \in Nat /\ job.cells \in Seq(Cell) /\ Len(job.cells) >= job.span - 1
      /\ pc = "data" /\ FlashOK /\ comp \in Seq(Frames)
  BY DEF IInv, Writing, WriteItemData, ActivePages, RamOK, Locals, Jobs
<1>2. PICK pg \in Pages, t \in Entries : loc.pg = pg /\ loc.target = t
  BY <1>1
<1>3. /\ entryTable' = entryTable /\ pc' = "table" /\ job' = job /\ comp' = comp /\ loc' = loc
  BY DEF WriteItemData
<1>4. /\ t + job.span =< EntriesPerPage
      /\ \A e \in Entries : loc.tbl[e] = ES_WRITTEN => e \in Region \/ Whole(pg, e)
      /\ job.span > 1 /\ entries[pg][t].span \subseteq job.hdr.span
      /\ JobWhole(job) /\ ShownWhole /\ CompWhole
  BY <1>1, <1>2 DEF WInv, PlacedWhole
<1>5. Region = t .. t + job.span - 1 /\ t \in Nat
  <2>1. t \in Nat
    BY <1>2, Indices
  <2> QED BY <1>2, <2>1 DEF Region
<1> DEFINE data == t + 1 .. t + job.span - 1
<1>6. \A q \in Pages, e \in Entries :
          entries'[q][e] = IF q = pg /\ e \in data
                           THEN NorCell(entries[q][e], job.cells[e - t]) ELSE entries[q][e]
  BY <1>1, <1>2 DEF WriteItemData, FlashOK
<1>7. \A e \in data : e \in Entries /\ job.cells[e - t] \in Cell /\ e - t \in 1 .. job.span - 1
  <2>1. ASSUME NEW e \in data
        PROVE  e \in Entries /\ e - t \in 1 .. Len(job.cells) /\ e - t \in 1 .. job.span - 1
    <3>1. PICK s, c, m : s = job.span /\ c = Len(job.cells) /\ m = EntriesPerPage
      OBVIOUS
    <3>2. s \in Nat /\ c \in Nat /\ m \in Nat /\ c >= s - 1 /\ t + s =< m /\ t \in Nat
      BY <1>1, <1>4, <1>5, <3>1, GeometryAssumption, LenProperties
    <3>3. e \in t + 1 .. t + s - 1
      BY <3>1
    <3>4. e \in 0 .. m - 1 /\ e - t \in 1 .. c /\ e - t \in 1 .. s - 1
      BY <3>2, <3>3
    <3> QED
      BY <3>1, <3>4 DEF Entries
  <2> QED BY <1>1, <2>1, ElementOfSeq
<1>8. Programmed
  BY <1>6, <1>7 DEF Programmed
<1>9. \A e \in data : DataLike(entries'[pg][e])
  <2>1. job.span # 127
    <3>1. EntriesPerPage \in Nat /\ EntriesPerPage < 127
      BY GeometryAssumption
    <3> QED BY <1>1, <1>4, <1>5, <3>1
  <2>2. job.hdr = Blank => SpanOf(job.hdr.span) = 127
    BY Spans DEF Blank
  <2>3. ASSUME NEW e \in data PROVE DataLike(entries'[pg][e])
    <3>1. job.span > 0
      BY <1>1, <1>5
    <3>2. DataLike(job.cells[e - t])
      BY <1>4, <1>7, <2>1, <2>2, <3>1 DEF JobWhole
    <3>3. entries[pg][e] \in Cell /\ entries'[pg][e] = NorCell(entries[pg][e], job.cells[e - t])
      BY <1>1, <1>6, <1>7 DEF FlashOK
    <3> QED BY <1>7, <3>2, <3>3, ProgrammedCell
  <2> QED BY <2>3
<1>10. ASSUME NEW q \in Pages, NEW e \in Entries, Whole(q, e) PROVE Whole(q, e)'
  <2>1. entries'[q][e] = entries[q][e] \/ DataLike(entries'[q][e])
    BY <1>6, <1>9
  <2> HIDE DEF data
  <2> QED BY <1>1, <1>8, <1>10, <2>1, WholeStays
<1>11. \A e \in Region : e \in Entries /\ Whole(pg, e)'
  <2>1. ASSUME NEW e \in data PROVE Whole(pg, e)'
    BY <1>9, <2>1 DEF Whole
  <2>2. job.span > 0 => Whole(pg, t)'
    <3> SUFFICES ASSUME job.span > 0 PROVE Whole(pg, t)'
      OBVIOUS
    <3>1. entries'[pg][t] = entries[pg][t]
      BY <1>5, <1>6
    <3>2. SpanOf(entries[pg][t].span) =< SpanOf(job.hdr.span)
      <4> DEFINE a == entries[pg][t].span
                 b == job.hdr.span
      <4>1. a = a \cap b
        BY <1>4
      <4>2. SpanOf(a \cap b) =< SpanOf(b)
        <5> HIDE DEF a, b
        <5> QED BY Spans
      <4> QED BY <4>1, <4>2
    <3>3. SpanOf(job.hdr.span) = job.span
      BY <1>4 DEF JobWhole
    <3>4. SpanOf(entries[pg][t].span) \in Nat
      BY DEF SpanOf
    <3>5. ASSUME NEW f \in t + 1 .. t + SpanOf(entries'[pg][t].span) - 1
          PROVE  f \in Entries /\ DataLike(entries'[pg][f])
      <4>1. f \in data
        BY <1>1, <1>5, <3>1, <3>2, <3>3, <3>4
      <4> HIDE DEF data
      <4> QED BY <1>7, <1>9, <4>1
    <3> QED BY <3>5 DEF Whole
  <2>3. ASSUME NEW e \in Region PROVE (e \in data \/ (e = t /\ job.span > 0))
    BY <1>1, <1>5, <2>3
  <2> HIDE DEF data
  <2> QED BY <1>7, <2>1, <2>2, <2>3
<1> HIDE DEF data
<1>12. ShownWhole'
  BY <1>3, <1>4, <1>10 DEF ShownWhole
<1>13. CompWhole'
  <2>1. ASSUME NEW q \in Pages, NEW e \in Entries, Whole(q, e) \/ Half(q, e) PROVE Whole(q, e)'
    <3>1. CASE Whole(q, e)
      BY <1>10, <3>1
    <3>2. CASE Half(q, e) /\ ~ Whole(q, e)
      <4>1. q = pg /\ e = t
        BY <1>2, <3>2 DEF Half
      <4>2. t \in Region
        BY <1>1, <1>4, <1>5
      <4> QED BY <1>11, <4>1, <4>2
    <3> QED BY <2>1, <3>1, <3>2
  <2> QED BY <1>1, <1>3, <1>4, <2>1, CompStays
<1>14. PlacedWhole'
  <2>1. ASSUME NEW e \in Entries, loc'.tbl[e] = ES_WRITTEN PROVE Whole(loc.pg, e)'
    <3>1. Whole(pg, e)'
      BY <1>3, <1>4, <1>10, <1>11, <2>1
    <3>2. Whole(loc.pg, e)'
      BY <1>2, <1>3, <3>1 DEF Whole
    <3> QED BY <3>2
  <2>2. loc'.target + job'.span =< EntriesPerPage
    BY <1>2, <1>3, <1>4
  <2> QED BY <1>3, <2>1, <2>2 DEF PlacedWhole
<1>15. JobWhole(job)'
  BY <1>3, <1>4 DEF JobWhole
<1> QED BY <1>12, <1>13, <1>14, <1>15 DEF WInv

(* A word of the table of the page in the locals is programmed: it shows    *)
(* entries that were shown before, or that the copy of the table shows.     *)
LEMMA TableWordWhole ==
    ASSUME IInv, WInv, pc \in {"table", "eraseTable"}, entries' = entries, comp' = comp,
           entryTable' = [entryTable EXCEPT ![loc.pg] = norWord(@, loc.word, loc.tbl)],
           JobWhole(job'),
           \/ pc' \notin {"item", "data", "table", "eraseTable"}
           \/ pc' = pc /\ loc'.pg = loc.pg /\ loc'.tbl = loc.tbl /\ loc'.target = loc.target
                /\ job' = job
    PROVE  WInv'
<1>1. ASSUME NEW q, NEW e, Whole(q, e) PROVE Whole(q, e)'
  BY <1>1 DEF Whole
<1>2. /\ loc.pg \in Pages /\ loc.tbl \in Tables /\ FlashOK /\ comp \in Seq(Frames)
      /\ \A e \in Entries : loc.tbl[e] = ES_WRITTEN => Whole(loc.pg, e)
  BY DEF IInv, PlaceOK, Writing, RamOK, WInv, PlacedWhole
<1>3. ASSUME NEW q \in Pages, NEW e \in Entries, entryTable'[q][e] = ES_WRITTEN
      PROVE  Whole(q, e)'
  <2>1. entryTable[q][e] \in EntryStates /\ loc.tbl[e] \in EntryStates
    BY <1>2 DEF FlashOK, Tables
  <2>2. CASE entryTable'[q][e] = entryTable[q][e]
    BY <1>1, <1>3, <2>2 DEF WInv, ShownWhole
  <2>3. CASE q = loc.pg /\ entryTable'[q][e] = Nor(entryTable[q][e], loc.tbl[e])
    <3>1. entryTable[q][e] = ES_WRITTEN \/ loc.tbl[e] = ES_WRITTEN
      BY <1>3, <2>1, <2>3, NorEntries
    <3>2. Whole(q, e)
      BY <1>2, <2>3, <3>1 DEF WInv, ShownWhole
    <3> QED BY <1>1, <3>2
  <2> QED BY <1>2, <2>2, <2>3 DEF norWord, FlashOK, Tables
<1>4. ShownWhole'
  BY <1>3 DEF ShownWhole
<1>5. CompWhole'
  BY <1>1, <1>2, CompStays DEF WInv, Half
<1>6. PlacedWhole'
  <2>1. CASE pc' \notin {"item", "data", "table", "eraseTable"}
    BY <2>1 DEF PlacedWhole
  <2>2. CASE pc' = pc /\ loc'.pg = loc.pg /\ loc'.tbl = loc.tbl /\ loc'.target = loc.target
                /\ job' = job
    <3>1. ASSUME NEW e \in Entries, loc'.tbl[e] = ES_WRITTEN PROVE Whole(loc.pg, e)'
      <4>1. Whole(loc.pg, e)
        BY <1>2, <2>2, <3>1
      <4>2. Whole(loc.pg, e)'
        BY <2>2, <4>1 DEF Whole
      <4> QED BY <4>2
    <3>2. pc = "table" => loc'.target + job'.span =< EntriesPerPage
      BY <2>2 DEF WInv, PlacedWhole
    <3> QED BY <2>2, <3>1, <3>2 DEF PlacedWhole
  <2> QED BY <2>1, <2>2
<1>7. JobWhole(job)'
  BY DEF JobWhole
<1> QED BY <1>4, <1>5, <1>6, <1>7 DEF WInv

LEMMA WriteItemTableWhole == IInv /\ WInv /\ WriteItemTable => WInv'
<1> SUFFICES ASSUME IInv, WInv, WriteItemTable PROVE WInv'
  OBVIOUS
<1>1. /\ pc = "table" /\ entries' = entries /\ comp' = comp
      /\ entryTable' = [entryTable EXCEPT ![loc.pg] = norWord(@, loc.word, loc.tbl)]
  BY DEF WriteItemTable
<1>2. CASE loc.word < endWord
  <2>1. /\ pc' = pc /\ job' = job /\ loc' = [loc EXCEPT !.word = @ + 1]
    BY <1>2 DEF WriteItemTable
  <2>2. loc'.pg = loc.pg /\ loc'.tbl = loc.tbl /\ loc'.target = loc.target
    BY <2>1 DEF IInv, RamOK, Locals
  <2> QED BY <1>1, <2>1, <2>2, TableWordWhole DEF WInv
<1>3. CASE ~ (loc.word < endWord)
  <2>1. WriteItemReturn("OK", {job.hdr.val})
    BY <1>3 DEF WriteItemTable
  <2>2. JobWhole(job') /\ pc' \in {"compact", "idle"}
    BY <2>1, ReturnWhole, NoJobWhole DEF WInv
  <2> QED BY <1>1, <2>2, TableWordWhole
<1> QED BY <1>2, <1>3

LEMMA EraseTableWordWhole == IInv /\ WInv /\ EraseTableWord => WInv'
<1> SUFFICES ASSUME IInv, WInv, EraseTableWord PROVE WInv'
  OBVIOUS
<1>1. /\ pc = "eraseTable" /\ entries' = entries /\ comp' = comp /\ job' = job
      /\ entryTable' = [entryTable EXCEPT ![loc.pg] = norWord(@, loc.word, loc.tbl)]
      /\ loc.then \in {"eraseOld", "eraseAll"}
  BY DEF EraseTableWord, IInv, Writing
<1>2. CASE loc.word < TableWords - 1
  <2>1. /\ pc' = pc /\ loc' = [loc EXCEPT !.word = @ + 1]
    BY <1>2 DEF EraseTableWord
  <2>2. loc'.pg = loc.pg /\ loc'.tbl = loc.tbl /\ loc'.target = loc.target
    BY <2>1 DEF IInv, RamOK, Locals
  <2> QED BY <1>1, <2>1, <2>2, TableWordWhole DEF WInv
<1>3. CASE ~ (loc.word < TableWords - 1)
  <2>1. pc' = loc.then
    BY <1>3 DEF EraseTableWord
  <2> QED BY <1>1, <2>1, TableWordWhole DEF WInv
<1> QED BY <1>2, <1>3

(* The erasing loops turn to a page: their copy of its table shows nothing  *)
(* that the table does not show.                                            *)
LEMMA ErasingWhole ==
    ASSUME IInv, WInv, NEW p \in Pages, NEW tbl, UNCHANGED <<entryTable, entries>>,
           job' = job, comp' = comp, pc # "data", pc' = "eraseTable",
           loc'.pg = p, loc'.tbl = tbl,
           \A e \in Entries : tbl[e] = ES_WRITTEN => entryTable[p][e] = ES_WRITTEN
    PROVE  WInv'
<1>1. ASSUME NEW q, NEW e, Whole(q, e) PROVE Whole(q, e)'
  BY <1>1 DEF Whole
<1>2. ShownWhole'
  BY <1>1 DEF WInv, ShownWhole
<1>3. CompWhole'
  BY <1>1, CompStays DEF WInv, IInv, RamOK, Half
<1>4. ASSUME NEW e \in Entries, loc'.tbl[e] = ES_WRITTEN PROVE Whole(loc.pg, e)'
  <2>1. Whole(p, e)
    BY <1>4 DEF WInv, ShownWhole
  <2>2. Whole(loc.pg, e)'
    BY <2>1 DEF Whole
  <2> QED BY <2>2
<1>5. PlacedWhole'
  BY <1>4 DEF PlacedWhole
<1>6. JobWhole(job)'
  BY DEF WInv, JobWhole
<1> QED BY <1>2, <1>3, <1>5, <1>6 DEF WInv

LEMMA EraseOldItemPageWhole == IInv /\ WInv /\ EraseOldItemPage => WInv'
<1> SUFFICES ASSUME IInv, WInv, EraseOldItemPage PROVE WInv'
  OBVIOUS
<1>1. PICK p \in Pages : p = leastPage(pagesWithOld)
  BY LeastPage DEF EraseOldItemPage, pagesWithOld
<1> DEFINE tbl == eraseOld(p, op.ns, op.typ, op.key)
<1>2. /\ UNCHANGED <<entryTable, entries>> /\ job' = job /\ comp' = comp /\ pc # "data"
      /\ pc' = "eraseTable" /\ loc'.pg = p /\ loc'.tbl = tbl
  BY <1>1 DEF EraseOldItemPage, IInv, RamOK, Locals
<1>3. \A e \in Entries : tbl[e] = ES_WRITTEN => entryTable[p][e] = ES_WRITTEN
  BY NorEntries DEF eraseOld
<1> HIDE DEF tbl
<1>4. PICK u : u = tbl
  OBVIOUS
<1> QED BY <1>2, <1>3, <1>4, ErasingWhole

LEMMA EraseAllPageWhole == IInv /\ WInv /\ EraseAllPage => WInv'
<1> SUFFICES ASSUME IInv, WInv, EraseAllPage PROVE WInv'
  OBVIOUS
<1>1. PICK p \in Pages : p = leastPage(pagesOfNamespace)
  BY LeastPage DEF EraseAllPage, pagesOfNamespace
<1> DEFINE tbl == eraseNamespace(p, op.ns)
<1>2. /\ UNCHANGED <<entryTable, entries>> /\ job' = job /\ comp' = comp /\ pc # "data"
      /\ pc' = "eraseTable" /\ loc'.pg = p /\ loc'.tbl = tbl
  BY <1>1 DEF EraseAllPage, IInv, RamOK, Locals, flash
<1>3. \A e \in Entries : tbl[e] = ES_WRITTEN => entryTable[p][e] = ES_WRITTEN
  BY NorEntries DEF eraseNamespace
<1> HIDE DEF tbl
<1>4. PICK u : u = tbl
  OBVIOUS
<1> QED BY <1>2, <1>3, <1>4, ErasingWhole

(* compactPage reads an item to move: it is a whole item, or a data entry   *)
(* that is taken for an item of one entry.                                  *)
LEMMA CompactPageMoveWhole == IInv /\ WInv /\ CompactPageMove => WInv'
<1> SUFFICES ASSUME IInv, WInv, CompactPageMove PROVE WInv'
  OBVIOUS
<1> DEFINE least == CHOOSE e \in toMove : \A f \in toMove : e =< f
<1>1. least \in toMove
  <2>1. toMove \in SUBSET Nat /\ toMove # {}
    BY Indices DEF toMove, CompactPageMove
  <2>2. \E n \in toMove : \A f \in toMove : n =< f
    BY <2>1, LeastOf
  <2> QED BY <2>2
<1>2. PICK e \in Entries : e = least
  BY <1>1 DEF toMove
<1>3. PICK src \in Pages : src = frame.src
  BY FrameOK DEF CompactPageMove
<1> DEFINE hdr == entries[src][e]
           span == SpanOf(hdr.span)
           cells == [i \in 1 .. span - 1 |->
                        IF e + i \in Entries THEN entries[src][e + i] ELSE Blank]
<1>4. /\ job' = [hdr |-> hdr, span |-> span, cells |-> cells]
      /\ comp' = [comp EXCEPT ![1].next = e + 1] /\ pc = "compact" /\ pc' = "write"
      /\ UNCHANGED <<entryTable, entries>>
  BY <1>2, <1>3 DEF CompactPageMove, flash
<1>5. comp \in Seq(Frames) /\ comp # <<>> /\ Len(comp) \in Nat /\ 1 \in 1 .. Len(comp)
  <2>1. comp \in Seq(Frames) /\ comp # <<>>
    BY <1>4, FrameOK
  <2> QED BY <2>1, EmptySeq, LenProperties
<1>6. frame = comp[1] /\ frame.tbl[e] = ES_WRITTEN
  <2>1. frame = comp[1]
    BY <1>5, HeadTailProperties DEF frame
  <2>2. e \in toMove
    BY <1>1, <1>2
  <2>3. frame.tbl[e] = ES_WRITTEN
    BY <2>2 DEF toMove
  <2> QED BY <2>1, <2>3
<1>7. Whole(src, e)
  BY <1>3, <1>4, <1>5, <1>6 DEF WInv, CompWhole, FrameWhole, Half
<1>8. span \in Nat /\ e \in Nat
  <2>1. span \in Nat
    BY DEF SpanOf
  <2> QED BY <2>1, Indices
<1>9. MaxDepth # 0
  BY <1>5, InputAssumption DEF WInv, CompWhole
<1>10. JobWhole(job')
  <2>1. job'.hdr = hdr /\ job'.span = span /\ job'.cells = cells
    BY <1>4
  <2>2. CASE hdr = Blank
    BY <2>1, <2>2 DEF JobWhole
  <2>3. CASE hdr # Blank
    <3>1. ASSUME NEW i \in 1 .. span - 1 PROVE DataLike(cells[i])
      <4>1. ~ DataLike(hdr)
        BY <1>8, <1>9, <3>1 DEF DataLike
      <4>2. e + i \in e + 1 .. e + span - 1
        BY <1>8
      <4>3. e + i \in Entries /\ DataLike(entries[src][e + i])
        BY <1>7, <2>3, <4>1, <4>2 DEF Whole
      <4>4. cells[i] = entries[src][e + i]
        BY <4>3
      <4> QED BY <4>3, <4>4
    <3> HIDE DEF hdr, span, cells
    <3> QED BY <2>1, <3>1 DEF JobWhole, span
  <2> QED BY <2>2, <2>3
<1> HIDE DEF hdr, span, cells
<1>11. CompWhole'
  <2>1. /\ Len(comp') = Len(comp)
        /\ \A i \in 1 .. Len(comp) : /\ comp'[i].src = comp[i].src /\ comp'[i].tbl = comp[i].tbl
                                     /\ comp'[i].job = comp[i].job
    <3>1. comp' = [comp EXCEPT ![1] = [comp[1] EXCEPT !.next = e + 1]]
      BY <1>4, <1>5
    <3>2. Len(comp') = Len(comp)
      BY <1>5, <3>1, ExceptSeq
    <3>3. comp[1] \in Frames
      BY <1>5, ElementOfSeq
    <3>4. ASSUME NEW i \in 1 .. Len(comp)
          PROVE  /\ comp'[i].src = comp[i].src /\ comp'[i].tbl = comp[i].tbl
                 /\ comp'[i].job = comp[i].job
      <4>1. comp'[i] = IF i = 1 THEN [comp[1] EXCEPT !.next = e + 1] ELSE comp[i]
        BY <1>5, <3>1
      <4>2. [comp[1] EXCEPT !.next = e + 1].src = comp[1].src
            /\ [comp[1] EXCEPT !.next = e + 1].tbl = comp[1].tbl
            /\ [comp[1] EXCEPT !.next = e + 1].job = comp[1].job
        BY <3>3 DEF Frames
      <4> QED BY <4>1, <4>2
    <3> QED BY <3>2, <3>4
  <2>2. ASSUME NEW i \in 1 .. Len(comp') PROVE FrameWhole(comp[i])'
    <3>1. i \in 1 .. Len(comp)
      BY <2>1
    <3>2. FrameWhole(comp[i])
      BY <3>1 DEF WInv, CompWhole
    <3>3. JobWhole(comp'[i].job)
      BY <2>1, <3>1, <3>2 DEF FrameWhole
    <3>4. ASSUME NEW f \in Entries, comp'[i].tbl[f] = ES_WRITTEN PROVE Whole(comp[i].src, f)'
      <4>1. Whole(comp[i].src, f)
        BY <1>4, <2>1, <3>1, <3>2, <3>4 DEF FrameWhole, Half
      <4>2. Whole(comp[i].src, f)'
        BY <1>4, <2>1, <3>1, <4>1 DEF Whole
      <4> QED BY <4>2
    <3> QED BY <3>3, <3>4 DEF FrameWhole, JobWhole
  <2>3. Len(comp') =< MaxDepth
    BY <2>1 DEF WInv, CompWhole
  <2> QED BY <2>2, <2>3 DEF CompWhole
<1>12. ASSUME NEW q, NEW f, Whole(q, f) PROVE Whole(q, f)'
  BY <1>4, <1>12 DEF Whole
<1>13. ShownWhole'
  BY <1>4, <1>12 DEF WInv, ShownWhole
<1>14. PlacedWhole' /\ JobWhole(job)'
  BY <1>4, <1>10 DEF PlacedWhole, JobWhole
<1> QED BY <1>11, <1>13, <1>14 DEF WInv

LEMMA CompactPageDoneWhole == IInv /\ WInv /\ CompactPageDone => WInv'
<1> SUFFICES ASSUME IInv, WInv, CompactPageDone PROVE WInv'
  OBVIOUS
<1>1. /\ comp' = Tail(comp) /\ pc = "compact" /\ pc' = "retry" /\ job' = frame.job
      /\ UNCHANGED <<entryTable, entries>>
  BY DEF CompactPageDone
<1>2. /\ comp \in Seq(Frames) /\ comp # <<>> /\ Len(comp) \in Nat /\ 1 \in 1 .. Len(comp)
      /\ frame = comp[1] /\ Len(comp') = Len(comp) - 1
      /\ \A i \in 1 .. Len(comp') : i + 1 \in 1 .. Len(comp) /\ comp'[i] = comp[i + 1]
  <2>1. comp \in Seq(Frames) /\ comp # <<>>
    BY <1>1, FrameOK
  <2>2. Len(comp) \in Nat /\ 1 \in 1 .. Len(comp)
    BY <2>1, EmptySeq, LenProperties
  <2> QED BY <1>1, <2>1, <2>2, HeadTailProperties DEF frame
<1>3. JobWhole(job')
  BY <1>1, <1>2 DEF WInv, CompWhole, FrameWhole
<1>4. CompWhole'
  <2>1. ASSUME NEW i \in 1 .. Len(comp') PROVE FrameWhole(comp[i])'
    <3>1. i + 1 \in 1 .. Len(comp) /\ comp'[i] = comp[i + 1]
      BY <1>2
    <3>2. FrameWhole(comp[i + 1])
      BY <3>1 DEF WInv, CompWhole
    <3>3. JobWhole(comp'[i].job)
      BY <3>1, <3>2 DEF FrameWhole
    <3>4. ASSUME NEW f \in Entries, comp'[i].tbl[f] = ES_WRITTEN PROVE Whole(comp[i].src, f)'
      <4>1. Whole(comp[i + 1].src, f)
        BY <1>1, <3>1, <3>2, <3>4 DEF FrameWhole, Half
      <4>2. Whole(comp[i].src, f)'
        BY <1>1, <3>1, <4>1 DEF Whole
      <4> QED BY <4>2
    <3> QED BY <3>3, <3>4 DEF FrameWhole, JobWhole
  <2>2. Len(comp') =< MaxDepth
    BY <1>2, InputAssumption DEF WInv, CompWhole
  <2> QED BY <2>1, <2>2 DEF CompWhole
<1>5. ASSUME NEW q, NEW f, Whole(q, f) PROVE Whole(q, f)'
  BY <1>1, <1>5 DEF Whole
<1>6. ShownWhole'
  BY <1>1, <1>5 DEF WInv, ShownWhole
<1>7. PlacedWhole' /\ JobWhole(job)'
  BY <1>1, <1>3 DEF PlacedWhole, JobWhole
<1> QED BY <1>4, <1>6, <1>7 DEF WInv

(* The calls of the application: an item that is to be written is whole.    *)
LEMMA SetWhole ==
    ASSUME NEW n, NEW typ, NEW k, NEW v, NEW span \in 1 .. 127, NEW ds \in 0 .. 127,
           span = 1 \/ ds =< 1 \/ MaxDepth = 0, Set(n, typ, k, v, span, ds)
    PROVE  JobWhole(job')
<1> DEFINE hdr == Item(handles[n], typ, k, v, span)
           cells == [i \in 1 .. span - 1 |-> DataCell(v, ds)]
<1>1. job'.hdr = hdr /\ job'.span = span /\ job'.cells = cells
  BY DEF Set
<1>2. SpanOf(hdr.span) = span
  <2>1. hdr.span = BitsOf(span)
    BY DEF Item
  <2> QED BY <2>1, Spans
<1>3. ASSUME NEW i \in 1 .. span - 1 PROVE DataLike(cells[i])
  <2>1. cells[i].key = {9} /\ cells[i].span = BitsOf(ds)
    BY DEF DataCell
  <2>2. SpanOf(BitsOf(ds)) = ds
    BY Spans
  <2>3. ds =< 1 \/ MaxDepth = 0
    OBVIOUS
  <2> HIDE DEF cells
  <2> QED BY <2>1, <2>2, <2>3 DEF DataLike
<1> HIDE DEF hdr, cells
<1> QED BY <1>1, <1>2, <1>3 DEF JobWhole

LEMMA CallsWhole == DataIsShort /\ IInv /\ WInv /\ Calls => WInv'
<1> SUFFICES ASSUME DataIsShort, IInv, WInv, Calls PROVE WInv'
  OBVIOUS
<1>1. /\ UNCHANGED <<entryTable, entries>> /\ comp' = comp /\ pc = "idle"
      /\ pc' \notin {"item", "data", "table", "eraseTable"}
  BY DEF Calls, OpenKnown, OpenNew, Get, SetU8, SetBlob, Set, EraseKey, EraseAll, FlashErase,
         Answer, mayWrite, flash
<1>2. JobWhole(job')
  <2>1. ASSUME NEW n \in Names, OpenNew(n) PROVE JobWhole(job')
    <3>1. job'.span = 1 /\ job'.hdr.span = BitsOf(1)
      BY <2>1 DEF OpenNew, Item
    <3>2. SpanOf(BitsOf(1)) = 1
      <4>1. 1 \in 0 .. 127
        OBVIOUS
      <4> QED BY <4>1, Spans
    <3> QED BY <3>1, <3>2 DEF JobWhole
  <2>2. ASSUME NEW n \in Names, NEW k \in Keys, NEW v \in Values, SetU8(n, k, v)
        PROVE  JobWhole(job')
    <3>1. 1 \in 1 .. 127 /\ 0 \in 0 .. 127
      OBVIOUS
    <3> QED BY <2>2, <3>1, SetWhole DEF SetU8
  <2>3. ASSUME NEW n \in Names, NEW k \in Keys, NEW v \in Values, NEW span \in BlobSpans,
               NEW ds \in DataSpans, SetBlob(n, k, v, span, ds)
        PROVE  JobWhole(job')
    <3>1. span \in 1 .. 127 /\ ds \in 0 .. 127
      BY InputAssumption
    <3>2. ds =< 1 \/ MaxDepth = 0
      BY <3>1 DEF DataIsShort
    <3> QED BY <2>3, <3>1, <3>2, SetWhole DEF SetBlob
  <2>4. \/ job' = job
        \/ \E n \in Names : OpenNew(n)
        \/ \E n \in Names, k \in Keys, v \in Values : SetU8(n, k, v)
        \/ \E n \in Names, k \in Keys, v \in Values, span \in BlobSpans, ds \in DataSpans :
               SetBlob(n, k, v, span, ds)
    BY DEF Calls, OpenKnown, Get, EraseKey, EraseAll, FlashErase, Answer
  <2> QED BY <2>1, <2>2, <2>3, <2>4 DEF WInv
<1> QED BY <1>1, <1>2, QuietStep

LEMMA NextWhole == DataIsShort /\ IInv /\ WInv /\ [Next]_vars => WInv'
<1> SUFFICES ASSUME DataIsShort, IInv, WInv, [Next]_vars PROVE WInv'
  OBVIOUS
<1>1. CASE UNCHANGED vars
  <2>1. UNCHANGED <<entryTable, entries, pc, loc, job, comp>>
    BY <1>1 DEF vars, flash
  <2> QED BY <2>1 DEF WInv, ShownWhole, CompWhole, PlacedWhole, FrameWhole, JobWhole, Whole,
                      Half, Region
<1>2. CASE Step
  BY <1>2, InitializePageEraseWhole, WriteItemFitsWhole, WriteItemPageFullWhole,
     WriteItemRetryWhole, WriteItemHeaderWhole, WriteItemDataWhole, WriteItemTableWhole,
     CompactPageMoveWhole, CompactPageDoneWhole, EraseOldItemPageWhole, EraseTableWordWhole,
     EraseAllPageWhole, FlashEraseSectorWhole, QuietSteps DEF Step
<1>3. CASE Boot \/ PowerLoss \/ Calls
  BY <1>3, QuietSteps, CallsWhole
<1> QED BY <1>1, <1>2, <1>3 DEF Next

(* Wherever power is lost, and however often, an item that the table shows  *)
(* under a key or a name has all its entries programmed, inside its page:   *)
(* writeItem shows an item when its data is there, and nothing that is      *)
(* programmed later takes it away.  This holds for every geometry and every *)
(* user data until a page is compacted; with compactions it holds when the  *)
(* data, read as the header of an item, has a span of 0 or 1.               *)
THEOREM VisibleItemsAreWhole == ASSUME DataIsShort PROVE Spec => []ItemsWhole
<1>1. Init => WInv
  BY InitWhole
<1>2. IInv /\ WInv /\ [Next]_vars => WInv'
  BY NextWhole
<1>3. IInv /\ WInv => ItemsWhole
  <2> SUFFICES ASSUME IInv, WInv, NEW p \in Pages, NEW e \in Entries, NEW k \in Keys \cup Names,
                      entryTable[p][e] = ES_WRITTEN,
                      entries[p][e].ns \in {{}, NewNamespaceId}, entries[p][e].key = k
               PROVE  \A f \in e .. e + SpanOf(entries[p][e].span) - 1 :
                          f \in Entries /\ entries[p][f] # Blank
    BY DEF ItemsWhole
  <2>1. entries[p][e] # Blank
    BY DEF Blank, NewNamespaceId, AllBits
  <2>2. ~ DataLike(entries[p][e])
    <3>1. k # {} /\ k # {9}
      BY InputAssumption
    <3> QED BY <3>1 DEF DataLike
  <2>3. Whole(p, e)
    BY DEF WInv, ShownWhole
  <2>4. \A f \in Entries : DataLike(entries[p][f]) => entries[p][f] # Blank
    BY DEF DataLike, Blank, AllBits
  <2>5. SpanOf(entries[p][e].span) \in Nat /\ e \in Nat
    <3>1. SpanOf(entries[p][e].span) \in Nat
      BY DEF SpanOf
    <3> QED BY <3>1, Indices
  <2>6. ASSUME NEW f \in e .. e + SpanOf(entries[p][e].span) - 1
        PROVE  f \in Entries /\ entries[p][f] # Blank
    <3>1. f = e \/ f \in e + 1 .. e + SpanOf(entries[p][e].span) - 1
      BY <2>5
    <3> QED BY <2>1, <2>2, <2>3, <2>4, <3>1 DEF Whole
  <2> QED BY <2>6
<1> QED BY <1>1, <1>2, <1>3, Invariance, PTL DEF Spec
================================================================================
