---------------------------------- MODULE Nvs ----------------------------------
(****************************************************************************)
(* The key-value store of src/nvs.nim on NOR flash.                         *)
(*                                                                          *)
(* Every flash cell is the set of its bits that are still 1: programming a  *)
(* cell intersects it with the new value, erasing a sector sets every bit.  *)
(* Keys, types, spans, values and state words are such sets.                *)
(*                                                                          *)
(* One step is one spi_flash_write or spi_flash_erase_sector with the       *)
(* computation around it, so that PowerLoss can fall between any two of     *)
(* them.  compactPage calls writeItem, which calls compactPage: the         *)
(* suspended calls are the frames of comp.                                  *)
(****************************************************************************)
EXTENDS Integers, Sequences

CONSTANTS
    NumPages,         \* NUM_PAGES
    EntriesPerPage,   \* ENTRIES_PER_PAGE
    EntriesPerByte,   \* entries described by one byte of the entry table
    BytesPerWord,     \* bytes of a word of the entry table
    TableWords,       \* words of the entry table
    CacheSize,        \* length of cacheTable
    KeyHash(_, _),    \* calculateKeyHash
    Names,            \* namespace names given to nvs_open
    Phy,              \* the namespace name "phy"
    Keys,             \* keys given to the setters and getters
    Values,           \* values given to the setters
    BlobSpans,        \* entries a string or blob takes
    DataSpans,        \* what the third byte of a data entry may read as
    Apis,             \* bound: the calls the application makes
    MaxSeq,           \* bound: no write starts once a page has this number
    MaxResets,        \* bound: power losses
    MaxDepth          \* bound: nested compactPage calls (the task's stack)

VARIABLES
    state,       \* [Pages -> bits]   page header: state word
    seqNumber,   \* [Pages -> Nat]    page header: sequence number
    dirty,       \* [Pages -> bits]   page header: dirty word
    entryTable,  \* [Pages -> [Entries -> bits]]
    entries,     \* [Pages -> [Entries -> cell]]
    cacheTable,  \* RAM: the last known address of a key
    handles,     \* RAM: namespace index each client got from nvs_open
    pc,          \* RAM: the flash operation the current call does next
    op,          \* RAM: the call being served
    job,         \* RAM: arguments of the running writeItem
    loc,         \* RAM: locals of the running procedure
    comp,        \* RAM: writeItem calls suspended in compactPage
    ret,         \* RAM: what the last call returned
    resets       \* power losses so far

flash == <<state, seqNumber, dirty, entryTable, entries>>
vars == <<flash, cacheTable, handles, pc, op, job, loc, comp, ret, resets>>

Pages   == 0 .. NumPages - 1
Entries == 0 .. EntriesPerPage - 1
AllBits == 0 .. 9

ASSUME GeometryAssumption ==
    /\ NumPages \in Nat /\ NumPages >= 2
    /\ EntriesPerPage \in 1 .. 126
    /\ EntriesPerByte \in Nat \ {0}
    /\ BytesPerWord \in Nat \ {0}
    /\ TableWords \in Nat \ {0}
    /\ EntriesPerPage =< EntriesPerByte * BytesPerWord * TableWords

ASSUME InputAssumption ==
    /\ Keys \subseteq SUBSET AllBits /\ Values \subseteq SUBSET AllBits
    /\ {} \notin Keys \cup Names /\ {9} \notin Keys \cup Names
    /\ BlobSpans \subseteq 2 .. 127 /\ DataSpans \subseteq 0 .. 127
    /\ Phy \in SUBSET AllBits /\ Names \subseteq SUBSET AllBits
    /\ CacheSize \in Nat \ {0} /\ MaxSeq \in Nat
    /\ MaxResets \in Nat /\ MaxDepth \in Nat
    /\ \A ns, key \in SUBSET AllBits : KeyHash(ns, key) \in Nat

--------------------------------------------------------------------------------
(* PageState and EntryState: each state clears one more bit.                *)
PS_UNINITIALIZED == {0, 1}
PS_ACTIVE        == {1}
PS_FULL          == {}

ES_EMPTY   == {0, 1}
ES_WRITTEN == {1}
ES_ERASED  == {}

Clean == {0}
Dirty == {}

(* ItemType: the types that differ in what the code does with them.         *)
T_U8   == {0}
T_BLOB == {0, 6}
T_ANY  == AllBits

(* spi_flash_write on a word: bits are only cleared.                        *)
Nor(old, new) == old \cap new

Cell == [ns : SUBSET AllBits, typ : SUBSET AllBits, span : SUBSET AllBits,
         key : SUBSET AllBits, val : SUBSET AllBits]

NorCell(old, new) ==
    [ns |-> old.ns \cap new.ns, typ |-> old.typ \cap new.typ, span |-> old.span \cap new.span,
     key |-> old.key \cap new.key, val |-> old.val \cap new.val]

Blank == [ns |-> AllBits, typ |-> AllBits, span |-> AllBits, key |-> AllBits, val |-> AllBits]

(* The span byte, in seven bits: an erased one reads as 127 (255 in the     *)
(* code), which never fits a page.                                          *)
SpanOf(bits) ==
    LET bit(i, n) == IF i \in bits THEN n ELSE 0
    IN bit(0, 1) + bit(1, 2) + bit(2, 4) + bit(3, 8) + bit(4, 16) + bit(5, 32) + bit(6, 64)
BitsOf(n) == CHOOSE b \in SUBSET (0 .. 6) : SpanOf(b) = n

Item(ns, typ, key, val, span) ==
    [ns |-> ns, typ |-> typ, span |-> BitsOf(span), key |-> key, val |-> val]

(* An entry of user data behind an item header.  Read as a header it        *)
(* matches no namespace; its span byte is whatever the user stored.         *)
DataCell(val, ds) ==
    [ns |-> {9}, typ |-> {9}, span |-> BitsOf(ds), key |-> {9}, val |-> val]

--------------------------------------------------------------------------------
(* The RAM cache.                                                           *)
NoAddress == <<>>
cacheZero == [i \in 0 .. CacheSize - 1 |-> [hash |-> 0, address |-> NoAddress]]

cacheIdx(ns, key) == KeyHash(ns, key) % CacheSize

updateCache(ct, ns, key, address) ==
    [ct EXCEPT ![cacheIdx(ns, key)] = [hash |-> KeyHash(ns, key), address |-> address]]

invalidateCache(ct, ns, key) ==
    IF ct[cacheIdx(ns, key)].hash = KeyHash(ns, key)
    THEN [ct EXCEPT ![cacheIdx(ns, key)].address = NoAddress]
    ELSE ct

getFromCache(ns, key) ==
    IF cacheTable[cacheIdx(ns, key)].hash = KeyHash(ns, key)
    THEN cacheTable[cacheIdx(ns, key)].address
    ELSE NoAddress

--------------------------------------------------------------------------------
(* Searches over the flash.                                                 *)
ActivePages == {p \in Pages : state[p] = PS_ACTIVE}
UninitPages == {p \in Pages : state[p] = PS_UNINITIALIZED}

(* The active page with the highest sequence number, else the first         *)
(* uninitialized page with the number 0, else -1.                           *)
findActivePage ==
    IF ActivePages # {}
    THEN LET p == CHOOSE p \in ActivePages : \A q \in ActivePages :
                      \/ seqNumber[q] < seqNumber[p]
                      \/ seqNumber[q] = seqNumber[p] /\ q =< p
         IN <<p, seqNumber[p]>>
    ELSE IF UninitPages # {}
    THEN <<CHOOSE p \in UninitPages : \A q \in UninitPages : p =< q, 0>>
    ELSE <<-1, 0>>

typeMatches(typ, cell) == typ = T_ANY \/ cell.typ = typ
keyMatches(ns, key, cell) == cell.ns = ns /\ cell.key = key

cacheHit(ns, typ, key) ==
    LET a == getFromCache(ns, key)
    IN a # NoAddress /\ LET cell == entries[a[1]][a[2]]
                        IN keyMatches(ns, key, cell) /\ typeMatches(typ, cell)

(* Entries the scan of findItem stops at, in flash order.                   *)
scanned(ns, key) ==
    {a \in Pages \X Entries : /\ state[a[1]] # PS_UNINITIALIZED
                              /\ entryTable[a[1]][a[2]] = ES_WRITTEN
                              /\ keyMatches(ns, key, entries[a[1]][a[2]])}
firstOf(S) == CHOOSE a \in S : \A b \in S : a[1] < b[1] \/ (a[1] = b[1] /\ a[2] =< b[2])

(* The address findItem finds, or NoAddress for NOT_FOUND and TYPE_MISMATCH.*)
findItem(ns, typ, key) ==
    IF cacheHit(ns, typ, key) THEN getFromCache(ns, key)
    ELSE IF /\ scanned(ns, key) # {}
            /\ LET a == firstOf(scanned(ns, key)) IN typeMatches(typ, entries[a[1]][a[2]])
    THEN firstOf(scanned(ns, key))
    ELSE NoAddress

(* What a getter copies out: the values of the item's entries.              *)
readItem(a) ==
    {entries[a[1]][e].val : e \in a[2] .. a[2] + SpanOf(entries[a[1]][a[2]].span) - 1}

(* First run of span empty entries, or -1.                                  *)
findConsecutiveEntries(table, span) ==
    LET fits == {t \in Entries : /\ t + span =< EntriesPerPage
                                 /\ \A s \in t .. t + span - 1 : table[s] = ES_EMPTY}
    IN IF fits = {} THEN -1 ELSE CHOOSE t \in fits : \A u \in fits : t =< u

setEntries(table, first, span, es) ==
    [e \in Entries |-> IF e \in first .. first + span - 1 THEN es ELSE table[e]]

(* The entries of a word of the entry table, as the flash lays them out.    *)
wordEntries(w) == {e \in Entries : e \div (EntriesPerByte * BytesPerWord) = w}

norWord(table, w, new) ==
    [e \in Entries |-> IF e \in wordEntries(w) THEN Nor(table[e], new[e]) ELSE table[e]]

--------------------------------------------------------------------------------
NoJob == [hdr |-> Blank, span |-> 0, cells |-> <<>>]
NoLoc == [pg |-> 0, maxSeq |-> 0, then |-> "idle", target |-> 0, tbl |-> <<>>, word |-> 0]
NoOp  == [api |-> "none", name |-> {}, ns |-> {}, typ |-> {}, key |-> {}]
NoHandle == AllBits
NoReturn == [call |-> NoOp, res |-> "none", val |-> {}]

erasedTable == [e \in Entries |-> ES_EMPTY]

Init ==
    /\ state = [p \in Pages |-> PS_UNINITIALIZED]
    /\ seqNumber = [p \in Pages |-> 0]
    /\ dirty = [p \in Pages |-> Clean]
    /\ entryTable = [p \in Pages |-> erasedTable]
    /\ entries = [p \in Pages |-> [e \in Entries |-> Blank]]
    /\ cacheTable = cacheZero
    /\ handles = [n \in Names |-> NoHandle]
    /\ pc = "off"
    /\ op = NoOp /\ job = NoJob /\ loc = NoLoc /\ comp = <<>>
    /\ ret = NoReturn /\ resets = 0

(* RAM after a reset: the flash is all that stays.                          *)
Reset ==
    /\ pc' = "off"
    /\ cacheTable' = cacheZero
    /\ handles' = [n \in Names |-> NoHandle]
    /\ op' = NoOp /\ job' = NoJob /\ loc' = NoLoc /\ comp' = <<>>
    /\ ret' = NoReturn

(* A call returns to the application.                                       *)
Return(res, val) ==
    /\ pc' = "idle"
    /\ ret' = [call |-> op, res |-> res, val |-> val]
    /\ op' = NoOp /\ job' = NoJob /\ loc' = NoLoc

(* A call that does all its work in one step.                               *)
Answer(call, res, val) ==
    /\ ret' = [call |-> call, res |-> res, val |-> val]
    /\ UNCHANGED <<flash, pc, op, job, loc, comp, resets>>

--------------------------------------------------------------------------------
(* initializePage: erase the sector of loc.pg, then write its header.  The  *)
(* entry table it writes last is all ones.                                  *)
eraseSector(p) ==
    /\ state' = [state EXCEPT ![p] = PS_UNINITIALIZED]
    /\ seqNumber' = [seqNumber EXCEPT ![p] = 0]
    /\ dirty' = [dirty EXCEPT ![p] = Clean]
    /\ entryTable' = [entryTable EXCEPT ![p] = erasedTable]
    /\ entries' = [entries EXCEPT ![p] = [e \in Entries |-> Blank]]

InitializePageErase ==
    /\ pc = "initErase"
    /\ eraseSector(loc.pg)
    /\ pc' = "initHeader"
    /\ UNCHANGED <<cacheTable, handles, op, job, loc, comp, ret, resets>>

InitializePageHeader ==
    /\ pc = "initHeader"
    /\ state' = [state EXCEPT ![loc.pg] = Nor(@, PS_ACTIVE)]
    /\ seqNumber' = [seqNumber EXCEPT ![loc.pg] = loc.maxSeq + 1]
    /\ pc' = loc.then
    /\ UNCHANGED <<dirty, entryTable, entries, cacheTable, handles, op, job, loc, comp, ret, resets>>

--------------------------------------------------------------------------------
(* writeItem of job.                                                        *)
WriteItemStart ==
    /\ pc = "write"
    /\ LET found == findActivePage
           pg == IF found[1] = -1 THEN 0 ELSE found[1]
       IN /\ loc' = [NoLoc EXCEPT !.pg = pg, !.maxSeq = found[2], !.then = "fit"]
          /\ pc' = IF found[1] = -1 \/ state[pg] = PS_UNINITIALIZED THEN "initErase" ELSE "fit"
    /\ UNCHANGED <<flash, cacheTable, handles, op, job, comp, ret, resets>>

place(t) ==
    /\ loc' = [loc EXCEPT !.target = t,
                          !.tbl = setEntries(entryTable[loc.pg], t, job.span, ES_WRITTEN)]
    /\ pc' = "item"

WriteItemFits ==
    /\ pc = "fit"
    /\ findConsecutiveEntries(entryTable[loc.pg], job.span) # -1
    /\ place(findConsecutiveEntries(entryTable[loc.pg], job.span))
    /\ UNCHANGED <<flash, cacheTable, handles, op, job, comp, ret, resets>>

nextPage(p) == (p + 1) % NumPages

(* Slip: the full page is not marked before the next one is initialized.    *)
WriteItemPageFull_unmarked ==
    /\ pc = "fit"
    /\ findConsecutiveEntries(entryTable[loc.pg], job.span) = -1
    /\ state[nextPage(loc.pg)] = PS_UNINITIALIZED
    /\ loc' = [loc EXCEPT !.pg = nextPage(loc.pg), !.then = "retry"]
    /\ pc' = "initErase"
    /\ UNCHANGED <<flash, cacheTable, handles, op, job, comp, ret, resets>>

(* markPageFull, then the next page: initialized if it never was, else      *)
(* compacted into the page behind it.                                       *)
WriteItemPageFull ==
    /\ pc = "fit"
    /\ findConsecutiveEntries(entryTable[loc.pg], job.span) = -1
    /\ LET nx == nextPage(loc.pg)
       IN /\ state' = [state EXCEPT ![loc.pg] = Nor(@, PS_FULL)]
          /\ \/ /\ state[nx] = PS_UNINITIALIZED
                /\ loc' = [loc EXCEPT !.pg = nx, !.then = "retry"]
                /\ UNCHANGED comp
             \/ /\ state[nx] # PS_UNINITIALIZED
                /\ Len(comp) < MaxDepth
                /\ loc' = [loc EXCEPT !.pg = nextPage(nx), !.then = "compact"]
                /\ comp' = <<[src |-> nx, clean |-> dirty[nx] = Clean, next |-> 0,
                              tbl |-> entryTable[nx], job |-> job]>> \o comp
    /\ pc' = "initErase"
    /\ UNCHANGED <<seqNumber, dirty, entryTable, entries, cacheTable, handles, op, job, ret, resets>>

(* writeItem returns: to the loop of compactPage, or to the caller.         *)
WriteItemReturn(res, val) ==
    IF comp # <<>>
    THEN pc' = "compact" /\ UNCHANGED <<op, job, loc, ret>>
    ELSE Return(res, val)

WriteItemRetry ==
    /\ pc = "retry"
    /\ LET t == findConsecutiveEntries(entryTable[loc.pg], job.span)
       IN IF t = -1
          THEN WriteItemReturn("NO_FREE_PAGES", {})
          ELSE place(t) /\ UNCHANGED <<op, job, ret>>
    /\ UNCHANGED <<flash, cacheTable, handles, comp, resets>>

(* Slip: the table is written before the data entries.                      *)
WriteItemHeader_tableFirst ==
    /\ pc = "item"
    /\ entries' = [entries EXCEPT ![loc.pg][loc.target] = NorCell(@, job.hdr)]
    /\ pc' = "table"
    /\ loc' = [loc EXCEPT !.word = loc.target \div EntriesPerByte]
    /\ UNCHANGED <<state, seqNumber, dirty, entryTable, cacheTable, handles, op, job, comp, ret, resets>>

(* Program the header entry, then the data entries behind it.               *)
WriteItemHeader ==
    /\ pc = "item"
    /\ entries' = [entries EXCEPT ![loc.pg][loc.target] = NorCell(@, job.hdr)]
    /\ pc' = IF job.span > 1 THEN "data" ELSE "table"
    /\ loc' = [loc EXCEPT !.word = loc.target \div EntriesPerByte]
    /\ UNCHANGED <<state, seqNumber, dirty, entryTable, cacheTable, handles, op, job, comp, ret, resets>>

WriteItemData ==
    /\ pc = "data"
    /\ entries' = [entries EXCEPT ![loc.pg] =
            [e \in Entries |-> IF e \in loc.target + 1 .. loc.target + job.span - 1
                               THEN NorCell(@[e], job.cells[e - loc.target])
                               ELSE @[e]]]
    /\ pc' = "table"
    /\ UNCHANGED <<state, seqNumber, dirty, entryTable, cacheTable, handles, op, job, loc, comp, ret, resets>>

(* The table words from startWord to endWord, which the code computes from  *)
(* the entries of a byte; a word past the table is an IndexDefect.          *)
endWord == (loc.target + job.span - 1) \div EntriesPerByte

WriteItemTable ==
    /\ pc = "table" /\ loc.word < TableWords
    /\ entryTable' = [entryTable EXCEPT ![loc.pg] = norWord(@, loc.word, loc.tbl)]
    /\ IF loc.word < endWord
       THEN /\ loc' = [loc EXCEPT !.word = @ + 1]
            /\ UNCHANGED <<cacheTable, handles, pc, op, job, ret>>
       ELSE /\ cacheTable' = updateCache(cacheTable, job.hdr.ns, job.hdr.key, <<loc.pg, loc.target>>)
            /\ handles' = IF comp = <<>> /\ op.api = "open"
                          THEN [handles EXCEPT ![op.name] = job.hdr.val] ELSE handles
            /\ WriteItemReturn("OK", {job.hdr.val})
    /\ UNCHANGED <<state, seqNumber, dirty, entries, comp, resets>>

--------------------------------------------------------------------------------
(* compactPage: the loop over the entries of src that its copy of the       *)
(* table shows as written; src is read again for each of them.              *)
frame == Head(comp)
toMove == IF frame.clean THEN {}
          ELSE {e \in Entries : e >= frame.next /\ frame.tbl[e] = ES_WRITTEN}

CompactPageMove ==
    /\ pc = "compact" /\ toMove # {}
    /\ LET e == CHOOSE e \in toMove : \A f \in toMove : e =< f
           hdr == entries[frame.src][e]
           span == SpanOf(hdr.span)
       IN /\ span > 0
          /\ job' = [hdr |-> hdr, span |-> span,
                     cells |-> [i \in 1 .. span - 1 |->
                                   IF e + i \in Entries THEN entries[frame.src][e + i] ELSE Blank]]
          /\ comp' = [comp EXCEPT ![1].next = e + 1]
    /\ pc' = "write"
    /\ UNCHANGED <<flash, cacheTable, handles, op, loc, ret, resets>>

(* The state word 0xffffffff is programmed over src; the suspended          *)
(* writeItem goes on with the page findActivePage finds.                    *)
CompactPageDone ==
    /\ pc = "compact" /\ toMove = {}
    /\ state' = [state EXCEPT ![frame.src] = Nor(@, PS_UNINITIALIZED)]
    /\ job' = frame.job
    /\ loc' = [NoLoc EXCEPT !.pg = findActivePage[1], !.maxSeq = findActivePage[2]]
    /\ comp' = Tail(comp)
    /\ pc' = "retry"
    /\ UNCHANGED <<seqNumber, dirty, entryTable, entries, cacheTable, handles, op, ret, resets>>

--------------------------------------------------------------------------------
(* eraseOldItem(op.ns, op.typ, op.key): the table of a page after the loop  *)
(* over its entries.                                                        *)
eraseOld(p, ns, typ, key) ==
    LET old == {h \in Entries : /\ entryTable[p][h] = ES_WRITTEN
                                /\ keyMatches(ns, key, entries[p][h])
                                /\ typeMatches(typ, entries[p][h])}
    IN [e \in Entries |-> IF \E h \in old : e \in h .. h + SpanOf(entries[p][h].span) - 1
                          THEN ES_ERASED ELSE entryTable[p][e]]

eraseNamespace(p, ns) ==
    [e \in Entries |-> IF entryTable[p][e] = ES_WRITTEN /\ entries[p][e].ns = ns
                       THEN ES_ERASED ELSE entryTable[p][e]]

leastPage(S) == CHOOSE p \in S : \A q \in S : p =< q

(* Slip: only the active page is searched for the old item.                 *)
pagesWithOld_activeOnly ==
    {p \in ActivePages : p >= loc.pg /\ eraseOld(p, op.ns, op.typ, op.key) # entryTable[p]}

pagesWithOld ==
    {p \in Pages : p >= loc.pg /\ eraseOld(p, op.ns, op.typ, op.key) # entryTable[p]}

(* A page that holds the key: markPageDirty and invalidateCache.            *)
EraseOldItemPage ==
    /\ pc = "eraseOld" /\ pagesWithOld # {}
    /\ LET p == leastPage(pagesWithOld)
       IN /\ dirty' = [dirty EXCEPT ![p] = Nor(@, Dirty)]
          /\ loc' = [loc EXCEPT !.pg = p, !.tbl = eraseOld(p, op.ns, op.typ, op.key),
                                !.word = 0, !.then = "eraseOld"]
    /\ cacheTable' = invalidateCache(cacheTable, op.ns, op.key)
    /\ pc' = "eraseTable"
    /\ UNCHANGED <<state, seqNumber, entryTable, entries, handles, op, job, comp, ret, resets>>

(* The setters go on to writeItem, nvs_erase_key is done.                   *)
EraseOldItemDone ==
    /\ pc = "eraseOld" /\ pagesWithOld = {}
    /\ IF op.api = "set"
       THEN pc' = "write" /\ loc' = NoLoc /\ UNCHANGED <<op, job, ret>>
       ELSE Return("OK", {})
    /\ UNCHANGED <<flash, cacheTable, handles, comp, resets>>

(* Slip: the loop over the words does not advance.                          *)
EraseTableWord_stuck ==
    /\ pc = "eraseTable"
    /\ entryTable' = [entryTable EXCEPT ![loc.pg] = norWord(@, loc.word, loc.tbl)]
    /\ UNCHANGED <<state, seqNumber, dirty, entries, cacheTable, handles, pc, op, job, loc, comp, ret, resets>>

(* One of the words of the entry table that the erasing loops write back.   *)
EraseTableWord ==
    /\ pc = "eraseTable"
    /\ entryTable' = [entryTable EXCEPT ![loc.pg] = norWord(@, loc.word, loc.tbl)]
    /\ IF loc.word < TableWords - 1
       THEN loc' = [loc EXCEPT !.word = @ + 1] /\ UNCHANGED pc
       ELSE loc' = [NoLoc EXCEPT !.pg = loc.pg + 1] /\ pc' = loc.then
    /\ UNCHANGED <<state, seqNumber, dirty, entries, cacheTable, handles, op, job, comp, ret, resets>>

pagesOfNamespace == {p \in Pages : p >= loc.pg /\ eraseNamespace(p, op.ns) # entryTable[p]}

EraseAllPage ==
    /\ pc = "eraseAll" /\ pagesOfNamespace # {}
    /\ LET p == leastPage(pagesOfNamespace)
       IN loc' = [loc EXCEPT !.pg = p, !.tbl = eraseNamespace(p, op.ns),
                             !.word = 0, !.then = "eraseAll"]
    /\ pc' = "eraseTable"
    /\ UNCHANGED <<flash, cacheTable, handles, op, job, comp, ret, resets>>

EraseAllDone ==
    /\ pc = "eraseAll" /\ pagesOfNamespace = {}
    /\ Return("OK", {})
    /\ UNCHANGED <<flash, cacheTable, handles, comp, resets>>

(* Slip: the loop over the pages runs one page too far.                     *)
FlashEraseSector_oneMore ==
    /\ pc = "flashErase"
    /\ eraseSector(loc.pg)
    /\ IF loc.pg < NumPages
       THEN loc' = [loc EXCEPT !.pg = @ + 1] /\ UNCHANGED <<pc, op, job, ret>>
       ELSE Return("OK", {})
    /\ UNCHANGED <<cacheTable, handles, comp, resets>>

FlashEraseSector ==
    /\ pc = "flashErase"
    /\ eraseSector(loc.pg)
    /\ IF loc.pg < NumPages - 1
       THEN loc' = [loc EXCEPT !.pg = @ + 1] /\ UNCHANGED <<pc, op, job, ret>>
       ELSE Return("OK", {})
    /\ UNCHANGED <<cacheTable, handles, comp, resets>>

--------------------------------------------------------------------------------
(* The calls of the application.                                            *)
call(api, name, ns, typ, key) ==
    [api |-> api, name |-> name, ns |-> ns, typ |-> typ, key |-> key]

mayWrite == pc = "idle" /\ \A p \in Pages : seqNumber[p] < MaxSeq

(* Reset vector: nvs_flash_init.                                            *)
Boot ==
    /\ pc = "off"
    /\ pc' = IF findActivePage[1] = -1 THEN "initErase" ELSE "idle"
    /\ loc' = NoLoc
    /\ UNCHANGED <<flash, cacheTable, handles, op, job, comp, ret, resets>>

(* Every namespace the store has not seen gets the index 10.                *)
NewNamespaceId == {1, 3}

OpenKnown(n) ==
    /\ pc = "idle" /\ handles[n] = NoHandle
    /\ n = Phy \/ findItem({}, T_U8, n) # NoAddress
    /\ LET a == findItem({}, T_U8, n)
           ns == IF n = Phy THEN {} ELSE entries[a[1]][a[2]].val
       IN /\ handles' = [handles EXCEPT ![n] = ns]
          /\ cacheTable' = IF n = Phy THEN cacheTable ELSE updateCache(cacheTable, {}, n, a)
          /\ Answer(call("open", n, {}, T_U8, n), "OK", {ns})

OpenNew(n) ==
    /\ mayWrite /\ handles[n] = NoHandle /\ n # Phy
    /\ findItem({}, T_U8, n) = NoAddress
    /\ op' = call("open", n, {}, T_U8, n)
    /\ job' = [hdr |-> Item({}, T_U8, n, NewNamespaceId, 1), span |-> 1, cells |-> <<>>]
    /\ pc' = "write"
    /\ ret' = NoReturn
    /\ UNCHANGED <<flash, cacheTable, handles, loc, comp, resets>>

Get(n, typ, k) ==
    /\ pc = "idle" /\ handles[n] # NoHandle
    /\ LET ns == handles[n]
           a == findItem(ns, typ, k)
       IN IF a = NoAddress
          THEN Answer(call("get", n, ns, typ, k), "NOT_FOUND", {}) /\ UNCHANGED cacheTable
          ELSE /\ Answer(call("get", n, ns, typ, k), "OK", readItem(a))
               /\ cacheTable' = updateCache(cacheTable, ns, k, a)
    /\ UNCHANGED <<handles, resets>>

Set(n, typ, k, v, span, ds) ==
    /\ mayWrite /\ handles[n] # NoHandle
    /\ op' = call("set", n, handles[n], typ, k)
    /\ job' = [hdr |-> Item(handles[n], typ, k, v, span), span |-> span,
               cells |-> [i \in 1 .. span - 1 |-> DataCell(v, ds)]]
    /\ pc' = "eraseOld"
    /\ ret' = NoReturn
    /\ UNCHANGED <<flash, cacheTable, handles, loc, comp, resets>>

SetU8(n, k, v) == Set(n, T_U8, k, v, 1, 0)
SetBlob(n, k, v, span, ds) == Set(n, T_BLOB, k, v, span, ds)

EraseKey(n, k) ==
    /\ pc = "idle" /\ handles[n] # NoHandle
    /\ op' = call("erase_key", n, handles[n], T_ANY, k)
    /\ pc' = "eraseOld"
    /\ ret' = NoReturn
    /\ UNCHANGED <<flash, cacheTable, handles, job, loc, comp, resets>>

EraseAll(n) ==
    /\ pc = "idle" /\ handles[n] # NoHandle
    /\ op' = call("erase_all", n, handles[n], T_ANY, {})
    /\ pc' = "eraseAll"
    /\ ret' = NoReturn
    /\ UNCHANGED <<flash, cacheTable, handles, job, loc, comp, resets>>

FlashErase ==
    /\ pc = "idle"
    /\ op' = call("flash_erase", {}, {}, T_ANY, {})
    /\ pc' = "flashErase"
    /\ ret' = NoReturn
    /\ UNCHANGED <<flash, cacheTable, handles, job, loc, comp, resets>>

--------------------------------------------------------------------------------
(* Power fails, or the chip is reset, before any flash operation.           *)
PowerLoss ==
    /\ pc # "off" /\ resets < MaxResets
    /\ Reset
    /\ resets' = resets + 1
    /\ UNCHANGED flash

(* A Nim defect in the middle of a call: an index past the entry table, or  *)
(* a moved item of span 0 (a negative length).  The chip restarts.          *)
Defect ==
    /\ \/ pc = "table" /\ loc.word >= TableWords
       \/ pc = "compact" /\ toMove # {}
            /\ SpanOf(entries[frame.src][CHOOSE e \in toMove : \A f \in toMove : e =< f].span) = 0
    /\ Reset
    /\ UNCHANGED <<flash, resets>>

Step ==
    \/ InitializePageErase \/ InitializePageHeader
    \/ WriteItemStart \/ WriteItemFits \/ WriteItemPageFull \/ WriteItemRetry
    \/ WriteItemHeader \/ WriteItemData \/ WriteItemTable
    \/ CompactPageMove \/ CompactPageDone
    \/ EraseOldItemPage \/ EraseOldItemDone \/ EraseTableWord
    \/ EraseAllPage \/ EraseAllDone \/ FlashEraseSector
    \/ Defect

Calls ==
    \/ \E n \in Names : OpenKnown(n) \/ OpenNew(n) \/ ("erase_all" \in Apis /\ EraseAll(n))
    \/ \E n \in Names, k \in Keys :
            \/ Get(n, T_U8, k) \/ Get(n, T_BLOB, k)
            \/ "erase_key" \in Apis /\ EraseKey(n, k)
    \/ \E n \in Names, k \in Keys, v \in Values : SetU8(n, k, v)
    \/ \E n \in Names, k \in Keys, v \in Values, span \in BlobSpans, ds \in DataSpans :
            SetBlob(n, k, v, span, ds)
    \/ "flash_erase" \in Apis /\ FlashErase

Next == Boot \/ Calls \/ Step \/ PowerLoss

(* A call that has been made runs: the processor executes it.               *)
Spec == Init /\ [][Next]_vars /\ WF_vars(Step)

--------------------------------------------------------------------------------
(* Types of the flash image and of the page index of the running procedure. *)
TypeOK ==
    /\ state \in [Pages -> {PS_UNINITIALIZED, PS_ACTIVE, PS_FULL}]
    /\ seqNumber \in [Pages -> Nat]
    /\ dirty \in [Pages -> {Clean, Dirty}]
    /\ entryTable \in [Pages -> [Entries -> {ES_EMPTY, ES_WRITTEN, ES_ERASED}]]
    /\ entries \in [Pages -> [Entries -> Cell]]
    /\ pc \in {"off", "idle", "initErase", "initHeader", "write", "fit", "retry", "item", "data",
               "table", "compact", "eraseOld", "eraseAll", "eraseTable", "flashErase"}
    /\ loc.pg \in Pages \/ (loc.pg = NumPages /\ pc \in {"eraseOld", "eraseAll"})

(* findActivePage takes the page to append to from the headers alone, and   *)
(* its callers never look for a second active page: at every step of every  *)
(* call, and wherever power is lost, at most one page is in state ACTIVE    *)
(* (writeItem, markPageFull, compactPage, initializePage).                  *)
AtMostOneActive == \A p, q \in ActivePages : p = q

(* writeItem programs an item before the table shows it: wherever power is  *)
(* lost, an item visible in the table has all its entries on the flash,     *)
(* inside its page.                                                         *)
ItemsWhole ==
    \A p \in Pages, e \in Entries, k \in Keys \cup Names :
        LET cell == entries[p][e]
        IN (/\ entryTable[p][e] = ES_WRITTEN
            /\ cell.ns \in {{}, NewNamespaceId} /\ cell.key = k)
           => \A f \in e .. e + SpanOf(cell.span) - 1 : f \in Entries /\ entries[p][f] # Blank

copies(ns, typ, k) ==
    {a \in Pages \X Entries : /\ entryTable[a[1]][a[2]] = ES_WRITTEN
                              /\ keyMatches(ns, k, entries[a[1]][a[2]])
                              /\ entries[a[1]][a[2]].typ = typ}

(* eraseOldItem erases every copy of a key, compaction may leave several:   *)
(* without power loss all visible copies of a key hold the same value, so   *)
(* that findItem may return any of them.                                    *)
CopiesAgree ==
    \A ns \in {{}, NewNamespaceId}, typ \in {T_U8, T_BLOB}, k \in Keys :
        \A a, b \in copies(ns, typ, k) : entries[a[1]][a[2]].val = entries[b[1]][b[2]].val

(* Every call that starts returns, or ends in a reset: writeItem and        *)
(* compactPage, which call each other, do not recurse for ever (a call that *)
(* needs more than MaxDepth nested compactions would be stuck here).        *)
CallsReturn == (pc \notin {"idle", "off"}) ~> (pc \in {"idle", "off"})
================================================================================
