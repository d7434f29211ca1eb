------------------------------ MODULE Memblock ------------------------------
(***************************************************************************)
(* modules/ion/memblock.c, the logical memory block table: two sorted      *)
(* tables of regions, "memory" and "reserved", that are merged, split and  *)
(* searched, and grow by doubling.  Addresses are counted in pages; a page *)
(* is also the unit of alignment.                                          *)
(***************************************************************************)
EXTENDS Integers, Sequences, SequencesExt, FiniteSets, FiniteSetsExt

CONSTANTS
    Top,            \* addresses are 0 .. Top - 1
    InitRegions,    \* INIT_MEMBLOCK_REGIONS
    WordSize,       \* phys_addr_t counts modulo WordSize
    Asked,          \* the ranges <<base, size>> callers name
    Abutting        \* TRUE: callers also take out ranges that are not in the
                    \* table and end where a region of it begins

Pages == 0 .. Top - 1
Ranges == {r \in Pages \X (1 .. Top) : r[1] + r[2] <= Top}

ASSUME MemblockAssumption ==
    /\ Top \in Nat \ {0, 1} /\ InitRegions \in Nat \ {0, 1}
    /\ WordSize \in Nat /\ WordSize > 2 * Top
    /\ Asked \subseteq Ranges /\ Abutting \in BOOLEAN

VARIABLES
    mb,      \* struct memblock: both tables, the limit, memory_can_resize
    slab,    \* slab_is_available()
    stuck    \* "no", or what stopped the caller: "bug", "panic", "loop";
             \* "deep" if calls nested further than the model follows them

memblockVars == <<mb, slab, stuck>>

Types == {"memory", "reserved"}
Error == 0                     \* MEMBLOCK_ERROR
Anywhere == WordSize - 1       \* MEMBLOCK_ALLOC_ANYWHERE
Accessible == 0                \* MEMBLOCK_ALLOC_ACCESSIBLE
PageSize == 1

Region(base, size) == [base |-> base, size |-> size]
Filler == Region(0, 0)         \* the dummy that stands for an empty table
End(r) == LET sum == r.base + r.size IN IF sum >= WordSize THEN sum - WordSize ELSE sum
Minus(a, b) == IF a >= b THEN a - b ELSE a - b + WordSize

AlignDown(addr, align) == addr - (addr % align)
AlignUp(addr, align) == AlignDown(addr + align - 1, align)

(* What n turns of a loop make of s.                                       *)
Iterate(turn, s, n) ==
    LET after[k \in 0 .. n] == IF k = 0 THEN s ELSE turn[after[k - 1]] IN after[n]

Regions == Seq([base : Nat, size : Nat])

-----------------------------------------------------------------------------
(* Reading the tables.                                                     *)

MutHits(regions, base, size) ==
    {i \in 1 .. Len(regions) : base <= End(regions[i]) /\ regions[i].base <= base + size}

Hits(regions, base, size) ==
    {i \in 1 .. Len(regions) : base < End(regions[i]) /\ regions[i].base < base + size}

(* memblock_overlaps_region: the first region hit, 0 when there is none.   *)
OverlapsRegion(regions, base, size) ==
    LET hits == Hits(regions, base, size) IN IF hits = {} THEN 0 ELSE Min(hits)

(* From one place to look at to the next: below the region that is hit.    *)
SearchDown(reserved, start, size, align) ==
    [base \in Nat |->
        LET j == OverlapsRegion(reserved, base, size) IN
        IF base < start \/ j = 0 \/ reserved[j].base < size THEN base
        ELSE AlignDown(reserved[j].base - size, align)]

FindRegion(reserved, start, end, size, align) ==
    LET lowest == IF start = 0 THEN PageSize ELSE start
        base == Iterate(SearchDown(reserved, lowest, size, align),
                        AlignDown(end - size, align), Len(reserved))
    IN IF end < size \/ base < lowest \/ OverlapsRegion(reserved, base, size) # 0
         THEN Error ELSE base

(* The regions of memory are tried from the last one down.                 *)
FindBase(m, size, align, start, end) ==
    LET regions == m.memory.regions
        last == IF end = Accessible THEN m.limit ELSE end
        bottom(i) == Max({regions[i].base, start})
        top(i) == Min({End(regions[i]), last})
        found(i) == IF bottom(i) >= top(i) THEN Error
                    ELSE FindRegion(m.reserved.regions, bottom(i), top(i), size, align)
        ends == {i \in 1 .. Len(regions) :
                    regions[i].size >= size /\ (End(regions[i]) <= start \/ found(i) # Error)}
    IN IF ends = {} \/ End(regions[Max(ends)]) <= start THEN Error ELSE found(Max(ends))

(* memblock_search: binary search, 0 when no region holds the address.     *)
Halves == [left : Nat, right : Nat]
Mid(h) == (h.left + h.right) \div 2
Holds(region, addr) == addr >= region.base /\ addr < End(region)

Narrow(regions, addr) ==
    [h \in Halves |->
        IF h.left >= h.right \/ Holds(regions[Mid(h) + 1], addr) THEN h
        ELSE IF addr < regions[Mid(h) + 1].base THEN [h EXCEPT !.right = Mid(h)]
        ELSE [h EXCEPT !.left = Mid(h) + 1]]

Search(regions, addr, count) ==
    LET h == Iterate(Narrow(regions, addr), [left |-> 0, right |-> count], Len(regions))
    IN IF h.left < h.right THEN Mid(h) + 1 ELSE 0

MutIsIn(regions, addr) == Search(regions, addr, Len(regions) - 1) # 0

IsIn(regions, addr) == Search(regions, addr, Len(regions)) # 0

IsRegionMemory(regions, base, size) ==
    LET i == Search(regions, base, Len(regions)) IN
    i # 0 /\ regions[i].base <= base /\ End(regions[i]) >= base + size

-----------------------------------------------------------------------------
(* Changing a table.                                                       *)

MutRemoveRegion(regions, i) == RemoveAt(regions, i)

RemoveRegion(regions, i) ==
    LET rest == RemoveAt(regions, i) IN IF rest = <<>> THEN <<Filler>> ELSE rest

(* The first loop of memblock_add_region, at region i: one that touches    *)
(* the new region is merged into it; over when it takes the new one in.    *)
Merge == [i : Nat, regions : Regions, base : Nat, over : BOOLEAN]

Coalesce(end) ==
    [s \in Merge |->
        LET rgn == s.regions[s.i]
            rend == End(rgn)
            below == s.base < rgn.base /\ end >= rgn.base
            grown == IF below THEN [s.regions EXCEPT ![s.i] = Region(s.base, rend - s.base)]
                     ELSE s.regions
            from == IF below THEN rend ELSE s.base
        IN IF s.over \/ s.i > Len(s.regions) \/ rgn.base > end \/ rgn.size = 0 THEN s
           ELSE IF (rgn.base <= s.base \/ below) /\ rend >= end
             THEN [s EXCEPT !.regions = grown, !.over = TRUE]
           ELSE IF from <= rend /\ end >= rend
             THEN [s EXCEPT !.regions = RemoveRegion(grown, s.i), !.base = grown[s.i].base]
           ELSE [s EXCEPT !.i = @ + 1, !.regions = grown, !.base = from]]

Coalesced(regions, base, end) ==
    Iterate(Coalesce(end), [i |-> 1, regions |-> regions, base |-> base, over |-> FALSE],
            Len(regions))

MutSlot(regions, base) == Len(regions) + 1

Slot(regions, base) == 1 + Max({0} \cup {i \in 1 .. Len(regions) : regions[i].base <= base})

(* The loop of __memblock_remove: regions inside the range are dropped,    *)
(* those it cuts are trimmed; one it lies inside of is left to be split.   *)
Cut == [i : Nat, regions : Regions, over : {"no", "trimmed", "split"}]

Walk(base, end) ==
    [s \in Cut |->
        LET rgn == s.regions[s.i]
            rend == End(rgn)
            size == IF base < rend THEN Minus(rgn.size, rend - base) ELSE rgn.size
        IN IF s.over # "no" \/ s.i > Len(s.regions) \/ rgn.base > end \/ rgn.size = 0 THEN s
           ELSE IF base <= rgn.base /\ end >= rend
             THEN [s EXCEPT !.regions = RemoveRegion(@, s.i)]
           ELSE IF base > rgn.base /\ end < rend THEN [s EXCEPT !.over = "split"]
           ELSE IF rgn.base < end /\ rend > end
             THEN [s EXCEPT !.regions = [@ EXCEPT ![s.i] = Region(end, rend - end)],
                            !.over = "trimmed"]
           ELSE [s EXCEPT !.regions = [@ EXCEPT ![s.i] = Region(rgn.base, size)], !.i = @ + 1]]

Walked(regions, base, end) ==
    Iterate(Walk(base, end), [i |-> 1, regions |-> regions, over |-> "no"], Len(regions))

-----------------------------------------------------------------------------
(* Changing the tables m.  An operation yields a result [rc, m]: rc is     *)
(* "ok", "fail" (-1), or "bug" when a BUG_ON fires.  memblock_add_region,  *)
(* __memblock_remove and memblock_double_array call each other; AddBody,   *)
(* RemoveBody and DoubleBody are their bodies, given what the calls in     *)
(* them result in, and are put together below.                             *)

ArraySize == 1     \* a table's own array fits in one page
Static == -1       \* the array a table starts with
Slab == -2         \* one that kmalloc gave

Table == [regions : Regions, max : Nat, array : Int]
Tables == [memory : Table, reserved : Table, limit : Nat, canResize : BOOLEAN]

Result(rc, m) == [rc |-> rc, m |-> m]
With(m, type, regions) == [m EXCEPT ![type] = [@ EXCEPT !.regions = regions]]

(* The tables once a new region is in, where the array may now be full: s  *)
(* is what merging left of the new region and the table.                   *)
Inserted(m, type, s, end) ==
    With(m, type, InsertAt(s.regions, Slot(s.regions, s.base), Region(s.base, end - s.base)))

Added(m, type, base, end) == Inserted(m, type, Coalesced(m[type].regions, base, end), end)

(* doubled: what memblock_double_array makes of Added.                     *)
AddMerged(m, type, s, end, doubled) ==
    LET slot == Slot(s.regions, s.base)
        added == Inserted(m, type, s, end)
    IN IF s.over THEN Result("ok", With(m, type, s.regions))
       ELSE IF Len(s.regions) = 1 /\ s.regions[1].size = 0
         THEN Result("ok", With(m, type, <<Region(s.base, end - s.base)>>))
       ELSE IF Len(s.regions) >= m[type].max THEN Result("fail", With(m, type, s.regions))
       ELSE IF Len(s.regions) + 1 < m[type].max THEN Result("ok", added)
       ELSE IF doubled.rc = "fail"
         THEN Result("fail", With(m, type, RemoveRegion(added[type].regions, slot)))
       ELSE doubled

AddBody(m, type, base, end, doubled) ==
    AddMerged(m, type, Coalesced(m[type].regions, base, end), end, doubled)

(* A region the range lies inside of is shortened; RestEnd ends what the   *)
(* range leaves of it above, which is to be added again.                   *)
Shortened(m, type, base, end) ==
    LET s == Walked(m[type].regions, base, end)
        rgn == s.regions[s.i]
    IN With(m, type, [s.regions EXCEPT ![s.i] = Region(rgn.base, base - rgn.base)])

RestEnd(m, type, base, end) ==
    LET s == Walked(m[type].regions, base, end) IN End(s.regions[s.i])

(* split: what memblock_add_region makes of Shortened and the rest.        *)
RemoveBody(m, type, base, end, split) ==
    LET s == Walked(m[type].regions, base, end) IN
    IF s.over # "split" THEN Result("ok", With(m, type, s.regions))
    ELSE IF split.rc # "fail" THEN split
    ELSE Result("fail", With(m, type, [split.m[type].regions EXCEPT ![s.i] = s.regions[s.i]]))

(* kmalloc is what kmalloc gives once the slab allocator is up; before, it *)
(* is "early" and the array comes from the tables themselves.              *)
NewArray(m) == FindBase(m, ArraySize, 1, 0, Accessible)

Moved(m, type, array) ==
    [m EXCEPT ![type] = [regions |-> @.regions, max |-> 2 * @.max, array |-> array]]

MutDoubleBody(m, type, kmalloc, own, freed) ==
    IF ~m.canResize \/ kmalloc = "none" THEN Result("fail", m)
    ELSE IF kmalloc = "some" THEN Result("ok", Moved(m, type, Slab))
    ELSE Result("ok", Moved(m, type, NewArray(m)))

(* own: the new array made known to the reserved table; freed: the old one *)
(* taken out of it, which may fail and nobody asks.                        *)
DoubleBody(m, type, kmalloc, own, freed) ==
    IF ~m.canResize \/ kmalloc = "none" THEN Result("fail", m)
    ELSE IF kmalloc = "some" THEN Result("ok", Moved(m, type, Slab))
    ELSE IF NewArray(m) = Error THEN Result("fail", m)
    ELSE IF own.rc = "fail" THEN Result("bug", own.m)
    ELSE IF own.rc # "ok" \/ m[type].array \in {Static, Slab} THEN own
    ELSE IF freed.rc = "fail" THEN Result("ok", freed.m)
    ELSE freed

(* How deep the calls nest: to grow the memory table its new array is      *)
(* reserved, for which the reserved table may have to grow; that one,      *)
(* twice as large by then, takes in its own new array.  "deep" would be a  *)
(* third level.                                                            *)
AddOnce(m, type, base, end, k) == AddBody(m, type, base, end, Result("deep", m))

RemoveOnce(m, type, base, end, k) ==
    RemoveBody(m, type, base, end,
           AddOnce(Shortened(m, type, base, end), type, end, RestEnd(m, type, base, end), k))

FreeOldOnce(m, type, k, own) ==
    LET old == m[type].array IN
    DoubleBody(m, type, k, own, RemoveOnce(own.m, "reserved", old, old + ArraySize, k))

DoubleOnce(m, type, k) ==
    LET new == NewArray(m) IN
    FreeOldOnce(m, type, k, AddOnce(Moved(m, type, new), "reserved", new, new + ArraySize, k))

AddTwice(m, type, base, end, k) ==
    AddBody(m, type, base, end, DoubleOnce(Added(m, type, base, end), type, k))

RemoveTwice(m, type, base, end, k) ==
    RemoveBody(m, type, base, end,
           AddTwice(Shortened(m, type, base, end), type, end, RestEnd(m, type, base, end), k))

FreeOldTwice(m, type, k, own) ==
    LET old == m[type].array IN
    DoubleBody(m, type, k, own, RemoveTwice(own.m, "reserved", old, old + ArraySize, k))

DoubleTwice(m, type, k) ==
    LET new == NewArray(m) IN
    FreeOldTwice(m, type, k, AddTwice(Moved(m, type, new), "reserved", new, new + ArraySize, k))

AddRegion(m, type, base, end, k) ==
    AddBody(m, type, base, end, DoubleTwice(Added(m, type, base, end), type, k))

RemoveRange(m, type, base, end, k) ==
    RemoveBody(m, type, base, end,
           AddRegion(Shortened(m, type, base, end), type, end, RestEnd(m, type, base, end), k))

-----------------------------------------------------------------------------
(* The operations.  Each is one call; the tables are used by one thread.   *)

Kmalloc == IF slab THEN {"some", "none"} ELSE {"early"}
Aligns == {1, 2}
NoTable == [regions |-> <<>>, max |-> 0, array |-> Static]
NewTable == [regions |-> <<Filler>>, max |-> InitRegions, array |-> Static]

MemblockInit ==
    /\ mb = [memory |-> NoTable, reserved |-> NoTable, limit |-> 0, canResize |-> FALSE]
    /\ slab \in BOOLEAN
    /\ stuck = "no"

(* A BUG stops the machine inside the call: what it leaves half done       *)
(* nobody reads any more.                                                  *)
Commit(result) ==
    /\ mb' = IF result.rc \in {"ok", "fail"} THEN result.m ELSE mb
    /\ stuck' = IF result.rc \in {"ok", "fail"} THEN "no" ELSE result.rc
    /\ UNCHANGED slab

(* memblock_init; its static init_done lets it run once.                   *)
SetUp ==
    /\ stuck = "no" /\ mb.memory.max = 0
    /\ mb' = [mb EXCEPT !.memory = NewTable, !.reserved = NewTable, !.limit = Anywhere]
    /\ UNCHANGED <<slab, stuck>>

(* memblock_analyze.                                                       *)
Analyze ==
    /\ stuck = "no" /\ mb.memory.max > 0 /\ ~mb.canResize
    /\ mb' = [mb EXCEPT !.canResize = TRUE]
    /\ UNCHANGED <<slab, stuck>>

SetCurrentLimit ==
    /\ stuck = "no" /\ mb.memory.max > 0
    /\ \E limit \in {Top - 2, Anywhere} : mb' = [mb EXCEPT !.limit = limit]
    /\ UNCHANGED <<slab, stuck>>

(* memblock_add, memblock_reserve.                                         *)
AddOrReserve ==
    /\ stuck = "no"
    /\ \E type \in Types, r \in Asked, k \in Kmalloc :
          Commit(AddRegion(mb, type, r[1], r[1] + r[2], k))

(* memblock_remove, memblock_free; nobody frees what a table occupies.     *)
Own == {mb[type].array : type \in Types} \cap Pages

RemoveOrFree ==
    /\ stuck = "no"
    /\ \E type \in Types, r \in Asked, k \in Kmalloc :
          /\ Abutting \/ \A i \in 1 .. Len(mb[type].regions) :
                            mb[type].regions[i].base # r[1] + r[2]
          /\ type = "reserved" => Own \cap (r[1] .. r[1] + r[2] - 1) = {}
          /\ Commit(RemoveRange(mb, type, r[1], r[1] + r[2], k))

(* memblock_alloc_base: 0 is a panic.                                      *)
AllocOrPanic(m, size, align, max, k) ==
    LET asize == AlignUp(size, align) IN
    \E found \in {FindBase(m, asize, align, 0, max)} :
    \E result \in {AddRegion(m, "reserved", found, found + asize, k)} :
        IF found # Error /\ result.rc # "fail" THEN Commit(result)
        ELSE /\ stuck' = "panic"
             /\ mb' = IF found = Error THEN m ELSE result.m
             /\ UNCHANGED slab

AllocBase ==
    /\ stuck = "no" /\ mb.memory.max > 0
    /\ \E size \in 1 .. 2, align \in Aligns, max \in {Accessible, Top \div 2}, k \in Kmalloc :
          AllocOrPanic(mb, size, align, max, k)

(* memblock_alloc_nid with one node: regions bottom-up, each top-down.     *)
Nid == [i : Nat, m : Tables, rc : {"fail", "ok", "bug", "deep"}]

NidFound(s, found, result) ==
    IF found = Error THEN [s EXCEPT !.i = @ + 1]
    ELSE [i |-> s.i + 1, m |-> result.m, rc |-> result.rc]

NidAt(s, found, size, k) ==
    NidFound(s, found, AddRegion(s.m, "reserved", found, found + size, k))

NidRegion(size, align, k) ==
    [s \in Nid |->
        LET r == s.m.memory.regions[s.i]
            start == AlignUp(r.base, align)
        IN IF s.rc # "fail" \/ s.i > Len(s.m.memory.regions) THEN s
           ELSE NidAt(s, IF start >= End(r) THEN Error
                         ELSE FindRegion(s.m.reserved.regions, start, End(r), size, align), size, k)]

FindNid(m, size, align, k) ==
    Iterate(NidRegion(size, align, k), [i |-> 1, m |-> m, rc |-> "fail"], Len(m.memory.regions))

(* memblock_alloc_nid; memblock_alloc_try_nid falls back on any memory.    *)
AllocNid ==
    /\ stuck = "no" /\ mb.memory.max > 0
    /\ \E size \in 1 .. 2, align \in Aligns, try \in BOOLEAN, k \in Kmalloc :
          \E result \in {FindNid(mb, AlignUp(size, align), align, k)} :
          IF result.rc = "fail" /\ try THEN AllocOrPanic(result.m, size, align, Anywhere, k)
          ELSE Commit(result)

(* memblock_enforce_memory_limit, to be called before memblock_analyze.    *)
(* First the memory: left is what the limit leaves from region i on.       *)
CountDown(regions) ==
    [s \in [i : Nat, left : Nat] |->
        IF s.i > Len(regions) \/ s.left <= regions[s.i].size THEN s
        ELSE [i |-> s.i + 1, left |-> s.left - regions[s.i].size]]

Truncated(regions, limit) ==
    LET s == Iterate(CountDown(regions), [i |-> 1, left |-> limit], Len(regions)) IN
    IF s.i > Len(regions) THEN regions
    ELSE Append(SubSeq(regions, 1, s.i - 1), Region(regions[s.i].base, s.left))

(* Then the reservations.                                                  *)
CutOff(r, top) ==
    Region(r.base, IF r.base > top THEN 0 ELSE IF End(r) > top THEN top - r.base ELSE r.size)

CutNext(top) ==
    [s \in [i : Nat, regions : Regions] |->
        IF s.i > Len(s.regions) THEN s
        ELSE IF CutOff(s.regions[s.i], top).size = 0
          THEN [s EXCEPT !.regions = RemoveRegion(@, s.i)]
        ELSE [i |-> s.i + 1,
              regions |-> [s.regions EXCEPT ![s.i] = CutOff(s.regions[s.i], top)]]]

(* The second loop never ends once the last reservation goes: the filler   *)
(* has size 0 and goes again.                                              *)
EnforceMemoryLimit ==
    /\ stuck = "no" /\ mb.memory.max > 0 /\ ~mb.canResize
    /\ \E limit \in 1 .. Top :
          LET memory == Truncated(mb.memory.regions, limit)
              reserved == mb.reserved.regions
              s == Iterate(CutNext(End(memory[Len(memory)])), [i |-> 1, regions |-> reserved],
                           Len(reserved))
          IN /\ mb' = With(With(mb, "memory", memory), "reserved", s.regions)
             /\ stuck' = IF s.i > Len(s.regions) THEN "no" ELSE "loop"
    /\ UNCHANGED slab

MemblockNext ==
    \/ SetUp \/ Analyze \/ SetCurrentLimit
    \/ AddOrReserve \/ RemoveOrFree
    \/ AllocBase \/ AllocNid
    \/ EnforceMemoryLimit

MemblockSpec == MemblockInit /\ [][MemblockNext]_memblockVars

-----------------------------------------------------------------------------
(* The properties.                                                         *)

Covered(regions) ==
    UNION {regions[i].base .. regions[i].base + regions[i].size - 1 : i \in 1 .. Len(regions)}

(* The tables hold regions of the address space; a table that was set up   *)
(* is never empty, and its last array entry is never in use.               *)
TablesTyped ==
    /\ slab \in BOOLEAN /\ stuck \in {"no", "bug", "panic", "loop"}
    /\ mb.canResize \in BOOLEAN /\ mb.limit \in 0 .. Anywhere
    /\ \A type \in Types :
          /\ \A i \in 1 .. Len(mb[type].regions) :
                /\ mb[type].regions[i] \in [base : 0 .. Top - 1, size : 0 .. Top]
                /\ mb[type].regions[i].base + mb[type].regions[i].size <= Top
          /\ mb[type].max > 0 => Len(mb[type].regions) \in 1 .. mb[type].max - 1

(* A table is in its one canonical form: regions in order, apart by at     *)
(* least a page, none empty but the filler of an empty table.  Merging,    *)
(* splitting and the insertion into the sorted array keep it so.           *)
TablesCanonical ==
    /\ TablesTyped
    /\ \A type \in Types :
        LET regions == mb[type].regions IN
        /\ \A i \in 1 .. Len(regions) - 1 : End(regions[i]) < regions[i + 1].base
        /\ \A i \in 1 .. Len(regions) : regions[i].size = 0 => Len(regions) = 1

(* memblock_find_base finds the highest aligned range of free memory below *)
(* the limit that does not begin in page 0, and fails only if there is     *)
(* none: the jumps of its top-down search skip no free place.              *)
FindIsTopDown ==
    \A size \in 1 .. 3, align \in Aligns, end \in {Accessible, Top - 1} :
        LET free == Covered(mb.memory.regions) \ Covered(mb.reserved.regions)
            bound == IF end = Accessible THEN mb.limit ELSE end
            places == {b \in Pages \ {0} : /\ b % align = 0 /\ b + size <= bound
                                            /\ b .. b + size - 1 \subseteq free}
        IN FindBase(mb, size, align, 0, end) = IF places = {} THEN Error ELSE Max(places)

(* So does memblock_find_region in each region of the memory, where        *)
(* memblock_alloc_nid looks.                                               *)
FindsInRegion ==
    \A i \in 1 .. Len(mb.memory.regions), size \in 1 .. 3, align \in Aligns :
        LET r == mb.memory.regions[i]
            free == (r.base .. End(r) - 1) \ Covered(mb.reserved.regions)
            places == {b \in free \ {0} : b % align = 0 /\ b .. b + size - 1 \subseteq free}
        IN FindRegion(mb.reserved.regions, AlignUp(r.base, align), End(r), size, align)
              = IF places = {} THEN Error ELSE Max(places)

(* memblock_is_memory, memblock_is_reserved and memblock_is_region_memory, *)
(* by binary search, answer for every address what the table holds.        *)
SearchExact ==
    /\ FindIsTopDown /\ FindsInRegion
    /\ mb.memory.max > 0 =>
        /\ \A type \in Types, a \in Pages :
              IsIn(mb[type].regions, a) <=> a \in Covered(mb[type].regions)
        /\ \A r \in Ranges :
              IsRegionMemory(mb.memory.regions, r[1], r[2])
                  <=> r[1] .. r[1] + r[2] - 1 \subseteq Covered(mb.memory.regions)

(* The two tables implement two sets of addresses: a call adds or takes    *)
(* out exactly its range or, when the table is full and cannot grow,       *)
(* nothing; growing a table costs free memory only.  (That an allocation   *)
(* does, SearchExact says.)                                                *)
AddressSets == INSTANCE AddressMap WITH
    Addresses <- Pages \cup {Top},
    mem <- Covered(mb.memory.regions),
    res <- Covered(mb.reserved.regions),
    own <- Own
ImplementsAddressMap == AddressSets!Spec

(* What the comment at memblock.c:264 says of reserving the new array of a *)
(* table that grows: it does not fail, so the BUG_ON never fires.          *)
NewArrayReserved == stuck # "bug"

(* Taking a range out of a table never adds an address to it: a region is  *)
(* dropped, split or, as the comment at memblock.c:464 says, trimmed.      *)
RemovalShrinks ==
    \A type \in Types, r \in Ranges :
        Covered(RemoveRange(mb, type, r[1], r[1] + r[2], "some").m[type].regions)
            \subseteq Covered(mb[type].regions)

=============================================================================
