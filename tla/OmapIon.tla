------------------------------- MODULE OmapIon -------------------------------
(***************************************************************************)
(* What lies under Ion on this platform: the board file modules/ion/       *)
(* omap_ion.c, the driver gpu/omap/omap_ion.c with its probe, the tiler,   *)
(* carveout and system heaps, and, on OMAP3, the VRFB contexts of Vrfb.    *)
(*                                                                         *)
(* A client's call to the tiler heap is in single steps, for it takes and  *)
(* gives back its resources under one lock after another.  The pools are   *)
(* gen_pools, by their promise (ExtentAllocator); a pool may also refuse   *)
(* a request that would fit, as GenPool shows.                             *)
(***************************************************************************)
EXTENDS Vrfb, Sequences

CONSTANTS
    Boards,        \* the boards in question, among "omap3", "omap4", "tegra"
    Clients,       \* processes with /dev/ion open
    BufferIds,     \* bound: buffers alive at a time
    Areas,         \* bound: blocks of tiler address space
    MaxLen,        \* bound: pages of one request
    HeapSize,      \* bound: pages of a pool, by heap id
    Faults         \* "heap": a heap cannot be created; "nonsecure": the kernel
                   \* also allocates from the nonsecure tiler heap; "handle":
                   \* no memory for the handle of a tiler buffer

LargeSurfaces == 0
TilerId == 1
SecureInput == 2
NonsecureTiler == 3

ASSUME OmapIonAssumption ==
    /\ Boards \subseteq {"omap3", "omap4", "tegra"}
    /\ IsFiniteSet(Clients) /\ "none" \notin Clients
    /\ BufferIds \subseteq Nat \ {0} /\ IsFiniteSet(BufferIds)
    /\ 0 \notin Areas                         \* no block
    /\ MaxLen \in Nat \ {0}
    /\ \A id \in {TilerId, SecureInput, NonsecureTiler} : HeapSize[id] \in Nat
    /\ Faults \subseteq {"heap", "nonsecure", "handle"}

VARIABLES
    board,
    probe,         \* "no", "runs", "done", "removed", "died"
    heap,          \* by index: "none", "made", "freed", or "leaked": its struct is
                   \* freed and its pool is not
    trial,         \* the device's tree of heaps, in the order rb_next walks it
    taken,         \* pages that are set in the pools' bitmaps
    area,          \* by tiler block: "free", "reserved", "pinned"
    infos,         \* struct omap_tiler_info allocated and not yet freed
    sglists,       \* scatterlists the system heaps have allocated
    iomaps,        \* kernel mappings of the carveout heaps
    call,          \* omap_tiler_alloc calls in flight
    buffer,        \* buffers the clients have handles of
    oops           \* who ran into a NULL or freed pointer or a BUG_ON

ionVars == <<board, probe, heap, trial, taken, area, infos, sglists, iomaps,
             call, buffer, oops>>
vars == <<vrfbVars, ionVars>>

Carveout == "carveout"
Tiler == "tiler"
System == "system"
Contig == "contig"

(* omap_ion_data; a Tegra board file, outside this tree, may list any of    *)
(* the generic heaps.                                                       *)
HeapsOf(b) ==
    CASE b = "omap4" -> << [type |-> Carveout, id |-> SecureInput],
                           [type |-> Tiler, id |-> TilerId],
                           [type |-> Tiler, id |-> NonsecureTiler] >>
      [] b = "omap3" -> << [type |-> Carveout, id |-> SecureInput] >>
      [] b = "tegra" -> << [type |-> System, id |-> LargeSurfaces],
                           [type |-> Contig, id |-> TilerId] >>

Data == HeapsOf(board)
Indices == DOMAIN Data
TypeOf(i) == Data[i].type
HasPool(i) == TypeOf(i) \in {Carveout, Tiler}

(* The pages of a heap's pool, named by the heap and their place in it.     *)
Page(i, n) == <<i, n>>
Pool(i) == IF HasPool(i) THEN {Page(i, n) : n \in 1 .. HeapSize[Data[i].id]} ELSE {}
Extents(i, n) ==
    {e \in {[k \in 1 .. n |-> Page(i, s + k)] : s \in 0 .. HeapSize[Data[i].id] - n} :
        \A k \in 1 .. n : e[k] \notin taken}
PagesOf(seq) == {seq[k] : k \in DOMAIN seq}

NoInfo == [area |-> 0, pages |-> <<>>, lump |-> FALSE]
NoCall == [pc |-> "idle", on |-> 0, n |-> 0, info |-> NoInfo, buf |-> 0]
NoBuf == [client |-> "none", on |-> 0, pages |-> <<>>, info |-> NoInfo, maps |-> {}]

Free(b) == buffer[b] = NoBuf
Running == probe \notin {"no", "removed"} /\ oops = {}

-----------------------------------------------------------------------------
(* Loading: omap_ion_init registers device and driver, and the probe makes  *)
(* the heaps of the board one by one.  The device node is there from the    *)
(* start, so clients may call in between.                                   *)

ProbeBegin ==
    /\ probe = "no" /\ oops = {}
    /\ probe' = "runs"
    /\ UNCHANGED <<board, heap, trial, taken, area, infos, sglists, iomaps, call, buffer, oops>>

Making == Len(trial) + 1      \* the loop's i

(* ion_heap_create or omap_tiler_heap_create; a tiler heap is known to the  *)
(* ioctl (tiler_heap) from here on.                                         *)
ProbeCreate ==
    /\ probe = "runs" /\ oops = {} /\ heap[Making] = "none"
    /\ heap' = [heap EXCEPT ![Making] = "made"]
    /\ UNCHANGED <<board, probe, trial, taken, area, infos, sglists, iomaps, call, buffer, oops>>

(* ion_device_add_heap: its search stops at the root, which becomes the     *)
(* parent of the heap added, and the walk goes from the newest to the       *)
(* oldest heap.                                                             *)
ProbeAdd ==
    /\ probe = "runs" /\ oops = {} /\ heap[Making] = "made"
    /\ trial' = <<Making>> \o trial
    /\ probe' = IF Making = Len(Data) THEN "done" ELSE probe
    /\ UNCHANGED <<board, heap, taken, area, infos, sglists, iomaps, call, buffer, oops>>

(* omap_tiler_heap_destroy frees the heap and not its pool; the pool of a   *)
(* carveout heap asserts that all its pages were given back.                *)
TilerDestroy == "leaked"
DestroyHeap(i) == IF TypeOf(i) = Tiler THEN TilerDestroy ELSE "freed"
DestroyTrips(i) == TypeOf(i) = Carveout /\ Pool(i) \cap taken # {}

(* No memory for a heap.  A tiler heap's creation tests for NULL and writes *)
(* through the error pointer; of another heap the pointer is left in the    *)
(* table and the clean-up, having destroyed the heaps before it, reads it.  *)
ProbeFails ==
    /\ "heap" \in Faults
    /\ probe = "runs" /\ oops = {} /\ heap[Making] = "none"
    /\ probe' = "died"
    /\ heap' = [i \in Indices |->
                  IF heap[i] = "made" /\ TypeOf(Making) # Tiler
                  THEN DestroyHeap(i) ELSE heap[i]]
    /\ UNCHANGED <<board, trial, taken, area, infos, sglists, iomaps, call, buffer, oops>>

(* The module is unloaded; the open files of clients would hold it.         *)
Remove ==
    /\ probe = "done" /\ oops = {}
    /\ \A c \in Clients : call[c] = NoCall
    /\ \A b \in BufferIds : Free(b)
    /\ probe' = "removed"
    /\ heap' = [i \in Indices |-> DestroyHeap(i)]
    /\ oops' = IF \E i \in Indices : DestroyTrips(i) THEN oops \cup {"remove"} ELSE oops
    /\ trial' = <<>>
    /\ UNCHANGED <<board, taken, area, infos, sglists, iomaps, call, buffer>>

-----------------------------------------------------------------------------
(* ion_alloc.  The heaps that match are tried in turn; what a heap answers  *)
(* is its allocate operation.                                               *)

(* What the heaps' allocate operations may answer, as the pages taken.  The  *)
(* system heaps get theirs from vmalloc and kmalloc; a tiler heap refuses   *)
(* a plain request for a page or more.                                      *)
CarveoutServes(i, n) == Extents(i, n)
SystemServes == {<<>>}
ContigServes == {<<>>}
TilerServes(n) == IF n = 0 THEN {<<>>} ELSE {}

Serves(i, n) ==
    CASE TypeOf(i) = Carveout -> CarveoutServes(i, n)
      [] TypeOf(i) = Tiler -> TilerServes(n)
      [] TypeOf(i) = System -> SystemServes
      [] TypeOf(i) = Contig -> ContigServes

InTree(i) == \E k \in DOMAIN trial : trial[k] = i
Dangling(i) == heap[i] # "made"

(* A pointer to a heap that the failed probe has destroyed: the walk over   *)
(* the tree meets it, and so does the last put of a buffer of that heap.    *)
UseAfterFree ==
    /\ Running
    /\ \E i \in Indices : Dangling(i) /\ (InTree(i) \/ \E b \in BufferIds : buffer[b].on = i)
    /\ oops' = oops \cup {"client"}
    /\ UNCHANGED <<board, probe, heap, trial, taken, area, infos, sglists, iomaps, call, buffer>>

(* The heaps whose id the caller named are tried in turn, and each may      *)
(* fail.                                                                    *)
Alloc(c, b, ids, n) ==
    /\ Running /\ call[c] = NoCall /\ Free(b)
    /\ \A i \in Indices : InTree(i) => ~Dangling(i)
    /\ \E i \in {j \in Indices : InTree(j) /\ Data[j].id \in ids} : \E e \in Serves(i, n) :
        /\ buffer' = [buffer EXCEPT ![b] = [NoBuf EXCEPT !.client = c, !.on = i, !.pages = e]]
        /\ taken' = taken \cup PagesOf(e)
    /\ UNCHANGED <<board, probe, heap, trial, area, infos, sglists, iomaps, call, oops>>

(* omap_ion_mem_alloc asks for the heap whose id is the number of the       *)
(* carveout type, which is the secure input heap's.                         *)
MemAlloc(c, b, n) == board # "tegra" /\ Alloc(c, b, {SecureInput}, n)

(* The last reference to a buffer goes: the heap's free operation.          *)
(* A page that is not in the pool it is given back to trips a BUG_ON.       *)
GiveBack(i, pages) ==
    /\ taken' = taken \ (pages \cap Pool(i))
    /\ oops' = IF pages \subseteq Pool(i) THEN oops ELSE oops \cup {"client"}

CarveoutFree(b) ==
    /\ TypeOf(buffer[b].on) = Carveout
    /\ GiveBack(buffer[b].on, PagesOf(buffer[b].pages))
    /\ UNCHANGED <<area, infos>>

TilerFree(b) ==
    LET info == buffer[b].info IN
    /\ TypeOf(buffer[b].on) = Tiler
    /\ area' = [area EXCEPT ![info.area] = "free"]
    /\ GiveBack(buffer[b].on, PagesOf(info.pages))
    /\ infos' = infos - 1

SystemFree(b) ==
    /\ TypeOf(buffer[b].on) = System       \* vfree
    /\ UNCHANGED <<taken, area, infos, oops>>

ContigFree(b) ==
    /\ TypeOf(buffer[b].on) = Contig       \* kfree
    /\ UNCHANGED <<taken, area, infos, oops>>

FreeBuf(b) ==
    /\ Running /\ ~Free(b)
    /\ ~Dangling(buffer[b].on)
    /\ buffer[b].maps = {}
    /\ call[buffer[b].client].buf # b
    /\ CarveoutFree(b) \/ TilerFree(b) \/ SystemFree(b) \/ ContigFree(b)
    /\ buffer' = [buffer EXCEPT ![b] = NoBuf]
    /\ UNCHANGED <<board, probe, heap, trial, sglists, iomaps, call>>

(* Kernel and DMA mappings, made for the first that counts one and undone   *)
(* for the last (IonMap has the counting), where the heap's struct          *)
(* ion_heap_ops has the operation.                                          *)
VmallocOps == {"map_dma", "map_kernel", "map_user"}
KmallocOps == {"map_dma", "map_kernel", "map_user", "phys"}
CarveoutOps == {"map_kernel", "map_user", "phys"}
TilerOps == {"map_user", "phys"}

Ops(i) ==
    CASE TypeOf(i) = System -> VmallocOps
      [] TypeOf(i) = Contig -> KmallocOps
      [] TypeOf(i) = Carveout -> CarveoutOps
      [] TypeOf(i) = Tiler -> TilerOps

HasMapDma(i) == "map_dma" \in Ops(i)
HasMapKernel(i) == "map_kernel" \in Ops(i)
Maps(b, how) == [buffer EXCEPT ![b].maps = how]
Shared == <<board, probe, heap, trial, taken, area, infos, call, oops>>

(* One scatterlist, of an entry for each page or of a single one.           *)
Sglist(b) ==
    /\ buffer' = Maps(b, buffer[b].maps \cup {"dma"})
    /\ sglists' = sglists + 1

ContigSglist(b) == TypeOf(buffer[b].on) = Contig /\ Sglist(b)
SystemSglist(b) == TypeOf(buffer[b].on) = System /\ Sglist(b)

MapDma(b) ==
    /\ Running /\ ~Free(b) /\ HasMapDma(buffer[b].on) /\ "dma" \notin buffer[b].maps
    /\ SystemSglist(b) \/ ContigSglist(b)
    /\ UNCHANGED <<Shared, iomaps>>

UnmapDma(b) ==
    /\ Running /\ "dma" \in buffer[b].maps
    /\ buffer' = Maps(b, buffer[b].maps \ {"dma"})
    /\ sglists' = sglists - 1
    /\ UNCHANGED <<Shared, iomaps>>

(* A carveout buffer is mapped with __arch_ioremap, a system buffer has its *)
(* kernel address already.                                                  *)
Ioremaps(b) == IF TypeOf(buffer[b].on) = Carveout THEN 1 ELSE 0

MapKernel(b) ==
    /\ Running /\ ~Free(b) /\ HasMapKernel(buffer[b].on) /\ "kernel" \notin buffer[b].maps
    /\ buffer' = Maps(b, buffer[b].maps \cup {"kernel"})
    /\ iomaps' = iomaps + Ioremaps(b)
    /\ UNCHANGED <<Shared, sglists>>

UnmapKernel(b) ==
    /\ Running /\ "kernel" \in buffer[b].maps
    /\ buffer' = Maps(b, buffer[b].maps \ {"kernel"})
    /\ iomaps' = iomaps - Ioremaps(b)
    /\ UNCHANGED <<Shared, sglists>>

-----------------------------------------------------------------------------
(* omap_tiler_alloc, in the order of its calls.                             *)

At(c, pc) == Running /\ call[c].pc = pc
Goto(c, pc) == call' = [call EXCEPT ![c].pc = pc]
Rest == <<board, probe, heap, trial, sglists, iomaps>>

(* Arguments are checked and the info is allocated; n is what tiler_memsize *)
(* makes of format, width and height.  The kernel calls                     *)
(* omap_ion_nonsecure_tiler_alloc for the other heap.                       *)
TilerAlloc(c, i, n) ==
    /\ Running /\ call[c] = NoCall
    /\ TypeOf(i) = Tiler /\ heap[i] = "made"
    /\ Data[i].id = NonsecureTiler => "nonsecure" \in Faults
    /\ infos' = infos + 1
    /\ call' = [call EXCEPT ![c] = [NoCall EXCEPT !.pc = "area", !.on = i, !.n = n]]
    /\ UNCHANGED <<Rest, taken, area, buffer, oops>>

TilerArea(c, a) ==
    /\ At(c, "area") /\ area[a] = "free"
    /\ area' = [area EXCEPT ![a] = "reserved"]
    /\ call' = [call EXCEPT ![c].pc = "lump", ![c].info.area = a]
    /\ UNCHANGED <<Rest, taken, infos, buffer, oops>>

(* The end of a call that failed: err_nomem.                                *)
TilerReturn(c) ==
    /\ At(c, "area") \/ At(c, "nomem")
    /\ infos' = infos - 1
    /\ call' = [call EXCEPT ![c] = NoCall]
    /\ UNCHANGED <<Rest, taken, area, buffer, oops>>

(* All pages in one extent; if there is none, page by page.                 *)
TilerLump(c) ==
    /\ At(c, "lump")
    /\ \E e \in Extents(call[c].on, call[c].n) :
        /\ taken' = taken \cup PagesOf(e)
        /\ call' = [call EXCEPT ![c].pc = "pin", ![c].info.pages = e, ![c].info.lump = TRUE]
    /\ UNCHANGED <<Rest, area, infos, buffer, oops>>

TilerNoLump(c) ==
    /\ At(c, "lump")
    /\ Goto(c, "pages")
    /\ UNCHANGED <<Rest, taken, area, infos, buffer, oops>>

TilerPage(c) ==
    /\ At(c, "pages")
    /\ \E e \in Extents(call[c].on, 1) :
        /\ taken' = taken \cup PagesOf(e)
        /\ call' = [call EXCEPT
                       ![c].pc = IF Len(call[c].info.pages) + 1 = call[c].n THEN "pin" ELSE "pages",
                       ![c].info.pages = @ \o e]
    /\ UNCHANGED <<Rest, area, infos, buffer, oops>>

TilerNoPage(c) ==
    /\ At(c, "pages")
    /\ Goto(c, "undo")
    /\ UNCHANGED <<Rest, taken, area, infos, buffer, oops>>

TilerPin(c) ==
    /\ At(c, "pin")
    /\ area' = [area EXCEPT ![call[c].info.area] = "pinned"]
    /\ Goto(c, "handle")
    /\ UNCHANGED <<Rest, taken, infos, buffer, oops>>

TilerPinFails(c) ==
    /\ At(c, "pin")
    /\ Goto(c, "undo")
    /\ UNCHANGED <<Rest, taken, area, infos, buffer, oops>>

MutTilerHandle(c, b) ==
    /\ At(c, "handle") /\ Free(b)
    /\ \E i \in Indices :
        /\ InTree(i) /\ Data[i].id = NonsecureTiler
        /\ buffer' = [buffer EXCEPT ![b] = [NoBuf EXCEPT !.client = c, !.on = i]]
    /\ call' = [call EXCEPT ![c].pc = "fill", ![c].buf = b]
    /\ UNCHANGED <<Rest, taken, area, infos, oops>>

(* ion_alloc of length zero from the heap with the tiler's id, whichever    *)
(* heap the pages are from; the buffer is filled in after it is visible.    *)
TilerHandle(c, b) ==
    /\ At(c, "handle") /\ Free(b)
    /\ \E i \in Indices :
        /\ InTree(i) /\ Data[i].id = TilerId
        /\ buffer' = [buffer EXCEPT ![b] = [NoBuf EXCEPT !.client = c, !.on = i]]
    /\ call' = [call EXCEPT ![c].pc = "fill", ![c].buf = b]
    /\ UNCHANGED <<Rest, taken, area, infos, oops>>

MutTilerNoHandle(c) ==
    /\ At(c, "handle")
    /\ Goto(c, "undo")
    /\ UNCHANGED <<Rest, taken, area, infos, buffer, oops>>

(* No buffer, or the probe has not yet added the heap.  With a buffer and   *)
(* no handle ion_alloc puts the buffer, whose info is not there yet, and    *)
(* the heap's free reads through NULL.                                      *)
TilerNoHandle(c) ==
    /\ At(c, "handle")
    /\ Goto(c, "unpin")
    /\ oops' \in {oops} \cup {oops \cup {"client"} : f \in Faults \cap {"handle"}}
    /\ UNCHANGED <<Rest, taken, area, infos, buffer>>

TilerFill(c) ==
    /\ At(c, "fill")
    /\ buffer' = [buffer EXCEPT ![call[c].buf].info = call[c].info]
    /\ call' = [call EXCEPT ![c] = NoCall]
    /\ UNCHANGED <<Rest, taken, area, infos, oops>>

(* The clean-up: err and err_alloc.                                         *)
TilerUnpin(c) ==
    /\ At(c, "unpin")
    /\ area' = [area EXCEPT ![call[c].info.area] = "reserved"]
    /\ Goto(c, "undo")
    /\ UNCHANGED <<Rest, taken, infos, buffer, oops>>

TilerFreeArea(c) ==
    /\ At(c, "undo")
    /\ area' = [area EXCEPT ![call[c].info.area] = "free"]
    /\ call' = [call EXCEPT ![c].pc = "unpages", ![c].info.area = 0]
    /\ UNCHANGED <<Rest, taken, infos, buffer, oops>>

MutTilerFreePages(c) ==
    LET info == call[c].info
        rest == IF info.lump \/ Len(info.pages) <= 1 THEN <<>>
                ELSE SubSeq(info.pages, 1, Len(info.pages) - 1)
    IN /\ At(c, "unpages")
       /\ taken' = IF info.lump \/ Len(info.pages) > 1
                   THEN taken \ (PagesOf(info.pages) \ PagesOf(rest)) ELSE taken
       /\ call' = [call EXCEPT ![c].pc = IF rest = <<>> THEN "nomem" ELSE "unpages",
                               ![c].info.pages = rest]
       /\ UNCHANGED <<Rest, area, infos, buffer, oops>>

(* A lump goes back at once, single pages from the last one taken.          *)
TilerFreePages(c) ==
    LET info == call[c].info
        rest == IF info.lump \/ Len(info.pages) <= 1 THEN <<>>
                ELSE SubSeq(info.pages, 1, Len(info.pages) - 1)
    IN /\ At(c, "unpages")
       /\ taken' = taken \ (PagesOf(info.pages) \ PagesOf(rest))
       /\ call' = [call EXCEPT ![c].pc = IF rest = <<>> THEN "nomem" ELSE "unpages",
                               ![c].info.pages = rest]
       /\ UNCHANGED <<Rest, area, infos, buffer, oops>>

-----------------------------------------------------------------------------
Init ==
    /\ VrfbInit
    /\ board \in Boards
    /\ probe = "no"
    /\ heap = [i \in Indices |-> "none"]
    /\ trial = <<>> /\ taken = {}
    /\ area = [a \in Areas |-> "free"]
    /\ infos = 0 /\ sglists = 0 /\ iomaps = 0
    /\ call = [c \in Clients |-> NoCall]
    /\ buffer = [b \in BufferIds |-> NoBuf]
    /\ oops = {}

Lengths == 1 .. MaxLen
FreeBufs == {b \in BufferIds : Free(b)}
NewBuf == IF FreeBufs = {} THEN {} ELSE {First(FreeBufs)}

Load == ProbeBegin \/ ProbeCreate \/ ProbeAdd \/ ProbeFails \/ Remove

TilerCall(c) ==
    \/ \E i \in Indices, n \in Lengths : TilerAlloc(c, i, n)
    \/ \E a \in Areas : TilerArea(c, a)
    \/ TilerReturn(c)
    \/ TilerLump(c)
    \/ TilerNoLump(c)
    \/ TilerPage(c)
    \/ TilerNoPage(c)
    \/ TilerPin(c)
    \/ TilerPinFails(c)
    \/ \E b \in NewBuf : TilerHandle(c, b)
    \/ TilerNoHandle(c)
    \/ TilerFill(c)
    \/ TilerUnpin(c)
    \/ TilerFreeArea(c)
    \/ TilerFreePages(c)

IonStep ==
    \/ Load
    \/ UseAfterFree
    \/ \E c \in Clients : TilerCall(c)
    \/ \E c \in Clients, b \in NewBuf, n \in Lengths : Alloc(c, b, {LargeSurfaces, TilerId}, n)
    \/ \E c \in Clients, b \in NewBuf, n \in Lengths : MemAlloc(c, b, n)
    \/ \E b \in BufferIds : FreeBuf(b)
    \/ \E b \in BufferIds : MapDma(b)
    \/ \E b \in BufferIds : UnmapDma(b)
    \/ \E b \in BufferIds : MapKernel(b)
    \/ \E b \in BufferIds : UnmapKernel(b)

(* The display drivers' calls share no state with the clients' (only the   *)
(* board decides that both exist), so TLC need not interleave them: bound.  *)
ClientsTurn == VrfbInit
DriversTurn ==
    /\ board = "omap3" /\ probe = "done"
    /\ \A b \in BufferIds : Free(b)
    /\ \A c \in Clients : call[c] = NoCall

Next ==
    \/ ClientsTurn /\ IonStep /\ UNCHANGED vrfbVars
    \/ DriversTurn /\ VrfbNext /\ UNCHANGED ionVars

Spec == Init /\ [][Next]_vars

-----------------------------------------------------------------------------
CallsAt(pcs) == {c \in Clients : call[c].pc \in pcs}
Holds(b) == PagesOf(buffer[b].pages) \cup PagesOf(buffer[b].info.pages)
Owes(c) == IF call[c].pc = "idle" THEN {} ELSE PagesOf(call[c].info.pages)

TypeOK ==
    /\ board \in Boards
    /\ probe \in {"no", "runs", "done", "removed", "died"}
    /\ heap \in [Indices -> {"none", "made", "freed", "leaked"}]
    /\ \A k \in DOMAIN trial : trial[k] \in Indices
    /\ taken \subseteq UNION {Pool(i) : i \in Indices}
    /\ area \in [Areas -> {"free", "reserved", "pinned"}]
    /\ infos \in Nat /\ sglists \in Nat /\ iomaps \in Nat
    /\ oops \subseteq {"client", "remove"}

(* Every page that is set in a pool is owed by one call in flight or held   *)
(* by one buffer, and a buffer's pages are of the pool its free gives them  *)
(* back to: no error path of omap_tiler_alloc loses or doubles a page.      *)
PagesAccounted ==
    /\ TypeOK
    /\ \A b, d \in BufferIds : b # d => Holds(b) \cap Holds(d) = {}
    /\ \A c, d \in Clients : c # d => Owes(c) \cap Owes(d) = {}
    /\ \A b \in BufferIds, c \in Clients : Holds(b) \cap Owes(c) = {}
    /\ taken = (UNION {Holds(b) : b \in BufferIds}) \cup (UNION {Owes(c) : c \in Clients})
    /\ \A b \in BufferIds : Holds(b) \subseteq (IF Free(b) THEN {} ELSE Pool(buffer[b].on))

(* A buffer gives its pages back to the heap they came from (ion_priv.h).   *)
HeapOfOrigin == \A b \in BufferIds : ~Free(b) => Holds(b) \subseteq Pool(buffer[b].on)

(* A block of tiler space is reserved and pinned exactly as far as the one  *)
(* call or buffer that has it has come, and each info, scatterlist and      *)
(* kernel mapping is one that a call or a buffer will give back.            *)
ResourcesMatch ==
    /\ \A a \in Areas :
        LET calls == {c \in Clients : call[c].pc # "idle" /\ call[c].info.area = a}
            bufs == {b \in BufferIds : buffer[b].info.area = a}
        IN /\ Cardinality(calls) + Cardinality(bufs) = (IF area[a] = "free" THEN 0 ELSE 1)
           /\ area[a] = "pinned" <=> bufs # {} \/ calls \cap CallsAt({"handle", "fill", "unpin"}) # {}
    /\ infos = Cardinality(Clients \ CallsAt({"idle"}))
               + Cardinality({b \in BufferIds : buffer[b].info # NoInfo})
    /\ sglists = Cardinality({b \in BufferIds : "dma" \in buffer[b].maps})
    /\ iomaps = Cardinality({b \in BufferIds : ~Free(b) /\ TypeOf(buffer[b].on) = Carveout
                                                /\ "kernel" \in buffer[b].maps})

(* Nothing a heap gives out is lost or given out twice. *)
HeapsAccounted == PagesAccounted /\ ResourcesMatch

(* Clients meet a destroyed heap only after a probe that failed at a later  *)
(* heap, and a pool that is destroyed has all its pages back.               *)
OopsOnlyAfterFailedProbe ==
    oops # {} => probe = "died" /\ \E i \in Indices : heap[i] = "freed" /\ InTree(i)

VrfbSound == SlotsExact /\ ShownAsAsked
=============================================================================
