-------------------------------- MODULE Ion --------------------------------
(***************************************************************************)
(* Lifetimes in the ION driver, modules/ion/gpu/ion.c: buffers, the        *)
(* handles clients hold on them, the clients themselves, and the files and *)
(* memory mappings that keep them alive.  Threads of several processes     *)
(* run system calls that interleave at the driver's locks and at every     *)
(* reference drop.                                                         *)
(*                                                                         *)
(* A system call is a stack of steps, work[t].  A step is what one         *)
(* function does while it holds a lock, or one kref_put; a kref_put that   *)
(* reaches zero pushes the destroy function, exactly where the C code      *)
(* calls it.  Memory is never reused, so a stale pointer is seen as one:   *)
(* an object goes from "none" to "live" to "freed" once.                   *)
(*                                                                         *)
(* External and modelled from how the driver uses it: the file table and   *)
(* VM areas of a process.  User programs give back each handle reference   *)
(* they got once (uref); they may also forget to.                          *)
(***************************************************************************)
EXTENDS Integers, Sequences, FiniteSets

CONSTANTS
  Procs,        \* processes (task_struct of a group leader)
  Threads,      \* their threads
  Proc,         \* Proc[t]: the group leader of thread t
  MaxBufs, MaxHandles, MaxClients, MaxFiles, MaxVmas,
                \* bound: objects of each type a behaviour may allocate
  MaxRefs,      \* bound: references a process takes on one handle
  MaxMaps       \* bound: areas there may be when mmap makes another; those
                \* beyond it come from splits (mprotect, partial munmap)

ASSUME ThreadAssumption ==
  IsFiniteSet(Procs) /\ IsFiniteSet(Threads) /\ Proc \in [Threads -> Procs]
ASSUME BoundAssumption ==
  {MaxBufs, MaxHandles, MaxClients, MaxFiles, MaxVmas, MaxRefs, MaxMaps} \subseteq Nat

Bufs    == 1 .. MaxBufs
Handles == 1 .. MaxHandles
Clients == 1 .. MaxClients
Files   == 1 .. MaxFiles
Vmas    == 1 .. MaxVmas

Null == 0       \* the NULL pointer

VARIABLES
  buffer,   \* struct ion_buffer: state, ref
  handle,   \* struct ion_handle: state, ref, client, buf, in the client's tree
  client,   \* struct ion_client: state, ref, task, in dev->user_clients
  root,     \* dev->user_clients.rb_node
  spinning, \* threads caught in the insert loop, dev->lock held
  file,     \* struct file: state, ref, kind, private_data
  fds,      \* fds[p]: the files open in p
  vma,      \* struct vm_area_struct: process, vm_file, vm_private_data
  uref,     \* uref[p][h]: handle references p got and has not freed
  work      \* work[t]: what is left of the system call t is in

objects == <<buffer, handle, client, root, spinning>>
vars == <<buffer, handle, client, root, spinning, file, fds, vma, uref, work>>

NoBuffer == [state |-> "none", ref |-> 0]
NoHandle == [state |-> "none", ref |-> 0, client |-> Null, buf |-> Null, intree |-> FALSE]
NoClient == [state |-> "none", ref |-> 0, task |-> Null, intree |-> FALSE]
NoFile   == [state |-> "none", ref |-> 0, kind |-> "none", obj |-> Null]
NoVma    == [proc |-> Null, file |-> Null, handle |-> Null]

Init ==
  /\ buffer = [b \in Bufs |-> NoBuffer]
  /\ handle = [h \in Handles |-> NoHandle]
  /\ client = [c \in Clients |-> NoClient]
  /\ root = Null
  /\ spinning = {}
  /\ file = [f \in Files |-> NoFile]
  /\ fds = [p \in Procs |-> {}]
  /\ vma = [v \in Vmas |-> NoVma]
  /\ uref = [p \in Procs |-> [h \in Handles |-> 0]]
  /\ work = [t \in Threads |-> <<>>]

-----------------------------------------------------------------------------
(* The next object of an allocator, if the bound leaves one. *)
IsFresh(f, x) == /\ x \in DOMAIN f
                 /\ f[x].state = "none"
                 /\ \A y \in DOMAIN f : y < x => f[y].state # "none"

(* The start of a system call, the end of one step of it, and the steps    *)
(* that replace it.                                                        *)
Call(t, steps) == work[t] = <<>> /\ work' = [work EXCEPT ![t] = steps]
At(t, op)      == work[t] # <<>> /\ Head(work[t]).op = op
Arg(t)         == Head(work[t])
Then(t, steps) == work' = [work EXCEPT ![t] = steps \o Tail(@)]

HPut(h) == [op |-> "hput", h |-> h]
BPut(b) == [op |-> "bput", b |-> b]
CPut(c) == [op |-> "cput", c |-> c]
FPut(f) == [op |-> "fput", f |-> f]

DevLockFree == spinning = {}

DevFds(p)   == {f \in fds[p] : file[f].kind = "dev"}
ShareFds(p) == {f \in fds[p] : file[f].kind = "share"}
Tree(c)     == {h \in Handles : handle[h].intree /\ handle[h].client = c}
UserClients == {c \in Clients : client[c].intree}
ClientsOf(p) == {c \in UserClients : client[c].task = p}

-----------------------------------------------------------------------------
(* kref_put on the four kinds of object.                                   *)

(* The steps of ion_handle_destroy: the buffer reference goes first, with  *)
(* no lock held, and the handle stays in its client's tree until the       *)
(* second step.                                                            *)
DestroySteps(h) == <<BPut(handle[h].buf), [op |-> "herase", h |-> h]>>

(* ion_handle_put, and the call of ion_handle_destroy at zero. *)
HandlePut(t) ==
  LET h == Arg(t).h
      last == handle[h].ref = 1
  IN
  /\ At(t, "hput")
  /\ handle[h].state # "freed" /\ handle[h].ref > 0
  /\ handle' = [handle EXCEPT ![h].ref = @ - 1,
                              ![h].state = IF last THEN "dying" ELSE @]
  /\ Then(t, IF last THEN DestroySteps(h) ELSE <<>>)
  /\ UNCHANGED <<buffer, client, root, spinning, file, fds, vma, uref>>

(* A mistake: the handle is freed and not erased from the tree. *)
MutHandleErase(t) ==
  LET h == Arg(t).h IN
  /\ At(t, "herase")
  /\ client[handle[h].client].state # "freed"
  /\ handle' = [handle EXCEPT ![h].state = "freed"]
  /\ uref' = [p \in Procs |-> [uref[p] EXCEPT ![h] = 0]]
  /\ Then(t, <<>>)
  /\ UNCHANGED <<buffer, client, root, spinning, file, fds, vma>>

(* The end of ion_handle_destroy, under the client's lock. *)
HandleErase(t) ==
  LET h == Arg(t).h IN
  /\ At(t, "herase")
  /\ client[handle[h].client].state # "freed"
  /\ handle' = [handle EXCEPT ![h] = [NoHandle EXCEPT !.state = "freed"]]
  /\ uref' = [p \in Procs |-> [uref[p] EXCEPT ![h] = 0]]
  /\ Then(t, <<>>)
  /\ UNCHANGED <<buffer, client, root, spinning, file, fds, vma>>

(* ion_buffer_put. *)
BufferPut(t) ==
  LET b == Arg(t).b IN
  /\ At(t, "bput")
  /\ buffer[b].state # "freed" /\ buffer[b].ref > 0
  /\ buffer' = [buffer EXCEPT ![b].ref = @ - 1]
  /\ Then(t, IF buffer[b].ref = 1 THEN <<[op |-> "bdestroy", b |-> b]>> ELSE <<>>)
  /\ UNCHANGED <<handle, client, root, spinning, file, fds, vma, uref>>

(* ion_buffer_destroy: back to the heap, then out of dev->buffers. *)
BufferDestroy(t) ==
  LET b == Arg(t).b IN
  /\ At(t, "bdestroy")
  /\ DevLockFree
  /\ buffer' = [buffer EXCEPT ![b].state = "freed"]
  /\ Then(t, <<>>)
  /\ UNCHANGED <<handle, client, root, spinning, file, fds, vma, uref>>

(* ion_client_put. *)
ClientPut(t) ==
  LET c == Arg(t).c IN
  /\ At(t, "cput")
  /\ client[c].state # "freed" /\ client[c].ref > 0
  /\ client' = [client EXCEPT ![c].ref = @ - 1]
  /\ Then(t, IF client[c].ref = 1 THEN <<[op |-> "cdestroy", c |-> c]>> ELSE <<>>)
  /\ UNCHANGED <<buffer, handle, root, spinning, file, fds, vma, uref>>

(* One turn of the loop of _ion_client_destroy: the handle of lowest       *)
(* address is destroyed, whatever its reference count.                     *)
ClientDestroyHandle(t) ==
  LET c == Arg(t).c IN
  /\ At(t, "cdestroy")
  /\ \E h \in Tree(c) :
       /\ handle' = [handle EXCEPT ![h].state = "dying"]
       /\ Then(t, DestroySteps(h) \o <<[op |-> "cdestroy", c |-> c]>>)
  /\ UNCHANGED <<buffer, client, root, spinning, file, fds, vma, uref>>

(* _ion_client_destroy once the tree is empty: rb_erase and kfree.  With   *)
(* two clients the other one becomes the root.                             *)
ClientErase(t) ==
  LET c == Arg(t).c
      rest == UserClients \ {c}
  IN
  /\ At(t, "cdestroy")
  /\ Tree(c) = {}
  /\ DevLockFree
  /\ client' = [client EXCEPT ![c] = [NoClient EXCEPT !.state = "freed"]]
  /\ root' \in IF rest = {} THEN {Null} ELSE IF root = c THEN rest ELSE {root}
  /\ Then(t, <<>>)
  /\ UNCHANGED <<buffer, handle, spinning, file, fds, vma, uref>>

(* fput; the last one calls ion_release or ion_share_release. *)
FilePut(t) ==
  LET f == Arg(t).f
      obj == file[f].obj
      release == IF file[f].kind = "dev" THEN CPut(obj) ELSE BPut(obj)
  IN
  /\ At(t, "fput")
  /\ file' = [file EXCEPT ![f] = IF file[f].ref = 1 THEN [NoFile EXCEPT !.state = "freed"]
                                 ELSE [file[f] EXCEPT !.ref = @ - 1]]
  /\ Then(t, IF file[f].ref = 1 THEN <<release>> ELSE <<>>)
  /\ UNCHANGED <<buffer, handle, client, root, spinning, fds, vma, uref>>

-----------------------------------------------------------------------------
(* Clients: open and close of /dev/ion.                                    *)

(* What ion_client_lookup may return to a thread of process p.  The root   *)
(* of the tree was read before dev->lock was taken: NULL then means NULL   *)
(* now, and from a node erased since the walk may find the client or not.  *)
LookupResults(p, r) ==
  IF r = Null \/ ClientsOf(p) = {} THEN {Null}
  ELSE IF client[r].intree THEN ClientsOf(p)
  ELSE ClientsOf(p) \cup {Null}

(* A new struct file, and its number in the table of process p. *)
NewFile(f, kind, obj) ==
  /\ IsFresh(file, f)
  /\ file' = [file EXCEPT ![f] = [state |-> "live", ref |-> 1, kind |-> kind, obj |-> obj]]

Install(p, f) == fds' = [fds EXCEPT ![p] = @ \cup {f}]

(* ion_open: ion_client_create reads the root of dev->user_clients. *)
Open(t) ==
  /\ \E f \in Files :
       /\ NewFile(f, "dev", Null)
       /\ Call(t, <<[op |-> "openLookup", root |-> root, f |-> f]>>)
  /\ UNCHANGED <<objects, fds, vma, uref>>

(* The process has a client: take a reference, return it. *)
OpenFound(t) ==
  LET f == Arg(t).f IN
  /\ At(t, "openLookup")
  /\ DevLockFree
  /\ \E c \in LookupResults(Proc[t], Arg(t).root) \ {Null} :
       /\ client' = [client EXCEPT ![c].ref = @ + 1]
       /\ file' = [file EXCEPT ![f].obj = c]
  /\ Install(Proc[t], f)
  /\ Then(t, <<>>)
  /\ UNCHANGED <<buffer, handle, root, spinning, vma, uref>>

(* It has none: dev->lock is dropped and a client is allocated. *)
OpenMissed(t) ==
  /\ At(t, "openLookup")
  /\ DevLockFree
  /\ Null \in LookupResults(Proc[t], Arg(t).root)
  /\ \E c \in Clients :
       /\ IsFresh(client, c)
       /\ client' = [client EXCEPT ![c] =
                       [state |-> "live", ref |-> 1, task |-> Proc[t], intree |-> FALSE]]
       /\ Then(t, <<[op |-> "insert", c |-> c, f |-> Arg(t).f]>>)
  /\ UNCHANGED <<buffer, handle, root, spinning, file, fds, vma, uref>>

(* No memory for a client: open fails and the file is dropped unopened. *)
OpenNoMemory(t) ==
  /\ At(t, "openLookup")
  /\ DevLockFree
  /\ Null \in LookupResults(Proc[t], Arg(t).root)
  /\ file' = [file EXCEPT ![Arg(t).f] = [NoFile EXCEPT !.state = "freed"]]
  /\ Then(t, <<>>)
  /\ UNCHANGED <<objects, fds, vma, uref>>

(* The new client is linked into dev->user_clients. *)
OpenInsert(t) ==
  LET c == Arg(t).c IN
  /\ At(t, "insert")
  /\ DevLockFree
  /\ ClientsOf(Proc[t]) = {}
  /\ client' = [client EXCEPT ![c].intree = TRUE]
  /\ root' = IF root = Null THEN c ELSE root
  /\ file' = [file EXCEPT ![Arg(t).f].obj = c]
  /\ Install(Proc[t], Arg(t).f)
  /\ Then(t, <<>>)
  /\ UNCHANGED <<buffer, handle, spinning, vma, uref>>

(* A client with the same task is met on the way down: neither comparison  *)
(* moves p, and the loop never ends, with dev->lock held.                  *)
OpenSpin(t) ==
  /\ At(t, "insert")
  /\ DevLockFree
  /\ ClientsOf(Proc[t]) # {}
  /\ spinning' = {t}
  /\ UNCHANGED <<buffer, handle, client, root, file, fds, vma, uref, work>>

(* close of any file of the process. *)
Close(t, f) ==
  /\ f \in fds[Proc[t]]
  /\ fds' = [fds EXCEPT ![Proc[t]] = @ \ {f}]
  /\ Call(t, <<FPut(f)>>)
  /\ UNCHANGED <<objects, file, vma, uref>>

-----------------------------------------------------------------------------
(* ioctl on /dev/ion.  f is the file it is called on; an ioctl of several  *)
(* steps holds a reference on f until it returns.                          *)

Pin(f) == file' = [file EXCEPT ![f].ref = @ + 1]

(* ion_handle_create and ion_handle_add, which no step of another thread   *)
(* can tell apart: a handle of client c on buffer b, with reference count  *)
(* 1, in the client's tree.                                                *)
HandleCreate(c, b) ==
  [state |-> "live", ref |-> 1, client |-> c, buf |-> b, intree |-> FALSE]
HandleAdd(h, new) == handle' = [handle EXCEPT ![h] = [new EXCEPT !.intree = TRUE]]

NewHandle(h, c, b) == IsFresh(handle, h) /\ HandleAdd(h, HandleCreate(c, b))

(* ION_IOC_ALLOC.  Nobody else can reach the new buffer or handle before   *)
(* ion_handle_add, so ion_alloc is one step: the buffer is created with    *)
(* one reference, the handle takes a second, the first is dropped.         *)
Alloc(t, f) ==
  LET c == file[f].obj IN
  /\ f \in DevFds(Proc[t])
  /\ DevLockFree
  /\ Call(t, <<>>)
  /\ \E b \in Bufs, h \in Handles :
       /\ IsFresh(buffer, b)
       /\ NewHandle(h, c, b)
       /\ buffer' = [buffer EXCEPT ![b] = [state |-> "live", ref |-> 1]]
       /\ uref' = [uref EXCEPT ![Proc[t]][h] = 1]
  /\ UNCHANGED <<client, root, spinning, file, fds, vma>>

(* ion_alloc with no memory for the handle: the buffer's only reference is *)
(* put.                                                                    *)
AllocNoHandle(t, f) ==
  /\ f \in DevFds(Proc[t])
  /\ DevLockFree
  /\ \E b \in Bufs :
       /\ IsFresh(buffer, b)
       /\ buffer' = [buffer EXCEPT ![b] = [state |-> "live", ref |-> 1]]
       /\ Call(t, <<BPut(b), FPut(f)>>)
  /\ Pin(f)
  /\ UNCHANGED <<handle, client, root, spinning, fds, vma, uref>>

(* ION_IOC_FREE: the handle is looked up under the client's lock, the lock *)
(* is dropped, and ion_free does the same again before it puts the handle. *)
Free(t, f, h) ==
  LET c == file[f].obj IN
  /\ f \in DevFds(Proc[t])
  /\ uref[Proc[t]][h] > 0
  /\ uref' = [uref EXCEPT ![Proc[t]][h] = @ - 1]
  /\ h \in Tree(c)
  /\ Call(t, <<[op |-> "free", c |-> c, h |-> h], FPut(f)>>)
  /\ Pin(f)
  /\ UNCHANGED <<objects, fds, vma>>

(* ion_free. *)
FreeHandle(t) ==
  LET h == Arg(t).h
      c == Arg(t).c
  IN
  /\ At(t, "free")
  /\ handle[h].state # "freed"          \* it reads handle->client first
  /\ Then(t, IF h \in Tree(c) THEN <<HPut(h)>> ELSE <<>>)
  /\ UNCHANGED <<objects, file, fds, vma, uref>>

(* Mistakes: no reference is taken on the buffer; the new file points to    *)
(* the handle instead of the buffer.                                       *)
MutShareNoGet(t, f, h) ==
  LET c == file[f].obj
      b == handle[h].buf
  IN
  /\ f \in DevFds(Proc[t])
  /\ h \in Tree(c)
  /\ Call(t, <<>>)
  /\ \E sf \in Files : NewFile(sf, "share", b) /\ Install(Proc[t], sf)
  /\ UNCHANGED <<objects, vma, uref>>

MutShareHandle(t, f, h) ==
  /\ f \in DevFds(Proc[t])
  /\ h \in Tree(file[f].obj)
  /\ Call(t, <<>>)
  /\ \E sf \in Files : NewFile(sf, "share", h) /\ Install(Proc[t], sf)
  /\ buffer' = [buffer EXCEPT ![handle[h].buf].ref = @ + 1]
  /\ UNCHANGED <<handle, client, root, spinning, vma, uref>>

(* ION_IOC_SHARE and ION_IOC_MAP, under the client's lock: a new file with *)
(* a reference of its own on the buffer.                                   *)
Share(t, f, h) ==
  LET c == file[f].obj
      b == handle[h].buf
  IN
  /\ f \in DevFds(Proc[t])
  /\ h \in Tree(c)
  /\ Call(t, <<>>)
  /\ \E sf \in Files : NewFile(sf, "share", b) /\ Install(Proc[t], sf)
  /\ buffer' = [buffer EXCEPT ![b].ref = @ + 1]
  /\ UNCHANGED <<handle, client, root, spinning, vma, uref>>

(* A shared file is passed to another process (binder, a socket). *)
PassFd(t, p, sf) ==
  /\ sf \in ShareFds(Proc[t])
  /\ p # Proc[t] /\ sf \notin fds[p]
  /\ Call(t, <<>>)
  /\ Install(p, sf)
  /\ Pin(sf)
  /\ UNCHANGED <<objects, vma, uref>>

(* ION_IOC_IMPORT: fget of the shared file, then ion_import. *)
Import(t, f, sf) ==
  /\ f \in DevFds(Proc[t])
  /\ sf \in ShareFds(Proc[t])
  /\ \A h \in Tree(file[f].obj) : uref[Proc[t]][h] < MaxRefs
  /\ Call(t, <<[op |-> "import", c |-> file[f].obj, b |-> file[sf].obj],
                FPut(sf), FPut(f)>>)
  /\ file' = [file EXCEPT ![f].ref = @ + 1, ![sf].ref = @ + 1]
  /\ UNCHANGED <<objects, fds, vma, uref>>

(* ion_import, under the client's lock: the client's handle on b, with one *)
(* more reference, or a new one.                                           *)
ImportHandle(c, b, h) ==
  LET known == {k \in Tree(c) : handle[k].buf = b} IN
  \/ /\ h \in known
     /\ handle' = [handle EXCEPT ![h].ref = @ + 1]
     /\ UNCHANGED buffer
  \/ /\ known = {}
     /\ NewHandle(h, c, b)
     /\ buffer' = [buffer EXCEPT ![b].ref = @ + 1]

(* ion_import with no handle on b and no memory for one. *)
NoHandleFor(c, b) == {k \in Tree(c) : handle[k].buf = b} = {}

ImportDone(t) ==
  /\ At(t, "import")
  /\ \E h \in Handles :
       /\ ImportHandle(Arg(t).c, Arg(t).b, h)
       /\ uref' = [uref EXCEPT ![Proc[t]][h] = @ + 1]
  /\ Then(t, <<>>)
  /\ UNCHANGED <<client, root, spinning, file, fds, vma>>

ImportFails(t) ==
  /\ At(t, "import")
  /\ NoHandleFor(Arg(t).c, Arg(t).b)
  /\ Then(t, <<>>)
  /\ UNCHANGED <<objects, file, fds, vma, uref>>

-----------------------------------------------------------------------------
(* Mappings of a shared file.                                              *)

(* mmap: the VM area holds the file; ion_share_mmap looks the client up. *)
Mmap(t, sf) ==
  /\ sf \in ShareFds(Proc[t])
  /\ Cardinality({v \in Vmas : vma[v] # NoVma}) < MaxMaps
  /\ Call(t, <<[op |-> "mmapLookup", root |-> root, f |-> sf]>>)
  /\ Pin(sf)
  /\ UNCHANGED <<objects, fds, vma, uref>>

(* A mistake: ion_client_lookup without ion_client_get. *)
MutMmapFound(t) ==
  LET sf == Arg(t).f IN
  /\ At(t, "mmapLookup")
  /\ DevLockFree
  /\ \E c \in LookupResults(Proc[t], Arg(t).root) \ {Null} :
       Then(t, <<[op |-> "mmapImport", c |-> c, f |-> sf]>>)
  /\ UNCHANGED <<objects, file, fds, vma, uref>>

(* The client is found and referenced; a mapping larger than the buffer is *)
(* refused, and puts the client.                                           *)
MmapFound(t) ==
  LET sf == Arg(t).f IN
  /\ At(t, "mmapLookup")
  /\ DevLockFree
  /\ \E c \in LookupResults(Proc[t], Arg(t).root) \ {Null} :
       /\ client' = [client EXCEPT ![c].ref = @ + 1]
       /\ \/ Then(t, <<[op |-> "mmapImport", c |-> c, f |-> sf]>>)
          \/ Then(t, <<CPut(c), FPut(sf)>>)
  /\ UNCHANGED <<buffer, handle, root, spinning, file, fds, vma, uref>>

(* A process without a client may not map. *)
MmapNoClient(t) ==
  /\ At(t, "mmapLookup")
  /\ DevLockFree
  /\ Null \in LookupResults(Proc[t], Arg(t).root)
  /\ Then(t, <<FPut(Arg(t).f)>>)
  /\ UNCHANGED <<objects, file, fds, vma, uref>>

(* ion_import for the mapping. *)
MmapImport(t) ==
  LET c == Arg(t).c
      sf == Arg(t).f
  IN
  /\ At(t, "mmapImport")
  /\ \E h \in Handles :
       /\ ImportHandle(c, file[sf].obj, h)
       /\ Then(t, <<[op |-> "mmapMap", c |-> c, h |-> h, f |-> sf]>>)
  /\ UNCHANGED <<client, root, spinning, file, fds, vma, uref>>

(* A mistake: the error path that returns without putting the client. *)
MutMmapImportFails(t) ==
  LET c == Arg(t).c
      sf == Arg(t).f
  IN
  /\ At(t, "mmapImport")
  /\ NoHandleFor(c, file[sf].obj)
  /\ Then(t, <<FPut(sf)>>)
  /\ UNCHANGED <<objects, file, fds, vma, uref>>

MmapImportFails(t) ==
  LET c == Arg(t).c
      sf == Arg(t).f
  IN
  /\ At(t, "mmapImport")
  /\ NoHandleFor(c, file[sf].obj)
  /\ Then(t, <<CPut(c), FPut(sf)>>)
  /\ UNCHANGED <<objects, file, fds, vma, uref>>

(* The heap maps the pages, and the area gets ion_vm_ops and the handle. *)
MmapDone(t) ==
  /\ At(t, "mmapMap")
  /\ handle[Arg(t).h].state # "freed"
  /\ \E v \in Vmas :
       /\ vma[v] = NoVma
       /\ \A w \in Vmas : w < v => vma[w] # NoVma
       /\ vma' = [vma EXCEPT ![v] = [proc |-> Proc[t], file |-> Arg(t).f, handle |-> Arg(t).h]]
  /\ Then(t, <<>>)
  /\ UNCHANGED <<objects, file, fds, uref>>

(* map_user is missing or fails: err1 and err, then the VM drops the file. *)
MmapMapFails(t) ==
  /\ At(t, "mmapMap")
  /\ handle[Arg(t).h].state # "freed"
  /\ Then(t, <<HPut(Arg(t).h), CPut(Arg(t).c), FPut(Arg(t).f)>>)
  /\ UNCHANGED <<objects, file, fds, vma, uref>>

(* A mistake: the client is put before the handle. *)
MutMunmap(t, v) ==
  LET h == vma[v].handle IN
  /\ vma[v] # NoVma /\ vma[v].proc = Proc[t]
  /\ vma' = [vma EXCEPT ![v] = NoVma]
  /\ h # Null => handle[h].state # "freed"
  /\ Call(t, IF h = Null THEN <<FPut(vma[v].file)>>
              ELSE <<CPut(handle[h].client), HPut(h), FPut(vma[v].file)>>)
  /\ UNCHANGED <<objects, file, fds, uref>>

(* munmap of an area: ion_vma_close puts the handle and then the client    *)
(* the handle belongs to; the VM drops the file.                           *)
Munmap(t, v) ==
  LET h == vma[v].handle IN
  /\ vma[v] # NoVma /\ vma[v].proc = Proc[t]
  /\ vma' = [vma EXCEPT ![v] = NoVma]
  /\ h # Null => handle[h].state # "freed"
  /\ Call(t, IF h = Null THEN <<FPut(vma[v].file)>>
              ELSE <<HPut(h), CPut(handle[h].client), FPut(vma[v].file)>>)
  /\ UNCHANGED <<objects, file, fds, uref>>

(* An area is split in two; ion_vma_open is called on the new one.  It     *)
(* takes a reference on the client it finds, and none on the handle.       *)
SplitVma(t, v, w) ==
  /\ DevLockFree
  /\ vma[v] # NoVma /\ vma[v].proc = Proc[t]
  /\ vma[w] = NoVma
  /\ Call(t, <<>>)
  /\ Pin(vma[v].file)
  /\ \E c \in LookupResults(Proc[t], root) :
       IF c = Null
       THEN /\ vma' = [vma EXCEPT ![w] = [vma[v] EXCEPT !.handle = Null]]
            /\ UNCHANGED client
       ELSE /\ vma' = [vma EXCEPT ![w] = vma[v]]
            /\ client' = [client EXCEPT ![c].ref = @ + 1]
  /\ UNCHANGED <<buffer, handle, root, spinning, fds, uref>>

-----------------------------------------------------------------------------
(* A step of a system call under way. *)
Step(t) ==
  \/ HandlePut(t) \/ HandleErase(t)
  \/ BufferPut(t) \/ BufferDestroy(t)
  \/ ClientPut(t) \/ ClientDestroyHandle(t) \/ ClientErase(t)
  \/ FilePut(t)
  \/ OpenFound(t) \/ OpenMissed(t) \/ OpenNoMemory(t)
  \/ OpenInsert(t) \/ OpenSpin(t)
  \/ FreeHandle(t) \/ ImportDone(t) \/ ImportFails(t)
  \/ MmapFound(t) \/ MmapNoClient(t) \/ MmapImport(t) \/ MmapImportFails(t)
  \/ MmapDone(t) \/ MmapMapFails(t)

(* A system call begins. *)
Enter(t) ==
  \/ Open(t)
  \/ \E f \in Files :
       \/ Close(t, f)
       \/ Alloc(t, f) \/ AllocNoHandle(t, f)
       \/ \E h \in Handles : Free(t, f, h) \/ Share(t, f, h)
       \/ \E sf \in Files : Import(t, f, sf)
       \/ \E p \in Procs : PassFd(t, p, f)
       \/ Mmap(t, f)
  \/ \E v \in Vmas : Munmap(t, v) \/ \E w \in Vmas : SplitVma(t, v, w)

Next == \E t \in Threads : Step(t) \/ Enter(t)

(* The scheduler runs every thread that is inside a system call. *)
Fairness == \A t \in Threads : WF_vars(Step(t))

Spec     == Init /\ [][Next]_vars
FairSpec == Spec /\ Fairness

-----------------------------------------------------------------------------
(* The steps a stack is made of. *)
Steps ==
  [op : {"hput", "herase"}, h : Handles] \cup [op : {"bput", "bdestroy"}, b : Bufs]
  \cup [op : {"cput", "cdestroy"}, c : Clients] \cup [op : {"fput"}, f : Files]
  \cup [op : {"openLookup", "mmapLookup"}, root : Clients \cup {Null}, f : Files]
  \cup [op : {"insert", "mmapImport"}, c : Clients, f : Files]
  \cup [op : {"mmapMap"}, c : Clients, h : Handles, f : Files]
  \cup [op : {"free"}, c : Clients, h : Handles] \cup [op : {"import"}, c : Clients, b : Bufs]

(* Every field has its type; what a shared file points to is a buffer.     *)
TypeOK ==
  /\ buffer \in [Bufs -> [state : {"none", "live", "freed"}, ref : Nat]]
  /\ handle \in [Handles -> [state : {"none", "live", "dying", "freed"}, ref : Nat,
                             client : Clients \cup {Null}, buf : Bufs \cup {Null},
                             intree : BOOLEAN]]
  /\ client \in [Clients -> [state : {"none", "live", "freed"}, ref : Nat,
                             task : Procs \cup {Null}, intree : BOOLEAN]]
  /\ root \in Clients \cup {Null}
  /\ spinning \subseteq Threads
  /\ file \in [Files -> [state : {"none", "live", "freed"}, ref : Nat,
                         kind : {"none", "dev", "share"},
                         obj : {Null} \cup Clients \cup Bufs]]
  /\ \A f \in Files : file[f].kind = "share" => file[f].obj \in Bufs
  /\ fds \in [Procs -> SUBSET Files]
  /\ vma \in [Vmas -> [proc : Procs \cup {Null}, file : Files \cup {Null},
                       handle : Handles \cup {Null}]]
  /\ uref \in [Procs -> [Handles -> Nat]]
  /\ work \in [Threads -> Seq(Steps)]

(* How often the steps of a set are in the stacks of all threads. *)
Places == UNION {{t} \X DOMAIN work[t] : t \in Threads}

Pending(S) == Cardinality({x \in Places : work[x[1]][x[2]] \in S})

BufferHandles(b) == {h \in Handles : handle[h].state = "live" /\ handle[h].buf = b}
BufferFiles(b)   == {f \in Files : file[f].state = "live" /\ file[f].kind = "share"
                                   /\ file[f].obj = b}
ClientFiles(c)   == {f \in Files : file[f].state = "live" /\ file[f].kind = "dev"
                                   /\ file[f].obj = c}
HandleAreas(h)   == {v \in Vmas : vma[v].handle = h}
ClientAreas(c)   == {v \in Vmas : vma[v].handle # Null /\ handle[vma[v].handle].client = c}

(* The steps that hold a reference on a handle or a client. *)
HandleSteps(h) ==
  {HPut(h)} \cup [op : {"free"}, c : Clients, h : {h}]
  \cup [op : {"mmapMap"}, c : Clients, h : {h}, f : Files]

ClientSteps(c) ==
  {CPut(c)} \cup [op : {"insert", "mmapImport"}, c : {c}, f : Files]
  \cup [op : {"mmapMap"}, c : {c}, h : Handles, f : Files]

(* The reference count of a buffer is the number of handles and shared     *)
(* files on it, plus the references about to be dropped.                   *)
BufferRefExact ==
  \A b \in Bufs : buffer[b].state = "live" =>
    buffer[b].ref = Cardinality(BufferHandles(b)) + Cardinality(BufferFiles(b))
                    + Pending({BPut(b)})

(* The reference count of a handle is what its process holds, plus one per *)
(* VM area, plus what a call under way holds; no other process has any.    *)
Owner(h) == client[handle[h].client].task

HandleRefExact ==
  \A h \in Handles : handle[h].state = "live" =>
    /\ handle[h].ref = uref[Owner(h)][h] + Cardinality(HandleAreas(h)) + Pending(HandleSteps(h))
    /\ \A p \in Procs \ {Owner(h)} : uref[p][h] = 0

(* The reference count of a client is the number of its open device files, *)
(* plus one per VM area of its handles, plus what a call under way holds.  *)
ClientRefExact ==
  \A c \in Clients : client[c].state = "live" =>
    client[c].ref = Cardinality(ClientFiles(c)) + Cardinality(ClientAreas(c))
                    + Pending(ClientSteps(c))

(* Every count equals the references that exist, in the middle of every    *)
(* call of every process: none is dropped twice, none is forgotten.        *)
RefsExact == TypeOK /\ BufferRefExact /\ HandleRefExact /\ ClientRefExact

(* No step of a call touches a handle, buffer or client that was freed, or *)
(* drops a reference count that is already zero.                           *)
NoUseAfterFree ==
  \A t \in Threads : work[t] # <<>> =>
    LET s == Arg(t) IN
    /\ s.op \in {"hput", "herase", "free", "mmapMap"}
         => handle[s.h].state # "freed"
    /\ s.op = "hput" => handle[s.h].ref > 0
    /\ s.op \in {"bput", "bdestroy", "import"} => buffer[s.b].state = "live"
    /\ s.op = "bput" => buffer[s.b].ref > 0
    /\ s.op \in {"cput", "cdestroy", "import", "mmapImport", "mmapMap"}
         => client[s.c].state = "live"
    /\ s.op = "cput" => client[s.c].ref > 0
    /\ s.op = "herase" => client[handle[s.h].client].state = "live"

(* "take a reference to it so it can't go away while this mapping exists"  *)
(* (ion.c:888-890) and "so it can't go away until this vma is closed"      *)
(* (ion.c:835-836): the client, and with it the handle, outlives a VM area *)
(* that points to the handle.                                              *)
MappingPinsClient ==
  \A v \in Vmas : vma[v].handle # Null =>
    /\ handle[vma[v].handle].state = "live"
    /\ client[handle[vma[v].handle].client].state = "live"

(* ion_share_release (ion.c:820-822): a shared file's reference "prevents  *)
(* the buffer from going away" although the client that shared it exited.  *)
FdPinsBuffer ==
  \A f \in Files : (file[f].state = "live" /\ file[f].kind = "share") =>
    buffer[file[f].obj].state = "live" /\ buffer[file[f].obj].ref > 0

(* What user space can still reach through an area or a descriptor exists. *)
ReachablePinned == MappingPinsClient /\ FdPinsBuffer

(* Once every descriptor is closed and every area unmapped, whatever users *)
(* forgot to free, the driver holds no buffer, handle or client.           *)
NothingLeft ==
  ( /\ \A t \in Threads : work[t] = <<>>
    /\ \A p \in Procs : fds[p] = {}
    /\ \A v \in Vmas : vma[v] = NoVma )
  => /\ \A b \in Bufs : buffer[b].state # "live"
     /\ \A h \in Handles : handle[h].state \in {"none", "freed"}
     /\ \A c \in Clients : client[c].state # "live"

(* A process whose client is in dev->user_clients never gets as far as     *)
(* inserting a second: "see if a client already exists" (ion.c:706-707).   *)
NoSecondClient ==
  \A t \in Threads : (work[t] # <<>> /\ Arg(t).op = "insert") => ClientsOf(Proc[t]) = {}

(* Every system call returns (the loop of _ion_client_destroy terminates)  *)
(* as long as no thread is caught in the insert loop of ion_client_create. *)
CallsEnd ==
  \A t \in Threads : work[t] # <<>> ~> (work[t] = <<>> \/ ~DevLockFree)

(* Ion implements BufferLife: a buffer's holders are the handles and the   *)
(* shared files on it.                                                     *)
Holders == ({"handle"} \X Handles) \cup ({"file"} \X Files)
HoldersOf(b) == ({"handle"} \X BufferHandles(b)) \cup ({"file"} \X BufferFiles(b))
Life == INSTANCE BufferLife WITH
  Buffers <- Bufs,
  life    <- [b \in Bufs |-> buffer[b].state],
  holders <- [b \in Bufs |-> HoldersOf(b)]
ImplementsBufferLife == Life!Spec
=============================================================================
