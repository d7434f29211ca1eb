------------------------------ MODULE PvrHook ------------------------------
(***************************************************************************)
(* modules/ionpvr: a kernel module that overwrites the first instruction   *)
(* of ProcSeqShowSysNodes with a jump to a function of its own, which runs *)
(* the original through the instruction it saved, and takes the jump out   *)
(* again when the last node has been shown or the module is removed.       *)
(*                                                                         *)
(* The function is called once for a token and once for every node when a  *)
(* process reads /proc/pvr/nodes, on any processor, without the kernel's   *)
(* lock.  Writes become visible in the order of the source, to instruction *)
(* fetches too.  What the module prints is left out.                       *)
(***************************************************************************)
EXTENDS Integers, FiniteSets

CONSTANTS
  PvrReaders,     \* bound: processes that read the file
  PvrNodes        \* bound: how many nodes there are

ASSUME NodesAssumption == PvrNodes \in Nat \ {0}

VARIABLES
  code,           \* target[0]: "first", the instruction it had, or "jump"
  hi,             \* g_hi[0]: asm0, and whether jmp, target_cont, target are set
  hooked,
  load,           \* the module: "absent", "loaded", or what its init or exit does next
  sgx,            \* datainit, connected, and whether psKernelHandleBase is set
  reader          \* each process: where it is, the element, how many were shown

hookVars == <<code, hi, hooked, load, sgx, reader>>

NoHook == [asm0 |-> "zero", jmp |-> FALSE, cont |-> FALSE, target |-> FALSE]
NoSgx  == [datainit |-> FALSE, connected |-> FALSE, base |-> FALSE]
NoRead == [at |-> "idle", el |-> 0, shown |-> 0, early |-> FALSE]

PvrHookInit ==
  /\ code = "first" /\ hi = NoHook /\ hooked = FALSE
  /\ load = "absent" /\ sgx = NoSgx
  /\ reader = [r \in PvrReaders |-> NoRead]

(* hook_init and hook_exit hold the kernel's lock. *)
KernelLocked == load \in {"find", "save", "patch", "jmp", "cont"}

-----------------------------------------------------------------------------
(* init_ionpvr *)

Insert ==
  /\ load = "absent" /\ load' = "find"
  /\ hi' = NoHook /\ hooked' = FALSE /\ sgx' = NoSgx
  /\ UNCHANGED <<code, reader>>

(* hook: the name may not be found, which no one is told. *)
Find ==
  /\ load = "find"
  /\ \/ load' = "save" /\ hi' = [hi EXCEPT !.target = TRUE]
     \/ load' = "flag" /\ UNCHANGED hi
  /\ UNCHANGED <<code, hooked, sgx, reader>>

Save ==
  /\ load = "save" /\ load' = "patch"
  /\ hi' = [hi EXCEPT !.asm0 = code]
  /\ UNCHANGED <<code, hooked, sgx, reader>>

Patch ==
  /\ load = "patch" /\ load' = "jmp"
  /\ code' = "jump"
  /\ UNCHANGED <<hi, hooked, sgx, reader>>

SetJmp ==
  /\ load = "jmp" /\ load' = "cont"
  /\ hi' = [hi EXCEPT !.jmp = TRUE]
  /\ UNCHANGED <<code, hooked, sgx, reader>>

SetCont ==
  /\ load = "cont" /\ load' = "flag"
  /\ hi' = [hi EXCEPT !.cont = TRUE]
  /\ UNCHANGED <<code, hooked, sgx, reader>>

SetHooked ==
  /\ load = "flag" /\ load' = "sniff"
  /\ hooked' = TRUE
  /\ UNCHANGED <<code, hi, sgx, reader>>

(* sniff_handle_base, by what the PVR driver answers; it never fails. *)
SniffHandleBase ==
  /\ load = "sniff" /\ load' = "loaded"
  /\ sgx' \in {s \in [datainit : BOOLEAN, connected : BOOLEAN, base : BOOLEAN] :
                 s.base => s.connected}
  /\ UNCHANGED <<code, hi, hooked, reader>>

-----------------------------------------------------------------------------
(* unhook, of a hook that has found its target. *)
Unhooked == IF hi.target THEN hi.asm0 ELSE code

(* exit_ionpvr looks at hooked before it takes the lock.  The hook stays   *)
(* in when it does not look.                                               *)
MutExitModule == load = "loaded" /\ load' = "release" /\ UNCHANGED <<code, hi, hooked, sgx, reader>>

ExitModule ==
  /\ load = "loaded"
  /\ load' = IF hooked THEN "unhook" ELSE "release"
  /\ UNCHANGED <<code, hi, hooked, sgx, reader>>

Unhook ==
  /\ load = "unhook" /\ load' = "release"
  /\ code' = Unhooked
  /\ UNCHANGED <<hi, hooked, sgx, reader>>

InModule(r) == reader[r].at \in {"entered", "returned", "unhooked"}

(* release_sgx; then the module's memory is freed, and no reader holds it. *)
Release ==
  /\ load = "release" /\ load' = "absent"
  /\ sgx' = NoSgx
  /\ reader' = [r \in PvrReaders |-> IF InModule(r) THEN [reader[r] EXCEPT !.at = "freed"]
                                                    ELSE reader[r]]
  /\ UNCHANGED <<code, hi, hooked>>

-----------------------------------------------------------------------------
(* A read of /proc/pvr/nodes; element 0 is the token. *)

StartRead(r) ==
  /\ reader[r].at = "idle"
  /\ reader' = [reader EXCEPT ![r] = [NoRead EXCEPT !.at = "call"]]
  /\ UNCHANGED <<code, hi, hooked, load, sgx>>

Onward(x) == IF x.el = PvrNodes THEN [x EXCEPT !.at = "idle"]
                                ELSE [x EXCEPT !.at = "call", !.el = x.el + 1]

Shown(x) == [x EXCEPT !.shown = x.shown + 1]

(* The call runs the original, or goes to the module's function. *)
CallShow(r) ==
  LET x == reader[r] IN
  /\ x.at = "call"
  /\ reader' = [reader EXCEPT ![r] =
       IF code = "first" THEN Onward(Shown(x))
       ELSE [x EXCEPT !.at = "entered", !.early = x.early \/ load \in {"jmp", "cont"}]]
  /\ UNCHANGED <<code, hi, hooked, load, sgx>>

(* HOOK_INVOKE runs asm0 and the jump behind it as they are by now. *)
HookInvoke(r) ==
  LET x == reader[r] IN
  /\ x.at = "entered"
  /\ reader' = [reader EXCEPT ![r] =
       IF hi.asm0 = "first" /\ hi.jmp /\ hi.cont THEN [Shown(x) EXCEPT !.at = "returned"]
                                                 ELSE [x EXCEPT !.at = "wild"]]
  /\ UNCHANGED <<code, hi, hooked, load, sgx>>

(* ProcSeqShowSysNodes after it: the last node takes the hook out. *)
ShowNext(r) ==
  LET x == reader[r] IN
  /\ x.at = "returned" /\ x.el # PvrNodes
  /\ reader' = [reader EXCEPT ![r] = Onward(x)]
  /\ UNCHANGED <<code, hi, hooked, load, sgx>>

ShowLast(r) ==
  /\ reader[r].at = "returned" /\ reader[r].el = PvrNodes
  /\ ~KernelLocked
  /\ code' = Unhooked
  /\ reader' = [reader EXCEPT ![r].at = "unhooked"]
  /\ UNCHANGED <<hi, hooked, load, sgx>>

ClearHooked(r) ==
  /\ reader[r].at = "unhooked"
  /\ hooked' = FALSE
  /\ reader' = [reader EXCEPT ![r] = Onward(reader[r])]
  /\ UNCHANGED <<code, hi, load, sgx>>

PvrHookStep ==
  \/ Insert \/ Find \/ Save \/ Patch \/ SetJmp \/ SetCont \/ SetHooked \/ SniffHandleBase
  \/ ExitModule \/ Unhook \/ Release
  \/ \E r \in PvrReaders : \/ StartRead(r) \/ CallShow(r) \/ HookInvoke(r)
                           \/ ShowNext(r) \/ ShowLast(r) \/ ClearHooked(r)

-----------------------------------------------------------------------------
(* A read shows every element once, hooked, unhooked or on the way, except *)
(* one that came in while hook() had written the jump and not yet the way  *)
(* back (hook.c:73-80); and however reads and a removal interleave, no     *)
(* jump is left behind by a module that is gone (ion.c:485-519).           *)
HookTransparent ==
  /\ load = "absent" => code = "first"
  /\ \A r \in PvrReaders :
       LET x == reader[r] IN
       /\ x.at \in {"call", "entered"} => x.shown = x.el
       /\ x.at \in {"returned", "unhooked"} => x.shown = x.el + 1
       /\ x.at = "idle" => x.shown \in {0, PvrNodes + 1}
       /\ x.at = "wild" => x.early
=============================================================================
