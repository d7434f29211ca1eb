----------------------------- MODULE SecondInit -----------------------------
(***************************************************************************)
(* 2nd-init/2nd-init.c: it stops process 1 with ptrace, writes the         *)
(* arguments of execve into its memory, points it at the execve in its own *)
(* code and lets it go, so that init runs again and reads new scripts.     *)
(*                                                                         *)
(* Memory is bytes at addresses relative to the area that is overwritten;  *)
(* a string's bytes are told apart by its number and place.  Words have    *)
(* four bytes.                                                             *)
(***************************************************************************)
EXTENDS Integers, Sequences, SequencesExt, FiniteSets, TLC

CONSTANT Environments     \* init's environment: sequences of lengths with the NUL

ASSUME EnvironmentsAssumption == Environments \subseteq Seq(Nat \ {0, 1})

Word      == 4
EnvRead   == 511          \* bytes of /proc/1/environ that are read
AreaSize  == 1024         \* sizeof(injected_data)
InitAt    == 256          \* 0x100
PtrsAt    == 16           \* 0x10, where the pointers to the environment start
StringsAt == 272          \* 0x110

VARIABLES
  env,       \* init's environment
  init,      \* process 1: "running", "stopped", "execve" or "stock"
  tracer     \* 2nd-init: what it does next, or "done"

secondVars == <<env, init, tracer>>

-----------------------------------------------------------------------------
(* The bytes of the first i strings. *)
Before(e) ==
  LET before[i \in 0 .. Len(e)] == IF i = 0 THEN 0 ELSE before[i - 1] + e[i]
  IN before

(* The strings that were read: the last may be cut off by the buffer.      *)
Strings(e) ==
  LET whole == Max({i \in 0 .. Len(e) : Before(e)[i] <= EnvRead})
      rest  == EnvRead - Before(e)[whole]
  IN SubSeq(e, 1, whole)
       \o (IF whole < Len(e) /\ rest > 0 THEN << rest + 1 >> ELSE <<>>)

Aligned(n) == ((n + Word - 1) \div Word) * Word

(* A string begins in the word in which the one before it ends.            *)
MutStringAt(s) ==
  LET at[i \in 1 .. Len(s)] ==
        IF i = 1 THEN StringsAt ELSE Aligned(at[i - 1] + s[i - 1] - 1)
  IN at

(* Where each string goes: behind the one before, on the next word.        *)
StringAt(s) ==
  LET at[i \in 1 .. Len(s)] ==
        IF i = 1 THEN StringsAt ELSE Aligned(at[i - 1] + s[i - 1])
  IN at

(* What turn i of the loop writes: the pointer, and over it the string.    *)
Pointer(i)  == PtrsAt + Word * (i - 1) .. PtrsAt + Word * i - 1
Chars(s, i) == StringAt(s)[i] .. StringAt(s)[i] + s[i] - 1
InitName    == InitAt .. InitAt + 5
Writers(s, b) == {i \in DOMAIN s : b \in Pointer(i) \cup Chars(s, i)}

(* injected_data after the loop: each byte is what the last turn that      *)
(* wrote it left.  All the rest is zero.                                   *)
Injected(s) ==
  [b \in InitName \cup UNION {Pointer(i) \cup Chars(s, i) : i \in DOMAIN s} |->
     LET i == Max(Writers(s, b)) IN
     IF Writers(s, b) = {} THEN <<"/init", b - InitAt>>
     ELSE IF b \in Chars(s, i) THEN <<i, b - StringAt(s)[i]>>
     ELSE <<"ptr", StringAt(s)[i]>>]

Byte(m, b) == IF b \in DOMAIN m THEN m[b] ELSE <<"zero", 0>>

(* A vector of pointers from an address to the first that is NULL.         *)
Vector(m, at) ==
  LET Entry(i) == Byte(m, at + Word * i)
      n == CHOOSE k \in 0 .. AreaSize \div Word :
             Entry(k)[1] = "zero" /\ \A j \in 0 .. k - 1 : Entry(j)[1] # "zero"
  IN [i \in 1 .. n |-> Entry(i - 1)]

(* The registers execve is called with. *)
Filename == InitAt
Argp     == 0
Envp     == 8

-----------------------------------------------------------------------------
SecondInitInit ==
  /\ env \in Environments
  /\ init = "running"
  /\ tracer = "start"

(* Reading the environment and the maps, finding the signature of execve:  *)
(* each ends the program when it fails, and the kernel then lets init go.  *)
Fail ==
  /\ tracer \in {"start", "maps", "image"}
  /\ tracer' = "done"
  /\ init' = "stock"
  /\ UNCHANGED env

(* PTRACE_ATTACH is not checked: refused, the program goes on and finds    *)
(* no code, for every word it reads is -1.                                 *)
Attach ==
  /\ tracer = "start"
  /\ \/ init' = "stopped" /\ tracer' = "maps"
     \/ tracer' = "image" /\ UNCHANGED init
  /\ UNCHANGED env

ReadMaps ==
  /\ tracer = "maps"
  /\ tracer' = "image"
  /\ UNCHANGED <<env, init>>

(* The search stops a signature's length before the image's end. *)
FindExecve ==
  /\ tracer = "image" /\ init = "stopped"
  /\ tracer' = "inject"
  /\ UNCHANGED <<env, init>>

(* put_data, PTRACE_SETREGS, PTRACE_DETACH: nobody else reaches a stopped  *)
(* process, so they are one step.                                          *)
Inject ==
  /\ tracer = "inject"
  /\ init' = "execve"
  /\ tracer' = "done"
  /\ UNCHANGED env

SecondInitStep == Fail \/ Attach \/ ReadMaps \/ FindExecve \/ Inject

-----------------------------------------------------------------------------
(* What execve finds in init's memory: the file's name is whole, and every *)
(* pointer leads to its string, whole too; all inside the area.  Strings   *)
(* and pointers of a long environment grow towards each other's place      *)
(* (2nd-init.c:272-293).                                                   *)
Whole(m, name, at, len) == \A k \in 0 .. len - 1 : Byte(m, at + k) = <<name, k>>

AreaSound ==
  init = "execve" =>
    LET s == Strings(env)  m == Injected(s)  at == StringAt(s) IN
    /\ DOMAIN m \subseteq 0 .. AreaSize - 1
    /\ Whole(m, "/init", Filename, 6)
    /\ Vector(m, PtrsAt) = [i \in DOMAIN s |-> <<"ptr", at[i]>>]
    /\ \A i \in DOMAIN s : Whole(m, i, at[i], s[i])

(* "envp[0] - first enviromental variable" at 0x0008 and R2 = envp         *)
(* (2nd-init.c:261, 309): the new init has the environment of the old.     *)
EnvironmentHandedOver ==
  init = "execve" => Len(Vector(Injected(Strings(env)), Envp)) = Len(Strings(env))
=============================================================================
