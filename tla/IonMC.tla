------------------------------- MODULE IonMC -------------------------------
(* Small instances of Ion for TLC. *)
EXTENDS Ion, TLC

(* Two processes of one thread each; two threads of one process. *)
CONSTANTS p1, p2, t1, t2
OneThread == (t1 :> p1)
OneThreadEach == (t1 :> p1) @@ (t2 :> p2)
OneProcess    == (t1 :> p1) @@ (t2 :> p1)
=============================================================================
