------------------------------ MODULE IonMapMC ------------------------------
(* A small instance of IonMap for TLC; handles and buffers are symmetric. *)
EXTENDS IonMap, TLC

Symmetry == Permutations(Handles) \cup Permutations(Buffers)
=============================================================================
