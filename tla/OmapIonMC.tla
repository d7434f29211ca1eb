----------------------------- MODULE OmapIonMC -----------------------------
(* Small boards for TLC: three pages of tiler memory, so that a lump and    *)
(* single pages compete, one or two for the other pools; crops of which one *)
(* is twice as wide as another, and one is odd.                             *)
EXTENDS OmapIon, TLC
PoolSizes == (TilerId :> 3) @@ (SecureInput :> 1) @@ (NonsecureTiler :> 2)
TwoSlots == 1 .. 2
CropSizes == {<<2, 4>>, <<4, 4>>, <<5, 4>>}
Symmetry == Permutations(Clients) \cup Permutations(Areas)
=============================================================================
