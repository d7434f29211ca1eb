----------------------------- MODULE MemblockMC -----------------------------
(***************************************************************************)
(* Memblock with seven pages and two ranges of three, each of which splits *)
(* when its middle page is taken out: four regions fill a table of two and *)
(* the table of four it grows into.                                        *)
(***************************************************************************)
EXTENDS Memblock

AskedPages == {<<0, 3>>, <<1, 1>>, <<4, 3>>, <<5, 1>>}
=============================================================================
