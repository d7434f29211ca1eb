----------------------------- MODULE GenPoolMC -----------------------------
(* A small instance of GenPool for TLC.                                    *)
EXTENDS GenPool

(* Chunk 1 can serve two blocks, chunk 2 three: requests of up to three    *)
(* blocks meet a chunk too small for them, a fragmented one and a full one.*)
MCChunkBits == <<4, 6>>
MCRequests  == 1 .. 3
=============================================================================
