------------------------------ MODULE MCChunker ------------------------------
(* A small instance of Chunker for TLC: units without a token, short, middling
   and larger than a chunk. *)
EXTENDS Chunker

CONSTANTS silent, short, middling, oversized, h1, h2

TheTokens == (silent :> 0) @@ (short :> 1) @@ (middling :> 2) @@ (oversized :> 5)
==============================================================================
