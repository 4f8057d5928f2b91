-------------------------- MODULE MCChunkedBlocks ---------------------------
(* Instances of ChunkedBlocks for TLC. *)
EXTENDS ChunkedBlocks
=============================================================================
