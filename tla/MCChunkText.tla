------------------------------ MODULE MCChunkText ------------------------------
(***************************************************************************)
(* Every text of up to 19 characters, in chunks of 10 that overlap by 2.   *)
(***************************************************************************)
EXTENDS ChunkText

SmallLengths == 0 .. 19
=============================================================================
