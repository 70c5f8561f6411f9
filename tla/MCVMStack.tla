------------------------------ MODULE MCVMStack ------------------------------
(* Small instances of VMStack: chunks of two registers that grow by one,   *)
(* frames of one to three registers, so that a frame may fill a chunk, be  *)
(* larger than the reserve, or share a chunk with others.                  *)
EXTENDS VMStack, TLC

Addresses == Permutations(ChunkId)
=============================================================================
