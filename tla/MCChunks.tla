------------------------------ MODULE MCChunks ------------------------------
(* Instances of Chunks: which of -n and -L are given.                      *)
EXTENDS ChunkPromises

EveryMode == [exact : BOOLEAN, limit : {0, 3}]
Limited == {[exact |-> FALSE, limit |-> 4]}
=============================================================================
