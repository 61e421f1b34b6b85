---------------------------- MODULE ChunkPromises ----------------------------
(***************************************************************************)
(* What the comments of the NUMA front say and the code does not keep; a   *)
(* run of its own shows it.                                                *)
(***************************************************************************)
EXTENDS Chunks

(* "a stuck node's queue is drained by thieves (stealing advances tail)"   *)
(* (ring_numa_ingest): when every scanner waits for the count of the chunk *)
(* before its own, none of those chunks lies unclaimed in a queue.         *)
InQueue(m) == \E n \in Nodes : \E i \in tail[n]+1..QueueHead(n) : queue[n][i] = m
WaitsForCount(n) ==
  pc[n] = "gate" /\ held[n] > 0 /\ Prev(n).cum = Unset /\ ~PastCutoff(n)
StuckQueueDrained ==
  (\A n \in Nodes : WaitsForCount(n)) => \A n \in Nodes : ~InQueue(held[n] - 1)
=============================================================================
