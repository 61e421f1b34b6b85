---------------------------- MODULE Chunks_proofs -----------------------------
(***************************************************************************)
(* No chunk is scanned twice and no byte is put out twice, for any number  *)
(* of nodes and chunks, any queue limits and steal thresholds, with and    *)
(* without -n and -L; and the lifetime bound keeps the descriptors that    *)
(* the indexers have yet to read.  When all is done, what went out is what *)
(* was asked for, in exact batches if -L is given.                         *)
(*                                                                         *)
(* A chunk stands at one position of one queue.  The fetch-and-add of the  *)
(* tail gives each position to one scanner, owner or thief, which holds it *)
(* until it is through with the chunk; what is closed was claimed and is   *)
(* no longer held.                                                         *)
(*                                                                         *)
(* Without -L what a scanner puts out lies between the ends of two         *)
(* neighbours, which the delimiters determine, so a byte belongs to one    *)
(* chunk.  With -L the start of the open batch is in one place at a time,  *)
(* in a descriptor or in a scanner's hands, and all output is before it.   *)
(*                                                                         *)
(* A position that was claimed is held until its chunk is closed, so a     *)
(* scanner that is through leaves none behind.  With -n and -L the closed  *)
(* chunks are the first ones until the limit is met, each count is the     *)
(* number of lines up to its chunk's end, and a start is that of the only  *)
(* batch which is not full.                                                *)
(***************************************************************************)
EXTENDS Chunks, TLAPS, FiniteSetTheorems, WellFoundedInduction

(* Each chunk is in one place, and only ingest's next number is new.       *)
QueueInv ==
  /\ major \in Nat /\ queue \in [Nodes -> Seq(Nat)]
  /\ \A v \in Nodes : \A i \in 1..Len(queue[v]) : queue[v][i] < major
  /\ \A v, w \in Nodes : \A i \in 1..Len(queue[v]) : \A j \in 1..Len(queue[w]) :
       queue[v][i] = queue[w][j] => v = w /\ i = j
  /\ ready \in [Nodes -> Nat] /\ \A v \in Nodes : ready[v] <= Len(queue[v])

(* A scanner that holds a claim.                                           *)
Holding(n) == pc[n] \in {"wait", "gate"}

(* Claims are below the tail and no two are the same.                      *)
ClaimInv ==
  /\ tail \in [Nodes -> Nat]
  /\ pc \in [Nodes -> {"top", "claim", "wait", "gate", "handoff", "done"}]
  /\ from \in [Nodes -> Nodes] /\ idx \in [Nodes -> Nat]
  /\ held \in [Nodes -> Nat]
  /\ \A n \in Nodes : Holding(n) => idx[n] < tail[from[n]]
  /\ \A n, k \in Nodes :
       Holding(n) /\ Holding(k) /\ from[n] = from[k] /\ idx[n] = idx[k] => n = k
  /\ \A n \in Nodes : pc[n] = "gate" =>
       idx[n] < Len(queue[from[n]]) /\ held[n] = queue[from[n]][idx[n] + 1]

(* Position i of queue v was claimed and is held by nobody any more.       *)
Through(v, i) ==
  /\ i <= tail[v]
  /\ \A n \in Nodes : Holding(n) => from[n] # v \/ idx[n] # i - 1

(* What is closed was closed once, by a scanner that is through with it.   *)
ClosedInv ==
  /\ closed \in [0..NData -> Nat]
  /\ ~stale => \A m \in 0..NData :
       \/ closed[m] = 0
       \/ closed[m] = 1 /\ \E v \in Nodes : \E i \in 1..Len(queue[v]) :
                              queue[v][i] = m /\ Through(v, i)

IInv == QueueInv /\ ClaimInv /\ ClosedInv

-------------------------------------------------------------------------------
(* The initial state satisfies the invariant.                              *)
LEMMA Starts == Init => IInv
BY DEF Init, IInv, QueueInv, ClaimInv, ClosedInv, Holding, Nodes

(* A step that touches neither the queues nor the shelf keeps them.        *)
LEMMA QueueFrame == ASSUME QueueInv, UNCHANGED <<queue, major, ready>> PROVE QueueInv'
BY DEF QueueInv

(* What ingest appends is new, so a chunk stays in one place.              *)
LEMMA EnqueueKeeps ==
  ASSUME QueueInv, NEW t, queue' = [queue EXCEPT ![t] = Append(@, major)],
         major' = major + 1, UNCHANGED ready
  PROVE  /\ QueueInv'
         /\ \A v \in Nodes : Len(queue[v]) <= Len(queue'[v])
         /\ \A v \in Nodes : \A i \in 1..Len(queue[v]) : queue'[v][i] = queue[v][i]
<1>1. CASE t \notin Nodes
  <2>1. queue' = queue
    BY <1>1 DEF QueueInv
  <2>2. \A v \in Nodes : \A i \in 1..Len(queue[v]) : queue[v][i] < major + 1
    <3>. SUFFICES ASSUME NEW v \in Nodes, NEW i \in 1..Len(queue[v]) PROVE queue[v][i] < major + 1
      OBVIOUS
    <3>1. queue[v][i] \in Nat /\ queue[v][i] < major /\ major \in Nat
      BY DEF QueueInv
    <3>. QED
      BY <3>1
  <2>3. \A v \in Nodes : Len(queue[v]) \in Nat
    BY DEF QueueInv
  <2>4. major' \in Nat /\ ready' = ready
    BY DEF QueueInv
  <2>5. \A v \in Nodes : \A i \in 1..Len(queue'[v]) : queue'[v][i] < major'
    BY <2>1, <2>2
  <2>6. /\ queue' \in [Nodes -> Seq(Nat)]
        /\ \A v, w \in Nodes : \A i \in 1..Len(queue'[v]) : \A j \in 1..Len(queue'[w]) :
             queue'[v][i] = queue'[w][j] => v = w /\ i = j
    BY ONLY <2>1, QueueInv DEF QueueInv
  <2>7. ready' \in [Nodes -> Nat] /\ \A v \in Nodes : ready'[v] <= Len(queue'[v])
    BY ONLY <2>1, <2>4, QueueInv DEF QueueInv
  <2>8. QueueInv'
    BY ONLY <2>4, <2>5, <2>6, <2>7 DEF QueueInv
  <2>. QED
    BY <2>1, <2>3, <2>8
<1>2. CASE t \in Nodes
  <2>0. \A v \in Nodes : \A i \in 1..Len(queue[v]) : queue[v][i] # major
    BY DEF QueueInv
  <2>1. queue' \in [Nodes -> Seq(Nat)] /\ major' \in Nat
    BY <1>2 DEF QueueInv
  <2>2. /\ Len(queue'[t]) = Len(queue[t]) + 1
        /\ queue'[t][Len(queue[t]) + 1] = major
        /\ \A i \in 1..Len(queue[t]) : queue'[t][i] = queue[t][i]
    BY <1>2 DEF QueueInv
  <2>3. \A v \in Nodes : v # t => queue'[v] = queue[v]
    BY <1>2 DEF QueueInv
  <2>4. \A v \in Nodes : Len(queue[v]) \in Nat
    BY DEF QueueInv
  <2>5. \A v \in Nodes : \A i \in 1..Len(queue'[v]) :
          \/ i \in 1..Len(queue[v]) /\ queue'[v][i] = queue[v][i]
          \/ v = t /\ i = Len(queue[t]) + 1 /\ queue'[v][i] = major
    BY <2>2, <2>3, <2>4
  <2>6. \A v, w \in Nodes : \A i \in 1..Len(queue'[v]) : \A j \in 1..Len(queue'[w]) :
          queue'[v][i] = queue'[w][j] => v = w /\ i = j
    <3>. SUFFICES ASSUME NEW v \in Nodes, NEW w \in Nodes,
                         NEW i \in 1..Len(queue'[v]), NEW j \in 1..Len(queue'[w]),
                         queue'[v][i] = queue'[w][j]
                  PROVE  v = w /\ i = j
      OBVIOUS
    <3>1. CASE i \in 1..Len(queue[v]) /\ queue'[v][i] = queue[v][i]
      <4>1. queue[v][i] # major
        BY <3>1, <2>0
      <4>2. j \in 1..Len(queue[w]) /\ queue'[w][j] = queue[w][j]
        BY <2>5, <3>1, <4>1
      <4>. QED
        BY <3>1, <4>2 DEF QueueInv
    <3>2. CASE v = t /\ i = Len(queue[t]) + 1 /\ queue'[v][i] = major
      <4>1. ~(j \in 1..Len(queue[w]) /\ queue'[w][j] = queue[w][j])
        BY <3>2, <2>0
      <4>. QED
        BY <2>5, <3>2, <4>1
    <3>. QED
      BY <2>5, <3>1, <3>2
  <2>7. \A v \in Nodes : \A i \in 1..Len(queue'[v]) : queue'[v][i] < major'
    <3>1. \A v \in Nodes : \A i \in 1..Len(queue[v]) : queue[v][i] < major + 1
      BY DEF QueueInv
    <3>2. major \in Nat /\ major < major + 1 /\ major' = major + 1
      BY <1>2 DEF QueueInv
    <3>. QED
      BY <2>5, <3>1, <3>2
  <2>8. \A v \in Nodes : Len(queue[v]) <= Len(queue'[v])
    BY <2>2, <2>3, <2>4
  <2>9. \A v \in Nodes : ready'[v] <= Len(queue'[v])
    <3>1. ready' = ready /\ ready \in [Nodes -> Nat] /\ \A v \in Nodes : ready[v] <= Len(queue[v])
      BY DEF QueueInv
    <3>2. \A v \in Nodes : Len(queue'[v]) \in Nat
      BY <2>1
    <3>. QED
      BY <2>8, <2>4, <3>1, <3>2
  <2>10. ready' \in [Nodes -> Nat]
    BY DEF QueueInv
  <2>11. QueueInv'
    BY ONLY <2>1, <2>6, <2>7, <2>9, <2>10 DEF QueueInv
  <2>12. \A v \in Nodes : \A i \in 1..Len(queue[v]) : queue'[v][i] = queue[v][i]
    BY <2>2, <2>3
  <2>. QED
    BY ONLY <2>8, <2>11, <2>12
<1>. QED
  BY <1>1, <1>2

(* Ingest adds chunks and leaves the claims alone.                         *)
LEMMA IngestKeeps ==
  ASSUME IInv, Ingest
  PROVE  IInv'
<1>1. UNCHANGED <<queueVars, scanVars, history>>
  BY DEF Ingest, ChooseTarget, Publish, PublishEof, IngestStops, notIngest
<1>2. \/ UNCHANGED <<queue, major>>
      \/ \E t : queue' = [queue EXCEPT ![t] = Append(@, major)] /\ major' = major + 1
  BY DEF Ingest, ChooseTarget, Publish, PublishEof, IngestStops, Enqueue
<1>3. /\ QueueInv'
      /\ \A v \in Nodes : Len(queue[v]) <= Len(queue'[v])
      /\ \A v \in Nodes : \A i \in 1..Len(queue[v]) : queue'[v][i] = queue[v][i]
  <2>1. CASE UNCHANGED <<queue, major>>
    BY <1>1, <2>1 DEF IInv, QueueInv, queueVars
  <2>2. ASSUME NEW t, queue' = [queue EXCEPT ![t] = Append(@, major)], major' = major + 1
        PROVE  <1>3!1 /\ <1>3!2 /\ <1>3!3
    BY <1>1, <2>2, EnqueueKeeps DEF IInv, queueVars
  <2>. QED
    BY <1>2, <2>1, <2>2
<1>4. \A v \in Nodes : Len(queue[v]) \in Nat /\ Len(queue'[v]) \in Nat
  BY <1>3 DEF IInv, QueueInv
<1>5. ClaimInv'
  <2>1. UNCHANGED <<tail, pc, from, idx, held, snap>>
    BY <1>1 DEF queueVars, scanVars
  <2>2. \A n \in Nodes : pc[n] = "gate" =>
          idx[n] < Len(queue'[from[n]]) /\ held[n] = queue'[from[n]][idx[n] + 1]
    <3>. SUFFICES ASSUME NEW n \in Nodes, pc[n] = "gate"
                  PROVE  idx[n] < Len(queue'[from[n]]) /\ held[n] = queue'[from[n]][idx[n] + 1]
      OBVIOUS
    <3>1. from[n] \in Nodes /\ idx[n] \in Nat /\ idx[n] < Len(queue[from[n]])
          /\ held[n] = queue[from[n]][idx[n] + 1]
      BY DEF IInv, ClaimInv
    <3>2. idx[n] + 1 \in 1..Len(queue[from[n]]) /\ Len(queue[from[n]]) <= Len(queue'[from[n]])
      BY <1>3, <1>4, <3>1
    <3>3. queue'[from[n]][idx[n] + 1] = queue[from[n]][idx[n] + 1]
      BY <1>3, <3>1, <3>2
    <3>. QED
      BY <1>4, <3>1, <3>2, <3>3
  <2>. QED
    BY <2>1, <2>2 DEF IInv, ClaimInv, Holding
<1>6. \A v \in Nodes : \A i : Through(v, i)' = Through(v, i)
  BY <1>1 DEF Through, Holding, queueVars, scanVars
<1>7. ClosedInv'
  <2>1. closed' = closed /\ stale' = stale
    BY <1>1 DEF history
  <2>2. ASSUME NEW m, NEW v \in Nodes, NEW i \in 1..Len(queue[v]),
               queue[v][i] = m, Through(v, i)
        PROVE  i \in 1..Len(queue'[v]) /\ queue'[v][i] = m /\ Through(v, i)'
    BY <1>3, <1>4, <1>6, <2>2
  <2>3. ASSUME NEW m, \E v \in Nodes : \E i \in 1..Len(queue[v]) : queue[v][i] = m /\ Through(v, i)
        PROVE  \E v \in Nodes : \E i \in 1..Len(queue'[v]) : queue'[v][i] = m /\ Through(v, i)'
    BY <2>2, <2>3
  <2>. QED
    BY <2>1, <2>3 DEF IInv, ClosedInv
<1>. QED
  BY <1>3, <1>5, <1>7 DEF IInv

(* The indexer moves the shelf up, never past the queue.                   *)
LEMMA IndexKeeps ==
  ASSUME IInv, NEW n \in Nodes, Index(n)
  PROVE  IInv'
<1>1. UNCHANGED <<ingestVars, queue, tail, scanVars, history>>
  BY DEF Index
<1>2. QueueInv'
  BY <1>1 DEF IInv, QueueInv, Index, ReadyAfter, QueueHead, ingestVars
<1>. QED
  BY <1>1, <1>2 DEF IInv, ClaimInv, ClosedInv, Through, Holding, scanVars, history

-------------------------------------------------------------------------------
(* Scanners. *)

(* Steps that neither take nor give up a claim.                            *)
LEMMA IdleKeeps ==
  ASSUME IInv, NEW n \in Nodes, Own(n) \/ Steal(n) \/ Finish(n) \/ Overran(n) \/ Handoff(n)
  PROVE  IInv'
<1>1. /\ UNCHANGED <<queue, major, ready, tail, idx, held, snap, closed, stale>>
      /\ \E p \in {"top", "claim", "done"} : pc' = [pc EXCEPT ![n] = p]
      /\ \/ UNCHANGED from
         \/ ~Holding(n) /\ \E v \in Nodes : from' = [from EXCEPT ![n] = v]
  BY DEF Own, Steal, Finish, Overran, Handoff, ClaimFrom, Victims, Ripe, notClaim, notChunk,
         history, ingestVars, queueVars, Holding
<1>2. QueueInv'
  BY <1>1, QueueFrame DEF IInv
<1>3. ~Holding(n)' /\ \A k \in Nodes : k # n => (Holding(k)' = Holding(k)) /\ from'[k] = from[k]
  BY <1>1 DEF IInv, ClaimInv, Holding
<1>4. ClaimInv'
  <2>1. /\ pc' \in [Nodes -> {"top", "claim", "wait", "gate", "handoff", "done"}]
        /\ from' \in [Nodes -> Nodes]
    <3>1. pc' \in [Nodes -> {"top", "claim", "wait", "gate", "handoff", "done"}]
      BY <1>1 DEF IInv, ClaimInv
    <3>2. from' \in [Nodes -> Nodes]
      BY <1>1 DEF IInv, ClaimInv
    <3>. QED
      BY <3>1, <3>2
  <2>2. \A k \in Nodes : pc'[k] = "gate" => pc[k] = "gate" /\ k # n
    BY <1>1 DEF IInv, ClaimInv
  <2>3. \A k \in Nodes : Holding(k)' => Holding(k) /\ k # n /\ from'[k] = from[k]
    BY <1>3
  <2>4. \A k \in Nodes : pc'[k] = "gate" => from'[k] = from[k]
    BY <1>3, <2>2
  <2>5. /\ \A k \in Nodes : Holding(k)' => idx'[k] < tail'[from'[k]]
        /\ \A k, l \in Nodes :
             Holding(k)' /\ Holding(l)' /\ from'[k] = from'[l] /\ idx'[k] = idx'[l] => k = l
    BY <1>1, <2>3 DEF IInv, ClaimInv
  <2>6. \A k \in Nodes : pc'[k] = "gate" =>
          idx'[k] < Len(queue'[from'[k]]) /\ held'[k] = queue'[from'[k]][idx'[k] + 1]
    BY <1>1, <2>2, <2>4 DEF IInv, ClaimInv
  <2>. QED
    BY <1>1, <2>1, <2>5, <2>6 DEF IInv, ClaimInv
<1>5. \A v \in Nodes : \A i : Through(v, i) => Through(v, i)'
  BY <1>1, <1>3 DEF Through
<1>6. ClosedInv'
  BY <1>1, <1>5 DEF IInv, ClosedInv
<1>. QED
  BY <1>2, <1>4, <1>6 DEF IInv

(* The fetch-and-add hands out the position at the tail, which is new.     *)
LEMMA ClaimKeeps ==
  ASSUME IInv, NEW n \in Nodes, Claim(n)
  PROVE  IInv'
<1>1. /\ UNCHANGED <<queue, major, ready, from, held, snap, closed, stale>>
      /\ idx' = [idx EXCEPT ![n] = tail[from[n]]]
      /\ tail' = [tail EXCEPT ![from[n]] = @ + 1]
      /\ pc' = [pc EXCEPT ![n] = "wait"]
  BY DEF Claim, notClaim, ingestVars
<1>2. from[n] \in Nodes /\ \A v \in Nodes : tail[v] \in Nat /\ tail'[v] >= tail[v]
  BY <1>1 DEF IInv, ClaimInv
<1>3. QueueInv'
  BY <1>1, QueueFrame DEF IInv
<1>4. \A k \in Nodes : k # n => (Holding(k)' = Holding(k)) /\ idx'[k] = idx[k]
  BY <1>1 DEF IInv, ClaimInv, Holding
<1>5. ClaimInv'
  <2>1. \A k \in Nodes : Holding(k)' => idx'[k] < tail'[from'[k]]
    BY <1>1, <1>2, <1>4 DEF IInv, ClaimInv
  <2>2. \A k, l \in Nodes : Holding(k)' /\ Holding(l)' /\ from'[k] = from'[l] /\ idx'[k] = idx'[l]
                            => k = l
    <3>1. idx'[n] = tail[from[n]] /\ from' = from
      BY <1>1 DEF IInv, ClaimInv
    <3>2. \A k \in Nodes : k # n /\ Holding(k)' /\ from[k] = from[n] => idx'[k] # idx'[n]
      BY <3>1, <1>2, <1>4 DEF IInv, ClaimInv
    <3>3. \A k, l \in Nodes \ {n} :
            Holding(k)' /\ Holding(l)' /\ from[k] = from[l] /\ idx'[k] = idx'[l] => k = l
      BY <1>4 DEF IInv, ClaimInv
    <3>. QED
      BY <3>1, <3>2, <3>3
  <2>3. \A k \in Nodes : pc'[k] = "gate" => pc[k] = "gate" /\ k # n
    BY <1>1 DEF IInv, ClaimInv
  <2>4. \A k \in Nodes : pc'[k] = "gate" =>
          idx'[k] < Len(queue[from[k]]) /\ held[k] = queue[from[k]][idx'[k] + 1]
    BY <1>4, <2>3 DEF IInv, ClaimInv
  <2>5. /\ pc' \in [Nodes -> {"top", "claim", "wait", "gate", "handoff", "done"}]
        /\ tail' \in [Nodes -> Nat] /\ idx' \in [Nodes -> Nat]
    BY <1>1, <1>2 DEF IInv, ClaimInv
  <2>6. /\ from' \in [Nodes -> Nodes] /\ held' \in [Nodes -> Nat]
        /\ from' = from /\ held' = held /\ queue' = queue
    BY <1>1 DEF IInv, ClaimInv
  <2>7. \A k \in Nodes : pc'[k] = "gate" =>
          idx'[k] < Len(queue'[from'[k]]) /\ held'[k] = queue'[from'[k]][idx'[k] + 1]
    BY ONLY <2>4, <2>6
  <2>. QED
    BY ONLY <2>1, <2>2, <2>5, <2>6, <2>7 DEF ClaimInv
<1>6. ASSUME NEW v \in Nodes, NEW i \in Int, Through(v, i)
      PROVE  Through(v, i)'
  <2>1. i <= tail'[v]
    <3>1. i <= tail[v] /\ tail[v] <= tail'[v] /\ tail[v] \in Nat
      BY <1>2, <1>6 DEF Through
    <3>2. tail'[v] \in Nat
      BY <1>1, <1>2 DEF IInv, ClaimInv
    <3>. QED
      BY ONLY <3>1, <3>2
  <2>2. ASSUME NEW k \in Nodes, Holding(k)' PROVE from'[k] # v \/ idx'[k] # i - 1
    <3>1. CASE k = n
      <4>1. idx'[n] = tail[from[n]]
        BY <1>1 DEF IInv, ClaimInv
      <4>. QED
        BY <1>1, <1>2, <1>6, <3>1, <4>1 DEF Through
    <3>2. CASE k # n
      BY <1>1, <1>4, <1>6, <2>2, <3>2 DEF Through
    <3>. QED
      BY <3>1, <3>2
  <2>. QED
    BY <2>1, <2>2 DEF Through
<1>7. ASSUME NEW m, \E v \in Nodes : \E i \in 1..Len(queue[v]) : queue[v][i] = m /\ Through(v, i)
      PROVE  \E v \in Nodes : \E i \in 1..Len(queue'[v]) : queue'[v][i] = m /\ Through(v, i)'
  <2>0. PICK v \in Nodes : \E i \in 1..Len(queue[v]) : queue[v][i] = m /\ Through(v, i)
    BY <1>7
  <2>1. PICK i \in 1..Len(queue[v]) : queue[v][i] = m /\ Through(v, i)
    BY <2>0
  <2>2. Through(v, i)'
    <3>. i \in Int
      BY DEF IInv, QueueInv
    <3>. QED
      BY <1>6, <2>1
  <2>3. queue' = queue
    BY <1>1
  <2>. QED
    BY ONLY <2>1, <2>2, <2>3
<1>8. ClosedInv'
  <2>1. closed' = closed /\ stale' = stale /\ ClosedInv
    BY <1>1 DEF IInv
  <2>. QED
    BY ONLY <2>1, <1>7 DEF ClosedInv
<1>. QED
  BY <1>3, <1>5, <1>8 DEF IInv

(* A claimed position is read once the shelf is past it.                   *)
LEMMA SnapshotKeeps ==
  ASSUME IInv, NEW n \in Nodes, Snapshot(n)
  PROVE  IInv'
<1>1. /\ UNCHANGED <<queue, major, ready, tail, from, idx, closed, stale>>
      /\ pc[n] = "wait" /\ pc' = [pc EXCEPT ![n] = "gate"]
      /\ ready[from[n]] > idx[n]
      /\ held' = [held EXCEPT ![n] = queue[from[n]][idx[n] + 1]]
  BY DEF Snapshot, notClaim, ingestVars
<1>2. QueueInv'
  BY <1>1, QueueFrame DEF IInv
<1>3. \A k \in Nodes : Holding(k)' = Holding(k)
  BY <1>1 DEF IInv, ClaimInv, Holding
<1>4. from[n] \in Nodes /\ idx[n] \in Nat /\ idx[n] < Len(queue[from[n]])
      /\ queue[from[n]][idx[n] + 1] \in Nat
  <2>1. /\ from[n] \in Nodes /\ idx[n] \in Nat
        /\ queue \in [Nodes -> Seq(Nat)] /\ ready \in [Nodes -> Nat]
        /\ \A v \in Nodes : ready[v] <= Len(queue[v])
    BY DEF IInv, QueueInv, ClaimInv
  <2>2. queue[from[n]] \in Seq(Nat) /\ ready[from[n]] \in Nat
        /\ Len(queue[from[n]]) \in Nat /\ idx[n] < ready[from[n]]
        /\ ready[from[n]] <= Len(queue[from[n]])
    BY ONLY <1>1, <2>1
  <2>3. idx[n] + 1 \in 1..Len(queue[from[n]])
    BY ONLY <2>1, <2>2
  <2>. QED
    BY ONLY <2>1, <2>2, <2>3
<1>5. ClaimInv'
  <2>1. /\ pc' \in [Nodes -> {"top", "claim", "wait", "gate", "handoff", "done"}]
        /\ held' \in [Nodes -> Nat]
    BY <1>1, <1>4 DEF IInv, ClaimInv
  <2>2. \A k \in Nodes : pc'[k] = "gate" =>
          idx[k] < Len(queue[from[k]]) /\ held'[k] = queue[from[k]][idx[k] + 1]
    BY <1>1, <1>4 DEF IInv, ClaimInv
  <2>. QED
    BY <1>1, <1>3, <2>1, <2>2 DEF IInv, ClaimInv
<1>6. ClosedInv'
  BY <1>1, <1>3 DEF IInv, ClosedInv, Through
<1>. QED
  BY <1>2, <1>5, <1>6 DEF IInv

(* A chunk that a scanner holds is not yet closed.                         *)
LEMMA NotYetClosed ==
  ASSUME IInv, NEW n \in Nodes, pc[n] = "gate", ~stale, NEW m \in 0..NData, m = held[n]
  PROVE  /\ closed[m] = 0
         /\ from[n] \in Nodes /\ idx[n] + 1 \in 1..Len(queue[from[n]])
         /\ queue[from[n]][idx[n] + 1] = m /\ idx[n] + 1 <= tail[from[n]]
<1> DEFINE f == from[n]
           i == idx[n] + 1
<1>1. f \in Nodes /\ i \in 1..Len(queue[f]) /\ queue[f][i] = m /\ i <= tail[f] /\ i - 1 = idx[n]
  <2>1. f \in Nodes /\ idx[n] \in Nat /\ tail[f] \in Nat /\ Len(queue[f]) \in Nat
    BY DEF IInv, QueueInv, ClaimInv
  <2>2. idx[n] < Len(queue[f]) /\ held[n] = queue[f][idx[n] + 1] /\ idx[n] < tail[f]
    BY DEF IInv, ClaimInv, Holding
  <2>. QED
    BY <2>1, <2>2
<1>2. ~Through(f, i)
  BY <1>1 DEF Through, Holding
<1>3. \A v \in Nodes : \A j \in 1..Len(queue[v]) : queue[v][j] = m => v = f /\ j = i
  <2>1. \A v, w \in Nodes : \A j \in 1..Len(queue[v]) : \A k \in 1..Len(queue[w]) :
          queue[v][j] = queue[w][k] => v = w /\ j = k
    BY DEF IInv, QueueInv
  <2>. HIDE DEF f, i
  <2>. QED
    BY <1>1, <2>1
<1>4. closed[m] = 0
  BY <1>2, <1>3 DEF IInv, ClosedInv
<1>. QED
  BY <1>1, <1>4

(* A chunk that goes out was held by this scanner alone and not yet closed.*)
LEMMA FlushKeeps ==
  ASSUME IInv, NEW n \in Nodes, pc[n] = "gate", NEW s, NEW e, Flush(n, s, e),
         NEW p \in {"top", "handoff"}, pc' = [pc EXCEPT ![n] = p],
         UNCHANGED <<queue, major, ready, tail, from, idx, held, snap>>
  PROVE  IInv'
<1>1. QueueInv'
  BY DEF IInv, QueueInv
<1>2. Holding(n) /\ ~Holding(n)' /\ \A k \in Nodes : k # n => (Holding(k)' = Holding(k))
  BY DEF IInv, ClaimInv, Holding
<1>3. ClaimInv'
  BY <1>2 DEF IInv, ClaimInv
<1>4. \A v \in Nodes : \A i : Through(v, i) => Through(v, i)'
  BY <1>2 DEF Through
<1>5. closed' = [closed EXCEPT ![snap[n]] = @ + 1] /\ closed' \in [0..NData -> Nat]
  <2>1. closed' = [closed EXCEPT ![snap[n]] = @ + 1]
    BY DEF Flush
  <2> DEFINE D == 0..NData
  <2>2. closed \in [D -> Nat]
    BY DEF IInv, ClosedInv
  <2>3. closed' \in [D -> Nat]
    <3> HIDE DEF D
    <3>1. DOMAIN closed' = D /\ closed' = [x \in D |-> closed'[x]]
      BY <2>1, <2>2
    <3>2. \A x \in D : closed[x] \in Nat /\ closed'[x] \in {closed[x], closed[x] + 1}
      BY <2>1, <2>2
    <3>3. \A x \in D : closed'[x] \in Nat
      BY <3>2
    <3>. QED
      BY <3>1, <3>3
  <2>. QED
    BY <2>1, <2>3
<1>6. ASSUME ~stale', NEW m \in 0..NData
      PROVE  \/ closed'[m] = 0
             \/ closed'[m] = 1 /\ \E v \in Nodes : \E i \in 1..Len(queue[v]) :
                                    queue[v][i] = m /\ Through(v, i)'
  <2>1. ~stale /\ snap[n] = held[n]
    BY <1>6 DEF Flush, Recycled
  <2>2. CASE m # held[n]
    BY <1>4, <1>5, <2>1, <2>2 DEF IInv, ClosedInv
  <2>3. CASE m = held[n]
    <3> DEFINE f == from[n]
               i == idx[n] + 1
    <3>1. f \in Nodes /\ i \in 1..Len(queue[f]) /\ queue[f][i] = m /\ i <= tail[f] /\ closed[m] = 0
      BY <2>1, <2>3, NotYetClosed
    <3>2. idx[n] \in Nat
      BY DEF IInv, ClaimInv
    <3>3. i - 1 = idx[n]
      BY <3>2
    <3>5. Through(f, i)'
      BY <1>2, <3>1, <3>3 DEF Through, IInv, ClaimInv
    <3>6. closed'[m] = 1
      BY <1>5, <2>1, <2>3, <3>1
    <3>. QED
      BY <3>1, <3>5, <3>6
  <2>. QED
    BY <2>2, <2>3
<1>7. ClosedInv'
  BY <1>5, <1>6 DEF ClosedInv
<1>. QED
  BY <1>1, <1>3, <1>7 DEF IInv

(* The ways a scanner ends with its chunk.                                 *)
LEMMA ScanKeeps ==
  ASSUME IInv, NEW n \in Nodes,
         SkipPast(n) \/ Scan(n) \/ ScanExact(n) \/ ScanExactEof(n) \/ SkipExact(n)
  PROVE  IInv'
<1>1. /\ pc[n] = "gate" /\ \E s, e : Flush(n, s, e)
      /\ \E p \in {"top", "handoff"} : pc' = [pc EXCEPT ![n] = p]
      /\ UNCHANGED <<queue, major, ready, tail, from, idx, held, snap>>
  BY DEF SkipPast, Scan, ScanExact, ScanExactEof, SkipExact, ToHandoff, Waiting, notChunk,
         ingestVars, queueVars
<1>. QED
  BY <1>1, FlushKeeps

(* Every step of the specification keeps the invariant.                    *)
LEMMA StepKeeps == IInv /\ [Next]_vars => IInv'
<1>. SUFFICES ASSUME IInv, [Next]_vars PROVE IInv'
  OBVIOUS
<1>1. CASE UNCHANGED vars
  BY <1>1 DEF vars, ingestVars, queueVars, scanVars, history, IInv, QueueInv, ClaimInv, ClosedInv,
              Through, Holding
<1>2. CASE Ingest
  BY <1>2, IngestKeeps
<1>3. ASSUME NEW n \in Nodes, Index(n) PROVE IInv'
  BY <1>3, IndexKeeps
<1>4. ASSUME NEW n \in Nodes, Scanner(n) PROVE IInv'
  BY <1>4, IdleKeeps, ClaimKeeps, SnapshotKeeps, ScanKeeps DEF Scanner
<1>. QED
  BY <1>1, <1>2, <1>3, <1>4 DEF Next

-------------------------------------------------------------------------------
(* No chunk is closed twice for the orderer, however owners and thieves    *)
(* claim (core_scanner_loop's claim_idx).                                  *)
THEOREM ClosedOnceCorrect == Spec => []ClosedOnce
<1>1. IInv => ClosedOnce
  BY DEF IInv, ClosedInv, ClosedOnce
<1>. QED
  BY Starts, StepKeeps, <1>1, PTL DEF Spec

-------------------------------------------------------------------------------
(* Sets of numbers, slots of the ring, nodes of the deal. *)

(* A set of natural numbers that is not empty has a least element.         *)
LEMMA Least ==
  ASSUME NEW S \in SUBSET Nat, S # {}
  PROVE  \E x \in S : \A y \in S : x <= y
<1> DEFINE R == OpToRel(<, Nat)
<1>1. IsWellFoundedOn(R, Nat)
  BY NatLessThanWellFounded, Zenon
<1>2. \E x \in S : \A y \in S : ~ (<<y, x>> \in R)
  <2> HIDE DEF R
  <2>. QED
    BY <1>1, WFMin
<1>3. \A x, y \in Nat : <<y, x>> \in R <=> y < x
  BY Zenon DEF OpToRel
<1>. HIDE DEF R
<1>4. PICK x \in S : \A y \in S : ~ (<<y, x>> \in R)
  BY <1>2
<1>5. ASSUME NEW y \in S PROVE x <= y
  <2>1. x \in Nat /\ y \in Nat
    OBVIOUS
  <2>2. ~ (y < x)
    BY <1>3, <1>4, <2>1
  <2>. QED
    BY ONLY <2>1, <2>2
<1>. QED
  BY <1>5

(* What Max and Min return: an element that bounds the set.                *)
LEMMA MaxOf ==
  ASSUME NEW S \in SUBSET Int, S # {}, NEW b \in Int, \A x \in S : x <= b
  PROVE  Max(S) \in S /\ \A y \in S : y <= Max(S)
<1> DEFINE D == {b - x : x \in S}
<1>1. D \in SUBSET Nat /\ D # {}
  <2>1. \A x \in S : x \in Int /\ b - x \in Nat
    OBVIOUS
  <2>2. PICK x \in S : TRUE
    OBVIOUS
  <2>. QED
    BY <2>1, <2>2
<1>2. PICK d \in D : \A y \in D : d <= y
  <2>. HIDE DEF D
  <2>. QED
    BY <1>1, Least
<1>3. PICK x \in S : d = b - x
  OBVIOUS
<1>4. \A y \in S : y <= x
  BY <1>2, <1>3
<1>. QED
  BY <1>4 DEF Max

LEMMA MinOf ==
  ASSUME NEW S \in SUBSET Nat, S # {}
  PROVE  Min(S) \in S /\ \A y \in S : Min(S) <= y
BY Least DEF Min

(* Descriptors less than a ring apart have different slots.                *)
LEMMA SlotRange == \A k \in Int : Slot(k) \in 0..MetaSize-1
BY ChunksAssumption DEF Slot

(* Division with a remainder.                                              *)
LEMMA Multiples ==
  ASSUME NEW c \in Nat \ {0}, NEW q \in Int, NEW p \in Int, q < p
  PROVE  c * q + c <= c * p
OBVIOUS

LEMMA DivMod ==
  ASSUME NEW k \in Int, NEW c \in Nat \ {0}
  PROVE  k \div c \in Int /\ k % c \in 0..c-1 /\ k = c * (k \div c) + (k % c)
<1>1. k \div c \in Int
  OBVIOUS
<1>2. k % c \in 0..c-1
  OBVIOUS
<1>3. k = c * (k \div c) + (k % c)
  OBVIOUS
<1>. QED
  BY <1>1, <1>2, <1>3

LEMMA ModOf ==
  ASSUME NEW c \in Nat \ {0}, NEW q \in Int, NEW r \in 0..c-1
  PROVE  (c * q + r) % c = r
OBVIOUS

LEMMA SlotsDiffer ==
  ASSUME NEW k \in Nat, NEW l \in Nat, k < l, l < k + MetaSize
  PROVE  Slot(k) # Slot(l)
<1>1. PICK c \in Nat \ {0} : c = MetaSize
  BY ChunksAssumption
<1>. SUFFICES ASSUME k % c = l % c PROVE FALSE
  BY <1>1 DEF Slot
<1>2. PICK p \in Int : p = k \div c
  <2>1. k \div c \in Int
    BY ONLY DivMod, k \in Nat, c \in Nat \ {0}
  <2>. QED
    BY <2>1
<1>3. PICK q \in Int : q = l \div c
  <2>1. l \div c \in Int
    BY ONLY DivMod, l \in Nat, c \in Nat \ {0}
  <2>. QED
    BY <2>1
<1>4. PICK r \in Int : r = k % c
  BY DivMod
<1>5. PICK x \in Int : x = c * p
  OBVIOUS
<1>6. PICK y \in Int : y = c * q
  OBVIOUS
<1>7. k = x + r /\ l = y + r
  BY <1>2, <1>3, <1>4, <1>5, <1>6, DivMod
<1>8. p < q => x + c <= y
  BY ONLY <1>5, <1>6, Multiples, c \in Nat \ {0}, p \in Int, q \in Int
<1>9. p = q => x = y
  BY <1>5, <1>6
<1>10. q < p => y + c <= x
  BY ONLY <1>5, <1>6, Multiples, c \in Nat \ {0}, p \in Int, q \in Int
<1>. QED
  BY ONLY <1>1, <1>7, <1>8, <1>9, <1>10, k < l, l < k + MetaSize, c \in Nat \ {0}, p \in Int, q \in Int, r \in Int, x \in Int, y \in Int

(* The nodes behind the last target are all nodes, the last one included.  *)
LEMMA AfterReaches ==
  ASSUME NEW t \in Nodes, NEW n \in Nodes
  PROVE  \E k \in Nodes : After(t, k) = n
<1>1. NumNodes \in Nat \ {0} /\ t \in 0..NumNodes-1 /\ n \in 0..NumNodes-1
  BY ChunksAssumption DEF Nodes
<1>2. CASE n > t
  <2>1. n - t - 1 \in Nodes /\ t + 1 + (n - t - 1) = NumNodes * 0 + n
    BY <1>1, <1>2 DEF Nodes
  <2>2. (NumNodes * 0 + n) % NumNodes = n
    BY <1>1, ModOf
  <2>. QED
    BY <2>1, <2>2 DEF After
<1>3. CASE n <= t
  <2>1. n + NumNodes - t - 1 \in Nodes /\ t + 1 + (n + NumNodes - t - 1) = NumNodes * 1 + n
    BY <1>1, <1>3 DEF Nodes
  <2>2. (NumNodes * 1 + n) % NumNodes = n
    BY <1>1, ModOf
  <2>. QED
    BY <2>1, <2>2 DEF After
<1>. QED
  BY <1>1, <1>2, <1>3

LEMMA AfterNode ==
  ASSUME NEW t \in Nodes, NEW k \in Nat
  PROVE  After(t, k) \in Nodes
BY ChunksAssumption DEF Nodes, After

-------------------------------------------------------------------------------
(* The bytes of a chunk. *)

LEMMA Sizes == /\ NumNodes \in Nat \ {0} /\ N \in Nat /\ ChunkSize \in Nat \ {0}
               /\ MetaSize \in Nat /\ MetaSize > 2 /\ Delims \subseteq 0..N-1
               /\ Modes \subseteq [exact : BOOLEAN, limit : Nat]
BY ChunksAssumption

(* Chunk m reads from m * ChunkSize; NData chunks cover the input.         *)
LEMMA ChunksCover ==
  /\ NData \in Nat /\ N <= NData * ChunkSize
  /\ \A m \in 0..NData-1 : m * ChunkSize \in Nat /\ m * ChunkSize < N
<1>1. PICK c \in Nat \ {0} : c = ChunkSize
  BY Sizes
<1>2. PICK k \in Nat : k = N + c - 1
  BY <1>1, Sizes
<1>3. k \div c \in Int /\ k % c \in 0..c-1 /\ k = c * (k \div c) + (k % c)
  BY DivMod
<1>4. PICK q \in Int : q = k \div c
  BY <1>3
<1>5. PICK r \in 0..c-1 : r = k % c
  BY <1>3
<1>6. NData = q
  BY <1>1, <1>2, <1>4 DEF NData
<1>7. PICK x \in Int : x = c * q
  OBVIOUS
<1>8. N <= x /\ x <= N + c - 1
  BY <1>1, <1>2, <1>3, <1>4, <1>5, <1>7, Sizes
<1>9. q >= 0
  <2>. SUFFICES ASSUME q < 0 PROVE FALSE
    OBVIOUS
  <2>1. c * q + c <= c * 0
    BY Multiples
  <2>. QED
    BY <1>7, <1>8, <2>1, Sizes
<1>10. ASSUME NEW m \in 0..q-1 PROVE m * c \in Nat /\ m * c < N
  <2>1. PICK y \in Int : y = c * m
    OBVIOUS
  <2>2. y + c <= x
    BY <1>7, <2>1, Multiples
  <2>3. 0 <= y
    <3>1. CASE m = 0
      BY <2>1, <3>1
    <3>2. CASE m # 0
      <4>1. c * 0 + c <= c * m
        BY <3>2, Multiples
      <4>. QED
        BY <2>1, <4>1
    <3>. QED
      BY <3>1, <3>2
  <2>4. m * c = y
    BY <2>1
  <2>. QED
    BY <1>8, <2>2, <2>3, <2>4, Sizes
<1>11. q * c = x
  BY <1>7
<1>. QED
  BY <1>1, <1>6, <1>8, <1>9, <1>10, <1>11

(* The ends of chunks ascend; a chunk starts where the one before it ends. *)
LEMMA ChunkEnds ==
  /\ \A m \in 0..NData : RawStart(m) \in 0..N /\ RawEnd(m) \in 0..N /\ RawStart(m) <= RawEnd(m)
  /\ \A m, k \in 0..NData : m <= k => RawEnd(m) <= RawEnd(k)
  /\ \A m \in 1..NData : RawStart(m) = RawEnd(m - 1)
  /\ RawStart(0) = 0
<1>1. PICK c \in Nat \ {0} : c = ChunkSize
  BY Sizes
<1>2. /\ NData \in Nat /\ N \in Nat /\ N <= NData * c
      /\ \A m \in 0..NData-1 : m * c \in Nat /\ m * c < N
  BY <1>1, ChunksCover, Sizes
<1>3. \A m \in Int : m * c \in Int /\ (m + 1) * c = m * c + c
  OBVIOUS
<1>4. \A m \in 0..NData : RawEnd(m) \in 0..N
  <2>. SUFFICES ASSUME NEW m \in 0..NData PROVE RawEnd(m) \in 0..N
    OBVIOUS
  <2>1. CASE m = NData
    BY <1>1, <1>2, <1>3, <2>1 DEF RawEnd
  <2>2. CASE m # NData
    BY <1>1, <1>2, <1>3, <2>2 DEF RawEnd
  <2>. QED
    BY <2>1, <2>2
<1>5. \A m \in 0..NData : RawStart(m) \in 0..N /\ RawStart(m) <= RawEnd(m)
  <2>. SUFFICES ASSUME NEW m \in 0..NData PROVE RawStart(m) \in 0..N /\ RawStart(m) <= RawEnd(m)
    OBVIOUS
  <2>1. CASE m = NData
    BY <1>1, <1>2, <1>3, <2>1 DEF RawEnd, RawStart
  <2>2. CASE m # NData
    BY <1>1, <1>2, <1>3, <2>2 DEF RawEnd, RawStart
  <2>. QED
    BY <2>1, <2>2
<1>6. \A m, k \in 0..NData : m <= k => RawEnd(m) <= RawEnd(k)
  <2>. SUFFICES ASSUME NEW m \in 0..NData, NEW k \in 0..NData, m < k
                PROVE  RawEnd(m) <= RawEnd(k)
    BY <1>4
  <2>1. c * (m + 1) + c <= c * (k + 1)
    BY Multiples
  <2>2. PICK x \in Int : x = c * (m + 1)
    OBVIOUS
  <2>3. PICK y \in Int : y = c * (k + 1)
    OBVIOUS
  <2>4. x <= y /\ x = (m + 1) * c /\ y = (k + 1) * c
    BY <2>1, <2>2, <2>3
  <2>. QED
    BY <1>1, <1>2, <2>4 DEF RawEnd
<1>7. \A m \in 1..NData : RawStart(m) = RawEnd(m - 1)
  <2>. SUFFICES ASSUME NEW m \in 1..NData PROVE RawStart(m) = RawEnd(m - 1)
    OBVIOUS
  <2>1. m - 1 + 1 = m
    OBVIOUS
  <2>2. CASE m = NData
    BY <1>1, <1>2, <2>1, <2>2 DEF RawEnd, RawStart
  <2>3. CASE m # NData
    BY <1>1, <1>2, <2>1, <2>3 DEF RawEnd, RawStart
  <2>. QED
    BY <2>2, <2>3
<1>8. RawStart(0) = 0
  BY <1>1, <1>2 DEF RawStart
<1>. QED
  BY <1>4, <1>5, <1>6, <1>7, <1>8

(* The last line of the chunks up to m ends at e.                          *)
IsEnd(m, e) ==
  /\ e \in 0..N
  /\ m = NData => e = N
  /\ m # NData => \A d \in Delims : d < RawEnd(m) => d < e
  /\ m # NData /\ e # 0 => e - 1 \in Delims /\ e - 1 < RawEnd(m)

(* There is one such end, and the ends ascend.                             *)
LEMMA EndsAscend ==
  ASSUME NEW m \in 0..NData, NEW k \in 0..NData, m <= k, NEW d, NEW e, IsEnd(m, d), IsEnd(k, e)
  PROVE  d <= e
<1>1. d \in 0..N /\ e \in 0..N /\ N \in Nat /\ NData \in Nat
  BY Sizes, ChunksCover DEF IsEnd
<1>2. CASE k = NData \/ d = 0
  BY <1>1, <1>2 DEF IsEnd
<1>3. CASE k # NData /\ d # 0
  <2>1. d - 1 \in Delims /\ d - 1 < RawEnd(m) /\ m # NData
    BY <1>1, <1>3, ChunksCover DEF IsEnd
  <2>2. RawEnd(m) \in Int /\ RawEnd(k) \in Int /\ RawEnd(m) <= RawEnd(k)
    BY ChunkEnds
  <2>3. d - 1 < RawEnd(k)
    BY <1>1, <2>1, <2>2
  <2>4. d - 1 < e
    BY <1>3, <2>1, <2>3 DEF IsEnd
  <2>. QED
    BY <1>1, <2>4
<1>. QED
  BY <1>2, <1>3

-------------------------------------------------------------------------------
(* Descriptors. *)

Slots == 0..MetaSize-1
Desc == [major : 0..NData, end : (0..N) \cup {Unset}, cum : Nat \cup {Unset}]

Types ==
  /\ cfg \in Modes /\ target \in Nodes /\ kept \in 0..KeepFor /\ eof \in BOOLEAN
  /\ major \in 0..NData+1 /\ (~eof => major <= NData)
  /\ indexerMajor \in [Nodes -> Nat] /\ scanMajor \in [Nodes -> Nat]
  /\ meta \in [Slots -> Desc] /\ cutoff \in 0..NData+1
  /\ held \in [Nodes -> 0..NData] /\ snap \in [Nodes -> 0..NData]
  /\ hand \in [Nodes -> [end : 0..N, cum : Nat, last : BOOLEAN]]
  /\ copies \in [0..N-1 -> Nat]

(* Queues ascend, and the mark of an indexer is behind what it has yet to  *)
(* read.                                                                   *)
OrderInv ==
  /\ \A v \in Nodes : \A i, j \in 1..Len(queue[v]) : i < j => queue[v][i] < queue[v][j]
  /\ \A v \in Nodes : indexerMajor[v] <= major
  /\ \A v \in Nodes : \A i \in ready[v]+1..Len(queue[v]) : indexerMajor[v] <= queue[v][i]

(* How far ingest is ahead of what an indexer has yet to read: half the    *)
(* ring, and the chunk of the end, which waits for no bound.               *)
Lead == IF MetaSize \div 2 < 1 THEN 1 ELSE MetaSize \div 2
LeadInv ==
  \A v \in Nodes : \A i \in ready[v]+1..Len(queue[v]) :
    major <= queue[v][i] + Lead + (IF major > NData THEN 1 ELSE 0)

(* The last chunks, a ring full of them, have their descriptors.           *)
RingInv ==
  /\ \A s \in Slots : meta[s].major % MetaSize = s \/ meta[s].major = 0
  /\ \A k \in Nat : k < major /\ major <= k + MetaSize => meta[Slot(k)].major = k

FreshInv == Types /\ OrderInv /\ LeadInv /\ RingInv

(* What ingest has dealt out is a chunk of the input or the end.           *)
LEMMA QueuedChunk ==
  ASSUME IInv, Types, NEW v \in Nodes, NEW i \in 1..Len(queue[v])
  PROVE  queue[v][i] \in 0..NData /\ queue[v][i] < major
<1>1. queue[v][i] \in Nat /\ queue[v][i] < major
  BY DEF IInv, QueueInv
<1>2. major \in 0..NData+1 /\ NData \in Nat
  BY ChunksCover DEF Types
<1>. QED
  BY <1>1, <1>2

LEMMA SlotIn == \A m \in Int : Slot(m) \in Slots
BY SlotRange DEF Slots

(* A chunk its indexer has yet to read, and the one before it, are in the  *)
(* ring of descriptors.                                                    *)
LEMMA InRing ==
  ASSUME IInv, FreshInv, NEW v \in Nodes, NEW i \in ready[v]+1..Len(queue[v]),
         NEW m \in 0..NData, m = queue[v][i] \/ m = queue[v][i] - 1
  PROVE  meta[Slot(m)].major = m
<1>0. /\ major \in Nat /\ Lead \in Nat /\ NData \in Nat /\ MetaSize \in Nat
      /\ \A k \in 0..NData : k \in Nat
  <2>1. NData \in Nat /\ MetaSize \in Nat
    BY Sizes, ChunksCover
  <2>2. Lead \in Nat
    BY Sizes DEF Lead
  <2>3. major \in 0..NData+1
    BY DEF FreshInv, Types
  <2>. QED
    BY ONLY <2>1, <2>2, <2>3
<1>1. ready[v] \in Nat /\ Len(queue[v]) \in Nat
  BY DEF IInv, QueueInv
<1>2. i \in 1..Len(queue[v])
  BY <1>1
<1>3. PICK q \in 0..NData : q = queue[v][i] /\ q < major
  BY <1>2, QueuedChunk DEF FreshInv
<1>4. major <= q + Lead + 1
  <2>1. major <= q + Lead + (IF major > NData THEN 1 ELSE 0)
    BY <1>3 DEF FreshInv, LeadInv
  <2>2. major \in Nat /\ Lead \in Nat /\ NData \in Nat /\ q \in Nat
    BY <1>0
  <2>. QED
    BY <2>1, <2>2
<1>5. Lead + 2 <= MetaSize
  BY Sizes DEF Lead
<1>6. m \in Nat /\ m < major /\ major <= m + MetaSize
  <2>1. major \in Nat /\ Lead \in Nat /\ NData \in Nat /\ MetaSize \in Nat
    BY <1>0
  <2>2. q \in Nat /\ m \in Nat
    BY <1>0
  <2>3. q < major /\ (m = q \/ m = q - 1)
    BY <1>3
  <2>. QED
    BY ONLY <1>4, <1>5, <2>1, <2>2, <2>3
<1>. QED
  BY <1>6 DEF FreshInv, RingInv

(* A new chunk takes the slot of the one that is a ring behind it.         *)
LEMMA EnqueueFresh ==
  ASSUME IInv, FreshInv, NEW t \in Nodes, Enqueue(t), UNCHANGED <<ready, indexerMajor>>,
         major <= NData,
         \A v \in Nodes : \A i \in ready[v]+1..Len(queue[v]) :
           major + 1 <= queue[v][i] + Lead + (IF major + 1 > NData THEN 1 ELSE 0)
  PROVE  OrderInv' /\ LeadInv' /\ RingInv' /\ meta' \in [Slots -> Desc] /\ major' \in 0..NData+1
<1>1. /\ major \in 0..NData /\ major' = major + 1 /\ NData \in Nat
      /\ queue' = [queue EXCEPT ![t] = Append(@, major)]
      /\ meta' = [meta EXCEPT ![Slot(major)] = [major |-> major, end |-> Unset, cum |-> Unset]]
      /\ meta \in [Slots -> Desc]
  BY ChunksCover DEF Enqueue, FreshInv, Types
<1>2. Slot(major) \in Slots
  BY <1>1, SlotRange DEF Slots
<1>3. meta' \in [Slots -> Desc]
  BY <1>1, <1>2 DEF Desc
<1>4. RingInv'
  <2>1. \A s \in Slots : meta'[s].major % MetaSize = s \/ meta'[s].major = 0
    <3>. SUFFICES ASSUME NEW s \in Slots PROVE meta'[s].major % MetaSize = s \/ meta'[s].major = 0
      OBVIOUS
    <3>1. CASE s = Slot(major)
      BY <1>1, <3>1 DEF Slot
    <3>2. CASE s # Slot(major)
      BY <1>1, <3>2 DEF FreshInv, RingInv
    <3>. QED
      BY <3>1, <3>2
  <2>2. ASSUME NEW k \in Nat, k < major', major' <= k + MetaSize
        PROVE  meta'[Slot(k)].major = k
    <3>1. CASE k = major
      BY <1>1, <1>2, <3>1
    <3>2. CASE k # major
      <4>1. k < major /\ major < k + MetaSize /\ major \in Nat
        BY <1>1, <2>2, <3>2, Sizes
      <4>2. Slot(k) # Slot(major)
        BY <4>1, SlotsDiffer
      <4>3. Slot(k) \in Slots
        BY SlotRange DEF Slots
      <4>4. meta[Slot(k)].major = k
        <5>1. major <= k + MetaSize
          BY <4>1, Sizes
        <5>. QED
          BY <4>1, <5>1 DEF FreshInv, RingInv
      <4>. QED
        BY <1>1, <4>2, <4>3, <4>4
    <3>. QED
      BY <3>1, <3>2
  <2>. QED
    BY <2>1, <2>2 DEF RingInv
<1>5. \A v \in Nodes : \A i \in 1..Len(queue'[v]) :
        \/ i \in 1..Len(queue[v]) /\ queue'[v][i] = queue[v][i]
        \/ v = t /\ i = Len(queue[t]) + 1 /\ queue'[v][i] = major
  <2>1. queue \in [Nodes -> Seq(Nat)] /\ major \in Nat
    BY <1>1 DEF IInv, QueueInv
  <2>2. \A v \in Nodes : v # t => queue'[v] = queue[v]
    BY <1>1, <2>1
  <2>3. queue'[t] = Append(queue[t], major) /\ queue[t] \in Seq(Nat)
    BY <1>1, <2>1
  <2>4. /\ Len(queue'[t]) = Len(queue[t]) + 1
        /\ queue'[t][Len(queue[t]) + 1] = major
        /\ \A i \in 1..Len(queue[t]) : queue'[t][i] = queue[t][i]
    BY <2>1, <2>3
  <2>5. \A v \in Nodes : Len(queue[v]) \in Nat
    BY <2>1
  <2>. QED
    BY <2>2, <2>4, <2>5
<1>6. \A v \in Nodes : Len(queue[v]) \in Nat /\ ready[v] \in Nat
  BY DEF IInv, QueueInv
<1>7. \A v \in Nodes : \A i \in 1..Len(queue[v]) : queue[v][i] \in 0..NData /\ queue[v][i] < major
  BY QueuedChunk DEF FreshInv
<1>8. OrderInv'
  <2>1. \A v \in Nodes : \A i, j \in 1..Len(queue'[v]) : i < j => queue'[v][i] < queue'[v][j]
    <3>. SUFFICES ASSUME NEW v \in Nodes, NEW i \in 1..Len(queue'[v]), NEW j \in 1..Len(queue'[v]),
                         i < j
                  PROVE  queue'[v][i] < queue'[v][j]
      OBVIOUS
    <3>1. CASE j \in 1..Len(queue[v]) /\ queue'[v][j] = queue[v][j]
      <4>1. i \in 1..Len(queue[v])
        BY <1>6, <3>1
      <4>2. queue'[v][i] = queue[v][i]
        BY <1>5, <1>6, <4>1
      <4>. QED
        BY <3>1, <4>1, <4>2 DEF FreshInv, OrderInv
    <3>2. CASE v = t /\ j = Len(queue[t]) + 1 /\ queue'[v][j] = major
      <4>1. i \in 1..Len(queue[v]) /\ queue'[v][i] = queue[v][i]
        BY <1>5, <1>6, <3>2
      <4>. QED
        BY <1>7, <3>2, <4>1
    <3>. QED
      BY <1>5, <3>1, <3>2
  <2>2. \A v \in Nodes : indexerMajor'[v] <= major'
    <3>1. indexerMajor' = indexerMajor /\ \A v \in Nodes : indexerMajor[v] \in Nat
      BY DEF FreshInv, Types
    <3>2. \A v \in Nodes : indexerMajor[v] <= major
      BY DEF FreshInv, OrderInv
    <3>. QED
      BY <1>1, <3>1, <3>2
  <2>3. \A v \in Nodes : \A i \in ready'[v]+1..Len(queue'[v]) : indexerMajor'[v] <= queue'[v][i]
    <3>. SUFFICES ASSUME NEW v \in Nodes, NEW i \in ready[v]+1..Len(queue'[v])
                  PROVE  indexerMajor[v] <= queue'[v][i]
      OBVIOUS
    <3>1. i \in 1..Len(queue'[v]) /\ i > ready[v]
      BY <1>6
    <3>2. CASE i \in 1..Len(queue[v]) /\ queue'[v][i] = queue[v][i]
      <4>1. i \in ready[v]+1..Len(queue[v])
        BY <1>6, <3>1, <3>2
      <4>. QED
        BY <3>2, <4>1 DEF FreshInv, OrderInv
    <3>3. CASE v = t /\ i = Len(queue[t]) + 1 /\ queue'[v][i] = major
      BY <3>3 DEF FreshInv, OrderInv
    <3>. QED
      BY <1>5, <3>1, <3>2, <3>3
  <2>. QED
    BY <2>1, <2>2, <2>3 DEF OrderInv
<1>9. LeadInv'
  <2>. SUFFICES ASSUME NEW v \in Nodes, NEW i \in ready[v]+1..Len(queue'[v])
                PROVE  major + 1 <= queue'[v][i] + Lead + (IF major + 1 > NData THEN 1 ELSE 0)
    BY <1>1 DEF LeadInv, Lead
  <2>1. i \in 1..Len(queue'[v]) /\ i > ready[v]
    BY <1>6
  <2>2. CASE i \in 1..Len(queue[v]) /\ queue'[v][i] = queue[v][i]
    <3>1. i \in ready[v]+1..Len(queue[v])
      BY <1>6, <2>1, <2>2
    <3>. QED
      BY <2>2, <3>1
  <2>3. CASE v = t /\ i = Len(queue[t]) + 1 /\ queue'[v][i] = major
    <3>1. Lead \in Nat /\ Lead >= 1
      BY Sizes DEF Lead
    <3>. QED
      BY <1>1, <2>3, <3>1
  <2>. QED
    BY <1>5, <2>1, <2>2, <2>3
<1>. QED
  BY <1>1, <1>3, <1>4, <1>8, <1>9

(* Some node has the least backlog, and the deal finds a target.           *)
LEMMA LeastOfNodes ==
  ASSUME NEW f \in [Nodes -> Int]
  PROVE  \E n \in Nodes : \A k \in Nodes : f[n] <= f[k]
<1> DEFINE Under(n) == {k \in Nodes : f[k] < f[n]}
           S == {Cardinality(Under(n)) : n \in Nodes}
<1>1. IsFiniteSet(Nodes) /\ 0 \in Nodes
  <2>1. NumNodes - 1 \in Int /\ 0 \in Int
    BY Sizes
  <2>. QED
    BY <2>1, FS_Interval, Sizes DEF Nodes
<1>2. \A n \in Nodes : IsFiniteSet(Under(n)) /\ Cardinality(Under(n)) \in Nat
  BY <1>1, FS_Subset, FS_CardinalityType
<1>3. S \in SUBSET Nat /\ S # {}
  BY <1>1, <1>2
<1>4. PICK x \in S : \A y \in S : x <= y
  <2>. HIDE DEF S
  <2>. QED
    BY <1>3, Least
<1>5. PICK n \in Nodes : x = Cardinality(Under(n))
  OBVIOUS
<1>6. ASSUME NEW k \in Nodes, f[k] < f[n] PROVE FALSE
  <2>1. Under(k) \in SUBSET Under(n) /\ k \in Under(n) /\ k \notin Under(k)
    BY <1>6
  <2>2. Cardinality(Under(k)) <= Cardinality(Under(n)) /\ Cardinality(Under(k)) # Cardinality(Under(n))
    <3>. HIDE DEF Under
    <3>. QED
      BY <1>2, <2>1, FS_Subset
  <2>3. x <= Cardinality(Under(k))
    BY <1>4
  <2>4. Cardinality(Under(k)) \in Nat /\ Cardinality(Under(n)) \in Nat
    BY <1>2
  <2>. HIDE DEF Under, S
  <2>. QED
    BY ONLY <1>5, <2>2, <2>3, <2>4
<1>. QED
  BY <1>6

LEMMA TargetNode ==
  ASSUME IInv, target \in Nodes
  PROVE  After(target, Min({k \in Nodes : Backlog(After(target, k)) = LeastBacklog})) \in Nodes
<1> DEFINE f == [n \in Nodes |-> Backlog(n)]
           B == {Backlog(n) : n \in Nodes}
           K == {k \in Nodes : Backlog(After(target, k)) = LeastBacklog}
<1>1. \A n \in Nodes : Backlog(n) \in Int
  BY DEF Backlog, QueueHead, IInv, QueueInv, ClaimInv
<1>2. PICK n \in Nodes : \A k \in Nodes : f[n] <= f[k]
  <2>1. f \in [Nodes -> Int]
    BY <1>1
  <2>. HIDE DEF f
  <2>. QED
    BY <2>1, LeastOfNodes
<1>3. Backlog(n) \in B /\ \A y \in B : Backlog(n) <= y
  BY <1>2
<1>4. \A x, y \in B : x \in Int /\ y \in Int /\ (x <= y /\ y <= x => x = y)
  BY <1>1
<1>5. Min(B) \in B /\ \A y \in B : Min(B) <= y
  <2>. HIDE DEF B
  <2>. QED
    BY <1>3 DEF Min
<1>6. LeastBacklog = Backlog(n)
  <2>1. LeastBacklog = Min(B)
    BY DEF LeastBacklog
  <2>. QED
    BY <1>3, <1>4, <1>5, <2>1
<1>7. K \in SUBSET Nat /\ K # {}
  <2>1. PICK k \in Nodes : After(target, k) = n
    BY AfterReaches
  <2>. QED
    BY <1>6, <2>1 DEF Nodes
<1>8. Min(K) \in Nat
  <2>. HIDE DEF K
  <2>. QED
    BY <1>7, MinOf
<1>. QED
  BY <1>8, AfterNode

(* Ingest keeps within the lifetime bound; the chunk of the end is one     *)
(* more.                                                                   *)
LEMMA PublishFresh ==
  ASSUME IInv, FreshInv, LifetimeGate, major < NData, NEW v \in Nodes,
         NEW i \in ready[v]+1..Len(queue[v])
  PROVE  major + 1 <= queue[v][i] + Lead
<1>1. ready[v] \in Nat /\ tail[v] \in Nat /\ Len(queue[v]) \in Nat
  BY DEF IInv, QueueInv, ClaimInv
<1>2. v \in Unfinished
  BY <1>1 DEF Unfinished, LeastOf, QueueHead
<1>3. major < PinOf(v) + MetaSize \div 2
  BY <1>2 DEF LifetimeGate
<1>4. indexerMajor[v] \in Nat /\ scanMajor[v] \in Nat /\ major \in Nat
  BY ChunksCover DEF FreshInv, Types
<1>5. PinOf(v) \in Nat /\ PinOf(v) <= indexerMajor[v]
  BY <1>4 DEF PinOf, LeastOf
<1>6. indexerMajor[v] <= queue[v][i]
  BY DEF FreshInv, OrderInv
<1>7. i \in 1..Len(queue[v])
  BY <1>1
<1>8. queue[v][i] \in Nat
  BY <1>7 DEF IInv, QueueInv
<1>9. MetaSize \div 2 \in Nat /\ MetaSize \div 2 <= Lead /\ Lead \in Nat
  BY Sizes DEF Lead
<1>. QED
  BY ONLY <1>3, <1>4, <1>5, <1>6, <1>8, <1>9

LEMMA IngestFresh ==
  ASSUME IInv, FreshInv, Ingest
  PROVE  FreshInv'
<1>1. UNCHANGED <<cfg, queueVars, cutoff, scanVars, history>>
  BY DEF Ingest, ChooseTarget, Publish, PublishEof, IngestStops, notIngest
<1>2. target \in Nodes /\ NData \in Nat /\ major \in 0..NData+1 /\ KeepFor \in Nat \ {0}
  BY ChunksAssumption, ChunksCover DEF FreshInv, Types
<1>3. CASE ChooseTarget \/ IngestStops
  <2>1. UNCHANGED <<major, queue, meta>>
    BY <1>3 DEF ChooseTarget, IngestStops
  <2>2. target' \in Nodes /\ kept' \in 0..KeepFor /\ eof' \in BOOLEAN /\ (~eof' => ~eof)
    <3>1. CASE ChooseTarget
      BY <1>2, <3>1, TargetNode DEF ChooseTarget, FreshInv, Types
    <3>2. CASE IngestStops
      BY <3>2 DEF IngestStops, FreshInv, Types
    <3>. QED
      BY <1>3, <3>1, <3>2
  <2>. QED
    BY <1>1, <2>1, <2>2 DEF FreshInv, Types, OrderInv, LeadInv, RingInv, queueVars, scanVars, history
<1>4. CASE Publish
  <2>1. major < NData /\ Enqueue(target) /\ LifetimeGate /\ UNCHANGED <<target, eof>>
        /\ kept' \in 0..KeepFor
    <3>1. kept \in 0..KeepFor
      BY DEF FreshInv, Types
    <3>. QED
      BY <1>2, <1>4, <3>1 DEF Publish
  <2>2. \A v \in Nodes : \A i \in ready[v]+1..Len(queue[v]) :
          major + 1 <= queue[v][i] + Lead + (IF major + 1 > NData THEN 1 ELSE 0)
    <3>1. \A v \in Nodes : \A i \in ready[v]+1..Len(queue[v]) : major + 1 <= queue[v][i] + Lead
      BY <2>1, PublishFresh
    <3>2. ~(major + 1 > NData)
      BY <1>2, <2>1
    <3>3. ASSUME NEW v \in Nodes, NEW i \in ready[v]+1..Len(queue[v])
          PROVE  queue[v][i] + Lead \in Nat
      <4>1. i \in 1..Len(queue[v])
        BY DEF IInv, QueueInv
      <4>2. queue[v][i] \in Nat
        BY <4>1 DEF IInv, QueueInv
      <4>. QED
        BY <4>2, Sizes DEF Lead
    <3>. QED
      BY <3>1, <3>2, <3>3
  <2>3. OrderInv' /\ LeadInv' /\ RingInv' /\ meta' \in [Slots -> Desc] /\ major' \in 0..NData+1
    BY <1>1, <1>2, <2>1, <2>2, EnqueueFresh DEF queueVars
  <2>4. major' = major + 1 /\ major' <= NData
    BY <1>2, <2>1 DEF Enqueue
  <2>5. Types'
    BY <1>1, <1>2, <2>1, <2>3, <2>4 DEF FreshInv, Types, queueVars, scanVars, history
  <2>. QED
    BY <2>3, <2>5 DEF FreshInv
<1>5. CASE PublishEof
  <2>1. major = NData /\ Enqueue(After(target, 0)) /\ UNCHANGED <<target, kept>> /\ eof' = TRUE
    BY <1>5 DEF PublishEof
  <2>2. \A v \in Nodes : \A i \in ready[v]+1..Len(queue[v]) :
          major + 1 <= queue[v][i] + Lead + (IF major + 1 > NData THEN 1 ELSE 0)
    <3>. SUFFICES ASSUME NEW v \in Nodes, NEW i \in ready[v]+1..Len(queue[v])
                  PROVE  major + 1 <= queue[v][i] + Lead + 1
      BY <1>2, <2>1
    <3>1. major <= queue[v][i] + Lead
      <4>1. ~(major > NData)
        BY <1>2, <2>1
      <4>2. i \in 1..Len(queue[v])
        BY DEF IInv, QueueInv
      <4>3. queue[v][i] \in Nat /\ Lead \in Nat
        BY <4>2, Sizes DEF IInv, QueueInv, Lead
      <4>. QED
        BY <4>1, <4>3 DEF FreshInv, LeadInv
    <3>2. queue[v][i] \in Nat /\ Lead \in Nat
      <4>1. i \in 1..Len(queue[v])
        BY DEF IInv, QueueInv
      <4>. QED
        BY <4>1, Sizes DEF IInv, QueueInv, Lead
    <3>. QED
      BY <1>2, <3>1, <3>2
  <2>3. After(target, 0) \in Nodes /\ major <= NData
    BY <1>2, <2>1, AfterNode
  <2>4. OrderInv' /\ LeadInv' /\ RingInv' /\ meta' \in [Slots -> Desc] /\ major' \in 0..NData+1
    BY <1>1, <2>1, <2>2, <2>3, EnqueueFresh DEF queueVars
  <2>5. Types'
    BY <1>1, <1>2, <2>1, <2>4 DEF FreshInv, Types, queueVars, scanVars, history
  <2>. QED
    BY <2>4, <2>5 DEF FreshInv
<1>. QED
  BY <1>3, <1>4, <1>5 DEF Ingest

(* Without -L a boundary in a descriptor is the end of the last line of    *)
(* the chunk the descriptor names.                                         *)
EndsInv ==
  ~cfg.exact => \A s \in Slots : meta[s].end # Unset => IsEnd(meta[s].major, meta[s].end)

LEMMA BoundaryIsEnd ==
  ASSUME IInv, FreshInv, EndsInv, ~cfg.exact, NEW v \in Nodes, NEW i \in ready[v]+1..Len(queue[v]),
         NEW m \in 0..NData, m = queue[v][i], Boundary(m) # Unset
  PROVE  IsEnd(m, Boundary(m))
<1> DEFINE ds == DelimsIn(RawStart(m), RawEnd(m))
<1>0. NData \in Nat /\ N \in Nat /\ Delims \subseteq 0..N-1
  BY Sizes, ChunksCover
<1>1. /\ RawStart(m) \in 0..N /\ RawEnd(m) \in 0..N /\ RawStart(m) <= RawEnd(m)
      /\ m > 0 => RawStart(m) = RawEnd(m - 1)
      /\ m = 0 => RawStart(m) = 0
  BY <1>0, ChunkEnds
<1>2. CASE m = NData
  BY <1>0, <1>2 DEF Boundary, IsEnd
<1>3. CASE m # NData /\ ds # {}
  <2>1. Boundary(m) = Max(ds) + 1
    BY <1>3 DEF Boundary
  <2>2. ds \in SUBSET Int /\ \A d \in ds : d <= N
    <3>1. \A d \in Delims : d \in Int /\ d <= N
      BY <1>0
    <3>. QED
      BY <3>1 DEF DelimsIn
  <2>3. Max(ds) \in ds /\ \A d \in ds : d <= Max(ds)
    <3>1. N \in Int /\ ds # {}
      BY <1>0, <1>3
    <3>. HIDE DEF ds
    <3>. QED
      BY ONLY <2>2, <3>1, MaxOf
  <2>4. PICK x \in ds : x = Max(ds)
    BY <2>3
  <2>5. x \in Delims /\ x \in 0..N-1 /\ RawStart(m) <= x /\ x < RawEnd(m)
    BY <1>0 DEF DelimsIn
  <2>6. \A d \in Delims : d < RawEnd(m) => d < x + 1
    <3>. SUFFICES ASSUME NEW d \in Delims, d < RawEnd(m) PROVE d < x + 1
      OBVIOUS
    <3>1. CASE RawStart(m) <= d
      <4>1. d \in ds /\ d \in Int
        BY <1>0, <3>1 DEF DelimsIn
      <4>2. d <= x
        BY <2>3, <2>4, <4>1
      <4>. QED
        BY <2>5, <4>1, <4>2
    <3>2. CASE ~(RawStart(m) <= d)
      BY <1>0, <1>1, <2>5, <3>2
    <3>. QED
      BY <3>1, <3>2
  <2>7. x + 1 \in 0..N /\ x + 1 - 1 = x
    BY <1>0, <2>5
  <2>. QED
    BY <1>3, <2>1, <2>4, <2>5, <2>6, <2>7 DEF IsEnd
<1>4. CASE m # NData /\ ds = {} /\ m = 0
  <2>1. Boundary(m) = 0
    BY <1>4 DEF Boundary
  <2>2. \A d \in Delims : ~(d < RawEnd(m))
    <3>. SUFFICES ASSUME NEW d \in Delims, d < RawEnd(m) PROVE FALSE
      OBVIOUS
    <3>1. RawStart(m) <= d
      BY <1>0, <1>1, <1>4
    <3>. QED
      BY <1>4, <3>1 DEF DelimsIn
  <2>. QED
    BY <1>0, <1>4, <2>1, <2>2 DEF IsEnd
<1>5. CASE m # NData /\ ds = {} /\ m # 0
  <2>1. Boundary(m) = meta[Slot(m - 1)].end
    BY <1>5 DEF Boundary
  <2>2. m - 1 \in 0..NData /\ m - 1 # NData
    BY <1>0, <1>5
  <2>3. meta[Slot(m - 1)].major = m - 1
    BY <2>2, InRing
  <2>4. Slot(m - 1) \in Slots
    <3>1. m - 1 \in Int
      BY <1>0
    <3>. QED
      BY <3>1, SlotIn
  <2>5. PICK e : e = meta[Slot(m - 1)].end
    OBVIOUS
  <2>6. IsEnd(m - 1, e)
    BY <2>1, <2>3, <2>4, <2>5 DEF EndsInv
  <2>7. \A d \in Delims : d < RawEnd(m) => d < e
    <3>. SUFFICES ASSUME NEW d \in Delims, d < RawEnd(m) PROVE d < e
      OBVIOUS
    <3>1. ~(RawStart(m) <= d)
      BY <1>5 DEF DelimsIn
    <3>2. d < RawEnd(m - 1)
      BY <1>0, <1>1, <1>5, <3>1
    <3>. QED
      BY <2>2, <2>6, <3>2 DEF IsEnd
  <2>8. e # 0 => e - 1 \in Delims /\ e - 1 < RawEnd(m)
    <3>1. e # 0 => e - 1 \in Delims /\ e - 1 < RawEnd(m - 1) /\ e - 1 \in Int
      BY <1>0, <2>2, <2>6 DEF IsEnd
    <3>2. RawEnd(m - 1) <= RawEnd(m) /\ RawEnd(m - 1) \in Int /\ RawEnd(m) \in Int
      BY <2>2, ChunkEnds
    <3>. QED
      BY <3>1, <3>2
  <2>9. e \in 0..N
    BY <2>6 DEF IsEnd
  <2>. QED
    BY ONLY <1>5, <2>1, <2>5, <2>7, <2>8, <2>9 DEF IsEnd
<1>. QED
  BY <1>2, <1>3, <1>4, <1>5

(* The indexer fills in the boundary of the chunk the descriptor names.    *)
LEMMA IndexFresh ==
  ASSUME IInv, FreshInv, EndsInv, NEW n \in Nodes, Index(n)
  PROVE  FreshInv' /\ EndsInv'
<1> DEFINE r == ready[n] + 1
<1>1. /\ UNCHANGED <<cfg, ingestVars, queue, tail, scanMajor, cutoff, scanVars, history>>
      /\ ready[n] < Len(queue[n])
      /\ ready' = [ready EXCEPT ![n] = r]
      /\ indexerMajor' = [indexerMajor EXCEPT ![n] = queue[n][r]]
  BY DEF Index, ReadyAfter, QueueHead
<1>2. ready \in [Nodes -> Nat] /\ \A v \in Nodes : Len(queue[v]) \in Nat
  BY DEF IInv, QueueInv
<1>3. r \in ready[n]+1..Len(queue[n]) /\ r \in 1..Len(queue[n])
  BY <1>1, <1>2
<1>4. PICK m \in 0..NData : m = queue[n][r] /\ m < major
  BY <1>3, QueuedChunk DEF FreshInv
<1>5. meta[Slot(m)].major = m /\ Slot(m) \in Slots
  <2>1. meta[Slot(m)].major = m
    BY <1>3, <1>4, InRing
  <2>2. m \in Int
    BY ChunksCover
  <2>. QED
    BY <2>1, <2>2, SlotIn
<1>6. \/ cfg.exact /\ meta' = meta
      \/ /\ ~cfg.exact /\ IsEnd(m, Boundary(m))
         /\ meta' = [meta EXCEPT ![Slot(m)].end = Boundary(m)]
  <2>1. \/ cfg.exact /\ meta' = meta
        \/ /\ ~cfg.exact /\ Boundary(m) # Unset
           /\ meta' = [meta EXCEPT ![Slot(m)].end = Boundary(m)]
    BY <1>4 DEF Index
  <2>. QED
    BY <1>3, <1>4, <2>1, BoundaryIsEnd
<1>7. meta' \in [Slots -> Desc] /\ \A s \in Slots : meta'[s].major = meta[s].major
  <2>1. meta \in [Slots -> Desc]
    BY DEF FreshInv, Types
  <2>2. IsEnd(m, Boundary(m)) => Boundary(m) \in 0..N
    BY DEF IsEnd
  <2>. QED
    BY <1>5, <1>6, <2>1, <2>2 DEF Desc
<1>8. EndsInv'
  <2>. SUFFICES ASSUME ~cfg.exact, NEW s \in Slots, meta'[s].end # Unset
                PROVE  IsEnd(meta'[s].major, meta'[s].end)
    BY <1>1 DEF EndsInv
  <2>1. meta \in [Slots -> Desc]
    BY DEF FreshInv, Types
  <2>2. CASE s = Slot(m)
    <3>1. meta'[s].major = m /\ meta'[s].end = Boundary(m)
      BY <1>5, <1>6, <1>7, <2>1, <2>2 DEF Desc
    <3>. QED
      BY <1>6, <3>1
  <2>3. CASE s # Slot(m)
    BY <1>5, <1>6, <2>1, <2>3 DEF EndsInv
  <2>. QED
    BY <2>2, <2>3
<1>9. indexerMajor \in [Nodes -> Nat] /\ indexerMajor' \in [Nodes -> Nat]
      /\ ready' \in [Nodes -> Nat]
  <2>1. indexerMajor \in [Nodes -> Nat] /\ m \in Nat
    BY DEF FreshInv, Types
  <2>. QED
    BY <1>1, <1>2, <1>4, <2>1
<1>10. Types'
  BY <1>1, <1>7, <1>9 DEF FreshInv, Types, ingestVars, scanVars, history
<1>11. \A v \in Nodes : \A i \in ready'[v]+1..Len(queue[v]) : i \in ready[v]+1..Len(queue[v])
  BY <1>1, <1>2
<1>12. OrderInv'
  <2>1. \A v \in Nodes : indexerMajor'[v] <= major
    <3>1. \A v \in Nodes : indexerMajor[v] <= major
      BY DEF FreshInv, OrderInv
    <3>2. m <= major /\ \A v \in Nodes : indexerMajor'[v] \in {indexerMajor[v], m}
      <4>1. m <= major
        <5>1. major \in 0..NData+1 /\ NData \in Nat
          BY ChunksCover DEF FreshInv, Types
        <5>. QED
          BY ONLY <1>4, <5>1
      <4>2. \A v \in Nodes : indexerMajor'[v] \in {indexerMajor[v], m}
        BY <1>1, <1>4, <1>9
      <4>. QED
        BY <4>1, <4>2
    <3>. QED
      BY <3>1, <3>2
  <2>2. ASSUME NEW v \in Nodes, NEW i \in ready'[v]+1..Len(queue[v])
        PROVE  indexerMajor'[v] <= queue[v][i]
    <3>1. CASE v = n
      <4>1. i \in 1..Len(queue[n]) /\ r < i
        BY <1>1, <1>2, <1>9, <2>2, <3>1
      <4>2. queue[n][r] < queue[n][i]
        BY <1>3, <4>1 DEF FreshInv, OrderInv
      <4>3. queue[n][i] \in 0..NData
        BY <4>1, QueuedChunk DEF FreshInv
      <4>4. indexerMajor'[v] = m
        BY <1>1, <1>4, <1>9, <3>1
      <4>. QED
        BY <1>4, <3>1, <4>2, <4>3, <4>4, ChunksCover
    <3>2. CASE v # n
      BY <1>1, <1>9, <1>11, <2>2, <3>2 DEF FreshInv, OrderInv
    <3>. QED
      BY <3>1, <3>2
  <2>. QED
    BY <1>1, <2>1, <2>2 DEF FreshInv, OrderInv, ingestVars
<1>13. LeadInv'
  BY <1>1, <1>11 DEF FreshInv, LeadInv, ingestVars
<1>14. RingInv'
  <2>1. \A k \in Nat : meta'[Slot(k)].major = meta[Slot(k)].major
    BY <1>7, SlotIn
  <2>2. major' = major
    BY <1>1 DEF ingestVars
  <2>. QED
    BY <1>7, <2>1, <2>2 DEF FreshInv, RingInv
<1>. QED
  BY <1>8, <1>10, <1>12, <1>13, <1>14 DEF FreshInv

(* Ingest hands out empty descriptors.                                     *)
LEMMA IngestEnds ==
  ASSUME FreshInv, EndsInv, Ingest
  PROVE  EndsInv'
<1>1. cfg' = cfg /\ meta \in [Slots -> Desc]
  BY DEF Ingest, ChooseTarget, Publish, PublishEof, IngestStops, notIngest, FreshInv, Types
<1>2. \/ meta' = meta
      \/ meta' = [meta EXCEPT ![Slot(major)] = [major |-> major, end |-> Unset, cum |-> Unset]]
  BY DEF Ingest, ChooseTarget, Publish, PublishEof, IngestStops, Enqueue
<1>3. \A s \in Slots : meta'[s].end # Unset => meta'[s] = meta[s]
  <2>. SUFFICES ASSUME NEW s \in Slots, meta'[s].end # Unset PROVE meta'[s] = meta[s]
    OBVIOUS
  <2>1. CASE meta' = meta
    BY <2>1
  <2>2. CASE meta' = [meta EXCEPT ![Slot(major)] = [major |-> major, end |-> Unset, cum |-> Unset]]
    BY <1>1, <2>2
  <2>. QED
    BY <1>2, <2>1, <2>2
<1>. QED
  BY <1>1, <1>3 DEF EndsInv

(* Choosing and claiming leave the descriptors alone.                      *)
LEMMA ChoiceFresh ==
  ASSUME IInv, FreshInv, EndsInv, NEW n \in Nodes,
         Own(n) \/ Steal(n) \/ Finish(n) \/ Claim(n) \/ Overran(n) \/ Snapshot(n)
  PROVE  FreshInv' /\ EndsInv'
<1>1. UNCHANGED <<cfg, major, target, kept, eof, queue, ready, indexerMajor, meta, cutoff, copies>>
  BY DEF Own, Steal, Finish, Claim, Overran, Snapshot, ClaimFrom, notClaim, ingestVars
<1>2. \/ UNCHANGED <<scanMajor, held, snap, hand>>
      \/ Snapshot(n)
  BY DEF Own, Steal, Finish, Claim, Overran, Snapshot, ClaimFrom
<1>3. /\ held' \in [Nodes -> 0..NData] /\ snap' \in [Nodes -> 0..NData]
      /\ scanMajor' \in [Nodes -> Nat]
      /\ hand' \in [Nodes -> [end : 0..N, cum : Nat, last : BOOLEAN]]
  <2>1. /\ held \in [Nodes -> 0..NData] /\ snap \in [Nodes -> 0..NData]
        /\ scanMajor \in [Nodes -> Nat] /\ meta \in [Slots -> Desc]
        /\ hand \in [Nodes -> [end : 0..N, cum : Nat, last : BOOLEAN]]
    BY DEF FreshInv, Types
  <2>2. CASE UNCHANGED <<scanMajor, held, snap, hand>>
    BY <2>1, <2>2
  <2>3. CASE Snapshot(n)
    <3> DEFINE q == queue[from[n]][idx[n] + 1]
    <3>1. /\ from[n] \in Nodes /\ idx[n] \in Nat
          /\ ready[from[n]] \in Nat /\ Len(queue[from[n]]) \in Nat
          /\ ready[from[n]] <= Len(queue[from[n]])
      BY DEF IInv, QueueInv, ClaimInv
    <3>2. idx[n] + 1 \in 1..Len(queue[from[n]])
      BY <2>3, <3>1 DEF Snapshot
    <3>3. PICK m \in 0..NData : m = q
      BY <3>1, <3>2, QueuedChunk DEF FreshInv
    <3>4. m \in Nat
      BY ChunksCover
    <3>5. meta[Slot(m)].major \in 0..NData
      BY <2>1, <3>4, SlotIn DEF Desc
    <3>6. /\ held' = [held EXCEPT ![n] = m]
          /\ snap' = [snap EXCEPT ![n] = meta[Slot(m)].major]
          /\ scanMajor' = [scanMajor EXCEPT ![n] = m]
          /\ hand' = [hand EXCEPT ![n].end = Cleared(meta[Slot(m)].end)]
      BY <2>3, <3>3 DEF Snapshot
    <3>7. PICK e \in 0..N : e = Cleared(meta[Slot(m)].end)
      <4>1. N \in Nat /\ meta[Slot(m)].end \in (0..N) \cup {Unset}
        BY <2>1, <3>4, SlotIn, Sizes DEF Desc
      <4>. QED
        BY <4>1 DEF Cleared
    <3>8. hand' \in [Nodes -> [end : 0..N, cum : Nat, last : BOOLEAN]]
      BY ONLY <2>1, <3>6, <3>7
    <3>. QED
      BY ONLY <2>1, <3>3, <3>4, <3>5, <3>6, <3>8
  <2>. QED
    BY <1>2, <2>2, <2>3
<1>4. Types'
  BY <1>1, <1>3 DEF FreshInv, Types
<1>. QED
  BY <1>1, <1>4 DEF FreshInv, OrderInv, LeadInv, RingInv, EndsInv

-------------------------------------------------------------------------------
(* Lines. *)

LEMMA DelimsFinite ==
  ASSUME NEW s, NEW e
  PROVE  IsFiniteSet(DelimsIn(s, e)) /\ Cardinality(DelimsIn(s, e)) \in Nat
<1>1. IsFiniteSet(0..N-1)
  BY Sizes, FS_Interval
<1>2. DelimsIn(s, e) \in SUBSET (0..N-1)
  BY Sizes DEF DelimsIn
<1>. QED
  BY <1>1, <1>2, FS_Subset, FS_CardinalityType

LEMMA LineCountNat == ASSUME NEW s, NEW e PROVE LineCount(s, e) \in Nat
BY DelimsFinite DEF LineCount

(* There is a k-th delimiter where there are k.                            *)
LEMMA KthDelimiter ==
  ASSUME NEW s \in Nat, NEW e \in Nat, NEW k \in Nat \ {0}, k <= Cardinality(DelimsIn(s, e))
  PROVE  \E d \in DelimsIn(s, e) : Cardinality(DelimsIn(s, d + 1)) = k
<1> DEFINE c(j) == Cardinality(DelimsIn(s, j))
           T == {j \in 0..e : k <= c(j)}
<1>1. \A j : c(j) \in Nat /\ IsFiniteSet(DelimsIn(s, j))
  BY DelimsFinite
<1>2. T \in SUBSET Nat /\ T # {}
  BY <1>1
<1>3. PICK j \in T : \A i \in T : j <= i
  <2>. HIDE DEF T
  <2>. QED
    BY <1>2, Least
<1>4. j \in 0..e /\ k <= c(j)
  OBVIOUS
<1>5. s < j
  <2>. SUFFICES ASSUME j <= s PROVE FALSE
    BY <1>4
  <2>1. DelimsIn(s, j) = {}
    <3>1. \A d \in Delims : d \in Int
      BY Sizes
    <3>. QED
      BY <1>4, <3>1 DEF DelimsIn
  <2>2. c(j) = 0
    BY <2>1, FS_EmptySet
  <2>. QED
    BY <1>4, <2>2
<1>6. PICK d \in Nat : d = j - 1 /\ d + 1 = j
  BY <1>4, <1>5
<1>7. c(d) < k
  <2>1. d \notin T /\ d \in 0..e
    BY <1>3, <1>4, <1>6
  <2>2. ~(k <= c(d))
    BY <2>1
  <2>3. c(d) \in Nat
    BY <1>1
  <2>. HIDE DEF c
  <2>. QED
    BY <2>2, <2>3
<1>8. d \in Delims
  <2>. SUFFICES ASSUME d \notin Delims PROVE FALSE
    OBVIOUS
  <2>1. DelimsIn(s, j) = DelimsIn(s, d)
    <3>1. \A x \in Delims : x \in Int
      BY Sizes
    <3>2. \A x \in Delims : x < j <=> x < d
      BY <1>4, <1>6, <3>1
    <3>. QED
      BY <3>2 DEF DelimsIn
  <2>2. c(j) \in Nat
    BY <1>1
  <2>. HIDE DEF c
  <2>3. c(j) = c(d)
    BY <2>1 DEF c
  <2>. QED
    BY <1>4, <1>7, <2>2, <2>3
<1>9. DelimsIn(s, j) = DelimsIn(s, d) \cup {d} /\ d \notin DelimsIn(s, d)
  <2>1. \A x \in Delims : x \in Int
    BY Sizes
  <2>2. \A x \in Delims : x < j <=> x < d \/ x = d
    BY <1>4, <1>6, <2>1
  <2>3. s <= d /\ ~(d < d)
    BY <1>4, <1>5, <1>6
  <2>. QED
    BY <1>8, <2>2, <2>3 DEF DelimsIn
<1>10. c(j) = c(d) + 1
  BY <1>1, <1>9, FS_AddElement
<1>11. c(j) = k
  <2>1. c(j) \in Nat /\ c(d) \in Nat
    BY <1>1
  <2>. HIDE DEF c
  <2>. QED
    BY <1>4, <1>7, <1>10, <2>1
<1>12. d \in DelimsIn(s, e)
  BY <1>4, <1>5, <1>6, <1>8 DEF DelimsIn
<1>. QED
  BY <1>6, <1>11, <1>12

(* The first k lines of [s, e) end in it.                                  *)
LEMMA LinesEnd ==
  ASSUME NEW s \in 0..N, NEW e \in 0..N, NEW k \in Nat, k <= LineCount(s, e)
  PROVE  /\ EndOfLines(s, e, k) \in Nat
         /\ EndOfLines(s, e, k) = s \/ EndOfLines(s, e, k) <= e
<1>0. N \in Nat
  BY Sizes
<1>1. CASE k = 0 \/ LineCount(s, e) <= k
  BY <1>0, <1>1 DEF EndOfLines
<1>2. CASE ~(k = 0 \/ LineCount(s, e) <= k)
  <2> DEFINE P(d) == d \in DelimsIn(s, e) /\ Cardinality(DelimsIn(s, d + 1)) = k
  <2>1. k <= Cardinality(DelimsIn(s, e))
    BY <1>2, DelimsFinite DEF LineCount
  <2>2. \E d \in DelimsIn(s, e) : Cardinality(DelimsIn(s, d + 1)) = k
    <3>1. s \in Nat /\ e \in Nat /\ k \in Nat \ {0}
      BY <1>0, <1>2
    <3>. QED
      BY <2>1, <3>1, KthDelimiter
  <2>3. PICK d : d = CHOOSE x \in DelimsIn(s, e) : Cardinality(DelimsIn(s, x + 1)) = k
    OBVIOUS
  <2>4. d \in DelimsIn(s, e)
    BY <2>2, <2>3
  <2>5. d \in Nat /\ d < e
    BY <2>4, Sizes DEF DelimsIn
  <2>6. EndOfLines(s, e, k) = 1 + d
    BY <1>2, <2>3 DEF EndOfLines
  <2>. QED
    BY <1>0, <2>5, <2>6
<1>. QED
  BY <1>1, <1>2

-------------------------------------------------------------------------------
(* A chunk goes out and is handed on. *)

LEMMA PrevTypes ==
  ASSUME FreshInv, NEW n \in Nodes
  PROVE  /\ Prev(n).end \in (0..N) \cup {Unset} /\ Prev(n).cum \in Nat \cup {Unset}
         /\ hand[n].end \in 0..N
         /\ Slot(held[n]) \in Slots /\ held[n] \in 0..NData /\ snap[n] \in 0..NData
         /\ held[n] # 0 => Slot(held[n] - 1) \in Slots
<1>1. /\ held[n] \in 0..NData /\ snap[n] \in 0..NData /\ meta \in [Slots -> Desc]
      /\ hand \in [Nodes -> [end : 0..N, cum : Nat, last : BOOLEAN]]
  BY DEF FreshInv, Types
<1>2. held[n] \in Int /\ held[n] - 1 \in Int /\ N \in Nat
  BY <1>1, ChunksCover, Sizes
<1>3. Slot(held[n]) \in Slots /\ Slot(held[n] - 1) \in Slots
  BY <1>2, SlotIn
<1>4. meta[Slot(held[n])] \in Desc /\ meta[Slot(held[n] - 1)] \in Desc
  BY <1>1, <1>3
<1>. QED
  BY <1>1, <1>2, <1>3, <1>4 DEF Prev, Descriptor, Desc

(* The bounds of exact batches lie in the input.                           *)
LEMMA BoundsOf ==
  ASSUME NEW n, NEW s \in 0..N
  PROVE  LET bounds == {s} \cup {d + 1 : d \in Ends(n)}
         IN  Max(bounds) \in 0..N /\ s <= Max(bounds)
<1> DEFINE bounds == {s} \cup {d + 1 : d \in Ends(n)}
<1>1. N \in Nat /\ \A d \in Ends(n) : d + 1 \in 0..N
  BY Sizes DEF Ends, DelimsIn
<1>2. bounds \in SUBSET (0..N) /\ s \in bounds
  BY <1>1
<1>3. Max(bounds) \in bounds /\ \A x \in bounds : x <= Max(bounds)
  <2>. HIDE DEF bounds
  <2>1. bounds \in SUBSET Int /\ bounds # {} /\ N \in Int /\ \A x \in bounds : x <= N
    BY <1>1, <1>2
  <2>. QED
    BY ONLY <2>1, MaxOf
<1>. QED
  BY <1>2, <1>3

LEMMA FlushTypes ==
  ASSUME copies \in [0..N-1 -> Nat], NEW n, NEW s, NEW e, Flush(n, s, e)
  PROVE  copies' \in [0..N-1 -> Nat]
<1>1. \A b \in 0..N-1 : copies[b] + (IF s <= b /\ b < e THEN 1 ELSE 0) \in Nat
  OBVIOUS
<1>. QED
  BY <1>1 DEF Flush

LEMMA HandTypes ==
  ASSUME FreshInv, NEW n, NEW e \in 0..N, NEW c \in Nat, NEW l \in BOOLEAN, ToHandoff(n, e, c, l)
  PROVE  hand' \in [Nodes -> [end : 0..N, cum : Nat, last : BOOLEAN]]
<1>1. hand \in [Nodes -> [end : 0..N, cum : Nat, last : BOOLEAN]]
  BY DEF FreshInv, Types
<1>. QED
  BY <1>1 DEF ToHandoff

LEMMA ScanFresh ==
  ASSUME IInv, FreshInv, EndsInv, NEW n \in Nodes,
         SkipPast(n) \/ Scan(n) \/ ScanExact(n) \/ ScanExactEof(n) \/ SkipExact(n)
  PROVE  FreshInv' /\ EndsInv'
<1>1. UNCHANGED <<cfg, ingestVars, queue, queueVars, held, snap, meta>>
  BY DEF SkipPast, Scan, ScanExact, ScanExactEof, SkipExact, ToHandoff, notChunk
<1>2. copies \in [0..N-1 -> Nat] /\ cutoff \in 0..NData+1 /\ NData \in Nat /\ N \in Nat
      /\ hand \in [Nodes -> [end : 0..N, cum : Nat, last : BOOLEAN]]
      /\ cfg \in Modes
  BY ChunksCover, Sizes DEF FreshInv, Types
<1>3. cfg.limit \in Nat
  BY <1>2, Sizes
<1>4. copies' \in [0..N-1 -> Nat]
  <2>1. \E s, e : Flush(n, s, e)
    BY DEF SkipPast, Scan, ScanExact, ScanExactEof, SkipExact
  <2>. QED
    BY <1>2, <2>1, FlushTypes
<1>5. snap[n] \in 0..NData
  BY PrevTypes
<1>6. cutoff' \in 0..NData+1
  <2>1. cutoff' \in {cutoff, snap[n] + 1}
    BY DEF SkipPast, Scan, ScanExact, ScanExactEof, SkipExact
  <2>. QED
    BY <1>2, <1>5, <2>1
<1>7. hand' \in [Nodes -> [end : 0..N, cum : Nat, last : BOOLEAN]]
  <2>1. CASE SkipPast(n) \/ SkipExact(n)
    <3>1. RawStart(snap[n]) \in 0..N
      BY <1>5, ChunkEnds
    <3>2. ToHandoff(n, RawStart(snap[n]), cfg.limit, FALSE)
      BY <2>1 DEF SkipPast, SkipExact
    <3>. QED
      BY <1>3, <3>1, <3>2, HandTypes
  <2>2. CASE Scan(n)
    <3> DEFINE s == Prev(n).end
               e == hand[n].end
               lines == LineCount(s, e)
               take == LeastOf(lines, Budget(n))
               met == Budget(n) > 0 /\ s < e /\ lines >= Budget(n)
    <3>1. CASE cfg.limit = 0
      BY <1>2, <2>2, <3>1 DEF Scan
    <3>2. CASE cfg.limit # 0
      <4>1. Prev(n).cum # Unset /\ ToHandoff(n, e, Prev(n).cum + take, met)
        BY <2>2, <3>2 DEF Scan
      <4>2. Prev(n).cum \in Nat /\ e \in 0..N
        BY <1>2, <4>1, PrevTypes DEF Unset
      <4>3. take \in Nat
        <5>1. lines \in Nat
          BY LineCountNat
        <5>2. Budget(n) \in Nat
          BY <1>3, <4>2 DEF Budget
        <5>. QED
          BY <5>1, <5>2 DEF LeastOf
      <4>4. met \in BOOLEAN
        OBVIOUS
      <4>. HIDE DEF e, take, met
      <4>5. Prev(n).cum + take \in Nat
        BY <4>2, <4>3
      <4>. QED
        BY <4>1, <4>2, <4>4, <4>5, HandTypes
    <3>. QED
      BY <3>1, <3>2
  <2>3. CASE ScanExact(n)
    <3> DEFINE s == Prev(n).end
               bounds == {s} \cup {d + 1 : d \in Ends(n)}
               met == \E d \in Ends(n) : Nth(n, d) = cfg.limit
               count == Cardinality(DelimsIn(RawStart(snap[n]), RawEnd(snap[n])))
               c == IF met THEN cfg.limit ELSE Prev(n).cum + count
    <3>1. ToHandoff(n, Max(bounds), c, met)
      BY <2>3 DEF ScanExact
    <3>2. s \in 0..N /\ Prev(n).cum \in Nat
      BY <2>3, PrevTypes DEF ScanExact, HandedOn, Unset
    <3>3. Max(bounds) \in 0..N
      BY <3>2, BoundsOf
    <3>4. c \in Nat
      <4>1. count \in Nat
        BY DelimsFinite
      <4>. QED
        BY <1>3, <3>2, <4>1
    <3>5. met \in BOOLEAN
      OBVIOUS
    <3>. HIDE DEF bounds, met, c
    <3>. QED
      BY <3>1, <3>3, <3>4, <3>5, HandTypes
  <2>4. CASE ScanExactEof(n)
    <3>1. ToHandoff(n, N, Prev(n).cum, FALSE)
      BY <2>4 DEF ScanExactEof
    <3>2. Prev(n).cum \in Nat /\ N \in 0..N
      BY <1>2, <2>4, PrevTypes DEF ScanExactEof, HandedOn, Unset
    <3>. QED
      BY <3>1, <3>2, HandTypes
  <2>. QED
    BY <2>1, <2>2, <2>3, <2>4
<1>8. Types'
  BY <1>1, <1>4, <1>6, <1>7 DEF FreshInv, Types, ingestVars, queueVars
<1>. QED
  BY <1>1, <1>8 DEF FreshInv, OrderInv, LeadInv, RingInv, EndsInv, ingestVars, queueVars

LEMMA HandoffFresh ==
  ASSUME IInv, FreshInv, EndsInv, NEW n \in Nodes, Handoff(n)
  PROVE  FreshInv' /\ EndsInv'
<1>1. UNCHANGED <<cfg, ingestVars, queue, queueVars, held, snap, cutoff, hand, copies>>
  BY DEF Handoff, notChunk, history
<1>2. meta \in [Slots -> Desc] /\ hand[n] \in [end : 0..N, cum : Nat, last : BOOLEAN]
  BY DEF FreshInv, Types
<1>3. Slot(held[n]) \in Slots
  BY PrevTypes
<1>4. meta' = [meta EXCEPT ![Slot(held[n])].cum = hand[n].cum,
                           ![Slot(held[n])].end = IF cfg.exact THEN hand[n].end ELSE @]
  BY DEF Handoff
<1>5. /\ meta' \in [Slots -> Desc]
      /\ \A s \in Slots : meta'[s].major = meta[s].major
      /\ ~cfg.exact => \A s \in Slots : meta'[s].end = meta[s].end
  BY <1>2, <1>3, <1>4 DEF Desc
<1>6. Types'
  BY <1>1, <1>5 DEF FreshInv, Types, ingestVars, queueVars
<1>7. RingInv'
  <2>1. \A k \in Nat : meta'[Slot(k)].major = meta[Slot(k)].major
    BY <1>5, SlotIn
  <2>2. major' = major
    BY <1>1 DEF ingestVars
  <2>. QED
    BY <1>5, <2>1, <2>2 DEF FreshInv, RingInv
<1>8. EndsInv'
  BY <1>1, <1>5 DEF EndsInv
<1>. QED
  BY <1>1, <1>6, <1>7, <1>8 DEF FreshInv, OrderInv, LeadInv, ingestVars, queueVars

LEMMA FreshInit == Init => FreshInv /\ EndsInv
<1>. SUFFICES ASSUME Init PROVE FreshInv /\ EndsInv
  OBVIOUS
<1>1. NData \in Nat /\ N \in Nat /\ MetaSize \in Nat /\ NumNodes \in Nat \ {0} /\ KeepFor \in Nat
  BY ChunksCover, Sizes, ChunksAssumption
<1>2. meta \in [Slots -> Desc] /\ \A s \in Slots : meta[s].major = 0 /\ meta[s].end = Unset
  BY <1>1 DEF Init, Slots, Desc
<1>3. hand \in [Nodes -> [end : 0..N, cum : Nat, last : BOOLEAN]]
  <2>1. [end |-> 0, cum |-> 0, last |-> FALSE] \in [end : 0..N, cum : Nat, last : BOOLEAN]
    BY <1>1
  <2>. QED
    BY <2>1 DEF Init
<1>4. /\ target \in Nodes /\ kept \in 0..KeepFor /\ copies \in [0..N-1 -> Nat]
      /\ indexerMajor \in [Nodes -> Nat] /\ scanMajor \in [Nodes -> Nat]
      /\ held \in [Nodes -> 0..NData] /\ snap \in [Nodes -> 0..NData]
  BY <1>1 DEF Init, Nodes
<1>5. Types
  <2>1. major = 0 /\ cutoff = 0 /\ eof = FALSE /\ cfg \in Modes
    BY DEF Init
  <2>2. 0 \in 0..NData+1 /\ 0 <= NData
    BY ONLY <1>1
  <2>. QED
    BY ONLY <1>2, <1>3, <1>4, <2>1, <2>2 DEF Types
<1>6. OrderInv /\ LeadInv
  BY <1>1 DEF Init, OrderInv, LeadInv
<1>7. RingInv
  BY <1>1, <1>2 DEF Init, RingInv
<1>8. EndsInv
  BY <1>2 DEF EndsInv
<1>. QED
  BY <1>5, <1>6, <1>7, <1>8 DEF FreshInv

-------------------------------------------------------------------------------
(* What goes out without -L: the bytes between two ends. *)

StartsAt(m, s) == IF m = 0 THEN s = 0 ELSE IsEnd(m - 1, s)
Covers(m, b) == \E s \in 0..N : \E e \in 0..N : StartsAt(m, s) /\ IsEnd(m, e) /\ s <= b /\ b < e

(* A byte that is out belongs to a chunk that was closed.                  *)
OutInv ==
  ~stale /\ ~cfg.exact => \A b \in 0..N-1 :
    copies[b] <= 1 /\ (copies[b] # 0 => \E m \in 0..NData : closed[m] # 0 /\ Covers(m, b))

(* A byte belongs to one chunk.                                            *)
LEMMA CoversOnce ==
  ASSUME NEW m \in 0..NData, NEW k \in 0..NData, NEW b \in 0..N-1, Covers(m, b), Covers(k, b)
  PROVE  m = k
<1>0. NData \in Nat /\ N \in Nat
  BY ChunksCover, Sizes
<1>1. ASSUME NEW i \in 0..NData, NEW j \in 0..NData, Covers(i, b), Covers(j, b)
      PROVE  ~(i < j)
  <2>. SUFFICES ASSUME i < j PROVE FALSE
    OBVIOUS
  <2>1. PICK e \in 0..N : IsEnd(i, e) /\ b < e
    BY <1>1 DEF Covers
  <2>2. PICK s \in 0..N : StartsAt(j, s) /\ s <= b
    BY <1>1 DEF Covers
  <2>3. j # 0 /\ j - 1 \in 0..NData /\ i <= j - 1
    BY <1>0
  <2>4. IsEnd(j - 1, s)
    BY <2>2, <2>3 DEF StartsAt
  <2>5. e <= s
    BY <2>1, <2>3, <2>4, EndsAscend
  <2>. QED
    BY <1>0, <2>1, <2>2, <2>5
<1>2. ~(m < k) /\ ~(k < m)
  BY <1>1
<1>. QED
  BY <1>0, <1>2

(* A step that puts nothing out keeps it.                                  *)
LEMMA OutFrame == ASSUME OutInv, UNCHANGED <<cfg, copies, closed, stale>> PROVE OutInv'
BY DEF OutInv

(* A scanner that puts out bytes of the chunk it holds keeps it.           *)
LEMMA FlushOut ==
  ASSUME IInv, FreshInv, OutInv, NEW n \in Nodes, pc[n] = "gate", NEW s, NEW e, Flush(n, s, e),
         UNCHANGED cfg,
         ~cfg.exact /\ ~Recycled(n) =>
           \A b \in 0..N-1 : s <= b /\ b < e => Covers(held[n], b)
  PROVE  OutInv'
<1>. SUFFICES ASSUME ~stale', ~cfg.exact', NEW b \in 0..N-1
     PROVE  /\ copies'[b] <= 1
            /\ copies'[b] # 0 => \E m \in 0..NData : closed'[m] # 0 /\ Covers(m, b)
  BY DEF OutInv, Covers, StartsAt, IsEnd
<1>1. ~stale /\ ~Recycled(n) /\ ~cfg.exact /\ snap[n] = held[n]
  BY DEF Flush, Recycled
<1>2. PICK h \in 0..NData : h = held[n]
  BY PrevTypes
<1>3. closed[h] = 0
  BY <1>1, <1>2, NotYetClosed
<1>4. /\ closed \in [0..NData -> Nat] /\ closed' = [closed EXCEPT ![h] = @ + 1]
      /\ copies[b] \in Nat
  BY <1>1, <1>2 DEF IInv, ClosedInv, Flush, FreshInv, Types
<1>5. closed'[h] # 0 /\ \A m \in 0..NData : closed[m] # 0 => closed'[m] # 0
  BY <1>3, <1>4
<1>6. copies'[b] = copies[b] + (IF s <= b /\ b < e THEN 1 ELSE 0)
  BY DEF Flush, FreshInv, Types
<1>7. /\ copies[b] <= 1
      /\ copies[b] # 0 => \E m \in 0..NData : closed[m] # 0 /\ Covers(m, b)
  BY <1>1 DEF OutInv
<1>8. CASE s <= b /\ b < e
  <2>1. Covers(h, b)
    BY <1>1, <1>2, <1>8
  <2>2. copies[b] = 0
    BY <1>3, <1>7, <2>1, CoversOnce
  <2>3. copies'[b] = 1
    BY <1>4, <1>6, <1>8, <2>2
  <2>. QED
    BY <1>5, <2>1, <2>3
<1>9. CASE ~(s <= b /\ b < e)
  <2>1. copies'[b] = copies[b]
    BY <1>4, <1>6, <1>9
  <2>. QED
    BY <1>5, <1>7, <2>1
<1>. QED
  BY <1>8, <1>9

(* What a scanner read as the end of its chunk is the end of the chunk     *)
(* whose descriptor it was; it is read when the chunk is claimed, and what *)
(* becomes of the descriptor afterwards does not matter.                   *)
HandInv ==
  ~cfg.exact => \A n \in Nodes :
    pc[n] = "gate" /\ hand[n].end # 0 => IsEnd(snap[n], hand[n].end)

(* Only reading a descriptor begins the wait, and nothing else touches     *)
(* what a waiting scanner has read.                                        *)
LEMMA GateKeeps ==
  ASSUME IInv, Types, [Next]_vars, NEW k \in Nodes, ~Snapshot(k), pc'[k] = "gate"
  PROVE  /\ pc[k] = "gate" /\ cfg' = cfg
         /\ held'[k] = held[k] /\ snap'[k] = snap[k] /\ hand'[k] = hand[k]
<1>0. /\ pc \in [Nodes -> {"top", "claim", "wait", "gate", "handoff", "done"}]
      /\ held \in [Nodes -> 0..NData] /\ snap \in [Nodes -> 0..NData]
      /\ hand \in [Nodes -> [end : 0..N, cum : Nat, last : BOOLEAN]]
  BY DEF IInv, ClaimInv, Types
<1>1. CASE Ingest \/ UNCHANGED vars
  BY <1>1 DEF Ingest, ChooseTarget, Publish, PublishEof, IngestStops, notIngest, vars, scanVars
<1>2. ASSUME NEW n \in Nodes, Index(n) PROVE UNCHANGED <<pc, held, snap, hand, cfg>>
  BY <1>2 DEF Index, scanVars
<1>3. ASSUME NEW n \in Nodes, Scanner(n), ~Snapshot(n)
      PROVE  /\ \E p \in {"top", "claim", "wait", "handoff", "done"} : pc' = [pc EXCEPT ![n] = p]
             /\ UNCHANGED <<held, snap, cfg>>
             /\ hand' = hand \/ \E x : hand' = [hand EXCEPT ![n] = x]
  <2>1. CASE Own(n) \/ Steal(n) \/ Finish(n) \/ Claim(n) \/ Overran(n)
    BY <2>1 DEF Own, Steal, Finish, Claim, Overran, ClaimFrom, notClaim
  <2>2. CASE SkipPast(n) \/ Scan(n) \/ ScanExact(n) \/ ScanExactEof(n) \/ SkipExact(n)
    BY <2>2 DEF SkipPast, Scan, ScanExact, ScanExactEof, SkipExact, ToHandoff, notChunk
  <2>3. CASE Handoff(n)
    BY <2>3 DEF Handoff, notChunk
  <2>. QED
    BY <1>3, <2>1, <2>2, <2>3 DEF Scanner
<1>4. ASSUME NEW n \in Nodes, Snapshot(n)
      PROVE  /\ \E m, x, e : /\ held' = [held EXCEPT ![n] = m] /\ snap' = [snap EXCEPT ![n] = x]
                             /\ hand' = [hand EXCEPT ![n].end = e]
             /\ pc' = [pc EXCEPT ![n] = "gate"] /\ cfg' = cfg
  BY <1>4 DEF Snapshot, notClaim
<1>5. CASE \E n \in Nodes : Scanner(n)
  <2>1. PICK n \in Nodes : Scanner(n)
    BY <1>5
  <2>2. CASE Snapshot(n)
    <3>1. k # n
      BY <2>2
    <3>2. PICK m, x, e : /\ held' = [held EXCEPT ![n] = m] /\ snap' = [snap EXCEPT ![n] = x]
                         /\ hand' = [hand EXCEPT ![n].end = e]
      BY <1>4, <2>2
    <3>3. pc' = [pc EXCEPT ![n] = "gate"] /\ cfg' = cfg
      BY <1>4, <2>2
    <3>4. pc[k] = "gate"
      BY <1>0, <3>1, <3>3
    <3>. QED
      BY <1>0, <3>1, <3>2, <3>3, <3>4
  <2>3. CASE ~Snapshot(n)
    <3>1. k # n
      BY <1>0, <1>3, <2>1, <2>3
    <3>2. hand'[k] = hand[k]
      BY <1>0, <1>3, <2>1, <2>3, <3>1
    <3>3. pc[k] = "gate"
      BY <1>0, <1>3, <2>1, <2>3, <3>1
    <3>. QED
      BY <1>3, <2>1, <2>3, <3>2, <3>3
  <2>. QED
    BY <2>2, <2>3
<1>. QED
  BY <1>1, <1>2, <1>5 DEF Next

(* The descriptor that a scanner reads.                                    *)
LEMMA SnapshotReads ==
  ASSUME IInv, FreshInv, NEW n \in Nodes, Snapshot(n)
  PROVE  \E m \in 0..NData : \E s \in Slots :
           /\ m = queue[from[n]][idx[n] + 1] /\ s = Slot(m) /\ idx[n] + 1 \in 1..ready[from[n]]
           /\ from[n] \in Nodes /\ cfg' = cfg /\ meta[s] \in Desc
           /\ held'[n] = m /\ snap'[n] = meta[s].major /\ hand'[n].end = Cleared(meta[s].end)
<1>1. /\ from[n] \in Nodes /\ idx[n] \in Nat
      /\ ready[from[n]] \in Nat /\ Len(queue[from[n]]) \in Nat
      /\ ready[from[n]] <= Len(queue[from[n]])
  BY DEF IInv, QueueInv, ClaimInv
<1>2. idx[n] + 1 \in 1..Len(queue[from[n]]) /\ idx[n] + 1 \in 1..ready[from[n]]
  BY <1>1 DEF Snapshot
<1>3. PICK m \in 0..NData : m = queue[from[n]][idx[n] + 1]
  BY <1>1, <1>2, QueuedChunk DEF FreshInv
<1>4. PICK s \in Slots : s = Slot(m)
  BY ChunksCover, SlotIn
<1>5. /\ held' = [held EXCEPT ![n] = m] /\ snap' = [snap EXCEPT ![n] = meta[s].major]
      /\ hand' = [hand EXCEPT ![n].end = Cleared(meta[s].end)] /\ cfg' = cfg
  BY <1>3, <1>4 DEF Snapshot, notClaim
<1>6. /\ held \in [Nodes -> 0..NData] /\ snap \in [Nodes -> 0..NData] /\ meta \in [Slots -> Desc]
      /\ hand \in [Nodes -> [end : 0..N, cum : Nat, last : BOOLEAN]]
  BY DEF FreshInv, Types
<1>7. held'[n] = m /\ snap'[n] = meta[s].major /\ hand'[n].end = Cleared(meta[s].end)
  BY <1>5, <1>6
<1>. QED
  BY <1>1, <1>2, <1>3, <1>4, <1>5, <1>6, <1>7

LEMMA HandKeeps ==
  ASSUME IInv, FreshInv, EndsInv, HandInv, [Next]_vars
  PROVE  HandInv'
<1>1. ASSUME NEW k \in Nodes, Snapshot(k), ~cfg.exact, hand'[k].end # 0
      PROVE  IsEnd(snap'[k], hand'[k].end)
  <2>1. PICK s \in Slots : snap'[k] = meta[s].major /\ hand'[k].end = Cleared(meta[s].end)
    BY <1>1, SnapshotReads
  <2>2. meta[s].end # Unset /\ hand'[k].end = meta[s].end
    BY <1>1, <2>1 DEF Cleared
  <2>. QED
    BY <1>1, <2>1, <2>2 DEF EndsInv
<1>2. ASSUME NEW k \in Nodes, ~Snapshot(k), ~cfg'.exact, pc'[k] = "gate", hand'[k].end # 0
      PROVE  IsEnd(snap'[k], hand'[k].end)
  BY <1>2, GateKeeps DEF HandInv, FreshInv
<1>3. \A k \in Nodes : Snapshot(k) => cfg' = cfg
  BY SnapshotReads
<1>. QED
  BY <1>1, <1>2, <1>3 DEF HandInv, IsEnd

(* Without -L a scanner puts out bytes of its chunk: it starts at the end  *)
(* of the chunk before, and -n only ends it early.                         *)
LEMMA ScanOut ==
  ASSUME IInv, FreshInv, EndsInv, HandInv, OutInv, NEW n \in Nodes,
         SkipPast(n) \/ Scan(n) \/ ScanExact(n) \/ ScanExactEof(n) \/ SkipExact(n)
  PROVE  OutInv'
<1>0. pc[n] = "gate" /\ UNCHANGED cfg /\ N \in Nat /\ NData \in Nat
  BY ChunksCover, Sizes
     DEF SkipPast, Scan, ScanExact, ScanExactEof, SkipExact, ToHandoff, Waiting, notChunk
<1>1. CASE SkipPast(n) \/ SkipExact(n)
  <2>1. Flush(n, 0, 0)
    BY <1>1 DEF SkipPast, SkipExact
  <2>2. \A b \in 0..N-1 : ~(0 <= b /\ b < 0)
    BY <1>0
  <2>. QED
    BY <1>0, <2>1, <2>2, FlushOut
<1>2. CASE ScanExact(n) \/ ScanExactEof(n)
  <2>1. cfg.exact /\ \E s, e : Flush(n, s, e)
    BY <1>2 DEF ScanExact, ScanExactEof
  <2>. QED
    BY <1>0, <2>1, FlushOut
<1>3. CASE Scan(n)
  <2> DEFINE s == Prev(n).end
             e == hand[n].end
             take == LeastOf(LineCount(s, e), Budget(n))
  <2>1. s \in 0..N /\ e \in 0..N /\ held[n] \in 0..NData
    BY <1>0, <1>3, PrevTypes DEF Scan, Unset
  <2>2. PICK f : Flush(n, s, f) /\ (f = s \/ f <= e) /\ f \in Nat
    <3>1. CASE cfg.limit = 0
      BY <1>0, <1>3, <2>1, <3>1 DEF Scan
    <3>2. CASE cfg.limit # 0
      <4>1. Flush(n, s, EndOfLines(s, e, take)) /\ Prev(n).cum # Unset
        BY <1>3, <3>2 DEF Scan
      <4>2. cfg.limit \in Nat /\ Prev(n).cum \in Nat
        BY <4>1, PrevTypes, Sizes DEF FreshInv, Types
      <4>3. LineCount(s, e) \in Nat /\ Budget(n) \in Nat
        BY <4>2, LineCountNat DEF Budget
      <4>4. take \in Nat /\ take <= LineCount(s, e)
        BY <4>3 DEF LeastOf
      <4>. HIDE DEF s, e, take
      <4>5. /\ EndOfLines(s, e, take) \in Nat
            /\ EndOfLines(s, e, take) = s \/ EndOfLines(s, e, take) <= e
        BY <2>1, <4>4, LinesEnd
      <4>. QED
        BY <4>1, <4>5
    <3>. QED
      BY <3>1, <3>2
  <2>3. ASSUME ~Recycled(n), NEW b \in 0..N-1, s <= b, b < f
        PROVE  Covers(held[n], b)
    <3>0. ~cfg.exact /\ meta \in [Slots -> Desc]
      BY <1>3 DEF Scan, FreshInv, Types
    <3>1. b < e
      BY <1>0, <2>1, <2>2, <2>3
    <3>2. e # 0 /\ snap[n] = held[n]
      BY <1>0, <2>1, <2>3, <3>1 DEF Recycled
    <3>3. IsEnd(held[n], e)
      BY <1>0, <3>0, <3>2 DEF HandInv
    <3>4. StartsAt(held[n], s)
      <4>1. CASE held[n] = 0
        BY <4>1 DEF StartsAt, Prev
      <4>2. CASE held[n] # 0
        <5>1. Slot(held[n] - 1) \in Slots
          BY <4>2, PrevTypes
        <5>2. meta[Slot(held[n] - 1)].major = held[n] - 1
          BY <2>1, <2>3, <4>2, <1>0 DEF Recycled
        <5>3. meta[Slot(held[n] - 1)].end # Unset =>
                IsEnd(meta[Slot(held[n] - 1)].major, meta[Slot(held[n] - 1)].end)
          BY <3>0, <5>1 DEF EndsInv
        <5>4. s = meta[Slot(held[n] - 1)].end /\ s # Unset
          BY <1>3, <4>2 DEF Prev, Scan
        <5>5. IsEnd(held[n] - 1, s)
          BY ONLY <5>2, <5>3, <5>4
        <5>. QED
          BY <4>2, <5>5 DEF StartsAt
      <4>. QED
        BY <4>1, <4>2
    <3>. HIDE DEF s, e
    <3>. QED
      BY <2>1, <2>3, <3>1, <3>3, <3>4 DEF Covers
  <2>. HIDE DEF s
  <2>. QED
    BY <1>0, <2>2, <2>3, FlushOut
<1>. QED
  BY <1>1, <1>2, <1>3

-------------------------------------------------------------------------------
(* What goes out with -L: one start of an open batch is about. *)

(* A running count that the limit leaves room after.                       *)
Under(c) == c # Unset /\ (cfg.limit = 0 \/ c < cfg.limit)

(* A start that waits in a descriptor for the chunk after it, or in the    *)
(* hands of a scanner.                                                     *)
SlotToken(s) == Under(meta[s].cum) /\ meta[s].major < NData /\ closed[meta[s].major + 1] = 0
HandToken(n) == pc[n] = "handoff" /\ Under(hand[n].cum)

(* All that is out is before e.                                            *)
Below(e) == \A b \in 0..N-1 : copies[b] # 0 => b < e

(* There is one start at most, and what is out is before it.               *)
TokenInv ==
  ~stale /\ cfg.exact =>
    /\ \A b \in 0..N-1 : copies[b] <= 1
    /\ closed[0] = 0 =>
         Below(0) /\ (\A s \in Slots : ~SlotToken(s)) /\ \A n \in Nodes : ~HandToken(n)
    /\ \A s \in Slots : SlotToken(s) =>
         /\ Below(meta[s].end) /\ \A n \in Nodes : ~HandToken(n)
         /\ \A t \in Slots : SlotToken(t) => t = s
    /\ \A n \in Nodes : HandToken(n) =>
         Below(hand[n].end) /\ \A k \in Nodes : HandToken(k) => k = n

LEMMA TokenInit == Init => OutInv /\ TokenInv
<1>. SUFFICES ASSUME Init PROVE OutInv /\ TokenInv
  OBVIOUS
<1>1. /\ \A b \in 0..N-1 : copies[b] = 0
      /\ \A s \in Slots : ~Under(meta[s].cum)
      /\ \A n \in Nodes : pc[n] # "handoff"
  BY DEF Init, Slots, Under
<1>2. OutInv
  BY <1>1 DEF OutInv
<1>3. \A s \in Slots : ~SlotToken(s)
  BY <1>1 DEF SlotToken
<1>4. \A n \in Nodes : ~HandToken(n)
  BY <1>1 DEF HandToken
<1>. QED
  BY <1>1, <1>2, <1>3, <1>4 DEF TokenInv, Below

(* A step that makes no start and puts nothing out keeps it.               *)
LEMMA TokenFrame ==
  ASSUME TokenInv, UNCHANGED <<cfg, copies>>, stale => stale',
         ~stale' /\ closed'[0] = 0 => closed[0] = 0,
         ~stale' /\ cfg.exact => \A s \in Slots : SlotToken(s)' => SlotToken(s) /\ meta'[s] = meta[s],
         ~stale' /\ cfg.exact => \A n \in Nodes : HandToken(n)' => HandToken(n) /\ hand'[n] = hand[n]
  PROVE  TokenInv'
<1>. SUFFICES ASSUME ~stale', cfg.exact'
     PROVE  TokenInv!2'
  BY DEF TokenInv
<1>1. ~stale /\ cfg.exact
  OBVIOUS
<1>2. \A e : Below(e) => Below(e)'
  BY DEF Below
<1>. QED
  BY <1>1, <1>2 DEF TokenInv

(* Passing over a chunk that is past the limit makes no start.             *)
LEMMA SkipToken ==
  ASSUME IInv, FreshInv, TokenInv, NEW n \in Nodes, pc[n] = "gate", Flush(n, 0, 0),
         UNCHANGED <<cfg, meta>>, cfg.limit # 0, NEW e, ToHandoff(n, e, cfg.limit, FALSE)
  PROVE  TokenInv'
<1>0. /\ closed \in [0..NData -> Nat] /\ copies \in [0..N-1 -> Nat] /\ snap[n] \in 0..NData
      /\ meta \in [Slots -> Desc] /\ cfg.limit \in Nat /\ NData \in Nat /\ N \in Nat
  BY PrevTypes, ChunksCover, Sizes DEF IInv, ClosedInv, FreshInv, Types
<1>1. UNCHANGED copies
  <2>1. \A b \in 0..N-1 : ~(0 <= b /\ b < 0) /\ copies[b] + 0 = copies[b]
    BY <1>0
  <2>2. copies' = [b \in DOMAIN copies |-> copies[b] + (IF 0 <= b /\ b < 0 THEN 1 ELSE 0)]
    BY DEF Flush
  <2>3. copies' = [b \in 0..N-1 |-> copies[b]]
    BY <1>0, <2>1, <2>2
  <2>. QED
    BY <1>0, <2>3
<1>2. \A m \in 0..NData : closed'[m] = 0 => closed[m] = 0
  BY <1>0 DEF Flush
<1>3. \A s \in Slots : SlotToken(s)' => SlotToken(s) /\ meta'[s] = meta[s]
  <2>. SUFFICES ASSUME NEW s \in Slots, SlotToken(s)' PROVE SlotToken(s)
    OBVIOUS
  <2>1. meta[s].major + 1 \in 0..NData
    BY <1>0 DEF SlotToken, Desc
  <2>. QED
    BY <1>2, <2>1 DEF SlotToken, Under
<1>4. \A k \in Nodes : HandToken(k)' => HandToken(k) /\ hand'[k] = hand[k]
  <2>1. ~HandToken(n)'
    <3>1. hand \in [Nodes -> [end : 0..N, cum : Nat, last : BOOLEAN]]
      BY DEF FreshInv, Types
    <3>2. hand'[n].cum = cfg.limit
      BY <3>1 DEF ToHandoff
    <3>3. ~(cfg.limit < cfg.limit) /\ cfg'.limit = cfg.limit
      BY <1>0
    <3>. QED
      BY <3>2, <3>3 DEF HandToken, Under
  <2>2. \A k \in Nodes : k # n => hand'[k] = hand[k] /\ (pc'[k] = "handoff" => pc[k] = "handoff")
    BY DEF ToHandoff, FreshInv, Types, IInv, ClaimInv
  <2>. QED
    BY <2>1, <2>2 DEF HandToken, Under
<1>5. stale => stale'
  BY DEF Flush
<1>6. closed'[0] = 0 => closed[0] = 0
  BY <1>0, <1>2
<1>. QED
  BY <1>1, <1>3, <1>4, <1>5, <1>6, TokenFrame

(* A scanner takes the start that waits for its chunk, and has the next    *)
(* one in its hands: what it puts out is between the two.                  *)
LEMMA FlushToken ==
  ASSUME IInv, FreshInv, TokenInv, cfg.exact, UNCHANGED <<cfg, meta>>,
         NEW n \in Nodes, pc[n] = "gate", Under(Prev(n).cum),
         NEW s \in 0..N, s = Prev(n).end, NEW e \in 0..N, s <= e, Flush(n, s, e),
         NEW c, NEW l, ToHandoff(n, e, c, l)
  PROVE  TokenInv'
<1>0. /\ closed \in [0..NData -> Nat] /\ copies \in [0..N-1 -> Nat] /\ held[n] \in 0..NData
      /\ meta \in [Slots -> Desc] /\ NData \in Nat /\ N \in Nat
      /\ hand \in [Nodes -> [end : 0..N, cum : Nat, last : BOOLEAN]]
  BY PrevTypes, ChunksCover, Sizes DEF IInv, ClosedInv, FreshInv, Types
<1>. SUFFICES ASSUME ~stale', cfg.exact'
     PROVE  TokenInv!2'
  BY DEF TokenInv
<1>1. ~stale /\ ~Recycled(n) /\ snap[n] = held[n]
  BY DEF Flush, Recycled
<1>2. PICK h \in 0..NData : h = held[n]
  BY <1>0
<1>3. closed[h] = 0
  BY <1>1, <1>2, NotYetClosed
<1>4. closed'[h] # 0 /\ \A m \in 0..NData : closed'[m] = 0 => closed[m] = 0
  BY <1>0, <1>1, <1>2, <1>3 DEF Flush
<1>5. /\ Below(s) /\ \A k \in Nodes : ~HandToken(k)
      /\ h = 0 => \A t \in Slots : ~SlotToken(t)
      /\ h # 0 => /\ Slot(h - 1) \in Slots /\ SlotToken(Slot(h - 1))
                  /\ meta[Slot(h - 1)].major = h - 1
                  /\ \A t \in Slots : SlotToken(t) => t = Slot(h - 1)
  <2>1. CASE h = 0
    <3>1. s = 0
      BY <1>2, <2>1 DEF Prev
    <3>. QED
      BY <1>1, <1>3, <2>1, <3>1 DEF TokenInv
  <2>2. CASE h # 0
    <3>1. Slot(h - 1) \in Slots /\ Prev(n) = meta[Slot(h - 1)]
      BY <1>2, <2>2, PrevTypes DEF Prev
    <3>2. meta[Slot(h - 1)].major = h - 1
      BY <1>0, <1>1, <1>2, <2>2 DEF Recycled
    <3>3. h - 1 < NData /\ h - 1 + 1 = h
      BY <1>0, <1>2
    <3>4. SlotToken(Slot(h - 1))
      BY <1>3, <3>1, <3>2, <3>3 DEF SlotToken
    <3>. QED
      BY <1>1, <2>2, <3>1, <3>2, <3>4 DEF TokenInv
  <2>. QED
    BY <2>1, <2>2
<1>6. \A t \in Slots : ~SlotToken(t)'
  <2>. SUFFICES ASSUME NEW t \in Slots, SlotToken(t)' PROVE FALSE
    OBVIOUS
  <2>0. meta[t].major \in 0..NData
    BY <1>0 DEF Desc
  <2>1. meta[t].major + 1 \in 0..NData /\ closed'[meta[t].major + 1] = 0
    <3>1. meta[t].major < NData /\ closed'[meta[t].major + 1] = 0
      BY DEF SlotToken
    <3>2. NData \in Nat
      BY <1>0
    <3>. QED
      BY ONLY <2>0, <3>1, <3>2
  <2>2. SlotToken(t)
    BY <1>4, <2>1 DEF SlotToken, Under
  <2>3. meta[t].major = h - 1 /\ h # 0
    BY <1>5, <2>2
  <2>4. meta[t].major + 1 = h
    BY <1>0, <2>3
  <2>. QED
    BY <1>4, <2>1, <2>4
<1>7. \A k \in Nodes : HandToken(k)' => k = n
  <2>1. \A k \in Nodes : k # n => hand'[k] = hand[k] /\ (pc'[k] = "handoff" => pc[k] = "handoff")
    BY <1>0 DEF ToHandoff, IInv, ClaimInv
  <2>. QED
    BY <1>5, <2>1 DEF HandToken, Under
<1>8. hand'[n].end = e
  BY <1>0 DEF ToHandoff
<1>9. \A b \in 0..N-1 : copies'[b] <= 1 /\ (copies'[b] # 0 => b < e)
  <2>. SUFFICES ASSUME NEW b \in 0..N-1 PROVE copies'[b] <= 1 /\ (copies'[b] # 0 => b < e)
    OBVIOUS
  <2>1. copies[b] \in Nat /\ copies[b] <= 1 /\ (copies[b] # 0 => b < s)
    BY <1>0, <1>1, <1>5 DEF TokenInv, Below
  <2>2. copies'[b] = copies[b] + (IF s <= b /\ b < e THEN 1 ELSE 0)
    BY <1>0 DEF Flush
  <2>. QED
    BY <1>0, <2>1, <2>2
<1>10. closed'[0] # 0
  <2>1. CASE h = 0
    BY <1>4, <2>1
  <2>2. CASE h # 0
    <3>1. closed[0] # 0
      BY <1>1, <1>5, <2>2 DEF TokenInv
    <3>2. 0 \in 0..NData
      BY <1>0
    <3>. QED
      BY <1>4, <3>1, <3>2
  <2>. QED
    BY <2>1, <2>2
<1>11. \A k \in Nodes : HandToken(k)' => Below(hand[k].end)'
  BY <1>7, <1>8, <1>9 DEF Below
<1>. QED
  BY <1>6, <1>7, <1>9, <1>10, <1>11

LEMMA ScanToken ==
  ASSUME IInv, FreshInv, TokenInv, NEW n \in Nodes,
         SkipPast(n) \/ Scan(n) \/ ScanExact(n) \/ ScanExactEof(n) \/ SkipExact(n)
  PROVE  TokenInv'
<1>0. /\ pc[n] = "gate" /\ UNCHANGED <<cfg, meta>> /\ N \in Nat /\ cfg \in Modes
      /\ cfg.limit \in Nat
  BY Sizes
     DEF SkipPast, Scan, ScanExact, ScanExactEof, SkipExact, ToHandoff, Waiting, notChunk,
         FreshInv, Types
<1>1. CASE SkipPast(n) \/ SkipExact(n)
  <2>1. /\ Flush(n, 0, 0) /\ cfg.limit # 0
        /\ ToHandoff(n, RawStart(snap[n]), cfg.limit, FALSE)
    <3>1. Flush(n, 0, 0) /\ ToHandoff(n, RawStart(snap[n]), cfg.limit, FALSE)
      BY <1>1 DEF SkipPast, SkipExact
    <3>2. cfg.limit > 0
      BY <1>1 DEF SkipPast, SkipExact, PastCutoff, OverLimit
    <3>3. cfg.limit # 0
      BY ONLY <1>0, <3>2
    <3>. QED
      BY <3>1, <3>3
  <2>. QED
    BY <1>0, <2>1, SkipToken
<1>2. CASE Scan(n)
  BY <1>0, <1>2 DEF Scan, TokenInv
<1>3. ASSUME ScanExact(n) \/ ScanExactEof(n)
      PROVE  Under(Prev(n).cum) /\ Prev(n).end \in 0..N /\ cfg.exact
  <2>1. HandedOn(n) /\ ~OverLimit(n) /\ cfg.exact
    BY <1>3 DEF ScanExact, ScanExactEof
  <2>2. Prev(n).cum \in Nat /\ Prev(n).end \in 0..N
    BY <2>1, PrevTypes DEF HandedOn
  <2>. QED
    BY <1>0, <2>1, <2>2 DEF HandedOn, OverLimit, Under
<1>4. CASE ScanExact(n)
  <2> DEFINE s == Prev(n).end
             bounds == {s} \cup {d + 1 : d \in Ends(n)}
             met == \E d \in Ends(n) : Nth(n, d) = cfg.limit
             count == Cardinality(DelimsIn(RawStart(snap[n]), RawEnd(snap[n])))
             c == IF met THEN cfg.limit ELSE Prev(n).cum + count
  <2>1. Flush(n, s, Max(bounds)) /\ ToHandoff(n, Max(bounds), c, met)
    BY <1>4 DEF ScanExact
  <2>2. s \in 0..N
    BY <1>3, <1>4
  <2>3. Max(bounds) \in 0..N /\ s <= Max(bounds)
    BY <2>2, BoundsOf
  <2>4. PICK e \in 0..N : e = Max(bounds)
    BY <2>3
  <2>. HIDE DEF bounds, c, met
  <2>. QED
    BY <1>0, <1>3, <1>4, <2>1, <2>2, <2>3, <2>4, FlushToken
<1>5. CASE ScanExactEof(n)
  <2>1. Flush(n, Prev(n).end, N) /\ ToHandoff(n, N, Prev(n).cum, FALSE)
    BY <1>5 DEF ScanExactEof
  <2>2. N \in 0..N /\ Prev(n).end <= N
    BY <1>0, <1>3, <1>5
  <2>. QED
    BY <1>0, <1>3, <1>5, <2>1, <2>2, FlushToken
<1>. QED
  BY <1>1, <1>2, <1>4, <1>5

(* The start goes from the hands of the scanner to the descriptor.         *)
LEMMA HandoffToken ==
  ASSUME IInv, FreshInv, TokenInv, NEW n \in Nodes, Handoff(n)
  PROVE  TokenInv'
<1>0. /\ UNCHANGED <<cfg, hand, copies, closed, stale>> /\ pc[n] = "handoff"
      /\ meta \in [Slots -> Desc] /\ Slot(held[n]) \in Slots
      /\ pc' = [pc EXCEPT ![n] = IF hand[n].last THEN "done" ELSE "top"]
      /\ pc \in [Nodes -> {"top", "claim", "wait", "gate", "handoff", "done"}]
  BY PrevTypes DEF Handoff, history, notChunk, IInv, ClaimInv, FreshInv, Types
<1>. SUFFICES ASSUME ~stale, cfg.exact
     PROVE  TokenInv!2'
  BY <1>0 DEF TokenInv
<1>1. PICK h \in Slots : h = Slot(held[n])
  BY <1>0
<1>2. /\ meta'[h].cum = hand[n].cum /\ meta'[h].end = hand[n].end
      /\ \A s \in Slots : s # h => meta'[s] = meta[s]
  BY <1>0, <1>1 DEF Handoff, Desc
<1>3. \A k \in Nodes : HandToken(k)' => HandToken(k) /\ k # n
  BY <1>0 DEF HandToken, Under
<1>4. /\ \A s \in Slots : s # h => (SlotToken(s)' => SlotToken(s))
      /\ SlotToken(h)' => HandToken(n)
  BY <1>0, <1>2 DEF SlotToken, HandToken, Under
<1>5. \A e : Below(e) => Below(e)'
  BY <1>0 DEF Below
<1>6. /\ \A b \in 0..N-1 : copies[b] <= 1
      /\ closed[0] = 0 =>
           Below(0) /\ (\A s \in Slots : ~SlotToken(s)) /\ \A k \in Nodes : ~HandToken(k)
      /\ \A s \in Slots : SlotToken(s) =>
           /\ Below(meta[s].end) /\ \A k \in Nodes : ~HandToken(k)
           /\ \A t \in Slots : SlotToken(t) => t = s
      /\ \A j \in Nodes : HandToken(j) =>
           Below(hand[j].end) /\ \A k \in Nodes : HandToken(k) => k = j
  BY DEF TokenInv
<1>7. \A b \in 0..N-1 : copies'[b] <= 1
  BY <1>0, <1>6
<1>8. closed'[0] = 0 =>
        Below(0)' /\ (\A s \in Slots : ~SlotToken(s)') /\ \A k \in Nodes : ~HandToken(k)'
  BY <1>0, <1>3, <1>4, <1>5, <1>6
<1>9. ASSUME NEW s \in Slots, SlotToken(s)'
      PROVE  /\ Below(meta[s].end)' /\ \A k \in Nodes : ~HandToken(k)'
             /\ \A t \in Slots : SlotToken(t)' => t = s
  <2>1. CASE s = h
    <3>1. HandToken(n) /\ Below(hand[n].end) /\ \A k \in Nodes : HandToken(k) => k = n
      BY <1>4, <1>6, <1>9, <2>1
    <3>2. Below(meta[s].end)'
      BY <1>2, <1>5, <2>1, <3>1
    <3>. QED
      BY <1>3, <1>4, <1>6, <2>1, <3>1, <3>2
  <2>2. CASE s # h
    <3>1. SlotToken(s) /\ meta'[s] = meta[s]
      BY <1>2, <1>4, <1>9, <2>2
    <3>2. Below(meta[s].end)'
      BY <1>5, <1>6, <3>1
    <3>. QED
      BY <1>3, <1>4, <1>6, <2>2, <3>1, <3>2
  <2>. QED
    BY <2>1, <2>2
<1>10. ASSUME NEW j \in Nodes, HandToken(j)'
       PROVE  Below(hand[j].end)' /\ \A k \in Nodes : HandToken(k)' => k = j
  BY <1>0, <1>3, <1>5, <1>6, <1>10
<1>. QED
  BY <1>7, <1>8, <1>9, <1>10

LEMMA QuietOut ==
  ASSUME IInv, FreshInv, EndsInv, OutInv, NEW n \in Nodes,
         \/ Ingest \/ Index(n) \/ Handoff(n)
         \/ Own(n) \/ Steal(n) \/ Finish(n) \/ Claim(n) \/ Overran(n) \/ Snapshot(n)
  PROVE  OutInv'
<1>1. UNCHANGED <<cfg, copies, closed, stale>>
  BY DEF Ingest, ChooseTarget, Publish, PublishEof, IngestStops, Index, Handoff, Own, Steal,
         Finish, Claim, Overran, Snapshot, ClaimFrom, notIngest, notClaim, notChunk, history
<1>. QED
  BY <1>1, OutFrame

(* Choosing, claiming and reading a descriptor touch no chunk that is      *)
(* about to be handed on.                                                  *)
LEMMA ChoiceHands ==
  ASSUME ClaimInv, Types, NEW n \in Nodes,
         Own(n) \/ Steal(n) \/ Finish(n) \/ Claim(n) \/ Overran(n) \/ Snapshot(n)
  PROVE  \A k \in Nodes : pc'[k] = "handoff" =>
           pc[k] = "handoff" /\ held'[k] = held[k] /\ hand'[k] = hand[k]
<1>1. /\ \E p \in {"top", "claim", "wait", "gate", "done"} : pc' = [pc EXCEPT ![n] = p]
      /\ UNCHANGED held \/ \E m : held' = [held EXCEPT ![n] = m]
      /\ UNCHANGED hand \/ \E e : hand' = [hand EXCEPT ![n].end = e]
  BY DEF Own, Steal, Finish, Claim, Overran, Snapshot, ClaimFrom
<1>2. /\ pc \in [Nodes -> {"top", "claim", "wait", "gate", "handoff", "done"}]
      /\ held \in [Nodes -> 0..NData]
      /\ hand \in [Nodes -> [end : 0..N, cum : Nat, last : BOOLEAN]]
  BY DEF ClaimInv, Types
<1>3. \A k \in Nodes : pc'[k] = "handoff" => pc[k] = "handoff" /\ k # n
  BY <1>1, <1>2
<1>4. \A k \in Nodes : k # n => held'[k] = held[k] /\ hand'[k] = hand[k]
  BY <1>1, <1>2
<1>. QED
  BY <1>3, <1>4

LEMMA QuietToken ==
  ASSUME IInv, FreshInv, TokenInv, NEW n \in Nodes,
         \/ Ingest \/ Index(n)
         \/ Own(n) \/ Steal(n) \/ Finish(n) \/ Claim(n) \/ Overran(n) \/ Snapshot(n)
  PROVE  TokenInv'
<1>1. UNCHANGED <<cfg, copies, closed, stale>>
  BY DEF Ingest, ChooseTarget, Publish, PublishEof, IngestStops, Index, Own, Steal,
         Finish, Claim, Overran, Snapshot, ClaimFrom, notIngest, notClaim, scanVars, history
<1>2. /\ meta \in [Slots -> Desc]
      /\ pc \in [Nodes -> {"top", "claim", "wait", "gate", "handoff", "done"}]
  BY DEF FreshInv, Types, IInv, ClaimInv
<1>3. \A k \in Nodes : pc'[k] = "handoff" => pc[k] = "handoff" /\ hand'[k] = hand[k]
  <2>1. CASE Ingest \/ Index(n)
    BY <2>1 DEF Ingest, ChooseTarget, Publish, PublishEof, IngestStops, Index, notIngest, scanVars
  <2>2. CASE Own(n) \/ Steal(n) \/ Finish(n) \/ Claim(n) \/ Overran(n) \/ Snapshot(n)
    BY <2>2, ChoiceHands DEF IInv, FreshInv
  <2>. QED
    BY <2>1, <2>2
<1>4. cfg.exact => \A s \in Slots : meta'[s] = meta[s] \/ meta'[s].cum = Unset
  <2>1. CASE Publish \/ PublishEof
    <3>1. \E m, q : meta' = [meta EXCEPT ![Slot(m)] = [major |-> q, end |-> Unset, cum |-> Unset]]
      BY <2>1 DEF Publish, PublishEof, Enqueue
    <3>. QED
      BY <1>2, <3>1
  <2>2. CASE ~(Publish \/ PublishEof)
    <3>1. cfg.exact => UNCHANGED meta
      BY <2>2 DEF Ingest, ChooseTarget, IngestStops, Index, Own, Steal,
                  Finish, Claim, Overran, Snapshot, ClaimFrom, notClaim
    <3>. QED
      BY <3>1
  <2>. QED
    BY <2>1, <2>2
<1>5. cfg.exact => \A s \in Slots : SlotToken(s)' => SlotToken(s) /\ meta'[s] = meta[s]
  BY <1>1, <1>4 DEF SlotToken, Under
<1>6. \A k \in Nodes : HandToken(k)' => HandToken(k) /\ hand'[k] = hand[k]
  BY <1>1, <1>3 DEF HandToken, Under
<1>. QED
  BY <1>1, <1>5, <1>6, TokenFrame

-------------------------------------------------------------------------------
(* The inductive invariant, and the theorems. *)

ChunkInv == IInv /\ FreshInv /\ EndsInv /\ HandInv /\ OutInv /\ TokenInv

LEMMA ChunkStep == ChunkInv /\ [Next]_vars => ChunkInv'
<1>. SUFFICES ASSUME ChunkInv, [Next]_vars PROVE ChunkInv'
  OBVIOUS
<1>0. IInv /\ FreshInv /\ EndsInv /\ HandInv /\ OutInv /\ TokenInv /\ IInv' /\ HandInv'
  BY StepKeeps, HandKeeps DEF ChunkInv
<1>1. CASE UNCHANGED vars
  <2>1. FreshInv' /\ EndsInv'
    BY <1>0, <1>1 DEF vars, ingestVars, queueVars, scanVars, history, FreshInv, Types, OrderInv,
                      LeadInv, RingInv, EndsInv
  <2>2. OutInv' /\ TokenInv'
    BY <1>0, <1>1 DEF vars, scanVars, history, OutInv, TokenInv, SlotToken, HandToken, Under, Below
  <2>. QED
    BY <1>0, <2>1, <2>2 DEF ChunkInv
<1>2. CASE Ingest
  <2>0. 0 \in Nodes
    BY Sizes DEF Nodes
  <2>1. OutInv' /\ TokenInv'
    BY <1>0, <1>2, <2>0, QuietOut, QuietToken
  <2>. QED
    BY <1>0, <1>2, <2>1, IngestFresh, IngestEnds DEF ChunkInv
<1>3. ASSUME NEW n \in Nodes, Index(n) PROVE ChunkInv'
  BY <1>0, <1>3, IndexFresh, QuietOut, QuietToken DEF ChunkInv
<1>4. ASSUME NEW n \in Nodes, Scanner(n) PROVE ChunkInv'
  <2>1. CASE Own(n) \/ Steal(n) \/ Finish(n) \/ Claim(n) \/ Overran(n) \/ Snapshot(n)
    BY <1>0, <2>1, ChoiceFresh, QuietOut, QuietToken DEF ChunkInv
  <2>2. CASE SkipPast(n) \/ Scan(n) \/ ScanExact(n) \/ ScanExactEof(n) \/ SkipExact(n)
    BY <1>0, <2>2, ScanFresh, ScanOut, ScanToken DEF ChunkInv
  <2>3. CASE Handoff(n)
    BY <1>0, <2>3, HandoffFresh, QuietOut, HandoffToken DEF ChunkInv
  <2>. QED
    BY <1>4, <2>1, <2>2, <2>3 DEF Scanner
<1>. QED
  BY <1>1, <1>2, <1>3, <1>4 DEF Next

LEMMA HandInit == Init => HandInv
  BY DEF Init, HandInv

LEMMA ChunkAlways == Spec => []ChunkInv
<1>1. Init => ChunkInv
  BY Starts, FreshInit, HandInit, TokenInit DEF ChunkInv
<1>. QED
  BY <1>1, ChunkStep, PTL DEF Spec

(* Every variable keeps its range, and a descriptor is that of a chunk     *)
(* which belongs in its slot.                                              *)
THEOREM TypeCorrect == Spec => []TypeOK
<1>1. ChunkInv => TypeOK
  <2>. SUFFICES ASSUME ChunkInv PROVE TypeOK
    OBVIOUS
  <2>1. IInv /\ Types /\ RingInv
    BY DEF ChunkInv, FreshInv
  <2>2. \A n \in Nodes : ready[n] \in 0..QueueHead(n)
    BY <2>1 DEF IInv, QueueInv, QueueHead
  <2>3. \A s \in DOMAIN meta : meta[s].major % MetaSize = s \/ meta[s].major = 0
    BY <2>1 DEF RingInv, Types
  <2>. QED
    BY <2>1, <2>2, <2>3 DEF TypeOK, Types, IInv, ClaimInv
<1>. QED
  BY <1>1, ChunkAlways, PTL

(* However the nodes are fed and however far their indexers lag, the ring  *)
(* of descriptors does not come round over a chunk its indexer has yet to  *)
(* read, nor over the one before it.                                       *)
THEOREM FreshCorrect == Spec => []UnindexedFresh
<1>1. ChunkInv => UnindexedFresh
  <2>. SUFFICES ASSUME ChunkInv, NEW v \in Nodes, NEW i \in ready[v]+1..QueueHead(v),
                       NEW m \in {queue[v][i] - 1, queue[v][i]} \cap 0..NData
       PROVE  meta[Slot(m)].major = m
    BY DEF UnindexedFresh
  <2>1. i \in ready[v]+1..Len(queue[v]) /\ m \in 0..NData /\ (m = queue[v][i] \/ m = queue[v][i] - 1)
    BY DEF QueueHead
  <2>. QED
    BY <2>1, InRing DEF ChunkInv
<1>. QED
  BY <1>1, ChunkAlways, PTL

(* No byte goes out twice, with and without -n and -L, whoever scans which *)
(* chunk: without -L the chunks meet at the ends the indexers find, with   *)
(* -L at the starts the scanners hand on, of which there is one at a time. *)
THEOREM NothingTwiceCorrect == Spec => []NothingTwice
<1>1. ChunkInv => NothingTwice
  BY DEF ChunkInv, NothingTwice, OutInv, TokenInv, FreshInv, Types
<1>. QED
  BY <1>1, ChunkAlways, PTL

-------------------------------------------------------------------------------
(* No chunk is left in a queue.                                            *)
(*                                                                         *)
(* A position that was claimed is held by a scanner until its chunk is     *)
(* closed, or lies beyond the end of a queue that grows no more.  A        *)
(* scanner leaves with its own queue claimed to the end, or because the    *)
(* limit is met.                                                           *)

HeldAt(v, i) == \E n \in Nodes : Holding(n) /\ from[n] = v /\ idx[n] = i - 1

(* Every chunk is dealt out, and no node is ahead by more than its queue   *)
(* may hold.                                                               *)
DealtInv ==
  /\ \A m \in 0..major-1 : \E v \in Nodes : \E i \in 1..Len(queue[v]) : queue[v][i] = m
  /\ \A v \in Nodes : Len(queue[v]) - tail[v] <= QueueLimit

WorkInv ==
  ~stale => \A v \in Nodes : \A i \in 1..tail[v] :
    \/ HeldAt(v, i)
    \/ i <= Len(queue[v]) /\ closed[queue[v][i]] # 0
    \/ eof /\ i > Len(queue[v])

EndInv ==
  /\ (eof /\ cutoff = 0) => major = NData + 1
  /\ cutoff # 0 => cfg.limit > 0
  /\ \A n \in Nodes : pc[n] = "handoff" /\ hand[n].last => cutoff # 0
  /\ \A n \in Nodes : pc[n] = "done" => (eof /\ tail[n] >= Len(queue[n])) \/ cutoff # 0

LeftInv == DealtInv /\ WorkInv /\ EndInv

LEMMA LeftInit == Init => LeftInv
<1>. SUFFICES ASSUME Init PROVE LeftInv
  OBVIOUS
<1>1. /\ QueueLimit \in Nat /\ major = 0 /\ cutoff = 0 /\ eof = FALSE
      /\ tail = [v \in Nodes |-> 0] /\ queue = [v \in Nodes |-> <<>>]
      /\ pc = [v \in Nodes |-> "top"]
  BY ChunksAssumption DEF Init
<1>2. DealtInv
  BY <1>1 DEF DealtInv
<1>3. WorkInv
  BY <1>1 DEF WorkInv
<1>4. EndInv
  BY <1>1 DEF EndInv
<1>. QED
  BY <1>2, <1>3, <1>4 DEF LeftInv

(* What keeps claims and queues keeps the work.                            *)
LEMMA WorkFrame ==
  ASSUME IInv, WorkInv, stale => stale', UNCHANGED tail, eof => eof' /\ queue' = queue,
         \A v \in Nodes : Len(queue[v]) <= Len(queue'[v]) /\ Len(queue'[v]) \in Nat,
         \A v \in Nodes : \A i \in 1..Len(queue[v]) : queue'[v][i] = queue[v][i],
         ~stale' => \A m \in 0..NData : closed[m] # 0 => closed'[m] # 0,
         Types, ~stale' => \A v \in Nodes : \A i \in 1..tail[v] : HeldAt(v, i) =>
           HeldAt(v, i)' \/ (i <= Len(queue[v]) /\ closed'[queue[v][i]] # 0) \/ (eof /\ i > Len(queue[v]))
  PROVE  WorkInv'
<1>. SUFFICES ASSUME ~stale', NEW v \in Nodes, NEW i \in 1..tail[v]
     PROVE  \/ HeldAt(v, i)'
            \/ i <= Len(queue'[v]) /\ closed'[queue'[v][i]] # 0
            \/ eof' /\ i > Len(queue'[v])
  BY DEF WorkInv
<1>0. i \in Nat \ {0} /\ Len(queue[v]) \in Nat /\ Len(queue'[v]) \in Nat /\ Len(queue[v]) <= Len(queue'[v])
  BY DEF IInv, QueueInv, ClaimInv
<1>1. \/ HeldAt(v, i)
      \/ i <= Len(queue[v]) /\ closed[queue[v][i]] # 0
      \/ eof /\ i > Len(queue[v])
  BY DEF WorkInv
<1>2. \/ HeldAt(v, i)'
      \/ i <= Len(queue[v]) /\ closed'[queue[v][i]] # 0
      \/ eof /\ i > Len(queue[v])
  <2>1. CASE i <= Len(queue[v]) /\ closed[queue[v][i]] # 0
    <3>1. i \in 1..Len(queue[v])
      BY <1>0, <2>1
    <3>2. queue[v][i] \in 0..NData
      BY <3>1, QueuedChunk
    <3>. QED
      BY <2>1, <3>2
  <2>. QED
    BY <1>1, <2>1
<1>3. CASE i <= Len(queue[v]) /\ closed'[queue[v][i]] # 0
  <2>1. queue'[v][i] = queue[v][i] /\ i <= Len(queue'[v])
    BY <1>0, <1>3
  <2>. QED
    BY <1>3, <2>1
<1>. QED
  BY <1>2, <1>3

LEMMA LeftIngest ==
  ASSUME IInv, Types, LeftInv, Ingest
  PROVE  LeftInv'
<1>0. /\ DealtInv /\ WorkInv /\ EndInv /\ QueueInv
      /\ UNCHANGED <<cfg, tail, pc, from, idx, hand, cutoff, closed, stale>>
  BY DEF LeftInv, IInv, Ingest, ChooseTarget, Publish, PublishEof, IngestStops, notIngest,
         queueVars, scanVars, history
<1>1. \A v \in Nodes : tail[v] \in Nat /\ Len(queue[v]) \in Nat
  BY DEF IInv, QueueInv, ClaimInv
<1>2. CASE ChooseTarget \/ IngestStops
  <2>1. UNCHANGED <<queue, major>>
    BY <1>2 DEF ChooseTarget, IngestStops, ingestVars
  <2>2. DealtInv'
    BY <1>0, <2>1 DEF DealtInv
  <2>3. WorkInv' /\ EndInv'
    <3>1. CASE ChooseTarget
      BY <1>0, <2>1, <3>1 DEF WorkInv, EndInv, HeldAt, Holding, ChooseTarget, ingestVars
    <3>2. CASE IngestStops
      <4>1. eof' /\ ~eof
        BY <3>2 DEF IngestStops
      <4>2. WorkInv'
        BY <1>0, <2>1, <4>1 DEF WorkInv, HeldAt, Holding
      <4>3. cutoff # 0
        <5>1. CASE \A n \in Nodes : pc[n] = "done"
          <6>1. 0 \in Nodes
            BY Sizes DEF Nodes
          <6>. QED
            BY <1>0, <4>1, <5>1, <6>1 DEF EndInv
        <5>. QED
          BY <3>2, <5>1 DEF IngestStops
      <4>4. EndInv'
        BY <1>0, <2>1, <4>1, <4>3 DEF EndInv
      <4>. QED
        BY <4>2, <4>4
    <3>. QED
      BY <1>2, <3>1, <3>2
  <2>. QED
    BY <2>2, <2>3 DEF LeftInv
<1>3. CASE Publish \/ PublishEof
  <2>1. PICK t \in Nodes : Enqueue(t) /\ QueueGate(t)
    <3>1. CASE Publish
      BY <3>1 DEF Publish, Types
    <3>2. CASE PublishEof
      <4>1. After(target, 0) \in Nodes
        BY AfterNode DEF Types
      <4>. QED
        BY <3>2, <4>1 DEF PublishEof
    <3>. QED
      BY <1>3, <3>1, <3>2
  <2>2. /\ queue' = [queue EXCEPT ![t] = Append(@, major)] /\ major' = major + 1 /\ UNCHANGED ready
        /\ ~eof
    BY <1>3, <2>1 DEF Enqueue, Publish, PublishEof, notIngest, queueVars
  <2>3. /\ QueueInv'
        /\ \A v \in Nodes : Len(queue[v]) <= Len(queue'[v])
        /\ \A v \in Nodes : \A i \in 1..Len(queue[v]) : queue'[v][i] = queue[v][i]
    BY <1>0, <2>2, EnqueueKeeps
  <2>4. /\ Len(queue'[t]) = Len(queue[t]) + 1 /\ queue'[t][Len(queue[t]) + 1] = major
        /\ \A v \in Nodes : v # t => queue'[v] = queue[v]
    BY <2>1, <2>2 DEF IInv, QueueInv
  <2>5. DealtInv'
    <3>1. ASSUME NEW m \in 0..major'-1
          PROVE  \E v \in Nodes : \E i \in 1..Len(queue'[v]) : queue'[v][i] = m
      <4>0. major \in Nat
        BY DEF IInv, QueueInv
      <4>1. CASE m = major
        BY <1>1, <2>1, <2>4, <4>1
      <4>2. CASE m # major
        <5>1. m \in 0..major-1
          BY <2>2, <4>0, <4>2
        <5>2. PICK v \in Nodes : \E i \in 1..Len(queue[v]) : queue[v][i] = m
          BY <1>0, <5>1 DEF DealtInv
        <5>3. PICK i \in 1..Len(queue[v]) : queue[v][i] = m
          BY <5>2
        <5>4. i \in 1..Len(queue'[v])
          BY <1>1, <2>3, <2>4, <5>3
        <5>. QED
          BY <2>3, <5>3, <5>4
      <4>. QED
        BY <4>1, <4>2
    <3>2. ASSUME NEW v \in Nodes PROVE Len(queue'[v]) - tail'[v] <= QueueLimit
      <4>1. CASE v = t
        <5>1. Len(queue[t]) - tail[t] < QueueLimit /\ QueueLimit \in Nat
          BY <2>1, ChunksAssumption DEF QueueGate, Backlog, QueueHead
        <5>. QED
          BY <1>0, <1>1, <2>1, <2>4, <4>1, <5>1
      <4>2. CASE v # t
        BY <1>0, <2>4, <4>2 DEF DealtInv
      <4>. QED
        BY <4>1, <4>2
    <3>. QED
      BY <3>1, <3>2 DEF DealtInv
  <2>6. WorkInv'
    <3>1. \A v \in Nodes : Len(queue'[v]) \in Nat
      BY <2>3 DEF QueueInv
    <3>2. \A v \in Nodes : \A i \in 1..tail[v] : HeldAt(v, i) => HeldAt(v, i)'
      BY <1>0 DEF HeldAt, Holding
    <3>. QED
      BY <1>0, <2>2, <2>3, <3>1, <3>2, WorkFrame
  <2>7. EndInv'
    <3>1. eof' /\ cutoff = 0 => major' = NData + 1
      BY <1>3, <2>2 DEF Publish, PublishEof
    <3>2. \A n \in Nodes : pc[n] = "done" => cutoff # 0
      BY <1>0, <2>2 DEF EndInv
    <3>. QED
      BY <1>0, <3>1, <3>2 DEF EndInv
  <2>. QED
    BY <2>5, <2>6, <2>7 DEF LeftInv
<1>. QED
  BY <1>2, <1>3 DEF Ingest

(* Steps that leave the queues and what is closed alone, and neither take  *)
(* nor give up a claim.                                                    *)
LEMMA LeftIdle ==
  ASSUME IInv, Types, LeftInv, NEW n \in Nodes,
         Index(n) \/ Own(n) \/ Steal(n) \/ Finish(n) \/ Snapshot(n) \/ Handoff(n)
  PROVE  LeftInv'
<1>0. /\ DealtInv /\ WorkInv /\ EndInv
      /\ UNCHANGED <<cfg, queue, major, eof, tail, idx, cutoff, closed, stale>>
      /\ pc \in [Nodes -> {"top", "claim", "wait", "gate", "handoff", "done"}]
      /\ from \in [Nodes -> Nodes]
  BY DEF LeftInv, IInv, ClaimInv, Index, Own, Steal, Finish, Snapshot, Handoff, ClaimFrom,
         notClaim, notChunk, ingestVars, queueVars, scanVars, history
<1>1. \A k \in Nodes : Holding(k) => Holding(k)' /\ from'[k] = from[k]
  <2>1. CASE Index(n)
    BY <2>1 DEF Index, scanVars, Holding
  <2>2. CASE Own(n) \/ Steal(n) \/ Finish(n)
    <3>1. /\ pc[n] = "top" /\ \E p : pc' = [pc EXCEPT ![n] = p]
          /\ UNCHANGED from \/ \E u : from' = [from EXCEPT ![n] = u]
      BY <2>2 DEF Own, Steal, Finish, ClaimFrom
    <3>. QED
      BY <1>0, <3>1 DEF Holding
  <2>3. CASE Snapshot(n)
    BY <1>0, <2>3 DEF Snapshot, Holding
  <2>4. CASE Handoff(n)
    <3>1. pc[n] = "handoff" /\ from' = from /\ \E p : pc' = [pc EXCEPT ![n] = p]
      BY <2>4 DEF Handoff, notChunk
    <3>. QED
      BY <1>0, <3>1 DEF Holding
  <2>. QED
    BY <2>1, <2>2, <2>3, <2>4
<1>2. DealtInv'
  BY <1>0 DEF DealtInv
<1>3. WorkInv'
  <2>1. \A v \in Nodes : \A i \in 1..tail[v] : HeldAt(v, i) => HeldAt(v, i)'
    BY <1>0, <1>1 DEF HeldAt
  <2>2. \A v \in Nodes : Len(queue'[v]) \in Nat
    BY <1>0 DEF IInv, QueueInv
  <2>. QED
    BY <1>0, <2>1, <2>2, WorkFrame
<1>4. EndInv'
  <2>1. \A k \in Nodes : pc'[k] = "handoff" => pc[k] = "handoff" /\ hand'[k] = hand[k]
    <3>1. CASE Index(n)
      BY <3>1 DEF Index, scanVars
    <3>2. CASE Own(n) \/ Steal(n) \/ Finish(n) \/ Snapshot(n)
      BY <3>2, ChoiceHands DEF IInv
    <3>3. CASE Handoff(n)
      <4>1. hand' = hand /\ \E p \in {"top", "done"} : pc' = [pc EXCEPT ![n] = p]
        BY <3>3 DEF Handoff
      <4>. QED
        BY <1>0, <4>1
    <3>. QED
      BY <3>1, <3>2, <3>3
  <2>2. ASSUME NEW k \in Nodes, pc'[k] = "done"
        PROVE  (eof' /\ tail'[k] >= Len(queue'[k])) \/ cutoff' # 0
    <3>1. CASE pc[k] = "done"
      BY <1>0, <3>1 DEF EndInv
    <3>2. CASE pc[k] # "done"
      <4>1. k = n /\ (Finish(n) \/ (Handoff(n) /\ hand[n].last))
        <5>1. \/ pc' = pc
              \/ \E p \in {"top", "claim", "gate"} : pc' = [pc EXCEPT ![n] = p]
              \/ (Finish(n) \/ (Handoff(n) /\ hand[n].last)) /\ pc' = [pc EXCEPT ![n] = "done"]
          BY DEF Index, Own, Steal, Finish, Snapshot, Handoff, ClaimFrom, scanVars
        <5>. QED
          BY <1>0, <2>2, <3>2, <5>1
      <4>2. CASE Finish(n)
        BY <1>0, <4>1, <4>2 DEF Finish, LocalExhausted, QueueHead
      <4>3. CASE Handoff(n) /\ hand[n].last
        BY <1>0, <4>1, <4>3 DEF Handoff, EndInv
      <4>. QED
        BY <4>1, <4>2, <4>3
    <3>. QED
      BY <3>1, <3>2
  <2>. QED
    BY <1>0, <2>1, <2>2 DEF EndInv
<1>. QED
  BY <1>2, <1>3, <1>4 DEF LeftInv

(* A claim takes the position at the tail; it is given up only beyond the  *)
(* end of a queue that is complete.                                        *)
LEMMA LeftClaim ==
  ASSUME IInv, Types, LeftInv, NEW n \in Nodes, Claim(n) \/ Overran(n)
  PROVE  LeftInv'
<1>0. /\ DealtInv /\ WorkInv /\ EndInv
      /\ UNCHANGED <<cfg, queue, major, eof, hand, cutoff, closed, stale, from>>
      /\ pc \in [Nodes -> {"top", "claim", "wait", "gate", "handoff", "done"}]
      /\ from \in [Nodes -> Nodes] /\ tail \in [Nodes -> Nat] /\ idx \in [Nodes -> Nat]
      /\ \A v \in Nodes : Len(queue[v]) \in Nat
  BY DEF LeftInv, IInv, QueueInv, ClaimInv, Claim, Overran, notClaim, ingestVars
<1>1. \A v \in Nodes : tail'[v] \in Nat /\ tail[v] <= tail'[v]
  <2>1. CASE Claim(n)
    <3>1. tail' = [tail EXCEPT ![from[n]] = @ + 1]
      BY <2>1 DEF Claim
    <3>. QED
      BY <1>0, <3>1
  <2>2. CASE Overran(n)
    BY <1>0, <2>2 DEF Overran
  <2>. QED
    BY <2>1, <2>2
<1>2. DealtInv'
  <2>1. \A v \in Nodes : Len(queue[v]) - tail'[v] <= QueueLimit
    <3>. SUFFICES ASSUME NEW v \in Nodes PROVE Len(queue[v]) - tail'[v] <= QueueLimit
      OBVIOUS
    <3>1. Len(queue[v]) - tail[v] <= QueueLimit /\ QueueLimit \in Nat
      BY <1>0, ChunksAssumption DEF DealtInv
    <3>2. /\ Len(queue[v]) \in Nat /\ tail[v] \in Nat /\ tail'[v] \in Nat
          /\ tail[v] <= tail'[v]
      BY <1>0, <1>1
    <3>. QED
      BY ONLY <3>1, <3>2
  <2>. QED
    BY <1>0, <2>1 DEF DealtInv
<1>3. WorkInv'
  <2>1. CASE Claim(n)
    <3>0. /\ tail' = [tail EXCEPT ![from[n]] = @ + 1] /\ pc[n] = "claim"
          /\ idx' = [idx EXCEPT ![n] = tail[from[n]]] /\ pc' = [pc EXCEPT ![n] = "wait"]
      BY <2>1 DEF Claim
    <3>1. \A k \in Nodes : Holding(k) => Holding(k)' /\ idx'[k] = idx[k]
      BY <1>0, <3>0 DEF Holding
    <3>2. ASSUME ~stale, NEW v \in Nodes, NEW i \in 1..tail'[v]
          PROVE  \/ HeldAt(v, i)'
                 \/ i <= Len(queue[v]) /\ closed[queue[v][i]] # 0
                 \/ eof /\ i > Len(queue[v])
      <4>1. CASE i <= tail[v]
        <5>1. i \in 1..tail[v]
          BY <1>0, <1>1, <4>1
        <5>2. HeldAt(v, i) => HeldAt(v, i)'
          BY <1>0, <3>1 DEF HeldAt
        <5>. QED
          BY <1>0, <3>2, <5>1, <5>2 DEF WorkInv
      <4>2. CASE i > tail[v]
        <5>1. v = from[n] /\ i - 1 = tail[from[n]]
          <6>1. CASE v = from[n]
            <7>1. tail'[v] = tail[v] + 1 /\ tail[v] \in Nat /\ i \in 1..tail'[v]
              BY <1>0, <3>0, <6>1
            <7>. QED
              BY ONLY <4>2, <6>1, <7>1
          <6>2. CASE v # from[n]
            <7>1. tail'[v] = tail[v] /\ tail[v] \in Nat /\ i \in 1..tail'[v]
              BY <1>0, <3>0, <6>2
            <7>. QED
              BY ONLY <4>2, <7>1
          <6>. QED
            BY <6>1, <6>2
        <5>2. Holding(n)' /\ idx'[n] = tail[from[n]]
          BY <1>0, <3>0 DEF Holding
        <5>. QED
          BY <1>0, <5>1, <5>2 DEF HeldAt
      <4>. QED
        BY <1>0, <1>1, <4>1, <4>2
    <3>. QED
      BY <1>0, <3>2 DEF WorkInv
  <2>2. CASE Overran(n)
    <3>0. /\ UNCHANGED <<tail, idx>> /\ eof /\ Len(queue[from[n]]) <= idx[n]
          /\ pc' = [pc EXCEPT ![n] = "top"]
      BY <2>2 DEF Overran, QueueHead
    <3>1. \A k \in Nodes : k # n => Holding(k)' = Holding(k)
      BY <1>0, <3>0 DEF Holding
    <3>2. ASSUME NEW v \in Nodes, NEW i \in 1..tail[v], HeldAt(v, i)
          PROVE  HeldAt(v, i)' \/ (eof /\ i > Len(queue[v]))
      <4>1. PICK k \in Nodes : Holding(k) /\ from[k] = v /\ idx[k] = i - 1
        BY <3>2 DEF HeldAt
      <4>2. CASE k = n
        <5>1. Len(queue[v]) <= i - 1
          BY <3>0, <4>1, <4>2
        <5>. QED
          BY <1>0, <3>0, <5>1
      <4>3. CASE k # n
        BY <1>0, <3>0, <3>1, <4>1, <4>3 DEF HeldAt
      <4>. QED
        BY <4>2, <4>3
    <3>. QED
      BY <1>0, <3>0, <3>2, WorkFrame
  <2>. QED
    BY <2>1, <2>2
<1>4. EndInv'
  <2>1. \A k \in Nodes : (pc'[k] = "done" => pc[k] = "done") /\ (pc'[k] = "handoff" => pc[k] = "handoff")
    <3>1. \E p \in {"wait", "top"} : pc' = [pc EXCEPT ![n] = p]
      BY DEF Claim, Overran
    <3>. QED
      BY <1>0, <3>1
  <2>2. ASSUME NEW k \in Nodes, pc'[k] = "done"
        PROVE  (eof /\ tail'[k] >= Len(queue[k])) \/ cutoff # 0
    <3>1. (eof /\ tail[k] >= Len(queue[k])) \/ cutoff # 0
      BY <1>0, <2>1, <2>2 DEF EndInv
    <3>2. tail'[k] >= tail[k] /\ tail[k] \in Nat /\ tail'[k] \in Nat /\ Len(queue[k]) \in Nat
      BY <1>0, <1>1
    <3>. QED
      BY <3>1, <3>2
  <2>. QED
    BY <1>0, <2>1, <2>2 DEF EndInv
<1>. QED
  BY <1>2, <1>3, <1>4 DEF LeftInv

(* What a scanner does with a chunk that it holds.                         *)
Scans(n) == SkipPast(n) \/ Scan(n) \/ ScanExact(n) \/ ScanExactEof(n) \/ SkipExact(n)

LEMMA ScansFrame ==
  ASSUME NEW n \in Nodes, Scans(n)
  PROVE  /\ pc[n] = "gate" /\ \E s, e : Flush(n, s, e)
         /\ \E p \in {"top", "handoff"} : pc' = [pc EXCEPT ![n] = p]
         /\ UNCHANGED <<cfg, major, eof, queue, ready, tail, meta, from, idx, held, snap>>
BY DEF Scans, SkipPast, Scan, ScanExact, ScanExactEof, SkipExact, ToHandoff, Waiting, notChunk,
       ingestVars, queueVars

(* A chunk is given up when it is closed.                                  *)
LEMMA ScansClose ==
  ASSUME IInv, Types, NEW n \in Nodes, Scans(n), ~stale'
  PROVE  /\ ~stale /\ ~Recycled(n) /\ snap[n] = held[n] /\ held[n] \in 0..NData
         /\ closed[held[n]] = 0 /\ closed'[held[n]] # 0
         /\ \A m \in 0..NData : m # held[n] => closed'[m] = closed[m]
<1>1. PICK s, e : Flush(n, s, e)
  BY ScansFrame
<1>2. ~stale /\ ~Recycled(n) /\ snap[n] = held[n] /\ pc[n] = "gate"
  BY <1>1, ScansFrame DEF Flush, Recycled
<1>3. PICK h \in 0..NData : h = held[n]
  BY DEF Types
<1>4. closed[h] = 0
  BY <1>2, <1>3, NotYetClosed
<1>5. closed \in [0..NData -> Nat] /\ closed' = [closed EXCEPT ![h] = @ + 1]
  BY <1>1, <1>2, <1>3 DEF IInv, ClosedInv, Flush
<1>. QED
  BY <1>2, <1>3, <1>4, <1>5

LEMMA NthPositive ==
  ASSUME FreshInv, NEW n \in Nodes, Prev(n).cum # Unset, NEW d \in DelimsIn(RawStart(snap[n]), RawEnd(snap[n]))
  PROVE  Nth(n, d) \in Nat /\ Nth(n, d) > 0
<1> DEFINE D == DelimsIn(RawStart(snap[n]), d + 1)
<1>1. IsFiniteSet(D) /\ Cardinality(D) \in Nat
  BY DelimsFinite
<1>2. d \in D
  BY Sizes DEF DelimsIn
<1>3. Cardinality(D) # 0
  BY <1>1, <1>2, FS_EmptySet
<1>4. Prev(n).cum \in Nat
  BY PrevTypes
<1>. QED
  BY <1>1, <1>3, <1>4 DEF Nth

LEMMA LimitMet ==
  ASSUME IInv, FreshInv, NEW n \in Nodes, Scans(n)
  PROVE  /\ cutoff' = cutoff \/ (cfg.limit > 0 /\ cutoff' = snap[n] + 1)
         /\ pc'[n] = "handoff" /\ hand'[n].last => cfg.limit > 0 /\ cutoff' = snap[n] + 1
<1>0. /\ pc \in [Nodes -> {"top", "claim", "wait", "gate", "handoff", "done"}]
      /\ hand \in [Nodes -> [end : 0..N, cum : Nat, last : BOOLEAN]]
      /\ cfg.limit \in Nat
  BY Sizes DEF FreshInv, Types, IInv, ClaimInv
<1>1. CASE SkipPast(n) \/ ScanExactEof(n) \/ SkipExact(n)
  <2>1. cutoff' = cutoff /\ \E e, c : ToHandoff(n, e, c, FALSE)
    BY <1>1 DEF SkipPast, ScanExactEof, SkipExact
  <2>. QED
    BY <1>0, <2>1 DEF ToHandoff
<1>2. CASE Scan(n)
  <2>1. CASE cfg.limit = 0
    <3>1. pc' = [pc EXCEPT ![n] = "top"] /\ cutoff' = cutoff
      BY <1>2, <2>1 DEF Scan
    <3>. QED
      BY <1>0, <3>1
  <2>2. CASE cfg.limit # 0
    <3>1. \E e, c : \E l \in BOOLEAN : ToHandoff(n, e, c, l) /\ cutoff' = (IF l THEN snap[n] + 1 ELSE cutoff)
      BY <1>2, <2>2 DEF Scan
    <3>. QED
      BY <1>0, <2>2, <3>1 DEF ToHandoff
  <2>. QED
    BY <2>1, <2>2
<1>3. CASE ScanExact(n)
  <2> DEFINE met == \E d \in Ends(n) : Nth(n, d) = cfg.limit
  <2>1. Prev(n).cum # Unset
    BY <1>3 DEF ScanExact, HandedOn
  <2>2. met => cfg.limit > 0
    BY <1>0, <2>1, NthPositive DEF Ends
  <2>3. (\E e, c : ToHandoff(n, e, c, met)) /\ cutoff' = (IF met THEN snap[n] + 1 ELSE cutoff)
    BY <1>3 DEF ScanExact
  <2>. HIDE DEF met
  <2>. QED
    BY <1>0, <2>2, <2>3 DEF ToHandoff
<1>. QED
  BY <1>1, <1>2, <1>3 DEF Scans

LEMMA LeftScans ==
  ASSUME IInv, FreshInv, LeftInv, NEW n \in Nodes, Scans(n)
  PROVE  LeftInv'
<1>0. /\ DealtInv /\ WorkInv /\ EndInv /\ Types
      /\ UNCHANGED <<cfg, major, eof, queue, tail, from, idx, held, snap>>
      /\ pc[n] = "gate" /\ (\E p \in {"top", "handoff"} : pc' = [pc EXCEPT ![n] = p])
      /\ pc \in [Nodes -> {"top", "claim", "wait", "gate", "handoff", "done"}]
      /\ snap[n] \in Nat /\ (stale => stale')
      /\ \A v \in Nodes : Len(queue[v]) \in Nat /\ from[v] \in Nodes /\ idx[v] \in Nat
  <2>1. /\ pc[n] = "gate" /\ (\E s, e : Flush(n, s, e))
        /\ (\E p \in {"top", "handoff"} : pc' = [pc EXCEPT ![n] = p])
        /\ UNCHANGED <<cfg, major, eof, queue, tail, from, idx, held, snap>>
    BY ScansFrame
  <2>2. stale => stale'
    BY <2>1 DEF Flush
  <2>3. snap[n] \in Nat
    BY ChunksCover DEF FreshInv, Types
  <2>4. /\ pc \in [Nodes -> {"top", "claim", "wait", "gate", "handoff", "done"}]
        /\ \A v \in Nodes : Len(queue[v]) \in Nat /\ from[v] \in Nodes /\ idx[v] \in Nat
    BY DEF IInv, QueueInv, ClaimInv
  <2>. QED
    BY <2>1, <2>2, <2>3, <2>4 DEF LeftInv, FreshInv
<1>1. DealtInv'
  BY <1>0 DEF DealtInv
<1>2. WorkInv'
  <2>1. \A k \in Nodes : k # n => Holding(k)' = Holding(k)
    BY <1>0 DEF Holding
  <2>2. ASSUME ~stale', NEW v \in Nodes, NEW i \in 1..tail[v], HeldAt(v, i)
        PROVE  HeldAt(v, i)' \/ (i <= Len(queue[v]) /\ closed'[queue[v][i]] # 0)
    <3>1. PICK k \in Nodes : Holding(k) /\ from[k] = v /\ idx[k] = i - 1
      BY <2>2 DEF HeldAt
    <3>2. CASE k = n
      <4>1. idx[n] < Len(queue[v]) /\ held[n] = queue[v][idx[n] + 1]
        BY <1>0, <3>1, <3>2 DEF IInv, ClaimInv
      <4>2. idx[n] + 1 = i /\ i <= Len(queue[v])
        <5>1. i \in Int /\ idx[n] = i - 1 /\ Len(queue[v]) \in Nat
          BY <1>0, <3>1, <3>2
        <5>. QED
          BY <4>1, <5>1
      <4>. QED
        BY <1>0, <2>2, <4>1, <4>2, ScansClose
    <3>3. CASE k # n
      BY <1>0, <2>1, <3>1, <3>3 DEF HeldAt
    <3>. QED
      BY <3>2, <3>3
  <2>3. ~stale' => \A m \in 0..NData : closed[m] # 0 => closed'[m] # 0
    BY <1>0, ScansClose
  <2>. QED
    BY <1>0, <2>2, <2>3, WorkFrame
<1>3. EndInv'
  <2>1. cutoff' = cutoff \/ (cfg.limit > 0 /\ cutoff' = snap[n] + 1)
    BY <1>0, LimitMet
  <2>2. cutoff' # 0 => cfg'.limit > 0
    BY <1>0, <2>1 DEF EndInv
  <2>3. cutoff # 0 => cutoff' # 0
    BY <1>0, <2>1
  <2>4. ASSUME NEW k \in Nodes, pc'[k] = "handoff", hand'[k].last PROVE cutoff' # 0
    <3>1. CASE k = n
      BY <1>0, <2>4, <3>1, LimitMet
    <3>2. CASE k # n
      <4>1. hand'[k] = hand[k]
        <5>1. UNCHANGED hand \/ \E x : hand' = [hand EXCEPT ![n] = x]
          BY DEF Scans, SkipPast, Scan, ScanExact, ScanExactEof, SkipExact, ToHandoff
        <5>. QED
          BY <3>2, <5>1 DEF FreshInv, Types
      <4>2. pc[k] = "handoff"
        BY <1>0, <2>4, <3>2
      <4>. QED
        BY <1>0, <2>3, <2>4, <4>1, <4>2 DEF EndInv
    <3>. QED
      BY <3>1, <3>2
  <2>5. \A k \in Nodes : pc'[k] = "done" => pc[k] = "done"
    BY <1>0
  <2>6. (eof' /\ cutoff' = 0) => major' = NData + 1
    BY <1>0, <2>3 DEF EndInv
  <2>7. \A k \in Nodes : pc'[k] = "done" => (eof' /\ tail'[k] >= Len(queue'[k])) \/ cutoff' # 0
    BY <1>0, <2>3, <2>5 DEF EndInv
  <2>. QED
    BY <2>2, <2>4, <2>6, <2>7 DEF EndInv
<1>. QED
  BY <1>1, <1>2, <1>3 DEF LeftInv

LEMMA LeftStep == ChunkInv /\ LeftInv /\ [Next]_vars => LeftInv'
<1>. SUFFICES ASSUME ChunkInv, LeftInv, [Next]_vars PROVE LeftInv'
  OBVIOUS
<1>0. IInv /\ FreshInv /\ Types
  BY DEF ChunkInv, FreshInv
<1>1. CASE UNCHANGED vars
  BY <1>1 DEF vars, ingestVars, queueVars, scanVars, history, LeftInv, DealtInv, WorkInv, EndInv,
              HeldAt, Holding
<1>2. CASE Ingest
  BY <1>0, <1>2, LeftIngest
<1>3. ASSUME NEW n \in Nodes, Index(n) PROVE LeftInv'
  BY <1>0, <1>3, LeftIdle
<1>4. ASSUME NEW n \in Nodes, Scanner(n) PROVE LeftInv'
  BY <1>0, <1>4, LeftIdle, LeftClaim, LeftScans DEF Scanner, Scans
<1>. QED
  BY <1>1, <1>2, <1>3, <1>4 DEF Next

(* When all scanners are through and the limit was not met, every chunk    *)
(* was dealt out and closed.                                               *)
LEMMA AllClosed ==
  ASSUME IInv, Types, LeftInv, AllDone, ~stale, cutoff = 0
  PROVE  major = NData + 1 /\ \A m \in 0..NData : closed[m] # 0
<1>1. /\ DealtInv /\ WorkInv /\ EndInv /\ \A n \in Nodes : pc[n] = "done"
      /\ \A v \in Nodes : Len(queue[v]) \in Nat /\ tail[v] \in Nat
  BY DEF LeftInv, AllDone, IInv, QueueInv, ClaimInv
<1>2. 0 \in Nodes
  BY Sizes DEF Nodes
<1>3. eof /\ \A v \in Nodes : tail[v] >= Len(queue[v])
  BY <1>1, <1>2 DEF EndInv
<1>4. major = NData + 1
  BY <1>1, <1>3 DEF EndInv
<1>5. ASSUME NEW m \in 0..NData PROVE closed[m] # 0
  <2>1. PICK v \in Nodes : \E i \in 1..Len(queue[v]) : queue[v][i] = m
    <3>1. m \in 0..major-1
      BY <1>4, ChunksCover
    <3>. QED
      BY <1>1, <3>1 DEF DealtInv
  <2>2. PICK i \in 1..Len(queue[v]) : queue[v][i] = m
    BY <2>1
  <2>3. i \in 1..tail[v] /\ ~(i > Len(queue[v]))
    <3>1. tail[v] >= Len(queue[v]) /\ tail[v] \in Nat /\ Len(queue[v]) \in Nat
      BY <1>1, <1>3
    <3>. QED
      BY <3>1
  <2>4. ~HeldAt(v, i)
    BY <1>1 DEF HeldAt, Holding
  <2>. QED
    BY <1>1, <2>2, <2>3, <2>4 DEF WorkInv
<1>. QED
  BY <1>4, <1>5

-------------------------------------------------------------------------------
(* Counting lines. *)

(* Delimiters before offset x.                                             *)
Ord(x) == Cardinality(DelimsIn(0, x))

LEMMA OrdNat == \A x : Ord(x) \in Nat
BY DelimsFinite DEF Ord

LEMMA DelimsAdd ==
  ASSUME NEW s \in Nat, NEW t \in Nat, NEW e \in Nat, s <= t, t <= e
  PROVE  Cardinality(DelimsIn(s, e)) = Cardinality(DelimsIn(s, t)) + Cardinality(DelimsIn(t, e))
<1>1. \A d \in Delims : d \in Int
  BY Sizes
<1>2. DelimsIn(s, e) = DelimsIn(s, t) \cup DelimsIn(t, e)
  BY <1>1 DEF DelimsIn
<1>3. DelimsIn(s, t) \cap DelimsIn(t, e) = {}
  BY <1>1 DEF DelimsIn
<1> DEFINE A == DelimsIn(s, t)
           B == DelimsIn(t, e)
<1>4. IsFiniteSet(A) /\ IsFiniteSet(B) /\ Cardinality(A) \in Nat /\ Cardinality(B) \in Nat
  BY DelimsFinite
<1>5. Cardinality(A \cup B) = Cardinality(A) + Cardinality(B) - Cardinality(A \cap B)
  <2>. HIDE DEF A, B
  <2>. QED
    BY <1>4, FS_Union
<1>6. Cardinality(A \cap B) = 0
  BY <1>3, FS_EmptySet
<1>. QED
  BY <1>2, <1>4, <1>5, <1>6

(* Delimiters of [s, e), as a difference.                                  *)
LEMMA OrdDiff ==
  ASSUME NEW s \in Nat, NEW e \in Nat, s <= e
  PROVE  /\ Cardinality(DelimsIn(s, e)) = Ord(e) - Ord(s)
         /\ Ord(s) <= Ord(e)
<1>1. Ord(e) = Ord(s) + Cardinality(DelimsIn(s, e))
  BY DelimsAdd DEF Ord
<1>2. Ord(s) \in Nat /\ Ord(e) \in Nat /\ Cardinality(DelimsIn(s, e)) \in Nat
  BY OrdNat, DelimsFinite
<1>. QED
  BY <1>1, <1>2

LEMMA AllDelims == DelimsIn(0, N) = Delims
<1>1. \A d \in Delims : d \in Int /\ 0 <= d /\ d < N
  BY Sizes
<1>. QED
  BY <1>1 DEF DelimsIn

LEMMA OrdZero == Ord(0) = 0
<1>0. \A d \in Delims : d \in Int /\ 0 <= d
  BY Sizes
<1>1. DelimsIn(0, 0) = {}
  BY <1>0 DEF DelimsIn
<1>. QED
  BY <1>1, FS_EmptySet DEF Ord

LEMMA OrdNext ==
  ASSUME NEW d \in Delims
  PROVE  Ord(d + 1) = Ord(d) + 1 /\ d \in Nat /\ d < N
<1>0. d \in Nat /\ d < N
  BY Sizes
<1>1. DelimsIn(0, d + 1) = DelimsIn(0, d) \cup {d} /\ d \notin DelimsIn(0, d)
  <2>1. \A x \in Delims : x \in Int /\ (x < d + 1 <=> x < d \/ x = d)
    BY <1>0, Sizes
  <2>2. d \notin DelimsIn(0, d) /\ d \in DelimsIn(0, d + 1)
    BY <1>0 DEF DelimsIn
  <2>3. \A x \in Delims : x \in DelimsIn(0, d + 1) <=> x \in DelimsIn(0, d) \/ x = d
    BY <2>1, <2>2 DEF DelimsIn
  <2>4. DelimsIn(0, d + 1) \subseteq Delims /\ DelimsIn(0, d) \subseteq Delims
    BY DEF DelimsIn
  <2>. QED
    BY <2>2, <2>3, <2>4
<1>2. IsFiniteSet(DelimsIn(0, d))
  BY DelimsFinite
<1>. QED
  BY <1>0, <1>1, <1>2, FS_AddElement DEF Ord

(* An ordinal that is reached between x and y is that of a delimiter there.*)
LEMMA OrdReached ==
  ASSUME NEW x \in Nat, NEW y \in Nat, x <= y, NEW k \in Nat, Ord(x) < k, k <= Ord(y)
  PROVE  \E d \in DelimsIn(x, y) : Ord(d + 1) = k
<1>1. k \in Nat \ {0} /\ k <= Cardinality(DelimsIn(0, y))
  BY OrdNat DEF Ord
<1>2. PICK d \in DelimsIn(0, y) : Ord(d + 1) = k
  BY <1>1, KthDelimiter DEF Ord
<1>3. d \in Delims /\ d \in Nat /\ d < y
  BY <1>2, Sizes DEF DelimsIn
<1>4. ~(d + 1 <= x)
  <2>1. d + 1 <= x => Ord(d + 1) <= Ord(x)
    BY <1>3, OrdDiff
  <2>2. Ord(x) \in Nat /\ Ord(x) < k /\ Ord(d + 1) = k
    BY <1>2, OrdNat
  <2>. QED
    BY <2>1, <2>2
<1>5. d \in DelimsIn(x, y)
  BY <1>3, <1>4 DEF DelimsIn
<1>. QED
  BY <1>2, <1>5

(* The first k lines of [s, e) are the bytes with fewer than k delimiters  *)
(* before them.                                                            *)
LEMMA InLines ==
  ASSUME NEW s \in 0..N, NEW e \in 0..N, NEW k \in Nat, NEW b \in Nat, s <= b, b < e
  PROVE  /\ b < EndOfLines(s, e, k) <=> Ord(b) - Ord(s) < k
         /\ Ord(b) - Ord(s) < LineCount(s, e)
<1>0. N \in Nat /\ s \in Nat /\ e \in Nat /\ s < e
  BY Sizes
<1>1. /\ Ord(b) - Ord(s) = Cardinality(DelimsIn(s, b)) /\ Ord(s) <= Ord(b) /\ Ord(b) <= Ord(e)
      /\ Cardinality(DelimsIn(s, e)) = Ord(e) - Ord(s)
      /\ Ord(s) \in Nat /\ Ord(b) \in Nat /\ Ord(e) \in Nat
  BY <1>0, OrdDiff, OrdNat
<1>2. Ord(b) - Ord(s) < LineCount(s, e)
  <2>1. CASE e - 1 \in Delims
    <3>1. PICK d \in Delims : d = e - 1
      BY <2>1
    <3>2. Ord(e) = Ord(d) + 1 /\ Ord(b) <= Ord(d) /\ Ord(d) \in Nat
      <4>1. d + 1 = e /\ d \in Nat /\ b <= d
        BY <1>0, <3>1
      <4>2. Ord(d + 1) = Ord(d) + 1
        BY OrdNext
      <4>. QED
        BY <4>1, <4>2, OrdDiff, OrdNat
    <3>3. LineCount(s, e) = Ord(e) - Ord(s)
      BY <1>1, <2>1 DEF LineCount
    <3>. QED
      BY <1>1, <3>2, <3>3
  <2>2. CASE e - 1 \notin Delims
    <3>1. LineCount(s, e) = Ord(e) - Ord(s) + 1
      BY <1>0, <1>1, <2>2 DEF LineCount
    <3>. QED
      BY <1>1, <3>1
  <2>. QED
    BY <2>1, <2>2
<1>3. LineCount(s, e) \in Nat
  BY LineCountNat
<1>4. CASE k = 0
  BY <1>0, <1>1, <1>2, <1>4 DEF EndOfLines
<1>5. CASE k # 0 /\ LineCount(s, e) <= k
  <2>1. EndOfLines(s, e, k) = e
    BY <1>5 DEF EndOfLines
  <2>. QED
    BY <1>1, <1>2, <1>3, <1>5, <2>1
<1>6. CASE k # 0 /\ ~(LineCount(s, e) <= k)
  <2>1. k <= Cardinality(DelimsIn(s, e))
    BY <1>1, <1>3, <1>6 DEF LineCount
  <2>2. \E d \in DelimsIn(s, e) : Cardinality(DelimsIn(s, d + 1)) = k
    <3>1. k \in Nat \ {0}
      BY <1>6
    <3>. QED
      BY <1>0, <2>1, <3>1, KthDelimiter
  <2>3. PICK d : d = CHOOSE x \in DelimsIn(s, e) : Cardinality(DelimsIn(s, x + 1)) = k
    OBVIOUS
  <2>4. d \in DelimsIn(s, e) /\ Cardinality(DelimsIn(s, d + 1)) = k
    BY <2>2, <2>3
  <2>5. d \in Delims /\ s <= d /\ d \in Nat
    BY <2>4, Sizes DEF DelimsIn
  <2>6. EndOfLines(s, e, k) = 1 + d
    BY <1>6, <2>3 DEF EndOfLines
  <2>7. Ord(d + 1) - Ord(s) = k /\ Ord(d + 1) = Ord(d) + 1 /\ Ord(d) \in Nat /\ Ord(d + 1) \in Nat
    <3>1. s <= d + 1 /\ d + 1 \in Nat
      BY <1>0, <2>5
    <3>. QED
      BY <1>0, <2>4, <2>5, <3>1, OrdDiff, OrdNext, OrdNat
  <2>8. CASE b <= d
    <3>1. Ord(b) <= Ord(d)
      BY <2>5, <2>8, OrdDiff
    <3>. QED
      BY <1>1, <1>2, <2>5, <2>6, <2>7, <2>8, <3>1
  <2>9. CASE d + 1 <= b
    <3>1. Ord(d + 1) <= Ord(b)
      BY <2>5, <2>9, OrdDiff
    <3>. QED
      BY <1>1, <1>2, <2>5, <2>6, <2>7, <2>9, <3>1
  <2>. QED
    BY <2>5, <2>8, <2>9
<1>. QED
  BY <1>4, <1>5, <1>6

(* The wanted bytes are those with fewer delimiters before them than the   *)
(* limit.                                                                  *)
LEMMA WantedBytes ==
  ASSUME cfg \in Modes, NEW b \in 0..N-1
  PROVE  b \in Wanted <=> (cfg.limit = 0 \/ Ord(b) < cfg.limit)
<1>0. N \in Nat /\ b \in Nat /\ b < N /\ cfg.limit \in Nat /\ cfg.exact \in BOOLEAN
  BY Sizes
<1>1. (b < EndOfLines(0, N, cfg.limit) <=> Ord(b) < cfg.limit) /\ Ord(b) < LineCount(0, N)
  <2>1. /\ b < EndOfLines(0, N, cfg.limit) <=> Ord(b) - Ord(0) < cfg.limit
        /\ Ord(b) - Ord(0) < LineCount(0, N)
    BY <1>0, InLines
  <2>. QED
    BY <2>1, OrdZero, OrdNat
<1>2. Ord(b) \in Nat /\ Ord(b) <= Cardinality(Delims) /\ Cardinality(Delims) \in Nat
  <2>1. DelimsIn(0, N) = Delims
    BY AllDelims
  <2>2. Ord(b) <= Ord(N)
    BY <1>0, OrdDiff
  <2>. QED
    BY <2>1, <2>2, OrdNat DEF Ord
<1>3. LineCount(0, N) \in Nat
  BY LineCountNat
<1>4. CASE cfg.limit = 0
  BY <1>0, <1>4 DEF Wanted
<1>5. CASE cfg.limit # 0 /\ Lines < cfg.limit
  <2>1. Ord(b) <= Lines /\ Lines \in Nat
    BY <1>1, <1>2, <1>3 DEF Lines
  <2>2. Wanted = 0..N-1
    BY <1>5 DEF Wanted
  <2>. QED
    BY <1>0, <1>2, <1>5, <2>1, <2>2
<1>6. CASE cfg.limit # 0 /\ ~(Lines < cfg.limit)
  <2>1. Wanted = 0..EndOfLines(0, N, cfg.limit)-1
    BY <1>6 DEF Wanted
  <2>2. cfg.limit <= LineCount(0, N)
    <3>1. Cardinality(Delims) <= LineCount(0, N)
      <4>1. DelimsIn(0, N) = Delims
        BY AllDelims
      <4>. QED
        BY <1>2, <4>1 DEF LineCount
    <3>. QED
      BY <1>0, <1>2, <1>3, <1>6, <3>1 DEF Lines
  <2>3. EndOfLines(0, N, cfg.limit) \in Nat
    BY <1>0, <2>2, LinesEnd
  <2>. QED
    BY <1>0, <1>1, <1>6, <2>1, <2>3
<1>. QED
  BY <1>4, <1>5, <1>6

LEMMA WantedInput == cfg \in Modes => Wanted \subseteq 0..N-1
<1>. SUFFICES ASSUME cfg \in Modes PROVE Wanted \subseteq 0..N-1
  OBVIOUS
<1>0. N \in Nat /\ cfg.limit \in Nat
  BY Sizes
<1>1. CASE cfg.limit = 0 \/ Lines < cfg.limit
  BY <1>1 DEF Wanted
<1>2. CASE ~(cfg.limit = 0 \/ Lines < cfg.limit)
  <2>1. cfg.limit <= LineCount(0, N)
    <3>1. DelimsIn(0, N) = Delims
      BY AllDelims
    <3>2. Cardinality(Delims) <= LineCount(0, N) /\ Cardinality(Delims) \in Nat
      BY <3>1, DelimsFinite DEF LineCount
    <3>. QED
      BY <1>0, <1>2, <3>2, LineCountNat DEF Lines
  <2>2. EndOfLines(0, N, cfg.limit) \in Nat /\ EndOfLines(0, N, cfg.limit) <= N
    BY <1>0, <2>1, LinesEnd
  <2>3. Wanted = 0..EndOfLines(0, N, cfg.limit)-1
    BY <1>2 DEF Wanted
  <2>. QED
    BY <1>0, <2>2, <2>3
<1>. QED
  BY <1>1, <1>2

-------------------------------------------------------------------------------
(* Every chunk has an end, and every byte a chunk.                         *)

LEMMA EndExists ==
  ASSUME NEW m \in 0..NData
  PROVE  \E e \in 0..N : IsEnd(m, e)
<1>0. N \in Nat /\ NData \in Nat /\ RawEnd(m) \in 0..N /\ \A d \in Delims : d \in Int /\ 0 <= d /\ d < N
  BY Sizes, ChunksCover, ChunkEnds
<1>1. CASE m = NData
  BY <1>0, <1>1 DEF IsEnd
<1>2. CASE m # NData /\ \A d \in Delims : ~(d < RawEnd(m))
  BY <1>0, <1>2 DEF IsEnd
<1>3. CASE m # NData /\ \E d \in Delims : d < RawEnd(m)
  <2> DEFINE S == {d \in Delims : d < RawEnd(m)}
  <2>1. S \in SUBSET Int /\ S # {} /\ \A d \in S : d <= N
    BY <1>0, <1>3
  <2>2. PICK x \in S : \A d \in S : d <= x
    <3>1. N \in Int
      BY <1>0
    <3>. HIDE DEF S
    <3>. QED
      BY <2>1, <3>1, MaxOf
  <2>3. x \in Delims /\ x < RawEnd(m) /\ x + 1 \in 0..N /\ x + 1 # 0 /\ (x + 1) - 1 = x
    BY <1>0, <2>2
  <2>4. \A d \in Delims : d < RawEnd(m) => d < x + 1
    BY <1>0, <2>2
  <2>5. IsEnd(m, x + 1)
    BY <1>3, <2>3, <2>4 DEF IsEnd
  <2>. QED
    BY <2>3, <2>5
<1>. QED
  BY <1>1, <1>2, <1>3

LEMMA EndUnique ==
  ASSUME NEW m \in 0..NData, NEW d, NEW e, IsEnd(m, d), IsEnd(m, e)
  PROVE  d = e
<1>1. m <= m /\ d \in 0..N /\ e \in 0..N
  BY ChunksCover DEF IsEnd
<1>2. d <= e /\ e <= d
  BY <1>1, EndsAscend
<1>. QED
  BY <1>1, <1>2, Sizes

LEMMA EveryByte ==
  ASSUME NEW b \in 0..N-1
  PROVE  \E m \in 0..NData : Covers(m, b)
<1> DEFINE S == {m \in 0..NData : \E e \in 0..N : IsEnd(m, e) /\ b < e}
<1>0. N \in Nat /\ NData \in Nat /\ b \in Nat /\ b < N
  BY Sizes, ChunksCover
<1>1. S \in SUBSET Nat /\ NData \in S
  BY <1>0 DEF IsEnd
<1>2. PICK m \in S : \A k \in S : m <= k
  <2>. HIDE DEF S
  <2>. QED
    BY <1>1, Least
<1>3. PICK e \in 0..N : IsEnd(m, e) /\ b < e
  BY <1>2
<1>4. m \in 0..NData
  BY <1>2
<1>5. PICK s \in 0..N : StartsAt(m, s) /\ s <= b
  <2>1. CASE m = 0
    BY <1>0, <2>1 DEF StartsAt
  <2>2. CASE m # 0
    <3>1. m - 1 \in 0..NData /\ ~(m <= m - 1)
      BY <1>0, <1>4, <2>2
    <3>2. PICK s \in 0..N : IsEnd(m - 1, s)
      BY <3>1, EndExists
    <3>3. ~(b < s)
      BY <1>2, <3>1, <3>2
    <3>4. s <= b
      BY <1>0, <3>3
    <3>. QED
      BY <2>2, <3>2, <3>4 DEF StartsAt
  <2>. QED
    BY <2>1, <2>2
<1>. QED
  BY <1>3, <1>4, <1>5 DEF Covers

(* Where a chunk ends with a line, its lines are those of its delimiters.  *)
LEMMA LinesOfChunk ==
  ASSUME NEW m \in 0..NData, m # NData, NEW e \in 0..N, IsEnd(m, e), NEW s \in 0..N, s <= e
  PROVE  LineCount(s, e) = Ord(e) - Ord(s)
<1>0. s \in Nat /\ e \in Nat
  BY Sizes
<1>1. ~(s < e /\ e - 1 \notin Delims)
  BY <1>0 DEF IsEnd
<1>2. Cardinality(DelimsIn(s, e)) = Ord(e) - Ord(s) /\ Cardinality(DelimsIn(s, e)) \in Nat
  BY <1>0, OrdDiff, DelimsFinite
<1>. QED
  BY <1>1, <1>2 DEF LineCount

(* A descriptor that a later chunk took over: its number is higher.        *)
LEMMA SlotLater ==
  ASSUME FreshInv, NEW h \in 0..NData, h < major
  PROVE  meta[Slot(h)].major >= h /\ meta[Slot(h)].major \in 0..NData
<1>0. /\ h \in Nat /\ major \in Nat /\ NData \in Nat /\ meta \in [Slots -> Desc]
      /\ Slot(h) \in Slots
  <2>1. h \in Nat /\ NData \in Nat /\ major \in 0..NData+1
    BY ChunksCover DEF FreshInv, Types
  <2>. QED
    BY <2>1, SlotIn DEF FreshInv, Types
<1>1. PICK c \in Nat \ {0} : c = MetaSize
  BY Sizes
<1>2. PICK w \in Nat : w = major - 1 - h
  BY <1>0
<1>3. PICK j \in Int : j = w \div c
  OBVIOUS
<1>4. PICK r \in 0..c-1 : r = w % c
  OBVIOUS
<1>5. PICK x \in Int : x = c * j
  OBVIOUS
<1>6. w = x + r
  BY ONLY <1>3, <1>4, <1>5, DivMod, w \in Nat, c \in Nat \ {0}
<1>7. x >= 0
  <2>1. j < 0 => x + c <= 0
    <3>1. j < 0 => c * j + c <= c * 0
      BY ONLY Multiples, j \in Int, c \in Nat \ {0}, 0 \in Int
    <3>2. c * 0 = 0
      OBVIOUS
    <3>. QED
      BY <1>5, <3>1, <3>2
  <2>2. j >= 0 => c * j >= 0
    BY ONLY j \in Int, c \in Nat \ {0}
  <2>3. w >= 0 /\ r < c
    OBVIOUS
  <2>. QED
    BY ONLY <1>5, <1>6, <2>1, <2>2, <2>3, j \in Int, x \in Int, c \in Nat \ {0}, w \in Nat, r \in 0..c-1
<1>8. PICK k \in Nat : k = h + x
  BY <1>0, <1>7
<1>9. k < major /\ major <= k + c /\ h <= k
  BY ONLY <1>0, <1>2, <1>6, <1>7, <1>8, c \in Nat \ {0}, r \in 0..c-1, x \in Int, w \in Nat
<1>10. k % c = h % c
  <2>1. PICK q \in Int : q = h \div c
    BY <1>0
  <2>2. PICK t \in 0..c-1 : t = h % c
    BY <1>0
  <2>3. h = c * q + t
    BY <2>1, <2>2, <1>0, DivMod
  <2>4. PICK y \in Int : y = c * q
    OBVIOUS
  <2>5. c * (q + j) = y + x
    BY ONLY <1>5, <2>4, c \in Nat \ {0}, q \in Int, j \in Int
  <2>6. k = c * (q + j) + t
    BY ONLY <1>8, <2>3, <2>4, <2>5, <1>0, x \in Int, y \in Int, t \in 0..c-1, k \in Nat
  <2>7. q + j \in Int
    OBVIOUS
  <2>8. (c * (q + j) + t) % c = t
    BY ONLY <2>7, ModOf, c \in Nat \ {0}, t \in 0..c-1
  <2>. QED
    BY <2>2, <2>6, <2>8
<1>11. meta[Slot(k)].major = k /\ Slot(k) = Slot(h)
  BY <1>1, <1>9, <1>10 DEF FreshInv, RingInv, Slot
<1>12. meta[Slot(h)] \in Desc
  BY <1>0
<1>. QED
  BY <1>9, <1>11, <1>12 DEF Desc

-------------------------------------------------------------------------------
(* What the indexer is through with has its boundary.                      *)

EndedInv ==
  /\ \A n \in Nodes : pc[n] = "gate" => idx[n] < ready[from[n]]
  /\ ~cfg.exact => \A v \in Nodes : \A i \in 1..ready[v] :
       meta[Slot(queue[v][i])].major = queue[v][i] => meta[Slot(queue[v][i])].end # Unset

(* A scanner that read the descriptor of its own chunk read its end.       *)
OwnInv ==
  ~cfg.exact => \A n \in Nodes :
    pc[n] = "gate" /\ snap[n] = held[n] => IsEnd(held[n], hand[n].end)

LEMMA OwnKeeps ==
  ASSUME IInv, FreshInv, EndsInv, EndedInv, OwnInv, [Next]_vars
  PROVE  OwnInv'
<1>1. ASSUME NEW k \in Nodes, Snapshot(k), ~cfg.exact, snap'[k] = held'[k]
      PROVE  IsEnd(held'[k], hand'[k].end)
  <2>1. PICK m \in 0..NData : \E s \in Slots :
          /\ m = queue[from[k]][idx[k] + 1] /\ s = Slot(m) /\ idx[k] + 1 \in 1..ready[from[k]]
          /\ from[k] \in Nodes /\ held'[k] = m /\ snap'[k] = meta[s].major
          /\ hand'[k].end = Cleared(meta[s].end)
    BY <1>1, SnapshotReads
  <2>2. PICK s \in Slots :
          /\ m = queue[from[k]][idx[k] + 1] /\ s = Slot(m) /\ idx[k] + 1 \in 1..ready[from[k]]
          /\ from[k] \in Nodes /\ held'[k] = m /\ snap'[k] = meta[s].major
          /\ hand'[k].end = Cleared(meta[s].end)
    BY <2>1
  <2>3. meta[s].major = m /\ meta[s].end # Unset
    BY <1>1, <2>2 DEF EndedInv
  <2>4. hand'[k].end = meta[s].end /\ IsEnd(m, meta[s].end)
    BY <1>1, <2>2, <2>3 DEF Cleared, EndsInv
  <2>. QED
    BY <2>2, <2>4
<1>2. ASSUME NEW k \in Nodes, ~Snapshot(k), ~cfg'.exact, pc'[k] = "gate", snap'[k] = held'[k]
      PROVE  IsEnd(held'[k], hand'[k].end)
  BY <1>2, GateKeeps DEF OwnInv, FreshInv
<1>3. \A k \in Nodes : Snapshot(k) => cfg' = cfg
  BY SnapshotReads
<1>. QED
  BY <1>1, <1>2, <1>3 DEF OwnInv, IsEnd

LEMMA ReadySlot ==
  ASSUME IInv, Types, NEW v \in Nodes, NEW i \in 1..ready[v]
  PROVE  /\ i \in 1..Len(queue[v]) /\ Slot(queue[v][i]) \in Slots /\ queue[v][i] \in 0..NData
         /\ queue[v][i] < major
<1>1. ready[v] \in Nat /\ Len(queue[v]) \in Nat /\ ready[v] <= Len(queue[v])
  BY DEF IInv, QueueInv
<1>2. i \in 1..Len(queue[v])
  BY <1>1
<1>3. queue[v][i] \in 0..NData /\ queue[v][i] < major
  BY <1>2, QueuedChunk
<1>. QED
  BY <1>2, <1>3, SlotIn

LEMMA EndedFrame ==
  ASSUME IInv, Types, EndedInv, UNCHANGED <<cfg, queue, ready>>,
         \A s \in Slots : meta'[s].major = meta[s].major /\ (~cfg.exact => meta'[s].end = meta[s].end),
         \A n \in Nodes : pc'[n] = "gate" => idx'[n] < ready[from'[n]]
  PROVE  EndedInv'
<1>. SUFFICES ASSUME ~cfg.exact, NEW v \in Nodes, NEW i \in 1..ready[v],
                     meta'[Slot(queue[v][i])].major = queue[v][i]
     PROVE  meta'[Slot(queue[v][i])].end # Unset
  BY DEF EndedInv
<1>1. Slot(queue[v][i]) \in Slots
  BY ReadySlot
<1>. QED
  BY <1>1 DEF EndedInv

(* A new chunk takes the slot of one that is not read any more.            *)
LEMMA EndedIngest ==
  ASSUME IInv, Types, EndedInv, Ingest
  PROVE  EndedInv'
<1>0. /\ UNCHANGED <<cfg, ready, pc, idx, from>>
      /\ meta \in [Slots -> Desc] /\ queue \in [Nodes -> Seq(Nat)] /\ major \in Nat
      /\ \A v \in Nodes : ready[v] \in Nat /\ Len(queue[v]) \in Nat
  BY DEF Ingest, ChooseTarget, Publish, PublishEof, IngestStops, notIngest, queueVars, scanVars,
         Types, IInv, QueueInv
<1>1. CASE UNCHANGED <<queue, meta>>
  BY <1>0, <1>1, EndedFrame DEF EndedInv
<1>2. ASSUME NEW t, Enqueue(t) PROVE EndedInv'
  <2>1. PICK w \in Slots : w = Slot(major)
    BY <1>0, SlotIn
  <2>2. meta' = [meta EXCEPT ![w] = [major |-> major, end |-> Unset, cum |-> Unset]]
    BY <1>2, <2>1 DEF Enqueue
  <2>3. \A v \in Nodes : \A i \in 1..Len(queue[v]) : queue'[v][i] = queue[v][i]
    BY <1>0, <1>2, EnqueueKeeps DEF Enqueue, IInv
  <2>4. ASSUME ~cfg.exact, NEW v \in Nodes, NEW i \in 1..ready[v],
               meta'[Slot(queue'[v][i])].major = queue'[v][i]
        PROVE  meta'[Slot(queue'[v][i])].end # Unset
    <3>1. /\ i \in 1..Len(queue[v]) /\ Slot(queue[v][i]) \in Slots
          /\ queue[v][i] \in 0..NData /\ queue[v][i] < major
      BY ReadySlot
    <3>2. PICK q \in 0..NData : q = queue[v][i] /\ q = queue'[v][i] /\ q < major /\ Slot(q) \in Slots
      BY <2>3, <3>1
    <3>3. q # major
      BY <1>0, <3>2, ChunksCover
    <3>4. Slot(q) # w
      BY <1>0, <2>2, <2>4, <3>2, <3>3
    <3>5. meta'[Slot(q)] = meta[Slot(q)]
      BY <1>0, <2>2, <3>2, <3>4
    <3>6. meta[Slot(q)].major = q
      BY <2>4, <3>2, <3>5
    <3>. QED
      BY <2>4, <3>2, <3>5, <3>6 DEF EndedInv
  <2>. QED
    BY <1>0, <2>4 DEF EndedInv
<1>. QED
  BY <1>1, <1>2 DEF Ingest, ChooseTarget, Publish, PublishEof, IngestStops

LEMMA EndedIndex ==
  ASSUME IInv, Types, EndedInv, NEW n \in Nodes, Index(n)
  PROVE  EndedInv'
<1>0. /\ UNCHANGED <<cfg, queue, pc, idx, from>>
      /\ ready' = [ready EXCEPT ![n] = ready[n] + 1] /\ ready[n] < Len(queue[n])
      /\ meta \in [Slots -> Desc]
      /\ \A v \in Nodes : ready[v] \in Nat /\ Len(queue[v]) \in Nat /\ from[v] \in Nodes /\ idx[v] \in Nat
      /\ ready \in [Nodes -> Nat]
  <2>1. /\ UNCHANGED <<cfg, queue, pc, idx, from>>
        /\ ready' = [ready EXCEPT ![n] = ready[n] + 1] /\ ready[n] < Len(queue[n])
    BY DEF Index, ReadyAfter, QueueHead, scanVars
  <2>2. meta \in [Slots -> Desc]
    BY DEF Types
  <2>3. ready \in [Nodes -> Nat] /\ queue \in [Nodes -> Seq(Nat)]
    BY DEF IInv, QueueInv
  <2>4. from \in [Nodes -> Nodes] /\ idx \in [Nodes -> Nat]
    BY DEF IInv, ClaimInv
  <2>5. \A v \in Nodes : ready[v] \in Nat /\ Len(queue[v]) \in Nat /\ from[v] \in Nodes /\ idx[v] \in Nat
    BY <2>3, <2>4
  <2>. QED
    BY <2>1, <2>2, <2>3, <2>5
<1>1. \A k \in Nodes : pc'[k] = "gate" => idx'[k] < ready'[from'[k]]
  <2>. SUFFICES ASSUME NEW k \in Nodes, pc[k] = "gate" PROVE idx[k] < ready'[from[k]]
    BY <1>0
  <2>1. idx[k] < ready[from[k]] /\ from[k] \in Nodes
    BY <1>0 DEF EndedInv
  <2>2. ready'[from[k]] \in {ready[from[k]], ready[from[k]] + 1} /\ ready[from[k]] \in Nat
    BY <1>0, <2>1
  <2>. QED
    BY <1>0, <2>1, <2>2
<1>2. ASSUME ~cfg.exact, NEW v \in Nodes, NEW i \in 1..ready'[v],
             meta'[Slot(queue[v][i])].major = queue[v][i]
      PROVE  meta'[Slot(queue[v][i])].end # Unset
  <2>1. PICK r \in 1..Len(queue[n]) : r = ready[n] + 1
    BY <1>0
  <2>2. PICK m \in 0..NData : m = queue[n][r]
    BY <2>1, QueuedChunk
  <2>3. PICK w \in Slots : w = Slot(m)
    BY SlotIn
  <2>4. Boundary(m) # Unset /\ meta' = [meta EXCEPT ![w].end = Boundary(m)]
    BY <1>2, <2>1, <2>2, <2>3 DEF Index
  <2>5. PICK bd : bd = Boundary(m) /\ bd # Unset
    BY <2>4
  <2>6. /\ meta'[w].end = bd
        /\ \A s \in Slots : meta'[s].major = meta[s].major /\ (s # w => meta'[s].end = meta[s].end)
    BY <1>0, <2>4, <2>5 DEF Desc
  <2>7. CASE v = n /\ i = r
    BY <2>1, <2>2, <2>3, <2>5, <2>6, <2>7
  <2>8. CASE ~(v = n /\ i = r)
    <3>1. i \in 1..ready[v]
      <4>1. CASE v = n
        <5>1. ready'[n] = ready[n] + 1 /\ ready[n] \in Nat /\ i # ready[n] + 1
          BY <1>0, <2>1, <2>8, <4>1
        <5>. QED
          BY <4>1, <5>1
      <4>2. CASE v # n
        BY <1>0, <4>2
      <4>. QED
        BY <4>1, <4>2
    <3>2. PICK q \in 0..NData : q = queue[v][i] /\ Slot(q) \in Slots
      BY <3>1, ReadySlot
    <3>3. meta[Slot(q)].major = q
      BY <1>2, <2>6, <3>2
    <3>4. meta[Slot(q)].end # Unset
      BY <1>2, <3>1, <3>2, <3>3 DEF EndedInv
    <3>. QED
      BY <2>5, <2>6, <3>2, <3>4
  <2>. QED
    BY <2>7, <2>8
<1>. QED
  BY <1>0, <1>1, <1>2 DEF EndedInv

LEMMA EndedScanner ==
  ASSUME IInv, FreshInv, EndedInv, NEW n \in Nodes, Scanner(n)
  PROVE  EndedInv'
<1>0. /\ Types /\ meta \in [Slots -> Desc] /\ Slot(held[n]) \in Slots
      /\ pc \in [Nodes -> {"top", "claim", "wait", "gate", "handoff", "done"}]
      /\ from \in [Nodes -> Nodes] /\ idx \in [Nodes -> Nat]
  BY PrevTypes DEF FreshInv, Types, IInv, ClaimInv
<1>1. CASE Own(n) \/ Steal(n) \/ Finish(n) \/ Claim(n) \/ Overran(n)
  <2>1. UNCHANGED <<cfg, queue, ready, meta>>
    BY <1>1 DEF Own, Steal, Finish, Claim, Overran, ClaimFrom, notClaim
  <2>2. /\ \E p \in {"top", "claim", "wait", "done"} : pc' = [pc EXCEPT ![n] = p]
        /\ UNCHANGED from \/ \E v : from' = [from EXCEPT ![n] = v]
        /\ UNCHANGED idx \/ \E v : idx' = [idx EXCEPT ![n] = v]
    BY <1>1 DEF Own, Steal, Finish, Claim, Overran, ClaimFrom
  <2>3. \A k \in Nodes : pc'[k] = "gate" => pc[k] = "gate" /\ from'[k] = from[k] /\ idx'[k] = idx[k]
    <3>. SUFFICES ASSUME NEW k \in Nodes, pc'[k] = "gate"
         PROVE  pc[k] = "gate" /\ from'[k] = from[k] /\ idx'[k] = idx[k]
      OBVIOUS
    <3>1. k # n /\ pc[k] = "gate"
      BY <1>0, <2>2
    <3>. QED
      BY <1>0, <2>2, <3>1
  <2>. QED
    BY <1>0, <2>1, <2>3, EndedFrame DEF EndedInv
<1>2. CASE Snapshot(n)
  <2>1. /\ UNCHANGED <<cfg, queue, ready, meta, from, idx>> /\ pc' = [pc EXCEPT ![n] = "gate"]
        /\ ready[from[n]] > idx[n]
    BY <1>2 DEF Snapshot, notClaim
  <2>2. idx[n] < ready[from[n]]
    BY <1>0, <2>1 DEF IInv, QueueInv
  <2>3. \A k \in Nodes : pc'[k] = "gate" => idx[k] < ready[from[k]]
    BY <1>0, <2>1, <2>2 DEF EndedInv
  <2>. QED
    BY <1>0, <2>1, <2>3, EndedFrame
<1>3. CASE Scans(n)
  <2>1. /\ UNCHANGED <<cfg, queue, ready, meta, from, idx>>
        /\ \E p \in {"top", "handoff"} : pc' = [pc EXCEPT ![n] = p]
    BY <1>3, ScansFrame
  <2>2. \A k \in Nodes : pc'[k] = "gate" => pc[k] = "gate"
    BY <1>0, <2>1
  <2>. QED
    BY <1>0, <2>1, <2>2, EndedFrame DEF EndedInv
<1>4. CASE Handoff(n)
  <2>1. /\ UNCHANGED <<cfg, queue, ready, from, idx>>
        /\ pc' = [pc EXCEPT ![n] = IF hand[n].last THEN "done" ELSE "top"]
    BY <1>4 DEF Handoff, notChunk, queueVars
  <2>2. \A k \in Nodes : pc'[k] = "gate" => pc[k] = "gate"
    BY <1>0, <2>1
  <2>3. \A s \in Slots : meta'[s].major = meta[s].major /\ (~cfg.exact => meta'[s].end = meta[s].end)
    <3>1. meta' = [meta EXCEPT ![Slot(held[n])].cum = hand[n].cum,
                               ![Slot(held[n])].end = IF cfg.exact THEN hand[n].end ELSE @]
      BY <1>4 DEF Handoff
    <3>. QED
      BY <1>0, <3>1 DEF Desc
  <2>. QED
    BY <1>0, <2>1, <2>2, <2>3, EndedFrame DEF EndedInv
<1>. QED
  BY <1>1, <1>2, <1>3, <1>4 DEF Scanner, Scans

-------------------------------------------------------------------------------
(* The chain: with -n or -L a chunk waits for the one before it.           *)
(*                                                                         *)
(* Until the limit is met the closed chunks are the first ones, and one    *)
(* scanner at most is between closing the last of them and handing on.     *)
(* When it is met, what follows is passed over.                            *)

Chained == cfg.exact \/ cfg.limit > 0
Handing(n) == pc[n] = "handoff"

(* A scanner that hands on before the limit is met finds the descriptor    *)
(* still that of its chunk.                                                *)
InTime == \A n \in Nodes : Handing(n) /\ cutoff = 0 => meta[Slot(held[n])].major = held[n]

(* What is closed, the counts that are handed on, and the scanners that    *)
(* are about to hand one on.                                               *)
ChainInv ==
  Chained /\ ~stale =>
    /\ \A m \in 0..NData : m < cutoff => closed[m] # 0
    /\ cutoff = 0 => \A m, k \in 0..NData : k <= m /\ closed[m] # 0 => closed[k] # 0
    /\ cutoff = 0 => \A s \in Slots : meta[s].cum # Unset =>
         closed[meta[s].major] # 0 /\ \A n \in Nodes : Handing(n) => held[n] # meta[s].major
    /\ \A n \in Nodes : Handing(n) =>
         /\ closed[held[n]] # 0
         /\ cutoff = 0 => \A m \in 0..NData : held[n] < m => closed[m] = 0
         /\ cutoff <= held[n] + 1
    /\ \A n, k \in Nodes : Handing(n) /\ Handing(k) /\ held[n] = held[k] => n = k

(* -n: c is the running count at the end of chunk m, the limit at most.    *)
Count(m, c) == m # NData => \A e \in 0..N : IsEnd(m, e) => c = LeastOf(cfg.limit, Ord(e))

CountInv ==
  ~cfg.exact /\ cfg.limit > 0 /\ ~stale =>
    /\ cutoff # 0 => Count(cutoff - 1, cfg.limit)
    /\ \A s \in Slots : meta[s].cum # Unset => Count(meta[s].major, meta[s].cum)
    /\ \A n \in Nodes : Handing(n) => Count(held[n], hand[n].cum)

(* Without -L what is wanted of a closed chunk is out, and nothing else.   *)
OutsInv ==
  ~cfg.exact /\ ~stale =>
    /\ \A b \in 0..N-1 : copies[b] # 0 => b \in Wanted
    /\ \A m \in 0..NData : closed[m] # 0 => \A b \in Wanted : Covers(m, b) => copies[b] # 0

(* -L: c lines before x, and the open batch starts at e; or the limit was  *)
(* met before x.                                                           *)
Full(e) == \A b \in 0..N-1 : b < e => copies[b] # 0
Open(x, c, e) ==
  /\ c = Ord(x) /\ (cfg.limit = 0 \/ c < cfg.limit)
  /\ e <= x /\ Ord(e) % BatchLines = 0 /\ Ord(x) - Ord(e) < BatchLines /\ Full(e)
Over(x, c) == cfg.limit > 0 /\ c = cfg.limit /\ Ord(x) >= cfg.limit /\ cutoff # 0
Start(m, c, e) == m # NData => Open(RawEnd(m), c, e) \/ Over(RawEnd(m), c)

ExactInv ==
  cfg.exact /\ ~stale =>
    /\ cutoff # 0 => Ord(RawEnd(cutoff - 1)) >= cfg.limit
    /\ cutoff # 0 \/ closed[NData] # 0 => \A b \in Wanted : copies[b] # 0
    /\ \A b \in 0..N-1 : copies[b] # 0 => b \in Wanted
    /\ \A s \in Slots : meta[s].cum # Unset => Start(meta[s].major, meta[s].cum, meta[s].end)
    /\ \A n \in Nodes : Handing(n) => Start(held[n], hand[n].cum, hand[n].end)

LineInv == ChainInv /\ CountInv /\ OutsInv /\ ExactInv /\ BatchesExact

LEMMA LineInit == Init => EndedInv /\ OwnInv /\ LineInv
<1>. SUFFICES ASSUME Init PROVE EndedInv /\ OwnInv /\ LineInv
  OBVIOUS
<1>0. NData \in Nat /\ N \in Nat
  BY ChunksCover, Sizes
<1>1. /\ cutoff = 0 /\ batches = {} /\ \A n \in Nodes : pc[n] = "top" /\ ready[n] = 0
      /\ \A s \in Slots : meta[s].cum = Unset
      /\ \A m \in 0..NData : closed[m] = 0
      /\ \A b \in 0..N-1 : copies[b] = 0
  BY DEF Init, Slots
<1>2. ~(\E m \in 0..NData : m < 0)
  BY <1>0
<1>3. ChainInv
  BY <1>1, <1>2 DEF ChainInv, Handing
<1>4. CountInv
  BY <1>1 DEF CountInv, Handing
<1>5. OutsInv
  BY <1>1 DEF OutsInv
<1>6. ExactInv
  <2>1. closed[NData] = 0
    BY <1>0, <1>1
  <2>. QED
    BY <1>1, <2>1 DEF ExactInv, Handing
<1>7. BatchesExact
  BY <1>1 DEF BatchesExact
<1>8. EndedInv /\ OwnInv
  BY <1>1 DEF EndedInv, OwnInv
<1>. QED
  BY <1>3, <1>4, <1>5, <1>6, <1>7, <1>8 DEF LineInv

(* Steps that neither close a chunk nor hand on.                           *)
LEMMA QuietFacts ==
  ASSUME IInv, FreshInv, NEW n \in Nodes,
         \/ Ingest \/ Index(n)
         \/ Own(n) \/ Steal(n) \/ Finish(n) \/ Claim(n) \/ Overran(n) \/ Snapshot(n)
  PROVE  /\ UNCHANGED <<cfg, copies, closed, batches, stale, cutoff>>
         /\ \A k \in Nodes : Handing(k)' => Handing(k) /\ held'[k] = held[k] /\ hand'[k] = hand[k]
         /\ \A s \in Slots : meta'[s].cum # Unset =>
              /\ meta'[s].cum = meta[s].cum /\ meta'[s].major = meta[s].major
              /\ cfg.exact => meta'[s].end = meta[s].end
<1>1. UNCHANGED <<cfg, copies, closed, batches, stale, cutoff>>
  BY DEF Ingest, ChooseTarget, Publish, PublishEof, IngestStops, Index, Own, Steal,
         Finish, Claim, Overran, Snapshot, ClaimFrom, notIngest, notClaim, scanVars, history
<1>2. /\ meta \in [Slots -> Desc] /\ held \in [Nodes -> 0..NData]
      /\ pc \in [Nodes -> {"top", "claim", "wait", "gate", "handoff", "done"}]
  BY DEF FreshInv, Types, IInv, ClaimInv
<1>3. \A k \in Nodes : Handing(k)' => Handing(k) /\ held'[k] = held[k] /\ hand'[k] = hand[k]
  <2>1. CASE Ingest \/ Index(n)
    <3>1. UNCHANGED <<pc, held, hand>>
      BY <2>1 DEF Ingest, ChooseTarget, Publish, PublishEof, IngestStops, Index, notIngest, scanVars
    <3>. QED
      BY <3>1 DEF Handing
  <2>2. CASE Own(n) \/ Steal(n) \/ Finish(n) \/ Claim(n) \/ Overran(n) \/ Snapshot(n)
    BY <2>2, ChoiceHands DEF Handing, IInv, FreshInv
  <2>. QED
    BY <2>1, <2>2
<1>4. ASSUME NEW s \in Slots, meta'[s].cum # Unset
      PROVE  /\ meta'[s].cum = meta[s].cum /\ meta'[s].major = meta[s].major
             /\ cfg.exact => meta'[s].end = meta[s].end
  <2>1. CASE Publish \/ PublishEof
    <3>1. PICK m, q : meta' = [meta EXCEPT ![Slot(m)] = [major |-> q, end |-> Unset, cum |-> Unset]]
      BY <2>1 DEF Publish, PublishEof, Enqueue
    <3>. QED
      BY <1>2, <1>4, <3>1
  <2>2. CASE Index(n)
    <3>1. UNCHANGED meta \/ (~cfg.exact /\ \E m, x : meta' = [meta EXCEPT ![Slot(m)].end = x])
      BY <2>2 DEF Index
    <3>2. CASE UNCHANGED meta
      BY <3>2
    <3>3. CASE ~cfg.exact /\ \E m, x : meta' = [meta EXCEPT ![Slot(m)].end = x]
      <4>1. PICK m, x : meta' = [meta EXCEPT ![Slot(m)].end = x]
        BY <3>3
      <4>2. meta'[s].cum = meta[s].cum /\ meta'[s].major = meta[s].major
        BY <1>2, <4>1 DEF Desc
      <4>. QED
        BY <3>3, <4>2
    <3>. QED
      BY <3>1, <3>2, <3>3
  <2>3. CASE ~(Publish \/ PublishEof \/ Index(n))
    <3>1. UNCHANGED meta
      BY <2>3 DEF Ingest, ChooseTarget, IngestStops, Own, Steal,
                  Finish, Claim, Overran, Snapshot, ClaimFrom, notClaim
    <3>. QED
      BY <3>1
  <2>. QED
    BY <2>1, <2>2, <2>3
<1>. QED
  BY <1>1, <1>3, <1>4

LEMMA QuietLine ==
  ASSUME LineInv, UNCHANGED <<cfg, copies, closed, batches, stale, cutoff>>,
         \A k \in Nodes : Handing(k)' => Handing(k) /\ held'[k] = held[k] /\ hand'[k] = hand[k],
         \A s \in Slots : meta'[s].cum # Unset =>
              /\ meta'[s].cum = meta[s].cum /\ meta'[s].major = meta[s].major
              /\ cfg.exact => meta'[s].end = meta[s].end
  PROVE  LineInv'
<1>0. ChainInv /\ CountInv /\ OutsInv /\ ExactInv /\ BatchesExact
  BY DEF LineInv
<1>1. ChainInv'
  BY <1>0 DEF ChainInv, Chained
<1>2. CountInv'
  BY <1>0 DEF CountInv, Count
<1>3. OutsInv' /\ BatchesExact'
  BY <1>0 DEF OutsInv, BatchesExact, Wanted, Lines, Covers, StartsAt, IsEnd
<1>4. ExactInv'
  <2>1. \A m, c, e : Start(m, c, e) => Start(m, c, e)'
    BY DEF Start, Open, Over, Full
  <2>2. Wanted' = Wanted
    BY DEF Wanted, Lines
  <2>. QED
    BY <1>0, <2>1, <2>2 DEF ExactInv
<1>. QED
  BY <1>1, <1>2, <1>3, <1>4 DEF LineInv

(* What a scanner reads when its descriptors were not recycled.            *)
LEMMA PrevSlot ==
  ASSUME FreshInv, NEW n \in Nodes, ~Recycled(n), held[n] # 0
  PROVE  /\ held[n] - 1 \in 0..NData /\ held[n] - 1 # NData /\ Slot(held[n] - 1) \in Slots
         /\ Prev(n) = meta[Slot(held[n] - 1)] /\ meta[Slot(held[n] - 1)].major = held[n] - 1
<1>1. held[n] \in 0..NData /\ NData \in Nat
  BY PrevTypes, ChunksCover
<1>2. held[n] > 0 /\ held[n] - 1 \in 0..NData /\ held[n] - 1 # NData
  BY <1>1
<1>. QED
  BY <1>2, PrevTypes DEF Prev, Recycled

(* A scanner that goes on before the limit is met is at the front: all     *)
(* before its chunk is closed and handed on, nothing after it is.          *)
LEMMA FrontLine ==
  ASSUME IInv, FreshInv, ChainInv, Chained, ~stale', cutoff = 0, NEW n \in Nodes, Scans(n),
         Prev(n).cum # Unset
  PROVE  /\ \A m \in 0..NData : m < held[n] => closed[m] # 0
         /\ \A m \in 0..NData : held[n] <= m => closed[m] = 0
         /\ \A k \in Nodes : ~Handing(k)
<1>0. /\ ~stale /\ ~Recycled(n) /\ NData \in Nat /\ Types
      /\ \A k \in Nodes : held[k] \in 0..NData
  BY ScansClose, ChunksCover DEF FreshInv, Types
<1>1. PICK h \in 0..NData : h = held[n] /\ closed[h] = 0
  BY <1>0, ScansClose
<1>2. \A m, k \in 0..NData : k <= m /\ closed[m] # 0 => closed[k] # 0
  BY <1>0 DEF ChainInv
<1>3. \A m \in 0..NData : h <= m => closed[m] = 0
  BY <1>1, <1>2
<1>4. h # 0 => /\ h - 1 \in 0..NData /\ closed[h - 1] # 0
               /\ \A k \in Nodes : Handing(k) => held[k] # h - 1
  BY <1>0, <1>1, PrevSlot DEF ChainInv
<1>5. \A m \in 0..NData : m < h => closed[m] # 0
  <2>. SUFFICES ASSUME NEW m \in 0..NData, m < h PROVE closed[m] # 0
    OBVIOUS
  <2>1. h # 0 /\ m <= h - 1
    BY <1>0
  <2>. QED
    BY <1>2, <1>4, <2>1
<1>6. ASSUME NEW k \in Nodes, Handing(k) PROVE FALSE
  <2>1. PICK g \in 0..NData : g = held[k] /\ closed[g] # 0
    BY <1>0, <1>6 DEF ChainInv
  <2>2. \A m \in 0..NData : g < m => closed[m] = 0
    BY <1>0, <1>6, <2>1 DEF ChainInv
  <2>3. g < h
    BY <1>0, <1>3, <2>1
  <2>4. h # 0 /\ g # h - 1
    BY <1>0, <1>4, <1>6, <2>1, <2>3
  <2>5. g < h - 1
    BY <1>0, <2>3, <2>4
  <2>. QED
    BY <1>4, <2>2, <2>4, <2>5
<1>. QED
  BY <1>1, <1>3, <1>5, <1>6

(* Who goes on, and who passes over.                                       *)
LEMMA WhoScans ==
  ASSUME IInv, FreshInv, EndInv, ChainInv, ExactInv, Chained, ~stale', NEW n \in Nodes, Scans(n)
  PROVE  /\ cutoff = 0 => (Scan(n) \/ ScanExact(n) \/ ScanExactEof(n)) /\ Prev(n).cum # Unset
         /\ cutoff # 0 => /\ SkipPast(n) \/ SkipExact(n)
                          /\ cutoff <= held[n] /\ cutoff' = cutoff /\ held[n] # 0
<1>0. /\ ~stale /\ ~Recycled(n) /\ NData \in Nat /\ cfg.limit \in Nat /\ cfg.exact \in BOOLEAN
      /\ cutoff \in 0..NData+1 /\ Types
  BY ScansClose, ChunksCover, Sizes DEF FreshInv, Types
<1>1. PICK h \in 0..NData : h = held[n] /\ closed[h] = 0
  BY <1>0, ScansClose
<1>2. CASE cutoff = 0
  <2>1. ~SkipPast(n)
    BY <1>2 DEF SkipPast, PastCutoff
  <2>2. ASSUME SkipExact(n) PROVE FALSE
    <3>1. cfg.exact /\ cfg.limit > 0 /\ Prev(n).cum >= cfg.limit /\ Prev(n).cum # Unset
      BY <2>2 DEF SkipExact, OverLimit, HandedOn
    <3>2. h # 0
      <4>1. h = 0 => Prev(n).cum = 0
        BY <1>1 DEF Prev
      <4>. QED
        BY <1>0, <3>1, <4>1
    <3>3. Start(h - 1, Prev(n).cum, Prev(n).end) /\ h - 1 # NData
      BY <1>0, <1>1, <3>1, <3>2, PrevSlot DEF ExactInv
    <3>4. Prev(n).cum < cfg.limit
      <4>1. cfg.limit # 0
        BY <1>0, <3>1
      <4>. QED
        BY <1>2, <3>3, <4>1 DEF Start, Open, Over
    <3>5. Prev(n).cum \in Nat
      BY <3>1, PrevTypes
    <3>. QED
      BY <1>0, <3>1, <3>4, <3>5
  <2>3. Scan(n) => Prev(n).cum # Unset
    <3>1. Scan(n) => cfg.limit # 0
      BY <1>0 DEF Scan, Chained
    <3>. QED
      BY <3>1 DEF Scan
  <2>4. ScanExact(n) \/ ScanExactEof(n) => Prev(n).cum # Unset
    BY DEF ScanExact, ScanExactEof, HandedOn
  <2>. QED
    BY <1>2, <2>1, <2>2, <2>3, <2>4 DEF Scans
<1>3. CASE cutoff # 0
  <2>1. cfg.limit > 0 /\ cutoff <= h /\ h # 0
    <3>1. cfg.limit > 0
      BY <1>3 DEF EndInv
    <3>2. ~(h < cutoff)
      BY <1>0, <1>1 DEF ChainInv
    <3>. QED
      BY <1>0, <1>3, <3>1, <3>2
  <2>2. ~Scan(n)
    <3>1. PastCutoff(n)
      BY <1>0, <1>1, <1>3, <2>1 DEF PastCutoff
    <3>2. cfg.limit # 0
      BY <1>0, <2>1
    <3>. QED
      BY <3>1, <3>2 DEF Scan
  <2>3. ASSUME ScanExact(n) \/ ScanExactEof(n) PROVE FALSE
    <3>1. cfg.exact /\ ~OverLimit(n) /\ Prev(n).cum # Unset
      BY <2>3 DEF ScanExact, ScanExactEof, HandedOn
    <3>2. Start(h - 1, Prev(n).cum, Prev(n).end) /\ h - 1 # NData /\ h - 1 \in 0..NData
      BY <1>0, <1>1, <2>1, <3>1, PrevSlot DEF ExactInv
    <3>3. Prev(n).cum \in Nat /\ Prev(n).cum < cfg.limit
      <4>1. Prev(n).cum \in Nat
        BY <3>1, PrevTypes
      <4>. QED
        BY <1>0, <2>1, <3>1, <4>1 DEF OverLimit
    <3>4. Prev(n).cum = Ord(RawEnd(h - 1))
      <4>1. Prev(n).cum # cfg.limit
        BY <1>0, <3>3
      <4>. QED
        BY <3>2, <4>1 DEF Start, Open, Over
    <3>5. Ord(RawEnd(cutoff - 1)) >= cfg.limit
      BY <1>0, <1>3, <3>1 DEF ExactInv
    <3>6. Ord(RawEnd(cutoff - 1)) <= Ord(RawEnd(h - 1))
      <4>1. cutoff - 1 \in 0..NData /\ cutoff - 1 <= h - 1
        BY <1>0, <1>3, <2>1
      <4>2. /\ RawEnd(cutoff - 1) \in 0..N /\ RawEnd(h - 1) \in 0..N /\ N \in Nat
            /\ RawEnd(cutoff - 1) <= RawEnd(h - 1)
        BY <3>2, <4>1, ChunkEnds, Sizes
      <4>3. RawEnd(cutoff - 1) \in Nat /\ RawEnd(h - 1) \in Nat
        BY <4>2
      <4>. QED
        BY <4>2, <4>3, OrdDiff
    <3>7. Ord(RawEnd(cutoff - 1)) \in Nat /\ Ord(RawEnd(h - 1)) \in Nat
      BY OrdNat
    <3>. QED
      BY <1>0, <3>3, <3>4, <3>5, <3>6, <3>7
  <2>4. SkipPast(n) \/ SkipExact(n)
    BY <2>2, <2>3 DEF Scans
  <2>. QED
    BY <1>1, <1>3, <2>1, <2>4 DEF SkipPast, SkipExact
<1>. QED
  BY <1>2, <1>3

(* The scanner's own part changes, and that of no other.                   *)
LEMMA ScansLocal ==
  ASSUME IInv, FreshInv, NEW n \in Nodes, Scans(n)
  PROVE  /\ UNCHANGED <<cfg, meta, held>>
         /\ \A k \in Nodes : k # n => Handing(k)' = Handing(k) /\ hand'[k] = hand[k]
         /\ copies \in [0..N-1 -> Nat] /\ copies' \in [0..N-1 -> Nat]
         /\ \A b \in 0..N-1 : copies[b] # 0 => copies'[b] # 0
<1>0. /\ pc \in [Nodes -> {"top", "claim", "wait", "gate", "handoff", "done"}]
      /\ hand \in [Nodes -> [end : 0..N, cum : Nat, last : BOOLEAN]]
      /\ copies \in [0..N-1 -> Nat]
  BY DEF FreshInv, Types, IInv, ClaimInv
<1>1. UNCHANGED <<cfg, meta, held>> /\ \E p \in {"top", "handoff"} : pc' = [pc EXCEPT ![n] = p]
  BY ScansFrame
<1>2. UNCHANGED hand \/ \E x : hand' = [hand EXCEPT ![n] = x]
  BY DEF Scans, SkipPast, Scan, ScanExact, ScanExactEof, SkipExact, ToHandoff
<1>3. PICK s, e : Flush(n, s, e)
  BY ScansFrame
<1>4. copies' \in [0..N-1 -> Nat]
  BY <1>0, <1>3, FlushTypes
<1>5. \A b \in 0..N-1 : copies[b] \in Nat /\ copies'[b] = copies[b] + (IF s <= b /\ b < e THEN 1 ELSE 0)
  BY <1>0, <1>3 DEF Flush
<1>6. \A b \in 0..N-1 : copies[b] # 0 => copies'[b] # 0
  BY <1>5
<1>7. \A k \in Nodes : k # n => Handing(k)' = Handing(k)
  BY <1>0, <1>1 DEF Handing
<1>8. \A k \in Nodes : k # n => hand'[k] = hand[k]
  BY <1>0, <1>2
<1>. QED
  BY <1>0, <1>1, <1>4, <1>6, <1>7, <1>8

LEMMA ScansChain ==
  ASSUME IInv, FreshInv, EndInv, LineInv, NEW n \in Nodes, Scans(n)
  PROVE  ChainInv'
<1>. SUFFICES ASSUME ~stale', Chained
     PROVE  ChainInv!2'
  BY ScansFrame DEF ChainInv, Chained
<1>0. /\ ChainInv /\ ExactInv /\ ~stale /\ NData \in Nat /\ snap[n] = held[n]
      /\ cutoff \in 0..NData+1 /\ meta' = meta /\ held' = held /\ Types
      /\ meta \in [Slots -> Desc] /\ \A k \in Nodes : held[k] \in 0..NData
  BY ScansClose, ScansFrame, ChunksCover DEF FreshInv, Types, LineInv
<1>1. PICK h \in 0..NData : h = held[n] /\ closed[h] = 0 /\ closed'[h] # 0
      /\ \A m \in 0..NData : m # h => closed'[m] = closed[m]
  BY <1>0, ScansClose
<1>2. \A k \in Nodes : k # n => (Handing(k)' <=> Handing(k))
  BY ScansLocal
<1>3. CASE cutoff = 0
  <2>1. /\ \A m \in 0..NData : m < h => closed[m] # 0
        /\ \A m \in 0..NData : h <= m => closed[m] = 0
        /\ \A k \in Nodes : ~Handing(k)
    BY <1>0, <1>1, <1>3, WhoScans, FrontLine
  <2>2. cutoff' = 0 \/ cutoff' = h + 1
    BY <1>0, <1>1, <1>3, LimitMet
  <2>3. /\ \A m \in 0..NData : m <= h => closed'[m] # 0
        /\ \A m \in 0..NData : h < m => closed'[m] = 0
    BY <1>0, <1>1, <2>1
  <2>4. \A k \in Nodes : Handing(k)' => k = n
    BY <1>2, <2>1
  <2>5. \A m \in 0..NData : m < cutoff' => closed'[m] # 0
    BY <1>0, <2>2, <2>3
  <2>6. \A m, k \in 0..NData : k <= m /\ closed'[m] # 0 => closed'[k] # 0
    <3>. SUFFICES ASSUME NEW m \in 0..NData, NEW k \in 0..NData, k <= m, closed'[m] # 0
         PROVE  closed'[k] # 0
      OBVIOUS
    <3>1. ~(h < m)
      BY <2>3
    <3>. QED
      BY <1>0, <2>3, <3>1
  <2>7. \A s \in Slots : meta'[s].cum # Unset =>
          closed'[meta'[s].major] # 0 /\ \A k \in Nodes : Handing(k)' => held'[k] # meta'[s].major
    <3>. SUFFICES ASSUME NEW s \in Slots, meta[s].cum # Unset
         PROVE  closed'[meta[s].major] # 0 /\ \A k \in Nodes : Handing(k)' => held[k] # meta[s].major
      BY <1>0
    <3>1. closed[meta[s].major] # 0 /\ meta[s].major \in 0..NData
      BY <1>0, <1>3 DEF ChainInv, Desc
    <3>2. meta[s].major # h
      BY <1>1, <3>1
    <3>. QED
      BY <1>1, <2>4, <3>1, <3>2
  <2>8. \A k \in Nodes : Handing(k)' =>
          /\ closed'[held'[k]] # 0
          /\ \A m \in 0..NData : held'[k] < m => closed'[m] = 0
          /\ cutoff' <= held'[k] + 1
    <3>1. cutoff' <= h + 1
      BY <1>0, <2>2
    <3>. QED
      BY <1>0, <1>1, <2>3, <2>4, <3>1
  <2>. QED
    BY <2>4, <2>5, <2>6, <2>7, <2>8
<1>4. CASE cutoff # 0
  <2>1. cutoff' = cutoff /\ cutoff <= h
    BY <1>0, <1>1, <1>4, WhoScans
  <2>2. \A m \in 0..NData : closed[m] # 0 => closed'[m] # 0
    BY <1>1
  <2>3. \A m \in 0..NData : m < cutoff' => closed'[m] # 0
    BY <1>0, <2>1, <2>2 DEF ChainInv
  <2>4. \A k \in Nodes : Handing(k) => /\ closed[held[k]] # 0 /\ held[k] # h
                                      /\ cutoff <= held[k] + 1
    BY <1>0, <1>1 DEF ChainInv
  <2>5. \A k \in Nodes : Handing(k)' => closed'[held'[k]] # 0 /\ cutoff' <= held'[k] + 1
    <3>1. cutoff <= h + 1
      BY <1>0, <2>1
    <3>. QED
      BY <1>0, <1>1, <1>2, <2>1, <2>2, <2>4, <3>1
  <2>6. \A j, k \in Nodes : Handing(j)' /\ Handing(k)' /\ held'[j] = held'[k] => j = k
    BY <1>0, <1>1, <1>2, <2>4 DEF ChainInv
  <2>. QED
    BY <1>4, <2>1, <2>3, <2>5, <2>6
<1>. QED
  BY <1>3, <1>4

-------------------------------------------------------------------------------
(* Without -L: what is counted, and what goes out.                         *)

LEMMA CountLater ==
  ASSUME NEW j \in 0..NData, NEW m \in 0..NData, j <= m, cfg.limit \in Nat, Count(j, cfg.limit)
  PROVE  Count(m, cfg.limit)
<1>. SUFFICES ASSUME m # NData, NEW e \in 0..N, IsEnd(m, e)
     PROVE  cfg.limit = LeastOf(cfg.limit, Ord(e))
  BY DEF Count
<1>1. j # NData /\ N \in Nat
  BY ChunksCover, Sizes
<1>2. PICK d \in 0..N : IsEnd(j, d)
  BY EndExists
<1>3. cfg.limit = LeastOf(cfg.limit, Ord(d))
  BY <1>1, <1>2 DEF Count
<1>4. d <= e
  BY <1>2, EndsAscend
<1>5. d \in Nat /\ e \in Nat
  BY <1>1
<1>6. Ord(d) <= Ord(e) /\ Ord(d) \in Nat /\ Ord(e) \in Nat
  BY <1>4, <1>5, OrdDiff, OrdNat
<1>. QED
  BY <1>3, <1>6 DEF LeastOf

LEMMA CoversAt ==
  ASSUME NEW m \in 0..NData, NEW s \in 0..N, NEW e \in 0..N, StartsAt(m, s), IsEnd(m, e),
         NEW b \in 0..N-1, Covers(m, b)
  PROVE  s <= b /\ b < e
<1>1. PICK t \in 0..N : StartsAt(m, t) /\ \E f \in 0..N : IsEnd(m, f) /\ t <= b /\ b < f
  BY DEF Covers
<1>2. PICK f \in 0..N : IsEnd(m, f) /\ t <= b /\ b < f
  BY <1>1
<1>3. f = e
  BY <1>2, EndUnique
<1>4. t = s
  <2>1. CASE m = 0
    BY <1>1, <2>1 DEF StartsAt
  <2>2. CASE m # 0
    <3>1. m - 1 \in 0..NData
      BY <2>2, ChunksCover
    <3>. QED
      BY <1>1, <2>2, <3>1, EndUnique DEF StartsAt
  <2>. QED
    BY <2>1, <2>2
<1>. QED
  BY <1>2, <1>3, <1>4

(* A scanner takes from the end of the chunk before to that of its own.    *)
LEMMA ScanEnds ==
  ASSUME IInv, FreshInv, EndsInv, OwnInv, NEW n \in Nodes, Scan(n), ~Recycled(n)
  PROVE  /\ Prev(n).end \in 0..N /\ StartsAt(held[n], Prev(n).end)
         /\ hand[n].end \in 0..N
         /\ IsEnd(held[n], hand[n].end) /\ Prev(n).end <= hand[n].end
<1>0. /\ N \in Nat /\ NData \in Nat /\ pc[n] = "gate" /\ ~cfg.exact /\ Prev(n).end # Unset
      /\ Types
  BY Sizes, ChunksCover DEF Scan, Waiting, FreshInv
<1>1. PICK h \in 0..NData : h = held[n]
  BY PrevTypes
<1>2. Prev(n).end \in 0..N
  BY <1>0, PrevTypes DEF Unset
<1>5. hand[n].end \in 0..N /\ IsEnd(h, hand[n].end)
  <2>1. snap[n] = held[n]
    BY DEF Recycled
  <2>. QED
    BY <1>0, <1>1, <2>1 DEF OwnInv, IsEnd
<1>6. StartsAt(h, Prev(n).end) /\ Prev(n).end <= hand[n].end
  <2>1. CASE h = 0
    BY <1>0, <1>1, <1>5, <2>1 DEF StartsAt, Prev
  <2>2. CASE h # 0
    <3>1. /\ h - 1 \in 0..NData /\ Slot(h - 1) \in Slots /\ meta[Slot(h - 1)].major = h - 1
          /\ Prev(n) = meta[Slot(h - 1)]
      BY <1>1, <2>2, PrevSlot
    <3>2. IsEnd(h - 1, Prev(n).end)
      BY <1>0, <3>1 DEF EndsInv
    <3>3. h - 1 <= h
      BY <1>0
    <3>. QED
      BY <1>5, <2>2, <3>1, <3>2, <3>3, EndsAscend DEF StartsAt
  <2>. QED
    BY <2>1, <2>2
<1>. QED
  BY <1>1, <1>2, <1>5, <1>6

(* The lines a scanner takes of its chunk are those before the limit, and  *)
(* the count it hands on is that of its end.                               *)
LEMMA Takes ==
  ASSUME NEW L \in Nat, L > 0, NEW s \in 0..N, NEW e \in 0..N, s <= e,
         NEW c, c = LeastOf(L, Ord(s)), NEW g, g = (IF L > c THEN L - c ELSE 0),
         NEW t, t = LeastOf(LineCount(s, e), g)
  PROVE  /\ \A b \in 0..N-1 : s <= b /\ b < EndOfLines(s, e, t) => b < e /\ Ord(b) < L
         /\ \A b \in 0..N-1 : s <= b /\ b < e /\ Ord(b) < L => b < EndOfLines(s, e, t)
         /\ LineCount(s, e) = Ord(e) - Ord(s) =>
              /\ c + t = LeastOf(L, Ord(e))
              /\ g > 0 /\ LineCount(s, e) >= g => L <= Ord(e)
<1>0. /\ N \in Nat /\ s \in Nat /\ e \in Nat /\ LineCount(s, e) \in Nat
      /\ Ord(s) \in Nat /\ Ord(e) \in Nat /\ Ord(s) <= Ord(e)
  BY Sizes, LineCountNat, OrdNat, OrdDiff
<1>1. c \in Nat /\ g \in Nat /\ t \in Nat /\ t <= LineCount(s, e) /\ t <= g
      /\ c + g = L /\ (Ord(s) < L => c = Ord(s)) /\ (~(Ord(s) < L) => g = 0)
      /\ (LineCount(s, e) >= g => t = g) /\ (~(LineCount(s, e) >= g) => t = LineCount(s, e))
  BY <1>0 DEF LeastOf
<1>2. EndOfLines(s, e, t) \in Nat /\ (EndOfLines(s, e, t) = s \/ EndOfLines(s, e, t) <= e)
  BY <1>1, LinesEnd
<1>3. ASSUME NEW b \in 0..N-1, s <= b, b < e
      PROVE  b < EndOfLines(s, e, t) <=> Ord(b) < L
  <2>1. b \in Nat
    BY <1>0
  <2>2. /\ b < EndOfLines(s, e, t) <=> Ord(b) - Ord(s) < t
        /\ Ord(b) - Ord(s) < LineCount(s, e)
    BY <1>1, <1>3, <2>1, InLines
  <2>3. Ord(b) \in Nat /\ Ord(s) <= Ord(b)
    BY <1>0, <1>3, <2>1, OrdNat, OrdDiff
  <2>4. Ord(b) - Ord(s) < t <=> Ord(b) < L
    BY ONLY <1>0, <1>1, <2>2, <2>3, L \in Nat
  <2>. QED
    BY <2>2, <2>4
<1>4. ASSUME NEW b \in 0..N-1, s <= b, b < EndOfLines(s, e, t)
      PROVE  b < e /\ Ord(b) < L
  <2>1. b < e
    BY <1>0, <1>2, <1>4
  <2>. QED
    BY <1>3, <1>4, <2>1
<1>5. ASSUME LineCount(s, e) = Ord(e) - Ord(s)
      PROVE  /\ c + t = LeastOf(L, Ord(e))
             /\ g > 0 /\ LineCount(s, e) >= g => L <= Ord(e)
  BY ONLY <1>0, <1>1, <1>5, L \in Nat, L > 0 DEF LeastOf
<1>. QED
  BY <1>3, <1>4, <1>5

(* What scanning or passing over a chunk does to the counts.               *)
LEMMA ScansCount ==
  ASSUME IInv, FreshInv, EndsInv, OwnInv, EndInv, LineInv, NEW n \in Nodes, Scans(n)
  PROVE  CountInv'
<1>. SUFFICES ASSUME ~stale', ~cfg.exact, cfg.limit > 0
     PROVE  CountInv!2'
  BY ScansFrame DEF CountInv
<1>0. /\ ChainInv /\ CountInv /\ ExactInv /\ Chained /\ ~stale /\ ~Recycled(n) /\ snap[n] = held[n]
      /\ cutoff \in 0..NData+1 /\ NData \in Nat /\ cfg.limit \in Nat /\ N \in Nat
      /\ hand \in [Nodes -> [end : 0..N, cum : Nat, last : BOOLEAN]]
      /\ UNCHANGED <<cfg, meta, held>>
  BY ScansClose, ScansFrame, ChunksCover, Sizes DEF FreshInv, Types, LineInv, Chained
<1>1. PICK h \in 0..NData : h = held[n]
  BY PrevTypes
<1>2. \A m, c : Count(m, c)' = Count(m, c)
  BY <1>0 DEF Count
<1>3. \A s \in Slots : meta'[s].cum # Unset => Count(meta'[s].major, meta'[s].cum)
  BY <1>0 DEF CountInv
<1>4. \A k \in Nodes : k # n /\ Handing(k)' => Count(held[k], hand'[k].cum)
  BY <1>0, ScansLocal DEF CountInv
<1>5. (cutoff' # 0 => Count(cutoff' - 1, cfg.limit)) /\ (Handing(n)' => Count(h, hand'[n].cum))
  <2>1. CASE cutoff # 0
    <3>1. cutoff' = cutoff /\ cutoff <= h /\ (SkipPast(n) \/ SkipExact(n)) /\ cutoff - 1 \in 0..NData
      BY <1>0, <1>1, <2>1, WhoScans
    <3>2. Count(cutoff - 1, cfg.limit) /\ cutoff - 1 <= h
      BY <1>0, <2>1, <3>1 DEF CountInv
    <3>3. hand'[n].cum = cfg.limit
      BY <1>0, <3>1 DEF SkipPast, SkipExact, ToHandoff
    <3>. QED
      BY <1>0, <3>1, <3>2, <3>3, CountLater
  <2>2. CASE cutoff = 0
    <3>1. Scan(n) /\ Prev(n).cum # Unset /\ cfg.limit # 0
      <4>1. (Scan(n) \/ ScanExact(n) \/ ScanExactEof(n)) /\ Prev(n).cum # Unset
        BY <1>0, <2>2, WhoScans DEF LineInv
      <4>2. ~ScanExact(n) /\ ~ScanExactEof(n)
        BY DEF ScanExact, ScanExactEof
      <4>3. cfg.limit # 0
        BY <1>0
      <4>. QED
        BY <4>1, <4>2, <4>3
    <3> DEFINE s == Prev(n).end
               e == hand[n].end
               c == Prev(n).cum
               lines == LineCount(s, e)
               t == LeastOf(lines, Budget(n))
               met == Budget(n) > 0 /\ s < e /\ lines >= Budget(n)
    <3>2. s \in 0..N /\ e \in 0..N /\ s <= e /\ StartsAt(h, s) /\ IsEnd(h, e)
      BY <1>0, <1>1, <3>1, ScanEnds
    <3>3. c = LeastOf(cfg.limit, Ord(s))
      <4>1. CASE h = 0
        <5>1. s = 0 /\ c = 0
          BY <1>1, <4>1 DEF Prev
        <5>. QED
          BY <1>0, <5>1, OrdZero DEF LeastOf
      <4>2. CASE h # 0
        <5>1. /\ h - 1 # NData /\ Slot(h - 1) \in Slots /\ Prev(n) = meta[Slot(h - 1)]
              /\ meta[Slot(h - 1)].major = h - 1
          BY <1>0, <1>1, <4>2, PrevSlot
        <5>2. Count(h - 1, c)
          BY <1>0, <3>1, <5>1 DEF CountInv
        <5>. QED
          BY <3>2, <4>2, <5>1, <5>2 DEF Count, StartsAt
      <4>. QED
        BY <4>1, <4>2
    <3>4. /\ hand'[n].cum = c + t
          /\ cutoff' = IF met THEN snap[n] + 1 ELSE cutoff
      BY <1>0, <3>1 DEF Scan, ToHandoff
    <3>5. Budget(n) = IF cfg.limit > c THEN cfg.limit - c ELSE 0
      BY DEF Budget
    <3>6. ASSUME h # NData
          PROVE  /\ c + t = LeastOf(cfg.limit, Ord(e))
                 /\ met => cfg.limit <= Ord(e)
      <4>1. lines = Ord(e) - Ord(s)
        BY <3>2, <3>6, LinesOfChunk
      <4>. QED
        BY <1>0, <3>2, <3>3, <3>5, <4>1, Takes
    <3>7. Count(h, c + t)
      <4>. SUFFICES ASSUME h # NData, NEW f \in 0..N, IsEnd(h, f) PROVE c + t = LeastOf(cfg.limit, Ord(f))
        BY DEF Count
      <4>1. f = e
        BY <3>2, EndUnique
      <4>. QED
        BY <3>6, <4>1
    <3>8. met => Count(h, cfg.limit)
      <4>. SUFFICES ASSUME met, h # NData, NEW f \in 0..N, IsEnd(h, f)
           PROVE  cfg.limit = LeastOf(cfg.limit, Ord(f))
        BY DEF Count
      <4>1. f = e
        BY <3>2, EndUnique
      <4>2. cfg.limit <= Ord(f) /\ Ord(f) \in Nat
        BY <3>6, <4>1, OrdNat
      <4>. QED
        BY <1>0, <4>2 DEF LeastOf
    <3>9. cutoff' # 0 => met /\ cutoff' - 1 = h
      BY <1>0, <1>1, <2>2, <3>4
    <3>. HIDE DEF met, c, t
    <3>. QED
      BY <3>4, <3>7, <3>8, <3>9
  <2>. QED
    BY <2>1, <2>2
<1>6. \A k \in Nodes : Handing(k)' => Count(held'[k], hand'[k].cum)
  BY <1>0, <1>1, <1>4, <1>5
<1>. QED
  BY <1>0, <1>2, <1>3, <1>5, <1>6

(* A scanner that puts out what is wanted of its chunk.                    *)
LEMMA FlushWanted ==
  ASSUME IInv, FreshInv, OutsInv, NEW n \in Nodes, Scans(n), NEW s, NEW f, Flush(n, s, f),
         ~cfg.exact /\ ~stale' => \A b \in 0..N-1 : s <= b /\ b < f => b \in Wanted,
         ~cfg.exact /\ ~stale' => \A b \in Wanted : Covers(held[n], b) => s <= b /\ b < f
  PROVE  OutsInv'
<1>. SUFFICES ASSUME ~cfg.exact, ~stale'
     PROVE  OutsInv!2'
  BY ScansFrame DEF OutsInv
<1>0. /\ ~stale /\ cfg' = cfg /\ cfg \in Modes
      /\ copies \in [0..N-1 -> Nat]
      /\ \A b \in 0..N-1 : copies[b] # 0 => copies'[b] # 0
  BY ScansClose, ScansLocal DEF FreshInv, Types
<1>1. Wanted' = Wanted /\ Wanted \subseteq 0..N-1 /\ \A m, b : Covers(m, b)' = Covers(m, b)
  BY <1>0, WantedInput DEF Wanted, Lines, Covers, StartsAt, IsEnd
<1>2. PICK h \in 0..NData : h = held[n] /\ \A m \in 0..NData : m # h => closed'[m] = closed[m]
  BY ScansClose DEF FreshInv, Types
<1>3. \A b \in 0..N-1 : copies'[b] = copies[b] + (IF s <= b /\ b < f THEN 1 ELSE 0)
  BY <1>0 DEF Flush
<1>4. ASSUME NEW b \in 0..N-1, copies'[b] # 0 PROVE b \in Wanted
  <2>1. CASE s <= b /\ b < f
    BY <2>1
  <2>2. CASE ~(s <= b /\ b < f)
    <3>1. copies[b] \in Nat /\ copies'[b] = copies[b] + 0
      BY <1>0, <1>3, <2>2
    <3>2. copies[b] # 0
      BY <1>4, <3>1
    <3>. QED
      BY <1>0, <3>2 DEF OutsInv
  <2>. QED
    BY <2>1, <2>2
<1>5. ASSUME NEW m \in 0..NData, closed'[m] # 0, NEW b \in Wanted, Covers(m, b)
      PROVE  copies'[b] # 0
  <2>0. b \in 0..N-1
    BY <1>1
  <2>1. CASE m = h
    <3>1. s <= b /\ b < f
      BY <1>2, <1>5, <2>1
    <3>2. copies'[b] = copies[b] + 1 /\ copies[b] \in Nat
      BY <1>0, <1>3, <2>0, <3>1
    <3>. QED
      BY <3>2
  <2>2. CASE m # h
    <3>1. copies[b] # 0
      BY <1>0, <1>2, <1>5, <2>2 DEF OutsInv
    <3>. QED
      BY <1>0, <2>0, <3>1
  <2>. QED
    BY <2>1, <2>2
<1>. QED
  BY <1>1, <1>4, <1>5

(* Past the chunk that met the limit nothing is wanted.                    *)
LEMMA PastWanted ==
  ASSUME cfg \in Modes, cfg.limit > 0, cutoff # 0, cutoff \in 0..NData+1, Count(cutoff - 1, cfg.limit),
         NEW h \in 0..NData, cutoff <= h, NEW b \in Wanted
  PROVE  ~Covers(h, b)
<1>. SUFFICES ASSUME Covers(h, b) PROVE FALSE
  OBVIOUS
<1>0. N \in Nat /\ NData \in Nat /\ cfg.limit \in Nat /\ b \in 0..N-1
  BY Sizes, ChunksCover, WantedInput
<1>1. cutoff - 1 \in 0..NData /\ h - 1 \in 0..NData /\ cutoff - 1 <= h - 1 /\ h # 0 /\ h - 1 # NData
  BY <1>0
<1>2. Count(h - 1, cfg.limit)
  BY <1>0, <1>1, CountLater
<1>3. PICK s \in 0..N : StartsAt(h, s) /\ s <= b
  BY DEF Covers
<1>4. cfg.limit = LeastOf(cfg.limit, Ord(s))
  BY <1>1, <1>2, <1>3 DEF StartsAt, Count
<1>5. Ord(s) <= Ord(b) /\ Ord(s) \in Nat /\ Ord(b) \in Nat
  <2>1. s \in Nat /\ b \in Nat
    BY <1>0
  <2>. QED
    BY <1>3, <2>1, OrdDiff, OrdNat
<1>6. cfg.limit = 0 \/ Ord(b) < cfg.limit
  BY <1>0, WantedBytes
<1>. QED
  BY <1>0, <1>4, <1>5, <1>6 DEF LeastOf

LEMMA ScansOuts ==
  ASSUME IInv, FreshInv, EndsInv, OwnInv, EndInv, LineInv, NEW n \in Nodes, Scans(n)
  PROVE  OutsInv'
<1>0. /\ ChainInv /\ CountInv /\ ExactInv /\ OutsInv
      /\ cutoff \in 0..NData+1 /\ NData \in Nat /\ cfg \in Modes /\ cfg.limit \in Nat /\ N \in Nat
      /\ held[n] \in 0..NData
  BY ChunksCover, Sizes DEF FreshInv, Types, LineInv
<1>1. CASE SkipPast(n) \/ SkipExact(n)
  <2>1. Flush(n, 0, 0)
    BY <1>1 DEF SkipPast, SkipExact
  <2>2. \A b \in 0..N-1 : ~(0 <= b /\ b < 0)
    BY <1>0
  <2>3. ASSUME ~cfg.exact, ~stale', NEW b \in Wanted PROVE ~Covers(held[n], b)
    <3>1. cfg.limit > 0 /\ cutoff > 0
      BY <1>1, <2>3 DEF SkipPast, SkipExact, PastCutoff
    <3>2. Chained /\ cutoff # 0 /\ ~stale
      BY <1>0, <2>3, <3>1, ScansClose DEF Chained, FreshInv
    <3>3. cutoff <= held[n]
      BY <1>0, <2>3, <3>2, WhoScans
    <3>4. Count(cutoff - 1, cfg.limit)
      BY <1>0, <2>3, <3>1, <3>2 DEF CountInv
    <3>. QED
      BY <1>0, <3>1, <3>2, <3>3, <3>4, PastWanted
  <2>. QED
    BY <1>0, <2>1, <2>2, <2>3, FlushWanted
<1>2. CASE ScanExact(n) \/ ScanExactEof(n)
  <2>1. cfg.exact /\ \E s, e : Flush(n, s, e)
    BY <1>2 DEF ScanExact, ScanExactEof
  <2>. QED
    BY <1>0, <2>1, FlushWanted
<1>3. CASE Scan(n)
  <2> DEFINE s == Prev(n).end
             e == hand[n].end
             c == Prev(n).cum
             t == LeastOf(LineCount(s, e), Budget(n))
             f == IF cfg.limit = 0 THEN e ELSE EndOfLines(s, e, t)
  <2>1. Flush(n, s, f)
    BY <1>3 DEF Scan
  <2>2. ~stale' => s \in 0..N /\ e \in 0..N /\ s <= e /\ StartsAt(held[n], s) /\ IsEnd(held[n], e)
    BY <1>0, <1>3, ScansClose, ScanEnds DEF FreshInv
  <2>3. ASSUME ~cfg.exact, ~stale'
        PROVE  /\ \A b \in 0..N-1 : s <= b /\ b < f => b \in Wanted
               /\ \A b \in Wanted : s <= b /\ b < e => s <= b /\ b < f
    <3>1. CASE cfg.limit = 0
      BY <1>0, <3>1, WantedBytes
    <3>2. CASE cfg.limit # 0
      <4>1. cfg.limit > 0 /\ Chained /\ ~stale /\ ~Recycled(n)
        BY <1>0, <2>3, <3>2, ScansClose DEF Chained, FreshInv
      <4>2. Prev(n).cum # Unset
        BY <1>3, <3>2 DEF Scan
      <4>3. c = LeastOf(cfg.limit, Ord(s))
        <5>1. CASE held[n] = 0
          <6>1. s = 0 /\ c = 0
            BY <5>1 DEF Prev
          <6>. QED
            BY <1>0, <6>1, OrdZero DEF LeastOf
        <5>2. CASE held[n] # 0
          <6>1. /\ held[n] - 1 # NData /\ Slot(held[n] - 1) \in Slots
                /\ Prev(n) = meta[Slot(held[n] - 1)] /\ meta[Slot(held[n] - 1)].major = held[n] - 1
            BY <1>0, <4>1, <5>2, PrevSlot
          <6>2. Count(held[n] - 1, c)
            BY <1>0, <2>3, <4>1, <4>2, <6>1 DEF CountInv
          <6>. QED
            BY <2>2, <2>3, <5>2, <6>1, <6>2 DEF Count, StartsAt
        <5>. QED
          BY <5>1, <5>2
      <4>4. Budget(n) = IF cfg.limit > c THEN cfg.limit - c ELSE 0
        BY DEF Budget
      <4>5. /\ \A b \in 0..N-1 : s <= b /\ b < EndOfLines(s, e, t) => b < e /\ Ord(b) < cfg.limit
            /\ \A b \in 0..N-1 : s <= b /\ b < e /\ Ord(b) < cfg.limit => b < EndOfLines(s, e, t)
        BY <1>0, <2>2, <2>3, <4>1, <4>3, <4>4, Takes
      <4>6. f = EndOfLines(s, e, t)
        BY <3>2
      <4>7. /\ \A b \in 0..N-1 : b \in Wanted <=> Ord(b) < cfg.limit
            /\ Wanted \subseteq 0..N-1
        BY <1>0, <3>2, WantedBytes, WantedInput
      <4>. HIDE DEF s, e, f, t, c
      <4>. QED
        BY <4>5, <4>6, <4>7
    <3>. QED
      BY <3>1, <3>2
  <2>4. ~stale' => \A b \in Wanted : Covers(held[n], b) => s <= b /\ b < e
    <3>1. Wanted \subseteq 0..N-1
      BY <1>0, WantedInput
    <3>. HIDE DEF s, e
    <3>. QED
      BY <1>0, <2>2, <3>1, CoversAt
  <2>. HIDE DEF s, e, f
  <2>. QED
    BY <1>0, <2>1, <2>3, <2>4, FlushWanted
<1>. QED
  BY <1>1, <1>2, <1>3 DEF Scans

-------------------------------------------------------------------------------
(* Handing on. *)

LEMMA HandoffFacts ==
  ASSUME IInv, FreshInv, NEW n \in Nodes, Handoff(n)
  PROVE  /\ UNCHANGED <<cfg, held, hand, copies, closed, batches, stale, cutoff>>
         /\ Handing(n) /\ held[n] \in 0..NData
         /\ \A k \in Nodes : Handing(k)' => Handing(k) /\ k # n
         /\ Slot(held[n]) \in Slots
         /\ meta'[Slot(held[n])].major = meta[Slot(held[n])].major
         /\ meta'[Slot(held[n])].cum = hand[n].cum
         /\ cfg.exact => meta'[Slot(held[n])].end = hand[n].end
         /\ \A s \in Slots : s # Slot(held[n]) => meta'[s] = meta[s]
<1>0. /\ UNCHANGED <<cfg, held, hand, copies, closed, batches, stale, cutoff>> /\ pc[n] = "handoff"
      /\ meta \in [Slots -> Desc] /\ Slot(held[n]) \in Slots /\ held[n] \in 0..NData
      /\ pc' = [pc EXCEPT ![n] = IF hand[n].last THEN "done" ELSE "top"]
      /\ pc \in [Nodes -> {"top", "claim", "wait", "gate", "handoff", "done"}]
  BY PrevTypes DEF Handoff, history, notChunk, IInv, ClaimInv, FreshInv, Types
<1>1. PICK h \in Slots : h = Slot(held[n])
  BY <1>0
<1>2. /\ meta'[h].cum = hand[n].cum /\ meta'[h].major = meta[h].major
      /\ cfg.exact => meta'[h].end = hand[n].end
      /\ \A s \in Slots : s # h => meta'[s] = meta[s]
  BY <1>0, <1>1 DEF Handoff, Desc
<1>3. \A k \in Nodes : Handing(k)' => Handing(k) /\ k # n
  BY <1>0 DEF Handing
<1>. QED
  BY <1>0, <1>1, <1>2, <1>3 DEF Handing

(* The number of a chunk that was closed is below ingest's.                *)
LEMMA ClosedBelow ==
  ASSUME IInv, ~stale, NEW m \in 0..NData, closed[m] # 0
  PROVE  m < major
<1>1. PICK v \in Nodes : \E i \in 1..Len(queue[v]) : queue[v][i] = m
  BY DEF IInv, ClosedInv
<1>. QED
  BY <1>1 DEF IInv, QueueInv

LEMMA HandoffChain ==
  ASSUME IInv, FreshInv, LineInv, InTime, NEW n \in Nodes, Handoff(n)
  PROVE  ChainInv'
<1>. SUFFICES ASSUME ~stale', Chained
     PROVE  ChainInv!2'
  BY HandoffFacts DEF ChainInv, Chained
<1>0. /\ ChainInv /\ ~stale /\ UNCHANGED <<cfg, held, hand, closed, cutoff>> /\ Handing(n)
      /\ \A k \in Nodes : Handing(k)' => Handing(k) /\ k # n
  BY HandoffFacts DEF LineInv
<1>1. PICK w \in Slots : /\ w = Slot(held[n])
                         /\ meta'[w].major = meta[w].major
                         /\ \A s \in Slots : s # w => meta'[s] = meta[s]
  BY HandoffFacts
<1>2. cutoff = 0 => \A s \in Slots : meta'[s].cum # Unset =>
        closed[meta'[s].major] # 0 /\ \A k \in Nodes : Handing(k)' => held[k] # meta'[s].major
  <2>. SUFFICES ASSUME cutoff = 0, NEW s \in Slots, meta'[s].cum # Unset
       PROVE  closed[meta'[s].major] # 0 /\ \A k \in Nodes : Handing(k)' => held[k] # meta'[s].major
    OBVIOUS
  <2>1. CASE s = w
    <3>1. meta'[s].major = held[n]
      BY <1>0, <1>1, <2>1 DEF InTime
    <3>. QED
      BY <1>0, <3>1 DEF ChainInv
  <2>2. CASE s # w
    <3>1. meta'[s] = meta[s]
      BY <1>1, <2>2
    <3>. QED
      BY <1>0, <3>1 DEF ChainInv
  <2>. QED
    BY <2>1, <2>2
<1>. QED
  BY <1>0, <1>2 DEF ChainInv

(* When the limit is met a count may be handed on late, to a descriptor    *)
(* that is another chunk's: it is the limit for every later chunk.         *)
LEMMA HandoffCount ==
  ASSUME IInv, FreshInv, LineInv, InTime, NEW n \in Nodes, Handoff(n)
  PROVE  CountInv'
<1>. SUFFICES ASSUME ~stale', ~cfg.exact, cfg.limit > 0
     PROVE  CountInv!2'
  BY HandoffFacts DEF CountInv
<1>0. /\ ChainInv /\ CountInv /\ Chained /\ ~stale
      /\ UNCHANGED <<cfg, held, hand, closed, cutoff>> /\ Handing(n)
      /\ \A k \in Nodes : Handing(k)' => Handing(k) /\ k # n
      /\ NData \in Nat /\ cfg.limit \in Nat /\ cutoff \in 0..NData+1
  BY HandoffFacts, ChunksCover, Sizes DEF LineInv, Chained, FreshInv, Types
<1>1. PICK h \in 0..NData : h = held[n]
  BY HandoffFacts
<1>2. PICK w \in Slots : /\ w = Slot(h)
                         /\ meta'[w].major = meta[w].major /\ meta'[w].cum = hand[n].cum
                         /\ \A s \in Slots : s # w => meta'[s] = meta[s]
  BY <1>1, HandoffFacts
<1>3. \A m, c : Count(m, c)' = Count(m, c)
  BY <1>0 DEF Count
<1>4. Count(h, hand[n].cum) /\ (cutoff # 0 => Count(cutoff - 1, cfg.limit))
  BY <1>0, <1>1 DEF CountInv
<1>5. Count(meta[w].major, hand[n].cum)
  <2>1. CASE cutoff = 0
    <3>1. meta[w].major = h
      BY <1>0, <1>1, <1>2, <2>1 DEF InTime
    <3>. QED
      BY <1>4, <3>1
  <2>2. CASE cutoff # 0
    <3>1. closed[h] # 0 /\ cutoff <= h + 1
      BY <1>0, <1>1 DEF ChainInv
    <3>2. PICK m \in 0..NData : m = meta[w].major /\ h <= m
      BY <1>0, <1>2, <3>1, ClosedBelow, SlotLater
    <3>3. cutoff - 1 \in 0..NData /\ cutoff - 1 <= h /\ cutoff - 1 <= m
      BY <1>0, <2>2, <3>1, <3>2
    <3>4. Count(h, cfg.limit) /\ Count(m, cfg.limit)
      BY <1>0, <1>4, <2>2, <3>3, CountLater
    <3>5. CASE m = NData
      BY <3>2, <3>5 DEF Count
    <3>6. CASE m # NData
      <4>1. h # NData
        BY <1>0, <3>2, <3>6
      <4>2. PICK e \in 0..N : IsEnd(h, e)
        BY EndExists
      <4>3. hand[n].cum = cfg.limit
        BY <1>4, <3>4, <4>1, <4>2 DEF Count
      <4>. QED
        BY <3>2, <3>4, <4>3
    <3>. QED
      BY <3>5, <3>6
  <2>. QED
    BY <2>1, <2>2
<1>6. \A s \in Slots : meta'[s].cum # Unset => Count(meta'[s].major, meta'[s].cum)
  BY <1>0, <1>2, <1>5 DEF CountInv
<1>. QED
  BY <1>0, <1>3, <1>4, <1>6 DEF CountInv

-------------------------------------------------------------------------------
(* -L: the batches of a chunk. *)

LEMMA BatchSize == BatchLines \in Nat \ {0}
BY ChunksAssumption

LEMMA ModNext ==
  ASSUME NEW c \in Nat \ {0}, NEW a \in Nat, a % c = 0
  PROVE  (a + c) % c = 0
<1>1. PICK q \in Int : q = a \div c
  OBVIOUS
<1>2. a = c * q + 0
  BY ONLY <1>1, DivMod, a \in Nat, c \in Nat \ {0}, a % c = 0
<1>3. PICK x \in Int : x = c * q
  OBVIOUS
<1>4. c * (q + 1) = x + c
  BY ONLY <1>3, c \in Nat \ {0}, q \in Int
<1>5. a + c = c * (q + 1) + 0
  BY ONLY <1>2, <1>3, <1>4, x \in Int, c \in Nat \ {0}, a \in Nat
<1>6. q + 1 \in Int /\ 0 \in 0..c-1
  OBVIOUS
<1>7. (c * (q + 1) + 0) % c = 0
  BY ONLY <1>6, ModOf, c \in Nat \ {0}
<1>. QED
  BY <1>5, <1>7

LEMMA ModGap ==
  ASSUME NEW c \in Nat \ {0}, NEW a \in Nat, NEW b \in Nat, a % c = 0, b % c = 0, a < b
  PROVE  a + c <= b
<1>1. PICK i \in Int : i = a \div c
  OBVIOUS
<1>2. PICK j \in Int : j = b \div c
  OBVIOUS
<1>3. a = c * i + 0
  BY ONLY <1>1, DivMod, a \in Nat, c \in Nat \ {0}, a % c = 0
<1>4. b = c * j + 0
  BY ONLY <1>2, DivMod, b \in Nat, c \in Nat \ {0}, b % c = 0
<1>5. PICK u \in Int : u = c * i
  OBVIOUS
<1>6. PICK v \in Int : v = c * j
  OBVIOUS
<1>7. i = j => u = v
  BY <1>5, <1>6
<1>8. j < i => v + c <= u
  BY ONLY <1>5, <1>6, Multiples, c \in Nat \ {0}, i \in Int, j \in Int
<1>9. i < j => u + c <= v
  BY ONLY <1>5, <1>6, Multiples, c \in Nat \ {0}, i \in Int, j \in Int
<1>. QED
  BY ONLY <1>3, <1>4, <1>5, <1>6, <1>7, <1>8, <1>9, a < b, a \in Nat, b \in Nat,
          c \in Nat \ {0}, i \in Int, j \in Int, u \in Int, v \in Int

(* Delimiters of [x, y) that end a batch of the stream, none of them past  *)
(* the limit.                                                              *)
LimitEnds(x, y) ==
  {d \in DelimsIn(x, y) :
     /\ Ord(d + 1) % BatchLines = 0 \/ Ord(d + 1) = cfg.limit
     /\ cfg.limit > 0 => Ord(d + 1) <= cfg.limit}

LEMMA LimitEnd ==
  ASSUME cfg.limit \in Nat, NEW x \in Nat, NEW y \in Nat, NEW d \in LimitEnds(x, y)
  PROVE  /\ d \in Delims /\ d \in Nat /\ x <= d /\ d < y /\ d < N
         /\ Ord(d + 1) = Ord(d) + 1 /\ Ord(d) \in Nat
         /\ Ord(d + 1) % BatchLines = 0 \/ Ord(d + 1) = cfg.limit
         /\ Ord(d + 1) = cfg.limit => cfg.limit > 0
         /\ cfg.limit > 0 => Ord(d + 1) <= cfg.limit
<1>1. /\ d \in Delims /\ x <= d /\ d < y
      /\ Ord(d + 1) % BatchLines = 0 \/ Ord(d + 1) = cfg.limit
      /\ cfg.limit > 0 => Ord(d + 1) <= cfg.limit
  BY DEF LimitEnds, DelimsIn
<1>2. Ord(d + 1) = Ord(d) + 1 /\ d \in Nat /\ d < N /\ Ord(d) \in Nat
  BY <1>1, OrdNext, OrdNat
<1>3. Ord(d + 1) = cfg.limit => cfg.limit > 0
  BY <1>2
<1>. QED
  BY <1>1, <1>2, <1>3

(* A full batch after p ends in the chunk if the chunk has the lines and   *)
(* the limit leaves them.                                                  *)
LEMMA NextBatch ==
  ASSUME cfg.limit \in Nat, NEW x \in Nat, NEW y \in Nat, x <= y,
         NEW s \in Nat, s <= x, Ord(x) - Ord(s) < BatchLines,
         NEW p \in Nat, s <= p, Ord(p) % BatchLines = 0,
         Ord(p) + BatchLines <= Ord(y), cfg.limit > 0 => Ord(p) + BatchLines <= cfg.limit
  PROVE  \E d \in LimitEnds(x, y) : Ord(d + 1) = Ord(p) + BatchLines /\ p < d + 1
<1>0. /\ BatchLines \in Nat \ {0} /\ Ord(x) \in Nat /\ Ord(s) \in Nat /\ Ord(p) \in Nat
      /\ Ord(s) <= Ord(p)
  BY BatchSize, OrdNat, OrdDiff
<1>1. PICK k \in Nat : k = Ord(p) + BatchLines
  BY <1>0
<1>2. Ord(x) < k /\ k <= Ord(y)
  BY <1>0, <1>1
<1>3. PICK d \in DelimsIn(x, y) : Ord(d + 1) = k
  BY <1>2, OrdReached
<1>4. k % BatchLines = 0
  BY <1>0, <1>1, ModNext
<1>5. d \in LimitEnds(x, y)
  BY <1>1, <1>3, <1>4 DEF LimitEnds
<1>6. d \in Nat
  BY Sizes DEF DelimsIn
<1>7. ~(d + 1 <= p)
  <2>1. d + 1 <= p => Ord(d + 1) <= Ord(p)
    BY <1>6, OrdDiff
  <2>. QED
    BY <1>0, <1>1, <1>3, <2>1
<1>. QED
  BY <1>1, <1>3, <1>5, <1>6, <1>7

(* The bounds of the batches that end in the chunk, after the open one's   *)
(* start s.                                                                *)
BoundsAt(s, x, y) == {s} \cup {d + 1 : d \in LimitEnds(x, y)}
Chunk(s, x, y) ==
  /\ cfg \in Modes /\ x \in Nat /\ y \in 0..N /\ x <= y /\ s \in Nat /\ s <= x
  /\ Ord(s) % BatchLines = 0 /\ Ord(x) - Ord(s) < BatchLines
  /\ cfg.limit = 0 \/ Ord(x) < cfg.limit

LEMMA BoundAt ==
  ASSUME NEW s, NEW x, NEW y, Chunk(s, x, y), NEW p \in BoundsAt(s, x, y)
  PROVE  /\ p \in Nat /\ s <= p /\ p <= y /\ Ord(p) \in Nat
         /\ p # s => p - 1 \in LimitEnds(x, y) /\ x < p
         /\ Ord(p) % BatchLines = 0 \/ (p # s /\ Ord(p) = cfg.limit)
         /\ cfg.limit > 0 => Ord(p) <= cfg.limit
<1>0. /\ N \in Nat /\ x \in Nat /\ y \in Nat /\ s \in Nat /\ s <= x /\ x <= y /\ cfg.limit \in Nat
      /\ Ord(s) % BatchLines = 0 /\ (cfg.limit = 0 \/ Ord(x) < cfg.limit)
  BY Sizes DEF Chunk
<1>1. CASE p = s
  <2>1. Ord(s) <= Ord(x) /\ Ord(s) \in Nat /\ Ord(x) \in Nat
    BY <1>0, OrdDiff, OrdNat
  <2>. QED
    BY <1>0, <1>1, <2>1
<1>2. CASE p # s
  <2>1. PICK d \in LimitEnds(x, y) : p = d + 1
    BY <1>2 DEF BoundsAt
  <2>2. /\ d \in Nat /\ x <= d /\ d < y
        /\ Ord(p) % BatchLines = 0 \/ Ord(p) = cfg.limit
        /\ cfg.limit > 0 => Ord(p) <= cfg.limit
    BY <1>0, <2>1, LimitEnd
  <2>3. p - 1 = d /\ p \in Nat /\ s <= p /\ p <= y /\ x < p
    BY <1>0, <2>1, <2>2
  <2>. QED
    BY <1>2, <2>1, <2>2, <2>3, OrdNat
<1>. QED
  BY <1>1, <1>2

(* The last bound: what is left of the chunk is less than a batch, or the  *)
(* limit is met.                                                           *)
LEMMA LastBound ==
  ASSUME NEW s, NEW x, NEW y, Chunk(s, x, y), NEW M \in BoundsAt(s, x, y),
         \A p \in BoundsAt(s, x, y) : p <= M,
         NEW met, met <=> \E d \in LimitEnds(x, y) : Ord(d + 1) = cfg.limit
  PROVE  /\ ~met => /\ cfg.limit = 0 \/ Ord(y) < cfg.limit
                    /\ M <= y /\ Ord(M) % BatchLines = 0 /\ Ord(y) - Ord(M) < BatchLines
         /\ met => /\ cfg.limit > 0 /\ Ord(y) >= cfg.limit
                   /\ \A b \in 0..N-1 : Ord(b) < cfg.limit => b < M
         /\ \A b \in 0..N-1 : b < M /\ s <= b => cfg.limit = 0 \/ Ord(b) < cfg.limit
<1>0. /\ N \in Nat /\ x \in Nat /\ y \in Nat /\ s \in Nat /\ s <= x /\ x <= y /\ cfg.limit \in Nat
      /\ Ord(x) - Ord(s) < BatchLines /\ BatchLines \in Nat \ {0}
      /\ Ord(x) \in Nat /\ Ord(s) \in Nat /\ Ord(y) \in Nat
      /\ (cfg.limit = 0 \/ Ord(x) < cfg.limit)
  BY Sizes, OrdNat, BatchSize DEF Chunk
<1>1. /\ M \in Nat /\ s <= M /\ M <= y /\ Ord(M) \in Nat
      /\ M # s => M - 1 \in LimitEnds(x, y)
      /\ Ord(M) % BatchLines = 0 \/ (M # s /\ Ord(M) = cfg.limit)
      /\ cfg.limit > 0 => Ord(M) <= cfg.limit
  BY BoundAt
<1>2. ASSUME ~met
      PROVE  /\ cfg.limit = 0 \/ Ord(y) < cfg.limit
             /\ Ord(M) % BatchLines = 0 /\ Ord(y) - Ord(M) < BatchLines
  <2>1. cfg.limit = 0 \/ Ord(y) < cfg.limit
    <3>. SUFFICES ASSUME cfg.limit # 0, cfg.limit <= Ord(y) PROVE FALSE
      BY <1>0
    <3>1. Ord(x) < cfg.limit
      BY <1>0
    <3>2. PICK d \in DelimsIn(x, y) : Ord(d + 1) = cfg.limit
      BY <1>0, <3>1, OrdReached
    <3>3. d \in LimitEnds(x, y)
      BY <1>0, <3>2 DEF LimitEnds
    <3>. QED
      BY <1>2, <3>2, <3>3
  <2>2. Ord(M) % BatchLines = 0
    <3>1. CASE M # s
      <4>1. (M - 1) + 1 = M
        BY <1>1
      <4>2. Ord(M) # cfg.limit
        BY <1>1, <1>2, <3>1, <4>1
      <4>. QED
        BY <1>1, <4>2
    <3>. QED
      BY <1>1, <3>1
  <2>3. ~(Ord(M) + BatchLines <= Ord(y))
    <3>. SUFFICES ASSUME Ord(M) + BatchLines <= Ord(y) PROVE FALSE
      OBVIOUS
    <3>1. cfg.limit > 0 => Ord(M) + BatchLines <= cfg.limit
      BY <1>0, <1>1, <2>1
    <3>2. PICK d \in LimitEnds(x, y) : M < d + 1
      BY <1>0, <1>1, <2>2, <3>1, NextBatch
    <3>3. d + 1 \in BoundsAt(s, x, y) /\ d \in Nat
      BY <1>0, LimitEnd DEF BoundsAt
    <3>4. d + 1 <= M
      BY <3>3
    <3>. QED
      BY <1>1, <3>2, <3>3, <3>4
  <2>. QED
    BY <1>0, <1>1, <2>1, <2>2, <2>3
<1>3. ASSUME met
      PROVE  /\ cfg.limit > 0 /\ Ord(y) >= cfg.limit
             /\ \A b \in 0..N-1 : Ord(b) < cfg.limit => b < M
  <2>1. PICK d \in LimitEnds(x, y) : Ord(d + 1) = cfg.limit
    BY <1>3
  <2>2. d \in Nat /\ d < y /\ cfg.limit > 0
    BY <1>0, <2>1, LimitEnd
  <2>3. d + 1 \in Nat /\ d + 1 <= y
    BY <1>0, <2>2
  <2>4. Ord(d + 1) <= Ord(y)
    BY <1>0, <2>3, OrdDiff
  <2>5. d + 1 \in BoundsAt(s, x, y)
    BY DEF BoundsAt
  <2>6. d + 1 <= M
    BY <2>5
  <2>7. ASSUME NEW b \in 0..N-1, Ord(b) < cfg.limit PROVE b < M
    <3>1. b \in Nat /\ Ord(b) \in Nat
      BY <1>0, OrdNat
    <3>2. d + 1 <= b => Ord(d + 1) <= Ord(b)
      BY <2>3, <3>1, OrdDiff
    <3>3. ~(d + 1 <= b)
      BY <1>0, <2>1, <2>7, <3>1, <3>2
    <3>. QED
      BY <1>1, <2>3, <2>6, <3>1, <3>3
  <2>. QED
    BY <1>0, <2>1, <2>2, <2>4, <2>7
<1>4. ASSUME NEW b \in 0..N-1, b < M, s <= b
      PROVE  cfg.limit = 0 \/ Ord(b) < cfg.limit
  <2>. SUFFICES ASSUME cfg.limit # 0 PROVE Ord(b) < cfg.limit
    OBVIOUS
  <2>1. b \in Nat /\ M # s /\ Ord(b) \in Nat
    BY <1>0, <1>1, <1>4, OrdNat
  <2>2. PICK d \in LimitEnds(x, y) : d = M - 1
    BY <1>1, <2>1
  <2>3. /\ d \in Nat /\ Ord(d + 1) = Ord(d) + 1 /\ Ord(d) \in Nat
        /\ cfg.limit > 0 => Ord(d + 1) <= cfg.limit
    BY <1>0, <2>2, LimitEnd
  <2>4. b <= d
    BY <1>1, <1>4, <2>1, <2>2, <2>3
  <2>5. Ord(b) <= Ord(d)
    BY <2>1, <2>3, <2>4, OrdDiff
  <2>. QED
    BY <1>0, <2>1, <2>3, <2>5
<1>. QED
  BY <1>1, <1>2, <1>3, <1>4

LEMMA MaxWanted ==
  ASSUME cfg \in Modes, NEW q \in 1..N, \A b \in 0..N-1 : b \in Wanted <=> b < q
  PROVE  Max(Wanted) = q - 1
<1>0. N \in Nat /\ q - 1 \in 0..N-1 /\ Wanted \subseteq 0..N-1
  BY Sizes, WantedInput
<1>1. q - 1 \in Wanted
  <2>1. q - 1 < q
    BY <1>0
  <2>. QED
    BY <1>0, <2>1
<1>2. Wanted \in SUBSET Int /\ Wanted # {} /\ \A b \in Wanted : b <= q - 1
  <2>1. Wanted \in SUBSET Int /\ Wanted # {}
    BY <1>0, <1>1
  <2>2. ASSUME NEW b \in Wanted PROVE b <= q - 1
    <3>1. b \in 0..N-1 /\ b < q
      BY <1>0
    <3>. QED
      BY <1>0, <3>1
  <2>. QED
    BY <2>1, <2>2
<1>3. Max(Wanted) \in Wanted /\ \A b \in Wanted : b <= Max(Wanted)
  <2>1. q - 1 \in Int
    BY <1>0
  <2>. QED
    BY <1>2, <2>1, MaxOf
<1>4. Max(Wanted) <= q - 1 /\ q - 1 <= Max(Wanted) /\ Max(Wanted) \in Int
  BY <1>1, <1>2, <1>3
<1>. QED
  BY <1>0, <1>4

BatchOK(b) ==
  \/ Cardinality(DelimsIn(b[1], b[2])) = BatchLines
  \/ Cardinality(DelimsIn(b[1], b[2])) <= BatchLines /\ b[2] - 1 = Max(Wanted)

(* Between neighbouring bounds lies a full batch, or the one that the      *)
(* limit ends.                                                             *)
LEMMA BatchBetween ==
  ASSUME NEW s, NEW x, NEW y, Chunk(s, x, y),
         NEW p \in BoundsAt(s, x, y), NEW q \in BoundsAt(s, x, y), p < q,
         \A c \in BoundsAt(s, x, y) : c <= p \/ q <= c
  PROVE  BatchOK(<<p, q>>)
<1>0. /\ N \in Nat /\ x \in Nat /\ y \in 0..N /\ s \in Nat /\ s <= x /\ x <= y /\ cfg.limit \in Nat
      /\ Ord(x) - Ord(s) < BatchLines /\ BatchLines \in Nat \ {0} /\ cfg \in Modes
  BY Sizes, BatchSize DEF Chunk
<1>1. /\ p \in Nat /\ s <= p /\ Ord(p) \in Nat
      /\ Ord(p) % BatchLines = 0 \/ (p # s /\ Ord(p) = cfg.limit)
      /\ p # s => p - 1 \in LimitEnds(x, y)
  BY BoundAt
<1>2. /\ q \in Nat /\ s <= q /\ q <= y /\ Ord(q) \in Nat /\ (q # s => q - 1 \in LimitEnds(x, y))
      /\ Ord(q) % BatchLines = 0 \/ Ord(q) = cfg.limit
      /\ cfg.limit > 0 => Ord(q) <= cfg.limit
  BY BoundAt
<1>3. PICK d \in LimitEnds(x, y) : q = d + 1
  <2>1. q # s
    BY <1>0, <1>1, <1>2
  <2>2. q = (q - 1) + 1
    BY <1>2
  <2>. QED
    BY <1>2, <2>1, <2>2
<1>4. /\ d \in Nat /\ d < N /\ Ord(q) = Ord(d) + 1 /\ Ord(d) \in Nat
      /\ Ord(q) = cfg.limit => cfg.limit > 0
  BY <1>0, <1>3, LimitEnd
<1>5. Ord(p) <= Ord(d)
  <2>1. p <= d
    BY <1>1, <1>3, <1>4
  <2>. QED
    BY <1>1, <1>4, <2>1, OrdDiff
<1>6. Ord(p) % BatchLines = 0
  <2>1. ASSUME p # s, Ord(p) = cfg.limit PROVE FALSE
    <3>1. p - 1 \in LimitEnds(x, y) /\ (p - 1) + 1 = p
      BY <1>1, <2>1
    <3>2. cfg.limit > 0
      BY <1>0, <2>1, <3>1, LimitEnd
    <3>. QED
      BY <1>0, <1>1, <1>2, <1>4, <1>5, <2>1, <3>2
  <2>. QED
    BY <1>1, <2>1
<1>7. ~(Ord(p) + BatchLines < Ord(q))
  <2>. SUFFICES ASSUME Ord(p) + BatchLines < Ord(q) PROVE FALSE
    OBVIOUS
  <2>1. Ord(q) <= Ord(y) /\ Ord(y) \in Nat /\ y \in Nat
    BY <1>0, <1>2, OrdDiff, OrdNat
  <2>2. Ord(p) + BatchLines <= Ord(y) /\ (cfg.limit > 0 => Ord(p) + BatchLines <= cfg.limit)
    BY <1>0, <1>1, <1>2, <2>1
  <2>3. PICK a \in LimitEnds(x, y) : Ord(a + 1) = Ord(p) + BatchLines /\ p < a + 1
    BY <1>0, <1>1, <1>6, <2>1, <2>2, NextBatch
  <2>4. a + 1 \in BoundsAt(s, x, y) /\ a + 1 \in Nat
    BY <1>0, <2>1, LimitEnd DEF BoundsAt
  <2>5. q <= a + 1
    BY <1>1, <2>3, <2>4
  <2>6. Ord(q) <= Ord(a + 1)
    BY <1>2, <2>4, <2>5, OrdDiff
  <2>. QED
    BY <1>0, <1>1, <1>2, <2>3, <2>6
<1>8. Cardinality(DelimsIn(p, q)) = Ord(q) - Ord(p)
  <2>1. p <= q
    BY <1>1, <1>2
  <2>. QED
    BY <1>1, <1>2, <2>1, OrdDiff
<1>9. CASE Ord(q) % BatchLines = 0
  <2>1. Ord(p) + BatchLines <= Ord(q)
    <3>1. Ord(p) < Ord(q)
      BY <1>1, <1>2, <1>4, <1>5
    <3>. QED
      BY <1>0, <1>1, <1>2, <1>6, <1>9, <3>1, ModGap
  <2>2. Ord(q) - Ord(p) = BatchLines
    BY <1>0, <1>1, <1>2, <1>7, <2>1
  <2>. QED
    BY <1>8, <2>2 DEF BatchOK
<1>10. CASE Ord(q) = cfg.limit
  <2>1. Ord(q) - Ord(p) <= BatchLines
    BY <1>0, <1>1, <1>2, <1>7
  <2>2. q \in 1..N
    BY <1>0, <1>3, <1>4
  <2>3. ASSUME NEW b \in 0..N-1 PROVE b \in Wanted <=> b < q
    <3>1. b \in Nat /\ Ord(b) \in Nat
      BY <1>0, OrdNat
    <3>2. b \in Wanted <=> Ord(b) < cfg.limit
      <4>1. cfg.limit # 0
        BY <1>4, <1>10, <1>0
      <4>. QED
        BY <1>0, <4>1, WantedBytes
    <3>3. CASE b < q
      <4>1. b <= d
        BY <1>3, <1>4, <3>1, <3>3
      <4>2. Ord(b) <= Ord(d)
        BY <1>4, <3>1, <4>1, OrdDiff
      <4>. QED
        BY <1>0, <1>4, <1>10, <3>1, <3>2, <3>3, <4>2
    <3>4. CASE ~(b < q)
      <4>1. q <= b
        BY <1>2, <3>1, <3>4
      <4>2. Ord(q) <= Ord(b)
        BY <1>2, <3>1, <4>1, OrdDiff
      <4>. QED
        BY <1>0, <1>2, <1>10, <3>1, <3>2, <3>4, <4>2
    <3>. QED
      BY <3>3, <3>4
  <2>4. Max(Wanted) = q - 1
    BY <1>0, <2>2, <2>3, MaxWanted
  <2>. QED
    BY <1>8, <2>1, <2>4 DEF BatchOK
<1>. QED
  BY <1>2, <1>9, <1>10

(* The scanner counts on from its predecessor, so its ends are those of    *)
(* the stream.                                                             *)
LEMMA EndsOrd ==
  ASSUME NEW n \in Nodes, NEW x \in Nat, NEW y \in Nat, x = RawStart(snap[n]), y = RawEnd(snap[n]),
         Prev(n).cum = Ord(x)
  PROVE  Ends(n) = LimitEnds(x, y) /\ \A d \in DelimsIn(x, y) : Nth(n, d) = Ord(d + 1)
<1>1. ASSUME NEW d \in DelimsIn(x, y) PROVE Nth(n, d) = Ord(d + 1)
  <2>1. d \in Delims /\ x <= d
    BY DEF DelimsIn
  <2>2. d + 1 \in Nat /\ x <= d + 1
    BY <2>1, OrdNext
  <2>3. Cardinality(DelimsIn(x, d + 1)) = Ord(d + 1) - Ord(x)
    BY <2>2, OrdDiff
  <2>4. Ord(x) \in Nat /\ Ord(d + 1) \in Nat
    BY OrdNat
  <2>. QED
    BY <2>3, <2>4 DEF Nth
<1>2. Ends(n) = {d \in DelimsIn(x, y) : /\ Nth(n, d) % BatchLines = 0 \/ Nth(n, d) = cfg.limit
                                        /\ cfg.limit > 0 => Nth(n, d) <= cfg.limit}
  BY DEF Ends
<1>. QED
  BY <1>1, <1>2 DEF LimitEnds

LEMMA StartGrows ==
  ASSUME UNCHANGED cfg, cutoff # 0 => cutoff' # 0,
         \A b \in 0..N-1 : copies[b] # 0 => copies'[b] # 0,
         NEW m, NEW c, NEW e, Start(m, c, e)
  PROVE  m # NData => \/ Over(RawEnd(m), c)'
                      \/ /\ c = Ord(RawEnd(m)) /\ (cfg.limit = 0 \/ c < cfg.limit)
                         /\ e <= RawEnd(m) /\ Ord(e) % BatchLines = 0
                         /\ Ord(RawEnd(m)) - Ord(e) < BatchLines
                         /\ \A b \in 0..N-1 : b < e => copies'[b] # 0
BY DEF Start, Open, Over, Full

(* What a scanner with -L finds while the limit is not met: the start of   *)
(* the open batch.                                                         *)
LEMMA PrevOpen ==
  ASSUME FreshInv, ExactInv, cfg.exact, ~stale, cutoff = 0, NEW n \in Nodes, ~Recycled(n), HandedOn(n)
  PROVE  /\ Open(RawStart(held[n]), Prev(n).cum, Prev(n).end)
         /\ Prev(n).end \in 0..N /\ Prev(n).cum \in Nat
<1>0. Prev(n).end \in 0..N /\ Prev(n).cum \in Nat /\ N \in Nat /\ cfg.limit \in Nat
  BY PrevTypes, Sizes DEF HandedOn, FreshInv, Types
<1>1. CASE held[n] = 0
  <2>1. Prev(n).end = 0 /\ Prev(n).cum = 0 /\ RawStart(held[n]) = 0
    BY <1>1, ChunkEnds DEF Prev
  <2>2. Full(0)
    BY <1>0 DEF Full
  <2>3. Ord(0) = 0 /\ 0 % BatchLines = 0 /\ 0 - 0 < BatchLines
    BY OrdZero, BatchSize
  <2>4. cfg.limit = 0 \/ 0 < cfg.limit
    BY <1>0
  <2>. QED
    BY <1>0, <2>1, <2>2, <2>3, <2>4 DEF Open
<1>2. CASE held[n] # 0
  <2>1. /\ held[n] - 1 # NData /\ Slot(held[n] - 1) \in Slots /\ held[n] \in 1..NData
        /\ Prev(n) = meta[Slot(held[n] - 1)] /\ meta[Slot(held[n] - 1)].major = held[n] - 1
    BY <1>2, PrevSlot, PrevTypes, ChunksCover
  <2>2. Start(held[n] - 1, Prev(n).cum, Prev(n).end)
    BY <2>1 DEF ExactInv, HandedOn
  <2>3. RawEnd(held[n] - 1) = RawStart(held[n])
    BY <2>1, ChunkEnds
  <2>. QED
    BY <1>0, <2>1, <2>2, <2>3 DEF Start, Over
<1>. QED
  BY <1>1, <1>2

(* What goes out joins what is out.                                        *)
LEMMA FlushFull ==
  ASSUME copies \in [0..N-1 -> Nat], NEW n, NEW s \in 0..N, NEW e \in 0..N, Flush(n, s, e), Full(s)
  PROVE  /\ \A b \in 0..N-1 : b < e => copies'[b] # 0
         /\ \A b \in 0..N-1 : copies'[b] # 0 => copies[b] # 0 \/ (s <= b /\ b < e)
<1>0. N \in Nat
  BY Sizes
<1>1. \A b \in 0..N-1 : copies[b] \in Nat /\ copies'[b] = copies[b] + (IF s <= b /\ b < e THEN 1 ELSE 0)
  BY DEF Flush
<1>2. ASSUME NEW b \in 0..N-1, b < e PROVE copies'[b] # 0
  <2>1. copies[b] # 0 \/ s <= b
    BY <1>0 DEF Full
  <2>. QED
    BY <1>1, <1>2, <2>1
<1>3. ASSUME NEW b \in 0..N-1, copies'[b] # 0 PROVE copies[b] # 0 \/ (s <= b /\ b < e)
  BY <1>1, <1>3
<1>. QED
  BY <1>2, <1>3

(* What a step of a scanner has to show.                                   *)
LEMMA ExactFrame ==
  ASSUME IInv, FreshInv, ExactInv, cfg.exact, ~stale, NEW n \in Nodes, Scans(n),
         cutoff # 0 => cutoff' # 0,
         cutoff' # 0 => Ord(RawEnd(cutoff' - 1)) >= cfg.limit,
         cutoff' # 0 \/ closed'[NData] # 0 => \A b \in Wanted : copies'[b] # 0,
         \A b \in 0..N-1 : copies'[b] # 0 => b \in Wanted,
         Handing(n)' => Start(held[n], hand[n].cum, hand[n].end)'
  PROVE  ExactInv'
<1>0. /\ UNCHANGED <<cfg, meta, held>>
      /\ \A k \in Nodes : k # n => Handing(k)' = Handing(k) /\ hand'[k] = hand[k]
      /\ \A b \in 0..N-1 : copies[b] # 0 => copies'[b] # 0
  BY ScansLocal
<1>1. \A m, c, e : Start(m, c, e) => Start(m, c, e)'
  <2>. SUFFICES ASSUME NEW m, NEW c, NEW e, Start(m, c, e), m # NData
       PROVE  Open(RawEnd(m), c, e)' \/ Over(RawEnd(m), c)'
    BY DEF Start
  <2>1. \/ Over(RawEnd(m), c)'
        \/ /\ c = Ord(RawEnd(m)) /\ (cfg.limit = 0 \/ c < cfg.limit)
           /\ e <= RawEnd(m) /\ Ord(e) % BatchLines = 0
           /\ Ord(RawEnd(m)) - Ord(e) < BatchLines
           /\ \A b \in 0..N-1 : b < e => copies'[b] # 0
    BY <1>0, StartGrows
  <2>. QED
    BY <1>0, <2>1 DEF Open, Full
<1>2. \A s \in Slots : meta'[s].cum # Unset => Start(meta[s].major, meta[s].cum, meta[s].end)'
  BY <1>0, <1>1 DEF ExactInv
<1>3. \A k \in Nodes : Handing(k)' => Start(held[k], hand[k].cum, hand[k].end)'
  <2>1. ASSUME NEW k \in Nodes, k # n, Handing(k)' PROVE Start(held[k], hand[k].cum, hand[k].end)'
    <3>1. Start(held[k], hand[k].cum, hand[k].end)
      BY <1>0, <2>1 DEF ExactInv
    <3>2. PICK a, b, c : a = held[k] /\ b = hand[k].cum /\ c = hand[k].end
      OBVIOUS
    <3>3. Start(a, b, c)'
      BY <1>1, <3>1, <3>2
    <3>4. a = held'[k] /\ b = hand'[k].cum /\ c = hand'[k].end
      BY <1>0, <2>1, <3>2
    <3>. QED
      BY <3>3, <3>4
  <2>. QED
    BY <2>1
<1>4. Wanted' = Wanted
  BY <1>0 DEF Wanted, Lines
<1>. QED
  BY <1>0, <1>2, <1>3, <1>4 DEF ExactInv

(* Past the limit nothing goes out, and the limit is handed on.            *)
LEMMA SkipsExact ==
  ASSUME IInv, FreshInv, ChainInv, ExactInv, cfg.exact, ~stale, cfg.limit > 0, cutoff # 0,
         NEW n \in Nodes, SkipPast(n) \/ SkipExact(n), ~stale', cutoff <= held[n], cutoff' = cutoff
  PROVE  ExactInv'
<1>0. /\ copies \in [0..N-1 -> Nat] /\ snap[n] = held[n] /\ held[n] \in 0..NData
      /\ cfg.limit \in Nat /\ cutoff \in 0..NData+1 /\ NData \in Nat /\ N \in Nat /\ Scans(n)
      /\ hand \in [Nodes -> [end : 0..N, cum : Nat, last : BOOLEAN]]
      /\ UNCHANGED <<cfg, held>>
  <2>1. Scans(n)
    BY DEF Scans
  <2>. QED
    BY <2>1, ScansFrame, ScansClose, Sizes, ChunksCover DEF FreshInv, Types
<1>1. Flush(n, 0, 0) /\ hand'[n].cum = cfg.limit
  BY <1>0 DEF SkipPast, SkipExact, ToHandoff
<1>2. \A b \in 0..N-1 : copies'[b] = copies[b]
  <2>1. \A b \in 0..N-1 : ~(0 <= b /\ b < 0) /\ copies[b] + 0 = copies[b]
    BY <1>0
  <2>. QED
    BY <1>0, <1>1, <2>1 DEF Flush
<1>3. Ord(RawEnd(cutoff - 1)) >= cfg.limit
  BY DEF ExactInv
<1>4. Ord(RawEnd(held[n])) >= cfg.limit
  <2>1. cutoff - 1 \in 0..NData /\ cutoff - 1 <= held[n]
    BY <1>0
  <2>2. RawEnd(cutoff - 1) \in Nat /\ RawEnd(held[n]) \in Nat /\ RawEnd(cutoff - 1) <= RawEnd(held[n])
    BY <1>0, <2>1, ChunkEnds
  <2>3. Ord(RawEnd(cutoff - 1)) <= Ord(RawEnd(held[n]))
    BY <2>2, OrdDiff
  <2>4. Ord(RawEnd(cutoff - 1)) \in Nat /\ Ord(RawEnd(held[n])) \in Nat
    BY OrdNat
  <2>. QED
    BY <1>0, <1>3, <2>3, <2>4
<1>5. Start(held[n], hand[n].cum, hand[n].end)'
  BY <1>0, <1>1, <1>4 DEF Start, Over
<1>6. \A b \in 0..N-1 : copies'[b] # 0 => b \in Wanted
  BY <1>2 DEF ExactInv
<1>7. \A b \in Wanted : copies'[b] # 0
  <2>1. Wanted \subseteq 0..N-1
    BY WantedInput DEF FreshInv, Types
  <2>. QED
    BY <1>2, <2>1 DEF ExactInv
<1>. QED
  BY <1>0, <1>3, <1>5, <1>6, <1>7, ExactFrame

(* A chunk in which batches end.                                           *)
LEMMA ScanExactKeeps ==
  ASSUME IInv, FreshInv, ExactInv, BatchesExact, ~stale, cutoff = 0,
         NEW n \in Nodes, ScanExact(n), ~stale'
  PROVE  ExactInv' /\ BatchesExact'
<1>0. /\ copies \in [0..N-1 -> Nat] /\ snap[n] = held[n] /\ ~Recycled(n)
      /\ cfg \in Modes /\ cfg.limit \in Nat /\ NData \in Nat /\ N \in Nat /\ Scans(n) /\ cfg.exact
      /\ hand \in [Nodes -> [end : 0..N, cum : Nat, last : BOOLEAN]]
      /\ UNCHANGED <<cfg, held>> /\ BatchLines \in Nat \ {0}
  <2>1. Scans(n) /\ cfg.exact
    BY DEF Scans, ScanExact
  <2>. QED
    BY <2>1, ScansFrame, ScansClose, Sizes, ChunksCover, BatchSize DEF FreshInv, Types
<1>1. PICK h \in 0..NData : h = held[n] /\ h = snap[n] /\ h # NData
  BY <1>0, PrevTypes DEF ScanExact
<1>2. PICK x \in 0..N, y \in 0..N : x = RawStart(h) /\ y = RawEnd(h) /\ x <= y
  BY ChunkEnds
<1>3. PICK s \in 0..N, c \in Nat : s = Prev(n).end /\ c = Prev(n).cum /\ Open(x, c, s)
  BY <1>0, <1>1, <1>2, PrevOpen DEF ScanExact
<1>4. c = Ord(x) /\ Full(s) /\ Chunk(s, x, y)
  BY <1>0, <1>2, <1>3 DEF Open, Chunk
<1>5. Ends(n) = LimitEnds(x, y) /\ \A d \in LimitEnds(x, y) : Nth(n, d) = Ord(d + 1)
  <2>1. x \in Nat /\ y \in Nat
    BY <1>0
  <2>2. x = RawStart(snap[n]) /\ y = RawEnd(snap[n]) /\ Prev(n).cum = Ord(x)
    BY <1>1, <1>2, <1>3, <1>4
  <2>3. LimitEnds(x, y) \subseteq DelimsIn(x, y)
    BY DEF LimitEnds
  <2>. QED
    BY <2>1, <2>2, <2>3, EndsOrd
<1> DEFINE B == BoundsAt(s, x, y)
           met == \E d \in LimitEnds(x, y) : Ord(d + 1) = cfg.limit
<1>6. {s} \cup {d + 1 : d \in Ends(n)} = B
  BY <1>5 DEF BoundsAt
<1>7. PICK M \in 0..N : M = Max(B) /\ M \in B /\ \A p \in B : p <= M
  <2>1. \A p \in B : p \in Nat /\ p <= y
    BY <1>4, BoundAt
  <2>2. s \in B /\ y \in Int
    BY <1>0 DEF BoundsAt
  <2>3. Max(B) \in B /\ \A p \in B : p <= Max(B)
    <3>1. B \in SUBSET Int /\ B # {} /\ \A p \in B : p <= y
      BY <2>1, <2>2
    <3>. HIDE DEF B
    <3>. QED
      BY <2>2, <3>1, MaxOf
  <2>4. Max(B) \in 0..N
    BY <1>0, <2>1, <2>3
  <2>. QED
    BY <2>3, <2>4
<1>8. /\ Flush(n, s, M)
      /\ batches' = batches \cup {b \in B \X B : b[1] < b[2] /\ \A p \in B : p <= b[1] \/ b[2] <= p}
      /\ cutoff' = IF met THEN snap[n] + 1 ELSE cutoff
      /\ ToHandoff(n, M, IF met THEN cfg.limit
                         ELSE c + Cardinality(DelimsIn(RawStart(snap[n]), RawEnd(snap[n]))), met)
  <2> DEFINE C == {Prev(n).end} \cup {d + 1 : d \in Ends(n)}
             hit == \E d \in Ends(n) : Nth(n, d) = cfg.limit
  <2>1. hit = met
    BY <1>5
  <2>2. C = B
    BY <1>3, <1>6
  <2>3. /\ Flush(n, Prev(n).end, Max(C))
        /\ batches' = batches \cup {b \in C \X C : b[1] < b[2] /\ \A p \in C : p <= b[1] \/ b[2] <= p}
        /\ cutoff' = IF hit THEN snap[n] + 1 ELSE cutoff
        /\ ToHandoff(n, Max(C), IF hit THEN cfg.limit
                    ELSE Prev(n).cum + Cardinality(DelimsIn(RawStart(snap[n]), RawEnd(snap[n]))), hit)
    BY ONLY ScanExact(n) DEF ScanExact
  <2>. HIDE DEF B, C, met, hit
  <2>. QED
    BY <1>3, <1>7, <2>1, <2>2, <2>3
<1>9. c + Cardinality(DelimsIn(RawStart(snap[n]), RawEnd(snap[n]))) = Ord(y)
  <2>1. x \in Nat /\ y \in Nat /\ Ord(x) \in Nat /\ Ord(y) \in Nat
    BY <1>0, OrdNat
  <2>2. Cardinality(DelimsIn(x, y)) = Ord(y) - Ord(x)
    BY <1>2, <2>1, OrdDiff
  <2>. QED
    BY <1>1, <1>2, <1>4, <2>1, <2>2
<1>10. /\ ~met => /\ cfg.limit = 0 \/ Ord(y) < cfg.limit
                  /\ M <= y /\ Ord(M) % BatchLines = 0 /\ Ord(y) - Ord(M) < BatchLines
       /\ met => /\ cfg.limit > 0 /\ Ord(y) >= cfg.limit
                 /\ \A b \in 0..N-1 : Ord(b) < cfg.limit => b < M
       /\ \A b \in 0..N-1 : b < M /\ s <= b => cfg.limit = 0 \/ Ord(b) < cfg.limit
  <2>1. met <=> \E d \in LimitEnds(x, y) : Ord(d + 1) = cfg.limit
    OBVIOUS
  <2>2. M \in BoundsAt(s, x, y) /\ \A p \in BoundsAt(s, x, y) : p <= M
    BY <1>7
  <2>. HIDE DEF B, met
  <2>. QED
    BY <1>4, <2>1, <2>2, LastBound
<1>11. \A b \in B \X B : b[1] < b[2] /\ (\A p \in B : p <= b[1] \/ b[2] <= p) => BatchOK(b)
  <2>. SUFFICES ASSUME NEW p \in B, NEW q \in B, p < q, \A d \in B : d <= p \/ q <= d
       PROVE  BatchOK(<<p, q>>)
    BY DEF BatchOK
  <2>. QED
    BY <1>4, BatchBetween
<1>12. /\ \A b \in 0..N-1 : b < M => copies'[b] # 0
       /\ \A b \in 0..N-1 : copies'[b] # 0 => copies[b] # 0 \/ (s <= b /\ b < M)
  BY <1>0, <1>4, <1>8, FlushFull
<1>. HIDE DEF B, met
<1>13. \A b \in 0..N-1 : b \in Wanted <=> (cfg.limit = 0 \/ Ord(b) < cfg.limit)
  BY <1>0, WantedBytes
<1>14. \A b \in 0..N-1 : copies'[b] # 0 => b \in Wanted
  BY <1>0, <1>10, <1>12, <1>13 DEF ExactInv
<1>15. met => \A b \in Wanted : copies'[b] # 0
  <2>1. Wanted \subseteq 0..N-1
    BY <1>0, WantedInput
  <2>2. cfg.limit > 0 => cfg.limit # 0
    BY <1>0
  <2>. QED
    BY <1>10, <1>12, <1>13, <2>1, <2>2
<1>16. /\ cutoff' # 0 => met /\ Ord(RawEnd(cutoff' - 1)) >= cfg.limit
       /\ met => cutoff' # 0
  <2>1. h + 1 # 0 /\ (h + 1) - 1 = h
    BY <1>0
  <2>. QED
    BY <1>1, <1>2, <1>8, <1>10, <2>1
<1>17. cutoff' # 0 \/ closed'[NData] # 0 => \A b \in Wanted : copies'[b] # 0
  <2>1. closed'[NData] = closed[NData]
    <3>1. NData \in 0..NData /\ NData # held[n]
      BY <1>0, <1>1
    <3>. QED
      BY <1>0, <3>1, ScansClose DEF FreshInv
  <2>2. closed[NData] # 0 => \A b \in Wanted : copies'[b] # 0
    <3>1. Wanted \subseteq 0..N-1
      BY <1>0, WantedInput
    <3>. QED
      BY <1>0, <3>1, ScansLocal DEF ExactInv
  <2>. QED
    BY <1>15, <1>16, <2>1, <2>2
<1>18. hand'[n].end = M /\ hand'[n].cum = IF met THEN cfg.limit ELSE Ord(y)
  BY <1>0, <1>8, <1>9 DEF ToHandoff
<1>19. Start(held[n], hand[n].cum, hand[n].end)'
  <2>1. CASE met
    BY <1>0, <1>1, <1>2, <1>10, <1>16, <1>18, <2>1 DEF Start, Over
  <2>2. CASE ~met
    BY <1>0, <1>1, <1>2, <1>10, <1>12, <1>18, <2>2 DEF Start, Open, Full
  <2>. QED
    BY <2>1, <2>2
<1>20. ExactInv'
  BY <1>0, <1>14, <1>16, <1>17, <1>19, ExactFrame
<1>21. BatchesExact'
  <2>1. \A b \in batches : BatchOK(b)
    BY DEF BatchesExact, BatchOK
  <2>2. \A b \in batches' : BatchOK(b)
    BY <1>8, <1>11, <2>1
  <2>3. Wanted' = Wanted
    BY <1>0 DEF Wanted, Lines
  <2>. QED
    BY <2>2, <2>3 DEF BatchesExact, BatchOK
<1>. QED
  BY <1>20, <1>21

(* The last batch, at the end of the input.                                *)
LEMMA ScanExactEofKeeps ==
  ASSUME IInv, FreshInv, ExactInv, BatchesExact, ~stale, cutoff = 0,
         NEW n \in Nodes, ScanExactEof(n), ~stale'
  PROVE  ExactInv' /\ BatchesExact'
<1>0. /\ copies \in [0..N-1 -> Nat] /\ snap[n] = held[n] /\ ~Recycled(n)
      /\ cfg \in Modes /\ cfg.limit \in Nat /\ NData \in Nat /\ N \in Nat /\ Scans(n) /\ cfg.exact
      /\ UNCHANGED <<cfg, held>> /\ BatchLines \in Nat \ {0}
      /\ held[n] = NData /\ cutoff' = cutoff
  <2>1. Scans(n) /\ cfg.exact /\ snap[n] = NData /\ cutoff' = cutoff
    BY DEF Scans, ScanExactEof
  <2>2. snap[n] = held[n] /\ ~Recycled(n) /\ UNCHANGED <<cfg, held>>
    BY <2>1, ScansFrame, ScansClose DEF FreshInv
  <2>3. copies \in [0..N-1 -> Nat] /\ cfg \in Modes /\ cfg.limit \in Nat
    BY Sizes DEF FreshInv, Types
  <2>. QED
    BY <2>1, <2>2, <2>3, Sizes, ChunksCover, BatchSize
<1>1. RawStart(held[n]) = N
  BY <1>0 DEF RawStart
<1>2. PICK s \in 0..N, c \in Nat : s = Prev(n).end /\ c = Prev(n).cum /\ Open(N, c, s)
  BY <1>0, <1>1, PrevOpen DEF ScanExactEof
<1>3. Flush(n, s, N) /\ batches' = IF s < N THEN batches \cup {<<s, N>>} ELSE batches
  BY <1>2 DEF ScanExactEof
<1>4. /\ \A b \in 0..N-1 : copies'[b] # 0
      /\ \A b \in 0..N-1 : copies'[b] # 0 => copies[b] # 0 \/ (s <= b /\ b < N)
  <2>1. N \in 0..N /\ Full(s)
    BY <1>0, <1>2 DEF Open
  <2>2. /\ \A b \in 0..N-1 : b < N => copies'[b] # 0
        /\ \A b \in 0..N-1 : copies'[b] # 0 => copies[b] # 0 \/ (s <= b /\ b < N)
    BY <1>0, <1>3, <2>1, FlushFull
  <2>3. \A b \in 0..N-1 : b < N
    BY <1>0
  <2>. QED
    BY <2>2, <2>3
<1>5. \A b \in 0..N-1 : b \in Wanted
  <2>. SUFFICES ASSUME NEW b \in 0..N-1 PROVE cfg.limit = 0 \/ Ord(b) < cfg.limit
    BY <1>0, WantedBytes
  <2>1. b \in Nat /\ b <= N
    BY <1>0
  <2>2. Ord(b) <= Ord(N)
    BY <1>0, <2>1, OrdDiff
  <2>3. Ord(b) \in Nat /\ Ord(N) \in Nat
    BY OrdNat
  <2>4. cfg.limit = 0 \/ Ord(N) < cfg.limit
    BY <1>2 DEF Open
  <2>. QED
    BY ONLY <1>0, <2>2, <2>3, <2>4
<1>6. Wanted \subseteq 0..N-1
  BY <1>0, WantedInput
<1>7. Start(held[n], hand[n].cum, hand[n].end)'
  BY <1>0 DEF Start
<1>8. ExactInv'
  <2>1. cutoff' = 0
    BY <1>0
  <2>2. \A b \in Wanted : copies'[b] # 0
    BY <1>4, <1>6
  <2>. QED
    BY <1>0, <1>5, <1>7, <2>1, <2>2, ExactFrame
<1>9. s < N => BatchOK(<<s, N>>)
  <2>. SUFFICES ASSUME s < N PROVE BatchOK(<<s, N>>)
    OBVIOUS
  <2>1. Max(Wanted) = N - 1
    <3>1. N \in 1..N /\ \A b \in 0..N-1 : b < N
      BY <1>0
    <3>. QED
      BY <1>0, <1>5, <3>1, MaxWanted
  <2>2. Cardinality(DelimsIn(s, N)) = Ord(N) - Ord(s)
    <3>1. s \in Nat /\ s <= N
      BY <1>0
    <3>. QED
      BY <1>0, <3>1, OrdDiff
  <2>3. Ord(N) - Ord(s) < BatchLines /\ Ord(N) \in Nat /\ Ord(s) \in Nat
    BY <1>2, OrdNat DEF Open
  <2>4. Cardinality(DelimsIn(s, N)) <= BatchLines
    BY ONLY <1>0, <2>2, <2>3
  <2>. QED
    BY <2>1, <2>4 DEF BatchOK
<1>10. BatchesExact'
  <2>1. \A b \in batches : BatchOK(b)
    BY DEF BatchesExact, BatchOK
  <2>2. \A b \in batches' : BatchOK(b)
    BY <1>3, <1>9, <2>1
  <2>3. Wanted' = Wanted
    BY <1>0 DEF Wanted, Lines
  <2>. QED
    BY <2>2, <2>3 DEF BatchesExact, BatchOK
<1>. QED
  BY <1>8, <1>10

LEMMA ScansExact ==
  ASSUME IInv, FreshInv, EndInv, ChainInv, ExactInv, BatchesExact, NEW n \in Nodes, Scans(n)
  PROVE  ExactInv' /\ BatchesExact'
<1>. SUFFICES ASSUME ~stale' PROVE ExactInv' /\ BatchesExact'
  BY DEF ExactInv, BatchesExact
<1>0. ~stale /\ UNCHANGED cfg
  BY ScansFrame, ScansClose DEF FreshInv
<1>1. UNCHANGED batches => BatchesExact'
  <2>1. Wanted' = Wanted
    BY <1>0 DEF Wanted, Lines
  <2>. QED
    BY <1>0, <2>1 DEF BatchesExact
<1>2. CASE ~cfg.exact
  <2>1. UNCHANGED batches
    BY <1>2 DEF Scans, SkipPast, Scan, ScanExact, ScanExactEof, SkipExact
  <2>2. ExactInv'
    BY <1>0, <1>2 DEF ExactInv
  <2>. QED
    BY <1>1, <2>1, <2>2
<1>3. CASE cfg.exact /\ cutoff # 0
  <2>1. (SkipPast(n) \/ SkipExact(n)) /\ cutoff <= held[n] /\ cutoff' = cutoff
    BY <1>3, WhoScans DEF Chained
  <2>2. UNCHANGED batches
    BY <2>1 DEF SkipPast, SkipExact
  <2>3. cfg.limit > 0
    BY <1>3 DEF EndInv
  <2>4. ExactInv'
    BY <1>0, <1>3, <2>1, <2>3, SkipsExact
  <2>. QED
    BY <1>1, <2>2, <2>4
<1>4. CASE cfg.exact /\ cutoff = 0
  <2>1. ScanExact(n) \/ ScanExactEof(n)
    BY <1>4, WhoScans DEF Chained, Scan
  <2>. QED
    BY <1>0, <1>4, <2>1, ScanExactKeeps, ScanExactEofKeeps
<1>. QED
  BY <1>2, <1>3, <1>4

(* With -L a start that is handed on late is that of a chunk past the      *)
(* limit, and so is the chunk that has the descriptor by then.             *)
LEMMA HandoffExact ==
  ASSUME IInv, FreshInv, LineInv, InTime, EndInv, NEW n \in Nodes, Handoff(n)
  PROVE  ExactInv'
<1>. SUFFICES ASSUME ~stale', cfg.exact
     PROVE  ExactInv!2'
  BY HandoffFacts DEF ExactInv
<1>0. /\ ChainInv /\ ExactInv /\ Chained /\ ~stale
      /\ UNCHANGED <<cfg, held, hand, copies, closed, cutoff>> /\ Handing(n)
      /\ \A k \in Nodes : Handing(k)' => Handing(k) /\ k # n
      /\ NData \in Nat /\ cfg.limit \in Nat /\ cutoff \in 0..NData+1
  BY HandoffFacts, ChunksCover, Sizes DEF LineInv, Chained, FreshInv, Types
<1>1. PICK h \in 0..NData : h = held[n]
  BY HandoffFacts
<1>2. PICK w \in Slots : /\ w = Slot(h)
                         /\ meta'[w].major = meta[w].major /\ meta'[w].cum = hand[n].cum
                         /\ meta'[w].end = hand[n].end
                         /\ \A s \in Slots : s # w => meta'[s] = meta[s]
  BY <1>1, HandoffFacts
<1>3. \A m, c, e : Start(m, c, e)' = Start(m, c, e)
  BY <1>0 DEF Start, Open, Over, Full
<1>4. Start(h, hand[n].cum, hand[n].end)
  BY <1>0, <1>1 DEF ExactInv
<1>5. Start(meta[w].major, hand[n].cum, hand[n].end)
  <2>1. CASE cutoff = 0
    <3>1. meta[w].major = h
      BY <1>0, <1>1, <1>2, <2>1 DEF InTime
    <3>. QED
      BY <1>4, <3>1
  <2>2. CASE cutoff # 0
    <3>1. closed[h] # 0 /\ cutoff <= h + 1 /\ cfg.limit > 0 /\ Ord(RawEnd(cutoff - 1)) >= cfg.limit
      BY <1>0, <1>1, <2>2 DEF ChainInv, ExactInv, EndInv
    <3>2. PICK m \in 0..NData : m = meta[w].major /\ h <= m
      BY <1>0, <1>2, <3>1, ClosedBelow, SlotLater
    <3>. SUFFICES ASSUME m # NData PROVE Over(RawEnd(m), hand[n].cum)
      BY <3>2 DEF Start
    <3>3. cutoff - 1 \in 0..NData /\ cutoff - 1 <= h /\ cutoff - 1 <= m /\ h # NData
      BY <1>0, <2>2, <3>1, <3>2
    <3>4. RawEnd(cutoff - 1) \in Nat /\ RawEnd(h) \in Nat /\ RawEnd(m) \in Nat
          /\ RawEnd(cutoff - 1) <= RawEnd(h) /\ RawEnd(cutoff - 1) <= RawEnd(m)
      BY <3>3, ChunkEnds, Sizes
    <3>5. Ord(RawEnd(cutoff - 1)) <= Ord(RawEnd(h)) /\ Ord(RawEnd(cutoff - 1)) <= Ord(RawEnd(m))
      BY <3>4, OrdDiff
    <3>6. Ord(RawEnd(cutoff - 1)) \in Nat /\ Ord(RawEnd(h)) \in Nat /\ Ord(RawEnd(m)) \in Nat
      BY OrdNat
    <3>7. Ord(RawEnd(h)) >= cfg.limit /\ Ord(RawEnd(m)) >= cfg.limit
      BY ONLY <1>0, <3>1, <3>5, <3>6
    <3>8. ~Open(RawEnd(h), hand[n].cum, hand[n].end)
      BY <1>0, <3>1, <3>6, <3>7 DEF Open
    <3>9. hand[n].cum = cfg.limit
      BY <1>4, <3>3, <3>8 DEF Start, Over
    <3>. QED
      BY <2>2, <3>1, <3>7, <3>9 DEF Over
  <2>. QED
    BY <2>1, <2>2
<1>6. \A s \in Slots : meta'[s].cum # Unset => Start(meta'[s].major, meta'[s].cum, meta'[s].end)
  BY <1>0, <1>2, <1>5 DEF ExactInv
<1>7. \A k \in Nodes : Handing(k)' => Start(held[k], hand[k].cum, hand[k].end)
  BY <1>0 DEF ExactInv
<1>8. \A s \in Slots : meta'[s].cum # Unset => Start(meta[s].major, meta[s].cum, meta[s].end)'
  <2>. SUFFICES ASSUME NEW s \in Slots, meta'[s].cum # Unset
       PROVE  Start(meta[s].major, meta[s].cum, meta[s].end)'
    OBVIOUS
  <2>1. PICK m, c, e : m = meta'[s].major /\ c = meta'[s].cum /\ e = meta'[s].end
    OBVIOUS
  <2>2. Start(m, c, e)
    BY <1>6, <2>1
  <2>3. Start(m, c, e)'
    BY <1>3, <2>2
  <2>. QED
    BY <2>1, <2>3
<1>9. \A k \in Nodes : Handing(k)' => Start(held[k], hand[k].cum, hand[k].end)'
  <2>. SUFFICES ASSUME NEW k \in Nodes, Handing(k)' PROVE Start(held[k], hand[k].cum, hand[k].end)'
    OBVIOUS
  <2>1. PICK m, c, e : m = held[k] /\ c = hand[k].cum /\ e = hand[k].end
    OBVIOUS
  <2>2. Start(m, c, e)'
    BY <1>3, <1>7, <2>1
  <2>. QED
    BY <1>0, <2>1, <2>2
<1>10. Wanted' = Wanted
  BY <1>0 DEF Wanted, Lines
<1>. QED
  BY <1>0, <1>8, <1>9, <1>10 DEF ExactInv

LEMMA HandoffLine ==
  ASSUME IInv, FreshInv, LineInv, InTime, EndInv, NEW n \in Nodes, Handoff(n)
  PROVE  LineInv'
<1>0. UNCHANGED <<cfg, copies, closed, batches, stale>>
  BY HandoffFacts
<1>1. OutsInv' /\ BatchesExact'
  <2>1. Wanted' = Wanted
    BY <1>0 DEF Wanted, Lines
  <2>2. \A m, b : Covers(m, b)' = Covers(m, b)
    BY DEF Covers, StartsAt, IsEnd
  <2>. QED
    BY <1>0, <2>1, <2>2 DEF LineInv, OutsInv, BatchesExact
<1>. QED
  BY <1>1, HandoffChain, HandoffCount, HandoffExact DEF LineInv

-------------------------------------------------------------------------------
(* A step keeps all of it, as long as who hands on before the limit is met *)
(* does so in time.                                                        *)

LEMMA EndedStep == ChunkInv /\ EndedInv /\ [Next]_vars => EndedInv'
<1>. SUFFICES ASSUME ChunkInv, EndedInv, [Next]_vars PROVE EndedInv'
  OBVIOUS
<1>0. IInv /\ FreshInv /\ Types
  BY DEF ChunkInv, FreshInv
<1>1. CASE UNCHANGED vars
  BY <1>1 DEF EndedInv, vars, ingestVars, queueVars, scanVars, history
<1>2. CASE Ingest
  BY <1>0, <1>2, EndedIngest
<1>3. ASSUME NEW n \in Nodes, Index(n) PROVE EndedInv'
  BY <1>0, <1>3, EndedIndex
<1>4. ASSUME NEW n \in Nodes, Scanner(n) PROVE EndedInv'
  BY <1>0, <1>4, EndedScanner
<1>. QED
  BY <1>1, <1>2, <1>3, <1>4 DEF Next

LEMMA LineStep ==
  ChunkInv /\ LeftInv /\ OwnInv /\ LineInv /\ InTime /\ [Next]_vars => LineInv'
<1>. SUFFICES ASSUME ChunkInv, LeftInv, OwnInv, LineInv, InTime, [Next]_vars PROVE LineInv'
  OBVIOUS
<1>0. IInv /\ FreshInv /\ EndsInv /\ EndInv /\ ChainInv /\ ExactInv /\ BatchesExact
  BY DEF ChunkInv, LeftInv, LineInv
<1>1. CASE UNCHANGED vars
  <2>1. UNCHANGED <<cfg, copies, closed, batches, stale, hand, cutoff, held, meta>>
        /\ \A k \in Nodes : Handing(k)' = Handing(k)
    BY <1>1 DEF Handing, vars, ingestVars, queueVars, scanVars, history
  <2>. QED
    BY <2>1, QuietLine
<1>2. CASE Ingest
  <2>1. 0 \in Nodes
    BY Sizes DEF Nodes
  <2>. QED
    BY <1>0, <1>2, <2>1, QuietFacts, QuietLine
<1>3. ASSUME NEW n \in Nodes,
             Index(n) \/ Own(n) \/ Steal(n) \/ Finish(n) \/ Claim(n) \/ Overran(n) \/ Snapshot(n)
      PROVE  LineInv'
  <2>1. /\ UNCHANGED <<cfg, copies, closed, batches, stale, cutoff>>
        /\ \A k \in Nodes : Handing(k)' => Handing(k) /\ held'[k] = held[k] /\ hand'[k] = hand[k]
        /\ \A s \in Slots : meta'[s].cum # Unset =>
             /\ meta'[s].cum = meta[s].cum /\ meta'[s].major = meta[s].major
             /\ cfg.exact => meta'[s].end = meta[s].end
    BY <1>0, <1>3, QuietFacts
  <2>. QED
    BY <2>1, QuietLine
<1>4. ASSUME NEW n \in Nodes, Scans(n) PROVE LineInv'
  BY <1>0, <1>4, ScansChain, ScansCount, ScansOuts, ScansExact DEF LineInv
<1>5. ASSUME NEW n \in Nodes, Handoff(n) PROVE LineInv'
  BY <1>0, <1>5, HandoffLine
<1>. QED
  BY <1>1, <1>2, <1>3, <1>4, <1>5 DEF Next, Scanner, Scans

-------------------------------------------------------------------------------
(* The ring of descriptors has room for what may be queued or held.        *)
(*                                                                         *)
(* Until the limit is met the chunks that are not closed are the last      *)
(* ones.  Each waits in a queue, QueueLimit of them at most beyond its     *)
(* tail, or is held by a scanner; so ingest has not come round to them,    *)
(* nor to the one before them.                                             *)
(*                                                                         *)
(* The code sees to it: ring_numa_ingest clamps current_buffer_limit to    *)
(* half of META_RING_SIZE = 4096 over the number of nodes, or to 4 where   *)
(* that is more, of 512 nodes at most.                                     *)

Roomy ==
  (\E c \in Modes : c.exact \/ c.limit > 0) => NumNodes * (QueueLimit + 1) < MetaSize

(* Chunk k is with p: held by a scanner, or the p[2]-th beyond the tail.   *)
With(k, p) ==
  IF p[2] = 0 THEN Holding(p[1]) /\ queue[from[p[1]]][idx[p[1]] + 1] = k
  ELSE queue[p[1]][tail[p[1]] + p[2]] = k

LEMMA WithSomebody ==
  ASSUME IInv, Types, LeftInv, ~stale, NEW k \in 0..NData, k < major, closed[k] = 0
  PROVE  \E p \in Nodes \X (0..QueueLimit) : With(k, p)
<1>0. QueueLimit \in Nat /\ tail \in [Nodes -> Nat] /\ major \in Nat
  BY ChunksAssumption DEF IInv, ClaimInv, QueueInv
<1>1. PICK v \in Nodes : \E i \in 1..Len(queue[v]) : queue[v][i] = k
  <2>1. k \in 0..major-1
    BY <1>0
  <2>. QED
    BY <2>1 DEF LeftInv, DealtInv
<1>2. PICK i \in 1..Len(queue[v]) : queue[v][i] = k
  BY <1>1
<1>3. Len(queue[v]) \in Nat /\ i \in Nat /\ i > 0 /\ tail[v] \in Nat
  BY <1>0, <1>2 DEF IInv, QueueInv
<1>4. CASE i <= tail[v]
  <2>1. i \in 1..tail[v] /\ ~(i > Len(queue[v]))
    BY <1>3, <1>4
  <2>2. HeldAt(v, i)
    BY <1>2, <2>1 DEF LeftInv, WorkInv
  <2>3. PICK n \in Nodes : Holding(n) /\ from[n] = v /\ idx[n] = i - 1
    BY <2>2 DEF HeldAt
  <2>4. idx[n] + 1 = i
    BY <1>3, <2>3
  <2>5. With(k, <<n, 0>>)
    BY <1>2, <2>3, <2>4 DEF With
  <2>6. <<n, 0>> \in Nodes \X (0..QueueLimit)
    BY <1>0
  <2>. QED
    BY <2>5, <2>6
<1>5. CASE i > tail[v]
  <2>1. PICK j \in 1..QueueLimit : tail[v] + j = i
    <3>1. Len(queue[v]) - tail[v] <= QueueLimit
      BY DEF LeftInv, DealtInv
    <3>2. PICK l \in Nat, t \in Nat : l = Len(queue[v]) /\ t = tail[v] /\ i <= l
      BY <1>2, <1>3
    <3>3. l - t <= QueueLimit /\ i > t
      BY <1>5, <3>1, <3>2
    <3>4. l \in Nat /\ t \in Nat /\ i \in Nat /\ QueueLimit \in Nat /\ i <= l
      BY <1>0, <1>3, <3>2
    <3>5. i - t \in 1..QueueLimit /\ t + (i - t) = i
      BY ONLY <3>3, <3>4
    <3>. QED
      BY <3>2, <3>5
  <2>2. With(k, <<v, j>>)
    BY <1>0, <1>2, <2>1 DEF With
  <2>3. <<v, j>> \in Nodes \X (0..QueueLimit)
    BY <1>0, <2>1
  <2>. QED
    BY <2>2, <2>3
<1>. QED
  BY <1>3, <1>4, <1>5

LEMMA FewOpen ==
  ASSUME Roomy, IInv, Types, LeftInv, Chained, ~stale, NEW f \in 0..NData, f < major,
         \A k \in 0..NData : f <= k => closed[k] = 0
  PROVE  major < f + MetaSize
<1>0. /\ QueueLimit \in Nat /\ NumNodes \in Nat \ {0} /\ MetaSize \in Nat /\ NData \in Nat
      /\ major \in 0..NData+1
  BY ChunksAssumption, ChunksCover DEF Types
<1> DEFINE S == f..major-1
           T == Nodes \X (0..QueueLimit)
           g == [k \in S |-> CHOOSE p \in T : With(k, p)]
<1>1. \A k \in S : g[k] \in T /\ With(k, g[k])
  <2>. SUFFICES ASSUME NEW k \in S PROVE g[k] \in T /\ With(k, g[k])
    OBVIOUS
  <2>1. k \in 0..NData /\ k < major /\ f <= k
    BY <1>0
  <2>2. \E p \in T : With(k, p)
    BY <2>1, WithSomebody
  <2>. QED
    BY <2>2
<1>2. \A k, l \in S : g[k] = g[l] => k = l
  <2>. HIDE DEF S, g, T
  <2>. QED
    BY <1>1 DEF With
<1>3. IsFiniteSet(S) /\ Cardinality(S) = major - f
  BY <1>0, FS_Interval
<1>4. IsFiniteSet(T) /\ Cardinality(T) = NumNodes * (QueueLimit + 1)
  <2>1. IsFiniteSet(Nodes) /\ Cardinality(Nodes) = NumNodes
    BY <1>0, FS_Interval DEF Nodes
  <2>2. IsFiniteSet(0..QueueLimit) /\ Cardinality(0..QueueLimit) = QueueLimit + 1
    BY <1>0, FS_Interval
  <2>3. IsFiniteSet(T) /\ Cardinality(T) = Cardinality(Nodes) * Cardinality(0..QueueLimit)
    BY <2>1, <2>2, FS_Product
  <2>. QED
    BY <2>1, <2>2, <2>3
<1>5. ~(Cardinality(T) < Cardinality(S))
  <2>1. g \in [S -> T]
    BY <1>1
  <2>. HIDE DEF S, g, T
  <2>. QED
    BY <1>2, <1>3, <1>4, <2>1, FS_PigeonHole
<1>6. PICK r \in Int : r = NumNodes * (QueueLimit + 1)
  BY <1>0
<1>7. r < MetaSize /\ ~(r < major - f)
  <2>1. cfg \in Modes /\ (cfg.exact \/ cfg.limit > 0)
    BY DEF Types, Chained
  <2>. QED
    BY <1>3, <1>4, <1>5, <1>6, <2>1 DEF Roomy
<1>. QED
  BY ONLY <1>0, <1>6, <1>7, f \in 0..NData

(* What a scanner reads of a chunk that is not closed, and of the one      *)
(* before it, is their own.                                                *)
LEMMA OpenFresh ==
  ASSUME Roomy, IInv, FreshInv, LeftInv, ChainInv, Chained, ~stale, cutoff = 0,
         NEW f \in 0..NData, f < major, closed[f] = 0
  PROVE  \A k \in 0..NData : f <= k + 1 /\ k < major => meta[Slot(k)].major = k
<1>0. Types /\ MetaSize \in Nat /\ NData \in Nat /\ major \in 0..NData+1
  BY Sizes, ChunksCover DEF FreshInv, Types
<1>1. \A k \in 0..NData : f <= k => closed[k] = 0
  BY DEF ChainInv
<1>2. major < f + MetaSize
  BY <1>0, <1>1, FewOpen
<1>3. \A k \in 0..NData : f <= k + 1 => k \in Nat /\ major <= k + MetaSize
  BY <1>0, <1>2
<1>. QED
  BY <1>3 DEF FreshInv, RingInv

TimeInv ==
  /\ \A n \in Nodes : Handing(n) => Chained
  /\ Chained /\ cutoff = 0 =>
       ~stale /\ \A n \in Nodes : pc[n] = "gate" => snap[n] = held[n]

LEMMA Timely ==
  ASSUME Roomy, IInv, FreshInv, LeftInv, ChainInv, TimeInv
  PROVE  InTime
<1>. SUFFICES ASSUME NEW n \in Nodes, Handing(n), cutoff = 0 PROVE meta[Slot(held[n])].major = held[n]
  BY DEF InTime
<1>0. /\ Types /\ MetaSize \in Nat /\ NData \in Nat /\ major \in 0..NData+1 /\ MetaSize > 2
      /\ Chained /\ ~stale
  BY Sizes, ChunksCover DEF FreshInv, Types, TimeInv
<1>1. PICK h \in 0..NData : h = held[n]
  BY <1>0 DEF Types
<1>2. closed[h] # 0 /\ \A m \in 0..NData : h < m => closed[m] = 0
  BY <1>0, <1>1 DEF ChainInv
<1>3. h < major
  BY <1>0, <1>2, ClosedBelow
<1>4. CASE major = h + 1
  BY <1>0, <1>1, <1>3, <1>4 DEF FreshInv, RingInv
<1>5. CASE major # h + 1
  <2>1. h + 1 \in 0..NData /\ h + 1 < major /\ h < h + 1
    BY <1>0, <1>3, <1>5
  <2>2. closed[h + 1] = 0
    BY <1>2, <2>1
  <2>. QED
    BY <1>0, <1>1, <1>3, <2>1, <2>2, OpenFresh
<1>. QED
  BY <1>4, <1>5

LEMMA TimeFrame ==
  ASSUME TimeInv, UNCHANGED <<cfg, cutoff, stale>>,
         \A k \in Nodes : Handing(k)' => Handing(k),
         Chained /\ cutoff = 0 => \A k \in Nodes : pc'[k] = "gate" =>
           snap'[k] = held'[k] \/ (pc[k] = "gate" /\ snap'[k] = snap[k] /\ held'[k] = held[k])
  PROVE  TimeInv'
BY DEF TimeInv, Chained

LEMMA TimeQuiet ==
  ASSUME IInv, TimeInv, NEW n \in Nodes,
         \/ Ingest \/ Index(n) \/ Handoff(n)
         \/ Own(n) \/ Steal(n) \/ Finish(n) \/ Claim(n) \/ Overran(n)
  PROVE  TimeInv'
<1>0. pc \in [Nodes -> {"top", "claim", "wait", "gate", "handoff", "done"}]
  BY DEF IInv, ClaimInv
<1>1. /\ UNCHANGED <<cfg, cutoff, stale, snap, held>>
      /\ \E p \in {"top", "claim", "wait", "done"} : pc' = pc \/ pc' = [pc EXCEPT ![n] = p]
  <2>1. CASE Ingest
    BY <2>1 DEF Ingest, ChooseTarget, Publish, PublishEof, IngestStops, notIngest, scanVars, history
  <2>2. CASE Index(n)
    BY <2>2 DEF Index, scanVars, history
  <2>3. CASE Handoff(n)
    BY <2>3 DEF Handoff, notChunk, history
  <2>4. CASE Own(n) \/ Steal(n) \/ Finish(n) \/ Claim(n) \/ Overran(n)
    BY <2>4 DEF Own, Steal, Finish, Claim, Overran, ClaimFrom, notClaim
  <2>. QED
    BY <2>1, <2>2, <2>3, <2>4
<1>2. \A k \in Nodes : (pc'[k] = "gate" => pc[k] = "gate") /\ (pc'[k] = "handoff" => pc[k] = "handoff")
  BY <1>0, <1>1
<1>. QED
  BY <1>1, <1>2, TimeFrame DEF Handing

(* A scanner reads the descriptor of the chunk that it claimed.            *)
LEMMA TimeSnapshot ==
  ASSUME Roomy, IInv, FreshInv, LeftInv, ChainInv, TimeInv, NEW n \in Nodes, Snapshot(n)
  PROVE  TimeInv'
<1>0. /\ pc \in [Nodes -> {"top", "claim", "wait", "gate", "handoff", "done"}]
      /\ snap \in [Nodes -> 0..NData] /\ held \in [Nodes -> 0..NData] /\ NData \in Nat
      /\ from[n] \in Nodes /\ idx[n] \in Nat /\ Types
  BY ChunksCover DEF IInv, ClaimInv, FreshInv, Types
<1>1. /\ pc[n] = "wait" /\ ready[from[n]] > idx[n] /\ UNCHANGED <<cfg, cutoff, stale>>
      /\ pc' = [pc EXCEPT ![n] = "gate"]
  BY DEF Snapshot, notClaim
<1>2. PICK m : m = queue[from[n]][idx[n] + 1]
  OBVIOUS
<1>3. held' = [held EXCEPT ![n] = m] /\ snap' = [snap EXCEPT ![n] = meta[Slot(m)].major]
  BY <1>2 DEF Snapshot
<1>4. idx[n] + 1 \in 1..Len(queue[from[n]])
  BY <1>0, <1>1 DEF IInv, QueueInv
<1>5. m \in 0..NData /\ m < major
  BY <1>0, <1>2, <1>4, QueuedChunk
<1>6. Chained /\ cutoff = 0 => meta[Slot(m)].major = m
  <2>. SUFFICES ASSUME Chained, cutoff = 0 PROVE meta[Slot(m)].major = m
    OBVIOUS
  <2>1. ~stale
    BY DEF TimeInv
  <2>2. closed[m] = 0
    <3>. SUFFICES ASSUME closed[m] # 0 PROVE FALSE
      OBVIOUS
    <3>1. PICK v \in Nodes : \E i \in 1..Len(queue[v]) : queue[v][i] = m /\ Through(v, i)
      BY <1>5, <2>1 DEF IInv, ClosedInv
    <3>2. PICK i \in 1..Len(queue[v]) : queue[v][i] = m /\ Through(v, i)
      BY <3>1
    <3>3. v = from[n] /\ i = idx[n] + 1
      <4>1. PICK w \in Nodes : w = from[n]
        BY <1>0
      <4>2. PICK j \in 1..Len(queue[w]) : j = idx[n] + 1
        BY <1>4, <4>1
      <4>3. queue[w][j] = queue[v][i]
        BY <1>2, <3>2, <4>1, <4>2
      <4>4. w = v /\ j = i
        BY <4>3 DEF IInv, QueueInv
      <4>. QED
        BY <4>1, <4>2, <4>4
    <3>4. Holding(n) /\ idx[n] = i - 1
      BY <1>0, <1>1, <3>3 DEF Holding
    <3>. QED
      BY <3>2, <3>3, <3>4 DEF Through
  <2>3. m <= m + 1
    BY <1>5
  <2>. QED
    BY <1>5, <2>1, <2>2, <2>3, OpenFresh
<1>7. \A k \in Nodes : Handing(k)' => Handing(k)
  BY <1>0, <1>1 DEF Handing
<1>8. Chained /\ cutoff = 0 => \A k \in Nodes : pc'[k] = "gate" =>
        snap'[k] = held'[k] \/ (pc[k] = "gate" /\ snap'[k] = snap[k] /\ held'[k] = held[k])
  BY <1>0, <1>1, <1>3, <1>6
<1>. QED
  BY <1>1, <1>7, <1>8, TimeFrame

(* What it reads when it has the chunk is still of that chunk.             *)
LEMMA TimeScans ==
  ASSUME Roomy, IInv, FreshInv, LeftInv, ChainInv, TimeInv, NEW n \in Nodes, Scans(n)
  PROVE  TimeInv'
<1>0. /\ pc \in [Nodes -> {"top", "claim", "wait", "gate", "handoff", "done"}]
      /\ held[n] \in 0..NData /\ snap[n] \in 0..NData /\ NData \in Nat /\ cfg.limit \in Nat
      /\ UNCHANGED <<cfg, held, snap>> /\ pc[n] = "gate" /\ Types
  BY ScansFrame, ChunksCover, Sizes DEF IInv, ClaimInv, FreshInv, Types
<1>1. PICK p \in {"top", "handoff"} : pc' = [pc EXCEPT ![n] = p]
  BY ScansFrame
<1>2. \A k \in Nodes : Handing(k)' => Chained
  <2>1. Handing(n)' => Chained
    <3>1. CASE SkipPast(n)
      BY <3>1 DEF SkipPast, PastCutoff, Chained
    <3>2. CASE Scan(n)
      <4>1. cfg.limit = 0 => pc' = [pc EXCEPT ![n] = "top"]
        BY <3>2 DEF Scan
      <4>2. cfg.limit = 0 => ~Handing(n)'
        BY <1>0, <4>1 DEF Handing
      <4>. QED
        BY <1>0, <4>2 DEF Chained
    <3>3. CASE ScanExact(n) \/ ScanExactEof(n) \/ SkipExact(n)
      BY <3>3 DEF ScanExact, ScanExactEof, SkipExact, Chained
    <3>. QED
      BY <3>1, <3>2, <3>3 DEF Scans
  <2>2. \A k \in Nodes : k # n => Handing(k)' = Handing(k)
    BY <1>0, <1>1 DEF Handing
  <2>. QED
    BY <2>1, <2>2 DEF TimeInv
<1>3. cutoff' = 0 => cutoff = 0
  BY <1>0, LimitMet
<1>4. Chained /\ cutoff = 0 => ~stale'
  <2>. SUFFICES ASSUME Chained, cutoff = 0 PROVE ~stale'
    OBVIOUS
  <2>1. ~stale /\ snap[n] = held[n]
    BY <1>0 DEF TimeInv
  <2>2. PICK h \in 0..NData : h = held[n]
    BY <1>0
  <2>3. closed[h] = 0 /\ h < major
    <3>1. closed[h] = 0
      BY <1>0, <2>1, <2>2, NotYetClosed
    <3>2. idx[n] + 1 \in 1..Len(queue[from[n]]) /\ from[n] \in Nodes /\ queue[from[n]][idx[n] + 1] = h
      BY <1>0, <2>1, <2>2, NotYetClosed
    <3>. QED
      BY <1>0, <3>1, <3>2, QueuedChunk
  <2>4. \A k \in 0..NData : h <= k + 1 /\ k < major => meta[Slot(k)].major = k
    BY <2>1, <2>3, OpenFresh
  <2>5. h <= h + 1 /\ (h > 0 => h - 1 \in 0..NData /\ h <= (h - 1) + 1 /\ h - 1 < major)
    BY <1>0, <2>3 DEF Types
  <2>6. meta[Slot(h)].major = h /\ (h > 0 => meta[Slot(h - 1)].major = h - 1)
    BY <2>3, <2>4, <2>5
  <2>7. ~Recycled(n)
    BY <2>1, <2>2, <2>6 DEF Recycled, Descriptor
  <2>. QED
    BY <2>1, <2>7, ScansFrame DEF Flush
<1>5. \A k \in Nodes : pc'[k] = "gate" => pc[k] = "gate"
  BY <1>0, <1>1
<1>. QED
  BY <1>0, <1>2, <1>3, <1>4, <1>5 DEF TimeInv, Chained

RoomInv == ChunkInv /\ LeftInv /\ EndedInv /\ OwnInv /\ LineInv /\ TimeInv

LEMMA RoomInit == Init => RoomInv
<1>. SUFFICES ASSUME Init PROVE RoomInv
  OBVIOUS
<1>1. ChunkInv
  BY Starts, FreshInit, HandInit, TokenInit DEF ChunkInv
<1>2. TimeInv
  BY DEF Init, TimeInv, Handing
<1>. QED
  BY <1>1, <1>2, LeftInit, LineInit DEF RoomInv

LEMMA RoomStep == Roomy /\ RoomInv /\ [Next]_vars => RoomInv'
<1>. SUFFICES ASSUME Roomy, RoomInv, [Next]_vars PROVE RoomInv'
  OBVIOUS
<1>0. /\ ChunkInv /\ LeftInv /\ EndedInv /\ OwnInv /\ LineInv /\ TimeInv
      /\ IInv /\ FreshInv /\ ChainInv
  BY DEF RoomInv, ChunkInv, LineInv
<1>1. ChunkInv' /\ LeftInv' /\ EndedInv' /\ OwnInv'
  BY <1>0, ChunkStep, LeftStep, EndedStep, OwnKeeps DEF ChunkInv
<1>2. LineInv'
  BY <1>0, Timely, LineStep
<1>3. TimeInv'
  <2>1. CASE UNCHANGED vars
    BY <1>0, <2>1 DEF TimeInv, Chained, Handing, vars, scanVars, history
  <2>2. CASE Ingest
    <3>1. 0 \in Nodes
      BY Sizes DEF Nodes
    <3>. QED
      BY <1>0, <2>2, <3>1, TimeQuiet
  <2>3. ASSUME NEW n \in Nodes,
               \/ Index(n) \/ Handoff(n)
               \/ Own(n) \/ Steal(n) \/ Finish(n) \/ Claim(n) \/ Overran(n)
        PROVE  TimeInv'
    BY <1>0, <2>3, TimeQuiet
  <2>4. ASSUME NEW n \in Nodes, Snapshot(n) PROVE TimeInv'
    BY <1>0, <2>4, TimeSnapshot
  <2>5. ASSUME NEW n \in Nodes, Scans(n) PROVE TimeInv'
    BY <1>0, <2>5, TimeScans
  <2>. QED
    BY <2>1, <2>2, <2>3, <2>4, <2>5 DEF Next, Scanner, Scans
<1>. QED
  BY <1>1, <1>2, <1>3 DEF RoomInv

LEMMA RoomAlways == ASSUME Roomy PROVE Spec => []RoomInv
<1>1. Init => RoomInv
  BY RoomInit
<1>2. RoomInv /\ [Next]_vars => RoomInv'
  BY RoomStep
<1>. QED
  BY <1>1, <1>2, PTL DEF Spec

(* With -n and -L no descriptor is used again under the chain, until the   *)
(* limit is met: a scanner reads those of its chunk and of the one before, *)
(* and hands on to its own.                                                *)
THEOREM ChainFreshCorrect == ASSUME Roomy PROVE Spec => []ChainFresh
<1>1. RoomInv => ChainFresh
  <2>. SUFFICES ASSUME RoomInv, Chained, cutoff = 0
       PROVE  /\ ~stale
              /\ \A n \in Nodes : pc[n] = "handoff" => meta[Slot(held[n])].major = held[n]
    BY DEF ChainFresh, Chained
  <2>1. InTime /\ TimeInv
    BY Timely DEF RoomInv, ChunkInv, LineInv
  <2>. QED
    BY <2>1 DEF InTime, TimeInv, Handing
<1>. QED
  BY <1>1, RoomAlways, PTL

(* When all scanners are through, every chunk up to the last that is       *)
(* needed was closed, once: the orderer waits for no major in vain.        *)
THEOREM MajorsCorrect == ASSUME Roomy PROVE Spec => []MajorsClosed
<1>1. RoomInv => MajorsClosed
  <2>. SUFFICES ASSUME RoomInv, AllDone, ~stale, NEW m \in 0..major-1, cutoff = 0 \/ m < cutoff
       PROVE  closed[m] = 1
    BY DEF MajorsClosed
  <2>1. IInv /\ Types /\ LeftInv /\ EndInv /\ ChainInv
    BY DEF RoomInv, ChunkInv, FreshInv, LeftInv, LineInv
  <2>2. m \in 0..NData
    BY <2>1, ChunksCover DEF Types
  <2>3. CASE cutoff = 0
    BY <2>1, <2>2, <2>3, AllClosed DEF IInv, ClosedInv
  <2>4. CASE cutoff # 0
    <3>1. Chained
      BY <2>1, <2>4 DEF EndInv, Chained
    <3>2. closed[m] # 0
      BY <2>1, <2>2, <2>4, <3>1 DEF ChainInv
    <3>. QED
      BY <2>1, <2>2, <3>2 DEF IInv, ClosedInv
  <2>. QED
    BY <2>3, <2>4
<1>. QED
  BY <1>1, RoomAlways, PTL

(* When all scanners are through, exactly the wanted bytes are out, each   *)
(* once: no chunk was left in a queue, no line lost between two chunks,    *)
(* and the limit took neither a line too many nor one too few.             *)
THEOREM OrphanedCorrect == ASSUME Roomy PROVE Spec => []NoneOrphaned
<1>1. RoomInv => NoneOrphaned
  <2>. SUFFICES ASSUME RoomInv, AllDone, ~stale PROVE {b \in DOMAIN copies : copies[b] = 1} = Wanted
    BY DEF NoneOrphaned
  <2>1. IInv /\ Types /\ LeftInv /\ EndInv /\ ChainInv /\ CountInv /\ OutsInv /\ ExactInv
        /\ OutInv /\ TokenInv
    BY DEF RoomInv, ChunkInv, FreshInv, LeftInv, LineInv
  <2>2. /\ copies \in [0..N-1 -> Nat] /\ cfg \in Modes /\ cutoff \in 0..NData+1 /\ NData \in Nat
        /\ Wanted \subseteq 0..N-1
    BY <2>1, WantedInput, ChunksCover DEF Types
  <2>3. \A b \in 0..N-1 : copies[b] <= 1
    BY <2>1 DEF OutInv, TokenInv
  <2>4. cutoff = 0 => \A m \in 0..NData : closed[m] # 0
    BY <2>1, AllClosed
  <2>5. \A b \in 0..N-1 : copies[b] # 0 => b \in Wanted
    BY <2>1 DEF OutsInv, ExactInv
  <2>6. ASSUME NEW b \in Wanted PROVE copies[b] # 0
    <3>1. CASE cfg.exact
      <4>1. cutoff # 0 \/ closed[NData] # 0
        BY <2>2, <2>4
      <4>. QED
        BY <2>1, <3>1, <4>1 DEF ExactInv
    <3>2. CASE ~cfg.exact
      <4>1. PICK m \in 0..NData : Covers(m, b)
        BY <2>2, EveryByte
      <4>2. CASE closed[m] # 0
        BY <2>1, <3>2, <4>1, <4>2 DEF OutsInv
      <4>3. CASE closed[m] = 0
        <5>1. cutoff # 0 /\ cfg.limit > 0
          BY <2>1, <2>4, <4>3 DEF EndInv
        <5>2. cutoff <= m
          BY <2>1, <2>2, <4>3, <5>1 DEF ChainInv, Chained
        <5>3. Count(cutoff - 1, cfg.limit)
          BY <2>1, <3>2, <5>1 DEF CountInv
        <5>. QED
          BY <2>2, <4>1, <5>1, <5>2, <5>3, PastWanted
      <4>. QED
        BY <4>2, <4>3
    <3>. QED
      BY <3>1, <3>2
  <2>7. \A b \in 0..N-1 : copies[b] \in Nat /\ (copies[b] = 1 <=> b \in Wanted)
    <3>1. \A b \in 0..N-1 : copies[b] \in Nat
      BY <2>2
    <3>2. \A b \in 0..N-1 : copies[b] = 1 <=> copies[b] # 0
      BY <2>3, <3>1
    <3>. QED
      BY <2>5, <2>6, <3>1, <3>2
  <2>8. DOMAIN copies = 0..N-1
    BY <2>2
  <2>. QED
    BY <2>2, <2>7, <2>8
<1>. QED
  BY <1>1, RoomAlways, PTL

(* -L: every batch has exactly BatchLines lines, but for the last one,     *)
(* which ends where the input or the limit does.                           *)
THEOREM BatchesCorrect == ASSUME Roomy PROVE Spec => []BatchesExact
<1>1. RoomInv => BatchesExact
  BY DEF RoomInv, LineInv
<1>. QED
  BY <1>1, RoomAlways, PTL

===============================================================================
