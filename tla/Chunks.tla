-------------------------------- MODULE Chunks --------------------------------
(***************************************************************************)
(* The NUMA front of the pipeline: ingest cuts the input into chunks and   *)
(* deals them to the nodes' queues, each node's indexer finds where the    *)
(* last line of a chunk ends, each node's scanner claims chunks from its   *)
(* own queue or steals from another's.  A chunk is known by its major      *)
(* number; its descriptor lives in a ring of MetaSize slots that ingest    *)
(* uses again.                                                             *)
(*                                                                         *)
(* With a line limit (-n) each scanner waits for the running count of the  *)
(* chunk before its own (cum_lines).  With exact batches (-L) the scanner  *)
(* hands over the start of the open batch as well, in place of the         *)
(* indexer's boundary.                                                     *)
(*                                                                         *)
(* What follows the scanner is RingEngine's; here a scanned byte is out.   *)
(***************************************************************************)
EXTENDS Integers, Sequences, FiniteSets, FiniteSetsExt

CONSTANTS NumNodes,
          N,           \* bytes of input
          Delims,      \* offsets of the delimiter
          ChunkSize,   \* bytes ingest reads at a time
          KeepFor,     \* chunks ingest deals to one node in a row at most
          QueueLimit,  \* current_buffer_limit
          MetaSize,    \* META_RING_SIZE
          StealAt,     \* steal_threshold: backlog that may be stolen from
          BatchLines,  \* cfg_batch_start, the lines of an exact batch
          Modes        \* records [exact, limit]: -L and -n to check

Nodes == 0..NumNodes-1
NData == (N + ChunkSize - 1) \div ChunkSize

ASSUME ChunksAssumption ==
  /\ NumNodes \in Nat \ {0} /\ N \in Nat /\ Delims \subseteq 0..N-1
  /\ {ChunkSize, KeepFor, QueueLimit, MetaSize, StealAt, BatchLines} \subseteq Nat \ {0}
  /\ MetaSize > 2             \* 4096: a chunk, the one before it and the next
  /\ Modes \subseteq [exact : BOOLEAN, limit : Nat]

VARIABLES
  cfg,      \* exact_lines, cfg_limit
  \* ingest
  major,    \* current_major: the next chunk
  target,   \* the node it goes to (at first the last one: last_target = -1)
  kept,     \* chunks in a row for target; 0: a target is to be chosen
  eof,      \* ingest_eof_idx is set
  \* per node
  queue,    \* chunk_queue[0..chunk_queue_head-1]
  ready,    \* chunk_ready_head: what the indexer is through with
  tail,     \* chunk_queue_tail: the next claim
  indexerMajor, scanMajor,   \* progress marks for ingest
  \* global
  meta,     \* slot -> descriptor [major, end, cum]
  cutoff,   \* limit_cutoff_major: 0, or 1 + the chunk that met the limit
  \* per scanner
  pc,       \* "top", "claim", "wait", "gate", "handoff", "done"
  from,     \* steal_target
  idx,      \* claim_idx
  held,     \* current_major, read from the queue
  snap,     \* snap_major, read from the descriptor
  hand,     \* the chunk's end as read, then what the handoff publishes: [end, cum, last]
  \* history
  copies,   \* byte -> times it was put into a batch
  closed,   \* chunk -> times its FLAG_MAJOR_EOF was published
  batches,  \* exact batches: <<first byte, end>>
  stale     \* a scanner used a descriptor that was another chunk's by then

ingestVars == <<major, target, kept, eof>>
queueVars  == <<ready, tail, indexerMajor, scanMajor>>
scanVars   == <<pc, from, idx, held, snap, hand>>
history    == <<copies, closed, batches, stale>>
vars == <<cfg, ingestVars, queue, queueVars, meta, cutoff, scanVars, history>>

Unset == -1                     \* a field without its READY flag
Slot(m) == m % MetaSize
RawStart(m) == IF m < NData THEN m * ChunkSize ELSE N
RawEnd(m) == IF (m + 1) * ChunkSize < N THEN (m + 1) * ChunkSize ELSE N
DelimsIn(s, e) == {d \in Delims : s <= d /\ d < e}
QueueHead(n) == Len(queue[n])       \* chunk_queue_head

Init ==
  /\ cfg \in Modes
  /\ major = 0 /\ target = NumNodes - 1 /\ kept = 0 /\ eof = FALSE
  /\ queue = [n \in Nodes |-> <<>>]
  /\ ready = [n \in Nodes |-> 0] /\ tail = [n \in Nodes |-> 0]
  /\ indexerMajor = [n \in Nodes |-> 0] /\ scanMajor = [n \in Nodes |-> 0]
  /\ meta = [s \in 0..MetaSize-1 |-> [major |-> 0, end |-> Unset, cum |-> Unset]]
  /\ cutoff = 0
  /\ pc = [n \in Nodes |-> "top"] /\ from = [n \in Nodes |-> n]
  /\ idx = [n \in Nodes |-> 0] /\ held = [n \in Nodes |-> 0] /\ snap = [n \in Nodes |-> 0]
  /\ hand = [n \in Nodes |-> [end |-> 0, cum |-> 0, last |-> FALSE]]
  /\ copies = [b \in 0..N-1 |-> 0] /\ closed = [m \in 0..NData |-> 0] /\ batches = {}
  /\ stale = FALSE

-------------------------------------------------------------------------------
(* Ingest (ring_numa_ingest). *)

notIngest == <<cfg, queueVars, cutoff, scanVars, history>>

Backlog(n) == QueueHead(n) - tail[n]      \* int64: negative if over-claimed

(* Stay with a node for a while, or leave it early for a starving one;     *)
(* then the least backlog, the first one behind the last target.           *)
After(n, k) == (n + 1 + k) % NumNodes
LeastBacklog == Min({Backlog(n) : n \in Nodes})
ChooseTarget ==
  /\ ~eof /\ kept = 0
  /\ target' = After(target, Min({k \in Nodes : Backlog(After(target, k)) = LeastBacklog}))
  /\ kept' = 1
  /\ UNCHANGED <<major, eof, queue, meta, notIngest>>

QueueGate(n) == Backlog(n) < QueueLimit

(* The lifetime bound: no further than half the ring past the oldest chunk *)
(* somebody may still have to read.                                        *)
LeastOf(a, b) == IF a < b THEN a ELSE b
Unfinished == {n \in Nodes : QueueHead(n) > LeastOf(ready[n], tail[n])}
PinOf(n) == LeastOf(indexerMajor[n], scanMajor[n])
NoLifetimeGate == TRUE                \* mutant: no lifetime bound
LifetimeGate == \A n \in Unfinished : major < PinOf(n) + MetaSize \div 2

Enqueue(n) ==
  /\ meta' = [meta EXCEPT ![Slot(major)] = [major |-> major, end |-> Unset, cum |-> Unset]]
  /\ queue' = [queue EXCEPT ![n] = Append(@, major)]
  /\ major' = major + 1

Publish ==
  /\ ~eof /\ kept > 0 /\ major < NData
  /\ QueueGate(target) /\ LifetimeGate
  /\ Enqueue(target)
  /\ kept' \in {0} \cup (IF kept < KeepFor THEN {kept + 1} ELSE {})
  /\ UNCHANGED <<target, eof, notIngest>>

(* The end of the input: a chunk of no bytes goes to the next node.        *)
PublishEof ==
  /\ ~eof /\ major = NData
  /\ QueueGate(After(target, 0)) /\ Enqueue(After(target, 0))
  /\ eof' = TRUE
  /\ UNCHANGED <<target, kept, notIngest>>

(* NUMA_CHECK_SCANNERS_DONE: the limit is met, no more input is needed.    *)
IngestStops ==
  /\ ~eof /\ cfg.limit > 0
  /\ \/ \A n \in Nodes : pc[n] = "done"
     \/ cutoff > 0 /\ major >= cutoff
  /\ eof' = TRUE
  /\ UNCHANGED <<major, target, kept, queue, meta, notIngest>>

-------------------------------------------------------------------------------
(* The indexers (ring_indexer_numa). *)

(* The end of the last line in chunk m; a chunk without a delimiter hands  *)
(* on the boundary of the one before it, once that is known.               *)
Boundary(m) ==
  LET ds == DelimsIn(RawStart(m), RawEnd(m))
  IN  IF m = NData THEN N
      ELSE IF ds # {} THEN Max(ds) + 1
      ELSE IF m = 0 THEN 0 ELSE meta[Slot(m - 1)].end

ReadyAll(n) == QueueHead(n) + 1       \* mutant: the shelf is one too long
ReadyAfter(n) == ready[n] + 1

Index(n) ==
  /\ ready[n] < QueueHead(n)
  /\ LET m == queue[n][ready[n] + 1]
     IN  /\ IF cfg.exact THEN UNCHANGED meta
            ELSE Boundary(m) # Unset /\ meta' = [meta EXCEPT ![Slot(m)].end = Boundary(m)]
         /\ indexerMajor' = [indexerMajor EXCEPT ![n] = m]
  /\ ready' = [ready EXCEPT ![n] = ReadyAfter(n)]
  /\ UNCHANGED <<cfg, ingestVars, queue, tail, scanMajor, cutoff, scanVars, history>>

-------------------------------------------------------------------------------
(* The scanners: choice and claim of a chunk (core_scanner_loop). *)

notClaim == <<cfg, ingestVars, queue, ready, indexerMajor, meta, cutoff, copies, closed,
              batches>>

Ripe(n, least) == {v \in Nodes \ {n} : ready[v] > tail[v] /\ ready[v] - tail[v] >= least}
LocalExhausted(n) == tail[n] >= QueueHead(n)

(* starved: its workers have nothing to do either.                         *)
Victims(n, starved) == Ripe(n, IF eof /\ LocalExhausted(n) /\ starved THEN 1 ELSE StealAt)

ClaimFrom(n, v) ==
  /\ pc' = [pc EXCEPT ![n] = "claim"] /\ from' = [from EXCEPT ![n] = v]
  /\ UNCHANGED <<tail, scanMajor, idx, held, snap, hand, stale, notClaim>>

Own(n) == pc[n] = "top" /\ tail[n] < ready[n] /\ ClaimFrom(n, n)

Steal(n) ==
  /\ pc[n] = "top" /\ tail[n] >= ready[n]
  /\ \E starved \in BOOLEAN : \E v \in Victims(n, starved) : ClaimFrom(n, v)

FinishEarly(n) ==                     \* mutant: leaves with work in its queue
  /\ pc[n] = "top" /\ tail[n] >= ready[n] /\ eof
  /\ pc' = [pc EXCEPT ![n] = "done"]
  /\ UNCHANGED <<tail, scanMajor, from, idx, held, snap, hand, stale, notClaim>>

Finish(n) ==                          \* Instant NUMA Tear-down
  /\ pc[n] = "top" /\ tail[n] >= ready[n]
  /\ eof /\ LocalExhausted(n) /\ \E starved \in BOOLEAN : Victims(n, starved) = {}
  /\ pc' = [pc EXCEPT ![n] = "done"]
  /\ UNCHANGED <<tail, scanMajor, from, idx, held, snap, hand, stale, notClaim>>

ClaimUncounted(n) ==                  \* mutant: a thief leaves the tail alone
  /\ pc[n] = "claim"
  /\ idx' = [idx EXCEPT ![n] = tail[from[n]]]
  /\ tail' = [tail EXCEPT ![n] = IF from[n] = n THEN @ + 1 ELSE @]
  /\ pc' = [pc EXCEPT ![n] = "wait"]
  /\ UNCHANGED <<scanMajor, from, held, snap, hand, stale, notClaim>>

(* The tail may have moved on since the choice.                            *)
Claim(n) ==
  /\ pc[n] = "claim"
  /\ idx' = [idx EXCEPT ![n] = tail[from[n]]]
  /\ tail' = [tail EXCEPT ![from[n]] = @ + 1]
  /\ pc' = [pc EXCEPT ![n] = "wait"]
  /\ UNCHANGED <<scanMajor, from, held, snap, hand, stale, notClaim>>

OverranByMore(n) ==                   \* mutant: stays where the queue ends
  /\ pc[n] = "wait" /\ eof /\ QueueHead(from[n]) < idx[n]
  /\ pc' = [pc EXCEPT ![n] = "top"]
  /\ UNCHANGED <<tail, scanMajor, from, idx, held, snap, hand, stale, notClaim>>

Overran(n) ==                         \* F15: back to its own queue
  /\ pc[n] = "wait" /\ eof /\ QueueHead(from[n]) <= idx[n]
  /\ pc' = [pc EXCEPT ![n] = "top"]
  /\ UNCHANGED <<tail, scanMajor, from, idx, held, snap, hand, stale, notClaim>>

(* The chunk's own end is read here too, before the wait for the chunk     *)
(* before it: actual_end without its READY flag.                           *)
Cleared(e) == IF e = Unset THEN 0 ELSE e
Snapshot(n) ==
  /\ pc[n] = "wait" /\ ready[from[n]] > idx[n]
  /\ LET m == queue[from[n]][idx[n] + 1]
     IN  /\ held' = [held EXCEPT ![n] = m]
         /\ snap' = [snap EXCEPT ![n] = meta[Slot(m)].major]
         /\ scanMajor' = [scanMajor EXCEPT ![n] = m]
         /\ hand' = [hand EXCEPT ![n].end = Cleared(meta[Slot(m)].end)]
  /\ pc' = [pc EXCEPT ![n] = "gate"]
  /\ UNCHANGED <<tail, from, idx, stale, notClaim>>

-------------------------------------------------------------------------------
(* The scanners: a claimed chunk, normal and -n. *)

notChunk == <<cfg, ingestVars, queue, queueVars, from, idx, held, snap>>
Waiting(n) == pc[n] = "gate"
Descriptor(n) == meta[Slot(held[n])]
Prev(n) == IF held[n] = 0 THEN [end |-> 0, cum |-> 0] ELSE meta[Slot(held[n] - 1)]
PastCutoff(n) == cfg.limit > 0 /\ held[n] > 0 /\ cutoff > 0 /\ held[n] + 1 > cutoff

(* Lines of [s, e), an unterminated last one included; the end of the      *)
(* first k of them.                                                        *)
LineCount(s, e) ==
  Cardinality(DelimsIn(s, e)) + (IF s < e /\ e - 1 \notin Delims THEN 1 ELSE 0)
EndOfLines(s, e, k) ==
  IF k = 0 THEN s ELSE IF LineCount(s, e) <= k THEN e
  ELSE 1 + CHOOSE d \in DelimsIn(s, e) : Cardinality(DelimsIn(s, d + 1)) = k

(* Bytes [s, e) go out; the last slot carries the chunk's end.             *)
Recycled(n) ==
  \/ snap[n] # held[n] \/ Descriptor(n).major # held[n]
  \/ held[n] > 0 /\ meta[Slot(held[n] - 1)].major # held[n] - 1
Flush(n, s, e) ==
  /\ stale' = (stale \/ Recycled(n))
  /\ copies' = [b \in DOMAIN copies |-> copies[b] + (IF s <= b /\ b < e THEN 1 ELSE 0)]
  /\ closed' = [closed EXCEPT ![snap[n]] = @ + 1]

ToHandoff(n, end, cum, last) ==
  /\ hand' = [hand EXCEPT ![n] = [end |-> end, cum |-> cum, last |-> last]]
  /\ pc' = [pc EXCEPT ![n] = "handoff"]
  /\ UNCHANGED <<meta, notChunk>>

SkipPast(n) ==                        \* the whole chunk is past the limit
  /\ Waiting(n) /\ PastCutoff(n) /\ (~cfg.exact => Prev(n).end # Unset)
  /\ Flush(n, 0, 0) /\ ToHandoff(n, RawStart(snap[n]), cfg.limit, FALSE)
  /\ UNCHANGED <<cutoff, batches>>

BudgetOfChunk(n) == cfg.limit         \* mutant: -n counts each chunk anew
Budget(n) == IF cfg.limit > Prev(n).cum THEN cfg.limit - Prev(n).cum ELSE 0

Scan(n) ==
  /\ Waiting(n) /\ ~cfg.exact /\ Prev(n).end # Unset
  /\ LET s == Prev(n).end
         e == hand[n].end
     IN  IF cfg.limit = 0
         THEN /\ Flush(n, s, e) /\ pc' = [pc EXCEPT ![n] = "top"]
              /\ UNCHANGED <<meta, hand, cutoff, notChunk>>
         ELSE /\ ~PastCutoff(n) /\ Prev(n).cum # Unset
              /\ LET lines == LineCount(s, e)
                     take == LeastOf(lines, Budget(n))
                     met == Budget(n) > 0 /\ s < e /\ lines >= Budget(n)
                 IN  /\ Flush(n, s, EndOfLines(s, e, take))
                     /\ cutoff' = IF met THEN snap[n] + 1 ELSE cutoff
                     /\ ToHandoff(n, e, Prev(n).cum + take, met)
  /\ UNCHANGED batches

-------------------------------------------------------------------------------
(* Exact batches (-L): the scanner-handoff chain. *)

HandedOn(n) == Prev(n).end # Unset /\ Prev(n).cum # Unset
OverLimit(n) == cfg.limit > 0 /\ Prev(n).cum >= cfg.limit

(* Delimiters of the chunk that end a batch: every BatchLines-th of the    *)
(* stream, and the one that meets the limit, the last that counts.         *)
Nth(n, d) == Prev(n).cum + Cardinality(DelimsIn(RawStart(snap[n]), d + 1))
EndsAnew(n) ==                        \* mutant: the carried lines are forgotten
  {d \in DelimsIn(RawStart(snap[n]), RawEnd(snap[n])) :
     (Nth(n, d) - Prev(n).cum) % BatchLines = 0 \/ Nth(n, d) = cfg.limit}
Ends(n) ==
  {d \in DelimsIn(RawStart(snap[n]), RawEnd(snap[n])) :
     /\ Nth(n, d) % BatchLines = 0 \/ Nth(n, d) = cfg.limit
     /\ cfg.limit > 0 => Nth(n, d) <= cfg.limit}

ScanExact(n) ==
  /\ Waiting(n) /\ cfg.exact /\ HandedOn(n) /\ ~OverLimit(n) /\ snap[n] < NData
  /\ LET s == Prev(n).end
         bounds == {s} \cup {d + 1 : d \in Ends(n)}
         met == \E d \in Ends(n) : Nth(n, d) = cfg.limit
         count == Cardinality(DelimsIn(RawStart(snap[n]), RawEnd(snap[n])))
     IN  /\ Flush(n, s, Max(bounds))
         /\ batches' = batches \cup
              {b \in bounds \X bounds : b[1] < b[2] /\ \A c \in bounds : c <= b[1] \/ b[2] <= c}
         /\ cutoff' = IF met THEN snap[n] + 1 ELSE cutoff
         /\ ToHandoff(n, Max(bounds), IF met THEN cfg.limit ELSE Prev(n).cum + count, met)

(* The end of the stream: the open batch goes out as it is.                *)
ScanExactEof(n) ==
  /\ Waiting(n) /\ cfg.exact /\ HandedOn(n) /\ ~OverLimit(n) /\ snap[n] = NData
  /\ Flush(n, Prev(n).end, N)
  /\ batches' = IF Prev(n).end < N THEN batches \cup {<<Prev(n).end, N>>} ELSE batches
  /\ ToHandoff(n, N, Prev(n).cum, FALSE)
  /\ UNCHANGED cutoff

SkipExact(n) ==                       \* the chunk before met the limit exactly
  /\ Waiting(n) /\ cfg.exact /\ HandedOn(n) /\ OverLimit(n)
  /\ Flush(n, 0, 0) /\ ToHandoff(n, RawStart(snap[n]), cfg.limit, FALSE)
  /\ UNCHANGED <<cutoff, batches>>

(* cum_lines, and with -L the open batch, for the next chunk; the scanner  *)
(* that met the limit is through.                                          *)
Handoff(n) ==
  /\ pc[n] = "handoff"
  /\ meta' = [meta EXCEPT ![Slot(held[n])].cum = hand[n].cum,
                          ![Slot(held[n])].end = IF cfg.exact THEN hand[n].end ELSE @]
  /\ pc' = [pc EXCEPT ![n] = IF hand[n].last THEN "done" ELSE "top"]
  /\ UNCHANGED <<cutoff, hand, notChunk, history>>

-------------------------------------------------------------------------------
Ingest == ChooseTarget \/ Publish \/ PublishEof \/ IngestStops

Scanner(n) ==
  \/ Own(n) \/ Steal(n) \/ Finish(n) \/ Claim(n) \/ Overran(n) \/ Snapshot(n)
  \/ SkipPast(n) \/ Scan(n) \/ ScanExact(n) \/ ScanExactEof(n) \/ SkipExact(n) \/ Handoff(n)

Next == Ingest \/ \E n \in Nodes : Index(n) \/ Scanner(n)

Spec == Init /\ [][Next]_vars

FairSpec ==
  /\ Spec /\ WF_vars(Ingest)
  /\ \A n \in Nodes : WF_vars(Index(n)) /\ WF_vars(Scanner(n))

-------------------------------------------------------------------------------
AllDone == \A n \in Nodes : pc[n] = "done"

(* The bytes of the first limit lines, or all.                             *)
Lines == IF cfg.exact THEN Cardinality(Delims) ELSE LineCount(0, N)
Wanted ==
  IF cfg.limit = 0 \/ Lines < cfg.limit THEN 0..N-1 ELSE 0..EndOfLines(0, N, cfg.limit)-1
Claimed == {held[n] : n \in {k \in Nodes : pc[k] \in {"gate", "handoff"}}}

TypeOK ==
  /\ cfg \in Modes /\ major \in 0..NData+1 /\ target \in Nodes /\ kept \in 0..KeepFor
  /\ eof \in BOOLEAN /\ \A n \in Nodes : ready[n] \in 0..QueueHead(n)
  /\ \A s \in DOMAIN meta : meta[s].major % MetaSize = s \/ meta[s].major = 0
  /\ pc \in [Nodes -> {"top", "claim", "wait", "gate", "handoff", "done"}]
  /\ held \in [Nodes -> 0..NData] /\ snap \in [Nodes -> 0..NData]
  /\ cutoff \in 0..NData+1

(* The ring of descriptors does not come round over a chunk its indexer    *)
(* has yet to read, nor over the one before it, whose boundary it may have *)
(* to hand on (F-NUMA1, the lifetime bound of ring_numa_ingest).           *)
UnindexedFresh ==
  \A n \in Nodes : \A i \in ready[n]+1..QueueHead(n) :
    \A m \in {queue[n][i] - 1, queue[n][i]} \cap 0..NData : meta[Slot(m)].major = m

(* With -n and -L no descriptor is used again under the chain, until the   *)
(* limit is met: what a scanner reads of its chunk and of the one before   *)
(* is theirs, and its handoff goes to its own chunk (core_scanner_loop:    *)
(* the waits for cum_lines and the handoff).                               *)
ChainFresh ==
  (cfg.exact \/ cfg.limit > 0) /\ cutoff = 0 =>
    /\ ~stale
    /\ \A n \in Nodes : pc[n] = "handoff" => meta[Slot(held[n])].major = held[n]

(* No chunk is closed twice for the orderer: it is scanned by its owner or *)
(* by one thief, whoever claims from its queue at the same time.           *)
ClosedOnce == ~stale => \A m \in DOMAIN closed : closed[m] <= 1

(* No byte is put out twice: chunks meet where the indexer, or with -L the *)
(* handoff, says, and neither overlaps the next.                           *)
NothingTwice == ~stale => \A b \in DOMAIN copies : copies[b] <= 1

(* When all scanners are through, exactly the wanted bytes are out: no     *)
(* chunk was left in a queue, no line lost between two chunks, and -n took *)
(* neither a line too many nor one too few.                                *)
NoneOrphaned ==
  AllDone /\ ~stale => {b \in DOMAIN copies : copies[b] = 1} = Wanted

(* The orderer gets an end of every chunk up to the last it needs: there   *)
(* is no gap in the majors it waits for.                                   *)
MajorsClosed ==
  AllDone /\ ~stale => \A m \in 0..major-1 : (cutoff = 0 \/ m < cutoff) => closed[m] = 1

(* -L: every batch has exactly BatchLines lines but the last one, across   *)
(* chunks and nodes.                                                       *)
BatchesExact ==
  ~stale => \A b \in batches :
    \/ Cardinality(DelimsIn(b[1], b[2])) = BatchLines
    \/ Cardinality(DelimsIn(b[1], b[2])) <= BatchLines /\ b[2] - 1 = Max(Wanted)

(* Without -n and -L no scanner waits for another: the front ends, unless  *)
(* the lifetime bound holds ingest up for good.                            *)
FrontEnds ==
  cfg.limit = 0 /\ ~cfg.exact /\ []<>LifetimeGate => <>(AllDone \/ stale)
===============================================================================
