----------------------------- MODULE StreamState ------------------------------
(***************************************************************************)
(* The byte stream of one pipeline on a single node, from input to output  *)
(* and through checkpoint and resume.  The input is the bytes 0..N-1 with  *)
(* delimiters at Delims; a batch is an interval <<s, e>> of bytes, s <= e, *)
(* that is run as a whole and whose output is one block.                   *)
(*                                                                         *)
(* The ring between scanner and workers is the subject of RingEngine; here *)
(* a published batch is a position in batches.                             *)
(***************************************************************************)
EXTENDS Integers, FiniteSets, Sequences

CONSTANTS N,          \* bytes of input
          Delims,     \* offsets of the delimiter
          Pauses,     \* offsets at which the input may pause
          Buffer,     \* chunk_sz: bytes one pread returns at most
          Modes,      \* order modes to check: ordered, buffered, realtime
          Sizes,      \* mode -> batch sizes in lines the scanner may use
          EarlyFlush, \* modes in which a starving scanner may flush early
          Limits,     \* mode -> values of -n to check: lines to process, 0 for all
          InFlight,   \* batches that run at the same time: workers
          JaggedCap,  \* intervals the shared ledger holds (1024)
          MaxRuns,    \* bound: runs, the first one and its resumes
          MaxFaults   \* bound: failures of any kind, all runs together

ASSUME StreamAssumption ==
  /\ N \in Nat /\ Delims \subseteq 0..N-1 /\ Pauses \subseteq 1..N
  /\ Buffer \in Nat \ {0} /\ \A m \in Modes : Limits[m] \subseteq Nat /\ Sizes[m] \subseteq Nat \ {0}
  /\ InFlight \in Nat \ {0}
  /\ JaggedCap \in Nat \ {0} /\ MaxRuns \in Nat /\ MaxFaults \in Nat
  /\ Modes \subseteq {"ordered", "buffered", "realtime"} /\ EarlyFlush \subseteq Modes

VARIABLES
  mode,           \* the pipeline's order mode, the same in all its runs
  limit,          \* state->cfg_limit
  \* ingest
  ingested,       \* bytes in the memfd
  eofFd,          \* evfd_ingest_eof was written
  ingestComplete, \* state->ingest_complete
  ingestPc,       \* "copy", "eof", "flag", "done"
  \* scanner
  scanPc,         \* "loop", "pread", "judge", "wait", "scan", "done"
  pos, avail,     \* stream offsets of p and end
  status, wasComplete, forceRefill,
  lineSize,       \* L
  pending,        \* pending_lines
  scanned,        \* total_scanned
  batchStart,
  rs,             \* the scanner's snapshot of the ledger it resumes from
  batches,        \* the batches published in this run
  \* workers
  work,           \* batch -> "ready", "running", "half" (acked to fallow), "done", "lost"
  \* reclaimer
  fallowPipe, nextIdx, fallowHeap, fallowBytes,
  \* orderer
  orderPipe, heap, expected, synced, orderer,
  tracker,        \* horizon, bytes, jagged: its private ledger
  ledger,         \* what it published: g_state->resume_*
  out,            \* blocks in the output file
  torn,           \* the file ends in a part of a block
  \* parent and user
  alarm,          \* abort_reason: 0, 1 (downstream closed), 2 (fault)
  reactor,        \* "poll", "clean", "dump": NORMAL_EXIT_FLAG once it left
  outcome,        \* "running", "ok" (exit 0), "failed" (checkpoint written)
  ckpt,           \* the checkpoint file
  run, faults,
  fellBack        \* a checkpoint took the reclaimer's horizon in an emitting mode

ingestVars == <<ingested, eofFd, ingestComplete, ingestPc>>
scanVars   == <<scanPc, pos, avail, status, wasComplete, forceRefill, lineSize,
                pending, scanned, batchStart, rs>>
fallowVars == <<fallowPipe, nextIdx, fallowHeap, fallowBytes>>
orderVars  == <<orderPipe, heap, expected, synced, orderer, tracker, ledger, out, torn>>
userVars   == <<reactor, outcome, ckpt, run, fellBack>>
vars == <<mode, limit, ingestVars, scanVars, batches, work, fallowVars, orderVars,
          alarm, userVars, faults>>

-------------------------------------------------------------------------------
(* Intervals. *)

Bytes(iv) == iv[1]..iv[2]-1
Covered(set) == UNION {Bytes(iv) : iv \in set}
SetOf(seq) == {seq[i] : i \in DOMAIN seq}

(* What a ledger says is done. *)
LedgerBytes(led) == (0..led.horizon-1) \cup Covered(led.jagged)

EmptyLedger == [horizon |-> 0, bytes |-> 0, jagged |-> {}]

(* The offset after the k-th delimiter at or after from, if there are k    *)
(* before upto.                                                            *)
DelimsIn(from, upto) == {d \in Delims : from <= d /\ d < upto}
AfterDelim(from, k) ==
  1 + CHOOSE d \in Delims : d >= from /\ Cardinality(DelimsIn(from, d + 1)) = k

(* Bytes of the first limit lines: all the input without a limit.          *)
Wanted ==
  IF limit = 0 \/ Cardinality(Delims) < limit THEN 0..N-1 ELSE 0..AfterDelim(0, limit)-1

PullFireAlarm(reason) == alarm' = IF alarm = 0 THEN reason ELSE alarm
Faulty == faults < MaxFaults /\ faults' = faults + 1
=============================================================================
