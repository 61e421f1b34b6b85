------------------------------ MODULE RingState ------------------------------
(***************************************************************************)
(* The state one node's ring engine shares between its processes           *)
(* (struct SharedState, struct WorkerTxn, the escrow pipe of               *)
(* forkrun_ring.c), the private cursors of the processes that use it, and  *)
(* the vocabulary the process modules Scanner, Worker and Recovery share.  *)
(*                                                                         *)
(* A batch is named by its ticket number, the ring index the scanner gave  *)
(* it; the bytes it covers are abstracted to that name.                    *)
(***************************************************************************)
EXTENDS Integers, Sequences, FiniteSets

CONSTANTS
  Workers,      (* worker slots (wid) the parent may fill                      *)
  NBatches,     (* batches the scanner cuts before it sees end of input        *)
  NTail,        (* batches the UMA tail re-batching cuts after it              *)
  AdaptiveTail, (* the tail re-batching runs: no -b, -l or -L was given        *)
  Numa,         (* is_numa: one of several nodes, no sentinel, no fallow pin   *)
  FallowOn,     (* a ring_fallow process runs beside the ring                  *)
  RingSize,     (* RING_SIZE (1 << 20 in the code)                             *)
  MaxAhead,     (* RING_SIZE / 2 on NUMA, max(1024, 64 * W_max) on UMA         *)
  BacklogHigh,  (* backlog per worker that makes the scanner hold slots (10)   *)
  HoldBack,     (* slots held back per worker at that backlog (4)              *)
  RetryLimit,   (* FORKRUN_RETRY_LIMIT; negative: retry for ever               *)
  HaltCount,    (* cfg_halt_count; 0: no limit                                 *)
  MaxDeaths,    (* bound: worker deaths of a behaviour                         *)
  MayAbort      (* the fire alarm may be pulled from outside the ring          *)

ASSUME RingAssumption ==
  /\ Workers # {} /\ IsFiniteSet(Workers)
  /\ NBatches \in Nat /\ NTail \in Nat
  /\ AdaptiveTail \in BOOLEAN /\ Numa \in BOOLEAN /\ FallowOn \in BOOLEAN
  /\ RingSize \in Nat \ {0} /\ MaxAhead \in Nat \ {0}
  /\ RingSize > MaxAhead + Cardinality(Workers)
  /\ BacklogHigh \in Nat /\ HoldBack \in Nat
  /\ RetryLimit \in Int /\ HaltCount \in Nat /\ MaxDeaths \in Nat
  /\ MayAbort \in BOOLEAN

VARIABLES
  \* shared memory
  writeIdx, readIdx,          (* slots published; tickets issued               *)
  rangeRing,                  (* offset_ring/end_ring/lines_ring of each slot  *)
  minorRing,                  (* minor_ring: the identity recovery checks      *)
  scannerFinished, emergencyAbort, activeWorkers, activeWaiters,
  escrowPending, fallowActive, minIdx, poisonedCount,
  txn,                        (* g_state->worker_txn                           *)
  escrow,                     (* the escrow pipe, oldest packet first          *)
  eofEvfd,                    (* evfd_eof_arr[node] is readable                *)
  \* the scanner
  spc, scanIdx,               (* control point; local_scan_idx                 *)
  \* the workers
  pc, ticket, kills,          (* control point; batch_idx and num_kills held   *)
  drain, snap,                (* tl_drain_escrow; w_snap and r_curr            *)
  exitZero,                   (* exit status 0                                 *)
  \* the parent
  ppc, incarn,                (* control point; generation of each slot        *)
  \* history and bounds
  acked,                      (* batches whose ack packets went out            *)
  dropped,                    (* tickets abandoned, with the reason            *)
  poisoned, counted,          (* batches skipped as poisoned; counted as such  *)
  unpinned,                   (* a slot was written past the ack window        *)
  deaths

scanVars    == <<spc, scanIdx, writeIdx, rangeRing, minorRing, scannerFinished, unpinned>>
claimVars   == <<readIdx, ticket, kills, drain, snap>>
escrowVars  == <<escrow, escrowPending>>
countVars   == <<activeWorkers, activeWaiters>>
parentVars  == <<ppc, incarn>>
alarmVars   == <<emergencyAbort, eofEvfd>>
fallowVars  == <<fallowActive, minIdx>>
ledgerVars  == <<acked, dropped, poisoned, counted, poisonedCount>>
lifeVars    == <<exitZero, deaths>>

vars == <<scanVars, claimVars, escrowVars, countVars, parentVars, alarmVars,
          fallowVars, ledgerVars, lifeVars, txn, pc>>

-----------------------------------------------------------------------------
NoTicket == -1
NoSnap   == [r |-> 0, w |-> 0]
Slot(i)  == i % RingSize

\* Transaction states TXN_IDLE, TXN_CLAIMING, TXN_CLAIMED, TXN_COMMITTING.
TxnStates == {"IDLE", "CLAIMING", "CLAIMED", "COMMITTING"}

(* Whose ring the parent looks at for this record.  A record that this     *)
(* node's workers never published names another node (0, or the one the    *)
(* slot served before): "foreign".                                         *)
TxnNodes == {"foreign", "own"}

(* What the zeroed record names: node 0, on UMA the only one.              *)
FirstNode == IF Numa THEN "foreign" ELSE "own"

Txn == [state : TxnStates, idx : Int, kills : Nat, minor : Int, inc : Nat, node : TxnNodes]

Packet == [idx : Int, kills : Nat]

(* A worker process exists and runs.                                       *)
Alive(w) == pc[w] \notin {"unspawned", "dead", "deposited", "free", "astray"}

(* Tail re-batching happens: UMA, adaptive batch size.                     *)
TailRuns == AdaptiveTail /\ ~Numa
DataBatches == NBatches + (IF TailRuns THEN NTail ELSE 0)

(* Reasons a ticket is abandoned.                                          *)
DropReasons == {"overshoot", "stale", "recycled", "abort"}

(* pull_fire_alarm: the flag and the EOF eventfds go up together, once.    *)
PullFireAlarm == emergencyAbort' = TRUE /\ eofEvfd' = TRUE

(* escrow_idx_live: the packet names a published batch whose slot has not  *)
(* been handed out again.                                                  *)
UnclaimedOnly(idx, w, r) == idx < w /\ idx >= r
EscrowIdxLive(idx, w, r) == idx < w /\ idx + RingSize > r

(* The fields of a record but for the node mean nothing while it is IDLE.  *)
IdleTxn(node) ==
  [state |-> "IDLE", idx |-> NoTicket, kills |-> 0, minor |-> 0, inc |-> 0, node |-> node]

SetTxn(w, s) == txn' = [txn EXCEPT ![w].state = s]
ClearTxn(w)  == txn' = [txn EXCEPT ![w] = IdleTxn(txn[w].node)]
Goto(w, l)   == pc' = [pc EXCEPT ![w] = l]

(* The process of slot w is gone, and its thread-local state with it; the  *)
(* ticket it held is remembered until the parent has dealt with it.        *)
ProcessGone(w) ==
  /\ Goto(w, "dead")
  /\ drain' = [drain EXCEPT ![w] = TRUE]
  /\ kills' = [kills EXCEPT ![w] = 0]
  /\ snap' = [snap EXCEPT ![w] = NoSnap]
  /\ UNCHANGED <<readIdx, ticket>>
=============================================================================
