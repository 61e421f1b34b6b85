------------------------------ MODULE Publication ------------------------------
(***************************************************************************)
(* How a batch's outcome reaches the caller when the clean-room launcher   *)
(* drives the engine (forkrun_cleanroom.c) with the C worker loop of the   *)
(* Python shim (fr_py_worker_plugin_loop of _shim.c): a worker frames one  *)
(* record per batch into its own output file, commits, and only then tells *)
(* the drain how far its output is committed; the launcher reaps workers,  *)
(* rolls back what a dead one left open, hands its batch on, wakes the     *)
(* drain for what it had committed, and respawns or ends the slot.         *)
(*                                                                         *)
(* One node, unordered output.  The claim itself (do_lockfree_claim) is    *)
(* one step here, taken apart in Worker; output files are counted in       *)
(* records, so a position is a number of records.                          *)
(***************************************************************************)
EXTENDS Integers, Sequences, FiniteSets

CONSTANTS
  Workers,      (* worker slots                                                *)
  Setups,       (* what a run may start with: the crew, the number of data     *)
                (* batches, which the scanner closes with a sentinel, and, a   *)
                (* bound, how many kills and payload failures it meets         *)
  RetryLimit,   (* retry_limit; negative values (retry for ever) are left out  *)
  EmptyBatches, (* batches whose payload writes nothing                        *)
  Policies,     (* on_error values: "retry", "skip", "fail-fast"               *)
  SignalCap,    (* signals the drain's pipe holds (64 KiB / 16 in the code)    *)
  RespawnCap    (* --respawn-cap (64)                                          *)

ASSUME PublicationAssumption ==
  /\ Workers # {} /\ IsFiniteSet(Workers)
  /\ Setups \subseteq [crew : (SUBSET Workers) \ {{}}, batches : Nat, faults : Nat]
  /\ RetryLimit \in Nat /\ RespawnCap \in Nat /\ EmptyBatches \subseteq Nat
  /\ Policies \subseteq {"retry", "skip", "fail-fast"}
  /\ SignalCap \in Nat \ {0}

VARIABLES
  setup,                 (* crew, batches and bound of this run                *)
  policy, supervise,     (* on_error; --supervise recover                      *)
  written, nextIdx,      (* write_idx, read_idx                                *)
  escrow, pending,       (* the escrow pipe; escrow_pending                    *)
  alarm,                 (* emergency_abort with its reason                    *)
  poisonedCount, committed,  (* shared counters; the second of DATA frames     *)
  txn,                   (* worker_txn                                         *)
  pc, hold, drain, cursor, count, exitZero, incarn,
                         (* of a worker: control point, batch in hand,         *)
                         (* tl_drain_escrow, worker_output_end,                *)
                         (* fr_py_txn_pending_data, exit status, generation    *)
  memfd,                 (* the records in each worker's output file           *)
  signals, held,         (* the signal pipe; the signal the drain has read     *)
  results,               (* records the drain moved from each worker's file    *)
  drainUp,
  sup,                   (* the launcher: control point, slot, result code     *)
  outcome,               (* of the run: "running", "ok", "bad"                 *)
  faults,                (* bound: kills and payload failures so far           *)
  doubled                (* history: batches deposited twice for one claim     *)

inputVars  == <<written, nextIdx>>
escrowVars == <<escrow, pending>>
workerVars == <<hold, drain, cursor, count, exitZero, incarn>>
drainVars  == <<held, results, drainUp>>
optionVars == <<setup, policy, supervise>>
boundVars  == <<faults, doubled>>
countVars  == <<poisonedCount, committed>>

vars == <<inputVars, escrowVars, workerVars, drainVars, optionVars, boundVars,
          countVars, alarm, txn, pc, memfd, signals, sup, outcome>>

-----------------------------------------------------------------------------
Kinds    == {"data", "none", "skipped", "poisoned"}
Batches  == 0 .. setup.batches - 1
Sentinel == setup.batches
Scanned  == written = setup.batches + 1

NoHold   == [b |-> -1, kills |-> 0]
NoSignal == [w |-> "none", frontier |-> 0]
IdleTxn  == [state |-> "IDLE", b |-> -1, kills |-> 0, start |-> 0]
Waiting  == [at |-> "wait", w |-> "none", rc |-> 0]

SetState(w, s) == txn' = [txn EXCEPT ![w].state = s]
ClearTxn(w)    == txn' = [txn EXCEPT ![w] = IdleTxn]
Goto(w, l)     == pc' = [pc EXCEPT ![w] = l]

Alive(w) == pc[w] \notin {"dead", "gone"}

Fault == faults < setup.faults /\ faults' = faults + 1

(* The process ends, and what was local to it is gone.                     *)
ProcessEnds(w, zero) ==
  /\ Goto(w, "dead")
  /\ hold' = [hold EXCEPT ![w] = NoHold]
  /\ drain' = [drain EXCEPT ![w] = TRUE]
  /\ cursor' = [cursor EXCEPT ![w] = 0]
  /\ count' = [count EXCEPT ![w] = 0]
  /\ exitZero' = [exitZero EXCEPT ![w] = zero]
  /\ UNCHANGED incarn

(* How much of worker w's output file no rollback may touch: all of it,    *)
(* unless a transaction is open.                                           *)
Settled(w) ==
  IF txn[w].state \in {"CLAIMED", "COMMITTING"} THEN txn[w].start ELSE Len(memfd[w])

Init ==
  /\ setup \in Setups /\ policy \in Policies /\ supervise \in BOOLEAN
  /\ written = 0 /\ nextIdx = 0
  /\ escrow = <<>> /\ pending = FALSE
  /\ alarm = FALSE /\ poisonedCount = 0 /\ committed = 0
  /\ txn = [w \in Workers |-> IdleTxn]
  /\ pc = [w \in Workers |-> IF w \in setup.crew THEN "idle" ELSE "gone"]
  /\ hold = [w \in Workers |-> NoHold] /\ drain = [w \in Workers |-> TRUE]
  /\ cursor = [w \in Workers |-> 0] /\ count = [w \in Workers |-> 0]
  /\ exitZero = [w \in Workers |-> FALSE] /\ incarn = [w \in Workers |-> 0]
  /\ memfd = [w \in Workers |-> <<>>]
  /\ signals = <<>> /\ held = NoSignal
  /\ results = [w \in Workers |-> <<>>] /\ drainUp = TRUE
  /\ sup = Waiting /\ outcome = "running"
  /\ faults = 0 /\ doubled = {}

(* The scanner child publishes the next slot; the last one is the sentinel.*)
Scan ==
  /\ ~Scanned
  /\ written' = written + 1
  /\ UNCHANGED <<nextIdx, escrowVars, workerVars, drainVars, optionVars, boundVars,
                 countVars, alarm, txn, pc, memfd, signals, sup, outcome>>

-----------------------------------------------------------------------------
(* The worker: fr_py_claim                                                 *)

claimFrame == <<written, optionVars, boundVars, drainVars, committed, memfd, signals,
                sup, outcome, cursor, count, incarn>>

(* begin_claim: IDLE, WAITING or a deposited CLAIMED becomes CLAIMING.     *)
BeginClaim(w) ==
  /\ pc[w] = "idle"
  /\ txn' = [txn EXCEPT ![w] = [IdleTxn EXCEPT !.state = "CLAIMING"]]
  /\ Goto(w, "claim")
  /\ UNCHANGED <<claimFrame, nextIdx, escrowVars, poisonedCount, alarm, hold, drain, exitZero>>

PoisonThreshold == IF RetryLimit > 0 THEN RetryLimit ELSE 1
IsPoisoned(kills) == kills > 0 /\ kills >= RetryLimit

(* What a claimed batch and its kill count do to the poison counter: only  *)
(* the claim that meets the threshold exactly counts.                      *)
CountEveryPoison(kills) ==
  poisonedCount' = IF IsPoisoned(kills) THEN poisonedCount + 1 ELSE poisonedCount
CountPoison(kills) ==
  poisonedCount' = IF IsPoisoned(kills) /\ kills = PoisonThreshold
                   THEN poisonedCount + 1 ELSE poisonedCount

(* read_idx < write_idx                                                    *)
TicketOrSlot == nextIdx <= written
TicketsLeft == nextIdx < written

(* A worker that has seen a deposit announced empties the escrow pipe      *)
(* before it draws tickets again.                                          *)
Drains(w) == drain[w] \/ pending
TakeSignal(w, d) == pending' = FALSE /\ drain' = [drain EXCEPT ![w] = d]

ClaimPacket(w) ==
  /\ pc[w] = "claim" /\ escrow # <<>>
  /\ Drains(w) \/ ~TicketsLeft
  /\ TakeSignal(w, Drains(w))
  /\ hold' = [hold EXCEPT ![w] = Head(escrow)]
  /\ escrow' = Tail(escrow)
  /\ CountPoison(Head(escrow).kills)
  /\ Goto(w, "taken")
  /\ UNCHANGED <<claimFrame, nextIdx, alarm, txn, exitZero>>

ClaimTicket(w) ==
  /\ pc[w] = "claim" /\ TicketsLeft
  /\ Drains(w) => escrow = <<>>
  /\ TakeSignal(w, FALSE)
  /\ hold' = [hold EXCEPT ![w] = [b |-> nextIdx, kills |-> 0]]
  /\ nextIdx' = nextIdx + 1
  /\ Goto(w, "taken")
  /\ UNCHANGED <<claimFrame, escrow, poisonedCount, alarm, txn, exitZero>>

(* Everything was published, claimed, and no packet waits.                 *)
EofSignalled == Scanned /\ ~TicketsLeft /\ escrow = <<>> /\ pending
Eof == Scanned /\ ~TicketsLeft /\ escrow = <<>>

(* Nothing yet: no ticket was drawn, the worker waits in WAITING.          *)
NothingYet(w) ==
  /\ pc[w] = "claim" /\ ~alarm
  /\ ~TicketsLeft /\ escrow = <<>> /\ ~Eof
  /\ TakeSignal(w, FALSE)
  /\ SetState(w, "WAITING")
  /\ Goto(w, "wait")
  /\ UNCHANGED <<claimFrame, nextIdx, escrow, poisonedCount, alarm, hold, exitZero>>

(* Only an event of the ring or of the escrow pipe ends the wait.          *)
Ready == TicketsLeft \/ escrow # <<>> \/ Scanned

Recheck(w) ==
  /\ pc[w] = "wait" /\ ~alarm /\ Ready
  /\ SetState(w, "CLAIMING")
  /\ Goto(w, "claim")
  /\ UNCHANGED <<claimFrame, nextIdx, escrowVars, poisonedCount, alarm, hold, drain, exitZero>>

(* EOF: the loop returns 0.                                                *)
EndOfInput(w) ==
  /\ pc[w] = "claim" /\ Eof
  /\ pending' = FALSE
  /\ ClearTxn(w)
  /\ ProcessEnds(w, TRUE)
  /\ UNCHANGED <<inputVars, escrow, optionVars, boundVars, drainVars, countVars,
                 alarm, memfd, signals, sup, outcome>>

(* The alarm ends a claim or a wait without a batch: the loop returns 1.   *)
AlarmLeaves(w) ==
  /\ pc[w] \in {"claim", "wait"} /\ alarm
  /\ ClearTxn(w)
  /\ ProcessEnds(w, FALSE)
  /\ UNCHANGED <<inputVars, escrowVars, optionVars, boundVars, drainVars, countVars,
                 alarm, memfd, signals, sup, outcome>>

(* worker_txn_publish: identity and output_start first, CLAIMED last.      *)
PublishTxn(w) ==
  /\ pc[w] = "taken"
  /\ txn' = [txn EXCEPT ![w] = [state |-> "CLAIMED", b |-> hold[w].b,
                                kills |-> hold[w].kills, start |-> cursor[w]]]
  /\ Goto(w, "run")
  /\ UNCHANGED <<claimFrame, nextIdx, escrowVars, poisonedCount, alarm, hold, drain, exitZero>>

-----------------------------------------------------------------------------
(* The worker: payload, record, commit                                     *)

runFrame == <<inputVars, optionVars, drainVars, poisonedCount, sup, outcome, incarn, drain>>

(* A record of some kind is begun: until its last byte it is torn.         *)
StartFrame(w, kind) ==
  /\ memfd' = [memfd EXCEPT ![w] = Append(@, [b |-> hold[w].b, kind |-> kind, whole |-> FALSE])]
  /\ Goto(w, "frame")

(* The payload ran: its captured output, or NO_RESULT if there is none.    *)
PayloadDone(w) ==
  /\ pc[w] = "run" /\ hold[w].b # Sentinel /\ ~IsPoisoned(hold[w].kills)
  /\ StartFrame(w, IF hold[w].b \in EmptyBatches THEN "none" ELSE "data")
  /\ UNCHANGED <<runFrame, boundVars, escrowVars, committed, alarm, txn, hold, cursor,
                 count, exitZero, signals>>

(* A poisoned batch is not run; its record says so.                        *)
SkipPoisoned(w) ==
  /\ pc[w] = "run" /\ IsPoisoned(hold[w].kills)
  /\ StartFrame(w, "poisoned")
  /\ UNCHANGED <<runFrame, boundVars, escrowVars, committed, alarm, txn, hold, cursor,
                 count, exitZero, signals>>

(* The sentinel is committed without a record.                             *)
PassSentinel(w) ==
  /\ pc[w] = "run" /\ hold[w].b = Sentinel /\ ~IsPoisoned(hold[w].kills)
  /\ Goto(w, "framed")
  /\ UNCHANGED <<runFrame, boundVars, escrowVars, committed, alarm, txn, memfd, hold,
                 cursor, count, exitZero, signals>>

PayloadFails(w) ==
  /\ pc[w] = "run" /\ hold[w].b # Sentinel /\ ~IsPoisoned(hold[w].kills)
  /\ Fault

(* on_error=skip: a SKIPPED record takes the place of the output.          *)
FailSkips(w) ==
  /\ PayloadFails(w) /\ policy = "skip"
  /\ StartFrame(w, "skipped")
  /\ UNCHANGED <<runFrame, doubled, escrowVars, committed, alarm, txn, hold,
                 cursor, count, exitZero, signals>>

(* on_error=fail-fast: the alarm, and the worker exits 1.                  *)
FailStops(w) ==
  /\ PayloadFails(w) /\ policy = "fail-fast"
  /\ alarm' = TRUE
  /\ ProcessEnds(w, FALSE)
  /\ UNCHANGED <<inputVars, optionVars, drainVars, countVars, sup, outcome, doubled,
                 escrowVars, txn, memfd, signals>>

(* on_error=retry, fr_py_escrow_deposit: the record stays CLAIMED until    *)
(* the next begin_claim.                                                   *)
FailRetries(w) ==
  /\ PayloadFails(w) /\ policy = "retry"
  /\ escrow' = Append(escrow, [b |-> hold[w].b, kills |-> hold[w].kills + 1])
  /\ pending' = TRUE
  /\ hold' = [hold EXCEPT ![w] = NoHold]
  /\ Goto(w, "idle")
  /\ UNCHANGED <<runFrame, doubled, committed, alarm, txn, memfd, cursor, count,
                 exitZero, signals>>

(* The last byte of the record: the cursor moves, a DATA record counts.    *)
WholeFrame(w) == memfd' = [memfd EXCEPT ![w][Len(memfd[w])].whole = TRUE]
FrameIsData(w) == memfd[w][Len(memfd[w])].kind = "data"

FinishSignalled(w) ==
  /\ pc[w] = "frame" /\ Len(signals) < SignalCap
  /\ WholeFrame(w)
  /\ signals' = Append(signals, [w |-> w, frontier |-> Len(memfd[w])])
  /\ cursor' = [cursor EXCEPT ![w] = @ + 1]
  /\ count' = [count EXCEPT ![w] = @ + (IF FrameIsData(w) THEN 1 ELSE 0)]
  /\ Goto(w, "framed")
  /\ UNCHANGED <<runFrame, boundVars, escrowVars, committed, alarm, txn, hold, exitZero>>
FinishUnmoved(w) ==
  /\ pc[w] = "frame"
  /\ WholeFrame(w)
  /\ count' = [count EXCEPT ![w] = @ + (IF FrameIsData(w) THEN 1 ELSE 0)]
  /\ Goto(w, "framed")
  /\ UNCHANGED <<runFrame, boundVars, escrowVars, committed, alarm, txn, hold, cursor,
                 exitZero, signals>>
FinishCounted(w) ==
  /\ pc[w] = "frame"
  /\ WholeFrame(w)
  /\ cursor' = [cursor EXCEPT ![w] = @ + 1]
  /\ committed' = committed + (IF FrameIsData(w) THEN 1 ELSE 0)
  /\ Goto(w, "framed")
  /\ UNCHANGED <<runFrame, boundVars, escrowVars, count, alarm, txn, hold, exitZero, signals>>
FinishFrame(w) ==
  /\ pc[w] = "frame"
  /\ WholeFrame(w)
  /\ cursor' = [cursor EXCEPT ![w] = @ + 1]
  /\ count' = [count EXCEPT ![w] = @ + (IF FrameIsData(w) THEN 1 ELSE 0)]
  /\ Goto(w, "framed")
  /\ UNCHANGED <<runFrame, boundVars, escrowVars, committed, alarm, txn, hold, exitZero,
                 signals>>

(* fr_py_ack_core: COMMITTING before the first side effect, among them the *)
(* pending count that goes to the shared counter ...                       *)
BeginCommit(w) ==
  /\ pc[w] = "framed"
  /\ SetState(w, "COMMITTING")
  /\ committed' = committed + count[w]
  /\ count' = [count EXCEPT ![w] = 0]
  /\ Goto(w, "commit")
  /\ UNCHANGED <<runFrame, boundVars, escrowVars, alarm, memfd, hold, cursor, exitZero, signals>>

(* ... and IDLE makes it a commit.  The sentinel has nothing to announce.  *)
Clear(w) ==
  /\ pc[w] = "commit"
  /\ ClearTxn(w)
  /\ hold' = [hold EXCEPT ![w] = NoHold]
  /\ Goto(w, IF hold[w].b = Sentinel /\ ~IsPoisoned(hold[w].kills) THEN "idle" ELSE "notify")
  /\ UNCHANGED <<runFrame, boundVars, escrowVars, committed, alarm, memfd, cursor, count,
                 exitZero, signals>>

(* fr_py_notify_committed: the frontier is the end of the file.            *)
Announce(w) == signals' = Append(signals, [w |-> w, frontier |-> Len(memfd[w])])

Notify(w) ==
  /\ pc[w] = "notify" /\ drainUp /\ Len(signals) < SignalCap
  /\ Announce(w)
  /\ Goto(w, "idle")
  /\ UNCHANGED <<runFrame, boundVars, escrowVars, committed, alarm, txn, memfd, hold,
                 cursor, count, exitZero>>

(* Committed and not announced: with nobody to read the pipe, the worker   *)
(* leaves with an error.                                                   *)
NotifyFails(w) ==
  /\ pc[w] = "notify" /\ ~drainUp
  /\ ProcessEnds(w, FALSE)
  /\ UNCHANGED <<inputVars, optionVars, drainVars, countVars, sup, outcome, boundVars,
                 escrowVars, alarm, txn, memfd, signals>>

-----------------------------------------------------------------------------
(* Deaths, and the drain child                                             *)

(* SIGKILL or a crash.  A worker that has deposited its batch and not yet  *)
(* begun the next claim still looks as if it ran it.                       *)
Kill(w) ==
  /\ Alive(w) /\ Fault
  /\ doubled' = IF pc[w] = "idle" /\ txn[w].state = "CLAIMED"
                THEN doubled \union {txn[w].b} ELSE doubled
  /\ ProcessEnds(w, FALSE)
  /\ UNCHANGED <<inputVars, optionVars, drainVars, countVars, sup, outcome,
                 escrowVars, alarm, txn, memfd, signals>>

drainFrame == <<inputVars, escrowVars, workerVars, optionVars, boundVars, countVars,
                alarm, txn, pc, memfd, sup, outcome>>

DrainReads ==
  /\ drainUp /\ held = NoSignal /\ signals # <<>>
  /\ held' = Head(signals) /\ signals' = Tail(signals)
  /\ UNCHANGED <<drainFrame, results, drainUp>>

(* Every record between what was moved and the announced frontier, which   *)
(* is clamped to the file's end.                                           *)
DrainMoves ==
  /\ drainUp /\ held # NoSignal
  /\ LET w    == held.w
         from == Len(results[w])
         to   == IF held.frontier < Len(memfd[w]) THEN held.frontier ELSE Len(memfd[w])
     IN  results' = [results EXCEPT ![w] = @ \o SubSeq(memfd[w], from + 1, to)]
  /\ held' = NoSignal
  /\ UNCHANGED <<drainFrame, signals, drainUp>>

DrainDies ==
  /\ drainUp /\ Fault
  /\ drainUp' = FALSE /\ held' = NoSignal
  /\ UNCHANGED <<inputVars, escrowVars, workerVars, optionVars, doubled, countVars,
                 alarm, txn, pc, memfd, signals, results, sup, outcome>>

-----------------------------------------------------------------------------
(* The launcher's supervision loop                                         *)

supFrame == <<inputVars, optionVars, drainVars, countVars, alarm, faults>>

Reaped(w) == sup = Waiting /\ pc[w] = "dead"

Bad == outcome' = "bad" /\ sup' = Waiting

(* --supervise fail-fast: an error exit ends the run, nothing is recovered.*)
ReapUnsupervised(w) ==
  /\ Reaped(w) /\ ~supervise
  /\ IF exitZero[w]
     THEN Goto(w, "gone") /\ UNCHANGED <<outcome, sup>>
     ELSE Bad /\ UNCHANGED pc
  /\ UNCHANGED <<supFrame, escrowVars, workerVars, txn, memfd, signals, doubled>>

Drained == Scanned /\ ~TicketsLeft /\ ~pending

(* ring_recover_worker_core.  WAITING is taken for IDLE: nothing was in    *)
(* flight.                                                                 *)
RecoverIdle(w) ==
  /\ Reaped(w) /\ supervise
  /\ txn[w].state \in {"IDLE", "WAITING"}
  /\ ClearTxn(w)
  /\ sup' = [at |-> "wake", w |-> w, rc |-> IF exitZero[w] \/ Drained THEN 2 ELSE 1]
  /\ UNCHANGED <<supFrame, escrowVars, workerVars, pc, memfd, signals, outcome, doubled>>

(* A death inside the claim or the commit cannot be judged: RACE (4).      *)
RecoverRace(w) ==
  /\ Reaped(w) /\ supervise
  /\ txn[w].state \in {"CLAIMING", "COMMITTING"}
  /\ Bad
  /\ UNCHANGED <<supFrame, escrowVars, workerVars, pc, txn, memfd, signals, doubled>>

(* The orphan: its output is cut back to where it began and its packet     *)
(* deposited once more, RECOVERED (0).  A worker that had deposited it     *)
(* itself is not told from one that had not.                               *)
Deposited(w) == escrow' = Append(escrow, [b |-> txn[w].b, kills |-> txn[w].kills + 1])
KeepOutput(w) == memfd' = memfd
RollBack(w)  == memfd' = [memfd EXCEPT ![w] = SubSeq(@, 1, txn[w].start)]

RecoverOrphan(w) ==
  /\ Reaped(w) /\ supervise
  /\ txn[w].state = "CLAIMED"
  /\ RollBack(w)
  /\ Deposited(w) /\ pending' = TRUE
  /\ ClearTxn(w)
  /\ sup' = [at |-> "wake", w |-> w, rc |-> 0]
  /\ UNCHANGED <<supFrame, workerVars, pc, signals, outcome, doubled>>

(* A process of slot w ended well and nothing respawns it, or it died and  *)
(* the next generation starts where the output file ends.                  *)
EndSlot(w) == Goto(w, "gone") /\ UNCHANGED <<workerVars>>
Respawn(w) ==
  /\ Goto(w, "idle")
  /\ incarn' = [incarn EXCEPT ![w] = @ + 1]
  /\ cursor' = [cursor EXCEPT ![w] = Len(memfd[w])]
  /\ UNCHANGED <<hold, drain, count, exitZero>>

(* fr_wake_drain_committed: after 0, 1 and 2 the drain is told how far the *)
(* dead worker's file reaches; if it cannot be, the run has failed.        *)
WakeOnOrphan ==
  /\ sup.at = "wake"
  /\ IF sup.rc = 0 THEN Len(signals) < SignalCap /\ Announce(sup.w) ELSE UNCHANGED signals
  /\ sup' = [sup EXCEPT !.at = "decide"]
  /\ UNCHANGED <<supFrame, escrowVars, workerVars, txn, pc, memfd, outcome, doubled>>
Wake ==
  /\ sup.at = "wake" /\ drainUp /\ Len(signals) < SignalCap
  /\ Announce(sup.w)
  /\ sup' = [sup EXCEPT !.at = "decide"]
  /\ UNCHANGED <<supFrame, escrowVars, workerVars, txn, pc, memfd, outcome, doubled>>
WakeFails ==
  /\ sup.at = "wake" /\ ~drainUp
  /\ Bad
  /\ UNCHANGED <<supFrame, escrowVars, workerVars, txn, pc, memfd, signals, doubled>>

(* 2 ends the slot; 0 and 1 respawn it unless the alarm is up or the slot  *)
(* has had its generations.                                                *)
Decide ==
  LET w == sup.w IN
  /\ sup.at = "decide"
  /\ \/ sup.rc = 2 /\ EndSlot(w) /\ sup' = Waiting /\ UNCHANGED outcome
     \/ /\ sup.rc # 2 /\ (alarm \/ incarn[w] >= RespawnCap)
        /\ Bad /\ UNCHANGED <<pc, workerVars>>
     \/ /\ sup.rc # 2 /\ ~alarm /\ incarn[w] < RespawnCap
        /\ Respawn(w) /\ sup' = Waiting /\ UNCHANGED outcome
  /\ UNCHANGED <<supFrame, escrowVars, txn, memfd, signals, doubled>>

(* The drain's death is fatal, in the loop and at the join.                *)
ReapDrain ==
  /\ sup = Waiting /\ ~drainUp
  /\ Bad
  /\ UNCHANGED <<supFrame, escrowVars, workerVars, txn, pc, memfd, signals, doubled>>

(* No worker is left: the spare writer is closed, the drain reads to EOF   *)
(* and exits 0, and the run has succeeded.                                 *)
Join ==
  /\ sup = Waiting /\ drainUp
  /\ \A w \in Workers : pc[w] = "gone"
  /\ signals = <<>> /\ held = NoSignal
  /\ outcome' = "ok"
  /\ UNCHANGED <<supFrame, escrowVars, workerVars, txn, pc, memfd, signals, sup, doubled>>

(* The run is over; teardown leaves nobody behind.                         *)
Over == outcome # "running" /\ UNCHANGED vars

-----------------------------------------------------------------------------
Claims(w) ==
  \/ BeginClaim(w) \/ ClaimPacket(w) \/ ClaimTicket(w) \/ NothingYet(w)
  \/ Recheck(w) \/ EndOfInput(w) \/ AlarmLeaves(w) \/ PublishTxn(w)

Produces(w) ==
  \/ PayloadDone(w) \/ SkipPoisoned(w) \/ PassSentinel(w)
  \/ FailSkips(w) \/ FailStops(w) \/ FailRetries(w)
  \/ FinishFrame(w) \/ BeginCommit(w) \/ Clear(w)
  \/ Notify(w) \/ NotifyFails(w)

WorkerStep(w) == outcome = "running" /\ (Claims(w) \/ Produces(w))

DrainStep == outcome = "running" /\ (DrainReads \/ DrainMoves)

Supervise ==
  /\ outcome = "running"
  /\ \/ \E w \in Workers : \/ ReapUnsupervised(w) \/ RecoverIdle(w)
                           \/ RecoverRace(w) \/ RecoverOrphan(w)
     \/ Wake \/ WakeFails \/ Decide \/ ReapDrain \/ Join

Faults == outcome = "running" /\ (DrainDies \/ \E w \in Workers : Kill(w))

Next ==
  \/ outcome = "running" /\ Scan
  \/ \E w \in Workers : WorkerStep(w)
  \/ DrainStep \/ Supervise \/ Faults \/ Over

(* Every process that can step keeps running; nobody has to die.           *)
Fairness ==
  /\ WF_vars(outcome = "running" /\ Scan)
  /\ \A w \in Workers : WF_vars(WorkerStep(w))
  /\ WF_vars(DrainStep) /\ WF_vars(Supervise)

Spec == Init /\ [][Next]_vars /\ Fairness

-----------------------------------------------------------------------------
(* Properties                                                              *)

(* The places in the drained output that hold a record of batch b, or of a *)
(* kind.                                                                   *)
Moved == UNION {{<<w, i>> : i \in DOMAIN results[w]} : w \in Workers}
OfBatch(b)   == {p \in Moved : results[p[1]][p[2]].b = b}
OfKind(kind) == {p \in Moved : results[p[1]][p[2]].kind = kind}

TypeOK ==
  /\ setup \in Setups /\ policy \in Policies /\ supervise \in BOOLEAN
  /\ written \in 0 .. Sentinel + 1 /\ nextIdx \in 0 .. written
  /\ pending \in BOOLEAN /\ alarm \in BOOLEAN /\ drainUp \in BOOLEAN
  /\ escrow \in Seq([b : 0 .. Sentinel, kills : Nat])
  /\ poisonedCount \in Nat /\ committed \in Nat
  /\ txn \in [Workers -> [state : {"IDLE", "WAITING", "CLAIMING", "CLAIMED", "COMMITTING"},
                          b : -1 .. Sentinel, kills : Nat, start : Nat]]
  /\ pc \in [Workers -> {"idle", "claim", "wait", "taken", "run", "frame", "framed",
                         "commit", "notify", "dead", "gone"}]
  /\ hold \in [Workers -> [b : -1 .. Sentinel, kills : Nat]]
  /\ cursor \in [Workers -> Nat] /\ count \in [Workers -> Nat]
  /\ exitZero \in [Workers -> BOOLEAN] /\ drain \in [Workers -> BOOLEAN] /\ incarn \in [Workers -> Nat]
  /\ memfd \in [Workers -> Seq([b : 0 .. Sentinel, kind : Kinds, whole : BOOLEAN])]
  /\ results \in [Workers -> Seq([b : 0 .. Sentinel, kind : Kinds, whole : BOOLEAN])]
  /\ outcome \in {"running", "ok", "bad"}

(* The drain forwards committed output only: what it has moved out of a    *)
(* worker's file, and what any signal allows it to move, no rollback can   *)
(* take back (fr_py_drain_loop, fr_py_notify_committed).                   *)
DrainBehindCommit ==
  /\ \A w \in Workers :
       /\ Len(results[w]) <= Settled(w)
       /\ \A i \in 1 .. Len(results[w]) : results[w][i] = memfd[w][i]
       /\ \A i \in 1 .. Settled(w) : memfd[w][i].whole
  /\ \A i \in 1 .. Len(signals) : signals[i].frontier <= Settled(signals[i].w)
  /\ held # NoSignal => held.frontier <= Settled(held.w)

(* Committed output stays: whatever a worker, a death or a recovery does,  *)
(* the settled part of a file only grows and keeps its records             *)
(* (worker_txn_advance_output, ring_recover_worker_core).                  *)
CommittedKept ==
  [][\A w \in Workers :
       /\ Settled(w) <= Settled(w)'
       /\ \A i \in 1 .. Settled(w) : memfd'[w][i] = memfd[w][i]]_vars

(* No batch reaches the caller twice, whoever died or failed in between,   *)
(* unless a worker died between its own deposit and its next claim         *)
(* (fr_py_escrow_deposit).                                                 *)
OneOutcome ==
  \A b \in 0 .. Sentinel : b \notin doubled => Cardinality(OfBatch(b)) <= 1

(* A run that reports success has delivered an outcome of every batch,     *)
(* whatever notifications were lost to deaths (fr_wake_drain_committed).   *)
CompleteResults ==
  outcome = "ok" => \A b \in Batches : OfBatch(b) # {}

(* The completeness certificate of a successful run: the shared count of   *)
(* committed DATA frames is the number of those delivered (fr_py_ack_core).*)
CountExact ==
  outcome = "ok" => committed = Cardinality(OfKind("data"))

(* So is the number of poisoned batches (fr_py_claim).                     *)
PoisonExact ==
  outcome = "ok" => poisonedCount = Cardinality(OfKind("poisoned"))

(* Every run ends, in success or failure: nobody waits for ever for a      *)
(* batch, a signal or a reader (supervision loop, fr_py_claim).            *)
Termination == <>(outcome # "running")
=============================================================================
