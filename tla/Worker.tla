-------------------------------- MODULE Worker --------------------------------
(***************************************************************************)
(* A worker process: registration (ring_worker inc/dec), the lock-free     *)
(* claim (do_lockfree_claim) step by step, the transaction record around   *)
(* it (ring_claim_main), the payload, and the ack (ring_ack_main).         *)
(*                                                                         *)
(* One action per access to shared memory whose order matters.  Polls are  *)
(* bounded by 100 ms in the code and every wake-up re-reads the indices,   *)
(* so a waiter is modelled by the conditions that let it leave the loop.   *)
(***************************************************************************)
EXTENDS RingState

workerFrame == <<scanVars, parentVars, fallowVars, deaths>>

(* The worker gives up its ticket (or packet) for reason why.              *)
Abandon(i, why) == dropped' = dropped \union {[idx |-> i, why |-> why]}

LeaveWaiters == activeWaiters' = IF activeWaiters > 0 THEN activeWaiters - 1 ELSE 0

(* write_idx covers the worker's ticket.                                   *)
PublishedOffByOne(w) == ticket[w] <= writeIdx
Published(w) == ticket[w] < writeIdx

(* The second and third condition for EOF: ring and escrow pipe are empty. *)
EscrowEmptyOnly == escrow = <<>>
NothingLeft == readIdx >= writeIdx /\ escrow = <<>>

-----------------------------------------------------------------------------
(* ring_worker inc                                                         *)
RegisterUncounted(w) ==
  /\ pc[w] = "new"
  /\ Goto(w, "idle")
  /\ UNCHANGED <<workerFrame, claimVars, escrowVars, countVars, alarmVars,
                 ledgerVars, exitZero, txn>>
Register(w) ==
  /\ pc[w] = "new"
  /\ activeWorkers' = activeWorkers + 1
  /\ Goto(w, "idle")
  /\ UNCHANGED <<workerFrame, claimVars, escrowVars, activeWaiters, alarmVars,
                 ledgerVars, exitZero, txn>>

(* The claim loop ends and the EXIT trap runs ring_worker dec.             *)
Exit(w) ==
  /\ pc[w] = "leaving"
  /\ activeWorkers' = activeWorkers - 1
  /\ exitZero' \in {[exitZero EXCEPT ![w] = z] : z \in BOOLEAN}
  /\ ProcessGone(w)
  /\ UNCHANGED <<workerFrame, escrowVars, activeWaiters, alarmVars,
                 ledgerVars, txn>>

(* ring_claim_main up to do_lockfree_claim: the alarm first, then IDLE to  *)
(* CLAIMING.                                                               *)
BeginClaim(w) ==
  /\ pc[w] = "idle"
  /\ IF emergencyAbort
     THEN Goto(w, "leaving") /\ UNCHANGED txn
     ELSE Goto(w, "restart") /\ SetTxn(w, "CLAIMING")
  /\ UNCHANGED <<workerFrame, claimVars, escrowVars, countVars, alarmVars,
                 ledgerVars, exitZero>>

(* A claim that returns without a batch: CLAIMING to IDLE, the loop ends.  *)
AbortClaim(w) == ClearTxn(w) /\ Goto(w, "leaving")

(* dlc_restart_loop: take the deposit signal, if it is up.                 *)
Rearm(w) ==
  /\ pc[w] = "restart"
  /\ escrowPending' = FALSE
  /\ drain' = [drain EXCEPT ![w] = @ \/ escrowPending]
  /\ Goto(w, IF drain'[w] THEN "drain" ELSE "ring")
  /\ UNCHANGED <<workerFrame, readIdx, ticket, kills, snap, escrow, countVars,
                 alarmVars, ledgerVars, exitZero, txn>>

(* Taking the oldest packet, as the next claim or to be rejected against   *)
(* the index snapshot <<r, w>> the caller compares it with.                *)
TakePacket(w, r, wr) ==
  LET p == Head(escrow)
  IN  /\ escrow # <<>>
      /\ escrow' = Tail(escrow)
      /\ IF EscrowIdxLive(p.idx, wr, r)
         THEN /\ ticket' = [ticket EXCEPT ![w] = p.idx]
              /\ kills' = [kills EXCEPT ![w] = p.kills]
              /\ Goto(w, "eval")
              /\ UNCHANGED dropped
         ELSE /\ Abandon(p.idx, "stale")
              /\ Goto(w, "ring")
              /\ UNCHANGED <<ticket, kills>>

(* The continuous drain before the ring, compared with fresh indices.      *)
DrainPacket(w) ==
  /\ pc[w] = "drain"
  /\ TakePacket(w, readIdx, writeIdx)
  /\ UNCHANGED <<workerFrame, readIdx, drain, snap, escrowPending, countVars,
                 alarmVars, acked, poisoned, counted, poisonedCount, exitZero, txn>>

DrainEmpty(w) ==
  /\ pc[w] = "drain"
  /\ escrow = <<>>
  /\ drain' = [drain EXCEPT ![w] = FALSE]
  /\ Goto(w, "ring")
  /\ UNCHANGED <<workerFrame, readIdx, ticket, kills, snap, escrowVars,
                 countVars, alarmVars, ledgerVars, exitZero, txn>>

(* 1. Ring check: the indices as this worker saw them.                     *)
RingCheck(w) ==
  /\ pc[w] = "ring"
  /\ IF readIdx < writeIdx
     THEN Goto(w, "fetch") /\ UNCHANGED snap
     ELSE /\ Goto(w, "escrow")
          /\ snap' = [snap EXCEPT ![w] = [r |-> readIdx, w |-> writeIdx]]
  /\ UNCHANGED <<workerFrame, readIdx, ticket, kills, drain, escrowVars,
                 countVars, alarmVars, ledgerVars, exitZero, txn>>

(* atomic_fetch_add on read_idx.                                           *)
FetchAdd(w) ==
  /\ pc[w] = "fetch"
  /\ ticket' = [ticket EXCEPT ![w] = readIdx]
  /\ kills' = [kills EXCEPT ![w] = 0]
  /\ readIdx' = readIdx + 1
  /\ Goto(w, "eval")
  /\ UNCHANGED <<workerFrame, drain, snap, escrowVars, countVars, alarmVars,
                 ledgerVars, exitZero, txn>>

(* 2. Escrow check, compared with the snapshot of the ring check.          *)
EscrowPacket(w) ==
  /\ pc[w] = "escrow"
  /\ TakePacket(w, snap[w].r, snap[w].w)
  /\ snap' = [snap EXCEPT ![w] = NoSnap]
  /\ UNCHANGED <<workerFrame, readIdx, drain, escrowPending, countVars,
                 alarmVars, acked, poisoned, counted, poisonedCount, exitZero, txn>>

EscrowEmpty(w) ==
  /\ pc[w] = "escrow"
  /\ escrow = <<>>
  /\ snap' = [snap EXCEPT ![w] = NoSnap]
  /\ Goto(w, "fin")
  /\ UNCHANGED <<workerFrame, readIdx, ticket, kills, drain, escrowVars, countVars, alarmVars,
                 ledgerVars, exitZero, txn>>

(* 3. The three conditions for EOF.  write_idx is final once               *)
(* scanner_finished is up and read_idx only grows, so the three reads      *)
(* reduce to the last of them.                                             *)
EofCheck(w) ==
  /\ pc[w] = "fin"
  /\ scannerFinished
  /\ IF NothingLeft
     THEN AbortClaim(w)
     ELSE Goto(w, "ring") /\ UNCHANGED txn
  /\ UNCHANGED <<workerFrame, claimVars, escrowVars, countVars, alarmVars,
                 ledgerVars, exitZero>>

(* 4. Spin: look at the ring again.                                        *)
Spin(w) ==
  /\ pc[w] = "fin"
  /\ ~scannerFinished
  /\ Goto(w, "ring")
  /\ UNCHANGED <<workerFrame, claimVars, escrowVars, countVars, alarmVars,
                 ledgerVars, exitZero, txn>>

(* 5. Poll on data, escrow and EOF, counted as a waiter.                   *)
BeginWaitUncounted(w) ==
  /\ pc[w] = "fin"
  /\ ~scannerFinished
  /\ Goto(w, "wait")
  /\ UNCHANGED <<workerFrame, claimVars, escrowVars, countVars, alarmVars,
                 ledgerVars, exitZero, txn>>
BeginWait(w) ==
  /\ pc[w] = "fin"
  /\ ~scannerFinished
  /\ activeWaiters' = activeWaiters + 1
  /\ Goto(w, "wait")
  /\ UNCHANGED <<workerFrame, claimVars, escrowVars, activeWorkers, alarmVars,
                 ledgerVars, exitZero, txn>>

EndWait(w) ==
  /\ pc[w] = "wait"
  /\ \/ writeIdx > readIdx
     \/ scannerFinished
     \/ ~emergencyAbort /\ (escrow # <<>> \/ eofEvfd)
  /\ LeaveWaiters
  /\ Goto(w, "ring")
  /\ UNCHANGED <<workerFrame, claimVars, escrowVars, activeWorkers, alarmVars,
                 ledgerVars, exitZero, txn>>

WaitAborted(w) ==
  /\ pc[w] = "wait"
  /\ emergencyAbort
  /\ LeaveWaiters
  /\ AbortClaim(w)
  /\ UNCHANGED <<workerFrame, claimVars, escrowVars, activeWorkers, alarmVars,
                 ledgerVars, exitZero>>

-----------------------------------------------------------------------------
(* The slot is read and worker_txn_publish stores the record, CLAIMED      *)
(* last.                                                                   *)
PublishTxn(w) ==
  /\ txn' = [txn EXCEPT ![w] = [state |-> "CLAIMED", idx |-> ticket[w],
                                kills |-> kills[w],
                                minor |-> minorRing[Slot(ticket[w])],
                                inc |-> incarn[w], node |-> "own"]]
  /\ Goto(w, "decide")

(* dlc_evaluate_claim: the first load of write_idx.                        *)
Evaluate(w) ==
  /\ pc[w] = "eval"
  /\ IF Published(w)
     THEN PublishTxn(w)
     ELSE Goto(w, "overshot") /\ UNCHANGED txn
  /\ UNCHANGED <<workerFrame, claimVars, escrowVars, countVars, alarmVars,
                 ledgerVars, exitZero>>

(* The ticket is dropped and the claim starts over.                        *)
DropTicket(w) ==
  /\ Abandon(ticket[w], "overshoot")
  /\ ticket' = [ticket EXCEPT ![w] = NoTicket]
  /\ kills' = [kills EXCEPT ![w] = 0]
  /\ Goto(w, "restart")

(* Overshot: the load of scanner_finished that follows, with write_idx not *)
(* read again.                                                             *)
Overshot(w) ==
  /\ pc[w] = "overshot"
  /\ IF scannerFinished
     THEN DropTicket(w) /\ UNCHANGED activeWaiters
     ELSE /\ activeWaiters' = activeWaiters + 1
          /\ Goto(w, "overshotWait")
          /\ UNCHANGED <<ticket, kills, dropped>>
  /\ UNCHANGED <<workerFrame, readIdx, drain, snap, escrowVars,
                 activeWorkers, alarmVars, acked, poisoned, counted,
                 poisonedCount, exitZero, txn>>

(* Waiting for the slot: it is published, or the scanner finished without  *)
(* it (write_idx is read again here).                                      *)
SlotPublished(w) == Published(w)
SlotSettled(w) == Published(w) \/ scannerFinished

OvershotReady(w) ==
  /\ pc[w] = "overshotWait"
  /\ SlotSettled(w)
  /\ LeaveWaiters
  /\ IF Published(w)
     THEN PublishTxn(w) /\ UNCHANGED <<ticket, kills, dropped>>
     ELSE DropTicket(w) /\ UNCHANGED txn
  /\ UNCHANGED <<workerFrame, readIdx, drain, snap, escrowVars,
                 activeWorkers, alarmVars, acked, poisoned, counted,
                 poisonedCount, exitZero>>

OvershotAborted(w) ==
  /\ pc[w] = "overshotWait"
  /\ emergencyAbort
  /\ LeaveWaiters
  /\ Abandon(ticket[w], "abort")
  /\ ticket' = [ticket EXCEPT ![w] = NoTicket]
  /\ kills' = [kills EXCEPT ![w] = 0]
  /\ AbortClaim(w)
  /\ UNCHANGED <<workerFrame, readIdx, drain, snap, escrowVars,
                 activeWorkers, alarmVars, acked, poisoned, counted,
                 poisonedCount, exitZero>>

-----------------------------------------------------------------------------
(* The poison decision of ring_claim_main: a retried batch at the limit is *)
(* skipped, and counted when its kills equal the threshold; enough counted *)
(* batches halt the run.  (The percentage form of the halt is left out.)   *)
Poisons(k)  == k > 0 /\ RetryLimit >= 0 /\ k >= RetryLimit
Threshold   == IF RetryLimit > 0 THEN RetryLimit ELSE 1

CountsAlways(k) == Poisons(k)
Counts(k)   == Poisons(k) /\ k = Threshold

Decide(w) ==
  LET count == Counts(kills[w])
  IN  /\ pc[w] = "decide"
      /\ Goto(w, IF Poisons(kills[w]) THEN "ack" ELSE "exec")
      /\ poisoned' = IF Poisons(kills[w]) THEN poisoned \union {ticket[w]} ELSE poisoned
      /\ counted' = IF count THEN counted \union {ticket[w]} ELSE counted
      /\ poisonedCount' = IF count THEN poisonedCount + 1 ELSE poisonedCount
      /\ IF count /\ HaltCount > 0 /\ poisonedCount' >= HaltCount
         THEN PullFireAlarm
         ELSE UNCHANGED alarmVars
      /\ UNCHANGED <<workerFrame, claimVars, escrowVars, countVars, acked,
                     dropped, exitZero, txn>>

(* The payload has run, or was skipped: worker_txn_begin_commit.           *)
CommitEarlyIdle(w) ==
  /\ pc[w] \in {"exec", "ack"}
  /\ ClearTxn(w)
  /\ Goto(w, "commit")
  /\ UNCHANGED <<workerFrame, claimVars, escrowVars, countVars, alarmVars,
                 ledgerVars, exitZero>>
BeginCommit(w) ==
  /\ pc[w] \in {"exec", "ack"}
  /\ IF txn[w].state = "CLAIMED" THEN SetTxn(w, "COMMITTING") ELSE UNCHANGED txn
  /\ Goto(w, "commit")
  /\ UNCHANGED <<workerFrame, claimVars, escrowVars, countVars, alarmVars,
                 ledgerVars, exitZero>>

(* The fallow and order packets go out.                                    *)
SendAck(w) ==
  /\ pc[w] = "commit"
  /\ acked' = acked \union {ticket[w]}
  /\ ticket' = [ticket EXCEPT ![w] = NoTicket]
  /\ kills' = [kills EXCEPT ![w] = 0]
  /\ Goto(w, "clear")
  /\ UNCHANGED <<workerFrame, readIdx, drain, snap, escrowVars,
                 countVars, alarmVars, dropped, poisoned, counted,
                 poisonedCount, exitZero, txn>>

(* An ack pipe has lost its reader: alarm, and the worker exits with an    *)
(* error in state COMMITTING.                                              *)
AckFails(w) ==
  /\ MayAbort
  /\ pc[w] = "commit"
  /\ PullFireAlarm
  /\ activeWorkers' = activeWorkers - 1
  /\ exitZero' = [exitZero EXCEPT ![w] = FALSE]
  /\ ProcessGone(w)
  /\ UNCHANGED <<workerFrame, escrowVars, activeWaiters, ledgerVars, txn>>

(* worker_txn_clear                                                        *)
Clear(w) ==
  /\ pc[w] = "clear"
  /\ ClearTxn(w)
  /\ Goto(w, "idle")
  /\ UNCHANGED <<workerFrame, claimVars, escrowVars, countVars, alarmVars,
                 ledgerVars, exitZero>>

=============================================================================
