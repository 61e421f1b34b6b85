------------------------------- MODULE Recovery -------------------------------
(***************************************************************************)
(* Deaths and the parent: a worker may be killed at any point; the reactor *)
(* (the WORKER_DEATH arm of frun.bash) classifies every death with         *)
(* ring_recover_worker_core from the dead worker's transaction record, and *)
(* respawns the slot, frees it, or aborts the run.                         *)
(*                                                                         *)
(* This is the run without an orderer: resume_horizon stays 0, so the      *)
(* committed-frontier test of the classification never holds.              *)
(***************************************************************************)
EXTENDS RingState

parentFrame == <<scanVars, fallowVars, deaths, readIdx, snap, drain, kills, countVars,
                 acked, poisoned, counted, poisonedCount>>

(* ring_poll looks at the alarm before every poll: an event it had already *)
(* polled for when the alarm went up is still handled, no further one.     *)
PollAgain == ppc' = IF emergencyAbort THEN "alarmed" ELSE "poll"

(* A SPAWN request of the scanner reaches a slot that never ran.  One      *)
(* request may name several workers.                                       *)
Spawn(w) ==
  /\ ppc = "poll"
  /\ pc[w] = "unspawned"
  /\ Goto(w, "new")
  /\ UNCHANGED <<parentFrame, ticket, escrowVars, parentVars,
                 alarmVars, dropped, exitZero, txn>>

(* SIGKILL or a crash: no trap runs, the counters keep the dead worker.    *)
Kill(w) ==
  /\ Alive(w) /\ deaths < MaxDeaths
  /\ deaths' = deaths + 1
  /\ exitZero' = [exitZero EXCEPT ![w] = FALSE]
  /\ ProcessGone(w)
  /\ UNCHANGED <<scanVars, escrowVars, countVars, parentVars,
                 alarmVars, fallowVars, ledgerVars, txn>>

(* The zero-length batch that closes a UMA run: no payload runs for it.    *)
IsSentinel(i) ==
  ~Numa /\ spc \in {"finish", "blast", "done"} /\ i = scanIdx - 1

(* The payload ends the worker shell, with some exit status: the EXIT trap *)
(* runs ring_worker dec.                                                   *)
PayloadExits(w) ==
  /\ pc[w] = "exec" /\ deaths < MaxDeaths
  /\ ~ IsSentinel(ticket[w])
  /\ deaths' = deaths + 1
  /\ activeWorkers' = activeWorkers - 1
  /\ exitZero' \in {[exitZero EXCEPT ![w] = z] : z \in BOOLEAN}
  /\ ProcessGone(w)
  /\ UNCHANGED <<scanVars, escrowVars, activeWaiters, parentVars,
                 alarmVars, fallowVars, ledgerVars, txn>>

-----------------------------------------------------------------------------
(* The reactor spawns the next generation of slot w.                       *)
Respawn(w) ==
  /\ Goto(w, "new")
  /\ incarn' = [incarn EXCEPT ![w] = @ + 1]
  /\ exitZero' = [exitZero EXCEPT ![w] = FALSE]

Stop ==
  /\ PullFireAlarm
  /\ ppc' = "stopped"
  /\ UNCHANGED <<pc, incarn, exitZero>>

(* What an error exit between two batches is taken for: the end of the run *)
(* when nothing seems left to claim.                                       *)
DrainedButSignal == scannerFinished /\ readIdx >= writeIdx
Drained == scannerFinished /\ readIdx >= writeIdx /\ ~escrowPending

(* The test is made on the ring of the node the record names.  On NUMA a   *)
(* record this node never published names another one, whose ring may be   *)
(* in any state.  Bound: that ring is drained before the slot has come     *)
(* back MaxDeaths times.                                                   *)
JudgedByOther(w) == txn[w].node = "foreign"
Verdicts(w) ==
  {Drained}
    \union {v \in BOOLEAN : JudgedByOther(w) /\ (v \/ incarn[w] < MaxDeaths)}

(* The slot is freed; "astray" marks one that was freed after an error     *)
(* although its node has work.                                             *)
FreeSlot(w) ==
  /\ Goto(w, IF exitZero[w] \/ Drained THEN "free" ELSE "astray")
  /\ exitZero' = [exitZero EXCEPT ![w] = FALSE]
  /\ UNCHANGED incarn

(* Case 1, IDLE: NORMAL_EXIT (2) or NO_BATCH (1).                          *)
RecoverIdle(w) ==
  /\ ppc = "poll" /\ pc[w] = "dead"
  /\ txn[w].state = "IDLE"
  /\ \/ exitZero[w] /\ FreeSlot(w)
     \/ ~exitZero[w] /\ TRUE \in Verdicts(w) /\ FreeSlot(w)
     \/ ~exitZero[w] /\ FALSE \in Verdicts(w) /\ Respawn(w)
  /\ PollAgain
  /\ UNCHANGED <<parentFrame, ticket, escrowVars, alarmVars, dropped, txn>>

(* Cases 2 and 3, CLAIMING and COMMITTING: RACE (4), the run is aborted.   *)
RecoverRace(w) ==
  /\ ppc = "poll" /\ pc[w] = "dead"
  /\ txn[w].state \in {"CLAIMING", "COMMITTING"}
  /\ Stop
  /\ UNCHANGED <<parentFrame, ticket, escrowVars, dropped, txn>>

(* Case 4, CLAIMED.  A record of an older generation would be cleared; the *)
(* invariant RecordsCurrent shows that no death finds one.                 *)
CommittingToo(w) ==
  /\ ppc = "poll" /\ pc[w] = "dead"
  /\ txn[w].state \in {"CLAIMED", "COMMITTING"}
ClaimedDeath(w) ==
  /\ ppc = "poll" /\ pc[w] = "dead"
  /\ txn[w].state = "CLAIMED"

SlotIntact(w) == minorRing[Slot(txn[w].idx)] = txn[w].minor

(* The slot was written again: ALREADY_DONE (3), the batch is let go.      *)
RecoverRecycled(w) ==
  /\ ClaimedDeath(w)
  /\ ~SlotIntact(w)
  /\ ClearTxn(w)
  /\ dropped' = dropped \union {[idx |-> txn[w].idx, why |-> "recycled"]}
  /\ ticket' = [ticket EXCEPT ![w] = NoTicket]
  /\ Respawn(w)
  /\ PollAgain
  /\ UNCHANGED <<parentFrame, escrowVars, alarmVars>>

(* Exit status 0 with a batch in flight: FATAL (5).                        *)
RecoverFatal(w) ==
  /\ ClaimedDeath(w)
  /\ SlotIntact(w)
  /\ exitZero[w]
  /\ Stop
  /\ UNCHANGED <<parentFrame, ticket, escrowVars, dropped, txn>>

(* The orphan: its packet goes to the escrow pipe with one kill more ...   *)
RecoverDeposit(w) ==
  /\ ClaimedDeath(w)
  /\ SlotIntact(w)
  /\ ~exitZero[w]
  /\ escrow' = Append(escrow, [idx |-> txn[w].idx, kills |-> txn[w].kills + 1])
  /\ ticket' = [ticket EXCEPT ![w] = NoTicket]
  /\ Goto(w, "deposited")
  /\ ppc' = "deposit"
  /\ UNCHANGED <<parentFrame, escrowPending, incarn, alarmVars,
                 dropped, exitZero, txn>>

(* ... then the flag goes up and the record is cleared: RECOVERED (0).     *)
SignalKeepsRecord(w) ==
  /\ ppc = "deposit" /\ pc[w] = "deposited"
  /\ escrowPending' = TRUE
  /\ PollAgain
  /\ Respawn(w)
  /\ UNCHANGED <<parentFrame, ticket, escrow, alarmVars, dropped, txn>>
RecoverSignal(w) ==
  /\ ppc = "deposit" /\ pc[w] = "deposited"
  /\ escrowPending' = TRUE
  /\ ClearTxn(w)
  /\ PollAgain
  /\ Respawn(w)
  /\ UNCHANGED <<parentFrame, ticket, escrow, alarmVars, dropped>>

(* ring_poll reports ABORT and the reactor leaves its loop.                *)
ParentAbort ==
  /\ ppc \in {"poll", "alarmed"}
  /\ emergencyAbort
  /\ ppc' = "stopped"
  /\ UNCHANGED <<parentFrame, ticket, escrowVars, incarn,
                 alarmVars, dropped, exitZero, txn, pc>>

=============================================================================
