------------------------------- MODULE Scanner -------------------------------
(***************************************************************************)
(* The scanner of one node (core_scanner_loop): it cuts batches, writes    *)
(* one ring slot per batch behind the wrap-around shield, publishes slots  *)
(* by moving write_idx, and declares end of input.  Where batches begin    *)
(* and end, and how their size adapts, is abstracted away.                 *)
(***************************************************************************)
EXTENDS RingState

scannerFrame == <<claimVars, escrowVars, countVars, parentVars, fallowVars,
                  ledgerVars, lifeVars, txn, pc, emergencyAbort>>

(* The index the shield measures the scanner's lead from: on UMA with a    *)
(* fallow process the acknowledged prefix min_idx, dragged along once the  *)
(* claims are more than MaxAhead beyond it; otherwise the claims alone.    *)
ShieldByClaims == readIdx
ShieldLimit ==
  IF ~Numa /\ fallowActive
  THEN IF readIdx > minIdx + MaxAhead THEN readIdx - MaxAhead ELSE minIdx
  ELSE readIdx

ShieldUp == scanIdx > ShieldLimit /\ scanIdx - ShieldLimit >= MaxAhead

(* UNIFIED_ADAPTIVE_COMMIT(false): how many written slots stay unpublished *)
(* when nobody waits, by the backlog per registered worker.                *)
TargetBuffer ==
  LET W       == IF activeWorkers < 1 THEN 1 ELSE activeWorkers
      pending == IF scanIdx > readIdx THEN scanIdx - readIdx ELSE 0
      linear  == pending \div 2
      inter   == IF linear < scanIdx - writeIdx THEN linear ELSE scanIdx - writeIdx
  IN  IF pending >= BacklogHigh * W THEN HoldBack * W
      ELSE IF pending > 2 * W /\ inter > W THEN inter - W
      ELSE 0

CommitTarget ==
  LET target == IF scanIdx > TargetBuffer THEN scanIdx - TargetBuffer ELSE 0
  IN  IF activeWaiters > 0 THEN scanIdx
      ELSE IF target > writeIdx THEN target ELSE writeIdx

-----------------------------------------------------------------------------
Phase == IF spc = "scan" THEN NBatches ELSE DataBatches

(* The slot write of UNIFIED_SCANNER_FLUSH, once the shield lets it pass   *)
(* or no worker is registered.                                             *)
WriteSlot ==
  /\ spc \in {"scan", "tail"}
  /\ scanIdx < Phase
  /\ ~emergencyAbort
  /\ ShieldUp => activeWorkers = 0
  /\ rangeRing' = [rangeRing EXCEPT ![Slot(scanIdx)] = scanIdx]
  /\ minorRing' = [minorRing EXCEPT ![Slot(scanIdx)] = scanIdx]
  /\ scanIdx' = scanIdx + 1
  /\ spc' = IF spc = "scan" THEN "scanCommit" ELSE "tailCommit"
  /\ unpinned' = (unpinned \/ (scanIdx - minIdx >= MaxAhead
                                 /\ (ShieldUp \/ Numa \/ ~fallowActive)))
  /\ UNCHANGED <<scannerFrame, writeIdx, scannerFinished, eofEvfd>>

(* UNIFIED_ADAPTIVE_COMMIT(false) after the slot is written.               *)
Commit ==
  /\ spc \in {"scanCommit", "tailCommit"}
  /\ writeIdx' = CommitTarget
  /\ spc' = IF spc = "scanCommit" THEN "scan" ELSE "tail"
  /\ UNCHANGED <<scannerFrame, scanIdx, rangeRing, minorRing, scannerFinished,
                 unpinned, eofEvfd>>

(* UNIFIED_ADAPTIVE_COMMIT(true) on each round the shield holds it back.   *)
ShieldWait ==
  /\ spc \in {"scan", "tail"}
  /\ scanIdx < Phase
  /\ ~emergencyAbort
  /\ ShieldUp /\ activeWorkers > 0
  /\ writeIdx' = scanIdx
  /\ UNCHANGED <<scannerFrame, spc, scanIdx, rangeRing, minorRing,
                 scannerFinished, unpinned, eofEvfd>>

(* End of input, or an abort seen at the next flush.                       *)
EndOfScan ==
  /\ spc = "scan"
  /\ scanIdx = NBatches \/ emergencyAbort
  /\ spc' = IF TailRuns /\ ~emergencyAbort THEN "tailForce" ELSE "final"
  /\ UNCHANGED <<scannerFrame, scanIdx, writeIdx, rangeRing, minorRing,
                 scannerFinished, unpinned, eofEvfd>>

(* The tail publishes what was held back and writes the EOF eventfd if     *)
(* anybody waits.                                                          *)
TailForce ==
  /\ spc = "tailForce"
  /\ writeIdx' = scanIdx
  /\ eofEvfd' = (eofEvfd \/ activeWaiters > 0)
  /\ spc' = "tail"
  /\ UNCHANGED <<scannerFrame, scanIdx, rangeRing, minorRing, scannerFinished,
                 unpinned>>

EndOfTail ==
  /\ spc = "tail"
  /\ scanIdx = DataBatches \/ emergencyAbort
  /\ spc' = "final"
  /\ UNCHANGED <<scannerFrame, scanIdx, writeIdx, rangeRing, minorRing,
                 scannerFinished, unpinned, eofEvfd>>

(* The last store of write_idx.  UMA first adds a zero-length sentinel     *)
(* slot, past the shield and without stamping minor_ring.                  *)
FinalPublish ==
  /\ spc = "final"
  /\ IF Numa
     THEN UNCHANGED <<scanIdx, rangeRing, unpinned>>
     ELSE /\ rangeRing' = [rangeRing EXCEPT ![Slot(scanIdx)] = scanIdx]
          /\ scanIdx' = scanIdx + 1
          /\ unpinned' = (unpinned \/ (~fallowActive /\ scanIdx - minIdx >= MaxAhead))
  /\ writeIdx' = scanIdx'
  /\ spc' = "finish"
  /\ UNCHANGED <<scannerFrame, minorRing, scannerFinished, eofEvfd>>

Finish ==
  /\ spc = "finish"
  /\ scannerFinished' = TRUE
  /\ spc' = "blast"
  /\ UNCHANGED <<scannerFrame, scanIdx, writeIdx, rangeRing, minorRing,
                 unpinned, eofEvfd>>

EofBlast ==
  /\ spc = "blast"
  /\ eofEvfd' = TRUE
  /\ spc' = "done"
  /\ UNCHANGED <<scannerFrame, scanIdx, writeIdx, rangeRing, minorRing,
                 scannerFinished, unpinned>>

ScannerNext ==
  \/ WriteSlot \/ Commit \/ ShieldWait \/ EndOfScan \/ TailForce \/ EndOfTail
  \/ FinalPublish \/ Finish \/ EofBlast
=============================================================================
