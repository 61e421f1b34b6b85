------------------------------- MODULE UmaScan --------------------------------
(***************************************************************************)
(* Ingest (ring_copy) and the line-mode scanner of a single node: the      *)
(* refill with its end-of-input race, the search for delimiters, the flush *)
(* of a batch and its clip against the ledger of a resumed run.            *)
(***************************************************************************)
EXTENDS StreamState

notIngest == <<mode, limit, scanVars, batches, work, fallowVars, orderVars, userVars>>

IngestAppend ==                       \* read, write, evfd_ingest_data
  /\ outcome = "running" /\ ingestPc = "copy" /\ alarm = 0
  /\ \E to \in (Pauses \cup {N}) : to > ingested /\ ingested' = to
  /\ UNCHANGED <<eofFd, ingestComplete, ingestPc, alarm, faults, notIngest>>

(* read returned 0; the alarm is up; or -n is satisfied.                   *)
IngestEnd ==
  /\ outcome = "running" /\ ingestPc = "copy"
  /\ ingested = N \/ alarm # 0 \/ (limit > 0 /\ scanPc = "done")
  /\ ingestPc' = "eof"
  /\ UNCHANGED <<ingested, eofFd, ingestComplete, alarm, faults, notIngest>>

IngestFail ==                         \* err_out
  /\ outcome = "running" /\ ingestPc = "copy" /\ Faulty
  /\ ingestPc' = "eof" /\ PullFireAlarm(2)
  /\ UNCHANGED <<ingested, eofFd, ingestComplete, notIngest>>

IngestEofFd ==
  /\ outcome = "running" /\ ingestPc = "eof"
  /\ eofFd' = TRUE /\ ingestPc' = "flag"
  /\ UNCHANGED <<ingested, ingestComplete, alarm, faults, notIngest>>

IngestFlag ==
  /\ outcome = "running" /\ ingestPc = "flag"
  /\ ingestComplete' = TRUE /\ ingestPc' = "done"
  /\ UNCHANGED <<ingested, eofFd, alarm, faults, notIngest>>

IngestNext == IngestAppend \/ IngestEnd \/ IngestFail \/ IngestEofFd \/ IngestFlag

-------------------------------------------------------------------------------
(* UNIFIED_SCANNER_FLUSH's clip of [s, e) against the snapshot rs: what    *)
(* the horizon or an interval already covers is cut off the front, the     *)
(* batch ends where the next interval begins; <<>> is a skipped batch.     *)

FrontAfter(s) ==
  LET s1 == IF s < rs.horizon THEN rs.horizon ELSE s
      hit == {iv \in rs.jagged : iv[1] <= s1 /\ s1 < iv[2]}
  IN  IF hit = {} THEN s1 ELSE (CHOOSE iv \in hit : TRUE)[2]

ClipNothing(s, e) == <<s, e>>         \* mutant: resume does not clip

Clip(s, e) ==
  LET front == FrontAfter(s)
      starts == {iv[1] : iv \in {j \in rs.jagged : front < j[1] /\ j[1] < e}}
  IN  IF e <= front THEN <<>>
      ELSE IF starts = {} THEN <<front, e>>
      ELSE <<front, CHOOSE b \in starts : \A c \in starts : b <= c>>

Flush(s, e) ==
  LET b == Clip(s, e)
  IN  IF b = <<>> THEN UNCHANGED <<batches, work>>
      ELSE batches' = Append(batches, b) /\ work' = Append(work, "ready")

Resize == lineSize' \in Sizes[mode]

notScan == <<mode, limit, ingested, eofFd, ingestPc, fallowVars, orderVars, alarm, userVars, faults>>
Scanning(pc) == outcome = "running" /\ scanPc = pc

(* Top of the loops: refill, scan what is in the buffer, or end.           *)
CaptureComplete ==
  /\ Scanning("loop") /\ (pos >= avail \/ forceRefill) /\ status = 0
  /\ forceRefill' = FALSE /\ wasComplete' = ingestComplete /\ scanPc' = "pread"
  /\ UNCHANGED <<pos, avail, status, lineSize, pending, scanned, batchStart, rs,
                 ingestComplete, batches, work, notScan>>

(* pread at p.  More than what is left in the buffer is new data; if not,  *)
(* only an end of input captured before the pread is the truth.            *)
Pread ==
  /\ Scanning("pread")
  /\ LET n == IF ingested - pos < Buffer THEN ingested - pos ELSE Buffer
         more == n > avail - pos
     IN  /\ avail' = IF n > 0 THEN pos + n ELSE avail
         /\ scanPc' = IF more THEN "scan" ELSE "judge"
  /\ UNCHANGED <<pos, status, wasComplete, forceRefill, lineSize, pending, scanned,
                 batchStart, rs, ingestComplete, batches, work, notScan>>

AtEndLater == ingestComplete          \* mutant: the flag as it is after the pread
AtEnd == wasComplete

Judge ==
  /\ Scanning("judge")
  /\ IF AtEnd
     THEN /\ status' = 1 /\ scanPc' = "scan"
          /\ UNCHANGED <<ingestComplete, forceRefill>>
     ELSE /\ ingestComplete' = (ingestComplete \/ eofFd)
          /\ IF ingestComplete' THEN forceRefill' = TRUE /\ scanPc' = "loop"
                                ELSE scanPc' = "wait" /\ UNCHANGED forceRefill
          /\ UNCHANGED status
  /\ wasComplete' = FALSE                \* not read again before its next capture
  /\ UNCHANGED <<pos, avail, lineSize, pending, scanned, batchStart, rs,
                 batches, work, notScan>>

(* The bounded poll: the end of input is taken if no data is signalled.    *)
Wait ==
  /\ Scanning("wait")
  /\ ingestComplete' \in {ingestComplete, ingestComplete \/ eofFd}
  /\ forceRefill' = (forceRefill \/ pos < avail) /\ scanPc' = "loop"
  /\ UNCHANGED <<pos, avail, status, wasComplete, lineSize, pending, scanned,
                 batchStart, rs, batches, work, notScan>>

(* The buffer is not used up: no refill before the next scan.              *)
MoreInBuffer == scanPc = "loop" /\ pos < avail /\ (status = 1 \/ ~forceRefill)

LimitLeft == limit - scanned

(* Count delimiters up to what the batch, or -n, lacks; flush when the     *)
(* batch is full, at the end, or early for starving workers.               *)
Scan ==
  /\ outcome = "running" /\ (scanPc = "scan" \/ MoreInBuffer)
  /\ LET lacks  == IF lineSize > pending THEN lineSize - pending ELSE 1
         target == IF limit > 0 /\ LimitLeft < lacks THEN LimitLeft ELSE lacks
         have   == Cardinality(DelimsIn(pos, avail))
         full   == have >= target
         p      == IF full THEN AfterDelim(pos, target) ELSE avail
         tail   == status = 1 /\ ~full /\ pos < avail /\ avail - 1 \notin Delims
         found  == IF full THEN target ELSE have + (IF tail THEN 1 ELSE 0)
         hold   == pending + found
         ended  == status = 1 \/ (limit > 0 /\ scanned + found >= limit)
         must   == hold > 0 /\ (hold >= lineSize \/ ended)
         may    == hold > 0 /\ mode \in EarlyFlush
     IN  /\ pos' = p /\ scanned' = scanned + found
         /\ status' = IF ended THEN 1 ELSE 0
         /\ \E flush \in {must} \cup {may \/ must} :
              IF flush
              THEN /\ Flush(batchStart, p) /\ batchStart' = p /\ pending' = 0
                   /\ Resize /\ UNCHANGED forceRefill
              ELSE /\ pending' = hold /\ forceRefill' = TRUE
                   /\ UNCHANGED <<batchStart, lineSize, batches, work>>
         /\ scanPc' = IF limit > 0 /\ scanned' >= limit THEN "done" ELSE "loop"
  /\ UNCHANGED <<avail, wasComplete, rs, ingestComplete, notScan>>

(* status = 1 and nothing left: what no flush has taken goes out whole.    *)
TailFlush ==
  /\ Scanning("loop") /\ status = 1 /\ pos >= avail
  /\ IF batchStart < pos THEN Flush(batchStart, pos) ELSE UNCHANGED <<batches, work>>
  /\ batchStart' = pos /\ scanPc' = "done"
  /\ UNCHANGED <<pos, avail, status, wasComplete, forceRefill, lineSize, pending,
                 scanned, rs, ingestComplete, notScan>>

ScanAborted ==                        \* emergency_abort: unified_scanner_eof
  /\ outcome = "running" /\ alarm # 0 /\ scanPc # "done"
  /\ scanPc' = "done"
  /\ UNCHANGED <<pos, avail, status, wasComplete, forceRefill, lineSize, pending,
                 scanned, batchStart, rs, ingestComplete, batches, work, notScan>>

ScanNext ==
  \/ CaptureComplete \/ Pread \/ Judge \/ Wait \/ Scan
  \/ TailFlush \/ ScanAborted
=============================================================================
