-------------------------------- MODULE Resume --------------------------------
(***************************************************************************)
(* The pipeline of one node through its runs: the reactor's end of a run,  *)
(* the checkpoint the EXIT trap writes, and the resume from it.            *)
(***************************************************************************)
EXTENDS Orderer

Init ==
  /\ mode \in Modes /\ limit \in Limits[mode] /\ lineSize \in Sizes[mode]
  /\ ingested = 0 /\ eofFd = FALSE /\ ingestComplete = FALSE /\ ingestPc = "copy"
  /\ scanPc = "loop" /\ pos = 0 /\ avail = 0 /\ status = 0 /\ wasComplete = FALSE
  /\ forceRefill = FALSE /\ pending = 0 /\ scanned = 0 /\ batchStart = 0
  /\ rs = [horizon |-> 0, jagged |-> {}]
  /\ batches = <<>> /\ work = <<>>
  /\ fallowPipe = <<>> /\ nextIdx = 0 /\ fallowHeap = {} /\ fallowBytes = 0
  /\ orderPipe = <<>> /\ heap = {} /\ expected = 1
  /\ tracker = EmptyLedger /\ ledger = EmptyLedger /\ torn = FALSE
  /\ alarm = 0 /\ reactor = "poll" /\ outcome = "running"
  /\ synced = TRUE /\ orderer = (IF mode = "realtime" THEN "gone" ELSE "run")
  /\ out = <<>> /\ ckpt = EmptyLedger /\ run = 1 /\ faults = 0 /\ fellBack = FALSE

-------------------------------------------------------------------------------
(* The parent. *)

notParent == <<mode, limit, ingestVars, scanVars, batches, fallowVars, orderVars,
               outcome, ckpt, run, fellBack>>

(* Every worker and the scanner are gone and ring_poll has no descriptor   *)
(* left that keeps the loop alive.  The orderer is none of them.           *)
ReactorDone ==
  /\ outcome = "running" /\ reactor = "poll" /\ alarm = 0
  /\ scanPc = "done" /\ \A i \in DOMAIN work : work[i] = "done"
  /\ reactor' = "clean"
  /\ UNCHANGED <<work, alarm, faults, notParent>>

ReactorAbort ==                        \* POLL_EVENT = ABORT
  /\ outcome = "running" /\ reactor = "poll" /\ alarm # 0
  /\ reactor' = IF alarm = 1 THEN "clean" ELSE "dump"
  /\ UNCHANGED <<work, alarm, faults, notParent>>

(* A worker dies between its two packets: RACE_DETECTED.                   *)
RaceDeath ==
  /\ outcome = "running" /\ reactor = "poll" /\ Faulty
  /\ \E i \in DOMAIN work : work[i] = "half" /\ work' = [work EXCEPT ![i] = "lost"]
  /\ reactor' = "dump" /\ PullFireAlarm(2)
  /\ UNCHANGED notParent

Signal ==                              \* SIGTERM: freeze and checkpoint
  /\ outcome = "running" /\ reactor = "poll" /\ Faulty
  /\ reactor' = "dump" /\ PullFireAlarm(2)
  /\ UNCHANGED <<work, notParent>>

-------------------------------------------------------------------------------
(* The checkpoint (ring_dump_resume): intervals are merged; a ledger       *)
(* without a horizon takes the reclaimer's.                                *)

Merged(set) ==
  {iv \in (0..N) \X (0..N) :
     /\ iv[1] < iv[2] /\ Bytes(iv) \subseteq Covered(set)
     /\ iv[1] - 1 \notin Covered(set) /\ iv[2] \notin Covered(set)}

TakesFallow == ledger.horizon = 0 /\ fallowBytes > 0

CheckpointOfPrefix ==                  \* mutant: the jagged intervals are lost
  [horizon |-> IF TakesFallow THEN fallowBytes ELSE ledger.horizon,
   bytes   |-> ledger.bytes,
   jagged  |-> {}]

Checkpoint ==
  [horizon |-> IF TakesFallow THEN fallowBytes ELSE ledger.horizon,
   bytes   |-> ledger.bytes,
   jagged  |-> Merged(ledger.jagged)]

(* wait: every child is gone; then the EXIT trap.                          *)
ExitRun ==
  /\ outcome = "running" /\ reactor # "poll"
  /\ scanPc = "done" /\ ingestPc = "done" /\ orderer = "gone"
  /\ Busy = {} /\ fallowPipe = <<>>
  /\ IF reactor = "clean"
     THEN outcome' = "ok" /\ UNCHANGED <<ckpt, fellBack>>
     ELSE /\ outcome' = "failed" /\ ckpt' = Checkpoint
          /\ fellBack' = (fellBack \/ (mode # "realtime" /\ TakesFallow))
  /\ UNCHANGED <<mode, limit, ingestVars, scanVars, batches, work, fallowVars, orderVars,
                 alarm, reactor, run, faults>>

(* The user truncates the output to the count the message names (not in    *)
(* realtime) and runs the pipeline again on the same input.                *)
Kept == IF mode = "realtime" THEN out ELSE SubSeq(out, 1, ckpt.bytes)

Restart ==
  /\ outcome = "failed" /\ run < MaxRuns
  /\ run' = run + 1
  /\ out' = Kept
  /\ UNCHANGED <<mode, limit, ckpt, faults, fellBack>>
  /\ ingested' = 0 /\ eofFd' = FALSE /\ ingestComplete' = FALSE /\ ingestPc' = "copy"
  /\ scanPc' = "loop" /\ pos' = 0 /\ avail' = 0 /\ status' = 0 /\ wasComplete' = FALSE
  /\ forceRefill' = FALSE /\ pending' = 0 /\ scanned' = 0 /\ batchStart' = 0
  /\ rs' = [horizon |-> ckpt.horizon, jagged |-> ckpt.jagged]
  /\ batches' = <<>> /\ work' = <<>>
  /\ fallowPipe' = <<>> /\ nextIdx' = 0 /\ fallowHeap' = {} /\ fallowBytes' = 0
  /\ orderPipe' = <<>> /\ heap' = {} /\ expected' = 1
  /\ tracker' = ckpt /\ ledger' = ckpt /\ torn' = FALSE
  /\ alarm' = 0 /\ reactor' = "poll" /\ outcome' = "running"
  /\ lineSize' \in Sizes[mode]
  /\ synced' = FALSE /\ orderer' = (IF mode = "realtime" THEN "gone" ELSE "run")

-------------------------------------------------------------------------------
Next ==
  \/ IngestNext \/ ScanNext
  \/ Claim \/ \E i \in DOMAIN work : AckFallow(i) \/ AckOrder(i) \/ AckFails(i) \/ DieRunning(i)
  \/ Reclaim \/ OrderTake \/ OrderEmit \/ OrderEof
  \/ ReactorDone \/ ReactorAbort \/ RaceDeath \/ Signal \/ ExitRun \/ Restart

(* Nothing is left to do but for the user; any other stop is a deadlock.   *)
Rest == outcome # "running" /\ UNCHANGED vars

Spec == Init /\ [][Next \/ Rest]_vars

-------------------------------------------------------------------------------
OutputBytes(n) == Covered({out[i] : i \in 1..n})

TypeOK ==
  /\ ingested \in 0..N /\ pos \in 0..N /\ avail \in 0..N /\ batchStart \in 0..N
  /\ Len(work) = Len(batches) /\ nextIdx \in 0..Len(batches)
  /\ heap \subseteq DOMAIN batches /\ tracker.horizon \in 0..N
  /\ tracker.bytes \in 0..Len(out) /\ ckpt.bytes \in Nat

(* What a checkpoint reports as done is what the kept part of the output   *)
(* holds, not a byte more, and, as long as the ledger holds all intervals, *)
(* not a byte less (TRACK_COMPLETED_BATCH, ring_dump_resume).              *)
CheckpointExact ==
  outcome = "failed" /\ ~fellBack =>
    IF mode = "realtime" THEN LedgerBytes(ckpt) \subseteq OutputBytes(Len(out))
    ELSE LedgerBytes(ckpt) = OutputBytes(ckpt.bytes)

(* A pipeline that ends without an alarm has put out every line, however   *)
(* often it was resumed; -n lines exactly.                                 *)
CompleteOutput ==
  outcome = "ok" /\ alarm = 0 /\ ~fellBack => OutputBytes(Len(out)) = Wanted

(* Ordered output is a prefix of the input's order at any time and across  *)
(* resumes: each block begins where the one before it ended.               *)
OrderedPrefix ==
  mode = "ordered" /\ ~fellBack =>
    \A i \in DOMAIN out : out[i][1] = (IF i = 1 THEN 0 ELSE out[i-1][2])

(* Once the scanner is through without an alarm, what it published and     *)
(* what it skipped as done make up the input: no byte slipped in between   *)
(* the last read and the end-of-input flag, none was clipped away.         *)
ScanCovers ==
  scanPc = "done" /\ alarm = 0 =>
    Wanted \subseteq Covered(SetOf(batches)) \cup LedgerBytes(rs)

(* Crashes, checkpoints and resumes included, the pipeline delivers every  *)
(* byte exactly once ("Exactly-Once", frun.bash, --resume); a byte that is *)
(* in the durable output stays.                                            *)
Durable == IF mode = "realtime" THEN {} ELSE 1..tracker.bytes
Promise == INSTANCE Delivery WITH
  Input  <- 0..N-1,
  wanted <- Wanted,
  copies <- [b \in 0..N-1 |-> Cardinality({i \in Durable : b \in Bytes(out[i])})],
  closed <- outcome = "ok" /\ alarm = 0 /\ ~fellBack /\ mode # "realtime"
ImplementsDelivery == Promise!Spec
=============================================================================
