------------------------------- MODULE Orderer --------------------------------
(***************************************************************************)
(* What follows a batch's run: the worker's two packets, the reclaimer     *)
(* that keeps the acknowledged prefix (ring_fallow), and the orderer       *)
(* (ring_order) that emits the blocks, in order or as they come, and keeps *)
(* the ledger of what is in the output.                                    *)
(***************************************************************************)
EXTENDS UmaScan

notWork == <<mode, limit, ingestVars, scanVars, batches, userVars>>
Busy == {i \in DOMAIN work : work[i] \in {"running", "half"}}

-------------------------------------------------------------------------------
(* Workers: claims in index order, completion in any order.  An alarm ends *)
(* the claims; what runs is finished and acked.                            *)

Claim ==
  /\ outcome = "running" /\ alarm = 0 /\ Cardinality(Busy) < InFlight
  /\ \E i \in DOMAIN work :
       /\ work[i] = "ready" /\ \A j \in 1..i-1 : work[j] # "ready"
       /\ work' = [work EXCEPT ![i] = "running"]
  /\ UNCHANGED <<fallowVars, orderVars, alarm, faults, notWork>>

(* realtime: the payload writes to the output itself.                      *)
Direct(i) == IF mode = "realtime" THEN out' = Append(out, batches[i]) ELSE UNCHANGED out

AckFallow(i) ==                        \* begin_commit, IndexPacket
  /\ outcome = "running" /\ i \in DOMAIN work /\ work[i] = "running"
  /\ Direct(i)
  /\ fallowPipe' = Append(fallowPipe, i)
  /\ work' = [work EXCEPT ![i] = "half"]
  /\ UNCHANGED <<nextIdx, fallowHeap, fallowBytes, orderPipe, heap, expected, synced,
                 orderer, tracker, ledger, torn, alarm, faults, notWork>>

AckOrder(i) ==                         \* OrderPacket, clear of the record
  /\ outcome = "running" /\ i \in DOMAIN work /\ work[i] = "half"
  /\ orderer = "run" \/ mode = "realtime"
  /\ orderPipe' = IF mode = "realtime" THEN orderPipe ELSE Append(orderPipe, i)
  /\ work' = [work EXCEPT ![i] = "done"]
  /\ UNCHANGED <<fallowVars, heap, expected, synced, orderer, tracker, ledger, out, torn,
                 alarm, faults, notWork>>

AckFails(i) ==                         \* the orderer is gone: EPIPE
  /\ outcome = "running" /\ i \in DOMAIN work /\ work[i] = "half"
  /\ orderer = "gone" /\ mode # "realtime"
  /\ work' = [work EXCEPT ![i] = "lost"] /\ PullFireAlarm(2)
  /\ UNCHANGED <<fallowVars, orderVars, faults, notWork>>

(* A worker dies while it runs and the batch is run again: what it put     *)
(* into its own file is rolled back, but a realtime payload may have       *)
(* written to the output already.                                          *)
DieRunning(i) ==
  /\ outcome = "running" /\ i \in DOMAIN work /\ work[i] = "running" /\ Faulty
  /\ mode = "realtime" /\ Direct(i)
  /\ UNCHANGED <<work, fallowVars, orderPipe, heap, expected, synced, orderer, tracker,
                 ledger, torn, alarm, notWork>>

-------------------------------------------------------------------------------
(* The reclaimer: nextIdx is the length of the acknowledged prefix.        *)

PrefixEnd(set, from) ==
  CHOOSE k \in from..Len(batches) : from+1..k \subseteq set /\ k + 1 \notin set

Reclaim ==
  /\ outcome = "running" /\ fallowPipe # <<>>
  /\ LET acked == fallowHeap \cup {Head(fallowPipe)}
         k == PrefixEnd(acked, nextIdx)
     IN  /\ nextIdx' = k
         /\ fallowHeap' = acked \ (1..k)
         /\ fallowBytes' = IF k > nextIdx THEN batches[k][2] ELSE fallowBytes
  /\ fallowPipe' = Tail(fallowPipe)
  /\ UNCHANGED <<work, orderVars, alarm, faults, notWork>>

-------------------------------------------------------------------------------
(* TRACK_COMPLETED_BATCH: a batch that touches the horizon moves it over   *)
(* every interval it reaches, any other waits among the jagged ones.       *)

FirstMissing(from, set) ==
  CHOOSE b \in from..N : b \notin Covered(set) /\ from..b-1 \subseteq Covered(set)

TrackSkipsGap(led, iv) ==              \* mutant: any batch moves the horizon
  [horizon |-> IF iv[2] > led.horizon THEN iv[2] ELSE led.horizon,
   bytes |-> led.bytes + 1, jagged |-> {}]

TrackTwice(led, iv) ==                 \* mutant: a block is counted twice
  [led EXCEPT !.bytes = @ + 2, !.horizon = iv[2]]

Track(led, iv) ==
  IF iv[1] <= led.horizon
  THEN LET h == FirstMissing(led.horizon, led.jagged \cup {iv})
       IN  [horizon |-> h, bytes |-> led.bytes + 1,
            jagged |-> {j \in led.jagged : j[1] > h}]
  ELSE [led EXCEPT !.bytes = @ + 1, !.jagged = @ \cup {iv}]

(* What fits the shared ledger: the array starts with the least interval.  *)
Published(led) ==
  IF Cardinality(led.jagged) <= JaggedCap THEN {led}
  ELSE {[led EXCEPT !.jagged = kept] : kept \in
          {k \in SUBSET led.jagged : Cardinality(k) = JaggedCap
             /\ \E iv \in k : \A j \in led.jagged : iv[1] <= j[1]}}

notOrder == <<work, fallowVars, notWork>>

Emit(i) ==
  /\ out' = Append(out, batches[i])
  /\ tracker' = Track(tracker, batches[i])
  /\ ledger' \in Published(tracker')
  /\ UNCHANGED <<torn, orderer, alarm, faults>>

(* The emission fails: downstream closed, or a fault such as a full disk;  *)
(* part of the block may be out.                                           *)
EmitFails(i) ==
  /\ Faulty
  /\ \E reason \in {1, 2} : PullFireAlarm(reason)
  /\ torn' \in BOOLEAN
  /\ orderer' = "gone"
  /\ UNCHANGED <<out, tracker, ledger>>

LeastDue == CHOOSE i \in heap : \A j \in heap : i <= j

DueAny ==                              \* mutant: whatever is in the heap is due
  mode = "ordered" /\ synced /\ heap # {}

(* The packet at the top of the heap is the one expected.                  *)
Due == mode = "ordered" /\ synced /\ heap # {} /\ LeastDue = expected

SyncsTo(i) == batches[i][1] = ledger.horizon

(* A packet arrives.                                                       *)
OrderTake ==
  /\ outcome = "running" /\ orderer = "run" /\ orderPipe # <<>> /\ ~Due
  /\ orderPipe' = Tail(orderPipe)
  /\ LET i == Head(orderPipe) IN
     \/ /\ mode = "ordered"
        /\ heap' = heap \cup {i}
        /\ IF ~synced /\ SyncsTo(i) THEN synced' = TRUE /\ expected' = i
                                    ELSE UNCHANGED <<synced, expected>>
        /\ UNCHANGED <<orderer, tracker, ledger, out, torn, alarm, faults>>
     \/ /\ mode = "buffered" /\ (Emit(i) \/ EmitFails(i))
        /\ UNCHANGED <<heap, expected, synced>>
  /\ UNCHANGED notOrder

(* The inner loop of the ordered mode.                                     *)
OrderEmit ==
  /\ outcome = "running" /\ orderer = "run" /\ Due
  /\ heap' = heap \ {LeastDue} /\ expected' = LeastDue + 1
  /\ Emit(LeastDue) \/ EmitFails(LeastDue)
  /\ UNCHANGED <<orderPipe, synced, notOrder>>

(* All writers of the pipe are gone.                                       *)
OrderEof ==
  /\ outcome = "running" /\ orderer = "run" /\ orderPipe = <<>> /\ ~Due
  /\ reactor # "poll" /\ Busy = {}
  /\ orderer' = "gone"
  /\ IF mode = "ordered" /\ ~synced THEN PullFireAlarm(2) ELSE UNCHANGED alarm
  /\ UNCHANGED <<orderPipe, heap, expected, synced, tracker, ledger, out, torn,
                 faults, notOrder>>
=============================================================================
