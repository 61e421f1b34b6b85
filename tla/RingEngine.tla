------------------------------ MODULE RingEngine ------------------------------
(***************************************************************************)
(* One node's engine: the scanner, the workers, the parent and the         *)
(* reclaimer run concurrently over the shared ring.  What must hold of it, *)
(* whatever the interleaving and wherever workers die.                     *)
(***************************************************************************)
EXTENDS Scanner, Worker, Recovery

Init ==
  /\ writeIdx = 0 /\ readIdx = 0
  /\ rangeRing = [s \in 0..RingSize-1 |-> NoTicket]
  /\ minorRing = [s \in 0..RingSize-1 |-> 0]
  /\ scannerFinished = FALSE /\ emergencyAbort = FALSE /\ eofEvfd = FALSE
  /\ activeWorkers = 0 /\ activeWaiters = 0
  /\ escrow = <<>> /\ escrowPending = FALSE
  /\ fallowActive = FALSE /\ minIdx = 0
  /\ poisonedCount = 0 /\ poisoned = {} /\ counted = {}
  /\ txn = [w \in Workers |-> IdleTxn(FirstNode)]
  /\ spc = "scan" /\ scanIdx = 0 /\ unpinned = FALSE
  /\ pc = [w \in Workers |-> "unspawned"]
  /\ ticket = [w \in Workers |-> NoTicket]
  /\ kills = [w \in Workers |-> 0]
  /\ drain = [w \in Workers |-> TRUE]
  /\ snap = [w \in Workers |-> NoSnap]
  /\ exitZero = [w \in Workers |-> FALSE]
  /\ ppc = "poll" /\ incarn = [w \in Workers |-> 0]
  /\ acked = {} /\ dropped = {} /\ deaths = 0

-----------------------------------------------------------------------------
reclaimFrame == <<scanVars, claimVars, escrowVars, countVars, parentVars,
                  alarmVars, ledgerVars, lifeVars, txn, pc>>

(* ring_fallow starts, and consumes ack packets: min_idx is the end of the *)
(* contiguous prefix of acknowledged batches.                              *)
FallowStart ==
  /\ FallowOn /\ ~Numa /\ ~fallowActive
  /\ fallowActive' = TRUE
  /\ UNCHANGED <<reclaimFrame, minIdx>>

FallowAdvance ==
  /\ fallowActive
  /\ minIdx \in acked
  /\ minIdx' = minIdx + 1
  /\ UNCHANGED <<reclaimFrame, fallowActive>>

(* The alarm is pulled by a process outside the ring (a broken downstream  *)
(* pipe, ring_abort, the orderer).                                         *)
OutsideAlarm ==
  /\ MayAbort /\ ~emergencyAbort
  /\ PullFireAlarm
  /\ UNCHANGED <<scanVars, claimVars, escrowVars, countVars, parentVars,
                 fallowVars, ledgerVars, lifeVars, txn, pc>>

(* Everything has stopped: every worker slot that was used is free again,  *)
(* or the run was aborted and its workers are gone.                        *)
Stopped ==
  /\ spc = "done"
  /\ IF ppc = "stopped"
     THEN \A w \in Workers : pc[w] \in {"unspawned", "dead", "free", "astray"}
     ELSE /\ \A w \in Workers : pc[w] \in {"unspawned", "free", "astray"}
          /\ \E w \in Workers : pc[w] # "unspawned"

Terminated == Stopped /\ UNCHANGED vars

Next ==
  \/ ScannerNext
  \/ \E w \in Workers :
       \/ Register(w) \/ Exit(w) \/ BeginClaim(w) \/ Rearm(w)
       \/ DrainPacket(w) \/ DrainEmpty(w) \/ RingCheck(w) \/ FetchAdd(w)
       \/ EscrowPacket(w) \/ EscrowEmpty(w) \/ EofCheck(w) \/ Spin(w)
       \/ BeginWait(w) \/ EndWait(w) \/ WaitAborted(w) \/ Evaluate(w)
       \/ Overshot(w) \/ OvershotReady(w) \/ OvershotAborted(w)
       \/ Decide(w) \/ BeginCommit(w) \/ SendAck(w) \/ AckFails(w) \/ Clear(w)
  \/ \E w \in Workers :
       \/ Spawn(w) \/ Kill(w) \/ PayloadExits(w)
       \/ RecoverIdle(w) \/ RecoverRace(w) \/ RecoverRecycled(w)
       \/ RecoverFatal(w) \/ RecoverDeposit(w) \/ RecoverSignal(w)
  \/ ParentAbort \/ FallowStart \/ FallowAdvance \/ OutsideAlarm
  \/ Terminated

Spec == Init /\ [][Next]_vars

-----------------------------------------------------------------------------
(* The type invariant.                                                     *)
PcLabels ==
  {"unspawned", "new", "idle", "restart", "drain", "ring", "fetch", "escrow",
   "fin", "wait", "eval", "overshot", "overshotWait", "decide",
   "exec", "ack", "commit", "clear", "leaving", "dead", "deposited", "free",
   "astray"}

SpcLabels ==
  {"scan", "scanCommit", "tailForce", "tail", "tailCommit", "final", "finish",
   "blast", "done"}

TypeOK ==
  /\ writeIdx \in Nat /\ readIdx \in Nat /\ scanIdx \in Nat /\ minIdx \in Nat
  /\ rangeRing \in [0..RingSize-1 -> Int]
  /\ minorRing \in [0..RingSize-1 -> Int]
  /\ scannerFinished \in BOOLEAN /\ emergencyAbort \in BOOLEAN
  /\ eofEvfd \in BOOLEAN /\ escrowPending \in BOOLEAN
  /\ fallowActive \in BOOLEAN /\ unpinned \in BOOLEAN
  /\ activeWorkers \in Nat /\ activeWaiters \in Nat
  /\ poisonedCount \in Nat /\ deaths \in Nat
  /\ escrow \in Seq(Packet)
  /\ txn \in [Workers -> Txn]
  /\ spc \in SpcLabels /\ ppc \in {"poll", "deposit", "alarmed", "stopped"}
  /\ pc \in [Workers -> PcLabels]
  /\ ticket \in [Workers -> Int] /\ kills \in [Workers -> Nat]
  /\ drain \in [Workers -> BOOLEAN] /\ exitZero \in [Workers -> BOOLEAN]
  /\ snap \in [Workers -> [r : Nat, w : Nat]]
  /\ incarn \in [Workers -> Nat]
  /\ acked \subseteq Int /\ poisoned \subseteq Int /\ counted \subseteq Int
  /\ dropped \subseteq [idx : Int, why : DropReasons]

-----------------------------------------------------------------------------
InEscrow(i)  == \E k \in DOMAIN escrow : escrow[k].idx = i
Abandoned(i) == \E d \in dropped : d.idx = i
Held(i)      == \E w \in Workers : ticket[w] = i

(* A ticket is in one place only: one worker holds it, or one packet of    *)
(* the escrow pipe names it, or its ack went out, or it was abandoned.     *)
(* This is what keeps a batch from being run twice at once or acked twice, *)
(* through every claim, death, recovery and retry (do_lockfree_claim,      *)
(* ring_recover_worker_core, ring_ack_main).                               *)
TicketExclusive ==
  /\ \A v, w \in Workers : ticket[v] # NoTicket /\ ticket[v] = ticket[w] => v = w
  /\ \A j, k \in DOMAIN escrow : escrow[j].idx = escrow[k].idx => j = k
  /\ \A w \in Workers : ~InEscrow(ticket[w])
  /\ \A i \in acked : ~Held(i) /\ ~InEscrow(i)
  /\ \A d \in dropped : ~Held(d.idx) /\ ~InEscrow(d.idx) /\ d.idx \notin acked

(* No ticket vanishes: every ticket read_idx handed out is in one of those *)
(* places.                                                                 *)
TicketComplete ==
  \A i \in 0..readIdx-1 : Held(i) \/ InEscrow(i) \/ i \in acked \/ Abandoned(i)

(* The engine implements the ledger of tickets.                            *)
Ledger == INSTANCE TicketLedger WITH
  issued <- readIdx,
  held   <- {ticket[w] : w \in Workers} \ {NoTicket},
  queued <- {escrow[k].idx : k \in DOMAIN escrow},
  lost   <- {d.idx : d \in dropped}

(* A ticket moves only as the ledger allows: through every claim, death,   *)
(* retry and abort it is issued once, retried only while its batch is not  *)
(* acked, and never comes back once it was acked or let go                 *)
(* (do_lockfree_claim, ring_ack_main, ring_recover_worker_core).           *)
ImplementsLedger == Ledger!Spec

(* Over-counting is safe, under-counting is not (INVARIANTS.md 7): the two  *)
(* counters the scanner reads never fall below the number of workers that  *)
(* are registered, or are in a wait loop, wherever workers are killed      *)
(* (ring_worker_main, cleanup_waiter_state).  An under-count would lift    *)
(* the wrap-around shield, or hold published slots back from a sleeper.    *)
Registered == {w \in Workers : Alive(w) /\ pc[w] # "new"}
Waiting    == {w \in Workers : pc[w] \in {"wait", "overshotWait"}}
CountersCover ==
  /\ activeWorkers >= Cardinality(Registered)
  /\ activeWaiters >= Cardinality(Waiting)

(* A worker past evaluation reads, and acks from, the slot of its own      *)
(* batch: write_idx covers its ticket and nothing was written over the     *)
(* slot since (populate in do_lockfree_claim; offset_ring and end_ring in  *)
(* ring_ack_main).                                                         *)
ClaimedSlotIntact ==
  \A w \in Workers :
    pc[w] \in {"decide", "exec", "ack", "commit"} =>
      Published(w) /\ rangeRing[Slot(ticket[w])] = ticket[w]

(* A death that recovery treats as a batch in flight is about the batch    *)
(* that the dead process held, and the record was written by that process: *)
(* no record outlives its batch or its generation, so the generation test  *)
(* of ring_recover_worker_core never fires (worker_txn_publish,            *)
(* worker_txn_clear, the respawn in the reactor).                          *)
RecordsCurrent ==
  \A w \in Workers : pc[w] = "dead" /\ txn[w].state = "CLAIMED" =>
    /\ txn[w].idx = ticket[w] /\ ticket[w] # NoTicket
    /\ txn[w].inc = incarn[w]

(* While the reclaimer pins the window, a batch not acked yet, be it       *)
(* unclaimed, running, or waiting in the escrow pipe, still has its bytes  *)
(* in its ring slot: the scanner never laps it, although overshot tickets  *)
(* drag the shield beyond min_idx (UNIFIED_SCANNER_FLUSH).                 *)
SlotsPinned ==
  ~unpinned =>
    \A i \in 0..scanIdx-1 : i \notin acked => rangeRing[Slot(i)] = i

(* A poisoned batch is counted once at most, however often it is retried   *)
(* after the count (ring_claim_main).                                      *)
PoisonCountedOnce == poisonedCount = Cardinality(counted)

(* A run that stops without an alarm has acked every batch of the input,   *)
(* unless the ring was lapped or a slot was given up because another       *)
(* node's ring was drained: "clean termination without lost wakeups,       *)
(* premature exits, or deadlocks" (EOF_PROTOCOL.md; the EOF conditions of  *)
(* do_lockfree_claim and the drain test of ring_recover_worker_core).      *)
CompleteExit ==
  /\ Stopped /\ ~emergencyAbort /\ ~unpinned
  /\ \A w \in Workers : pc[w] # "astray"
  => 0..DataBatches-1 \subseteq acked

-----------------------------------------------------------------------------
(* Every process keeps taking steps while it can: the kernel schedules     *)
(* them all, and every wait in the code is bounded and re-reads the        *)
(* indices.  The scanner asks for a first worker whatever the input; more  *)
(* workers, deaths and the outside alarm are not assumed to happen.        *)
FirstSpawn ==
  /\ \A w \in Workers : pc[w] = "unspawned"
  /\ \E w \in Workers : Spawn(w)

WorkerStep(w) ==
  \/ Register(w) \/ Exit(w) \/ BeginClaim(w) \/ Rearm(w)
  \/ DrainPacket(w) \/ DrainEmpty(w) \/ RingCheck(w) \/ FetchAdd(w)
  \/ EscrowPacket(w) \/ EscrowEmpty(w) \/ EofCheck(w) \/ BeginWait(w)
  \/ EndWait(w) \/ WaitAborted(w) \/ Evaluate(w) \/ Overshot(w)
  \/ OvershotReady(w) \/ OvershotAborted(w) \/ Decide(w) \/ BeginCommit(w)
  \/ SendAck(w) \/ Clear(w)

RecoverStep(w) ==
  \/ RecoverIdle(w) \/ RecoverRace(w) \/ RecoverRecycled(w)
  \/ RecoverFatal(w) \/ RecoverDeposit(w) \/ RecoverSignal(w)

Fairness ==
  /\ WF_vars(ScannerNext)
  /\ WF_vars(FirstSpawn)
  /\ \A w \in Workers : WF_vars(WorkerStep(w)) /\ WF_vars(RecoverStep(w))
  /\ WF_vars(ParentAbort) /\ WF_vars(FallowStart) /\ WF_vars(FallowAdvance)

FairSpec == Spec /\ Fairness

(* The engine comes to a stop: every worker slot is freed, or the run was  *)
(* aborted; nobody waits for ever (the wait loops of do_lockfree_claim,    *)
(* the shield of the scanner, respawning in the reactor).                  *)
Termination == <>Stopped

(* A batch that went to the escrow pipe is taken up again and acked, by    *)
(* whoever is left, unless the run is aborted or its slot was lapped       *)
(* (ring_recover_worker_core, the drain of do_lockfree_claim).             *)
RetriesServed ==
  \A i \in 0..DataBatches-1 :
    InEscrow(i) ~> (i \in acked \/ emergencyAbort \/ unpinned)
=============================================================================
