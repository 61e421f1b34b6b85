-------------------------- MODULE RingEngine_proofs --------------------------
(***************************************************************************)
(* What holds of the engine for every number of workers, batches, deaths   *)
(* and every size of the ring.                                             *)
(***************************************************************************)
EXTENDS RingEngine, FiniteSetTheorems, TLAPS

(* The ring size is positive, so every index has a slot.                   *)
LEMMA SlotInRing == \A i \in Int : Slot(i) \in 0..RingSize-1
BY RingAssumption DEF RingAssumption, Slot

(* A counter that covers a finite set still covers it when the set gains   *)
(* an element and the counter a unit, when the set loses an element and    *)
(* the counter a unit, and when the set shrinks.                           *)
LEMMA CoverAdd ==
  ASSUME NEW S, IsFiniteSet(S), NEW x, NEW n \in Nat, n >= Cardinality(S)
  PROVE  n + 1 >= Cardinality(S \union {x})
<1>1. Cardinality(S) \in Nat  BY FS_CardinalityType
<1>2. Cardinality(S \union {x}) = IF x \in S THEN Cardinality(S) ELSE Cardinality(S) + 1
  BY FS_AddElement
<1> QED  BY <1>1, <1>2

LEMMA CoverDrop ==
  ASSUME NEW S, IsFiniteSet(S), NEW x \in S, NEW n \in Nat, n >= Cardinality(S)
  PROVE  n - 1 \in Nat /\ n - 1 >= Cardinality(S \ {x})
<1>1. IsFiniteSet(S \ {x}) /\ Cardinality(S \ {x}) = Cardinality(S) - 1
  BY FS_RemoveElement
<1>2. Cardinality(S) \in Nat /\ Cardinality(S \ {x}) \in Nat
  BY <1>1, FS_CardinalityType
<1> QED  BY <1>1, <1>2

LEMMA CoverLess ==
  ASSUME NEW S, IsFiniteSet(S), NEW T \in SUBSET S, NEW n \in Nat, n >= Cardinality(S)
  PROVE  n >= Cardinality(T)
<1>1. IsFiniteSet(T) /\ Cardinality(T) <= Cardinality(S)  BY FS_Subset
<1>2. Cardinality(S) \in Nat /\ Cardinality(T) \in Nat
  BY <1>1, FS_CardinalityType
<1> QED  BY <1>1, <1>2

LEMMA Finite == IsFiniteSet(Registered) /\ IsFiniteSet(Waiting)
<1>1. IsFiniteSet(Workers)  BY RingAssumption DEF RingAssumption
<1>2. Registered \in SUBSET Workers /\ Waiting \in SUBSET Workers
  BY DEF Registered, Waiting
<1> QED  BY <1>1, <1>2, FS_Subset

-----------------------------------------------------------------------------
(* Where the steps of a worker lead: Inner are the control points of a     *)
(* registered worker that does not wait.                                   *)
Outside == {"unspawned", "new", "dead", "deposited", "free", "astray"}
Waits   == {"wait", "overshotWait"}
Inner   == PcLabels \ (Outside \union Waits)

(* A worker that is in Inner and stays there.                              *)
InnerStep(w) ==
  \/ BeginClaim(w) \/ Rearm(w) \/ DrainPacket(w) \/ DrainEmpty(w) \/ RingCheck(w)
  \/ FetchAdd(w) \/ EscrowPacket(w) \/ EscrowEmpty(w) \/ EofCheck(w) \/ Spin(w)
  \/ Evaluate(w) \/ Decide(w) \/ BeginCommit(w) \/ SendAck(w) \/ Clear(w)

LEMMA InnerMoves ==
  ASSUME NEW w \in Workers, InnerStep(w)
  PROVE  /\ pc[w] \in Inner /\ UNCHANGED <<activeWorkers, activeWaiters>>
         /\ \E l \in Inner : Goto(w, l)
<1> USE DEF Inner, PcLabels, Outside, Waits, countVars, workerFrame
<1>1. pc[w] \in Inner /\ UNCHANGED <<activeWorkers, activeWaiters>>
  BY DEF InnerStep, BeginClaim, Rearm, DrainPacket, DrainEmpty, RingCheck,
         FetchAdd, EscrowPacket, EscrowEmpty, EofCheck, Spin, Evaluate, Decide,
         BeginCommit, SendAck, Clear
<1>2. \E l \in Inner : Goto(w, l)
  <2>1. CASE BeginClaim(w)
    <3>1. Goto(w, "leaving") \/ Goto(w, "restart")  BY <2>1 DEF BeginClaim
    <3> QED  BY <3>1
  <2>2. CASE Rearm(w)
    <3>1. Goto(w, "drain") \/ Goto(w, "ring")  BY <2>2 DEF Rearm
    <3> QED  BY <3>1
  <2>3. CASE DrainPacket(w) \/ EscrowPacket(w)
    <3>1. Goto(w, "eval") \/ Goto(w, "ring")
      BY <2>3 DEF DrainPacket, EscrowPacket, TakePacket
    <3> QED  BY <3>1
  <2>4. CASE DrainEmpty(w) \/ Spin(w)
    <3>1. Goto(w, "ring")  BY <2>4 DEF DrainEmpty, Spin
    <3> QED  BY <3>1
  <2>5. CASE RingCheck(w)
    <3>1. Goto(w, "fetch") \/ Goto(w, "escrow")  BY <2>5 DEF RingCheck
    <3> QED  BY <3>1
  <2>6. CASE FetchAdd(w)
    <3>1. Goto(w, "eval")  BY <2>6 DEF FetchAdd
    <3> QED  BY <3>1
  <2>7. CASE EscrowEmpty(w)
    <3>1. Goto(w, "fin")  BY <2>7 DEF EscrowEmpty
    <3> QED  BY <3>1
  <2>8. CASE EofCheck(w)
    <3>1. Goto(w, "leaving") \/ Goto(w, "ring")  BY <2>8 DEF EofCheck, AbortClaim
    <3> QED  BY <3>1
  <2>9. CASE Evaluate(w)
    <3>1. Goto(w, "decide") \/ Goto(w, "overshot")  BY <2>9 DEF Evaluate, PublishTxn
    <3> QED  BY <3>1
  <2>10. CASE Decide(w)
    <3>1. Goto(w, "ack") \/ Goto(w, "exec")  BY <2>10 DEF Decide
    <3> QED  BY <3>1
  <2>11. CASE BeginCommit(w)
    <3>1. Goto(w, "commit")  BY <2>11 DEF BeginCommit
    <3> QED  BY <3>1
  <2>12. CASE SendAck(w)
    <3>1. Goto(w, "clear")  BY <2>12 DEF SendAck
    <3> QED  BY <3>1
  <2>13. CASE Clear(w)
    <3>1. Goto(w, "idle")  BY <2>13 DEF Clear
    <3> QED  BY <3>1
  <2> QED
    BY <2>1, <2>2, <2>3, <2>4, <2>5, <2>6, <2>7, <2>8, <2>9, <2>10, <2>11, <2>12, <2>13
    DEF InnerStep
<1> QED  BY <1>1, <1>2

(* The other steps of a worker.                                            *)
EdgeStep(w) ==
  \/ Register(w) \/ Exit(w) \/ BeginWait(w) \/ EndWait(w) \/ WaitAborted(w)
  \/ Overshot(w) \/ OvershotReady(w) \/ OvershotAborted(w) \/ AckFails(w)

LEMMA EdgeMoves ==
  ASSUME NEW w \in Workers, EdgeStep(w) PROVE \E l \in PcLabels : Goto(w, l)
<1>1. \/ Goto(w, "idle") \/ Goto(w, "dead") \/ Goto(w, "wait") \/ Goto(w, "ring")
      \/ Goto(w, "leaving") \/ Goto(w, "restart") \/ Goto(w, "overshotWait")
      \/ Goto(w, "decide")
  BY DEF EdgeStep, Register, Exit, AckFails, ProcessGone, BeginWait, EndWait,
         WaitAborted, OvershotAborted, AbortClaim, Overshot, OvershotReady,
         DropTicket, PublishTxn
<1> QED  BY <1>1 DEF PcLabels

-----------------------------------------------------------------------------
(* Type correctness needs the counters to cover: they are decremented.     *)
LEMMA TypeInit == Init => TypeOK
<1> SUFFICES ASSUME Init PROVE TypeOK  OBVIOUS
<1>1. IdleTxn(FirstNode) \in Txn  BY DEF FirstNode, IdleTxn, Txn, TxnStates, TxnNodes, NoTicket
<1>2. txn \in [Workers -> Txn]  BY <1>1 DEF Init
<1>3. snap \in [Workers -> [r : Nat, w : Nat]]  BY DEF Init, NoSnap
<1>4. escrow \in Seq(Packet)  BY DEF Init
<1>5. /\ rangeRing \in [0..RingSize-1 -> Int] /\ minorRing \in [0..RingSize-1 -> Int]
      /\ ticket \in [Workers -> Int]
  BY DEF Init, NoTicket
<1> QED  BY <1>2, <1>3, <1>4, <1>5 DEF Init, TypeOK, PcLabels, SpcLabels

LEMMA CoverInit == Init => CountersCover
<1> SUFFICES ASSUME Init PROVE CountersCover  OBVIOUS
<1>1. Registered = {} /\ Waiting = {}
  BY DEF Init, Registered, Waiting, Alive
<1> QED  BY <1>1, FS_EmptySet DEF Init, CountersCover

(* A worker that is registered is counted.                                 *)
LEMMA Counted ==
  ASSUME TypeOK, CountersCover, NEW w \in Workers,
         pc[w] \notin {"unspawned", "new", "dead", "deposited", "free", "astray"}
  PROVE  activeWorkers - 1 \in Nat
<1>1. w \in Registered  BY DEF Registered, Alive
<1> QED  BY <1>1, Finite, CoverDrop DEF TypeOK, CountersCover

(* The scanner publishes only whole numbers of slots.                      *)
LEMMA TargetInNat == ASSUME TypeOK PROVE CommitTarget \in Nat
<1>1. /\ scanIdx \in Nat /\ writeIdx \in Nat /\ readIdx \in Nat
      /\ activeWorkers \in Nat /\ HoldBack \in Nat
  BY RingAssumption DEF RingAssumption, TypeOK
<1> DEFINE W       == IF activeWorkers < 1 THEN 1 ELSE activeWorkers
           pending == IF scanIdx > readIdx THEN scanIdx - readIdx ELSE 0
           linear  == pending \div 2
           inter   == IF linear < scanIdx - writeIdx THEN linear ELSE scanIdx - writeIdx
<1>2. W \in Int /\ pending \in Int  BY <1>1
<1>3. linear \in Int  BY <1>2
<1>4. inter \in Int /\ inter - W \in Int  BY <1>1, <1>2, <1>3
<1>5. HoldBack * W \in Int  BY <1>1, <1>2
<1>6. TargetBuffer = IF pending >= BacklogHigh * W THEN HoldBack * W
                     ELSE IF pending > 2 * W /\ inter > W THEN inter - W ELSE 0
  BY DEF TargetBuffer
<1> HIDE DEF W, pending, linear, inter
<1>7. TargetBuffer \in Int  BY <1>4, <1>5, <1>6
<1> QED  BY <1>1, <1>7 DEF CommitTarget

LEMMA TypeStepScanner ==
  ASSUME TypeOK, ScannerNext PROVE TypeOK'
<1>1. scanIdx \in Int /\ scanIdx + 1 \in Nat  BY DEF TypeOK
<1>2. Slot(scanIdx) \in 0..RingSize-1  BY <1>1, SlotInRing
<1>3. [rangeRing EXCEPT ![Slot(scanIdx)] = scanIdx] \in [0..RingSize-1 -> Int]
  BY <1>1, <1>2 DEF TypeOK
<1>4. [minorRing EXCEPT ![Slot(scanIdx)] = scanIdx] \in [0..RingSize-1 -> Int]
  BY <1>1, <1>2 DEF TypeOK
<1> USE DEF SpcLabels, scannerFrame, scanVars, claimVars, escrowVars, countVars,
            parentVars, alarmVars, fallowVars, ledgerVars, lifeVars
<1>5. CASE WriteSlot
  <2>1. unpinned' \in BOOLEAN  BY <1>5 DEF WriteSlot, TypeOK
  <2> QED  BY <1>1, <1>3, <1>4, <1>5, <2>1 DEF WriteSlot, TypeOK
<1>6. CASE Commit  BY TargetInNat, <1>6 DEF Commit, TypeOK
<1>7. CASE ShieldWait   BY <1>7 DEF ShieldWait, TypeOK
<1>8. CASE EndOfScan    BY <1>8 DEF EndOfScan, TypeOK
<1>9. CASE TailForce    BY <1>9 DEF TailForce, TypeOK
<1>10. CASE EndOfTail   BY <1>10 DEF EndOfTail, TypeOK
<1>11. CASE FinalPublish
  <2>1. scanIdx' \in Nat /\ rangeRing' \in [0..RingSize-1 -> Int] /\ unpinned' \in BOOLEAN
    BY <1>1, <1>3, <1>11 DEF FinalPublish, TypeOK
  <2> QED  BY <1>11, <2>1 DEF FinalPublish, TypeOK
<1>12. CASE Finish      BY <1>12 DEF Finish, TypeOK
<1>13. CASE EofBlast    BY <1>13 DEF EofBlast, TypeOK
<1> QED  BY <1>5, <1>6, <1>7, <1>8, <1>9, <1>10, <1>11, <1>12, <1>13 DEF ScannerNext

(* What the helpers of the worker's actions do to the types.               *)
LEMMA TxnTypes ==
  ASSUME TypeOK, NEW w \in Workers
  PROVE  /\ txn \in [Workers -> Txn]
         /\ [txn EXCEPT ![w].state = "CLAIMING"] \in [Workers -> Txn]
         /\ [txn EXCEPT ![w].state = "COMMITTING"] \in [Workers -> Txn]
         /\ [txn EXCEPT ![w] = IdleTxn(txn[w].node)] \in [Workers -> Txn]
         /\ PublishTxn(w) => txn' \in [Workers -> Txn]
<1>1. /\ txn \in [Workers -> Txn] /\ ticket[w] \in Int /\ kills[w] \in Nat
      /\ incarn[w] \in Nat /\ minorRing \in [0..RingSize-1 -> Int]
  BY DEF TypeOK
<1>2. /\ [txn EXCEPT ![w].state = "CLAIMING"] \in [Workers -> Txn]
      /\ [txn EXCEPT ![w].state = "COMMITTING"] \in [Workers -> Txn]
  BY <1>1 DEF Txn, TxnStates
<1>3. [txn EXCEPT ![w] = IdleTxn(txn[w].node)] \in [Workers -> Txn]
  BY <1>1 DEF Txn, IdleTxn, TxnStates, NoTicket
<1>4. minorRing[Slot(ticket[w])] \in Int  BY <1>1, SlotInRing
<1>5. [state |-> "CLAIMED", idx |-> ticket[w], kills |-> kills[w],
       minor |-> minorRing[Slot(ticket[w])], inc |-> incarn[w],
       node |-> "own"] \in Txn
  BY <1>1, <1>4 DEF Txn, TxnStates, TxnNodes
<1>6. \A t \in Txn : [txn EXCEPT ![w] = t] \in [Workers -> Txn]  BY <1>1
<1>7. PublishTxn(w) => txn' \in [Workers -> Txn]  BY <1>5, <1>6 DEF PublishTxn
<1> QED  BY <1>1, <1>2, <1>3, <1>7

LEMMA PacketTypes ==
  ASSUME TypeOK, escrow # <<>>
  PROVE  Head(escrow).idx \in Int /\ Head(escrow).kills \in Nat /\ Tail(escrow) \in Seq(Packet)
<1>1. escrow \in Seq(Packet)  BY DEF TypeOK
<1>2. Head(escrow) \in Packet /\ Tail(escrow) \in Seq(Packet)  BY <1>1
<1> QED  BY <1>2 DEF Packet

LEMMA GotoTypes ==
  ASSUME TypeOK, NEW w \in Workers, NEW l \in PcLabels, Goto(w, l)
  PROVE  pc' \in [Workers -> PcLabels]
BY DEF Goto, TypeOK

LEMMA TakeTypes ==
  ASSUME TypeOK, NEW w \in Workers, NEW r, NEW wr, TakePacket(w, r, wr)
  PROVE  /\ escrow' \in Seq(Packet) /\ ticket' \in [Workers -> Int]
         /\ kills' \in [Workers -> Nat] /\ pc' \in [Workers -> PcLabels]
         /\ dropped' \subseteq [idx : Int, why : DropReasons]
<1>1. /\ Head(escrow).idx \in Int /\ Head(escrow).kills \in Nat
      /\ Tail(escrow) \in Seq(Packet)
  BY PacketTypes DEF TakePacket
<1>2. /\ ticket \in [Workers -> Int] /\ kills \in [Workers -> Nat]
      /\ dropped \subseteq [idx : Int, why : DropReasons]
  BY DEF TypeOK
<1>3. "eval" \in PcLabels /\ "ring" \in PcLabels  BY DEF PcLabels
<1>4. pc' \in [Workers -> PcLabels]  BY <1>3, GotoTypes DEF TakePacket
<1>5. /\ escrow' \in Seq(Packet) /\ ticket' \in [Workers -> Int]
      /\ kills' \in [Workers -> Nat]
  BY <1>1, <1>2 DEF TakePacket
<1>6. dropped' \subseteq [idx : Int, why : DropReasons]
  BY <1>1, <1>2 DEF TakePacket, Abandon, DropReasons
<1> QED  BY <1>4, <1>5, <1>6

LEMMA LeaveTypes == ASSUME TypeOK, LeaveWaiters PROVE activeWaiters' \in Nat
BY DEF LeaveWaiters, TypeOK

(* A process that is gone, and a slot the parent refills or frees.         *)
LEMMA GoneTypes ==
  ASSUME TypeOK, NEW w \in Workers, ProcessGone(w)
  PROVE  /\ pc' \in [Workers -> PcLabels] /\ drain' \in [Workers -> BOOLEAN]
         /\ kills' \in [Workers -> Nat] /\ snap' \in [Workers -> [r : Nat, w : Nat]]
         /\ readIdx' = readIdx /\ ticket' = ticket
<1>1. NoSnap \in [r : Nat, w : Nat]  BY DEF NoSnap
<1> QED  BY <1>1 DEF ProcessGone, Goto, PcLabels, TypeOK

LEMMA RespawnTypes ==
  ASSUME TypeOK, NEW w \in Workers, Respawn(w) \/ FreeSlot(w)
  PROVE  /\ pc' \in [Workers -> PcLabels] /\ incarn' \in [Workers -> Nat]
         /\ exitZero' \in [Workers -> BOOLEAN]
<1>1. CASE Respawn(w)   BY <1>1 DEF Respawn, Goto, PcLabels, TypeOK
<1>2. CASE FreeSlot(w)  BY <1>2 DEF FreeSlot, Goto, PcLabels, TypeOK
<1> QED  BY <1>1, <1>2

LEMMA TypeStepClaim ==
  ASSUME TypeOK, CountersCover, NEW w \in Workers,
         \/ Register(w) \/ Exit(w) \/ BeginClaim(w) \/ Rearm(w)
         \/ DrainPacket(w) \/ DrainEmpty(w) \/ RingCheck(w) \/ FetchAdd(w)
         \/ EscrowPacket(w) \/ EscrowEmpty(w) \/ EofCheck(w) \/ Spin(w)
         \/ BeginWait(w) \/ EndWait(w) \/ WaitAborted(w)
  PROVE  TypeOK'
<1>pc. pc' \in [Workers -> PcLabels]
  <2>1. \E l \in PcLabels : Goto(w, l)
    BY InnerMoves, EdgeMoves DEF InnerStep, EdgeStep, Inner
  <2> QED  BY <2>1, GotoTypes
<1> USE DEF workerFrame, scanVars, claimVars, escrowVars, countVars,
            parentVars, alarmVars, fallowVars, ledgerVars, lifeVars
<1>1. CASE Register(w)  BY <1>pc, <1>1 DEF Register, TypeOK
<1>2. CASE Exit(w)
  <2>1. activeWorkers' \in Nat  BY <1>2, Counted DEF Exit
  <2> QED  BY <1>pc, <1>2, <2>1 DEF Exit, ProcessGone, NoSnap, TypeOK
<1>3. CASE BeginClaim(w)
  <2>1. txn' = txn \/ txn' = [txn EXCEPT ![w].state = "CLAIMING"]
    BY <1>3 DEF BeginClaim, SetTxn
  <2>2. txn' \in [Workers -> Txn]  BY <2>1, TxnTypes
  <2> QED  BY <1>pc, <1>3, <2>2 DEF BeginClaim, TypeOK
<1>4. CASE Rearm(w)  BY <1>pc, <1>4 DEF Rearm, TypeOK
<1>5. CASE DrainPacket(w)
  <2>1. \E r, wr : TakePacket(w, r, wr)  BY <1>5 DEF DrainPacket
  <2>2. /\ escrow' \in Seq(Packet) /\ ticket' \in [Workers -> Int]
        /\ kills' \in [Workers -> Nat] /\ pc' \in [Workers -> PcLabels]
        /\ dropped' \subseteq [idx : Int, why : DropReasons]
    BY <2>1, TakeTypes
  <2> QED  BY <1>pc, <1>5, <2>2 DEF DrainPacket, TypeOK
<1>6. CASE DrainEmpty(w)  BY <1>pc, <1>6 DEF DrainEmpty, TypeOK
<1>7. CASE RingCheck(w)
  <2>1. snap' = snap \/ snap' = [snap EXCEPT ![w] = [r |-> readIdx, w |-> writeIdx]]
    BY <1>7 DEF RingCheck
  <2>2. [r |-> readIdx, w |-> writeIdx] \in [r : Nat, w : Nat]  BY DEF TypeOK
  <2>3. snap \in [Workers -> [r : Nat, w : Nat]]  BY DEF TypeOK
  <2>4. snap' \in [Workers -> [r : Nat, w : Nat]]  BY <2>1, <2>2, <2>3, Zenon
  <2> QED  BY <1>pc, <1>7, <2>4 DEF RingCheck, TypeOK
<1>8. CASE FetchAdd(w)    BY <1>pc, <1>8 DEF FetchAdd, TypeOK
<1>9. CASE EscrowPacket(w)
  <2>1. \E r, wr : TakePacket(w, r, wr)  BY <1>9 DEF EscrowPacket
  <2>2. /\ escrow' \in Seq(Packet) /\ ticket' \in [Workers -> Int]
        /\ kills' \in [Workers -> Nat] /\ pc' \in [Workers -> PcLabels]
        /\ dropped' \subseteq [idx : Int, why : DropReasons]
    BY <2>1, TakeTypes
  <2> QED  BY <1>pc, <1>9, <2>2 DEF EscrowPacket, NoSnap, TypeOK
<1>10. CASE EscrowEmpty(w)  BY <1>pc, <1>10 DEF EscrowEmpty, NoSnap, TypeOK
<1>11. CASE EofCheck(w)
  <2>1. txn' \in [Workers -> Txn]
    BY <1>11, TxnTypes DEF EofCheck, AbortClaim, ClearTxn
  <2> QED  BY <1>pc, <1>11, <2>1 DEF EofCheck, AbortClaim, TypeOK
<1>12. CASE Spin(w)       BY <1>pc, <1>12 DEF Spin, TypeOK
<1>13. CASE BeginWait(w)  BY <1>pc, <1>13 DEF BeginWait, TypeOK
<1>14. CASE EndWait(w)    BY <1>pc, <1>14, LeaveTypes DEF EndWait, TypeOK
<1>15. CASE WaitAborted(w)
  <2>1. txn' \in [Workers -> Txn]
    BY <1>15, TxnTypes DEF WaitAborted, AbortClaim, ClearTxn
  <2>2. activeWaiters' \in Nat  BY <1>15, LeaveTypes DEF WaitAborted
  <2> QED  BY <1>pc, <1>15, <2>1, <2>2 DEF WaitAborted, AbortClaim, TypeOK
<1> QED  BY <1>1, <1>2, <1>3, <1>4, <1>5, <1>6, <1>7, <1>8, <1>9, <1>10, <1>11,
            <1>12, <1>13, <1>14, <1>15

LEMMA TypeStepBatch ==
  ASSUME TypeOK, CountersCover, NEW w \in Workers,
         \/ Evaluate(w) \/ Overshot(w) \/ OvershotReady(w) \/ OvershotAborted(w)
         \/ Decide(w) \/ BeginCommit(w) \/ SendAck(w) \/ AckFails(w) \/ Clear(w)
  PROVE  TypeOK'
<1>0. NoTicket \in Int  BY DEF NoTicket
<1>00. \A s \in DropReasons : dropped \union {[idx |-> ticket[w], why |-> s]}
                                 \subseteq [idx : Int, why : DropReasons]
  BY DEF TypeOK
<1>pc. pc' \in [Workers -> PcLabels]
  <2>1. \E l \in PcLabels : Goto(w, l)
    BY InnerMoves, EdgeMoves DEF InnerStep, EdgeStep, Inner
  <2> QED  BY <2>1, GotoTypes
<1> USE DEF workerFrame, scanVars, claimVars, escrowVars, countVars,
            parentVars, alarmVars, fallowVars, ledgerVars, lifeVars
<1>1. CASE Evaluate(w)
  <2>1. txn' \in [Workers -> Txn]
    BY <1>1, TxnTypes DEF Evaluate
  <2> QED  BY <1>pc, <1>1, <2>1 DEF Evaluate, PublishTxn, TypeOK
<1>2. CASE Overshot(w)
  <2>1. dropped' \subseteq [idx : Int, why : DropReasons]
    BY <1>2, <1>00 DEF Overshot, DropTicket, Abandon, DropReasons, TypeOK
  <2>2. activeWaiters' \in Nat  BY <1>2 DEF Overshot, TypeOK
  <2>a. ticket \in [Workers -> Int] /\ kills \in [Workers -> Nat]  BY DEF TypeOK
  <2>b. \/ ticket' = ticket /\ kills' = kills
        \/ /\ ticket' = [ticket EXCEPT ![w] = NoTicket]
           /\ kills' = [kills EXCEPT ![w] = 0]
    BY <1>2 DEF Overshot, DropTicket
  <2>3. ticket' \in [Workers -> Int] /\ kills' \in [Workers -> Nat]
    BY <1>0, <2>a, <2>b
  <2> QED  BY <1>pc, <1>2, <2>1, <2>2, <2>3 DEF Overshot, TypeOK
<1>3. CASE OvershotReady(w)
  <2>1. dropped' \subseteq [idx : Int, why : DropReasons]
    BY <1>3, <1>00 DEF OvershotReady, DropTicket, Abandon, DropReasons, TypeOK
  <2>2. txn' \in [Workers -> Txn]
    BY <1>3, TxnTypes DEF OvershotReady
  <2>3. activeWaiters' \in Nat  BY <1>3, LeaveTypes DEF OvershotReady
  <2>4. ticket' \in [Workers -> Int] /\ kills' \in [Workers -> Nat]
    BY <1>0, <1>3 DEF OvershotReady, DropTicket, TypeOK
  <2> QED
    BY <1>pc, <1>3, <2>1, <2>2, <2>3, <2>4 DEF OvershotReady, DropTicket, PublishTxn, TypeOK
<1>4. CASE OvershotAborted(w)
  <2>1. dropped' \subseteq [idx : Int, why : DropReasons]
    BY <1>4, <1>00 DEF OvershotAborted, Abandon, DropReasons
  <2>2. txn' \in [Workers -> Txn]
    BY <1>4, TxnTypes DEF OvershotAborted, AbortClaim, ClearTxn
  <2>3. activeWaiters' \in Nat  BY <1>4, LeaveTypes DEF OvershotAborted
  <2> QED
    BY <1>pc, <1>0, <1>4, <2>1, <2>2, <2>3 DEF OvershotAborted, AbortClaim, TypeOK
<1>5. CASE Decide(w)
  <2>1. poisoned' \subseteq Int /\ counted' \subseteq Int
    BY <1>5 DEF Decide, TypeOK
  <2>2. poisonedCount' \in Nat  BY <1>5 DEF Decide, TypeOK
  <2>3. emergencyAbort' \in BOOLEAN /\ eofEvfd' \in BOOLEAN
    BY <1>5 DEF Decide, PullFireAlarm, TypeOK
  <2> QED  BY <1>pc, <1>5, <2>1, <2>2, <2>3 DEF Decide, TypeOK
<1>6. CASE BeginCommit(w)
  <2>1. txn' = txn \/ txn' = [txn EXCEPT ![w].state = "COMMITTING"]
    BY <1>6 DEF BeginCommit, SetTxn
  <2>2. txn' \in [Workers -> Txn]  BY <2>1, TxnTypes
  <2> QED  BY <1>pc, <1>6, <2>2 DEF BeginCommit, TypeOK
<1>7. CASE SendAck(w)  BY <1>pc, <1>0, <1>7 DEF SendAck, TypeOK
<1>8. CASE AckFails(w)
  <2>1. activeWorkers' \in Nat  BY <1>8, Counted DEF AckFails
  <2> QED  BY <1>pc, <1>8, <2>1 DEF AckFails, ProcessGone, PullFireAlarm, NoSnap, TypeOK
<1>9. CASE Clear(w)
  <2>1. txn' \in [Workers -> Txn]  BY <1>9, TxnTypes DEF Clear, ClearTxn
  <2> QED  BY <1>pc, <1>9, <2>1 DEF Clear, TypeOK
<1> QED  BY <1>1, <1>2, <1>3, <1>4, <1>5, <1>6, <1>7, <1>8, <1>9

(* Spawns, deaths and the parent.                                          *)
LEMMA TypeStepParent ==
  ASSUME TypeOK, CountersCover, NEW w \in Workers,
         \/ Spawn(w) \/ Kill(w) \/ PayloadExits(w)
         \/ RecoverIdle(w) \/ RecoverRace(w) \/ RecoverRecycled(w)
         \/ RecoverFatal(w) \/ RecoverDeposit(w) \/ RecoverSignal(w)
  PROVE  TypeOK'
<1>0. NoTicket \in Int  BY DEF NoTicket
<1>00. txn[w].idx \in Int /\ txn[w].kills + 1 \in Nat  BY DEF TypeOK, Txn
<1>000. ASSUME PollAgain PROVE ppc' \in {"poll", "deposit", "alarmed", "stopped"}
  BY <1>000 DEF PollAgain
<1> USE DEF PcLabels, parentFrame, scanVars, claimVars, escrowVars, countVars,
            parentVars, alarmVars, fallowVars, ledgerVars, lifeVars, Goto
<1>1. CASE Spawn(w)  BY <1>1 DEF Spawn, TypeOK
<1>2. CASE Kill(w)   BY <1>2 DEF Kill, ProcessGone, NoSnap, TypeOK
<1>3. CASE PayloadExits(w)
  <2>1. activeWorkers' \in Nat  BY <1>3, Counted DEF PayloadExits
  <2>0. exitZero \in [Workers -> BOOLEAN] /\ deaths \in Nat  BY DEF TypeOK
  <2>2. exitZero' \in [Workers -> BOOLEAN] /\ deaths' \in Nat
    BY <1>3, <2>0 DEF PayloadExits
  <2>3. ProcessGone(w)  BY <1>3 DEF PayloadExits
  <2>4. /\ pc' \in [Workers -> PcLabels] /\ drain' \in [Workers -> BOOLEAN]
        /\ kills' \in [Workers -> Nat] /\ snap' \in [Workers -> [r : Nat, w : Nat]]
        /\ readIdx' = readIdx /\ ticket' = ticket
    BY <2>3, GoneTypes
  <2> QED  BY <1>3, <2>1, <2>2, <2>4 DEF PayloadExits, TypeOK
<1>4. CASE RecoverIdle(w)
  <2>1. /\ pc' \in [Workers -> PcLabels] /\ incarn' \in [Workers -> Nat]
        /\ exitZero' \in [Workers -> BOOLEAN]
    BY <1>4, RespawnTypes DEF RecoverIdle
  <2> QED  BY <1>4, <1>000, <2>1 DEF RecoverIdle, TypeOK
<1>5. CASE RecoverRace(w)  BY <1>5 DEF RecoverRace, Stop, PullFireAlarm, TypeOK
<1>6. CASE RecoverRecycled(w)
  <2>1. dropped' \subseteq [idx : Int, why : DropReasons]
    BY <1>00, <1>6 DEF RecoverRecycled, DropReasons, TypeOK
  <2>2. txn' \in [Workers -> Txn]  BY <1>6, TxnTypes DEF RecoverRecycled, ClearTxn
  <2>3. /\ pc' \in [Workers -> PcLabels] /\ incarn' \in [Workers -> Nat]
        /\ exitZero' \in [Workers -> BOOLEAN]
    BY <1>6, RespawnTypes DEF RecoverRecycled
  <2> QED  BY <1>0, <1>6, <1>000, <2>1, <2>2, <2>3 DEF RecoverRecycled, TypeOK
<1>7. CASE RecoverFatal(w)  BY <1>7 DEF RecoverFatal, Stop, PullFireAlarm, TypeOK
<1>8. CASE RecoverDeposit(w)
  <2>1. [idx |-> txn[w].idx, kills |-> txn[w].kills + 1] \in Packet
    BY <1>00 DEF Packet
  <2>2. escrow' \in Seq(Packet)  BY <1>8, <2>1 DEF RecoverDeposit, TypeOK
  <2> QED  BY <1>0, <1>8, <2>2 DEF RecoverDeposit, TypeOK
<1>9. CASE RecoverSignal(w)
  <2>1. txn' \in [Workers -> Txn]  BY <1>9, TxnTypes DEF RecoverSignal, ClearTxn
  <2>2. /\ pc' \in [Workers -> PcLabels] /\ incarn' \in [Workers -> Nat]
        /\ exitZero' \in [Workers -> BOOLEAN]
    BY <1>9, RespawnTypes DEF RecoverSignal
  <2> QED  BY <1>9, <1>000, <2>1, <2>2 DEF RecoverSignal, TypeOK
<1> QED  BY <1>1, <1>2, <1>3, <1>4, <1>5, <1>6, <1>7, <1>8, <1>9

LEMMA TypeStep == ASSUME TypeOK, CountersCover, [Next]_vars PROVE TypeOK'
<1> USE DEF scanVars, claimVars, escrowVars, countVars, parentVars, alarmVars,
            fallowVars, ledgerVars, lifeVars
<1>1. CASE ScannerNext  BY <1>1, TypeStepScanner
<1>2. CASE ParentAbort  BY <1>2 DEF ParentAbort, parentFrame, TypeOK
<1>3. CASE FallowStart \/ FallowAdvance
  <2>0. fallowActive \in BOOLEAN /\ minIdx \in Nat  BY DEF TypeOK
  <2>a. ASSUME FallowStart PROVE fallowActive' \in BOOLEAN /\ minIdx' \in Nat
    <3>1. fallowActive' = TRUE /\ minIdx' = minIdx  BY <2>a DEF FallowStart
    <3> QED  BY <2>0, <3>1
  <2>b. ASSUME FallowAdvance PROVE fallowActive' \in BOOLEAN /\ minIdx' \in Nat
    <3>1. fallowActive' = fallowActive /\ minIdx' = minIdx + 1  BY <2>b DEF FallowAdvance
    <3> QED  BY <2>0, <3>1
  <2>1. fallowActive' \in BOOLEAN /\ minIdx' \in Nat  BY <1>3, <2>a, <2>b
  <2>2. UNCHANGED reclaimFrame  BY <1>3 DEF FallowStart, FallowAdvance
  <2> QED  BY <2>1, <2>2 DEF reclaimFrame, TypeOK
<1>4. CASE OutsideAlarm  BY <1>4 DEF OutsideAlarm, PullFireAlarm, TypeOK
<1>5. CASE UNCHANGED vars  BY <1>5 DEF vars, TypeOK
<1> QED
  BY <1>1, <1>2, <1>3, <1>4, <1>5, TypeStepClaim, TypeStepBatch, TypeStepParent
  DEF Next, Terminated

-----------------------------------------------------------------------------
(* The counters follow the control points: a step of worker w that neither *)
(* registers nor waits leaves a counter alone, one that does adds a unit   *)
(* first, and a unit goes only with the worker that accounted for it.      *)
LEMMA RegisteredFollows ==
  ASSUME TypeOK, CountersCover, NEW w \in Workers, NEW l, Goto(w, l),
         \/ activeWorkers' = activeWorkers /\ (l \in Outside \/ pc[w] \notin Outside)
         \/ activeWorkers' = activeWorkers + 1
         \/ activeWorkers' = activeWorkers - 1 /\ l \in Outside /\ pc[w] \notin Outside
  PROVE  activeWorkers' >= Cardinality(Registered')
<1>0. /\ activeWorkers \in Nat /\ activeWorkers >= Cardinality(Registered)
      /\ IsFiniteSet(Registered)
  BY Finite DEF TypeOK, CountersCover
<1>1. pc \in [Workers -> PcLabels] /\ pc' = [pc EXCEPT ![w] = l]  BY DEF TypeOK, Goto
<1>2. /\ Registered = {v \in Workers : pc[v] \notin Outside}
      /\ Registered' = {v \in Workers : pc'[v] \notin Outside}
  BY DEF Registered, Alive, Outside
<1>3. CASE activeWorkers' = activeWorkers /\ (l \in Outside \/ pc[w] \notin Outside)
  <2>1. Registered' \in SUBSET Registered  BY <1>1, <1>2, <1>3
  <2> QED  BY <1>0, <1>3, <2>1, CoverLess
<1>4. CASE activeWorkers' = activeWorkers + 1
  <2>1. Registered' \in SUBSET (Registered \union {w})  BY <1>1, <1>2
  <2>2. activeWorkers + 1 >= Cardinality(Registered \union {w})  BY <1>0, CoverAdd
  <2>3. IsFiniteSet(Registered \union {w})  BY <1>0, FS_AddElement
  <2>4. activeWorkers + 1 \in Nat  BY <1>0
  <2> QED  BY <1>4, <2>1, <2>2, <2>3, <2>4, CoverLess
<1>5. CASE activeWorkers' = activeWorkers - 1 /\ l \in Outside /\ pc[w] \notin Outside
  <2>1. w \in Registered  BY <1>2, <1>5
  <2>2. Registered' \in SUBSET (Registered \ {w})  BY <1>1, <1>2, <1>5
  <2>3. activeWorkers - 1 \in Nat /\ activeWorkers - 1 >= Cardinality(Registered \ {w})
    BY <1>0, <2>1, CoverDrop
  <2>4. IsFiniteSet(Registered \ {w})  BY <1>0, FS_RemoveElement
  <2> QED  BY <1>5, <2>2, <2>3, <2>4, CoverLess
<1> QED  BY <1>3, <1>4, <1>5

LEMMA WaitingFollows ==
  ASSUME TypeOK, CountersCover, NEW w \in Workers, NEW l, Goto(w, l),
         \/ activeWaiters' = activeWaiters /\ (l \notin Waits \/ pc[w] \in Waits)
         \/ activeWaiters' = activeWaiters + 1
         \/ LeaveWaiters /\ l \notin Waits /\ pc[w] \in Waits
  PROVE  activeWaiters' >= Cardinality(Waiting')
<1>0. /\ activeWaiters \in Nat /\ activeWaiters >= Cardinality(Waiting)
      /\ IsFiniteSet(Waiting)
  BY Finite DEF TypeOK, CountersCover
<1>1. pc \in [Workers -> PcLabels] /\ pc' = [pc EXCEPT ![w] = l]  BY DEF TypeOK, Goto
<1>2. /\ Waiting = {v \in Workers : pc[v] \in Waits}
      /\ Waiting' = {v \in Workers : pc'[v] \in Waits}
  BY DEF Waiting, Waits
<1>3. CASE activeWaiters' = activeWaiters /\ (l \notin Waits \/ pc[w] \in Waits)
  <2>1. Waiting' \in SUBSET Waiting  BY <1>1, <1>2, <1>3
  <2> QED  BY <1>0, <1>3, <2>1, CoverLess
<1>4. CASE activeWaiters' = activeWaiters + 1
  <2>1. Waiting' \in SUBSET (Waiting \union {w})  BY <1>1, <1>2
  <2>2. activeWaiters + 1 >= Cardinality(Waiting \union {w})  BY <1>0, CoverAdd
  <2>3. IsFiniteSet(Waiting \union {w})  BY <1>0, FS_AddElement
  <2>4. activeWaiters + 1 \in Nat  BY <1>0
  <2> QED  BY <1>4, <2>1, <2>2, <2>3, <2>4, CoverLess
<1>5. CASE LeaveWaiters /\ l \notin Waits /\ pc[w] \in Waits
  <2>1. w \in Waiting  BY <1>2, <1>5
  <2>2. Waiting' \in SUBSET (Waiting \ {w})  BY <1>1, <1>2, <1>5
  <2>3. activeWaiters - 1 \in Nat /\ activeWaiters - 1 >= Cardinality(Waiting \ {w})
    BY <1>0, <2>1, CoverDrop
  <2>4. IsFiniteSet(Waiting \ {w})  BY <1>0, FS_RemoveElement
  <2>5. activeWaiters' = activeWaiters - 1  BY <1>0, <1>5, <2>3 DEF LeaveWaiters
  <2> QED  BY <2>2, <2>3, <2>4, <2>5, CoverLess
<1> QED  BY <1>3, <1>4, <1>5

(* Steps between two control points inside the loop, the counters alone.   *)
LEMMA CoverInner ==
  ASSUME TypeOK, CountersCover, NEW w \in Workers, NEW l \in Inner, Goto(w, l),
         pc[w] \in Inner, UNCHANGED <<activeWorkers, activeWaiters>>
  PROVE  CountersCover'
<1>1. l \notin Outside /\ l \notin Waits /\ pc[w] \notin Outside /\ pc[w] \notin Waits
  BY DEF Inner
<1> QED  BY <1>1, RegisteredFollows, WaitingFollows DEF CountersCover

LEMMA CoverStepInner ==
  ASSUME TypeOK, CountersCover, NEW w \in Workers, InnerStep(w)
  PROVE  CountersCover'
BY InnerMoves, CoverInner DEF countVars

(* Steps that register, wait, stop waiting or leave.                       *)
LEMMA CoverStepEdges ==
  ASSUME TypeOK, CountersCover, NEW w \in Workers,
         \/ Register(w) \/ Exit(w) \/ BeginWait(w) \/ EndWait(w) \/ WaitAborted(w)
         \/ Overshot(w) \/ OvershotReady(w) \/ OvershotAborted(w) \/ AckFails(w)
         \/ Kill(w) \/ PayloadExits(w)
  PROVE  CountersCover'
<1> DEFINE Moves(l) ==
      /\ Goto(w, l)
      /\ \/ activeWorkers' = activeWorkers /\ (l \in Outside \/ pc[w] \notin Outside)
         \/ activeWorkers' = activeWorkers + 1
         \/ activeWorkers' = activeWorkers - 1 /\ l \in Outside /\ pc[w] \notin Outside
      /\ \/ activeWaiters' = activeWaiters /\ (l \notin Waits \/ pc[w] \in Waits)
         \/ activeWaiters' = activeWaiters + 1
         \/ LeaveWaiters /\ l \notin Waits /\ pc[w] \in Waits
<1>0. ASSUME NEW l, Moves(l) PROVE CountersCover'
  BY <1>0, RegisteredFollows, WaitingFollows DEF CountersCover
<1> USE DEF Outside, Waits, countVars
<1>1. CASE Register(w)
  <2>1. Moves("idle")  BY <1>1 DEF Register
  <2> QED  BY <1>0, <2>1
<1>2. CASE Exit(w) \/ AckFails(w) \/ PayloadExits(w)
  <2>1. Moves("dead")  BY <1>2 DEF Exit, AckFails, PayloadExits, ProcessGone
  <2> QED  BY <1>0, <2>1
<1>3. CASE BeginWait(w)
  <2>1. Moves("wait")  BY <1>3 DEF BeginWait
  <2> QED  BY <1>0, <2>1
<1>4. CASE EndWait(w)
  <2>1. Moves("ring")  BY <1>4 DEF EndWait
  <2> QED  BY <1>0, <2>1
<1>5. CASE WaitAborted(w) \/ OvershotAborted(w)
  <2>1. Moves("leaving")  BY <1>5 DEF WaitAborted, OvershotAborted, AbortClaim
  <2> QED  BY <1>0, <2>1
<1>6. CASE Overshot(w)
  <2>1. Moves("restart") \/ Moves("overshotWait")  BY <1>6 DEF Overshot, DropTicket
  <2> QED  BY <1>0, <2>1
<1>7. CASE OvershotReady(w)
  <2>1. Moves("restart") \/ Moves("decide")
    BY <1>7 DEF OvershotReady, DropTicket, PublishTxn
  <2> QED  BY <1>0, <2>1
<1>8. CASE Kill(w)
  <2>1. Moves("dead")  BY <1>8 DEF Kill, ProcessGone
  <2> QED  BY <1>0, <2>1
<1> QED  BY <1>1, <1>2, <1>3, <1>4, <1>5, <1>6, <1>7, <1>8

(* Spawning and recovery: the slot is not registered before or after.      *)
LEMMA CoverStepParent ==
  ASSUME TypeOK, CountersCover, NEW w \in Workers,
         \/ Spawn(w) \/ RecoverIdle(w) \/ RecoverRecycled(w)
         \/ RecoverDeposit(w) \/ RecoverSignal(w)
  PROVE  CountersCover'
<1>1. UNCHANGED <<activeWorkers, activeWaiters>>
  BY DEF Spawn, RecoverIdle, RecoverRecycled, RecoverDeposit, RecoverSignal,
         parentFrame, countVars
<1>2. Goto(w, "new") \/ Goto(w, "free") \/ Goto(w, "astray") \/ Goto(w, "deposited")
  BY DEF Spawn, RecoverIdle, RecoverRecycled, RecoverDeposit, RecoverSignal,
         Respawn, FreeSlot
<1>3. \E l \in Outside : l \notin Waits /\ Goto(w, l)
  BY <1>2 DEF Outside, Waits
<1> QED  BY <1>1, <1>3, RegisteredFollows, WaitingFollows DEF CountersCover

LEMMA CoverStep == ASSUME TypeOK, CountersCover, [Next]_vars PROVE CountersCover'
<1>1. ASSUME UNCHANGED <<pc, activeWorkers, activeWaiters>> PROVE CountersCover'
  BY <1>1 DEF CountersCover, Registered, Waiting, Alive
<1> USE DEF countVars
<1>2. CASE ScannerNext
  <2>1. UNCHANGED <<pc, activeWorkers, activeWaiters>>
    BY <1>2 DEF ScannerNext, WriteSlot, Commit, ShieldWait, EndOfScan, TailForce,
         EndOfTail, FinalPublish, Finish, EofBlast, scannerFrame
  <2> QED  BY <1>1, <2>1
<1>3. CASE \/ ParentAbort \/ FallowStart \/ FallowAdvance \/ OutsideAlarm
           \/ \E w \in Workers : RecoverRace(w) \/ RecoverFatal(w)
           \/ UNCHANGED vars
  <2>1. UNCHANGED <<pc, activeWorkers, activeWaiters>>
    BY <1>3 DEF ParentAbort, FallowStart, FallowAdvance, OutsideAlarm, RecoverRace,
         RecoverFatal, Stop, parentFrame, reclaimFrame, vars
  <2> QED  BY <1>1, <2>1
<1> QED
  BY <1>2, <1>3, CoverStepInner, CoverStepEdges, CoverStepParent
  DEF Next, Terminated, InnerStep

(* The inductive invariant: types and counters lean on each other.         *)
LEMMA Invariance == Spec => [](TypeOK /\ CountersCover)
<1>1. Init => TypeOK /\ CountersCover  BY TypeInit, CoverInit
<1>2. TypeOK /\ CountersCover /\ [Next]_vars => (TypeOK /\ CountersCover)'
  BY TypeStep, CoverStep
<1> QED  BY <1>1, <1>2, PTL DEF Spec

(* Every variable of the engine keeps its type, for any number of workers, *)
(* batches and deaths: in particular no counter of forkrun_ring.c that is  *)
(* decremented (ring_worker dec, cleanup_waiter_state) goes below zero.    *)
THEOREM TypeCorrect == Spec => []TypeOK
<1>1. TypeOK /\ CountersCover => TypeOK  OBVIOUS
<1> QED  BY <1>1, Invariance, PTL

(* active_workers and active_waiters never under-count (INVARIANTS.md 7),  *)
(* wherever workers are killed: ring_worker_main, cleanup_waiter_state,    *)
(* and the recovery in the reactor.                                        *)
THEOREM CountersCorrect == Spec => []CountersCover
<1>1. TypeOK /\ CountersCover => CountersCover  OBVIOUS
<1> QED  BY <1>1, Invariance, PTL
=============================================================================
