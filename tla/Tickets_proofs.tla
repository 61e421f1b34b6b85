---------------------------- MODULE Tickets_proofs ----------------------------
(***************************************************************************)
(* Tickets: what a step may do with one, that none is ever in two places,  *)
(* what is counted as poisoned, why the slot of a ticket is not written    *)
(* over, and what a run that stops has done, for every number of workers,  *)
(* batches and deaths.                                                     *)
(***************************************************************************)
EXTENDS RingEngine_proofs

(* Control points at which a worker holds a ticket; a dead process holds   *)
(* one until the parent has dealt with it.                                 *)
Holding == {"eval", "overshot", "overshotWait", "decide", "exec", "ack", "commit"}
Claiming == {"restart", "drain", "ring", "fetch", "escrow", "fin", "wait",
             "eval", "overshot", "overshotWait"}

(* What the transaction record of slot w says of the process in it.        *)
Record(w) ==
  /\ pc[w] \in Holding => ticket[w] # NoTicket
  /\ pc[w] \notin Holding \union {"dead"} => ticket[w] = NoTicket
  /\ pc[w] \in {"unspawned", "new", "idle", "leaving"} => txn[w].state = "IDLE"
  /\ pc[w] \in Claiming => txn[w].state = "CLAIMING"
  /\ pc[w] \in {"commit", "clear"} => txn[w].state = "COMMITTING"
  /\ pc[w] \in {"decide", "exec", "ack"} =>
       /\ txn[w].state = "CLAIMED"
       /\ txn[w].idx = ticket[w] /\ txn[w].inc = incarn[w]
  /\ pc[w] = "dead" /\ txn[w].state = "IDLE" => ticket[w] = NoTicket
  /\ pc[w] = "dead" /\ txn[w].state = "CLAIMED" =>
       /\ ticket[w] # NoTicket
       /\ txn[w].idx = ticket[w] /\ txn[w].inc = incarn[w]

Records == \A w \in Workers : Record(w)

(* Every ticket anywhere was issued by the fetch-and-add.                  *)
Issued == 0..readIdx-1
Ranges ==
  /\ \A w \in Workers : ticket[w] # NoTicket => ticket[w] \in Issued
  /\ \A k \in DOMAIN escrow : escrow[k].idx \in Issued
  /\ acked \subseteq Issued
  /\ \A d \in dropped : d.idx \in Issued

-----------------------------------------------------------------------------
(* What a step may do with the tickets.                                    *)
SameTickets == UNCHANGED <<readIdx, ticket, escrow, acked, dropped>>

Fetches(w) ==
  /\ ticket[w] = NoTicket
  /\ ticket' = [ticket EXCEPT ![w] = readIdx]
  /\ readIdx' = readIdx + 1
  /\ UNCHANGED <<escrow, acked, dropped>>

Takes(w) ==
  /\ ticket[w] = NoTicket
  /\ escrow # <<>>
  /\ escrow' = Tail(escrow)
  /\ ticket' = [ticket EXCEPT ![w] = Head(escrow).idx]
  /\ UNCHANGED <<readIdx, acked, dropped>>

Rejects ==
  /\ escrow # <<>>
  /\ escrow' = Tail(escrow)
  /\ \E why \in DropReasons : dropped' = dropped \union {[idx |-> Head(escrow).idx, why |-> why]}
  /\ UNCHANGED <<readIdx, ticket, acked>>

Acks(w) ==
  /\ ticket[w] # NoTicket
  /\ ticket' = [ticket EXCEPT ![w] = NoTicket]
  /\ acked' = acked \union {ticket[w]}
  /\ UNCHANGED <<readIdx, escrow, dropped>>

Drops(w) ==
  /\ ticket[w] # NoTicket
  /\ ticket' = [ticket EXCEPT ![w] = NoTicket]
  /\ \E why \in DropReasons : dropped' = dropped \union {[idx |-> ticket[w], why |-> why]}
  /\ UNCHANGED <<readIdx, escrow, acked>>

Deposits(w) ==
  /\ ticket[w] # NoTicket
  /\ ticket' = [ticket EXCEPT ![w] = NoTicket]
  /\ \E n \in Nat : escrow' = Append(escrow, [idx |-> ticket[w], kills |-> n])
  /\ UNCHANGED <<readIdx, acked, dropped>>

Effect ==
  \/ SameTickets \/ Rejects
  \/ \E w \in Workers : Fetches(w) \/ Takes(w) \/ Acks(w) \/ Drops(w) \/ Deposits(w)

(* A step of the engine has one of these effects: each handler moves at    *)
(* most one ticket, and the one its process holds.                         *)
LEMMA StepEffect == ASSUME TypeOK, Records, [Next]_vars PROVE Effect
<1> USE DEF claimVars, escrowVars, ledgerVars
<1>1. CASE \/ ScannerNext \/ ParentAbort \/ FallowStart \/ FallowAdvance
           \/ OutsideAlarm \/ UNCHANGED vars
  <2>1. CASE ScannerNext
    BY <2>1 DEF ScannerNext, WriteSlot, Commit, ShieldWait, EndOfScan, TailForce, EndOfTail,
         FinalPublish, Finish, EofBlast, scannerFrame, Effect, SameTickets
  <2>2. CASE ParentAbort \/ FallowStart \/ FallowAdvance \/ OutsideAlarm \/ UNCHANGED vars
    BY <2>2 DEF ParentAbort, parentFrame, FallowStart, FallowAdvance, reclaimFrame,
         OutsideAlarm, vars, Effect, SameTickets
  <2> QED  BY <1>1, <2>1, <2>2
<1>2. ASSUME NEW w \in Workers,
             \/ Register(w) \/ Exit(w) \/ BeginClaim(w) \/ Rearm(w) \/ DrainEmpty(w)
             \/ RingCheck(w) \/ EscrowEmpty(w) \/ EofCheck(w) \/ Spin(w)
             \/ BeginWait(w) \/ EndWait(w) \/ WaitAborted(w) \/ Evaluate(w)
             \/ Decide(w) \/ BeginCommit(w) \/ AckFails(w) \/ Clear(w)
      PROVE  SameTickets
  BY <1>2 DEF Register, Exit, BeginClaim, Rearm, DrainEmpty, RingCheck, EscrowEmpty,
       EofCheck, Spin, BeginWait, EndWait, WaitAborted, Evaluate, Decide, BeginCommit,
       AckFails, Clear, ProcessGone, SameTickets
<1>3. ASSUME NEW w \in Workers,
             \/ Spawn(w) \/ Kill(w) \/ PayloadExits(w) \/ RecoverIdle(w)
             \/ RecoverRace(w) \/ RecoverFatal(w) \/ RecoverSignal(w)
      PROVE  SameTickets
  BY <1>3 DEF Spawn, Kill, PayloadExits, RecoverIdle, RecoverRace, RecoverFatal,
       RecoverSignal, ProcessGone, parentFrame, SameTickets
<1>4. ASSUME NEW w \in Workers, FetchAdd(w) PROVE Fetches(w)
  <2>1. ticket[w] = NoTicket  BY <1>4 DEF FetchAdd, Records, Record, Holding
  <2> QED  BY <1>4, <2>1 DEF FetchAdd, Fetches
<1>5. ASSUME NEW w \in Workers, DrainPacket(w) \/ EscrowPacket(w)
      PROVE  Takes(w) \/ Rejects
  <2>1. ticket[w] = NoTicket
    BY <1>5 DEF DrainPacket, EscrowPacket, Records, Record, Holding
  <2>2. /\ \E r, wr : TakePacket(w, r, wr)
        /\ UNCHANGED <<readIdx, acked>>
    BY <1>5 DEF DrainPacket, EscrowPacket
  <2>3. "stale" \in DropReasons  BY DEF DropReasons
  <2> QED  BY <2>1, <2>2, <2>3 DEF TakePacket, Abandon, Takes, Rejects
<1>6. ASSUME NEW w \in Workers, SendAck(w) PROVE Acks(w)
  <2>1. ticket[w] # NoTicket  BY <1>6 DEF SendAck, Records, Record, Holding
  <2> QED  BY <1>6, <2>1 DEF SendAck, Acks
<1>7. ASSUME NEW w \in Workers, Overshot(w) \/ OvershotReady(w) \/ OvershotAborted(w)
      PROVE  SameTickets \/ Drops(w)
  <2>1. ticket[w] # NoTicket
    BY <1>7 DEF Overshot, OvershotReady, OvershotAborted, Records, Record, Holding
  <2>2. "overshoot" \in DropReasons /\ "abort" \in DropReasons  BY DEF DropReasons
  <2> QED
    BY <1>7, <2>1, <2>2 DEF Overshot, OvershotReady, OvershotAborted, DropTicket, Abandon,
         SameTickets, Drops
<1>8. ASSUME NEW w \in Workers, RecoverRecycled(w) \/ RecoverDeposit(w)
      PROVE  Drops(w) \/ Deposits(w)
  <2>1. ticket[w] # NoTicket /\ txn[w].idx = ticket[w]
    BY <1>8 DEF RecoverRecycled, RecoverDeposit, ClaimedDeath, Records, Record
  <2>2. "recycled" \in DropReasons  BY DEF DropReasons
  <2>3. txn[w].kills + 1 \in Nat  BY DEF TypeOK, Txn
  <2> QED
    BY <1>8, <2>1, <2>2, <2>3 DEF RecoverRecycled, RecoverDeposit, parentFrame, Drops, Deposits
<1> QED
  BY <1>1, <1>2, <1>3, <1>4, <1>5, <1>6, <1>7, <1>8 DEF Next, Terminated, Effect

-----------------------------------------------------------------------------
(* The packets behind the head of the pipe, and with one more at its end.  *)
LEMMA TailOf ==
  ASSUME TypeOK, escrow # <<>>
  PROVE  /\ 1 \in DOMAIN escrow /\ Head(escrow) = escrow[1]
         /\ \A k \in DOMAIN Tail(escrow) :
              k + 1 \in DOMAIN escrow /\ k + 1 # 1 /\ Tail(escrow)[k] = escrow[k+1]
         /\ \A k \in DOMAIN escrow : k # 1 =>
              k - 1 \in DOMAIN Tail(escrow) /\ Tail(escrow)[k-1] = escrow[k]
         /\ DOMAIN Tail(escrow) \subseteq Int /\ DOMAIN escrow \subseteq Int
<1>1. escrow \in Seq(Packet) /\ Len(escrow) \in Nat /\ DOMAIN escrow = 1..Len(escrow)
  BY DEF TypeOK
<1>2. Len(escrow) # 0  BY <1>1
<1>3. /\ Tail(escrow) \in Seq(Packet) /\ Len(Tail(escrow)) = Len(escrow) - 1
      /\ DOMAIN Tail(escrow) = 1..(Len(escrow) - 1)
      /\ \A k \in 1..(Len(escrow) - 1) : Tail(escrow)[k] = escrow[k+1]
      /\ Head(escrow) = escrow[1]
  BY <1>1, <1>2
<1> QED  BY <1>1, <1>2, <1>3

LEMMA AppendOf ==
  ASSUME TypeOK, NEW p
  PROVE  /\ Len(escrow) + 1 \notin DOMAIN escrow
         /\ DOMAIN Append(escrow, p) = DOMAIN escrow \union {Len(escrow) + 1}
         /\ \A k \in DOMAIN escrow : Append(escrow, p)[k] = escrow[k]
         /\ Append(escrow, p)[Len(escrow) + 1] = p
<1>1. escrow \in Seq(Packet) /\ Len(escrow) \in Nat /\ DOMAIN escrow = 1..Len(escrow)
  BY DEF TypeOK
<1>2. /\ DOMAIN Append(escrow, p) = 1..(Len(escrow) + 1)
      /\ \A k \in 1..Len(escrow) : Append(escrow, p)[k] = escrow[k]
      /\ Append(escrow, p)[Len(escrow) + 1] = p
  BY <1>1
<1> QED  BY <1>1, <1>2

LEMMA RangesStep == ASSUME TypeOK, Ranges, Effect PROVE Ranges'
<1>0. /\ readIdx \in Nat /\ ticket \in [Workers -> Int] /\ NoTicket \notin Nat
      /\ NoTicket \in Int
  BY DEF TypeOK, NoTicket
<1>1. CASE SameTickets  BY <1>1 DEF SameTickets, Ranges, Issued
<1>2. CASE Rejects
  <2>1. Head(escrow).idx \in Issued  BY <1>2, TailOf DEF Rejects, Ranges
  <2>2. \A k \in DOMAIN Tail(escrow) : Tail(escrow)[k].idx \in Issued
    BY <1>2, TailOf DEF Rejects, Ranges
  <2>3. Issued' = Issued  BY <1>2 DEF Rejects, Issued
  <2> QED  BY <1>2, <2>1, <2>2, <2>3 DEF Rejects, Ranges
<1>3. ASSUME NEW w \in Workers, Fetches(w) PROVE Ranges'
  <2>1. Issued \subseteq Issued' /\ readIdx \in Issued'
    BY <1>0, <1>3 DEF Fetches, Issued
  <2>2. \A v \in Workers : ticket'[v] = ticket[v] \/ ticket'[v] = readIdx
    BY <1>0, <1>3 DEF Fetches
  <2> QED  BY <1>3, <2>1, <2>2 DEF Fetches, Ranges
<1>4. ASSUME NEW w \in Workers, Takes(w) PROVE Ranges'
  <2>1. Head(escrow).idx \in Issued  BY <1>4, TailOf DEF Takes, Ranges
  <2>2. \A k \in DOMAIN Tail(escrow) : Tail(escrow)[k].idx \in Issued
    BY <1>4, TailOf DEF Takes, Ranges
  <2>3. Issued' = Issued  BY <1>4 DEF Takes, Issued
  <2>4. \A v \in Workers : ticket'[v] = ticket[v] \/ ticket'[v] = Head(escrow).idx
    BY <1>0, <1>4 DEF Takes
  <2> QED  BY <1>4, <2>1, <2>2, <2>3, <2>4 DEF Takes, Ranges
<1>5. ASSUME NEW w \in Workers, Acks(w) \/ Drops(w) \/ Deposits(w) PROVE Ranges'
  <2>1. ticket[w] \in Issued  BY <1>5 DEF Acks, Drops, Deposits, Ranges
  <2>2. Issued' = Issued  BY <1>5 DEF Acks, Drops, Deposits, Issued
  <2>3. \A v \in Workers : ticket'[v] = ticket[v] \/ ticket'[v] = NoTicket
    BY <1>0, <1>5 DEF Acks, Drops, Deposits
  <2>4. CASE Acks(w)   BY <2>1, <2>2, <2>3, <2>4 DEF Acks, Ranges
  <2>5. CASE Drops(w)  BY <2>1, <2>2, <2>3, <2>5 DEF Drops, Ranges
  <2>6. CASE Deposits(w)
    <3>1. PICK n \in Nat : escrow' = Append(escrow, [idx |-> ticket[w], kills |-> n])
      BY <2>6 DEF Deposits
    <3>2. \A k \in DOMAIN escrow' : escrow'[k].idx \in Issued
      BY <2>1, <3>1, AppendOf DEF Ranges
    <3> QED  BY <2>2, <2>3, <2>6, <3>2 DEF Deposits, Ranges
  <2> QED  BY <1>5, <2>4, <2>5, <2>6
<1> QED  BY <1>1, <1>2, <1>3, <1>4, <1>5 DEF Effect

-----------------------------------------------------------------------------
(* TicketExclusive is inductive once every ticket is in range: a fetched   *)
(* ticket is new, and every other effect moves one ticket from one place   *)
(* to another.                                                             *)
LEMMA ExclusiveStep ==
  ASSUME TypeOK, Ranges, TicketExclusive, Effect PROVE TicketExclusive'
<1>0. /\ readIdx \in Nat /\ ticket \in [Workers -> Int] /\ NoTicket \notin Nat
      /\ NoTicket \in Int /\ NoTicket \notin Issued /\ readIdx \notin Issued
  BY DEF TypeOK, NoTicket, Issued
<1>1. CASE SameTickets
  BY <1>1 DEF SameTickets, TicketExclusive, InEscrow, Held
<1>2. ASSUME NEW w \in Workers, Fetches(w) PROVE TicketExclusive'
  <2>1. \A v \in Workers : ticket'[v] = IF v = w THEN readIdx ELSE ticket[v]
    BY <1>0, <1>2 DEF Fetches
  <2>2. \A v \in Workers : ticket[v] # readIdx  BY <1>0 DEF Ranges
  <2>3. \A k \in DOMAIN escrow : escrow[k].idx # readIdx  BY <1>0 DEF Ranges
  <2>4. readIdx \notin acked /\ \A d \in dropped : d.idx # readIdx
    BY <1>0 DEF Ranges
  <2> QED  BY <1>0, <1>2, <2>1, <2>2, <2>3, <2>4 DEF Fetches, TicketExclusive, InEscrow, Held
<1>3. ASSUME escrow # <<>>, escrow' = Tail(escrow)
      PROVE  /\ \A i : InEscrow(i)' => InEscrow(i) /\ i # Head(escrow).idx
             /\ \A j, k \in DOMAIN escrow' : escrow'[j].idx = escrow'[k].idx => j = k
             /\ InEscrow(Head(escrow).idx) /\ Head(escrow).idx \in Issued
  <2>1. /\ 1 \in DOMAIN escrow /\ Head(escrow) = escrow[1]
        /\ \A k \in DOMAIN escrow' :
             k + 1 \in DOMAIN escrow /\ k + 1 # 1 /\ escrow'[k] = escrow[k+1]
        /\ DOMAIN escrow' \subseteq Int
    BY <1>3, TailOf
  <2>2. \A j, k \in DOMAIN escrow : escrow[j].idx = escrow[k].idx => j = k
    BY DEF TicketExclusive
  <2>3. \A i : InEscrow(i)' => InEscrow(i) /\ i # Head(escrow).idx
    BY <2>1, <2>2 DEF InEscrow
  <2>4. \A j, k \in DOMAIN escrow' : escrow'[j].idx = escrow'[k].idx => j = k
    <3> TAKE j, k \in DOMAIN escrow'
    <3>1. HAVE escrow'[j].idx = escrow'[k].idx
    <3>2. j + 1 = k + 1  BY <2>1, <2>2, <3>1
    <3> QED  BY <2>1, <3>2
  <2>5. InEscrow(Head(escrow).idx) /\ Head(escrow).idx \in Issued
    BY <2>1 DEF InEscrow, Ranges
  <2> QED  BY <2>3, <2>4, <2>5
<1>4. CASE Rejects
  <2>1. escrow # <<>> /\ escrow' = Tail(escrow)  BY <1>4 DEF Rejects
  <2>2. PICK d0 : d0.idx = Head(escrow).idx /\ dropped' = dropped \union {d0}
    BY <1>4 DEF Rejects
  <2>a. ticket' = ticket /\ acked' = acked  BY <1>4 DEF Rejects
  <2>b. InEscrow(Head(escrow).idx)  BY <1>3, <2>1
  <2>c. /\ \A v \in Workers : ticket[v] # Head(escrow).idx
        /\ Head(escrow).idx \notin acked
    BY <2>b DEF TicketExclusive
  <2>3. (\A v \in Workers : ticket'[v] # Head(escrow).idx) /\ Head(escrow).idx \notin acked'
    BY <2>a, <2>c
  <2> QED
    BY <1>3, <1>4, <2>1, <2>2, <2>3 DEF Rejects, TicketExclusive, Held
<1>5. ASSUME NEW w \in Workers, Takes(w) PROVE TicketExclusive'
  <2> DEFINE h == Head(escrow).idx
  <2>1. escrow # <<>> /\ escrow' = Tail(escrow)  BY <1>5 DEF Takes
  <2>2. \A v \in Workers : ticket'[v] = IF v = w THEN h ELSE ticket[v]
    BY <1>0, <1>5 DEF Takes
  <2>3. ~Held(h) /\ h \notin acked /\ ~Abandoned(h)
    BY <1>3, <2>1 DEF Held, Abandoned, TicketExclusive
  <2>4. acked' = acked /\ dropped' = dropped  BY <1>5 DEF Takes
  <2> HIDE DEF h
  <2>5. \A i : InEscrow(i)' => InEscrow(i) /\ i # h  BY <1>3, <2>1 DEF h
  <2>6. \A j, k \in DOMAIN escrow' : escrow'[j].idx = escrow'[k].idx => j = k
    BY <1>3, <2>1
  <2> QED
    BY <2>2, <2>3, <2>4, <2>5, <2>6 DEF TicketExclusive, Held, Abandoned
<1>6. ASSUME NEW w \in Workers, Acks(w) \/ Drops(w) \/ Deposits(w) PROVE TicketExclusive'
  <2>1. \A v \in Workers : ticket'[v] = IF v = w THEN NoTicket ELSE ticket[v]
    BY <1>0, <1>6 DEF Acks, Drops, Deposits
  <2>2. /\ ticket[w] # NoTicket /\ ticket[w] \in Issued
        /\ \A v \in Workers : ticket'[v] # ticket[w]
    BY <1>6, <2>1 DEF Acks, Drops, Deposits, Ranges, TicketExclusive
  <2>3. ~InEscrow(NoTicket) /\ NoTicket \notin acked /\ ~Abandoned(NoTicket)
    BY <1>0 DEF InEscrow, Abandoned, Ranges
  <2>4. ~InEscrow(ticket[w]) /\ ticket[w] \notin acked /\ ~Abandoned(ticket[w])
    BY DEF TicketExclusive, Held, Abandoned
  <2>5. CASE Acks(w)
    <3>1. escrow' = escrow /\ dropped' = dropped /\ acked' = acked \union {ticket[w]}
      BY <2>5 DEF Acks
    <3> QED
      BY <2>1, <2>2, <2>3, <2>4, <3>1 DEF TicketExclusive, InEscrow, Held, Abandoned
  <2>6. CASE Drops(w)
    <3>1. PICK d0 : d0.idx = ticket[w] /\ dropped' = dropped \union {d0}
      BY <2>6 DEF Drops
    <3>2. escrow' = escrow /\ acked' = acked  BY <2>6 DEF Drops
    <3> QED
      BY <2>1, <2>2, <2>3, <2>4, <3>1, <3>2 DEF TicketExclusive, InEscrow, Held, Abandoned
  <2>7. CASE Deposits(w)
    <3>1. PICK n \in Nat : escrow' = Append(escrow, [idx |-> ticket[w], kills |-> n])
      BY <2>7 DEF Deposits
    <3>2. acked' = acked /\ dropped' = dropped  BY <2>7 DEF Deposits
    <3>3. \A i : InEscrow(i)' <=> InEscrow(i) \/ i = ticket[w]
      BY <3>1, AppendOf DEF InEscrow
    <3>4. \A j, k \in DOMAIN escrow' : escrow'[j].idx = escrow'[k].idx => j = k
      BY <2>4, <3>1, AppendOf DEF InEscrow, TicketExclusive
    <3> QED
      BY <2>1, <2>2, <2>3, <2>4, <3>2, <3>3, <3>4 DEF TicketExclusive, Held, Abandoned
  <2> QED  BY <1>6, <2>5, <2>6, <2>7
<1> QED  BY <1>1, <1>2, <1>4, <1>5, <1>6 DEF Effect

(* No effect lets go of a ticket without putting it somewhere.             *)
LEMMA CompleteStep ==
  ASSUME TypeOK, TicketComplete, Effect PROVE TicketComplete'
<1> DEFINE Somewhere(i) == Held(i) \/ InEscrow(i) \/ i \in acked \/ Abandoned(i)
<1>0. readIdx \in Nat /\ ticket \in [Workers -> Int] /\ NoTicket \notin 0..readIdx
  BY DEF TypeOK, NoTicket
<1>1. ASSUME escrow # <<>>, escrow' = Tail(escrow), NEW i, InEscrow(i)
      PROVE  InEscrow(i)' \/ i = Head(escrow).idx
  <2>1. PICK k \in DOMAIN escrow : escrow[k].idx = i  BY <1>1 DEF InEscrow
  <2>2. CASE k = 1  BY <1>1, <2>1, <2>2, TailOf
  <2>3. CASE k # 1
    <3>1. k - 1 \in DOMAIN escrow' /\ escrow'[k-1] = escrow[k]  BY <1>1, <2>3, TailOf
    <3> QED  BY <2>1, <3>1 DEF InEscrow
  <2> QED  BY <2>2, <2>3
<1>2. SUFFICES ASSUME NEW i \in 0..(readIdx' - 1) PROVE Somewhere(i)'
  BY DEF TicketComplete
<1>3. CASE SameTickets
  <2>1. Somewhere(i)  BY <1>3 DEF SameTickets, TicketComplete
  <2> QED  BY <1>3, <2>1 DEF SameTickets, InEscrow, Held, Abandoned
<1>4. CASE Rejects
  <2>1. i \in 0..readIdx-1  BY <1>4 DEF Rejects
  <2>2. Somewhere(i)  BY <2>1 DEF TicketComplete
  <2>3. PICK d0 : d0.idx = Head(escrow).idx /\ dropped' = dropped \union {d0}
    BY <1>4 DEF Rejects
  <2> QED  BY <1>1, <1>4, <2>2, <2>3 DEF Rejects, Held, Abandoned
<1>5. ASSUME NEW w \in Workers, Fetches(w) PROVE Somewhere(i)'
  <2>1. ticket'[w] = readIdx  BY <1>0, <1>5 DEF Fetches
  <2>2. \A v \in Workers : v # w => ticket'[v] = ticket[v]  BY <1>0, <1>5 DEF Fetches
  <2>3. i = readIdx \/ i \in 0..readIdx-1  BY <1>0, <1>5 DEF Fetches
  <2>4. CASE i = readIdx  BY <2>1, <2>4 DEF Held
  <2>5. CASE i \in 0..readIdx-1
    <3>1. Somewhere(i)  BY <2>5 DEF TicketComplete
    <3>2. Held(i) => Held(i)'  BY <1>0, <1>5, <2>2, <2>5 DEF Held, Fetches
    <3>3. (InEscrow(i) \/ i \in acked \/ Abandoned(i))
             => (InEscrow(i) \/ i \in acked \/ Abandoned(i))'
      BY <1>5 DEF Fetches, InEscrow, Abandoned
    <3> QED  BY <3>1, <3>2, <3>3
  <2> QED  BY <2>3, <2>4, <2>5
<1>6. ASSUME NEW w \in Workers, Takes(w) PROVE Somewhere(i)'
  <2>1. i \in 0..readIdx-1 /\ escrow # <<>> /\ escrow' = Tail(escrow)
    BY <1>6 DEF Takes
  <2>2. Somewhere(i)  BY <2>1 DEF TicketComplete
  <2>3. ticket'[w] = Head(escrow).idx  BY <1>0, <1>6 DEF Takes
  <2>4. Held(i) => Held(i)'  BY <1>0, <1>6, <2>1 DEF Held, Takes
  <2>5. InEscrow(i) => InEscrow(i)' \/ Held(i)'  BY <1>1, <2>1, <2>3 DEF Held
  <2>6. (i \in acked \/ Abandoned(i)) => (i \in acked \/ Abandoned(i))'
    BY <1>6 DEF Takes, Abandoned
  <2> QED  BY <2>2, <2>4, <2>5, <2>6
<1>7. ASSUME NEW w \in Workers, Acks(w) \/ Drops(w) \/ Deposits(w) PROVE Somewhere(i)'
  <2>1. i \in 0..readIdx-1  BY <1>7 DEF Acks, Drops, Deposits
  <2>2. Somewhere(i)  BY <2>1 DEF TicketComplete
  <2>3. Held(i) => Held(i)' \/ i = ticket[w]
    BY <1>0, <1>7 DEF Held, Acks, Drops, Deposits
  <2>4. CASE Acks(w)  BY <2>2, <2>3, <2>4 DEF Acks, InEscrow, Abandoned
  <2>5. CASE Drops(w)
    <3>1. PICK d0 : d0.idx = ticket[w] /\ dropped' = dropped \union {d0}
      BY <2>5 DEF Drops
    <3> QED  BY <2>2, <2>3, <2>5, <3>1 DEF Drops, InEscrow, Abandoned
  <2>6. CASE Deposits(w)
    <3>1. PICK n \in Nat : escrow' = Append(escrow, [idx |-> ticket[w], kills |-> n])
      BY <2>6 DEF Deposits
    <3>2. InEscrow(i)' <=> InEscrow(i) \/ i = ticket[w]
      BY <3>1, AppendOf DEF InEscrow
    <3> QED  BY <2>2, <2>3, <2>6, <3>2 DEF Deposits, Abandoned
  <2> QED  BY <1>7, <2>4, <2>5, <2>6
<1> QED  BY <1>3, <1>4, <1>5, <1>6, <1>7 DEF Effect

-----------------------------------------------------------------------------
(* The engine implements the ledger: every effect is a step of it.         *)
LEMMA LedgerStep ==
  ASSUME TypeOK, Ranges, TicketExclusive, Effect
  PROVE  [Ledger!Next]_(Ledger!ledger)
<1> DEFINE held   == {ticket[w] : w \in Workers} \ {NoTicket}
           queued == {escrow[k].idx : k \in DOMAIN escrow}
           lost   == {d.idx : d \in dropped}
<1>0. /\ readIdx \in Nat /\ ticket \in [Workers -> Int] /\ NoTicket \notin Nat
      /\ NoTicket \in Int /\ NoTicket \notin Issued /\ readIdx \notin Issued
  BY DEF TypeOK, NoTicket, Issued
<1>a. /\ \A i \in held : Ledger!Ack(i) \/ Ledger!Orphan(i) => Ledger!Next
      /\ \A i \in queued : Ledger!Retake(i) => Ledger!Next
      /\ \A i \in held \union queued : Ledger!Lose(i) => Ledger!Next
  BY Zenon DEF Ledger!Next
<1>1. CASE SameTickets  BY <1>1 DEF SameTickets, Ledger!ledger
<1>2. ASSUME NEW w \in Workers, Fetches(w) PROVE Ledger!Issue
  <2>1. \A v \in Workers : ticket'[v] = IF v = w THEN readIdx ELSE ticket[v]
    BY <1>0, <1>2 DEF Fetches
  <2>2. ticket[w] = NoTicket /\ NoTicket # readIdx  BY <1>0, <1>2 DEF Fetches
  <2>3. held' = held \union {readIdx}  BY <2>1, <2>2
  <2> QED  BY <1>2, <2>3 DEF Fetches, Ledger!Issue
<1>3. ASSUME escrow # <<>>, escrow' = Tail(escrow)
      PROVE  /\ queued' = queued \ {Head(escrow).idx}
             /\ Head(escrow).idx \in queued /\ InEscrow(Head(escrow).idx)
             /\ Head(escrow).idx \in Issued
  <2>1. /\ 1 \in DOMAIN escrow /\ Head(escrow) = escrow[1]
        /\ \A k \in DOMAIN escrow' :
             k + 1 \in DOMAIN escrow /\ k + 1 # 1 /\ escrow'[k] = escrow[k+1]
        /\ \A k \in DOMAIN escrow : k # 1 =>
             k - 1 \in DOMAIN escrow' /\ escrow'[k-1] = escrow[k]
    BY <1>3, TailOf
  <2>2. \A j, k \in DOMAIN escrow : escrow[j].idx = escrow[k].idx => j = k
    BY DEF TicketExclusive
  <2>3. queued' \subseteq queued \ {Head(escrow).idx}  BY <2>1, <2>2
  <2>4. queued \ {Head(escrow).idx} \subseteq queued'  BY <2>1
  <2> QED  BY <2>1, <2>3, <2>4 DEF InEscrow, Ranges
<1>4. CASE Rejects
  <2>0. PICK h : h = Head(escrow).idx  OBVIOUS
  <2>1. escrow # <<>> /\ escrow' = Tail(escrow) /\ UNCHANGED <<readIdx, ticket, acked>>
    BY <1>4 DEF Rejects
  <2>2. PICK d0 : d0.idx = h /\ dropped' = dropped \union {d0}  BY <1>4, <2>0 DEF Rejects
  <2>3. h \in queued /\ queued' = queued \ {h} /\ InEscrow(h)  BY <1>3, <2>0, <2>1
  <2>4. h \notin held  BY <2>3 DEF TicketExclusive
  <2>5. held' = held \ {h}  BY <2>1, <2>4
  <2>6. lost' = lost \union {h}  BY <2>2
  <2>7. Ledger!Lose(h)  BY <2>1, <2>3, <2>5, <2>6 DEF Ledger!Lose
  <2> QED  BY <1>a, <2>3, <2>7, Zenon
<1>5. ASSUME NEW w \in Workers, Takes(w) PROVE Ledger!Next
  <2>0. PICK h : h = Head(escrow).idx  OBVIOUS
  <2>1. /\ escrow # <<>> /\ escrow' = Tail(escrow) /\ UNCHANGED <<readIdx, acked, dropped>>
        /\ ticket[w] = NoTicket
    BY <1>5 DEF Takes
  <2>2. \A v \in Workers : ticket'[v] = IF v = w THEN h ELSE ticket[v]
    BY <1>0, <1>5, <2>0 DEF Takes
  <2>3. h \in queued /\ queued' = queued \ {h} /\ h \in Issued  BY <1>3, <2>0, <2>1
  <2>4. held' = held \union {h}  BY <1>0, <2>1, <2>2, <2>3
  <2>5. Ledger!Retake(h)  BY <2>1, <2>3, <2>4 DEF Ledger!Retake
  <2> QED  BY <1>a, <2>3, <2>5, Zenon
<1>6. ASSUME NEW w \in Workers, Acks(w) \/ Drops(w) \/ Deposits(w) PROVE Ledger!Next
  <2>1. \A v \in Workers : ticket'[v] = IF v = w THEN NoTicket ELSE ticket[v]
    BY <1>0, <1>6 DEF Acks, Drops, Deposits
  <2>2. ticket[w] # NoTicket /\ readIdx' = readIdx  BY <1>6 DEF Acks, Drops, Deposits
  <2>3. \A v \in Workers : ticket[v] = ticket[w] => v = w
    BY <2>2 DEF TicketExclusive
  <2>0. PICK i : i = ticket[w]  OBVIOUS
  <2>4. i \in held /\ held' = held \ {i}  BY <2>0, <2>1, <2>2, <2>3
  <2>5. i \notin queued  BY <2>0 DEF TicketExclusive, InEscrow
  <2>6. CASE Acks(w)
    <3>1. Ledger!Ack(i)  BY <2>0, <2>2, <2>4, <2>6 DEF Acks, Ledger!Ack
    <3> QED  BY <1>a, <2>4, <3>1, Zenon
  <2>7. CASE Drops(w)
    <3>1. PICK d0 : d0.idx = i /\ dropped' = dropped \union {d0}
      BY <2>0, <2>7 DEF Drops
    <3>2. lost' = lost \union {i}  BY <3>1
    <3>3. queued' = queued \ {i} /\ acked' = acked  BY <2>5, <2>7 DEF Drops
    <3>4. Ledger!Lose(i)  BY <2>2, <2>4, <3>2, <3>3 DEF Ledger!Lose
    <3> QED  BY <1>a, <2>4, <3>4, Zenon
  <2>8. CASE Deposits(w)
    <3>1. PICK n \in Nat : escrow' = Append(escrow, [idx |-> ticket[w], kills |-> n])
      BY <2>8 DEF Deposits
    <3>2. /\ DOMAIN escrow' = DOMAIN escrow \union {Len(escrow) + 1}
          /\ \A k \in DOMAIN escrow : escrow'[k] = escrow[k]
          /\ escrow'[Len(escrow) + 1].idx = ticket[w]
          /\ Len(escrow) + 1 \notin DOMAIN escrow
      BY <3>1, AppendOf
    <3>3. queued' = queued \union {i}  BY <2>0, <3>2
    <3>4. Ledger!Orphan(i)
      BY <2>2, <2>4, <2>8, <3>3 DEF Deposits, Ledger!Orphan
    <3> QED  BY <1>a, <2>4, <3>4, Zenon
  <2> QED  BY <1>6, <2>6, <2>7, <2>8
<1> QED  BY <1>1, <1>2, <1>4, <1>5, <1>6 DEF Effect, Ledger!Next

-----------------------------------------------------------------------------
(* A step of slot w leaves the records of the other slots alone.           *)
Elsewhere(w) ==
  \A v \in Workers \ {w} :
    pc'[v] = pc[v] /\ ticket'[v] = ticket[v] /\ txn'[v] = txn[v] /\ incarn'[v] = incarn[v]

LEMMA OthersRecord ==
  ASSUME Records, NEW w \in Workers, Elsewhere(w), Record(w)' PROVE Records'
<1> SUFFICES ASSUME NEW v \in Workers PROVE Record(v)'  BY DEF Records
<1>1. CASE v = w  BY <1>1
<1>2. CASE v # w
  <2>1. pc'[v] = pc[v] /\ ticket'[v] = ticket[v] /\ txn'[v] = txn[v] /\ incarn'[v] = incarn[v]
    BY <1>2 DEF Elsewhere
  <2>2. Record(v)  BY DEF Records
  <2> QED  BY <2>1, <2>2 DEF Record
<1> QED  BY <1>1, <1>2

LEMMA SameRecords ==
  ASSUME Records, UNCHANGED <<pc, ticket, txn, incarn>> PROVE Records'
BY DEF Records, Record

(* Which fields a step of w may touch.                                     *)
LEMMA StepElsewhere ==
  ASSUME TypeOK, NEW w \in Workers, 
         \/ InnerStep(w) \/ EdgeStep(w)
         \/ Spawn(w) \/ Kill(w) \/ PayloadExits(w) \/ RecoverIdle(w)
         \/ RecoverRecycled(w) \/ RecoverDeposit(w) \/ RecoverSignal(w)
  PROVE  Elsewhere(w)
<1>0. /\ pc \in [Workers -> PcLabels] /\ ticket \in [Workers -> Int]
      /\ txn \in [Workers -> Txn] /\ incarn \in [Workers -> Nat]
  BY DEF TypeOK
<1> USE DEF Goto, claimVars, parentVars, workerFrame, parentFrame
<1>1. \/ pc' = pc
      \/ \E l : pc' = [pc EXCEPT ![w] = l]
  <2>1. CASE InnerStep(w)  BY <2>1, InnerMoves
  <2>2. CASE EdgeStep(w)  BY <2>2, EdgeMoves
  <2>3. CASE Spawn(w) \/ Kill(w) \/ PayloadExits(w)
    BY <2>3 DEF Spawn, Kill, PayloadExits, ProcessGone
  <2>4. CASE RecoverIdle(w) \/ RecoverRecycled(w) \/ RecoverDeposit(w) \/ RecoverSignal(w)
    BY <2>4 DEF RecoverIdle, RecoverRecycled, RecoverDeposit, RecoverSignal, Respawn, FreeSlot
  <2> QED  BY <2>1, <2>2, <2>3, <2>4
<1>2. \/ ticket' = ticket
      \/ \E i : ticket' = [ticket EXCEPT ![w] = i]
  <2>1. CASE InnerStep(w)
    BY <2>1 DEF InnerStep, BeginClaim, Rearm, DrainPacket, DrainEmpty, RingCheck,
         FetchAdd, EscrowPacket, EscrowEmpty, EofCheck, Spin, Evaluate, Decide,
         BeginCommit, SendAck, Clear, TakePacket
  <2>2. CASE EdgeStep(w)
    BY <2>2 DEF EdgeStep, Register, Exit, AckFails, ProcessGone, BeginWait, EndWait,
         WaitAborted, OvershotAborted, Overshot, OvershotReady, DropTicket
  <2>3. CASE Spawn(w) \/ Kill(w) \/ PayloadExits(w)
    BY <2>3 DEF Spawn, Kill, PayloadExits, ProcessGone
  <2>4. CASE RecoverIdle(w) \/ RecoverRecycled(w) \/ RecoverDeposit(w) \/ RecoverSignal(w)
    BY <2>4 DEF RecoverIdle, RecoverRecycled, RecoverDeposit, RecoverSignal
  <2> QED  BY <2>1, <2>2, <2>3, <2>4
<1>3. \A v \in Workers \ {w} : txn'[v] = txn[v]
  <2>1. CASE InnerStep(w)
    BY <1>0, <2>1 DEF InnerStep, BeginClaim, Rearm, DrainPacket, DrainEmpty, RingCheck,
         FetchAdd, EscrowPacket, EscrowEmpty, EofCheck, Spin, Evaluate, Decide,
         BeginCommit, SendAck, Clear, SetTxn, ClearTxn, AbortClaim, PublishTxn
  <2>2. CASE EdgeStep(w)
    BY <1>0, <2>2 DEF EdgeStep, Register, Exit, AckFails, BeginWait, EndWait, WaitAborted,
         OvershotAborted, Overshot, OvershotReady, ClearTxn, AbortClaim, PublishTxn
  <2>3. CASE Spawn(w) \/ Kill(w) \/ PayloadExits(w)
    BY <2>3 DEF Spawn, Kill, PayloadExits
  <2>4. CASE RecoverIdle(w) \/ RecoverRecycled(w) \/ RecoverDeposit(w) \/ RecoverSignal(w)
    BY <1>0, <2>4 DEF RecoverIdle, RecoverRecycled, RecoverDeposit, RecoverSignal, ClearTxn
  <2> QED  BY <2>1, <2>2, <2>3, <2>4
<1>4. \/ incarn' = incarn
      \/ \E n : incarn' = [incarn EXCEPT ![w] = n]
  <2>1. CASE InnerStep(w)
    BY <2>1 DEF InnerStep, BeginClaim, Rearm, DrainPacket, DrainEmpty, RingCheck,
         FetchAdd, EscrowPacket, EscrowEmpty, EofCheck, Spin, Evaluate, Decide,
         BeginCommit, SendAck, Clear
  <2>2. CASE EdgeStep(w)
    BY <2>2 DEF EdgeStep, Register, Exit, AckFails, BeginWait, EndWait, WaitAborted,
         OvershotAborted, Overshot, OvershotReady
  <2>3. CASE Spawn(w) \/ Kill(w) \/ PayloadExits(w)
    BY <2>3 DEF Spawn, Kill, PayloadExits
  <2>4. CASE RecoverIdle(w) \/ RecoverRecycled(w) \/ RecoverDeposit(w) \/ RecoverSignal(w)
    BY <2>4 DEF RecoverIdle, RecoverRecycled, RecoverDeposit, RecoverSignal, Respawn, FreeSlot
  <2> QED  BY <2>1, <2>2, <2>3, <2>4
<1> QED  BY <1>0, <1>1, <1>2, <1>3, <1>4 DEF Elsewhere

(* What a process in slot w does to its own record.                        *)
LEMMA OwnRecord ==
  ASSUME TypeOK, Ranges, Records, NEW w \in Workers,
         \/ InnerStep(w) \/ EdgeStep(w)
         \/ Spawn(w) \/ Kill(w) \/ PayloadExits(w) \/ RecoverIdle(w)
         \/ RecoverRecycled(w) \/ RecoverDeposit(w) \/ RecoverSignal(w)
  PROVE  Record(w)'
<1>0. /\ pc \in [Workers -> PcLabels] /\ ticket \in [Workers -> Int]
      /\ txn \in [Workers -> Txn] /\ incarn \in [Workers -> Nat]
      /\ readIdx \in Int /\ readIdx # NoTicket /\ NoTicket \notin Issued
  BY DEF TypeOK, NoTicket, Issued
<1>1. Record(w)  BY DEF Records
<1>2. pc[w] \in PcLabels /\ txn[w].state \in TxnStates  BY <1>0 DEF Txn
<1> USE DEF Record, Holding, Claiming, Goto, claimVars, parentVars, workerFrame, parentFrame
<1>3. CASE BeginClaim(w)
  BY <1>0, <1>1, <1>3 DEF BeginClaim, SetTxn, Txn
<1>4. CASE Rearm(w) \/ DrainEmpty(w) \/ RingCheck(w) \/ EscrowEmpty(w) \/ Spin(w)
  BY <1>0, <1>1, <1>4 DEF Rearm, DrainEmpty, RingCheck, EscrowEmpty, Spin
<1>5. CASE DrainPacket(w) \/ EscrowPacket(w)
  <2>1. \E r, wr : TakePacket(w, r, wr)  BY <1>5 DEF DrainPacket, EscrowPacket
  <2>2. Head(escrow).idx # NoTicket  BY <1>0, <2>1, TailOf DEF TakePacket, Ranges
  <2>3. txn' = txn /\ incarn' = incarn /\ pc[w] \in {"drain", "escrow"}
    BY <1>5 DEF DrainPacket, EscrowPacket
  <2> QED  BY <1>0, <1>1, <2>1, <2>2, <2>3 DEF TakePacket
<1>6. CASE FetchAdd(w)  BY <1>0, <1>1, <1>6 DEF FetchAdd
<1>7. CASE EofCheck(w) \/ WaitAborted(w)
  BY <1>0, <1>1, <1>7 DEF EofCheck, WaitAborted, AbortClaim, ClearTxn, IdleTxn
<1>8. CASE Evaluate(w)
  <2>1. CASE Published(w)
    BY <1>0, <1>1, <1>8, <2>1 DEF Evaluate, PublishTxn
  <2>2. CASE ~Published(w)
    BY <1>0, <1>1, <1>8, <2>2 DEF Evaluate
  <2> QED  BY <2>1, <2>2
<1>9. CASE Decide(w)  BY <1>0, <1>1, <1>9 DEF Decide
<1>10. CASE BeginCommit(w)
  BY <1>0, <1>1, <1>10 DEF BeginCommit, SetTxn, Txn
<1>11. CASE SendAck(w)  BY <1>0, <1>1, <1>11 DEF SendAck
<1>12. CASE Clear(w)    BY <1>0, <1>1, <1>12 DEF Clear, ClearTxn, IdleTxn
<1>13. CASE Register(w) \/ BeginWait(w) \/ EndWait(w)
  BY <1>0, <1>1, <1>13 DEF Register, BeginWait, EndWait
<1>14. CASE Exit(w) \/ AckFails(w) \/ PayloadExits(w) \/ Kill(w)
  <2>1. /\ pc'[w] = "dead" /\ UNCHANGED <<ticket, txn, incarn>>
        /\ pc[w] \notin {"dead", "deposited", "free", "astray"}
    BY <1>0, <1>14 DEF Exit, AckFails, PayloadExits, Kill, Alive, ProcessGone
  <2> QED  BY <1>0, <1>1, <1>2, <2>1 DEF PcLabels
<1>15. CASE Overshot(w)
  BY <1>0, <1>1, <1>15 DEF Overshot, DropTicket
<1>16. CASE OvershotReady(w)
  <2>1. CASE Published(w)
    BY <1>0, <1>1, <1>16, <2>1 DEF OvershotReady, PublishTxn
  <2>2. CASE ~Published(w)
    BY <1>0, <1>1, <1>16, <2>2 DEF OvershotReady, DropTicket
  <2> QED  BY <2>1, <2>2
<1>17. CASE OvershotAborted(w)
  BY <1>0, <1>1, <1>17 DEF OvershotAborted, AbortClaim, ClearTxn, IdleTxn
<1>18. CASE Spawn(w)  BY <1>0, <1>1, <1>18 DEF Spawn
<1>19. CASE RecoverIdle(w)
  BY <1>0, <1>1, <1>19 DEF RecoverIdle, Respawn, FreeSlot
<1>20. CASE RecoverRecycled(w)
  BY <1>0, <1>1, <1>20 DEF RecoverRecycled, ClearTxn, IdleTxn, Respawn
<1>21. CASE RecoverDeposit(w)  BY <1>0, <1>1, <1>21 DEF RecoverDeposit
<1>22. CASE RecoverSignal(w)
  BY <1>0, <1>1, <1>22 DEF RecoverSignal, ClearTxn, IdleTxn, Respawn
<1> QED
  BY <1>3, <1>4, <1>5, <1>6, <1>7, <1>8, <1>9, <1>10, <1>11, <1>12, <1>13, <1>14, <1>15,
     <1>16, <1>17, <1>18, <1>19, <1>20, <1>21, <1>22 DEF InnerStep, EdgeStep

LEMMA RecordsStep == ASSUME TypeOK, Ranges, Records, [Next]_vars PROVE Records'
<1>1. CASE \/ ScannerNext \/ ParentAbort \/ FallowStart \/ FallowAdvance
           \/ OutsideAlarm \/ UNCHANGED vars
           \/ \E w \in Workers : RecoverRace(w) \/ RecoverFatal(w)
  <2> USE DEF claimVars, parentVars
  <2>1. UNCHANGED <<pc, ticket, txn, incarn>>
    <3>1. CASE ScannerNext
      BY <3>1 DEF ScannerNext, WriteSlot, Commit, ShieldWait, EndOfScan, TailForce, EndOfTail,
           FinalPublish, Finish, EofBlast, scannerFrame
    <3>2. CASE ParentAbort \/ FallowStart \/ FallowAdvance \/ OutsideAlarm \/ UNCHANGED vars
      BY <3>2 DEF ParentAbort, parentFrame, FallowStart, FallowAdvance, reclaimFrame,
           OutsideAlarm, vars
    <3>3. CASE \E w \in Workers : RecoverRace(w) \/ RecoverFatal(w)
      BY <3>3 DEF RecoverRace, RecoverFatal, Stop, parentFrame
    <3> QED  BY <1>1, <3>1, <3>2, <3>3
  <2> QED  BY <2>1, SameRecords
<1>2. ASSUME NEW w \in Workers,
             \/ InnerStep(w) \/ EdgeStep(w)
             \/ Spawn(w) \/ Kill(w) \/ PayloadExits(w) \/ RecoverIdle(w)
             \/ RecoverRecycled(w) \/ RecoverDeposit(w) \/ RecoverSignal(w)
      PROVE  Records'
  BY <1>2, StepElsewhere, OwnRecord, OthersRecord
<1> QED  BY <1>1, <1>2 DEF Next, Terminated, InnerStep, EdgeStep

-----------------------------------------------------------------------------
(* The inductive invariant of the engine.                                  *)
TicketInv ==
  /\ TypeOK /\ CountersCover /\ Records /\ Ranges
  /\ TicketExclusive /\ TicketComplete

LEMMA TicketInit == Init => TicketInv
<1> SUFFICES ASSUME Init PROVE TicketInv  OBVIOUS
<1>1. TypeOK /\ CountersCover  BY TypeInit, CoverInit
<1>2. Records  BY DEF Init, Records, Record, Holding, Claiming, IdleTxn
<1>3. /\ escrow = <<>> /\ DOMAIN escrow = {} /\ acked = {} /\ dropped = {} /\ readIdx = 0
      /\ \A w \in Workers : ticket[w] = NoTicket
  BY DEF Init
<1>4. Ranges  BY <1>3 DEF Ranges
<1>5. TicketExclusive  BY <1>3 DEF TicketExclusive, InEscrow
<1>6. TicketComplete  BY <1>3 DEF TicketComplete
<1> QED  BY <1>1, <1>2, <1>4, <1>5, <1>6 DEF TicketInv

LEMMA TicketStep == TicketInv /\ [Next]_vars => TicketInv'
<1> SUFFICES ASSUME TicketInv, [Next]_vars PROVE TicketInv'  OBVIOUS
<1>1. TypeOK /\ CountersCover /\ Records /\ Ranges /\ TicketExclusive /\ TicketComplete
  BY DEF TicketInv
<1>2. Effect  BY <1>1, StepEffect
<1>3. TypeOK' /\ CountersCover'  BY <1>1, TypeStep, CoverStep
<1>4. Records'  BY <1>1, RecordsStep
<1>5. Ranges' /\ TicketExclusive' /\ TicketComplete'
  BY <1>1, <1>2, RangesStep, ExclusiveStep, CompleteStep
<1> QED  BY <1>3, <1>4, <1>5 DEF TicketInv

LEMMA TicketInvariance == Spec => []TicketInv
BY TicketInit, TicketStep, PTL DEF Spec

(* A ticket is never in two places: no batch is run by two workers at      *)
(* once, acked twice, or retried after its ack, for any number of workers  *)
(* and deaths (do_lockfree_claim, ring_recover_worker_core,                *)
(* ring_ack_main).                                                         *)
THEOREM ExclusiveCorrect == Spec => []TicketExclusive
<1>1. TicketInv => TicketExclusive  BY DEF TicketInv
<1> QED  BY <1>1, TicketInvariance, PTL

(* No ticket vanishes: each one issued by the fetch-and-add of             *)
(* do_lockfree_claim is held, queued for a retry, acked, or let go of for  *)
(* a recorded reason.                                                      *)
THEOREM CompleteCorrect == Spec => []TicketComplete
<1>1. TicketInv => TicketComplete  BY DEF TicketInv
<1> QED  BY <1>1, TicketInvariance, PTL

(* The record ring_recover_worker_core finds CLAIMED is of the process     *)
(* that died and of the batch it held (worker_txn_publish,                 *)
(* worker_txn_clear).                                                      *)
THEOREM RecordsCorrect == Spec => []RecordsCurrent
<1>1. TicketInv => RecordsCurrent
  BY DEF TicketInv, Records, Record, RecordsCurrent
<1> QED  BY <1>1, TicketInvariance, PTL

(* The engine implements the ledger of tickets: every step of scanner,     *)
(* workers, parent and reclaimer is a step of TicketLedger or none.        *)
THEOREM LedgerCorrect == Spec => ImplementsLedger
<1>1. Init => Ledger!Init
  <2> SUFFICES ASSUME Init PROVE Ledger!Init  OBVIOUS
  <2>1. /\ escrow = <<>> /\ DOMAIN escrow = {} /\ acked = {} /\ dropped = {}
        /\ readIdx = 0 /\ \A w \in Workers : ticket[w] = NoTicket
    BY DEF Init
  <2> QED  BY <2>1 DEF Ledger!Init
<1>2. TicketInv /\ [Next]_vars => [Ledger!Next]_(Ledger!ledger)
  BY StepEffect, LedgerStep DEF TicketInv
<1> QED  BY <1>1, <1>2, TicketInvariance, PTL DEF Spec, ImplementsLedger, Ledger!Spec

-------------------------------------------------------------------------------
(* A poisoned batch is counted once at most, for every retry limit.        *)
(*                                                                         *)
(* A batch is counted by the one worker that decides on it with exactly    *)
(* Threshold kills.  From then on every place the batch can come back      *)
(* from, a record that its death leaves behind or a packet, names enough   *)
(* kills for the next decision to find more than Threshold.                *)

(* Control points from the claim to the poison decision.                   *)
Undecided == {"eval", "overshot", "overshotWait", "decide"}

(* The record of a batch that runs or is skipped, or whose worker died     *)
(* over it: what a deposit would take the kill count from.                 *)
OnRecord(w) ==
  \/ pc[w] \in {"exec", "ack"}
  \/ pc[w] = "dead" /\ txn[w].state = "CLAIMED"

(* The kills that come with a batch which was counted already.             *)
Level(w) ==
  /\ pc[w] = "decide" => txn[w].kills = kills[w]
  /\ ticket[w] \in counted =>
       /\ pc[w] \in Undecided => kills[w] > Threshold
       /\ OnRecord(w) => txn[w].kills >= Threshold

Queued ==
  \A k \in DOMAIN escrow : escrow[k].idx \in counted => escrow[k].kills > Threshold

CountInv ==
  /\ IsFiniteSet(counted) /\ counted \subseteq Issued
  /\ PoisonCountedOnce
  /\ Queued /\ \A w \in Workers : Level(w)

(* A step of one slot other than a decision that counts.                   *)
SlotStep(w) ==
  \/ InnerStep(w) /\ ~Decide(w)
  \/ EdgeStep(w)
  \/ Spawn(w) \/ Kill(w) \/ PayloadExits(w) \/ RecoverIdle(w)
  \/ RecoverRecycled(w) \/ RecoverDeposit(w) \/ RecoverSignal(w)

LEMMA ThresholdType == Threshold \in Nat
BY RingAssumption DEF RingAssumption, Threshold

LEMMA LevelInit == Init => CountInv
<1> SUFFICES ASSUME Init PROVE CountInv  OBVIOUS
<1>1. counted = {} /\ poisonedCount = 0 /\ escrow = <<>> /\ DOMAIN escrow = {}
  BY DEF Init
<1>2. IsFiniteSet({}) /\ Cardinality({}) = 0  BY FS_EmptySet
<1>3. \A w \in Workers : pc[w] = "unspawned"  BY DEF Init
<1> QED  BY <1>1, <1>2, <1>3 DEF CountInv, PoisonCountedOnce, Queued, Level

-------------------------------------------------------------------------------
(* What a step that counts nothing does to kill counts.                    *)
LEMMA NothingCounted ==
  ASSUME NEW w \in Workers, SlotStep(w) PROVE UNCHANGED <<counted, poisonedCount>>
<1> USE DEF ledgerVars
<1>1. CASE InnerStep(w) /\ ~Decide(w)
  BY <1>1 DEF InnerStep, BeginClaim, Rearm, DrainPacket, DrainEmpty, RingCheck, FetchAdd,
     EscrowPacket, EscrowEmpty, EofCheck, Spin, Evaluate, BeginCommit, SendAck, Clear
<1>2. CASE EdgeStep(w)
  BY <1>2 DEF EdgeStep, Register, Exit, AckFails, BeginWait, EndWait, WaitAborted,
     OvershotAborted, Overshot, OvershotReady
<1>3. CASE Spawn(w) \/ Kill(w) \/ PayloadExits(w)
  BY <1>3 DEF Spawn, Kill, PayloadExits, parentFrame
<1>4. CASE RecoverIdle(w) \/ RecoverRecycled(w) \/ RecoverDeposit(w) \/ RecoverSignal(w)
  BY <1>4 DEF RecoverIdle, RecoverRecycled, RecoverDeposit, RecoverSignal, parentFrame
<1> QED  BY <1>1, <1>2, <1>3, <1>4 DEF SlotStep

LEMMA KillsElsewhere ==
  ASSUME TypeOK, NEW w \in Workers, SlotStep(w) \/ Decide(w)
  PROVE  \A v \in Workers \ {w} : kills'[v] = kills[v]
<1>0. kills \in [Workers -> Nat]  BY DEF TypeOK
<1> SUFFICES kills' = kills \/ \E n : kills' = [kills EXCEPT ![w] = n]  BY <1>0
<1> USE DEF claimVars
<1>1. CASE InnerStep(w)
  BY <1>1 DEF InnerStep, BeginClaim, Rearm, DrainPacket, DrainEmpty, RingCheck, FetchAdd,
     EscrowPacket, EscrowEmpty, EofCheck, Spin, Evaluate, Decide, BeginCommit, SendAck,
     Clear, TakePacket
<1>2. CASE EdgeStep(w)
  BY <1>2 DEF EdgeStep, Register, Exit, AckFails, ProcessGone, BeginWait, EndWait,
     WaitAborted, OvershotAborted, Overshot, OvershotReady, DropTicket
<1>3. CASE Spawn(w) \/ Kill(w) \/ PayloadExits(w)
  BY <1>3 DEF Spawn, Kill, PayloadExits, ProcessGone, parentFrame
<1>4. CASE RecoverIdle(w) \/ RecoverRecycled(w) \/ RecoverDeposit(w) \/ RecoverSignal(w)
  BY <1>4 DEF RecoverIdle, RecoverRecycled, RecoverDeposit, RecoverSignal, parentFrame
<1> QED  BY <1>1, <1>2, <1>3, <1>4 DEF SlotStep, InnerStep

(* What the step does to the level of its own slot.                        *)
LEMMA OwnLevel ==
  ASSUME TypeOK, Ranges, Records, CountInv, NEW w \in Workers, SlotStep(w)
  PROVE  Level(w)'
<1>0. /\ pc \in [Workers -> PcLabels] /\ ticket \in [Workers -> Int]
      /\ txn \in [Workers -> Txn] /\ kills \in [Workers -> Nat]
      /\ NoTicket \notin counted /\ readIdx \notin counted /\ Threshold \in Nat
  BY ThresholdType DEF TypeOK, CountInv, Issued, NoTicket
<1>1. Level(w) /\ Record(w)  BY DEF CountInv, Records
<1>2. counted' = counted /\ Threshold' = Threshold  BY NothingCounted DEF Threshold
<1> USE DEF Level, OnRecord, Undecided, Goto, claimVars
<1>3. CASE \/ BeginClaim(w) \/ Rearm(w) \/ DrainEmpty(w) \/ RingCheck(w) \/ EscrowEmpty(w)
           \/ Spin(w) \/ EofCheck(w) \/ WaitAborted(w) \/ Register(w) \/ BeginWait(w)
           \/ EndWait(w) \/ BeginCommit(w) \/ SendAck(w) \/ Clear(w)
  <2>1. pc'[w] \in {"idle", "leaving", "restart", "drain", "ring", "fetch", "escrow", "fin",
                    "wait", "commit", "clear"}
    BY <1>0, <1>3 DEF BeginClaim, Rearm, DrainEmpty, RingCheck, EscrowEmpty, Spin, EofCheck,
       WaitAborted, AbortClaim, Register, BeginWait, EndWait, BeginCommit, SendAck, Clear
  <2> QED  BY <2>1
<1>4. CASE DrainPacket(w) \/ EscrowPacket(w)
  <2>1. \E r, wr : TakePacket(w, r, wr)  BY <1>4 DEF DrainPacket, EscrowPacket
  <2>2. escrow # <<>>  BY <2>1 DEF TakePacket
  <2>3. Head(escrow).idx \in counted => Head(escrow).kills > Threshold
    BY <2>2, TailOf DEF CountInv, Queued
  <2>4. \/ pc'[w] = "ring"
        \/ /\ pc'[w] = "eval" /\ ticket'[w] = Head(escrow).idx
           /\ kills'[w] = Head(escrow).kills
    BY <1>0, <2>1 DEF TakePacket
  <2> QED  BY <1>2, <2>3, <2>4
<1>5. CASE FetchAdd(w)
  BY <1>0, <1>2, <1>5 DEF FetchAdd
<1>6. CASE Evaluate(w) \/ OvershotReady(w)
  <2>1. CASE Published(w)
    BY <1>0, <1>1, <1>2, <1>6, <2>1 DEF Evaluate, OvershotReady, PublishTxn
  <2>2. CASE ~Published(w)
    BY <1>0, <1>1, <1>2, <1>6, <2>2 DEF Evaluate, OvershotReady, DropTicket
  <2> QED  BY <2>1, <2>2
<1>7. CASE Overshot(w)
  BY <1>0, <1>1, <1>2, <1>7 DEF Overshot, DropTicket
<1>8. CASE OvershotAborted(w)
  BY <1>0, <1>2, <1>8 DEF OvershotAborted, AbortClaim
<1>9. CASE Exit(w) \/ AckFails(w) \/ PayloadExits(w) \/ Kill(w)
  <2>1. pc'[w] = "dead" /\ UNCHANGED <<ticket, txn>> /\ pc[w] # "dead"
    BY <1>0, <1>9 DEF Exit, AckFails, PayloadExits, Kill, Alive, ProcessGone
  <2>2. txn[w].state = "CLAIMED" => pc[w] \in {"decide", "exec", "ack"}
    <3>1. pc[w] \in {"deposited", "free", "astray"} => FALSE
      BY <1>9 DEF Exit, AckFails, PayloadExits, Kill, Alive
    <3>2. pc[w] \in PcLabels  BY <1>0
    <3> QED  BY <1>1, <2>1, <3>1, <3>2 DEF Record, Claiming, PcLabels
  <2>3. pc[w] = "decide" /\ ticket[w] \in counted => txn[w].kills > Threshold
    BY <1>1
  <2>4. pc[w] \in {"exec", "ack"} /\ ticket[w] \in counted => txn[w].kills >= Threshold
    BY <1>1
  <2>5. txn[w].kills \in Nat  BY <1>0 DEF Txn
  <2> QED  BY <1>0, <1>2, <2>1, <2>2, <2>3, <2>4, <2>5
<1>10. CASE \/ Spawn(w) \/ RecoverIdle(w) \/ RecoverRecycled(w) \/ RecoverDeposit(w)
            \/ RecoverSignal(w)
  <2>1. pc'[w] \in {"new", "free", "astray", "deposited"}
    BY <1>0, <1>10 DEF Spawn, RecoverIdle, RecoverRecycled, RecoverDeposit, RecoverSignal,
       Respawn, FreeSlot
  <2> QED  BY <2>1
<1> QED
  BY <1>3, <1>4, <1>5, <1>6, <1>7, <1>8, <1>9, <1>10 DEF SlotStep, InnerStep, EdgeStep

(* A packet that names a counted batch comes from a record that does.      *)
LEMMA QueuedStep ==
  ASSUME TypeOK, Records, CountInv, NEW w \in Workers, SlotStep(w) PROVE Queued'
<1>1. counted' = counted /\ Threshold' = Threshold  BY NothingCounted DEF Threshold
<1>2. Queued  BY DEF CountInv
<1> USE DEF escrowVars
<1>3. CASE UNCHANGED escrow  BY <1>1, <1>2, <1>3 DEF Queued
<1>4. CASE DrainPacket(w) \/ EscrowPacket(w)
  <2>1. escrow # <<>> /\ escrow' = Tail(escrow)
    BY <1>4 DEF DrainPacket, EscrowPacket, TakePacket
  <2> QED  BY <1>1, <1>2, <2>1, TailOf DEF Queued
<1>5. CASE RecoverDeposit(w)
  <2> DEFINE p == [idx |-> txn[w].idx, kills |-> txn[w].kills + 1]
  <2>1. /\ pc[w] = "dead" /\ txn[w].state = "CLAIMED" /\ escrow' = Append(escrow, p)
    BY <1>5 DEF RecoverDeposit, ClaimedDeath
  <2>2. Level(w) /\ txn[w].idx = ticket[w] /\ txn[w].kills \in Nat /\ Threshold \in Nat
    BY <2>1, ThresholdType DEF CountInv, Records, Record, TypeOK, Txn
  <2>3. p.idx \in counted => p.kills > Threshold
    BY <2>1, <2>2 DEF Level, OnRecord
  <2> HIDE DEF p
  <2> QED  BY <1>1, <1>2, <2>1, <2>3, AppendOf DEF Queued
<1>6. \/ UNCHANGED escrow \/ DrainPacket(w) \/ EscrowPacket(w) \/ RecoverDeposit(w)
  <2>1. CASE InnerStep(w) /\ ~Decide(w)
    BY <2>1 DEF InnerStep, BeginClaim, Rearm, DrainEmpty, RingCheck, FetchAdd, EscrowEmpty,
       EofCheck, Spin, Evaluate, BeginCommit, SendAck, Clear
  <2>2. CASE EdgeStep(w)
    BY <2>2 DEF EdgeStep, Register, Exit, AckFails, BeginWait, EndWait, WaitAborted,
       OvershotAborted, Overshot, OvershotReady
  <2>3. CASE Spawn(w) \/ Kill(w) \/ PayloadExits(w)
    BY <2>3 DEF Spawn, Kill, PayloadExits
  <2>4. CASE RecoverIdle(w) \/ RecoverRecycled(w) \/ RecoverDeposit(w) \/ RecoverSignal(w)
    BY <2>4 DEF RecoverIdle, RecoverRecycled, RecoverSignal
  <2> QED  BY <2>1, <2>2, <2>3, <2>4 DEF SlotStep
<1> QED  BY <1>3, <1>4, <1>5, <1>6

(* The other slots see nothing of either.                                  *)
LEMMA OtherLevels ==
  ASSUME NEW w \in Workers, NEW v \in Workers, v # w, Level(v), Elsewhere(w),
         kills'[v] = kills[v], ticket[v] \in counted' => ticket[v] \in counted
  PROVE  Level(v)'
<1>1. pc'[v] = pc[v] /\ ticket'[v] = ticket[v] /\ txn'[v] = txn[v]  BY DEF Elsewhere
<1>2. Threshold' = Threshold  BY DEF Threshold
<1> QED  BY <1>1, <1>2 DEF Level, OnRecord

-------------------------------------------------------------------------------
(* The decision.                                                           *)
LEMMA DecideKeeps ==
  ASSUME TypeOK, Ranges, Records, TicketExclusive, CountInv, NEW w \in Workers, Decide(w)
  PROVE  CountInv'
<1>0. /\ pc \in [Workers -> PcLabels] /\ kills \in [Workers -> Nat]
      /\ Threshold \in Nat /\ Threshold' = Threshold
  BY ThresholdType DEF TypeOK, Threshold
<1>1. /\ pc[w] = "decide" /\ pc'[w] \in {"exec", "ack"}
      /\ UNCHANGED <<readIdx, ticket, kills, escrow, txn>>
  BY <1>0 DEF Decide, Goto, claimVars, escrowVars
<1>2. Level(w) /\ txn[w].kills = kills[w]  BY <1>1 DEF CountInv, Level
<1>3. Issued' = Issued  BY <1>1 DEF Issued
<1>4. InnerStep(w)  BY DEF InnerStep
<1>5. Elsewhere(w) /\ \A v \in Workers \ {w} : kills'[v] = kills[v]
  BY <1>4, StepElsewhere, KillsElsewhere
<1>6. CASE ~Counts(kills[w])
  <2>1. counted' = counted /\ poisonedCount' = poisonedCount
    BY <1>6 DEF Decide
  <2>2. Level(w)'
    BY <1>0, <1>1, <1>2, <2>1 DEF Level, Undecided, OnRecord
  <2>3. \A v \in Workers : Level(v)'
    BY <1>5, <2>1, <2>2, OtherLevels DEF CountInv
  <2>4. Queued'  BY <1>0, <1>1, <2>1 DEF CountInv, Queued
  <2> QED  BY <1>3, <2>1, <2>3, <2>4 DEF CountInv, PoisonCountedOnce
<1>7. CASE Counts(kills[w])
  <2>1. counted' = counted \union {ticket[w]} /\ poisonedCount' = poisonedCount + 1
    BY <1>7 DEF Decide
  <2>2. kills[w] = Threshold  BY <1>7 DEF Counts
  <2>3. ticket[w] \notin counted
    BY <1>0, <1>1, <1>2, <2>2 DEF Level, Undecided
  <2>4. ticket[w] # NoTicket /\ ticket[w] \in Issued
    BY <1>1 DEF Records, Record, Holding, Ranges
  <2>5. PoisonCountedOnce' /\ IsFiniteSet(counted')
    BY <2>1, <2>3, FS_AddElement DEF CountInv, PoisonCountedOnce
  <2>6. counted' \subseteq Issued'  BY <1>3, <2>1, <2>4 DEF CountInv
  <2>7. Level(w)'
    BY <1>0, <1>1, <1>2, <2>2 DEF Level, Undecided, OnRecord
  <2>8. \A v \in Workers : v # w => ticket[v] # ticket[w]
    BY <2>4 DEF TicketExclusive
  <2>9. \A v \in Workers : Level(v)'
    BY <1>5, <2>1, <2>7, <2>8, OtherLevels DEF CountInv
  <2>10. Queued'
    <3>1. \A k \in DOMAIN escrow : escrow[k].idx # ticket[w]
      BY DEF TicketExclusive, InEscrow
    <3> QED  BY <1>0, <1>1, <2>1, <3>1 DEF CountInv, Queued
  <2> QED  BY <2>5, <2>6, <2>9, <2>10 DEF CountInv
<1> QED  BY <1>6, <1>7

(* Every other step.                                                       *)
LEMMA SlotKeeps ==
  ASSUME TypeOK, Ranges, Records, CountInv, Effect, NEW w \in Workers, SlotStep(w)
  PROVE  CountInv'
<1>1. UNCHANGED <<counted, poisonedCount>>  BY NothingCounted
<1>2. Elsewhere(w) /\ \A v \in Workers \ {w} : kills'[v] = kills[v]
  BY StepElsewhere, KillsElsewhere DEF SlotStep
<1>3. \A v \in Workers : Level(v)'
  BY <1>1, <1>2, OwnLevel, OtherLevels DEF CountInv
<1>4. Issued \subseteq Issued'
  BY DEF Effect, SameTickets, Rejects, Fetches, Takes, Acks, Drops, Deposits, Issued, TypeOK
<1>5. Queued'  BY QueuedStep
<1> QED  BY <1>1, <1>3, <1>4, <1>5 DEF CountInv, PoisonCountedOnce

LEMMA RestKeeps ==
  ASSUME CountInv,
         \/ ScannerNext \/ ParentAbort \/ FallowStart \/ FallowAdvance
         \/ OutsideAlarm \/ UNCHANGED vars
         \/ \E w \in Workers : RecoverRace(w) \/ RecoverFatal(w)
  PROVE  CountInv'
<1>1. UNCHANGED <<pc, ticket, txn, kills, escrow, counted, poisonedCount, readIdx>>
  <2> USE DEF claimVars, parentVars, escrowVars, ledgerVars
  <2>1. CASE ScannerNext
    BY <2>1 DEF ScannerNext, WriteSlot, Commit, ShieldWait, EndOfScan, TailForce, EndOfTail,
         FinalPublish, Finish, EofBlast, scannerFrame
  <2>2. CASE ParentAbort \/ FallowStart \/ FallowAdvance \/ OutsideAlarm \/ UNCHANGED vars
    BY <2>2 DEF ParentAbort, parentFrame, FallowStart, FallowAdvance, reclaimFrame,
         OutsideAlarm, vars
  <2>3. CASE \E w \in Workers : RecoverRace(w) \/ RecoverFatal(w)
    BY <2>3 DEF RecoverRace, RecoverFatal, Stop, parentFrame
  <2> QED  BY <2>1, <2>2, <2>3
<1> QED
  BY <1>1 DEF CountInv, PoisonCountedOnce, Issued, Queued, Level, OnRecord, Threshold

-------------------------------------------------------------------------------
PoisonInv == TicketInv /\ CountInv

LEMMA PoisonStep == PoisonInv /\ [Next]_vars => PoisonInv'
<1> SUFFICES ASSUME PoisonInv, [Next]_vars PROVE PoisonInv'  OBVIOUS
<1>1. TicketInv' /\ CountInv  BY TicketStep DEF PoisonInv
<1>2. TypeOK /\ Ranges /\ Records /\ TicketExclusive  BY DEF PoisonInv, TicketInv
<1>3. Effect  BY <1>2, StepEffect
<1>4. \/ \/ ScannerNext \/ ParentAbort \/ FallowStart \/ FallowAdvance
         \/ OutsideAlarm \/ UNCHANGED vars
         \/ \E w \in Workers : RecoverRace(w) \/ RecoverFatal(w)
      \/ \E w \in Workers : SlotStep(w) \/ Decide(w)
  BY DEF Next, Terminated, SlotStep, InnerStep, EdgeStep
<1>5. CountInv'  BY <1>1, <1>2, <1>3, <1>4, RestKeeps, SlotKeeps, DecideKeeps
<1> QED  BY <1>1, <1>5 DEF PoisonInv

(* A poisoned batch is counted once at most, however often it is claimed,  *)
(* abandoned by a death and retried after the count, so that the halt      *)
(* limit compares batches and not deaths (ring_claim_main).                *)
THEOREM PoisonCorrect == Spec => []PoisonCountedOnce
<1>1. Init => PoisonInv  BY TicketInit, LevelInit DEF PoisonInv
<1>2. PoisonInv => PoisonCountedOnce  BY DEF PoisonInv, CountInv
<1> QED  BY <1>1, <1>2, PoisonStep, PTL DEF Spec

-------------------------------------------------------------------------------
(* Why a pinned slot is never lapped, for every ring size, window and      *)
(* number of workers: tickets run ahead of the window by at most one per   *)
(* worker, and the ring has room for the window and the workers.           *)

LEMMA Division ==
  ASSUME NEW a \in Int, NEW b \in Nat, b > 0 PROVE \E q \in Int : a = b * q + (a % b)
OBVIOUS

(* Two indices less than a ring apart have different slots.                *)
LEMMA SlotsDistinct ==
  ASSUME NEW i \in Int, NEW j \in Int, i < j, j < i + RingSize
  PROVE  Slot(i) # Slot(j)
<1>1. RingSize \in Nat /\ RingSize > 0  BY RingAssumption DEF RingAssumption
<1>2. PICK qi \in Int : i = RingSize * qi + (i % RingSize)  BY <1>1, Division
<1>3. PICK qj \in Int : j = RingSize * qj + (j % RingSize)  BY <1>1, Division
<1>4. SUFFICES ASSUME i % RingSize = j % RingSize PROVE FALSE  BY DEF Slot
<1>5. PICK d \in Int : j - i = RingSize * d
  <2>1. RingSize * qj - RingSize * qi = RingSize * (qj - qi)  BY <1>1
  <2>2. RingSize * qi \in Int /\ RingSize * qj \in Int /\ i % RingSize \in Int  BY <1>1
  <2>3. j - i = RingSize * qj - RingSize * qi  BY <1>2, <1>3, <1>4, <2>2
  <2> QED  BY <2>1, <2>3
<1>6. CASE d <= 0
  <2>1. RingSize * d <= 0  BY <1>1, <1>5, <1>6
  <2> QED  BY <1>5, <2>1
<1>7. CASE d >= 1
  <2>1. RingSize * d >= RingSize  BY <1>1, <1>5, <1>7
  <2> QED  BY <1>1, <1>5, <2>1
<1> QED  BY <1>5, <1>6, <1>7

-----------------------------------------------------------------------------
(* Workers between the ring check and the fetch-and-add.                   *)
Fetching == {w \in Workers : pc[w] = "fetch"}
Size     == Cardinality(Workers)

(* The last slot of the run is written.                                    *)
Closed == spc \in {"finish", "blast", "done"}

(* How far the scanner and the tickets are ahead of the acknowledged       *)
(* prefix while the window is pinned.  A worker that passes the ring check *)
(* sees a slot inside the window, or one an overshot ticket waits for:     *)
(* the latter is taken, so only the former adds to the lead.               *)
Lead ==
  /\ ~Closed => /\ scanIdx <= minIdx + MaxAhead \/ scanIdx <= readIdx
                /\ readIdx + Cardinality(Fetching) <= minIdx + MaxAhead + Size
  /\ Closed => scanIdx <= minIdx + MaxAhead + Size + 1

(* Slots less than a ring behind the scanner hold their batch.             *)
Window == \A i \in 0..scanIdx-1 : scanIdx - RingSize <= i => rangeRing[Slot(i)] = i

PinInv ==
  /\ Window
  /\ \A i \in 0..minIdx-1 : i \in acked
  /\ writeIdx <= scanIdx
  /\ ~unpinned => Lead

LEMMA Numbers ==
  ASSUME TypeOK
  PROVE  /\ scanIdx \in Nat /\ writeIdx \in Nat /\ readIdx \in Nat /\ minIdx \in Nat
         /\ MaxAhead \in Nat /\ MaxAhead > 0 /\ RingSize \in Nat /\ Size \in Nat
         /\ Size > 0 /\ RingSize > MaxAhead + Size
         /\ IsFiniteSet(Workers) /\ IsFiniteSet(Fetching)
         /\ Cardinality(Fetching) \in Nat /\ Cardinality(Fetching) <= Size
<1>1. /\ IsFiniteSet(Workers) /\ Workers # {}
      /\ MaxAhead \in Nat \ {0} /\ RingSize \in Nat \ {0}
      /\ RingSize > MaxAhead + Cardinality(Workers)
  BY RingAssumption DEF RingAssumption
<1>2. IsFiniteSet(Fetching) /\ Cardinality(Fetching) <= Cardinality(Workers)
  BY <1>1, FS_Subset DEF Fetching
<1>3. Cardinality(Workers) \in Nat /\ Cardinality(Fetching) \in Nat
  BY <1>1, <1>2, FS_CardinalityType
<1>4. Cardinality(Workers) # 0  BY <1>1, FS_EmptySet
<1> QED  BY <1>1, <1>2, <1>3, <1>4 DEF Size, TypeOK

(* With the lead bounded, a batch that is not acked is still in its slot.  *)
LEMMA PinnedByLead == ASSUME TypeOK, PinInv PROVE SlotsPinned
<1> SUFFICES ASSUME ~unpinned, NEW i \in 0..scanIdx-1, i \notin acked
             PROVE  rangeRing[Slot(i)] = i
  BY DEF SlotsPinned
<1>1. i >= minIdx  BY Numbers DEF PinInv
<1>2. scanIdx <= minIdx + MaxAhead + Size + 1
  <2>1. CASE Closed  BY <2>1 DEF PinInv, Lead
  <2>2. CASE ~Closed
    <3>1. scanIdx <= minIdx + MaxAhead \/ scanIdx <= readIdx  BY <2>2 DEF PinInv, Lead
    <3>2. readIdx + Cardinality(Fetching) <= minIdx + MaxAhead + Size
      BY <2>2 DEF PinInv, Lead
    <3> QED  BY <3>1, <3>2, Numbers
  <2> QED  BY <2>1, <2>2
<1>3. scanIdx - RingSize <= i  BY <1>1, <1>2, Numbers
<1> QED  BY <1>3 DEF PinInv, Window

-----------------------------------------------------------------------------
(* What the scanner publishes it has written, and it takes nothing back.   *)
LEMMA TargetBound ==
  ASSUME TypeOK, writeIdx <= scanIdx PROVE CommitTarget <= scanIdx /\ writeIdx <= CommitTarget
<1>1. /\ scanIdx \in Nat /\ writeIdx \in Nat /\ readIdx \in Nat
      /\ activeWorkers \in Nat /\ HoldBack \in Nat
  BY RingAssumption DEF RingAssumption, TypeOK
<1> DEFINE W       == IF activeWorkers < 1 THEN 1 ELSE activeWorkers
           pending == IF scanIdx > readIdx THEN scanIdx - readIdx ELSE 0
           linear  == pending \div 2
           inter   == IF linear < scanIdx - writeIdx THEN linear ELSE scanIdx - writeIdx
<1>2. W \in Nat /\ pending \in Nat  BY <1>1
<1>3. linear \in Int  BY <1>2
<1>4. inter \in Int  BY <1>1, <1>3
<1>5. HoldBack * W \in Nat  BY <1>1, <1>2
<1>6. TargetBuffer = IF pending >= BacklogHigh * W THEN HoldBack * W
                     ELSE IF pending > 2 * W /\ inter > W THEN inter - W ELSE 0
  BY DEF TargetBuffer
<1> HIDE DEF W, pending, linear, inter
<1>7. TargetBuffer \in Nat  BY <1>2, <1>4, <1>5, <1>6
<1> QED  BY <1>1, <1>7 DEF CommitTarget

(* Writing the next slot keeps the window.                                 *)
LEMMA WindowWrite ==
  ASSUME TypeOK, Window, scanIdx' = scanIdx + 1,
         rangeRing' = [rangeRing EXCEPT ![Slot(scanIdx)] = scanIdx]
  PROVE  Window'
<1> SUFFICES ASSUME NEW i \in 0..scanIdx'-1, scanIdx' - RingSize <= i
             PROVE  rangeRing'[Slot(i)] = i
  BY DEF Window, Slot
<1>0. rangeRing \in [0..RingSize-1 -> Int] /\ scanIdx \in Int /\ i \in Int
  BY DEF TypeOK
<1>1. /\ rangeRing \in [0..RingSize-1 -> Int] /\ scanIdx \in Int
      /\ Slot(scanIdx) \in 0..RingSize-1 /\ Slot(i) \in 0..RingSize-1
  BY <1>0, SlotInRing
<1>2. CASE i = scanIdx  BY <1>1, <1>2
<1>3. CASE i # scanIdx
  <2>1. i \in 0..scanIdx-1 /\ scanIdx - RingSize <= i /\ i < scanIdx /\ scanIdx < i + RingSize
    <3>1. scanIdx \in Nat /\ RingSize \in Nat  BY Numbers
    <3> QED  BY <1>3, <3>1
  <2>2. rangeRing[Slot(i)] = i  BY <2>1 DEF Window
  <2>3. Slot(i) # Slot(scanIdx)  BY <1>1, <2>1, SlotsDistinct
  <2> QED  BY <1>1, <2>2, <2>3
<1> QED  BY <1>2, <1>3

-----------------------------------------------------------------------------
(* The scanner writes a slot in the window, or one an overshot ticket      *)
(* already waits for; the sentinel is the last slot it writes.             *)
LEMMA PinStepScanner ==
  ASSUME TypeOK, PinInv, ScannerNext PROVE PinInv'
<1>0. /\ Window /\ writeIdx <= scanIdx /\ \A i \in 0..minIdx-1 : i \in acked
      /\ ~unpinned => Lead
  BY DEF PinInv
<1>1. UNCHANGED <<minIdx, acked, readIdx, pc>> /\ Fetching' = Fetching
  BY DEF ScannerNext, WriteSlot, Commit, ShieldWait, EndOfScan, TailForce, EndOfTail,
     FinalPublish, Finish, EofBlast, scannerFrame, fallowVars, ledgerVars, claimVars, Fetching
<1>2. ASSUME UNCHANGED <<scanIdx, rangeRing, unpinned>>, Closed' <=> Closed,
             writeIdx' <= scanIdx
      PROVE  PinInv'
  <2>1. Window'  BY <1>0, <1>2 DEF Window, Slot
  <2>2. Lead => Lead'  BY <1>1, <1>2 DEF Lead, Size
  <2> QED  BY <1>0, <1>1, <1>2, <2>1, <2>2 DEF PinInv
<1>3. scanIdx <= scanIdx /\ scanIdx + 1 <= scanIdx + 1 /\ writeIdx <= scanIdx + 1
  BY <1>0, Numbers
<1>4. CASE WriteSlot
  <2>1. /\ scanIdx' = scanIdx + 1 /\ writeIdx' = writeIdx /\ ~Closed /\ ~Closed'
        /\ rangeRing' = [rangeRing EXCEPT ![Slot(scanIdx)] = scanIdx]
    BY <1>4 DEF WriteSlot, Closed
  <2>2. Window'  BY <1>0, <2>1, WindowWrite
  <2>3. ASSUME ~unpinned' PROVE Lead'
    <3>1. ~unpinned /\ (scanIdx - minIdx >= MaxAhead => ~ShieldUp /\ ~Numa /\ fallowActive)
      BY <1>4, <2>3 DEF WriteSlot
    <3>2. readIdx + Cardinality(Fetching) <= minIdx + MaxAhead + Size
      BY <1>0, <2>1, <3>1 DEF Lead
    <3>3. scanIdx + 1 <= minIdx + MaxAhead \/ scanIdx + 1 <= readIdx
      <4>1. CASE scanIdx - minIdx < MaxAhead  BY <4>1, Numbers
      <4>2. CASE scanIdx - minIdx >= MaxAhead
        <5>1. ~(scanIdx > ShieldLimit /\ scanIdx - ShieldLimit >= MaxAhead)
          BY <3>1, <4>2 DEF ShieldUp
        <5>2. ShieldLimit = minIdx \/ ShieldLimit = readIdx - MaxAhead
          BY <3>1, <4>2 DEF ShieldLimit
        <5> QED  BY <5>1, <5>2, Numbers
      <4> QED  BY <4>1, <4>2, Numbers
    <3> QED  BY <1>1, <2>1, <3>2, <3>3 DEF Lead, Size
  <2> QED  BY <1>0, <1>1, <1>3, <2>1, <2>2, <2>3 DEF PinInv
<1>5. CASE FinalPublish
  <2>1. Closed' /\ ~Closed /\ writeIdx' = scanIdx'  BY <1>5 DEF FinalPublish, Closed
  <2>2. CASE Numa
    <3>1. UNCHANGED <<scanIdx, rangeRing, unpinned>>  BY <1>5, <2>2 DEF FinalPublish
    <3>2. Window'  BY <1>0, <3>1 DEF Window, Slot
    <3>3. ASSUME ~unpinned' PROVE Lead'
      <4>1. Lead  BY <1>0, <3>1, <3>3
      <4>2. scanIdx <= minIdx + MaxAhead + Size + 1
        BY <2>1, <4>1, Numbers DEF Lead
      <4> QED  BY <1>1, <2>1, <3>1, <4>2 DEF Lead, Size
    <3> QED  BY <1>0, <1>1, <1>3, <2>1, <3>1, <3>2, <3>3 DEF PinInv
  <2>3. CASE ~Numa
    <3>1. /\ scanIdx' = scanIdx + 1
          /\ rangeRing' = [rangeRing EXCEPT ![Slot(scanIdx)] = scanIdx]
          /\ ~unpinned' => ~unpinned
      BY <1>5, <2>3 DEF FinalPublish
    <3>2. Window'  BY <1>0, <3>1, WindowWrite
    <3>3. ASSUME ~unpinned' PROVE Lead'
      <4>1. Lead  BY <1>0, <3>1, <3>3
      <4>2. scanIdx + 1 <= minIdx + MaxAhead + Size + 1
        BY <2>1, <4>1, Numbers DEF Lead
      <4> QED  BY <1>1, <2>1, <3>1, <4>2 DEF Lead, Size
    <3> QED  BY <1>0, <1>1, <1>3, <2>1, <3>1, <3>2, <3>3 DEF PinInv
  <2> QED  BY <2>2, <2>3
<1>6. CASE Commit
  <2>1. /\ UNCHANGED <<scanIdx, rangeRing, unpinned>> /\ (Closed' <=> Closed)
        /\ writeIdx' = CommitTarget
    BY <1>6 DEF Commit, Closed
  <2>2. CommitTarget <= scanIdx  BY <1>0, TargetBound
  <2> QED  BY <1>2, <2>1, <2>2
<1>7. CASE ShieldWait \/ EndOfScan \/ TailForce \/ EndOfTail \/ Finish \/ EofBlast
  <2>1. /\ UNCHANGED <<scanIdx, rangeRing, unpinned>> /\ (Closed' <=> Closed)
        /\ writeIdx' = writeIdx \/ writeIdx' = scanIdx
    BY <1>7 DEF ShieldWait, EndOfScan, TailForce, EndOfTail, Finish, EofBlast, Closed
  <2> QED  BY <1>0, <1>2, <1>3, <2>1
<1> QED  BY <1>4, <1>5, <1>6, <1>7 DEF ScannerNext

(* The steps of the others leave the ring alone; only the fetch-and-add    *)
(* moves read_idx, and only the ring check brings a worker before it.      *)
Quiet ==
  /\ UNCHANGED <<scanVars, readIdx, minIdx>>
  /\ acked \subseteq acked' /\ Fetching' \subseteq Fetching

LEMMA QuietInner ==
  ASSUME TypeOK, NEW w \in Workers,
         \/ BeginClaim(w) \/ Rearm(w) \/ DrainPacket(w) \/ DrainEmpty(w)
         \/ EscrowPacket(w) \/ EscrowEmpty(w) \/ EofCheck(w) \/ Spin(w)
         \/ Evaluate(w) \/ Decide(w) \/ BeginCommit(w) \/ SendAck(w) \/ Clear(w)
  PROVE  Quiet
<1>0. pc \in [Workers -> PcLabels]  BY DEF TypeOK
<1>1. UNCHANGED <<scanVars, readIdx, minIdx>> /\ acked \subseteq acked'
  BY DEF BeginClaim, Rearm, DrainPacket, DrainEmpty, EscrowPacket, EscrowEmpty, EofCheck,
     Spin, Evaluate, Decide, BeginCommit, SendAck, Clear, TakePacket,
     workerFrame, claimVars, fallowVars, ledgerVars
<1>2. \E l : l # "fetch" /\ Goto(w, l)
  <2>1. \/ Goto(w, "leaving") \/ Goto(w, "restart") \/ Goto(w, "drain") \/ Goto(w, "ring")
        \/ Goto(w, "eval") \/ Goto(w, "fin") \/ Goto(w, "decide") \/ Goto(w, "overshot")
        \/ Goto(w, "ack") \/ Goto(w, "exec") \/ Goto(w, "commit") \/ Goto(w, "clear")
        \/ Goto(w, "idle")
    BY DEF BeginClaim, Rearm, DrainPacket, DrainEmpty, EscrowPacket, EscrowEmpty, EofCheck,
       Spin, Evaluate, Decide, BeginCommit, SendAck, Clear, TakePacket, PublishTxn,
       AbortClaim
  <2> QED  BY <2>1
<1>3. Fetching' \subseteq Fetching  BY <1>0, <1>2 DEF Fetching, Goto
<1> QED  BY <1>1, <1>3 DEF Quiet

LEMMA QuietOthers ==
  ASSUME TypeOK, NEW w \in Workers,
         \/ EdgeStep(w) \/ Spawn(w) \/ Kill(w) \/ PayloadExits(w) \/ RecoverIdle(w)
         \/ RecoverRecycled(w) \/ RecoverDeposit(w) \/ RecoverSignal(w)
  PROVE  Quiet
<1>0. pc \in [Workers -> PcLabels]  BY DEF TypeOK
<1> USE DEF workerFrame, parentFrame, claimVars, fallowVars, ledgerVars, ProcessGone
<1>1. UNCHANGED <<scanVars, readIdx, minIdx>> /\ acked' = acked
  <2>1. CASE EdgeStep(w)
    BY <2>1 DEF EdgeStep, Register, Exit, BeginWait, EndWait, WaitAborted, Overshot,
         OvershotReady, OvershotAborted, AckFails
  <2>2. CASE ~EdgeStep(w)
    BY <2>2 DEF Spawn, Kill, PayloadExits, RecoverIdle, RecoverRecycled, RecoverDeposit,
         RecoverSignal
  <2> QED  BY <2>1, <2>2
<1>2. \E l : l # "fetch" /\ Goto(w, l)
  <2>1. \/ Goto(w, "idle") \/ Goto(w, "dead") \/ Goto(w, "wait") \/ Goto(w, "ring")
        \/ Goto(w, "leaving") \/ Goto(w, "restart") \/ Goto(w, "overshotWait")
        \/ Goto(w, "decide") \/ Goto(w, "new") \/ Goto(w, "free")
        \/ Goto(w, "astray") \/ Goto(w, "deposited")
    <3>1. CASE EdgeStep(w)
      BY <3>1 DEF EdgeStep, Register, Exit, AckFails, BeginWait, EndWait, WaitAborted,
           OvershotAborted, AbortClaim, Overshot, OvershotReady, DropTicket, PublishTxn
    <3>2. CASE ~EdgeStep(w)
      BY <3>2 DEF Spawn, Kill, PayloadExits, RecoverIdle, RecoverRecycled, RecoverDeposit,
           RecoverSignal, Respawn, FreeSlot
    <3> QED  BY <3>1, <3>2
  <2> QED  BY <2>1
<1>3. Fetching' \subseteq Fetching  BY <1>0, <1>2 DEF Fetching, Goto
<1> QED  BY <1>1, <1>3 DEF Quiet

(* The ring as the others leave it.                                        *)
LEMMA RingKept ==
  ASSUME Window, UNCHANGED scanVars PROVE Window' /\ (Closed' <=> Closed)
BY DEF Window, Closed, scanVars, Slot

LEMMA PinStepQuiet == ASSUME TypeOK, PinInv, Quiet PROVE PinInv'
<1>1. UNCHANGED <<scanIdx, writeIdx, unpinned, readIdx, minIdx>> /\ acked \subseteq acked'
  BY DEF Quiet, scanVars
<1>2. Window' /\ (Closed' <=> Closed)  BY RingKept DEF PinInv, Quiet
<1>3. Cardinality(Fetching') <= Cardinality(Fetching) /\ Cardinality(Fetching') \in Nat
  <2>1. IsFiniteSet(Fetching) /\ Fetching' \subseteq Fetching  BY Numbers DEF Quiet
  <2> QED  BY <2>1, FS_Subset, FS_CardinalityType
<1>4. Lead => Lead'
  <2>1. ~Closed /\ Lead => readIdx + Cardinality(Fetching') <= minIdx + MaxAhead + Size
    BY <1>3, Numbers DEF Lead
  <2> QED  BY <1>1, <1>2, <2>1 DEF Lead, Size
<1> QED  BY <1>1, <1>2, <1>4 DEF PinInv

(* A ring check that lets a worker fetch sees a slot of the window.        *)
LEMMA PinStepCheck ==
  ASSUME TypeOK, PinInv, NEW w \in Workers, RingCheck(w) PROVE PinInv'
<1>0. pc \in [Workers -> PcLabels]  BY DEF TypeOK
<1>1. UNCHANGED <<scanVars, scanIdx, writeIdx, unpinned, readIdx, minIdx, acked>>
  BY DEF RingCheck, workerFrame, scanVars, fallowVars, ledgerVars
<1>2. Window' /\ (Closed' <=> Closed)  BY <1>1, RingKept DEF PinInv
<1>3. CASE readIdx >= writeIdx
  <2>1. Goto(w, "escrow")  BY <1>3, Numbers DEF RingCheck
  <2>2. Fetching' \subseteq Fetching  BY <1>0, <2>1 DEF Fetching, Goto
  <2> QED  BY <1>1, <2>2, PinStepQuiet DEF Quiet
<1>4. CASE readIdx < writeIdx
  <2>1. Fetching' \subseteq Workers  BY DEF Fetching
  <2>2. Cardinality(Fetching') <= Size /\ Cardinality(Fetching') \in Nat
    BY <2>1, Numbers, FS_Subset, FS_CardinalityType DEF Size
  <2>3. ASSUME ~unpinned PROVE Lead'
    <3>1. Lead /\ readIdx < scanIdx  BY <1>4, <2>3, Numbers DEF PinInv
    <3>2. ~Closed => readIdx + Cardinality(Fetching') <= minIdx + MaxAhead + Size
      BY <2>2, <3>1, Numbers DEF Lead
    <3> QED  BY <1>1, <1>2, <3>1, <3>2 DEF Lead, Size
  <2> QED  BY <1>1, <1>2, <2>3 DEF PinInv
<1> QED  BY <1>3, <1>4, Numbers

(* The ticket of a fetch was accounted for at the check.                   *)
LEMMA PinStepFetch ==
  ASSUME TypeOK, PinInv, NEW w \in Workers, FetchAdd(w) PROVE PinInv'
<1>0. pc \in [Workers -> PcLabels]  BY DEF TypeOK
<1>1. /\ UNCHANGED <<scanVars, scanIdx, writeIdx, unpinned, minIdx, acked>>
      /\ readIdx' = readIdx + 1
  BY DEF FetchAdd, workerFrame, scanVars, fallowVars, ledgerVars
<1>2. Window' /\ (Closed' <=> Closed)  BY <1>1, RingKept DEF PinInv
<1>3. w \in Fetching /\ Fetching' = Fetching \ {w}
  BY <1>0 DEF FetchAdd, Fetching, Goto
<1>4. Cardinality(Fetching') = Cardinality(Fetching) - 1
  BY <1>3, Numbers, FS_RemoveElement
<1>5. Lead => Lead'
  <2>1. ~Closed /\ Lead => /\ readIdx + 1 + Cardinality(Fetching') <= minIdx + MaxAhead + Size
                           /\ scanIdx <= minIdx + MaxAhead \/ scanIdx <= readIdx + 1
    BY <1>4, Numbers DEF Lead
  <2> QED  BY <1>1, <1>2, <2>1 DEF Lead, Size
<1> QED  BY <1>1, <1>2, <1>5 DEF PinInv

(* The reclaimer moves the window over acknowledged batches only.          *)
LEMMA PinStepFallow == ASSUME TypeOK, PinInv, FallowAdvance PROVE PinInv'
<1>1. /\ UNCHANGED <<scanVars, scanIdx, writeIdx, unpinned, readIdx, pc, acked>>
      /\ minIdx' = minIdx + 1 /\ minIdx \in acked
  BY DEF FallowAdvance, reclaimFrame, scanVars, claimVars, ledgerVars
<1>2. Window' /\ (Closed' <=> Closed)  BY <1>1, RingKept DEF PinInv
<1>3. \A i \in 0..minIdx'-1 : i \in acked'
  <2> SUFFICES ASSUME NEW i \in 0..minIdx'-1 PROVE i \in acked  BY <1>1
  <2>1. i = minIdx \/ i \in 0..minIdx-1  BY <1>1, Numbers
  <2> QED  BY <1>1, <2>1 DEF PinInv
<1>4. Lead => Lead'
  <2>1. Fetching' = Fetching  BY <1>1 DEF Fetching
  <2>2. /\ scanIdx <= minIdx + MaxAhead => scanIdx <= minIdx + 1 + MaxAhead
        /\ readIdx + Cardinality(Fetching) <= minIdx + MaxAhead + Size
             => readIdx + Cardinality(Fetching) <= minIdx + 1 + MaxAhead + Size
        /\ scanIdx <= minIdx + MaxAhead + Size + 1
             => scanIdx <= minIdx + 1 + MaxAhead + Size + 1
    BY Numbers
  <2> QED  BY <1>1, <1>2, <2>1, <2>2 DEF Lead, Size
<1> QED  BY <1>1, <1>2, <1>3, <1>4 DEF PinInv

LEMMA PinStep == ASSUME TypeOK, PinInv, [Next]_vars PROVE PinInv'
<1>1. CASE \/ ParentAbort \/ FallowStart \/ OutsideAlarm \/ UNCHANGED vars
           \/ \E w \in Workers : RecoverRace(w) \/ RecoverFatal(w)
  <2> USE DEF claimVars, fallowVars, ledgerVars
  <2>1. UNCHANGED <<scanVars, readIdx, minIdx, acked, pc>>
    <3>1. CASE ParentAbort \/ FallowStart \/ OutsideAlarm \/ UNCHANGED vars
      BY <3>1 DEF ParentAbort, parentFrame, FallowStart, reclaimFrame, OutsideAlarm, vars
    <3>2. CASE \E w \in Workers : RecoverRace(w) \/ RecoverFatal(w)
      BY <3>2 DEF RecoverRace, RecoverFatal, Stop, parentFrame
    <3> QED  BY <1>1, <3>1, <3>2
  <2>2. Quiet  BY <2>1 DEF Quiet, Fetching
  <2> QED  BY <2>2, PinStepQuiet
<1>2. CASE ScannerNext  BY <1>2, PinStepScanner
<1>3. CASE FallowAdvance  BY <1>3, PinStepFallow
<1>4. ASSUME NEW w \in Workers,
             \/ InnerStep(w) \/ EdgeStep(w)
             \/ Spawn(w) \/ Kill(w) \/ PayloadExits(w) \/ RecoverIdle(w)
             \/ RecoverRecycled(w) \/ RecoverDeposit(w) \/ RecoverSignal(w)
      PROVE  PinInv'
  BY <1>4, QuietInner, QuietOthers, PinStepQuiet, PinStepCheck, PinStepFetch DEF InnerStep
<1> QED  BY <1>1, <1>2, <1>3, <1>4 DEF Next, Terminated, InnerStep, EdgeStep

LEMMA PinInit == Init => PinInv
<1> SUFFICES ASSUME Init PROVE PinInv  OBVIOUS
<1>1. /\ scanIdx = 0 /\ writeIdx = 0 /\ readIdx = 0 /\ minIdx = 0 /\ ~Closed
      /\ Fetching = {}
  BY DEF Init, Closed, Fetching
<1>2. Cardinality(Fetching) = 0  BY <1>1, FS_EmptySet
<1>3. MaxAhead \in Nat /\ Size \in Nat  BY TypeInit, Numbers
<1> QED  BY <1>1, <1>2, <1>3 DEF PinInv, Window, Lead

(* While the reclaimer pins the window, no slot of a batch that is not     *)
(* acked is ever written over, for any ring with room for the window and   *)
(* one overshot ticket per worker: the shield of UNIFIED_SCANNER_FLUSH may *)
(* be dragged along by claims without harm.                                *)
THEOREM PinnedCorrect == Spec => []SlotsPinned
<1>1. TypeOK /\ PinInv /\ [Next]_vars => PinInv'  BY PinStep
<1>2. TypeOK /\ PinInv => SlotsPinned  BY PinnedByLead
<1> QED  BY <1>1, <1>2, PinInit, TypeCorrect, PTL DEF Spec

-------------------------------------------------------------------------------
(* What a worker finds in its slot, and what a run that stops has done.    *)
(*                                                                         *)
(* While the window is pinned the stamp that recovery compares stays what  *)
(* the record says, and a worker leaves on its own only when it has seen   *)
(* the scanner finished and the ring drawn; so what a stopped run has not  *)
(* acked was given up by the worker that held it or lies in the pipe.      *)

(* A worker past evaluation, or one that died over a batch.                *)
Engaged(w) ==
  \/ pc[w] \in {"decide", "exec", "ack", "commit"}
  \/ pc[w] = "dead" /\ txn[w].state = "CLAIMED"

Behind == \A w \in Workers : Engaged(w) => ticket[w] < writeIdx

Stamped == ~unpinned => \A w \in Workers : Engaged(w) => pc[w] = "commit" \/ SlotIntact(w)

Written ==
  /\ spc = "final" /\ ~emergencyAbort => DataBatches <= scanIdx
  /\ Closed => /\ writeIdx = scanIdx
               /\ ~emergencyAbort => DataBatches <= scanIdx
  /\ scannerFinished => Closed

(* A worker that ended its claim loop, and its slot.                       *)
HasLeft(w) ==
  \/ pc[w] \in {"leaving", "free"}
  \/ pc[w] = "dead" /\ txn[w].state = "IDLE" /\ exitZero[w]

Drawn == scannerFinished /\ writeIdx <= readIdx

LeftDrawn == ~emergencyAbort => \A w \in Workers : HasLeft(w) => Drawn

Reasons ==
  \A d \in dropped : /\ d.why = "abort" => emergencyAbort
                     /\ d.why = "recycled" => unpinned

Halted == ppc = "stopped" => emergencyAbort

StopInv == Behind /\ Stamped /\ Written /\ LeftDrawn /\ Reasons /\ Halted

-----------------------------------------------------------------------------
(* The scanner.                                                            *)
LEMMA ScannerAlone ==
  ASSUME TypeOK, PinInv, ScannerNext
  PROVE  /\ UNCHANGED <<pc, ppc, ticket, txn, readIdx, exitZero, dropped, acked, emergencyAbort>>
         /\ writeIdx <= writeIdx' /\ (unpinned => unpinned')
<1>0. writeIdx <= scanIdx /\ writeIdx \in Nat /\ scanIdx \in Nat  BY Numbers DEF PinInv
<1>1. UNCHANGED <<pc, ppc, ticket, txn, readIdx, exitZero, dropped, acked, emergencyAbort>>
  BY DEF ScannerNext, WriteSlot, Commit, ShieldWait, EndOfScan, TailForce, EndOfTail,
     FinalPublish, Finish, EofBlast, scannerFrame, claimVars, parentVars, ledgerVars, lifeVars
<1>2. writeIdx <= writeIdx'
  <2>1. CASE Commit  BY <1>0, <2>1, TargetBound DEF Commit
  <2>2. CASE FinalPublish
    <3>1. scanIdx <= scanIdx' /\ writeIdx' = scanIdx' /\ scanIdx' \in Nat
      BY <1>0, <2>2 DEF FinalPublish
    <3> QED  BY <1>0, <3>1
  <2>3. CASE ~Commit /\ ~FinalPublish
    BY <1>0, <2>3 DEF ScannerNext, WriteSlot, ShieldWait, EndOfScan, TailForce, EndOfTail,
       Finish, EofBlast
  <2> QED  BY <2>1, <2>2, <2>3
<1>3. unpinned => unpinned'
  BY Zenon DEF ScannerNext, WriteSlot, Commit, ShieldWait, EndOfScan, TailForce, EndOfTail,
     FinalPublish, Finish, EofBlast
<1> QED  BY <1>1, <1>2, <1>3

(* A slot the scanner stamps is not that of a batch in somebody's hands.   *)
LEMMA StampKept ==
  ASSUME TicketInv, PinInv, PinInv', Behind, ScannerNext, ~unpinned',
         NEW w \in Workers, Engaged(w), pc[w] # "commit", SlotIntact(w)
  PROVE  SlotIntact(w)'
<1>0. TypeOK /\ Ranges /\ Records /\ TicketExclusive  BY DEF TicketInv
<1>1. UNCHANGED <<txn, minorRing>> => SlotIntact(w)'  BY DEF SlotIntact, Slot
<1>2. txn' = txn  BY <1>0, ScannerAlone
<1>3. CASE WriteSlot
  <2>1. /\ scanIdx' = scanIdx + 1 /\ minIdx' = minIdx /\ readIdx' = readIdx /\ pc' = pc
        /\ minorRing' = [minorRing EXCEPT ![Slot(scanIdx)] = scanIdx]
        /\ ~Closed'
    BY <1>3 DEF WriteSlot, Closed, scannerFrame, fallowVars, claimVars
  <2>2. txn[w].idx = ticket[w] /\ ticket[w] # NoTicket
    BY <1>0 DEF Engaged, Records, Record, Holding
  <2>3. ticket[w] \in Issued /\ ticket[w] \notin acked /\ ticket[w] < writeIdx
    BY <1>0, <2>2 DEF Ranges, TicketExclusive, Held, Behind
  <2>4. ticket[w] \in Nat /\ minIdx <= ticket[w] /\ ticket[w] < scanIdx
    BY <1>0, <2>3, Numbers DEF Issued, PinInv
  <2>5. scanIdx' <= minIdx + MaxAhead + Size
    <3>1. Lead'  BY DEF PinInv
    <3>2. Fetching' = Fetching  BY <2>1 DEF Fetching
    <3>3. \/ scanIdx' <= minIdx + MaxAhead
          \/ /\ scanIdx' <= readIdx
             /\ readIdx + Cardinality(Fetching) <= minIdx + MaxAhead + Size
      BY <2>1, <3>1, <3>2 DEF Lead, Size
    <3> QED  BY <1>0, <2>1, <3>3, Numbers
  <2>6. Slot(ticket[w]) # Slot(scanIdx)
    <3>1. scanIdx < ticket[w] + RingSize /\ scanIdx \in Int /\ ticket[w] \in Int
      BY <1>0, <2>1, <2>4, <2>5, Numbers
    <3> QED  BY <2>4, <3>1, SlotsDistinct
  <2>7. minorRing'[Slot(ticket[w])] = minorRing[Slot(ticket[w])]
    <3>1. /\ minorRing \in [0..RingSize-1 -> Int]
          /\ Slot(scanIdx) \in 0..RingSize-1 /\ Slot(ticket[w]) \in 0..RingSize-1
      <4>1. scanIdx \in Int /\ ticket[w] \in Int  BY <1>0, <2>4 DEF TypeOK
      <4> QED  BY <1>0, <4>1, SlotInRing DEF TypeOK
    <3> QED  BY <2>1, <2>6, <3>1
  <2> QED  BY <1>2, <2>2, <2>7 DEF SlotIntact, Slot
<1>4. CASE ~WriteSlot
  BY <1>1, <1>2, <1>4 DEF ScannerNext, Commit, ShieldWait, EndOfScan, TailForce, EndOfTail,
     FinalPublish, Finish, EofBlast
<1> QED  BY <1>3, <1>4

LEMMA WrittenByScanner ==
  ASSUME TypeOK, PinInv, Written, ScannerNext PROVE Written'
<1>0. scanIdx \in Nat /\ writeIdx \in Nat /\ emergencyAbort' = emergencyAbort /\ DataBatches \in Nat
  BY Numbers, ScannerAlone, RingAssumption DEF RingAssumption, DataBatches
<1>1. DataBatches' = DataBatches  BY DEF DataBatches, TailRuns
<1>2. CASE WriteSlot \/ Commit \/ ShieldWait \/ TailForce
  <2>1. spc' \notin {"final", "finish", "blast", "done"} /\ ~Closed /\ scannerFinished' = scannerFinished
    BY <1>2 DEF WriteSlot, Commit, ShieldWait, TailForce, Closed
  <2> QED  BY <2>1 DEF Written, Closed
<1>3. CASE EndOfScan \/ EndOfTail
  <2>1. /\ UNCHANGED <<scanIdx, scannerFinished>> /\ spc' \in {"final", "tailForce"} /\ ~Closed
        /\ spc' = "final" /\ ~emergencyAbort => scanIdx = DataBatches
    BY <1>3, RingAssumption DEF RingAssumption, EndOfScan, EndOfTail, Closed, DataBatches,
       TailRuns, scannerFrame
  <2> QED  BY <1>0, <1>1, <2>1 DEF Written, Closed
<1>4. CASE FinalPublish
  <2>1. /\ spc = "final" /\ spc' = "finish" /\ scannerFinished' = scannerFinished
        /\ writeIdx' = scanIdx' /\ scanIdx' \in {scanIdx, scanIdx + 1}
    BY <1>4 DEF FinalPublish
  <2> QED  BY <1>0, <1>1, <2>1 DEF Written, Closed
<1>5. CASE Finish \/ EofBlast
  <2>1. Closed /\ Closed' /\ UNCHANGED <<scanIdx, writeIdx>> /\ spc' # "final"
    BY <1>5 DEF Finish, EofBlast, Closed
  <2> QED  BY <1>0, <1>1, <2>1 DEF Written
<1> QED  BY <1>2, <1>3, <1>4, <1>5 DEF ScannerNext

LEMMA StopScanner ==
  ASSUME TicketInv, TypeOK', PinInv, PinInv', StopInv, ScannerNext PROVE StopInv'
<1>0. TypeOK /\ Behind /\ Stamped /\ Written /\ LeftDrawn /\ Reasons /\ Halted
  BY DEF TicketInv, StopInv
<1>1. /\ UNCHANGED <<pc, ppc, ticket, txn, readIdx, exitZero, dropped, acked, emergencyAbort>>
      /\ writeIdx <= writeIdx' /\ (unpinned => unpinned')
  BY <1>0, ScannerAlone
<1>2. writeIdx \in Nat /\ scanIdx \in Nat /\ ticket \in [Workers -> Int]  BY <1>0 DEF TypeOK
<1>3. writeIdx' \in Nat  BY DEF TypeOK
<1>4. Behind'
  <2> SUFFICES ASSUME NEW w \in Workers, Engaged(w)' PROVE ticket'[w] < writeIdx'
    BY DEF Behind
  <2>1. ticket[w] < writeIdx  BY <1>0, <1>1 DEF Behind, Engaged
  <2> QED  BY <1>1, <1>2, <1>3, <2>1
<1>5. Stamped'
  <2> SUFFICES ASSUME ~unpinned', NEW w \in Workers, Engaged(w)', pc'[w] # "commit"
               PROVE  SlotIntact(w)'
    BY DEF Stamped
  <2>1. Engaged(w) /\ pc[w] # "commit" /\ SlotIntact(w)  BY <1>0, <1>1 DEF Stamped, Engaged
  <2> QED  BY <1>0, <2>1, StampKept
<1>6. Written'  BY <1>0, WrittenByScanner
<1>7. LeftDrawn'
  <2>1. scannerFinished => scannerFinished' /\ writeIdx' = writeIdx
    <3> SUFFICES ASSUME scannerFinished PROVE scannerFinished' /\ writeIdx' = writeIdx  OBVIOUS
    <3>1. Closed  BY <1>0 DEF Written
    <3> QED
      BY <3>1 DEF Closed, ScannerNext, WriteSlot, Commit, ShieldWait, EndOfScan, TailForce,
         EndOfTail, FinalPublish, Finish, EofBlast
  <2> QED  BY <1>0, <1>1, <2>1 DEF LeftDrawn, HasLeft, Drawn
<1>8. Reasons' /\ Halted'  BY <1>0, <1>1 DEF Reasons, Halted
<1> QED  BY <1>4, <1>5, <1>6, <1>7, <1>8 DEF StopInv

-----------------------------------------------------------------------------
(* Steps that concern no slot.                                             *)
LEMMA StopRest ==
  ASSUME StopInv,
         \/ ParentAbort \/ FallowStart \/ FallowAdvance \/ OutsideAlarm \/ UNCHANGED vars
         \/ \E w \in Workers : RecoverRace(w) \/ RecoverFatal(w)
  PROVE  StopInv'
<1>1. /\ UNCHANGED <<scanVars, pc, ticket, txn, readIdx, exitZero, dropped>>
      /\ emergencyAbort => emergencyAbort'
      /\ ppc' = "stopped" => ppc = "stopped" \/ emergencyAbort'
  <2> USE DEF claimVars, ledgerVars, lifeVars, alarmVars, parentVars
  <2>1. CASE ParentAbort \/ FallowStart \/ FallowAdvance \/ OutsideAlarm \/ UNCHANGED vars
    BY <2>1 DEF ParentAbort, parentFrame, FallowStart, FallowAdvance, reclaimFrame,
       OutsideAlarm, PullFireAlarm, vars
  <2>2. CASE \E w \in Workers : RecoverRace(w) \/ RecoverFatal(w)
    BY <2>2 DEF RecoverRace, RecoverFatal, Stop, PullFireAlarm, parentFrame
  <2> QED  BY <2>1, <2>2
<1>2. UNCHANGED <<spc, scanIdx, writeIdx, minorRing, scannerFinished, unpinned>>
  BY <1>1 DEF scanVars
<1>3. Behind'  BY <1>1, <1>2 DEF StopInv, Behind, Engaged
<1>4. Stamped'  BY <1>1, <1>2 DEF StopInv, Stamped, Engaged, SlotIntact, Slot
<1>5. Written'  BY <1>1, <1>2 DEF StopInv, Written, Closed, DataBatches, TailRuns
<1>6. LeftDrawn'  BY <1>1, <1>2 DEF StopInv, LeftDrawn, HasLeft, Drawn
<1>7. Reasons' /\ Halted'  BY <1>1, <1>2 DEF StopInv, Reasons, Halted
<1> QED  BY <1>3, <1>4, <1>5, <1>6, <1>7 DEF StopInv

-----------------------------------------------------------------------------
(* Steps of one slot.                                                      *)
LEMMA SlotFrame ==
  ASSUME TypeOK, NEW w \in Workers, SlotStep(w) \/ Decide(w)
  PROVE  /\ UNCHANGED scanVars /\ readIdx <= readIdx'
         /\ emergencyAbort => emergencyAbort'
         /\ ppc' = "stopped" => ppc = "stopped"
         /\ \A v \in Workers \ {w} : exitZero'[v] = exitZero[v]
<1>0. readIdx \in Nat /\ exitZero \in [Workers -> BOOLEAN]  BY DEF TypeOK
<1> USE DEF workerFrame, parentFrame, claimVars, parentVars, alarmVars, PullFireAlarm, PollAgain
<1>1. CASE InnerStep(w)
  BY <1>0, <1>1 DEF InnerStep, BeginClaim, Rearm, DrainPacket, DrainEmpty, RingCheck, FetchAdd,
     EscrowPacket, EscrowEmpty, EofCheck, Spin, Evaluate, Decide, BeginCommit, SendAck, Clear
<1>2. CASE EdgeStep(w)
  BY <1>0, <1>2 DEF EdgeStep, Register, Exit, AckFails, ProcessGone, BeginWait, EndWait,
     WaitAborted, OvershotAborted, Overshot, OvershotReady
<1>3. CASE Spawn(w) \/ Kill(w) \/ PayloadExits(w)
  BY <1>0, <1>3 DEF Spawn, Kill, PayloadExits, ProcessGone
<1>4. CASE RecoverIdle(w)
  <2>1. Respawn(w) \/ FreeSlot(w)  BY <1>4 DEF RecoverIdle
  <2>2. exitZero' = [exitZero EXCEPT ![w] = FALSE]  BY <2>1 DEF Respawn, FreeSlot
  <2> QED  BY <1>0, <1>4, <2>2 DEF RecoverIdle
<1>5. CASE RecoverRecycled(w) \/ RecoverDeposit(w) \/ RecoverSignal(w)
  BY <1>0, <1>5 DEF RecoverRecycled, RecoverDeposit, RecoverSignal, Respawn
<1> QED  BY <1>1, <1>2, <1>3, <1>4, <1>5 DEF SlotStep, InnerStep

(* What brings a worker past evaluation, or to the end of its loop.        *)
Publishes(w) ==
  /\ Published(w) /\ PublishTxn(w) /\ ticket' = ticket

Carries(w) ==
  /\ Engaged(w) /\ ticket' = ticket
  /\ pc'[w] = "commit" \/ (pc[w] # "commit" /\ txn' = txn)

LEMMA OwnEngaged ==
  ASSUME TypeOK, Records, NEW w \in Workers, SlotStep(w) \/ Decide(w), Engaged(w)'
  PROVE  Publishes(w) \/ Carries(w)
<1>0. pc \in [Workers -> PcLabels] /\ txn \in [Workers -> Txn]  BY DEF TypeOK
<1>1. Record(w) /\ pc[w] \in PcLabels  BY <1>0 DEF Records
<1> USE DEF Goto, claimVars
<1>2. CASE Evaluate(w) \/ OvershotReady(w)
  <2>1. CASE Published(w)
    BY <1>2, <2>1 DEF Evaluate, OvershotReady, Publishes
  <2>2. CASE ~Published(w)
    <3>1. pc'[w] \in {"overshot", "restart"}
      BY <1>0, <1>2, <2>2 DEF Evaluate, OvershotReady, DropTicket
    <3> QED  BY <3>1 DEF Engaged
  <2> QED  BY <2>1, <2>2
<1>3. CASE Decide(w) \/ BeginCommit(w)
  BY <1>0, <1>3 DEF Decide, BeginCommit, Carries, Engaged
<1>4. CASE Exit(w) \/ AckFails(w) \/ PayloadExits(w) \/ Kill(w)
  <2>1. /\ pc'[w] = "dead" /\ UNCHANGED <<ticket, txn>>
        /\ pc[w] \notin {"unspawned", "dead", "deposited", "free", "astray"}
    BY <1>0, <1>4 DEF Exit, AckFails, PayloadExits, Kill, Alive, ProcessGone
  <2>2. txn[w].state = "CLAIMED"  BY <2>1 DEF Engaged
  <2>3. pc[w] \in {"decide", "exec", "ack"}
    BY <1>1, <2>1, <2>2 DEF Record, Claiming, PcLabels
  <2> QED  BY <2>1, <2>3 DEF Carries, Engaged
<1>5. CASE ~(\/ Evaluate(w) \/ OvershotReady(w) \/ Decide(w) \/ BeginCommit(w) \/ Exit(w)
             \/ AckFails(w) \/ PayloadExits(w) \/ Kill(w))
  <2>1. \E l \in PcLabels \ {"decide", "exec", "ack", "commit", "dead"} : pc'[w] = l
    <3>1. CASE InnerStep(w)
      BY <1>0, <1>5, <3>1 DEF InnerStep, BeginClaim, Rearm, DrainPacket, DrainEmpty, RingCheck,
         FetchAdd, EscrowPacket, EscrowEmpty, EofCheck, Spin, SendAck, Clear, TakePacket,
         AbortClaim, PcLabels
    <3>2. CASE EdgeStep(w)
      BY <1>0, <1>5, <3>2 DEF EdgeStep, Register, BeginWait, EndWait, WaitAborted,
         OvershotAborted, Overshot, AbortClaim, DropTicket, PcLabels
    <3>3. CASE Spawn(w) \/ RecoverIdle(w) \/ RecoverRecycled(w) \/ RecoverDeposit(w) \/ RecoverSignal(w)
      BY <1>0, <3>3 DEF Spawn, RecoverIdle, RecoverRecycled, RecoverDeposit, RecoverSignal,
         Respawn, FreeSlot, PcLabels
    <3> QED  BY <1>5, <3>1, <3>2, <3>3 DEF SlotStep
  <2> QED  BY <2>1 DEF Engaged
<1> QED  BY <1>2, <1>3, <1>4, <1>5

LEMMA OwnLeaving ==
  ASSUME TypeOK, Records, LeftDrawn, NEW w \in Workers, SlotStep(w) \/ Decide(w),
         HasLeft(w)', ~emergencyAbort'
  PROVE  Drawn
<1>0. /\ pc \in [Workers -> PcLabels] /\ txn \in [Workers -> Txn]
      /\ exitZero \in [Workers -> BOOLEAN] /\ ~emergencyAbort
  BY SlotFrame DEF TypeOK
<1>1. Record(w) /\ (HasLeft(w) => Drawn)  BY <1>0 DEF Records, LeftDrawn
<1>2. writeIdx \in Nat /\ readIdx \in Nat  BY DEF TypeOK
<1> USE DEF Goto
<1>3. CASE BeginClaim(w) \/ EofCheck(w) \/ WaitAborted(w) \/ OvershotAborted(w) \/ AckFails(w)
  <2>1. CASE BeginClaim(w) \/ WaitAborted(w) \/ OvershotAborted(w) \/ AckFails(w)
    <3>1. pc'[w] = "restart"
      BY <1>0, <2>1 DEF BeginClaim, WaitAborted, OvershotAborted, AckFails, PullFireAlarm
    <3> QED  BY <3>1 DEF HasLeft
  <2>2. CASE EofCheck(w)
    <3>1. NothingLeft \/ pc'[w] = "ring"  BY <1>0, <2>2 DEF EofCheck
    <3> QED  BY <1>2, <2>2, <3>1 DEF EofCheck, NothingLeft, HasLeft, Drawn
  <2> QED  BY <1>3, <2>1, <2>2
<1>4. CASE Exit(w)
  <2>1. HasLeft(w)  BY <1>4 DEF Exit, HasLeft
  <2> QED  BY <1>1, <2>1
<1>5. CASE Kill(w)
  BY <1>0, <1>5 DEF Kill, ProcessGone, HasLeft
<1>6. CASE PayloadExits(w)
  BY <1>0, <1>1, <1>6 DEF PayloadExits, ProcessGone, HasLeft, Record
<1>7. CASE RecoverIdle(w)
  <2>1. CASE exitZero[w]
    <3>1. HasLeft(w)  BY <1>7, <2>1 DEF RecoverIdle, HasLeft
    <3> QED  BY <1>1, <3>1
  <2>2. CASE ~exitZero[w] /\ Drained
    BY <1>2, <2>2 DEF Drained, Drawn
  <2>3. CASE ~exitZero[w] /\ ~Drained
    <3>1. pc'[w] \in {"new", "astray"}
      BY <1>0, <1>7, <2>3 DEF RecoverIdle, Respawn, FreeSlot
    <3> QED  BY <3>1 DEF HasLeft
  <2> QED  BY <2>1, <2>2, <2>3
<1>8. CASE ~(\/ BeginClaim(w) \/ EofCheck(w) \/ WaitAborted(w) \/ OvershotAborted(w) \/ AckFails(w)
             \/ Exit(w) \/ Kill(w) \/ PayloadExits(w) \/ RecoverIdle(w))
  <2>1. \E l \in PcLabels \ {"leaving", "free", "dead"} : pc'[w] = l
    <3>1. CASE InnerStep(w)
      BY <1>0, <1>8, <3>1 DEF InnerStep, Rearm, DrainPacket, DrainEmpty, RingCheck,
         FetchAdd, EscrowPacket, EscrowEmpty, Spin, Evaluate, Decide, BeginCommit, SendAck,
         Clear, TakePacket, PublishTxn, PcLabels
    <3>2. CASE EdgeStep(w)
      BY <1>0, <1>8, <3>2 DEF EdgeStep, Register, BeginWait, EndWait, Overshot, OvershotReady,
         PublishTxn, DropTicket, PcLabels
    <3>3. CASE Spawn(w) \/ RecoverRecycled(w) \/ RecoverDeposit(w) \/ RecoverSignal(w)
      BY <1>0, <3>3 DEF Spawn, RecoverRecycled, RecoverDeposit, RecoverSignal, Respawn, PcLabels
    <3> QED  BY <1>8, <3>1, <3>2, <3>3 DEF SlotStep, InnerStep
  <2> QED  BY <2>1 DEF HasLeft
<1> QED  BY <1>3, <1>4, <1>5, <1>6, <1>7, <1>8

(* Why a step lets go of a ticket.                                         *)
LEMMA OwnReason ==
  ASSUME TypeOK, Records, Stamped, NEW w \in Workers, SlotStep(w) \/ Decide(w),
         NEW d \in dropped', d \notin dropped
  PROVE  (d.why = "abort" => emergencyAbort) /\ (d.why = "recycled" => unpinned)
<1> USE DEF ledgerVars, parentFrame
<1>1. CASE DrainPacket(w) \/ EscrowPacket(w)
  <2>1. \E i : d = [idx |-> i, why |-> "stale"]
    BY <1>1 DEF DrainPacket, EscrowPacket, TakePacket, Abandon
  <2> QED  BY <2>1
<1>2. CASE Overshot(w) \/ OvershotReady(w)
  <2>1. \E i : d = [idx |-> i, why |-> "overshoot"]
    BY <1>2 DEF Overshot, OvershotReady, DropTicket, Abandon
  <2> QED  BY <2>1
<1>3. CASE OvershotAborted(w)
  <2>1. emergencyAbort /\ d = [idx |-> ticket[w], why |-> "abort"]
    BY <1>3 DEF OvershotAborted, Abandon
  <2> QED  BY <2>1
<1>4. CASE RecoverRecycled(w)
  <2>1. Engaged(w) /\ pc[w] # "commit" /\ ~SlotIntact(w)
    BY <1>4 DEF RecoverRecycled, ClaimedDeath, Engaged
  <2>2. unpinned  BY <2>1 DEF Stamped
  <2>3. d.why = "recycled"  BY <1>4 DEF RecoverRecycled
  <2> QED  BY <2>2, <2>3
<1>5. CASE ~(\/ DrainPacket(w) \/ EscrowPacket(w) \/ Overshot(w) \/ OvershotReady(w)
             \/ OvershotAborted(w) \/ RecoverRecycled(w))
  <2>1. dropped' = dropped
    <3>1. CASE InnerStep(w)
      BY <1>5, <3>1 DEF InnerStep, BeginClaim, Rearm, DrainEmpty, RingCheck, FetchAdd, EscrowEmpty,
         EofCheck, Spin, Evaluate, Decide, BeginCommit, SendAck, Clear
    <3>2. CASE EdgeStep(w)
      BY <1>5, <3>2 DEF EdgeStep, Register, Exit, AckFails, BeginWait, EndWait, WaitAborted
    <3>3. CASE Spawn(w) \/ Kill(w) \/ PayloadExits(w)
      BY <3>3 DEF Spawn, Kill, PayloadExits
    <3>4. CASE RecoverIdle(w) \/ RecoverDeposit(w) \/ RecoverSignal(w)
      BY <3>4 DEF RecoverIdle, RecoverDeposit, RecoverSignal
    <3> QED  BY <1>5, <3>1, <3>2, <3>3, <3>4 DEF SlotStep, InnerStep
  <2> QED  BY <2>1
<1> QED  BY <1>1, <1>2, <1>3, <1>4, <1>5

LEMMA StopSlot ==
  ASSUME TicketInv, StopInv, NEW w \in Workers, SlotStep(w) \/ Decide(w) PROVE StopInv'
<1>0. /\ TypeOK /\ Records /\ Behind /\ Stamped /\ Written /\ LeftDrawn /\ Reasons /\ Halted
      /\ writeIdx \in Nat /\ readIdx \in Nat /\ ticket \in [Workers -> Int]
      /\ pc \in [Workers -> PcLabels] /\ txn \in [Workers -> Txn] /\ minorRing \in [0..RingSize-1 -> Int]
  BY DEF TicketInv, StopInv, TypeOK
<1>1. /\ UNCHANGED scanVars /\ readIdx <= readIdx' /\ (emergencyAbort => emergencyAbort')
      /\ (ppc' = "stopped" => ppc = "stopped")
      /\ \A v \in Workers \ {w} : exitZero'[v] = exitZero[v]
  BY <1>0, SlotFrame
<1>2. UNCHANGED <<spc, scanIdx, writeIdx, minorRing, scannerFinished, unpinned>>
  BY <1>1 DEF scanVars
<1>3. \A v \in Workers \ {w} : pc'[v] = pc[v] /\ ticket'[v] = ticket[v] /\ txn'[v] = txn[v]
  <2>1. Elsewhere(w)  BY <1>0, StepElsewhere DEF SlotStep, InnerStep
  <2> QED  BY <2>1 DEF Elsewhere
<1>4. Behind'
  <2> SUFFICES ASSUME NEW v \in Workers, Engaged(v)' PROVE ticket'[v] < writeIdx'
    BY DEF Behind
  <2>1. CASE v = w
    <3>1. Publishes(w) \/ Carries(w)  BY <1>0, <2>1, OwnEngaged
    <3> QED  BY <1>0, <1>2, <2>1, <3>1 DEF Publishes, Published, Carries, Behind
  <2>2. CASE v # w
    BY <1>0, <1>2, <1>3, <2>2 DEF Behind, Engaged
  <2> QED  BY <2>1, <2>2
<1>5. Stamped'
  <2> SUFFICES ASSUME ~unpinned, NEW v \in Workers, Engaged(v)', pc'[v] # "commit"
               PROVE  SlotIntact(v)'
    BY <1>2 DEF Stamped
  <2>1. CASE v = w
    <3>1. CASE Publishes(w)
      BY <1>0, <1>2, <2>1, <3>1 DEF Publishes, PublishTxn, SlotIntact, Slot
    <3>2. CASE Carries(w)
      <4>1. SlotIntact(w) /\ txn' = txn  BY <1>0, <2>1, <3>2 DEF Carries, Stamped
      <4> QED  BY <1>2, <2>1, <4>1 DEF SlotIntact, Slot
    <3> QED  BY <1>0, <2>1, <3>1, <3>2, OwnEngaged
  <2>2. CASE v # w
    <3>1. SlotIntact(v)  BY <1>0, <1>3, <2>2 DEF Stamped, Engaged
    <3> QED  BY <1>2, <1>3, <2>2, <3>1 DEF SlotIntact, Slot
  <2> QED  BY <2>1, <2>2
<1>6. Written'  BY <1>0, <1>1, <1>2 DEF Written, Closed, DataBatches, TailRuns
<1>7. LeftDrawn'
  <2> SUFFICES ASSUME ~emergencyAbort', NEW v \in Workers, HasLeft(v)' PROVE Drawn'
    BY DEF LeftDrawn
  <2>1. Drawn
    <3>1. CASE v = w  BY <1>0, <3>1, OwnLeaving
    <3>2. CASE v # w
      <4>1. HasLeft(v) /\ ~emergencyAbort  BY <1>1, <1>3, <3>2 DEF HasLeft
      <4> QED  BY <1>0, <4>1 DEF LeftDrawn
    <3> QED  BY <3>1, <3>2
  <2>2. readIdx' \in Nat
    <3>1. Effect  BY <1>0, StepEffect DEF Next, SlotStep, InnerStep, EdgeStep
    <3> QED  BY <1>0, <3>1 DEF Effect, SameTickets, Fetches, Takes, Rejects, Acks, Drops, Deposits
  <2> QED  BY <1>0, <1>1, <1>2, <2>1, <2>2 DEF Drawn
<1>8. Reasons'
  <2> SUFFICES ASSUME NEW d \in dropped'
               PROVE  (d.why = "abort" => emergencyAbort') /\ (d.why = "recycled" => unpinned')
    BY DEF Reasons
  <2>1. CASE d \in dropped  BY <1>0, <1>1, <1>2, <2>1 DEF Reasons
  <2>2. CASE d \notin dropped  BY <1>0, <1>1, <1>2, <2>2, OwnReason
  <2> QED  BY <2>1, <2>2
<1>9. Halted'  BY <1>0, <1>1 DEF Halted
<1> QED  BY <1>4, <1>5, <1>6, <1>7, <1>8, <1>9 DEF StopInv

-----------------------------------------------------------------------------
WholeInv == TicketInv /\ PinInv /\ StopInv

LEMMA WholeInit == Init => WholeInv
<1> SUFFICES ASSUME Init PROVE StopInv  BY TicketInit, PinInit DEF WholeInv
<1>1. /\ \A w \in Workers : pc[w] = "unspawned"
      /\ spc = "scan" /\ scannerFinished = FALSE /\ dropped = {} /\ ppc = "poll"
  BY DEF Init
<1> QED  BY <1>1 DEF StopInv, Behind, Stamped, Engaged, Written, Closed, LeftDrawn, HasLeft, Reasons,
   Halted

LEMMA WholeStep == WholeInv /\ [Next]_vars => WholeInv'
<1> SUFFICES ASSUME WholeInv, [Next]_vars PROVE WholeInv'  OBVIOUS
<1>1. TicketInv /\ PinInv /\ StopInv /\ TypeOK  BY DEF WholeInv, TicketInv
<1>2. TicketInv' /\ TypeOK'  BY <1>1, TicketStep DEF TicketInv
<1>3. PinInv'  BY <1>1, PinStep
<1>4. StopInv'
  <2>1. CASE ScannerNext  BY <1>1, <1>2, <1>3, <2>1, StopScanner
  <2>2. CASE \/ ParentAbort \/ FallowStart \/ FallowAdvance \/ OutsideAlarm \/ UNCHANGED vars
             \/ \E w \in Workers : RecoverRace(w) \/ RecoverFatal(w)
    BY <1>1, <2>2, StopRest
  <2>3. ASSUME NEW w \in Workers, SlotStep(w) \/ Decide(w) PROVE StopInv'
    BY <1>1, <2>3, StopSlot
  <2> QED  BY <2>1, <2>2, <2>3 DEF Next, Terminated, SlotStep, InnerStep, EdgeStep
<1> QED  BY <1>2, <1>3, <1>4 DEF WholeInv

LEMMA WholeInvariance == Spec => []WholeInv
BY WholeInit, WholeStep, PTL DEF Spec

(* From its evaluation to its ack a worker finds the bytes of its own      *)
(* batch in its slot, as long as the window is pinned, and in a run that   *)
(* is no longer than the ring whatever the window (populate in             *)
(* do_lockfree_claim, ring_ack_main).                                      *)
THEOREM IntactCorrect == Spec => [](~unpinned \/ scanIdx <= RingSize => ClaimedSlotIntact)
<1>1. ASSUME WholeInv, ~unpinned \/ scanIdx <= RingSize PROVE ClaimedSlotIntact
  <2>0. TypeOK /\ Ranges /\ Records /\ TicketExclusive /\ PinInv /\ Behind
    BY <1>1 DEF WholeInv, TicketInv, StopInv
  <2> SUFFICES ASSUME NEW w \in Workers, pc[w] \in {"decide", "exec", "ack", "commit"}
               PROVE  Published(w) /\ rangeRing[Slot(ticket[w])] = ticket[w]
    BY DEF ClaimedSlotIntact
  <2>1. ticket[w] < writeIdx  BY <2>0 DEF Behind, Engaged
  <2>2. ticket[w] # NoTicket  BY <2>0 DEF Records, Record, Holding
  <2>3. ticket[w] \in Issued /\ ticket[w] \notin acked
    BY <2>0, <2>2 DEF Ranges, TicketExclusive, Held
  <2>4. ticket[w] \in 0..scanIdx-1
    BY <2>0, <2>1, <2>3, Numbers DEF Issued, PinInv
  <2>5. CASE ~unpinned
    <3>1. SlotsPinned  BY <2>0, PinnedByLead
    <3> QED  BY <2>1, <2>3, <2>4, <2>5, <3>1 DEF SlotsPinned, Published
  <2>6. CASE scanIdx <= RingSize
    <3>1. scanIdx - RingSize <= ticket[w]  BY <2>0, <2>4, <2>6, Numbers
    <3> QED  BY <2>0, <2>1, <2>4, <3>1 DEF PinInv, Window, Published
  <2> QED  BY <1>1, <2>5, <2>6
<1> QED  BY <1>1, WholeInvariance, PTL

(* While the window is pinned, recovery takes no orphaned batch for one    *)
(* whose slot was recycled: the stamp it compares (minor_ring) is still    *)
(* that of the batch (ring_recover_worker_core, result 3).                 *)
THEOREM RecycledCorrect == Spec => [](~unpinned => \A d \in dropped : d.why # "recycled")
<1>1. WholeInv => (~unpinned => \A d \in dropped : d.why # "recycled")
  BY DEF WholeInv, StopInv, Reasons
<1> QED  BY <1>1, WholeInvariance, PTL

(* Nobody dropped the ticket of a data batch as overshot or stale, and no  *)
(* packet is left in the pipe.                                             *)
NoneGivenUp ==
  /\ escrow = <<>>
  /\ \A d \in dropped : d.why \in {"overshoot", "stale"} => d.idx \notin 0..DataBatches-1

(* A run that stops without an alarm and with its window pinned has acked  *)
(* every batch, but for those that a worker gave up wrongly (the first     *)
(* overshot path, the packet rejected by an old snapshot) and those in a   *)
(* pipe whose last reader was taken for drained: there is no other way to  *)
(* end early, through all claims, waits, deaths and retries                *)
(* (do_lockfree_claim, ring_recover_worker_core).                          *)
THEOREM ExitCorrect == Spec => [](NoneGivenUp => CompleteExit)
<1>1. ASSUME WholeInv, NoneGivenUp PROVE CompleteExit
  <2>0. TypeOK /\ Records /\ TicketComplete /\ Written /\ LeftDrawn /\ Reasons /\ Halted
    BY <1>1 DEF WholeInv, TicketInv, StopInv
  <2> SUFFICES ASSUME Stopped, ~emergencyAbort, ~unpinned,
                      \A w \in Workers : pc[w] # "astray", NEW i \in 0..DataBatches-1
               PROVE  i \in acked
    BY DEF CompleteExit
  <2>1. /\ spc = "done" /\ \A w \in Workers : pc[w] \in {"unspawned", "free"}
        /\ \E w \in Workers : pc[w] = "free"
    BY <2>0 DEF Stopped, Halted
  <2>2. Drawn  BY <2>0, <2>1 DEF LeftDrawn, HasLeft
  <2>3. writeIdx = scanIdx /\ DataBatches <= scanIdx  BY <2>0, <2>1 DEF Written, Closed
  <2>4. i \in 0..readIdx-1
    <3>1. DataBatches \in Nat  BY RingAssumption DEF RingAssumption, DataBatches
    <3> QED  BY <2>0, <2>2, <2>3, <3>1, Numbers DEF Drawn
  <2>5. \A w \in Workers : ticket[w] = NoTicket  BY <2>0, <2>1 DEF Records, Record, Holding
  <2>6. ~Held(i) /\ ~InEscrow(i)
    BY <1>1, <2>4, <2>5 DEF Held, InEscrow, NoneGivenUp, NoTicket
  <2>7. ~Abandoned(i)
    <3> SUFFICES ASSUME NEW d \in dropped, d.idx = i PROVE FALSE  BY DEF Abandoned
    <3>1. d.why \in {"overshoot", "stale", "recycled", "abort"}  BY <2>0 DEF TypeOK, DropReasons
    <3>2. d.why \notin {"recycled", "abort"}  BY <2>0 DEF Reasons
    <3> QED  BY <1>1, <3>1, <3>2 DEF NoneGivenUp
  <2> QED  BY <2>0, <2>4, <2>6, <2>7 DEF TicketComplete
<1> QED  BY <1>1, WholeInvariance, PTL

=============================================================================
