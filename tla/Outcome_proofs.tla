---------------------------- MODULE Outcome_proofs ----------------------------
(***************************************************************************)
(* What becomes of a batch, for any number of workers, batches, kills and  *)
(* payload failures and any retry limit: at most one outcome reaches the   *)
(* caller, a run that reports success has delivered one for every batch    *)
(* unless a packet is left in the escrow pipe, and its two counters are    *)
(* exact.                                                                  *)
(***************************************************************************)
EXTENDS Publication_proofs, FiniteSetTheorems

(* The types that Publication_proofs does without.                         *)
Options == setup \in Setups /\ policy \in Policies /\ supervise \in BOOLEAN

Numbers ==
  /\ written \in 0 .. Sentinel + 1 /\ nextIdx \in 0 .. written
  /\ poisonedCount \in Nat /\ committed \in Nat

Flags ==
  /\ pending \in BOOLEAN /\ alarm \in BOOLEAN /\ drainUp \in BOOLEAN
  /\ outcome \in {"running", "ok", "bad"}
  /\ count \in [Workers -> Nat] /\ incarn \in [Workers -> Nat]
  /\ exitZero \in [Workers -> BOOLEAN] /\ drain \in [Workers -> BOOLEAN]

(* The batches and kill counts that packets, workers and records name.     *)
Items ==
  /\ \A i \in 1 .. Len(escrow) : escrow[i].b \in 0 .. Sentinel /\ escrow[i].kills \in Nat
  /\ \A w \in Workers :
       /\ hold[w].b \in -1 .. Sentinel /\ hold[w].kills \in Nat
       /\ txn[w].b \in -1 .. Sentinel /\ txn[w].kills \in Nat
       /\ \A i \in 1 .. Len(memfd[w]) : memfd[w][i].b \in 0 .. Sentinel

LEMMA OptionsKept ==
  ASSUME [Next]_vars PROVE UNCHANGED <<setup, policy, supervise>>
<1>. USE DEF optionVars
<1>1. CASE \E w \in Workers : Claims(w)
  BY <1>1 DEF Claims, claimFrame, BeginClaim, ClaimPacket, ClaimTicket, NothingYet, Recheck,
     EndOfInput, AlarmLeaves, PublishTxn
<1>2. CASE \E w \in Workers : Produces(w)
  BY <1>2 DEF Produces, runFrame, PayloadDone, SkipPoisoned, PassSentinel, FailSkips, FailStops,
     FailRetries, FinishFrame, BeginCommit, Clear, Notify, NotifyFails
<1>3. CASE DrainStep \/ Faults
  BY <1>3 DEF DrainStep, DrainReads, DrainMoves, Faults, DrainDies, Kill, drainFrame
<1>4. CASE Supervise
  BY <1>4 DEF Supervise, supFrame, ReapUnsupervised, RecoverIdle, RecoverRace, RecoverOrphan, Wake,
     WakeFails, Decide, ReapDrain, Join
<1>5. CASE (outcome = "running" /\ Scan) \/ Over \/ UNCHANGED vars
  BY <1>5 DEF Scan, Over, vars
<1>. QED
  BY <1>1, <1>2, <1>3, <1>4, <1>5 DEF Next, WorkerStep

LEMMA Consts ==
  ASSUME Options
  PROVE  /\ Sentinel \in Nat /\ RetryLimit \in Nat /\ PoisonThreshold \in Nat \ {0}
         /\ setup.crew \subseteq Workers /\ setup.crew # {}
BY PublicationAssumption DEF Options, Sentinel, PoisonThreshold

LEMMA Threshold ==
  ASSUME NEW k \in Nat PROVE IsPoisoned(k) <=> k >= PoisonThreshold
BY PublicationAssumption DEF IsPoisoned, PoisonThreshold

(* A step of worker w, or its death, touches nobody else's.                *)
Aside(v) ==
  /\ pc'[v] = pc[v] /\ txn'[v] = txn[v] /\ hold'[v] = hold[v] /\ memfd'[v] = memfd[v]
  /\ count'[v] = count[v] /\ exitZero'[v] = exitZero[v]

LEMMA Elsewhere ==
  ASSUME Shape, Flags, NEW w \in Workers, WorkerStep(w) \/ Kill(w), NEW v \in Workers \ {w}
  PROVE  Aside(v)
<1>. USE DEF Shape, ClaimTypes, FileTypes, Flags, Aside, Goto
<1>1. CASE Claims(w)
  BY <1>1 DEF Claims, claimFrame, BeginClaim, ClaimPacket, ClaimTicket, NothingYet, Recheck,
     EndOfInput, AlarmLeaves, PublishTxn, SetState, ClearTxn, ProcessEnds
<1>2. CASE Produces(w)
  BY <1>2 DEF Produces, runFrame, PayloadDone, SkipPoisoned, PassSentinel, FailSkips, FailStops,
     FailRetries, FinishFrame, BeginCommit, Clear, Notify, NotifyFails, StartFrame, WholeFrame,
     SetState, ClearTxn, ProcessEnds
<1>3. CASE Kill(w)
  BY <1>3 DEF Kill, ProcessEnds
<1>. QED
  BY <1>1, <1>2, <1>3 DEF WorkerStep

-------------------------------------------------------------------------------
(* The batch a worker has in hand, and what it has written for it          *)

(* A sentinel that is not poisoned is committed without a record.          *)
Unframed(w) == txn[w].b = Sentinel /\ ~IsPoisoned(txn[w].kills)
Wrote(w)    == pc[w] = "frame" \/ (pc[w] \in {"framed", "commit"} /\ ~Unframed(w))
Last(w)     == memfd[w][Len(memfd[w])]

(* From the claim to the commit a worker and its transaction name the same *)
(* batch, one that was issued; after its own deposit the record still      *)
(* names the batch, which was not poisoned.                                *)
Job(w) ==
  /\ pc[w] = "taken" => hold[w].b \in 0 .. nextIdx - 1
  /\ Open(w) => txn[w].b \in 0 .. nextIdx - 1
  /\ pc[w] \in {"run", "frame", "framed", "commit"} =>
       hold[w].b = txn[w].b /\ hold[w].kills = txn[w].kills
  /\ pc[w] = "idle" /\ Open(w) => ~IsPoisoned(txn[w].kills)

(* A transaction writes one record, of its batch, poisoned if the batch    *)
(* is; tl_pending counts it if it is whole, DATA and not yet committed.    *)
Output(w) ==
  /\ pc[w] = "frame" => ~Unframed(w)
  /\ Wrote(w) => /\ Len(memfd[w]) = txn[w].start + 1
                 /\ Last(w).b = txn[w].b
                 /\ (Last(w).kind = "poisoned") <=> IsPoisoned(txn[w].kills)
  /\ (pc[w] # "dead" /\ Open(w) /\ ~Wrote(w)) => Len(memfd[w]) = txn[w].start
  /\ count[w] = IF pc[w] = "framed" /\ Wrote(w) /\ Last(w).kind = "data" THEN 1 ELSE 0

(* A worker has a batch in hand from its claim until it commits or         *)
(* deposits; a record that a death leaves open has one as well.            *)
Carries(w) == pc[w] = "taken" \/ (Open(w) /\ pc[w] # "idle")
InHand(w)  == IF pc[w] = "taken" THEN hold[w] ELSE [b |-> txn[w].b, kills |-> txn[w].kills]

Still(w) ==
  /\ Carries(w)' <=> Carries(w)
  /\ Carries(w) => InHand(w)' = InHand(w)
  /\ Settled(w)' = Settled(w)

LEMMA AsideKeeps ==
  ASSUME NEW v \in Workers, Aside(v), setup' = setup, Options, Numbers, nextIdx' \in Nat,
         nextIdx <= nextIdx', Job(v), Output(v)
  PROVE  Job(v)' /\ Output(v)' /\ Still(v)
<1>1. Sentinel' = Sentinel /\ nextIdx \in Nat
  BY Consts DEF Sentinel, Numbers
<1>2. Job(v)'
  BY <1>1 DEF Aside, Job, Open, IsPoisoned
<1>3. Unframed(v)' = Unframed(v) /\ Wrote(v)' = Wrote(v) /\ Last(v)' = Last(v)
  BY <1>1 DEF Aside, Unframed, Wrote, Last, IsPoisoned
<1>4. Output(v)'
  BY <1>3 DEF Aside, Output, Open, IsPoisoned
<1>5. Still(v)
  BY DEF Aside, Still, Carries, InHand, Open, Settled
<1>. QED
  BY <1>2, <1>4, <1>5

(* What a step does with the batches in play, seen from the worker it is   *)
(* of: nothing; a ticket is drawn; a packet is picked up; a batch is       *)
(* deposited, settled by its record, or passed over as the sentinel; it is *)
(* lost with its worker; or a record comes to life a second time.          *)
Quiet(w) ==
  /\ Still(w) /\ UNCHANGED <<escrow, nextIdx, poisonedCount>>

Draws(w) ==
  /\ ~Carries(w) /\ Carries(w)' /\ Settled(w)' = Settled(w)
  /\ InHand(w)' = [b |-> nextIdx, kills |-> 0]
  /\ nextIdx' = nextIdx + 1 /\ UNCHANGED <<escrow, poisonedCount>>

Picks(w) ==
  /\ ~Carries(w) /\ Carries(w)' /\ Settled(w)' = Settled(w)
  /\ escrow # <<>> /\ InHand(w)' = Head(escrow) /\ escrow' = Tail(escrow)
  /\ CountPoison(Head(escrow).kills) /\ nextIdx' = nextIdx

Gives(w) == Carries(w) /\ ~Carries(w)' /\ UNCHANGED <<nextIdx, poisonedCount>>

Deposits(w) ==
  /\ Gives(w) /\ Settled(w)' = Settled(w)
  /\ escrow' = Append(escrow, [b |-> InHand(w).b, kills |-> InHand(w).kills + 1])

Settles(w) ==
  /\ Gives(w) /\ escrow' = escrow /\ memfd' = memfd
  /\ Settled(w)' = Settled(w) + 1 /\ Len(memfd[w]) = Settled(w) + 1
  /\ Last(w).b = InHand(w).b
  /\ (Last(w).kind = "poisoned") <=> IsPoisoned(InHand(w).kills)

Passes(w) ==
  /\ Gives(w) /\ escrow' = escrow /\ Settled(w)' = Settled(w)
  /\ InHand(w).b = Sentinel /\ ~IsPoisoned(InHand(w).kills)

Loses(w) ==
  /\ Gives(w) /\ escrow' = escrow /\ Settled(w)' = Settled(w)
  /\ pc'[w] = "dead" /\ txn'[w].state = "CLAIMING"

Doubles(w) ==
  /\ ~Carries(w) /\ Carries(w)' /\ Settled(w)' = Settled(w)
  /\ InHand(w)'.b \in 0 .. nextIdx - 1 /\ InHand(w)'.b \in doubled'
  /\ ~IsPoisoned(InHand(w)'.kills) /\ InHand(w)'.kills \in Nat
  /\ UNCHANGED <<escrow, nextIdx, poisonedCount>>

Moves(w) ==
  \/ Quiet(w) \/ Draws(w) \/ Picks(w) \/ Deposits(w) \/ Settles(w) \/ Passes(w)
  \/ Loses(w) \/ Doubles(w)

(* A process that ended well, and one whose slot has ended.                *)
Ended(w) == pc[w] = "gone" \/ (pc[w] = "dead" /\ exitZero[w])

(* What the argument about one worker's step starts from.                  *)
Context ==
  /\ Shape /\ FilesOK /\ Options /\ Numbers /\ Flags /\ Items
  /\ \A w \in Workers : Ended(w) => txn[w].state = "IDLE"
  /\ \A i \in 1 .. Len(escrow) : escrow[i].b \in 0 .. nextIdx - 1

LEMMA ClaimEffects ==
  ASSUME Context, NEW w \in Workers, Job(w), Output(w), Claims(w)
  PROVE  Job(w)' /\ Output(w)' /\ (Quiet(w) \/ Draws(w) \/ Picks(w))
<1>a. /\ Phase(w) /\ Cut(w) /\ Len(memfd[w]) \in Nat /\ nextIdx \in Nat /\ Sentinel \in Nat
  BY Lengths, Consts DEF Context, Shape, FilesOK, Numbers
<1>b. setup' = setup /\ memfd' = memfd /\ doubled' = doubled
  BY DEF Claims, claimFrame, optionVars, boundVars, BeginClaim, ClaimPacket, ClaimTicket,
     NothingYet, Recheck, EndOfInput, AlarmLeaves, PublishTxn
<1>0. /\ Phase(w) /\ Cut(w) /\ Len(memfd[w]) \in Nat /\ nextIdx \in Nat /\ Sentinel \in Nat
      /\ setup' = setup /\ Sentinel' = Sentinel /\ memfd' = memfd /\ doubled' = doubled
  BY <1>a, <1>b DEF Sentinel
<1>. USE DEF Context, Shape, ClaimTypes, FileTypes, Flags, Items
<1>1. CASE BeginClaim(w)
  <2>1. pc[w] = "idle" /\ pc'[w] = "claim" /\ txn'[w].state = "CLAIMING" /\ hold' = hold
        /\ count' = count /\ UNCHANGED <<escrow, nextIdx, poisonedCount>>
    BY <1>1 DEF BeginClaim, Goto, IdleTxn, claimFrame, escrowVars
  <2>2. Settled(w)' = Settled(w)
    BY <1>0, <2>1 DEF Settled, Output, Wrote, Open, Phase
  <2>3. Quiet(w)
    BY <2>1, <2>2 DEF Quiet, Still, Carries, Open
  <2>. QED
    BY <1>0, <2>1, <2>3 DEF Job, Output, Open, Wrote
<1>2. CASE ClaimPacket(w)
  <2>1. /\ pc[w] = "claim" /\ pc'[w] = "taken" /\ txn' = txn /\ hold'[w] = Head(escrow)
        /\ count' = count /\ escrow # <<>> /\ escrow' = Tail(escrow) /\ nextIdx' = nextIdx
        /\ CountPoison(Head(escrow).kills)
    BY <1>2 DEF ClaimPacket, Goto, claimFrame
  <2>2. Head(escrow).b \in 0 .. nextIdx - 1
    <3>1. 1 \in 1 .. Len(escrow) /\ Head(escrow) = escrow[1]
      BY <2>1
    <3>. QED
      BY <3>1
  <2>3. Picks(w)
    BY <1>0, <2>1 DEF Picks, Carries, InHand, Open, Settled, Phase
  <2>. QED
    BY <1>0, <2>1, <2>2, <2>3 DEF Job, Output, Open, Wrote, Phase
<1>3. CASE ClaimTicket(w)
  <2>1. /\ pc[w] = "claim" /\ pc'[w] = "taken" /\ txn' = txn
        /\ hold'[w] = [b |-> nextIdx, kills |-> 0]
        /\ count' = count /\ UNCHANGED <<escrow, poisonedCount>> /\ nextIdx' = nextIdx + 1
    BY <1>3 DEF ClaimTicket, Goto, claimFrame
  <2>2. Draws(w)
    BY <1>0, <2>1 DEF Draws, Carries, InHand, Open, Settled, Phase
  <2>. QED
    BY <1>0, <2>1, <2>2 DEF Job, Output, Open, Wrote, Phase
<1>4. CASE NothingYet(w) \/ Recheck(w)
  <2>1. /\ pc[w] \in {"claim", "wait"} /\ pc'[w] \in {"claim", "wait"}
        /\ txn'[w].state \in {"CLAIMING", "WAITING"} /\ hold' = hold
        /\ count' = count /\ UNCHANGED <<escrow, nextIdx, poisonedCount>>
    <3>1. SetState(w, "WAITING") \/ SetState(w, "CLAIMING")
      BY <1>4 DEF NothingYet, Recheck
    <3>2. txn'[w].state \in {"CLAIMING", "WAITING"}
      BY <3>1, StateTyped DEF States
    <3>. QED
      BY <1>4, <3>2 DEF NothingYet, Recheck, Goto, claimFrame, escrowVars
  <2>2. Quiet(w)
    BY <1>0, <2>1 DEF Quiet, Still, Carries, Open, Settled, Phase
  <2>. QED
    BY <1>0, <2>1, <2>2 DEF Job, Output, Open, Wrote
<1>5. CASE EndOfInput(w) \/ AlarmLeaves(w)
  <2>1. /\ pc[w] \in {"claim", "wait"} /\ pc'[w] = "dead" /\ txn'[w].state = "IDLE"
        /\ count'[w] = 0 /\ UNCHANGED <<escrow, nextIdx, poisonedCount>>
    BY <1>5 DEF EndOfInput, AlarmLeaves, Goto, ClearTxn, IdleTxn, ProcessEnds, inputVars, escrowVars, countVars
  <2>2. Quiet(w)
    BY <1>0, <2>1 DEF Quiet, Still, Carries, Open, Settled, Phase
  <2>. QED
    BY <1>0, <2>1, <2>2 DEF Job, Output, Open, Wrote
<1>6. CASE PublishTxn(w)
  <2>1. /\ pc[w] = "taken" /\ pc'[w] = "run" /\ hold' = hold /\ count' = count
        /\ txn'[w] = [state |-> "CLAIMED", b |-> hold[w].b, kills |-> hold[w].kills, start |-> cursor[w]]
        /\ UNCHANGED <<escrow, nextIdx, poisonedCount>>
    BY <1>6 DEF PublishTxn, Goto, claimFrame, escrowVars
  <2>2. cursor[w] = Len(memfd[w])
    BY <1>0, <2>1 DEF Cut
  <2>3. InHand(w)' = InHand(w)
    BY <2>1 DEF InHand, Packet
  <2>4. Quiet(w)
    BY <1>0, <2>1, <2>2, <2>3 DEF Quiet, Still, Carries, Open, Settled, Phase
  <2>. QED
    BY <1>0, <2>1, <2>2, <2>4 DEF Job, Output, Open, Wrote
<1>. QED
  BY <1>1, <1>2, <1>3, <1>4, <1>5, <1>6 DEF Claims

(* A record is begun for the batch in hand, or its last byte is written.   *)
LEMMA FrameEffects ==
  ASSUME Context, NEW w \in Workers, Job(w), Output(w),
         PayloadDone(w) \/ SkipPoisoned(w) \/ FailSkips(w) \/ FinishFrame(w)
  PROVE  Job(w)' /\ Output(w)' /\ Quiet(w)
<1>a. /\ Phase(w) /\ Cut(w) /\ Len(memfd[w]) \in Nat /\ nextIdx \in Nat /\ Sentinel \in Nat
  BY Lengths, Consts DEF Context, Shape, FilesOK, Numbers
<1>b. setup' = setup /\ txn' = txn /\ hold' = hold /\ UNCHANGED <<escrow, nextIdx, poisonedCount>>
  BY DEF runFrame, optionVars, inputVars, escrowVars, PayloadDone, SkipPoisoned, FailSkips, FinishFrame
<1>c. Sentinel' = Sentinel
  BY <1>b DEF Sentinel
<1>. USE DEF Context, Shape, ClaimTypes, FileTypes, Flags, Items
<1>1. CASE PayloadDone(w) \/ SkipPoisoned(w) \/ FailSkips(w)
  <2>1. PICK kind \in Kinds :
          /\ StartFrame(w, kind) /\ pc[w] = "run"
          /\ (kind = "poisoned") <=> IsPoisoned(hold[w].kills)
          /\ hold[w].b # Sentinel \/ IsPoisoned(hold[w].kills)
    BY <1>1 DEF PayloadDone, SkipPoisoned, FailSkips, PayloadFails, Kinds
  <2>2. pc'[w] = "frame" /\ count' = count
    BY <1>1, <2>1 DEF PayloadDone, SkipPoisoned, FailSkips, StartFrame, Goto
  <2>. DEFINE r == [b |-> hold[w].b, kind |-> kind, whole |-> FALSE]
  <2>3. r \in Record
    BY <2>1 DEF Record, Packet
  <2>4. r.b = hold[w].b /\ r.kind = kind /\ memfd' = [memfd EXCEPT ![w] = Append(@, r)]
    BY <2>1 DEF StartFrame
  <2>. HIDE DEF r
  <2>5. /\ Len(memfd'[w]) = Len(memfd[w]) + 1 /\ memfd'[w][Len(memfd[w]) + 1] = r
    BY <2>3, <2>4
  <2>6. Quiet(w)
    BY <1>a, <1>b, <2>1, <2>2 DEF Quiet, Still, Carries, InHand, Open, Settled, Phase
  <2>7. Job(w)'
    BY <1>a, <1>b, <2>1, <2>2 DEF Job, Open
  <2>8. Len(memfd[w]) = txn[w].start /\ count[w] = 0 /\ hold[w].b = txn[w].b /\ hold[w].kills = txn[w].kills
    BY <1>a, <2>1 DEF Output, Wrote, Open, Phase, Job
  <2>9. Last(w)' = r /\ Unframed(w)' = Unframed(w) /\ ~Unframed(w)
    BY <1>a, <1>b, <1>c, <2>1, <2>5, <2>8 DEF Last, Unframed, IsPoisoned
  <2>10. Output(w)'
    BY <1>a, <1>b, <2>1, <2>2, <2>4, <2>5, <2>8, <2>9 DEF Output, Wrote, IsPoisoned
  <2>. QED
    BY <2>6, <2>7, <2>10
<1>2. CASE FinishFrame(w)
  <2>1. /\ pc[w] = "frame" /\ pc'[w] = "framed" /\ memfd' = [memfd EXCEPT ![w][Len(memfd[w])].whole = TRUE]
        /\ count' = [count EXCEPT ![w] = @ + (IF FrameIsData(w) THEN 1 ELSE 0)]
    BY <1>2 DEF FinishFrame, WholeFrame, Goto
  <2>2. Wrote(w) /\ ~Unframed(w) /\ Len(memfd[w]) = txn[w].start + 1 /\ count[w] = 0
    BY <2>1 DEF Output, Wrote
  <2>3. txn[w].start \in Nat /\ Len(memfd[w]) \in 1 .. Len(memfd[w]) /\ memfd[w] \in Seq(Record)
    BY <1>a, <2>2, Lengths
  <2>4. Last(w) \in Record
    BY <2>3 DEF Last
  <2>5. /\ Len(memfd'[w]) = Len(memfd[w])
        /\ Last(w)' = [Last(w) EXCEPT !.whole = TRUE]
    <3>1. memfd'[w] = [memfd[w] EXCEPT ![Len(memfd[w])] = [Last(w) EXCEPT !.whole = TRUE]]
      BY <2>1 DEF Last
    <3>. DEFINE r == [Last(w) EXCEPT !.whole = TRUE]
    <3>. HIDE DEF r
    <3>2. memfd'[w] = [memfd[w] EXCEPT ![Len(memfd[w])] = r]
      BY <3>1 DEF r
    <3>3. Len(memfd'[w]) = Len(memfd[w]) /\ memfd'[w][Len(memfd[w])] = r
      BY <2>3, <3>2
    <3>. QED
      BY <3>3 DEF Last, r
  <2>6. Last(w)'.b = Last(w).b /\ Last(w)'.kind = Last(w).kind
    BY <2>4, <2>5 DEF Record
  <2>7. Quiet(w)
    BY <1>a, <1>b, <2>1 DEF Quiet, Still, Carries, InHand, Open, Settled, Phase
  <2>8. Job(w)'
    BY <1>a, <1>b, <2>1 DEF Job, Open
  <2>9. count'[w] = IF Last(w).kind = "data" THEN 1 ELSE 0
    BY <2>1, <2>2 DEF FrameIsData, Last
  <2>10. Unframed(w)' = Unframed(w) /\ Wrote(w)'
    BY <1>b, <1>c, <2>1, <2>2 DEF Unframed, IsPoisoned, Wrote
  <2>11. Output(w)'
    BY <1>b, <2>1, <2>2, <2>5, <2>6, <2>9, <2>10 DEF Output, IsPoisoned
  <2>. QED
    BY <2>7, <2>8, <2>11
<1>. QED
  BY <1>1, <1>2

LEMMA ProduceEffects ==
  ASSUME Context, NEW w \in Workers, Job(w), Output(w), Produces(w)
  PROVE  Job(w)' /\ Output(w)' /\ (Quiet(w) \/ Deposits(w) \/ Settles(w) \/ Passes(w))
<1>a. /\ Phase(w) /\ Cut(w) /\ Len(memfd[w]) \in Nat /\ nextIdx \in Nat /\ Sentinel \in Nat
  BY Lengths, Consts DEF Context, Shape, FilesOK, Numbers
<1>b. setup' = setup /\ UNCHANGED <<nextIdx, poisonedCount>>
  BY DEF Produces, runFrame, optionVars, inputVars, countVars, PayloadDone, SkipPoisoned, PassSentinel,
     FailSkips, FailStops, FailRetries, FinishFrame, BeginCommit, Clear, Notify, NotifyFails
<1>c. Sentinel' = Sentinel
  BY <1>b DEF Sentinel
<1>. USE DEF Context, Shape, ClaimTypes, FileTypes, Flags, Items
<1>1. CASE PayloadDone(w) \/ SkipPoisoned(w) \/ FailSkips(w) \/ FinishFrame(w)
  BY <1>1, FrameEffects
<1>2. CASE PassSentinel(w)
  <2>1. /\ pc[w] = "run" /\ pc'[w] = "framed" /\ UNCHANGED <<txn, memfd, hold, count, escrow>>
        /\ hold[w].b = Sentinel /\ ~IsPoisoned(hold[w].kills)
    BY <1>2 DEF PassSentinel, Goto, escrowVars
  <2>2. Unframed(w) /\ Unframed(w)'
    BY <1>a, <1>c, <2>1 DEF Unframed, Job, Open, Phase, IsPoisoned
  <2>3. Quiet(w)
    BY <1>a, <1>b, <2>1 DEF Quiet, Still, Carries, InHand, Open, Settled, Phase
  <2>. QED
    BY <1>a, <1>b, <2>1, <2>2, <2>3 DEF Job, Output, Wrote, Open, Phase
<1>3. CASE FailStops(w) \/ NotifyFails(w)
  <2>1. /\ pc[w] \in {"run", "notify"} /\ pc'[w] = "dead" /\ UNCHANGED <<txn, memfd, escrow>>
        /\ count'[w] = 0
    BY <1>3 DEF FailStops, NotifyFails, PayloadFails, ProcessEnds, Goto, escrowVars
  <2>2. Quiet(w)
    BY <1>a, <1>b, <2>1 DEF Quiet, Still, Carries, InHand, Open, Settled, Phase
  <2>. QED
    BY <1>a, <1>b, <2>1, <2>2 DEF Job, Output, Wrote, Open, Phase
<1>4. CASE FailRetries(w)
  <2>1. /\ pc[w] = "run" /\ pc'[w] = "idle" /\ UNCHANGED <<txn, memfd, count>>
        /\ escrow' = Append(escrow, [b |-> hold[w].b, kills |-> hold[w].kills + 1])
        /\ ~IsPoisoned(hold[w].kills)
    BY <1>4 DEF FailRetries, PayloadFails, Goto
  <2>2. Deposits(w)
    BY <1>a, <1>b, <2>1 DEF Deposits, Gives, Carries, InHand, Open, Settled, Phase, Job
  <2>. QED
    BY <1>a, <1>b, <2>1, <2>2 DEF Job, Output, Wrote, Open, Phase, IsPoisoned
<1>5. CASE BeginCommit(w)
  <2>1. /\ pc[w] = "framed" /\ pc'[w] = "commit" /\ UNCHANGED <<memfd, hold, escrow>>
        /\ SetState(w, "COMMITTING") /\ count'[w] = 0
    BY <1>5 DEF BeginCommit, Goto, escrowVars
  <2>2. /\ txn'[w].state = "COMMITTING" /\ txn'[w].b = txn[w].b /\ txn'[w].kills = txn[w].kills
        /\ txn'[w].start = txn[w].start
    BY <2>1 DEF SetState, Txn
  <2>3. Quiet(w)
    BY <1>a, <1>b, <2>1, <2>2 DEF Quiet, Still, Carries, InHand, Open, Settled, Phase
  <2>4. Wrote(w)' = Wrote(w) /\ Last(w)' = Last(w)
    BY <1>c, <2>1, <2>2 DEF Wrote, Unframed, IsPoisoned, Last
  <2>5. Job(w)'
    BY <1>a, <1>b, <2>1, <2>2 DEF Job, Open, Phase
  <2>6. Output(w)'
    BY <1>a, <2>1, <2>2, <2>4 DEF Output, Open, Phase, IsPoisoned
  <2>. QED
    BY <2>3, <2>5, <2>6
<1>6. CASE Clear(w)
  <2>1. /\ pc[w] = "commit" /\ pc'[w] \in {"idle", "notify"} /\ UNCHANGED <<memfd, count, escrow>>
        /\ txn'[w].state = "IDLE"
    BY <1>6 DEF Clear, Goto, ClearTxn, IdleTxn, escrowVars
  <2>2. /\ txn[w].state = "COMMITTING" /\ Carries(w) /\ ~Carries(w)' /\ InHand(w).b = txn[w].b
        /\ InHand(w).kills = txn[w].kills
    BY <1>a, <2>1 DEF Carries, InHand, Open, Phase
  <2>3. Settled(w) = txn[w].start /\ Settled(w)' = Len(memfd[w]) /\ txn[w].start \in Nat
    BY <2>1, <2>2, Lengths DEF Settled
  <2>4. Settles(w) \/ Passes(w)
    <3>1. CASE Unframed(w)
      <4>1. Len(memfd[w]) = txn[w].start
        BY <2>1, <2>2, <3>1 DEF Output, Wrote, Open
      <4>. QED
        BY <1>b, <2>1, <2>2, <2>3, <3>1, <4>1 DEF Passes, Gives, Unframed
    <3>2. CASE ~Unframed(w)
      <4>1. Len(memfd[w]) = txn[w].start + 1 /\ Last(w).b = txn[w].b
            /\ ((Last(w).kind = "poisoned") <=> IsPoisoned(txn[w].kills))
        BY <2>1, <3>2 DEF Output, Wrote
      <4>. QED
        BY <1>b, <2>1, <2>2, <2>3, <4>1 DEF Settles, Gives
    <3>. QED
      BY <3>1, <3>2
  <2>5. Job(w)' /\ Output(w)'
    BY <2>1 DEF Job, Output, Wrote, Open
  <2>. QED
    BY <2>4, <2>5
<1>7. CASE Notify(w)
  <2>1. /\ pc[w] = "notify" /\ pc'[w] = "idle" /\ UNCHANGED <<txn, memfd, hold, count, escrow>>
    BY <1>7 DEF Notify, Goto, escrowVars
  <2>2. Quiet(w)
    BY <1>a, <1>b, <2>1 DEF Quiet, Still, Carries, InHand, Open, Settled, Phase
  <2>. QED
    BY <1>a, <1>b, <2>1, <2>2 DEF Job, Output, Wrote, Open, Phase
<1>. QED
  BY <1>1, <1>2, <1>3, <1>4, <1>5, <1>6, <1>7 DEF Produces

LEMMA KillEffects ==
  ASSUME Context, NEW w \in Workers, Job(w), Output(w), Kill(w)
  PROVE  Job(w)' /\ Output(w)' /\ (Quiet(w) \/ Loses(w) \/ Doubles(w))
<1>a. /\ Phase(w) /\ Cut(w) /\ Len(memfd[w]) \in Nat /\ nextIdx \in Nat /\ Sentinel \in Nat
  BY Lengths, Consts DEF Context, Shape, FilesOK, Numbers
<1>1. /\ pc'[w] = "dead" /\ count'[w] = 0 /\ setup' = setup /\ pc[w] \notin {"dead", "gone"}
      /\ UNCHANGED <<txn, memfd, escrow, nextIdx, poisonedCount>>
  BY DEF Context, Shape, FileTypes, Flags, Kill, Alive, ProcessEnds, Goto, optionVars, inputVars,
     escrowVars, countVars
<1>2. Job(w)'
  BY <1>a, <1>1 DEF Job, Open
<1>3. Output(w)'
  BY <1>1 DEF Output, Wrote
<1>4. Settled(w)' = Settled(w)
  BY <1>1 DEF Settled
<1>5. CASE pc[w] = "taken"
  BY <1>a, <1>1, <1>2, <1>3, <1>4, <1>5 DEF Loses, Gives, Carries, Open, Phase
<1>6. CASE pc[w] = "idle" /\ txn[w].state = "CLAIMED"
  <2>1. /\ txn[w].b \in doubled' /\ txn[w].b \in 0 .. nextIdx - 1
        /\ ~IsPoisoned(txn[w].kills) /\ txn[w].kills \in Nat
    BY <1>6 DEF Kill, Job, Open, Context, Items
  <2>. QED
    BY <1>1, <1>2, <1>3, <1>4, <1>6, <2>1 DEF Doubles, Carries, InHand, Open, IsPoisoned
<1>7. CASE pc[w] # "taken" /\ ~(pc[w] = "idle" /\ txn[w].state = "CLAIMED")
  BY <1>a, <1>1, <1>2, <1>3, <1>4, <1>7 DEF Quiet, Still, Carries, InHand, Open, Phase
<1>. QED
  BY <1>2, <1>3, <1>5, <1>6, <1>7

(* The launcher: only the recovery of an orphan moves a batch.             *)
LEMMA OrphanEffects ==
  ASSUME Context, NEW w \in Workers, Job(w), Output(w), RecoverOrphan(w)
  PROVE  /\ Job(w)' /\ Output(w)' /\ Deposits(w)
         /\ \A v \in Workers \ {w} : Aside(v)
<1>. USE DEF Context, Shape, ClaimTypes, FileTypes, Flags, Items
<1>a. /\ Phase(w) /\ Cut(w) /\ Len(memfd[w]) \in Nat /\ txn[w].start \in Nat
  BY Lengths DEF FilesOK
<1>1. /\ pc[w] = "dead" /\ txn[w].state = "CLAIMED" /\ txn'[w].state = "IDLE"
      /\ UNCHANGED <<pc, count, hold, exitZero, nextIdx, poisonedCount>>
      /\ escrow' = Append(escrow, [b |-> txn[w].b, kills |-> txn[w].kills + 1])
      /\ memfd' = [memfd EXCEPT ![w] = SubSeq(memfd[w], 1, txn[w].start)]
      /\ \A v \in Workers \ {w} : txn'[v] = txn[v]
  BY DEF RecoverOrphan, Reaped, ClearTxn, IdleTxn, supFrame, inputVars, countVars, workerVars,
     RollBack, Deposited
<1>2. \A v \in Workers \ {w} : Aside(v)
  BY <1>1 DEF Aside
<1>3. Settled(w) = txn[w].start /\ Settled(w)' = Len(memfd'[w]) /\ Len(memfd'[w]) = txn[w].start
  <2>1. txn[w].start <= Len(memfd[w]) /\ memfd[w] \in Seq(Record)
    BY <1>a, <1>1 DEF Cut, Open
  <2>2. Len(SubSeq(memfd[w], 1, txn[w].start)) = txn[w].start
    BY <1>a, <2>1
  <2>. QED
    BY <1>1, <2>2 DEF Settled
<1>4. Deposits(w)
  BY <1>1, <1>3 DEF Deposits, Gives, Carries, InHand, Open
<1>5. Job(w)' /\ Output(w)'
  BY <1>1 DEF Job, Output, Wrote, Open
<1>. QED
  BY <1>2, <1>4, <1>5

(* Every other step of the launcher's leaves the batches alone.            *)
Idles == UNCHANGED <<escrow, nextIdx, poisonedCount>> /\ \A v \in Workers : Still(v)

LEMMA LauncherEffects ==
  ASSUME Context, \A v \in Workers : Job(v) /\ Output(v), Supervise,
         ~\E w \in Workers : RecoverOrphan(w)
  PROVE  Idles /\ \A v \in Workers : Job(v)' /\ Output(v)'
<1>. USE DEF Context, Shape, ClaimTypes, FileTypes, Flags, Items
<1>1. /\ UNCHANGED <<memfd, hold, count, exitZero, escrow, nextIdx, poisonedCount, setup>>
  BY DEF Supervise, ReapUnsupervised, RecoverIdle, RecoverRace, Wake, WakeFails, Decide, ReapDrain,
     Join, supFrame, optionVars, inputVars, countVars, escrowVars, workerVars, EndSlot, Respawn
<1>2. nextIdx \in Nat /\ nextIdx' \in Nat /\ nextIdx <= nextIdx'
  BY <1>1 DEF Numbers
<1>3. ASSUME NEW w \in Workers, pc[w] = "dead",
             \A v \in Workers \ {w} : pc'[v] = pc[v] /\ txn'[v] = txn[v],
             \/ pc'[w] = "dead" /\ txn'[w].state = "IDLE" /\ txn[w].state \in {"IDLE", "WAITING"}
             \/ pc'[w] = "gone" /\ txn'[w] = txn[w] /\ txn[w].state = "IDLE"
             \/ pc'[w] = "idle" /\ txn'[w] = txn[w] /\ txn[w].state = "IDLE"
      PROVE  Idles /\ \A v \in Workers : Job(v)' /\ Output(v)'
  <2>1. \A v \in Workers \ {w} : Job(v)' /\ Output(v)' /\ Still(v)
    BY <1>1, <1>2, <1>3, AsideKeeps DEF Aside
  <2>2. Still(w)
    BY <1>1, <1>3 DEF Still, Carries, Open, Settled
  <2>3. count[w] = 0
    BY <1>3 DEF Output
  <2>4. Job(w)' /\ Output(w)'
    BY <1>1, <1>3, <2>3 DEF Job, Output, Wrote, Open
  <2>. QED
    BY <1>1, <2>1, <2>2, <2>4 DEF Idles
<1>4. ASSUME UNCHANGED <<pc, txn>>
      PROVE  Idles /\ \A v \in Workers : Job(v)' /\ Output(v)'
  BY <1>1, <1>2, <1>4, AsideKeeps DEF Aside, Idles
<1>5. CASE \E w \in Workers : ReapUnsupervised(w)
  <2>1. PICK w \in Workers : ReapUnsupervised(w)
    BY <1>5
  <2>2. CASE exitZero[w]
    <3>1. /\ pc[w] = "dead" /\ txn' = txn /\ pc'[w] = "gone" /\ txn[w].state = "IDLE"
          /\ \A v \in Workers \ {w} : pc'[v] = pc[v]
      BY <2>1, <2>2 DEF ReapUnsupervised, Reaped, Goto, Ended
    <3>. QED
      BY <1>3, <3>1
  <2>3. CASE ~exitZero[w]
    BY <1>4, <2>1, <2>3 DEF ReapUnsupervised
  <2>. QED
    BY <2>2, <2>3
<1>6. CASE \E w \in Workers : RecoverIdle(w)
  <2>1. PICK w \in Workers : RecoverIdle(w)
    BY <1>6
  <2>2. /\ pc[w] = "dead" /\ pc' = pc /\ txn[w].state \in {"IDLE", "WAITING"} /\ ClearTxn(w)
    BY <2>1 DEF RecoverIdle, Reaped
  <2>3. txn'[w].state = "IDLE" /\ \A v \in Workers \ {w} : txn'[v] = txn[v]
    BY <2>2, ClearTyped
  <2>. QED
    BY <1>3, <2>2, <2>3
<1>7. CASE (\E w \in Workers : RecoverRace(w)) \/ Wake \/ WakeFails \/ ReapDrain \/ Join
  <2>1. UNCHANGED <<pc, txn>>
    BY <1>7 DEF RecoverRace, Wake, WakeFails, ReapDrain, Join
  <2>. QED
    BY <1>4, <2>1
<1>8. CASE Decide
  <2>1. PICK w \in Workers : sup.w = w /\ pc[w] = "dead" /\ txn[w].state = "IDLE"
    BY <1>8 DEF Decide, SupOK
  <2>2. CASE pc' = pc
    BY <1>4, <1>8, <2>2 DEF Decide
  <2>3. CASE pc' # pc
    <3>1. Goto(w, "gone") \/ Goto(w, "idle")
      BY <1>8, <2>1, <2>3 DEF Decide, EndSlot, Respawn
    <3>2. pc'[w] \in {"gone", "idle"} /\ txn' = txn /\ \A v \in Workers \ {w} : pc'[v] = pc[v]
      BY <1>8, <3>1 DEF Goto, Decide
    <3>. QED
      BY <1>3, <2>1, <3>2
  <2>. QED
    BY <2>2, <2>3
<1>. QED
  BY <1>5, <1>6, <1>7, <1>8 DEF Supervise

(* Every step: one slot moves at most one batch.                           *)
LEMMA StepMoves ==
  ASSUME Context, \A v \in Workers : Job(v) /\ Output(v), Numbers', [Next]_vars
  PROVE  /\ \A v \in Workers : Job(v)' /\ Output(v)'
         /\ \E w \in Workers : Moves(w) /\ \A v \in Workers \ {w} : Still(v) /\ memfd'[v] = memfd[v]
<1>0. /\ setup' = setup /\ nextIdx' \in Nat /\ nextIdx \in Nat
  BY OptionsKept DEF Numbers, Context
<1>1. ASSUME NEW w \in Workers, Job(w)' /\ Output(w)' /\ Moves(w), nextIdx <= nextIdx',
             \A v \in Workers \ {w} : Aside(v)
      PROVE  /\ \A v \in Workers : Job(v)' /\ Output(v)'
             /\ \E u \in Workers : Moves(u) /\ \A v \in Workers \ {u} : Still(v) /\ memfd'[v] = memfd[v]
  <2>1. \A v \in Workers \ {w} : Job(v)' /\ Output(v)' /\ Still(v) /\ memfd'[v] = memfd[v]
    BY <1>0, <1>1, AsideKeeps DEF Aside, Context
  <2>. QED
    BY <1>1, <2>1
<1>2. CASE \E w \in Workers : WorkerStep(w) \/ (outcome = "running" /\ Kill(w))
  <2>1. PICK w \in Workers : WorkerStep(w) \/ Kill(w)
    BY <1>2
  <2>2. \A v \in Workers \ {w} : Aside(v)
    BY <2>1, Elsewhere DEF Context
  <2>3. Job(w)' /\ Output(w)' /\ Moves(w)
    BY <2>1, ClaimEffects, ProduceEffects, KillEffects DEF WorkerStep, Moves
  <2>4. nextIdx <= nextIdx'
    BY <1>0, <2>3 DEF Moves, Quiet, Draws, Picks, Deposits, Settles, Passes, Loses, Doubles, Gives
  <2>. QED
    BY <1>1, <2>2, <2>3, <2>4
<1>3. CASE \E w \in Workers : RecoverOrphan(w)
  <2>1. PICK w \in Workers : RecoverOrphan(w)
    BY <1>3
  <2>2. /\ Job(w)' /\ Output(w)' /\ Deposits(w)
        /\ \A v \in Workers \ {w} : Aside(v)
    BY <2>1, OrphanEffects
  <2>. QED
    BY <1>0, <1>1, <2>2 DEF Moves, Deposits, Gives
<1>4. CASE Supervise /\ ~\E w \in Workers : RecoverOrphan(w)
  <2>1. Idles /\ \A v \in Workers : Job(v)' /\ Output(v)'
    BY <1>4, LauncherEffects
  <2>2. memfd' = memfd
    BY <1>4 DEF Supervise, ReapUnsupervised, RecoverIdle, RecoverRace, Wake, WakeFails, Decide,
       ReapDrain, Join
  <2>3. PICK w \in Workers : TRUE
    BY PublicationAssumption
  <2>. QED
    BY <2>1, <2>2, <2>3 DEF Idles, Moves, Quiet
<1>5. CASE \/ outcome = "running" /\ Scan
           \/ DrainStep \/ (outcome = "running" /\ DrainDies) \/ Over \/ UNCHANGED vars
  <2>1. UNCHANGED <<pc, txn, hold, memfd, count, exitZero, escrow, nextIdx, poisonedCount>>
    BY <1>5 DEF Scan, DrainStep, DrainReads, DrainMoves, DrainDies, Over, vars, drainFrame, inputVars,
       escrowVars, workerVars, countVars
  <2>2. \A v \in Workers : Job(v)' /\ Output(v)' /\ Still(v)
    BY <1>0, <2>1, AsideKeeps DEF Aside, Context
  <2>3. PICK w \in Workers : TRUE
    BY PublicationAssumption
  <2>. QED
    BY <2>1, <2>2, <2>3 DEF Moves, Quiet
<1>. QED
  BY <1>2, <1>3, <1>4, <1>5 DEF Next, Faults

-------------------------------------------------------------------------------
(* Where a batch is                                                        *)

(* The places a batch can be in: a packet, a hand, or a record that no     *)
(* rollback can take back.                                                 *)
Pipe(i)    == <<"pipe", i, i>>
Hand(w)    == <<"hand", w, w>>
File(w, i) == <<w, i>>

Places ==
  {Pipe(i) : i \in 1 .. Len(escrow)} \union {Hand(w) : w \in {v \in Workers : Carries(v)}}
  \union UNION {{File(w, i) : i \in 1 .. Settled(w)} : w \in Workers}

(* The batch in a place, and whether it has been counted as poisoned.      *)
At(p) ==
  IF Len(p) = 2 THEN memfd[p[1]][p[2]].b
  ELSE IF p[1] = "pipe" THEN escrow[p[2]].b ELSE InHand(p[2]).b
Marked(p) ==
  IF Len(p) = 2 THEN memfd[p[1]][p[2]].kind = "poisoned"
  ELSE IF p[1] = "pipe" THEN escrow[p[2]].kills > PoisonThreshold ELSE IsPoisoned(InHand(p[2]).kills)

Marks == {p \in Places : Marked(p)}

LEMMA Distinct ==
  /\ \A i, j : Pipe(i) = Pipe(j) => i = j
  /\ \A v, w : Hand(v) = Hand(w) => v = w
  /\ \A v, w, i, j : File(v, i) = File(w, j) => v = w /\ i = j
  /\ \A i, w : Pipe(i) # Hand(w)
  /\ \A i, w, j : Pipe(i) # File(w, j)
  /\ \A v, w, j : Hand(v) # File(w, j)
BY DEF Pipe, Hand, File

LEMMA PlaceIs ==
  \A p : p \in Places <=> \/ \E i \in 1 .. Len(escrow) : p = Pipe(i)
                          \/ \E w \in Workers : Carries(w) /\ p = Hand(w)
                          \/ \E w \in Workers : \E i \in 1 .. Settled(w) : p = File(w, i)
BY DEF Places

LEMMA PlaceIsThen ==
  \A p : p \in Places' <=> \/ \E i \in 1 .. Len(escrow') : p = Pipe(i)
                           \/ \E w \in Workers : Carries(w)' /\ p = Hand(w)
                           \/ \E w \in Workers : \E i \in 1 .. Settled(w)' : p = File(w, i)
BY DEF Places

LEMMA PlaceHas ==
  /\ \A i : At(Pipe(i)) = escrow[i].b /\ (Marked(Pipe(i)) <=> escrow[i].kills > PoisonThreshold)
  /\ \A w : At(Hand(w)) = InHand(w).b /\ (Marked(Hand(w)) <=> IsPoisoned(InHand(w).kills))
  /\ \A w, i : At(File(w, i)) = memfd[w][i].b /\ (Marked(File(w, i)) <=> memfd[w][i].kind = "poisoned")
BY DEF At, Marked, Pipe, Hand, File

LEMMA PlaceHasThen ==
  /\ \A i : At(Pipe(i))' = escrow'[i].b /\ (Marked(Pipe(i))' <=> escrow'[i].kills > PoisonThreshold)
  /\ \A w : At(Hand(w))' = InHand(w)'.b /\ (Marked(Hand(w))' <=> IsPoisoned(InHand(w)'.kills))
  /\ \A w, i : At(File(w, i))' = memfd'[w][i].b /\ (Marked(File(w, i))' <=> memfd'[w][i].kind = "poisoned")
BY DEF At, Marked, Pipe, Hand, File, IsPoisoned, PoisonThreshold

(* A batch is in one place at most, unless it was deposited twice ...      *)
Unique == \A p, q \in Places : At(p) = At(q) /\ At(p) \notin doubled => p = q
(* ... and is one that was issued; one that was issued is somewhere, the   *)
(* sentinel apart, as long as no worker has died with a batch that its     *)
(* record does not name yet, which the launcher will find ...              *)
Known  == \A p \in Places : At(p) \in 0 .. nextIdx - 1
Lost   == \E w \in Workers : pc[w] = "dead" /\ txn[w].state = "CLAIMING"
Placed == \A b \in 0 .. nextIdx - 1 : b # Sentinel => \E p \in Places : At(p) = b
(* ... and the shared counter counts the places with a poisoned batch.     *)
Poison == IsFiniteSet(Marks) /\ poisonedCount = Cardinality(Marks)

Ledger == Unique /\ Known /\ (Lost \/ (Placed /\ Poison))

(* What holds of every step.                                               *)
Onward == doubled \subseteq doubled' /\ setup' = setup /\ (Lost => Lost')

(* What a step leaves of place p.                                          *)
Remains(p) == At(p)' = At(p) /\ (Marked(p)' <=> Marked(p))

LEMMA LedgerSame ==
  ASSUME Ledger, Onward, Places' = Places, \A p \in Places : Remains(p),
         UNCHANGED <<nextIdx, poisonedCount>>
  PROVE  Ledger'
<1>1. Unique' /\ Known' /\ (Placed => Placed')
  BY DEF Ledger, Onward, Remains, Unique, Known, Placed, Sentinel
<1>2. Marks' = Marks
  BY DEF Marks, Remains
<1>. QED
  BY <1>1, <1>2 DEF Ledger, Onward, Poison

(* A batch goes from one place to another.                                 *)
LEMMA LedgerMove ==
  ASSUME Ledger, Onward, NEW old \in Places, NEW new, new \notin Places,
         Places' = (Places \ {old}) \union {new}, \A p \in Places \ {old} : Remains(p),
         At(new)' = At(old), Marked(new)' <=> Marked(old),
         UNCHANGED <<nextIdx, poisonedCount>>
  PROVE  Ledger'
<1>1. Unique' /\ Known' /\ (Placed => Placed')
  BY DEF Ledger, Onward, Remains, Unique, Known, Placed, Sentinel
<1>2. CASE Poison /\ Marked(old)
  <2>1. Marks' = (Marks \ {old}) \union {new} /\ old \in Marks /\ new \notin Marks
    BY <1>2 DEF Marks, Remains
  <2>2. IsFiniteSet(Marks')
    BY <1>2, <2>1, FS_RemoveElement, FS_AddElement DEF Poison
  <2>3. Cardinality(Marks') = Cardinality(Marks)
    <3>1. /\ IsFiniteSet(Marks \ {old}) /\ Cardinality(Marks \ {old}) = Cardinality(Marks) - 1
          /\ Cardinality(Marks) \in Nat
      BY <1>2, <2>1, FS_RemoveElement, FS_CardinalityType DEF Poison
    <3>2. Cardinality(Marks') = Cardinality(Marks \ {old}) + 1
      BY <2>1, <3>1, FS_AddElement
    <3>. QED
      BY <3>1, <3>2
  <2>. QED
    BY <1>1, <1>2, <2>2, <2>3 DEF Ledger, Onward, Poison
<1>3. CASE Poison /\ ~Marked(old)
  <2>1. Marks' = Marks
    BY <1>3 DEF Marks, Remains
  <2>. QED
    BY <1>1, <1>3, <2>1 DEF Ledger, Onward, Poison
<1>4. CASE Lost
  BY <1>1, <1>4 DEF Ledger, Onward
<1>. QED
  BY <1>2, <1>3, <1>4 DEF Ledger

(* A batch appears that was never issued, or one that was deposited twice. *)
LEMMA LedgerAdd ==
  ASSUME Ledger, Onward, NEW new, new \notin Places, nextIdx \in Nat, Sentinel \in Nat,
         Places' = Places \union {new}, \A p \in Places : Remains(p), ~Marked(new)',
         \/ At(new)' = nextIdx /\ nextIdx' = nextIdx + 1
         \/ At(new)' \in doubled' /\ At(new)' \in 0 .. nextIdx - 1 /\ nextIdx' = nextIdx,
         poisonedCount' = poisonedCount
  PROVE  Ledger'
<1>1. Known'
  BY DEF Ledger, Remains, Known
<1>2. Unique'
  BY DEF Ledger, Onward, Remains, Unique, Known
<1>3. Placed => Placed'
  <2>. SUFFICES ASSUME Placed, NEW b \in 0 .. nextIdx' - 1, b # Sentinel
                PROVE  \E p \in Places' : At(p)' = b
    BY DEF Placed, Onward, Sentinel
  <2>1. CASE b = nextIdx
    BY <2>1
  <2>2. CASE b # nextIdx
    <3>1. b \in 0 .. nextIdx - 1
      BY <2>2
    <3>2. PICK p \in Places : At(p) = b
      BY <3>1 DEF Placed
    <3>. QED
      BY <3>2 DEF Remains
  <2>. QED
    BY <2>1, <2>2
<1>4. Marks' = Marks
  BY DEF Marks, Remains
<1>. QED
  BY <1>1, <1>2, <1>3, <1>4 DEF Ledger, Onward, Poison

(* A batch leaves: the sentinel, or one whose worker died with it.         *)
LEMMA LedgerDrop ==
  ASSUME Ledger, Onward, NEW old \in Places, Places' = Places \ {old},
         \A p \in Places \ {old} : Remains(p), UNCHANGED <<nextIdx, poisonedCount>>,
         (At(old) = Sentinel /\ ~Marked(old)) \/ Lost'
  PROVE  Ledger'
<1>1. Unique' /\ Known'
  BY DEF Ledger, Onward, Remains, Unique, Known
<1>2. CASE Lost'
  BY <1>1, <1>2 DEF Ledger
<1>3. CASE At(old) = Sentinel /\ ~Marked(old)
  <2>1. Marks' = Marks
    BY <1>3 DEF Marks, Remains
  <2>2. Placed => Placed'
    BY <1>3 DEF Onward, Remains, Placed, Sentinel
  <2>. QED
    BY <1>1, <2>1, <2>2 DEF Ledger, Onward, Poison
<1>. QED
  BY <1>2, <1>3

(* The first packet goes into hand, and the others move up.                *)
Kills == \A i \in 1 .. Len(escrow) : escrow[i].kills \in Nat

LEMMA LedgerShift ==
  ASSUME Ledger, Onward, NEW w \in Workers, Picks(w), escrow \in Seq(Packet), Kills,
         \A v \in Workers \ {w} : Still(v),
         \A v \in Workers : Settled(v) \in Nat /\ \A i \in 1 .. Settled(v) : memfd'[v][i] = memfd[v][i]
  PROVE  Ledger'
<1>. DEFINE n == Len(escrow)
            Pipes == {Pipe(i) : i \in 1 .. n}
            h == [p \in Places |-> IF p = Pipe(1) THEN Hand(w)
                                   ELSE IF p \in Pipes THEN Pipe(p[2] - 1) ELSE p]
<1>1. /\ n \in Nat /\ n >= 1 /\ Len(escrow') = n - 1 /\ InHand(w)' = escrow[1]
      /\ \A i \in 1 .. n - 1 : escrow'[i] = escrow[i + 1]
      /\ ~Carries(w) /\ Carries(w)' /\ nextIdx' = nextIdx
      /\ \A v \in Workers : Settled(v)' = Settled(v)
  BY DEF Picks, Still
<1>2. \A v \in Workers \ {w} : /\ Carries(v)' <=> Carries(v)
                               /\ Carries(v) => InHand(v)' = InHand(v)
  BY DEF Still
<1>3. \A p \in Places :
        \/ p = Pipe(1) /\ h[p] = Hand(w)
        \/ \E i \in 2 .. n : p = Pipe(i) /\ h[p] = Pipe(i - 1)
        \/ \E v \in Workers \ {w} : Carries(v) /\ p = Hand(v) /\ h[p] = p
        \/ \E v \in Workers : \E i \in 1 .. Settled(v) : p = File(v, i) /\ h[p] = p
  <2>. SUFFICES ASSUME NEW p \in Places
                PROVE  \/ p = Pipe(1) /\ h[p] = Hand(w)
                       \/ \E i \in 2 .. n : p = Pipe(i) /\ h[p] = Pipe(i - 1)
                       \/ \E v \in Workers \ {w} : Carries(v) /\ p = Hand(v) /\ h[p] = p
                       \/ \E v \in Workers : \E i \in 1 .. Settled(v) : p = File(v, i) /\ h[p] = p
    OBVIOUS
  <2>1. CASE p = Pipe(1)
    BY <2>1
  <2>2. ASSUME NEW i \in 2 .. n, p = Pipe(i) PROVE h[p] = Pipe(i - 1)
    <3>1. p # Pipe(1) /\ p \in Pipes /\ p[2] = i
      BY <1>1, <2>2, Distinct DEF Pipe
    <3>. QED
      BY <3>1
  <2>3. ASSUME p \notin Pipes PROVE h[p] = p
    BY <1>1, <2>3
  <2>4. CASE \E i \in 1 .. n : p = Pipe(i)
    BY <1>1, <2>1, <2>2, <2>4
  <2>5. CASE \E v \in Workers : Carries(v) /\ p = Hand(v)
    BY <1>1, <2>3, <2>5, Distinct
  <2>6. CASE \E v \in Workers : \E i \in 1 .. Settled(v) : p = File(v, i)
    BY <2>3, <2>6, Distinct
  <2>. QED
    BY <2>4, <2>5, <2>6, PlaceIs
<1>. HIDE DEF h
<1>4. \A p \in Places : h[p] \in Places'
  BY <1>1, <1>2, <1>3, PlaceIsThen
<1>5. \A q \in Places' : \E p \in Places : h[p] = q
  <2>. SUFFICES ASSUME NEW q \in Places' PROVE \E p \in Places : h[p] = q
    OBVIOUS
  <2>0. Pipe(1) \in Places
    BY <1>1, PlaceIs
  <2>1. ASSUME NEW i \in 1 .. n - 1, q = Pipe(i) PROVE \E p \in Places : h[p] = q
    <3>1. Pipe(i + 1) \in Places /\ i + 1 \in 2 .. n
      BY <1>1, PlaceIs
    <3>2. h[Pipe(i + 1)] = Pipe(i)
      BY <1>3, <3>1, Distinct
    <3>. QED
      BY <2>1, <3>1, <3>2
  <2>2. CASE q = Hand(w)
    BY <1>3, <2>0, <2>2, Distinct
  <2>3. ASSUME NEW v \in Workers \ {w}, Carries(v)', q = Hand(v) PROVE \E p \in Places : h[p] = q
    BY <1>2, <1>3, <2>3, Distinct, PlaceIs
  <2>4. ASSUME NEW v \in Workers, NEW i \in 1 .. Settled(v), q = File(v, i)
        PROVE \E p \in Places : h[p] = q
    <3>1. q \in Places
      BY <2>4, PlaceIs
    <3>2. h[q] = q
      BY <1>3, <2>4, <3>1, Distinct
    <3>. QED
      BY <3>1, <3>2
  <2>. QED
    BY <1>1, <2>1, <2>2, <2>3, <2>4, PlaceIsThen
<1>6. \A p, q \in Places : h[p] = h[q] => p = q
  BY <1>1, <1>3, Distinct
<1>7. \A p, q : p \in Places /\ q = h[p] =>
        At(q)' = At(p) /\ (p # Pipe(1) => (Marked(q)' <=> Marked(p)))
  <2>. SUFFICES ASSUME NEW p, NEW q, p \in Places, q = h[p]
                PROVE  At(q)' = At(p) /\ (p # Pipe(1) => (Marked(q)' <=> Marked(p)))
    OBVIOUS
  <2>1. CASE p = Pipe(1) /\ q = Hand(w)
    BY <1>1, <2>1, PlaceHas, PlaceHasThen
  <2>2. CASE \E i \in 2 .. n : p = Pipe(i) /\ q = Pipe(i - 1)
    <3>1. PICK i \in 2 .. n : p = Pipe(i) /\ q = Pipe(i - 1)
      BY <2>2
    <3>2. escrow'[i - 1] = escrow[i]
      BY <1>1
    <3>3. At(q)' = At(p) /\ (Marked(q)' <=> Marked(p))
      BY <3>1, <3>2, PlaceHas, PlaceHasThen
    <3>. QED
      BY <3>3
  <2>3. CASE \E v \in Workers \ {w} : Carries(v) /\ p = Hand(v) /\ q = p
    BY <1>2, <2>3, PlaceHas, PlaceHasThen
  <2>4. CASE \E v \in Workers : \E i \in 1 .. Settled(v) : p = File(v, i) /\ q = p
    BY <2>4, PlaceHas, PlaceHasThen
  <2>. QED
    BY <1>3, <2>1, <2>2, <2>3, <2>4
<1>8. Unique'
  <2>. SUFFICES ASSUME NEW p \in Places', NEW q \in Places', At(p)' = At(q)', At(p)' \notin doubled'
                PROVE  p = q
    BY DEF Unique
  <2>1. PICK r \in Places : h[r] = p
    BY <1>5
  <2>2. PICK t \in Places : h[t] = q
    BY <1>5
  <2>3. At(r) = At(t) /\ At(r) \notin doubled
    BY <1>7, <2>1, <2>2 DEF Onward
  <2>4. r = t
    BY <2>3 DEF Ledger, Unique
  <2>. QED
    BY <2>1, <2>2, <2>4
<1>9. Known'
  <2>. SUFFICES ASSUME NEW p \in Places' PROVE At(p)' \in 0 .. nextIdx - 1
    BY <1>1 DEF Known
  <2>1. PICK r \in Places : h[r] = p
    BY <1>5
  <2>. QED
    BY <1>7, <2>1 DEF Ledger, Known
<1>10. Placed => Placed'
  <2>. SUFFICES ASSUME Placed, NEW b \in 0 .. nextIdx - 1, b # Sentinel
                PROVE  \E p \in Places' : At(p)' = b
    BY <1>1 DEF Placed, Onward, Sentinel
  <2>1. PICK p \in Places : At(p) = b
    BY DEF Placed
  <2>2. PICK q : q = h[p]
    OBVIOUS
  <2>3. q \in Places' /\ At(q)' = b
    BY <1>4, <1>7, <2>1, <2>2
  <2>. QED
    BY <2>3
<1>11. Poison => Poison'
  <2>. SUFFICES ASSUME Poison PROVE Poison'
    OBVIOUS
  <2>. DEFINE S == Marks \ {Pipe(1)}
              T == Marks' \ {Hand(w)}
              g == [p \in S |-> h[p]]
              k == Head(escrow).kills
  <2>1. Pipe(1) \in Places /\ h[Pipe(1)] = Hand(w) /\ Hand(w) \in Places'
    BY <1>1, <1>3, <1>4, Distinct, PlaceIs
  <2>2. g \in Bijection(S, T)
    <3>1. \A p \in S : h[p] \in T
      BY <1>4, <1>6, <1>7, <2>1 DEF Marks
    <3>2. \A q \in T : \E p \in S : h[p] = q
      BY <1>5, <1>7, <2>1 DEF Marks
    <3>3. \A p, q \in S : h[p] = h[q] => p = q
      BY <1>6 DEF Marks
    <3>4. g \in Injection(S, T)
      BY <3>1, <3>3 DEF Injection, IsInjective
    <3>5. g \in Surjection(S, T)
      BY <3>1, <3>2 DEF Surjection
    <3>. QED
      BY <3>4, <3>5 DEF Bijection
  <2>. HIDE DEF g, S, T
  <2>3. ExistsBijection(S, T)
    BY <2>2 DEF ExistsBijection
  <2>4. IsFiniteSet(S) /\ Cardinality(S) = IF Pipe(1) \in Marks THEN poisonedCount - 1 ELSE poisonedCount
    BY FS_RemoveElement DEF Poison, S
  <2>5. IsFiniteSet(T) /\ Cardinality(T) = Cardinality(S)
    BY <2>3, <2>4, FS_Bijection
  <2>6. k \in Nat /\ poisonedCount \in Nat /\ k = escrow[1].kills /\ InHand(w)'.kills = k
    <3>1. poisonedCount \in Nat
      BY FS_CardinalityType DEF Poison
    <3>2. 1 \in 1 .. Len(escrow) /\ Head(escrow) = escrow[1]
      BY <1>1
    <3>. QED
      BY <1>1, <3>1, <3>2 DEF Kills
  <2>7. Pipe(1) \in Marks <=> k > PoisonThreshold
    BY <2>1, <2>6, PlaceHas DEF Marks
  <2>8. Hand(w) \in Marks' <=> k >= PoisonThreshold
    BY <2>1, <2>6, PlaceHasThen, Threshold DEF Marks
  <2>9. poisonedCount' = IF k >= PoisonThreshold /\ k = PoisonThreshold THEN poisonedCount + 1 ELSE poisonedCount
    BY <2>6, Threshold DEF Picks, CountPoison
  <2>10. Marks' = IF Hand(w) \in Marks' THEN T \union {Hand(w)} ELSE T
    BY DEF T
  <2>11. Hand(w) \notin T
    BY DEF T
  <2>12. /\ IsFiniteSet(Marks')
         /\ Cardinality(Marks') = IF Hand(w) \in Marks' THEN Cardinality(T) + 1 ELSE Cardinality(T)
    BY <2>5, <2>10, <2>11, FS_AddElement
  <2>13. PoisonThreshold \in Nat
    BY PublicationAssumption DEF PoisonThreshold
  <2>14. poisonedCount' = Cardinality(Marks')
    BY <2>4, <2>5, <2>6, <2>7, <2>8, <2>9, <2>12, <2>13
  <2>. QED
    BY <2>12, <2>14 DEF Poison
<1>. QED
  BY <1>8, <1>9, <1>10, <1>11 DEF Ledger, Onward

LEMMA StepOnward ==
  ASSUME Context, [Next]_vars PROVE Onward
<1>0. setup' = setup
  BY OptionsKept
<1>1. doubled \subseteq doubled'
  <2>1. CASE \E w \in Workers : Claims(w)
    BY <2>1 DEF Claims, claimFrame, boundVars, BeginClaim, ClaimPacket, ClaimTicket, NothingYet,
       Recheck, EndOfInput, AlarmLeaves, PublishTxn
  <2>2. CASE \E w \in Workers : Produces(w)
    BY <2>2 DEF Produces, runFrame, boundVars, PayloadDone, SkipPoisoned, PassSentinel, FailSkips,
       FailStops, FailRetries, FinishFrame, BeginCommit, Clear, Notify, NotifyFails
  <2>3. CASE DrainStep \/ Faults
    BY <2>3 DEF DrainStep, DrainReads, DrainMoves, Faults, DrainDies, Kill, drainFrame, boundVars
  <2>4. CASE Supervise
    BY <2>4 DEF Supervise, ReapUnsupervised, RecoverIdle, RecoverRace, RecoverOrphan, Wake,
       WakeFails, Decide, ReapDrain, Join
  <2>5. CASE (outcome = "running" /\ Scan) \/ Over \/ UNCHANGED vars
    BY <2>5 DEF Scan, Over, vars, boundVars
  <2>. QED
    BY <2>1, <2>2, <2>3, <2>4, <2>5 DEF Next, WorkerStep
<1>2. ASSUME Lost PROVE Lost'
  <2>1. PICK v \in Workers : pc[v] = "dead" /\ txn[v].state = "CLAIMING"
    BY <1>2 DEF Lost
  <2>. SUFFICES pc'[v] = pc[v] /\ txn'[v] = txn[v]
    BY <2>1 DEF Lost
  <2>. USE DEF Context, Shape, FileTypes
  <2>2. CASE \E w \in Workers : WorkerStep(w) \/ (outcome = "running" /\ Kill(w))
    <3>1. PICK w \in Workers : WorkerStep(w) \/ Kill(w)
      BY <2>2
    <3>2. Local(w)
      BY <3>1, ClaimFiles, ProduceFiles, KillFiles DEF WorkerStep
    <3>. QED
      BY <2>1, <3>2 DEF Local
  <2>3. CASE \E w \in Workers : ReapUnsupervised(w)
    BY <2>1, <2>3 DEF ReapUnsupervised, Reaped, Goto, Ended
  <2>4. CASE \E w \in Workers : RecoverIdle(w) \/ RecoverOrphan(w)
    BY <2>1, <2>4 DEF RecoverIdle, RecoverOrphan, ClearTxn
  <2>5. CASE Decide
    BY <2>1, <2>5 DEF Decide, SupOK, EndSlot, Respawn, Goto
  <2>6. CASE \/ (\E w \in Workers : RecoverRace(w)) \/ Wake \/ WakeFails \/ ReapDrain \/ Join
             \/ (outcome = "running" /\ Scan)
             \/ DrainStep \/ (outcome = "running" /\ DrainDies) \/ Over \/ UNCHANGED vars
    BY <2>6 DEF RecoverRace, Wake, WakeFails, ReapDrain, Join, Scan, DrainStep, DrainReads,
       DrainMoves, DrainDies, Over, vars, drainFrame
  <2>. QED
    BY <2>2, <2>3, <2>4, <2>5, <2>6 DEF Next, Supervise, Faults
<1>. QED
  BY <1>0, <1>1, <1>2 DEF Onward

(* A place outside worker w's hand keeps its batch.                        *)
LEMMA RemainsAside ==
  ASSUME NEW w, \A v \in Workers \ {w} : Still(v), setup' = setup,
         \A v \in Workers : \A i \in 1 .. Settled(v) : memfd'[v][i] = memfd[v][i],
         \A i \in 1 .. Len(escrow) : escrow'[i] = escrow[i],
         NEW p \in Places, p # Hand(w)
  PROVE  Remains(p)
<1>1. CASE \E i \in 1 .. Len(escrow) : p = Pipe(i)
  BY <1>1, PlaceHas, PlaceHasThen DEF Remains
<1>2. CASE \E v \in Workers : Carries(v) /\ p = Hand(v)
  BY <1>2, PlaceHas, PlaceHasThen DEF Remains, Still
<1>3. CASE \E v \in Workers : \E i \in 1 .. Settled(v) : p = File(v, i)
  BY <1>3, PlaceHas, PlaceHasThen DEF Remains
<1>. QED
  BY <1>1, <1>2, <1>3, PlaceIs

(* Every step keeps the books.                                             *)
LEMMA LedgerStep ==
  ASSUME Context, Ledger, Onward, FilesStep, NEW w \in Workers, Moves(w),
         \A v \in Workers \ {w} : Still(v)
  PROVE  Ledger'
<1>0. /\ nextIdx \in Nat /\ Sentinel \in Nat /\ escrow \in Seq(Packet) /\ setup' = setup
      /\ \A v \in Workers : Settled(v) \in Nat /\ \A i \in 1 .. Settled(v) : memfd'[v][i] = memfd[v][i]
  BY Consts, Lengths DEF Context, Shape, ClaimTypes, Numbers, FilesStep, Kept, Onward
<1>1. \A v \in Workers \ {w} : /\ Carries(v)' <=> Carries(v)
                               /\ Settled(v)' = Settled(v)
  BY DEF Still
<1>2. ASSUME \A i \in 1 .. Len(escrow) : escrow'[i] = escrow[i], NEW p \in Places, p # Hand(w)
      PROVE  Remains(p)
  BY <1>0, <1>2, RemainsAside
<1>3. Carries(w) <=> Hand(w) \in Places
  BY PlaceIs, Distinct
<1>4. Carries(w)' <=> Hand(w) \in Places'
  BY PlaceIsThen, Distinct
<1>5. CASE Quiet(w)
  <2>1. escrow' = escrow /\ Still(w) /\ UNCHANGED <<nextIdx, poisonedCount>>
    BY <1>5 DEF Quiet
  <2>2. Places' = Places
    BY <1>1, <2>1, PlaceIs, PlaceIsThen DEF Still
  <2>3. Hand(w) \in Places => Remains(Hand(w))
    BY <1>3, <2>1, PlaceHas, PlaceHasThen DEF Remains, Still
  <2>. QED
    BY <1>2, <2>1, <2>2, <2>3, LedgerSame
<1>6. CASE Draws(w) \/ Doubles(w)
  <2>1. /\ escrow' = escrow /\ ~Carries(w) /\ Carries(w)' /\ Settled(w)' = Settled(w)
        /\ poisonedCount' = poisonedCount /\ ~IsPoisoned(InHand(w)'.kills)
        /\ \/ InHand(w)'.b = nextIdx /\ nextIdx' = nextIdx + 1
           \/ InHand(w)'.b \in doubled' /\ InHand(w)'.b \in 0 .. nextIdx - 1 /\ nextIdx' = nextIdx
    BY <1>6 DEF Draws, Doubles, IsPoisoned
  <2>2. Places' = Places \union {Hand(w)} /\ Hand(w) \notin Places
    BY <1>1, <1>3, <2>1, PlaceIs, PlaceIsThen
  <2>3. ~Marked(Hand(w))' /\ At(Hand(w))' = InHand(w)'.b
    BY <2>1, PlaceHasThen
  <2>. QED
    BY <1>0, <1>2, <2>1, <2>2, <2>3, LedgerAdd
<1>7. CASE Picks(w)
  BY <1>0, <1>7, LedgerShift DEF Context, Items, Kills
<1>8. CASE Deposits(w)
  <2>0. PICK n \in Nat : n = Len(escrow)
    BY <1>0
  <2>1. /\ escrow' = Append(escrow, [b |-> InHand(w).b, kills |-> InHand(w).kills + 1])
        /\ Carries(w) /\ ~Carries(w)' /\ Settled(w)' = Settled(w)
        /\ UNCHANGED <<nextIdx, poisonedCount>>
    BY <1>8 DEF Deposits, Gives
  <2>2. InHand(w).b \in Int /\ InHand(w).kills \in Nat
    BY DEF Context, Items, InHand
  <2>3. /\ Len(escrow') = n + 1 /\ \A i \in 1 .. n : escrow'[i] = escrow[i]
        /\ escrow'[n + 1] = [b |-> InHand(w).b, kills |-> InHand(w).kills + 1]
    <3>. DEFINE e == [b |-> InHand(w).b, kills |-> InHand(w).kills + 1]
    <3>1. e \in Packet
      BY <2>2 DEF Packet
    <3>. HIDE DEF e
    <3>2. escrow' = Append(escrow, e)
      BY <2>1 DEF e
    <3>3. /\ Len(escrow') = n + 1 /\ \A i \in 1 .. n : escrow'[i] = escrow[i]
          /\ escrow'[n + 1] = e
      BY <1>0, <2>0, <3>1, <3>2
    <3>. QED
      BY <3>3 DEF e
  <2>4. Hand(w) \in Places /\ Pipe(n + 1) \notin Places
    BY <1>3, <2>0, <2>1, <2>3, PlaceIs, Distinct
  <2>5. Places' = (Places \ {Hand(w)}) \union {Pipe(n + 1)}
    <3>1. ASSUME NEW p \in Places' PROVE p \in (Places \ {Hand(w)}) \union {Pipe(n + 1)}
      <4>1. CASE \E i \in 1 .. Len(escrow') : p = Pipe(i)
        BY <2>0, <2>3, <4>1, PlaceIs, Distinct
      <4>2. CASE \E v \in Workers : Carries(v)' /\ p = Hand(v)
        BY <1>1, <2>1, <4>2, PlaceIs, Distinct
      <4>3. CASE \E v \in Workers : \E i \in 1 .. Settled(v)' : p = File(v, i)
        BY <1>1, <2>1, <4>3, PlaceIs, Distinct
      <4>. QED
        BY <4>1, <4>2, <4>3, PlaceIsThen
    <3>2. ASSUME NEW p \in Places, p # Hand(w) PROVE p \in Places'
      BY <1>1, <2>0, <2>1, <2>3, <3>2, PlaceIs, PlaceIsThen
    <3>3. Pipe(n + 1) \in Places'
      BY <2>3, PlaceIsThen
    <3>. QED
      BY <3>1, <3>2, <3>3
  <2>6. At(Pipe(n + 1))' = At(Hand(w)) /\ (Marked(Pipe(n + 1))' <=> Marked(Hand(w)))
    <3>1. IsPoisoned(InHand(w).kills) <=> InHand(w).kills + 1 > PoisonThreshold
      <4>1. PoisonThreshold \in Nat
        BY PublicationAssumption DEF PoisonThreshold
      <4>. QED
        BY <2>2, <4>1, Threshold
    <3>2. /\ At(Pipe(n + 1))' = escrow'[n + 1].b
          /\ (Marked(Pipe(n + 1))' <=> escrow'[n + 1].kills > PoisonThreshold)
      BY <2>3, PlaceHasThen
    <3>. QED
      BY <2>3, <3>1, <3>2, PlaceHas
  <2>. QED
    BY <1>2, <2>0, <2>1, <2>3, <2>4, <2>5, <2>6, LedgerMove
<1>9. CASE Settles(w)
  <2>0. PICK n \in Nat : n = Settled(w) + 1
    BY <1>0
  <2>1. /\ escrow' = escrow /\ memfd' = memfd /\ Settled(w)' = n /\ n - 1 = Settled(w) /\ n \in 1 .. n
        /\ Carries(w) /\ ~Carries(w)' /\ UNCHANGED <<nextIdx, poisonedCount>>
        /\ memfd[w][n].b = InHand(w).b
        /\ (memfd[w][n].kind = "poisoned") <=> IsPoisoned(InHand(w).kills)
    BY <1>0, <1>9, <2>0 DEF Settles, Gives, Last
  <2>2. Hand(w) \in Places /\ File(w, n) \notin Places
    BY <1>3, <2>0, <2>1, PlaceIs, Distinct
  <2>3. Places' = (Places \ {Hand(w)}) \union {File(w, n)}
    <3>1. ASSUME NEW p \in Places' PROVE p \in (Places \ {Hand(w)}) \union {File(w, n)}
      <4>1. CASE \E i \in 1 .. Len(escrow') : p = Pipe(i)
        BY <2>1, <4>1, PlaceIs, Distinct
      <4>2. CASE \E v \in Workers : Carries(v)' /\ p = Hand(v)
        BY <1>1, <2>1, <4>2, PlaceIs, Distinct
      <4>3. CASE \E v \in Workers : \E i \in 1 .. Settled(v)' : p = File(v, i)
        <5>1. PICK v \in Workers : \E i \in 1 .. Settled(v)' : p = File(v, i)
          BY <4>3
        <5>2. PICK i \in 1 .. Settled(v)' : p = File(v, i)
          BY <5>1
        <5>3. i \in 1 .. Settled(v) \/ p = File(w, n)
          BY <1>0, <1>1, <2>0, <2>1, <5>2
        <5>. QED
          BY <5>2, <5>3, PlaceIs, Distinct
      <4>. QED
        BY <4>1, <4>2, <4>3, PlaceIsThen
    <3>2. ASSUME NEW p \in Places, p # Hand(w) PROVE p \in Places'
      <4>1. \A v \in Workers : \A i \in 1 .. Settled(v) : i \in 1 .. Settled(v)'
        BY <1>0, <1>1, <2>0, <2>1
      <4>. QED
        BY <1>1, <2>1, <3>2, <4>1, PlaceIs, PlaceIsThen
    <3>3. File(w, n) \in Places'
      BY <2>1, PlaceIsThen
    <3>. QED
      BY <3>1, <3>2, <3>3
  <2>4. At(File(w, n))' = At(Hand(w)) /\ (Marked(File(w, n))' <=> Marked(Hand(w)))
    BY <2>1, PlaceHas, PlaceHasThen
  <2>. QED
    BY <1>2, <2>1, <2>2, <2>3, <2>4, LedgerMove
<1>10. CASE Passes(w) \/ Loses(w)
  <2>1. /\ escrow' = escrow /\ Settled(w)' = Settled(w)
        /\ Carries(w) /\ ~Carries(w)' /\ UNCHANGED <<nextIdx, poisonedCount>>
        /\ (InHand(w).b = Sentinel /\ ~IsPoisoned(InHand(w).kills)) \/ Lost'
    BY <1>10 DEF Passes, Loses, Gives, Lost
  <2>2. Hand(w) \in Places /\ Places' = Places \ {Hand(w)}
    BY <1>1, <1>3, <1>4, <2>1, PlaceIs, PlaceIsThen, Distinct
  <2>3. (At(Hand(w)) = Sentinel /\ ~Marked(Hand(w))) \/ Lost'
    BY <2>1, PlaceHas
  <2>. QED
    BY <1>2, <2>1, <2>2, <2>3, LedgerDrop
<1>. QED
  BY <1>5, <1>6, <1>7, <1>8, <1>9, <1>10 DEF Moves

-------------------------------------------------------------------------------
(* Types                                                                   *)

LEMMA NumbersStep ==
  ASSUME Context, [Next]_vars PROVE Numbers'
<1>0. /\ Sentinel' = Sentinel /\ Sentinel \in Nat /\ written \in Int /\ nextIdx \in Int
      /\ poisonedCount \in Nat /\ committed \in Nat
  BY OptionsKept, Consts DEF Context, Numbers, Sentinel
<1>. SUFFICES /\ written' \in 0 .. Sentinel + 1 /\ nextIdx' \in 0 .. written'
              /\ poisonedCount' \in Nat /\ committed' \in Nat
  BY <1>0 DEF Numbers
<1>. USE DEF Context, Numbers
<1>1. ASSUME NEW w \in Workers, ClaimPacket(w) PROVE Numbers'
  BY <1>0, <1>1 DEF ClaimPacket, CountPoison, claimFrame
<1>2. ASSUME NEW w \in Workers, ClaimTicket(w) PROVE Numbers'
  BY <1>0, <1>2 DEF ClaimTicket, TicketsLeft, claimFrame
<1>3. ASSUME NEW w \in Workers, Claims(w), ~ClaimPacket(w), ~ClaimTicket(w) PROVE Numbers'
  <2>1. UNCHANGED <<written, nextIdx, poisonedCount, committed>>
    BY <1>3 DEF Claims, claimFrame, inputVars, countVars, BeginClaim, NothingYet, Recheck, EndOfInput,
       AlarmLeaves, PublishTxn
  <2>. QED
    BY <1>0, <2>1
<1>4. ASSUME NEW w \in Workers, BeginCommit(w) PROVE Numbers'
  <2>1. /\ UNCHANGED <<written, nextIdx, poisonedCount>> /\ committed' = committed + count[w]
        /\ count[w] \in Nat
    BY <1>4 DEF BeginCommit, runFrame, inputVars, Flags
  <2>. QED
    BY <1>0, <2>1
<1>5. ASSUME NEW w \in Workers, Produces(w), ~BeginCommit(w) PROVE Numbers'
  <2>1. UNCHANGED <<written, nextIdx, poisonedCount, committed>>
    BY <1>5 DEF Produces, runFrame, inputVars, countVars, PayloadDone, SkipPoisoned, PassSentinel,
       FailSkips, FailStops, FailRetries, FinishFrame, Clear, Notify, NotifyFails
  <2>. QED
    BY <1>0, <2>1
<1>6. CASE DrainStep \/ Supervise \/ Faults \/ Over \/ UNCHANGED vars
  <2>1. UNCHANGED <<written, nextIdx, poisonedCount, committed>>
    <3>1. CASE DrainStep \/ Faults \/ Over \/ UNCHANGED vars
      BY <3>1 DEF DrainStep, DrainReads, DrainMoves, Faults, DrainDies, Kill, drainFrame, Over, vars,
         inputVars, countVars
    <3>2. CASE Supervise
      BY <3>2 DEF Supervise, supFrame, inputVars, countVars, ReapUnsupervised, RecoverIdle,
         RecoverRace, RecoverOrphan, Wake, WakeFails, Decide, ReapDrain, Join
    <3>. QED
      BY <1>6, <3>1, <3>2
  <2>. QED
    BY <1>0, <2>1
<1>7. CASE Scan
  BY <1>0, <1>7 DEF Scan, Scanned, Sentinel, countVars
<1>. QED
  BY <1>0, <1>1, <1>2, <1>3, <1>4, <1>5, <1>6, <1>7 DEF Next, WorkerStep

LEMMA EndsFlags ==
  ASSUME Flags, NEW w \in Workers, NEW zero \in BOOLEAN, ProcessEnds(w, zero)
  PROVE  /\ count' \in [Workers -> Nat] /\ incarn' \in [Workers -> Nat]
         /\ exitZero' \in [Workers -> BOOLEAN] /\ drain' \in [Workers -> BOOLEAN]
<1>1. count' \in [Workers -> Nat] /\ incarn' \in [Workers -> Nat]
  BY DEF Flags, ProcessEnds
<1>2. exitZero' \in [Workers -> BOOLEAN]
  BY DEF Flags, ProcessEnds
<1>3. drain' \in [Workers -> BOOLEAN]
  BY DEF Flags, ProcessEnds
<1>. QED
  BY <1>1, <1>2, <1>3

LEMMA FlagsStep ==
  ASSUME Context, [Next]_vars PROVE Flags'
<1>. USE DEF Context, Flags
<1>1. ASSUME NEW w \in Workers, Claims(w) PROVE Flags'
  <2>1. CASE BeginClaim(w) \/ Recheck(w) \/ PublishTxn(w)
    BY <2>1 DEF BeginClaim, Recheck, PublishTxn, claimFrame, escrowVars, drainVars
  <2>2. CASE ClaimPacket(w) \/ ClaimTicket(w) \/ NothingYet(w)
    <3>1. Drains(w) \in BOOLEAN
      BY DEF Drains
    <3>. QED
      BY <2>2, <3>1 DEF ClaimPacket, ClaimTicket, NothingYet, claimFrame, drainVars, TakeSignal
  <2>3. CASE EndOfInput(w) \/ AlarmLeaves(w)
    <3>1. /\ ProcessEnds(w, TRUE) \/ ProcessEnds(w, FALSE)
          /\ pending' \in BOOLEAN /\ UNCHANGED <<alarm, drainUp, outcome>>
      BY <2>3 DEF EndOfInput, AlarmLeaves, escrowVars, drainVars
    <3>. QED
      BY <3>1, EndsFlags
  <2>. QED
    BY <1>1, <2>1, <2>2, <2>3 DEF Claims
<1>2. ASSUME NEW w \in Workers, Produces(w) PROVE Flags'
  <2>1. CASE PayloadDone(w) \/ SkipPoisoned(w) \/ PassSentinel(w) \/ FailSkips(w) \/ Clear(w) \/ Notify(w)
    BY <2>1 DEF PayloadDone, SkipPoisoned, PassSentinel, FailSkips, Clear, Notify, runFrame,
       escrowVars, drainVars
  <2>2. CASE FailStops(w) \/ NotifyFails(w)
    <3>1. /\ ProcessEnds(w, FALSE)
          /\ alarm' \in BOOLEAN /\ UNCHANGED <<pending, drainUp, outcome>>
      BY <2>2 DEF FailStops, NotifyFails, escrowVars, drainVars
    <3>. QED
      BY <3>1, EndsFlags
  <2>3. CASE FailRetries(w) \/ FinishFrame(w) \/ BeginCommit(w)
    <3>1. UNCHANGED <<alarm, drainUp, outcome, exitZero, drain, incarn>> /\ pending' \in BOOLEAN
      BY <2>3 DEF FailRetries, FinishFrame, BeginCommit, runFrame, escrowVars, drainVars
    <3>2. count' \in [Workers -> Nat]
      BY <2>3 DEF FailRetries, FinishFrame, BeginCommit
    <3>. QED
      BY <3>1, <3>2
  <2>. QED
    BY <1>2, <2>1, <2>2, <2>3 DEF Produces
<1>3. ASSUME NEW w \in Workers, Kill(w) PROVE Flags'
  <2>1. ProcessEnds(w, FALSE) /\ UNCHANGED <<pending, alarm, drainUp, outcome>>
    BY <1>3 DEF Kill, escrowVars, drainVars
  <2>. QED
    BY <2>1, EndsFlags
<1>4. CASE DrainStep \/ DrainDies \/ Over \/ UNCHANGED vars
  <2>1. /\ UNCHANGED <<pending, alarm, outcome, count, incarn, exitZero, drain>>
        /\ drainUp' = drainUp \/ drainUp' = FALSE
    BY <1>4 DEF DrainStep, DrainReads, DrainMoves, DrainDies, drainFrame, Over, vars, escrowVars,
       workerVars, drainVars
  <2>. QED
    BY <2>1
<1>5. CASE Supervise
  <2>1. CASE \E w \in Workers : ReapUnsupervised(w) \/ RecoverIdle(w) \/ RecoverRace(w) \/ RecoverOrphan(w)
    BY <2>1 DEF ReapUnsupervised, RecoverIdle, RecoverRace, RecoverOrphan, Bad, supFrame, escrowVars,
       workerVars, drainVars
  <2>2. CASE Wake \/ WakeFails \/ ReapDrain \/ Join
    BY <2>2 DEF Wake, WakeFails, ReapDrain, Join, Bad, supFrame, escrowVars, workerVars, drainVars
  <2>3. CASE Decide
    BY <2>3 DEF Decide, EndSlot, Respawn, Bad, supFrame, escrowVars, workerVars, drainVars
  <2>. QED
    BY <1>5, <2>1, <2>2, <2>3 DEF Supervise
<1>6. CASE outcome = "running" /\ Scan
  BY <1>6 DEF Scan, escrowVars, workerVars, drainVars
<1>. QED
  BY <1>1, <1>2, <1>3, <1>4, <1>5, <1>6 DEF Next, WorkerStep, Faults

(* What worker w holds, records and has written is of batches of the run,  *)
(* and so are the packets.                                                 *)
Mine(w) ==
  /\ hold[w].b \in -1 .. Sentinel /\ hold[w].kills \in Nat
  /\ txn[w].b \in -1 .. Sentinel /\ txn[w].kills \in Nat
  /\ \A i \in 1 .. Len(memfd[w]) : memfd[w][i].b \in 0 .. Sentinel
Packed == \A i \in 1 .. Len(escrow) : escrow[i].b \in 0 .. Sentinel /\ escrow[i].kills \in Nat

LEMMA ItemsOf == Items <=> Packed /\ \A w \in Workers : Mine(w)
BY DEF Items, Packed, Mine

LEMMA AppendPacked ==
  ASSUME Packed, escrow \in Seq(Packet), Sentinel' = Sentinel,
         NEW b \in 0 .. Sentinel, NEW k \in Nat, escrow' = Append(escrow, [b |-> b, kills |-> k])
  PROVE  Packed'
<1>. DEFINE e == [b |-> b, kills |-> k]
<1>1. e \in Packet /\ e.b = b /\ e.kills = k
  BY DEF Packet
<1>. HIDE DEF e
<1>2. escrow' = Append(escrow, e)
  BY DEF e
<1>3. /\ Len(escrow') = Len(escrow) + 1 /\ \A i \in 1 .. Len(escrow) : escrow'[i] = escrow[i]
      /\ escrow'[Len(escrow) + 1] = e /\ Len(escrow) \in Nat
  BY <1>1, <1>2
<1>. QED
  BY <1>1, <1>3 DEF Packed

LEMMA EndsMine ==
  ASSUME ClaimTypes, Sentinel \in Nat, NEW w \in Workers, NEW zero, ProcessEnds(w, zero)
  PROVE  hold'[w].b \in -1 .. Sentinel /\ hold'[w].kills \in Nat
BY DEF ClaimTypes, ProcessEnds, NoHold

LEMMA TxnMine ==
  ASSUME FileTypes, Sentinel \in Nat, NEW w \in Workers, Mine(w),
         \/ txn' = [txn EXCEPT ![w] = [IdleTxn EXCEPT !.state = "CLAIMING"]]
         \/ ClearTxn(w)
         \/ \E s \in States : SetState(w, s)
  PROVE  txn'[w].b \in -1 .. Sentinel /\ txn'[w].kills \in Nat
<1>1. CASE txn' = [txn EXCEPT ![w] = [IdleTxn EXCEPT !.state = "CLAIMING"]]
  <2>1. txn'[w].b = -1 /\ txn'[w].kills = 0
    BY <1>1 DEF FileTypes, IdleTxn
  <2>. QED
    BY <2>1
<1>2. CASE ClearTxn(w)
  <2>1. txn'[w].b = -1 /\ txn'[w].kills = 0
    BY <1>2 DEF FileTypes, IdleTxn, ClearTxn
  <2>. QED
    BY <2>1
<1>3. CASE \E s \in States : SetState(w, s)
  <2>1. txn[w] \in Txn
    BY DEF FileTypes
  <2>2. txn'[w].b = txn[w].b /\ txn'[w].kills = txn[w].kills
    BY <1>3, <2>1 DEF FileTypes, SetState, Txn
  <2>. QED
    BY <2>2 DEF Mine
<1>. QED
  BY <1>1, <1>2, <1>3

LEMMA ClaimItems ==
  ASSUME Context, Sentinel' = Sentinel, NEW w \in Workers, Packed, Mine(w), Claims(w)
  PROVE  Packed' /\ Mine(w)'
<1>0. /\ Sentinel \in Nat /\ nextIdx \in Nat /\ ClaimTypes /\ FileTypes
      /\ written \in Int /\ written <= Sentinel + 1
  BY Consts DEF Context, Numbers, Shape
<1>. USE DEF ClaimTypes, FileTypes
<1>1. memfd' = memfd
  BY DEF Claims, claimFrame, BeginClaim, ClaimPacket, ClaimTicket, NothingYet, Recheck, EndOfInput,
     AlarmLeaves, PublishTxn
<1>2. CASE ClaimPacket(w)
  <2>1. /\ escrow # <<>> /\ escrow' = Tail(escrow) /\ txn' = txn /\ hold'[w] = Head(escrow)
    BY <1>0, <1>2 DEF ClaimPacket, claimFrame
  <2>2. /\ 1 \in 1 .. Len(escrow) /\ Head(escrow) = escrow[1] /\ Len(escrow') = Len(escrow) - 1
        /\ \A i \in 1 .. Len(escrow) - 1 : escrow'[i] = escrow[i + 1] /\ i + 1 \in 1 .. Len(escrow)
    BY <1>0, <2>1
  <2>. QED
    BY <1>0, <1>1, <2>1, <2>2 DEF Packed, Mine
<1>3. CASE ClaimTicket(w)
  <2>1. /\ escrow' = escrow /\ txn' = txn /\ hold'[w] = [b |-> nextIdx, kills |-> 0] /\ nextIdx < written
    BY <1>0, <1>3 DEF ClaimTicket, claimFrame, TicketsLeft
  <2>2. nextIdx \in -1 .. Sentinel
    BY <1>0, <2>1
  <2>. QED
    BY <1>0, <1>1, <2>1, <2>2 DEF Packed, Mine
<1>4. CASE ~ClaimPacket(w) /\ ~ClaimTicket(w)
  <2>1. escrow' = escrow
    BY <1>4 DEF Claims, escrowVars, BeginClaim, NothingYet, Recheck, EndOfInput, AlarmLeaves, PublishTxn
  <2>2. hold'[w].b \in -1 .. Sentinel /\ hold'[w].kills \in Nat
    <3>1. hold' = hold \/ ProcessEnds(w, TRUE) \/ ProcessEnds(w, FALSE)
      BY <1>4 DEF Claims, BeginClaim, NothingYet, Recheck, EndOfInput, AlarmLeaves, PublishTxn
    <3>. QED
      BY <1>0, <3>1, EndsMine DEF Mine
  <2>3. txn'[w].b \in -1 .. Sentinel /\ txn'[w].kills \in Nat
    <3>1. CASE BeginClaim(w) \/ EndOfInput(w) \/ AlarmLeaves(w)
      BY <1>0, <3>1, TxnMine DEF BeginClaim, EndOfInput, AlarmLeaves
    <3>2. CASE NothingYet(w) \/ Recheck(w)
      BY <1>0, <3>2, TxnMine DEF NothingYet, Recheck, States
    <3>3. CASE PublishTxn(w)
      BY <1>0, <3>3 DEF PublishTxn, Mine
    <3>. QED
      BY <1>4, <3>1, <3>2, <3>3 DEF Claims
  <2>. QED
    BY <1>1, <2>1, <2>2, <2>3 DEF Packed, Mine
<1>. QED
  BY <1>2, <1>3, <1>4

LEMMA ProduceItems ==
  ASSUME Context, Sentinel' = Sentinel, NEW w \in Workers, Packed, Mine(w), Job(w), Produces(w)
  PROVE  Packed' /\ Mine(w)'
<1>0. /\ Sentinel \in Nat /\ nextIdx \in Nat /\ ClaimTypes /\ FileTypes /\ nextIdx <= Sentinel + 1
      /\ Phase(w) /\ Cut(w) /\ Len(memfd[w]) \in Nat /\ txn[w].start \in Nat
  BY Consts, Lengths DEF Context, Numbers, Shape, FilesOK
<1>. USE DEF ClaimTypes, FileTypes
<1>1. pc[w] = "run" => hold[w].b \in 0 .. Sentinel
  BY <1>0 DEF Job, Phase, Open
<1>2. Packed'
  <2>1. CASE FailRetries(w)
    <3>1. /\ pc[w] = "run"
          /\ escrow' = Append(escrow, [b |-> hold[w].b, kills |-> hold[w].kills + 1])
      BY <2>1 DEF FailRetries, PayloadFails
    <3>2. hold[w].kills + 1 \in Nat
      BY DEF Mine
    <3>. QED
      BY <1>0, <1>1, <3>1, <3>2, AppendPacked
  <2>2. CASE ~FailRetries(w)
    <3>1. escrow' = escrow
      BY <2>2 DEF Produces, escrowVars, PayloadDone, SkipPoisoned, PassSentinel, FailSkips, FailStops,
         FinishFrame, BeginCommit, Clear, Notify, NotifyFails
    <3>. QED
      BY <3>1 DEF Packed
  <2>. QED
    BY <2>1, <2>2
<1>3. hold'[w].b \in -1 .. Sentinel /\ hold'[w].kills \in Nat
  <2>1. hold' = hold \/ ProcessEnds(w, FALSE) \/ hold' = [hold EXCEPT ![w] = NoHold]
    BY DEF Produces, PayloadDone, SkipPoisoned, PassSentinel, FailSkips, FailStops, FailRetries,
       FinishFrame, BeginCommit, Clear, Notify, NotifyFails
  <2>2. ASSUME hold' = [hold EXCEPT ![w] = NoHold] PROVE hold'[w].b = -1 /\ hold'[w].kills = 0
    BY <1>0, <2>2 DEF NoHold
  <2>3. CASE hold' = hold
    BY <2>3 DEF Mine
  <2>4. CASE ProcessEnds(w, FALSE)
    BY <1>0, <2>4, EndsMine
  <2>5. CASE hold' = [hold EXCEPT ![w] = NoHold]
    BY <1>0, <2>2, <2>5
  <2>. QED
    BY <2>1, <2>3, <2>4, <2>5
<1>4. txn'[w].b \in -1 .. Sentinel /\ txn'[w].kills \in Nat
  <2>1. txn' = txn \/ ClearTxn(w) \/ SetState(w, "COMMITTING")
    BY DEF Produces, PayloadDone, SkipPoisoned, PassSentinel, FailSkips, FailStops, FailRetries,
       FinishFrame, BeginCommit, Clear, Notify, NotifyFails
  <2>. QED
    BY <1>0, <2>1, TxnMine DEF Mine, States
<1>5. \A i \in 1 .. Len(memfd'[w]) : memfd'[w][i].b \in 0 .. Sentinel
  <2>1. CASE PayloadDone(w) \/ SkipPoisoned(w) \/ FailSkips(w)
    <3>1. PICK kind \in Kinds : StartFrame(w, kind) /\ pc[w] = "run"
      BY <2>1 DEF PayloadDone, SkipPoisoned, FailSkips, PayloadFails, Kinds
    <3>. DEFINE r == [b |-> hold[w].b, kind |-> kind, whole |-> FALSE]
    <3>2. r.b = hold[w].b /\ r \in Record
      BY <1>0, <3>1 DEF Record, Packet
    <3>3. memfd'[w] = Append(memfd[w], r)
      BY <1>0, <3>1 DEF StartFrame
    <3>. HIDE DEF r
    <3>4. /\ Len(memfd'[w]) = Len(memfd[w]) + 1 /\ memfd'[w][Len(memfd[w]) + 1] = r
          /\ \A i \in 1 .. Len(memfd[w]) : memfd'[w][i] = memfd[w][i]
      BY <1>0, <3>2, <3>3
    <3>5. ASSUME NEW i \in 1 .. Len(memfd'[w]) PROVE memfd'[w][i].b \in 0 .. Sentinel
      <4>1. CASE i = Len(memfd[w]) + 1
        BY <1>1, <3>1, <3>2, <3>4, <4>1
      <4>2. CASE i \in 1 .. Len(memfd[w])
        BY <3>4, <4>2 DEF Mine
      <4>. QED
        BY <1>0, <3>4, <4>1, <4>2
    <3>. QED
      BY <3>5
  <2>2. CASE FinishFrame(w)
    <3>1. memfd' = [memfd EXCEPT ![w][Len(memfd[w])].whole = TRUE] /\ pc[w] = "frame"
      BY <2>2 DEF FinishFrame, WholeFrame
    <3>2. memfd[w] \in Seq(Record)
      BY <1>0
    <3>. DEFINE n == Len(memfd[w])
                r == [memfd[w][n] EXCEPT !.whole = TRUE]
    <3>3. memfd'[w] = [memfd[w] EXCEPT ![n] = r]
      BY <1>0, <3>1
    <3>4. n \in 1 .. n
      BY <1>0, <3>1 DEF Cut
    <3>5. memfd[w][n] \in Record
      BY <3>2, <3>4
    <3>6. r.b = memfd[w][n].b
      BY <3>5 DEF Record
    <3>. HIDE DEF r
    <3>7. Len(memfd'[w]) = n /\ memfd'[w][n] = r /\ \A i \in 1 .. n : i # n => memfd'[w][i] = memfd[w][i]
      BY <3>2, <3>3, <3>4
    <3>. QED
      BY <3>4, <3>6, <3>7 DEF Mine
  <2>3. CASE ~(PayloadDone(w) \/ SkipPoisoned(w) \/ FailSkips(w) \/ FinishFrame(w))
    <3>1. memfd' = memfd
      BY <2>3 DEF Produces, PassSentinel, FailStops, FailRetries, BeginCommit, Clear, Notify, NotifyFails
    <3>. QED
      BY <3>1 DEF Mine
  <2>. QED
    BY <2>1, <2>2, <2>3
<1>. QED
  BY <1>2, <1>3, <1>4, <1>5 DEF Mine

LEMMA ItemsStep ==
  ASSUME Context, \A v \in Workers : Job(v), [Next]_vars
  PROVE  Items'
<1>0. /\ Sentinel' = Sentinel /\ Packed /\ \A v \in Workers : Mine(v)
      /\ ClaimTypes /\ FileTypes /\ Flags /\ Shape /\ Sentinel \in Nat
  BY OptionsKept, ItemsOf, Consts DEF Context, Sentinel, Shape
<1>. SUFFICES Packed' /\ \A v \in Workers : Mine(v)'
  BY ItemsOf DEF Items, Packed, Mine
<1>. USE DEF ClaimTypes, FileTypes
<1>1. ASSUME NEW v \in Workers, UNCHANGED <<txn[v], hold[v], memfd[v]>> PROVE Mine(v)'
  BY <1>0, <1>1 DEF Mine
<1>2. ASSUME NEW w \in Workers, WorkerStep(w) \/ Kill(w) PROVE Packed' /\ \A v \in Workers : Mine(v)'
  <2>1. \A v \in Workers \ {w} : Mine(v)'
    BY <1>0, <1>1, <1>2, Elsewhere DEF Aside
  <2>2. Packed' /\ Mine(w)'
    <3>1. CASE Kill(w)
      <4>1. ProcessEnds(w, FALSE) /\ UNCHANGED <<escrow, txn, memfd>>
        BY <3>1 DEF Kill, escrowVars
      <4>. QED
        BY <1>0, <4>1, EndsMine DEF Mine, Packed
    <3>. QED
      BY <1>0, <1>2, <3>1, ClaimItems, ProduceItems DEF WorkerStep
  <2>. QED
    BY <2>1, <2>2
<1>3. ASSUME NEW w \in Workers, RecoverOrphan(w) PROVE Packed' /\ \A v \in Workers : Mine(v)'
  <2>1. /\ txn[w].state = "CLAIMED" /\ hold' = hold /\ ClearTxn(w)
        /\ escrow' = Append(escrow, [b |-> txn[w].b, kills |-> txn[w].kills + 1])
        /\ memfd' = [memfd EXCEPT ![w] = SubSeq(memfd[w], 1, txn[w].start)]
    BY <1>3 DEF RecoverOrphan, workerVars, RollBack, Deposited
  <2>2. txn[w].b \in 0 .. Sentinel /\ txn[w].kills + 1 \in Nat
    BY <1>0, <2>1 DEF Job, Open, Mine, Context, Numbers
  <2>3. Packed'
    BY <1>0, <2>1, <2>2, AppendPacked
  <2>4. txn'[w] = IdleTxn /\ \A v \in Workers \ {w} : txn'[v] = txn[v] /\ memfd'[v] = memfd[v]
    BY <1>0, <2>1 DEF ClearTxn
  <2>5. \A i \in 1 .. Len(memfd'[w]) : memfd'[w][i].b \in 0 .. Sentinel
    <3>1. memfd[w] \in Seq(Record) /\ txn[w].start \in Nat /\ txn[w].start <= Len(memfd[w])
      BY <1>0, <2>1, Lengths DEF Context, FilesOK, Cut, Open
    <3>2. /\ Len(memfd'[w]) = txn[w].start
          /\ \A i \in 1 .. txn[w].start : memfd'[w][i] = memfd[w][i]
      BY <1>0, <2>1, <3>1
    <3>3. \A i \in 1 .. Len(memfd[w]) : memfd[w][i].b \in 0 .. Sentinel
      BY <1>0 DEF Mine
    <3>. QED
      BY <3>1, <3>2, <3>3
  <2>6. Mine(w)'
    <3>1. Mine(w)
      BY <1>0
    <3>2. txn'[w].b \in -1 .. Sentinel /\ txn'[w].kills \in Nat
      BY <1>0, <2>1, <3>1, TxnMine
    <3>. QED
      BY <1>0, <2>1, <2>5, <3>1, <3>2 DEF Mine
  <2>. QED
    BY <1>1, <2>1, <2>3, <2>4, <2>6
<1>4. ASSUME NEW w \in Workers, RecoverIdle(w) PROVE Packed' /\ \A v \in Workers : Mine(v)'
  <2>1. ClearTxn(w) /\ UNCHANGED <<escrow, hold, memfd>>
    BY <1>4 DEF RecoverIdle, escrowVars, workerVars
  <2>. QED
    BY <1>0, <2>1 DEF Mine, Packed, ClearTxn, IdleTxn
<1>5. CASE \/ \E w \in Workers : ReapUnsupervised(w) \/ RecoverRace(w)
           \/ Wake \/ WakeFails \/ ReapDrain \/ Join \/ Decide
           \/ outcome = "running" /\ Scan
           \/ DrainStep \/ (outcome = "running" /\ DrainDies) \/ Over \/ UNCHANGED vars
  <2>1. UNCHANGED <<txn, hold, memfd, escrow>>
    BY <1>5 DEF ReapUnsupervised, RecoverRace, Wake, WakeFails, ReapDrain, Join, Decide, EndSlot, Respawn,
       Scan, DrainStep, DrainReads, DrainMoves, DrainDies, Over, vars, drainFrame, escrowVars, workerVars
  <2>. QED
    BY <1>0, <1>1, <2>1 DEF Packed
<1>. QED
  BY <1>2, <1>3, <1>4, <1>5 DEF Next, Supervise, Faults

-------------------------------------------------------------------------------
(* Ends                                                                    *)

(* Nobody ends well before everything was published and claimed.           *)
Closed  == Scanned /\ nextIdx = written
Ends(w) == Ended(w) \/ (sup.at # "wait" /\ sup.w = w /\ sup.rc = 2)

EndOK ==
  \A w \in Workers : /\ Ended(w) => txn[w].state = "IDLE"
                     /\ w \in setup.crew /\ Ends(w) => Closed

LEMMA ClosedStays ==
  ASSUME Closed, Numbers, [Next]_vars PROVE Closed'
<1>1. UNCHANGED <<written, nextIdx>>
  <2>1. CASE \E w \in Workers : Claims(w)
    <3>1. ASSUME NEW w \in Workers PROVE ~ClaimTicket(w)
      <4>1. nextIdx \in Int /\ nextIdx = written
        BY DEF Closed, Numbers
      <4>2. ~TicketsLeft
        BY <4>1 DEF TicketsLeft
      <4>. QED
        BY <4>2 DEF ClaimTicket
    <3>. QED
      BY <2>1, <3>1 DEF Claims, claimFrame, inputVars, BeginClaim, ClaimPacket, NothingYet, Recheck,
         EndOfInput, AlarmLeaves, PublishTxn
  <2>2. CASE \E w \in Workers : Produces(w)
    BY <2>2 DEF Produces, runFrame, inputVars, PayloadDone, SkipPoisoned, PassSentinel, FailSkips,
       FailStops, FailRetries, FinishFrame, BeginCommit, Clear, Notify, NotifyFails
  <2>3. CASE DrainStep \/ Faults \/ Over \/ UNCHANGED vars
    BY <2>3 DEF DrainStep, DrainReads, DrainMoves, Faults, DrainDies, Kill, drainFrame, Over, vars, inputVars
  <2>4. CASE Supervise
    BY <2>4 DEF Supervise, supFrame, inputVars, ReapUnsupervised, RecoverIdle, RecoverRace, RecoverOrphan,
       Wake, WakeFails, Decide, ReapDrain, Join
  <2>5. CASE Scan
    BY <2>5 DEF Scan, Closed
  <2>. QED
    BY <2>1, <2>2, <2>3, <2>4, <2>5 DEF Next, WorkerStep
<1>2. setup' = setup
  BY OptionsKept
<1>. QED
  BY <1>1, <1>2 DEF Closed, Scanned

LEMMA EndStep ==
  ASSUME Context, EndOK, [Next]_vars PROVE EndOK'
<1>0. /\ setup' = setup /\ Shape /\ FileTypes /\ SupOK /\ Flags /\ ClaimTypes
      /\ (Closed => Closed') /\ \A v \in Workers : Phase(v)
  BY OptionsKept, ClosedStays DEF Context, Shape, FilesOK
<1>. USE DEF FileTypes, Flags
<1>1. ASSUME NEW w \in Workers, \A v \in Workers \ {w} : (Ended(v)' => Ended(v)) /\ txn'[v] = txn[v],
             \A v \in Workers \ {w} : Ends(v)' => Ends(v),
             Ended(w)' => txn'[w].state = "IDLE", w \in setup.crew /\ Ends(w)' => Closed'
      PROVE  EndOK'
  BY <1>0, <1>1 DEF EndOK
<1>2. ASSUME NEW w \in Workers, WorkerStep(w) \/ Kill(w) PROVE EndOK'
  <2>1. \A v \in Workers \ {w} : pc'[v] = pc[v] /\ exitZero'[v] = exitZero[v] /\ txn'[v] = txn[v]
    BY <1>0, <1>2, Elsewhere DEF Aside
  <2>2. sup' = sup
    BY <1>2 DEF WorkerStep, Claims, Produces, Kill, claimFrame, runFrame, BeginClaim, ClaimPacket,
       ClaimTicket, NothingYet, Recheck, EndOfInput, AlarmLeaves, PublishTxn, PayloadDone,
       SkipPoisoned, PassSentinel, FailSkips, FailStops, FailRetries, FinishFrame, BeginCommit,
       Clear, Notify, NotifyFails
  <2>3. pc[w] \notin {"dead", "gone"}
    BY <1>0, <1>2, ClaimFiles, ProduceFiles, KillFiles DEF WorkerStep, Local, Context
  <2>4. ~(sup.at # "wait" /\ sup.w = w)
    BY <1>0, <2>3 DEF SupOK
  <2>5. Ended(w)' => txn'[w].state = "IDLE" /\ Closed'
    <3>1. CASE EndOfInput(w)
      <4>1. Eof /\ txn'[w].state = "IDLE"
        BY <1>0, <3>1 DEF EndOfInput, ClearTxn, IdleTxn
      <4>2. Closed
        BY <4>1 DEF Eof, TicketsLeft, Closed, Context, Numbers
      <4>. QED
        BY <1>0, <4>1, <4>2
    <3>2. CASE ~EndOfInput(w)
      <4>1. pc'[w] # "gone" /\ (pc'[w] = "dead" => ~exitZero'[w])
        <5>1. CASE AlarmLeaves(w) \/ FailStops(w) \/ NotifyFails(w) \/ Kill(w)
          BY <1>0, <5>1 DEF AlarmLeaves, FailStops, NotifyFails, Kill, ProcessEnds, Goto
        <5>2. CASE BeginClaim(w) \/ ClaimPacket(w) \/ ClaimTicket(w) \/ NothingYet(w) \/ Recheck(w) \/ PublishTxn(w)
          BY <1>0, <5>2 DEF BeginClaim, ClaimPacket, ClaimTicket, NothingYet, Recheck, PublishTxn, Goto
        <5>3. CASE PayloadDone(w) \/ SkipPoisoned(w) \/ PassSentinel(w) \/ FailSkips(w) \/ FailRetries(w)
                   \/ FinishFrame(w) \/ BeginCommit(w) \/ Clear(w) \/ Notify(w)
          BY <1>0, <5>3 DEF PayloadDone, SkipPoisoned, PassSentinel, FailSkips, FailRetries, FinishFrame,
             BeginCommit, Clear, Notify, StartFrame, Goto
        <5>. QED
          BY <1>2, <3>2, <5>1, <5>2, <5>3 DEF WorkerStep, Claims, Produces
      <4>. QED
        BY <4>1 DEF Ended
    <3>. QED
      BY <3>1, <3>2
  <2>. QED
    BY <1>1, <2>1, <2>2, <2>4, <2>5 DEF Ended, Ends
<1>3. ASSUME NEW w \in Workers, RecoverIdle(w) \/ RecoverOrphan(w) PROVE EndOK'
  <2>1. /\ pc[w] = "dead" /\ sup = Waiting /\ UNCHANGED <<pc, exitZero>> /\ ClearTxn(w) /\ sup'.w = w
        /\ sup'.rc = 2 => RecoverIdle(w) /\ (exitZero[w] \/ Drained)
    BY <1>3 DEF RecoverIdle, RecoverOrphan, Reaped, workerVars
  <2>2. txn'[w].state = "IDLE" /\ \A v \in Workers \ {w} : txn'[v] = txn[v]
    BY <1>0, <2>1, ClearTyped
  <2>3. Drained => Closed
    BY DEF Drained, TicketsLeft, Closed, Context, Numbers
  <2>4. w \in setup.crew /\ Ends(w)' => Closed
    BY <2>1, <2>3 DEF Ends, Ended, EndOK
  <2>5. \A v \in Workers \ {w} : (Ended(v)' => Ended(v)) /\ (Ends(v)' => Ends(v))
    BY <2>1 DEF Ends, Ended
  <2>. QED
    BY <1>0, <1>1, <2>2, <2>4, <2>5
<1>4. ASSUME UNCHANGED <<pc, exitZero, txn>>,
             \/ sup' = Waiting \/ sup' = sup
             \/ sup' = [sup EXCEPT !.at = "decide"] /\ sup.at = "wake"
      PROVE  EndOK'
  <2>1. \A v \in Workers : Ended(v)' = Ended(v) /\ (Ends(v)' => Ends(v))
    BY <1>0, <1>4 DEF Ended, Ends, Waiting, SupOK
  <2>. QED
    BY <1>0, <1>4, <2>1 DEF EndOK
<1>5. ASSUME NEW w \in Workers, ReapUnsupervised(w) PROVE EndOK'
  <2>1. CASE exitZero[w]
    <3>1. pc[w] = "dead" /\ UNCHANGED <<exitZero, txn, sup>> /\ pc' = [pc EXCEPT ![w] = "gone"]
      BY <1>5, <2>1 DEF ReapUnsupervised, Reaped, Goto, workerVars
    <3>2. \A v \in Workers : (Ended(v)' => Ended(v)) /\ (Ends(v)' => Ends(v))
      BY <1>0, <2>1, <3>1 DEF Ended, Ends
    <3>. QED
      BY <1>0, <3>1, <3>2 DEF EndOK
  <2>2. CASE ~exitZero[w]
    <3>1. UNCHANGED <<pc, exitZero, txn>> /\ sup' = Waiting
      BY <1>5, <2>2 DEF ReapUnsupervised, Bad, workerVars
    <3>. QED
      BY <1>4, <3>1
  <2>. QED
    BY <2>1, <2>2
<1>6. CASE Decide
  <2>1. PICK w \in Workers : sup.w = w /\ pc[w] = "dead" /\ txn[w].state = "IDLE"
    BY <1>0, <1>6 DEF Decide, SupOK
  <2>2. sup.at = "decide" /\ UNCHANGED <<exitZero, txn>> /\ sup' = Waiting
    BY <1>6 DEF Decide, Bad, EndSlot, Respawn, workerVars
  <2>3. CASE pc' = pc
    BY <1>4, <2>2, <2>3
  <2>4. CASE pc' # pc
    <3>1. \A v \in Workers \ {w} : pc'[v] = pc[v]
      BY <1>0, <1>6, <2>1, <2>4 DEF Decide, EndSlot, Respawn, Goto
    <3>2. pc'[w] = "idle" \/ (pc'[w] = "gone" /\ sup.rc = 2)
      BY <1>0, <1>6, <2>1, <2>4 DEF Decide, EndSlot, Respawn, Goto
    <3>3. Ends(w)' => Ends(w)
      BY <2>1, <2>2, <3>2 DEF Ends, Ended, Waiting
    <3>4. w \in setup.crew /\ Ends(w)' => Closed'
      BY <1>0, <3>3 DEF EndOK
    <3>5. \A v \in Workers \ {w} : (Ended(v)' => Ended(v)) /\ (Ends(v)' => Ends(v))
      BY <2>2, <3>1 DEF Ended, Ends, Waiting
    <3>. QED
      BY <1>1, <2>1, <2>2, <3>4, <3>5
  <2>. QED
    BY <2>3, <2>4
<1>7. CASE \/ (\E w \in Workers : RecoverRace(w)) \/ Wake \/ WakeFails \/ ReapDrain \/ Join
           \/ (outcome = "running" /\ Scan)
           \/ DrainStep \/ (outcome = "running" /\ DrainDies) \/ Over \/ UNCHANGED vars
  <2>1. /\ UNCHANGED <<pc, exitZero, txn>>
        /\ \/ sup' = Waiting \/ sup' = sup
           \/ sup' = [sup EXCEPT !.at = "decide"] /\ sup.at = "wake"
    BY <1>7 DEF RecoverRace, Wake, WakeFails, ReapDrain, Join, Bad, Scan, DrainStep, DrainReads,
       DrainMoves, DrainDies, Over, vars, drainFrame, workerVars
  <2>. QED
    BY <1>4, <2>1
<1>. QED
  BY <1>2, <1>3, <1>4, <1>5, <1>6, <1>7 DEF Next, Supervise, Faults

-------------------------------------------------------------------------------
(* Who the drain has been told of                                          *)

(* The drain has moved all of worker w's committed output, or will when it *)
(* comes to a signal it has been sent.                                     *)
Announced(w) ==
  \/ Len(results[w]) >= Settled(w)
  \/ held # NoSignal /\ held.w = w /\ held.frontier >= Settled(w)
  \/ \E i \in 1 .. Len(signals) : signals[i].w = w /\ signals[i].frontier >= Settled(w)

(* A worker owes the drain a signal between its commit and its             *)
(* notification, and then the launcher does until it has reaped it.        *)
Square(w) == \/ pc[w] \notin {"notify", "dead"} \/ Ended(w)
             \/ sup.at = "decide" /\ sup.w = w
Owed == drainUp => \A w \in Workers : Square(w) => Announced(w)

LEMMA Heard ==
  ASSUME DrainTypes, NEW v \in Workers, Announced(v), Settled(v)' = Settled(v),
         UNCHANGED <<results, held>>, NEW w \in Workers, signals' = signals \/ Announce(w),
         FileTypes
  PROVE  Announced(v)'
<1>1. CASE signals' = signals
  BY <1>1 DEF Announced
<1>2. CASE Announce(w)
  <2>. DEFINE s == [w |-> w, frontier |-> Len(memfd[w])]
  <2>1. s \in Signal
    BY Lengths DEF Signal
  <2>. HIDE DEF s
  <2>2. signals' = Append(signals, s)
    BY <1>2 DEF Announce, s
  <2>3. /\ Len(signals') = Len(signals) + 1 /\ Len(signals) \in Nat
        /\ \A i \in 1 .. Len(signals) : signals'[i] = signals[i]
    BY <2>1, <2>2 DEF DrainTypes
  <2>. QED
    BY <2>3 DEF Announced
<1>. QED
  BY <1>1, <1>2

LEMMA Signalled ==
  ASSUME DrainTypes, FileTypes, NEW w \in Workers, Announce(w), Settled(w)' = Len(memfd[w])
  PROVE  Announced(w)'
<1>. DEFINE s == [w |-> w, frontier |-> Len(memfd[w])]
<1>1. s \in Signal /\ s.w = w /\ s.frontier = Settled(w)' /\ Len(memfd[w]) \in Nat
  BY Lengths DEF Signal
<1>. HIDE DEF s
<1>2. signals' = Append(signals, s)
  BY DEF Announce, s
<1>3. /\ Len(signals') = Len(signals) + 1 /\ Len(signals) \in Nat
      /\ signals'[Len(signals) + 1] = s
  BY <1>1, <1>2 DEF DrainTypes
<1>4. s.frontier >= Settled(w)'
  BY <1>1
<1>5. \E i \in 1 .. Len(signals') : signals'[i].w = w /\ signals'[i].frontier >= Settled(w)'
  BY <1>1, <1>3, <1>4
<1>. QED
  BY <1>5 DEF Announced

LEMMA DrainHears ==
  ASSUME IInv, DrainReads \/ DrainMoves, NEW v \in Workers, Announced(v)
  PROVE  Announced(v)'
<1>0. /\ DrainTypes /\ FileTypes /\ DrainBehindCommit /\ UNCHANGED <<txn, memfd>>
      /\ Settled(v)' = Settled(v) /\ Settled(v) \in Nat /\ Settled(v) <= Len(memfd[v])
      /\ Len(memfd[v]) \in Nat
  BY Lengths, SettledInFile DEF IInv, Shape, FilesOK, DrainReads, DrainMoves, drainFrame, Settled
<1>1. CASE DrainReads
  <2>1. /\ results' = results /\ held = NoSignal /\ signals # <<>> /\ held' = Head(signals)
        /\ signals' = Tail(signals)
    BY <1>1 DEF DrainReads
  <2>2. /\ signals \in Seq(Signal) /\ Len(signals) \in Nat /\ Len(signals) >= 1
        /\ Len(signals') = Len(signals) - 1 /\ held' = signals[1] /\ signals[1] \in Signal
        /\ \A i \in 1 .. Len(signals) - 1 : signals'[i] = signals[i + 1]
    BY <1>0, <2>1 DEF DrainTypes
  <2>3. held' = NoSignal => signals[1].frontier = 0
    BY <2>2 DEF NoSignal
  <2>4. CASE Len(results[v]) >= Settled(v)
    BY <1>0, <2>1, <2>4 DEF Announced
  <2>5. CASE \E i \in 1 .. Len(signals) : signals[i].w = v /\ signals[i].frontier >= Settled(v)
    <3>1. PICK i \in 1 .. Len(signals) : signals[i].w = v /\ signals[i].frontier >= Settled(v)
      BY <2>5
    <3>2. CASE i = 1
      <4>1. CASE held' = NoSignal
        <5>1. Len(results[v]) \in Nat
          BY <1>0 DEF DrainTypes
        <5>. QED
          BY <1>0, <2>1, <2>3, <3>1, <3>2, <4>1, <5>1 DEF Announced
      <4>2. CASE held' # NoSignal
        BY <1>0, <2>2, <3>1, <3>2, <4>2 DEF Announced
      <4>. QED
        BY <4>1, <4>2
    <3>3. CASE i # 1
      <4>1. i - 1 \in 1 .. Len(signals') /\ signals'[i - 1] = signals[i]
        BY <2>2, <3>3
      <4>. QED
        BY <1>0, <3>1, <4>1 DEF Announced
    <3>. QED
      BY <3>2, <3>3
  <2>. QED
    BY <2>1, <2>4, <2>5 DEF Announced
<1>2. CASE DrainMoves
  <2>. DEFINE w == held.w
              from == Len(results[w])
              to == IF held.frontier < Len(memfd[w]) THEN held.frontier ELSE Len(memfd[w])
              part == SubSeq(memfd[w], from + 1, to)
  <2>1. /\ held # NoSignal /\ signals' = signals
        /\ results' = [results EXCEPT ![w] = results[w] \o part]
    BY <1>2 DEF DrainMoves
  <2>2. /\ w \in Workers /\ held.frontier \in Nat
        /\ memfd[w] \in Seq(Record) /\ results[w] \in Seq(Record)
    BY <1>0, <2>1 DEF DrainTypes, Signal, FileTypes
  <2>3. from \in Nat /\ to \in Nat /\ to <= Len(memfd[w])
    BY <2>2
  <2>. HIDE DEF from, to
  <2>4. part \in Seq(Record) /\ Len(part) = (IF from + 1 <= to THEN to - from ELSE 0)
    BY <2>2, <2>3
  <2>. HIDE DEF part
  <2>5. Len(results[w] \o part) = from + Len(part)
    BY <2>2, <2>4, Concatenated DEF from
  <2>6. /\ Len(results'[w]) >= from /\ Len(results'[w]) >= to
        /\ \A u \in Workers \ {w} : results'[u] = results[u]
    <3>1. results'[w] = results[w] \o part /\ \A u \in Workers \ {w} : results'[u] = results[u]
      BY <1>0, <2>1, <2>2 DEF DrainTypes
    <3>. QED
      BY <2>3, <2>4, <2>5, <3>1
  <2>7. CASE Len(results[v]) >= Settled(v)
    <3>1. Len(results'[v]) >= Settled(v)
      BY <1>0, <2>3, <2>6, <2>7 DEF from
    <3>. QED
      BY <1>0, <3>1 DEF Announced
  <2>8. CASE held.w = v /\ held.frontier >= Settled(v)
    <3>1. to >= Settled(v) /\ w = v
      BY <1>0, <2>2, <2>8 DEF to
    <3>2. Len(results'[v]) >= Settled(v)
      BY <1>0, <2>3, <2>6, <3>1
    <3>. QED
      BY <1>0, <3>2 DEF Announced
  <2>9. CASE \E i \in 1 .. Len(signals) : signals[i].w = v /\ signals[i].frontier >= Settled(v)
    BY <1>0, <2>1, <2>9 DEF Announced
  <2>. QED
    BY <2>7, <2>8, <2>9 DEF Announced
<1>. QED
  BY <1>1, <1>2

(* What worker w's own step does: its file's committed part grows only     *)
(* when it comes to owe a signal.                                          *)
LEMMA OwesOnly ==
  ASSUME Context, NEW w \in Workers, Job(w), Output(w), WorkerStep(w), ~Notify(w),
         pc'[w] # "notify", pc'[w] = "dead" => exitZero'[w]
  PROVE  Settled(w)' = Settled(w) /\ pc[w] \notin {"notify", "dead"}
<1>0. /\ Shape /\ FileTypes /\ Flags /\ Phase(w) /\ Len(memfd[w]) \in Nat
  BY Lengths DEF Context, Shape, FilesOK
<1>. USE DEF FileTypes, Flags
<1>1. CASE Claims(w)
  <2>1. Settled(w)' = Settled(w)
    BY <1>1, ClaimEffects DEF Quiet, Still, Draws, Picks
  <2>. QED
    BY <1>1, <2>1 DEF Claims, BeginClaim, ClaimPacket, ClaimTicket, NothingYet, Recheck, EndOfInput,
       AlarmLeaves, PublishTxn
<1>2. CASE FailStops(w) \/ NotifyFails(w)
  BY <1>0, <1>2 DEF FailStops, NotifyFails, ProcessEnds, Goto
<1>3. CASE PayloadDone(w) \/ SkipPoisoned(w) \/ PassSentinel(w) \/ FailSkips(w) \/ FailRetries(w) \/ FinishFrame(w)
  <2>1. txn' = txn /\ pc[w] \in {"run", "frame"}
    BY <1>3 DEF PayloadDone, SkipPoisoned, PassSentinel, FailSkips, FailRetries, FinishFrame, PayloadFails
  <2>. QED
    BY <1>0, <2>1 DEF Phase, Settled
<1>4. CASE BeginCommit(w)
  <2>1. SetState(w, "COMMITTING") /\ pc[w] = "framed" /\ memfd' = memfd
    BY <1>4 DEF BeginCommit
  <2>2. txn'[w].state = "COMMITTING" /\ txn'[w].start = txn[w].start
    BY <1>0, <2>1, StateTyped DEF States
  <2>. QED
    BY <1>0, <2>1, <2>2 DEF Phase, Settled
<1>5. CASE Clear(w)
  <2>1. /\ pc[w] = "commit" /\ memfd' = memfd /\ txn'[w].state = "IDLE"
        /\ hold[w].b = Sentinel /\ ~IsPoisoned(hold[w].kills)
    BY <1>0, <1>5 DEF Clear, Goto, ClearTxn, IdleTxn
  <2>2. Len(memfd[w]) = txn[w].start /\ txn[w].state = "COMMITTING"
    BY <1>0, <2>1 DEF Job, Output, Wrote, Unframed, Open, Phase
  <2>. QED
    BY <2>1, <2>2 DEF Settled
<1>. QED
  BY <1>1, <1>2, <1>3, <1>4, <1>5 DEF WorkerStep, Produces

LEMMA OwedStep ==
  ASSUME IInv, Context, EndOK, \A v \in Workers : Job(v) /\ Output(v), Owed, [Next]_vars
  PROVE  Owed'
<1>0. /\ Shape /\ FileTypes /\ DrainTypes /\ SupOK /\ Flags /\ ClaimTypes
      /\ \A v \in Workers : Phase(v) /\ Len(memfd[v]) \in Nat
  BY Lengths DEF Context, Shape, FilesOK
<1>. USE DEF FileTypes, Flags
<1>1. ASSUME NEW w \in Workers, WorkerStep(w) PROVE Owed'
  <2>1. \A v \in Workers \ {w} : Aside(v)
    BY <1>0, <1>1, Elsewhere
  <2>2. UNCHANGED <<sup, drainUp, results, held>>
    BY <1>1 DEF WorkerStep, Claims, Produces, claimFrame, runFrame, drainVars, BeginClaim, ClaimPacket,
       ClaimTicket, NothingYet, Recheck, EndOfInput, AlarmLeaves, PublishTxn, PayloadDone,
       SkipPoisoned, PassSentinel, FailSkips, FailStops, FailRetries, FinishFrame, BeginCommit,
       Clear, Notify, NotifyFails
  <2>3. signals' = signals \/ Announce(w)
    BY <1>1 DEF WorkerStep, Claims, Produces, claimFrame, BeginClaim, ClaimPacket,
       ClaimTicket, NothingYet, Recheck, EndOfInput, AlarmLeaves, PublishTxn, PayloadDone,
       SkipPoisoned, PassSentinel, FailSkips, FailStops, FailRetries, FinishFrame, BeginCommit,
       Clear, Notify, NotifyFails
  <2>4. pc[w] \notin {"dead", "gone"}
    BY <1>0, <1>1, ClaimFiles, ProduceFiles DEF WorkerStep, Local, Context
  <2>5. sup.at = "decide" => sup.w # w
    BY <1>0, <2>4 DEF SupOK
  <2>. SUFFICES ASSUME drainUp, NEW v \in Workers, Square(v)' PROVE Announced(v)'
    BY <2>2 DEF Owed
  <2>6. CASE v # w
    <3>1. Square(v) /\ Settled(v)' = Settled(v)
      BY <2>1, <2>2, <2>6 DEF Aside, Square, Ended, Settled
    <3>. QED
      BY <1>0, <2>2, <2>3, <3>1, Heard DEF Owed
  <2>7. CASE v = w /\ Notify(w)
    <3>1. Announce(w) /\ txn[w].state = "IDLE" /\ UNCHANGED <<txn, memfd>>
      BY <1>0, <2>7 DEF Notify, Phase
    <3>2. Settled(w)' = Len(memfd[w])
      BY <3>1 DEF Settled
    <3>. QED
      BY <1>0, <2>7, <3>1, <3>2, Signalled
  <2>8. CASE v = w /\ ~Notify(w)
    <3>1. pc'[w] # "notify" /\ (pc'[w] = "dead" => exitZero'[w])
      BY <2>2, <2>5, <2>8 DEF Square, Ended
    <3>2. Settled(w)' = Settled(w) /\ Square(w)
      BY <1>1, <2>8, <3>1, OwesOnly DEF Square
    <3>. QED
      BY <1>0, <2>2, <2>3, <2>8, <3>2, Heard DEF Owed
  <2>. QED
    BY <2>6, <2>7, <2>8
<1>2. ASSUME NEW w \in Workers, Kill(w) PROVE Owed'
  <2>1. /\ UNCHANGED <<sup, drainUp, results, held, signals, txn, memfd>> /\ pc[w] \notin {"dead", "gone"}
        /\ pc'[w] = "dead" /\ ~exitZero'[w]
    BY <1>0, <1>2 DEF Kill, Alive, drainVars, ProcessEnds, Goto
  <2>2. \A v \in Workers \ {w} : Aside(v)
    BY <1>0, <1>2, Elsewhere
  <2>3. ~Square(w)'
    BY <1>0, <2>1 DEF Square, Ended, SupOK
  <2>4. \A v \in Workers \ {w} : Square(v)' => Square(v)
    BY <2>1, <2>2 DEF Square, Ended, Aside
  <2>. QED
    BY <2>1, <2>3, <2>4 DEF Owed, Announced, Settled
<1>3. CASE DrainReads \/ DrainMoves
  <2>1. UNCHANGED <<pc, exitZero, sup, drainUp>>
    BY <1>3 DEF DrainReads, DrainMoves, drainFrame, workerVars
  <2>2. \A v \in Workers : Square(v)' => Square(v)
    BY <2>1 DEF Square, Ended
  <2>. QED
    BY <1>3, <2>1, <2>2, DrainHears DEF Owed
<1>4. CASE DrainDies
  BY <1>4 DEF DrainDies, Owed
<1>5. ASSUME UNCHANGED <<drainUp, results, held, signals>>, \A v \in Workers : Settled(v)' = Settled(v),
             \A v \in Workers : Square(v)' => Square(v)
      PROVE  Owed'
  BY <1>5 DEF Owed, Announced
<1>6. CASE \/ (\E w \in Workers : RecoverRace(w)) \/ WakeFails \/ ReapDrain \/ Join
           \/ Scan \/ Over \/ UNCHANGED vars
  <2>1. /\ UNCHANGED <<drainUp, results, held, signals, txn, memfd, pc, exitZero>>
        /\ sup' = Waiting \/ sup' = sup
    BY <1>6 DEF RecoverRace, WakeFails, ReapDrain, Join, Bad, Scan, Over, vars, supFrame, drainVars, workerVars
  <2>2. \A v \in Workers : Square(v)' => Square(v)
    BY <2>1 DEF Square, Ended, Waiting
  <2>. QED
    BY <1>5, <2>1, <2>2 DEF Settled
<1>7. ASSUME NEW w \in Workers, ReapUnsupervised(w) PROVE Owed'
  <2>1. /\ UNCHANGED <<drainUp, results, held, signals, txn, memfd, exitZero>> /\ pc[w] = "dead"
        /\ sup' = Waiting \/ sup' = sup
        /\ pc' = pc \/ (exitZero[w] /\ pc' = [pc EXCEPT ![w] = "gone"])
    BY <1>7 DEF ReapUnsupervised, Reaped, Bad, Goto, supFrame, drainVars, workerVars
  <2>2. \A v \in Workers : Square(v)' => Square(v)
    BY <1>0, <2>1 DEF Square, Ended, Waiting
  <2>. QED
    BY <1>5, <2>1, <2>2 DEF Settled
<1>8. ASSUME NEW w \in Workers, RecoverIdle(w) PROVE Owed'
  <2>1. /\ UNCHANGED <<drainUp, results, held, signals, memfd, exitZero, pc>> /\ sup'.at = "wake"
        /\ ClearTxn(w) /\ txn[w].state \in {"IDLE", "WAITING"}
    BY <1>8 DEF RecoverIdle, supFrame, drainVars, workerVars
  <2>2. \A v \in Workers : Square(v)' => Square(v)
    BY <2>1 DEF Square, Ended
  <2>3. \A v \in Workers : Settled(v)' = Settled(v)
    BY <1>0, <2>1, ClearTyped DEF Settled
  <2>. QED
    BY <1>5, <2>1, <2>2, <2>3
<1>9. ASSUME NEW w \in Workers, RecoverOrphan(w) PROVE Owed'
  <2>1. /\ UNCHANGED <<drainUp, results, held, signals, exitZero, pc>> /\ sup'.at = "wake"
    BY <1>9 DEF RecoverOrphan, supFrame, drainVars, workerVars
  <2>2. /\ Deposits(w) /\ \A v \in Workers \ {w} : Aside(v)
    BY <1>9, OrphanEffects
  <2>3. \A v \in Workers : Settled(v)' = Settled(v)
    BY <2>2 DEF Settled, Aside, Deposits
  <2>4. \A v \in Workers : Square(v)' => Square(v)
    BY <2>1 DEF Square, Ended
  <2>. QED
    BY <1>5, <2>1, <2>3, <2>4
<1>10. CASE Wake
  <2>1. /\ UNCHANGED <<drainUp, results, held, txn, memfd, exitZero, pc>> /\ Announce(sup.w)
        /\ sup' = [sup EXCEPT !.at = "decide"]
    BY <1>10 DEF Wake, supFrame, drainVars, workerVars
  <2>2. PICK w \in Workers : sup.w = w /\ pc[w] = "dead" /\ txn[w].state = "IDLE"
    BY <1>0, <1>10 DEF Wake, SupOK
  <2>3. Announced(w)'
    BY <1>0, <2>1, <2>2, Signalled DEF Settled
  <2>4. \A v \in Workers \ {w} : Square(v)' => Square(v)
    BY <1>0, <2>1, <2>2 DEF Square, Ended, SupOK
  <2>5. \A v \in Workers : Announced(v) => Announced(v)'
    BY <1>0, <2>1, <2>2, Heard DEF Settled
  <2>. QED
    BY <2>1, <2>3, <2>4, <2>5 DEF Owed
<1>11. CASE Decide
  <2>1. PICK w \in Workers : sup.w = w /\ pc[w] = "dead" /\ txn[w].state = "IDLE"
    BY <1>0, <1>11 DEF Decide, SupOK
  <2>2. /\ sup.at = "decide" /\ UNCHANGED <<drainUp, results, held, signals, exitZero, txn, memfd>>
        /\ sup' = Waiting
    BY <1>11 DEF Decide, Bad, EndSlot, Respawn, supFrame, drainVars, workerVars
  <2>3. \A v \in Workers \ {w} : pc'[v] = pc[v]
    BY <1>0, <1>11, <2>1 DEF Decide, EndSlot, Respawn, Goto
  <2>4. \A v \in Workers : Square(v)' => Square(v)
    BY <2>1, <2>2, <2>3 DEF Square, Ended, Waiting
  <2>. QED
    BY <1>5, <2>2, <2>4 DEF Settled
<1>. QED
  BY <1>1, <1>2, <1>3, <1>4, <1>6, <1>7, <1>8, <1>9, <1>10, <1>11 DEF Next, Supervise, Faults, DrainStep

-------------------------------------------------------------------------------
(* The count of committed DATA records                                     *)

(* Counted are the DATA records of a file, up to where a claimed           *)
(* transaction began: COMMITTING counts before it commits.                 *)
CountedTo(w) == IF txn[w].state = "CLAIMED" THEN txn[w].start ELSE Len(memfd[w])
Counted ==
  UNION {{File(w, i) : i \in {j \in 1 .. CountedTo(w) : memfd[w][j].kind = "data"}} : w \in Workers}
CommittedOK == IsFiniteSet(Counted) /\ committed = Cardinality(Counted)

LEMMA CountedIs ==
  \A p : p \in Counted <=> \E w \in Workers : \E i \in 1 .. CountedTo(w) :
                             p = File(w, i) /\ memfd[w][i].kind = "data"
BY DEF Counted

LEMMA CountedIsThen ==
  \A p : p \in Counted' <=> \E w \in Workers : \E i \in 1 .. CountedTo(w)' :
                              p = File(w, i) /\ memfd'[w][i].kind = "data"
BY DEF Counted

(* The counted records of worker w stay the same.                          *)
Counts(w) ==
  /\ CountedTo(w)' = CountedTo(w)
  /\ \A i \in 1 .. CountedTo(w) : memfd'[w][i].kind = memfd[w][i].kind

LEMMA CountsSame ==
  ASSUME CommittedOK, committed' = committed, \A w \in Workers : Counts(w)
  PROVE  CommittedOK'
<1>1. \A p : p \in Counted' <=> p \in Counted
  BY CountedIs, CountedIsThen DEF Counts
<1>2. Counted' = Counted
  BY <1>1
<1>. QED
  BY <1>2 DEF CommittedOK

(* The commit counts the record that tl_pending has counted.               *)
LEMMA CommitCounts ==
  ASSUME Context, CommittedOK, NEW w \in Workers, Output(w), BeginCommit(w)
  PROVE  CommittedOK'
<1>0. /\ FileTypes /\ Phase(w) /\ Len(memfd[w]) \in Nat /\ txn[w].start \in Nat
  BY Lengths DEF Context, Shape, FilesOK
<1>1. /\ pc[w] = "framed" /\ SetState(w, "COMMITTING") /\ memfd' = memfd
      /\ committed' = committed + count[w]
  BY DEF BeginCommit
<1>2. /\ txn'[w].state = "COMMITTING" /\ txn[w].state = "CLAIMED"
      /\ \A v \in Workers \ {w} : txn'[v] = txn[v]
  BY <1>0, <1>1, StateTyped DEF States, Phase
<1>3. \A v \in Workers \ {w} : CountedTo(v)' = CountedTo(v)
  BY <1>1, <1>2 DEF CountedTo
<1>4. CountedTo(w) = txn[w].start /\ CountedTo(w)' = Len(memfd[w])
  BY <1>1, <1>2 DEF CountedTo
<1>5. CASE Wrote(w) /\ Last(w).kind = "data"
  <2>1. PICK n \in Nat : n = Len(memfd[w])
    BY <1>0
  <2>2. n = txn[w].start + 1 /\ count[w] = 1 /\ memfd[w][n].kind = "data"
    BY <1>1, <1>5, <2>1 DEF Output, Last
  <2>3. File(w, n) \notin Counted
    BY <1>0, <1>4, <2>2, CountedIs, Distinct
  <2>4. ASSUME NEW p PROVE p \in Counted' <=> p \in Counted \/ p = File(w, n)
    <3>1. ASSUME p \in Counted' PROVE p \in Counted \/ p = File(w, n)
      <4>1. PICK v \in Workers : \E i \in 1 .. CountedTo(v)' : p = File(v, i) /\ memfd'[v][i].kind = "data"
        BY <3>1, CountedIsThen
      <4>2. PICK i \in 1 .. CountedTo(v)' : p = File(v, i) /\ memfd'[v][i].kind = "data"
        BY <4>1
      <4>3. i \in 1 .. CountedTo(v) \/ (v = w /\ i = n)
        BY <1>0, <1>3, <1>4, <2>1, <2>2, <4>2
      <4>. QED
        BY <1>1, <4>2, <4>3, CountedIs
    <3>2. ASSUME p \in Counted PROVE p \in Counted'
      <4>1. \A v \in Workers : \A i \in 1 .. CountedTo(v) : i \in 1 .. CountedTo(v)'
        BY <1>0, <1>3, <1>4, <2>1, <2>2
      <4>. QED
        BY <1>1, <3>2, <4>1, CountedIs, CountedIsThen
    <3>3. File(w, n) \in Counted'
      <4>1. n \in 1 .. CountedTo(w)'
        BY <1>0, <1>4, <2>1, <2>2
      <4>. QED
        BY <1>1, <2>2, <4>1, CountedIsThen
    <3>. QED
      BY <3>1, <3>2, <3>3
  <2>5. Counted' = Counted \union {File(w, n)}
    BY <2>4
  <2>6. IsFiniteSet(Counted') /\ Cardinality(Counted') = Cardinality(Counted) + 1
    BY <2>3, <2>5, FS_AddElement DEF CommittedOK
  <2>. QED
    BY <1>1, <2>2, <2>6 DEF CommittedOK
<1>6. CASE ~(Wrote(w) /\ Last(w).kind = "data")
  <2>1. count[w] = 0
    BY <1>1, <1>6 DEF Output
  <2>2. committed \in Nat
    BY DEF Context, Numbers
  <2>3. \A p : p \in Counted' <=> p \in Counted
    <3>1. CASE Wrote(w)
      <4>1. PICK n \in Nat : n = Len(memfd[w])
        BY <1>0
      <4>2. n = txn[w].start + 1 /\ memfd[w][n].kind # "data"
        BY <1>6, <3>1, <4>1 DEF Output, Last
      <4>3. \A v \in Workers : \A i \in 1 .. CountedTo(v) : i \in 1 .. CountedTo(v)'
        BY <1>0, <1>3, <1>4, <4>1, <4>2
      <4>4. \A v \in Workers : \A i \in 1 .. CountedTo(v)' : i \in 1 .. CountedTo(v) \/ (v = w /\ i = n)
        BY <1>0, <1>3, <1>4, <4>1, <4>2
      <4>. QED
        BY <1>1, <4>2, <4>3, <4>4, CountedIs, CountedIsThen
    <3>2. CASE ~Wrote(w)
      <4>1. Len(memfd[w]) = txn[w].start
        BY <1>1, <1>2, <3>2 DEF Output, Open
      <4>2. \A v \in Workers : CountedTo(v)' = CountedTo(v)
        BY <1>3, <1>4, <4>1
      <4>. QED
        BY <1>1, <4>2, CountedIs, CountedIsThen
    <3>. QED
      BY <3>1, <3>2
  <2>4. Counted' = Counted
    BY <2>3
  <2>. QED
    BY <1>1, <2>1, <2>2, <2>4 DEF CommittedOK
<1>. QED
  BY <1>5, <1>6

LEMMA CommittedStep ==
  ASSUME Context, CommittedOK, \A v \in Workers : Job(v) /\ Output(v), [Next]_vars
  PROVE  CommittedOK'
<1>0. /\ Shape /\ FileTypes /\ Flags /\ ClaimTypes
      /\ \A v \in Workers : /\ Phase(v) /\ Cut(v) /\ Len(memfd[v]) \in Nat /\ txn[v].start \in Nat
                            /\ cursor[v] \in Nat
  BY Lengths DEF Context, Shape, FilesOK
<1>. USE DEF FileTypes, Flags
<1>1. ASSUME NEW w \in Workers, Claims(w) PROVE Counts(w) /\ committed' = committed
  <2>1. memfd' = memfd /\ committed' = committed
    BY <1>1 DEF Claims, claimFrame, countVars, BeginClaim, ClaimPacket, ClaimTicket, NothingYet, Recheck, EndOfInput,
       AlarmLeaves, PublishTxn
  <2>2. CASE BeginClaim(w)
    <3>1. pc[w] = "idle" /\ txn'[w].state = "CLAIMING"
      BY <1>0, <2>2 DEF BeginClaim, IdleTxn
    <3>2. txn[w].state = "CLAIMED" => Len(memfd[w]) = txn[w].start
      BY <3>1 DEF Output, Wrote, Open
    <3>. QED
      BY <2>1, <3>1, <3>2 DEF Counts, CountedTo
  <2>3. CASE ClaimPacket(w) \/ ClaimTicket(w)
    BY <2>1, <2>3 DEF ClaimPacket, ClaimTicket, claimFrame, Counts, CountedTo
  <2>4. CASE NothingYet(w) \/ Recheck(w)
    <3>1. txn[w].state \in {"CLAIMING", "WAITING"} /\ txn'[w].state \in {"CLAIMING", "WAITING"}
      BY <1>0, <2>4, StateTyped DEF NothingYet, Recheck, States, Phase
    <3>. QED
      BY <2>1, <3>1 DEF Counts, CountedTo
  <2>5. CASE EndOfInput(w) \/ AlarmLeaves(w)
    <3>1. txn[w].state \in {"CLAIMING", "WAITING"} /\ txn'[w].state = "IDLE"
      BY <1>0, <2>5, ClearTyped DEF EndOfInput, AlarmLeaves, Phase
    <3>. QED
      BY <2>1, <3>1 DEF Counts, CountedTo
  <2>6. CASE PublishTxn(w)
    <3>1. /\ txn[w].state = "CLAIMING" /\ txn'[w].state = "CLAIMED" /\ txn'[w].start = Len(memfd[w])
      BY <1>0, <2>6 DEF PublishTxn, Phase, Cut
    <3>. QED
      BY <2>1, <3>1 DEF Counts, CountedTo
  <2>. QED
    BY <1>1, <2>1, <2>2, <2>3, <2>4, <2>5, <2>6 DEF Claims
<1>2. ASSUME NEW w \in Workers, Produces(w), ~BeginCommit(w) PROVE Counts(w) /\ committed' = committed
  <2>1. committed' = committed
    BY <1>2 DEF Produces, runFrame, countVars, PayloadDone, SkipPoisoned, PassSentinel,
       FailSkips, FailStops, FailRetries, FinishFrame, Clear, Notify, NotifyFails
  <2>2. CASE PayloadDone(w) \/ SkipPoisoned(w) \/ FailSkips(w)
    <3>1. PICK kind \in Kinds : StartFrame(w, kind) /\ pc[w] = "run" /\ txn' = txn
      BY <2>2 DEF PayloadDone, SkipPoisoned, FailSkips, PayloadFails, Kinds
    <3>. DEFINE r == [b |-> hold[w].b, kind |-> kind, whole |-> FALSE]
    <3>2. r \in Record
      BY <1>0, <3>1 DEF Record, Packet, ClaimTypes
    <3>3. memfd'[w] = Append(memfd[w], r)
      BY <1>0, <3>1 DEF StartFrame
    <3>. HIDE DEF r
    <3>4. \A i \in 1 .. Len(memfd[w]) : memfd'[w][i] = memfd[w][i]
      BY <1>0, <3>2, <3>3
    <3>5. txn[w].state = "CLAIMED" /\ txn[w].start <= Len(memfd[w])
      BY <1>0, <3>1 DEF Phase, Cut, Open
    <3>6. \A i \in 1 .. txn[w].start : memfd'[w][i] = memfd[w][i]
      BY <1>0, <3>4, <3>5
    <3>7. CountedTo(w) = txn[w].start /\ CountedTo(w)' = txn[w].start
      BY <3>1, <3>5 DEF CountedTo
    <3>. QED
      BY <2>1, <3>6, <3>7 DEF Counts
  <2>3. CASE FinishFrame(w)
    <3>1. /\ memfd' = [memfd EXCEPT ![w][Len(memfd[w])].whole = TRUE] /\ pc[w] = "frame" /\ txn' = txn
      BY <2>3 DEF FinishFrame, WholeFrame
    <3>2. /\ memfd[w] \in Seq(Record) /\ txn[w].state = "CLAIMED" /\ txn[w].start <= Len(memfd[w]) - 1
      BY <1>0, <3>1 DEF Phase, Cut
    <3>. DEFINE n == Len(memfd[w])
                r == [memfd[w][n] EXCEPT !.whole = TRUE]
    <3>3. memfd'[w] = [memfd[w] EXCEPT ![n] = r]
      BY <1>0, <3>1
    <3>. HIDE DEF r
    <3>4. \A i \in 1 .. n : i # n => memfd'[w][i] = memfd[w][i]
      BY <3>2, <3>3
    <3>. QED
      BY <1>0, <2>1, <3>1, <3>2, <3>4 DEF Counts, CountedTo
  <2>4. CASE Clear(w)
    <3>1. memfd' = memfd /\ txn[w].state = "COMMITTING" /\ txn'[w].state = "IDLE"
      BY <1>0, <2>4, ClearTyped DEF Clear, Phase
    <3>. QED
      BY <2>1, <3>1 DEF Counts, CountedTo
  <2>5. CASE PassSentinel(w) \/ FailStops(w) \/ FailRetries(w) \/ Notify(w) \/ NotifyFails(w)
    <3>1. UNCHANGED <<memfd, txn>>
      BY <2>5 DEF PassSentinel, FailStops, FailRetries, Notify, NotifyFails
    <3>. QED
      BY <2>1, <3>1 DEF Counts, CountedTo
  <2>. QED
    BY <1>2, <2>2, <2>3, <2>4, <2>5 DEF Produces
<1>3. ASSUME NEW w \in Workers, \A v \in Workers \ {w} : txn'[v] = txn[v] /\ memfd'[v] = memfd[v],
             Counts(w), committed' = committed
      PROVE  CommittedOK'
  BY <1>3, CountsSame DEF Counts, CountedTo
<1>4. ASSUME NEW w \in Workers, WorkerStep(w) PROVE CommittedOK'
  <2>1. \A v \in Workers \ {w} : Aside(v)
    BY <1>0, <1>4, Elsewhere
  <2>2. CASE BeginCommit(w)
    BY <2>2, CommitCounts
  <2>3. CASE ~BeginCommit(w)
    <3>1. Counts(w) /\ committed' = committed
      BY <1>1, <1>2, <1>4, <2>3 DEF WorkerStep
    <3>. QED
      BY <1>3, <2>1, <3>1 DEF Aside
  <2>. QED
    BY <2>2, <2>3
<1>5. ASSUME NEW w \in Workers, RecoverOrphan(w) PROVE CommittedOK'
  <2>1. /\ txn[w].state = "CLAIMED" /\ ClearTxn(w) /\ committed' = committed
        /\ memfd' = [memfd EXCEPT ![w] = SubSeq(memfd[w], 1, txn[w].start)]
    BY <1>5 DEF RecoverOrphan, RollBack, supFrame, countVars
  <2>2. /\ memfd[w] \in Seq(Record) /\ txn[w].start <= Len(memfd[w])
    BY <1>0, <2>1 DEF Cut, Open
  <2>3. /\ Len(memfd'[w]) = txn[w].start
        /\ \A i \in 1 .. txn[w].start : memfd'[w][i] = memfd[w][i]
    BY <1>0, <2>1, <2>2
  <2>4. txn'[w].state = "IDLE" /\ \A v \in Workers \ {w} : txn'[v] = txn[v] /\ memfd'[v] = memfd[v]
    BY <1>0, <2>1, ClearTyped
  <2>5. Counts(w)
    BY <2>1, <2>3, <2>4 DEF Counts, CountedTo
  <2>. QED
    BY <1>3, <2>1, <2>4, <2>5
<1>6. ASSUME NEW w \in Workers, RecoverIdle(w) PROVE CommittedOK'
  <2>1. /\ txn[w].state # "CLAIMED" /\ ClearTxn(w) /\ UNCHANGED <<committed, memfd>>
    BY <1>6 DEF RecoverIdle, supFrame, countVars
  <2>2. txn'[w].state = "IDLE" /\ \A v \in Workers \ {w} : txn'[v] = txn[v]
    BY <1>0, <2>1, ClearTyped
  <2>. QED
    BY <1>3, <2>1, <2>2 DEF Counts, CountedTo
<1>7. CASE \/ \E w \in Workers : ReapUnsupervised(w) \/ RecoverRace(w) \/ Kill(w)
           \/ Wake \/ WakeFails \/ ReapDrain \/ Join \/ Decide \/ Scan
           \/ DrainStep \/ DrainDies \/ Over \/ UNCHANGED vars
  <2>1. UNCHANGED <<txn, memfd, committed>>
    BY <1>7 DEF ReapUnsupervised, RecoverRace, Kill, Wake, WakeFails, ReapDrain, Join, Decide, supFrame,
       Scan, DrainStep, DrainReads, DrainMoves, DrainDies, Over, vars, drainFrame, countVars
  <2>. QED
    BY <2>1, CountsSame DEF Counts, CountedTo
<1>. QED
  BY <1>4, <1>5, <1>6, <1>7 DEF Next, Supervise, Faults

-------------------------------------------------------------------------------
(* Steps                                                                   *)

(* A run that has ended well: nobody is left, and the drain is done.       *)
Success ==
  outcome = "ok" => /\ \A w \in Workers : pc[w] = "gone"
                    /\ signals = <<>> /\ held = NoSignal /\ drainUp

Books ==
  /\ IInv /\ Options /\ Numbers /\ Flags /\ Items
  /\ \A w \in Workers : Job(w) /\ Output(w)
  /\ Ledger /\ EndOK /\ Owed /\ CommittedOK /\ Success

LEMMA SuccessStep ==
  ASSUME Flags, Success, [Next]_vars PROVE Success'
<1>1. CASE UNCHANGED vars
  BY <1>1 DEF vars, drainVars, Success
<1>2. CASE Next /\ outcome # "running"
  BY <1>1, <1>2 DEF Next, WorkerStep, DrainStep, Supervise, Faults, Over
<1>3. CASE Join
  BY <1>3 DEF Join, Success, supFrame, drainVars
<1>4. CASE Next /\ outcome = "running" /\ ~Join
  <2>1. outcome' # "ok"
    <3>1. CASE \E w \in Workers : Claims(w)
      BY <1>4, <3>1 DEF Claims, claimFrame, BeginClaim, ClaimPacket, ClaimTicket, NothingYet, Recheck,
         EndOfInput, AlarmLeaves, PublishTxn
    <3>2. CASE \E w \in Workers : Produces(w)
      BY <1>4, <3>2 DEF Produces, runFrame, PayloadDone, SkipPoisoned, PassSentinel, FailSkips,
         FailStops, FailRetries, FinishFrame, BeginCommit, Clear, Notify, NotifyFails
    <3>3. CASE DrainStep \/ Faults \/ Scan \/ Over
      BY <1>4, <3>3 DEF DrainStep, DrainReads, DrainMoves, Faults, DrainDies, Kill, drainFrame, Scan, Over
    <3>4. CASE Supervise
      BY <1>4, <3>4 DEF Supervise, Bad, ReapUnsupervised, RecoverIdle, RecoverRace, RecoverOrphan, Wake,
         WakeFails, Decide, ReapDrain
    <3>. QED
      BY <1>4, <3>1, <3>2, <3>3, <3>4 DEF Next, WorkerStep
  <2>. QED
    BY <2>1 DEF Success
<1>. QED
  BY <1>1, <1>2, <1>3, <1>4

LEMMA BooksContext ==
  ASSUME Books PROVE Context
<1>1. \A w \in Workers : Ended(w) => txn[w].state = "IDLE"
  BY DEF Books, EndOK
<1>2. ASSUME NEW i \in 1 .. Len(escrow) PROVE escrow[i].b \in 0 .. nextIdx - 1
  <2>1. Pipe(i) \in Places
    BY PlaceIs
  <2>2. PICK p : p = Pipe(i)
    OBVIOUS
  <2>. QED
    BY <2>1, PlaceHas DEF Books, Ledger, Known
<1>. QED
  BY <1>1, <1>2 DEF Books, IInv, Context

LEMMA BooksStep ==
  ASSUME Books, [Next]_vars PROVE Books'
<1>1. Context
  BY BooksContext
<1>2. IInv' /\ FilesStep
  BY StepKeeps DEF Books
<1>3. Options'
  BY OptionsKept DEF Books, Options
<1>4. Numbers' /\ Flags' /\ Items'
  BY <1>1, NumbersStep, FlagsStep, ItemsStep DEF Books
<1>5. /\ \A v \in Workers : Job(v)' /\ Output(v)'
      /\ \E w \in Workers : Moves(w) /\ \A v \in Workers \ {w} : Still(v) /\ memfd'[v] = memfd[v]
  BY <1>1, <1>4, StepMoves DEF Books
<1>6. Onward
  BY <1>1, StepOnward
<1>7. Ledger'
  BY <1>1, <1>2, <1>5, <1>6, LedgerStep DEF Books
<1>8. EndOK' /\ Owed' /\ CommittedOK' /\ Success'
  BY <1>1, EndStep, OwedStep, CommittedStep, SuccessStep DEF Books
<1>. QED
  BY <1>2, <1>3, <1>4, <1>5, <1>7, <1>8 DEF Books

LEMMA BooksInit == Init => Books
<1>. SUFFICES ASSUME Init PROVE Books
  OBVIOUS
<1>1. IInv
  BY StartsWell
<1>2. Options
  BY DEF Init, Options
<1>3. Sentinel \in Nat
  BY <1>2, Consts
<1>4. Numbers /\ Flags
  <2>1. written = 0 /\ nextIdx = 0 /\ poisonedCount = 0 /\ committed = 0
    BY DEF Init
  <2>2. Numbers
    BY <1>3, <2>1 DEF Numbers
  <2>3. /\ count = [w \in Workers |-> 0] /\ incarn = [w \in Workers |-> 0]
        /\ exitZero = [w \in Workers |-> FALSE] /\ drain = [w \in Workers |-> TRUE]
        /\ pending = FALSE /\ alarm = FALSE /\ drainUp = TRUE /\ outcome = "running"
    BY DEF Init
  <2>4. Flags
    BY <2>3 DEF Flags
  <2>. QED
    BY <2>2, <2>4
<1>5. /\ escrow = <<>> /\ nextIdx = 0 /\ poisonedCount = 0 /\ committed = 0
      /\ \A w \in Workers : /\ hold[w] = NoHold /\ txn[w] = IdleTxn /\ memfd[w] = <<>>
                            /\ pc[w] = IF w \in setup.crew THEN "idle" ELSE "gone"
                            /\ count[w] = 0 /\ results[w] = <<>>
      /\ sup = Waiting /\ outcome = "running"
  BY DEF Init
<1>6. \A w \in Workers : /\ txn[w].state = "IDLE" /\ ~Open(w) /\ ~Carries(w) /\ Settled(w) = 0 /\ CountedTo(w) = 0
  BY <1>5 DEF IdleTxn, Open, Carries, Settled, CountedTo
<1>7. Items
  BY <1>3, <1>5 DEF Items, NoHold, IdleTxn
<1>8. \A w \in Workers : Job(w) /\ Output(w)
  BY <1>5, <1>6 DEF Job, Output, Wrote
<1>9. Places = {}
  BY <1>5, <1>6, PlaceIs
<1>10. Ledger
  <2>1. Marks = {}
    BY <1>9 DEF Marks
  <2>2. Poison
    BY <1>5, <2>1, FS_EmptySet DEF Poison
  <2>. QED
    BY <1>5, <1>9, <2>2 DEF Ledger, Unique, Known, Placed
<1>11. EndOK
  BY <1>5, <1>6 DEF EndOK, Ends, Ended, Waiting
<1>12. Owed
  BY <1>5, <1>6 DEF Owed, Announced
<1>13. CommittedOK
  <2>1. Counted = {}
    BY <1>6, CountedIs
  <2>. QED
    BY <1>5, <2>1, FS_EmptySet DEF CommittedOK
<1>14. Success
  BY <1>5 DEF Success
<1>. QED
  BY <1>1, <1>2, <1>4, <1>7, <1>8, <1>10, <1>11, <1>12, <1>13, <1>14 DEF Books

LEMMA BooksInvariant == Spec => []Books
<1>1. Init => Books
  BY BooksInit
<1>2. Books /\ [Next]_vars => Books'
  BY BooksStep
<1>. QED
  BY <1>1, <1>2, PTL DEF Spec

(* Without supervision nobody comes back, and nobody hands on a batch for  *)
(* the dead: while a packet waits, somebody has not ended well.            *)
Staffed == supervise \/ (sup.at = "wait" /\ (escrow = <<>> \/ \E w \in Workers : ~Ended(w)))

LEMMA StaffedStep ==
  ASSUME Context, Staffed, [Next]_vars PROVE Staffed'
<1>0. /\ supervise' = supervise /\ Shape /\ FileTypes /\ Flags /\ ClaimTypes
  BY OptionsKept DEF Context, Shape
<1>. SUFFICES ASSUME ~supervise, sup.at = "wait", escrow = <<>> \/ \E w \in Workers : ~Ended(w)
              PROVE  sup'.at = "wait" /\ (escrow' = <<>> \/ \E w \in Workers : ~Ended(w)')
  BY <1>0 DEF Staffed
<1>. USE DEF FileTypes, Flags
<1>1. ASSUME NEW w \in Workers, WorkerStep(w) \/ Kill(w)
      PROVE  sup' = sup /\ (escrow' = <<>> \/ ~Ended(w)')
  <2>1. sup' = sup
    BY <1>1 DEF WorkerStep, Claims, Produces, Kill, claimFrame, runFrame, BeginClaim, ClaimPacket,
       ClaimTicket, NothingYet, Recheck, EndOfInput, AlarmLeaves, PublishTxn, PayloadDone,
       SkipPoisoned, PassSentinel, FailSkips, FailStops, FailRetries, FinishFrame, BeginCommit,
       Clear, Notify, NotifyFails
  <2>2. CASE EndOfInput(w)
    BY <2>1, <2>2 DEF EndOfInput, Eof
  <2>3. CASE AlarmLeaves(w) \/ FailStops(w) \/ NotifyFails(w) \/ Kill(w)
    BY <1>0, <2>1, <2>3 DEF AlarmLeaves, FailStops, NotifyFails, Kill, ProcessEnds, Goto, Ended
  <2>4. CASE BeginClaim(w) \/ ClaimPacket(w) \/ ClaimTicket(w) \/ NothingYet(w) \/ Recheck(w) \/ PublishTxn(w)
    BY <1>0, <2>1, <2>4 DEF BeginClaim, ClaimPacket, ClaimTicket, NothingYet, Recheck, PublishTxn, Goto, Ended
  <2>5. CASE PayloadDone(w) \/ SkipPoisoned(w) \/ PassSentinel(w) \/ FailSkips(w) \/ FailRetries(w)
             \/ FinishFrame(w) \/ BeginCommit(w) \/ Clear(w) \/ Notify(w)
    BY <1>0, <2>1, <2>5 DEF PayloadDone, SkipPoisoned, PassSentinel, FailSkips, FailRetries, FinishFrame,
       BeginCommit, Clear, Notify, StartFrame, Goto, Ended
  <2>. QED
    BY <1>1, <2>2, <2>3, <2>4, <2>5, <2>1 DEF WorkerStep, Claims, Produces
<1>2. ASSUME NEW w \in Workers, ReapUnsupervised(w)
      PROVE  /\ sup'.at = "wait" /\ escrow' = escrow
             /\ \A v \in Workers : Ended(v)' => Ended(v)
  <2>1. /\ UNCHANGED <<escrow, exitZero>>
        /\ sup' = Waiting \/ sup' = sup
        /\ pc' = pc \/ (exitZero[w] /\ pc[w] = "dead" /\ pc' = [pc EXCEPT ![w] = "gone"])
    BY <1>2 DEF ReapUnsupervised, Reaped, Bad, Goto, escrowVars, workerVars
  <2>2. sup'.at = "wait"
    BY <2>1 DEF Waiting
  <2>3. \A v \in Workers : Ended(v)' => Ended(v)
    BY <1>0, <2>1 DEF Ended
  <2>. QED
    BY <2>1, <2>2, <2>3
<1>3. ASSUME NEW w \in Workers PROVE ~RecoverIdle(w) /\ ~RecoverRace(w) /\ ~RecoverOrphan(w)
  BY DEF RecoverIdle, RecoverRace, RecoverOrphan
<1>4. ~Wake /\ ~WakeFails /\ ~Decide
  BY DEF Wake, WakeFails, Decide
<1>5. CASE ReapDrain \/ Join \/ Scan \/ DrainStep \/ DrainDies \/ Over \/ UNCHANGED vars
  <2>1. /\ UNCHANGED <<escrow, pc, exitZero>>
        /\ sup' = Waiting \/ sup' = sup
    BY <1>5 DEF ReapDrain, Join, Bad, Scan, DrainStep, DrainReads, DrainMoves, DrainDies, Over, vars,
       drainFrame, escrowVars, workerVars
  <2>2. sup'.at = "wait"
    BY <2>1 DEF Waiting
  <2>3. \A v \in Workers : Ended(v)' <=> Ended(v)
    BY <2>1 DEF Ended
  <2>. QED
    BY <2>1, <2>2, <2>3
<1>. QED
  BY <1>1, <1>2, <1>3, <1>4, <1>5 DEF Next, Supervise, Faults

-------------------------------------------------------------------------------
(* What the invariant says of the output                                   *)

LEMMA Retyped ==
  ASSUME NEW A, NEW B, NEW s \in Seq(A), \A i \in 1 .. Len(s) : s[i] \in B
  PROVE  s \in Seq(B)
OBVIOUS

(* What the drain has moved is committed records, one place for one.       *)
LEMMA MovedIs ==
  ASSUME Books
  PROVE  \A p : p \in Moved => /\ p \in Places /\ results[p[1]][p[2]].b = At(p)
                               /\ \E w \in Workers : \E i \in 1 .. Settled(w) : p = File(w, i)
<1>1. ASSUME NEW p, p \in Moved
      PROVE  /\ p \in Places /\ results[p[1]][p[2]].b = At(p)
             /\ \E w \in Workers : \E i \in 1 .. Settled(w) : p = File(w, i)
  <2>1. \A w \in Workers : results[w] \in Seq(Record)
    BY DEF Books, IInv, Shape, DrainTypes
  <2>2. \A w \in Workers : DOMAIN results[w] = 1 .. Len(results[w])
    BY <2>1
  <2>3. PICK w \in Workers : \E i \in 1 .. Len(results[w]) : p = <<w, i>>
    BY <1>1, <2>2 DEF Moved
  <2>4. PICK i \in 1 .. Len(results[w]) : p = <<w, i>>
    BY <2>3
  <2>5. /\ Len(results[w]) <= Settled(w) /\ results[w][i] = memfd[w][i]
        /\ Len(results[w]) \in Nat /\ Settled(w) \in Nat
    BY <2>1, Lengths DEF Books, IInv, Shape, DrainBehindCommit
  <2>6. i \in 1 .. Settled(w) /\ p = File(w, i) /\ p[1] = w /\ p[2] = i
    BY <2>4, <2>5 DEF File
  <2>. QED
    BY <2>5, <2>6, PlaceIs, PlaceHas
<1>. QED
  BY <1>1

(* A run that has ended well has closed every transaction and moved every  *)
(* file to its end.                                                        *)
LEMMA AllMoved ==
  ASSUME Books, outcome = "ok"
  PROVE  /\ nextIdx = Sentinel + 1 /\ ~Lost
         /\ \A w \in Workers : /\ pc[w] = "gone" /\ ~Carries(w) /\ results[w] = memfd[w]
                               /\ Settled(w) = Len(memfd[w]) /\ CountedTo(w) = Len(memfd[w])
<1>1. /\ \A w \in Workers : pc[w] = "gone"
      /\ signals = <<>> /\ held = NoSignal /\ drainUp
  BY DEF Books, Success
<1>2. \A w \in Workers : Ended(w) /\ Square(w) /\ txn[w].state = "IDLE"
  BY <1>1 DEF Ended, Square, Books, EndOK
<1>3. nextIdx = Sentinel + 1
  <2>1. PICK w \in setup.crew : w \in Workers
    BY Consts DEF Books
  <2>. QED
    BY <1>2, <2>1 DEF Books, EndOK, Ends, Closed, Scanned, Sentinel
<1>4. ASSUME NEW w \in Workers
      PROVE  /\ ~Carries(w) /\ results[w] = memfd[w]
             /\ Settled(w) = Len(memfd[w]) /\ CountedTo(w) = Len(memfd[w])
  <2>1. Settled(w) = Len(memfd[w]) /\ CountedTo(w) = Len(memfd[w]) /\ ~Carries(w)
    BY <1>1, <1>2 DEF Settled, CountedTo, Carries, Open
  <2>2. results[w] \in Seq(Record) /\ memfd[w] \in Seq(Record)
    BY DEF Books, IInv, Shape, DrainTypes, FileTypes
  <2>3. Len(results[w]) >= Settled(w)
    BY <1>1, <1>2 DEF Books, Owed, Announced
  <2>4. Len(results[w]) = Len(memfd[w]) /\ \A i \in 1 .. Len(results[w]) : results[w][i] = memfd[w][i]
    BY <2>1, <2>2, <2>3 DEF Books, IInv, DrainBehindCommit
  <2>5. results[w] = memfd[w]
    BY <2>2, <2>4
  <2>. QED
    BY <2>1, <2>5
<1>. QED
  BY <1>1, <1>3, <1>4 DEF Lost

(* Then a place in a file and a place in the drained output are the same.  *)
LEMMA MovedAll ==
  ASSUME Books, outcome = "ok"
  PROVE  /\ \A w \in Workers : \A i \in 1 .. Len(memfd[w]) :
              File(w, i) \in Moved /\ results[w][i] = memfd[w][i]
         /\ \A p \in Moved : \E w \in Workers : \E i \in 1 .. Len(memfd[w]) : p = File(w, i)
<1>1. \A w \in Workers : results[w] = memfd[w] /\ DOMAIN results[w] = 1 .. Len(memfd[w])
  <2>1. \A w \in Workers : results[w] = memfd[w] /\ memfd[w] \in Seq(Record)
    BY AllMoved DEF Books, IInv, Shape, FileTypes
  <2>. QED
    BY <2>1
<1>2. \A w \in Workers : \A i \in 1 .. Len(memfd[w]) : File(w, i) \in Moved
  BY <1>1 DEF Moved, File
<1>3. \A p \in Moved : \E w \in Workers : \E i \in 1 .. Len(memfd[w]) : p = File(w, i)
  BY <1>1 DEF Moved, File
<1>. QED
  BY <1>1, <1>2, <1>3

LEMMA KindsMoved ==
  ASSUME Books, outcome = "ok", NEW kind
  PROVE  \A p : p \in OfKind(kind) <=>
           \E w \in Workers : \E i \in 1 .. Len(memfd[w]) : p = File(w, i) /\ memfd[w][i].kind = kind
<1>1. \A w, i : File(w, i)[1] = w /\ File(w, i)[2] = i
  BY DEF File
<1>2. ASSUME NEW p \in OfKind(kind)
      PROVE  \E w \in Workers : \E i \in 1 .. Len(memfd[w]) : p = File(w, i) /\ memfd[w][i].kind = kind
  BY <1>1, MovedAll DEF OfKind
<1>3. ASSUME NEW w \in Workers, NEW i \in 1 .. Len(memfd[w]), memfd[w][i].kind = kind
      PROVE  File(w, i) \in OfKind(kind)
  BY <1>1, <1>3, MovedAll DEF OfKind
<1>. QED
  BY <1>2, <1>3

LEMMA StaffedEnd ==
  ASSUME Books, Staffed, outcome = "ok", ~supervise PROVE escrow = <<>>
<1>1. \A w \in Workers : Ended(w)
  BY AllMoved DEF Ended
<1>. QED
  BY <1>1 DEF Staffed

LEMMA StaffedInvariant == Spec => [](Books /\ Staffed)
<1>1. Init => Staffed
  BY DEF Init, Staffed, Waiting
<1>2. Books /\ Staffed /\ [Next]_vars => Staffed'
  BY BooksContext, StaffedStep
<1>. QED
  BY <1>1, <1>2, BooksInvariant, PTL DEF Spec

(* The types of Publication, for any crew, number of batches and faults.   *)
THEOREM TypeCorrect == Spec => []TypeOK
<1>1. ASSUME Books PROVE TypeOK
  <2>1. Options /\ Numbers /\ Flags /\ Items /\ ClaimTypes /\ FileTypes /\ DrainTypes /\ DrainBehindCommit
    BY <1>1 DEF Books, IInv, Shape
  <2>2. Sentinel \in Nat
    BY <2>1, Consts
  <2>3. escrow \in Seq([b : 0 .. Sentinel, kills : Nat])
    <3>1. \A i \in 1 .. Len(escrow) : escrow[i] \in [b : 0 .. Sentinel, kills : Nat]
      <4>1. \A i \in 1 .. Len(escrow) : escrow[i] \in Packet
        BY <2>1 DEF ClaimTypes
      <4>. QED
        BY <2>1, <4>1 DEF Items, Packet
    <3>. QED
      BY <2>1, <3>1, Retyped DEF ClaimTypes
  <2>4. ASSUME NEW w \in Workers
        PROVE  /\ memfd[w] \in Seq([b : 0 .. Sentinel, kind : Kinds, whole : BOOLEAN])
               /\ results[w] \in Seq([b : 0 .. Sentinel, kind : Kinds, whole : BOOLEAN])
    <3>. DEFINE R == [b : 0 .. Sentinel, kind : Kinds, whole : BOOLEAN]
    <3>1. memfd[w] \in Seq(Record) /\ results[w] \in Seq(Record)
      BY <2>1 DEF FileTypes, DrainTypes
    <3>2. ASSUME NEW i \in 1 .. Len(memfd[w]) PROVE memfd[w][i] \in R
      <4>1. memfd[w][i] \in Record /\ memfd[w][i].b \in 0 .. Sentinel
        BY <2>1, <3>1 DEF Items
      <4>. QED
        BY <4>1 DEF Record
    <3>3. Settled(w) <= Len(memfd[w]) /\ Settled(w) \in Nat /\ Len(memfd[w]) \in Nat
      BY <1>1, <2>1, SettledInFile, Lengths DEF Books, IInv, FilesOK
    <3>4. Len(results[w]) <= Settled(w) /\ \A i \in 1 .. Len(results[w]) : results[w][i] = memfd[w][i]
      BY <2>1 DEF DrainBehindCommit
    <3>5. \A i \in 1 .. Len(results[w]) : i \in 1 .. Len(memfd[w])
      BY <3>1, <3>3, <3>4
    <3>6. \A i \in 1 .. Len(results[w]) : results[w][i] \in R
      BY <3>2, <3>4, <3>5
    <3>. HIDE DEF R
    <3>7. memfd[w] \in Seq(R)
      BY <3>1, <3>2, Retyped
    <3>8. results[w] \in Seq(R)
      BY <3>1, <3>6, Retyped
    <3>. QED
      BY <3>7, <3>8 DEF R
  <2>5. /\ memfd \in [Workers -> Seq([b : 0 .. Sentinel, kind : Kinds, whole : BOOLEAN])]
        /\ results \in [Workers -> Seq([b : 0 .. Sentinel, kind : Kinds, whole : BOOLEAN])]
    BY <2>1, <2>4 DEF FileTypes, DrainTypes
  <2>6. hold \in [Workers -> [b : -1 .. Sentinel, kills : Nat]]
    <3>1. \A w \in Workers : hold[w] \in Packet /\ hold[w].b \in -1 .. Sentinel /\ hold[w].kills \in Nat
      BY <2>1 DEF ClaimTypes, Items
    <3>2. \A w \in Workers : hold[w] \in [b : -1 .. Sentinel, kills : Nat]
      BY <3>1 DEF Packet
    <3>. QED
      BY <2>1, <3>2 DEF ClaimTypes
  <2>7. txn \in [Workers -> [state : {"IDLE", "WAITING", "CLAIMING", "CLAIMED", "COMMITTING"},
                             b : -1 .. Sentinel, kills : Nat, start : Nat]]
    <3>1. \A w \in Workers : txn[w] \in Txn /\ txn[w].b \in -1 .. Sentinel /\ txn[w].kills \in Nat
      BY <2>1 DEF FileTypes, Items
    <3>2. \A w \in Workers : txn[w] \in [state : {"IDLE", "WAITING", "CLAIMING", "CLAIMED", "COMMITTING"},
                                         b : -1 .. Sentinel, kills : Nat, start : Nat]
      BY <3>1 DEF Txn, States
    <3>. QED
      BY <2>1, <3>2 DEF FileTypes
  <2>8. /\ setup \in Setups /\ policy \in Policies /\ supervise \in BOOLEAN
        /\ written \in 0 .. Sentinel + 1 /\ nextIdx \in 0 .. written
        /\ pending \in BOOLEAN /\ alarm \in BOOLEAN /\ drainUp \in BOOLEAN
        /\ poisonedCount \in Nat /\ committed \in Nat
    BY <2>1 DEF Options, Numbers, Flags
  <2>9. /\ pc \in [Workers -> {"idle", "claim", "wait", "taken", "run", "frame", "framed",
                               "commit", "notify", "dead", "gone"}]
        /\ cursor \in [Workers -> Nat] /\ count \in [Workers -> Nat]
        /\ exitZero \in [Workers -> BOOLEAN] /\ drain \in [Workers -> BOOLEAN] /\ incarn \in [Workers -> Nat]
        /\ outcome \in {"running", "ok", "bad"}
    BY <2>1 DEF FileTypes, Labels, Flags
  <2>. QED
    BY <2>3, <2>5, <2>6, <2>7, <2>8, <2>9 DEF TypeOK
<1>. QED
  BY <1>1, BooksInvariant, PTL

(* No batch reaches the caller twice, whoever died, failed or was recovered *)
(* in between, unless a worker died between its own deposit and its next   *)
(* claim: fr_py_escrow_deposit, fr_py_ack_core, ring_recover_worker_core.  *)
THEOREM OneOutcomeCorrect == Spec => []OneOutcome
<1>1. ASSUME Books PROVE OneOutcome
  <2>. SUFFICES ASSUME NEW b \in 0 .. Sentinel, b \notin doubled PROVE Cardinality(OfBatch(b)) <= 1
    BY DEF OneOutcome
  <2>1. \A p, q \in OfBatch(b) : p = q
    BY <1>1, MovedIs DEF OfBatch, Books, Ledger, Unique
  <2>2. CASE OfBatch(b) = {}
    BY <2>2, FS_EmptySet
  <2>3. CASE OfBatch(b) # {}
    <3>1. PICK p \in OfBatch(b) : TRUE
      BY <2>3
    <3>2. OfBatch(b) = {p}
      BY <2>1
    <3>3. Cardinality(OfBatch(b)) = 1
      BY <3>2, FS_Singleton
    <3>. QED
      BY <3>3
  <2>. QED
    BY <2>2, <2>3
<1>. QED
  BY <1>1, BooksInvariant, PTL

(* A run that reports success has delivered an outcome of every batch that *)
(* no packet in the escrow pipe holds: nothing is lost in a worker, in a   *)
(* file or on the way to the drain (fr_wake_drain_committed).              *)
NothingLost ==
  outcome = "ok" => \A b \in Batches :
                      OfBatch(b) # {} \/ \E i \in 1 .. Len(escrow) : escrow[i].b = b

THEOREM NothingLostCorrect == Spec => []NothingLost
<1>1. ASSUME Books PROVE NothingLost
  <2>. SUFFICES ASSUME outcome = "ok", NEW b \in Batches
                PROVE  OfBatch(b) # {} \/ \E i \in 1 .. Len(escrow) : escrow[i].b = b
    BY DEF NothingLost
  <2>1. b \in 0 .. nextIdx - 1 /\ b # Sentinel
    BY <1>1, AllMoved, Consts DEF Batches, Sentinel, Books
  <2>2. PICK p \in Places : At(p) = b
    BY <1>1, <2>1, AllMoved DEF Books, Ledger, Placed
  <2>3. CASE \E i \in 1 .. Len(escrow) : p = Pipe(i)
    BY <2>2, <2>3, PlaceHas
  <2>4. CASE \E w \in Workers : \E i \in 1 .. Settled(w) : p = File(w, i)
    <3>1. PICK w \in Workers : \E i \in 1 .. Settled(w) : p = File(w, i)
      BY <2>4
    <3>2. PICK i \in 1 .. Settled(w) : p = File(w, i)
      BY <3>1
    <3>3. File(w, i) \in Moved /\ results[w][i].b = b
      BY <1>1, <2>2, <3>2, AllMoved, MovedAll, PlaceHas
    <3>4. File(w, i)[1] = w /\ File(w, i)[2] = i
      BY DEF File
    <3>5. File(w, i) \in OfBatch(b)
      BY <3>3, <3>4 DEF OfBatch
    <3>. QED
      BY <3>5
  <2>. QED
    BY <1>1, <2>3, <2>4, AllMoved, PlaceIs
<1>. QED
  BY <1>1, BooksInvariant, PTL

(* So all results are complete as long as no packet is left behind, which  *)
(* takes a supervised run: without --supervise recover the last worker to  *)
(* leave has seen the pipe empty (fr_py_claim).                            *)
THEOREM CompleteCorrect ==
  Spec => [](escrow = <<>> \/ ~supervise => CompleteResults)
<1>1. ASSUME NothingLost, Books /\ Staffed, escrow = <<>> \/ ~supervise PROVE CompleteResults
  <2>. SUFFICES ASSUME outcome = "ok" PROVE \A b \in Batches : OfBatch(b) # {}
    BY DEF CompleteResults
  <2>1. escrow = <<>>
    BY <1>1, StaffedEnd
  <2>. QED
    BY <1>1, <2>1 DEF NothingLost
<1>. QED
  BY <1>1, NothingLostCorrect, StaffedInvariant, PTL

(* The completeness certificate is exact whoever died when: a DATA record  *)
(* is counted when its transaction turns COMMITTING, and a run in which    *)
(* one is left open there does not succeed (fr_py_ack_core).               *)
THEOREM CountCorrect == Spec => []CountExact
<1>1. ASSUME Books PROVE CountExact
  <2>. SUFFICES ASSUME outcome = "ok" PROVE committed = Cardinality(OfKind("data"))
    BY DEF CountExact
  <2>1. \A p : p \in OfKind("data") <=> p \in Counted
    BY <1>1, KindsMoved, CountedIs, AllMoved
  <2>2. OfKind("data") = Counted
    BY <2>1
  <2>. QED
    BY <1>1, <2>2 DEF Books, CommittedOK
<1>. QED
  BY <1>1, BooksInvariant, PTL

(* The poison counter is the number of POISONED records delivered, under   *)
(* the same condition: a packet left behind may have been counted          *)
(* (fr_py_claim).                                                          *)
THEOREM PoisonCorrect ==
  Spec => [](escrow = <<>> \/ ~supervise => PoisonExact)
<1>1. ASSUME Books /\ Staffed, escrow = <<>> \/ ~supervise PROVE PoisonExact
  <2>. SUFFICES ASSUME outcome = "ok" PROVE poisonedCount = Cardinality(OfKind("poisoned"))
    BY DEF PoisonExact
  <2>1. escrow = <<>>
    BY <1>1, StaffedEnd
  <2>2. \A p : p \in Places <=> \E w \in Workers : \E i \in 1 .. Len(memfd[w]) : p = File(w, i)
    BY <1>1, <2>1, AllMoved, PlaceIs
  <2>3. \A p : p \in Marks <=> \E w \in Workers : \E i \in 1 .. Len(memfd[w]) :
                                 p = File(w, i) /\ memfd[w][i].kind = "poisoned"
    BY <2>2, PlaceHas DEF Marks
  <2>4. Marks = OfKind("poisoned")
    BY <1>1, <2>3, KindsMoved
  <2>. QED
    BY <1>1, <2>4, AllMoved DEF Books, Ledger, Poison
<1>. QED
  BY <1>1, StaffedInvariant, PTL

===============================================================================
