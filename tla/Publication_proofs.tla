-------------------------- MODULE Publication_proofs ---------------------------
(***************************************************************************)
(* For any number of workers, batches, kills and payload failures and any  *)
(* retry limit: the drain stays behind what is committed, and nothing that *)
(* is committed is ever taken back.                                        *)
(*                                                                         *)
(* While a transaction is open its output begins where the record says and *)
(* a rollback cuts there; everything before it is whole records.  Outside  *)
(* a transaction the whole file is, and the worker's cursor stands at its  *)
(* end, so the next transaction begins there.                              *)
(***************************************************************************)
EXTENDS Publication, TLAPS

Open(w) == txn[w].state \in {"CLAIMED", "COMMITTING"}

States == {"IDLE", "WAITING", "CLAIMING", "CLAIMED", "COMMITTING"}
Labels == {"idle", "claim", "wait", "taken", "run", "frame", "framed", "commit",
           "notify", "dead", "gone"}
Packet == [b : Int, kills : Int]
Txn    == [state : States, b : Int, kills : Int, start : Nat]
Record == [b : Int, kind : Kinds, whole : BOOLEAN]
Signal == [w : Workers, frontier : Nat]

(* As much of the types as the argument needs.                             *)
ClaimTypes ==
  /\ nextIdx \in Int /\ escrow \in Seq(Packet) /\ hold \in [Workers -> Packet]
FileTypes ==
  /\ txn \in [Workers -> Txn] /\ pc \in [Workers -> Labels]
  /\ cursor \in [Workers -> Nat] /\ memfd \in [Workers -> Seq(Record)]
DrainTypes ==
  /\ signals \in Seq(Signal) /\ held \in Signal \union {NoSignal}
  /\ results \in [Workers -> Seq(Record)]

(* The launcher handles one death at a time, of a slot whose transaction   *)
(* is closed by then.                                                      *)
SupOK ==
  /\ sup \in [at : {"wait", "wake", "decide"}, w : Workers \union {"none"}, rc : 0 .. 2]
  /\ sup.at # "wait" => sup.w \in Workers /\ pc[sup.w] = "dead" /\ txn[sup.w].state = "IDLE"

Shape == ClaimTypes /\ FileTypes /\ DrainTypes /\ SupOK

(* The control point of a worker and the state of its transaction.         *)
Phase(w) ==
  /\ pc[w] = "idle" => txn[w].state \in {"IDLE", "CLAIMED"}
  /\ pc[w] \in {"claim", "taken"} => txn[w].state = "CLAIMING"
  /\ pc[w] = "wait" => txn[w].state = "WAITING"
  /\ pc[w] \in {"run", "frame", "framed"} => txn[w].state = "CLAIMED"
  /\ pc[w] = "commit" => txn[w].state = "COMMITTING"
  /\ pc[w] = "notify" => txn[w].state = "IDLE"

(* The first n records of a file are whole.                                *)
WholeTo(w, n) == \A i \in 1 .. n : memfd[w][i].whole

(* Where the transaction, the cursor and the torn record stand.            *)
Cut(w) ==
  /\ Open(w) => txn[w].start <= Len(memfd[w])
  /\ pc[w] = "frame" => /\ cursor[w] = Len(memfd[w]) - 1
                        /\ txn[w].start <= Len(memfd[w]) - 1
                        /\ WholeTo(w, Len(memfd[w]) - 1)
  /\ pc[w] \notin {"frame", "dead", "gone"} => /\ cursor[w] = Len(memfd[w])
                                               /\ WholeTo(w, Len(memfd[w]))
  /\ WholeTo(w, Settled(w))

FilesOK == \A w \in Workers : Phase(w) /\ Cut(w)

IInv == Shape /\ FilesOK /\ DrainBehindCommit

-------------------------------------------------------------------------------
(* Types                                                                   *)

LEMMA ShapeInit == Init => Shape
<1>. SUFFICES ASSUME Init PROVE Shape
  OBVIOUS
<1>1. ClaimTypes
  BY DEF Init, ClaimTypes, Packet, NoHold
<1>2. txn \in [Workers -> Txn]
  BY DEF Init, IdleTxn, Txn, States
<1>3. FileTypes
  BY <1>2 DEF Init, FileTypes, Labels
<1>4. DrainTypes
  BY DEF Init, DrainTypes
<1>5. SupOK
  BY DEF Init, SupOK, Waiting
<1>. QED
  BY <1>1, <1>3, <1>4, <1>5 DEF Shape

(* The updates the actions are made of.                                    *)
LEMMA StateTyped ==
  ASSUME FileTypes, NEW w \in Workers, NEW s \in States, SetState(w, s)
  PROVE  /\ txn' \in [Workers -> Txn]
         /\ txn'[w].state = s /\ txn'[w].start = txn[w].start
         /\ \A v \in Workers \ {w} : txn'[v] = txn[v]
BY DEF FileTypes, Txn, SetState

LEMMA ClearTyped ==
  ASSUME FileTypes, NEW w \in Workers, ClearTxn(w)
  PROVE  /\ txn' \in [Workers -> Txn]
         /\ txn'[w].state = "IDLE" /\ txn'[w].start = 0
         /\ \A v \in Workers \ {w} : txn'[v] = txn[v]
<1>1. IdleTxn \in Txn
  BY DEF IdleTxn, Txn, States
<1>. QED
  BY <1>1 DEF FileTypes, ClearTxn, IdleTxn

LEMMA GotoTyped ==
  ASSUME FileTypes, NEW w \in Workers, NEW l \in Labels, Goto(w, l)
  PROVE  /\ pc' \in [Workers -> Labels]
         /\ pc'[w] = l /\ \A v \in Workers \ {w} : pc'[v] = pc[v]
BY DEF FileTypes, Goto

LEMMA EndsTyped ==
  ASSUME FileTypes, ClaimTypes, NEW w \in Workers, NEW zero, ProcessEnds(w, zero)
  PROVE  /\ pc' \in [Workers -> Labels] /\ pc'[w] = "dead"
         /\ cursor' \in [Workers -> Nat] /\ hold' \in [Workers -> Packet]
         /\ \A v \in Workers \ {w} : pc'[v] = pc[v] /\ cursor'[v] = cursor[v]
<1>1. "dead" \in Labels /\ NoHold \in Packet
  BY DEF Labels, NoHold, Packet
<1>2. pc' \in [Workers -> Labels] /\ pc'[w] = "dead" /\ \A v \in Workers \ {w} : pc'[v] = pc[v]
  BY <1>1, GotoTyped DEF ProcessEnds
<1>3. hold' \in [Workers -> Packet]
  BY <1>1 DEF ProcessEnds, ClaimTypes
<1>. QED
  BY <1>2, <1>3 DEF ProcessEnds, FileTypes

-------------------------------------------------------------------------------
(* Files                                                                   *)

(* What a step keeps of worker w's committed output.                       *)
Kept(w) ==
  /\ Settled(w) <= Settled(w)'
  /\ \A i \in 1 .. Settled(w) : memfd'[w][i] = memfd[w][i]

LEMMA Lengths ==
  ASSUME FileTypes, NEW w \in Workers
  PROVE  /\ Len(memfd[w]) \in Nat /\ cursor[w] \in Nat /\ txn[w].start \in Nat
         /\ Settled(w) \in Nat
BY DEF FileTypes, Txn, Settled

LEMMA SettledInFile ==
  ASSUME FileTypes, NEW w \in Workers, Cut(w) PROVE Settled(w) <= Len(memfd[w])
BY Lengths DEF Cut, Open, Settled

(* A step that leaves a worker's file and transaction alone.               *)
LEMMA Untouched ==
  ASSUME FileTypes, NEW w \in Workers, Phase(w), Cut(w),
         pc'[w] = pc[w], txn'[w] = txn[w], cursor'[w] = cursor[w], memfd'[w] = memfd[w]
  PROVE  Phase(w)' /\ Cut(w)' /\ Kept(w)
<1>1. Settled(w)' = Settled(w) /\ Settled(w) \in Nat
  BY Lengths DEF Settled
<1>2. Phase(w)'
  BY DEF Phase
<1>3. Cut(w)'
  BY <1>1 DEF Cut, Open, WholeTo
<1>. QED
  BY <1>1, <1>2, <1>3 DEF Kept

(* A step that leaves the file as it is, and the file is whole.            *)
LEMMA Stands ==
  ASSUME FileTypes, FileTypes', NEW w \in Workers, Cut(w), memfd'[w] = memfd[w],
         WholeTo(w, Len(memfd[w])), pc'[w] # "frame",
         Open(w)' => txn'[w].start <= Len(memfd[w]) /\ Settled(w) <= txn'[w].start,
         pc'[w] \notin {"dead", "gone"} => cursor'[w] = Len(memfd[w])
  PROVE  Cut(w)' /\ Kept(w)
<1>1. /\ Len(memfd[w]) \in Nat /\ Settled(w) \in Nat /\ Settled(w) <= Len(memfd[w])
      /\ Settled(w)' \in Nat /\ Len(memfd'[w]) = Len(memfd[w]) /\ txn'[w].start \in Nat
  BY Lengths, SettledInFile DEF FileTypes, Txn, Settled
<1>2. Settled(w)' = IF Open(w)' THEN txn'[w].start ELSE Len(memfd[w])
  BY DEF Settled, Open
<1>3. Settled(w) <= Settled(w)' /\ Settled(w)' <= Len(memfd[w])
  BY <1>1, <1>2
<1>4. WholeTo(w, Len(memfd[w]))' /\ WholeTo(w, Settled(w))'
  BY <1>1, <1>3 DEF WholeTo
<1>5. Cut(w)'
  BY <1>1, <1>4 DEF Cut
<1>. QED
  BY <1>3, <1>5 DEF Kept

(* The files after a step: every worker's is in order and has kept what    *)
(* was committed.                                                          *)
FilesStep == \A w \in Workers : Phase(w)' /\ Cut(w)' /\ Kept(w)

(* A step of one worker's.                                                 *)
LEMMA OneWorker ==
  ASSUME FileTypes, FilesOK, NEW w \in Workers, Phase(w)' /\ Cut(w)' /\ Kept(w),
         \A v \in Workers \ {w} : /\ pc'[v] = pc[v] /\ txn'[v] = txn[v]
                                 /\ cursor'[v] = cursor[v] /\ memfd'[v] = memfd[v]
  PROVE  FilesStep
BY Untouched DEF FilesOK, FilesStep

LEMMA NoWorker ==
  ASSUME FileTypes, FilesOK, UNCHANGED <<pc, txn, cursor, memfd>>
  PROVE  FilesStep
BY Untouched DEF FilesOK, FilesStep

(* A living worker's step moves nobody else.                               *)
Local(w) ==
  /\ pc[w] \notin {"dead", "gone"}
  /\ \A v \in Workers \ {w} : pc'[v] = pc[v] /\ txn'[v] = txn[v]

(* A step of worker w that leaves the files alone while w's is whole.      *)
LEMMA QuietStep ==
  ASSUME FileTypes, FilesOK, NEW w \in Workers,
         pc[w] \notin {"frame", "dead", "gone"}, memfd' = memfd,
         txn' \in [Workers -> Txn], pc' \in [Workers -> Labels], cursor' \in [Workers -> Nat],
         \A v \in Workers \ {w} : pc'[v] = pc[v] /\ txn'[v] = txn[v] /\ cursor'[v] = cursor[v],
         pc'[w] # "frame" /\ (pc'[w] # "dead" => cursor'[w] = cursor[w]),
         Open(w)' => txn'[w].start = IF Open(w) THEN txn[w].start ELSE Len(memfd[w]),
         Phase(w)'
  PROVE  FileTypes' /\ FilesStep /\ Local(w)
<1>1. FileTypes'
  BY DEF FileTypes
<1>2. Cut(w) /\ Len(memfd[w]) \in Nat /\ Settled(w) \in Nat /\ txn[w].start \in Nat
  BY Lengths DEF FilesOK
<1>3. Open(w)' => txn'[w].start <= Len(memfd[w]) /\ Settled(w) <= txn'[w].start
  BY <1>2 DEF Cut, Settled, Open
<1>4. Cut(w)' /\ Kept(w)
  <2>1. WholeTo(w, Len(memfd[w])) /\ cursor[w] = Len(memfd[w])
    BY <1>2 DEF Cut
  <2>. QED
    BY <1>1, <1>2, <1>3, <2>1, Stands
<1>5. Local(w)
  BY DEF Local
<1>. QED
  BY <1>1, <1>4, <1>5, OneWorker

-------------------------------------------------------------------------------
(* Claims                                                                  *)

(* A claim and a wait leave every file whole and the cursor at its end.    *)
LEMMA ClaimTypesKept ==
  ASSUME Shape, NEW w \in Workers, Claims(w)
  PROVE  ClaimTypes'
<1>. USE DEF Shape, ClaimTypes, claimFrame
<1>1. CASE BeginClaim(w)
  BY <1>1 DEF BeginClaim, escrowVars
<1>2. CASE ClaimPacket(w)
  <2>1. Head(escrow) \in Packet /\ Tail(escrow) \in Seq(Packet)
    BY <1>2 DEF ClaimPacket
  <2>. QED
    BY <1>2, <2>1 DEF ClaimPacket
<1>3. CASE ClaimTicket(w)
  <2>1. [b |-> nextIdx, kills |-> 0] \in Packet
    BY DEF Packet
  <2>. QED
    BY <1>3, <2>1 DEF ClaimTicket
<1>4. CASE NothingYet(w) \/ Recheck(w) \/ PublishTxn(w)
  BY <1>4 DEF NothingYet, Recheck, PublishTxn, escrowVars
<1>5. CASE EndOfInput(w) \/ AlarmLeaves(w)
  <2>1. hold' \in [Workers -> Packet]
    BY <1>5, EndsTyped DEF EndOfInput, AlarmLeaves
  <2>. QED
    BY <1>5, <2>1 DEF EndOfInput, AlarmLeaves, inputVars, escrowVars
<1>. QED
  BY <1>1, <1>2, <1>3, <1>4, <1>5 DEF Claims

LEMMA ClaimFiles ==
  ASSUME Shape, FilesOK, NEW w \in Workers, Claims(w)
  PROVE  FileTypes' /\ FilesStep /\ Local(w)
<1>0. FileTypes /\ ClaimTypes /\ Phase(w) /\ Cut(w) /\ Len(memfd[w]) \in Nat
  BY Lengths DEF Shape, FilesOK
<1>1. CASE BeginClaim(w)
  <2>1. txn' = [txn EXCEPT ![w] = [IdleTxn EXCEPT !.state = "CLAIMING"]] /\ Goto(w, "claim")
        /\ UNCHANGED <<memfd, cursor>> /\ pc[w] = "idle"
    BY <1>1 DEF BeginClaim, claimFrame
  <2>2. [IdleTxn EXCEPT !.state = "CLAIMING"] \in Txn
    BY DEF IdleTxn, Txn, States
  <2>3. /\ txn' \in [Workers -> Txn] /\ txn'[w].state = "CLAIMING"
        /\ \A v \in Workers \ {w} : txn'[v] = txn[v]
    BY <1>0, <2>1, <2>2 DEF FileTypes, IdleTxn
  <2>4. /\ pc' \in [Workers -> Labels] /\ pc'[w] = "claim"
        /\ \A v \in Workers \ {w} : pc'[v] = pc[v]
    BY <1>0, <2>1, GotoTyped DEF Labels
  <2>5. Phase(w)' /\ ~Open(w)'
    BY <2>3, <2>4 DEF Phase, Open
  <2>. QED
    BY <1>0, <2>1, <2>3, <2>4, <2>5, QuietStep DEF FileTypes
<1>2. CASE ClaimPacket(w) \/ ClaimTicket(w)
  <2>1. Goto(w, "taken") /\ UNCHANGED <<memfd, cursor, txn>> /\ pc[w] = "claim"
    BY <1>2 DEF ClaimPacket, ClaimTicket, claimFrame
  <2>2. /\ pc' \in [Workers -> Labels] /\ pc'[w] = "taken"
        /\ \A v \in Workers \ {w} : pc'[v] = pc[v]
    BY <1>0, <2>1, GotoTyped DEF Labels
  <2>3. Phase(w)' /\ ~Open(w)'
    BY <1>0, <2>1, <2>2 DEF Phase, Open
  <2>. QED
    BY <1>0, <2>1, <2>2, <2>3, QuietStep DEF FileTypes
<1>3. CASE NothingYet(w)
  <2>1. SetState(w, "WAITING") /\ Goto(w, "wait") /\ UNCHANGED <<memfd, cursor>> /\ pc[w] = "claim"
    BY <1>3 DEF NothingYet, claimFrame
  <2>2. /\ pc' \in [Workers -> Labels] /\ pc'[w] = "wait"
        /\ \A v \in Workers \ {w} : pc'[v] = pc[v]
    BY <1>0, <2>1, GotoTyped DEF Labels
  <2>3. /\ txn' \in [Workers -> Txn] /\ txn'[w].state = "WAITING"
        /\ \A v \in Workers \ {w} : txn'[v] = txn[v]
    BY <1>0, <2>1, StateTyped DEF States
  <2>4. Phase(w)' /\ ~Open(w)'
    BY <2>2, <2>3 DEF Phase, Open
  <2>. QED
    BY <1>0, <2>1, <2>2, <2>3, <2>4, QuietStep DEF FileTypes
<1>4. CASE Recheck(w)
  <2>1. SetState(w, "CLAIMING") /\ Goto(w, "claim") /\ UNCHANGED <<memfd, cursor>> /\ pc[w] = "wait"
    BY <1>4 DEF Recheck, claimFrame
  <2>2. /\ pc' \in [Workers -> Labels] /\ pc'[w] = "claim"
        /\ \A v \in Workers \ {w} : pc'[v] = pc[v]
    BY <1>0, <2>1, GotoTyped DEF Labels
  <2>3. /\ txn' \in [Workers -> Txn] /\ txn'[w].state = "CLAIMING"
        /\ \A v \in Workers \ {w} : txn'[v] = txn[v]
    BY <1>0, <2>1, StateTyped DEF States
  <2>4. Phase(w)' /\ ~Open(w)'
    BY <2>2, <2>3 DEF Phase, Open
  <2>. QED
    BY <1>0, <2>1, <2>2, <2>3, <2>4, QuietStep DEF FileTypes
<1>5. CASE EndOfInput(w) \/ AlarmLeaves(w)
  <2>1. /\ ClearTxn(w) /\ memfd' = memfd /\ pc[w] \in {"claim", "wait"}
        /\ \E zero : ProcessEnds(w, zero)
    BY <1>5 DEF EndOfInput, AlarmLeaves
  <2>2. /\ pc' \in [Workers -> Labels] /\ pc'[w] = "dead" /\ cursor' \in [Workers -> Nat]
        /\ \A v \in Workers \ {w} : pc'[v] = pc[v] /\ cursor'[v] = cursor[v]
    BY <1>0, <2>1, EndsTyped
  <2>3. /\ txn' \in [Workers -> Txn] /\ txn'[w].state = "IDLE"
        /\ \A v \in Workers \ {w} : txn'[v] = txn[v]
    BY <1>0, <2>1, ClearTyped
  <2>4. Phase(w)' /\ ~Open(w)'
    BY <2>2, <2>3 DEF Phase, Open
  <2>. QED
    BY <1>0, <2>1, <2>2, <2>3, <2>4, QuietStep
<1>6. CASE PublishTxn(w)
  <2>1. /\ txn' = [txn EXCEPT ![w] = [state |-> "CLAIMED", b |-> hold[w].b,
                                      kills |-> hold[w].kills, start |-> cursor[w]]]
        /\ Goto(w, "run") /\ UNCHANGED <<memfd, cursor>> /\ pc[w] = "taken"
    BY <1>6 DEF PublishTxn, claimFrame
  <2>2. cursor[w] = Len(memfd[w]) /\ cursor[w] \in Nat
    BY <1>0, <2>1 DEF Cut
  <2>3. [state |-> "CLAIMED", b |-> hold[w].b, kills |-> hold[w].kills, start |-> cursor[w]] \in Txn
    BY <1>0, <2>2 DEF Txn, States, ClaimTypes, Packet
  <2>4. /\ txn' \in [Workers -> Txn] /\ txn'[w].state = "CLAIMED" /\ txn'[w].start = cursor[w]
        /\ \A v \in Workers \ {w} : txn'[v] = txn[v]
    BY <1>0, <2>1, <2>3 DEF FileTypes
  <2>5. /\ pc' \in [Workers -> Labels] /\ pc'[w] = "run"
        /\ \A v \in Workers \ {w} : pc'[v] = pc[v]
    BY <1>0, <2>1, GotoTyped DEF Labels
  <2>6. Phase(w)' /\ ~Open(w)
    BY <1>0, <2>1, <2>4, <2>5 DEF Phase, Open
  <2>. QED
    BY <1>0, <2>1, <2>2, <2>4, <2>5, <2>6, QuietStep DEF FileTypes
<1>. QED
  BY <1>1, <1>2, <1>3, <1>4, <1>5, <1>6 DEF Claims

-------------------------------------------------------------------------------
(* Payload, record and commit                                              *)

LEMMA ProduceTypesKept ==
  ASSUME Shape, NEW w \in Workers, Produces(w)
  PROVE  ClaimTypes'
<1>0. NoHold \in Packet
  BY DEF NoHold, Packet
<1>. USE DEF Shape, ClaimTypes, runFrame, inputVars, escrowVars
<1>1. CASE PayloadDone(w) \/ SkipPoisoned(w) \/ PassSentinel(w) \/ FailSkips(w)
            \/ FinishFrame(w) \/ BeginCommit(w) \/ Notify(w)
  BY <1>1 DEF PayloadDone, SkipPoisoned, PassSentinel, FailSkips, FinishFrame, BeginCommit, Notify
<1>2. CASE FailStops(w) \/ NotifyFails(w)
  <2>1. hold' \in [Workers -> Packet]
    BY <1>2, EndsTyped DEF FailStops, NotifyFails
  <2>. QED
    BY <1>2, <2>1 DEF FailStops, NotifyFails
<1>3. CASE FailRetries(w)
  <2>1. [b |-> hold[w].b, kills |-> hold[w].kills + 1] \in Packet
    BY DEF Packet
  <2>. QED
    BY <1>0, <1>3, <2>1 DEF FailRetries
<1>4. CASE Clear(w)
  BY <1>0, <1>4 DEF Clear
<1>. QED
  BY <1>1, <1>2, <1>3, <1>4 DEF Produces

(* A new record is torn, and lies behind the start of the transaction.     *)
LEMMA StartFiles ==
  ASSUME FileTypes, ClaimTypes, FilesOK, NEW w \in Workers, NEW kind \in Kinds,
         pc[w] = "run", StartFrame(w, kind), UNCHANGED <<txn, cursor>>
  PROVE  FileTypes' /\ FilesStep /\ Local(w)
<1>. DEFINE r == [b |-> hold[w].b, kind |-> kind, whole |-> FALSE]
<1>1. r \in Record /\ memfd' = [memfd EXCEPT ![w] = Append(@, r)]
  BY DEF StartFrame, Record, ClaimTypes, Packet
<1>2. /\ pc' \in [Workers -> Labels] /\ pc'[w] = "frame"
      /\ \A v \in Workers \ {w} : pc'[v] = pc[v]
  BY GotoTyped DEF StartFrame, Labels
<1>. HIDE DEF r
<1>3. /\ memfd' \in [Workers -> Seq(Record)]
      /\ Len(memfd'[w]) = Len(memfd[w]) + 1
      /\ \A i \in 1 .. Len(memfd[w]) : memfd'[w][i] = memfd[w][i]
      /\ \A v \in Workers \ {w} : memfd'[v] = memfd[v]
  BY <1>1 DEF FileTypes
<1>4. FileTypes'
  BY <1>2, <1>3 DEF FileTypes
<1>5. /\ Len(memfd[w]) \in Nat /\ Phase(w) /\ Cut(w) /\ Open(w)
      /\ txn[w].state = "CLAIMED" /\ txn[w].start \in Nat
  BY Lengths DEF FilesOK, Phase, Open
<1>6. Settled(w) = txn[w].start /\ Settled(w)' = txn[w].start /\ txn[w].start <= Len(memfd[w])
  BY <1>5 DEF Settled, Cut
<1>7. WholeTo(w, Len(memfd[w])) /\ cursor[w] = Len(memfd[w])
  BY <1>5 DEF Cut
<1>9. WholeTo(w, Settled(w))'
  BY <1>3, <1>5, <1>6, <1>7 DEF WholeTo
<1>10. Cut(w)'
  <2>1. Len(memfd'[w]) - 1 = Len(memfd[w])
    BY <1>3, <1>5
  <2>2. WholeTo(w, Len(memfd[w]) - 1)'
    BY <1>3, <1>5, <1>7, <2>1 DEF WholeTo
  <2>. QED
    BY <1>2, <1>3, <1>5, <1>6, <1>7, <1>9, <2>1, <2>2 DEF Cut
<1>11. Phase(w)'
  BY <1>2, <1>5 DEF Phase
<1>12. Kept(w)
  BY <1>3, <1>5, <1>6 DEF Kept
<1>13. Local(w)
  BY <1>2 DEF Local
<1>. QED
  BY <1>2, <1>3, <1>4, <1>10, <1>11, <1>12, <1>13, OneWorker

(* The last byte of a record makes the file whole, and the cursor follows. *)
LEMMA FinishFiles ==
  ASSUME FileTypes, FilesOK, NEW w \in Workers, FinishFrame(w)
  PROVE  FileTypes' /\ FilesStep /\ Local(w)
<1>1. /\ memfd' = [memfd EXCEPT ![w][Len(memfd[w])].whole = TRUE]
      /\ cursor' = [cursor EXCEPT ![w] = @ + 1]
      /\ Goto(w, "framed") /\ pc[w] = "frame" /\ txn' = txn
  BY DEF FinishFrame, WholeFrame
<1>2. /\ pc' \in [Workers -> Labels] /\ pc'[w] = "framed"
      /\ \A v \in Workers \ {w} : pc'[v] = pc[v]
  BY <1>1, GotoTyped DEF Labels
<1>3. /\ Len(memfd[w]) \in Nat /\ cursor[w] \in Nat /\ Phase(w) /\ Cut(w) /\ Open(w)
      /\ txn[w].state = "CLAIMED" /\ txn[w].start \in Nat
      /\ cursor[w] = Len(memfd[w]) - 1 /\ txn[w].start <= Len(memfd[w]) - 1
      /\ WholeTo(w, Len(memfd[w]) - 1)
  BY <1>1, Lengths DEF FilesOK, Phase, Open, Cut
<1>4. /\ memfd' \in [Workers -> Seq(Record)]
      /\ Len(memfd'[w]) = Len(memfd[w])
      /\ \A i \in 1 .. Len(memfd[w]) - 1 : memfd'[w][i] = memfd[w][i]
      /\ memfd'[w][Len(memfd[w])].whole
      /\ \A v \in Workers \ {w} : memfd'[v] = memfd[v]
  <2>. DEFINE n == Len(memfd[w])
              r == [memfd[w][n] EXCEPT !.whole = TRUE]
  <2>1. n \in 1 .. n /\ memfd[w] \in Seq(Record)
    BY <1>3 DEF FileTypes
  <2>2. memfd[w][n] \in Record
    BY <2>1
  <2>3. r \in Record /\ r.whole
    BY <2>2 DEF Record
  <2>4. memfd' = [memfd EXCEPT ![w] = [memfd[w] EXCEPT ![n] = r]]
    BY <1>1
  <2>. HIDE DEF r
  <2>5. /\ [memfd[w] EXCEPT ![n] = r] \in Seq(Record)
        /\ Len([memfd[w] EXCEPT ![n] = r]) = n
        /\ [memfd[w] EXCEPT ![n] = r][n] = r
        /\ \A i \in 1 .. n - 1 : [memfd[w] EXCEPT ![n] = r][i] = memfd[w][i]
    BY <2>1, <2>3
  <2>. QED
    BY <2>3, <2>4, <2>5 DEF FileTypes
<1>5. cursor' \in [Workers -> Nat] /\ cursor'[w] = Len(memfd[w])
      /\ \A v \in Workers \ {w} : cursor'[v] = cursor[v]
  BY <1>1, <1>3 DEF FileTypes
<1>6. FileTypes'
  BY <1>1, <1>2, <1>4, <1>5 DEF FileTypes
<1>7. WholeTo(w, Len(memfd[w]))'
  <2>. SUFFICES ASSUME NEW i \in 1 .. Len(memfd'[w]) PROVE memfd'[w][i].whole
    BY DEF WholeTo
  <2>. QED
    BY <1>3, <1>4 DEF WholeTo
<1>8. Settled(w) = txn[w].start /\ Settled(w)' = txn[w].start
  BY <1>1, <1>3 DEF Settled
<1>9. Cut(w)'
  <2>1. WholeTo(w, Settled(w))'
    BY <1>3, <1>4, <1>7, <1>8 DEF WholeTo
  <2>2. Open(w)' => txn'[w].start <= Len(memfd'[w])
    BY <1>1, <1>3, <1>4
  <2>. QED
    BY <1>2, <1>4, <1>5, <1>7, <2>1, <2>2 DEF Cut
<1>10. Kept(w)
  BY <1>3, <1>4, <1>8 DEF Kept
<1>11. Phase(w)' /\ Local(w)
  BY <1>1, <1>2, <1>3 DEF Phase, Local
<1>. QED
  BY <1>1, <1>2, <1>4, <1>5, <1>6, <1>9, <1>10, <1>11, OneWorker

LEMMA ProduceFiles ==
  ASSUME Shape, FilesOK, NEW w \in Workers, Produces(w)
  PROVE  FileTypes' /\ FilesStep /\ Local(w)
<1>0. FileTypes /\ ClaimTypes /\ Phase(w) /\ Cut(w) /\ Len(memfd[w]) \in Nat
  BY Lengths DEF Shape, FilesOK
<1>1. CASE PayloadDone(w) \/ SkipPoisoned(w) \/ FailSkips(w)
  <2>1. pc[w] = "run" /\ UNCHANGED <<txn, cursor>>
    BY <1>1 DEF PayloadDone, SkipPoisoned, FailSkips, PayloadFails
  <2>2. \E kind \in Kinds : StartFrame(w, kind)
    BY <1>1 DEF PayloadDone, SkipPoisoned, FailSkips, Kinds
  <2>. QED
    BY <1>0, <2>1, <2>2, StartFiles
<1>2. CASE FinishFrame(w)
  BY <1>0, <1>2, FinishFiles
<1>3. CASE PassSentinel(w)
  <2>1. Goto(w, "framed") /\ UNCHANGED <<memfd, cursor, txn>> /\ pc[w] = "run"
    BY <1>3 DEF PassSentinel
  <2>2. /\ pc' \in [Workers -> Labels] /\ pc'[w] = "framed"
        /\ \A v \in Workers \ {w} : pc'[v] = pc[v]
    BY <1>0, <2>1, GotoTyped DEF Labels
  <2>3. Phase(w)' /\ Open(w)
    BY <1>0, <2>1, <2>2 DEF Phase, Open
  <2>. QED
    BY <1>0, <2>1, <2>2, <2>3, QuietStep DEF FileTypes
<1>4. CASE FailStops(w) \/ NotifyFails(w)
  <2>1. /\ pc[w] \in {"run", "notify"} /\ UNCHANGED <<memfd, txn>>
        /\ \E zero : ProcessEnds(w, zero)
    BY <1>4 DEF FailStops, NotifyFails, PayloadFails
  <2>2. /\ pc' \in [Workers -> Labels] /\ pc'[w] = "dead" /\ cursor' \in [Workers -> Nat]
        /\ \A v \in Workers \ {w} : pc'[v] = pc[v] /\ cursor'[v] = cursor[v]
    BY <1>0, <2>1, EndsTyped
  <2>3. Phase(w)' /\ (Open(w)' => Open(w))
    BY <2>1, <2>2 DEF Phase, Open
  <2>. QED
    BY <1>0, <2>1, <2>2, <2>3, QuietStep DEF FileTypes
<1>5. CASE FailRetries(w)
  <2>1. Goto(w, "idle") /\ UNCHANGED <<memfd, cursor, txn>> /\ pc[w] = "run"
    BY <1>5 DEF FailRetries, PayloadFails
  <2>2. /\ pc' \in [Workers -> Labels] /\ pc'[w] = "idle"
        /\ \A v \in Workers \ {w} : pc'[v] = pc[v]
    BY <1>0, <2>1, GotoTyped DEF Labels
  <2>3. Phase(w)' /\ Open(w)
    BY <1>0, <2>1, <2>2 DEF Phase, Open
  <2>. QED
    BY <1>0, <2>1, <2>2, <2>3, QuietStep DEF FileTypes
<1>6. CASE BeginCommit(w)
  <2>1. SetState(w, "COMMITTING") /\ Goto(w, "commit") /\ UNCHANGED <<memfd, cursor>>
        /\ pc[w] = "framed"
    BY <1>6 DEF BeginCommit
  <2>2. /\ pc' \in [Workers -> Labels] /\ pc'[w] = "commit"
        /\ \A v \in Workers \ {w} : pc'[v] = pc[v]
    BY <1>0, <2>1, GotoTyped DEF Labels
  <2>3. /\ txn' \in [Workers -> Txn] /\ txn'[w].state = "COMMITTING"
        /\ txn'[w].start = txn[w].start
        /\ \A v \in Workers \ {w} : txn'[v] = txn[v]
    BY <1>0, <2>1, StateTyped DEF States
  <2>4. Phase(w)' /\ Open(w)
    BY <1>0, <2>1, <2>2, <2>3 DEF Phase, Open
  <2>. QED
    BY <1>0, <2>1, <2>2, <2>3, <2>4, QuietStep DEF FileTypes
<1>7. CASE Clear(w)
  <2>1. /\ ClearTxn(w) /\ UNCHANGED <<memfd, cursor>> /\ pc[w] = "commit"
        /\ Goto(w, "idle") \/ Goto(w, "notify")
    BY <1>7 DEF Clear
  <2>2. /\ pc' \in [Workers -> Labels] /\ pc'[w] \in {"idle", "notify"}
        /\ \A v \in Workers \ {w} : pc'[v] = pc[v]
    BY <1>0, <2>1, GotoTyped DEF Labels
  <2>3. /\ txn' \in [Workers -> Txn] /\ txn'[w].state = "IDLE"
        /\ \A v \in Workers \ {w} : txn'[v] = txn[v]
    BY <1>0, <2>1, ClearTyped
  <2>4. Phase(w)' /\ ~Open(w)'
    BY <2>2, <2>3 DEF Phase, Open
  <2>. QED
    BY <1>0, <2>1, <2>2, <2>3, <2>4, QuietStep DEF FileTypes
<1>8. CASE Notify(w)
  <2>1. Goto(w, "idle") /\ UNCHANGED <<memfd, cursor, txn>> /\ pc[w] = "notify"
    BY <1>8 DEF Notify
  <2>2. /\ pc' \in [Workers -> Labels] /\ pc'[w] = "idle"
        /\ \A v \in Workers \ {w} : pc'[v] = pc[v]
    BY <1>0, <2>1, GotoTyped DEF Labels
  <2>3. Phase(w)' /\ ~Open(w)'
    BY <1>0, <2>1, <2>2 DEF Phase, Open
  <2>. QED
    BY <1>0, <2>1, <2>2, <2>3, QuietStep DEF FileTypes
<1>. QED
  BY <1>1, <1>2, <1>3, <1>4, <1>5, <1>6, <1>7, <1>8 DEF Produces

-------------------------------------------------------------------------------
(* Deaths and recovery                                                     *)

(* A worker killed with a torn record leaves its transaction open.         *)
LEMMA KillFiles ==
  ASSUME FileTypes, ClaimTypes, FilesOK, NEW w \in Workers, Kill(w)
  PROVE  FileTypes' /\ FilesStep /\ Local(w)
<1>1. /\ pc[w] \notin {"dead", "gone"} /\ UNCHANGED <<memfd, txn>>
      /\ ProcessEnds(w, FALSE)
  BY DEF Kill, Alive
<1>2. /\ pc' \in [Workers -> Labels] /\ pc'[w] = "dead" /\ cursor' \in [Workers -> Nat]
      /\ \A v \in Workers \ {w} : pc'[v] = pc[v] /\ cursor'[v] = cursor[v]
  BY <1>1, EndsTyped
<1>3. Phase(w)' /\ Cut(w) /\ FileTypes'
  BY <1>1, <1>2 DEF Phase, FilesOK, FileTypes
<1>4. CASE pc[w] = "frame"
  <2>1. Settled(w)' = Settled(w) /\ Settled(w) \in Nat
    BY <1>1, Lengths DEF Settled
  <2>2. Cut(w)'
    BY <1>1, <1>2, <1>3, <2>1 DEF Cut, Open, WholeTo
  <2>3. Kept(w)
    BY <1>1, <2>1 DEF Kept
  <2>4. Local(w)
    BY <1>1, <1>2 DEF Local
  <2>. QED
    BY <1>1, <1>2, <1>3, <2>2, <2>3, <2>4, OneWorker
<1>5. CASE pc[w] # "frame"
  <2>1. Open(w)' => Open(w)
    BY <1>1 DEF Open
  <2>. QED
    BY <1>1, <1>2, <1>3, <1>5, <2>1, QuietStep DEF FileTypes
<1>. QED
  BY <1>4, <1>5

(* What the launcher does with a dead slot: it stays dead and its          *)
(* transaction is closed.                                                  *)
LEMMA RecoverIdleFiles ==
  ASSUME FileTypes, FilesOK, NEW w \in Workers, RecoverIdle(w)
  PROVE  /\ FileTypes' /\ FilesStep
         /\ pc' = pc /\ pc[w] = "dead" /\ txn'[w].state = "IDLE"
<1>1. /\ pc[w] = "dead" /\ txn[w].state \in {"IDLE", "WAITING"} /\ ClearTxn(w)
      /\ UNCHANGED <<pc, memfd, cursor>>
  BY DEF RecoverIdle, Reaped, supFrame, workerVars
<1>2. /\ txn' \in [Workers -> Txn] /\ txn'[w].state = "IDLE"
      /\ \A v \in Workers \ {w} : txn'[v] = txn[v]
  BY <1>1, ClearTyped
<1>3. FileTypes' /\ Phase(w)' /\ ~Open(w)' /\ ~Open(w) /\ Cut(w)
  BY <1>1, <1>2 DEF FileTypes, Phase, Open, FilesOK
<1>4. WholeTo(w, Len(memfd[w]))
  BY <1>3 DEF Cut, Settled, Open
<1>5. Cut(w)' /\ Kept(w)
  BY <1>1, <1>3, <1>4, Stands
<1>. QED
  BY <1>1, <1>2, <1>3, <1>5, OneWorker

(* The rollback cuts exactly what the open transaction wrote.              *)
LEMMA RecoverOrphanFiles ==
  ASSUME FileTypes, FilesOK, NEW w \in Workers, RecoverOrphan(w)
  PROVE  /\ FileTypes' /\ FilesStep
         /\ pc' = pc /\ pc[w] = "dead" /\ txn'[w].state = "IDLE"
<1>1. /\ pc[w] = "dead" /\ txn[w].state = "CLAIMED" /\ ClearTxn(w)
      /\ memfd' = [memfd EXCEPT ![w] = SubSeq(@, 1, txn[w].start)]
      /\ UNCHANGED <<pc, cursor>>
  BY DEF RecoverOrphan, Reaped, supFrame, workerVars, RollBack
<1>2. /\ txn' \in [Workers -> Txn] /\ txn'[w].state = "IDLE"
      /\ \A v \in Workers \ {w} : txn'[v] = txn[v]
  BY <1>1, ClearTyped
<1>3. /\ Len(memfd[w]) \in Nat /\ txn[w].start \in Nat /\ Cut(w) /\ Open(w)
      /\ txn[w].start <= Len(memfd[w]) /\ Settled(w) = txn[w].start
  BY <1>1, Lengths DEF FilesOK, Cut, Open, Settled
<1>4. /\ memfd' \in [Workers -> Seq(Record)] /\ Len(memfd'[w]) = txn[w].start
      /\ \A i \in 1 .. txn[w].start : memfd'[w][i] = memfd[w][i]
      /\ \A v \in Workers \ {w} : memfd'[v] = memfd[v]
  <2>1. memfd[w] \in Seq(Record)
    BY DEF FileTypes
  <2>2. /\ SubSeq(memfd[w], 1, txn[w].start) \in Seq(Record)
        /\ Len(SubSeq(memfd[w], 1, txn[w].start)) = txn[w].start
        /\ \A i \in 1 .. txn[w].start : SubSeq(memfd[w], 1, txn[w].start)[i] = memfd[w][i]
    BY <1>3, <2>1
  <2>. QED
    BY <1>1, <2>2 DEF FileTypes
<1>5. FileTypes' /\ Phase(w)' /\ ~Open(w)'
  BY <1>1, <1>2, <1>4 DEF FileTypes, Phase, Open
<1>6. Settled(w)' = txn[w].start
  BY <1>4, <1>5 DEF Settled, Open
<1>7. WholeTo(w, Settled(w))'
  BY <1>3, <1>4, <1>6 DEF Cut, WholeTo
<1>8. Cut(w)'
  BY <1>1, <1>5, <1>7 DEF Cut
<1>9. Kept(w)
  BY <1>3, <1>4, <1>6 DEF Kept
<1>. QED
  BY <1>1, <1>2, <1>4, <1>5, <1>8, <1>9, OneWorker

(* A slot that ends, and a generation that starts where the file ends.     *)
LEMMA SlotFiles ==
  ASSUME FileTypes, FilesOK, NEW w \in Workers, pc[w] = "dead",
         UNCHANGED <<txn, memfd>>,
         EndSlot(w) \/ Respawn(w),
         Respawn(w) => txn[w].state = "IDLE"
  PROVE  FileTypes' /\ FilesStep
<1>1. Phase(w) /\ Cut(w) /\ Len(memfd[w]) \in Nat
  BY Lengths DEF FilesOK
<1>2. CASE EndSlot(w)
  <2>1. /\ pc' \in [Workers -> Labels] /\ pc'[w] = "gone" /\ cursor' = cursor
        /\ \A v \in Workers \ {w} : pc'[v] = pc[v]
    BY <1>2, GotoTyped DEF EndSlot, workerVars, Labels
  <2>2. FileTypes' /\ Phase(w)'
    BY <2>1 DEF FileTypes, Phase
  <2>3. Settled(w)' = Settled(w) /\ Settled(w) \in Nat
    BY Lengths DEF Settled
  <2>4. Cut(w)' /\ Kept(w)
    BY <1>1, <2>1, <2>3 DEF Cut, Kept, Open, WholeTo
  <2>. QED
    BY <2>1, <2>2, <2>4, OneWorker
<1>3. CASE Respawn(w)
  <2>1. /\ pc' \in [Workers -> Labels] /\ pc'[w] = "idle"
        /\ \A v \in Workers \ {w} : pc'[v] = pc[v]
    BY <1>3, GotoTyped DEF Respawn, Labels
  <2>2. /\ cursor' \in [Workers -> Nat] /\ cursor'[w] = Len(memfd[w])
        /\ \A v \in Workers \ {w} : cursor'[v] = cursor[v]
    BY <1>1, <1>3 DEF Respawn, FileTypes
  <2>3. ~Open(w) /\ FileTypes' /\ Phase(w)'
    BY <1>3, <2>1, <2>2 DEF FileTypes, Open, Phase
  <2>4. WholeTo(w, Len(memfd[w]))
    BY <1>1, <2>3 DEF Cut, Settled, Open
  <2>5. Cut(w)' /\ Kept(w)
    BY <1>1, <2>1, <2>2, <2>3, <2>4, Stands DEF Open
  <2>. QED
    BY <2>1, <2>2, <2>3, <2>5, OneWorker
<1>. QED
  BY <1>2, <1>3

-------------------------------------------------------------------------------
(* Signals                                                                 *)

(* The parts of DrainBehindCommit: what was moved, signalled and read.     *)
Forwarded ==
  \A w \in Workers :
    /\ Len(results[w]) <= Settled(w)
    /\ \A i \in 1 .. Len(results[w]) : results[w][i] = memfd[w][i]
    /\ \A i \in 1 .. Settled(w) : memfd[w][i].whole
Told == \A i \in 1 .. Len(signals) : signals[i].frontier <= Settled(signals[i].w)
Read == held # NoSignal => held.frontier <= Settled(held.w)

LEMMA Parts == DrainBehindCommit <=> Forwarded /\ Told /\ Read
BY DEF DrainBehindCommit, Forwarded, Told, Read

LEMMA PartsNext == DrainBehindCommit' <=> Forwarded' /\ Told' /\ Read'
BY DEF DrainBehindCommit, Forwarded, Told, Read

LEMMA Named ==
  ASSUME DrainTypes
  PROVE  /\ \A i \in 1 .. Len(signals) :
              signals[i] \in Signal /\ signals[i].w \in Workers /\ signals[i].frontier \in Nat
         /\ held # NoSignal => held.w \in Workers /\ held.frontier \in Nat
<1>1. \A i \in 1 .. Len(signals) : signals[i] \in Signal
  BY DEF DrainTypes
<1>. QED
  BY <1>1 DEF DrainTypes, Signal

(* A step keeps what was signalled and forwarded behind the commits.       *)
LEMMA StaysBehind ==
  ASSUME DrainTypes, FileTypes, FileTypes', FilesStep, DrainBehindCommit,
         UNCHANGED <<results, held>>,
         \/ signals' = signals
         \/ \E w \in Workers : Announce(w) /\ Len(memfd[w]) <= Settled(w)'
  PROVE  DrainTypes' /\ DrainBehindCommit'
<1>1. \A w \in Workers : /\ Settled(w) \in Nat /\ Settled(w)' \in Nat /\ Len(memfd[w]) \in Nat
                         /\ Settled(w) <= Settled(w)' /\ Len(results[w]) \in Nat
  BY Lengths DEF FilesStep, Kept, FileTypes, Txn, Settled, DrainTypes
<1>2. \A w \in Workers : /\ Len(results'[w]) <= Settled(w)'
                         /\ \A i \in 1 .. Len(results'[w]) : results'[w][i] = memfd'[w][i]
                         /\ \A i \in 1 .. Settled(w)' : memfd'[w][i].whole
  <2>. SUFFICES ASSUME NEW w \in Workers
                PROVE  /\ Len(results'[w]) <= Settled(w)'
                       /\ \A i \in 1 .. Len(results'[w]) : results'[w][i] = memfd'[w][i]
                       /\ \A i \in 1 .. Settled(w)' : memfd'[w][i].whole
    OBVIOUS
  <2>1. Len(results[w]) <= Settled(w)
        /\ \A i \in 1 .. Len(results[w]) : results[w][i] = memfd[w][i]
    BY DEF DrainBehindCommit
  <2>2. (\A i \in 1 .. Settled(w) : memfd'[w][i] = memfd[w][i]) /\ WholeTo(w, Settled(w))'
    BY DEF FilesStep, Kept, Cut
  <2>3. \A i \in 1 .. Settled(w)' : memfd'[w][i].whole
    BY <2>2 DEF WholeTo
  <2>. QED
    BY <1>1, <2>1, <2>2, <2>3
<1>3. \A i \in 1 .. Len(signals) : \A w \in Workers :
        signals[i].w = w => signals[i].frontier <= Settled(w)'
  BY <1>1, Named, Parts DEF Told
<1>4. signals' \in Seq(Signal) /\ Told'
  <2>1. CASE signals' = signals
    BY <1>3, <2>1, Named DEF DrainTypes, Told, Settled
  <2>2. CASE \E w \in Workers : Announce(w) /\ Len(memfd[w]) <= Settled(w)'
    <3>1. PICK w \in Workers : Announce(w) /\ Len(memfd[w]) <= Settled(w)'
      BY <2>2
    <3>. DEFINE s == [w |-> w, frontier |-> Len(memfd[w])]
    <3>2. s \in Signal /\ s.w = w /\ s.frontier <= Settled(w)' /\ signals' = Append(signals, s)
      BY <1>1, <3>1 DEF Announce, Signal
    <3>. HIDE DEF s
    <3>3. /\ signals' \in Seq(Signal) /\ Len(signals') = Len(signals) + 1
          /\ signals'[Len(signals) + 1] = s
          /\ \A i \in 1 .. Len(signals) : signals'[i] = signals[i]
      BY <3>2 DEF DrainTypes
    <3>4. Len(signals) \in Nat
      BY DEF DrainTypes
    <3>5. \A i \in 1 .. Len(signals') : \E v \in Workers :
            signals'[i].w = v /\ signals'[i].frontier <= Settled(v)'
      BY <1>3, <3>2, <3>3, <3>4, Named
    <3>. QED
      BY <3>3, <3>5 DEF Told, Settled
  <2>. QED
    BY <2>1, <2>2
<1>5. Read'
  <2>1. CASE held = NoSignal
    BY <2>1 DEF Read
  <2>2. CASE held # NoSignal
    <3>1. \A w \in Workers : held.w = w => held.frontier <= Settled(w)'
      BY <1>1, <2>2, Named, Parts DEF Read
    <3>. QED
      BY <2>2, <3>1, Named DEF Read, Settled
  <2>. QED
    BY <2>1, <2>2
<1>6. Forwarded'
  BY <1>2 DEF Forwarded
<1>7. DrainTypes'
  BY <1>4 DEF DrainTypes
<1>. QED
  BY <1>4, <1>5, <1>6, <1>7, PartsNext

LEMMA Concatenated ==
  ASSUME NEW S, NEW s \in Seq(S), NEW t \in Seq(S)
  PROVE  /\ s \o t \in Seq(S) /\ Len(s \o t) = Len(s) + Len(t)
         /\ \A i \in 1 .. Len(s) : (s \o t)[i] = s[i]
         /\ \A i \in Len(s) + 1 .. Len(s) + Len(t) : (s \o t)[i] = t[i - Len(s)]
OBVIOUS

(* The drain moves what lies below the frontier it was told.               *)
LEMMA DrainFollows ==
  ASSUME DrainTypes, FileTypes, FilesOK, DrainBehindCommit, DrainReads \/ DrainMoves \/ DrainDies
  PROVE  DrainTypes' /\ DrainBehindCommit' /\ UNCHANGED <<pc, txn, cursor, memfd, sup, nextIdx, escrow, hold>>
<1>0. UNCHANGED <<pc, txn, cursor, memfd, sup, nextIdx, escrow, hold>>
  BY DEF DrainReads, DrainMoves, DrainDies, drainFrame, inputVars, escrowVars, workerVars
<1>1. \A w \in Workers : Settled(w)' = Settled(w) /\ Settled(w) \in Nat /\ Len(memfd[w]) \in Nat
  BY <1>0, Lengths DEF Settled
<1>2. \A w \in Workers : Settled(w) <= Len(memfd[w])
  BY SettledInFile DEF FilesOK
<1>3. CASE DrainReads
  <2>1. /\ signals \in Seq(Signal) /\ signals # <<>>
        /\ held' = Head(signals) /\ signals' = Tail(signals) /\ results' = results
    BY <1>3 DEF DrainReads, DrainTypes
  <2>2. /\ held' = signals[1] /\ Len(signals) \in Nat /\ 1 <= Len(signals)
        /\ signals' \in Seq(Signal) /\ Len(signals') = Len(signals) - 1
        /\ \A i \in 1 .. Len(signals') : signals'[i] = signals[i + 1]
    BY <2>1
  <2>3. \A i \in 1 .. Len(signals) : \A w \in Workers :
          signals[i].w = w => signals[i].frontier <= Settled(w)'
    BY <1>1, Parts DEF Told
  <2>4. 1 \in 1 .. Len(signals)
    BY <2>2
  <2>5. held' \in Signal /\ held'.w \in Workers /\ \A w \in Workers :
          held'.w = w => held'.frontier <= Settled(w)'
    BY <2>2, <2>3, <2>4, Named
  <2>6. Read'
    BY <2>5 DEF Read, Settled
  <2>7. \A i \in 1 .. Len(signals') : \E w \in Workers :
          signals'[i].w = w /\ signals'[i].frontier <= Settled(w)'
    <3>. SUFFICES ASSUME NEW i \in 1 .. Len(signals')
                  PROVE  \E w \in Workers :
                           signals'[i].w = w /\ signals'[i].frontier <= Settled(w)'
      OBVIOUS
    <3>1. i + 1 \in 1 .. Len(signals) /\ signals'[i] = signals[i + 1]
      BY <2>2
    <3>. QED
      BY <2>3, <3>1, Named
  <2>8. Told'
    BY <2>7 DEF Told, Settled
  <2>9. Forwarded'
    BY <1>0, <1>1, <2>1, Parts DEF Forwarded
  <2>10. DrainTypes'
    BY <2>1, <2>2, <2>5 DEF DrainTypes
  <2>. QED
    BY <1>0, <2>6, <2>8, <2>9, <2>10, PartsNext
<1>4. CASE DrainDies
  <2>1. held' = NoSignal /\ UNCHANGED <<signals, results>>
    BY <1>4 DEF DrainDies
  <2>2. DrainTypes'
    BY <2>1 DEF DrainTypes
  <2>3. Told'
    BY <1>0, <2>1, Parts DEF Told, Settled
  <2>4. Forwarded' /\ Read'
    BY <1>0, <1>1, <2>1, Parts DEF Forwarded, Read
  <2>. QED
    BY <1>0, <2>2, <2>3, <2>4, PartsNext
<1>5. CASE DrainMoves
  <2>. DEFINE w == held.w
              from == Len(results[w])
              to == IF held.frontier < Len(memfd[w]) THEN held.frontier ELSE Len(memfd[w])
              part == SubSeq(memfd[w], from + 1, to)
  <2>1. /\ held # NoSignal /\ held' = NoSignal /\ signals' = signals
        /\ results' = [results EXCEPT ![w] = results[w] \o part]
    BY <1>5 DEF DrainMoves
  <2>2. /\ w \in Workers /\ held.frontier \in Nat /\ held.frontier <= Settled(w)
        /\ memfd[w] \in Seq(Record) /\ results[w] \in Seq(Record)
    BY <2>1 DEF DrainTypes, Signal, DrainBehindCommit, FileTypes
  <2>3. /\ from \in Nat /\ to \in Nat /\ to <= Settled(w) /\ to <= Len(memfd[w])
        /\ from <= Settled(w)
    BY <1>1, <1>2, <2>2 DEF DrainBehindCommit
  <2>4. \A i \in 1 .. from : results[w][i] = memfd[w][i]
    BY <2>2 DEF DrainBehindCommit
  <2>. HIDE DEF from, to
  <2>5. part \in Seq(Record) /\ Len(part) = (IF from + 1 <= to THEN to - from ELSE 0)
        /\ \A i \in 1 .. Len(part) : part[i] = memfd[w][from + i]
    BY <2>2, <2>3
  <2>. HIDE DEF part
  <2>6. /\ results[w] \o part \in Seq(Record) /\ Len(results[w] \o part) = from + Len(part)
        /\ \A i \in 1 .. from : (results[w] \o part)[i] = results[w][i]
        /\ \A i \in from + 1 .. from + Len(part) : (results[w] \o part)[i] = part[i - from]
    BY <2>2, <2>5, Concatenated DEF from
  <2>7. Len(results'[w]) <= Settled(w) /\ \A i \in 1 .. Len(results'[w]) : results'[w][i] = memfd[w][i]
    <3>1. results'[w] = results[w] \o part /\ Len(part) \in Nat
      BY <2>1, <2>2, <2>5 DEF DrainTypes
    <3>2. Len(results'[w]) <= Settled(w)
      BY <1>1, <2>2, <2>3, <2>5, <2>6, <3>1
    <3>3. ASSUME NEW i \in 1 .. Len(results'[w]) PROVE results'[w][i] = memfd[w][i]
      <4>1. CASE i <= from
        BY <2>3, <2>4, <2>6, <3>1, <4>1
      <4>2. CASE i > from
        <5>1. /\ i \in from + 1 .. from + Len(part)
              /\ i - from \in 1 .. Len(part) /\ from + (i - from) = i
          <6>1. i \in Nat /\ i <= from + Len(part) /\ from \in Nat /\ Len(part) \in Nat
            BY <2>3, <2>6, <3>1
          <6>. QED
            BY ONLY <4>2, <6>1
        <5>2. results'[w][i] = part[i - from]
          BY <2>6, <3>1, <5>1
        <5>3. part[i - from] = memfd[w][from + (i - from)]
          BY <2>5, <5>1
        <5>. QED
          BY <5>1, <5>2, <5>3
      <4>. QED
        BY <2>3, <4>1, <4>2
    <3>. QED
      BY <3>2, <3>3
  <2>8. \A v \in Workers \ {w} : results'[v] = results[v]
    BY <2>1 DEF DrainTypes
  <2>9. DrainTypes'
    BY <2>1, <2>2, <2>6 DEF DrainTypes
  <2>10. Forwarded'
    <3>. SUFFICES ASSUME NEW v \in Workers
                  PROVE  /\ Len(results'[v]) <= Settled(v)'
                         /\ \A i \in 1 .. Len(results'[v]) : results'[v][i] = memfd'[v][i]
                         /\ \A i \in 1 .. Settled(v)' : memfd'[v][i].whole
      BY DEF Forwarded
    <3>1. /\ Len(results[v]) <= Settled(v)
          /\ \A i \in 1 .. Len(results[v]) : results[v][i] = memfd[v][i]
          /\ \A i \in 1 .. Settled(v) : memfd[v][i].whole
      BY Parts DEF Forwarded
    <3>. QED
      BY <1>0, <1>1, <2>7, <2>8, <3>1
  <2>11. Told' /\ Read'
    BY <1>0, <2>1, Parts DEF Told, Read, Settled
  <2>. QED
    BY <1>0, <2>9, <2>10, <2>11, PartsNext
<1>. QED
  BY <1>0, <1>3, <1>4, <1>5

-------------------------------------------------------------------------------
(* Steps                                                                   *)

LEMMA StartsWell == Init => IInv
<1>. SUFFICES ASSUME Init PROVE IInv
  OBVIOUS
<1>1. Shape
  BY ShapeInit
<1>2. \A w \in Workers : txn[w].state = "IDLE" /\ memfd[w] = <<>> /\ cursor[w] = 0
        /\ pc[w] \in {"idle", "gone"} /\ results[w] = <<>>
  BY DEF Init, IdleTxn
<1>3. \A w \in Workers : Settled(w) = 0 /\ ~Open(w)
  BY <1>2 DEF Settled, Open
<1>4. FilesOK
  BY <1>2, <1>3 DEF FilesOK, Phase, Cut, WholeTo
<1>5. DrainBehindCommit
  BY <1>2, <1>3 DEF Init, DrainBehindCommit
<1>. QED
  BY <1>1, <1>4, <1>5 DEF IInv

(* A step of a living worker's does not touch the slot the launcher has.   *)
LEMMA SupAside ==
  ASSUME SupOK, NEW w \in Workers, Local(w), sup' = sup
  PROVE  SupOK'
BY DEF SupOK, Local

LEMMA WorkerKeeps ==
  ASSUME IInv, NEW w \in Workers, WorkerStep(w)
  PROVE  IInv' /\ FilesStep
<1>0. Shape /\ FilesOK /\ DrainBehindCommit /\ FileTypes /\ DrainTypes /\ SupOK
  BY DEF IInv, Shape
<1>1. ClaimTypes' /\ FileTypes' /\ FilesStep /\ Local(w)
  BY <1>0, ClaimTypesKept, ClaimFiles, ProduceTypesKept, ProduceFiles DEF WorkerStep
<1>2. UNCHANGED <<results, held, sup>>
  BY DEF WorkerStep, Claims, Produces, claimFrame, runFrame, drainVars, BeginClaim, ClaimPacket,
     ClaimTicket, NothingYet, Recheck, EndOfInput, AlarmLeaves, PublishTxn, PayloadDone,
     SkipPoisoned, PassSentinel, FailSkips, FailStops, FailRetries, FinishFrame, BeginCommit,
     Clear, Notify, NotifyFails
<1>3. \/ signals' = signals
      \/ Announce(w) /\ Len(memfd[w]) <= Settled(w)'
  <2>1. CASE Claims(w)
    BY <2>1 DEF Claims, claimFrame, BeginClaim, ClaimPacket, ClaimTicket, NothingYet, Recheck,
       EndOfInput, AlarmLeaves, PublishTxn
  <2>2. CASE Notify(w)
    <3>1. Announce(w) /\ UNCHANGED <<txn, memfd>> /\ pc[w] = "notify"
      BY <2>2 DEF Notify
    <3>2. Settled(w)' = Len(memfd[w]) /\ Len(memfd[w]) \in Nat
      BY <1>0, <3>1, Lengths DEF FilesOK, Phase, Settled
    <3>. QED
      BY <3>1, <3>2
  <2>3. CASE Produces(w) /\ ~Notify(w)
    BY <2>3 DEF Produces, PayloadDone, SkipPoisoned, PassSentinel, FailSkips, FailStops,
       FailRetries, FinishFrame, BeginCommit, Clear, NotifyFails
  <2>. QED
    BY <2>1, <2>2, <2>3 DEF WorkerStep
<1>4. DrainTypes' /\ DrainBehindCommit'
  BY <1>0, <1>1, <1>2, <1>3, StaysBehind
<1>5. SupOK'
  BY <1>0, <1>1, <1>2, SupAside
<1>6. FilesOK'
  BY <1>1 DEF FilesOK, FilesStep
<1>. QED
  BY <1>1, <1>4, <1>5, <1>6 DEF IInv, Shape

LEMMA KillKeeps ==
  ASSUME IInv, NEW w \in Workers, Kill(w)
  PROVE  IInv' /\ FilesStep
<1>0. Shape /\ FilesOK /\ DrainBehindCommit /\ FileTypes /\ DrainTypes /\ SupOK /\ ClaimTypes
  BY DEF IInv, Shape
<1>1. FileTypes' /\ FilesStep /\ Local(w)
  BY <1>0, KillFiles
<1>2. UNCHANGED <<results, held, sup, signals, nextIdx, escrow>> /\ ProcessEnds(w, FALSE)
  BY DEF Kill, drainVars, inputVars, escrowVars
<1>3. ClaimTypes'
  BY <1>0, <1>2, EndsTyped DEF ClaimTypes
<1>4. DrainTypes' /\ DrainBehindCommit'
  BY <1>0, <1>1, <1>2, StaysBehind
<1>5. SupOK'
  BY <1>0, <1>1, <1>2, SupAside
<1>6. FilesOK'
  BY <1>1 DEF FilesOK, FilesStep
<1>. QED
  BY <1>1, <1>3, <1>4, <1>5, <1>6 DEF IInv, Shape

LEMMA DrainKeeps ==
  ASSUME IInv, DrainStep \/ DrainDies
  PROVE  IInv' /\ FilesStep
<1>0. Shape /\ FilesOK /\ DrainBehindCommit /\ FileTypes /\ DrainTypes /\ SupOK /\ ClaimTypes
  BY DEF IInv, Shape
<1>1. /\ DrainTypes' /\ DrainBehindCommit'
      /\ UNCHANGED <<pc, txn, cursor, memfd, sup, nextIdx, escrow, hold>>
  BY <1>0, DrainFollows DEF DrainStep
<1>2. FilesStep
  BY <1>0, <1>1, NoWorker
<1>3. FilesOK'
  BY <1>2 DEF FilesOK, FilesStep
<1>4. ClaimTypes' /\ FileTypes' /\ SupOK'
  BY <1>0, <1>1 DEF ClaimTypes, FileTypes, SupOK
<1>. QED
  BY <1>1, <1>2, <1>3, <1>4 DEF IInv, Shape

(* A step that leaves the files, the drain and the launcher alone.         *)
LEMMA IdleKeeps ==
  ASSUME IInv, UNCHANGED <<pc, txn, cursor, memfd, results, held, signals, sup, nextIdx, escrow, hold>>
  PROVE  IInv' /\ FilesStep
<1>0. Shape /\ FilesOK /\ DrainBehindCommit /\ FileTypes /\ DrainTypes /\ SupOK /\ ClaimTypes
  BY DEF IInv, Shape
<1>1. ClaimTypes' /\ FileTypes' /\ SupOK'
  BY <1>0 DEF ClaimTypes, FileTypes, SupOK
<1>2. FilesStep
  BY <1>0, NoWorker
<1>3. FilesOK'
  BY <1>2 DEF FilesOK, FilesStep
<1>4. DrainTypes' /\ DrainBehindCommit'
  BY <1>0, <1>1, <1>2, StaysBehind
<1>. QED
  BY <1>1, <1>2, <1>3, <1>4 DEF IInv, Shape

(* What the launcher has to show for a step of its own.                    *)
LEMMA LauncherKeeps ==
  ASSUME IInv, ClaimTypes', FileTypes', FilesStep, SupOK', UNCHANGED <<results, held>>,
         \/ signals' = signals
         \/ \E w \in Workers : Announce(w) /\ Len(memfd[w]) <= Settled(w)'
  PROVE  IInv' /\ FilesStep
<1>1. DrainTypes' /\ DrainBehindCommit'
  BY StaysBehind DEF IInv, Shape
<1>2. FilesOK'
  BY DEF FilesOK, FilesStep
<1>. QED
  BY <1>1, <1>2 DEF IInv, Shape

LEMMA SuperviseKeeps ==
  ASSUME IInv, Supervise
  PROVE  IInv' /\ FilesStep
<1>0. Shape /\ FilesOK /\ DrainBehindCommit /\ FileTypes /\ DrainTypes /\ SupOK /\ ClaimTypes
  BY DEF IInv, Shape
<1>1. UNCHANGED <<results, held, nextIdx>>
  BY DEF Supervise, ReapUnsupervised, RecoverIdle, RecoverRace, RecoverOrphan, Wake, WakeFails,
     Decide, ReapDrain, Join, supFrame, drainVars, inputVars
<1>2. CASE \E w \in Workers : ReapUnsupervised(w) \/ RecoverRace(w)
  <2>1. PICK w \in Workers : ReapUnsupervised(w) \/ RecoverRace(w)
    BY <1>2
  <2>2. /\ UNCHANGED <<txn, memfd, cursor, hold, escrow, signals>> /\ pc[w] = "dead"
        /\ sup' = Waiting
        /\ Goto(w, "gone") \/ pc' = pc
    BY <2>1 DEF ReapUnsupervised, RecoverRace, Bad, Reaped, workerVars, escrowVars
  <2>3. FileTypes' /\ FilesStep
    <3>1. CASE Goto(w, "gone")
      <4>1. EndSlot(w) /\ ~Respawn(w)
        <5>1. UNCHANGED workerVars
          BY <2>1 DEF ReapUnsupervised, RecoverRace
        <5>2. pc'[w] = "gone"
          BY <1>0, <3>1, GotoTyped DEF Labels
        <5>3. ~Respawn(w)
          BY <1>0, <5>2 DEF Respawn, Goto, FileTypes
        <5>. QED
          BY <3>1, <5>1, <5>3 DEF EndSlot
      <4>. QED
        BY <1>0, <2>2, <4>1, SlotFiles
    <3>2. CASE pc' = pc
      BY <1>0, <2>2, <3>2, NoWorker DEF FileTypes
    <3>. QED
      BY <2>2, <3>1, <3>2
  <2>4. ClaimTypes' /\ SupOK'
    BY <1>0, <1>1, <2>2 DEF ClaimTypes, SupOK, Waiting
  <2>. QED
    BY <1>1, <2>2, <2>3, <2>4, LauncherKeeps
<1>3. CASE \E w \in Workers : RecoverIdle(w)
  <2>1. PICK w \in Workers : RecoverIdle(w)
    BY <1>3
  <2>2. /\ FileTypes' /\ FilesStep
        /\ pc' = pc /\ pc[w] = "dead" /\ txn'[w].state = "IDLE"
    BY <1>0, <2>1, RecoverIdleFiles
  <2>3. /\ UNCHANGED <<hold, escrow, signals>>
        /\ sup' = [at |-> "wake", w |-> w, rc |-> IF exitZero[w] \/ Drained THEN 2 ELSE 1]
    BY <2>1 DEF RecoverIdle, workerVars, escrowVars
  <2>4. ClaimTypes' /\ SupOK'
    BY <1>0, <1>1, <2>2, <2>3 DEF ClaimTypes, SupOK
  <2>. QED
    BY <1>1, <2>2, <2>3, <2>4, LauncherKeeps
<1>4. CASE \E w \in Workers : RecoverOrphan(w)
  <2>1. PICK w \in Workers : RecoverOrphan(w)
    BY <1>4
  <2>2. /\ FileTypes' /\ FilesStep
        /\ pc' = pc /\ pc[w] = "dead" /\ txn'[w].state = "IDLE"
    BY <1>0, <2>1, RecoverOrphanFiles
  <2>3. /\ UNCHANGED <<hold, signals>>
        /\ escrow' = Append(escrow, [b |-> txn[w].b, kills |-> txn[w].kills + 1])
        /\ sup' = [at |-> "wake", w |-> w, rc |-> 0]
    BY <2>1 DEF RecoverOrphan, workerVars, Deposited
  <2>4. [b |-> txn[w].b, kills |-> txn[w].kills + 1] \in Packet
    BY <1>0 DEF FileTypes, Txn, Packet
  <2>5. ClaimTypes'
    BY <1>0, <1>1, <2>3, <2>4 DEF ClaimTypes
  <2>6. SupOK'
    BY <1>0, <2>2, <2>3 DEF SupOK
  <2>. QED
    BY <1>1, <2>2, <2>3, <2>5, <2>6, LauncherKeeps
<1>5. CASE Wake
  <2>1. /\ sup.at = "wake" /\ Announce(sup.w) /\ sup' = [sup EXCEPT !.at = "decide"]
        /\ UNCHANGED <<txn, memfd, cursor, hold, escrow, pc>>
    BY <1>5 DEF Wake, workerVars, escrowVars
  <2>2. PICK w \in Workers : sup.w = w /\ pc[w] = "dead" /\ txn[w].state = "IDLE"
    BY <1>0, <2>1 DEF SupOK
  <2>3. Announce(w) /\ Settled(w)' = Len(memfd[w]) /\ Len(memfd[w]) \in Nat
    BY <1>0, <2>1, <2>2, Lengths DEF Settled
  <2>4. FileTypes' /\ FilesStep
    BY <1>0, <2>1, NoWorker DEF FileTypes
  <2>5. ClaimTypes' /\ SupOK'
    BY <1>0, <1>1, <2>1 DEF ClaimTypes, SupOK
  <2>. QED
    BY <1>1, <2>3, <2>4, <2>5, LauncherKeeps
<1>6. CASE WakeFails \/ ReapDrain \/ Join
  <2>1. /\ sup' = Waiting \/ sup' = sup
        /\ UNCHANGED <<txn, memfd, cursor, hold, escrow, pc, signals>>
    BY <1>6 DEF WakeFails, ReapDrain, Join, Bad, workerVars, escrowVars
  <2>2. FileTypes' /\ FilesStep
    BY <1>0, <2>1, NoWorker DEF FileTypes
  <2>3. ClaimTypes' /\ SupOK'
    BY <1>0, <1>1, <2>1 DEF ClaimTypes, SupOK, Waiting
  <2>. QED
    BY <1>1, <2>1, <2>2, <2>3, LauncherKeeps
<1>7. CASE Decide
  <2>1. /\ sup.at = "decide" /\ UNCHANGED <<txn, memfd, signals, escrow>> /\ sup' = Waiting
        /\ EndSlot(sup.w) \/ Respawn(sup.w) \/ UNCHANGED <<pc, workerVars>>
    BY <1>7 DEF Decide, Bad, escrowVars
  <2>2. PICK w \in Workers : sup.w = w /\ pc[w] = "dead" /\ txn[w].state = "IDLE"
    BY <1>0, <2>1 DEF SupOK
  <2>3. FileTypes' /\ FilesStep
    <3>1. CASE EndSlot(w) \/ Respawn(w)
      BY <1>0, <2>1, <2>2, <3>1, SlotFiles
    <3>2. CASE UNCHANGED <<pc, workerVars>>
      BY <1>0, <2>1, <3>2, NoWorker DEF FileTypes, workerVars
    <3>. QED
      BY <2>1, <2>2, <3>1, <3>2
  <2>4. hold' = hold
    BY <2>1 DEF EndSlot, Respawn, workerVars
  <2>5. ClaimTypes' /\ SupOK'
    BY <1>0, <1>1, <2>1, <2>4 DEF ClaimTypes, SupOK, Waiting
  <2>. QED
    BY <1>1, <2>1, <2>3, <2>5, LauncherKeeps
<1>. QED
  BY <1>2, <1>3, <1>4, <1>5, <1>6, <1>7 DEF Supervise

(* Every step keeps the invariant and every worker's committed output.     *)
LEMMA StepKeeps ==
  ASSUME IInv, [Next]_vars
  PROVE  IInv' /\ FilesStep
<1>1. CASE Scan
  BY <1>1, IdleKeeps DEF Scan, escrowVars, workerVars, drainVars
<1>2. CASE \E w \in Workers : WorkerStep(w)
  BY <1>2, WorkerKeeps
<1>3. CASE DrainStep
  BY <1>3, DrainKeeps
<1>4. CASE Supervise
  BY <1>4, SuperviseKeeps
<1>5. CASE Faults
  BY <1>5, DrainKeeps, KillKeeps DEF Faults
<1>6. CASE Over \/ UNCHANGED vars
  <2>1. UNCHANGED vars
    BY <1>6 DEF Over
  <2>. QED
    BY <2>1, IdleKeeps DEF vars, inputVars, escrowVars, workerVars, drainVars
<1>. QED
  BY <1>1, <1>2, <1>3, <1>4, <1>5, <1>6 DEF Next

LEMMA Invariant == Spec => []IInv
<1>1. Init => IInv
  BY StartsWell
<1>2. IInv /\ [Next]_vars => IInv'
  BY StepKeeps
<1>. QED
  BY <1>1, <1>2, PTL DEF Spec

(* The drain forwards committed output only, and is never told of more:    *)
(* fr_py_drain_loop behind fr_py_notify_committed, whoever dies when.      *)
THEOREM BehindCorrect == Spec => []DrainBehindCommit
<1>1. IInv => DrainBehindCommit
  BY DEF IInv
<1>. QED
  BY <1>1, Invariant, PTL

(* No step of a worker, the launcher or the drain takes back a committed   *)
(* record: worker_txn_advance_output, ring_recover_worker_core.            *)
THEOREM KeptCorrect == Spec => CommittedKept
<1>1. IInv /\ [Next]_vars => [\A w \in Workers :
        /\ Settled(w) <= Settled(w)'
        /\ \A i \in 1 .. Settled(w) : memfd'[w][i] = memfd[w][i]]_vars
  <2>. SUFFICES ASSUME IInv, [Next]_vars
                PROVE  \A w \in Workers :
                         /\ Settled(w) <= Settled(w)'
                         /\ \A i \in 1 .. Settled(w) : memfd'[w][i] = memfd[w][i]
    OBVIOUS
  <2>1. FilesStep
    BY StepKeeps
  <2>. QED
    BY <2>1 DEF FilesStep, Kept
<1>. QED
  BY <1>1, Invariant, PTL DEF Spec, CommittedKept
===============================================================================
