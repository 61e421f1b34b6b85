---------------------------- MODULE Seqlock_proofs ----------------------------
(***************************************************************************)
(* A snapshot of the ledger is never torn, for any number of ledger words, *)
(* readers and publications, on a target that holds the field stores       *)
(* behind the first increment (StoresHeld).                                *)
(*                                                                         *)
(* The sequence word tells where the writer is: with 2*pub nothing is      *)
(* open, with 2*pub-2 the next publication is prepared but not announced,  *)
(* with 2*pub-1 it is open and some of its fields are visible.  While a    *)
(* reader's first load still equals the sequence word and is even, nothing *)
(* was stored since, so all it has copied is of that publication.          *)
(***************************************************************************)
EXTENDS Seqlock, TLAPS

(* Where the writer is.                                                    *)
WriterInv ==
  /\ seq \in Nat /\ pub \in 0..MaxPublish /\ todo \subseteq Fields
  /\ \/ seq = 2 * pub /\ todo = {}
     \/ seq = 2 * pub - 2 /\ pub > 0 /\ todo = Fields
     \/ seq = 2 * pub - 1 /\ pub > 0
  /\ mem \in [Fields -> Nat]
  /\ \A f \in Fields : mem[f] = IF f \in todo THEN pub - 1 ELSE pub

(* What a reader has copied, for as long as its first load is current.     *)
ReaderInv(r) ==
  rpc[r] = "copy" =>
    /\ seq1[r] <= seq
    /\ seq1[r] = seq /\ ~Odd(seq) => \A f \in copied[r] : seq = 2 * snap[r][f]

Readings ==
  /\ rpc \in [Readers -> {"seq1", "copy", "done"}]
  /\ seq1 \in [Readers -> Nat]
  /\ copied \in [Readers -> SUBSET Fields]
  /\ snap \in [Readers -> [Fields -> Nat]]

IInv == WriterInv /\ Readings /\ (\A r \in Readers : ReaderInv(r)) /\ SnapshotIsPublication

-------------------------------------------------------------------------------
(* An even sequence word is twice the publication every field holds.       *)
LEMMA EvenMemory ==
  ASSUME WriterInv, ~Odd(seq)
  PROVE  /\ \A f \in Fields : seq = 2 * mem[f]
         /\ todo \in {{}, Fields}
<1>1. MaxPublish \in Nat
  BY SeqlockAssumption
<1>2. seq # 2 * pub - 1
  BY <1>1 DEF WriterInv, Odd
<1>3. CASE seq = 2 * pub /\ todo = {}
  BY <1>1, <1>3 DEF WriterInv
<1>4. CASE seq = 2 * pub - 2 /\ pub > 0 /\ todo = Fields
  BY <1>1, <1>4 DEF WriterInv
<1>. QED
  BY <1>2, <1>3, <1>4 DEF WriterInv

(* The initial state satisfies the invariant.                              *)
LEMMA Starts == Init => IInv
BY SeqlockAssumption DEF Init, IInv, WriterInv, Readings, ReaderInv, SnapshotIsPublication

(* A step of the writer leaves the readers' side of the invariant alone:   *)
(* it stores a field only while the sequence word is odd, and a bump makes *)
(* every first load out of date.                                           *)
LEMMA WriteKeeps ==
  ASSUME StoresHeld, IInv, Write
  PROVE  IInv'
<1>1. MaxPublish \in Nat
  BY SeqlockAssumption
<1>2. UNCHANGED rvars /\ (seq' = seq \/ seq' = seq + 1)
  BY DEF Write, Prepare, FirstBump, SecondBump, StoreField
<1>3. Readings' /\ SnapshotIsPublication'
  BY <1>2 DEF IInv, Readings, SnapshotIsPublication, rvars
<1>4. \A r \in Readers : ReaderInv(r)'
  BY <1>2 DEF IInv, Readings, ReaderInv, WriterInv, rvars, Odd
<1>5. WriterInv'
  <2>1. CASE Prepare
    BY <1>1, <2>1 DEF IInv, WriterInv, Prepare
  <2>2. CASE FirstBump
    BY <1>1, <2>2 DEF IInv, WriterInv, FirstBump
  <2>3. CASE SecondBump
    <3>1. seq = 2 * pub - 1
      BY <1>1, <2>3 DEF IInv, WriterInv, SecondBump, Odd
    <3>. QED
      BY <1>1, <2>3, <3>1 DEF IInv, WriterInv, SecondBump
  <2>4. CASE \E f \in Fields : StoreField(f)
    <3>1. PICK f \in Fields : StoreField(f)
      BY <2>4
    <3>2. seq = 2 * pub - 1 /\ pub > 0
      BY <1>1, <3>1 DEF IInv, WriterInv, StoreField, Odd
    <3>. QED
      BY <1>1, <3>1, <3>2 DEF IInv, WriterInv, StoreField
  <2>. QED
    BY <2>1, <2>2, <2>3, <2>4 DEF Write
<1>. QED
  BY <1>3, <1>4, <1>5 DEF IInv

(* A step of a reader: what it loads while the sequence word is still its  *)
(* first load and even is the current publication.                         *)
LEMMA ReadKeeps ==
  ASSUME IInv, NEW r \in Readers, Read(r) \/ Again(r)
  PROVE  IInv'
<1>1. UNCHANGED wvars /\ WriterInv'
  BY DEF IInv, WriterInv, Read, Again, LoadSeq1, LoadSeq2, CopyField, wvars
<1>2. CASE LoadSeq1(r)
  BY <1>1, <1>2 DEF IInv, WriterInv, Readings, ReaderInv, SnapshotIsPublication, LoadSeq1, wvars, Odd
<1>3. CASE LoadSeq2(r)
  <2>1. Readings' /\ \A q \in Readers : ReaderInv(q)'
    BY <1>1, <1>3 DEF IInv, Readings, ReaderInv, LoadSeq2, wvars, Odd
  <2>2. SnapshotIsPublication'
    BY <1>3 DEF IInv, Readings, ReaderInv, SnapshotIsPublication, LoadSeq2, Fence, Retry
  <2>. QED
    BY <1>1, <2>1, <2>2 DEF IInv
<1>4. CASE \E f \in Fields : CopyField(r, f)
  <2>1. PICK f \in Fields : CopyField(r, f)
    BY <1>4
  <2>2. Readings'
    BY <2>1 DEF IInv, Readings, WriterInv, CopyField
  <2>3. \A q \in Readers : ReaderInv(q)'
    <3>1. ~Odd(seq) => seq = 2 * mem[f]
      BY EvenMemory DEF IInv
    <3>. QED
      BY <1>1, <2>1, <3>1 DEF IInv, Readings, WriterInv, ReaderInv, CopyField, wvars, Odd
  <2>4. SnapshotIsPublication'
    BY <2>1 DEF IInv, Readings, SnapshotIsPublication, CopyField
  <2>. QED
    BY <1>1, <2>2, <2>3, <2>4 DEF IInv
<1>5. CASE Again(r)
  BY <1>1, <1>5 DEF IInv, WriterInv, Readings, ReaderInv, SnapshotIsPublication, Again, wvars, Odd
<1>. QED
  BY <1>2, <1>3, <1>4, <1>5 DEF Read

(* Every step of the specification keeps the invariant.                    *)
LEMMA StepKeeps ==
  ASSUME StoresHeld, IInv, [Next]_vars
  PROVE  IInv'
<1>1. CASE UNCHANGED vars
  BY <1>1 DEF vars, IInv, WriterInv, Readings, ReaderInv, SnapshotIsPublication, Odd
<1>2. CASE Write
  BY <1>2, WriteKeeps
<1>3. CASE \E r \in Readers : Read(r) \/ Again(r)
  BY <1>3, ReadKeeps
<1>. QED
  BY <1>1, <1>2, <1>3 DEF Next

(* The invariant holds at any time.                                        *)
LEMMA Invariant == ASSUME StoresHeld PROVE Spec => []IInv
BY Starts, StepKeeps, PTL DEF Spec

-------------------------------------------------------------------------------
(* No accepted snapshot of the ledger is torn (ring_dump_resume and the    *)
(* resuming scanner accept only what one publication stored).              *)
THEOREM SnapshotCorrect == ASSUME StoresHeld PROVE Spec => []SnapshotIsPublication
<1>1. IInv => SnapshotIsPublication
  BY DEF IInv
<1>. QED
  BY Invariant, <1>1, PTL

(* Every variable keeps its type (the sequence word and the values of the  *)
(* ledger's fields are naturals, whatever has been published).             *)
THEOREM TypeCorrect == ASSUME StoresHeld PROVE Spec => []TypeOK
<1>1. IInv => TypeOK
  BY DEF IInv, TypeOK, WriterInv, Readings
<1>. QED
  BY Invariant, <1>1, PTL

(* Acceptance is the linearisation point: the snapshot equals the ledger   *)
(* as it is when the reader's second load succeeds.                        *)
THEOREM CurrentCorrect == ASSUME StoresHeld PROVE Spec => SnapshotIsCurrent
<1>1. ASSUME IInv, [Next]_vars,
             NEW r \in Readers, rpc[r] = "copy", rpc'[r] = "done"
      PROVE  snap[r] = mem /\ todo \in {{}, Fields}
  <2>1. LoadSeq2(r)
    <3>1. ~UNCHANGED vars
      BY <1>1 DEF vars
    <3>2. ~Write
      BY <1>1 DEF Write, Prepare, FirstBump, SecondBump, StoreField, rvars
    <3>3. PICK q \in Readers : Read(q) \/ Again(q)
      BY <1>1, <3>1, <3>2 DEF Next
    <3>4. q = r /\ ~Again(q) /\ ~LoadSeq1(q)
      BY <1>1, <3>3 DEF IInv, Readings, Read, Again, LoadSeq1, LoadSeq2, CopyField
    <3>5. \A f \in Fields : ~CopyField(q, f)
      BY <1>1 DEF CopyField
    <3>. QED
      BY <3>3, <3>4, <3>5 DEF Read
  <2>2. copied[r] = Fields /\ seq1[r] = seq /\ ~Odd(seq)
    BY <1>1, <2>1 DEF IInv, Readings, LoadSeq2, Fence, Retry
  <2>3. \A f \in Fields : seq = 2 * mem[f] /\ seq = 2 * snap[r][f]
    BY <1>1, <2>2, EvenMemory DEF IInv, ReaderInv
  <2>4. snap[r] = mem
    <3>1. snap[r] \in [Fields -> Nat] /\ mem \in [Fields -> Nat]
      BY <1>1 DEF IInv, Readings, WriterInv
    <3>2. \A f \in Fields : snap[r][f] = mem[f]
      <4>. SUFFICES ASSUME NEW f \in Fields PROVE snap[r][f] = mem[f]
        OBVIOUS
      <4>1. 2 * mem[f] = 2 * snap[r][f] /\ mem[f] \in Nat /\ snap[r][f] \in Nat
        BY <2>3, <3>1
      <4>. QED
        BY ONLY <4>1
    <3>. QED
      BY ONLY <3>1, <3>2
  <2>. QED
    BY <1>1, <2>2, <2>4, EvenMemory DEF IInv
<1>2. IInv /\ [Next]_vars =>
        [\A r \in Readers : rpc[r] = "copy" /\ rpc'[r] = "done" =>
           snap[r] = mem /\ todo \in {{}, Fields}]_vars
  BY <1>1
<1>. QED
  BY Invariant, <1>2, PTL DEF Spec, SnapshotIsCurrent
=============================================================================
