----------------------------- MODULE Resume_proofs ----------------------------
(***************************************************************************)
(* The pipeline of one node through failures, checkpoints and resumes, for *)
(* any input, buffer, batch sizes, limit, number of batches in flight,     *)
(* runs and faults.                                                        *)
(***************************************************************************)
EXTENDS Resume, TLAPS, FiniteSetTheorems, WellFoundedInduction

LEMMA Constants ==
  /\ N \in Nat /\ Delims \subseteq 0..N-1 /\ Buffer \in Nat \ {0} /\ JaggedCap \in Nat \ {0}
  /\ \A m \in Modes : Limits[m] \subseteq Nat /\ Sizes[m] \subseteq Nat \ {0}
  /\ Modes \subseteq {"ordered", "buffered", "realtime"} /\ MaxFaults \in Nat
  /\ Pauses \subseteq 1..N
BY StreamAssumption

(* A set of numbers that is not empty has a least one.                     *)
LEMMA Least ==
  ASSUME NEW S \in SUBSET Nat, S # {} PROVE \E x \in S : \A y \in S : x <= y
<1> DEFINE less == OpToRel(<, Nat)
<1>1. IsWellFoundedOn(less, Nat)
  BY NatLessThanWellFounded
<1>2. PICK x \in S : \A y \in S : <<y, x>> \notin less
  BY <1>1, WFMin
<1>3. \A y \in S : ~(y < x)
  BY <1>2 DEF OpToRel
<1>. QED
  BY <1>3

-------------------------------------------------------------------------------
(* Lines. *)

LEMMA DelimsFinite ==
  ASSUME NEW s, NEW e
  PROVE  IsFiniteSet(DelimsIn(s, e)) /\ Cardinality(DelimsIn(s, e)) \in Nat
<1>1. IsFiniteSet(0..N-1)
  BY Constants, FS_Interval
<1>2. DelimsIn(s, e) \in SUBSET (0..N-1)
  BY Constants DEF DelimsIn
<1>. QED
  BY <1>1, <1>2, FS_Subset, FS_CardinalityType

(* The lines that end before e, and those that end from there to f.        *)
LEMMA SplitLines ==
  ASSUME NEW s \in Nat, NEW e \in Nat, NEW f \in Nat, s <= e, e <= f
  PROVE  Cardinality(DelimsIn(s, f)) = Cardinality(DelimsIn(s, e)) + Cardinality(DelimsIn(e, f))
<1>1. \A d \in Delims : d \in Int
  BY Constants
<1>2. DelimsIn(s, f) = DelimsIn(s, e) \cup DelimsIn(e, f)
  BY <1>1 DEF DelimsIn
<1>3. DelimsIn(s, e) \cap DelimsIn(e, f) = {}
  BY <1>1 DEF DelimsIn
<1>4. /\ IsFiniteSet(DelimsIn(s, e)) /\ Cardinality(DelimsIn(s, e)) \in Nat
      /\ IsFiniteSet(DelimsIn(e, f)) /\ Cardinality(DelimsIn(e, f)) \in Nat
  BY DelimsFinite
<1>5. Cardinality({}) = 0
  BY FS_EmptySet
<1>6. PICK A, B : A = DelimsIn(s, e) /\ B = DelimsIn(e, f)
  OBVIOUS
<1>7. Cardinality(A \cup B) = Cardinality(A) + Cardinality(B) - Cardinality(A \cap B)
  BY <1>4, <1>6, FS_Union
<1>8. Cardinality(A \cup B) = Cardinality(A) + Cardinality(B)
  BY ONLY <1>3, <1>4, <1>5, <1>6, <1>7
<1>. QED
  BY ONLY <1>2, <1>6, <1>8

(* A delimiter at or after e is one more.                                  *)
LEMMA OneMore ==
  ASSUME NEW s \in Nat, NEW e \in Nat, NEW d \in Delims, s <= d, e <= d
  PROVE  Cardinality(DelimsIn(s, e)) < Cardinality(DelimsIn(s, d + 1))
<1>1. \A x \in Delims : x \in Nat
  BY Constants
<1>2. DelimsIn(s, e) \cup {d} \subseteq DelimsIn(s, d + 1) /\ d \notin DelimsIn(s, e)
  BY <1>1 DEF DelimsIn
<1>3. PICK A, B : A = DelimsIn(s, e) /\ B = DelimsIn(s, d + 1)
  OBVIOUS
<1>4. IsFiniteSet(A) /\ IsFiniteSet(B) /\ Cardinality(A) \in Nat /\ Cardinality(B) \in Nat
  BY <1>3, DelimsFinite
<1>5. IsFiniteSet(A \cup {d}) /\ Cardinality(A \cup {d}) = Cardinality(A) + 1
  BY <1>2, <1>3, <1>4, FS_AddElement
<1>6. Cardinality(A \cup {d}) <= Cardinality(B)
  BY <1>2, <1>3, <1>4, FS_Subset
<1>. QED
  BY <1>3, <1>4, <1>5, <1>6

(* There is a k-th delimiter where there are k.                            *)
LEMMA KthDelimiter ==
  ASSUME NEW s \in Nat, NEW e \in Nat, NEW k \in Nat \ {0}, k <= Cardinality(DelimsIn(s, e))
  PROVE  \E d \in DelimsIn(s, e) : Cardinality(DelimsIn(s, d + 1)) = k
<1> DEFINE c(j) == Cardinality(DelimsIn(s, j))
           T == {j \in 0..e : k <= c(j)}
<1>1. \A j : c(j) \in Nat /\ IsFiniteSet(DelimsIn(s, j))
  BY DelimsFinite
<1>2. T \in SUBSET Nat /\ T # {}
  BY <1>1
<1>3. PICK j \in T : \A i \in T : j <= i
  <2>. HIDE DEF T
  <2>. QED
    BY <1>2, Least
<1>4. j \in 0..e /\ k <= c(j)
  OBVIOUS
<1>5. s < j
  <2>. SUFFICES ASSUME j <= s PROVE FALSE
    BY <1>4
  <2>1. DelimsIn(s, j) = {}
    <3>1. \A d \in Delims : d \in Int
      BY Constants
    <3>. QED
      BY <1>4, <3>1 DEF DelimsIn
  <2>2. c(j) = 0
    BY <2>1, FS_EmptySet
  <2>. QED
    BY <1>4, <2>2
<1>6. PICK d \in Nat : d = j - 1 /\ d + 1 = j
  BY <1>4, <1>5
<1>7. c(d) < k /\ c(d) \in Nat
  <2>1. d \notin T /\ d \in 0..e
    BY <1>3, <1>4, <1>6
  <2>2. ~(k <= c(d)) /\ c(d) \in Nat
    BY <1>1, <2>1
  <2>. HIDE DEF c
  <2>. QED
    BY <2>2
<1>8. DelimsIn(d, j) = DelimsIn(d, d + 1) /\ DelimsIn(d, j) \subseteq {d}
  <2>1. \A x \in Delims : x \in Int
    BY Constants
  <2>. QED
    BY <1>6, <2>1 DEF DelimsIn
<1>9. c(j) = c(d) + Cardinality(DelimsIn(d, j))
  BY <1>4, <1>5, <1>6, SplitLines
<1>10. d \in DelimsIn(d, j) /\ Cardinality(DelimsIn(d, j)) = 1
  <2>1. CASE DelimsIn(d, j) = {}
    <3>1. c(j) = c(d) + 0
      BY <1>9, <2>1, FS_EmptySet
    <3>. HIDE DEF c
    <3>. QED
      BY <1>4, <1>7, <3>1
  <2>2. CASE DelimsIn(d, j) = {d}
    BY <2>2, FS_Singleton
  <2>. QED
    BY <1>8, <2>1, <2>2
<1>11. c(d + 1) = k
  <2>. HIDE DEF c
  <2>1. c(j) = c(d) + 1
    BY <1>9, <1>10
  <2>. QED
    BY <1>4, <1>6, <1>7, <2>1
<1>12. d \in DelimsIn(s, e)
  BY <1>4, <1>5, <1>6, <1>10 DEF DelimsIn
<1>. QED
  BY <1>11, <1>12

(* Where there are k delimiters before e, AfterDelim finds the k-th.       *)
LEMMA AfterDelimIs ==
  ASSUME NEW s \in Nat, NEW e \in Nat, NEW k \in Nat \ {0}, k <= Cardinality(DelimsIn(s, e))
  PROVE  /\ AfterDelim(s, k) \in Nat /\ s < AfterDelim(s, k) /\ AfterDelim(s, k) <= e
         /\ AfterDelim(s, k) - 1 \in Delims
         /\ Cardinality(DelimsIn(s, AfterDelim(s, k))) = k
<1>1. \E d \in Delims : d >= s /\ Cardinality(DelimsIn(s, d + 1)) = k
  <2>1. PICK d \in DelimsIn(s, e) : Cardinality(DelimsIn(s, d + 1)) = k
    BY KthDelimiter
  <2>2. d \in Delims /\ s <= d /\ d \in Nat
    BY <2>1, Constants DEF DelimsIn
  <2>. QED
    BY <2>1, <2>2
<1>2. PICK d : d = CHOOSE x \in Delims : x >= s /\ Cardinality(DelimsIn(s, x + 1)) = k
  OBVIOUS
<1>3. d \in Delims /\ d >= s /\ Cardinality(DelimsIn(s, d + 1)) = k
  BY <1>1, <1>2
<1>4a. d \in Nat
  BY <1>3, Constants
<1>4. d \in Nat /\ AfterDelim(s, k) = 1 + d
  BY <1>2, <1>4a DEF AfterDelim
<1>5. d < e
  <2>. SUFFICES ASSUME e <= d PROVE FALSE
    BY <1>4
  <2>1. Cardinality(DelimsIn(s, e)) < k
    BY <1>3, OneMore
  <2>. QED
    BY <2>1, DelimsFinite
<1>6. 1 + d = d + 1
  BY <1>4
<1>. QED
  BY <1>3, <1>4, <1>5, <1>6

(* It is the only one.                                                     *)
LEMMA KthOnce ==
  ASSUME NEW s \in Nat, NEW c \in Delims, NEW d \in Delims, s <= c, s <= d,
         Cardinality(DelimsIn(s, c + 1)) = Cardinality(DelimsIn(s, d + 1))
  PROVE  c = d
<1>0. c \in Nat /\ d \in Nat
  BY Constants
<1>1. ASSUME NEW i \in Delims, NEW j \in Delims, s <= j, i < j,
             Cardinality(DelimsIn(s, i + 1)) = Cardinality(DelimsIn(s, j + 1))
      PROVE  FALSE
  <2>1. i + 1 \in Nat /\ i + 1 <= j
    BY <1>1, Constants
  <2>2. Cardinality(DelimsIn(s, i + 1)) < Cardinality(DelimsIn(s, j + 1))
    BY <1>1, <2>1, OneMore
  <2>. QED
    BY <1>1, <2>2, DelimsFinite
<1>. QED
  BY <1>0, <1>1

(* Lines before p, and where the first l lines end.                        *)
Lines(p) == Cardinality(DelimsIn(0, p))
EndFor(l) == IF l = 0 \/ Cardinality(Delims) < l THEN N ELSE AfterDelim(0, l)

LEMMA AllLines == DelimsIn(0, N) = Delims
<1>1. \A d \in Delims : d \in Nat /\ 0 <= d /\ d < N
  BY Constants
<1>. QED
  BY <1>1 DEF DelimsIn

LEMMA LinesGrow ==
  ASSUME NEW p \in Nat, NEW q \in Nat, p <= q
  PROVE  /\ Lines(p) \in Nat /\ Lines(p) <= Lines(q)
         /\ Cardinality(DelimsIn(p, q)) \in Nat
         /\ Lines(q) = Lines(p) + Cardinality(DelimsIn(p, q))
<1>1. Lines(p) \in Nat /\ Cardinality(DelimsIn(p, q)) \in Nat
  BY DelimsFinite DEF Lines
<1>2. Lines(q) = Lines(p) + Cardinality(DelimsIn(p, q))
  BY SplitLines DEF Lines
<1>3. PICK a, b : a = Lines(p) /\ b = Cardinality(DelimsIn(p, q))
  OBVIOUS
<1>. QED
  BY <1>1, <1>2, <1>3

LEMMA EndIs ==
  ASSUME NEW l \in Nat
  PROVE  /\ EndFor(l) \in 0..N
         /\ l # 0 /\ l <= Cardinality(Delims) =>
              EndFor(l) \in Nat \ {0} /\ EndFor(l) - 1 \in Delims /\ Lines(EndFor(l)) = l
         /\ ~(l # 0 /\ l <= Cardinality(Delims)) => EndFor(l) = N
<1>0. N \in Nat /\ Cardinality(Delims) \in Nat
  BY Constants, DelimsFinite, AllLines
<1>1. CASE l # 0 /\ l <= Cardinality(Delims)
  <2>1. l \in Nat \ {0} /\ l <= Cardinality(DelimsIn(0, N)) /\ 0 \in Nat
    BY <1>1, AllLines
  <2>2. /\ AfterDelim(0, l) \in Nat /\ 0 < AfterDelim(0, l) /\ AfterDelim(0, l) <= N
        /\ AfterDelim(0, l) - 1 \in Delims
        /\ Cardinality(DelimsIn(0, AfterDelim(0, l))) = l
    BY <1>0, <2>1, AfterDelimIs
  <2>3. EndFor(l) = AfterDelim(0, l)
    BY <1>0, <1>1 DEF EndFor
  <2>. QED
    BY <1>0, <1>1, <2>2, <2>3 DEF Lines
<1>2. CASE ~(l # 0 /\ l <= Cardinality(Delims))
  <2>1. EndFor(l) = N
    BY <1>0, <1>2 DEF EndFor
  <2>. QED
    BY <1>0, <1>2, <2>1
<1>. QED
  BY <1>1, <1>2

(* Fewer than l lines end before p, or just l of them with p: p is wanted. *)
LEMMA WithinEnd ==
  ASSUME NEW l \in Nat, NEW p \in 0..N,
         l = 0 \/ Lines(p) < l \/ (p - 1 \in Delims /\ Lines(p) <= l)
  PROVE  p <= EndFor(l)
<1>0. N \in Nat /\ EndFor(l) \in Nat /\ p \in Nat
  BY Constants, EndIs
<1>. SUFFICES ASSUME EndFor(l) < p PROVE FALSE
  BY <1>0
<1>1. l # 0 /\ l <= Cardinality(Delims)
  BY <1>0, EndIs
<1>2. Lines(EndFor(l)) = l
  BY <1>1, EndIs
<1>3. l <= Lines(p) /\ Lines(p) \in Nat
  BY <1>0, <1>2, LinesGrow
<1>4. PICK d \in Delims : d = p - 1 /\ Lines(p) <= l
  BY <1>1, <1>3
<1>5. d \in Nat /\ d + 1 = p /\ EndFor(l) <= d
  BY <1>0, <1>4, Constants
<1>6. Lines(EndFor(l)) < Lines(d + 1)
  BY <1>0, <1>5, OneMore DEF Lines
<1>. QED
  BY <1>2, <1>3, <1>4, <1>5, <1>6

(* All l lines end before p: with the last of them p is the end.           *)
LEMMA IsTheEnd ==
  ASSUME NEW l \in Nat, NEW p \in 0..N, p - 1 \in Delims, Lines(p) = l, l # 0
  PROVE  p = EndFor(l)
<1>0. N \in Nat /\ p \in Nat
  BY Constants
<1>1. Lines(p) <= Lines(N) /\ Lines(N) = Cardinality(Delims)
  BY <1>0, LinesGrow, AllLines DEF Lines
<1>2. EndFor(l) \in Nat /\ EndFor(l) - 1 \in Delims /\ Lines(EndFor(l)) = l
  BY <1>1, EndIs
<1>3. PICK c \in Delims, d \in Delims : c = p - 1 /\ d = EndFor(l) - 1
  BY <1>2
<1>4. c \in Nat /\ d \in Nat /\ c + 1 = p /\ d + 1 = EndFor(l)
  BY <1>0, <1>2, <1>3, Constants
<1>5. c = d
  BY <1>2, <1>4, KthOnce DEF Lines
<1>. QED
  BY <1>4, <1>5

(* Too few lines: all the input is wanted.                                 *)
LEMMA AllWanted ==
  ASSUME NEW l \in Nat, l = 0 \/ Lines(N) < l
  PROVE  EndFor(l) = N
<1>1. Lines(N) \in Nat /\ Lines(N) = Cardinality(Delims)
  BY DelimsFinite, AllLines DEF Lines
<1>. QED
  BY <1>1, EndIs

LEMMA WantedIs == Wanted = 0..EndFor(limit)-1
BY DEF Wanted, EndFor

-------------------------------------------------------------------------------
(* The scanner's invariant.                                                *)

Ivals == {iv \in (0..N) \X (0..N) : iv[1] < iv[2]}
End == EndFor(limit)
Last == Len(batches)
Stages == {"ready", "running", "half", "done", "lost"}

Fixed == mode \in Modes /\ limit \in Limits[mode]

ScanRanges ==
  /\ ingested \in 0..N /\ eofFd \in BOOLEAN /\ ingestComplete \in BOOLEAN
  /\ ingestPc \in {"copy", "eof", "flag", "done"}
  /\ scanPc \in {"loop", "pread", "judge", "wait", "scan", "done"}
  /\ pos \in 0..N /\ avail \in 0..N /\ batchStart \in 0..N
  /\ batchStart <= pos /\ pos <= avail /\ avail <= ingested
  /\ status \in {0, 1} /\ wasComplete \in BOOLEAN /\ forceRefill \in BOOLEAN
  /\ lineSize \in Sizes[mode] /\ pending \in Nat /\ scanned \in Nat
  /\ rs.horizon \in 0..N /\ rs.jagged \subseteq Ivals

BatchRanges ==
  /\ batches \in Seq(Ivals) /\ work \in Seq(Stages) /\ Len(work) = Len(batches)
  /\ \A i \in 1..Last : batches[i][2] <= End

(* A line is counted once, and none beyond the limit.                      *)
Counting ==
  /\ scanned = Lines(pos) /\ pos <= End
  /\ pending > 0 /\ scanPc # "done" => batchStart < pos
  /\ limit > 0 /\ scanPc # "done" => scanned < limit

(* The scanner reads on only once its buffer is used up.                   *)
UsedUp ==
  /\ scanPc \in {"pread", "judge", "wait"} => pos = avail /\ status = 0
  /\ scanPc = "loop" /\ forceRefill => pos = avail
  /\ scanPc \in {"pread", "judge", "wait", "scan"} => ~forceRefill
  /\ status = 1 /\ scanPc # "done" => pos = avail

(* An end of input captured before the read was the end.                   *)
Ends ==
  /\ eofFd \/ ingestComplete \/ wasComplete => ingestPc # "copy"
  /\ alarm = 0 /\ ingestPc # "copy" /\ scanPc # "done" => ingested = N
  /\ alarm = 0 /\ scanPc = "judge" /\ wasComplete => pos = N
  /\ alarm = 0 /\ status = 1 /\ scanPc # "done" => pos = N
  /\ alarm = 0 /\ scanPc = "done" => batchStart = End

ScanInv == Fixed /\ ScanRanges /\ BatchRanges /\ Counting /\ UsedUp /\ Ends

LEMMA FixedFacts ==
  ASSUME Fixed
  PROVE  /\ limit \in Nat /\ Sizes[mode] \subseteq Nat \ {0}
         /\ mode \in {"ordered", "buffered", "realtime"}
         /\ N \in Nat /\ End \in 0..N
<1>1. limit \in Nat /\ Sizes[mode] \subseteq Nat \ {0} /\ mode \in {"ordered", "buffered", "realtime"}
  BY Constants DEF Fixed
<1>. QED
  BY <1>1, EndIs, Constants DEF End

(* What a flush publishes lies in what it was given.                       *)
LEMMA ClipIs ==
  ASSUME NEW s \in 0..N, NEW e \in 0..N, s <= e, rs.horizon \in 0..N, rs.jagged \subseteq Ivals
  PROVE  /\ FrontAfter(s) \in 0..N /\ s <= FrontAfter(s) /\ rs.horizon <= FrontAfter(s)
         /\ \/ Clip(s, e) = <<>> /\ e <= FrontAfter(s)
            \/ /\ Clip(s, e) \in Ivals /\ Clip(s, e) # <<>>
               /\ Clip(s, e)[1] = FrontAfter(s) /\ Clip(s, e)[2] <= e
         /\ rs.jagged = {} =>
              /\ FrontAfter(s) = (IF s < rs.horizon THEN rs.horizon ELSE s)
              /\ FrontAfter(s) < e => Clip(s, e) = <<FrontAfter(s), e>>
<1>0. N \in Nat
  BY Constants
<1> DEFINE s1 == IF s < rs.horizon THEN rs.horizon ELSE s
           hit == {iv \in rs.jagged : iv[1] <= s1 /\ s1 < iv[2]}
           front == FrontAfter(s)
           starts == {iv[1] : iv \in {j \in rs.jagged : front < j[1] /\ j[1] < e}}
<1>1. s1 \in 0..N /\ s <= s1 /\ rs.horizon <= s1
  BY <1>0
<1>2. front \in 0..N /\ s1 <= front
  <2>1. CASE hit = {}
    BY <1>1, <2>1 DEF FrontAfter
  <2>2. CASE hit # {}
    <3>1. PICK iv : iv = CHOOSE x \in hit : TRUE
      OBVIOUS
    <3>2. iv \in hit
      BY <2>2, <3>1
    <3>3. front = iv[2]
      BY <2>2, <3>1 DEF FrontAfter
    <3>4. iv \in Ivals /\ s1 < iv[2]
      BY <3>2
    <3>. QED
      BY <1>0, <1>1, <3>3, <3>4 DEF Ivals
  <2>. QED
    BY <2>1, <2>2
<1>3. s <= front /\ rs.horizon <= front
  BY <1>0, <1>1, <1>2
<1>4. rs.jagged = {} => front = s1
  BY DEF FrontAfter
<1>5. CASE e <= front
  <2>1. Clip(s, e) = <<>>
    BY <1>5 DEF Clip
  <2>2. ~(front < e)
    BY <1>0, <1>2, <1>5
  <2>. QED
    BY <1>2, <1>3, <1>4, <1>5, <2>1, <2>2
<1>6. CASE ~(e <= front)
  <2>1. front < e
    BY <1>0, <1>2, <1>6
  <2>2. CASE starts = {}
    <3>1. Clip(s, e) = <<front, e>>
      BY <1>6, <2>2 DEF Clip
    <3>2. <<front, e>> \in Ivals /\ <<front, e>> # <<>> /\ <<front, e>>[1] = front /\ <<front, e>>[2] <= e
      BY <1>0, <1>2, <2>1 DEF Ivals
    <3>. QED
      BY <1>2, <1>3, <1>4, <3>1, <3>2
  <2>3. CASE starts # {}
    <3>1. starts \in SUBSET Nat
      <4>1. \A iv \in Ivals : iv[1] \in Nat
        BY <1>0 DEF Ivals
      <4>. QED
        BY <4>1
    <3>2. \A b \in starts : front < b /\ b < e
      OBVIOUS
    <3>3. \E b \in starts : \A c \in starts : b <= c
      <4>. HIDE DEF starts
      <4>. QED
        BY <2>3, <3>1, Least
    <3>4. PICK b : b = CHOOSE x \in starts : \A c \in starts : x <= c
      OBVIOUS
    <3>5. b \in starts
      <4>. HIDE DEF starts
      <4>. QED
        BY <3>3, <3>4
    <3>6. Clip(s, e) = <<front, b>>
      BY <1>6, <2>3, <3>4 DEF Clip
    <3>7. b \in Nat /\ front < b /\ b < e
      BY <3>1, <3>2, <3>5
    <3>8. <<front, b>> \in Ivals /\ <<front, b>> # <<>> /\ <<front, b>>[1] = front /\ <<front, b>>[2] <= e
      BY <1>0, <1>2, <3>7 DEF Ivals
    <3>9. rs.jagged # {}
      BY <2>3
    <3>. QED
      BY <1>2, <1>3, <3>6, <3>8, <3>9
  <2>. QED
    BY <2>2, <2>3
<1>. QED
  BY <1>5, <1>6

(* Nothing is published, or one batch at the end.                          *)
Adds(b) == batches' = Append(batches, b) /\ work' = Append(work, "ready")

LEMMA FlushIs ==
  ASSUME NEW s \in 0..N, NEW e \in 0..N, s <= e, ScanRanges, Flush(s, e)
  PROVE  \/ UNCHANGED <<batches, work>> /\ e <= FrontAfter(s)
         \/ \E b \in Ivals : b[1] = FrontAfter(s) /\ b[2] <= e /\ b = Clip(s, e) /\ Adds(b)
<1>1. rs.horizon \in 0..N /\ rs.jagged \subseteq Ivals
  BY DEF ScanRanges
<1>2. CASE Clip(s, e) = <<>>
  BY <1>1, <1>2, ClipIs DEF Flush
<1>3. CASE Clip(s, e) # <<>>
  <2>1. Adds(Clip(s, e))
    BY <1>3 DEF Flush, Adds
  <2>. QED
    BY <1>1, <1>3, <2>1, ClipIs
<1>. QED
  BY <1>2, <1>3

(* A batch is published, or nothing: the batches stay well formed.         *)
LEMMA AddedRanges ==
  ASSUME ScanInv, mode' = mode, limit' = limit,
         UNCHANGED <<batches, work>> \/ \E b \in Ivals : b[2] <= End /\ Adds(b)
  PROVE  BatchRanges'
<1>1. batches \in Seq(Ivals) /\ work \in Seq(Stages) /\ Len(work) = Len(batches)
      /\ \A i \in 1..Len(batches) : batches[i][2] <= End
  BY DEF ScanInv, BatchRanges, Last
<1>2. End' = End
  BY DEF End
<1>3. CASE UNCHANGED <<batches, work>>
  BY <1>1, <1>2, <1>3 DEF BatchRanges, Last
<1>4. ASSUME NEW b \in Ivals, b[2] <= End, Adds(b) PROVE BatchRanges'
  <2>1. batches' = Append(batches, b) /\ work' = Append(work, "ready")
    BY <1>4 DEF Adds
  <2>2. "ready" \in Stages
    BY DEF Stages
  <2>3. batches' \in Seq(Ivals) /\ Len(batches') = Len(batches) + 1
    BY <1>1, <2>1
  <2>4. work' \in Seq(Stages) /\ Len(work') = Len(work) + 1
    BY <1>1, <2>1, <2>2
  <2>5. \A i \in 1..Len(batches') : batches'[i][2] <= End
    <3>. TAKE i \in 1..Len(batches')
    <3>1. CASE i = Len(batches) + 1
      BY <1>1, <1>4, <2>1, <3>1
    <3>2. CASE i # Len(batches) + 1
      <4>1. i \in 1..Len(batches) /\ batches'[i] = batches[i]
        BY <1>1, <2>1, <2>3, <3>2
      <4>. QED
        BY <1>1, <4>1
    <3>. QED
      BY <3>1, <3>2
  <2>. QED
    BY <1>1, <1>2, <2>3, <2>4, <2>5 DEF BatchRanges, Last
<1>. QED
  BY <1>3, <1>4

(* What one search and its flush do.                                       *)
ScanTo(p) ==
  /\ pos <= p /\ p <= avail /\ pos' = p /\ scanned' = Lines(p) /\ p <= End
  /\ \/ /\ Flush(batchStart, p) /\ batchStart' = p /\ pending' = 0 /\ lineSize' \in Sizes[mode]
        /\ forceRefill' = FALSE
     \/ /\ p = avail /\ forceRefill' = TRUE /\ scanPc' = "loop"
        /\ pending' \in Nat /\ (pending' > 0 => batchStart < p)
        /\ UNCHANGED <<batchStart, lineSize, batches, work>>
  /\ status' \in {0, 1} /\ (status' = 1 /\ scanPc' # "done" => status = 1)
  /\ scanPc' \in {"loop", "done"}
  /\ scanPc' = "done" => p = End /\ batchStart' = p
  /\ scanPc' = "loop" /\ limit > 0 => Lines(p) < limit
  /\ UNCHANGED <<avail, wasComplete, rs, ingestComplete, notScan>>

LEMMA ScanStep ==
  ASSUME ScanInv, Scan PROVE \E p \in 0..N : ScanTo(p)
<1> DEFINE lacks  == IF lineSize > pending THEN lineSize - pending ELSE 1
           target == IF limit > 0 /\ LimitLeft < lacks THEN LimitLeft ELSE lacks
           have   == Cardinality(DelimsIn(pos, avail))
           full   == have >= target
           p      == IF full THEN AfterDelim(pos, target) ELSE avail
           tail   == status = 1 /\ ~full /\ pos < avail /\ avail - 1 \notin Delims
           found  == IF full THEN target ELSE have + (IF tail THEN 1 ELSE 0)
           hold   == pending + found
           ended  == status = 1 \/ (limit > 0 /\ scanned + found >= limit)
           must   == hold > 0 /\ (hold >= lineSize \/ ended)
           may    == hold > 0 /\ mode \in EarlyFlush
<1>1. /\ pos' = p /\ scanned' = scanned + found
      /\ status' = IF ended THEN 1 ELSE 0
      /\ \E flush \in {must} \cup {may \/ must} :
           IF flush
           THEN /\ Flush(batchStart, p) /\ batchStart' = p /\ pending' = 0
                /\ Resize /\ UNCHANGED forceRefill
           ELSE /\ pending' = hold /\ forceRefill' = TRUE
                /\ UNCHANGED <<batchStart, lineSize, batches, work>>
      /\ scanPc' = IF limit > 0 /\ scanned' >= limit THEN "done" ELSE "loop"
  BY DEF Scan
<1>2. UNCHANGED <<avail, wasComplete, rs, ingestComplete, notScan>>
  BY DEF Scan
<1>3. scanPc = "scan" \/ (scanPc = "loop" /\ pos < avail /\ (status = 1 \/ ~forceRefill))
  BY DEF Scan, MoreInBuffer
<1>4. /\ limit \in Nat /\ lineSize \in Nat \ {0} /\ pending \in Nat /\ scanned \in Nat
      /\ N \in Nat /\ pos \in 0..N /\ avail \in 0..N /\ batchStart \in 0..N
      /\ batchStart <= pos /\ pos <= avail /\ status \in {0, 1} /\ forceRefill \in BOOLEAN
      /\ scanned = Lines(pos) /\ (pending > 0 => batchStart < pos)
      /\ (limit > 0 => scanned < limit)
  BY <1>3, FixedFacts DEF ScanInv, ScanRanges, Counting
<1>5. (status = 1 => pos = avail) /\ ~forceRefill
  BY <1>3, <1>4 DEF ScanInv, UsedUp
<1>6. target \in Nat \ {0} /\ (limit > 0 => scanned + target <= limit)
      /\ ((target = LimitLeft /\ limit > 0) \/ target = lacks) /\ lacks \in Nat \ {0} /\ pending + lacks >= lineSize
      /\ LimitLeft = limit - scanned
  BY <1>4 DEF LimitLeft
<1>7. have \in Nat
  BY DelimsFinite
<1>8. /\ p \in Nat /\ pos <= p /\ p <= avail /\ found \in Nat
      /\ Cardinality(DelimsIn(pos, p)) = found
      /\ full => found = target /\ pos < p /\ p - 1 \in Delims
      /\ ~full => p = avail /\ found = have /\ found < target
      /\ found > 0 => pos < p
  <2>1. CASE full
    <3>1. target <= have /\ target \in Nat \ {0}
      BY <1>6, <1>7, <2>1
    <3>2. PICK k : k = target
      OBVIOUS
    <3>3. k \in Nat \ {0} /\ k <= Cardinality(DelimsIn(pos, avail)) /\ pos \in Nat /\ avail \in Nat
      BY <1>4, <3>1, <3>2
    <3>4. /\ AfterDelim(pos, k) \in Nat /\ pos < AfterDelim(pos, k) /\ AfterDelim(pos, k) <= avail
          /\ AfterDelim(pos, k) - 1 \in Delims
          /\ Cardinality(DelimsIn(pos, AfterDelim(pos, k))) = k
      BY <3>3, AfterDelimIs
    <3>5. p = AfterDelim(pos, k) /\ found = k
      BY <2>1, <3>2
    <3>6. pos <= AfterDelim(pos, k)
      BY <3>3, <3>4
    <3>. QED
      BY ONLY <2>1, <3>2, <3>3, <3>4, <3>5, <3>6
  <2>2. CASE ~full
    <3>1. ~tail
      BY <1>4, <1>5
    <3>2. p = avail /\ found = have /\ have < target
      BY <1>6, <1>7, <2>2, <3>1
    <3>3. have > 0 => pos < avail
      <4>1. CASE pos = avail
        <5>1. DelimsIn(pos, avail) = {}
          <6>1. \A d \in Delims : d \in Int
            BY Constants
          <6>. QED
            BY <1>4, <4>1, <6>1 DEF DelimsIn
        <5>2. have = 0
          BY <5>1, FS_EmptySet
        <5>. QED
          BY <5>2
      <4>2. CASE pos # avail
        BY <1>4, <4>2
      <4>. QED
        BY <4>1, <4>2
    <3>. QED
      BY <1>4, <1>7, <2>2, <3>2, <3>3
  <2>. QED
    BY <2>1, <2>2
<1>9. PICK q, f, h, t : q = p /\ f = found /\ h = hold /\ t = target
  OBVIOUS
<1>10. /\ q \in 0..N /\ pos <= q /\ q <= avail /\ f \in Nat /\ t \in Nat \ {0}
       /\ Cardinality(DelimsIn(pos, q)) = f /\ h = pending + f
       /\ full => f = t /\ pos < q /\ q - 1 \in Delims
       /\ ~full => q = avail /\ f < t
       /\ f > 0 => pos < q
       /\ limit > 0 => scanned + t <= limit
       /\ (t = limit - scanned /\ limit > 0) \/ pending + t >= lineSize
  BY <1>4, <1>6, <1>8, <1>9
<1>11. /\ pos' = q /\ scanned' = scanned + f
       /\ status' = IF ended THEN 1 ELSE 0
       /\ ended <=> (status = 1 \/ (limit > 0 /\ scanned + f >= limit))
       /\ scanPc' = IF limit > 0 /\ scanned' >= limit THEN "done" ELSE "loop"
       /\ must <=> (h > 0 /\ (h >= lineSize \/ ended))
  BY <1>1, <1>9
<1>12. \/ /\ Flush(batchStart, q) /\ batchStart' = q /\ pending' = 0
          /\ lineSize' \in Sizes[mode] /\ UNCHANGED forceRefill
       \/ /\ ~must /\ pending' = h /\ forceRefill' = TRUE
          /\ UNCHANGED <<batchStart, lineSize, batches, work>>
  <2>1. PICK flush \in {must} \cup {may \/ must} :
           IF flush
           THEN /\ Flush(batchStart, p) /\ batchStart' = p /\ pending' = 0
                /\ Resize /\ UNCHANGED forceRefill
           ELSE /\ pending' = hold /\ forceRefill' = TRUE
                /\ UNCHANGED <<batchStart, lineSize, batches, work>>
    BY <1>1
  <2>2. PICK g : g = must
    OBVIOUS
  <2>3. must \in BOOLEAN /\ may \in BOOLEAN
    OBVIOUS
  <2>4. flush \in BOOLEAN /\ (must => flush)
    <3>1. flush = must \/ flush = (may \/ must)
      BY <2>1
    <3>. HIDE DEF must, may
    <3>. QED
      BY <2>3, <3>1
  <2>. HIDE DEF must, may, p, hold
  <2>5. CASE flush
    BY <1>9, <2>1, <2>5 DEF Resize
  <2>6. CASE ~flush
    BY <1>9, <2>1, <2>4, <2>6
  <2>. QED
    BY <2>4, <2>5, <2>6
<1>. HIDE DEF lacks, target, have, full, p, tail, found, hold, must, may, ended
<1>13. Lines(q) = scanned + f /\ Lines(q) \in Nat
  <2>1. pos \in Nat /\ q \in Nat
    BY <1>4, <1>10
  <2>2. Lines(q) = Lines(pos) + Cardinality(DelimsIn(pos, q))
    BY <1>10, <2>1, LinesGrow
  <2>. QED
    BY <1>4, <1>10, <2>2
<1>14. q <= End
  <2>1. limit = 0 \/ Lines(q) < limit \/ (q - 1 \in Delims /\ Lines(q) <= limit)
    BY <1>4, <1>10, <1>13
  <2>. QED
    BY <1>4, <1>10, <2>1, WithinEnd DEF End
<1>15. ended \in BOOLEAN /\ full \in BOOLEAN /\ must \in BOOLEAN
  BY DEF ended, full, must
<1>16. ~must => q = avail /\ scanPc' = "loop"
  <2>1. ASSUME ~must, full PROVE FALSE
    BY <1>4, <1>10, <1>11, <2>1
  <2>2. ASSUME ~must PROVE scanPc' = "loop"
    BY <1>4, <1>10, <1>11, <2>2
  <2>. QED
    BY <1>10, <1>15, <2>1, <2>2
<1>17. scanPc' \in {"loop", "done"} /\ status' \in {0, 1}
  BY <1>11
<1>18. scanPc' = "done" => limit > 0 /\ Lines(q) >= limit
  BY <1>11, <1>13
<1>19. status' = 1 /\ scanPc' # "done" => status = 1
  BY <1>11, <1>4, <1>10
<1>20. scanPc' = "loop" /\ limit > 0 => Lines(q) < limit
  BY <1>11, <1>13, <1>4, <1>10
<1>21. scanPc' = "done" => q = End
  <2>. SUFFICES ASSUME scanPc' = "done" PROVE q = End
    OBVIOUS
  <2>1. full /\ Lines(q) = limit /\ limit # 0
    BY <1>4, <1>10, <1>13, <1>15, <1>18
  <2>. QED
    BY <1>4, <1>10, <2>1, IsTheEnd DEF End
<1>22. ~must /\ pending' = h => pending' \in Nat /\ (pending' > 0 => batchStart < q)
  BY <1>4, <1>10
<1>23. scanPc' = "done" => batchStart' = q
  BY <1>12, <1>16, <1>17
<1>24. ScanTo(q)
  <2>1. \/ /\ Flush(batchStart, q) /\ batchStart' = q /\ pending' = 0 /\ lineSize' \in Sizes[mode]
           /\ forceRefill' = FALSE
        \/ /\ q = avail /\ forceRefill' = TRUE /\ scanPc' = "loop"
           /\ pending' \in Nat /\ (pending' > 0 => batchStart < q)
           /\ UNCHANGED <<batchStart, lineSize, batches, work>>
    <3>1. CASE /\ Flush(batchStart, q) /\ batchStart' = q /\ pending' = 0
               /\ lineSize' \in Sizes[mode] /\ UNCHANGED forceRefill
      BY <1>4, <1>5, <3>1
    <3>2. CASE /\ ~must /\ pending' = h /\ forceRefill' = TRUE
               /\ UNCHANGED <<batchStart, lineSize, batches, work>>
      BY <1>16, <1>22, <3>2
    <3>. QED
      BY <1>12, <3>1, <3>2
  <2>2. pos' = q /\ scanned' = Lines(q)
    BY <1>11, <1>13
  <2>. QED
    BY <1>2, <1>10, <1>14, <1>17, <1>19, <1>20, <1>21, <1>23, <2>1, <2>2 DEF ScanTo
<1>. QED
  BY <1>10, <1>24

LEMMA ScanInit ==
  ASSUME Init PROVE ScanInv
<1>1. N \in Nat /\ mode \in Modes /\ limit \in Limits[mode] /\ lineSize \in Sizes[mode]
      /\ Fixed /\ limit \in Nat /\ End \in 0..N
  <2>1. Fixed
    BY DEF Init, Fixed
  <2>. QED
    BY <2>1, FixedFacts DEF Init
<1>2. Lines(0) = 0
  <2>1. DelimsIn(0, 0) = {}
    <3>1. \A d \in Delims : d \in Int
      BY Constants
    <3>. QED
      BY <3>1 DEF DelimsIn
  <2>. QED
    BY <2>1, FS_EmptySet DEF Lines
<1>3. ScanRanges
  <2>1. /\ ingested = 0 /\ eofFd = FALSE /\ ingestComplete = FALSE /\ ingestPc = "copy"
        /\ scanPc = "loop" /\ pos = 0 /\ avail = 0 /\ status = 0 /\ wasComplete = FALSE
        /\ forceRefill = FALSE /\ pending = 0 /\ scanned = 0 /\ batchStart = 0
        /\ rs.horizon = 0 /\ rs.jagged = {}
    BY DEF Init
  <2>2. 0 \in 0..N
    BY <1>1
  <2>3. 0 <= 0 /\ {} \subseteq Ivals
    OBVIOUS
  <2>4. /\ ingested \in 0..N /\ pos \in 0..N /\ avail \in 0..N /\ batchStart \in 0..N
        /\ batchStart <= pos /\ pos <= avail /\ avail <= ingested /\ rs.horizon \in 0..N
    BY <2>1, <2>2, <2>3
  <2>. QED
    BY <1>1, <2>1, <2>3, <2>4 DEF ScanRanges
<1>4. BatchRanges
  BY <1>1 DEF Init, BatchRanges, Last
<1>5. Counting
  BY <1>1, <1>2 DEF Init, Counting
<1>6. UsedUp /\ Ends
  BY DEF Init, UsedUp, Ends
<1>. QED
  BY <1>1, <1>3, <1>4, <1>5, <1>6 DEF ScanInv

LEMMA ScanByRestart ==
  ASSUME ScanInv, Restart, ckpt.horizon \in 0..N, ckpt.jagged \subseteq Ivals PROVE ScanInv'
<1>1. N \in Nat /\ mode' = mode /\ limit' = limit /\ lineSize' \in Sizes[mode] /\ Fixed'
      /\ limit \in Nat /\ End \in 0..N /\ End' = End
  BY FixedFacts DEF ScanInv, Restart, Fixed, End
<1>2. Lines(0) = 0
  <2>1. DelimsIn(0, 0) = {}
    <3>1. \A d \in Delims : d \in Int
      BY Constants
    <3>. QED
      BY <3>1 DEF DelimsIn
  <2>. QED
    BY <2>1, FS_EmptySet DEF Lines
<1>3. ScanRanges'
  <2>1. /\ ingested' = 0 /\ eofFd' = FALSE /\ ingestComplete' = FALSE /\ ingestPc' = "copy"
        /\ scanPc' = "loop" /\ pos' = 0 /\ avail' = 0 /\ status' = 0 /\ wasComplete' = FALSE
        /\ forceRefill' = FALSE /\ pending' = 0 /\ scanned' = 0 /\ batchStart' = 0
        /\ rs'.horizon = ckpt.horizon /\ rs'.jagged = ckpt.jagged
    BY DEF Restart
  <2>2. 0 \in 0..N
    BY <1>1
  <2>4. /\ ingested' \in 0..N /\ pos' \in 0..N /\ avail' \in 0..N /\ batchStart' \in 0..N
        /\ batchStart' <= pos' /\ pos' <= avail' /\ avail' <= ingested' /\ rs'.horizon \in 0..N
    BY <2>1, <2>2
  <2>. QED
    BY <1>1, <2>1, <2>4 DEF ScanRanges
<1>4. BatchRanges'
  BY <1>1 DEF Restart, BatchRanges, Last
<1>5. Counting'
  BY <1>1, <1>2 DEF Restart, Counting
<1>6. UsedUp' /\ Ends'
  BY DEF Restart, UsedUp, Ends
<1>. QED
  BY <1>1, <1>3, <1>4, <1>5, <1>6 DEF ScanInv

(* Every step but those of ingest and scanner leaves the stream alone; an  *)
(* alarm that is up stays.                                                 *)
Aside ==
  /\ UNCHANGED <<mode, limit, ingestVars, scanVars, batches>>
  /\ work' \in Seq(Stages) /\ Len(work') = Len(work) /\ (alarm' = 0 => alarm = 0)

LEMMA ScanAside ==
  ASSUME ScanInv, Aside PROVE ScanInv'
<1>1. UNCHANGED <<mode, limit, ingested, eofFd, ingestComplete, ingestPc>>
  BY DEF Aside, ingestVars
<1>2. UNCHANGED <<scanPc, pos, avail, status, wasComplete, forceRefill, lineSize,
                  pending, scanned, batchStart, rs, batches>>
  BY DEF Aside, scanVars
<1>3. Fixed' /\ End' = End
  BY <1>1 DEF ScanInv, Fixed, End
<1>4. ScanRanges'
  BY <1>1, <1>2 DEF ScanInv, ScanRanges
<1>5. BatchRanges'
  BY <1>2, <1>3 DEF ScanInv, BatchRanges, Last, Aside
<1>6. Counting' /\ UsedUp'
  BY <1>1, <1>2, <1>3 DEF ScanInv, Counting, UsedUp
<1>7. Ends'
  BY <1>1, <1>2, <1>3 DEF ScanInv, Ends, Aside
<1>. QED
  BY <1>3, <1>4, <1>5, <1>6, <1>7 DEF ScanInv

LEMMA ScanByIngest ==
  ASSUME ScanInv, IngestNext PROVE ScanInv'
<1>0. N \in Nat /\ Pauses \subseteq 1..N /\ End \in 0..N
  BY Constants, FixedFacts DEF ScanInv
<1>1. UNCHANGED <<mode, limit, scanPc, pos, avail, status, wasComplete, forceRefill, lineSize,
                  pending, scanned, batchStart, rs, batches, work>>
  BY DEF IngestNext, IngestAppend, IngestEnd, IngestFail, IngestEofFd, IngestFlag, notIngest, scanVars
<1>2. Fixed' /\ End' = End
  BY <1>1 DEF ScanInv, Fixed, End
<1>3. /\ ingested' \in 0..N /\ ingested <= ingested'
      /\ eofFd' \in BOOLEAN /\ ingestComplete' \in BOOLEAN
      /\ ingestPc' \in {"copy", "eof", "flag", "done"}
      /\ eofFd' \/ ingestComplete' \/ wasComplete => ingestPc' # "copy"
      /\ alarm' = 0 => alarm = 0
      /\ alarm' = 0 /\ ingestPc' # "copy" /\ scanPc # "done" => ingested' = N
  <2>0. /\ ingested \in 0..N /\ eofFd \in BOOLEAN /\ ingestComplete \in BOOLEAN
        /\ ingestPc \in {"copy", "eof", "flag", "done"}
        /\ eofFd \/ ingestComplete \/ wasComplete => ingestPc # "copy"
        /\ alarm = 0 /\ ingestPc # "copy" /\ scanPc # "done" => ingested = N
    BY DEF ScanInv, ScanRanges, Ends
  <2>1. CASE IngestAppend
    BY <1>0, <2>0, <2>1 DEF IngestAppend
  <2>2. CASE IngestEnd
    BY <1>0, <2>0, <2>2 DEF IngestEnd
  <2>3. CASE IngestFail
    BY <1>0, <2>0, <2>3 DEF IngestFail, PullFireAlarm
  <2>4. CASE IngestEofFd
    BY <1>0, <2>0, <2>4 DEF IngestEofFd
  <2>5. CASE IngestFlag
    BY <1>0, <2>0, <2>5 DEF IngestFlag
  <2>. QED
    BY <2>1, <2>2, <2>3, <2>4, <2>5 DEF IngestNext
<1>4. ScanRanges'
  <2>1. avail <= ingested' /\ avail \in 0..N
    BY <1>0, <1>3 DEF ScanInv, ScanRanges
  <2>. QED
    BY <1>1, <1>3, <2>1 DEF ScanInv, ScanRanges
<1>5. BatchRanges'
  BY <1>1, <1>2 DEF ScanInv, BatchRanges, Last
<1>6. Counting' /\ UsedUp'
  BY <1>1, <1>2 DEF ScanInv, Counting, UsedUp
<1>7. Ends'
  BY <1>1, <1>2, <1>3 DEF ScanInv, Ends
<1>. QED
  BY <1>2, <1>4, <1>5, <1>6, <1>7 DEF ScanInv

LEMMA ScanByScanner ==
  ASSUME ScanInv, ScanNext PROVE ScanInv'
<1>0. /\ N \in Nat /\ End \in 0..N /\ limit \in Nat /\ Sizes[mode] \subseteq Nat \ {0}
      /\ Buffer \in Nat \ {0}
  BY Constants, FixedFacts DEF ScanInv
<1>1. UNCHANGED <<mode, limit, ingested, eofFd, ingestPc, rs, alarm>>
  BY DEF ScanNext, CaptureComplete, Pread, Judge, Wait, Scan, TailFlush, ScanAborted, notScan
<1>2. Fixed' /\ End' = End
  BY <1>1 DEF ScanInv, Fixed, End
<1>3. /\ ingested \in 0..N /\ eofFd \in BOOLEAN /\ ingestComplete \in BOOLEAN
      /\ ingestPc \in {"copy", "eof", "flag", "done"}
      /\ scanPc \in {"loop", "pread", "judge", "wait", "scan", "done"}
      /\ pos \in 0..N /\ avail \in 0..N /\ batchStart \in 0..N
      /\ batchStart <= pos /\ pos <= avail /\ avail <= ingested
      /\ status \in {0, 1} /\ wasComplete \in BOOLEAN /\ forceRefill \in BOOLEAN
      /\ lineSize \in Sizes[mode] /\ pending \in Nat /\ scanned \in Nat
      /\ rs.horizon \in 0..N /\ rs.jagged \subseteq Ivals
  BY DEF ScanInv, ScanRanges
<1>4. /\ scanned = Lines(pos) /\ pos <= End
      /\ pending > 0 /\ scanPc # "done" => batchStart < pos
      /\ limit > 0 /\ scanPc # "done" => scanned < limit
  BY DEF ScanInv, Counting
<1>5. /\ scanPc \in {"pread", "judge", "wait"} => pos = avail /\ status = 0
      /\ scanPc = "loop" /\ forceRefill => pos = avail
      /\ scanPc \in {"pread", "judge", "wait", "scan"} => ~forceRefill
      /\ status = 1 /\ scanPc # "done" => pos = avail
  BY DEF ScanInv, UsedUp
<1>6. /\ eofFd \/ ingestComplete \/ wasComplete => ingestPc # "copy"
      /\ alarm = 0 /\ ingestPc # "copy" /\ scanPc # "done" => ingested = N
      /\ alarm = 0 /\ scanPc = "judge" /\ wasComplete => pos = N
      /\ alarm = 0 /\ status = 1 /\ scanPc # "done" => pos = N
      /\ alarm = 0 /\ scanPc = "done" => batchStart = End
  BY DEF ScanInv, Ends
<1>7. CASE CaptureComplete
  <2>1. /\ scanPc = "loop" /\ (pos >= avail \/ forceRefill) /\ status = 0
        /\ forceRefill' = FALSE /\ wasComplete' = ingestComplete /\ scanPc' = "pread"
        /\ UNCHANGED <<pos, avail, status, lineSize, pending, scanned, batchStart,
                 ingestComplete, batches, work>>
    BY <1>7 DEF CaptureComplete, Scanning
  <2>2. pos = avail
    BY <1>3, <1>5, <2>1
  <2>3. ScanRanges'
    BY <1>1, <1>3, <2>1 DEF ScanRanges
  <2>4. BatchRanges'
    BY <1>1, <2>1, AddedRanges
  <2>5. Counting' /\ UsedUp'
    BY <1>1, <1>2, <1>4, <1>5, <2>1, <2>2 DEF Counting, UsedUp
  <2>6. Ends'
    BY <1>1, <1>2, <1>6, <2>1 DEF Ends
  <2>. QED
    BY <1>2, <2>3, <2>4, <2>5, <2>6 DEF ScanInv
<1>8. CASE Pread
  <2> DEFINE n == IF ingested - pos < Buffer THEN ingested - pos ELSE Buffer
             more == n > avail - pos
  <2>1. /\ scanPc = "pread"
        /\ avail' = IF n > 0 THEN pos + n ELSE avail
        /\ scanPc' = IF more THEN "scan" ELSE "judge"
        /\ UNCHANGED <<pos, status, wasComplete, forceRefill, lineSize, pending, scanned,
                 batchStart, ingestComplete, batches, work>>
    BY <1>8 DEF Pread, Scanning
  <2>2. pos = avail /\ status = 0 /\ ~forceRefill
    BY <1>5, <2>1
  <2>3. /\ avail' \in 0..N /\ pos <= avail' /\ avail' <= ingested
        /\ scanPc' = "scan" \/ (scanPc' = "judge" /\ avail' = avail /\ (ingested = N => pos = N))
    BY <1>0, <1>3, <2>1, <2>2
  <2>4. ScanRanges'
    BY <1>1, <1>3, <2>1, <2>3 DEF ScanRanges
  <2>5. BatchRanges'
    BY <1>1, <2>1, AddedRanges
  <2>6. Counting' /\ UsedUp'
    BY <1>1, <1>2, <1>4, <1>5, <2>1, <2>2, <2>3 DEF Counting, UsedUp
  <2>7. Ends'
    BY <1>1, <1>2, <1>6, <2>1, <2>2, <2>3 DEF Ends
  <2>. QED
    BY <1>2, <2>4, <2>5, <2>6, <2>7 DEF ScanInv
<1>9. CASE Judge
  <2>1. /\ scanPc = "judge" /\ wasComplete' = FALSE
        /\ UNCHANGED <<pos, avail, lineSize, pending, scanned, batchStart, batches, work>>
    BY <1>9 DEF Judge, Scanning
  <2>2. \/ wasComplete /\ status' = 1 /\ scanPc' = "scan" /\ UNCHANGED <<ingestComplete, forceRefill>>
        \/ /\ ~wasComplete /\ ingestComplete' = (ingestComplete \/ eofFd)
           /\ \/ ingestComplete' /\ forceRefill' = TRUE /\ scanPc' = "loop"
              \/ scanPc' = "wait" /\ UNCHANGED forceRefill
           /\ UNCHANGED status
    BY <1>9, <1>3 DEF Judge, AtEnd
  <2>3. pos = avail /\ status = 0 /\ ~forceRefill
    BY <1>5, <2>1
  <2>4. /\ ingestComplete' \in BOOLEAN /\ forceRefill' \in BOOLEAN /\ status' \in {0, 1}
        /\ scanPc' \in {"scan", "loop", "wait"}
        /\ ingestComplete' => ingestComplete \/ eofFd
        /\ status' = 1 => wasComplete
        /\ forceRefill' => scanPc' = "loop"
        /\ scanPc' = "wait" => status' = 0
    <3>1. CASE wasComplete /\ status' = 1 /\ scanPc' = "scan" /\ UNCHANGED <<ingestComplete, forceRefill>>
      BY <1>3, <2>3, <3>1
    <3>2. CASE /\ ingestComplete' = (ingestComplete \/ eofFd)
               /\ \/ ingestComplete' /\ forceRefill' = TRUE /\ scanPc' = "loop"
                  \/ scanPc' = "wait" /\ UNCHANGED forceRefill
               /\ UNCHANGED status
      <4>1. ingestComplete' \in BOOLEAN /\ (ingestComplete' => ingestComplete \/ eofFd)
        BY <3>2
      <4>2. status' = 0 /\ scanPc' \in {"loop", "wait"} /\ forceRefill' \in BOOLEAN
            /\ (forceRefill' => scanPc' = "loop")
        <5>1. status' = 0
          BY <2>3, <3>2
        <5>2. CASE forceRefill' = TRUE /\ scanPc' = "loop"
          BY <5>1, <5>2
        <5>3. CASE scanPc' = "wait" /\ UNCHANGED forceRefill
          BY <1>3, <2>3, <5>1, <5>3
        <5>. QED
          BY <3>2, <5>2, <5>3
      <4>. QED
        BY <4>1, <4>2
    <3>. QED
      BY <2>2, <3>1, <3>2
  <2>5. ScanRanges'
    BY <1>1, <1>3, <2>1, <2>4 DEF ScanRanges
  <2>6. BatchRanges'
    BY <1>1, <2>1, AddedRanges
  <2>7. Counting' /\ UsedUp'
    BY <1>1, <1>2, <1>4, <1>5, <2>1, <2>3, <2>4 DEF Counting, UsedUp
  <2>8. Ends'
    BY <1>1, <1>2, <1>3, <1>6, <2>1, <2>3, <2>4 DEF Ends
  <2>. QED
    BY <1>2, <2>5, <2>6, <2>7, <2>8 DEF ScanInv
<1>10. CASE Wait
  <2>1. /\ scanPc = "wait"
        /\ ingestComplete' \in {ingestComplete, ingestComplete \/ eofFd}
        /\ forceRefill' = (forceRefill \/ pos < avail) /\ scanPc' = "loop"
        /\ UNCHANGED <<pos, avail, status, wasComplete, lineSize, pending, scanned,
                 batchStart, batches, work>>
    BY <1>10 DEF Wait, Scanning
  <2>2. pos = avail /\ status = 0 /\ ~forceRefill
    BY <1>5, <2>1
  <2>3. ingestComplete' \in BOOLEAN /\ (ingestComplete' => ingestComplete \/ eofFd) /\ forceRefill' = FALSE
    <3>1. ~(pos < avail)
      BY <1>3, <2>2
    <3>2. forceRefill' = FALSE
      BY <2>1, <2>2, <3>1
    <3>. QED
      BY <1>3, <2>1, <3>2
  <2>4. ScanRanges'
    BY <1>1, <1>3, <2>1, <2>3 DEF ScanRanges
  <2>5. BatchRanges'
    BY <1>1, <2>1, AddedRanges
  <2>6. Counting' /\ UsedUp'
    BY <1>1, <1>2, <1>4, <1>5, <2>1, <2>2, <2>3 DEF Counting, UsedUp
  <2>7. Ends'
    BY <1>1, <1>2, <1>3, <1>6, <2>1, <2>2, <2>3 DEF Ends
  <2>. QED
    BY <1>2, <2>4, <2>5, <2>6, <2>7 DEF ScanInv
<1>11. CASE Scan
  <2>1. PICK p \in 0..N : ScanTo(p)
    BY <1>11, ScanStep
  <2>2. /\ pos <= p /\ p <= avail /\ pos' = p /\ scanned' = Lines(p) /\ p <= End
        /\ status' \in {0, 1} /\ (status' = 1 /\ scanPc' # "done" => status = 1)
        /\ scanPc' \in {"loop", "done"}
        /\ scanPc' = "done" => p = End /\ batchStart' = p
        /\ scanPc' = "loop" /\ limit > 0 => Lines(p) < limit
        /\ UNCHANGED <<avail, wasComplete, rs, ingestComplete>>
    BY <2>1 DEF ScanTo
  <2>3. /\ batchStart' \in 0..N /\ batchStart' <= p
        /\ pending' \in Nat /\ (pending' > 0 => batchStart' < p)
        /\ lineSize' \in Sizes[mode] /\ forceRefill' \in BOOLEAN
        /\ forceRefill' => p = avail
    <3>1. CASE /\ batchStart' = p /\ pending' = 0 /\ lineSize' \in Sizes[mode] /\ forceRefill' = FALSE
      <4>1. forceRefill' \in BOOLEAN /\ ~forceRefill'
        BY <3>1
      <4>2. ~(pending' > 0) /\ pending' \in Nat
        BY <3>1
      <4>3. p <= p /\ p \in 0..N
        BY <1>0, <2>1
      <4>. QED
        BY <3>1, <4>1, <4>2, <4>3
    <3>2. CASE /\ p = avail /\ forceRefill' = TRUE
               /\ pending' \in Nat /\ (pending' > 0 => batchStart < p)
               /\ UNCHANGED <<batchStart, lineSize>>
      BY <1>0, <1>3, <2>2, <3>2
    <3>. QED
      BY <2>1, <3>1, <3>2 DEF ScanTo
  <2>4. scanPc = "scan" \/ scanPc = "loop"
    BY <1>11 DEF Scan, MoreInBuffer
  <2>5. Lines(p) \in Nat
    BY DelimsFinite DEF Lines
  <2>6. ScanRanges'
    BY <1>0, <1>1, <1>3, <2>2, <2>3, <2>5 DEF ScanRanges
  <2>7. BatchRanges'
    <3>1. CASE Flush(batchStart, p)
      <4>1. batchStart \in 0..N /\ p \in 0..N /\ batchStart <= p /\ ScanRanges
        BY <1>3, <2>2 DEF ScanInv
      <4>2. \/ UNCHANGED <<batches, work>>
            \/ \E b \in Ivals : b[1] = FrontAfter(batchStart) /\ b[2] <= p /\ Adds(b)
        BY <3>1, <4>1, FlushIs
      <4>3. \A b \in Ivals : b[2] <= p => b[2] <= End
        BY <1>0, <2>2 DEF Ivals
      <4>. QED
        BY <1>1, <4>2, <4>3, AddedRanges
    <3>2. CASE UNCHANGED <<batches, work>>
      BY <1>1, <3>2, AddedRanges
    <3>. QED
      BY <2>1, <3>1, <3>2 DEF ScanTo
  <2>8. Counting'
    BY <1>1, <1>2, <2>2, <2>3 DEF Counting
  <2>9. UsedUp'
    BY <1>3, <1>5, <2>2, <2>3, <2>4 DEF UsedUp
  <2>10. Ends'
    <3>1. alarm' = 0 /\ status' = 1 /\ scanPc' # "done" => pos' = N
      BY <1>0, <1>1, <1>3, <1>5, <1>6, <2>2, <2>4
    <3>. QED
      BY <1>1, <1>2, <1>6, <2>2, <2>4, <3>1 DEF Ends
  <2>. QED
    BY <1>2, <2>6, <2>7, <2>8, <2>9, <2>10 DEF ScanInv
<1>12. CASE TailFlush
  <2>1. /\ scanPc = "loop" /\ status = 1 /\ pos >= avail
        /\ IF batchStart < pos THEN Flush(batchStart, pos) ELSE UNCHANGED <<batches, work>>
        /\ batchStart' = pos /\ scanPc' = "done"
        /\ UNCHANGED <<pos, avail, status, wasComplete, forceRefill, lineSize, pending,
                 scanned, ingestComplete>>
    BY <1>12 DEF TailFlush, Scanning
  <2>2. ScanRanges'
    BY <1>0, <1>1, <1>3, <2>1 DEF ScanRanges
  <2>3. BatchRanges'
    <3>1. CASE Flush(batchStart, pos)
      <4>1. batchStart \in 0..N /\ pos \in 0..N /\ batchStart <= pos /\ ScanRanges
        BY <1>3 DEF ScanInv
      <4>2. \/ UNCHANGED <<batches, work>>
            \/ \E b \in Ivals : b[1] = FrontAfter(batchStart) /\ b[2] <= pos /\ Adds(b)
        BY <3>1, <4>1, FlushIs
      <4>3. \A b \in Ivals : b[2] <= pos => b[2] <= End
        BY <1>0, <1>3, <1>4 DEF Ivals
      <4>. QED
        BY <1>1, <4>2, <4>3, AddedRanges
    <3>2. CASE UNCHANGED <<batches, work>>
      BY <1>1, <3>2, AddedRanges
    <3>. QED
      BY <2>1, <3>1, <3>2
  <2>4. Counting'
    BY <1>1, <1>2, <1>4, <2>1 DEF Counting
  <2>5. UsedUp'
    BY <2>1 DEF UsedUp
  <2>6. Ends'
    <3>1. alarm = 0 => pos = End
      <4>1. limit > 0 => Lines(pos) < limit
        BY <1>4, <2>1
      <4>2. alarm = 0 => pos = N
        BY <1>6, <2>1
      <4>. QED
        BY <1>0, <4>1, <4>2, AllWanted DEF End
    <3>. QED
      BY <1>1, <1>2, <1>6, <2>1, <3>1 DEF Ends
  <2>. QED
    BY <1>2, <2>2, <2>3, <2>4, <2>5, <2>6 DEF ScanInv
<1>13. CASE ScanAborted
  <2>1. /\ alarm # 0 /\ scanPc # "done" /\ scanPc' = "done"
        /\ UNCHANGED <<pos, avail, status, wasComplete, forceRefill, lineSize, pending,
                 scanned, batchStart, ingestComplete, batches, work>>
    BY <1>13 DEF ScanAborted
  <2>2. ScanRanges'
    BY <1>1, <1>3, <2>1 DEF ScanRanges
  <2>3. BatchRanges'
    BY <1>1, <2>1, AddedRanges
  <2>4. Counting' /\ UsedUp'
    BY <1>1, <1>2, <1>4, <2>1 DEF Counting, UsedUp
  <2>5. Ends'
    BY <1>1, <1>6, <2>1 DEF Ends
  <2>. QED
    BY <1>2, <2>2, <2>3, <2>4, <2>5 DEF ScanInv
<1>. QED
  BY <1>7, <1>8, <1>9, <1>10, <1>11, <1>12, <1>13 DEF ScanNext

-------------------------------------------------------------------------------
(* Ledgers. *)

Ledgers == [horizon : 0..N, bytes : Nat, jagged : SUBSET Ivals]

LEMMA CoveredIs ==
  ASSUME NEW S \in SUBSET Ivals
  PROVE  /\ \A b : b \in Covered(S) <=> \E iv \in S : b \in Bytes(iv)
         /\ \A b \in Covered(S) : b \in Nat /\ b < N
         /\ \A iv \in S : /\ iv[1] \in Nat /\ iv[2] \in Nat /\ iv[1] < iv[2] /\ iv[2] <= N
                          /\ \A b : b \in Bytes(iv) <=> b \in Int /\ iv[1] <= b /\ b < iv[2]
<1>0. N \in Nat
  BY Constants
<1>1. \A iv \in Ivals : iv[1] \in Nat /\ iv[2] \in Nat /\ iv[1] < iv[2] /\ iv[2] <= N
  BY <1>0 DEF Ivals
<1>2. \A iv \in Ivals : \A b : b \in Bytes(iv) <=> b \in Int /\ iv[1] <= b /\ b < iv[2]
  BY <1>1 DEF Bytes
<1>3. \A b : b \in Covered(S) <=> \E iv \in S : b \in Bytes(iv)
  BY DEF Covered
<1>4. \A b \in Covered(S) : b \in Nat /\ b < N
  BY <1>0, <1>1, <1>2, <1>3
<1>. QED
  BY <1>1, <1>2, <1>3, <1>4

(* From any offset on there is a first byte that is missing.               *)
LEMMA MissingIs ==
  ASSUME NEW from \in 0..N, NEW S \in SUBSET Ivals
  PROVE  /\ FirstMissing(from, S) \in 0..N /\ from <= FirstMissing(from, S)
         /\ FirstMissing(from, S) \notin Covered(S)
         /\ from..FirstMissing(from, S)-1 \subseteq Covered(S)
<1>0. N \in Nat
  BY Constants
<1> DEFINE T == {x \in from..N : x \notin Covered(S)}
<1>1. T \in SUBSET Nat /\ N \in T
  BY <1>0, CoveredIs
<1>2. \E b \in T : \A x \in T : b <= x
  <2>. HIDE DEF T
  <2>. QED
    BY <1>1, Least
<1>3. PICK b \in T : \A x \in T : b <= x
  BY <1>2
<1>4. b \in from..N /\ b \notin Covered(S)
  BY <1>3
<1>5. from..b-1 \subseteq Covered(S)
  <2>. SUFFICES ASSUME NEW x \in from..b-1 PROVE x \in Covered(S)
    OBVIOUS
  <2>1. x \in from..N /\ ~(b <= x)
    BY <1>0, <1>4
  <2>. QED
    BY <1>3, <2>1
<1>6. \E x \in from..N : x \notin Covered(S) /\ from..x-1 \subseteq Covered(S)
  BY <1>4, <1>5
<1>7. PICK m : m = CHOOSE x \in from..N : x \notin Covered(S) /\ from..x-1 \subseteq Covered(S)
  OBVIOUS
<1>8. m \in from..N /\ m \notin Covered(S) /\ from..m-1 \subseteq Covered(S)
  BY <1>6, <1>7
<1>9. FirstMissing(from, S) = m
  BY <1>7 DEF FirstMissing
<1>. QED
  BY <1>0, <1>8, <1>9

(* Tracking a batch adds its bytes, and nothing else.                      *)
LEMMA TrackIs ==
  ASSUME NEW led \in Ledgers, NEW iv \in Ivals
  PROVE  /\ Track(led, iv) \in Ledgers
         /\ Track(led, iv).bytes = led.bytes + 1
         /\ led.horizon <= Track(led, iv).horizon
         /\ LedgerBytes(Track(led, iv)) = LedgerBytes(led) \cup Bytes(iv)
<1>0. N \in Nat
  BY Constants
<1>1. PICK h \in 0..N, c \in Nat, J \in SUBSET Ivals :
        led = [horizon |-> h, bytes |-> c, jagged |-> J]
  BY DEF Ledgers
<1>2. led.horizon = h /\ led.bytes = c /\ led.jagged = J
  BY <1>1
<1>3. PICK S \in SUBSET Ivals : S = J \cup {iv}
  OBVIOUS
<1>4. LedgerBytes(led) = (0..h-1) \cup Covered(J)
  BY <1>2 DEF LedgerBytes
<1>5. \A b : b \in Covered(S) <=> b \in Covered(J) \/ b \in Bytes(iv)
  BY <1>3 DEF Covered
<1>6. CASE iv[1] <= h
  <2>1. PICK m \in 0..N : m = FirstMissing(h, S)
    BY MissingIs
  <2>2. h <= m /\ m \notin Covered(S) /\ h..m-1 \subseteq Covered(S)
    BY <2>1, MissingIs
  <2>3. PICK K \in SUBSET Ivals : K = {j \in J : j[1] > m}
    OBVIOUS
  <2>4. Track(led, iv) = [horizon |-> m, bytes |-> c + 1, jagged |-> K]
    BY <1>2, <1>3, <1>6, <2>1, <2>3 DEF Track
  <2>5. Track(led, iv) \in Ledgers
    <3>1. c + 1 \in Nat
      OBVIOUS
    <3>. QED
      BY <2>4, <3>1 DEF Ledgers
  <2>6. LedgerBytes(Track(led, iv)) = (0..m-1) \cup Covered(K)
    BY <2>4 DEF LedgerBytes
  <2>7. ASSUME NEW j \in S, ~(j[1] > m) PROVE Bytes(j) \subseteq 0..m-1
    <3>1. j[1] \in Nat /\ j[2] \in Nat /\ \A b : b \in Bytes(j) <=> b \in Int /\ j[1] <= b /\ b < j[2]
      BY CoveredIs
    <3>2. m \notin Bytes(j)
      BY <2>2, CoveredIs
    <3>3. j[2] <= m
      BY <2>1, <2>7, <3>1, <3>2
    <3>. QED
      BY <2>1, <3>1, <3>3
  <2>8. Bytes(iv) \subseteq 0..m-1
    <3>1. ~(iv[1] > m) /\ iv \in S
      <4>1. iv[1] \in Nat
        BY <1>0 DEF Ivals
      <4>. QED
        BY <1>3, <1>6, <2>1, <2>2, <4>1
    <3>. QED
      BY <2>7, <3>1
  <2>9. Covered(J) \subseteq (0..m-1) \cup Covered(K)
    <3>. SUFFICES ASSUME NEW b \in Covered(J) PROVE b \in (0..m-1) \cup Covered(K)
      OBVIOUS
    <3>1. PICK j \in J : b \in Bytes(j)
      BY CoveredIs
    <3>2. CASE j[1] > m
      BY <2>3, <3>1, <3>2, CoveredIs
    <3>3. CASE ~(j[1] > m)
      BY <1>3, <2>7, <3>1, <3>3
    <3>. QED
      BY <3>2, <3>3
  <2>10. (0..h-1) \subseteq 0..m-1
    BY <1>0, <2>1, <2>2
  <2>11. (0..m-1) \subseteq (0..h-1) \cup Covered(S)
    <3>. SUFFICES ASSUME NEW b \in 0..m-1 PROVE b \in (0..h-1) \cup Covered(S)
      OBVIOUS
    <3>1. b \in 0..h-1 \/ b \in h..m-1
      BY <2>1
    <3>. QED
      BY <2>2, <3>1
  <2>12. Covered(K) \subseteq Covered(J)
    BY <2>3 DEF Covered
  <2>13. LedgerBytes(Track(led, iv)) = LedgerBytes(led) \cup Bytes(iv)
    BY <1>4, <1>5, <2>6, <2>8, <2>9, <2>10, <2>11, <2>12
  <2>14. Track(led, iv).bytes = led.bytes + 1 /\ led.horizon <= Track(led, iv).horizon
    BY <1>2, <2>2, <2>4
  <2>. QED
    BY <2>5, <2>13, <2>14
<1>7. CASE ~(iv[1] <= h)
  <2>1. Track(led, iv) = [led EXCEPT !.bytes = @ + 1, !.jagged = @ \cup {iv}]
    BY <1>2, <1>7 DEF Track
  <2>2. Track(led, iv) = [horizon |-> h, bytes |-> c + 1, jagged |-> S]
    BY <1>1, <1>3, <2>1
  <2>3. Track(led, iv) \in Ledgers
    <3>1. c + 1 \in Nat
      OBVIOUS
    <3>. QED
      BY <2>2, <3>1 DEF Ledgers
  <2>4. LedgerBytes(Track(led, iv)) = (0..h-1) \cup Covered(S)
    BY <2>2 DEF LedgerBytes
  <2>5. LedgerBytes(Track(led, iv)) = LedgerBytes(led) \cup Bytes(iv)
    BY <1>4, <1>5, <2>4
  <2>6. Track(led, iv).bytes = led.bytes + 1 /\ led.horizon <= Track(led, iv).horizon
    BY <1>2, <2>2
  <2>. QED
    BY <2>3, <2>5, <2>6
<1>. QED
  BY <1>6, <1>7

(* A batch at the horizon of a ledger without gaps moves it to its end.    *)
LEMMA TrackNext ==
  ASSUME NEW led \in Ledgers, NEW iv \in Ivals, led.jagged = {}, iv[1] = led.horizon
  PROVE  Track(led, iv).horizon = iv[2] /\ Track(led, iv).jagged = {}
<1>0. N \in Nat
  BY Constants
<1>1. led.horizon \in 0..N /\ iv[1] \in Nat /\ iv[2] \in Nat /\ iv[1] < iv[2] /\ iv[2] <= N
  BY <1>0 DEF Ledgers, Ivals
<1>2. PICK S \in SUBSET Ivals : S = led.jagged \cup {iv}
  OBVIOUS
<1>3. Covered(S) = Bytes(iv)
  BY <1>2 DEF Covered
<1>4. PICK m \in 0..N : m = FirstMissing(led.horizon, S)
  BY <1>1, MissingIs
<1>5. led.horizon <= m /\ m \notin Bytes(iv) /\ led.horizon..m-1 \subseteq Bytes(iv)
  BY <1>1, <1>3, <1>4, MissingIs
<1>6. m = iv[2]
  <2>1. ~(m < iv[2])
    BY <1>0, <1>1, <1>4, <1>5 DEF Bytes
  <2>2. ~(iv[2] < m)
    <3>. SUFFICES ASSUME iv[2] < m PROVE FALSE
      OBVIOUS
    <3>1. iv[2] \in led.horizon..m-1
      BY <1>1, <1>4
    <3>2. iv[2] \in Bytes(iv)
      BY <1>5, <3>1
    <3>. QED
      BY <1>1, <3>2 DEF Bytes
  <2>. QED
    BY <1>1, <1>4, <2>1, <2>2
<1>7. iv[1] <= led.horizon
  BY <1>1
<1>. QED
  BY <1>2, <1>4, <1>6, <1>7 DEF Track

LEMMA IvalsFinite ==
  ASSUME NEW S \in SUBSET Ivals PROVE IsFiniteSet(S) /\ Cardinality(S) \in Nat
<1>1. IsFiniteSet(0..N)
  BY Constants, FS_Interval
<1>2. IsFiniteSet((0..N) \X (0..N))
  BY <1>1, FS_Product
<1>3. S \in SUBSET ((0..N) \X (0..N))
  BY DEF Ivals
<1>. QED
  BY <1>2, <1>3, FS_Subset, FS_CardinalityType

(* What is published of a ledger.                                          *)
LEMMA PublishedIs ==
  ASSUME NEW led \in Ledgers, NEW pub \in Published(led)
  PROVE  /\ pub \in Ledgers /\ pub.horizon = led.horizon /\ pub.bytes = led.bytes
         /\ pub.jagged \subseteq led.jagged
         /\ Cardinality(led.jagged) <= JaggedCap => pub = led
         /\ led.jagged = {} => pub = led
<1>1. JaggedCap \in Nat /\ 0 <= JaggedCap
  BY Constants
<1>2. led.jagged = {} => Cardinality(led.jagged) <= JaggedCap
  BY <1>1, FS_EmptySet
<1>3. CASE Cardinality(led.jagged) <= JaggedCap
  BY <1>3 DEF Published
<1>4. CASE ~(Cardinality(led.jagged) <= JaggedCap)
  <2>1. PICK k \in SUBSET led.jagged : pub = [led EXCEPT !.jagged = k]
    BY <1>4 DEF Published
  <2>2. k \in SUBSET Ivals
    BY DEF Ledgers
  <2>3. pub \in Ledgers /\ pub.horizon = led.horizon /\ pub.bytes = led.bytes /\ pub.jagged = k
    BY <2>1, <2>2 DEF Ledgers
  <2>. QED
    BY <1>2, <1>4, <2>3
<1>. QED
  BY <1>3, <1>4

(* Merging intervals covers the same bytes.                                *)
LEMMA MergedIs ==
  ASSUME NEW S \in SUBSET Ivals
  PROVE  Merged(S) \subseteq Ivals /\ Covered(Merged(S)) = Covered(S)
<1>0. N \in Nat
  BY Constants
<1>1. Merged(S) \in SUBSET Ivals
  BY DEF Merged, Ivals
<1>2. Covered(Merged(S)) \subseteq Covered(S)
  BY DEF Merged, Covered
<1>3. ASSUME NEW b \in Covered(S) PROVE b \in Covered(Merged(S))
  <2>1. b \in Nat /\ b < N
    BY CoveredIs
  <2>2. PICK e : e = FirstMissing(b, S)
    OBVIOUS
  <2>3. e \in 0..N /\ b <= e /\ e \notin Covered(S) /\ b..e-1 \subseteq Covered(S)
    <3>1. b \in 0..N
      BY <1>0, <2>1
    <3>. QED
      BY <2>2, <3>1, MissingIs
  <2>4. b < e
    BY <2>1, <2>3, <1>3
  <2> DEFINE T == {x \in 0..b : x..b \subseteq Covered(S)}
  <2>5. T \in SUBSET Nat /\ b \in T
    BY <2>1
  <2>6. \E x \in T : \A y \in T : x <= y
    <3>. HIDE DEF T
    <3>. QED
      BY <2>5, Least
  <2>7. PICK s \in T : \A y \in T : s <= y
    BY <2>6
  <2>8. s \in 0..b /\ s..b \subseteq Covered(S)
    BY <2>7
  <2>9. s - 1 \notin Covered(S)
    <3>. SUFFICES ASSUME s - 1 \in Covered(S) PROVE FALSE
      OBVIOUS
    <3>1. s - 1 \in Nat
      BY CoveredIs
    <3>2. s - 1 \in T
      <4>1. s - 1 \in 0..b
        BY <2>1, <2>8, <3>1
      <4>2. \A x \in (s - 1)..b : x = s - 1 \/ x \in s..b
        BY <2>8, <3>1
      <4>. QED
        BY <2>8, <4>1, <4>2
    <3>. QED
      BY <2>7, <2>8, <3>1, <3>2
  <2>10. PICK iv : iv = <<s, e>>
    OBVIOUS
  <2>11. iv \in (0..N) \X (0..N) /\ iv[1] = s /\ iv[2] = e /\ s < e
    BY <1>0, <2>1, <2>3, <2>4, <2>8, <2>10
  <2>12. Bytes(iv) \subseteq Covered(S)
    <3>1. Bytes(iv) = s..e-1
      BY <2>11 DEF Bytes
    <3>2. \A x \in s..e-1 : x \in s..b \/ x \in b..e-1
      BY <2>1, <2>3, <2>8
    <3>. QED
      BY <2>3, <2>8, <3>1, <3>2
  <2>13. iv \in Merged(S)
    BY <2>3, <2>9, <2>11, <2>12 DEF Merged
  <2>14. b \in Bytes(iv)
    BY <2>1, <2>3, <2>4, <2>8, <2>11 DEF Bytes
  <2>. QED
    BY <2>13, <2>14 DEF Covered
<1>. QED
  BY <1>1, <1>2, <1>3

-------------------------------------------------------------------------------
(* Types of the queues, the ledgers and the output; what a ledger counts.  *)

FallowQueue ==
  /\ fallowPipe \in Seq(Nat) /\ \A k \in 1..Len(fallowPipe) : fallowPipe[k] \in 1..Last
  /\ fallowHeap \subseteq 1..Last /\ nextIdx \in 0..Last /\ nextIdx + 1 \notin fallowHeap
  /\ fallowBytes = IF nextIdx = 0 THEN 0 ELSE batches[nextIdx][2]

OrderQueue ==
  /\ orderPipe \in Seq(Nat) /\ \A k \in 1..Len(orderPipe) : orderPipe[k] \in 1..Last
  /\ heap \subseteq 1..Last /\ expected \in Nat /\ synced \in BOOLEAN
  /\ orderer \in {"run", "gone"}

Accounts ==
  /\ tracker \in Ledgers /\ ledger \in Ledgers /\ ckpt \in Ledgers
  /\ out \in Seq(Ivals) /\ \A i \in 1..Len(out) : out[i][2] <= End
  /\ mode # "realtime" => tracker.bytes = Len(out) /\ ledger.bytes = Len(out)
  /\ mode = "realtime" =>
       /\ tracker.bytes = 0 /\ tracker.jagged = {} /\ ledger = tracker
       /\ rs.horizon = ledger.horizon /\ rs.jagged = {} /\ orderer = "gone"
  /\ outcome = "failed" => /\ ckpt.bytes = ledger.bytes
                           /\ mode = "realtime" => ckpt.jagged = {}

Control ==
  /\ alarm \in 0..2 /\ reactor \in {"poll", "clean", "dump"}
  /\ outcome \in {"running", "ok", "failed"}

Base == ScanInv /\ FallowQueue /\ OrderQueue /\ Accounts /\ Control

LEMMA BatchFacts ==
  ASSUME ScanInv
  PROVE  /\ Last \in Nat /\ batches \in Seq(Ivals) /\ work \in Seq(Stages)
         /\ Last = Len(batches) /\ Len(work) = Last /\ DOMAIN work = 1..Last
         /\ \A i \in 1..Last : /\ batches[i] \in Ivals /\ work[i] \in Stages
                               /\ batches[i][1] \in Nat /\ batches[i][2] \in 0..N
                               /\ batches[i][1] < batches[i][2] /\ batches[i][2] <= End
<1>1. batches \in Seq(Ivals) /\ work \in Seq(Stages) /\ Len(work) = Len(batches)
      /\ \A i \in 1..Len(batches) : batches[i][2] <= End
  BY DEF ScanInv, BatchRanges, Last
<1>2. Last = Len(batches) /\ Last \in Nat /\ DOMAIN work = 1..Last
  BY <1>1 DEF Last
<1>3. \A i \in 1..Last : batches[i] \in Ivals /\ work[i] \in Stages
  BY <1>1, <1>2
<1>4. N \in Nat /\ \A iv \in Ivals : iv[1] \in Nat /\ iv[2] \in 0..N /\ iv[1] < iv[2]
  BY Constants DEF Ivals
<1>. QED
  BY <1>1, <1>2, <1>3, <1>4

LEMMA StageIs ==
  ASSUME NEW w \in Seq(Stages), NEW i \in DOMAIN w, NEW st \in Stages
  PROVE  /\ [w EXCEPT ![i] = st] \in Seq(Stages) /\ Len([w EXCEPT ![i] = st]) = Len(w)
         /\ [w EXCEPT ![i] = st][i] = st
         /\ \A j \in DOMAIN w : j # i => [w EXCEPT ![i] = st][j] = w[j]
OBVIOUS

(* The steps of workers, reclaimer, orderer and parent.                    *)
WorkStep == Claim \/ \E i \in DOMAIN work : AckFallow(i) \/ AckOrder(i) \/ AckFails(i) \/ DieRunning(i)
OrderStep == OrderTake \/ OrderEmit \/ OrderEof
ParentStep == ReactorDone \/ ReactorAbort \/ RaceDeath \/ Signal \/ ExitRun

LEMMA AsideByWork ==
  ASSUME ScanInv, WorkStep PROVE Aside
<1>1. work \in Seq(Stages) /\ {"running", "half", "done", "lost"} \subseteq Stages
  BY BatchFacts DEF Stages
<1>2. CASE Claim
  <2>1. PICK i \in DOMAIN work : work' = [work EXCEPT ![i] = "running"]
    BY <1>2 DEF Claim
  <2>2. UNCHANGED <<mode, limit, ingestVars, scanVars, batches, alarm>>
    BY <1>2 DEF Claim, notWork
  <2>. QED
    BY <1>1, <2>1, <2>2, StageIs DEF Aside
<1>3. ASSUME NEW i \in DOMAIN work, AckFallow(i) PROVE Aside
  <2>1. work' = [work EXCEPT ![i] = "half"]
    BY <1>3 DEF AckFallow
  <2>2. UNCHANGED <<mode, limit, ingestVars, scanVars, batches, alarm>>
    BY <1>3 DEF AckFallow, notWork
  <2>. QED
    BY <1>1, <2>1, <2>2, StageIs DEF Aside
<1>4. ASSUME NEW i \in DOMAIN work, AckOrder(i) PROVE Aside
  <2>1. work' = [work EXCEPT ![i] = "done"]
    BY <1>4 DEF AckOrder
  <2>2. UNCHANGED <<mode, limit, ingestVars, scanVars, batches, alarm>>
    BY <1>4 DEF AckOrder, notWork
  <2>. QED
    BY <1>1, <2>1, <2>2, StageIs DEF Aside
<1>5. ASSUME NEW i \in DOMAIN work, AckFails(i) PROVE Aside
  <2>1. work' = [work EXCEPT ![i] = "lost"]
    BY <1>5 DEF AckFails
  <2>2. UNCHANGED <<mode, limit, ingestVars, scanVars, batches>> /\ (alarm' = 0 => alarm = 0)
    BY <1>5 DEF AckFails, notWork, PullFireAlarm
  <2>. QED
    BY <1>1, <2>1, <2>2, StageIs DEF Aside
<1>6. ASSUME NEW i \in DOMAIN work, DieRunning(i) PROVE Aside
  <2>1. UNCHANGED <<mode, limit, ingestVars, scanVars, batches, alarm, work>>
    BY <1>6 DEF DieRunning, notWork
  <2>. QED
    BY <1>1, <2>1 DEF Aside
<1>. QED
  BY <1>2, <1>3, <1>4, <1>5, <1>6 DEF WorkStep

LEMMA AsideByRest ==
  ASSUME ScanInv, Reclaim \/ OrderStep \/ ParentStep \/ Rest PROVE Aside
<1>1. work \in Seq(Stages) /\ "lost" \in Stages
  BY BatchFacts DEF Stages
<1>2. CASE Reclaim
  <2>1. UNCHANGED <<mode, limit, ingestVars, scanVars, batches, alarm, work>>
    BY <1>2 DEF Reclaim, notWork
  <2>. QED
    BY <1>1, <2>1 DEF Aside
<1>3. CASE OrderStep
  <2>1. UNCHANGED <<mode, limit, ingestVars, scanVars, batches, work>>
    BY <1>3 DEF OrderStep, OrderTake, OrderEmit, OrderEof, notOrder, notWork
  <2>2. alarm' = 0 => alarm = 0
    BY <1>3 DEF OrderStep, OrderTake, OrderEmit, OrderEof, Emit, EmitFails, PullFireAlarm
  <2>. QED
    BY <1>1, <2>1, <2>2 DEF Aside
<1>4. CASE RaceDeath
  <2>1. PICK i \in DOMAIN work : work' = [work EXCEPT ![i] = "lost"]
    BY <1>4 DEF RaceDeath
  <2>2. UNCHANGED <<mode, limit, ingestVars, scanVars, batches>> /\ (alarm' = 0 => alarm = 0)
    BY <1>4 DEF RaceDeath, notParent, PullFireAlarm
  <2>. QED
    BY <1>1, <2>1, <2>2, StageIs DEF Aside
<1>5. CASE ReactorDone \/ ReactorAbort \/ Signal \/ ExitRun \/ Rest
  <2>1. UNCHANGED <<mode, limit, ingestVars, scanVars, batches, work>> /\ (alarm' = 0 => alarm = 0)
    BY <1>5 DEF ReactorDone, ReactorAbort, Signal, ExitRun, Rest, notParent, PullFireAlarm, vars
  <2>. QED
    BY <1>1, <2>1 DEF Aside
<1>. QED
  BY <1>2, <1>3, <1>4, <1>5 DEF ParentStep

(* Batches are only ever added at the end.                                 *)
Grows == UNCHANGED <<batches, work>> \/ \E b \in Ivals : Adds(b)

LEMMA GrowsByScan ==
  ASSUME ScanInv, IngestNext \/ ScanNext PROVE Grows
<1>1. ScanRanges /\ N \in Nat /\ pos \in 0..N /\ batchStart \in 0..N /\ batchStart <= pos
  BY Constants DEF ScanInv, ScanRanges
<1>2. CASE Scan
  <2>1. PICK p \in 0..N : ScanTo(p)
    BY <1>2, ScanStep
  <2>2. batchStart <= p
    BY <1>1, <2>1 DEF ScanTo
  <2>3. Flush(batchStart, p) \/ UNCHANGED <<batches, work>>
    BY <2>1 DEF ScanTo
  <2>. QED
    BY <1>1, <2>2, <2>3, FlushIs DEF Grows
<1>3. CASE TailFlush
  <2>1. Flush(batchStart, pos) \/ UNCHANGED <<batches, work>>
    BY <1>3 DEF TailFlush
  <2>. QED
    BY <1>1, <2>1, FlushIs DEF Grows
<1>4. CASE IngestNext
  BY <1>4 DEF Grows, IngestNext, IngestAppend, IngestEnd, IngestFail, IngestEofFd, IngestFlag, notIngest
<1>5. CASE CaptureComplete \/ Pread \/ Judge \/ Wait \/ ScanAborted
  BY <1>5 DEF Grows, CaptureComplete, Pread, Judge, Wait, ScanAborted
<1>. QED
  BY <1>2, <1>3, <1>4, <1>5 DEF ScanNext

LEMMA GrowsIs ==
  ASSUME ScanInv, Grows
  PROVE  /\ Last \in Nat /\ Last' \in Nat /\ Last <= Last' /\ Last' <= Last + 1
         /\ \A i \in 1..Last : i \in 1..Last' /\ batches'[i] = batches[i] /\ work'[i] = work[i]
         /\ Last' # Last => work'[Last'] = "ready" /\ Last' = Last + 1
<1>1. batches \in Seq(Ivals) /\ work \in Seq(Stages) /\ Last = Len(batches) /\ Len(work) = Last /\ Last \in Nat
      /\ Last' = Len(batches')
  BY BatchFacts DEF Last
<1>2. CASE UNCHANGED <<batches, work>>
  BY <1>1, <1>2
<1>3. ASSUME NEW b \in Ivals, Adds(b)
      PROVE  /\ Last' = Last + 1 /\ work'[Last'] = "ready"
             /\ \A i \in 1..Last : i \in 1..Last' /\ batches'[i] = batches[i] /\ work'[i] = work[i]
  BY <1>1, <1>3 DEF Adds
<1>. QED
  BY <1>1, <1>2, <1>3 DEF Grows

LEMMA FallowKept ==
  ASSUME ScanInv, FallowQueue, UNCHANGED fallowVars, Grows PROVE FallowQueue'
<1>1. UNCHANGED <<fallowPipe, nextIdx, fallowHeap, fallowBytes>>
  BY DEF fallowVars
<1>2. /\ fallowPipe \in Seq(Nat) /\ \A k \in 1..Len(fallowPipe) : fallowPipe[k] \in 1..Last
      /\ fallowHeap \subseteq 1..Last /\ nextIdx \in 0..Last /\ nextIdx + 1 \notin fallowHeap
      /\ fallowBytes = IF nextIdx = 0 THEN 0 ELSE batches[nextIdx][2]
  BY DEF FallowQueue
<1>3. /\ Last \in Nat /\ Last' \in Nat /\ Last <= Last'
      /\ \A i \in 1..Last : i \in 1..Last' /\ batches'[i] = batches[i]
  BY GrowsIs
<1>4. fallowHeap \subseteq 1..Last' /\ nextIdx \in 0..Last'
  BY <1>2, <1>3
<1>5. nextIdx # 0 => batches'[nextIdx] = batches[nextIdx]
  BY <1>2, <1>3
<1>. QED
  BY <1>1, <1>2, <1>3, <1>4, <1>5 DEF FallowQueue

LEMMA OrderKept ==
  ASSUME ScanInv, OrderQueue, UNCHANGED <<orderPipe, heap, expected, synced, orderer>>, Grows
  PROVE  OrderQueue'
<1>1. /\ Last \in Nat /\ Last' \in Nat /\ Last <= Last'
      /\ \A i \in 1..Last : i \in 1..Last'
  BY GrowsIs
<1>. QED
  BY <1>1 DEF OrderQueue

LEMMA AccountsKept ==
  ASSUME Accounts, UNCHANGED <<mode, limit, rs, orderer, tracker, ledger, ckpt, out, outcome>>
  PROVE  Accounts'
BY DEF Accounts, End

LEMMA BaseInit ==
  ASSUME Init PROVE Base
<1>1. ScanInv
  BY ScanInit
<1>2. FallowQueue /\ OrderQueue
  BY DEF Init, FallowQueue, OrderQueue, Last
<1>3. Accounts
  <2>1. N \in Nat
    BY Constants
  <2>2. EmptyLedger \in Ledgers /\ EmptyLedger.bytes = 0 /\ EmptyLedger.jagged = {} /\ EmptyLedger.horizon = 0
    BY <2>1 DEF EmptyLedger, Ledgers
  <2>3. /\ tracker = EmptyLedger /\ ledger = EmptyLedger /\ ckpt = EmptyLedger /\ out = <<>>
        /\ rs.horizon = 0 /\ rs.jagged = {} /\ outcome = "running"
        /\ (mode = "realtime" => orderer = "gone")
    BY DEF Init
  <2>. QED
    BY <2>2, <2>3 DEF Accounts
<1>4. Control
  BY DEF Init, Control
<1>. QED
  BY <1>1, <1>2, <1>3, <1>4 DEF Base

LEMMA BaseByScan ==
  ASSUME Base, IngestNext \/ ScanNext PROVE Base'
<1>1. ScanInv'
  BY ScanByIngest, ScanByScanner DEF Base
<1>2. Grows
  BY GrowsByScan DEF Base
<1>3. UNCHANGED <<mode, limit, rs, fallowVars, orderPipe, heap, expected, synced, orderer,
                  tracker, ledger, ckpt, out, outcome, reactor>> /\ alarm' \in {alarm, 2}
  <2>1. CASE IngestNext
    BY <2>1 DEF IngestNext, IngestAppend, IngestEnd, IngestFail, IngestEofFd, IngestFlag, notIngest,
                orderVars, userVars, scanVars, PullFireAlarm
  <2>2. CASE ScanNext
    BY <2>2 DEF ScanNext, CaptureComplete, Pread, Judge, Wait, Scan, TailFlush, ScanAborted, notScan,
                orderVars, userVars
  <2>. QED
    BY <2>1, <2>2
<1>4. FallowQueue' /\ OrderQueue' /\ Accounts'
  BY <1>2, <1>3, FallowKept, OrderKept, AccountsKept DEF Base
<1>5. Control'
  BY <1>3 DEF Base, Control
<1>. QED
  BY <1>1, <1>4, <1>5 DEF Base

(* The acknowledged prefix ends somewhere.                                 *)
LEMMA PrefixIs ==
  ASSUME NEW from \in Nat, NEW set, set \subseteq 1..Last, from <= Last, Last \in Nat
  PROVE  /\ PrefixEnd(set, from) \in Nat /\ from <= PrefixEnd(set, from) /\ PrefixEnd(set, from) <= Last
         /\ from+1..PrefixEnd(set, from) \subseteq set /\ PrefixEnd(set, from) + 1 \notin set
<1> DEFINE T == {k \in from..Last : k + 1 \notin set}
<1>1. T \in SUBSET Nat /\ Last \in T
  OBVIOUS
<1>2. \E k \in T : \A x \in T : k <= x
  <2>. HIDE DEF T
  <2>. QED
    BY <1>1, Least
<1>3. PICK k \in T : \A x \in T : k <= x
  BY <1>2
<1>4. k \in from..Last /\ k + 1 \notin set
  BY <1>3
<1>5. from+1..k \subseteq set
  <2>. SUFFICES ASSUME NEW x \in from+1..k, x \notin set PROVE FALSE
    OBVIOUS
  <2>1. PICK y \in Nat : y = x - 1 /\ y + 1 = x
    OBVIOUS
  <2>2. y \in T /\ ~(k <= y)
    BY <1>4, <2>1
  <2>. QED
    BY <1>3, <2>2
<1>6. \E x \in from..Last : from+1..x \subseteq set /\ x + 1 \notin set
  BY <1>4, <1>5
<1>7. PICK m : m = CHOOSE x \in from..Last : from+1..x \subseteq set /\ x + 1 \notin set
  OBVIOUS
<1>8. m \in from..Last /\ from+1..m \subseteq set /\ m + 1 \notin set
  BY <1>6, <1>7
<1>9. PrefixEnd(set, from) = m
  BY <1>7 DEF PrefixEnd, Last
<1>. QED
  BY <1>8, <1>9

(* The reclaimer takes a packet: what it knows acknowledged is one more.   *)
LEMMA ReclaimStep ==
  ASSUME ScanInv, FallowQueue, Reclaim
  PROVE  \E k \in Nat, acked \in SUBSET (1..Last) :
           /\ nextIdx <= k /\ k <= Last /\ nextIdx + 1..k \subseteq acked /\ k + 1 \notin acked
           /\ acked = fallowHeap \cup {fallowPipe[1]}
           /\ nextIdx' = k /\ fallowHeap' = acked \ (1..k)
           /\ fallowBytes' = IF k > nextIdx THEN batches[k][2] ELSE fallowBytes
           /\ Len(fallowPipe) > 0 /\ fallowPipe' = Tail(fallowPipe) /\ fallowPipe[1] \in 1..Last
<1>1. /\ fallowPipe \in Seq(Nat) /\ \A k \in 1..Len(fallowPipe) : fallowPipe[k] \in 1..Last
      /\ fallowHeap \subseteq 1..Last /\ nextIdx \in 0..Last /\ Last \in Nat
  BY BatchFacts DEF FallowQueue
<1>2. Len(fallowPipe) > 0 /\ Head(fallowPipe) = fallowPipe[1] /\ fallowPipe[1] \in 1..Last
  BY <1>1 DEF Reclaim
<1>3. PICK acked \in SUBSET (1..Last) : acked = fallowHeap \cup {fallowPipe[1]}
  BY <1>1, <1>2
<1>4. PICK k : k = PrefixEnd(acked, nextIdx)
  OBVIOUS
<1>5. k \in Nat /\ nextIdx <= k /\ k <= Last /\ nextIdx + 1..k \subseteq acked /\ k + 1 \notin acked
  BY <1>1, <1>3, <1>4, PrefixIs
<1>6. /\ nextIdx' = k /\ fallowHeap' = acked \ (1..k)
      /\ fallowBytes' = IF k > nextIdx THEN batches[k][2] ELSE fallowBytes
      /\ fallowPipe' = Tail(fallowPipe)
  BY <1>2, <1>3, <1>4 DEF Reclaim
<1>. QED
  BY <1>2, <1>3, <1>5, <1>6

LEMMA TailIs ==
  ASSUME NEW s \in Seq(Nat), Len(s) > 0
  PROVE  /\ Tail(s) \in Seq(Nat) /\ Len(Tail(s)) = Len(s) - 1
         /\ \A k \in 1..Len(Tail(s)) : k + 1 \in 1..Len(s) /\ Tail(s)[k] = s[k + 1]
OBVIOUS

LEMMA BaseByReclaim ==
  ASSUME Base, Reclaim PROVE Base'
<1>1. ScanInv' /\ Grows
  <2>1. Aside
    BY AsideByRest DEF Base
  <2>2. UNCHANGED <<batches, work>>
    BY DEF Reclaim, notWork
  <2>. QED
    BY <2>1, <2>2, ScanAside DEF Base, Grows
<1>2. UNCHANGED <<mode, limit, rs, orderPipe, heap, expected, synced, orderer,
                  tracker, ledger, ckpt, out, outcome, reactor, alarm, batches>>
  BY DEF Reclaim, notWork, scanVars, orderVars, userVars
<1>3. OrderQueue' /\ Accounts' /\ Control'
  BY <1>1, <1>2, OrderKept, AccountsKept DEF Base, Control
<1>4. FallowQueue'
  <2>1. PICK k \in Nat, acked \in SUBSET (1..Last) :
           /\ nextIdx <= k /\ k <= Last /\ nextIdx + 1..k \subseteq acked /\ k + 1 \notin acked
           /\ acked = fallowHeap \cup {fallowPipe[1]}
           /\ nextIdx' = k /\ fallowHeap' = acked \ (1..k)
           /\ fallowBytes' = IF k > nextIdx THEN batches[k][2] ELSE fallowBytes
           /\ Len(fallowPipe) > 0 /\ fallowPipe' = Tail(fallowPipe) /\ fallowPipe[1] \in 1..Last
    BY ReclaimStep DEF Base
  <2>2. /\ fallowPipe \in Seq(Nat) /\ \A j \in 1..Len(fallowPipe) : fallowPipe[j] \in 1..Last
        /\ nextIdx \in 0..Last /\ Last \in Nat
        /\ fallowBytes = IF nextIdx = 0 THEN 0 ELSE batches[nextIdx][2]
    BY BatchFacts DEF Base, FallowQueue
  <2>3. Last' = Last
    BY <1>2 DEF Last
  <2>4. fallowPipe' \in Seq(Nat) /\ \A j \in 1..Len(fallowPipe') : fallowPipe'[j] \in 1..Last
    BY <2>1, <2>2, TailIs
  <2>5. fallowHeap' \subseteq 1..Last /\ nextIdx' \in 0..Last /\ nextIdx' + 1 \notin fallowHeap'
    BY <2>1, <2>2
  <2>6. fallowBytes' = IF nextIdx' = 0 THEN 0 ELSE batches[nextIdx'][2]
    BY <2>1, <2>2
  <2>. QED
    BY <1>2, <2>3, <2>4, <2>5, <2>6 DEF FallowQueue
<1>. QED
  BY <1>1, <1>3, <1>4 DEF Base

LEMMA AppendIs ==
  ASSUME NEW S, NEW s \in Seq(S), NEW x \in S
  PROVE  /\ Append(s, x) \in Seq(S) /\ Len(Append(s, x)) = Len(s) + 1
         /\ \A k \in 1..Len(s) : Append(s, x)[k] = s[k]
         /\ Append(s, x)[Len(s) + 1] = x
OBVIOUS

(* One more block in the output, of a batch that was published.            *)
LEMMA OutIs ==
  ASSUME ScanInv, Accounts, NEW i \in 1..Last, out' = Append(out, batches[i])
  PROVE  /\ out' \in Seq(Ivals) /\ Len(out') = Len(out) + 1 /\ Len(out) \in Nat
         /\ \A k \in 1..Len(out) : out'[k] = out[k]
         /\ out'[Len(out) + 1] = batches[i]
         /\ \A k \in 1..Len(out') : out'[k][2] <= End
<1>1. batches[i] \in Ivals /\ batches[i][2] <= End
  BY BatchFacts
<1>2. out \in Seq(Ivals) /\ \A k \in 1..Len(out) : out[k][2] <= End
  BY DEF Accounts
<1>3. /\ out' \in Seq(Ivals) /\ Len(out') = Len(out) + 1 /\ Len(out) \in Nat
      /\ \A k \in 1..Len(out) : out'[k] = out[k]
      /\ out'[Len(out) + 1] = batches[i]
  BY <1>1, <1>2, AppendIs
<1>4. \A k \in 1..Len(out') : k \in 1..Len(out) \/ k = Len(out) + 1
  BY <1>3
<1>. QED
  BY <1>1, <1>2, <1>3, <1>4

LEMMA BaseByWork ==
  ASSUME Base, WorkStep PROVE Base'
<1>1. ScanInv' /\ Last' = Last /\ End' = End /\ UNCHANGED <<mode, limit, rs, batches>>
  <2>1. Aside
    BY AsideByWork DEF Base
  <2>. QED
    BY <2>1, ScanAside DEF Base, Aside, Last, End, scanVars
<1>2. DOMAIN work = 1..Last /\ Last \in Nat
  BY BatchFacts DEF Base
<1>3. /\ Accounts /\ Control
      /\ orderPipe \in Seq(Nat) /\ \A k \in 1..Len(orderPipe) : orderPipe[k] \in 1..Last
      /\ heap \subseteq 1..Last /\ expected \in Nat /\ synced \in BOOLEAN /\ orderer \in {"run", "gone"}
      /\ fallowPipe \in Seq(Nat) /\ \A k \in 1..Len(fallowPipe) : fallowPipe[k] \in 1..Last
      /\ fallowHeap \subseteq 1..Last /\ nextIdx \in 0..Last /\ nextIdx + 1 \notin fallowHeap
      /\ fallowBytes = IF nextIdx = 0 THEN 0 ELSE batches[nextIdx][2]
  BY DEF Base, FallowQueue, OrderQueue
<1>4. ASSUME UNCHANGED <<orderPipe, heap, expected, synced, orderer>> PROVE OrderQueue'
  BY <1>1, <1>3, <1>4 DEF OrderQueue
<1>5. ASSUME UNCHANGED <<nextIdx, fallowHeap, fallowBytes>>,
             fallowPipe' = fallowPipe \/ \E i \in 1..Last : fallowPipe' = Append(fallowPipe, i)
      PROVE  FallowQueue'
  <2>1. fallowPipe' \in Seq(Nat) /\ \A k \in 1..Len(fallowPipe') : fallowPipe'[k] \in 1..Last
    <3>1. CASE fallowPipe' = fallowPipe
      BY <1>3, <3>1
    <3>2. ASSUME NEW i \in 1..Last, fallowPipe' = Append(fallowPipe, i)
          PROVE  fallowPipe' \in Seq(Nat) /\ \A k \in 1..Len(fallowPipe') : fallowPipe'[k] \in 1..Last
      <4>1. /\ fallowPipe' \in Seq(Nat) /\ Len(fallowPipe') = Len(fallowPipe) + 1 /\ Len(fallowPipe) \in Nat
            /\ \A k \in 1..Len(fallowPipe) : fallowPipe'[k] = fallowPipe[k]
            /\ fallowPipe'[Len(fallowPipe) + 1] = i
        BY <1>2, <1>3, <3>2, AppendIs
      <4>2. \A k \in 1..Len(fallowPipe') : k \in 1..Len(fallowPipe) \/ k = Len(fallowPipe) + 1
        BY <4>1
      <4>. QED
        BY <1>3, <4>1, <4>2
    <3>. QED
      BY <1>5, <3>1, <3>2
  <2>. QED
    BY <1>1, <1>3, <1>5, <2>1 DEF FallowQueue
<1>6. ASSUME UNCHANGED <<orderer, tracker, ledger, ckpt, outcome>>,
             out' = out \/ (mode = "realtime" /\ \E i \in 1..Last : out' = Append(out, batches[i]))
      PROVE  Accounts'
  <2>1. out' \in Seq(Ivals) /\ (\A k \in 1..Len(out') : out'[k][2] <= End)
        /\ (mode # "realtime" => Len(out') = Len(out))
    <3>1. CASE out' = out
      BY <1>3, <3>1 DEF Accounts
    <3>2. CASE mode = "realtime" /\ \E i \in 1..Last : out' = Append(out, batches[i])
      BY <1>3, <3>2, OutIs DEF Base
    <3>. QED
      BY <1>6, <3>1, <3>2
  <2>. QED
    BY <1>1, <1>3, <1>6, <2>1 DEF Accounts
<1>7. CASE Claim
  <2>1. UNCHANGED <<fallowVars, orderVars, alarm, userVars>>
    BY <1>7 DEF Claim, notWork
  <2>2. UNCHANGED <<orderPipe, heap, expected, synced, orderer, fallowPipe, nextIdx, fallowHeap,
                    fallowBytes, tracker, ledger, ckpt, outcome, out, alarm, reactor>>
    BY <2>1 DEF fallowVars, orderVars, userVars
  <2>. QED
    BY <1>1, <1>3, <1>4, <1>5, <1>6, <2>2 DEF Base, Control
<1>8. ASSUME NEW i \in 1..Last, AckFallow(i) PROVE Base'
  <2>1. UNCHANGED <<orderPipe, heap, expected, synced, orderer, nextIdx, fallowHeap,
                    fallowBytes, tracker, ledger, ckpt, outcome, alarm, reactor>>
    BY <1>8 DEF AckFallow, notWork, userVars
  <2>2. fallowPipe' = Append(fallowPipe, i)
    BY <1>8 DEF AckFallow
  <2>3. out' = out \/ (mode = "realtime" /\ out' = Append(out, batches[i]))
    BY <1>8 DEF AckFallow, Direct
  <2>. QED
    BY <1>1, <1>3, <1>4, <1>5, <1>6, <2>1, <2>2, <2>3 DEF Base, Control
<1>9. ASSUME NEW i \in 1..Last, AckOrder(i) PROVE Base'
  <2>1. UNCHANGED <<fallowVars, heap, expected, synced, orderer, tracker, ledger, out, ckpt, outcome,
                    alarm, reactor>>
    BY <1>9 DEF AckOrder, notWork, userVars
  <2>2. UNCHANGED <<fallowPipe, nextIdx, fallowHeap, fallowBytes>>
    BY <2>1 DEF fallowVars
  <2>3. orderPipe' = orderPipe \/ orderPipe' = Append(orderPipe, i)
    BY <1>9 DEF AckOrder
  <2>4. orderPipe' \in Seq(Nat) /\ \A k \in 1..Len(orderPipe') : orderPipe'[k] \in 1..Last
    <3>1. CASE orderPipe' = orderPipe
      BY <1>3, <3>1
    <3>2. CASE orderPipe' = Append(orderPipe, i)
      <4>1. /\ orderPipe' \in Seq(Nat) /\ Len(orderPipe') = Len(orderPipe) + 1 /\ Len(orderPipe) \in Nat
            /\ \A k \in 1..Len(orderPipe) : orderPipe'[k] = orderPipe[k]
            /\ orderPipe'[Len(orderPipe) + 1] = i
        BY <1>2, <1>3, <3>2, AppendIs
      <4>2. \A k \in 1..Len(orderPipe') : k \in 1..Len(orderPipe) \/ k = Len(orderPipe) + 1
        BY <4>1
      <4>. QED
        BY <1>3, <4>1, <4>2
    <3>. QED
      BY <2>3, <3>1, <3>2
  <2>5. OrderQueue'
    BY <1>1, <1>3, <2>1, <2>4 DEF OrderQueue
  <2>. QED
    BY <1>1, <1>3, <1>5, <1>6, <2>1, <2>2, <2>5 DEF Base, Control
<1>10. ASSUME NEW i \in 1..Last, AckFails(i) PROVE Base'
  <2>1. UNCHANGED <<fallowVars, orderVars, userVars>> /\ alarm' \in {alarm, 2}
    BY <1>10 DEF AckFails, notWork, PullFireAlarm
  <2>2. UNCHANGED <<orderPipe, heap, expected, synced, orderer, fallowPipe, nextIdx, fallowHeap,
                    fallowBytes, tracker, ledger, ckpt, outcome, out, reactor>>
    BY <2>1 DEF fallowVars, orderVars, userVars
  <2>. QED
    BY <1>1, <1>3, <1>4, <1>5, <1>6, <2>1, <2>2 DEF Base, Control
<1>11. ASSUME NEW i \in 1..Last, DieRunning(i) PROVE Base'
  <2>1. UNCHANGED <<fallowVars, orderPipe, heap, expected, synced, orderer, tracker, ledger, ckpt, outcome,
                    alarm, reactor>>
    BY <1>11 DEF DieRunning, notWork, userVars
  <2>2. UNCHANGED <<fallowPipe, nextIdx, fallowHeap, fallowBytes>>
    BY <2>1 DEF fallowVars
  <2>3. mode = "realtime" /\ out' = Append(out, batches[i])
    BY <1>11 DEF DieRunning, Direct
  <2>. QED
    BY <1>1, <1>3, <1>4, <1>5, <1>6, <2>1, <2>2, <2>3 DEF Base, Control
<1>. QED
  BY <1>2, <1>7, <1>8, <1>9, <1>10, <1>11 DEF WorkStep

(* A block goes out and is accounted for.                                  *)
LEMMA AccountsByEmit ==
  ASSUME Base, NEW i \in 1..Last, Emit(i), mode # "realtime",
         UNCHANGED <<mode, limit, rs, orderer, ckpt, outcome>>, outcome = "running"
  PROVE  Accounts'
<1>1. /\ out' = Append(out, batches[i]) /\ tracker' = Track(tracker, batches[i])
      /\ ledger' \in Published(tracker')
  BY DEF Emit
<1>2. batches[i] \in Ivals /\ tracker \in Ledgers /\ tracker.bytes = Len(out)
  BY BatchFacts DEF Base, Accounts
<1>3. tracker' \in Ledgers /\ tracker'.bytes = tracker.bytes + 1
  BY <1>1, <1>2, TrackIs
<1>4. ledger' \in Ledgers /\ ledger'.bytes = tracker'.bytes
  BY <1>1, <1>3, PublishedIs
<1>5. out' \in Seq(Ivals) /\ Len(out') = Len(out) + 1 /\ \A k \in 1..Len(out') : out'[k][2] <= End
  BY <1>1, OutIs DEF Base
<1>. QED
  BY <1>2, <1>3, <1>4, <1>5 DEF Base, Accounts, End

LEMMA BaseByOrder ==
  ASSUME Base, OrderStep PROVE Base'
<1>1. ScanInv' /\ Last' = Last /\ End' = End /\ UNCHANGED <<mode, limit, rs, batches, work, fallowVars, ckpt, outcome, reactor>>
  <2>1. Aside
    BY AsideByRest DEF Base
  <2>2. UNCHANGED <<work, fallowVars, userVars>>
    BY DEF OrderStep, OrderTake, OrderEmit, OrderEof, notOrder, notWork
  <2>. QED
    BY <2>1, <2>2, ScanAside DEF Base, Aside, Last, End, scanVars, userVars
<1>2. DOMAIN work = 1..Last /\ Last \in Nat
  BY BatchFacts DEF Base
<1>3. /\ Accounts /\ alarm \in 0..2 /\ outcome = "running" /\ orderer = "run" /\ mode # "realtime"
      /\ orderPipe \in Seq(Nat) /\ \A k \in 1..Len(orderPipe) : orderPipe[k] \in 1..Last
      /\ heap \subseteq 1..Last /\ expected \in Nat /\ synced \in BOOLEAN
  <2>1. outcome = "running" /\ orderer = "run"
    BY DEF OrderStep, OrderTake, OrderEmit, OrderEof
  <2>. QED
    BY <2>1 DEF Base, OrderQueue, Accounts, Control
<1>4. FallowQueue'
  BY <1>1, FallowKept DEF Base, Grows
<1>5. \A r \in {1, 2} : PullFireAlarm(r) => alarm' \in 0..2
  BY <1>3 DEF PullFireAlarm
<1>6. ASSUME NEW i \in 1..Last, Emit(i) \/ EmitFails(i)
      PROVE  Accounts' /\ alarm' \in 0..2 /\ orderer' \in {"run", "gone"}
  <2>1. CASE Emit(i)
    <3>1. UNCHANGED <<orderer, alarm>>
      BY <2>1 DEF Emit
    <3>. QED
      BY <1>1, <1>3, <2>1, <3>1, AccountsByEmit
  <2>2. CASE EmitFails(i)
    <3>1. orderer' = "gone" /\ UNCHANGED <<out, tracker, ledger>> /\ \E r \in {1, 2} : PullFireAlarm(r)
      BY <2>2 DEF EmitFails
    <3>2. Accounts'
      BY <1>1, <1>3, <3>1 DEF Accounts
    <3>. QED
      BY <1>5, <3>1, <3>2
  <2>. QED
    BY <1>6, <2>1, <2>2
<1>7. CASE OrderTake
  <2>1. Len(orderPipe) > 0 /\ orderPipe' = Tail(orderPipe) /\ Head(orderPipe) \in 1..Last
    BY <1>3, <1>7 DEF OrderTake
  <2>2. orderPipe' \in Seq(Nat) /\ \A k \in 1..Len(orderPipe') : orderPipe'[k] \in 1..Last
    BY <1>3, <2>1, TailIs
  <2>3. PICK i \in 1..Last : i = Head(orderPipe)
    BY <2>1
  <2>4. CASE /\ heap' = heap \cup {i}
             /\ IF ~synced /\ SyncsTo(i) THEN synced' = TRUE /\ expected' = i
                                         ELSE UNCHANGED <<synced, expected>>
             /\ UNCHANGED <<orderer, tracker, ledger, out, torn, alarm, faults>>
    <3>1. heap' \subseteq 1..Last /\ expected' \in Nat /\ synced' \in BOOLEAN
      <4>1. i \in Nat
        BY <1>2, <2>3
      <4>2. heap' \subseteq 1..Last
        BY <1>3, <2>3, <2>4
      <4>3. CASE synced' = TRUE /\ expected' = i
        BY <4>1, <4>2, <4>3
      <4>4. CASE UNCHANGED <<synced, expected>>
        BY <1>3, <4>2, <4>4
      <4>. QED
        BY <2>4, <4>3, <4>4
    <3>2. Accounts'
      BY <1>1, <1>3, <2>4, AccountsKept
    <3>3. OrderQueue'
      BY <1>1, <1>3, <2>2, <2>4, <3>1 DEF OrderQueue
    <3>. QED
      BY <1>1, <1>4, <2>4, <3>2, <3>3 DEF Base, Control
  <2>5. CASE (Emit(i) \/ EmitFails(i)) /\ UNCHANGED <<heap, expected, synced>>
    <3>1. Accounts' /\ alarm' \in 0..2 /\ orderer' \in {"run", "gone"}
      BY <1>6, <2>5
    <3>2. OrderQueue'
      BY <1>1, <1>3, <2>2, <2>5, <3>1 DEF OrderQueue
    <3>. QED
      BY <1>1, <1>4, <3>1, <3>2 DEF Base, Control
  <2>. QED
    BY <1>7, <2>3, <2>4, <2>5 DEF OrderTake
<1>8. CASE OrderEmit
  <2>1. PICK i : i = LeastDue
    OBVIOUS
  <2>2. i \in heap
    <3>1. heap \in SUBSET Nat /\ heap # {}
      BY <1>2, <1>3, <1>8 DEF OrderEmit, Due
    <3>2. \E x \in heap : \A y \in heap : x <= y
      BY <3>1, Least
    <3>. QED
      BY <2>1, <3>2 DEF LeastDue
  <2>3. /\ heap' = heap \ {i} /\ expected' = i + 1 /\ (Emit(i) \/ EmitFails(i))
        /\ UNCHANGED <<orderPipe, synced>>
    BY <1>8, <2>1 DEF OrderEmit
  <2>4. i \in 1..Last /\ Accounts' /\ alarm' \in 0..2 /\ orderer' \in {"run", "gone"}
    BY <1>3, <1>6, <2>2, <2>3
  <2>5. heap' \subseteq 1..Last /\ expected' \in Nat
    BY <1>2, <1>3, <2>3, <2>4
  <2>6. OrderQueue'
    BY <1>1, <1>3, <2>3, <2>4, <2>5 DEF OrderQueue
  <2>. QED
    BY <1>1, <1>4, <2>4, <2>6 DEF Base, Control
<1>9. CASE OrderEof
  <2>1. orderer' = "gone" /\ UNCHANGED <<orderPipe, heap, expected, synced, tracker, ledger, out>>
    BY <1>9 DEF OrderEof
  <2>2. alarm' \in 0..2
    BY <1>3, <1>5, <1>9 DEF OrderEof
  <2>3. OrderQueue' /\ Accounts'
    BY <1>1, <1>3, <2>1 DEF OrderQueue, Accounts
  <2>. QED
    BY <1>1, <1>4, <2>2, <2>3 DEF Base, Control
<1>. QED
  BY <1>7, <1>8, <1>9 DEF OrderStep

(* The checkpoint is a ledger: no interval ends behind the input.          *)
LEMMA CheckpointIs ==
  ASSUME Base
  PROVE  /\ Checkpoint \in Ledgers /\ Checkpoint.bytes = ledger.bytes
         /\ LedgerBytes(Checkpoint) =
              LedgerBytes(ledger) \cup (IF TakesFallow THEN 0..fallowBytes-1 ELSE {})
         /\ ledger.jagged = {} => Checkpoint.jagged = {}
         /\ Checkpoint.horizon = IF TakesFallow THEN fallowBytes ELSE ledger.horizon
<1>0. N \in Nat
  BY Constants
<1>1. ledger \in Ledgers
  BY DEF Base, Accounts
<1>2. PICK h \in 0..N, c \in Nat, J \in SUBSET Ivals :
        ledger = [horizon |-> h, bytes |-> c, jagged |-> J]
  BY <1>1 DEF Ledgers
<1>3. fallowBytes \in 0..N
  <2>1. nextIdx \in 0..Last /\ Last \in Nat /\ fallowBytes = IF nextIdx = 0 THEN 0 ELSE batches[nextIdx][2]
    BY BatchFacts DEF Base, FallowQueue
  <2>2. nextIdx # 0 => batches[nextIdx][2] \in 0..N
    BY <2>1, BatchFacts DEF Base
  <2>. QED
    BY <1>0, <2>1, <2>2
<1>4. Merged(J) \in SUBSET Ivals /\ Covered(Merged(J)) = Covered(J)
  BY MergedIs
<1>5. PICK g \in 0..N : g = IF TakesFallow THEN fallowBytes ELSE h
  BY <1>3
<1>6. Checkpoint = [horizon |-> g, bytes |-> c, jagged |-> Merged(J)]
  BY <1>2, <1>5 DEF Checkpoint
<1>7. Checkpoint \in Ledgers
  BY <1>4, <1>6 DEF Ledgers
<1>8. LedgerBytes(Checkpoint) = (0..g-1) \cup Covered(J)
  BY <1>4, <1>6 DEF LedgerBytes
<1>9. LedgerBytes(ledger) = (0..h-1) \cup Covered(J)
  BY <1>2 DEF LedgerBytes
<1>10. TakesFallow => h = 0
  BY <1>2 DEF TakesFallow
<1>11. h = 0 => (0..h-1) = {}
  OBVIOUS
<1>12. J = {} => Merged(J) = {}
  <2>1. SUFFICES ASSUME J = {}, NEW iv \in Merged(J) PROVE FALSE
    OBVIOUS
  <2>2. iv \in Ivals /\ Bytes(iv) \subseteq Covered(J)
    BY <1>4 DEF Merged
  <2>3. iv[1] \in Bytes(iv)
    BY <1>0, <2>2 DEF Bytes, Ivals
  <2>. QED
    BY <2>1, <2>2, <2>3 DEF Covered
<1>13. LedgerBytes(Checkpoint) = LedgerBytes(ledger) \cup (IF TakesFallow THEN 0..fallowBytes-1 ELSE {})
  BY <1>5, <1>8, <1>9, <1>10, <1>11
<1>. QED
  BY <1>2, <1>5, <1>6, <1>7, <1>12, <1>13

LEMMA BaseByParent ==
  ASSUME Base, ParentStep \/ Rest PROVE Base'
<1>1. ScanInv' /\ UNCHANGED <<mode, limit, rs, batches>>
  <2>1. Aside
    BY AsideByRest DEF Base
  <2>. QED
    BY <2>1, ScanAside DEF Base, Aside, scanVars
<1>2. Last' = Last /\ End' = End
  BY <1>1 DEF Last, End
<1>3. UNCHANGED <<fallowPipe, nextIdx, fallowHeap, fallowBytes, orderPipe, heap, expected, synced, orderer,
                  tracker, ledger, out>>
  BY DEF ParentStep, ReactorDone, ReactorAbort, RaceDeath, Signal, ExitRun, Rest, notParent, vars,
         fallowVars, orderVars
<1>4. FallowQueue' /\ OrderQueue'
  BY <1>1, <1>2, <1>3 DEF Base, FallowQueue, OrderQueue
<1>5. alarm' \in {alarm, 2} /\ reactor' \in {reactor, "clean", "dump"}
  <2>1. CASE ReactorDone \/ ReactorAbort
    BY <2>1 DEF ReactorDone, ReactorAbort
  <2>2. CASE RaceDeath \/ Signal
    BY <2>2 DEF RaceDeath, Signal, PullFireAlarm
  <2>3. CASE ExitRun \/ Rest
    BY <2>3 DEF ExitRun, Rest, vars, userVars
  <2>. QED
    BY <2>1, <2>2, <2>3 DEF ParentStep
<1>6. \/ UNCHANGED <<outcome, ckpt>>
      \/ outcome' = "ok" /\ UNCHANGED ckpt
      \/ outcome' = "failed" /\ ckpt' = Checkpoint
  <2>1. CASE ExitRun
    BY <2>1 DEF ExitRun
  <2>2. CASE ReactorDone \/ ReactorAbort \/ RaceDeath \/ Signal
    BY <2>2 DEF ReactorDone, ReactorAbort, RaceDeath, Signal, notParent
  <2>3. CASE Rest
    BY <2>3 DEF Rest, vars, userVars
  <2>. QED
    BY <2>1, <2>2, <2>3 DEF ParentStep
<1>7. Control'
  BY <1>5, <1>6 DEF Base, Control
<1>8. Accounts'
  <2>1. CASE UNCHANGED <<outcome, ckpt>>
    BY <1>1, <1>3, <2>1, AccountsKept DEF Base
  <2>2. CASE outcome' = "ok" /\ UNCHANGED ckpt
    BY <1>1, <1>2, <1>3, <2>2 DEF Base, Accounts
  <2>3. CASE outcome' = "failed" /\ ckpt' = Checkpoint
    <3>1. /\ ckpt' \in Ledgers /\ ckpt'.bytes = ledger.bytes
          /\ ledger.jagged = {} => ckpt'.jagged = {}
      BY <2>3, CheckpointIs
    <3>. QED
      BY <1>1, <1>2, <1>3, <2>3, <3>1 DEF Base, Accounts
  <2>. QED
    BY <1>6, <2>1, <2>2, <2>3
<1>. QED
  BY <1>1, <1>4, <1>7, <1>8 DEF Base

LEMMA RestartKeepsOut ==
  ASSUME Base, Restart
  PROVE  out' = out /\ ckpt.bytes = ledger.bytes
<1>1. outcome = "failed" /\ out' = Kept
  BY DEF Restart
<1>2. out \in Seq(Ivals) /\ ckpt.bytes = ledger.bytes /\ (mode # "realtime" => ledger.bytes = Len(out))
  BY <1>1 DEF Base, Accounts
<1>3. SubSeq(out, 1, Len(out)) = out
  BY <1>2
<1>. QED
  BY <1>1, <1>2, <1>3 DEF Kept

LEMMA BaseByRestart ==
  ASSUME Base, Restart PROVE Base'
<1>1. ckpt \in Ledgers /\ ckpt.horizon \in 0..N /\ ckpt.jagged \subseteq Ivals /\ outcome = "failed"
  BY DEF Base, Accounts, Ledgers, Restart
<1>2. ScanInv'
  BY <1>1, ScanByRestart DEF Base
<1>3. /\ batches' = <<>> /\ fallowPipe' = <<>> /\ nextIdx' = 0 /\ fallowHeap' = {} /\ fallowBytes' = 0
      /\ orderPipe' = <<>> /\ heap' = {} /\ expected' = 1 /\ synced' = FALSE
      /\ orderer' = (IF mode = "realtime" THEN "gone" ELSE "run")
  BY DEF Restart
<1>4. FallowQueue' /\ OrderQueue'
  <2>1. Last' = 0 /\ orderer' \in {"run", "gone"}
    BY <1>3 DEF Last
  <2>2. FallowQueue'
    BY <1>3, <2>1 DEF FallowQueue
  <2>3. OrderQueue'
    <3>0. orderPipe' = <<>> /\ synced' = FALSE
      BY <1>3
    <3>1. orderPipe' \in Seq(Nat) /\ Len(orderPipe') = 0 /\ synced' \in BOOLEAN
      <4>1. <<>> \in Seq(Nat) /\ Len(<<>>) = 0
        OBVIOUS
      <4>2. orderPipe' \in Seq(Nat) /\ Len(orderPipe') = 0
        BY ONLY <3>0, <4>1
      <4>3. synced' \in BOOLEAN
        BY ONLY <3>0
      <4>. QED
        BY <4>2, <4>3
    <3>. QED
      BY <1>3, <2>1, <3>1 DEF OrderQueue
  <2>. QED
    BY <2>2, <2>3
<1>5. Control'
  BY DEF Restart, Control
<1>6. /\ tracker' = ckpt /\ ledger' = ckpt /\ ckpt' = ckpt /\ outcome' = "running"
      /\ mode' = mode /\ End' = End /\ rs'.horizon = ckpt.horizon /\ rs'.jagged = ckpt.jagged
  BY DEF Restart, End
<1>7. /\ out \in Seq(Ivals) /\ \A k \in 1..Len(out) : out[k][2] <= End
      /\ mode # "realtime" => ledger.bytes = Len(out)
      /\ mode = "realtime" => ledger.bytes = 0 /\ ckpt.jagged = {}
  BY <1>1 DEF Base, Accounts
<1>8. Accounts'
  BY <1>1, <1>3, <1>6, <1>7, RestartKeepsOut DEF Accounts
<1>. QED
  BY <1>2, <1>4, <1>5, <1>8 DEF Base

LEMMA BaseNext ==
  ASSUME Base, [Next \/ Rest]_vars PROVE Base'
<1>1. CASE UNCHANGED vars
  <2>1. work \in Seq(Stages)
    BY BatchFacts DEF Base
  <2>2. UNCHANGED <<mode, limit, ingestVars, scanVars, batches, work, alarm>>
    BY <1>1 DEF vars
  <2>3. Aside
    BY <2>1, <2>2 DEF Aside
  <2>4. ScanInv' /\ Last' = Last
    BY <2>2, <2>3, ScanAside DEF Base, Last
  <2>5. UNCHANGED <<fallowPipe, nextIdx, fallowHeap, fallowBytes, orderPipe, heap, expected, synced, orderer,
                    tracker, ledger, ckpt, out, outcome, reactor, alarm, rs, mode, limit, batches>>
    BY <1>1 DEF vars, fallowVars, orderVars, userVars, scanVars
  <2>. QED
    BY <2>4, <2>5, AccountsKept DEF Base, FallowQueue, OrderQueue, Control
<1>2. CASE IngestNext \/ ScanNext
  BY <1>2, BaseByScan
<1>3. CASE WorkStep
  BY <1>3, BaseByWork
<1>4. CASE Reclaim
  BY <1>4, BaseByReclaim
<1>5. CASE OrderStep
  BY <1>5, BaseByOrder
<1>6. CASE ParentStep \/ Rest
  BY <1>6, BaseByParent
<1>7. CASE Restart
  BY <1>7, BaseByRestart
<1>. QED
  BY <1>1, <1>2, <1>3, <1>4, <1>5, <1>6, <1>7 DEF Next, WorkStep, OrderStep, ParentStep

LEMMA BaseCorrect == Spec => []Base
<1>. QED
  BY BaseInit, BaseNext, PTL DEF Spec

(* Every queue, index and ledger is within its bounds at any time, resumes *)
(* included.                                                               *)
THEOREM TypeCorrect == Spec => []TypeOK
<1>1. ASSUME Base PROVE TypeOK
  <2>1. Len(work) = Len(batches) /\ DOMAIN batches = 1..Last /\ Last = Len(batches)
    BY <1>1, BatchFacts DEF Base
  <2>2. ingested \in 0..N /\ pos \in 0..N /\ avail \in 0..N /\ batchStart \in 0..N
    BY <1>1 DEF Base, ScanInv, ScanRanges
  <2>3. nextIdx \in 0..Last /\ heap \subseteq 1..Last
    BY <1>1 DEF Base, FallowQueue, OrderQueue
  <2>4. /\ tracker.horizon \in 0..N /\ ckpt.bytes \in Nat /\ Len(out) \in Nat
        /\ tracker.bytes = Len(out) \/ tracker.bytes = 0
    BY <1>1 DEF Base, Accounts, Ledgers
  <2>. QED
    BY <2>1, <2>2, <2>3, <2>4 DEF TypeOK
<1>. QED
  BY <1>1, BaseCorrect, PTL

-------------------------------------------------------------------------------
(* In a run that resumes without jagged intervals the batches follow each  *)
(* other from the horizon on.                                              *)

Before(i) == IF i = 1 THEN rs.horizon ELSE batches[i - 1][2]

Chain ==
  rs.jagged = {} =>
    /\ \A i \in 1..Last : batches[i][1] = Before(i) /\ rs.horizon <= batches[i][1]
    /\ Last = 0 => batchStart <= rs.horizon
    /\ Last # 0 => batchStart = batches[Last][2]
    /\ \A i \in 1..Last : \A b \in rs.horizon..batches[i][2]-1 : \E j \in 1..i : b \in Bytes(batches[j])

LEMMA ChainKept ==
  ASSUME Chain, UNCHANGED <<rs, batches, batchStart>> PROVE Chain'
BY DEF Chain, Before, Last

LEMMA ChainByFlush ==
  ASSUME Base, Chain, NEW e \in 0..N, batchStart <= e, Flush(batchStart, e), batchStart' = e, rs' = rs
  PROVE  Chain'
<1>0. N \in Nat
  BY Constants
<1>1. /\ ScanRanges /\ ScanInv /\ batchStart \in 0..N /\ rs.horizon \in 0..N /\ rs.jagged \subseteq Ivals
  BY DEF Base, ScanInv, ScanRanges
<1>. SUFFICES ASSUME rs.jagged = {} PROVE Chain'
  BY DEF Chain
<1>2. PICK h \in 0..N : h = rs.horizon
  BY <1>1
<1>3. PICK front : front = FrontAfter(batchStart)
  OBVIOUS
<1>4. /\ front \in 0..N /\ front = (IF batchStart < h THEN h ELSE batchStart)
      /\ front < e => Clip(batchStart, e) = <<front, e>>
  BY <1>1, <1>2, <1>3, ClipIs
<1>5. /\ Last \in Nat
      /\ \A i \in 1..Last : batches[i][1] = Before(i) /\ h <= batches[i][1]
      /\ Last = 0 => batchStart <= h
      /\ Last # 0 => batchStart = batches[Last][2]
      /\ \A i \in 1..Last : \A b \in h..batches[i][2]-1 : \E j \in 1..i : b \in Bytes(batches[j])
  BY <1>1, <1>2, BatchFacts DEF Chain
<1>6. Last # 0 => h < batchStart
  <2>. SUFFICES ASSUME Last # 0 PROVE h < batchStart
    OBVIOUS
  <2>1. Last \in 1..Last
    BY <1>5
  <2>2. batches[Last][1] \in Nat /\ batches[Last][2] \in Nat /\ batches[Last][1] < batches[Last][2]
    BY <1>0, <1>1, <2>1, BatchFacts
  <2>. QED
    BY <1>2, <1>5, <2>1, <2>2
<1>7. CASE UNCHANGED <<batches, work>> /\ e <= front
  <2>1. Last' = Last /\ h = rs'.horizon /\ \A i \in 1..Last : Before(i)' = Before(i)
    BY <1>2, <1>7 DEF Last, Before
  <2>2. Last = 0 => batchStart' <= h
    BY <1>1, <1>2, <1>4, <1>5, <1>7
  <2>3. Last # 0 => batchStart' = batches[Last][2]
    <3>. SUFFICES ASSUME Last # 0 PROVE batchStart' = batches[Last][2]
      OBVIOUS
    <3>1. front = batchStart
      BY <1>1, <1>2, <1>4, <1>6
    <3>2. e = batchStart
      BY <1>1, <1>7, <3>1
    <3>. QED
      BY <1>5, <3>2
  <2>. QED
    BY <1>5, <1>7, <2>1, <2>2, <2>3 DEF Chain
<1>8. ASSUME NEW b \in Ivals, b[1] = front, b[2] <= e, b = Clip(batchStart, e), Adds(b)
      PROVE  Chain'
  <2>1. b[1] \in Nat /\ b[2] \in Nat /\ b[1] < b[2]
    BY <1>0 DEF Ivals
  <2>2. b[2] = e /\ b[1] = front /\ front < e
    BY <1>0, <1>4, <1>8, <2>1
  <2>3. batches \in Seq(Ivals) /\ Last = Len(batches) /\ batches' = Append(batches, b)
    BY <1>1, <1>8, BatchFacts DEF Adds
  <2>4. /\ Last' = Last + 1 /\ batches'[Last + 1] = b
        /\ \A i \in 1..Last : batches'[i] = batches[i]
    BY <1>5, <2>3, AppendIs DEF Last
  <2>5. \A i \in 1..Last' : i \in 1..Last \/ i = Last + 1
    BY <1>5, <2>4
  <2>6. \A i \in 1..Last : Before(i)' = Before(i)
    <3>. SUFFICES ASSUME NEW i \in 1..Last PROVE Before(i)' = Before(i)
      OBVIOUS
    <3>1. i # 1 => i - 1 \in 1..Last
      BY <1>5
    <3>. QED
      BY <2>4, <3>1 DEF Before
  <2>7. PICK n \in Nat : n = Last + 1
    BY <1>5
  <2>8. \A i \in 1..Last' : batches'[i][1] = Before(i)' /\ h <= batches'[i][1]
    <3>1. Before(n)' = front /\ h <= front
      <4>1. CASE Last = 0
        <5>1. front = h /\ n = 1
          BY <1>1, <1>2, <1>4, <1>5, <2>7, <4>1
        <5>2. Before(n)' = rs'.horizon
          BY <5>1 DEF Before
        <5>. QED
          BY <1>2, <5>1, <5>2
      <4>2. CASE Last # 0
        <5>1. front = batchStart /\ h <= front
          BY <1>1, <1>2, <1>4, <1>6, <4>2
        <5>2. n # 1 /\ n - 1 = Last /\ Last \in 1..Last
          BY <1>5, <2>7, <4>2
        <5>3. Before(n)' = batches'[n - 1][2]
          BY <5>2 DEF Before
        <5>. QED
          BY <1>5, <2>4, <4>2, <5>1, <5>2, <5>3
      <4>. QED
        BY <4>1, <4>2
    <3>2. ASSUME NEW i \in 1..Last' PROVE batches'[i][1] = Before(i)' /\ h <= batches'[i][1]
      <4>1. CASE i \in 1..Last
        BY <1>5, <2>4, <2>6, <4>1
      <4>2. CASE i = n
        BY <2>2, <2>4, <2>7, <3>1, <4>2
      <4>. QED
        BY <2>5, <2>7, <4>1, <4>2
    <3>. QED
      BY <3>2
  <2>9. Last' # 0 /\ batchStart' = batches'[Last'][2]
    BY <1>5, <2>2, <2>4
  <2>10. ASSUME NEW i \in 1..Last', NEW x \in h..batches'[i][2]-1
         PROVE  \E j \in 1..i : x \in Bytes(batches'[j])
    <3>1. CASE i \in 1..Last
      <4>1. PICK j \in 1..i : x \in Bytes(batches[j])
        BY <1>5, <2>4, <2>10, <3>1
      <4>2. j \in 1..Last
        BY <1>5, <3>1
      <4>. QED
        BY <2>4, <4>1, <4>2
    <3>2. CASE i = Last + 1
      <4>1. x \in Int /\ h <= x /\ x < e
        BY <1>0, <2>2, <2>4, <2>10, <3>2, <1>2
      <4>2. CASE front <= x
        <5>1. x \in Bytes(b)
          BY <2>1, <2>2, <4>1, <4>2 DEF Bytes
        <5>2. i \in 1..i
          BY <1>5, <3>2
        <5>. QED
          BY <2>4, <3>2, <5>1, <5>2
      <4>3. CASE ~(front <= x)
        <5>1. Last # 0 /\ x < batchStart
          BY <1>1, <1>2, <1>4, <1>5, <4>1, <4>3
        <5>2. Last \in 1..Last /\ x \in h..batches[Last][2]-1
          BY <1>0, <1>1, <1>2, <1>5, <4>1, <5>1
        <5>3. PICK j \in 1..Last : x \in Bytes(batches[j])
          BY <1>5, <5>2
        <5>4. j \in 1..i
          BY <1>5, <3>2
        <5>. QED
          BY <2>4, <5>3, <5>4
      <4>. QED
        BY <4>2, <4>3
    <3>. QED
      BY <2>5, <3>1, <3>2
  <2>. QED
    BY <1>2, <2>8, <2>9, <2>10 DEF Chain
<1>. QED
  BY <1>0, <1>1, <1>3, <1>7, <1>8, FlushIs

LEMMA ChainByScan ==
  ASSUME Base, Chain, IngestNext \/ ScanNext PROVE Chain'
<1>1. ScanInv /\ N \in Nat /\ pos \in 0..N /\ batchStart \in 0..N /\ batchStart <= pos
  BY Constants DEF Base, ScanInv, ScanRanges
<1>2. CASE Scan
  <2>1. PICK p \in 0..N : ScanTo(p)
    BY <1>1, <1>2, ScanStep
  <2>2. batchStart <= p /\ rs' = rs
    BY <1>1, <2>1 DEF ScanTo
  <2>3. (Flush(batchStart, p) /\ batchStart' = p) \/ UNCHANGED <<batchStart, batches>>
    BY <2>1 DEF ScanTo
  <2>. QED
    BY <2>2, <2>3, ChainByFlush, ChainKept
<1>3. CASE TailFlush
  <2>1. rs' = rs /\ batchStart' = pos
        /\ IF batchStart < pos THEN Flush(batchStart, pos) ELSE UNCHANGED <<batches, work>>
    BY <1>3 DEF TailFlush
  <2>2. batchStart < pos \/ batchStart = pos
    BY <1>1
  <2>. QED
    BY <1>1, <2>1, <2>2, ChainByFlush, ChainKept
<1>4. CASE IngestNext
  <2>1. UNCHANGED <<rs, batches, batchStart>>
    BY <1>4 DEF IngestNext, IngestAppend, IngestEnd, IngestFail, IngestEofFd, IngestFlag, notIngest, scanVars
  <2>. QED
    BY <2>1, ChainKept
<1>5. CASE CaptureComplete \/ Pread \/ Judge \/ Wait \/ ScanAborted
  <2>1. UNCHANGED <<rs, batches, batchStart>>
    BY <1>5 DEF CaptureComplete, Pread, Judge, Wait, ScanAborted
  <2>. QED
    BY <2>1, ChainKept
<1>. QED
  BY <1>2, <1>3, <1>4, <1>5 DEF ScanNext

LEMMA ChainNext ==
  ASSUME Base, Chain, [Next \/ Rest]_vars PROVE Chain'
<1>1. CASE UNCHANGED vars
  BY <1>1, ChainKept DEF vars, scanVars
<1>2. CASE IngestNext \/ ScanNext
  BY <1>2, ChainByScan
<1>3. CASE WorkStep \/ Reclaim \/ OrderStep \/ ParentStep \/ Rest
  <2>1. Aside
    BY <1>3, AsideByWork, AsideByRest DEF Base
  <2>. QED
    BY <2>1, ChainKept DEF Aside, scanVars
<1>4. CASE Restart
  <2>1. batches' = <<>> /\ batchStart' = 0 /\ rs'.horizon = ckpt.horizon
    BY <1>4 DEF Restart
  <2>2. ckpt.horizon \in Nat
    BY Constants DEF Base, Accounts, Ledgers
  <2>3. Last' = 0
    BY <2>1 DEF Last
  <2>. QED
    BY <2>1, <2>2, <2>3 DEF Chain
<1>. QED
  BY <1>1, <1>2, <1>3, <1>4 DEF Next, WorkStep, OrderStep, ParentStep

-------------------------------------------------------------------------------
(* Only what ran is acknowledged, and in realtime what ran is out.         *)

Ran(i) == work[i] \in {"half", "done", "lost"}
InPipe(pipe, i) == \E k \in 1..Len(pipe) : pipe[k] = i

Acked ==
  \A i \in 1..Last : i <= nextIdx \/ i \in fallowHeap \/ InPipe(fallowPipe, i) => Ran(i)

RanIsOut ==
  mode = "realtime" => \A i \in 1..Last : Ran(i) => \E k \in 1..Len(out) : out[k] = batches[i]

(* What runs goes from one stage to the next.                              *)
LEMMA RanStays ==
  ASSUME Base, WorkStep \/ Reclaim \/ OrderStep \/ ParentStep \/ Rest
  PROVE  /\ Last' = Last /\ UNCHANGED <<mode, limit, rs, batches>>
         /\ \A i \in 1..Last : Ran(i) => Ran(i)'
<1>1. work \in Seq(Stages) /\ DOMAIN work = 1..Last
  BY BatchFacts DEF Base
<1>2. Last' = Last /\ UNCHANGED <<mode, limit, rs, batches>>
  <2>1. Aside
    BY AsideByWork, AsideByRest DEF Base
  <2>. QED
    BY <2>1 DEF Aside, scanVars, Last
<1>3. ASSUME NEW j \in DOMAIN work, NEW st \in {"running", "half", "done", "lost"},
             work[j] \in {"half", "done", "lost"} => st \in {"half", "done", "lost"},
             work' = [work EXCEPT ![j] = st]
      PROVE  \A i \in 1..Last : Ran(i) => Ran(i)'
  BY <1>1, <1>3 DEF Ran
<1>4. CASE UNCHANGED work
  BY <1>2, <1>4 DEF Ran
<1>5. CASE WorkStep
  <2>1. CASE Claim
    <3>1. PICK j \in DOMAIN work : work[j] = "ready" /\ work' = [work EXCEPT ![j] = "running"]
      BY <2>1 DEF Claim
    <3>. QED
      BY <1>2, <1>3, <3>1
  <2>2. ASSUME NEW j \in DOMAIN work, AckFallow(j) \/ AckOrder(j) \/ AckFails(j) \/ DieRunning(j)
        PROVE  \A i \in 1..Last : Ran(i) => Ran(i)'
    <3>1. \/ work' = [work EXCEPT ![j] = "half"] \/ work' = [work EXCEPT ![j] = "done"]
          \/ work' = [work EXCEPT ![j] = "lost"] \/ work' = work
      BY <2>2 DEF AckFallow, AckOrder, AckFails, DieRunning
    <3>. QED
      BY <1>3, <1>4, <3>1
  <2>. QED
    BY <1>2, <1>5, <2>1, <2>2 DEF WorkStep
<1>6. CASE Reclaim \/ OrderStep
  <2>1. UNCHANGED work
    BY <1>6 DEF Reclaim, OrderStep, OrderTake, OrderEmit, OrderEof, notOrder
  <2>. QED
    BY <1>2, <1>4, <2>1
<1>7. CASE ParentStep \/ Rest
  <2>1. UNCHANGED work \/ \E j \in DOMAIN work : work[j] = "half" /\ work' = [work EXCEPT ![j] = "lost"]
    BY <1>7 DEF ParentStep, ReactorDone, ReactorAbort, RaceDeath, Signal, ExitRun, Rest, vars
  <2>. QED
    BY <1>2, <1>3, <1>4, <2>1
<1>. QED
  BY <1>5, <1>6, <1>7

LEMMA AckedKept ==
  ASSUME Base, Acked, UNCHANGED <<fallowPipe, nextIdx, fallowHeap>>,
         \A i \in 1..Last : Ran(i) => Ran(i)', Last' = Last
  PROVE  Acked'
BY DEF Acked, InPipe

LEMMA AckedNext ==
  ASSUME Base, Acked, [Next \/ Rest]_vars PROVE Acked'
<1>0. /\ Last \in Nat /\ fallowHeap \subseteq 1..Last /\ nextIdx \in 0..Last
      /\ fallowPipe \in Seq(Nat) /\ \A k \in 1..Len(fallowPipe) : fallowPipe[k] \in 1..Last
      /\ DOMAIN work = 1..Last /\ work \in Seq(Stages)
  BY BatchFacts DEF Base, FallowQueue
<1>1. CASE UNCHANGED vars
  BY <1>1 DEF vars, fallowVars, Acked, InPipe, Ran, Last
<1>2. CASE IngestNext \/ ScanNext
  <2>1. Grows /\ ScanInv
    BY <1>2, GrowsByScan DEF Base
  <2>2. UNCHANGED <<fallowPipe, nextIdx, fallowHeap>>
    <3>1. CASE IngestNext
      BY <3>1 DEF IngestNext, IngestAppend, IngestEnd, IngestFail, IngestEofFd, IngestFlag, notIngest,
                  fallowVars
    <3>2. CASE ScanNext
      BY <3>2 DEF ScanNext, CaptureComplete, Pread, Judge, Wait, Scan, TailFlush, ScanAborted, notScan,
                  fallowVars
    <3>. QED
      BY <1>2, <3>1, <3>2
  <2>3. \A i \in 1..Last : work'[i] = work[i]
    BY <2>1, GrowsIs
  <2>4. ASSUME NEW i \in 1..Last', i <= nextIdx \/ i \in fallowHeap \/ InPipe(fallowPipe, i)
        PROVE  i \in 1..Last
    BY <1>0, <2>1, <2>4, GrowsIs DEF InPipe
  <2>5. ASSUME NEW i \in 1..Last', i <= nextIdx' \/ i \in fallowHeap' \/ InPipe(fallowPipe', i)
        PROVE  Ran(i)'
    <3>1. i <= nextIdx \/ i \in fallowHeap \/ InPipe(fallowPipe, i)
      BY <2>2, <2>5 DEF InPipe
    <3>2. i \in 1..Last
      BY <2>4, <3>1
    <3>. QED
      BY <2>3, <3>1, <3>2 DEF Acked, Ran
  <2>. QED
    BY <2>5 DEF Acked, InPipe
<1>3. CASE WorkStep
  <2>1. CASE \E i \in DOMAIN work : AckFallow(i)
    <3>1. PICK j \in 1..Last : AckFallow(j)
      BY <1>0, <2>1
    <3>2. UNCHANGED <<nextIdx, fallowHeap>> /\ fallowPipe' = Append(fallowPipe, j)
          /\ work' = [work EXCEPT ![j] = "half"]
      BY <3>1 DEF AckFallow
    <3>3. Last' = Last /\ \A i \in 1..Last : Ran(i) => Ran(i)'
      BY <1>3, RanStays
    <3>4. Ran(j)'
      BY <1>0, <3>2 DEF Ran
    <3>5. ASSUME NEW i \in 1..Last, InPipe(fallowPipe, i)' PROVE InPipe(fallowPipe, i) \/ i = j
      <4>1. PICK k \in 1..Len(fallowPipe') : fallowPipe'[k] = i
        BY <3>5 DEF InPipe
      <4>2. (k \in 1..Len(fallowPipe) /\ fallowPipe'[k] = fallowPipe[k]) \/ fallowPipe'[k] = j
        BY <1>0, <3>2, <4>1
      <4>. QED
        BY <4>1, <4>2 DEF InPipe
    <3>6. ASSUME NEW i \in 1..Last, i <= nextIdx' \/ i \in fallowHeap' \/ InPipe(fallowPipe, i)' PROVE Ran(i)'
      <4>1. i <= nextIdx \/ i \in fallowHeap \/ InPipe(fallowPipe, i) \/ i = j
        BY <3>2, <3>5, <3>6
      <4>. QED
        BY <3>3, <3>4, <4>1 DEF Acked
    <3>. QED
      BY <3>3, <3>6 DEF Acked
  <2>2. CASE Claim \/ \E i \in DOMAIN work : AckOrder(i) \/ AckFails(i) \/ DieRunning(i)
    <3>1. UNCHANGED <<fallowPipe, nextIdx, fallowHeap>>
      BY <2>2 DEF Claim, AckOrder, AckFails, DieRunning, fallowVars
    <3>. QED
      BY <1>3, <3>1, RanStays, AckedKept
  <2>. QED
    BY <1>3, <2>1, <2>2 DEF WorkStep
<1>4. CASE Reclaim
  <2>1. PICK k \in Nat, acked \in SUBSET (1..Last) :
           /\ nextIdx <= k /\ k <= Last /\ nextIdx + 1..k \subseteq acked /\ k + 1 \notin acked
           /\ acked = fallowHeap \cup {fallowPipe[1]}
           /\ nextIdx' = k /\ fallowHeap' = acked \ (1..k)
           /\ fallowBytes' = IF k > nextIdx THEN batches[k][2] ELSE fallowBytes
           /\ Len(fallowPipe) > 0 /\ fallowPipe' = Tail(fallowPipe) /\ fallowPipe[1] \in 1..Last
    BY <1>4, ReclaimStep DEF Base
  <2>2. Last' = Last /\ \A i \in 1..Last : Ran(i) => Ran(i)'
    BY <1>4, RanStays
  <2>3. \A i \in acked : Ran(i)
    BY <1>0, <2>1 DEF Acked, InPipe
  <2>4. ASSUME NEW i \in 1..Last, i <= nextIdx' \/ i \in fallowHeap' \/ InPipe(fallowPipe, i)' PROVE Ran(i)
    <3>1. CASE i <= nextIdx'
      <4>1. i <= nextIdx \/ i \in nextIdx + 1..k
        BY <1>0, <2>1, <3>1
      <4>. QED
        BY <2>1, <2>3, <4>1 DEF Acked
    <3>2. CASE i \in fallowHeap'
      BY <2>1, <2>3, <3>2
    <3>3. CASE InPipe(fallowPipe, i)'
      <4>1. PICK j \in 1..Len(fallowPipe') : fallowPipe'[j] = i
        BY <3>3 DEF InPipe
      <4>2. j + 1 \in 1..Len(fallowPipe) /\ fallowPipe[j + 1] = i
        BY <1>0, <2>1, <4>1, TailIs
      <4>. QED
        BY <4>2 DEF Acked, InPipe
    <3>. QED
      BY <2>4, <3>1, <3>2, <3>3
  <2>. QED
    BY <2>2, <2>4 DEF Acked
<1>5. CASE OrderStep \/ ParentStep \/ Rest
  <2>1. UNCHANGED <<fallowPipe, nextIdx, fallowHeap>>
    <3>1. CASE OrderStep
      BY <3>1 DEF OrderStep, OrderTake, OrderEmit, OrderEof, notOrder, fallowVars
    <3>2. CASE ParentStep \/ Rest
      BY <3>2 DEF ParentStep, ReactorDone, ReactorAbort, RaceDeath, Signal, ExitRun, Rest, notParent, vars,
                  fallowVars
    <3>. QED
      BY <1>5, <3>1, <3>2
  <2>. QED
    BY <1>5, <2>1, RanStays, AckedKept
<1>6. CASE Restart
  <2>1. Last' = 0
    BY <1>6 DEF Restart, Last
  <2>. QED
    BY <2>1 DEF Acked
<1>. QED
  BY <1>1, <1>2, <1>3, <1>4, <1>5, <1>6 DEF Next, WorkStep, OrderStep, ParentStep

(* Blocks stay in the output; in a mode that emits it is the orderer that  *)
(* adds one, with its bytes in the ledger.                                 *)
Output == OutputBytes(Len(out))

LEMMA OutputIs ==
  ASSUME ScanInv, Accounts, NEW i \in 1..Last, out' = Append(out, batches[i])
  PROVE  Output' = Output \cup Bytes(batches[i])
<1>1. /\ Len(out') = Len(out) + 1 /\ Len(out) \in Nat
      /\ \A k \in 1..Len(out) : out'[k] = out[k]
      /\ out'[Len(out) + 1] = batches[i]
  BY OutIs
<1>2. PICK n \in Nat : n = Len(out)
  BY <1>1
<1>3. {out'[k] : k \in 1..n + 1} = {out[k] : k \in 1..n} \cup {batches[i]}
  <2>1. \A k \in 1..n + 1 : k \in 1..n \/ k = n + 1
    OBVIOUS
  <2>2. \A k \in 1..n : k \in 1..n + 1
    OBVIOUS
  <2>3. n + 1 \in 1..n + 1
    OBVIOUS
  <2>. QED
    BY <1>1, <1>2, <2>1, <2>2, <2>3
<1>4. Output' = Covered({out'[k] : k \in 1..n + 1})
  BY <1>1, <1>2 DEF Output, OutputBytes, Covered, Bytes
<1>5. Output = Covered({out[k] : k \in 1..n})
  BY <1>2 DEF Output, OutputBytes
<1>6. \A S, iv : Covered(S \cup {iv}) = Covered(S) \cup Bytes(iv)
  BY DEF Covered
<1>. QED
  BY <1>3, <1>4, <1>5, <1>6

LEMMA OutputKept ==
  ASSUME UNCHANGED out PROVE Output' = Output
BY DEF Output, OutputBytes, Covered, Bytes

LEMMA RanIsOutNext ==
  ASSUME Base, RanIsOut, [Next \/ Rest]_vars PROVE RanIsOut'
<1>0. Last \in Nat /\ DOMAIN work = 1..Last /\ work \in Seq(Stages) /\ ScanInv /\ Accounts
  BY BatchFacts DEF Base
<1>1. ASSUME UNCHANGED <<mode, batches, out>>, \A i \in 1..Last : Ran(i)' => Ran(i) PROVE RanIsOut'
  BY <1>1 DEF RanIsOut, Last
<1>2. CASE UNCHANGED vars
  BY <1>2 DEF vars, orderVars, RanIsOut, Ran, Last
<1>3. CASE IngestNext \/ ScanNext
  <2>1. UNCHANGED <<mode, out>>
    <3>1. CASE IngestNext
      BY <3>1 DEF IngestNext, IngestAppend, IngestEnd, IngestFail, IngestEofFd, IngestFlag, notIngest,
                  orderVars
    <3>2. CASE ScanNext
      BY <3>2 DEF ScanNext, CaptureComplete, Pread, Judge, Wait, Scan, TailFlush, ScanAborted, notScan,
                  orderVars
    <3>. QED
      BY <1>3, <3>1, <3>2
  <2>2. Grows
    BY <1>0, <1>3, GrowsByScan
  <2>3. /\ Last \in Nat /\ Last' \in Nat /\ Last' <= Last + 1
        /\ \A i \in 1..Last : batches'[i] = batches[i] /\ work'[i] = work[i]
        /\ Last' # Last => work'[Last'] = "ready" /\ Last' = Last + 1
    BY <1>0, <2>2, GrowsIs
  <2>4. ASSUME mode = "realtime", NEW i \in 1..Last', Ran(i)'
        PROVE  \E k \in 1..Len(out') : out'[k] = batches'[i]
    <3>1. i \in 1..Last
      BY <2>3, <2>4 DEF Ran
    <3>2. Ran(i)
      BY <2>3, <2>4, <3>1 DEF Ran
    <3>. QED
      BY <2>1, <2>3, <2>4, <3>1, <3>2 DEF RanIsOut
  <2>. QED
    BY <2>1, <2>4 DEF RanIsOut
<1>4. CASE WorkStep
  <2>1. CASE Claim
    <3>1. PICK j \in DOMAIN work : work' = [work EXCEPT ![j] = "running"]
      BY <2>1 DEF Claim
    <3>2. \A i \in 1..Last : Ran(i)' => Ran(i)
      BY <1>0, <3>1 DEF Ran
    <3>. QED
      BY <1>1, <2>1, <3>2 DEF Claim, notWork, orderVars
  <2>2. ASSUME NEW j \in 1..Last, AckOrder(j) \/ AckFails(j) PROVE RanIsOut'
    <3>1. UNCHANGED <<mode, batches, out>>
      BY <2>2 DEF AckOrder, AckFails, notWork, orderVars
    <3>2. work[j] = "half" /\ (work' = [work EXCEPT ![j] = "done"] \/ work' = [work EXCEPT ![j] = "lost"])
      BY <2>2 DEF AckOrder, AckFails
    <3>3. \A i \in 1..Last : Ran(i)' => Ran(i)
      BY <1>0, <3>2 DEF Ran
    <3>. QED
      BY <1>1, <3>1, <3>3
  <2>3. ASSUME NEW j \in 1..Last, AckFallow(j) \/ DieRunning(j) PROVE RanIsOut'
    <3>1. UNCHANGED <<mode, batches>> /\ (mode = "realtime" => out' = Append(out, batches[j]))
          /\ (work' = work \/ work' = [work EXCEPT ![j] = "half"])
      BY <2>3 DEF AckFallow, DieRunning, notWork, Direct
    <3>. SUFFICES ASSUME mode = "realtime", NEW i \in 1..Last, Ran(i)'
                  PROVE  \E k \in 1..Len(out') : out'[k] = batches[i]
      BY <3>1 DEF RanIsOut, Last
    <3>2. /\ Len(out') = Len(out) + 1 /\ Len(out) \in Nat
          /\ \A k \in 1..Len(out) : out'[k] = out[k]
          /\ out'[Len(out) + 1] = batches[j]
      BY <1>0, <3>1, OutIs
    <3>3. CASE i = j
      <4>1. Len(out) + 1 \in 1..Len(out')
        BY <3>2
      <4>. QED
        BY <3>2, <3>3, <4>1
    <3>4. CASE i # j
      <4>1. Ran(i)
        BY <1>0, <3>1, <3>4 DEF Ran
      <4>2. PICK k \in 1..Len(out) : out[k] = batches[i]
        BY <4>1 DEF RanIsOut
      <4>3. k \in 1..Len(out')
        BY <3>2
      <4>. QED
        BY <3>2, <4>2, <4>3
    <3>. QED
      BY <3>3, <3>4
  <2>. QED
    BY <1>0, <1>4, <2>1, <2>2, <2>3 DEF WorkStep
<1>5. CASE Reclaim
  BY <1>1, <1>5 DEF Reclaim, notWork, orderVars, Ran
<1>6. CASE OrderStep
  <2>1. mode # "realtime" /\ mode' = mode
    BY <1>6, RanStays DEF OrderStep, OrderTake, OrderEmit, OrderEof, Base, Accounts
  <2>. QED
    BY <2>1 DEF RanIsOut
<1>7. CASE ParentStep \/ Rest
  <2>1. UNCHANGED <<mode, batches, out>>
    BY <1>7 DEF ParentStep, ReactorDone, ReactorAbort, RaceDeath, Signal, ExitRun, Rest, notParent, vars,
                orderVars
  <2>2. UNCHANGED work \/ \E j \in DOMAIN work : work[j] = "half" /\ work' = [work EXCEPT ![j] = "lost"]
    BY <1>7 DEF ParentStep, ReactorDone, ReactorAbort, RaceDeath, Signal, ExitRun, Rest, vars
  <2>3. \A i \in 1..Last : Ran(i)' => Ran(i)
    BY <1>0, <2>2 DEF Ran
  <2>. QED
    BY <1>1, <2>1, <2>3
<1>8. CASE Restart
  <2>1. Last' = 0
    BY <1>8 DEF Restart, Last
  <2>. QED
    BY <2>1 DEF RanIsOut
<1>. QED
  BY <1>2, <1>3, <1>4, <1>5, <1>6, <1>7, <1>8 DEF Next, WorkStep, OrderStep, ParentStep

-------------------------------------------------------------------------------
(* The checkpoint. *)

Reported ==
  ~fellBack =>
    /\ LedgerBytes(tracker) \subseteq Output /\ LedgerBytes(ledger) \subseteq Output
    /\ outcome = "failed" => LedgerBytes(ckpt) \subseteq Output

(* As long as all intervals fit.                                           *)
AllReported ==
  mode # "realtime" =>
    /\ Output \subseteq LedgerBytes(tracker) /\ ledger = tracker
    /\ outcome = "failed" => Output \subseteq LedgerBytes(ckpt)

Books == Base /\ Chain /\ Acked /\ RanIsOut /\ Reported

LEMMA LedgerKept ==
  ASSUME UNCHANGED <<mode, outcome, fellBack, tracker, ledger, ckpt>>, Output \subseteq Output', Reported
  PROVE  Reported'
BY DEF Reported, LedgerBytes, Covered, Bytes

(* The steps that leave ledger and checkpoint alone.                       *)
Unaccounted ==
  UNCHANGED <<mode, outcome, fellBack, tracker, ledger, ckpt>> /\
  (UNCHANGED out \/ (mode = "realtime" /\ \E i \in 1..Last : out' = Append(out, batches[i])))

LEMMA UnaccountedOut ==
  ASSUME Base, Unaccounted
  PROVE  Output \subseteq Output' /\ (mode # "realtime" => Output' = Output)
<1>1. CASE UNCHANGED out
  BY <1>1, OutputKept
<1>2. ASSUME NEW i \in 1..Last, out' = Append(out, batches[i]), mode = "realtime"
      PROVE  Output \subseteq Output' /\ (mode # "realtime" => Output' = Output)
  BY <1>2, OutputIs DEF Base
<1>. QED
  BY <1>1, <1>2 DEF Unaccounted

LEMMA UnaccountedIs ==
  ASSUME Base, IngestNext \/ ScanNext \/ WorkStep \/ Reclaim \/ OrderEof \/ ReactorDone \/ ReactorAbort
               \/ RaceDeath \/ Signal \/ UNCHANGED vars
  PROVE  Unaccounted
<1>0. DOMAIN work = 1..Last
  BY BatchFacts DEF Base
<1>1. CASE IngestNext
  BY <1>1 DEF IngestNext, IngestAppend, IngestEnd, IngestFail, IngestEofFd, IngestFlag, notIngest,
              orderVars, userVars, Unaccounted
<1>2. CASE ScanNext
  BY <1>2 DEF ScanNext, CaptureComplete, Pread, Judge, Wait, Scan, TailFlush, ScanAborted, notScan,
              orderVars, userVars, Unaccounted
<1>3. CASE WorkStep
  <2>1. CASE Claim
    BY <2>1 DEF Claim, notWork, orderVars, userVars, Unaccounted
  <2>2. ASSUME NEW i \in 1..Last, AckFallow(i) \/ AckOrder(i) \/ AckFails(i) \/ DieRunning(i)
        PROVE  Unaccounted
    <3>1. UNCHANGED <<mode, outcome, fellBack, tracker, ledger, ckpt>>
      BY <2>2 DEF AckFallow, AckOrder, AckFails, DieRunning, notWork, orderVars, userVars
    <3>2. UNCHANGED out \/ (mode = "realtime" /\ out' = Append(out, batches[i]))
      BY <2>2 DEF AckFallow, AckOrder, AckFails, DieRunning, orderVars, Direct
    <3>. QED
      BY <3>1, <3>2 DEF Unaccounted
  <2>. QED
    BY <1>0, <1>3, <2>1, <2>2 DEF WorkStep
<1>4. CASE Reclaim
  BY <1>4 DEF Reclaim, notWork, orderVars, userVars, Unaccounted
<1>5. CASE OrderEof
  BY <1>5 DEF OrderEof, notOrder, notWork, userVars, Unaccounted
<1>6. CASE ReactorDone \/ ReactorAbort \/ RaceDeath \/ Signal
  BY <1>6 DEF ReactorDone, ReactorAbort, RaceDeath, Signal, notParent, orderVars, Unaccounted
<1>7. CASE UNCHANGED vars
  BY <1>7 DEF vars, orderVars, userVars, Unaccounted
<1>. QED
  BY <1>1, <1>2, <1>3, <1>4, <1>5, <1>6, <1>7

Emits(i) ==
  /\ i \in 1..Last /\ Emit(i) /\ mode # "realtime" /\ outcome = "running"
  /\ UNCHANGED <<mode, limit, rs, batches, outcome, fellBack, ckpt>>

LEMMA LeastDueIs ==
  ASSUME Base, OrderEmit PROVE LeastDue \in heap /\ \A j \in heap : LeastDue <= j
<1>1. heap \in SUBSET Nat /\ heap # {}
  BY BatchFacts DEF Base, OrderQueue, OrderEmit, Due
<1>2. \E x \in heap : \A y \in heap : x <= y
  BY <1>1, Least
<1>. QED
  BY <1>2 DEF LeastDue

LEMMA OrderIs ==
  ASSUME Base, OrderStep PROVE Unaccounted \/ \E i \in 1..Last : Emits(i)
<1>1. UNCHANGED <<mode, limit, rs, batches, outcome, fellBack, ckpt>> /\ outcome = "running" /\ mode # "realtime"
  <2>1. outcome = "running" /\ orderer = "run"
    BY DEF OrderStep, OrderTake, OrderEmit, OrderEof
  <2>2. UNCHANGED <<mode, limit, rs, batches, outcome, fellBack, ckpt>>
    BY DEF OrderStep, OrderTake, OrderEmit, OrderEof, notOrder, notWork, scanVars, userVars
  <2>. QED
    BY <2>1, <2>2 DEF Base, Accounts
<1>2. ASSUME NEW i \in 1..Last, Emit(i) \/ EmitFails(i) PROVE Unaccounted \/ Emits(i)
  BY <1>1, <1>2 DEF EmitFails, Unaccounted, Emits
<1>3. CASE OrderTake
  <2>1. Head(orderPipe) \in 1..Last
    BY <1>3 DEF OrderTake, Base, OrderQueue
  <2>2. \/ UNCHANGED <<tracker, ledger, out>>
        \/ \E i \in 1..Last : Emit(i) \/ EmitFails(i)
    BY <1>3, <2>1 DEF OrderTake
  <2>3. UNCHANGED <<tracker, ledger, out>> => Unaccounted
    BY <1>1 DEF Unaccounted
  <2>. QED
    BY <1>2, <2>2, <2>3
<1>4. CASE OrderEmit
  <2>1. PICK i : i = LeastDue /\ (Emit(i) \/ EmitFails(i))
    BY <1>4 DEF OrderEmit
  <2>2. i \in 1..Last
    BY <1>4, <2>1, LeastDueIs DEF Base, OrderQueue
  <2>. QED
    BY <1>2, <2>1, <2>2
<1>5. CASE OrderEof
  BY <1>5, UnaccountedIs
<1>. QED
  BY <1>3, <1>4, <1>5 DEF OrderStep

(* The bytes of one more block are in the ledger that tracked it.          *)
LEMMA EmitsIs ==
  ASSUME Base, NEW i \in 1..Last, Emits(i)
  PROVE  /\ Output' = Output \cup Bytes(batches[i])
         /\ tracker' = Track(tracker, batches[i]) /\ tracker' \in Ledgers
         /\ LedgerBytes(tracker)' = LedgerBytes(tracker) \cup Bytes(batches[i])
         /\ LedgerBytes(ledger)' \subseteq LedgerBytes(tracker)'
         /\ Cardinality(tracker'.jagged) <= JaggedCap => ledger' = tracker'
         /\ tracker'.jagged = {} => ledger' = tracker'
         /\ ledger'.horizon = tracker'.horizon
<1>1. /\ out' = Append(out, batches[i]) /\ tracker' = Track(tracker, batches[i])
      /\ ledger' \in Published(tracker')
  BY DEF Emits, Emit
<1>2. batches[i] \in Ivals /\ tracker \in Ledgers
  BY BatchFacts DEF Base, Accounts
<1>3. PICK b \in Ivals : b = batches[i]
  BY <1>2
<1>4. tracker' \in Ledgers /\ LedgerBytes(Track(tracker, b)) = LedgerBytes(tracker) \cup Bytes(b)
  BY <1>1, <1>2, <1>3, TrackIs
<1>5a. PICK led \in Ledgers : led = tracker'
  BY <1>4
<1>5. PICK pub \in Published(led) : led = tracker' /\ pub = ledger'
  BY <1>1, <1>5a
<1>6. /\ pub.horizon = led.horizon /\ pub.jagged \subseteq led.jagged
      /\ Cardinality(led.jagged) <= JaggedCap => pub = led
      /\ led.jagged = {} => pub = led
  BY PublishedIs
<1>7. LedgerBytes(pub) \subseteq LedgerBytes(led)
  BY <1>6 DEF LedgerBytes, Covered
<1>8. LedgerBytes(tracker)' = LedgerBytes(led) /\ LedgerBytes(ledger)' = LedgerBytes(pub)
  BY <1>5 DEF LedgerBytes, Covered, Bytes
<1>9. LedgerBytes(led) = LedgerBytes(tracker) \cup Bytes(b)
  BY <1>1, <1>3, <1>4, <1>5
<1>10. Output' = Output \cup Bytes(b)
  BY <1>1, <1>3, OutputIs DEF Base
<1>. QED
  BY <1>1, <1>3, <1>4, <1>5, <1>6, <1>7, <1>8, <1>9, <1>10

(* In realtime the acknowledged prefix is out.                             *)
LEMMA FallowIsOut ==
  ASSUME Base, Chain, Acked, RanIsOut, mode = "realtime", TakesFallow
  PROVE  0..fallowBytes-1 \subseteq Output
<1>1. rs.horizon = 0 /\ rs.jagged = {} /\ fallowBytes > 0
  BY DEF Base, Accounts, TakesFallow
<1>2. nextIdx \in 0..Last /\ Last \in Nat /\ fallowBytes = IF nextIdx = 0 THEN 0 ELSE batches[nextIdx][2]
  BY BatchFacts DEF Base, FallowQueue
<1>3. nextIdx \in 1..Last /\ fallowBytes = batches[nextIdx][2]
  BY <1>1, <1>2
<1>. SUFFICES ASSUME NEW b \in 0..fallowBytes-1 PROVE b \in Output
  OBVIOUS
<1>4. PICK j \in 1..nextIdx : b \in Bytes(batches[j])
  BY <1>1, <1>3 DEF Chain
<1>5. j \in 1..Last /\ j <= nextIdx
  BY <1>2, <1>3
<1>6. PICK k \in 1..Len(out) : out[k] = batches[j]
  BY <1>5 DEF Acked, RanIsOut
<1>7. out[k] \in {out[i] : i \in 1..Len(out)}
  OBVIOUS
<1>. QED
  BY <1>4, <1>6, <1>7 DEF Output, OutputBytes, Covered

LEMMA ReportedNext ==
  ASSUME Books, [Next \/ Rest]_vars PROVE Reported'
<1>0. Base /\ Chain /\ Acked /\ RanIsOut /\ Reported
  BY DEF Books
<1>1. CASE Unaccounted
  BY <1>0, <1>1, UnaccountedOut, LedgerKept DEF Unaccounted
<1>2. ASSUME NEW i \in 1..Last, Emits(i) PROVE Reported'
  <2>1. fellBack' = fellBack /\ outcome' = "running"
    BY <1>2 DEF Emits
  <2>2. /\ Output' = Output \cup Bytes(batches[i])
        /\ LedgerBytes(tracker)' = LedgerBytes(tracker) \cup Bytes(batches[i])
        /\ LedgerBytes(ledger)' \subseteq LedgerBytes(tracker)'
    BY <1>0, <1>2, EmitsIs
  <2>3. ~fellBack => LedgerBytes(tracker)' \subseteq Output'
    BY <1>0, <2>2 DEF Reported
  <2>. QED
    BY <2>1, <2>2, <2>3 DEF Reported
<1>3. CASE ExitRun
  <2>1. UNCHANGED <<mode, tracker, ledger, out>>
    BY <1>3 DEF ExitRun, orderVars
  <2>2. Output' = Output
    BY <2>1, OutputKept
  <2>3. LedgerBytes(tracker)' = LedgerBytes(tracker) /\ LedgerBytes(ledger)' = LedgerBytes(ledger)
    BY <2>1 DEF LedgerBytes, Covered, Bytes
  <2>4. CASE outcome' = "ok" /\ UNCHANGED <<ckpt, fellBack>>
    BY <1>0, <2>2, <2>3, <2>4 DEF Reported
  <2>5. CASE /\ outcome' = "failed" /\ ckpt' = Checkpoint
             /\ fellBack' = (fellBack \/ (mode # "realtime" /\ TakesFallow))
    <3>. SUFFICES ASSUME ~fellBack' PROVE Reported'
      BY DEF Reported
    <3>1. ~fellBack /\ (mode = "realtime" \/ ~TakesFallow)
      BY <2>5
    <3>2. LedgerBytes(ckpt)' = LedgerBytes(Checkpoint)
      BY <2>5 DEF LedgerBytes, Covered, Bytes
    <3>3. LedgerBytes(ledger) \subseteq Output /\ LedgerBytes(tracker) \subseteq Output
      BY <1>0, <3>1 DEF Reported
    <3>4. TakesFallow => 0..fallowBytes-1 \subseteq Output
      BY <1>0, <3>1, FallowIsOut
    <3>5. LedgerBytes(Checkpoint) \subseteq Output
      BY <1>0, <3>3, <3>4, CheckpointIs
    <3>. QED
      BY <2>2, <2>3, <3>2, <3>3, <3>5 DEF Reported
  <2>. QED
    BY <1>3, <2>4, <2>5 DEF ExitRun
<1>4. CASE Restart
  <2>1. /\ tracker' = ckpt /\ ledger' = ckpt /\ ckpt' = ckpt /\ outcome = "failed" /\ outcome' = "running"
        /\ fellBack' = fellBack
    BY <1>4 DEF Restart
  <2>2. Output' = Output
    BY <1>0, <1>4, RestartKeepsOut, OutputKept
  <2>3. LedgerBytes(tracker)' = LedgerBytes(ckpt) /\ LedgerBytes(ledger)' = LedgerBytes(ckpt)
    BY <2>1 DEF LedgerBytes, Covered, Bytes
  <2>. QED
    BY <1>0, <2>1, <2>2, <2>3 DEF Reported
<1>5. CASE IngestNext \/ ScanNext \/ WorkStep \/ Reclaim \/ ReactorDone \/ ReactorAbort \/ RaceDeath \/ Signal
           \/ UNCHANGED vars \/ Rest
  BY <1>0, <1>1, <1>5, UnaccountedIs DEF Rest
<1>6. CASE OrderStep
  BY <1>0, <1>1, <1>2, <1>6, OrderIs
<1>. QED
  BY <1>3, <1>4, <1>5, <1>6 DEF Next, WorkStep, OrderStep, ParentStep

LEMMA BooksCorrect == Spec => []Books
<1>1. Init => Books
  <2>. SUFFICES ASSUME Init PROVE Books
    OBVIOUS
  <2>1. Base
    BY BaseInit
  <2>2. Last = 0 /\ batchStart = 0 /\ rs.horizon = 0 /\ tracker = EmptyLedger /\ ledger = EmptyLedger
        /\ outcome = "running"
    BY DEF Init, Last
  <2>3. LedgerBytes(EmptyLedger) = {}
    BY DEF LedgerBytes, EmptyLedger, Covered
  <2>4. Chain /\ Acked /\ RanIsOut
    BY <2>2 DEF Chain, Acked, RanIsOut
  <2>5. Reported
    BY <2>2, <2>3 DEF Reported
  <2>. QED
    BY <2>1, <2>4, <2>5 DEF Books
<1>2. Books /\ [Next \/ Rest]_vars => Books'
  BY BaseNext, ChainNext, AckedNext, RanIsOutNext, ReportedNext DEF Books
<1>. QED
  BY <1>1, <1>2, PTL DEF Spec

(* The ledger was never cut short.                                         *)
Fits == Cardinality(tracker.jagged) <= JaggedCap

LEMMA AllReportedNext ==
  ASSUME Books, AllReported, Fits', [Next \/ Rest]_vars PROVE AllReported'
<1>0. Base
  BY DEF Books
<1>1. CASE Unaccounted
  BY <1>0, <1>1, UnaccountedOut DEF Unaccounted, AllReported, LedgerBytes, Covered, Bytes
<1>2. ASSUME NEW i \in 1..Last, Emits(i) PROVE AllReported'
  <2>1. fellBack' = fellBack /\ outcome' = "running" /\ mode' = mode
    BY <1>2 DEF Emits
  <2>2. /\ Output' = Output \cup Bytes(batches[i])
        /\ LedgerBytes(tracker)' = LedgerBytes(tracker) \cup Bytes(batches[i])
        /\ ledger' = tracker'
    BY <1>0, <1>2, EmitsIs DEF Fits
  <2>. QED
    BY <2>1, <2>2 DEF AllReported
<1>3. CASE ExitRun
  <2>1. UNCHANGED <<mode, tracker, ledger, out>>
    BY <1>3 DEF ExitRun, orderVars
  <2>2. Output' = Output
    BY <2>1, OutputKept
  <2>3. LedgerBytes(tracker)' = LedgerBytes(tracker)
    BY <2>1 DEF LedgerBytes, Covered, Bytes
  <2>4. fellBack => fellBack'
    BY <1>3 DEF ExitRun
  <2>5. CASE outcome' = "ok"
    BY <2>1, <2>2, <2>3, <2>4, <2>5 DEF AllReported
  <2>6. CASE outcome' = "failed" /\ ckpt' = Checkpoint
    <3>1. LedgerBytes(ckpt)' = LedgerBytes(Checkpoint)
      BY <2>6 DEF LedgerBytes, Covered, Bytes
    <3>2. LedgerBytes(ledger) \subseteq LedgerBytes(Checkpoint)
      BY <1>0, CheckpointIs
    <3>. QED
      BY <2>1, <2>2, <2>3, <2>4, <2>6, <3>1, <3>2 DEF AllReported
  <2>. QED
    BY <1>3, <2>5, <2>6 DEF ExitRun
<1>4. CASE Restart
  <2>1. /\ tracker' = ckpt /\ ledger' = ckpt /\ ckpt' = ckpt /\ outcome = "failed" /\ outcome' = "running"
        /\ fellBack' = fellBack /\ mode' = mode
    BY <1>4 DEF Restart
  <2>2. Output' = Output
    BY <1>0, <1>4, RestartKeepsOut, OutputKept
  <2>3. LedgerBytes(tracker)' = LedgerBytes(ckpt)
    BY <2>1 DEF LedgerBytes, Covered, Bytes
  <2>. QED
    BY <2>1, <2>2, <2>3 DEF AllReported
<1>5. CASE IngestNext \/ ScanNext \/ WorkStep \/ Reclaim \/ ReactorDone \/ ReactorAbort \/ RaceDeath \/ Signal
           \/ UNCHANGED vars \/ Rest
  BY <1>0, <1>1, <1>5, UnaccountedIs DEF Rest
<1>6. CASE OrderStep
  BY <1>0, <1>1, <1>2, <1>6, OrderIs
<1>. QED
  BY <1>3, <1>4, <1>5, <1>6 DEF Next, WorkStep, OrderStep, ParentStep

(* A checkpoint never reports a byte that the kept output does not hold,   *)
(* in any mode, however often the pipeline was resumed                     *)
(* (TRACK_COMPLETED_BATCH, ring_dump_resume).                              *)
CheckpointSound ==
  outcome = "failed" /\ ~fellBack =>
    LedgerBytes(ckpt) \subseteq OutputBytes(IF mode = "realtime" THEN Len(out) ELSE ckpt.bytes)

LEMMA CheckpointLength ==
  ASSUME Base, outcome = "failed", mode # "realtime" PROVE ckpt.bytes = Len(out)
BY DEF Base, Accounts

(* CheckpointSound holds at any time, also where the shared ledger         *)
(* overflows and a checkpoint keeps only some of the intervals.            *)
THEOREM CheckpointSoundCorrect == Spec => []CheckpointSound
<1>1. ASSUME Books PROVE CheckpointSound
  <2>. SUFFICES ASSUME outcome = "failed", ~fellBack
       PROVE  LedgerBytes(ckpt) \subseteq OutputBytes(IF mode = "realtime" THEN Len(out) ELSE ckpt.bytes)
    BY DEF CheckpointSound
  <2>1. LedgerBytes(ckpt) \subseteq OutputBytes(Len(out))
    BY <1>1 DEF Books, Reported, Output
  <2>2. mode # "realtime" => ckpt.bytes = Len(out)
    BY <1>1, CheckpointLength DEF Books
  <2>3. (IF mode = "realtime" THEN Len(out) ELSE ckpt.bytes) = Len(out)
    BY <2>2
  <2>. QED
    BY ONLY <2>1, <2>3
<1>. QED
  BY <1>1, BooksCorrect, PTL

(* What a checkpoint reports as done is what the kept part of the output   *)
(* holds, not a byte more or less, in every run whose completed-but-not-   *)
(* contiguous batches fit the shared ledger; where they do not fit, a      *)
(* checkpoint reports less (CheckpointSound).                              *)
THEOREM CheckpointExactCorrect == Spec /\ []Fits => []CheckpointExact
<1>1. Init => AllReported
  <2>. SUFFICES ASSUME Init PROVE AllReported
    OBVIOUS
  <2>1. out = <<>> /\ tracker = ledger /\ outcome = "running"
    BY DEF Init
  <2>2. Output = {}
    BY <2>1 DEF Output, OutputBytes, Covered
  <2>. QED
    BY <2>1, <2>2 DEF AllReported
<1>2. Books /\ AllReported /\ Fits' /\ [Next \/ Rest]_vars => AllReported'
  BY AllReportedNext
<1>3. Books /\ AllReported => CheckpointExact
  <2>. SUFFICES ASSUME Books, AllReported, outcome = "failed", ~fellBack
       PROVE  IF mode = "realtime" THEN LedgerBytes(ckpt) \subseteq OutputBytes(Len(out))
              ELSE LedgerBytes(ckpt) = OutputBytes(ckpt.bytes)
    BY DEF CheckpointExact
  <2>1. LedgerBytes(ckpt) \subseteq OutputBytes(Len(out))
    BY DEF Books, Reported, Output
  <2>2. CASE mode = "realtime"
    BY <2>1, <2>2
  <2>3. CASE mode # "realtime"
    <3>1. ckpt.bytes = Len(out) /\ OutputBytes(Len(out)) \subseteq LedgerBytes(ckpt)
      BY <2>3, CheckpointLength DEF Books, AllReported, Output
    <3>2. LedgerBytes(ckpt) = OutputBytes(Len(out))
      BY <2>1, <3>1
    <3>3. LedgerBytes(ckpt) = OutputBytes(ckpt.bytes)
      BY ONLY <3>1, <3>2
    <3>. QED
      BY <2>3, <3>3
  <2>. QED
    BY <2>2, <2>3
<1>. QED
  BY <1>1, <1>2, <1>3, BooksCorrect, PTL DEF Spec

-------------------------------------------------------------------------------
(* The ordered mode: what is out is a gapless prefix of what was published *)
(* and the orderer waits for the batch that follows it.                    *)

InOrder(i) == i \in heap \/ InPipe(orderPipe, i)
Healthy == orderer = "run" \/ alarm = 0

OneAfterTheOther ==
  mode = "ordered" =>
    /\ rs.jagged = {} /\ tracker.jagged = {} /\ ledger = tracker
    /\ outcome = "failed" => /\ ckpt.jagged = {}
                             /\ Len(out) > 0 \/ ~fellBack => ckpt.horizon = tracker.horizon
    /\ \A i \in 1..Len(out) : out[i][2] <= tracker.horizon
    /\ \A i \in 1..Len(out) : i # 1 => out[i][1] = out[i - 1][2]
    /\ Len(out) > 0 => tracker.horizon = out[Len(out)][2]
    /\ ~fellBack => (Len(out) = 0 => tracker.horizon = 0) /\ (Len(out) > 0 => out[1][1] = 0)

Waiting ==
  mode = "ordered" =>
    /\ \A i \in 1..Last : InOrder(i) => work[i] = "done"
    /\ \A j, k \in 1..Len(orderPipe) : orderPipe[j] = orderPipe[k] => j = k
    /\ \A k \in 1..Len(orderPipe) : orderPipe[k] \notin heap
    /\ ~synced => expected = 1

Turn ==
  mode = "ordered" /\ Healthy =>
    /\ expected \in 1..Last+1 /\ tracker.horizon = Before(expected)
    /\ \A i \in 1..Last : InOrder(i) => expected <= i
    /\ \A i \in 1..Last : i < expected => work[i] = "done"
    /\ \A i \in 1..Last : expected <= i /\ work[i] = "done" => InOrder(i)

Ordered == OneAfterTheOther /\ Waiting /\ Turn

LEMMA AfterTheOtherKept ==
  ASSUME OneAfterTheOther, UNCHANGED <<mode, rs, tracker, ledger, out, outcome, ckpt, fellBack>>
  PROVE  OneAfterTheOther'
BY DEF OneAfterTheOther

(* Steps that neither finish a batch nor touch the orderer.                *)
LEMMA TurnKept ==
  ASSUME Base, Waiting, Turn, UNCHANGED <<mode, rs, orderPipe, heap, expected, synced, tracker>>,
         Healthy' => Healthy,
         Last' \in Nat, Last <= Last', \A i \in 1..Last : batches'[i] = batches[i],
         \A i \in 1..Last : work'[i] = "done" <=> work[i] = "done",
         \A i \in 1..Last' : i \in 1..Last \/ work'[i] # "done"
  PROVE  Waiting' /\ Turn'
<1>0. /\ Last \in Nat /\ heap \subseteq 1..Last
      /\ \A k \in 1..Len(orderPipe) : orderPipe[k] \in 1..Last
  BY BatchFacts DEF Base, OrderQueue
<1>1. \A i : InOrder(i)' <=> InOrder(i)
  BY DEF InOrder, InPipe
<1>2. \A i \in 1..Last' : InOrder(i) => i \in 1..Last
  BY <1>0 DEF InOrder, InPipe
<1>3. Waiting'
  BY <1>1, <1>2 DEF Waiting
<1>4. Turn'
  <2>. SUFFICES ASSUME mode = "ordered", Healthy PROVE Turn'
    BY DEF Turn
  <2>1. /\ expected \in 1..Last+1 /\ tracker.horizon = Before(expected)
        /\ \A i \in 1..Last : InOrder(i) => expected <= i
        /\ \A i \in 1..Last : i < expected => work[i] = "done"
        /\ \A i \in 1..Last : expected <= i /\ work[i] = "done" => InOrder(i)
    BY DEF Turn
  <2>2. Before(expected)' = Before(expected)
    <3>1. expected # 1 => expected - 1 \in 1..Last
      BY <1>0, <2>1
    <3>. QED
      BY <3>1 DEF Before
  <2>3. expected' \in 1..Last'+1
    <3>1. PICK n \in Nat, m \in Nat : n = Last /\ m = Last' /\ n <= m
      BY <1>0
    <3>2. PICK x : x = expected' /\ x \in 1..n+1
      BY <2>1, <3>1
    <3>3. n \in Nat /\ m \in Nat /\ n <= m
      BY <3>1
    <3>4. x \in 1..m+1
      BY ONLY <3>2, <3>3
    <3>. QED
      BY ONLY <3>1, <3>2, <3>4
  <2>4. \A i \in 1..Last' : i < expected => i \in 1..Last
    BY <1>0, <2>1
  <2>5. /\ \A i \in 1..Last' : InOrder(i)' => expected' <= i
        /\ \A i \in 1..Last' : i < expected' => work'[i] = "done"
        /\ \A i \in 1..Last' : expected' <= i /\ work'[i] = "done" => InOrder(i)'
    BY <1>1, <1>2, <2>1, <2>4
  <2>. QED
    BY <2>1, <2>2, <2>3, <2>5 DEF Turn
<1>. QED
  BY <1>3, <1>4

LEMMA OrderedByScan ==
  ASSUME Base, Ordered, IngestNext \/ ScanNext PROVE Ordered'
<1>1. UNCHANGED <<mode, rs, tracker, ledger, out, outcome, ckpt, fellBack, orderPipe, heap, expected, synced,
                  orderer>> /\ (alarm' = 0 => alarm = 0)
  <2>1. CASE IngestNext
    BY <2>1 DEF IngestNext, IngestAppend, IngestEnd, IngestFail, IngestEofFd, IngestFlag, notIngest,
                scanVars, orderVars, userVars, PullFireAlarm
  <2>2. CASE ScanNext
    BY <2>2 DEF ScanNext, CaptureComplete, Pread, Judge, Wait, Scan, TailFlush, ScanAborted, notScan,
                orderVars, userVars
  <2>. QED
    BY <2>1, <2>2
<1>2. Grows /\ ScanInv
  BY GrowsByScan DEF Base
<1>3. /\ Last \in Nat /\ Last' \in Nat /\ Last <= Last' /\ Last' <= Last + 1
      /\ \A i \in 1..Last : i \in 1..Last' /\ batches'[i] = batches[i] /\ work'[i] = work[i]
      /\ Last' # Last => work'[Last'] = "ready" /\ Last' = Last + 1
  BY <1>2, GrowsIs
<1>4. \A i \in 1..Last' : i \in 1..Last \/ work'[i] # "done"
  <2>. SUFFICES ASSUME NEW i \in 1..Last', i \notin 1..Last PROVE work'[i] # "done"
    OBVIOUS
  <2>1. i = Last' /\ Last' # Last
    BY <1>3
  <2>. QED
    BY <1>3, <2>1
<1>5. Healthy' => Healthy
  BY <1>1 DEF Healthy
<1>6. OneAfterTheOther'
  BY <1>1, AfterTheOtherKept DEF Ordered
<1>7. Waiting' /\ Turn'
  BY <1>1, <1>3, <1>4, <1>5, TurnKept DEF Ordered
<1>. QED
  BY <1>6, <1>7 DEF Ordered

LEMMA OrderedByWork ==
  ASSUME Base, Ordered, WorkStep, mode = "ordered" PROVE Ordered'
<1>0. /\ Last \in Nat /\ DOMAIN work = 1..Last /\ work \in Seq(Stages)
      /\ orderPipe \in Seq(Nat) /\ \A k \in 1..Len(orderPipe) : orderPipe[k] \in 1..Last
      /\ heap \subseteq 1..Last /\ expected \in Nat
  BY BatchFacts DEF Base, OrderQueue
<1>1. Last' = Last /\ UNCHANGED <<mode, limit, rs, batches>>
  BY RanStays
<1>2. UNCHANGED <<tracker, ledger, out, outcome, ckpt, fellBack>>
  BY UnaccountedIs DEF Unaccounted
<1>3. OneAfterTheOther'
  BY <1>1, <1>2, AfterTheOtherKept DEF Ordered
<1>4. CASE \E i \in DOMAIN work : AckOrder(i)
  <2>1. PICK j \in 1..Last : AckOrder(j)
    BY <1>0, <1>4
  <2>2. /\ orderPipe' = Append(orderPipe, j) /\ work' = [work EXCEPT ![j] = "done"] /\ work[j] = "half"
        /\ UNCHANGED <<heap, expected, synced, orderer, alarm>>
    BY <2>1 DEF AckOrder
  <2>3. /\ Len(orderPipe') = Len(orderPipe) + 1 /\ Len(orderPipe) \in Nat
        /\ \A k \in 1..Len(orderPipe) : orderPipe'[k] = orderPipe[k]
        /\ orderPipe'[Len(orderPipe) + 1] = j
    BY <1>0, <2>2, AppendIs
  <2>4. work'[j] = "done" /\ \A i \in 1..Last : i # j => work'[i] = work[i]
    BY <1>0, <2>2
  <2>5. \A k \in 1..Len(orderPipe') : k \in 1..Len(orderPipe) \/ k = Len(orderPipe) + 1
    BY <2>3
  <2>6. \A i : InPipe(orderPipe', i) <=> InPipe(orderPipe, i) \/ i = j
    <3>1. \A k \in 1..Len(orderPipe) : k \in 1..Len(orderPipe')
      BY <2>3
    <3>2. Len(orderPipe) + 1 \in 1..Len(orderPipe')
      BY <2>3
    <3>. QED
      BY <2>3, <2>5, <3>1, <3>2 DEF InPipe
  <2>7. \A i : InOrder(i)' <=> InOrder(i) \/ i = j
    BY <2>2, <2>6 DEF InOrder
  <2>8. ~InOrder(j)
    BY <2>2 DEF Ordered, Waiting
  <2>9. Waiting'
    <3>1. \A i \in 1..Last : InOrder(i)' => work'[i] = "done"
      BY <2>4, <2>7 DEF Ordered, Waiting
    <3>2. \A k \in 1..Len(orderPipe) : orderPipe[k] # j
      BY <2>8 DEF InOrder, InPipe
    <3>3. \A i, k \in 1..Len(orderPipe') : orderPipe'[i] = orderPipe'[k] => i = k
      BY <2>3, <2>5, <3>2 DEF Ordered, Waiting
    <3>4. \A k \in 1..Len(orderPipe') : orderPipe'[k] \notin heap
      BY <2>3, <2>5, <2>8 DEF Ordered, Waiting, InOrder
    <3>. QED
      BY <1>1, <2>2, <3>1, <3>3, <3>4 DEF Ordered, Waiting
  <2>10. Turn'
    <3>. SUFFICES ASSUME Healthy PROVE Turn'
      BY <1>1, <2>2 DEF Turn, Healthy
    <3>1. /\ expected \in 1..Last+1 /\ tracker.horizon = Before(expected)
          /\ \A i \in 1..Last : InOrder(i) => expected <= i
          /\ \A i \in 1..Last : i < expected => work[i] = "done"
          /\ \A i \in 1..Last : expected <= i /\ work[i] = "done" => InOrder(i)
      BY DEF Ordered, Turn
    <3>2. expected <= j
      BY <1>0, <2>2, <3>1
    <3>3. Before(expected)' = Before(expected)
      BY <1>1, <2>2 DEF Before
    <3>4. /\ \A i \in 1..Last : InOrder(i)' => expected <= i
          /\ \A i \in 1..Last : i < expected => work'[i] = "done"
          /\ \A i \in 1..Last : expected <= i /\ work'[i] = "done" => InOrder(i)'
      BY <2>4, <2>7, <3>1, <3>2
    <3>. QED
      BY <1>1, <1>2, <2>2, <3>1, <3>3, <3>4 DEF Turn
  <2>. QED
    BY <1>3, <2>9, <2>10 DEF Ordered
<1>5. CASE Claim \/ \E i \in DOMAIN work : AckFallow(i) \/ AckFails(i) \/ DieRunning(i)
  <2>1. UNCHANGED <<orderPipe, heap, expected, synced, orderer>> /\ (alarm' = 0 => alarm = 0)
    BY <1>5 DEF Claim, AckFallow, AckFails, DieRunning, orderVars, PullFireAlarm
  <2>2. UNCHANGED work \/ \E j \in DOMAIN work, st \in {"running", "half", "lost"} :
                            work[j] # "done" /\ work' = [work EXCEPT ![j] = st]
    BY <1>5 DEF Claim, AckFallow, AckFails, DieRunning
  <2>3. \A i \in 1..Last : work'[i] = "done" <=> work[i] = "done"
    BY <1>0, <2>2
  <2>4. Healthy' => Healthy
    BY <2>1 DEF Healthy
  <2>5. Last' \in Nat /\ Last <= Last' /\ \A i \in 1..Last : batches'[i] = batches[i]
    BY <1>0, <1>1
  <2>6. Waiting' /\ Turn'
    BY <1>1, <1>2, <2>1, <2>3, <2>4, <2>5, TurnKept DEF Ordered
  <2>. QED
    BY <1>3, <2>6 DEF Ordered
<1>. QED
  BY <1>4, <1>5 DEF WorkStep

(* In a chain only the first batch begins at the horizon of the resume.    *)
LEMMA FirstIsFirst ==
  ASSUME Base, Chain, rs.jagged = {}, NEW i \in 1..Last, batches[i][1] = rs.horizon
  PROVE  i = 1
<1>1. Last \in Nat /\ rs.horizon \in Nat /\ N \in Nat
      /\ \A k \in 1..Last : batches[k][1] \in Nat /\ batches[k][2] \in Nat /\ batches[k][1] < batches[k][2]
  BY BatchFacts, Constants DEF Base, ScanInv, ScanRanges
<1>. SUFFICES ASSUME i # 1 PROVE FALSE
  OBVIOUS
<1>2. PICK k \in 1..Last : k = i - 1
  BY <1>1
<1>3. batches[i][1] = batches[k][2]
  BY <1>2 DEF Chain, Before
<1>4. rs.horizon <= batches[k][1]
  BY DEF Chain
<1>. QED
  BY <1>1, <1>3, <1>4

LEMMA OrderedTake ==
  ASSUME Base, Chain, Ordered, OrderTake, mode = "ordered" PROVE Ordered'
<1>0. /\ Last \in Nat /\ DOMAIN work = 1..Last
      /\ orderPipe \in Seq(Nat) /\ \A k \in 1..Len(orderPipe) : orderPipe[k] \in 1..Last
      /\ heap \subseteq 1..Last /\ expected \in Nat /\ synced \in BOOLEAN
  BY BatchFacts DEF Base, OrderQueue
<1>1. Last' = Last /\ UNCHANGED <<mode, limit, rs, batches>>
  BY RanStays DEF OrderStep
<1>2. /\ Len(orderPipe) > 0 /\ orderPipe' = Tail(orderPipe) /\ Head(orderPipe) = orderPipe[1]
      /\ UNCHANGED <<work, outcome, ckpt, fellBack>>
  BY <1>0 DEF OrderTake, notOrder, notWork, userVars
<1>3. PICK i \in 1..Last : i = orderPipe[1]
  BY <1>0, <1>2
<1>4. /\ heap' = heap \cup {i}
      /\ IF ~synced /\ SyncsTo(i) THEN synced' = TRUE /\ expected' = i ELSE UNCHANGED <<synced, expected>>
      /\ UNCHANGED <<orderer, tracker, ledger, out, alarm>>
  BY <1>2, <1>3 DEF OrderTake
<1>5. OneAfterTheOther'
  BY <1>1, <1>2, <1>4, AfterTheOtherKept DEF Ordered
<1>6. /\ Len(orderPipe') = Len(orderPipe) - 1 /\ Len(orderPipe) \in Nat
      /\ \A k \in 1..Len(orderPipe') : k + 1 \in 1..Len(orderPipe) /\ orderPipe'[k] = orderPipe[k + 1]
  BY <1>0, <1>2, TailIs
<1>7. \A j : InOrder(j)' <=> InOrder(j)
  <2>1. ASSUME NEW j, InPipe(orderPipe', j) PROVE InPipe(orderPipe, j)
    BY <1>6, <2>1 DEF InPipe
  <2>2. ASSUME NEW j, InPipe(orderPipe, j) PROVE InPipe(orderPipe', j) \/ j = i
    <3>1. PICK k \in 1..Len(orderPipe) : orderPipe[k] = j
      BY <2>2 DEF InPipe
    <3>2. CASE k = 1
      BY <1>3, <3>1, <3>2
    <3>3. CASE k # 1
      <4>1. PICK m \in 1..Len(orderPipe') : m + 1 = k
        <5>1. k - 1 \in 1..Len(orderPipe') /\ k - 1 + 1 = k
          BY <1>6, <3>1, <3>3
        <5>. QED
          BY <5>1
      <4>2. orderPipe'[m] = j
        BY <1>6, <3>1, <4>1
      <4>. QED
        BY <4>2 DEF InPipe
    <3>. QED
      BY <3>2, <3>3
  <2>3. InPipe(orderPipe, i)
    <3>1. 1 \in 1..Len(orderPipe)
      BY <1>6, <1>2
    <3>. QED
      BY <1>3, <3>1 DEF InPipe
  <2>4. \A j : InPipe(orderPipe, j)' <=> InPipe(orderPipe', j)
    BY DEF InPipe
  <2>. QED
    BY <1>4, <2>1, <2>2, <2>3, <2>4 DEF InOrder
<1>8. /\ \A j \in 1..Last : InOrder(j) => work[j] = "done"
      /\ \A j, k \in 1..Len(orderPipe) : orderPipe[j] = orderPipe[k] => j = k
      /\ \A k \in 1..Len(orderPipe) : orderPipe[k] \notin heap
      /\ ~synced => expected = 1
  BY DEF Ordered, Waiting
<1>9. expected' = expected /\ (synced => synced')
  <2>1. CASE ~synced /\ SyncsTo(i)
    <3>1. batches[i][1] = rs.horizon
      <4>1. batches[i][1] = tracker.horizon /\ Healthy
        BY <2>1 DEF SyncsTo, Ordered, OneAfterTheOther, OrderTake, Healthy
      <4>2. tracker.horizon = Before(expected) /\ expected = 1
        BY <1>8, <2>1, <4>1 DEF Ordered, Turn
      <4>. QED
        BY <4>1, <4>2 DEF Before
    <3>2. i = 1
      BY <3>1, FirstIsFirst DEF Ordered, OneAfterTheOther
    <3>. QED
      BY <1>4, <1>8, <2>1, <3>2
  <2>2. CASE ~(~synced /\ SyncsTo(i))
    BY <1>4, <2>2
  <2>. QED
    BY <2>1, <2>2
<1>10. Waiting'
  <2>1. \A j, k \in 1..Len(orderPipe') : orderPipe'[j] = orderPipe'[k] => j = k
    <3>. SUFFICES ASSUME NEW j \in 1..Len(orderPipe'), NEW k \in 1..Len(orderPipe'), orderPipe'[j] = orderPipe'[k]
                  PROVE  j = k
      OBVIOUS
    <3>1. j + 1 = k + 1
      BY <1>6, <1>8
    <3>. QED
      BY <1>6, <3>1
  <2>2. \A k \in 1..Len(orderPipe') : orderPipe'[k] \notin heap'
    <3>. SUFFICES ASSUME NEW k \in 1..Len(orderPipe') PROVE orderPipe'[k] \notin heap'
      OBVIOUS
    <3>1. k + 1 \in 1..Len(orderPipe) /\ k + 1 # 1 /\ 1 \in 1..Len(orderPipe)
      BY <1>2, <1>6
    <3>2. orderPipe[k + 1] # i
      BY <1>3, <1>8, <3>1
    <3>. QED
      BY <1>4, <1>6, <1>8, <3>1, <3>2
  <2>3. \A j \in 1..Last' : InOrder(j)' => work'[j] = "done"
    BY <1>1, <1>2, <1>7, <1>8
  <2>. QED
    BY <1>8, <1>9, <2>1, <2>2, <2>3 DEF Waiting
<1>11. Turn'
  <2>. SUFFICES ASSUME Healthy PROVE Turn'
    BY <1>1, <1>4 DEF Turn, Healthy
  <2>1. /\ expected \in 1..Last+1 /\ tracker.horizon = Before(expected)
        /\ \A j \in 1..Last : InOrder(j) => expected <= j
        /\ \A j \in 1..Last : j < expected => work[j] = "done"
        /\ \A j \in 1..Last : expected <= j /\ work[j] = "done" => InOrder(j)
    BY DEF Ordered, Turn
  <2>2. Before(expected)' = Before(expected)
    BY <1>1, <1>9 DEF Before
  <2>. QED
    BY <1>1, <1>2, <1>4, <1>7, <1>9, <2>1, <2>2 DEF Turn
<1>. QED
  BY <1>5, <1>10, <1>11 DEF Ordered

(* The batch that is emitted is the one whose turn it is, and its bytes    *)
(* follow what is out.                                                     *)
LEMMA EmitsNext ==
  ASSUME Base, Chain, Ordered, OrderEmit, mode = "ordered"
  PROVE  /\ LeastDue = expected /\ expected \in 1..Last /\ expected \in heap
         /\ batches[expected][1] = tracker.horizon
<1>1. LeastDue \in heap /\ (\A j \in heap : LeastDue <= j) /\ expected \in heap /\ orderer = "run"
  BY LeastDueIs DEF OrderEmit, Due
<1>2. heap \subseteq 1..Last /\ Last \in Nat
  BY BatchFacts DEF Base, OrderQueue
<1>3. Turn /\ Healthy /\ rs.jagged = {}
  BY <1>1 DEF Ordered, Healthy, OneAfterTheOther
<1>4. expected <= LeastDue /\ LeastDue <= expected /\ expected \in 1..Last /\ LeastDue \in 1..Last
  BY <1>1, <1>2, <1>3 DEF Turn, InOrder
<1>5. LeastDue = expected
  BY <1>4
<1>6. batches[expected][1] = Before(expected) /\ tracker.horizon = Before(expected)
  BY <1>3, <1>4 DEF Chain, Turn
<1>. QED
  BY <1>1, <1>4, <1>5, <1>6

LEMMA OrderedEmit ==
  ASSUME Base, Chain, Ordered, OrderEmit, mode = "ordered" PROVE Ordered'
<1>0. /\ Last \in Nat /\ heap \subseteq 1..Last /\ ScanInv /\ Accounts
      /\ \A k \in 1..Len(orderPipe) : orderPipe[k] \in 1..Last
  BY BatchFacts DEF Base, OrderQueue
<1>1. Last' = Last /\ UNCHANGED <<mode, limit, rs, batches>>
  BY RanStays DEF OrderStep
<1>2. PICK e \in 1..Last : e = expected
  BY EmitsNext
<1>3. /\ LeastDue = e /\ e \in heap /\ batches[e][1] = tracker.horizon
  BY <1>2, EmitsNext
<1>4. /\ heap' = heap \ {e} /\ expected' = e + 1 /\ (Emit(e) \/ EmitFails(e))
      /\ UNCHANGED <<orderPipe, synced, work, outcome, ckpt, fellBack>> /\ outcome = "running" /\ synced
  BY <1>3 DEF OrderEmit, notOrder, notWork, userVars, Due
<1>5. \A j \in 1..Last : InOrder(j)' <=> InOrder(j) /\ j # e
  <2>1. ~InPipe(orderPipe, e)
    BY <1>3 DEF Ordered, Waiting, InPipe
  <2>2. \A j : InPipe(orderPipe, j)' <=> InPipe(orderPipe, j)
    BY <1>4 DEF InPipe
  <2>. QED
    BY <1>4, <2>1, <2>2 DEF InOrder
<1>6. Waiting'
  <2>1. \A j \in 1..Last' : InOrder(j)' => work'[j] = "done"
    BY <1>1, <1>4, <1>5 DEF Ordered, Waiting
  <2>2. \A k \in 1..Len(orderPipe') : orderPipe'[k] \notin heap'
    BY <1>4 DEF Ordered, Waiting
  <2>. QED
    BY <1>4, <2>1, <2>2 DEF Ordered, Waiting
<1>7. CASE EmitFails(e)
  <2>1. orderer' = "gone" /\ UNCHANGED <<out, tracker, ledger>> /\ \E r \in {1, 2} : PullFireAlarm(r)
    BY <1>7 DEF EmitFails
  <2>2. ~Healthy'
    BY <2>1 DEF Healthy, PullFireAlarm
  <2>3. OneAfterTheOther'
    BY <1>1, <1>4, <2>1, AfterTheOtherKept DEF Ordered
  <2>. QED
    BY <1>6, <2>2, <2>3 DEF Ordered, Turn
<1>8. CASE Emit(e)
  <2>1. Emits(e)
    BY <1>1, <1>4, <1>8 DEF Emits
  <2>2. UNCHANGED <<orderer, alarm>> /\ out' = Append(out, batches[e]) /\ Healthy
    BY <1>8 DEF Emit, OrderEmit, Healthy
  <2>3. tracker' = Track(tracker, batches[e]) /\ (tracker'.jagged = {} => ledger' = tracker')
    BY <1>0, <2>1, EmitsIs
  <2>4. tracker \in Ledgers /\ batches[e] \in Ivals /\ tracker.jagged = {}
    BY <1>0, BatchFacts DEF Accounts, Ordered, OneAfterTheOther
  <2>5. tracker'.horizon = batches[e][2] /\ tracker'.jagged = {} /\ ledger' = tracker'
    BY <1>3, <2>3, <2>4, TrackNext
  <2>6. /\ Len(out') = Len(out) + 1 /\ Len(out) \in Nat
        /\ \A k \in 1..Len(out) : out'[k] = out[k]
        /\ out'[Len(out) + 1] = batches[e]
    BY <1>0, <2>2, OutIs
  <2>7. /\ \A k \in 1..Len(out) : out[k][2] <= tracker.horizon
        /\ \A k \in 1..Len(out) : k # 1 => out[k][1] = out[k - 1][2]
        /\ Len(out) > 0 => tracker.horizon = out[Len(out)][2]
        /\ ~fellBack => (Len(out) = 0 => tracker.horizon = 0) /\ (Len(out) > 0 => out[1][1] = 0)
        /\ rs.jagged = {}
    BY DEF Ordered, OneAfterTheOther
  <2>8. \A k \in 1..Len(out) : out[k][2] \in Nat
    BY <1>0, Constants DEF Accounts, Ivals
  <2>9. batches[e][1] \in Nat /\ batches[e][2] \in Nat /\ batches[e][1] < batches[e][2]
    BY <1>0, BatchFacts, Constants
  <2>10. \A k \in 1..Len(out') : k \in 1..Len(out) \/ k = Len(out) + 1
    BY <2>6
  <2>11. \A k \in 1..Len(out') : out'[k][2] <= tracker'.horizon
    <3>. SUFFICES ASSUME NEW k \in 1..Len(out') PROVE out'[k][2] <= tracker'.horizon
      OBVIOUS
    <3>1. CASE k \in 1..Len(out)
      <4>1. out[k][2] <= tracker.horizon /\ out'[k] = out[k] /\ out[k][2] \in Nat
        BY <2>6, <2>7, <2>8, <3>1
      <4>2. tracker.horizon <= batches[e][2] /\ tracker.horizon \in Nat
        BY <1>3, <2>9
      <4>. QED
        BY <2>5, <2>9, <4>1, <4>2
    <3>2. CASE k = Len(out) + 1
      BY <2>5, <2>6, <2>9, <3>2
    <3>. QED
      BY <2>10, <3>1, <3>2
  <2>12. \A k \in 1..Len(out') : k # 1 => out'[k][1] = out'[k - 1][2]
    <3>. SUFFICES ASSUME NEW k \in 1..Len(out'), k # 1 PROVE out'[k][1] = out'[k - 1][2]
      OBVIOUS
    <3>1. PICK m \in 1..Len(out) : m = k - 1
      BY <2>6
    <3>2. CASE k \in 1..Len(out)
      BY <2>6, <2>7, <3>1, <3>2
    <3>3. CASE k = Len(out) + 1
      <4>1. m = Len(out) /\ Len(out) > 0
        BY <2>6, <3>1, <3>3
      <4>. QED
        BY <1>3, <2>6, <2>7, <3>1, <3>3, <4>1
    <3>. QED
      BY <2>10, <3>2, <3>3
  <2>13. Len(out') > 0 /\ tracker'.horizon = out'[Len(out')][2]
    BY <2>5, <2>6
  <2>14. ~fellBack' => out'[1][1] = 0
    <3>. SUFFICES ASSUME ~fellBack PROVE out'[1][1] = 0
      BY <1>4
    <3>1. CASE Len(out) = 0
      BY <1>3, <2>6, <2>7, <3>1
    <3>2. CASE Len(out) > 0
      <4>1. 1 \in 1..Len(out)
        BY <2>6, <3>2
      <4>. QED
        BY <2>6, <2>7, <3>2, <4>1
    <3>. QED
      BY <2>6, <3>1, <3>2
  <2>15. OneAfterTheOther'
    <3>1. outcome' # "failed" /\ ~(Len(out') = 0) /\ rs'.jagged = {}
      BY <1>1, <1>4, <2>6, <2>7
    <3>. QED
      BY <2>5, <2>11, <2>12, <2>13, <2>14, <3>1 DEF OneAfterTheOther
  <2>16. Turn'
    <3>1. /\ \A j \in 1..Last : InOrder(j) => e <= j
          /\ \A j \in 1..Last : j < e => work[j] = "done"
          /\ \A j \in 1..Last : e <= j /\ work[j] = "done" => InOrder(j)
          /\ work[e] = "done"
      BY <1>2, <1>3, <2>2 DEF Ordered, Turn, Waiting, InOrder
    <3>2. PICK n \in 1..Last+1 : n = e + 1
      BY <1>0
    <3>3. Before(n)' = batches[e][2]
      <4>1. n # 1 /\ n - 1 = e
        BY <1>0, <3>2
      <4>. QED
        BY <1>1, <4>1 DEF Before
    <3>4. /\ \A j \in 1..Last : InOrder(j)' => n <= j
          /\ \A j \in 1..Last : j < n => work[j] = "done"
          /\ \A j \in 1..Last : n <= j /\ work[j] = "done" => InOrder(j)'
      BY <1>0, <1>5, <3>1, <3>2
    <3>5. expected' = n /\ Before(expected)' = Before(n)'
      BY <1>4, <3>2 DEF Before
    <3>. QED
      BY <1>1, <1>4, <2>5, <3>2, <3>3, <3>4, <3>5 DEF Turn
  <2>. QED
    BY <1>6, <2>15, <2>16 DEF Ordered
<1>. QED
  BY <1>4, <1>7, <1>8

LEMMA OrderedByRest ==
  ASSUME Base, Ordered, Reclaim \/ OrderEof \/ ParentStep \/ Rest, mode = "ordered" PROVE Ordered'
<1>0. Last \in Nat /\ DOMAIN work = 1..Last /\ work \in Seq(Stages)
  BY BatchFacts DEF Base
<1>1. Last' = Last /\ UNCHANGED <<mode, limit, rs, batches>>
  BY RanStays DEF OrderStep
<1>2. UNCHANGED <<orderPipe, heap, expected, synced, tracker, ledger, out>>
  <2>1. CASE Reclaim \/ OrderEof
    BY <2>1 DEF Reclaim, OrderEof, orderVars
  <2>2. CASE ParentStep \/ Rest
    BY <2>2 DEF ParentStep, ReactorDone, ReactorAbort, RaceDeath, Signal, ExitRun, Rest, notParent, vars,
                orderVars
  <2>. QED
    BY <2>1, <2>2
<1>3. UNCHANGED work \/ \E j \in DOMAIN work : work[j] = "half" /\ work' = [work EXCEPT ![j] = "lost"]
  <2>1. CASE Reclaim \/ OrderEof
    BY <2>1 DEF Reclaim, OrderEof, notOrder
  <2>2. CASE ParentStep \/ Rest
    BY <2>2 DEF ParentStep, ReactorDone, ReactorAbort, RaceDeath, Signal, ExitRun, Rest, vars
  <2>. QED
    BY <2>1, <2>2
<1>4. \A i \in 1..Last : work'[i] = "done" <=> work[i] = "done"
  BY <1>0, <1>3
<1>5. Healthy' => Healthy
  <2>1. CASE OrderEof
    BY <2>1 DEF OrderEof, Healthy
  <2>2. CASE Reclaim
    BY <2>2 DEF Reclaim, Healthy, orderVars
  <2>3. CASE ParentStep \/ Rest
    <3>1. orderer' = orderer
      BY <2>3 DEF ParentStep, ReactorDone, ReactorAbort, RaceDeath, Signal, ExitRun, Rest, notParent, vars,
                  orderVars
    <3>2. alarm' = 0 => alarm = 0
      BY <2>3 DEF ParentStep, ReactorDone, ReactorAbort, RaceDeath, Signal, ExitRun, Rest, vars,
                  PullFireAlarm
    <3>. QED
      BY <3>1, <3>2 DEF Healthy
  <2>. QED
    BY <2>1, <2>2, <2>3
<1>6. Waiting' /\ Turn'
  <2>1. Last' \in Nat /\ Last <= Last' /\ (\A i \in 1..Last : batches'[i] = batches[i])
        /\ \A i \in 1..Last' : i \in 1..Last \/ work'[i] # "done"
    BY <1>0, <1>1
  <2>. QED
    BY <1>1, <1>2, <1>4, <1>5, <2>1, TurnKept DEF Ordered
<1>7. OneAfterTheOther'
  <2>1. CASE UNCHANGED <<outcome, ckpt, fellBack>>
    BY <1>1, <1>2, <2>1, AfterTheOtherKept DEF Ordered
  <2>2. CASE ExitRun
    <3>1. \/ outcome' = "ok" /\ UNCHANGED <<ckpt, fellBack>>
          \/ /\ outcome' = "failed" /\ ckpt' = Checkpoint
             /\ fellBack' = (fellBack \/ (mode # "realtime" /\ TakesFallow))
      BY <2>2 DEF ExitRun
    <3>2. CASE outcome' = "ok" /\ UNCHANGED <<ckpt, fellBack>>
      BY <1>1, <1>2, <3>2 DEF Ordered, OneAfterTheOther
    <3>3. CASE /\ outcome' = "failed" /\ ckpt' = Checkpoint
               /\ fellBack' = (fellBack \/ (mode # "realtime" /\ TakesFallow))
      <4>1. ledger = tracker /\ tracker.jagged = {}
        BY DEF Ordered, OneAfterTheOther
      <4>2. ckpt'.jagged = {} /\ ckpt'.horizon = IF TakesFallow THEN fallowBytes ELSE tracker.horizon
        BY <3>3, <4>1, CheckpointIs
      <4>3. Len(out) > 0 => ~TakesFallow
        <5>. SUFFICES ASSUME Len(out) > 0 PROVE ledger.horizon # 0
          BY DEF TakesFallow
        <5>1. Len(out) \in 1..Len(out) /\ out \in Seq(Ivals)
          BY DEF Base, Accounts
        <5>2. out[Len(out)] \in Ivals /\ tracker.horizon = out[Len(out)][2]
          BY <5>1 DEF Ordered, OneAfterTheOther
        <5>3. \A iv \in Ivals : iv[2] # 0
          BY Constants DEF Ivals
        <5>. QED
          BY <4>1, <5>2, <5>3
      <4>4. ~fellBack' => ~TakesFallow /\ ~fellBack
        BY <3>3
      <4>. QED
        BY <1>1, <1>2, <4>2, <4>3, <4>4 DEF Ordered, OneAfterTheOther
    <3>. QED
      BY <3>1, <3>2, <3>3
  <2>3. CASE Reclaim \/ OrderEof \/ ReactorDone \/ ReactorAbort \/ RaceDeath \/ Signal \/ Rest
    <3>1. UNCHANGED <<outcome, ckpt, fellBack>>
      BY <2>3 DEF Reclaim, OrderEof, ReactorDone, ReactorAbort, RaceDeath, Signal, Rest, notParent, vars,
                  notOrder, notWork, userVars
    <3>. QED
      BY <2>1, <3>1
  <2>. QED
    BY <2>2, <2>3 DEF ParentStep
<1>. QED
  BY <1>6, <1>7 DEF Ordered

LEMMA OrderedByRestart ==
  ASSUME Base, Ordered, Restart, mode = "ordered" PROVE Ordered'
<1>1. /\ tracker' = ckpt /\ ledger' = ckpt /\ ckpt' = ckpt /\ outcome = "failed" /\ outcome' = "running"
      /\ fellBack' = fellBack /\ mode' = mode /\ rs'.horizon = ckpt.horizon /\ rs'.jagged = ckpt.jagged
      /\ batches' = <<>> /\ orderPipe' = <<>> /\ heap' = {} /\ expected' = 1
  BY DEF Restart
<1>2. out' = out
  BY RestartKeepsOut
<1>3. Last' = 0 /\ Len(orderPipe') = 0
  BY <1>1 DEF Last
<1>4. /\ ckpt.jagged = {}
      /\ Len(out) > 0 \/ ~fellBack => ckpt.horizon = tracker.horizon
      /\ \A i \in 1..Len(out) : i # 1 => out[i][1] = out[i - 1][2]
      /\ \A i \in 1..Len(out) : out[i][2] <= tracker.horizon
      /\ Len(out) > 0 => tracker.horizon = out[Len(out)][2]
      /\ ~fellBack => (Len(out) = 0 => tracker.horizon = 0) /\ (Len(out) > 0 => out[1][1] = 0)
  BY <1>1 DEF Ordered, OneAfterTheOther
<1>5. Len(out) \in Nat
  BY DEF Base, Accounts
<1>6. OneAfterTheOther'
  <2>1. \A i \in 1..Len(out) : out[i][2] <= ckpt.horizon
    BY <1>4, <1>5
  <2>2. Len(out) > 0 => ckpt.horizon = out[Len(out)][2]
    BY <1>4
  <2>3. ~fellBack => (Len(out) = 0 => ckpt.horizon = 0) /\ (Len(out) > 0 => out[1][1] = 0)
    BY <1>4
  <2>. QED
    BY <1>1, <1>2, <1>4, <2>1, <2>2, <2>3 DEF OneAfterTheOther
<1>7. Waiting'
  BY <1>1, <1>3 DEF Waiting
<1>8. Turn'
  <2>1. expected' \in 1..Last'+1 /\ Before(expected)' = rs'.horizon
    BY <1>1, <1>3 DEF Before
  <2>. QED
    BY <1>1, <1>3, <2>1 DEF Turn
<1>. QED
  BY <1>6, <1>7, <1>8 DEF Ordered

LEMMA ModeStays ==
  ASSUME Base, [Next \/ Rest]_vars PROVE mode' = mode
<1>1. CASE UNCHANGED vars
  BY <1>1 DEF vars
<1>2. CASE IngestNext \/ ScanNext
  BY <1>2, UnaccountedIs DEF Unaccounted
<1>3. CASE WorkStep \/ Reclaim \/ OrderStep \/ ParentStep \/ Rest
  BY <1>3, RanStays
<1>4. CASE Restart
  BY <1>4 DEF Restart
<1>. QED
  BY <1>1, <1>2, <1>3, <1>4 DEF Next, WorkStep, OrderStep, ParentStep

LEMMA OrderedNext ==
  ASSUME Base, Chain, Ordered, [Next \/ Rest]_vars PROVE Ordered'
<1>1. CASE mode # "ordered"
  BY <1>1, ModeStays DEF Ordered, OneAfterTheOther, Waiting, Turn
<1>2. CASE mode = "ordered"
  <2>1. CASE UNCHANGED vars
    <3>1. UNCHANGED <<mode, rs, tracker, ledger, out, outcome, ckpt, fellBack, orderPipe, heap, expected, synced,
                      orderer, alarm, work, batches>>
      BY <2>1 DEF vars, scanVars, orderVars, userVars
    <3>2. OneAfterTheOther'
      BY <3>1, AfterTheOtherKept DEF Ordered
    <3>3. Waiting' /\ Turn'
      BY <3>1 DEF Ordered, Waiting, Turn, InOrder, InPipe, Before, Last, Healthy
    <3>. QED
      BY <3>2, <3>3 DEF Ordered
  <2>2. CASE IngestNext \/ ScanNext
    BY <2>2, OrderedByScan
  <2>3. CASE WorkStep
    BY <1>2, <2>3, OrderedByWork
  <2>4. CASE OrderTake \/ OrderEmit
    BY <1>2, <2>4, OrderedTake, OrderedEmit
  <2>5. CASE Reclaim \/ OrderEof \/ ParentStep \/ Rest
    BY <1>2, <2>5, OrderedByRest
  <2>6. CASE Restart
    BY <1>2, <2>6, OrderedByRestart
  <2>. QED
    BY <2>1, <2>2, <2>3, <2>4, <2>5, <2>6 DEF Next, WorkStep, ParentStep
<1>. QED
  BY <1>1, <1>2

LEMMA OrderedCorrect == Spec => [](Books /\ Ordered)
<1>1. Init => Ordered
  <2>. SUFFICES ASSUME Init PROVE Ordered
    OBVIOUS
  <2>1. /\ tracker = EmptyLedger /\ ledger = EmptyLedger /\ out = <<>> /\ outcome = "running"
        /\ rs.horizon = 0 /\ rs.jagged = {} /\ heap = {} /\ orderPipe = <<>> /\ expected = 1
        /\ Last = 0 /\ synced = TRUE
    BY DEF Init, Last
  <2>2. EmptyLedger.horizon = 0 /\ EmptyLedger.jagged = {}
    BY DEF EmptyLedger
  <2>3. Len(out) = 0
    BY <2>1
  <2>4. OneAfterTheOther
    BY <2>1, <2>2, <2>3 DEF OneAfterTheOther
  <2>5. Waiting /\ Turn
    BY <2>1, <2>2 DEF Waiting, Turn, Before
  <2>. QED
    BY <2>4, <2>5 DEF Ordered
<1>2. Books /\ Ordered /\ [Next \/ Rest]_vars => Ordered'
  BY OrderedNext DEF Books
<1>. QED
  BY <1>1, <1>2, BooksCorrect, PTL DEF Spec

(* Ordered output is a gapless prefix of the input at any time, through    *)
(* failures, checkpoints and resumes.                                      *)
THEOREM OrderedPrefixCorrect == Spec => []OrderedPrefix
<1>1. ASSUME Books, Ordered PROVE OrderedPrefix
  <2>1. out \in Seq(Ivals) /\ DOMAIN out = 1..Len(out)
    BY <1>1 DEF Books, Base, Accounts
  <2>. SUFFICES ASSUME mode = "ordered", ~fellBack, NEW i \in 1..Len(out)
                PROVE  out[i][1] = IF i = 1 THEN 0 ELSE out[i - 1][2]
    BY <2>1 DEF OrderedPrefix
  <2>2. Len(out) > 0
    BY <2>1
  <2>. QED
    BY <1>1, <2>2 DEF Ordered, OneAfterTheOther
<1>. QED
  BY <1>1, OrderedCorrect, PTL

-------------------------------------------------------------------------------
(* The end of a run.  Without an alarm every batch was run, every packet   *)
(* was taken, and what a worker finished is out; what a resumed scan skips *)
(* was out before.                                                         *)

IsOut(i) == \E k \in 1..Len(out) : out[k] = batches[i]

DoneIsOut ==
  mode # "realtime" /\ Healthy => \A i \in 1..Last : work[i] = "done" => InOrder(i) \/ IsOut(i)

SkippedIsOut == ~fellBack => LedgerBytes(rs) \subseteq Output

Finish ==
  /\ mode # "ordered" => heap = {}
  /\ reactor # "poll" /\ alarm = 0 => scanPc = "done" /\ \A i \in 1..Last : work[i] = "done"
  /\ orderer = "gone" /\ alarm = 0 /\ mode # "realtime" =>
       reactor # "poll" /\ heap = {} /\ orderPipe = <<>>
  /\ outcome # "running" => reactor # "poll" /\ orderer = "gone"

Delivered == DoneIsOut /\ SkippedIsOut /\ Finish

(* The steps of ingest and scanner: nothing is run, nothing taken.         *)
LEMMA ScanAway ==
  ASSUME ScanInv, IngestNext \/ ScanNext
  PROVE  /\ UNCHANGED <<mode, limit, rs, orderVars, userVars>> /\ outcome = "running"
         /\ alarm' = 0 => alarm = 0
         /\ scanPc = "done" => UNCHANGED <<scanPc, batches, work>>
<1>1. CASE IngestNext
  BY <1>1 DEF IngestNext, IngestAppend, IngestEnd, IngestFail, IngestEofFd, IngestFlag, notIngest,
              scanVars, PullFireAlarm
<1>2. CASE ScanNext
  <2>1. UNCHANGED <<mode, limit, rs, orderVars, userVars>> /\ outcome = "running" /\ alarm' = alarm
    BY <1>2 DEF ScanNext, CaptureComplete, Pread, Judge, Wait, Scan, TailFlush, ScanAborted, notScan, Scanning
  <2>2. scanPc # "done"
    BY <1>2 DEF ScanNext, CaptureComplete, Pread, Judge, Wait, Scan, TailFlush, ScanAborted, Scanning,
                MoreInBuffer
  <2>. QED
    BY <2>1, <2>2
<1>. QED
  BY <1>1, <1>2

LEMMA DoneKept ==
  ASSUME DoneIsOut, UNCHANGED <<mode, orderPipe, heap>>, mode # "realtime" => out' = out, Healthy' => Healthy,
         \A i \in 1..Last' : work'[i] = "done" =>
            i \in 1..Last /\ work[i] = "done" /\ batches'[i] = batches[i]
  PROVE  DoneIsOut'
<1>. SUFFICES ASSUME mode # "realtime", Healthy, NEW i \in 1..Last', work'[i] = "done"
              PROVE  InOrder(i)' \/ IsOut(i)'
  BY DEF DoneIsOut
<1>1. i \in 1..Last /\ work[i] = "done" /\ batches'[i] = batches[i] /\ out' = out
  OBVIOUS
<1>2. InOrder(i) \/ IsOut(i)
  BY <1>1 DEF DoneIsOut
<1>. QED
  BY <1>1, <1>2 DEF InOrder, InPipe, IsOut

LEMMA DoneByScan ==
  ASSUME Base, DoneIsOut, IngestNext \/ ScanNext PROVE DoneIsOut'
<1>1. /\ UNCHANGED <<mode, orderPipe, heap, orderer, out>> /\ (alarm' = 0 => alarm = 0)
  BY ScanAway DEF Base, orderVars
<1>2. /\ Last \in Nat /\ Last' \in Nat /\ Last <= Last' /\ Last' <= Last + 1
      /\ \A i \in 1..Last : i \in 1..Last' /\ batches'[i] = batches[i] /\ work'[i] = work[i]
      /\ Last' # Last => work'[Last'] = "ready" /\ Last' = Last + 1
  BY GrowsByScan, GrowsIs DEF Base
<1>3. \A i \in 1..Last' : work'[i] = "done" => i \in 1..Last
  <2>. SUFFICES ASSUME NEW i \in 1..Last', i \notin 1..Last PROVE work'[i] # "done"
    OBVIOUS
  <2>1. i = Last' /\ Last' # Last
    BY <1>2
  <2>. QED
    BY <1>2, <2>1
<1>4. \A i \in 1..Last' : work'[i] = "done" => i \in 1..Last /\ work[i] = "done" /\ batches'[i] = batches[i]
  BY <1>2, <1>3
<1>5. Healthy' => Healthy
  BY <1>1 DEF Healthy
<1>. QED
  BY <1>1, <1>4, <1>5, DoneKept

LEMMA DoneByWork ==
  ASSUME Base, DoneIsOut, WorkStep PROVE DoneIsOut'
<1>0. Last \in Nat /\ DOMAIN work = 1..Last /\ work \in Seq(Stages) /\ orderPipe \in Seq(Nat)
  BY BatchFacts DEF Base, OrderQueue
<1>1. Last' = Last /\ UNCHANGED <<mode, batches>>
  BY RanStays
<1>2. mode # "realtime" => out' = out
  BY UnaccountedIs DEF Unaccounted
<1>3. ASSUME NEW j \in 1..Last, AckOrder(j), mode # "realtime" PROVE DoneIsOut'
  <2>1. /\ orderPipe' = Append(orderPipe, j) /\ work' = [work EXCEPT ![j] = "done"]
        /\ UNCHANGED <<heap, orderer, alarm>>
    BY <1>3 DEF AckOrder
  <2>2. /\ Len(orderPipe') = Len(orderPipe) + 1 /\ Len(orderPipe) \in Nat
        /\ \A k \in 1..Len(orderPipe) : orderPipe'[k] = orderPipe[k]
        /\ orderPipe'[Len(orderPipe) + 1] = j
    BY <1>0, <2>1, AppendIs
  <2>3. InOrder(j)'
    <3>1. Len(orderPipe) + 1 \in 1..Len(orderPipe')
      BY <2>2
    <3>. QED
      BY <2>2, <3>1 DEF InOrder, InPipe
  <2>4. \A i : InOrder(i) => InOrder(i)'
    <3>1. \A k \in 1..Len(orderPipe) : k \in 1..Len(orderPipe')
      BY <2>2
    <3>. QED
      BY <2>1, <2>2, <3>1 DEF InOrder, InPipe
  <2>5. \A i \in 1..Last : IsOut(i) => IsOut(i)'
    BY <1>1, <1>2, <1>3 DEF IsOut
  <2>6. \A i \in 1..Last : i # j => work'[i] = work[i]
    BY <1>0, <2>1
  <2>7. Healthy' = Healthy
    BY <2>1 DEF Healthy
  <2>. SUFFICES ASSUME Healthy, NEW i \in 1..Last, work'[i] = "done" PROVE InOrder(i)' \/ IsOut(i)'
    BY <1>1, <2>7 DEF DoneIsOut
  <2>8. CASE i = j
    BY <2>3, <2>8
  <2>9. CASE i # j
    BY <1>3, <2>4, <2>5, <2>6, <2>9 DEF DoneIsOut
  <2>. QED
    BY <2>8, <2>9
<1>4. ASSUME Claim \/ \E i \in DOMAIN work : AckFallow(i) \/ AckFails(i) \/ DieRunning(i) PROVE DoneIsOut'
  <2>1. UNCHANGED <<orderPipe, heap, orderer>> /\ (alarm' = 0 => alarm = 0)
    BY <1>4 DEF Claim, AckFallow, AckFails, DieRunning, orderVars, PullFireAlarm
  <2>2. UNCHANGED work \/ \E j \in DOMAIN work, st \in {"running", "half", "lost"} :
                            work' = [work EXCEPT ![j] = st]
    BY <1>4 DEF Claim, AckFallow, AckFails, DieRunning
  <2>3. \A i \in 1..Last : work'[i] = "done" => work[i] = "done"
    BY <1>0, <2>2
  <2>4. Healthy' => Healthy
    BY <2>1 DEF Healthy
  <2>. QED
    BY <1>1, <1>2, <2>1, <2>3, <2>4, DoneKept
<1>5. ASSUME mode = "realtime" PROVE DoneIsOut'
  BY <1>1, <1>5 DEF DoneIsOut
<1>. QED
  BY <1>0, <1>3, <1>4, <1>5 DEF WorkStep

(* A packet taken or a block emitted is still accounted for.               *)
LEMMA InOrderIs ==
  ASSUME OrderQueue, Len(orderPipe) > 0, orderPipe' = Tail(orderPipe)
  PROVE  \A i : InPipe(orderPipe, i) => InPipe(orderPipe', i) \/ i = Head(orderPipe)
<1>0. orderPipe \in Seq(Nat) /\ Head(orderPipe) = orderPipe[1]
  BY DEF OrderQueue
<1>1. /\ Len(orderPipe') = Len(orderPipe) - 1 /\ Len(orderPipe) \in Nat
      /\ \A k \in 1..Len(orderPipe') : k + 1 \in 1..Len(orderPipe) /\ orderPipe'[k] = orderPipe[k + 1]
  BY <1>0, TailIs
<1>. SUFFICES ASSUME NEW i, InPipe(orderPipe, i), i # Head(orderPipe) PROVE InPipe(orderPipe', i)
  OBVIOUS
<1>2. PICK k \in 1..Len(orderPipe) : orderPipe[k] = i
  BY DEF InPipe
<1>3. k - 1 \in 1..Len(orderPipe') /\ k - 1 + 1 = k
  BY <1>0, <1>1, <1>2
<1>4. orderPipe'[k - 1] = i
  BY <1>1, <1>2, <1>3
<1>. QED
  BY <1>3, <1>4 DEF InPipe

LEMMA EmittedIsOut ==
  ASSUME Base, NEW i \in 1..Last, Emit(i), UNCHANGED batches
  PROVE  IsOut(i)' /\ \A j \in 1..Last : IsOut(j) => IsOut(j)'
<1>1. /\ Len(out') = Len(out) + 1 /\ Len(out) \in Nat
      /\ \A k \in 1..Len(out) : out'[k] = out[k]
      /\ out'[Len(out) + 1] = batches[i]
  BY OutIs DEF Base, Emit
<1>2. Len(out) + 1 \in 1..Len(out') /\ \A k \in 1..Len(out) : k \in 1..Len(out')
  BY <1>1
<1>. QED
  BY <1>1, <1>2 DEF IsOut

LEMMA DoneByOrder ==
  ASSUME Base, DoneIsOut, Finish, OrderTake \/ OrderEmit PROVE DoneIsOut'
<1>0. Last \in Nat /\ OrderQueue /\ orderPipe \in Seq(Nat)
  BY BatchFacts DEF Base, OrderQueue
<1>1. Last' = Last /\ UNCHANGED <<mode, batches, work>>
  <2>1. UNCHANGED work
    BY DEF OrderTake, OrderEmit, notOrder
  <2>. QED
    BY <2>1, RanStays DEF OrderStep
<1>2. orderer = "run"
  BY DEF OrderTake, OrderEmit
<1>. SUFFICES ASSUME mode # "realtime", Healthy', NEW i \in 1..Last, work[i] = "done"
              PROVE  InOrder(i)' \/ IsOut(i)'
  BY <1>1 DEF DoneIsOut
<1>3. InOrder(i) \/ IsOut(i)
  BY <1>2 DEF DoneIsOut, Healthy
<1>4. ASSUME NEW j \in 1..Last, EmitFails(j) PROVE FALSE
  BY <1>4 DEF EmitFails, PullFireAlarm, Healthy
<1>5. UNCHANGED out => (IsOut(i) => IsOut(i)')
  BY <1>1 DEF IsOut
<1>6. CASE OrderTake
  <2>1. PICK j \in 1..Last : j = Head(orderPipe)
    BY <1>6 DEF OrderTake, Base, OrderQueue
  <2>2. Len(orderPipe) > 0 /\ orderPipe' = Tail(orderPipe)
    BY <1>0, <1>6 DEF OrderTake
  <2>3. InPipe(orderPipe, i) => InPipe(orderPipe', i) \/ i = j
    BY <1>0, <2>1, <2>2, InOrderIs
  <2>4. InOrder(i)' <=> i \in heap' \/ InPipe(orderPipe', i)
    BY DEF InOrder, InPipe
  <2>5. CASE heap' = heap \cup {j} /\ UNCHANGED out
    BY <1>3, <1>5, <2>3, <2>4, <2>5 DEF InOrder
  <2>6. CASE mode = "buffered" /\ Emit(j) /\ heap' = heap
    BY <1>1, <1>3, <2>3, <2>4, <2>6, EmittedIsOut DEF InOrder
  <2>7. \/ heap' = heap \cup {j} /\ UNCHANGED out
        \/ mode = "buffered" /\ Emit(j) /\ heap' = heap
        \/ EmitFails(j)
    BY <1>6, <2>1 DEF OrderTake
  <2>. QED
    BY <1>4, <2>5, <2>6, <2>7
<1>7. CASE OrderEmit
  <2>1. PICK j \in 1..Last : j = LeastDue
    BY <1>7, LeastDueIs DEF Base, OrderQueue
  <2>2. heap' = heap \ {j} /\ (Emit(j) \/ EmitFails(j)) /\ orderPipe' = orderPipe
    BY <1>7, <2>1 DEF OrderEmit
  <2>3. Emit(j)
    BY <1>4, <2>2
  <2>4. InOrder(i)' <=> i \in heap' \/ InPipe(orderPipe, i)
    BY <2>2 DEF InOrder, InPipe
  <2>. QED
    BY <1>1, <1>3, <2>2, <2>3, <2>4, EmittedIsOut DEF InOrder
<1>. QED
  BY <1>6, <1>7

LEMMA DoneByRest ==
  ASSUME Base, DoneIsOut, Reclaim \/ OrderEof \/ ParentStep \/ Rest \/ UNCHANGED vars PROVE DoneIsOut'
<1>0. Last \in Nat /\ DOMAIN work = 1..Last /\ work \in Seq(Stages)
  BY BatchFacts DEF Base
<1>1. Last' = Last /\ UNCHANGED <<mode, batches, orderPipe, heap, out>>
  <2>1. CASE Reclaim \/ OrderEof
    BY <2>1, RanStays DEF OrderStep, Reclaim, OrderEof, orderVars
  <2>2. CASE ParentStep \/ Rest
    <3>1. UNCHANGED <<orderPipe, heap, out>>
      BY <2>2 DEF ParentStep, ReactorDone, ReactorAbort, RaceDeath, Signal, ExitRun, Rest, notParent, vars,
                  orderVars
    <3>. QED
      BY <2>2, <3>1, RanStays
  <2>3. CASE UNCHANGED vars
    BY <2>3 DEF vars, orderVars, Last
  <2>. QED
    BY <2>1, <2>2, <2>3
<1>2. UNCHANGED work \/ \E j \in DOMAIN work : work' = [work EXCEPT ![j] = "lost"]
  <2>1. CASE Reclaim \/ OrderEof
    BY <2>1 DEF Reclaim, OrderEof, notOrder
  <2>2. CASE ParentStep \/ Rest \/ UNCHANGED vars
    BY <2>2 DEF ParentStep, ReactorDone, ReactorAbort, RaceDeath, Signal, ExitRun, Rest, vars
  <2>. QED
    BY <2>1, <2>2
<1>3. \A i \in 1..Last : work'[i] = "done" => work[i] = "done"
  BY <1>0, <1>2
<1>4. mode # "realtime" /\ Healthy' => Healthy
  <2>1. CASE OrderEof
    BY <2>1 DEF OrderEof, Healthy
  <2>2. CASE Reclaim \/ UNCHANGED vars
    BY <2>2 DEF Reclaim, Healthy, orderVars, vars
  <2>3. CASE ParentStep \/ Rest
    <3>1. orderer' = orderer
      BY <2>3 DEF ParentStep, ReactorDone, ReactorAbort, RaceDeath, Signal, ExitRun, Rest, notParent, vars,
                  orderVars
    <3>2. alarm' = 0 => alarm = 0
      BY <2>3 DEF ParentStep, ReactorDone, ReactorAbort, RaceDeath, Signal, ExitRun, Rest, vars,
                  PullFireAlarm
    <3>. QED
      BY <3>1, <3>2 DEF Healthy
  <2>. QED
    BY <2>1, <2>2, <2>3
<1>5. CASE mode = "realtime"
  BY <1>1, <1>5 DEF DoneIsOut
<1>. QED
  BY <1>1, <1>3, <1>4, <1>5, DoneKept

LEMMA DoneNext ==
  ASSUME Base, DoneIsOut, Finish, [Next \/ Rest]_vars PROVE DoneIsOut'
<1>1. CASE Restart
  <2>1. Last' = 0
    BY <1>1 DEF Restart, Last
  <2>. QED
    BY <2>1 DEF DoneIsOut
<1>. QED
  BY <1>1, DoneByScan, DoneByWork, DoneByOrder, DoneByRest DEF Next, WorkStep, ParentStep

LEMMA SkippedNext ==
  ASSUME Books, SkippedIsOut, [Next \/ Rest]_vars PROVE SkippedIsOut'
<1>0. Base
  BY DEF Books
<1>1. ASSUME rs' = rs, Output \subseteq Output', fellBack => fellBack'
      PROVE  SkippedIsOut'
  <2>1. LedgerBytes(rs)' = LedgerBytes(rs)
    BY <1>1 DEF LedgerBytes, Covered, Bytes
  <2>. QED
    BY <1>1, <2>1 DEF SkippedIsOut
<1>2. CASE Restart
  <2>1. /\ rs'.horizon = ckpt.horizon /\ rs'.jagged = ckpt.jagged /\ outcome = "failed" /\ fellBack' = fellBack
    BY <1>2 DEF Restart
  <2>2. Output' = Output
    BY <1>0, <1>2, RestartKeepsOut, OutputKept
  <2>3. LedgerBytes(rs)' = LedgerBytes(ckpt)
    BY <2>1 DEF LedgerBytes, Covered, Bytes
  <2>. QED
    BY <2>1, <2>2, <2>3 DEF SkippedIsOut, Books, Reported
<1>3. CASE IngestNext \/ ScanNext
  <2>1. rs' = rs /\ fellBack' = fellBack /\ out' = out
    BY <1>0, <1>3, ScanAway DEF Base, userVars, orderVars
  <2>. QED
    BY <1>1, <2>1, OutputKept
<1>4. CASE WorkStep \/ Reclaim \/ OrderEof \/ ReactorDone \/ ReactorAbort \/ RaceDeath \/ Signal
  <2>1. rs' = rs
    BY <1>0, <1>4, RanStays DEF OrderStep, ParentStep
  <2>2. fellBack' = fellBack /\ Output \subseteq Output'
    BY <1>0, <1>4, UnaccountedIs, UnaccountedOut DEF Unaccounted
  <2>. QED
    BY <1>1, <2>1, <2>2
<1>5. CASE OrderTake \/ OrderEmit
  <2>1. rs' = rs
    BY <1>0, <1>5, RanStays DEF OrderStep
  <2>2. CASE Unaccounted
    BY <1>0, <1>1, <2>1, <2>2, UnaccountedOut DEF Unaccounted
  <2>3. ASSUME NEW i \in 1..Last, Emits(i) PROVE SkippedIsOut'
    BY <1>0, <1>1, <2>1, <2>3, EmitsIs DEF Emits
  <2>. QED
    BY <1>0, <1>5, <2>2, <2>3, OrderIs DEF OrderStep
<1>6. CASE ExitRun
  <2>1. rs' = rs
    BY <1>0, <1>6, RanStays DEF ParentStep
  <2>2. out' = out /\ (fellBack => fellBack')
    BY <1>6 DEF ExitRun, orderVars
  <2>. QED
    BY <1>1, <2>1, <2>2, OutputKept
<1>7. CASE Rest \/ UNCHANGED vars
  <2>1. rs' = rs /\ fellBack' = fellBack /\ out' = out
    BY <1>7 DEF Rest, vars, scanVars, userVars, orderVars
  <2>. QED
    BY <1>1, <2>1, OutputKept
<1>. QED
  BY <1>2, <1>3, <1>4, <1>5, <1>6, <1>7 DEF Next, WorkStep, ParentStep

(* With all batches run and all packets taken, none waits for its turn.    *)
LEMMA NoneWaits ==
  ASSUME Base, Ordered, mode = "ordered", orderer = "run", synced, orderPipe = <<>>, ~Due,
         \A i \in 1..Last : work[i] = "done"
  PROVE  heap = {}
<1>1. Last \in Nat /\ heap \subseteq 1..Last
  BY BatchFacts DEF Base, OrderQueue
<1>2. /\ expected \in 1..Last+1 /\ \A i \in 1..Last : InOrder(i) => expected <= i
      /\ \A i \in 1..Last : expected <= i /\ work[i] = "done" => InOrder(i)
  BY DEF Ordered, Turn, Healthy
<1>3. expected \notin heap /\ \A i : InOrder(i) <=> i \in heap
  <2>1. \A i : InOrder(i) <=> i \in heap
    BY DEF InOrder, InPipe
  <2>2. ASSUME expected \in heap PROVE LeastDue = expected
    <3>1. \A j \in heap : expected <= j
      BY <1>1, <1>2, <2>1
    <3>2. LeastDue \in heap /\ LeastDue <= expected
      BY <2>2, <3>1 DEF LeastDue
    <3>. QED
      BY <1>1, <1>2, <3>1, <3>2
  <2>. QED
    BY <2>1, <2>2 DEF Due
<1>4. ASSUME expected \in 1..Last PROVE FALSE
  BY <1>1, <1>2, <1>3, <1>4
<1>5. ASSUME NEW i \in heap PROVE FALSE
  BY <1>1, <1>2, <1>3, <1>4, <1>5
<1>. QED
  BY <1>5

LEMMA FinishNext ==
  ASSUME Base, Ordered, Finish, [Next \/ Rest]_vars PROVE Finish'
<1>0. Last \in Nat /\ DOMAIN work = 1..Last /\ work \in Seq(Stages) /\ ScanInv
  BY BatchFacts DEF Base
<1>1. CASE UNCHANGED vars \/ Rest
  BY <1>1 DEF vars, Rest, Finish, scanVars, orderVars, userVars, Last
<1>2. CASE IngestNext \/ ScanNext
  <2>1. /\ UNCHANGED <<mode, heap, orderPipe, orderer, reactor, outcome>> /\ outcome = "running"
        /\ alarm' = 0 => alarm = 0
        /\ scanPc = "done" => UNCHANGED <<scanPc, batches, work>>
    BY <1>0, <1>2, ScanAway DEF orderVars, userVars
  <2>2. scanPc = "done" => Last' = Last
    BY <2>1 DEF Last
  <2>. QED
    BY <2>1, <2>2 DEF Finish
<1>3. CASE WorkStep
  <2>1. /\ UNCHANGED <<mode, heap, orderer, reactor, outcome>> /\ outcome = "running"
        /\ alarm' = 0 => alarm = 0
    BY <1>3 DEF WorkStep, Claim, AckFallow, AckOrder, AckFails, DieRunning, notWork, orderVars, userVars,
                PullFireAlarm
  <2>2. \E i \in 1..Last : work[i] # "done"
    BY <1>0, <1>3 DEF WorkStep, Claim, AckFallow, AckOrder, AckFails, DieRunning
  <2>. QED
    BY <2>1, <2>2 DEF Finish
<1>4. CASE Reclaim
  BY <1>4 DEF Reclaim, Finish, orderVars, notWork, scanVars, userVars, Last
<1>5. CASE OrderTake \/ OrderEmit
  <2>1. UNCHANGED <<mode, reactor, outcome, scanPc, batches, work>> /\ outcome = "running" /\ orderer = "run"
    BY <1>5 DEF OrderTake, OrderEmit, notOrder, notWork, scanVars, userVars
  <2>2. (orderer' = orderer /\ alarm' = alarm) \/ alarm' # 0
    BY <1>5 DEF OrderTake, OrderEmit, Emit, EmitFails, PullFireAlarm
  <2>3. mode # "ordered" => heap' = heap
    BY <1>5 DEF OrderTake, OrderEmit, Due
  <2>. QED
    BY <2>1, <2>2, <2>3 DEF Finish, Last
<1>6. CASE OrderEof
  <2>1. /\ UNCHANGED <<mode, reactor, outcome, scanPc, batches, work, heap, orderPipe>>
        /\ outcome = "running" /\ orderer = "run" /\ orderPipe = <<>> /\ ~Due /\ reactor # "poll"
    BY <1>6 DEF OrderEof, notOrder, notWork, scanVars, userVars
  <2>2. alarm' = 0 => alarm = 0 /\ (mode = "ordered" => synced)
    BY <1>6 DEF OrderEof, PullFireAlarm, Base, OrderQueue
  <2>3. alarm' = 0 => heap = {}
    BY <2>1, <2>2, NoneWaits DEF Finish
  <2>. QED
    BY <2>1, <2>2, <2>3 DEF Finish, Last
<1>7. CASE ReactorDone \/ ReactorAbort \/ RaceDeath \/ Signal
  <2>1. /\ UNCHANGED <<mode, outcome, scanPc, batches, heap, orderPipe, orderer>>
        /\ outcome = "running" /\ reactor = "poll" /\ reactor' # "poll"
    BY <1>7 DEF ReactorDone, ReactorAbort, RaceDeath, Signal, notParent, scanVars, orderVars
  <2>2. \/ alarm' # 0
        \/ alarm = 0 /\ scanPc = "done" /\ work' = work /\ \A i \in 1..Last : work[i] = "done"
    BY <1>0, <1>7 DEF ReactorDone, ReactorAbort, RaceDeath, Signal, PullFireAlarm
  <2>. QED
    BY <2>1, <2>2 DEF Finish, Last
<1>8. CASE ExitRun
  <2>1. /\ UNCHANGED <<mode, scanPc, batches, work, heap, orderPipe, orderer, reactor, alarm>>
        /\ outcome = "running" /\ reactor # "poll" /\ orderer = "gone"
    BY <1>8 DEF ExitRun, scanVars, orderVars
  <2>. QED
    BY <2>1 DEF Finish, Last
<1>9. CASE Restart
  BY <1>9 DEF Restart, Finish
<1>. QED
  BY <1>1, <1>2, <1>3, <1>4, <1>5, <1>6, <1>7, <1>8, <1>9 DEF Next, WorkStep

LEMMA DeliveredCorrect == Spec => [](Books /\ Ordered /\ Delivered)
<1>1. Init => Delivered
  <2>. SUFFICES ASSUME Init PROVE Delivered
    OBVIOUS
  <2>1. /\ rs.horizon = 0 /\ rs.jagged = {} /\ heap = {} /\ Last = 0 /\ reactor = "poll" /\ outcome = "running"
        /\ mode # "realtime" => orderer = "run"
    BY DEF Init, Last
  <2>2. LedgerBytes(rs) = {}
    BY <2>1 DEF LedgerBytes, Covered
  <2>3. DoneIsOut /\ SkippedIsOut
    BY <2>1, <2>2 DEF DoneIsOut, SkippedIsOut
  <2>4. Finish
    BY <2>1 DEF Finish
  <2>. QED
    BY <2>3, <2>4 DEF Delivered
<1>2. Books /\ Ordered /\ Delivered /\ [Next \/ Rest]_vars => Delivered'
  BY DoneNext, SkippedNext, FinishNext DEF Books, Delivered
<1>. QED
  BY <1>1, <1>2, OrderedCorrect, PTL DEF Spec

(* A pipeline that has no intervals to clip: every first run, every run in *)
(* ordered or realtime mode, and a buffered one that resumes from a        *)
(* horizon alone.                                                          *)
Plain == mode = "buffered" => rs.jagged = {}

LEMMA PlainIs ==
  ASSUME Base, Ordered, Plain PROVE rs.jagged = {}
<1>1. mode \in {"ordered", "buffered", "realtime"}
  BY FixedFacts DEF Base, ScanInv
<1>. QED
  BY <1>1 DEF Plain, Base, Accounts, Ordered, OneAfterTheOther

(* What the scanner was to take is published or was skipped as done.       *)
LEMMA AllCovered ==
  ASSUME Books, Ordered, Plain, scanPc = "done", alarm = 0, NEW b \in Wanted, ~(b < rs.horizon)
  PROVE  \E i \in 1..Last : b \in Bytes(batches[i])
<1>1. b \in 0..End-1 /\ End \in Nat /\ rs.horizon \in Nat
  BY WantedIs, FixedFacts DEF End, Books, Base, ScanInv, ScanRanges
<1>2. batchStart = End /\ Chain /\ rs.jagged = {} /\ Last \in Nat
  BY PlainIs, BatchFacts DEF Books, Base, ScanInv, Ends
<1>3. Last # 0 /\ Last \in 1..Last
  BY <1>1, <1>2 DEF Chain
<1>4. batches[Last][2] = End
  BY <1>2, <1>3 DEF Chain
<1>5. b \in rs.horizon..batches[Last][2]-1
  BY <1>1, <1>4
<1>6. \E j \in 1..Last : b \in Bytes(batches[j])
  BY <1>2, <1>3, <1>5 DEF Chain
<1>. QED
  BY <1>6

(* Where no interval is to be clipped the scanner covers the input: no     *)
(* byte slips in between the last read and the end-of-input flag           *)
(* (unified_scanner, ring_copy).                                           *)
THEOREM ScanCoversCorrect == Spec => [](Plain => ScanCovers)
<1>1. ASSUME Books, Ordered, Plain PROVE ScanCovers
  <2>. SUFFICES ASSUME scanPc = "done", alarm = 0, NEW b \in Wanted
                PROVE  b \in Covered(SetOf(batches)) \cup LedgerBytes(rs)
    BY DEF ScanCovers
  <2>1. b \in 0..End-1 /\ End \in Nat /\ rs.horizon \in Nat
    BY <1>1, WantedIs, FixedFacts DEF End, Books, Base, ScanInv, ScanRanges
  <2>2. CASE b < rs.horizon
    <3>1. b \in 0..rs.horizon-1
      BY <2>1, <2>2
    <3>. QED
      BY <3>1 DEF LedgerBytes
  <2>3. CASE ~(b < rs.horizon)
    <3>1. PICK i \in 1..Last : b \in Bytes(batches[i])
      BY <1>1, <2>3, AllCovered
    <3>2. batches[i] \in SetOf(batches)
      <4>1. DOMAIN batches = 1..Last
        BY <1>1, BatchFacts DEF Books, Base
      <4>. QED
        BY <4>1 DEF SetOf
    <3>. QED
      BY <3>1, <3>2 DEF Covered
  <2>. QED
    BY <2>2, <2>3
<1>. QED
  BY <1>1, OrderedCorrect, PTL

LEMMA OutputIsWanted ==
  ASSUME Base PROVE Output \subseteq Wanted
<1>0. out \in Seq(Ivals) /\ Len(out) \in Nat /\ End \in Nat /\ N \in Nat
  BY FixedFacts DEF Base, Accounts, ScanInv
<1>. SUFFICES ASSUME NEW b \in Output PROVE b \in 0..End-1
  BY WantedIs DEF End
<1>1. PICK k \in 1..Len(out) : b \in Bytes(out[k])
  BY DEF Output, OutputBytes, Covered
<1>2. out[k] \in Ivals /\ out[k][2] <= End
  BY <1>0 DEF Base, Accounts
<1>. QED
  BY <1>0, <1>1, <1>2 DEF Bytes, Ivals

LEMMA CompleteIs ==
  ASSUME Books, Ordered, Delivered, Plain, outcome = "ok", alarm = 0, ~fellBack
  PROVE  Output = Wanted
<1>0. Base
  BY DEF Books
<1>1. Output \subseteq Wanted
  BY <1>0, OutputIsWanted
<1>2. /\ scanPc = "done" /\ \A i \in 1..Last : work[i] = "done"
      /\ orderer = "gone" /\ (mode # "realtime" => heap = {} /\ orderPipe = <<>>)
  BY DEF Delivered, Finish
<1>. SUFFICES ASSUME NEW b \in Wanted PROVE b \in Output
  BY <1>1
<1>3. CASE b < rs.horizon
  <2>1. b \in 0..End-1 /\ End \in Nat /\ rs.horizon \in Nat
    BY <1>0, WantedIs, FixedFacts DEF End, Base, ScanInv, ScanRanges
  <2>2. b \in 0..rs.horizon-1
    BY <1>3, <2>1
  <2>. QED
    BY <2>2 DEF Delivered, SkippedIsOut, LedgerBytes
<1>4. CASE ~(b < rs.horizon)
  <2>1. PICK i \in 1..Last : b \in Bytes(batches[i])
    BY <1>2, <1>4, AllCovered
  <2>2. IsOut(i)
    <3>1. CASE mode = "realtime"
      BY <1>2, <3>1 DEF Books, RanIsOut, Ran, IsOut
    <3>2. CASE mode # "realtime"
      <4>1. InOrder(i) \/ IsOut(i)
        BY <1>2, <3>2 DEF Delivered, DoneIsOut, Healthy
      <4>2. ~InOrder(i)
        BY <1>2, <3>2 DEF InOrder, InPipe
      <4>. QED
        BY <4>1, <4>2
    <3>. QED
      BY <3>1, <3>2
  <2>3. PICK k \in 1..Len(out) : out[k] = batches[i]
    BY <2>2 DEF IsOut
  <2>4. out[k] \in {out[j] : j \in 1..Len(out)}
    OBVIOUS
  <2>. QED
    BY <2>1, <2>3, <2>4 DEF Output, OutputBytes, Covered
<1>. QED
  BY <1>3, <1>4

(* A pipeline that ends without an alarm has put out every wanted byte,    *)
(* and no other: no batch is lost between ring, workers, packets and       *)
(* orderer, through failures and resumes, as long as the last run had no   *)
(* interval to clip (where it has, the code loses bytes: broken_clip).     *)
THEOREM CompleteCorrect == Spec => [](Plain => CompleteOutput)
<1>1. Books /\ Ordered /\ Delivered => (Plain => CompleteOutput)
  BY CompleteIs DEF CompleteOutput, Output
<1>. QED
  BY <1>1, DeliveredCorrect, PTL

-------------------------------------------------------------------------------
(* No byte twice.  The intervals of a checkpoint are merged: none begins   *)
(* where another ends.  So the front of a clipped batch is a byte that is  *)
(* not done yet, and the batch ends before the next that is.               *)

Separated(set) == \A iv \in set : iv[2] \notin Covered(set)

Tidy ==
  /\ Separated(rs.jagged)
  /\ outcome = "failed" => Separated(ckpt.jagged)

Apart ==
  /\ \A i \in 1..Last : batches[i][2] <= batchStart /\ Bytes(batches[i]) \cap LedgerBytes(rs) = {}
  /\ \A i, j \in 1..Last : i < j => batches[i][2] <= batches[j][1]

LEMMA MergedSeparated ==
  ASSUME NEW S \in SUBSET Ivals PROVE Separated(Merged(S))
<1>1. Covered(Merged(S)) = Covered(S)
  BY MergedIs
<1>. QED
  BY <1>1 DEF Separated, Merged

LEMMA FrontIsFree ==
  ASSUME NEW s \in 0..N, rs.horizon \in 0..N, rs.jagged \subseteq Ivals, Separated(rs.jagged)
  PROVE  FrontAfter(s) \notin Covered(rs.jagged)
<1> DEFINE s1 == IF s < rs.horizon THEN rs.horizon ELSE s
           hit == {iv \in rs.jagged : iv[1] <= s1 /\ s1 < iv[2]}
<1>0. N \in Nat /\ s1 \in Nat
  BY Constants
<1>1. CASE hit = {}
  <2>1. FrontAfter(s) = s1
    BY <1>1 DEF FrontAfter
  <2>2. ASSUME NEW iv \in rs.jagged, s1 \in Bytes(iv) PROVE FALSE
    <3>1. iv[1] \in Nat /\ iv[2] \in Nat
      BY <1>0 DEF Ivals
    <3>2. iv[1] <= s1 /\ s1 < iv[2]
      BY <1>0, <2>2, <3>1 DEF Bytes
    <3>. QED
      BY <1>1, <3>2
  <2>. QED
    BY <2>1, <2>2 DEF Covered
<1>2. CASE hit # {}
  <2>1. PICK iv : iv = CHOOSE x \in hit : TRUE
    OBVIOUS
  <2>2. iv \in hit
    BY <1>2, <2>1
  <2>3. FrontAfter(s) = iv[2]
    BY <1>2, <2>1 DEF FrontAfter
  <2>. QED
    BY <2>2, <2>3 DEF Separated
<1>. QED
  BY <1>1, <1>2

LEMMA ClipEnds ==
  ASSUME NEW s \in 0..N, NEW e \in 0..N, s <= e, rs.horizon \in 0..N, rs.jagged \subseteq Ivals,
         Clip(s, e) # <<>>, NEW jv \in rs.jagged, FrontAfter(s) < jv[1], jv[1] < e
  PROVE  Clip(s, e)[2] <= jv[1]
<1> DEFINE front == FrontAfter(s)
           starts == {iv[1] : iv \in {j \in rs.jagged : front < j[1] /\ j[1] < e}}
<1>0. N \in Nat
  BY Constants
<1>1. jv[1] \in starts
  OBVIOUS
<1>2. starts \in SUBSET Nat
  BY <1>0 DEF Ivals
<1>3. \E b \in starts : \A c \in starts : b <= c
  <2>. HIDE DEF starts
  <2>. QED
    BY <1>1, <1>2, Least
<1>4. PICK b : b = CHOOSE x \in starts : \A c \in starts : x <= c
  OBVIOUS
<1>5. \A c \in starts : b <= c
  <2>. HIDE DEF starts
  <2>. QED
    BY <1>3, <1>4
<1>6. starts # {} /\ ~(e <= front)
  BY <1>1 DEF Clip
<1>7. Clip(s, e) = <<front, b>>
  BY <1>4, <1>6 DEF Clip
<1>8. Clip(s, e)[2] = b
  BY <1>7
<1>. QED
  BY <1>1, <1>5, <1>8

LEMMA ClipApart ==
  ASSUME NEW s \in 0..N, NEW e \in 0..N, s <= e, rs.horizon \in 0..N, rs.jagged \subseteq Ivals,
         Separated(rs.jagged), Clip(s, e) # <<>>
  PROVE  Bytes(Clip(s, e)) \cap LedgerBytes(rs) = {}
<1>0. N \in Nat
  BY Constants
<1>1. PICK b \in Ivals : b = Clip(s, e) /\ b[1] = FrontAfter(s) /\ b[2] <= e /\ rs.horizon <= b[1]
  BY ClipIs
<1>2. b[1] \in Nat /\ b[2] \in Nat /\ b[1] < b[2] /\ rs.horizon \in Nat /\ e \in Nat
  BY <1>0 DEF Ivals
<1>. SUFFICES ASSUME NEW x \in Bytes(b), x \in LedgerBytes(rs) PROVE FALSE
  BY <1>1
<1>3. x \in Nat /\ b[1] <= x /\ x < b[2]
  BY <1>2 DEF Bytes
<1>4. x \in Covered(rs.jagged)
  BY <1>1, <1>2, <1>3 DEF LedgerBytes
<1>5. PICK jv \in rs.jagged : x \in Bytes(jv)
  BY <1>4 DEF Covered
<1>6. jv[1] \in Nat /\ jv[2] \in Nat
  BY <1>0 DEF Ivals
<1>7. jv[1] <= x /\ x < jv[2]
  BY <1>3, <1>5, <1>6 DEF Bytes
<1>8. ~(jv[1] <= b[1])
  <2>. SUFFICES ASSUME jv[1] <= b[1] PROVE FALSE
    OBVIOUS
  <2>1. b[1] \in Bytes(jv)
    BY <1>2, <1>3, <1>6, <1>7 DEF Bytes
  <2>. QED
    BY <1>1, <2>1, FrontIsFree DEF Covered
<1>9. FrontAfter(s) < jv[1] /\ jv[1] < e
  BY <1>1, <1>2, <1>3, <1>6, <1>7, <1>8
<1>10. b[2] <= jv[1]
  BY <1>1, <1>9, ClipEnds
<1>. QED
  BY <1>2, <1>3, <1>6, <1>7, <1>10

LEMMA ApartKept ==
  ASSUME Apart, UNCHANGED <<batches, batchStart, rs>> PROVE Apart'
BY DEF Apart, Last, Bytes, LedgerBytes, Covered

LEMMA ApartByFlush ==
  ASSUME Base, Tidy, Apart, NEW e \in 0..N, batchStart <= e, Flush(batchStart, e), batchStart' = e, rs' = rs
  PROVE  Apart'
<1>0. /\ N \in Nat /\ Last \in Nat /\ ScanRanges /\ batchStart \in Nat /\ batches \in Seq(Ivals)
      /\ batchStart \in 0..N /\ rs.horizon \in 0..N /\ rs.jagged \subseteq Ivals /\ e \in Nat
  BY Constants, BatchFacts DEF Base, ScanInv, ScanRanges
<1>1. \A i \in 1..Last : batches[i][1] \in Nat /\ batches[i][2] \in Nat
  BY BatchFacts, Constants DEF Base
<1>2. LedgerBytes(rs)' = LedgerBytes(rs)
  BY DEF LedgerBytes, Covered, Bytes
<1>3. CASE UNCHANGED batches
  <2>1. \A i \in 1..Last : batches[i][2] <= e
    BY <1>0, <1>1 DEF Apart
  <2>. QED
    BY <1>2, <1>3, <2>1 DEF Apart, Last, Bytes
<1>4. ASSUME NEW b \in Ivals, b[1] = FrontAfter(batchStart), b[2] <= e, b = Clip(batchStart, e), Adds(b)
      PROVE  Apart'
  <2>1. /\ Last' = Last + 1 /\ batches'[Last + 1] = b
        /\ \A i \in 1..Last : batches'[i] = batches[i]
    BY <1>0, <1>4, AppendIs DEF Adds, Last
  <2>2. \A i \in 1..Last' : i \in 1..Last \/ i = Last + 1
    BY <1>0, <2>1
  <2>3. Bytes(b) \cap LedgerBytes(rs) = {}
    <3>1. b # <<>>
      BY <1>0, <1>4, ClipIs DEF Ivals
    <3>. QED
      BY <1>0, <1>4, <3>1, ClipApart DEF Tidy
  <2>4. batchStart <= b[1] /\ b[1] \in Nat /\ b[2] \in Nat
    BY <1>0, <1>4, ClipIs DEF Ivals
  <2>5. \A i \in 1..Last : batches[i][2] <= e /\ batches[i][2] <= b[1]
    BY <1>0, <1>1, <2>4 DEF Apart
  <2>6. \A i \in 1..Last' : batches'[i][2] <= e /\ Bytes(batches'[i]) \cap LedgerBytes(rs) = {}
    BY <1>4, <2>1, <2>2, <2>3, <2>5 DEF Apart
  <2>7. \A i, j \in 1..Last' : i < j => batches'[i][2] <= batches'[j][1]
    <3>. SUFFICES ASSUME NEW i \in 1..Last', NEW j \in 1..Last', i < j PROVE batches'[i][2] <= batches'[j][1]
      OBVIOUS
    <3>1. i \in 1..Last
      BY <1>0, <2>1, <2>2
    <3>2. CASE j \in 1..Last
      BY <2>1, <3>1, <3>2 DEF Apart
    <3>3. CASE j = Last + 1
      BY <2>1, <2>5, <3>1, <3>3
    <3>. QED
      BY <2>2, <3>2, <3>3
  <2>. QED
    BY <1>2, <2>6, <2>7 DEF Apart, Bytes
<1>5. UNCHANGED <<batches, work>> \/
      \E b \in Ivals : b[1] = FrontAfter(batchStart) /\ b[2] <= e /\ b = Clip(batchStart, e) /\ Adds(b)
  BY <1>0, FlushIs
<1>. QED
  BY <1>3, <1>4, <1>5

LEMMA ApartByScan ==
  ASSUME Base, Tidy, Apart, IngestNext \/ ScanNext PROVE Apart'
<1>1. ScanInv /\ N \in Nat /\ pos \in 0..N /\ batchStart \in 0..N /\ batchStart <= pos
  BY Constants DEF Base, ScanInv, ScanRanges
<1>2. CASE Scan
  <2>1. PICK p \in 0..N : ScanTo(p)
    BY <1>1, <1>2, ScanStep
  <2>2. batchStart <= p /\ rs' = rs
    BY <1>1, <2>1 DEF ScanTo
  <2>3. (Flush(batchStart, p) /\ batchStart' = p) \/ UNCHANGED <<batchStart, batches>>
    BY <2>1 DEF ScanTo
  <2>. QED
    BY <2>2, <2>3, ApartByFlush, ApartKept
<1>3. CASE TailFlush
  <2>1. rs' = rs /\ batchStart' = pos
        /\ IF batchStart < pos THEN Flush(batchStart, pos) ELSE UNCHANGED <<batches, work>>
    BY <1>3 DEF TailFlush
  <2>2. batchStart < pos \/ batchStart = pos
    BY <1>1
  <2>. QED
    BY <1>1, <2>1, <2>2, ApartByFlush, ApartKept
<1>4. CASE IngestNext
  <2>1. UNCHANGED <<rs, batches, batchStart>>
    BY <1>4 DEF IngestNext, IngestAppend, IngestEnd, IngestFail, IngestEofFd, IngestFlag, notIngest, scanVars
  <2>. QED
    BY <2>1, ApartKept
<1>5. CASE CaptureComplete \/ Pread \/ Judge \/ Wait \/ ScanAborted
  <2>1. UNCHANGED <<rs, batches, batchStart>>
    BY <1>5 DEF CaptureComplete, Pread, Judge, Wait, ScanAborted
  <2>. QED
    BY <2>1, ApartKept
<1>. QED
  BY <1>2, <1>3, <1>4, <1>5 DEF ScanNext

LEMMA ApartNext ==
  ASSUME Base, Tidy, Apart, [Next \/ Rest]_vars PROVE Apart'
<1>1. CASE UNCHANGED vars
  BY <1>1, ApartKept DEF vars, scanVars
<1>2. CASE IngestNext \/ ScanNext
  BY <1>2, ApartByScan
<1>3. CASE WorkStep \/ Reclaim \/ OrderStep \/ ParentStep \/ Rest
  <2>1. Aside
    BY <1>3, AsideByWork, AsideByRest DEF Base
  <2>. QED
    BY <2>1, ApartKept DEF Aside, scanVars
<1>4. CASE Restart
  <2>1. Last' = 0
    BY <1>4 DEF Restart, Last
  <2>. QED
    BY <2>1 DEF Apart
<1>. QED
  BY <1>1, <1>2, <1>3, <1>4 DEF Next, WorkStep, OrderStep, ParentStep

LEMMA TidyKept ==
  ASSUME Tidy, UNCHANGED <<rs, outcome, ckpt>> PROVE Tidy'
BY DEF Tidy, Separated, Covered, Bytes

LEMMA TidyNext ==
  ASSUME Base, Tidy, [Next \/ Rest]_vars PROVE Tidy'
<1>1. CASE UNCHANGED vars \/ Rest
  BY <1>1, TidyKept DEF vars, Rest, scanVars, userVars
<1>2. CASE IngestNext \/ ScanNext
  BY <1>2, ScanAway, TidyKept DEF Base, userVars
<1>3. CASE WorkStep \/ Reclaim \/ OrderStep \/ ReactorDone \/ ReactorAbort \/ RaceDeath \/ Signal
  <2>1. rs' = rs
    BY <1>3, RanStays DEF ParentStep
  <2>2. UNCHANGED <<outcome, ckpt>>
    BY <1>3, UnaccountedIs, OrderIs DEF Unaccounted, OrderStep, Emits
  <2>. QED
    BY <2>1, <2>2, TidyKept
<1>4. CASE ExitRun
  <2>1. rs' = rs
    BY <1>4, RanStays DEF ParentStep
  <2>2. Separated(rs.jagged)'
    BY <2>1 DEF Tidy, Separated, Covered, Bytes
  <2>3. CASE outcome' = "ok"
    BY <2>2, <2>3 DEF Tidy
  <2>4. CASE ckpt' = Checkpoint
    <3>1. ledger.jagged \in SUBSET Ivals
      BY DEF Base, Accounts, Ledgers
    <3>2. ckpt'.jagged = Merged(ledger.jagged)
      BY <2>4 DEF Checkpoint
    <3>3. PICK J : J = ckpt'.jagged
      OBVIOUS
    <3>4. Separated(J)
      BY <3>1, <3>2, <3>3, MergedSeparated
    <3>5. Separated(ckpt.jagged)'
      BY <3>3, <3>4 DEF Separated, Covered, Bytes
    <3>. QED
      BY <2>2, <3>5 DEF Tidy
  <2>. QED
    BY <1>4, <2>3, <2>4 DEF ExitRun
<1>5. CASE Restart
  <2>1. rs'.jagged = ckpt.jagged /\ outcome = "failed" /\ outcome' = "running"
    BY <1>5 DEF Restart
  <2>2. Separated(rs.jagged)'
    BY <2>1 DEF Tidy, Separated, Covered, Bytes
  <2>. QED
    BY <2>1, <2>2 DEF Tidy
<1>. QED
  BY <1>1, <1>2, <1>3, <1>4, <1>5 DEF Next, WorkStep, OrderStep, ParentStep

(* What is out was kept from the runs before or belongs to a batch of this *)
(* one.                                                                    *)
Origin ==
  mode # "realtime" => \A b \in Output : b \in LedgerBytes(rs) \/ \E i \in 1..Last : b \in Bytes(batches[i])

LEMMA OriginNext ==
  ASSUME Base, AllReported, Origin, [Next \/ Rest]_vars PROVE Origin'
<1>0. Last \in Nat
  BY BatchFacts DEF Base
<1>1. ASSUME UNCHANGED <<mode, rs>>, mode # "realtime" => Output' = Output, Last <= Last', Last' \in Nat,
             \A i \in 1..Last : batches'[i] = batches[i]
      PROVE  Origin'
  <2>1. LedgerBytes(rs)' = LedgerBytes(rs)
    BY <1>1 DEF LedgerBytes, Covered, Bytes
  <2>2. \A i \in 1..Last : i \in 1..Last' /\ Bytes(batches[i])' = Bytes(batches[i])
    BY <1>0, <1>1 DEF Bytes
  <2>. QED
    BY <1>1, <2>1, <2>2 DEF Origin
<1>2. CASE UNCHANGED vars \/ Rest
  <2>1. UNCHANGED <<mode, rs, out, batches>>
    BY <1>2 DEF vars, Rest, scanVars, orderVars
  <2>2. Last' = Last
    BY <2>1 DEF Last
  <2>. QED
    BY <1>0, <1>1, <2>1, <2>2, OutputKept
<1>3. CASE IngestNext \/ ScanNext
  <2>1. UNCHANGED <<mode, rs, out>>
    BY <1>3, ScanAway DEF Base, orderVars
  <2>2. Last <= Last' /\ Last' \in Nat /\ \A i \in 1..Last : batches'[i] = batches[i]
    BY <1>3, GrowsByScan, GrowsIs DEF Base
  <2>. QED
    BY <1>1, <2>1, <2>2, OutputKept
<1>4. CASE WorkStep \/ Reclaim \/ OrderStep \/ ParentStep
  <2>1. Last' = Last /\ UNCHANGED <<mode, rs, batches>>
    BY <1>4, RanStays
  <2>2. CASE Unaccounted
    BY <1>0, <1>1, <2>1, <2>2, UnaccountedOut
  <2>3. ASSUME NEW i \in 1..Last, Emits(i) PROVE Origin'
    <3>1. Output' = Output \cup Bytes(batches[i])
      BY <2>3, EmitsIs
    <3>2. LedgerBytes(rs)' = LedgerBytes(rs)
      BY <2>1 DEF LedgerBytes, Covered, Bytes
    <3>3. \A j \in 1..Last : Bytes(batches[j])' = Bytes(batches[j])
      BY <2>1 DEF Bytes
    <3>. QED
      BY <2>1, <3>1, <3>2, <3>3 DEF Origin
  <2>4. CASE ExitRun
    <3>1. out' = out
      BY <2>4 DEF ExitRun, orderVars
    <3>. QED
      BY <1>0, <1>1, <2>1, <3>1, OutputKept
  <2>. QED
    BY <1>4, <2>2, <2>3, <2>4, UnaccountedIs, OrderIs DEF ParentStep
<1>5. CASE Restart
  <2>1. outcome = "failed" /\ rs'.horizon = ckpt.horizon /\ rs'.jagged = ckpt.jagged /\ mode' = mode
    BY <1>5 DEF Restart
  <2>2. Output' = Output
    BY <1>5, RestartKeepsOut, OutputKept
  <2>3. LedgerBytes(rs)' = LedgerBytes(ckpt)
    BY <2>1 DEF LedgerBytes, Covered, Bytes
  <2>. QED
    BY <2>1, <2>2, <2>3 DEF Origin, AllReported
<1>. QED
  BY <1>2, <1>3, <1>4, <1>5 DEF Next, WorkStep, OrderStep, ParentStep

(* In buffered mode the packets lie in the pipe alone, one per batch.      *)
Queue ==
  mode = "buffered" =>
    /\ \A k \in 1..Len(orderPipe) : work[orderPipe[k]] = "done"
    /\ \A j, k \in 1..Len(orderPipe) : orderPipe[j] = orderPipe[k] => j = k

LEMMA QueueKept ==
  ASSUME OrderQueue, Queue, UNCHANGED <<mode, orderPipe>>,
         \A i \in 1..Last : work[i] = "done" => work'[i] = "done"
  PROVE  Queue'
BY DEF Queue, OrderQueue

LEMMA DoneStays ==
  ASSUME Base, [Next \/ Rest]_vars, ~Restart
  PROVE  \A i \in 1..Last : work[i] = "done" => work'[i] = "done"
<1>0. Last \in Nat /\ DOMAIN work = 1..Last /\ work \in Seq(Stages) /\ ScanInv
  BY BatchFacts DEF Base
<1>1. CASE IngestNext \/ ScanNext
  BY <1>0, <1>1, GrowsByScan, GrowsIs
<1>2. CASE WorkStep \/ Reclaim \/ OrderStep \/ ParentStep \/ Rest \/ UNCHANGED vars
  <2>1. UNCHANGED work \/ \E j \in DOMAIN work, st \in Stages : work[j] # "done" /\ work' = [work EXCEPT ![j] = st]
    <3>1. CASE WorkStep
      BY <3>1 DEF WorkStep, Claim, AckFallow, AckOrder, AckFails, DieRunning, Stages
    <3>2. CASE Reclaim \/ OrderStep
      BY <3>2 DEF OrderStep, Reclaim, OrderTake, OrderEmit, OrderEof, notOrder
    <3>3. CASE ParentStep \/ Rest \/ UNCHANGED vars
      BY <3>3 DEF ParentStep, ReactorDone, ReactorAbort, RaceDeath, Signal, ExitRun, Rest, vars, Stages
    <3>. QED
      BY <1>2, <3>1, <3>2, <3>3
  <2>. QED
    BY <1>0, <2>1
<1>. QED
  BY <1>1, <1>2 DEF Next, WorkStep, OrderStep, ParentStep

LEMMA QueueNext ==
  ASSUME Base, Queue, [Next \/ Rest]_vars PROVE Queue'
<1>0. /\ Last \in Nat /\ DOMAIN work = 1..Last /\ work \in Seq(Stages) /\ OrderQueue
      /\ orderPipe \in Seq(Nat) /\ \A k \in 1..Len(orderPipe) : orderPipe[k] \in 1..Last
  BY BatchFacts DEF Base, OrderQueue
<1>1. CASE Restart
  <2>1. Len(orderPipe') = 0
    BY <1>1 DEF Restart
  <2>. QED
    BY <2>1 DEF Queue
<1>2. ASSUME NEW j \in 1..Last, AckOrder(j), mode = "buffered" PROVE Queue'
  <2>1. /\ orderPipe' = Append(orderPipe, j) /\ work' = [work EXCEPT ![j] = "done"] /\ work[j] = "half"
    BY <1>2 DEF AckOrder
  <2>2. /\ Len(orderPipe') = Len(orderPipe) + 1 /\ Len(orderPipe) \in Nat
        /\ \A k \in 1..Len(orderPipe) : orderPipe'[k] = orderPipe[k]
        /\ orderPipe'[Len(orderPipe) + 1] = j
    BY <1>0, <2>1, AppendIs
  <2>3. \A k \in 1..Len(orderPipe') : k \in 1..Len(orderPipe) \/ k = Len(orderPipe) + 1
    BY <2>2
  <2>4. work'[j] = "done" /\ \A i \in 1..Last : i # j => work'[i] = work[i]
    BY <1>0, <2>1
  <2>5. \A k \in 1..Len(orderPipe) : orderPipe[k] # j /\ work[orderPipe[k]] = "done"
    BY <1>2, <2>1 DEF Queue
  <2>6. \A k \in 1..Len(orderPipe') : work'[orderPipe'[k]] = "done"
    BY <1>0, <2>2, <2>3, <2>4, <2>5
  <2>7. \A i, k \in 1..Len(orderPipe') : orderPipe'[i] = orderPipe'[k] => i = k
    BY <1>2, <2>2, <2>3, <2>5 DEF Queue
  <2>. QED
    BY <2>6, <2>7 DEF Queue
<1>3. CASE OrderTake
  <2>1. /\ Len(orderPipe) > 0 /\ orderPipe' = Tail(orderPipe) /\ UNCHANGED <<work, mode>>
    BY <1>0, <1>3 DEF OrderTake, notOrder, notWork
  <2>2. /\ Len(orderPipe') = Len(orderPipe) - 1 /\ Len(orderPipe) \in Nat
        /\ \A k \in 1..Len(orderPipe') : k + 1 \in 1..Len(orderPipe) /\ orderPipe'[k] = orderPipe[k + 1]
    BY <1>0, <2>1, TailIs
  <2>. SUFFICES ASSUME mode = "buffered" PROVE Queue'
    BY <2>1 DEF Queue
  <2>3. \A k \in 1..Len(orderPipe') : work[orderPipe'[k]] = "done"
    BY <2>2 DEF Queue
  <2>4. ASSUME NEW j \in 1..Len(orderPipe'), NEW k \in 1..Len(orderPipe'), orderPipe'[j] = orderPipe'[k]
        PROVE  j = k
    <3>1. j + 1 = k + 1
      BY <2>2, <2>4 DEF Queue
    <3>. QED
      BY <2>2, <3>1
  <2>. QED
    BY <2>1, <2>3, <2>4 DEF Queue
<1>4. ASSUME UNCHANGED <<mode, orderPipe>>, ~Restart PROVE Queue'
  BY <1>0, <1>4, DoneStays, QueueKept
<1>5. mode' = mode
  BY ModeStays
<1>6. mode # "buffered" => Queue'
  BY <1>5 DEF Queue
<1>7. CASE IngestNext \/ ScanNext
  <2>1. orderPipe' = orderPipe /\ outcome = "running"
    BY <1>7, ScanAway DEF Base, orderVars
  <2>. QED
    BY <1>4, <1>5, <2>1 DEF Restart
<1>8. CASE Claim \/ \E i \in DOMAIN work : AckFallow(i) \/ AckFails(i) \/ DieRunning(i)
  BY <1>4, <1>5, <1>8 DEF Claim, AckFallow, AckFails, DieRunning, orderVars, Restart
<1>9. CASE Reclaim \/ OrderEmit \/ OrderEof \/ ReactorDone \/ ReactorAbort \/ RaceDeath \/ Signal \/ ExitRun
  BY <1>4, <1>5, <1>9 DEF Reclaim, OrderEmit, OrderEof, ReactorDone, ReactorAbort, RaceDeath, Signal, ExitRun,
                          notParent, orderVars, Restart
<1>10. CASE Rest \/ UNCHANGED vars
  BY <1>1, <1>4, <1>5, <1>10 DEF Rest, vars, orderVars
<1>. QED
  BY <1>0, <1>1, <1>2, <1>3, <1>6, <1>7, <1>8, <1>9, <1>10 DEF Next

LEMMA OneOfEach ==
  ASSUME Base, Waiting, Queue, Finish, mode # "realtime"
  PROVE  /\ \A i \in 1..Last : InOrder(i) => work[i] = "done"
         /\ \A j, k \in 1..Len(orderPipe) : orderPipe[j] = orderPipe[k] => j = k
         /\ \A k \in 1..Len(orderPipe) : orderPipe[k] \notin heap
<1>1. CASE mode = "ordered"
  BY <1>1 DEF Waiting
<1>2. CASE mode = "buffered"
  BY <1>2 DEF Queue, Finish, InOrder, InPipe
<1>. QED
  BY <1>1, <1>2, FixedFacts DEF Base, ScanInv

(* The orderer takes packets away, and emits what was waiting for it.      *)
LEMMA OrderOnce ==
  ASSUME Base, Waiting, Queue, Finish, OrderTake \/ OrderEmit
  PROVE  /\ \A i : InOrder(i)' => InOrder(i)
         /\ Unaccounted \/ \E i \in 1..Last : Emits(i) /\ InOrder(i) /\ ~InOrder(i)'
<1>0. /\ Last \in Nat /\ OrderQueue /\ orderPipe \in Seq(Nat) /\ heap \subseteq 1..Last
      /\ \A k \in 1..Len(orderPipe) : orderPipe[k] \in 1..Last
  BY BatchFacts DEF Base, OrderQueue
<1>1. mode # "realtime" /\ outcome = "running"
  BY DEF OrderTake, OrderEmit, Base, Accounts
<1>2. /\ \A j, k \in 1..Len(orderPipe) : orderPipe[j] = orderPipe[k] => j = k
      /\ \A k \in 1..Len(orderPipe) : orderPipe[k] \notin heap
  BY <1>1, OneOfEach
<1>3. UNCHANGED <<mode, limit, rs, batches, outcome, fellBack, ckpt>>
  <2>1. UNCHANGED <<outcome, fellBack, ckpt>>
    BY DEF OrderTake, OrderEmit, notOrder, notWork, userVars
  <2>. QED
    BY <2>1, RanStays DEF OrderStep
<1>4. ASSUME NEW i \in 1..Last, Emit(i) \/ EmitFails(i) PROVE Emits(i) \/ Unaccounted
  BY <1>1, <1>3, <1>4 DEF EmitFails, Unaccounted, Emits
<1>5. CASE OrderTake
  <2>1. PICK j \in 1..Last : j = Head(orderPipe)
    BY <1>5 DEF OrderTake, Base, OrderQueue
  <2>2. /\ Len(orderPipe) > 0 /\ orderPipe' = Tail(orderPipe) /\ j = orderPipe[1] /\ 1 \in 1..Len(orderPipe)
    BY <1>0, <1>5, <2>1 DEF OrderTake
  <2>3. /\ Len(orderPipe') = Len(orderPipe) - 1 /\ Len(orderPipe) \in Nat
        /\ \A k \in 1..Len(orderPipe') : k + 1 \in 1..Len(orderPipe) /\ orderPipe'[k] = orderPipe[k + 1]
    BY <1>0, <2>2, TailIs
  <2>4. \A i : InPipe(orderPipe', i) => InPipe(orderPipe, i)
    BY <2>3 DEF InPipe
  <2>5. \A i : InOrder(i)' <=> i \in heap' \/ InPipe(orderPipe', i)
    BY DEF InOrder, InPipe
  <2>6. InPipe(orderPipe, j)
    BY <2>2 DEF InPipe
  <2>7. ~InPipe(orderPipe', j)
    <3>. SUFFICES ASSUME NEW k \in 1..Len(orderPipe'), orderPipe'[k] = j PROVE FALSE
      BY DEF InPipe
    <3>1. k + 1 = 1
      BY <1>2, <2>2, <2>3
    <3>. QED
      BY <2>3, <3>1
  <2>8. j \notin heap
    BY <1>2, <2>2
  <2>9. CASE heap' = heap \cup {j} /\ UNCHANGED <<tracker, ledger, out>>
    <3>1. Unaccounted
      BY <1>3, <2>9 DEF Unaccounted
    <3>. QED
      BY <2>4, <2>5, <2>6, <2>9, <3>1 DEF InOrder
  <2>10. CASE heap' = heap /\ (Emit(j) \/ EmitFails(j))
    BY <1>4, <2>4, <2>5, <2>6, <2>7, <2>8, <2>10 DEF InOrder
  <2>. QED
    BY <1>5, <2>1, <2>9, <2>10 DEF OrderTake
<1>6. CASE OrderEmit
  <2>1. PICK j \in 1..Last : j = LeastDue /\ j \in heap
    BY <1>0, <1>6, LeastDueIs
  <2>2. heap' = heap \ {j} /\ (Emit(j) \/ EmitFails(j)) /\ orderPipe' = orderPipe
    BY <1>6, <2>1 DEF OrderEmit
  <2>3. ~InPipe(orderPipe, j)
    BY <1>2, <2>1 DEF InPipe
  <2>4. \A i : InOrder(i)' <=> i \in heap' \/ InPipe(orderPipe, i)
    BY <2>2 DEF InOrder, InPipe
  <2>. QED
    BY <1>4, <2>1, <2>2, <2>3, <2>4 DEF InOrder
<1>. QED
  BY <1>5, <1>6

(* What is still to be emitted is not in the output yet.                   *)
Fresh ==
  mode # "realtime" =>
    \A i \in 1..Last : work[i] # "done" \/ InOrder(i) => Bytes(batches[i]) \cap Output = {}

LEMMA FreshKept ==
  ASSUME Fresh, mode' = mode, mode # "realtime" => Output' = Output, Last' = Last, UNCHANGED batches,
         mode # "realtime" => \A i \in 1..Last : work'[i] # "done" \/ InOrder(i)' => work[i] # "done" \/ InOrder(i)
  PROVE  Fresh'
<1>1. \A i \in 1..Last : Bytes(batches[i])' = Bytes(batches[i])
  BY DEF Bytes
<1>. QED
  BY <1>1 DEF Fresh

LEMMA FreshByScan ==
  ASSUME Base, Tidy, Apart, Origin, Fresh, IngestNext \/ ScanNext PROVE Fresh'
<1>1. /\ Last \in Nat /\ Last' \in Nat /\ Last <= Last' /\ Last' <= Last + 1
      /\ \A i \in 1..Last : i \in 1..Last' /\ batches'[i] = batches[i] /\ work'[i] = work[i]
      /\ Last' # Last => Last' = Last + 1
  BY GrowsByScan, GrowsIs DEF Base
<1>2. UNCHANGED <<mode, rs, out, heap, orderPipe>>
  BY ScanAway DEF Base, orderVars
<1>3. Output' = Output
  BY <1>2, OutputKept
<1>4. \A i : InOrder(i)' <=> InOrder(i)
  BY <1>2 DEF InOrder, InPipe
<1>5. \A i \in 1..Last : Bytes(batches[i])' = Bytes(batches[i])
  BY <1>1 DEF Bytes
<1>. SUFFICES ASSUME mode # "realtime", NEW i \in 1..Last', work'[i] # "done" \/ InOrder(i)',
                     NEW b \in Bytes(batches[i])', b \in Output
              PROVE  FALSE
  BY <1>2, <1>3 DEF Fresh
<1>6. CASE i \in 1..Last
  BY <1>1, <1>4, <1>5, <1>6 DEF Fresh
<1>7. CASE i \notin 1..Last
  <2>1. i = Last + 1 /\ Apart'
    BY <1>1, <1>7, ApartByScan
  <2>2. b \notin LedgerBytes(rs)
    <3>1. LedgerBytes(rs)' = LedgerBytes(rs)
      BY <1>2 DEF LedgerBytes, Covered, Bytes
    <3>. QED
      BY <2>1, <3>1 DEF Apart
  <2>3. PICK j \in 1..Last : b \in Bytes(batches[j])
    BY <2>2 DEF Origin
  <2>4. j \in 1..Last' /\ j < i /\ batches'[j] = batches[j]
    BY <1>1, <2>1
  <2>5. batches[j][2] <= batches'[i][1]
    BY <2>1, <2>4 DEF Apart
  <2>6. batches[j] \in Ivals /\ batches'[i] \in Ivals
    <3>1. ScanInv'
      BY BaseByScan DEF Base
    <3>2. batches \in Seq(Ivals) /\ batches' \in Seq(Ivals)
      BY <3>1 DEF Base, ScanInv, BatchRanges
    <3>. QED
      BY <3>2 DEF Last
  <2>7. \A iv \in Ivals : iv[1] \in Nat /\ iv[2] \in Nat
    BY Constants DEF Ivals
  <2>8. b \in batches[j][1]..batches[j][2]-1 /\ b \in batches'[i][1]..batches'[i][2]-1
    BY <2>3 DEF Bytes
  <2>. QED
    BY <2>5, <2>6, <2>7, <2>8
<1>. QED
  BY <1>6, <1>7

(* Two published batches have no byte in common.                           *)
LEMMA BatchesApart ==
  ASSUME Base, Apart, NEW i \in 1..Last, NEW j \in 1..Last, i # j
  PROVE  Bytes(batches[i]) \cap Bytes(batches[j]) = {}
<1>1. \A k \in 1..Last : batches[k][1] \in Nat /\ batches[k][2] \in Nat
  BY BatchFacts, Constants DEF Base
<1>2. batches[i][2] <= batches[j][1] \/ batches[j][2] <= batches[i][1]
  <2>1. i \in Nat /\ j \in Nat
    BY BatchFacts DEF Base
  <2>2. i < j \/ j < i
    BY <2>1
  <2>. QED
    BY <2>2 DEF Apart
<1>. QED
  BY <1>1, <1>2 DEF Bytes

LEMMA FreshNext ==
  ASSUME Base, Tidy, Apart, Origin, Waiting, Queue, Finish, Fresh, [Next \/ Rest]_vars PROVE Fresh'
<1>0. /\ Last \in Nat /\ DOMAIN work = 1..Last /\ work \in Seq(Stages)
      /\ orderPipe \in Seq(Nat)
  BY BatchFacts DEF Base, OrderQueue
<1>1. CASE IngestNext \/ ScanNext
  BY <1>1, FreshByScan
<1>2. ASSUME NEW j \in 1..Last, AckOrder(j) PROVE Fresh'
  <2>0. WorkStep
    BY <1>0, <1>2 DEF WorkStep
  <2>1. Last' = Last /\ UNCHANGED <<mode, batches>> /\ (mode # "realtime" => Output' = Output)
    BY <2>0, RanStays, UnaccountedIs, UnaccountedOut
  <2>2. /\ mode # "realtime" => orderPipe' = Append(orderPipe, j)
        /\ work' = [work EXCEPT ![j] = "done"] /\ work[j] = "half" /\ heap' = heap
    BY <1>2 DEF AckOrder
  <2>3. mode # "realtime" => \A i : InOrder(i)' => InOrder(i) \/ i = j
    <3>. SUFFICES ASSUME mode # "realtime", NEW i, InOrder(i)' PROVE InOrder(i) \/ i = j
      OBVIOUS
    <3>0. orderPipe' = Append(orderPipe, j) /\ orderPipe \in Seq(Nat) /\ j \in Nat
      BY <1>0, <2>2
    <3>1. /\ Len(orderPipe') = Len(orderPipe) + 1 /\ Len(orderPipe) \in Nat
          /\ \A k \in 1..Len(orderPipe) : orderPipe'[k] = orderPipe[k]
          /\ orderPipe'[Len(orderPipe) + 1] = j
      BY <3>0, AppendIs
    <3>2. \A k \in 1..Len(orderPipe') : k \in 1..Len(orderPipe) \/ k = Len(orderPipe) + 1
      BY <3>1
    <3>. QED
      BY <2>2, <3>1, <3>2 DEF InOrder, InPipe
  <2>4. \A i \in 1..Last : work'[i] # "done" => work[i] # "done"
    BY <1>0, <2>2
  <2>5. work[j] # "done"
    BY <2>2
  <2>. QED
    BY <2>1, <2>3, <2>4, <2>5, FreshKept
<1>3. CASE Claim \/ \E i \in DOMAIN work : AckFallow(i) \/ AckFails(i) \/ DieRunning(i)
  <2>0. WorkStep
    BY <1>3 DEF WorkStep
  <2>1. Last' = Last /\ UNCHANGED <<mode, batches>> /\ (mode # "realtime" => Output' = Output)
    BY <2>0, RanStays, UnaccountedIs, UnaccountedOut
  <2>2. UNCHANGED <<orderPipe, heap>> /\ ~Restart
    BY <1>3 DEF Claim, AckFallow, AckFails, DieRunning, orderVars, Restart
  <2>3. \A i \in 1..Last : work'[i] # "done" => work[i] # "done"
    BY <2>2, DoneStays
  <2>4. \A i : InOrder(i)' <=> InOrder(i)
    BY <2>2 DEF InOrder, InPipe
  <2>. QED
    BY <2>1, <2>3, <2>4, FreshKept
<1>4. CASE OrderTake \/ OrderEmit
  <2>1. Last' = Last /\ UNCHANGED <<mode, batches>>
    BY <1>4, RanStays DEF OrderStep
  <2>2. UNCHANGED work
    BY <1>4 DEF OrderTake, OrderEmit, notOrder
  <2>3. \A i : InOrder(i)' => InOrder(i)
    BY <1>4, OrderOnce
  <2>4. CASE Unaccounted
    BY <2>1, <2>2, <2>3, <2>4, UnaccountedOut, FreshKept
  <2>5. ASSUME NEW e \in 1..Last, Emits(e), InOrder(e), ~InOrder(e)' PROVE Fresh'
    <3>1. Output' = Output \cup Bytes(batches[e]) /\ mode # "realtime"
      BY <2>5, EmitsIs DEF Emits
    <3>2. work[e] = "done"
      BY <2>5, <3>1, OneOfEach
    <3>3. \A i \in 1..Last : Bytes(batches[i])' = Bytes(batches[i])
      BY <2>1 DEF Bytes
    <3>. SUFFICES ASSUME NEW i \in 1..Last, work[i] # "done" \/ InOrder(i)'
                  PROVE  Bytes(batches[i]) \cap Output' = {}
      BY <2>1, <2>2, <3>3 DEF Fresh
    <3>4. i # e
      BY <2>5, <3>2
    <3>5. Bytes(batches[i]) \cap Bytes(batches[e]) = {}
      BY <3>4, BatchesApart
    <3>6. Bytes(batches[i]) \cap Output = {}
      BY <2>3, <3>1 DEF Fresh
    <3>. QED
      BY <3>1, <3>5, <3>6
  <2>. QED
    BY <1>4, <2>4, <2>5, OrderOnce
<1>5. CASE Reclaim \/ OrderEof \/ ParentStep \/ Rest
  <2>1. Last' = Last /\ UNCHANGED <<mode, batches>>
    BY <1>5, RanStays DEF OrderStep
  <2>2. UNCHANGED <<orderPipe, heap, out>>
    BY <1>5 DEF Reclaim, OrderEof, ParentStep, ReactorDone, ReactorAbort, RaceDeath, Signal, ExitRun, Rest,
                notParent, vars, orderVars
  <2>3. \A i \in 1..Last : work'[i] # "done" => work[i] # "done"
    <3>1. CASE Rest
      BY <3>1 DEF Rest, vars
    <3>2. CASE ~Rest
      <4>1. ~Restart
        BY <1>5, <3>2 DEF Reclaim, OrderEof, ParentStep, ReactorDone, ReactorAbort, RaceDeath, Signal, ExitRun,
                          Restart
      <4>. QED
        BY <4>1, DoneStays
    <3>. QED
      BY <3>1, <3>2
  <2>4. \A i : InOrder(i)' <=> InOrder(i)
    BY <2>2 DEF InOrder, InPipe
  <2>. QED
    BY <2>1, <2>2, <2>3, <2>4, OutputKept, FreshKept
<1>6. CASE UNCHANGED vars
  <2>1. UNCHANGED <<mode, batches, work, orderPipe, heap, out>>
    BY <1>6 DEF vars, orderVars
  <2>2. Last' = Last /\ Output' = Output /\ \A i : InOrder(i)' <=> InOrder(i)
    BY <2>1, OutputKept DEF Last, InOrder, InPipe
  <2>. QED
    BY <2>1, <2>2, FreshKept
<1>7. CASE Restart
  <2>1. Last' = 0
    BY <1>7 DEF Restart, Last
  <2>. QED
    BY <2>1 DEF Fresh
<1>. QED
  BY <1>0, <1>1, <1>2, <1>3, <1>4, <1>5, <1>6, <1>7 DEF Next, ParentStep

(* No byte of the input is in the durable output twice, in ordered and in  *)
(* buffered mode, through failures, checkpoints and resumes, as long as    *)
(* the shared ledger holds all intervals (TRACK_COMPLETED_BATCH, the clip  *)
(* of UNIFIED_SCANNER_FLUSH).                                              *)
AtMostOnce ==
  mode # "realtime" =>
    \A i, j \in 1..Len(out) : i # j => Bytes(out[i]) \cap Bytes(out[j]) = {}

LEMMA OnceNext ==
  ASSUME Base, Waiting, Queue, Finish, Fresh, AtMostOnce, [Next \/ Rest]_vars PROVE AtMostOnce'
<1>0. out \in Seq(Ivals) /\ Len(out) \in Nat
  BY DEF Base, Accounts
<1>1. mode' = mode
  BY ModeStays
<1>2. CASE UNCHANGED out
  BY <1>1, <1>2 DEF AtMostOnce, Bytes
<1>3. ASSUME NEW e \in 1..Last, Emits(e), InOrder(e) PROVE AtMostOnce'
  <2>1. Emit(e) /\ mode # "realtime" /\ batches' = batches
    BY <1>3 DEF Emits
  <2>2. /\ Len(out') = Len(out) + 1
        /\ \A k \in 1..Len(out) : out'[k] = out[k]
        /\ out'[Len(out) + 1] = batches[e]
    BY <2>1, OutIs DEF Base, Emit
  <2>3. \A k \in 1..Len(out') : k \in 1..Len(out) \/ k = Len(out) + 1
    BY <1>0, <2>2
  <2>4. ASSUME NEW k \in 1..Len(out) PROVE Bytes(out[k]) \cap Bytes(batches[e]) = {}
    <3>1. Bytes(batches[e]) \cap Output = {}
      BY <1>3, <2>1 DEF Fresh
    <3>2. out[k] \in {out[j] : j \in 1..Len(out)}
      OBVIOUS
    <3>. QED
      BY <3>1, <3>2 DEF Output, OutputBytes, Covered
  <2>5. ASSUME NEW i \in 1..Len(out'), NEW j \in 1..Len(out'), i # j PROVE Bytes(out'[i]) \cap Bytes(out'[j]) = {}
    <3>1. CASE i \in 1..Len(out) /\ j \in 1..Len(out)
      BY <2>1, <2>2, <2>5, <3>1 DEF AtMostOnce
    <3>2. CASE i \in 1..Len(out) /\ j = Len(out) + 1
      BY <2>2, <2>4, <3>2
    <3>3. CASE i = Len(out) + 1 /\ j \in 1..Len(out)
      BY <2>2, <2>4, <3>3
    <3>. QED
      BY <2>3, <2>5, <3>1, <3>2, <3>3
  <2>. QED
    BY <2>5 DEF AtMostOnce, Bytes
<1>4. CASE mode = "realtime"
  BY <1>1, <1>4 DEF AtMostOnce
<1>5. Unaccounted => AtMostOnce'
  BY <1>2, <1>4 DEF Unaccounted
<1>6. CASE OrderTake \/ OrderEmit
  BY <1>3, <1>5, <1>6, OrderOnce
<1>7. CASE IngestNext \/ ScanNext \/ WorkStep \/ Reclaim \/ OrderEof \/ ReactorDone \/ ReactorAbort \/ RaceDeath
           \/ Signal \/ UNCHANGED vars \/ Rest
  BY <1>5, <1>7, UnaccountedIs DEF Rest
<1>8. CASE ExitRun
  BY <1>2, <1>8 DEF ExitRun, orderVars
<1>9. CASE Restart
  BY <1>2, <1>9, RestartKeepsOut
<1>. QED
  BY <1>6, <1>7, <1>8, <1>9 DEF Next, WorkStep

Single == Tidy /\ Apart /\ Origin /\ Queue /\ Fresh /\ AtMostOnce
LEMMA SingleInit ==
  ASSUME Init PROVE AllReported /\ Single
<1>1. /\ out = <<>> /\ tracker = ledger /\ outcome = "running" /\ rs.jagged = {} /\ Last = 0
      /\ orderPipe = <<>>
  BY DEF Init, Last
<1>2. Output = {} /\ Len(out) = 0
  BY <1>1 DEF Output, OutputBytes, Covered
<1>3. AllReported
  BY <1>1, <1>2 DEF AllReported
<1>4. Tidy /\ Apart /\ Origin /\ Queue /\ Fresh /\ AtMostOnce
  BY <1>1, <1>2 DEF Tidy, Separated, Apart, Origin, Queue, Fresh, AtMostOnce
<1>. QED
  BY <1>3, <1>4 DEF Single

LEMMA SingleCorrect == Spec /\ []Fits => [](Books /\ Ordered /\ Delivered /\ AllReported /\ Single)
<1>1. Init => AllReported /\ Single
  BY SingleInit
<1>2. Books /\ AllReported /\ Fits' /\ [Next \/ Rest]_vars => AllReported'
  BY AllReportedNext
<1>3. Books /\ Ordered /\ Delivered /\ AllReported /\ Single /\ [Next \/ Rest]_vars => Single'
  <2>. SUFFICES ASSUME Books, Ordered, Delivered, AllReported, Single, [Next \/ Rest]_vars PROVE Single'
    OBVIOUS
  <2>1. Base /\ Waiting /\ Finish /\ Tidy /\ Apart /\ Origin /\ Queue /\ Fresh /\ AtMostOnce
    BY DEF Books, Ordered, Delivered, Single
  <2>. QED
    BY <2>1, TidyNext, ApartNext, OriginNext, QueueNext, FreshNext, OnceNext DEF Single
<1>. QED
  BY <1>1, <1>2, <1>3, DeliveredCorrect, PTL DEF Spec

(* AtMostOnce holds at any time of a pipeline whose ledger never overflows; *)
(* an overflow loses intervals, and a resume runs their batches again.     *)
THEOREM AtMostOnceCorrect == Spec /\ []Fits => []AtMostOnce
<1>1. Single => AtMostOnce
  BY DEF Single
<1>. QED
  BY <1>1, SingleCorrect, PTL

-------------------------------------------------------------------------------
(* The refinement of Delivery: what Promise counts, and its steps.         *)

Copies == [b \in 0..N-1 |-> Cardinality({i \in Durable : b \in Bytes(out[i])})]
Shown == IF mode = "realtime" THEN {} ELSE Output
Closed == outcome = "ok" /\ alarm = 0 /\ ~fellBack /\ mode # "realtime"

LEMMA CopiesIs ==
  ASSUME Base, AtMostOnce PROVE Copies = [b \in 0..N-1 |-> IF b \in Shown THEN 1 ELSE 0]
<1>. SUFFICES ASSUME NEW b \in 0..N-1
              PROVE  Cardinality({i \in Durable : b \in Bytes(out[i])}) = IF b \in Shown THEN 1 ELSE 0
  BY DEF Copies
<1> DEFINE S == {i \in Durable : b \in Bytes(out[i])}
<1>1. CASE mode = "realtime"
  <2>1. S = {} /\ Shown = {}
    BY <1>1 DEF Durable, Shown
  <2>. QED
    BY <2>1, FS_EmptySet
<1>2. CASE mode # "realtime"
  <2>1. Durable = 1..Len(out) /\ Shown = Output
    BY <1>2 DEF Durable, Shown, Base, Accounts
  <2>2. b \in Output <=> S # {}
    BY <2>1 DEF Output, OutputBytes, Covered
  <2>3. CASE S = {}
    BY <2>1, <2>2, <2>3, FS_EmptySet
  <2>4. ASSUME NEW k \in S PROVE Cardinality(S) = 1
    <3>1. \A i \in S : i = k
      BY <1>2, <2>1, <2>4 DEF AtMostOnce
    <3>2. S = {k}
      BY <3>1
    <3>3. Cardinality({k}) = 1
      BY FS_Singleton
    <3>. HIDE DEF S
    <3>. QED
      BY <3>2, <3>3
  <2>5. CASE S # {}
    <3>1. Cardinality(S) = 1
      BY <2>4, <2>5
    <3>. QED
      BY <2>1, <2>2, <2>5, <3>1
  <2>. QED
    BY <2>3, <2>5
<1>. QED
  BY <1>1, <1>2

Counts == \A b \in 0..N-1 : Copies[b] = IF b \in Shown THEN 1 ELSE 0

LEMMA CopiesAre ==
  ASSUME Base, AtMostOnce PROVE Counts
BY CopiesIs DEF Counts

LEMMA PromiseInit ==
  ASSUME Init PROVE Promise!Init
<1>1. /\ out = <<>> /\ tracker.bytes = 0 /\ outcome = "running"
  BY DEF Init, EmptyLedger
<1>2. Durable = {}
  BY <1>1 DEF Durable
<1>3. \A b : {i \in Durable : b \in Bytes(out[i])} = {}
  BY <1>2
<1>4. Copies = [b \in 0..N-1 |-> 0]
  BY <1>3, FS_EmptySet DEF Copies
<1>5. Wanted \subseteq 0..N-1
  <2>1. End \in 0..N /\ N \in Nat
    BY BaseInit, FixedFacts DEF Base, ScanInv
  <2>. QED
    BY <2>1, WantedIs DEF End
<1>. QED
  BY <1>1, <1>4, <1>5 DEF Promise!Init, Copies

LEMMA SameWanted ==
  ASSUME Base, [Next \/ Rest]_vars PROVE Wanted' = Wanted
<1>1. limit' = limit
  <2>1. CASE UNCHANGED vars \/ Rest
    BY <2>1 DEF vars, Rest
  <2>2. CASE IngestNext \/ ScanNext
    BY <2>2, ScanAway DEF Base
  <2>3. CASE WorkStep \/ Reclaim \/ OrderStep \/ ParentStep
    BY <2>3, RanStays
  <2>4. CASE Restart
    BY <2>4 DEF Restart
  <2>. QED
    BY <2>1, <2>2, <2>3, <2>4 DEF Next, WorkStep, OrderStep, ParentStep
<1>. QED
  BY <1>1 DEF Wanted, AfterDelim, DelimsIn

(* An emission delivers the bytes of its batch.                            *)
LEMMA DeliverIs ==
  ASSUME Base, Fresh, Counts, Counts', [Next \/ Rest]_vars,
         NEW e \in 1..Last, Emits(e), InOrder(e)
  PROVE  Promise!Deliver
<1>1. /\ mode # "realtime" /\ mode' = mode /\ outcome = "running" /\ outcome' = outcome
      /\ Output' = Output \cup Bytes(batches[e]) /\ Bytes(batches[e]) \cap Output = {}
  BY EmitsIs DEF Emits, Fresh
<1>2. PICK c : c = Copies
  OBVIOUS
<1>3. PICK d : d = Copies'
  OBVIOUS
<1>4. PICK s \in Nat, t \in Nat : s < t /\ t <= N /\ batches[e] = <<s, t>>
  <2>1. batches[e] \in Ivals
    BY BatchFacts DEF Base
  <2>. QED
    BY <2>1, Constants DEF Ivals
<1>5. Bytes(batches[e]) = s..t-1 /\ s..t-1 \subseteq 0..N-1 /\ s \in s..t-1
  BY <1>4, Constants DEF Bytes
<1>6. \A b \in 0..N-1 : c[b] = IF b \in Output THEN 1 ELSE 0
  BY <1>1, <1>2 DEF Counts, Shown
<1>7. \A b \in 0..N-1 : d[b] = IF b \in Output' THEN 1 ELSE 0
  <2>1. \A b \in 0..N-1 : Copies'[b] = IF b \in Shown' THEN 1 ELSE 0
    BY DEF Counts
  <2>2. Shown' = Output'
    BY <1>1 DEF Shown
  <2>. QED
    BY <1>3, <2>1, <2>2
<1>8. {b \in 0..N-1 : d[b] # c[b]} = s..t-1
  BY <1>1, <1>5, <1>6, <1>7
<1>9. Promise!Added = s..t-1
  BY <1>2, <1>3, <1>8 DEF Promise!Added, Copies
<1>10. \A b \in s..t-1 : c[b] = 0 /\ d[b] = 1
  BY <1>1, <1>5, <1>6, <1>7
<1>11. \A b, x \in s..t-1 : \A y \in 0..N-1 : b <= y /\ y <= x => y \in s..t-1
  BY <1>4
<1>12. Wanted' = Wanted
  BY SameWanted
<1>13. PICK A : A = Promise!Added
  OBVIOUS
<1>14. Promise!Deliver <=>
         /\ A # {} /\ ~Closed
         /\ \A b \in A : c[b] = 0 /\ d[b] = 1
         /\ \A b, x \in A : \A y \in 0..N-1 : b <= y /\ y <= x => y \in A
         /\ Wanted' = Wanted /\ Closed' = Closed
  BY <1>2, <1>3, <1>13 DEF Promise!Deliver, Copies, Closed
<1>15. ~Closed /\ ~Closed'
  BY <1>1 DEF Closed
<1>16. A = s..t-1 /\ A # {}
  BY <1>5, <1>9, <1>13
<1>17. \A b \in A : c[b] = 0 /\ d[b] = 1
  BY <1>10, <1>16
<1>18. \A b, x \in A : \A y \in 0..N-1 : b <= y /\ y <= x => y \in A
  BY <1>11, <1>16
<1>19. Closed' = Closed
  BY <1>15 DEF Closed
<1>. QED
  BY ONLY <1>12, <1>14, <1>15, <1>16, <1>17, <1>18, <1>19

LEMMA OnlyRunning ==
  ASSUME Base, IngestNext \/ ScanNext \/ WorkStep \/ Reclaim \/ OrderStep \/ ParentStep
  PROVE  outcome = "running"
<1>1. CASE IngestNext \/ ScanNext
  BY <1>1, ScanAway DEF Base
<1>2. CASE WorkStep \/ Reclaim \/ OrderStep \/ ParentStep
  BY <1>2 DEF WorkStep, Claim, AckFallow, AckOrder, AckFails, DieRunning, Reclaim, OrderStep, OrderTake,
              OrderEmit, OrderEof, ParentStep, ReactorDone, ReactorAbort, RaceDeath, Signal, ExitRun
<1>. QED
  BY <1>1, <1>2

LEMMA SameCopies ==
  ASSUME Counts, Counts', Shown' = Shown PROVE Copies' = Copies
<1>1. PICK c : c = Copies
  OBVIOUS
<1>2. PICK d : d = Copies'
  OBVIOUS
<1>3. \A b \in 0..N-1 : c[b] = d[b]
  BY <1>1, <1>2 DEF Counts
<1>4. c = [b \in 0..N-1 |-> c[b]] /\ d = [b \in 0..N-1 |-> d[b]]
  BY <1>1, <1>2 DEF Copies
<1>5. c = d
  BY <1>3, <1>4
<1>. QED
  BY <1>1, <1>2, <1>5

(* Success closes the delivery: every wanted byte is out once.             *)
LEMMA CloseIs ==
  ASSUME Base, Counts, Counts', CompleteOutput', ExitRun, Closed' PROVE Promise!Close
<1>1. /\ outcome = "running" /\ UNCHANGED <<mode, out, alarm>> /\ outcome' = "ok"
      /\ mode # "realtime" /\ alarm' = 0 /\ ~fellBack'
  BY DEF ExitRun, Closed, orderVars
<1>2. Output' = Output /\ Shown = Output /\ Shown' = Shown
  BY <1>1, OutputKept DEF Shown
<1>3. Copies' = Copies
  BY <1>2, SameCopies
<1>4. Wanted' = Wanted
  BY SameWanted DEF Next
<1>5. Output = Wanted
  BY <1>1, <1>2, <1>4 DEF CompleteOutput, Output
<1>6. PICK c : c = Copies
  OBVIOUS
<1>7. \A b \in 0..N-1 : c[b] = IF b \in Wanted THEN 1 ELSE 0
  BY <1>2, <1>5, <1>6 DEF Counts
<1>8. Wanted \subseteq 0..N-1
  <2>1. End \in 0..N /\ N \in Nat
    BY FixedFacts DEF Base, ScanInv
  <2>. QED
    BY <2>1, WantedIs DEF End
<1>9. Wanted = {b \in 0..N-1 : c[b] = 1}
  <2>1. PICK W : W = Wanted
    OBVIOUS
  <2>2. W \subseteq 0..N-1 /\ \A b \in 0..N-1 : c[b] = 1 <=> b \in W
    BY <1>7, <1>8, <2>1
  <2>3. W = {b \in 0..N-1 : c[b] = 1}
    BY <2>2
  <2>. QED
    BY <2>1, <2>3
<1>10. ~Closed
  BY <1>1 DEF Closed
<1>11. Promise!Close <=>
         Closed' /\ ~Closed /\ Wanted = {b \in 0..N-1 : c[b] = 1} /\ Wanted' = Wanted /\ Copies' = Copies
  BY <1>6 DEF Promise!Close, Copies, Closed
<1>. QED
  BY <1>3, <1>4, <1>9, <1>10, <1>11

LEMMA PromiseStep ==
  ASSUME Books, Ordered, Delivered, Single, Counts, Counts', CompleteOutput', [Next \/ Rest]_vars
  PROVE  Promise!Next \/ (Copies' = Copies /\ Closed' = Closed)
<1>0. Base /\ Waiting /\ Queue /\ Finish /\ Fresh
  BY DEF Books, Ordered, Delivered, Single
<1>1. mode' = mode
  BY <1>0, ModeStays
<1>2. ASSUME Unaccounted PROVE Copies' = Copies
  <2>1. Shown' = Shown
    BY <1>0, <1>1, <1>2, UnaccountedOut DEF Shown
  <2>. QED
    BY <2>1, SameCopies
<1>3. CASE UNCHANGED vars \/ Rest
  <2>1. Unaccounted /\ Closed' = Closed
    BY <1>3 DEF Unaccounted, Closed, vars, Rest, orderVars, userVars
  <2>. QED
    BY <1>2, <2>1
<1>4. ASSUME Unaccounted, outcome = "running" PROVE Copies' = Copies /\ Closed' = Closed
  <2>1. outcome' = outcome
    BY <1>4 DEF Unaccounted
  <2>2. ~Closed /\ ~Closed'
    BY <1>4, <2>1 DEF Closed
  <2>3. Closed' = Closed
    BY <2>2 DEF Closed
  <2>. QED
    BY <1>2, <1>4, <2>3
<1>5. CASE IngestNext \/ ScanNext \/ WorkStep \/ Reclaim \/ OrderEof \/ ReactorDone \/ ReactorAbort \/ RaceDeath
           \/ Signal
  <2>1. Unaccounted
    BY <1>0, <1>5, UnaccountedIs
  <2>2. outcome = "running"
    BY <1>0, <1>5, OnlyRunning DEF OrderStep, ParentStep
  <2>. QED
    BY <1>4, <2>1, <2>2
<1>6. CASE OrderTake \/ OrderEmit
  <2>1. outcome = "running"
    BY <1>0, <1>6, OnlyRunning DEF OrderStep
  <2>2. ASSUME NEW e \in 1..Last, Emits(e), InOrder(e) PROVE Promise!Next
    <3>1. Promise!Deliver
      BY <1>0, <2>2, DeliverIs
    <3>. QED
      BY <3>1 DEF Promise!Next
  <2>. QED
    BY <1>0, <1>4, <1>6, <2>1, <2>2, OrderOnce
<1>7. CASE ExitRun
  <2>1. CASE Closed'
    <3>1. Promise!Close
      BY <1>0, <1>7, <2>1, CloseIs
    <3>. QED
      BY <3>1 DEF Promise!Next
  <2>2. CASE ~Closed'
    <3>1. outcome = "running" /\ out' = out
      BY <1>7 DEF ExitRun, orderVars
    <3>2. Closed' = Closed
      <4>1. ~Closed
        BY <3>1 DEF Closed
      <4>. QED
        BY <2>2, <4>1 DEF Closed
    <3>3. Shown' = Shown
      BY <1>1, <3>1, OutputKept DEF Shown
    <3>. QED
      BY <3>2, <3>3, SameCopies
  <2>. QED
    BY <2>1, <2>2
<1>8. CASE Restart
  <2>1. out' = out /\ outcome = "failed" /\ outcome' = "running"
    BY <1>0, <1>8, RestartKeepsOut DEF Restart
  <2>2. Closed' = Closed
    <3>1. ~Closed /\ ~Closed'
      BY <2>1 DEF Closed
    <3>. QED
      BY <3>1 DEF Closed
  <2>3. Shown' = Shown
    BY <1>1, <2>1, OutputKept DEF Shown
  <2>. QED
    BY <2>2, <2>3, SameCopies
<1>. QED
  BY <1>3, <1>5, <1>6, <1>7, <1>8 DEF Next, WorkStep

(* The pipeline implements exactly-once delivery through failures,         *)
(* checkpoints and resumes ("Exactly-Once", frun.bash, --resume), under    *)
(* two conditions the code does not ensure by itself: the shared ledger    *)
(* holds all intervals, and a run that succeeds had none to clip.          *)
THEOREM DeliveryCorrect == Spec /\ []Fits /\ [](outcome = "ok" => Plain) => ImplementsDelivery
<1>1. Books /\ Single => Counts
  BY CopiesAre DEF Books, Single
<1>2. (Plain => CompleteOutput) /\ (outcome = "ok" => Plain) => CompleteOutput
  BY DEF CompleteOutput
<1>3. Init => Promise!Init
  BY PromiseInit
<1>4. Books /\ Ordered /\ Delivered /\ Single /\ Counts /\ Counts' /\ CompleteOutput' /\ [Next \/ Rest]_vars
        => [Promise!Next]_<<Copies, Closed>>
  BY PromiseStep
<1>. QED
  BY <1>1, <1>2, <1>3, <1>4, SingleCorrect, CompleteCorrect, PTL
     DEF Spec, ImplementsDelivery, Promise!Spec, Copies, Closed

(* In ordered mode blocks complete in the order of the input: the ledger   *)
(* has no interval, both conditions hold at any time, and exactly-once     *)
(* delivery holds unconditionally.                                         *)
THEOREM OrderedDeliveryCorrect == Spec /\ mode = "ordered" => ImplementsDelivery
<1>1. Books /\ mode = "ordered" /\ [Next \/ Rest]_vars => (mode = "ordered")'
  BY ModeStays DEF Books
<1>2. Ordered /\ mode = "ordered" => Fits /\ (outcome = "ok" => Plain)
  <2>. SUFFICES ASSUME Ordered, mode = "ordered" PROVE Fits /\ Plain
    OBVIOUS
  <2>1. tracker.jagged = {}
    BY DEF Ordered, OneAfterTheOther
  <2>2. Cardinality({}) = 0 /\ JaggedCap \in Nat
    BY FS_EmptySet, Constants
  <2>. QED
    BY <2>1, <2>2 DEF Fits, Plain
<1>. QED
  BY <1>1, <1>2, OrderedCorrect, DeliveryCorrect, PTL DEF Spec

===============================================================================
