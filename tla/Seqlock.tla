------------------------------- MODULE Seqlock --------------------------------
(***************************************************************************)
(* The ledger of completed output in shared memory and its seqlock.  One   *)
(* writer, the orderer (TRACK_COMPLETED_BATCH), publishes the fields of    *)
(* the ledger (horizon, byte count, jagged count, intervals) between two   *)
(* increments of resume_seq; readers (a resuming scanner, ring_dump_resume)*)
(* copy the fields between two loads of resume_seq and try again unless    *)
(* both are the same even number.  The fields are stored and loaded with   *)
(* relaxed atomics, so their order inside a publication is open.           *)
(*                                                                         *)
(* A field's value is the number of the publication that stored it.        *)
(*                                                                         *)
(* StoresHeld says whether the target keeps the relaxed field stores       *)
(* behind the first increment.  x86 does.  An ACQ_REL increment followed   *)
(* by relaxed stores does not ask for it: on the weakly ordered targets    *)
(* of the build (aarch64, ppc64le, riscv64) a field store may become       *)
(* visible before the increment that announces it.                         *)
(***************************************************************************)
EXTENDS Naturals

CONSTANTS Fields,      \* words of the ledger
          Readers,     \* processes that take a snapshot
          MaxPublish,  \* bound: publications of the writer
          StoresHeld   \* the target orders the first increment before the stores

VARIABLES seq,    \* g_state->resume_seq
          mem,    \* field -> publication whose value is visible
          pub,    \* the publication the writer works on (0: none yet)
          todo,   \* its fields that are not visible yet
          rpc,    \* reader: "seq1", "copy", "done"
          seq1,   \* the reader's first load
          copied, \* fields the reader has loaded in this try
          snap    \* field -> value loaded

ASSUME SeqlockAssumption == MaxPublish \in Nat /\ StoresHeld \in BOOLEAN

wvars == <<seq, mem, pub, todo>>
rvars == <<rpc, seq1, copied, snap>>
vars  == <<seq, mem, pub, todo, rpc, seq1, copied, snap>>

Init ==
  /\ seq = 0 /\ pub = 0 /\ todo = {}
  /\ mem = [f \in Fields |-> 0]
  /\ rpc = [r \in Readers |-> "seq1"]
  /\ seq1 = [r \in Readers |-> 0]
  /\ copied = [r \in Readers |-> {}]
  /\ snap = [r \in Readers |-> [f \in Fields |-> 0]]

Odd(n) == n % 2 = 1

-------------------------------------------------------------------------------
(* The writer. *)

Prepare ==                      \* tracker updated in private memory
  /\ seq = 2 * pub /\ pub < MaxPublish
  /\ pub' = pub + 1 /\ todo' = Fields
  /\ UNCHANGED <<seq, mem, rvars>>

FirstBump ==
  /\ seq = 2 * (pub - 1) /\ pub > 0
  /\ seq' = seq + 1
  /\ UNCHANGED <<mem, pub, todo, rvars>>

StoreField(f) ==
  /\ f \in todo
  /\ StoresHeld => Odd(seq)
  /\ mem' = [mem EXCEPT ![f] = pub] /\ todo' = todo \ {f}
  /\ UNCHANGED <<seq, pub, rvars>>

SecondBumpLost ==               \* mutant: the last publication stays open
  /\ Odd(seq) /\ todo = {} /\ pub < MaxPublish
  /\ seq' = seq + 1
  /\ UNCHANGED <<mem, pub, todo, rvars>>

SecondBump ==                   \* a RELEASE increment: every store is visible
  /\ Odd(seq) /\ todo = {}
  /\ seq' = seq + 1
  /\ UNCHANGED <<mem, pub, todo, rvars>>

-------------------------------------------------------------------------------
(* A reader. *)

LoadSeq1(r) ==
  /\ rpc[r] = "seq1"
  /\ seq1' = [seq1 EXCEPT ![r] = seq]
  /\ copied' = [copied EXCEPT ![r] = {}]
  /\ rpc' = [rpc EXCEPT ![r] = "copy"]
  /\ UNCHANGED <<wvars, snap>>

CopyField(r, f) ==
  /\ rpc[r] = "copy" /\ f \notin copied[r]
  /\ snap' = [snap EXCEPT ![r][f] = mem[f]]
  /\ copied' = [copied EXCEPT ![r] = @ \cup {f}]
  /\ UNCHANGED <<wvars, rpc, seq1>>

FenceDropped(r) == TRUE            \* mutant: seq2 may be loaded first
RetryOnChange(r) == seq1[r] # seq  \* mutant: an odd number is accepted

(* The acquire fence before seq2: every field is loaded. *)
Fence(r) == copied[r] = Fields

Retry(r) == seq1[r] # seq \/ Odd(seq1[r])

LoadSeq2(r) ==
  /\ rpc[r] = "copy" /\ Fence(r)
  /\ rpc' = [rpc EXCEPT ![r] = IF Retry(r) THEN "seq1" ELSE "done"]
  /\ UNCHANGED <<wvars, seq1, copied, snap>>

(* ring_dump_resume runs twice on an abort: for the file and the message.  *)
Again(r) ==
  /\ rpc[r] = "done"
  /\ rpc' = [rpc EXCEPT ![r] = "seq1"]
  /\ UNCHANGED <<wvars, seq1, copied, snap>>

-------------------------------------------------------------------------------
Write == Prepare \/ FirstBump \/ SecondBump \/ \E f \in Fields : StoreField(f)

Read(r) == LoadSeq1(r) \/ LoadSeq2(r) \/ \E f \in Fields : CopyField(r, f)

Next == Write \/ \E r \in Readers : Read(r) \/ Again(r)

Spec == Init /\ [][Next]_vars

FairSpec == Spec /\ WF_vars(Write) /\ \A r \in Readers : WF_vars(Read(r))

-------------------------------------------------------------------------------
TypeOK ==
  /\ seq \in Nat /\ pub \in 0..MaxPublish /\ todo \subseteq Fields
  /\ mem \in [Fields -> Nat]
  /\ rpc \in [Readers -> {"seq1", "copy", "done"}]
  /\ seq1 \in [Readers -> Nat]
  /\ copied \in [Readers -> SUBSET Fields]
  /\ snap \in [Readers -> [Fields -> Nat]]

(* An accepted snapshot is one publication, the one the sequence word      *)
(* named: no field is older or newer (core_scanner_loop's is_resume block, *)
(* ring_dump_resume: a torn one "means wrong skip ranges, i.e. silent      *)
(* loss/duplication on resume").                                           *)
SnapshotIsPublication ==
  \A r \in Readers : rpc[r] = "done" =>
    \A f \in Fields : seq1[r] = 2 * snap[r][f]

(* Taking a snapshot is atomic: when it is accepted it is what the writer  *)
(* has published at that moment, and nothing half published.               *)
SnapshotIsCurrent ==
  [][\A r \in Readers : rpc[r] = "copy" /\ rpc'[r] = "done" =>
       snap[r] = mem /\ todo \in {{}, Fields}]_vars

(* A snapshot is not retried for ever once the writer pauses: the writer   *)
(* leaves no odd sequence number behind.                                   *)
SnapshotEnds == \A r \in Readers : rpc[r] = "copy" ~> rpc[r] = "done"
=============================================================================
