# forkrun: a TLA+ model of the ring engine, its pipeline and its launcher

forkrun runs a command over the records of its input, like `xargs -P` or GNU
parallel, with a lock-free ring in shared memory between one *scanner*, which
cuts the input into batches, and many *workers*, which claim batches with an
atomic fetch-and-add. It promises that no batch is lost and none is run twice
on behalf of the output, although workers may die at any instruction, that an
aborted run can be resumed, and that several NUMA nodes share one input. This
directory holds the models, the TLC runs that check them and the TLAPS proofs
about them. All source references are to `src/forkrun_ring.c` unless another
file is named.

## 1. Inventory

### Components

| component | state | operations | modelled in |
|---|---|---|---|
| ring state | `write_idx`, `read_idx`, the per-slot arrays `offset_ring`, `end_ring`, `lines_ring`, `minor_ring`, `scanner_finished`, `emergency_abort`, `active_workers`, `active_waiters`, `escrow_pending`, `worker_txn[]`, the escrow pipe, the eventfds | – | `RingState` |
| scanner, ring side (`core_scanner_loop`) | `local_scan_idx` | write a slot behind the shield, adaptive commit, tail re-batching, sentinel, end of input | `Scanner` |
| scanner, stream side | buffer, pending lines, batch start, `status` | refill and end-of-input test, search, flush, clip, tail flush, `-n` | `UmaScan` |
| worker (`ring_worker`, `ring_claim`, `ring_ack`, the worker loop of `frun.bash`) | ticket and kill count held, `tl_drain_escrow`, index snapshots, its transaction record | register, claim, wait, publish the record, poison decision, payload, commit, ack, exit | `Worker` |
| parent (the reactor of `frun.bash`, `ring_recover_worker_core`, `ring_poll`) | slot generations, what it is in the middle of | SPAWN, classification of a death, escrow deposit, respawn, free, abort | `Recovery` |
| reclaimer (`ring_fallow`) | `fallow_active`, `min_idx`, heap of acknowledged intervals, byte horizon | consume acks, advance the contiguous prefix, punch holes | `RingEngine` (index prefix), `Orderer` (bytes) |
| orderer (`ring_order`) | reorder heap, committed horizon, ledger of completed intervals beyond it | take a packet, synchronise after a resume, emit, `TRACK_COMPLETED_BATCH`, end | `Orderer` |
| checkpoint and resume | horizon and jagged intervals under a seqlock, `set_resume`, `dump_resume`, the EXIT trap of `frun.bash` | snapshot, checkpoint, clip a resumed scan | `Resume`, `Seqlock` |
| UMA ingest (`ring_copy`) | bytes ingested, EOF eventfd, `ingest_complete` | append, end, fail | `UmaScan` |
| NUMA ingest, indexer, chunk queues | per-node chunk queues, meta ring, progress marks | publish a chunk under the lifetime bound, index it, claim or steal it, tear down | `Chunks` |
| `-n` and exact lines (`-L`) across nodes | running line count and open batch, passed from chunk to chunk; the cutoff | wait for the chunk before, cut, hand on | `Chunks` |
| Python shim's worker loop and C drain (`src/python/forkrun/_shim.c`) | output file, cursor, frame counters, signal pipe, announced frontier | claim, frame, deposit, commit, notify; move committed records | `Publication` |
| launcher (`src/forkrun_cleanroom.c`) | slot generations, the drain child | reap, recover, wake the drain, respawn, tear down, join | `Publication` |
| Python reactor and reassembly (`_reactor.py`, `_reassembly.py`) | its own reactor over the same engine | classify deaths, reassemble frames | not modelled: the launcher's policy over the same C core; the one difference met is in section 4 |
| batch size and worker ramp | averages, flow estimates | choose batch size, ask for workers | not modelled: heuristics; the models allow any size of a given set and any order of spawns |
| delimiter search | none | vectorised byte search | not modelled: pure byte search |
| physical reclaimer, syscall wrappers, payload plumbing, OOM guard, UI, option parsing, UDF glue | – | – | not modelled: I/O, display or configuration |
| `ring_loadables/OLD_MISC`, `LEGACY` | – | – | not modelled: earlier states of the same program that nothing builds |

### How they interact

Scanner and workers share only memory: slots go out by a release store of
`write_idx`, tickets by `fetch_add` on `read_idx`, and the scanner reads
`read_idx`, `min_idx`, `active_workers` and `active_waiters` to decide how far
it may run ahead and how much it may hold back. Eventfds wake pollers, every
poll is bounded (100 ms) and every wake-up re-reads the indices. A worker tells
the parent nothing: when it dies the parent finds out from the process table
and judges from the worker's transaction record and exit status. The parent
hands an orphaned batch on through the escrow pipe, writes the packet first and
raises `escrow_pending` afterwards. Acks flow through pipes to the reclaimer
and, unless output is realtime, to the orderer, which keeps the ledger of what
is in the output; the ledger is read by a checkpoint and by a scanner that
resumes. On several nodes ingest deals chunks to the nodes' queues, indexers
find their line boundaries, and scanners claim chunks from their own queue or
steal from others, with the counts of `-n` and the open batch of `-L` passed
from chunk to chunk. Under Python or the launcher a worker frames one record
per batch into its own file and announces how far it is committed through the
drain's pipe. Anybody may pull the fire alarm (`pull_fire_alarm`): the abort
flag and the EOF eventfds go up together.

### What is hard

* Several workers pass `read_idx < write_idx` for the same batch and draw
  tickets *beyond* what was published. Overshot tickets wait for their slot,
  drag the scanner's shield forward, and must be told apart from live ones at
  end of input.
* Deaths between any two stores: double registration counts, records that
  outlive a process, batches between ack and clear, deposits and respawns while
  the alarm goes up.
* Three places may hold a batch to be run (ring, escrow pipe, a worker), and a
  worker must decide from non-atomic reads of all three that none is left.
* What is in the output must be known exactly when a run is cut short: two
  packets per batch, completions out of order, partial emissions, and a resumed
  scan whose batches need not fall as they fell before.
* Steals race owners on counters read one after the other, descriptors are
  recycled under slow readers, and a chain of counts crosses nodes.
* A drain that must forward what is committed and nothing a rollback takes back,
  told by messages that deaths lose.
* Tests of the ring's window need 2^20 batches; the model's ring has a handful.

`PROJECT.json` lists these hazards one by one with the line at which each bites
and the properties that would catch it.

## 2. Modules

| module | content |
|---|---|
| `RingState` | constants with their assumption, all variables of the engine, the vocabulary its processes share |
| `Scanner`, `Worker`, `Recovery` | actions of the scanner on the ring, of a worker, of deaths and the parent |
| `RingEngine` | composition: `Init`, `Next`, the reclaimer, the invariants, fairness and liveness |
| `TicketLedger` | abstract specification: what may happen to a ticket; implemented by `RingEngine` |
| `RingPromises` | a statement of a comment about the engine that the code does not keep |
| `StreamState` | constants and variables of one pipeline on one node, from input to output |
| `UmaScan` | ingest and the stream side of the scanner, with the clip of a resumed run |
| `Orderer` | what follows a batch's run: acks, reclaimer, orderer, the ledger of completed output |
| `Resume` | composition of the three through several runs: ends of a run, checkpoint, restart |
| `Delivery` | abstract specification of exactly-once delivery; implemented by `Resume` |
| `ResumePromises` | what the documentation of `--resume` says and the code does not keep |
| `Seqlock` | the ledger in shared memory: one writer, readers that retry |
| `Chunks`, `ChunkPromises` | the NUMA front: ingest, indexers, scanners, `-n`, `-L`; a comment that does not hold |
| `Publication` | launcher, worker loop of the Python shim and C drain |
| `MC*` | model values, symmetry and the sets of options of the instances |
| `*_proofs` | theorems, section 5 |

### The engine (`RingState` to `RingEngine`)

*Indices.* `writeIdx`, `readIdx`, `minIdx`, `scanIdx` are `write_idx`,
`read_idx`, `min_idx`, `local_scan_idx`. A batch is named by its ring index;
`rangeRing[s]` is the batch whose bytes slot `s` describes (the offset, end and
lines arrays are always written together) and `minorRing[s]` the identity
recovery compares. On UMA the final sentinel writes the former and not the
latter, as the code does.

*Scanner.* `WriteSlot` is `UNIFIED_SCANNER_FLUSH` once the shield lets it pass,
`ShieldWait` one round of its waiting loop (which force-commits), `Commit` the
adaptive commit that follows each slot, `EndOfScan`, `TailForce`, `EndOfTail`,
`FinalPublish`, `Finish`, `EofBlast` the stores at the end of
`core_scanner_loop`, one action per store whose order others can observe.

*Worker.* `pc[w]` is the place in `ring_claim_main` / `do_lockfree_claim` /
`ring_ack_main`. Each access to shared memory whose order matters is an action
of its own: `RingCheck` and `FetchAdd` are separate, so is the first load of
`write_idx` after a fetch (`Evaluate`) from the load of `scanner_finished`
(`Overshot`). `RingCheck` keeps the two indices it saw (`snap`), which
`EscrowPacket` uses for the window test, as `w_snap` and `r_curr` do. `drain` is
`tl_drain_escrow`. `txn[w]` is `worker_txn[w]`; it stays behind when the process
dies.

*Parent.* `RecoverIdle`, `RecoverRace`, `RecoverRecycled`, `RecoverFatal`,
`RecoverDeposit` with `RecoverSignal` are the outcomes of
`ring_recover_worker_core` together with the reactor's arm for each result code
(respawn, free the slot, abort). Between deposit and signal other processes may
step; the parent itself handles one event at a time (`ppc = "deposit"`).
`PollAgain` models that `ring_poll` looks at the alarm before every poll. The
drained test of `RecoverIdle` is made on the ring of the node the record names
(`node`, 7074): on a NUMA node a record it has never published names another one,
and the verdict is then either (`Verdicts`). A slot given up on the verdict of
another node's ring, although its own has work, is marked `"astray"` (section 4).

*History.* `acked`, `dropped`, `poisoned`, `counted` and `unpinned` record what
happened and influence no guard, except that `minIdx` advances over `acked`
(the ack packets in the reclaimer's pipe).

*Abstractions.*

* `Commit` and `WriteSlot` read several shared words in one step, and
  `RecoverIdle` reads `scanner_finished`, the indices and the signal together.
  For the scanner these are heuristics or one-sided bounds (`read_idx` and
  `min_idx` only grow).
* `Evaluate` joins the load of `write_idx`, the read of the slot and the
  publication of the record, and `PublishTxn` the stores of the record, of
  which `CLAIMED` is the last.
* A slot freed after a normal exit is not filled again by a later SPAWN.
* The escrow pipe is unbounded (the code's holds thousands of packets and
  there is at most one per worker slot in it).
* There is no orderer: the resume horizon stays 0 and the committed-frontier
  test of the classification never holds. Output is `Resume`'s subject.
* The percentage form of the halt limit, statistics, and errors of `lseek` are
  left out; a sentry or a broken downstream pipe is `OutsideAlarm`.
* The reclaimer does not end within a run.

### The stream (`StreamState`, `UmaScan`, `Orderer`, `Resume`)

The input is the bytes `0..N-1` with delimiters at `Delims`; a batch is an
interval of bytes whose output is one block, so `out`, the output file, is a
sequence of intervals. The ring is abstracted to claims in index order and
completions in any order (`RingEngine` shows what it takes to have that).

*UmaScan.* `CaptureComplete`, `Pread`, `Judge` and `Wait` are the refill: the
flag is captured before the `pread`, and the end is concluded only from a
capture that came before an empty read. `IngestEofFd` and `IngestFlag` are the
two stores at the end of `ring_copy`. `Scan` is one pass over the buffer with
its flush, `Clip` the clip of `UNIFIED_SCANNER_FLUSH` against the ledger of the
run before.

*Orderer.* `AckFallow` and `AckOrder` are the two packets of an ack, with a
death or a broken pipe possible in between. `Reclaim` is the reclaimer's heap,
`OrderTake` and `OrderEmit` the orderer's loop, `EmitFails` a failed emission,
which may leave part of a block in the file (`torn`). `Track` is
`TRACK_COMPLETED_BATCH` on the private ledger, `Published` what fits the shared
one: with more intervals than `JaggedCap`, any choice that starts with the least.

*Resume.* `ReactorDone`, `ReactorAbort`, `RaceDeath` and `Signal` are the ways
the parent leaves its loop, `ExitRun` the `wait` and the EXIT trap, `Checkpoint`
`ring_dump_resume`, `Restart` a user who truncates the output as told and
resumes. `fellBack` is a history variable (section 4, fallback horizon).

*Left out.* The orderer's packed (major, minor) key on NUMA, the transport of
blocks as file prefixes, the Python checkpoint files, a resume on changed input.

### The ledger's seqlock (`Seqlock`)

One action per load and store; the relaxed accesses between two increments
happen in any order. `StoresHeld` says that the target keeps the stores behind
the first increment; see section 4 for targets that do not.

### The NUMA front (`Chunks`)

`ChooseTarget`, `Publish`, `PublishEof` and `IngestStops` are
`ring_numa_ingest`; `LifetimeGate` is its bound on how far it may run ahead of
the oldest chunk that has a reader. `Index(n)` is one chunk of
`ring_indexer_numa`. A scanner chooses (`Own`, `Steal`, `Finish`), claims by
`fetch_add` on a tail (`Claim`), finds its claim beyond the queue's end
(`Overran`) or reads it with the chunk's end (`Snapshot`), waits at its gate, scans and, with `-n` or
`-L`, hands on (`Handoff`). A chunk is one step of scanning; its batches are
`RingEngine`'s. `copies`, `closed` and `batches` are history; `stale` records
that a scanner used a descriptor that had been given to another chunk (section
4), and the safety properties speak of runs without it.

*Abstractions.* The indexer finds the boundary and publishes it in one step
(readers wait for the flag that is stored last). Steal thresholds are constant,
idleness of workers is a free choice. Alarms, byte mode and the scanner's shield
on chunk bytes are left out.

### Publication (`Publication`)

Output files are counted in records: `memfd[w]` is the sequence of records,
`whole` FALSE for one that is being written, `cursor` the worker's
`worker_output_end`, `txn[w].start` what a rollback cuts to. `FinishFrame`,
`BeginCommit`, `Clear` and `Notify` are the order in which a record becomes
whole, committed and announced; each may be followed by a death. `DrainReads`
and `DrainMoves` are the C drain: it moves what lies below the announced
frontier. `Recover*`, `Wake`, `Decide`, `ReapDrain` and `Join` are the
launcher's loop. `doubled` is a history variable: batches for which the deposit
of a failing worker and the deposit of its recovery both happened (section 4).

*Abstractions.* `do_lockfree_claim` is one step (`Worker` takes it apart), so is
a deposit with its flag (`Recovery` takes it apart). Not modelled: an emission
that fails, the waiter registry, process groups and notes, helpers other than
the drain, the ordered NUMA pipeline, a negative retry limit, results 3 and 5 of
the recovery, the spawn and splice loops, wake-ups by stale eventfds.

## 3. Runs

| run | instance | shows |
|---|---|---|
| `engine_crash` | two workers, two batches and the sentinel, two deaths anywhere, retry limit 1 | a ticket is in one place only (`TicketExclusive`), none vanishes (`TicketComplete`), the engine implements `TicketLedger` (`ImplementsLedger`), counters are never too low (`CountersCover`), workers read their own slot (`ClaimedSlotIntact`), no record outlives its batch or generation (`RecordsCurrent`), poison counting is idempotent (`PoisonCountedOnce`) |
| `engine_pin` | two workers, five batches through a ring of four, one death, reclaimer on | `SlotsPinned`: whatever the overshoot, no slot whose batch is not acked is written over while the reclaimer pins the window |
| `engine_retry` | one worker slot, three batches and a tail batch, ring of three, two deaths, poison and halt limits, reclaimer on, fair | a run that stops without an alarm, and in which no slot is `"astray"`, is complete (`CompleteExit`) and a deposited batch is always served (`RetriesServed`) |
| `engine_drain` | a NUMA node with one worker slot, three batches and no sentinel, three deaths, fair | `CompleteExit` and `RetriesServed` where only `escrow_pending` keeps the parent from giving up the last slot |
| `engine_live` | two workers, one batch and the sentinel, one death, an alarm at any time, fair | `Termination`: everything stops |
| `resume` | four bytes, three order modes, adaptive and fixed sizes, `-n`, two batches in flight, two faults anywhere, two runs | a checkpoint says what the kept output holds (`CheckpointExact`), a run without an alarm is complete (`CompleteOutput`), ordered output is a prefix (`OrderedPrefix`), no last byte is missed or clipped away (`ScanCovers`), and the whole implements `Delivery` (`ImplementsDelivery`) |
| `ledger` | two fields, two readers, two publications, fair | an accepted snapshot is one publication (`SnapshotIsPublication`), the current one (`SnapshotIsCurrent`), and no reader retries for ever (`SnapshotEnds`) |
| `chunks` | two nodes, fourteen bytes in seven chunks and the EOF chunk, a descriptor ring of four, all four combinations of `-n` and `-L`, fair | the descriptors an indexer has yet to read are not recycled (`UnindexedFresh`), nor those of the chain before the limit is met (`ChainFresh`), no chunk closed twice (`ClosedOnce`), no byte twice (`NothingTwice`) and none missing (`NoneOrphaned`), no gap in the majors (`MajorsClosed`), exact batches (`BatchesExact`), and an end (`FrontEnds`) |
| `publish` | two workers over one batch with two faults and one worker over two with three; every `on_error` and both supervision policies, fair | the drain stays behind the commit (`DrainBehindCommit`), committed output stays (`CommittedKept`), at most one outcome per batch (`OneOutcome`) and at least one in a successful run (`CompleteResults`), exact counts (`CountExact`, `PoisonExact`), `Termination` |
| `broken_*` | the smallest instance that shows it | the findings of section 4 |

*Why these bounds.* Every hazard of the claim protocol is an interaction of two
workers with the scanner or the parent; a third adds tickets, not kinds of
interleaving. Two deaths let a retried batch die again (poison, a second
deposit, a respawn of a respawned slot). A ring of three or four slots with a
window of one is lapped within five batches and still satisfies
`RING_SIZE > window + workers`, the relation the code's constants satisfy by a
wide margin. In `engine_crash` the ring is not lapped (three indices, four
slots), so that the ledger is not muddled by the shield that opens while nobody
is registered (section 4); lapping is the subject of `engine_pin` and
`engine_retry`. The history variable `unpinned` names the states in which a slot
was written outside the acknowledged window, which the code allows while
nobody is registered, before the reclaimer starts, and on NUMA. The bound on
deaths also bounds how often `engine_drain` respawns a slot because another
node's ring is not drained (`Verdicts`).
`Workers` is symmetric in the safety runs; the fair runs use no symmetry.

In `resume` four bytes with two delimiters give an unterminated last line, a
batch of two lines, and room for an interval beyond the horizon; two runs with
two faults let a resumed run fail in turn, so that checkpoints accumulate. The
buffered mode keeps a fixed batch size there, since finding 2 opens when batches
shift. In `chunks` eight chunks go twice round a ring of four with half of it as
the lifetime bound; with two nodes every steal has one victim, and a third node
changes only who steals. In `publish` a pipe of one signal makes every announcement wait,
and three faults let one batch be retried up to the limit of two and beyond it.

Deadlock is checked in the engine, `resume` and `publish` runs: `Terminated`,
`Rest` and `Over` are the only steps of a stopped system. It is not in `ledger`, where the
writer's publications are bounded and a reader need not read again, nor in
`chunks`, where the system may really stop (finding 3 and the lifetime bound,
section 4): `FrontEnds` says when it does not.

*Fairness.* Each process is scheduled (`WF` on the scanner, on each worker, on
the parent's handling of each death, on the reclaimer; on ingest, each indexer
and each scanner; on the writer and each reader of the ledger; on scanner,
workers, drain and launcher); all waits in the code are polls of at most 100 ms
that re-read what they wait for, so a waiter whose condition holds leaves.
`FirstSpawn`: the scanner's first SPAWN request is sent whatever the input. Not
assumed: further spawns, deaths, the alarm, failing acks, and which of spinning
and sleeping a worker chooses.

Every property of a passing run comes with a mutant: a definition of the model
changed as a plausible bug would change the code, under which the run fails.

## 4. Findings

Each has a run that violates the quoted statement.

1. `broken_overshot` – a worker whose overshot ticket is published between its
   load of `write_idx` (6334) and its load of `scanner_finished` (6338) lets go
   of a ticket that names a data batch, against the comment at 6339 and
   `src/DOCS/INVARIANTS.md:83`. The second path (6350–6351) re-reads
   `write_idx` and is right.
2. `broken_clip` – a resumed scan whose batch meets a finished interval in its
   middle keeps the part before the interval and drops the part behind it
   (3945; callers 5374, 5831), against "Exactly-Once" (`src/frun.bash:432`).
3. `broken_chain` – with `-n` or `-L` every scanner can wait for the count of a
   chunk that lies unclaimed in the queue of the thief that waits for it (5273,
   4915), against the liveness comment at 3258–3261.

### Known, without a run

Read off the code or met while modelling. The models contain the behaviour
unless it is said to be left out; properties that would fall over it name it in
a history variable or exclude it in their instance.

*Engine.*
The shield does not hold while no worker is registered (3978; `unpinned`).
A batch skipped as poisoned is never counted if its worker dies between
publishing the record and counting (6748).
The EOF eventfd goes up before `scanner_finished` when the tail force-commits
(5935), against `src/DOCS/EOF_PROTOCOL.md:70`.
The claim loop judges an escrow packet by indices loaded before the packet was
there and rejects a live retry (6214, 6239); the drain path is right.
With two worker slots and four deaths a claiming worker consumes
`escrow_pending` (6168) just before the parent tests it (7083): the last slot is
given up with the packet in the pipe, against 7038–7040. `engine_retry` and
`engine_drain` have one slot for this reason and because of finding 1 and the
rejected packet; the ledger of `engine_crash` counts such tickets as *lost* with
their reason.

On NUMA the record of a worker killed before its first publication names node 0,
or the node the slot served before it was freed and used again; the comment at
7070–7073 takes 0 for "the UMA truth". The test for "respawn unless the run is
drained" (7069) is then made on that node's ring (7074–7083): the slot may be
given up although its own node has work, and if it was the node's last one that
work stays undone. It may also be respawned although its own node is drained;
each such worker claims nothing, exits with 126 (`src/frun.bash:2173`) and is
respawned until node 0 is drained as well. The model has both (`Verdicts`);
`CompleteExit` fails in the first case and therefore leaves out runs with a slot
that is `"astray"`.

*Ledger.*
The first increment of `resume_seq` is ACQ_REL (7626), which does not hold back
the relaxed stores behind it on aarch64, ppc64le and riscv64, all targets of the
build; without `StoresHeld`, `SnapshotIsPublication` fails.
An orderer killed between its two increments leaves readers spinning (8803);
`SnapshotEnds` assumes a writer that goes on.

*Checkpoint.*
A horizon of 0 is taken for realtime mode (8824): an ordered or buffered run that
emitted nothing reports the reclaimer's horizon as done, and its resume skips
that input (`fellBack`).
The orderer's failure after the last worker has left is not seen by the
reactor, which no longer polls: exit 0 with the alarm up (`src/frun.bash`, end
of the reactor loop); properties speak of ends without an alarm.

*NUMA.*
Without `-n` and `-L` the lifetime bound can still hold ingest at the mark of a
node whose scanner waits for a chunk that ingest would deal (3268); `FrontEnds`
assumes that the bound opens again and again.
A chunk that is claimed but not yet read is not pinned once its queue is drained
(`stale`).
Nor is every chunk that lies unclaimed in a queue, against 1780–1783 and the
comment of the lifetime bound (3225–3247). The bound takes the mark of the
node's scanner for the oldest chunk the node has to read, but a scanner that
chose to steal moves its mark (`scan_claim_major`) to the chunk it stole, which
may be far ahead of its own queue; once the node's indexer is past the queue's
chunks as well, ingest may recycle the descriptor of one that nobody has
claimed. The model does this in 46 steps with two nodes and a ring of ten, and
not in the instance of `chunks`. What the bound does protect, a chunk its
indexer has yet to read and the one before it, is `UnindexedFresh`; what a
scanner may then use is covered by `stale`. With `-n` and `-L` the chain holds
ingest up as well, and until the limit is met no descriptor is recycled too early
(`ChainFresh`).
The queue gate for the EOF chunk (3625–3638) leaves on an alarm only, not when
the limit is met, as the other gates do.

*Python shim and reactor.*
A failing payload deposits its batch and leaves its transaction CLAIMED; a death
before the next claim deposits the batch again, although the comment at
`_shim.c:1733–1735` says double deposits are excluded (`doubled`).
After a recovery the Python reactor (`_reactor.py:505–641`) does not send the
wake-up that the comment at `_shim.c:3053–3055` asks for when a worker died
between commit and notification; the launcher does.
A failed emission leaves a torn record in the file with the cursor behind it
(left out of the model).

*Launcher.*
A supervised run with two workers can end in success with a batch in the escrow
pipe: a worker that takes one of two packets consumes `escrow_pending`, the
workers die, and the launcher frees each slot as drained
(`ring_recover_worker_core`, 7074–7083, against 7038–7040). `CompleteResults`
is then violated, and `PoisonExact` if the stranded packet was counted; it takes
four faults, and `publish` has two with two workers. The theorems of section 5
name the condition.

## 5. Proofs

The theorems about the engine hold for every set of workers, every number of
batches and deaths, every ring and window size that satisfies `RingAssumption`:
`Workers` is finite and not empty, the bounds are naturals, and the ring is
larger than the window and the workers together (the code: 2^20 slots, a window
of at most 2^19, and far fewer workers). Those about the stream hold for all
constants of `StreamAssumption`: any input with its delimiters, any buffer, batch
sizes, limit, number of batches in flight, capacity of the shared ledger, number
of runs and faults. Those about the seqlock, the chunks and the publication hold
for all constants of `SeqlockAssumption`, `ChunksAssumption` and
`PublicationAssumption`: any fields, readers, nodes, chunks, limits, crews,
faults, retry limits and pipe sizes. A crew has at least
one worker (`forkrun_cleanroom.c:2599`), and a ring of descriptors has room for
a chunk and its two neighbours (`MetaSize > 2`; the code: 4096).

Four theorems about the chunks assume `Roomy` on top: if a mode with `-n` or `-L`
is among `Modes`, then `NumNodes * (QueueLimit + 1) < MetaSize`. The code sees to
it: `ring_numa_ingest` clamps `current_buffer_limit` to half of `META_RING_SIZE`
over the number of nodes, or to 4 where that is more (`forkrun_ring.c:3529–3545`),
and there are at most 512 nodes (1581–1583, 2425, 3031), so the left side is at
most 512 * 5 = 2560, or 2048 + `NumNodes`, below 4096. The instance of `chunks`
has a ring of four slots for two nodes with two chunks each, which is less than
that; TLC finds the same properties to hold there.

| theorem | statement | module |
|---|---|---|
| `TypeCorrect` | `Spec => []TypeOK` | `RingEngine_proofs` |
| `CountersCorrect` | `Spec => []CountersCover` | `RingEngine_proofs` |
| `ExclusiveCorrect` | `Spec => []TicketExclusive` | `Tickets_proofs` |
| `CompleteCorrect` | `Spec => []TicketComplete` | `Tickets_proofs` |
| `RecordsCorrect` | `Spec => []RecordsCurrent` | `Tickets_proofs` |
| `LedgerCorrect` | `Spec => ImplementsLedger` | `Tickets_proofs` |
| `PoisonCorrect` | `Spec => []PoisonCountedOnce` | `Tickets_proofs` |
| `PinnedCorrect` | `Spec => []SlotsPinned` | `Tickets_proofs` |
| `IntactCorrect` | `Spec => [](~unpinned \/ scanIdx <= RingSize => ClaimedSlotIntact)` | `Tickets_proofs` |
| `RecycledCorrect` | `Spec => [](~unpinned => no batch is dropped as recycled)` | `Tickets_proofs` |
| `ExitCorrect` | `Spec => [](NoneGivenUp => CompleteExit)` | `Tickets_proofs` |
| `TypeCorrect` | `Spec => []TypeOK` | `Resume_proofs` |
| `CheckpointSoundCorrect` | `Spec => []CheckpointSound` | `Resume_proofs` |
| `CheckpointExactCorrect` | `Spec /\ []Fits => []CheckpointExact` | `Resume_proofs` |
| `OrderedPrefixCorrect` | `Spec => []OrderedPrefix` | `Resume_proofs` |
| `ScanCoversCorrect` | `Spec => [](Plain => ScanCovers)` | `Resume_proofs` |
| `CompleteCorrect` | `Spec => [](Plain => CompleteOutput)` | `Resume_proofs` |
| `AtMostOnceCorrect` | `Spec /\ []Fits => []AtMostOnce` | `Resume_proofs` |
| `DeliveryCorrect` | `Spec /\ []Fits /\ [](outcome = "ok" => Plain) => ImplementsDelivery` | `Resume_proofs` |
| `OrderedDeliveryCorrect` | `Spec /\ mode = "ordered" => ImplementsDelivery` | `Resume_proofs` |
| `SnapshotCorrect` | `StoresHeld` implies `Spec => []SnapshotIsPublication` | `Seqlock_proofs` |
| `CurrentCorrect` | `StoresHeld` implies `Spec => SnapshotIsCurrent` | `Seqlock_proofs` |
| `TypeCorrect` | `Spec => []TypeOK` | `Chunks_proofs` |
| `ClosedOnceCorrect` | `Spec => []ClosedOnce` | `Chunks_proofs` |
| `FreshCorrect` | `Spec => []UnindexedFresh` | `Chunks_proofs` |
| `NothingTwiceCorrect` | `Spec => []NothingTwice` | `Chunks_proofs` |
| `ChainFreshCorrect` | `Roomy` implies `Spec => []ChainFresh` | `Chunks_proofs` |
| `MajorsCorrect` | `Roomy` implies `Spec => []MajorsClosed` | `Chunks_proofs` |
| `OrphanedCorrect` | `Roomy` implies `Spec => []NoneOrphaned` | `Chunks_proofs` |
| `BatchesCorrect` | `Roomy` implies `Spec => []BatchesExact` | `Chunks_proofs` |
| `BehindCorrect` | `Spec => []DrainBehindCommit` | `Publication_proofs` |
| `KeptCorrect` | `Spec => CommittedKept` | `Publication_proofs` |
| `TypeCorrect` | `Spec => []TypeOK` | `Outcome_proofs` |
| `OneOutcomeCorrect` | `Spec => []OneOutcome` | `Outcome_proofs` |
| `NothingLostCorrect` | a successful run leaves no batch without an outcome but those named by packets in the pipe | `Outcome_proofs` |
| `CompleteCorrect` | `Spec => [](escrow = <<>> \/ ~supervise => CompleteResults)` | `Outcome_proofs` |
| `CountCorrect` | `Spec => []CountExact` | `Outcome_proofs` |
| `PoisonCorrect` | `Spec => [](escrow = <<>> \/ ~supervise => PoisonExact)` | `Outcome_proofs` |

*Types and counters.* `TypeOK` is not inductive alone: `active_workers` is
decremented, and stays a natural number only because it covers the registered
workers. `TypeOK /\ CountersCover` is inductive. Every step of a worker is
sorted by what it does to a counter (nothing, one more, one less with the worker
that accounted for it), and one lemma per counter handles the three kinds.

*Tickets.* `TicketExclusive` needs to know that a dead worker's record names the
ticket it held (`Records`: what each control point says of the record and of
the ticket) and that every ticket anywhere is below `read_idx` (`Ranges`), so
that a fetched one is new. `StepEffect` then reduces every step of every process
to one of seven effects on tickets (none, fetch, take, reject, ack, drop,
deposit), and exclusiveness, completeness and the refinement of `TicketLedger`
are proved once per effect.

*Poison.* A batch is counted by a worker that decides on it with exactly
`Threshold` kills. `CountInv` says that from then on every place it can come
back from names more: its record has at least `Threshold` kills, to which a
deposit adds one, and a packet, or a worker before its decision, has more.
Exclusiveness shows that nobody else holds the batch at that moment.

*Pinned window.* The shield is measured from `read_idx` as soon as claims have
dragged it, so it does not bound the scanner by `min_idx` itself. What bounds it
is `Lead`: a worker passes the ring check only for a slot inside the window or
one that no overshot ticket has taken yet, so tickets run ahead of the window by
at most one per worker; the scanner follows them and writes one sentinel. The
ring has room for the window, the workers and that slot, so the scanner does not
reach a slot at or beyond `min_idx` (`Window`, `SlotsDistinct`).

*Slots and stops.* A worker past its evaluation holds a batch below `write_idx`
(`Behind`), and its slot bears the stamp of that batch: while the window is pinned
a slot the scanner stamps is never that of such a batch (`Stamped`, `StampKept`).
So recovery does not take a live batch for a recycled one (`Reasons`). A worker
ends its loop without an alarm only when it has seen the scanner finished and the
ring drawn (`LeftDrawn`), the scanner finishes only with every batch written
(`Written`), and the parent stops early only with an alarm (`Halted`). In a
stopped run every batch was therefore issued and nobody holds it; by
`TicketComplete` it is acked, in the pipe, or dropped. `NoneGivenUp` excludes the
last two: the overshot batch of finding 1, the packet rejected by an old snapshot,
and the packet left by the last reader. `CompleteExit` fails in those windows, so
the condition cannot go.

*Conditions of the stream.* `Fits` says that the completed intervals beyond the
horizon fit the shared ledger (1024 in the code), `Plain` that a buffered run has
no interval to clip: every first run, and a resume from a horizon alone. The code
ensures neither. A ledger that overflows drops intervals, whose batches a resume
runs and puts out once more; the checkpoint is still sound (`CheckpointSound`),
but not exact. And without `Plain` completeness is false (finding 2). Both hold in
every state of an ordered run, where exactly-once delivery is unconditional.

*Scanner.* `ScanInv` says that each line before the scanner's position is counted
once and the limit ends the count (`Counting`), that a refill happens only on a
buffer that is used up (`UsedUp`), and that an end concluded from a flag captured
before an empty read is the end of the input (`Ends`). That the limit's line is
where a pass over the buffer stops takes a least number, from
`WellFoundedInduction`.

*Ledgers.* `Base` adds the bounds of queues, indices and ledgers to `ScanInv`;
`TypeOK` follows. `Chain` says that the batches of a run without intervals to clip
follow each other from the horizon on; `Acked` and `RanIsOut` that only what ran
is acknowledged, and in realtime mode is out; `Reported` that no ledger, shared,
private or saved, holds a byte that is not in the output. `Books` is the inductive
conjunction of these. `CheckpointExact` needs the other direction,
`AllReported`, which an overflow breaks.

*Order and completeness.* In ordered mode the batch the orderer waits for begins
at its horizon, and what finished from there on is in its pipe or its heap
(`Turn`), so each block begins where the one before it ended. A batch that is done
is out or in a packet on the way (`DoneIsOut`), what a resumed scan skips was out
before (`SkippedIsOut`), and an end without an alarm leaves no packet behind
(`Finish`); with `Chain` no wanted byte is missing.

*At most once, and the refinement.* The intervals of a checkpoint are merged, none
begins where another ends (`Tidy`), so the front of a clipped batch is free of
bytes that are done, and so is the batch (`Apart`). Output comes from the runs
before or from a batch (`Origin`), packets are one per batch (`Queue`), and the
bytes of a packet are not out yet (`Fresh`); so an emitted block is new. Every
byte then has as many copies as the refinement mapping counts (`Counts`):
an emission maps to `Deliver`, success to `Close`, and everything else, a
checkpoint and a restart with its truncation included, to a stutter.

*Seqlock.* The sequence word tells how far the writer is: even, the memory is
its last publication; odd, it is between two. As long as
the word a reader loaded first is still the current one and even, no publication
has begun since and every field it has copied is of that publication; that is
what the second load tests.

*Chunks.* `QueueInv` gives every chunk one position of one queue, since only
ingest's next number is new. `ClaimInv` gives every position below a tail to one
scanner, owner or thief. `ClosedInv` says that a chunk which is closed was
claimed at its position and is no longer held, so whoever closes a chunk now
holds a position nobody has been through.

*Descriptors.* Queues ascend and an indexer's mark is behind what it has yet to
read (`OrderInv`), so the lifetime bound keeps ingest within half a ring of every
such chunk, and the chunk of the end, which waits for no bound, adds one
(`LeadInv`). The ring holds the descriptors of the last `MetaSize` chunks
(`RingInv`): `UnindexedFresh` follows. With it every boundary an indexer stores
is the end of the last line of its chunk, as the delimiters alone determine it
(`IsEnd`, `EndsInv`), also when it is handed on over chunks without a delimiter.

*Bytes.* Without `-L` a scanner that found its descriptors in order puts out
bytes between the ends of the chunk before and of its own, `-n` only ends it
early (`LinesEnd`), and such intervals are disjoint (`OutInv`, `CoversOnce`).
With `-L` there is one start of an open batch at a time: in the hands of a
scanner, or in the descriptor of a chunk whose successor is not closed; what is
out lies before it (`TokenInv`). A scanner that consumes it holds the successor,
which is closed once (`NotYetClosed`), and puts out bytes from there to the next
start. That ingest's chunks cover the input in order, and that there is a k-th
delimiter where there are k, is proved from the least-number principle of
`WellFoundedInduction`, whose theorems take sets and no operators.

*Nothing is left.* A position below a tail is held by a scanner until its chunk is
closed, or lies beyond the end of a queue that grows no more (`WorkInv`); every
chunk is in a queue (`DealtInv`); and a scanner leaves with its own queue claimed
to the end, or because the limit was met (`EndInv`). So when all are through and
the limit was not met, every chunk is closed (`AllClosed`).

*The chain.* With `-n` and `-L`, until the limit is met, the closed chunks are the
first ones, and one scanner at most is between closing the last of them and
handing on; when it is met, every chunk before the cutoff is closed and what
follows is passed over (`ChainInv`). What is open then stands in a queue beyond its
tail or is held by a scanner. `FewOpen` counts the places: there are
`NumNodes * (QueueLimit + 1)`, and by `Roomy` the ring is larger, so ingest has come
round to no open chunk, nor to the one before it (`OpenFresh`). Therefore no
scanner reads another chunk's descriptor (`TimeInv`), and none hands on to one
(`InTime`). The two facts rest on each other, one step at a time: the chain is
intact because descriptors are fresh, and they are fresh because the chain holds
ingest up; `RoomInv` carries both. `ChainFresh` is the part of it that a run checks.
After the limit a count may be handed on late, to a descriptor that is another
chunk's. It does no harm: it is the limit, and that is the count of every later
chunk, too.

*Lines.* `Ord(x)` is the number of delimiters before byte `x`. A byte is wanted if
its `Ord` is below the limit (`WantedBytes`), which replaces every sum of lines over
chunks: the count that is handed on for a chunk is the `Ord` of its end, or the
limit if that is less (`CountInv`), a scanner takes what is below it (`Takes`), and
what is wanted of a closed chunk is out (`OutsInv`). Every byte is in one chunk
(`EveryByte`), so `NoneOrphaned` follows from `AllClosed`, or from the chunk that met
the limit. With `-L` a start that is handed on at the end of a chunk is a byte whose
`Ord` is a multiple of `BatchLines`, with less than a batch between it and the end,
and everything before it is out (`Open`, `ExactInv`). The bounds a scanner cuts at
are then the delimiters of the stream whose `Ord` is a multiple or the limit
(`EndsOrd`), two neighbours of them enclose a full batch or the one the limit ends
(`BatchBetween`), and less than a batch is left after the last (`LastBound`).

*Publication.* `DrainBehindCommit` is inductive with `Shape` (types) and
`FilesOK`: what each control point says of the transaction state (`Phase`), and
where the transaction's start, the cursor and a torn record stand in the file
(`Cut`). A rollback cuts to the start of an open transaction and nothing was
announced beyond it; a respawn takes the file's end as its cursor, which is then
settled. `KeptCorrect` follows step by step from the same invariant.

*Outcomes.* A place is a packet in the pipe, a worker (or its dead body) with a
batch that is not settled, or a settled record of a file; `Ledger` says which
batches the places hold. A batch has one place only, unless it is in `doubled`;
as long as nothing forces the run to fail, every batch issued has a place, and
`poisonedCount` is the number of places marked as counted. Every step leaves the
places, moves a batch from one to another or issues one, and these effects are
sorted once (`Moves`) and the ledger proved per effect. `CommittedOK` is the same
for DATA records, which COMMITTING counts before they are committed. `Owed` says
that for every settled record the drain has a signal, or a worker between commit
and notification or the launcher still owes it one; so a successful run has moved
every record (`AllMoved`), and `OneOutcome`, `CountExact` and `NothingLost` follow.
`Staffed` adds that in a run without supervision somebody has not ended while the
pipe holds a packet. `CompleteResults` and `PoisonExact` carry their condition
because without it they are false (section 4, *Launcher*).

*Model-checked only.* Liveness under fairness is out of the prover's reach:
`Termination` (both), `RetriesServed`, `SnapshotEnds`, `FrontEnds`. `CompleteExit` is
proved under `NoneGivenUp`, and `ClaimedSlotIntact` for a pinned window or a ring
that is not lapped; that they hold without these conditions in the instances of
their runs is checked there only.
`ChainFresh`, `MajorsClosed`, `NoneOrphaned` and `BatchesExact` are proved for a ring
that has room (`Roomy`), the last three for runs in which no scanner used a
recycled descriptor (`stale`): without `-n` and `-L`, and past the limit, the code
does not exclude it (section 4). `CheckpointExact`, `ScanCovers`, `CompleteOutput` and
`ImplementsDelivery` hold under the conditions named above; that the code does
better in the instance of `resume` (buffered resumes of a fixed batch size) is
checked there only. The findings are counterexamples and stay runs.

## 6. Plan

Modelled since the plan was first written: orderer, checkpoint and resume, the
seqlock, UMA ingest, NUMA front with `-n` and `-L`, and launcher, shim and drain.
What is left, in this order:

1. Proofs: `Plain` weakened to resumes whose batches meet no interval in the
   middle.
2. The Python reactor with its reassembly as a second parent of `Publication`.
3. Emission failures and the ordered NUMA pipeline in `Publication`; the
   packed (major, minor) key in `Orderer`, composed with `Chunks.MajorsClosed`.
4. The scanner's shield on chunk bytes, which bounds the NUMA ring in place of
   `min_idx`.
