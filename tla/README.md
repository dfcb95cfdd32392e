# Cryptoscope in TLA+

Cryptoscope collects real-time launch evidence from Solana and EVM chains,
enrols launches in a pre-registered forward cohort, follows their outcomes and
publishes a board. This directory holds models of the parts of that program
whose correctness depends on the order of events, the model-checking runs on
small instances of them, and proofs of their main properties for every instance.

Paths below are relative to the repository; `pipeline/` is `src/pipeline/`.

## 1. The system and its parts

| Part | Code | State it keeps | Operations | What makes it hard |
|---|---|---|---|---|
| Stream health and gap ledger | `pipeline/stream_health.py` | SQLite tables `streams` (cursor, status) and `gaps` | `observe`, `mark_disconnected`, `resolve_gap`, `advance_gap`, `defer_gap`, `open_gaps`, `report_worker` | two threads, one table; rows read in one transaction and used in another |
| Stream runner | `pipeline/stream_runner.py` | the connection, the event in hand | connect, receive, persist, observe, inline backfill, reconnect with back-off | every step may fail; restarts |
| Gap recovery | `retry_open_gaps` of `solana_launch_stream.py` and `evm_factory_stream.py` | nothing durable of its own | fetch due gaps, prove a slot or a chunk, checkpoint, defer | partial answers, deadlines, starvation |
| Solana launch store | `solana_launch_stream.py` | `raw_launches`: evidence, hydration, qualification, leases | insert, hydrate, claim, settle, release | concurrent writers, conflicting evidence |
| Solana reconciliation | `solana_launch_reconcile.py` | epochs, cursor, circuit, comparisons | collect, compare, seal an epoch, readiness, proof of a candidate | overlapping runs that die; clocks read before provider calls |
| EVM coverage audit | `evm_factory_stream.py` | the proof row, its epochs, the published session | publish or revoke a session, audit, retract on new evidence, report | a session replaced while it is audited; evidence that changes below the watermark |
| EVM qualification | `evm_factory_stream.py`, `launch_radar.py` | `raw_pools` | persist, remove, record, link, retire | two databases, reorgs, no lease |
| Launch protocol gate | `pipeline/launch_protocol_gate.py` | one latch row | `admit` | a probe and a clock that are stale when the latch moves |
| Launch radar | `pipeline/launch_radar.py` | nothing durable of its own | scan: admit, claim, fetch, screen, record, settle | two databases, leases, crashes |
| Opportunity ledger and outcomes | `pipeline/opportunity_ledger.py`, `opportunity_outcomes.py` | events, outcomes, append-only observations | record, read back, measure, retire, invalidate | rows read once at the start of a run; every statement its own transaction |
| Launch delivery | `pipeline/launch_delivery.py`, `launch_quotes.py`, `board_export.py` | assessments, delivery proofs, the exported files, the public copies | assess, render, write, push, read back, promote | two jobs that overlap, a proof that may come late |
| Carry tracker | `pipeline/carry_paper.py` | episodes | observe, hold, signal an exit, quote it, close, open | gaps, late observations, a commit before each network call |
| Convergence ledger | `pipeline/convergence_ledger.py` | events and outcomes | freeze an event, fill due horizons | shed runs, a crash between two commits |
| Operator sentinel | `pipeline/operator_sentinel.py`, `realtime_watch.py`, `realtime_ws.py`, `operator_hunt.py` | one JSON file | transfer scan, watch, flush, assess, register | five writers, of which two take no lock |
| HLP tracker | `pipeline/hlp_tracker.py` | recorded steps, a state file | record, publish, compound | a rolling window that is missed |
| Disk guard and shedding | `src/ops/` | thresholds, shed state | refuse writes, shed | a writer refused half-way |
| Scheduler | `pipeline/scheduler.py` | job table | run jobs on intervals in threads | overlapping jobs |
| Paper trader | `src/trading/` | positions | open, close, mark | accounting |
| Distribution | `src/distribution/` | message templates, batches | send | wording, I/O |
| Everything else | collectors, analysis, signals, sniper, onchain, contract, backtest, content, visuals | caches and output files | fetch, score, render | little beyond I/O |

How they meet. The two stream processes (`solana_launch_stream.main`,
`evm_factory_stream.main`) each run a reader and recovery workers as threads
over one SQLite store, and launchd restarts the process when it dies. The
scheduler is another process: every three minutes it runs the radar's scan in a
thread (`scheduler.py:318-337, 856-873`), every 30 seconds the reconciler, every
hour the resolver of outcomes. The radar's module can also be run by hand, so
two scans may overlap. A scan reads the streams' health and epochs through the
gate, leases rows of the Solana store and writes the opportunity ledger, a
different SQLite file, so that no transaction spans the two. The delivery, the
outcomes and the board read the ledger afterwards; the EVM stream writes it when
a reorganised log retires a launch.

What each part must get right:

- **health and gaps**: a slot the cursor jumps over is never forgotten; only proved
  ranges are written off; `live` is never said of a lane that owes something; a
  repair never hides a disconnect; every debt is settled in the end.
- **gate**: opened once, in time, after it was armed; a breach is for good.
- **enrolment**: a cohort event lies in its window on sealed evidence; a
  terminal row is never rewritten; leases exclude and come back; the row and the
  ledger agree.
- **reconciliation**: epochs are sealed one after the other, once; a launch that
  passes the proof is one of an epoch in which nothing was missed.
- **EVM audit**: a verdict never speaks for a session other than the one it
  audited; what is said to be covered was attested by an independent provider.
- **EVM qualification**: a reorganised launch does not stay valid in the ledger.
- **outcomes**: what is settled is what was recorded; a retired row stays
  retired; every trial ends.
- **delivery**: the board says `A3` only of a launch the public could read in
  time; its manifest describes the file beside it.
- **ledgers**: no time that was not measured counts as measured; a horizon is
  measured once, by the first run that could.
- **sentinel**: the cursor never moves past a transfer that no scan dealt with.

The hazards behind these, each at its line of code, are in `PROJECT.json`.

## 2. Plan

| Order | Module | Composes | State |
|---|---|---|---|
| 1 | `StreamHealth` | | done |
| 2 | `StreamLane`, with `SlotCoverage` as its abstract specification | `StreamHealth` | done, proved |
| 3 | `LaunchProtocolGate` | | done |
| 4 | `LaunchEnrollment`, over the evidence of `LaunchEvidence` | `LaunchProtocolGate` | done, its safety proved |
| 5 | `EvmCoverage`: sessions, finalized audit, retraction, reports | | done, proved |
| 6 | `EvmQualification`: from a factory log to a launch and back | | done, proved |
| 7 | `SolanaReconcile`: captures, hydration, overlapping runs, the seal; implements `LaunchEvidence` | | done, proved |
| 8 | `LaunchDelivery`: the public board | | done, proved |
| 9 | `OutcomeResolver`: the settlement of trials | | done, its safety proved |
| 10 | `CarryPaper`, `ConvergenceLedger` | | done, proved |
| 11 | `OperatorSentinel`, `HlpTracker` | | done, proved |
| 12 | `MCServices` | modules 6-8, 10 and 11 | done, proved |

Left: the copy of carry episodes into the opportunity ledger; the Hyperliquid
sampling stream.

## 3. The modules

### StreamHealth and StreamLane

`StreamHealth` is the lane's part of the store: `cursor`, `status` and `gaps`
are the columns, and each operator ending in `Tx` is one write transaction of
`stream_health.py`. A row id is AUTOINCREMENT, so `gaps` is a sequence. Wall
clocks are reduced to whether a gap is due.

`StreamLane` adds the threads that call it.

- `reader` stands where `run_forever`/`run_connection` stands: `ReadHealth` and
  `RevokeLiveClaim` are the EVM lane's `_invalidate_connect_health`, then
  `Connect`, `Receive`, `ReceiveLog`, `Observe`, and for EVM `Backfill` and
  `ResolveReported`; each has the failure that the code's `except` clause
  catches, and `RecordDisconnectFails` is the write that fails inside that clause.
  The two kinds of message are apart: `Receive(c)` is a tip message
  (`slotNotification`, `newHeads`), in any order, which carries the cursor and
  stores nothing; `ReceiveLog(s)` is the log of a launch of slot `s`, which is
  stored and carries no cursor. Nothing orders them.
- `worker` is `retry_open_gaps`: `FetchGaps` reads due rows (Solana smallest
  first, EVM oldest first), `TakeGap`, `Prove` (a chunk of blocks, a produced
  slot, or a run of skipped ones proved by the parent of the next block),
  `Advance` checkpoints, `ProveFails` and `AdvanceFails` defer, `StopProving`
  is the deadline. `queue` and `target` are rows read earlier: nothing keeps
  them current but the code.
- `Crash` loses both threads' memory and nothing of the table.
- `first`, `reached` (slots the cursor stood at), `stored` (launched slots whose
  log passed the writer) and `loaded` (slots whose finalized block was read) are
  history, read by properties only.

`SlotCoverage` is the promise to the readers of the cursor and the gaps: no slot is
jumped over without a debt, and a debt is written off only when every produced slot in it
has been recovered from its finalized block. It says nothing of the live messages of a
slot the cursor itself reached: the tip message of slot N moves the cursor whether
or not N's logs arrive, and what that costs is `LaunchesAccountedFor` (section 7).
`ImplementsCoverage` is the refinement, with `owed` mapped to the union of the
open gaps and `recovered` to `loaded`.

### LaunchProtocolGate and LaunchEnrollment

`LaunchProtocolGate` is `admit()`: `AdmitTx(at, ready)` has one disjunct per
branch. The probe that yields `ready` and the clock `at` are taken before the
write lock, so they belong to the caller.

`LaunchEnrollment` has the row of each launch (`row`: qualification, detection
time, verified, conflict, lease), the decision time of its cohort event
(`ledger`), the readiness of the source (`healthy`, `sealedAt`), and for each
scanner where it stands (`scan`). A scan asks the latch three times, with
`AsksFor`: at its start and before each batch with the clock of its start,
before each record with the clock of the price. `Claim` is
`claim_qualification_batch` with its sweep of old rows, its quota for rows never
tried and its leases; `Settle` is `set_qualification` with its lease check, its
exact replay and its refusal; `Record` is `record_if_absent`; `Enroll` and
`Orphan` are the two results of the read-back; `Release` is the batch's
`finally`. `Raises` stands for every other exception between the price and the
settlement. `Crash` kills a scan between any two steps.

Abstractions: detection and hydration are one step; an epoch verifies any set of
rows not compared yet and disputes any other; the market provider answers,
fails or is refused by its circuit at will; screening accepts or rejects at
will; the wall clock does not run backwards.

### EvmCoverage

Two threads of the EVM stream process. `reader` is the websocket thread:
`Dial` (which first revokes whatever was live), `Publish` (the degraded row with
the new generation and the in-memory session, one critical section), `Persist`
(logs that arrive, are completed or are removed by a reorg) and `Close`, which
spares a successor by an exact match. `audit` is the maintenance thread:
`TakeSession`, `ReadHead` at a provider other than the session's, which also
freezes the first boundary, `GetLogs` for one segment, `StoreAnswer` log by log,
`Commit`, `AuditFails`, then `ReadBack` and `Report` under the generation check
of `ReportFor`. Its record holds what the code's locals hold, so everything in
it may be stale. `proof` and `epochs` are the stored rows: `AfterChange` is the
reset at the end of `persist()`, `WithSegment`, `Contiguous`, `Pruned` and
`StartAfter` are the arithmetic of the epoch rows. `health` is the worker's row
in `streams`, whose write may be refused while the code goes on. `Revoke` is the
tombstone, the smaller downgrade if that fails, or neither.
`MaintenanceFails` and `HandlerReports` are the loop's outermost `except`.
`Ready` is what `evm_launch_bridge.configured_stream_health` takes for verified
coverage. `answered` is history.

### EvmQualification

`raw` is the `raw_pools` row of each factory log and `launch` the event derived
from it. `Hear` and `Withdraw` are `persist()`; a linked log that is withdrawn is
followed by `Retire`, a commit in the other database, and `StreamDies` is the
process dying in between, which `unretired` remembers. A scan reads a batch with
no lease (`ReadBatch`, with its expiries), screens with any result, then does
`Record`, `ReadBackLaunch` and `Link`; other scans and crashes may come between.
`LinkedLaunchIsRetired` leaves out what `unretired` holds: after a death between the two
commits the launch stays valid, and nothing in the code repairs it.

### SolanaReconcile

`captures` and `hydrations` are the append-only observations of each launch,
by their mode and their provider; `launchRow` is the row they add up to. A run reads
the cursor, fetches an epoch from the archive, inserts what it found, hydrates it,
compares and seals in one transaction. That transaction does not look at the cursor
again: what keeps a stale run from sealing are the uniqueness keys of
`reconciliation_epochs` (`epoch_id`, and the range with its provider), on which the
insert fails (`IsNew`, `SealRefused`). `canonical`
is what the chain finalizes, chosen at the start. `Provable` is the candidate
proof. The circuit of the archive is open or closed; its counters are left out.

### LaunchEvidence

The two models above meet in one table, of which each keeps what it needs:
`SolanaReconcile` how a launch comes to be verified, `LaunchEnrollment` what is
done with one that is. `LaunchEvidence` is what they must agree on. A launch is
`known`, `verified` or `disputed`; none of the three is ever taken back, and a
seal verifies or disputes known launches, each before it was verified. Both modules
define the refinement mapping at their end (`ImplementsEvidence`): `known` is a
row that exists, `verified` a verdict of `verified_live`, `disputed` a
`source_conflict_at` that is set. What is not taken back matters because rows
are written late: a hydration fetched before a conflict and stored after it
overwrites `evidence_state`, but not the conflict (`_set_hydration`).

### LaunchDelivery

The radar's job and the quote refresh publish the same board. A job appends an
assessment, renders a view, writes the file and its manifest under the write
lock, pushes both, puts an immutable snapshot, reads it back, appends the
delivery proof and renders again, now promoted. The export renders without an
assessment of its own, so `Render` may also be the first step. `Level` derives the action level from the ledger: from the quote's life and its
proof; the delivery time is checked where the proof is read back (`InTime`). Each
network step may fail and the process may stop after any step.

### OutcomeResolver

`Start` reads the open rows and selects tasks under the lookup budget, a slot for
the head of each lane and then by priority, last attempt and due time; each task is
then refused by the cost gate (`RejectCost`) or passes it (`PassCost`), and a lookup is
answered, rate-limited, or raises; `Save` writes back the
measurement columns as they were read at the start. `InvalidateReads` and `InvalidateWrites` are
the reorg's two statements. `tries` keeps, for each horizon and
event, the rank of its last attempt among the attempts of that horizon: only the order
of `attempted_at` decides what comes next, so `Start` closes the ranks up
(`Rank`) and `Tried` gives a task the newest.

### CarryPaper, ConvergenceLedger, OperatorSentinel, HlpTracker

`CarryPaper` is the clock of an episode through a run: `episode` is what the
run sees, `stored` what is committed; visiting an episode adds measured or
unmeasured time, quotes an exit after a commit, closes or opens. Rates and costs
are left out.

`ConvergenceLedger` freezes one event for a token and UTC day and fills due
horizons, in two commits, behind the disk guard.

`OperatorSentinel` has the JSON file of one watched cluster and its five
writers. Three take `_state_lock`; the transfer scan reads its cursor long before
it does. Two (`assess_second_leg`, `register`) save the image they read, and
`held` is that image. `moves` are the cluster's transfers on chain, a cursor is the
number of one, and `window` is the scan's answer. `PagesFrom` is the path by
wallet, strictly after the cursor; a page that failed leaves transfers out
without a sign of it. `LogsFrom` is `eth_getLogs`, whose first block lies at
least 50 blocks back whatever the cursor says, and no further than two days
(`CapDays`), so that it brings back transfers already judged and may leave out old
ones. `accounted` is history: what the committed windows held, with what they
could not have held. Left as they are taken: the block time from which the first block is
computed, and that no two transfers share a block time.

`HlpTracker` records the steps of the rolling day window and compounds them. A
step's return is the change of the logarithm of the equity, so that compounding
is a sum, and `Returns` is the set of returns the vault may make; a gap in the record starts
a new segment. `Pass` is the loop of the summary, as a recursive function of the steps
seen so far, and `Cumulative` the sum it is compared with.

### MCServices

The services of the previous sections share no state, so one run checks them
all: `focus` is chosen at the start and only that service moves. Each is a
specification of its own (`QualSpec`, `DeliverySpec`, ...), to which its theorems
refer.

## 4. The runs

| Run | Question | Bounds |
|---|---|---|
| `solana_lane` | Does a Solana lane skip no slot silently, say `live` only without debt, implement `SlotCoverage`, and settle every slot it owes? | 5 slots, 2 skipped; one gap and 2 probes per cycle |
| `evm_lane` | Does an EVM lane, where the reader repairs too, say `live` only without debt, implement `SlotCoverage`, and settle every block? | 5 blocks, chunks of 1, 2 gaps per fetch |
| `launch_lost` | Does the cursor wait for the evidence, as the comment in `run_connection` says? **violated** | 3 slots, one launch |
| `enroll_overlap` | Two overlapping scans of one launch: leases, terminal rows, the latch | clock to 3, boundary 2, deadline 1, every other duration at its smallest |
| `enroll_leases` | One scan, two launches: do events lie in their window and does every exit give its leases back? | 2 launches in one batch, clock to 3, deadline 0 |
| `gate_forward` | Does the latch only move forward, as the document says? **violated** | 1 scan, 1 launch |
| `enroll_crash` | Are batches crash-safe, as the docstring says? **violated** | 1 scan, 1 launch, clock to 5 |
| `steady_source` | Does a latch over a source that never fails stay open? **violated** | 1 scan, 1 launch, clock to 5 |
| `evm_coverage` | Does `live` belong to its session, is coverage attested and tiled, through reconnects, late and removed logs, a full disk and crashes? | 3 blocks, 2 with a log; 3 generations, 2 providers of which one audits; audits of 1, epochs of 2, 1 kept |
| `outcomes` | Do recorded prices, retirements and every trial survive crashes, rate limits and reorgs? | 2 events, 2 horizons, 2 prices, one lookup per run, grace 2 |
| `dead_pool` | Is a failed lookup sorted back, as the docstring says? **violated** | 2 events, one of a pool whose source raises |
| `services` | The seven services of `MCServices`, each with its overlapping jobs and crashes; does `SolanaReconcile` implement `LaunchEvidence`? | below |

Why the bounds are enough. *Lanes*: five slots allow two gaps at once, a gap of three
slots that is checkpointed in two steps, a late message that falls into a gap,
and a run of two skipped slots, which is proved in one step and which one step
may prove only partly when the worker enters it in the middle; with one gap and two
probes per cycle a gap competes for its turn. In `evm_lane` a gap of two
makes the inline backfill refuse and the worker checkpoint. *Enrolment*: the clock
holds a detection before and after the boundary, an expired lease and a stale
epoch; with the deadline at 0 a decision one tick after the detection is late,
with it at 1 a lease can run out before the deadline; two scanners are the
scheduler's and a manual one. *Coverage*: the last two blocks are looked back
at, so the first is outside the claim; two epochs with one kept make pruning move
the start; a third generation lets one session be published while an audit of an older
one runs. *Outcomes*: two events compete for one lookup, and each can be measured,
missed or refused before its grace ends.

*Services*: two logs and two scans; two publishers, two quotes, and a delivery
time of 0 below a quote's life of 2, so that a read-back can be late while the quote lives; two
launches in one epoch, where two runs can each find part of what the other does;
two symbols over two minutes with every age limit at 1, so that fresh, late and
missing observations all occur; two transfers over two days with one unlocked rewriter, every day
beyond the scan's age limit and the look-back's cap, so that cursors age and transfers
fall out of reach;
five steps of the vault with a window of two; two horizons over two days. Only
one reconciliation epoch is checked, since two more than double the graph: the
theorems of `SolanaReconcileProofs` hold for every number of them.

The theorems of section 6 remove the bounds for what they state.
Symmetry is used for safety and action properties only.

## 5. Fairness

`StreamLane!FairSpec`: both threads are loops that sleep and try again, so
fetching, resting and the passing of a retry time are weakly fair. `TakeGap`,
`Prove` and `Advance` are strongly fair, the last two for each gap: a failure, a
deadline or a crash disables them again and again, and the assumption is that
the provider serves a gap's blocks at some one of the attempts that never end.
Without that nothing could be promised: the code defers a gap for ever when its
proof fails for ever. The reader is not assumed fair; a silent socket changes
nothing about debts.

`LaunchEnrollment!FairSpec`: a scan that is not killed goes on (weak fairness of
its steps), because each call it makes has a timeout. Crashes are left out: a
killed scan gives nothing back, and its leases run out instead.

`OutcomeResolver!FairSpec`: the clock passes, the hourly job starts, and a lookup
that was begun ends one way or another (weak fairness). Some task that
reaches the cost gate is let through or refused, some lookup is answered, and some answer is saved,
each again and again (strong fairness of "some event", not of each): a provider that
limits the rate of every call, or a process that dies in every run, would settle
nothing. Which event is answered is left to the code's order, and that is what
`EveryTrialEnds` is about. Nothing is assumed of the gate itself: it may refuse a row at
every run. A permanent refusal takes the row out of the queue. A deferred one
(`opportunity_outcomes.py:276-306`) counts no attempt, so the row keeps its place at
the head of the budgeted queue and, if the refusal never ends, starves the rows behind
it. `EveryTrialEnds` therefore says that every trial ends *unless* from some point on
some open row's refusal stays deferred for good.

The other modules state safety only: nothing in `EvmCoverage` must become live, and the
jobs of `MCServices` may stop at any point.

## 6. What is proved

Each proof is one inductive invariant of the component's specification, `IInv`
or the component's name with it (`QualIInv`): `Init => IInv`,
`IInv /\ [Next]_vars => IInv'`, and each theorem from it.

- `StreamLaneProofs`, for every chain, cursor bound, budget and chunk size
  under `LaneAssumption`: `LaneTypeCorrect`, `LaneSkipsNoSlot`,
  `LaneLiveOwesNothing`, `LaneWorkerCurrent`, `LaneSettlesOnlyLoaded`,
  `LaneDisconnectSticky` and the refinement `LaneImplementsCoverage`. "No slot is
  skipped" is not inductive alone: a checkpoint trims a gap by what the worker
  believes of it, so the invariant also says that the worker's rows agree with
  the table while the gap is open, that what it has verified was loaded or
  skipped, that the reader's reported gap was loaded before it is resolved, and
  that every gap lies below the cursor. The assumption
  `InlineBackfill => Produced = Slots` is the EVM chain having a block in every
  number.
- `LaunchEnrollmentProofs`, for any scanners, launches and instants and all
  durations under `EnrollmentAssumption`: `EnrollmentTypeCorrect`,
  `CohortOpensOnTime`, `CohortEnrolsInWindow`, `QualifiedRowsAreBacked`,
  `TerminalRowsStay`, `BreachesAreFinal` and `LeasesExclude`. The invariant adds what each scanner
  has established by the step it stands at: the clock it decided with is not
  ahead of the wall clock, the launch it holds was detected after the boundary
  and not later than that clock, the deadline was met, and the latch was open,
  hence opened at an instant not after the decision. With the first of these a
  claim cannot take a lease that the wall clock has not ended, and a result moves
  the scanner that reports it.
- `EvmCoverageProofs`, for every chain, all sessions and providers and every
  size of look-back, audit, epoch and retention under `CoverageAssumption`:
  `CoverageTypeCorrect`, `LiveSession`, `ReadyIndependent`, `Attested`,
  `EpochsTiled` and `Retracts`. The audit acts on old reads, so `AuditInv` says
  what of them still holds at each step (its provider is not its session's, its
  end lies between watermark and head, what it has stored of the answer is complete or
  removed since). `EpochsTiled` also needs the epochs' order: each in its own
  stretch of the chain, one for each stretch (`Ordered`); then pruning the oldest
  keeps a range without a hole (`PrunedCovers`), and a segment continues the newest
  epoch or opens the next one (`WithSegmentOK`).
- `EvmLaunchProofs` takes an EVM launch from its log to the board. For any
  logs and scans: `LinkedLaunchRetires`. A
  linked log must already have its launch, and a scan about to link must know of
  one, since the ledger never loses a row. For any publishers and durations:
  `ActionableDelivered` and `ManifestMatches`. What a board says was justified
  when it was rendered, and proofs and quotes are append-only.
- `SolanaReconcileProofs`, for any launches, runs and number of epochs:
  `EpochsTile` and `ProvableIsComplete`. A run carries an old cursor, and the seal
  is where it meets the present one; a clean epoch stays clean because captures
  are never withdrawn. `ReconcileImplementsEvidence` is the refinement of
  `LaunchEvidence`: a launch with a verdict belongs to an epoch behind the cursor
  (`JudgedBehind`), and the seal compares the epoch at the cursor, so it never
  judges a launch again; and whatever a run or a hydration in flight is about has
  a row (`Heard`). `EnrollmentImplementsEvidence`, in `LaunchEnrollmentProofs`, is the
  same refinement from the other side: no step of a scan says anything of the
  evidence, so what the enrolment relies on is what the reconciler provides.
- `OutcomeResolverProofs`, for any events, horizons, prices and budget under
  `OutcomeAssumption`: `OutcomeTypeCorrect`, `OneTaskOfEachRow`,
  `SettledObserved` and `ReopenedByOlderRun`. The resolver
  and the removal both write back rows they read earlier. Such a copy has
  settled nothing but what is on record, since a recorded price is never
  changed (`Agrees`), and a run copies only rows that were open (`RunOK`): the
  priorities are distinct naturals, so a first due horizon exists and the tasks
  of a run are tasks of open rows. The types need more than types: the ranks of
  the attempts stay below the number of events because the queue of a run holds
  every task once, and the queue does because the order of the tasks has no cycle of
  length one and each row offers one task (`SelectionDistinct`). `LastTick`, a
  maximum over the events, exists because they are finitely many
  (`LastTickIsNat`).
- `ServiceProofs` holds the proofs of four smaller modules. For any
  symbols and limits `CarryPaper` has `TimeAccounted`: every clock of an episode
  stays behind the run's that will visit it. For any tokens, horizons and length
  of a day `ConvergenceLedger` has `FirstRunResolves`, with the minimum over past
  runs unfolded. For any returns, window and number of steps `HlpTracker` has
  `DrawdownOfRecordedTime`: what the loop of the summary holds after `i` steps is
  stated for every `i` at once (`PassOK`: the equity is the sum since the head of
  the stretch, the peak and the drawdown are the extremes so far), and the
  first `i` for which it failed is refuted (`NatSetInduction`, from the least
  element of a set of naturals). For any number of unlocked rewriters and
  transfers `OperatorSentinel` has `CursorLeavesNothing`: the cursor of the file, and that of
  every image an unlocked rewriter may still save over it, has nothing before it
  that was not accounted for (`CursorsOK`); the answer a scan holds closes the gap
  between the cursor it was asked with and the one it brings (`WindowOK`), and
  what was accounted for stays so.
- `MCServicesProofs` lifts all of these to the suite that `services` runs:
  `SuiteImplementsEach` (a behaviour of the suite is one of every service, most
  of them at rest) and `SuiteTypeCorrect`.

`services` checks the type invariants of its seven modules as the parts of
`MCServices!TypeOK`; each is a theorem of its own too (`QualTypeCorrect`,
`ReconcileTypeCorrect`, `DeliveryTypeCorrect`, `CarryTypeCorrect`,
`LedgerTypeCorrect`, `HlpTypeCorrect`, `SentinelTypeCorrect`).

Every safety property that a passing run checks, invariant, action property or
refinement, is so proved for all values of the constants. Only model-checked:
`DebtIsSettled`, `LeasesComeBack` and `EveryTrialEnds` (liveness under fairness
and `ENABLED` are out of the prover's reach), and the five violated statements of section 7,
which are no theorems.

Two forms follow from the prover. A recursive definition is a recursive
function, whose equation is itself proved (`CumulativeDef`, `PassDef`: a
function with that equation exists over one step more). And induction is
over an index, as the least counterexample, since the library's induction
theorems take an operator as parameter.

## 7. Where the code and its documents differ

1. `launch_protocol_gate.py:193-197` sets an armed latch back to scheduled when
   the source is not ready before the boundary;
   `docs/LAUNCH_EDGE_VALIDATION_PROTOCOL.md:59` says the state only moves
   forward. Run `gate_forward`.
2. `launch_radar.py:562-580` commits the ledger event before it settles the
   row. A scan that dies in between leaves an event that a later scan cannot
   match (its decision time differs), so the row ends as `ledger_orphan` or
   `qualification_expired`, although line 604 calls the batches crash-safe. Run
   `enroll_crash`.
3. Every batch asks for admission with the clock of the scan's start
   (`launch_radar.py:383, 626`). An epoch sealed since then has a negative age,
   which `source_readiness` takes for not ready, and the open latch breaches for
   good. The document lets it breach on a readiness failure only and limits the
   age of the evidence to 300 seconds. Run `steady_source`.
4. `opportunity_outcomes.py:251-252` says that failed lookups are persisted as
   attempts and sorted back, so that one dead pool cannot starve the others; a
   source that raises anything but the two exceptions it expects leaves
   `resolve()` at 337-338 before the attempt is saved, and heads the queue of every later run.
   Run `dead_pool`.
5. The message that moves a lane's cursor is not the one that carries the evidence.
   `slotNotification` (`solana_launch_stream.py:1239-1244`) and `newHeads`
   (`evm_factory_stream.py:1036-1043`) carry the cursor and store nothing (1681-1682;
   1355-1358); launch logs carry none (1259-1264; 1100). If the writer refuses the log
   of slot N, or the socket drops before it comes, the cursor already stands at N: the
   lane reconnects from there and records no gap. `stream_runner.py:89-92` says that
   such failures "must reconnect from the prior cursor instead of manufacturing
   apparent coverage". Run `launch_lost` (connect, tip 1, tip 2, the log of 2
   fails). The loss is not final for the forward cohort: the reconciliation
   epochs (`SolanaReconcile`) and the finalized audit (`EvmCoverage`) compare with the
   finalized chain and find the launch missing, later and not as a live capture.

What the models made visible and no run states as a violation, because no text
of the repository promises otherwise, or because the properties name it as an
exception, or because it stays outside what they say:

- `evm_factory_stream`: `HandlerReports` with no session can blank the generation
  of a session published meanwhile; audits of that session then cannot report
  until it reconnects. Fail-closed.
- `launch_radar`, EVM path: a crash or an overlap between `record` and
  `set_qualification` leaves the row as `duplicate_token_existing` without its
  ledger id, and a later reorg does not retire that launch. `LinkedLaunchIsRetired`
  speaks of linked rows.
- `solana_launch_reconcile`, three facts that are never repaired, all
  fail-closed: the archive's observation keeps the stamp of the first run that
  inserted it, so after a run that failed half-way those launches can never be
  proved; a row the archive hydrates before the live queue reads it is never
  hydrated by the live provider; a launch heard on a fork in another slot makes
  every archive write of its epoch raise.
- `operator_sentinel`: the two writers without the lock (339-377 and
  `operator_hunt.py:335-389`) can take a cursor or a phase back, against the
  docstring of `_state_lock` (96-98); a baseline rebuilt after an outage can put
  the cursor before the one it replaces; an alert that the phase de-duplication
  suppresses is consumed all the same. `NothingSlipsPast` allows all of these:
  transfers may be judged again, but not jumped over.
- `operator_sentinel`, the logs' path: it sums every log from at least 50 blocks back,
  with no filter by the cursor (587-624), so that a transfer near the cursor is judged
  by two scans and added to `cum_net_sold` twice, although the comment at 1075-1076 calls
  the sum of the windows exact. It looks back two days (595-596) while a cursor is
  used for three (`_FLOW_SCAN_MAX_DAYS`), so that after an outage in between the
  transfers older than two days are skipped without a word. On the paths by wallet a
  failed page counts as no transfers and still refreshes the scan's stamp, so that
  a long outage of the provider is later replayed as one tick, which the docstring of
  `_flow_cursor` says must not happen; and what trades while the wallets are asked
  one after the other, or on the first scan, can end behind the new cursor unjudged.
- `opportunity_outcomes`: a cost refusal that is deferred for ever starves the rows
  behind it (section 5).
- `opportunity_outcomes`: an invalidation that commits between the resolver's
  read and its write is overwritten. `ReopenedOnlyByOlderRun` is exact about it.
- `convergence_ledger`: a wave across midnight becomes two events; an outcome
  without a price is frozen for good; after an outage the one-hour return is
  measured late.

## 8. What is not modelled, and why

- Network clients, parsers, scoring, rendering: pure I/O or pure functions of
  data, listed per part in `PROJECT.json`. They are most of the repository.
- `snapshot()`'s staleness after 120 seconds: derived from wall clocks at read
  time.
- The circuit breakers: their state only decides whether a call is refused,
  which the models leave open (`SolanaReconcile` keeps open and closed, without
  the back-off).
- The paper trader: its exit check has no caller, so its life cycle is not one
  the program takes.
- `CarryPaper`: rows of the legacy protocol, which are quarantined, and the copy
  of episodes into the opportunity ledger (`carry_paper.py:200-336`).
- `LaunchEnrollment`: the GeckoTerminal path. Detection and hydration are one
  step there, and an epoch verifies any set of rows not compared yet; how that
  comes about is `SolanaReconcile`.
- The legacy backfills of the command line, signature paging, the statistics
  over settled rows, the reports of the operations directory.
- The Hyperliquid sampling stream: it samples and keeps no ledger of gaps.
- Duplicate launch rows, hash columns, reason texts and logs: written and never
  read by the modelled operations.
- Clocks that jump backwards: the code compares wall clocks of one machine.
- External: that the vault's API samples on a fixed grid (`HlpTracker`), and that
  Solana reconciliation begins at a configured slot.
