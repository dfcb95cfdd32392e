----------------------------- MODULE StreamLane -----------------------------
(***************************************************************************)
(* One evidence lane: the websocket reader (stream_runner.StreamRunner),   *)
(* the gap recovery worker (retry_open_gaps of solana_launch_stream.py or  *)
(* of evm_factory_stream.py), and the health store they share.  The reader *)
(* and the worker are threads of one process that launchd restarts; each   *)
(* SQLite transaction, RPC proof and socket operation is a step, so that a *)
(* crash or the other thread can come between any two of them.             *)
(*                                                                         *)
(* InlineBackfill tells the lanes apart: the EVM reader backfills a gap as *)
(* soon as observe reports it, the Solana reader never does.               *)
(***************************************************************************)
EXTENDS StreamHealth

CONSTANTS
    InlineBackfill,        \* StreamRunner got a backfill callback (EVM)
    Produced,              \* slots that hold a block; the others were skipped
    Launched,              \* those that hold a launch the lane must capture
    ChunkSize,             \* MAX_BACKFILL_BLOCKS of an EVM retry
    FetchLimit,            \* LIMIT of open_gaps
    SlotBudget,            \* the slot budget of a Solana cycle
    Lookahead              \* SKIPPED_SLOT_PROOF_LOOKAHEAD

ASSUME LaneAssumption ==
    /\ InlineBackfill \in BOOLEAN
    /\ Produced \subseteq Slots
    /\ Launched \subseteq Produced
    /\ ChunkSize \in Nat \ {0}
    /\ FetchLimit \in Nat \ {0}
    /\ SlotBudget \in Nat \ {0}
    /\ Lookahead \in Nat
    /\ InlineBackfill => Produced = Slots

VARIABLES
    reader,                \* where run_forever / run_connection stands
    event,                 \* cursor of the message in hand, None if it has none
    reported,              \* the gap observe() just returned
    worker,                \* where the recovery worker stands
    queue,                 \* gaps the worker read and has not finished with
    target,                \* the gap it works on
    slot,                  \* the slot it proves now
    verified,              \* the last slot its proof covers
    budget,                \* slots it may still probe in this cycle
    \* history, for the properties only
    first,                 \* the first cursor the lane ever observed
    reached,               \* the slots the cursor itself has stood at
    stored,                \* launched slots whose log passed the lane's writer
    loaded                 \* slots whose finalized block was read and persisted

readerVars == <<reader, event, reported>>
workerVars == <<worker, queue, target, slot, verified, budget>>
history == <<first, reached, stored, loaded>>
vars == <<cursor, status, gaps, reader, event, reported,
          worker, queue, target, slot, verified, budget,
          first, reached, stored, loaded>>

GapView == [id: Nat, lo: Slots \cup {0}, hi: Slots \cup {0}]
NoGap == [id |-> 0, lo |-> 0, hi |-> 0]

TypeOK ==
    /\ HealthType
    /\ reader \in {"idle", "revoking", "dialing", "up", "persisted",
                  "backfilling", "filled", "failing"}
    /\ event \in Slots \cup {None}
    /\ reported \in GapView
    /\ worker \in {"asleep", "choosing", "proving", "proved", "abandoned"}
    /\ queue \subseteq GapView
    /\ target \in GapView
    /\ slot \in Nat
    /\ verified \in Nat
    /\ budget \in Nat
    /\ first \in Slots \cup {None}
    /\ reached \subseteq Slots
    /\ stored \subseteq Launched
    /\ loaded \subseteq Slots

WorkerAsleep ==
    /\ worker' = "asleep"
    /\ queue' = {}
    /\ target' = NoGap
    /\ slot' = 0
    /\ verified' = 0
    /\ budget' = 0

Init ==
    /\ HealthInit
    /\ reader = "idle" /\ event = None /\ reported = NoGap
    /\ worker = "asleep" /\ queue = {} /\ target = NoGap
    /\ slot = 0 /\ verified = 0 /\ budget = 0
    /\ first = None /\ reached = {} /\ stored = {} /\ loaded = {}

-----------------------------------------------------------------------------
(* The reader.                                                             *)

ReaderMoves(from, to) == reader = from /\ reader' = to

\* _invalidate_connect_health of the EVM lane: read the row, and in a second
\* transaction revoke a live claim.  snapshot() shows a live row that is more
\* than two minutes old as stale, which is left alone.
ReadHealth ==
    /\ InlineBackfill
    /\ reader = "idle"
    /\ reader' \in CASE status = "absent" -> {"revoking"}
                      [] status = "live" -> {"revoking", "dialing"}
                      [] OTHER -> {"dialing"}
    /\ UNCHANGED <<health, event, reported, workerVars, history>>

RevokeLiveClaim ==
    /\ ReaderMoves("revoking", "dialing")
    /\ MarkDisconnectedTx
    /\ UNCHANGED <<event, reported, workerVars, history>>

Dials == IF InlineBackfill THEN "dialing" ELSE "idle"

Connect ==
    /\ ReaderMoves(Dials, "up")
    /\ UNCHANGED <<health, event, reported, workerVars, history>>

ConnectFails ==
    /\ reader \in {Dials, "revoking"}
    /\ reader' = "failing"
    /\ UNCHANGED <<health, event, reported, workerVars, history>>

\* A tip message (slotNotification, newHeads) carries the cursor and no
\* evidence: on_event stores nothing for it.  None stands for a message that
\* has neither.  Messages come in any order and possibly again.
Receive(c) ==
    /\ ReaderMoves("up", "persisted")
    /\ event' = c
    /\ UNCHANGED <<health, reported, workerVars, history>>

\* The log of a launch carries the evidence and no cursor.  Nothing orders it
\* with the tip message of its slot.
ReceiveLog(s) ==
    /\ ReaderMoves("up", "persisted")
    /\ event' = None
    /\ stored' = stored \cup {s}
    /\ UNCHANGED <<health, reported, workerVars, first, reached, loaded>>

\* The socket drops, or the disk guard or the writer refuses the event.
ReceiveFails ==
    /\ ReaderMoves("up", "failing")
    /\ UNCHANGED <<health, event, reported, workerVars, history>>

\* A message without a cursor need not refresh the health row every time.
SkipHealth ==
    /\ ReaderMoves("persisted", "up")
    /\ event = None
    /\ UNCHANGED <<health, event, reported, workerVars, history>>

Observe ==
    /\ reader = "persisted"
    /\ ObserveTx(event)
    /\ first' = IF first = None THEN event ELSE first
    /\ reached' = reached \cup ({cursor'} \ {None})
    /\ event' = None
    /\ IF SkipsTo(event) /\ InlineBackfill
       THEN /\ reader' = "backfilling"
            /\ \E i \in GapsOver(gaps', cursor + 1, event - 1) :
                  reported' = [id |-> i, lo |-> cursor + 1, hi |-> event - 1]
       ELSE reader' = "up" /\ UNCHANGED reported
    /\ UNCHANGED <<workerVars, stored, loaded>>

ObserveFails ==
    /\ ReaderMoves("persisted", "failing")
    /\ event' = None
    /\ UNCHANGED <<health, reported, workerVars, history>>

\* A range above the block budget is refused and left to the worker.
Backfill ==
    /\ ReaderMoves("backfilling", "filled")
    /\ reported.hi - reported.lo + 1 <= ChunkSize
    /\ loaded' = loaded \cup (reported.lo .. reported.hi)
    /\ UNCHANGED <<health, event, reported, workerVars, first, reached, stored>>

BackfillFails ==
    /\ ReaderMoves("backfilling", "up")
    /\ reported' = NoGap
    /\ UNCHANGED <<health, event, workerVars, history>>

ResolveReported ==
    /\ ReaderMoves("filled", "up")
    /\ ResolveTx(reported.id)
    /\ reported' = NoGap
    /\ UNCHANGED <<event, workerVars, history>>

ResolveFails ==
    /\ ReaderMoves("filled", "failing")
    /\ reported' = NoGap
    /\ UNCHANGED <<health, event, workerVars, history>>

\* run_forever's except clause, and what it does when that write fails too.
RecordDisconnect ==
    /\ ReaderMoves("failing", "idle")
    /\ MarkDisconnectedTx
    /\ UNCHANGED <<event, reported, workerVars, history>>

RecordDisconnectFails ==
    /\ ReaderMoves("failing", "idle")
    /\ UNCHANGED <<health, event, reported, workerVars, history>>

ReaderNext ==
    \/ ReadHealth \/ RevokeLiveClaim \/ Connect \/ ConnectFails
    \/ \E c \in Slots \cup {None} : Receive(c)
    \/ \E s \in Launched : ReceiveLog(s)
    \/ ReceiveFails \/ SkipHealth
    \/ Observe \/ ObserveFails
    \/ Backfill \/ BackfillFails
    \/ ResolveReported \/ ResolveFails
    \/ RecordDisconnect \/ RecordDisconnectFails

-----------------------------------------------------------------------------
(* The recovery worker.                                                    *)

\* Solana asks for the smallest remaining span, EVM for the oldest gap.
Before(a, b) ==
    IF InlineBackfill \/ a.hi - a.lo = b.hi - b.lo
    THEN a.id < b.id
    ELSE a.hi - a.lo < b.hi - b.lo

IsFetch(Q) ==
    /\ \A a \in Q, b \in DueGaps \ Q : Before(a, b)
    /\ Cardinality(Q) <= FetchLimit
    /\ Cardinality(Q) = FetchLimit \/ Q = DueGaps

FetchGaps ==
    /\ worker = "asleep"
    /\ DueGaps # {}
    /\ \E Q \in SUBSET DueGaps : IsFetch(Q) /\ queue' = Q
    /\ worker' = "choosing"
    /\ budget' = IF InlineBackfill THEN FetchLimit ELSE SlotBudget
    /\ UNCHANGED <<health, readerVars, target, slot, verified, history>>

\* The next gap of the fetched list, while a probe is left.
TakeGap ==
    /\ worker = "choosing"
    /\ budget > 0
    /\ \E g \in queue :
          /\ \A o \in queue \ {g} : Before(g, o)
          /\ target' = g
          /\ slot' = g.lo
          /\ queue' = queue \ {g}
    /\ worker' = "proving"
    /\ UNCHANGED <<health, readerVars, verified, budget, history>>

Rest ==
    /\ \/ worker = "choosing" /\ (queue = {} \/ budget = 0)
       \/ worker = "abandoned"
    /\ WorkerAsleep
    /\ UNCHANGED <<health, readerVars, history>>

\* The chunk an EVM retry reads with one eth_getLogs.
ChunkEnd ==
    IF target.hi <= slot + ChunkSize - 1 THEN target.hi ELSE slot + ChunkSize - 1

\* Mutant of ParentBelow: trusts the provider's list of produced slots.
AnyBlockProves(f, s) == TRUE

\* Every block below f on the finalized chain lies below s: f's parentSlot < s.
ParentBelow(f, s) == \A p \in Produced : p < f => p < s

\* The worker forgets its gap.
LeavesGap(to) ==
    /\ worker' = to
    /\ target' = NoGap
    /\ slot' = 0
    /\ verified' = 0

Proves(v, blocks) ==
    /\ worker = "proving"
    /\ worker' = "proved"
    /\ verified' = v
    /\ loaded' = loaded \cup blocks
    /\ budget' = budget - 1
    /\ UNCHANGED <<health, readerVars, queue, target, slot, first, reached, stored>>

ProveChunk ==
    /\ InlineBackfill
    /\ Proves(ChunkEnd, slot .. ChunkEnd)

ProveProduced ==
    /\ ~InlineBackfill
    /\ slot \in Produced
    /\ Proves(slot, {slot})

\* getBlocks names f as the first block from slot on.  A provider may omit
\* blocks: f proves a skipped run only if its own parent lies below the run.
ProveSkipped ==
    /\ ~InlineBackfill
    /\ \E f \in Produced :
          /\ slot < f /\ f <= slot + Lookahead
          /\ ParentBelow(f, slot)
          /\ Proves(f - 1, {})

Prove == ProveChunk \/ ProveProduced \/ ProveSkipped

\* A failed proof or checkpoint defers the gap; if that write fails as well,
\* EVM abandons the cycle.
GivesUpOnGap ==
    \/ DeferTx(target.id) /\ LeavesGap("choosing")
    \/ UNCHANGED health /\ LeavesGap(IF InlineBackfill THEN "abandoned" ELSE "choosing")

\* Provider pressure stops the Solana lane for this cycle (the rest of the list
\* is dropped); a failure of the gap alone does not.
ProveFails ==
    /\ worker = "proving"
    /\ GivesUpOnGap
    /\ budget' = budget - 1
    /\ queue' \in (IF InlineBackfill THEN {queue} ELSE {queue, {}})
    /\ UNCHANGED <<readerVars, history>>

\* The work budget's deadline has passed, before the probe or during it.
StopProving ==
    /\ worker = "proving"
    /\ ~InlineBackfill
    /\ LeavesGap("abandoned")
    /\ UNCHANGED <<health, readerVars, queue, budget, history>>

\* Mutant of Checkpoint: one proved chunk settles the whole gap.
WholeTarget == target.hi

\* min(end, verified_through)
Checkpoint == IF verified < target.hi THEN verified ELSE target.hi

\* The verified prefix is checkpointed.  Solana stays on a gap it only
\* advanced, while a probe is left; EVM goes on to the next gap of its list.
Advance ==
    /\ worker = "proved"
    /\ InlineBackfill \/ Advances(target.id, Checkpoint)
    /\ AdvanceTx(target.id, Checkpoint)
    /\ IF ~InlineBackfill /\ Checkpoint < gaps[target.id].hi /\ budget > 0
       THEN /\ worker' = "proving"
            /\ slot' = Checkpoint + 1
            /\ verified' = 0
            /\ UNCHANGED target
       ELSE LeavesGap("choosing")
    /\ UNCHANGED <<readerVars, queue, budget, history>>

\* advance_gap raised, or (Solana) found nothing to advance.
AdvanceFails ==
    /\ worker = "proved"
    /\ GivesUpOnGap
    /\ UNCHANGED <<readerVars, queue, budget, history>>

WorkerNext ==
    \/ FetchGaps \/ TakeGap \/ Rest
    \/ Prove \/ ProveFails \/ StopProving
    \/ Advance \/ AdvanceFails

-----------------------------------------------------------------------------
\* launchd restarts the process: both threads lose what they held in memory.
Crash ==
    /\ reader' = "idle"
    /\ event' = None
    /\ reported' = NoGap
    /\ WorkerAsleep
    /\ UNCHANGED <<health, history>>

TimePasses ==
    /\ \E i \in DOMAIN gaps : BecomesDue(i)
    /\ UNCHANGED <<readerVars, workerVars, history>>

Next == ReaderNext \/ WorkerNext \/ Crash \/ TimePasses

Spec == Init /\ [][Next]_vars

(***************************************************************************)
(* The threads keep running, retry times pass, and a gap that is tried     *)
(* again and again is in the end proved and checkpointed: the provider     *)
(* serves its blocks sooner or later.  Strong fairness is needed because a *)
(* failure, a deadline or a crash can disable each of these steps.         *)
(***************************************************************************)
MaxGaps == (MaxCursor + 1) \div 2

Fairness ==
    /\ WF_vars(FetchGaps) /\ SF_vars(TakeGap) /\ WF_vars(Rest)
    /\ \A i \in 1 .. MaxGaps :
          /\ SF_vars(Prove /\ target.id = i)
          /\ SF_vars(Advance /\ target.id = i)
    /\ WF_vars(TimePasses)

FairSpec == Spec /\ Fairness

-----------------------------------------------------------------------------
Owed == OwedBy(gaps)

(***************************************************************************)
(* No slot is skipped silently: every produced slot from the first one     *)
(* observed up to the cursor is one the cursor itself stood at, one whose  *)
(* finalized block was read, or one an open gap still owes.  Between them  *)
(* observe (which moves the cursor past slots), the inline backfill, the   *)
(* worker's checkpoints and every crash keep it so.  It says nothing of    *)
(* the launches of a slot the cursor stood at: see LaunchesAccountedFor.   *)
(***************************************************************************)
NoSlotSkipped ==
    cursor # None =>
        \A s \in first .. cursor : s \in Produced => s \in reached \cup loaded \cup Owed

(***************************************************************************)
(* What the comment in run_connection promises: when the reader has to     *)
(* reconnect, the cursor has not moved past evidence that was never made   *)
(* durable.  The code does not keep it, since the message that moves the   *)
(* cursor is not the one that carries the evidence.                        *)
(***************************************************************************)
LaunchesAccountedFor ==
    reader = "failing" /\ cursor # None =>
        \A s \in Launched : first < s /\ s <= cursor => s \in stored \cup loaded \cup Owed

(***************************************************************************)
(* A lane whose row says live owes nothing: neither a repair nor a new     *)
(* message may report live while another gap is open (observe, resolve_gap *)
(* and advance_gap each recompute the status).                             *)
(***************************************************************************)
LiveOwesNothing == status = "live" => OpenIn(gaps) = {}

(***************************************************************************)
(* What the recovery worker believes about a gap that is still open is     *)
(* what the table says, although it read the rows in an earlier            *)
(* transaction and the reader may repair gaps meanwhile.                   *)
(***************************************************************************)
WorkerViewCurrent ==
    /\ \A q \in queue : IsOpen(q.id) => gaps[q.id].lo = q.lo /\ gaps[q.id].hi = q.hi
    /\ worker \in {"proving", "proved"} /\ IsOpen(target.id) =>
          gaps[target.id].lo = slot /\ gaps[target.id].hi = target.hi

(***************************************************************************)
(* Repairing history never hides a transport disconnect: only a new        *)
(* message leaves the disconnected status (comments in resolve_gap and     *)
(* advance_gap).                                                           *)
(***************************************************************************)
DisconnectSticky ==
    [][status = "disconnected" /\ status' # status => reader = "persisted"]_vars

(***************************************************************************)
(* A range leaves the open gaps only when the finalized block of every     *)
(* produced slot in it was read and persisted: an answer that omits a      *)
(* block, a partial chunk or a stale view of the gap can never shorten it. *)
(***************************************************************************)
SettledOnlyWhenLoaded ==
    [][\A s \in Owed \ Owed' : s \in Produced => s \in loaded]_vars

(***************************************************************************)
(* Under FairSpec, every slot a lane owes is in the end settled, however   *)
(* often its recovery is deferred, cut short by a deadline or overtaken by *)
(* a crash (the first and the last slot of the range are never owed).      *)
(***************************************************************************)
DebtIsSettled == \A s \in 2 .. MaxCursor - 1 : s \in Owed ~> s \notin Owed

-----------------------------------------------------------------------------
Coverage == INSTANCE SlotCoverage
    WITH Slots <- Slots, Needed <- Produced,
         tip <- cursor, owed <- Owed, recovered <- loaded

(***************************************************************************)
(* The lane keeps the promise of SlotCoverage to the readers of its cursor *)
(* and of its open gaps.                                                   *)
(***************************************************************************)
ImplementsCoverage == Coverage!Spec
=============================================================================
