-------------------------- MODULE SolanaReconcile --------------------------
(***************************************************************************)
(* What makes a Solana launch provable: the stream process hears it on the *)
(* websocket and hydrates it (solana_launch_stream._insert_raw and         *)
(* _set_hydration), and a job of the scheduler fetches finalized epochs    *)
(* from an independent archive, compares, and seals each epoch for good    *)
(* (solana_launch_reconcile).  Both write the same rows.                   *)
(***************************************************************************)
EXTENDS Integers, Sequences, FiniteSets

CONSTANTS
    Launches,
    EpochOf,               \* the epoch of each launch's finalized slot
    Reconcilers,           \* runs of the job that may overlap
    EpochBound,            \* bound: epochs of the instance
    NoLaunch

ASSUME EpochOfAssumption ==
    EpochBound \in Nat /\ EpochOf \in [Launches -> 0 .. EpochBound - 1]

VARIABLES
    canonical,             \* the launches the chain will finalize: chosen once
    launchRow,             \* raw_launches
    captures,              \* canonical raw_launch_observations, by their mode
    hydrations,            \* complete hydration_observations, by their provider
    hydrating,             \* the launch the maintenance thread is fetching
    sealed,                \* reconciliation_epochs, in the order of their commits
    nextEpoch,             \* reconciliation_cursor
    circuit,               \* reconciliation_circuits
    run                    \* where each run stands

rowVars == <<launchRow, captures, hydrations>>
sealVars == <<sealed, nextEpoch>>
reconcileVars == <<canonical, rowVars, hydrating, sealVars, circuit, run>>

Modes == {"live_ws", "finalized_reconciliation"}
Unseen == [mode |-> "none", evidence |-> "none", verdict |-> "unverified",
           conflict |-> FALSE, current |-> FALSE]
IdleRun == [pc |-> "idle", epoch |-> 0, found |-> {}, new |-> {}]

ReconcileInit ==
    /\ canonical \in SUBSET Launches
    /\ nextEpoch = 0 /\ sealed = <<>> /\ circuit = "closed"
    /\ launchRow = [l \in Launches |-> Unseen]
    /\ captures = [l \in Launches |-> {}]
    /\ hydrations = [l \in Launches |-> {}]
    /\ hydrating = NoLaunch
    /\ run = [r \in Reconcilers |-> IdleRun]

-----------------------------------------------------------------------------
\* _insert_raw: the first capture makes the row and names its mode; a later one
\* is only one more observation.  A capture that disagrees on the slot or the
\* logs marks the row for good and is not counted.
\* Mutant ReplacedRow: INSERT OR REPLACE.
ReplacedRow(row, mode) == [Unseen EXCEPT !.mode = mode, !.evidence = "raw_only"]
CapturedRow(row, mode) ==
    IF row.mode = "none" THEN [row EXCEPT !.mode = mode, !.evidence = "raw_only"] ELSE row
WithCapture(l, mode) == captures' = [captures EXCEPT ![l] = @ \cup {mode}]
Disagrees(l) ==
    /\ launchRow' = [launchRow EXCEPT ![l].conflict = TRUE,
                                      ![l].evidence = "source_conflict"]
    /\ UNCHANGED captures

\* _set_hydration.  The first complete identity stays; no answer or half of one
\* never erases it, and another identity is a conflict.  Rows that are not
\* complete (rpc_unavailable, incomplete) stay in the queue like raw ones.
HydratedRow(row, answer) ==
    CASE answer = "conflict" ->
            [row EXCEPT !.conflict = TRUE, !.evidence = "source_conflict"]
      [] answer = "complete" -> [row EXCEPT !.evidence = "complete"]
      [] answer = "partial" /\ row.evidence # "complete" ->
            [row EXCEPT !.evidence = "raw_only"]
      [] OTHER -> row
WithHydration(l, provider, answer) ==
    hydrations' = IF answer = "complete"
                  THEN [hydrations EXCEPT ![l] = @ \cup {provider}] ELSE hydrations

\* The stream process.  Heard at "confirmed": also what is never finalized.
HearLaunch(l) ==
    /\ launchRow' = [launchRow EXCEPT ![l] = CapturedRow(@, "live_ws")]
    /\ WithCapture(l, "live_ws")
    /\ UNCHANGED <<canonical, sealVars, hydrations, hydrating, circuit, run>>
HearOnFork(l) ==
    /\ launchRow[l].mode # "none" /\ Disagrees(l)
    /\ UNCHANGED <<canonical, sealVars, hydrations, hydrating, circuit, run>>
\* rehydrate_pending: rows still to hydrate when the queue is read ...
FetchTransaction(l) ==
    /\ hydrating = NoLaunch
    /\ launchRow[l].evidence = "raw_only"
    /\ hydrating' = l
    /\ UNCHANGED <<canonical, rowVars, sealVars, circuit, run>>
\* ... written whatever happened to them since; or the stream process restarts.
StoreTransaction ==
    /\ hydrating # NoLaunch
    /\ \/ \E answer \in {"complete", "partial", "conflict"} :
             /\ launchRow' = [launchRow EXCEPT ![hydrating] = HydratedRow(@, answer)]
             /\ WithHydration(hydrating, "live", answer)
       \/ UNCHANGED <<launchRow, hydrations>>
    /\ hydrating' = NoLaunch
    /\ UNCHANGED <<canonical, sealVars, captures, circuit, run>>

-----------------------------------------------------------------------------
\* One run of the reconciliation job.
HeldInArchive(e) == {l \in canonical : EpochOf[l] = e}

\* The circuit is read, then the heads of both providers and the cursor: before
\* both have finalized the epoch there is nothing to do.
StartRun(r) ==
    /\ run[r].pc = "idle" /\ circuit = "closed" /\ nextEpoch < EpochBound
    /\ run' = [run EXCEPT ![r] = [IdleRun EXCEPT !.pc = "scan", !.epoch = nextEpoch]]
    /\ UNCHANGED <<canonical, rowVars, sealVars, hydrating, circuit>>
\* A launch of the epoch is fetched from the archive and persisted, observation
\* and hydration.  The observation is stamped with the run that first stored it.
StoreCanonical(r, l) ==
    /\ run[r].pc = "scan" /\ l \in HeldInArchive(run[r].epoch) \ run[r].found
    /\ WithCapture(l, "finalized_reconciliation")
    /\ \E answer \in {"complete", "partial"} :
          /\ launchRow' = [launchRow EXCEPT
                ![l] = HydratedRow(CapturedRow(@, "finalized_reconciliation"), answer)]
          /\ WithHydration(l, "archive", answer)
    /\ run' = [run EXCEPT ![r].found = @ \cup {l},
                 ![r].new = IF "finalized_reconciliation" \in captures[l] THEN @
                            ELSE @ \cup {l}]
    /\ UNCHANGED <<canonical, sealVars, hydrating, circuit>>
\* A crash between the two transactions leaves only the observation.
StoreHalf(r, l) ==
    /\ run[r].pc = "scan" /\ l \in HeldInArchive(run[r].epoch) \ run[r].found
    /\ launchRow' = [launchRow EXCEPT ![l] = CapturedRow(@, "finalized_reconciliation")]
    /\ WithCapture(l, "finalized_reconciliation")
    /\ run' = [run EXCEPT ![r] = IdleRun]
    /\ UNCHANGED <<canonical, sealVars, hydrations, hydrating, circuit>>

\* A disagreement on the slot, the logs or the identity ends the run as any
\* failure does: RPC pressure opens the circuit, every other one clears it, and
\* the cursor stays.
ArchiveDisagrees(r, l) ==
    /\ run[r].pc = "scan" /\ l \in HeldInArchive(run[r].epoch) \ run[r].found
    /\ launchRow[l].mode # "none" /\ Disagrees(l)
    /\ run' = [run EXCEPT ![r] = IdleRun] /\ circuit' = "closed"
    /\ UNCHANGED <<canonical, sealVars, hydrations, hydrating>>
RunFails(r) ==
    /\ run[r].pc # "idle" /\ run' = [run EXCEPT ![r] = IdleRun]
    /\ circuit' \in {"open", "closed"}
    /\ UNCHANGED <<canonical, rowVars, sealVars, hydrating>>
RunDies(r) ==
    /\ run[r].pc # "idle" /\ run' = [run EXCEPT ![r] = IdleRun]
    /\ UNCHANGED <<canonical, rowVars, sealVars, hydrating, circuit>>
RetryDue ==
    /\ circuit = "open" /\ circuit' = "closed"
    /\ UNCHANGED <<canonical, rowVars, sealVars, hydrating, run>>

\* The seal: one transaction that reads the live captures under the write lock,
\* inserts the epoch, marks its launches and moves the cursor.
HeardIn(e, mode) == {l \in Launches : EpochOf[l] = e /\ mode \in captures[l]}
\* Mutant: every capture counts as live.
AnyCapture(e) == {l \in Launches : EpochOf[l] = e /\ captures[l] # {}}
LiveSignatures(e) == HeardIn(e, "live_ws")
\* Mutant: an epoch is inserted without its keys.
AlwaysNew(e) == TRUE
\* The primary key of an epoch and UNIQUE(from_slot, to_slot, archive_provider).
IsNew(e) == \A i \in 1 .. Len(sealed) : sealed[i].epoch # e
Verdict(l, live, archive) == CASE l \in live \cap archive -> "verified_live"
                               [] l \in archive \ live -> "reconciled_backfill"
                               [] l \in live \ archive -> "extra_live"
Seal(r) ==
    LET e == run[r].epoch
        archive == run[r].found
        live == LiveSignatures(e)
    IN /\ run[r].pc = "scan" /\ HeldInArchive(e) \subseteq archive
       /\ IsNew(e)
       /\ sealed' = Append(sealed, [epoch |-> e, clean |-> live = archive])
       /\ launchRow' = [l \in Launches |->
             IF l \in live \cup archive
             THEN [launchRow[l] EXCEPT !.verdict = Verdict(l, live, archive),
                                       !.conflict = @ \/ l \notin live \cap archive,
                                       !.current = l \in run[r].new]
             ELSE launchRow[l]]
       /\ nextEpoch' = e + 1
       /\ run' = [run EXCEPT ![r] = IdleRun] /\ circuit' = "closed"
       /\ UNCHANGED <<canonical, captures, hydrations, hydrating>>
\* The insert of an epoch that another run sealed is refused; all is rolled back.
SealRefused(r) ==
    /\ run[r].pc = "scan" /\ HeldInArchive(run[r].epoch) \subseteq run[r].found
    /\ ~ IsNew(run[r].epoch)
    /\ run' = [run EXCEPT ![r] = IdleRun] /\ circuit' = "closed"
    /\ UNCHANGED <<canonical, rowVars, sealVars, hydrating>>

ReconcileNext ==
    \/ RetryDue \/ StoreTransaction
    \/ \E l \in Launches : HearLaunch(l) \/ HearOnFork(l) \/ FetchTransaction(l)
    \/ \E r \in Reconcilers :
          \/ StartRun(r) \/ RunFails(r) \/ RunDies(r) \/ Seal(r) \/ SealRefused(r)
          \/ \E l \in Launches :
                StoreCanonical(r, l) \/ StoreHalf(r, l) \/ ArchiveDisagrees(r, l)

ReconcileSpec == ReconcileInit /\ [][ReconcileNext]_reconcileVars

-----------------------------------------------------------------------------
ReconcileTypeOK ==
    /\ canonical \subseteq Launches
    /\ nextEpoch \in 0 .. EpochBound
    /\ launchRow \in [Launches ->
          [mode: {"none"} \cup Modes,
           evidence: {"none", "raw_only", "complete", "source_conflict"},
           verdict: {"unverified", "verified_live", "reconciled_backfill", "extra_live"},
           conflict: BOOLEAN, current: BOOLEAN]]
    /\ captures \in [Launches -> SUBSET Modes]
    /\ hydrations \in [Launches -> SUBSET {"live", "archive"}]
    /\ hydrating \in Launches \cup {NoLaunch}
    /\ sealed \in Seq([epoch: 0 .. EpochBound - 1, clean: BOOLEAN])
    /\ circuit \in {"closed", "open"}
    /\ run \in [Reconcilers -> [pc: {"idle", "scan"}, epoch: 0 .. EpochBound,
                                found: SUBSET Launches, new: SUBSET Launches]]

IsClean(e) == \E i \in 1 .. Len(sealed) : sealed[i].epoch = e /\ sealed[i].clean
\* candidate_reconciliation_proof: what the row, its epoch and the append-only
\* observations must say; the archive's observation is of the run that sealed.
Provable(l) ==
    /\ launchRow[l].mode = "live_ws" /\ launchRow[l].evidence = "complete"
    /\ ~ launchRow[l].conflict /\ launchRow[l].verdict = "verified_live"
    /\ IsClean(EpochOf[l])
    /\ captures[l] = Modes /\ launchRow[l].current
    /\ hydrations[l] = {"live", "archive"}

\* A provable launch comes from an epoch in which the websocket heard exactly
\* what the finalized chain holds: no capture of the archive, no capture that
\* came after the seal and no overlapping run can stand in for one that was
\* missed.
ProvableMeansNothingWasMissed ==
    \A l \in Launches : Provable(l) =>
        HeardIn(EpochOf[l], "live_ws") \cap canonical = HeldInArchive(EpochOf[l])
        /\ l \in canonical

\* Sealed epochs follow each other without a gap and without a repeat, and the
\* cursor stands behind the last: a run that read the cursor long ago cannot
\* move it back.
SealedEpochsTile ==
    /\ \A i \in 1 .. Len(sealed) : sealed[i].epoch = i - 1
    /\ nextEpoch = Len(sealed)

\* What the store's rows say of a launch's evidence is only ever added to, and
\* a launch is verified by one seal alone, of an epoch not compared before:
\* however late a capture or a hydration comes, and whatever run it is from.
Facts == INSTANCE LaunchEvidence WITH
    known    <- {l \in Launches : launchRow[l].mode # "none"},
    verified <- {l \in Launches : launchRow[l].verdict = "verified_live"},
    disputed <- {l \in Launches : launchRow[l].conflict}
ImplementsEvidence == Facts!Spec
=============================================================================
