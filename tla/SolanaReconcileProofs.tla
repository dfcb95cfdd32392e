----------------------- MODULE SolanaReconcileProofs -----------------------
(***************************************************************************)
(* Proofs about SolanaReconcile for every set of launches, every number of *)
(* overlapping runs and every number of epochs.                            *)
(*                                                                         *)
(* A run carries the cursor it read long ago and what it has fetched since *)
(* (RunsOK); the seal is where both meet the present.  What it then says   *)
(* of an epoch stays true because captures are never withdrawn (CleanOK)   *)
(* and the chain never revises what it finalized (VerdictsOK).  That the   *)
(* rows implement LaunchEvidence rests on the same cursor: whatever has a  *)
(* verdict is behind it (JudgedBehind).                                    *)
(***************************************************************************)
EXTENDS SolanaReconcile, TLAPS

\* A run works at or behind the cursor, and found only what the archive holds.
RunsOK ==
    \A r \in Reconcilers : run[r].pc = "scan" =>
        /\ run[r].epoch <= nextEpoch /\ run[r].epoch < EpochBound
        /\ run[r].found \subseteq HeldInArchive(run[r].epoch)
\* Of a clean epoch the websocket heard all the archive holds.
CleanOK ==
    \A i \in 1 .. Len(sealed) : sealed[i].clean =>
        HeldInArchive(sealed[i].epoch) \subseteq HeardIn(sealed[i].epoch, "live_ws")
VerdictsOK ==
    \A l \in Launches : launchRow[l].verdict = "verified_live" => l \in canonical

ReconcileIInv == ReconcileTypeOK /\ SealedEpochsTile /\ RunsOK /\ CleanOK /\ VerdictsOK

Row == [mode: {"none"} \cup Modes,
        evidence: {"none", "raw_only", "complete", "source_conflict"},
        verdict: {"unverified", "verified_live", "reconciled_backfill", "extra_live"},
        conflict: BOOLEAN, current: BOOLEAN]

-----------------------------------------------------------------------------
\* What the steps do to one row: its type stays, and no verdict is given
\* outside the seal.
LEMMA CapturedRowOK ==
    ASSUME NEW row \in Row, NEW mode \in Modes
    PROVE  CapturedRow(row, mode) \in Row /\ CapturedRow(row, mode).verdict = row.verdict
  BY DEF Row, CapturedRow, Modes
LEMMA HydratedRowOK ==
    ASSUME NEW row \in Row, NEW answer \in {"complete", "partial", "conflict"}
    PROVE  HydratedRow(row, answer) \in Row /\ HydratedRow(row, answer).verdict = row.verdict
<1>1. CASE answer = "conflict"  BY <1>1 DEF Row, HydratedRow
<1>2. CASE answer = "complete"  BY <1>2 DEF Row, HydratedRow
<1>3. CASE answer = "partial"   BY <1>3 DEF Row, HydratedRow
<1>4. QED  BY <1>1, <1>2, <1>3

\* A step outside the seal that only adds captures, keeps the verdicts, and
\* leaves every run where it was, idle, or with one more launch found.
Gathers ==
    /\ UNCHANGED <<canonical, sealed, nextEpoch>>
    /\ launchRow' \in [Launches -> Row]
    /\ captures' \in [Launches -> SUBSET Modes]
    /\ hydrations' \in [Launches -> SUBSET {"live", "archive"}]
    /\ hydrating' \in Launches \cup {NoLaunch}
    /\ circuit' \in {"closed", "open"}
    /\ \A l \in Launches : /\ launchRow'[l].verdict = launchRow[l].verdict
                           /\ captures[l] \subseteq captures'[l]
    /\ run' \in [Reconcilers -> [pc: {"idle", "scan"}, epoch: 0 .. EpochBound,
                                 found: SUBSET Launches, new: SUBSET Launches]]
    /\ \A r \in Reconcilers : run'[r].pc = "scan" =>
          \/ run[r].pc = "scan" /\ run'[r].epoch = run[r].epoch
             /\ run'[r].found \subseteq run[r].found \cup HeldInArchive(run[r].epoch)
          \/ run'[r].epoch = nextEpoch /\ nextEpoch < EpochBound /\ run'[r].found = {}

LEMMA GathersInv == ASSUME ReconcileIInv, Gathers PROVE ReconcileIInv'
<1>1. ReconcileTypeOK'
  BY DEF ReconcileIInv, Gathers, ReconcileTypeOK, Row
<1>2. SealedEpochsTile'
  BY DEF ReconcileIInv, Gathers, SealedEpochsTile
<1>3. RunsOK'
  BY DEF ReconcileIInv, Gathers, RunsOK, ReconcileTypeOK, HeldInArchive
<1>4. CleanOK'
  BY DEF ReconcileIInv, Gathers, CleanOK, HeardIn, HeldInArchive
<1>5. VerdictsOK'
  BY DEF ReconcileIInv, Gathers, VerdictsOK
<1>6. QED  BY <1>1, <1>2, <1>3, <1>4, <1>5 DEF ReconcileIInv

LEMMA TypeIsRow == ReconcileTypeOK => launchRow \in [Launches -> Row]
  BY DEF ReconcileTypeOK, Row

\* A disagreement marks one row and adds no capture.
LEMMA DisagreesOK ==
    ASSUME ReconcileTypeOK, NEW l \in Launches, Disagrees(l)
    PROVE  /\ launchRow' \in [Launches -> Row] /\ captures' = captures
           /\ \A k \in Launches : launchRow'[k].verdict = launchRow[k].verdict
  BY TypeIsRow DEF Disagrees, Row

-----------------------------------------------------------------------------
LEMMA ReconcileInitInv == ReconcileInit => ReconcileIInv
<1> SUFFICES ASSUME ReconcileInit PROVE ReconcileIInv
  OBVIOUS
<1>1. ReconcileTypeOK
  BY EpochOfAssumption DEF ReconcileInit, ReconcileTypeOK, Unseen, IdleRun, Modes
<1>2. SealedEpochsTile /\ CleanOK
  BY DEF ReconcileInit, SealedEpochsTile, CleanOK
<1>3. RunsOK /\ VerdictsOK
  BY DEF ReconcileInit, RunsOK, VerdictsOK, IdleRun, Unseen
<1>4. QED  BY <1>1, <1>2, <1>3 DEF ReconcileIInv

\* The stream process only gathers.
LEMMA StreamGathers ==
    ASSUME ReconcileIInv,
           \/ StoreTransaction
           \/ \E l \in Launches : HearLaunch(l) \/ HearOnFork(l) \/ FetchTransaction(l)
    PROVE  Gathers
<1> ReconcileTypeOK
  BY DEF ReconcileIInv
<1>1. ASSUME NEW l \in Launches, HearLaunch(l)
      PROVE  Gathers
  <2>1. launchRow' \in [Launches -> Row]
        /\ \A k \in Launches : launchRow'[k].verdict = launchRow[k].verdict
    BY <1>1, TypeIsRow, CapturedRowOK DEF HearLaunch, Modes
  <2>2. captures' \in [Launches -> SUBSET Modes]
        /\ \A k \in Launches : captures[k] \subseteq captures'[k]
    BY <1>1 DEF HearLaunch, WithCapture, ReconcileTypeOK, Modes
  <2>3. QED  BY <1>1, <2>1, <2>2 DEF HearLaunch, sealVars, Gathers, ReconcileTypeOK
<1>2. ASSUME NEW l \in Launches, HearOnFork(l)
      PROVE  Gathers
  BY <1>2, DisagreesOK DEF HearOnFork, sealVars, Gathers, ReconcileTypeOK
<1>3. ASSUME NEW l \in Launches, FetchTransaction(l)
      PROVE  Gathers
  BY <1>3, TypeIsRow DEF FetchTransaction, rowVars, sealVars, Gathers, ReconcileTypeOK
<1>4. CASE StoreTransaction
  <2>1. hydrating \in Launches
    BY <1>4 DEF StoreTransaction, ReconcileTypeOK
  <2>2. /\ launchRow' \in [Launches -> Row]
        /\ \A k \in Launches : launchRow'[k].verdict = launchRow[k].verdict
        /\ hydrations' \in [Launches -> SUBSET {"live", "archive"}]
    <3>1. ASSUME NEW answer \in {"complete", "partial", "conflict"},
                 launchRow' = [launchRow EXCEPT ![hydrating] = HydratedRow(@, answer)],
                 WithHydration(hydrating, "live", answer)
          PROVE  /\ launchRow' \in [Launches -> Row]
                 /\ \A k \in Launches : launchRow'[k].verdict = launchRow[k].verdict
                 /\ hydrations' \in [Launches -> SUBSET {"live", "archive"}]
      <4>1. launchRow' \in [Launches -> Row]
            /\ \A k \in Launches : launchRow'[k].verdict = launchRow[k].verdict
        BY <3>1, <2>1, TypeIsRow, HydratedRowOK
      <4>2. hydrations' \in [Launches -> SUBSET {"live", "archive"}]
        BY <3>1, <2>1 DEF WithHydration, ReconcileTypeOK
      <4>3. QED  BY <4>1, <4>2
    <3>2. CASE UNCHANGED <<launchRow, hydrations>>
      BY <3>2, TypeIsRow DEF ReconcileTypeOK
    <3>3. QED  BY <1>4, <3>1, <3>2 DEF StoreTransaction
  <2>3. QED  BY <1>4, <2>2 DEF StoreTransaction, sealVars, Gathers, ReconcileTypeOK
<1>5. QED  BY <1>1, <1>2, <1>3, <1>4

\* So does a run that fetches, fails or dies.
LEMMA RunGathers ==
    ASSUME ReconcileIInv, NEW r \in Reconcilers,
           \/ StartRun(r) \/ RunFails(r) \/ RunDies(r) \/ SealRefused(r)
           \/ \E l \in Launches :
                 StoreCanonical(r, l) \/ StoreHalf(r, l) \/ ArchiveDisagrees(r, l)
    PROVE  Gathers
<1> ReconcileTypeOK
  BY DEF ReconcileIInv
<1>1. CASE StartRun(r)
  BY <1>1, TypeIsRow DEF StartRun, rowVars, sealVars, Gathers, ReconcileTypeOK, IdleRun
<1>2. ASSUME /\ run' = [run EXCEPT ![r] = IdleRun] /\ circuit' \in {"open", "closed"}
             /\ UNCHANGED <<canonical, rowVars, sealVars, hydrating>>
      PROVE  Gathers
  <2>1. run' \in [Reconcilers -> [pc: {"idle", "scan"}, epoch: 0 .. EpochBound,
                                   found: SUBSET Launches, new: SUBSET Launches]]
        /\ \A q \in Reconcilers : run'[q].pc = "scan" => run'[q] = run[q]
    BY <1>2, EpochOfAssumption DEF ReconcileTypeOK, IdleRun
  <2>2. QED  BY <1>2, <2>1, TypeIsRow DEF rowVars, sealVars, Gathers, ReconcileTypeOK
<1>7. CASE RunFails(r) \/ RunDies(r) \/ SealRefused(r)
  BY <1>2, <1>7 DEF RunFails, RunDies, SealRefused, ReconcileTypeOK, rowVars
<1>3. ASSUME NEW l \in Launches, StoreCanonical(r, l)
      PROVE  Gathers
  <2>1. PICK answer \in {"complete", "partial"} :
           /\ launchRow' = [launchRow EXCEPT
                 ![l] = HydratedRow(CapturedRow(@, "finalized_reconciliation"), answer)]
           /\ WithHydration(l, "archive", answer)
    BY <1>3 DEF StoreCanonical
  <2>2. launchRow' \in [Launches -> Row]
        /\ \A k \in Launches : launchRow'[k].verdict = launchRow[k].verdict
    <3> DEFINE heard == CapturedRow(launchRow[l], "finalized_reconciliation")
    <3>1. heard \in Row /\ heard.verdict = launchRow[l].verdict
      BY TypeIsRow, CapturedRowOK DEF Modes
    <3>2. HydratedRow(heard, answer) \in Row /\ HydratedRow(heard, answer).verdict = heard.verdict
      BY <3>1, HydratedRowOK
    <3> HIDE DEF heard
    <3>3. launchRow' = [launchRow EXCEPT ![l] = HydratedRow(heard, answer)]
      BY <2>1, TypeIsRow DEF heard
    <3>4. QED  BY <3>1, <3>2, <3>3, TypeIsRow
  <2>3. captures' \in [Launches -> SUBSET Modes]
        /\ \A k \in Launches : captures[k] \subseteq captures'[k]
    BY <1>3 DEF StoreCanonical, WithCapture, ReconcileTypeOK, Modes
  <2>4. hydrations' \in [Launches -> SUBSET {"live", "archive"}]
    BY <2>1 DEF WithHydration, ReconcileTypeOK
  <2>5. /\ run' \in [Reconcilers -> [pc: {"idle", "scan"}, epoch: 0 .. EpochBound,
                                     found: SUBSET Launches, new: SUBSET Launches]]
        /\ \A q \in Reconcilers : /\ run'[q].pc = run[q].pc
                                  /\ run'[q].epoch = run[q].epoch
                                  /\ run'[q].found \subseteq
                                        run[q].found \cup HeldInArchive(run[q].epoch)
    <3> DEFINE found == run[r].found \cup {l}
               new == IF "finalized_reconciliation" \in captures[l] THEN run[r].new
                      ELSE run[r].new \cup {l}
               kept == [run[r] EXCEPT !.found = found, !.new = new]
    <3>1. l \in HeldInArchive(run[r].epoch) /\ run' = [run EXCEPT ![r] = kept]
      BY <1>3 DEF StoreCanonical, ReconcileTypeOK
    <3>2. found \in SUBSET Launches /\ new \in SUBSET Launches
      BY DEF ReconcileTypeOK
    <3> HIDE DEF new
    <3>3. /\ kept \in [pc: {"idle", "scan"}, epoch: 0 .. EpochBound,
                       found: SUBSET Launches, new: SUBSET Launches]
          /\ kept.pc = run[r].pc /\ kept.epoch = run[r].epoch /\ kept.found = found
      BY <3>2 DEF ReconcileTypeOK
    <3> HIDE DEF kept
    <3>4. QED  BY <3>1, <3>3 DEF ReconcileTypeOK
  <2>6. QED  BY <1>3, <2>2, <2>3, <2>4, <2>5
             DEF StoreCanonical, sealVars, Gathers, ReconcileTypeOK
<1>4. ASSUME NEW l \in Launches, StoreHalf(r, l)
      PROVE  Gathers
  <2>1. launchRow' \in [Launches -> Row]
        /\ \A k \in Launches : launchRow'[k].verdict = launchRow[k].verdict
    BY <1>4, TypeIsRow, CapturedRowOK DEF StoreHalf, Modes
  <2>2. captures' \in [Launches -> SUBSET Modes]
        /\ \A k \in Launches : captures[k] \subseteq captures'[k]
    BY <1>4 DEF StoreHalf, WithCapture, ReconcileTypeOK, Modes
  <2>3. QED  BY <1>4, <2>1, <2>2, EpochOfAssumption
             DEF StoreHalf, sealVars, Gathers, ReconcileTypeOK, IdleRun
<1>5. ASSUME NEW l \in Launches, ArchiveDisagrees(r, l)
      PROVE  Gathers
  BY <1>5, DisagreesOK, EpochOfAssumption
     DEF ArchiveDisagrees, sealVars, Gathers, ReconcileTypeOK, IdleRun
<1>6. QED  BY <1>1, <1>3, <1>4, <1>5, <1>7

-----------------------------------------------------------------------------
\* A new epoch is the one at the cursor: all before it are sealed already.
LEMMA NewIsNext ==
    ASSUME ReconcileIInv, NEW r \in Reconcilers, run[r].pc = "scan", IsNew(run[r].epoch)
    PROVE  run[r].epoch = nextEpoch
<1>1. run[r].epoch \in Nat /\ run[r].epoch <= Len(sealed) /\ nextEpoch = Len(sealed)
      /\ Len(sealed) \in Nat
  BY DEF ReconcileIInv, RunsOK, SealedEpochsTile, ReconcileTypeOK
<1>2. ~ run[r].epoch + 1 <= Len(sealed)
  <2>1. SUFFICES ASSUME run[r].epoch + 1 <= Len(sealed) PROVE FALSE
    OBVIOUS
  <2>2. run[r].epoch + 1 \in 1 .. Len(sealed)
    BY <1>1, <2>1
  <2>3. sealed[run[r].epoch + 1].epoch = run[r].epoch
    BY <1>1, <2>2 DEF ReconcileIInv, SealedEpochsTile
  <2>4. QED  BY <2>2, <2>3 DEF IsNew
<1>3. QED  BY <1>1, <1>2

LEMMA SealInv == ASSUME ReconcileIInv, NEW r \in Reconcilers, Seal(r) PROVE ReconcileIInv'
<1> DEFINE e == run[r].epoch
           archive == run[r].found
           live == LiveSignatures(e)
           entry == [epoch |-> e, clean |-> live = archive]
<1>0. /\ run[r].pc = "scan" /\ HeldInArchive(e) \subseteq archive /\ IsNew(e)
      /\ nextEpoch' = e + 1
      /\ run' = [run EXCEPT ![r] = IdleRun] /\ circuit' = "closed"
      /\ UNCHANGED <<canonical, captures, hydrations, hydrating>>
  BY DEF Seal
<1>13. sealed' = Append(sealed, entry)
  BY DEF Seal
<1>1. e = nextEpoch /\ nextEpoch = Len(sealed) /\ e \in 0 .. EpochBound - 1
  BY <1>0, NewIsNext, EpochOfAssumption DEF ReconcileIInv, RunsOK, SealedEpochsTile, ReconcileTypeOK
<1>2. archive = HeldInArchive(e) /\ archive \subseteq canonical
  BY <1>0 DEF ReconcileIInv, RunsOK, HeldInArchive
<1>3. live \subseteq Launches
  BY DEF LiveSignatures, HeardIn
<1>4. /\ sealed \in Seq([epoch: 0 .. EpochBound - 1, clean: BOOLEAN])
      /\ entry \in [epoch: 0 .. EpochBound - 1, clean: BOOLEAN]
  BY <1>1 DEF ReconcileIInv, ReconcileTypeOK
<1>5. /\ Len(sealed') = Len(sealed) + 1 /\ Len(sealed) \in Nat
      /\ \A i \in 1 .. Len(sealed) : sealed'[i] = sealed[i]
      /\ sealed'[Len(sealed) + 1] = entry
      /\ sealed' \in Seq([epoch: 0 .. EpochBound - 1, clean: BOOLEAN])
  <2>1. entry.clean \in BOOLEAN
    BY <1>4
  <2> HIDE DEF entry
  <2>2. QED  BY <1>4, <1>13
<1>6. \A l \in Launches : launchRow'[l] \in Row
         /\ (launchRow'[l].verdict = "verified_live" =>
               launchRow[l].verdict = "verified_live" \/ l \in archive)
  <2>1. SUFFICES ASSUME NEW l \in Launches
                 PROVE  launchRow'[l] \in Row
                        /\ (launchRow'[l].verdict = "verified_live" =>
                              launchRow[l].verdict = "verified_live" \/ l \in archive)
    OBVIOUS
  <2> DEFINE conflict == launchRow[l].conflict \/ l \notin live \cap archive
             current == l \in run[r].new
             marked == [launchRow[l] EXCEPT !.verdict = Verdict(l, live, archive),
                                            !.conflict = conflict, !.current = current]
  <2>8. /\ l \in live \cup archive => launchRow'[l] = marked
        /\ l \notin live \cup archive => launchRow'[l] = launchRow[l]
    BY DEF Seal
  <2>2. launchRow[l] \in Row
    BY TypeIsRow DEF ReconcileIInv
  <2>3. conflict = TRUE \/ conflict = FALSE
    OBVIOUS
  <2>4. current = TRUE \/ current = FALSE
    OBVIOUS
  <2> HIDE DEF conflict, current, live, archive
  <2>5. CASE l \in live \cup archive
    <3>1. /\ Verdict(l, live, archive) \in {"verified_live", "reconciled_backfill", "extra_live"}
          /\ Verdict(l, live, archive) = "verified_live" => l \in archive
      BY <2>5 DEF Verdict
    <3>2. marked \in Row /\ marked.verdict = Verdict(l, live, archive)
      BY <2>2, <2>3, <2>4, <3>1 DEF Row
    <3> HIDE DEF marked
    <3>3. QED  BY <2>8, <2>5, <3>1, <3>2
  <2>6. CASE l \notin live \cup archive
    BY <2>8, <2>2, <2>6
  <2>7. QED  BY <2>5, <2>6
<1>14. entry.epoch = e
  OBVIOUS
<1> HIDE DEF e, archive, live, entry
<1>7. ReconcileTypeOK'
  <2>1. launchRow' \in [Launches -> Row]
    <3>1. DOMAIN launchRow' = Launches /\ launchRow' = [l \in Launches |-> launchRow'[l]]
      BY DEF Seal
    <3>2. QED  BY <1>6, <3>1
  <2>2. run' \in [Reconcilers -> [pc: {"idle", "scan"}, epoch: 0 .. EpochBound,
                                  found: SUBSET Launches, new: SUBSET Launches]]
    BY <1>0, EpochOfAssumption DEF ReconcileIInv, ReconcileTypeOK, IdleRun
  <2>3. nextEpoch' \in 0 .. EpochBound
    BY <1>0, <1>1, EpochOfAssumption
  <2>4. QED  BY <1>0, <1>5, <2>1, <2>2, <2>3 DEF ReconcileIInv, ReconcileTypeOK, Row
<1>8. SealedEpochsTile'
  <2>1. \A i \in 1 .. Len(sealed') : sealed'[i].epoch = i - 1
    <3>1. SUFFICES ASSUME NEW i \in 1 .. Len(sealed') PROVE sealed'[i].epoch = i - 1
      OBVIOUS
    <3>2. CASE i \in 1 .. Len(sealed)
      BY <1>5, <3>2 DEF ReconcileIInv, SealedEpochsTile
    <3>3. CASE i = Len(sealed) + 1
      BY <1>1, <1>5, <1>14, <3>3
    <3>4. QED  BY <1>5, <3>2, <3>3
  <2>2. QED  BY <1>0, <1>1, <1>5, <2>1 DEF SealedEpochsTile
<1>9. RunsOK'
  <2>1. SUFFICES ASSUME NEW q \in Reconcilers, run'[q].pc = "scan"
                 PROVE  /\ run'[q].epoch <= nextEpoch' /\ run'[q].epoch < EpochBound
                        /\ run'[q].found \subseteq HeldInArchive(run[q].epoch)'
    BY DEF RunsOK
  <2>2. run'[q] = run[q]
    BY <1>0, <2>1 DEF ReconcileIInv, ReconcileTypeOK, IdleRun
  <2>3. run[q].epoch \in Int /\ run[q].epoch <= nextEpoch /\ run[q].epoch < EpochBound
        /\ run[q].found \subseteq HeldInArchive(run[q].epoch)
    BY <2>1, <2>2 DEF ReconcileIInv, RunsOK, ReconcileTypeOK
  <2>4. run[q].epoch <= nextEpoch'
    BY <1>0, <1>1, <2>3
  <2>5. UNCHANGED canonical /\ run'[q].epoch = run[q].epoch
    BY <1>0, <2>2
  <2>6. HeldInArchive(run[q].epoch)' = HeldInArchive(run[q].epoch)
    BY <2>5 DEF HeldInArchive
  <2>7. run'[q].epoch < EpochBound /\ run'[q].found \subseteq HeldInArchive(run[q].epoch)
    BY <2>2, <2>3
  <2>8. QED  BY <2>4, <2>5, <2>6, <2>7
<1>10. CleanOK'
  <2>1. SUFFICES ASSUME NEW i \in 1 .. Len(sealed'), sealed'[i].clean
                 PROVE  HeldInArchive(sealed[i].epoch)' \subseteq HeardIn(sealed[i].epoch, "live_ws")'
    BY DEF CleanOK
  <2>2. CASE i \in 1 .. Len(sealed)
    BY <1>0, <1>5, <2>1, <2>2 DEF ReconcileIInv, CleanOK, HeldInArchive, HeardIn
  <2>3. CASE i = Len(sealed) + 1
    BY <1>0, <1>2, <1>5, <2>1, <2>3 DEF entry, live, LiveSignatures, HeldInArchive, HeardIn
  <2>4. QED  BY <1>5, <2>2, <2>3
<1>11. VerdictsOK'
  BY <1>0, <1>2, <1>6 DEF ReconcileIInv, VerdictsOK
<1>12. QED  BY <1>7, <1>8, <1>9, <1>10, <1>11 DEF ReconcileIInv

LEMMA ReconcileStepInv == ReconcileIInv /\ [ReconcileNext]_reconcileVars => ReconcileIInv'
<1> SUFFICES ASSUME ReconcileIInv, [ReconcileNext]_reconcileVars PROVE ReconcileIInv'
  OBVIOUS
<1>1. CASE RetryDue \/ UNCHANGED reconcileVars
  <2>1. Gathers
    BY <1>1, TypeIsRow DEF RetryDue, reconcileVars, rowVars, sealVars, Gathers,
                           ReconcileIInv, ReconcileTypeOK
  <2>2. QED  BY <2>1, GathersInv
<1>2. QED  BY <1>1, StreamGathers, RunGathers, GathersInv, SealInv DEF ReconcileNext

\* What a clean seal said of its epoch is what makes its launches provable.
LEMMA CleanIsSound == ReconcileIInv => ProvableMeansNothingWasMissed
<1> SUFFICES ASSUME ReconcileIInv, NEW l \in Launches, Provable(l)
             PROVE  /\ HeardIn(EpochOf[l], "live_ws") \cap canonical = HeldInArchive(EpochOf[l])
                    /\ l \in canonical
  BY DEF ProvableMeansNothingWasMissed
<1>1. PICK i \in 1 .. Len(sealed) : sealed[i].epoch = EpochOf[l] /\ sealed[i].clean
  BY DEF Provable, IsClean
<1>2. HeldInArchive(EpochOf[l]) \subseteq HeardIn(EpochOf[l], "live_ws")
  BY <1>1 DEF ReconcileIInv, CleanOK
<1>3. l \in canonical
  BY DEF Provable, ReconcileIInv, VerdictsOK
<1>4. QED  BY <1>2, <1>3 DEF HeldInArchive, HeardIn, ReconcileIInv, ReconcileTypeOK

-----------------------------------------------------------------------------
\* The rows, the sealed epochs and the runs keep their types.
THEOREM ReconcileTypeCorrect == ReconcileSpec => []ReconcileTypeOK
<1>1. ReconcileIInv => ReconcileTypeOK
  BY DEF ReconcileIInv
<1>2. QED  BY <1>1, ReconcileInitInv, ReconcileStepInv, PTL DEF ReconcileSpec

\* However many runs overlap, crash and carry an old cursor, the sealed epochs
\* tile and the cursor never moves back (solana_launch_reconcile, the seal).
THEOREM EpochsTile == ReconcileSpec => []SealedEpochsTile
<1>1. ReconcileIInv => SealedEpochsTile
  BY DEF ReconcileIInv
<1>2. QED  BY <1>1, ReconcileInitInv, ReconcileStepInv, PTL DEF ReconcileSpec

\* A launch that candidate_reconciliation_proof accepts was finalized, and the
\* websocket missed no finalized launch of its epoch.
THEOREM ProvableIsComplete == ReconcileSpec => []ProvableMeansNothingWasMissed
  BY CleanIsSound, ReconcileInitInv, ReconcileStepInv, PTL DEF ReconcileSpec

-----------------------------------------------------------------------------
(* The implementation of LaunchEvidence.  A seal may verify because the    *)
(* epoch at the cursor was never compared: whatever has a verdict is       *)
(* behind the cursor (JudgedBehind), and whatever a run has found or a     *)
(* capture has heard has a row (Heard).                                    *)

JudgedBehind == \A l \in Launches : launchRow[l].verdict # "unverified" => EpochOf[l] < nextEpoch
Heard ==
    /\ \A l \in Launches :
          captures[l] # {} \/ launchRow[l].evidence # "none" => launchRow[l].mode # "none"
    /\ hydrating # NoLaunch => hydrating \in Launches /\ launchRow[hydrating].mode # "none"
    /\ \A r \in Reconcilers : run[r].pc = "scan" =>
          \A l \in run[r].found : launchRow[l].mode # "none"
EvidenceInv == ReconcileIInv /\ JudgedBehind /\ Heard

\* What a step other than the seal may do to a row: its mode and its conflict
\* stay once set, its verdict does not move.
Adds(before, after) ==
    /\ before.mode # "none" => after.mode # "none"
    /\ before.conflict => after.conflict
    /\ after.verdict = before.verdict
    /\ after.evidence # "none" => after.mode # "none"

LEMMA CapturedAdds ==
    ASSUME NEW before \in Row, NEW mode \in Modes
    PROVE  /\ CapturedRow(before, mode).mode # "none"
           /\ CapturedRow(before, mode).conflict = before.conflict
           /\ CapturedRow(before, mode).verdict = before.verdict
  BY DEF CapturedRow, Row, Modes

LEMMA HydratedAdds ==
    ASSUME NEW before \in Row, NEW answer \in {"complete", "partial", "conflict"}
    PROVE  /\ HydratedRow(before, answer).mode = before.mode
           /\ before.conflict => HydratedRow(before, answer).conflict
           /\ answer # "conflict" => HydratedRow(before, answer).conflict = before.conflict
           /\ HydratedRow(before, answer).verdict = before.verdict
<1>1. CASE answer = "conflict"  BY <1>1 DEF Row, HydratedRow
<1>2. CASE answer = "complete"  BY <1>2 DEF Row, HydratedRow
<1>3. CASE answer = "partial"   BY <1>3 DEF Row, HydratedRow
<1>4. QED  BY <1>1, <1>2, <1>3

\* The abstract steps, in terms of the row that changes.
KnownRows == {l \in Launches : launchRow[l].mode # "none"}
VerifiedRows == {l \in Launches : launchRow[l].verdict = "verified_live"}
DisputedRows == {l \in Launches : launchRow[l].conflict}

LEMMA OneRow ==
    ASSUME launchRow \in [Launches -> Row], NEW l \in Launches, NEW after \in Row,
           launchRow' = [launchRow EXCEPT ![l] = after], Adds(launchRow[l], after),
           after.conflict => launchRow[l].conflict \/ after.mode = launchRow[l].mode,
           after.mode # "none"
    PROVE  Facts!Detect(l) \/ Facts!Dispute(l)
<1>1. /\ launchRow'[l] = after
      /\ \A k \in Launches : k # l => launchRow'[k] = launchRow[k]
  OBVIOUS
<1>2. VerifiedRows' = VerifiedRows
  BY <1>1 DEF VerifiedRows, Adds
<1>3. CASE after.conflict = launchRow[l].conflict
  <2>1. DisputedRows' = DisputedRows
    BY <1>1, <1>3 DEF DisputedRows
  <2>2. KnownRows' = KnownRows \cup {l}
    BY <1>1 DEF KnownRows, Adds
  <2>3. QED  BY <1>2, <2>1, <2>2 DEF Facts!Detect, KnownRows, VerifiedRows, DisputedRows
<1>4. CASE after.conflict # launchRow[l].conflict
  <2>1. after.conflict = TRUE /\ launchRow[l].conflict = FALSE
    BY <1>4 DEF Row, Adds
  <2>2. launchRow[l].mode # "none" /\ l \in KnownRows
    BY <2>1 DEF KnownRows
  <2>3. KnownRows' = KnownRows
    BY <1>1, <2>2 DEF KnownRows
  <2>4. DisputedRows' = DisputedRows \cup {l}
    BY <1>1, <2>1 DEF DisputedRows
  <2>5. QED  BY <1>2, <2>2, <2>3, <2>4 DEF Facts!Dispute, KnownRows, VerifiedRows, DisputedRows
<1>5. QED  BY <1>3, <1>4

\* What is known of the rows goes on where a step only gathers.
LEMMA HeardKept ==
    ASSUME EvidenceInv, Gathers,
           \A k \in Launches : Adds(launchRow[k], launchRow'[k]),
           \A k \in Launches : captures'[k] # captures[k] => launchRow'[k].mode # "none",
           hydrating' # NoLaunch =>
               hydrating' = hydrating
               \/ (hydrating' \in Launches /\ launchRow'[hydrating'].mode # "none"),
           \A r \in Reconcilers : run'[r].pc = "scan" =>
               \A k \in run'[r].found : \/ run[r].pc = "scan" /\ k \in run[r].found
                                        \/ launchRow'[k].mode # "none"
    PROVE  EvidenceInv'
<1>1. ReconcileIInv'
  BY GathersInv DEF EvidenceInv
<1>2. JudgedBehind'
  BY DEF EvidenceInv, JudgedBehind, Gathers, Adds
<1>3. \A l \in Launches :
          captures'[l] # {} \/ launchRow'[l].evidence # "none" => launchRow'[l].mode # "none"
  BY DEF EvidenceInv, Heard, Adds
<1>4. hydrating' # NoLaunch => hydrating' \in Launches /\ launchRow'[hydrating'].mode # "none"
  BY DEF EvidenceInv, Heard, Adds
<1>5. ASSUME NEW r \in Reconcilers, run'[r].pc = "scan", NEW l \in run'[r].found
      PROVE  launchRow'[l].mode # "none"
  <2>1. l \in Launches
    BY <1>1, <1>5 DEF ReconcileIInv, ReconcileTypeOK
  <2>2. QED  BY <1>5, <2>1 DEF EvidenceInv, Heard, Adds
<1>6. QED  BY <1>1, <1>2, <1>3, <1>4, <1>5 DEF EvidenceInv, Heard

\* A step that leaves the rows alone changes no fact.
LEMMA SameRows ==
    ASSUME EvidenceInv, UNCHANGED launchRow
    PROVE  /\ UNCHANGED Facts!vars
           /\ \A k \in Launches : Adds(launchRow[k], launchRow'[k])
<1>1. UNCHANGED Facts!vars
  BY DEF Facts!vars
<1>2. \A k \in Launches : Adds(launchRow[k], launchRow'[k])
  BY DEF EvidenceInv, Heard, Adds
<1>3. QED  BY <1>1, <1>2

\* A step that changes one row does so as the lemmas above say.
LEMMA OneRowAdds ==
    ASSUME EvidenceInv, NEW l \in Launches, NEW after \in Row,
           launchRow' = [launchRow EXCEPT ![l] = after], Adds(launchRow[l], after),
           after.conflict => launchRow[l].conflict \/ after.mode = launchRow[l].mode,
           after.mode # "none"
    PROVE  /\ Facts!Next
           /\ \A k \in Launches : Adds(launchRow[k], launchRow'[k])
           /\ launchRow'[l].mode # "none"
<1>1. launchRow \in [Launches -> Row]
  BY TypeIsRow DEF EvidenceInv, ReconcileIInv
<1>2. Facts!Detect(l) \/ Facts!Dispute(l)
  BY <1>1, OneRow
<1>3. Facts!Next
  BY <1>2 DEF Facts!Next
<1>4. launchRow'[l] = after /\ \A k \in Launches : k # l => launchRow'[k] = launchRow[k]
  BY <1>1
<1>5. \A k \in Launches : Adds(launchRow[k], launchRow'[k])
  BY <1>4 DEF EvidenceInv, Heard, Adds
<1>6. QED  BY <1>3, <1>4, <1>5

LEMMA DisputeAdds ==
    ASSUME EvidenceInv, NEW l \in Launches, Disagrees(l), launchRow[l].mode # "none"
    PROVE  /\ Facts!Next
           /\ \A k \in Launches : Adds(launchRow[k], launchRow'[k])
           /\ UNCHANGED captures
<1> DEFINE after == [launchRow[l] EXCEPT !.conflict = TRUE, !.evidence = "source_conflict"]
<1>1. launchRow \in [Launches -> Row]
  BY TypeIsRow DEF EvidenceInv, ReconcileIInv
<1>2. launchRow' = [launchRow EXCEPT ![l] = after] /\ UNCHANGED captures
  BY <1>1 DEF Disagrees
<1>3. /\ after \in Row /\ Adds(launchRow[l], after) /\ after.mode = launchRow[l].mode
  BY <1>1 DEF Row, Adds
<1> HIDE DEF after
<1>4. QED  BY <1>2, <1>3, OneRowAdds

LEMMA StreamFacts ==
    ASSUME EvidenceInv,
           \/ StoreTransaction
           \/ \E l \in Launches : HearLaunch(l) \/ HearOnFork(l) \/ FetchTransaction(l)
    PROVE  EvidenceInv' /\ [Facts!Next]_Facts!vars
<1>1. Gathers /\ launchRow \in [Launches -> Row]
  BY StreamGathers, TypeIsRow DEF EvidenceInv, ReconcileIInv
<1>2. ASSUME NEW l \in Launches, HearLaunch(l)
      PROVE  EvidenceInv' /\ [Facts!Next]_Facts!vars
  <2> DEFINE after == CapturedRow(launchRow[l], "live_ws")
  <2>1. /\ launchRow' = [launchRow EXCEPT ![l] = after]
        /\ captures' = [captures EXCEPT ![l] = @ \cup {"live_ws"}]
        /\ UNCHANGED <<hydrating, run>>
    BY <1>1, <1>2 DEF HearLaunch, WithCapture
  <2>2. /\ after \in Row /\ after.mode # "none" /\ after.conflict = launchRow[l].conflict
        /\ after.verdict = launchRow[l].verdict
    BY <1>1, CapturedRowOK, CapturedAdds DEF Modes
  <2> HIDE DEF after
  <2>3. Adds(launchRow[l], after)
    BY <2>2 DEF Adds
  <2>4. Facts!Next /\ launchRow'[l].mode # "none"
        /\ \A k \in Launches : Adds(launchRow[k], launchRow'[k])
    BY <2>1, <2>2, <2>3, OneRowAdds
  <2>5. \A k \in Launches : captures'[k] # captures[k] => k = l
    BY <2>1 DEF EvidenceInv, ReconcileIInv, ReconcileTypeOK
  <2>6. QED  BY <1>1, <2>1, <2>4, <2>5, HeardKept
<1>3. ASSUME NEW l \in Launches, HearOnFork(l)
      PROVE  EvidenceInv' /\ [Facts!Next]_Facts!vars
  BY <1>1, <1>3, DisputeAdds, HeardKept DEF HearOnFork
<1>4. ASSUME NEW l \in Launches, FetchTransaction(l)
      PROVE  EvidenceInv' /\ [Facts!Next]_Facts!vars
  <2>1. /\ launchRow[l].evidence = "raw_only" /\ hydrating' = l
        /\ UNCHANGED <<launchRow, captures, run>>
    BY <1>4 DEF FetchTransaction, rowVars
  <2>2. launchRow[l].mode # "none"
    BY <2>1 DEF EvidenceInv, Heard
  <2>3. QED  BY <1>1, <2>1, <2>2, SameRows, HeardKept
<1>5. CASE StoreTransaction
  <2>1. hydrating # NoLaunch /\ hydrating' = NoLaunch /\ UNCHANGED <<captures, run>>
        /\ hydrating \in Launches /\ launchRow[hydrating].mode # "none"
    BY <1>5 DEF StoreTransaction, EvidenceInv, Heard
  <2>2. CASE UNCHANGED launchRow
    BY <1>1, <2>1, <2>2, SameRows, HeardKept
  <2>3. ASSUME NEW answer \in {"complete", "partial", "conflict"},
               launchRow' = [launchRow EXCEPT ![hydrating] = HydratedRow(@, answer)]
        PROVE  EvidenceInv' /\ [Facts!Next]_Facts!vars
    <3> DEFINE after == HydratedRow(launchRow[hydrating], answer)
    <3>1. launchRow' = [launchRow EXCEPT ![hydrating] = after]
      BY <1>1, <2>1, <2>3
    <3>2. /\ after \in Row /\ after.mode = launchRow[hydrating].mode
          /\ launchRow[hydrating].conflict => after.conflict
          /\ after.verdict = launchRow[hydrating].verdict
      BY <1>1, <2>1, HydratedRowOK, HydratedAdds
    <3> HIDE DEF after
    <3>3. Adds(launchRow[hydrating], after)
      BY <2>1, <3>2 DEF Adds
    <3>4. Facts!Next /\ \A k \in Launches : Adds(launchRow[k], launchRow'[k])
      BY <2>1, <3>1, <3>2, <3>3, OneRowAdds
    <3>5. QED  BY <1>1, <2>1, <3>4, HeardKept
  <2>4. QED  BY <1>5, <2>2, <2>3 DEF StoreTransaction
<1>6. QED  BY <1>2, <1>3, <1>4, <1>5

LEMMA RunFacts ==
    ASSUME EvidenceInv, NEW r \in Reconcilers,
           \/ StartRun(r) \/ RunFails(r) \/ RunDies(r) \/ SealRefused(r)
           \/ \E l \in Launches :
                 StoreCanonical(r, l) \/ StoreHalf(r, l) \/ ArchiveDisagrees(r, l)
    PROVE  EvidenceInv' /\ [Facts!Next]_Facts!vars
<1>1. Gathers /\ launchRow \in [Launches -> Row]
  BY RunGathers, TypeIsRow DEF EvidenceInv, ReconcileIInv
<1>2. run \in [Reconcilers -> [pc: {"idle", "scan"}, epoch: 0 .. EpochBound,
                               found: SUBSET Launches, new: SUBSET Launches]]
  BY DEF EvidenceInv, ReconcileIInv, ReconcileTypeOK
<1>3. CASE StartRun(r) \/ RunFails(r) \/ RunDies(r) \/ SealRefused(r)
  <2>1. UNCHANGED <<launchRow, captures, hydrating>>
    BY <1>3 DEF StartRun, RunFails, RunDies, SealRefused, rowVars
  <2>2. PICK next : run' = [run EXCEPT ![r] = next] /\ (next.pc = "scan" => next.found = {})
    <3> DEFINE started == [IdleRun EXCEPT !.pc = "scan", !.epoch = nextEpoch]
    <3>1. IdleRun.pc # "scan" /\ started.found = {}
      BY DEF IdleRun
    <3>2. run' = [run EXCEPT ![r] = IdleRun] \/ run' = [run EXCEPT ![r] = started]
      BY <1>3 DEF StartRun, RunFails, RunDies, SealRefused
    <3> HIDE DEF started
    <3>3. QED  BY <3>1, <3>2
  <2>3. /\ \A q \in Reconcilers : q # r => run'[q] = run[q]
        /\ run'[r].pc = "scan" => run'[r].found = {}
    BY <1>2, <2>2
  <2>4. QED  BY <1>1, <2>1, <2>3, SameRows, HeardKept
<1>4. ASSUME NEW l \in Launches, StoreCanonical(r, l)
      PROVE  EvidenceInv' /\ [Facts!Next]_Facts!vars
  <2>1. PICK answer \in {"complete", "partial"} :
           launchRow' = [launchRow EXCEPT
                 ![l] = HydratedRow(CapturedRow(@, "finalized_reconciliation"), answer)]
    BY <1>4 DEF StoreCanonical
  <2>2. /\ captures' = [captures EXCEPT ![l] = @ \cup {"finalized_reconciliation"}]
        /\ UNCHANGED hydrating
        /\ \A q \in Reconcilers : run'[q].pc = run[q].pc
                                  /\ run'[q].found \subseteq run[q].found \cup {l}
    <3>1. PICK n : run' = [run EXCEPT ![r].found = @ \cup {l}, ![r].new = n]
      BY <1>4 DEF StoreCanonical
    <3>2. ASSUME NEW q \in Reconcilers
          PROVE  run'[q].pc = run[q].pc /\ run'[q].found \subseteq run[q].found \cup {l}
      BY <1>2, <3>1
    <3>3. QED  BY <1>4, <3>2 DEF StoreCanonical, WithCapture
  <2> DEFINE heard == CapturedRow(launchRow[l], "finalized_reconciliation")
             after == HydratedRow(heard, answer)
  <2>3. launchRow' = [launchRow EXCEPT ![l] = after]
    BY <1>1, <2>1
  <2>4. /\ heard \in Row /\ heard.mode # "none" /\ heard.conflict = launchRow[l].conflict
        /\ heard.verdict = launchRow[l].verdict
    BY <1>1, CapturedRowOK, CapturedAdds DEF Modes
  <2> HIDE DEF heard
  <2>5. /\ after \in Row /\ after.mode # "none" /\ after.conflict = launchRow[l].conflict
        /\ after.verdict = launchRow[l].verdict
    BY <2>4, HydratedRowOK, HydratedAdds
  <2> HIDE DEF after
  <2>6. Adds(launchRow[l], after)
    BY <2>5 DEF Adds
  <2>7. Facts!Next /\ launchRow'[l].mode # "none"
        /\ \A k \in Launches : Adds(launchRow[k], launchRow'[k])
    BY <2>3, <2>5, <2>6, OneRowAdds
  <2>8. \A k \in Launches : captures'[k] # captures[k] => k = l
    BY <2>2 DEF EvidenceInv, ReconcileIInv, ReconcileTypeOK
  <2>9. QED  BY <1>1, <2>2, <2>7, <2>8, HeardKept
<1>5. ASSUME NEW l \in Launches, StoreHalf(r, l)
      PROVE  EvidenceInv' /\ [Facts!Next]_Facts!vars
  <2> DEFINE after == CapturedRow(launchRow[l], "finalized_reconciliation")
  <2>1. /\ launchRow' = [launchRow EXCEPT ![l] = after]
        /\ captures' = [captures EXCEPT ![l] = @ \cup {"finalized_reconciliation"}]
        /\ UNCHANGED hydrating
        /\ \A q \in Reconcilers : run'[q].pc = "scan" => run'[q] = run[q]
    BY <1>1, <1>2, <1>5 DEF StoreHalf, WithCapture, IdleRun
  <2>2. /\ after \in Row /\ after.mode # "none" /\ after.conflict = launchRow[l].conflict
        /\ after.verdict = launchRow[l].verdict
    BY <1>1, CapturedRowOK, CapturedAdds DEF Modes
  <2> HIDE DEF after
  <2>3. Adds(launchRow[l], after)
    BY <2>2 DEF Adds
  <2>4. Facts!Next /\ launchRow'[l].mode # "none"
        /\ \A k \in Launches : Adds(launchRow[k], launchRow'[k])
    BY <2>1, <2>2, <2>3, OneRowAdds
  <2>5. \A k \in Launches : captures'[k] # captures[k] => k = l
    BY <2>1 DEF EvidenceInv, ReconcileIInv, ReconcileTypeOK
  <2>6. QED  BY <1>1, <2>1, <2>4, <2>5, HeardKept
<1>6. ASSUME NEW l \in Launches, ArchiveDisagrees(r, l)
      PROVE  EvidenceInv' /\ [Facts!Next]_Facts!vars
  <2>1. /\ Disagrees(l) /\ launchRow[l].mode # "none" /\ UNCHANGED hydrating
        /\ \A q \in Reconcilers : run'[q].pc = "scan" => run'[q] = run[q]
    BY <1>2, <1>6 DEF ArchiveDisagrees, IdleRun
  <2>2. QED  BY <1>1, <2>1, DisputeAdds, HeardKept
<1>7. QED  BY <1>3, <1>4, <1>5, <1>6

\* The seal verifies and disputes launches of the epoch at the cursor, which
\* were known and had no verdict yet.
LEMMA SealFacts ==
    ASSUME EvidenceInv, NEW r \in Reconcilers, Seal(r)
    PROVE  EvidenceInv' /\ Facts!Next
<1> DEFINE e == run[r].epoch
           archive == run[r].found
           live == LiveSignatures(e)
           good == live \cap archive
           extra == (live \cup archive) \ good
<1>1. /\ run[r].pc = "scan" /\ IsNew(e) /\ nextEpoch' = e + 1
      /\ run' = [run EXCEPT ![r] = IdleRun]
      /\ UNCHANGED <<canonical, captures, hydrations, hydrating>>
  BY DEF Seal
<1>2. e = nextEpoch /\ e \in Nat
  BY <1>1, NewIsNext DEF EvidenceInv, ReconcileIInv, ReconcileTypeOK
<1>3. \A l \in live \cup archive :
         /\ l \in Launches /\ EpochOf[l] = e
         /\ launchRow[l].mode # "none" /\ launchRow[l].verdict = "unverified"
  <2>1. SUFFICES ASSUME NEW l \in live \cup archive
                 PROVE  /\ l \in Launches /\ EpochOf[l] = e
                        /\ launchRow[l].mode # "none" /\ launchRow[l].verdict = "unverified"
    OBVIOUS
  <2>2. CASE l \in archive
    <3>1. l \in Launches /\ EpochOf[l] = e /\ launchRow[l].mode # "none"
      BY <1>1, <2>2 DEF EvidenceInv, Heard, ReconcileIInv, RunsOK, HeldInArchive, ReconcileTypeOK
    <3>2. QED  BY <1>2, <3>1 DEF EvidenceInv, JudgedBehind
  <2>3. CASE l \in live
    <3>1. l \in Launches /\ EpochOf[l] = e /\ captures[l] # {}
      BY <2>3 DEF LiveSignatures, HeardIn
    <3>2. QED  BY <1>2, <3>1 DEF EvidenceInv, Heard, JudgedBehind
  <2>4. QED  BY <2>1, <2>2, <2>3
<1>4. \A l \in Launches :
         /\ l \in good => launchRow'[l].verdict = "verified_live"
                          /\ launchRow'[l].conflict = launchRow[l].conflict
         /\ l \in extra => launchRow'[l].verdict # "verified_live" /\ launchRow'[l].conflict
         /\ l \in live \cup archive => launchRow'[l].mode = launchRow[l].mode
                                       /\ launchRow'[l].evidence = launchRow[l].evidence
         /\ l \notin live \cup archive => launchRow'[l] = launchRow[l]
  <2>1. SUFFICES ASSUME NEW l \in Launches
                 PROVE  <1>4!(l)
    OBVIOUS
  <2> DEFINE conflict == launchRow[l].conflict \/ l \notin live \cap archive
             current == l \in run[r].new
             marked == [launchRow[l] EXCEPT !.verdict = Verdict(l, live, archive),
                                            !.conflict = conflict, !.current = current]
  <2>2. /\ l \in live \cup archive => launchRow'[l] = marked
        /\ l \notin live \cup archive => launchRow'[l] = launchRow[l]
    BY DEF Seal
  <2>3. launchRow[l] \in Row
    BY TypeIsRow DEF EvidenceInv, ReconcileIInv
  <2>4. /\ marked.verdict = Verdict(l, live, archive) /\ marked.conflict = conflict
        /\ marked.mode = launchRow[l].mode /\ marked.evidence = launchRow[l].evidence
    BY <2>3 DEF Row
  <2>5. launchRow[l].conflict \in BOOLEAN
    BY <2>3 DEF Row
  <2>6. /\ l \in good => conflict = launchRow[l].conflict
        /\ l \in extra => conflict
    BY <2>5
  <2> HIDE DEF marked, conflict, current, live, archive
  <2>7. /\ l \in good => Verdict(l, live, archive) = "verified_live"
        /\ l \in extra => Verdict(l, live, archive) # "verified_live"
    BY DEF Verdict
  <2>8. QED  BY <2>2, <2>4, <2>6, <2>7
<1> HIDE DEF e, live, archive
<1>5. good \in SUBSET (KnownRows \ VerifiedRows) /\ extra \in SUBSET (KnownRows \ VerifiedRows)
  BY <1>3 DEF KnownRows, VerifiedRows
<1>6. VerifiedRows' = VerifiedRows \cup good
  BY <1>3, <1>4 DEF VerifiedRows
<1>7. DisputedRows' = DisputedRows \cup extra
  BY <1>3, <1>4 DEF DisputedRows
<1>8. KnownRows' = KnownRows
  BY <1>4 DEF KnownRows
<1>9. Facts!Next
  <2>1. good \cap extra = {}
    OBVIOUS
  <2> HIDE DEF good, extra
  <2>2. QED
    BY <1>5, <1>6, <1>7, <1>8, <2>1 DEF Facts!Next, Facts!Seal, KnownRows, VerifiedRows, DisputedRows
<1>10. ReconcileIInv'
  BY SealInv DEF EvidenceInv
<1>11. JudgedBehind'
  <2>1. ASSUME NEW l \in Launches, launchRow'[l].verdict # "unverified"
        PROVE  EpochOf[l] < e + 1
    <3>1. EpochOf[l] \in Int
      BY EpochOfAssumption
    <3>2. CASE l \in live \cup archive
      BY <1>2, <1>3, <3>2
    <3>3. CASE l \notin live \cup archive
      BY <1>2, <1>4, <2>1, <3>1, <3>3 DEF EvidenceInv, JudgedBehind
    <3>4. QED  BY <3>2, <3>3
  <2>2. QED  BY <1>1, <2>1 DEF JudgedBehind, e
<1>12. Heard'
  <2>1. \A l \in Launches : launchRow'[l].mode = launchRow[l].mode
                            /\ launchRow'[l].evidence = launchRow[l].evidence
    BY <1>4
  <2>2. \A q \in Reconcilers : run'[q].pc = "scan" => run'[q] = run[q]
    BY <1>1 DEF EvidenceInv, ReconcileIInv, ReconcileTypeOK, IdleRun
  <2>3. \A q \in Reconcilers : run[q].found \subseteq Launches
    BY DEF EvidenceInv, ReconcileIInv, ReconcileTypeOK
  <2>4. QED  BY <1>1, <2>1, <2>2, <2>3 DEF EvidenceInv, Heard
<1>13. QED  BY <1>9, <1>10, <1>11, <1>12 DEF EvidenceInv

LEMMA EvidenceInit == ReconcileInit => EvidenceInv /\ Facts!Init
<1> SUFFICES ASSUME ReconcileInit PROVE EvidenceInv /\ Facts!Init
  OBVIOUS
<1>1. JudgedBehind /\ Heard
  BY DEF ReconcileInit, JudgedBehind, Heard, Unseen, IdleRun
<1>2. Facts!Init
  BY DEF ReconcileInit, Unseen, Facts!Init
<1>3. QED  BY <1>1, <1>2, ReconcileInitInv DEF EvidenceInv

LEMMA EvidenceStep ==
    EvidenceInv /\ [ReconcileNext]_reconcileVars => EvidenceInv' /\ [Facts!Next]_Facts!vars
<1> SUFFICES ASSUME EvidenceInv, [ReconcileNext]_reconcileVars
             PROVE  EvidenceInv' /\ [Facts!Next]_Facts!vars
  OBVIOUS
<1>1. CASE RetryDue \/ UNCHANGED reconcileVars
  <2>1. Gathers
    BY <1>1, TypeIsRow DEF RetryDue, reconcileVars, rowVars, sealVars, Gathers,
                           EvidenceInv, ReconcileIInv, ReconcileTypeOK
  <2>2. UNCHANGED <<launchRow, captures, hydrating, run>>
    BY <1>1 DEF RetryDue, reconcileVars, rowVars
  <2>3. QED  BY <2>1, <2>2, SameRows, HeardKept
<1>2. QED  BY <1>1, StreamFacts, RunFacts, SealFacts DEF ReconcileNext

\* What the stream process and the reconciler write into a row, in whatever order
\* and however late, adds up to the evidence LaunchEnrollment relies on: nothing
\* is taken back, and no launch is verified that was unknown to its seal.
THEOREM ReconcileImplementsEvidence == ReconcileSpec => ImplementsEvidence
  BY EvidenceInit, EvidenceStep, PTL DEF ReconcileSpec, ImplementsEvidence, Facts!Spec
=============================================================================
