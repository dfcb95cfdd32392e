----------------------- MODULE LaunchEnrollmentProofs -----------------------
(***************************************************************************)
(* Proofs about LaunchEnrollment for every number of scanners, launches    *)
(* and instants.                                                           *)
(*                                                                         *)
(* No invariant of the cohort is inductive alone: a ledger event is right  *)
(* because of what the scanner learned several transactions before it      *)
(* wrote it.  ScanOK says what that was and GateOK what the latch keeps;   *)
(* what the other actors do in between cannot undo it (Evolves).  Nor does *)
(* a scanner say anything of the evidence it enrols on (SameEvidence).     *)
(***************************************************************************)
EXTENDS LaunchEnrollment, TLAPS

Busy(s) == s.pc = "priced" \/ s.stage = "candidate"

ScanOK(p) ==
    LET s == scan[p] IN
    /\ s.now <= clock /\ s.batchAt <= clock /\ s.at <= clock
    /\ s.pc \notin {"idle", "releasing"} => s.now # Null
    /\ s.pc \in {"recording", "recorded"} => s.stage = "candidate"
    /\ s.pc \in {"claiming", "fetching", "working"} => s.stage = "batch"
    /\ s.pc = "releasing" => s.stage = "scan"
    /\ s.pc = "claiming" \/ s.held # {} => openedAt # Null
    /\ \A l \in s.held : row[l].qual # "absent" /\ Boundary <= row[l].detected
    /\ Busy(s) => /\ s.cur \in s.held
                  /\ s.at # Null /\ openedAt <= s.at
                  /\ row[s.cur].detected <= s.at /\ row[s.cur].verified
    /\ s.stage = "candidate" => ~Late(s.cur, s.at)

ScansOK == \A p \in Scanners : ScanOK(p)

GateOK ==
    /\ state \in {"scheduled", "armed"} => openedAt = Null
    /\ state = "armed" => armedAt # Null
    /\ armedAt # Null => armedAt < Boundary
    /\ openedAt <= clock

RowsOK ==
    \A l \in Launches :
        /\ row[l].detected <= clock
        /\ row[l].qual = "absent" => ~row[l].verified

IInv ==
    /\ TypeOK
    /\ OpenedOnTime /\ GateOK
    /\ RowsOK /\ EnrolledInWindow /\ QualifiedIsBacked
    /\ ScansOK

-----------------------------------------------------------------------------
(* What happens to one row.                                                *)

\* A row keeps its launch's clock and proof, and a terminal row its result.
Evolves(r, s) ==
    /\ r.qual # "absent" => s.qual # "absent" /\ s.detected = r.detected
    /\ r.verified => s.verified
    /\ r.qual \in Terminal => s.qual = r.qual /\ s.attempted = r.attempted

\* A row is qualified only by the decision d of its ledger event.
Sound(r, s, d) ==
    /\ Evolves(r, s)
    /\ s.qual = "qualified_recorded" =>
          r.qual = "qualified_recorded" \/ (s.attempted = d /\ d # Null)
    /\ s.detected \in {r.detected, clock}
    /\ s.qual = "absent" => r.qual = "absent" /\ s.verified = r.verified

LEMMA SameRow == ASSUME NEW r \in Row, NEW d PROVE Sound(r, r, d)
  BY DEF Sound, Evolves

LEMMA DisputedRow ==
    ASSUME NEW r \in Row, NEW d, r.qual # "absent"
    PROVE  Disputed(r) \in Row /\ Sound(r, Disputed(r), d)
  BY DEF Disputed, Row, Sound, Evolves, Retryable, Terminal

LEMMA SweptRow ==
    ASSUME NEW r \in Row, NEW d, NEW now
    PROVE  /\ Swept(r, now) \in Row /\ Sound(r, Swept(r, now), d)
           /\ Swept(r, now).qual \in Retryable =>
                 Swept(r, now) = r /\ (Available(r, now) => Boundary <= r.detected)
<1>1. ASSUME NEW s \in {"historical_raw_only", "qualification_expired"},
             r.qual \in Retryable
      PROVE  Closing(r, s) \in Row /\ Sound(r, Closing(r, s), d)
             /\ Closing(r, s).qual \notin Retryable
  BY <1>1 DEF Closing, Row, Sound, Evolves, Retryable, Terminal
<1>2. r.detected \in Nat /\ Boundary \in Nat
  BY GateAssumption DEF Row, Clocks, Null
<1>3. QED
  BY <1>1, <1>2, SameRow DEF Swept

LEMMA SettledRow ==
    ASSUME NEW r \in Row, r.qual \in Retryable, NEW d,
           NEW s \in Retryable \cup Terminal, NEW at \in Clocks \cup {Null},
           s = "qualified_recorded" => at = d /\ d # Null
    PROVE  Settled(r, s, at) \in Row /\ Sound(r, Settled(r, s, at), d)
  BY DEF Settled, Row, Sound, Evolves, Retryable, Terminal

\* Every row after the step is the old one or one the lemmas above speak of.
RowsSound ==
    /\ row' \in [Launches -> Row]
    /\ \A l \in Launches : Sound(row[l], row'[l], ledger[l])

LEMMA RowsUntouched ==
    ASSUME row \in [Launches -> Row], UNCHANGED row
    PROVE  RowsSound
  BY SameRow DEF RowsSound

LEMMA OneRowChanges ==
    ASSUME row \in [Launches -> Row], NEW l \in Launches, NEW s \in Row,
           Sound(row[l], s, ledger[l]), row' = [row EXCEPT ![l] = s]
    PROVE  RowsSound
  BY SameRow DEF RowsSound

-----------------------------------------------------------------------------
(* What a step leaves true for the actors that did not take it.            *)

LEMMA CohortKept ==
    ASSUME IInv, TypeOK', clock <= clock', RowsSound, UNCHANGED <<gate, ledger>>
    PROVE  OpenedOnTime' /\ GateOK' /\ RowsOK' /\ EnrolledInWindow' /\ QualifiedIsBacked'
<1>1. /\ clock \in Nat /\ clock' \in Nat /\ Boundary \in Nat /\ Deadline \in Nat
      /\ openedAt \in Nat /\ \A l \in Launches : ledger[l] \in Nat
  BY GateAssumption, EnrollmentAssumption DEF IInv, TypeOK, GateType, Clocks, Null
<1>2. \A l \in Launches : /\ row[l] \in Row /\ row'[l] \in Row
                          /\ row[l].detected \in Nat /\ row'[l].detected \in Nat
  BY GateAssumption DEF IInv, TypeOK, RowsSound, Row, Clocks, Null
<1>3. OpenedOnTime' /\ GateOK'
  BY <1>1 DEF IInv, OpenedOnTime, GateOK, gate
<1>4. RowsOK'
  BY <1>1, <1>2 DEF IInv, RowsOK, RowsSound, Sound, Evolves
<1>5. EnrolledInWindow'
  BY <1>1, <1>2 DEF IInv, EnrolledInWindow, RowsOK, RowsSound, Sound, Evolves, gate
<1>6. QualifiedIsBacked'
  BY DEF IInv, QualifiedIsBacked, RowsSound, Sound, Evolves, Terminal
<1>7. QED
  BY <1>3, <1>4, <1>5, <1>6

\* The scanners that stay where they are keep what they know.
LEMMA ScanKept ==
    ASSUME IInv, TypeOK', clock <= clock',
           \A l \in Launches : Evolves(row[l], row'[l]),
           openedAt # Null => openedAt' = openedAt,
           NEW q \in Scanners, scan'[q] = scan[q]
    PROVE  ScanOK(q)'
<1>1. scan[q] \in Scan /\ scan[q].held \subseteq Launches
  BY DEF IInv, TypeOK, Scan
<1>2. /\ clock \in Nat /\ clock' \in Nat
      /\ scan[q].now \in Nat /\ scan[q].batchAt \in Nat /\ scan[q].at \in Nat
  BY <1>1, GateAssumption DEF IInv, TypeOK, Scan, Clocks, Null
<1>3. ScanOK(q)
  BY DEF IInv, ScansOK
<1>4. \A l \in scan[q].held : /\ row[l].qual # "absent" /\ row'[l].qual # "absent"
                              /\ row'[l].detected = row[l].detected
                              /\ row[l].verified => row'[l].verified
  BY <1>1, <1>3 DEF ScanOK, Evolves
<1>5. scan[q].held # {} => openedAt' = openedAt /\ openedAt' # Null
  BY <1>3 DEF ScanOK
<1>6. Busy(scan[q]) => scan[q].cur \in scan[q].held
  BY <1>3 DEF ScanOK
<1>7. scan[q].stage = "candidate" => Busy(scan[q])
  BY DEF Busy
<1>8. scan[q].stage = "candidate" => ~Late(scan[q].cur, scan[q].at)'
  BY <1>3, <1>4, <1>6, <1>7 DEF ScanOK, Late
<1>9. scan[q].pc = "claiming" => openedAt' # Null
  BY <1>3 DEF ScanOK
<1>10. QED
  BY <1>2, <1>3, <1>4, <1>5, <1>6, <1>8, <1>9 DEF ScanOK, Busy

-----------------------------------------------------------------------------
(* Where a scanner goes.                                                   *)

LEMMA MoveOK ==
    ASSUME IInv, TypeOK', clock <= clock',
           \A l \in Launches : Evolves(row[l], row'[l]),
           openedAt # Null => openedAt' = openedAt,
           NEW p \in Scanners, NEW s, scan' = [scan EXCEPT ![p] = s], ScanOK(p)'
    PROVE  ScansOK'
<1>1. \A q \in Scanners : q # p => scan'[q] = scan[q]
  BY DEF IInv, TypeOK
<1>2. QED
  BY <1>1, ScanKept DEF ScansOK

LEMMA ScanTyped ==
    ASSUME scan \in [Scanners -> Scan], NEW p \in Scanners, NEW s \in Scan,
           scan' = [scan EXCEPT ![p] = s]
    PROVE  scan' \in [Scanners -> Scan] /\ scan'[p] = s
  OBVIOUS

LEMMA SourceStep == ASSUME IInv, SourceNext PROVE IInv' /\ RowsSound
<1> USE DEF IInv
<1>1. /\ clock \in Nat /\ clock' \in Clocks /\ clock <= clock'
      /\ TypeOK' /\ UNCHANGED <<gate, ledger, scan>> /\ RowsSound
  <2>1. CASE Tick
    BY <2>1, RowsUntouched, GateAssumption
    DEF Tick, TypeOK, GateType, Clocks, gate, source
  <2>2. CASE HealthChanges
    BY <2>2, RowsUntouched DEF HealthChanges, TypeOK, GateType, Clocks, gate
  <2>3. ASSUME NEW l \in Launches, Detect(l) PROVE <1>1!:
    <3> DEFINE s == [row[l] EXCEPT !.qual = "raw_unqualified", !.detected = clock]
    <3>1. row' = [row EXCEPT ![l] = s]
      BY <2>3 DEF Detect
    <3>2. s \in Row /\ Sound(row[l], s, ledger[l])
      BY <2>3 DEF Detect, TypeOK, Row, Retryable, Terminal, Sound, Evolves
    <3>3. RowsSound
      BY <3>1, <3>2, OneRowChanges DEF TypeOK
    <3>4. QED
      BY <2>3, <3>3 DEF Detect, TypeOK, GateType, Clocks, gate, source, RowsSound
  <2>4. ASSUME NEW l \in Launches, Contradict(l) PROVE <1>1!:
    <3>1. RowsSound
      BY <2>4, OneRowChanges, DisputedRow DEF Contradict, TypeOK
    <3>2. QED
      BY <2>4, <3>1 DEF Contradict, TypeOK, GateType, Clocks, gate, source, RowsSound
  <2>5. ASSUME NEW checked \in Clocks, NEW good \in SUBSET Uncompared,
               NEW extra \in SUBSET Uncompared, SealEpoch(checked, good, extra)
        PROVE  <1>1!:
    <3>1. ASSUME NEW l \in Uncompared
          PROVE  LET s == [row[l] EXCEPT !.verified = TRUE] IN
                 s \in Row /\ Sound(row[l], s, ledger[l])
      BY <3>1 DEF Uncompared, TypeOK, Row, Sound, Evolves
    <3>2. ASSUME NEW l \in Uncompared
          PROVE  Disputed(row[l]) \in Row /\ Sound(row[l], Disputed(row[l]), ledger[l])
      BY <3>2, DisputedRow DEF Uncompared, TypeOK
    <3>3. RowsSound
      BY <2>5, <3>1, <3>2, SameRow DEF SealEpoch, RowsSound, TypeOK
    <3>4. QED
      BY <2>5, <3>3 DEF SealEpoch, TypeOK, GateType, Clocks, gate, RowsSound
  <2>6. QED
    BY <2>1, <2>2, <2>3, <2>4, <2>5 DEF SourceNext
<1>2. ScansOK'
  BY <1>1, ScanKept DEF ScansOK, RowsSound, Sound, gate
<1>3. QED
  BY <1>1, <1>2, CohortKept

-----------------------------------------------------------------------------
(* The scanners' steps.                                                    *)

\* A scanner's step that touches neither latch, source nor ledger is right if
\* the rows stay sound and the scanner knows what its new place requires.
LEMMA RowStep ==
    ASSUME IInv, NEW p \in Scanners, NEW s \in Scan,
           UNCHANGED <<gate, clock, source, ledger>>, RowsSound,
           scan' = [scan EXCEPT ![p] = s],
           ScanOK(p)'
    PROVE  IInv' /\ RowsSound
<1>1. TypeOK' /\ clock \in Nat
  BY ScanTyped DEF IInv, TypeOK, GateType, gate, source, RowsSound, Clocks
<1>2. /\ clock <= clock' /\ UNCHANGED <<gate, ledger>> /\ openedAt' = openedAt
      /\ \A l \in Launches : Evolves(row[l], row'[l])
  BY <1>1 DEF RowsSound, Sound, gate
<1>3. ScansOK'
  BY <1>1, <1>2, MoveOK
<1>4. QED
  BY <1>1, <1>2, <1>3, CohortKept DEF IInv

\* What a scanner knows of the rows it holds is not undone by sound rows.
LEMMA HeldKept ==
    ASSUME IInv, NEW p \in Scanners, RowsSound
    PROVE  \A l \in scan[p].held :
              /\ l \in Launches /\ row'[l].qual # "absent"
              /\ Boundary <= row'[l].detected /\ row'[l].detected = row[l].detected
              /\ row[l].verified => row'[l].verified
<1>1. scan[p].held \subseteq Launches
  BY DEF IInv, TypeOK, Scan
<1>2. QED
  BY <1>1 DEF IInv, ScansOK, ScanOK, RowsSound, Sound, Evolves

LEMMA GivesUpStep ==
    ASSUME IInv, NEW p \in Scanners, GivesUp(p), RowsSound,
           UNCHANGED <<gate, clock, source, ledger>>
    PROVE  IInv' /\ RowsSound
<1> DEFINE s == [Idle EXCEPT !.pc = "releasing", !.held = scan[p].held]
<1>1. s \in Scan /\ scan' = [scan EXCEPT ![p] = s]
  BY DEF IInv, TypeOK, Scan, Stages, Idle, GivesUp
<1>2. /\ s.pc = "releasing" /\ s.stage = "scan" /\ s.held = scan[p].held
      /\ s.now = 0 /\ s.batchAt = 0 /\ s.at = 0
  BY DEF Idle, Null
<1>3. scan'[p] = s /\ clock \in Nat /\ clock' = clock /\ openedAt' = openedAt
  BY <1>1 DEF IInv, TypeOK, Clocks, gate
<1> HIDE DEF s
<1>4. ScanOK(p)'
  BY <1>2, <1>3, HeldKept DEF ScanOK, Busy, IInv, ScansOK
<1>5. QED
  BY <1>1, <1>4, RowStep

LEMMA DropsStep ==
    ASSUME IInv, NEW p \in Scanners, NEW l, Drops(p, l), RowsSound,
           scan[p].pc \notin {"idle", "releasing"},
           UNCHANGED <<gate, clock, source, ledger>>
    PROVE  IInv' /\ RowsSound
<1> DEFINE s == [scan[p] EXCEPT !.pc = "working", !.held = @ \ {l},
                                !.stage = "batch", !.cur = None, !.at = Null]
<1>1. s \in Scan /\ scan' = [scan EXCEPT ![p] = s]
  BY DEF IInv, TypeOK, Scan, Stages, Drops
<1>2. /\ s.pc = "working" /\ s.stage = "batch" /\ s.held \subseteq scan[p].held
      /\ s.now = scan[p].now /\ s.batchAt = scan[p].batchAt /\ s.at = 0
  BY DEF IInv, TypeOK, Scan, Null
<1>3. scan'[p] = s /\ clock \in Nat /\ clock' = clock /\ openedAt' = openedAt
  BY <1>1 DEF IInv, TypeOK, Clocks, gate
<1> HIDE DEF s
<1>4. ScanOK(p)'
  BY <1>2, <1>3, HeldKept DEF ScanOK, Busy, IInv, ScansOK
<1>5. QED
  BY <1>1, <1>4, RowStep

LEMMA SettleStep ==
    ASSUME IInv, NEW p \in Scanners, NEW l \in Launches,
           NEW s \in Retryable \cup Terminal, NEW at \in Clocks \cup {Null},
           s = "qualified_recorded" => at = ledger[l] /\ at # Null,
           scan[p].pc \notin {"idle", "releasing"},
           Settle(p, l, s, at), UNCHANGED <<gate, clock, source, ledger>>
    PROVE  IInv' /\ RowsSound
<1>1. CASE Owns(p, l, at) /\ row' = [row EXCEPT ![l] = Settled(@, s, at)] /\ Drops(p, l)
  <2>1. RowsSound
    BY <1>1, SettledRow, OneRowChanges DEF Owns, IInv, TypeOK
  <2>2. QED
    BY <1>1, <2>1, DropsStep
<1>2. CASE Drops(p, l) /\ UNCHANGED row
  BY <1>2, RowsUntouched, DropsStep DEF IInv, TypeOK
<1>3. CASE GivesUp(p) /\ UNCHANGED row
  BY <1>3, RowsUntouched, GivesUpStep DEF IInv, TypeOK
<1>4. QED
  BY <1>1, <1>2, <1>3 DEF Settle

LEMMA PlaceStep ==
    ASSUME IInv, NEW p \in Scanners, NEW s \in Scan,
           UNCHANGED <<gate, clock, source, row, ledger>>,
           scan' = [scan EXCEPT ![p] = s],
           ScanOK(p)'
    PROVE  IInv' /\ RowsSound
  BY RowStep, RowsUntouched DEF IInv, TypeOK

\* A scanner's record and the clocks, with their types.
LEMMA ScanTypes ==
    ASSUME IInv, NEW p \in Scanners
    PROVE  /\ scan[p] \in Scan /\ ScanOK(p)
           /\ clock \in Clocks /\ clock \in Nat /\ clock # 0
           /\ openedAt \in Nat
           /\ scan[p].now \in Nat /\ scan[p].batchAt \in Nat /\ scan[p].at \in Nat
  BY GateAssumption DEF IInv, TypeOK, GateType, ScansOK, Scan, Clocks, Null

LEMMA AskingSteps ==
    ASSUME IInv, NEW p \in Scanners,
           \/ StartScan(p) \/ Probe(p) \/ ProbeFails(p)
           \/ Admitted(p) \/ Refused(p) \/ NextBatch(p)
    PROVE  IInv' /\ RowsSound
<1>1. CASE StartScan(p)
  <2> DEFINE s == [scan[p] EXCEPT !.pc = "probing", !.now = clock]
  <2>1. s \in Scan /\ scan' = [scan EXCEPT ![p] = s] /\ scan'[p] = s
    BY <1>1, ScanTypes DEF StartScan, Scan, IInv, TypeOK
  <2>2. /\ s.pc = "probing" /\ s.now = clock /\ s.stage = scan[p].stage
        /\ s.batchAt = scan[p].batchAt /\ s.at = scan[p].at
        /\ s.held = scan[p].held /\ s.cur = scan[p].cur
    BY ScanTypes DEF Scan
  <2> HIDE DEF s
  <2>3. scan[p].pc = "idle" /\ UNCHANGED <<gate, clock, source, row, ledger>>
    BY <1>1 DEF StartScan, At
  <2>4. ScanOK(p)'
    BY <2>1, <2>2, <2>3, ScanTypes DEF ScanOK, Busy, Late, gate, Null
  <2>5. QED
    BY <2>1, <2>3, <2>4, PlaceStep
<1>2. CASE Probe(p) \/ ProbeFails(p)
  <2>1. PICK b \in BOOLEAN :
             scan' = [scan EXCEPT ![p] = [scan[p] EXCEPT !.pc = "admitting", !.ready = b]]
    <3>1. SourceReady(AsksFor(p)) \in BOOLEAN
      BY DEF SourceReady, IInv, TypeOK
    <3>2. CASE Probe(p)
      BY <3>1, <3>2 DEF Probe
    <3>3. CASE ProbeFails(p)
      <4>1. [scan[p] EXCEPT !.pc = "admitting", !.ready = scan[p].ready]
              = [scan[p] EXCEPT !.pc = "admitting"]
        BY ScanTypes DEF Scan
      <4>2. scan[p].ready \in BOOLEAN
        BY ScanTypes DEF Scan
      <4>3. QED
        BY <3>3, <4>1, <4>2 DEF ProbeFails, Goes
    <3>4. QED
      BY <1>2, <3>2, <3>3
  <2> DEFINE s == [scan[p] EXCEPT !.pc = "admitting", !.ready = b]
  <2>2. /\ s \in Scan /\ scan'[p] = s
        /\ s.pc = "admitting" /\ s.now = scan[p].now /\ s.stage = scan[p].stage
        /\ s.batchAt = scan[p].batchAt /\ s.at = scan[p].at
        /\ s.held = scan[p].held /\ s.cur = scan[p].cur
    BY <2>1, ScanTypes DEF Scan, IInv, TypeOK
  <2> HIDE DEF s
  <2>3. scan[p].pc = "probing" /\ UNCHANGED <<gate, clock, source, row, ledger>>
    BY <1>2 DEF Probe, ProbeFails, At
  <2>4. ScanOK(p)'
    BY <2>2, <2>3, ScanTypes DEF ScanOK, Busy, Late, gate
  <2>5. scan' = [scan EXCEPT ![p] = s]
    BY <2>1 DEF s
  <2>6. QED
    BY <2>5, <2>2, <2>3, <2>4, PlaceStep
<1>3. CASE Admitted(p)
  <2>1. scan[p].pc = "reading" /\ UNCHANGED <<gate, clock, source, row, ledger>>
        /\ openedAt # Null
    BY <1>3 DEF Admitted, At, IInv, OpenedOnTime
  <2>2. ASSUME NEW pc \in {"probing", "claiming", "recording"},
               NEW stage \in {"batch", "candidate"},
               pc = "recording" <=> stage = "candidate",
               stage = "candidate" => scan[p].stage = "candidate",
               scan' = [scan EXCEPT ![p] = [scan[p] EXCEPT !.pc = pc, !.stage = stage]]
        PROVE  IInv' /\ RowsSound
    <3> DEFINE s == [scan[p] EXCEPT !.pc = pc, !.stage = stage]
    <3>1. /\ s \in Scan
          /\ s.pc = pc /\ s.stage = stage /\ s.now = scan[p].now
          /\ s.batchAt = scan[p].batchAt /\ s.at = scan[p].at
          /\ s.held = scan[p].held /\ s.cur = scan[p].cur
      BY ScanTypes DEF Scan, Stages
    <3>2. scan' = [scan EXCEPT ![p] = s] /\ scan'[p] = s
      BY <2>2 DEF IInv, TypeOK
    <3> HIDE DEF s
    <3>3. ScanOK(p)'
      BY <2>1, <2>2, <3>1, <3>2, ScanTypes DEF ScanOK, Busy, Late, gate
    <3>4. QED
      BY <2>1, <3>1, <3>2, <3>3, PlaceStep
  <2>3. CASE scan' = [scan EXCEPT ![p].pc = "probing", ![p].stage = "batch"]
    BY <2>2, <2>3
  <2>4. ASSUME NEW pc \in {"claiming", "recording"}, Goes(p, pc),
               scan[p].stage = IF pc = "claiming" THEN "batch" ELSE "candidate"
        PROVE  IInv' /\ RowsSound
    <3>1. [scan[p] EXCEPT !.pc = pc]
            = [scan[p] EXCEPT !.pc = pc, !.stage = scan[p].stage]
      BY ScanTypes DEF Scan
    <3>2. scan' = [scan EXCEPT ![p] = [scan[p] EXCEPT !.pc = pc]]
      BY <2>4 DEF Goes
    <3>3. QED
      BY <2>2, <2>4, <3>1, <3>2
  <2>5. QED
    BY <1>3, <2>3, <2>4 DEF Admitted
<1>4. CASE Refused(p)
  BY <1>4, GivesUpStep, RowsUntouched DEF Refused, IInv, TypeOK
<1>5. CASE NextBatch(p)
  <2> DEFINE s == [scan[p] EXCEPT !.pc = "probing", !.stage = "batch", !.batchAt = Null]
  <2>1. s \in Scan /\ scan' = [scan EXCEPT ![p] = s] /\ scan'[p] = s
    BY <1>5, ScanTypes DEF NextBatch, Scan, Stages, IInv, TypeOK
  <2>2. /\ s.pc = "probing" /\ s.now = scan[p].now /\ s.stage = "batch"
        /\ s.batchAt = 0 /\ s.at = scan[p].at
        /\ s.held = scan[p].held /\ s.cur = scan[p].cur
    BY ScanTypes DEF Scan, Null
  <2> HIDE DEF s
  <2>3. scan[p].pc = "working" /\ UNCHANGED <<gate, clock, source, row, ledger>>
    BY <1>5 DEF NextBatch, At
  <2>4. ScanOK(p)'
    BY <2>1, <2>2, <2>3, ScanTypes DEF ScanOK, Busy, gate
  <2>5. QED
    BY <2>1, <2>3, <2>4, PlaceStep
<1>6. QED
  BY <1>1, <1>2, <1>3, <1>4, <1>5

\* The latch: only its own transaction changes it, with the caller's clock.
LEMMA AdmitStep ==
    ASSUME IInv, NEW p \in Scanners, Admit(p)
    PROVE  IInv' /\ RowsSound
<1> DEFINE s == [scan[p] EXCEPT !.pc = "reading", !.ready = FALSE]
           at == AsksFor(p)
<1>1. /\ scan[p].pc = "admitting" /\ UNCHANGED <<clock, source, row, ledger>>
      /\ AdmitTx(at, scan[p].ready)
  BY DEF Admit, At
<1>2. /\ s \in Scan /\ scan' = [scan EXCEPT ![p] = s] /\ scan'[p] = s
      /\ s.pc = "reading" /\ s.now = scan[p].now /\ s.stage = scan[p].stage
      /\ s.batchAt = scan[p].batchAt /\ s.at = scan[p].at
      /\ s.held = scan[p].held /\ s.cur = scan[p].cur
  BY ScanTypes DEF Admit, Scan, IInv, TypeOK
<1>3. at \in Clocks /\ at \in Nat /\ at # 0 /\ at <= clock
  BY <1>1, ScanTypes, GateAssumption DEF AsksFor, ScanOK, Busy, Scan, Clocks, Null
<1>4. Boundary \in Nat /\ MaxDelay \in Nat /\ armedAt \in Nat /\ openedAt \in Nat
  BY GateAssumption DEF IInv, TypeOK, GateType, Clocks, Null
<1> HIDE DEF s, at
<1>5. GateType' /\ GateOK' /\ OpenedOnTime'
      /\ (openedAt # Null => openedAt' = openedAt)
  <2>1. CASE UNCHANGED gate
    BY <1>1, <1>4, <2>1 DEF gate, IInv, TypeOK, GateType, GateOK, OpenedOnTime
  <2>2. CASE state = "open" /\ Breach(at)
    BY <1>1, <1>3, <1>4, <2>2
    DEF Breach, IInv, TypeOK, GateType, GateStates, GateOK, OpenedOnTime, Null
  <2>3. CASE Waiting /\ at < Boundary /\ Arm(at)
    BY <1>1, <1>3, <1>4, <2>3
    DEF Waiting, Arm, IInv, TypeOK, GateType, GateStates, GateOK, OpenedOnTime, Null
  <2>4. CASE Waiting /\ Disarm
    BY <1>1, <1>3, <1>4, <2>4
    DEF Waiting, Disarm, IInv, TypeOK, GateType, GateStates, GateOK, OpenedOnTime, Null
  <2>5. CASE OpensAt(at, scan[p].ready) /\ Open(at)
    BY <1>1, <1>3, <1>4, <2>5
    DEF OpensAt, Open, IInv, TypeOK, GateType, GateStates, GateOK, OpenedOnTime, Null
  <2>6. CASE Waiting /\ Breach(at)
    BY <1>1, <1>3, <1>4, <2>6
    DEF Waiting, Breach, IInv, TypeOK, GateType, GateStates, GateOK, OpenedOnTime, Null
  <2>7. QED
    BY <1>1, <2>1, <2>2, <2>3, <2>4, <2>5, <2>6 DEF AdmitTx
<1>6. TypeOK'
  BY <1>1, <1>2, <1>5, ScanTyped DEF IInv, TypeOK, source
<1>7. RowsOK' /\ QualifiedIsBacked'
  BY <1>1 DEF IInv, RowsOK, QualifiedIsBacked
<1>8. EnrolledInWindow'
  BY <1>1, <1>5 DEF IInv, EnrolledInWindow
<1>9. \A l \in Launches : Evolves(row[l], row'[l])
  BY <1>1 DEF Evolves
<1>10. clock <= clock'
  BY <1>1, ScanTypes
<1>11. scan[p].held # {} => openedAt' = openedAt
  BY <1>5, ScanTypes DEF ScanOK
<1>12. ScanOK(p)'
  <2>1. Busy(scan[p]) => openedAt' = openedAt
    BY <1>11, ScanTypes DEF ScanOK
  <2>2. QED
    BY <1>1, <1>2, <1>11, <2>1, ScanTypes DEF ScanOK, Busy, Late
<1>13. ScansOK'
  BY <1>2, <1>5, <1>6, <1>9, <1>10, <1>12, MoveOK
<1>14. RowsSound
  BY <1>1, RowsUntouched DEF IInv, TypeOK
<1>15. QED
  BY <1>5, <1>6, <1>7, <1>8, <1>13, <1>14 DEF IInv

\* A claim takes only rows it may take, detected after the boundary.
LEMMA ClaimStep ==
    ASSUME IInv, NEW p \in Scanners, Claim(p)
    PROVE  IInv' /\ RowsSound
<1> DEFINE now == scan[p].now
           swept == [l \in Launches |-> Swept(row[l], now)]
           due == {l \in Launches : Due(swept[l], now)}
<1>1. PICK C \in SUBSET due :
        /\ row' = [l \in Launches |->
                     IF l \in C THEN [swept[l] EXCEPT !.lease = p, !.ends = now + LeaseTime]
                     ELSE swept[l]]
        /\ scan' = IF C = {} THEN [scan EXCEPT ![p] = Idle]
                   ELSE [scan EXCEPT ![p].pc = "fetching", ![p].held = C]
  BY DEF Claim
<1>2. /\ scan[p].pc = "claiming" /\ UNCHANGED <<gate, clock, source, ledger>>
      /\ scan[p].stage = "batch" /\ openedAt # Null
  BY ScanTypes DEF Claim, At, ScanOK
<1>3. now + LeaseTime \in Nat
  BY ScanTypes, EnrollmentAssumption
<1>4. ASSUME NEW l \in Launches
      PROVE  /\ swept[l] \in Row /\ Sound(row[l], swept[l], ledger[l])
             /\ l \in due => /\ swept[l] = row[l] /\ row[l].qual \in Retryable
                             /\ Boundary <= row[l].detected
  BY SweptRow DEF IInv, TypeOK, Due
<1>5. ASSUME NEW l \in C
      PROVE  LET r == [swept[l] EXCEPT !.lease = p, !.ends = now + LeaseTime] IN
             /\ r \in Row /\ Sound(row[l], r, ledger[l])
             /\ r.detected = row[l].detected /\ r.qual = row[l].qual
  <2>1. l \in Launches /\ l \in due
    OBVIOUS
  <2>2. swept[l] = row[l] /\ row[l] \in Row /\ row[l].qual \in Retryable
    BY <1>4, <2>1
  <2>3. ASSUME NEW r0 \in Row, r0.qual \in Retryable, NEW e \in Nat
        PROVE  LET r == [r0 EXCEPT !.lease = p, !.ends = e] IN
               /\ r \in Row /\ Sound(r0, r, ledger[l])
               /\ r.detected = r0.detected /\ r.qual = r0.qual
    BY <2>3 DEF Row, Sound, Evolves, Retryable, Terminal
  <2> HIDE DEF swept, now
  <2>4. QED
    BY <1>3, <2>2, <2>3
<1> HIDE DEF now, swept, due
<1>6. RowsSound
  BY <1>1, <1>4, <1>5 DEF RowsSound
<1>7. CASE C = {}
  <2>1. Idle \in Scan /\ scan' = [scan EXCEPT ![p] = Idle] /\ scan'[p] = Idle
    BY <1>1, <1>7 DEF Idle, Scan, Stages, IInv, TypeOK
  <2>2. ScanOK(p)'
    BY <1>2, <2>1, ScanTypes DEF ScanOK, Busy, Idle, Null
  <2>3. QED
    BY <1>2, <1>6, <2>1, <2>2, RowStep
<1>8. CASE C # {}
  <2> DEFINE s == [scan[p] EXCEPT !.pc = "fetching", !.held = C]
  <2>1. C \subseteq Launches
    BY DEF due
  <2>2. /\ s \in Scan /\ scan' = [scan EXCEPT ![p] = s] /\ scan'[p] = s
        /\ s.pc = "fetching" /\ s.now = scan[p].now /\ s.stage = "batch"
        /\ s.batchAt = scan[p].batchAt /\ s.at = scan[p].at /\ s.held = C
    BY <1>1, <1>2, <1>8, <2>1, ScanTypes DEF Scan, IInv, TypeOK
  <2> HIDE DEF s
  <2>3. \A l \in C : row'[l].qual # "absent" /\ Boundary <= row'[l].detected
    BY <1>1, <1>4, <1>5, <2>1 DEF Retryable
  <2>4. ScanOK(p)'
    BY <1>2, <2>2, <2>3, ScanTypes DEF ScanOK, Busy, gate
  <2>5. QED
    BY <1>2, <1>6, <2>2, <2>4, RowStep
<1>9. QED
  BY <1>7, <1>8

LEMMA LeavingSteps ==
    ASSUME IInv, NEW p \in Scanners,
           \/ Release(p) \/ EndScan(p) \/ Crash(p)
           \/ MarketFails(p) \/ ProofGone(p) \/ Raises(p)
    PROVE  IInv' /\ RowsSound
<1>1. CASE EndScan(p) \/ Crash(p)
  <2>1. /\ Idle \in Scan /\ scan' = [scan EXCEPT ![p] = Idle] /\ scan'[p] = Idle
        /\ UNCHANGED <<gate, clock, source, row, ledger>>
    BY <1>1 DEF EndScan, Crash, Idle, Scan, Stages, IInv, TypeOK
  <2>2. ScanOK(p)'
    BY <2>1, ScanTypes DEF ScanOK, Busy, Idle, Null
  <2>3. QED
    BY <2>1, <2>2, PlaceStep
<1>2. CASE MarketFails(p) \/ ProofGone(p) \/ Raises(p)
  BY <1>2, GivesUpStep, RowsUntouched DEF MarketFails, ProofGone, Raises, IInv, TypeOK
<1>3. CASE Release(p)
  <2>1. PICK l \in scan[p].held :
          /\ row' = IF row[l].lease = p /\ row[l].qual \in Retryable
                    THEN [row EXCEPT ![l].lease = None, ![l].ends = 0] ELSE row
          /\ scan' = [scan EXCEPT ![p].held = @ \ {l}]
    BY <1>3 DEF Release
  <2>2. scan[p].pc = "releasing" /\ UNCHANGED <<gate, clock, source, ledger>>
    BY <1>3 DEF Release, At
  <2>3. l \in Launches
    BY ScanTypes DEF Scan
  <2>4. RowsSound
    <3> DEFINE r == [row[l] EXCEPT !.lease = None, !.ends = 0]
    <3>1. r \in Row /\ Sound(row[l], r, ledger[l])
      BY <2>3 DEF IInv, TypeOK, Row, Sound, Evolves
    <3>2. CASE row' = [row EXCEPT ![l] = r]
      BY <2>3, <3>1, <3>2, OneRowChanges DEF IInv, TypeOK
    <3>3. CASE UNCHANGED row
      BY <3>3, RowsUntouched DEF IInv, TypeOK
    <3>4. QED
      BY <2>1, <3>2, <3>3
  <2> DEFINE s == [scan[p] EXCEPT !.held = @ \ {l}]
  <2>5. /\ s \in Scan /\ scan' = [scan EXCEPT ![p] = s] /\ scan'[p] = s
        /\ s.pc = "releasing" /\ s.now = scan[p].now /\ s.stage = scan[p].stage
        /\ s.batchAt = scan[p].batchAt /\ s.at = scan[p].at
        /\ s.held \subseteq scan[p].held
    BY <2>1, <2>2, ScanTypes DEF Scan, IInv, TypeOK
  <2>6. scan[p].stage # "candidate"
    BY <2>2, ScanTypes DEF ScanOK
  <2> HIDE DEF s
  <2>7. ScanOK(p)'
    BY <2>2, <2>4, <2>5, <2>6, ScanTypes, HeldKept DEF ScanOK, Busy, gate
  <2>8. QED
    BY <2>2, <2>4, <2>5, <2>7, RowStep
<1>4. QED
  BY <1>1, <1>2, <1>3

LEMMA CandidateSteps ==
    ASSUME IInv, NEW p \in Scanners,
           \/ FetchBatch(p) \/ Qualify(p)
           \/ \E l \in Launches : FetchPair(p, l)
    PROVE  IInv' /\ RowsSound
<1>1. CASE FetchBatch(p)
  <2> DEFINE s == [scan[p] EXCEPT !.pc = "working", !.batchAt = clock]
  <2>1. scan[p].pc = "fetching" /\ UNCHANGED <<gate, clock, source, row, ledger>>
    BY <1>1 DEF FetchBatch, At
  <2>2. /\ s \in Scan /\ scan' = [scan EXCEPT ![p] = s] /\ scan'[p] = s
        /\ s.pc = "working" /\ s.now = scan[p].now /\ s.stage = scan[p].stage
        /\ s.batchAt = clock /\ s.at = scan[p].at /\ s.held = scan[p].held
    BY <1>1, ScanTypes DEF FetchBatch, Scan, IInv, TypeOK
  <2> HIDE DEF s
  <2>3. ScanOK(p)'
    BY <2>1, <2>2, ScanTypes DEF ScanOK, Busy, gate
  <2>4. QED
    BY <2>1, <2>2, <2>3, PlaceStep
<1>2. ASSUME NEW l \in Launches, FetchPair(p, l) PROVE IInv' /\ RowsSound
  <2> DEFINE s == [scan[p] EXCEPT !.pc = "priced", !.cur = l, !.at = clock]
  <2>1. /\ scan[p].pc = "working" /\ UNCHANGED <<gate, clock, source, row, ledger>>
        /\ l \in scan[p].held /\ row[l].verified
    BY <1>2 DEF FetchPair, At, Proven
  <2>2. scan' = [scan EXCEPT ![p] = s] /\ scan'[p] = s
    BY <1>2 DEF FetchPair, IInv, TypeOK
  <2>3. /\ s \in Scan
        /\ s.pc = "priced" /\ s.now = scan[p].now /\ s.stage = scan[p].stage
        /\ s.batchAt = scan[p].batchAt /\ s.at = clock /\ s.held = scan[p].held
        /\ s.cur = l
    BY ScanTypes DEF Scan
  <2>4. row[l].detected <= clock /\ openedAt <= clock /\ scan[p].stage = "batch"
    BY <2>1, ScanTypes DEF IInv, RowsOK, GateOK, ScanOK
  <2> HIDE DEF s
  <2>5. /\ scan[p].now <= clock /\ scan[p].now # Null /\ scan[p].batchAt <= clock
        /\ openedAt # Null
        /\ \A k \in scan[p].held : row[k].qual # "absent" /\ Boundary <= row[k].detected
    BY <2>1, ScanTypes DEF ScanOK
  <2>6. ScanOK(p)'
    BY <2>1, <2>2, <2>3, <2>4, <2>5, ScanTypes DEF ScanOK, Busy, gate, Null
  <2>7. QED
    BY <2>1, <2>2, <2>3, <2>6, PlaceStep
<1>3. CASE Qualify(p)
  <2> DEFINE s == [scan[p] EXCEPT !.pc = "probing", !.stage = "candidate"]
  <2>1. /\ scan[p].pc = "priced" /\ UNCHANGED <<gate, clock, source, row, ledger>>
        /\ ~Late(scan[p].cur, scan[p].at)
    BY <1>3 DEF Qualify, At
  <2>2. /\ s \in Scan /\ scan' = [scan EXCEPT ![p] = s] /\ scan'[p] = s
        /\ s.pc = "probing" /\ s.now = scan[p].now /\ s.stage = "candidate"
        /\ s.batchAt = scan[p].batchAt /\ s.at = scan[p].at /\ s.held = scan[p].held
        /\ s.cur = scan[p].cur
    BY <1>3, ScanTypes DEF Qualify, Scan, Stages, IInv, TypeOK
  <2> HIDE DEF s
  <2>3. ScanOK(p)'
    BY <2>1, <2>2, ScanTypes DEF ScanOK, Busy, Late, gate
  <2>4. QED
    BY <2>1, <2>2, <2>3, PlaceStep
<1>4. QED
  BY <1>1, <1>2, <1>3

LEMMA SettlingSteps ==
    ASSUME IInv, NEW p \in Scanners,
           \/ \E l \in Launches : NotIndexed(p, l)
           \/ TooLate(p) \/ Screen(p) \/ Orphan(p) \/ Enroll(p)
    PROVE  IInv' /\ RowsSound
<1>1. ASSUME NEW l \in Launches, NotIndexed(p, l) PROVE IInv' /\ RowsSound
  <2>1. /\ Settle(p, l, "market_pending", scan[p].batchAt)
        /\ scan[p].pc = "working" /\ UNCHANGED <<gate, clock, source, ledger>>
    BY <1>1 DEF NotIndexed, At
  <2>2. scan[p].batchAt \in Clocks \cup {Null} /\ "market_pending" \in Retryable
    BY ScanTypes DEF Scan, Retryable
  <2>3. QED
    BY <2>1, <2>2, SettleStep
<1>2. CASE TooLate(p) \/ Screen(p) \/ Orphan(p) \/ Enroll(p)
  <2>1. PICK s \in Retryable \cup Terminal :
          /\ Settle(p, scan[p].cur, s, scan[p].at)
          /\ s = "qualified_recorded" => ReadsBack(p)
    BY <1>2 DEF TooLate, Screen, Orphan, Enroll, Retryable, Terminal
  <2>2. /\ scan[p].pc \in {"priced", "recorded"}
        /\ UNCHANGED <<gate, clock, source, ledger>>
    BY <1>2 DEF TooLate, Screen, Orphan, Enroll, At
  <2>3. Busy(scan[p])
    BY <2>2, ScanTypes DEF ScanOK, Busy
  <2>4. /\ scan[p].cur \in Launches
        /\ scan[p].at \in Clocks \cup {Null} /\ scan[p].at # Null
    BY <2>3, ScanTypes DEF ScanOK, Scan
  <2>5. QED
    BY <2>1, <2>2, <2>4, SettleStep DEF ReadsBack
<1>3. QED
  BY <1>1, <1>2

\* The ledger: the launch is one of the cohort, and decided by what p read.
LEMMA RecordStep ==
    ASSUME IInv, NEW p \in Scanners, Record(p)
    PROVE  IInv' /\ RowsSound
<1> DEFINE s == [scan[p] EXCEPT !.pc = "recorded"]
           l == scan[p].cur
<1>1. scan[p].pc = "recording" /\ UNCHANGED <<gate, clock, source, row>>
  BY DEF Record, At
<1>2. scan[p].stage = "candidate" /\ Busy(scan[p])
  BY <1>1, ScanTypes DEF ScanOK, Busy
<1>3. /\ s \in Scan /\ scan' = [scan EXCEPT ![p] = s] /\ scan'[p] = s
      /\ s.pc = "recorded" /\ s.now = scan[p].now /\ s.stage = scan[p].stage
      /\ s.batchAt = scan[p].batchAt /\ s.at = scan[p].at /\ s.held = scan[p].held
      /\ s.cur = scan[p].cur
  BY ScanTypes DEF Record, Goes, Scan, IInv, TypeOK
<1> HIDE DEF s
<1>4. /\ l \in Launches /\ l \in scan[p].held
      /\ scan[p].at \in Clocks /\ scan[p].at # Null
      /\ openedAt # Null /\ openedAt <= scan[p].at
      /\ Boundary <= row[l].detected /\ row[l].detected <= scan[p].at
      /\ row[l].verified /\ ~Late(l, scan[p].at)
  BY <1>2, ScanTypes DEF ScanOK, Scan
<1>5. /\ row[l].detected \in Nat /\ Deadline \in Nat /\ scan[p].at \in Nat
  BY <1>4, GateAssumption, EnrollmentAssumption DEF IInv, TypeOK, Row, Clocks, Null
<1>6. scan[p].at <= row[l].detected + Deadline
  BY <1>4, <1>5 DEF Late
<1>7. \A m \in Launches : \/ ledger'[m] = ledger[m]
                          \/ m = l /\ ledger[m] = Null /\ ledger'[m] = scan[p].at
  BY DEF Record, IInv, TypeOK
<1> HIDE DEF l
<1>8. EnrolledInWindow'
  BY <1>1, <1>4, <1>6, <1>7 DEF IInv, EnrolledInWindow, gate
<1>9. QualifiedIsBacked'
  BY <1>1, <1>7 DEF IInv, QualifiedIsBacked
<1>10. ledger' \in [Launches -> Clocks \cup {Null}]
  BY <1>4 DEF Record, IInv, TypeOK, l
<1>11. TypeOK' /\ OpenedOnTime' /\ GateOK' /\ RowsOK'
  BY <1>1, <1>3, <1>10, ScanTyped
  DEF IInv, TypeOK, GateType, OpenedOnTime, GateOK, RowsOK, gate, source
<1>12. ScanOK(p)'
  BY <1>1, <1>2, <1>3, ScanTypes DEF ScanOK, Busy, Late, gate
<1>13. clock <= clock' /\ openedAt' = openedAt
      /\ \A m \in Launches : Evolves(row[m], row'[m])
  BY <1>1, ScanTypes DEF Evolves, gate
<1>14. ScansOK'
  BY <1>3, <1>11, <1>12, <1>13, MoveOK
<1>15. RowsSound
  BY <1>1, RowsUntouched DEF IInv, TypeOK
<1>16. QED
  BY <1>8, <1>9, <1>11, <1>14, <1>15 DEF IInv

-----------------------------------------------------------------------------
(* The theorems.                                                           *)

LEMMA Initially == Init => IInv
<1> SUFFICES ASSUME Init PROVE IInv
  OBVIOUS
<1>1. 1 \in Clocks /\ Boundary \in Nat
  BY GateAssumption DEF Clocks
<1>2. NoRow \in Row /\ Idle \in Scan
  BY DEF NoRow, Row, Idle, Scan, Stages
<1>3. TypeOK
  BY <1>1, <1>2 DEF Init, GateInit, TypeOK, GateType, GateStates
<1>4. OpenedOnTime /\ GateOK
  BY DEF Init, GateInit, OpenedOnTime, GateOK, Null
<1>5. RowsOK /\ EnrolledInWindow /\ QualifiedIsBacked
  BY DEF Init, RowsOK, EnrolledInWindow, QualifiedIsBacked, NoRow, Null
<1>6. ScansOK
  BY DEF Init, ScansOK, ScanOK, Busy, Idle, Null
<1>7. QED
  BY <1>3, <1>4, <1>5, <1>6 DEF IInv

LEMMA StepKeeps == ASSUME IInv, [Next]_vars PROVE IInv' /\ RowsSound
<1>1. ASSUME NEW p \in Scanners, ScanStep(p) \/ Crash(p)
      PROVE  IInv' /\ RowsSound
  BY <1>1, AskingSteps, AdmitStep, ClaimStep, LeavingSteps, CandidateSteps,
     SettlingSteps, RecordStep
  DEF ScanStep
<1>2. CASE UNCHANGED vars
  <2>1. UNCHANGED <<gate, clock, source, row, ledger, scan>>
    BY <1>2 DEF vars, gate, source
  <2>2. TypeOK' /\ RowsSound /\ clock <= clock'
    BY <2>1, RowsUntouched DEF IInv, TypeOK, GateType, gate, source, Clocks
  <2>3. ScansOK'
    BY <2>1, <2>2, ScanKept DEF ScansOK, RowsSound, Sound, gate
  <2>4. QED
    BY <2>1, <2>2, <2>3, CohortKept DEF IInv
<1>3. QED
  BY <1>1, <1>2, SourceStep DEF Next

\* The invariant of the cohort, for any number of scanners and launches.
THEOREM EnrollmentInvariant == Spec => []IInv
<1>1. Init => IInv
  BY Initially
<1>2. IInv /\ [Next]_vars => IInv'
  BY StepKeeps
<1>3. QED
  BY <1>1, <1>2, PTL DEF Spec

\* Every reachable state of the enrolment is well typed.
THEOREM EnrollmentTypeCorrect == Spec => []TypeOK
  BY EnrollmentInvariant, PTL DEF IInv

\* The latch never opens late, nor without having been armed in time.
THEOREM CohortOpensOnTime == Spec => []OpenedOnTime
  BY EnrollmentInvariant, PTL DEF IInv

\* Every event of the cohort lies in its window and on sealed evidence.
THEOREM CohortEnrolsInWindow == Spec => []EnrolledInWindow
  BY EnrollmentInvariant, PTL DEF IInv

\* The two databases agree on every launch that counts as qualified.
THEOREM QualifiedRowsAreBacked == Spec => []QualifiedIsBacked
  BY EnrollmentInvariant, PTL DEF IInv

\* No late result, sweep, dispute or epoch rewrites a terminal qualification.
THEOREM TerminalRowsStay == Spec => TerminalIsFinal
<1>1. IInv /\ [Next]_vars =>
        [\A l \in Launches :
           row[l].qual \in Terminal => row'[l].qual = row[l].qual]_vars
  BY StepKeeps DEF RowsSound, Sound, Evolves
<1>2. QED
  BY <1>1, EnrollmentInvariant, PTL DEF Spec, TerminalIsFinal

\* An open latch can only breach, and a breach is for good.
THEOREM BreachesAreFinal == Spec => BreachIsFinal
<1> DEFINE A == /\ state = "breached" => UNCHANGED gate
                /\ state = "open" => /\ state' \in {"open", "breached"}
                                     /\ UNCHANGED <<armedAt, openedAt>>
<1>1. ASSUME Next PROVE A
  <2>1. CASE UNCHANGED gate
    BY <2>1 DEF gate
  <2>2. ASSUME NEW p \in Scanners, Admit(p) PROVE A
    BY <2>2 DEF Admit, AdmitTx, Waiting, OpensAt, Breach, gate
  <2>3. ASSUME SourceNext PROVE UNCHANGED gate
    BY <2>3 DEF SourceNext, Tick, HealthChanges, Detect, Contradict, SealEpoch
  <2>4. ASSUME NEW p \in Scanners, ScanStep(p) \/ Crash(p), ~Admit(p)
        PROVE  UNCHANGED gate
    BY <2>4
    DEF ScanStep, Crash, StartScan, Probe, ProbeFails, Admitted, Refused, Claim,
        Release, EndScan, NextBatch, FetchBatch, MarketFails, ProofGone, NotIndexed,
        FetchPair, TooLate, Screen, Qualify, Record, Orphan, Enroll, Raises
  <2>5. QED
    BY <1>1, <2>1, <2>2, <2>3, <2>4 DEF Next
<1>2. [Next]_vars => [A]_vars
  BY <1>1
<1>3. QED
  BY <1>2, PTL DEF Spec, BreachIsFinal

-----------------------------------------------------------------------------
(* Leases.                                                                 *)

\* Scanner p holds an unexpired lease on l, and does not move.
Leased(p, l) ==
    /\ row[l].lease = p /\ row[l].qual \in Retryable /\ row[l].ends > clock
    /\ scan'[p] = scan[p]
Spared(p, l) == row'[l].lease = p /\ row'[l].qual \in {row[l].qual, "provenance_conflict"}

\* A claim asks with a clock that is not ahead of the wall's, so that the lease
\* has not run out for it either.
LEMMA ClaimSpares ==
    ASSUME IInv, NEW q \in Scanners, Claim(q),
           NEW p \in Scanners, NEW l \in Launches, Leased(p, l)
    PROVE  Spared(p, l)
<1> DEFINE now == scan[q].now
           swept == [m \in Launches |-> Swept(row[m], now)]
           due == {m \in Launches : Due(swept[m], now)}
<1>1. PICK C \in SUBSET due :
        row' = [m \in Launches |->
                  IF m \in C THEN [swept[m] EXCEPT !.lease = q, !.ends = now + LeaseTime]
                  ELSE swept[m]]
  BY DEF Claim
<1>2. now \in Nat /\ clock \in Nat /\ row[l].ends \in Nat /\ now <= clock
  BY ScanTypes, GateAssumption DEF ScanOK, Scan, IInv, TypeOK, Row, Clocks, Null
<1>3. ~Available(row[l], now)
  BY <1>2, EnrollmentAssumption DEF Leased, Available
<1>4. swept[l] = row[l] /\ l \notin due
  BY <1>3 DEF Swept, Due
<1> HIDE DEF now, swept, due
<1>5. row'[l] = row[l]
  BY <1>1, <1>4
<1>6. QED
  BY <1>5 DEF Leased, Spared

\* A result of another scanner changes no row it does not own; the owner's own
\* result moves the owner.
LEMMA SettleSpares ==
    ASSUME IInv, NEW q \in Scanners, NEW m \in Launches, NEW s, NEW at,
           Settle(q, m, s, at), scan[q].pc # "working" \/ m \in scan[q].held,
           NEW p \in Scanners, NEW l \in Launches, Leased(p, l)
    PROVE  Spared(p, l)
<1>1. row \in [Launches -> Row] /\ scan \in [Scanners -> Scan]
  BY DEF IInv, TypeOK
<1>2. CASE UNCHANGED row
  BY <1>2 DEF Leased, Spared
<1>3. CASE Owns(q, m, at) /\ row' = [row EXCEPT ![m] = Settled(@, s, at)] /\ Drops(q, m)
  <2>1. scan'[q].pc = "working" /\ m \notin scan'[q].held
    BY <1>1, <1>3 DEF Drops, Scan
  <2>2. q # p
    BY <2>1 DEF Leased
  <2>3. l # m
    BY <1>3, <2>2 DEF Owns, Leased
  <2>4. QED
    BY <1>1, <1>3, <2>3 DEF Leased, Spared
<1>4. QED
  BY <1>2, <1>3 DEF Settle

LEMMA ReleaseSpares ==
    ASSUME IInv, NEW q \in Scanners, Release(q),
           NEW p \in Scanners, NEW l \in Launches, Leased(p, l)
    PROVE  Spared(p, l)
<1>1. row \in [Launches -> Row] /\ scan \in [Scanners -> Scan]
  BY DEF IInv, TypeOK
<1>2. PICK m \in scan[q].held :
         /\ row' = IF row[m].lease = q /\ row[m].qual \in Retryable
                   THEN [row EXCEPT ![m].lease = None, ![m].ends = 0] ELSE row
         /\ scan' = [scan EXCEPT ![q].held = @ \ {m}]
  BY DEF Release
<1>3. CASE m = l /\ q = p
  <2>1. m \notin scan'[q].held
    BY <1>1, <1>2 DEF Scan
  <2>2. QED
    BY <1>3, <2>1 DEF Leased
<1>4. CASE m # l \/ q # p
  BY <1>1, <1>2, <1>4 DEF Leased, Spared
<1>5. QED
  BY <1>3, <1>4

LEMMA SourceSpares ==
    ASSUME IInv, SourceNext, NEW p \in Scanners, NEW l \in Launches, Leased(p, l)
    PROVE  Spared(p, l)
<1>1. row \in [Launches -> Row]
  BY DEF IInv, TypeOK
<1>2. row[l].qual # "absent" /\ row[l] \in Row
  BY <1>1 DEF Leased, Retryable
<1>3. /\ Disputed(row[l]).lease = row[l].lease
      /\ Disputed(row[l]).qual \in {row[l].qual, "provenance_conflict"}
  BY <1>2 DEF Disputed, Row
<1>4. row'[l] \in {row[l], Disputed(row[l]), [row[l] EXCEPT !.verified = TRUE]}
  <2>1. CASE Tick \/ HealthChanges
    BY <2>1 DEF Tick, HealthChanges
  <2>2. ASSUME NEW m \in Launches, Detect(m) \/ Contradict(m) PROVE row'[l] \in {row[l], Disputed(row[l])}
    BY <1>1, <1>2, <2>2 DEF Detect, Contradict
  <2>3. ASSUME NEW checked \in Clocks, NEW good \in SUBSET Uncompared,
               NEW extra \in SUBSET Uncompared, SealEpoch(checked, good, extra)
        PROVE  row'[l] \in {row[l], Disputed(row[l]), [row[l] EXCEPT !.verified = TRUE]}
    BY <2>3 DEF SealEpoch
  <2>4. QED
    BY <2>1, <2>2, <2>3 DEF SourceNext
<1>5. [row[l] EXCEPT !.verified = TRUE].lease = row[l].lease
      /\ [row[l] EXCEPT !.verified = TRUE].qual = row[l].qual
  BY <1>2 DEF Row
<1>6. QED
  BY <1>3, <1>4, <1>5 DEF Leased, Spared

\* An unexpired lease keeps every other scanner away from its row, however old
\* the clock they claim with.
THEOREM LeasesExclude == Spec => LeaseExcludes
<1>1. ASSUME IInv, Next, NEW p \in Scanners, NEW l \in Launches, Leased(p, l)
      PROVE  Spared(p, l)
  <2>1. CASE UNCHANGED row
    BY <1>1, <2>1 DEF Leased, Spared
  <2>2. CASE SourceNext
    BY <1>1, <2>2, SourceSpares
  <2>3. ASSUME NEW q \in Scanners, Claim(q) \/ Release(q) PROVE Spared(p, l)
    BY <1>1, <2>3, ClaimSpares, ReleaseSpares
  <2>4. ASSUME NEW q \in Scanners, NEW m \in Launches, NotIndexed(q, m) PROVE Spared(p, l)
    BY <1>1, <2>4, SettleSpares DEF NotIndexed
  <2>5. ASSUME NEW q \in Scanners, TooLate(q) \/ Screen(q) \/ Orphan(q) \/ Enroll(q)
        PROVE  Spared(p, l)
    <3>1. scan[q].pc \in {"priced", "recorded"}
      BY <2>5 DEF TooLate, Screen, Orphan, Enroll, At
    <3>2. ScanOK(q) /\ Busy(scan[q])
      BY <1>1, <3>1, ScanTypes DEF ScanOK, Busy
    <3>3. scan[q].cur \in Launches
      BY <1>1, <3>2, ScanTypes DEF ScanOK, Scan
    <3>4. QED
      BY <1>1, <2>5, <3>1, <3>3, SettleSpares DEF TooLate, Screen, Orphan, Enroll
  <2>6. ASSUME NEW q \in Scanners, ScanStep(q) \/ Crash(q)
        PROVE  \/ UNCHANGED row \/ Claim(q) \/ Release(q)
               \/ \E m \in Launches : NotIndexed(q, m)
               \/ TooLate(q) \/ Screen(q) \/ Orphan(q) \/ Enroll(q)
    BY <2>6
    DEF ScanStep, Crash, StartScan, Probe, ProbeFails, Admit, Admitted, Refused,
        EndScan, NextBatch, FetchBatch, MarketFails, ProofGone, FetchPair, Qualify,
        Record, Raises
  <2>7. QED
    BY <1>1, <2>1, <2>2, <2>3, <2>4, <2>5, <2>6 DEF Next
<1>2. IInv /\ [Next]_vars =>
        [\A l \in Launches : \A p \in Scanners :
           /\ row[l].lease = p /\ row[l].qual \in Retryable /\ row[l].ends > clock
           /\ scan'[p] = scan[p]
           => row'[l].lease = p /\ row'[l].qual \in {row[l].qual, "provenance_conflict"}]_vars
  BY <1>1 DEF Leased, Spared
<1>3. QED
  BY <1>2, EnrollmentInvariant, PTL DEF Spec, LeaseExcludes

-----------------------------------------------------------------------------
(* The implementation of LaunchEvidence: only the source's steps say       *)
(* anything new of a launch's evidence, a scanner's none.                  *)

SameEvidence(r, s) ==
    /\ s.qual = "absent" <=> r.qual = "absent"
    /\ s.verified = r.verified /\ s.conflict = r.conflict

LEMMA ClosingSaysNothing ==
    ASSUME NEW r \in Row, r.qual # "absent", NEW s \in Retryable \cup Terminal, NEW at
    PROVE  SameEvidence(r, Closing(r, s)) /\ SameEvidence(r, Settled(r, s, at))
  BY DEF Closing, Settled, SameEvidence, Row, Retryable, Terminal

LEMMA ClaimSaysNothing ==
    ASSUME IInv, NEW q \in Scanners, Claim(q), NEW l \in Launches
    PROVE  SameEvidence(row[l], row'[l])
<1> DEFINE now == scan[q].now
           swept == [m \in Launches |-> Swept(row[m], now)]
<1>1. PICK C \in SUBSET Launches :
        row' = [m \in Launches |->
                  IF m \in C THEN [swept[m] EXCEPT !.lease = q, !.ends = now + LeaseTime]
                  ELSE swept[m]]
  BY DEF Claim
<1>2. row[l] \in Row /\ Swept(row[l], now) \in Row
  BY SweptRow DEF IInv, TypeOK
<1>3. SameEvidence(row[l], Swept(row[l], now))
  <2>1. CASE row[l].qual \in Retryable
    <3>1. row[l].qual # "absent" /\ "historical_raw_only" \in Terminal
          /\ "qualification_expired" \in Terminal
      BY <2>1 DEF Retryable, Terminal
    <3>2. /\ SameEvidence(row[l], Closing(row[l], "historical_raw_only"))
          /\ SameEvidence(row[l], Closing(row[l], "qualification_expired"))
      BY <1>2, <3>1, ClosingSaysNothing
    <3>3. QED  BY <3>2 DEF Swept, SameEvidence
  <2>2. CASE row[l].qual \notin Retryable
    BY <2>2 DEF Swept, SameEvidence
  <2>3. QED  BY <2>1, <2>2
<1>4. swept[l] = Swept(row[l], now)
  OBVIOUS
<1> HIDE DEF now, swept
<1>5. row'[l] = swept[l] \/ row'[l] = [swept[l] EXCEPT !.lease = q, !.ends = now + LeaseTime]
  BY <1>1
<1>6. swept[l] \in Row /\ SameEvidence(row[l], swept[l])
  BY <1>2, <1>3, <1>4
<1>7. ASSUME NEW r \in Row, NEW ends
      PROVE  LET leased == [r EXCEPT !.lease = q, !.ends = ends] IN
             leased.qual = r.qual /\ leased.verified = r.verified
             /\ leased.conflict = r.conflict
  BY DEF Row
<1> DEFINE ends == now + LeaseTime
           leased == [swept[l] EXCEPT !.lease = q, !.ends = ends]
<1>8. leased.qual = swept[l].qual /\ leased.verified = swept[l].verified
      /\ leased.conflict = swept[l].conflict
  <2> HIDE DEF ends
  <2>1. QED  BY <1>6, <1>7
<1>9. row'[l] \in {swept[l], leased}
  BY <1>5
<1> HIDE DEF leased
<1>10. QED  BY <1>6, <1>8, <1>9 DEF SameEvidence

LEMMA SettleSaysNothing ==
    ASSUME IInv, NEW q \in Scanners, NEW m \in Launches,
           NEW s \in Retryable \cup Terminal, NEW at, Settle(q, m, s, at),
           NEW l \in Launches
    PROVE  SameEvidence(row[l], row'[l])
<1>1. row \in [Launches -> Row]
  BY DEF IInv, TypeOK
<1>2. CASE UNCHANGED row
  BY <1>2 DEF SameEvidence
<1>3. CASE Owns(q, m, at) /\ row' = [row EXCEPT ![m] = Settled(@, s, at)]
  <2>1. row[m].qual # "absent"
    BY <1>3 DEF Owns, Retryable
  <2>2. SameEvidence(row[m], Settled(row[m], s, at))
    BY <1>1, <2>1, ClosingSaysNothing
  <2>3. row'[l] = row[l] \/ (l = m /\ row'[l] = Settled(row[m], s, at))
    BY <1>1, <1>3
  <2>4. QED  BY <2>2, <2>3 DEF SameEvidence
<1>4. QED  BY <1>2, <1>3 DEF Settle

LEMMA ReleaseSaysNothing ==
    ASSUME IInv, NEW q \in Scanners, Release(q), NEW l \in Launches
    PROVE  SameEvidence(row[l], row'[l])
<1>1. row \in [Launches -> Row]
  BY DEF IInv, TypeOK
<1>2. PICK m \in scan[q].held :
         row' = row \/ row' = [row EXCEPT ![m].lease = None, ![m].ends = 0]
  BY DEF Release
<1>3. QED  BY <1>1, <1>2 DEF SameEvidence, Row

LEMMA ScansSayNothing ==
    ASSUME IInv, NEW q \in Scanners, ScanStep(q) \/ Crash(q)
    PROVE  UNCHANGED Facts!vars
<1>1. ASSUME NEW l \in Launches PROVE SameEvidence(row[l], row'[l])
  <2>1. CASE UNCHANGED row
    BY <2>1 DEF SameEvidence
  <2>2. CASE Claim(q) \/ Release(q)
    BY <2>2, ClaimSaysNothing, ReleaseSaysNothing
  <2>3. ASSUME NEW m \in Launches, NotIndexed(q, m)
        PROVE  SameEvidence(row[l], row'[l])
    BY <2>3, SettleSaysNothing DEF NotIndexed, Retryable
  <2>4. CASE TooLate(q) \/ Screen(q) \/ Orphan(q) \/ Enroll(q)
    <3>1. scan[q].pc \in {"priced", "recorded"}
      BY <2>4 DEF TooLate, Screen, Orphan, Enroll, At
    <3>2. scan[q].cur \in Launches
      BY <3>1, ScanTypes DEF ScanOK, Busy, Scan
    <3>3. PICK s \in Retryable \cup Terminal : Settle(q, scan[q].cur, s, scan[q].at)
      BY <2>4 DEF TooLate, Screen, Orphan, Enroll, Retryable, Terminal
    <3>4. QED  BY <3>2, <3>3, SettleSaysNothing
  <2>5. \/ UNCHANGED row \/ Claim(q) \/ Release(q)
        \/ \E m \in Launches : NotIndexed(q, m)
        \/ TooLate(q) \/ Screen(q) \/ Orphan(q) \/ Enroll(q)
    BY DEF ScanStep, Crash, StartScan, Probe, ProbeFails, Admit, Admitted, Refused,
           EndScan, NextBatch, FetchBatch, MarketFails, ProofGone, FetchPair, Qualify,
           Record, Raises
  <2>6. QED  BY <2>1, <2>2, <2>3, <2>4, <2>5
<1>2. QED  BY <1>1 DEF Facts!vars, SameEvidence

KnownRows == {l \in Launches : row[l].qual # "absent"}
VerifiedRows == {l \in Launches : row[l].verified}
DisputedRows == {l \in Launches : row[l].conflict}

LEMMA DisputeSays ==
    ASSUME NEW r \in Row, r.qual # "absent"
    PROVE  /\ Disputed(r).conflict /\ Disputed(r).qual # "absent"
           /\ Disputed(r).verified = r.verified
  BY DEF Disputed, Row, Retryable

LEMMA DetectSays ==
    ASSUME IInv, NEW l \in Launches, Detect(l) PROVE Facts!Next
<1>1. row \in [Launches -> Row]
  BY DEF IInv, TypeOK
<1>2. \A k \in Launches :
         /\ row'[k].qual # "absent" <=> (row[k].qual # "absent" \/ k = l)
         /\ row'[k].verified = row[k].verified /\ row'[k].conflict = row[k].conflict
  BY <1>1 DEF Detect, Row
<1>3. KnownRows' = KnownRows \cup {l} /\ VerifiedRows' = VerifiedRows /\ DisputedRows' = DisputedRows
  BY <1>2 DEF KnownRows, VerifiedRows, DisputedRows
<1>4. Facts!Detect(l)
  BY <1>3 DEF Facts!Detect, KnownRows, VerifiedRows, DisputedRows
<1>5. QED  BY <1>4 DEF Facts!Next

LEMMA ContradictSays ==
    ASSUME IInv, NEW l \in Launches, Contradict(l) PROVE Facts!Next
<1>1. row \in [Launches -> Row] /\ row[l].qual # "absent"
  BY DEF IInv, TypeOK, Contradict
<1>2. row'[l] = Disputed(row[l]) /\ \A k \in Launches : k # l => row'[k] = row[k]
  BY <1>1 DEF Contradict
<1>3. KnownRows' = KnownRows /\ VerifiedRows' = VerifiedRows /\ DisputedRows' = DisputedRows \cup {l}
  BY <1>1, <1>2, DisputeSays DEF KnownRows, VerifiedRows, DisputedRows
<1>4. Facts!Dispute(l)
  BY <1>1, <1>3 DEF Facts!Dispute, KnownRows, VerifiedRows, DisputedRows
<1>5. QED  BY <1>4 DEF Facts!Next

LEMMA SealSays ==
    ASSUME IInv, NEW checked, NEW good \in SUBSET Uncompared,
           NEW extra \in SUBSET Uncompared, SealEpoch(checked, good, extra)
    PROVE  Facts!Next
<1>1. row \in [Launches -> Row] /\ good \cap extra = {}
  BY DEF IInv, TypeOK, SealEpoch
<1>2. Uncompared = KnownRows \ VerifiedRows
  BY DEF Uncompared, KnownRows, VerifiedRows
<1>3. \A k \in Launches :
         /\ row'[k].qual # "absent" <=> row[k].qual # "absent"
         /\ row'[k].verified <=> (row[k].verified \/ k \in good)
         /\ row'[k].conflict <=> (row[k].conflict \/ k \in extra)
  <2>1. SUFFICES ASSUME NEW k \in Launches PROVE <1>3!(k)
    OBVIOUS
  <2>2. CASE k \in good
    <3>1. row'[k] = [row[k] EXCEPT !.verified = TRUE] /\ k \notin extra
      BY <1>1, <2>2 DEF SealEpoch
    <3>2. QED  BY <1>1, <2>2, <3>1 DEF Row
  <2>3. CASE k \in extra
    <3>1. row'[k] = Disputed(row[k]) /\ k \notin good /\ row[k].qual # "absent"
      BY <1>1, <2>3 DEF SealEpoch, Uncompared
    <3>2. QED  BY <1>1, <2>3, <3>1, DisputeSays
  <2>4. CASE k \notin good /\ k \notin extra
    BY <2>4 DEF SealEpoch
  <2>5. QED  BY <2>2, <2>3, <2>4
<1>4. good \subseteq Launches /\ extra \subseteq Launches
  BY DEF Uncompared
<1>5. KnownRows' = KnownRows /\ VerifiedRows' = VerifiedRows \cup good /\ DisputedRows' = DisputedRows \cup extra
  BY <1>3, <1>4 DEF KnownRows, VerifiedRows, DisputedRows
<1>6. QED
  BY <1>1, <1>2, <1>5 DEF Facts!Next, Facts!Seal, KnownRows, VerifiedRows, DisputedRows

LEMMA EvidenceStep == IInv /\ [Next]_vars => [Facts!Next]_Facts!vars
<1> SUFFICES ASSUME IInv, [Next]_vars PROVE [Facts!Next]_Facts!vars
  OBVIOUS
<1>1. CASE Tick \/ HealthChanges \/ UNCHANGED vars
  BY <1>1 DEF Tick, HealthChanges, vars, Facts!vars
<1>2. QED
  BY <1>1, ScansSayNothing, DetectSays, ContradictSays, SealSays DEF Next, SourceNext

\* The evidence the cohort is enrolled on is the evidence the reconciler stores:
\* both modules implement the same account of it.
THEOREM EnrollmentImplementsEvidence == Spec => ImplementsEvidence
<1>1. Init => Facts!Init
  BY DEF Init, NoRow, Facts!Init
<1>2. QED
  BY <1>1, EvidenceStep, EnrollmentInvariant, PTL DEF Spec, ImplementsEvidence, Facts!Spec
=============================================================================
