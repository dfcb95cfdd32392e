-------------------------- MODULE StreamLaneProofs --------------------------
(***************************************************************************)
(* Proofs that a lane never skips a slot silently, for every MaxCursor,    *)
(* every set of produced slots and every budget.                           *)
(***************************************************************************)
EXTENDS StreamLane, SequenceTheorems, TLAPS

-----------------------------------------------------------------------------
(* What the updates of table gaps do to it, row by row.                    *)

LEMMA ClosedRows ==
    ASSUME gaps \in Seq(Gap), NEW id \in DOMAIN gaps
    PROVE  /\ Closed(id) \in Seq(Gap)
           /\ DOMAIN Closed(id) = DOMAIN gaps
           /\ \A i \in DOMAIN gaps :
                 /\ Closed(id)[i].lo = gaps[i].lo
                 /\ Closed(id)[i].hi = gaps[i].hi
                 /\ i # id => Closed(id)[i] = gaps[i]
           /\ ~Closed(id)[id].open
<1> DEFINE row == [gaps[id] EXCEPT !.open = FALSE, !.due = TRUE]
<1>1. /\ gaps[id] \in Gap
      /\ id \in 1 .. Len(gaps)
  BY LenProperties, ElementOfSeq
<1>2. row \in Gap
  BY <1>1 DEF Gap
<1>3. Closed(id) = [gaps EXCEPT ![id] = row]
  BY DEF Closed
<1> HIDE DEF row
<1>4. /\ [gaps EXCEPT ![id] = row] \in Seq(Gap)
      /\ DOMAIN [gaps EXCEPT ![id] = row] = DOMAIN gaps
      /\ \A i \in DOMAIN gaps :
            [gaps EXCEPT ![id] = row][i] = IF i = id THEN row ELSE gaps[i]
  BY <1>1, <1>2, ExceptSeq, LenProperties
<1>5. row.lo = gaps[id].lo /\ row.hi = gaps[id].hi /\ ~row.open
  BY <1>1 DEF row, Gap
<1>6. QED
  BY <1>1, <1>3, <1>4, <1>5

LEMMA TrimmedRows ==
    ASSUME gaps \in Seq(Gap), NEW id \in DOMAIN gaps, NEW t \in Nat, t + 1 \in Slots
    PROVE  /\ Trimmed(id, t) \in Seq(Gap)
           /\ DOMAIN Trimmed(id, t) = DOMAIN gaps
           /\ \A i \in DOMAIN gaps :
                 /\ Trimmed(id, t)[i].lo = IF i = id THEN t + 1 ELSE gaps[i].lo
                 /\ Trimmed(id, t)[i].hi = gaps[i].hi
                 /\ Trimmed(id, t)[i].open = gaps[i].open
<1> DEFINE row == [gaps[id] EXCEPT !.lo = t + 1, !.due = TRUE]
<1>1. /\ gaps[id] \in Gap
      /\ id \in 1 .. Len(gaps)
  BY LenProperties, ElementOfSeq
<1>2. row \in Gap
  BY <1>1 DEF Gap
<1>3. Trimmed(id, t) = [gaps EXCEPT ![id] = row]
  BY DEF Trimmed
<1> HIDE DEF row
<1>4. /\ [gaps EXCEPT ![id] = row] \in Seq(Gap)
      /\ DOMAIN [gaps EXCEPT ![id] = row] = DOMAIN gaps
      /\ \A i \in DOMAIN gaps :
            [gaps EXCEPT ![id] = row][i] = IF i = id THEN row ELSE gaps[i]
  BY <1>1, <1>2, ExceptSeq, LenProperties
<1>5. QED
  BY <1>1, <1>3, <1>4 DEF row, Gap

LEMMA RetryingRows ==
    ASSUME gaps \in Seq(Gap), NEW id \in DOMAIN gaps, NEW b \in BOOLEAN
    PROVE  /\ Retrying(id, b) \in Seq(Gap)
           /\ DOMAIN Retrying(id, b) = DOMAIN gaps
           /\ \A i \in DOMAIN gaps :
                 /\ Retrying(id, b)[i].lo = gaps[i].lo
                 /\ Retrying(id, b)[i].hi = gaps[i].hi
                 /\ Retrying(id, b)[i].open = gaps[i].open
<1> DEFINE row == [gaps[id] EXCEPT !.due = b]
<1>1. /\ gaps[id] \in Gap
      /\ id \in 1 .. Len(gaps)
  BY LenProperties, ElementOfSeq
<1>2. row \in Gap
  BY <1>1 DEF Gap
<1>3. Retrying(id, b) = [gaps EXCEPT ![id] = row]
  BY DEF Retrying
<1> HIDE DEF row
<1>4. /\ [gaps EXCEPT ![id] = row] \in Seq(Gap)
      /\ DOMAIN [gaps EXCEPT ![id] = row] = DOMAIN gaps
      /\ \A i \in DOMAIN gaps :
            [gaps EXCEPT ![id] = row][i] = IF i = id THEN row ELSE gaps[i]
  BY <1>1, <1>2, ExceptSeq, LenProperties
<1>5. QED
  BY <1>1, <1>3, <1>4 DEF row, Gap

LEMMA AppendedRows ==
    ASSUME gaps \in Seq(Gap), NEW r \in Gap
    PROVE  /\ Append(gaps, r) \in Seq(Gap)
           /\ DOMAIN Append(gaps, r) = DOMAIN gaps \cup {Len(gaps) + 1}
           /\ Len(gaps) + 1 \notin DOMAIN gaps
           /\ \A i \in DOMAIN gaps : Append(gaps, r)[i] = gaps[i]
           /\ Append(gaps, r)[Len(gaps) + 1] = r
OBVIOUS

-----------------------------------------------------------------------------
(***************************************************************************)
(* The inductive invariant.  NoSlotSkipped needs to know that gap rows lie  *)
(* below the cursor (so that INSERT OR IGNORE never meets an old row),     *)
(* that what the reader or the worker is about to settle was loaded        *)
(* before, and that the worker's copy of an open gap is current.           *)
(***************************************************************************)
GapsBelowCursor ==
    \A i \in DOMAIN gaps : gaps[i].lo <= gaps[i].hi /\ gaps[i].hi < cursor

FirstSet == (first = None <=> cursor = None) /\ first <= cursor

ReportedSound ==
    /\ reader \in {"backfilling", "filled"} =>
          /\ reported.id \in DOMAIN gaps
          /\ 0 < reported.lo /\ reported.lo <= gaps[reported.id].lo
          /\ reported.hi = gaps[reported.id].hi
    /\ reader = "filled" =>
          \A s \in Slots : reported.lo <= s /\ s <= reported.hi => s \in loaded

WorkerSound ==
    /\ worker = "proving" => budget > 0
    /\ \A q \in queue : q.id \in DOMAIN gaps /\ 0 < q.lo
    /\ worker \in {"proving", "proved"} =>
          /\ target.id \in DOMAIN gaps /\ 0 < slot
          /\ \A q \in queue : q.id = target.id => ~gaps[q.id].open
    /\ worker = "proved" =>
          \A s \in Produced : slot <= s /\ s <= verified => s \in loaded

IInv ==
    /\ TypeOK
    /\ GapsBelowCursor
    /\ FirstSet
    /\ ReportedSound
    /\ WorkerSound
    /\ WorkerViewCurrent
    /\ NoSlotSkipped
    /\ LiveOwesNothing

-----------------------------------------------------------------------------
(* What one transaction of the health store does to gap id: the slots it   *)
(* writes off are in D.                                                    *)

Repair(id, D) ==
    /\ HealthType'
    /\ LiveOwesNothing'
    /\ cursor' = cursor
    /\ DOMAIN gaps' = DOMAIN gaps
    /\ \A i \in DOMAIN gaps :
          /\ gaps'[i].hi = gaps[i].hi
          /\ gaps[i].lo <= gaps'[i].lo /\ gaps'[i].lo <= gaps[i].hi
          /\ gaps'[i].open => gaps[i].open
          /\ i # id => gaps'[i].lo = gaps[i].lo /\ gaps'[i].open = gaps[i].open
    /\ \A s \in Slots :
          id \in DOMAIN gaps /\ gaps[id].open /\ gaps[id].lo <= s /\ s <= gaps[id].hi =>
             s \in D \/ (gaps'[id].open /\ gaps'[id].lo <= s)

LEMMA GapRows ==
    ASSUME NEW g \in Seq(Gap)
    PROVE  \A i \in DOMAIN g :
              /\ g[i].lo \in Slots /\ g[i].hi \in Slots
              /\ g[i].open \in BOOLEAN
<1>1. \A i \in DOMAIN g : g[i] \in Gap
  BY LenProperties, ElementOfSeq
<1>2. QED
  BY <1>1 DEF Gap

\* A transaction that finds the gap closed changes nothing.
LEMMA UnchangedRepairs ==
    ASSUME IInv, UNCHANGED health, NEW id, NEW D
    PROVE  Repair(id, D)
<1>1. HealthType' /\ LiveOwesNothing'
  BY DEF IInv, TypeOK, HealthType, LiveOwesNothing, OpenIn, health
<1>2. \A i \in DOMAIN gaps : gaps[i].lo <= gaps[i].hi /\ gaps[i].lo \in Nat
  BY GapRows DEF IInv, TypeOK, HealthType, GapsBelowCursor, Slots
<1>3. QED
  BY <1>1, <1>2 DEF Repair, health

LEMMA ResolveRepairs ==
    ASSUME IInv, NEW id \in DOMAIN gaps, ResolveTx(id)
    PROVE  Repair(id, gaps[id].lo .. gaps[id].hi)
<1>1. CASE IsOpen(id)
  <2>1. gaps' = Closed(id) /\ status' = StatusAfterRepair(gaps') /\ cursor' = cursor
    BY <1>1 DEF ResolveTx
  <2>2. gaps \in Seq(Gap) /\ cursor \in Slots \cup {None} /\ status \in Statuses
    BY DEF IInv, TypeOK, HealthType
  <2>3. HealthType'
    BY <2>1, <2>2, ClosedRows DEF HealthType, StatusAfterRepair, Statuses
  <2>4. LiveOwesNothing'
    BY <2>1 DEF LiveOwesNothing, StatusAfterRepair
  <2>5. \A i \in DOMAIN gaps : gaps[i].lo <= gaps[i].hi /\ gaps[i].lo \in Nat /\ gaps[i].hi \in Nat
    BY <2>2, GapRows DEF IInv, GapsBelowCursor, Slots
  <2>6. /\ DOMAIN gaps' = DOMAIN gaps
        /\ \A i \in DOMAIN gaps :
              /\ gaps'[i].lo = gaps[i].lo /\ gaps'[i].hi = gaps[i].hi
              /\ i # id => gaps'[i] = gaps[i]
        /\ ~gaps'[id].open
    BY <2>1, <2>2, ClosedRows
  <2>7. QED
    BY <2>1, <2>3, <2>4, <2>5, <2>6 DEF Repair, Slots
<1>2. CASE ~IsOpen(id)
  BY <1>2, UnchangedRepairs DEF ResolveTx
<1>3. QED
  BY <1>1, <1>2

LEMMA AdvanceRepairs ==
    ASSUME IInv, NEW id \in DOMAIN gaps, NEW t \in Nat, AdvanceTx(id, t)
    PROVE  Repair(id, gaps[id].lo .. t)
<1>1. CASE Advances(id, t)
  <2>1. /\ gaps' = IF t >= gaps[id].hi THEN Closed(id) ELSE Trimmed(id, t)
        /\ status' = StatusAfterRepair(gaps') /\ cursor' = cursor
        /\ t >= gaps[id].lo
    BY <1>1 DEF AdvanceTx, Advances
  <2>2. gaps \in Seq(Gap) /\ cursor \in Slots \cup {None} /\ status \in Statuses
    BY DEF IInv, TypeOK, HealthType
  <2>3. \A i \in DOMAIN gaps : /\ gaps[i].lo <= gaps[i].hi
                               /\ gaps[i].lo \in Slots /\ gaps[i].hi \in Slots
    BY <2>2, GapRows DEF IInv, GapsBelowCursor
  <2>4. t >= gaps[id].hi \/ t + 1 \in Slots
    BY <2>3, MaxCursorAssumption DEF Slots, MaxCursorAssumption
  <2>5. LiveOwesNothing'
    BY <2>1 DEF LiveOwesNothing, StatusAfterRepair
  <2>6. CASE t >= gaps[id].hi
    <3>1. gaps' = Closed(id)
      BY <2>1, <2>6
    <3>2. HealthType'
      BY <2>1, <2>2, <3>1, ClosedRows DEF HealthType, StatusAfterRepair, Statuses
    <3>3. /\ DOMAIN gaps' = DOMAIN gaps
          /\ \A i \in DOMAIN gaps :
                /\ gaps'[i].lo = gaps[i].lo /\ gaps'[i].hi = gaps[i].hi
                /\ i # id => gaps'[i] = gaps[i]
          /\ ~gaps'[id].open
      BY <2>2, <3>1, ClosedRows
    <3>4. QED
      BY <2>1, <2>3, <2>5, <2>6, <3>2, <3>3 DEF Repair, Slots
  <2>7. CASE ~(t >= gaps[id].hi)
    <3>1. gaps' = Trimmed(id, t) /\ t + 1 \in Slots
      BY <2>1, <2>4, <2>7
    <3>2. HealthType'
      BY <2>1, <2>2, <3>1, TrimmedRows DEF HealthType, StatusAfterRepair, Statuses
    <3>3. /\ DOMAIN gaps' = DOMAIN gaps
          /\ \A i \in DOMAIN gaps :
                /\ gaps'[i].lo = IF i = id THEN t + 1 ELSE gaps[i].lo
                /\ gaps'[i].hi = gaps[i].hi /\ gaps'[i].open = gaps[i].open
      BY <2>2, <3>1, TrimmedRows
    <3>4. QED
      BY <2>1, <2>3, <2>5, <2>7, <3>2, <3>3 DEF Repair, Slots
  <2>8. QED
    BY <2>6, <2>7
<1>2. CASE ~Advances(id, t)
  BY <1>2, UnchangedRepairs DEF AdvanceTx
<1>3. QED
  BY <1>1, <1>2

LEMMA RetryingRepairs ==
    ASSUME IInv, NEW id \in DOMAIN gaps, NEW b \in BOOLEAN,
           gaps' = Retrying(id, b), UNCHANGED <<cursor, status>>
    PROVE  /\ Repair(id, {})
           /\ \A i \in DOMAIN gaps : /\ gaps'[i].lo = gaps[i].lo
                                     /\ gaps'[i].open = gaps[i].open
<1>1. gaps \in Seq(Gap) /\ cursor \in Slots \cup {None} /\ status \in Statuses
  BY DEF IInv, TypeOK, HealthType
<1>2. \A i \in DOMAIN gaps : /\ gaps[i].lo <= gaps[i].hi
                             /\ gaps[i].lo \in Nat /\ gaps[i].hi \in Nat
  BY <1>1, GapRows DEF IInv, GapsBelowCursor, Slots
<1>3. HealthType'
  BY <1>1, RetryingRows DEF HealthType
<1>4. LiveOwesNothing'
  BY <1>1, RetryingRows DEF LiveOwesNothing, OpenIn, IInv
<1>5. QED
  BY <1>1, <1>2, <1>3, <1>4, RetryingRows DEF Repair

\* A repair that writes off only loaded slots keeps the books balanced.
LEMMA RepairKeeps ==
    ASSUME IInv, NEW id, NEW D, Repair(id, D),
           UNCHANGED <<first, reached>>, loaded \subseteq loaded',
           \A s \in D : s \in Produced => s \in loaded
    PROVE  GapsBelowCursor' /\ FirstSet' /\ NoSlotSkipped' /\ LiveOwesNothing'
<1>1. \A i \in DOMAIN gaps : /\ gaps[i].lo \in Slots /\ gaps[i].hi \in Slots
                             /\ gaps'[i].lo \in Slots /\ gaps'[i].hi \in Slots
                             /\ gaps[i].hi < cursor
  BY GapRows DEF IInv, TypeOK, HealthType, Repair, GapsBelowCursor
<1>2. GapsBelowCursor'
  BY <1>1 DEF Repair, GapsBelowCursor, Slots
<1>3. FirstSet'
  BY DEF Repair, FirstSet, IInv
<1>4. ASSUME cursor # None, NEW s \in first .. cursor, s \in Produced
      PROVE  s \in reached' \cup loaded' \cup OwedBy(gaps')
  <2>1. s \in reached \cup loaded \/ s \in OwedBy(gaps)
    BY <1>4 DEF IInv, NoSlotSkipped, Owed
  <2>2. CASE s \in OwedBy(gaps)
    <3>1. PICK i \in DOMAIN gaps : gaps[i].open /\ s \in gaps[i].lo .. gaps[i].hi
      BY <2>2 DEF OwedBy, OpenIn
    <3>2. s \in Slots
      BY <1>4, LaneAssumption DEF LaneAssumption
    <3>3. s \in D \/ (gaps'[i].open /\ s \in gaps'[i].lo .. gaps'[i].hi)
      BY <1>1, <3>1, <3>2 DEF Repair, Slots
    <3>4. CASE s \in D
      BY <1>4, <3>4
    <3>5. CASE gaps'[i].open /\ s \in gaps'[i].lo .. gaps'[i].hi
      BY <3>1, <3>5 DEF OwedBy, OpenIn, Repair
    <3>6. QED
      BY <3>3, <3>4, <3>5
  <2>3. QED
    BY <2>1, <2>2
<1>5. NoSlotSkipped'
  BY <1>4 DEF NoSlotSkipped, Owed, Repair
<1>6. QED
  BY <1>2, <1>3, <1>5 DEF Repair

-----------------------------------------------------------------------------
\* observe() moves the cursor to c and makes the slots it skips owed.
LEMMA ObserveKeeps ==
    ASSUME IInv, Observe
    PROVE  /\ HealthType' /\ GapsBelowCursor' /\ FirstSet' /\ NoSlotSkipped'
           /\ LiveOwesNothing' /\ first' \in Slots \cup {None} /\ reached' \subseteq Slots
           /\ DOMAIN gaps \subseteq DOMAIN gaps'
           /\ \A i \in DOMAIN gaps : gaps'[i] = gaps[i]
           /\ \A i \in DOMAIN gaps' \ DOMAIN gaps :
                 gaps'[i].lo = cursor + 1 /\ gaps'[i].hi = event - 1
<1> DEFINE row == [lo |-> cursor + 1, hi |-> event - 1, open |-> TRUE, due |-> TRUE]
<1>1. /\ gaps \in Seq(Gap) /\ cursor \in Nat /\ cursor \in Slots \cup {None}
      /\ event \in Nat /\ event \in Slots \cup {None}
      /\ status \in Statuses /\ first \in Slots \cup {None} /\ reached \subseteq Slots
  BY DEF IInv, TypeOK, HealthType, Slots, None
<1>2. /\ gaps' = WithGapBefore(event)
      /\ cursor' = IF event > cursor THEN event ELSE cursor
      /\ status' = IF OpenIn(gaps') = {} THEN "live" ELSE "degraded"
      /\ first' = IF first = None THEN event ELSE first
      /\ reached' = reached \cup ({cursor'} \ {None})
      /\ UNCHANGED loaded
  BY DEF Observe, ObserveTx
<1>3. \A i \in DOMAIN gaps : /\ gaps[i].lo \in Slots /\ gaps[i].hi \in Slots
                             /\ gaps[i].lo <= gaps[i].hi /\ gaps[i].hi < cursor
  BY <1>1, GapRows DEF IInv, GapsBelowCursor
<1>4. GapsOver(gaps, cursor + 1, event - 1) = {}
  BY <1>1, <1>3 DEF GapsOver, Slots
<1>5. gaps' = IF SkipsTo(event) THEN Append(gaps, row) ELSE gaps
  BY <1>2, <1>4 DEF WithGapBefore
<1>6. SkipsTo(event) => /\ cursor # None /\ event > cursor + 1 /\ row \in Gap
                        /\ event \in Slots
  <2> SUFFICES ASSUME SkipsTo(event)
               PROVE  /\ cursor # None /\ event > cursor + 1 /\ row \in Gap
                      /\ event \in Slots
    OBVIOUS
  <2>1. cursor # None /\ event > cursor + 1 /\ event \in Slots
    BY <1>1 DEF SkipsTo, None
  <2>2. cursor + 1 \in Slots /\ event - 1 \in Slots
    BY <1>1, <2>1, MaxCursorAssumption DEF MaxCursorAssumption, Slots
  <2>3. QED
    BY <2>1, <2>2 DEF Gap
<1>7. /\ gaps' \in Seq(Gap)
      /\ DOMAIN gaps \subseteq DOMAIN gaps'
      /\ \A i \in DOMAIN gaps : gaps'[i] = gaps[i]
      /\ \A i \in DOMAIN gaps' \ DOMAIN gaps : SkipsTo(event) /\ gaps'[i] = row
      /\ SkipsTo(event) => Len(gaps) + 1 \in DOMAIN gaps' /\ gaps'[Len(gaps) + 1] = row
  <2>1. CASE SkipsTo(event)
    <3> HIDE DEF row
    <3>1. QED
      BY <1>1, <1>5, <1>6, <2>1, AppendedRows
  <2>2. CASE ~SkipsTo(event)
    BY <1>1, <1>5, <2>2
  <2>3. QED
    BY <2>1, <2>2
<1>8. HealthType'
  BY <1>1, <1>2, <1>7 DEF HealthType, Statuses
<1>9. LiveOwesNothing'
  BY <1>2 DEF LiveOwesNothing
<1>10. GapsBelowCursor'
  <2> SUFFICES ASSUME NEW i \in DOMAIN gaps'
               PROVE  gaps'[i].lo <= gaps'[i].hi /\ gaps'[i].hi < cursor'
    BY DEF GapsBelowCursor
  <2>1. CASE i \in DOMAIN gaps
    BY <1>1, <1>2, <1>3, <1>7, <2>1 DEF Slots
  <2>2. CASE i \notin DOMAIN gaps
    BY <1>1, <1>2, <1>6, <1>7, <2>2
  <2>3. QED
    BY <2>1, <2>2
<1>11. FirstSet' /\ first' \in Slots \cup {None} /\ reached' \subseteq Slots
  BY <1>1, <1>2 DEF FirstSet, IInv, None, Slots
<1>12. ASSUME cursor' # None, NEW s \in first' .. cursor', s \in Produced
       PROVE  s \in reached' \cup loaded' \cup OwedBy(gaps')
  <2>1. s \in Slots /\ first' \in Nat
    BY <1>1, <1>2, <1>12, LaneAssumption DEF LaneAssumption, Slots, None
  <2>2. CASE cursor = None \/ (s > cursor /\ s = event)
    <3>1. s = cursor' /\ s # None
      BY <1>1, <1>2, <1>12, <2>1, <2>2 DEF IInv, FirstSet, None, Slots
    <3>2. QED
      BY <1>2, <3>1
  <2>3. CASE cursor # None /\ s <= cursor
    <3>1. s \in reached \cup loaded \/ s \in OwedBy(gaps)
      BY <1>1, <1>2, <1>12, <2>1, <2>3 DEF IInv, FirstSet, NoSlotSkipped, Owed, None, Slots
    <3>2. CASE s \in OwedBy(gaps)
      BY <1>7, <3>2 DEF OwedBy, OpenIn
    <3>3. QED
      BY <1>2, <3>1, <3>2
  <2>4. CASE cursor # None /\ s > cursor /\ s # event
    <3>1. SkipsTo(event) /\ cursor + 1 <= s /\ s <= event - 1
      BY <1>1, <1>2, <1>12, <2>1, <2>4 DEF SkipsTo, Slots, None
    <3>2. gaps'[Len(gaps) + 1].open /\ s \in gaps'[Len(gaps) + 1].lo .. gaps'[Len(gaps) + 1].hi
      BY <1>1, <1>7, <2>1, <3>1 DEF Slots
    <3>3. QED
      BY <1>7, <3>1, <3>2 DEF OwedBy, OpenIn
  <2>5. QED
    BY <1>1, <2>1, <2>2, <2>3, <2>4 DEF Slots
<1>13. NoSlotSkipped'
  BY <1>12 DEF NoSlotSkipped, Owed
<1>14. QED
  BY <1>7, <1>8, <1>9, <1>10, <1>11, <1>13

-----------------------------------------------------------------------------
(* Every step preserves the inductive invariant.                           *)

HealthInv == GapsBelowCursor /\ FirstSet /\ NoSlotSkipped /\ LiveOwesNothing

\* A step that leaves the books alone and only stores evidence.
LEMMA BooksKept ==
    ASSUME IInv, UNCHANGED <<health, first, reached>>, loaded \subseteq loaded'
    PROVE  HealthType' /\ HealthInv'
<1>1. Repair(0, {})
  BY UnchangedRepairs
<1>2. GapsBelowCursor' /\ FirstSet' /\ NoSlotSkipped' /\ LiveOwesNothing'
  BY <1>1, RepairKeeps
<1>3. QED
  BY <1>1, <1>2 DEF HealthInv, Repair

\* The reader moves to a state in which it holds nothing, or waits to observe.
LEMMA ReaderKeeps ==
    ASSUME IInv, UNCHANGED <<health, workerVars, first, reached, loaded>>,
           reader' \in {"idle", "revoking", "dialing", "up", "persisted", "failing"},
           event' \in Slots \cup {None}, reported' \in {reported, NoGap},
           stored' \subseteq Launched
    PROVE  IInv'
<1>1. HealthType' /\ HealthInv'
  BY BooksKept
<1>2. TypeOK'
  BY <1>1 DEF IInv, TypeOK, NoGap, GapView, health, workerVars
<1>3. ReportedSound'
  BY DEF ReportedSound
<1>4. WorkerSound' /\ WorkerViewCurrent'
  BY DEF IInv, WorkerSound, WorkerViewCurrent, IsOpen, OpenIn, health, workerVars
<1>5. QED
  BY <1>1, <1>2, <1>3, <1>4 DEF IInv, HealthInv

\* The reader repairs gap id, or marks the row disconnected, and goes on.
LEMMA ReaderRepairs ==
    ASSUME IInv, NEW id, NEW D, Repair(id, D),
           \A s \in D : s \in Produced => s \in loaded,
           \A i \in DOMAIN gaps : gaps'[i].open => gaps'[i].lo = gaps[i].lo,
           UNCHANGED <<event, workerVars, history>>,
           reported' \in {reported, NoGap},
           reader' \in {"idle", "dialing", "up"}
    PROVE  IInv'
<1>1. HealthType' /\ HealthInv'
  BY RepairKeeps DEF Repair, HealthInv, history
<1>2. TypeOK'
  BY <1>1 DEF IInv, TypeOK, NoGap, GapView, workerVars, history
<1>3. ReportedSound'
  BY DEF ReportedSound
<1>4. WorkerSound'
  BY DEF IInv, WorkerSound, Repair, workerVars, history
<1>5. WorkerViewCurrent'
  BY DEF IInv, WorkerSound, WorkerViewCurrent, Repair, IsOpen, OpenIn, workerVars
<1>6. QED
  BY <1>1, <1>2, <1>3, <1>4, <1>5 DEF IInv, HealthInv

LEMMA MarkDisconnectedRepairs ==
    ASSUME IInv, MarkDisconnectedTx
    PROVE  /\ Repair(0, {})
           /\ \A i \in DOMAIN gaps : gaps'[i].lo = gaps[i].lo
<1>1. HealthType' /\ LiveOwesNothing'
  BY DEF IInv, TypeOK, HealthType, LiveOwesNothing, MarkDisconnectedTx, Statuses
<1>2. \A i \in DOMAIN gaps : gaps[i].lo <= gaps[i].hi /\ gaps[i].lo \in Nat
  BY GapRows DEF IInv, TypeOK, HealthType, GapsBelowCursor, Slots
<1>3. 0 \notin DOMAIN gaps
  BY LenProperties DEF IInv, TypeOK, HealthType
<1>4. QED
  BY <1>1, <1>2, <1>3 DEF Repair, MarkDisconnectedTx

THEOREM InitEstablishes == Init => IInv
<1> SUFFICES ASSUME Init PROVE IInv
  OBVIOUS
<1> USE DEF Init, HealthInit
<1>1. TypeOK
  BY EmptySeq DEF TypeOK, HealthType, GapView, Slots, NoGap, Statuses, None
<1>2. GapsBelowCursor /\ LiveOwesNothing
  BY DEF GapsBelowCursor, LiveOwesNothing
<1>3. FirstSet /\ ReportedSound /\ NoSlotSkipped
  BY DEF FirstSet, ReportedSound, NoSlotSkipped, None
<1>4. WorkerSound /\ WorkerViewCurrent
  BY DEF WorkerSound, WorkerViewCurrent
<1>5. QED
  BY <1>1, <1>2, <1>3, <1>4 DEF IInv

\* What the reader resolves after its inline backfill is loaded.
LEMMA ReportedLoaded ==
    ASSUME IInv, ResolveReported,
           NEW s \in gaps[reported.id].lo .. gaps[reported.id].hi, s \in Produced
    PROVE  s \in loaded
<1>1. reader = "filled"
  BY DEF ResolveReported, ReaderMoves
<1>2. /\ reported.id \in DOMAIN gaps
      /\ reported.lo <= gaps[reported.id].lo /\ reported.hi = gaps[reported.id].hi
      /\ \A t \in Slots : reported.lo <= t /\ t <= reported.hi => t \in loaded
  BY <1>1 DEF IInv, ReportedSound
<1>3. s \in Slots /\ reported.lo \in Nat /\ gaps[reported.id].lo \in Nat
  BY <1>2, GapRows, LaneAssumption DEF LaneAssumption, IInv, TypeOK, HealthType, GapView, Slots
<1>4. QED
  BY <1>2, <1>3 DEF Slots

LEMMA ReaderStep == ASSUME IInv, ReaderNext PROVE IInv'
<1>0. /\ event \in Slots \cup {None} /\ None \in Slots \cup {None}
      /\ stored \subseteq Launched
  BY DEF IInv, TypeOK, history
<1>1. CASE \/ ReadHealth \/ Connect \/ ConnectFails \/ ReceiveFails \/ SkipHealth
           \/ ObserveFails \/ BackfillFails \/ ResolveFails \/ RecordDisconnectFails
  <2>1. /\ UNCHANGED <<health, workerVars, history>>
        /\ event' \in {event, None} /\ reported' \in {reported, NoGap}
        /\ reader' \in {"idle", "revoking", "dialing", "up", "failing"}
    BY <1>1 DEF ReadHealth, Connect, ConnectFails, ReceiveFails, SkipHealth, ObserveFails,
                BackfillFails, ResolveFails, RecordDisconnectFails, ReaderMoves, Dials
  <2>2. QED
    BY <1>0, <2>1, ReaderKeeps DEF history
<1>2. CASE (\E c \in Slots \cup {None} : Receive(c)) \/ (\E s \in Launched : ReceiveLog(s))
  <2>1. /\ UNCHANGED <<health, reported, workerVars, first, reached, loaded>>
        /\ reader' = "persisted" /\ event' \in Slots \cup {None}
        /\ stored' \subseteq Launched
    BY <1>0, <1>2 DEF Receive, ReceiveLog, ReaderMoves, history
  <2>2. QED
    BY <2>1, ReaderKeeps
<1>3. CASE Observe
  <2>1. /\ HealthType' /\ HealthInv' /\ first' \in Slots \cup {None} /\ reached' \subseteq Slots
        /\ DOMAIN gaps \subseteq DOMAIN gaps'
        /\ \A i \in DOMAIN gaps : gaps'[i] = gaps[i]
        /\ \A i \in DOMAIN gaps' \ DOMAIN gaps :
              gaps'[i].lo = cursor + 1 /\ gaps'[i].hi = event - 1
    BY <1>3, ObserveKeeps DEF HealthInv
  <2>2. /\ reader' \in {"up", "backfilling"}
        /\ event' = None
        /\ UNCHANGED <<workerVars, stored, loaded>>
    BY <1>3 DEF Observe
  <2>3. /\ reader' = "backfilling" =>
              /\ reported'.id \in DOMAIN gaps'
              /\ reported'.lo = gaps'[reported'.id].lo
              /\ reported'.hi = gaps'[reported'.id].hi
        /\ reported' \in GapView
    <3>1. CASE SkipsTo(event) /\ InlineBackfill
      <4>1. PICK i \in GapsOver(gaps', cursor + 1, event - 1) :
               reported' = [id |-> i, lo |-> cursor + 1, hi |-> event - 1]
        BY <1>3, <3>1 DEF Observe
      <4>2. /\ i \in DOMAIN gaps' /\ i \in Nat
            /\ gaps'[i].lo = cursor + 1 /\ gaps'[i].hi = event - 1
        BY <2>1, <4>1, LenProperties DEF GapsOver, HealthType
      <4>3. cursor + 1 \in Slots /\ event - 1 \in Slots
        BY <3>1, <1>0, MaxCursorAssumption
           DEF MaxCursorAssumption, SkipsTo, IInv, TypeOK, HealthType, Slots, None
      <4>4. QED
        BY <4>1, <4>2, <4>3 DEF GapView, Slots
    <3>2. CASE ~(SkipsTo(event) /\ InlineBackfill)
      BY <1>3, <3>2 DEF Observe, IInv, TypeOK
    <3>3. QED
      BY <3>1, <3>2
  <2>4. TypeOK'
    BY <1>0, <2>1, <2>2, <2>3 DEF IInv, TypeOK, workerVars
  <2>5. ReportedSound'
    <3>1. reader' = "backfilling" =>
             0 < reported'.lo /\ reported'.lo <= gaps'[reported'.id].lo
      <4>1. reader' = "backfilling" => reported'.lo = cursor + 1 /\ cursor \in Nat
        BY <1>3, <1>0 DEF Observe, SkipsTo, IInv, TypeOK, HealthType, Slots, None
      <4>2. QED
        BY <2>3, <4>1 DEF GapView, Slots
    <3>2. QED
      BY <2>2, <2>3, <3>1 DEF ReportedSound
  <2>6. WorkerSound'
    BY <2>1, <2>2 DEF IInv, WorkerSound, workerVars
  <2>7. WorkerViewCurrent'
    BY <2>1, <2>2 DEF IInv, WorkerSound, WorkerViewCurrent, IsOpen, OpenIn, workerVars
  <2>8. QED
    BY <2>1, <2>4, <2>5, <2>6, <2>7 DEF IInv, HealthInv
<1>4. CASE Backfill
  <2>1. /\ reader' = "filled" /\ reader = "backfilling"
        /\ UNCHANGED <<health, event, reported, workerVars, first, reached, stored>>
        /\ loaded' = loaded \cup (reported.lo .. reported.hi)
    BY <1>4 DEF Backfill, ReaderMoves
  <2>2. /\ reported.lo \in Nat /\ reported.hi \in Nat
        /\ reported.id \in DOMAIN gaps
        /\ reported.lo <= gaps[reported.id].lo /\ reported.hi = gaps[reported.id].hi
    BY <2>1 DEF IInv, TypeOK, GapView, Slots, ReportedSound
  <2>3. loaded' \subseteq Slots
    <3>1. reported.hi \in Slots
      BY <2>2, GapRows DEF IInv, TypeOK, HealthType
    <3>2. 0 < reported.lo
      BY <2>1 DEF IInv, ReportedSound
    <3>3. reported.lo .. reported.hi \subseteq Slots
      BY <2>2, <3>1, <3>2, MaxCursorAssumption DEF MaxCursorAssumption, Slots
    <3>4. QED
      BY <2>1, <3>3 DEF IInv, TypeOK
  <2>4. HealthType' /\ HealthInv'
    BY <2>1, BooksKept
  <2>5. TypeOK'
    BY <2>1, <2>3, <2>4 DEF IInv, TypeOK, workerVars
  <2>6. ReportedSound'
    <3>1. \A s \in Slots : reported.lo <= s /\ s <= reported.hi => s \in loaded'
      BY <2>1, <2>2 DEF Slots
    <3>2. 0 < reported.lo
      BY <2>1 DEF IInv, ReportedSound
    <3>3. QED
      BY <2>1, <2>2, <3>1, <3>2 DEF ReportedSound, health
  <2>7. WorkerSound' /\ WorkerViewCurrent'
    BY <2>1 DEF IInv, WorkerSound, WorkerViewCurrent, IsOpen, OpenIn, health, workerVars
  <2>8. QED
    BY <2>4, <2>5, <2>6, <2>7 DEF IInv, HealthInv
<1>5. CASE ResolveReported
  <2>1. /\ reader = "filled" /\ reader' = "up" /\ ResolveTx(reported.id)
        /\ reported' = NoGap /\ UNCHANGED <<event, workerVars, history>>
    BY <1>5 DEF ResolveReported, ReaderMoves
  <2>2. /\ reported.id \in DOMAIN gaps
        /\ reported.lo <= gaps[reported.id].lo /\ reported.hi = gaps[reported.id].hi
        /\ \A s \in Slots : reported.lo <= s /\ s <= reported.hi => s \in loaded
    BY <2>1 DEF IInv, ReportedSound
  <2>3. Repair(reported.id, gaps[reported.id].lo .. gaps[reported.id].hi)
    BY <2>1, <2>2, ResolveRepairs
  <2>4. \A s \in gaps[reported.id].lo .. gaps[reported.id].hi :
           s \in Produced => s \in loaded
    BY <1>5, ReportedLoaded
  <2>5. \A i \in DOMAIN gaps : gaps'[i].open => gaps'[i].lo = gaps[i].lo
    <3>1. gaps \in Seq(Gap)
      BY DEF IInv, TypeOK, HealthType
    <3>2. CASE IsOpen(reported.id)
      BY <2>1, <2>2, <3>1, <3>2, ClosedRows DEF ResolveTx
    <3>3. CASE ~IsOpen(reported.id)
      BY <2>1, <3>3 DEF ResolveTx, health
    <3>4. QED
      BY <3>2, <3>3
  <2>6. QED
    BY <2>1, <2>3, <2>4, <2>5, ReaderRepairs
<1>6. CASE RecordDisconnect \/ RevokeLiveClaim
  <2>1. /\ MarkDisconnectedTx /\ reader' \in {"idle", "dialing"}
        /\ UNCHANGED <<event, reported, workerVars, history>>
    BY <1>6 DEF RecordDisconnect, RevokeLiveClaim, ReaderMoves
  <2>2. QED
    BY <2>1, MarkDisconnectedRepairs, ReaderRepairs
<1>7. QED
  BY <1>1, <1>2, <1>3, <1>4, <1>5, <1>6 DEF ReaderNext

\* A failed proof or checkpoint loses nothing the worker or the table knew.
LEMMA GivingUpKeeps ==
    ASSUME IInv, GivesUpOnGap, worker \in {"proving", "proved"},
           UNCHANGED <<readerVars, history>>,
           queue' \subseteq queue, budget' \in Nat
    PROVE  IInv'
<1>1. target.id \in DOMAIN gaps /\ gaps \in Seq(Gap)
  BY DEF IInv, TypeOK, HealthType, WorkerSound
<1>2. /\ Repair(target.id, {})
      /\ \A i \in DOMAIN gaps : /\ gaps'[i].lo = gaps[i].lo
                                /\ gaps'[i].open = gaps[i].open
  <2>1. CASE DeferTx(target.id) /\ IsOpen(target.id)
    BY <1>1, <2>1, RetryingRepairs DEF DeferTx
  <2>2. CASE UNCHANGED health
    BY <2>2, UnchangedRepairs DEF health
  <2>3. QED
    BY <2>1, <2>2 DEF GivesUpOnGap, DeferTx, health
<1>3. HealthType' /\ HealthInv'
  BY <1>2, RepairKeeps DEF Repair, HealthInv, history
<1>4. /\ worker' \in {"choosing", "abandoned"}
      /\ target' = NoGap /\ slot' = 0 /\ verified' = 0
  BY DEF GivesUpOnGap, LeavesGap
<1>5. TypeOK'
  BY <1>3, <1>4 DEF IInv, TypeOK, NoGap, GapView, readerVars, history
<1>6. ReportedSound'
  BY <1>2 DEF IInv, ReportedSound, Repair, readerVars, history
<1>7. WorkerSound' /\ WorkerViewCurrent'
  BY <1>2, <1>4 DEF IInv, WorkerSound, WorkerViewCurrent, Repair, IsOpen, OpenIn
<1>8. QED
  BY <1>3, <1>5, <1>6, <1>7 DEF IInv, HealthInv

\* A step of the worker that touches neither the reader nor the health store.
LEMMA WorkerMoves ==
    ASSUME IInv, UNCHANGED <<health, readerVars, first, reached, stored>>,
           loaded \subseteq loaded', TypeOK', WorkerSound', WorkerViewCurrent'
    PROVE  IInv'
<1>1. HealthType' /\ HealthInv'
  BY BooksKept
<1>2. ReportedSound'
  BY DEF IInv, ReportedSound, health, readerVars
<1>3. QED
  BY <1>1, <1>2 DEF IInv, HealthInv

\* What the worker's checkpoint writes off is loaded.
LEMMA AdvanceWritesOffLoaded ==
    ASSUME IInv, Advance
    PROVE  \E D : /\ Repair(target.id, D)
                  /\ \A s \in D : s \in Produced => s \in loaded
<1>1. worker = "proved" /\ AdvanceTx(target.id, Checkpoint)
  BY DEF Advance
<1>2. /\ target.id \in DOMAIN gaps /\ target.hi \in Nat /\ slot \in Nat
      /\ verified \in Nat /\ Checkpoint \in Nat /\ Checkpoint <= verified
  BY <1>1 DEF IInv, TypeOK, HealthType, GapView, Slots, WorkerSound, Checkpoint
<1>3. IsOpen(target.id) => gaps[target.id].lo = slot
  BY <1>1 DEF IInv, WorkerViewCurrent
<1>4. CASE IsOpen(target.id)
  <2>1. Repair(target.id, gaps[target.id].lo .. Checkpoint)
    BY <1>1, <1>2, AdvanceRepairs
  <2>2. \A s \in gaps[target.id].lo .. Checkpoint : s \in Produced => s \in loaded
    BY <1>1, <1>2, <1>3, <1>4 DEF IInv, WorkerSound
  <2>3. QED
    BY <2>1, <2>2
<1>5. CASE ~IsOpen(target.id)
  <2>1. UNCHANGED health
    BY <1>1, <1>5 DEF AdvanceTx, Advances
  <2>2. Repair(target.id, {})
    BY <2>1, UnchangedRepairs
  <2>3. QED
    BY <2>2
<1>6. QED
  BY <1>4, <1>5

LEMMA WorkerStep == ASSUME IInv, WorkerNext PROVE IInv'
<1>1. CASE FetchGaps
  <2>1. /\ queue' \subseteq DueGaps /\ worker' = "choosing"
        /\ budget' = IF InlineBackfill THEN FetchLimit ELSE SlotBudget
        /\ UNCHANGED <<health, readerVars, target, slot, verified, history>>
    BY <1>1 DEF FetchGaps
  <2>2. \A q \in DueGaps : /\ q.id \in DOMAIN gaps /\ q \in GapView
                           /\ q.lo = gaps[q.id].lo /\ q.hi = gaps[q.id].hi
                           /\ 0 < q.lo
    <3>1. \A i \in DOMAIN gaps : /\ i \in Nat /\ 0 < gaps[i].lo
                                 /\ gaps[i].lo \in Slots /\ gaps[i].hi \in Slots
      BY GapRows, LenProperties DEF IInv, TypeOK, HealthType, Slots
    <3>2. QED
      BY <3>1 DEF DueGaps, OpenIn, GapView
  <2>3. TypeOK'
    BY <2>1, <2>2, LaneAssumption
       DEF LaneAssumption, IInv, TypeOK, HealthType, health, readerVars, history
  <2>4. WorkerSound' /\ WorkerViewCurrent'
    BY <2>1, <2>2 DEF WorkerSound, WorkerViewCurrent, IsOpen, OpenIn, health
  <2>5. QED
    BY <2>1, <2>3, <2>4, WorkerMoves DEF history
<1>2. CASE TakeGap
  <2>1. PICK g \in queue : target' = g /\ slot' = g.lo /\ queue' = queue \ {g}
    BY <1>2 DEF TakeGap
  <2>2. /\ worker' = "proving" /\ budget > 0
        /\ UNCHANGED <<health, readerVars, verified, budget, history>>
    BY <1>2 DEF TakeGap
  <2>3. g \in GapView /\ queue \subseteq GapView
    BY DEF IInv, TypeOK
  <2>4. TypeOK'
    BY <2>1, <2>2, <2>3 DEF GapView, Slots, IInv, TypeOK, HealthType, health, readerVars, history
  <2>5. \A q \in queue \ {g} : q.id = g.id => ~gaps[q.id].open
    <3> SUFFICES ASSUME NEW q \in queue, q.id = g.id, gaps[q.id].open PROVE q = g
      OBVIOUS
    <3>1. q.lo = g.lo /\ q.hi = g.hi
      BY DEF IInv, WorkerSound, WorkerViewCurrent, IsOpen, OpenIn
    <3>2. QED
      BY <2>3, <3>1 DEF GapView, Slots
  <2>6. WorkerSound' /\ WorkerViewCurrent'
    BY <2>1, <2>2, <2>5 DEF IInv, WorkerSound, WorkerViewCurrent, IsOpen, OpenIn, health
  <2>7. QED
    BY <2>2, <2>4, <2>6, WorkerMoves DEF history
<1>3. CASE Rest
  <2>1. WorkerAsleep /\ UNCHANGED <<health, readerVars, history>>
    BY <1>3 DEF Rest
  <2>2. TypeOK' /\ WorkerSound' /\ WorkerViewCurrent'
    BY <2>1 DEF WorkerAsleep, NoGap, GapView, Slots, IInv, TypeOK, HealthType, WorkerSound,
                WorkerViewCurrent, health, readerVars, history
  <2>3. QED
    BY <2>1, <2>2, WorkerMoves DEF history
<1>4. CASE Prove
  <2>1. PICK v \in Nat, blocks \in SUBSET Slots :
           /\ Proves(v, blocks)
           /\ \A s \in Produced : slot <= s /\ s <= v => s \in blocks
    <3>1. /\ slot \in Nat /\ target \in GapView /\ Produced \subseteq Slots
          /\ ChunkSize \in Nat \ {0}
      BY LaneAssumption DEF LaneAssumption, IInv, TypeOK
    <3>2. CASE ProveChunk
      <4>1. worker = "proving"
        BY <3>2 DEF ProveChunk, Proves
      <4>2. ChunkEnd \in Nat
        BY <3>1 DEF ChunkEnd, GapView, Slots
      <4>3. slot .. ChunkEnd \subseteq Slots
        <5>1. 0 < slot /\ target.hi \in 0 .. MaxCursor
          BY <3>1, <4>1, MaxCursorAssumption
             DEF MaxCursorAssumption, IInv, WorkerSound, GapView, Slots
        <5>2. ChunkEnd <= target.hi
          BY <3>1, <5>1, MaxCursorAssumption DEF MaxCursorAssumption, ChunkEnd
        <5>3. QED
          BY <3>1, <4>2, <5>1, <5>2, MaxCursorAssumption DEF MaxCursorAssumption, Slots
      <4>4. QED
        BY <3>1, <3>2, <4>2, <4>3 DEF ProveChunk, Slots
    <3>3. CASE ProveProduced
      BY <3>1, <3>3 DEF ProveProduced, Slots
    <3>4. CASE ProveSkipped
      <4>1. PICK f \in Produced : slot < f /\ ParentBelow(f, slot) /\ Proves(f - 1, {})
        BY <3>4 DEF ProveSkipped
      <4>2. \A s \in Produced : ~(slot <= s /\ s <= f - 1)
        BY <3>1, <4>1 DEF ParentBelow, Slots
      <4>3. f - 1 \in Nat
        BY <3>1, <4>1 DEF Slots
      <4>4. QED
        BY <4>1, <4>2, <4>3
    <3>5. QED
      BY <1>4, <3>2, <3>3, <3>4 DEF Prove
  <2>2. /\ worker = "proving" /\ worker' = "proved" /\ verified' = v
        /\ loaded' = loaded \cup blocks /\ budget' = budget - 1
        /\ UNCHANGED <<health, readerVars, queue, target, slot, first, reached, stored>>
    BY <2>1 DEF Proves
  <2>3. budget' \in Nat
    BY <2>2 DEF IInv, WorkerSound, TypeOK
  <2>4. TypeOK'
    BY <2>2, <2>3 DEF IInv, TypeOK, HealthType, health, readerVars
  <2>5. WorkerSound' /\ WorkerViewCurrent'
    BY <2>1, <2>2 DEF IInv, WorkerSound, WorkerViewCurrent, IsOpen, OpenIn, health
  <2>6. QED
    BY <2>2, <2>4, <2>5, WorkerMoves
<1>5. CASE ProveFails
  <2>1. /\ worker = "proving" /\ GivesUpOnGap /\ budget' = budget - 1
        /\ queue' \subseteq queue
        /\ UNCHANGED <<readerVars, history>>
    BY <1>5 DEF ProveFails
  <2>2. budget' \in Nat
    BY <2>1 DEF IInv, TypeOK, WorkerSound
  <2>3. QED
    BY <2>1, <2>2, GivingUpKeeps
<1>6. CASE StopProving
  <2>1. /\ worker' = "abandoned"
        /\ target' = NoGap /\ slot' = 0 /\ verified' = 0
        /\ UNCHANGED <<health, readerVars, queue, budget, history>>
    BY <1>6 DEF StopProving, LeavesGap
  <2>2. TypeOK' /\ WorkerSound' /\ WorkerViewCurrent'
    BY <2>1 DEF NoGap, GapView, IInv, TypeOK, HealthType, WorkerSound, WorkerViewCurrent, IsOpen, OpenIn,
                health, readerVars, history
  <2>3. QED
    BY <2>1, <2>2, WorkerMoves DEF history
<1>7. CASE Advance
  <2>1. /\ worker = "proved" /\ AdvanceTx(target.id, Checkpoint)
        /\ InlineBackfill \/ Advances(target.id, Checkpoint)
        /\ UNCHANGED <<readerVars, queue, budget, history>> /\ verified' = 0
        /\ \/ /\ worker' = "proving" /\ slot' = Checkpoint + 1 /\ budget > 0
              /\ ~InlineBackfill /\ Checkpoint < gaps[target.id].hi
              /\ target' = target
           \/ worker' = "choosing" /\ slot' = 0 /\ target' = NoGap
    BY <1>7 DEF Advance, LeavesGap
  <2>2. /\ target.id \in DOMAIN gaps /\ target.hi \in Nat /\ slot \in Nat
        /\ verified \in Nat /\ Checkpoint \in Nat /\ Checkpoint <= verified
        /\ gaps \in Seq(Gap)
    BY <2>1 DEF IInv, TypeOK, HealthType, GapView, Slots, WorkerSound, Checkpoint
  <2>3. IsOpen(target.id) => gaps[target.id].lo = slot /\ gaps[target.id].hi = target.hi
    BY <2>1 DEF IInv, WorkerViewCurrent
  <2>4. PICK D : /\ Repair(target.id, D)
                 /\ \A s \in D : s \in Produced => s \in loaded
    BY <1>7, AdvanceWritesOffLoaded
  <2>5. HealthType' /\ HealthInv'
    BY <2>1, <2>4, RepairKeeps DEF Repair, HealthInv, history
  <2>6. TypeOK'
    BY <2>1, <2>2, <2>5 DEF NoGap, GapView, IInv, TypeOK, readerVars, history
  <2>7. ReportedSound'
    <3>1. \A i \in DOMAIN gaps : gaps[i].lo \in Nat /\ gaps'[i].lo \in Nat
      BY <2>4, <2>5, GapRows DEF IInv, TypeOK, HealthType, Slots, Repair
    <3>2. reported.lo \in Nat
      BY DEF IInv, TypeOK, GapView, Slots
    <3>3. QED
      BY <2>1, <2>4, <3>1, <3>2 DEF IInv, ReportedSound, Repair, readerVars, history
  <2>8. WorkerSound'
    BY <2>1, <2>2, <2>4 DEF IInv, WorkerSound, Repair
  <2>9. WorkerViewCurrent'
    <3>1. \A q \in queue : IsOpen(q.id)' => /\ gaps'[q.id].lo = q.lo
                                            /\ gaps'[q.id].hi = q.hi
      BY <2>1, <2>4 DEF IInv, WorkerSound, WorkerViewCurrent, Repair, IsOpen, OpenIn
    <3>2. worker' = "proving" => /\ target' = target
                                 /\ gaps'[target.id].lo = slot' /\ gaps'[target.id].hi = target.hi
      <4> SUFFICES ASSUME worker' = "proving"
                   PROVE  /\ target' = target
                          /\ gaps'[target.id].lo = slot' /\ gaps'[target.id].hi = target.hi
        OBVIOUS
      <4>1. /\ gaps' = Trimmed(target.id, Checkpoint) /\ slot' = Checkpoint + 1
            /\ IsOpen(target.id) /\ Checkpoint < gaps[target.id].hi
        BY <2>1, <2>2, <2>3 DEF AdvanceTx, Advances
      <4>2. Checkpoint + 1 \in Slots
        BY <2>2, <4>1, GapRows, MaxCursorAssumption DEF MaxCursorAssumption, Slots
      <4>3. QED
        BY <2>1, <2>2, <2>3, <4>1, <4>2, TrimmedRows
    <3>3. QED
      BY <2>1, <3>1, <3>2 DEF WorkerViewCurrent
  <2>10. QED
    BY <2>5, <2>6, <2>7, <2>8, <2>9 DEF IInv, HealthInv
<1>8. CASE AdvanceFails
  <2>1. /\ worker = "proved" /\ GivesUpOnGap
        /\ UNCHANGED <<readerVars, queue, budget, history>>
    BY <1>8 DEF AdvanceFails
  <2>2. QED
    BY <2>1, GivingUpKeeps DEF IInv, TypeOK
<1>9. QED
  BY <1>1, <1>2, <1>3, <1>4, <1>5, <1>6, <1>7, <1>8 DEF WorkerNext

-----------------------------------------------------------------------------
\* A crash forgets what both threads held, which the books never rely on.
LEMMA CrashKeeps == ASSUME IInv, Crash PROVE IInv'
<1>1. /\ UNCHANGED health /\ UNCHANGED <<first, reached, stored, loaded>>
      /\ reader' = "idle" /\ event' = None /\ reported' = NoGap /\ WorkerAsleep
  BY DEF Crash, history
<1>2. HealthType' /\ HealthInv'
  BY <1>1, BooksKept
<1>3. TypeOK' /\ WorkerSound' /\ WorkerViewCurrent'
  BY <1>1, <1>2 DEF WorkerAsleep, NoGap, GapView, IInv, TypeOK, WorkerSound, WorkerViewCurrent, None
<1>4. ReportedSound'
  BY <1>1 DEF ReportedSound
<1>5. QED
  BY <1>2, <1>3, <1>4 DEF IInv, HealthInv

LEMMA TimeKeeps == ASSUME IInv, TimePasses PROVE IInv'
<1>1. PICK i \in DOMAIN gaps : gaps' = Retrying(i, TRUE) /\ UNCHANGED <<cursor, status>>
  BY DEF TimePasses, BecomesDue
<1>2. UNCHANGED <<readerVars, workerVars, history>>
  BY DEF TimePasses
<1>3. /\ Repair(i, {})
      /\ \A j \in DOMAIN gaps : /\ gaps'[j].lo = gaps[j].lo
                                /\ gaps'[j].open = gaps[j].open
  BY <1>1, RetryingRepairs
<1>4. HealthType' /\ HealthInv'
  BY <1>2, <1>3, RepairKeeps DEF Repair, HealthInv, history
<1>5. TypeOK'
  BY <1>2, <1>4 DEF IInv, TypeOK, readerVars, workerVars, history
<1>6. ReportedSound'
  BY <1>2, <1>3 DEF IInv, ReportedSound, Repair, readerVars, history
<1>7. WorkerSound' /\ WorkerViewCurrent'
  BY <1>2, <1>3 DEF IInv, WorkerSound, WorkerViewCurrent, Repair, IsOpen, OpenIn, workerVars, history
<1>8. QED
  BY <1>4, <1>5, <1>6, <1>7 DEF IInv, HealthInv

LEMMA StepPreserves == IInv /\ [Next]_vars => IInv'
<1> SUFFICES ASSUME IInv, [Next]_vars PROVE IInv'
  OBVIOUS
<1>1. CASE Next
  BY <1>1, ReaderStep, WorkerStep, CrashKeeps, TimeKeeps DEF Next
<1>2. CASE UNCHANGED vars
  <2>1. /\ UNCHANGED <<health, readerVars, workerVars, history>>
        /\ UNCHANGED <<first, reached, stored>> /\ loaded \subseteq loaded'
    BY <1>2 DEF vars, health, readerVars, workerVars, history
  <2>2. TypeOK' /\ WorkerSound' /\ WorkerViewCurrent'
    BY <2>1 DEF IInv, TypeOK, HealthType, WorkerSound, WorkerViewCurrent, IsOpen, OpenIn,
                health, readerVars, workerVars, history
  <2>3. QED
    BY <2>1, <2>2, WorkerMoves
<1>3. QED
  BY <1>1, <1>2

THEOREM Inductive == Spec => []IInv
BY InitEstablishes, StepPreserves, PTL DEF Spec

-----------------------------------------------------------------------------
(***************************************************************************)
(* Every variable of a lane keeps its type, whatever the bounds.           *)
(***************************************************************************)
THEOREM LaneTypeCorrect == Spec => []TypeOK
BY Inductive, PTL DEF IInv

(***************************************************************************)
(* A lane never skips a slot silently: the cursor stood at every produced  *)
(* slot up to it, or the slot was loaded, or an open gap owes it, through  *)
(* every interleaving of reader, worker and crash.                         *)
(***************************************************************************)
THEOREM LaneSkipsNoSlot == Spec => []NoSlotSkipped
BY Inductive, PTL DEF IInv

(***************************************************************************)
(* A row that says live stands for a lane without open gaps.               *)
(***************************************************************************)
THEOREM LaneLiveOwesNothing == Spec => []LiveOwesNothing
BY Inductive, PTL DEF IInv

(***************************************************************************)
(* The worker's stale copy of a gap agrees with the table while the gap is *)
(* open.                                                                   *)
(***************************************************************************)
THEOREM LaneWorkerCurrent == Spec => []WorkerViewCurrent
BY Inductive, PTL DEF IInv

-----------------------------------------------------------------------------
(* Each step maps to a step of SlotCoverage.                               *)

LEMMA RepairSettles ==
    ASSUME IInv, NEW id, NEW D, Repair(id, D), UNCHANGED history,
           \A s \in D : s \in Produced => s \in loaded
    PROVE  Coverage!Settle
<1>1. \A i \in DOMAIN gaps : /\ gaps[i].lo \in Slots /\ gaps[i].hi \in Slots
                             /\ gaps'[i].lo \in Slots
  BY GapRows DEF IInv, TypeOK, HealthType, Repair
<1>2. OwedBy(gaps') \subseteq OwedBy(gaps)
  <2> SUFFICES ASSUME NEW i \in DOMAIN gaps', gaps'[i].open,
                      NEW s \in gaps'[i].lo .. gaps'[i].hi
               PROVE  i \in DOMAIN gaps /\ gaps[i].open /\ s \in gaps[i].lo .. gaps[i].hi
    BY DEF OwedBy, OpenIn
  <2>1. QED
    BY <1>1 DEF Repair, Slots
<1>3. ASSUME NEW s \in OwedBy(gaps), s \notin OwedBy(gaps'), s \in Produced
      PROVE  s \in loaded
  <2>1. PICK i \in DOMAIN gaps : gaps[i].open /\ s \in gaps[i].lo .. gaps[i].hi
    BY <1>3 DEF OwedBy, OpenIn
  <2>2. s \in Slots
    BY <1>3, LaneAssumption DEF LaneAssumption
  <2>3. s \in D \/ (gaps'[i].open /\ s \in gaps'[i].lo .. gaps'[i].hi)
    BY <1>1, <2>1, <2>2 DEF Repair, Slots
  <2>4. ~(gaps'[i].open /\ s \in gaps'[i].lo .. gaps'[i].hi)
    BY <1>3, <2>1 DEF OwedBy, OpenIn, Repair
  <2>5. QED
    BY <1>3, <2>3, <2>4
<1>4. QED
  BY <1>2, <1>3 DEF Coverage!Settle, Owed, Repair, history

LEMMA RecoverMaps ==
    ASSUME IInv, UNCHANGED health, loaded \subseteq loaded', TypeOK'
    PROVE  Coverage!Recover
BY DEF Coverage!Recover, Owed, health, TypeOK

LEMMA ObserveMaps ==
    ASSUME IInv, Observe
    PROVE  Coverage!Recover \/ \E c \in Slots : Coverage!Reach(c)
<1> DEFINE row == [lo |-> cursor + 1, hi |-> event - 1, open |-> TRUE, due |-> TRUE]
<1>1. /\ gaps \in Seq(Gap) /\ cursor \in Nat
      /\ event \in Nat /\ event \in Slots \cup {None}
      /\ loaded \subseteq Slots
  BY DEF IInv, TypeOK, HealthType, Slots, None
<1>2. /\ gaps' = WithGapBefore(event)
      /\ cursor' = IF event > cursor THEN event ELSE cursor
      /\ UNCHANGED loaded
  BY DEF Observe, ObserveTx
<1>3. GapsOver(gaps, cursor + 1, event - 1) = {}
  BY <1>1, GapRows DEF GapsOver, Slots, IInv, GapsBelowCursor
<1>4. CASE SkipsTo(event)
  <2>1. /\ gaps' = Append(gaps, row) /\ cursor' = event /\ event > cursor /\ cursor # 0
        /\ event \in Slots
    BY <1>1, <1>2, <1>3, <1>4 DEF WithGapBefore, SkipsTo, None, Slots
  <2>2. row \in Gap
    <3>1. cursor + 1 \in Slots /\ event - 1 \in Slots
      BY <1>1, <1>4, <2>1, MaxCursorAssumption DEF MaxCursorAssumption, Slots, SkipsTo
    <3>2. QED
      BY <3>1 DEF Gap
  <2>3. row.open /\ row.lo = cursor + 1 /\ row.hi = event - 1
    OBVIOUS
  <2> HIDE DEF row
  <2>4. OwedBy(gaps') = OwedBy(gaps) \cup (cursor + 1 .. event - 1)
    <3>1. /\ DOMAIN gaps' = DOMAIN gaps \cup {Len(gaps) + 1}
          /\ \A i \in DOMAIN gaps : gaps'[i] = gaps[i]
          /\ gaps'[Len(gaps) + 1] = row
      BY <1>1, <2>1, <2>2, AppendedRows
    <3>2. \A s : s \in OwedBy(gaps') <=> s \in OwedBy(gaps) \/ s \in row.lo .. row.hi
      BY <2>3, <3>1, AppendedRows, <1>1, <2>2 DEF OwedBy, OpenIn
    <3>3. QED
      BY <2>3, <3>2
  <2>5. Coverage!Reach(event)
    BY <1>1, <1>2, <2>1, <2>4 DEF Coverage!Reach, Owed
  <2>6. QED
    BY <2>1, <2>5
<1>5. CASE ~SkipsTo(event) /\ event > cursor
  <2>1. /\ gaps' = gaps /\ cursor' = event /\ event \in Slots
        /\ cursor = 0 \/ event = cursor + 1
    BY <1>1, <1>2, <1>5 DEF WithGapBefore, SkipsTo, None, Slots
  <2>2. cursor + 1 .. event - 1 = {} \/ cursor = 0
    BY <1>1, <2>1
  <2>3. Coverage!Reach(event)
    BY <1>1, <1>2, <1>5, <2>1, <2>2 DEF Coverage!Reach, Owed
  <2>4. QED
    BY <2>1, <2>3
<1>6. CASE ~SkipsTo(event) /\ ~(event > cursor)
  BY <1>1, <1>2, <1>6 DEF WithGapBefore, Coverage!Recover, Owed
<1>7. QED
  BY <1>4, <1>5, <1>6

\* The steps that leave the health store alone, and those that write to it.
LEMMA ReaderKinds ==
    ASSUME IInv, ReaderNext
    PROVE  \/ /\ UNCHANGED <<health, first, reached>> /\ loaded \subseteq loaded'
           \/ Observe
           \/ MarkDisconnectedTx /\ UNCHANGED history
           \/ ResolveReported
BY DEF ReaderNext, ReadHealth, RevokeLiveClaim, Connect, ConnectFails, Receive,
       ReceiveLog, ReceiveFails, SkipHealth, ObserveFails, Backfill, BackfillFails, ResolveFails,
       RecordDisconnect, RecordDisconnectFails, ReaderMoves, history

LEMMA WorkerKinds ==
    ASSUME IInv, WorkerNext
    PROVE  \/ /\ UNCHANGED <<health, first, reached>> /\ loaded \subseteq loaded'
           \/ DeferTx(target.id) /\ target.id \in DOMAIN gaps /\ UNCHANGED history
           \/ Advance
BY DEF WorkerNext, FetchGaps, TakeGap, Rest, Prove, ProveChunk, ProveProduced,
       ProveSkipped, Proves, ProveFails, StopProving, AdvanceFails, GivesUpOnGap,
       history, IInv, WorkerSound

LEMMA StepRefines == IInv /\ IInv' /\ [Next]_vars => [Coverage!Next]_Coverage!vars
<1> SUFFICES ASSUME IInv, IInv', [Next]_vars PROVE [Coverage!Next]_Coverage!vars
  OBVIOUS
<1>1. ASSUME UNCHANGED health, loaded \subseteq loaded'
      PROVE  Coverage!Recover
  BY <1>1, RecoverMaps DEF IInv
<1>2. ASSUME NEW id \in DOMAIN gaps, NEW b \in BOOLEAN, gaps' = Retrying(id, b),
             UNCHANGED <<cursor, status>>, UNCHANGED history
      PROVE  Coverage!Settle
  BY <1>2, RetryingRepairs, RepairSettles
<1>3. CASE ReaderNext
  <2>1. CASE MarkDisconnectedTx /\ UNCHANGED history
    BY <2>1 DEF MarkDisconnectedTx, history, Coverage!vars, Owed
  <2>2. CASE ResolveReported
    <3>1. /\ reader = "filled" /\ ResolveTx(reported.id) /\ UNCHANGED history
      BY <2>2 DEF ResolveReported, ReaderMoves
    <3>2. /\ reported.id \in DOMAIN gaps /\ reported.lo \in Nat
          /\ reported.lo <= gaps[reported.id].lo
          /\ reported.hi = gaps[reported.id].hi
      BY <3>1 DEF IInv, ReportedSound, TypeOK, GapView, Slots
    <3>3. gaps[reported.id].lo \in Slots /\ gaps[reported.id].hi \in Slots
      BY <3>2, GapRows DEF IInv, TypeOK, HealthType
    <3>4. \A s \in gaps[reported.id].lo .. gaps[reported.id].hi : s \in loaded
      <4>1. \A s \in Slots : reported.lo <= s /\ s <= reported.hi => s \in loaded
        BY <3>1 DEF IInv, ReportedSound
      <4> DEFINE lo == gaps[reported.id].lo
                 hi == gaps[reported.id].hi
      <4>2. \A s \in lo .. hi : s \in Slots /\ reported.lo <= s /\ s <= reported.hi
        <5>1. lo \in Slots /\ hi \in Slots /\ reported.lo \in Nat /\ reported.lo <= lo
              /\ reported.hi = hi
          BY <3>2, <3>3
        <5> HIDE DEF lo, hi
        <5>2. QED
          BY <5>1, MaxCursorAssumption DEF Slots, MaxCursorAssumption
      <4>3. QED
        BY <4>1, <4>2
    <3>5. Coverage!Settle
      BY <3>1, <3>2, <3>4, ResolveRepairs, RepairSettles
    <3>6. QED
      BY <3>5 DEF Coverage!Next
  <2>3. QED
    BY <1>1, <1>3, <2>1, <2>2, ReaderKinds, ObserveMaps DEF Coverage!Next
<1>4. CASE WorkerNext
  <2>1. CASE Advance
    BY <2>1, AdvanceWritesOffLoaded, RepairSettles DEF Advance, Coverage!Next
  <2>2. CASE DeferTx(target.id) /\ target.id \in DOMAIN gaps /\ UNCHANGED history
    <3>1. CASE IsOpen(target.id)
      BY <1>2, <2>2, <3>1 DEF DeferTx, Coverage!Next
    <3>2. CASE ~IsOpen(target.id)
      BY <2>2, <3>2 DEF DeferTx, history, Coverage!vars, Owed
    <3>3. QED
      BY <3>1, <3>2
  <2>3. QED
    BY <1>1, <1>4, <2>1, <2>2, WorkerKinds DEF Coverage!Next
<1>5. CASE Crash
  BY <1>1, <1>5 DEF Crash, history, Coverage!Next
<1>6. CASE TimePasses
  BY <1>2, <1>6 DEF TimePasses, BecomesDue, Coverage!Next
<1>7. CASE UNCHANGED vars
  BY <1>1, <1>7 DEF vars, health, Coverage!Next
<1>8. QED
  BY <1>3, <1>4, <1>5, <1>6, <1>7 DEF Next

(***************************************************************************)
(* StreamLane implements SlotCoverage: whoever reads a lane's cursor and   *)
(* open gaps sees a tip that jumps over no slot without a debt, and debts  *)
(* that are written off only once their blocks were loaded.                *)
(***************************************************************************)
THEOREM LaneImplementsCoverage == Spec => ImplementsCoverage
<1>1. Init => Coverage!Init
  BY DEF Init, HealthInit, Coverage!Init, None, Owed, OwedBy, OpenIn
<1>2. QED
  BY <1>1, Inductive, StepRefines, PTL DEF Spec, ImplementsCoverage, Coverage!Spec

(***************************************************************************)
(* An open gap is shortened or closed only over produced slots whose block *)
(* was loaded, at every step.                                              *)
(***************************************************************************)
THEOREM LaneSettlesOnlyLoaded == Spec => SettledOnlyWhenLoaded
<1>1. ASSUME IInv, [Coverage!Next]_Coverage!vars, NEW s \in Owed, s \notin Owed', s \in Produced
      PROVE  s \in loaded
  BY <1>1 DEF Coverage!Next, Coverage!vars, Coverage!Recover, Coverage!Reach, Coverage!Settle
<1>2. IInv /\ IInv' /\ [Next]_vars =>
         [\A s \in Owed \ Owed' : s \in Produced => s \in loaded]_vars
  BY <1>1, StepRefines
<1>3. QED
  BY <1>2, Inductive, PTL DEF Spec, SettledOnlyWhenLoaded

(***************************************************************************)
(* No repair of either thread takes a lane out of the disconnected status. *)
(***************************************************************************)
THEOREM LaneDisconnectSticky == Spec => DisconnectSticky
<1>1. ASSUME IInv, Next, status = "disconnected", reader # "persisted"
      PROVE  status' = status
  <2>1. CASE ReaderNext
    <3>1. CASE ResolveReported
      BY <1>1, <3>1 DEF ResolveReported, ResolveTx, StatusAfterRepair, health
    <3>2. QED
      BY <1>1, <2>1, <3>1, ReaderKinds DEF Observe, MarkDisconnectedTx, health
  <2>2. CASE WorkerNext
    <3>1. CASE Advance
      BY <1>1, <3>1 DEF Advance, AdvanceTx, StatusAfterRepair, health
    <3>2. QED
      BY <1>1, <2>2, <3>1, WorkerKinds DEF DeferTx, health
  <2>3. CASE Crash \/ TimePasses
    BY <2>3 DEF Crash, TimePasses, BecomesDue, health
  <2>4. QED
    BY <1>1, <2>1, <2>2, <2>3 DEF Next
<1>2. IInv /\ [Next]_vars =>
         [status = "disconnected" /\ status' # status => reader = "persisted"]_vars
  BY <1>1
<1>3. QED
  BY <1>2, Inductive, PTL DEF Spec, DisconnectSticky
=============================================================================
