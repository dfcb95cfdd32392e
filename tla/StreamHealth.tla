---------------------------- MODULE StreamHealth ----------------------------
(***************************************************************************)
(* The durable truth layer of one real-time lane (stream_health.py): the   *)
(* row of table streams that belongs to the lane, and the lane's rows of   *)
(* table gaps.  Every operator whose name ends in Tx is one SQLite write   *)
(* transaction, hence one atomic step of whatever process runs it.         *)
(*                                                                         *)
(* Clocks are reduced to what the transactions compare: a gap is due when  *)
(* its next_retry_at is NULL or has passed.  A row id is AUTOINCREMENT, so *)
(* table gaps is a sequence and a gap's id is its position.                *)
(***************************************************************************)
EXTENDS Naturals, Sequences, FiniteSets

CONSTANT MaxCursor         \* bound: the highest slot or block a run reaches

ASSUME MaxCursorAssumption == MaxCursor \in Nat

VARIABLES
    cursor,                \* streams.cursor, None while NULL
    status,                \* streams.status, "absent" while there is no row
    gaps                   \* table gaps, in id order

health == <<cursor, status, gaps>>

None == 0
Slots == 1..MaxCursor
Statuses == {"absent", "live", "degraded", "disconnected"}
Gap == [lo: Slots, hi: Slots, open: BOOLEAN, due: BOOLEAN]

HealthType ==
    /\ cursor \in Slots \cup {None}
    /\ status \in Statuses
    /\ gaps \in Seq(Gap)

HealthInit ==
    /\ cursor = None
    /\ status = "absent"
    /\ gaps = <<>>

-----------------------------------------------------------------------------
OpenIn(g) == {i \in DOMAIN g : g[i].open}
OwedBy(g) == UNION {g[i].lo .. g[i].hi : i \in OpenIn(g)}

\* Mutant of SkipsTo: a jump over a single slot goes unnoticed.
SkipsMoreThanOne(c) == cursor # None /\ c > cursor + 2

\* What a caller of observe is told about the jump from cursor to c.
SkipsTo(c) == cursor # None /\ c > cursor + 1
GapsOver(g, lo, hi) == {i \in DOMAIN g : g[i].lo = lo /\ g[i].hi = hi}

\* INSERT OR IGNORE under UNIQUE(source,stream,from_cursor,to_cursor).
WithGapBefore(c) ==
    IF SkipsTo(c) /\ GapsOver(gaps, cursor + 1, c - 1) = {}
    THEN Append(gaps, [lo |-> cursor + 1, hi |-> c - 1,
                       open |-> TRUE, due |-> TRUE])
    ELSE gaps

\* Mutants of ObserveTx: the cursor follows a late message back; every message
\* reports the lane live.
ObserveLatestTx(c) ==
    /\ gaps' = WithGapBefore(c)
    /\ cursor' = IF c = None THEN cursor ELSE c
    /\ status' = IF OpenIn(gaps') = {} THEN "live" ELSE "degraded"
ObserveLiveTx(c) ==
    /\ gaps' = WithGapBefore(c)
    /\ cursor' = IF c > cursor THEN c ELSE cursor
    /\ status' = "live"

\* observe(): c = None for a message that carries no cursor.
ObserveTx(c) ==
    /\ gaps' = WithGapBefore(c)
    /\ cursor' = IF c > cursor THEN c ELSE cursor
    /\ status' = IF OpenIn(gaps') = {} THEN "live" ELSE "degraded"

\* Mutant of MarkDisconnectedTx: writes the status that snapshot() derives.
MarkStaleTx ==
    /\ status' = "stale"
    /\ UNCHANGED <<cursor, gaps>>

MarkDisconnectedTx ==
    /\ status' = "disconnected"
    /\ UNCHANGED <<cursor, gaps>>

IsOpen(id) == id \in OpenIn(gaps)
Closed(id) == [gaps EXCEPT ![id] = [@ EXCEPT !.open = FALSE, !.due = TRUE]]
\* Mutant of Trimmed: the remaining range starts at the slot just proved.
TrimmedInclusive(id, through) ==
    [gaps EXCEPT ![id] = [@ EXCEPT !.lo = through, !.due = TRUE]]

Trimmed(id, through) ==
    [gaps EXCEPT ![id] = [@ EXCEPT !.lo = through + 1, !.due = TRUE]]
\* Mutant of Retrying: a deferred gap gets no retry time.
NeverRetrying(id, now) == [gaps EXCEPT ![id] = [@ EXCEPT !.due = FALSE]]

Retrying(id, now) == [gaps EXCEPT ![id] = [@ EXCEPT !.due = now]]

\* Mutants of StatusAfterRepair: a repair hides a disconnect; a repair reports
\* live whatever else is open.
RepairReconnects(g) == IF OpenIn(g) = {} THEN "live" ELSE "degraded"
RepairGoesLive(g) == IF status = "disconnected" THEN status ELSE "live"

\* A repaired range says nothing about the transport: a disconnect stays.
StatusAfterRepair(g) ==
    IF status = "disconnected" THEN status
    ELSE IF OpenIn(g) = {} THEN "live" ELSE "degraded"

ResolveTx(id) ==
    IF IsOpen(id)
    THEN /\ gaps' = Closed(id)
         /\ status' = StatusAfterRepair(gaps')
         /\ UNCHANGED cursor
    ELSE UNCHANGED health

\* advance_gap() has an effect only on an open gap it reaches into.
Advances(id, through) == IsOpen(id) /\ through >= gaps[id].lo
AdvanceTx(id, through) ==
    IF Advances(id, through)
    THEN /\ gaps' = IF through >= gaps[id].hi THEN Closed(id)
                                              ELSE Trimmed(id, through)
         /\ status' = StatusAfterRepair(gaps')
         /\ UNCHANGED cursor
    ELSE UNCHANGED health

DeferTx(id) ==
    /\ gaps' = IF IsOpen(id) THEN Retrying(id, FALSE) ELSE gaps
    /\ UNCHANGED <<cursor, status>>

\* next_retry_at passes.
BecomesDue(id) ==
    /\ IsOpen(id)
    /\ ~gaps[id].due
    /\ gaps' = Retrying(id, TRUE)
    /\ UNCHANGED <<cursor, status>>

\* open_gaps(): what a recovery worker reads; its rows go stale at once.
DueGaps == {[id |-> i, lo |-> gaps[i].lo, hi |-> gaps[i].hi] :
               i \in {j \in OpenIn(gaps) : gaps[j].due}}
=============================================================================
