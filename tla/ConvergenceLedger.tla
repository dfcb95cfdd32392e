------------------------- MODULE ConvergenceLedger -------------------------
(* The convergence ledger (pipeline/convergence_ledger.py) behind the        *)
(* scheduler's disk guard (ops/disk_shedding.py, scheduler._disk_guarded_job)*)
(* Each run reads the clock once, freezes the convergences it is shown, one  *)
(* event for a token and a UTC day, and fills the horizons that have come    *)
(* due.  A run is skipped while the disk is short, and may die between its   *)
(* two commits.  The buyers, the co-occurrence score and the prices are data *)
(* no step depends on: of a price only whether it was served is kept.        *)
EXTENDS Naturals, FiniteSets, FiniteSetsExt

CONSTANTS Tokens,
          Horizons,        \* HORIZONS, in ticks
          DayTicks,        \* ticks of a UTC day
          LastLedgerTick   \* bound

ASSUME ConvergenceAssumption ==
    Horizons \subseteq Nat \ {0} /\ DayTicks \in Nat \ {0} /\ LastLedgerTick \in Nat

VARIABLES tick, disk,
          events,     \* rows of events: token, first_seen_ts, entry price served
          outcomes,   \* rows of outcomes: event, horizon, resolved_at, measured
          running,    \* a run committed its events and not yet its outcomes
          resolvers   \* the ticks at which a run resolved what was due

ledgerVars == <<tick, disk, events, outcomes, running, resolvers>>

Unresolved == LastLedgerTick + 1
LedgerTicks == 0..LastLedgerTick

LedgerTypeOK ==
    /\ tick \in LedgerTicks /\ disk \in {"ok", "warn", "critical", "unknown"}
    /\ events \subseteq [token: Tokens, seen: LedgerTicks, priced: BOOLEAN]
    /\ outcomes \subseteq [event: events, horizon: Horizons,
                           resolved: 0..Unresolved, measured: BOOLEAN]
    /\ running \in BOOLEAN /\ resolvers \subseteq LedgerTicks

LedgerInit ==
    /\ tick = 0 /\ disk = "ok" /\ events = {} /\ outcomes = {}
    /\ running = FALSE /\ resolvers = {}

TimePasses ==
    /\ ~running /\ tick < LastLedgerTick /\ tick' = tick + 1
    /\ UNCHANGED <<disk, events, outcomes, running, resolvers>>

DiskMoves ==
    /\ \E state \in {"ok", "warn", "critical", "unknown"} \ {disk} : disk' = state
    /\ UNCHANGED <<tick, events, outcomes, running, resolvers>>

(* disk_shedding_decision for a job of DISK_SHED_AT_WARN: only a positively  *)
(* observed shortage sheds it.                                               *)
Shed == disk \in {"warn", "critical"}

(* _event_id: the same token on the same day is the same event.              *)
Day(t) == t \div DayTicks
Known(token) == \E e \in events : e.token = token /\ Day(e.seen) = Day(tick)

(* record: freeze every new convergence with the price served now.           *)
RecordEvents ==
    /\ ~running /\ ~Shed
    /\ \E shown \in SUBSET Tokens :
       \E served \in SUBSET shown :
          LET new == {[token |-> token, seen |-> tick, priced |-> token \in served] :
                        token \in {k \in shown : ~Known(k)}}
          IN  /\ events' = events \cup new
              /\ outcomes' = outcomes \cup
                   [event: new, horizon: Horizons, resolved: {Unresolved}, measured: {FALSE}]
    /\ running' = TRUE
    /\ UNCHANGED <<tick, disk, resolvers>>

(* resolve_due: every due horizon gets its return, or none where a price is  *)
(* missing; either way it is resolved.                                       *)
DueRow(o)     == o.event.seen + o.horizon <= tick
IsDue(o)      == o.resolved = Unresolved /\ DueRow(o)

Filled(o, served) ==
    [o EXCEPT !.resolved = tick, !.measured = o.event.priced /\ o.event.token \in served]

Resolve ==
    /\ running
    /\ \E served \in SUBSET Tokens :
          outcomes' = {IF IsDue(o) THEN Filled(o, served) ELSE o : o \in outcomes}
    /\ running' = FALSE
    /\ resolvers' = resolvers \cup {tick}
    /\ UNCHANGED <<tick, disk, events>>

(* The process dies between the two commits of a run.                        *)
LedgerDies ==
    /\ running /\ running' = FALSE
    /\ UNCHANGED <<tick, disk, events, outcomes, resolvers>>

LedgerNext == TimePasses \/ DiskMoves \/ RecordEvents \/ Resolve \/ LedgerDies

LedgerSpec == LedgerInit /\ [][LedgerNext]_ledgerVars

-----------------------------------------------------------------------------
(* A horizon is measured once, by the first run that resolves anything at or *)
(* after its due time: it is early never, late only by the runs the disk or  *)
(* a crash took away, and no later run moves a return that was frozen.       *)
ResolvedByFirstRun ==
    \A o \in outcomes :
        LET late == {t \in resolvers : t >= o.event.seen + o.horizon}
        IN  o.resolved = IF late = {} THEN Unresolved ELSE Min(late)
=============================================================================
