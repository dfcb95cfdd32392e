-------------------------- MODULE OutcomeResolver --------------------------
(***************************************************************************)
(* The outcomes of the opportunity ledger: the hourly resolver             *)
(* (opportunity_outcomes.resolve), which reads its open rows once and then *)
(* measures one horizon of each within a lookup budget, and the stream     *)
(* process that retires a row whose source log a reorg removed             *)
(* (opportunity_ledger.invalidate).  Nothing but SQLite stands between     *)
(* them, and each of their statements is a transaction of its own.         *)
(***************************************************************************)
EXTENDS Integers, FiniteSets, Sequences, Functions

CONSTANTS
    Events,                \* rows of opportunities
    Evidenced,             \* those with a frozen entry observation and cost
    Reorgable,             \* those whose source log a reorg can remove
    Dead,                  \* those whose price source raises at every call
    Lane,                  \* the lane of each event
    Anchor,                \* _outcome_anchor: the entry clock of each event
    Horizons,              \* names of HORIZONS
    Delay,                 \* hours of each horizon, on the model's clock
    Priority,              \* HORIZON_PRIORITY
    Prices,                \* what a price source may say
    Quotes,                \* the prices it may say of each event
    Grace,                 \* UNRESOLVABLE_DAYS, on the model's clock
    Budget,                \* max_lookups
    MayCrash,              \* whether the process may die within a run
    None

Due(e, h) == Anchor[e] + Delay[h]
\* Past the last grace period the clock changes no decision: it stays there.
LastTick == CHOOSE t \in {Anchor[e] + Grace : e \in Events} :
                \A e \in Events : Anchor[e] + Grace <= t

ASSUME OutcomeAssumption ==
    /\ IsFiniteSet(Events) /\ Events # {}
    /\ Evidenced \subseteq Events /\ Reorgable \subseteq Events
    /\ Dead \subseteq Events /\ None \notin Prices
    /\ Quotes \in [Events -> SUBSET Prices]
    /\ Anchor \in [Events -> Nat] /\ Delay \in [Horizons -> Nat]
    /\ Priority \in [Horizons -> Nat]
    /\ \A g, h \in Horizons : Priority[g] = Priority[h] => g = h
    /\ Grace \in Nat /\ Budget \in Nat \ {0} /\ MayCrash \in BOOLEAN
    /\ "24h" \in Horizons
    /\ \A d, e \in Events : Anchor[d] = Anchor[e] => d = e

VARIABLES
    now,                   \* the wall clock
    row,                   \* the mutable half of each opportunities row
    observed,              \* outcome_price_observations, append-only
    tries,                 \* attempted_at of what is not settled yet, as a rank
                           \* among those of its horizon: 0 is never
    run,                   \* the resolver
    removal                \* invalidate between its SELECT and its UPDATE

vars == <<now, row, observed, tries, run, removal>>

Row == [status: {"open", "resolved", "unresolvable"},
        state: {"signal", "reorg_removed"}, noted: BOOLEAN,
        settled: [Horizons -> Prices \cup {None}],
        unavailable: SUBSET Horizons, blocked: {"no", "deferred", "permanent"}]
Resting == [pc |-> "rest", todo |-> <<>>, price |-> None]

Init ==
    /\ now = 0
    /\ row = [e \in Events |->
                [status |-> "open", state |-> "signal", noted |-> FALSE,
                 settled |-> [h \in Horizons |-> None],
                 unavailable |-> {}, blocked |-> "no"]]
    /\ observed = [e \in Events |-> [h \in Horizons |-> None]]
    /\ tries = [h \in Horizons |-> [e \in Events |-> 0]]
    /\ run = Resting
    /\ removal = None

-----------------------------------------------------------------------------
\* Selection of the tasks of a run.

\* The clock of the run that is on: later than every one before it.
ThisRun == Cardinality(Events) + 1
\* The clocks of the runs before, by their order only: keys of two horizons
\* differ in their priority already.
Rank(h, e) == Cardinality({tries[h][d] : d \in Events} \cap 1 .. tries[h][e])

\* A task's key: priority, last attempt, due time.
Before(t, u) ==
    LET a == <<Priority[t.h], tries[t.h][t.e], Due(t.e, t.h)>>
        b == <<Priority[u.h], tries[u.h][u.e], Due(u.e, u.h)>>
    IN \E i \in 1 .. 3 : a[i] < b[i] /\ \A j \in 1 .. i - 1 : a[j] = b[j]
First(S) == CHOOSE t \in S : \A u \in S \ {t} : Before(t, u)

Unsettled(outcome, h) == outcome.settled[h] = None /\ h \notin outcome.unavailable

\* _next_due_task of an open row, as the set of what it returns.
DueTasks(e) ==
    IF row[e].blocked = "permanent" THEN {}
    ELSE {[e |-> e, h |-> h] : h \in
            {h \in Horizons : now >= Due(e, h) /\ Unsettled(row[e], h)}}
\* Mutant AllRows: forgets the WHERE clause of outcome_rows.
AllRows == Events
OpenRows == {e \in Events : row[e].status = "open"}
Tasks == {First(DueTasks(e)) : e \in {e \in OpenRows : DueTasks(e) # {}}}

\* _select_due_tasks: a slot for the head of each lane, then the oldest.
Heads(tasks) == {First({t \in tasks : Lane[t.e] = l}) : l \in {Lane[t.e] : t \in tasks}}
Precedes(t, u, tasks) ==
    \/ t \in Heads(tasks) /\ u \notin Heads(tasks)
    \/ (t \in Heads(tasks) <=> u \in Heads(tasks)) /\ Before(t, u)
\* chosen is all of tasks or the budget's worth of them, in that order.
IsSelection(chosen, tasks) ==
    /\ \A i, j \in DOMAIN chosen : i < j => Precedes(chosen[i], chosen[j], tasks)
    /\ \A u \in tasks \ Range(chosen) :
          Len(chosen) = Budget /\ \A i \in DOMAIN chosen : Precedes(chosen[i], u, tasks)

-----------------------------------------------------------------------------
\* resolve().  One instance runs at a time (max_instances=1); the copies of
\* the rows are those of its first read.
Start ==
    /\ run.pc = "rest"
    /\ \E n \in 1 .. Budget : \E chosen \in [1 .. n -> Tasks] :
          /\ IsSelection(chosen, Tasks)
          /\ run' = [pc |-> "next", price |-> None,
                     todo |-> [i \in 1 .. n |->
                                 [task |-> chosen[i], copy |-> row[chosen[i].e]]]]
    /\ tries' = [h \in Horizons |-> [e \in Events |-> Rank(h, e)]]
    /\ UNCHANGED <<now, row, observed, removal>>

Head1 == Head(run.todo)
At(e, pc) == run.pc = pc /\ Head1.task.e = e
\* Mutant OneTaskTooMany: goes on after the last task.
OneTaskTooMany == [pc |-> "next", todo |-> Tail(run.todo), price |-> None]
Done == IF Len(run.todo) = 1 THEN Resting
        ELSE [pc |-> "next", todo |-> Tail(run.todo), price |-> None]

\* save_outcome: an UPDATE by id, of the measurement columns only.
Saved(e, outcome, status) ==
    row' = [row EXCEPT ![e] = [outcome EXCEPT !.status = status,
                                              !.state = row[e].state]]
\* A task that stays open carries this run's attempt clock.
Tried(t, open) == tries' = [tries EXCEPT ![t.h][t.e] = IF open THEN ThisRun ELSE 0]

\* _cost refuses a row of the protocol: for good, or until its source proof
\* verifies again.  No attempt is counted: a deferred row keeps its place.
RejectCost(e) ==
    /\ At(e, "next") /\ e \in Evidenced
    /\ \E why \in {"deferred", "permanent"} :
          Saved(e, [Head1.copy EXCEPT !.blocked = why], "open")
    /\ run' = Done
    /\ UNCHANGED <<now, observed, tries, removal>>
PassCost(e) ==
    /\ At(e, "next")
    /\ run' = [run EXCEPT !.pc = "asked"]
    /\ UNCHANGED <<now, row, observed, tries, removal>>

Unblocked(copy) == [copy EXCEPT !.blocked = "no"]

\* Mutant AsksAgain: looks up what is already on record.
AsksAgain(e, h) == IF e \in Dead THEN {} ELSE Quotes[e] \cup {None}
\* The answer is the observation on record, or what the source says: a price,
\* or nothing usable (none, or PriceObservationInvalid).  The price of an
\* evidenced row is appended to the ledger before its outcome is saved.
Answers(e, h) ==
    IF observed[e][h] # None THEN {observed[e][h]}
    ELSE IF e \in Dead THEN {} ELSE Quotes[e] \cup {None}

Answered(e) ==
    /\ At(e, "asked")
    /\ LET h == Head1.task.h IN
       \E price \in Answers(e, h) :
          /\ run' = [run EXCEPT !.pc = "save", !.price = price]
          /\ observed' = IF e \in Evidenced /\ observed[e][h] = None
                         THEN [observed EXCEPT ![e][h] = price] ELSE observed
    /\ UNCHANGED <<now, row, tries, removal>>

\* OhlcvRateLimited: the attempt is saved and the run ends.
RateLimited(e) ==
    /\ At(e, "asked") /\ e \notin Dead /\ observed[e][Head1.task.h] = None
    /\ Saved(e, Unblocked(Head1.copy), "open")
    /\ Tried(Head1.task, TRUE)
    /\ run' = Resting
    /\ UNCHANGED <<now, observed, removal>>

\* Any other exception leaves resolve() with nothing saved.
SourceRaises(e) ==
    /\ At(e, "asked") /\ observed[e][Head1.task.h] = None
    /\ run' = Resting
    /\ UNCHANGED <<now, row, observed, tries, removal>>

\* The outcome after one measured, missing or retired horizon.
\* Mutant NeverRetires: waits for a price without end.
NeverRetires(e, h, copy, price) ==
    IF price # None THEN [Unblocked(copy) EXCEPT !.settled[h] = price]
    ELSE Unblocked(copy)
Measured(e, h, copy, price) ==
    IF price # None THEN [Unblocked(copy) EXCEPT !.settled[h] = price]
    ELSE IF now - Anchor[e] >= Grace
         THEN [Unblocked(copy) EXCEPT !.unavailable = @ \cup {h}]
         ELSE Unblocked(copy)
StatusAfter(outcome) ==
    IF \E h \in Horizons : Unsettled(outcome, h)
    THEN "open"
    ELSE IF outcome.settled["24h"] # None THEN "resolved" ELSE "unresolvable"

Save(e) ==
    /\ At(e, "save")
    /\ LET outcome == Measured(e, Head1.task.h, Head1.copy, run.price)
       IN /\ Saved(e, outcome, StatusAfter(outcome))
          /\ Tried(Head1.task, Unsettled(outcome, Head1.task.h))
    /\ run' = Done
    /\ UNCHANGED <<now, observed, removal>>

\* The process dies; the ledger stays as its last statement left it.
Crash ==
    /\ MayCrash /\ run.pc # "rest" /\ run' = Resting
    /\ UNCHANGED <<now, row, observed, tries, removal>>

-----------------------------------------------------------------------------
\* invalidate(): a SELECT of the outcome, then an UPDATE of the row.  Bound:
\* the removal of a log is told once.
InvalidateReads(e) ==
    /\ removal = None /\ e \in Reorgable /\ row[e].state = "signal"
    /\ removal' = [e |-> e, copy |-> row[e]]
    /\ UNCHANGED <<now, row, observed, tries, run>>
InvalidateWrites(e) ==
    /\ removal # None /\ removal.e = e
    /\ row' = [row EXCEPT ![e] = [removal.copy EXCEPT !.noted = TRUE,
                 !.status = "unresolvable", !.state = "reorg_removed"]]
    /\ removal' = None
    /\ UNCHANGED <<now, observed, tries, run>>

Tick ==
    /\ now < LastTick /\ now' = now + 1
    /\ UNCHANGED <<row, observed, tries, run, removal>>

Next ==
    \/ Start \/ Crash \/ Tick
    \/ \E e \in Events :
          \/ RejectCost(e) \/ PassCost(e) \/ Answered(e) \/ RateLimited(e)
          \/ SourceRaises(e) \/ Save(e) \/ InvalidateReads(e) \/ InvalidateWrites(e)

\* Time passes, the hourly job runs and a lookup ends one way or another; of the
\* tasks some get through the cost gate or are refused by it, of the lookups
\* some are answered, and of the answers some are saved: a source does not fail,
\* nor a process die, at every one of them.  Nothing is assumed of any one
\* event, nor that the gate ever lets a row pass.
Fairness ==
    /\ WF_vars(Tick) /\ WF_vars(Start)
    /\ WF_vars(\E e \in Events : Answered(e) \/ RateLimited(e) \/ SourceRaises(e))
    /\ SF_vars(\E e \in Events : RejectCost(e) \/ PassCost(e))
    /\ SF_vars(\E e \in Events : Answered(e))
    /\ SF_vars(\E e \in Events : Save(e))

Spec == Init /\ [][Next]_vars
FairSpec == Spec /\ Fairness

-----------------------------------------------------------------------------
TypeOK ==
    /\ now \in 0 .. LastTick
    /\ row \in [Events -> Row]
    /\ observed \in [Events -> [Horizons -> Prices \cup {None}]]
    /\ tries \in [Horizons -> [Events -> 0 .. ThisRun]]
    /\ run.pc \in {"rest", "next", "asked", "save"} /\ (run.pc = "rest") = (run.todo = <<>>)
    /\ Len(run.todo) <= Budget
    /\ removal = None \/ removal \in [e: Reorgable, copy: Row]

\* The price that measures an evidenced event is the one on record for that
\* horizon, although a crash may separate the two writes and the source may
\* have changed its answer when the next run comes.
SettledIsObserved ==
    \A e \in Evidenced, h \in Horizons :
        row[e].settled[h] # None => row[e].settled[h] = observed[e][h]

\* A closed row is opened again, and the note that retired it dropped, only by
\* a run that had read the row while it was still open: never by a later one.
ReopenedOnlyByOlderRun ==
    [][\A e \in Events :
          \/ row[e].status # "open" /\ row'[e].status = "open"
          \/ row[e].noted /\ ~ row'[e].noted
          => run.todo # <<>> /\ Head1.task.e = e /\ Head1.copy.status = "open"]_vars

\* Every trial leaves the open set, or its cost evidence is refused for good,
\* unless some open row's refusal is put off for ever, which starves the rows
\* behind it: neither a missing candle, a rate limit, a crash nor a reorg in the
\* middle keeps a row there (a dead pool beside it, however, does: see README).
EveryTrialEnds ==
    \/ <>(\A e \in Events \ Dead :
             row[e].status # "open" \/ row[e].blocked = "permanent")
    \/ <>[](\E e \in Events : row[e].status = "open" /\ row[e].blocked = "deferred")
=============================================================================
