----------------------------- MODULE CarryPaper -----------------------------
(***************************************************************************)
(* The paper tracker of the funding carry (pipeline/carry_paper.run): each *)
(* run reads the open episodes, visits them one by one - a quote of the    *)
(* order books may take time in between, and the open transaction is       *)
(* committed before it - then opens new ones.  What matters is the clock   *)
(* of an episode: which part of its life was measured.  Rates and costs    *)
(* are left out.                                                           *)
(***************************************************************************)
EXTENDS Integers, FiniteSets

CONSTANTS
    Symbols,
    ObservationAge,        \* CARRY_OBSERVATION_MAX_AGE_S
    ValidInterval,         \* CARRY_MAX_VALID_INTERVAL_S
    QuoteSLA,              \* CARRY_EXIT_QUOTE_SLA_S
    EntryQuotes,           \* MAX_NEW_ENTRY_QUOTES_PER_RUN
    LastMinute             \* bound: ticks of the instance

ASSUME CarryAssumption ==
    /\ ObservationAge \in Nat /\ ValidInterval \in Nat /\ QuoteSLA \in Nat
    /\ EntryQuotes \in Nat /\ LastMinute \in Nat

VARIABLES
    minute,
    episode,               \* the newest row of each symbol, as the run sees it
    stored,                \* the same rows, as committed
    visit                  \* the run: its clock, its observations, what is left

carryVars == <<minute, episode, stored, visit>>

NoEpisode == [status |-> "none", entry |-> 0, last |-> 0, state |-> "observed",
              measured |-> 0, unmeasured |-> 0, signal |-> 0, delay |-> 0]
NoVisit == [pc |-> "idle", at |-> 0, seen |-> [s \in Symbols |-> -1], open |-> {},
            left |-> {}, quotes |-> 0]

CarryInit ==
    /\ minute = 0 /\ visit = NoVisit
    /\ episode = [s \in Symbols |-> NoEpisode] /\ stored = episode

IsOpen(e) == e.status \in {"open", "exit_pending"}
Leaves(s) == [visit EXCEPT !.left = @ \ {s}]
Later == {m \in minute .. minute + 1 : m <= LastMinute}

-----------------------------------------------------------------------------
\* A run begins: its clock, the open rows, and the observations fresh enough to
\* count (none of a symbol: its source has a gap).
BeginVisit ==
    /\ visit.pc = "idle"
    /\ \E seen \in [Symbols -> {-1} \cup {m \in 0 .. minute : minute - m <= ObservationAge}] :
          LET open == {s \in Symbols : IsOpen(episode[s])}
          IN visit' = [pc |-> "visit", at |-> minute, seen |-> seen, open |-> open,
                       left |-> open, quotes |-> 0]
    /\ UNCHANGED <<minute, episode, stored>>

Visiting(s, status) ==
    /\ visit.pc = "visit" /\ s \in visit.left /\ episode[s].status = status
    /\ visit' = Leaves(s)

\* Mutant: the gap moves the clock of the episode without owning up to it.
ClockMoved(e, at) == [e EXCEPT !.last = at, !.state = "source_gap"]
\* No observation: the time since the last update is not measured.
Gapped(e, at) ==
    [e EXCEPT !.last = at, !.state = "source_gap",
              !.unmeasured = IF at > e.last THEN @ + at - e.last ELSE @]
SourceGap(s) ==
    /\ Visiting(s, "open") /\ visit.seen[s] = -1
    /\ episode' = [episode EXCEPT ![s] = Gapped(@, visit.at)]
    /\ UNCHANGED <<minute, stored>>
\* An observation older than the last update changes nothing but the state.
OutOfOrder(s) ==
    /\ Visiting(s, "open") /\ visit.seen[s] >= 0 /\ visit.seen[s] < episode[s].last
    /\ episode' = [episode EXCEPT ![s].state = "out_of_order_observation"]
    /\ UNCHANGED <<minute, stored>>

\* An interval counts only between two valid updates that follow each other.
IsValid(e, at) == e.state = "observed" /\ at - e.last <= ValidInterval
Accrued(e, at) ==
    [e EXCEPT !.last = at, !.state = "observed",
              !.measured = IF IsValid(e, at) THEN @ + at - e.last ELSE @,
              !.unmeasured = IF IsValid(e, at) THEN @ ELSE @ + at - e.last]
InOrder(s) == visit.seen[s] >= episode[s].last
Accrue(s) ==
    /\ Visiting(s, "open") /\ InOrder(s)
    /\ episode' = [episode EXCEPT ![s] = Accrued(@, visit.seen[s])]
    /\ UNCHANGED <<minute, stored>>

\* The differential has decayed: the exit is signalled at the observation and
\* quoted later, all earlier rows being committed first; without a quote the
\* episode waits for one.
SignalExit(s) ==
    /\ Visiting(s, "open") /\ InOrder(s) /\ stored' = episode
    /\ \E quoteAt \in Later, quoted \in BOOLEAN :
          /\ minute' = quoteAt
          /\ episode' = [episode EXCEPT ![s] =
                [Accrued(@, visit.seen[s]) EXCEPT
                    !.status = IF quoted THEN "closed" ELSE "exit_pending",
                    !.state = IF quoted THEN "observed" ELSE "exit_quote_gap",
                    !.signal = visit.seen[s],
                    !.delay = IF quoted THEN quoteAt - visit.seen[s] ELSE 0]]
QuoteExit(s) ==
    /\ Visiting(s, "exit_pending") /\ stored' = episode
    /\ \E quoteAt \in Later, quoted \in BOOLEAN :
          /\ minute' = quoteAt
          /\ episode' = IF quoted
                THEN [episode EXCEPT ![s].status = "closed", ![s].state = "observed",
                                     ![s].delay = quoteAt - episode[s].signal]
                ELSE [episode EXCEPT ![s].state = "exit_quote_gap"]

\* A candidate that has no episode open since the run began, freshly observed,
\* within the run's cap of quotes; the quote may come too late.
OpenEpisode(s) ==
    /\ visit.pc = "visit" /\ visit.left = {}
    /\ s \notin visit.open /\ visit.seen[s] >= 0 /\ visit.quotes < EntryQuotes
    /\ stored' = episode
    /\ visit' = [visit EXCEPT !.quotes = @ + 1, !.seen[s] = -1]
    /\ \E quoteAt \in Later, quoted \in BOOLEAN :
          /\ minute' = quoteAt
          /\ episode' = IF quoted /\ quoteAt - visit.seen[s] <= ObservationAge
                THEN [episode EXCEPT ![s] = [NoEpisode EXCEPT !.status = "open",
                                                !.entry = quoteAt, !.last = quoteAt]]
                ELSE episode

EndVisit ==
    /\ visit.pc = "visit" /\ visit.left = {}
    /\ stored' = episode /\ visit' = NoVisit
    /\ UNCHANGED <<minute, episode>>
\* The run raises or its process stops: what was not committed is gone.
VisitDies ==
    /\ visit.pc = "visit" /\ episode' = stored /\ visit' = NoVisit
    /\ UNCHANGED <<minute, stored>>
MinutePasses ==
    /\ minute < LastMinute /\ minute' = minute + 1
    /\ UNCHANGED <<episode, stored, visit>>

CarryNext ==
    \/ BeginVisit \/ EndVisit \/ VisitDies \/ MinutePasses
    \/ \E s \in Symbols :
          \/ SourceGap(s) \/ OutOfOrder(s) \/ Accrue(s)
          \/ SignalExit(s) \/ QuoteExit(s) \/ OpenEpisode(s)

CarrySpec == CarryInit /\ [][CarryNext]_carryVars

-----------------------------------------------------------------------------
Minutes == 0 .. LastMinute
Rows == [status: {"none", "open", "exit_pending", "closed"}, entry: Minutes,
         last: Minutes, measured: Minutes, unmeasured: Minutes, signal: Minutes,
         delay: Minutes,
         state: {"observed", "source_gap", "out_of_order_observation", "exit_quote_gap"}]
CarryTypeOK ==
    /\ minute \in Minutes
    /\ episode \in [Symbols -> Rows] /\ stored \in [Symbols -> Rows]
    /\ visit \in [pc: {"idle", "visit"}, at: Minutes, seen: [Symbols -> -1 .. LastMinute],
                  open: SUBSET Symbols, left: SUBSET Symbols, quotes: 0 .. EntryQuotes]

\* proxy_exclusion_reasons, of the clock: what the public cohort counts.
InCohort(e) == e.status = "closed" /\ e.unmeasured = 0 /\ e.delay <= QuoteSLA

\* Every minute of an episode is either measured or owned up to, through gaps,
\* late observations, pending exits and lost runs, and of one that the cohort
\* counts the whole life was measured.
TimeIsAccountedFor ==
    \A s \in Symbols : LET e == episode[s] IN
        /\ e.status # "none" => e.measured + e.unmeasured = e.last - e.entry
        /\ e.status \in {"exit_pending", "closed"} => e.last = e.signal
        /\ InCohort(e) => e.measured = e.signal - e.entry
=============================================================================
