--------------------------- MODULE ServiceProofs ----------------------------
(***************************************************************************)
(* Proofs about the services that keep a ledger or a file of their own,    *)
(* for every value of their constants: the two validation ledgers          *)
(* (CarryPaper, ConvergenceLedger), the vault tracker (HlpTracker) and the *)
(* operator sentinel (OperatorSentinel).                                   *)
(***************************************************************************)
EXTENDS CarryPaper, ConvergenceLedger, HlpTracker, OperatorSentinel,
        FiniteSetTheorems, WellFoundedInduction, TLAPS

(***************************************************************************)
(* CarryPaper.  What the episodes say of their time is true because their  *)
(* clocks stay behind the run that will visit them (VisitOK), and the      *)
(* run's behind the wall: each update then adds exactly the time it moves  *)
(* an episode's clock by.  The committed rows obey the same law, for a run *)
(* that dies falls back on them.                                           *)
(***************************************************************************)
\* The life of an episode up to its clock is measured or owned up to.
Accounted(e, now) ==
    /\ e.last <= now
    /\ e.status # "none" => e.measured + e.unmeasured = e.last - e.entry
    /\ e.status \in {"exit_pending", "closed"} => e.last = e.signal

AllAccounted(rows, now) == \A s \in Symbols : Accounted(rows[s], now)

\* An episode yet to be visited has not passed the run's clock, nor has an
\* observation.
VisitOK ==
    /\ visit.at <= minute
    /\ \A s \in Symbols : visit.seen[s] <= visit.at
    /\ \A s \in visit.left : episode[s].last <= visit.at
    /\ visit.left \subseteq visit.open

CarryIInv ==
    /\ CarryTypeOK
    /\ AllAccounted(episode, minute) /\ AllAccounted(stored, minute)
    /\ VisitOK

-----------------------------------------------------------------------------
\* One episode, updated.

LEMMA NoEpisodeOK ==
    ASSUME NEW now \in Minutes
    PROVE  NoEpisode \in Rows /\ Accounted(NoEpisode, now)
  BY CarryAssumption DEF NoEpisode, Rows, Minutes, Accounted

LEMMA LaterOK ==
    ASSUME minute \in Minutes, NEW m \in Later
    PROVE  m \in Minutes /\ minute <= m
  BY CarryAssumption DEF Later, Minutes

LEMMA AccountedLater ==
    ASSUME NEW e \in Rows, NEW m \in Minutes, NEW n \in Minutes, m <= n, Accounted(e, m)
    PROVE  Accounted(e, n)
  BY CarryAssumption DEF Accounted, Rows, Minutes

LEMMA GappedOK ==
    ASSUME NEW e \in Rows, NEW at \in Minutes, NEW now \in Minutes,
           e.status = "open", e.last <= at, at <= now, Accounted(e, now)
    PROVE  Gapped(e, at) \in Rows /\ Accounted(Gapped(e, at), now)
<1>1. /\ e.measured + e.unmeasured = e.last - e.entry
      /\ e.measured \in 0 .. LastMinute /\ e.unmeasured \in 0 .. LastMinute
      /\ e.last \in 0 .. LastMinute /\ e.entry \in 0 .. LastMinute
      /\ at \in 0 .. LastMinute /\ now \in 0 .. LastMinute /\ LastMinute \in Nat
  BY CarryAssumption DEF Accounted, Rows, Minutes
<1> DEFINE u == IF at > e.last THEN e.unmeasured + at - e.last ELSE e.unmeasured
<1>2. u \in 0 .. LastMinute /\ e.measured + u = at - e.entry
  BY <1>1
<1>3. Gapped(e, at) = [e EXCEPT !.last = at, !.state = "source_gap", !.unmeasured = u]
  BY DEF Gapped, Rows
<1> HIDE DEF u
<1>4. Gapped(e, at) \in Rows
  BY <1>2, <1>3 DEF Rows, Minutes
<1>5. QED  BY <1>2, <1>3, <1>4 DEF Rows, Accounted

LEMMA AccruedOK ==
    ASSUME NEW e \in Rows, NEW at \in Minutes, NEW now \in Minutes,
           e.status = "open", e.last <= at, at <= now, Accounted(e, now)
    PROVE  /\ Accrued(e, at) \in Rows /\ Accounted(Accrued(e, at), now)
           /\ Accrued(e, at).last = at /\ Accrued(e, at).status = "open"
<1>1. /\ e.measured + e.unmeasured = e.last - e.entry
      /\ e.measured \in 0 .. LastMinute /\ e.unmeasured \in 0 .. LastMinute
      /\ e.last \in 0 .. LastMinute /\ e.entry \in 0 .. LastMinute
      /\ at \in 0 .. LastMinute /\ now \in 0 .. LastMinute /\ LastMinute \in Nat
  BY CarryAssumption DEF Accounted, Rows, Minutes
<1> DEFINE m == IF IsValid(e, at) THEN e.measured + at - e.last ELSE e.measured
           u == IF IsValid(e, at) THEN e.unmeasured ELSE e.unmeasured + at - e.last
<1>2. m \in 0 .. LastMinute /\ u \in 0 .. LastMinute /\ m + u = at - e.entry
  BY <1>1
<1>3. Accrued(e, at) = [e EXCEPT !.last = at, !.state = "observed",
                                 !.measured = m, !.unmeasured = u]
  BY DEF Accrued, Rows
<1> HIDE DEF m, u
<1>4. Accrued(e, at) \in Rows
  BY <1>2, <1>3 DEF Rows, Minutes
<1>5. QED  BY <1>2, <1>3, <1>4 DEF Rows, Accounted

-----------------------------------------------------------------------------
\* One episode of the run is replaced, it is no longer to visit, and the rows
\* committed are the old ones or the ones before this step.
LEMMA OneEpisode ==
    ASSUME CarryIInv, NEW s \in Symbols, NEW e \in Rows,
           episode' = [episode EXCEPT ![s] = e],
           stored' \in {stored, episode},
           minute' \in Minutes, minute <= minute', Accounted(e, minute'),
           visit' = Leaves(s)
    PROVE  CarryIInv'
<1>1. /\ visit'.at = visit.at /\ visit'.seen = visit.seen /\ visit'.open = visit.open
      /\ visit'.left = visit.left \ {s}
      /\ visit' \in [pc: {"idle", "visit"}, at: Minutes, seen: [Symbols -> -1 .. LastMinute],
                     open: SUBSET Symbols, left: SUBSET Symbols, quotes: 0 .. EntryQuotes]
  BY DEF Leaves, CarryIInv, CarryTypeOK
<1>2. CarryTypeOK'
  BY <1>1 DEF CarryIInv, CarryTypeOK
<1>3. \A t \in Symbols : /\ episode[t] \in Rows /\ stored[t] \in Rows
                         /\ Accounted(episode[t], minute') /\ Accounted(stored[t], minute')
  BY AccountedLater DEF CarryIInv, CarryTypeOK, AllAccounted
<1>4. AllAccounted(episode, minute)' /\ AllAccounted(stored, minute)'
  <2>1. ASSUME NEW t \in Symbols
        PROVE  Accounted(episode'[t], minute') /\ Accounted(stored'[t], minute')
    BY <1>3 DEF CarryIInv, CarryTypeOK
  <2>2. QED  BY <2>1 DEF AllAccounted, Accounted
<1>5. VisitOK'
  <2>1. \A t \in visit'.left : episode'[t] = episode[t]
    BY <1>1 DEF CarryIInv, CarryTypeOK
  <2>2. QED  BY <1>1, <2>1, CarryAssumption DEF CarryIInv, CarryTypeOK, VisitOK, Minutes
<1>6. QED  BY <1>2, <1>4, <1>5 DEF CarryIInv

\* What a visit knows of the episode it visits.
LEMMA Visited ==
    ASSUME CarryIInv, NEW s \in Symbols, NEW status, Visiting(s, status)
    PROVE  /\ episode[s] \in Rows /\ Accounted(episode[s], minute)
           /\ episode[s].status = status /\ episode[s].last <= visit.at
           /\ visit.at \in Minutes /\ minute \in Minutes /\ visit.at <= minute
           /\ visit.seen[s] \in -1 .. LastMinute /\ visit.seen[s] <= visit.at
           /\ visit' = Leaves(s)
  BY DEF Visiting, CarryIInv, CarryTypeOK, AllAccounted, VisitOK

\* An observation in order is one the episode can accrue to.
LEMMA AccruesTo ==
    ASSUME CarryIInv, NEW s \in Symbols, Visiting(s, "open"), InOrder(s)
    PROVE  /\ visit.seen[s] \in Minutes /\ visit.seen[s] <= minute
           /\ Accrued(episode[s], visit.seen[s]) \in Rows
           /\ Accounted(Accrued(episode[s], visit.seen[s]), minute)
           /\ Accrued(episode[s], visit.seen[s]).last = visit.seen[s]
           /\ Accrued(episode[s], visit.seen[s]).status = "open"
<1>1. /\ episode[s] \in Rows /\ Accounted(episode[s], minute)
      /\ episode[s].status = "open" /\ episode[s].last <= visit.seen[s]
      /\ minute \in Minutes /\ visit.seen[s] \in Minutes /\ visit.seen[s] <= minute
  BY Visited, CarryAssumption DEF InOrder, Rows, Minutes
<1>2. QED  BY <1>1, AccruedOK

-----------------------------------------------------------------------------
LEMMA CarryInitInv == CarryInit => CarryIInv
<1> SUFFICES ASSUME CarryInit PROVE CarryIInv
  OBVIOUS
<1>1. minute \in Minutes
  BY CarryAssumption DEF CarryInit, Minutes
<1>2. NoEpisode \in Rows /\ Accounted(NoEpisode, minute)
  BY <1>1, NoEpisodeOK
<1>3. CarryTypeOK
  BY <1>1, <1>2, CarryAssumption DEF CarryInit, CarryTypeOK, NoVisit, Minutes
<1>4. AllAccounted(episode, minute) /\ AllAccounted(stored, minute)
  BY <1>2 DEF CarryInit, AllAccounted
<1>5. VisitOK
  BY DEF CarryInit, VisitOK, NoVisit
<1>6. QED  BY <1>3, <1>4, <1>5 DEF CarryIInv

\* Gaps, late observations and updates.
LEMMA VisitsInv ==
    ASSUME CarryIInv, NEW s \in Symbols, SourceGap(s) \/ OutOfOrder(s) \/ Accrue(s)
    PROVE  CarryIInv'
<1>5. ASSUME UNCHANGED <<minute, stored>>
      PROVE  /\ minute' \in Minutes /\ minute <= minute' /\ stored' \in {stored, episode}
             /\ minute' = minute
  BY <1>5, CarryAssumption DEF CarryIInv, CarryTypeOK, Minutes
<1>6. Visiting(s, "open") => visit' = Leaves(s)
  BY DEF Visiting
<1>1. CASE SourceGap(s)
  <2>1. Visiting(s, "open")
    BY <1>1 DEF SourceGap
  <2>2. Gapped(episode[s], visit.at) \in Rows
        /\ Accounted(Gapped(episode[s], visit.at), minute)
    BY <2>1, Visited, GappedOK
  <2>3. episode' = [episode EXCEPT ![s] = Gapped(episode[s], visit.at)]
        /\ UNCHANGED <<minute, stored>>
    BY <1>1 DEF SourceGap, CarryIInv, CarryTypeOK
  <2>4. QED  BY <2>1, <2>2, <2>3, <1>5, <1>6, OneEpisode
<1>2. CASE OutOfOrder(s)
  <2> DEFINE e == [episode[s] EXCEPT !.state = "out_of_order_observation"]
  <2>1. Visiting(s, "open")
    BY <1>2 DEF OutOfOrder
  <2>2. e \in Rows /\ Accounted(e, minute)
    BY <2>1, Visited DEF Rows, Accounted
  <2>3. episode' = [episode EXCEPT ![s] = e] /\ UNCHANGED <<minute, stored>>
    BY <1>2 DEF OutOfOrder, CarryIInv, CarryTypeOK
  <2> HIDE DEF e
  <2>4. QED  BY <2>1, <2>2, <2>3, <1>5, <1>6, OneEpisode
<1>3. CASE Accrue(s)
  <2>1. Visiting(s, "open") /\ InOrder(s)
    BY <1>3 DEF Accrue
  <2>2. episode' = [episode EXCEPT ![s] = Accrued(episode[s], visit.seen[s])]
        /\ UNCHANGED <<minute, stored>>
    BY <1>3 DEF Accrue, CarryIInv, CarryTypeOK
  <2>3. Accrued(episode[s], visit.seen[s]) \in Rows
        /\ Accounted(Accrued(episode[s], visit.seen[s]), minute)
    BY <2>1, AccruesTo
  <2>4. QED  BY <2>1, <2>2, <2>3, <1>5, <1>6, OneEpisode
<1>4. QED  BY <1>1, <1>2, <1>3

\* Exits, signalled and quoted: the clock stands still at the signal.
LEMMA SignalInv == ASSUME CarryIInv, NEW s \in Symbols, SignalExit(s) PROVE CarryIInv'
<1>1. Visiting(s, "open") /\ InOrder(s) /\ stored' = episode
  BY DEF SignalExit
<1>2. PICK quoteAt \in Later, quoted \in BOOLEAN :
          /\ minute' = quoteAt
          /\ episode' = [episode EXCEPT ![s] =
                [Accrued(@, visit.seen[s]) EXCEPT
                    !.status = IF quoted THEN "closed" ELSE "exit_pending",
                    !.state = IF quoted THEN "observed" ELSE "exit_quote_gap",
                    !.signal = visit.seen[s],
                    !.delay = IF quoted THEN quoteAt - visit.seen[s] ELSE 0]]
  BY DEF SignalExit
<1> DEFINE accrued == Accrued(episode[s], visit.seen[s])
           delay == IF quoted THEN quoteAt - visit.seen[s] ELSE 0
           e == [accrued EXCEPT
                    !.status = IF quoted THEN "closed" ELSE "exit_pending",
                    !.state = IF quoted THEN "observed" ELSE "exit_quote_gap",
                    !.signal = visit.seen[s], !.delay = delay]
<1>3. /\ accrued \in Rows /\ Accounted(accrued, minute) /\ accrued.last = visit.seen[s]
      /\ accrued.status = "open" /\ visit.seen[s] \in Minutes /\ visit.seen[s] <= minute
  BY <1>1, AccruesTo
<1>4. quoteAt \in Minutes /\ minute <= quoteAt /\ minute \in Minutes
  BY <1>2, LaterOK DEF CarryIInv, CarryTypeOK
<1>5. delay \in Minutes
  BY <1>3, <1>4, CarryAssumption DEF Minutes
<1>6. episode' = [episode EXCEPT ![s] = e]
  BY <1>2 DEF CarryIInv, CarryTypeOK
<1> HIDE DEF accrued, delay
<1>7. e \in Rows /\ e.last = accrued.last /\ e.entry = accrued.entry
      /\ e.measured = accrued.measured /\ e.unmeasured = accrued.unmeasured
      /\ e.signal = visit.seen[s]
  BY <1>3, <1>5 DEF Rows
<1>8. Accounted(e, minute')
  <2>1. accrued.measured + accrued.unmeasured = accrued.last - accrued.entry
    BY <1>3 DEF Accounted
  <2>2. visit.seen[s] <= quoteAt
    BY <1>3, <1>4, CarryAssumption DEF Minutes
  <2> HIDE DEF e
  <2>3. QED  BY <1>2, <1>3, <1>7, <2>1, <2>2 DEF Accounted
<1> HIDE DEF e
<1>9. QED  BY <1>1, <1>2, <1>4, <1>6, <1>7, <1>8, Visited, OneEpisode

LEMMA QuoteInv == ASSUME CarryIInv, NEW s \in Symbols, QuoteExit(s) PROVE CarryIInv'
<1>1. Visiting(s, "exit_pending") /\ stored' = episode
  BY DEF QuoteExit
<1>2. PICK quoteAt \in Later, quoted \in BOOLEAN :
          /\ minute' = quoteAt
          /\ episode' = IF quoted
                THEN [episode EXCEPT ![s].status = "closed", ![s].state = "observed",
                                     ![s].delay = quoteAt - episode[s].signal]
                ELSE [episode EXCEPT ![s].state = "exit_quote_gap"]
  BY DEF QuoteExit
<1> DEFINE e == IF quoted
                THEN [episode[s] EXCEPT !.status = "closed", !.state = "observed",
                                        !.delay = quoteAt - episode[s].signal]
                ELSE [episode[s] EXCEPT !.state = "exit_quote_gap"]
<1>3. /\ episode[s] \in Rows /\ Accounted(episode[s], minute)
      /\ episode[s].status = "exit_pending"
  BY <1>1, Visited
<1>4. quoteAt \in Minutes /\ minute <= quoteAt /\ minute \in Minutes
  BY <1>2, LaterOK DEF CarryIInv, CarryTypeOK
<1>5. quoteAt - episode[s].signal \in Minutes
  BY <1>3, <1>4, CarryAssumption DEF Rows, Accounted, Minutes
<1>6. episode' = [episode EXCEPT ![s] = e]
  BY <1>2 DEF CarryIInv, CarryTypeOK
<1>7. e \in Rows
  BY <1>3, <1>5 DEF Rows
<1>8. Accounted(e, minute')
  <2>1. Accounted(episode[s], minute')
    BY <1>2, <1>3, <1>4, AccountedLater
  <2>2. QED  BY <1>3, <2>1 DEF Accounted, Rows
<1> HIDE DEF e
<1>9. QED  BY <1>1, <1>2, <1>4, <1>6, <1>7, <1>8, Visited, OneEpisode

\* New episodes, when nothing is left to visit.
LEMMA OpensInv == ASSUME CarryIInv, NEW s \in Symbols, OpenEpisode(s) PROVE CarryIInv'
<1>1. /\ visit.left = {} /\ visit.quotes < EntryQuotes /\ visit.seen[s] >= 0
      /\ stored' = episode
      /\ visit' = [visit EXCEPT !.quotes = @ + 1, !.seen[s] = -1]
  BY DEF OpenEpisode
<1>2. PICK quoteAt \in Later, e \in Rows :
          /\ minute' = quoteAt
          /\ Accounted(e, quoteAt) /\ episode' = [episode EXCEPT ![s] = e]
  <2>1. PICK quoteAt \in Later, quoted \in BOOLEAN :
          /\ minute' = quoteAt
          /\ episode' = IF quoted /\ quoteAt - visit.seen[s] <= ObservationAge
                THEN [episode EXCEPT ![s] = [NoEpisode EXCEPT !.status = "open",
                                                !.entry = quoteAt, !.last = quoteAt]]
                ELSE episode
    BY DEF OpenEpisode
  <2>2. quoteAt \in Minutes /\ minute <= quoteAt /\ minute \in Minutes
    BY <2>1, LaterOK DEF CarryIInv, CarryTypeOK
  <2> DEFINE new == [NoEpisode EXCEPT !.status = "open", !.entry = quoteAt, !.last = quoteAt]
  <2>3. new \in Rows /\ Accounted(new, quoteAt)
    <3>1. 0 \in Minutes /\ quoteAt - quoteAt = 0 /\ 0 + 0 = 0 /\ quoteAt <= quoteAt
      BY <2>2, CarryAssumption DEF Minutes
    <3>2. NoEpisode \in Rows /\ NoEpisode.measured = 0 /\ NoEpisode.unmeasured = 0
      BY <2>2, NoEpisodeOK DEF NoEpisode
    <3> HIDE DEF NoEpisode
    <3>3. /\ new \in Rows /\ new.status = "open" /\ new.entry = quoteAt /\ new.last = quoteAt
          /\ new.measured = 0 /\ new.unmeasured = 0
      BY <2>2, <3>2 DEF Rows
    <3> HIDE DEF new
    <3>4. QED  BY <3>1, <3>3 DEF Accounted
  <2>4. episode[s] \in Rows /\ Accounted(episode[s], quoteAt)
        /\ episode = [episode EXCEPT ![s] = episode[s]]
    BY <2>2, AccountedLater DEF CarryIInv, CarryTypeOK, AllAccounted
  <2> HIDE DEF new
  <2>5. episode' \in {[episode EXCEPT ![s] = new], [episode EXCEPT ![s] = episode[s]]}
    BY <2>1, <2>4 DEF new
  <2>6. QED  BY <2>1, <2>3, <2>4, <2>5
<1>3. quoteAt \in Minutes /\ minute <= quoteAt /\ minute \in Minutes
  BY <1>2, LaterOK DEF CarryIInv, CarryTypeOK
<1>4. /\ visit'.at = visit.at /\ visit'.open = visit.open /\ visit'.left = {}
      /\ \A t \in Symbols : visit'.seen[t] = IF t = s THEN -1 ELSE visit.seen[t]
      /\ visit' \in [pc: {"idle", "visit"}, at: Minutes, seen: [Symbols -> -1 .. LastMinute],
                     open: SUBSET Symbols, left: SUBSET Symbols, quotes: 0 .. EntryQuotes]
  <2>1. visit.quotes + 1 \in 0 .. EntryQuotes /\ -1 \in -1 .. LastMinute
    BY <1>1, CarryAssumption DEF CarryIInv, CarryTypeOK
  <2> DEFINE seen == [visit.seen EXCEPT ![s] = -1]
             quotes == visit.quotes + 1
  <2>2. visit' = [visit EXCEPT !.quotes = quotes, !.seen = seen]
    BY <1>1 DEF CarryIInv, CarryTypeOK
  <2>3. seen \in [Symbols -> -1 .. LastMinute]
        /\ \A t \in Symbols : seen[t] = IF t = s THEN -1 ELSE visit.seen[t]
    BY <2>1 DEF CarryIInv, CarryTypeOK
  <2> HIDE DEF seen, quotes
  <2>4. quotes \in 0 .. EntryQuotes
    BY <2>1 DEF quotes
  <2>5. QED  BY <1>1, <2>2, <2>3, <2>4 DEF CarryIInv, CarryTypeOK
<1>5. CarryTypeOK'
  BY <1>1, <1>2, <1>3, <1>4 DEF CarryIInv, CarryTypeOK
<1>6. AllAccounted(episode, minute)' /\ AllAccounted(stored, minute)'
  <2>1. ASSUME NEW t \in Symbols
        PROVE  Accounted(episode'[t], minute') /\ Accounted(stored'[t], minute')
    <3>1. episode[t] \in Rows /\ Accounted(episode[t], quoteAt)
      BY <1>3, AccountedLater DEF CarryIInv, CarryTypeOK, AllAccounted
    <3>2. QED  BY <1>1, <1>2, <3>1 DEF CarryIInv, CarryTypeOK
  <2>2. QED  BY <2>1 DEF AllAccounted, Accounted
<1>7. VisitOK'
  BY <1>2, <1>3, <1>4, CarryAssumption DEF CarryIInv, CarryTypeOK, VisitOK, Minutes
<1>8. QED  BY <1>5, <1>6, <1>7 DEF CarryIInv

\* The run's own steps, and the clock.
LEMMA RunInv ==
    ASSUME CarryIInv, BeginVisit \/ EndVisit \/ VisitDies \/ MinutePasses
    PROVE  CarryIInv'
<1>1. CASE BeginVisit
  <2>1. PICK seen \in [Symbols -> {-1} \cup {m \in 0 .. minute : minute - m <= ObservationAge}] :
          visit' = [pc |-> "visit", at |-> minute, seen |-> seen,
                    open |-> {s \in Symbols : IsOpen(episode[s])},
                    left |-> {s \in Symbols : IsOpen(episode[s])}, quotes |-> 0]
    BY <1>1 DEF BeginVisit
  <2>2. \A s \in Symbols : seen[s] \in -1 .. LastMinute /\ seen[s] <= minute
    BY <2>1, CarryAssumption DEF CarryIInv, CarryTypeOK, Minutes
  <2>3. CarryTypeOK'
    <3>1. seen \in [Symbols -> -1 .. LastMinute]
      BY <2>2
    <3>2. QED  BY <1>1, <2>1, <3>1, CarryAssumption DEF BeginVisit, CarryIInv, CarryTypeOK
  <2>4. AllAccounted(episode, minute)' /\ AllAccounted(stored, minute)'
    BY <1>1 DEF BeginVisit, CarryIInv, AllAccounted, Accounted
  <2>5. VisitOK'
    BY <1>1, <2>1, <2>2, CarryAssumption
       DEF BeginVisit, CarryIInv, CarryTypeOK, Minutes, AllAccounted, Accounted, VisitOK
  <2>6. QED  BY <2>3, <2>4, <2>5 DEF CarryIInv
<1>2. NoVisit \in [pc: {"idle", "visit"}, at: Minutes, seen: [Symbols -> -1 .. LastMinute],
                   open: SUBSET Symbols, left: SUBSET Symbols, quotes: 0 .. EntryQuotes]
      /\ NoVisit.at = 0 /\ NoVisit.left = {} /\ NoVisit.open = {}
      /\ \A s \in Symbols : NoVisit.seen[s] <= NoVisit.at
  BY CarryAssumption DEF NoVisit, Minutes
<1>3. CASE EndVisit
  <2>1. CarryTypeOK'
    BY <1>2, <1>3 DEF EndVisit, CarryIInv, CarryTypeOK
  <2>2. AllAccounted(episode, minute)' /\ AllAccounted(stored, minute)'
    BY <1>3 DEF EndVisit, CarryIInv, AllAccounted, Accounted
  <2>3. VisitOK'
    BY <1>2, <1>3, CarryAssumption DEF EndVisit, CarryIInv, CarryTypeOK, VisitOK, Minutes
  <2>4. QED  BY <2>1, <2>2, <2>3 DEF CarryIInv
<1>4. CASE VisitDies
  <2>1. CarryTypeOK'
    BY <1>2, <1>4 DEF VisitDies, CarryIInv, CarryTypeOK
  <2>2. AllAccounted(episode, minute)' /\ AllAccounted(stored, minute)'
    BY <1>4 DEF VisitDies, CarryIInv, AllAccounted, Accounted
  <2>3. VisitOK'
    BY <1>2, <1>4, CarryAssumption DEF VisitDies, CarryIInv, CarryTypeOK, VisitOK, Minutes
  <2>4. QED  BY <2>1, <2>2, <2>3 DEF CarryIInv
<1>5. CASE MinutePasses
  <2>1. minute' = minute + 1 /\ minute \in Minutes /\ minute' \in Minutes /\ minute <= minute'
        /\ UNCHANGED <<episode, stored, visit>>
    BY <1>5, CarryAssumption DEF MinutePasses, CarryIInv, CarryTypeOK, Minutes
  <2>2. CarryTypeOK'
    BY <2>1 DEF CarryIInv, CarryTypeOK
  <2>3. AllAccounted(episode, minute)' /\ AllAccounted(stored, minute)'
    <3>1. ASSUME NEW s \in Symbols
          PROVE  Accounted(episode[s], minute') /\ Accounted(stored[s], minute')
      BY <2>1, AccountedLater DEF CarryIInv, CarryTypeOK, AllAccounted
    <3>2. QED  BY <2>1, <3>1 DEF AllAccounted, Accounted
  <2>4. VisitOK'
    BY <2>1, CarryAssumption DEF CarryIInv, CarryTypeOK, VisitOK, Minutes
  <2>5. QED  BY <2>2, <2>3, <2>4 DEF CarryIInv
<1>6. QED  BY <1>1, <1>3, <1>4, <1>5

LEMMA CarryStepInv == CarryIInv /\ [CarryNext]_carryVars => CarryIInv'
<1> SUFFICES ASSUME CarryIInv, [CarryNext]_carryVars PROVE CarryIInv'
  OBVIOUS
<1>1. CASE UNCHANGED carryVars
  BY <1>1 DEF carryVars, CarryIInv, CarryTypeOK, AllAccounted, Accounted, VisitOK
<1>2. QED  BY <1>1, VisitsInv, SignalInv, QuoteInv, OpensInv, RunInv DEF CarryNext

-----------------------------------------------------------------------------
\* The rows, as seen and as committed, and the run keep their types: among them
\* that no measured, unmeasured or delayed time is negative.
THEOREM CarryTypeCorrect == CarrySpec => []CarryTypeOK
<1>1. CarryIInv => CarryTypeOK
  BY DEF CarryIInv
<1>2. QED  BY <1>1, CarryInitInv, CarryStepInv, PTL DEF CarrySpec

\* Every minute of an episode is measured or owned up to, and of an episode the
\* public cohort counts, every minute up to its exit signal was measured
\* (carry_paper.run, proxy_exclusion_reasons).
THEOREM TimeAccounted == CarrySpec => []TimeIsAccountedFor
<1>1. ASSUME CarryIInv PROVE TimeIsAccountedFor
  <2>1. SUFFICES ASSUME NEW s \in Symbols
                 PROVE  LET e == episode[s] IN
                        /\ e.status # "none" => e.measured + e.unmeasured = e.last - e.entry
                        /\ e.status \in {"exit_pending", "closed"} => e.last = e.signal
                        /\ InCohort(e) => e.measured = e.signal - e.entry
    BY DEF TimeIsAccountedFor
  <2>2. episode[s] \in Rows /\ Accounted(episode[s], minute)
    BY <1>1 DEF CarryIInv, CarryTypeOK, AllAccounted
  <2>3. QED  BY <2>2, CarryAssumption DEF Accounted, Rows, Minutes, InCohort
<1>2. QED  BY <1>1, CarryInitInv, CarryStepInv, PTL DEF CarrySpec

-----------------------------------------------------------------------------
(***************************************************************************)
(* ConvergenceLedger.  That a horizon is frozen by the first run that      *)
(* could is about every run that ever resolved.  It is inductive once the  *)
(* minimum is unfolded (Frozen), with the clocks that keep the past in     *)
(* order: no run and no event lies ahead of the wall.                      *)
(***************************************************************************)
Late(o, runs) == {t \in runs : t >= o.event.seen + o.horizon}

\* The horizon is open and no run came late enough, or a run froze it and no
\* earlier one could have.
Frozen(o, runs) ==
    \/ o.resolved = Unresolved /\ Late(o, runs) = {}
    \/ /\ o.resolved \in Late(o, runs)
       /\ \A t \in Late(o, runs) : o.resolved <= t

Behind ==
    /\ \A e \in events : e.seen <= tick
    /\ \A t \in resolvers : t <= tick

LedgerIInv == LedgerTypeOK /\ Behind /\ \A o \in outcomes : Frozen(o, resolvers)

Event == [token: Tokens, seen: LedgerTicks, priced: BOOLEAN]
Outcome(E) == [event: E, horizon: Horizons, resolved: 0..Unresolved, measured: BOOLEAN]

LEMMA LedgerNumbers ==
    /\ LastLedgerTick \in Nat /\ Unresolved = LastLedgerTick + 1
    /\ LedgerTicks = 0..LastLedgerTick
    /\ \A h \in Horizons : h \in Nat /\ h >= 1
  BY ConvergenceAssumption DEF Unresolved, LedgerTicks

\* What is known of an outcome and of a run.
LEMMA OutcomeNumbers ==
    ASSUME LedgerIInv, NEW o \in outcomes
    PROVE  /\ o \in Outcome(events) /\ o.event \in events
           /\ o.event.seen \in 0..LastLedgerTick /\ o.event.seen <= tick
           /\ o.horizon \in Nat /\ o.horizon >= 1 /\ tick \in 0..LastLedgerTick
           /\ o.resolved \in 0..Unresolved
           /\ \A t \in resolvers : t \in 0..LastLedgerTick /\ t <= tick
<1>1. o \in Outcome(events) /\ events \subseteq Event
  BY DEF LedgerIInv, LedgerTypeOK, Outcome, Event
<1>2. QED  BY <1>1, LedgerNumbers DEF LedgerIInv, LedgerTypeOK, Behind, Outcome, Event

-----------------------------------------------------------------------------
LEMMA LedgerInitInv == LedgerInit => LedgerIInv
<1> SUFFICES ASSUME LedgerInit PROVE LedgerIInv
  OBVIOUS
<1>1. tick \in LedgerTicks
  BY LedgerNumbers DEF LedgerInit
<1>2. LedgerTypeOK
  BY <1>1 DEF LedgerInit, LedgerTypeOK
<1>3. Behind /\ \A o \in outcomes : Frozen(o, resolvers)
  BY DEF LedgerInit, Behind
<1>4. QED  BY <1>2, <1>3 DEF LedgerIInv

\* A frozen convergence is an open horizon nothing has been late for.
LEMMA RecordInv == ASSUME LedgerIInv, RecordEvents PROVE LedgerIInv'
<1>1. PICK new \in SUBSET Event :
         /\ \A e \in new : e.seen = tick
         /\ events' = events \cup new
         /\ outcomes' = outcomes \cup
               [event: new, horizon: Horizons, resolved: {Unresolved}, measured: {FALSE}]
  <2>1. PICK shown \in SUBSET Tokens, served \in SUBSET Tokens :
         LET new == {[token |-> token, seen |-> tick, priced |-> token \in served] :
                       token \in {k \in shown : ~Known(k)}}
         IN  /\ events' = events \cup new
             /\ outcomes' = outcomes \cup
                  [event: new, horizon: Horizons, resolved: {Unresolved}, measured: {FALSE}]
    <3>1. PICK shown \in SUBSET Tokens : \E served \in SUBSET shown :
         LET new == {[token |-> token, seen |-> tick, priced |-> token \in served] :
                       token \in {k \in shown : ~Known(k)}}
         IN  /\ events' = events \cup new
             /\ outcomes' = outcomes \cup
                  [event: new, horizon: Horizons, resolved: {Unresolved}, measured: {FALSE}]
      BY DEF RecordEvents
    <3>2. SUBSET shown \subseteq SUBSET Tokens
      OBVIOUS
    <3>3. QED  BY <3>1, <3>2, Zenon
  <2>2. /\ {[token |-> token, seen |-> tick, priced |-> token \in served] :
               token \in {k \in shown : ~Known(k)}} \in SUBSET Event
        /\ \A e \in {[token |-> token, seen |-> tick, priced |-> token \in served] :
                       token \in {k \in shown : ~Known(k)}} : e.seen = tick
    <3>1. ASSUME NEW token \in shown
          PROVE  [token |-> token, seen |-> tick, priced |-> token \in served] \in Event
      <4> DEFINE priced == token \in served
      <4>1. priced = TRUE \/ priced = FALSE
        OBVIOUS
      <4> HIDE DEF priced
      <4>2. [token |-> token, seen |-> tick, priced |-> priced] \in Event
        BY <4>1 DEF Event, LedgerIInv, LedgerTypeOK
      <4>3. QED  BY <4>2 DEF priced
    <3>2. QED  BY <3>1
  <2>3. QED  BY <2>1, <2>2
<1>2. UNCHANGED <<tick, disk, resolvers>> /\ running' = TRUE
  BY DEF RecordEvents
<1>3. tick \in 0..LastLedgerTick
  BY DEF LedgerIInv, LedgerTypeOK, LedgerTicks
<1>4. events' \subseteq Event
  BY <1>1 DEF LedgerIInv, LedgerTypeOK, Event
<1>5. ASSUME NEW o \in outcomes' PROVE o \in Outcome(events')
  <2>1. Unresolved \in 0..Unresolved
    BY LedgerNumbers
  <2>2. CASE o \in outcomes
    BY <1>1, <2>2 DEF LedgerIInv, LedgerTypeOK, Outcome
  <2>3. CASE o \in [event: new, horizon: Horizons, resolved: {Unresolved}, measured: {FALSE}]
    BY <1>1, <2>1, <2>3 DEF Outcome
  <2>4. QED  BY <1>1, <2>2, <2>3
<1>6. LedgerTypeOK'
  BY <1>2, <1>4, <1>5 DEF LedgerIInv, LedgerTypeOK, Outcome, Event
<1>7. Behind'
  BY <1>1, <1>2, <1>3 DEF LedgerIInv, Behind
<1>8. ASSUME NEW o \in outcomes' PROVE Frozen(o, resolvers')
  <2>1. CASE o \in outcomes
    BY <1>2, <2>1 DEF LedgerIInv
  <2>2. CASE o \in [event: new, horizon: Horizons, resolved: {Unresolved}, measured: {FALSE}]
    <3>1. o.event.seen = tick /\ o.horizon \in Nat /\ o.horizon >= 1 /\ o.resolved = Unresolved
      BY <1>1, <2>2, LedgerNumbers
    <3>2. \A t \in resolvers' : t \in 0..LastLedgerTick /\ t <= tick
      BY <1>2 DEF LedgerIInv, LedgerTypeOK, LedgerTicks, Behind
    <3>3. Late(o, resolvers') = {}
      BY <1>3, <3>1, <3>2 DEF Late
    <3>4. QED  BY <3>1, <3>3 DEF Frozen
  <2>3. QED  BY <1>1, <2>1, <2>2
<1>9. QED  BY <1>6, <1>7, <1>8 DEF LedgerIInv

\* A run resolves what is due at its tick, which is the first late enough for
\* what was open and later than what froze the rest.
LEMMA ResolveInv == ASSUME LedgerIInv, Resolve PROVE LedgerIInv'
<1>1. PICK served \in SUBSET Tokens :
         outcomes' = {IF IsDue(o) THEN Filled(o, served) ELSE o : o \in outcomes}
  BY DEF Resolve
<1>2. running' = FALSE /\ resolvers' = resolvers \cup {tick} /\ UNCHANGED <<tick, disk, events>>
  BY DEF Resolve
<1>3. tick \in 0..LastLedgerTick
  BY DEF LedgerIInv, LedgerTypeOK, LedgerTicks
<1>4. ASSUME NEW o \in outcomes
      PROVE  LET n == IF IsDue(o) THEN Filled(o, served) ELSE o
             IN  n \in Outcome(events) /\ Frozen(n, resolvers')
  <2>1. CASE IsDue(o)
    <3> DEFINE n == Filled(o, served)
    <3>1. n \in Outcome(events) /\ n.event = o.event /\ n.horizon = o.horizon
          /\ n.resolved = tick
      <4>1. (o.event.priced /\ o.event.token \in served) \in BOOLEAN
        OBVIOUS
      <4>2. tick \in 0..Unresolved
        BY <1>3, LedgerNumbers
      <4>3. QED  BY <4>1, <4>2, OutcomeNumbers DEF Filled, Outcome
    <3> HIDE DEF n
    <3>2. o.resolved = Unresolved /\ o.event.seen + o.horizon <= tick
      BY <2>1 DEF IsDue, DueRow
    <3>3. Late(o, resolvers) = {}
      <4>1. Unresolved \notin Late(o, resolvers)
        BY OutcomeNumbers, LedgerNumbers DEF Late
      <4>2. QED  BY <3>2, <4>1 DEF LedgerIInv, Frozen
    <3>4. Late(n, resolvers') = {tick}
      BY <1>2, <3>1, <3>2, <3>3 DEF Late
    <3>5. QED  BY <1>3, <2>1, <3>1, <3>4 DEF Frozen, n
  <2>2. CASE o.resolved = Unresolved /\ ~DueRow(o)
    <3>1. Late(o, resolvers) = {}
      BY <2>2, OutcomeNumbers, LedgerNumbers DEF LedgerIInv, Frozen, Late
    <3>2. Late(o, resolvers') = {}
      BY <1>2, <2>2, <3>1, OutcomeNumbers DEF Late, DueRow
    <3>3. QED  BY <2>2, <3>2, OutcomeNumbers DEF Frozen, IsDue
  <2>3. CASE o.resolved # Unresolved
    <3>1. o.resolved \in Late(o, resolvers) /\ \A t \in Late(o, resolvers) : o.resolved <= t
      BY <2>3 DEF LedgerIInv, Frozen
    <3>2. o.resolved <= tick
      BY <3>1, OutcomeNumbers DEF Late
    <3>3. o.resolved \in Late(o, resolvers') /\ \A t \in Late(o, resolvers') : o.resolved <= t
      BY <1>2, <3>1, <3>2 DEF Late
    <3>4. QED  BY <2>3, <3>3, OutcomeNumbers DEF Frozen, IsDue
  <2>4. QED  BY <2>1, <2>2, <2>3 DEF IsDue
<1>5. \A n \in outcomes' : n \in Outcome(events) /\ Frozen(n, resolvers')
  BY <1>1, <1>4
<1>6. LedgerTypeOK'
  BY <1>2, <1>3, <1>5 DEF LedgerIInv, LedgerTypeOK, Outcome, LedgerTicks
<1>7. Behind'
  BY <1>2, <1>3 DEF LedgerIInv, Behind
<1>8. QED  BY <1>5, <1>6, <1>7 DEF LedgerIInv

LEMMA LedgerStepInv == LedgerIInv /\ [LedgerNext]_ledgerVars => LedgerIInv'
<1> SUFFICES ASSUME LedgerIInv, [LedgerNext]_ledgerVars PROVE LedgerIInv'
  OBVIOUS
<1>1. CASE TimePasses
  <2>1. tick' = tick + 1 /\ tick < LastLedgerTick /\ tick \in 0..LastLedgerTick
        /\ UNCHANGED <<disk, events, outcomes, running, resolvers>>
    BY <1>1 DEF TimePasses, LedgerIInv, LedgerTypeOK, LedgerTicks
  <2>2. LedgerTypeOK'
    BY <2>1, LedgerNumbers DEF LedgerIInv, LedgerTypeOK
  <2>3. \A e \in events : e.seen \in Nat
    BY DEF LedgerIInv, LedgerTypeOK, LedgerTicks
  <2>4. Behind'
    BY <2>1, <2>3 DEF LedgerIInv, LedgerTypeOK, LedgerTicks, Behind
  <2>5. QED  BY <2>1, <2>2, <2>4 DEF LedgerIInv
<1>2. CASE DiskMoves \/ LedgerDies \/ UNCHANGED ledgerVars
  BY <1>2 DEF DiskMoves, LedgerDies, ledgerVars, LedgerIInv, LedgerTypeOK, Behind
<1>3. QED  BY <1>1, <1>2, RecordInv, ResolveInv DEF LedgerNext

-----------------------------------------------------------------------------
\* The rows and the clocks keep their types.
THEOREM LedgerTypeCorrect == LedgerSpec => []LedgerTypeOK
<1>1. LedgerIInv => LedgerTypeOK
  BY DEF LedgerIInv
<1>2. QED  BY <1>1, LedgerInitInv, LedgerStepInv, PTL DEF LedgerSpec

\* Whatever runs the disk guard shed and whatever died between the two commits,
\* a horizon is frozen by the first run at or after its due time
\* (convergence_ledger.resolve_due).
THEOREM FirstRunResolves == LedgerSpec => []ResolvedByFirstRun
<1>1. ASSUME LedgerIInv PROVE ResolvedByFirstRun
  <2>1. SUFFICES ASSUME NEW o \in outcomes
                 PROVE  o.resolved = IF Late(o, resolvers) = {} THEN Unresolved
                                     ELSE Min(Late(o, resolvers))
    BY DEF ResolvedByFirstRun, Late
  <2>2. CASE Late(o, resolvers) = {}
    BY <1>1, <2>2 DEF LedgerIInv, Frozen
  <2>3. CASE Late(o, resolvers) # {}
    <3>1. o.resolved \in Late(o, resolvers) /\ \A t \in Late(o, resolvers) : o.resolved <= t
      BY <1>1, <2>3 DEF LedgerIInv, Frozen
    <3>2. \A t \in Late(o, resolvers) : t \in Int
      BY <1>1, OutcomeNumbers DEF Late
    <3>3. \A x \in Late(o, resolvers) :
             (\A t \in Late(o, resolvers) : x <= t) => x = o.resolved
      BY <3>1, <3>2
    <3>4. Min(Late(o, resolvers)) = o.resolved
      BY <3>1, <3>3 DEF Min
    <3>5. QED  BY <2>3, <3>4
  <2>4. QED  BY <2>2, <2>3
<1>2. QED  BY <1>1, LedgerInitInv, LedgerStepInv, PTL DEF LedgerSpec

-----------------------------------------------------------------------------
(***************************************************************************)
(* Numbers.  Induction without an operator to instantiate: a set of        *)
(* naturals has a least element, which for the set of counterexamples of a *)
(* statement has a predecessor that is none.                               *)
(***************************************************************************)
LEMMA LeastElement ==
    ASSUME NEW S \in SUBSET Nat, S # {}
    PROVE  \E low \in S : \A s \in S : low <= s
<1> DEFINE less == OpToRel(<, Nat)
<1>1. \A a, b \in Nat : a < b => <<a, b>> \in less
  BY DEF OpToRel
<1>2. IsWellFoundedOn(less, Nat)
  BY NatLessThanWellFounded
<1> HIDE DEF less
<1>3. PICK low \in S : \A s \in S : ~ (<<s, low>> \in less)
  BY <1>2, WFMin
<1>4. \A s \in S : ~ (s < low)
  BY <1>1, <1>3
<1>5. QED  BY <1>4

LEMMA NatSetInduction ==
    ASSUME NEW n \in Nat, NEW S, 0 \in S, \A k \in 0 .. n : k \in S /\ k < n => k + 1 \in S
    PROVE  0 .. n \subseteq S
<1>1. SUFFICES ASSUME ~ (0 .. n \subseteq S) PROVE FALSE
  OBVIOUS
<1> DEFINE bad == {k \in 0 .. n : k \notin S}
<1>2. bad \in SUBSET Nat /\ bad # {}
  BY <1>1
<1>3. PICK low \in bad : \A s \in bad : low <= s
  BY <1>2, LeastElement
<1>4. low # 0 /\ low \in 0 .. n /\ low \notin S
  BY <1>3
<1>5. low - 1 \in 0 .. n /\ low - 1 < n /\ ~ (low <= low - 1)
  BY <1>4
<1>6. low - 1 \in S
  BY <1>3, <1>5
<1>7. low \in S
  BY <1>4, <1>5, <1>6
<1>8. QED  BY <1>4, <1>7

LEMMA MaxOfTwo ==
    ASSUME NEW x \in Int, NEW y \in Int
    PROVE  Max({x, y}) = IF x >= y THEN x ELSE y
  BY DEF Max

\* A maximum is known by its two properties.
LEMMA MaxIs ==
    ASSUME NEW S \in SUBSET Int, NEW m \in S, \A s \in S : m >= s
    PROVE  Max(S) = m
<1>1. Max(S) \in S /\ \A s \in S : Max(S) >= s
  BY DEF Max
<1>2. m >= Max(S) /\ Max(S) >= m /\ m \in Int /\ Max(S) \in Int
  BY <1>1
<1>3. QED  BY <1>2

LEMMA MaxOfBounded ==
    ASSUME NEW n \in Nat, NEW S \in SUBSET (1 .. n), S # {}
    PROVE  Max(S) \in S /\ \A s \in S : Max(S) >= s
<1> DEFINE below == {n - s : s \in S}
<1>1. below \in SUBSET Nat /\ below # {}
  <2>1. \A s \in S : s \in Nat /\ n - s \in Nat
    OBVIOUS
  <2>2. PICK s \in S : TRUE
    OBVIOUS
  <2>3. n - s \in below
    BY <2>2
  <2>4. QED  BY <2>1, <2>3
<1>2. PICK low \in below : \A b \in below : low <= b
  BY <1>1, LeastElement
<1>3. PICK m \in S : low = n - m
  BY <1>2
<1>4. \A s \in S : m >= s
  <2>1. ASSUME NEW s \in S PROVE m >= s
    <3>1. n - s \in below /\ n - m <= n - s
      BY <1>2, <1>3
    <3>2. QED  BY <3>1
  <2>2. QED  BY <2>1
<1>5. \E x \in S : \A y \in S : x >= y
  BY <1>4
<1>6. QED  BY <1>5 DEF Max

-----------------------------------------------------------------------------
(***************************************************************************)
(* HlpTracker.  The summary folds over the vault's steps, and what it      *)
(* holds after each of them is stated for all of them at once (PassOK):    *)
(* the equity is the fall since the head of the stretch the pass is in,    *)
(* the peak and the drawdown are the highest and the deepest of what came  *)
(* before.  Cumulative and Pass are recursive functions: that a function   *)
(* with their equation exists is proved from the one a step shorter.       *)
(***************************************************************************)
(* The recursive functions are what their definitions say.                   *)

LEMMA CumulativeDef ==
    ASSUME Len(vault) \in Nat
    PROVE  Cumulative = [i \in 0 .. Len(vault) |->
                      IF i = 0 THEN 0 ELSE Cumulative[i - 1] + vault[i].ret]
<1> DEFINE n == Len(vault)
           IsCumulative(f, k) ==
              f = [i \in 0 .. k |-> IF i = 0 THEN 0 ELSE f[i - 1] + vault[i].ret]
           S == {k \in 0 .. n : \E f : IsCumulative(f, k)}
<1> HIDE DEF IsCumulative
<1>1. 0 \in S
  <2>1. IsCumulative([i \in 0 .. 0 |-> 0], 0)
    BY DEF IsCumulative
  <2>2. QED  BY <2>1
<1>2. ASSUME NEW k \in 0 .. n, k \in S, k < n PROVE k + 1 \in S
  <2>1. PICK f : IsCumulative(f, k)
    BY <1>2
  <2> DEFINE g == [i \in 0 .. k + 1 |-> IF i = k + 1 THEN f[k] + vault[k + 1].ret ELSE f[i]]
  <2>2. ASSUME NEW i \in 0 .. k + 1
        PROVE  g[i] = IF i = 0 THEN 0 ELSE g[i - 1] + vault[i].ret
    <3>1. CASE i = k + 1
      BY <3>1
    <3>2. CASE i # k + 1
      <4>1. i \in 0 .. k /\ f[i] = IF i = 0 THEN 0 ELSE f[i - 1] + vault[i].ret
        BY <2>1, <3>2 DEF IsCumulative
      <4>2. i # 0 => i - 1 \in 0 .. k /\ i - 1 # k + 1
        BY <4>1
      <4>3. QED  BY <3>2, <4>1, <4>2
    <3>3. QED  BY <3>1, <3>2
  <2>3. g = [i \in 0 .. k + 1 |-> g[i]]
    OBVIOUS
  <2> HIDE DEF g
  <2>4. IsCumulative(g, k + 1)
    BY <2>2, <2>3 DEF IsCumulative
  <2>5. QED  BY <1>2, <2>4
<1> HIDE DEF S, n
<1>3. n \in S
  <2>1. n \in Nat
    BY DEF n
  <2>2. 0 .. n \subseteq S
    BY <1>1, <1>2, <2>1, NatSetInduction
  <2>3. QED  BY <2>1, <2>2
<1>4. \E f : IsCumulative(f, n)
  BY <1>3 DEF S
<1>5. Cumulative = CHOOSE f : IsCumulative(f, n)
  BY DEF Cumulative, IsCumulative, n
<1>6. IsCumulative(Cumulative, n)
  BY <1>4, <1>5
<1>7. QED  BY <1>6 DEF IsCumulative, n

VaultOK ==
    /\ vault \in Seq([ret: Returns, funded: BOOLEAN])
    /\ steps \subseteq 1 .. Len(vault)

LEMMA CumulativeStep ==
    ASSUME VaultOK
    PROVE  /\ \A i \in 0 .. Len(vault) : Cumulative[i] \in Int
           /\ \A i \in 1 .. Len(vault) :
                 vault[i].ret \in Int /\ Cumulative[i] = Cumulative[i - 1] + vault[i].ret
<1> DEFINE n == Len(vault)
           S == {i \in 0 .. n : Cumulative[i] \in Int}
<1>1. n \in Nat /\ \A i \in 1 .. n : vault[i].ret \in Int
  <2> DEFINE R == [ret: Returns, funded: BOOLEAN]
  <2>0. vault \in Seq(R)
    BY DEF VaultOK
  <2> HIDE DEF R
  <2>1. n \in Nat /\ \A i \in 1 .. n : vault[i] \in R
    BY <2>0
  <2> USE DEF R
  <2> HIDE DEF n
  <2>2. \A i \in 1 .. n : vault[i].ret \in Returns
    BY <2>1
  <2>3. QED  BY <2>1, <2>2, HlpAssumption
<1>2. \A i \in 0 .. n : Cumulative[i] = IF i = 0 THEN 0 ELSE Cumulative[i - 1] + vault[i].ret
  BY <1>1, CumulativeDef
<1>3. \A i \in 1 .. n : Cumulative[i] = Cumulative[i - 1] + vault[i].ret
  BY <1>1, <1>2
<1> HIDE DEF n
<1>4. 0 \in S
  BY <1>1, <1>2
<1>5. ASSUME NEW k \in 0 .. n, k \in S, k < n PROVE k + 1 \in S
  <2>1. k + 1 \in 1 .. n /\ (k + 1) - 1 = k /\ Cumulative[k] \in Int
    BY <1>1, <1>5
  <2>2. Cumulative[k + 1] = Cumulative[k] + vault[k + 1].ret
    BY <1>3, <2>1
  <2>3. QED  BY <1>1, <2>1, <2>2
<1> HIDE DEF S
<1>6. 0 .. n \subseteq S
  BY <1>1, <1>4, <1>5, NatSetInduction
<1>7. QED  BY <1>1, <1>3, <1>6 DEF S, n

LEMMA PassDef ==
    ASSUME Len(vault) \in Nat
    PROVE  Pass = [i \in 0 .. Len(vault) |->
              IF i = 0 THEN [equity |-> 0, peak |-> 0, end |-> 0, segments |-> 1,
                             drawdown |-> 0, covered |-> 0]
              ELSE IF i \in steps THEN Compounded(Pass[i - 1], i) ELSE Pass[i - 1]]
<1> DEFINE n == Len(vault)
           none == [equity |-> 0, peak |-> 0, end |-> 0, segments |-> 1,
                    drawdown |-> 0, covered |-> 0]
           After(r, i) == IF i \in steps THEN Compounded(r, i) ELSE r
           IsPass(f, k) ==
              f = [i \in 0 .. k |-> IF i = 0 THEN none ELSE After(f[i - 1], i)]
           S == {k \in 0 .. n : \E f : IsPass(f, k)}
<1>0. Pass = CHOOSE f : IsPass(f, n)
  BY DEF Pass
<1>99. IsPass(Pass, n) => Pass = [i \in 0 .. Len(vault) |->
              IF i = 0 THEN [equity |-> 0, peak |-> 0, end |-> 0, segments |-> 1,
                             drawdown |-> 0, covered |-> 0]
              ELSE IF i \in steps THEN Compounded(Pass[i - 1], i) ELSE Pass[i - 1]]
  OBVIOUS
<1> HIDE DEF IsPass, none, After
<1>1. 0 \in S
  <2>1. IsPass([i \in 0 .. 0 |-> none], 0)
    BY DEF IsPass
  <2>2. QED  BY <2>1
<1>2. ASSUME NEW k \in 0 .. n, k \in S, k < n PROVE k + 1 \in S
  <2>1. PICK f : IsPass(f, k)
    BY <1>2
  <2> DEFINE g == [i \in 0 .. k + 1 |-> IF i = k + 1 THEN After(f[k], k + 1) ELSE f[i]]
  <2>2. ASSUME NEW i \in 0 .. k + 1
        PROVE  g[i] = IF i = 0 THEN none ELSE After(g[i - 1], i)
    <3>1. CASE i = k + 1
      BY <3>1
    <3>2. CASE i # k + 1
      <4>1. i \in 0 .. k /\ f[i] = IF i = 0 THEN none ELSE After(f[i - 1], i)
        BY <2>1, <3>2 DEF IsPass
      <4>2. i # 0 => i - 1 \in 0 .. k /\ i - 1 # k + 1
        BY <4>1
      <4>3. QED  BY <3>2, <4>1, <4>2
    <3>3. QED  BY <3>1, <3>2
  <2>3. g = [i \in 0 .. k + 1 |-> g[i]]
    OBVIOUS
  <2> HIDE DEF g
  <2>4. IsPass(g, k + 1)
    BY <2>2, <2>3 DEF IsPass
  <2>5. QED  BY <1>2, <2>4
<1> HIDE DEF S, n
<1>3. n \in S
  <2>1. n \in Nat
    BY DEF n
  <2>2. 0 .. n \subseteq S
    BY <1>1, <1>2, <2>1, NatSetInduction
  <2>3. QED  BY <2>1, <2>2
<1>4. \E f : IsPass(f, n)
  BY <1>3 DEF S
<1>5. QED  BY <1>0, <1>4, <1>99

-----------------------------------------------------------------------------
(* What the pass knows after i steps of the vault.                           *)

Upto(i) == {s \in steps : s <= i}
Heads(i) == {s \in Upto(i) : s - 1 \notin steps}
Fall(s) == Cumulative[s[1] - 1] - Cumulative[s[2]]

\* The stretch that starts at a and runs to b, with its equity and its peak.
Running(a, b, equity, peak) ==
    /\ a \in steps /\ a - 1 \notin steps /\ a <= b + 1 /\ a .. b \subseteq steps
    /\ equity = Cumulative[b] - Cumulative[a - 1]
    /\ \A c \in a - 1 .. b : peak >= Cumulative[c] - Cumulative[a - 1]
    /\ \E c \in a - 1 .. b : peak = Cumulative[c] - Cumulative[a - 1]

\* The deepest fall of the stretches that end by step i.
Deepest(d, i) ==
    /\ d >= 0
    /\ \A s \in Stretches : s[2] <= i => d >= Fall(s)
    /\ d = 0 \/ \E s \in Stretches : s[2] <= i /\ d = Fall(s)

PassOK(r, i) ==
    /\ r \in [equity: Int, peak: Int, end: 0 .. Len(vault), segments: Nat,
              drawdown: Int, covered: Nat]
    /\ r.end \in Upto(i) \cup {0} /\ \A s \in Upto(i) : s <= r.end
    /\ r.covered = Cardinality(Upto(i))
    /\ r.segments = IF r.end = 0 THEN 1 ELSE Cardinality(Heads(i))
    /\ IF r.end = 0 THEN r.equity = 0 /\ r.peak = 0
       ELSE \E a \in steps : a <= r.end /\ Running(a, r.end, r.equity, r.peak)
    /\ Deepest(r.drawdown, i)

LEMMA StretchFacts ==
    ASSUME VaultOK, NEW s \in Stretches
    PROVE  /\ s[1] \in steps /\ s[2] \in steps /\ s[1] <= s[2] /\ s[1] .. s[2] \subseteq steps
           /\ s[1] \in 1 .. Len(vault) /\ s[2] \in 1 .. Len(vault) /\ Len(vault) \in Nat
<1>1. /\ s[1] \in steps /\ s[2] \in steps /\ s[1] <= s[2] /\ s[1] .. s[2] \subseteq steps
  BY DEF Stretches
<1>2. steps \subseteq 1 .. Len(vault) /\ Len(vault) \in Nat
  BY DEF VaultOK
<1>3. QED  BY <1>1, <1>2

\* The rows of one more step.
LEMMA RowsGrow ==
    ASSUME VaultOK, NEW k \in 1 .. Len(vault)
    PROVE  /\ Len(vault) \in Nat /\ steps \in SUBSET Nat /\ 0 \notin steps
           /\ Upto(k) = Upto(k - 1) \cup (steps \cap {k})
           /\ Heads(k) = Heads(k - 1) \cup {s \in steps \cap {k} : s - 1 \notin steps}
           /\ k \notin Upto(k - 1) /\ k \notin Heads(k - 1)
           /\ IsFiniteSet(Upto(k - 1)) /\ IsFiniteSet(Heads(k - 1))
           /\ Cardinality(Upto(k - 1)) \in Nat /\ Cardinality(Heads(k - 1)) \in Nat
<1>1. Len(vault) \in Nat /\ steps \in SUBSET Nat /\ 0 \notin steps
  BY DEF VaultOK
<1>2. IsFiniteSet(1 .. Len(vault))
  BY <1>1, FS_Interval
<1>3. Upto(k - 1) \subseteq 1 .. Len(vault) /\ Heads(k - 1) \subseteq 1 .. Len(vault)
  BY DEF VaultOK, Upto, Heads
<1>4. /\ IsFiniteSet(Upto(k - 1)) /\ IsFiniteSet(Heads(k - 1))
      /\ Cardinality(Upto(k - 1)) \in Nat /\ Cardinality(Heads(k - 1)) \in Nat
  BY <1>2, <1>3, FS_Subset, FS_CardinalityType
<1>5. \A s \in steps : s <= k <=> (s <= k - 1 \/ s = k)
  BY <1>1
<1>6. Upto(k) = Upto(k - 1) \cup (steps \cap {k})
  BY <1>5 DEF Upto
<1>7. Heads(k) = Heads(k - 1) \cup {s \in steps \cap {k} : s - 1 \notin steps}
  BY <1>6 DEF Heads
<1>8. k \notin Upto(k - 1) /\ k \notin Heads(k - 1)
  BY DEF Upto, Heads
<1>9. QED  BY <1>1, <1>4, <1>6, <1>7, <1>8

LEMMA PassSkips ==
    ASSUME VaultOK, NEW k \in 1 .. Len(vault), k \notin steps, NEW r, PassOK(r, k - 1)
    PROVE  PassOK(r, k)
<1>1. Upto(k) = Upto(k - 1) /\ Heads(k) = Heads(k - 1)
  <2>1. steps \cap {k} = {} /\ {s \in steps \cap {k} : s - 1 \notin steps} = {}
    OBVIOUS
  <2>2. /\ Upto(k) = Upto(k - 1) \cup (steps \cap {k})
        /\ Heads(k) = Heads(k - 1) \cup {s \in steps \cap {k} : s - 1 \notin steps}
    BY RowsGrow
  <2> DEFINE starts == {s \in steps \cap {k} : s - 1 \notin steps}
  <2>3. Heads(k) = Heads(k - 1) \cup starts /\ starts = {}
    BY <2>1, <2>2
  <2> HIDE DEF starts
  <2>4. QED  BY <2>1, <2>2, <2>3
<1>2. ASSUME NEW s \in Stretches, s[2] <= k PROVE s[2] <= k - 1
  BY <1>2, RowsGrow DEF Stretches
<1>3. \A s \in Stretches : s[2] <= k - 1 => s[2] <= k
  BY RowsGrow DEF Stretches
<1>4. Deepest(r.drawdown, k)
  BY <1>2, <1>3 DEF PassOK, Deepest
<1>5. QED  BY <1>1, <1>4 DEF PassOK

LEMMA RejoinedOK ==
    ASSUME VaultOK, NEW k \in steps, NEW r, PassOK(r, k - 1)
    PROVE  /\ Rejoined(r, k) = [r EXCEPT !.equity = Rejoined(r, k).equity,
                                         !.peak = Rejoined(r, k).peak,
                                         !.segments = Rejoined(r, k).segments]
           /\ \E a \in steps : a <= k /\ a .. k \subseteq steps
                 /\ Running(a, k - 1, Rejoined(r, k).equity, Rejoined(r, k).peak)
           /\ Rejoined(r, k).segments = Cardinality(Heads(k))
<1> DEFINE j == Rejoined(r, k)
<1>1. /\ k \in 1 .. Len(vault) /\ Len(vault) \in Nat /\ steps \in SUBSET Nat /\ 0 \notin steps
      /\ Upto(k) = Upto(k - 1) \cup {k} /\ k \notin Heads(k - 1)
      /\ Heads(k) = Heads(k - 1) \cup {s \in {k} : s - 1 \notin steps}
      /\ IsFiniteSet(Heads(k - 1)) /\ Cardinality(Heads(k - 1)) \in Nat
  <2>1. k \in 1 .. Len(vault) /\ steps \cap {k} = {k}
    BY DEF VaultOK
  <2>2. QED  BY <2>1, RowsGrow
<1>2. /\ r \in [equity: Int, peak: Int, end: 0 .. Len(vault), segments: Nat,
                drawdown: Int, covered: Nat]
      /\ r.end \in Upto(k - 1) \cup {0} /\ \A s \in Upto(k - 1) : s <= r.end
      /\ r.segments = IF r.end = 0 THEN 1 ELSE Cardinality(Heads(k - 1))
      /\ r.end = 0 => r.equity = 0 /\ r.peak = 0
      /\ r.end # 0 => \E a \in steps : a <= r.end /\ Running(a, r.end, r.equity, r.peak)
  BY DEF PassOK
<1>3. k - 1 \in steps <=> r.end = k - 1 /\ k # 1
  <2>1. ASSUME k - 1 \in steps PROVE r.end = k - 1 /\ k # 1
    <3>1. k - 1 \in Upto(k - 1) /\ k # 1
      BY <1>1, <2>1 DEF Upto
    <3>2. k - 1 <= r.end /\ r.end <= k - 1
      BY <1>1, <1>2, <3>1 DEF Upto
    <3>3. QED  BY <1>1, <1>2, <3>1, <3>2
  <2>2. ASSUME r.end = k - 1, k # 1 PROVE k - 1 \in steps
    BY <1>1, <1>2, <2>2 DEF Upto
  <2>3. QED  BY <2>1, <2>2
<1>4. CASE r.end = k - 1 /\ k # 1
  <2>1. j = r
    BY <1>4 DEF Rejoined
  <2>2. PICK a \in steps : a <= r.end /\ Running(a, r.end, r.equity, r.peak)
    BY <1>1, <1>2, <1>4
  <2>3. a <= k /\ a .. k \subseteq steps
    BY <1>1, <1>4, <2>2 DEF Running
  <2>4. Heads(k) = Heads(k - 1)
    BY <1>1, <1>3, <1>4
  <2>5. r = [r EXCEPT !.equity = r.equity, !.peak = r.peak, !.segments = r.segments]
    BY <1>2
  <2>6. r.segments = Cardinality(Heads(k))
    BY <1>1, <1>2, <1>4, <2>4
  <2> HIDE DEF j
  <2>7. QED  BY <1>4, <2>1, <2>2, <2>3, <2>5, <2>6 DEF j
<1>5. CASE ~ (r.end = k - 1 /\ k # 1)
  <2>1. Heads(k) = Heads(k - 1) \cup {k} /\ k - 1 \notin steps
    BY <1>1, <1>3, <1>5
  <2>2. Cardinality(Heads(k)) = Cardinality(Heads(k - 1)) + 1
    BY <1>1, <2>1, FS_AddElement
  <2>3. /\ j \in [equity: Int, peak: Int, end: 0 .. Len(vault), segments: Nat,
                  drawdown: Int, covered: Nat]
        /\ j.end = r.end /\ j.drawdown = r.drawdown /\ j.covered = r.covered
        /\ j.equity = 0 /\ j.peak = 0
        /\ j.segments = IF r.end = 0 THEN 1 ELSE r.segments + 1
    <3> HIDE DEF j
    <3>1. CASE r.end = 0
      <4>1. j = r
        BY <3>1 DEF Rejoined, j
      <4>2. QED  BY <1>2, <3>1, <4>1
    <3>2. CASE r.end # 0
      <4>1. r.end \notin {0, k - 1}
        BY <1>1, <1>2, <1>5, <3>2 DEF Upto
      <4>2. j = [r EXCEPT !.equity = 0, !.peak = 0, !.segments = r.segments + 1]
        BY <1>2, <4>1 DEF Rejoined, j
      <4>3. r.segments + 1 \in Nat /\ 0 \in Int
        BY <1>2
      <4>4. j \in [equity: Int, peak: Int, end: 0 .. Len(vault), segments: Nat,
                   drawdown: Int, covered: Nat]
        BY <1>2, <4>2, <4>3
      <4>5. /\ j.end = r.end /\ j.drawdown = r.drawdown /\ j.covered = r.covered
            /\ j.equity = 0 /\ j.peak = 0 /\ j.segments = r.segments + 1
        BY <1>2, <4>2
      <4>6. QED  BY <3>2, <4>4, <4>5
    <3>3. QED  BY <3>1, <3>2
  <2> HIDE DEF j
  <2>4. j = [r EXCEPT !.equity = j.equity, !.peak = j.peak, !.segments = j.segments]
    BY <1>2, <2>3
  <2>5. Running(k, k - 1, j.equity, j.peak)
    <3>1. Cumulative[k - 1] \in Int
      BY <1>1, CumulativeStep
    <3>2. k - 1 \in k - 1 .. k - 1 /\ k .. k - 1 = {} /\ \A c \in k - 1 .. k - 1 : c = k - 1
      BY <1>1
    <3>3. QED  BY <1>1, <2>1, <2>3, <3>1, <3>2 DEF Running
  <2>6. k <= k /\ k .. k \subseteq steps
    BY <1>1
  <2>7. j.segments = Cardinality(Heads(k))
    <3>1. r.end = 0 => Heads(k - 1) = {}
      <4>1. ASSUME r.end = 0, NEW s \in Upto(k - 1) PROVE FALSE
        <5>1. s \in steps /\ s <= 0
          BY <1>2, <4>1 DEF Upto
        <5>2. QED  BY <1>1, <5>1
      <4>2. QED  BY <4>1 DEF Heads
    <3>2. Cardinality({}) = 0
      BY FS_EmptySet
    <3>3. r.end = 0 => Cardinality(Heads(k - 1)) = 0
      BY <3>1, <3>2
    <3>4. QED  BY <1>1, <1>2, <2>2, <2>3, <3>3
  <2>8. QED  BY <2>4, <2>5, <2>6, <2>7 DEF j
<1>6. QED  BY <1>4, <1>5

LEMMA PassAdds ==
    ASSUME VaultOK, NEW k \in steps, NEW r, PassOK(r, k - 1)
    PROVE  PassOK(Compounded(r, k), k)
<1> DEFINE j == Rejoined(r, k)
           equity == j.equity + vault[k].ret
           peak == Max({j.peak, equity})
           drawdown == Max({r.drawdown, peak - equity})
           c == Compounded(r, k)
<1>1. /\ k \in 1 .. Len(vault) /\ Len(vault) \in Nat /\ steps \in SUBSET Nat /\ 0 \notin steps
      /\ Upto(k) = Upto(k - 1) \cup {k} /\ k \notin Upto(k - 1)
      /\ IsFiniteSet(Upto(k - 1)) /\ Cardinality(Upto(k - 1)) \in Nat
  <2>1. k \in 1 .. Len(vault) /\ steps \cap {k} = {k}
    BY DEF VaultOK
  <2>2. QED  BY <2>1, RowsGrow
<1>2. /\ r \in [equity: Int, peak: Int, end: 0 .. Len(vault), segments: Nat,
                drawdown: Int, covered: Nat]
      /\ r.covered = Cardinality(Upto(k - 1)) /\ Deepest(r.drawdown, k - 1)
  BY DEF PassOK
<1>3. /\ j = [r EXCEPT !.equity = j.equity, !.peak = j.peak, !.segments = j.segments]
      /\ \E a \in steps : a <= k /\ a .. k \subseteq steps /\ Running(a, k - 1, j.equity, j.peak)
      /\ j.segments = Cardinality(Heads(k))
  BY RejoinedOK
<1>4. PICK a \in steps : a <= k /\ a .. k \subseteq steps /\ Running(a, k - 1, j.equity, j.peak)
  BY <1>3
<1>5. Cardinality(Heads(k)) \in Nat
  <2>1. IsFiniteSet(1 .. Len(vault))
    BY <1>1, FS_Interval
  <2>2. Heads(k) \subseteq 1 .. Len(vault)
    BY DEF VaultOK, Upto, Heads
  <2>3. QED  BY <2>1, <2>2, FS_Subset, FS_CardinalityType
<1>6. /\ \A b \in a - 1 .. k : Cumulative[b] \in Int
      /\ Cumulative[k] = Cumulative[k - 1] + vault[k].ret /\ vault[k].ret \in Int
      /\ a \in 1 .. Len(vault)
  BY <1>1, <1>4, CumulativeStep DEF VaultOK
<1>7. equity = Cumulative[k] - Cumulative[a - 1] /\ equity \in Int /\ j.equity \in Int /\ j.peak \in Int
  BY <1>1, <1>4, <1>6 DEF Running
<1>8. /\ peak \in Int /\ peak >= j.peak /\ peak >= equity /\ peak \in {j.peak, equity}
      /\ drawdown \in Int /\ drawdown >= r.drawdown /\ drawdown >= peak - equity
      /\ drawdown \in {r.drawdown, peak - equity}
  <2>1. peak = IF j.peak >= equity THEN j.peak ELSE equity
    BY <1>7, MaxOfTwo
  <2>2. peak \in Int
    BY <1>7, <2>1
  <2> HIDE DEF peak, equity
  <2>3. drawdown = IF r.drawdown >= peak - equity THEN r.drawdown ELSE peak - equity
    <3>1. r.drawdown \in Int /\ peak - equity \in Int
      BY <1>2, <1>7, <2>2
    <3> DEFINE fall == peak - equity
    <3> HIDE DEF fall
    <3>2. Max({r.drawdown, fall}) = IF r.drawdown >= fall THEN r.drawdown ELSE fall
      BY <3>1, MaxOfTwo DEF fall
    <3>3. QED  BY <3>2 DEF fall
  <2> HIDE DEF drawdown
  <2>4. QED  BY <1>2, <1>7, <2>1, <2>2, <2>3
<1>9. /\ c \in [equity: Int, peak: Int, end: 0 .. Len(vault), segments: Nat,
                drawdown: Int, covered: Nat]
      /\ c.equity = equity /\ c.peak = peak /\ c.end = k /\ c.drawdown = drawdown
      /\ c.covered = r.covered + 1 /\ c.segments = Cardinality(Heads(k))
  <2>1. /\ j \in [equity: Int, peak: Int, end: 0 .. Len(vault), segments: Nat,
                  drawdown: Int, covered: Nat]
        /\ j.drawdown = r.drawdown /\ j.covered = r.covered
    BY <1>2, <1>3, <1>5, <1>7
  <2>2. c = [j EXCEPT !.equity = equity, !.peak = peak, !.end = k,
                      !.drawdown = drawdown, !.covered = r.covered + 1]
    BY <2>1 DEF Compounded
  <2> HIDE DEF c, j, equity, peak, drawdown
  <2>3. k \in 0 .. Len(vault) /\ r.covered + 1 \in Nat
    BY <1>1, <1>2
  <2>4. c \in [equity: Int, peak: Int, end: 0 .. Len(vault), segments: Nat,
               drawdown: Int, covered: Nat]
    BY <1>7, <1>8, <2>1, <2>2, <2>3
  <2>5. QED  BY <1>3, <2>1, <2>2, <2>4
<1> HIDE DEF c, j, equity, peak, drawdown
<1>10. c.covered = Cardinality(Upto(k))
  <2>1. Cardinality(Upto(k - 1) \cup {k}) = Cardinality(Upto(k - 1)) + 1
    BY <1>1, FS_AddElement
  <2>2. QED  BY <1>1, <1>2, <1>9, <2>1
<1>11. c.end \in Upto(k) /\ c.end # 0 /\ \A s \in Upto(k) : s <= c.end
  BY <1>1, <1>9 DEF Upto
<1>12. Running(a, k, equity, peak)
  <2>1. \A b \in a - 1 .. k : peak >= Cumulative[b] - Cumulative[a - 1]
    <3>1. ASSUME NEW b \in a - 1 .. k PROVE peak >= Cumulative[b] - Cumulative[a - 1]
      <4>1. CASE b = k
        BY <1>7, <1>8, <4>1
      <4>2. CASE b # k
        <5>1. b \in a - 1 .. k - 1
          BY <1>1, <1>6, <4>2
        <5>2. j.peak >= Cumulative[b] - Cumulative[a - 1]
          BY <1>4, <5>1 DEF Running
        <5>3. Cumulative[b] - Cumulative[a - 1] \in Int
          BY <1>1, <1>6
        <5>4. QED  BY <1>7, <1>8, <5>2, <5>3
      <4>3. QED  BY <4>1, <4>2
    <3>2. QED  BY <3>1
  <2>2. \E b \in a - 1 .. k : peak = Cumulative[b] - Cumulative[a - 1]
    <3>1. CASE peak = equity
      BY <1>1, <1>4, <1>6, <1>7, <3>1
    <3>2. CASE peak = j.peak
      <4>1. PICK b \in a - 1 .. k - 1 : j.peak = Cumulative[b] - Cumulative[a - 1]
        BY <1>4 DEF Running
      <4>2. b \in a - 1 .. k
        BY <1>1, <1>6
      <4>3. QED  BY <3>2, <4>1, <4>2
    <3>3. QED  BY <1>8, <3>1, <3>2
  <2>3. a <= k + 1 /\ a - 1 \notin steps
    BY <1>1, <1>4 DEF Running
  <2>4. QED  BY <1>4, <1>7, <2>1, <2>2, <2>3 DEF Running
<1>13. Deepest(drawdown, k)
  <2>1. ASSUME NEW s \in Stretches, s[2] <= k PROVE drawdown >= Fall(s)
    <3>1. /\ s[1] \in steps /\ s[2] \in steps /\ s[1] <= s[2] /\ s[1] .. s[2] \subseteq steps
          /\ s[1] \in Nat /\ s[2] \in Nat
      BY <1>1 DEF Stretches
    <3>2. Cumulative[s[1] - 1] \in Int /\ Cumulative[s[2]] \in Int
      <4>1. s[1] - 1 \in 0 .. Len(vault) /\ s[2] \in 0 .. Len(vault)
        BY <1>1, <3>1 DEF VaultOK
      <4>2. QED  BY <4>1, CumulativeStep
    <3>3. CASE s[2] <= k - 1
      <4>1. r.drawdown >= Fall(s)
        BY <1>2, <3>3 DEF Deepest
      <4>2. Fall(s) \in Int
        BY <3>2 DEF Fall
      <4>3. QED  BY <1>2, <1>8, <4>1, <4>2
    <3>4. CASE s[2] = k
      <4>1. a <= s[1]
        <5>1. SUFFICES ASSUME s[1] < a PROVE FALSE
          BY <1>1, <1>6, <3>1
        <5>2. a - 1 \in s[1] .. s[2]
          BY <1>1, <1>4, <1>6, <3>1, <3>4, <5>1
        <5>3. QED  BY <3>1, <5>2, <1>12 DEF Running
      <4>2. s[1] - 1 \in a - 1 .. k
        BY <1>1, <1>6, <3>1, <3>4, <4>1
      <4>3. peak >= Cumulative[s[1] - 1] - Cumulative[a - 1]
        BY <1>12, <4>2 DEF Running
      <4>4. Cumulative[a - 1] \in Int /\ Cumulative[k] \in Int
        BY <1>1, <1>4, <1>6
      <4>5. peak - equity >= Cumulative[s[1] - 1] - Cumulative[k]
        BY <1>7, <1>8, <3>2, <4>3, <4>4
      <4>6. QED  BY <1>7, <1>8, <3>2, <3>4, <4>4, <4>5 DEF Fall
    <3>5. QED  BY <1>1, <2>1, <3>1, <3>3, <3>4
  <2>2. drawdown = 0 \/ \E s \in Stretches : s[2] <= k /\ drawdown = Fall(s)
    <3>1. CASE drawdown = r.drawdown
      <4>1. ASSUME NEW s \in Stretches, s[2] <= k - 1 PROVE s[2] <= k
        BY <1>1, <4>1, StretchFacts
      <4>2. QED  BY <1>2, <3>1, <4>1 DEF Deepest
    <3>2. CASE drawdown = peak - equity
      <4>1. PICK b \in a - 1 .. k : peak = Cumulative[b] - Cumulative[a - 1]
        BY <1>12 DEF Running
      <4>2. Cumulative[b] \in Int /\ Cumulative[k] \in Int /\ Cumulative[a - 1] \in Int
        BY <1>1, <1>4, <1>6
      <4>3. drawdown = Cumulative[b] - Cumulative[k]
        BY <1>7, <3>2, <4>1, <4>2
      <4>4. CASE b = k
        BY <4>2, <4>3, <4>4
      <4>5. CASE b # k
        <5> DEFINE s == <<b + 1, k>>
        <5>1. b + 1 \in a .. k /\ b + 1 <= k /\ (b + 1) - 1 = b
          BY <1>1, <1>6, <4>5
        <5>2. b + 1 .. k \subseteq a .. k
          BY <1>1, <1>6, <5>1
        <5>3. s \in Stretches
          BY <1>4, <5>1, <5>2 DEF Stretches
        <5>4. s[2] <= k /\ Fall(s) = Cumulative[b] - Cumulative[k]
          BY <1>1, <5>1 DEF Fall
        <5> HIDE DEF s
        <5>5. QED  BY <4>3, <5>3, <5>4
      <4>6. QED  BY <4>4, <4>5
    <3>3. QED  BY <1>8, <3>1, <3>2
  <2>3. drawdown >= 0
    BY <1>2, <1>8 DEF Deepest
  <2>4. QED  BY <2>1, <2>2, <2>3 DEF Deepest
<1>14. PassOK(c, k)
  BY <1>4, <1>9, <1>10, <1>11, <1>12, <1>13 DEF PassOK
<1>15. QED  BY <1>14 DEF c

LEMMA PassCorrect == ASSUME VaultOK PROVE PassOK(Summary, Len(vault))
<1> DEFINE n == Len(vault)
           S == {i \in 0 .. n : PassOK(Pass[i], i)}
<1>1. n \in Nat /\ steps \subseteq 1 .. n
  BY DEF VaultOK
<1>2. /\ Pass[0] = [equity |-> 0, peak |-> 0, end |-> 0, segments |-> 1,
                    drawdown |-> 0, covered |-> 0]
      /\ \A i \in 1 .. n :
            Pass[i] = IF i \in steps THEN Compounded(Pass[i - 1], i) ELSE Pass[i - 1]
  BY <1>1, PassDef
<1>3. 0 \in S
  <2>1. Upto(0) = {}
    <3>1. \A s \in steps : ~ (s <= 0)
      BY <1>1
    <3>2. QED  BY <3>1 DEF Upto
  <2>2. Cardinality(Upto(0)) = 0
    BY <2>1, FS_EmptySet
  <2>3. \A s \in Stretches : ~ (s[2] <= 0)
    BY StretchFacts
  <2>4. Deepest(0, 0)
    BY <2>3 DEF Deepest
  <2> DEFINE r == Pass[0]
  <2>5. /\ r \in [equity: Int, peak: Int, end: 0 .. Len(vault), segments: Nat,
                  drawdown: Int, covered: Nat]
        /\ r.end = 0 /\ r.covered = 0 /\ r.segments = 1
        /\ r.equity = 0 /\ r.peak = 0 /\ r.drawdown = 0
    BY <1>1, <1>2
  <2> HIDE DEF r
  <2>6. PassOK(r, 0)
    BY <2>1, <2>2, <2>4, <2>5 DEF PassOK
  <2>7. QED  BY <1>1, <2>6 DEF r
<1>4. ASSUME NEW k \in 0 .. n, k \in S, k < n PROVE k + 1 \in S
  <2>1. k + 1 \in 1 .. n /\ (k + 1) - 1 = k /\ PassOK(Pass[k], k)
    BY <1>1, <1>4
  <2>2. PassOK(Pass[k + 1], k + 1)
    <3>1. CASE k + 1 \in steps
      <4>1. PassOK(Compounded(Pass[k], k + 1), k + 1)
        BY <2>1, <3>1, PassAdds
      <4>2. QED  BY <1>2, <2>1, <3>1, <4>1
    <3>2. CASE k + 1 \notin steps
      <4>1. PassOK(Pass[k], k + 1)
        BY <2>1, <3>2, PassSkips
      <4>2. QED  BY <1>2, <2>1, <3>2, <4>1
    <3>3. QED  BY <3>1, <3>2
  <2>3. QED  BY <1>1, <2>1, <2>2
<1> HIDE DEF S, n
<1>5. 0 .. n \subseteq S
  BY <1>1, <1>3, <1>4, NatSetInduction
<1>6. n \in S
  BY <1>1, <1>5
<1>7. QED  BY <1>6 DEF S, n, Summary

LEMMA DrawdownCorrect == ASSUME VaultOK PROVE DrawdownIsOfRecordedTime
<1>1. PassOK(Summary, Len(vault)) /\ Len(vault) \in Nat
  BY PassCorrect DEF VaultOK
<1>2. Upto(Len(vault)) = steps /\ Heads(Len(vault)) = {i \in steps : i - 1 \notin steps}
  <2>1. Upto(Len(vault)) = steps
    <3>1. \A s \in steps : s <= Len(vault)
      BY <1>1 DEF VaultOK
    <3>2. QED  BY <3>1 DEF Upto
  <2>2. QED  BY <2>1 DEF Heads
<1>3. Summary.covered = Cardinality(steps)
  BY <1>1, <1>2 DEF PassOK
<1>4. ASSUME steps # {} PROVE Summary.segments = Cardinality({i \in steps : i - 1 \notin steps})
  <2>1. Summary.end # 0
    <3>1. PICK s \in steps : TRUE
      BY <1>4
    <3>2. s <= Summary.end /\ s \in Nat /\ s >= 1
      BY <1>1, <1>2 DEF PassOK, VaultOK
    <3>3. QED  BY <3>2
  <2>2. QED  BY <1>1, <1>2, <2>1 DEF PassOK
<1>5. Summary.drawdown = Max({0} \cup {-Change(s[1] - 1, s[2]) : s \in Stretches})
  <2> DEFINE falls == {0} \cup {-Change(s[1] - 1, s[2]) : s \in Stretches}
  <2>1. ASSUME NEW s \in Stretches
        PROVE  Fall(s) \in Int /\ -Change(s[1] - 1, s[2]) = Fall(s) /\ s[2] <= Len(vault)
    <3>1. s[1] - 1 \in 0 .. Len(vault) /\ s[2] \in 0 .. Len(vault)
      BY <1>1, StretchFacts
    <3>2. Cumulative[s[1] - 1] \in Int /\ Cumulative[s[2]] \in Int
      BY <3>1, CumulativeStep
    <3>3. QED  BY <1>1, <3>1, <3>2 DEF Fall, Change
  <2>2. Deepest(Summary.drawdown, Len(vault)) /\ Summary.drawdown \in Int
    BY <1>1 DEF PassOK
  <2>3. falls \subseteq Int
    BY <2>1
  <2>4. Summary.drawdown \in falls
    BY <2>1, <2>2 DEF Deepest
  <2>5. \A f \in falls : Summary.drawdown >= f
    BY <2>1, <2>2 DEF Deepest
  <2> HIDE DEF falls
  <2>6. Max(falls) = Summary.drawdown
    BY <2>3, <2>4, <2>5, MaxIs
  <2>7. QED  BY <2>6 DEF falls
<1>6. Cardinality(steps) >= 2 => steps # {}
  BY FS_EmptySet
<1>7. QED  BY <1>3, <1>4, <1>5, <1>6 DEF DrawdownIsOfRecordedTime

-----------------------------------------------------------------------------
(* The runs of the lane record steps of the vault, which only grows.         *)

HlpIInv == VaultOK /\ Len(vault) <= MaxSteps /\ state \in {"absent", "available", "unavailable"}

LEMMA HlpTyped == HlpIInv => HlpTypeOK
<1> DEFINE R == [ret: Returns, funded: BOOLEAN]
<1> SUFFICES ASSUME HlpIInv PROVE HlpTypeOK
  OBVIOUS
<1>1. vault \in Seq(R) /\ steps \subseteq 1 .. Len(vault)
  BY DEF HlpIInv, VaultOK
<1>2. Len(vault) <= MaxSteps /\ state \in {"absent", "available", "unavailable"}
  BY DEF HlpIInv
<1> HIDE DEF R
<1>3. vault \in [1 .. Len(vault) -> R] /\ Len(vault) \in 0 .. MaxSteps
  BY <1>1, <1>2, HlpAssumption
<1>4. vault \in UNION {[1 .. n -> R] : n \in 0 .. MaxSteps}
  BY <1>3
<1>5. QED  BY <1>1, <1>2, <1>4 DEF HlpTypeOK, R

LEMMA HlpInitInv == HlpInit => HlpIInv
<1> SUFFICES ASSUME HlpInit PROVE HlpIInv
  OBVIOUS
<1> DEFINE R == [ret: Returns, funded: BOOLEAN]
<1> HIDE DEF R
<1>1. <<>> \in Seq(R) /\ Len(<<>>) = 0
  OBVIOUS
<1>2. QED  BY <1>1, HlpAssumption DEF HlpInit, HlpIInv, VaultOK, R

LEMMA HlpStepInv == HlpIInv /\ [HlpNext]_hlpVars => HlpIInv'
<1> DEFINE R == [ret: Returns, funded: BOOLEAN]
<1> SUFFICES ASSUME HlpIInv, [HlpNext]_hlpVars PROVE HlpIInv'
  OBVIOUS
<1>1. /\ vault \in Seq(R) /\ steps \subseteq 1 .. Len(vault) /\ Len(vault) <= MaxSteps
      /\ state \in {"absent", "available", "unavailable"}
  BY DEF HlpIInv, VaultOK
<1>2. CASE VaultMoves
  <2>1. PICK step \in R : vault' = Append(vault, step)
    BY <1>2 DEF VaultMoves
  <2>2. Len(vault) < MaxSteps /\ UNCHANGED <<steps, state>>
    BY <1>2 DEF VaultMoves
  <2> HIDE DEF R
  <2>3. vault' \in Seq(R) /\ Len(vault') = Len(vault) + 1 /\ Len(vault) \in Nat
    BY <1>1, <2>1
  <2>4. Len(vault') <= MaxSteps /\ steps' \subseteq 1 .. Len(vault')
    BY <1>1, <2>2, <2>3, HlpAssumption
  <2>5. QED  BY <1>1, <2>2, <2>3, <2>4 DEF HlpIInv, VaultOK, R
<1>3. CASE FetchFails
  BY <1>1, <1>3 DEF FetchFails, HlpIInv, VaultOK
<1>4. CASE Fetched
  <2>1. Recordable \subseteq 1 .. Len(vault)
    BY DEF Recordable
  <2>2. steps' \subseteq 1 .. Len(vault) /\ state' \in {"available", "unavailable"} /\ vault' = vault
    BY <1>1, <1>4, <2>1 DEF Fetched
  <2>3. QED  BY <1>1, <2>2 DEF HlpIInv, VaultOK
<1>5. CASE UNCHANGED hlpVars
  BY <1>1, <1>5 DEF hlpVars, HlpIInv, VaultOK
<1>6. QED  BY <1>2, <1>3, <1>4, <1>5 DEF HlpNext

\* The history of the Hyperliquidity Provider and its published state keep
\* their types.
THEOREM HlpTypeCorrect == HlpSpec => []HlpTypeOK
  BY HlpInitInv, HlpStepInv, HlpTyped, PTL DEF HlpSpec

\* Whatever the vault earned and whichever runs were missed or failed, the
\* published drawdown is the deepest fall inside a stretch recorded without a
\* hole, and segments and coverage count what was recorded.
THEOREM DrawdownOfRecordedTime == HlpSpec => []DrawdownIsOfRecordedTime
<1>1. HlpIInv => DrawdownIsOfRecordedTime
  BY DrawdownCorrect DEF HlpIInv
<1>2. QED  BY <1>1, HlpInitInv, HlpStepInv, PTL DEF HlpSpec

-----------------------------------------------------------------------------
(***************************************************************************)
(* OperatorSentinel.  The record of the file and every image an unlocked   *)
(* rewriter holds of it has a cursor up to which all is accounted for      *)
(* (CursorsOK): a save that takes the file back brings such a cursor.  The *)
(* answer a scan holds closes the gap between the cursor it was asked with *)
(* and the one it brings (WindowOK), and what was accounted for stays so.  *)
(***************************************************************************)
Window0 == [at: {"rest", "answered", "failed"}, latest: 0 .. Unset,
            seen: SUBSET Nat, missed: SUBSET Nat]

SentinelTypes ==
    /\ moves \in Seq(Move) /\ Len(moves) <= MaxTransfers
    /\ today \in 0 .. LastDay
    /\ target \in Target
    /\ window \in Window0
    /\ window.seen \subseteq 1 .. Len(moves) /\ window.missed \subseteq 1 .. Len(moves)
    /\ held \in [Rewriters -> {<<>>} \cup {<<t>> : t \in Target}]
    /\ accounted \subseteq 1 .. Len(moves)

\* A cursor with nothing before it that is not in the set.
Reaches(cursor, set) == cursor # Unset => 1 .. cursor \subseteq set

CursorsOK ==
    /\ Reaches(target.cursor, accounted)
    /\ \A w \in Rewriters : held[w] # <<>> => Reaches(held[w][1].cursor, accounted)

WindowOK == Reaches(window.latest, accounted \cup window.seen \cup window.missed)

SentinelIInv == SentinelTypes /\ CursorsOK /\ WindowOK

LEMMA SentinelTyped == SentinelIInv => SentinelTypeOK /\ NothingSlipsPast
<1> SUFFICES ASSUME SentinelIInv PROVE SentinelTypeOK /\ NothingSlipsPast
  OBVIOUS
<1>1. \A w \in Rewriters : held[w] = <<>> \/ held[w][1] \in Target
  BY DEF SentinelIInv, SentinelTypes
<1>2. SentinelTypeOK
  BY <1>1 DEF SentinelIInv, SentinelTypes, SentinelTypeOK, Window0
<1>3. NothingSlipsPast
  BY DEF SentinelIInv, CursorsOK, Reaches, NothingSlipsPast
<1>4. QED  BY <1>2, <1>3

LEMMA SentinelInitInv == SentinelInit => SentinelIInv
<1> SUFFICES ASSUME SentinelInit PROVE SentinelIInv
  OBVIOUS
<1>1. <<>> \in Seq(Move) /\ Len(<<>>) = 0
  OBVIOUS
<1>2. /\ Registered \in Target /\ NoWindow \in Window0 /\ 0 \in 0 .. LastDay
      /\ Registered.cursor = Unset /\ NoWindow.latest = Unset
      /\ NoWindow.seen = {} /\ NoWindow.missed = {}
  BY SentinelAssumption DEF Registered, Target, NoWindow, Window0, Unset, Never
<1>3. SentinelTypes
  <2>1. moves \in Seq(Move) /\ Len(moves) <= MaxTransfers
    BY <1>1, SentinelAssumption DEF SentinelInit
  <2>2. held \in [Rewriters -> {<<>>} \cup {<<t>> : t \in Target}]
    BY DEF SentinelInit
  <2>3. QED  BY <1>2, <2>1, <2>2 DEF SentinelInit, SentinelTypes
<1>4. QED  BY <1>2, <1>3 DEF SentinelInit, SentinelIInv, CursorsOK, WindowOK, Reaches

LEMMA CursorOK ==
    ASSUME SentinelIInv
    PROVE  /\ FlowCursor(target) \in {Unset, target.cursor}
           /\ FlowCursor(target) \in 0 .. Unset /\ Unset = MaxTransfers + 1
           /\ Reaches(FlowCursor(target), accounted)
<1>1. FlowCursor(target) \in {Unset, target.cursor}
  BY DEF FlowCursor
<1>2. target.cursor \in 0 .. Unset /\ Unset \in 0 .. Unset /\ Unset = MaxTransfers + 1
  BY SentinelAssumption DEF SentinelIInv, SentinelTypes, Target, Unset
<1>3. QED  BY <1>1, <1>2 DEF SentinelIInv, CursorsOK, Reaches

\* The chain and the calendar move.
LEMMA OutsideInv == ASSUME SentinelIInv, Trade \/ DayPasses PROVE SentinelIInv'
<1>1. CASE Trade
  <2>1. PICK side \in {"sell", "buy"} : moves' = Append(moves, [side |-> side, day |-> today])
    BY <1>1 DEF Trade
  <2>2. Len(moves) < MaxTransfers /\ UNCHANGED <<today, target, window, held, accounted>>
    BY <1>1 DEF Trade
  <2>3. [side |-> side, day |-> today] \in Move
    BY DEF SentinelIInv, SentinelTypes, Move
  <2>4. moves' \in Seq(Move) /\ Len(moves') = Len(moves) + 1 /\ Len(moves) \in Nat
    BY <2>1, <2>3 DEF SentinelIInv, SentinelTypes
  <2>5. SentinelTypes'
    BY <2>2, <2>4, SentinelAssumption DEF SentinelIInv, SentinelTypes, Target, Window0, Unset, Never
  <2>6. QED  BY <2>2, <2>5 DEF SentinelIInv, CursorsOK, WindowOK, Reaches, Unset
<1>2. CASE DayPasses
  <2>1. /\ today' \in 0 .. LastDay
        /\ UNCHANGED <<moves, target, window, held, accounted>>
    BY <1>2, SentinelAssumption DEF DayPasses, SentinelIInv, SentinelTypes
  <2>2. SentinelTypes'
    BY <2>1 DEF SentinelIInv, SentinelTypes
  <2>3. QED  BY <2>1, <2>2 DEF SentinelIInv, CursorsOK, WindowOK, Reaches, Unset
<1>3. QED  BY <1>1, <1>2

\* An answer to a scan that was asked with the file's cursor: whatever lies
\* between that cursor and the new one it has seen, or knows it has not.
LEMMA BringsOK ==
    ASSUME SentinelIInv, NEW head \in 0 .. Len(moves), NEW seen \in SUBSET (1 .. Len(moves)),
           NEW latest, latest = FlowCursor(target) \/ latest \in 0 .. head,
           Brings(FlowCursor(target), head, seen, latest)
    PROVE  /\ window' \in Window0
           /\ window'.seen \subseteq 1 .. Len(moves) /\ window'.missed \subseteq 1 .. Len(moves)
           /\ Reaches(window'.latest, accounted \cup window'.seen \cup window'.missed)
<1> DEFINE since == FlowCursor(target)
           missed == {i \in Newer(since) : i <= head} \ seen
<1>1. window' = [at |-> "answered", latest |-> latest, seen |-> seen, missed |-> missed]
  BY DEF Brings
<1>2. Len(moves) \in Nat /\ Len(moves) <= MaxTransfers /\ DOMAIN moves = 1 .. Len(moves)
  BY DEF SentinelIInv, SentinelTypes
<1>3. missed \subseteq 1 .. Len(moves)
  BY <1>2 DEF Newer
<1>4. latest \in 0 .. Unset
  BY <1>2, CursorOK, SentinelAssumption
<1>5. Reaches(latest, accounted \cup seen \cup missed)
  <2>1. ASSUME latest # Unset, NEW i \in 1 .. latest
        PROVE  i \in accounted \cup seen \cup missed
    <3>1. CASE since # Unset /\ i <= since
      <4>1. i \in 1 .. since /\ Reaches(since, accounted)
        BY <3>1, CursorOK
      <4>2. QED  BY <3>1, <4>1 DEF Reaches
    <3>2. CASE since = Unset \/ ~ (i <= since)
      <4>1. since \in 0 .. Unset /\ Unset \in Nat
        BY CursorOK, SentinelAssumption
      <4>2. latest \in 0 .. head
        BY <1>4, <2>1, <3>2, <4>1
      <4>3. i \in 1 .. Len(moves) /\ i <= head /\ (since = Unset \/ i > since)
        BY <1>2, <2>1, <3>2, <4>1, <4>2
      <4>4. i \in Newer(since)
        BY <1>2, <4>3 DEF Newer
      <4>5. QED  BY <4>3, <4>4
    <3>3. QED  BY <3>1, <3>2
  <2>2. QED  BY <2>1 DEF Reaches
<1> HIDE DEF since, missed
<1>6. window' \in Window0
  <2>1. seen \in SUBSET Nat /\ missed \in SUBSET Nat
    BY <1>3
  <2>2. QED  BY <1>1, <1>4, <2>1 DEF Window0
<1>7. QED  BY <1>1, <1>3, <1>5, <1>6

\* The scan reads the cursor and asks for what lies behind it.
LEMMA ScanInv == ASSUME SentinelIInv, Scan \/ PassDies PROVE SentinelIInv'
<1>1. UNCHANGED <<moves, today, target, held, accounted>>
  BY DEF Scan, PassDies
<1>2. Len(moves) \in Nat /\ DOMAIN moves = 1 .. Len(moves)
  BY DEF SentinelIInv, SentinelTypes
<1>3. /\ window' \in Window0
      /\ window'.seen \subseteq 1 .. Len(moves) /\ window'.missed \subseteq 1 .. Len(moves)
      /\ Reaches(window'.latest, accounted \cup window'.seen \cup window'.missed)
  <2>1. CASE PassDies \/ window' = [NoWindow EXCEPT !.at = "failed"]
    <3>1. window' = NoWindow \/ window' = [NoWindow EXCEPT !.at = "failed"]
      BY <2>1 DEF PassDies
    <3>2. window' \in Window0 /\ window'.latest = Unset
          /\ window'.seen = {} /\ window'.missed = {}
      BY <3>1, SentinelAssumption DEF NoWindow, Window0, Unset
    <3>3. QED  BY <3>2 DEF Reaches
  <2>2. CASE PagesFrom(FlowCursor(target))
    <3>1. PICK seen \in SUBSET Newer(FlowCursor(target)) :
             Brings(FlowCursor(target), Len(moves), seen,
                    IF seen = {} THEN FlowCursor(target) ELSE Max(seen))
      BY <2>2 DEF PagesFrom
    <3>2. seen \in SUBSET (1 .. Len(moves))
      BY <1>2, <3>1 DEF Newer
    <3>3. Len(moves) \in 0 .. Len(moves)
      BY <1>2
    <3> DEFINE latest == IF seen = {} THEN FlowCursor(target) ELSE Max(seen)
    <3>4. latest = FlowCursor(target) \/ latest \in 0 .. Len(moves)
      <4>1. CASE seen = {}
        BY <4>1
      <4>2. CASE seen # {}
        <5>1. Max(seen) \in seen
          BY <1>2, <3>2, <4>2, MaxOfBounded
        <5>2. \A i \in seen : i \in 0 .. Len(moves)
          BY <1>2, <3>2
        <5>3. QED  BY <4>2, <5>1, <5>2
      <4>3. QED  BY <4>1, <4>2
    <3>5. Brings(FlowCursor(target), Len(moves), seen, latest)
      BY <3>1
    <3> HIDE DEF latest
    <3>6. QED  BY <3>2, <3>3, <3>4, <3>5, BringsOK
  <2>3. CASE LogsFrom(FlowCursor(target))
    <3>1. PICK from \in 1 .. Len(moves) + 1, head \in 0 .. Len(moves) :
             LET seen == {i \in from .. head : i \notin TooOld} IN
             \E timed \in SUBSET {Sold(seen), Bought(seen)} :
                Brings(FlowCursor(target), head, seen,
                       IF UNION timed = {} THEN FlowCursor(target) ELSE Max(UNION timed))
      BY <2>3 DEF LogsFrom
    <3> DEFINE seen == {i \in from .. head : i \notin TooOld}
    <3>2. seen \in SUBSET (1 .. Len(moves)) /\ seen \in SUBSET (1 .. head) /\ head \in Nat
      BY <1>2, <3>1
    <3>3. PICK timed \in SUBSET {Sold(seen), Bought(seen)} :
             Brings(FlowCursor(target), head, seen,
                    IF UNION timed = {} THEN FlowCursor(target) ELSE Max(UNION timed))
      BY <3>1
    <3> HIDE DEF seen
    <3>4. UNION timed \in SUBSET (1 .. head)
      BY <3>2, <3>3 DEF Sold, Bought
    <3> DEFINE known == UNION timed
               latest == IF known = {} THEN FlowCursor(target) ELSE Max(known)
    <3>5. Brings(FlowCursor(target), head, seen, latest)
      BY <3>3
    <3> HIDE DEF known
    <3>6. latest = FlowCursor(target) \/ latest \in 0 .. head
      <4>1. CASE known = {}
        BY <4>1
      <4>2. CASE known # {}
        <5>1. known \in SUBSET (1 .. head)
          BY <3>4 DEF known
        <5>2. Max(known) \in known
          BY <3>2, <4>2, <5>1, MaxOfBounded
        <5>3. \A i \in known : i \in 0 .. head
          BY <3>2, <5>1
        <5>4. QED  BY <4>2, <5>2, <5>3
      <4>3. QED  BY <4>1, <4>2
    <3> HIDE DEF latest
    <3>7. QED  BY <3>1, <3>2, <3>5, <3>6, BringsOK
  <2>4. QED  BY <2>1, <2>2, <2>3 DEF Scan
<1>4. SentinelTypes'
  BY <1>1, <1>3 DEF SentinelIInv, SentinelTypes
<1>5. QED  BY <1>1, <1>3, <1>4 DEF SentinelIInv, CursorsOK, WindowOK, Reaches, Unset

LEMMA PhaseType == ASSUME NEW kinds PROVE PhaseOf(kinds) \in Phases
  BY DEF PhaseOf, Phases

\* A pass that changes the phase alone.
LEMMA Rephased ==
    ASSUME NEW t \in Target, NEW kinds
    PROVE  LET new == [t EXCEPT !.phase = IF Fires(kinds) THEN PhaseOf(kinds) ELSE @] IN
           new \in Target /\ new.cursor = t.cursor
<1>1. (IF Fires(kinds) THEN PhaseOf(kinds) ELSE t.phase) \in Phases \cup {None}
  BY PhaseType DEF Target
<1>2. QED  BY <1>1 DEF Target

\* The scan's verdict, and the watcher's: the window becomes accounted for in
\* the step that moves the cursor past it.
LEMMA CommitInv ==
    ASSUME SentinelIInv, NEW p \in {"scan", "watch"}, Commit(p)
    PROVE  SentinelIInv'
<1>1. PICK kinds :
         target' = [Advanced(p) EXCEPT !.phase = IF Fires(kinds) THEN PhaseOf(kinds) ELSE @]
  BY DEF Commit
<1>2. /\ accounted' = IF Answers(p) THEN accounted \cup window.seen \cup window.missed
                                    ELSE accounted
      /\ window' = IF p = "scan" THEN NoWindow ELSE window
      /\ UNCHANGED <<moves, today, held>>
  BY DEF Commit
<1>3. accounted \subseteq accounted' /\ accounted' \subseteq 1 .. Len(moves)
  BY <1>2 DEF SentinelIInv, SentinelTypes
<1>4. target \in Target /\ today \in 0 .. Never
  BY SentinelAssumption DEF SentinelIInv, SentinelTypes, Never
<1>5. Advanced(p) \in Target /\ Reaches(Advanced(p).cursor, accounted')
  <2>1. CASE Answers(p)
    <3>1. LatestSeen \in 0 .. Unset /\ Reaches(LatestSeen, accounted')
      <4>1. CASE window.latest # Unset
        BY <1>2, <2>1, <4>1 DEF LatestSeen, SentinelIInv, SentinelTypes, Window0, WindowOK
      <4>2. CASE window.latest = Unset
        BY <1>3, <4>2, CursorOK DEF LatestSeen, Reaches
      <4>3. QED  BY <4>1, <4>2
    <3>2. Advanced(p) = [target EXCEPT !.cursor = LatestSeen, !.scanned = today]
      BY <2>1 DEF Advanced
    <3> HIDE DEF Advanced
    <3>3. Advanced(p) \in Target /\ Advanced(p).cursor = LatestSeen
      BY <1>4, <3>1, <3>2 DEF Target
    <3>4. QED  BY <3>1, <3>3
  <2>2. CASE ~ Answers(p)
    BY <1>3, <1>4, <2>2 DEF Advanced, SentinelIInv, CursorsOK, Reaches
  <2>3. QED  BY <2>1, <2>2
<1>6. target' \in Target /\ target'.cursor = Advanced(p).cursor
  BY <1>1, <1>5, Rephased
<1>7. /\ window' \in Window0
      /\ window'.seen \subseteq 1 .. Len(moves) /\ window'.missed \subseteq 1 .. Len(moves)
      /\ Reaches(window'.latest, accounted' \cup window'.seen \cup window'.missed)
  <2>1. CASE p = "scan"
    BY <1>2, <2>1, SentinelAssumption DEF NoWindow, Window0, Unset, Reaches
  <2>2. CASE p # "scan"
    BY <1>2, <1>3, <2>2 DEF SentinelIInv, SentinelTypes, WindowOK, Reaches
  <2>3. QED  BY <2>1, <2>2
<1>8. SentinelTypes'
  BY <1>2, <1>3, <1>6, <1>7 DEF SentinelIInv, SentinelTypes
<1>9. CursorsOK'
  BY <1>2, <1>3, <1>5, <1>6 DEF SentinelIInv, CursorsOK, Reaches, Unset
<1>10. QED  BY <1>7, <1>8, <1>9 DEF SentinelIInv, WindowOK, Reaches, Unset

LEMMA FlushInv == ASSUME SentinelIInv, Flush PROVE SentinelIInv'
<1>1. PICK kinds : Fires(kinds) /\ target' = [target EXCEPT !.phase = PhaseOf(kinds)]
  BY DEF Flush
<1>2. UNCHANGED <<moves, today, window, held, accounted>>
  BY DEF Flush
<1>3. target \in Target
  BY DEF SentinelIInv, SentinelTypes
<1>4. target' \in Target /\ target'.cursor = target.cursor
  BY <1>1, <1>3, Rephased
<1>5. SentinelTypes'
  BY <1>2, <1>4 DEF SentinelIInv, SentinelTypes
<1>6. QED  BY <1>2, <1>4, <1>5 DEF SentinelIInv, CursorsOK, WindowOK, Reaches, Unset

\* An unlocked save takes the cursor to where it was when the file was read.
LEMMA FileInv ==
    ASSUME SentinelIInv, NEW w \in Rewriters, HoldFile(w) \/ SaveHeld(w)
    PROVE  SentinelIInv'
<1>1. UNCHANGED <<moves, today, window, accounted>>
  BY DEF HoldFile, SaveHeld
<1>2. /\ target \in Target
      /\ held \in [Rewriters -> {<<>>} \cup {<<t>> : t \in Target}]
  BY DEF SentinelIInv, SentinelTypes
<1>3. CASE HoldFile(w)
  <2>1. held' = [held EXCEPT ![w] = <<target>>] /\ target' = target
    BY <1>3 DEF HoldFile
  <2>2. held' \in [Rewriters -> {<<>>} \cup {<<t>> : t \in Target}]
    BY <1>2, <2>1
  <2>3. SentinelTypes'
    BY <1>1, <2>1, <2>2 DEF SentinelIInv, SentinelTypes
  <2>4. \A v \in Rewriters : held'[v] = held[v] \/ held'[v] = <<target>>
    BY <1>2, <2>1
  <2>5. CursorsOK'
    BY <1>1, <2>1, <2>4 DEF SentinelIInv, CursorsOK, Reaches, Unset
  <2>6. QED  BY <1>1, <2>3, <2>5 DEF SentinelIInv, WindowOK, Reaches, Unset
<1>4. CASE SaveHeld(w)
  <2>1. /\ held[w] # <<>> /\ target' = held[w][1]
        /\ held' = [held EXCEPT ![w] = <<>>]
    BY <1>4 DEF SaveHeld
  <2>2. held' \in [Rewriters -> {<<>>} \cup {<<t>> : t \in Target}]
    BY <1>2, <2>1
  <2>3. target' \in Target
    BY <1>2, <2>1
  <2>4. SentinelTypes'
    BY <1>1, <2>2, <2>3 DEF SentinelIInv, SentinelTypes
  <2>5. \A v \in Rewriters : held'[v] = held[v] \/ held'[v] = <<>>
    BY <1>2, <2>1
  <2>6. CursorsOK'
    BY <1>1, <2>1, <2>5 DEF SentinelIInv, CursorsOK, Reaches, Unset
  <2>7. QED  BY <1>1, <2>4, <2>6 DEF SentinelIInv, WindowOK, Reaches, Unset
<1>5. QED  BY <1>3, <1>4

LEMMA SentinelStepInv == SentinelIInv /\ [SentinelNext]_sentinelVars => SentinelIInv'
<1> SUFFICES ASSUME SentinelIInv, [SentinelNext]_sentinelVars PROVE SentinelIInv'
  OBVIOUS
<1>1. CASE Trade \/ DayPasses
  BY <1>1, OutsideInv
<1>2. CASE Scan \/ PassDies
  BY <1>2, ScanInv
<1>3. CASE Flush
  BY <1>3, FlushInv
<1>4. CASE Commit("scan") \/ Commit("watch")
  BY <1>4, CommitInv
<1>5. CASE \E w \in Rewriters : HoldFile(w) \/ SaveHeld(w)
  BY <1>5, FileInv
<1>6. CASE UNCHANGED sentinelVars
  BY <1>6 DEF sentinelVars, SentinelIInv, SentinelTypes, CursorsOK, WindowOK, Reaches,
              Unset, Never, Window0, Target
<1>7. QED  BY <1>1, <1>2, <1>3, <1>4, <1>5, <1>6 DEF SentinelNext

(* The sentinel's file, the answer a scan holds and the images the unlocked  *)
(* rewriters hold keep their types (operator_sentinel.py _load, _save).      *)
THEOREM SentinelTypeCorrect == SentinelSpec => []SentinelTypeOK
<1>1. SentinelIInv => SentinelTypeOK
  BY SentinelTyped
<1>2. QED  BY SentinelInitInv, SentinelStepInv, <1>1, PTL DEF SentinelSpec

(* However many passes run side by side, whichever way a scan asks, however  *)
(* far the node is behind and however old the file image an unlocked         *)
(* rewriter brings back: the cursor of the file has no transfer before it    *)
(* that no committed scan has dealt with (operator_sentinel.py check_run).   *)
THEOREM CursorLeavesNothing == SentinelSpec => []NothingSlipsPast
<1>1. SentinelIInv => NothingSlipsPast
  BY SentinelTyped
<1>2. QED  BY SentinelInitInv, SentinelStepInv, <1>1, PTL DEF SentinelSpec
=============================================================================
