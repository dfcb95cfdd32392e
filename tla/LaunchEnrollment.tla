-------------------------- MODULE LaunchEnrollment --------------------------
(***************************************************************************)
(* How a Pump.fun launch enters the forward cohort: launch_radar.py scans  *)
(* (the scheduler's job and a manual run may overlap) ask the admission    *)
(* latch, lease qualification rows of solana_launch_stream.py, look up the *)
(* market, write the opportunity ledger (another SQLite file) and settle   *)
(* the row.  Meanwhile the stream detects launches and the reconciler      *)
(* seals epochs that verify them.  Every transaction and every network     *)
(* call is a step of its own.                                              *)
(***************************************************************************)
EXTENDS LaunchProtocolGate, FiniteSets

CONSTANTS
    Launches,              \* signatures of Pump.fun create transactions
    Scanners,              \* processes that may run a scan
    None,                  \* no scanner, no launch
    BatchSize,             \* DEX_BATCH_SIZE
    MaxAge,                \* how old a sealed epoch may be for readiness
    Deadline,              \* MAX_SOURCE_TO_DECISION_SECONDS
    LeaseTime,             \* QUALIFICATION_LEASE_SECONDS
    RetryAfter             \* QUALIFICATION_RETRY_SECONDS

ASSUME EnrollmentAssumption ==
    /\ None \notin Launches \cup Scanners
    /\ BatchSize \in Nat \ {0}
    /\ MaxAge \in Nat
    /\ Deadline \in Nat
    /\ LeaseTime \in Nat \ {0}
    /\ RetryAfter \in Nat

VARIABLES
    clock,                 \* wall clock
    healthy,               \* streams live, epochs clean and contiguous
    sealedAt,              \* checked_at of the newest epoch, Null before one
    row,                   \* table raw_launches
    ledger,                \* decision_at of a launch's cohort event, or Null
    scan                   \* where each scanner stands, what it remembers

source == <<healthy, sealedAt>>
vars == <<state, armedAt, openedAt, breachedAt, clock, healthy, sealedAt,
          row, ledger, scan>>

Retryable == {"raw_unqualified", "market_pending"}
Terminal == {"screened_out", "qualified_recorded", "ledger_orphan",
             "historical_raw_only", "qualification_expired", "provenance_conflict"}

\* A lease token is a fresh uuid.  A scanner never remembers one from before
\* its current batch, so that its own name says as much.
Row == [qual: Retryable \cup Terminal \cup {"absent"},
        detected: Clocks \cup {Null}, verified: BOOLEAN, conflict: BOOLEAN,
        lease: Scanners \cup {None}, ends: Nat,
        attempted: Clocks \cup {Null}]

Stages == {"scan", "batch", "candidate"}
Scan == [pc: {"idle", "probing", "admitting", "reading", "claiming", "fetching",
              "working", "priced", "recording", "recorded", "releasing"},
         stage: Stages, now: Clocks \cup {Null}, batchAt: Clocks \cup {Null},
         at: Clocks \cup {Null}, ready: BOOLEAN,
         held: SUBSET Launches, cur: Launches \cup {None}]

TypeOK ==
    /\ GateType
    /\ clock \in Clocks
    /\ healthy \in BOOLEAN
    /\ sealedAt \in Clocks \cup {Null}
    /\ row \in [Launches -> Row]
    /\ ledger \in [Launches -> Clocks \cup {Null}]
    /\ scan \in [Scanners -> Scan]

NoRow == [qual |-> "absent", detected |-> Null, verified |-> FALSE,
          conflict |-> FALSE, lease |-> None, ends |-> 0,
          attempted |-> Null]
Idle == [pc |-> "idle", stage |-> "scan", now |-> Null, batchAt |-> Null, at |-> Null,
         ready |-> FALSE, held |-> {}, cur |-> None]

Init ==
    /\ GateInit
    /\ clock = 1
    /\ healthy \in BOOLEAN
    /\ sealedAt \in {Null, 1}
    /\ row = [l \in Launches |-> NoRow]
    /\ ledger = [l \in Launches |-> Null]
    /\ scan = [p \in Scanners |-> Idle]

-----------------------------------------------------------------------------
(* The source: detection, reconciliation, and the passage of time.         *)

Tick ==
    /\ clock < MaxClock
    /\ clock' = clock + 1
    /\ UNCHANGED <<gate, source, row, ledger, scan>>

HealthChanges ==
    /\ healthy' = ~healthy
    /\ UNCHANGED <<gate, clock, sealedAt, row, ledger, scan>>

\* The websocket stores and hydrates a launch.
Detect(l) ==
    /\ row[l].qual = "absent"
    /\ row' = [row EXCEPT ![l].qual = "raw_unqualified", ![l].detected = clock]
    /\ UNCHANGED <<gate, clock, source, ledger, scan>>

Disputed(r) == [r EXCEPT !.conflict = TRUE,
                         !.qual = IF @ \in Retryable THEN "provenance_conflict" ELSE @]

\* A later observation or hydration disagrees with the stored identity.
Contradict(l) ==
    /\ row[l].qual # "absent" /\ ~row[l].conflict
    /\ row' = [row EXCEPT ![l] = Disputed(@)]
    /\ UNCHANGED <<gate, clock, source, ledger, scan>>

\* The rows of the epoch's slots are compared in the transaction that seals it;
\* its clock is the one read before the provider calls.
Uncompared == {l \in Launches : row[l].qual # "absent" /\ ~row[l].verified}

SealEpoch(checked, good, extra) ==
    /\ sealedAt <= checked /\ checked <= clock
    /\ good \cap extra = {}
    /\ sealedAt' = checked
    /\ healthy' = (healthy /\ extra = {})
    /\ row' = [l \in Launches |->
                 IF l \in good THEN [row[l] EXCEPT !.verified = TRUE]
                 ELSE IF l \in extra THEN Disputed(row[l]) ELSE row[l]]
    /\ UNCHANGED <<gate, clock, ledger, scan>>

\* source_readiness(now): an epoch sealed after now has a negative age.
SourceReady(now) ==
    /\ healthy
    /\ sealedAt # Null
    /\ sealedAt <= now /\ now <= sealedAt + MaxAge

\* candidate_reconciliation_proof() does not raise.
Proven(l) == row[l].verified /\ ~row[l].conflict

SourceNext ==
    \/ Tick \/ HealthChanges
    \/ \E l \in Launches : Detect(l) \/ Contradict(l)
    \/ \E checked \in Clocks : \E good, extra \in SUBSET Uncompared :
          SealEpoch(checked, good, extra)

-----------------------------------------------------------------------------
(* Admission.  A scan asks the latch when it starts and before each batch, *)
(* with the clock of its start, and before each record, with the clock of  *)
(* the price it observed.                                                  *)

At(p, pc) == scan[p].pc = pc
Goes(p, pc) == scan' = [scan EXCEPT ![p].pc = pc]
\* Mutant of GivesUp: forgets what it has leased.
GivesUpEmpty(p) == scan' = [scan EXCEPT ![p] = [Idle EXCEPT !.pc = "releasing"]]

GivesUp(p) == scan' = [scan EXCEPT ![p] = [Idle EXCEPT !.pc = "releasing",
                                                       !.held = scan[p].held]]

\* The instant for which scanner p asks the latch.
AsksFor(p) == IF scan[p].stage = "candidate" THEN scan[p].at ELSE scan[p].now

StartScan(p) ==
    /\ At(p, "idle")
    /\ scan' = [scan EXCEPT ![p].pc = "probing", ![p].now = clock]
    /\ UNCHANGED <<gate, clock, source, row, ledger>>

Probe(p) ==
    /\ At(p, "probing")
    /\ scan' = [scan EXCEPT ![p].pc = "admitting", ![p].ready = SourceReady(AsksFor(p))]
    /\ UNCHANGED <<gate, clock, source, row, ledger>>

\* A probe that raises counts as a source that is not ready.
ProbeFails(p) ==
    /\ At(p, "probing")
    /\ Goes(p, "admitting")
    /\ UNCHANGED <<gate, clock, source, row, ledger>>

Admit(p) ==
    /\ At(p, "admitting")
    /\ AdmitTx(AsksFor(p), scan[p].ready)
    /\ scan' = [scan EXCEPT ![p].pc = "reading", ![p].ready = FALSE]
    /\ UNCHANGED <<clock, source, row, ledger>>

\* The row is read back after the commit; the next stage depends on it.
Admitted(p) ==
    /\ At(p, "reading")
    /\ state = "open"
    /\ \/ /\ scan[p].stage = "scan"
          /\ scan' = [scan EXCEPT ![p].pc = "probing", ![p].stage = "batch"]
       \/ scan[p].stage = "batch" /\ Goes(p, "claiming")
       \/ scan[p].stage = "candidate" /\ Proven(scan[p].cur) /\ Goes(p, "recording")
    /\ UNCHANGED <<gate, clock, source, row, ledger>>

\* The latch is closed, the candidate's proof gone, or the circuit of the market
\* provider open: it opens on a failure and closes with time or success, which
\* the model leaves to chance.
Refused(p) ==
    /\ At(p, "reading")
    /\ \/ state # "open"
       \/ scan[p].stage = "scan"
       \/ scan[p].stage = "candidate" /\ ~Proven(scan[p].cur)
    /\ GivesUp(p)
    /\ UNCHANGED <<gate, clock, source, row, ledger>>

-----------------------------------------------------------------------------
(* claim_qualification_batch(): one transaction, with the clock of the     *)
(* scan's start.                                                           *)

\* Mutant of Available: a claim takes leased rows too.
AlwaysAvailable(r, now) == TRUE

Available(r, now) == r.lease = None \/ r.ends <= now
Closing(r, s) == [r EXCEPT !.qual = s, !.lease = None, !.ends = 0]

Swept(r, now) ==
    IF r.qual \in Retryable /\ Available(r, now) /\ r.detected < Boundary
    THEN Closing(r, "historical_raw_only")
    ELSE IF r.qual \in Retryable /\ Available(r, now) /\ r.detected + Deadline < now
    THEN Closing(r, "qualification_expired")
    ELSE r

Due(r, now) ==
    /\ r.qual \in Retryable
    /\ r.attempted = Null \/ r.attempted + RetryAfter <= now
    /\ Available(r, now)
    /\ r.verified /\ ~r.conflict

\* Three quarters of a batch are reserved for rows never tried before.
VirginQuota == (3 * BatchSize + 3) \div 4
Fewest(n, S) == IF Cardinality(S) < n THEN Cardinality(S) ELSE n

IsBatch(C, due) ==
    LET virgin == {l \in due : row[l].attempted = Null} IN
    /\ Cardinality(C) = Fewest(BatchSize, due)
    /\ Cardinality(C \cap virgin) >= Fewest(VirginQuota, virgin)
    /\ Cardinality(C \ virgin) >= Fewest(BatchSize - VirginQuota, due \ virgin)

Claim(p) ==
    /\ At(p, "claiming")
    /\ LET now == scan[p].now
           swept == [l \in Launches |-> Swept(row[l], now)]
           due == {l \in Launches : Due(swept[l], now)}
       IN  \E C \in SUBSET due :
             /\ IsBatch(C, due)
             /\ row' = [l \in Launches |->
                          IF l \in C THEN [swept[l] EXCEPT !.lease = p,
                                                           !.ends = now + LeaseTime]
                                     ELSE swept[l]]
             /\ scan' = IF C = {} THEN [scan EXCEPT ![p] = Idle]
                        ELSE [scan EXCEPT ![p].pc = "fetching", ![p].held = C]
    /\ UNCHANGED <<gate, clock, source, ledger>>

-----------------------------------------------------------------------------
(* set_qualification() and release_qualification_lease().                  *)

\* Mutant of Owns: a lease outlives the state of its row.
HoldsLease(p, l, at) == row[l].lease = p /\ row[l].ends > at

Owns(p, l, at) == row[l].qual \in Retryable /\ row[l].lease = p /\ row[l].ends > at

\* Mutant of Settled: the retry time is stored as the time of the attempt.
SettledAhead(r, s, at) ==
    [r EXCEPT !.qual = s, !.lease = None, !.ends = 0, !.attempted = at + RetryAfter]

Settled(r, s, at) ==
    [r EXCEPT !.qual = s, !.lease = None, !.ends = 0, !.attempted = at]

\* The scanner drops l from the rows it must still settle.
Drops(p, l) == scan' = [scan EXCEPT ![p].pc = "working", ![p].held = @ \ {l},
                                    ![p].stage = "batch", ![p].cur = None,
                                    ![p].at = Null]

\* A result is written by the owner of an unexpired lease; an exact replay of
\* a terminal result is accepted; anything else raises in the scan.
Settle(p, l, s, at) ==
    \/ /\ Owns(p, l, at)
       /\ row' = [row EXCEPT ![l] = Settled(@, s, at)]
       /\ Drops(p, l)
    \/ /\ row[l].qual = s /\ s \in Terminal
       /\ Drops(p, l)
       /\ UNCHANGED row
    \/ /\ ~Owns(p, l, at) /\ ~(row[l].qual = s /\ s \in Terminal)
       /\ GivesUp(p)
       /\ UNCHANGED row

Release(p) ==
    /\ At(p, "releasing")
    /\ \E l \in scan[p].held :
          /\ row' = IF row[l].lease = p /\ row[l].qual \in Retryable
                    THEN [row EXCEPT ![l].lease = None, ![l].ends = 0] ELSE row
          /\ scan' = [scan EXCEPT ![p].held = @ \ {l}]
    /\ UNCHANGED <<gate, clock, source, ledger>>

EndScan(p) ==
    /\ \/ At(p, "releasing") /\ scan[p].held = {}
       \/ At(p, "working") /\ scan[p].held = {}
    /\ scan' = [scan EXCEPT ![p] = Idle]
    /\ UNCHANGED <<gate, clock, source, row, ledger>>

NextBatch(p) ==
    /\ At(p, "working") /\ scan[p].held = {}
    /\ scan' = [scan EXCEPT ![p].pc = "probing", ![p].stage = "batch",
                            ![p].batchAt = Null]
    /\ UNCHANGED <<gate, clock, source, row, ledger>>

-----------------------------------------------------------------------------
(* The candidates of a batch.                                              *)

FetchBatch(p) ==
    /\ At(p, "fetching")
    /\ scan' = [scan EXCEPT ![p].pc = "working", ![p].batchAt = clock]
    /\ UNCHANGED <<gate, clock, source, row, ledger>>

\* A provider failure gives every lease back.
MarketFails(p) ==
    /\ \/ At(p, "fetching")
       \/ At(p, "working") /\ \E l \in scan[p].held : Proven(l)
    /\ GivesUp(p)
    /\ UNCHANGED <<gate, clock, source, row, ledger>>

ProofGone(p) ==
    /\ At(p, "working")
    /\ \E l \in scan[p].held : ~Proven(l)
    /\ GivesUp(p)
    /\ UNCHANGED <<gate, clock, source, row, ledger>>

\* The batch response names no pool: settled with the clock of that response.
NotIndexed(p, l) ==
    /\ At(p, "working")
    /\ l \in scan[p].held /\ Proven(l)
    /\ Settle(p, l, "market_pending", scan[p].batchAt)
    /\ UNCHANGED <<gate, clock, source, ledger>>

FetchPair(p, l) ==
    /\ At(p, "working")
    /\ l \in scan[p].held /\ Proven(l)
    /\ scan' = [scan EXCEPT ![p].pc = "priced", ![p].cur = l, ![p].at = clock]
    /\ UNCHANGED <<gate, clock, source, row, ledger>>

\* Mutant of Late: the deadline is left to the sweep.
NeverLate(l, at) == FALSE

Late(l, at) == row[l].detected + Deadline < at

TooLate(p) ==
    /\ At(p, "priced")
    /\ Late(scan[p].cur, scan[p].at)
    /\ Settle(p, scan[p].cur, "qualification_expired", scan[p].at)
    /\ UNCHANGED <<gate, clock, source, ledger>>

Screen(p) ==
    /\ At(p, "priced")
    /\ ~Late(scan[p].cur, scan[p].at)
    /\ \E s \in {"market_pending", "screened_out"} :
          Settle(p, scan[p].cur, s, scan[p].at)
    /\ UNCHANGED <<gate, clock, source, ledger>>

Qualify(p) ==
    /\ At(p, "priced")
    /\ ~Late(scan[p].cur, scan[p].at)
    /\ scan' = [scan EXCEPT ![p].pc = "probing", ![p].stage = "candidate"]
    /\ UNCHANGED <<gate, clock, source, row, ledger>>

\* record_if_absent(): the first event of a signature is kept.
Record(p) ==
    /\ At(p, "recording")
    /\ ledger' = IF ledger[scan[p].cur] = Null
                 THEN [ledger EXCEPT ![scan[p].cur] = scan[p].at] ELSE ledger
    /\ Goes(p, "recorded")
    /\ UNCHANGED <<gate, clock, source, row>>

\* Mutant of ReadsBack: any event of the launch will do.
ReadsAnything(p) == ledger[scan[p].cur] # Null

\* The read-back compares the snapshot, which holds decision_at.
ReadsBack(p) == ledger[scan[p].cur] = scan[p].at

Orphan(p) ==
    /\ At(p, "recorded")
    /\ ~ReadsBack(p)
    /\ Settle(p, scan[p].cur, "ledger_orphan", scan[p].at)
    /\ UNCHANGED <<gate, clock, source, ledger>>

Enroll(p) ==
    /\ At(p, "recorded")
    /\ ReadsBack(p)
    /\ Settle(p, scan[p].cur, "qualified_recorded", scan[p].at)
    /\ UNCHANGED <<gate, clock, source, ledger>>

\* Anything else that raises ends the scan: the screening, the ledger write,
\* the security and route assessments that precede Enroll.
Raises(p) ==
    /\ scan[p].pc \in {"priced", "recording", "recorded"}
    /\ GivesUp(p)
    /\ UNCHANGED <<gate, clock, source, row, ledger>>

Crash(p) ==
    /\ ~At(p, "idle")
    /\ scan' = [scan EXCEPT ![p] = Idle]
    /\ UNCHANGED <<gate, clock, source, row, ledger>>

ScanStep(p) ==
    \/ StartScan(p) \/ Probe(p) \/ ProbeFails(p) \/ Admit(p) \/ Admitted(p) \/ Refused(p)
    \/ Claim(p) \/ Release(p) \/ EndScan(p) \/ NextBatch(p)
    \/ FetchBatch(p) \/ MarketFails(p) \/ ProofGone(p)
    \/ \E l \in Launches : NotIndexed(p, l) \/ FetchPair(p, l)
    \/ TooLate(p) \/ Screen(p) \/ Qualify(p)
    \/ Record(p) \/ Orphan(p) \/ Enroll(p) \/ Raises(p)

Next == SourceNext \/ \E p \in Scanners : ScanStep(p) \/ Crash(p)

Spec == Init /\ [][Next]_vars
-----------------------------------------------------------------------------
(* Safety.                                                                 *)

\* The cohort is opened once, in time, by a latch that was armed before the
\* boundary (launch_protocol_gate.py), whatever the clocks of the callers.
OpenedOnTime ==
    /\ state = "open" => openedAt # Null
    /\ openedAt # Null => /\ armedAt # Null /\ armedAt < Boundary
                          /\ Boundary <= openedAt /\ openedAt <= Boundary + MaxDelay
    /\ breachedAt # Null <=> state = "breached"

\* An event of the forward cohort was decided after the opening, about a
\* launch detected after the boundary, within the source-to-decision deadline
\* and on a sealed epoch's evidence (launch_radar.py writes the ledger long
\* after it claimed the row and asked the latch).
EnrolledInWindow ==
    \A l \in Launches : ledger[l] # Null =>
        /\ openedAt # Null /\ openedAt <= ledger[l]
        /\ Boundary <= row[l].detected
        /\ row[l].detected <= ledger[l] /\ ledger[l] <= row[l].detected + Deadline
        /\ row[l].verified

\* A row that says qualified_recorded was qualified by the very decision its
\* ledger event holds, although the two live in two databases.
QualifiedIsBacked ==
    \A l \in Launches :
        row[l].qual = "qualified_recorded" =>
            ledger[l] # Null /\ row[l].attempted = ledger[l]

\* A terminal qualification is never rewritten, by no scanner's late result,
\* sweep, conflict or epoch (set_qualification calls it immutable).
TerminalIsFinal ==
    [][\A l \in Launches :
         row[l].qual \in Terminal => row'[l].qual = row[l].qual]_vars

\* A lease that has not run out keeps every other scanner away from the row,
\* however old the clock they claim with; only disputed evidence overrides it.
LeaseExcludes ==
    [][\A l \in Launches : \A p \in Scanners :
         /\ row[l].lease = p /\ row[l].qual \in Retryable /\ row[l].ends > clock
         /\ scan'[p] = scan[p]
         => row'[l].lease = p /\ row'[l].qual \in {row[l].qual, "provenance_conflict"}]_vars

\* The admission latch is a one-way door: an open cohort can only breach, a
\* breached one stays so with the instants it was armed, opened and breached.
BreachIsFinal ==
    [][/\ state = "breached" => UNCHANGED gate
       /\ state = "open" => /\ state' \in {"open", "breached"}
                            /\ UNCHANGED <<armedAt, openedAt>>]_vars

\* The evidence this model takes for granted is what SolanaReconcile provides.
Facts == INSTANCE LaunchEvidence WITH
    known    <- {l \in Launches : row[l].qual # "absent"},
    verified <- {l \in Launches : row[l].verified},
    disputed <- {l \in Launches : row[l].conflict}
ImplementsEvidence == Facts!Spec

-----------------------------------------------------------------------------
(* Liveness, for scans that are not killed.                                *)

Unkilled == SourceNext \/ \E p \in Scanners : ScanStep(p)
FairSpec == Init /\ [][Unkilled]_vars /\ \A p \in Scanners : WF_vars(ScanStep(p))

\* Every way out of a scan gives its leases back or settles their rows: no
\* launch stays leased to a scanner that has gone on.
LeasesComeBack ==
    \A p \in Scanners : \A l \in Launches :
        row[l].lease = p /\ row[l].qual \in Retryable
        ~> row[l].lease # p \/ row[l].qual \in Terminal

-----------------------------------------------------------------------------
(* What the documents say and the code does not do.                        *)

\* docs/LAUNCH_EDGE_VALIDATION_PROTOCOL.md: the latch only moves forward,
\* scheduled, armed, open.
Rank == [s \in GateStates |->
           CASE s = "scheduled" -> 0 [] s = "armed" -> 1
             [] s = "open" -> 2 [] s = "breached" -> 3]
ForwardOnly == [][Rank[state'] >= Rank[state]]_vars

\* _scan_primary_solana(): "short, crash-safe provider batches".  A launch
\* whose event is in the ledger can still be recorded as qualified.
CrashSafe ==
    \A l \in Launches : ledger[l] # Null =>
        row[l].qual \in Retryable \cup {"qualified_recorded", "provenance_conflict"}

\* An open cohort breaches only when a readiness check fails.  Here the source
\* is healthy and its newest epoch young at every instant, and no probe raises.
SteadySource == healthy /\ sealedAt # Null /\ clock <= sealedAt + MaxAge
Steady ==
    /\ Next /\ SteadySource'
    /\ \A p \in Scanners : ProbeFails(p) => ~SourceReady(AsksFor(p))
SteadySpec == Init /\ SteadySource /\ [][Steady]_vars
SteadySourceStaysOpen == state = "breached" => openedAt = Null
=============================================================================
