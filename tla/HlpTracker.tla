---------------------------- MODULE HlpTracker ----------------------------
(* The Hyperliquidity Provider lane (pipeline/hlp_tracker.py): every run     *)
(* fetches the vault, publishes a projection and records the steps of the    *)
(* rolling day window, from which the true drawdown is compounded.           *)
(* A step's return enters as the change of the logarithm of the equity, so   *)
(* compounding is a sum and a drawdown the fall from a running peak.  The    *)
(* sample times of the vault's API are the points 0, 1, 2, ...               *)
EXTENDS Integers, Sequences, FiniteSets, FiniteSetsExt

CONSTANTS Returns,       \* log returns a step may have
          DayWindow,     \* steps the API still serves at this resolution
          MaxSteps       \* bound: steps the vault takes

ASSUME HlpAssumption ==
    Returns \subseteq Int /\ DayWindow \in Nat \ {0} /\ MaxSteps \in Nat

VARIABLES vault,     \* the vault's steps: [ret |-> log return, funded |-> BOOLEAN]
          steps,     \* the recorded steps, by their start
          state      \* hlp_state.json: whether a projection is available

hlpVars == <<vault, steps, state>>

HlpTypeOK ==
    /\ vault \in UNION {[1..n -> [ret: Returns, funded: BOOLEAN]] : n \in 0..MaxSteps}
    /\ steps \subseteq 1..Len(vault)
    /\ state \in {"absent", "available", "unavailable"}

HlpInit == vault = <<>> /\ steps = {} /\ state = "absent"

(* The vault gains or loses; its book may be empty.                          *)
VaultMoves ==
    /\ Len(vault) < MaxSteps
    /\ \E ret \in Returns, funded \in BOOLEAN :
          vault' = Append(vault, [ret |-> ret, funded |-> funded])
    /\ UNCHANGED <<steps, state>>

(* Mutant: a step past the last sample point.                                *)
OneTooFar == {i + 1 : i \in {i \in 1..Len(vault) : i > Len(vault) - DayWindow}}
(* The steps of the day window whose base is positive.                       *)
Recordable ==
    {i \in 1..Len(vault) : i > Len(vault) - DayWindow /\ vault[i].funded}

(* run: a failed fetch publishes "unavailable" and records nothing; a        *)
(* defective projection is published as such, a defective day window or a    *)
(* failing store leaves the steps alone.                                     *)
FetchFails ==
    /\ state' = "unavailable"
    /\ UNCHANGED <<vault, steps>>

Fetched ==
    /\ Len(vault) > 0
    /\ state' \in {"available", "unavailable"}
    /\ steps' \in {steps, steps \cup Recordable}
    /\ UNCHANGED vault

HlpNext == VaultMoves \/ FetchFails \/ Fetched

HlpSpec == HlpInit /\ [][HlpNext]_hlpVars

-----------------------------------------------------------------------------
(* fine_history_summary: one pass over the rows in the order of their start, *)
(* compounding afresh where a row does not start at the end of the one       *)
(* before.                                                                   *)
OneRun(run, i)   == run
Rejoined(run, i) ==
    IF run.end \notin {0, i - 1}
    THEN [run EXCEPT !.equity = 0, !.peak = 0, !.segments = @ + 1] ELSE run

Compounded(run, i) ==
    LET joined == Rejoined(run, i)
        equity == joined.equity + vault[i].ret
        peak   == Max({joined.peak, equity})
    IN  [joined EXCEPT !.equity = equity, !.peak = peak, !.end = i,
                       !.drawdown = Max({@, peak - equity}), !.covered = @ + 1]

(* The pass over the rows, as it stands after each step of the vault.        *)
Pass[i \in 0..Len(vault)] ==
    IF i = 0 THEN [equity |-> 0, peak |-> 0, end |-> 0, segments |-> 1,
                   drawdown |-> 0, covered |-> 0]
    ELSE IF i \in steps THEN Compounded(Pass[i - 1], i) ELSE Pass[i - 1]

Summary == Pass[Len(vault)]

-----------------------------------------------------------------------------
(* What happened between two points: the sum of the returns from a to b.     *)
Cumulative[i \in 0..Len(vault)] == IF i = 0 THEN 0 ELSE Cumulative[i - 1] + vault[i].ret
Change(a, b) == Cumulative[b] - Cumulative[a]

(* The stretches recorded without a hole, as first and last step.            *)
Stretches == {s \in steps \X steps : s[1] <= s[2] /\ s[1]..s[2] \subseteq steps}

(* The published drawdown is the deepest fall the vault really took inside a *)
(* stretch that was recorded without a hole, and its segments are as many as *)
(* those stretches: whatever runs were missed, failed or saw an empty book,  *)
(* no fall is invented across a hole and none inside a stretch is lost.      *)
DrawdownIsOfRecordedTime ==
    Cardinality(steps) >= 2 =>
        /\ Summary.drawdown = Max({0} \cup {-Change(s[1] - 1, s[2]) : s \in Stretches})
        /\ Summary.segments = Cardinality({i \in steps : i - 1 \notin steps})
        /\ Summary.covered = Cardinality(steps)
=============================================================================
