------------------------- MODULE LaunchProtocolGate -------------------------
(***************************************************************************)
(* The persistent admission latch of the pre-registered launch cohort      *)
(* (launch_protocol_gate.py): one row of launch_protocol_admission.        *)
(* admit() probes the source first and takes the write lock only then, so  *)
(* a caller's clock and verdict may be stale when AdmitTx runs.            *)
(*                                                                         *)
(* Clocks are counted from 1; 0 stands for a NULL timestamp.  The row is   *)
(* inserted as scheduled and evaluated by the same transaction, so a       *)
(* missing row needs no state of its own.  The observations table is only  *)
(* ever appended to and read by nobody here: it is left out.               *)
(***************************************************************************)
EXTENDS Naturals

CONSTANTS
    MaxClock,              \* bound: the last instant of a run
    Boundary,              \* PROTOCOL_START_AT
    MaxDelay               \* MAX_ACTIVATION_DELAY_SECONDS

ASSUME GateAssumption ==
    /\ MaxClock \in Nat \ {0}
    /\ Boundary \in Nat \ {0}
    /\ MaxDelay \in Nat

VARIABLES state, armedAt, openedAt, breachedAt

gate == <<state, armedAt, openedAt, breachedAt>>

Clocks == 1 .. MaxClock
Null == 0
GateStates == {"scheduled", "armed", "open", "breached"}

GateType ==
    /\ state \in GateStates
    /\ armedAt \in Clocks \cup {Null}
    /\ openedAt \in Clocks \cup {Null}
    /\ breachedAt \in Clocks \cup {Null}

GateInit ==
    /\ state = "scheduled"
    /\ armedAt = Null /\ openedAt = Null /\ breachedAt = Null

\* Mutant of Waiting: a breach is not a latch.
NotOpen == state # "open"

Waiting == state \in {"scheduled", "armed"}

Arm(at) ==
    /\ state' = "armed"
    /\ armedAt' = IF armedAt = Null THEN at ELSE armedAt
    /\ UNCHANGED <<openedAt, breachedAt>>

Disarm ==
    /\ state' = "scheduled"
    /\ armedAt' = Null
    /\ UNCHANGED <<openedAt, breachedAt>>

Open(at) ==
    /\ state' = "open"
    /\ openedAt' = at
    /\ UNCHANGED <<armedAt, breachedAt>>

Breach(at) ==
    /\ state' = "breached"
    /\ breachedAt' = at
    /\ UNCHANGED <<armedAt, openedAt>>

\* Mutant of OpensAt: no limit on the activation delay.
OpensAnyTime(at, ready) == state = "armed" /\ ready /\ at >= Boundary

OpensAt(at, ready) ==
    state = "armed" /\ ready /\ at >= Boundary /\ at <= Boundary + MaxDelay

\* admit(): the verdict ready was reached for the instant at.
AdmitTx(at, ready) ==
    \/ state = "breached" /\ UNCHANGED gate
    \/ state = "open" /\ ready /\ UNCHANGED gate
    \/ state = "open" /\ ~ready /\ Breach(at)
    \/ Waiting /\ at < Boundary /\ ready /\ Arm(at)
    \/ Waiting /\ at < Boundary /\ ~ready /\ Disarm
    \/ OpensAt(at, ready) /\ Open(at)
    \/ Waiting /\ at >= Boundary /\ ~OpensAt(at, ready) /\ Breach(at)
=============================================================================
