--------------------------- MODULE LaunchEvidence ---------------------------
(***************************************************************************)
(* What the store says of a launch's evidence, to whoever enrols launches. *)
(* A launch once known stays known; what two sources disagree on stays     *)
(* disputed; and a launch is verified for good, by a seal that compares    *)
(* launches known by then, each before it was verified, and disputes those *)
(* it cannot verify.  SolanaReconcile, which does the sealing, and         *)
(* LaunchEnrollment, which relies on it, both implement this.              *)
(***************************************************************************)
CONSTANT Launches

VARIABLES known, verified, disputed

vars == <<known, verified, disputed>>

Init == known = {} /\ verified = {} /\ disputed = {}

Detect(l) ==
    /\ known' = known \cup {l}
    /\ UNCHANGED <<verified, disputed>>

Dispute(l) ==
    /\ l \in known
    /\ disputed' = disputed \cup {l}
    /\ UNCHANGED <<known, verified>>

Seal(good, extra) ==
    /\ good \cap extra = {}
    /\ verified' = verified \cup good
    /\ disputed' = disputed \cup extra
    /\ UNCHANGED known

Next ==
    \/ \E l \in Launches : Detect(l) \/ Dispute(l)
    \/ \E good, extra \in SUBSET (known \ verified) : Seal(good, extra)

Spec == Init /\ [][Next]_vars
=============================================================================
