---------------------------- MODULE MCServices ----------------------------
(* The services that share no state with one another, side by side: the      *)
(* initial state chooses one, and only that one moves.                       *)
EXTENDS EvmQualification, LaunchDelivery, SolanaReconcile, CarryPaper,
        OperatorSentinel, HlpTracker, ConvergenceLedger, TLC

VARIABLE focus

CONSTANTS ln1, ln2

OneEpoch == ln1 :> 0 @@ ln2 :> 0
UnitReturns == {-1, 1}

suiteVars == <<focus, qualVars, deliveryVars, reconcileVars, carryVars,
               sentinelVars, hlpVars, ledgerVars>>

Init ==
    /\ focus \in {"qualification", "delivery", "reconciliation", "carry",
                  "sentinel", "hlp", "convergence"}
    /\ QualInit /\ DeliveryInit /\ ReconcileInit /\ CarryInit
    /\ focus # "reconciliation" => canonical = {}
    /\ SentinelInit /\ HlpInit /\ LedgerInit

Qualifies ==
    /\ focus = "qualification" /\ QualNext
    /\ UNCHANGED <<focus, deliveryVars, reconcileVars, carryVars, sentinelVars, hlpVars, ledgerVars>>
Delivers ==
    /\ focus = "delivery" /\ DeliveryNext
    /\ UNCHANGED <<focus, qualVars, reconcileVars, carryVars, sentinelVars, hlpVars, ledgerVars>>
Reconciles ==
    /\ focus = "reconciliation" /\ ReconcileNext
    /\ UNCHANGED <<focus, qualVars, deliveryVars, carryVars, sentinelVars, hlpVars, ledgerVars>>
Carries ==
    /\ focus = "carry" /\ CarryNext
    /\ UNCHANGED <<focus, qualVars, deliveryVars, reconcileVars, sentinelVars, hlpVars, ledgerVars>>
Watches ==
    /\ focus = "sentinel" /\ SentinelNext
    /\ UNCHANGED <<focus, qualVars, deliveryVars, reconcileVars, carryVars, hlpVars, ledgerVars>>
Tracks ==
    /\ focus = "hlp" /\ HlpNext
    /\ UNCHANGED <<focus, qualVars, deliveryVars, reconcileVars, carryVars, sentinelVars, ledgerVars>>
Measures ==
    /\ focus = "convergence" /\ LedgerNext
    /\ UNCHANGED <<focus, qualVars, deliveryVars, reconcileVars, carryVars, sentinelVars, hlpVars>>

Next == Qualifies \/ Delivers \/ Reconciles \/ Carries \/ Watches \/ Tracks \/ Measures

Spec == Init /\ [][Next]_suiteVars

(* The service that moves keeps its state well typed.                        *)
TypeOK ==
    CASE focus = "qualification"  -> QualTypeOK
      [] focus = "delivery"       -> DeliveryTypeOK
      [] focus = "reconciliation" -> ReconcileTypeOK
      [] focus = "carry"          -> CarryTypeOK
      [] focus = "sentinel"       -> SentinelTypeOK
      [] focus = "hlp"            -> HlpTypeOK
      [] focus = "convergence"    -> LedgerTypeOK

Symmetry == Permutations(Launches) \cup Permutations(Reconcilers)
=============================================================================
