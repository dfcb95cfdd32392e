------------------------- MODULE MCServicesProofs -------------------------
(***************************************************************************)
(* What is proved of each service holds of the suite that runs them side   *)
(* by side: a step of the suite is a step of one service and a stutter of  *)
(* the others, so the suite implements every one of their specifications.  *)
(***************************************************************************)
EXTENDS MCServices, EvmLaunchProofs, SolanaReconcileProofs, ServiceProofs, TLAPS

LEMMA SuiteInit ==
    Init => /\ QualInit /\ DeliveryInit /\ ReconcileInit /\ CarryInit
            /\ SentinelInit /\ HlpInit /\ LedgerInit
            /\ focus \in {"qualification", "delivery", "reconciliation", "carry",
                          "sentinel", "hlp", "convergence"}
  BY DEF Init

LEMMA SuiteStep ==
    [Next]_suiteVars =>
        /\ UNCHANGED focus
        /\ [QualNext]_qualVars /\ [DeliveryNext]_deliveryVars
        /\ [ReconcileNext]_reconcileVars /\ [CarryNext]_carryVars
        /\ [SentinelNext]_sentinelVars /\ [HlpNext]_hlpVars /\ [LedgerNext]_ledgerVars
<1> SUFFICES ASSUME [Next]_suiteVars
             PROVE  /\ UNCHANGED focus
                    /\ [QualNext]_qualVars /\ [DeliveryNext]_deliveryVars
                    /\ [ReconcileNext]_reconcileVars /\ [CarryNext]_carryVars
                    /\ [SentinelNext]_sentinelVars /\ [HlpNext]_hlpVars
                    /\ [LedgerNext]_ledgerVars
  OBVIOUS
<1>1. CASE Qualifies
  BY <1>1 DEF Qualifies
<1>2. CASE Delivers
  BY <1>2 DEF Delivers
<1>3. CASE Reconciles
  BY <1>3 DEF Reconciles
<1>4. CASE Carries
  BY <1>4 DEF Carries
<1>5. CASE Watches
  BY <1>5 DEF Watches
<1>6. CASE Tracks
  BY <1>6 DEF Tracks
<1>7. CASE Measures
  BY <1>7 DEF Measures
<1>8. CASE UNCHANGED suiteVars
  BY <1>8 DEF suiteVars
<1>9. QED  BY <1>1, <1>2, <1>3, <1>4, <1>5, <1>6, <1>7, <1>8 DEF Next

(* The suite in which the services are checked implements the specification  *)
(* of every one of them: what it shows of one is not due to the others.      *)
THEOREM SuiteImplementsEach ==
    Spec => /\ QualSpec /\ DeliverySpec /\ ReconcileSpec /\ CarrySpec
            /\ SentinelSpec /\ HlpSpec /\ LedgerSpec
  BY SuiteInit, SuiteStep, PTL
     DEF Spec, QualSpec, DeliverySpec, ReconcileSpec, CarrySpec, SentinelSpec, HlpSpec,
         LedgerSpec

(* Whichever service moves keeps its state well typed, and the others' too.  *)
THEOREM SuiteTypeCorrect == Spec => []TypeOK
<1>1. Spec => [](focus \in {"qualification", "delivery", "reconciliation", "carry",
                            "sentinel", "hlp", "convergence"})
  <2> DEFINE Focused == focus \in {"qualification", "delivery", "reconciliation", "carry",
                                   "sentinel", "hlp", "convergence"}
  <2>1. Init => Focused
    BY SuiteInit
  <2>2. Focused /\ [Next]_suiteVars => Focused'
    BY SuiteStep
  <2> HIDE DEF Focused
  <2>3. Spec => []Focused
    BY <2>1, <2>2, PTL DEF Spec
  <2>4. QED  BY <2>3 DEF Focused
<1>2. /\ QualTypeOK /\ DeliveryTypeOK /\ ReconcileTypeOK /\ CarryTypeOK
      /\ SentinelTypeOK /\ HlpTypeOK /\ LedgerTypeOK
      /\ focus \in {"qualification", "delivery", "reconciliation", "carry",
                    "sentinel", "hlp", "convergence"}
      => TypeOK
  BY DEF TypeOK
<1>3. QED
  BY <1>1, <1>2, SuiteImplementsEach, QualTypeCorrect, DeliveryTypeCorrect,
     ReconcileTypeCorrect, CarryTypeCorrect, SentinelTypeCorrect, HlpTypeCorrect,
     LedgerTypeCorrect, PTL
===========================================================================
