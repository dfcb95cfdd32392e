-------------------------- MODULE EvmQualification --------------------------
(***************************************************************************)
(* How a factory log of an EVM chain becomes a launch: the stream process  *)
(* stores and removes logs in its own database                             *)
(* (evm_factory_stream.persist), a scan reads a batch of them, records a   *)
(* launch in the opportunity ledger and links it back                      *)
(* (launch_radar._scan_primary_evm).  No lease guards a row, the two       *)
(* databases share no transaction, and an id of the ledger is derived from *)
(* the log, so that handling a log twice finds its own first event.        *)
(***************************************************************************)
EXTENDS FiniteSets

CONSTANTS
    Logs,                  \* factory logs, each the key of one launch event
    Scans,                 \* scans that may overlap (a job and a manual run)
    NoLog

ASSUME NoLogAssumption == NoLog \notin Logs

VARIABLES
    raw,                   \* the raw_pools row of each log
    launch,                \* the opportunity-ledger row derived from each log
    scan,                  \* where each scan stands
    retiring,              \* the removal committed, its launch not yet retired
    unretired,             \* history: logs whose remover died just there
    bridged                \* launch_bridge_started_at is set

qualVars == <<raw, launch, scan, retiring, unretired, bridged>>

Retryable == {"raw_unqualified", "market_pending", "market_error", "below_threshold"}
Qualifications == Retryable \cup
    {"qualified_recorded", "ledger_orphan", "duplicate_token_existing",
     "unsupported_quote_pair", "ambiguous_target", "expired_unqualified",
     "reorg_removed", "historical_raw_only"}
Evidence == {"absent", "timestamp_unavailable", "complete", "removed_reorg"}
ScanIdle == [pc |-> "idle", batch |-> {}, log |-> NoLog]

QualInit ==
    /\ raw = [l \in Logs |-> [evidence |-> "absent", qual |-> "raw_unqualified",
                              linked |-> FALSE, due |-> TRUE]]
    /\ launch = [l \in Logs |-> "absent"]
    /\ scan = [s \in Scans |-> ScanIdle]
    /\ retiring = NoLog /\ unretired = {} /\ bridged = FALSE

Removed(l) == raw[l].evidence = "removed_reorg"

-----------------------------------------------------------------------------
\* The stream process.

\* persist of a heard log.  A block clock that cannot be read leaves the row
\* without its timestamp; heard again it may be completed.  A log that was
\* removed never comes back: the conflict is raised before anything changes.
Hear(l) ==
    /\ raw[l].evidence \in {"absent", "timestamp_unavailable"}
    /\ \E e \in {"complete", "timestamp_unavailable"} :
          raw' = [raw EXCEPT ![l].evidence = e]
    /\ UNCHANGED <<launch, scan, retiring, unretired, bridged>>

\* persist of a removed log, also of one heard for the first time or again.
Withdraw(l) ==
    /\ retiring = NoLog
    /\ raw' = [raw EXCEPT ![l].evidence = "removed_reorg", ![l].qual = "reorg_removed"]
    /\ retiring' = IF raw[l].linked THEN l ELSE NoLog
    /\ UNCHANGED <<launch, scan, unretired, bridged>>

\* After the commit: opportunity_ledger.invalidate, in the other database.
Retire ==
    /\ retiring # NoLog
    /\ launch' = [launch EXCEPT ![retiring] = IF @ = "absent" THEN @ ELSE "reorg_removed"]
    /\ unretired' = unretired \ {retiring}
    /\ retiring' = NoLog
    /\ UNCHANGED <<raw, scan, bridged>>
StreamDies ==
    /\ retiring # NoLog
    /\ unretired' = unretired \cup {retiring} /\ retiring' = NoLog
    /\ UNCHANGED <<raw, launch, scan, bridged>>

-----------------------------------------------------------------------------
\* A scan.

\* ensure_bridge_started_at, the expiry of rows older than a day, and the
\* batch of due rows: one read, after which the rows may change.
ReadBatch(s) ==
    /\ scan[s].pc = "idle"
    /\ LET past == {l \in Logs : ~ bridged /\ raw[l].evidence # "absent"
                                 /\ raw[l].qual = "raw_unqualified"}
           open == {l \in Logs \ past : raw[l].evidence = "complete"
                                        /\ raw[l].qual \in Retryable}
       IN \E old \in SUBSET open :
            /\ raw' = [l \in Logs |->
                         IF l \in past THEN [raw[l] EXCEPT !.qual = "historical_raw_only"]
                         ELSE IF l \in old THEN [raw[l] EXCEPT !.qual = "expired_unqualified"]
                         ELSE raw[l]]
            /\ LET due == {l \in open \ old : raw[l].due}
               IN scan' = [scan EXCEPT ![s] = IF due = {} THEN @
                              ELSE [pc |-> "next", batch |-> due, log |-> NoLog]]
    /\ bridged' = TRUE
    /\ UNCHANGED <<launch, retiring, unretired>>

\* Mutant: the update without its removed=0.
UnlessTerminal(l) == raw[l].qual \in Retryable \cup {"reorg_removed"}
\* set_qualification: on a row neither removed nor terminal, else nothing.
Qualifiable(l) == ~ Removed(l) /\ raw[l].qual \in Retryable
SetQualification(l, state, link) ==
    raw' = IF Qualifiable(l)
           THEN [raw EXCEPT ![l].qual = state, ![l].due = state \notin Retryable,
                            ![l].linked = @ \/ link]
           ELSE raw

Rest(s, l) ==
    LET left == scan[s].batch \ {l}
    IN IF left = {} THEN ScanIdle ELSE [pc |-> "next", batch |-> left, log |-> NoLog]

\* A row the scan does not record: its pair is ambiguous, its pool not indexed
\* or too small, or its clock wrong.
Screen(s, l) ==
    /\ scan[s].pc = "next" /\ l \in scan[s].batch
    /\ \E state \in {"ambiguous_target", "unsupported_quote_pair", "market_pending",
                     "market_error", "below_threshold"} :
          SetQualification(l, state, FALSE)
    /\ scan' = [scan EXCEPT ![s] = Rest(s, l)]
    /\ UNCHANGED <<launch, retiring, unretired, bridged>>
\* The market source fails: the batch ends.
MarketFails(s, l) ==
    /\ scan[s].pc = "next" /\ l \in scan[s].batch
    /\ SetQualification(l, "market_error", FALSE)
    /\ scan' = [scan EXCEPT ![s] = ScanIdle]
    /\ UNCHANGED <<launch, retiring, unretired, bridged>>

\* record_if_absent: the first event of the log, or the one already there.
Record(s, l) ==
    /\ scan[s].pc = "next" /\ l \in scan[s].batch
    /\ launch' = [launch EXCEPT ![l] = IF @ = "absent" THEN "signal" ELSE @]
    /\ scan' = [scan EXCEPT ![s].log = l,
                  ![s].pc = IF launch[l] = "absent" THEN "recorded" ELSE "duplicate"]
    /\ UNCHANGED <<raw, retiring, unretired, bridged>>
\* The exact read-back of the new id, which may fail; the assessment appended
\* in between is another table of the ledger.
ReadBackLaunch(s) ==
    /\ scan[s].pc = "recorded"
    /\ \E verdict \in {"verified", "orphan"} : scan' = [scan EXCEPT ![s].pc = verdict]
    /\ UNCHANGED <<raw, launch, retiring, unretired, bridged>>
Link(s) ==
    LET l == scan[s].log IN
    /\ scan[s].pc \in {"verified", "orphan", "duplicate"}
    /\ SetQualification(l,
         CASE scan[s].pc = "verified" -> "qualified_recorded"
           [] scan[s].pc = "orphan" -> "ledger_orphan"
           [] scan[s].pc = "duplicate" -> "duplicate_token_existing",
         scan[s].pc # "duplicate")
    /\ scan' = [scan EXCEPT ![s] = Rest(s, l)]
    /\ UNCHANGED <<launch, retiring, unretired, bridged>>
ScanDies(s) ==
    /\ scan[s].pc # "idle"
    /\ scan' = [scan EXCEPT ![s] = ScanIdle]
    /\ UNCHANGED <<raw, launch, retiring, unretired, bridged>>

RetryAgain(l) ==
    /\ ~ raw[l].due /\ raw' = [raw EXCEPT ![l].due = TRUE]
    /\ UNCHANGED <<launch, scan, retiring, unretired, bridged>>

QualNext ==
    \/ Retire \/ StreamDies
    \/ \E l \in Logs : Hear(l) \/ Withdraw(l) \/ RetryAgain(l)
    \/ \E s \in Scans :
          \/ ReadBatch(s) \/ ReadBackLaunch(s) \/ Link(s) \/ ScanDies(s)
          \/ \E l \in Logs : Screen(s, l) \/ MarketFails(s, l) \/ Record(s, l)

QualSpec == QualInit /\ [][QualNext]_qualVars

-----------------------------------------------------------------------------
QualTypeOK ==
    /\ raw \in [Logs -> [evidence: Evidence, qual: Qualifications,
                         linked: BOOLEAN, due: BOOLEAN]]
    /\ launch \in [Logs -> {"absent", "signal", "reorg_removed"}]
    /\ scan \in [Scans -> [pc: {"idle", "next", "recorded", "verified", "orphan",
                                "duplicate"},
                           batch: SUBSET Logs, log: Logs \cup {NoLog}]]
    /\ retiring \in Logs \cup {NoLog} /\ unretired \subseteq Logs
    /\ bridged \in BOOLEAN

\* A launch that its log links to does not outlive the log: once the log is
\* removed, the launch is retired, or its remover stands (or died) between the
\* two databases.  What overlaps - a scan that decided on the row before the
\* removal, a second scan, a redelivery - cannot link it afterwards.
LinkedLaunchIsRetired ==
    \A l \in Logs : Removed(l) /\ raw[l].linked /\ launch[l] = "signal"
        => retiring = l \/ l \in unretired
=============================================================================
