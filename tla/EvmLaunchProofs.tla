-------------------------- MODULE EvmLaunchProofs ---------------------------
(***************************************************************************)
(* Proofs about the two ledgers an EVM launch passes through after it was  *)
(* observed: EvmQualification for any number of logs and scans, and        *)
(* LaunchDelivery for any number of publishing jobs, any lifetime of a     *)
(* quote and any delivery time.                                            *)
(***************************************************************************)
EXTENDS EvmQualification, LaunchDelivery, TLAPS

(***************************************************************************)
(* EvmQualification.  That a linked launch is retired is not inductive     *)
(* alone.  A log that is linked must already have its launch, or recording *)
(* that launch later would bring a removed one to life (LinkedHasLaunch);  *)
(* and a scan about to link must know of a launch (DecidedOnLaunch),       *)
(* because the ledger never loses a row.                                   *)
(***************************************************************************)
LinkedHasLaunch == \A l \in Logs : raw[l].linked => launch[l] # "absent"
DecidedOnLaunch ==
    \A s \in Scans :
        scan[s].pc \in {"recorded", "verified", "orphan", "duplicate"} =>
            scan[s].log \in Logs /\ launch[scan[s].log] # "absent"

QualIInv == QualTypeOK /\ LinkedHasLaunch /\ DecidedOnLaunch /\ LinkedLaunchIsRetired

-----------------------------------------------------------------------------
\* set_qualification writes only rows whose log stands, so it can neither
\* remove a log nor touch the link of a removed one.
LEMMA Qualified ==
    ASSUME QualTypeOK, NEW l \in Logs, NEW state \in Qualifications,
           NEW link \in BOOLEAN, SetQualification(l, state, link)
    PROVE  /\ raw' \in [Logs -> [evidence: Evidence, qual: Qualifications,
                                 linked: BOOLEAN, due: BOOLEAN]]
           /\ \A k \in Logs : /\ raw'[k].evidence = raw[k].evidence
                              /\ raw'[k].linked =>
                                    raw[k].linked \/ (k = l /\ link /\ ~ Removed(k))
<1>1. CASE Qualifiable(l)
  <2> DEFINE due == state \notin Retryable
             linked == raw[l].linked \/ link
             row == [raw[l] EXCEPT !.qual = state, !.due = due, !.linked = linked]
  <2>1. due \in BOOLEAN /\ linked \in BOOLEAN /\ (linked => raw[l].linked \/ link)
    BY Zenon
  <2>2. raw' = [raw EXCEPT ![l] = row]
    BY <1>1 DEF SetQualification, QualTypeOK
  <2> HIDE DEF due, linked
  <2>3. /\ row \in [evidence: Evidence, qual: Qualifications, linked: BOOLEAN, due: BOOLEAN]
        /\ row.evidence = raw[l].evidence /\ row.linked = linked
    BY <2>1 DEF QualTypeOK
  <2> HIDE DEF row
  <2>4. ~ Removed(l)
    BY <1>1 DEF Qualifiable
  <2>5. QED  BY <2>1, <2>2, <2>3, <2>4 DEF QualTypeOK
<1>2. CASE ~ Qualifiable(l)
  BY <1>2 DEF QualTypeOK, SetQualification
<1>3. QED  BY <1>1, <1>2

\* A step that qualifies one row keeps the invariant, when a row it links has
\* its launch.
LEMMA Qualifying ==
    ASSUME QualIInv, NEW l \in Logs, NEW state \in Qualifications, NEW link \in BOOLEAN,
           SetQualification(l, state, link), link => launch[l] # "absent",
           UNCHANGED <<launch, retiring, unretired, bridged>>,
           NEW s \in Scans, NEW rest,
           rest \in [pc: {"idle", "next"}, batch: SUBSET Logs, log: Logs \cup {NoLog}],
           scan' = [scan EXCEPT ![s] = rest]
    PROVE  QualIInv'
<1>1. QualTypeOK'
  BY Qualified DEF QualIInv, QualTypeOK
<1>2. LinkedHasLaunch'
  BY Qualified DEF QualIInv, LinkedHasLaunch
<1>3. DecidedOnLaunch'
  BY DEF QualIInv, DecidedOnLaunch, QualTypeOK
<1>4. LinkedLaunchIsRetired'
  BY Qualified DEF QualIInv, LinkedLaunchIsRetired, Removed
<1>5. QED  BY <1>1, <1>2, <1>3, <1>4 DEF QualIInv

LEMMA RestIsFree ==
    ASSUME QualTypeOK, NEW s \in Scans, NEW l \in Logs
    PROVE  Rest(s, l) \in [pc: {"idle", "next"}, batch: SUBSET Logs, log: Logs \cup {NoLog}]
  BY DEF QualTypeOK, Rest, ScanIdle

\* The invariant holds at the start.
LEMMA QualInitInv == QualInit => QualIInv
<1> SUFFICES ASSUME QualInit PROVE QualIInv
  OBVIOUS
<1>1. raw \in [Logs -> [evidence: Evidence, qual: Qualifications,
                       linked: BOOLEAN, due: BOOLEAN]]
  BY DEF QualInit, Evidence, Qualifications, Retryable
<1>2. QualTypeOK
  BY <1>1 DEF QualInit, QualTypeOK, ScanIdle
<1>3. LinkedHasLaunch /\ LinkedLaunchIsRetired
  BY DEF QualInit, LinkedHasLaunch, LinkedLaunchIsRetired
<1>4. DecidedOnLaunch
  BY DEF QualInit, DecidedOnLaunch, ScanIdle
<1>5. QED  BY <1>2, <1>3, <1>4 DEF QualIInv

\* What the stream process does keeps the invariant.
LEMMA StreamSteps ==
    ASSUME QualIInv, Retire \/ StreamDies \/ (\E l \in Logs : Hear(l) \/ Withdraw(l))
    PROVE  QualIInv'
<1> USE DEF QualIInv
<1>1. CASE Retire
  <2>1. retiring \in Logs
    BY <1>1 DEF Retire, QualTypeOK
  <2>2. QualTypeOK'
    BY <1>1, <2>1 DEF Retire, QualTypeOK
  <2>3. \A l \in Logs : launch'[l] = "absent" <=> launch[l] = "absent"
    BY <1>1, <2>1 DEF Retire, QualTypeOK
  <2>4. LinkedHasLaunch' /\ DecidedOnLaunch'
    BY <1>1, <2>3 DEF Retire, LinkedHasLaunch, DecidedOnLaunch
  <2>5. LinkedLaunchIsRetired'
    BY <1>1, <2>1 DEF Retire, QualTypeOK, LinkedLaunchIsRetired, Removed
  <2>6. QED  BY <2>2, <2>4, <2>5
<1>2. CASE StreamDies
  BY <1>2 DEF StreamDies, QualTypeOK, LinkedHasLaunch, DecidedOnLaunch,
              LinkedLaunchIsRetired, Removed
<1>3. ASSUME NEW l \in Logs, Hear(l)
      PROVE  QualIInv'
  <2>1. QualTypeOK'
    BY <1>3 DEF Hear, QualTypeOK, Evidence
  <2>2. LinkedHasLaunch' /\ DecidedOnLaunch'
    BY <1>3 DEF Hear, QualTypeOK, LinkedHasLaunch, DecidedOnLaunch
  <2>3. LinkedLaunchIsRetired'
    BY <1>3 DEF Hear, QualTypeOK, LinkedLaunchIsRetired, Removed
  <2>4. QED  BY <2>1, <2>2, <2>3
<1>4. ASSUME NEW l \in Logs, Withdraw(l)
      PROVE  QualIInv'
  <2>1. QualTypeOK'
    BY <1>4 DEF Withdraw, QualTypeOK, Evidence, Qualifications
  <2>2. LinkedHasLaunch' /\ DecidedOnLaunch'
    BY <1>4 DEF Withdraw, QualTypeOK, LinkedHasLaunch, DecidedOnLaunch
  <2>3. LinkedLaunchIsRetired'
    BY <1>4, NoLogAssumption DEF Withdraw, QualTypeOK, LinkedLaunchIsRetired, Removed
  <2>4. QED  BY <2>1, <2>2, <2>3
<1>5. QED  BY <1>1, <1>2, <1>3, <1>4

\* What a scan does keeps the invariant.
LEMMA ScanSteps ==
    ASSUME QualIInv, NEW s \in Scans,
           \/ ReadBatch(s) \/ ReadBackLaunch(s) \/ Link(s) \/ ScanDies(s)
           \/ \E l \in Logs : Screen(s, l) \/ MarketFails(s, l) \/ Record(s, l)
    PROVE  QualIInv'
<1>1. CASE ReadBatch(s)
  <2>1. \A l \in Logs : raw'[l].linked = raw[l].linked /\ raw'[l].evidence = raw[l].evidence
    BY <1>1 DEF ReadBatch, QualIInv, QualTypeOK
  <2>2. raw' \in [Logs -> [evidence: Evidence, qual: Qualifications,
                           linked: BOOLEAN, due: BOOLEAN]]
    BY <1>1 DEF ReadBatch, QualIInv, QualTypeOK, Qualifications
  <2>3. PICK due \in SUBSET Logs :
            scan' = [scan EXCEPT ![s] = IF due = {} THEN @
                       ELSE [pc |-> "next", batch |-> due, log |-> NoLog]]
    BY <1>1 DEF ReadBatch
  <2>4. QualTypeOK'
    BY <1>1, <2>2, <2>3 DEF ReadBatch, QualIInv, QualTypeOK
  <2>5. LinkedHasLaunch' /\ LinkedLaunchIsRetired'
    BY <1>1, <2>1 DEF ReadBatch, QualIInv, LinkedHasLaunch, LinkedLaunchIsRetired, Removed
  <2>6. DecidedOnLaunch'
    BY <1>1, <2>3 DEF ReadBatch, QualIInv, QualTypeOK, DecidedOnLaunch
  <2>7. QED  BY <2>4, <2>5, <2>6 DEF QualIInv
<1>2. CASE ReadBackLaunch(s)
  <2>1. QualTypeOK' /\ DecidedOnLaunch'
    BY <1>2 DEF ReadBackLaunch, QualIInv, QualTypeOK, DecidedOnLaunch
  <2>2. LinkedHasLaunch' /\ LinkedLaunchIsRetired'
    BY <1>2 DEF ReadBackLaunch, QualIInv, LinkedHasLaunch, LinkedLaunchIsRetired, Removed
  <2>3. QED  BY <2>1, <2>2 DEF QualIInv
<1>3. CASE Link(s)
  <2> DEFINE l == scan[s].log
             state == CASE scan[s].pc = "verified" -> "qualified_recorded"
                        [] scan[s].pc = "orphan" -> "ledger_orphan"
                        [] scan[s].pc = "duplicate" -> "duplicate_token_existing"
             link == scan[s].pc # "duplicate"
  <2>1. l \in Logs /\ launch[l] # "absent"
    BY <1>3 DEF Link, QualIInv, DecidedOnLaunch
  <2>2. state \in Qualifications /\ link \in BOOLEAN
    BY <1>3 DEF Link, Qualifications
  <2>3. SetQualification(l, state, link) /\ scan' = [scan EXCEPT ![s] = Rest(s, l)]
        /\ UNCHANGED <<launch, retiring, unretired, bridged>>
    BY <1>3 DEF Link
  <2> HIDE DEF l, state, link
  <2>4. Rest(s, l) \in [pc: {"idle", "next"}, batch: SUBSET Logs, log: Logs \cup {NoLog}]
    BY <2>1, RestIsFree DEF QualIInv
  <2>5. QED  BY <2>1, <2>2, <2>3, <2>4, Qualifying
<1>4. CASE ScanDies(s)
  <2>1. QualTypeOK' /\ DecidedOnLaunch'
    BY <1>4 DEF ScanDies, ScanIdle, QualIInv, QualTypeOK, DecidedOnLaunch
  <2>2. LinkedHasLaunch' /\ LinkedLaunchIsRetired'
    BY <1>4 DEF ScanDies, QualIInv, LinkedHasLaunch, LinkedLaunchIsRetired, Removed
  <2>3. QED  BY <2>1, <2>2 DEF QualIInv
<1>5. ASSUME NEW l \in Logs, Screen(s, l)
      PROVE  QualIInv'
  <2>1. PICK state \in Qualifications : SetQualification(l, state, FALSE)
    BY <1>5 DEF Screen, Qualifications, Retryable
  <2>2. scan' = [scan EXCEPT ![s] = Rest(s, l)]
        /\ UNCHANGED <<launch, retiring, unretired, bridged>>
    BY <1>5 DEF Screen
  <2>3. Rest(s, l) \in [pc: {"idle", "next"}, batch: SUBSET Logs, log: Logs \cup {NoLog}]
    BY RestIsFree DEF QualIInv
  <2>4. QED  BY <2>1, <2>2, <2>3, Qualifying
<1>6. ASSUME NEW l \in Logs, MarketFails(s, l)
      PROVE  QualIInv'
  <2>1. SetQualification(l, "market_error", FALSE) /\ scan' = [scan EXCEPT ![s] = ScanIdle]
        /\ UNCHANGED <<launch, retiring, unretired, bridged>>
    BY <1>6 DEF MarketFails
  <2>2. "market_error" \in Qualifications
        /\ ScanIdle \in [pc: {"idle", "next"}, batch: SUBSET Logs, log: Logs \cup {NoLog}]
    BY DEF Qualifications, Retryable, ScanIdle
  <2>3. QED  BY <2>1, <2>2, Qualifying
<1>7. ASSUME NEW l \in Logs, Record(s, l)
      PROVE  QualIInv'
  <2> DEFINE pc == IF launch[l] = "absent" THEN "recorded" ELSE "duplicate"
             kept == [scan[s] EXCEPT !.log = l, !.pc = pc]
  <2>0. scan' = [scan EXCEPT ![s] = kept] /\ pc \in {"recorded", "duplicate"}
    BY <1>7 DEF Record, QualIInv, QualTypeOK
  <2> HIDE DEF pc
  <2>7. kept.log = l /\ kept \in [pc: {"recorded", "duplicate"}, batch: SUBSET Logs,
                                  log: Logs \cup {NoLog}]
    BY <1>7, <2>0 DEF QualIInv, QualTypeOK
  <2> HIDE DEF kept
  <2>9. scan' \in [Scans -> [pc: {"idle", "next", "recorded", "verified", "orphan",
                                "duplicate"},
                            batch: SUBSET Logs, log: Logs \cup {NoLog}]]
    BY <2>0, <2>7 DEF QualIInv, QualTypeOK
  <2>8. launch' \in [Logs -> {"absent", "signal", "reorg_removed"}]
    BY <1>7 DEF Record, QualIInv, QualTypeOK
  <2>1. QualTypeOK'
    BY <1>7, <2>8, <2>9 DEF Record, QualIInv, QualTypeOK
  <2>2. \A k \in Logs : launch[k] # "absent" => launch'[k] = launch[k]
    BY <1>7 DEF Record, QualIInv, QualTypeOK
  <2>3. launch'[l] # "absent"
    BY <1>7 DEF Record, QualIInv, QualTypeOK
  <2>4. LinkedHasLaunch' /\ LinkedLaunchIsRetired'
    BY <1>7, <2>2 DEF Record, QualIInv, LinkedHasLaunch, LinkedLaunchIsRetired, Removed
  <2>5. DecidedOnLaunch'
    BY <2>0, <2>2, <2>3, <2>7 DEF QualIInv, QualTypeOK, DecidedOnLaunch
  <2>6. QED  BY <2>1, <2>4, <2>5 DEF QualIInv
<1>8. QED  BY <1>1, <1>2, <1>3, <1>4, <1>5, <1>6, <1>7

\* Every step keeps the invariant.
LEMMA QualStepInv == QualIInv /\ [QualNext]_qualVars => QualIInv'
<1> SUFFICES ASSUME QualIInv, [QualNext]_qualVars PROVE QualIInv'
  OBVIOUS
<1>1. ASSUME NEW l \in Logs, RetryAgain(l)
      PROVE  QualIInv'
  <2>1. raw' = [raw EXCEPT ![l].due = TRUE]
        /\ UNCHANGED <<launch, scan, retiring, unretired, bridged>>
    BY <1>1 DEF RetryAgain
  <2>2. /\ raw' \in [Logs -> [evidence: Evidence, qual: Qualifications,
                              linked: BOOLEAN, due: BOOLEAN]]
        /\ \A k \in Logs : raw'[k].linked = raw[k].linked
                           /\ raw'[k].evidence = raw[k].evidence
    BY <2>1 DEF QualIInv, QualTypeOK
  <2>3. QualTypeOK' /\ DecidedOnLaunch'
    BY <2>1, <2>2 DEF QualIInv, QualTypeOK, DecidedOnLaunch
  <2>4. LinkedHasLaunch' /\ LinkedLaunchIsRetired'
    BY <2>1, <2>2 DEF QualIInv, LinkedHasLaunch, LinkedLaunchIsRetired, Removed
  <2>5. QED  BY <2>3, <2>4 DEF QualIInv
<1>2. CASE UNCHANGED qualVars
  BY <1>2 DEF qualVars, QualIInv, QualTypeOK, LinkedHasLaunch, DecidedOnLaunch,
              LinkedLaunchIsRetired, Removed
<1>3. QED  BY <1>1, <1>2, StreamSteps, ScanSteps DEF QualNext

\* The rows of both databases and the scans between them keep their types.
THEOREM QualTypeCorrect == QualSpec => []QualTypeOK
<1>1. QualIInv => QualTypeOK
  BY DEF QualIInv
<1>2. QED  BY <1>1, QualInitInv, QualStepInv, PTL DEF QualSpec

\* However scans, removals and crashes interleave over any set of logs, a
\* launch does not outlive a removed log that links to it, except where its
\* remover stands or died between the two databases
\* (evm_factory_stream.persist, EvidenceStore.set_qualification).
THEOREM LinkedLaunchRetires == QualSpec => []LinkedLaunchIsRetired
<1>1. QualIInv => LinkedLaunchIsRetired
  BY DEF QualIInv
<1>2. QED  BY <1>1, QualInitInv, QualStepInv, PTL DEF QualSpec

-----------------------------------------------------------------------------
(***************************************************************************)
(* LaunchDelivery.  A board is rendered, written and pushed in different   *)
(* steps, so that what it says must be justified by what the ledger        *)
(* already held when it was rendered: proofs are appended once and quotes  *)
(* never change (ProofsOK), and a job that may append still holds the view *)
(* that made it a candidate (JobsOK).                                      *)
(***************************************************************************)
Proof == [fetched: 0 .. MaxClock, generated: -1 .. MaxClock]
Proven == {"put", "readBack", "append"}
Job == [pc: {"rest", "render", "write", "meta", "push", "pushMeta", "pushOnlyMeta",
             "promote"} \cup Proven,
        view: View, promoted: BOOLEAN, fetched: -1 .. MaxClock]

DeliveryTypes ==
    /\ clock \in 0 .. MaxClock
    /\ quotes \in Seq(0 .. MaxClock) /\ Len(quotes) <= MaxQuotes
    /\ proofs \in Seq(Proof \cup {NoProof0}) /\ Len(proofs) = Len(quotes)
    /\ files \in [launch: View, meta: -1 .. MaxClock]
    /\ blob \in [launch: View, meta: -1 .. MaxClock]
    /\ publisher \in [Publishers -> Job]
    /\ writing \in Publishers \cup {Nobody}

\* A proof in the ledger was fetched in time, of a quote that still lived.
ProofsOK ==
    \A a \in 1 .. Len(quotes) : proofs[a] # NoProof0 =>
        /\ proofs[a] \in Proof
        /\ proofs[a].fetched <= proofs[a].generated + DeliverySLA
        /\ proofs[a].fetched < quotes[a] + QuoteTTL
        /\ proofs[a].fetched <= clock

\* What a view says of the ledger, whenever it is read.
ViewOK(view) ==
    /\ view.quote <= Len(quotes)
    /\ view.level # "A1_WATCH" => view.quote >= 1
    /\ view.level = "A3_MANUAL_PROBE" =>
          /\ proofs[view.quote] # NoProof0
          /\ proofs[view.quote].fetched <= view.generated
ViewsOK ==
    ViewOK(files.launch) /\ ViewOK(blob.launch) /\ \A p \in Publishers : ViewOK(publisher[p].view)

\* A job that may append holds the view of a candidate, and once it fetched its
\* snapshot, it did so in time.
JobOK(job) ==
    /\ job.pc \in Proven => job.view.quote >= 1
    /\ job.pc = "append" =>
          /\ job.fetched \in 0 .. clock
          /\ job.fetched - job.view.generated <= DeliverySLA
          /\ job.fetched < quotes[job.view.quote] + QuoteTTL
JobsOK == \A p \in Publishers : JobOK(publisher[p])

\* A job between the two files holds the lock, and its view is on disk.
LockOK ==
    \A p \in Publishers : publisher[p].pc = "meta" =>
        writing = p /\ files.launch = publisher[p].view

DeliveryIInv == DeliveryTypes /\ ProofsOK /\ ViewsOK /\ JobsOK /\ LockOK

-----------------------------------------------------------------------------
LEMMA NoViewOK == NoView \in View /\ (DeliveryTypes => ViewOK(NoView))
  BY DeliveryAssumption DEF NoView, View, ViewOK, DeliveryTypes

LEMMA RestingOK ==
    ASSUME DeliveryTypes
    PROVE  Resting0 \in Job /\ ViewOK(Resting0.view) /\ JobOK(Resting0)
           /\ Resting0.pc # "meta"
  BY NoViewOK, DeliveryAssumption DEF Resting0, Job, JobOK, Proven

\* A ledger that only grows, with the clock, keeps what was said of it.
Grows ==
    /\ Len(quotes) <= Len(quotes') /\ clock <= clock'
    /\ \A a \in 1 .. Len(quotes) :
          /\ quotes'[a] = quotes[a]
          /\ proofs[a] # NoProof0 => proofs'[a] = proofs[a]
LEMMA ViewStays ==
    ASSUME DeliveryTypes, DeliveryTypes', Grows, NEW view \in View, ViewOK(view)
    PROVE  ViewOK(view)'
<1>1. /\ Len(quotes) \in Nat /\ Len(quotes') \in Nat /\ view.quote \in Nat
      /\ view.quote <= Len(quotes) /\ Len(quotes) <= Len(quotes')
  BY DeliveryAssumption DEF DeliveryTypes, Grows, ViewOK, View
<1>2. view.quote <= Len(quotes')
  BY <1>1
<1>3. ASSUME view.level = "A3_MANUAL_PROBE"
      PROVE  view.quote \in 1 .. Len(quotes)
  BY <1>1, <1>3 DEF ViewOK
<1>4. QED  BY <1>2, <1>3 DEF Grows, ViewOK
LEMMA JobStays ==
    ASSUME DeliveryTypes, DeliveryTypes', Grows, NEW job \in Job, ViewOK(job.view), JobOK(job)
    PROVE  JobOK(job)'
<1>1. /\ Len(quotes) \in Nat /\ job.view.quote \in Nat /\ job.view.quote <= Len(quotes)
      /\ clock \in Nat /\ clock' \in Nat /\ clock <= clock'
  <2>1. job.view \in View
    BY DEF Job
  <2>2. job.view.quote \in Nat
    BY <2>1, DeliveryAssumption DEF View
  <2>3. Len(quotes) \in Nat /\ clock \in Nat /\ clock' \in Nat
    BY DeliveryAssumption DEF DeliveryTypes
  <2>4. QED  BY <2>2, <2>3 DEF Grows, ViewOK
<1>2. job.pc \in Proven => job.view.quote \in 1 .. Len(quotes)
  BY <1>1 DEF JobOK
<1>3. job.pc = "append" => quotes'[job.view.quote] = quotes[job.view.quote]
  BY <1>2 DEF Grows, Proven
<1>4. job.pc = "append" => job.fetched \in 0 .. clock'
  BY <1>1 DEF JobOK
<1>5. QED  BY <1>3, <1>4 DEF JobOK

\* A step of one job that leaves the ledger and the disk alone.
LEMMA JobMoves ==
    ASSUME DeliveryIInv, NEW p \in Publishers, NEW job \in Job,
           publisher' = [publisher EXCEPT ![p] = job],
           ViewOK(job.view), JobOK(job), job.pc # "meta",
           UNCHANGED <<clock, quotes, proofs, files, writing>>,
           blob' \in [launch: View, meta: -1 .. MaxClock],
           blob'.launch \in {blob.launch, files.launch}
    PROVE  DeliveryIInv'
<1>1. DeliveryTypes'
  BY DEF DeliveryIInv, DeliveryTypes
<1>2. ProofsOK'
  BY DEF DeliveryIInv, ProofsOK
<1>3. Grows
  BY DEF DeliveryIInv, DeliveryTypes, Grows
<1>4. \A q \in Publishers : publisher'[q] = IF q = p THEN job ELSE publisher[q]
  BY DEF DeliveryIInv, DeliveryTypes
<1>5. ViewsOK'
  BY <1>4 DEF DeliveryIInv, ViewsOK, ViewOK
<1>6. JobsOK'
  BY <1>4 DEF DeliveryIInv, JobsOK, JobOK
<1>7. LockOK'
  BY <1>4 DEF DeliveryIInv, LockOK
<1>8. QED  BY <1>1, <1>2, <1>5, <1>6, <1>7 DEF DeliveryIInv

LEMMA ToRest ==
    ASSUME DeliveryIInv, NEW p \in Publishers, Rests(p),
           UNCHANGED <<clock, quotes, proofs, files, writing>>,
           blob' \in [launch: View, meta: -1 .. MaxClock],
           blob'.launch \in {blob.launch, files.launch}
    PROVE  DeliveryIInv'
  BY RestingOK, JobMoves DEF Rests, DeliveryIInv

\* A job that changes only its place keeps the view it holds.
LEMMA Moving ==
    ASSUME DeliveryIInv, NEW p \in Publishers, NEW pc, Moves(p, pc),
           pc \in {"push", "pushMeta", "pushOnlyMeta", "put", "readBack", "render"},
           pc \in Proven => publisher[p].view.quote >= 1,
           UNCHANGED <<clock, quotes, proofs, files, writing>>,
           blob' \in [launch: View, meta: -1 .. MaxClock],
           blob'.launch \in {blob.launch, files.launch}
    PROVE  DeliveryIInv'
<1> DEFINE job == [publisher[p] EXCEPT !.pc = pc]
<1>1. publisher[p] \in Job /\ ViewOK(publisher[p].view)
  BY DEF DeliveryIInv, DeliveryTypes, ViewsOK
<1>2. job \in Job /\ job.view = publisher[p].view /\ job.pc = pc
  BY <1>1 DEF Job, Proven
<1>3. publisher' = [publisher EXCEPT ![p] = job]
  BY DEF Moves, DeliveryIInv, DeliveryTypes
<1> HIDE DEF job
<1>4. JobOK(job)
  BY <1>2 DEF JobOK, Proven
<1>5. QED  BY <1>1, <1>2, <1>3, <1>4, JobMoves

-----------------------------------------------------------------------------
LEMMA DeliveryInitInv == DeliveryInit => DeliveryIInv
<1> SUFFICES ASSUME DeliveryInit PROVE DeliveryIInv
  OBVIOUS
<1>1. DeliveryTypes
  <2>1. Resting0 \in Job /\ NoView \in View
    BY DeliveryAssumption DEF Resting0, NoView, View, Job
  <2>2. QED  BY <2>1, DeliveryAssumption DEF DeliveryInit, DeliveryTypes
<1>2. ProofsOK /\ LockOK
  BY DEF DeliveryInit, ProofsOK, LockOK, Resting0
<1>3. ViewsOK /\ JobsOK
  BY <1>1, NoViewOK, RestingOK DEF DeliveryInit, ViewsOK, JobsOK, Resting0
<1>4. QED  BY <1>1, <1>2, <1>3 DEF DeliveryIInv

LEMMA AssessInv == ASSUME DeliveryIInv, NEW p \in Publishers, Assess(p) PROVE DeliveryIInv'
<1> DEFINE job == [publisher[p] EXCEPT !.pc = "render"]
<1>1. publisher[p] \in Job /\ job \in Job /\ job.view = publisher[p].view /\ job.pc = "render"
  BY DEF DeliveryIInv, DeliveryTypes, Job
<1>2. publisher' = [publisher EXCEPT ![p] = job]
  BY DEF Assess, Moves, DeliveryIInv, DeliveryTypes
<1> HIDE DEF job
<1>3. /\ Len(quotes') = Len(quotes) + 1 /\ Len(proofs') = Len(proofs) + 1
      /\ quotes' \in Seq(0 .. MaxClock) /\ proofs' \in Seq(Proof \cup {NoProof0})
      /\ \A a \in 1 .. Len(quotes) : quotes'[a] = quotes[a] /\ proofs'[a] = proofs[a]
      /\ proofs'[Len(quotes) + 1] = NoProof0 /\ Len(quotes) \in Nat
  BY DEF Assess, DeliveryIInv, DeliveryTypes
<1>4. DeliveryTypes'
  BY <1>1, <1>2, <1>3, DeliveryAssumption DEF Assess, DeliveryIInv, DeliveryTypes
<1>5. Grows
  BY <1>3 DEF Assess, Grows, DeliveryIInv, DeliveryTypes
<1>6. ProofsOK'
  <2>1. UNCHANGED clock
    BY DEF Assess
  <2>2. SUFFICES ASSUME NEW a \in 1 .. Len(quotes'), proofs'[a] # NoProof0
                 PROVE  /\ proofs'[a] \in Proof
                        /\ proofs'[a].fetched <= proofs'[a].generated + DeliverySLA
                        /\ proofs'[a].fetched < quotes'[a] + QuoteTTL
                        /\ proofs'[a].fetched <= clock'
    BY DEF ProofsOK
  <2>3. a \in 1 .. Len(quotes)
    BY <1>3, <2>2
  <2>4. proofs'[a] = proofs[a] /\ quotes'[a] = quotes[a]
    BY <1>3, <2>3
  <2>5. QED  BY <2>1, <2>2, <2>3, <2>4 DEF DeliveryIInv, ProofsOK
<1>7. \A q \in Publishers : publisher'[q] = IF q = p THEN job ELSE publisher[q]
  BY <1>2 DEF DeliveryIInv, DeliveryTypes
<1>8. \A q \in Publishers : publisher[q] \in Job /\ publisher[q].view \in View
                            /\ ViewOK(publisher[q].view) /\ JobOK(publisher[q])
  BY DEF DeliveryIInv, DeliveryTypes, ViewsOK, JobsOK, Job
<1>9. ViewsOK'
  <2>1. files.launch \in View /\ blob.launch \in View
        /\ ViewOK(files.launch) /\ ViewOK(blob.launch)
    BY DEF DeliveryIInv, DeliveryTypes, ViewsOK
  <2>2. ViewOK(files.launch)' /\ ViewOK(blob.launch)'
    BY <2>1, <1>4, <1>5, ViewStays DEF DeliveryIInv, Assess
  <2>3. ASSUME NEW q \in Publishers PROVE ViewOK(publisher[q].view)'
    <3>1. publisher'[q].view = publisher[q].view
      BY <1>1, <1>7
    <3>2. QED  BY <3>1, <1>4, <1>5, <1>8, ViewStays DEF DeliveryIInv, ViewOK
  <2>4. QED  BY <2>2, <2>3 DEF ViewsOK
<1>10. JobsOK'
  <2>1. ASSUME NEW q \in Publishers PROVE JobOK(publisher[q])'
    <3>1. CASE q = p
      BY <3>1, <1>1, <1>7 DEF JobOK, Proven
    <3>2. CASE q # p
      BY <3>2, <1>4, <1>5, <1>7, <1>8, JobStays DEF DeliveryIInv, JobOK
    <3>3. QED  BY <3>1, <3>2
  <2>2. QED  BY <2>1 DEF JobsOK
<1>11. LockOK'
  BY <1>1, <1>7 DEF Assess, DeliveryIInv, LockOK
<1>12. QED  BY <1>4, <1>6, <1>9, <1>10, <1>11 DEF DeliveryIInv

\* What is rendered is what the ledger justifies at that moment.
LEMMA RenderInv == ASSUME DeliveryIInv, NEW p \in Publishers, Render(p) PROVE DeliveryIInv'
<1> DEFINE a == Len(quotes)
           view == [generated |-> clock, quote |-> a, level |-> Level(a)]
           job == [pc |-> "write", promoted |-> publisher[p].pc = "promote",
                   fetched |-> -1, view |-> view]
<1>1. a \in 0 .. MaxQuotes /\ clock \in 0 .. MaxClock
  BY DeliveryAssumption DEF DeliveryIInv, DeliveryTypes
<1>2. Level(a) \in {"A1_WATCH", "A2_PAPER_READY", "A3_MANUAL_PROBE"}
      /\ (a = 0 => Level(a) = "A1_WATCH")
      /\ (Level(a) = "A3_MANUAL_PROBE" => proofs[a] # NoProof0)
  BY DEF Level
<1>3. view \in View /\ ViewOK(view)
  BY <1>1, <1>2 DEF View, ViewOK, DeliveryIInv, ProofsOK
<1>4. job \in Job
  BY <1>3, DeliveryAssumption DEF Job
<1>5. JobOK(job)
  BY DEF JobOK, Proven
<1>6. publisher' = [publisher EXCEPT ![p] = job]
      /\ UNCHANGED <<clock, quotes, proofs, files, blob, writing>>
  BY DEF Render
<1>7. QED  BY <1>3, <1>4, <1>5, <1>6, JobMoves DEF DeliveryIInv, DeliveryTypes

LEMMA WriteViewInv == ASSUME DeliveryIInv, NEW p \in Publishers, WriteView(p) PROVE DeliveryIInv'
<1> DEFINE job == [publisher[p] EXCEPT !.pc = "meta"]
<1>1. publisher[p] \in Job /\ job \in Job /\ job.view = publisher[p].view /\ job.pc = "meta"
      /\ publisher[p].view \in View
  BY DEF DeliveryIInv, DeliveryTypes, Job
<1>2. publisher' = [publisher EXCEPT ![p] = job]
  BY DEF WriteView, Moves, DeliveryIInv, DeliveryTypes
<1> HIDE DEF job
<1>3. \A q \in Publishers : publisher'[q] = IF q = p THEN job ELSE publisher[q]
  BY <1>2 DEF DeliveryIInv, DeliveryTypes
<1>4. files' \in [launch: View, meta: -1 .. MaxClock] /\ files'.launch = publisher[p].view
  BY <1>1 DEF WriteView, DeliveryIInv, DeliveryTypes
<1>5. DeliveryTypes'
  BY <1>1, <1>2, <1>4 DEF WriteView, DeliveryIInv, DeliveryTypes
<1>6. ProofsOK'
  BY DEF WriteView, DeliveryIInv, ProofsOK
<1>7. ViewsOK'
  BY <1>1, <1>3, <1>4 DEF WriteView, DeliveryIInv, ViewsOK, ViewOK
<1>8. JobsOK'
  BY <1>1, <1>3 DEF WriteView, DeliveryIInv, JobsOK, JobOK, Proven
<1>9. LockOK'
  BY <1>1, <1>3, <1>4, DeliveryAssumption DEF WriteView, LockFree, DeliveryIInv, LockOK
<1>10. QED  BY <1>5, <1>6, <1>7, <1>8, <1>9 DEF DeliveryIInv

LEMMA WriteMetaInv == ASSUME DeliveryIInv, NEW p \in Publishers, WriteMeta(p) PROVE DeliveryIInv'
<1> DEFINE job == [publisher[p] EXCEPT !.pc = "push"]
<1>1. publisher[p] \in Job /\ job \in Job /\ job.view = publisher[p].view /\ job.pc = "push"
      /\ publisher[p].view.generated \in -1 .. MaxClock
  BY DEF DeliveryIInv, DeliveryTypes, Job, View
<1>2. publisher' = [publisher EXCEPT ![p] = job]
  BY DEF WriteMeta, Moves, DeliveryIInv, DeliveryTypes
<1> HIDE DEF job
<1>3. \A q \in Publishers : publisher'[q] = IF q = p THEN job ELSE publisher[q]
  BY <1>2 DEF DeliveryIInv, DeliveryTypes
<1>4. files' \in [launch: View, meta: -1 .. MaxClock] /\ files'.launch = files.launch
  BY <1>1 DEF WriteMeta, DeliveryIInv, DeliveryTypes
<1>5. DeliveryTypes'
  BY <1>1, <1>2, <1>4 DEF WriteMeta, DeliveryIInv, DeliveryTypes
<1>6. ProofsOK'
  BY DEF WriteMeta, DeliveryIInv, ProofsOK
<1>7. ViewsOK'
  BY <1>1, <1>3, <1>4 DEF WriteMeta, DeliveryIInv, ViewsOK, ViewOK
<1>8. JobsOK'
  BY <1>1, <1>3 DEF WriteMeta, DeliveryIInv, JobsOK, JobOK, Proven
<1>9. LockOK'
  BY <1>1, <1>3 DEF WriteMeta, DeliveryIInv, LockOK
<1>10. QED  BY <1>5, <1>6, <1>7, <1>8, <1>9 DEF DeliveryIInv

\* What is pushed is what is on disk, or what was public before.
LEMMA PushesInv ==
    ASSUME DeliveryIInv, NEW p \in Publishers, Push(p) \/ PushMeta(p) \/ PutSnapshot(p)
    PROVE  DeliveryIInv'
<1>0. blob \in [launch: View, meta: -1 .. MaxClock] /\ files \in [launch: View, meta: -1 .. MaxClock]
  BY DEF DeliveryIInv, DeliveryTypes
<1>1. CASE Push(p)
  <2>1. PICK sent \in BOOLEAN :
           /\ blob' = IF sent THEN [blob EXCEPT !.launch = files.launch] ELSE blob
           /\ Moves(p, IF sent THEN "pushMeta" ELSE "pushOnlyMeta")
    BY <1>1 DEF Push
  <2>2. blob' \in [launch: View, meta: -1 .. MaxClock]
        /\ blob'.launch \in {blob.launch, files.launch}
    BY <1>0, <2>1
  <2>3. QED  BY <1>1, <2>1, <2>2, Moving DEF Push, Proven
<1>2. CASE PushMeta(p)
  <2>1. PICK sent \in BOOLEAN :
           /\ blob' = IF sent THEN [blob EXCEPT !.meta = files.meta] ELSE blob
           /\ IF sent /\ publisher[p].pc = "pushMeta" /\ ~ publisher[p].promoted
                 /\ IsCandidate(publisher[p].view)
              THEN Moves(p, "put") ELSE Rests(p)
    BY <1>2 DEF PushMeta
  <2>2. blob' \in [launch: View, meta: -1 .. MaxClock] /\ blob'.launch = blob.launch
    BY <1>0, <2>1
  <2>3. UNCHANGED <<clock, quotes, proofs, files, writing>>
    BY <1>2 DEF PushMeta
  <2>4. IsCandidate(publisher[p].view) => publisher[p].view.quote >= 1
    BY DEF IsCandidate, DeliveryIInv, ViewsOK, ViewOK
  <2>5. CASE Moves(p, "put") /\ IsCandidate(publisher[p].view)
    BY <2>2, <2>3, <2>4, <2>5, Moving
  <2>6. CASE Rests(p)
    BY <2>2, <2>3, <2>6, ToRest
  <2>7. QED  BY <2>1, <2>5, <2>6
<1>3. CASE PutSnapshot(p)
  <2>1. publisher[p].view.quote >= 1
    BY <1>3 DEF PutSnapshot, DeliveryIInv, JobsOK, JobOK, Proven
  <2>2. CASE Moves(p, "readBack")
    BY <1>0, <1>3, <2>1, <2>2, Moving DEF PutSnapshot
  <2>3. CASE Rests(p)
    BY <1>0, <1>3, <2>3, ToRest DEF PutSnapshot
  <2>4. QED  BY <1>3, <2>2, <2>3 DEF PutSnapshot
<1>4. QED  BY <1>1, <1>2, <1>3

LEMMA ReadBackInv == ASSUME DeliveryIInv, NEW p \in Publishers, ReadBackSnapshot(p) PROVE DeliveryIInv'
<1>0. blob \in [launch: View, meta: -1 .. MaxClock]
      /\ UNCHANGED <<clock, quotes, proofs, files, blob, writing>>
  BY DEF DeliveryIInv, DeliveryTypes, ReadBackSnapshot
<1> DEFINE job == [publisher[p] EXCEPT !.pc = "append", !.fetched = clock]
<1>1. CASE InTime(publisher[p].view)
           /\ publisher' = [publisher EXCEPT ![p].pc = "append", ![p].fetched = clock]
  <2>1. publisher[p] \in Job /\ clock \in 0 .. MaxClock /\ ViewOK(publisher[p].view)
        /\ publisher[p].view.quote >= 1
    BY DEF ReadBackSnapshot, DeliveryIInv, DeliveryTypes, ViewsOK, JobsOK, JobOK, Proven
  <2>2. job \in Job /\ job.view = publisher[p].view /\ job.pc = "append" /\ job.fetched = clock
    <3>1. clock \in -1 .. MaxClock /\ "append" \in Proven
      BY <2>1, DeliveryAssumption DEF Proven
    <3> HIDE DEF Proven
    <3>2. QED  BY <2>1, <3>1 DEF Job
  <2>3. publisher' = [publisher EXCEPT ![p] = job]
    BY <1>1 DEF DeliveryIInv, DeliveryTypes
  <2> HIDE DEF job
  <2>4. JobOK(job)
    BY <1>1, <2>1, <2>2 DEF InTime, Expires, JobOK
  <2>5. QED  BY <1>0, <2>1, <2>2, <2>3, <2>4, JobMoves
<1>2. CASE Rests(p)
  BY <1>0, <1>2, ToRest
<1>3. QED  BY <1>1, <1>2 DEF ReadBackSnapshot

\* The proof that is appended was fetched in time, and replaces none.
LEMMA AppendInv == ASSUME DeliveryIInv, NEW p \in Publishers, AppendProof(p) PROVE DeliveryIInv'
<1> DEFINE a == publisher[p].view.quote
           proof == [fetched |-> publisher[p].fetched,
                     generated |-> publisher[p].view.generated]
           job == [publisher[p] EXCEPT !.pc = "promote"]
<1>0. blob \in [launch: View, meta: -1 .. MaxClock]
      /\ UNCHANGED <<clock, quotes, files, blob, writing>>
  BY DEF DeliveryIInv, DeliveryTypes, AppendProof
<1>1. CASE proofs[a] # NoProof0
  <2>1. Rests(p) /\ UNCHANGED proofs
    BY <1>1 DEF AppendProof
  <2>2. QED  BY <1>0, <2>1, ToRest
<1>2. CASE proofs[a] = NoProof0
  <2>0. proofs' = [proofs EXCEPT ![a] = proof] /\ Moves(p, "promote")
    BY <1>2 DEF AppendProof
  <2>1. publisher[p] \in Job /\ publisher[p].pc = "append"
        /\ ViewOK(publisher[p].view) /\ JobOK(publisher[p])
    BY DEF AppendProof, DeliveryIInv, DeliveryTypes, ViewsOK, JobsOK
  <2>2. a \in 1 .. Len(quotes) /\ Len(quotes) \in Nat
    BY <2>1 DEF ViewOK, JobOK, Proven, Job, View, DeliveryIInv, DeliveryTypes
  <2>3. proof \in Proof
        /\ proof.fetched <= proof.generated + DeliverySLA
        /\ proof.fetched < quotes[a] + QuoteTTL
        /\ proof.fetched <= clock
    <3>1. publisher[p].fetched \in 0 .. clock /\ publisher[p].view.generated \in -1 .. MaxClock
          /\ clock \in 0 .. MaxClock
      BY <2>1 DEF JobOK, Job, View, DeliveryIInv, DeliveryTypes
    <3>2. publisher[p].fetched - publisher[p].view.generated <= DeliverySLA
          /\ publisher[p].fetched < quotes[a] + QuoteTTL
      BY <2>1 DEF JobOK
    <3>3. proof \in Proof
      BY <3>1, DeliveryAssumption DEF Proof
    <3>4. QED  BY <3>1, <3>2, <3>3, DeliveryAssumption
  <2>4. job \in Job /\ job.view = publisher[p].view /\ job.pc = "promote"
    BY <2>1 DEF Job
  <2>5. publisher' = [publisher EXCEPT ![p] = job]
    BY <2>0 DEF Moves, DeliveryIInv, DeliveryTypes
  <2> HIDE DEF a, proof, job
  <2>6. /\ proofs' \in Seq(Proof \cup {NoProof0}) /\ Len(proofs') = Len(quotes)
        /\ \A b \in 1 .. Len(quotes) : proofs'[b] = IF b = a THEN proof ELSE proofs[b]
    BY <2>0, <2>2, <2>3 DEF DeliveryIInv, DeliveryTypes
  <2>7. DeliveryTypes'
    BY <1>0, <2>4, <2>5, <2>6 DEF DeliveryIInv, DeliveryTypes
  <2>8. Grows
    BY <1>0, <1>2, <2>2, <2>6 DEF Grows, DeliveryIInv, DeliveryTypes, a
  <2>9. ProofsOK'
    BY <1>0, <2>3, <2>6 DEF DeliveryIInv, ProofsOK
  <2>10. \A q \in Publishers : publisher'[q] = IF q = p THEN job ELSE publisher[q]
    BY <2>5 DEF DeliveryIInv, DeliveryTypes
  <2>11. \A q \in Publishers : publisher[q] \in Job /\ publisher[q].view \in View
                               /\ ViewOK(publisher[q].view) /\ JobOK(publisher[q])
    BY DEF DeliveryIInv, DeliveryTypes, ViewsOK, JobsOK, Job
  <2>12. ViewsOK'
    <3>1. files.launch \in View /\ blob.launch \in View
          /\ ViewOK(files.launch) /\ ViewOK(blob.launch)
      BY DEF DeliveryIInv, DeliveryTypes, ViewsOK
    <3>2. ViewOK(files.launch)' /\ ViewOK(blob.launch)'
      BY <1>0, <3>1, <2>7, <2>8, ViewStays DEF DeliveryIInv
    <3>3. ASSUME NEW q \in Publishers PROVE ViewOK(publisher[q].view)'
      <4>1. publisher'[q].view = publisher[q].view
        BY <2>4, <2>10
      <4>2. QED  BY <4>1, <2>7, <2>8, <2>11, ViewStays DEF DeliveryIInv, ViewOK
    <3>4. QED  BY <3>2, <3>3 DEF ViewsOK
  <2>13. JobsOK'
    <3>1. ASSUME NEW q \in Publishers PROVE JobOK(publisher[q])'
      <4>1. CASE q = p
        BY <4>1, <2>4, <2>10 DEF JobOK, Proven
      <4>2. CASE q # p
        BY <4>2, <2>7, <2>8, <2>10, <2>11, JobStays DEF DeliveryIInv, JobOK
      <4>3. QED  BY <4>1, <4>2
    <3>2. QED  BY <3>1 DEF JobsOK
  <2>14. LockOK'
    BY <1>0, <2>4, <2>10 DEF DeliveryIInv, LockOK
  <2>15. QED  BY <2>7, <2>9, <2>12, <2>13, <2>14 DEF DeliveryIInv
<1>3. QED  BY <1>1, <1>2

\* The process stops, or time passes.
LEMMA StopsInv == ASSUME DeliveryIInv, Stops PROVE DeliveryIInv'
<1>1. Resting0 \in Job /\ ViewOK(Resting0.view) /\ JobOK(Resting0) /\ Resting0.pc # "meta"
  BY RestingOK DEF DeliveryIInv
<1>2. UNCHANGED <<clock, quotes, proofs, files, blob>> /\ writing' = Nobody
      /\ publisher' = [p \in Publishers |-> Resting0]
  BY DEF Stops
<1>3. DeliveryTypes' /\ ProofsOK'
  BY <1>1, <1>2 DEF DeliveryIInv, DeliveryTypes, ProofsOK
<1>4. ViewsOK' /\ JobsOK' /\ LockOK'
  BY <1>1, <1>2 DEF DeliveryIInv, ViewsOK, ViewOK, JobsOK, JobOK, LockOK
<1>5. QED  BY <1>3, <1>4 DEF DeliveryIInv

LEMMA TicksInv == ASSUME DeliveryIInv, Ticks PROVE DeliveryIInv'
<1>1. UNCHANGED <<quotes, proofs, files, blob, publisher, writing>> /\ clock' = clock + 1
      /\ clock < MaxClock
  BY DEF Ticks
<1>2. DeliveryTypes'
  BY <1>1, DeliveryAssumption DEF DeliveryIInv, DeliveryTypes
<1>3. ProofsOK'
  BY <1>1, DeliveryAssumption DEF DeliveryIInv, DeliveryTypes, ProofsOK, Proof
<1>4. ViewsOK' /\ LockOK'
  BY <1>1 DEF DeliveryIInv, ViewsOK, ViewOK, LockOK
<1>5. JobsOK'
  BY <1>1 DEF DeliveryIInv, DeliveryTypes, JobsOK, JobOK
<1>6. QED  BY <1>2, <1>3, <1>4, <1>5 DEF DeliveryIInv

LEMMA DeliveryStepInv == DeliveryIInv /\ [DeliveryNext]_deliveryVars => DeliveryIInv'
<1> SUFFICES ASSUME DeliveryIInv, [DeliveryNext]_deliveryVars PROVE DeliveryIInv'
  OBVIOUS
<1>1. CASE UNCHANGED deliveryVars
  BY <1>1 DEF deliveryVars, DeliveryIInv, DeliveryTypes, ProofsOK, ViewsOK, ViewOK, JobsOK, JobOK, LockOK
<1>2. QED  BY <1>1, AssessInv, RenderInv, WriteViewInv, WriteMetaInv, PushesInv,
              ReadBackInv, AppendInv, StopsInv, TicksInv DEF DeliveryNext

-----------------------------------------------------------------------------
\* The ledger, the files and the jobs keep their types.
THEOREM DeliveryTypeCorrect == DeliverySpec => []DeliveryTypeOK
<1>1. DeliveryIInv => DeliveryTypeOK
  BY DEF DeliveryIInv, DeliveryTypes, DeliveryTypeOK, Job
<1>2. QED  BY <1>1, DeliveryInitInv, DeliveryStepInv, PTL DEF DeliverySpec

\* Whatever the jobs interleave, and wherever they stop, a board that says
\* A3_MANUAL_PROBE rests on a proof fetched in time and before it was rendered
\* (launch_publish.publish_and_verify_launch_snapshots, board_view.render).
THEOREM ActionableDelivered == DeliverySpec => []ActionableIsDelivered
<1>1. ASSUME DeliveryIInv PROVE ActionableIsDelivered
  <2>1. SUFFICES ASSUME NEW view \in View, ViewOK(view), view.level = "A3_MANUAL_PROBE"
                 PROVE  /\ proofs[view.quote] # NoProof0
                        /\ proofs[view.quote].fetched <= proofs[view.quote].generated + DeliverySLA
                        /\ proofs[view.quote].fetched < Expires(view.quote)
                        /\ proofs[view.quote].fetched <= view.generated
    BY <1>1 DEF DeliveryIInv, DeliveryTypes, ViewsOK, ActionableIsDelivered, Job
  <2>2. view.quote \in 1 .. Len(quotes)
    BY <1>1, <2>1 DEF ViewOK, View, DeliveryIInv, DeliveryTypes
  <2>3. QED  BY <1>1, <2>1, <2>2 DEF ViewOK, DeliveryIInv, ProofsOK, Expires
<1>2. QED  BY <1>1, DeliveryInitInv, DeliveryStepInv, PTL DEF DeliverySpec

\* A finished write leaves the manifest of its own view (board_export.write_views
\* under _WRITE_LOCK).
THEOREM ManifestMatches == DeliverySpec => ManifestIsOfItsView
<1>1. ASSUME DeliveryIInv, [DeliveryNext]_deliveryVars,
             NEW p \in Publishers, publisher[p].pc = "meta", publisher'[p].pc = "push"
      PROVE  files'.meta = files'.launch.generated
  <2>1. \A q \in Publishers : publisher[q] \in Job
    BY <1>1 DEF DeliveryIInv, DeliveryTypes
  <2>5. /\ publisher \in [Publishers -> Job]
        /\ publisher[p].pc = "meta" /\ publisher'[p].pc = "push"
    BY <1>1 DEF DeliveryIInv, DeliveryTypes
  <2>6. ~ Stops /\ ~ Ticks /\ ~ UNCHANGED deliveryVars
    BY <2>5 DEF Stops, Ticks, deliveryVars, Resting0
  <2>7. ASSUME NEW q \in Publishers, q # p
        PROVE  \A pc : ~ Moves(q, pc) /\ ~ Rests(q)
    BY <2>5, <2>7 DEF Moves, Rests
  <2>8. ASSUME NEW q \in Publishers, q # p
        PROVE  /\ ~ Assess(q) /\ ~ Render(q) /\ ~ WriteView(q) /\ ~ WriteMeta(q) /\ ~ Push(q)
               /\ ~ PushMeta(q) /\ ~ PutSnapshot(q) /\ ~ ReadBackSnapshot(q)
               /\ ~ AppendProof(q)
    <3>1. ~ Render(q) /\ ~ ReadBackSnapshot(q)
      BY <2>5, <2>7, <2>8 DEF Render, ReadBackSnapshot
    <3>2. QED  BY <2>7, <2>8, <3>1 DEF Assess, WriteView, WriteMeta, Push, PushMeta,
                                      PutSnapshot, AppendProof
  <2>9. /\ ~ Assess(p) /\ ~ Render(p) /\ ~ WriteView(p) /\ ~ Push(p) /\ ~ PushMeta(p)
        /\ ~ PutSnapshot(p) /\ ~ ReadBackSnapshot(p) /\ ~ AppendProof(p)
    BY <2>5 DEF Assess, Render, WriteView, Push, PushMeta, PutSnapshot, ReadBackSnapshot,
                AppendProof
  <2>2. WriteMeta(p)
    BY <1>1, <2>6, <2>8, <2>9 DEF DeliveryNext
  <2>3. files \in [launch: View, meta: -1 .. MaxClock] /\ files.launch = publisher[p].view
    BY <1>1 DEF DeliveryIInv, DeliveryTypes, LockOK
  <2>4. QED  BY <2>2, <2>3 DEF WriteMeta
<1>2. DeliveryIInv /\ [DeliveryNext]_deliveryVars =>
         [\A p \in Publishers : publisher[p].pc = "meta" /\ publisher'[p].pc = "push"
            => files'.meta = files'.launch.generated]_deliveryVars
  BY <1>1
<1>3. QED  BY <1>2, DeliveryInitInv, DeliveryStepInv, PTL DEF DeliverySpec, ManifestIsOfItsView
=============================================================================
