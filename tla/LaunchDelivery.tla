--------------------------- MODULE LaunchDelivery ---------------------------
(***************************************************************************)
(* The public board of one launch: two jobs of the scheduler (the radar    *)
(* scan and the quote refresh) append assessments to the ledger, render    *)
(* the board from it, write it, push it, prove that an immutable snapshot  *)
(* of it reached the public, and only then publish it as actionable (A3).  *)
(* The jobs overlap; the process may stop anywhere.                        *)
(***************************************************************************)
EXTENDS Integers, Sequences

CONSTANTS
    Publishers,            \* the jobs that publish the board
    QuoteTTL,              \* life of a quote, on the model's clock
    DeliverySLA,           \* DELIVERY_SLA_SECONDS, on the model's clock
    MaxClock,              \* bound: ticks of the instance
    MaxQuotes,             \* bound: assessments of the instance
    NoProof0,              \* an assessment without its delivery proof
    Nobody                 \* _WRITE_LOCK is free

ASSUME DeliveryAssumption ==
    /\ QuoteTTL \in Nat /\ DeliverySLA \in Nat /\ MaxClock \in Nat /\ MaxQuotes \in Nat
    /\ Nobody \notin Publishers

VARIABLES
    clock,
    quotes,                \* execution_assessments: when each was assessed
    proofs,                \* launch_delivery_readbacks of each assessment
    files,                 \* the exported launch view, and its meta entry
    blob,                  \* the public copies of both
    publisher,             \* where each job stands, and what it rendered
    writing                \* who holds _WRITE_LOCK

deliveryVars == <<clock, quotes, proofs, files, blob, publisher, writing>>

NoView == [generated |-> -1, quote |-> 0, level |-> "A1_WATCH"]
View == [generated: -1 .. MaxClock, quote: 0 .. MaxQuotes,
         level: {"A1_WATCH", "A2_PAPER_READY", "A3_MANUAL_PROBE"}]
Resting0 == [pc |-> "rest", view |-> NoView, promoted |-> FALSE, fetched |-> -1]
Expires(a) == quotes[a] + QuoteTTL

DeliveryInit ==
    /\ clock = 0 /\ quotes = <<>> /\ proofs = <<>>
    /\ files = [launch |-> NoView, meta |-> -1]
    /\ blob = [launch |-> NoView, meta |-> -1]
    /\ publisher = [p \in Publishers |-> Resting0]
    /\ writing = Nobody

Moves(p, pc) == publisher' = [publisher EXCEPT ![p].pc = pc]
Rests(p) == publisher' = [publisher EXCEPT ![p] = Resting0]

-----------------------------------------------------------------------------
\* append_execution_assessment: a quote that passed every other gate.
Assess(p) ==
    /\ publisher[p].pc = "rest" /\ Len(quotes) < MaxQuotes
    /\ quotes' = Append(quotes, clock) /\ proofs' = Append(proofs, NoProof0)
    /\ Moves(p, "render")
    /\ UNCHANGED <<clock, files, blob, writing>>

\* active and _launch_action: the level of the current assessment, derived
\* from the ledger at the moment of rendering.
Level(a) == IF a = 0 \/ clock >= Expires(a) THEN "A1_WATCH"
            ELSE IF proofs[a] = NoProof0 THEN "A2_PAPER_READY"
            ELSE "A3_MANUAL_PROBE"
\* render_launch: of an export that assessed a quote or did not; again, once a
\* proof was inserted, for the promoted view.
Render(p) ==
    /\ publisher[p].pc \in {"rest", "render", "promote"}
    /\ publisher' = [publisher EXCEPT ![p] =
          [pc |-> "write", promoted |-> publisher[p].pc = "promote", fetched |-> -1,
           view |-> [generated |-> clock, quote |-> Len(quotes),
                     level |-> Level(Len(quotes))]]]
    /\ UNCHANGED <<clock, quotes, proofs, files, blob, writing>>

\* Mutant: write_views without its lock.
NeverHeld == TRUE
\* write_views: under _WRITE_LOCK the view, then the manifest, each file
\* replaced atomically.
LockFree == writing = Nobody
WriteView(p) ==
    /\ publisher[p].pc = "write" /\ LockFree
    /\ writing' = p
    /\ files' = [files EXCEPT !.launch = publisher[p].view]
    /\ Moves(p, "meta")
    /\ UNCHANGED <<clock, quotes, proofs, blob>>
WriteMeta(p) ==
    /\ publisher[p].pc = "meta"
    /\ files' = [files EXCEPT !.meta = publisher[p].view.generated]
    /\ writing' = Nobody
    /\ Moves(p, "push")
    /\ UNCHANGED <<clock, quotes, proofs, blob>>

\* push_to_blob: each file as it is when its turn comes, outside the lock.  A
\* push that fails is counted and the next file tried; then no proof follows.
Push(p) ==
    /\ publisher[p].pc = "push"
    /\ \E sent \in BOOLEAN :
          /\ blob' = IF sent THEN [blob EXCEPT !.launch = files.launch] ELSE blob
          /\ Moves(p, IF sent THEN "pushMeta" ELSE "pushOnlyMeta")
    /\ UNCHANGED <<clock, quotes, proofs, files, writing>>
\* _candidate_rows: the view's own assessment, still unproved and unexpired
\* when it was rendered.
IsCandidate(view) == view.level = "A2_PAPER_READY"
PushMeta(p) ==
    /\ publisher[p].pc \in {"pushMeta", "pushOnlyMeta"}
    /\ \E sent \in BOOLEAN :
          /\ blob' = IF sent THEN [blob EXCEPT !.meta = files.meta] ELSE blob
          /\ IF sent /\ publisher[p].pc = "pushMeta" /\ ~ publisher[p].promoted
                /\ IsCandidate(publisher[p].view)
             THEN Moves(p, "put") ELSE Rests(p)
    /\ UNCHANGED <<clock, quotes, proofs, files, writing>>

\* publish_and_verify_launch_snapshots: a snapshot under a fresh name, so that
\* none of an earlier run can be taken for it, ...
PutSnapshot(p) ==
    /\ publisher[p].pc = "put"
    /\ \/ Moves(p, "readBack") \/ Rests(p)
    /\ UNCHANGED <<clock, quotes, proofs, files, blob, writing>>
\* Mutant: a late copy will do.
AnyTime(view) == TRUE
\* ... read back byte for byte, in time, of a quote that still lives, ...
InTime(view) == clock - view.generated <= DeliverySLA /\ clock < Expires(view.quote)
ReadBackSnapshot(p) ==
    /\ publisher[p].pc = "readBack"
    /\ \/ InTime(publisher[p].view)
          /\ publisher' = [publisher EXCEPT ![p].pc = "append", ![p].fetched = clock]
       \/ Rests(p)
    /\ UNCHANGED <<clock, quotes, proofs, files, blob, writing>>
\* ... and appended: one proof of an assessment, and no other after it.
AppendProof(p) ==
    /\ publisher[p].pc = "append"
    /\ LET a == publisher[p].view.quote IN
       IF proofs[a] = NoProof0
       THEN /\ proofs' = [proofs EXCEPT ![a] =
                            [fetched |-> publisher[p].fetched,
                             generated |-> publisher[p].view.generated]]
            /\ Moves(p, "promote")
       ELSE Rests(p) /\ UNCHANGED proofs
    /\ UNCHANGED <<clock, quotes, files, blob, writing>>

\* The scheduler process stops with both jobs; files and ledger stay.
Stops ==
    /\ \E p \in Publishers : publisher[p].pc # "rest"
    /\ publisher' = [p \in Publishers |-> Resting0]
    /\ writing' = Nobody
    /\ UNCHANGED <<clock, quotes, proofs, files, blob>>
Ticks ==
    /\ clock < MaxClock /\ clock' = clock + 1
    /\ UNCHANGED <<quotes, proofs, files, blob, publisher, writing>>

DeliveryNext ==
    \/ Stops \/ Ticks
    \/ \E p \in Publishers :
          \/ Assess(p) \/ Render(p) \/ WriteView(p) \/ WriteMeta(p)
          \/ Push(p) \/ PushMeta(p)
          \/ PutSnapshot(p) \/ ReadBackSnapshot(p) \/ AppendProof(p)

DeliverySpec == DeliveryInit /\ [][DeliveryNext]_deliveryVars

-----------------------------------------------------------------------------
DeliveryTypeOK ==
    /\ clock \in 0 .. MaxClock
    /\ quotes \in Seq(0 .. MaxClock) /\ Len(quotes) <= MaxQuotes
    /\ DOMAIN proofs = DOMAIN quotes
    /\ files \in [launch: View, meta: -1 .. MaxClock]
    /\ blob \in [launch: View, meta: -1 .. MaxClock]
    /\ \A p \in Publishers : publisher[p].view \in View
    /\ writing \in Publishers \cup {Nobody}

\* A board that calls a launch actionable - in a job, on disk or in public -
\* speaks of an assessment whose own snapshot the public could read, within
\* the delivery time of its view and before the quote died, and whose proof
\* stood before that board was rendered.
ActionableIsDelivered ==
    \A view \in {files.launch, blob.launch} \cup {publisher[p].view : p \in Publishers} :
        view.level = "A3_MANUAL_PROBE" =>
            LET proof == proofs[view.quote] IN
            /\ proof # NoProof0
            /\ proof.fetched <= proof.generated + DeliverySLA
            /\ proof.fetched < Expires(view.quote)
            /\ proof.fetched <= view.generated

\* A write that ends leaves a manifest that gives the clock of the view beside
\* it, whatever the other job wrote meanwhile.
ManifestIsOfItsView ==
    [][\A p \in Publishers :
          publisher[p].pc = "meta" /\ publisher'[p].pc = "push"
          => files'.meta = files'.launch.generated]_deliveryVars
=============================================================================
