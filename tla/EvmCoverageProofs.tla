------------------------- MODULE EvmCoverageProofs -------------------------
(***************************************************************************)
(* Proofs about EvmCoverage for every chain, every set of sessions and     *)
(* every size of look-back, audit, epoch and retention.                    *)
(*                                                                         *)
(* An audit acts on what it read several steps ago: its session, its       *)
(* boundary, an answer half stored.  AuditInv says what of it still holds, *)
(* SessionInv why a report cannot speak for another session, and DataInv   *)
(* what the stored proof and its epochs say.  Reorganised logs and crashes *)
(* may come between any two steps.                                         *)
(***************************************************************************)
EXTENDS EvmCoverage, FiniteSetTheorems, TLAPS

\* Two threads that hold sessions of one generation hold the same session.
SessionsOK ==
    \A c, d \in {reader.conn, audit.conn, active} \ {None} : c.gen = d.gen => c = d
SessionInv == SessionsOK /\ LiveIsOfThisSession

\* The boundary is frozen at once, and a verified proof has two providers.
ProofOK ==
    /\ proof.started = Unset <=> proof.through = Unset
    /\ proof.started # Unset => proof.started <= proof.through + 1
    /\ proof.status = "verified" => proof.http # proof.ws
    /\ proof.retry => proof.status = "blocked"

\* The epochs stand in the order of the chain, each inside its own stretch.
Ordered(E) ==
    /\ E \subseteq Segments /\ IsFiniteSet(E)
    /\ \A e \in E : e.at = EpochOf(e.from) /\ e.from <= e.to
    /\ \A e, f \in E : /\ e.at = f.at => e = f
                       /\ e.at < f.at => e.to < f.from
Covers(E, first, last) == UNION {e.from .. e.to : e \in E} = first .. last
TilesOK ==
    /\ Ordered(epochs)
    /\ IF proof.started = Unset THEN epochs = {}
       ELSE Covers(epochs, proof.started, proof.through)
DataInv == ProofOK /\ TilesOK /\ CoverageIsAttested

\* What an audit knows at each of its steps.
AuditOK ==
    /\ audit.pc \notin {"idle", "handler"} => audit.conn \in Session \ {None}
    /\ audit.pc \in {"guarding", "asking"} => audit.answer = {} /\ audit.todo = {}
    /\ audit.pc \in {"answering", "storing", "failing"} =>
          /\ audit.http \in HttpProviders /\ audit.http # audit.conn.ws
          /\ audit.head \in Blocks /\ audit.started \in Blocks
          /\ audit.through \in -1 .. MaxBlock
          /\ audit.started <= audit.through + 1 /\ audit.through <= audit.head
    /\ audit.pc = "answering" => audit.through < audit.head
    /\ audit.pc \in {"storing", "failing"} =>
          /\ audit.end \in audit.through .. audit.head
          /\ audit.answer \subseteq audit.through + 1 .. audit.end
          /\ audit.todo \subseteq audit.answer
\* What it has stored of its answer is complete, unless it was removed since.
AnswerOK ==
    audit.pc = "storing" =>
        \A b \in audit.answer \ audit.todo : ev[b] \in {"complete", "removed"}
\* A verified proof that it reads back is its own.
ReadOK ==
    /\ audit.pc = "read" /\ proof.status = "verified" => proof.ws = audit.conn.ws
    /\ audit.pc = "report" /\ audit.view.status = "verified" =>
          audit.view.ws = audit.conn.ws
AuditInv == AuditOK /\ AnswerOK /\ ReadOK

IInv == TypeOK /\ SessionInv /\ DataInv /\ AuditInv

-----------------------------------------------------------------------------
(* Numbers and epochs.                                                     *)

LEMMA Numbers ==
    /\ MaxBlock \in Nat /\ Blocks = 0 .. MaxBlock /\ LogBlocks \subseteq Blocks
    /\ Unset = -2
    /\ Lookback \in Nat /\ Lookback >= 1 /\ AuditBlocks \in Nat /\ AuditBlocks >= 1
    /\ EpochBlocks \in Nat /\ EpochBlocks >= 1 /\ Retention \in Nat /\ Retention >= 1
  BY CoverageAssumption DEF Blocks, Unset

LEMMA LeastIs ==
    ASSUME NEW S \in SUBSET Nat, S # {}
    PROVE  Least(S) \in S /\ \A y \in S : Least(S) <= y
<1> DEFINE less == OpToRel(<, Nat)
<1>3. \A a, b \in Nat : a < b => <<a, b>> \in less
  BY DEF OpToRel
<1>4. IsWellFoundedOn(less, Nat)
  BY NatLessThanWellFounded
<1> HIDE DEF less
<1>1. PICK x \in S : \A y \in S : ~ (<<y, x>> \in less)
  BY <1>4, WFMin
<1>2. ASSUME NEW y \in S PROVE x <= y
  <2>1. x \in Nat /\ y \in Nat
    OBVIOUS
  <2>2. ~ (<<y, x>> \in less)
    BY <1>1
  <2>3. y < x => <<y, x>> \in less
    BY <1>3, <2>1
  <2>4. ~ (y < x)
    BY <2>2, <2>3
  <2>5. QED  BY <2>1, <2>4
<1>5. \E z \in S : \A y \in S : z <= y
  BY <1>2
<1>6. QED  BY <1>5 DEF Least, Min

LEMMA MaxOfTwo ==
    ASSUME NEW a \in Int, NEW b \in Int
    PROVE  Max({a, b}) = IF a >= b THEN a ELSE b
<1>1. \E x \in {a, b} : \A y \in {a, b} : x >= y
  OBVIOUS
<1>2. Max({a, b}) \in {a, b} /\ \A y \in {a, b} : Max({a, b}) >= y
  BY <1>1 DEF Max
<1>3. QED  BY <1>2

LEMMA FirstBlockOK == ASSUME NEW head \in Blocks PROVE FirstBlock(head) \in 0 .. head
  BY Numbers, MaxOfTwo DEF FirstBlock

LEMMA EpochBounds ==
    ASSUME NEW b \in Nat
    PROVE  EpochOf(b) \in Nat /\ EpochOf(b) <= b /\ b <= EpochOf(b) + EpochBlocks - 1
  BY Numbers, Z3 DEF EpochOf

LEMMA EpochsInOrder ==
    ASSUME NEW b \in Nat, NEW c \in Nat, b <= c
    PROVE  EpochOf(b) <= EpochOf(c)
<1> DEFINE q == b \div EpochBlocks
           r == c \div EpochBlocks
<1>2. EpochOf(b) = q * EpochBlocks /\ EpochOf(c) = r * EpochBlocks
  BY DEF EpochOf
<1>1. q \in Nat /\ r \in Nat /\ EpochBlocks \in Nat /\ EpochBlocks >= 1
      /\ q * EpochBlocks <= b /\ c < r * EpochBlocks + EpochBlocks
  <2>1. q \in Nat /\ r \in Nat
    BY Numbers, Z3
  <2>2. EpochOf(b) <= b /\ c <= EpochOf(c) + EpochBlocks - 1 /\ EpochOf(c) \in Nat
    BY EpochBounds
  <2>3. QED  BY <2>1, <2>2, <1>2, Numbers
<1> HIDE DEF q, r
<1>3. q <= r
  <2>1. SUFFICES ASSUME r + 1 <= q PROVE FALSE
    BY <1>1
  <2>2. (r + 1) * EpochBlocks <= q * EpochBlocks
    BY <1>1, <2>1, Z3
  <2>3. (r + 1) * EpochBlocks = r * EpochBlocks + EpochBlocks
    BY <1>1, Z3
  <2>4. r * EpochBlocks \in Nat /\ q * EpochBlocks \in Nat
    BY <1>1, Z3
  <2>5. QED  BY <1>1, <2>2, <2>3, <2>4
<1>4. q * EpochBlocks <= r * EpochBlocks
  BY <1>1, <1>3, Z3
<1>5. QED  BY <1>2, <1>4

\* No epochs cover nothing.
LEMMA NoEpochs ==
    ASSUME NEW first \in Int
    PROVE  Ordered({}) /\ Covers({}, first, first - 1)
<1>1. first .. first - 1 = {}
  OBVIOUS
<1>2. Covers({}, first, first - 1)
  BY <1>1 DEF Covers
<1>3. Ordered({})
  BY FS_EmptySet DEF Ordered
<1>4. QED  BY <1>2, <1>3

\* Pruning keeps the newest epochs, and they cover what follows their first.
LEMMA PrunedCovers ==
    ASSUME NEW E, Ordered(E), NEW first \in Nat, NEW last \in Int, Covers(E, first, last),
           NEW K, K = Pruned(E), K # {}
    PROVE  LET start == Least({e.from : e \in K})
           IN  start \in Blocks /\ first <= start /\ Covers(K, start, last)
<1>1. E \subseteq Segments /\ IsFiniteSet(E) /\ K \subseteq E
  BY DEF Ordered, Pruned
<1>2. \A e \in E : e.at \in Nat /\ e.from \in Blocks /\ e.to \in Blocks
                   /\ e.from \in Nat /\ e.to \in Nat /\ e.from <= e.to
  BY <1>1, Numbers DEF Segments, Ordered
<1> DEFINE start == Least({e.from : e \in K})
<1>3. PICK m \in K : m.from = start
  <2>1. {e.from : e \in K} \in SUBSET Nat /\ {e.from : e \in K} # {}
    BY <1>1, <1>2
  <2>2. start \in {e.from : e \in K}
    BY <2>1, LeastIs
  <2>3. QED  BY <2>2
<1>4. ASSUME NEW e \in K PROVE start <= e.from
  <2>1. {x.from : x \in K} \in SUBSET Nat /\ {x.from : x \in K} # {}
    BY <1>1, <1>2
  <2>2. e.from \in {x.from : x \in K}
    OBVIOUS
  <2>3. QED  BY <2>1, <2>2, LeastIs
<1> HIDE DEF start
<1>5. ASSUME NEW e \in E, e \notin K
      PROVE  e.to < start
  <2> DEFINE after(x) == {f \in E : f.at > x.at}
  <2>1. Cardinality(after(m)) < Retention /\ ~ (Cardinality(after(e)) < Retention)
    BY <1>3, <1>5 DEF Pruned
  <2>2. e.at < m.at
    <3>1. SUFFICES ASSUME ~ (e.at < m.at) PROVE FALSE
      OBVIOUS
    <3>2. after(e) \in SUBSET after(m)
      BY <1>1, <1>2, <1>3, <3>1
    <3>3. IsFiniteSet(after(m))
      BY <1>1, FS_Subset
    <3>4. Cardinality(after(e)) <= Cardinality(after(m)) /\ IsFiniteSet(after(e))
      BY <3>2, <3>3, FS_Subset
    <3>5. Cardinality(after(e)) \in Nat /\ Cardinality(after(m)) \in Nat
      BY <3>3, <3>4, FS_CardinalityType
    <3>6. QED  BY <2>1, <3>4, <3>5, Numbers
  <2>3. QED  BY <1>1, <1>3, <2>2 DEF Ordered
<1>6. \A b : (\E e \in E : b \in e.from .. e.to) <=> b \in first .. last
  BY DEF Covers
<1>7. start \in Blocks /\ first <= start
  BY <1>1, <1>2, <1>3, <1>6
<1>8. \A b : (\E e \in K : b \in e.from .. e.to) <=> b \in start .. last
  <2>1. ASSUME NEW b, NEW e \in K, b \in e.from .. e.to PROVE b \in start .. last
    <3>1. b \in first .. last
      BY <1>1, <1>6, <2>1
    <3>2. QED  BY <1>1, <1>2, <1>4, <1>7, <2>1, <3>1, Numbers
  <2>2. ASSUME NEW b \in start .. last PROVE \E e \in K : b \in e.from .. e.to
    <3>1. start \in Int /\ first <= start
      BY <1>7, Numbers
    <3>2. PICK e \in E : b \in e.from .. e.to
      BY <1>6, <3>1
    <3>3. e \in K
      BY <1>2, <1>5, <3>1, <3>2
    <3>4. QED  BY <3>2, <3>3
  <2>3. QED  BY <2>1, <2>2
<1>9. Covers(K, start, last)
  BY <1>8 DEF Covers
<1>10. QED  BY <1>7, <1>9 DEF start

\* A part of what is ordered is ordered.
LEMMA PartOrdered == ASSUME NEW E, Ordered(E), NEW K \in SUBSET E PROVE Ordered(K)
  BY FS_Subset DEF Ordered

-----------------------------------------------------------------------------
(* What a step leaves alone.                                               *)

Health == [status: {"absent", "live", "degraded", "disconnected"},
           gen: Generations \cup {None}, view: Proof]
Reader == [pc: {"down", "dialing", "up"}, conn: Session \cup {None}]
Places == {"idle", "guarding", "asking", "answering", "storing", "failing", "read",
           "report", "handler"}
Audit == [pc: Places, conn: Session \cup {None}, http: HttpProviders \cup {None},
          head: Blocks \cup {Unset}, started: Blocks \cup {Unset},
          through: {-1, Unset} \cup Blocks, end: {-1, Unset} \cup Blocks,
          answer: SUBSET Blocks, todo: SUBSET Blocks, view: Proof]

LEMMA DataFrame ==
    ASSUME DataInv, UNCHANGED <<ev, proof, epochs, answered>>
    PROVE  DataInv'
  BY DEF DataInv, ProofOK, TilesOK, CoverageIsAttested

LEMMA AuditFrame ==
    ASSUME AuditInv, UNCHANGED <<ev, proof, audit>>
    PROVE  AuditInv'
  BY DEF AuditInv, AuditOK, AnswerOK, ReadOK

LEMMA FewerSessions ==
    ASSUME SessionsOK, reader'.conn \in {reader.conn, audit.conn, active, None},
           audit'.conn \in {reader.conn, audit.conn, active, None},
           active' \in {reader.conn, audit.conn, active, None}
    PROVE  SessionsOK'
  BY DEF SessionsOK

LEMMA NoProofOK == NoProof \in Proof /\ NoProof.status = "missing"
  BY DEF NoProof, Proof

\* An audit that rests or begins holds no answer.
Fresh(pc, c) == [Idle EXCEPT !.pc = pc, !.conn = c]
LEMMA FreshOK ==
    ASSUME NEW pc \in Places, NEW c \in Session \cup {None}
    PROVE  /\ Fresh(pc, c) \in Audit /\ Fresh(pc, c).pc = pc /\ Fresh(pc, c).conn = c
           /\ Fresh(pc, c).answer = {} /\ Fresh(pc, c).todo = {}
  BY NoProofOK DEF Fresh, Idle, Audit
LEMMA IdleItself == Idle \in Audit /\ Idle.pc = "idle" /\ Idle.conn = None
  BY NoProofOK DEF Idle, Audit, Places

LEMMA AuditRests ==
    ASSUME audit'.pc \in {"idle", "handler"}
    PROVE  AuditInv'
  BY DEF AuditInv, AuditOK, AnswerOK, ReadOK

-----------------------------------------------------------------------------
LEMMA InitInv == Init => IInv
<1> SUFFICES ASSUME Init PROVE IInv
  OBVIOUS
<1>1. TypeOK
  <2>1. NoProof \in Proof /\ Idle \in Audit /\ Down \in Reader
    BY NoProofOK, IdleItself DEF Down, Reader
  <2>2. health \in Health /\ epochs \subseteq Segments /\ critical \in BOOLEAN
        /\ active \in Session \cup {None}
    BY <2>1 DEF Init, Health
  <2>3. /\ ev \in [Blocks -> {"absent", "partial", "complete", "removed"}]
        /\ answered \in [Blocks -> {"never", "log", "empty"}]
    BY DEF Init
  <2>4. proof \in Proof /\ audit \in Audit /\ reader \in Reader
    BY <2>1 DEF Init
  <2>5. QED  BY <2>2, <2>3, <2>4 DEF TypeOK, Audit, Places, Reader, Health
<1>2. SessionInv
  BY DEF Init, SessionInv, SessionsOK, LiveIsOfThisSession, Down, Idle
<1>3. DataInv
  <2>1. Ordered({})
    BY NoEpochs
  <2>2. QED  BY <2>1 DEF Init, DataInv, ProofOK, TilesOK, CoverageIsAttested, NoProof
<1>4. AuditInv
  BY DEF Init, AuditInv, AuditOK, AnswerOK, ReadOK, Idle
<1>5. QED  BY <1>1, <1>2, <1>3, <1>4 DEF IInv

-----------------------------------------------------------------------------
(* The health row and the published session.                               *)

\* Nothing is live without a session, so revoking is always sound.
LEMMA RevokeOK ==
    ASSUME TypeOK, Revoke
    PROVE  health' \in Health /\ active' = None /\ LiveIsOfThisSession'
<1>1. CASE Written("degraded", None, NoProof)
  BY <1>1, NoProofOK DEF Revoke, Written, Health, LiveIsOfThisSession
<1>2. CASE MarkedDisconnected
  BY <1>2 DEF Revoke, MarkedDisconnected, TypeOK, Health, LiveIsOfThisSession
<1>3. CASE UNCHANGED health
  BY <1>3 DEF Revoke, TypeOK, Health, LiveIsOfThisSession
<1>4. QED  BY <1>1, <1>2, <1>3 DEF Revoke

\* A worker's report speaks of the session whose generation it carries.
LEMMA ReportForOK ==
    ASSUME TypeOK, LiveIsOfThisSession, NEW gen \in Generations, NEW view \in Proof,
           ReportFor(gen, view), UNCHANGED active,
           view.status = "verified" /\ active # None /\ active.gen = gen
              => view.ws = active.ws
    PROVE  health' \in Health /\ LiveIsOfThisSession'
<1>1. CASE UNCHANGED health
  BY <1>1 DEF TypeOK, Health, LiveIsOfThisSession
<1>2. CASE active # None /\ active.gen = gen /\ Written(StatusOf(view), gen, view)
  <2>1. StatusOf(view) \in {"live", "degraded"}
        /\ (StatusOf(view) = "live" => view.status = "verified")
    BY DEF StatusOf
  <2>2. health' = [status |-> StatusOf(view), gen |-> gen,
                   view |-> IF StatusOf(view) = "live" THEN view ELSE NoProof]
    BY <1>2 DEF Written
  <2>3. health' \in Health
    BY <2>1, <2>2, NoProofOK DEF Health
  <2>4. LiveIsOfThisSession'
    BY <1>2, <2>1, <2>2 DEF LiveIsOfThisSession
  <2>5. QED  BY <2>3, <2>4
<1>3. QED  BY <1>1, <1>2 DEF ReportFor

\* The reader's steps that revoke, and those that only move it.
LEMMA ReaderSteps ==
    ASSUME IInv, Dial \/ DialRefused \/ DialFails \/ Close
    PROVE  IInv'
<1>1. /\ UNCHANGED <<ev, proof, epochs, audit, critical, answered>>
      /\ reader' \in Reader /\ reader'.conn \in {reader.conn, None}
      /\ Revoke \/ UNCHANGED <<health, active>>
  <2>1. reader \in Reader /\ Down \in Reader /\ Down.conn = None
    BY DEF IInv, TypeOK, Reader, Down
  <2>2. CASE Dial
    BY <2>1, <2>2 DEF Dial, Reader
  <2>3. CASE DialRefused
    BY <2>1, <2>3 DEF DialRefused
  <2>4. CASE DialFails
    BY <2>1, <2>4 DEF DialFails
  <2>5. CASE Close
    BY <2>1, <2>5 DEF Close
  <2>6. QED  BY <2>2, <2>3, <2>4, <2>5
<1>2. health' \in Health /\ active' \in {active, None} /\ LiveIsOfThisSession'
  <2>1. CASE Revoke
    BY <2>1, RevokeOK DEF IInv
  <2>2. CASE UNCHANGED <<health, active>>
    BY <2>2 DEF IInv, SessionInv, TypeOK, Health, LiveIsOfThisSession
  <2>3. QED  BY <1>1, <2>1, <2>2
<1>3. TypeOK'
  BY <1>1, <1>2 DEF IInv, TypeOK, Health, Reader
<1>4. SessionInv'
  BY <1>1, <1>2, FewerSessions DEF IInv, SessionInv
<1>5. QED  BY <1>1, <1>3, <1>4, DataFrame, AuditFrame DEF IInv

\* A new session takes a generation that nobody holds any more.
LEMMA PublishInv ==
    ASSUME IInv, NEW p \in WsProviders, NEW gen \in Generations, Publish(p, gen)
    PROVE  IInv'
<1> DEFINE c == [ws |-> p, gen |-> gen]
<1>1. /\ c \in Session /\ c.gen = gen /\ active' = c /\ reader' = [pc |-> "up", conn |-> c]
      /\ Written("degraded", gen, NoProof) /\ gen \notin InUse
      /\ UNCHANGED <<ev, proof, epochs, audit, critical, answered>>
  BY DEF Publish, Session
<1> HIDE DEF c
<1>2. health' \in Health /\ health'.status = "degraded"
  BY <1>1, NoProofOK DEF Written, Health
<1>3. TypeOK'
  BY <1>1, <1>2 DEF IInv, TypeOK, Health
<1>4. SessionsOK'
  <2>1. audit.conn # None => audit.conn.gen # gen
    BY <1>1 DEF InUse
  <2>2. {reader.conn, audit.conn, active}' = {c, audit.conn}
    BY <1>1
  <2>3. QED  BY <1>1, <2>1, <2>2 DEF SessionsOK
<1>5. LiveIsOfThisSession'
  BY <1>2 DEF LiveIsOfThisSession
<1>6. QED  BY <1>1, <1>3, <1>4, <1>5, DataFrame, AuditFrame DEF IInv, SessionInv

\* What maintenance does without touching the proof store: it takes a session,
\* gives up, or leaves everything to the handler.
LEMMA MaintenanceMoves ==
    ASSUME IInv, Shed \/ TakeSession \/ BackOff \/ Begin \/ MaintenanceFails
    PROVE  IInv'
<1> USE DEF At, Goes, GoesToRead
<1>1. audit \in Audit
  BY DEF IInv, TypeOK, Audit, Places
<1>2. UNCHANGED <<ev, proof, epochs, reader, critical, answered>>
  BY DEF Shed, TakeSession, BackOff, Begin, MaintenanceFails
<1>3. /\ audit' \in Audit /\ audit'.conn \in {audit.conn, active, None} /\ AuditInv'
      /\ Revoke \/ UNCHANGED <<health, active>>
  <2>1. CASE Shed
    BY <2>1, IdleItself, AuditRests DEF Shed
  <2>2. CASE TakeSession
    <3>1. audit' = Fresh("guarding", active) /\ active # None
          /\ active \in Session /\ UNCHANGED <<health, active>>
      BY <2>2 DEF TakeSession, IInv, TypeOK, Fresh
    <3>2. audit' \in Audit /\ audit'.pc = "guarding" /\ audit'.conn = active
          /\ audit'.answer = {} /\ audit'.todo = {}
      BY <3>1, FreshOK DEF Places
    <3>3. AuditInv'
      BY <3>1, <3>2 DEF AuditInv, AuditOK, AnswerOK, ReadOK
    <3>4. QED  BY <3>1, <3>2, <3>3
  <2>3. CASE BackOff
    <3>1. /\ audit' = Fresh("read", audit.conn)
          /\ audit.conn \in Session \ {None} /\ UNCHANGED <<health, active>>
          /\ proof'.status # "verified"
      BY <1>2, <2>3 DEF BackOff, IInv, AuditInv, AuditOK, DataInv, ProofOK, Fresh
    <3>2. audit' \in Audit /\ audit'.pc = "read" /\ audit'.conn = audit.conn
      BY <3>1, FreshOK DEF Places
    <3>3. AuditInv'
      BY <3>1, <3>2 DEF AuditInv, AuditOK, AnswerOK, ReadOK
    <3>4. QED  BY <3>1, <3>2, <3>3
  <2>4. CASE Begin
    <3>1. audit' = [audit EXCEPT !.pc = "asking"] /\ audit.pc = "guarding"
          /\ UNCHANGED <<health, active>>
      BY <2>4 DEF Begin
    <3>2. audit' \in Audit /\ audit'.pc = "asking" /\ audit'.conn = audit.conn
          /\ audit'.answer = audit.answer /\ audit'.todo = audit.todo
      BY <1>1, <3>1 DEF Audit, Places
    <3>3. AuditInv'
      BY <3>1, <3>2 DEF IInv, AuditInv, AuditOK, AnswerOK, ReadOK
    <3>4. QED  BY <3>1, <3>2, <3>3
  <2>5. CASE MaintenanceFails
    <3>1. audit' = Fresh("handler", active)
          /\ active \in Session \cup {None} /\ UNCHANGED <<health, active>>
      BY <2>5 DEF MaintenanceFails, IInv, TypeOK, Fresh
    <3>2. audit' \in Audit /\ audit'.pc = "handler" /\ audit'.conn = active
      BY <3>1, FreshOK DEF Places
    <3>3. QED  BY <3>1, <3>2, AuditRests
  <2>6. QED  BY <2>1, <2>2, <2>3, <2>4, <2>5
<1>4. health' \in Health /\ active' \in {active, None} /\ LiveIsOfThisSession'
  <2>1. CASE Revoke
    BY <2>1, RevokeOK DEF IInv
  <2>2. CASE UNCHANGED <<health, active>>
    BY <2>2 DEF IInv, SessionInv, TypeOK, Health, LiveIsOfThisSession
  <2>3. QED  BY <1>3, <2>1, <2>2
<1>5. TypeOK'
  BY <1>2, <1>3, <1>4 DEF IInv, TypeOK, Health, Audit, Places
<1>6. SessionInv'
  BY <1>2, <1>3, <1>4, FewerSessions DEF IInv, SessionInv
<1>7. QED  BY <1>2, <1>3, <1>5, <1>6, DataFrame DEF IInv

\* A report changes the health row and nothing else of the lane.
LEMMA Reporting ==
    ASSUME IInv, audit' = Idle, UNCHANGED <<ev, proof, epochs, active, reader, critical, answered>>,
           health' \in Health, LiveIsOfThisSession'
    PROVE  IInv'
<1>1. audit' \in Audit /\ audit'.conn = None /\ AuditInv'
  BY IdleItself, AuditRests
<1>2. TypeOK'
  BY <1>1 DEF IInv, TypeOK, Health, Audit, Places
<1>3. SessionInv'
  BY <1>1, FewerSessions DEF IInv, SessionInv
<1>4. QED  BY <1>1, <1>2, <1>3, DataFrame DEF IInv

\* The audit reports the proof it read back, of its own session; the handler
\* has no proof to show.
LEMMA ReportsInv == ASSUME IInv, Report \/ HandlerReports PROVE IInv'
<1>1. CASE Report
  <2>1. /\ audit.conn \in Session \ {None} /\ audit.view \in Proof /\ audit.pc = "report"
        /\ audit.view.status = "verified" => audit.view.ws = audit.conn.ws
        /\ audit.conn.gen \in Generations
    BY <1>1 DEF Report, At, IInv, TypeOK, AuditInv, AuditOK, ReadOK, Session
  <2>2. active # None /\ active.gen = audit.conn.gen => active = audit.conn
    BY <2>1 DEF IInv, SessionInv, SessionsOK
  <2>3. ReportFor(audit.conn.gen, audit.view) /\ audit' = Idle
        /\ UNCHANGED <<ev, proof, epochs, active, reader, critical, answered>>
    BY <1>1 DEF Report
  <2>4. health' \in Health /\ LiveIsOfThisSession'
    BY <2>1, <2>2, <2>3, ReportForOK DEF IInv, SessionInv
  <2>5. QED  BY <2>3, <2>4, Reporting
<1>2. CASE HandlerReports
  <2>1. audit' = Idle /\ UNCHANGED <<ev, proof, epochs, active, reader, critical, answered>>
    BY <1>2 DEF HandlerReports
  <2>2. CASE UNCHANGED health
    BY <2>1, <2>2, Reporting DEF IInv, SessionInv, TypeOK, Health, LiveIsOfThisSession
  <2>3. CASE Written("degraded", None, NoProof)
    <3>1. health' \in Health /\ LiveIsOfThisSession'
      BY <2>3, NoProofOK DEF Written, Health, LiveIsOfThisSession
    <3>2. QED  BY <2>1, <3>1, Reporting
  <2>4. CASE audit.conn # None /\ ReportFor(audit.conn.gen, NoProof)
    <3>1. audit.conn.gen \in Generations
      BY <2>4 DEF IInv, TypeOK, Session
    <3>2. health' \in Health /\ LiveIsOfThisSession'
      BY <2>1, <2>4, <3>1, NoProofOK, ReportForOK DEF IInv, SessionInv
    <3>3. QED  BY <2>1, <3>2, Reporting
  <2>5. QED  BY <1>2, <2>2, <2>3, <2>4 DEF HandlerReports
<1>3. QED  BY <1>1, <1>2

\* Reading the proof back, the disk, the back-off that ends, and a restart.
LEMMA OtherSteps ==
    ASSUME IInv, ReadBack \/ DiskChanges \/ RetryDue \/ Crash \/ UNCHANGED vars
    PROVE  IInv'
<1>1. CASE ReadBack
  <2>1. audit.pc = "read" /\ audit' = [audit EXCEPT !.pc = "report", !.view = proof]
        /\ UNCHANGED <<ev, proof, epochs, health, active, reader, critical, answered>>
    BY <1>1 DEF ReadBack, At
  <2>2. audit \in Audit /\ proof \in Proof
    BY DEF IInv, TypeOK, Audit, Places
  <2>3. audit' \in Audit /\ audit'.pc = "report" /\ audit'.view = proof
        /\ audit'.conn = audit.conn
    BY <2>1, <2>2 DEF Audit, Places
  <2>4. TypeOK'
    BY <2>1, <2>3 DEF IInv, TypeOK, Audit, Places
  <2>5. SessionInv'
    BY <2>1, <2>3, FewerSessions DEF IInv, SessionInv, LiveIsOfThisSession
  <2>6. AuditInv'
    BY <2>1, <2>3 DEF IInv, AuditInv, AuditOK, AnswerOK, ReadOK
  <2>7. QED  BY <2>1, <2>4, <2>5, <2>6, DataFrame DEF IInv
<1>2. CASE DiskChanges \/ UNCHANGED vars
  <2>1. UNCHANGED <<ev, proof, epochs, health, active, reader, audit, answered>>
        /\ critical' \in BOOLEAN
    BY <1>2 DEF DiskChanges, vars, IInv, TypeOK
  <2>2. TypeOK'
    BY <2>1 DEF IInv, TypeOK
  <2>3. SessionInv'
    BY <2>1 DEF IInv, SessionInv, SessionsOK, LiveIsOfThisSession
  <2>4. QED  BY <2>1, <2>2, <2>3, DataFrame, AuditFrame DEF IInv
<1>3. CASE RetryDue
  <2>1. proof' = [proof EXCEPT !.retry = FALSE] /\ proof \in Proof
        /\ UNCHANGED <<ev, epochs, health, active, reader, audit, critical, answered>>
    BY <1>3 DEF RetryDue, IInv, TypeOK
  <2>2. /\ proof' \in Proof /\ proof'.retry = FALSE
        /\ proof'.status = proof.status /\ proof'.started = proof.started
        /\ proof'.through = proof.through /\ proof'.ws = proof.ws /\ proof'.http = proof.http
    BY <2>1 DEF Proof
  <2>3. TypeOK'
    BY <2>1, <2>2 DEF IInv, TypeOK
  <2>4. SessionInv'
    BY <2>1 DEF IInv, SessionInv, SessionsOK, LiveIsOfThisSession
  <2>5. DataInv'
    BY <2>1, <2>2 DEF IInv, DataInv, ProofOK, TilesOK, CoverageIsAttested
  <2>6. AuditInv'
    BY <2>1, <2>2 DEF IInv, AuditInv, AuditOK, AnswerOK, ReadOK
  <2>7. QED  BY <2>3, <2>4, <2>5, <2>6 DEF IInv
<1>4. CASE Crash
  <2>1. active' = None /\ reader' = Down /\ audit' = Idle
        /\ UNCHANGED <<ev, proof, epochs, health, critical, answered>>
    BY <1>4 DEF Crash
  <2>2. audit' \in Audit /\ audit'.conn = None /\ reader' \in Reader /\ reader'.conn = None
        /\ AuditInv'
    BY <2>1, IdleItself, AuditRests DEF Down, Reader
  <2>3. TypeOK'
    BY <2>1, <2>2 DEF IInv, TypeOK, Audit, Places, Reader
  <2>4. SessionInv'
    BY <2>1, <2>2, FewerSessions DEF IInv, SessionInv, LiveIsOfThisSession
  <2>5. QED  BY <2>1, <2>2, <2>3, <2>4, DataFrame DEF IInv
<1>5. QED  BY <1>1, <1>2, <1>3, <1>4

-----------------------------------------------------------------------------
(* Evidence.                                                               *)

\* Changed evidence below the watermark takes the whole claim back; any other
\* change lies outside what is claimed.
LEMMA EvidenceChanges ==
    ASSUME TypeOK, DataInv, NEW b \in Blocks, NEW state \in {"partial", "complete", "removed"},
           ev' = [ev EXCEPT ![b] = state], UNCHANGED answered,
           AfterChange(b) \/ (ev[b] = "partial" /\ UNCHANGED <<proof, epochs>>)
    PROVE  /\ proof' \in Proof /\ epochs' \subseteq Segments /\ DataInv'
           /\ proof'.status = "verified" => proof' = proof
<1>0. /\ proof \in Proof /\ epochs \subseteq Segments
      /\ \A c \in Blocks : ev'[c] = IF c = b THEN state ELSE ev[c]
  BY DEF TypeOK
<1>1. CASE /\ proof.started # Unset
           /\ proof' = [proof EXCEPT !.through = proof.started - 1,
                                     !.status = "blocked", !.retry = FALSE]
           /\ epochs' = {}
  <2>1. proof.started \in Blocks /\ proof.started - 1 \in {-1, Unset} \cup Blocks
        /\ proof.started - 1 # Unset
    BY <1>0, <1>1, Numbers DEF Proof
  <2>2. /\ proof' \in Proof /\ proof'.started = proof.started
        /\ proof'.through = proof.started - 1 /\ proof'.status = "blocked"
    BY <1>0, <1>1, <2>1 DEF Proof
  <2>3. ProofOK'
    BY <1>1, <2>1, <2>2, Numbers DEF ProofOK
  <2>4. proof.started \in Int
    BY <2>1, Numbers
  <2>5. TilesOK'
    BY <1>1, <2>2, <2>4, NoEpochs DEF TilesOK
  <2>6. CoverageIsAttested'
    BY <2>2, <2>4 DEF CoverageIsAttested
  <2>7. QED  BY <1>1, <2>2, <2>3, <2>5, <2>6 DEF DataInv
<1>2. CASE UNCHANGED <<proof, epochs>> /\ (proof.started # Unset => b \notin proof.started .. proof.through)
  <2>1. proof.started # Unset => \A c \in proof.started .. proof.through : c \in Blocks
    BY <1>0, Numbers DEF DataInv, ProofOK, Proof
  <2>2. CoverageIsAttested'
    BY <1>0, <1>2, <2>1 DEF DataInv, CoverageIsAttested
  <2>3. ProofOK' /\ TilesOK'
    BY <1>2 DEF DataInv, ProofOK, TilesOK
  <2>4. QED  BY <1>0, <1>2, <2>2, <2>3 DEF DataInv
<1>3. ev[b] = "partial" => (proof.started # Unset => b \notin proof.started .. proof.through)
  BY DEF DataInv, CoverageIsAttested
<1>4. QED  BY <1>1, <1>2, <1>3 DEF AfterChange

\* A log that is stored, completed or removed.
LEMMA Stored ==
    ASSUME TypeOK, DataInv, NEW b \in Blocks, UNCHANGED answered,
           StoreLog(b, "complete") \/ StoreLog(b, "partial") \/ RemoveLog(b)
    PROVE  /\ proof' \in Proof /\ epochs' \subseteq Segments /\ DataInv'
           /\ proof'.status = "verified" => proof' = proof
           /\ ev' \in [Blocks -> {"absent", "partial", "complete", "removed"}]
           /\ \A c \in Blocks : ev[c] \in {"complete", "removed"} =>
                 ev'[c] \in {"complete", "removed"}
           /\ StoreLog(b, "complete") => ev'[b] = "complete"
<1>1. PICK state \in {"partial", "complete", "removed"} :
         /\ ev' = [ev EXCEPT ![b] = state]
         /\ AfterChange(b) \/ (ev[b] = "partial" /\ UNCHANGED <<proof, epochs>>)
         /\ ev[b] \in {"absent", "partial"} \/ state = "removed"
         /\ StoreLog(b, "complete") => ev' = [ev EXCEPT ![b] = "complete"]
  <2>1. CASE StoreLog(b, "complete")
    BY <2>1 DEF StoreLog
  <2>2. CASE StoreLog(b, "partial") /\ ~ StoreLog(b, "complete")
    <3>1. /\ ev' = [ev EXCEPT ![b] = "partial"] /\ ev[b] \in {"absent", "partial"}
          /\ AfterChange(b) \/ (ev[b] = "partial" /\ UNCHANGED <<proof, epochs>>)
      BY <2>2 DEF StoreLog
    <3>2. QED  BY <2>2, <3>1
  <2>3. CASE RemoveLog(b) /\ ~ StoreLog(b, "complete")
    <3>1. ev' = [ev EXCEPT ![b] = "removed"] /\ AfterChange(b)
      BY <2>3 DEF RemoveLog
    <3>2. QED  BY <2>3, <3>1
  <2>4. QED  BY <2>1, <2>2, <2>3
<1>2. /\ proof' \in Proof /\ epochs' \subseteq Segments /\ DataInv'
      /\ proof'.status = "verified" => proof' = proof
  BY <1>1, EvidenceChanges
<1>3. ev \in [Blocks -> {"absent", "partial", "complete", "removed"}]
  BY DEF TypeOK
<1>4. QED  BY <1>1, <1>2, <1>3

LEMMA PersistInv == ASSUME IInv, NEW b \in LogBlocks, Persist(b) PROVE IInv'
<1>1. UNCHANGED <<health, active, reader, audit, critical, answered>>
      /\ (StoreLog(b, "complete") \/ StoreLog(b, "partial") \/ RemoveLog(b)) /\ b \in Blocks
  BY Numbers DEF Persist
<1>2. /\ proof' \in Proof /\ epochs' \subseteq Segments /\ DataInv'
      /\ proof'.status = "verified" => proof' = proof
      /\ ev' \in [Blocks -> {"absent", "partial", "complete", "removed"}]
      /\ \A c \in Blocks : ev[c] \in {"complete", "removed"} =>
            ev'[c] \in {"complete", "removed"}
  BY <1>1, Stored DEF IInv
<1>3. TypeOK'
  BY <1>1, <1>2 DEF IInv, TypeOK
<1>4. SessionInv'
  BY <1>1 DEF IInv, SessionInv, SessionsOK, LiveIsOfThisSession
<1>5. AuditInv'
  <2>1. audit.answer \subseteq Blocks
    BY DEF IInv, TypeOK
  <2>2. AuditOK' /\ ReadOK'
    BY <1>1, <1>2 DEF IInv, AuditInv, AuditOK, ReadOK
  <2>3. AnswerOK'
    BY <1>1, <1>2, <2>1 DEF IInv, AuditInv, AnswerOK
  <2>4. QED  BY <2>2, <2>3 DEF AuditInv
<1>6. QED  BY <1>2, <1>3, <1>4, <1>5 DEF IInv

\* An answer is stored from its first block on; a row that stays partial ends
\* the audit.
LEMMA StoreAnswerInv ==
    ASSUME IInv, NEW state \in {"complete", "partial"}, StoreAnswer(state)
    PROVE  IInv'
<1> DEFINE b == Least(audit.todo)
           todo == audit.todo \ {b}
           pc == IF state = "complete" THEN "storing" ELSE "failing"
<1>1. /\ audit.pc = "storing" /\ audit.todo # {}
      /\ \/ StoreLog(b, state)
         \/ ev[b] = "complete" /\ state = "complete" /\ UNCHANGED <<ev, proof, epochs>>
      /\ audit' = [audit EXCEPT !.todo = todo, !.pc = pc]
      /\ UNCHANGED <<health, active, reader, critical, answered>>
  BY DEF StoreAnswer, At, IInv, TypeOK
<1>2. audit \in Audit /\ audit.todo \subseteq Blocks
  BY DEF IInv, TypeOK, Audit, Places
<1>3. b \in audit.todo /\ b \in Blocks
  <2>1. audit.todo \in SUBSET Nat
    BY <1>2, Numbers
  <2>2. QED  BY <1>1, <1>2, <2>1, LeastIs
<1> HIDE DEF b
<1>4. /\ proof' \in Proof /\ epochs' \subseteq Segments /\ DataInv'
      /\ ev' \in [Blocks -> {"absent", "partial", "complete", "removed"}]
      /\ \A c \in Blocks : ev[c] \in {"complete", "removed"} =>
            ev'[c] \in {"complete", "removed"}
      /\ state = "complete" => ev'[b] = "complete"
  <2>1. CASE StoreLog(b, state)
    BY <1>1, <1>3, <2>1, Stored DEF IInv
  <2>2. CASE ev[b] = "complete" /\ UNCHANGED <<ev, proof, epochs>>
    BY <1>1, <2>2, DataFrame DEF IInv, TypeOK
  <2>3. QED  BY <1>1, <2>1, <2>2
<1>5. /\ audit' \in Audit /\ audit'.pc = pc /\ audit'.todo = todo /\ pc \in {"storing", "failing"}
      /\ audit'.conn = audit.conn /\ audit'.http = audit.http /\ audit'.head = audit.head
      /\ audit'.started = audit.started /\ audit'.through = audit.through
      /\ audit'.end = audit.end /\ audit'.answer = audit.answer
  BY <1>1, <1>2 DEF Audit, Places
<1>6. TypeOK'
  BY <1>1, <1>4, <1>5 DEF IInv, TypeOK, Audit, Places
<1>7. SessionInv'
  BY <1>1, <1>5, FewerSessions DEF IInv, SessionInv, LiveIsOfThisSession
<1>8. AuditOK' /\ ReadOK'
  BY <1>1, <1>5 DEF IInv, AuditInv, AuditOK, ReadOK
<1>9. AnswerOK'
  <2>1. SUFFICES ASSUME audit'.pc = "storing", NEW c \in audit'.answer \ audit'.todo
                 PROVE  ev'[c] \in {"complete", "removed"}
    BY DEF AnswerOK
  <2>2. c \in audit.answer /\ c \in Blocks /\ state = "complete"
    BY <1>2, <1>5, <2>1 DEF Audit
  <2>3. CASE c = b
    BY <1>4, <2>2, <2>3
  <2>4. CASE c # b
    BY <1>1, <1>4, <1>5, <2>1, <2>2, <2>4 DEF IInv, AuditInv, AnswerOK
  <2>5. QED  BY <2>3, <2>4
<1>10. QED  BY <1>4, <1>6, <1>7, <1>8, <1>9 DEF IInv, AuditInv

-----------------------------------------------------------------------------
(* The audit.                                                              *)

\* The boundary is frozen once, with nothing claimed yet.
LEMMA FrozenOK ==
    ASSUME TypeOK, DataInv, NEW p \in HttpProviders, NEW head \in Blocks,
           audit.conn \in Session,
           proof.started # Unset => head >= proof.through,
           proof' = Frozen(p, head), UNCHANGED <<ev, epochs, answered>>
    PROVE  /\ proof' \in Proof /\ DataInv'
           /\ proof'.status = "verified" => proof' = proof
           /\ proof'.started \in Blocks /\ proof'.through \in -1 .. MaxBlock
           /\ proof'.started <= proof'.through + 1 /\ proof'.through <= head
<1>1. proof \in Proof
  BY DEF TypeOK
<1>2. CASE proof.started # Unset
  <2>1. proof' = proof
    BY <1>2 DEF Frozen
  <2>2. /\ proof.started \in Blocks /\ proof.through \in -1 .. MaxBlock
        /\ proof.started <= proof.through + 1 /\ proof.through <= head
    BY <1>1, <1>2, Numbers DEF DataInv, ProofOK, Proof
  <2>3. QED  BY <1>1, <2>1, <2>2, DataFrame
<1>3. CASE proof.started = Unset
  <2> DEFINE first == FirstBlock(head)
  <2>1. first \in 0 .. head /\ first \in Blocks /\ first - 1 \in {-1, Unset} \cup Blocks
        /\ first - 1 \in -1 .. MaxBlock
    BY FirstBlockOK, Numbers
  <2>2. proof' = [status |-> "catching_up", started |-> first, through |-> first - 1,
                  head |-> head, ws |-> audit.conn.ws, http |-> p, retry |-> FALSE]
    BY <1>3 DEF Frozen
  <2> HIDE DEF first
  <2>3. audit.conn.ws \in Providers /\ p \in Providers
    BY DEF Session, Providers
  <2>4. proof' \in Proof
    BY <2>1, <2>2, <2>3 DEF Proof
  <2>5. ProofOK'
    BY <2>1, <2>2, Numbers DEF ProofOK
  <2>6. TilesOK'
    <3>1. epochs' = {} /\ first \in Int /\ first # Unset
      BY <1>3, <2>1, Numbers DEF DataInv, TilesOK
    <3>2. QED  BY <2>2, <3>1, NoEpochs DEF TilesOK
  <2>7. CoverageIsAttested'
    <3>1. first .. first - 1 = {}
      BY <2>1, Numbers
    <3>2. QED  BY <2>2, <3>1 DEF CoverageIsAttested
  <2>8. QED  BY <2>1, <2>2, <2>4, <2>5, <2>6, <2>7, Numbers DEF DataInv
<1>4. QED  BY <1>2, <1>3

LEMMA ReadHeadInv ==
    ASSUME IInv, NEW p \in HttpProviders, NEW head \in Blocks, ReadHead(p, head)
    PROVE  IInv'
<1> DEFINE pc == IF head = proof'.through THEN "storing" ELSE "answering"
<1>1. /\ audit.pc = "asking" /\ p # audit.conn.ws
      /\ proof.started # Unset => head >= proof.through
      /\ proof' = Frozen(p, head)
      /\ audit' = [audit EXCEPT !.pc = pc, !.http = p, !.head = head,
                      !.started = proof'.started, !.through = proof'.through,
                      !.end = proof'.through]
      /\ UNCHANGED <<ev, epochs, health, active, reader, critical, answered>>
  BY DEF ReadHead, At, Independent
<1>2. /\ audit \in Audit /\ audit.conn \in Session \ {None}
      /\ audit.answer = {} /\ audit.todo = {}
  BY <1>1 DEF IInv, TypeOK, Audit, Places, AuditInv, AuditOK
<1>3. /\ proof' \in Proof /\ DataInv' /\ proof'.started \in Blocks
      /\ proof'.through \in -1 .. MaxBlock
      /\ proof'.started <= proof'.through + 1 /\ proof'.through <= head
  BY <1>1, <1>2, FrozenOK DEF IInv
<1>4. proof'.through \in {-1, Unset} \cup Blocks /\ proof'.through \in Int /\ head \in Int
  BY <1>3, Numbers
<1>5. /\ audit' \in Audit /\ audit'.pc = pc /\ pc \in {"storing", "answering"}
      /\ audit'.http = p /\ audit'.head = head /\ audit'.conn = audit.conn
      /\ audit'.started = proof'.started /\ audit'.through = proof'.through
      /\ audit'.end = proof'.through /\ audit'.answer = {} /\ audit'.todo = {}
  BY <1>1, <1>2, <1>3, <1>4 DEF Audit, Places
<1>6. pc = "answering" => proof'.through < head
  BY <1>3, <1>4
<1> HIDE DEF pc
<1>7. TypeOK'
  BY <1>1, <1>3, <1>5 DEF IInv, TypeOK, Audit, Places
<1>8. SessionInv'
  BY <1>1, <1>5, FewerSessions DEF IInv, SessionInv, LiveIsOfThisSession
<1>9. AuditOK'
  <2>1. proof'.through \in proof'.through .. head
    BY <1>3, <1>4
  <2>2. QED  BY <1>1, <1>2, <1>3, <1>5, <1>6, <2>1 DEF AuditOK
<1>10. AnswerOK' /\ ReadOK'
  BY <1>5 DEF AnswerOK, ReadOK
<1>11. QED  BY <1>3, <1>7, <1>8, <1>9, <1>10 DEF IInv, AuditInv

\* An audit takes at least one block and no block past its head.
LEMMA AuditEndOK ==
    ASSUME audit.through \in -1 .. MaxBlock, audit.head \in Blocks,
           audit.through < audit.head
    PROVE  AuditEnd \in audit.through + 1 .. audit.head
<1> DEFINE near == audit.through + AuditBlocks
           epochEnd == EpochOf(audit.through + 1) + EpochBlocks - 1
<1>1. /\ audit.through + 1 \in Nat /\ audit.head \in Nat
      /\ audit.through + 1 <= audit.head /\ near \in Nat /\ audit.through + 1 <= near
  BY Numbers
<1>2. epochEnd \in Nat /\ audit.through + 1 <= epochEnd
  <2> DEFINE at == EpochOf(audit.through + 1)
  <2>1. at \in Nat /\ audit.through + 1 <= at + EpochBlocks - 1
    BY <1>1, EpochBounds
  <2> HIDE DEF at
  <2>2. at + EpochBlocks - 1 \in Nat
    BY <2>1, Numbers
  <2>3. QED  BY <2>1, <2>2 DEF at
<1>3. AuditEnd = Least({audit.head, near, epochEnd})
  BY DEF AuditEnd
<1> HIDE DEF near, epochEnd
<1>4. {audit.head, near, epochEnd} \in SUBSET Nat
  BY <1>1, <1>2
<1>5. AuditEnd \in {audit.head, near, epochEnd} /\ AuditEnd <= audit.head
  BY <1>3, <1>4, LeastIs
<1>6. QED  BY <1>1, <1>2, <1>5

LEMMA GetLogsInv == ASSUME IInv, NEW answer \in SUBSET LogBlocks, GetLogs(answer) PROVE IInv'
<1> DEFINE end == AuditEnd
<1>1. /\ audit.pc = "answering" /\ answer \subseteq audit.through + 1 .. end
      /\ audit' = [audit EXCEPT !.pc = "storing", !.end = end,
                                !.answer = answer, !.todo = answer]
      /\ UNCHANGED <<ev, proof, epochs, health, active, reader, critical, answered>>
  BY DEF GetLogs, At
<1>2. /\ audit \in Audit /\ audit.through \in -1 .. MaxBlock /\ audit.head \in Blocks
      /\ audit.through < audit.head
  BY <1>1 DEF IInv, TypeOK, Audit, Places, AuditInv, AuditOK
<1>3. end \in audit.through + 1 .. audit.head
  BY <1>2, AuditEndOK
<1> HIDE DEF end
<1>4. end \in {-1, Unset} \cup Blocks /\ end \in audit.through .. audit.head
      /\ answer \subseteq Blocks
  BY <1>2, <1>3, Numbers
<1>5. /\ audit' \in Audit /\ audit'.pc = "storing" /\ audit'.end = end
      /\ audit'.answer = answer /\ audit'.todo = answer
      /\ audit'.conn = audit.conn /\ audit'.http = audit.http /\ audit'.head = audit.head
      /\ audit'.started = audit.started /\ audit'.through = audit.through
  BY <1>1, <1>2, <1>4 DEF Audit, Places
<1>6. TypeOK'
  BY <1>1, <1>5 DEF IInv, TypeOK, Audit, Places
<1>7. SessionInv'
  BY <1>1, <1>5, FewerSessions DEF IInv, SessionInv, LiveIsOfThisSession
<1>8. AuditOK'
  BY <1>1, <1>4, <1>5 DEF IInv, AuditInv, AuditOK
<1>9. AnswerOK' /\ ReadOK'
  BY <1>5 DEF AnswerOK, ReadOK
<1>10. QED  BY <1>1, <1>6, <1>7, <1>8, <1>9, DataFrame DEF IInv, AuditInv

\* A failed audit keeps the watermark and gives the verdict up.
LEMMA AuditFailsInv == ASSUME IInv, AuditFails PROVE IInv'
<1> DEFINE head == IF proof.head = Unset THEN audit.head ELSE proof.head
<1>1. /\ audit.pc \in {"asking", "answering", "storing", "failing"}
      /\ proof' = [proof EXCEPT !.status = "blocked", !.retry = TRUE, !.head = head,
                                !.ws = audit.conn.ws, !.http = audit.http]
      /\ audit' = Fresh("read", audit.conn)
      /\ UNCHANGED <<ev, epochs, health, active, reader, critical, answered>>
  BY DEF AuditFails, GoesToRead, Fresh, IInv, TypeOK, Proof
<1>2. /\ proof \in Proof /\ audit.conn \in Session \ {None}
      /\ audit.http \in HttpProviders \cup {None} /\ audit.head \in Blocks \cup {Unset}
  BY <1>1 DEF IInv, TypeOK, AuditInv, AuditOK
<1>3. head \in Blocks \cup {Unset} /\ audit.conn.ws \in Providers \cup {None}
      /\ audit.http \in Providers \cup {None}
  BY <1>2 DEF Proof, Session, Providers
<1> HIDE DEF head
<1>4. /\ proof' \in Proof /\ proof'.status = "blocked" /\ proof'.started = proof.started
      /\ proof'.through = proof.through
  BY <1>1, <1>2, <1>3 DEF Proof
<1>5. audit' \in Audit /\ audit'.pc = "read" /\ audit'.conn = audit.conn
  BY <1>1, <1>2, FreshOK DEF Places
<1>6. TypeOK'
  BY <1>1, <1>4, <1>5 DEF IInv, TypeOK, Audit, Places
<1>7. SessionInv'
  BY <1>1, <1>5, FewerSessions DEF IInv, SessionInv, LiveIsOfThisSession
<1>8. DataInv'
  BY <1>1, <1>4 DEF IInv, DataInv, ProofOK, TilesOK, CoverageIsAttested
<1>9. AuditInv'
  BY <1>2, <1>4, <1>5 DEF AuditInv, AuditOK, AnswerOK, ReadOK
<1>10. QED  BY <1>6, <1>7, <1>8, <1>9 DEF IInv

-----------------------------------------------------------------------------
(* The proof transaction.                                                  *)

\* The epoch of a segment continues the one that ends just before it, or opens
\* behind all the others.
LEMMA WithSegmentOK ==
    ASSUME Ordered(epochs), Covers(epochs, audit.started, audit.through), Contiguous,
           audit.started \in Blocks, audit.through \in -1 .. MaxBlock,
           audit.started <= audit.through + 1,
           audit.end \in Blocks \cup {-1}, audit.through <= audit.end
    PROVE  Ordered(WithSegment) /\ Covers(WithSegment, audit.started, audit.end)
<1> DEFINE next == audit.through + 1
           at == EpochOf(next)
           old == {e \in epochs : e.at = at}
           from == IF old = {} THEN next ELSE Least({e.from : e \in old})
           new == [at |-> at, from |-> from, to |-> audit.end]
<1>1. /\ audit.started \in Int /\ audit.through \in Int /\ audit.end \in Int
      /\ next \in Nat /\ audit.end <= MaxBlock
  BY Numbers
<1>2. CASE Segment = {}
  <2>1. audit.end = audit.through
    BY <1>1, <1>2 DEF Segment
  <2>2. QED  BY <1>2, <2>1 DEF WithSegment
<1>3. CASE Segment # {}
  <2>1. next <= audit.end /\ next \in Blocks /\ audit.end \in Blocks
    BY <1>1, <1>3, Numbers DEF Segment
  <2>2. WithSegment = (epochs \ old) \cup {new}
    BY <1>3 DEF WithSegment
  <2>3. \A e \in epochs :
           /\ e.at \in Nat /\ e.from \in Nat /\ e.to \in Nat /\ e \in Segments
           /\ e.from <= e.to /\ e.at = EpochOf(e.from)
    BY Numbers DEF Ordered, Segments
  <2>4. \A b : (\E e \in epochs : b \in e.from .. e.to)
                <=> b \in audit.started .. audit.through
    BY DEF Covers
  <2>5. \A e \in epochs : e.to < next /\ e.from < next
    BY <1>1, <2>3, <2>4
  <2>6. \A e \in old : e.to = audit.through
    BY <1>3 DEF Contiguous
  <2>7. at \in Nat /\ at \in Blocks
    <3> HIDE DEF next
    <3>1. at \in Nat /\ at <= next
      BY <1>1, EpochBounds
    <3> HIDE DEF at
    <3>2. QED  BY <1>1, <2>1, <3>1, Numbers
  <2>8. CASE old = {}
    <3>1. from = next
      BY <2>8
    <3> HIDE DEF at, new, from
    <3>2. new \in Segments /\ new.at = at /\ new.from = next /\ new.to = audit.end
      BY <2>1, <2>7, <3>1 DEF Segments, new
    <3>3. at = EpochOf(next)
      BY DEF at
    <3>4. \A e \in epochs : e.at < at
      <4>1. ASSUME NEW e \in epochs PROVE e.at < at
        <5>1. e.at <= at
          BY <1>1, <2>3, <2>5, <3>3, EpochsInOrder
        <5>2. e.at # at
          BY <2>8
        <5>3. QED  BY <2>3, <2>7, <5>1, <5>2
      <4>2. QED  BY <4>1
    <3>5. WithSegment = epochs \cup {new}
      BY <2>2, <2>8
    <3>6. Ordered(WithSegment)
      <4>1. IsFiniteSet(WithSegment) /\ WithSegment \subseteq Segments
        BY <3>2, <3>5, FS_AddElement DEF Ordered
      <4>2. \A e \in WithSegment : e.at = EpochOf(e.from) /\ e.from <= e.to
        BY <2>1, <2>3, <3>2, <3>3, <3>5
      <4>3. \A e, f \in WithSegment : /\ e.at = f.at => e = f
                                      /\ e.at < f.at => e.to < f.from
        <5>1. ASSUME NEW e \in WithSegment, NEW f \in WithSegment
              PROVE  (e.at = f.at => e = f) /\ (e.at < f.at => e.to < f.from)
          <6>1. CASE e \in epochs /\ f \in epochs
            BY <6>1 DEF Ordered
          <6>2. CASE e \in epochs /\ f = new
            BY <2>3, <2>5, <2>7, <3>2, <3>4, <6>2
          <6>3. CASE e = new /\ f \in epochs
            BY <2>3, <2>7, <3>2, <3>4, <6>3
          <6>4. CASE e = new /\ f = new
            BY <2>7, <3>2, <6>4
          <6>5. QED  BY <3>5, <6>1, <6>2, <6>3, <6>4
        <5>2. QED  BY <5>1
      <4>4. QED  BY <4>1, <4>2, <4>3 DEF Ordered
    <3>7. \A b : (\E e \in WithSegment : b \in e.from .. e.to)
                 <=> b \in audit.started .. audit.end
      <4>1. \A b : (\E e \in WithSegment : b \in e.from .. e.to)
                   <=> b \in audit.started .. audit.through \/ b \in next .. audit.end
        BY <2>4, <3>2, <3>5
      <4>2. \A b : b \in audit.started .. audit.through \/ b \in next .. audit.end
                   <=> b \in audit.started .. audit.end
        BY <1>1, <2>1
      <4>3. QED  BY <4>1, <4>2
    <3>8. QED  BY <3>6, <3>7 DEF Covers
  <2>9. CASE old # {}
    <3>1. PICK o \in old : TRUE
      BY <2>9
    <3>2. o \in epochs /\ o.at = at /\ o.to = audit.through /\ old = {o}
      BY <2>6, <3>1 DEF Ordered
    <3>3. from = o.from
      <4>1. {e.from : e \in old} = {o.from}
        BY <3>2
      <4>2. {o.from} \in SUBSET Nat
        BY <2>3, <3>2
      <4>3. QED  BY <2>9, <4>1, <4>2, LeastIs
    <3> HIDE DEF at, new, from, old
    <3>4. new \in Segments /\ new.at = at /\ new.from = o.from /\ new.to = audit.end
      BY <2>1, <2>3, <2>7, <3>2, <3>3 DEF Segments, new
    <3>5. WithSegment = (epochs \ {o}) \cup {new}
      BY <2>2, <3>2
    <3>6. \A e \in epochs \ {o} : e.at < at /\ e.to < o.from
      <4>1. ASSUME NEW e \in epochs \ {o} PROVE e.at < at /\ e.to < o.from
        <5>1. e.at <= at
          BY <1>1, <2>3, <2>5, EpochsInOrder DEF at
        <5>2. e.at # at
          BY <3>2 DEF Ordered
        <5>3. e.at < at
          BY <2>3, <2>7, <5>1, <5>2
        <5>4. QED  BY <3>2, <5>3 DEF Ordered
      <4>2. QED  BY <4>1
    <3>7. Ordered(WithSegment)
      <4>1. IsFiniteSet(epochs \ {o})
        BY FS_Subset DEF Ordered
      <4>2. IsFiniteSet(WithSegment) /\ WithSegment \subseteq Segments
        BY <2>3, <3>4, <3>5, <4>1, FS_AddElement
      <4>3. o.from <= audit.end
        BY <1>1, <2>1, <2>3, <2>5, <3>2
      <4>4. \A e \in WithSegment : e.at = EpochOf(e.from) /\ e.from <= e.to
        BY <2>3, <3>2, <3>4, <3>5, <4>3
      <4>5. \A e, f \in WithSegment : /\ e.at = f.at => e = f
                                      /\ e.at < f.at => e.to < f.from
        <5>1. ASSUME NEW e \in WithSegment, NEW f \in WithSegment
              PROVE  (e.at = f.at => e = f) /\ (e.at < f.at => e.to < f.from)
          <6>1. CASE e \in epochs \ {o} /\ f \in epochs \ {o}
            BY <6>1 DEF Ordered
          <6>2. CASE e \in epochs \ {o} /\ f = new
            BY <2>3, <2>7, <3>4, <3>6, <6>2
          <6>3. CASE e = new /\ f \in epochs \ {o}
            BY <2>3, <2>7, <3>4, <3>6, <6>3
          <6>4. CASE e = new /\ f = new
            BY <2>7, <3>4, <6>4
          <6>5. QED  BY <3>5, <6>1, <6>2, <6>3, <6>4
        <5>2. QED  BY <5>1
      <4>6. QED  BY <4>2, <4>4, <4>5 DEF Ordered
    <3>8. \A b : (\E e \in WithSegment : b \in e.from .. e.to)
                 <=> b \in audit.started .. audit.end
      <4>1. o.from \in Nat /\ o.from <= audit.through
        BY <2>3, <3>2
      <4>2. ASSUME NEW b
            PROVE  b \in o.from .. audit.end
                      <=> b \in o.from .. o.to \/ b \in next .. audit.end
        BY <1>1, <2>1, <3>2, <4>1
      <4>3. \A b : (\E e \in WithSegment : b \in e.from .. e.to)
                   <=> (\E e \in epochs : b \in e.from .. e.to) \/ b \in next .. audit.end
        BY <3>2, <3>4, <3>5, <4>2
      <4>4. \A b : b \in audit.started .. audit.through \/ b \in next .. audit.end
                   <=> b \in audit.started .. audit.end
        BY <1>1, <2>1
      <4>5. QED  BY <2>4, <4>3, <4>4
    <3>9. QED  BY <3>7, <3>8 DEF Covers
  <2>10. QED  BY <2>8, <2>9
<1>4. QED  BY <1>2, <1>3

\* What the transaction keeps: the newest epochs, up to the end of the audit.
LEMMA KeptOK ==
    ASSUME NEW E, Ordered(E), NEW first \in Blocks, NEW end \in Int,
           first <= end + 1, Covers(E, first, end), NEW K, K = Pruned(E),
           K = {} => end < first,
           \A e \in K : Least({f.from : f \in K}) <= end,
           first = audit.started
    PROVE  /\ Ordered(K) /\ Covers(K, StartAfter(K), end)
           /\ StartAfter(K) \in Blocks /\ first <= StartAfter(K) /\ StartAfter(K) <= end + 1
<1>1. first \in Nat /\ first \in Int
  BY Numbers
<1>2. Ordered(K)
  BY PartOrdered DEF Pruned
<1>3. CASE K = {}
  <2>1. StartAfter(K) = first /\ end = first - 1
    BY <1>1, <1>3 DEF StartAfter
  <2>2. Covers(K, first, end)
    BY <1>1, <1>3, <2>1, NoEpochs
  <2>3. QED  BY <1>1, <1>2, <2>1, <2>2
<1>4. CASE K # {}
  <2> DEFINE least == Least({f.from : f \in K})
  <2>1. least \in Blocks /\ first <= least /\ Covers(K, least, end)
    BY <1>1, <1>4, PrunedCovers
  <2>2. least <= end
    BY <1>4
  <2>3. StartAfter(K) = Max({first, least})
    BY <1>4 DEF StartAfter
  <2> HIDE DEF least
  <2>4. least \in Int
    BY <2>1, Numbers
  <2>5. StartAfter(K) = least
    BY <1>1, <2>1, <2>3, <2>4, MaxOfTwo
  <2>6. QED  BY <1>2, <2>1, <2>2, <2>4, <2>5
<1>5. QED  BY <1>3, <1>4

\* The transaction extends the proof by what its audit was told and stored.
LEMMA CommitInv == ASSUME IInv, Commit PROVE IInv'
<1> DEFINE kept == Pruned(WithSegment)
           start == StartAfter(kept)
<1>1. /\ audit.pc = "storing" /\ audit.todo = {} /\ Reconciles(Segment, audit.answer)
      /\ proof.started = audit.started /\ proof.through = audit.through /\ Contiguous
      /\ kept = {} => audit.end < audit.started
      /\ \A e \in kept : Least({f.from : f \in kept}) <= audit.end
      /\ epochs' = kept
      /\ proof' = [status |-> IF audit.end = audit.head THEN "verified" ELSE "catching_up",
                   started |-> start, through |-> audit.end, head |-> audit.head,
                   ws |-> audit.conn.ws, http |-> audit.http, retry |-> FALSE]
      /\ answered' = [b \in Blocks |-> IF b \notin Segment THEN answered[b]
                        ELSE IF b \in audit.answer THEN "log" ELSE "empty"]
      /\ audit' = Fresh("read", audit.conn)
      /\ UNCHANGED <<ev, health, active, reader, critical>>
  BY DEF Commit, At, GoesToRead, Fresh
<1>2. /\ audit \in Audit /\ audit.conn \in Session \ {None}
      /\ audit.http \in HttpProviders /\ audit.http # audit.conn.ws
      /\ audit.head \in Blocks /\ audit.started \in Blocks
      /\ audit.through \in -1 .. MaxBlock /\ audit.started <= audit.through + 1
      /\ audit.end \in audit.through .. audit.head
      /\ audit.answer \subseteq audit.through + 1 .. audit.end
      /\ \A b \in audit.answer : ev[b] \in {"complete", "removed"}
  BY <1>1 DEF IInv, TypeOK, Audit, Places, AuditInv, AuditOK, AnswerOK
<1>3. /\ audit.through \in Int /\ audit.end \in Int /\ audit.started \in Int
      /\ audit.through <= audit.end /\ audit.end \in Blocks \cup {-1}
      /\ audit.started <= audit.end + 1 /\ audit.started # Unset
  BY <1>2, Numbers
<1>4. Ordered(epochs) /\ Covers(epochs, audit.started, audit.through)
  BY <1>1, <1>3 DEF IInv, DataInv, TilesOK
<1>5. Ordered(WithSegment) /\ Covers(WithSegment, audit.started, audit.end)
  BY <1>1, <1>2, <1>3, <1>4, WithSegmentOK
<1>6. /\ Ordered(kept) /\ Covers(kept, start, audit.end)
      /\ start \in Blocks /\ audit.started <= start /\ start <= audit.end + 1
  BY <1>1, <1>2, <1>3, <1>5, KeptOK
<1> HIDE DEF kept, start
<1>7. /\ proof' \in Proof /\ proof'.started = start /\ proof'.through = audit.end
      /\ proof'.ws = audit.conn.ws /\ proof'.http = audit.http /\ ~proof'.retry
      /\ start # Unset /\ audit.end # Unset /\ audit.conn.ws \in Providers
  BY <1>1, <1>2, <1>3, <1>6, Numbers DEF Proof, Session, Providers
<1>8. audit' \in Audit /\ audit'.pc = "read" /\ audit'.conn = audit.conn
  BY <1>1, <1>2, FreshOK DEF Places
<1>9. TypeOK'
  <2>1. answered' \in [Blocks -> {"never", "log", "empty"}]
    BY <1>1 DEF IInv, TypeOK
  <2>2. epochs' \subseteq Segments
    BY <1>1, <1>6 DEF Ordered
  <2>3. QED  BY <1>1, <1>7, <1>8, <2>1, <2>2 DEF IInv, TypeOK, Audit, Places
<1>10. SessionInv'
  BY <1>1, <1>8, FewerSessions DEF IInv, SessionInv, LiveIsOfThisSession
<1>11. ProofOK'
  BY <1>2, <1>6, <1>7 DEF ProofOK
<1>12. TilesOK'
  BY <1>1, <1>6, <1>7 DEF TilesOK
<1>13. CoverageIsAttested'
  <2> SUFFICES ASSUME NEW b \in start .. audit.end
               PROVE  IF answered'[b] = "log" THEN ev[b] = "complete"
                      ELSE answered'[b] = "empty" /\ ev[b] \in {"absent", "removed"}
    BY <1>1, <1>7 DEF CoverageIsAttested
  <2>1. start \in Int /\ b \in Blocks /\ b \in Int /\ audit.started <= b
    BY <1>2, <1>3, <1>6, Numbers
  <2>2. CASE b \in Segment
    <3>1. ev[b] \in {"absent", "partial", "complete", "removed"}
      BY <2>1 DEF IInv, TypeOK
    <3>2. /\ ev[b] \in {"partial", "complete"} => b \in audit.answer
          /\ ev[b] = "removed" => b \notin audit.answer
      BY <1>1, <2>2 DEF Reconciles
    <3>3. answered'[b] = IF b \in audit.answer THEN "log" ELSE "empty"
      BY <1>1, <2>1, <2>2
    <3>4. QED  BY <1>2, <3>1, <3>2, <3>3
  <2>3. CASE b \notin Segment
    <3>1. b \in proof.started .. proof.through
      BY <1>1, <1>3, <2>1, <2>3 DEF Segment
    <3>2. answered'[b] = answered[b]
      BY <1>1, <2>1, <2>3
    <3>3. QED  BY <1>1, <1>3, <3>1, <3>2 DEF IInv, DataInv, CoverageIsAttested
  <2>4. QED  BY <2>2, <2>3
<1>14. AuditInv'
  BY <1>2, <1>7, <1>8 DEF AuditInv, AuditOK, AnswerOK, ReadOK
<1>15. QED  BY <1>9, <1>10, <1>11, <1>12, <1>13, <1>14 DEF IInv, DataInv

-----------------------------------------------------------------------------
(* The theorems.                                                           *)

LEMMA StepInv == IInv /\ [Next]_vars => IInv'
<1> SUFFICES ASSUME IInv, [Next]_vars PROVE IInv'
  OBVIOUS
<1>1. CASE ReaderNext
  BY <1>1, ReaderSteps, PublishInv, PersistInv DEF ReaderNext
<1>2. CASE AuditNext
  BY <1>2, MaintenanceMoves, ReadHeadInv, GetLogsInv, StoreAnswerInv, CommitInv,
     AuditFailsInv, ReportsInv, OtherSteps DEF AuditNext
<1>3. CASE DiskChanges \/ RetryDue \/ Crash \/ UNCHANGED vars
  BY <1>3, OtherSteps
<1>4. QED  BY <1>1, <1>2, <1>3 DEF Next

LEMMA Invariant == Spec => []IInv
<1>1. QED  BY InitInv, StepInv, PTL DEF Spec

\* Every row, message and local of the lane keeps its type, whatever is
\* reorganised, reconnected or killed.
THEOREM CoverageTypeCorrect == Spec => []TypeOK
<1>1. IInv => TypeOK
  BY DEF IInv
<1>2. QED  BY <1>1, Invariant, PTL

\* A live health row beside a published session was earned by that session:
\* the generation check under the lock is enough for any audit, however late.
THEOREM LiveSession == Spec => []LiveIsOfThisSession
<1>1. IInv => LiveIsOfThisSession
  BY DEF IInv, SessionInv
<1>2. QED  BY <1>1, Invariant, PTL

\* Readiness beside a running session rests on a provider other than the one
\* that session listens to.
THEOREM ReadyIndependent == Spec => []ReadyIsIndependent
<1>1. IInv => ReadyIsIndependent
  BY DEF IInv, SessionInv, LiveIsOfThisSession, DataInv, ProofOK, ReadyIsIndependent, Ready
<1>2. QED  BY <1>1, Invariant, PTL

\* What the proof row covers is what an audit was told and what is stored.
THEOREM Attested == Spec => []CoverageIsAttested
<1>1. IInv => CoverageIsAttested
  BY DEF IInv, DataInv
<1>2. QED  BY <1>1, Invariant, PTL

\* The retained epochs tile the covered range, for every size of epoch and
\* every retention.
THEOREM EpochsTiled == Spec => []EpochsTile
<1>1. IInv => EpochsTile
  BY DEF IInv, DataInv, TilesOK, Covers, EpochsTile
<1>2. QED  BY <1>1, Invariant, PTL

\* One step of the watermark and of the public start.
Retraction == /\ proof'.through < proof.through => ev' # ev
              /\ proof'.started >= proof.started

\* A step that leaves the boundary where it is moves nothing back.
LEMMA RestRetracts ==
    ASSUME IInv, proof'.through = proof.through, proof'.started = proof.started
    PROVE  Retraction
<1>1. proof.started \in Int /\ proof.through \in Int
  BY Numbers DEF IInv, TypeOK, Proof
<1>2. QED  BY <1>1 DEF Retraction

\* A changed log is seen as a change of evidence.
LEMMA StoreRetracts ==
    ASSUME IInv, NEW b \in Blocks,
           StoreLog(b, "complete") \/ StoreLog(b, "partial") \/ RemoveLog(b)
    PROVE  Retraction
<1>1. proof \in Proof /\ ev \in [Blocks -> {"absent", "partial", "complete", "removed"}]
  BY DEF IInv, TypeOK
<1>2. proof.started \in Int /\ proof.through \in Int
  BY <1>1, Numbers DEF Proof
<1>3. UNCHANGED proof \/ (ev' # ev /\ proof'.started = proof.started)
  <2>1. CASE StoreLog(b, "complete")
    BY <1>1, <2>1 DEF StoreLog, AfterChange, Proof
  <2>2. CASE StoreLog(b, "partial")
    <3>1. CASE ev[b] = "absent"
      BY <1>1, <2>2, <3>1 DEF StoreLog, AfterChange, Proof
    <3>2. CASE ev[b] # "absent"
      BY <1>1, <2>2, <3>2 DEF StoreLog
    <3>3. QED  BY <3>1, <3>2
  <2>3. CASE RemoveLog(b)
    BY <1>1, <2>3 DEF RemoveLog, AfterChange, Proof
  <2>4. QED  BY <2>1, <2>2, <2>3
<1>4. QED  BY <1>2, <1>3 DEF Retraction

\* The transaction extends the range it was read from.
LEMMA CommitRetracts == ASSUME IInv, Commit PROVE Retraction
<1> DEFINE kept == Pruned(WithSegment)
<1>1. /\ audit.pc = "storing" /\ proof.started = audit.started
      /\ proof.through = audit.through /\ Contiguous
      /\ kept = {} => audit.end < audit.started
      /\ \A e \in kept : Least({f.from : f \in kept}) <= audit.end
      /\ proof'.started = StartAfter(kept) /\ proof'.through = audit.end
  BY DEF Commit, At
<1>2. /\ audit.head \in Blocks /\ audit.started \in Blocks
      /\ audit.through \in -1 .. MaxBlock /\ audit.started <= audit.through + 1
      /\ audit.end \in audit.through .. audit.head
  BY <1>1 DEF IInv, AuditInv, AuditOK
<1>3. /\ audit.through \in Int /\ audit.end \in Int /\ audit.started \in Int
      /\ audit.through <= audit.end /\ audit.end \in Blocks \cup {-1}
      /\ audit.started <= audit.end + 1 /\ audit.started # Unset
  BY <1>2, Numbers
<1>4. Ordered(epochs) /\ Covers(epochs, audit.started, audit.through)
  BY <1>1, <1>3 DEF IInv, DataInv, TilesOK
<1>5. Ordered(WithSegment) /\ Covers(WithSegment, audit.started, audit.end)
  BY <1>1, <1>2, <1>3, <1>4, WithSegmentOK
<1>6. StartAfter(kept) \in Blocks /\ audit.started <= StartAfter(kept)
  BY <1>1, <1>2, <1>3, <1>5, KeptOK
<1> HIDE DEF kept
<1>7. QED  BY <1>1, <1>3, <1>6, Numbers DEF Retraction

\* The first boundary lies above no boundary at all.
LEMMA FreezeRetracts ==
    ASSUME IInv, NEW p \in HttpProviders, NEW head \in Blocks, ReadHead(p, head)
    PROVE  Retraction
<1>1. proof \in Proof /\ ProofOK /\ proof' = Frozen(p, head)
  BY DEF IInv, TypeOK, DataInv, ReadHead
<1>2. proof.started \in Int /\ proof.through \in Int
  BY <1>1, Numbers DEF Proof
<1>3. CASE proof.started # Unset
  BY <1>1, <1>2, <1>3 DEF Frozen, Retraction
<1>4. CASE proof.started = Unset
  <2>1. proof.through = Unset
    BY <1>1, <1>4 DEF ProofOK
  <2>2. FirstBlock(head) \in Int /\ FirstBlock(head) >= 0
    BY FirstBlockOK, Numbers
  <2>3. proof'.started = FirstBlock(head) /\ proof'.through = FirstBlock(head) - 1
    BY <1>1, <1>4 DEF Frozen
  <2>4. QED  BY <1>4, <2>1, <2>2, <2>3, Numbers DEF Retraction
<1>5. QED  BY <1>3, <1>4

\* The watermark only moves back when stored evidence changed in that step;
\* the public start never moves back.
THEOREM Retracts == Spec => RetractsForEvidence
<1>1. ASSUME IInv, [Next]_vars PROVE [Retraction]_vars
  <2>1. CASE \E b \in LogBlocks : Persist(b)
    BY <1>1, <2>1, StoreRetracts, Numbers DEF Persist
  <2>2. CASE \E state \in {"complete", "partial"} : StoreAnswer(state)
    <3>1. PICK state \in {"complete", "partial"} : StoreAnswer(state)
      BY <2>2
    <3>2. Least(audit.todo) \in Blocks
      <4>1. audit.todo \in SUBSET Blocks /\ audit.todo # {}
        BY <1>1, <3>1 DEF IInv, TypeOK, StoreAnswer
      <4>2. QED  BY <4>1, LeastIs, Numbers
    <3>3. CASE StoreLog(Least(audit.todo), state)
      BY <1>1, <3>2, <3>3, StoreRetracts
    <3>4. CASE UNCHANGED proof
      BY <1>1, <3>4, RestRetracts
    <3>5. QED  BY <3>1, <3>3, <3>4 DEF StoreAnswer
  <2>3. CASE Commit
    BY <1>1, <2>3, CommitRetracts
  <2>4. CASE \E p \in HttpProviders, head \in Blocks : ReadHead(p, head)
    BY <1>1, <2>4, FreezeRetracts
  <2>5. CASE AuditFails \/ RetryDue
    <3>1. proof \in Proof
      BY <1>1 DEF IInv, TypeOK
    <3>2. proof'.through = proof.through /\ proof'.started = proof.started
      BY <2>5, <3>1 DEF AuditFails, RetryDue, Proof
    <3>3. QED  BY <1>1, <3>2, RestRetracts
  <2>6. CASE UNCHANGED proof
    BY <1>1, <2>6, RestRetracts
  <2>7. QED
    BY <1>1, <2>1, <2>2, <2>3, <2>4, <2>5, <2>6
    DEF Next, ReaderNext, AuditNext, vars, Dial, DialRefused, DialFails, Close, Publish,
        Shed, TakeSession, BackOff, Begin, GetLogs, ReadBack, Report, MaintenanceFails,
        HandlerReports, DiskChanges, Crash
<1>2. IInv /\ [Next]_vars =>
         [/\ proof'.through < proof.through => ev' # ev
          /\ proof'.started >= proof.started]_vars
  BY <1>1 DEF Retraction
<1>3. QED  BY <1>2, InitInv, StepInv, PTL DEF Spec, RetractsForEvidence
=============================================================================
