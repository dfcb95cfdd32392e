---------------------------- MODULE EvmCoverage ----------------------------
(***************************************************************************)
(* The finalized-coverage proof of one EVM factory lane                    *)
(* (evm_factory_stream.py).  Two threads share it: the reader dials a      *)
(* websocket, publishes its generation and stores the logs it hears; the   *)
(* maintenance thread takes the published session and audits finalized     *)
(* blocks over an independent HTTP provider.  The proof and the logs are   *)
(* one SQLite file, the health row that readers trust is another, and the  *)
(* published session lives in memory under a lock.                         *)
(***************************************************************************)
EXTENDS Integers, FiniteSets, FiniteSetsExt

CONSTANTS
    MaxBlock,              \* the highest block of the instance
    LogBlocks,             \* the blocks that may hold a log of the factory
    Generations,           \* fresh uuids of websocket sessions
    WsProviders,           \* operators of the configured websocket endpoints
    HttpProviders,         \* operators of the configured HTTP endpoints
    Lookback,              \* INITIAL_COVERAGE_LOOKBACK_BLOCKS
    AuditBlocks,           \* MAX_COVERAGE_BLOCKS
    EpochBlocks,           \* COVERAGE_EPOCH_BLOCKS
    Retention,             \* COVERAGE_EPOCH_RETENTION
    None                   \* no provider, no session, no proof

Blocks == 0 .. MaxBlock
Unset == -2
Providers == WsProviders \cup HttpProviders

ASSUME CoverageAssumption ==
    /\ MaxBlock \in Nat /\ LogBlocks \subseteq Blocks
    /\ None \notin Providers \cup Generations
    /\ Lookback \in Nat \ {0} /\ AuditBlocks \in Nat \ {0}
    /\ EpochBlocks \in Nat \ {0} /\ Retention \in Nat \ {0}

VARIABLES
    ev,                    \* row of each block's factory log, or "absent"
    proof,                 \* the coverage_state row
    epochs,                \* the coverage_epochs rows
    health,                \* the coverage worker's row in streams
    active,                \* _ACTIVE_WS_PROVIDERS[key]
    reader,                \* where the reader stands, and its own session
    audit,                 \* where maintenance stands, and what it read
    critical,              \* the disk guard's verdict
    answered               \* history: what the last audit of a block said

vars == <<ev, proof, epochs, health, active, reader, audit, critical, answered>>

\* A session is a provider and a generation.
Session == [ws: WsProviders, gen: Generations]
Proof == [status: {"missing", "catching_up", "verified", "blocked"},
          started: Blocks \cup {Unset}, through: {-1, Unset} \cup Blocks,
          head: Blocks \cup {Unset}, ws: Providers \cup {None},
          http: Providers \cup {None}, retry: BOOLEAN]
NoProof == [status |-> "missing", started |-> Unset, through |-> Unset,
            head |-> Unset, ws |-> None, http |-> None, retry |-> FALSE]
Idle == [pc |-> "idle", conn |-> None, http |-> None, head |-> Unset,
         started |-> Unset, through |-> Unset, end |-> Unset,
         answer |-> {}, todo |-> {}, view |-> NoProof]
Down == [pc |-> "down", conn |-> None]

Init ==
    /\ ev = [b \in Blocks |-> "absent"]
    /\ proof = NoProof
    /\ epochs = {}
    /\ health = [status |-> "absent", gen |-> None, view |-> NoProof]
    /\ active = None
    /\ reader = Down
    /\ audit = Idle
    /\ critical = FALSE
    /\ answered = [b \in Blocks |-> "never"]

-----------------------------------------------------------------------------
\* The health row.  A report may be refused by SQLite; the code then goes on.

\* report_worker: a full row, with the generation of the report or none.
Written(status, gen, view) ==
    health' = [status |-> status, gen |-> gen,
               view |-> IF status = "live" THEN view ELSE NoProof]

\* mark_disconnected keeps the details of the row, generation included.
MarkedDisconnected == health' = [health EXCEPT !.status = "disconnected"]

\* _revoke_ws_connection_coverage, once it has decided to revoke: a tombstone
\* without a generation, the smaller downgrade if that fails, or neither.
Revoke ==
    /\ Written("degraded", None, NoProof) \/ MarkedDisconnected \/ UNCHANGED health
    /\ active' = None

\* _write_coverage_health says live for a proof that has reached its head.
StatusOf(view) ==
    IF view.status = "verified" /\ view.through = view.head THEN "live" ELSE "degraded"

\* Mutant: the worker's own generation is taken for granted.
ReportAnyway(gen, view) == Written(StatusOf(view), gen, view) \/ UNCHANGED health

\* _report_coverage with a generation: the lock's check, then the row's.
ReportFor(gen, view) ==
    IF active # None /\ active.gen = gen /\ health.gen = gen
    THEN Written(StatusOf(view), gen, view) \/ UNCHANGED health
    ELSE UNCHANGED health

-----------------------------------------------------------------------------
\* The reader.

\* connect(): the disk guard first, then whatever was live is revoked.
Dial ==
    /\ reader.pc = "down" /\ ~critical
    /\ Revoke
    /\ reader' = [reader EXCEPT !.pc = "dialing"]
    /\ UNCHANGED <<ev, proof, epochs, audit, critical, answered>>

\* connect() under a critical disk: _disk_blocked_coverage revokes as well.
DialRefused ==
    /\ reader.pc \in {"down", "dialing"} /\ critical
    /\ Revoke
    /\ reader' = Down
    /\ UNCHANGED <<ev, proof, epochs, audit, critical, answered>>

DialFails ==
    /\ reader.pc = "dialing"
    /\ reader' = Down
    /\ UNCHANGED <<ev, proof, epochs, health, active, audit, critical, answered>>

\* A uuid nobody holds any more is as good as one never used.
InUse == {health.gen} \cup {c.gen : c \in {reader.conn, audit.conn, active} \ {None}}

\* _publish_active_ws_provider: the degraded row, then the session, in one
\* critical section.
Publish(p, gen) ==
    /\ reader.pc = "dialing" /\ ~critical
    /\ gen \notin InUse
    /\ LET c == [ws |-> p, gen |-> gen]
       IN  /\ Written("degraded", c.gen, NoProof)
           /\ active' = c
           /\ reader' = [pc |-> "up", conn |-> c]
    /\ UNCHANGED <<ev, proof, epochs, audit, critical, answered>>

\* close() or shutdown(): an exact match, so a late close spares a successor.
Close ==
    /\ reader.pc = "up"
    /\ IF active = reader.conn THEN Revoke ELSE UNCHANGED <<health, active>>
    /\ reader' = Down
    /\ UNCHANGED <<ev, proof, epochs, audit, critical, answered>>

\* Mutant: late evidence leaves the proof alone.
KeepsProof(b) == UNCHANGED <<proof, epochs>>

\* The coverage rows after evidence of block b changed (end of persist()).
AfterChange(b) ==
    IF proof.started # Unset /\ b \in proof.started .. proof.through
    THEN /\ proof' = [proof EXCEPT !.through = proof.started - 1,
                                   !.status = "blocked", !.retry = FALSE]
         /\ epochs' = {}
    ELSE UNCHANGED <<proof, epochs>>

\* persist() of a log: a first row, or a timestamp found for a partial one.
\* A removed identity that comes back raises and changes nothing.
StoreLog(b, state) ==
    /\ ev[b] \in {"absent", "partial"}
    /\ ev' = [ev EXCEPT ![b] = state]
    /\ IF ev[b] = "absent" THEN AfterChange(b) ELSE UNCHANGED <<proof, epochs>>

\* persist() of the removed flag of a reorganised log, known before or not.
RemoveLog(b) ==
    /\ ev[b] # "removed"
    /\ ev' = [ev EXCEPT ![b] = "removed"]
    /\ AfterChange(b)

\* A message of the socket, or a log that a gap repair of either thread loads.
Persist(b) ==
    /\ ~critical
    /\ reader.pc = "up" \/ audit.pc = "idle"
    /\ StoreLog(b, "complete") \/ StoreLog(b, "partial") \/ RemoveLog(b)
    /\ UNCHANGED <<health, active, reader, audit, critical, answered>>

-----------------------------------------------------------------------------
\* The maintenance thread.

At(pc) == audit.pc = pc
Goes(pc) == audit' = [audit EXCEPT !.pc = pc]
\* Reading back needs nothing of what was read before.
GoesToRead == audit' = [Idle EXCEPT !.pc = "read", !.conn = audit.conn]

\* A critical disk: the proof store is not opened, every live claim goes.
Shed ==
    /\ audit.pc \in {"idle", "guarding", "asking", "answering", "storing"}
    /\ critical
    /\ Revoke
    /\ audit' = Idle
    /\ UNCHANGED <<ev, proof, epochs, reader, critical, answered>>

TakeSession ==
    /\ At("idle") /\ active # None
    /\ audit' = [Idle EXCEPT !.pc = "guarding", !.conn = active]
    /\ UNCHANGED <<ev, proof, epochs, health, active, reader, critical, answered>>

\* Inside the back-off the stored proof is reported again.
BackOff ==
    /\ At("guarding") /\ ~critical /\ proof.retry
    /\ GoesToRead
    /\ UNCHANGED <<ev, proof, epochs, health, active, reader, critical, answered>>

Begin ==
    /\ At("guarding") /\ ~critical /\ ~proof.retry
    /\ Goes("asking")
    /\ UNCHANGED <<ev, proof, epochs, health, active, reader, critical, answered>>

EpochOf(b) == (b \div EpochBlocks) * EpochBlocks
\* Mutant: a chain shorter than the look-back.
UnboundedFirst(head) == head - Lookback + 1
FirstBlock(head) == Max({0, head - Lookback + 1})
Least(S) == Min(S)

\* Mutant: every head freezes its own boundary.
Refrozen(p, head) ==
    [status |-> "catching_up", started |-> FirstBlock(head),
     through |-> FirstBlock(head) - 1, head |-> head,
     ws |-> audit.conn.ws, http |-> p, retry |-> FALSE]

\* _freeze_coverage_boundary, when no boundary was frozen before.
Frozen(p, head) ==
    IF proof.started # Unset THEN proof
    ELSE [status |-> "catching_up", started |-> FirstBlock(head),
          through |-> FirstBlock(head) - 1, head |-> head,
          ws |-> audit.conn.ws, http |-> p, retry |-> FALSE]

\* Mutant: any provider may audit.
AnyProvider(p) == p \in HttpProviders

\* exclude_provider_ids, and the comparison after the call.
Independent(p) == p # audit.conn.ws

\* The finalized head of an independent provider, never behind the last one.
ReadHead(p, head) ==
    /\ At("asking") /\ ~critical
    /\ Independent(p)
    /\ proof.started # Unset => head >= proof.through /\ head >= proof.head
    /\ proof' = Frozen(p, head)
    /\ audit' = [audit EXCEPT !.pc = IF head = Frozen(p, head).through
                                     THEN "storing" ELSE "answering",
                    !.http = p, !.head = head,
                    !.started = Frozen(p, head).started,
                    !.through = Frozen(p, head).through,
                    !.end = Frozen(p, head).through]
    /\ UNCHANGED <<ev, epochs, health, active, reader, critical, answered>>

\* _reconcile_persisted_range: every live row is in the answer, no removed one.
Reconciles(range, answer) ==
    \A b \in range : /\ ev[b] \in {"partial", "complete"} => b \in answer
                     /\ ev[b] = "removed" => b \notin answer

AuditEnd ==
    Least({audit.head, audit.through + AuditBlocks,
           EpochOf(audit.through + 1) + EpochBlocks - 1})
Segment == audit.through + 1 .. audit.end

GetLogs(answer) ==
    /\ At("answering") /\ ~critical
    /\ answer \subseteq audit.through + 1 .. AuditEnd
    /\ Reconciles(audit.through + 1 .. AuditEnd, answer)
    /\ audit' = [audit EXCEPT !.pc = "storing", !.end = AuditEnd,
                              !.answer = answer, !.todo = answer]
    /\ UNCHANGED <<ev, proof, epochs, health, active, reader, critical, answered>>

\* Each log of the answer must reach a complete row, else the audit fails.
StoreAnswer(state) ==
    /\ At("storing") /\ ~critical /\ audit.todo # {}
    /\ LET b == Least(audit.todo)
       IN  /\ \/ StoreLog(b, state)
              \/ ev[b] = "complete" /\ state = "complete" /\ UNCHANGED <<ev, proof, epochs>>
           /\ audit' = [audit EXCEPT !.todo = @ \ {b},
                           !.pc = IF state = "complete" THEN "storing" ELSE "failing"]
    /\ UNCHANGED <<health, active, reader, critical, answered>>

\* The epoch row of this segment: a new one, or one that ends just before it.
WithSegment ==
    LET at == EpochOf(audit.through + 1)
        old == {e \in epochs : e.at = at}
        from == IF old = {} THEN audit.through + 1 ELSE Least({e.from : e \in old})
    IN  IF Segment = {} THEN epochs
        ELSE (epochs \ old) \cup {[at |-> at, from |-> from, to |-> audit.end]}
Contiguous ==
    Segment # {} => \A e \in epochs :
        e.at = EpochOf(audit.through + 1) => e.to = audit.through
Pruned(E) == {e \in E : Cardinality({f \in E : f.at > e.at}) < Retention}
\* Mutant: the start stays where it was when an epoch is pruned.
SameStart(E) == audit.started
StartAfter(E) ==
    IF E = {} THEN audit.started ELSE Max({audit.started, Least({e.from : e \in E})})

\* The proof transaction: reconcile again, nothing changed since it was read.
Commit ==
    /\ At("storing") /\ ~critical /\ audit.todo = {}
    /\ Reconciles(Segment, audit.answer)
    /\ proof.started = audit.started /\ proof.through = audit.through
    /\ Contiguous
    /\ LET kept == Pruned(WithSegment)
       IN  /\ kept = {} => audit.end < audit.started
           /\ \A e \in kept : Least({f.from : f \in kept}) <= audit.end
           /\ epochs' = kept
           /\ proof' = [status |-> IF audit.end = audit.head THEN "verified"
                                   ELSE "catching_up",
                        started |-> StartAfter(kept), through |-> audit.end,
                        head |-> audit.head, ws |-> audit.conn.ws,
                        http |-> audit.http, retry |-> FALSE]
    /\ answered' = [b \in Blocks |-> IF b \notin Segment THEN answered[b]
                        ELSE IF b \in audit.answer THEN "log" ELSE "empty"]
    /\ GoesToRead
    /\ UNCHANGED <<ev, health, active, reader, critical>>

\* Any step of the audit may raise: _coverage_failure keeps the watermark.
AuditFails ==
    /\ audit.pc \in {"asking", "answering", "storing", "failing"}
    /\ proof' = [proof EXCEPT !.status = "blocked", !.retry = TRUE,
                    !.head = IF @ = Unset THEN audit.head ELSE @,
                    !.ws = audit.conn.ws, !.http = audit.http]
    /\ GoesToRead
    /\ UNCHANGED <<ev, epochs, health, active, reader, critical, answered>>

ReadBack ==
    /\ At("read")
    /\ audit' = [audit EXCEPT !.pc = "report", !.view = proof]
    /\ UNCHANGED <<ev, proof, epochs, health, active, reader, critical, answered>>

Report ==
    /\ At("report")
    /\ ReportFor(audit.conn.gen, audit.view)
    /\ audit' = Idle
    /\ UNCHANGED <<ev, proof, epochs, active, reader, critical, answered>>

\* Anything that escapes lands in the loop's handler, which asks again which
\* session is active.
MaintenanceFails ==
    /\ audit.pc \notin {"report", "handler"}
    /\ audit' = [Idle EXCEPT !.pc = "handler", !.conn = active]
    /\ UNCHANGED <<ev, proof, epochs, health, active, reader, critical, answered>>

\* With no session it writes the row without looking at it.
HandlerReports ==
    /\ At("handler")
    /\ IF audit.conn = None
       THEN Written("degraded", None, NoProof) \/ UNCHANGED health
       ELSE ReportFor(audit.conn.gen, NoProof)
    /\ audit' = Idle
    /\ UNCHANGED <<ev, proof, epochs, active, reader, critical, answered>>

-----------------------------------------------------------------------------
\* The environment.

DiskChanges ==
    /\ critical' = ~critical
    /\ UNCHANGED <<ev, proof, epochs, health, active, reader, audit, answered>>

RetryDue ==
    /\ proof.retry
    /\ proof' = [proof EXCEPT !.retry = FALSE]
    /\ UNCHANGED <<ev, epochs, health, active, reader, audit, critical, answered>>

\* The process dies with both threads; launchd starts another.
Crash ==
    /\ active' = None /\ reader' = Down /\ audit' = Idle
    /\ UNCHANGED <<ev, proof, epochs, health, critical, answered>>

ReaderNext ==
    \/ Dial \/ DialRefused \/ DialFails \/ Close
    \/ \E p \in WsProviders, gen \in Generations : Publish(p, gen)
    \/ \E b \in LogBlocks : Persist(b)

AuditNext ==
    \/ Shed \/ TakeSession \/ BackOff \/ Begin
    \/ \E p \in HttpProviders, head \in Blocks : ReadHead(p, head)
    \/ \E answer \in SUBSET LogBlocks : GetLogs(answer)
    \/ \E state \in {"complete", "partial"} : StoreAnswer(state)
    \/ Commit \/ AuditFails
    \/ ReadBack \/ Report \/ MaintenanceFails \/ HandlerReports

Next == ReaderNext \/ AuditNext \/ DiskChanges \/ RetryDue \/ Crash

Spec == Init /\ [][Next]_vars

-----------------------------------------------------------------------------
\* Properties.

Segments == [at: Blocks, from: Blocks, to: Blocks]

\* Every row, message and local of the lane has its type.
TypeOK ==
    /\ ev \in [Blocks -> {"absent", "partial", "complete", "removed"}]
    /\ proof \in Proof
    /\ epochs \subseteq Segments
    /\ health \in [status: {"absent", "live", "degraded", "disconnected"},
                   gen: Generations \cup {None}, view: Proof]
    /\ active \in Session \cup {None}
    /\ reader \in [pc: {"down", "dialing", "up"}, conn: Session \cup {None}]
    /\ audit \in [pc: {"idle", "guarding", "asking", "answering", "storing",
                       "failing", "read", "report", "handler"},
                  conn: Session \cup {None}, http: HttpProviders \cup {None},
                  head: Blocks \cup {Unset}, started: Blocks \cup {Unset},
                  through: {-1, Unset} \cup Blocks, end: {-1, Unset} \cup Blocks,
                  answer: SUBSET Blocks, todo: SUBSET Blocks, view: Proof]
    /\ critical \in BOOLEAN
    /\ answered \in [Blocks -> {"never", "log", "empty"}]

\* A live claim never outlives its session in the presence of another: when
\* a session is published, a live row was earned by that very session, even
\* if the audit that earned it began before a reconnect.
LiveIsOfThisSession ==
    health.status = "live" /\ active # None =>
        /\ health.gen = active.gen
        /\ health.view.ws = active.ws

\* What evm_launch_bridge.configured_stream_health takes for verified
\* coverage, clocks aside.
Ready ==
    /\ proof.status = "verified" /\ proof.through = proof.head
    /\ health.status = "live" /\ health.view = proof

\* Readiness beside a running session rests on a provider other than the one
\* that session listens to.
ReadyIsIndependent ==
    Ready /\ active # None => proof.http # active.ws

\* Whatever the proof row covers is what an audit was told: complete rows
\* where it was shown a log, no live row where it was not.
CoverageIsAttested ==
    proof.started # Unset =>
        \A b \in proof.started .. proof.through :
            IF answered[b] = "log" THEN ev[b] = "complete"
            ELSE answered[b] = "empty" /\ ev[b] \in {"absent", "removed"}

\* The retained epochs tile the covered range: no hole that pruning, a reset
\* or a crash left between them, and none outside it.
EpochsTile ==
    proof.started # Unset =>
        UNION {e.from .. e.to : e \in epochs} = proof.started .. proof.through

\* The watermark only moves back when evidence below it changed; the public
\* start of the range never moves back.
RetractsForEvidence ==
    [][/\ proof'.through < proof.through => ev' # ev
       /\ proof'.started >= proof.started]_vars
=============================================================================
