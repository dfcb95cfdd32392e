----------------------- MODULE OutcomeResolverProofs -----------------------
(***************************************************************************)
(* Proofs about OutcomeResolver for any events, horizons, prices and       *)
(* budget.                                                                 *)
(*                                                                         *)
(* The resolver and the reorg both write back rows they read long before.  *)
(* Those copies are as true as the rows, because a recorded observation is *)
(* never changed (Agrees); and a run only ever copied rows that were open  *)
(* (RunOK), whatever became of them since.  The types need the queue of a  *)
(* run too: it holds each task once, of distinct rows, so that a run tries *)
(* no task twice and the clocks of the attempts stay ranks.                *)
(***************************************************************************)
EXTENDS OutcomeResolver, SequenceTheorems, FiniteSetTheorems, FunctionTheorems,
        WellFoundedInduction, TLAPS

\* What a row, or a copy of it, has settled is on record.
Agrees(e, r) ==
    e \in Evidenced =>
        \A h \in Horizons : r.settled[h] # None => r.settled[h] = observed[e][h]

Task == [task: [e: Events, h: Horizons], copy: Row]
RunOK ==
    /\ run.todo \in Seq(Task)
    /\ run.pc # "rest" => run.todo # <<>>
    /\ \A i \in 1 .. Len(run.todo) :
          /\ run.todo[i].copy.status = "open"
          /\ Agrees(run.todo[i].task.e, run.todo[i].copy)
    /\ run.pc = "save" =>
          /\ run.price \in Prices \cup {None}
          /\ Head1.task.e \in Evidenced =>
                run.price = observed[Head1.task.e][Head1.task.h]
RemovalOK ==
    removal # None => removal.e \in Events /\ removal.copy \in Row
                      /\ Agrees(removal.e, removal.copy)
RowsOK ==
    /\ row \in [Events -> Row]
    /\ observed \in [Events -> [Horizons -> Prices \cup {None}]]
    /\ \A e \in Events : Agrees(e, row[e])

IInv == RowsOK /\ RunOK /\ RemovalOK

\* Only an older run reopens a row or drops its note.
Reopens == \E e \in Events :
    /\ \/ row[e].status # "open" /\ row'[e].status = "open"
       \/ row[e].noted /\ ~ row'[e].noted
    /\ ~ (run.todo # <<>> /\ Head1.task.e = e /\ Head1.copy.status = "open")

-----------------------------------------------------------------------------
(* The run.                                                                *)

LEMMA HeadOK ==
    ASSUME RunOK, run.pc # "rest"
    PROVE  /\ run.todo # <<>> /\ Head1 \in Task /\ Head1.copy.status = "open"
           /\ Agrees(Head1.task.e, Head1.copy)
<1>1. Len(run.todo) \in Nat /\ Len(run.todo) >= 1 /\ Head1 = run.todo[1]
  BY DEF RunOK, Head1
<1>2. 1 \in 1 .. Len(run.todo)
  BY <1>1
<1>3. QED  BY <1>1, <1>2 DEF RunOK

\* Observations are only added, so that what agrees with them goes on to.
LEMMA RecordKept ==
    ASSUME \A e \in Events, h \in Horizons :
              observed[e][h] # None => observed'[e][h] = observed[e][h],
           NEW e \in Events, NEW r \in Row, Agrees(e, r)
    PROVE  Agrees(e, r)'
<1>1. ASSUME NEW h \in Horizons, e \in Evidenced, r.settled[h] # None
      PROVE  r.settled[h] = observed'[e][h]
  BY <1>1 DEF Agrees
<1>2. QED  BY <1>1 DEF Agrees

\* A run that moves on keeps the tasks behind it, or none.
LEMMA DoneOK ==
    ASSUME RunOK, run.pc # "rest", run' \in {Done, Resting}, UNCHANGED observed
    PROVE  RunOK'
<1>1. CASE run' = Resting
  <2>1. run'.todo = <<>> /\ run'.pc = "rest"
    BY <1>1 DEF Resting
  <2>2. QED  BY <2>1 DEF RunOK
<1>2. CASE run' = Done /\ Len(run.todo) # 1
  <2>1. /\ run'.pc = "next" /\ run'.todo = Tail(run.todo)
    BY <1>2 DEF Done
  <2>2. /\ run.todo \in Seq(Task) /\ run.todo # <<>> /\ Len(run.todo) \in Nat
    BY HeadOK DEF RunOK
  <2>3. /\ Tail(run.todo) \in Seq(Task) /\ Len(Tail(run.todo)) = Len(run.todo) - 1
        /\ \A i \in 1 .. Len(Tail(run.todo)) : Tail(run.todo)[i] = run.todo[i + 1]
    BY <2>2
  <2>4. Tail(run.todo) # <<>>
    <3>1. Len(run.todo) - 1 # 0
      BY <1>2, <2>2
    <3>2. Len(Tail(run.todo)) # 0
      BY <2>3, <3>1
    <3> DEFINE rest == Tail(run.todo)
    <3> HIDE DEF rest
    <3>3. Len(rest) # 0
      BY <3>2 DEF rest
    <3>4. rest # <<>>
      BY <3>3
    <3>5. QED  BY <3>4 DEF rest
  <2>5. ASSUME NEW i \in 1 .. Len(Tail(run.todo))
        PROVE  /\ Tail(run.todo)[i].copy.status = "open"
               /\ Agrees(Tail(run.todo)[i].task.e, Tail(run.todo)[i].copy)
    <3>1. i + 1 \in 1 .. Len(run.todo)
      BY <2>2, <2>3
    <3>2. QED  BY <2>3, <3>1 DEF RunOK
  <2>6. ASSUME NEW i \in 1 .. Len(run'.todo)
        PROVE  /\ run'.todo[i].copy.status = "open"
               /\ Agrees(run.todo[i].task.e, run.todo[i].copy)'
    BY <2>1, <2>5 DEF Agrees
  <2>7. QED  BY <2>1, <2>3, <2>4, <2>6 DEF RunOK
<1>3. CASE Len(run.todo) = 1
  BY <1>1, <1>3 DEF Done
<1>4. QED  BY <1>1, <1>2, <1>3

\* The row of the task in hand takes an outcome that agrees with the record.
LEMMA SavedOK ==
    ASSUME IInv, NEW e \in Events, NEW outcome \in Row, Agrees(e, outcome),
           NEW status \in {"open", "resolved", "unresolvable"},
           Saved(e, outcome, status), UNCHANGED observed
    PROVE  RowsOK'
<1>1. /\ row' = [row EXCEPT ![e] = [outcome EXCEPT !.status = status, !.state = row[e].state]]
      /\ row[e] \in Row
  BY DEF Saved, IInv, RowsOK
<1> DEFINE saved == [outcome EXCEPT !.status = status, !.state = row[e].state]
<1>2. saved \in Row /\ saved.settled = outcome.settled
  BY <1>1 DEF Row
<1> HIDE DEF saved
<1>3. row' \in [Events -> Row]
  BY <1>1, <1>2 DEF IInv, RowsOK, saved
<1>4. ASSUME NEW d \in Events PROVE Agrees(d, row[d])'
  <2>1. CASE d = e
    <3>1. row'[d].settled = outcome.settled
      BY <1>1, <1>2, <2>1 DEF IInv, RowsOK, saved
    <3>2. QED  BY <2>1, <3>1 DEF Agrees
  <2>2. CASE d # e
    <3>1. row'[d] = row[d]
      BY <1>1, <2>2 DEF IInv, RowsOK
    <3>2. QED  BY <3>1 DEF IInv, RowsOK, Agrees
  <2>3. QED  BY <2>1, <2>2
<1>5. QED  BY <1>3, <1>4 DEF IInv, RowsOK

LEMMA RemovalKept == ASSUME RemovalOK, UNCHANGED <<observed, removal>> PROVE RemovalOK'
  BY DEF RemovalOK, Agrees

\* Saving rewrites no other row.
LEMMA SavedElsewhere ==
    ASSUME IInv, run.pc # "rest", NEW outcome, NEW status, NEW e, e = Head1.task.e,
           Saved(e, outcome, status)
    PROVE  ~Reopens
<1>1. /\ run.todo # <<>> /\ Head1.copy.status = "open"
  BY HeadOK DEF IInv
<1>2. ASSUME NEW d \in Events, d # e PROVE row'[d] = row[d]
  BY <1>2 DEF Saved, IInv, RowsOK
<1>3. QED  BY <1>1, <1>2 DEF Reopens

LEMMA RowsRest == ASSUME UNCHANGED row PROVE ~Reopens
  BY DEF Reopens

-----------------------------------------------------------------------------
(* The steps.                                                              *)

\* Of the due horizons of an event one comes first, and the row is open.
LEMMA FirstIsDue ==
    ASSUME NEW e \in Events, DueTasks(e) # {}
    PROVE  First(DueTasks(e)) \in DueTasks(e)
<1> DEFINE ranks == {Priority[t.h] : t \in DueTasks(e)}
           less == OpToRel(<, Nat)
<1>1. \A t \in DueTasks(e) : t \in [e: Events, h: Horizons] /\ t.e = e /\ Priority[t.h] \in Nat
  BY OutcomeAssumption DEF DueTasks
<1>2. \A a, b \in Nat : a < b => <<a, b>> \in less
  BY DEF OpToRel
<1>3. IsWellFoundedOn(less, Nat)
  BY NatLessThanWellFounded
<1> HIDE DEF less
<1>4. ranks \in SUBSET Nat /\ ranks # {}
  BY <1>1
<1>5. PICK low \in ranks : \A r \in ranks : ~ (<<r, low>> \in less)
  BY <1>3, <1>4, WFMin
<1>6. PICK t \in DueTasks(e) : low = Priority[t.h]
  BY <1>5
<1>7. ASSUME NEW u \in DueTasks(e) \ {t} PROVE Before(t, u)
  <2>1. Priority[u.h] \in ranks /\ Priority[u.h] \in Nat /\ Priority[t.h] \in Nat
    BY <1>1
  <2>2. ~ (Priority[u.h] < Priority[t.h])
    BY <1>2, <1>5, <1>6, <2>1
  <2>3. u.h # t.h
    BY <1>1
  <2>4. u.h \in Horizons /\ t.h \in Horizons
    BY <1>1
  <2>5. Priority[u.h] # Priority[t.h]
    BY <2>3, <2>4, OutcomeAssumption
  <2>6. Priority[t.h] < Priority[u.h]
    BY <2>1, <2>2, <2>5
  <2>7. QED  BY <2>6 DEF Before
<1>8. \E v \in DueTasks(e) : \A u \in DueTasks(e) \ {v} : Before(v, u)
  BY <1>7
<1>9. QED  BY <1>8 DEF First

LEMMA TasksAreOpen ==
    ASSUME NEW t \in Tasks
    PROVE  t \in [e: Events, h: Horizons] /\ row[t.e].status = "open"
<1>1. PICK e \in Events : /\ row[e].status = "open" /\ DueTasks(e) # {}
                          /\ t = First(DueTasks(e))
  BY DEF Tasks, OpenRows
<1>2. t \in DueTasks(e)
  BY <1>1, FirstIsDue
<1>3. t \in [e: Events, h: Horizons] /\ t.e = e
  BY <1>2 DEF DueTasks
<1>4. QED  BY <1>1, <1>3

LEMMA StartStep == ASSUME IInv, Start PROVE IInv' /\ ~Reopens
<1>0. PICK n \in 1 .. Budget : \E chosen \in [1 .. n -> Tasks] :
        run' = [pc |-> "next", price |-> None,
                todo |-> [i \in 1 .. n |-> [task |-> chosen[i], copy |-> row[chosen[i].e]]]]
  BY DEF Start
<1>1. PICK chosen \in [1 .. n -> Tasks] :
        run' = [pc |-> "next", price |-> None,
                todo |-> [i \in 1 .. n |-> [task |-> chosen[i], copy |-> row[chosen[i].e]]]]
  BY <1>0
<1>2. UNCHANGED <<now, row, observed, removal>>
  BY DEF Start
<1>3. n \in Nat /\ n >= 1
  BY OutcomeAssumption
<1>4. ASSUME NEW t \in Tasks PROVE t \in [e: Events, h: Horizons] /\ row[t.e].status = "open"
  BY TasksAreOpen
<1>5. ASSUME NEW i \in 1 .. n
      PROVE  /\ run'.todo[i] = [task |-> chosen[i], copy |-> row[chosen[i].e]]
             /\ run'.todo[i] \in Task /\ run'.todo[i].copy.status = "open"
             /\ Agrees(run.todo[i].task.e, run.todo[i].copy)'
  <2>1. chosen[i] \in Tasks /\ chosen[i].e \in Events
    BY <1>4
  <2>2. run'.todo[i] = [task |-> chosen[i], copy |-> row[chosen[i].e]]
    BY <1>1
  <2>3. row[chosen[i].e] \in Row /\ Agrees(chosen[i].e, row[chosen[i].e])
    BY <2>1 DEF IInv, RowsOK
  <2>4. QED  BY <1>2, <1>4, <2>1, <2>2, <2>3 DEF Task, Agrees
<1>6. run'.todo \in Seq(Task) /\ Len(run'.todo) = n /\ run'.todo # <<>> /\ run'.pc = "next"
  <2>1. run'.todo \in [1 .. n -> Task]
    BY <1>1, <1>5
  <2> DEFINE todo == run'.todo
  <2> HIDE DEF todo
  <2>2. todo \in [1 .. n -> Task]
    BY <2>1 DEF todo
  <2>3. todo \in Seq(Task) /\ Len(todo) = n
    BY <1>3, <2>2
  <2>4. todo # <<>>
    BY <1>3, <2>3
  <2>5. run'.pc = "next"
    BY <1>1
  <2>6. QED  BY <2>3, <2>4, <2>5 DEF todo
<1>7. RunOK'
  BY <1>5, <1>6 DEF RunOK
<1>8. RowsOK' /\ RemovalOK'
  BY <1>2 DEF IInv, RowsOK, RemovalOK, Agrees
<1>9. QED  BY <1>2, <1>7, <1>8, RowsRest DEF IInv

\* Looking up a price adds it to the record before anything is settled.
LEMMA AnsweredStep == ASSUME IInv, NEW e \in Events, Answered(e) PROVE IInv' /\ ~Reopens
<1> DEFINE h == Head1.task.h
<1>1. PICK price \in Answers(e, h) :
        /\ run' = [run EXCEPT !.pc = "save", !.price = price]
        /\ observed' = IF e \in Evidenced /\ observed[e][h] = None
                       THEN [observed EXCEPT ![e][h] = price] ELSE observed
  BY DEF Answered
<1>2. /\ run.pc = "asked" /\ Head1.task.e = e /\ UNCHANGED <<now, row, tries, removal>>
  BY DEF Answered, At
<1>3. Head1 \in Task /\ h \in Horizons
  BY <1>2, HeadOK DEF IInv, Task
<1>4. price \in Prices \cup {None} /\ (observed[e][h] # None => price = observed[e][h])
  BY <1>3, OutcomeAssumption DEF Answers, IInv, RowsOK
<1> HIDE DEF h
<1>5. /\ observed' \in [Events -> [Horizons -> Prices \cup {None}]]
      /\ \A d \in Events, g \in Horizons :
            observed[d][g] # None => observed'[d][g] = observed[d][g]
      /\ e \in Evidenced => observed'[e][h] = price
  BY <1>1, <1>3, <1>4 DEF IInv, RowsOK
<1>6. RowsOK'
  BY <1>2, <1>5, RecordKept DEF IInv, RowsOK
<1>7. RemovalOK'
  BY <1>2, <1>5, RecordKept DEF IInv, RemovalOK
<1>8. RunOK'
  <2>1. run'.pc = "save" /\ run'.todo = run.todo /\ run'.price = price
    BY <1>1 DEF IInv, RunOK
  <2>2. run.todo # <<>> /\ run.todo \in Seq(Task)
    BY <1>2 DEF IInv, RunOK
  <2>3. Head1' = Head1
    BY <2>1 DEF Head1
  <2>4. ASSUME NEW i \in 1 .. Len(run.todo)
        PROVE  /\ run.todo[i].copy.status = "open"
               /\ Agrees(run.todo[i].task.e, run.todo[i].copy)'
    <3>1. run.todo[i] \in Task
      BY <2>2
    <3>2. run.todo[i].task.e \in Events /\ run.todo[i].copy \in Row
      BY <3>1 DEF Task
    <3>3. Agrees(run.todo[i].task.e, run.todo[i].copy) /\ run.todo[i].copy.status = "open"
      BY DEF IInv, RunOK
    <3>4. Agrees(run.todo[i].task.e, run.todo[i].copy)'
      BY <2>1, <1>5, <3>2, <3>3 DEF Agrees
    <3>5. QED  BY <3>3, <3>4
  <2>5. ASSUME NEW i \in 1 .. Len(run'.todo)
        PROVE  /\ run'.todo[i].copy.status = "open"
               /\ Agrees(run.todo[i].task.e, run.todo[i].copy)'
    BY <2>1, <2>4
  <2>6. QED  BY <1>2, <1>4, <1>5, <2>1, <2>2, <2>3, <2>5 DEF RunOK, h
<1>9. QED  BY <1>2, <1>6, <1>7, <1>8, RowsRest DEF IInv

\* What a task in hand leaves in its row.
LEMMA TaskSteps ==
    ASSUME IInv, NEW e \in Events, RejectCost(e) \/ RateLimited(e) \/ Save(e)
    PROVE  IInv' /\ ~Reopens
<1>1. /\ run.pc \in {"next", "asked", "save"} /\ Head1.task.e = e
      /\ run' \in {Done, Resting} /\ UNCHANGED <<now, observed, removal>>
  BY DEF RejectCost, RateLimited, Save, At
<1>2. /\ Head1 \in Task /\ Head1.copy \in Row /\ Head1.task.h \in Horizons
      /\ Agrees(e, Head1.copy)
  BY <1>1, HeadOK DEF IInv, Task
<1>3. PICK outcome \in Row, status \in {"open", "resolved", "unresolvable"} :
         Saved(e, outcome, status) /\ Agrees(e, outcome)
  <2>1. CASE RejectCost(e)
    <3>1. PICK why \in {"deferred", "permanent"} :
             Saved(e, [Head1.copy EXCEPT !.blocked = why], "open")
      BY <2>1 DEF RejectCost
    <3>2. [Head1.copy EXCEPT !.blocked = why] \in Row
          /\ [Head1.copy EXCEPT !.blocked = why].settled = Head1.copy.settled
      BY <1>2 DEF Row
    <3>3. QED  BY <1>2, <3>1, <3>2 DEF Agrees
  <2>2. CASE RateLimited(e)
    <3>1. Unblocked(Head1.copy) \in Row
          /\ Unblocked(Head1.copy).settled = Head1.copy.settled
      BY <1>2 DEF Row, Unblocked
    <3>2. QED  BY <1>2, <2>2, <3>1 DEF Agrees, RateLimited
  <2>3. CASE Save(e)
    <3> DEFINE outcome == Measured(e, Head1.task.h, Head1.copy, run.price)
    <3>1. Saved(e, outcome, StatusAfter(outcome)) /\ run.pc = "save"
      BY <2>3 DEF Save, At
    <3>2. /\ run.price \in Prices \cup {None}
          /\ e \in Evidenced => run.price = observed[e][Head1.task.h]
      BY <1>1, <3>1 DEF IInv, RunOK
    <3>3. Unblocked(Head1.copy) \in Row
          /\ Unblocked(Head1.copy).settled = Head1.copy.settled
      BY <1>2 DEF Row, Unblocked
    <3>4. outcome \in Row /\ Agrees(e, outcome)
      <4>1. CASE run.price # None
        <5>1. outcome = [Unblocked(Head1.copy) EXCEPT !.settled[Head1.task.h] = run.price]
          BY <4>1 DEF Measured
        <5>2. Head1.copy.settled \in [Horizons -> Prices \cup {None}]
          BY <1>2 DEF Row
        <5>3. outcome \in Row /\ outcome.settled
                 = [Head1.copy.settled EXCEPT ![Head1.task.h] = run.price]
          BY <1>2, <3>2, <3>3, <5>1, <5>2 DEF Row
        <5> HIDE DEF outcome
        <5>4. QED  BY <1>2, <3>2, <5>2, <5>3 DEF Agrees
      <4>2. CASE run.price = None
        <5>1. outcome \in {Unblocked(Head1.copy),
                 [Unblocked(Head1.copy) EXCEPT !.unavailable = @ \cup {Head1.task.h}]}
          BY <4>2 DEF Measured
        <5> HIDE DEF outcome
        <5>2. outcome \in Row /\ outcome.settled = Head1.copy.settled
          BY <1>2, <3>3, <5>1 DEF Row
        <5>3. QED  BY <1>2, <5>2 DEF Agrees
      <4>3. QED  BY <4>1, <4>2
    <3>5. StatusAfter(outcome) \in {"open", "resolved", "unresolvable"}
      BY DEF StatusAfter
    <3>6. QED  BY <3>1, <3>4, <3>5
  <2>4. QED  BY <2>1, <2>2, <2>3
<1>4. RowsOK'
  BY <1>1, <1>3, SavedOK
<1>5. RunOK' /\ RemovalOK'
  BY <1>1, DoneOK, RemovalKept DEF IInv
<1>6. ~Reopens
  BY <1>1, <1>3, SavedElsewhere
<1>7. QED  BY <1>4, <1>5, <1>6 DEF IInv

\* The removal writes back an older row, retired.
LEMMA RemovalSteps ==
    ASSUME IInv, NEW e \in Events, InvalidateReads(e) \/ InvalidateWrites(e)
    PROVE  IInv' /\ ~Reopens
<1>1. CASE InvalidateReads(e)
  <2>1. removal' = [e |-> e, copy |-> row[e]] /\ UNCHANGED <<row, observed, run>>
    BY <1>1 DEF InvalidateReads
  <2>2. RowsOK' /\ RunOK'
    BY <2>1 DEF IInv, RowsOK, RunOK, Agrees, Head1
  <2>3. RemovalOK'
    BY <2>1 DEF IInv, RowsOK, RemovalOK, Agrees
  <2>4. QED  BY <2>1, <2>2, <2>3, RowsRest DEF IInv
<1>2. CASE InvalidateWrites(e)
  <2> DEFINE retired == [removal.copy EXCEPT !.noted = TRUE, !.status = "unresolvable",
                                              !.state = "reorg_removed"]
  <2>1. /\ removal # None /\ removal.e = e /\ row' = [row EXCEPT ![e] = retired]
        /\ removal' = None /\ UNCHANGED <<observed, run>>
    BY <1>2 DEF InvalidateWrites
  <2>2. removal.copy \in Row /\ Agrees(e, removal.copy)
    BY <2>1 DEF IInv, RemovalOK
  <2>3. retired \in Row /\ retired.settled = removal.copy.settled /\ retired.noted
        /\ retired.status = "unresolvable"
    BY <2>2 DEF Row
  <2> HIDE DEF retired
  <2>4. row' \in [Events -> Row] /\ \A d \in Events : row'[d] = IF d = e THEN retired ELSE row[d]
    BY <2>1, <2>3 DEF IInv, RowsOK
  <2>5. ASSUME NEW d \in Events PROVE Agrees(d, row[d])'
    BY <2>1, <2>2, <2>3, <2>4 DEF IInv, RowsOK, Agrees
  <2>6. RowsOK'
    BY <2>1, <2>4, <2>5 DEF IInv, RowsOK
  <2>7. RunOK' /\ RemovalOK'
    BY <2>1 DEF IInv, RunOK, RemovalOK, Agrees, Head1
  <2>8. ~Reopens
    BY <2>3, <2>4 DEF Reopens
  <2>9. QED  BY <2>6, <2>7, <2>8 DEF IInv
<1>3. QED  BY <1>1, <1>2

\* The cost gate lets a task pass to its lookup.
LEMMA PassStep == ASSUME IInv, NEW e \in Events, PassCost(e) PROVE IInv' /\ ~Reopens
<1>1. /\ run' = [run EXCEPT !.pc = "asked"] /\ run.pc = "next"
      /\ UNCHANGED <<row, observed, removal>>
  BY DEF PassCost, At
<1>2. RowsOK' /\ RemovalOK'
  BY <1>1 DEF IInv, RowsOK, RemovalOK, Agrees
<1>3. RunOK'
  <2>1. run'.todo = run.todo /\ run'.pc = "asked"
    BY <1>1 DEF IInv, RunOK
  <2>2. QED  BY <1>1, <2>1 DEF IInv, RunOK, Agrees
<1>4. QED  BY <1>1, <1>2, <1>3, RowsRest DEF IInv

LEMMA RestSteps ==
    ASSUME IInv, \/ Crash \/ Tick \/ UNCHANGED vars
                 \/ \E e \in Events : SourceRaises(e)
    PROVE  IInv' /\ ~Reopens
<1>1. /\ UNCHANGED <<row, observed, removal>>
      /\ UNCHANGED run \/ (run.pc # "rest" /\ run' = Resting)
  BY DEF Crash, Tick, vars, SourceRaises, At
<1>2. RowsOK' /\ RemovalOK'
  BY <1>1 DEF IInv, RowsOK, RemovalOK, Agrees
<1>3. RunOK'
  <2>1. CASE UNCHANGED run
    BY <1>1, <2>1 DEF IInv, RunOK, Agrees, Head1
  <2>2. CASE run.pc # "rest" /\ run' = Resting
    BY <1>1, <2>2, DoneOK DEF IInv
  <2>3. QED  BY <1>1, <2>1, <2>2
<1>4. QED  BY <1>1, <1>2, <1>3, RowsRest DEF IInv

-----------------------------------------------------------------------------
(* The theorems.                                                           *)

LEMMA OutcomeInit == Init => IInv
<1> SUFFICES ASSUME Init PROVE IInv
  OBVIOUS
<1>1. RowsOK
  BY DEF Init, RowsOK, Row, Agrees
<1>2. RunOK
  BY DEF Init, RunOK, Resting
<1>3. RemovalOK
  BY DEF Init, RemovalOK
<1>4. QED  BY <1>1, <1>2, <1>3 DEF IInv

LEMMA OutcomeStep == ASSUME IInv, [Next]_vars PROVE IInv' /\ ~Reopens
  BY StartStep, PassStep, AnsweredStep, TaskSteps, RemovalSteps, RestSteps DEF Next

\* The price that measures an evidenced event is the one on record, although a
\* crash may separate the two writes and the source change its answer.
THEOREM SettledObserved == Spec => []SettledIsObserved
<1>1. IInv => SettledIsObserved
  BY OutcomeAssumption DEF IInv, RowsOK, Agrees, SettledIsObserved
<1>2. IInv /\ [Next]_vars => IInv'
  BY OutcomeStep
<1>3. QED  BY <1>1, <1>2, OutcomeInit, PTL DEF Spec

\* Only a run that had read a row while it was open can open it again or drop
\* the note of its removal.
THEOREM ReopenedByOlderRun == Spec => ReopenedOnlyByOlderRun
<1>1. IInv /\ [Next]_vars => IInv'
  BY OutcomeStep
<1>2. IInv /\ [Next]_vars =>
        [\A e \in Events :
            \/ row[e].status # "open" /\ row'[e].status = "open"
            \/ row[e].noted /\ ~ row'[e].noted
            => run.todo # <<>> /\ Head1.task.e = e /\ Head1.copy.status = "open"]_vars
  BY OutcomeStep DEF Reopens
<1>3. QED  BY <1>1, <1>2, OutcomeInit, PTL DEF Spec, ReopenedOnlyByOlderRun

-----------------------------------------------------------------------------
(* Induction: a set of naturals has a least element.                      *)

LEMMA LeastElement ==
    ASSUME NEW S \in SUBSET Nat, S # {}
    PROVE  \E low \in S : \A s \in S : low <= s
<1> DEFINE less == OpToRel(<, Nat)
<1>1. \A a, b \in Nat : a < b => <<a, b>> \in less
  BY DEF OpToRel
<1>2. IsWellFoundedOn(less, Nat)
  BY NatLessThanWellFounded
<1> HIDE DEF less
<1>3. PICK low \in S : \A s \in S : ~ (<<s, low>> \in less)
  BY <1>2, WFMin
<1>4. \A s \in S : ~ (s < low)
  BY <1>1, <1>3
<1>5. QED  BY <1>4

LEMMA NatSetInduction ==
    ASSUME NEW n \in Nat, NEW S, 0 \in S, \A k \in 0 .. n : k \in S /\ k < n => k + 1 \in S
    PROVE  0 .. n \subseteq S
<1>1. SUFFICES ASSUME ~ (0 .. n \subseteq S) PROVE FALSE
  OBVIOUS
<1> DEFINE bad == {k \in 0 .. n : k \notin S}
<1>2. bad \in SUBSET Nat /\ bad # {}
  BY <1>1
<1>3. PICK low \in bad : \A s \in bad : low <= s
  BY <1>2, LeastElement
<1>4. low # 0 /\ low \in 0 .. n /\ low \notin S
  BY <1>3
<1>5. low - 1 \in 0 .. n /\ low - 1 < n /\ ~ (low <= low - 1)
  BY <1>4
<1>6. low - 1 \in S
  BY <1>3, <1>5
<1>7. low \in S
  BY <1>4, <1>5, <1>6
<1>8. QED  BY <1>4, <1>7

-----------------------------------------------------------------------------
(* Types, and a run's queue: no row is in it twice.                        *)

Clocks == now \in 0 .. LastTick /\ tries \in [Horizons -> [Events -> 0 .. ThisRun]]
Queue ==
    /\ run.pc \in {"rest", "next", "asked", "save"} /\ (run.pc = "rest") = (run.todo = <<>>)
    /\ run.todo \in Seq(Task) /\ Len(run.todo) <= Budget
    /\ \A i, j \in 1 .. Len(run.todo) : i # j => run.todo[i].task.e # run.todo[j].task.e
Removed == removal = None \/ removal \in [e: Reorgable, copy: Row]
TypeInv == IInv /\ Clocks /\ Queue /\ Removed

\* A finite set of events has a last anchor.
LEMMA LastTickIsNat == LastTick \in Nat /\ \A e \in Events : Anchor[e] + Grace <= LastTick
<1> DEFINE n == Cardinality(Events)
           ends == {Anchor[e] + Grace : e \in Events}
<1>1. n \in Nat /\ \E f : f \in Bijection(1 .. n, Events)
  BY OutcomeAssumption, FS_CardinalityType DEF ExistsBijection
<1>2. PICK f : f \in Bijection(1 .. n, Events)
  BY <1>1
<1>3. f \in [1 .. n -> Events] /\ \A e \in Events : \E i \in 1 .. n : f[i] = e
  BY <1>2 DEF Bijection, Surjection, Injection
<1> DEFINE Late(i) == Anchor[f[i]] + Grace
           S == {k \in 0 .. n : k = 0 \/ \E i \in 1 .. k : \A j \in 1 .. k : Late(j) <= Late(i)}
<1>4. \A i \in 1 .. n : Late(i) \in Nat
  BY <1>3, OutcomeAssumption
<1> HIDE DEF n, Late
<1>5. 0 \in S
  BY <1>1
<1>6. ASSUME NEW k \in 0 .. n, k \in S, k < n PROVE k + 1 \in S
  <2>0. k \in Nat /\ k + 1 \in 0 .. n /\ k + 1 \in 1 .. n /\ Late(k + 1) \in Nat
    BY <1>1, <1>4, <1>6
  <2>1. CASE k = 0
    <3>1. \A j \in 1 .. k + 1 : j = k + 1
      BY <2>1
    <3>2. QED  BY <2>0, <2>1, <3>1
  <2>2. CASE k # 0
    <3>1. PICK i \in 1 .. k : \A j \in 1 .. k : Late(j) <= Late(i)
      BY <1>6, <2>2
    <3>2. i \in 1 .. n /\ Late(i) \in Nat /\ i \in 1 .. k + 1 /\ k + 1 \in 1 .. k + 1
      BY <1>1, <1>4, <2>0
    <3>3. \A j \in 1 .. k + 1 : j = k + 1 \/ (j \in 1 .. k /\ Late(j) \in Nat)
      BY <1>1, <1>4, <2>0
    <3>4. CASE Late(k + 1) <= Late(i)
      <4>1. \A j \in 1 .. k + 1 : Late(j) <= Late(i)
        BY <3>1, <3>3, <3>4
      <4>2. QED  BY <2>0, <3>2, <4>1
    <3>5. CASE Late(i) <= Late(k + 1)
      <4>1. \A j \in 1 .. k + 1 : Late(j) <= Late(k + 1)
        BY <2>0, <3>1, <3>2, <3>3, <3>5
      <4>2. QED  BY <2>0, <3>2, <4>1
    <3>6. QED  BY <2>0, <3>2, <3>4, <3>5
  <2>3. QED  BY <2>1, <2>2
<1> HIDE DEF S
<1>7. n \in S
  <2>1. 0 .. n \subseteq S
    BY <1>1, <1>5, <1>6, NatSetInduction
  <2>2. QED  BY <1>1, <2>1
<1>8. n # 0
  <2>1. Cardinality(Events) # 0
    BY OutcomeAssumption, FS_EmptySet
  <2>2. QED  BY <2>1 DEF n
<1>9. PICK i \in 1 .. n : \A j \in 1 .. n : Late(j) <= Late(i)
  BY <1>7, <1>8 DEF S
<1>10. f[i] \in Events /\ \A e \in Events : Anchor[e] + Grace <= Anchor[f[i]] + Grace
  BY <1>3, <1>9 DEF Late
<1>11. \E t \in ends : \A e \in Events : Anchor[e] + Grace <= t
  BY <1>10
<1>12. LastTick \in ends /\ \A e \in Events : Anchor[e] + Grace <= LastTick
  BY <1>11 DEF LastTick
<1>13. QED  BY <1>12, OutcomeAssumption

LEMMA RankOK ==
    ASSUME Clocks, NEW h \in Horizons, NEW e \in Events
    PROVE  Rank(h, e) \in 0 .. ThisRun
<1> DEFINE n == Cardinality(Events)
           stamps == {tries[h][d] : d \in Events}
           f == [d \in Events |-> tries[h][d]]
<1>1. IsFiniteSet(Events) /\ n \in Nat
  BY OutcomeAssumption, FS_CardinalityType
<1>2. f \in Surjection(Events, stamps)
  BY DEF Surjection
<1> HIDE DEF f, stamps
<1>3. IsFiniteSet(stamps) /\ Cardinality(stamps) <= n
  BY <1>1, <1>2, FS_Surjection
<1> DEFINE T == stamps \cap 1 .. tries[h][e]
<1>4. T \in SUBSET stamps
  OBVIOUS
<1> HIDE DEF T
<1>5. IsFiniteSet(T) /\ Cardinality(T) <= Cardinality(stamps)
  BY <1>3, <1>4, FS_Subset
<1>6. Cardinality(T) \in Nat /\ Cardinality(stamps) \in Nat
  BY <1>3, <1>5, FS_CardinalityType
<1>7. Cardinality(T) \in 0 .. n + 1
  BY <1>1, <1>3, <1>5, <1>6
<1>8. QED  BY <1>7 DEF T, stamps, Rank, ThisRun

LEMMA ThisRunIsNat == ThisRun \in Nat
  BY OutcomeAssumption, FS_CardinalityType DEF ThisRun

\* A task does not precede itself.
LEMMA PrecedesIrreflexive ==
    ASSUME Clocks, NEW t \in [e: Events, h: Horizons], NEW S
    PROVE  ~ Precedes(t, t, S)
<1>1. /\ Priority[t.h] \in Int /\ Due(t.e, t.h) \in Int /\ tries[t.h][t.e] \in Int
  BY OutcomeAssumption, ThisRunIsNat DEF Due, Clocks
<1>2. ~ Before(t, t)
  BY <1>1 DEF Before
<1>3. QED  BY <1>2 DEF Precedes

\* The tasks of a run are of different rows.
LEMMA SelectionDistinct ==
    ASSUME Clocks, NEW n \in Nat, NEW chosen \in [1 .. n -> Tasks], IsSelection(chosen, Tasks)
    PROVE  \A i, j \in 1 .. n : i # j => chosen[i].e # chosen[j].e
<1>1. ASSUME NEW t \in Tasks, NEW u \in Tasks, t.e = u.e PROVE t = u
  <2>1. PICK d \in Events : t = First(DueTasks(d)) /\ DueTasks(d) # {}
    BY DEF Tasks, OpenRows
  <2>2. PICK e \in Events : u = First(DueTasks(e)) /\ DueTasks(e) # {}
    BY DEF Tasks, OpenRows
  <2>3. t.e = d /\ u.e = e
    <3>1. t \in DueTasks(d) /\ u \in DueTasks(e)
      BY <2>1, <2>2, FirstIsDue
    <3>2. QED  BY <3>1 DEF DueTasks
  <2>4. QED  BY <1>1, <2>1, <2>2, <2>3
<1>2. \A i \in 1 .. n : chosen[i] \in Tasks /\ chosen[i] \in [e: Events, h: Horizons]
  BY TasksAreOpen
<1>3. ASSUME NEW i \in 1 .. n, NEW j \in 1 .. n, i < j PROVE chosen[i].e # chosen[j].e
  <2>1. Precedes(chosen[i], chosen[j], Tasks)
    BY <1>3 DEF IsSelection
  <2>2. chosen[i] # chosen[j]
    BY <1>2, <2>1, PrecedesIrreflexive
  <2>3. QED  BY <1>1, <1>2, <2>2
<1>4. QED  BY <1>3

LEMMA QueueStart == ASSUME TypeInv, Start PROVE Queue' /\ Clocks' /\ Removed'
<1>1. PICK n \in 1 .. Budget : \E chosen \in [1 .. n -> Tasks] :
         /\ IsSelection(chosen, Tasks)
         /\ run' = [pc |-> "next", price |-> None,
                    todo |-> [i \in 1 .. n |-> [task |-> chosen[i], copy |-> row[chosen[i].e]]]]
  BY DEF Start
<1>2. PICK chosen \in [1 .. n -> Tasks] :
         /\ IsSelection(chosen, Tasks)
         /\ run' = [pc |-> "next", price |-> None,
                    todo |-> [i \in 1 .. n |-> [task |-> chosen[i], copy |-> row[chosen[i].e]]]]
  BY <1>1
<1>3. /\ UNCHANGED <<now, removal>>
      /\ tries' = [h \in Horizons |-> [e \in Events |-> Rank(h, e)]]
  BY DEF Start
<1>4. n \in Nat /\ n >= 1 /\ n <= Budget
  BY OutcomeAssumption
<1>5. \A i, j \in 1 .. n : i # j => chosen[i].e # chosen[j].e
  BY <1>2, <1>4, SelectionDistinct DEF TypeInv
<1> DEFINE todo == run'.todo
<1>6. /\ run'.pc = "next"
      /\ \A i \in 1 .. n : todo[i].task = chosen[i]
      /\ todo = [i \in 1 .. n |-> todo[i]]
  BY <1>2
<1>7. todo \in Seq(Task) /\ IInv'
  BY StartStep DEF TypeInv, IInv, RunOK
<1> HIDE DEF todo
<1>8. Len(todo) = n
  <2>1. DOMAIN todo = 1 .. n
    BY <1>6
  <2>2. DOMAIN todo = 1 .. Len(todo) /\ Len(todo) \in Nat
    BY <1>7
  <2>3. QED  BY <1>4, <2>1, <2>2
<1>9. todo # <<>>
  BY <1>4, <1>7, <1>8
<1>10. \A i, j \in 1 .. Len(todo) : i # j => todo[i].task.e # todo[j].task.e
  BY <1>5, <1>6, <1>8
<1>11. Queue'
  BY <1>4, <1>6, <1>7, <1>8, <1>9, <1>10 DEF Queue, todo
<1>12. tries' \in [Horizons -> [Events -> 0 .. ThisRun]]
  BY <1>3, RankOK DEF TypeInv
<1>13. QED  BY <1>3, <1>11, <1>12 DEF TypeInv, Clocks, Removed, ThisRun

\* A task that is done leaves the queue, or the run ends.
LEMMA QueueDone ==
    ASSUME Queue, run.pc # "rest", run' \in {Done, Resting}
    PROVE  Queue'
<1>1. CASE run' = Resting
  <2>1. run'.pc = "rest" /\ run'.todo = <<>>
    BY <1>1 DEF Resting
  <2>2. <<>> \in Seq(Task) /\ Len(<<>>) = 0
    OBVIOUS
  <2>3. QED  BY <2>1, <2>2, OutcomeAssumption DEF Queue
<1>2. CASE run' = Done /\ Len(run.todo) = 1
  BY <1>1, <1>2 DEF Done
<1>3. CASE run' = Done /\ Len(run.todo) # 1
  <2> DEFINE todo == run.todo
             rest == Tail(todo)
  <2>1. run'.pc = "next" /\ run'.todo = rest
    BY <1>3 DEF Done
  <2>2. todo \in Seq(Task) /\ todo # <<>> /\ Len(todo) # 1 /\ Len(todo) <= Budget
    BY <1>3 DEF Queue
  <2>3. \A i, j \in 1 .. Len(todo) : i # j => todo[i].task.e # todo[j].task.e
    BY DEF Queue
  <2> HIDE DEF todo
  <2>4. /\ rest \in Seq(Task) /\ Len(rest) = Len(todo) - 1 /\ Len(todo) \in Nat
        /\ \A i \in 1 .. Len(rest) : rest[i] = todo[i + 1]
    BY <2>2
  <2> HIDE DEF rest
  <2>5. Len(rest) # 0
    BY <2>2, <2>4
  <2>6. rest # <<>> /\ Len(rest) <= Budget
    BY <2>2, <2>4, <2>5, OutcomeAssumption
  <2>7. ASSUME NEW i \in 1 .. Len(rest), NEW j \in 1 .. Len(rest), i # j
        PROVE  rest[i].task.e # rest[j].task.e
    <3>1. i + 1 \in 1 .. Len(todo) /\ j + 1 \in 1 .. Len(todo) /\ i + 1 # j + 1
      BY <2>4, <2>7
    <3>2. QED  BY <2>3, <2>4, <3>1
  <2>8. QED  BY <2>1, <2>4, <2>6, <2>7 DEF Queue
<1>4. QED  BY <1>1, <1>2, <1>3

LEMMA TypeStep == ASSUME TypeInv, [Next]_vars PROVE TypeInv'
<1>1. IInv'
  BY OutcomeStep DEF TypeInv
<1>2. LastTick \in Nat
  BY LastTickIsNat
<1>3. CASE Start
  BY <1>1, <1>3, QueueStart DEF TypeInv
<1>4. CASE Tick
  <2>1. now' \in 0 .. LastTick /\ UNCHANGED <<row, observed, tries, run, removal>>
    BY <1>2, <1>4 DEF Tick, TypeInv, Clocks
  <2>2. QED  BY <1>1, <2>1 DEF TypeInv, Clocks, Queue, Removed
<1>5. CASE Crash \/ \E e \in Events : SourceRaises(e)
  <2>1. run.pc # "rest" /\ run' = Resting /\ UNCHANGED <<now, row, observed, tries, removal>>
    BY <1>5 DEF Crash, SourceRaises, At
  <2>2. Queue'
    BY <2>1, QueueDone DEF TypeInv
  <2>3. QED  BY <1>1, <2>1, <2>2 DEF TypeInv, Clocks, Removed
<1>6. ASSUME NEW e \in Events, RejectCost(e) \/ RateLimited(e) \/ Save(e) PROVE TypeInv'
  <2>1. /\ run.pc # "rest" /\ run' \in {Done, Resting} /\ UNCHANGED <<now, removal>>
        /\ UNCHANGED tries \/ \E open \in BOOLEAN : Tried(Head1.task, open)
    BY <1>6 DEF RejectCost, RateLimited, Save, At, Unsettled
  <2>2. Queue'
    BY <2>1, QueueDone DEF TypeInv
  <2>3. tries' \in [Horizons -> [Events -> 0 .. ThisRun]]
    <3>1. CASE UNCHANGED tries
      BY <3>1 DEF TypeInv, Clocks
    <3>2. CASE \E open \in BOOLEAN : Tried(Head1.task, open)
      <4>1. PICK open \in BOOLEAN :
               tries' = [tries EXCEPT ![Head1.task.h][Head1.task.e] = IF open THEN ThisRun ELSE 0]
        BY <3>2 DEF Tried
      <4>2. (IF open THEN ThisRun ELSE 0) \in 0 .. ThisRun
        BY ThisRunIsNat
      <4>3. QED  BY <4>1, <4>2 DEF TypeInv, Clocks
    <3>3. QED  BY <2>1, <3>1, <3>2
  <2>4. QED  BY <1>1, <2>1, <2>2, <2>3 DEF TypeInv, Clocks, Removed, ThisRun
<1>7. ASSUME NEW e \in Events, Answered(e) PROVE TypeInv'
  <2>1. \E price : run' = [run EXCEPT !.pc = "save", !.price = price]
    BY <1>7 DEF Answered
  <2>2. run.pc = "asked" /\ UNCHANGED <<now, tries, removal>>
    BY <1>7 DEF Answered, At
  <2>3. run'.todo = run.todo /\ run'.pc = "save"
    BY <2>1
  <2>4. QED  BY <1>1, <2>2, <2>3 DEF TypeInv, Clocks, Queue, Removed
<1>8. ASSUME NEW e \in Events, PassCost(e) PROVE TypeInv'
  <2>1. /\ run' = [run EXCEPT !.pc = "asked"] /\ run.pc = "next"
        /\ UNCHANGED <<now, tries, removal>>
    BY <1>8 DEF PassCost, At
  <2>2. run'.todo = run.todo /\ run'.pc = "asked"
    BY <2>1 DEF TypeInv, IInv, RunOK
  <2>3. QED  BY <1>1, <2>1, <2>2 DEF TypeInv, Clocks, Queue, Removed
<1>9. ASSUME NEW e \in Events, InvalidateReads(e) \/ InvalidateWrites(e) PROVE TypeInv'
  <2>1. UNCHANGED <<now, tries, run>>
    BY <1>9 DEF InvalidateReads, InvalidateWrites
  <2>2. Removed'
    BY <1>9 DEF InvalidateReads, InvalidateWrites, Removed, TypeInv, IInv, RowsOK
  <2>3. QED  BY <1>1, <2>1, <2>2 DEF TypeInv, Clocks, Queue
<1>10. CASE UNCHANGED vars
  BY <1>1, <1>10 DEF vars, TypeInv, Clocks, Queue, Removed
<1>11. QED  BY <1>3, <1>4, <1>5, <1>6, <1>7, <1>8, <1>9, <1>10 DEF Next

LEMMA TypeInit == Init => TypeInv
<1> SUFFICES ASSUME Init PROVE TypeInv
  OBVIOUS
<1>1. Clocks
  BY LastTickIsNat, ThisRunIsNat DEF Init, Clocks
<1>2. Queue
  BY OutcomeAssumption DEF Init, Queue, Resting
<1>3. QED  BY <1>1, <1>2, OutcomeInit DEF Init, TypeInv, Removed

\* The ledger's rows, their record, the attempt clocks, the run's queue and the
\* reorg's copy keep their types, and a run never takes more than its budget.
THEOREM OutcomeTypeCorrect == Spec => []TypeOK
<1>1. TypeInv => TypeOK
  BY DEF TypeInv, IInv, RowsOK, Clocks, Queue, Removed, TypeOK
<1>2. TypeInv /\ [Next]_vars => TypeInv'
  BY TypeStep
<1>3. QED  BY <1>1, <1>2, TypeInit, PTL DEF Spec

\* A run holds at most one horizon of each row: the copy it saves for the second
\* would undo what the first has settled (_select_due_tasks).
THEOREM OneTaskOfEachRow ==
    Spec => [](\A i, j \in 1 .. Len(run.todo) :
                  i # j => run.todo[i].task.e # run.todo[j].task.e)
<1>1. TypeInv => \A i, j \in 1 .. Len(run.todo) :
                    i # j => run.todo[i].task.e # run.todo[j].task.e
  BY DEF TypeInv, Queue
<1>2. TypeInv /\ [Next]_vars => TypeInv'
  BY TypeStep
<1>3. QED  BY <1>1, <1>2, TypeInit, PTL DEF Spec
=============================================================================
