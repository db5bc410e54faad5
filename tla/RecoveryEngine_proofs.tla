----------------------- MODULE RecoveryEngine_proofs -----------------------
(***************************************************************************)
(* Proofs about RecoveryEngine, for every policy, limit and bound the      *)
(* assumptions of that module allow.                                       *)
(***************************************************************************)
EXTENDS RecoveryEngine, TLAPS

-----------------------------------------------------------------------------
(* What the helpers return.                                                *)

\* The fields of a plan that count.
LEMMA PlanFields ==
  ASSUME NEW p \in Plans
  PROVE  /\ p.generation \in Nat /\ p.stageGen \in Nat /\ p.index \in Nat /\ p.attempt \in Nat
         /\ p.totalAttempts \in Nat /\ p.attemptsInStage \in Nat /\ p.notes \in Nat
BY Zenon DEF Plans

\* Flagging a plan changes its state, its flag and the number of its notes only.
LEMMA FlaggedType ==
  ASSUME NEW p \in Plans, NEW cap
  PROVE  Flagged(p, cap) \in Plans
<1> DEFINE n == IF p.notes < cap THEN p.notes + 1 ELSE p.notes
<1>1. n \in Nat
  BY PlanFields
<1>2. Flagged(p, cap) = [p EXCEPT !.state = "REVALIDATION_REQUIRED",
                                  !.revalidationRequired = TRUE, !.notes = n]
  BY Zenon DEF Flagged
<1>3. "REVALIDATION_REQUIRED" \in RecoveryStates
  BY DEF RecoveryStates, LiveStates
<1> HIDE DEF n
<1>4. [p EXCEPT !.state = "REVALIDATION_REQUIRED",
                !.revalidationRequired = TRUE, !.notes = n] \in Plans
  BY <1>1, <1>3, Zenon DEF Plans
<1> QED
  BY <1>2, <1>4, Zenon

\* An invalidated plan is a plan.
LEMMA InvalidatedType ==
  ASSUME NEW p \in Plans
  PROVE  Invalidated(p) \in Plans /\ InvalidatedDraft(p) \in Plans
BY FlaggedType DEF Invalidated, InvalidatedDraft

\* Failing a plan changes its state only.
LEMMA FailedType ==
  ASSUME NEW p \in Plans
  PROVE  Failed(p) \in Plans
BY DEF Plans, Failed, RecoveryStates, TerminalStates

\* A plan in another state is still a plan.
LEMMA StateType ==
  ASSUME NEW p \in Plans, NEW s \in RecoveryStates
  PROVE  [p EXCEPT !.state = s] \in Plans
BY DEF Plans

\* A plan with another stage lineage is still a plan.
LEMMA HistoryType ==
  ASSUME NEW p \in Plans, NEW h \in Seq(StageRecords)
  PROVE  [p EXCEPT !.history = h] \in Plans
BY DEF Plans

\* Changing the last record of a lineage in place keeps its length.
LEMMA LastRecordType ==
  ASSUME NEW h \in Seq(StageRecords), h # <<>>, NEW r \in StageRecords
  PROVE  /\ [h EXCEPT ![Len(h)] = r] \in Seq(StageRecords)
         /\ [h EXCEPT ![Len(h)] = r] # <<>>
<1>1. Len(h) \in 1..Len(h)
  OBVIOUS
<1> QED
  BY <1>1

\* open_stage_record yields a lineage that is not empty.
LEMMA OpenedType ==
  ASSUME NEW p \in Plans
  PROVE  Opened(p) \in Seq(StageRecords) /\ Opened(p) # <<>>
<1> DEFINE rec == [index |-> p.index, generation |-> p.stageGen, attempt |-> p.attempt,
                   outcome |-> "PENDING", exited |-> 0]
           old == p.history[Len(p.history)]
           upd == [old EXCEPT !.generation = p.stageGen, !.attempt = p.attempt]
<1>1. rec \in StageRecords
  BY DEF Plans, StageRecords
<1>2. p.history \in Seq(StageRecords) /\ p.stageGen \in Nat /\ p.attempt \in Nat
  BY DEF Plans
<1>3. CASE HasPending(p) /\ LastRecord(p).index = p.index
  <2>1. p.history # <<>> /\ old \in StageRecords
    BY <1>2, <1>3 DEF HasPending
  <2>2. upd \in StageRecords
    BY <1>2, <2>1 DEF StageRecords
  <2>3. Opened(p) = [p.history EXCEPT ![Len(p.history)] = upd]
    BY <1>3 DEF Opened
  <2> QED
    BY <1>2, <2>1, <2>2, <2>3, LastRecordType
<1>4. CASE ~(HasPending(p) /\ LastRecord(p).index = p.index)
  BY <1>1, <1>2, <1>4 DEF Opened
<1> QED
  BY <1>3, <1>4

\* Closing the last record keeps the lineage well formed.
LEMMA ClosedType ==
  ASSUME NEW h \in Seq(StageRecords), h # <<>>,
         NEW outcome \in {"SUCCEEDED", "ROLLED_BACK"}, NEW t \in Nat
  PROVE  Closed(h, outcome, t) \in Seq(StageRecords)
<1> DEFINE r == [h[Len(h)] EXCEPT !.outcome = outcome, !.exited = t]
<1>1. h[Len(h)] \in StageRecords
  OBVIOUS
<1>2. r \in StageRecords
  BY <1>1 DEF StageRecords
<1>3. Closed(h, outcome, t) = [h EXCEPT ![Len(h)] = r]
  BY DEF Closed
<1> QED
  BY <1>2, <1>3, LastRecordType

\* The transition window stays a sequence of ticks.
LEMMA TransitionType ==
  ASSUME NEW ticks \in Seq(Nat), NEW t \in Nat
  PROVE  PushTransition(ticks, t) \in Seq(Nat)
<1>1. CASE Len(ticks) < TransitionRecords
  BY <1>1 DEF PushTransition
<1>2. CASE ~(Len(ticks) < TransitionRecords)
  <2>1. ticks # <<>>
    BY <1>2, LimitAssumption
  <2> QED
    BY <1>2, <2>1 DEF PushTransition
<1> QED
  BY <1>1, <1>2

\* A snapshot carries a tick that is not in the future, and a generation.
LEMMA SnapshotType ==
  ASSUME TypeOK, NEW s \in Snapshots
  PROVE  s.tick \in Nat /\ s.tick <= now /\ s.gen \in Nat
<1>1. s.tick \in 0..now /\ now \in Nat
  BY DEF Snapshots, TypeOK
<1>2. s.gen \in SnapshotGens
  BY DEF Snapshots
<1>3. SnapshotGens \subseteq Nat
  BY LimitAssumption
<1>4. s.gen \in Nat
  BY <1>2, <1>3
<1> QED
  BY <1>1, <1>4

\* The rung a plan stands on has one of the six kinds, and its state is a stage
\* state.
LEMMA KindType ==
  ASSUME policyGen \in PolicyGens, NEW p \in Plans, HasStage(p)
  PROVE  /\ Kind(p) \in StageKinds
         /\ StateForStage[Kind(p)] \in StageStates
<1>1. Ladder[policyGen] \in Seq(StageKinds)
  BY LadderAssumption DEF PolicyGens
<1>2. p.index \in Nat
  BY DEF Plans
<1>3. p.index + 1 \in 1..Len(Ladder[policyGen])
  BY <1>1, <1>2 DEF HasStage
<1>4. Kind(p) \in StageKinds
  BY <1>1, <1>3 DEF Kind
<1> QED
  BY <1>4 DEF StateForStage, StageKinds, StageStates

\* The state a recurrence or a failed stage leads to is a state.
LEMMA DecidedStates ==
  ASSUME policyGen \in PolicyGens
  PROVE  StateOnRecurrence \in RecoveryStates /\ StateOnFailure \in RecoveryStates
BY PolicyAssumption
   DEF StateOnRecurrence, StateOnFailure, RecoveryStates, LiveStates, TerminalStates

-----------------------------------------------------------------------------
(* What the handlers make of a plan.                                       *)

\* An empty slot and a new plan are plans.
LEMMA NewPlanType ==
  ASSUME TypeOK
  PROVE  NoPlan \in Plans /\ NewPlan \in Plans
<1> DEFINE rec == [index |-> 0, generation |-> 1, attempt |-> 1,
                   outcome |-> "PENDING", exited |-> 0]
           s0 == StateForStage[Ladder[policyGen][1]]
<1>1. NoPlan \in Plans
  BY DEF NoPlan, Plans
<1>2. s0 \in RecoveryStates
  <2>1. Ladder[policyGen][1] = "OBSERVE"
    BY LadderAssumption DEF TypeOK, ValidLadder
  <2> QED
    BY <2>1 DEF StateForStage, RecoveryStates, LiveStates, StageStates
<1>3. <<rec>> \in Seq(StageRecords)
  BY DEF StageRecords
<1>4. epoch \in Nat /\ policyGen \in Nat /\ now \in Nat
  BY LadderAssumption DEF TypeOK, PolicyGens
<1>5. NewPlan = [NoPlan EXCEPT !.state = s0, !.epoch = epoch,
                 !.policyGen = policyGen, !.generation = 1, !.stageGen = 1,
                 !.attempt = 1, !.totalAttempts = 1, !.attemptsInStage = 1,
                 !.created = now, !.updated = now, !.history = <<rec>>]
  BY DEF NewPlan
<1>6. NewPlan \in Plans
  BY <1>1, <1>2, <1>3, <1>4, <1>5 DEF Plans
<1> QED
  BY <1>1, <1>6

\* An imported plan is a plan.
LEMMA ImportedType ==
  ASSUME NEW p \in Plans, NEW e \in Nat
  PROVE  Imported(p, e) \in Plans
<1> DEFINE q == Invalidated(p)
<1>1. q \in Plans
  BY InvalidatedType
<1> DEFINE n == IF IsLive(p) THEN 1 ELSE q.notes
<1>2. [q EXCEPT !.epoch = e, !.notes = n] \in Plans
  <2> HIDE DEF q
  <2>1. n \in Nat
    BY <1>1 DEF Plans
  <2> HIDE DEF n
  <2> QED
    BY <1>1, <2>1 DEF Plans
<1>3. p.state # "ABSENT" => Imported(p, e) = [q EXCEPT !.epoch = e, !.notes = n]
  BY <1>1 DEF Imported, Plans
<1>4. p.state = "ABSENT" => Imported(p, e) = p
  BY DEF Imported
<1> HIDE DEF q, n
<1> QED
  BY <1>2, <1>3, <1>4

\* A rollback records the compensation and closes the open stage record.
LEMMA RolledBackType ==
  ASSUME TypeOK, NEW p \in Plans
  PROVE  RolledBack(p) \in Plans
<1> DEFINE st == IF Len(p.rollbacks) + 1 >= MaxRollbacks THEN "FAILED" ELSE "ROLLED_BACK"
           h == IF HasStage(p) /\ (HasPending(p) \/ ~HistoryFull(p))
                THEN Closed(Opened(p), "ROLLED_BACK", now) ELSE p.history
           tr == PushTransition(p.transitions, now)
           rs == Append(p.rollbacks, now)
           until == now + Cooldown
<1>1. st \in RecoveryStates
  BY DEF RecoveryStates, LiveStates, TerminalStates
<1>2. now \in Nat
  BY DEF TypeOK
<1>3. Closed(Opened(p), "ROLLED_BACK", now) \in Seq(StageRecords)
  BY <1>2, OpenedType, ClosedType
<1>4. h \in Seq(StageRecords)
  BY <1>3 DEF Plans
<1>5. tr \in Seq(Nat)
  BY <1>2, TransitionType DEF Plans
<1>6. rs \in Seq(Nat)
  BY <1>2 DEF Plans
<1>7. until \in Nat
  BY <1>2, PolicyAssumption
<1>8. RolledBack(p) =
        [p EXCEPT !.state = st, !.history = h, !.rollbacks = rs,
                  !.updated = now, !.attemptsInStage = 0,
                  !.cooldownUntil = until, !.transitions = tr]
  BY DEF RolledBack, Plans
<1> HIDE DEF st, h, tr, rs, until
<1>9. [p EXCEPT !.state = st, !.history = h, !.rollbacks = rs] \in Plans
  BY <1>1, <1>4, <1>6 DEF Plans
<1>10. ASSUME NEW x \in Plans
       PROVE  [x EXCEPT !.updated = now, !.attemptsInStage = 0, !.cooldownUntil = until,
                        !.transitions = tr] \in Plans
  BY <1>2, <1>5, <1>7 DEF Plans
<1> QED
  BY <1>8, <1>9, <1>10

\* A rebound plan is a plan.
LEMMA ReboundType ==
  ASSUME TypeOK, NEW p \in Plans
  PROVE  Rebound(p) \in Plans
<1>1. epoch \in Nat /\ policyGen \in Nat /\ now \in Nat
  BY DEF TypeOK, PolicyGens
<1> QED
  BY <1>1 DEF Plans, Rebound

\* A revalidated plan is a plan, on the rung it was on.
LEMMA RevalidatedType ==
  ASSUME TypeOK, NEW p \in Plans, HasStage(p)
  PROVE  Revalidated(p) \in Plans
<1> DEFINE s == StateForStage[Kind(p)]
           b == Rebound(p)
           g == b.generation + 1
           sg == b.stageGen + 1
           a == p.totalAttempts + 1
           n == b.totalAttempts + 1
           q == [b EXCEPT !.generation = g, !.stageGen = sg, !.attempt = a,
                          !.totalAttempts = n, !.state = s]
<1>1. s \in RecoveryStates
  BY KindType DEF TypeOK, RecoveryStates, LiveStates
<1>2. b \in Plans
  BY ReboundType
<1>3. g \in Nat /\ sg \in Nat /\ a \in Nat /\ n \in Nat
  <2>1. /\ b.generation \in Nat /\ b.stageGen \in Nat
        /\ b.totalAttempts \in Nat /\ p.totalAttempts \in Nat
    BY <1>2 DEF Plans
  <2> QED
    BY <2>1
<1>5. Revalidated(p) = [q EXCEPT !.history = Opened(q)]
  BY DEF Revalidated
<1> HIDE DEF s, b, g, sg, a, n
<1>4. q \in Plans
  BY <1>1, <1>2, <1>3 DEF Plans
<1> HIDE DEF q
<1> QED
  BY <1>4, <1>5, OpenedType, HistoryType

\* A plan whose record is closed as a success, on the next rung.
LEMMA ClimbedType ==
  ASSUME TypeOK, NEW p \in Plans, NEW s \in Snapshots
  PROVE  Climbed(p, s) \in Plans
<1>1. s.tick \in Nat
  BY SnapshotType
<1> DEFINE h == Closed(Opened(p), "SUCCEEDED", s.tick)
           n == p.index + 1
<1>2. h \in Seq(StageRecords)
  BY <1>1, OpenedType, ClosedType
<1>3. Climbed(p, s) = [p EXCEPT !.history = h, !.index = n]
  BY DEF Climbed
<1>4. n \in Nat
  BY PlanFields
<1> HIDE DEF h, n
<1>5. [p EXCEPT !.history = h, !.index = n] \in Plans
  BY <1>2, <1>4, Zenon DEF Plans
<1> QED
  BY <1>3, <1>5, Zenon

\* A rung that is not the last one has a next one.
LEMMA NextRung ==
  ASSUME TypeOK, NEW p \in Plans, NEW s \in Snapshots,
         HasStage(p), Kind(p) # "COMPLETE"
  PROVE  HasStage(Climbed(p, s))
<1> DEFINE l == Ladder[policyGen]
<1>1. l \in Seq(StageKinds) /\ l[Len(l)] = "COMPLETE"
  BY LadderAssumption DEF TypeOK, ValidLadder
<1>2. p.index \in Nat /\ p.index < Len(l)
  BY DEF Plans, HasStage
<1>3. Len(l) \in Nat
  BY <1>1
<1>4. p.index + 1 # Len(l)
  BY <1>1 DEF Kind
<1>5. p.index + 1 < Len(l)
  BY <1>2, <1>3, <1>4
<1>6. Climbed(p, s).index = p.index + 1
  BY DEF Climbed, Plans
<1> QED
  BY <1>5, <1>6 DEF HasStage

\* A plan that entered a rung is a plan.
LEMMA EnteredType ==
  ASSUME TypeOK, NEW q \in Plans, NEW s \in Snapshots, HasStage(q)
  PROVE  Entered(q, s) \in Plans
<1>1. s.tick \in Nat
  BY SnapshotType
<1> DEFINE st == StateForStage[Kind(q)]
           tr == PushTransition(q.transitions, s.tick)
           sg == q.stageGen + 1
           n == q.totalAttempts + 1
           r == [q EXCEPT !.stageGen = sg, !.attempt = n, !.totalAttempts = n, !.attemptsInStage = 1,
                          !.state = st, !.updated = s.tick, !.transitions = tr]
<1>2. st \in RecoveryStates
  BY KindType DEF TypeOK, RecoveryStates, LiveStates
<1>3. tr \in Seq(Nat)
  BY <1>1, TransitionType DEF Plans
<1>4. Entered(q, s) = [r EXCEPT !.history = Opened(r)]
  BY Zenon DEF Entered
<1>5. sg \in Nat /\ n \in Nat
  BY PlanFields
<1> HIDE DEF st, tr, sg, n
<1>7. r \in Plans
  BY <1>1, <1>2, <1>3, <1>5, Zenon DEF Plans
<1> HIDE DEF r
<1> QED
  BY <1>4, <1>7, OpenedType, HistoryType

\* A committed plan is a plan.
LEMMA CommittedType ==
  ASSUME TypeOK, NEW p \in Plans, NEW s \in Snapshots
  PROVE  /\ CompletionKey(p, s.gen) \in CompletionKeys
         /\ Committed(p, s) \in Plans
<1>1. s.tick \in Nat /\ s.gen \in Nat
  BY SnapshotType
<1>2. CompletionKey(p, s.gen) \in CompletionKeys
  BY <1>1 DEF CompletionKey, CompletionKeys, Plans
<1> DEFINE h == Closed(Opened(p), "SUCCEEDED", s.tick)
           c == Append(p.completions, [key |-> CompletionKey(p, s.gen), state |-> "COMMITTED"])
           tr == PushTransition(p.transitions, s.tick)
<1>3. h \in Seq(StageRecords)
  BY <1>1, OpenedType, ClosedType
<1>4. c \in Seq(CompletionRecords)
  BY <1>2 DEF Plans, CompletionRecords
<1>5. tr \in Seq(Nat)
  BY <1>1, TransitionType DEF Plans
<1>6. Committed(p, s) = [p EXCEPT !.history = h, !.completions = c, !.state = "COMPLETED",
                                  !.updated = s.tick, !.transitions = tr]
  BY Zenon DEF Committed
<1>7. "COMPLETED" \in RecoveryStates
  BY DEF RecoveryStates, TerminalStates
<1> HIDE DEF h, c, tr
<1>8. [p EXCEPT !.history = h, !.completions = c, !.state = "COMPLETED",
                !.updated = s.tick, !.transitions = tr] \in Plans
  BY <1>1, <1>3, <1>4, <1>5, <1>7, Zenon DEF Plans
<1> QED
  BY <1>2, <1>6, <1>8, Zenon

\* A plan with a failed completion is a plan.
LEMMA PartialType ==
  ASSUME TypeOK, NEW p \in Plans, NEW s \in Snapshots, p.state \in LiveStates
  PROVE  PartiallyApplied(p, s) \in Plans
<1> DEFINE c == Append(p.completions, [key |-> CompletionKey(p, s.gen), state |-> "FAILED"])
           k == p.attemptsInStage + 1
           n == p.totalAttempts + 1
           st == IF RollbackOnFailure THEN "ROLLING_BACK" ELSE p.state
<1>1. [key |-> CompletionKey(p, s.gen), state |-> "FAILED"] \in CompletionRecords
  BY CommittedType DEF CompletionRecords
<1>2. c \in Seq(CompletionRecords)
  BY <1>1 DEF Plans
<1>3. k \in Nat /\ n \in Nat
  BY PlanFields
<1>4. st \in RecoveryStates
  BY DEF RecoveryStates, LiveStates
<1>5. PartiallyApplied(p, s) = [p EXCEPT !.completions = c, !.attemptsInStage = k,
                                         !.totalAttempts = n, !.state = st]
  BY Zenon DEF PartiallyApplied
<1> HIDE DEF c, k, n, st
<1>6. [p EXCEPT !.completions = c, !.attemptsInStage = k, !.totalAttempts = n,
                !.state = st] \in Plans
  BY <1>2, <1>3, <1>4, Zenon DEF Plans
<1> QED
  BY <1>5, <1>6, Zenon

-----------------------------------------------------------------------------
(* Type correctness.                                                       *)

\* Storing a plan in a slot preserves the types.
LEMMA UpdateType ==
  ASSUME TypeOK, NEW i \in PlanIds, NEW q \in Plans, Update(i, q)
  PROVE  TypeOK'
BY DEF TypeOK, Update, PolicyGens

\* Every outcome of advance stores a plan.
LEMMA AdvanceType ==
  ASSUME TypeOK, NEW i \in PlanIds, Advance(i)
  PROVE  TypeOK'
<1> DEFINE p == plans[i]
<1>1. p \in Plans /\ policyGen \in PolicyGens
  BY DEF TypeOK
<1>2. PICK s \in Snapshots :
        \/ AdvanceStale(i, s)
        \/ AdvanceOutlived(i, s)
        \/ AdvanceCrossedBoundary(i, s)
        \/ AdvanceRecurrence(i, s)
        \/ AdvanceRateExceeded(i, s)
        \/ AdvanceBudgetExhausted(i, s)
        \/ AdvancePartial(i, s)
        \/ AdvanceHistoryFull(i, s)
        \/ AdvanceCommit(i, s)
        \/ AdvanceStage(i, s)
        \/ AdvanceExhausted(i, s)
  BY DEF Advance, AdvanceWith
<1>3. CASE AdvanceStale(i, s)
  BY <1>1, <1>3, InvalidatedType, UpdateType DEF AdvanceStale
<1>4. CASE AdvanceOutlived(i, s)
  BY <1>1, <1>4, FailedType, UpdateType DEF AdvanceOutlived
<1>5. CASE AdvanceCrossedBoundary(i, s)
  BY <1>1, <1>5, InvalidatedType, UpdateType DEF AdvanceCrossedBoundary
<1>6. CASE AdvanceRecurrence(i, s)
  BY <1>1, <1>6, StateType, DecidedStates, UpdateType DEF AdvanceRecurrence
<1>7. CASE AdvanceRateExceeded(i, s)
  <2>1. "PAUSED" \in RecoveryStates
    BY DEF RecoveryStates, LiveStates
  <2> QED
    BY <1>1, <1>7, <2>1, StateType, UpdateType DEF AdvanceRateExceeded
<1>8. CASE AdvanceBudgetExhausted(i, s)
  BY <1>1, <1>8, FailedType, StateType, DecidedStates, UpdateType DEF AdvanceBudgetExhausted
<1>9. CASE AdvancePartial(i, s)
  BY <1>1, <1>9, PartialType, UpdateType
     DEF AdvancePartial, Allowed, Settled, Evaluated, Coherent, IsLive
<1>10. CASE AdvanceHistoryFull(i, s)
  <2> DEFINE h == Closed(Opened(p), "SUCCEEDED", s.tick)
  <2>1. h \in Seq(StageRecords)
    BY <1>1, SnapshotType, OpenedType, ClosedType
  <2>2. Failed(p) \in Plans /\ Failed([p EXCEPT !.history = h]) \in Plans
    BY <1>1, <2>1, HistoryType, FailedType
  <2>3. Update(i, Failed(p)) \/ Update(i, Failed([p EXCEPT !.history = h]))
    BY <1>10 DEF AdvanceHistoryFull
  <2> QED
    BY <2>2, <2>3, UpdateType
<1>11. CASE AdvanceCommit(i, s)
  BY <1>1, <1>11, CommittedType, UpdateType DEF AdvanceCommit
<1>12. CASE AdvanceStage(i, s)
  <2>1. HasStage(p) /\ Kind(p) # "COMPLETE" /\ Update(i, Entered(Climbed(p, s), s))
    BY <1>12 DEF AdvanceStage, Verified, Allowed, Settled, Evaluated, Coherent
  <2>2. Climbed(p, s) \in Plans /\ HasStage(Climbed(p, s))
    BY <1>1, <2>1, ClimbedType, NextRung
  <2> QED
    BY <2>1, <2>2, EnteredType, UpdateType
<1>13. CASE AdvanceExhausted(i, s)
  BY <1>1, <1>13, ClimbedType, FailedType, UpdateType DEF AdvanceExhausted
<1> QED
  BY <1>2, <1>3, <1>4, <1>5, <1>6, <1>7, <1>8, <1>9, <1>10, <1>11, <1>12, <1>13

\* Every other operation on a plan stores a plan.
LEMMA PlanStepType ==
  ASSUME TypeOK, NEW i \in PlanIds, PlanNext(i)
  PROVE  TypeOK'
<1> DEFINE p == plans[i]
<1>1. p \in Plans
  BY DEF TypeOK
<1>2. CASE CreatePlan(i)
  BY <1>2, NewPlanType, UpdateType DEF CreatePlan
<1>3. CASE ErasePlan(i)
  BY <1>3, NewPlanType, UpdateType DEF ErasePlan
<1>5. CASE RequireRevalidation(i)
  <2>1. [Invalidated(p) EXCEPT !.attemptsInStage = 0] \in Plans
    <3> DEFINE q == Invalidated(p)
    <3>1. q \in Plans /\ 0 \in Nat
      BY <1>1, InvalidatedType
    <3> HIDE DEF q
    <3>2. [q EXCEPT !.attemptsInStage = 0] \in Plans
      BY <3>1, Zenon DEF Plans
    <3> QED
      BY <3>2 DEF q
  <2> QED
    BY <1>5, <2>1, UpdateType DEF RequireRevalidation
<1>6. CASE Pause(i)
  <2>1. "PAUSED" \in RecoveryStates
    BY DEF RecoveryStates, LiveStates
  <2> QED
    BY <1>1, <1>6, <2>1, StateType, UpdateType DEF Pause
<1>7. CASE Resume(i)
  <2> DEFINE st == StateForStage[Kind(p)]
  <2>1. st \in RecoveryStates /\ now \in Nat
    BY <1>1, <1>7, KindType DEF Resume, Resumable, TypeOK, RecoveryStates, LiveStates
  <2>2. Update(i, [p EXCEPT !.state = st, !.attemptsInStage = 0, !.updated = now])
    BY <1>7 DEF Resume
  <2> HIDE DEF st, p
  <2>3. [p EXCEPT !.state = st, !.attemptsInStage = 0, !.updated = now] \in Plans
    BY <1>1, <2>1 DEF Plans
  <2> QED
    BY <2>2, <2>3, UpdateType
<1>8. CASE RollbackStale(i)
  BY <1>1, <1>8, InvalidatedType, UpdateType DEF RollbackStale
<1>9. CASE RollbackHistoryFull(i)
  BY <1>1, <1>9, FailedType, UpdateType DEF RollbackHistoryFull
<1>10. CASE Rollback(i)
  BY <1>1, <1>10, RolledBackType, UpdateType DEF Rollback
<1>11. CASE RevalidateNoStage(i)
  BY <1>1, <1>11, FailedType, UpdateType DEF RevalidateNoStage
<1>12. CASE RevalidateHistoryFull(i)
  BY <1>1, <1>12, FailedType, UpdateType DEF RevalidateHistoryFull
<1>13. CASE Revalidate(i)
  BY <1>1, <1>13, RevalidatedType, UpdateType DEF Revalidate, Revalidatable
<1>14. CASE RevalidateExhausted(i)
  <2>1. Rebound(p) \in Plans
    BY <1>1, ReboundType
  <2>2. [Rebound(p) EXCEPT !.generation = @ + 1] \in Plans
    <3> DEFINE g == Rebound(p).generation + 1
    <3>1. g \in Nat
      BY <2>1, PlanFields
    <3> HIDE DEF g
    <3>2. [Rebound(p) EXCEPT !.generation = g] \in Plans
      BY <2>1, <3>1, Zenon DEF Plans
    <3> QED
      BY <3>2 DEF g
  <2>3. \/ Update(i, Failed(Rebound(p)))
        \/ Update(i, Failed([Rebound(p) EXCEPT !.generation = @ + 1]))
    BY <1>14 DEF RevalidateExhausted
  <2> QED
    BY <2>1, <2>2, <2>3, FailedType, UpdateType
<1>15. CASE Advance(i)
  BY <1>15, AdvanceType
<1> QED
  BY <1>2, <1>3, <1>5, <1>6, <1>7, <1>8, <1>9, <1>10, <1>11, <1>12, <1>13, <1>14, <1>15
     DEF PlanNext

\* The initial state is well typed.
LEMMA TypeInit ==
  ASSUME Init
  PROVE  TypeOK
<1>1. NoPlan \in Plans
  BY DEF NoPlan, Plans
<1> QED
  BY <1>1, LadderAssumption DEF Init, TypeOK, PolicyGens

\* Every step keeps the types.
LEMMA TypeStep ==
  ASSUME TypeOK, [Next]_vars
  PROVE  TypeOK'
<1>1. CASE UNCHANGED vars
  BY <1>1 DEF vars, TypeOK
<1>2. CASE Tick
  BY <1>2 DEF Tick, TypeOK
<1>3. CASE BeginEpoch
  <2>1. \A i \in PlanIds : Invalidated(plans[i]) \in Plans
    BY InvalidatedType DEF TypeOK
  <2>2. PICK e \in (epoch + 1)..MaxEpoch :
          /\ epoch' = e
          /\ plans' = [i \in PlanIds |->
                         IF plans[i].epoch = e THEN plans[i] ELSE Invalidated(plans[i])]
          /\ UNCHANGED <<policyGen, now>>
    BY <1>3 DEF BeginEpoch
  <2>3. e \in Nat
    BY LimitAssumption DEF TypeOK
  <2>4. plans' \in [PlanIds -> Plans]
    BY <2>1, <2>2 DEF TypeOK
  <2> QED
    BY <2>2, <2>3, <2>4 DEF TypeOK
<1>4. CASE ReplacePolicy
  <2>1. \A i \in PlanIds : Invalidated(plans[i]) \in Plans
    BY InvalidatedType DEF TypeOK
  <2>2. PICK g \in PolicyGens :
          /\ policyGen' = g
          /\ plans' = [i \in PlanIds |->
                         IF plans[i].policyGen = g THEN plans[i] ELSE Invalidated(plans[i])]
          /\ UNCHANGED <<epoch, now>>
    BY <1>4 DEF ReplacePolicy
  <2>3. plans' \in [PlanIds -> Plans]
    BY <2>1, <2>2 DEF TypeOK
  <2> QED
    BY <2>2, <2>3 DEF TypeOK
<1>5. CASE ImportState
  <2>1. PICK e \in (epoch + 1)..MaxEpoch :
          /\ epoch' = e
          /\ plans' = [i \in PlanIds |-> Imported(plans[i], e)]
          /\ UNCHANGED <<policyGen, now>>
    BY <1>5 DEF ImportState
  <2>2. e \in Nat
    BY LimitAssumption DEF TypeOK
  <2>3. ASSUME NEW i \in PlanIds PROVE Imported(plans[i], e) \in Plans
    BY <2>2, ImportedType DEF TypeOK
  <2>4. plans' \in [PlanIds -> Plans]
    BY <2>1, <2>3
  <2> QED
    BY <2>1, <2>2, <2>4 DEF TypeOK
<1>6. CASE NotifyChange
  <2>1. \A i \in PlanIds : Invalidated(plans[i]) \in Plans
    BY InvalidatedType DEF TypeOK
  <2>2. PICK S \in SUBSET PlanIds :
          /\ plans' = [i \in PlanIds |-> IF i \in S THEN Invalidated(plans[i]) ELSE plans[i]]
          /\ UNCHANGED <<epoch, policyGen, now>>
    BY <1>6 DEF NotifyChange
  <2>3. plans' \in [PlanIds -> Plans]
    BY <2>1, <2>2 DEF TypeOK
  <2> QED
    BY <2>2, <2>3 DEF TypeOK
<1>7. CASE \E i \in PlanIds : PlanNext(i)
  BY <1>7, PlanStepType
<1> QED
  BY <1>1, <1>2, <1>3, <1>4, <1>5, <1>6, <1>7 DEF Next

\* Type correctness: every reachable state has the declared types, and the stored
\* policy is always one of the ladders, so no handler looks a rung up in a ladder
\* that does not exist.
THEOREM TypeCorrect == Spec => []TypeOK
<1>1. Init => TypeOK
  BY TypeInit
<1>2. TypeOK /\ [Next]_vars => TypeOK'
  BY TypeStep
<1> QED
  BY <1>1, <1>2, PTL DEF Spec

-----------------------------------------------------------------------------
(* Bindings, stage states and completion lineage, by one induction: a      *)
(* handler that trusts the flag needs the bindings, the stage state needs  *)
(* both, and a committed completion is final because no handler of a live  *)
(* plan ever sees one.                                                     *)

Sound(p) == BindingOf(p) /\ StageStateOf(p) /\ LineageOf(p)
IInv == TypeOK /\ \A i \in PlanIds : Sound(plans[i])

\* The lineage is kept by a handler that touches no completion, takes no plan out
\* of a terminal state and completes none.
LEMMA LineageKept ==
  ASSUME NEW p, NEW q, LineageOf(p), q.completions = p.completions,
         p.state \in TerminalStates => q.state \in TerminalStates,
         q.state = "COMPLETED" => p.state = "COMPLETED"
  PROVE  LineageOf(q)
<1>1. UniqueKeys(q)
  BY DEF LineageOf, UniqueKeys
<1>2. CommittedIsLast(q)
  BY DEF LineageOf, CommittedIsLast
<1>3. CompletedIsCommitted(q)
  BY DEF LineageOf, CompletedIsCommitted
<1> QED
  BY <1>1, <1>2, <1>3 DEF LineageOf

\* A terminal or empty slot binds nothing and shows no stage.
LEMMA NotLiveSound ==
  ASSUME NEW q, q.state \in TerminalStates \cup {"ABSENT"}, LineageOf(q)
  PROVE  Sound(q)
BY DEF Sound, BindingOf, StageStateOf, IsLive, LiveStates, StageStates, TerminalStates

\* A live plan is in no terminal state.
LEMMA LiveNotTerminal ==
  ASSUME NEW p, IsLive(p)
  PROVE  p.state \notin TerminalStates /\ p.state # "ABSENT"
BY DEF IsLive, LiveStates, StageStates, TerminalStates

\* Failing a plan keeps its lineage: FAILED is terminal too.
LEMMA FailedSound ==
  ASSUME NEW p \in Plans, LineageOf(p)
  PROVE  Sound(Failed(p))
<1>1. Failed(p).state = "FAILED" /\ Failed(p).completions = p.completions
  BY DEF Failed, Plans
<1>2. "FAILED" \in TerminalStates
  BY DEF TerminalStates
<1>3. LineageOf(Failed(p))
  BY <1>1, <1>2, LineageKept
<1> QED
  BY <1>1, <1>2, <1>3, NotLiveSound

\* What flagging a plan leaves alone.
LEMMA FlaggedFields ==
  ASSUME NEW p \in Plans, NEW cap
  PROVE  /\ Flagged(p, cap).completions = p.completions
         /\ Flagged(p, cap).state = "REVALIDATION_REQUIRED"
         /\ Flagged(p, cap).revalidationRequired = TRUE
BY DEF Flagged, Plans

\* A flagged plan needs no binding, and a live plan has committed nothing.
LEMMA FlaggedSound ==
  ASSUME NEW p \in Plans, NEW cap, IsLive(p), Sound(p)
  PROVE  Sound(Flagged(p, cap))
<1> DEFINE q == Flagged(p, cap)
<1>1. q.completions = p.completions /\ q.state = "REVALIDATION_REQUIRED"
      /\ q.revalidationRequired = TRUE
  BY FlaggedFields
<1> HIDE DEF q
<1>2. LineageOf(q)
  BY <1>1, LiveNotTerminal, LineageKept DEF Sound
<1>3. Sound(q)
  BY <1>1, <1>2 DEF Sound, BindingOf, StageStateOf, StageStates
<1> QED
  BY <1>3 DEF q

\* Invalidating a plan keeps it sound, since the flag goes with the state and a
\* terminal plan is left alone.
LEMMA InvalidatedSound ==
  ASSUME NEW p \in Plans, Sound(p)
  PROVE  Sound(Invalidated(p)) /\ Sound(InvalidatedDraft(p))
BY FlaggedSound DEF Invalidated, InvalidatedDraft

\* A live plan that keeps its bindings and its flag, completes nothing and shows
\* no stage stays sound, whatever else it changes.
LEMMA ParkedSound ==
  ASSUME NEW p, NEW q, Sound(p), IsLive(p),
         q.state \in {"PAUSED", "ROLLED_BACK", "FAILED"},
         q.revalidationRequired = p.revalidationRequired,
         q.epoch = p.epoch, q.policyGen = p.policyGen, q.completions = p.completions
  PROVE  Sound(q)
<1>1. LineageOf(q)
  BY LiveNotTerminal, LineageKept DEF Sound
<1>2. BindingOf(q)
  BY DEF Sound, BindingOf, Bound
<1>3. StageStateOf(q)
  BY DEF StageStateOf, StageStates
<1> QED
  BY <1>1, <1>2, <1>3 DEF Sound

\* Storing a sound plan in a slot keeps every slot sound.
LEMMA StoredSound ==
  ASSUME IInv, NEW i \in PlanIds, NEW q \in Plans, Sound(q), Update(i, q)
  PROVE  IInv'
<1>1. TypeOK'
  BY UpdateType DEF IInv
<1>2. ASSUME NEW j \in PlanIds PROVE Sound(plans[j])'
  <2>1. epoch' = epoch /\ policyGen' = policyGen
    BY DEF Update
  <2>2. plans'[j] = IF j = i THEN q ELSE plans[j]
    BY DEF Update, IInv, TypeOK
  <2>3. Sound(plans'[j])
    BY <2>2 DEF IInv
  <2> QED
    BY <2>1, <2>3 DEF Sound, BindingOf, Bound, StageStateOf, HasStage, Kind, LineageOf, IsLive,
                      UniqueKeys, CommittedIsLast, CompletedIsCommitted
<1> QED
  BY <1>1, <1>2 DEF IInv

\* What a rollback leaves alone.
LEMMA RolledBackFields ==
  ASSUME NEW p \in Plans
  PROVE  /\ RolledBack(p).state \in {"ROLLED_BACK", "FAILED"}
         /\ RolledBack(p).revalidationRequired = p.revalidationRequired
         /\ RolledBack(p).epoch = p.epoch /\ RolledBack(p).policyGen = p.policyGen
         /\ RolledBack(p).completions = p.completions
BY DEF RolledBack, Plans

\* What a revalidation makes of the bindings and of the state.
LEMMA RevalidatedFields ==
  ASSUME NEW p \in Plans
  PROVE  /\ Revalidated(p).state = StateForStage[Kind(p)]
         /\ Revalidated(p).revalidationRequired = FALSE
         /\ Revalidated(p).epoch = epoch /\ Revalidated(p).policyGen = policyGen
         /\ Revalidated(p).index = p.index
         /\ Revalidated(p).completions = p.completions
BY DEF Revalidated, Rebound, Plans

\* A plan in the state of its rung, bound and not flagged, is sound.
LEMMA OnStageSound ==
  ASSUME NEW q, Bound(q), HasStage(q), q.revalidationRequired = FALSE,
         q.state = StateForStage[Kind(q)], q.state \in StageStates, LineageOf(q)
  PROVE  Sound(q)
<1>1. BindingOf(q)
  BY DEF BindingOf
<1>2. StageStateOf(q)
  BY DEF StageStateOf, StageStates
<1> QED
  BY <1>1, <1>2 DEF Sound

\* A revalidated plan is sound, although it was in no particular state before.
LEMMA RevalidatedSound ==
  ASSUME TypeOK, NEW p \in Plans, IsLive(p), HasStage(p), LineageOf(p)
  PROVE  Sound(Revalidated(p))
<1> DEFINE q == Revalidated(p)
<1>1. /\ q.revalidationRequired = FALSE /\ q.epoch = epoch /\ q.policyGen = policyGen
      /\ q.index = p.index /\ q.completions = p.completions
      /\ q.state = StateForStage[Kind(p)]
  BY RevalidatedFields
<1> HIDE DEF q
<1>2. Bound(q) /\ HasStage(q) /\ Kind(q) = Kind(p)
  BY <1>1 DEF Bound, HasStage, Kind
<1>3. q.state \in StageStates /\ q.state # "COMPLETED"
  BY <1>1, KindType DEF TypeOK, StageStates
<1>4. LineageOf(q)
  BY <1>1, <1>3, LiveNotTerminal, LineageKept
<1>5. Sound(q)
  BY <1>1, <1>2, <1>3, <1>4, OnStageSound
<1> QED
  BY <1>5 DEF q

\* What entering the next rung makes of a plan.
LEMMA EnteredFields ==
  ASSUME NEW p \in Plans, NEW s \in Snapshots
  PROVE  LET c == Climbed(p, s)  q == Entered(c, s) IN
         /\ c.revalidationRequired = p.revalidationRequired
         /\ c.epoch = p.epoch /\ c.policyGen = p.policyGen
         /\ c.completions = p.completions /\ c.state = p.state
         /\ q.state = StateForStage[Kind(c)]
         /\ q.revalidationRequired = c.revalidationRequired
         /\ q.epoch = c.epoch /\ q.policyGen = c.policyGen /\ q.index = c.index
         /\ q.completions = c.completions
BY DEF Entered, Climbed, Plans

\* A plan that entered its next rung is sound.
LEMMA EnteredSound ==
  ASSUME TypeOK, NEW p \in Plans, NEW s \in Snapshots, Verified(p, s),
         Kind(p) # "COMPLETE", LineageOf(p)
  PROVE  Sound(Entered(Climbed(p, s), s))
<1> DEFINE c == Climbed(p, s)
           q == Entered(c, s)
<1>1. /\ HasStage(p) /\ IsLive(p) /\ Bound(p) /\ ~p.revalidationRequired
  BY DEF Verified, Allowed, Settled, Evaluated, Coherent
<1>2. c \in Plans /\ HasStage(c)
  BY <1>1, ClimbedType, NextRung
<1>3. StateForStage[Kind(c)] \in StageStates
  BY <1>2, KindType DEF TypeOK
<1>4. /\ q.state = StateForStage[Kind(c)] /\ q.revalidationRequired = p.revalidationRequired
      /\ q.epoch = p.epoch /\ q.policyGen = p.policyGen /\ q.index = c.index
      /\ q.completions = p.completions
  BY EnteredFields
<1> HIDE DEF c, q
<1>5. HasStage(q) /\ Kind(q) = Kind(c) /\ Bound(q)
  BY <1>1, <1>2, <1>4 DEF HasStage, Kind, Bound
<1>6. q.state \in StageStates /\ q.state # "COMPLETED"
  BY <1>3, <1>4 DEF StageStates
<1>7. LineageOf(q)
  BY <1>1, <1>4, <1>6, LiveNotTerminal, LineageKept
<1>8. q.revalidationRequired = FALSE
  BY <1>1, <1>4 DEF Plans
<1>9. Sound(q)
  BY <1>4, <1>5, <1>6, <1>7, <1>8, OnStageSound
<1> QED
  BY <1>9 DEF c, q

\* A live plan holds no committed completion.
LEMMA NoCommitYet ==
  ASSUME NEW p, IsLive(p), LineageOf(p)
  PROVE  \A k \in DOMAIN p.completions : p.completions[k].state # "COMMITTED"
BY LiveNotTerminal DEF LineageOf, CommittedIsLast

\* A completion appended under a new key keeps the keys unique, and a committed
\* one can only be the last.
LEMMA AppendedLineage ==
  ASSUME NEW p \in Plans, NEW q, NEW r \in CompletionRecords, IsLive(p), LineageOf(p),
         \A k \in DOMAIN p.completions : p.completions[k].key # r.key,
         q.completions = Append(p.completions, r),
         q.state = "COMPLETED" => r.state = "COMMITTED",
         r.state = "COMMITTED" => q.state = "COMPLETED"
  PROVE  LineageOf(q)
<1> DEFINE c == p.completions
           d == Append(c, r)
<1>1. c \in Seq(CompletionRecords)
  BY DEF Plans
<1>2. /\ d \in Seq(CompletionRecords) /\ Len(d) = Len(c) + 1
      /\ \A k \in 1..Len(c) : d[k] = c[k]
      /\ d[Len(c) + 1] = r
  BY <1>1
<1>3. \A k \in DOMAIN d : k \in DOMAIN c \/ k = Len(d)
  BY <1>1, <1>2
<1>4. \A k \in DOMAIN c : d[k] = c[k] /\ c[k].state # "COMMITTED" /\ c[k].key # r.key
  BY <1>1, <1>2, NoCommitYet
<1>5. d[Len(d)] = r /\ d # <<>>
  BY <1>1, <1>2
<1>6. \A j, k \in DOMAIN c : c[j].key = c[k].key => j = k
  BY DEF LineageOf, UniqueKeys
<1> HIDE DEF c, d
<1>7. q.completions = d
  BY DEF c, d
<1>8. UniqueKeys(q)
  BY <1>3, <1>4, <1>5, <1>6, <1>7 DEF UniqueKeys
<1>9. CommittedIsLast(q)
  <2>1. "COMPLETED" \in TerminalStates
    BY DEF TerminalStates
  <2> QED
    BY <1>3, <1>4, <1>5, <1>7, <2>1 DEF CommittedIsLast
<1>10. CompletedIsCommitted(q)
  BY <1>5, <1>7 DEF CompletedIsCommitted
<1> QED
  BY <1>8, <1>9, <1>10 DEF LineageOf

\* A snapshot that passes the coherence test on the COMPLETE rung names a
\* completion that is not recorded yet.
LEMMA FreshKey ==
  ASSUME NEW p \in Plans, NEW s \in Snapshots, Allowed(p, s), Kind(p) = "COMPLETE"
  PROVE  \A k \in DOMAIN p.completions : p.completions[k].key # CompletionKey(p, s.gen)
<1>1. Bound(p) /\ s.binding = "current" /\ ~Replayed(p, s)
  BY DEF Allowed, Settled, Evaluated, Coherent
<1>2. p.epoch = epoch /\ s.binding # "staleEpoch"
  BY <1>1 DEF Bound
<1> QED
  BY <1>1, <1>2 DEF Replayed

\* A bound, unflagged plan that keeps its rung and either its state or a state
\* that shows no stage stays sound.
LEMMA DecidedSound ==
  ASSUME NEW p, NEW q, Sound(p), Bound(p), p.revalidationRequired = FALSE,
         q.revalidationRequired = FALSE, q.epoch = p.epoch, q.policyGen = p.policyGen,
         q.index = p.index, q.state \in {"ROLLING_BACK", "PAUSED", "FAILED", p.state},
         LineageOf(q)
  PROVE  Sound(q)
<1>1. BindingOf(q)
  BY DEF BindingOf, Bound
<1>2. StageStateOf(q)
  BY DEF Sound, StageStateOf, StageStates, HasStage, Kind
<1> QED
  BY <1>1, <1>2 DEF Sound

\* The states a decision of advance may give a live plan complete nothing.
LEMMA DecidedNotCompleted ==
  ASSUME policyGen \in PolicyGens
  PROVE  /\ StateOnRecurrence \in {"ROLLING_BACK", "PAUSED", "FAILED"}
         /\ StateOnFailure \in {"ROLLING_BACK", "FAILED"}
BY PolicyAssumption DEF StateOnRecurrence, StateOnFailure

\* A decision that only changes the state of an evaluated plan keeps it sound.
LEMMA RestatedSound ==
  ASSUME NEW p \in Plans, Sound(p), IsLive(p), Bound(p), ~p.revalidationRequired,
         NEW st \in {"ROLLING_BACK", "PAUSED", "FAILED"}
  PROVE  Sound([p EXCEPT !.state = st])
<1> DEFINE q == [p EXCEPT !.state = st]
<1>1. /\ q.state = st /\ q.revalidationRequired = p.revalidationRequired
      /\ q.epoch = p.epoch /\ q.policyGen = p.policyGen /\ q.index = p.index
      /\ q.completions = p.completions
  BY DEF Plans
<1>2. p.revalidationRequired = FALSE
  BY DEF Plans
<1> HIDE DEF q
<1>3. LineageOf(q)
  BY <1>1, LiveNotTerminal, LineageKept DEF Sound
<1>4. Sound(q)
  BY <1>1, <1>2, <1>3, DecidedSound
<1> QED
  BY <1>4 DEF q

\* A failed completion keeps the lineage: its key is new.
LEMMA PartialSound ==
  ASSUME TypeOK, NEW p \in Plans, NEW s \in Snapshots, Sound(p), Allowed(p, s),
         Kind(p) = "COMPLETE"
  PROVE  Sound(PartiallyApplied(p, s))
<1> DEFINE q == PartiallyApplied(p, s)
           r == [key |-> CompletionKey(p, s.gen), state |-> "FAILED"]
<1>1. IsLive(p) /\ Bound(p) /\ p.revalidationRequired = FALSE /\ LineageOf(p)
  BY DEF Allowed, Settled, Evaluated, Coherent, Plans, Sound
<1>2. /\ q.state \in {"ROLLING_BACK", p.state}
      /\ q.revalidationRequired = p.revalidationRequired
      /\ q.epoch = p.epoch /\ q.policyGen = p.policyGen /\ q.index = p.index
      /\ q.completions = Append(p.completions, r)
  BY DEF PartiallyApplied, Plans
<1>3. r \in CompletionRecords /\ r.key = CompletionKey(p, s.gen) /\ r.state = "FAILED"
  BY CommittedType DEF CompletionRecords
<1> HIDE DEF q, r
<1>4. \A k \in DOMAIN p.completions : p.completions[k].key # r.key
  BY <1>3, FreshKey
<1>5. q.state # "COMPLETED"
  BY <1>1, <1>2, LiveNotTerminal DEF TerminalStates
<1>6. LineageOf(q)
  BY <1>1, <1>2, <1>3, <1>4, <1>5, AppendedLineage
<1>7. Sound(q)
  BY <1>1, <1>2, <1>6, DecidedSound
<1> QED
  BY <1>7 DEF q

\* A committed completion is the last one, under a new key.
LEMMA CommittedSound ==
  ASSUME TypeOK, NEW p \in Plans, NEW s \in Snapshots, Sound(p), Verified(p, s),
         Kind(p) = "COMPLETE"
  PROVE  Sound(Committed(p, s))
<1> DEFINE q == Committed(p, s)
           r == [key |-> CompletionKey(p, s.gen), state |-> "COMMITTED"]
<1>1. Allowed(p, s) /\ IsLive(p) /\ LineageOf(p)
  BY DEF Verified, Allowed, Settled, Evaluated, Coherent, Sound
<1>2. q.state = "COMPLETED" /\ q.completions = Append(p.completions, r)
  BY DEF Committed, Plans
<1>3. r \in CompletionRecords /\ r.key = CompletionKey(p, s.gen) /\ r.state = "COMMITTED"
  BY CommittedType DEF CompletionRecords
<1> HIDE DEF q, r
<1>4. \A k \in DOMAIN p.completions : p.completions[k].key # r.key
  BY <1>1, <1>3, FreshKey
<1>5. LineageOf(q)
  BY <1>1, <1>2, <1>3, <1>4, AppendedLineage
<1>6. Sound(q)
  BY <1>2, <1>5, NotLiveSound DEF TerminalStates
<1> QED
  BY <1>6 DEF q

\* Every outcome of advance keeps the plan sound.
LEMMA AdvanceSound ==
  ASSUME IInv, NEW i \in PlanIds, Advance(i)
  PROVE  IInv'
<1> DEFINE p == plans[i]
<1>1. TypeOK /\ p \in Plans /\ policyGen \in PolicyGens /\ Sound(p) /\ LineageOf(p)
  BY DEF IInv, TypeOK, Sound
<1>2. PICK s \in Snapshots :
        \/ AdvanceStale(i, s)
        \/ AdvanceOutlived(i, s)
        \/ AdvanceCrossedBoundary(i, s)
        \/ AdvanceRecurrence(i, s)
        \/ AdvanceRateExceeded(i, s)
        \/ AdvanceBudgetExhausted(i, s)
        \/ AdvancePartial(i, s)
        \/ AdvanceHistoryFull(i, s)
        \/ AdvanceCommit(i, s)
        \/ AdvanceStage(i, s)
        \/ AdvanceExhausted(i, s)
  BY DEF Advance, AdvanceWith
<1>3. CASE AdvanceStale(i, s) \/ AdvanceCrossedBoundary(i, s)
  <2>1. Update(i, InvalidatedDraft(p))
    BY <1>3 DEF AdvanceStale, AdvanceCrossedBoundary
  <2> QED
    BY <1>1, <2>1, InvalidatedType, InvalidatedSound, StoredSound
<1>4. CASE AdvanceOutlived(i, s)
  BY <1>1, <1>4, FailedType, FailedSound, StoredSound DEF AdvanceOutlived
<1>5. CASE AdvanceRecurrence(i, s) \/ AdvanceRateExceeded(i, s)
  <2>1. IsLive(p) /\ Bound(p) /\ ~p.revalidationRequired
    BY <1>5 DEF AdvanceRecurrence, AdvanceRateExceeded, Settled, Evaluated, Coherent
  <2>2. PICK st \in {"ROLLING_BACK", "PAUSED", "FAILED"} : Update(i, [p EXCEPT !.state = st])
    BY <1>1, <1>5, DecidedNotCompleted DEF AdvanceRecurrence, AdvanceRateExceeded
  <2>3. [p EXCEPT !.state = st] \in Plans
    <3>1. st \in RecoveryStates
      BY DEF RecoveryStates, LiveStates, TerminalStates
    <3> QED
      BY <1>1, <3>1, StateType
  <2> QED
    BY <1>1, <2>1, <2>2, <2>3, RestatedSound, StoredSound
<1>6. CASE AdvanceBudgetExhausted(i, s)
  <2>1. IsLive(p) /\ Bound(p) /\ ~p.revalidationRequired
    BY <1>6 DEF AdvanceBudgetExhausted, Settled, Evaluated, Coherent
  <2>2. Update(i, Failed(p)) \/ Update(i, [p EXCEPT !.state = StateOnFailure])
    BY <1>6 DEF AdvanceBudgetExhausted
  <2>3. Failed(p) \in Plans /\ Sound(Failed(p))
    BY <1>1, FailedType, FailedSound
  <2>4. [p EXCEPT !.state = StateOnFailure] \in Plans
    BY <1>1, StateType, DecidedStates
  <2>5. Sound([p EXCEPT !.state = StateOnFailure])
    BY <1>1, <2>1, DecidedNotCompleted, RestatedSound
  <2> QED
    BY <1>1, <2>2, <2>3, <2>4, <2>5, StoredSound
<1>7. CASE AdvancePartial(i, s)
  <2>1. Allowed(p, s) /\ Kind(p) = "COMPLETE" /\ Update(i, PartiallyApplied(p, s))
    BY <1>7 DEF AdvancePartial
  <2>2. p.state \in LiveStates
    BY <2>1 DEF Allowed, Settled, Evaluated, Coherent, IsLive
  <2> QED
    BY <1>1, <2>1, <2>2, PartialType, PartialSound, StoredSound
<1>8. CASE AdvanceHistoryFull(i, s)
  <2> DEFINE h == Closed(Opened(p), "SUCCEEDED", s.tick)
             q == [p EXCEPT !.history = h]
  <2>1. h \in Seq(StageRecords)
    BY <1>1, SnapshotType, OpenedType, ClosedType
  <2>2. q \in Plans
    BY <1>1, <2>1, HistoryType
  <2>3. LineageOf(q)
    <3>1. q.completions = p.completions /\ q.state = p.state
      BY <1>1 DEF Plans
    <3> HIDE DEF q
    <3> QED
      BY <1>1, <3>1, LineageKept
  <2>4. Update(i, Failed(p)) \/ Update(i, Failed(q))
    BY <1>8 DEF AdvanceHistoryFull
  <2> HIDE DEF q
  <2> QED
    BY <1>1, <2>2, <2>3, <2>4, FailedType, FailedSound, StoredSound
<1>9. CASE AdvanceCommit(i, s)
  <2>1. Verified(p, s) /\ Kind(p) = "COMPLETE" /\ Update(i, Committed(p, s))
    BY <1>9 DEF AdvanceCommit
  <2> QED
    BY <1>1, <2>1, CommittedType, CommittedSound, StoredSound
<1>10. CASE AdvanceStage(i, s)
  <2>1. /\ Verified(p, s) /\ HasStage(p) /\ Kind(p) # "COMPLETE"
        /\ Update(i, Entered(Climbed(p, s), s))
    BY <1>10 DEF AdvanceStage, Verified, Allowed, Settled, Evaluated, Coherent
  <2>2. Entered(Climbed(p, s), s) \in Plans
    BY <1>1, <2>1, ClimbedType, NextRung, EnteredType
  <2> QED
    BY <1>1, <2>1, <2>2, EnteredSound, StoredSound
<1>11. CASE AdvanceExhausted(i, s)
  <2>1. Climbed(p, s) \in Plans
    BY <1>1, ClimbedType
  <2>2. LineageOf(Climbed(p, s))
    <3>1. /\ Climbed(p, s).completions = p.completions
          /\ Climbed(p, s).state = p.state
      BY <1>1, EnteredFields
    <3> QED
      BY <1>1, <3>1, LineageKept
  <2>3. Update(i, Failed(Climbed(p, s)))
    BY <1>11 DEF AdvanceExhausted
  <2> QED
    BY <1>1, <2>1, <2>2, <2>3, FailedType, FailedSound, StoredSound
<1> QED
  BY <1>2, <1>3, <1>4, <1>5, <1>6, <1>7, <1>8, <1>9, <1>10, <1>11

\* A new plan is on its first rung, an empty slot holds nothing.
LEMMA NewPlanSound ==
  ASSUME TypeOK
  PROVE  Sound(NoPlan) /\ Sound(NewPlan)
<1>1. LineageOf(NoPlan) /\ NoPlan.state = "ABSENT"
  BY DEF NoPlan, LineageOf, UniqueKeys, CommittedIsLast, CompletedIsCommitted
<1>2. Sound(NoPlan)
  BY <1>1, NotLiveSound
<1> DEFINE l == Ladder[policyGen]
<1>3. l[1] = "OBSERVE" /\ Len(l) \in Nat /\ Len(l) >= 2
  BY LadderAssumption DEF TypeOK, ValidLadder
<1>4. /\ NewPlan.state = StateForStage[l[1]] /\ NewPlan.revalidationRequired = FALSE
      /\ NewPlan.epoch = epoch /\ NewPlan.policyGen = policyGen /\ NewPlan.index = 0
      /\ NewPlan.completions = <<>>
  BY DEF NewPlan, NoPlan
<1>5. HasStage(NewPlan) /\ Kind(NewPlan) = l[1] /\ Bound(NewPlan)
  BY <1>3, <1>4 DEF HasStage, Kind, Bound
<1>6. NewPlan.state = "OBSERVING"
  BY <1>3, <1>4 DEF StateForStage
<1>7. LineageOf(NewPlan)
  BY <1>4, <1>6 DEF LineageOf, UniqueKeys, CommittedIsLast, CompletedIsCommitted
<1>8. Sound(NewPlan)
  BY <1>4, <1>5, <1>6, <1>7, OnStageSound DEF StageStates
<1> QED
  BY <1>2, <1>8

\* Soundness depends on six fields only.
LEMMA SameSound ==
  ASSUME NEW p, NEW q, Sound(p), q.state = p.state,
         q.revalidationRequired = p.revalidationRequired, q.epoch = p.epoch,
         q.policyGen = p.policyGen, q.index = p.index, q.completions = p.completions
  PROVE  Sound(q)
<1>1. LineageOf(q)
  BY LineageKept DEF Sound
<1> QED
  BY <1>1 DEF Sound, BindingOf, Bound, StageStateOf, HasStage, Kind, IsLive

\* Resuming trusts the flag: a plan that is not flagged is still bound.
LEMMA ResumedSound ==
  ASSUME TypeOK, NEW p \in Plans, Sound(p), Resumable(p)
  PROVE  Sound([p EXCEPT !.state = StateForStage[Kind(p)], !.attemptsInStage = 0,
                         !.updated = now])
<1> DEFINE st == StateForStage[Kind(p)]
           q == [p EXCEPT !.state = st, !.attemptsInStage = 0, !.updated = now]
<1>1. /\ p.revalidationRequired = FALSE /\ HasStage(p) /\ IsLive(p)
  BY DEF Resumable, Plans, IsLive, LiveStates
<1>2. Bound(p)
  BY <1>1 DEF Sound, BindingOf
<1>3. st \in StageStates
  BY <1>1, KindType DEF TypeOK
<1>4. /\ q.state = st /\ q.revalidationRequired = FALSE
      /\ q.epoch = p.epoch /\ q.policyGen = p.policyGen /\ q.index = p.index
      /\ q.completions = p.completions
  BY <1>1 DEF Plans
<1> HIDE DEF q
<1>5. Bound(q) /\ HasStage(q) /\ Kind(q) = Kind(p)
  BY <1>1, <1>2, <1>4 DEF Bound, HasStage, Kind
<1>6. st # "COMPLETED"
  BY <1>3 DEF StageStates
<1>7. LineageOf(q)
  BY <1>1, <1>4, <1>6, LiveNotTerminal, LineageKept DEF Sound
<1>8. Sound(q)
  BY <1>3, <1>4, <1>5, <1>7, OnStageSound
<1> QED
  BY <1>8 DEF q

\* Every operation on a plan keeps it sound.
LEMMA PlanStepSound ==
  ASSUME IInv, NEW i \in PlanIds, PlanNext(i)
  PROVE  IInv'
<1> DEFINE p == plans[i]
<1>1. TypeOK /\ p \in Plans /\ Sound(p) /\ LineageOf(p)
  BY DEF IInv, TypeOK, Sound
<1>2. CASE CreatePlan(i)
  BY <1>1, <1>2, NewPlanType, NewPlanSound, StoredSound DEF CreatePlan
<1>3. CASE ErasePlan(i)
  BY <1>1, <1>3, NewPlanType, NewPlanSound, StoredSound DEF ErasePlan
<1>4. CASE RollbackStale(i)
  <2>1. Update(i, Invalidated(p))
    BY <1>4 DEF RollbackStale
  <2> QED
    BY <1>1, <2>1, InvalidatedType, InvalidatedSound, StoredSound
<1>5. CASE RequireRevalidation(i)
  <2> DEFINE d == Invalidated(p)
             q == [d EXCEPT !.attemptsInStage = 0]
  <2>1. d \in Plans /\ Sound(d) /\ Update(i, q)
    BY <1>1, <1>5, InvalidatedType, InvalidatedSound DEF RequireRevalidation
  <2> HIDE DEF d
  <2>2. q \in Plans
    BY <2>1 DEF Plans
  <2>3. /\ q.state = d.state /\ q.revalidationRequired = d.revalidationRequired
        /\ q.epoch = d.epoch /\ q.policyGen = d.policyGen /\ q.index = d.index
        /\ q.completions = d.completions
    BY <2>1 DEF Plans
  <2> HIDE DEF q
  <2>4. Sound(q)
    BY <2>1, <2>3, SameSound
  <2> QED
    BY <2>1, <2>2, <2>4, StoredSound
<1>6. CASE Pause(i)
  <2> DEFINE q == [p EXCEPT !.state = "PAUSED"]
  <2>1. q \in Plans
    <3>1. "PAUSED" \in RecoveryStates
      BY DEF RecoveryStates, LiveStates
    <3> QED
      BY <1>1, <3>1, StateType
  <2>2. IsLive(p) /\ Update(i, q)
    BY <1>6 DEF Pause
  <2>3. /\ q.state = "PAUSED" /\ q.revalidationRequired = p.revalidationRequired
        /\ q.epoch = p.epoch /\ q.policyGen = p.policyGen /\ q.completions = p.completions
    BY <1>1 DEF Plans
  <2> HIDE DEF p, q
  <2>4. Sound(q)
    BY <1>1, <2>2, <2>3, ParkedSound
  <2> QED
    BY <2>1, <2>2, <2>4, StoredSound
<1>7. CASE Resume(i)
  <2> DEFINE q == [p EXCEPT !.state = StateForStage[Kind(p)], !.attemptsInStage = 0,
                            !.updated = now]
  <2>1. Resumable(p) /\ Update(i, q)
    BY <1>7 DEF Resume
  <2>2. Sound(q)
    BY <1>1, <2>1, ResumedSound
  <2>3. TypeOK'
    BY <1>1, <1>7, PlanStepType DEF PlanNext
  <2>4. q \in Plans
    <3>1. plans'[i] = q
      BY <1>1, <2>1 DEF Update, TypeOK
    <3>2. plans'[i] \in Plans
      BY <2>3 DEF TypeOK
    <3> QED
      BY <3>1, <3>2
  <2> QED
    BY <2>1, <2>2, <2>4, StoredSound
<1>8. CASE RollbackHistoryFull(i) \/ RevalidateNoStage(i) \/ RevalidateHistoryFull(i)
  <2>1. Update(i, Failed(p))
    BY <1>8 DEF RollbackHistoryFull, RevalidateNoStage, RevalidateHistoryFull
  <2> QED
    BY <1>1, <2>1, FailedType, FailedSound, StoredSound
<1>9. CASE Rollback(i)
  <2>1. IsLive(p) /\ Update(i, RolledBack(p))
    BY <1>9 DEF Rollback, RollbackAllowed
  <2>2. Sound(RolledBack(p))
    BY <1>1, <2>1, RolledBackFields, ParkedSound
  <2> QED
    BY <1>1, <2>1, <2>2, RolledBackType, StoredSound
<1>10. CASE Revalidate(i)
  <2>1. IsLive(p) /\ HasStage(p) /\ Update(i, Revalidated(p))
    BY <1>10 DEF Revalidate, Revalidatable
  <2> QED
    BY <1>1, <2>1, RevalidatedType, RevalidatedSound, StoredSound
<1>11. CASE RevalidateExhausted(i)
  <2> DEFINE b == Rebound(p)
             g == b.generation + 1
             c == [b EXCEPT !.generation = g]
  <2>1. b \in Plans /\ b.state = p.state /\ b.completions = p.completions
    BY <1>1, ReboundType, Zenon DEF Rebound, Plans
  <2>2. Update(i, Failed(b)) \/ Update(i, Failed(c))
    BY <1>11 DEF RevalidateExhausted
  <2> HIDE DEF b
  <2>3. g \in Nat
    BY <2>1, PlanFields
  <2> HIDE DEF g
  <2>4. c \in Plans /\ c.state = p.state /\ c.completions = p.completions
    BY <2>1, <2>3 DEF Plans
  <2> HIDE DEF c
  <2>5. LineageOf(b) /\ LineageOf(c)
    BY <1>1, <2>1, <2>4, LineageKept
  <2> QED
    BY <1>1, <2>1, <2>2, <2>4, <2>5, FailedType, FailedSound, StoredSound
<1>12. CASE Advance(i)
  BY <1>12, AdvanceSound
<1> QED
  BY <1>2, <1>3, <1>4, <1>5, <1>6, <1>7, <1>8, <1>9, <1>10, <1>11, <1>12 DEF PlanNext

\* A plan that is flagged or not live stays sound under any epoch and policy.
LEMMA UnboundSound ==
  ASSUME TypeOK', NEW i \in PlanIds, StageStateOf(plans'[i]), LineageOf(plans'[i]),
         ~IsLive(plans'[i]) \/ plans'[i].revalidationRequired
  PROVE  Sound(plans[i])'
BY DEF Sound, BindingOf, Bound, StageStateOf, HasStage, Kind, LineageOf, IsLive, LiveStates,
       UniqueKeys, CommittedIsLast, CompletedIsCommitted

\* An invalidated plan is flagged or not live.
LEMMA InvalidatedUnbound ==
  ASSUME NEW p \in Plans, Sound(p)
  PROVE  LET q == Invalidated(p) IN
         StageStateOf(q) /\ LineageOf(q) /\ (~IsLive(q) \/ q.revalidationRequired)
<1>1. CASE IsLive(p)
  BY <1>1, InvalidatedSound, FlaggedFields DEF Invalidated, Sound
<1>2. CASE ~IsLive(p)
  BY <1>2 DEF Invalidated, Sound
<1> QED
  BY <1>1, <1>2

\* An imported plan is flagged or not live.
LEMMA ImportedUnbound ==
  ASSUME NEW p \in Plans, Sound(p), NEW e \in Nat
  PROVE  LET q == Imported(p, e) IN
         StageStateOf(q) /\ LineageOf(q) /\ (~IsLive(q) \/ q.revalidationRequired)
<1>1. CASE p.state = "ABSENT"
  BY <1>1 DEF Imported, Sound, IsLive, LiveStates, StageStates
<1>2. CASE p.state # "ABSENT"
  <2> DEFINE d == Invalidated(p)
             n == IF IsLive(p) THEN 1 ELSE d.notes
             q == [d EXCEPT !.epoch = e, !.notes = n]
  <2>1. d \in Plans /\ StageStateOf(d) /\ LineageOf(d) /\ (~IsLive(d) \/ d.revalidationRequired)
    BY InvalidatedType, InvalidatedUnbound
  <2>5. Imported(p, e) = q
    BY <1>2, <2>1 DEF Imported, Plans
  <2> HIDE DEF d, n
  <2>2. /\ q.state = d.state /\ q.revalidationRequired = d.revalidationRequired
        /\ q.index = d.index /\ q.completions = d.completions
    BY <2>1 DEF Plans
  <2> HIDE DEF q
  <2>3. StageStateOf(q) /\ (~IsLive(q) \/ q.revalidationRequired)
    BY <2>1, <2>2 DEF StageStateOf, HasStage, Kind, IsLive
  <2>4. LineageOf(q)
    BY <2>1, <2>2, LineageKept
  <2> QED
    BY <2>3, <2>4, <2>5
<1> QED
  BY <1>1, <1>2

\* The inductive invariant holds at the start and is kept by every step.
LEMMA Inductive ==
  /\ Init => IInv
  /\ IInv /\ [Next]_vars => IInv'
<1>1. Init => IInv
  <2> SUFFICES ASSUME Init PROVE IInv
    OBVIOUS
  <2>1. TypeOK
    BY TypeInit
  <2>2. Sound(NoPlan)
    BY <2>1, NewPlanSound
  <2> QED
    BY <2>1, <2>2 DEF Init, IInv
<1>2. IInv /\ [Next]_vars => IInv'
  <2> SUFFICES ASSUME IInv, [Next]_vars PROVE IInv'
    OBVIOUS
  <2>1. TypeOK /\ TypeOK'
    BY TypeStep DEF IInv
  <2>2. ASSUME NEW i \in PlanIds PROVE plans[i] \in Plans /\ Sound(plans[i])
    BY <2>1 DEF IInv, TypeOK
  <2>3. CASE UNCHANGED <<epoch, policyGen, plans>>
    BY <2>1, <2>3 DEF IInv, Sound, BindingOf, Bound, StageStateOf, HasStage, Kind, LineageOf,
                      IsLive, UniqueKeys, CommittedIsLast, CompletedIsCommitted
  <2>4. CASE BeginEpoch
    <3>1. PICK e \in (epoch + 1)..MaxEpoch :
            /\ epoch' = e
            /\ plans' = [i \in PlanIds |->
                           IF plans[i].epoch = e THEN plans[i] ELSE Invalidated(plans[i])]
      BY <2>4 DEF BeginEpoch
    <3>2. e # epoch
      BY <2>1 DEF TypeOK
    <3>3. ASSUME NEW i \in PlanIds PROVE Sound(plans[i])'
      <4>1. CASE plans[i].epoch = e
        <5>1. plans'[i] = plans[i] /\ (~IsLive(plans[i]) \/ plans[i].revalidationRequired)
          BY <2>2, <3>1, <3>2, <4>1 DEF Sound, BindingOf, Bound
        <5> QED
          BY <2>1, <2>2, <5>1, UnboundSound DEF Sound
      <4>2. CASE plans[i].epoch # e
        <5>1. plans'[i] = Invalidated(plans[i])
          BY <3>1, <4>2
        <5> QED
          BY <2>1, <2>2, <5>1, InvalidatedUnbound, UnboundSound
      <4> QED
        BY <4>1, <4>2
    <3> QED
      BY <2>1, <3>3 DEF IInv
  <2>5. CASE ReplacePolicy
    <3>1. PICK g \in PolicyGens :
            /\ g > policyGen
            /\ plans' = [i \in PlanIds |->
                           IF plans[i].policyGen = g THEN plans[i] ELSE Invalidated(plans[i])]
      BY <2>5 DEF ReplacePolicy
    <3>2. g # policyGen
      BY <2>1, <3>1 DEF TypeOK, PolicyGens
    <3>3. ASSUME NEW i \in PlanIds PROVE Sound(plans[i])'
      <4>1. CASE plans[i].policyGen = g
        <5>1. plans'[i] = plans[i] /\ (~IsLive(plans[i]) \/ plans[i].revalidationRequired)
          BY <2>2, <3>1, <3>2, <4>1 DEF Sound, BindingOf, Bound
        <5> QED
          BY <2>1, <2>2, <5>1, UnboundSound DEF Sound
      <4>2. CASE plans[i].policyGen # g
        <5>1. plans'[i] = Invalidated(plans[i])
          BY <3>1, <4>2
        <5> QED
          BY <2>1, <2>2, <5>1, InvalidatedUnbound, UnboundSound
      <4> QED
        BY <4>1, <4>2
    <3> QED
      BY <2>1, <3>3 DEF IInv
  <2>6. CASE ImportState
    <3>1. PICK e \in (epoch + 1)..MaxEpoch : plans' = [i \in PlanIds |-> Imported(plans[i], e)]
      BY <2>6 DEF ImportState
    <3>2. e \in Nat
      BY <2>1, LimitAssumption DEF TypeOK
    <3>3. ASSUME NEW i \in PlanIds PROVE Sound(plans[i])'
      <4>1. plans'[i] = Imported(plans[i], e)
        BY <3>1
      <4> QED
        BY <2>1, <2>2, <3>2, <4>1, ImportedUnbound, UnboundSound
    <3> QED
      BY <2>1, <3>3 DEF IInv
  <2>7. CASE NotifyChange
    <3>1. PICK S \in SUBSET PlanIds :
            plans' = [i \in PlanIds |-> IF i \in S THEN Invalidated(plans[i]) ELSE plans[i]]
      BY <2>7 DEF NotifyChange
    <3>2. epoch' = epoch /\ policyGen' = policyGen
      BY <2>7 DEF NotifyChange
    <3>3. ASSUME NEW i \in PlanIds PROVE Sound(plans[i])'
      <4>1. CASE i \in S
        <5>1. plans'[i] = Invalidated(plans[i])
          BY <3>1, <4>1
        <5> QED
          BY <2>1, <2>2, <5>1, InvalidatedUnbound, UnboundSound
      <4>2. CASE i \notin S
        <5>1. plans'[i] = plans[i]
          BY <3>1, <4>2
        <5> QED
          BY <2>2, <3>2, <5>1 DEF Sound, BindingOf, Bound, StageStateOf, HasStage, Kind, LineageOf,
                                  IsLive, UniqueKeys, CommittedIsLast, CompletedIsCommitted
      <4> QED
        BY <4>1, <4>2
    <3> QED
      BY <2>1, <3>3 DEF IInv
  <2>8. CASE \E i \in PlanIds : PlanNext(i)
    BY <2>8, PlanStepSound
  <2> QED
    BY <2>3, <2>4, <2>5, <2>6, <2>7, <2>8 DEF Next, Tick, vars
<1> QED
  BY <1>1, <1>2

\* Every reachable state satisfies the inductive invariant.
LEMMA InvariantHolds == Spec => []IInv
BY Inductive, PTL DEF Spec

\* A live plan that is not flagged is bound to the current epoch and policy.
THEOREM BindingCorrect == Spec => []BoundOrFlagged
<1>1. IInv => BoundOrFlagged
  BY DEF IInv, Sound, BoundOrFlagged
<1> QED
  BY <1>1, InvariantHolds, PTL

\* The state of a plan agrees with its rung, its flag and the stored policy.
THEOREM StageStateCorrect == Spec => []StateMatchesStage
<1>1. IInv => StateMatchesStage
  BY DEF IInv, Sound, StateMatchesStage
<1> QED
  BY <1>1, InvariantHolds, PTL

\* Completions are idempotent: no key is recorded twice, a committed completion is
\* the last one, and its plan is terminal.
THEOREM LineageCorrect == Spec => []CompletionLineage
<1>1. IInv => CompletionLineage
  BY DEF IInv, Sound, CompletionLineage
<1> QED
  BY <1>1, InvariantHolds, PTL
=============================================================================
