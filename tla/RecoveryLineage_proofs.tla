----------------------- MODULE RecoveryLineage_proofs -----------------------
(***************************************************************************)
(* Proofs about the lineage a plan of RecoveryEngine collects: its stage   *)
(* records, the rungs it climbed, its attempts, its rollbacks and the      *)
(* ticks it moved at, for every policy, limit and bound.                   *)
(***************************************************************************)
EXTENDS RecoveryEngine_proofs, FiniteSetTheorems

-----------------------------------------------------------------------------
(* What a step may do to one plan.                                         *)

\* A step that leaves the lineage as it is: the state may change, a plan may be
\* flagged or imported, but nothing that was recorded is touched.
Quiet(p, q) ==
  /\ p.state = "ABSENT" => q = p
  /\ q.history = p.history /\ q.index = p.index
  /\ q.stageGen = p.stageGen /\ q.generation = p.generation
  /\ q.attempt = p.attempt /\ q.totalAttempts = p.totalAttempts
  /\ q.completions = p.completions /\ q.rollbacks = p.rollbacks
  /\ q.transitions = p.transitions /\ q.created = p.created
  /\ q.attemptsInStage \in {p.attemptsInStage, 0}
  /\ q.updated \in {p.updated, now}
  /\ q.policyGen = p.policyGen
  /\ q.epoch # p.epoch => q.epoch = epoch' /\ (IsLive(q) => q.revalidationRequired)
  /\ q.revalidationRequired \in {p.revalidationRequired, TRUE}
  /\ \/ q.state = p.state
     \/ q.state = "FAILED" /\ (IsLive(p) \/ (p.state # "ABSENT" /\ ~HasStage(p)))
     \/ IsLive(p) /\ IsLive(q)

\* What a snapshot makes of a plan when it leaves a mark on the lineage.
Marked(p, q, s) ==
  \/ Allowed(p, s) /\ Kind(p) = "COMPLETE" /\ q = PartiallyApplied(p, s)
  \/ /\ Verified(p, s) /\ HasRoom(p) /\ Kind(p) = "COMPLETE"
     /\ \/ q = Failed([p EXCEPT !.history = Closed(Opened(p), "SUCCEEDED", s.tick)])
        \/ q = Committed(p, s)
  \/ /\ Verified(p, s) /\ HasRoom(p) /\ Kind(p) # "COMPLETE"
     /\ q \in {Failed(Climbed(p, s)), Entered(Climbed(p, s), s)}

\* Every way a step changes a plan.
Step(p, q) ==
  \/ Quiet(p, q)
  \/ p.state \in TerminalStates /\ q = NoPlan
  \/ p.state = "ABSENT" /\ q = NewPlan
  \/ IsLive(p) /\ Len(p.rollbacks) < MaxRollbackHistory /\ q = RolledBack(p)
  \/ Revalidatable(p) /\ ~HistoryFull(p) /\ q = Revalidated(p)
  \/ Revalidatable(p) /\ q \in {Failed(Rebound(p)), Failed([Rebound(p) EXCEPT !.generation = @ + 1])}
  \/ \E s \in Snapshots : Marked(p, q, s)

\* A plan that does not change takes a quiet step.
LEMMA SameQuiet ==
  ASSUME NEW p
  PROVE  Step(p, p)
BY DEF Step, Quiet

\* Two plans that may differ in their state only.
SameButState(p, q) ==
  /\ q.history = p.history /\ q.index = p.index
  /\ q.stageGen = p.stageGen /\ q.generation = p.generation
  /\ q.attempt = p.attempt /\ q.totalAttempts = p.totalAttempts
  /\ q.completions = p.completions /\ q.rollbacks = p.rollbacks
  /\ q.transitions = p.transitions /\ q.created = p.created
  /\ q.attemptsInStage = p.attemptsInStage /\ q.updated = p.updated
  /\ q.policyGen = p.policyGen /\ q.epoch = p.epoch
  /\ q.revalidationRequired = p.revalidationRequired

\* A plan in another state differs in nothing else.
LEMMA StateFields ==
  ASSUME NEW p \in Plans, NEW st
  PROVE  [p EXCEPT !.state = st].state = st /\ SameButState(p, [p EXCEPT !.state = st])
BY DEF Plans, SameButState

\* Another state is a quiet step of a live plan.
LEMMA RestatedQuiet ==
  ASSUME NEW p \in Plans, NEW st \in LiveStates \cup {"FAILED"}, IsLive(p)
  PROVE  Step(p, [p EXCEPT !.state = st])
<1> DEFINE q == [p EXCEPT !.state = st]
<1>1. p.state # "ABSENT"
  BY LiveNotTerminal
<1>2. q.state = st /\ SameButState(p, q)
  BY StateFields
<1> HIDE DEF q
<1>3. Quiet(p, q)
  BY <1>1, <1>2 DEF Quiet, SameButState, IsLive
<1> QED
  BY <1>3 DEF Step, q

\* Failing a live plan is quiet, and so is failing one whose rung is gone.
LEMMA FailedQuiet ==
  ASSUME NEW p \in Plans, p.state # "ABSENT", IsLive(p) \/ ~HasStage(p)
  PROVE  Step(p, Failed(p))
<1>1. Failed(p).state = "FAILED" /\ SameButState(p, Failed(p))
  BY StateFields DEF Failed
<1>2. Quiet(p, Failed(p))
  BY <1>1 DEF Quiet, SameButState, IsLive
<1> QED
  BY <1>2 DEF Step

\* Two plans that are the same, or the second of which is flagged.
SameButFlag(p, q) ==
  /\ q.history = p.history /\ q.index = p.index
  /\ q.stageGen = p.stageGen /\ q.generation = p.generation
  /\ q.attempt = p.attempt /\ q.totalAttempts = p.totalAttempts
  /\ q.completions = p.completions /\ q.rollbacks = p.rollbacks
  /\ q.transitions = p.transitions /\ q.created = p.created
  /\ q.attemptsInStage = p.attemptsInStage /\ q.updated = p.updated
  /\ q.policyGen = p.policyGen /\ q.epoch = p.epoch
  /\ \/ q.state = p.state /\ q.revalidationRequired = p.revalidationRequired
     \/ IsLive(p) /\ IsLive(q) /\ q.revalidationRequired = TRUE

\* Invalidating a plan flags it if it is live.
LEMMA InvalidatedFields ==
  ASSUME NEW p \in Plans
  PROVE  /\ SameButFlag(p, Invalidated(p))
         /\ IsLive(Invalidated(p)) => Invalidated(p).revalidationRequired = TRUE
         /\ SameButFlag(p, InvalidatedDraft(p))
         /\ ~IsLive(p) => Invalidated(p) = p /\ InvalidatedDraft(p) = p
<1>1. ASSUME NEW cap, IsLive(p) PROVE SameButFlag(p, Flagged(p, cap))
  <2> DEFINE q == Flagged(p, cap)
  <2>1. /\ q.history = p.history /\ q.index = p.index
        /\ q.stageGen = p.stageGen /\ q.generation = p.generation
        /\ q.attempt = p.attempt /\ q.totalAttempts = p.totalAttempts
        /\ q.completions = p.completions /\ q.rollbacks = p.rollbacks
        /\ q.transitions = p.transitions /\ q.created = p.created
        /\ q.attemptsInStage = p.attemptsInStage
        /\ q.updated = p.updated
        /\ q.policyGen = p.policyGen /\ q.epoch = p.epoch
        /\ q.revalidationRequired = TRUE
        /\ q.state = "REVALIDATION_REQUIRED"
    BY DEF Flagged, Plans
  <2> HIDE DEF q
  <2>2. SameButFlag(p, q)
    BY <1>1, <2>1 DEF SameButFlag, IsLive, LiveStates
  <2> QED
    BY <2>2 DEF q
<1>2. SameButFlag(p, p)
  BY DEF SameButFlag
<1>3. IsLive(Invalidated(p)) => Invalidated(p).revalidationRequired = TRUE
  BY FlaggedFields DEF Invalidated
<1> QED
  BY <1>1, <1>2, <1>3 DEF Invalidated, InvalidatedDraft

\* Invalidating any plan is quiet.
LEMMA InvalidatedQuiet ==
  ASSUME NEW p \in Plans
  PROVE  Step(p, Invalidated(p)) /\ Step(p, InvalidatedDraft(p))
<1>1. ASSUME NEW q, SameButFlag(p, q), ~IsLive(p) => q = p PROVE Quiet(p, q)
  BY <1>1, LiveNotTerminal DEF Quiet, SameButFlag
<1>2. Quiet(p, Invalidated(p)) /\ Quiet(p, InvalidatedDraft(p))
  BY <1>1, InvalidatedFields
<1> QED
  BY <1>2 DEF Step

\* Requiring a revalidation is quiet.
LEMMA RequiredQuiet ==
  ASSUME NEW p \in Plans, p.state # "ABSENT"
  PROVE  Step(p, [Invalidated(p) EXCEPT !.attemptsInStage = 0])
<1> DEFINE d == Invalidated(p)
           q == [d EXCEPT !.attemptsInStage = 0]
<1>1. d \in Plans /\ SameButFlag(p, d)
  BY InvalidatedType, InvalidatedFields
<1> HIDE DEF d
<1>2. /\ q.history = d.history /\ q.index = d.index
      /\ q.stageGen = d.stageGen /\ q.generation = d.generation
      /\ q.attempt = d.attempt /\ q.totalAttempts = d.totalAttempts
      /\ q.completions = d.completions /\ q.rollbacks = d.rollbacks
      /\ q.transitions = d.transitions /\ q.created = d.created
      /\ q.attemptsInStage = 0 /\ q.updated = d.updated
      /\ q.policyGen = d.policyGen /\ q.epoch = d.epoch
      /\ q.revalidationRequired = d.revalidationRequired /\ q.state = d.state
  BY <1>1 DEF Plans
<1> HIDE DEF q
<1>3. Quiet(p, q)
  BY <1>1, <1>2 DEF Quiet, SameButFlag, IsLive
<1> QED
  BY <1>3 DEF Step, q, d

\* Resuming a plan is quiet.
LEMMA ResumedQuiet ==
  ASSUME TypeOK, NEW p \in Plans, Resumable(p)
  PROVE  Step(p, [p EXCEPT !.state = StateForStage[Kind(p)], !.attemptsInStage = 0,
                           !.updated = now])
<1> DEFINE st == StateForStage[Kind(p)]
           q == [p EXCEPT !.state = st, !.attemptsInStage = 0, !.updated = now]
<1>1. IsLive(p) /\ p.state # "ABSENT" /\ HasStage(p)
  BY DEF Resumable, IsLive, LiveStates
<1>2. st \in LiveStates
  BY <1>1, KindType DEF TypeOK, LiveStates
<1> HIDE DEF st
<1>3. /\ q.history = p.history /\ q.index = p.index
      /\ q.stageGen = p.stageGen /\ q.generation = p.generation
      /\ q.attempt = p.attempt /\ q.totalAttempts = p.totalAttempts
      /\ q.completions = p.completions /\ q.rollbacks = p.rollbacks
      /\ q.transitions = p.transitions /\ q.created = p.created
      /\ q.attemptsInStage = 0 /\ q.updated = now
      /\ q.policyGen = p.policyGen /\ q.epoch = p.epoch
      /\ q.revalidationRequired = p.revalidationRequired /\ q.state = st
  BY DEF Plans
<1> HIDE DEF q
<1>4. Quiet(p, q)
  BY <1>1, <1>2, <1>3 DEF Quiet, IsLive
<1> QED
  BY <1>4 DEF Step, q, st

\* Importing a plan under the next epoch is quiet.
LEMMA ImportedQuiet ==
  ASSUME NEW p \in Plans
  PROVE  Step(p, Imported(p, epoch'))
<1> DEFINE d == Invalidated(p)
           n == IF IsLive(p) THEN 1 ELSE d.notes
           e == epoch'
           q == [d EXCEPT !.epoch = e, !.notes = n]
<1>1. /\ d \in Plans /\ SameButFlag(p, d)
      /\ IsLive(d) => d.revalidationRequired = TRUE
  BY InvalidatedType, InvalidatedFields
<1>2. p.state # "ABSENT" => Imported(p, e) = q
  BY <1>1 DEF Imported, Plans
<1>3. p.state = "ABSENT" => Imported(p, e) = p
  BY DEF Imported
<1> HIDE DEF d, n, e
<1>4. /\ q.history = d.history /\ q.index = d.index
      /\ q.stageGen = d.stageGen /\ q.generation = d.generation
      /\ q.attempt = d.attempt /\ q.totalAttempts = d.totalAttempts
      /\ q.completions = d.completions /\ q.rollbacks = d.rollbacks
      /\ q.transitions = d.transitions /\ q.created = d.created
      /\ q.attemptsInStage = d.attemptsInStage /\ q.updated = d.updated
      /\ q.policyGen = d.policyGen /\ q.epoch = e
      /\ q.revalidationRequired = d.revalidationRequired /\ q.state = d.state
  BY <1>1 DEF Plans
<1> HIDE DEF q
<1>5. e = epoch'
  BY DEF e
<1>6. p.state # "ABSENT" => Quiet(p, q)
  BY <1>1, <1>4, <1>5 DEF Quiet, SameButFlag, IsLive
<1> QED
  BY <1>2, <1>3, <1>5, <1>6, SameQuiet DEF Step

\* What a snapshot that gets as far as the budgets says of the plan.
LEMMA AllowedFacts ==
  ASSUME NEW p, NEW s, Allowed(p, s)
  PROVE  /\ IsLive(p) /\ HasStage(p) /\ Bound(p) /\ ~p.revalidationRequired
         /\ p.updated <= s.tick /\ s.tick - p.updated >= Dwell
         /\ p.attemptsInStage < MaxStageAttempts /\ WithinRate(p, s)
BY DEF Allowed, Settled, Evaluated, Coherent

\* Every outcome of advance is one of the steps.
LEMMA AdvanceCases ==
  ASSUME TypeOK, NEW i \in PlanIds, Advance(i)
  PROVE  \E q : Update(i, q) /\ Step(plans[i], q)
<1> DEFINE p == plans[i]
<1>1. p \in Plans /\ policyGen \in PolicyGens /\ IsLive(p) /\ p.state # "ABSENT"
  BY LiveNotTerminal DEF TypeOK, Advance
<1>2. PICK s \in Snapshots :
        \/ AdvanceStale(i, s)
        \/ AdvanceOutlived(i, s)
        \/ AdvanceCrossedBoundary(i, s)
        \/ AdvanceRecurrence(i, s)
        \/ AdvanceRateExceeded(i, s)
        \/ AdvanceBudgetExhausted(i, s)
        \/ AdvancePartial(i, s)
        \/ AdvanceHistoryFull(i, s)
        \/ AdvanceCommit(i, s)
        \/ AdvanceStage(i, s)
        \/ AdvanceExhausted(i, s)
  BY DEF Advance, AdvanceWith
<1>3. ASSUME NEW q, Marked(p, q, s) PROVE Step(p, q)
  BY <1>3 DEF Step
<1>4. ASSUME NEW st \in {"ROLLING_BACK", "PAUSED", "FAILED"}
      PROVE  Step(p, [p EXCEPT !.state = st])
  <2>1. st \in LiveStates \cup {"FAILED"}
    BY DEF LiveStates
  <2> QED
    BY <1>1, <2>1, RestatedQuiet
<1>5. CASE AdvanceStale(i, s) \/ AdvanceCrossedBoundary(i, s)
  BY <1>1, <1>5, InvalidatedQuiet DEF AdvanceStale, AdvanceCrossedBoundary
<1>6. CASE AdvanceOutlived(i, s)
  BY <1>1, <1>6, FailedQuiet DEF AdvanceOutlived
<1>7. CASE AdvanceRecurrence(i, s)
  BY <1>1, <1>4, <1>7, DecidedNotCompleted DEF AdvanceRecurrence
<1>8. CASE AdvanceRateExceeded(i, s)
  BY <1>4, <1>8 DEF AdvanceRateExceeded
<1>9. CASE AdvanceBudgetExhausted(i, s)
  <2>1. Step(p, Failed(p)) /\ Step(p, [p EXCEPT !.state = StateOnFailure])
    BY <1>1, <1>4, FailedQuiet, DecidedNotCompleted
  <2> QED
    BY <1>9, <2>1 DEF AdvanceBudgetExhausted
<1>10. CASE AdvancePartial(i, s)
  BY <1>3, <1>10 DEF AdvancePartial, Marked
<1>11. CASE AdvanceHistoryFull(i, s)
  <2> DEFINE q == Failed([p EXCEPT !.history = Closed(Opened(p), "SUCCEEDED", s.tick)])
  <2>1. \/ Update(i, Failed(p))
        \/ Verified(p, s) /\ HasRoom(p) /\ Kind(p) = "COMPLETE" /\ Update(i, q)
    BY <1>11 DEF AdvanceHistoryFull
  <2>2. Verified(p, s) /\ HasRoom(p) /\ Kind(p) = "COMPLETE" => Marked(p, q, s)
    BY DEF Marked
  <2> HIDE DEF q
  <2>3. Step(p, Failed(p))
    BY <1>1, FailedQuiet
  <2> QED
    BY <1>3, <2>1, <2>2, <2>3
<1>12. CASE AdvanceCommit(i, s)
  BY <1>3, <1>12 DEF AdvanceCommit, Marked
<1>13. CASE AdvanceStage(i, s)
  BY <1>3, <1>13 DEF AdvanceStage, Marked
<1>14. CASE AdvanceExhausted(i, s)
  BY <1>3, <1>14 DEF AdvanceExhausted, Marked
<1> QED
  BY <1>2, <1>5, <1>6, <1>7, <1>8, <1>9, <1>10, <1>11, <1>12, <1>13, <1>14

\* Every operation on a plan is one of the steps.
LEMMA PlanCases ==
  ASSUME TypeOK, NEW i \in PlanIds, PlanNext(i)
  PROVE  \E q : Update(i, q) /\ Step(plans[i], q)
<1> DEFINE p == plans[i]
<1>1. p \in Plans
  BY DEF TypeOK
<1>2. CASE CreatePlan(i)
  BY <1>2 DEF CreatePlan, Step
<1>3. CASE ErasePlan(i)
  BY <1>3 DEF ErasePlan, Step
<1>4. CASE RequireRevalidation(i)
  BY <1>1, <1>4, RequiredQuiet DEF RequireRevalidation
<1>5. CASE Pause(i)
  <2>1. "PAUSED" \in LiveStates \cup {"FAILED"}
    BY DEF LiveStates
  <2> QED
    BY <1>1, <1>5, <2>1, RestatedQuiet DEF Pause
<1>6. CASE Resume(i)
  BY <1>1, <1>6, ResumedQuiet DEF Resume
<1>7. CASE RollbackStale(i)
  BY <1>1, <1>7, InvalidatedQuiet DEF RollbackStale
<1>8. CASE RollbackHistoryFull(i)
  BY <1>1, <1>8, FailedQuiet, LiveNotTerminal DEF RollbackHistoryFull, RollbackAllowed
<1>9. CASE Rollback(i)
  BY <1>9 DEF Rollback, RollbackAllowed, Step
<1>10. CASE RevalidateNoStage(i)
  BY <1>1, <1>10, FailedQuiet DEF RevalidateNoStage
<1>11. CASE RevalidateHistoryFull(i)
  BY <1>1, <1>11, FailedQuiet, LiveNotTerminal DEF RevalidateHistoryFull, Revalidatable
<1>12. CASE Revalidate(i)
  BY <1>12 DEF Revalidate, Step
<1>13. CASE RevalidateExhausted(i)
  BY <1>13 DEF RevalidateExhausted, Step
<1>14. CASE Advance(i)
  BY <1>14, AdvanceCases
<1> QED
  BY <1>2, <1>3, <1>4, <1>5, <1>6, <1>7, <1>8, <1>9, <1>10, <1>11, <1>12, <1>13, <1>14
     DEF PlanNext

\* Every step of the engine changes every plan in one of these ways, and neither
\* the clock nor the epoch nor the policy goes back.
LEMMA StepCases ==
  ASSUME TypeOK, [Next]_vars
  PROVE  /\ \A i \in PlanIds : Step(plans[i], plans'[i])
         /\ now' >= now /\ epoch' >= epoch /\ policyGen' >= policyGen
<1>1. /\ now \in Nat /\ epoch \in Nat /\ policyGen \in Nat
      /\ \A i \in PlanIds : plans[i] \in Plans
  BY DEF TypeOK, PolicyGens
<1>2. CASE UNCHANGED vars
  BY <1>1, <1>2, SameQuiet DEF vars
<1>3. CASE Tick
  BY <1>1, <1>3, SameQuiet DEF Tick
<1>4. CASE BeginEpoch
  <2>1. PICK e \in (epoch + 1)..MaxEpoch :
          /\ epoch' = e
          /\ plans' = [i \in PlanIds |->
                         IF plans[i].epoch = e THEN plans[i] ELSE Invalidated(plans[i])]
          /\ UNCHANGED <<policyGen, now>>
    BY <1>4 DEF BeginEpoch
  <2>2. epoch' >= epoch
    BY <1>1, <2>1, LimitAssumption
  <2>3. ASSUME NEW i \in PlanIds PROVE Step(plans[i], plans'[i])
    BY <1>1, <2>1, SameQuiet, InvalidatedQuiet
  <2> QED
    BY <1>1, <2>1, <2>2, <2>3
<1>5. CASE ReplacePolicy
  <2>1. PICK g \in PolicyGens :
          /\ g > policyGen
          /\ policyGen' = g
          /\ plans' = [i \in PlanIds |->
                         IF plans[i].policyGen = g THEN plans[i] ELSE Invalidated(plans[i])]
          /\ UNCHANGED <<epoch, now>>
    BY <1>5 DEF ReplacePolicy
  <2>2. policyGen' >= policyGen
    BY <1>1, <2>1 DEF PolicyGens
  <2>3. ASSUME NEW i \in PlanIds PROVE Step(plans[i], plans'[i])
    BY <1>1, <2>1, SameQuiet, InvalidatedQuiet
  <2> QED
    BY <1>1, <2>1, <2>2, <2>3
<1>6. CASE ImportState
  <2>1. PICK e \in (epoch + 1)..MaxEpoch :
          /\ epoch' = e
          /\ plans' = [i \in PlanIds |-> Imported(plans[i], e)]
          /\ UNCHANGED <<policyGen, now>>
    BY <1>6 DEF ImportState
  <2>2. epoch' >= epoch
    BY <1>1, <2>1, LimitAssumption
  <2>3. ASSUME NEW i \in PlanIds PROVE Step(plans[i], plans'[i])
    <3>1. plans'[i] = Imported(plans[i], epoch')
      BY <2>1
    <3> QED
      BY <1>1, <3>1, ImportedQuiet
  <2> QED
    BY <1>1, <2>1, <2>2, <2>3
<1>7. CASE NotifyChange
  <2>1. PICK S \in SUBSET PlanIds :
          /\ plans' = [i \in PlanIds |-> IF i \in S THEN Invalidated(plans[i]) ELSE plans[i]]
          /\ UNCHANGED <<epoch, policyGen, now>>
    BY <1>7 DEF NotifyChange
  <2>2. ASSUME NEW i \in PlanIds PROVE Step(plans[i], plans'[i])
    BY <1>1, <2>1, SameQuiet, InvalidatedQuiet
  <2> QED
    BY <1>1, <2>1, <2>2
<1>8. CASE \E i \in PlanIds : PlanNext(i)
  <2>1. PICK i \in PlanIds : PlanNext(i)
    BY <1>8
  <2>2. PICK q : Update(i, q) /\ Step(plans[i], q)
    BY <2>1, PlanCases
  <2>3. /\ UNCHANGED <<epoch, policyGen, now>>
        /\ \A j \in PlanIds : plans'[j] = IF j = i THEN q ELSE plans[j]
    BY <2>2 DEF Update, TypeOK
  <2> QED
    BY <1>1, <2>2, <2>3, SameQuiet
<1> QED
  BY <1>2, <1>3, <1>4, <1>5, <1>6, <1>7, <1>8 DEF Next

-----------------------------------------------------------------------------
(* Stage records: what opening and closing one does to the lineage.        *)

\* Only the last record may be pending, and it is the one of the plan's rung.
Openable(p) ==
  /\ \A k \in DOMAIN p.history : p.history[k].outcome = "PENDING" => k = Len(p.history)
  /\ HasPending(p) => LastRecord(p).index = p.index

\* open_stage_record leaves a pending record of the plan's rung, stage generation
\* and attempt at the end, and every closed record as it was.
LEMMA OpenedFacts ==
  ASSUME NEW p \in Plans, Openable(p)
  PROVE  LET g == p.history  h == Opened(p)  n == Len(h) IN
         /\ n \in Nat /\ n >= 1 /\ n >= Len(g) /\ DOMAIN h = 1..n
         /\ h[n].outcome = "PENDING"
         /\ h[n].index = p.index /\ h[n].generation = p.stageGen /\ h[n].attempt = p.attempt
         /\ \A k \in 1..(n - 1) : k \in DOMAIN g /\ h[k] = g[k] /\ g[k].outcome # "PENDING"
         /\ \A k \in DOMAIN g : k < n \/ g[k].outcome = "PENDING"
<1> DEFINE g == p.history
           h == Opened(p)
           rec == [index |-> p.index, generation |-> p.stageGen, attempt |-> p.attempt,
                   outcome |-> "PENDING", exited |-> 0]
           old == g[Len(g)]
           upd == [old EXCEPT !.generation = p.stageGen, !.attempt = p.attempt]
<1>1. g \in Seq(StageRecords) /\ Len(g) \in Nat /\ DOMAIN g = 1..Len(g)
  BY DEF Plans
<1>2. \A k \in DOMAIN g : g[k].outcome = "PENDING" => k = Len(g)
  BY DEF Openable
<1>3. CASE HasPending(p)
  <2>1. /\ g # <<>> /\ Len(g) \in DOMAIN g /\ old \in StageRecords
        /\ old.outcome = "PENDING" /\ old.index = p.index
    BY <1>1, <1>3 DEF HasPending, LastRecord, Openable
  <2>2. /\ upd.outcome = "PENDING" /\ upd.index = p.index
        /\ upd.generation = p.stageGen /\ upd.attempt = p.attempt
    BY <2>1 DEF StageRecords
  <2>3. h = [g EXCEPT ![Len(g)] = upd]
    BY <1>3, <2>1 DEF Opened, LastRecord
  <2> HIDE DEF g, h, upd, old
  <2>4. /\ Len(h) = Len(g) /\ DOMAIN h = DOMAIN g /\ h[Len(g)] = upd
        /\ \A k \in DOMAIN g : k # Len(g) => h[k] = g[k]
    BY <1>1, <2>1, <2>3
  <2>5. Len(g) >= 1
    BY <1>1, <2>1
  <2>6. \A k \in 1..(Len(g) - 1) : k \in DOMAIN g /\ h[k] = g[k] /\ g[k].outcome # "PENDING"
    BY <1>1, <1>2, <2>4
  <2>7. \A k \in DOMAIN g : k < Len(g) \/ g[k].outcome = "PENDING"
    BY <1>1, <2>1 DEF old
  <2>8. DOMAIN h = 1..Len(g) /\ Len(g) >= Len(g)
    BY <1>1, <2>4
  <2> QED
    BY <1>1, <2>2, <2>4, <2>5, <2>6, <2>7, <2>8 DEF g, h
<1>4. CASE ~HasPending(p)
  <2>1. h = Append(g, rec)
    BY <1>4 DEF Opened
  <2>2. /\ rec.outcome = "PENDING" /\ rec.index = p.index
        /\ rec.generation = p.stageGen /\ rec.attempt = p.attempt
    OBVIOUS
  <2>3. \A k \in DOMAIN g : g[k].outcome # "PENDING"
    BY <1>1, <1>2, <1>4 DEF HasPending, LastRecord
  <2> HIDE DEF g, h, rec
  <2>4. /\ Len(h) = Len(g) + 1 /\ DOMAIN h = 1..(Len(g) + 1) /\ h[Len(g) + 1] = rec
        /\ \A k \in DOMAIN g : h[k] = g[k]
    BY <1>1, <2>1
  <2>5. DOMAIN g = 1..Len(g) /\ Len(h) - 1 = Len(g)
    BY <1>1, <2>4
  <2>6. \A k \in 1..(Len(h) - 1) : k \in DOMAIN g /\ h[k] = g[k] /\ g[k].outcome # "PENDING"
    BY <2>3, <2>4, <2>5
  <2>7. \A k \in DOMAIN g : k < Len(h)
    BY <1>1, <2>4
  <2> QED
    BY <1>1, <2>2, <2>4, <2>6, <2>7 DEF g, h
<1> QED
  BY <1>3, <1>4

\* Closing the last record gives it an outcome and a tick.
LEMMA ClosedFacts ==
  ASSUME NEW h \in Seq(StageRecords), h # <<>>, NEW outcome, NEW t
  PROVE  LET c == Closed(h, outcome, t)  n == Len(h) IN
         /\ Len(c) = n /\ DOMAIN c = DOMAIN h
         /\ c[n].outcome = outcome /\ c[n].exited = t /\ c[n].index = h[n].index
         /\ \A k \in DOMAIN h : k # n => c[k] = h[k]
<1> DEFINE n == Len(h)
           old == h[n]
           r == [old EXCEPT !.outcome = outcome, !.exited = t]
           c == Closed(h, outcome, t)
<1>1. n \in DOMAIN h /\ DOMAIN h = 1..n
  OBVIOUS
<1>2. old \in StageRecords
  BY <1>1
<1>3. c = [h EXCEPT ![n] = r]
  BY DEF Closed
<1>4. r.outcome = outcome /\ r.exited = t /\ r.index = old.index
  BY <1>2 DEF StageRecords
<1> HIDE DEF r
<1>5. Len(c) = n /\ DOMAIN c = DOMAIN h /\ c[n] = r /\ \A k \in DOMAIN h : k # n => c[k] = h[k]
  BY <1>1, <1>3
<1> QED
  BY <1>4, <1>5

\* The lineage may grow, but its successes are the same.
Kept(p, q) ==
  /\ Len(q.history) >= Len(p.history)
  /\ Successes(q) = Successes(p)
  /\ \A k \in Successes(p) : q.history[k] = p.history[k]

\* The plan's rung is recorded as left at tick t, after every other success.
Left(p, q, t) ==
  /\ Len(q.history) >= Len(p.history)
  /\ \E n \in Nat :
       /\ \A k \in Successes(p) : k < n
       /\ Successes(q) = Successes(p) \cup {n}
       /\ \A k \in Successes(p) : q.history[k] = p.history[k]
       /\ q.history[n].index = p.index /\ q.history[n].exited = t

NonePending(q) == \A k \in DOMAIN q.history : q.history[k].outcome # "PENDING"

\* A lineage with no pending record can be continued on any rung.
LEMMA NonePendingFacts ==
  ASSUME NEW q \in Plans, NonePending(q)
  PROVE  Openable(q) /\ OpenRecordOf(q)
<1>1. q.history # <<>> => Len(q.history) \in DOMAIN q.history
  <2>1. q.history \in Seq(StageRecords)
    BY Zenon DEF Plans
  <2> QED
    BY <2>1
<1>2. ~HasPending(q)
  BY <1>1 DEF NonePending, HasPending, LastRecord
<1> QED
  BY <1>2 DEF NonePending, Openable, OpenRecordOf

\* Opening a record touches no success.
LEMMA OpenedKept ==
  ASSUME NEW p \in Plans, Openable(p), NEW q, q.history = Opened(p), q.index = p.index,
         q.stageGen = p.stageGen, q.attempt = p.attempt
  PROVE  Kept(p, q) /\ OpenRecordOf(q)
<1> DEFINE g == p.history
           h == Opened(p)
           n == Len(h)
<1>1. /\ n \in Nat /\ n >= 1 /\ n >= Len(g) /\ DOMAIN h = 1..n
      /\ h[n].outcome = "PENDING"
      /\ h[n].index = p.index /\ h[n].generation = p.stageGen /\ h[n].attempt = p.attempt
      /\ \A k \in 1..(n - 1) : k \in DOMAIN g /\ h[k] = g[k] /\ g[k].outcome # "PENDING"
      /\ \A k \in DOMAIN g : k < n \/ g[k].outcome = "PENDING"
  BY OpenedFacts
<1>2. DOMAIN g = 1..Len(g) /\ Len(g) \in Nat
  BY DEF Plans
<1> HIDE DEF g, h, n
<1>3. q.history = h /\ p.history = g /\ Len(q.history) = n /\ n \in 1..n
  BY <1>1 DEF g, h, n
<1>4. \A k \in DOMAIN h : k = n \/ k \in 1..(n - 1)
  BY <1>1
<1>5. \A k \in DOMAIN g : k \in 1..(n - 1) \/ g[k].outcome = "PENDING"
  BY <1>1, <1>2
<1>6. Kept(p, q)
  <2>1. Successes(q) = {k \in 1..(n - 1) : g[k].outcome = "SUCCEEDED"}
    BY <1>1, <1>3, <1>4 DEF Successes
  <2>2. Successes(p) = {k \in 1..(n - 1) : g[k].outcome = "SUCCEEDED"}
    BY <1>1, <1>3, <1>5 DEF Successes
  <2> QED
    BY <1>1, <1>3, <2>1, <2>2 DEF Kept
<1>7. OpenRecordOf(q)
  BY <1>1, <1>3, <1>4 DEF OpenRecordOf, LastRecord
<1> QED
  BY <1>6, <1>7

\* Closing the plan's record adds a success or a rollback at the end.
LEMMA ClosedKept ==
  ASSUME NEW p \in Plans, OpenRecordOf(p), NEW t \in Nat,
         NEW outcome \in {"SUCCEEDED", "ROLLED_BACK"}, NEW q,
         q.history = Closed(Opened(p), outcome, t)
  PROVE  /\ NonePending(q)
         /\ outcome = "SUCCEEDED" => Left(p, q, t)
         /\ outcome = "ROLLED_BACK" => Kept(p, q)
<1> DEFINE g == p.history
           h == Opened(p)
           c == Closed(h, outcome, t)
           n == Len(h)
<1>1. /\ n \in Nat /\ n >= 1 /\ n >= Len(g) /\ DOMAIN h = 1..n
      /\ h[n].index = p.index
      /\ \A k \in 1..(n - 1) : k \in DOMAIN g /\ h[k] = g[k] /\ g[k].outcome # "PENDING"
      /\ \A k \in DOMAIN g : k < n \/ g[k].outcome = "PENDING"
  BY OpenedFacts DEF OpenRecordOf, Openable
<1>2. /\ Len(c) = n /\ DOMAIN c = DOMAIN h
      /\ c[n].outcome = outcome /\ c[n].exited = t /\ c[n].index = h[n].index
      /\ \A k \in DOMAIN h : k # n => c[k] = h[k]
  BY OpenedType, ClosedFacts
<1>3. DOMAIN g = 1..Len(g) /\ Len(g) \in Nat
  BY DEF Plans
<1> HIDE DEF g, h, c, n
<1>4. q.history = c /\ p.history = g /\ n \in DOMAIN c
  BY <1>1, <1>2 DEF g, h, c
<1>5. \A k \in DOMAIN c : k = n \/ (k \in 1..(n - 1) /\ c[k] = g[k])
  BY <1>1, <1>2
<1>6. \A k \in DOMAIN g : k \in 1..(n - 1) \/ g[k].outcome = "PENDING"
  BY <1>1, <1>3
<1>7. \A k \in 1..(n - 1) : k \in DOMAIN c /\ k \in DOMAIN g /\ c[k] = g[k] /\ k < n
  BY <1>1, <1>2
<1>8. NonePending(q)
  BY <1>1, <1>2, <1>4, <1>5 DEF NonePending
<1>9. Successes(p) = {k \in 1..(n - 1) : g[k].outcome = "SUCCEEDED"}
  BY <1>4, <1>6, <1>7 DEF Successes
<1>10. CASE outcome = "SUCCEEDED"
  <2>1. Successes(q) = {k \in 1..(n - 1) : g[k].outcome = "SUCCEEDED"} \cup {n}
    BY <1>2, <1>4, <1>5, <1>7, <1>10 DEF Successes
  <2> QED
    BY <1>1, <1>2, <1>4, <1>7, <1>8, <1>9, <1>10, <2>1 DEF Left
<1>11. CASE outcome = "ROLLED_BACK"
  <2>1. Successes(q) = {k \in 1..(n - 1) : g[k].outcome = "SUCCEEDED"}
    BY <1>2, <1>4, <1>5, <1>7, <1>11 DEF Successes
  <2> QED
    BY <1>1, <1>2, <1>4, <1>7, <1>8, <1>9, <1>11, <2>1 DEF Kept
<1> QED
  BY <1>10, <1>11

-----------------------------------------------------------------------------
(* What each step that leaves a mark makes of the lineage.                 *)

\* A rollback touches no success and starts no attempt.
LEMMA RolledBackEffect ==
  ASSUME TypeOK, NEW p \in Plans, OpenRecordOf(p)
  PROVE  LET q == RolledBack(p) IN
         /\ Kept(p, q) /\ OpenRecordOf(q)
         /\ q.state = IF Len(p.rollbacks) + 1 >= MaxRollbacks THEN "FAILED" ELSE "ROLLED_BACK"
         /\ q.index = p.index /\ q.stageGen = p.stageGen /\ q.generation = p.generation
         /\ q.attempt = p.attempt /\ q.totalAttempts = p.totalAttempts
         /\ q.attemptsInStage = 0 /\ q.completions = p.completions
         /\ q.rollbacks = Append(p.rollbacks, now)
         /\ q.transitions = PushTransition(p.transitions, now)
         /\ q.updated = now /\ q.epoch = p.epoch /\ q.policyGen = p.policyGen
         /\ q.revalidationRequired = p.revalidationRequired
<1> DEFINE q == RolledBack(p)
<1>1. /\ q.state = IF Len(p.rollbacks) + 1 >= MaxRollbacks THEN "FAILED" ELSE "ROLLED_BACK"
      /\ q.index = p.index /\ q.stageGen = p.stageGen /\ q.generation = p.generation
      /\ q.attempt = p.attempt /\ q.totalAttempts = p.totalAttempts
      /\ q.attemptsInStage = 0 /\ q.completions = p.completions
      /\ q.rollbacks = Append(p.rollbacks, now)
      /\ q.transitions = PushTransition(p.transitions, now)
      /\ q.updated = now /\ q.epoch = p.epoch /\ q.policyGen = p.policyGen
      /\ q.revalidationRequired = p.revalidationRequired
  BY DEF RolledBack, Plans
<1>2. q.history = Closed(Opened(p), "ROLLED_BACK", now) \/ q.history = p.history
  BY DEF RolledBack, Plans
<1>3. now \in Nat /\ q \in Plans /\ Len(p.history) \in Nat
  <2>1. p.history \in Seq(StageRecords)
    BY Zenon DEF Plans
  <2>2. now \in Nat
    BY DEF TypeOK
  <2> QED
    BY <2>1, <2>2, RolledBackType
<1> HIDE DEF q
<1>4. CASE q.history = Closed(Opened(p), "ROLLED_BACK", now)
  <2>1. NonePending(q) /\ Kept(p, q)
    BY <1>3, <1>4, ClosedKept
  <2> QED
    BY <1>1, <1>3, <2>1, NonePendingFacts DEF q
<1>5. CASE q.history = p.history
  <2>1. Kept(p, q)
    BY <1>3, <1>5 DEF Kept, Successes
  <2>2. OpenRecordOf(q)
    BY <1>1, <1>5 DEF OpenRecordOf, HasPending, LastRecord
  <2> QED
    BY <1>1, <2>1, <2>2 DEF q
<1> QED
  BY <1>2, <1>4, <1>5

\* What a rebound plan keeps.
LEMMA ReboundEffect ==
  ASSUME NEW p \in Plans
  PROVE  LET q == Rebound(p) IN
         /\ q.history = p.history /\ q.index = p.index /\ q.stageGen = p.stageGen
         /\ q.generation = p.generation /\ q.totalAttempts = p.totalAttempts
         /\ q.attempt = p.attempt /\ q.attemptsInStage = 0
         /\ q.completions = p.completions /\ q.rollbacks = p.rollbacks
         /\ q.transitions = p.transitions /\ q.updated = now
         /\ q.epoch = epoch /\ q.policyGen = policyGen
         /\ q.revalidationRequired = FALSE
BY DEF Rebound, Plans

\* A revalidation touches no success and starts one attempt on the same rung.
LEMMA RevalidatedEffect ==
  ASSUME TypeOK, NEW p \in Plans, HasStage(p), OpenRecordOf(p)
  PROVE  LET q == Revalidated(p) IN
         /\ Kept(p, q) /\ OpenRecordOf(q)
         /\ q.state = StateForStage[Kind(p)] /\ q.index = p.index
         /\ q.stageGen = p.stageGen + 1 /\ q.generation = p.generation + 1
         /\ q.attempt = p.totalAttempts + 1 /\ q.totalAttempts = p.totalAttempts + 1
         /\ q.attemptsInStage = 0 /\ q.completions = p.completions
         /\ q.rollbacks = p.rollbacks /\ q.transitions = p.transitions
         /\ q.updated = now /\ q.epoch = epoch /\ q.policyGen = policyGen
         /\ q.revalidationRequired = FALSE
<1> DEFINE st == StateForStage[Kind(p)]
           b == Rebound(p)
           g == b.generation + 1
           sg == b.stageGen + 1
           a == p.totalAttempts + 1
           n == b.totalAttempts + 1
           r == [b EXCEPT !.generation = g, !.stageGen = sg, !.attempt = a,
                          !.totalAttempts = n, !.state = st]
           h == Opened(r)
           q == Revalidated(p)
<1>1. /\ b.history = p.history /\ b.index = p.index /\ b.stageGen = p.stageGen
      /\ b.generation = p.generation /\ b.totalAttempts = p.totalAttempts
      /\ b.attempt = p.attempt /\ b.attemptsInStage = 0
      /\ b.completions = p.completions /\ b.rollbacks = p.rollbacks
      /\ b.transitions = p.transitions /\ b.updated = now
      /\ b.epoch = epoch /\ b.policyGen = policyGen
      /\ b.revalidationRequired = FALSE
  BY ReboundEffect
<1>2. b \in Plans /\ st \in RecoveryStates
  BY ReboundType, KindType DEF TypeOK, RecoveryStates, LiveStates
<1>3. g \in Nat /\ sg \in Nat /\ a \in Nat /\ n \in Nat
  <2>1. p.generation \in Nat /\ p.stageGen \in Nat /\ p.totalAttempts \in Nat
    BY DEF Plans
  <2> HIDE DEF b
  <2> QED
    BY <1>1, <2>1
<1>4. q = [r EXCEPT !.history = h]
  BY DEF Revalidated
<1>5. g = p.generation + 1 /\ sg = p.stageGen + 1 /\ a = p.totalAttempts + 1 /\ n = a
  BY <1>1
<1> HIDE DEF st, b, g, sg, a, n, q
<1>6. /\ r \in Plans /\ r.state = st /\ r.generation = g /\ r.stageGen = sg
      /\ r.attempt = a /\ r.totalAttempts = n
      /\ r.history = b.history /\ r.index = b.index /\ r.attemptsInStage = b.attemptsInStage
      /\ r.completions = b.completions /\ r.rollbacks = b.rollbacks
      /\ r.transitions = b.transitions /\ r.updated = b.updated
      /\ r.epoch = b.epoch /\ r.policyGen = b.policyGen
      /\ r.revalidationRequired = b.revalidationRequired
  BY <1>2, <1>3 DEF Plans
<1> HIDE DEF r, h
<1>7. /\ q.history = h /\ q.state = r.state /\ q.generation = r.generation
      /\ q.stageGen = r.stageGen
      /\ q.attempt = r.attempt /\ q.totalAttempts = r.totalAttempts
      /\ q.index = r.index /\ q.attemptsInStage = r.attemptsInStage
      /\ q.completions = r.completions /\ q.rollbacks = r.rollbacks
      /\ q.transitions = r.transitions /\ q.updated = r.updated
      /\ q.epoch = r.epoch /\ q.policyGen = r.policyGen
      /\ q.revalidationRequired = r.revalidationRequired
  BY <1>4, <1>6 DEF Plans
<1>8. Openable(r)
  BY <1>1, <1>6 DEF Openable, OpenRecordOf, HasPending, LastRecord
<1>9. Kept(r, q) /\ OpenRecordOf(q)
  BY <1>6, <1>7, <1>8, OpenedKept DEF h
<1>10. Kept(p, q)
  BY <1>1, <1>6, <1>9 DEF Kept, Successes
<1> QED
  BY <1>1, <1>5, <1>6, <1>7, <1>9, <1>10 DEF q, st

\* A failed completion touches no stage record and no rung.
LEMMA PartialEffect ==
  ASSUME NEW p \in Plans, NEW s
  PROVE  LET q == PartiallyApplied(p, s) IN
         /\ q.history = p.history /\ q.index = p.index
         /\ q.stageGen = p.stageGen /\ q.generation = p.generation
         /\ q.attempt = p.attempt /\ q.totalAttempts = p.totalAttempts + 1
         /\ q.attemptsInStage = p.attemptsInStage + 1
         /\ Len(q.completions) = Len(p.completions) + 1
         /\ q.rollbacks = p.rollbacks /\ q.transitions = p.transitions
         /\ q.updated = p.updated /\ q.epoch = p.epoch /\ q.policyGen = p.policyGen
         /\ q.revalidationRequired = p.revalidationRequired
         /\ q.state \in {p.state, "ROLLING_BACK"}
<1> DEFINE q == PartiallyApplied(p, s)
           r == [key |-> CompletionKey(p, s.gen), state |-> "FAILED"]
<1>1. /\ q.history = p.history /\ q.index = p.index
      /\ q.stageGen = p.stageGen /\ q.generation = p.generation
      /\ q.attempt = p.attempt /\ q.totalAttempts = p.totalAttempts + 1
      /\ q.attemptsInStage = p.attemptsInStage + 1
      /\ q.completions = Append(p.completions, r)
      /\ q.rollbacks = p.rollbacks /\ q.transitions = p.transitions
      /\ q.updated = p.updated /\ q.epoch = p.epoch /\ q.policyGen = p.policyGen
      /\ q.revalidationRequired = p.revalidationRequired
      /\ q.state \in {p.state, "ROLLING_BACK"}
  BY DEF PartiallyApplied, Plans
<1>2. Len(Append(p.completions, r)) = Len(p.completions) + 1
  BY DEF Plans
<1> QED
  BY <1>1, <1>2

\* A committed completion leaves the last rung.
LEMMA CommittedEffect ==
  ASSUME TypeOK, NEW p \in Plans, NEW s \in Snapshots, OpenRecordOf(p)
  PROVE  LET q == Committed(p, s) IN
         /\ Left(p, q, s.tick) /\ OpenRecordOf(q)
         /\ q.state = "COMPLETED" /\ q.index = p.index
         /\ q.stageGen = p.stageGen /\ q.generation = p.generation
         /\ q.attempt = p.attempt /\ q.totalAttempts = p.totalAttempts
         /\ q.attemptsInStage = p.attemptsInStage
         /\ Len(q.completions) = Len(p.completions) + 1
         /\ q.rollbacks = p.rollbacks
         /\ q.transitions = PushTransition(p.transitions, s.tick)
         /\ q.updated = s.tick /\ q.epoch = p.epoch /\ q.policyGen = p.policyGen
         /\ q.revalidationRequired = p.revalidationRequired
<1> DEFINE q == Committed(p, s)
           h == Closed(Opened(p), "SUCCEEDED", s.tick)
           r == [key |-> CompletionKey(p, s.gen), state |-> "COMMITTED"]
<1>1. /\ q.history = h
      /\ q.state = "COMPLETED" /\ q.index = p.index
      /\ q.stageGen = p.stageGen /\ q.generation = p.generation
      /\ q.attempt = p.attempt /\ q.totalAttempts = p.totalAttempts
      /\ q.attemptsInStage = p.attemptsInStage
      /\ q.completions = Append(p.completions, r)
      /\ q.rollbacks = p.rollbacks
      /\ q.transitions = PushTransition(p.transitions, s.tick)
      /\ q.updated = s.tick /\ q.epoch = p.epoch /\ q.policyGen = p.policyGen
      /\ q.revalidationRequired = p.revalidationRequired
  BY DEF Committed, Plans
<1>2. Len(Append(p.completions, r)) = Len(p.completions) + 1
  BY DEF Plans
<1>3. s.tick \in Nat /\ q \in Plans
  BY SnapshotType, CommittedType
<1> HIDE DEF q
<1>4. NonePending(q) /\ Left(p, q, s.tick)
  BY <1>1, <1>3, ClosedKept
<1>5. OpenRecordOf(q)
  BY <1>3, <1>4, NonePendingFacts
<1> QED
  BY <1>1, <1>2, <1>4, <1>5 DEF q

\* A plan that fails with its rung closed as a success.
LEMMA FailedClosedEffect ==
  ASSUME TypeOK, NEW p \in Plans, NEW s \in Snapshots, OpenRecordOf(p)
  PROVE  LET q == Failed([p EXCEPT !.history = Closed(Opened(p), "SUCCEEDED", s.tick)]) IN
         /\ Left(p, q, s.tick) /\ OpenRecordOf(q)
         /\ q.state = "FAILED" /\ q.index = p.index
         /\ q.stageGen = p.stageGen /\ q.generation = p.generation
         /\ q.completions = p.completions /\ q.rollbacks = p.rollbacks
         /\ q.transitions = p.transitions /\ q.updated = p.updated
         /\ q.epoch = p.epoch /\ q.policyGen = p.policyGen
         /\ q.revalidationRequired = p.revalidationRequired
<1> DEFINE h == Closed(Opened(p), "SUCCEEDED", s.tick)
           q == Failed([p EXCEPT !.history = h])
<1>1. h \in Seq(StageRecords) /\ s.tick \in Nat
  BY SnapshotType, OpenedType, ClosedType
<1>2. /\ q.history = h
      /\ q.state = "FAILED" /\ q.index = p.index
      /\ q.stageGen = p.stageGen /\ q.generation = p.generation
      /\ q.completions = p.completions /\ q.rollbacks = p.rollbacks
      /\ q.transitions = p.transitions /\ q.updated = p.updated
      /\ q.epoch = p.epoch /\ q.policyGen = p.policyGen
      /\ q.revalidationRequired = p.revalidationRequired
  BY DEF Failed, Plans
<1>3. q \in Plans
  BY <1>1, HistoryType, FailedType
<1> HIDE DEF q
<1>4. NonePending(q) /\ Left(p, q, s.tick)
  BY <1>1, <1>2, ClosedKept
<1>5. OpenRecordOf(q)
  BY <1>3, <1>4, NonePendingFacts
<1> QED
  BY <1>2, <1>4, <1>5 DEF q

\* Climbing leaves the plan's rung for the next one.
LEMMA ClimbedEffect ==
  ASSUME TypeOK, NEW p \in Plans, NEW s \in Snapshots, OpenRecordOf(p)
  PROVE  LET q == Climbed(p, s) IN
         /\ Left(p, q, s.tick) /\ NonePending(q) /\ q \in Plans
         /\ q.state = p.state /\ q.index = p.index + 1
         /\ q.stageGen = p.stageGen /\ q.generation = p.generation
         /\ q.attempt = p.attempt /\ q.totalAttempts = p.totalAttempts
         /\ q.attemptsInStage = p.attemptsInStage
         /\ q.completions = p.completions /\ q.rollbacks = p.rollbacks
         /\ q.transitions = p.transitions /\ q.updated = p.updated
         /\ q.epoch = p.epoch /\ q.policyGen = p.policyGen
         /\ q.revalidationRequired = p.revalidationRequired
<1> DEFINE h == Closed(Opened(p), "SUCCEEDED", s.tick)
           q == Climbed(p, s)
<1>1. s.tick \in Nat /\ q \in Plans
  BY SnapshotType, ClimbedType
<1>2. /\ q.history = h
      /\ q.state = p.state /\ q.index = p.index + 1
      /\ q.stageGen = p.stageGen /\ q.generation = p.generation
      /\ q.attempt = p.attempt /\ q.totalAttempts = p.totalAttempts
      /\ q.attemptsInStage = p.attemptsInStage
      /\ q.completions = p.completions /\ q.rollbacks = p.rollbacks
      /\ q.transitions = p.transitions /\ q.updated = p.updated
      /\ q.epoch = p.epoch /\ q.policyGen = p.policyGen
      /\ q.revalidationRequired = p.revalidationRequired
  BY DEF Climbed, Plans
<1> HIDE DEF q
<1>3. NonePending(q) /\ Left(p, q, s.tick)
  BY <1>1, <1>2, ClosedKept
<1> QED
  BY <1>1, <1>2, <1>3 DEF q

\* A plan that fails on the next rung.
LEMMA FailedClimbedEffect ==
  ASSUME TypeOK, NEW p \in Plans, NEW s \in Snapshots, OpenRecordOf(p)
  PROVE  LET q == Failed(Climbed(p, s)) IN
         /\ Left(p, q, s.tick) /\ OpenRecordOf(q)
         /\ q.state = "FAILED" /\ q.index = p.index + 1
         /\ q.stageGen = p.stageGen /\ q.generation = p.generation
         /\ q.completions = p.completions /\ q.rollbacks = p.rollbacks
         /\ q.transitions = p.transitions /\ q.updated = p.updated
         /\ q.epoch = p.epoch /\ q.policyGen = p.policyGen
         /\ q.revalidationRequired = p.revalidationRequired
<1> DEFINE c == Climbed(p, s)
           q == Failed(c)
<1>1. /\ Left(p, c, s.tick) /\ NonePending(c) /\ c \in Plans
      /\ c.index = p.index + 1
      /\ c.stageGen = p.stageGen /\ c.generation = p.generation
      /\ c.completions = p.completions /\ c.rollbacks = p.rollbacks
      /\ c.transitions = p.transitions /\ c.updated = p.updated
      /\ c.epoch = p.epoch /\ c.policyGen = p.policyGen
      /\ c.revalidationRequired = p.revalidationRequired
  BY ClimbedEffect
<1> HIDE DEF c
<1>2. q.state = "FAILED" /\ SameButState(c, q)
  BY <1>1, StateFields DEF Failed
<1>3. OpenRecordOf(c)
  BY <1>1, NonePendingFacts
<1> HIDE DEF q
<1>4. Left(p, q, s.tick)
  BY <1>1, <1>2 DEF Left, Successes, SameButState
<1>5. OpenRecordOf(q)
  BY <1>2, <1>3 DEF OpenRecordOf, HasPending, LastRecord, SameButState
<1> QED
  BY <1>1, <1>2, <1>4, <1>5 DEF SameButState, q, c

\* Entering a rung touches no success and starts one attempt.
LEMMA EnteredEffect ==
  ASSUME TypeOK, NEW c \in Plans, NEW s \in Snapshots, HasStage(c), NonePending(c)
  PROVE  LET q == Entered(c, s) IN
         /\ Kept(c, q) /\ OpenRecordOf(q)
         /\ q.state = StateForStage[Kind(c)] /\ q.index = c.index
         /\ q.stageGen = c.stageGen + 1 /\ q.generation = c.generation
         /\ q.attempt = c.totalAttempts + 1 /\ q.totalAttempts = c.totalAttempts + 1
         /\ q.attemptsInStage = 1
         /\ q.completions = c.completions /\ q.rollbacks = c.rollbacks
         /\ q.transitions = PushTransition(c.transitions, s.tick) /\ q.updated = s.tick
         /\ q.epoch = c.epoch /\ q.policyGen = c.policyGen
         /\ q.revalidationRequired = c.revalidationRequired
<1> DEFINE st == StateForStage[Kind(c)]
           tr == PushTransition(c.transitions, s.tick)
           sg == c.stageGen + 1
           n == c.totalAttempts + 1
           t == s.tick
           r == [c EXCEPT !.stageGen = sg, !.attempt = n, !.totalAttempts = n,
                          !.attemptsInStage = 1, !.state = st, !.updated = t,
                          !.transitions = tr]
           h == Opened(r)
           q == Entered(c, s)
<1>1. t \in Nat /\ st \in RecoveryStates
  BY SnapshotType, KindType DEF TypeOK, RecoveryStates, LiveStates
<1>2. tr \in Seq(Nat)
  BY <1>1, TransitionType DEF Plans
<1>3. sg \in Nat /\ n \in Nat
  BY PlanFields
<1>4. q = [r EXCEPT !.history = h]
  BY Zenon DEF Entered
<1> HIDE DEF st, tr, sg, n, t, q
<1>5. /\ r \in Plans /\ r.state = st /\ r.stageGen = sg /\ r.attempt = n
      /\ r.totalAttempts = n /\ r.attemptsInStage = 1 /\ r.updated = t /\ r.transitions = tr
      /\ r.history = c.history /\ r.index = c.index /\ r.generation = c.generation
      /\ r.completions = c.completions /\ r.rollbacks = c.rollbacks
      /\ r.epoch = c.epoch /\ r.policyGen = c.policyGen
      /\ r.revalidationRequired = c.revalidationRequired
  BY <1>1, <1>2, <1>3 DEF Plans
<1> HIDE DEF r, h
<1>6. /\ q.history = h /\ q.state = r.state /\ q.generation = r.generation
      /\ q.stageGen = r.stageGen
      /\ q.attempt = r.attempt /\ q.totalAttempts = r.totalAttempts
      /\ q.index = r.index /\ q.attemptsInStage = r.attemptsInStage
      /\ q.completions = r.completions /\ q.rollbacks = r.rollbacks
      /\ q.transitions = r.transitions /\ q.updated = r.updated
      /\ q.epoch = r.epoch /\ q.policyGen = r.policyGen
      /\ q.revalidationRequired = r.revalidationRequired
  BY <1>4, <1>5 DEF Plans
<1>7. Openable(r)
  <2>1. NonePending(r)
    BY <1>5 DEF NonePending
  <2> QED
    BY <1>5, <2>1, NonePendingFacts
<1>8. Kept(r, q) /\ OpenRecordOf(q)
  BY <1>5, <1>6, <1>7, OpenedKept DEF h
<1>9. Kept(c, q)
  BY <1>5, <1>8 DEF Kept, Successes
<1> QED
  BY <1>5, <1>6, <1>8, <1>9 DEF q, st, tr, sg, n, t

\* An advance leaves the plan's rung and starts one attempt on the next one.
LEMMA AdvancedEffect ==
  ASSUME TypeOK, NEW p \in Plans, NEW s \in Snapshots, OpenRecordOf(p), HasStage(p),
         Kind(p) # "COMPLETE"
  PROVE  LET q == Entered(Climbed(p, s), s) IN
         /\ Left(p, q, s.tick) /\ OpenRecordOf(q)
         /\ q.state \in StageStates /\ q.index = p.index + 1
         /\ q.stageGen = p.stageGen + 1 /\ q.generation = p.generation
         /\ q.attempt = p.totalAttempts + 1 /\ q.totalAttempts = p.totalAttempts + 1
         /\ q.attemptsInStage = 1
         /\ q.completions = p.completions /\ q.rollbacks = p.rollbacks
         /\ q.transitions = PushTransition(p.transitions, s.tick) /\ q.updated = s.tick
         /\ q.epoch = p.epoch /\ q.policyGen = p.policyGen
         /\ q.revalidationRequired = p.revalidationRequired
<1> DEFINE c == Climbed(p, s)
           q == Entered(c, s)
<1>1. /\ Left(p, c, s.tick) /\ NonePending(c) /\ c \in Plans
      /\ c.index = p.index + 1
      /\ c.stageGen = p.stageGen /\ c.generation = p.generation
      /\ c.totalAttempts = p.totalAttempts
      /\ c.completions = p.completions /\ c.rollbacks = p.rollbacks
      /\ c.transitions = p.transitions
      /\ c.epoch = p.epoch /\ c.policyGen = p.policyGen
      /\ c.revalidationRequired = p.revalidationRequired
  BY ClimbedEffect
<1>2. HasStage(c)
  BY NextRung
<1> HIDE DEF c
<1>3. StateForStage[Kind(c)] \in StageStates
  BY <1>1, <1>2, KindType DEF TypeOK
<1>4. /\ Kept(c, q) /\ OpenRecordOf(q)
      /\ q.state = StateForStage[Kind(c)] /\ q.index = c.index
      /\ q.stageGen = c.stageGen + 1 /\ q.generation = c.generation
      /\ q.attempt = c.totalAttempts + 1 /\ q.totalAttempts = c.totalAttempts + 1
      /\ q.attemptsInStage = 1
      /\ q.completions = c.completions /\ q.rollbacks = c.rollbacks
      /\ q.transitions = PushTransition(c.transitions, s.tick) /\ q.updated = s.tick
      /\ q.epoch = c.epoch /\ q.policyGen = c.policyGen
      /\ q.revalidationRequired = c.revalidationRequired
  BY <1>1, <1>2, EnteredEffect
<1> HIDE DEF q
<1>5. Left(p, q, s.tick)
  <2>1. /\ Len(p.history) \in Nat /\ Len(c.history) >= Len(p.history)
        /\ Len(q.history) >= Len(c.history)
    BY <1>1, <1>4 DEF Plans, Left, Kept
  <2>2. PICK n \in Nat :
          /\ \A k \in Successes(p) : k < n
          /\ Successes(c) = Successes(p) \cup {n}
          /\ \A k \in Successes(p) : c.history[k] = p.history[k]
          /\ c.history[n].index = p.index /\ c.history[n].exited = s.tick
    BY <1>1 DEF Left
  <2>3. Len(q.history) >= Len(p.history)
    <3>1. Len(c.history) \in Nat /\ Len(q.history) \in Int
      <4>1. Entered(c, s) \in Plans
        BY <1>1, <1>2, EnteredType
      <4> QED
        BY <1>1, <4>1 DEF q, Plans
    <3> QED
      BY <2>1, <3>1
  <2> QED
    BY <1>4, <2>2, <2>3 DEF Left, Kept
<1> QED
  BY <1>1, <1>3, <1>4, <1>5 DEF q, c

\* A revalidation that runs out of generations rebinds the plan and fails it.
LEMMA FailedReboundEffect ==
  ASSUME NEW p \in Plans, NEW q,
         q \in {Failed(Rebound(p)), Failed([Rebound(p) EXCEPT !.generation = @ + 1])}
  PROVE  /\ q.history = p.history /\ q.index = p.index /\ q.stageGen = p.stageGen
         /\ q.attempt = p.attempt /\ q.generation >= p.generation
         /\ q.completions = p.completions /\ q.rollbacks = p.rollbacks
         /\ q.transitions = p.transitions /\ q.updated = now
         /\ q.epoch = epoch /\ q.policyGen = policyGen /\ q.state = "FAILED"
<1> DEFINE b == Rebound(p)
           g == b.generation + 1
           c == [b EXCEPT !.generation = g]
<1>1. p.generation \in Nat
  BY DEF Plans
<1>2. Failed(b).generation = p.generation /\ Failed(c).generation = p.generation + 1
  BY DEF Failed, Rebound, Plans
<1>3. /\ q.history = p.history /\ q.index = p.index /\ q.stageGen = p.stageGen
      /\ q.attempt = p.attempt
      /\ q.completions = p.completions /\ q.rollbacks = p.rollbacks
      /\ q.transitions = p.transitions /\ q.updated = now
      /\ q.epoch = epoch /\ q.policyGen = policyGen /\ q.state = "FAILED"
  <2>1. CASE q = Failed(b)
    BY <2>1 DEF Failed, Rebound, Plans
  <2>2. CASE q = Failed(c)
    BY <2>2 DEF Failed, Rebound, Plans
  <2> QED
    BY <2>1, <2>2
<1> QED
  BY <1>1, <1>2, <1>3

-----------------------------------------------------------------------------
(* The same steps, seen from the rungs a plan has left.                    *)

\* No rung is left: whatever else the step does, a transition it records is one of
\* the present.
Still(p, q) ==
  /\ Kept(p, q) /\ q.index = p.index
  /\ q.state = p.state \/ q.state = "FAILED" \/ (IsLive(p) /\ IsLive(q))
  /\ q.updated \in {p.updated, now}
  /\ \/ q.transitions = p.transitions
     \/ q.transitions = PushTransition(p.transitions, now) /\ q.updated = now

\* A slot that is emptied or filled anew.
Fresh(q) ==
  /\ q.history = <<>> \/ (Len(q.history) = 1 /\ q.history[1].outcome = "PENDING")
  /\ q.index = 0 /\ q.transitions = <<>> /\ q.updated \in {0, now}
  /\ ~(q.state \in TerminalStates)

\* The rung is left at tick t, and the plan stands on the next one, is completed or
\* has failed.
Advanced(p, q, t) ==
  /\ IsLive(p) /\ HasStage(p) /\ Left(p, q, t)
  /\ t \in Nat /\ t <= now /\ p.updated <= t /\ t - p.updated >= Dwell
  /\ CountRecent(p.transitions, t) < MaxTransitions
  /\ q.index \in {p.index, p.index + 1}
  /\ q.index = p.index => q.state \in TerminalStates
  /\ q.state = "COMPLETED" => q.index = p.index
  /\ \/ q.state = "FAILED" /\ q.updated = p.updated /\ q.transitions = p.transitions
     \/ q.state # "FAILED" /\ q.updated = t /\ q.transitions = PushTransition(p.transitions, t)

\* A lineage that is not touched keeps its successes.
LEMMA SameKept ==
  ASSUME NEW p \in Plans, NEW q, q.history = p.history
  PROVE  Kept(p, q)
<1>1. Len(p.history) \in Nat
  BY DEF Plans
<1> QED
  BY <1>1 DEF Kept, Successes

\* A snapshot that leaves a mark either leaves the rung or is a failed completion.
LEMMA MarkedMoves ==
  ASSUME TypeOK, NEW p \in Plans, OpenRecordOf(p), NEW q, NEW s \in Snapshots,
         Marked(p, q, s)
  PROVE  Still(p, q) \/ Advanced(p, q, s.tick)
<1>1. Verified(p, s) => Allowed(p, s)
  BY DEF Verified
<1>2. /\ IsLive(p) /\ HasStage(p)
      /\ p.updated <= s.tick /\ s.tick - p.updated >= Dwell
      /\ CountRecent(p.transitions, s.tick) < MaxTransitions
  BY <1>1, AllowedFacts DEF Marked, WithinRate
<1>3. s.tick \in Nat /\ s.tick <= now /\ p.index \in Nat
  BY SnapshotType DEF Plans
<1>4. CASE q = PartiallyApplied(p, s)
  <2>1. /\ q.history = p.history /\ q.index = p.index /\ q.updated = p.updated
        /\ q.transitions = p.transitions /\ q.state \in {p.state, "ROLLING_BACK"}
    BY <1>4, PartialEffect
  <2>2. Kept(p, q)
    BY <2>1, SameKept
  <2> QED
    BY <1>2, <2>1, <2>2 DEF Still, IsLive, LiveStates
<1>5. CASE q = Failed([p EXCEPT !.history = Closed(Opened(p), "SUCCEEDED", s.tick)])
  <2>1. /\ Left(p, q, s.tick) /\ q.state = "FAILED" /\ q.index = p.index
        /\ q.transitions = p.transitions /\ q.updated = p.updated
    BY <1>5, FailedClosedEffect
  <2> QED
    BY <1>2, <1>3, <2>1 DEF Advanced, TerminalStates
<1>6. CASE q = Committed(p, s)
  <2>1. /\ Left(p, q, s.tick) /\ q.state = "COMPLETED" /\ q.index = p.index
        /\ q.transitions = PushTransition(p.transitions, s.tick) /\ q.updated = s.tick
    BY <1>6, CommittedEffect
  <2> QED
    BY <1>2, <1>3, <2>1 DEF Advanced, TerminalStates
<1>7. CASE q = Failed(Climbed(p, s))
  <2>1. /\ Left(p, q, s.tick) /\ q.state = "FAILED" /\ q.index = p.index + 1
        /\ q.transitions = p.transitions /\ q.updated = p.updated
    BY <1>7, FailedClimbedEffect
  <2> QED
    BY <1>2, <1>3, <2>1 DEF Advanced, TerminalStates
<1>8. CASE Kind(p) # "COMPLETE" /\ q = Entered(Climbed(p, s), s)
  <2>1. /\ Left(p, q, s.tick) /\ q.state \in StageStates /\ q.index = p.index + 1
        /\ q.transitions = PushTransition(p.transitions, s.tick) /\ q.updated = s.tick
    BY <1>2, <1>8, AdvancedEffect
  <2> QED
    BY <1>2, <1>3, <2>1 DEF Advanced, StageStates
<1> QED
  BY <1>4, <1>5, <1>6, <1>7, <1>8 DEF Marked

\* Every step leaves at most one rung.
LEMMA StepMoves ==
  ASSUME TypeOK, NEW p \in Plans, OpenRecordOf(p), NEW q, Step(p, q)
  PROVE  \/ Still(p, q) \/ \E t \in Nat : Advanced(p, q, t)
         \/ Fresh(q) /\ (q = NoPlan \/ (p.state = "ABSENT" /\ q = NewPlan))
<1>1. CASE Quiet(p, q)
  <2>1. Kept(p, q)
    BY <1>1, SameKept DEF Quiet
  <2> QED
    BY <1>1, <2>1 DEF Quiet, Still
<1>2. CASE q = NoPlan
  BY <1>2 DEF NoPlan, Fresh, TerminalStates
<1>3. CASE p.state = "ABSENT" /\ q = NewPlan
  <2> DEFINE rec == [index |-> 0, generation |-> 1, attempt |-> 1,
                     outcome |-> "PENDING", exited |-> 0]
  <2>1. /\ q.history = <<rec>> /\ q.index = 0 /\ q.transitions = <<>> /\ q.updated = now
        /\ q.state = StateForStage[Ladder[policyGen][1]]
    BY <1>3 DEF NewPlan, NoPlan
  <2>2. q.state = "OBSERVING"
    BY <2>1, LadderAssumption DEF TypeOK, ValidLadder, StateForStage
  <2>3. Len(q.history) = 1 /\ q.history[1].outcome = "PENDING"
    BY <2>1
  <2> QED
    BY <1>3, <2>1, <2>2, <2>3 DEF Fresh, TerminalStates
<1>4. CASE IsLive(p) /\ q = RolledBack(p)
  <2>1. /\ Kept(p, q) /\ q.state \in {"FAILED", "ROLLED_BACK"} /\ q.index = p.index
        /\ q.transitions = PushTransition(p.transitions, now) /\ q.updated = now
    BY <1>4, RolledBackEffect
  <2> QED
    BY <1>4, <2>1 DEF Still, IsLive, LiveStates
<1>5. CASE Revalidatable(p) /\ q = Revalidated(p)
  <2>1. /\ Kept(p, q) /\ q.state = StateForStage[Kind(p)] /\ q.index = p.index
        /\ q.transitions = p.transitions /\ q.updated = now
    BY <1>5, RevalidatedEffect DEF Revalidatable
  <2>2. IsLive(p) /\ StateForStage[Kind(p)] \in LiveStates
    BY <1>5, KindType DEF Revalidatable, TypeOK, LiveStates
  <2> QED
    BY <2>1, <2>2 DEF Still, IsLive
<1>6. CASE q \in {Failed(Rebound(p)), Failed([Rebound(p) EXCEPT !.generation = @ + 1])}
  <2>1. /\ q.history = p.history /\ q.index = p.index /\ q.state = "FAILED"
        /\ q.transitions = p.transitions /\ q.updated = now
    BY <1>6, FailedReboundEffect
  <2>2. Kept(p, q)
    BY <2>1, SameKept
  <2> QED
    BY <2>1, <2>2 DEF Still
<1>7. ASSUME NEW s \in Snapshots, Marked(p, q, s)
      PROVE  Still(p, q) \/ \E t \in Nat : Advanced(p, q, t)
  <2>1. s.tick \in Nat
    BY SnapshotType
  <2> QED
    BY <1>7, <2>1, MarkedMoves
<1> QED
  BY <1>1, <1>2, <1>3, <1>4, <1>5, <1>6, <1>7 DEF Step

-----------------------------------------------------------------------------
(* The inductive invariant: what the runs check of one plan, and what they *)
(* rest on.                                                                *)

\* A slot that holds no plan holds nothing: a new plan starts afresh.
EmptyOf(p) == p.state = "ABSENT" => p = NoPlan

\* A plan is never ahead of the clock, the epoch or the policy.
TimeOf(p) == p.updated <= now /\ p.epoch <= epoch /\ p.policyGen <= policyGen

\* Rungs are left in order, each at most once, and before the one the plan is on.
RungsOf(p) ==
  /\ \A j, k \in Successes(p) : j < k => p.history[j].index < p.history[k].index
  /\ \A k \in Successes(p) :
       p.history[k].index < 6 /\ (p.state \notin TerminalStates => p.history[k].index < p.index)

\* Rungs are left no later than the plan's last transition.
LateOf(p) == p.state # "FAILED" => \A k \in Successes(p) : p.history[k].exited <= p.updated

\* The transition window holds ticks in order, none later than the last one.
TicksOf(p) ==
  /\ Len(p.transitions) <= TransitionRecords
  /\ \A j, k \in DOMAIN p.transitions : j <= k => p.transitions[j] <= p.transitions[k]
  /\ \A k \in DOMAIN p.transitions : p.transitions[k] <= p.updated

\* The advances since a tick are all in the transition window, unless the window
\* is full of transitions since that tick.
LeftSince(p, a) == {k \in Successes(p) : p.history[k].exited >= a}
MovedSince(ticks, a) == {k \in DOMAIN ticks : ticks[k] >= a}
FullSince(ticks, a) ==
  Len(ticks) = TransitionRecords /\ \A k \in DOMAIN ticks : ticks[k] >= a
WindowSince(p, a) ==
  FullSince(p.transitions, a)
    \/ Cardinality(LeftSince(p, a)) <= Cardinality(MovedSince(p.transitions, a))
WindowOf(p) == p.state # "FAILED" => \A a \in Int : WindowSince(p, a)

Traced(p) ==
  /\ EmptyOf(p) /\ TimeOf(p) /\ RungsOf(p) /\ LateOf(p) /\ TicksOf(p) /\ WindowOf(p)
  /\ OpenRecordOf(p) /\ ClimbOf(p) /\ AccountOf(p) /\ RollbacksOf(p) /\ RateOf(p)
  /\ Dwell > 0 => ExitsOf(p)

LInv == TypeOK /\ \A i \in PlanIds : Traced(plans[i])
-----------------------------------------------------------------------------
(* The transition window: what pushing a tick does to the counts.          *)

\* A full window drops its oldest tick.
LEMMA PushedTicks ==
  ASSUME NEW ticks \in Seq(Nat), NEW t \in Nat, Len(ticks) <= TransitionRecords
  PROVE  LET new == PushTransition(ticks, t) IN
         \/ /\ Len(ticks) < TransitionRecords
            /\ Len(new) = Len(ticks) + 1 /\ new[Len(ticks) + 1] = t
            /\ \A k \in 1..Len(ticks) : new[k] = ticks[k]
         \/ /\ Len(ticks) = TransitionRecords /\ Len(ticks) >= 1
            /\ Len(new) = Len(ticks) /\ new[Len(ticks)] = t
            /\ \A k \in 1..(Len(ticks) - 1) : new[k] = ticks[k + 1]
<1>1. Len(ticks) \in Nat /\ TransitionRecords \in Nat /\ TransitionRecords >= 1
  BY LimitAssumption
<1>2. CASE Len(ticks) < TransitionRecords
  BY <1>2 DEF PushTransition
<1>3. CASE ~(Len(ticks) < TransitionRecords)
  <2>1. Len(ticks) = TransitionRecords /\ Len(ticks) >= 1 /\ ticks # <<>>
    BY <1>1, <1>3
  <2> DEFINE r == Tail(ticks)
  <2>2. r \in Seq(Nat) /\ Len(r) = Len(ticks) - 1 /\ \A k \in 1..Len(r) : r[k] = ticks[k + 1]
    BY <2>1
  <2>3. PushTransition(ticks, t) = Append(r, t)
    BY <1>3 DEF PushTransition
  <2> HIDE DEF r
  <2>4. /\ Len(Append(r, t)) = Len(r) + 1 /\ Append(r, t)[Len(r) + 1] = t
        /\ \A k \in 1..Len(r) : Append(r, t)[k] = r[k]
    BY <2>2
  <2>5. Len(r) + 1 = Len(ticks)
    BY <1>1, <2>2
  <2> QED
    BY <2>1, <2>2, <2>3, <2>4, <2>5
<1> QED
  BY <1>2, <1>3

\* Pushing the latest tick keeps the window in order.
LEMMA PushedOrder ==
  ASSUME NEW ticks \in Seq(Nat), NEW t \in Nat, Len(ticks) <= TransitionRecords,
         \A j, k \in DOMAIN ticks : j <= k => ticks[j] <= ticks[k],
         \A k \in DOMAIN ticks : ticks[k] <= t
  PROVE  LET new == PushTransition(ticks, t) IN
         /\ Len(new) <= TransitionRecords
         /\ \A j, k \in DOMAIN new : j <= k => new[j] <= new[k]
         /\ \A k \in DOMAIN new : new[k] <= t
<1> DEFINE new == PushTransition(ticks, t)
           n == Len(ticks)
<1>1. new \in Seq(Nat)
  BY TransitionType
<1>2. n \in Nat /\ DOMAIN ticks = 1..n /\ TransitionRecords \in Nat
      /\ \A k \in 1..n : ticks[k] \in Nat
  BY LimitAssumption
<1>3. \/ /\ n < TransitionRecords
         /\ Len(new) = n + 1 /\ new[n + 1] = t
         /\ \A k \in 1..n : new[k] = ticks[k]
      \/ /\ n = TransitionRecords /\ n >= 1
         /\ Len(new) = n /\ new[n] = t
         /\ \A k \in 1..(n - 1) : new[k] = ticks[k + 1]
  BY PushedTicks
<1>4. DOMAIN new = 1..Len(new)
  BY <1>1
<1> HIDE DEF new, n
<1>5. CASE n < TransitionRecords /\ Len(new) = n + 1 /\ new[n + 1] = t
           /\ \A k \in 1..n : new[k] = ticks[k]
  <2>1. \A k \in DOMAIN new : (k \in 1..n /\ new[k] = ticks[k]) \/ (k = n + 1 /\ new[k] = t)
    BY <1>2, <1>4, <1>5
  <2>2. Len(new) <= TransitionRecords
    BY <1>2, <1>5
  <2>3. \A k \in DOMAIN new : new[k] <= t
    BY <1>2, <2>1
  <2>4. \A j, k \in DOMAIN new : j <= k => new[j] <= new[k]
    BY <1>2, <2>1
  <2> QED
    BY <2>2, <2>3, <2>4 DEF new
<1>6. CASE n = TransitionRecords /\ n >= 1 /\ Len(new) = n /\ new[n] = t
           /\ \A k \in 1..(n - 1) : new[k] = ticks[k + 1]
  <2>1. \A k \in DOMAIN new :
          (k + 1 \in 1..n /\ new[k] = ticks[k + 1]) \/ (k = n /\ new[k] = t)
    BY <1>2, <1>4, <1>6
  <2>2. Len(new) <= TransitionRecords
    BY <1>2, <1>6
  <2>3. \A k \in DOMAIN new : new[k] <= t
    BY <1>2, <2>1
  <2>4. \A j, k \in DOMAIN new : j <= k => new[j] <= new[k]
    <3> TAKE j, k \in DOMAIN new
    <3> HAVE j <= k
    <3>1. j \in 1..n /\ k \in 1..n
      BY <1>4, <1>6
    <3>2. CASE k = n
      BY <1>6, <2>3, <3>2
    <3>3. CASE k # n
      <4>1. k + 1 \in 1..n /\ new[k] = ticks[k + 1] /\ j # n
        BY <1>2, <2>1, <3>1, <3>3
      <4>2. j + 1 \in 1..n /\ new[j] = ticks[j + 1] /\ j + 1 <= k + 1
        BY <1>2, <2>1, <3>1, <4>1
      <4> QED
        BY <1>2, <4>1, <4>2
    <3> QED
      BY <3>2, <3>3
  <2> QED
    BY <2>2, <2>3, <2>4 DEF new
<1> QED
  BY <1>3, <1>5, <1>6

\* The ticks of a window since some tick are finitely many.
LEMMA MovedFinite ==
  ASSUME NEW ticks \in Seq(Nat), NEW a \in Int
  PROVE  /\ IsFiniteSet(MovedSince(ticks, a))
         /\ Cardinality(MovedSince(ticks, a)) \in Nat
         /\ MovedSince(ticks, a) \subseteq 1..Len(ticks)
<1>1. Len(ticks) \in Nat /\ DOMAIN ticks = 1..Len(ticks)
  OBVIOUS
<1>2. MovedSince(ticks, a) \in SUBSET (1..Len(ticks))
  BY <1>1 DEF MovedSince
<1>3. IsFiniteSet(1..Len(ticks))
  BY <1>1, FS_Interval
<1>4. IsFiniteSet(MovedSince(ticks, a))
  BY <1>2, <1>3, FS_Subset
<1> QED
  BY <1>2, <1>4, FS_CardinalityType

\* Pushing the latest tick loses no tick that is counted, unless the window is full
\* of counted ticks, and adds the new one.
LEMMA PushedCount ==
  ASSUME NEW ticks \in Seq(Nat), NEW t \in Nat, NEW a \in Int,
         Len(ticks) <= TransitionRecords,
         \A j, k \in DOMAIN ticks : j <= k => ticks[j] <= ticks[k],
         \A k \in DOMAIN ticks : ticks[k] <= t
  PROVE  LET new == PushTransition(ticks, t)
             add == IF t >= a THEN 1 ELSE 0
         IN  FullSince(new, a) \/ ( /\ ~FullSince(ticks, a)
                                    /\ Cardinality(MovedSince(new, a)) >= Cardinality(MovedSince(ticks, a)) + add )
<1> DEFINE new == PushTransition(ticks, t)
           n == Len(ticks)
           S == MovedSince(ticks, a)
           N == MovedSince(new, a)
           add == IF t >= a THEN 1 ELSE 0
<1>1. new \in Seq(Nat) /\ DOMAIN new = 1..Len(new) /\ Len(new) \in Nat
  <2>1. new \in Seq(Nat)
    BY TransitionType
  <2> HIDE DEF new
  <2> QED
    BY <2>1
<1>2. n \in Nat /\ n = Len(ticks) /\ DOMAIN ticks = 1..n /\ TransitionRecords \in Nat /\ TransitionRecords >= 1
      /\ \A k \in 1..n : ticks[k] \in Nat
  BY LimitAssumption
<1>3. \/ /\ n < TransitionRecords
         /\ Len(new) = n + 1 /\ new[n + 1] = t
         /\ \A k \in 1..n : new[k] = ticks[k]
      \/ /\ n = TransitionRecords /\ n >= 1
         /\ Len(new) = n /\ new[n] = t
         /\ \A k \in 1..(n - 1) : new[k] = ticks[k + 1]
  BY PushedTicks
<1>4. /\ IsFiniteSet(S) /\ Cardinality(S) \in Nat /\ S \subseteq 1..n
      /\ IsFiniteSet(N) /\ Cardinality(N) \in Nat
  BY <1>1, MovedFinite
<1> HIDE DEF new, n
<1>5. CASE /\ n < TransitionRecords
           /\ Len(new) = n + 1 /\ new[n + 1] = t
           /\ \A k \in 1..n : new[k] = ticks[k]
  <2>1. S \subseteq N
    BY <1>1, <1>2, <1>5 DEF MovedSince
  <2>2. n + 1 \notin S
    BY <1>2, <1>4
  <2>3. ~FullSince(ticks, a)
    BY <1>2, <1>5 DEF FullSince
  <2>4. CASE t >= a
    <3>1. S \cup {n + 1} \in SUBSET N
      BY <1>1, <1>2, <1>5, <2>1, <2>4 DEF MovedSince
    <3>2. Cardinality(S \cup {n + 1}) = Cardinality(S) + 1
      BY <1>4, <2>2, FS_AddElement
    <3>3. Cardinality(S \cup {n + 1}) <= Cardinality(N)
      BY <1>4, <3>1, FS_Subset
    <3> QED
      BY <1>4, <2>3, <2>4, <3>2, <3>3 DEF new
  <2>5. CASE ~(t >= a)
    <3>1. Cardinality(S) <= Cardinality(N)
      BY <1>4, <2>1, FS_Subset
    <3> QED
      BY <1>4, <2>3, <2>5, <3>1 DEF new
  <2> QED
    BY <2>4, <2>5
<1>6. CASE /\ n = TransitionRecords /\ n >= 1
           /\ Len(new) = n /\ new[n] = t
           /\ \A k \in 1..(n - 1) : new[k] = ticks[k + 1]
  <2>1. \A k \in 1..n : (k < n /\ k + 1 \in 1..n /\ new[k] = ticks[k + 1]) \/ (k = n /\ new[k] = t)
    BY <1>2, <1>6
  <2>2. CASE FullSince(ticks, a)
    <3>1. \A k \in 1..n : ticks[k] >= a
      BY <1>2, <2>2 DEF FullSince
    <3>2. ticks[1] >= a /\ ticks[1] <= t /\ ticks[1] \in Nat
      <4>1. 1 \in DOMAIN ticks /\ 1 \in 1..n
        BY <1>2, <1>6
      <4> QED
        BY <1>2, <3>1, <4>1
    <3>3. t >= a
      BY <3>2
    <3>4. FullSince(new, a)
      BY <1>1, <1>6, <2>1, <3>1, <3>3 DEF FullSince
    <3> QED
      BY <3>4 DEF new
  <2>3. CASE ~FullSince(ticks, a)
    <3>1. PICK k \in 1..n : ~(ticks[k] >= a)
      BY <1>2, <1>6, <2>3 DEF FullSince
    <3>2. ticks[1] <= ticks[k] /\ ticks[1] \in Nat /\ ticks[k] \in Nat
      <4>1. 1 \in DOMAIN ticks /\ k \in DOMAIN ticks /\ 1 <= k /\ 1 \in 1..n
        BY <1>2, <1>6
      <4> QED
        BY <1>2, <4>1
    <3>3. 1 \notin S
      BY <3>1, <3>2 DEF MovedSince
    <3> DEFINE f == [j \in S |-> j - 1]
               M == N \ {n}
    <3>4. \A j \in S : j \in 1..n /\ j # 1 /\ ticks[j] >= a
      BY <1>4, <3>3 DEF MovedSince
    <3>5. \A j \in S : j - 1 \in M
      <4> TAKE j \in S
      <4>1. j - 1 \in 1..(n - 1) /\ (j - 1) + 1 = j
        BY <1>2, <3>4
      <4>2. new[j - 1] = ticks[j]
        BY <1>6, <4>1
      <4>3. j - 1 \in 1..n /\ j - 1 # n
        BY <1>2, <4>1
      <4> QED
        BY <1>1, <1>6, <3>4, <4>2, <4>3 DEF MovedSince
    <3>6. f \in Injection(S, M)
      <4>1. f \in [S -> M]
        BY <3>5
      <4>2. \A j, k2 \in S : f[j] = f[k2] => j = k2
        BY <3>4
      <4> QED
        BY <4>1, <4>2 DEF Injection, IsInjective
    <3>7. IsFiniteSet(M) /\ Cardinality(M) \in Nat
          /\ Cardinality(M) = IF n \in N THEN Cardinality(N) - 1 ELSE Cardinality(N)
      BY <1>4, FS_RemoveElement, FS_CardinalityType
    <3>8. Cardinality(S) <= Cardinality(M)
      BY <3>6, <3>7, FS_Injection
    <3>9. t >= a => n \in N
      BY <1>1, <1>2, <1>6 DEF MovedSince
    <3> HIDE DEF M, f, N, S
    <3>10. Cardinality(N) >= Cardinality(S) + add
      BY <1>4, <3>7, <3>8, <3>9
    <3> QED
      BY <2>3, <3>10 DEF N, S, new
  <2> QED
    BY <2>2, <2>3
<1> QED
  BY <1>3, <1>5, <1>6

-----------------------------------------------------------------------------
(* Each part of the invariant is kept by each kind of step.                *)

\* There are six kinds of rungs, and they strictly increase: no ladder is longer.
LEMMA LadderLength ==
  ASSUME TypeOK
  PROVE  Cardinality(StageKinds) = 6 /\ Len(Ladder[policyGen]) <= 6
<1> DEFINE l == Ladder[policyGen]
           r == [k \in 1..Len(l) |-> KindRank[l[k]]]
<1>1. /\ l \in Seq(StageKinds)
      /\ \A i, j \in 1..Len(l) : i < j => KindRank[l[i]] < KindRank[l[j]]
  BY LadderAssumption DEF TypeOK, ValidLadder
<1>2. \A k \in StageKinds : KindRank[k] \in 1..6
  BY DEF StageKinds, KindRank
<1>3. Len(l) \in Nat /\ \A k \in 1..Len(l) : l[k] \in StageKinds
  BY <1>1
<1>4. /\ \A k \in 1..Len(l) : r[k] \in 1..6
      /\ \A i, j \in 1..Len(l) : i < j => r[i] < r[j]
  BY <1>1, <1>2, <1>3
<1> HIDE DEF l, r
<1>5. ~(Len(l) >= 7)
  <2> SUFFICES ASSUME Len(l) >= 7 PROVE FALSE
    OBVIOUS
  <2>1. /\ 1 \in 1..Len(l) /\ 2 \in 1..Len(l) /\ 3 \in 1..Len(l) /\ 4 \in 1..Len(l)
        /\ 5 \in 1..Len(l) /\ 6 \in 1..Len(l) /\ 7 \in 1..Len(l)
    BY <1>3
  <2>2. r[1] < r[2] /\ r[2] < r[3] /\ r[3] < r[4] /\ r[4] < r[5] /\ r[5] < r[6] /\ r[6] < r[7]
    BY <1>4, <2>1
  <2>3. /\ r[1] \in 1..6 /\ r[2] \in 1..6 /\ r[3] \in 1..6 /\ r[4] \in 1..6
        /\ r[5] \in 1..6 /\ r[6] \in 1..6 /\ r[7] \in 1..6
    BY <1>4, <2>1
  <2> QED
    BY <2>2, <2>3
<1>6. Len(l) <= 6
  BY <1>3, <1>5
<1>7. Cardinality(StageKinds) = 6
  <2> DEFINE f == [k \in StageKinds |-> KindRank[k]]
  <2>1. f \in Bijection(StageKinds, 1..6)
    <3>1. f \in [StageKinds -> 1..6]
      BY <1>2
    <3>2. \A a, b \in StageKinds : f[a] = f[b] => a = b
      BY DEF StageKinds, KindRank
    <3>3. \A t \in 1..6 : \E k \in StageKinds : f[k] = t
      <4> TAKE t \in 1..6
      <4>1. t = 1 \/ t = 2 \/ t = 3 \/ t = 4 \/ t = 5 \/ t = 6
        OBVIOUS
      <4> QED
        BY <4>1 DEF StageKinds, KindRank
    <3> QED
      BY <3>1, <3>2, <3>3 DEF Bijection, Injection, Surjection, IsInjective
  <2>2. IsFiniteSet(1..6) /\ Cardinality(1..6) = 6
    <3>1. 1 \in Int /\ 6 \in Int
      OBVIOUS
    <3>2. IsFiniteSet(1..6) /\ Cardinality(1..6) = IF 1 > 6 THEN 0 ELSE 6 - 1 + 1
      BY <3>1, FS_Interval
    <3> QED
      BY <3>2
  <2>3. f \in Injection(StageKinds, 1..6) /\ f \in Surjection(StageKinds, 1..6)
    BY <2>1 DEF Bijection
  <2> HIDE DEF f
  <2> QED
    BY <2>2, <2>3, FS_Injection
<1> QED
  BY <1>6, <1>7 DEF l

\* Rungs left are never skipped.
LEMMA ClimbKept ==
  ASSUME NEW p \in Plans, NEW q, ClimbOf(p),
         Still(p, q) \/ Fresh(q) \/ \E t \in Nat : Advanced(p, q, t)
  PROVE  ClimbOf(q)
<1>1. \A x, n : Succeeded(x, n) <=> \E k \in Successes(x) : x.history[k].index = n
  BY DEF Succeeded, Successes
<1>2. p.index \in Nat
  BY DEF Plans
<1>3. CASE Still(p, q)
  <2>1. \A n : Succeeded(q, n) <=> Succeeded(p, n)
    BY <1>1, <1>3 DEF Still, Kept
  <2>2. q.index = p.index /\ (q.state = "COMPLETED" => p.state = "COMPLETED")
    BY <1>3, LiveNotTerminal DEF Still, TerminalStates
  <2> QED
    BY <2>1, <2>2 DEF ClimbOf
<1>4. CASE Fresh(q)
  BY <1>4 DEF Fresh, ClimbOf, TerminalStates
<1>5. ASSUME NEW t \in Nat, Advanced(p, q, t) PROVE ClimbOf(q)
  <2>1. PICK n \in Nat :
          /\ Successes(q) = Successes(p) \cup {n}
          /\ \A k \in Successes(p) : q.history[k] = p.history[k]
          /\ q.history[n].index = p.index
    BY <1>5 DEF Advanced, Left
  <2>2. Succeeded(q, p.index) /\ \A m : Succeeded(p, m) => Succeeded(q, m)
    BY <1>1, <2>1
  <2>3. q.index \in {p.index, p.index + 1} /\ (q.state = "COMPLETED" => q.index = p.index)
    BY <1>5 DEF Advanced
  <2>4. \A m \in 0..(q.index - 1) : m = p.index \/ m \in 0..(p.index - 1)
    BY <1>2, <2>3
  <2> QED
    BY <2>2, <2>3, <2>4 DEF ClimbOf
<1> QED
  BY <1>3, <1>4, <1>5

\* The successes of a lineage are finitely many records.
LEMMA SuccessFacts ==
  ASSUME NEW p \in Plans
  PROVE  /\ \A k \in Successes(p) :
              k \in Nat /\ p.history[k].index \in Nat /\ p.history[k].exited \in Nat
         /\ IsFiniteSet(Successes(p))
<1>1. p.history \in Seq(StageRecords)
  BY DEF Plans
<1>2. /\ Len(p.history) \in Nat /\ DOMAIN p.history = 1..Len(p.history)
      /\ \A k \in 1..Len(p.history) : k \in Nat /\ p.history[k] \in StageRecords
  BY <1>1
<1>3. \A k \in Successes(p) : k \in Nat /\ p.history[k] \in StageRecords
  BY <1>2 DEF Successes
<1>4. Successes(p) \in SUBSET (1..Len(p.history))
  BY <1>2 DEF Successes
<1>5. IsFiniteSet(1..Len(p.history))
  BY <1>2, FS_Interval
<1>6. IsFiniteSet(Successes(p))
  BY <1>4, <1>5, FS_Subset
<1> QED
  BY <1>3, <1>6 DEF StageRecords

\* A fresh slot records no success.
LEMMA FreshSuccesses ==
  ASSUME NEW q \in Plans, Fresh(q)
  PROVE  Successes(q) = {}
<1>1. DOMAIN q.history = 1..Len(q.history)
  BY DEF Plans
<1>2. \A k \in DOMAIN q.history : q.history[k].outcome = "PENDING"
  BY <1>1 DEF Fresh
<1> QED
  BY <1>2 DEF Successes

\* A step that leaves no rung brings no plan back from a terminal state.
LEMMA StillStates ==
  ASSUME NEW p, NEW q, Still(p, q)
  PROVE  /\ q.state # "FAILED" => p.state # "FAILED"
         /\ q.state \notin TerminalStates => p.state \notin TerminalStates
BY LiveNotTerminal DEF Still, TerminalStates

\* Rungs are left in order, each once.
LEMMA RungsKept ==
  ASSUME TypeOK, NEW p \in Plans, NEW q \in Plans, RungsOf(p),
         Still(p, q) \/ Fresh(q) \/ \E t \in Nat : Advanced(p, q, t)
  PROVE  RungsOf(q)
<1>1. CASE Still(p, q)
  <2>1. Successes(q) = Successes(p) /\ \A k \in Successes(p) : q.history[k] = p.history[k]
    BY <1>1 DEF Still, Kept
  <2>2. q.index = p.index
    BY <1>1 DEF Still
  <2> QED
    BY <1>1, <2>1, <2>2, StillStates DEF RungsOf
<1>2. CASE Fresh(q)
  BY <1>2, FreshSuccesses DEF RungsOf
<1>3. ASSUME NEW t \in Nat, Advanced(p, q, t) PROVE RungsOf(q)
  <2>1. PICK n \in Nat :
          /\ \A k \in Successes(p) : k < n
          /\ Successes(q) = Successes(p) \cup {n}
          /\ \A k \in Successes(p) : q.history[k] = p.history[k]
          /\ q.history[n].index = p.index
    BY <1>3 DEF Advanced, Left
  <2>2. /\ p.index \in Nat /\ p.index < 6
        /\ \A k \in Successes(p) : k \in Nat /\ p.history[k].index \in Nat
    <3>1. HasStage(p)
      BY <1>3 DEF Advanced
    <3>2. Ladder[policyGen] \in Seq(StageKinds)
      BY LadderAssumption DEF TypeOK, ValidLadder
    <3>3. p.index \in Nat /\ Len(Ladder[policyGen]) \in Nat
      <4>1. p.index \in Nat
        BY DEF Plans
      <4>2. Len(Ladder[policyGen]) \in Nat
        BY <3>2
      <4> QED
        BY <4>1, <4>2
    <3>4. p.index < 6
      BY <3>1, <3>3, LadderLength DEF HasStage
    <3> QED
      BY <3>3, <3>4, SuccessFacts
  <2>3. \A k \in Successes(p) : p.history[k].index < p.index
    <3>1. p.state \notin TerminalStates
      BY <1>3, LiveNotTerminal DEF Advanced
    <3> QED
      BY <3>1 DEF RungsOf
  <2>4. q.state \notin TerminalStates => q.index = p.index + 1
    BY <1>3 DEF Advanced
  <2>5. \A j, k \in Successes(q) : j < k => q.history[j].index < q.history[k].index
    BY <2>1, <2>2, <2>3 DEF RungsOf
  <2>6. \A k \in Successes(q) :
          q.history[k].index < 6 /\ (q.state \notin TerminalStates => q.history[k].index < q.index)
    BY <2>1, <2>2, <2>3, <2>4 DEF RungsOf
  <2> QED
    BY <2>5, <2>6 DEF RungsOf
<1> QED
  BY <1>1, <1>2, <1>3

\* A plan's last transition is never ahead of the clock and never earlier than the
\* rungs it left.
LEMMA LateKept ==
  ASSUME TypeOK, NEW p \in Plans, NEW q \in Plans, LateOf(p), p.updated <= now,
         Still(p, q) \/ Fresh(q) \/ \E t \in Nat : Advanced(p, q, t)
  PROVE  LateOf(q)
<1>1. /\ now \in Nat /\ p.updated \in Nat
      /\ \A k \in Successes(p) : p.history[k].exited \in Nat
  BY SuccessFacts DEF TypeOK, Plans
<1>2. CASE Still(p, q)
  <2>1. /\ Successes(q) = Successes(p)
        /\ \A k \in Successes(p) : q.history[k] = p.history[k]
        /\ q.updated \in {p.updated, now}
    BY <1>2 DEF Still, Kept
  <2>2. q.state # "FAILED" => \A k \in Successes(p) : p.history[k].exited <= p.updated
    BY <1>2, StillStates DEF LateOf
  <2> QED
    BY <1>1, <2>1, <2>2 DEF LateOf
<1>3. CASE Fresh(q)
  BY <1>3, FreshSuccesses DEF LateOf
<1>4. ASSUME NEW t \in Nat, Advanced(p, q, t) PROVE LateOf(q)
  <2>1. PICK n \in Nat :
          /\ Successes(q) = Successes(p) \cup {n}
          /\ \A k \in Successes(p) : q.history[k] = p.history[k]
          /\ q.history[n].exited = t
    BY <1>4 DEF Advanced, Left
  <2>2. p.state # "FAILED" /\ p.updated <= t /\ (q.state # "FAILED" => q.updated = t)
    BY <1>4, LiveNotTerminal DEF Advanced, TerminalStates
  <2>3. \A k \in Successes(p) : p.history[k].exited <= t
    BY <1>1, <2>2 DEF LateOf
  <2> QED
    BY <2>1, <2>2, <2>3 DEF LateOf
<1> QED
  BY <1>2, <1>3, <1>4

\* With a dwell time the ticks at which rungs are left strictly increase.
LEMMA ExitsKept ==
  ASSUME TypeOK, Dwell > 0, NEW p \in Plans, NEW q \in Plans, LateOf(p), ExitsOf(p),
         Still(p, q) \/ Fresh(q) \/ \E t \in Nat : Advanced(p, q, t)
  PROVE  ExitsOf(q)
<1>1. /\ p.updated \in Nat
      /\ \A k \in Successes(p) : k \in Nat /\ p.history[k].exited \in Nat
  BY SuccessFacts DEF Plans
<1>2. CASE Still(p, q)
  <2>1. /\ Successes(q) = Successes(p)
        /\ \A k \in Successes(p) : q.history[k] = p.history[k]
    BY <1>2 DEF Still, Kept
  <2> QED
    BY <2>1 DEF ExitsOf
<1>3. CASE Fresh(q)
  BY <1>3, FreshSuccesses DEF ExitsOf
<1>4. ASSUME NEW t \in Nat, Advanced(p, q, t) PROVE ExitsOf(q)
  <2>1. PICK n \in Nat :
          /\ \A k \in Successes(p) : k < n
          /\ Successes(q) = Successes(p) \cup {n}
          /\ \A k \in Successes(p) : q.history[k] = p.history[k]
          /\ q.history[n].exited = t
    BY <1>4 DEF Advanced, Left
  <2>2. p.state # "FAILED" /\ t - p.updated >= Dwell
    BY <1>4, LiveNotTerminal DEF Advanced, TerminalStates
  <2>3. \A k \in Successes(p) : p.history[k].exited < t
    BY <1>1, <2>2, PolicyAssumption DEF LateOf
  <2> QED
    BY <1>1, <2>1, <2>3 DEF ExitsOf
<1> QED
  BY <1>2, <1>3, <1>4

\* A pushed tick is the plan's last transition.
LEMMA TicksPushed ==
  ASSUME NEW p \in Plans, NEW q, TicksOf(p), NEW t \in Nat, p.updated <= t,
         q.updated = t, q.transitions = PushTransition(p.transitions, t)
  PROVE  TicksOf(q)
<1> DEFINE ticks == p.transitions
<1>1. ticks \in Seq(Nat) /\ p.updated \in Nat
  BY DEF Plans
<1>2. /\ Len(ticks) <= TransitionRecords
      /\ \A j, k \in DOMAIN ticks : j <= k => ticks[j] <= ticks[k]
      /\ \A k \in DOMAIN ticks : ticks[k] <= p.updated
  BY DEF TicksOf
<1>3. \A k \in DOMAIN ticks : ticks[k] <= t
  <2>1. \A k \in DOMAIN ticks : ticks[k] \in Nat
    BY <1>1
  <2> QED
    BY <1>1, <1>2, <2>1
<1> HIDE DEF ticks
<1>4. LET new == PushTransition(ticks, t) IN
      /\ Len(new) <= TransitionRecords
      /\ \A j, k \in DOMAIN new : j <= k => new[j] <= new[k]
      /\ \A k \in DOMAIN new : new[k] <= t
  BY <1>1, <1>2, <1>3, PushedOrder
<1>5. q.transitions = PushTransition(ticks, t)
  BY DEF ticks
<1> QED
  BY <1>4, <1>5 DEF TicksOf

\* The transition window stays in order.
LEMMA TicksKept ==
  ASSUME TypeOK, NEW p \in Plans, NEW q, TicksOf(p), p.updated <= now,
         Still(p, q) \/ Fresh(q) \/ \E t \in Nat : Advanced(p, q, t)
  PROVE  TicksOf(q)
<1>1. /\ now \in Nat /\ p.updated \in Nat /\ p.transitions \in Seq(Nat)
      /\ TransitionRecords \in Nat
  BY LimitAssumption DEF TypeOK, Plans
<1>2. \A k \in DOMAIN p.transitions : p.transitions[k] \in Nat
  BY <1>1
<1>3. ASSUME q.transitions = p.transitions, q.updated \in {p.updated, now} PROVE TicksOf(q)
  BY <1>1, <1>2, <1>3 DEF TicksOf
<1>4. CASE Still(p, q)
  <2>1. CASE q.transitions = p.transitions
    BY <1>3, <1>4, <2>1 DEF Still
  <2>2. CASE q.transitions # p.transitions
    <3>1. q.transitions = PushTransition(p.transitions, now) /\ q.updated = now
      BY <1>4, <2>2 DEF Still
    <3> QED
      BY <1>1, <3>1, TicksPushed
  <2> QED
    BY <2>1, <2>2
<1>5. CASE Fresh(q)
  BY <1>1, <1>5 DEF Fresh, TicksOf
<1>6. ASSUME NEW t \in Nat, Advanced(p, q, t) PROVE TicksOf(q)
  <2>1. CASE q.updated = p.updated /\ q.transitions = p.transitions
    BY <1>3, <2>1
  <2>2. CASE q.updated = t /\ q.transitions = PushTransition(p.transitions, t)
    BY <1>6, <2>2, TicksPushed DEF Advanced
  <2> QED
    BY <1>6, <2>1, <2>2 DEF Advanced
<1> QED
  BY <1>4, <1>5, <1>6

\* The rungs left since some tick are finitely many.
LEMMA LeftFinite ==
  ASSUME NEW p \in Plans, NEW a \in Int
  PROVE  /\ IsFiniteSet(LeftSince(p, a)) /\ Cardinality(LeftSince(p, a)) \in Nat
         /\ LeftSince(p, a) \subseteq Successes(p)
<1>1. LeftSince(p, a) \in SUBSET Successes(p)
  BY DEF LeftSince
<1>2. IsFiniteSet(LeftSince(p, a))
  BY <1>1, SuccessFacts, FS_Subset
<1> QED
  BY <1>1, <1>2, FS_CardinalityType

\* A pushed tick keeps the count of the window ahead of the count of the rungs left.
LEMMA WindowPushed ==
  ASSUME NEW p \in Plans, NEW q \in Plans, TicksOf(p), NEW t \in Nat, p.updated <= t,
         NEW a \in Int, WindowSince(p, a),
         q.transitions = PushTransition(p.transitions, t),
         Cardinality(LeftSince(q, a)) <= Cardinality(LeftSince(p, a)) + (IF t >= a THEN 1 ELSE 0)
  PROVE  WindowSince(q, a)
<1> DEFINE ticks == p.transitions
           new == PushTransition(ticks, t)
           add == IF t >= a THEN 1 ELSE 0
<1>1. ticks \in Seq(Nat) /\ p.updated \in Nat
  BY DEF Plans
<1>2. /\ Len(ticks) <= TransitionRecords
      /\ \A j, k \in DOMAIN ticks : j <= k => ticks[j] <= ticks[k]
      /\ \A k \in DOMAIN ticks : ticks[k] <= p.updated
  BY DEF TicksOf
<1>3. \A k \in DOMAIN ticks : ticks[k] <= t
  <2>1. \A k \in DOMAIN ticks : ticks[k] \in Nat
    BY <1>1
  <2> QED
    BY <1>1, <1>2, <2>1
<1>4. q.transitions = new /\ new \in Seq(Nat)
  BY <1>1, TransitionType
<1>5. /\ Cardinality(LeftSince(q, a)) \in Nat /\ Cardinality(LeftSince(p, a)) \in Nat
  BY LeftFinite
<1>6. Cardinality(MovedSince(ticks, a)) \in Nat
  BY <1>1, MovedFinite
<1>7. Cardinality(MovedSince(new, a)) \in Nat
  BY <1>4, MovedFinite
<1> HIDE DEF ticks
<1>8. FullSince(new, a)
        \/ ( /\ ~FullSince(ticks, a)
             /\ Cardinality(MovedSince(new, a)) >= Cardinality(MovedSince(ticks, a)) + add )
  BY <1>1, <1>2, <1>3, PushedCount
<1>9. FullSince(ticks, a) \/ Cardinality(LeftSince(p, a)) <= Cardinality(MovedSince(ticks, a))
  BY DEF WindowSince, ticks
<1>10. Cardinality(LeftSince(q, a)) <= Cardinality(LeftSince(p, a)) + add
  OBVIOUS
<1>11. add \in Nat
  OBVIOUS
<1> HIDE DEF new, add
<1>12. FullSince(new, a) \/ Cardinality(LeftSince(q, a)) <= Cardinality(MovedSince(new, a))
  BY <1>5, <1>6, <1>7, <1>8, <1>9, <1>10, <1>11
<1> QED
  BY <1>4, <1>12 DEF WindowSince

\* Rungs left since a tick, after a step.
LEMMA LeftKept ==
  ASSUME NEW p \in Plans, NEW q, Kept(p, q), NEW a
  PROVE  LeftSince(q, a) = LeftSince(p, a)
BY DEF Kept, LeftSince

\* The rung left at tick t is the only one an advance adds.
LEMMA LeftAdded ==
  ASSUME NEW p \in Plans, NEW q, NEW t \in Nat, NEW a \in Int, NEW n \in Nat,
         Successes(q) = Successes(p) \cup {n},
         \A k \in Successes(p) : q.history[k] = p.history[k],
         q.history[n].exited = t
  PROVE  Cardinality(LeftSince(q, a))
           <= Cardinality(LeftSince(p, a)) + (IF t >= a THEN 1 ELSE 0)
<1>1. IsFiniteSet(LeftSince(p, a)) /\ Cardinality(LeftSince(p, a)) \in Nat
  BY LeftFinite
<1>2. CASE t >= a
  <2>1. LeftSince(q, a) = LeftSince(p, a) \cup {n}
    BY <1>2 DEF LeftSince
  <2>2. Cardinality(LeftSince(p, a) \cup {n}) =
          IF n \in LeftSince(p, a) THEN Cardinality(LeftSince(p, a))
          ELSE Cardinality(LeftSince(p, a)) + 1
    BY <1>1, FS_AddElement
  <2> QED
    BY <1>1, <1>2, <2>1, <2>2
<1>3. CASE ~(t >= a)
  <2>1. LeftSince(q, a) \in SUBSET LeftSince(p, a)
    BY <1>3 DEF LeftSince
  <2>2. Cardinality(LeftSince(q, a)) <= Cardinality(LeftSince(p, a))
    BY <1>1, <2>1, FS_Subset
  <2> QED
    BY <1>1, <1>3, <2>2
<1> QED
  BY <1>2, <1>3

\* The rungs left since any tick stay in the transition window.
LEMMA WindowKept ==
  ASSUME TypeOK, NEW p \in Plans, NEW q \in Plans, WindowOf(p), TicksOf(p), p.updated <= now,
         Still(p, q) \/ Fresh(q) \/ \E t \in Nat : Advanced(p, q, t)
  PROVE  WindowOf(q)
<1> SUFFICES ASSUME q.state # "FAILED", NEW a \in Int PROVE WindowSince(q, a)
  BY DEF WindowOf
<1>1. now \in Nat /\ Cardinality(LeftSince(p, a)) \in Nat
  BY LeftFinite DEF TypeOK
<1>2. CASE Still(p, q)
  <2>1. p.state # "FAILED"
    BY <1>2, StillStates
  <2>2. WindowSince(p, a)
    BY <2>1 DEF WindowOf
  <2>3. LeftSince(q, a) = LeftSince(p, a)
    BY <1>2, LeftKept DEF Still
  <2>4. CASE q.transitions = p.transitions
    BY <2>2, <2>3, <2>4 DEF WindowSince
  <2>5. CASE q.transitions = PushTransition(p.transitions, now)
    <3>1. Cardinality(LeftSince(q, a))
            <= Cardinality(LeftSince(p, a)) + (IF now >= a THEN 1 ELSE 0)
      BY <1>1, <2>3
    <3> QED
      BY <1>1, <2>2, <2>5, <3>1, WindowPushed
  <2> QED
    BY <1>2, <2>4, <2>5 DEF Still
<1>3. CASE Fresh(q)
  <2>1. LeftSince(q, a) = {}
    BY <1>3, FreshSuccesses DEF LeftSince
  <2>2. Cardinality(MovedSince(q.transitions, a)) \in Nat
    BY MovedFinite DEF Plans
  <2> QED
    BY <2>1, <2>2, FS_EmptySet DEF WindowSince
<1>4. ASSUME NEW t \in Nat, Advanced(p, q, t) PROVE WindowSince(q, a)
  <2>1. /\ q.transitions = PushTransition(p.transitions, t) /\ p.updated <= t
        /\ p.state # "FAILED"
    BY <1>4, LiveNotTerminal DEF Advanced, TerminalStates
  <2>2. PICK n \in Nat :
          /\ Successes(q) = Successes(p) \cup {n}
          /\ \A k \in Successes(p) : q.history[k] = p.history[k]
          /\ q.history[n].exited = t
    BY <1>4 DEF Advanced, Left
  <2>3. Cardinality(LeftSince(q, a))
          <= Cardinality(LeftSince(p, a)) + (IF t >= a THEN 1 ELSE 0)
    BY <2>2, LeftAdded
  <2>4. WindowSince(p, a)
    BY <2>1 DEF WindowOf
  <2> QED
    BY <2>1, <2>3, <2>4, WindowPushed
<1> QED
  BY <1>2, <1>3, <1>4

\* A plan leaves six rungs at most.
LEMMA SixAtMost ==
  ASSUME NEW p \in Plans, RungsOf(p), NEW a \in Int
  PROVE  Cardinality(LeftSince(p, a)) <= 6
<1> DEFINE S == LeftSince(p, a)
           f == [k \in S |-> p.history[k].index]
<1>1. \A k \in S : k \in Nat /\ p.history[k].index \in 0..5
  BY SuccessFacts DEF LeftSince, RungsOf
<1>2. \A j, k \in S : j < k => p.history[j].index < p.history[k].index
  BY DEF LeftSince, RungsOf
<1>3. f \in Injection(S, 0..5)
  <2>1. f \in [S -> 0..5]
    BY <1>1
  <2>2. \A j, k \in S : f[j] = f[k] => j = k
    <3> TAKE j, k \in S
    <3>1. j < k \/ k < j \/ j = k
      BY <1>1
    <3>2. f[j] = p.history[j].index /\ f[k] = p.history[k].index
      OBVIOUS
    <3> QED
      BY <1>1, <1>2, <3>1, <3>2
  <2> QED
    BY <2>1, <2>2 DEF Injection, IsInjective
<1>4. IsFiniteSet(0..5) /\ Cardinality(0..5) = 6
  <2>1. 0 \in Int /\ 5 \in Int
    OBVIOUS
  <2>2. IsFiniteSet(0..5) /\ Cardinality(0..5) = IF 0 > 5 THEN 0 ELSE 5 - 0 + 1
    BY <2>1, FS_Interval
  <2> QED
    BY <2>2
<1> HIDE DEF f
<1>5. Cardinality(S) <= Cardinality(0..5)
  BY <1>3, <1>4, FS_Injection
<1> QED
  BY <1>4, <1>5

\* A snapshot the rate limit lets through leaves room for one more rung: the rungs
\* left within the window are all in the transition window, or the window is full
\* and larger than any ladder.
LEMMA RoomForOne ==
  ASSUME TypeOK, NEW p \in Plans, RungsOf(p), TicksOf(p), WindowOf(p), p.state # "FAILED",
         NEW t \in Nat, p.updated <= t, CountRecent(p.transitions, t) < MaxTransitions
  PROVE  Cardinality(LeftSince(p, t - Window)) < MaxTransitions
<1> DEFINE ticks == p.transitions
           a == t - Window
           n == Len(ticks)
<1>1. /\ a \in Int /\ MaxTransitions \in Nat /\ TransitionRecords \in Nat /\ Window \in Nat
  BY PolicyAssumption, LimitAssumption
<1>2. ticks \in Seq(Nat) /\ p.updated \in Nat
  <2>1. p.transitions \in Seq(Nat) /\ p.updated \in Nat
    BY Zenon DEF Plans
  <2> QED
    BY <2>1
<1>3. n \in Nat /\ DOMAIN ticks = 1..n /\ \A k \in 1..n : ticks[k] \in Nat
  <2> HIDE DEF ticks
  <2>1. Len(ticks) \in Nat /\ DOMAIN ticks = 1..Len(ticks)
    BY <1>2
  <2>2. \A k \in 1..Len(ticks) : ticks[k] \in Nat
    BY <1>2, <2>1
  <2> QED
    BY <2>1, <2>2
<1>4. \A k \in 1..n : ticks[k] <= t
  <2>1. \A k \in 1..n : ticks[k] <= p.updated
    BY <1>3, Zenon DEF TicksOf
  <2> HIDE DEF ticks, n
  <2> QED
    BY <1>2, <1>3, <2>1
<1>5. CountRecent(ticks, t) = Cardinality(MovedSince(ticks, a))
  <2>1. {k \in DOMAIN ticks : ticks[k] <= t /\ t - ticks[k] <= Window} = MovedSince(ticks, a)
    <3>1. \A k \in 1..n : (ticks[k] <= t /\ t - ticks[k] <= Window) <=> ticks[k] >= a
      BY <1>1, <1>3, <1>4
    <3> HIDE DEF a, n, ticks
    <3> QED
      BY <1>3, <3>1 DEF MovedSince
  <2> HIDE DEF ticks, a
  <2> QED
    BY <2>1 DEF CountRecent
<1>6. Cardinality(LeftSince(p, a)) \in Nat /\ Cardinality(MovedSince(ticks, a)) \in Nat
  BY <1>1, <1>2, LeftFinite, MovedFinite
<1>7. WindowSince(p, a)
  BY <1>1 DEF WindowOf
<1> HIDE DEF a, n
<1>8. CASE FullSince(ticks, a)
  <2>1. n = TransitionRecords /\ \A k \in 1..n : ticks[k] >= a
    BY <1>3, <1>8 DEF FullSince, n
  <2>2. MovedSince(ticks, a) = 1..n
    BY <1>3, <2>1 DEF MovedSince
  <2>3. Cardinality(1..n) = n
    <3>1. Cardinality(1..n) = IF 1 > n THEN 0 ELSE n - 1 + 1
      BY <1>3, FS_Interval
    <3> QED
      BY <1>3, <3>1
  <2>4. TransitionRecords < MaxTransitions
    BY <1>5, <2>1, <2>2, <2>3
  <2>5. TransitionRecords >= 6
    BY <1>1, <2>4, LadderLength, WindowAssumption
  <2>6. Cardinality(LeftSince(p, a)) <= 6
    BY <1>1, SixAtMost
  <2> QED
    BY <1>1, <1>6, <2>4, <2>5, <2>6 DEF a
<1>9. CASE ~FullSince(ticks, a)
  <2>1. Cardinality(LeftSince(p, a)) <= Cardinality(MovedSince(ticks, a))
    BY <1>7, <1>9 DEF WindowSince
  <2> QED
    BY <1>1, <1>5, <1>6, <2>1 DEF a
<1> QED
  BY <1>8, <1>9

\* No window that ends with an advance holds more advances than the policy allows.
LEMMA RateKept ==
  ASSUME TypeOK, NEW p \in Plans, NEW q \in Plans, RateOf(p), RungsOf(p), TicksOf(p),
         WindowOf(p),
         Still(p, q) \/ Fresh(q) \/ \E t \in Nat : Advanced(p, q, t)
  PROVE  RateOf(q)
<1> DEFINE Near(x, k) == {j \in Successes(x) :
                            j <= k /\ x.history[k].exited - x.history[j].exited <= Window}
<1>1. ASSUME NEW x PROVE RateOf(x) <=> \A k \in Successes(x) : Cardinality(Near(x, k)) <= MaxTransitions
  BY DEF RateOf
<1>2. CASE Still(p, q)
  <2>1. /\ Successes(q) = Successes(p)
        /\ \A k \in Successes(p) : q.history[k] = p.history[k]
    BY <1>2 DEF Still, Kept
  <2>2. \A k \in Successes(p) : Near(q, k) = Near(p, k)
    BY <2>1
  <2> HIDE DEF Near
  <2> QED
    BY <1>1, <2>1, <2>2
<1>3. CASE Fresh(q)
  <2>1. Successes(q) = {}
    BY <1>3, FreshSuccesses
  <2> HIDE DEF Near
  <2> QED
    BY <1>1, <2>1
<1>4. ASSUME NEW t \in Nat, Advanced(p, q, t) PROVE RateOf(q)
  <2> DEFINE a == t - Window
  <2>1. PICK n \in Nat :
          /\ \A k \in Successes(p) : k < n
          /\ Successes(q) = Successes(p) \cup {n}
          /\ \A k \in Successes(p) : q.history[k] = p.history[k]
          /\ q.history[n].exited = t
    BY <1>4 DEF Advanced, Left
  <2>2. /\ p.state # "FAILED" /\ p.updated <= t
        /\ CountRecent(p.transitions, t) < MaxTransitions
    BY <1>4, LiveNotTerminal DEF Advanced, TerminalStates
  <2>3. Cardinality(LeftSince(p, a)) < MaxTransitions
    BY <2>2, RoomForOne
  <2>4. /\ a \in Int /\ Window \in Nat /\ MaxTransitions \in Nat
        /\ \A k \in Successes(p) : k \in Nat /\ p.history[k].exited \in Nat
    BY PolicyAssumption, SuccessFacts
  <2>5. IsFiniteSet(LeftSince(p, a)) /\ Cardinality(LeftSince(p, a)) \in Nat
    BY <2>4, LeftFinite
  <2>6. \A k \in Successes(p) : Near(q, k) = Near(p, k)
    <3> TAKE k \in Successes(p)
    <3>1. ~(n <= k) /\ k # n
      BY <2>1, <2>4
    <3> QED
      BY <2>1, <3>1
  <2>7. Near(q, n) = LeftSince(p, a) \cup {n}
    <3>1. n - n <= Window /\ t - t <= Window /\ n <= n
      BY <2>4
    <3>2. \A j \in Successes(p) : (j <= n /\ t - p.history[j].exited <= Window)
                                    <=> p.history[j].exited >= a
      BY <2>1, <2>4
    <3> HIDE DEF a
    <3>3. \A j : j \in Near(q, n) <=> j \in LeftSince(p, a) \cup {n}
      BY <2>1, <3>1, <3>2 DEF LeftSince
    <3> HIDE DEF Near
    <3> QED
      BY <3>3
  <2>8. Cardinality(LeftSince(p, a) \cup {n}) =
          IF n \in LeftSince(p, a) THEN Cardinality(LeftSince(p, a))
          ELSE Cardinality(LeftSince(p, a)) + 1
    BY <2>5, FS_AddElement
  <2> HIDE DEF a, Near
  <2>9. Cardinality(Near(q, n)) <= MaxTransitions
    BY <2>3, <2>4, <2>5, <2>7, <2>8
  <2>10. \A k \in Successes(p) : Cardinality(Near(p, k)) <= MaxTransitions
    BY <1>1
  <2> QED
    BY <1>1, <2>1, <2>6, <2>9, <2>10
<1> QED
  BY <1>2, <1>3, <1>4

\* Records stay those of the plan's current attempt.
LEMMA OpenKept ==
  ASSUME TypeOK, NEW p \in Plans, OpenRecordOf(p), NEW q, Step(p, q)
  PROVE  OpenRecordOf(q)
<1>1. ASSUME NEW x, x.history = p.history, x.index = p.index, x.stageGen = p.stageGen,
             x.attempt = p.attempt
      PROVE  OpenRecordOf(x)
  BY <1>1 DEF OpenRecordOf, HasPending, LastRecord
<1>2. CASE Quiet(p, q)
  BY <1>1, <1>2 DEF Quiet
<1>3. CASE q = NoPlan
  BY <1>3 DEF NoPlan, OpenRecordOf, HasPending
<1>4. CASE q = NewPlan
  <2> DEFINE rec == [index |-> 0, generation |-> 1, attempt |-> 1,
                     outcome |-> "PENDING", exited |-> 0]
  <2>1. q.history = <<rec>> /\ q.index = 0 /\ q.stageGen = 1 /\ q.attempt = 1
    BY <1>4 DEF NewPlan, NoPlan
  <2>2. Len(q.history) = 1 /\ DOMAIN q.history = {1} /\ q.history[1] = rec
    BY <2>1
  <2> QED
    BY <2>1, <2>2 DEF OpenRecordOf, LastRecord
<1>5. CASE q = RolledBack(p)
  BY <1>5, RolledBackEffect
<1>6. CASE Revalidatable(p) /\ q = Revalidated(p)
  BY <1>6, RevalidatedEffect DEF Revalidatable
<1>7. CASE q \in {Failed(Rebound(p)), Failed([Rebound(p) EXCEPT !.generation = @ + 1])}
  BY <1>1, <1>7, FailedReboundEffect
<1>8. ASSUME NEW s \in Snapshots, Marked(p, q, s) PROVE OpenRecordOf(q)
  <2>1. CASE q = PartiallyApplied(p, s)
    BY <1>1, <2>1, PartialEffect
  <2>2. CASE q = Failed([p EXCEPT !.history = Closed(Opened(p), "SUCCEEDED", s.tick)])
    BY <2>2, FailedClosedEffect
  <2>3. CASE q = Committed(p, s)
    BY <2>3, CommittedEffect
  <2>4. CASE q = Failed(Climbed(p, s))
    BY <2>4, FailedClimbedEffect
  <2>5. CASE Verified(p, s) /\ Kind(p) # "COMPLETE" /\ q = Entered(Climbed(p, s), s)
    BY <2>5, AllowedFacts, AdvancedEffect DEF Verified
  <2> QED
    BY <1>8, <2>1, <2>2, <2>3, <2>4, <2>5 DEF Marked
<1> QED
  BY <1>2, <1>3, <1>4, <1>5, <1>6, <1>7, <1>8 DEF Step

\* The accounts of a plan that is not over, without the case of the one that is.
Balanced(p) ==
  /\ p.stageGen = p.index + p.generation
  /\ p.totalAttempts = p.index + p.generation + Len(p.completions)
  /\ p.attempt <= p.totalAttempts
  /\ p.attemptsInStage <= MaxStageAttempts

LEMMA Sums ==
  ASSUME NEW i \in Nat, NEW g \in Nat, NEW n \in Nat
  PROVE  /\ (i + g) + 1 = i + (g + 1) /\ (i + g) + 1 = (i + 1) + g
         /\ (i + g + n) + 1 = i + (g + 1) + n /\ (i + g + n) + 1 = (i + 1) + g + n
         /\ (i + g + n) + 1 = i + g + (n + 1)
OBVIOUS

LEMMA OpenAccount ==
  ASSUME NEW q, q.state # "COMPLETED",
         q.index \in Nat, q.generation \in Nat, Len(q.completions) \in Nat
  PROVE  AccountOf(q) <=> (q.state \notin {"ABSENT", "FAILED"} => Balanced(q))
<1>1. (IF q.state = "COMPLETED" THEN 1 ELSE 0) = 0
  OBVIOUS
<1>2. q.index + q.generation + Len(q.completions)
        - (IF q.state = "COMPLETED" THEN 1 ELSE 0)
        = q.index + q.generation + Len(q.completions)
  BY <1>1
<1> QED
  BY <1>2 DEF AccountOf, Balanced

LEMMA ClosedAccount ==
  ASSUME NEW p, Balanced(p), NEW q, q.state = "COMPLETED",
         p.index \in Nat, p.generation \in Nat, Len(p.completions) \in Nat,
         q.index = p.index, q.stageGen = p.stageGen, q.generation = p.generation,
         q.attempt = p.attempt, q.totalAttempts = p.totalAttempts,
         q.attemptsInStage = p.attemptsInStage,
         Len(q.completions) = Len(p.completions) + 1
  PROVE  AccountOf(q)
<1>1. (IF q.state = "COMPLETED" THEN 1 ELSE 0) = 1
  OBVIOUS
<1>2. q.index + q.generation + Len(q.completions)
        - (IF q.state = "COMPLETED" THEN 1 ELSE 0)
        = p.index + p.generation + Len(p.completions)
  BY <1>1
<1> QED
  BY <1>2 DEF AccountOf, Balanced

\* Every attempt is accounted for by a rung, a revalidation or a failed completion.
LEMMA AccountKept ==
  ASSUME TypeOK, NEW p \in Plans, OpenRecordOf(p), AccountOf(p), NEW q, Step(p, q)
  PROVE  AccountOf(q)
<1>1. /\ p.index \in Nat /\ p.generation \in Nat /\ p.stageGen \in Nat
      /\ p.attempt \in Nat /\ p.totalAttempts \in Nat /\ p.attemptsInStage \in Nat
      /\ Len(p.completions) \in Nat /\ MaxStageAttempts \in Nat /\ MaxStageAttempts >= 1
  BY PolicyAssumption DEF Plans
<1>10. /\ (p.index + p.generation) + 1 = p.index + (p.generation + 1)
       /\ (p.index + p.generation) + 1 = (p.index + 1) + p.generation
       /\ (p.index + p.generation + Len(p.completions)) + 1
            = p.index + (p.generation + 1) + Len(p.completions)
       /\ (p.index + p.generation + Len(p.completions)) + 1
            = (p.index + 1) + p.generation + Len(p.completions)
       /\ (p.index + p.generation + Len(p.completions)) + 1
            = p.index + p.generation + (Len(p.completions) + 1)
  <2> DEFINE i == p.index
             g == p.generation
             n == Len(p.completions)
  <2>1. i \in Nat /\ g \in Nat /\ n \in Nat
    BY <1>1, Zenon
  <2> HIDE DEF i, g, n
  <2>2. /\ (i + g) + 1 = i + (g + 1) /\ (i + g) + 1 = (i + 1) + g
        /\ (i + g + n) + 1 = i + (g + 1) + n /\ (i + g + n) + 1 = (i + 1) + g + n
        /\ (i + g + n) + 1 = i + g + (n + 1)
    BY <2>1, Sums
  <2> QED
    BY <2>2, Zenon DEF i, g, n
<1>2. ASSUME IsLive(p) PROVE Balanced(p) /\ p.state # "COMPLETED"
  <2>1. p.state \notin {"ABSENT", "FAILED", "COMPLETED"}
    BY <1>2 DEF IsLive, LiveStates, StageStates
  <2> QED
    BY <1>1, <2>1, OpenAccount
<1>3. CASE Quiet(p, q)
  <2>1. /\ q.index = p.index /\ q.generation = p.generation
        /\ q.stageGen = p.stageGen /\ q.attempt = p.attempt
        /\ q.totalAttempts = p.totalAttempts /\ q.completions = p.completions
        /\ q.attemptsInStage \in {p.attemptsInStage, 0}
    BY <1>3 DEF Quiet
  <2>2. CASE q.state = p.state
    <3>1. CASE q.state = "COMPLETED"
      <4>1. q.attemptsInStage <= MaxStageAttempts
        BY <1>1, <2>1, <2>2, <3>1 DEF AccountOf
      <4> QED
        BY <2>1, <2>2, <3>1, <4>1 DEF AccountOf
    <3>2. CASE q.state # "COMPLETED"
      <4>1. p.state \notin {"ABSENT", "FAILED"} => Balanced(p)
        BY <1>1, <2>2, <3>2, OpenAccount
      <4>2. Balanced(p) => Balanced(q)
        BY <1>1, <2>1 DEF Balanced
      <4>3. q.index \in Nat /\ q.generation \in Nat /\ Len(q.completions) \in Nat
        BY <1>1, <2>1
      <4> QED
        BY <2>2, <3>2, <4>1, <4>2, <4>3, OpenAccount
    <3> QED
      BY <3>1, <3>2
  <2>3. CASE q.state = "FAILED"
    BY <2>3 DEF AccountOf
  <2>4. CASE IsLive(p) /\ IsLive(q)
    <3>1. q.state # "COMPLETED"
      BY <2>4 DEF IsLive, LiveStates, StageStates
    <3>2. Balanced(q)
      BY <1>1, <1>2, <2>1, <2>4 DEF Balanced
    <3>3. q.index \in Nat /\ q.generation \in Nat /\ Len(q.completions) \in Nat
      BY <1>1, <2>1
    <3> QED
      BY <3>1, <3>2, <3>3, OpenAccount
  <2> QED
    BY <1>3, <2>2, <2>3, <2>4 DEF Quiet
<1>4. CASE q = NoPlan
  BY <1>4 DEF NoPlan, AccountOf
<1>5. CASE q = NewPlan
  <2>1. /\ q.index = 0 /\ q.generation = 1 /\ q.stageGen = 1 /\ q.attempt = 1
        /\ q.totalAttempts = 1 /\ q.attemptsInStage = 1 /\ Len(q.completions) = 0
        /\ q.state = StateForStage[Ladder[policyGen][1]]
    BY <1>5 DEF NewPlan, NoPlan
  <2>2. q.state = "OBSERVING"
    BY <2>1, LadderAssumption DEF TypeOK, ValidLadder, StateForStage
  <2>3. Balanced(q)
    BY <1>1, <2>1 DEF Balanced
  <2> QED
    BY <2>1, <2>2, <2>3, OpenAccount
<1>6. CASE IsLive(p) /\ q = RolledBack(p)
  <2>1. /\ q.state \in {"FAILED", "ROLLED_BACK"}
        /\ q.index = p.index /\ q.stageGen = p.stageGen /\ q.generation = p.generation
        /\ q.attempt = p.attempt /\ q.totalAttempts = p.totalAttempts
        /\ q.attemptsInStage = 0 /\ q.completions = p.completions
    BY <1>6, RolledBackEffect
  <2>2. Balanced(q)
    BY <1>1, <1>2, <1>6, <2>1 DEF Balanced
  <2>3. q.index \in Nat /\ q.generation \in Nat /\ Len(q.completions) \in Nat
    BY <1>1, <2>1
  <2> QED
    BY <2>1, <2>2, <2>3, OpenAccount
<1>7. CASE Revalidatable(p) /\ q = Revalidated(p)
  <2>1. IsLive(p) /\ HasStage(p)
    BY <1>7 DEF Revalidatable
  <2>2. /\ q.index = p.index
        /\ q.stageGen = p.stageGen + 1 /\ q.generation = p.generation + 1
        /\ q.attempt = p.totalAttempts + 1 /\ q.totalAttempts = p.totalAttempts + 1
        /\ q.attemptsInStage = 0 /\ q.completions = p.completions
        /\ q.state = StateForStage[Kind(p)]
    BY <1>7, <2>1, RevalidatedEffect
  <2>3. q.state # "COMPLETED"
    <3>1. Kind(p) \in StageKinds
      BY <2>1, KindType DEF TypeOK
    <3> QED
      BY <2>2, <3>1 DEF StageKinds, StateForStage
  <2>4. Balanced(q)
    <3>1. /\ p.stageGen = p.index + p.generation
          /\ p.totalAttempts = p.index + p.generation + Len(p.completions)
      BY <1>2, <2>1 DEF Balanced
    <3>2. /\ q.stageGen = q.index + q.generation
          /\ q.totalAttempts = q.index + q.generation + Len(q.completions)
      <4>1. /\ q.index = p.index /\ q.stageGen = p.stageGen + 1
            /\ q.generation = p.generation + 1
            /\ q.totalAttempts = p.totalAttempts + 1
            /\ Len(q.completions) = Len(p.completions)
        BY <2>2
      <4> QED
        <5>2. q.stageGen = q.index + q.generation
          BY <1>10, <3>1, <4>1, Zenon
        <5>3. q.totalAttempts = q.index + q.generation + Len(q.completions)
          BY <1>10, <3>1, <4>1, Zenon
        <5> QED
          BY <5>2, <5>3
    <3>3. q.attempt <= q.totalAttempts /\ q.attemptsInStage <= MaxStageAttempts
      BY <1>1, <2>2
    <3> QED
      BY <3>2, <3>3 DEF Balanced
  <2>5. q.index \in Nat /\ q.generation \in Nat /\ Len(q.completions) \in Nat
    BY <1>1, <2>2
  <2> QED
    BY <2>3, <2>4, <2>5, OpenAccount
<1>8. CASE q \in {Failed(Rebound(p)), Failed([Rebound(p) EXCEPT !.generation = @ + 1])}
  BY <1>8, FailedReboundEffect DEF AccountOf
<1>9. ASSUME NEW s \in Snapshots, Marked(p, q, s) PROVE AccountOf(q)
  <2>1. IsLive(p) /\ HasStage(p) /\ p.attemptsInStage < MaxStageAttempts
    BY <1>9, AllowedFacts DEF Marked, Verified
  <2>2. Balanced(p) /\ p.state # "COMPLETED"
    BY <1>2, <2>1
  <2>3. CASE q = PartiallyApplied(p, s)
    <3>1. /\ q.index = p.index
          /\ q.stageGen = p.stageGen /\ q.generation = p.generation
          /\ q.attempt = p.attempt /\ q.totalAttempts = p.totalAttempts + 1
          /\ q.attemptsInStage = p.attemptsInStage + 1
          /\ Len(q.completions) = Len(p.completions) + 1
          /\ q.state \in {p.state, "ROLLING_BACK"}
      BY <2>3, PartialEffect
    <3>2. Balanced(q)
      <4>1. /\ p.stageGen = p.index + p.generation
            /\ p.totalAttempts = p.index + p.generation + Len(p.completions)
            /\ p.attempt <= p.totalAttempts
        BY <2>2, Zenon DEF Balanced
      <4>2. /\ q.stageGen = q.index + q.generation
            /\ q.totalAttempts = q.index + q.generation + Len(q.completions)
        BY <1>10, <3>1, <4>1, Zenon
      <4>3. p.attempt <= p.totalAttempts + 1 /\ p.attemptsInStage + 1 <= MaxStageAttempts
        BY <1>1, <2>1, <4>1
      <4>4. q.attempt <= q.totalAttempts /\ q.attemptsInStage <= MaxStageAttempts
        BY <3>1, <4>3, Zenon
      <4> QED
        BY <4>2, <4>4, Zenon DEF Balanced
    <3>3. q.index \in Nat /\ q.generation \in Nat /\ Len(q.completions) \in Nat
      BY <1>1, <3>1
    <3> QED
      BY <2>2, <3>1, <3>2, <3>3, OpenAccount
  <2>4. CASE q = Failed([p EXCEPT !.history = Closed(Opened(p), "SUCCEEDED", s.tick)])
    BY <2>4, FailedClosedEffect DEF AccountOf
  <2>5. CASE q = Committed(p, s)
    <3>1. /\ q.state = "COMPLETED" /\ q.index = p.index
          /\ q.stageGen = p.stageGen /\ q.generation = p.generation
          /\ q.attempt = p.attempt /\ q.totalAttempts = p.totalAttempts
          /\ q.attemptsInStage = p.attemptsInStage
          /\ Len(q.completions) = Len(p.completions) + 1
      BY <2>5, CommittedEffect
    <3> QED
      BY <1>1, <2>2, <3>1, ClosedAccount
  <2>6. CASE q = Failed(Climbed(p, s))
    BY <2>6, FailedClimbedEffect DEF AccountOf
  <2>7. CASE Kind(p) # "COMPLETE" /\ q = Entered(Climbed(p, s), s)
    <3>1. /\ q.state \in StageStates /\ q.index = p.index + 1
          /\ q.stageGen = p.stageGen + 1 /\ q.generation = p.generation
          /\ q.attempt = p.totalAttempts + 1 /\ q.totalAttempts = p.totalAttempts + 1
          /\ q.attemptsInStage = 1
          /\ q.completions = p.completions
      BY <2>1, <2>7, AdvancedEffect
    <3>2. q.state # "COMPLETED"
      BY <3>1 DEF StageStates
    <3>3. Balanced(q)
      <4>1. /\ p.stageGen = p.index + p.generation
            /\ p.totalAttempts = p.index + p.generation + Len(p.completions)
        BY <2>2 DEF Balanced
      <4>2. /\ q.stageGen = q.index + q.generation
            /\ q.totalAttempts = q.index + q.generation + Len(q.completions)
        <5>1. /\ q.index = p.index + 1 /\ q.stageGen = p.stageGen + 1
              /\ q.generation = p.generation
              /\ q.totalAttempts = p.totalAttempts + 1
              /\ Len(q.completions) = Len(p.completions)
          BY <3>1
        <5> QED
          <6>2. q.stageGen = q.index + q.generation
            BY <1>10, <4>1, <5>1, Zenon
          <6>3. q.totalAttempts = q.index + q.generation + Len(q.completions)
            BY <1>10, <4>1, <5>1, Zenon
          <6> QED
            BY <6>2, <6>3
      <4>3. q.attempt <= q.totalAttempts /\ q.attemptsInStage <= MaxStageAttempts
        BY <1>1, <3>1
      <4> QED
        BY <4>2, <4>3 DEF Balanced
    <3>4. q.index \in Nat /\ q.generation \in Nat /\ Len(q.completions) \in Nat
      BY <1>1, <3>1
    <3> QED
      BY <3>2, <3>3, <3>4, OpenAccount
  <2> QED
    BY <1>9, <2>3, <2>4, <2>5, <2>6, <2>7 DEF Marked
<1> QED
  BY <1>3, <1>4, <1>5, <1>6, <1>7, <1>8, <1>9 DEF Step

\* No step but a rollback adds to the rollbacks of a plan.
LEMMA RollbacksKept ==
  ASSUME TypeOK, NEW p \in Plans, OpenRecordOf(p), RollbacksOf(p), NEW q, Step(p, q)
  PROVE  RollbacksOf(q)
<1>1. Len(p.rollbacks) \in Nat /\ MaxRollbackHistory \in Nat /\ MaxRollbacks \in Nat
  BY PolicyAssumption, LimitAssumption DEF Plans
<1>2. ASSUME q.rollbacks = p.rollbacks, IsLive(q) => IsLive(p)
      PROVE  RollbacksOf(q)
  BY <1>2 DEF RollbacksOf
<1>3. CASE Quiet(p, q)
  BY <1>2, <1>3 DEF Quiet, IsLive, LiveStates, StageStates
<1>4. CASE q \in {NoPlan, NewPlan}
  <2>1. q.rollbacks = <<>>
    <3>1. CASE q = NoPlan
      BY <3>1 DEF NoPlan
    <3>2. CASE q = NewPlan
      BY <3>2 DEF NoPlan, NewPlan
    <3> QED
      BY <1>4, <3>1, <3>2
  <2> QED
    BY <1>1, <2>1, Len(<<>>) = 0 DEF RollbacksOf
<1>5. CASE Len(p.rollbacks) < MaxRollbackHistory /\ q = RolledBack(p)
  <2>1. /\ q.rollbacks = Append(p.rollbacks, now)
        /\ q.state = IF Len(p.rollbacks) + 1 >= MaxRollbacks THEN "FAILED" ELSE "ROLLED_BACK"
    BY <1>5, RolledBackEffect
  <2>2. p.rollbacks \in Seq(Nat) /\ now \in Nat
    BY DEF Plans, TypeOK
  <2>3. Len(q.rollbacks) = Len(p.rollbacks) + 1
    BY <2>1, <2>2
  <2>4. Len(q.rollbacks) <= MaxRollbackHistory
    BY <1>1, <1>5, <2>3
  <2>5. IsLive(q) => Len(q.rollbacks) < MaxRollbacks
    BY <1>1, <2>1, <2>3 DEF IsLive, LiveStates, StageStates
  <2> QED
    BY <2>4, <2>5 DEF RollbacksOf
<1>6. CASE Revalidatable(p) /\ q = Revalidated(p)
  <2>1. IsLive(p) /\ HasStage(p)
    BY <1>6 DEF Revalidatable
  <2>2. q.rollbacks = p.rollbacks
    BY <1>6, <2>1, RevalidatedEffect
  <2> QED
    BY <1>2, <2>1, <2>2
<1>7. CASE q \in {Failed(Rebound(p)), Failed([Rebound(p) EXCEPT !.generation = @ + 1])}
  <2>1. q.rollbacks = p.rollbacks /\ q.state = "FAILED"
    BY <1>7, FailedReboundEffect
  <2> QED
    BY <1>2, <2>1 DEF IsLive, LiveStates, StageStates
<1>8. ASSUME NEW s \in Snapshots, Marked(p, q, s) PROVE RollbacksOf(q)
  <2>1. IsLive(p) /\ HasStage(p)
    BY <1>8, AllowedFacts DEF Marked, Verified
  <2>2. q.rollbacks = p.rollbacks
    <3>1. CASE q = PartiallyApplied(p, s)
      BY <3>1, PartialEffect
    <3>2. CASE q = Failed([p EXCEPT !.history = Closed(Opened(p), "SUCCEEDED", s.tick)])
      BY <3>2, FailedClosedEffect
    <3>3. CASE q = Committed(p, s)
      BY <3>3, CommittedEffect
    <3>4. CASE q = Failed(Climbed(p, s))
      BY <3>4, FailedClimbedEffect
    <3>5. CASE Kind(p) # "COMPLETE" /\ q = Entered(Climbed(p, s), s)
      BY <2>1, <3>5, AdvancedEffect
    <3> QED
      BY <1>8, <3>1, <3>2, <3>3, <3>4, <3>5 DEF Marked
  <2> QED
    BY <1>2, <2>1, <2>2
<1> QED
  BY <1>3, <1>4, <1>5, <1>6, <1>7, <1>8 DEF Step

\* A plan that was erased leaves nothing behind.
LEMMA EmptyKept ==
  ASSUME TypeOK, NEW p \in Plans, OpenRecordOf(p), EmptyOf(p), NEW q \in Plans, Step(p, q)
  PROVE  EmptyOf(q)
<1>1. CASE Quiet(p, q)
  BY <1>1 DEF Quiet, EmptyOf, IsLive, LiveStates, StageStates
<1>2. CASE q = NoPlan
  BY <1>2 DEF EmptyOf
<1>3. CASE q = NewPlan
  <2>1. q.state = StateForStage[Ladder[policyGen][1]]
    BY <1>3 DEF NewPlan, NoPlan
  <2>2. q.state = "OBSERVING"
    BY <2>1, LadderAssumption DEF TypeOK, ValidLadder, StateForStage
  <2> QED
    BY <2>2 DEF EmptyOf
<1>4. CASE q = RolledBack(p)
  <2>1. q.state \in {"FAILED", "ROLLED_BACK"}
    BY <1>4, RolledBackEffect
  <2> QED
    BY <2>1 DEF EmptyOf
<1>5. CASE Revalidatable(p) /\ q = Revalidated(p)
  <2>1. HasStage(p) /\ StateForStage[Kind(p)] \in StageStates
    BY <1>5, KindType DEF Revalidatable, TypeOK
  <2>2. q.state \in StageStates
    BY <1>5, <2>1, RevalidatedEffect
  <2> QED
    BY <2>2 DEF EmptyOf, StageStates
<1>6. CASE q \in {Failed(Rebound(p)), Failed([Rebound(p) EXCEPT !.generation = @ + 1])}
  BY <1>6, FailedReboundEffect DEF EmptyOf
<1>7. ASSUME NEW s \in Snapshots, Marked(p, q, s) PROVE EmptyOf(q)
  <2>1. IsLive(p) /\ HasStage(p)
    BY <1>7, AllowedFacts DEF Marked, Verified
  <2>2. p.state # "ABSENT"
    BY <2>1 DEF IsLive, LiveStates, StageStates
  <2>3. CASE q = PartiallyApplied(p, s)
    BY <2>2, <2>3, PartialEffect DEF EmptyOf
  <2>4. CASE q = Failed([p EXCEPT !.history = Closed(Opened(p), "SUCCEEDED", s.tick)])
    BY <2>4, FailedClosedEffect DEF EmptyOf
  <2>5. CASE q = Committed(p, s)
    BY <2>5, CommittedEffect DEF EmptyOf
  <2>6. CASE q = Failed(Climbed(p, s))
    BY <2>6, FailedClimbedEffect DEF EmptyOf
  <2>7. CASE Kind(p) # "COMPLETE" /\ q = Entered(Climbed(p, s), s)
    BY <2>1, <2>7, AdvancedEffect DEF EmptyOf, StageStates
  <2> QED
    BY <1>7, <2>3, <2>4, <2>5, <2>6, <2>7 DEF Marked
<1> QED
  BY <1>1, <1>2, <1>3, <1>4, <1>5, <1>6, <1>7 DEF Step

\* What a step does to the times of a plan: they never pass the present ones and
\* never go back, unless the plan is erased.
Timely(p, q) ==
  /\ q.updated <= now' /\ q.epoch <= epoch' /\ q.policyGen <= policyGen'
  /\ q.state # "ABSENT" =>
       q.updated >= p.updated /\ q.epoch >= p.epoch /\ q.policyGen >= p.policyGen

LEMMA TimeKept ==
  ASSUME TypeOK, NEW p \in Plans, OpenRecordOf(p), EmptyOf(p), TimeOf(p), NEW q,
         Step(p, q), TypeOK', now' >= now, epoch' >= epoch, policyGen' >= policyGen
  PROVE  Timely(p, q)
<1>1. /\ p.updated \in Nat /\ p.epoch \in Nat /\ p.policyGen \in Nat
      /\ p.updated <= now /\ p.epoch <= epoch /\ p.policyGen <= policyGen
      /\ now \in Nat /\ epoch \in Nat /\ policyGen \in Nat
      /\ now' \in Nat /\ epoch' \in Nat /\ policyGen' \in Nat
  BY DEF TypeOK, TimeOf, Plans, PolicyGens
<1>2. ASSUME q.updated \in {p.updated, now}, q.epoch \in {p.epoch, epoch, epoch'},
             q.policyGen \in {p.policyGen, policyGen}
      PROVE  Timely(p, q)
  BY <1>1, <1>2 DEF Timely
<1>3. CASE Quiet(p, q)
  BY <1>2, <1>3 DEF Quiet
<1>4. CASE q = NoPlan
  BY <1>1, <1>4 DEF NoPlan, Timely
<1>5. CASE p.state = "ABSENT" /\ q = NewPlan
  <2>1. p.updated = 0 /\ p.epoch = 0 /\ p.policyGen = 0
    BY <1>5 DEF EmptyOf, NoPlan
  <2>2. q.updated = now /\ q.epoch = epoch /\ q.policyGen = policyGen
    BY <1>5 DEF NewPlan, NoPlan
  <2> QED
    BY <1>2, <2>2
<1>6. CASE q = RolledBack(p)
  BY <1>2, <1>6, RolledBackEffect
<1>7. CASE Revalidatable(p) /\ q = Revalidated(p)
  BY <1>2, <1>7, RevalidatedEffect DEF Revalidatable
<1>8. CASE q \in {Failed(Rebound(p)), Failed([Rebound(p) EXCEPT !.generation = @ + 1])}
  BY <1>2, <1>8, FailedReboundEffect
<1>9. ASSUME NEW s \in Snapshots, Marked(p, q, s) PROVE Timely(p, q)
  <2>1. HasStage(p) /\ p.updated <= s.tick /\ s.tick \in Nat /\ s.tick <= now
    BY <1>9, AllowedFacts, SnapshotType DEF Marked, Verified
  <2>2. ASSUME q.updated \in {p.updated, s.tick}, q.epoch = p.epoch, q.policyGen = p.policyGen
        PROVE  Timely(p, q)
    BY <1>1, <2>1, <2>2 DEF Timely
  <2>3. CASE q = PartiallyApplied(p, s)
    BY <2>2, <2>3, PartialEffect
  <2>4. CASE q = Failed([p EXCEPT !.history = Closed(Opened(p), "SUCCEEDED", s.tick)])
    BY <2>2, <2>4, FailedClosedEffect
  <2>5. CASE q = Committed(p, s)
    BY <2>2, <2>5, CommittedEffect
  <2>6. CASE q = Failed(Climbed(p, s))
    BY <2>2, <2>6, FailedClimbedEffect
  <2>7. CASE Kind(p) # "COMPLETE" /\ q = Entered(Climbed(p, s), s)
    BY <2>1, <2>2, <2>7, AdvancedEffect
  <2> QED
    BY <1>9, <2>3, <2>4, <2>5, <2>6, <2>7 DEF Marked
<1> QED
  BY <1>3, <1>4, <1>5, <1>6, <1>7, <1>8, <1>9 DEF Step

-----------------------------------------------------------------------------
(* The length of the stage history.                                        *)

\* open_stage_record adds one record, or none when it reuses the pending one.
LEMMA OpenedLength ==
  ASSUME NEW p \in Plans
  PROVE  LET g == p.history  h == Opened(p) IN
         /\ Len(g) \in Nat /\ Len(h) \in Nat /\ Len(h) <= Len(g) + 1
         /\ HasPending(p) /\ LastRecord(p).index = p.index => Len(h) = Len(g)
<1> DEFINE g == p.history
           rec == [index |-> p.index, generation |-> p.stageGen, attempt |-> p.attempt,
                   outcome |-> "PENDING", exited |-> 0]
           upd == [LastRecord(p) EXCEPT !.generation = p.stageGen, !.attempt = p.attempt]
<1>1. g \in Seq(StageRecords)
  BY Zenon DEF Plans
<1>2. CASE HasPending(p) /\ LastRecord(p).index = p.index
  <2>1. Opened(p) = [g EXCEPT ![Len(g)] = upd]
    BY <1>2 DEF Opened, LastRecord
  <2> HIDE DEF g, upd
  <2> QED
    BY <1>1, <2>1 DEF g
<1>3. CASE ~(HasPending(p) /\ LastRecord(p).index = p.index)
  <2>1. Opened(p) = Append(g, rec)
    BY <1>3 DEF Opened
  <2> HIDE DEF g, rec
  <2> QED
    BY <1>1, <1>3, <2>1 DEF g
<1> QED
  BY <1>2, <1>3

\* A rung is closed only when its record is open or the history has room for one.
LEMMA ClosedLength ==
  ASSUME NEW p \in Plans, OpenRecordOf(p), HistoryOf(p), HasRoom(p), NEW outcome, NEW t
  PROVE  Len(Closed(Opened(p), outcome, t)) <= MaxStageHistory + p.index
<1> DEFINE g == p.history
           h == Opened(p)
<1>1. Len(Closed(h, outcome, t)) = Len(h)
  BY OpenedType, ClosedFacts
<1>2. /\ Len(g) \in Nat /\ Len(h) \in Nat /\ Len(h) <= Len(g) + 1
      /\ HasPending(p) /\ LastRecord(p).index = p.index => Len(h) = Len(g)
  BY OpenedLength
<1>3. p.index \in Nat /\ MaxStageHistory \in Nat
  BY LimitAssumption DEF Plans
<1>4. HasPending(p) => LastRecord(p).index = p.index
  BY DEF OpenRecordOf
<1>5. \/ HasPending(p) /\ Len(g) <= MaxStageHistory + p.index
      \/ ~(Len(g) >= MaxStageHistory)
  BY DEF HasRoom, HistoryFull, HistoryOf
<1> HIDE DEF g, h
<1> QED
  BY <1>1, <1>2, <1>3, <1>4, <1>5 DEF h

\* Entering a rung opens one record at most.
LEMMA EnteredLength ==
  ASSUME TypeOK, NEW c \in Plans, NEW s \in Snapshots, HasStage(c)
  PROVE  LET q == Entered(c, s) IN
         Len(q.history) \in Nat /\ Len(q.history) <= Len(c.history) + 1
<1> DEFINE st == StateForStage[Kind(c)]
           tr == PushTransition(c.transitions, s.tick)
           sg == c.stageGen + 1
           n == c.totalAttempts + 1
           t == s.tick
           r == [c EXCEPT !.stageGen = sg, !.attempt = n, !.totalAttempts = n,
                          !.attemptsInStage = 1, !.state = st, !.updated = t,
                          !.transitions = tr]
           h == Opened(r)
           q == Entered(c, s)
<1>1. t \in Nat /\ st \in RecoveryStates
  BY SnapshotType, KindType DEF TypeOK, RecoveryStates, LiveStates
<1>2. tr \in Seq(Nat)
  BY <1>1, TransitionType DEF Plans
<1>3. sg \in Nat /\ n \in Nat
  BY PlanFields
<1>4. q = [r EXCEPT !.history = h]
  BY Zenon DEF Entered
<1> HIDE DEF st, tr, sg, n, t, q
<1>5. r \in Plans /\ r.history = c.history
  BY <1>1, <1>2, <1>3 DEF Plans
<1> HIDE DEF r, h
<1>6. q.history = h
  BY <1>4, <1>5 DEF Plans
<1> QED
  BY <1>5, <1>6, OpenedLength DEF h, q

\* Every step keeps the history within its limit and the rungs climbed.
LEMMA HistoryKept ==
  ASSUME TypeOK, NEW p \in Plans, OpenRecordOf(p), HistoryOf(p), NEW q, Step(p, q)
  PROVE  HistoryOf(q)
<1>1. /\ Len(p.history) \in Nat /\ p.index \in Nat
      /\ MaxStageHistory \in Nat /\ MaxStageHistory >= 1
  BY OpenedLength, LimitAssumption DEF Plans
<1>2. ASSUME q.history = p.history, q.index = p.index PROVE HistoryOf(q)
  BY <1>2 DEF HistoryOf
<1>3. CASE Quiet(p, q)
  BY <1>2, <1>3 DEF Quiet
<1>4. CASE q = NoPlan
  BY <1>1, <1>4, Len(<<>>) = 0 DEF NoPlan, HistoryOf
<1>5. CASE q = NewPlan
  <2>1. Len(q.history) = 1 /\ q.index = 0
    BY <1>5 DEF NewPlan, NoPlan
  <2> QED
    BY <1>1, <2>1 DEF HistoryOf
<1>6. CASE q = RolledBack(p)
  <2>1. q.index = p.index
    BY <1>6, RolledBackEffect
  <2>2. \/ q.history = p.history
        \/ HasRoom(p) /\ q.history = Closed(Opened(p), "ROLLED_BACK", now)
    BY <1>6 DEF RolledBack, HasRoom, Plans
  <2> QED
    BY <1>2, <2>1, <2>2, ClosedLength DEF HistoryOf
<1>7. CASE Revalidatable(p) /\ ~HistoryFull(p) /\ q = Revalidated(p)
  <2> DEFINE st == StateForStage[Kind(p)]
             b == Rebound(p)
             g == b.generation + 1
             sg == b.stageGen + 1
             a == p.totalAttempts + 1
             n == b.totalAttempts + 1
             r == [b EXCEPT !.generation = g, !.stageGen = sg, !.attempt = a,
                            !.totalAttempts = n, !.state = st]
             h == Opened(r)
  <2>1. b \in Plans /\ b.history = p.history /\ b.index = p.index
    BY ReboundType, ReboundEffect
  <2>2. st \in RecoveryStates
    BY <1>7, KindType DEF Revalidatable, TypeOK, RecoveryStates, LiveStates
  <2>3. g \in Nat /\ sg \in Nat /\ a \in Nat /\ n \in Nat
    <3>1. b.generation \in Nat /\ b.stageGen \in Nat /\ b.totalAttempts \in Nat
          /\ p.totalAttempts \in Nat
      BY <2>1, Zenon, PlanFields
    <3> HIDE DEF b
    <3> QED
      BY <3>1
  <2>4. q = [r EXCEPT !.history = h]
    BY <1>7 DEF Revalidated
  <2> HIDE DEF st, b, g, sg, a, n
  <2>5. r \in Plans /\ r.history = b.history
    BY <2>1, <2>2, <2>3 DEF Plans
  <2> HIDE DEF r, h
  <2>6. q.history = h
    BY <2>4, <2>5 DEF Plans
  <2>7. Len(h) \in Nat /\ Len(h) <= Len(p.history) + 1
    BY <2>1, <2>5, OpenedLength DEF h
  <2>8. q.index = p.index /\ ~(Len(p.history) >= MaxStageHistory)
    BY <1>7, RevalidatedEffect DEF Revalidatable, HistoryFull
  <2>9. Len(q.history) <= MaxStageHistory + q.index
    BY <1>1, <2>6, <2>7, <2>8
  <2> QED
    BY <2>9 DEF HistoryOf
<1>8. CASE q \in {Failed(Rebound(p)), Failed([Rebound(p) EXCEPT !.generation = @ + 1])}
  BY <1>2, <1>8, FailedReboundEffect
<1>9. ASSUME NEW s \in Snapshots, Marked(p, q, s) PROVE HistoryOf(q)
  <2> DEFINE h == Closed(Opened(p), "SUCCEEDED", s.tick)
  <2>1. HasRoom(p) => Len(h) <= MaxStageHistory + p.index
    BY ClosedLength
  <2>2. Len(h) \in Nat
    <3>1. Len(h) = Len(Opened(p)) /\ Len(Opened(p)) \in Nat
      BY OpenedType, OpenedLength, ClosedFacts
    <3> QED
      BY <3>1
  <2>3. /\ Climbed(p, s) \in Plans /\ Climbed(p, s).history = h
        /\ Climbed(p, s).index = p.index + 1
    BY ClimbedType DEF Climbed, Plans
  <2>4. CASE q = PartiallyApplied(p, s)
    BY <1>2, <2>4, PartialEffect
  <2>5. CASE HasRoom(p) /\ q = Failed([p EXCEPT !.history = h])
    <3>1. q.history = h /\ q.index = p.index
      BY <2>5 DEF Failed, Plans
    <3> QED
      BY <2>1, <2>5, <3>1 DEF HistoryOf
  <2>6. CASE HasRoom(p) /\ q = Committed(p, s)
    <3>1. q.history = h /\ q.index = p.index
      BY <2>6 DEF Committed, Plans
    <3> QED
      BY <2>1, <2>6, <3>1 DEF HistoryOf
  <2>7. CASE HasRoom(p) /\ q = Failed(Climbed(p, s))
    <3>1. q.history = h /\ q.index = p.index + 1
      BY <2>3, <2>7, StateFields DEF Failed, SameButState
    <3> HIDE DEF h
    <3> QED
      BY <1>1, <2>1, <2>2, <2>7, <3>1 DEF HistoryOf
  <2>8. CASE HasRoom(p) /\ Kind(p) # "COMPLETE" /\ q = Entered(Climbed(p, s), s)
    <3> DEFINE c == Climbed(p, s)
    <3>1. IsLive(p) /\ HasStage(p)
      BY <1>9, AllowedFacts DEF Marked, Verified
    <3>2. HasStage(c)
      BY <2>8, <3>1, NextRung
    <3>3. q.index = p.index + 1
      BY <2>8, <3>1, AdvancedEffect
    <3>4. Len(q.history) \in Nat /\ Len(q.history) <= Len(c.history) + 1
      BY <2>3, <2>8, <3>2, EnteredLength
    <3> HIDE DEF c, h
    <3>5. c.history = h
      BY <2>3 DEF c
    <3>6. Len(q.history) <= MaxStageHistory + q.index
      BY <1>1, <2>1, <2>2, <2>8, <3>3, <3>4, <3>5
    <3> QED
      BY <3>6 DEF HistoryOf
  <2> QED
    BY <1>9, <2>4, <2>5, <2>6, <2>7, <2>8 DEF Marked
<1> QED
  BY <1>3, <1>4, <1>5, <1>6, <1>7, <1>8, <1>9 DEF Step

-----------------------------------------------------------------------------
(* The invariant holds of every reachable state.                           *)

LEMMA NoPlanTraced ==
  ASSUME TypeOK
  PROVE  Traced(NoPlan)
<1>1. /\ NoPlan.state = "ABSENT" /\ NoPlan.history = <<>> /\ NoPlan.transitions = <<>>
      /\ NoPlan.rollbacks = <<>> /\ NoPlan.index = 0 /\ NoPlan.updated = 0
      /\ NoPlan.epoch = 0 /\ NoPlan.policyGen = 0
  BY DEF NoPlan
<1>2. /\ now \in Nat /\ epoch \in Nat /\ policyGen \in Nat
      /\ TransitionRecords \in Nat /\ MaxRollbackHistory \in Nat
  BY LimitAssumption DEF TypeOK, PolicyGens
<1>3. Successes(NoPlan) = {}
  BY <1>1 DEF Successes
<1>4. EmptyOf(NoPlan) /\ TimeOf(NoPlan) /\ RungsOf(NoPlan) /\ LateOf(NoPlan)
  BY <1>1, <1>2, <1>3 DEF EmptyOf, TimeOf, RungsOf, LateOf
<1>5. TicksOf(NoPlan)
  BY <1>1, <1>2, Len(<<>>) = 0, DOMAIN <<>> = {} DEF TicksOf
<1>6. WindowOf(NoPlan)
  <2> SUFFICES ASSUME NEW a \in Int PROVE WindowSince(NoPlan, a)
    BY DEF WindowOf
  <2>1. LeftSince(NoPlan, a) = {} /\ MovedSince(NoPlan.transitions, a) = {}
    BY <1>1, <1>3 DEF LeftSince, MovedSince
  <2>2. Cardinality({}) <= Cardinality({})
    BY FS_EmptySet
  <2> QED
    BY <2>1, <2>2 DEF WindowSince
<1>7. OpenRecordOf(NoPlan)
  BY <1>1 DEF OpenRecordOf, HasPending
<1>8. ClimbOf(NoPlan)
  BY <1>1 DEF ClimbOf
<1>9. AccountOf(NoPlan) /\ RollbacksOf(NoPlan)
  BY <1>1, <1>2, Len(<<>>) = 0 DEF AccountOf, RollbacksOf
<1>10. RateOf(NoPlan) /\ ExitsOf(NoPlan)
  BY <1>3 DEF RateOf, ExitsOf
<1> QED
  BY <1>4, <1>5, <1>6, <1>7, <1>8, <1>9, <1>10 DEF Traced

\* What a step makes of one plan that satisfies the invariant.
LEMMA TracedStep ==
  ASSUME LInv, [Next]_vars, NEW i \in PlanIds
  PROVE  Traced(plans[i])' /\ Timely(plans[i], plans'[i])
<1> DEFINE p == plans[i]
           q == plans'[i]
<1>1. TypeOK /\ TypeOK' /\ Traced(p)
  BY TypeStep DEF LInv
<1>2. p \in Plans /\ q \in Plans
  BY <1>1 DEF TypeOK
<1>3. Step(p, q) /\ now' >= now /\ epoch' >= epoch /\ policyGen' >= policyGen
  BY <1>1, StepCases
<1>4. /\ EmptyOf(p) /\ TimeOf(p) /\ RungsOf(p) /\ LateOf(p) /\ TicksOf(p) /\ WindowOf(p)
      /\ OpenRecordOf(p) /\ ClimbOf(p) /\ AccountOf(p) /\ RollbacksOf(p) /\ RateOf(p)
      /\ Dwell > 0 => ExitsOf(p)
  BY <1>1 DEF Traced
<1>5. p.updated <= now
  BY <1>4 DEF TimeOf
<1> HIDE DEF p, q
<1>6. Still(p, q) \/ Fresh(q) \/ \E t \in Nat : Advanced(p, q, t)
  BY <1>1, <1>2, <1>3, <1>4, StepMoves
<1>7. RungsOf(q) /\ LateOf(q)
  BY <1>1, <1>2, <1>4, <1>5, <1>6, RungsKept, LateKept
<1>8. TicksOf(q)
  BY <1>1, <1>2, <1>4, <1>5, <1>6, TicksKept
<1>9. WindowOf(q)
  BY <1>1, <1>2, <1>4, <1>5, <1>6, WindowKept
<1>10. RateOf(q)
  BY <1>1, <1>2, <1>4, <1>6, RateKept
<1>11. Dwell > 0 => ExitsOf(q)
  BY <1>1, <1>2, <1>4, <1>6, ExitsKept
<1>12. ClimbOf(q)
  BY <1>2, <1>4, <1>6, ClimbKept
<1>13. OpenRecordOf(q) /\ AccountOf(q) /\ RollbacksOf(q) /\ EmptyOf(q)
  BY <1>1, <1>2, <1>3, <1>4, OpenKept, AccountKept, RollbacksKept, EmptyKept
<1>14. Timely(p, q)
  BY <1>1, <1>2, <1>3, <1>4, TimeKept
<1>15. TimeOf(plans[i])'
  BY <1>14 DEF Timely, TimeOf, q
<1> QED
  BY <1>7, <1>8, <1>9, <1>10, <1>11, <1>12, <1>13, <1>14, <1>15 DEF Traced, p, q

LEMMA LineageInductive ==
  /\ Init => LInv
  /\ LInv /\ [Next]_vars => LInv'
<1>1. ASSUME Init PROVE LInv
  <2>1. TypeOK
    BY <1>1, TypeInit
  <2>2. \A i \in PlanIds : plans[i] = NoPlan
    BY <1>1 DEF Init
  <2> QED
    BY <2>1, <2>2, NoPlanTraced DEF LInv
<1>2. ASSUME LInv, [Next]_vars PROVE LInv'
  <2>1. TypeOK'
    BY <1>2, TypeStep DEF LInv
  <2>2. \A i \in PlanIds : Traced(plans[i])'
    BY <1>2, TracedStep
  <2> QED
    BY <2>1, <2>2 DEF LInv
<1> QED
  BY <1>1, <1>2

LEMMA LineageHolds == Spec => []LInv
BY LineageInductive, PTL DEF Spec

-----------------------------------------------------------------------------
(* What the runs check on small instances, for every instance.             *)

\* Only the last stage record of a plan may be open, and it is the one of the rung,
\* the stage generation and the attempt the plan is at.
THEOREM OpenRecordCorrect == Spec => []OpenRecordIsCurrent
<1>1. LInv => OpenRecordIsCurrent
  BY DEF LInv, Traced, OpenRecordIsCurrent
<1> QED
  BY <1>1, LineageHolds, PTL

\* No rung is skipped on the way to completion, whatever policies replace each other
\* and however often the plan is rolled back or revalidated.
THEOREM ClimbCorrect == Spec => []LadderClimbed
<1>1. LInv => LadderClimbed
  BY DEF LInv, Traced, LadderClimbed
<1> QED
  BY <1>1, LineageHolds, PTL

\* Every attempt a plan has used is accounted for by a rung, a revalidation or a
\* failed completion.
THEOREM AccountingCorrect == Spec => []AttemptAccounting
<1>1. LInv => AttemptAccounting
  BY DEF LInv, Traced, AttemptAccounting
<1> QED
  BY <1>1, LineageHolds, PTL

\* A plan that has used up its rollback budget is not live.
THEOREM RollbackCorrect == Spec => []RollbackBudget
<1>1. LInv => RollbackBudget
  BY DEF LInv, Traced, RollbackBudget
<1> QED
  BY <1>1, LineageHolds, PTL

\* The stage history outgrows its limit by one record for each rung climbed at most,
\* although the limit is tested only when no record is open.
THEOREM HistoryCorrect == Spec => []HistoryBounded
<1>1. Init => HistoryBounded
  BY LimitAssumption, Len(<<>>) = 0 DEF Init, HistoryBounded, HistoryOf, NoPlan
<1>2. LInv /\ HistoryBounded /\ [Next]_vars => HistoryBounded'
  <2> SUFFICES ASSUME LInv, HistoryBounded, [Next]_vars, NEW i \in PlanIds
               PROVE  HistoryOf(plans'[i])
    BY DEF HistoryBounded, HistoryOf
  <2>1. TypeOK /\ plans[i] \in Plans /\ OpenRecordOf(plans[i]) /\ HistoryOf(plans[i])
    BY DEF LInv, TypeOK, Traced, HistoryBounded
  <2>2. Step(plans[i], plans'[i])
    BY <2>1, StepCases
  <2> QED
    BY <2>1, <2>2, HistoryKept
<1> QED
  BY <1>1, <1>2, LineageHolds, PTL DEF Spec

\* With a dwell time, no snapshot carries a plan over two rungs.
THEOREM ExitsCorrect == Spec => []OneAdvancePerTick
<1>1. LInv => OneAdvancePerTick
  BY DEF LInv, Traced, OneAdvancePerTick
<1> QED
  BY <1>1, LineageHolds, PTL

\* The hysteresis window bounds the advances of a plan, although the code counts
\* them in a ring of kTransitionWindowRecords ticks that forgets the oldest.
THEOREM RateCorrect == Spec => []AdvanceRateBounded
<1>1. LInv => AdvanceRateBounded
  BY DEF LInv, Traced, AdvanceRateBounded
<1> QED
  BY <1>1, LineageHolds, PTL

=============================================================================
