---------------------- MODULE CoordinatorSession_proofs ----------------------
(***************************************************************************)
(* Proofs about CoordinatorSession, for any number of processes, workers   *)
(* and runs, any ladder and any of the scenarios, roles and boots.         *)
(***************************************************************************)
EXTENDS CoordinatorSession, WellFoundedInduction, TLAPS

EP == INSTANCE RecoveryEngine_proofs WITH
  PlanIds <- {1}, Ladder <- <<Rungs>>, SnapshotGens <- Nat,
  Dwell <- 10, Cooldown <- 5, Window <- WindowTicks, MaxTransitions <- 12,
  RevalidationBoundary <- BoundaryTicks, MaxLifetime <- LifetimeTicks,
  MaxStageAttempts <- 3, MaxTotalAttempts <- 32, MaxRollbacks <- 3,
  OnRecurrence <- <<"ROLLBACK">>, RollbackOnFailure <- TRUE,
  MaxStageHistory <- 64, MaxRollbackHistory <- 32, MaxCompletionHistory <- 64,
  MaxExplanationItems <- 64, MaxReasonLength <- 256, TransitionRecords <- 64,
  MaxGeneration <- Unreached, MaxEpoch <- MaxRuns, MaxTick <- Unreached,
  policyGen <- 1

-----------------------------------------------------------------------------
(* The engine of the session is the one of the theorems: E and EP are the  *)
(* same module with the same values, and define the same operators.        *)

LEMMA SameCardinality == \A S : E!Cardinality(S) = EP!Cardinality(S)
BY DEF E!Cardinality, EP!Cardinality

LEMMA SameOpened == \A p : E!Opened(p) = EP!Opened(p)
BY DEF E!HasPending, EP!HasPending, E!LastRecord, EP!LastRecord, E!Opened, EP!Opened

LEMMA SameClosed ==
  \A records, o, t : E!Closed(records, o, t) = EP!Closed(records, o, t)
BY Zenon DEF E!Closed, EP!Closed

LEMMA SameKind == \A p : E!Kind(p) = EP!Kind(p)
BY Zenon DEF E!Kind, EP!Kind

LEMMA SameHasStage == \A p : E!HasStage(p) = EP!HasStage(p)
BY Zenon DEF E!HasStage, EP!HasStage

LEMMA SameIsLive == \A p : E!IsLive(p) = EP!IsLive(p)
BY Zenon DEF E!IsLive, EP!IsLive, E!LiveStates, EP!LiveStates, E!StageStates,
   EP!StageStates

LEMMA SameCountRecent == \A ticks, t : E!CountRecent(ticks, t) = EP!CountRecent(ticks, t)
BY SameCardinality DEF E!CountRecent, EP!CountRecent

LEMMA SameCoherent == \A p, s : E!Coherent(p, s) <=> EP!Coherent(p, s)
BY SameKind, SameHasStage, SameIsLive, Zenon DEF E!Bound, EP!Bound, E!Coherent,
   EP!Coherent, E!CompletionKey, EP!CompletionKey, E!Replayed, EP!Replayed

LEMMA SameEvaluated == \A p, s : E!Evaluated(p, s) <=> EP!Evaluated(p, s)
BY SameCoherent, Zenon DEF E!CrossedBoundary, EP!CrossedBoundary, E!Evaluated,
   EP!Evaluated, E!Outlived, EP!Outlived

LEMMA SameSettled == \A p, s : E!Settled(p, s) <=> EP!Settled(p, s)
BY SameEvaluated, Zenon DEF E!Settled, EP!Settled

LEMMA SameWithinRate == \A p, s : E!WithinRate(p, s) <=> EP!WithinRate(p, s)
BY SameCountRecent, Zenon DEF E!WithinRate, EP!WithinRate

LEMMA SameAllowed == \A p, s : E!Allowed(p, s) <=> EP!Allowed(p, s)
BY SameSettled, SameWithinRate, Zenon DEF E!Allowed, EP!Allowed

LEMMA SameVerified == \A p, s : E!Verified(p, s) <=> EP!Verified(p, s)
BY SameKind, SameAllowed, Zenon DEF E!Verified, EP!Verified

LEMMA SameHasRoom == \A p : E!HasRoom(p) <=> EP!HasRoom(p)
BY Zenon DEF E!HasPending, EP!HasPending, E!HasRoom, EP!HasRoom, E!HistoryFull,
   EP!HistoryFull, E!LastRecord, EP!LastRecord

LEMMA SameFailed == \A p : E!Failed(p) = EP!Failed(p)
BY Zenon DEF E!Failed, EP!Failed

LEMMA SameInvalidated == \A p : E!Invalidated(p) = EP!Invalidated(p)
BY SameIsLive, Zenon DEF E!Flagged, EP!Flagged, E!Invalidated, EP!Invalidated

LEMMA SameInvalidatedDraft == \A p : E!InvalidatedDraft(p) = EP!InvalidatedDraft(p)
BY SameIsLive, Zenon DEF E!Flagged, EP!Flagged, E!InvalidatedDraft, EP!InvalidatedDraft

LEMMA SamePartiallyApplied ==
  \A p, s : E!PartiallyApplied(p, s) = EP!PartiallyApplied(p, s)
BY Zenon DEF E!CompletionKey, EP!CompletionKey, E!PartiallyApplied, EP!PartiallyApplied

LEMMA SameCommitted == \A p, s : E!Committed(p, s) = EP!Committed(p, s)
BY SameOpened, SameClosed, Zenon DEF E!Committed, EP!Committed, E!CompletionKey,
   EP!CompletionKey, E!PushTransition, EP!PushTransition

LEMMA SameClimbed == \A p, s : E!Climbed(p, s) = EP!Climbed(p, s)
BY SameOpened, SameClosed, Zenon DEF E!Climbed, EP!Climbed

LEMMA SameEntered == \A q, s : E!Entered(q, s) = EP!Entered(q, s)
<1> TAKE q, s
<1>1. E!StateForStage[E!Kind(q)] = EP!StateForStage[EP!Kind(q)]
  BY SameKind, Zenon DEF E!StateForStage, EP!StateForStage
<1>2. E!PushTransition(q.transitions, s.tick) = EP!PushTransition(q.transitions, s.tick)
  BY Zenon DEF E!PushTransition, EP!PushTransition
<1> DEFINE st == EP!StateForStage[EP!Kind(q)]
           tr == EP!PushTransition(q.transitions, s.tick)
           r == [q EXCEPT !.stageGen = @ + 1, !.attempt = q.totalAttempts + 1,
                          !.totalAttempts = @ + 1, !.attemptsInStage = 1, !.state = st,
                          !.updated = s.tick, !.transitions = tr]
<1>3. E!Entered(q, s) = [r EXCEPT !.history = E!Opened(r)]
  BY <1>1, <1>2, Zenon DEF E!Entered
<1>4. EP!Entered(q, s) = [r EXCEPT !.history = EP!Opened(r)]
  BY Zenon DEF EP!Entered
<1>5. E!Opened(r) = EP!Opened(r)
  BY SameOpened, Zenon
<1> HIDE DEF r
<1> QED
  BY <1>3, <1>4, <1>5, Zenon

LEMMA SameUpdate == \A i, q : E!Update(i, q) <=> EP!Update(i, q)
BY Zenon DEF E!Update, EP!Update

LEMMA SameCompletionsFull == \A p : E!CompletionsFull(p) = EP!CompletionsFull(p)
BY Zenon DEF E!CompletionsFull, EP!CompletionsFull

LEMMA SameAdvanceStale == \A i, s : E!AdvanceStale(i, s) <=> EP!AdvanceStale(i, s)
BY SameKind, SameHasStage, SameIsLive, SameInvalidatedDraft, Zenon DEF E!AdvanceStale,
   EP!AdvanceStale, E!Bound, EP!Bound, E!CompletionKey, EP!CompletionKey, E!Replayed,
   EP!Replayed, E!Update, EP!Update

LEMMA SameAdvanceOutlived ==
  \A i, s : E!AdvanceOutlived(i, s) <=> EP!AdvanceOutlived(i, s)
BY SameCoherent, SameFailed, Zenon DEF E!AdvanceOutlived, EP!AdvanceOutlived, E!Outlived,
   EP!Outlived, E!Update, EP!Update

LEMMA SameAdvanceCrossedBoundary ==
  \A i, s : E!AdvanceCrossedBoundary(i, s) <=> EP!AdvanceCrossedBoundary(i, s)
BY SameCoherent, SameInvalidatedDraft, Zenon DEF E!AdvanceCrossedBoundary,
   EP!AdvanceCrossedBoundary, E!CrossedBoundary, EP!CrossedBoundary, E!Outlived,
   EP!Outlived, E!Update, EP!Update

LEMMA SameAdvanceRecurrence ==
  \A i, s : E!AdvanceRecurrence(i, s) <=> EP!AdvanceRecurrence(i, s)
BY SameEvaluated, Zenon DEF E!AdvanceRecurrence, EP!AdvanceRecurrence,
   E!StateOnRecurrence, EP!StateOnRecurrence, E!Update, EP!Update

LEMMA SameAdvanceRateExceeded ==
  \A i, s : E!AdvanceRateExceeded(i, s) <=> EP!AdvanceRateExceeded(i, s)
BY SameSettled, SameWithinRate, Zenon DEF E!AdvanceRateExceeded, EP!AdvanceRateExceeded,
   E!Update, EP!Update

LEMMA SameAdvanceBudgetExhausted ==
  \A i, s : E!AdvanceBudgetExhausted(i, s) <=> EP!AdvanceBudgetExhausted(i, s)
BY SameSettled, SameWithinRate, SameFailed, Zenon DEF E!AdvanceBudgetExhausted,
   EP!AdvanceBudgetExhausted, E!StateOnFailure, EP!StateOnFailure, E!Update, EP!Update

LEMMA SameAdvancePartial == \A i, s : E!AdvancePartial(i, s) <=> EP!AdvancePartial(i, s)
BY SameKind, SameAllowed, SamePartiallyApplied, SameCompletionsFull, Zenon DEF
   E!AdvancePartial, EP!AdvancePartial, E!Update, EP!Update

LEMMA SameAdvanceHistoryFull ==
  \A i, s : E!AdvanceHistoryFull(i, s) <=> EP!AdvanceHistoryFull(i, s)
<1> TAKE i, s
<1> DEFINE p == plans[i]
           h == EP!Closed(EP!Opened(p), "SUCCEEDED", s.tick)
<1>1. /\ E!Allowed(p, s) <=> EP!Allowed(p, s)
      /\ E!Verified(p, s) <=> EP!Verified(p, s)
      /\ E!HasRoom(p) <=> EP!HasRoom(p)
      /\ E!CompletionsFull(p) <=> EP!CompletionsFull(p)
      /\ E!Kind(p) = EP!Kind(p)
  BY SameAllowed, SameVerified, SameHasRoom, SameCompletionsFull, SameKind, Zenon
<1>2. E!Closed(E!Opened(p), "SUCCEEDED", s.tick) = h
  BY SameOpened, SameClosed, Zenon
<1>3. /\ E!Update(i, E!Failed(p)) <=> EP!Update(i, EP!Failed(p))
      /\ E!Update(i, E!Failed([p EXCEPT !.history = h]))
           <=> EP!Update(i, EP!Failed([p EXCEPT !.history = h]))
  BY SameUpdate, SameFailed, Zenon
<1>4. E!AdvanceHistoryFull(i, s) <=>
        \/ /\ EP!Allowed(p, s) /\ EP!Kind(p) = "COMPLETE" /\ s.verdict = "partial"
           /\ EP!CompletionsFull(p) /\ E!Update(i, E!Failed(p))
        \/ /\ EP!Verified(p, s) /\ ~EP!HasRoom(p) /\ E!Update(i, E!Failed(p))
        \/ /\ EP!Verified(p, s) /\ EP!HasRoom(p) /\ EP!Kind(p) = "COMPLETE"
           /\ EP!CompletionsFull(p) /\ E!Update(i, E!Failed([p EXCEPT !.history = h]))
  <2> HIDE DEF h
  <2> QED
    BY <1>1, <1>2, Zenon DEF E!AdvanceHistoryFull
<1>5. EP!AdvanceHistoryFull(i, s) <=>
        \/ /\ EP!Allowed(p, s) /\ EP!Kind(p) = "COMPLETE" /\ s.verdict = "partial"
           /\ EP!CompletionsFull(p) /\ EP!Update(i, EP!Failed(p))
        \/ /\ EP!Verified(p, s) /\ ~EP!HasRoom(p) /\ EP!Update(i, EP!Failed(p))
        \/ /\ EP!Verified(p, s) /\ EP!HasRoom(p) /\ EP!Kind(p) = "COMPLETE"
           /\ EP!CompletionsFull(p) /\ EP!Update(i, EP!Failed([p EXCEPT !.history = h]))
  BY Zenon DEF EP!AdvanceHistoryFull
<1> HIDE DEF p, h
<1> QED
  BY <1>3, <1>4, <1>5, Zenon

LEMMA SameAdvanceCommit == \A i, s : E!AdvanceCommit(i, s) <=> EP!AdvanceCommit(i, s)
BY SameKind, SameVerified, SameHasRoom, SameCommitted, SameCompletionsFull, Zenon DEF
   E!AdvanceCommit, EP!AdvanceCommit, E!Update, EP!Update

LEMMA SameAdvanceStage == \A i, s : E!AdvanceStage(i, s) <=> EP!AdvanceStage(i, s)
BY SameKind, SameVerified, SameHasRoom, SameClimbed, SameEntered, Zenon DEF
   E!AdvanceStage, EP!AdvanceStage, E!Update, EP!Update

LEMMA SameAdvanceExhausted ==
  \A i, s : E!AdvanceExhausted(i, s) <=> EP!AdvanceExhausted(i, s)
BY SameKind, SameVerified, SameHasRoom, SameFailed, SameClimbed, Zenon DEF
   E!AdvanceExhausted, EP!AdvanceExhausted, E!Update, EP!Update

LEMMA SameAdvanceWith == \A i, s : E!AdvanceWith(i, s) <=> EP!AdvanceWith(i, s)
BY SameCoherent, SameAdvanceStale, SameAdvanceOutlived, SameAdvanceCrossedBoundary,
   SameAdvanceRecurrence, SameAdvanceRateExceeded, SameAdvanceBudgetExhausted,
   SameAdvancePartial, SameAdvanceHistoryFull, SameAdvanceCommit, SameAdvanceStage,
   SameAdvanceExhausted, Zenon DEF E!AdvanceWith, EP!AdvanceWith

LEMMA SameRolledBack == \A p : E!RolledBack(p) = EP!RolledBack(p)
BY SameOpened, SameClosed, SameHasStage, Zenon DEF E!HasPending, EP!HasPending,
   E!HistoryFull, EP!HistoryFull, E!LastRecord, EP!LastRecord, E!PushTransition,
   EP!PushTransition, E!RolledBack, EP!RolledBack

LEMMA SameRevalidated == \A p : E!Revalidated(p) = EP!Revalidated(p)
BY SameOpened, SameKind, Zenon DEF E!Rebound, EP!Rebound, E!Revalidated, EP!Revalidated,
   E!StateForStage, EP!StateForStage

LEMMA SameCreatePlan == \A i : E!CreatePlan(i) <=> EP!CreatePlan(i)
BY Zenon DEF E!CreatePlan, EP!CreatePlan, E!NewPlan, EP!NewPlan, E!NoPlan, EP!NoPlan,
   E!StateForStage, EP!StateForStage, E!Update, EP!Update

LEMMA SameRequireRevalidation ==
  \A i : E!RequireRevalidation(i) <=> EP!RequireRevalidation(i)
BY SameInvalidated, Zenon DEF E!RequireRevalidation, EP!RequireRevalidation, E!Update,
   EP!Update

LEMMA SameResume == \A i : E!Resume(i) <=> EP!Resume(i)
BY SameKind, SameHasStage, Zenon DEF E!Resumable, EP!Resumable, E!Resume, EP!Resume,
   E!StateForStage, EP!StateForStage, E!Update, EP!Update

LEMMA SameRollback == \A i : E!Rollback(i) <=> EP!Rollback(i)
BY SameIsLive, SameRolledBack, Zenon DEF E!Rollback, EP!Rollback, E!RollbackAllowed,
   EP!RollbackAllowed, E!Update, EP!Update

LEMMA SameRevalidate == \A i : E!Revalidate(i) <=> EP!Revalidate(i)
BY SameHasStage, SameIsLive, SameRevalidated, Zenon DEF E!HistoryFull, EP!HistoryFull,
   E!Revalidatable, EP!Revalidatable, E!Revalidate, EP!Revalidate, E!Update, EP!Update

-----------------------------------------------------------------------------
(* The assumptions of RecoveryEngine hold of the instance.                 *)

LEMMA SameKinds == E!StageKinds = EP!StageKinds
BY Zenon DEF E!StageKinds, EP!StageKinds

LEMMA SameValidLadder == \A l : E!ValidLadder(l) <=> EP!ValidLadder(l)
BY SameKinds, Zenon DEF E!ValidLadder, EP!ValidLadder, E!KindRank, EP!KindRank

LEMMA SameImported == \A p, e : E!Imported(p, e) = EP!Imported(p, e)
BY SameIsLive, SameInvalidated, Zenon DEF E!Imported, EP!Imported

LEMMA SamePlans == E!Plans = EP!Plans /\ E!NoPlan = EP!NoPlan
BY Zenon DEF E!Plans, EP!Plans, E!NoPlan, EP!NoPlan, E!RecoveryStates, EP!RecoveryStates,
   E!LiveStates, EP!LiveStates, E!StageStates, EP!StageStates, E!TerminalStates,
   EP!TerminalStates, E!StageRecords, EP!StageRecords, E!CompletionKeys, EP!CompletionKeys,
   E!CompletionRecords, EP!CompletionRecords

LEMMA LadderHolds == EP!LadderAssumption
<1>1. EP!ValidLadder(Rungs) /\ Rungs \in Seq(EP!StageKinds)
  BY PolicyIsValid, SameValidLadder DEF EP!ValidLadder
<1>2. <<Rungs>> \in Seq(Seq(EP!StageKinds)) /\ Len(<<Rungs>>) = 1 /\ <<Rungs>>[1] = Rungs
  BY <1>1
<1> QED
  BY <1>1, <1>2 DEF EP!LadderAssumption, EP!PolicyGens

LEMMA PolicyHolds == EP!PolicyAssumption
<1>1. EP!PolicyGens = {1}
  BY DEF EP!PolicyGens
<1>2. <<"ROLLBACK">> \in [{1} -> {"ROLLBACK", "PAUSE", "FAIL"}]
  OBVIOUS
<1> QED
  BY <1>1, <1>2
     DEF EP!PolicyAssumption, WindowTicks, LifetimeTicks, BoundaryTicks

LEMMA LimitHolds == EP!LimitAssumption
BY SessionAssumption DEF EP!LimitAssumption, Unreached

-----------------------------------------------------------------------------
(* What the engine's calls do to the plan.                                 *)

EngineTyped == EP!TypeOK

LEMMA EngineFacts ==
  ASSUME EngineTyped
  PROVE  /\ epoch \in Nat /\ now \in Nat
         /\ plans \in [{1} -> EP!Plans] /\ Plan \in EP!Plans
         /\ Plan.generation \in Nat /\ Plan.attempt \in Nat /\ Plan.index \in Nat
         /\ Plan.totalAttempts \in Nat /\ Plan.stageGen \in Nat
<1>1. epoch \in Nat /\ now \in Nat /\ plans \in [{1} -> EP!Plans]
  BY DEF EngineTyped, EP!TypeOK
<1>2. Plan \in EP!Plans
  BY <1>1 DEF Plan
<1> QED
  BY <1>1, <1>2 DEF EP!Plans

\* The snapshot the coordinator makes of an answer is one of the engine's.
LEMMA SnapshotType ==
  ASSUME EngineTyped, NEW f
  PROVE  SnapshotOf(f) \in EP!Snapshots
<1>1. now \in Nat /\ now \in 0..now
  BY EngineFacts
<1>2. "current" \in EP!Bindings /\ "good" \in EP!Verdicts /\ "recurrence" \in EP!Verdicts
  BY DEF EP!Bindings, EP!Verdicts
<1>3. (IF f.cleared THEN "good" ELSE "recurrence") \in EP!Verdicts
  BY <1>2, Zenon
<1> QED
  BY <1>1, <1>2, <1>3 DEF SnapshotOf, EP!Snapshots

\* A call of the session that changes the plan.
EngineCall ==
  \/ E!CreatePlan(1) \/ E!RequireRevalidation(1) \/ E!Resume(1)
  \/ E!Rollback(1) \/ E!Revalidate(1)
  \/ \E f : E!AdvanceWith(1, SnapshotOf(f))

LEMMA EngineCallType ==
  ASSUME EngineTyped, EngineCall
  PROVE  EngineTyped'
<1>1. EP!PlanNext(1)
  <2>1. CASE \E f : E!AdvanceWith(1, SnapshotOf(f))
    <3>1. PICK f : E!AdvanceWith(1, SnapshotOf(f))
      BY <2>1
    <3>2. EP!AdvanceWith(1, SnapshotOf(f))
      BY <3>1, SameAdvanceWith
    <3>3. EP!IsLive(plans[1]) /\ EP!HasStage(plans[1])
      BY <3>2, Zenon DEF EP!AdvanceWith, EP!AdvanceStale, EP!Coherent
    <3>4. SnapshotOf(f) \in EP!Snapshots
      BY SnapshotType
    <3> QED
      BY <3>2, <3>3, <3>4, Zenon DEF EP!Advance, EP!PlanNext
  <2>2. CASE ~\E f : E!AdvanceWith(1, SnapshotOf(f))
    BY <2>2, SameCreatePlan, SameRequireRevalidation, SameResume, SameRollback,
       SameRevalidate, Zenon DEF EngineCall, EP!PlanNext
  <2> QED
    BY <2>1, <2>2
<1>2. 1 \in {1}
  OBVIOUS
<1> QED
  BY <1>1, <1>2, LadderHolds, PolicyHolds, LimitHolds, EP!PlanStepType DEF EngineTyped

\* Only the plan is changed.
LEMMA EngineCallKeeps ==
  ASSUME EngineCall
  PROVE  epoch' = epoch /\ now' = now
BY DEF EngineCall, E!CreatePlan, E!RequireRevalidation, E!Resume, E!Rollback, E!Revalidate,
   E!AdvanceWith, E!AdvanceStale, E!AdvanceOutlived, E!AdvanceCrossedBoundary,
   E!AdvanceRecurrence, E!AdvanceRateExceeded, E!AdvanceBudgetExhausted, E!AdvancePartial,
   E!AdvanceHistoryFull, E!AdvanceCommit, E!AdvanceStage, E!AdvanceExhausted, E!Update

LEMMA UpdatedPlan ==
  ASSUME EngineTyped, NEW q, E!Update(1, q)
  PROVE  Plan' = q
BY EngineFacts DEF E!Update, Plan

\* A plan never has more attempts or more stage generations than it used attempts.
Sane(p) == p.attempt <= p.totalAttempts /\ p.stageGen <= p.totalAttempts

\* The plan stays on its rung and keeps its attempt.
Stays(p, q) ==
  /\ q.generation = p.generation /\ q.index = p.index /\ q.attempt = p.attempt
  /\ q.totalAttempts >= p.totalAttempts /\ q.stageGen = p.stageGen
  /\ q.state = "COMPLETED" => p.state = "COMPLETED"

\* The plan enters the next rung, with an attempt of its own.
Climbs(p, q) ==
  /\ q.generation = p.generation /\ q.index = p.index + 1
  /\ q.attempt = p.totalAttempts + 1 /\ q.totalAttempts = p.totalAttempts + 1
  /\ q.stageGen = p.stageGen + 1
  /\ p.state # "COMPLETED" /\ q.state # "COMPLETED"
  /\ p.index < Len(Rungs)

\* The plan leaves its last rung.
Completes(p, q) ==
  /\ q.generation = p.generation /\ q.index = p.index /\ q.attempt = p.attempt
  /\ q.totalAttempts = p.totalAttempts /\ q.stageGen = p.stageGen
  /\ p.state # "COMPLETED" /\ q.state = "COMPLETED"
  /\ p.index < Len(Rungs)

\* A new generation of the plan, with an attempt of its own.
Renews(p, q) ==
  /\ q.generation = p.generation + 1 /\ q.index = p.index
  /\ q.attempt = p.totalAttempts + 1 /\ q.totalAttempts = p.totalAttempts + 1
  /\ q.stageGen = p.stageGen + 1
  /\ p.state # "COMPLETED" /\ q.state # "COMPLETED"

LEMMA NotCompleted ==
  ASSUME NEW p, E!IsLive(p)
  PROVE  p.state # "COMPLETED"
BY DEF E!IsLive, E!LiveStates, E!StageStates

LEMMA FailedStays ==
  ASSUME NEW p \in EP!Plans
  PROVE  /\ Stays(p, E!Failed(p))
         /\ Stays(p, E!Invalidated(p)) /\ Stays(p, E!InvalidatedDraft(p))
<1>1. p.totalAttempts \in Nat
  BY DEF EP!Plans
<1>2. Stays(p, p)
  BY <1>1 DEF Stays
<1>3. Stays(p, E!Failed(p))
  BY <1>1 DEF Stays, E!Failed, EP!Plans
<1>4. ASSUME NEW cap PROVE Stays(p, E!Flagged(p, cap))
  BY <1>1 DEF Stays, E!Flagged, EP!Plans
<1> QED
  BY <1>2, <1>3, <1>4 DEF E!Invalidated, E!InvalidatedDraft

LEMMA StateStays ==
  ASSUME NEW p \in EP!Plans, NEW s, s # "COMPLETED"
  PROVE  Stays(p, [p EXCEPT !.state = s])
BY DEF Stays, EP!Plans

LEMMA StageStateNot ==
  ASSUME NEW p \in EP!Plans, E!HasStage(p)
  PROVE  E!StateForStage[E!Kind(p)] # "COMPLETED"
<1>1. EP!StateForStage[EP!Kind(p)] \in EP!StageStates
  <2>1. 1 \in EP!PolicyGens
    BY DEF EP!PolicyGens
  <2> QED
    BY <2>1, SameHasStage, LadderHolds, PolicyHolds, LimitHolds, EP!KindType
<1>2. E!StateForStage = EP!StateForStage
  BY Zenon DEF E!StateForStage, EP!StateForStage
<1> QED
  BY <1>1, <1>2, SameKind DEF EP!StageStates

LEMMA AdvanceEffect ==
  ASSUME EngineTyped, Sane(Plan), NEW s \in EP!Snapshots, E!AdvanceWith(1, s)
  PROVE  /\ E!IsLive(Plan)
         /\ Stays(Plan, Plan') \/ Climbs(Plan, Plan') \/ Completes(Plan, Plan')
<1> DEFINE p == Plan
<1>1. p \in EP!Plans /\ p = plans[1] /\ p.totalAttempts \in Nat /\ p.stageGen \in Nat
      /\ p.index \in Nat
  BY EngineFacts DEF Plan
<1>2. E!IsLive(p) /\ E!HasStage(p)
  BY <1>1, Zenon DEF E!AdvanceWith, E!AdvanceStale, E!Coherent
<1>3. p.state # "COMPLETED"
  BY <1>2, NotCompleted
<1>4. p.index < Len(Rungs)
  BY <1>2 DEF E!HasStage
<1> SUFFICES Stays(p, Plan') \/ Climbs(p, Plan') \/ Completes(p, Plan')
  BY <1>2, Zenon
<1>5. CASE E!AdvanceStale(1, s) \/ E!AdvanceOutlived(1, s) \/ E!AdvanceCrossedBoundary(1, s)
  <2>1. E!Update(1, E!InvalidatedDraft(p)) \/ E!Update(1, E!Failed(p))
    BY <1>1, <1>5, Zenon DEF E!AdvanceStale, E!AdvanceOutlived, E!AdvanceCrossedBoundary
  <2> QED
    BY <1>1, <2>1, UpdatedPlan, FailedStays
<1>6. CASE \/ E!AdvanceRecurrence(1, s) \/ E!AdvanceRateExceeded(1, s)
           \/ E!AdvanceBudgetExhausted(1, s)
  <2>1. E!StateOnRecurrence # "COMPLETED" /\ E!StateOnFailure # "COMPLETED"
    BY DEF E!StateOnRecurrence, E!StateOnFailure
  <2>2. PICK st : st # "COMPLETED" /\ E!Update(1, [p EXCEPT !.state = st])
    <3>1. "FAILED" # "COMPLETED" /\ "PAUSED" # "COMPLETED"
      OBVIOUS
    <3> QED
      BY <1>1, <1>6, <2>1, <3>1, Zenon DEF E!AdvanceRecurrence, E!AdvanceRateExceeded,
         E!AdvanceBudgetExhausted, E!Failed
  <2> QED
    BY <1>1, <2>2, UpdatedPlan, StateStays
<1>7. CASE E!AdvancePartial(1, s)
  <2> DEFINE c == Append(p.completions, [key |-> E!CompletionKey(p, s.gen), state |-> "FAILED"])
             a == p.attemptsInStage + 1
             n == p.totalAttempts + 1
             st == "ROLLING_BACK"
             q == [p EXCEPT !.completions = c, !.attemptsInStage = a, !.totalAttempts = n,
                            !.state = st]
  <2>1. E!Update(1, E!PartiallyApplied(p, s)) /\ E!PartiallyApplied(p, s) = q
    BY <1>1, <1>7 DEF E!AdvancePartial, E!PartiallyApplied
  <2>2. Stays(p, q)
    <3>1. n >= p.totalAttempts /\ st # "COMPLETED"
      BY <1>1
    <3> HIDE DEF c, a, n, st
    <3> QED
      BY <1>1, <3>1 DEF Stays, EP!Plans
  <2> QED
    BY <2>1, <2>2, UpdatedPlan
<1>8. CASE E!AdvanceHistoryFull(1, s)
  <2> DEFINE h == E!Closed(E!Opened(p), "SUCCEEDED", s.tick)
  <2>1. E!Update(1, E!Failed(p)) \/ E!Update(1, E!Failed([p EXCEPT !.history = h]))
    BY <1>1, <1>8, Zenon DEF E!AdvanceHistoryFull
  <2> HIDE DEF h
  <2>2. Stays(p, E!Failed([p EXCEPT !.history = h]))
    <3> DEFINE q == E!Failed([p EXCEPT !.history = h])
    <3>1. /\ q.generation = p.generation /\ q.index = p.index /\ q.attempt = p.attempt
          /\ q.totalAttempts = p.totalAttempts /\ q.stageGen = p.stageGen
          /\ q.state = "FAILED"
      BY <1>1, Zenon DEF E!Failed, EP!Plans
    <3> HIDE DEF q
    <3>2. q.totalAttempts >= p.totalAttempts /\ q.state # "COMPLETED"
      BY <1>1, <3>1
    <3>3. Stays(p, q)
      BY <3>1, <3>2, Zenon DEF Stays
    <3> QED
      BY <3>3 DEF q
  <2> QED
    BY <1>1, <2>1, <2>2, UpdatedPlan, FailedStays
<1>9. CASE E!AdvanceCommit(1, s)
  <2> DEFINE h == E!Closed(E!Opened(p), "SUCCEEDED", s.tick)
             c == Append(p.completions, [key |-> E!CompletionKey(p, s.gen), state |-> "COMMITTED"])
             tr == E!PushTransition(p.transitions, s.tick)
             q == [p EXCEPT !.history = h, !.completions = c, !.state = "COMPLETED",
                            !.updated = s.tick, !.transitions = tr]
  <2>1. E!Update(1, E!Committed(p, s)) /\ E!Kind(p) = "COMPLETE"
    BY <1>1, <1>9 DEF E!AdvanceCommit
  <2>2. E!Committed(p, s) = q
    BY <1>1 DEF E!Committed, EP!Plans
  <2> HIDE DEF h, c, tr
  <2>3. Completes(p, q)
    BY <1>1, <1>3, <1>4 DEF Completes, EP!Plans
  <2> QED
    BY <2>1, <2>2, <2>3, UpdatedPlan
<1>10. E!AdvanceStage(1, s) \/ E!AdvanceExhausted(1, s) => p.totalAttempts < 32
  BY <1>1, Zenon DEF E!AdvanceStage, E!AdvanceExhausted, E!Verified, E!Allowed
<1>11. ~E!AdvanceExhausted(1, s)
  <2>1. E!AdvanceExhausted(1, s) => p.stageGen >= Unreached
    BY <1>1, Zenon DEF E!AdvanceExhausted
  <2> QED
    BY <1>1, <1>10, <2>1 DEF Sane, Unreached
<1>12. CASE E!AdvanceStage(1, s)
  <2> DEFINE h == E!Closed(E!Opened(p), "SUCCEEDED", s.tick)
             c == E!Climbed(p, s)
             st == E!StateForStage[E!Kind(c)]
             tr == E!PushTransition(c.transitions, s.tick)
             r == [c EXCEPT !.stageGen = @ + 1, !.attempt = c.totalAttempts + 1,
                            !.totalAttempts = @ + 1, !.attemptsInStage = 1,
                            !.state = st, !.updated = s.tick, !.transitions = tr]
             o == E!Opened(r)
             q == [r EXCEPT !.history = o]
  <2>1. E!Update(1, E!Entered(c, s)) /\ E!Kind(p) # "COMPLETE"
    BY <1>1, <1>12 DEF E!AdvanceStage
  <2>2. E!Entered(c, s) = q
    <3>1. c \in EP!Plans
      <4>1. EP!Climbed(p, s) \in EP!Plans
        BY <1>1, LadderHolds, PolicyHolds, LimitHolds, EP!ClimbedType DEF EngineTyped
      <4> QED
        BY <4>1, SameClimbed
    <3> HIDE DEF c
    <3>2. r.transitions = tr /\ E!PushTransition(c.transitions, s.tick) = tr
      BY <3>1 DEF EP!Plans
    <3> QED
      BY <3>1 DEF E!Entered, EP!Plans
  <2>3. E!HasStage(c) /\ c \in EP!Plans
    <3>1. EP!HasStage(EP!Climbed(p, s)) /\ EP!Climbed(p, s) \in EP!Plans
      <4>1. EP!HasStage(p) /\ EP!Kind(p) # "COMPLETE"
        BY <1>2, <2>1, SameHasStage, SameKind
      <4> QED
        BY <1>1, <4>1, LadderHolds, PolicyHolds, LimitHolds, EP!NextRung, EP!ClimbedType
           DEF EngineTyped
    <3> QED
      BY <3>1, SameClimbed, SameHasStage
  <2>4. /\ c.index = p.index + 1 /\ c.generation = p.generation
        /\ c.totalAttempts = p.totalAttempts /\ c.stageGen = p.stageGen
    BY <1>1 DEF E!Climbed, EP!Plans
  <2>5. st # "COMPLETED"
    BY <2>3, StageStateNot
  <2> HIDE DEF h, c, st, tr
  <2>6. Climbs(p, r)
    BY <1>1, <1>3, <1>4, <2>3, <2>4, <2>5 DEF Climbs, EP!Plans
  <2>7. DOMAIN r = DOMAIN c
    OBVIOUS
  <2> HIDE DEF o
  <2>8. Climbs(p, q)
    <3>1. /\ q.generation = r.generation /\ q.index = r.index /\ q.attempt = r.attempt
          /\ q.totalAttempts = r.totalAttempts /\ q.stageGen = r.stageGen
          /\ q.state = r.state
      BY <2>3 DEF EP!Plans
    <3> HIDE DEF q, r
    <3> QED
      BY <2>6, <3>1 DEF Climbs
  <2> QED
    BY <2>1, <2>2, <2>8, UpdatedPlan
<1> QED
  BY <1>1, <1>5, <1>6, <1>7, <1>8, <1>9, <1>11, <1>12, Zenon
     DEF E!AdvanceWith

LEMMA CreateEffect ==
  ASSUME EngineTyped, E!CreatePlan(1)
  PROVE  /\ Plan'.generation = 1 /\ Plan'.index = 0 /\ Plan'.attempt = 1
         /\ Plan'.totalAttempts = 1 /\ Plan'.stageGen = 1 /\ Plan'.state # "COMPLETED"
         /\ Plan.state = "ABSENT"
<1> DEFINE st == E!StateForStage[<<Rungs>>[1][1]]
           h == <<[index |-> 0, generation |-> 1, attempt |-> 1,
                   outcome |-> "PENDING", exited |-> 0]>>
<1>1. E!Update(1, E!NewPlan) /\ Plan.state = "ABSENT"
  BY DEF E!CreatePlan, Plan
<1>2. st # "COMPLETED"
  BY PolicyIsValid DEF E!ValidLadder, E!StateForStage
<1>3. E!NewPlan = [E!NoPlan EXCEPT !.state = st, !.epoch = epoch,
                 !.policyGen = 1, !.generation = 1, !.stageGen = 1,
                 !.attempt = 1, !.totalAttempts = 1, !.attemptsInStage = 1,
                 !.created = now, !.updated = now, !.history = h]
  BY DEF E!NewPlan
<1>4. Plan' = E!NewPlan
  BY <1>1, UpdatedPlan
<1> DEFINE q == Plan'
<1> SUFFICES /\ q.generation = 1 /\ q.index = 0 /\ q.attempt = 1
             /\ q.totalAttempts = 1 /\ q.stageGen = 1 /\ q.state # "COMPLETED"
  BY <1>1
<1>5. q = E!NewPlan
  BY <1>4
<1> HIDE DEF st, h, q
<1> QED
  BY <1>2, <1>3, <1>5 DEF E!NoPlan

LEMMA RequireEffect ==
  ASSUME EngineTyped, E!RequireRevalidation(1)
  PROVE  Stays(Plan, Plan')
<1> DEFINE q == E!Invalidated(Plan)
<1>1. q \in EP!Plans
  BY EngineFacts, SameInvalidated, LadderHolds, PolicyHolds, LimitHolds, EP!InvalidatedType
<1>2. Stays(Plan, q)
  BY EngineFacts, FailedStays
<1>3. E!Update(1, [q EXCEPT !.attemptsInStage = 0])
  BY DEF E!RequireRevalidation, Plan
<1> HIDE DEF q
<1>4. Stays(Plan, [q EXCEPT !.attemptsInStage = 0])
  BY <1>1, <1>2 DEF Stays, EP!Plans
<1> QED
  BY <1>3, <1>4, UpdatedPlan

LEMMA ResumeEffect ==
  ASSUME EngineTyped, E!Resume(1)
  PROVE  Stays(Plan, Plan')
<1> DEFINE st == E!StateForStage[E!Kind(Plan)]
<1>1. E!HasStage(Plan) /\ E!Update(1, [Plan EXCEPT !.state = st, !.attemptsInStage = 0, !.updated = now])
  BY DEF E!Resume, E!Resumable, Plan
<1>2. st # "COMPLETED" /\ Plan \in EP!Plans /\ Plan.totalAttempts \in Nat
  BY <1>1, EngineFacts, StageStateNot
<1> HIDE DEF st
<1>3. Stays(Plan, [Plan EXCEPT !.state = st, !.attemptsInStage = 0, !.updated = now])
  BY <1>2 DEF Stays, EP!Plans
<1> QED
  BY <1>1, <1>3, UpdatedPlan

LEMMA RollbackEffect ==
  ASSUME EngineTyped, E!Rollback(1)
  PROVE  Stays(Plan, Plan')
<1> DEFINE p == Plan
           st == IF Len(p.rollbacks) + 1 >= 3 THEN "FAILED" ELSE "ROLLED_BACK"
           h == IF E!HasStage(p) /\ (E!HasPending(p) \/ ~E!HistoryFull(p))
                THEN E!Closed(E!Opened(p), "ROLLED_BACK", now) ELSE p.history
           rs == Append(p.rollbacks, now)
           until == now + 5
           tr == E!PushTransition(p.transitions, now)
           q == [p EXCEPT !.state = st, !.history = h, !.rollbacks = rs, !.updated = now,
                          !.attemptsInStage = 0, !.cooldownUntil = until,
                          !.transitions = tr]
<1>1. E!Update(1, E!RolledBack(p))
  BY DEF E!Rollback, Plan
<1>2. p \in EP!Plans /\ p.totalAttempts \in Nat
  BY EngineFacts
<1>3. E!RolledBack(p) = q
  BY <1>2 DEF E!RolledBack, EP!Plans
<1>4. st # "COMPLETED"
  OBVIOUS
<1> HIDE DEF st, h, rs, until, tr
<1>5. Stays(p, q)
  BY <1>2, <1>4 DEF Stays, EP!Plans
<1> QED
  BY <1>1, <1>3, <1>5, UpdatedPlan

LEMMA RevalidateEffect ==
  ASSUME EngineTyped, E!Revalidate(1)
  PROVE  Renews(Plan, Plan')
<1> DEFINE p == Plan
           b == E!Rebound(p)
           st == E!StateForStage[E!Kind(p)]
           r == [b EXCEPT !.generation = b.generation + 1, !.stageGen = b.stageGen + 1,
                          !.attempt = p.totalAttempts + 1,
                          !.totalAttempts = b.totalAttempts + 1, !.state = st]
           o == E!Opened(r)
<1>1. /\ E!Update(1, E!Revalidated(p)) /\ E!HasStage(p) /\ E!IsLive(p)
  BY DEF E!Revalidate, E!Revalidatable, Plan
<1>2. p \in EP!Plans /\ p.totalAttempts \in Nat /\ p.state # "COMPLETED" /\ st # "COMPLETED"
  BY <1>1, EngineFacts, NotCompleted, StageStateNot
<1>3. E!Revalidated(p) = [r EXCEPT !.history = o]
  <2>1. b.generation = p.generation
    BY <1>2 DEF E!Rebound, EP!Plans
  <2> QED
    BY DEF E!Revalidated
<1>4. /\ b \in EP!Plans /\ b.generation = p.generation /\ b.index = p.index
      /\ b.totalAttempts = p.totalAttempts /\ b.stageGen = p.stageGen
  <2>1. EP!Rebound(p) \in EP!Plans
    BY <1>2, LadderHolds, PolicyHolds, LimitHolds, EP!ReboundType DEF EngineTyped
  <2>2. b = EP!Rebound(p)
    BY DEF E!Rebound, EP!Rebound
  <2> QED
    BY <1>2, <2>1, <2>2 DEF E!Rebound, EP!Plans
<1> HIDE DEF b, st
<1>5. Renews(p, r)
  BY <1>2, <1>4 DEF Renews, EP!Plans
<1>6. /\ [r EXCEPT !.history = o].generation = r.generation
      /\ [r EXCEPT !.history = o].index = r.index
      /\ [r EXCEPT !.history = o].attempt = r.attempt
      /\ [r EXCEPT !.history = o].totalAttempts = r.totalAttempts
      /\ [r EXCEPT !.history = o].stageGen = r.stageGen
      /\ [r EXCEPT !.history = o].state = r.state
  <2> HIDE DEF o
  <2> QED
    BY <1>4 DEF EP!Plans
<1> HIDE DEF r
<1>7. Renews(p, [r EXCEPT !.history = o])
  BY <1>5, <1>6 DEF Renews
<1> QED
  BY <1>1, <1>3, <1>7, UpdatedPlan

LEMMA ImportEffect ==
  ASSUME NEW p \in EP!Plans, NEW e \in Nat
  PROVE  Stays(p, E!Imported(p, e)) /\ E!Imported(p, e) \in EP!Plans
<1> DEFINE q == E!Invalidated(p)
           n == IF E!IsLive(p) THEN 1 ELSE q.notes
<1>1. q \in EP!Plans
  BY SameInvalidated, LadderHolds, PolicyHolds, LimitHolds, EP!InvalidatedType
<1>2. E!Imported(p, e) \in EP!Plans
  BY SameImported, LadderHolds, PolicyHolds, LimitHolds, EP!ImportedType
<1>3. E!Imported(p, e) = IF p.state = "ABSENT" THEN p ELSE [q EXCEPT !.epoch = e, !.notes = n]
  BY <1>1 DEF E!Imported, EP!Plans
<1>4. Stays(p, q) /\ Stays(p, p)
  <2>1. p.totalAttempts \in Nat
    BY DEF EP!Plans
  <2> QED
    BY <2>1, FailedStays DEF Stays
<1> HIDE DEF q, n
<1>5. Stays(p, [q EXCEPT !.epoch = e, !.notes = n])
  BY <1>1, <1>4 DEF Stays, EP!Plans
<1> QED
  BY <1>2, <1>3, <1>4, <1>5

\* Whatever a call does to the plan, it stays sane.
LEMMA SaneKept ==
  ASSUME NEW p \in EP!Plans, NEW q, Sane(p),
         Stays(p, q) \/ Climbs(p, q) \/ Completes(p, q) \/ Renews(p, q),
         q.totalAttempts \in Nat
  PROVE  Sane(q)
<1>1. p.totalAttempts \in Nat /\ p.stageGen \in Nat /\ p.attempt \in Nat
  BY DEF EP!Plans
<1> QED
  BY <1>1 DEF Sane, Stays, Climbs, Completes, Renews

-----------------------------------------------------------------------------
Driving == {"loop", "report", "evidence", "save", "rollback", "saveRollback", "resume"}

Equipped ==
  \/ at \in Driving \cup {"revalidate"}
  \/ at \in {"accept", "stale"} /\ waitFor = "replacement"
  \/ at \in {"accept", "stale"} /\ waitFor = "extra" /\ scenario # "restart-part2"

Signals == [kind : {"HELLO", "HELLO_ACK", "ERROR_MSG", "GOODBYE"}]
StageGrants ==
  [kind : {"STAGE_GRANT"}, epoch : Nat, boot : Nat, generation : Nat, attempt : Nat]
Requests ==
  [kind : {"EVIDENCE_REQUEST"}, epoch : Nat, boot : Nat, tick : Nat, recurrence : BOOLEAN]
Reports ==
  [kind : {"STAGE_REPORT"}, epoch : Nat, boot : Nat, generation : Nat, attempt : Nat]
Evidence == [kind : {"EVIDENCE_PUBLISH"}, epoch : Nat, tick : Nat, cleared : BOOLEAN]
Frames == Signals \cup StageGrants \cup Requests \cup Reports \cup Evidence
Links == [coordinator : Ends, worker : Ends, down : Seq(Frames), up : Seq(Frames)]

\* Links, processes and recorded reports have their types.
LinksTyped ==
  /\ link \in [Processes -> Links] /\ proc \in [Processes -> ProcStates]
  /\ recorded \in [Processes -> Reports \cup {NotRecorded}]
  /\ \A p \in Processes :
       RoleOf[p] = "replay" /\ proc[p] # "new" => recorded[Source[p]] \in Reports

ControlTyped ==
  /\ at \in Active \cup {"down", "done"} /\ waitFor \in {"workers", "extra", "replacement"}
  /\ backlog \in Seq(Processes) /\ conn \in Seq(Processes) /\ peers \in Seq(PeerRecords)
  /\ turn \in 0..LoopGuard /\ outcome \in {"none", "OK", "FAILED"}
  /\ recurring \in BOOLEAN
  /\ granted \subseteq Grants /\ runs \in Nat
  /\ at = "stale" => Len(conn) = 1 /\ waitFor # "replacement"
  /\ runs = 0 => at = "down" /\ granted = {}
  /\ at \in Active /\ scenario # "restart-part2" => runs = 1
  /\ Equipped => applier \in DOMAIN peers /\ observer \in DOMAIN peers

DurableTyped ==
  /\ disk.epoch \in Nat /\ disk.plan \in EP!Plans
  /\ Sane(Plan) /\ Sane(disk.plan)

SessionTyped == EngineTyped /\ DurableTyped /\ LinksTyped /\ ControlTyped

HoldersInv ==
  /\ \A g \in granted : g[1] <= Plan.generation
  /\ \A g, h \in granted : g[1] = h[1] => g[3] = h[3]
  /\ at \in Driving => \A g \in granted : g[1] = Plan.generation => g[3] = Peer(applier)
  /\ at = "begin" => granted = {}
  /\ at \in {"accept", "stale"} /\ waitFor = "workers" => granted = {}
  /\ at = "enter" => \A g \in granted : g[1] < Plan.generation
  /\ at \in {"accept", "stale"} /\ waitFor = "extra" =>
       \A g \in granted : g[1] < Plan.generation

Question(f) == f.kind \in {"STAGE_GRANT", "EVIDENCE_REQUEST"}
HelloFrame == [kind |-> "HELLO"]

NoneAsked(l) == \A i \in DOMAIN l.down : ~Question(l.down[i])

SoundLink(l, s, role) ==
  /\ s = "new" => l = NoLink
  /\ s \in Running <=> l.worker = "open"
  /\ l.coordinator # "open" => l.up = <<>>
  /\ l.worker # "open" => l.down = <<>>
  /\ Len(l.up) <= 1
  /\ l.coordinator = "open" =>
       /\ \A i \in DOMAIN l.down : Question(l.down[i]) => i = Len(l.down) /\ l.up = <<>>
       /\ role = "replay" =>
            /\ NoneAsked(l)
            /\ s = "greeting" /\ l.down # <<>> => l.up = <<>>
SoundLinks == \A p \in Processes : SoundLink(link[p], proc[p], RoleOf[p])

NotHello(l) == l.up # <<HelloFrame>>

QueuedLink(l, s) ==
  /\ l.coordinator = "open" /\ l.up = <<HelloFrame>> /\ l.down = <<>>
  /\ s \in {"greeting", "ended", "killed"}

\* waiting
Queued ==
  at \in Active =>
    /\ \A i, j \in DOMAIN backlog : backlog[i] = backlog[j] => i = j
    /\ \A i \in DOMAIN backlog : QueuedLink(link[backlog[i]], proc[backlog[i]])

Unheard ==
  /\ at = "stale" =>
       /\ link[conn[1]].coordinator = "open"
       /\ NotHello(link[conn[1]])
       /\ NoneAsked(link[conn[1]])
       /\ \A k \in DOMAIN peers : Peer(k) # conn[1]
  /\ at \notin Active => \A p \in Processes : link[p].coordinator # "open"

Calm(l) == l.coordinator = "open" => l.up = <<>> /\ NoneAsked(l)

PeersKnown ==
  at \in Active => \A k \in DOMAIN peers :
    /\ peers[k].worker = WorkerOf[Peer(k)] /\ peers[k].boot = BootOf[Peer(k)]
    /\ \A m \in DOMAIN peers : peers[m].worker = peers[k].worker => m = k
    /\ peers[k].role # "replay" => RoleOf[Peer(k)] # "replay"
    /\ peers[k].registered => link[Peer(k)].coordinator = "open"
    /\ NotHello(link[Peer(k)]) /\ proc[Peer(k)] # "new"

Expected(p) ==
  \/ at = "report" /\ p = Peer(applier)
  \/ at = "evidence" /\ p = Peer(observer)

PeersCalm ==
  at \in Active \ {"finish"} => \A k \in DOMAIN peers :
    RoleOf[Peer(k)] # "replay" /\ ~Expected(Peer(k)) => Calm(link[Peer(k)])

Served ==
  \/ at \in Driving
  \/ at \in {"accept", "stale"} /\ waitFor = "extra" /\ scenario # "restart-part2"

NoReplays ==
  /\ Equipped => RoleOf[Peer(observer)] # "replay"
  /\ Served => RoleOf[Peer(applier)] # "replay" /\ peers[applier].registered

\* an answer is awaited
Answering(l, q, a) ==
  l.coordinator = "open" =>
  \/ l.up = <<>> /\ \A i \in DOMAIN l.down : Question(l.down[i]) => l.down[i] = q
  \/ l.up = <<a>> /\ NoneAsked(l)

Request ==
  [kind |-> "EVIDENCE_REQUEST", epoch |-> epoch, boot |-> peers[observer].boot,
   tick |-> now, recurrence |-> recurring]
EvidenceOf(r) ==
  [kind |-> "EVIDENCE_PUBLISH", epoch |-> r.epoch, tick |-> r.tick, cleared |-> ~r.recurrence]

Asked ==
  /\ at = "report" =>
       Answering(link[Peer(applier)], GrantOf(applier), ReportOf(GrantOf(applier)))
  /\ at = "evidence" =>
       Answering(link[Peer(observer)], Request, EvidenceOf(Request))

GrantsKnown ==
  /\ \A p \in Processes : \A i \in DOMAIN link[p].down :
       link[p].down[i].kind = "STAGE_GRANT" => \E g \in granted : g[3] = p
  /\ runs <= 1 => \A p \in Processes :
       recorded[p] # NotRecorded => \E g \in granted : g[3] = p
  /\ at \in Active => \A g \in granted : \E k \in DOMAIN peers :
       peers[k].worker = WorkerOf[g[3]] /\ peers[k].boot >= BootOf[g[3]]

-----------------------------------------------------------------------------
(* Lemmas about what the actions share.                                    *)

LEMMA LeastNatural ==
  ASSUME NEW S, S \subseteq Nat, S # {}
  PROVE  \E x \in S : \A y \in S : x <= y
<1> DEFINE R == OpToRel(<, Nat)
<1>1. ASSUME NEW x \in Nat, NEW y \in Nat, y < x PROVE <<y, x>> \in R
  BY <1>1, Zenon DEF OpToRel
<1>2. \E x \in S : \A y \in S : ~(<<y, x>> \in R)
  <2>1. IsWellFoundedOn(R, Nat)
    BY NatLessThanWellFounded
  <2> HIDE DEF R
  <2> QED
    BY <2>1, WFMin
<1> HIDE DEF R
<1>3. PICK x \in S : \A y \in S : ~(<<y, x>> \in R)
  BY <1>2
<1>4. ASSUME NEW y \in S PROVE x <= y
  <2>1. x \in Nat /\ y \in Nat /\ ~(y < x)
    BY <1>1, <1>3
  <2> QED
    BY <2>1
<1> QED
  BY <1>4

\* FindPeer returns a registered peer of the role, if there is one.
LEMMA FoundPeer ==
  ASSUME peers \in Seq(PeerRecords), NEW role, FindPeer(role) # 0
  PROVE  /\ FindPeer(role) \in DOMAIN peers
         /\ peers[FindPeer(role)].role = role /\ peers[FindPeer(role)].registered
<1> DEFINE S == {k \in DOMAIN peers : peers[k].role = role /\ peers[k].registered}
<1>1. S # {} /\ FindPeer(role) = CHOOSE k \in S : \A m \in S : k <= m
  BY DEF FindPeer
<1>2. S \subseteq Nat
  OBVIOUS
<1> HIDE DEF S
<1>3. \E k \in S : \A m \in S : k <= m
  BY <1>1, <1>2, LeastNatural
<1>4. FindPeer(role) \in S
  BY <1>1, <1>3
<1> QED
  BY <1>4 DEF S

\* EntryOf returns the entry of the worker, if there is one.
LEMMA EntryFacts ==
  ASSUME NEW p
  PROVE  /\ EntryOf(p) # 0 =>
              EntryOf(p) \in DOMAIN peers /\ peers[EntryOf(p)].worker = WorkerOf[p]
         /\ EntryOf(p) = 0 /\ peers \in Seq(PeerRecords) =>
              \A k \in DOMAIN peers : peers[k].worker # WorkerOf[p]
<1> DEFINE S == {k \in DOMAIN peers : peers[k].worker = WorkerOf[p]}
<1>1. EntryOf(p) = IF S = {} THEN 0 ELSE CHOOSE k \in S : TRUE
  BY DEF EntryOf
<1>2. CASE S = {}
  BY <1>1, <1>2
<1>3. CASE S # {}
  <2>1. EntryOf(p) \in S
    BY <1>1, <1>3
  <2>2. peers \in Seq(PeerRecords) => 0 \notin DOMAIN peers
    OBVIOUS
  <2> QED
    BY <2>1, <2>2
<1> QED
  BY <1>2, <1>3

LEMMA PeerType ==
  ASSUME NEW p \in Processes
  PROVE  PeerOf(p) \in PeerRecords
BY ProcessAssumption DEF PeerOf, PeerRecords

LEMMA RegisteredType ==
  ASSUME peers \in Seq(PeerRecords), NEW p \in Processes
  PROVE  /\ Registered(p) \in Seq(PeerRecords)
         /\ DOMAIN peers \subseteq DOMAIN Registered(p)
<1>1. PeerOf(p) \in PeerRecords
  BY PeerType
<1>2. CASE EntryOf(p) = 0
  BY <1>1, <1>2 DEF Registered
<1>3. CASE EntryOf(p) # 0
  BY <1>1, <1>3, EntryFacts DEF Registered
<1> QED
  BY <1>2, <1>3

-----------------------------------------------------------------------------
(* One link.                                                               *)

LEMMA FrameFacts ==
  /\ Error \in Frames /\ HelloAck \in Frames /\ Goodbye \in Frames /\ HelloFrame \in Frames
  /\ Reports \subseteq Frames /\ Evidence \subseteq Frames
  /\ StageGrants \subseteq Frames /\ Requests \subseteq Frames
BY DEF Frames, Signals, Error, HelloAck, Goodbye, HelloFrame

LEMMA LinkTypes ==
  ASSUME NEW l \in Links, NEW f \in Frames
  PROVE  /\ SentDown(l, f) \in Links /\ SentUp(l, f) \in Links
         /\ ClosedByCoordinator(l) \in Links /\ ClosedByWorker(l) \in Links
         /\ Released(l) \in Links
         /\ UpRead(l) \in Links /\ DownRead(l) \in Links
<1> DEFINE d == Append(l.down, f)
           u == Append(l.up, f)
           rd == Rest(l.down)
           ru == Rest(l.up)
<1>1. /\ l.down \in Seq(Frames) /\ l.up \in Seq(Frames)
      /\ l.coordinator \in Ends /\ l.worker \in Ends
  BY DEF Links
<1>2. /\ d \in Seq(Frames) /\ u \in Seq(Frames)
      /\ rd \in Seq(Frames) /\ ru \in Seq(Frames)
  BY <1>1 DEF Rest
<1>3. <<>> \in Seq(Frames) /\ "closed" \in Ends
  BY DEF Ends
<1>4. /\ SentDown(l, f) = IF l.worker = "open" THEN [l EXCEPT !.down = d] ELSE l
      /\ SentUp(l, f) = IF l.coordinator = "open" THEN [l EXCEPT !.up = u] ELSE l
      /\ UpRead(l) = [l EXCEPT !.up = ru]
      /\ DownRead(l) = [l EXCEPT !.down = rd]
  BY DEF SentDown, SentUp, Links, UpRead, DownRead
<1> HIDE DEF d, u, rd, ru
<1>5. \A q \in Seq(Frames) : [l EXCEPT !.down = q] \in Links /\ [l EXCEPT !.up = q] \in Links
  BY DEF Links
<1>6. ClosedByCoordinator(l) \in Links /\ ClosedByWorker(l) \in Links
  BY <1>3 DEF ClosedByCoordinator, ClosedByWorker, Links
<1> QED
  BY <1>2, <1>4, <1>5, <1>6 DEF Released

LEMMA FreshLinks == NoLink \in Links /\ Opened \in Links
BY DEF NoLink, Opened, Links, Ends

\* What a process receives is a frame at the head of its queue, or a failure.
LEMMA ReceivedFacts ==
  ASSUME NEW queue \in Seq(Frames), NEW far, NEW f \in Received(queue, far), f.kind # "NONE"
  PROVE  queue # <<>> /\ f = Head(queue) /\ f \in Frames /\ f = queue[1] /\ 1 \in DOMAIN queue
<1>1. f # Failure
  BY DEF Failure
<1>2. queue # <<>> /\ f = Head(queue)
  BY <1>1 DEF Received
<1> QED
  BY <1>2

-----------------------------------------------------------------------------
(* What the steps do to the engine and to the disk.                        *)

\* A step that is none of StartRun leaves epoch and disk, but for a save, and
\* calls the engine once or lets time pass.
LEMMA EngineSteps ==
  ASSUME [Next]_vars, ~StartRun, SessionTyped
  PROVE  /\ epoch' = epoch
         /\ disk' = disk \/ (disk' = Saved /\ plans' = plans)
         /\ EngineCall \/ (plans' = plans /\ (now \in Nat => now' \in Nat))
<1> USE SessionAssumption
<1>1. ASSUME \/ HelloMissing \/ HelloStale \/ StaleFrame \/ Register
             \/ Replace \/ ReplacementRefused \/ AcceptTimeout \/ Enter
             \/ LeaveLoop \/ EvidenceLost \/ Finish \/ Crash
             \/ \E p \in Processes : StartProcess(p) \/ ProcessStep(p) \/ KillProcess(p)
             \/ UNCHANGED vars
      PROVE  UNCHANGED <<engine, disk>>
  BY <1>1, Zenon DEF HelloMissing, HelloStale, StaleFrame, Register, Replace, ReplacementRefused,
     AcceptTimeout, Enter, LeaveLoop, EvidenceLost, Finish, Crash, StartProcess, ProcessStep,
     KillProcess, vars
<1>2. ASSUME GrantStage \/ ReceiveReport
      PROVE  epoch' = epoch /\ plans' = plans /\ disk' = disk /\ now' = now + TickStep
  BY <1>2, Zenon DEF GrantStage, ReceiveReport
<1>3. CASE Begin \/ WorkerDeath \/ RevalidateReplaced \/ ReceiveEvidence \/ RollBack \/ ResumePlan
  <2>1. disk' = disk /\ (EngineCall \/ UNCHANGED engine)
    BY <1>3, Zenon DEF Begin, WorkerDeath, RevalidateReplaced, ReceiveEvidence, RollBack, ResumePlan,
       EngineCall
  <2> QED
    BY <2>1, EngineCallKeeps DEF engine
<1>4. CASE Stop \/ Save
  <2>1. UNCHANGED engine /\ (disk' = disk \/ disk' = Saved)
    BY <1>4, Zenon DEF Stop, Save, Write
  <2> QED
    BY <2>1, Zenon DEF engine
<1>5. CASE SaveRollback
  <2>1. /\ epoch' = epoch /\ plans' = plans /\ now' = now + 2 * TickStep
        /\ disk' = disk \/ disk' = Saved
    BY <1>5, Zenon DEF SaveRollback, Write
  <2>2. now \in Nat => now' \in Nat
    BY <2>1
  <2> QED
    BY <2>1, <2>2, Zenon
<1>6. UNCHANGED <<engine, disk>> =>
        /\ epoch' = epoch
        /\ disk' = disk \/ (disk' = Saved /\ plans' = plans)
        /\ EngineCall \/ (plans' = plans /\ (now \in Nat => now' \in Nat))
  BY DEF engine
<1>7. GrantStage \/ ReceiveReport =>
        /\ epoch' = epoch
        /\ disk' = disk \/ (disk' = Saved /\ plans' = plans)
        /\ EngineCall \/ (plans' = plans /\ (now \in Nat => now' \in Nat))
  BY <1>2
<1> QED
  BY <1>1, <1>3, <1>4, <1>5, <1>6, <1>7, Zenon DEF Next, CoordinatorStep

LEMMA CallEffect ==
  ASSUME EngineTyped, Sane(Plan), EngineCall
  PROVE  /\ \/ E!CreatePlan(1)
            \/ Stays(Plan, Plan') \/ Climbs(Plan, Plan') \/ Completes(Plan, Plan')
            \/ Renews(Plan, Plan')
         /\ Sane(Plan')
<1>1. CASE E!CreatePlan(1)
  BY <1>1, CreateEffect DEF Sane
<1>2. CASE ~E!CreatePlan(1)
  <2>1. \/ Stays(Plan, Plan') \/ Climbs(Plan, Plan') \/ Completes(Plan, Plan')
        \/ Renews(Plan, Plan')
    BY <1>2, RequireEffect, ResumeEffect, RollbackEffect, RevalidateEffect, AdvanceEffect,
       SnapshotType, Zenon DEF EngineCall
  <2>2. Plan'.totalAttempts \in Nat /\ Plan \in EP!Plans
    <3>1. EngineTyped'
      BY EngineCallType
    <3>2. plans' \in [{1} -> EP!Plans]
      BY <3>1 DEF EngineTyped, EP!TypeOK
    <3>3. Plan' \in EP!Plans
      BY <3>2 DEF Plan
    <3> QED
      BY <3>3, EngineFacts DEF EP!Plans
  <2> QED
    BY <2>1, <2>2, SaneKept
<1> QED
  BY <1>1, <1>2

LEMMA StartEffect ==
  ASSUME SessionTyped, StartRun
  PROVE  EngineTyped' /\ DurableTyped' /\ Stays(disk.plan, Plan')
<1>1. disk.epoch + 1 \in Nat /\ epoch' = disk.epoch + 1 /\ disk' = disk /\ now' \in Nat
  BY DEF StartRun, SessionTyped, DurableTyped
<1> DEFINE q == E!Imported(disk.plan, disk.epoch + 1)
<1>2. q \in EP!Plans /\ Stays(disk.plan, q)
  BY <1>1, ImportEffect DEF SessionTyped, DurableTyped
<1>3. plans' = [i \in {1} |-> q]
  BY DEF StartRun
<1> HIDE DEF q
<1>4. plans' \in [{1} -> EP!Plans] /\ Plan' = q
  BY <1>2, <1>3 DEF Plan
<1>5. EngineTyped'
  BY <1>1, <1>4 DEF EngineTyped, EP!TypeOK, SessionTyped, EP!PolicyGens
<1>6. Sane(q)
  <2>1. q.totalAttempts \in Nat
    BY <1>2 DEF EP!Plans
  <2> QED
    BY <1>2, <2>1, SaneKept DEF SessionTyped, DurableTyped
<1> QED
  BY <1>1, <1>2, <1>4, <1>5, <1>6 DEF DurableTyped, SessionTyped

LEMMA EngineTypedStep ==
  ASSUME SessionTyped, [Next]_vars
  PROVE  EngineTyped' /\ DurableTyped'
<1>1. CASE StartRun
  BY <1>1, StartEffect
<1>2. CASE ~StartRun
  <2>1. /\ epoch' = epoch
        /\ disk' = disk \/ (disk' = Saved /\ plans' = plans)
        /\ EngineCall \/ (plans' = plans /\ (now \in Nat => now' \in Nat))
    BY <1>2, EngineSteps
  <2>2. EngineTyped' /\ Sane(Plan')
    <3>1. CASE EngineCall
      BY <3>1, EngineCallType, CallEffect DEF SessionTyped, DurableTyped
    <3>2. CASE ~EngineCall
      BY <2>1, <3>2 DEF SessionTyped, DurableTyped, EngineTyped, EP!TypeOK, EP!PolicyGens, Plan
    <3> QED
      BY <3>1, <3>2
  <2>3. disk'.epoch \in Nat /\ disk'.plan \in EP!Plans /\ Sane(disk'.plan)
    <3>1. CASE disk' = disk
      BY <3>1 DEF SessionTyped, DurableTyped
    <3>2. CASE disk' = Saved
      BY <3>2, EngineFacts DEF SessionTyped, DurableTyped, Saved
    <3> QED
      BY <2>1, <3>1, <3>2
  <2> QED
    BY <2>2, <2>3 DEF DurableTyped
<1> QED
  BY <1>1, <1>2

-----------------------------------------------------------------------------
(* Links and control have their types.                                     *)

LEMMA PeerFacts ==
  ASSUME SessionTyped, NEW k \in DOMAIN peers
  PROVE  /\ Peer(k) \in Processes /\ peers[k].boot \in Nat /\ peers[k].worker \in Nat
         /\ peers[k].registered \in BOOLEAN /\ peers[k] \in PeerRecords
         /\ link[Peer(k)] \in Links /\ k \in Nat /\ k # 0
<1>1. peers[k] \in PeerRecords /\ k \in Nat /\ k # 0
  BY DEF SessionTyped, ControlTyped
<1> QED
  BY <1>1 DEF PeerRecords, Peer, SessionTyped, LinksTyped

LEMMA GrantType ==
  ASSUME SessionTyped, NEW k \in DOMAIN peers
  PROVE  GrantOf(k) \in StageGrants /\ ReportOf(GrantOf(k)) \in Reports
BY PeerFacts, EngineFacts DEF SessionTyped, GrantOf, StageGrants, ReportOf, Reports

LEMMA RequestType ==
  ASSUME SessionTyped, now' \in Nat, observer \in DOMAIN peers
  PROVE  EvidenceRequest \in Requests
<1>1. epoch \in Nat /\ recurring \in BOOLEAN /\ peers[observer].boot \in Nat
  BY PeerFacts, EngineFacts DEF SessionTyped, ControlTyped
<1> QED
  BY <1>1 DEF EvidenceRequest, Requests

LEMMA AnswerTypes ==
  /\ \A g \in Frames : g.kind = "STAGE_GRANT" => g \in StageGrants /\ ReportOf(g) \in Reports
  /\ \A r \in Frames : r.kind = "EVIDENCE_REQUEST" => r \in Requests /\ EvidenceOf(r) \in Evidence
<1>1. ASSUME NEW g \in Frames, g.kind = "STAGE_GRANT" PROVE g \in StageGrants
  BY <1>1 DEF Frames, Signals, StageGrants, Requests, Reports, Evidence
<1>2. ASSUME NEW r \in Frames, r.kind = "EVIDENCE_REQUEST" PROVE r \in Requests
  BY <1>2 DEF Frames, Signals, StageGrants, Requests, Reports, Evidence
<1>3. ASSUME NEW g \in StageGrants PROVE ReportOf(g) \in Reports
  BY DEF ReportOf, StageGrants, Reports
<1>4. ASSUME NEW r \in Requests PROVE EvidenceOf(r) \in Evidence
  <2>1. r.recurrence \in BOOLEAN /\ r.epoch \in Nat /\ r.tick \in Nat
    BY DEF Requests
  <2>2. (~r.recurrence) \in BOOLEAN
    BY <2>1
  <2> QED
    BY <2>1, <2>2 DEF EvidenceOf, Evidence
<1> QED
  BY <1>1, <1>2, <1>3, <1>4

\* A link that changes to another link.
LEMMA LinkChanged ==
  ASSUME SessionTyped, NEW p \in Processes, NEW l \in Links, link' = [link EXCEPT ![p] = l]
  PROVE  link' \in [Processes -> Links]
BY DEF SessionTyped, LinksTyped

\* The steps of the coordinator that send and receive nothing.
Quietly ==
  \/ AcceptTimeout \/ Begin \/ Enter \/ LeaveLoop \/ Stop \/ RevalidateReplaced
  \/ EvidenceLost \/ RollBack \/ SaveRollback \/ ResumePlan \/ Save

LEMMA QuietlyKeeps ==
  ASSUME Quietly
  PROVE  UNCHANGED <<link, proc, recorded, applied, backlog, conn, peers, scenario, recurring,
                     runs, granted>>
BY DEF Quietly, AcceptTimeout, Begin, Enter, LeaveLoop, Stop, RevalidateReplaced,
   EvidenceLost, RollBack, SaveRollback, ResumePlan, Save, Write, workers, history, End

\* The steps in which a process leaves.
Exits(p) == Exit(p, "ended") \/ Exit(p, "killed")

\* What a process does.
ProcessCases(p) ==
  \/ Connect(p)
  \/ Welcomed(p) \/ Replay(p) \/ Report(p) \/ Publish(p)
  \/ proc[p] \in Running /\ Exits(p)

LEMMA ProcessKinds ==
  ASSUME NEW p \in Processes, StartProcess(p) \/ ProcessStep(p) \/ KillProcess(p)
  PROVE  /\ ProcessCases(p)
         /\ UNCHANGED <<at, waitFor, conn, peers, applier, observer, scenario, turn, recurring,
                        outcome, runs, granted, engine, disk>>
         /\ StartProcess(p) \/ (backlog' = backlog /\ ~Connect(p))
<1>1. UNCHANGED <<at, waitFor, conn, peers, applier, observer, scenario, turn, recurring,
                  outcome, runs, granted, engine, disk>>
  BY DEF StartProcess, ProcessStep, KillProcess, control, history
<1>2. StartProcess(p) \/ backlog' = backlog
  BY DEF ProcessStep, KillProcess, control
<1>3. StartProcess(p) => Connect(p)
  BY DEF StartProcess
<1>4. ProcessStep(p) \/ KillProcess(p) =>
        \/ Welcomed(p) \/ Replay(p) \/ Report(p) \/ Publish(p)
        \/ proc[p] \in Running /\ Exits(p)
  BY Zenon DEF ProcessStep, KillProcess, WorkerStep, Refused, ReplayAnswered, Leave, LoseLink, Die,
     Exits, Running
<1>5. \/ Welcomed(p) \/ Replay(p) \/ Report(p) \/ Publish(p)
      \/ proc[p] \in Running /\ Exits(p)
      => ~Connect(p)
  BY DEF Connect, Welcomed, Replay, Report, Publish, Running
<1> QED
  BY <1>1, <1>2, <1>3, <1>4, <1>5, Zenon DEF ProcessCases

\* A frame is taken from the head of what arrived.
LEMMA IncomingFacts ==
  ASSUME SessionTyped, NEW p \in Processes, NEW f \in Incoming(p), f.kind # "NONE"
  PROVE  /\ link[p] \in Links /\ link[p].down # <<>> /\ f = link[p].down[1]
         /\ f \in Frames /\ 1 \in DOMAIN link[p].down
<1>1. link[p] \in Links
  BY DEF SessionTyped, LinksTyped
<1>2. link[p].down \in Seq(Frames)
  BY <1>1 DEF Links
<1> QED
  BY <1>1, <1>2, ReceivedFacts DEF Incoming

LEMMA ProcessTypes ==
  ASSUME SessionTyped, NEW p \in Processes, ProcessCases(p)
  PROVE  LinksTyped'
<1> DEFINE l == link[p]
<1>1. /\ link \in [Processes -> Links] /\ proc \in [Processes -> ProcStates]
      /\ recorded \in [Processes -> Reports \cup {NotRecorded}] /\ l \in Links
      /\ Source \in [Processes -> Processes]
  BY ProcessAssumption DEF SessionTyped, LinksTyped
<1> DEFINE Replayable == \A q \in Processes :
             RoleOf[q] = "replay" /\ proc[q] # "new" => recorded[Source[q]] \in Reports
<1>9. Replayable
  BY DEF SessionTyped, LinksTyped
<1>2. CASE Connect(p)
  <2>1. SentUp(Opened, HelloFrame) \in Links
    BY FreshLinks, FrameFacts, LinkTypes
  <2>2. link' = [link EXCEPT ![p] = SentUp(Opened, HelloFrame)]
    BY <1>2 DEF Connect, HelloFrame
  <2>3. proc' = [proc EXCEPT ![p] = "greeting"] /\ recorded' = recorded
    BY <1>2 DEF Connect, Become
  <2>4. RoleOf[p] = "replay" => recorded[Source[p]] \in Reports
    BY <1>1, <1>2 DEF Connect
  <2>5. Replayable'
    BY <1>1, <1>9, <2>3, <2>4
  <2> QED
    BY <1>1, <2>1, <2>2, <2>3, <2>5 DEF LinksTyped, ProcStates, Running
<1>3. CASE Welcomed(p)
  <2> DEFINE m == DownRead(l)
  <2>1. m \in Links
    BY <1>1, FrameFacts, LinkTypes
  <2>2. link' = [link EXCEPT ![p] = m]
    BY <1>1, <1>3 DEF Welcomed
  <2>3. proc' = [proc EXCEPT ![p] = "serving"] /\ recorded' = recorded
    BY <1>3 DEF Welcomed, Become
  <2>6. proc[p] # "new"
    BY <1>3 DEF Welcomed
  <2>5. Replayable'
    BY <1>1, <1>9, <2>6, <2>3
  <2> HIDE DEF m
  <2> QED
    BY <1>1, <2>1, <2>2, <2>3, <2>5 DEF LinksTyped, ProcStates, Running
<1>4. CASE proc[p] \in Running /\ Exits(p)
  <2>1. PICK s \in {"ended", "killed"} : Exit(p, s)
    BY <1>4 DEF Exits
  <2>2. ClosedByWorker(l) \in Links
    BY <1>1, FrameFacts, LinkTypes
  <2>3. /\ link' = [link EXCEPT ![p] = ClosedByWorker(l)] /\ recorded' = recorded
        /\ proc' = [proc EXCEPT ![p] = s]
    BY <2>1 DEF Exit, Become
  <2>6. proc[p] # "new"
    BY <1>4 DEF Running
  <2>5. Replayable'
    BY <1>1, <1>9, <2>6, <2>3
  <2> QED
    BY <1>1, <2>2, <2>3, <2>5 DEF LinksTyped, ProcStates, Running
\* An answer to a frame that was read.
<1>5. ASSUME NEW f \in Frames PROVE Answered(l, f) \in Links
  BY <1>1, <1>5, LinkTypes DEF Answered
<1>6. CASE Report(p)
  <2>1. PICK g \in Incoming(p) :
          /\ g.kind = "STAGE_GRANT"
          /\ link' = [link EXCEPT ![p] = Answered(@, ReportOf(g))]
          /\ recorded' = [recorded EXCEPT ![p] = IF @ = NotRecorded THEN ReportOf(g) ELSE @]
    BY <1>6 DEF Report
  <2>2. ReportOf(g) \in Reports
    BY <2>1, IncomingFacts, AnswerTypes
  <2> DEFINE m == Answered(l, ReportOf(g))
  <2>3. m \in Links
    BY <1>5, <2>2, FrameFacts
  <2>4. link' = [link EXCEPT ![p] = m] /\ proc' = proc
    BY <1>6, <2>1 DEF Report
  <2>5. recorded' \in [Processes -> Reports \cup {NotRecorded}]
    BY <1>1, <2>1, <2>2
  <2>6. \A q \in Processes : recorded[q] \in Reports => recorded'[q] \in Reports
    BY <1>1, <2>1, <2>2
  <2>7. Replayable'
    BY <1>1, <1>9, <2>4, <2>6
  <2> HIDE DEF m
  <2> QED
    BY <1>1, <2>3, <2>4, <2>5, <2>7 DEF LinksTyped
<1>7. CASE Publish(p)
  <2>1. PICK r \in Incoming(p) :
          /\ r.kind = "EVIDENCE_REQUEST"
          /\ link' = [link EXCEPT ![p] = Answered(@, EvidenceOf(r))]
    BY <1>7 DEF Publish, EvidenceOf
  <2>2. EvidenceOf(r) \in Evidence
    BY <2>1, IncomingFacts, AnswerTypes
  <2> DEFINE m == Answered(l, EvidenceOf(r))
  <2>3. m \in Links
    BY <1>5, <2>2, FrameFacts
  <2>4. link' = [link EXCEPT ![p] = m] /\ proc' = proc /\ recorded' = recorded
    BY <1>7, <2>1 DEF Publish
  <2> HIDE DEF m
  <2> QED
    BY <1>1, <1>9, <2>3, <2>4 DEF LinksTyped
<1>8. CASE Replay(p)
  <2> DEFINE f == recorded[Source[p]]
             m == Answered(l, f)
  <2>1. link' = [link EXCEPT ![p] = m] /\ recorded' = recorded
        /\ proc' = [proc EXCEPT ![p] = "replaying"]
    BY <1>8 DEF Replay, Become
  <2>6. proc[p] # "new"
    BY <1>8 DEF Replay
  <2>2. m \in Links
    <3>1. f \in Reports
      BY <1>8, <1>9, <2>6 DEF Replay
    <3> QED
      BY <1>5, <3>1, FrameFacts
  <2>5. Replayable'
    BY <1>1, <1>9, <2>6, <2>1
  <2> HIDE DEF m
  <2> QED
    BY <1>1, <2>1, <2>2, <2>5 DEF LinksTyped, ProcStates, Running
<1> QED
  BY <1>2, <1>3, <1>4, <1>6, <1>7, <1>8 DEF ProcessCases

\* Every step of the coordinator leaves links behind.
LEMMA CoordinatorTypes ==
  ASSUME SessionTyped, CoordinatorStep \/ Crash, now' \in Nat
  PROVE  link' \in [Processes -> Links]
<1>1. /\ link \in [Processes -> Links] /\ backlog \in Seq(Processes) /\ conn \in Seq(Processes)
      /\ peers \in Seq(PeerRecords)
  BY DEF SessionTyped, LinksTyped, ControlTyped
<1>2. ASSUME NEW p \in Processes, NEW f \in Frames
      PROVE  /\ SentDown(link[p], f) \in Links /\ ClosedByCoordinator(link[p]) \in Links
             /\ Released(link[p]) \in Links /\ Released(SentDown(link[p], f)) \in Links
             /\ UpRead(link[p]) \in Links
             /\ SentDown(UpRead(link[p]), f) \in Links
             /\ ClosedByCoordinator(SentDown(link[p], f)) \in Links
  <2>1. link[p] \in Links
    BY <1>1
  <2>2. SentDown(link[p], f) \in Links /\ UpRead(link[p]) \in Links
    BY <2>1, LinkTypes
  <2> QED
    BY <2>1, <2>2, LinkTypes
<1>3. ASSUME NEW p \in Processes, Welcoming(p) = link'
      PROVE  link' \in [Processes -> Links]
  <2>1. \A q \in Processes : Welcoming(p)[q] \in Links
    BY <1>2, FrameFacts, <1>1 DEF Welcoming
  <2> QED
    BY <1>3, <2>1 DEF Welcoming
<1>4. CASE Quietly
  BY <1>1, <1>4, QuietlyKeeps
<1>5. CASE HelloMissing \/ ReplacementRefused
  BY <1>1, <1>2, <1>5, FrameFacts DEF HelloMissing, ReplacementRefused
<1>6. CASE HelloStale
  <2>1. PICK p \in Processes :
          link' = [link EXCEPT ![p] = SentDown(UpRead(@), Error)]
    BY <1>6 DEF HelloStale
  <2> DEFINE m == SentDown(UpRead(link[p]), Error)
  <2>2. m \in Links
    BY <1>2, FrameFacts
  <2>3. link' = [link EXCEPT ![p] = m]
    BY <1>1, <2>1
  <2> HIDE DEF m
  <2> QED
    BY <1>1, <2>2, <2>3
<1>7. CASE StaleFrame
  <2>1. conn[1] \in Processes
    <3>1. at = "stale"
      BY <1>7, Zenon DEF StaleFrame
    <3>2. Len(conn) = 1
      BY <3>1, Zenon DEF SessionTyped, ControlTyped
    <3>3. 1 \in 1..Len(conn)
      BY <3>2
    <3> QED
      BY <1>1, <3>3
  <2>2. PICK f : link' = [link EXCEPT ![conn[1]] =
                            ClosedByCoordinator(IF f = Failure THEN @ ELSE SentDown(@, Error))]
    BY <1>7 DEF StaleFrame
  <2>3. CASE f = Failure
    BY <1>1, <1>2, <2>1, <2>2, <2>3, FrameFacts
  <2>4. CASE f # Failure
    BY <1>1, <1>2, <2>1, <2>2, <2>4, FrameFacts
  <2> QED
    BY <2>3, <2>4
<1>8. CASE Register \/ Replace
  BY <1>3, <1>8 DEF Register, Replace
<1>9. CASE GrantStage
  <2>1. applier \in DOMAIN peers
    BY <1>9 DEF GrantStage, SessionTyped, ControlTyped, Equipped, Driving
  <2>2. GrantOf(applier) \in Frames /\ Peer(applier) \in Processes
    BY <2>1, GrantType, FrameFacts, PeerFacts
  <2> QED
    BY <1>1, <1>2, <1>9, <2>2 DEF GrantStage
<1>10. CASE ReceiveReport
  <2>1. applier \in DOMAIN peers /\ observer \in DOMAIN peers
    BY <1>10 DEF ReceiveReport, SessionTyped, ControlTyped, Equipped, Driving
  <2>2. /\ EvidenceRequest \in Frames /\ Peer(applier) \in Processes
        /\ Peer(observer) \in Processes
    BY <2>1, RequestType, FrameFacts, PeerFacts
  <2> DEFINE taken == [link EXCEPT ![Peer(applier)] = UpRead(@)]
  <2>3. taken \in [Processes -> Links]
    <3> DEFINE m == UpRead(link[Peer(applier)])
    <3>1. m \in Links
      BY <1>2, <2>2, FrameFacts
    <3>2. taken = [link EXCEPT ![Peer(applier)] = m]
      BY <1>1, <2>2
    <3> HIDE DEF m
    <3> QED
      BY <1>1, <2>2, <3>1, <3>2
  <2>4. link' = [taken EXCEPT ![Peer(observer)] = SentDown(@, EvidenceRequest)]
    BY <1>10 DEF ReceiveReport
  <2> HIDE DEF taken
  <2>5. SentDown(taken[Peer(observer)], EvidenceRequest) \in Links
    BY <2>2, <2>3, LinkTypes
  <2> QED
    BY <2>2, <2>3, <2>4, <2>5
<1>11. CASE WorkerDeath \/ ReceiveEvidence
  <2>1. applier \in DOMAIN peers /\ observer \in DOMAIN peers
    BY <1>11 DEF WorkerDeath, ReceiveEvidence, SessionTyped, ControlTyped, Equipped, Driving
  <2>2. Peer(applier) \in Processes /\ Peer(observer) \in Processes
    BY <2>1, PeerFacts
  <2>3. CASE WorkerDeath
    BY <1>1, <1>2, <2>2, <2>3, FrameFacts DEF WorkerDeath
  <2>4. CASE ReceiveEvidence
    <3> DEFINE m == UpRead(link[Peer(observer)])
    <3>1. m \in Links
      BY <1>2, <2>2, FrameFacts
    <3>2. link' = [link EXCEPT ![Peer(observer)] = m]
      BY <1>1, <2>2, <2>4 DEF ReceiveEvidence
    <3> HIDE DEF m
    <3> QED
      BY <1>1, <2>2, <3>1, <3>2
  <2> QED
    BY <1>11, <2>3, <2>4
<1>12. CASE Finish
  <2>1. \A p \in Processes : link'[p] \in Links
    BY <1>2, <1>12, FrameFacts DEF Finish
  <2> QED
    BY <1>12, <2>1 DEF Finish
<1>13. CASE Crash
  BY <1>2, <1>13, FrameFacts DEF Crash
<1> QED
  BY <1>4, <1>5, <1>6, <1>7, <1>8, <1>9, <1>10, <1>11, <1>12, <1>13
     DEF CoordinatorStep, Quietly

LEMMA CoordinatorKeepsProcesses ==
  ASSUME StartRun \/ CoordinatorStep \/ Crash
  PROVE  UNCHANGED <<proc, recorded, applied>> /\ (StartRun => link' = link)
BY Zenon, QuietlyKeeps DEF CoordinatorStep, Quietly, StartRun, Crash, HelloMissing, HelloStale,
   StaleFrame, Register, Replace, ReplacementRefused, GrantStage, ReceiveReport, WorkerDeath,
   ReceiveEvidence, Finish, workers

LEMMA LinksTypedStep ==
  ASSUME SessionTyped, [Next]_vars
  PROVE  LinksTyped'
<1>1. now' \in Nat
  BY EngineTypedStep DEF EngineTyped, EP!TypeOK
<1>2. CASE CoordinatorStep \/ Crash \/ StartRun
  BY <1>1, <1>2, CoordinatorTypes, CoordinatorKeepsProcesses DEF LinksTyped, SessionTyped
<1>3. ASSUME NEW p \in Processes, StartProcess(p) \/ ProcessStep(p) \/ KillProcess(p)
      PROVE  LinksTyped'
  BY <1>3, ProcessKinds, ProcessTypes
<1>4. CASE UNCHANGED vars
  BY <1>4 DEF vars, workers, LinksTyped, SessionTyped
<1> QED
  BY <1>2, <1>3, <1>4 DEF Next

LEMMA AcceptedFacts ==
  ASSUME NEW x, Accepted(x), waitFor \in {"workers", "extra", "replacement"}
  PROVE  /\ waitFor = "workers" => at' \in {"accept", "begin"}
         /\ waitFor = "extra" => at' = IF scenario = "restart-part2" THEN "enter" ELSE "loop"
         /\ waitFor = "replacement" => at' = "revalidate"
         /\ at' \in {"accept", "begin", "enter", "loop", "revalidate"}
         /\ at' = "accept" => waitFor = "workers"
BY DEF Accepted

\* The steps that end the wait for a connection: whoever connected, the wait goes on
\* or what it was for begins.
LEMMA WaitOver ==
  ASSUME SessionTyped, at \in {"accept", "stale"}, NEW x, Accepted(x) \/ at' = "finish",
         waitFor' = waitFor, scenario' = scenario, applier' = applier, observer' = observer,
         DOMAIN peers \subseteq DOMAIN peers'
  PROVE  /\ at' \in {"accept", "begin", "enter", "loop", "revalidate", "finish"}
         /\ Equipped' => applier' \in DOMAIN peers' /\ observer' \in DOMAIN peers'
<1>1. waitFor \in {"workers", "extra", "replacement"}
  BY DEF SessionTyped, ControlTyped
<1>2. Equipped => applier \in DOMAIN peers /\ observer \in DOMAIN peers
  BY DEF SessionTyped, ControlTyped
<1>3. CASE at' = "finish"
  BY <1>3 DEF Equipped, Driving
<1>4. CASE Accepted(x)
  <2>1. at' \in {"accept", "begin", "enter", "loop", "revalidate"}
    BY <1>1, <1>4, AcceptedFacts
  <2>2. Equipped' => Equipped
    BY <1>1, <1>4, AcceptedFacts DEF Equipped, Driving
  <2> QED
    BY <1>2, <2>1, <2>2
<1> QED
  BY <1>3, <1>4

\* What does not change, in all steps but StartRun.
LEMMA RunKeeps ==
  ASSUME [Next]_vars, ~StartRun
  PROVE  runs' = runs /\ scenario' = scenario
BY Zenon, QuietlyKeeps, ProcessKinds DEF Next, CoordinatorStep, Quietly, Crash, HelloMissing, HelloStale,
   StaleFrame, Register, Replace, ReplacementRefused, GrantStage, ReceiveReport, WorkerDeath,
   ReceiveEvidence, Finish, history, vars, control

LEMMA WaitTypes ==
  ASSUME SessionTyped,
         HelloMissing \/ StaleFrame \/ Register \/ Replace \/ ReplacementRefused \/ HelloStale
  PROVE  ControlTyped'
<1>1. /\ backlog \in Seq(Processes) /\ conn \in Seq(Processes) /\ peers \in Seq(PeerRecords)
      /\ waitFor \in {"workers", "extra", "replacement"} /\ turn \in 0..LoopGuard
      /\ outcome \in {"none", "OK", "FAILED"} /\ recurring \in BOOLEAN
      /\ granted \subseteq Grants /\ runs \in Nat
      /\ runs = 0 => at = "down" /\ granted = {}
      /\ at \in Active /\ scenario # "restart-part2" => runs = 1
      /\ at = "stale" => Len(conn) = 1 /\ waitFor # "replacement"
  BY DEF SessionTyped, ControlTyped
<1>2. at \in {"accept", "stale"} /\ at \in Active
  BY DEF HelloMissing, StaleFrame, Register, Replace, ReplacementRefused, HelloStale, Greets,
     Hello, Active, Waiting
<1>3. /\ waitFor' = waitFor /\ scenario' = scenario /\ applier' = applier
      /\ observer' = observer /\ turn' = turn /\ recurring' = recurring
      /\ granted' = granted /\ runs' = runs
  <2>1. CASE HelloMissing
    BY <2>1, Zenon DEF HelloMissing
  <2>2. CASE StaleFrame
    BY <2>2, Zenon DEF StaleFrame, history
  <2>3. CASE Register
    BY <2>3, Zenon DEF Register, history
  <2>4. CASE Replace
    BY <2>4, Zenon DEF Replace, history
  <2>5. CASE ReplacementRefused
    BY <2>5, Zenon DEF ReplacementRefused, history
  <2>6. CASE HelloStale
    BY <2>6, Zenon DEF HelloStale, history
  <2> QED
    BY <2>1, <2>2, <2>3, <2>4, <2>5, <2>6
<1>4. backlog' \in Seq(Processes)
  <2>1. backlog' = backlog \/ (backlog # <<>> /\ backlog' = Tail(backlog))
    <3>1. CASE HelloMissing
      BY <3>1, Zenon DEF HelloMissing, Greets
    <3>2. CASE StaleFrame
      BY <3>2, Zenon DEF StaleFrame
    <3>3. CASE Register
      BY <3>3, Zenon DEF Register, Hello, Greets
    <3>4. CASE Replace
      BY <3>4, Zenon DEF Replace, Hello, Greets
    <3>5. CASE ReplacementRefused
      BY <3>5, Zenon DEF ReplacementRefused, Hello, Greets
    <3>6. CASE HelloStale
      BY <3>6, Zenon DEF HelloStale, Hello, Greets
    <3> QED
      BY <3>1, <3>2, <3>3, <3>4, <3>5, <3>6
  <2>2. backlog \in Seq(Processes)
    BY <1>1
  <2> QED
    BY <2>1, <2>2
<1>5. peers' \in Seq(PeerRecords) /\ DOMAIN peers \subseteq DOMAIN peers'
  <2>1. CASE peers' = peers
    BY <1>1, <2>1
  <2>2. CASE Register
    BY <1>1, <2>2, RegisteredType DEF Register
  <2>3. CASE Replace
    <3>1. PICK p \in Processes :
            /\ Replaces(p)
            /\ peers' = [peers EXCEPT ![EntryOf(p)] =
                           [PeerOf(p) EXCEPT !.role = peers[EntryOf(p)].role]]
      BY <2>3 DEF Replace
    <3>2. EntryOf(p) \in DOMAIN peers
      BY <3>1, EntryFacts DEF Replaces
    <3> DEFINE r == [PeerOf(p) EXCEPT !.role = peers[EntryOf(p)].role]
    <3>3. peers[EntryOf(p)] \in PeerRecords /\ PeerOf(p) \in PeerRecords
      BY <1>1, <3>2, PeerType
    <3>4. r \in PeerRecords
      BY <3>3 DEF PeerRecords
    <3>5. peers' = [peers EXCEPT ![EntryOf(p)] = r]
      BY <3>1
    <3> HIDE DEF r
    <3> QED
      BY <1>1, <3>2, <3>4, <3>5
  <2> QED
    BY <2>1, <2>2, <2>3, Zenon DEF HelloMissing, StaleFrame, ReplacementRefused, HelloStale
<1>6. CASE HelloStale
  <2>1. PICK p \in Processes : conn' = <<p>>
    BY <1>6 DEF HelloStale
  <2>2. at' = "stale" /\ waitFor # "replacement" /\ outcome' = outcome
    BY <1>6, Zenon DEF HelloStale
  <2>3. conn' \in Seq(Processes) /\ Len(conn') = 1
    BY <2>1
  <2>4. Equipped' => Equipped
    BY <1>2, <1>3, <2>2 DEF Equipped, Driving
  <2>5. Equipped' => applier' \in DOMAIN peers' /\ observer' \in DOMAIN peers'
    BY <1>3, <1>5, <2>4 DEF SessionTyped, ControlTyped
  <2>6. at' \in Active
    BY <2>2 DEF Active, Waiting
  <2> HIDE DEF Equipped
  <2> QED
    BY <1>1, <1>2, <1>3, <1>4, <1>5, <2>2, <2>3, <2>5, <2>6 DEF ControlTyped
<1>7. CASE ~HelloStale
  <2>1. \E x : Accepted(x) \/ at' = "finish"
    <3>1. CASE HelloMissing
      BY <3>1, Zenon DEF HelloMissing, End
    <3>2. CASE StaleFrame
      BY <3>2, Zenon DEF StaleFrame, End
    <3>3. CASE Register
      BY <3>3, Zenon DEF Register, End
    <3>4. CASE Replace
      BY <3>4, Zenon DEF Replace, End
    <3>5. CASE ReplacementRefused
      BY <3>5, Zenon DEF ReplacementRefused, End
    <3> QED
      BY <1>7, <3>1, <3>2, <3>3, <3>4, <3>5
  <2>2. /\ at' \in {"accept", "begin", "enter", "loop", "revalidate", "finish"}
        /\ Equipped' => applier' \in DOMAIN peers' /\ observer' \in DOMAIN peers'
    BY <1>2, <1>3, <1>5, <2>1, WaitOver
  <2>3. outcome' = outcome \/ outcome' = "FAILED"
    BY <1>7, Zenon DEF HelloMissing, StaleFrame, Register, Replace, ReplacementRefused, End
  <2>4. conn' = conn \/ conn' = <<>>
    BY <1>7, Zenon DEF HelloMissing, StaleFrame, Register, Replace, ReplacementRefused
  <2>5. at' \in Active /\ at' # "stale"
    BY <2>2 DEF Active, Waiting, Working
  <2>6. conn' \in Seq(Processes)
    <3>1. conn \in Seq(Processes) /\ <<>> \in Seq(Processes)
      BY <1>1
    <3> QED
      BY <2>4, <3>1, Zenon
  <2>7. outcome' \in {"none", "OK", "FAILED"}
    BY <1>1, <2>3
  <2> HIDE DEF Equipped
  <2> QED
    BY <1>1, <1>2, <1>3, <1>4, <1>5, <2>2, <2>5, <2>6, <2>7 DEF ControlTyped, Active, Working,
       Waiting
<1> QED
  BY <1>6, <1>7

\* A step of a run that leaves the queue, the peers and the history alone.
LEMMA ControlKept ==
  ASSUME SessionTyped, at \in Active, at' \in Active \ {"stale"},
         UNCHANGED <<backlog, conn, peers, scenario, recurring, granted, runs>>,
         waitFor' \in {"workers", "extra", "replacement"}, turn' \in 0..LoopGuard,
         outcome' = outcome \/ outcome' \in {"OK", "FAILED"},
         Equipped' => applier' \in DOMAIN peers /\ observer' \in DOMAIN peers
  PROVE  ControlTyped'
<1>1. outcome' \in {"none", "OK", "FAILED"}
  BY DEF SessionTyped, ControlTyped
<1>2. "down" \notin Active
  BY DEF Active, Waiting, Working
<1>3. at # "down" /\ at' # "stale" /\ at' \in Active
  BY <1>2
<1> HIDE DEF Equipped
<1> QED
  BY <1>1, <1>3, Zenon DEF SessionTyped, ControlTyped

\* The steps with the peers at hand that only end, or go on.
LEMMA DrivingTypes ==
  ASSUME SessionTyped,
         LeaveLoop \/ Stop \/ EvidenceLost \/ RollBack \/ SaveRollback \/ ResumePlan \/ Save
  PROVE  ControlTyped'
<1>1. /\ at \in Driving /\ at' \in Driving \cup {"finish"}
      /\ waitFor' = waitFor /\ turn' = turn /\ applier' = applier /\ observer' = observer
      /\ outcome' = outcome \/ outcome' \in {"OK", "FAILED"}
  <2>1. CASE LeaveLoop
    BY <2>1 DEF LeaveLoop, End, Driving
  <2>2. CASE Stop
    BY <2>2 DEF Stop, End, Driving
  <2>3. CASE EvidenceLost
    BY <2>3 DEF EvidenceLost, End, Driving
  <2>4. CASE RollBack
    BY <2>4, Zenon DEF RollBack, End, Driving
  <2>5. CASE SaveRollback
    BY <2>5 DEF SaveRollback, Write, End, Driving
  <2>6. CASE ResumePlan
    BY <2>6, Zenon DEF ResumePlan, End, Driving
  <2>7. CASE Save
    BY <2>7 DEF Save, Write, End, Driving
  <2> QED
    BY <2>1, <2>2, <2>3, <2>4, <2>5, <2>6, <2>7, Zenon
<1>2. UNCHANGED <<backlog, conn, peers, scenario, recurring, granted, runs>>
  BY QuietlyKeeps DEF Quietly
<1>3. /\ applier \in DOMAIN peers /\ observer \in DOMAIN peers
      /\ waitFor \in {"workers", "extra", "replacement"} /\ turn \in 0..LoopGuard
  BY <1>1 DEF SessionTyped, ControlTyped, Equipped
<1>4. at \in Active /\ at' \in Active \ {"stale"}
  BY <1>1 DEF Driving, Active, Waiting, Working
<1> QED
  BY <1>1, <1>2, <1>3, <1>4, ControlKept

LEMMA BeginTypes ==
  ASSUME SessionTyped, AcceptTimeout \/ Begin \/ Enter \/ RevalidateReplaced
  PROVE  ControlTyped'
<1>1. UNCHANGED <<backlog, conn, peers, scenario, recurring, granted, runs>>
  BY QuietlyKeeps DEF Quietly
<1>2. /\ waitFor \in {"workers", "extra", "replacement"} /\ turn \in 0..LoopGuard
      /\ peers \in Seq(PeerRecords)
      /\ Equipped => applier \in DOMAIN peers /\ observer \in DOMAIN peers
  BY DEF SessionTyped, ControlTyped
<1>3. turn' = turn
  BY Zenon DEF AcceptTimeout, Begin, Enter, RevalidateReplaced
<1>4. at \in {"accept", "begin", "enter", "revalidate"}
  BY Zenon DEF AcceptTimeout, Begin, Enter, RevalidateReplaced
<1>5. outcome' = outcome \/ outcome' \in {"OK", "FAILED"}
  BY Zenon DEF AcceptTimeout, Begin, Enter, RevalidateReplaced, End
<1>6. CASE AcceptTimeout
  <2>1. /\ at \in {"accept", "stale"} /\ waitFor' = waitFor /\ applier' = applier
        /\ observer' = observer
    BY <1>6, Zenon DEF AcceptTimeout
  <2>2. \E x : Accepted(x) \/ at' = "finish"
    BY <1>6, Zenon DEF AcceptTimeout, End
  <2>3. /\ at' \in {"accept", "begin", "enter", "loop", "revalidate", "finish"}
        /\ Equipped' => applier' \in DOMAIN peers' /\ observer' \in DOMAIN peers'
    BY <1>1, <2>1, <2>2, WaitOver
  <2>4. at \in Active /\ at' \in Active \ {"stale"}
    BY <1>4, <2>3 DEF Active, Waiting, Working
  <2> HIDE DEF Equipped
  <2> QED
    BY <1>1, <1>2, <1>3, <1>5, <2>1, <2>3, <2>4, ControlKept
<1>7. CASE Begin
  <2>1. at' \in {"accept", "finish", "enter"} /\ applier' = applier /\ observer' = observer
    BY <1>7, Zenon DEF Begin, End
  <2>2. /\ waitFor' = waitFor \/ waitFor' = "extra"
        /\ at' = "accept" => waitFor' = "extra" /\ scenario = "restart-part2"
    BY <1>7, Zenon DEF Begin, End
  <2>3. ~Equipped'
    BY <1>1, <2>1, <2>2 DEF Equipped, Driving
  <2>4. at \in Active /\ at' \in Active \ {"stale"}
    BY <1>4, <2>1 DEF Active, Waiting, Working
  <2> HIDE DEF Equipped
  <2> QED
    BY <1>1, <1>2, <1>3, <1>5, <2>2, <2>3, <2>4, ControlKept
<1>8. CASE Enter
  <2>1. /\ at' \in {"loop", "finish"} /\ waitFor' = waitFor
        /\ applier' = FindPeer("applier") /\ observer' = FindPeer("observer")
        /\ at' = "loop" => applier' # 0 /\ observer' # 0
    BY <1>8, Zenon DEF Enter, End
  <2>2. Equipped' => applier' # 0 /\ observer' # 0
    BY <2>1 DEF Equipped, Driving
  <2>3. Equipped' => applier' \in DOMAIN peers /\ observer' \in DOMAIN peers
    BY <1>2, <2>1, <2>2, FoundPeer
  <2>4. at \in Active /\ at' \in Active \ {"stale"}
    BY <1>4, <2>1 DEF Active, Waiting, Working
  <2> HIDE DEF Equipped
  <2> QED
    BY <1>1, <1>2, <1>3, <1>5, <2>1, <2>3, <2>4, ControlKept
<1>9. CASE RevalidateReplaced
  <2>1. /\ at = "revalidate" /\ at' \in {"accept", "loop", "finish"}
        /\ waitFor' = waitFor \/ waitFor' = "extra"
        /\ applier' = FindPeer("applier") /\ observer' = observer
        /\ at' # "finish" => applier' # 0
    BY <1>9, Zenon DEF RevalidateReplaced, End
  <2>2. observer \in DOMAIN peers
    BY <1>2, <2>1 DEF Equipped
  <2>3. Equipped' => applier' # 0
    BY <2>1 DEF Equipped, Driving
  <2>4. Equipped' => applier' \in DOMAIN peers /\ observer' \in DOMAIN peers
    BY <1>2, <2>1, <2>2, <2>3, FoundPeer
  <2>5. at \in Active /\ at' \in Active \ {"stale"}
    BY <1>4, <2>1 DEF Active, Waiting, Working
  <2> HIDE DEF Equipped
  <2> QED
    BY <1>1, <1>2, <1>3, <1>5, <2>1, <2>4, <2>5, ControlKept
<1> QED
  BY <1>6, <1>7, <1>8, <1>9

LEMMA ServingTypes ==
  ASSUME SessionTyped, GrantStage \/ ReceiveReport \/ ReceiveEvidence \/ WorkerDeath
  PROVE  ControlTyped'
<1> USE SessionAssumption
<1>1. /\ backlog \in Seq(Processes) /\ conn \in Seq(Processes) /\ peers \in Seq(PeerRecords)
      /\ waitFor \in {"workers", "extra", "replacement"} /\ turn \in 0..LoopGuard
      /\ outcome \in {"none", "OK", "FAILED"} /\ recurring \in BOOLEAN
      /\ granted \subseteq Grants /\ runs \in Nat
      /\ runs = 0 => at = "down" /\ granted = {}
      /\ at \in Active /\ scenario # "restart-part2" => runs = 1
      /\ Equipped => applier \in DOMAIN peers /\ observer \in DOMAIN peers
  BY DEF SessionTyped, ControlTyped
<1>2. /\ at \in {"loop", "report", "evidence"} /\ runs' = runs /\ scenario' = scenario
      /\ backlog' = backlog /\ conn' = conn /\ applier' = applier /\ observer' = observer
      /\ outcome' = outcome \/ outcome' = "FAILED"
  BY Zenon DEF GrantStage, ReceiveReport, ReceiveEvidence, WorkerDeath, history, End
<1>3. /\ at \in Active /\ Equipped /\ at # "down"
  BY <1>2 DEF Equipped, Driving, Active, Waiting, Working
<1>4. /\ at' \in {"report", "evidence", "finish", "accept", "rollback", "save"}
      /\ waitFor' = waitFor \/ waitFor' = "replacement"
      /\ at' = "accept" => waitFor' = "replacement"
  <2>1. CASE GrantStage
    BY <2>1, Zenon DEF GrantStage, End
  <2>2. CASE ReceiveReport
    BY <2>2, Zenon DEF ReceiveReport, End
  <2>3. CASE ReceiveEvidence
    BY <2>3, Zenon DEF ReceiveEvidence
  <2>4. CASE WorkerDeath
    BY <2>4, Zenon DEF WorkerDeath
  <2> QED
    BY <2>1, <2>2, <2>3, <2>4
<1>5. peers' \in Seq(PeerRecords) /\ DOMAIN peers' = DOMAIN peers
  <2>1. CASE WorkerDeath
    <3>1. peers' = [peers EXCEPT ![applier] = [peers[applier] EXCEPT !.registered = FALSE]]
      BY <2>1 DEF WorkerDeath
    <3>2. [peers[applier] EXCEPT !.registered = FALSE] \in PeerRecords /\ applier \in DOMAIN peers
      BY <1>1, <1>3, PeerFacts DEF PeerRecords
    <3> DEFINE r == [peers[applier] EXCEPT !.registered = FALSE]
    <3> HIDE DEF r
    <3> QED
      BY <1>1, <3>1, <3>2 DEF r
  <2>2. CASE ~WorkerDeath
    BY <1>1, <2>2, Zenon DEF GrantStage, ReceiveReport, ReceiveEvidence
  <2> QED
    BY <2>1, <2>2
<1>6. /\ turn' \in 0..LoopGuard /\ recurring' \in BOOLEAN
      /\ granted' \subseteq Grants
  <2>1. CASE GrantStage
    <3>1. turn < LoopGuard /\ turn' = turn + 1 /\ recurring' \in BOOLEAN
      BY <2>1, Zenon DEF GrantStage
    <3>2. Plan.generation \in Nat /\ Plan.attempt \in Nat /\ Peer(applier) \in Processes
      BY <1>1, <1>3, PeerFacts, EngineFacts DEF SessionTyped
    <3>3. granted' = granted \cup {<<Plan.generation, Plan.attempt, Peer(applier)>>}
      BY <2>1 DEF GrantStage
    <3>4. granted' \subseteq Grants
      BY <1>1, <3>2, <3>3 DEF Grants
    <3>5. turn' \in 0..LoopGuard
      BY <1>1, <3>1
    <3> QED
      BY <3>1, <3>4, <3>5
  <2>2. CASE ~GrantStage
    BY <1>1, <2>2, Zenon DEF ReceiveReport, ReceiveEvidence, WorkerDeath, history
  <2> QED
    BY <2>1, <2>2
<1>7. at' \in Active /\ at' # "stale" /\ at' # "down"
  BY <1>4 DEF Active, Waiting, Working
<1>8. waitFor' \in {"workers", "extra", "replacement"} /\ outcome' \in {"none", "OK", "FAILED"}
  BY <1>1, <1>2, <1>4
<1>9. applier' \in DOMAIN peers' /\ observer' \in DOMAIN peers'
  BY <1>1, <1>2, <1>3, <1>5
<1>10. runs # 0
  BY <1>1, <1>3
<1> HIDE DEF Equipped
<1> QED
  BY <1>1, <1>2, <1>3, <1>5, <1>6, <1>7, <1>8, <1>9, <1>10, Zenon DEF ControlTyped

LEMMA OutsideTypes ==
  ASSUME SessionTyped, StartRun \/ Finish \/ Crash
  PROVE  ControlTyped'
<1> USE SessionAssumption
<1>1. /\ backlog \in Seq(Processes) /\ conn \in Seq(Processes) /\ peers \in Seq(PeerRecords)
      /\ waitFor \in {"workers", "extra", "replacement"} /\ turn \in 0..LoopGuard
      /\ outcome \in {"none", "OK", "FAILED"} /\ recurring \in BOOLEAN
      /\ granted \subseteq Grants /\ runs \in Nat
      /\ runs = 0 => at = "down" /\ granted = {}
  BY DEF SessionTyped, ControlTyped
<1>2. CASE StartRun
  <2>1. /\ runs' = runs + 1 /\ at' = "accept" /\ waitFor' = "workers" /\ turn' = 0
        /\ scenario' \in (IF runs = 0 THEN Scenarios ELSE {"restart-part2"})
        /\ outcome' = "none" /\ recurring' = FALSE /\ granted' = {}
    BY <1>2 DEF StartRun
  <2>2. backlog' = <<>> /\ conn' = <<>> /\ peers' = <<>>
    BY <1>2 DEF StartRun
  <2>3. backlog' \in Seq(Processes) /\ conn' \in Seq(Processes) /\ peers' \in Seq(PeerRecords)
    BY <2>2
  <2>4. ~Equipped' /\ at' \in Active
    BY <2>1 DEF Equipped, Driving, Active, Waiting
  <2>5. runs' \in Nat /\ runs' # 0 /\ (scenario' # "restart-part2" => runs' = 1)
    BY <1>1, <2>1
  <2>6. turn' \in 0..LoopGuard /\ outcome' \in {"none", "OK", "FAILED"} /\ recurring' \in BOOLEAN
    <3>1. 0 \in 0..LoopGuard
      BY SessionAssumption
    <3> QED
      BY <2>1, <3>1, Zenon
  <2> HIDE DEF Equipped
  <2> QED
    BY <2>1, <2>3, <2>4, <2>5, <2>6, Zenon DEF ControlTyped
<1>3. CASE Finish \/ Crash
  <2>1. /\ at' \in {"down", "done"} /\ waitFor' = waitFor /\ turn' = turn /\ runs' = runs
        /\ outcome' = outcome /\ recurring' = recurring /\ granted' = granted
        /\ backlog' = backlog /\ conn' = conn /\ (peers' = peers \/ peers' = <<>>)
        /\ at \in Active /\ at # "down"
    BY <1>3 DEF Finish, Crash, history, Active, Waiting, Working
  <2>2. peers' \in Seq(PeerRecords)
    <3>1. <<>> \in Seq(PeerRecords) /\ peers \in Seq(PeerRecords)
      BY <1>1
    <3> QED
      BY <2>1, <3>1, Zenon
  <2>3. ~Equipped' /\ at' \notin Active /\ at' # "stale" /\ runs # 0
    BY <1>1, <2>1 DEF Equipped, Driving, Active, Waiting, Working
  <2> HIDE DEF Equipped
  <2> QED
    BY <1>1, <2>1, <2>2, <2>3, Zenon DEF ControlTyped
<1> QED
  BY <1>2, <1>3

LEMMA ControlTypedStep ==
  ASSUME SessionTyped, [Next]_vars
  PROVE  ControlTyped'
<1>1. CASE HelloMissing \/ StaleFrame \/ Register \/ Replace \/ ReplacementRefused \/ HelloStale
  BY <1>1, WaitTypes
<1>2. CASE LeaveLoop \/ Stop \/ EvidenceLost \/ RollBack \/ SaveRollback \/ ResumePlan \/ Save
  BY <1>2, DrivingTypes
<1>3. CASE AcceptTimeout \/ Begin \/ Enter \/ RevalidateReplaced
  BY <1>3, BeginTypes
<1>4. CASE GrantStage \/ ReceiveReport \/ ReceiveEvidence \/ WorkerDeath
  BY <1>4, ServingTypes
<1>5. CASE StartRun \/ Finish \/ Crash
  BY <1>5, OutsideTypes
<1>6. ASSUME NEW p \in Processes, StartProcess(p) \/ ProcessStep(p) \/ KillProcess(p)
      PROVE  ControlTyped'
  <2>1. UNCHANGED <<at, waitFor, conn, peers, applier, observer, scenario, turn, recurring,
                    outcome, runs, granted>>
    BY <1>6, ProcessKinds
  <2>2. backlog' = backlog \/ backlog' = Append(backlog, p)
    BY <1>6, ProcessKinds DEF StartProcess
  <2>3. backlog' \in Seq(Processes)
    <3>1. backlog \in Seq(Processes)
      BY DEF SessionTyped, ControlTyped
    <3> QED
      BY <2>2, <3>1
  <2>4. Equipped' = Equipped
    BY <2>1 DEF Equipped
  <2> HIDE DEF Equipped
  <2> QED
    BY <2>1, <2>3, <2>4 DEF SessionTyped, ControlTyped
<1>7. CASE UNCHANGED vars
  BY <1>7 DEF vars, control, history, SessionTyped, ControlTyped, Equipped
<1> QED
  BY <1>1, <1>2, <1>3, <1>4, <1>5, <1>6, <1>7, Zenon DEF Next, CoordinatorStep

LEMMA SessionTypedInit ==
  ASSUME Init
  PROVE  SessionTyped
<1>1. E!NoPlan \in EP!Plans /\ Sane(E!NoPlan)
  <2>1. EP!NoPlan \in EP!Plans
    BY DEF EP!NoPlan, EP!Plans
  <2>2. E!NoPlan.attempt = 0 /\ E!NoPlan.totalAttempts = 0 /\ E!NoPlan.stageGen = 0
    BY DEF E!NoPlan
  <2> QED
    BY <2>1, <2>2, SamePlans DEF Sane
<1>2. Plan = E!NoPlan /\ plans \in [{1} -> EP!Plans] /\ epoch = 0 /\ now = 0
  BY <1>1 DEF Init, Plan
<1>3. EngineTyped
  BY <1>2 DEF EngineTyped, EP!TypeOK, EP!PolicyGens
<1>4. DurableTyped
  BY <1>1, <1>2 DEF Init, DurableTyped, NoDisk
<1>5. LinksTyped
  <2>1. /\ link = [p \in Processes |-> NoLink] /\ proc = [p \in Processes |-> "new"]
        /\ recorded = [p \in Processes |-> NotRecorded]
    BY DEF Init, WorkerInit
  <2>2. link \in [Processes -> Links]
    BY <2>1, FreshLinks
  <2>3. proc \in [Processes -> ProcStates] /\ \A p \in Processes : proc[p] = "new"
    BY <2>1 DEF ProcStates
  <2>4. recorded \in [Processes -> Reports \cup {NotRecorded}]
    BY <2>1, Zenon
  <2> QED
    BY <2>2, <2>3, <2>4 DEF LinksTyped
<1>6. ControlTyped
  <2>1. /\ at = "down" /\ waitFor = "workers" /\ backlog = <<>> /\ conn = <<>> /\ peers = <<>>
        /\ turn = 0 /\ outcome = "none" /\ recurring = FALSE /\ granted = {} /\ runs = 0
    BY DEF Init
  <2>2. backlog \in Seq(Processes) /\ conn \in Seq(Processes) /\ peers \in Seq(PeerRecords)
    BY <2>1
  <2>3. turn \in 0..LoopGuard
    BY <2>1, SessionAssumption
  <2>4. ~Equipped /\ at \notin Active
    BY <2>1 DEF Equipped, Driving, Active, Waiting, Working
  <2> HIDE DEF Equipped
  <2> QED
    BY <2>1, <2>2, <2>3, <2>4 DEF ControlTyped
<1> QED
  BY <1>3, <1>4, <1>5, <1>6 DEF SessionTyped

LEMMA SessionTypedStep ==
  ASSUME SessionTyped, [Next]_vars
  PROVE  SessionTyped'
BY EngineTypedStep, LinksTypedStep, ControlTypedStep DEF SessionTyped

LEMMA SessionTypedInvariant == Spec => []SessionTyped
BY SessionTypedInit, SessionTypedStep, PTL DEF Spec

\* Every variable of the session has its type, and a coordinator that grants rungs
\* or asks for evidence has a peer of each role, whatever the scenario and however
\* many processes of whatever roles and boots connect, die or stay silent.
THEOREM SessionTypeCorrect == Spec => []TypeOK
<1>1. ASSUME SessionTyped
      PROVE  TypeOK
  <2>1. epoch \in Nat /\ Plan \in E!Plans /\ now \in Nat
    BY <1>1, EngineFacts, SamePlans DEF SessionTyped
  <2>2. disk.epoch \in Nat /\ disk.plan \in E!Plans
    BY <1>1, SamePlans DEF SessionTyped, DurableTyped
  <2>3. \A p \in Processes :
          link[p].coordinator \in Ends /\ link[p].worker \in Ends /\ proc[p] \in ProcStates
    BY <1>1 DEF SessionTyped, LinksTyped, Links
  <2>4. at \in {"loop", "report", "evidence"} =>
          applier \in DOMAIN peers /\ observer \in DOMAIN peers
    BY <1>1 DEF SessionTyped, ControlTyped, Equipped, Driving
  <2> QED
    BY <1>1, <2>1, <2>2, <2>3, <2>4 DEF SessionTyped, ControlTyped, TypeOK
<1> QED
  BY <1>1, SessionTypedInvariant, PTL

-----------------------------------------------------------------------------
(* One holder of an attempt.                                               *)

\* How a plan that is there moves.
Moves(p, q) == Stays(p, q) \/ Climbs(p, q) \/ Completes(p, q) \/ Renews(p, q)

\* The steps that leave the plan alone.
LEMMA PlansKept ==
  ASSUME [Next]_vars, ~StartRun, ~Begin,
         ~(WorkerDeath \/ RevalidateReplaced \/ ReceiveEvidence \/ RollBack \/ ResumePlan)
  PROVE  plans' = plans
<1>1. ASSUME \/ HelloMissing \/ HelloStale \/ StaleFrame \/ Register \/ Replace
             \/ ReplacementRefused \/ AcceptTimeout \/ Enter \/ LeaveLoop \/ EvidenceLost
             \/ Finish \/ Crash
             \/ \E p \in Processes : StartProcess(p) \/ ProcessStep(p) \/ KillProcess(p)
             \/ UNCHANGED vars
      PROVE  plans' = plans
  BY <1>1, Zenon DEF HelloMissing, HelloStale, StaleFrame, Register, Replace,
     ReplacementRefused, AcceptTimeout, Enter, LeaveLoop, EvidenceLost, Finish, Crash,
     StartProcess, ProcessStep, KillProcess, vars, engine
<1>2. ASSUME GrantStage \/ ReceiveReport \/ Stop \/ Save \/ SaveRollback
      PROVE  plans' = plans
  BY <1>2, Zenon DEF GrantStage, ReceiveReport, Stop, Save, SaveRollback, engine
<1> QED
  BY <1>1, <1>2, Zenon DEF Next, CoordinatorStep

LEMMA PlanMoves ==
  ASSUME SessionTyped, [Next]_vars, ~StartRun, ~Begin
  PROVE  Moves(Plan, Plan')
<1>1. ASSUME plans' = plans PROVE Moves(Plan, Plan')
  <2>1. Plan' = Plan /\ Plan.totalAttempts \in Nat
    BY <1>1, EngineFacts DEF Plan, SessionTyped
  <2> QED
    BY <2>1 DEF Moves, Stays
<1>2. ASSUME ~(WorkerDeath \/ RevalidateReplaced \/ ReceiveEvidence \/ RollBack \/ ResumePlan)
      PROVE  plans' = plans
  BY <1>2, PlansKept
<1>3. CASE WorkerDeath \/ RevalidateReplaced \/ ReceiveEvidence \/ RollBack \/ ResumePlan
  <2>1. \/ plans' = plans \/ E!RequireRevalidation(1) \/ E!Resume(1) \/ E!Rollback(1)
        \/ E!Revalidate(1) \/ \E f : E!AdvanceWith(1, SnapshotOf(f))
    BY <1>3, Zenon DEF WorkerDeath, RevalidateReplaced, ReceiveEvidence, RollBack, ResumePlan,
       engine
  <2>2. EngineTyped /\ Sane(Plan)
    BY DEF SessionTyped, DurableTyped
  <2> QED
    BY <1>1, <2>1, <2>2, RequireEffect, ResumeEffect, RollbackEffect, RevalidateEffect,
       AdvanceEffect, SnapshotType, Zenon DEF Moves
<1> QED
  BY <1>1, <1>2, <1>3

\* The generation of a plan never goes back.
LEMMA GenerationKept ==
  ASSUME SessionTyped, Moves(Plan, Plan')
  PROVE  /\ Plan.generation \in Nat /\ Plan'.generation \in Nat
         /\ Plan'.generation = Plan.generation \/ Plan'.generation = Plan.generation + 1
         /\ Plan'.generation >= Plan.generation
<1>1. Plan.generation \in Nat
  BY EngineFacts DEF SessionTyped
<1>2. Plan'.generation = Plan.generation \/ Plan'.generation = Plan.generation + 1
  BY DEF Moves, Stays, Climbs, Completes, Renews
<1> QED
  BY <1>1, <1>2

\* A step that grants nothing, and does not drive the plan that was granted.
LEMMA HoldersKept ==
  ASSUME SessionTyped, HoldersInv, granted' = granted, Moves(Plan, Plan'),
         at' \in Driving =>
           \/ at \in Driving /\ applier' = applier /\ peers' = peers
           \/ \A g \in granted : g[1] < Plan'.generation,
         at' = "begin" \/ (at' \in {"accept", "stale"} /\ waitFor' = "workers") => granted = {},
         at' = "enter" \/ (at' \in {"accept", "stale"} /\ waitFor' = "extra") =>
           \A g \in granted : g[1] < Plan'.generation
  PROVE  HoldersInv'
<1>1. \A g \in granted : g[1] \in Nat
  BY DEF SessionTyped, ControlTyped, Grants
<1>2. /\ Plan.generation \in Nat /\ Plan'.generation \in Nat
      /\ Plan'.generation >= Plan.generation
  BY GenerationKept
<1>3. \A g \in granted : g[1] <= Plan'.generation
  BY <1>1, <1>2 DEF HoldersInv
<1>4. ASSUME at' \in Driving, NEW g \in granted, g[1] = Plan'.generation
      PROVE  g[3] = Peer(applier)'
  <2>1. CASE at \in Driving /\ applier' = applier /\ peers' = peers
    <3>1. g[1] = Plan.generation
      BY <1>1, <1>2, <1>4 DEF HoldersInv
    <3> QED
      BY <2>1, <3>1 DEF HoldersInv, Peer
  <2>2. CASE \A h \in granted : h[1] < Plan'.generation
    BY <1>1, <1>2, <1>4, <2>2
  <2> QED
    BY <1>4, <2>1, <2>2
<1>5. (Plan.generation)' = Plan'.generation
  OBVIOUS
<1> HIDE DEF Driving
<1> QED
  BY <1>3, <1>4, <1>5 DEF HoldersInv

LEMMA HoldersStep ==
  ASSUME SessionTyped, HoldersInv, [Next]_vars
  PROVE  HoldersInv'
<1>1. CASE StartRun
  BY <1>1 DEF StartRun, HoldersInv
<1>2. CASE Begin
  <2>1. granted = {} /\ granted' = {}
    BY <1>2, Zenon DEF Begin, HoldersInv, history
  <2> QED
    BY <2>1 DEF HoldersInv
<1>3. CASE GrantStage
  <2>1. /\ at = "loop" /\ plans' = plans /\ applier' = applier /\ peers' = peers
        /\ granted' = granted \cup {<<Plan.generation, Plan.attempt, Peer(applier)>>}
        /\ at' \in {"report", "finish"}
    BY <1>3, Zenon DEF GrantStage, End
  <2>2. Plan' = Plan /\ Peer(applier)' = Peer(applier) /\ Plan.generation \in Nat
    BY <2>1, EngineFacts DEF Plan, Peer, SessionTyped
  <2>3. \A g \in granted : g[1] = Plan.generation => g[3] = Peer(applier)
    BY <2>1 DEF HoldersInv, Driving
  <2> DEFINE n == <<Plan.generation, Plan.attempt, Peer(applier)>>
  <2>4. n[1] = Plan.generation /\ n[3] = Peer(applier)
    OBVIOUS
  <2>5. granted' = granted \cup {n}
    BY <2>1
  <2> HIDE DEF n
  <2>6. \A g \in granted' : g[1] <= Plan.generation
    BY <2>2, <2>4, <2>5 DEF HoldersInv
  <2>7. \A g \in granted' : g[1] = Plan.generation => g[3] = Peer(applier)
    BY <2>3, <2>4, <2>5
  <2>8. \A g, h \in granted' : g[1] = h[1] => g[3] = h[3]
    BY <2>3, <2>4, <2>5 DEF HoldersInv
  <2> QED
    BY <2>1, <2>2, <2>6, <2>7, <2>8 DEF HoldersInv
<1>4. CASE ~StartRun /\ ~Begin /\ ~GrantStage
  <2>1. Moves(Plan, Plan')
    BY <1>4, PlanMoves
  <2>2. CASE /\ at \in {"accept", "stale"} /\ waitFor' = waitFor /\ granted' = granted
             /\ plans' = plans
             /\ (\E x : Accepted(x)) \/ at' \in {"accept", "stale", "finish"}
    <3>1. waitFor \in {"workers", "extra", "replacement"} /\ Plan' = Plan
      BY <2>2 DEF SessionTyped, ControlTyped, Plan
    <3>2. CASE waitFor = "workers"
      <4>1. granted = {} /\ granted' = {}
        BY <2>2, <3>2 DEF HoldersInv
      <4> QED
        BY <4>1 DEF HoldersInv
    <3>3. CASE waitFor = "extra"
      <4>1. \A g \in granted : g[1] < Plan'.generation
        BY <2>2, <3>1, <3>3 DEF HoldersInv
      <4>2. at' # "begin"
        BY <2>2, <3>3, AcceptedFacts
      <4> QED
        BY <2>1, <2>2, <3>3, <4>1, <4>2, HoldersKept
    <3>4. CASE waitFor = "replacement"
      <4>1. at' \in {"revalidate", "accept", "stale", "finish"}
        BY <2>2, <3>4, AcceptedFacts
      <4> QED
        BY <2>1, <2>2, <3>4, <4>1, HoldersKept DEF Driving
    <3> QED
      BY <3>1, <3>2, <3>3, <3>4
  <2>3. CASE \/ HelloMissing \/ StaleFrame \/ Register \/ Replace \/ ReplacementRefused
             \/ HelloStale \/ AcceptTimeout
    <3>1. at \in {"accept", "stale"} /\ waitFor' = waitFor /\ granted' = granted /\ plans' = plans
      BY <2>3, Zenon DEF HelloMissing, StaleFrame, Register, Replace, ReplacementRefused,
         HelloStale, AcceptTimeout, Hello, Greets, engine, history
    <3>2. (\E x : Accepted(x)) \/ at' \in {"accept", "stale", "finish"}
      <4>1. CASE HelloMissing
        BY <4>1, Zenon DEF HelloMissing, End
      <4>2. CASE StaleFrame
        BY <4>2, Zenon DEF StaleFrame
      <4>3. CASE Register
        BY <4>3, Zenon DEF Register, End
      <4>4. CASE Replace
        BY <4>4, Zenon DEF Replace, End
      <4>5. CASE ReplacementRefused
        BY <4>5, Zenon DEF ReplacementRefused, End
      <4>6. CASE HelloStale
        BY <4>6, Zenon DEF HelloStale
      <4>7. CASE AcceptTimeout
        BY <4>7, Zenon DEF AcceptTimeout, End
      <4> QED
        BY <2>3, <4>1, <4>2, <4>3, <4>4, <4>5, <4>6, <4>7
    <3> QED
      BY <2>2, <3>1, <3>2, Zenon
  <2>4. CASE Enter
    <3>1. at = "enter" /\ granted' = granted /\ plans' = plans /\ at' \in {"loop", "finish"}
      BY <2>4, Zenon DEF Enter, End, engine, history
    <3>2. \A g \in granted : g[1] < Plan'.generation
      BY <3>1 DEF HoldersInv, Plan
    <3> QED
      BY <2>1, <3>1, <3>2, HoldersKept
  <2>5. CASE \/ LeaveLoop \/ Stop \/ EvidenceLost \/ RollBack \/ SaveRollback \/ ResumePlan \/ Save
             \/ ReceiveReport \/ ReceiveEvidence
    <3>1. /\ at \in Driving /\ at' \in Driving \cup {"finish"} /\ applier' = applier
          /\ peers' = peers /\ granted' = granted
      <4>1. CASE LeaveLoop \/ Stop \/ EvidenceLost
        BY <4>1, Zenon DEF LeaveLoop, Stop, EvidenceLost, End, Driving, history
      <4>2. CASE RollBack \/ SaveRollback \/ ResumePlan \/ Save
        BY <4>2, Zenon DEF RollBack, SaveRollback, ResumePlan, Save, Write, End, Driving, history
      <4>3. CASE ReceiveReport
        BY <4>3, Zenon DEF ReceiveReport, End, Driving, history
      <4>4. CASE ReceiveEvidence
        BY <4>4, Zenon DEF ReceiveEvidence, Driving, history
      <4> QED
        BY <2>5, <4>1, <4>2, <4>3, <4>4
    <3> QED
      BY <2>1, <3>1, HoldersKept DEF Driving
  <2>6. CASE RevalidateReplaced
    <3>1. /\ at = "revalidate" /\ granted' = granted
          /\ at' = "finish" \/ E!Revalidate(1)
          /\ at' \in {"accept", "loop", "finish"}
          /\ at' = "accept" => waitFor' = "extra"
      BY <2>6, Zenon DEF RevalidateReplaced, End, history
    <3>2. CASE at' = "finish"
      BY <2>1, <3>1, <3>2, HoldersKept DEF Driving
    <3>3. CASE E!Revalidate(1)
      <4>1. Plan'.generation = Plan.generation + 1 /\ Plan.generation \in Nat
        BY <3>3, RevalidateEffect, EngineFacts DEF Renews, SessionTyped
      <4>2. \A g \in granted : g[1] \in Nat /\ g[1] <= Plan.generation
        BY DEF HoldersInv, SessionTyped, ControlTyped, Grants
      <4>3. \A g \in granted : g[1] < Plan'.generation
        BY <4>1, <4>2
      <4> QED
        BY <2>1, <3>1, <4>3, HoldersKept
    <3> QED
      BY <3>1, <3>2, <3>3
  <2>7. CASE WorkerDeath \/ Finish \/ Crash
    <3>1. /\ granted' = granted /\ at' \in {"accept", "done", "down"}
          /\ at' = "accept" => waitFor' = "replacement"
      BY <2>7, Zenon DEF WorkerDeath, Finish, Crash, history
    <3> QED
      BY <2>1, <3>1, HoldersKept DEF Driving
  <2>8. ASSUME (\E p \in Processes : StartProcess(p) \/ ProcessStep(p) \/ KillProcess(p))
               \/ UNCHANGED vars
        PROVE  HoldersInv'
    <3>1. /\ granted' = granted /\ plans' = plans /\ at' = at /\ waitFor' = waitFor
          /\ applier' = applier /\ peers' = peers
      BY <2>8, ProcessKinds DEF vars, engine, control, history
    <3>2. Plan' = Plan /\ (Plan.generation)' = Plan.generation /\ Peer(applier)' = Peer(applier)
      BY <3>1 DEF Plan, Peer
    <3> QED
      BY <3>1, <3>2 DEF HoldersInv
  <2> QED
    BY <1>4, <2>3, <2>4, <2>5, <2>6, <2>7, <2>8, Zenon DEF Next, CoordinatorStep
<1> QED
  BY <1>1, <1>2, <1>3, <1>4

LEMMA HoldersInvariant == Spec => []HoldersInv
<1>1. Init => HoldersInv
  BY DEF Init, HoldersInv
<1>2. SessionTyped /\ HoldersInv /\ [Next]_vars => HoldersInv'
  BY HoldersStep
<1> QED
  BY <1>1, <1>2, SessionTypedInvariant, PTL DEF Spec

\* An attempt is granted to one process only: a grant that may still be out is of an
\* older generation of the plan than the one a replacement of the lost applier gets.
THEOREM OneHolderCorrect == Spec => []OneHolderPerAttempt
<1>1. HoldersInv => OneHolderPerAttempt
  BY Zenon DEF HoldersInv, OneHolderPerAttempt
<1> QED
  BY <1>1, HoldersInvariant, PTL

-----------------------------------------------------------------------------
(* What the operations on a link do to its frames.                         *)

LEMMA LinkFields ==
  ASSUME NEW l \in Links
  PROVE  /\ l.down \in Seq(Frames) /\ l.up \in Seq(Frames)
         /\ l.coordinator \in Ends /\ l.worker \in Ends
BY DEF Links

\* A frame sent is the last in its queue, if the other end is open.
LEMMA SentFacts ==
  ASSUME NEW l \in Links, NEW f \in Frames
  PROVE  /\ LET m == SentDown(l, f) IN
            /\ m.coordinator = l.coordinator /\ m.worker = l.worker /\ m.up = l.up
            /\ l.worker # "open" => m.down = l.down
            /\ l.worker = "open" => m.down = Append(l.down, f)
         /\ LET m == SentUp(l, f) IN
            /\ m.coordinator = l.coordinator /\ m.worker = l.worker /\ m.down = l.down
            /\ l.coordinator # "open" => m.up = l.up
            /\ l.coordinator = "open" => m.up = Append(l.up, f)
<1> DEFINE d == Append(l.down, f)
           u == Append(l.up, f)
<1>1. /\ SentDown(l, f) = IF l.worker = "open" THEN [l EXCEPT !.down = d] ELSE l
      /\ SentUp(l, f) = IF l.coordinator = "open" THEN [l EXCEPT !.up = u] ELSE l
  BY DEF SentDown, SentUp, Links
<1> HIDE DEF d, u
<1>2. /\ SentDown(l, f).coordinator = l.coordinator /\ SentDown(l, f).worker = l.worker
      /\ SentDown(l, f).up = l.up
      /\ l.worker # "open" => SentDown(l, f).down = l.down
      /\ l.worker = "open" => SentDown(l, f).down = d
  BY <1>1 DEF Links
<1>3. /\ SentUp(l, f).coordinator = l.coordinator /\ SentUp(l, f).worker = l.worker
      /\ SentUp(l, f).down = l.down
      /\ l.coordinator # "open" => SentUp(l, f).up = l.up
      /\ l.coordinator = "open" => SentUp(l, f).up = u
  BY <1>1 DEF Links
<1> QED
  BY <1>2, <1>3 DEF d, u

LEMMA ReadFacts ==
  ASSUME NEW l \in Links
  PROVE  /\ LET m == DownRead(l) IN
            /\ m.coordinator = l.coordinator /\ m.worker = l.worker /\ m.up = l.up
            /\ m.down = Rest(l.down)
         /\ LET m == UpRead(l) IN
            /\ m.coordinator = l.coordinator /\ m.worker = l.worker /\ m.down = l.down
            /\ m.up = Rest(l.up)
<1> DEFINE d == Rest(l.down)
           u == Rest(l.up)
<1>1. DownRead(l) = [l EXCEPT !.down = d] /\ UpRead(l) = [l EXCEPT !.up = u]
  BY DEF DownRead, UpRead
<1> HIDE DEF d, u
<1>2. /\ DownRead(l).coordinator = l.coordinator /\ DownRead(l).worker = l.worker
      /\ DownRead(l).up = l.up /\ DownRead(l).down = d
      /\ UpRead(l).coordinator = l.coordinator /\ UpRead(l).worker = l.worker
      /\ UpRead(l).down = l.down /\ UpRead(l).up = u
  BY <1>1 DEF Links
<1> QED
  BY <1>2 DEF d, u

LEMMA ClosedFacts ==
  ASSUME NEW l \in Links
  PROVE  /\ LET m == ClosedByCoordinator(l) IN
            /\ m.coordinator = "closed" /\ m.worker = l.worker
            /\ m.down = l.down /\ m.up = <<>>
         /\ LET m == ClosedByWorker(l) IN
            /\ m.coordinator = l.coordinator /\ m.worker = "closed"
            /\ m.down = <<>> /\ m.up = l.up
BY DEF ClosedByCoordinator, ClosedByWorker, Links

\* What is left of a queue once its head is read.
LEMMA RestFacts ==
  ASSUME NEW queue \in Seq(Frames)
  PROVE  /\ Rest(queue) \in Seq(Frames)
         /\ queue # <<>> => Len(Rest(queue)) = Len(queue) - 1
         /\ \A i \in DOMAIN Rest(queue) : i + 1 \in DOMAIN queue /\ Rest(queue)[i] = queue[i + 1]
         /\ Len(queue) <= 1 => Rest(queue) = <<>>
<1>1. CASE queue = <<>>
  BY <1>1 DEF Rest
<1>2. CASE queue # <<>>
  <2>1. Rest(queue) = Tail(queue)
    BY <1>2 DEF Rest
  <2>2. Len(queue) \in Nat /\ Len(queue) >= 1
    BY <1>2
  <2>3. Tail(queue) \in Seq(Frames) /\ Len(Tail(queue)) = Len(queue) - 1
    BY <1>2, <2>2
  <2>4. \A i \in DOMAIN Tail(queue) : i + 1 \in DOMAIN queue /\ Tail(queue)[i] = queue[i + 1]
    BY <1>2, <2>2, <2>3
  <2>5. Len(queue) <= 1 => Tail(queue) = <<>>
    BY <2>2, <2>3
  <2> QED
    BY <2>1, <2>3, <2>4, <2>5
<1> QED
  BY <1>1, <1>2

LEMMA AppendFacts ==
  ASSUME NEW queue \in Seq(Frames), NEW f \in Frames
  PROVE  /\ Len(Append(queue, f)) = Len(queue) + 1
         /\ \A i \in DOMAIN Append(queue, f) :
              \/ i \in DOMAIN queue /\ Append(queue, f)[i] = queue[i]
              \/ i = Len(queue) + 1 /\ Append(queue, f)[i] = f
         /\ queue = <<>> => Append(queue, f) = <<f>>
         /\ Append(queue, f) # <<>>
<1>1. Len(Append(queue, f)) = Len(queue) + 1 /\ Append(queue, f) # <<>>
  <2>1. Len(Append(queue, f)) = Len(queue) + 1 /\ Len(queue) \in Nat
    OBVIOUS
  <2>2. Len(<<>>) = 0 /\ Len(queue) + 1 # 0
    BY <2>1
  <2> QED
    BY <2>1, <2>2, Zenon
<1>2. \A i \in DOMAIN Append(queue, f) :
        \/ i \in DOMAIN queue /\ Append(queue, f)[i] = queue[i]
        \/ i = Len(queue) + 1 /\ Append(queue, f)[i] = f
  <2>1. DOMAIN Append(queue, f) = 1..(Len(queue) + 1) /\ Len(queue) \in Nat
    BY <1>1
  <2>2. Append(queue, f)[Len(queue) + 1] = f
    OBVIOUS
  <2>3. \A i \in 1..Len(queue) : Append(queue, f)[i] = queue[i]
    OBVIOUS
  <2>4. DOMAIN queue = 1..Len(queue)
    OBVIOUS
  <2>5. \A i \in 1..(Len(queue) + 1) : i \in 1..Len(queue) \/ i = Len(queue) + 1
    BY <2>1
  <2> QED
    BY <2>1, <2>2, <2>3, <2>4, <2>5, Zenon
<1>3. queue = <<>> => Append(queue, f) = <<f>>
  OBVIOUS
<1> QED
  BY <1>1, <1>2, <1>3

-----------------------------------------------------------------------------
(* The links of the processes stay sound.                                  *)

\* A worker reads a frame and answers nothing.
LEMMA ReadSound ==
  ASSUME NEW l \in Links, NEW s \in Running, NEW t \in Running, NEW role, SoundLink(l, s, role),
         l.down # <<>>, t # "greeting"
  PROVE  SoundLink(DownRead(l), t, role)
<1> DEFINE m == DownRead(l)
<1>1. m.coordinator = l.coordinator /\ m.worker = l.worker /\ m.up = l.up /\ m.down = Rest(l.down)
  BY ReadFacts
<1>2. /\ l.down \in Seq(Frames) /\ Len(Rest(l.down)) = Len(l.down) - 1 /\ Len(l.down) \in Nat
      /\ Len(Rest(l.down)) \in Nat
      /\ \A i \in DOMAIN Rest(l.down) :
           i + 1 \in DOMAIN l.down /\ Rest(l.down)[i] = l.down[i + 1] /\ i \in Nat
  <2>1. l.down \in Seq(Frames)
    BY LinkFields
  <2>2. Rest(l.down) \in Seq(Frames)
    BY <2>1, RestFacts
  <2>3. \A i \in DOMAIN Rest(l.down) : i \in Nat
    BY <2>2
  <2>4. Len(l.down) \in Nat /\ Len(Rest(l.down)) \in Nat
    BY <2>1, <2>2
  <2> QED
    BY <2>1, <2>3, <2>4, RestFacts
<1> HIDE DEF m
<1>3. NoneAsked(l) => NoneAsked(m)
  BY <1>1, <1>2, Zenon DEF NoneAsked
<1>4. s # "new" /\ t # "new" /\ l.worker = "open"
  BY DEF Running, SoundLink
<1>5. ASSUME l.coordinator = "open", NEW i \in DOMAIN m.down, Question(m.down[i])
      PROVE  i = Len(m.down) /\ m.up = <<>>
  <2>1. i + 1 \in DOMAIN l.down /\ m.down[i] = l.down[i + 1] /\ i \in Nat
    BY <1>1, <1>2
  <2>2. i + 1 = Len(l.down) /\ l.up = <<>>
    BY <1>5, <2>1 DEF SoundLink
  <2>3. i = Len(l.down) - 1
    BY <1>2, <2>1, <2>2
  <2> QED
    BY <1>1, <1>2, <2>2, <2>3
<1> QED
  BY <1>1, <1>3, <1>4, <1>5 DEF SoundLink, m

\* A worker reads a frame and answers it.
LEMMA AnswerSound ==
  ASSUME NEW l \in Links, NEW s \in Running, NEW t \in Running, NEW role, SoundLink(l, s, role),
         l.down # <<>>, t # "greeting", NEW a \in Frames,
         l.coordinator = "open" => l.up = <<>> /\ NoneAsked(DownRead(l))
  PROVE  /\ SoundLink(Answered(l, a), t, role)
         /\ Answered(l, a).coordinator = l.coordinator
         /\ l.coordinator = "open" => Answered(l, a).up = <<a>> /\ NoneAsked(Answered(l, a))
<1> DEFINE r == DownRead(l)
           m == Answered(l, a)
<1>1. r \in Links /\ SoundLink(r, t, role)
  BY ReadSound, LinkTypes
<1>2. r.coordinator = l.coordinator /\ r.worker = l.worker /\ r.up = l.up
  BY ReadFacts
<1>3. /\ m.coordinator = r.coordinator /\ m.worker = r.worker /\ m.down = r.down
      /\ r.coordinator # "open" => m.up = r.up
      /\ r.coordinator = "open" => m.up = Append(r.up, a)
  BY <1>1, SentFacts DEF Answered
<1>4. l.coordinator = "open" => m.up = <<a>>
  BY <1>2, <1>3
<1>5. r.coordinator # "open" => r.up = <<>>
  BY <1>1 DEF SoundLink
<1> HIDE DEF r, m
<1>6. l.coordinator = "open" => NoneAsked(m)
  BY <1>3, Zenon DEF NoneAsked, r
<1>7. Len(m.up) <= 1
  BY <1>2, <1>3, <1>4, <1>5
<1>8. t # "new" /\ t # "greeting"
  BY DEF Running
<1>9. SoundLink(m, t, role)
  BY <1>1, <1>2, <1>3, <1>5, <1>6, <1>7, <1>8, Zenon DEF SoundLink, NoneAsked
<1> QED
  BY <1>2, <1>3, <1>4, <1>6, <1>9 DEF m

\* A worker leaves.
LEMMA ExitSound ==
  ASSUME NEW l \in Links, NEW s \in Running, NEW t \in {"ended", "killed"}, NEW role,
         SoundLink(l, s, role)
  PROVE  SoundLink(ClosedByWorker(l), t, role)
<1> DEFINE m == ClosedByWorker(l)
<1>1. m.coordinator = l.coordinator /\ m.worker = "closed" /\ m.down = <<>> /\ m.up = l.up
  BY ClosedFacts
<1> HIDE DEF m
<1>2. t # "new" /\ t \notin Running /\ t # "greeting"
  BY DEF Running
<1> QED
  BY <1>1, <1>2 DEF SoundLink, NoneAsked, m

\* What a worker answers to what it is asked.
AnswerTo(q) == IF q.kind = "STAGE_GRANT" THEN ReportOf(q) ELSE EvidenceOf(q)

\* What stays true of a link when its process moves.
Follows(l, s, m, t, role) ==
  /\ SoundLink(m, t, role) /\ m.coordinator = l.coordinator /\ t # "new"
  /\ l.coordinator = "open" /\ NoneAsked(l) => NoneAsked(m)
  /\ NotHello(l) => NotHello(m)
  /\ role # "replay" /\ Calm(l) => Calm(m)
  /\ QueuedLink(l, s) => QueuedLink(m, t)
  /\ \A i \in DOMAIN m.down : \E j \in DOMAIN l.down : m.down[i] = l.down[j]
  /\ \A q \in StageGrants \cup Requests :
       role # "replay" /\ Answering(l, q, AnswerTo(q)) => Answering(m, q, AnswerTo(q))

\* The frames of a link whose head was read were there before.
LEMMA ReadFrames ==
  ASSUME NEW l \in Links
  PROVE  /\ \A i \in DOMAIN DownRead(l).down :
              \E j \in DOMAIN l.down : DownRead(l).down[i] = l.down[j]
         /\ NoneAsked(l) => NoneAsked(DownRead(l))
<1> DEFINE m == DownRead(l)
<1>1. m.down = Rest(l.down) /\ l.down \in Seq(Frames)
  BY ReadFacts, LinkFields
<1> HIDE DEF m
<1>2. \A i \in DOMAIN m.down : \E j \in DOMAIN l.down : m.down[i] = l.down[j]
  <2>1. \A i \in DOMAIN Rest(l.down) :
          i + 1 \in DOMAIN l.down /\ Rest(l.down)[i] = l.down[i + 1]
    BY <1>1, RestFacts
  <2> QED
    BY <1>1, <2>1, Zenon
<1> QED
  BY <1>2, Zenon DEF NoneAsked, m

LEMMA ReadFollows ==
  ASSUME NEW l \in Links, NEW s \in Running, NEW t \in Running, NEW role, SoundLink(l, s, role),
         l.down # <<>>, t # "greeting"
  PROVE  Follows(l, s, DownRead(l), t, role)
<1> DEFINE m == DownRead(l)
<1>1. SoundLink(m, t, role)
  BY ReadSound
<1>2. m.coordinator = l.coordinator /\ m.up = l.up
  BY ReadFacts
<1>3. \A i \in DOMAIN m.down : \E j \in DOMAIN l.down : m.down[i] = l.down[j]
  BY ReadFrames
<1>4. NoneAsked(l) => NoneAsked(m)
  BY ReadFrames
<1> HIDE DEF m
<1>5. ASSUME NEW q, NEW a, Answering(l, q, a) PROVE Answering(m, q, a)
  BY <1>2, <1>3, <1>4, <1>5, Zenon DEF Answering
<1>7. t # "new"
  BY DEF Running
<1>6. Follows(l, s, m, t, role)
  BY <1>1, <1>2, <1>3, <1>4, <1>5, <1>7, Zenon DEF Follows, NotHello, Calm, QueuedLink
<1> QED
  BY <1>6 DEF m

\* A process that is asked answers what it is asked.
LEMMA ReplyFollows ==
  ASSUME NEW l \in Links, NEW s \in Running, NEW role, SoundLink(l, s, role), s # "greeting",
         l.down # <<>>, l.down[1] \in StageGrants \cup Requests,
         AnswerTo(l.down[1]) \in Reports \cup Evidence
  PROVE  Follows(l, s, Answered(l, AnswerTo(l.down[1])), s, role)
<1> DEFINE g == l.down[1]
           r == DownRead(l)
           a == AnswerTo(g)
           m == Answered(l, a)
<1>1. Question(g) /\ a \in Frames /\ a # HelloFrame /\ 1 \in DOMAIN l.down
  <2>1. Question(g)
    BY DEF StageGrants, Requests, Question
  <2>2. a # HelloFrame
    BY DEF Reports, Evidence, HelloFrame
  <2>3. 1 \in DOMAIN l.down
    BY LinkFields
  <2>4. a \in Frames
    BY FrameFacts
  <2> QED
    BY <2>1, <2>2, <2>3, <2>4
<1>2. ~NoneAsked(l)
  BY <1>1 DEF NoneAsked
<1>3. l.coordinator = "open" => l.up = <<>> /\ r.down = <<>>
  <2>1. r.down = Rest(l.down) /\ l.down \in Seq(Frames)
    BY ReadFacts, LinkFields
  <2> HIDE DEF r
  <2>2. l.coordinator = "open" => 1 = Len(l.down) /\ l.up = <<>>
    BY <1>1 DEF SoundLink
  <2>3. Len(l.down) <= 1 => Rest(l.down) = <<>>
    BY <2>1, RestFacts, Zenon
  <2>4. 1 <= 1
    OBVIOUS
  <2> QED
    BY <2>1, <2>2, <2>3, <2>4, Zenon
<1>4. l.coordinator = "open" => NoneAsked(r)
  BY <1>3 DEF NoneAsked
<1>5. /\ SoundLink(m, s, role) /\ m.coordinator = l.coordinator
      /\ l.coordinator = "open" => m.up = <<a>> /\ NoneAsked(m)
  BY <1>1, <1>3, <1>4, AnswerSound
<1>6. \A i \in DOMAIN m.down : \E j \in DOMAIN l.down : m.down[i] = l.down[j]
  <2>1. m.down = r.down
    BY <1>1, SentFacts, LinkTypes DEF Answered
  <2>2. \A i \in DOMAIN r.down : \E j \in DOMAIN l.down : r.down[i] = l.down[j]
    BY ReadFrames
  <2> HIDE DEF r, m
  <2> QED
    BY <2>1, <2>2, Zenon
<1>7. l.coordinator # "open" => m.up = <<>>
  BY <1>5 DEF SoundLink
<1> HIDE DEF m
<1>8. NotHello(m)
  <2>1. <<>> # <<HelloFrame>>
    OBVIOUS
  <2>2. <<a>> # <<HelloFrame>>
    BY <1>1
  <2> QED
    BY <1>5, <1>7, <2>1, <2>2, Zenon DEF NotHello
<1>9. ASSUME NEW q, Answering(l, q, AnswerTo(q))
      PROVE  Answering(m, q, AnswerTo(q))
  <2>1. l.coordinator = "open" => g = q
    BY <1>1, <1>2, <1>9, Zenon DEF Answering
  <2> QED
    BY <1>5, <2>1, Zenon DEF Answering
<1>10. Calm(l) => Calm(m)
  BY <1>2, <1>5, Zenon DEF Calm
<1>12. s # "new"
  BY DEF Running
<1>11. Follows(l, s, m, s, role)
  BY <1>2, <1>5, <1>6, <1>8, <1>9, <1>10, <1>12, Zenon DEF Follows, QueuedLink
<1> QED
  BY <1>11 DEF m

\* A replay process sends what it has read.
LEMMA ReplayFollows ==
  ASSUME NEW l \in Links, SoundLink(l, "greeting", "replay"), l.down # <<>>, NEW a \in Reports
  PROVE  Follows(l, "greeting", Answered(l, a), "replaying", "replay")
<1> DEFINE r == DownRead(l)
           m == Answered(l, a)
<1>1. /\ a \in Frames /\ a # HelloFrame /\ "greeting" \in Running /\ "replaying" \in Running
  BY FrameFacts DEF Reports, HelloFrame, Running
<1>2. l.coordinator = "open" => l.up = <<>> /\ NoneAsked(r)
  BY ReadFrames DEF SoundLink
<1>3. /\ SoundLink(m, "replaying", "replay") /\ m.coordinator = l.coordinator
      /\ l.coordinator = "open" => m.up = <<a>> /\ NoneAsked(m)
  BY <1>1, <1>2, AnswerSound
<1>4. \A i \in DOMAIN m.down : \E j \in DOMAIN l.down : m.down[i] = l.down[j]
  <2>1. m.down = r.down
    BY <1>1, SentFacts, LinkTypes DEF Answered
  <2>2. \A i \in DOMAIN r.down : \E j \in DOMAIN l.down : r.down[i] = l.down[j]
    BY ReadFrames
  <2> HIDE DEF r, m
  <2> QED
    BY <2>1, <2>2, Zenon
<1>5. l.coordinator # "open" => m.up = <<>>
  BY <1>3 DEF SoundLink
<1> HIDE DEF m
<1>6. NotHello(m)
  <2>1. <<>> # <<HelloFrame>>
    OBVIOUS
  <2>2. <<a>> # <<HelloFrame>>
    BY <1>1
  <2> QED
    BY <1>3, <1>5, <2>1, <2>2, Zenon DEF NotHello
<1>7. Follows(l, "greeting", m, "replaying", "replay")
  BY <1>3, <1>4, <1>6, Zenon DEF Follows, QueuedLink
<1> QED
  BY <1>7 DEF m

\* A process that leaves closes its end, and what it sent may still be read.
LEMMA ExitFollows ==
  ASSUME NEW l \in Links, NEW s \in Running, NEW t \in {"ended", "killed"}, NEW role,
         SoundLink(l, s, role)
  PROVE  Follows(l, s, ClosedByWorker(l), t, role)
<1> DEFINE m == ClosedByWorker(l)
<1>1. m.coordinator = l.coordinator /\ m.down = <<>> /\ m.up = l.up
  BY ClosedFacts
<1>2. SoundLink(m, t, role)
  BY ExitSound
<1> HIDE DEF m
<1>3. NoneAsked(m) /\ DOMAIN m.down = {}
  BY <1>1 DEF NoneAsked
<1>5. t # "new"
  OBVIOUS
<1>4. Follows(l, s, m, t, role)
  BY <1>1, <1>2, <1>3, <1>5, Zenon DEF Follows, NotHello, Calm, QueuedLink, Answering
<1> QED
  BY <1>4 DEF m

-----------------------------------------------------------------------------
(* The streams in the steps of the processes.                              *)

StreamInv ==
  /\ SoundLinks /\ Queued /\ Unheard
  /\ PeersKnown /\ PeersCalm /\ NoReplays /\ Asked /\ GrantsKnown

\* One link is changed.
Changes(p, m, t) ==
  link' = [link EXCEPT ![p] = m] /\ proc' = [proc EXCEPT ![p] = t]

\* A process that is connected moves.
LEMMA ProcessFollows ==
  ASSUME SessionTyped, SoundLinks, NEW p \in Processes, ProcessCases(p), ~Connect(p)
  PROVE  /\ \E m, t : Changes(p, m, t) /\ Follows(link[p], proc[p], m, t, RoleOf[p])
         /\ \/ recorded' = recorded
            \/ /\ \E i \in DOMAIN link[p].down : link[p].down[i].kind = "STAGE_GRANT"
               /\ \A q \in Processes \ {p} : recorded'[q] = recorded[q]
<1> DEFINE l == link[p]
<1>1. /\ link \in [Processes -> Links] /\ proc \in [Processes -> ProcStates]
      /\ recorded \in [Processes -> Reports \cup {NotRecorded}] /\ l \in Links
      /\ SoundLink(l, proc[p], RoleOf[p])
  BY DEF SessionTyped, LinksTyped, SoundLinks
<1>2. CASE Welcomed(p)
  <2>1. PICK f \in Incoming(p) : f.kind # "NONE"
    BY <1>2 DEF Welcomed
  <2>2. l.down # <<>> /\ proc[p] = "greeting"
    BY <1>2, <2>1, IncomingFacts DEF Welcomed
  <2> DEFINE m == DownRead(l)
  <2>3. Follows(l, proc[p], m, "serving", RoleOf[p])
    BY <1>1, <2>2, ReadFollows DEF Running
  <2>4. Changes(p, m, "serving") /\ recorded' = recorded
    BY <1>1, <1>2 DEF Welcomed, Become, Changes
  <2> HIDE DEF m
  <2> QED
    BY <2>3, <2>4
<1>3. CASE Report(p)
  <2>1. PICK g \in Incoming(p) :
          /\ g.kind = "STAGE_GRANT"
          /\ link' = [link EXCEPT ![p] = Answered(@, ReportOf(g))]
          /\ recorded' = [recorded EXCEPT ![p] = IF @ = NotRecorded THEN ReportOf(g) ELSE @]
    BY <1>3 DEF Report
  <2>2. g \in StageGrants /\ AnswerTo(g) = ReportOf(g) /\ AnswerTo(g) \in Reports
    BY <2>1, IncomingFacts, AnswerTypes DEF AnswerTo
  <2>3. l.down # <<>> /\ g = l.down[1] /\ 1 \in DOMAIN l.down
    BY <2>1, IncomingFacts
  <2>4. proc[p] = "serving" /\ proc' = proc
    BY <1>3 DEF Report
  <2> DEFINE m == Answered(l, AnswerTo(g))
  <2>5. Follows(l, proc[p], m, proc[p], RoleOf[p])
    BY <1>1, <2>2, <2>3, <2>4, ReplyFollows DEF Running
  <2>6. Changes(p, m, proc[p])
    BY <1>1, <2>1, <2>2, <2>4 DEF Changes
  <2>7. \A q \in Processes \ {p} : recorded'[q] = recorded[q]
    BY <1>1, <2>1
  <2> HIDE DEF m
  <2> QED
    BY <2>1, <2>3, <2>5, <2>6, <2>7
<1>4. CASE Publish(p)
  <2>1. PICK g \in Incoming(p) :
          /\ g.kind = "EVIDENCE_REQUEST"
          /\ link' = [link EXCEPT ![p] = Answered(@, EvidenceOf(g))]
    BY <1>4 DEF Publish, EvidenceOf
  <2>2. g \in Requests /\ AnswerTo(g) = EvidenceOf(g) /\ AnswerTo(g) \in Evidence
    BY <2>1, IncomingFacts, AnswerTypes DEF AnswerTo
  <2>3. l.down # <<>> /\ g = l.down[1]
    BY <2>1, IncomingFacts
  <2>4. proc[p] = "serving" /\ proc' = proc /\ recorded' = recorded
    BY <1>4 DEF Publish
  <2> DEFINE m == Answered(l, AnswerTo(g))
  <2>5. Follows(l, proc[p], m, proc[p], RoleOf[p])
    BY <1>1, <2>2, <2>3, <2>4, ReplyFollows DEF Running
  <2>6. Changes(p, m, proc[p])
    BY <1>1, <2>1, <2>2, <2>4 DEF Changes
  <2> HIDE DEF m
  <2> QED
    BY <2>4, <2>5, <2>6
<1>5. CASE Replay(p)
  <2>1. PICK f \in Incoming(p) : f.kind # "NONE"
    BY <1>5 DEF Replay
  <2>2. l.down # <<>> /\ proc[p] = "greeting" /\ RoleOf[p] = "replay"
    BY <1>5, <2>1, IncomingFacts DEF Replay
  <2> DEFINE a == recorded[Source[p]]
             m == Answered(l, a)
  <2>3. a \in Reports
    BY <2>2 DEF SessionTyped, LinksTyped
  <2>4. Follows(l, proc[p], m, "replaying", RoleOf[p])
    BY <1>1, <2>2, <2>3, ReplayFollows
  <2>5. Changes(p, m, "replaying") /\ recorded' = recorded
    BY <1>1, <1>5 DEF Replay, Become, Changes
  <2> HIDE DEF m
  <2> QED
    BY <2>4, <2>5
<1>6. CASE proc[p] \in Running /\ Exits(p)
  <2>1. PICK t \in {"ended", "killed"} : Exit(p, t)
    BY <1>6 DEF Exits
  <2> DEFINE m == ClosedByWorker(l)
  <2>2. Changes(p, m, t) /\ recorded' = recorded
    BY <1>1, <2>1 DEF Exit, Become, Changes
  <2>3. Follows(l, proc[p], m, t, RoleOf[p])
    BY <1>1, <1>6, ExitFollows
  <2> HIDE DEF m
  <2> QED
    BY <2>2, <2>3
<1> QED
  BY <1>2, <1>3, <1>4, <1>5, <1>6 DEF ProcessCases

LEMMA ChangedLink ==
  ASSUME SessionTyped, NEW p \in Processes, NEW m, NEW t, Changes(p, m, t)
  PROVE  /\ link'[p] = m /\ proc'[p] = t
         /\ \A q \in Processes \ {p} : link'[q] = link[q] /\ proc'[q] = proc[q]
BY DEF Changes, SessionTyped, LinksTyped

LEMMA QuestionTypes ==
  ASSUME SessionTyped
  PROVE  /\ at = "report" =>
              /\ GrantOf(applier) \in StageGrants
              /\ AnswerTo(GrantOf(applier)) = ReportOf(GrantOf(applier))
              /\ Peer(applier) \in Processes
         /\ at = "evidence" =>
              /\ Request \in Requests /\ AnswerTo(Request) = EvidenceOf(Request)
              /\ Peer(observer) \in Processes
<1>1. at \in {"report", "evidence"} => applier \in DOMAIN peers /\ observer \in DOMAIN peers
  BY DEF SessionTyped, ControlTyped, Equipped, Driving
<1>2. ASSUME at = "report"
      PROVE  /\ GrantOf(applier) \in StageGrants
             /\ AnswerTo(GrantOf(applier)) = ReportOf(GrantOf(applier))
             /\ Peer(applier) \in Processes
  BY <1>1, <1>2, GrantType, PeerFacts DEF AnswerTo, StageGrants
<1>3. ASSUME at = "evidence"
      PROVE  /\ Request \in Requests /\ AnswerTo(Request) = EvidenceOf(Request)
             /\ Peer(observer) \in Processes
  <2>1. epoch \in Nat /\ now \in Nat /\ recurring \in BOOLEAN /\ peers[observer].boot \in Nat
        /\ Peer(observer) \in Processes
    BY <1>1, <1>3, PeerFacts, EngineFacts DEF SessionTyped, ControlTyped
  <2>2. Request \in Requests
    BY <2>1 DEF Request, Requests
  <2>3. Request.kind = "EVIDENCE_REQUEST"
    BY DEF Request
  <2> QED
    BY <2>1, <2>2, <2>3 DEF AnswerTo
<1> QED
  BY <1>2, <1>3

\* The control of the coordinator in a step of a process.
LEMMA ProcessLeaves ==
  ASSUME NEW p \in Processes, StartProcess(p) \/ ProcessStep(p) \/ KillProcess(p)
  PROVE  /\ UNCHANGED <<at, waitFor, conn, peers, applier, observer, scenario, runs, granted>>
         /\ Equipped' = Equipped /\ Served' = Served
         /\ GrantOf(applier)' = GrantOf(applier) /\ Request' = Request
         /\ \A k : Peer(k)' = Peer(k) /\ \A q : Expected(q)' = Expected(q)
<1>1. UNCHANGED <<at, waitFor, conn, peers, applier, observer, scenario, recurring, runs, granted,
                  engine>>
  BY ProcessKinds
<1>2. UNCHANGED <<epoch, plans, now>>
  BY <1>1 DEF engine
<1> QED
  BY <1>1, <1>2 DEF Equipped, Served, GrantOf, Plan, Request, Peer, Expected

LEMMA ProcessStreams ==
  ASSUME SessionTyped, StreamInv, NEW p \in Processes, ProcessStep(p) \/ KillProcess(p)
  PROVE  StreamInv'
<1>1. /\ UNCHANGED <<at, waitFor, conn, peers, applier, observer, scenario, runs, granted>>
      /\ Equipped' = Equipped /\ Served' = Served
      /\ GrantOf(applier)' = GrantOf(applier) /\ Request' = Request
      /\ \A k : Peer(k)' = Peer(k) /\ \A q : Expected(q)' = Expected(q)
  BY ProcessLeaves
<1>2. /\ backlog \in Seq(Processes) /\ conn \in Seq(Processes) /\ peers \in Seq(PeerRecords)
      /\ at = "stale" => Len(conn) = 1
  BY DEF SessionTyped, ControlTyped
<1>3. ProcessCases(p) /\ backlog' = backlog /\ ~Connect(p)
  <2>1. ProcessCases(p) /\ (StartProcess(p) \/ (backlog' = backlog /\ ~Connect(p)))
    BY ProcessKinds
  <2>2. ~Connect(p) /\ backlog' = backlog
    <3>1. ProcessStep(p) \/ KillProcess(p) => proc[p] # "new" /\ backlog' = backlog
      BY DEF ProcessStep, KillProcess, WorkerStep, Welcomed, Refused, Replay, ReplayAnswered,
         Report, Publish, Leave, LoseLink, Die, Running, control
    <3> QED
      BY <3>1 DEF Connect
  <2> QED
    BY <2>1, <2>2
<1>4. PICK m, t : Changes(p, m, t) /\ Follows(link[p], proc[p], m, t, RoleOf[p])
  BY <1>3, ProcessFollows DEF StreamInv
<1>5. /\ link'[p] = m /\ proc'[p] = t
      /\ \A q \in Processes \ {p} : link'[q] = link[q] /\ proc'[q] = proc[q]
  BY <1>4, ChangedLink
\* What is kept of every link.
<1>6. ASSUME NEW q \in Processes
      PROVE  /\ SoundLink(link[q], proc[q], RoleOf[q]) => SoundLink(link'[q], proc'[q], RoleOf[q])
             /\ proc[q] # "new" => proc'[q] # "new"
             /\ link'[q].coordinator = link[q].coordinator
             /\ link[q].coordinator = "open" /\ NoneAsked(link[q]) => NoneAsked(link'[q])
             /\ NotHello(link[q]) => NotHello(link'[q])
             /\ RoleOf[q] # "replay" /\ Calm(link[q]) => Calm(link'[q])
             /\ QueuedLink(link[q], proc[q]) => QueuedLink(link'[q], proc'[q])
             /\ \A i \in DOMAIN link'[q].down :
                  \E j \in DOMAIN link[q].down : link'[q].down[i] = link[q].down[j]
             /\ \A x \in StageGrants \cup Requests :
                  RoleOf[q] # "replay" /\ Answering(link[q], x, AnswerTo(x)) =>
                    Answering(link'[q], x, AnswerTo(x))
  <2>1. CASE q = p
    BY <1>4, <1>5, <2>1, Zenon DEF Follows
  <2>2. CASE q # p
    BY <1>5, <2>2, Zenon
  <2> QED
    BY <2>1, <2>2
<1>7. SoundLinks'
  BY <1>6, Zenon DEF StreamInv, SoundLinks
<1>8. Queued'
  <2>1. \A i \in DOMAIN backlog : backlog[i] \in Processes
    BY <1>2
  <2> QED
    BY <1>1, <1>3, <1>6, <2>1, Zenon DEF StreamInv, Queued
<1>9. Unheard'
  <2>1. at = "stale" => conn[1] \in Processes
    BY <1>2
  <2> QED
    BY <1>1, <1>6, <2>1, Zenon DEF StreamInv, Unheard
<1>10. \A k \in DOMAIN peers : Peer(k) \in Processes
  BY PeerFacts
<1>11. PeersKnown'
  BY <1>1, <1>6, <1>10, Zenon DEF StreamInv, PeersKnown
<1>12. PeersCalm'
  BY <1>1, <1>6, <1>10, Zenon DEF StreamInv, PeersCalm
<1>13. NoReplays'
  BY <1>1, Zenon DEF StreamInv, NoReplays
<1>14. Asked'
  <2>1. at = "report" => RoleOf[Peer(applier)] # "replay"
    BY DEF StreamInv, NoReplays, Served, Driving
  <2>2. at = "evidence" => RoleOf[Peer(observer)] # "replay"
    BY DEF StreamInv, NoReplays, Equipped, Driving
  <2>3. at = "report" =>
          Answering(link'[Peer(applier)], GrantOf(applier), ReportOf(GrantOf(applier)))
    BY <1>6, <2>1, QuestionTypes, Zenon DEF StreamInv, Asked
  <2>4. at = "evidence" => Answering(link'[Peer(observer)], Request, EvidenceOf(Request))
    BY <1>6, <2>2, QuestionTypes, Zenon DEF StreamInv, Asked
  <2>5. at' = at /\ Peer(applier)' = Peer(applier) /\ Peer(observer)' = Peer(observer)
    BY <1>1 DEF Peer
  <2>6. ReportOf(GrantOf(applier))' = ReportOf(GrantOf(applier))
        /\ EvidenceOf(Request)' = EvidenceOf(Request)
    BY <1>1 DEF ReportOf, EvidenceOf
  <2> QED
    BY <1>1, <2>3, <2>4, <2>5, <2>6, Zenon DEF Asked
<1>15. GrantsKnown'
  <2>1. \A q \in Processes : \A i \in DOMAIN link'[q].down :
          link'[q].down[i].kind = "STAGE_GRANT" => \E g \in granted : g[3] = q
    <3>1. ASSUME NEW q \in Processes, NEW i \in DOMAIN link'[q].down,
                 link'[q].down[i].kind = "STAGE_GRANT"
          PROVE  \E g \in granted : g[3] = q
      <4>1. PICK j \in DOMAIN link[q].down : link'[q].down[i] = link[q].down[j]
        BY <1>6, Zenon
      <4>2. link[q].down[j].kind = "STAGE_GRANT"
        BY <3>1, <4>1
      <4> QED
        BY <4>2 DEF StreamInv, GrantsKnown
    <3> QED
      BY <3>1
  <2>2. runs <= 1 => \A q \in Processes :
          recorded'[q] # NotRecorded => \E g \in granted : g[3] = q
    <3>1. \/ recorded' = recorded
          \/ /\ \E i \in DOMAIN link[p].down : link[p].down[i].kind = "STAGE_GRANT"
             /\ \A q \in Processes \ {p} : recorded'[q] = recorded[q]
      BY <1>3, ProcessFollows DEF StreamInv
    <3> QED
      BY <3>1, Zenon DEF StreamInv, GrantsKnown
  <2>3. at' \in Active => \A g \in granted : \E k \in DOMAIN peers :
          peers[k].worker = WorkerOf[g[3]] /\ peers[k].boot >= BootOf[g[3]]
    BY <1>1, Zenon DEF StreamInv, GrantsKnown
  <2> QED
    BY <1>1, <2>1, <2>2, <2>3, Zenon DEF GrantsKnown
<1> QED
  BY <1>7, <1>8, <1>9, <1>11, <1>12, <1>13, <1>14, <1>15 DEF StreamInv

LEMMA ConnectStreams ==
  ASSUME SessionTyped, StreamInv, NEW p \in Processes, StartProcess(p)
  PROVE  StreamInv'
<1>1. /\ UNCHANGED <<at, waitFor, conn, peers, applier, observer, scenario, runs, granted>>
      /\ Equipped' = Equipped /\ Served' = Served
      /\ GrantOf(applier)' = GrantOf(applier) /\ Request' = Request
      /\ \A k : Peer(k)' = Peer(k) /\ \A q : Expected(q)' = Expected(q)
  BY ProcessLeaves
<1>2. /\ backlog \in Seq(Processes) /\ conn \in Seq(Processes) /\ peers \in Seq(PeerRecords)
      /\ at = "stale" => Len(conn) = 1
  BY DEF SessionTyped, ControlTyped
<1> DEFINE m == SentUp(Opened, HelloFrame)
<1>3. /\ proc[p] = "new" /\ backlog' = Append(backlog, p) /\ at \in Active /\ recorded' = recorded
      /\ Changes(p, m, "greeting")
  BY DEF StartProcess, Connect, Become, Changes, HelloFrame
<1>4. m.coordinator = "open" /\ m.worker = "open" /\ m.down = <<>> /\ m.up = <<HelloFrame>>
  <2>1. /\ m.coordinator = Opened.coordinator /\ m.worker = Opened.worker
        /\ m.down = Opened.down
        /\ Opened.coordinator = "open" => m.up = Append(Opened.up, HelloFrame)
    BY FreshLinks, FrameFacts, SentFacts
  <2> QED
    BY <2>1 DEF Opened
<1> HIDE DEF m
<1>5. /\ link'[p] = m /\ proc'[p] = "greeting"
      /\ \A q \in Processes \ {p} : link'[q] = link[q] /\ proc'[q] = proc[q]
  BY <1>3, ChangedLink
<1>6. link[p] = NoLink /\ link[p].coordinator # "open"
  BY <1>3 DEF StreamInv, SoundLinks, SoundLink, NoLink
<1>7. SoundLink(m, "greeting", RoleOf[p])
  BY <1>4 DEF SoundLink, Running, NoneAsked
<1>8. SoundLinks'
  BY <1>5, <1>7, Zenon DEF StreamInv, SoundLinks
<1>9. Queued'
  <2>1. \A i \in DOMAIN backlog : backlog[i] \in Processes /\ backlog[i] # p
    BY <1>2, <1>3 DEF StreamInv, Queued, QueuedLink
  <2>2. \A i \in DOMAIN backlog' :
          \/ i \in DOMAIN backlog /\ backlog'[i] = backlog[i]
          \/ i = Len(backlog) + 1 /\ backlog'[i] = p
    <3> DEFINE longer == Append(backlog, p)
    <3>1. Len(longer) = Len(backlog) + 1 /\ Len(backlog) \in Nat
      BY <1>2
    <3>2. longer[Len(backlog) + 1] = p
      BY <1>2
    <3>3. \A i \in 1..Len(backlog) : longer[i] = backlog[i]
      BY <1>2
    <3>4. DOMAIN backlog = 1..Len(backlog) /\ DOMAIN longer = 1..(Len(backlog) + 1)
      BY <1>2, <3>1
    <3>5. \A i \in 1..(Len(backlog) + 1) : i \in 1..Len(backlog) \/ i = Len(backlog) + 1
      BY <3>1
    <3>6. backlog' = longer
      BY <1>3
    <3> HIDE DEF longer
    <3> QED
      BY <3>2, <3>3, <3>4, <3>5, <3>6, Zenon
  <2>3. QueuedLink(m, "greeting")
    BY <1>4 DEF QueuedLink
  <2>4. \A i \in DOMAIN backlog' : QueuedLink(link'[backlog'[i]], proc'[backlog'[i]])
    BY <1>3, <1>5, <2>1, <2>2, <2>3, Zenon DEF StreamInv, Queued
  <2>5. ASSUME NEW i \in DOMAIN backlog', NEW j \in DOMAIN backlog', backlog'[i] = backlog'[j]
        PROVE  i = j
    <3>1. \A x, y \in DOMAIN backlog : backlog[x] = backlog[y] => x = y
      BY <1>3, Zenon DEF StreamInv, Queued
    <3> QED
      BY <2>1, <2>2, <2>5, <3>1, Zenon
  <2> QED
    BY <2>4, <2>5, Zenon DEF Queued
<1>10. Unheard'
  <2>1. at = "stale" => conn[1] \in Processes
    BY <1>2
  <2>2. at = "stale" => conn[1] # p
    BY <1>6 DEF StreamInv, Unheard
  <2>3. at = "stale" => link'[conn[1]] = link[conn[1]]
    BY <1>5, <2>1, <2>2
  <2> QED
    BY <1>1, <1>3, <2>3, Zenon DEF StreamInv, Unheard
<1>11. \A k \in DOMAIN peers :
         link'[Peer(k)] = link[Peer(k)] /\ proc'[Peer(k)] = proc[Peer(k)]
  <2>1. \A k \in DOMAIN peers : Peer(k) \in Processes /\ Peer(k) # p
    BY <1>3, PeerFacts DEF StreamInv, PeersKnown
  <2> QED
    BY <1>5, <2>1
<1>12. PeersKnown'
  BY <1>1, <1>11, Zenon DEF StreamInv, PeersKnown
<1>13. PeersCalm'
  BY <1>1, <1>11, Zenon DEF StreamInv, PeersCalm
<1>14. NoReplays'
  BY <1>1, Zenon DEF StreamInv, NoReplays
<1>15. Asked'
  <2>1. at \in {"report", "evidence"} => applier \in DOMAIN peers /\ observer \in DOMAIN peers
    BY DEF SessionTyped, ControlTyped, Equipped, Driving
  <2>2. at' = at /\ Peer(applier)' = Peer(applier) /\ Peer(observer)' = Peer(observer)
    BY <1>1 DEF Peer
  <2>3. ReportOf(GrantOf(applier))' = ReportOf(GrantOf(applier))
        /\ EvidenceOf(Request)' = EvidenceOf(Request)
    BY <1>1 DEF ReportOf, EvidenceOf
  <2>4. at = "report" => link'[Peer(applier)] = link[Peer(applier)]
    BY <1>11, <2>1
  <2>5. at = "evidence" => link'[Peer(observer)] = link[Peer(observer)]
    BY <1>11, <2>1
  <2> QED
    BY <1>1, <2>2, <2>3, <2>4, <2>5, Zenon DEF StreamInv, Asked
<1>16. GrantsKnown'
  <2>1. DOMAIN m.down = {}
    BY <1>4
  <2>2. \A q \in Processes : \A i \in DOMAIN link'[q].down :
          link'[q].down[i].kind = "STAGE_GRANT" => \E g \in granted : g[3] = q
    BY <1>5, <2>1 DEF StreamInv, GrantsKnown
  <2> QED
    BY <1>1, <1>3, <2>2, Zenon DEF StreamInv, GrantsKnown
<1> QED
  BY <1>8, <1>9, <1>10, <1>12, <1>13, <1>14, <1>15, <1>16 DEF StreamInv

-----------------------------------------------------------------------------
(* The streams in the steps of the coordinator.                            *)

\* A step that ends a wait, or goes on with it.
Waits ==
  /\ at \in {"accept", "stale"} /\ waitFor' = waitFor /\ scenario' = scenario
  /\ (\E x : Accepted(x)) \/ at' \in {"stale", "finish"}

LEMMA WaitControl ==
  ASSUME SessionTyped, Waits
  PROVE  /\ at \in Active /\ at' \in Active \ {"report", "evidence"}
         /\ Equipped' => Equipped
         /\ Served' => Served /\ waitFor = "extra"
<1>1. waitFor \in {"workers", "extra", "replacement"}
  BY DEF SessionTyped, ControlTyped
<1>2. at' \in {"accept", "begin", "enter", "loop", "revalidate", "stale", "finish"}
  BY <1>1, AcceptedFacts DEF Waits
<1>3. Equipped' => Equipped
  BY <1>1, AcceptedFacts DEF Waits, Equipped, Driving
<1>4. Served' => Served /\ waitFor = "extra"
  BY <1>1, AcceptedFacts DEF Waits, Served, Driving
<1> QED
  BY <1>2, <1>3, <1>4 DEF Waits, Active, Waiting, Working

LEMMA WaitSteps ==
  ASSUME SessionTyped,
         \/ HelloMissing \/ HelloStale \/ StaleFrame \/ Register \/ Replace \/ ReplacementRefused
         \/ AcceptTimeout
  PROVE  /\ Waits
         /\ UNCHANGED <<proc, recorded, scenario, waitFor, applier, observer, runs, granted,
                        engine>>
         /\ at' = "stale" => HelloStale
         /\ HelloMissing \/ StaleFrame \/ Register \/ Replace \/ ReplacementRefused =>
              at' # "stale"
<1> DEFINE Kept == UNCHANGED <<proc, recorded, scenario, waitFor, applier, observer, runs, granted,
                              engine>>
           Over == at \in {"accept", "stale"} /\ ((\E x : Accepted(x)) \/ at' = "finish")
<1>1. ASSUME HelloMissing PROVE Kept /\ Over
  <2>1. Kept
    BY <1>1, Zenon DEF HelloMissing, history, workers
  <2>2. Over
    BY <1>1, Zenon DEF HelloMissing, Greets, End
  <2> QED
    BY <2>1, <2>2
<1>2. ASSUME StaleFrame PROVE Kept /\ Over
  <2>1. Kept
    BY <1>2, Zenon DEF StaleFrame, history, workers
  <2>2. Over
    BY <1>2, Zenon DEF StaleFrame, End
  <2> QED
    BY <2>1, <2>2
<1>3. ASSUME Register PROVE Kept /\ Over
  <2>1. Kept
    BY <1>3, Zenon DEF Register, history, workers
  <2>2. Over
    BY <1>3, Zenon DEF Register, Hello, Greets, End
  <2> QED
    BY <2>1, <2>2
<1>4. ASSUME Replace PROVE Kept /\ Over
  <2>1. Kept
    BY <1>4, Zenon DEF Replace, history, workers
  <2>2. Over
    BY <1>4, Zenon DEF Replace, Hello, Greets, End
  <2> QED
    BY <2>1, <2>2
<1>5. ASSUME ReplacementRefused PROVE Kept /\ Over
  <2>1. Kept
    BY <1>5, Zenon DEF ReplacementRefused, history, workers
  <2>2. Over
    BY <1>5, Zenon DEF ReplacementRefused, Hello, Greets, End
  <2> QED
    BY <2>1, <2>2
<1>6. ASSUME AcceptTimeout PROVE Kept /\ Over
  <2>1. Kept
    BY <1>6, Zenon DEF AcceptTimeout, history, workers
  <2>2. Over
    BY <1>6, Zenon DEF AcceptTimeout, End
  <2> QED
    BY <2>1, <2>2
<1>7. ASSUME HelloStale PROVE Kept /\ at = "accept" /\ at' = "stale"
  BY <1>7, Zenon DEF HelloStale, Hello, Greets, history
<1>8. Over => at' # "stale"
  <2>1. waitFor \in {"workers", "extra", "replacement"}
    BY DEF SessionTyped, ControlTyped
  <2> QED
    BY <2>1, AcceptedFacts
<1>9. Kept
  BY <1>1, <1>2, <1>3, <1>4, <1>5, <1>6, <1>7
<1>10. Over \/ (HelloStale /\ at = "accept" /\ at' = "stale")
  BY <1>1, <1>2, <1>3, <1>4, <1>5, <1>6, <1>7
<1>11. HelloMissing \/ StaleFrame \/ Register \/ Replace \/ ReplacementRefused => Over
  BY <1>1, <1>2, <1>3, <1>4, <1>5
<1> QED
  BY <1>7, <1>8, <1>9, <1>10, <1>11, Zenon DEF Waits

\* The steps that move nothing on the links go on with peers that are calm.
LEMMA QuietControl ==
  ASSUME SessionTyped, StreamInv, Quietly
  PROVE  /\ at \in Active \ {"report", "finish", "stale"} /\ (at = "evidence" => at' = "finish")
         /\ at' \in Active \ {"report", "evidence", "stale"}
         /\ NoReplays'
<1>1. /\ UNCHANGED <<peers, scenario>> /\ peers \in Seq(PeerRecords)
      /\ Equipped => applier \in DOMAIN peers /\ observer \in DOMAIN peers
  BY QuietlyKeeps DEF SessionTyped, ControlTyped
<1>2. \A k : Peer(k)' = Peer(k)
  BY <1>1 DEF Peer
<1>3. ASSUME at \in Active, NEW role \in {"applier", "observer"}, FindPeer(role) # 0
      PROVE  RoleOf[Peer(FindPeer(role))] # "replay" /\ peers[FindPeer(role)].registered
  BY <1>1, <1>3, FoundPeer DEF StreamInv, PeersKnown
<1>4. CASE AcceptTimeout
  <2>1. /\ Waits /\ applier' = applier /\ observer' = observer /\ at' # "stale"
        /\ at = "accept"
    BY <1>4, WaitSteps DEF AcceptTimeout, HelloStale, Hello, Greets
  <2>2. /\ at \in Active /\ at' \in Active \ {"report", "evidence"}
        /\ Equipped' => Equipped /\ (Served' => Served)
    BY <2>1, WaitControl
  <2>3. Equipped' => Equipped
    BY <2>1, WaitControl
  <2>4. Served' => Served
    BY <2>1, WaitControl
  <2>5. NoReplays'
    BY <1>1, <1>2, <2>1, <2>3, <2>4, Zenon DEF StreamInv, NoReplays
  <2> QED
    BY <2>1, <2>2, <2>5
<1>5. CASE Begin
  <2>1. /\ at = "begin" /\ at' \in {"accept", "enter", "finish"}
        /\ at' = "accept" => waitFor' = "extra" /\ scenario = "restart-part2"
    BY <1>5, Zenon DEF Begin, End
  <2>2. ~Equipped' /\ ~Served'
    BY <1>1, <2>1 DEF Equipped, Served, Driving
  <2> QED
    BY <2>1, <2>2, Zenon DEF NoReplays, Active, Waiting, Working
<1>6. CASE Enter
  <2>1. /\ at = "enter" /\ at' \in {"loop", "finish"}
        /\ applier' = FindPeer("applier") /\ observer' = FindPeer("observer")
        /\ at' = "loop" => applier' # 0 /\ observer' # 0
    BY <1>6, Zenon DEF Enter, End
  <2>2. Equipped' => at' = "loop"
    BY <2>1 DEF Equipped, Driving
  <2>3. Served' => at' = "loop"
    BY <2>1 DEF Served, Driving
  <2>4. at \in Active /\ at' \in Active \ {"report", "evidence", "stale"}
    BY <2>1 DEF Active, Waiting, Working
  <2>5. NoReplays'
    BY <1>1, <1>2, <1>3, <2>1, <2>2, <2>3, <2>4 DEF NoReplays, Peer
  <2> QED
    BY <2>1, <2>4, <2>5
<1>7. CASE RevalidateReplaced
  <2>1. /\ at = "revalidate" /\ at' \in {"accept", "loop", "finish"}
        /\ applier' = FindPeer("applier") /\ observer' = observer
        /\ at' # "finish" => applier' # 0
    BY <1>7, Zenon DEF RevalidateReplaced, End
  <2>2. Equipped
    BY <2>1 DEF Equipped
  <2>3. Served' => applier' # 0
    BY <2>1 DEF Served, Driving
  <2>4. at \in Active /\ at' \in Active \ {"report", "evidence", "stale"}
    BY <2>1 DEF Active, Waiting, Working
  <2>5. RoleOf[Peer(observer)'] # "replay"
    BY <1>2, <2>1, <2>2 DEF StreamInv, NoReplays, Peer
  <2>6. Served' => RoleOf[Peer(applier)'] # "replay" /\ peers'[applier'].registered
    BY <1>1, <1>3, <2>1, <2>3, <2>4 DEF Peer
  <2> QED
    BY <2>1, <2>4, <2>5, <2>6 DEF NoReplays
<1>8. CASE LeaveLoop \/ Stop \/ EvidenceLost \/ RollBack \/ SaveRollback \/ ResumePlan \/ Save
  <2>1. /\ at \in Driving \ {"report"}
        /\ at' \in {"finish", "saveRollback", "resume", "save", "loop"}
        /\ applier' = applier /\ observer' = observer
        /\ at = "evidence" => at' = "finish"
    <3>1. CASE LeaveLoop \/ Stop \/ EvidenceLost
      BY <3>1, Zenon DEF LeaveLoop, Stop, EvidenceLost, End, Driving
    <3>2. CASE RollBack \/ SaveRollback \/ ResumePlan \/ Save
      BY <3>2, Zenon DEF RollBack, SaveRollback, ResumePlan, Save, Write, End, Driving
    <3> QED
      BY <1>8, <3>1, <3>2
  <2>2. Equipped /\ Served
    BY <2>1 DEF Equipped, Served
  <2>3. NoReplays'
    BY <1>1, <1>2, <2>1, <2>2, Zenon DEF StreamInv, NoReplays
  <2>4. at \in Active \ {"report", "finish", "stale"} /\ at' \in Active \ {"report", "evidence", "stale"}
    BY <2>1 DEF Active, Waiting, Working, Driving
  <2> QED
    BY <2>1, <2>3, <2>4
<1> QED
  BY <1>4, <1>5, <1>6, <1>7, <1>8 DEF Quietly

LEMMA QuietStreams ==
  ASSUME SessionTyped, StreamInv, Quietly
  PROVE  StreamInv'
<1>1. UNCHANGED <<link, proc, recorded, backlog, conn, peers, scenario, runs, granted>>
  BY QuietlyKeeps
<1>2. /\ at \in Active \ {"report", "finish", "stale"} /\ (at = "evidence" => at' = "finish")
      /\ at' \in Active \ {"report", "evidence", "stale"}
      /\ NoReplays'
  BY QuietControl
<1>3. \A k : Peer(k)' = Peer(k)
  BY <1>1 DEF Peer
<1>4. SoundLinks' /\ Queued' /\ Unheard'
  BY <1>1, <1>2, Zenon DEF StreamInv, SoundLinks, Queued, Unheard
<1>5. PeersKnown' /\ GrantsKnown'
  BY <1>1, <1>2, <1>3, Zenon DEF StreamInv, PeersKnown, GrantsKnown
<1>6. PeersCalm'
  <2>1. at' \in Active \ {"finish"} => at \in Active \ {"finish"} /\ at \notin {"report", "evidence"}
    BY <1>2
  <2>2. at' \in Active \ {"finish"} => \A q : ~Expected(q)
    BY <2>1 DEF Expected
  <2> QED
    BY <1>1, <1>3, <2>1, <2>2, Zenon DEF StreamInv, PeersCalm
<1>7. Asked'
  BY <1>2 DEF Asked
<1> QED
  BY <1>2, <1>4, <1>5, <1>6, <1>7 DEF StreamInv

\* The coordinator closes a stream, and what it has not read is gone.
LEMMA CloseSound ==
  ASSUME NEW l \in Links, NEW s, NEW role, SoundLink(l, s, role), l.coordinator = "open"
  PROVE  /\ SoundLink(ClosedByCoordinator(l), s, role)
         /\ ClosedByCoordinator(l).coordinator = "closed"
         /\ ClosedByCoordinator(l).down = l.down
         /\ ClosedByCoordinator(l).up = <<>>
         /\ s # "new"
<1> DEFINE m == ClosedByCoordinator(l)
<1>1. /\ m.coordinator = "closed" /\ m.worker = l.worker
      /\ m.down = l.down /\ m.up = <<>>
  BY ClosedFacts
<1>2. s # "new"
  BY DEF SoundLink, NoLink
<1> HIDE DEF m
<1> QED
  BY <1>1, <1>2 DEF SoundLink, m

\* No grant is on its way to the process.
NoGrant(l) == \A i \in DOMAIN l.down : l.down[i].kind # "STAGE_GRANT"

\* A last frame is sent before the stream is closed.
LEMMA SendCloseSound ==
  ASSUME NEW l \in Links, NEW s, NEW role, SoundLink(l, s, role), l.coordinator = "open",
         NEW f \in Signals
  PROVE  LET m == ClosedByCoordinator(SentDown(l, f)) IN
         /\ SoundLink(m, s, role) /\ m.coordinator = "closed" /\ m.up = <<>>
         /\ \A i \in DOMAIN m.down :
              m.down[i].kind = "STAGE_GRANT" => i \in DOMAIN l.down /\ l.down[i] = m.down[i]
<1> DEFINE n == SentDown(l, f)
           m == ClosedByCoordinator(n)
<1>1. f \in Frames /\ f.kind # "STAGE_GRANT"
  BY DEF Frames, Signals
<1>2. /\ n \in Links /\ n.worker = l.worker
      /\ l.worker # "open" => n.down = l.down
      /\ l.worker = "open" => n.down = Append(l.down, f)
  BY <1>1, LinkTypes, SentFacts
<1>3. /\ m.coordinator = "closed" /\ m.worker = n.worker
      /\ m.down = n.down /\ m.up = <<>>
  BY <1>2, ClosedFacts
<1>4. s # "new"
  BY DEF SoundLink, NoLink
<1> HIDE DEF n, m
<1>5. SoundLink(m, s, role)
  BY <1>2, <1>3, <1>4 DEF SoundLink
<1>6. \A i \in DOMAIN m.down :
        m.down[i].kind = "STAGE_GRANT" => i \in DOMAIN l.down /\ l.down[i] = m.down[i]
  <2>1. CASE l.worker # "open"
    BY <1>2, <1>3, <2>1, Zenon
  <2>2. CASE l.worker = "open"
    <3>1. \A i \in DOMAIN Append(l.down, f) :
            \/ i \in DOMAIN l.down /\ Append(l.down, f)[i] = l.down[i]
            \/ i = Len(l.down) + 1 /\ Append(l.down, f)[i] = f
      BY <1>1, LinkFields, AppendFacts
    <3>2. m.down = Append(l.down, f)
      BY <1>2, <1>3, <2>2
    <3> QED
      BY <1>1, <3>1, <3>2, Zenon
  <2> QED
    BY <2>1, <2>2
<1> QED
  BY <1>3, <1>5, <1>6, Zenon DEF m, n

\* The HELLO of a connection is read, and answered.
LEMMA GreetSound ==
  ASSUME NEW l \in Links, NEW s, NEW role, SoundLink(l, s, role), QueuedLink(l, s),
         NEW f \in Signals
  PROVE  LET m == SentDown(UpRead(l), f) IN
         /\ SoundLink(m, s, role) /\ m.coordinator = "open" /\ s # "new"
         /\ Calm(m) /\ NotHello(m) /\ NoneAsked(m) /\ NoGrant(m)
<1> DEFINE r == UpRead(l)
           m == SentDown(r, f)
<1>1. f \in Frames /\ ~Question(f) /\ f.kind # "STAGE_GRANT"
  BY DEF Frames, Signals, Question
<1>2. l.coordinator = "open" /\ l.up = <<HelloFrame>> /\ l.down = <<>> /\ s # "new"
  BY DEF QueuedLink
<1>3. /\ r \in Links /\ r.coordinator = "open" /\ r.worker = l.worker /\ r.down = <<>>
      /\ r.up = <<>>
  <2>1. /\ r.coordinator = l.coordinator /\ r.worker = l.worker /\ r.down = l.down
        /\ r.up = Rest(l.up)
    BY ReadFacts
  <2>2. Rest(<<HelloFrame>>) = <<>>
    BY DEF Rest
  <2>3. r \in Links
    BY <1>1, LinkTypes
  <2> QED
    BY <1>2, <2>1, <2>2, <2>3
<1>4. /\ m.coordinator = "open" /\ m.worker = l.worker /\ m.up = <<>>
      /\ l.worker # "open" => m.down = <<>>
      /\ l.worker = "open" => m.down = Append(<<>>, f)
  BY <1>1, <1>3, SentFacts
<1> HIDE DEF m
<1>5. \A i \in DOMAIN m.down : m.down[i] = f
  <2>1. Append(<<>>, f) = <<f>>
    OBVIOUS
  <2>2. CASE l.worker = "open"
    <3>1. m.down = <<f>>
      BY <1>4, <2>1, <2>2
    <3> QED
      BY <3>1
  <2>3. CASE l.worker # "open"
    <3>1. m.down = <<>>
      BY <1>4, <2>3
    <3> QED
      BY <3>1
  <2> QED
    BY <2>2, <2>3
<1>6. NoneAsked(m) /\ NoGrant(m)
  BY <1>1, <1>5, Zenon DEF NoneAsked, NoGrant
<1>7. Calm(m)
  BY <1>4, <1>6 DEF Calm
<1>8. NotHello(m)
  <2>1. <<>> # <<HelloFrame>>
    OBVIOUS
  <2> QED
    BY <1>4, <2>1, Zenon DEF NotHello
<1>9. SoundLink(m, s, role)
  <2>1. Len(m.up) <= 1
    BY <1>4
  <2> QED
    BY <1>2, <1>4, <1>6, <2>1, Zenon DEF SoundLink, NoneAsked
<1> QED
  BY <1>2, <1>4, <1>6, <1>7, <1>8, <1>9 DEF m

\* The first connection that is waiting.
LEMMA HeadFacts ==
  ASSUME SessionTyped, StreamInv, NEW p \in Processes, Greets(p)
  PROVE  /\ QueuedLink(link[p], proc[p]) /\ link[p] \in Links
         /\ SoundLink(link[p], proc[p], RoleOf[p]) /\ at = "accept" /\ backlog # <<>>
         /\ \A k \in DOMAIN peers : Peer(k) # p
<1>1. at = "accept" /\ backlog # <<>> /\ p = Head(backlog) /\ backlog \in Seq(Processes)
  BY DEF Greets, SessionTyped, ControlTyped
<1>2. 1 \in DOMAIN backlog /\ p = backlog[1]
  BY <1>1
<1>3. at \in Active
  BY <1>1 DEF Active, Waiting
<1>4. QueuedLink(link[p], proc[p])
  BY <1>2, <1>3 DEF StreamInv, Queued
<1>5. \A k \in DOMAIN peers : Peer(k) # p
  BY <1>3, <1>4 DEF StreamInv, PeersKnown, NotHello, QueuedLink
<1> QED
  BY <1>1, <1>4, <1>5 DEF SessionTyped, LinksTyped, StreamInv, SoundLinks

\* The connections that go on waiting.
LEMMA QueueKept ==
  ASSUME SessionTyped, StreamInv, at \in Active, proc' = proc,
         \/ backlog' = backlog /\ \A q \in Processes :
              QueuedLink(link[q], proc[q]) => link'[q] = link[q]
         \/ /\ backlog # <<>> /\ backlog' = Tail(backlog)
            /\ \A q \in Processes \ {Head(backlog)} :
                 QueuedLink(link[q], proc[q]) => link'[q] = link[q]
  PROVE  Queued'
<1>1. /\ backlog \in Seq(Processes)
      /\ \A i, j \in DOMAIN backlog : backlog[i] = backlog[j] => i = j
      /\ \A i \in DOMAIN backlog :
           backlog[i] \in Processes /\ QueuedLink(link[backlog[i]], proc[backlog[i]])
  BY DEF SessionTyped, ControlTyped, StreamInv, Queued
<1>2. CASE backlog' = backlog /\ \A q \in Processes :
              QueuedLink(link[q], proc[q]) => link'[q] = link[q]
  BY <1>1, <1>2, Zenon DEF Queued
<1>3. CASE /\ backlog # <<>> /\ backlog' = Tail(backlog)
           /\ \A q \in Processes \ {Head(backlog)} :
                QueuedLink(link[q], proc[q]) => link'[q] = link[q]
  <2>1. /\ \A i \in DOMAIN Tail(backlog) :
             i + 1 \in DOMAIN backlog /\ Tail(backlog)[i] = backlog[i + 1] /\ i \in Nat /\ i # 0
        /\ 1 \in DOMAIN backlog /\ Head(backlog) = backlog[1]
    BY <1>1, <1>3
  <2>2. ASSUME NEW i \in DOMAIN backlog'
        PROVE  QueuedLink(link'[backlog'[i]], proc'[backlog'[i]])
    <3>1. i + 1 \in DOMAIN backlog /\ backlog'[i] = backlog[i + 1] /\ i \in Nat /\ i # 0
      BY <1>3, <2>1
    <3>2. i + 1 # 1
      BY <3>1
    <3>3. backlog[i + 1] # Head(backlog)
      BY <1>1, <2>1, <3>1, <3>2
    <3> QED
      BY <1>1, <1>3, <3>1, <3>3
  <2>3. ASSUME NEW i \in DOMAIN backlog', NEW j \in DOMAIN backlog', backlog'[i] = backlog'[j]
        PROVE  i = j
    <3>1. /\ i + 1 \in DOMAIN backlog /\ backlog'[i] = backlog[i + 1] /\ i \in Nat
          /\ j + 1 \in DOMAIN backlog /\ backlog'[j] = backlog[j + 1] /\ j \in Nat
      BY <1>3, <2>1
    <3>2. i + 1 = j + 1
      BY <1>1, <2>3, <3>1
    <3> QED
      BY <3>1, <3>2
  <2> QED
    BY <2>2, <2>3, Zenon DEF Queued
<1> QED
  BY <1>2, <1>3

\* While the coordinator waits, the link of a process that is no peer changes.
LEMMA WaitStreams ==
  ASSUME SessionTyped, StreamInv, Waits,
         UNCHANGED <<proc, recorded, applier, observer, runs, granted, peers>>,
         NEW p \in Processes, NEW m, link' = [link EXCEPT ![p] = m],
         SoundLink(m, proc[p], RoleOf[p]), \A k \in DOMAIN peers : Peer(k) # p, Queued',
         \A i \in DOMAIN m.down : m.down[i].kind = "STAGE_GRANT" =>
            \E j \in DOMAIN link[p].down : m.down[i] = link[p].down[j],
         at' = "stale" => conn'[1] = p /\ m.coordinator = "open" /\ NotHello(m) /\ NoneAsked(m)
  PROVE  StreamInv'
<1>1. /\ at \in Active /\ at' \in Active \ {"report", "evidence"}
      /\ Equipped' => Equipped
  BY WaitControl
<1>2. Served' => Served
  BY WaitControl
<1>20. /\ proc' = proc /\ recorded' = recorded /\ applier' = applier /\ observer' = observer
       /\ runs' = runs /\ granted' = granted /\ peers' = peers
  OBVIOUS
<1>3. /\ link'[p] = m
      /\ \A q \in Processes \ {p} : link'[q] = link[q]
  BY DEF SessionTyped, LinksTyped
<1>4. \A k : Peer(k)' = Peer(k)
  BY DEF Peer
<1>5. \A k \in DOMAIN peers : link'[Peer(k)] = link[Peer(k)]
  BY <1>3, PeerFacts
<1>6. SoundLinks'
  BY <1>3, Zenon DEF StreamInv, SoundLinks
<1>7. Unheard'
  <2>1. at' = "stale" => \A k \in DOMAIN peers : Peer(k) # conn'[1]
    OBVIOUS
  <2> QED
    BY <1>1, <1>3, <1>4, <2>1, Zenon DEF Unheard
<1>8. PeersKnown'
  <2>1. \A k \in DOMAIN peers :
          /\ peers[k].worker = WorkerOf[Peer(k)] /\ peers[k].boot = BootOf[Peer(k)]
          /\ \A n \in DOMAIN peers : peers[n].worker = peers[k].worker => n = k
          /\ peers[k].role # "replay" => RoleOf[Peer(k)] # "replay"
          /\ peers[k].registered => link'[Peer(k)].coordinator = "open"
          /\ NotHello(link'[Peer(k)]) /\ proc[Peer(k)] # "new"
    BY <1>1, <1>5 DEF StreamInv, PeersKnown
  <2>2. \A k \in DOMAIN peers' :
          /\ peers'[k].worker = WorkerOf[Peer(k)'] /\ peers'[k].boot = BootOf[Peer(k)']
          /\ \A n \in DOMAIN peers' : peers'[n].worker = peers'[k].worker => n = k
          /\ peers'[k].role # "replay" => RoleOf[Peer(k)'] # "replay"
          /\ peers'[k].registered => link'[Peer(k)'].coordinator = "open"
          /\ NotHello(link'[Peer(k)']) /\ proc'[Peer(k)'] # "new"
    BY <1>4, <1>20, <2>1
  <2> QED
    BY <2>2 DEF PeersKnown
<1>9. PeersCalm'
  <2>1. at # "finish" /\ \A q : ~Expected(q)
    BY DEF Waits, Expected
  <2> QED
    BY <1>1, <1>4, <1>5, <2>1 DEF StreamInv, PeersCalm
<1>10. NoReplays'
  BY <1>1, <1>2, <1>4, Zenon DEF StreamInv, NoReplays
<1>11. Asked'
  BY <1>1 DEF Asked
<1>12. GrantsKnown'
  <2>1. ASSUME NEW q \in Processes, NEW i \in DOMAIN link'[q].down,
               link'[q].down[i].kind = "STAGE_GRANT"
        PROVE  \E g \in granted : g[3] = q
    BY <1>3, <2>1 DEF StreamInv, GrantsKnown
  <2> QED
    BY <1>1, <2>1, Zenon DEF StreamInv, GrantsKnown
<1> QED
  BY <1>6, <1>7, <1>8, <1>9, <1>10, <1>11, <1>12 DEF StreamInv

LEMMA GreetStreams ==
  ASSUME SessionTyped, StreamInv, HelloMissing \/ ReplacementRefused \/ HelloStale \/ StaleFrame
  PROVE  StreamInv'
<1>1. /\ Waits /\ UNCHANGED <<proc, recorded, applier, observer, runs, granted>>
      /\ HelloMissing \/ ReplacementRefused \/ StaleFrame => at' # "stale"
  BY WaitSteps
<1>2. at \in Active
  BY <1>1 DEF Waits, Active, Waiting
<1>3. CASE HelloMissing \/ ReplacementRefused
  <2>1. PICK p \in Processes :
          /\ Greets(p) /\ backlog' = Tail(backlog)
          /\ link' = [link EXCEPT ![p] = ClosedByCoordinator(@)]
    BY <1>3, Zenon DEF HelloMissing, ReplacementRefused, Hello
  <2>2. peers' = peers /\ at' # "stale"
    <3>1. peers' = peers
      BY <1>3, Zenon DEF HelloMissing, ReplacementRefused
    <3> QED
      BY <1>1, <1>3, <3>1
  <2> DEFINE m == ClosedByCoordinator(link[p])
  <2>3. /\ QueuedLink(link[p], proc[p]) /\ link[p] \in Links /\ p = Head(backlog)
        /\ SoundLink(link[p], proc[p], RoleOf[p]) /\ backlog # <<>>
        /\ \A k \in DOMAIN peers : Peer(k) # p
    BY <2>1, HeadFacts DEF Greets
  <2>4. SoundLink(m, proc[p], RoleOf[p]) /\ m.down = link[p].down
    BY <2>3, CloseSound DEF QueuedLink
  <2>5. link' = [link EXCEPT ![p] = m]
    BY <2>1
  <2> HIDE DEF m
  <2>6. Queued'
    <3>1. \A q \in Processes \ {p} : link'[q] = link[q]
      BY <2>5 DEF SessionTyped, LinksTyped
    <3> QED
      BY <1>1, <1>2, <2>1, <2>3, <3>1, QueueKept
  <2> QED
    BY <1>1, <2>2, <2>3, <2>4, <2>5, <2>6, WaitStreams
<1>4. CASE HelloStale
  <2>1. PICK p \in Processes :
          /\ Greets(p) /\ backlog' = Tail(backlog) /\ conn' = <<p>>
          /\ link' = [link EXCEPT ![p] = SentDown(UpRead(@), Error)] /\ peers' = peers
    BY <1>4, Zenon DEF HelloStale, Hello
  <2> DEFINE m == SentDown(UpRead(link[p]), Error)
  <2>2. /\ QueuedLink(link[p], proc[p]) /\ link[p] \in Links /\ p = Head(backlog)
        /\ SoundLink(link[p], proc[p], RoleOf[p]) /\ backlog # <<>>
        /\ \A k \in DOMAIN peers : Peer(k) # p
    BY <2>1, HeadFacts DEF Greets
  <2>3. Error \in Signals
    BY DEF Error, Signals
  <2>4. /\ SoundLink(m, proc[p], RoleOf[p]) /\ m.coordinator = "open"
        /\ NotHello(m) /\ NoneAsked(m) /\ NoGrant(m)
    BY <2>2, <2>3, GreetSound
  <2>5. link' = [link EXCEPT ![p] = m] /\ conn'[1] = p
    BY <2>1
  <2> HIDE DEF m
  <2>6. Queued'
    <3>1. \A q \in Processes \ {p} : link'[q] = link[q]
      BY <2>5 DEF SessionTyped, LinksTyped
    <3> QED
      BY <1>1, <1>2, <2>1, <2>2, <3>1, QueueKept
  <2>7. \A i \in DOMAIN m.down : m.down[i].kind # "STAGE_GRANT"
    BY <2>4 DEF NoGrant
  <2>8. peers' = peers
    BY <2>1
  <2> QED
    BY <1>1, <2>2, <2>4, <2>5, <2>6, <2>7, <2>8, WaitStreams
<1>5. CASE StaleFrame
  <2>1. at = "stale" /\ backlog' = backlog /\ peers' = peers
    BY <1>5, Zenon DEF StaleFrame
  <2>9. at' # "stale"
    BY <1>1, <1>5
  <2>2. PICK p \in Processes : p = conn[1]
    <3>1. conn \in Seq(Processes) /\ Len(conn) = 1
      BY <2>1 DEF SessionTyped, ControlTyped
    <3>2. conn[1] \in Processes
      BY <3>1
    <3> QED
      BY <3>2
  <2>3. PICK f : link' = [link EXCEPT ![p] =
                            ClosedByCoordinator(IF f = Failure THEN @ ELSE SentDown(@, Error))]
    BY <1>5, <2>2 DEF StaleFrame
  <2>4. /\ link[p] \in Links /\ SoundLink(link[p], proc[p], RoleOf[p])
        /\ link[p].coordinator = "open"
        /\ NotHello(link[p]) /\ \A k \in DOMAIN peers : Peer(k) # p
    BY <2>1, <2>2 DEF SessionTyped, LinksTyped, StreamInv, SoundLinks, Unheard
  <2> DEFINE n == SentDown(link[p], Error)
             m == ClosedByCoordinator(IF f = Failure THEN link[p] ELSE n)
  <2>5. /\ SoundLink(m, proc[p], RoleOf[p])
        /\ \A i \in DOMAIN m.down : m.down[i].kind = "STAGE_GRANT" =>
             \E j \in DOMAIN link[p].down : m.down[i] = link[p].down[j]
    <3>1. CASE f = Failure
      <4>1. m = ClosedByCoordinator(link[p])
        BY <3>1
      <4>2. m.down = link[p].down /\ SoundLink(m, proc[p], RoleOf[p])
        BY <2>4, <4>1, CloseSound
      <4> HIDE DEF m
      <4> QED
        BY <4>2
    <3>2. CASE f # Failure
      <4>1. Error \in Signals
        BY DEF Error, Signals
      <4>2. m = ClosedByCoordinator(n)
        BY <3>2
      <4>3. /\ SoundLink(ClosedByCoordinator(n), proc[p], RoleOf[p])
            /\ \A i \in DOMAIN ClosedByCoordinator(n).down :
                 ClosedByCoordinator(n).down[i].kind = "STAGE_GRANT" =>
                   i \in DOMAIN link[p].down /\ link[p].down[i] = ClosedByCoordinator(n).down[i]
        BY <2>4, <4>1, SendCloseSound
      <4> HIDE DEF m, n
      <4> QED
        BY <4>2, <4>3, Zenon
    <3> QED
      BY <3>1, <3>2
  <2>6. link' = [link EXCEPT ![p] = m]
    BY <2>3
  <2> HIDE DEF m
  <2>7. Queued'
    <3>1. \A q \in Processes \ {p} : link'[q] = link[q]
      BY <2>6 DEF SessionTyped, LinksTyped
    <3>2. ~QueuedLink(link[p], proc[p])
      BY <2>4 DEF QueuedLink, NotHello
    <3>3. \A q \in Processes : QueuedLink(link[q], proc[q]) => link'[q] = link[q]
      BY <3>1, <3>2, Zenon
    <3> QED
      BY <1>1, <1>2, <2>1, <3>3, QueueKept
  <2> QED
    BY <1>1, <2>1, <2>4, <2>5, <2>6, <2>7, <2>9, WaitStreams
<1> QED
  BY <1>3, <1>4, <1>5
\* The links once a process is welcomed.
LEMMA WelcomeLinks ==
  ASSUME SessionTyped, StreamInv, NEW p \in Processes, Greets(p), link' = Welcoming(p)
  PROVE  /\ SoundLink(link'[p], proc[p], RoleOf[p]) /\ link'[p].coordinator = "open"
         /\ Calm(link'[p]) /\ NotHello(link'[p]) /\ NoGrant(link'[p]) /\ proc[p] # "new"
         /\ \A q \in Processes \ {p} :
              \/ link'[q] = link[q]
              \/ /\ EntryOf(p) # 0 /\ q = Peer(EntryOf(p))
                 /\ link[q].coordinator = "open" /\ link'[q] = ClosedByCoordinator(link[q])
<1>1. /\ QueuedLink(link[p], proc[p]) /\ link[p] \in Links
      /\ SoundLink(link[p], proc[p], RoleOf[p])
  BY HeadFacts
<1>2. HelloAck \in Signals
  BY DEF HelloAck, Signals
<1>3. link'[p] = SentDown(UpRead(link[p]), HelloAck)
  BY DEF Welcoming
<1>4. \A q \in Processes \ {p} :
        link'[q] = IF EntryOf(p) # 0 /\ Peer(EntryOf(p)) = q /\ link[q].coordinator = "open"
                   THEN ClosedByCoordinator(link[q]) ELSE link[q]
  BY DEF Welcoming
<1>5. LET m == SentDown(UpRead(link[p]), HelloAck) IN
      /\ SoundLink(m, proc[p], RoleOf[p]) /\ m.coordinator = "open" /\ proc[p] # "new"
      /\ Calm(m) /\ NotHello(m) /\ NoneAsked(m) /\ NoGrant(m)
  BY <1>1, <1>2, GreetSound
<1>6. \A q \in Processes \ {p} :
        \/ link'[q] = link[q]
        \/ /\ EntryOf(p) # 0 /\ q = Peer(EntryOf(p))
           /\ link[q].coordinator = "open" /\ link'[q] = ClosedByCoordinator(link[q])
  BY <1>4, Zenon
<1> QED
  BY <1>3, <1>5, <1>6, Zenon

\* What the welcome of a process leaves of the other links.
LEMMA WelcomeOthers ==
  ASSUME SessionTyped, StreamInv, NEW p \in Processes, Greets(p), link' = Welcoming(p),
         NEW q \in Processes, q # p
  PROVE  /\ SoundLink(link'[q], proc[q], RoleOf[q]) /\ link'[q].down = link[q].down
         /\ QueuedLink(link[q], proc[q]) => link'[q] = link[q]
<1>1. /\ link[q] \in Links /\ SoundLink(link[q], proc[q], RoleOf[q]) /\ at \in Active
  BY DEF SessionTyped, LinksTyped, StreamInv, SoundLinks, Greets, Active, Waiting
<1>2. CASE link'[q] = link[q]
  BY <1>1, <1>2
<1>3. CASE /\ EntryOf(p) # 0 /\ q = Peer(EntryOf(p))
           /\ link[q].coordinator = "open" /\ link'[q] = ClosedByCoordinator(link[q])
  <2>1. NotHello(link[q])
    BY <1>1, <1>3, EntryFacts DEF StreamInv, PeersKnown
  <2>2. ~QueuedLink(link[q], proc[q])
    BY <2>1 DEF NotHello, QueuedLink
  <2>3. /\ SoundLink(ClosedByCoordinator(link[q]), proc[q], RoleOf[q])
        /\ ClosedByCoordinator(link[q]).down = link[q].down
    BY <1>1, <1>3, CloseSound
  <2> QED
    BY <1>3, <2>2, <2>3, Zenon
<1> QED
  BY <1>2, <1>3, WelcomeLinks

\* A process is registered under the entry of its worker, or under a new one.
LEMMA RegisterStreams ==
  ASSUME SessionTyped, StreamInv, Waits, at' # "stale",
         proc' = proc, recorded' = recorded, applier' = applier, observer' = observer,
         runs' = runs, granted' = granted,
         NEW p \in Processes, Greets(p), ~Superseded(p),
         backlog' = Tail(backlog), link' = Welcoming(p),
         NEW e \in DOMAIN peers', DOMAIN peers \subseteq DOMAIN peers',
         peers'[e].proc = p, peers'[e].worker = WorkerOf[p], peers'[e].boot = BootOf[p],
         peers'[e].registered, peers'[e].role # "replay" => RoleOf[p] # "replay",
         \A k \in DOMAIN peers' \ {e} : k \in DOMAIN peers /\ peers'[k] = peers[k],
         EntryOf(p) # 0 => e = EntryOf(p), EntryOf(p) = 0 => e \notin DOMAIN peers,
         Equipped' => RoleOf[p] # "replay"
  PROVE  StreamInv'
<1>1. /\ at \in Active /\ at' \in Active \ {"report", "evidence"}
      /\ Equipped' => Equipped
      /\ at = "accept" /\ backlog # <<>> /\ p = Head(backlog)
      /\ \A k \in DOMAIN peers : Peer(k) # p
  BY WaitControl, HeadFacts DEF Greets
<1>2. Served' => Served
  BY WaitControl
<1>3. /\ SoundLink(link'[p], proc[p], RoleOf[p]) /\ link'[p].coordinator = "open"
      /\ Calm(link'[p]) /\ NotHello(link'[p]) /\ NoGrant(link'[p]) /\ proc[p] # "new"
  BY WelcomeLinks
<1>4. \A q \in Processes \ {p} :
        /\ SoundLink(link'[q], proc[q], RoleOf[q]) /\ link'[q].down = link[q].down
        /\ QueuedLink(link[q], proc[q]) => link'[q] = link[q]
  BY WelcomeOthers
<1>5. peers \in Seq(PeerRecords) /\ \A k \in DOMAIN peers : Peer(k) \in Processes /\ k # 0
  BY PeerFacts DEF SessionTyped, ControlTyped
<1>6. /\ \A k \in DOMAIN peers : peers[k].worker = WorkerOf[Peer(k)]
      /\ \A k, n \in DOMAIN peers : peers[n].worker = peers[k].worker => n = k
  BY <1>1, Zenon DEF StreamInv, PeersKnown
<1>7. \A k \in DOMAIN peers' \ {e} :
        /\ k \in DOMAIN peers /\ peers'[k] = peers[k] /\ peers[k].worker # WorkerOf[p]
  <2>1. ASSUME NEW k \in DOMAIN peers' \ {e} PROVE peers[k].worker # WorkerOf[p]
    <3>1. CASE EntryOf(p) = 0
      BY <1>5, <2>1, <3>1, EntryFacts
    <3>2. CASE EntryOf(p) # 0
      BY <1>6, <2>1, <3>2, EntryFacts
    <3> QED
      BY <3>1, <3>2
  <2> QED
    BY <2>1
<1>8. \A k \in DOMAIN peers' \ {e} : Peer(k)' = Peer(k) /\ link'[Peer(k)] = link[Peer(k)]
  <2>1. ASSUME NEW k \in DOMAIN peers' \ {e}
        PROVE  link'[Peer(k)] = link[Peer(k)]
    <3>1. k \in DOMAIN peers /\ Peer(k) # p /\ Peer(k) \in Processes
      BY <1>1, <1>5, <1>7
    <3>2. ASSUME EntryOf(p) # 0 PROVE Peer(k) # Peer(EntryOf(p))
      <4>1. /\ peers[EntryOf(p)].worker = WorkerOf[Peer(EntryOf(p))]
            /\ peers[EntryOf(p)].worker = WorkerOf[p]
        BY <1>6, <3>2, EntryFacts
      <4>2. peers[k].worker = WorkerOf[Peer(k)] /\ peers[k].worker # WorkerOf[p]
        BY <1>6, <1>7, <3>1
      <4> QED
        BY <4>1, <4>2
    <3> QED
      BY <3>1, <3>2, WelcomeLinks
  <2>2. \A k \in DOMAIN peers' \ {e} : Peer(k)' = Peer(k)
    BY <1>7 DEF Peer
  <2> QED
    BY <2>1, <2>2
<1>9. Peer(e)' = p
  BY DEF Peer
<1>10. SoundLinks'
  BY <1>3, <1>4, Zenon DEF SoundLinks
<1>11. Queued'
  BY <1>1, <1>4, QueueKept
<1>12. Unheard'
  BY <1>1 DEF Unheard
<1>13. PeersKnown'
  <2>1. ASSUME NEW k \in DOMAIN peers', k # e
        PROVE  /\ peers'[k].worker = WorkerOf[Peer(k)'] /\ peers'[k].boot = BootOf[Peer(k)']
               /\ \A n \in DOMAIN peers' : peers'[n].worker = peers'[k].worker => n = k
               /\ peers'[k].role # "replay" => RoleOf[Peer(k)'] # "replay"
               /\ peers'[k].registered => link'[Peer(k)'].coordinator = "open"
               /\ NotHello(link'[Peer(k)']) /\ proc[Peer(k)'] # "new"
    <3>1. /\ k \in DOMAIN peers /\ peers'[k] = peers[k] /\ peers[k].worker # WorkerOf[p]
          /\ Peer(k)' = Peer(k) /\ link'[Peer(k)] = link[Peer(k)]
      BY <1>7, <1>8, <2>1
    <3>2. /\ peers[k].worker = WorkerOf[Peer(k)] /\ peers[k].boot = BootOf[Peer(k)]
          /\ peers[k].role # "replay" => RoleOf[Peer(k)] # "replay"
          /\ peers[k].registered => link[Peer(k)].coordinator = "open"
          /\ NotHello(link[Peer(k)]) /\ proc[Peer(k)] # "new"
      BY <1>1, <3>1, Zenon DEF StreamInv, PeersKnown
    <3>3. \A n \in DOMAIN peers' : peers'[n].worker = peers'[k].worker => n = k
      BY <1>6, <1>7, <3>1
    <3> QED
      BY <3>1, <3>2, <3>3, Zenon
  <2>2. /\ peers'[e].worker = WorkerOf[Peer(e)'] /\ peers'[e].boot = BootOf[Peer(e)']
        /\ \A n \in DOMAIN peers' : peers'[n].worker = peers'[e].worker => n = e
        /\ peers'[e].role # "replay" => RoleOf[Peer(e)'] # "replay"
        /\ peers'[e].registered => link'[Peer(e)'].coordinator = "open"
        /\ NotHello(link'[Peer(e)']) /\ proc[Peer(e)'] # "new"
    BY <1>3, <1>7, <1>9
  <2> QED
    BY <2>1, <2>2, Zenon DEF PeersKnown
<1>14. PeersCalm'
  <2>1. at # "finish" /\ \A q : ~Expected(q)
    BY <1>1 DEF Expected
  <2>2. ASSUME NEW k \in DOMAIN peers', RoleOf[Peer(k)'] # "replay"
        PROVE  Calm(link'[Peer(k)'])
    <3>1. CASE k = e
      BY <1>3, <1>9, <3>1
    <3>2. CASE k # e
      <4>1. /\ k \in DOMAIN peers /\ Peer(k)' = Peer(k) /\ link'[Peer(k)] = link[Peer(k)]
        BY <1>7, <1>8, <3>2
      <4>2. Calm(link[Peer(k)])
        BY <1>1, <2>1, <2>2, <4>1, Zenon DEF StreamInv, PeersCalm
      <4> QED
        BY <4>1, <4>2
    <3> QED
      BY <3>1, <3>2
  <2> QED
    BY <2>2, Zenon DEF PeersCalm
<1>15. NoReplays'
  <2>1. Equipped => applier \in DOMAIN peers /\ observer \in DOMAIN peers
    BY DEF SessionTyped, ControlTyped
  <2>2. ASSUME Equipped' PROVE RoleOf[Peer(observer)'] # "replay"
    <3>1. observer \in DOMAIN peers /\ RoleOf[Peer(observer)] # "replay" /\ RoleOf[p] # "replay"
      BY <1>1, <2>1, <2>2 DEF StreamInv, NoReplays
    <3> QED
      BY <1>8, <1>9, <3>1 DEF Peer
  <2>3. ASSUME Served'
        PROVE  RoleOf[Peer(applier)'] # "replay" /\ peers'[applier].registered
    <3>1. Equipped /\ Equipped'
      BY <1>2, <2>3 DEF Equipped, Served
    <3>2. /\ applier \in DOMAIN peers /\ RoleOf[Peer(applier)] # "replay" /\ RoleOf[p] # "replay"
          /\ peers[applier].registered
      BY <1>2, <2>1, <2>3, <3>1 DEF StreamInv, NoReplays
    <3>3. CASE applier = e
      BY <1>9, <3>2, <3>3
    <3>4. CASE applier # e
      <4>1. peers'[applier] = peers[applier] /\ Peer(applier)' = Peer(applier)
        BY <1>8, <1>7, <3>2, <3>4 DEF Peer
      <4> QED
        BY <3>2, <4>1
    <3> QED
      BY <3>3, <3>4
  <2>4. (Peer(observer))' = Peer(observer)' /\ applier' = applier
    OBVIOUS
  <2> QED
    BY <2>2, <2>3, <2>4 DEF NoReplays
<1>16. Asked'
  BY <1>1 DEF Asked
<1>17. GrantsKnown'
  <2>1. ASSUME NEW q \in Processes, NEW i \in DOMAIN link'[q].down,
               link'[q].down[i].kind = "STAGE_GRANT"
        PROVE  \E g \in granted : g[3] = q
    <3>1. q # p
      BY <1>3, <2>1 DEF NoGrant
    <3> QED
      BY <1>4, <2>1, <3>1, Zenon DEF StreamInv, GrantsKnown
  <2>2. ASSUME NEW g \in granted
        PROVE  \E k \in DOMAIN peers' :
                 peers'[k].worker = WorkerOf[g[3]] /\ peers'[k].boot >= BootOf[g[3]]
    <3>1. PICK k \in DOMAIN peers :
            peers[k].worker = WorkerOf[g[3]] /\ peers[k].boot >= BootOf[g[3]]
      BY <1>1, <2>2 DEF StreamInv, GrantsKnown
    <3>2. CASE k = e
      <4>1. EntryOf(p) # 0 /\ k = EntryOf(p) /\ peers[k].worker = WorkerOf[p]
        BY <3>1, <3>2, EntryFacts
      <4>2. ~(BootOf[p] <= peers[k].boot)
        BY <4>1 DEF Superseded
      <4>3. BootOf[p] \in Nat /\ peers[k].boot \in Nat /\ BootOf[g[3]] \in Nat
        BY <2>2, PeerFacts, ProcessAssumption DEF SessionTyped, ControlTyped, Grants
      <4>4. peers'[e].boot >= BootOf[g[3]]
        BY <3>1, <4>2, <4>3
      <4> QED
        BY <3>1, <3>2, <4>1, <4>4
    <3>3. CASE k # e
      BY <1>7, <3>1, <3>3
    <3> QED
      BY <3>2, <3>3
  <2>3. /\ recorded' = recorded /\ granted' = granted /\ runs' = runs
    OBVIOUS
  <2> QED
    BY <2>1, <2>2, <2>3, Zenon DEF StreamInv, GrantsKnown
<1> QED
  BY <1>10, <1>11, <1>12, <1>13, <1>14, <1>15, <1>16, <1>17 DEF StreamInv

\* A replayed connection is superseded by what it replays, while the run that
\* recorded it goes on.
LEMMA ReplaySuperseded ==
  ASSUME SessionTyped, StreamInv, NEW p \in Processes, Greets(p), ~Superseded(p), runs <= 1
  PROVE  RoleOf[p] # "replay"
<1> SUFFICES ASSUME RoleOf[p] = "replay" PROVE FALSE
  OBVIOUS
<1>1. at \in Active /\ proc[p] # "new"
  BY HeadFacts DEF Greets, Active, Waiting, QueuedLink
<1>2. /\ Source[p] \in Processes /\ WorkerOf[p] = WorkerOf[Source[p]]
      /\ BootOf[p] = BootOf[Source[p]] /\ BootOf[p] \in Nat
  BY ProcessAssumption
<1>3. recorded[Source[p]] # NotRecorded
  BY <1>1 DEF SessionTyped, LinksTyped, Reports, NotRecorded
<1>4. PICK g \in granted : g[3] = Source[p]
  BY <1>2, <1>3 DEF StreamInv, GrantsKnown
<1>5. PICK k \in DOMAIN peers : peers[k].worker = WorkerOf[g[3]] /\ peers[k].boot >= BootOf[g[3]]
  BY <1>1 DEF StreamInv, GrantsKnown
<1>6. peers[k].worker = WorkerOf[p] /\ peers[k].boot >= BootOf[p] /\ peers[k].boot \in Nat
  BY <1>2, <1>4, <1>5, PeerFacts
<1>7. EntryOf(p) # 0 /\ EntryOf(p) \in DOMAIN peers /\ peers[EntryOf(p)].worker = WorkerOf[p]
  BY <1>6, EntryFacts DEF SessionTyped, ControlTyped
<1>8. EntryOf(p) = k
  BY <1>1, <1>6, <1>7 DEF StreamInv, PeersKnown
<1> QED
  BY <1>2, <1>6, <1>7, <1>8 DEF Superseded

LEMMA RegisteredStreams ==
  ASSUME SessionTyped, StreamInv, Register \/ Replace
  PROVE  StreamInv'
<1>1. /\ Waits /\ at' # "stale"
      /\ proc' = proc /\ recorded' = recorded /\ applier' = applier /\ observer' = observer
      /\ runs' = runs /\ granted' = granted
  BY WaitSteps
<1>2. Equipped' => Equipped
  BY <1>1, WaitControl
<1>3. peers \in Seq(PeerRecords) /\ waitFor \in {"workers", "extra", "replacement"}
  BY DEF SessionTyped, ControlTyped
<1>4. CASE Register
  <2>1. PICK p \in Processes :
          /\ Greets(p) /\ waitFor # "replacement" /\ ~Superseded(p) /\ backlog' = Tail(backlog)
          /\ peers' = Registered(p) /\ link' = Welcoming(p)
    BY <1>4, Zenon DEF Register, Hello
  <2>2. Equipped' => RoleOf[p] # "replay"
    <3>1. ASSUME Equipped PROVE runs <= 1
      <4>1. scenario # "restart-part2" /\ at \in Active
        BY <2>1, <3>1 DEF Equipped, Driving, Greets, Active, Waiting
      <4>2. runs = 1
        BY <4>1 DEF SessionTyped, ControlTyped
      <4> QED
        BY <4>2
    <3> QED
      BY <1>2, <2>1, <3>1, ReplaySuperseded
  <2>3. /\ PeerOf(p) \in PeerRecords /\ PeerOf(p).proc = p /\ PeerOf(p).worker = WorkerOf[p]
        /\ PeerOf(p).boot = BootOf[p] /\ PeerOf(p).role = RoleOf[p] /\ PeerOf(p).registered
    BY PeerType DEF PeerOf
  <2> DEFINE record == PeerOf(p)
  <2> HIDE DEF record
  <2>4. \E e \in DOMAIN peers' :
          /\ DOMAIN peers \subseteq DOMAIN peers' /\ peers'[e] = PeerOf(p)
          /\ \A k \in DOMAIN peers' \ {e} : k \in DOMAIN peers /\ peers'[k] = peers[k]
          /\ EntryOf(p) # 0 => e = EntryOf(p)
          /\ EntryOf(p) = 0 => e \notin DOMAIN peers
    <3>1. CASE EntryOf(p) = 0
      <4> DEFINE e == Len(peers) + 1
                 longer == Append(peers, record)
      <4>1. longer = peers'
        BY <2>1, <3>1 DEF Registered, record
      <4>2. Len(longer) = Len(peers) + 1 /\ Len(peers) \in Nat /\ longer \in Seq(PeerRecords)
        BY <1>3, <2>3 DEF record
      <4>3. longer[e] = record /\ \A k \in 1..Len(peers) : longer[k] = peers[k]
        BY <1>3
      <4>4. DOMAIN peers = 1..Len(peers) /\ DOMAIN longer = 1..(Len(peers) + 1)
        BY <1>3, <4>2
      <4>5. /\ e \in 1..(Len(peers) + 1) /\ e \notin 1..Len(peers)
            /\ 1..Len(peers) \subseteq 1..(Len(peers) + 1)
            /\ \A k \in 1..(Len(peers) + 1) : k \in 1..Len(peers) \/ k = e
        BY <4>2
      <4> HIDE DEF e, longer
      <4> QED
        BY <3>1, <4>1, <4>3, <4>4, <4>5, Zenon DEF record
    <3>2. CASE EntryOf(p) # 0
      <4> DEFINE e == EntryOf(p)
      <4>1. e \in DOMAIN peers
        BY <3>2, EntryFacts
      <4>2. peers' = [peers EXCEPT ![e] = record]
        BY <2>1, <3>2 DEF Registered, record
      <4> HIDE DEF e
      <4>3. /\ DOMAIN peers' = DOMAIN peers /\ peers'[e] = record
            /\ \A k \in DOMAIN peers \ {e} : peers'[k] = peers[k]
        BY <1>3, <4>1, <4>2
      <4> QED
        BY <3>2, <4>1, <4>3, Zenon DEF record, e
    <3> QED
      BY <3>1, <3>2
  <2>5. PICK e \in DOMAIN peers' :
          /\ DOMAIN peers \subseteq DOMAIN peers' /\ peers'[e] = PeerOf(p)
          /\ \A k \in DOMAIN peers' \ {e} : k \in DOMAIN peers /\ peers'[k] = peers[k]
          /\ EntryOf(p) # 0 => e = EntryOf(p)
          /\ EntryOf(p) = 0 => e \notin DOMAIN peers
    BY <2>4
  <2>6. /\ peers'[e].proc = p /\ peers'[e].worker = WorkerOf[p] /\ peers'[e].boot = BootOf[p]
        /\ peers'[e].registered /\ (peers'[e].role # "replay" => RoleOf[p] # "replay")
    BY <2>3, <2>5
  <2> QED
    BY <1>1, <2>1, <2>2, <2>5, <2>6, RegisterStreams
<1>5. CASE Replace
  <2>1. PICK p \in Processes :
          /\ Greets(p) /\ Replaces(p) /\ backlog' = Tail(backlog) /\ link' = Welcoming(p)
          /\ peers' = [peers EXCEPT ![EntryOf(p)] =
                         [PeerOf(p) EXCEPT !.role = peers[EntryOf(p)].role]]
    BY <1>5, Zenon DEF Replace, Hello
  <2> DEFINE e == EntryOf(p)
             record == [PeerOf(p) EXCEPT !.role = peers[e].role]
  <2>2. e # 0 /\ e \in DOMAIN peers /\ ~Superseded(p) /\ RoleOf[p] # "replay"
    BY <2>1, EntryFacts DEF Replaces
  <2>3. /\ record.proc = p /\ record.worker = WorkerOf[p]
        /\ record.boot = BootOf[p] /\ record.registered
    BY DEF PeerOf
  <2>4. peers' = [peers EXCEPT ![e] = record]
    BY <2>1
  <2> HIDE DEF record, e
  <2>5. /\ DOMAIN peers' = DOMAIN peers /\ peers'[e] = record
        /\ \A k \in DOMAIN peers \ {e} : peers'[k] = peers[k]
    BY <1>3, <2>2, <2>4
  <2>6. /\ e \in DOMAIN peers' /\ DOMAIN peers \subseteq DOMAIN peers'
        /\ peers'[e].proc = p /\ peers'[e].worker = WorkerOf[p] /\ peers'[e].boot = BootOf[p]
        /\ peers'[e].registered /\ (peers'[e].role # "replay" => RoleOf[p] # "replay")
        /\ \A k \in DOMAIN peers' \ {e} : k \in DOMAIN peers /\ peers'[k] = peers[k]
    BY <2>2, <2>3, <2>5
  <2>7. e = EntryOf(p)
    BY DEF e
  <2> QED
    BY <1>1, <2>1, <2>2, <2>6, <2>7, RegisterStreams
<1> QED
  BY <1>4, <1>5

\* A question is put to a process that has answered all others.
LEMMA AskSound ==
  ASSUME NEW l \in Links, NEW s, NEW role, role # "replay", SoundLink(l, s, role), Calm(l),
         NEW f \in Frames
  PROVE  LET m == SentDown(l, f) IN
         /\ SoundLink(m, s, role) /\ m.coordinator = l.coordinator /\ m.up = <<>> /\ NotHello(m)
         /\ \A a : Answering(m, f, a)
         /\ \A i \in DOMAIN m.down :
              m.down[i] = f \/ (i \in DOMAIN l.down /\ m.down[i] = l.down[i])
<1> DEFINE m == SentDown(l, f)
<1>1. l.up = <<>> /\ (l.coordinator = "open" => NoneAsked(l))
  BY DEF SoundLink, Calm
<1>2. <<>> # <<HelloFrame>>
  OBVIOUS
<1>3. CASE l.worker # "open"
  <2>1. m = l
    BY <1>3 DEF SentDown
  <2>2. \A a : Answering(l, f, a)
    BY <1>1, Zenon DEF Answering, NoneAsked
  <2>3. NotHello(l)
    BY <1>1, <1>2, Zenon DEF NotHello
  <2> HIDE DEF m
  <2>4. /\ SoundLink(m, s, role) /\ m.coordinator = l.coordinator /\ m.up = <<>> /\ NotHello(m)
        /\ \A a : Answering(m, f, a)
        /\ \A i \in DOMAIN m.down :
             m.down[i] = f \/ (i \in DOMAIN l.down /\ m.down[i] = l.down[i])
    BY <1>1, <2>1, <2>2, <2>3, Zenon
  <2> QED
    BY <2>4 DEF m
<1>4. CASE l.worker = "open"
  <2>1. /\ m.coordinator = l.coordinator /\ m.worker = l.worker /\ m.up = l.up
        /\ m.down = Append(l.down, f)
    BY <1>4, SentFacts
  <2>2. /\ Len(m.down) = Len(l.down) + 1
        /\ \A i \in DOMAIN m.down :
             \/ i \in DOMAIN l.down /\ m.down[i] = l.down[i]
             \/ i = Len(l.down) + 1 /\ m.down[i] = f
    BY <2>1, LinkFields, AppendFacts
  <2> HIDE DEF m
  <2>3. NotHello(m)
    BY <1>1, <1>2, <2>1, Zenon DEF NotHello
  <2>4. l.coordinator = "open" =>
          \A i \in DOMAIN m.down : Question(m.down[i]) => i = Len(m.down) /\ m.down[i] = f
    BY <1>1, <2>2, Zenon DEF NoneAsked
  <2>5. \A a : Answering(m, f, a)
    BY <1>1, <2>1, <2>4, Zenon DEF Answering
  <2>6. s \in Running /\ s # "new"
    BY <1>4 DEF SoundLink, Running
  <2>7. Len(m.up) <= 1
    BY <1>1, <2>1
  <2>8. SoundLink(m, s, role)
    BY <1>1, <1>4, <2>1, <2>4, <2>6, <2>7, Zenon DEF SoundLink
  <2>9. /\ SoundLink(m, s, role) /\ m.coordinator = l.coordinator /\ m.up = <<>> /\ NotHello(m)
        /\ \A a : Answering(m, f, a)
        /\ \A i \in DOMAIN m.down :
             m.down[i] = f \/ (i \in DOMAIN l.down /\ m.down[i] = l.down[i])
    BY <1>1, <2>1, <2>2, <2>3, <2>5, <2>8, Zenon
  <2> QED
    BY <2>9 DEF m
<1> QED
  BY <1>3, <1>4

\* The answer to the question that is out is read.
LEMMA HeardSound ==
  ASSUME NEW l \in Links, NEW s, NEW role, SoundLink(l, s, role), NEW q, NEW a,
         Answering(l, q, a), l.up # <<>>
  PROVE  LET m == UpRead(l) IN
         /\ SoundLink(m, s, role) /\ m \in Links /\ l.coordinator = "open"
         /\ m.coordinator = "open" /\ m.down = l.down /\ Calm(m) /\ NotHello(m)
<1> DEFINE m == UpRead(l)
<1>1. l.coordinator = "open" /\ Len(l.up) <= 1 /\ l.up \in Seq(Frames)
  BY LinkFields DEF SoundLink
<1>2. NoneAsked(l)
  BY <1>1 DEF Answering
<1>3. /\ m.coordinator = l.coordinator /\ m.worker = l.worker /\ m.down = l.down
      /\ m.up = Rest(l.up) /\ m \in Links
  BY ReadFacts, LinkTypes, FrameFacts
<1>4. Rest(l.up) = <<>>
  BY <1>1, RestFacts
<1>5. s # "new"
  BY <1>1 DEF SoundLink, NoLink
<1>6. <<>> # <<HelloFrame>> /\ Len(<<>>) <= 1
  OBVIOUS
<1> HIDE DEF m
<1>7. NoneAsked(m)
  BY <1>2, <1>3, Zenon DEF NoneAsked
<1>8. SoundLink(m, s, role)
  BY <1>1, <1>2, <1>3, <1>4, <1>5, <1>6, <1>7, Zenon DEF SoundLink
<1>9. Calm(m) /\ NotHello(m)
  BY <1>3, <1>4, <1>6, <1>7, Zenon DEF Calm, NotHello
<1> QED
  BY <1>1, <1>3, <1>8, <1>9 DEF m

\* The steps in which the coordinator speaks with its peers.
LEMMA SpeechStreams ==
  ASSUME SessionTyped, StreamInv, at \in Driving, at' \in Active \ {"stale"},
         proc' = proc, recorded' = recorded, backlog' = backlog, applier' = applier,
         observer' = observer, runs' = runs,
         DOMAIN peers' = DOMAIN peers,
         \A k \in DOMAIN peers :
            /\ peers'[k].proc = peers[k].proc /\ peers'[k].worker = peers[k].worker
            /\ peers'[k].boot = peers[k].boot /\ peers'[k].role = peers[k].role
            /\ peers'[k].registered => link'[Peer(k)].coordinator = "open"
            /\ NotHello(link'[Peer(k)]),
         Served' => peers'[applier].registered,
         \A q \in Processes :
            /\ SoundLink(link'[q], proc[q], RoleOf[q])
            /\ (\A k \in DOMAIN peers : q # Peer(k)) => link'[q] = link[q]
            /\ \A i \in DOMAIN link'[q].down :
                 link'[q].down[i].kind = "STAGE_GRANT" => \E g \in granted' : g[3] = q,
         granted \subseteq granted',
         \A g \in granted' : g \in granted \/ \E k \in DOMAIN peers : g[3] = Peer(k),
         PeersCalm', Asked'
  PROVE  StreamInv'
<1>1. at \in Active /\ Equipped /\ Served
  BY DEF Equipped, Served, Driving, Active, Waiting, Working
<1>2. \A k \in DOMAIN peers : Peer(k)' = Peer(k) /\ peers[k].boot \in Nat
  BY PeerFacts DEF Peer
<1>3. SoundLinks'
  BY Zenon DEF SoundLinks
<1>4. Queued'
  <2>1. \A q \in Processes : QueuedLink(link[q], proc[q]) => link'[q] = link[q]
    BY <1>1 DEF StreamInv, PeersKnown, QueuedLink, NotHello
  <2> QED
    BY <1>1, <2>1, QueueKept
<1>5. Unheard'
  BY DEF Unheard
<1>6. PeersKnown'
  <2>1. \A k \in DOMAIN peers :
          /\ peers[k].worker = WorkerOf[Peer(k)] /\ peers[k].boot = BootOf[Peer(k)]
          /\ \A n \in DOMAIN peers : peers[n].worker = peers[k].worker => n = k
          /\ peers[k].role # "replay" => RoleOf[Peer(k)] # "replay"
          /\ proc[Peer(k)] # "new"
    BY <1>1, Zenon DEF StreamInv, PeersKnown
  <2>2. ASSUME NEW k \in DOMAIN peers'
        PROVE  /\ peers'[k].worker = WorkerOf[Peer(k)'] /\ peers'[k].boot = BootOf[Peer(k)']
               /\ \A n \in DOMAIN peers' : peers'[n].worker = peers'[k].worker => n = k
               /\ peers'[k].role # "replay" => RoleOf[Peer(k)'] # "replay"
               /\ peers'[k].registered => link'[Peer(k)'].coordinator = "open"
               /\ NotHello(link'[Peer(k)']) /\ proc'[Peer(k)'] # "new"
    BY <1>2, <2>1
  <2> QED
    BY <2>2, Zenon DEF PeersKnown
<1>7. NoReplays'
  <2>1. applier \in DOMAIN peers /\ observer \in DOMAIN peers
    BY <1>1 DEF SessionTyped, ControlTyped
  <2>2. RoleOf[Peer(applier)] # "replay" /\ RoleOf[Peer(observer)] # "replay"
    BY <1>1 DEF StreamInv, NoReplays
  <2>3. Peer(applier)' = Peer(applier) /\ Peer(observer)' = Peer(observer)
    BY <2>1 DEF Peer
  <2> QED
    BY <2>2, <2>3, Zenon DEF NoReplays
<1>8. GrantsKnown'
  <2>1. runs <= 1 => \A q \in Processes :
          recorded[q] # NotRecorded => \E g \in granted' : g[3] = q
    BY Zenon DEF StreamInv, GrantsKnown
  <2>2. ASSUME NEW g \in granted'
        PROVE  \E k \in DOMAIN peers' :
                 peers'[k].worker = WorkerOf[g[3]] /\ peers'[k].boot >= BootOf[g[3]]
    <3>1. CASE g \in granted
      <4>1. PICK k \in DOMAIN peers :
              peers[k].worker = WorkerOf[g[3]] /\ peers[k].boot >= BootOf[g[3]]
        BY <1>1, <3>1 DEF StreamInv, GrantsKnown
      <4> QED
        BY <4>1
    <3>2. CASE \E k \in DOMAIN peers : g[3] = Peer(k)
      <4>1. PICK k \in DOMAIN peers : g[3] = Peer(k)
        BY <3>2
      <4>2. peers[k].worker = WorkerOf[g[3]] /\ peers[k].boot = BootOf[g[3]]
            /\ peers[k].boot \in Nat
        BY <1>1, <1>2, <4>1 DEF StreamInv, PeersKnown
      <4>3. peers'[k].worker = WorkerOf[g[3]] /\ peers'[k].boot >= BootOf[g[3]]
        BY <4>2
      <4> QED
        BY <4>3
    <3> QED
      BY <3>1, <3>2
  <2> QED
    BY <2>1, <2>2, Zenon DEF GrantsKnown
<1> QED
  BY <1>3, <1>4, <1>5, <1>6, <1>7, <1>8 DEF StreamInv

\* The peers the plan is driven with.
LEMMA DrivenPeers ==
  ASSUME SessionTyped, StreamInv, at \in Driving
  PROVE  /\ at \in Active
         /\ applier \in DOMAIN peers /\ observer \in DOMAIN peers
         /\ Peer(applier) \in Processes /\ Peer(observer) \in Processes
         /\ RoleOf[Peer(applier)] # "replay" /\ RoleOf[Peer(observer)] # "replay"
         /\ peers[applier].registered /\ link[Peer(applier)].coordinator = "open"
         /\ \A k \in DOMAIN peers : Peer(k) = Peer(applier) => k = applier
<1>1. at \in Active /\ Equipped /\ Served
  BY DEF Equipped, Served, Driving, Active, Waiting, Working
<1>2. applier \in DOMAIN peers /\ observer \in DOMAIN peers
  BY <1>1 DEF SessionTyped, ControlTyped
<1>3. /\ RoleOf[Peer(applier)] # "replay" /\ RoleOf[Peer(observer)] # "replay"
      /\ peers[applier].registered
  BY <1>1 DEF StreamInv, NoReplays
<1>4. link[Peer(applier)].coordinator = "open"
  BY <1>1, <1>2, <1>3 DEF StreamInv, PeersKnown
<1>5. ASSUME NEW k \in DOMAIN peers, Peer(k) = Peer(applier) PROVE k = applier
  BY <1>1, <1>2, <1>5 DEF StreamInv, PeersKnown
<1> QED
  BY <1>1, <1>2, <1>3, <1>4, <1>5, PeerFacts

\* What a link of the session is.
LEMMA LinkNow ==
  ASSUME SessionTyped, StreamInv, NEW q \in Processes
  PROVE  /\ link[q] \in Links /\ SoundLink(link[q], proc[q], RoleOf[q])
         /\ \A i \in DOMAIN link[q].down :
              link[q].down[i].kind = "STAGE_GRANT" => \E g \in granted : g[3] = q
BY DEF SessionTyped, LinksTyped, StreamInv, SoundLinks, GrantsKnown

\* A peer of which nothing is expected is calm.
LEMMA CalmNow ==
  ASSUME SessionTyped, StreamInv, at \in Driving, NEW k \in DOMAIN peers,
         RoleOf[Peer(k)] # "replay", ~Expected(Peer(k))
  PROVE  Calm(link[Peer(k)])
BY DEF StreamInv, PeersCalm, Driving, Active, Waiting, Working

LEMMA GrantStreams ==
  ASSUME SessionTyped, StreamInv, GrantStage
  PROVE  StreamInv'
<1> DEFINE grant == GrantOf(applier)
<1>1. /\ at = "loop" /\ at' \in {"report", "finish"}
      /\ link' = [link EXCEPT ![Peer(applier)] = SentDown(@, grant)]
      /\ granted' = granted \cup {<<Plan.generation, Plan.attempt, Peer(applier)>>}
      /\ proc' = proc /\ recorded' = recorded /\ backlog' = backlog /\ applier' = applier
      /\ observer' = observer /\ runs' = runs /\ peers' = peers /\ epoch' = epoch
      /\ plans' = plans
  BY DEF GrantStage, End
<1>2. at \in Driving /\ at' \in Active \ {"stale"}
  BY <1>1 DEF Driving, Active, Waiting, Working
<1>3. PICK p \in Processes : p = Peer(applier)
  BY <1>2, DrivenPeers
<1>4. /\ link[p] \in Links /\ SoundLink(link[p], proc[p], RoleOf[p]) /\ RoleOf[p] # "replay"
      /\ grant \in Frames /\ applier \in DOMAIN peers /\ link[p].coordinator = "open"
      /\ \A i \in DOMAIN link[p].down :
           link[p].down[i].kind = "STAGE_GRANT" => \E g \in granted : g[3] = p
  BY <1>2, <1>3, DrivenPeers, LinkNow, GrantType, FrameFacts
<1>5. Calm(link[p])
  BY <1>1, <1>2, <1>3, <1>4, CalmNow DEF Expected
<1> DEFINE m == SentDown(link[p], grant)
<1>6. /\ SoundLink(m, proc[p], RoleOf[p]) /\ m.coordinator = "open" /\ NotHello(m)
      /\ \A a : Answering(m, grant, a)
      /\ \A i \in DOMAIN m.down :
           m.down[i] = grant \/ (i \in DOMAIN link[p].down /\ m.down[i] = link[p].down[i])
  BY <1>4, <1>5, AskSound
<1>7. link'[p] = m /\ \A q \in Processes \ {p} : link'[q] = link[q]
  BY <1>1, <1>3 DEF SessionTyped, LinksTyped
<1> HIDE DEF m, grant
<1>8. \A k \in DOMAIN peers :
        /\ Peer(k) \in Processes /\ Peer(k)' = Peer(k)
        /\ peers[k].registered => link[Peer(k)].coordinator = "open"
        /\ NotHello(link[Peer(k)])
  BY <1>1, <1>2, PeerFacts, DrivenPeers DEF StreamInv, PeersKnown, Peer
<1>9. /\ granted \subseteq granted'
      /\ \A g \in granted' : g \in granted \/ \E k \in DOMAIN peers : g[3] = Peer(k)
      /\ \E g \in granted' : g[3] = p
  <2> DEFINE g == <<Plan.generation, Plan.attempt, Peer(applier)>>
  <2>1. g[3] = p
    BY <1>3
  <2>2. granted' = granted \cup {g}
    BY <1>1
  <2> HIDE DEF g
  <2> QED
    BY <1>3, <1>4, <2>1, <2>2
<1>10. \A q \in Processes :
         /\ SoundLink(link'[q], proc[q], RoleOf[q])
         /\ (\A k \in DOMAIN peers : q # Peer(k)) => link'[q] = link[q]
         /\ \A i \in DOMAIN link'[q].down :
              link'[q].down[i].kind = "STAGE_GRANT" => \E g \in granted' : g[3] = q
  <2>1. ASSUME NEW q \in Processes, q # p
        PROVE  /\ SoundLink(link'[q], proc[q], RoleOf[q])
               /\ \A i \in DOMAIN link'[q].down :
                    link'[q].down[i].kind = "STAGE_GRANT" => \E g \in granted' : g[3] = q
    BY <1>7, <1>9, <2>1, LinkNow
  <2>2. SoundLink(link'[p], proc[p], RoleOf[p])
    BY <1>6, <1>7
  <2> QED
    BY <1>3, <1>4, <1>7, <1>9, <2>1, <2>2, Zenon
<1>11. \A k \in DOMAIN peers :
         /\ peers[k].registered => link'[Peer(k)].coordinator = "open"
         /\ NotHello(link'[Peer(k)])
  BY <1>6, <1>7, <1>8
<1>12. PeersCalm'
  <2>1. ASSUME at' = "report", NEW k \in DOMAIN peers, RoleOf[Peer(k)] # "replay",
               Peer(k) # p
        PROVE  Calm(link'[Peer(k)])
    <3>1. ~Expected(Peer(k))
      BY <1>1 DEF Expected
    <3>2. Calm(link[Peer(k)])
      BY <1>2, <2>1, <3>1, CalmNow
    <3> QED
      BY <1>7, <1>8, <2>1, <3>2
  <2>2. \A k \in DOMAIN peers : at' = "report" /\ ~Expected(Peer(k))' => Peer(k) # p
    BY <1>1, <1>3, <1>8 DEF Expected, Peer
  <2> QED
    BY <1>1, <1>8, <2>1, <2>2 DEF PeersCalm
<1>13. Asked'
  <2>1. GrantOf(applier)' = grant /\ Peer(applier)' = p
    BY <1>1, <1>3 DEF GrantOf, Plan, Peer, grant
  <2>2. at' # "evidence"
    BY <1>1
  <2> QED
    BY <1>6, <1>7, <2>1, <2>2, Zenon DEF Asked
<1>14. DOMAIN peers' = DOMAIN peers /\ (Served' => peers'[applier].registered)
  BY <1>1, <1>2, DrivenPeers
<1> QED
  BY <1>1, <1>2, <1>9, <1>10, <1>11, <1>12, <1>13, <1>14, SpeechStreams

\* Nothing that could be read is lost when a frame is there.
LEMMA FrameThere ==
  ASSUME NEW k, NEW f \in Replies(k), f.kind # "NONE"
  PROVE  link[Peer(k)].up # <<>>
BY DEF Replies, Received, Failure

LEMMA DeathStreams ==
  ASSUME SessionTyped, StreamInv, WorkerDeath
  PROVE  StreamInv'
<1>1. /\ at = "report" /\ at' = "accept" /\ waitFor' = "replacement"
      /\ link' = [link EXCEPT ![Peer(applier)] = ClosedByCoordinator(@)]
      /\ peers' = [peers EXCEPT ![applier].registered = FALSE]
      /\ granted' = granted
      /\ proc' = proc /\ recorded' = recorded /\ backlog' = backlog /\ applier' = applier
      /\ observer' = observer /\ runs' = runs
  BY DEF WorkerDeath
<1>2. at \in Driving /\ at' \in Active \ {"stale"}
  BY <1>1 DEF Driving, Active, Waiting, Working
<1>3. PICK p \in Processes : p = Peer(applier)
  BY <1>2, DrivenPeers
<1>4. /\ link[p] \in Links /\ SoundLink(link[p], proc[p], RoleOf[p])
      /\ applier \in DOMAIN peers /\ link[p].coordinator = "open"
      /\ \A i \in DOMAIN link[p].down :
           link[p].down[i].kind = "STAGE_GRANT" => \E g \in granted : g[3] = p
      /\ \A k \in DOMAIN peers : Peer(k) = p => k = applier
  BY <1>2, <1>3, DrivenPeers, LinkNow
<1> DEFINE m == ClosedByCoordinator(link[p])
<1>6. /\ SoundLink(m, proc[p], RoleOf[p]) /\ m.coordinator = "closed" /\ m.up = <<>>
      /\ m.down = link[p].down
  BY <1>4, CloseSound
<1>7. link'[p] = m /\ \A q \in Processes \ {p} : link'[q] = link[q]
  BY <1>1, <1>3 DEF SessionTyped, LinksTyped
<1> HIDE DEF m
<1>5. Calm(m) /\ NotHello(m)
  <2>1. <<>> # <<HelloFrame>>
    OBVIOUS
  <2> QED
    BY <1>6, <2>1, Zenon DEF Calm, NotHello
<1>8. \A k \in DOMAIN peers :
        /\ Peer(k) \in Processes
        /\ peers[k].registered => link[Peer(k)].coordinator = "open"
        /\ NotHello(link[Peer(k)])
  BY <1>1, <1>2, PeerFacts, DrivenPeers DEF StreamInv, PeersKnown
<1>9. /\ DOMAIN peers' = DOMAIN peers /\ ~peers'[applier].registered
      /\ \A k \in DOMAIN peers :
           /\ peers'[k].proc = peers[k].proc /\ peers'[k].worker = peers[k].worker
           /\ peers'[k].boot = peers[k].boot /\ peers'[k].role = peers[k].role
           /\ k # applier => peers'[k].registered = peers[k].registered
  <2> DEFINE gone == [peers[applier] EXCEPT !.registered = FALSE]
  <2>1. peers' = [peers EXCEPT ![applier] = gone]
    BY <1>1
  <2>2. peers[applier] \in PeerRecords
    BY <1>4, PeerFacts
  <2>3. /\ gone.proc = peers[applier].proc /\ gone.worker = peers[applier].worker
        /\ gone.boot = peers[applier].boot /\ gone.role = peers[applier].role
        /\ gone.registered = FALSE
    BY <2>2 DEF PeerRecords
  <2> HIDE DEF gone
  <2>4. /\ DOMAIN peers' = DOMAIN peers /\ peers'[applier] = gone
        /\ \A k \in DOMAIN peers \ {applier} : peers'[k] = peers[k]
    BY <1>4, <2>1 DEF SessionTyped, ControlTyped
  <2> QED
    BY <2>3, <2>4
<1>10. \A q \in Processes :
         /\ SoundLink(link'[q], proc[q], RoleOf[q])
         /\ (\A k \in DOMAIN peers : q # Peer(k)) => link'[q] = link[q]
         /\ \A i \in DOMAIN link'[q].down :
              link'[q].down[i].kind = "STAGE_GRANT" => \E g \in granted' : g[3] = q
  BY <1>1, <1>3, <1>4, <1>6, <1>7, LinkNow
<1>11. \A k \in DOMAIN peers :
         /\ peers'[k].registered => link'[Peer(k)].coordinator = "open"
         /\ NotHello(link'[Peer(k)])
  BY <1>3, <1>4, <1>5, <1>7, <1>8, <1>9
<1>12. PeersCalm'
  <2>1. ASSUME NEW k \in DOMAIN peers, RoleOf[Peer(k)] # "replay"
        PROVE  Calm(link'[Peer(k)])
    <3>1. CASE Peer(k) = p
      BY <1>5, <1>7, <3>1
    <3>2. CASE Peer(k) # p
      <4>1. ~Expected(Peer(k))
        BY <1>1, <1>3, <3>2 DEF Expected
      <4>2. Calm(link[Peer(k)])
        BY <1>2, <2>1, <4>1, CalmNow
      <4> QED
        BY <1>7, <1>8, <3>2, <4>2
    <3> QED
      BY <3>1, <3>2
  <2>2. \A k \in DOMAIN peers : Peer(k)' = Peer(k)
    BY <1>9 DEF Peer
  <2> QED
    BY <1>9, <2>1, <2>2, Zenon DEF PeersCalm
<1>13. Asked' /\ ~Served'
  BY <1>1 DEF Asked, Served, Driving
<1> QED
  BY <1>1, <1>2, <1>9, <1>10, <1>11, <1>12, <1>13, SpeechStreams

LEMMA EvidenceStreams ==
  ASSUME SessionTyped, StreamInv, ReceiveEvidence
  PROVE  StreamInv'
<1>1. /\ at = "evidence" /\ at' \in {"rollback", "save"}
      /\ link' = [link EXCEPT ![Peer(observer)] = UpRead(@)]
      /\ peers' = peers /\ granted' = granted
      /\ proc' = proc /\ recorded' = recorded /\ backlog' = backlog /\ applier' = applier
      /\ observer' = observer /\ runs' = runs
      /\ \E f \in Replies(observer) : f.kind = "EVIDENCE_PUBLISH"
  BY Zenon DEF ReceiveEvidence, history
<1>2. at \in Driving /\ at' \in Active \ {"stale"}
  BY <1>1 DEF Driving, Active, Waiting, Working
<1>3. PICK p \in Processes : p = Peer(observer)
  BY <1>2, DrivenPeers
<1>4. /\ link[p] \in Links /\ SoundLink(link[p], proc[p], RoleOf[p])
      /\ applier \in DOMAIN peers /\ observer \in DOMAIN peers /\ peers[applier].registered
      /\ link[p].up # <<>>
      /\ \A i \in DOMAIN link[p].down :
           link[p].down[i].kind = "STAGE_GRANT" => \E g \in granted : g[3] = p
  BY <1>1, <1>2, <1>3, DrivenPeers, LinkNow, FrameThere
<1> DEFINE m == UpRead(link[p])
<1>6. /\ SoundLink(m, proc[p], RoleOf[p]) /\ m.coordinator = "open"
      /\ m.down = link[p].down /\ Calm(m) /\ NotHello(m)
  <2>1. Answering(link[p], Request, EvidenceOf(Request))
    BY <1>1, <1>3 DEF StreamInv, Asked
  <2> QED
    BY <1>4, <2>1, HeardSound
<1>7. link'[p] = m /\ \A q \in Processes \ {p} : link'[q] = link[q]
  BY <1>1, <1>3 DEF SessionTyped, LinksTyped
<1> HIDE DEF m
<1>8. \A k \in DOMAIN peers :
        /\ Peer(k) \in Processes /\ Peer(k)' = Peer(k)
        /\ peers[k].registered => link[Peer(k)].coordinator = "open"
        /\ NotHello(link[Peer(k)])
  BY <1>1, <1>2, PeerFacts, DrivenPeers DEF StreamInv, PeersKnown, Peer
<1>10. \A q \in Processes :
         /\ SoundLink(link'[q], proc[q], RoleOf[q])
         /\ (\A k \in DOMAIN peers : q # Peer(k)) => link'[q] = link[q]
         /\ \A i \in DOMAIN link'[q].down :
              link'[q].down[i].kind = "STAGE_GRANT" => \E g \in granted' : g[3] = q
  BY <1>1, <1>3, <1>4, <1>6, <1>7, LinkNow
<1>11. \A k \in DOMAIN peers :
         /\ peers[k].registered => link'[Peer(k)].coordinator = "open"
         /\ NotHello(link'[Peer(k)])
  BY <1>6, <1>7, <1>8
<1>12. PeersCalm'
  <2>1. ASSUME NEW k \in DOMAIN peers, RoleOf[Peer(k)] # "replay"
        PROVE  Calm(link'[Peer(k)])
    <3>1. CASE Peer(k) = p
      BY <1>6, <1>7, <3>1
    <3>2. CASE Peer(k) # p
      <4>1. ~Expected(Peer(k))
        BY <1>1, <1>3, <3>2 DEF Expected
      <4>2. Calm(link[Peer(k)])
        BY <1>2, <2>1, <4>1, CalmNow
      <4> QED
        BY <1>7, <1>8, <3>2, <4>2
    <3> QED
      BY <3>1, <3>2
  <2> QED
    BY <1>1, <1>8, <2>1, Zenon DEF PeersCalm
<1>13. Asked'
  BY <1>1 DEF Asked
<1> QED
  BY <1>1, <1>2, <1>4, <1>10, <1>11, <1>12, <1>13, SpeechStreams

LEMMA ReportStreams ==
  ASSUME SessionTyped, StreamInv, ReceiveReport
  PROVE  StreamInv'
<1> DEFINE heard == [link EXCEPT ![Peer(applier)] = UpRead(@)]
           request == EvidenceRequest
<1>1. /\ at = "report" /\ at' \in {"evidence", "finish"} /\ now' = now + TickStep
      /\ link' = [heard EXCEPT ![Peer(observer)] = SentDown(@, request)]
      /\ peers' = peers /\ granted' = granted /\ epoch' = epoch /\ recurring' = recurring
      /\ proc' = proc /\ recorded' = recorded /\ backlog' = backlog /\ applier' = applier
      /\ observer' = observer /\ runs' = runs
      /\ \E f \in Replies(applier) : f.kind = "STAGE_REPORT"
  BY DEF ReceiveReport, End, history
<1>2. at \in Driving /\ at' \in Active \ {"stale"}
  BY <1>1 DEF Driving, Active, Waiting, Working
<1>3. PICK p \in Processes : p = Peer(applier)
  BY <1>2, DrivenPeers
<1>4. PICK o \in Processes : o = Peer(observer)
  BY <1>2, DrivenPeers
<1>5. /\ link[p] \in Links /\ SoundLink(link[p], proc[p], RoleOf[p]) /\ RoleOf[o] # "replay"
      /\ applier \in DOMAIN peers /\ observer \in DOMAIN peers /\ peers[applier].registered
      /\ link[p].up # <<>>
  BY <1>1, <1>2, <1>3, <1>4, DrivenPeers, LinkNow, FrameThere
<1>6. request \in Frames /\ request.kind = "EVIDENCE_REQUEST"
  <2>1. now' \in Nat
    BY <1>1, EngineFacts, SessionAssumption DEF SessionTyped
  <2>2. request \in Requests
    BY <1>5, <2>1, RequestType
  <2> QED
    BY <2>2, FrameFacts DEF Requests
<1>7. /\ SoundLink(UpRead(link[p]), proc[p], RoleOf[p]) /\ UpRead(link[p]) \in Links
      /\ link[p].coordinator = "open" /\ UpRead(link[p]).coordinator = "open"
      /\ UpRead(link[p]).down = link[p].down
      /\ Calm(UpRead(link[p])) /\ NotHello(UpRead(link[p]))
  <2>1. Answering(link[p], GrantOf(applier), ReportOf(GrantOf(applier)))
    BY <1>1, <1>3 DEF StreamInv, Asked
  <2> QED
    BY <1>5, <2>1, HeardSound
<1>8. /\ heard \in [Processes -> Links] /\ heard[p] = UpRead(link[p])
      /\ \A q \in Processes \ {p} : heard[q] = link[q]
  BY <1>3, <1>7 DEF SessionTyped, LinksTyped
<1>9. link'[o] = SentDown(heard[o], request) /\ \A q \in Processes \ {o} : link'[q] = heard[q]
  BY <1>1, <1>4, <1>8
<1> HIDE DEF heard, request
<1>10. ASSUME NEW q \in Processes
       PROVE  /\ heard[q] \in Links /\ SoundLink(heard[q], proc[q], RoleOf[q])
              /\ heard[q].down = link[q].down /\ heard[q].coordinator = link[q].coordinator
  BY <1>7, <1>8, LinkNow
<1>11. ASSUME NEW k \in DOMAIN peers
       PROVE  /\ Peer(k) \in Processes /\ Peer(k)' = Peer(k)
              /\ peers[k].registered => heard[Peer(k)].coordinator = "open"
              /\ NotHello(heard[Peer(k)])
              /\ RoleOf[Peer(k)] # "replay" => Calm(heard[Peer(k)])
  <2>1. /\ Peer(k) \in Processes /\ Peer(k)' = Peer(k)
        /\ peers[k].registered => link[Peer(k)].coordinator = "open"
        /\ NotHello(link[Peer(k)])
    BY <1>1, <1>2, PeerFacts, DrivenPeers DEF StreamInv, PeersKnown, Peer
  <2>2. CASE Peer(k) = p
    BY <1>7, <1>8, <2>1, <2>2
  <2>3. CASE Peer(k) # p
    <3>1. ~Expected(Peer(k))
      BY <1>1, <1>3, <2>3 DEF Expected
    <3>2. RoleOf[Peer(k)] # "replay" => Calm(link[Peer(k)])
      BY <1>2, <3>1, CalmNow
    <3> QED
      BY <1>8, <2>1, <2>3, <3>2
  <2> QED
    BY <2>2, <2>3
<1>12. /\ SoundLink(link'[o], proc[o], RoleOf[o]) /\ link'[o].coordinator = heard[o].coordinator
       /\ NotHello(link'[o]) /\ \A a : Answering(link'[o], request, a)
       /\ \A i \in DOMAIN link'[o].down :
            \/ link'[o].down[i] = request
            \/ i \in DOMAIN heard[o].down /\ link'[o].down[i] = heard[o].down[i]
  <2>1. Calm(heard[o])
    BY <1>4, <1>5, <1>11
  <2> QED
    BY <1>5, <1>6, <1>9, <1>10, <2>1, AskSound
<1>13. ASSUME NEW q \in Processes
       PROVE  /\ SoundLink(link'[q], proc[q], RoleOf[q])
              /\ (\A k \in DOMAIN peers : q # Peer(k)) => link'[q] = link[q]
              /\ \A i \in DOMAIN link'[q].down :
                   link'[q].down[i].kind = "STAGE_GRANT" => \E g \in granted' : g[3] = q
  <2>1. SoundLink(link'[q], proc[q], RoleOf[q])
    BY <1>9, <1>10, <1>12
  <2>2. ASSUME \A k \in DOMAIN peers : q # Peer(k) PROVE link'[q] = link[q]
    BY <1>3, <1>4, <1>5, <1>8, <1>9, <2>2
  <2>3. ASSUME NEW i \in DOMAIN link'[q].down, link'[q].down[i].kind = "STAGE_GRANT"
        PROVE  \E g \in granted' : g[3] = q
    <3>1. i \in DOMAIN heard[q].down /\ link'[q].down[i] = heard[q].down[i]
      BY <1>6, <1>9, <1>12, <2>3
    <3>2. i \in DOMAIN link[q].down /\ link[q].down[i].kind = "STAGE_GRANT"
      BY <1>10, <2>3, <3>1
    <3> QED
      BY <1>1, <3>2, LinkNow
  <2> QED
    BY <2>1, <2>2, <2>3
<1>14. \A k \in DOMAIN peers :
         /\ peers[k].registered => link'[Peer(k)].coordinator = "open"
         /\ NotHello(link'[Peer(k)])
  BY <1>9, <1>11, <1>12
<1>15. PeersCalm'
  <2>1. ASSUME NEW k \in DOMAIN peers, RoleOf[Peer(k)] # "replay", Peer(k) # o
        PROVE  Calm(link'[Peer(k)])
    BY <1>9, <1>11, <2>1
  <2>2. \A k \in DOMAIN peers : at' = "evidence" /\ ~Expected(Peer(k))' => Peer(k) # o
    BY <1>1, <1>4, <1>11 DEF Expected, Peer
  <2> QED
    BY <1>1, <1>11, <2>1, <2>2 DEF PeersCalm
<1>16. Asked'
  <2>1. Request' = request /\ Peer(observer)' = o
    BY <1>1, <1>4 DEF Request, EvidenceRequest, Peer, request
  <2>2. at' # "report"
    BY <1>1
  <2> QED
    BY <1>12, <2>1, <2>2, Zenon DEF Asked
<1> QED
  BY <1>1, <1>2, <1>5, <1>13, <1>14, <1>15, <1>16, SpeechStreams

\* The run ends, by itself or by its death.
LEMMA EndStreams ==
  ASSUME SessionTyped, StreamInv, Finish \/ Crash
  PROVE  StreamInv'
<1>1. /\ at \in Active /\ at' \in {"down", "done"}
      /\ proc' = proc /\ recorded' = recorded /\ runs' = runs /\ granted' = granted
  BY Zenon DEF Finish, Crash, Active, Working, history
<1>2. at' \notin Active /\ ~Equipped' /\ ~Served'
  BY <1>1 DEF Active, Waiting, Working, Equipped, Served, Driving
<1>3. ASSUME NEW q \in Processes
      PROVE  /\ SoundLink(link'[q], proc[q], RoleOf[q]) /\ link'[q].coordinator # "open"
             /\ \A i \in DOMAIN link'[q].down :
                  link'[q].down[i].kind = "STAGE_GRANT" => \E g \in granted : g[3] = q
  <2>1. /\ link[q] \in Links /\ SoundLink(link[q], proc[q], RoleOf[q])
        /\ \A i \in DOMAIN link[q].down :
             link[q].down[i].kind = "STAGE_GRANT" => \E g \in granted : g[3] = q
    BY LinkNow
  <2>2. CASE link'[q] = Released(link[q])
    <3>1. CASE link[q].coordinator = "open"
      <4>1. link'[q] = ClosedByCoordinator(link[q])
        BY <2>2, <3>1 DEF Released
      <4>2. /\ SoundLink(ClosedByCoordinator(link[q]), proc[q], RoleOf[q])
            /\ ClosedByCoordinator(link[q]).coordinator = "closed"
            /\ ClosedByCoordinator(link[q]).down = link[q].down
        BY <2>1, <3>1, CloseSound
      <4> QED
        BY <2>1, <4>1, <4>2
    <3>2. CASE link[q].coordinator # "open"
      <4>1. link'[q] = link[q]
        BY <2>2, <3>2 DEF Released
      <4> QED
        BY <2>1, <3>2, <4>1
    <3> QED
      BY <3>1, <3>2
  <2>3. ASSUME at = "finish", IsRegistered(q), link'[q] = Released(SentDown(link[q], Goodbye))
        PROVE  /\ SoundLink(link'[q], proc[q], RoleOf[q]) /\ link'[q].coordinator # "open"
               /\ \A i \in DOMAIN link'[q].down :
                    link'[q].down[i].kind = "STAGE_GRANT" => \E g \in granted : g[3] = q
    <3>1. link[q].coordinator = "open"
      BY <1>1, <2>3 DEF IsRegistered, StreamInv, PeersKnown, Peer
    <3>2. Goodbye \in Signals /\ Goodbye \in Frames
      BY FrameFacts DEF Goodbye, Signals
    <3>3. SentDown(link[q], Goodbye).coordinator = "open"
      BY <2>1, <3>1, <3>2, SentFacts
    <3>4. link'[q] = ClosedByCoordinator(SentDown(link[q], Goodbye))
      BY <2>3, <3>3 DEF Released
    <3>5. LET m == ClosedByCoordinator(SentDown(link[q], Goodbye)) IN
          /\ SoundLink(m, proc[q], RoleOf[q]) /\ m.coordinator = "closed"
          /\ \A i \in DOMAIN m.down :
               m.down[i].kind = "STAGE_GRANT" => i \in DOMAIN link[q].down /\ link[q].down[i] = m.down[i]
      BY <2>1, <3>1, <3>2, SendCloseSound
    <3>6. /\ SoundLink(link'[q], proc[q], RoleOf[q]) /\ link'[q].coordinator = "closed"
          /\ \A i \in DOMAIN link'[q].down :
               link'[q].down[i].kind = "STAGE_GRANT" =>
                 i \in DOMAIN link[q].down /\ link[q].down[i] = link'[q].down[i]
      BY <3>4, <3>5, Zenon
    <3> QED
      BY <2>1, <3>6
  <2>4. CASE Finish
    <3>1. at = "finish"
      BY <2>4 DEF Finish
    <3>2. link'[q] = IF IsRegistered(q) THEN Released(SentDown(link[q], Goodbye))
                     ELSE Released(link[q])
      BY <2>4 DEF Finish
    <3> QED
      BY <2>2, <2>3, <3>1, <3>2
  <2>5. CASE Crash
    <3>1. link'[q] = Released(link[q])
      BY <2>5 DEF Crash
    <3> QED
      BY <2>2, <3>1
  <2> QED
    BY <2>4, <2>5
<1>4. SoundLinks' /\ Queued' /\ Unheard'
  BY <1>1, <1>2, <1>3, Zenon DEF SoundLinks, Queued, Unheard
<1>5. PeersKnown' /\ PeersCalm' /\ NoReplays'
  BY <1>2, Zenon DEF PeersKnown, PeersCalm, NoReplays
<1>6. Asked'
  BY <1>1 DEF Asked
<1>7. GrantsKnown'
  BY <1>1, <1>2, <1>3, Zenon DEF StreamInv, GrantsKnown
<1> QED
  BY <1>4, <1>5, <1>6, <1>7 DEF StreamInv

\* A run begins when no process is connected any more.
LEMMA StartStreams ==
  ASSUME SessionTyped, StreamInv, StartRun
  PROVE  StreamInv'
<1>1. /\ at' = "accept" /\ waitFor' = "workers" /\ backlog' = <<>> /\ peers' = <<>>
      /\ granted' = {} /\ runs' = runs + 1 /\ Quiet
      /\ link' = link /\ proc' = proc /\ recorded' = recorded
  BY DEF StartRun, workers
<1>2. at' \in Active /\ ~Equipped' /\ ~Served' /\ DOMAIN peers' = {} /\ DOMAIN backlog' = {}
  BY <1>1 DEF Active, Waiting, Working, Equipped, Served, Driving
<1>3. \A q \in Processes : DOMAIN link[q].down = {}
  <2>1. ASSUME NEW q \in Processes PROVE link[q].down = <<>>
    BY <1>1 DEF Quiet, StreamInv, SoundLinks, SoundLink
  <2> QED
    BY <2>1
<1>4. runs' <= 1 => \A q \in Processes : recorded[q] = NotRecorded
  <2>1. runs' <= 1 => runs = 0 /\ runs <= 1
    BY <1>1 DEF SessionTyped, ControlTyped
  <2>2. runs = 0 => granted = {}
    BY DEF SessionTyped, ControlTyped
  <2> QED
    BY <2>1, <2>2 DEF StreamInv, GrantsKnown
<1>5. SoundLinks' /\ Queued' /\ Unheard'
  BY <1>1, <1>2, Zenon DEF StreamInv, SoundLinks, Queued, Unheard
<1>6. PeersKnown' /\ PeersCalm' /\ NoReplays'
  BY <1>2, Zenon DEF PeersKnown, PeersCalm, NoReplays
<1>7. Asked'
  BY <1>1 DEF Asked
<1>8. GrantsKnown'
  BY <1>1, <1>3, <1>4, Zenon DEF GrantsKnown
<1> QED
  BY <1>5, <1>6, <1>7, <1>8 DEF StreamInv

LEMMA StreamStep ==
  ASSUME SessionTyped, StreamInv, [Next]_vars
  PROVE  StreamInv'
<1>1. CASE CoordinatorStep
  <2>1. \/ Quietly
        \/ HelloMissing \/ ReplacementRefused \/ HelloStale \/ StaleFrame
        \/ Register \/ Replace
        \/ GrantStage \/ ReceiveReport \/ WorkerDeath \/ ReceiveEvidence \/ Finish
    BY <1>1, Zenon DEF CoordinatorStep, Quietly
  <2> QED
    BY <2>1, QuietStreams, GreetStreams, RegisteredStreams, GrantStreams, ReportStreams,
       DeathStreams, EvidenceStreams, EndStreams, Zenon
<1>2. CASE UNCHANGED vars
  <2>1. UNCHANGED <<link, proc, recorded, epoch, plans, now, at, waitFor, backlog, conn, peers,
                    applier, observer, scenario, recurring, runs, granted>>
    BY <1>2 DEF vars, workers, engine, control, history
  <2>2. /\ (\A k : Peer(k)' = Peer(k)) /\ (\A q : Expected(q)' = Expected(q))
        /\ Equipped' = Equipped /\ Served' = Served
        /\ (\A k : GrantOf(k)' = GrantOf(k)) /\ Request' = Request
    BY <2>1 DEF Peer, Expected, Equipped, Served, GrantOf, Plan, Request
  <2>3. SoundLinks' /\ Queued' /\ Unheard'
    BY <2>1, <2>2, Zenon DEF StreamInv, SoundLinks, Queued, Unheard
  <2>4. PeersKnown' /\ PeersCalm' /\ NoReplays' /\ GrantsKnown'
    BY <2>1, <2>2, Zenon DEF StreamInv, PeersKnown, PeersCalm, NoReplays, GrantsKnown
  <2>5. Asked'
    BY <2>1, <2>2 DEF StreamInv, Asked, ReportOf, EvidenceOf
  <2> QED
    BY <2>3, <2>4, <2>5 DEF StreamInv
<1>3. ASSUME NEW p \in Processes, StartProcess(p) \/ ProcessStep(p) \/ KillProcess(p)
      PROVE  StreamInv'
  BY <1>3, ConnectStreams, ProcessStreams, Zenon
<1> QED
  BY <1>1, <1>2, <1>3, StartStreams, EndStreams, Zenon DEF Next

LEMMA StreamInvariant == Spec => []StreamInv
<1>1. Init => StreamInv
  <2> SUFFICES ASSUME Init PROVE StreamInv
    OBVIOUS
  <2>1. /\ at = "down" /\ granted = {} /\ runs = 0
        /\ link = [p \in Processes |-> NoLink] /\ proc = [p \in Processes |-> "new"]
        /\ recorded = [p \in Processes |-> NotRecorded]
    BY DEF Init, WorkerInit
  <2>2. at \notin Active /\ ~Equipped /\ ~Served
    BY <2>1 DEF Active, Waiting, Working, Equipped, Served, Driving
  <2>3. SoundLinks
    <3>1. /\ NoLink.coordinator = "none" /\ NoLink.worker = "none"
          /\ NoLink.down = <<>> /\ NoLink.up = <<>> /\ Len(<<>>) = 0
      BY DEF NoLink
    <3> QED
      BY <2>1, <3>1 DEF SoundLinks, SoundLink, Running
  <2>4. Queued /\ Unheard
    BY <2>1, <2>2 DEF Queued, Unheard, NoLink
  <2>5. PeersKnown /\ PeersCalm /\ NoReplays
    BY <2>2, Zenon DEF PeersKnown, PeersCalm, NoReplays
  <2>6. Asked
    BY <2>1 DEF Asked
  <2>7. GrantsKnown
    <3>1. \A p \in Processes : DOMAIN link[p].down = {} /\ recorded[p] = NotRecorded
      BY <2>1 DEF NoLink
    <3> QED
      BY <2>1, <3>1, Zenon DEF GrantsKnown
  <2> QED
    BY <2>3, <2>4, <2>5, <2>6, <2>7 DEF StreamInv
<1>2. SessionTyped /\ StreamInv /\ [Next]_vars => StreamInv'
  BY StreamStep
<1> QED
  BY <1>1, <1>2, SessionTypedInvariant, PTL DEF Spec

\* The coordinator never has two frames of one process to read: a process is asked
\* one thing at a time, and a connection says one HELLO or sends one report.
THEOREM OneFrameCorrect == Spec => []OneFrameAtATime
<1>1. StreamInv => OneFrameAtATime
  BY DEF StreamInv, SoundLinks, SoundLink, OneFrameAtATime
<1> QED
  BY <1>1, StreamInvariant, PTL

\* What the coordinator takes for the answer to its grant or to its request for
\* evidence is the answer to it, of the boot and the attempt it was put to.
THEOREM AnswersCorrect == Spec => []AnswersMatchRequests
<1>1. SessionTyped /\ StreamInv => AnswersMatchRequests
  <2> SUFFICES ASSUME SessionTyped, StreamInv PROVE AnswersMatchRequests
    OBVIOUS
  <2>1. ASSUME at = "report", link[Peer(applier)].up # <<>>
        PROVE  Head(link[Peer(applier)].up) = ReportOf(GrantOf(applier))
    <3>1. Peer(applier) \in Processes
      BY <2>1, DrivenPeers DEF Driving
    <3>2. link[Peer(applier)].coordinator = "open"
      BY <2>1, <3>1 DEF StreamInv, SoundLinks, SoundLink
    <3>3. link[Peer(applier)].up = <<ReportOf(GrantOf(applier))>>
      BY <2>1, <3>2 DEF StreamInv, Asked, Answering
    <3> QED
      BY <3>3
  <2>2. ASSUME at = "evidence", link[Peer(observer)].up # <<>>
        PROVE  Head(link[Peer(observer)].up) = EvidenceOf(Request)
    <3>1. Peer(observer) \in Processes
      BY <2>2, DrivenPeers DEF Driving
    <3>2. link[Peer(observer)].coordinator = "open"
      BY <2>2, <3>1 DEF StreamInv, SoundLinks, SoundLink
    <3>3. link[Peer(observer)].up = <<EvidenceOf(Request)>>
      BY <2>2, <3>2 DEF StreamInv, Asked, Answering
    <3> QED
      BY <3>3
  <2>3. LET f == ReportOf(GrantOf(applier)) IN
        /\ f.kind = "STAGE_REPORT" /\ f.epoch = epoch /\ f.boot = peers[applier].boot
        /\ f.generation = Plan.generation /\ f.attempt = Plan.attempt
    BY DEF ReportOf, GrantOf
  <2>4. LET f == EvidenceOf(Request) IN
        f.kind = "EVIDENCE_PUBLISH" /\ f.tick = now /\ f.epoch = epoch
    BY DEF EvidenceOf, Request
  <2> QED
    BY <2>1, <2>2, <2>3, <2>4 DEF AnswersMatchRequests
<1> QED
  BY <1>1, SessionTypedInvariant, StreamInvariant, PTL

-----------------------------------------------------------------------------
(* The session implements StagedRecovery.                                  *)

\* The rung a plan is on, as StagedRecovery counts: the rungs it has left behind.
RungOf(p) == IF p.state = "COMPLETED" THEN p.index + 1 ELSE p.index

\* The registered worker that holds the present attempt has applied it.
Attempted(p) == <<epoch, Plan.generation, Plan.attempt, p>> \in applied
RungApplied ==
  \E k \in DOMAIN peers :
    peers[k].registered /\ Plan.state # "COMPLETED" /\ Attempted(Peer(k))

\* Where the coordinator waits and drives, the rung of the plan is durable.
Durably == at \in Waiting \cup {"begin", "revalidate", "enter", "loop"}

\* The plan is not made yet.
Unplanned ==
  /\ at = "begin" \/ (at \in {"accept", "stale"} /\ waitFor = "workers")
  /\ scenario # "restart-part2"

RungsInv ==
  /\ Durably => RungOf(Plan) = RungOf(disk.plan)
  /\ runs = 0 => disk = NoDisk
  /\ Unplanned => Plan = E!NoPlan /\ disk = NoDisk
  /\ at = "report" => Plan.state # "COMPLETED"

\* Attempts are numbered: a process known to this run applied none that is still to
\* come, whatever it did for an earlier run of the same epoch.
AttemptsInv ==
  /\ \A p \in Processes : \A i \in DOMAIN link[p].down :
       link[p].down[i].kind = "STAGE_GRANT" => link[p].down[i].attempt <= Plan.totalAttempts
  /\ \A x \in applied : x[4] \in Processes /\ x[3] \in Nat /\ proc[x[4]] # "new"
  /\ at \in Active =>
       /\ \A i \in DOMAIN backlog : \A x \in applied : x[4] # backlog[i]
       /\ \A k \in DOMAIN peers : \A x \in applied :
            x[4] = Peer(k) => x[3] <= Plan.totalAttempts

\* What is reported was applied.
ReportedInv ==
  /\ at = "report" /\ link[Peer(applier)].up # <<>> => Attempted(Peer(applier))
  /\ at = "evidence" => Attempted(Peer(applier))

LEMMA RungStays ==
  ASSUME NEW p, NEW q, p.state # "COMPLETED", Stays(p, q) \/ Renews(p, q)
  PROVE  RungOf(q) = RungOf(p) /\ q.state # "COMPLETED"
BY DEF RungOf, Stays, Renews

\* Only evidence moves the plan to another rung.
LEMMA RungKept ==
  ASSUME SessionTyped, RungsInv, [Next]_vars, ~StartRun, ~ReceiveEvidence
  PROVE  RungOf(Plan)' = RungOf(Plan)
<1>1. ASSUME plans' = plans PROVE Plan' = Plan
  BY <1>1 DEF Plan
<1>2. EngineTyped
  BY DEF SessionTyped
<1>3. ASSUME E!Revalidate(1) PROVE RungOf(Plan') = RungOf(Plan)
  <2>1. Renews(Plan, Plan')
    BY <1>2, <1>3, RevalidateEffect
  <2> QED
    BY <2>1, RungStays DEF Renews
<1>4. CASE Begin
  <2>1. /\ at = "begin"
        /\ \/ E!Revalidate(1) \/ plans' = plans
           \/ scenario # "restart-part2" /\ E!CreatePlan(1)
    BY <1>4, Zenon DEF Begin, engine
  <2>2. ASSUME scenario # "restart-part2", E!CreatePlan(1)
        PROVE  RungOf(Plan') = RungOf(Plan)
    <3>1. Plan'.index = 0 /\ Plan'.state # "COMPLETED"
      BY <1>2, <2>2, CreateEffect
    <3>2. Plan = E!NoPlan
      BY <2>1, <2>2 DEF RungsInv, Unplanned
    <3> QED
      BY <3>1, <3>2 DEF RungOf, E!NoPlan
  <2> QED
    BY <1>1, <1>3, <2>1, <2>2
<1>5. CASE WorkerDeath
  <2>1. at = "report" /\ E!RequireRevalidation(1)
    BY <1>5, Zenon DEF WorkerDeath
  <2>2. Plan.state # "COMPLETED"
    BY <2>1 DEF RungsInv
  <2> QED
    BY <1>2, <2>1, <2>2, RequireEffect, RungStays
<1>6. CASE RevalidateReplaced
  <2>1. E!Revalidate(1) \/ plans' = plans
    BY <1>6, Zenon DEF RevalidateReplaced, engine
  <2> QED
    BY <1>1, <1>3, <2>1
<1>7. CASE RollBack
  <2>1. (E!RollbackAllowed(Plan) /\ E!Rollback(1)) \/ plans' = plans
    BY <1>7, Zenon DEF RollBack, engine
  <2>2. ASSUME E!RollbackAllowed(Plan), E!Rollback(1) PROVE RungOf(Plan') = RungOf(Plan)
    <3>1. Plan.state # "COMPLETED"
      BY <2>2, NotCompleted DEF E!RollbackAllowed
    <3> QED
      BY <1>2, <2>2, <3>1, RollbackEffect, RungStays
  <2> QED
    BY <1>1, <2>1, <2>2
<1>8. CASE ResumePlan
  <2>1. (E!Resumable(Plan) /\ E!Resume(1)) \/ plans' = plans
    BY <1>8, Zenon DEF ResumePlan, engine
  <2>2. ASSUME E!Resumable(Plan), E!Resume(1) PROVE RungOf(Plan') = RungOf(Plan)
    <3>1. Plan.state # "COMPLETED"
      BY <2>2 DEF E!Resumable
    <3> QED
      BY <1>2, <2>2, <3>1, ResumeEffect, RungStays
  <2> QED
    BY <1>1, <2>1, <2>2
<1> QED
  BY <1>1, <1>4, <1>5, <1>6, <1>7, <1>8, PlansKept

\* A step in which the coordinator goes on with the rung that is durable.
LEMMA RungsKept ==
  ASSUME RungsInv, RungOf(Plan)' = RungOf(Plan), UNCHANGED <<disk, runs>>,
         Durably' => Durably,
         Unplanned' => Unplanned /\ plans' = plans,
         at' = "report" => plans' = plans /\ Plan.state # "COMPLETED"
  PROVE  RungsInv'
<1>1. RungOf(disk.plan)' = RungOf(disk.plan)
  BY DEF RungOf
<1>2. plans' = plans => Plan' = Plan
  BY DEF Plan
<1> HIDE DEF Durably, Unplanned
<1> QED
  BY <1>1, <1>2, Zenon DEF RungsInv

\* A step after which the rung may be ahead of the durable one, or nothing runs.
LEMMA RungsLeft ==
  ASSUME SessionTyped, at # "down", runs' = runs,
         at' \in {"finish", "save", "saveRollback", "rollback", "resume", "done", "down"}
  PROVE  RungsInv'
<1>1. runs' # 0
  BY DEF SessionTyped, ControlTyped
<1>2. ~Durably' /\ ~Unplanned' /\ at' # "report"
  BY DEF Durably, Waiting, Unplanned
<1> HIDE DEF Durably, Unplanned
<1> QED
  BY <1>1, <1>2 DEF RungsInv

\* A wait for a connection that goes on, or ends.
LEMMA WaitRungs ==
  ASSUME SessionTyped, RungsInv, [Next]_vars,
         \/ HelloMissing \/ HelloStale \/ StaleFrame \/ Register \/ Replace \/ ReplacementRefused
         \/ AcceptTimeout
  PROVE  RungsInv'
<1>1. /\ Waits
      /\ UNCHANGED <<scenario, waitFor, runs, plans>>
  BY WaitSteps DEF engine
<1>2. disk' = disk
  BY Zenon DEF HelloMissing, HelloStale, StaleFrame, Register, Replace, ReplacementRefused,
     AcceptTimeout
<1>3. waitFor \in {"workers", "extra", "replacement"}
  BY DEF SessionTyped, ControlTyped
<1>4. at \in {"accept", "stale"}
      /\ at' \in {"accept", "begin", "enter", "loop", "revalidate", "stale", "finish"}
  BY <1>1, <1>3, AcceptedFacts DEF Waits
<1>5. at' = "begin" => waitFor = "workers"
  BY <1>1, <1>3, AcceptedFacts DEF Waits
<1>6. Durably
  BY <1>4 DEF Durably, Waiting
<1>7. Unplanned' => Unplanned
  BY <1>1, <1>4, <1>5 DEF Unplanned
<1>8. RungOf(Plan)' = RungOf(Plan)
  BY <1>1 DEF Plan, RungOf
<1> QED
  BY <1>1, <1>2, <1>4, <1>6, <1>7, <1>8, RungsKept

LEMMA StartRungs ==
  ASSUME SessionTyped, RungsInv, StartRun
  PROVE  RungsInv' /\ RungOf(Plan)' = RungOf(disk.plan)
<1>1. /\ runs' = runs + 1 /\ runs \in Nat /\ disk' = disk /\ at' = "accept" /\ waitFor' = "workers"
      /\ disk.plan.state # "COMPLETED"
      /\ scenario' \in (IF runs = 0 THEN Scenarios ELSE {"restart-part2"})
      /\ plans' = [i \in {1} |-> E!Imported(disk.plan, disk.epoch + 1)]
  BY DEF StartRun, SessionTyped, ControlTyped
<1>2. RungOf(Plan') = RungOf(disk.plan)
  BY <1>1, StartEffect, RungStays
<1>3. Unplanned' => runs = 0
  BY <1>1 DEF Unplanned
<1>4. ASSUME runs = 0 PROVE Plan' = E!NoPlan /\ disk' = NoDisk
  <2>1. disk = NoDisk
    BY <1>4 DEF RungsInv
  <2>2. disk.plan = E!NoPlan
    BY <2>1 DEF NoDisk
  <2>3. E!Imported(disk.plan, disk.epoch + 1) = E!NoPlan
    BY <2>2 DEF E!Imported, E!NoPlan
  <2> QED
    BY <1>1, <2>1, <2>3 DEF Plan
<1>5. runs' # 0 /\ at' # "report"
  BY <1>1
<1> HIDE DEF Unplanned
<1> QED
  BY <1>1, <1>2, <1>3, <1>4, <1>5 DEF RungsInv, RungOf

LEMMA RungsStep ==
  ASSUME SessionTyped, RungsInv, [Next]_vars
  PROVE  RungsInv'
<1>1. CASE StartRun
  BY <1>1, StartRungs
<1>2. CASE \/ HelloMissing \/ HelloStale \/ StaleFrame \/ Register \/ Replace
           \/ ReplacementRefused \/ AcceptTimeout
  BY <1>2, WaitRungs
<1>3. CASE Begin \/ Enter \/ RevalidateReplaced
  <2>1. /\ at \in {"begin", "enter", "revalidate"} /\ at' \in {"accept", "enter", "loop", "finish"}
        /\ at' = "accept" => waitFor' = "extra"
        /\ disk' = disk
    BY <1>3, Zenon DEF Begin, Enter, RevalidateReplaced, End
  <2>2. runs' = runs
    BY <1>3, QuietlyKeeps DEF Quietly
  <2>3. Durably /\ ~Unplanned'
    BY <2>1 DEF Durably, Unplanned
  <2>4. ~StartRun /\ ~ReceiveEvidence
    BY <2>1, Zenon DEF StartRun, ReceiveEvidence
  <2> QED
    BY <2>1, <2>2, <2>3, <2>4, RungKept, RungsKept
<1>4. CASE LeaveLoop \/ Stop \/ EvidenceLost \/ RollBack \/ ResumePlan \/ SaveRollback
  <2>1. at # "down" /\ at' \in {"finish", "saveRollback", "resume", "save"}
    <3>1. CASE LeaveLoop \/ Stop \/ EvidenceLost
      BY <3>1, Zenon DEF LeaveLoop, Stop, EvidenceLost, End
    <3>2. CASE RollBack \/ ResumePlan \/ SaveRollback
      BY <3>2, Zenon DEF RollBack, ResumePlan, SaveRollback, Write, End
    <3> QED
      BY <1>4, <3>1, <3>2
  <2>2. runs' = runs
    BY <1>4, QuietlyKeeps DEF Quietly
  <2> QED
    BY <2>1, <2>2, RungsLeft
<1>5. CASE ReceiveEvidence
  <2>1. at # "down" /\ at' \in {"save", "rollback"} /\ runs' = runs
    BY <1>5, Zenon DEF ReceiveEvidence, history
  <2> QED
    BY <2>1, RungsLeft
<1>6. CASE Finish \/ Crash
  <2>1. at # "down" /\ at' \in {"done", "down"} /\ runs' = runs
    BY <1>6, Zenon DEF Finish, Crash, history, Active, Waiting, Working
  <2> QED
    BY <2>1, RungsLeft
<1>7. CASE Save
  <2>1. at = "save" /\ plans' = plans /\ (at' = "finish" \/ (at' = "loop" /\ disk' = Saved))
    BY <1>7, Zenon DEF Save, Write, End, engine
  <2>2. runs' = runs
    BY <1>7, QuietlyKeeps DEF Quietly
  <2>3. CASE at' = "finish"
    BY <2>1, <2>2, <2>3, RungsLeft
  <2>4. CASE at' = "loop" /\ disk' = Saved
    <3>1. Plan' = Plan /\ disk'.plan = Plan /\ runs' # 0 /\ ~Unplanned'
      BY <2>1, <2>2, <2>4 DEF Plan, Saved, SessionTyped, ControlTyped, Unplanned
    <3> HIDE DEF Unplanned
    <3> QED
      BY <2>4, <3>1 DEF RungsInv, RungOf
  <2> QED
    BY <2>1, <2>3, <2>4
<1>8. CASE GrantStage \/ ReceiveReport
  <2>1. /\ at \in {"loop", "report"} /\ at' \in {"report", "evidence", "finish"}
        /\ at' = "report" => Plan.state # "COMPLETED"
        /\ plans' = plans /\ disk' = disk /\ runs' = runs
    BY <1>8, Zenon DEF GrantStage, ReceiveReport, End, history
  <2>2. Durably /\ ~Unplanned'
    BY <2>1 DEF Durably, Waiting, Unplanned
  <2>3. RungOf(Plan)' = RungOf(Plan)
    BY <2>1 DEF Plan, RungOf
  <2> QED
    BY <2>1, <2>2, <2>3, RungsKept
<1>9. CASE WorkerDeath
  <2>1. /\ at = "report" /\ at' = "accept" /\ waitFor' = "replacement"
        /\ disk' = disk /\ runs' = runs
    BY <1>9, Zenon DEF WorkerDeath
  <2>2. Durably /\ ~Unplanned'
    BY <2>1 DEF Durably, Waiting, Unplanned
  <2>3. ~StartRun /\ ~ReceiveEvidence
    BY <2>1, Zenon DEF StartRun, ReceiveEvidence
  <2> QED
    BY <2>1, <2>2, <2>3, RungKept, RungsKept
<1>10. ASSUME \/ \E p \in Processes : StartProcess(p) \/ ProcessStep(p) \/ KillProcess(p)
              \/ UNCHANGED vars
       PROVE  RungsInv'
  <2>1. UNCHANGED <<plans, disk, runs, at, waitFor, scenario>>
    BY <1>10, ProcessKinds DEF vars, engine, control, history
  <2>2. RungOf(Plan)' = RungOf(Plan) /\ Durably' = Durably /\ Unplanned' = Unplanned
    BY <2>1 DEF Plan, RungOf, Durably, Unplanned
  <2>3. at' = "report" => Plan.state # "COMPLETED"
    BY <2>1 DEF RungsInv
  <2> QED
    BY <2>1, <2>2, <2>3, RungsKept
<1> QED
  BY <1>1, <1>2, <1>3, <1>4, <1>5, <1>6, <1>7, <1>8, <1>9, <1>10, Zenon DEF Next, CoordinatorStep

-----------------------------------------------------------------------------
(* Grants and the attempts they are for.                                   *)

\* No grant is in the link that was not in it before.
NoNewGrant(l, m) ==
  \A i \in DOMAIN m.down :
    m.down[i].kind = "STAGE_GRANT" => \E j \in DOMAIN l.down : m.down[i] = l.down[j]

LEMMA SameQueue ==
  ASSUME NEW l, NEW m, m.down = l.down
  PROVE  NoNewGrant(l, m)
BY DEF NoNewGrant

\* What the coordinator does to a link, but for a grant.
LEMMA NoGrantSent ==
  ASSUME NEW l \in Links, NEW f \in Frames, f.kind # "STAGE_GRANT"
  PROVE  /\ NoNewGrant(l, l) /\ NoNewGrant(l, UpRead(l))
         /\ NoNewGrant(l, ClosedByCoordinator(l)) /\ NoNewGrant(l, Released(l))
         /\ NoNewGrant(l, SentDown(l, f)) /\ NoNewGrant(l, SentDown(UpRead(l), f))
         /\ NoNewGrant(l, ClosedByCoordinator(SentDown(l, f)))
         /\ NoNewGrant(l, Released(SentDown(l, f)))
<1>1. ASSUME NEW m \in Links
      PROVE  /\ UpRead(m).down = m.down /\ ClosedByCoordinator(m).down = m.down
             /\ Released(m).down = m.down
  BY ReadFacts, ClosedFacts DEF Released
<1>2. ASSUME NEW m \in Links, m.down = l.down PROVE NoNewGrant(l, SentDown(m, f))
  <2>1. CASE m.worker = "open"
    <3>1. SentDown(m, f).down = Append(l.down, f) /\ l.down \in Seq(Frames)
      BY <1>2, <2>1, SentFacts, LinkFields
    <3>2. \A i \in DOMAIN Append(l.down, f) :
            \/ i \in DOMAIN l.down /\ Append(l.down, f)[i] = l.down[i]
            \/ Append(l.down, f)[i] = f
      BY <3>1, AppendFacts
    <3> DEFINE d == Append(l.down, f)
    <3> HIDE DEF d
    <3>3. SentDown(m, f).down = d
      BY <3>1 DEF d
    <3>4. \A i \in DOMAIN d : (i \in DOMAIN l.down /\ d[i] = l.down[i]) \/ d[i] = f
      BY <3>2 DEF d
    <3> QED
      BY <3>3, <3>4 DEF NoNewGrant
  <2>2. CASE m.worker # "open"
    BY <1>2, <2>2, SentFacts, SameQueue
  <2> QED
    BY <2>1, <2>2
<1>3. NoNewGrant(l, SentDown(l, f)) /\ NoNewGrant(l, SentDown(UpRead(l), f))
  BY <1>1, <1>2, LinkTypes
<1>4. /\ ClosedByCoordinator(SentDown(l, f)).down = SentDown(l, f).down
      /\ Released(SentDown(l, f)).down = SentDown(l, f).down
  BY <1>1, LinkTypes
<1>5. /\ NoNewGrant(l, ClosedByCoordinator(SentDown(l, f)))
      /\ NoNewGrant(l, Released(SentDown(l, f)))
  BY <1>3, <1>4, Zenon DEF NoNewGrant
<1> QED
  BY <1>1, <1>3, <1>5, SameQueue

\* Only grant_stage grants.
LEMMA CoordinatorGrants ==
  ASSUME SessionTyped, CoordinatorStep \/ Crash, ~GrantStage, now' \in Nat,
         NEW q \in Processes
  PROVE  NoNewGrant(link[q], link'[q])
<1>1. /\ link \in [Processes -> Links] /\ conn \in Seq(Processes) /\ link[q] \in Links
  BY DEF SessionTyped, LinksTyped, ControlTyped
<1>2. /\ Error \in Frames /\ HelloAck \in Frames /\ Goodbye \in Frames
      /\ Error.kind # "STAGE_GRANT" /\ HelloAck.kind # "STAGE_GRANT"
      /\ Goodbye.kind # "STAGE_GRANT"
  BY FrameFacts DEF Error, HelloAck, Goodbye
<1>3. /\ NoNewGrant(link[q], link[q]) /\ NoNewGrant(link[q], UpRead(link[q]))
      /\ NoNewGrant(link[q], ClosedByCoordinator(link[q]))
      /\ NoNewGrant(link[q], Released(link[q]))
  BY <1>1, <1>2, NoGrantSent
<1>4. CASE Quietly
  BY <1>3, <1>4, QuietlyKeeps
<1>5. CASE HelloMissing \/ ReplacementRefused
  <2>1. PICK p \in Processes : link' = [link EXCEPT ![p] = ClosedByCoordinator(@)]
    BY <1>5, Zenon DEF HelloMissing, ReplacementRefused
  <2>2. link'[q] = IF q = p THEN ClosedByCoordinator(link[q]) ELSE link[q]
    BY <1>1, <2>1
  <2> QED
    BY <1>3, <2>2
<1>6. CASE HelloStale
  <2>1. PICK p \in Processes : link' = [link EXCEPT ![p] = SentDown(UpRead(@), Error)]
    BY <1>6, Zenon DEF HelloStale
  <2>2. link'[q] = IF q = p THEN SentDown(UpRead(link[q]), Error) ELSE link[q]
    BY <1>1, <2>1
  <2> QED
    BY <1>1, <1>2, <1>3, <2>2, NoGrantSent
<1>7. CASE StaleFrame
  <2>1. PICK f : link' = [link EXCEPT ![conn[1]] =
                            ClosedByCoordinator(IF f = Failure THEN @ ELSE SentDown(@, Error))]
    BY <1>7 DEF StaleFrame
  <2>2. \/ link'[q] = link[q] \/ link'[q] = ClosedByCoordinator(link[q])
        \/ link'[q] = ClosedByCoordinator(SentDown(link[q], Error))
    BY <1>1, <2>1
  <2> QED
    BY <1>1, <1>2, <1>3, <2>2, NoGrantSent
<1>8. CASE Register \/ Replace
  <2>1. PICK p \in Processes : link' = Welcoming(p)
    BY <1>8, Zenon DEF Register, Replace
  <2>2. \/ link'[q] = link[q] \/ link'[q] = ClosedByCoordinator(link[q])
        \/ link'[q] = SentDown(UpRead(link[q]), HelloAck)
    BY <2>1 DEF Welcoming
  <2> QED
    BY <1>1, <1>2, <1>3, <2>2, NoGrantSent
<1>9. CASE ReceiveReport
  <2>1. /\ applier \in DOMAIN peers /\ observer \in DOMAIN peers
        /\ link' = [[link EXCEPT ![Peer(applier)] = UpRead(@)]
                      EXCEPT ![Peer(observer)] = SentDown(@, EvidenceRequest)]
    BY <1>9 DEF ReceiveReport, SessionTyped, ControlTyped, Equipped, Driving
  <2>2. EvidenceRequest \in Frames /\ EvidenceRequest.kind # "STAGE_GRANT"
    BY <2>1, RequestType, FrameFacts DEF Requests
  <2> DEFINE taken == [link EXCEPT ![Peer(applier)] = UpRead(@)]
             r == EvidenceRequest
  <2>3. taken[q] = link[q] \/ taken[q] = UpRead(link[q])
    BY <1>1
  <2>4. taken \in [Processes -> Links]
    <3>1. \A p \in Processes : link[p] \in Links /\ UpRead(link[p]) \in Links
      BY <1>1, <1>2, LinkTypes
    <3>2. Peer(applier) \in Processes
      BY <2>1, PeerFacts
    <3>3. taken \in [Processes -> Links]
      BY <1>1, <3>1, <3>2
    <3> QED
      BY <3>3
  <2> HIDE DEF r
  <2>5. link'[q] = taken[q] \/ link'[q] = SentDown(taken[q], r)
    <3>1. link' = [taken EXCEPT ![Peer(observer)] = SentDown(@, r)]
      BY <2>1 DEF r
    <3> HIDE DEF taken
    <3> QED
      BY <2>4, <3>1
  <2> HIDE DEF taken
  <2>6. r \in Frames /\ r.kind # "STAGE_GRANT"
    BY <2>2 DEF r
  <2> QED
    BY <1>1, <1>3, <2>3, <2>5, <2>6, NoGrantSent
<1>10. CASE WorkerDeath
  <2>1. link' = [link EXCEPT ![Peer(applier)] = ClosedByCoordinator(@)]
    BY <1>10, Zenon DEF WorkerDeath
  <2>2. link'[q] = link[q] \/ link'[q] = ClosedByCoordinator(link[q])
    BY <1>1, <2>1
  <2> QED
    BY <1>3, <2>2
<1>11. CASE ReceiveEvidence
  <2>1. link' = [link EXCEPT ![Peer(observer)] = UpRead(@)]
    BY <1>11, Zenon DEF ReceiveEvidence
  <2>2. link'[q] = link[q] \/ link'[q] = UpRead(link[q])
    BY <1>1, <2>1
  <2> QED
    BY <1>3, <2>2
<1>12. CASE Finish \/ Crash
  <2>1. \/ link'[q] = Released(link[q]) \/ link'[q] = Released(SentDown(link[q], Goodbye))
    BY <1>12 DEF Finish, Crash
  <2> QED
    BY <1>1, <1>2, <1>3, <2>1, NoGrantSent
<1> QED
  BY <1>4, <1>5, <1>6, <1>7, <1>8, <1>9, <1>10, <1>11, <1>12, Zenon DEF CoordinatorStep, Quietly

\* A run never uses fewer attempts than before.
LEMMA AttemptsGrow ==
  ASSUME SessionTyped, RungsInv, [Next]_vars, ~StartRun
  PROVE  /\ Plan.totalAttempts \in Nat /\ Plan'.totalAttempts \in Nat
         /\ Plan.totalAttempts <= Plan'.totalAttempts
<1>1. EngineTyped /\ Plan.totalAttempts \in Nat
  BY EngineFacts DEF SessionTyped
<1>2. Plan'.totalAttempts \in Nat
  <2>1. EngineTyped'
    BY EngineTypedStep
  <2>2. plans' \in [{1} -> EP!Plans]
    BY <2>1 DEF EngineTyped, EP!TypeOK
  <2>3. Plan' \in EP!Plans
    BY <2>2 DEF Plan
  <2> QED
    BY <2>3 DEF EP!Plans
<1>3. CASE ~Begin
  <2>1. Moves(Plan, Plan')
    BY <1>3, PlanMoves
  <2> QED
    BY <1>1, <1>2, <2>1 DEF Moves, Stays, Climbs, Completes, Renews
<1>4. CASE Begin
  <2>1. /\ at = "begin"
        /\ \/ E!Revalidate(1) \/ plans' = plans
           \/ scenario # "restart-part2" /\ E!CreatePlan(1)
    BY <1>4, Zenon DEF Begin, engine
  <2>2. CASE E!Revalidate(1)
    BY <1>1, <1>2, <2>2, RevalidateEffect DEF Renews
  <2>3. CASE plans' = plans
    BY <1>1, <2>3 DEF Plan
  <2>4. CASE scenario # "restart-part2" /\ E!CreatePlan(1)
    <3>1. Plan = E!NoPlan
      BY <2>1, <2>4 DEF RungsInv, Unplanned
    <3>2. Plan'.totalAttempts = 1
      BY <1>1, <2>4, CreateEffect
    <3>3. Plan.totalAttempts = 0
      BY <3>1 DEF E!NoPlan
    <3> QED
      BY <3>2, <3>3
  <2> QED
    BY <2>1, <2>2, <2>3, <2>4
<1> QED
  BY <1>3, <1>4

\* The coordinator takes a step only while it runs.
LEMMA CoordinatorRuns ==
  ASSUME CoordinatorStep \/ Crash
  PROVE  at \in Active
<1>1. ASSUME \/ HelloMissing \/ HelloStale \/ StaleFrame \/ Register \/ Replace
             \/ ReplacementRefused \/ AcceptTimeout
      PROVE  at \in {"accept", "stale"}
  BY <1>1, Zenon DEF HelloMissing, HelloStale, StaleFrame, Register, Replace, ReplacementRefused,
     AcceptTimeout, Hello, Greets
<1>2. ASSUME \/ Begin \/ Enter \/ LeaveLoop \/ Stop \/ GrantStage \/ ReceiveReport \/ WorkerDeath
             \/ RevalidateReplaced
      PROVE  at \in {"begin", "enter", "loop", "report", "revalidate"}
  BY <1>2, Zenon DEF Begin, Enter, LeaveLoop, Stop, GrantStage, ReceiveReport, WorkerDeath,
     RevalidateReplaced
<1>3. ASSUME \/ ReceiveEvidence \/ EvidenceLost \/ RollBack \/ SaveRollback \/ ResumePlan \/ Save
             \/ Finish
      PROVE  at \in {"evidence", "rollback", "saveRollback", "resume", "save", "finish"}
  BY <1>3, Zenon DEF ReceiveEvidence, EvidenceLost, RollBack, SaveRollback, ResumePlan, Save, Finish
<1>4. CASE Crash
  BY <1>4, Zenon DEF Crash
<1>5. \/ at \in {"accept", "stale"}
      \/ at \in {"begin", "enter", "loop", "report", "revalidate"}
      \/ at \in {"evidence", "rollback", "saveRollback", "resume", "save", "finish"}
      \/ at \in Active
  BY <1>1, <1>2, <1>3, <1>4, Zenon DEF CoordinatorStep
<1> QED
  BY <1>5 DEF Active, Waiting, Working

\* Whoever is a peer was one, or has just been accepted.
LEMMA PeersFrom ==
  ASSUME SessionTyped, CoordinatorStep \/ Crash, NEW k \in DOMAIN peers'
  PROVE  \/ \E m \in DOMAIN peers : peers'[k].proc = Peer(m)
         \/ \E i \in DOMAIN backlog : peers'[k].proc = backlog[i]
<1>1. peers \in Seq(PeerRecords) /\ backlog \in Seq(Processes)
  BY DEF SessionTyped, ControlTyped
<1>2. CASE peers' = peers
  BY <1>2 DEF Peer
<1>3. ASSUME NEW p, Greets(p) PROVE \E i \in DOMAIN backlog : p = backlog[i]
  <2>1. backlog # <<>> /\ p = Head(backlog)
    BY <1>3 DEF Greets
  <2>2. 1 \in DOMAIN backlog /\ p = backlog[1]
    BY <1>1, <2>1
  <2> QED
    BY <2>2
<1>4. \A p : PeerOf(p).proc = p
  BY DEF PeerOf
<1>5. CASE Register
  <2>1. PICK p \in Processes : Greets(p) /\ peers' = Registered(p)
    BY <1>5, Zenon DEF Register, Hello
  <2>2. CASE EntryOf(p) = 0
    <3>1. peers' = Append(peers, PeerOf(p)) /\ PeerOf(p) \in PeerRecords
      BY <2>1, <2>2, PeerType DEF Registered
    <3>2. (k \in DOMAIN peers /\ peers'[k] = peers[k]) \/ peers'[k] = PeerOf(p)
      BY <1>1, <3>1
    <3> QED
      BY <1>3, <1>4, <2>1, <3>2 DEF Peer
  <2>3. CASE EntryOf(p) # 0
    <3>1. peers' = [peers EXCEPT ![EntryOf(p)] = PeerOf(p)]
      BY <2>1, <2>3 DEF Registered
    <3>2. (k \in DOMAIN peers /\ peers'[k] = peers[k]) \/ peers'[k] = PeerOf(p)
      BY <1>1, <3>1
    <3> QED
      BY <1>3, <1>4, <2>1, <3>2 DEF Peer
  <2> QED
    BY <2>2, <2>3
<1>6. CASE Replace
  <2>1. PICK p \in Processes :
          /\ Greets(p)
          /\ peers' = [peers EXCEPT ![EntryOf(p)] =
                         [PeerOf(p) EXCEPT !.role = peers[EntryOf(p)].role]]
    BY <1>6, Zenon DEF Replace, Hello
  <2> DEFINE n == [PeerOf(p) EXCEPT !.role = peers[EntryOf(p)].role]
  <2>2. n.proc = p
    BY DEF PeerOf
  <2>3. peers' = [peers EXCEPT ![EntryOf(p)] = n]
    BY <2>1
  <2> HIDE DEF n
  <2>4. (k \in DOMAIN peers /\ peers'[k] = peers[k]) \/ peers'[k] = n
    BY <1>1, <2>3
  <2> QED
    BY <1>3, <2>1, <2>2, <2>4 DEF Peer
<1>7. CASE WorkerDeath
  <2>1. peers' = [peers EXCEPT ![applier].registered = FALSE]
    BY <1>7, Zenon DEF WorkerDeath
  <2>2. DOMAIN peers' = DOMAIN peers /\ peers'[k].proc = peers[k].proc
    BY <1>1, <2>1 DEF PeerRecords
  <2> QED
    BY <2>2 DEF Peer
<1>8. CASE Crash
  <2>1. peers' = <<>>
    BY <1>8, Zenon DEF Crash
  <2> QED
    BY <2>1
<1>9. CASE \/ HelloMissing \/ HelloStale \/ StaleFrame \/ ReplacementRefused \/ Quietly
            \/ GrantStage \/ ReceiveReport \/ ReceiveEvidence \/ Finish
  <2>1. peers' = peers
    BY <1>9, QuietlyKeeps, Zenon DEF HelloMissing, HelloStale, StaleFrame, ReplacementRefused,
       GrantStage, ReceiveReport, ReceiveEvidence, Finish
  <2> QED
    BY <1>2, <2>1
<1> QED
  BY <1>5, <1>6, <1>7, <1>8, <1>9, Zenon DEF CoordinatorStep, Quietly

LEMMA BacklogFrom ==
  ASSUME SessionTyped, CoordinatorStep \/ Crash, NEW i \in DOMAIN backlog'
  PROVE  \E j \in DOMAIN backlog : backlog'[i] = backlog[j]
<1>1. backlog \in Seq(Processes)
  BY DEF SessionTyped, ControlTyped
<1>2. CASE backlog' = backlog
  BY <1>2
<1>3. CASE HelloMissing \/ HelloStale \/ Register \/ Replace \/ ReplacementRefused
  <2>1. backlog # <<>> /\ backlog' = Tail(backlog)
    BY <1>3, Zenon DEF HelloMissing, HelloStale, Register, Replace, ReplacementRefused, Hello,
       Greets
  <2>2. i + 1 \in DOMAIN backlog /\ backlog'[i] = backlog[i + 1]
    BY <1>1, <2>1
  <2> QED
    BY <2>2
<1>4. CASE StaleFrame \/ Quietly \/ GrantStage \/ ReceiveReport \/ WorkerDeath
           \/ ReceiveEvidence \/ Finish \/ Crash
  <2>1. backlog' = backlog
    BY <1>4, QuietlyKeeps, Zenon DEF StaleFrame, GrantStage, ReceiveReport, WorkerDeath,
       ReceiveEvidence, Finish, Crash
  <2> QED
    BY <1>2, <2>1
<1> QED
  BY <1>3, <1>4, Zenon DEF CoordinatorStep, Quietly

\* The attempts a process can apply in a step of the coordinator.
LEMMA GrantsKept ==
  ASSUME SessionTyped, RungsInv, AttemptsInv, CoordinatorStep \/ Crash, NEW q \in Processes,
         NEW i \in DOMAIN link'[q].down, link'[q].down[i].kind = "STAGE_GRANT"
  PROVE  link'[q].down[i].attempt <= Plan'.totalAttempts
<1>1. /\ Plan.totalAttempts \in Nat /\ Plan'.totalAttempts \in Nat
      /\ Plan.totalAttempts <= Plan'.totalAttempts
  <2>1. [Next]_vars /\ at \in Active
    BY CoordinatorRuns DEF Next
  <2>2. ~StartRun
    BY <2>1, Zenon DEF StartRun, Quiet
  <2> QED
    BY <2>1, <2>2, AttemptsGrow
<1>2. now' \in Nat
  BY EngineTypedStep DEF EngineTyped, EP!TypeOK, Next
<1>3. /\ link \in [Processes -> Links] /\ link[q] \in Links
  BY DEF SessionTyped, LinksTyped
<1>4. ASSUME NEW j \in DOMAIN link[q].down, link'[q].down[i] = link[q].down[j]
      PROVE  link'[q].down[i].attempt <= Plan'.totalAttempts
  <2>1. link[q].down[j] \in Frames /\ link[q].down[j].kind = "STAGE_GRANT"
    BY <1>3, <1>4, LinkFields
  <2>2. link[q].down[j] \in StageGrants
    BY <2>1, AnswerTypes
  <2>3. link[q].down[j].attempt \in Nat
    BY <2>2 DEF StageGrants
  <2>4. link[q].down[j].attempt <= Plan.totalAttempts
    BY <2>1 DEF AttemptsInv
  <2> QED
    BY <1>1, <1>4, <2>3, <2>4
<1>5. CASE ~GrantStage
  <2>1. NoNewGrant(link[q], link'[q])
    BY <1>2, <1>5, CoordinatorGrants
  <2> QED
    BY <1>4, <2>1 DEF NoNewGrant
<1>6. CASE GrantStage
  <2>1. /\ at = "loop" /\ plans' = plans
        /\ link' = [link EXCEPT ![Peer(applier)] = SentDown(@, GrantOf(applier))]
    BY <1>6, Zenon DEF GrantStage
  <2>2. applier \in DOMAIN peers
    BY <2>1 DEF SessionTyped, ControlTyped, Equipped, Driving
  <2> DEFINE g == GrantOf(applier)
  <2>3. g \in Frames /\ g.attempt = Plan.attempt
    BY <2>2, GrantType, FrameFacts DEF GrantOf
  <2>4. Plan.attempt <= Plan'.totalAttempts
    <3>1. Plan.attempt <= Plan.totalAttempts /\ Plan.attempt \in Nat
      BY EngineFacts DEF SessionTyped, DurableTyped, Sane
    <3> QED
      BY <1>1, <3>1
  <2>5. link' = [link EXCEPT ![Peer(applier)] = SentDown(@, g)]
    BY <2>1
  <2> HIDE DEF g
  <2>6. link'[q] = link[q] \/ link'[q] = SentDown(link[q], g)
    BY <1>3, <2>5
  <2>7. CASE link'[q].down = link[q].down
    BY <1>4, <2>7
  <2>8. CASE link'[q].down = Append(link[q].down, g)
    <3>1. \/ i \in DOMAIN link[q].down /\ link'[q].down[i] = link[q].down[i]
          \/ link'[q].down[i] = g
      BY <1>3, <2>3, <2>8, AppendFacts, LinkFields
    <3> QED
      BY <1>4, <2>3, <2>4, <3>1
  <2>9. \/ link'[q].down = link[q].down \/ link'[q].down = Append(link[q].down, g)
    BY <1>3, <2>3, <2>6, SentFacts
  <2> QED
    BY <2>7, <2>8, <2>9
<1> QED
  BY <1>5, <1>6

LEMMA CoordinatorAttempts ==
  ASSUME SessionTyped, RungsInv, AttemptsInv, CoordinatorStep \/ Crash
  PROVE  AttemptsInv'
<1>1. at \in Active /\ applied' = applied /\ proc' = proc
  BY CoordinatorRuns, CoordinatorKeepsProcesses
<1>2. /\ Plan.totalAttempts \in Nat /\ Plan'.totalAttempts \in Nat
      /\ Plan.totalAttempts <= Plan'.totalAttempts
  <2>1. ~StartRun
    BY <1>1, Zenon DEF StartRun, Quiet
  <2> QED
    BY <2>1, AttemptsGrow DEF Next
<1>3. ASSUME NEW x \in applied, NEW i \in DOMAIN backlog' PROVE x[4] # backlog'[i]
  BY <1>1, <1>3, BacklogFrom DEF AttemptsInv
<1>4. ASSUME NEW x \in applied, NEW k \in DOMAIN peers', x[4] = peers'[k].proc
      PROVE  x[3] <= Plan'.totalAttempts
  <2>1. x[3] \in Nat
    BY DEF AttemptsInv
  <2>2. x[3] <= Plan.totalAttempts
    BY <1>1, <1>4, PeersFrom DEF AttemptsInv
  <2> QED
    BY <1>2, <2>1, <2>2
<1>5. /\ (Plan.totalAttempts)' = Plan'.totalAttempts
      /\ \A k : Peer(k)' = peers'[k].proc
  BY DEF Peer
<1>6. \A x \in applied : x[4] \in Processes /\ x[3] \in Nat /\ proc[x[4]] # "new"
  BY DEF AttemptsInv
<1> QED
  BY <1>1, <1>3, <1>4, <1>5, <1>6, GrantsKept DEF AttemptsInv

\* What a process applies it was granted.
LEMMA ReportMade ==
  ASSUME SessionTyped, NEW p \in Processes, ProcessCases(p)
  PROVE  \/ applied' = applied
         \/ \E g \in StageGrants :
              /\ Report(p) /\ link[p].down # <<>> /\ 1 \in DOMAIN link[p].down
              /\ g = link[p].down[1] /\ g.kind = "STAGE_GRANT"
              /\ applied' = applied \cup {<<g.epoch, g.generation, g.attempt, p>>}
<1>1. CASE Report(p)
  <2>1. PICK g \in Incoming(p) :
          /\ g.kind = "STAGE_GRANT"
          /\ applied' = applied \cup {<<g.epoch, g.generation, g.attempt, p>>}
    BY <1>1, Zenon DEF Report
  <2>2. /\ link[p].down # <<>> /\ g = link[p].down[1] /\ g \in Frames
        /\ 1 \in DOMAIN link[p].down
    BY <2>1, IncomingFacts
  <2>3. g \in StageGrants
    BY <2>1, <2>2, AnswerTypes
  <2> QED
    BY <1>1, <2>1, <2>2, <2>3, Zenon
<1>2. CASE ~Report(p)
  BY <1>2, Zenon DEF ProcessCases, Connect, Welcomed, Replay, Publish, Exits, Exit
<1> QED
  BY <1>1, <1>2

LEMMA ConnectAttempts ==
  ASSUME SessionTyped, AttemptsInv, NEW p \in Processes, StartProcess(p)
  PROVE  AttemptsInv'
<1>1. /\ proc[p] = "new" /\ proc' = [proc EXCEPT ![p] = "greeting"] /\ applied' = applied
      /\ link' = [link EXCEPT ![p] = SentUp(Opened, HelloFrame)]
      /\ backlog' = Append(backlog, p) /\ at \in Active
  BY Zenon DEF StartProcess, Connect, Become, HelloFrame
<1>2. /\ UNCHANGED <<at, peers, plans>>
  BY ProcessKinds DEF engine
<1>3. /\ link \in [Processes -> Links] /\ proc \in [Processes -> ProcStates]
      /\ backlog \in Seq(Processes)
  BY DEF SessionTyped, LinksTyped, ControlTyped
<1>4. Plan' = Plan /\ \A k : Peer(k)' = Peer(k)
  BY <1>2 DEF Plan, Peer
<1>5. ASSUME NEW q \in Processes, NEW i \in DOMAIN link'[q].down
      PROVE  q # p /\ link'[q] = link[q]
  <2>1. SentUp(Opened, HelloFrame).down = <<>>
    <3>1. SentUp(Opened, HelloFrame).down = Opened.down
      BY FreshLinks, FrameFacts, SentFacts
    <3> QED
      BY <3>1 DEF Opened
  <2> DEFINE m == SentUp(Opened, HelloFrame)
  <2> HIDE DEF m
  <2>2. link' = [link EXCEPT ![p] = m] /\ m.down = <<>>
    BY <1>1, <2>1 DEF m
  <2>3. link'[p].down = <<>>
    BY <1>3, <2>2
  <2> QED
    BY <1>3, <1>5, <2>2, <2>3
<1>6. ASSUME NEW x \in applied
      PROVE  /\ x[4] \in Processes /\ x[3] \in Nat /\ proc'[x[4]] # "new" /\ x[4] # p
  BY <1>1, <1>3 DEF AttemptsInv
<1>7. ASSUME NEW x \in applied, NEW i \in DOMAIN backlog' PROVE x[4] # backlog'[i]
  <2>1. (i \in DOMAIN backlog /\ backlog'[i] = backlog[i]) \/ backlog'[i] = p
    BY <1>1, <1>3
  <2> QED
    BY <1>1, <1>6, <2>1 DEF AttemptsInv
<1>8. (Plan.totalAttempts)' = Plan.totalAttempts
  BY <1>4
<1>9. \A q \in Processes : \A i \in DOMAIN link'[q].down :
        link'[q].down[i].kind = "STAGE_GRANT" => link'[q].down[i].attempt <= Plan.totalAttempts
  BY <1>5 DEF AttemptsInv
<1>10. \A k \in DOMAIN peers' : \A x \in applied' :
         x[4] = Peer(k)' => x[3] <= Plan.totalAttempts
  BY <1>1, <1>2, <1>4, Zenon DEF AttemptsInv
<1> QED
  BY <1>1, <1>6, <1>7, <1>8, <1>9, <1>10 DEF AttemptsInv

LEMMA ProcessAttempts ==
  ASSUME SessionTyped, StreamInv, AttemptsInv, NEW p \in Processes,
         ProcessStep(p) \/ KillProcess(p)
  PROVE  AttemptsInv'
<1>1. /\ UNCHANGED <<at, peers, plans, backlog>> /\ ProcessCases(p) /\ ~Connect(p)
  <2>1. ProcessCases(p) /\ UNCHANGED <<at, peers, plans>>
    BY ProcessKinds DEF engine
  <2>2. backlog' = backlog
    BY Zenon DEF ProcessStep, KillProcess, control
  <2>3. ~Connect(p)
    BY Zenon DEF ProcessStep, KillProcess, WorkerStep, Connect, Welcomed, Refused, Replay,
       ReplayAnswered, Report, Publish, Leave, LoseLink, Die, Running
  <2> QED
    BY <2>1, <2>2, <2>3
<1>2. PICK m, t : Changes(p, m, t) /\ Follows(link[p], proc[p], m, t, RoleOf[p])
  BY <1>1, ProcessFollows DEF StreamInv
<1>3. /\ link'[p] = m /\ proc'[p] = t /\ t # "new"
      /\ \A q \in Processes \ {p} : link'[q] = link[q] /\ proc'[q] = proc[q]
      /\ \A i \in DOMAIN m.down : \E j \in DOMAIN link[p].down : m.down[i] = link[p].down[j]
  BY <1>2, ChangedLink DEF Follows
<1>4. Plan' = Plan /\ \A k : Peer(k)' = Peer(k)
  BY <1>1 DEF Plan, Peer
<1>5. \A q \in Processes : \A i \in DOMAIN link'[q].down :
        link'[q].down[i].kind = "STAGE_GRANT" => link'[q].down[i].attempt <= Plan.totalAttempts
  <2>1. ASSUME NEW i \in DOMAIN m.down, m.down[i].kind = "STAGE_GRANT"
        PROVE  m.down[i].attempt <= Plan.totalAttempts
    BY <1>3, <2>1 DEF AttemptsInv
  <2> QED
    BY <1>3, <2>1 DEF AttemptsInv
<1>6. ASSUME NEW x \in applied' \ applied
      PROVE  /\ x[4] = p /\ x[3] \in Nat /\ x[3] <= Plan.totalAttempts
             /\ link[p].down # <<>>
  <2>1. PICK g \in StageGrants :
          /\ link[p].down # <<>> /\ 1 \in DOMAIN link[p].down
          /\ g = link[p].down[1] /\ g.kind = "STAGE_GRANT"
          /\ applied' = applied \cup {<<g.epoch, g.generation, g.attempt, p>>}
    BY <1>1, <1>6, ReportMade
  <2>2. x = <<g.epoch, g.generation, g.attempt, p>>
    BY <1>6, <2>1
  <2>3. g.attempt \in Nat
    BY DEF StageGrants
  <2>4. g.attempt <= Plan.totalAttempts
    BY <2>1 DEF AttemptsInv
  <2>5. x[3] = g.attempt /\ x[4] = p
    BY <2>2
  <2> QED
    BY <2>1, <2>3, <2>4, <2>5
<1>7. ASSUME NEW x \in applied'
      PROVE  x[4] \in Processes /\ x[3] \in Nat /\ proc'[x[4]] # "new"
  <2>1. CASE x \in applied
    BY <1>3, <2>1 DEF AttemptsInv
  <2>2. CASE x \notin applied
    BY <1>3, <1>6, <1>7, <2>2
  <2> QED
    BY <2>1, <2>2
<1>8. ASSUME at \in Active, NEW x \in applied', NEW i \in DOMAIN backlog PROVE x[4] # backlog[i]
  <2>1. CASE x \in applied
    BY <1>8, <2>1 DEF AttemptsInv
  <2>2. CASE x \notin applied
    <3>1. link[backlog[i]].down = <<>>
      BY <1>8 DEF StreamInv, Queued, QueuedLink
    <3> QED
      BY <1>6, <2>2, <3>1
  <2> QED
    BY <2>1, <2>2
<1>9. ASSUME at \in Active, NEW x \in applied', NEW k \in DOMAIN peers, x[4] = Peer(k)
      PROVE  x[3] <= Plan.totalAttempts
  <2>1. CASE x \in applied
    BY <1>9, <2>1 DEF AttemptsInv
  <2>2. CASE x \notin applied
    BY <1>6, <2>2
  <2> QED
    BY <2>1, <2>2
<1>10. (Plan.totalAttempts)' = Plan.totalAttempts
  BY <1>4
<1> QED
  BY <1>1, <1>4, <1>5, <1>7, <1>8, <1>9, <1>10 DEF AttemptsInv

LEMMA AttemptsStep ==
  ASSUME SessionTyped, StreamInv, RungsInv, AttemptsInv, [Next]_vars
  PROVE  AttemptsInv'
<1>1. CASE CoordinatorStep \/ Crash
  BY <1>1, CoordinatorAttempts
<1>2. CASE StartRun
  <2>1. /\ Quiet /\ link' = link /\ proc' = proc /\ applied' = applied
        /\ backlog' = <<>> /\ peers' = <<>>
    BY <1>2, Zenon DEF StartRun, workers
  <2>2. \A q \in Processes : DOMAIN link[q].down = {}
    <3>1. ASSUME NEW q \in Processes PROVE link[q].down = <<>>
      BY <2>1 DEF Quiet, StreamInv, SoundLinks, SoundLink
    <3> QED
      BY <3>1
  <2>3. DOMAIN backlog' = {} /\ DOMAIN peers' = {}
    BY <2>1
  <2> QED
    BY <2>1, <2>2, <2>3, Zenon DEF AttemptsInv
<1>3. CASE UNCHANGED vars
  <2>1. UNCHANGED <<link, proc, applied, plans, at, backlog, peers>>
    BY <1>3 DEF vars, workers, engine, control
  <2>2. (Plan.totalAttempts)' = Plan.totalAttempts /\ \A k : Peer(k)' = Peer(k)
    BY <2>1 DEF Plan, Peer
  <2> QED
    BY <2>1, <2>2, Zenon DEF AttemptsInv
<1>4. ASSUME NEW p \in Processes, StartProcess(p) \/ ProcessStep(p) \/ KillProcess(p)
      PROVE  AttemptsInv'
  BY <1>4, ConnectAttempts, ProcessAttempts
<1> QED
  BY <1>1, <1>2, <1>3, <1>4, Zenon DEF Next

\* Only a grant or a request is waited for.
LEMMA NotExpecting ==
  ASSUME SessionTyped, StreamInv, CoordinatorStep \/ Crash, ~GrantStage, ~ReceiveReport
  PROVE  at' \notin {"report", "evidence"}
<1>1. CASE \/ HelloMissing \/ HelloStale \/ StaleFrame \/ Register \/ Replace
           \/ ReplacementRefused
  BY <1>1, WaitSteps, WaitControl
<1>2. CASE Quietly
  BY <1>2, QuietControl
<1>3. CASE WorkerDeath \/ ReceiveEvidence \/ Finish \/ Crash
  <2>1. at' \in {"accept", "save", "rollback", "done", "down"}
    BY <1>3, Zenon DEF WorkerDeath, ReceiveEvidence, Finish, Crash
  <2> QED
    BY <2>1
<1> QED
  BY <1>1, <1>2, <1>3, Zenon DEF CoordinatorStep, Quietly

\* The applier answers the grant by applying it.
LEMMA ApplierReports ==
  ASSUME SessionTyped, StreamInv, at = "report", ProcessCases(Peer(applier)),
         link[Peer(applier)].up = <<>>, link'[Peer(applier)].up # <<>>
  PROVE  <<epoch, Plan.generation, Plan.attempt, Peer(applier)>> \in applied'
<1> DEFINE p == Peer(applier)
           l == link[p]
<1>1. /\ p \in Processes /\ applier \in DOMAIN peers /\ at \in Active /\ RoleOf[p] # "replay"
      /\ l.coordinator = "open" /\ l \in Links /\ link \in [Processes -> Links]
  BY DrivenPeers, LinkNow DEF Driving, SessionTyped, LinksTyped
<1>2. proc[p] # "new"
  BY <1>1 DEF StreamInv, PeersKnown
<1>3. ASSUME 1 \in DOMAIN l.down, Question(l.down[1]) PROVE l.down[1] = GrantOf(applier)
  <2>1. Answering(l, GrantOf(applier), ReportOf(GrantOf(applier)))
    BY DEF StreamInv, Asked
  <2> QED
    BY <1>1, <1>3, <2>1 DEF Answering, NoneAsked
<1>4. ~Connect(p) /\ ~Replay(p)
  BY <1>1, <1>2, Zenon DEF Connect, Replay
<1>5. ~Welcomed(p)
  <2> SUFFICES ASSUME Welcomed(p) PROVE FALSE
    OBVIOUS
  <2>1. link' = [link EXCEPT ![p] = DownRead(@)]
    BY Zenon DEF Welcomed
  <2>2. link'[p] = DownRead(l)
    BY <1>1, <2>1
  <2>3. link'[p].up = l.up
    BY <1>1, <2>2, ReadFacts
  <2> QED
    BY <2>3
<1>6. ~Exits(p)
  <2> SUFFICES ASSUME Exits(p) PROVE FALSE
    OBVIOUS
  <2>1. link' = [link EXCEPT ![p] = ClosedByWorker(@)]
    BY Zenon DEF Exits, Exit
  <2>2. link'[p] = ClosedByWorker(l)
    BY <1>1, <2>1
  <2>3. link'[p].up = l.up
    BY <1>1, <2>2, ClosedFacts
  <2> QED
    BY <2>3
<1>7. ~Publish(p)
  <2> SUFFICES ASSUME Publish(p) PROVE FALSE
    OBVIOUS
  <2>1. PICK r \in Incoming(p) : r.kind = "EVIDENCE_REQUEST"
    BY Zenon DEF Publish
  <2>2. r = l.down[1] /\ 1 \in DOMAIN l.down
    BY <1>1, <2>1, IncomingFacts
  <2>3. r = GrantOf(applier)
    BY <1>3, <2>1, <2>2 DEF Question
  <2>4. r.kind = "STAGE_GRANT"
    BY <2>3 DEF GrantOf
  <2> QED
    BY <2>1, <2>4
<1>8. Report(p)
  BY <1>4, <1>5, <1>6, <1>7, Zenon DEF ProcessCases
<1>9. PICK g \in Incoming(p) :
        /\ g.kind = "STAGE_GRANT"
        /\ applied' = applied \cup {<<g.epoch, g.generation, g.attempt, p>>}
  BY <1>8, Zenon DEF Report
<1>10. g = l.down[1] /\ 1 \in DOMAIN l.down
  BY <1>1, <1>9, IncomingFacts
<1>11. g = GrantOf(applier)
  BY <1>3, <1>9, <1>10 DEF Question
<1>12. g.epoch = epoch /\ g.generation = Plan.generation /\ g.attempt = Plan.attempt
  BY <1>11 DEF GrantOf
<1> QED
  BY <1>9, <1>12

LEMMA ReportedStep ==
  ASSUME SessionTyped, StreamInv, ReportedInv, [Next]_vars
  PROVE  ReportedInv'
<1>1. CASE at' \notin {"report", "evidence"}
  BY <1>1 DEF ReportedInv
<1>2. CASE GrantStage
  <2>1. /\ at = "loop" /\ at' \in {"report", "finish"} /\ applier' = applier /\ peers' = peers
        /\ link' = [link EXCEPT ![Peer(applier)] = SentDown(@, GrantOf(applier))]
    BY <1>2, Zenon DEF GrantStage, End
  <2>2. at \in Driving /\ ~Expected(Peer(applier))
    BY <2>1 DEF Driving, Expected
  <2>3. /\ Peer(applier) \in Processes /\ applier \in DOMAIN peers
        /\ RoleOf[Peer(applier)] # "replay" /\ link[Peer(applier)].coordinator = "open"
        /\ link[Peer(applier)] \in Links /\ link \in [Processes -> Links]
    BY <2>2, DrivenPeers, LinkNow DEF SessionTyped, LinksTyped
  <2>4. link[Peer(applier)].up = <<>>
    BY <2>2, <2>3, CalmNow DEF Calm
  <2> DEFINE g == GrantOf(applier)
  <2>5. g \in Frames /\ link' = [link EXCEPT ![Peer(applier)] = SentDown(@, g)]
    BY <2>1, <2>3, GrantType, FrameFacts
  <2> HIDE DEF g
  <2>6. link'[Peer(applier)] = SentDown(link[Peer(applier)], g)
    BY <2>3, <2>5
  <2>7. link'[Peer(applier)].up = <<>>
    BY <2>3, <2>4, <2>5, <2>6, SentFacts
  <2>8. Peer(applier)' = Peer(applier)
    BY <2>1 DEF Peer
  <2> QED
    BY <2>1, <2>7, <2>8 DEF ReportedInv
<1>3. CASE ReceiveReport
  <2>1. /\ at = "report" /\ at' \in {"evidence", "finish"} /\ epoch' = epoch
        /\ UNCHANGED <<plans, peers, applier, applied>>
        /\ \E f \in Replies(applier) : f.kind = "STAGE_REPORT"
    BY <1>3, Zenon DEF ReceiveReport, End
  <2>2. Attempted(Peer(applier))
    BY <2>1, FrameThere DEF ReportedInv
  <2>3. Attempted(Peer(applier))' = Attempted(Peer(applier))
    BY <2>1 DEF Attempted, Plan, Peer
  <2> QED
    BY <2>1, <2>2, <2>3, Zenon DEF ReportedInv
<1>4. CASE StartRun
  <2>1. at' = "accept"
    BY <1>4, Zenon DEF StartRun
  <2> QED
    BY <1>1, <2>1
<1>5. CASE UNCHANGED vars
  <2>1. UNCHANGED <<link, applied, epoch, plans, at, peers, applier>>
    BY <1>5 DEF vars, workers, engine, control
  <2>2. Attempted(Peer(applier))' = Attempted(Peer(applier)) /\ Peer(applier)' = Peer(applier)
    BY <2>1 DEF Attempted, Plan, Peer
  <2> QED
    BY <2>1, <2>2, Zenon DEF ReportedInv
<1>6. ASSUME NEW p \in Processes, StartProcess(p) \/ ProcessStep(p) \/ KillProcess(p)
      PROVE  ReportedInv'
  <2>1. /\ UNCHANGED <<at, peers, applier, epoch, plans>> /\ ProcessCases(p)
    BY <1>6, ProcessKinds DEF engine
  <2>2. applied \subseteq applied'
    BY <2>1, ReportMade
  <2>3. Plan' = Plan /\ Peer(applier)' = Peer(applier)
    BY <2>1 DEF Plan, Peer
  <2>4. Attempted(Peer(applier)) => Attempted(Peer(applier))'
    BY <2>1, <2>2, <2>3 DEF Attempted
  <2>5. ASSUME at = "report", link'[Peer(applier)].up # <<>>, link[Peer(applier)].up = <<>>
        PROVE  Attempted(Peer(applier))'
    <3>1. link \in [Processes -> Links] /\ Peer(applier) \in Processes
      BY <2>5, DrivenPeers DEF Driving, SessionTyped, LinksTyped
    <3>2. p = Peer(applier)
      <4>1. \A q \in Processes \ {p} : link'[q] = link[q]
        <5>1. CASE Connect(p)
          BY <3>1, <5>1 DEF Connect
        <5>2. CASE ~Connect(p)
          BY <2>1, <5>2, ProcessFollows, ChangedLink DEF StreamInv
        <5> QED
          BY <5>1, <5>2
      <4> QED
        BY <2>5, <3>1, <4>1
    <3>3. <<epoch, Plan.generation, Plan.attempt, Peer(applier)>> \in applied'
      BY <2>1, <2>5, <3>2, ApplierReports
    <3> QED
      BY <2>1, <2>3, <3>3 DEF Attempted
  <2> QED
    BY <2>1, <2>3, <2>4, <2>5, Zenon DEF ReportedInv
<1> QED
  BY <1>1, <1>2, <1>3, <1>4, <1>5, <1>6, NotExpecting, Zenon DEF Next

-----------------------------------------------------------------------------
(* The refinement.                                                         *)

StagedInv == RungsInv /\ AttemptsInv /\ ReportedInv

LEMMA StagedInvariant == Spec => []StagedInv
<1>1. Init => StagedInv
  <2> SUFFICES ASSUME Init PROVE StagedInv
    OBVIOUS
  <2>1. /\ at = "down" /\ disk = NoDisk /\ applied = {}
        /\ link = [p \in Processes |-> NoLink]
    BY DEF Init, WorkerInit
  <2>2. ~Durably /\ ~Unplanned /\ at \notin Active
    BY <2>1 DEF Durably, Unplanned, Active, Waiting, Working
  <2>3. \A p \in Processes : DOMAIN link[p].down = {}
    BY <2>1 DEF NoLink
  <2>4. RungsInv
    BY <2>1, <2>2, Zenon DEF RungsInv
  <2>5. AttemptsInv
    BY <2>1, <2>2, <2>3, Zenon DEF AttemptsInv
  <2>6. ReportedInv
    BY <2>1 DEF ReportedInv
  <2> QED
    BY <2>4, <2>5, <2>6 DEF StagedInv
<1>2. SessionTyped /\ StreamInv /\ StagedInv /\ [Next]_vars => StagedInv'
  BY RungsStep, AttemptsStep, ReportedStep DEF StagedInv
<1> QED
  BY <1>1, <1>2, SessionTypedInvariant, StreamInvariant, PTL DEF Spec

\* The steps of StagedRecovery, in the terms of the session.
LEMMA StagedSteps ==
  /\ RungOf(Plan)' = RungOf(Plan) /\ RungOf(disk.plan)' = RungOf(disk.plan)
       => Staged!Next \/ UNCHANGED Staged!vars
  /\ (RungOf(Plan)' = RungOf(Plan) /\ (RungApplied' <=> RungApplied)
        /\ RungOf(disk.plan)' = RungOf(Plan)) => Staged!Save
  /\ (RungOf(Plan)' = RungOf(disk.plan) /\ ~RungApplied'
        /\ RungOf(disk.plan)' = RungOf(disk.plan)) => Staged!Restart
  /\ (/\ RungApplied /\ RungOf(disk.plan) = RungOf(Plan) /\ RungOf(Plan) < Len(Rungs)
      /\ RungOf(Plan)' = RungOf(Plan) + 1 /\ ~RungApplied'
      /\ RungOf(disk.plan)' = RungOf(disk.plan)) => Staged!Climb
<1> QED
  BY DEF Staged!Next, Staged!vars, Staged!Apply, Staged!Abandon, Staged!Save, Staged!Restart,
     Staged!Climb, RungOf, RungApplied, Attempted

\* What is applied in the sense of StagedRecovery says so.
LEMMA HeldAttempt ==
  ASSUME SessionTyped, StreamInv, StagedInv, at = "evidence", Plan.state # "COMPLETED"
  PROVE  RungApplied
<1>1. applier \in DOMAIN peers /\ peers[applier].registered
  BY DrivenPeers DEF Driving
<1>2. Attempted(Peer(applier))
  BY DEF StagedInv, ReportedInv
<1> QED
  BY <1>1, <1>2 DEF RungApplied

\* Nobody has applied an attempt that begins only now.
LEMMA NewAttempt ==
  ASSUME SessionTyped, StagedInv, at \in Active, peers' = peers, applied' = applied,
         Plan'.attempt = Plan.totalAttempts + 1
  PROVE  ~RungApplied'
<1> SUFFICES ASSUME RungApplied' PROVE FALSE
  OBVIOUS
<1>1. PICK k \in DOMAIN peers' : Attempted(Peer(k))'
  BY DEF RungApplied
<1>2. <<epoch', Plan'.generation, Plan'.attempt, Peer(k)>> \in applied
  BY <1>1 DEF Attempted, Peer
<1> DEFINE x == <<epoch', Plan'.generation, Plan'.attempt, Peer(k)>>
<1>3. x \in applied /\ x[4] = Peer(k) /\ x[3] = Plan.totalAttempts + 1
  BY <1>2
<1> HIDE DEF x
<1>4. x[3] <= Plan.totalAttempts
  BY <1>1, <1>3 DEF StagedInv, AttemptsInv
<1>5. Plan.totalAttempts \in Nat
  BY EngineFacts DEF SessionTyped
<1> QED
  BY <1>3, <1>4, <1>5

LEMMA EvidenceStaged ==
  ASSUME SessionTyped, StreamInv, StagedInv, ReceiveEvidence
  PROVE  [Staged!Next]_(Staged!vars)
<1>1. /\ at = "evidence" /\ disk' = disk /\ peers' = peers /\ applied' = applied
      /\ plans' = plans \/ \E f : E!AdvanceWith(1, SnapshotOf(f))
  BY Zenon DEF ReceiveEvidence, engine
<1>2. /\ RungOf(disk.plan)' = RungOf(disk.plan) /\ RungOf(disk.plan) = RungOf(Plan)
      /\ at \in Active
  BY <1>1 DEF RungOf, StagedInv, RungsInv, Durably, Waiting, Active
<1>3. CASE plans' = plans
  <2>1. RungOf(Plan)' = RungOf(Plan)
    BY <1>3 DEF Plan, RungOf
  <2> QED
    BY <1>2, <2>1, StagedSteps
<1>4. CASE \E f : E!AdvanceWith(1, SnapshotOf(f))
  <2>1. /\ E!IsLive(Plan)
        /\ Stays(Plan, Plan') \/ Climbs(Plan, Plan') \/ Completes(Plan, Plan')
    BY <1>4, AdvanceEffect, SnapshotType DEF SessionTyped, DurableTyped
  <2>2. Plan.state # "COMPLETED"
    BY <2>1, NotCompleted
  <2>3. CASE Stays(Plan, Plan')
    <3>1. RungOf(Plan)' = RungOf(Plan)
      BY <2>2, <2>3, RungStays
    <3> QED
      BY <1>2, <3>1, StagedSteps
  <2>4. CASE Climbs(Plan, Plan') \/ Completes(Plan, Plan')
    <3>1. RungApplied
      BY <1>1, <2>2, HeldAttempt
    <3>2. RungOf(Plan)' = RungOf(Plan) + 1 /\ RungOf(Plan) < Len(Rungs)
      BY <2>2, <2>4 DEF RungOf, Climbs, Completes
    <3>3. ~RungApplied'
      <4>1. CASE Climbs(Plan, Plan')
        BY <1>1, <1>2, <4>1, NewAttempt DEF Climbs
      <4>2. CASE Completes(Plan, Plan')
        BY <4>2 DEF Completes, RungApplied
      <4> QED
        BY <2>4, <4>1, <4>2
    <3> QED
      BY <1>2, <3>1, <3>2, <3>3, StagedSteps DEF Staged!Next
  <2> QED
    BY <2>1, <2>3, <2>4
<1> QED
  BY <1>1, <1>3, <1>4

LEMMA StagedStep ==
  ASSUME SessionTyped, StreamInv, StagedInv, [Next]_vars
  PROVE  [Staged!Next]_(Staged!vars)
<1>1. CASE ReceiveEvidence
  BY <1>1, EvidenceStaged
<1>2. CASE StartRun
  <2>1. RungOf(Plan)' = RungOf(disk.plan)
    BY <1>2, StartRungs DEF StagedInv
  <2>2. disk' = disk /\ peers' = <<>>
    BY <1>2, Zenon DEF StartRun
  <2>3. ~RungApplied' /\ RungOf(disk.plan)' = RungOf(disk.plan)
    BY <2>2 DEF RungApplied, RungOf
  <2> QED
    BY <2>1, <2>3, StagedSteps DEF Staged!Next
<1>3. CASE ~ReceiveEvidence /\ ~StartRun
  <2>1. RungOf(Plan)' = RungOf(Plan)
    BY <1>3, RungKept DEF StagedInv
  <2>2. CASE disk' = disk
    <3>1. RungOf(disk.plan)' = RungOf(disk.plan)
      BY <2>2 DEF RungOf
    <3> QED
      BY <2>1, <3>1, StagedSteps
  <2>3. CASE disk' # disk
    <3>1. /\ disk' = Saved
          /\ UNCHANGED <<applied, epoch, plans, peers>>
      <4>1. ASSUME \/ HelloMissing \/ HelloStale \/ StaleFrame \/ Register
                   \/ Replace \/ ReplacementRefused \/ AcceptTimeout \/ Enter
                   \/ LeaveLoop \/ EvidenceLost \/ Finish \/ Crash
                   \/ \E p \in Processes : StartProcess(p) \/ ProcessStep(p) \/ KillProcess(p)
                   \/ UNCHANGED vars
            PROVE  disk' = disk
        BY <4>1, Zenon DEF HelloMissing, HelloStale, StaleFrame, Register, Replace,
           ReplacementRefused, AcceptTimeout, Enter, LeaveLoop, EvidenceLost, Finish, Crash,
           StartProcess, ProcessStep, KillProcess, vars
      <4>2. ASSUME \/ Begin \/ GrantStage \/ ReceiveReport \/ WorkerDeath \/ RevalidateReplaced
                   \/ RollBack \/ ResumePlan
            PROVE  disk' = disk
        BY <4>2, Zenon DEF Begin, GrantStage, ReceiveReport, WorkerDeath, RevalidateReplaced,
           RollBack, ResumePlan
      <4>3. Stop \/ Save \/ SaveRollback
        BY <1>3, <2>3, <4>1, <4>2, Zenon DEF Next, CoordinatorStep
      <4>4. /\ disk' = disk \/ disk' = Saved
            /\ UNCHANGED <<applied, epoch, plans, peers>>
        BY <4>3, Zenon DEF Stop, Save, SaveRollback, Write, workers, engine
      <4> QED
        BY <2>3, <4>4
    <3>2. RungOf(disk.plan)' = RungOf(Plan)
      BY <3>1 DEF Saved, RungOf
    <3>3. RungApplied' <=> RungApplied
      BY <3>1 DEF RungApplied, Attempted, Plan, Peer
    <3> QED
      BY <2>1, <3>2, <3>3, StagedSteps DEF Staged!Next
  <2> QED
    BY <2>2, <2>3
<1> QED
  BY <1>1, <1>2, <1>3

\* The session implements StagedRecovery: whatever fails, the plan leaves a rung only
\* when the worker that is registered now applied its present attempt and the rung
\* is durable, one rung at a time, and a restart goes on from the durable one.
THEOREM SessionIsStaged == Spec => StagedSpec
<1>1. Init => Staged!Init
  <2> SUFFICES ASSUME Init PROVE Staged!Init
    OBVIOUS
  <2>1. Plan = E!NoPlan /\ disk.plan = E!NoPlan /\ peers = <<>>
    BY DEF Init, Plan, NoDisk
  <2>2. E!NoPlan.state # "COMPLETED" /\ E!NoPlan.index = 0
    BY DEF E!NoPlan
  <2> QED
    BY <2>1, <2>2 DEF Staged!Init
<1>2. SessionTyped /\ StreamInv /\ StagedInv /\ [Next]_vars => [Staged!Next]_(Staged!vars)
  BY StagedStep
<1> QED
  BY <1>1, <1>2, SessionTypedInvariant, StreamInvariant, StagedInvariant, PTL
     DEF Spec, StagedSpec, Staged!Spec


=============================================================================
