------------------------ MODULE LevelsEngine_proofs -------------------------
(***************************************************************************)
(* RestorationLevels implements RecoveryEngine: every step of the levels   *)
(* is a step of the lifecycle it is composed with, so what the proofs of   *)
(* RecoveryEngine establish holds of the plan whose levels are restored.   *)
(*                                                                         *)
(* EP is RecoveryEngine with its theorems, instantiated exactly as E is in *)
(* RestorationLevels.  The two instances define the same operators twice,  *)
(* and the lemmas Same... say that they agree, from the helpers up to the  *)
(* actions: each is its definition's text on both sides.                   *)
(***************************************************************************)
EXTENDS RestorationLevels, TLAPS

EP == INSTANCE RecoveryActions_proofs WITH
  PlanIds <- {1}, SnapshotGens <- Nat,
  Window <- 100, MaxTransitions <- 64,
  RevalidationBoundary <- 100, MaxLifetime <- 100,
  MaxStageAttempts <- 3, MaxTotalAttempts <- 32,
  OnRecurrence <- <<"ROLLBACK">>, RollbackOnFailure <- TRUE,
  MaxStageHistory <- 64, MaxRollbackHistory <- 32, MaxCompletionHistory <- 64,
  MaxExplanationItems <- 1, MaxReasonLength <- 1, TransitionRecords <- 64,
  MaxGeneration <- 1000, policyGen <- 1

-----------------------------------------------------------------------------
(* The two instances are one.                                              *)

LEMMA SameCardinality == \A S : E!Cardinality(S) = EP!Cardinality(S)
BY DEF E!Cardinality, EP!Cardinality

LEMMA SameOpened == \A p : E!Opened(p) = EP!Opened(p)
BY DEF E!HasPending, EP!HasPending, E!LastRecord, EP!LastRecord, E!Opened, EP!Opened

LEMMA SameClosed ==
  \A history, outcome, t : E!Closed(history, outcome, t) = EP!Closed(history, outcome, t)
BY Zenon DEF E!Closed, EP!Closed

LEMMA SameKind == \A p : E!Kind(p) = EP!Kind(p)
BY Zenon DEF E!Kind, EP!Kind

LEMMA SameHasStage == \A p : E!HasStage(p) = EP!HasStage(p)
BY Zenon DEF E!HasStage, EP!HasStage

LEMMA SameIsLive == \A p : E!IsLive(p) = EP!IsLive(p)
BY Zenon DEF E!IsLive, EP!IsLive, E!LiveStates, EP!LiveStates, E!StageStates,
   EP!StageStates

LEMMA SameCountRecent == \A ticks, t : E!CountRecent(ticks, t) = EP!CountRecent(ticks, t)
BY SameCardinality DEF E!CountRecent, EP!CountRecent

LEMMA SameCoherent == \A p, s : E!Coherent(p, s) <=> EP!Coherent(p, s)
BY SameKind, SameHasStage, SameIsLive, Zenon DEF E!Bound, EP!Bound, E!Coherent,
   EP!Coherent, E!CompletionKey, EP!CompletionKey, E!Replayed, EP!Replayed

LEMMA SameEvaluated == \A p, s : E!Evaluated(p, s) <=> EP!Evaluated(p, s)
BY SameCoherent, Zenon DEF E!CrossedBoundary, EP!CrossedBoundary, E!Evaluated,
   EP!Evaluated, E!Outlived, EP!Outlived

LEMMA SameSettled == \A p, s : E!Settled(p, s) <=> EP!Settled(p, s)
BY SameEvaluated, Zenon DEF E!Settled, EP!Settled

LEMMA SameWithinRate == \A p, s : E!WithinRate(p, s) <=> EP!WithinRate(p, s)
BY SameCountRecent, Zenon DEF E!WithinRate, EP!WithinRate

LEMMA SameAllowed == \A p, s : E!Allowed(p, s) <=> EP!Allowed(p, s)
BY SameSettled, SameWithinRate, Zenon DEF E!Allowed, EP!Allowed

LEMMA SameVerified == \A p, s : E!Verified(p, s) <=> EP!Verified(p, s)
BY SameKind, SameAllowed, Zenon DEF E!Verified, EP!Verified

LEMMA SameHasRoom == \A p : E!HasRoom(p) <=> EP!HasRoom(p)
BY Zenon DEF E!HasPending, EP!HasPending, E!HasRoom, EP!HasRoom, E!HistoryFull,
   EP!HistoryFull, E!LastRecord, EP!LastRecord

LEMMA SameFailed == \A p : E!Failed(p) = EP!Failed(p)
BY Zenon DEF E!Failed, EP!Failed

LEMMA SameInvalidated == \A p : E!Invalidated(p) = EP!Invalidated(p)
BY SameIsLive, Zenon DEF E!Flagged, EP!Flagged, E!Invalidated, EP!Invalidated

LEMMA SameInvalidatedDraft == \A p : E!InvalidatedDraft(p) = EP!InvalidatedDraft(p)
BY SameIsLive, Zenon DEF E!Flagged, EP!Flagged, E!InvalidatedDraft, EP!InvalidatedDraft

LEMMA SamePartiallyApplied ==
  \A p, s : E!PartiallyApplied(p, s) = EP!PartiallyApplied(p, s)
BY Zenon DEF E!CompletionKey, EP!CompletionKey, E!PartiallyApplied, EP!PartiallyApplied

LEMMA SameCommitted == \A p, s : E!Committed(p, s) = EP!Committed(p, s)
BY SameOpened, SameClosed, Zenon DEF E!Committed, EP!Committed, E!CompletionKey,
   EP!CompletionKey, E!PushTransition, EP!PushTransition

LEMMA SameClimbed == \A p, s : E!Climbed(p, s) = EP!Climbed(p, s)
BY SameOpened, SameClosed, Zenon DEF E!Climbed, EP!Climbed

LEMMA SameEntered == \A q, s : E!Entered(q, s) = EP!Entered(q, s)
<1> TAKE q, s
<1>1. E!StateForStage[E!Kind(q)] = EP!StateForStage[EP!Kind(q)]
  BY SameKind, Zenon DEF E!StateForStage, EP!StateForStage
<1>2. E!PushTransition(q.transitions, s.tick) = EP!PushTransition(q.transitions, s.tick)
  BY Zenon DEF E!PushTransition, EP!PushTransition
<1> DEFINE st == EP!StateForStage[EP!Kind(q)]
           tr == EP!PushTransition(q.transitions, s.tick)
           r == [q EXCEPT !.stageGen = @ + 1, !.attempt = q.totalAttempts + 1,
                          !.totalAttempts = @ + 1, !.attemptsInStage = 1, !.state = st,
                          !.updated = s.tick, !.transitions = tr]
<1>3. E!Entered(q, s) = [r EXCEPT !.history = E!Opened(r)]
  BY <1>1, <1>2, Zenon DEF E!Entered
<1>4. EP!Entered(q, s) = [r EXCEPT !.history = EP!Opened(r)]
  BY Zenon DEF EP!Entered
<1>5. E!Opened(r) = EP!Opened(r)
  BY SameOpened, Zenon
<1> HIDE DEF r
<1> QED
  BY <1>3, <1>4, <1>5, Zenon

LEMMA SameUpdate == \A i, q : E!Update(i, q) <=> EP!Update(i, q)
BY Zenon DEF E!Update, EP!Update

LEMMA SameCompletionsFull == \A p : E!CompletionsFull(p) = EP!CompletionsFull(p)
BY Zenon DEF E!CompletionsFull, EP!CompletionsFull

LEMMA SameAdvanceStale == \A i, s : E!AdvanceStale(i, s) <=> EP!AdvanceStale(i, s)
BY SameKind, SameHasStage, SameIsLive, SameInvalidatedDraft, Zenon DEF E!AdvanceStale,
   EP!AdvanceStale, E!Bound, EP!Bound, E!CompletionKey, EP!CompletionKey, E!Replayed,
   EP!Replayed, E!Update, EP!Update

LEMMA SameAdvanceOutlived ==
  \A i, s : E!AdvanceOutlived(i, s) <=> EP!AdvanceOutlived(i, s)
BY SameCoherent, SameFailed, Zenon DEF E!AdvanceOutlived, EP!AdvanceOutlived, E!Outlived,
   EP!Outlived, E!Update, EP!Update

LEMMA SameAdvanceCrossedBoundary ==
  \A i, s : E!AdvanceCrossedBoundary(i, s) <=> EP!AdvanceCrossedBoundary(i, s)
BY SameCoherent, SameInvalidatedDraft, Zenon DEF E!AdvanceCrossedBoundary,
   EP!AdvanceCrossedBoundary, E!CrossedBoundary, EP!CrossedBoundary, E!Outlived,
   EP!Outlived, E!Update, EP!Update

LEMMA SameAdvanceRecurrence ==
  \A i, s : E!AdvanceRecurrence(i, s) <=> EP!AdvanceRecurrence(i, s)
BY SameEvaluated, Zenon DEF E!AdvanceRecurrence, EP!AdvanceRecurrence,
   E!StateOnRecurrence, EP!StateOnRecurrence, E!Update, EP!Update

LEMMA SameAdvanceRateExceeded ==
  \A i, s : E!AdvanceRateExceeded(i, s) <=> EP!AdvanceRateExceeded(i, s)
BY SameSettled, SameWithinRate, Zenon DEF E!AdvanceRateExceeded, EP!AdvanceRateExceeded,
   E!Update, EP!Update

LEMMA SameAdvanceBudgetExhausted ==
  \A i, s : E!AdvanceBudgetExhausted(i, s) <=> EP!AdvanceBudgetExhausted(i, s)
BY SameSettled, SameWithinRate, SameFailed, Zenon DEF E!AdvanceBudgetExhausted,
   EP!AdvanceBudgetExhausted, E!StateOnFailure, EP!StateOnFailure, E!Update, EP!Update

LEMMA SameAdvancePartial == \A i, s : E!AdvancePartial(i, s) <=> EP!AdvancePartial(i, s)
BY SameKind, SameAllowed, SamePartiallyApplied, SameCompletionsFull, Zenon DEF
   E!AdvancePartial, EP!AdvancePartial, E!Update, EP!Update

LEMMA SameAdvanceHistoryFull ==
  \A i, s : E!AdvanceHistoryFull(i, s) <=> EP!AdvanceHistoryFull(i, s)
<1> TAKE i, s
<1> DEFINE p == plans[i]
           h == EP!Closed(EP!Opened(p), "SUCCEEDED", s.tick)
<1>1. /\ E!Allowed(p, s) <=> EP!Allowed(p, s)
      /\ E!Verified(p, s) <=> EP!Verified(p, s)
      /\ E!HasRoom(p) <=> EP!HasRoom(p)
      /\ E!CompletionsFull(p) <=> EP!CompletionsFull(p)
      /\ E!Kind(p) = EP!Kind(p)
  BY SameAllowed, SameVerified, SameHasRoom, SameCompletionsFull, SameKind, Zenon
<1>2. E!Closed(E!Opened(p), "SUCCEEDED", s.tick) = h
  BY SameOpened, SameClosed, Zenon
<1>3. /\ E!Update(i, E!Failed(p)) <=> EP!Update(i, EP!Failed(p))
      /\ E!Update(i, E!Failed([p EXCEPT !.history = h]))
           <=> EP!Update(i, EP!Failed([p EXCEPT !.history = h]))
  BY SameUpdate, SameFailed, Zenon
<1>4. E!AdvanceHistoryFull(i, s) <=>
        \/ /\ EP!Allowed(p, s) /\ EP!Kind(p) = "COMPLETE" /\ s.verdict = "partial"
           /\ EP!CompletionsFull(p) /\ E!Update(i, E!Failed(p))
        \/ /\ EP!Verified(p, s) /\ ~EP!HasRoom(p) /\ E!Update(i, E!Failed(p))
        \/ /\ EP!Verified(p, s) /\ EP!HasRoom(p) /\ EP!Kind(p) = "COMPLETE"
           /\ EP!CompletionsFull(p) /\ E!Update(i, E!Failed([p EXCEPT !.history = h]))
  <2> HIDE DEF h
  <2> QED
    BY <1>1, <1>2, Zenon DEF E!AdvanceHistoryFull
<1>5. EP!AdvanceHistoryFull(i, s) <=>
        \/ /\ EP!Allowed(p, s) /\ EP!Kind(p) = "COMPLETE" /\ s.verdict = "partial"
           /\ EP!CompletionsFull(p) /\ EP!Update(i, EP!Failed(p))
        \/ /\ EP!Verified(p, s) /\ ~EP!HasRoom(p) /\ EP!Update(i, EP!Failed(p))
        \/ /\ EP!Verified(p, s) /\ EP!HasRoom(p) /\ EP!Kind(p) = "COMPLETE"
           /\ EP!CompletionsFull(p) /\ EP!Update(i, EP!Failed([p EXCEPT !.history = h]))
  BY Zenon DEF EP!AdvanceHistoryFull
<1> HIDE DEF p, h
<1> QED
  BY <1>3, <1>4, <1>5, Zenon

LEMMA SameAdvanceCommit == \A i, s : E!AdvanceCommit(i, s) <=> EP!AdvanceCommit(i, s)
BY SameKind, SameVerified, SameHasRoom, SameCommitted, SameCompletionsFull, Zenon DEF
   E!AdvanceCommit, EP!AdvanceCommit, E!Update, EP!Update

LEMMA SameAdvanceStage == \A i, s : E!AdvanceStage(i, s) <=> EP!AdvanceStage(i, s)
<1> TAKE i, s
<1> DEFINE p == plans[i]
           Moves == E!Update(i, E!Entered(E!Climbed(p, s), s))
<1>1. /\ E!Verified(p, s) <=> EP!Verified(p, s)
      /\ E!HasRoom(p) <=> EP!HasRoom(p)
      /\ E!Kind(p) = EP!Kind(p)
  BY SameVerified, SameHasRoom, SameKind, Zenon
<1>2. Moves <=> EP!Update(i, EP!Entered(EP!Climbed(p, s), s))
  BY SameClimbed, SameEntered, SameUpdate, Zenon
<1> HIDE DEF Moves
<1> QED
  BY <1>1, <1>2, SMT DEF E!AdvanceStage, EP!AdvanceStage, Moves

LEMMA SameAdvanceExhausted ==
  \A i, s : E!AdvanceExhausted(i, s) <=> EP!AdvanceExhausted(i, s)
<1> TAKE i, s
<1> DEFINE p == plans[i]
           Moves == E!Update(i, E!Failed(E!Climbed(p, s)))
<1>1. /\ E!Verified(p, s) <=> EP!Verified(p, s)
      /\ E!HasRoom(p) <=> EP!HasRoom(p)
      /\ E!Kind(p) = EP!Kind(p)
  BY SameVerified, SameHasRoom, SameKind, Zenon
<1>2. Moves <=> EP!Update(i, EP!Failed(EP!Climbed(p, s)))
  BY SameClimbed, SameFailed, SameUpdate, Zenon
<1> HIDE DEF Moves
<1> QED
  BY <1>1, <1>2, SMT DEF E!AdvanceExhausted, EP!AdvanceExhausted, Moves

LEMMA SameAdvanceWith == \A i, s : E!AdvanceWith(i, s) <=> EP!AdvanceWith(i, s)
BY SameCoherent, SameAdvanceStale, SameAdvanceOutlived, SameAdvanceCrossedBoundary,
   SameAdvanceRecurrence, SameAdvanceRateExceeded, SameAdvanceBudgetExhausted,
   SameAdvancePartial, SameAdvanceHistoryFull, SameAdvanceCommit, SameAdvanceStage,
   SameAdvanceExhausted, Zenon DEF E!AdvanceWith, EP!AdvanceWith

LEMMA SameRolledBack == \A p : E!RolledBack(p) = EP!RolledBack(p)
BY SameOpened, SameClosed, SameHasStage, Zenon DEF E!HasPending, EP!HasPending,
   E!HistoryFull, EP!HistoryFull, E!LastRecord, EP!LastRecord, E!PushTransition,
   EP!PushTransition, E!RolledBack, EP!RolledBack

LEMMA SameRevalidated == \A p : E!Revalidated(p) = EP!Revalidated(p)
BY SameOpened, SameKind, Zenon DEF E!Rebound, EP!Rebound, E!Revalidated, EP!Revalidated,
   E!StateForStage, EP!StateForStage

LEMMA SameCreatePlan == \A i : E!CreatePlan(i) <=> EP!CreatePlan(i)
BY Zenon DEF E!CreatePlan, EP!CreatePlan, E!NewPlan, EP!NewPlan, E!NoPlan, EP!NoPlan,
   E!StateForStage, EP!StateForStage, E!Update, EP!Update

LEMMA SameBeginEpoch == E!BeginEpoch <=> EP!BeginEpoch
BY SameInvalidated, Zenon DEF E!BeginEpoch, EP!BeginEpoch

LEMMA SameImportState == E!ImportState <=> EP!ImportState
BY SameIsLive, SameInvalidated, Zenon DEF E!ImportState, EP!ImportState, E!Imported,
   EP!Imported

LEMMA SameRequireRevalidation ==
  \A i : E!RequireRevalidation(i) <=> EP!RequireRevalidation(i)
BY SameInvalidated, Zenon DEF E!RequireRevalidation, EP!RequireRevalidation, E!Update,
   EP!Update

LEMMA SameResume == \A i : E!Resume(i) <=> EP!Resume(i)
BY SameKind, SameHasStage, Zenon DEF E!Resumable, EP!Resumable, E!Resume, EP!Resume,
   E!StateForStage, EP!StateForStage, E!Update, EP!Update

LEMMA SameRollbackStale == \A i : E!RollbackStale(i) <=> EP!RollbackStale(i)
BY SameIsLive, SameInvalidated, Zenon DEF E!RollbackStale, EP!RollbackStale, E!Update,
   EP!Update

LEMMA SameRollback == \A i : E!Rollback(i) <=> EP!Rollback(i)
BY SameIsLive, SameRolledBack, Zenon DEF E!Rollback, EP!Rollback, E!RollbackAllowed,
   EP!RollbackAllowed, E!Update, EP!Update

LEMMA SameRevalidate == \A i : E!Revalidate(i) <=> EP!Revalidate(i)
<1> TAKE i
<1> DEFINE p == plans[i]
           Moves == E!Update(i, E!Revalidated(p))
<1>1. /\ E!Revalidatable(p) <=> EP!Revalidatable(p)
      /\ E!HistoryFull(p) <=> EP!HistoryFull(p)
  BY SameHasStage, SameIsLive, Zenon DEF E!Revalidatable, EP!Revalidatable, E!HistoryFull,
     EP!HistoryFull
<1>2. Moves <=> EP!Update(i, EP!Revalidated(p))
  BY SameRevalidated, SameUpdate, Zenon
<1> HIDE DEF Moves
<1> QED
  BY <1>1, <1>2, SMT DEF E!Revalidate, EP!Revalidate, Moves

LEMMA SameTick == E!Tick <=> EP!Tick
BY Zenon DEF E!Tick, EP!Tick

LEMMA SameInit == E!Init <=> EP!Init
BY Zenon DEF E!Init, EP!Init, E!NoPlan, EP!NoPlan

-----------------------------------------------------------------------------
(* The assumptions of RecoveryEngine hold of the instance.                 *)

LEMMA SameKinds == E!StageKinds = EP!StageKinds
BY Zenon DEF E!StageKinds, EP!StageKinds

LEMMA SameValidLadder == \A l : E!ValidLadder(l) <=> EP!ValidLadder(l)
BY SameKinds, Zenon DEF E!ValidLadder, EP!ValidLadder, E!KindRank, EP!KindRank

LEMMA LadderHolds == EP!LadderAssumption
<1>1. Len(Ladder) = 1 /\ Ladder \in Seq(Seq(EP!StageKinds)) /\ EP!ValidLadder(Ladder[1])
  BY LevelsAssumption, PolicyIsValid, SameKinds, SameValidLadder
<1> QED
  BY <1>1 DEF EP!LadderAssumption, EP!PolicyGens

LEMMA PolicyHolds == EP!PolicyAssumption
<1>1. Len(Ladder) = 1 /\ EP!PolicyGens = {1}
  BY LevelsAssumption DEF EP!PolicyGens
<1>2. <<"ROLLBACK">> \in [{1} -> {"ROLLBACK", "PAUSE", "FAIL"}]
  OBVIOUS
<1> QED
  BY <1>1, <1>2, DomainAssumption DEF EP!PolicyAssumption

LEMMA LimitHolds == EP!LimitAssumption /\ EP!WindowAssumption
BY DomainAssumption DEF EP!LimitAssumption, EP!WindowAssumption

-----------------------------------------------------------------------------
(* Every step of the levels is a step of the lifecycle.                    *)

LEMMA VerdictType ==
  ASSUME NEW es
  PROVE  Verdict(es) \in EP!Verdicts
<1>1. VerdictInBand(es) \in EP!Verdicts
  BY Zenon DEF VerdictInBand, EP!Verdicts
<1> QED
  BY <1>1, Zenon DEF Verdict, EP!Verdicts

LEMMA SnapshotType ==
  ASSUME now \in Nat, NEW v \in EP!Verdicts
  PROVE  Snapshot(v) \in EP!Snapshots
<1>1. now \in 0..now /\ "current" \in EP!Bindings
  BY DEF EP!Bindings
<1> QED
  BY <1>1 DEF Snapshot, EP!Snapshots

\* The engine's next-state relation, one disjunct at a time.
LEMMA EngineCalls ==
  /\ EP!Tick \/ EP!BeginEpoch \/ EP!ImportState => EP!Next
  /\ \/ EP!CreatePlan(1) \/ EP!RequireRevalidation(1) \/ EP!Resume(1)
     \/ EP!RollbackStale(1) \/ EP!Rollback(1) \/ EP!Revalidate(1)
     => EP!Next
<1>1. EP!PlanNext(1) => EP!Next
  <2>1. 1 \in {1}
    OBVIOUS
  <2> QED
    BY <2>1, Zenon DEF EP!Next
<1>2. EP!Tick \/ EP!BeginEpoch \/ EP!ImportState => EP!Next
  BY Zenon DEF EP!Next
<1>3. \/ EP!CreatePlan(1) \/ EP!RequireRevalidation(1) \/ EP!Resume(1)
      \/ EP!RollbackStale(1) \/ EP!Rollback(1) \/ EP!Revalidate(1)
      => EP!PlanNext(1)
  BY Zenon DEF EP!PlanNext
<1> QED
  BY <1>1, <1>2, <1>3, Zenon

LEMMA EngineAdvances ==
  ASSUME NEW s \in EP!Snapshots, EP!AdvanceWith(1, s)
  PROVE  EP!Next
<1>1. EP!IsLive(plans[1]) /\ EP!HasStage(plans[1])
  BY Zenon DEF EP!AdvanceWith, EP!AdvanceStale, EP!Coherent
<1>2. EP!PlanNext(1)
  BY <1>1, Zenon DEF EP!Advance, EP!PlanNext
<1>3. 1 \in {1}
  OBVIOUS
<1> QED
  BY <1>2, <1>3, Zenon DEF EP!Next

LEMMA EngineStep ==
  ASSUME now \in Nat, [Next]_vars
  PROVE  [EP!Next]_(EP!vars)
<1>1. CASE UNCHANGED vars
  BY <1>1 DEF vars, lifecycle, EP!vars
<1>2. CASE CreatePlan
  BY <1>2, SameCreatePlan, EngineCalls, Zenon DEF CreatePlan
<1>3. CASE BeginEpoch
  BY <1>3, SameBeginEpoch, EngineCalls, Zenon DEF BeginEpoch
<1>4. CASE Restart
  BY <1>4, SameImportState, EngineCalls, Zenon DEF Restart
<1>5. CASE DropStale \/ \E r \in Resources : Revoke(r) \/ \E g \in Grants[r] : Grant(r, g)
  <2>1. UNCHANGED lifecycle
    BY <1>5, Zenon DEF DropStale, Revoke, Grant
  <2> QED
    BY <2>1 DEF lifecycle, EP!vars
<1>6. CASE OtherCall
  <2>1. ASSUME E!AdvanceStale(1, Snapshot("unusable")) PROVE EP!Next
    <3>1. Snapshot("unusable") \in EP!Snapshots
      BY SnapshotType DEF EP!Verdicts
    <3>2. EP!AdvanceWith(1, Snapshot("unusable"))
      BY <2>1, SameAdvanceStale, Zenon DEF EP!AdvanceWith
    <3> QED
      BY <3>1, <3>2, EngineAdvances
  <2> QED
    BY <1>6, <2>1, SameTick, SameRequireRevalidation, SameResume, SameRollbackStale,
       SameRevalidate, EngineCalls, Zenon DEF OtherCall
<1>7. CASE \E report \in Reports, g \in {Plan.generation - 1, Plan.generation} : Advance(report, g)
  <2>1. PICK report, g : Advance(report, g)
    BY <1>7
  <2> DEFINE v == Verdict(Readings(report, g))
  <2>2. EP!AdvanceWith(1, Snapshot(v))
    BY <2>1, SameAdvanceWith, Zenon DEF Advance
  <2>3. Snapshot(v) \in EP!Snapshots
    BY VerdictType, SnapshotType
  <2> QED
    BY <2>2, <2>3, EngineAdvances
<1>8. CASE \E seen \in Sightings : Rollback(seen)
  BY <1>8, SameRollback, EngineCalls, Zenon DEF Rollback
<1> QED
  BY <1>1, <1>2, <1>3, <1>4, <1>5, <1>6, <1>7, <1>8, Zenon DEF Next

LEMMA EngineInit == Init => EP!Init
BY DEF Init, EP!Init, E!NoPlan, EP!NoPlan

LEMMA EngineInductive ==
  /\ EP!Init => EP!LInv
  /\ EP!LInv /\ [Next]_vars => EP!LInv'
<1>1. (EP!Init => EP!LInv) /\ (EP!LInv /\ [EP!Next]_(EP!vars) => EP!LInv')
  BY LadderHolds, PolicyHolds, LimitHolds, EP!LineageInductive
<1>2. EP!LInv => now \in Nat
  BY DEF EP!LInv, EP!TypeOK
<1> QED
  BY <1>1, <1>2, EngineStep

LEMMA EngineInvariant == Spec => []EP!LInv
BY EngineInit, EngineInductive, PTL DEF Spec

\* The plan whose levels are restored goes through the lifecycle of RecoveryEngine:
\* what the levels decide about a snapshot is one of its verdicts, and no call on the
\* levels does to the plan what no call of the lifecycle does.
THEOREM LevelsImplementEngine == Spec => EP!Spec
<1>1. EP!LInv /\ [Next]_vars => [EP!Next]_(EP!vars)
  <2>1. EP!LInv => now \in Nat
    BY DEF EP!LInv, EP!TypeOK
  <2> QED
    BY <2>1, EngineStep
<1> QED
  BY <1>1, EngineInit, EngineInvariant, PTL DEF Spec, EP!Spec

=============================================================================
