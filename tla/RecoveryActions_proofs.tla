----------------------- MODULE RecoveryActions_proofs -----------------------
(***************************************************************************)
(* Proofs of the action properties of RecoveryEngine: what no step of the  *)
(* engine does to a plan, for every policy, limit and bound; and that the  *)
(* engine implements PlanLifecycle, what a client sees of its plans.       *)
(***************************************************************************)
EXTENDS RecoveryLineage_proofs

-----------------------------------------------------------------------------
(* What a snapshot that leaves a mark does to the fields of a plan.        *)

LEMMA MarkedFields ==
  ASSUME TypeOK, NEW p \in Plans, OpenRecordOf(p), NEW q, NEW s \in Snapshots,
         Marked(p, q, s)
  PROVE  /\ IsLive(p) /\ HasStage(p) /\ p.revalidationRequired # TRUE
         /\ q.epoch = p.epoch /\ q.policyGen = p.policyGen
         /\ q.generation = p.generation
         /\ q.stageGen \in {p.stageGen, p.stageGen + 1}
         /\ Len(q.completions) \in {Len(p.completions), Len(p.completions) + 1}
<1>1. Verified(p, s) => Allowed(p, s)
  BY DEF Verified
<1>2. Allowed(p, s)
  BY <1>1 DEF Marked
<1>3. IsLive(p) /\ HasStage(p) /\ ~p.revalidationRequired
  BY <1>2, AllowedFacts
<1>4. p.revalidationRequired # TRUE
  BY <1>3
<1>5. CASE q = PartiallyApplied(p, s)
  BY <1>3, <1>4, <1>5, PartialEffect
<1>6. CASE q = Failed([p EXCEPT !.history = Closed(Opened(p), "SUCCEEDED", s.tick)])
  BY <1>3, <1>4, <1>6, FailedClosedEffect
<1>7. CASE q = Committed(p, s)
  BY <1>3, <1>4, <1>7, CommittedEffect
<1>8. CASE q = Failed(Climbed(p, s))
  BY <1>3, <1>4, <1>8, FailedClimbedEffect
<1>9. CASE Kind(p) # "COMPLETE" /\ q = Entered(Climbed(p, s), s)
  BY <1>3, <1>4, <1>9, AdvancedEffect
<1> QED
  BY <1>5, <1>6, <1>7, <1>8, <1>9 DEF Marked

-----------------------------------------------------------------------------
(* The revalidation flag.                                                  *)

\* A flagged plan makes no progress, and only a new generation clears the flag.
LEMMA FlagStep ==
  ASSUME TypeOK, NEW p \in Plans, OpenRecordOf(p), NEW q, Step(p, q),
         IsLive(p), p.revalidationRequired
  PROVE  /\ q.index = p.index /\ q.completions = p.completions
         /\ ~q.revalidationRequired /\ q.state # "FAILED" => q.generation > p.generation
<1>1. p.revalidationRequired = TRUE /\ p.generation \in Nat
  BY DEF Plans
<1>2. p.state # "ABSENT" /\ p.state \notin TerminalStates
  BY DEF IsLive, LiveStates, StageStates, TerminalStates
<1>3. CASE Quiet(p, q)
  BY <1>1, <1>3 DEF Quiet
<1>4. CASE q = RolledBack(p)
  BY <1>1, <1>4, RolledBackEffect
<1>5. CASE Revalidatable(p) /\ q = Revalidated(p)
  <2>1. /\ q.index = p.index /\ q.completions = p.completions
        /\ q.generation = p.generation + 1
    BY <1>5, RevalidatedEffect DEF Revalidatable
  <2> QED
    BY <1>1, <2>1
<1>6. CASE q \in {Failed(Rebound(p)), Failed([Rebound(p) EXCEPT !.generation = @ + 1])}
  BY <1>6, FailedReboundEffect
<1>7. ~\E s \in Snapshots : Marked(p, q, s)
  BY <1>1, MarkedFields
<1> QED
  BY <1>2, <1>3, <1>4, <1>5, <1>6, <1>7 DEF Step

\* A plan that must revalidate climbs no rung and completes nothing until it has.
THEOREM FlagCorrect == Spec => FlagBlocksProgress
<1> DEFINE A == \A i \in PlanIds :
                  LET p == plans[i]  q == plans'[i] IN
                  IsLive(p) /\ p.revalidationRequired =>
                    /\ q.index = p.index
                    /\ q.completions = p.completions
                    /\ ~q.revalidationRequired /\ q.state # "FAILED"
                         => q.generation > p.generation
<1>1. LInv /\ [Next]_vars => A
  <2> SUFFICES ASSUME LInv, [Next]_vars, NEW i \in PlanIds,
                      IsLive(plans[i]), plans[i].revalidationRequired
               PROVE  /\ plans'[i].index = plans[i].index
                      /\ plans'[i].completions = plans[i].completions
                      /\ ~plans'[i].revalidationRequired /\ plans'[i].state # "FAILED"
                           => plans'[i].generation > plans[i].generation
    OBVIOUS
  <2>1. TypeOK /\ plans[i] \in Plans /\ OpenRecordOf(plans[i])
    BY DEF LInv, Traced, TypeOK
  <2>2. Step(plans[i], plans'[i])
    BY <2>1, StepCases
  <2> QED
    BY <2>1, <2>2, FlagStep
<1> QED
  BY <1>1, LineageHolds, PTL DEF Spec, FlagBlocksProgress

\* The binding of a plan that stays live changes with the flag or the generation.
LEMMA BindingStep ==
  ASSUME TypeOK, NEW p \in Plans, OpenRecordOf(p), NEW q, Step(p, q),
         IsLive(p), IsLive(q), q.epoch # p.epoch \/ q.policyGen # p.policyGen
  PROVE  q.revalidationRequired \/ q.generation > p.generation
<1>1. p.generation \in Nat
  BY DEF Plans
<1>2. /\ p.state # "ABSENT" /\ p.state \notin TerminalStates
      /\ q.state # "FAILED"
  BY DEF IsLive, LiveStates, StageStates, TerminalStates
<1>3. CASE Quiet(p, q)
  BY <1>3 DEF Quiet
<1>4. CASE q = RolledBack(p)
  BY <1>4, RolledBackEffect
<1>5. CASE Revalidatable(p) /\ q = Revalidated(p)
  <2>1. q.generation = p.generation + 1
    BY <1>5, RevalidatedEffect DEF Revalidatable
  <2> QED
    BY <1>1, <2>1
<1>6. CASE q \in {Failed(Rebound(p)), Failed([Rebound(p) EXCEPT !.generation = @ + 1])}
  BY <1>2, <1>6, FailedReboundEffect
<1>7. ~\E s \in Snapshots : Marked(p, q, s)
  BY MarkedFields
<1> QED
  BY <1>2, <1>3, <1>4, <1>5, <1>6, <1>7 DEF Step

\* No epoch change, policy change or restart adopts a live plan as it was.
THEOREM ReboundCorrect == Spec => ReboundOnlyByRevalidation
<1> DEFINE A == \A i \in PlanIds :
                  LET p == plans[i]  q == plans'[i] IN
                  /\ IsLive(p) /\ IsLive(q)
                  /\ q.epoch # p.epoch \/ q.policyGen # p.policyGen
                  => q.revalidationRequired \/ q.generation > p.generation
<1>1. LInv /\ [Next]_vars => A
  <2> SUFFICES ASSUME LInv, [Next]_vars, NEW i \in PlanIds,
                      IsLive(plans[i]), IsLive(plans'[i]),
                      plans'[i].epoch # plans[i].epoch \/ plans'[i].policyGen # plans[i].policyGen
               PROVE  plans'[i].revalidationRequired
                        \/ plans'[i].generation > plans[i].generation
    OBVIOUS
  <2>1. TypeOK /\ plans[i] \in Plans /\ OpenRecordOf(plans[i])
    BY DEF LInv, Traced, TypeOK
  <2>2. Step(plans[i], plans'[i])
    BY <2>1, StepCases
  <2> QED
    BY <2>1, <2>2, BindingStep
<1> QED
  BY <1>1, LineageHolds, PTL DEF Spec, ReboundOnlyByRevalidation

-----------------------------------------------------------------------------
(* Nothing regresses.                                                      *)

\* A plan created in an empty slot.
LEMMA NewPlanGrows ==
  ASSUME NEW p, NEW q, p = NoPlan, q = NewPlan
  PROVE  /\ q.generation = 1 /\ q.stageGen = 1 /\ q.index = 0
         /\ p.generation = 0 /\ p.stageGen = 0 /\ p.index = 0
         /\ p.history = <<>> /\ p.completions = <<>>
         /\ Len(q.history) = 1 /\ q.completions = <<>>
<1>1. /\ q.generation = 1 /\ q.stageGen = 1 /\ q.index = 0 /\ q.completions = <<>>
      /\ q.history = <<[index |-> 0, generation |-> 1, attempt |-> 1,
                        outcome |-> "PENDING", exited |-> 0]>>
  BY DEF NewPlan, NoPlan
<1>2. /\ p.generation = 0 /\ p.stageGen = 0 /\ p.index = 0
      /\ p.history = <<>> /\ p.completions = <<>>
  BY DEF NoPlan
<1>3. Len(q.history) = 1
  BY <1>1
<1> QED
  BY <1>1, <1>2, <1>3

\* The generations and the completions of a plan.
LEMMA GrowthStep ==
  ASSUME TypeOK, NEW p \in Plans, OpenRecordOf(p), EmptyOf(p), NEW q, Step(p, q),
         q.state # "ABSENT"
  PROVE  /\ q.generation >= p.generation /\ q.stageGen >= p.stageGen
         /\ Len(q.completions) >= Len(p.completions)
<1>1. p.generation \in Nat /\ p.stageGen \in Nat /\ Len(p.completions) \in Nat
  BY DEF Plans
<1>2. ASSUME q.generation \in {p.generation, p.generation + 1},
             q.stageGen \in {p.stageGen, p.stageGen + 1},
             Len(q.completions) \in {Len(p.completions), Len(p.completions) + 1}
      PROVE  /\ q.generation >= p.generation /\ q.stageGen >= p.stageGen
             /\ Len(q.completions) >= Len(p.completions)
  BY <1>1, <1>2
<1>3. CASE Quiet(p, q)
  BY <1>2, <1>3 DEF Quiet
<1>4. q # NoPlan
  BY DEF NoPlan
<1>5. CASE p.state = "ABSENT" /\ q = NewPlan
  <2>1. p = NoPlan
    BY <1>5 DEF EmptyOf
  <2>2. /\ q.generation = 1 /\ q.stageGen = 1 /\ p.generation = 0 /\ p.stageGen = 0
        /\ p.completions = <<>> /\ q.completions = <<>>
    BY <1>5, <2>1, NewPlanGrows
  <2> QED
    BY <1>2, <2>2
<1>6. CASE q = RolledBack(p)
  BY <1>2, <1>6, RolledBackEffect
<1>7. CASE Revalidatable(p) /\ q = Revalidated(p)
  BY <1>2, <1>7, RevalidatedEffect DEF Revalidatable
<1>8. CASE q \in {Failed(Rebound(p)), Failed([Rebound(p) EXCEPT !.generation = @ + 1])}
  <2>1. q.generation >= p.generation /\ q.stageGen = p.stageGen /\ q.completions = p.completions
    BY <1>8, FailedReboundEffect
  <2> QED
    BY <1>1, <2>1
<1>9. ASSUME NEW s \in Snapshots, Marked(p, q, s)
      PROVE  /\ q.generation >= p.generation /\ q.stageGen >= p.stageGen
             /\ Len(q.completions) >= Len(p.completions)
  BY <1>2, <1>9, MarkedFields
<1> QED
  BY <1>3, <1>4, <1>5, <1>6, <1>7, <1>8, <1>9 DEF Step

\* The rung and the stage records of a plan.
LEMMA RungStep ==
  ASSUME TypeOK, NEW p \in Plans, OpenRecordOf(p), EmptyOf(p), NEW q \in Plans, Step(p, q),
         q.state # "ABSENT"
  PROVE  /\ Len(q.history) >= Len(p.history)
         /\ q.index \in {p.index, p.index + 1}
         /\ q.index # p.index => q.updated > p.updated \/ Dwell = 0 \/ q.state = "FAILED"
<1>1. /\ Len(p.history) \in Nat /\ Len(q.history) \in Nat
      /\ p.updated \in Nat /\ q.updated \in Nat /\ Dwell \in Nat
  <2>1. p.updated \in Nat /\ p.history \in Seq(StageRecords)
    BY DEF Plans
  <2>2. q.updated \in Nat /\ q.history \in Seq(StageRecords)
    BY DEF Plans
  <2> QED
    BY <2>1, <2>2, PolicyAssumption
<1>2. CASE Still(p, q)
  BY <1>2 DEF Still, Kept
<1>3. ASSUME NEW t \in Nat, Advanced(p, q, t)
      PROVE  /\ Len(q.history) >= Len(p.history)
             /\ q.index \in {p.index, p.index + 1}
             /\ q.updated > p.updated \/ Dwell = 0 \/ q.state = "FAILED"
  <2>1. /\ Len(q.history) >= Len(p.history) /\ q.index \in {p.index, p.index + 1}
        /\ p.updated <= t /\ t - p.updated >= Dwell
        /\ q.state = "FAILED" \/ q.updated = t
    BY <1>3 DEF Advanced, Left
  <2>2. q.updated = t => q.updated > p.updated \/ Dwell = 0
    BY <1>1, <2>1
  <2> QED
    BY <2>1, <2>2
<1>4. CASE p.state = "ABSENT" /\ q = NewPlan
  <2>1. p = NoPlan
    BY <1>4 DEF EmptyOf
  <2>2. Len(q.history) = 1 /\ p.history = <<>> /\ q.index = 0 /\ p.index = 0
    BY <1>4, <2>1, NewPlanGrows
  <2>3. Len(p.history) = 0
    BY <2>2
  <2> QED
    BY <2>2, <2>3
<1>5. q # NoPlan
  BY DEF NoPlan
<1> QED
  BY <1>2, <1>3, <1>4, <1>5, StepMoves

\* Nothing a plan is identified by ever regresses, and its lineage only grows.
THEOREM GrowthCorrect == Spec => NeverRegresses
<1> DEFINE A == \A i \in PlanIds :
                  LET p == plans[i]  q == plans'[i] IN
                  q.state # "ABSENT" =>
                    /\ q.generation >= p.generation /\ q.stageGen >= p.stageGen
                    /\ q.index \in {p.index, p.index + 1}
                    /\ q.index # p.index =>
                         q.updated > p.updated \/ Dwell = 0 \/ q.state = "FAILED"
                    /\ q.epoch >= p.epoch /\ q.policyGen >= p.policyGen
                    /\ q.updated >= p.updated
                    /\ Len(q.history) >= Len(p.history)
                    /\ Len(q.completions) >= Len(p.completions)
<1>1. LInv /\ [Next]_vars => A
  <2> SUFFICES ASSUME LInv, [Next]_vars PROVE A
    OBVIOUS
  <2> SUFFICES ASSUME NEW i \in PlanIds, plans'[i].state # "ABSENT"
               PROVE  LET p == plans[i]  q == plans'[i] IN
                      /\ q.generation >= p.generation /\ q.stageGen >= p.stageGen
                      /\ q.index \in {p.index, p.index + 1}
                      /\ q.index # p.index =>
                           q.updated > p.updated \/ Dwell = 0 \/ q.state = "FAILED"
                      /\ q.epoch >= p.epoch /\ q.policyGen >= p.policyGen
                      /\ q.updated >= p.updated
                      /\ Len(q.history) >= Len(p.history)
                      /\ Len(q.completions) >= Len(p.completions)
    OBVIOUS
  <2> DEFINE p == plans[i]
             q == plans'[i]
  <2>1. TypeOK /\ TypeOK' /\ OpenRecordOf(p) /\ EmptyOf(p)
    BY TypeStep DEF LInv, Traced
  <2>2. p \in Plans /\ q \in Plans /\ q.state # "ABSENT"
    BY <2>1 DEF TypeOK
  <2>3. Step(p, q)
    BY <2>1, StepCases
  <2>4. Timely(p, q)
    BY TracedStep
  <2> HIDE DEF p, q
  <2>5. /\ q.generation >= p.generation /\ q.stageGen >= p.stageGen
        /\ Len(q.completions) >= Len(p.completions)
    BY <2>1, <2>2, <2>3, GrowthStep
  <2>6. /\ Len(q.history) >= Len(p.history)
        /\ q.index \in {p.index, p.index + 1}
        /\ q.index # p.index => q.updated > p.updated \/ Dwell = 0 \/ q.state = "FAILED"
    BY <2>1, <2>2, <2>3, RungStep
  <2>7. q.epoch >= p.epoch /\ q.policyGen >= p.policyGen /\ q.updated >= p.updated
    BY <2>2, <2>4 DEF Timely
  <2> QED
    BY <2>5, <2>6, <2>7 DEF p, q
<1> QED
  BY <1>1, LineageHolds, PTL DEF Spec, NeverRegresses

-----------------------------------------------------------------------------
(* Terminal plans.  A policy that loses rungs can take a completed plan's  *)
(* rung away, and revalidating the plan then fails it: without that, no    *)
(* terminal plan ever changes.                                             *)

\* A replacement policy has as many rungs as the one before it, or more.
LaddersGrow ==
  \A g, h \in PolicyGens : g <= h => Len(Ladder[g]) <= Len(Ladder[h])

\* Every plan stands on a rung of the stored policy.
OnLadder == \A i \in PlanIds : plans[i].state # "ABSENT" => HasStage(plans[i])

LEMMA OnLadderStep ==
  ASSUME LaddersGrow, LInv, OnLadder, [Next]_vars
  PROVE  OnLadder'
<1> SUFFICES ASSUME NEW i \in PlanIds, plans'[i].state # "ABSENT"
             PROVE  HasStage(plans[i])'
  BY DEF OnLadder
<1> DEFINE p == plans[i]
           q == plans'[i]
<1>1. TypeOK /\ TypeOK' /\ OpenRecordOf(p) /\ (p.state # "ABSENT" => HasStage(p))
  BY TypeStep DEF LInv, Traced, OnLadder
<1>2. p \in Plans /\ q \in Plans /\ q.state # "ABSENT"
  BY <1>1 DEF TypeOK
<1>3. Step(p, q) /\ policyGen' >= policyGen
  BY <1>1, StepCases
<1> HIDE DEF p, q
<1>4. Len(Ladder[policyGen]) <= Len(Ladder[policyGen'])
  <2>1. policyGen \in PolicyGens /\ policyGen' \in PolicyGens
    BY <1>1 DEF TypeOK
  <2>2. policyGen <= policyGen'
    BY <1>3, <2>1 DEF PolicyGens
  <2> QED
    BY <2>1, <2>2 DEF LaddersGrow
<1>5. /\ Len(Ladder[policyGen]) \in Nat /\ Len(Ladder[policyGen]) >= 2
      /\ Len(Ladder[policyGen']) \in Nat /\ q.index \in Nat /\ p.index \in Nat
  <2>1. policyGen \in PolicyGens /\ policyGen' \in PolicyGens
    BY <1>1 DEF TypeOK
  <2>2. \A g \in PolicyGens : Len(Ladder[g]) \in Nat /\ Len(Ladder[g]) >= 2
    BY LadderAssumption DEF ValidLadder
  <2> QED
    BY <1>2, <2>1, <2>2 DEF Plans
<1>6. q.index < Len(Ladder[policyGen])
  <2>1. CASE p.state # "ABSENT" /\ q.index = p.index
    BY <1>1, <2>1 DEF HasStage
  <2>2. CASE p.state = "ABSENT" /\ q = NewPlan
    <3>1. q.index = 0
      BY <2>2 DEF NewPlan, NoPlan
    <3> QED
      BY <1>5, <3>1
  <2>3. ASSUME NEW s \in Snapshots, Marked(p, q, s) PROVE q.index < Len(Ladder[policyGen])
    <3>1. HasStage(p)
      BY <1>1, <1>2, <2>3, MarkedFields
    <3>2. CASE q = PartiallyApplied(p, s)
      BY <1>2, <3>1, <3>2, PartialEffect DEF HasStage
    <3>3. CASE q = Failed([p EXCEPT !.history = Closed(Opened(p), "SUCCEEDED", s.tick)])
      BY <1>1, <1>2, <3>1, <3>3, FailedClosedEffect DEF HasStage
    <3>4. CASE q = Committed(p, s)
      BY <1>1, <1>2, <3>1, <3>4, CommittedEffect DEF HasStage
    <3>5. CASE Kind(p) # "COMPLETE" /\ q \in {Failed(Climbed(p, s)), Entered(Climbed(p, s), s)}
      <4>1. HasStage(Climbed(p, s)) /\ Climbed(p, s).index = p.index + 1
        BY <1>1, <1>2, <3>1, <3>5, NextRung, ClimbedEffect
      <4>2. q.index = p.index + 1
        BY <1>1, <1>2, <3>1, <3>5, FailedClimbedEffect, AdvancedEffect
      <4> QED
        BY <4>1, <4>2 DEF HasStage
    <3> QED
      BY <2>3, <3>2, <3>3, <3>4, <3>5 DEF Marked
  <2>4. q # NoPlan
    BY <1>2 DEF NoPlan
  <2>5. CASE Quiet(p, q)
    <3>1. p.state # "ABSENT" /\ q.index = p.index
      BY <1>2, <2>5 DEF Quiet
    <3> QED
      BY <2>1, <3>1
  <2>6. CASE IsLive(p) /\ q = RolledBack(p)
    <3>1. p.state # "ABSENT" /\ q.index = p.index
      BY <1>1, <1>2, <2>6, RolledBackEffect DEF IsLive, LiveStates, StageStates
    <3> QED
      BY <2>1, <3>1
  <2>7. CASE Revalidatable(p) /\ q = Revalidated(p)
    <3>1. HasStage(p) /\ q.index = p.index
      BY <1>1, <1>2, <2>7, RevalidatedEffect DEF Revalidatable
    <3> QED
      BY <3>1 DEF HasStage
  <2>8. CASE /\ Revalidatable(p)
             /\ q \in {Failed(Rebound(p)), Failed([Rebound(p) EXCEPT !.generation = @ + 1])}
    <3>1. HasStage(p) /\ q.index = p.index
      BY <1>2, <2>8, FailedReboundEffect DEF Revalidatable
    <3> QED
      BY <3>1 DEF HasStage
  <2> QED
    BY <1>3, <2>2, <2>3, <2>4, <2>5, <2>6, <2>7, <2>8 DEF Step
<1>7. q.index < Len(Ladder[policyGen'])
  BY <1>4, <1>5, <1>6
<1> QED
  BY <1>7 DEF HasStage, q

\* A terminal plan on a rung of the stored policy stays as it is or is erased.
LEMMA TerminalStep ==
  ASSUME TypeOK, NEW p \in Plans, OpenRecordOf(p), NEW q, Step(p, q),
         p.state \in TerminalStates, HasStage(p)
  PROVE  \/ q.state = "ABSENT"
         \/ q.state = p.state /\ q.index = p.index /\ q.completions = p.completions
<1>1. ~IsLive(p) /\ p.state # "ABSENT"
  BY DEF IsLive, LiveStates, StageStates, TerminalStates
<1>2. CASE Quiet(p, q)
  BY <1>1, <1>2 DEF Quiet
<1>3. CASE q = NoPlan
  BY <1>3 DEF NoPlan
<1>4. ~\E s \in Snapshots : Marked(p, q, s)
  BY <1>1, MarkedFields
<1> QED
  BY <1>1, <1>2, <1>3, <1>4 DEF Step, Revalidatable

\* When no policy loses rungs, terminal plans never change state.  Without that
\* hypothesis they do, see the run TerminalRevalidated.
THEOREM TerminalCorrect ==
  ASSUME LaddersGrow
  PROVE  Spec => TerminalIsFinal
<1> DEFINE A == \A i \in PlanIds :
                  plans[i].state \in TerminalStates =>
                    \/ plans'[i].state = "ABSENT"
                    \/ /\ plans'[i].state = plans[i].state
                       /\ plans'[i].index = plans[i].index
                       /\ plans'[i].completions = plans[i].completions
<1>1. Init => OnLadder
  BY DEF Init, OnLadder, NoPlan
<1>2. LInv /\ OnLadder /\ [Next]_vars => OnLadder'
  BY OnLadderStep
<1>3. LInv /\ OnLadder /\ [Next]_vars => A
  <2> SUFFICES ASSUME LInv, OnLadder, [Next]_vars, NEW i \in PlanIds,
                      plans[i].state \in TerminalStates
               PROVE  \/ plans'[i].state = "ABSENT"
                      \/ /\ plans'[i].state = plans[i].state
                         /\ plans'[i].index = plans[i].index
                         /\ plans'[i].completions = plans[i].completions
    OBVIOUS
  <2>1. /\ TypeOK /\ plans[i] \in Plans /\ OpenRecordOf(plans[i])
        /\ HasStage(plans[i])
    BY DEF LInv, Traced, TypeOK, OnLadder, TerminalStates
  <2>2. Step(plans[i], plans'[i])
    BY <2>1, StepCases
  <2> QED
    BY <2>1, <2>2, TerminalStep
<1> QED
  BY <1>1, <1>2, <1>3, LineageHolds, PTL DEF Spec, TerminalIsFinal

-----------------------------------------------------------------------------
(* The engine implements PlanLifecycle: what each step does to the view.   *)

\* What a plan shows of itself.
LEMMA ViewFields ==
  ASSUME NEW p
  PROVE  View(p).phase = Phase(p) /\ View(p).rung = p.index /\ View(p).term = p.generation
BY DEF View, Lifecycle!At

\* The phase of a plan, by its state and its flag.
LEMMA PhaseFacts ==
  ASSUME NEW p \in Plans
  PROVE  /\ p.state = "ABSENT" => Phase(p) = "none"
         /\ p.state = "COMPLETED" => Phase(p) = "completed"
         /\ p.state = "FAILED" => Phase(p) = "failed"
         /\ IsLive(p) /\ p.revalidationRequired = TRUE => Phase(p) = "stale"
         /\ IsLive(p) /\ p.revalidationRequired = FALSE =>
              /\ p.state \in {"PAUSED", "ROLLING_BACK"} => Phase(p) = "held"
              /\ p.state \notin {"PAUSED", "ROLLING_BACK"} => Phase(p) = "moving"
<1>1. p.revalidationRequired \in BOOLEAN
  BY Zenon DEF Plans
<1>2. /\ p.state = "ABSENT" => ~IsLive(p)
      /\ p.state = "COMPLETED" => ~IsLive(p)
      /\ p.state = "FAILED" => ~IsLive(p)
  BY DEF IsLive, LiveStates, StageStates
<1>3. IsLive(p) => p.state \notin {"ABSENT", "COMPLETED", "FAILED"}
  BY <1>2
<1>4. p.state = "ABSENT" => Phase(p) = "none"
  BY <1>2 DEF Phase
<1>5. p.state = "COMPLETED" => Phase(p) = "completed"
  BY <1>2 DEF Phase
<1>6. p.state = "FAILED" => Phase(p) = "failed"
  BY <1>2 DEF Phase
<1>7. IsLive(p) /\ p.revalidationRequired = TRUE => Phase(p) = "stale"
  BY <1>3 DEF Phase
<1>8. ASSUME IsLive(p), p.revalidationRequired = FALSE
      PROVE  Phase(p) = IF p.state \in {"PAUSED", "ROLLING_BACK"} THEN "held" ELSE "moving"
  BY <1>3, <1>8 DEF Phase
<1> QED
  BY <1>4, <1>5, <1>6, <1>7, <1>8

\* A plan is live when its phase says so.
LEMMA LivePhase ==
  ASSUME NEW p \in Plans
  PROVE  /\ IsLive(p) <=> Lifecycle!Live(View(p))
         /\ IsLive(p) <=> Phase(p) \in {"moving", "held", "stale"}
         /\ p.state = "ABSENT" <=> Phase(p) = "none"
         /\ p.state \in TerminalStates <=> Phase(p) \in {"completed", "failed"}
<1>1. p.state \in RecoveryStates \cup {"ABSENT"} /\ p.revalidationRequired \in BOOLEAN
  BY Zenon DEF Plans
<1>2. IsLive(p) \/ p.state \in {"ABSENT", "COMPLETED", "FAILED"}
  BY <1>1 DEF IsLive, RecoveryStates, TerminalStates
<1>3. IsLive(p) => p.state \notin {"ABSENT", "COMPLETED", "FAILED"}
  BY DEF IsLive, LiveStates, StageStates
<1>4. IsLive(p) => Phase(p) \in {"moving", "held", "stale"}
  BY <1>1, PhaseFacts
<1>5. /\ p.state = "ABSENT" => Phase(p) = "none"
      /\ p.state = "COMPLETED" => Phase(p) = "completed"
      /\ p.state = "FAILED" => Phase(p) = "failed"
  BY PhaseFacts
<1>6. IsLive(p) <=> Phase(p) \in {"moving", "held", "stale"}
  BY <1>2, <1>3, <1>4, <1>5
<1>7. /\ p.state = "ABSENT" <=> Phase(p) = "none"
      /\ p.state \in TerminalStates <=> Phase(p) \in {"completed", "failed"}
  BY <1>2, <1>3, <1>4, <1>5 DEF TerminalStates
<1> QED
  BY <1>6, <1>7, ViewFields DEF Lifecycle!Live

\* Two plans whose phases, rungs and terms agree look the same.
LEMMA SameView ==
  ASSUME NEW p, NEW q, Phase(q) = Phase(p), q.index = p.index, q.generation = p.generation
  PROVE  View(q) = View(p)
BY DEF View, Lifecycle!At

\* A plan that changes its phase only.
LEMMA OtherPhase ==
  ASSUME NEW p, NEW q, q.index = p.index, q.generation = p.generation
  PROVE  View(q) = Lifecycle!At(Phase(q), View(p).rung, View(p).term)
BY DEF View, Lifecycle!At

\* Flagging a live plan makes its view stale, whatever else stays.
LEMMA FlaggedView ==
  ASSUME NEW p \in Plans, NEW q \in Plans, q.index = p.index, q.generation = p.generation,
         \/ q.state = p.state /\ q.revalidationRequired = p.revalidationRequired /\ ~IsLive(p)
         \/ IsLive(p) /\ IsLive(q) /\ q.revalidationRequired = TRUE
  PROVE  View(q) = Lifecycle!Stale(View(p))
<1>1. CASE IsLive(p)
  <2>1. IsLive(q) /\ q.revalidationRequired = TRUE
    BY <1>1
  <2>2. Phase(q) = "stale"
    BY <2>1, PhaseFacts
  <2> QED
    BY <1>1, <2>2, LivePhase, OtherPhase DEF Lifecycle!Stale
<1>2. CASE ~IsLive(p)
  <2>1. q.state = p.state /\ q.revalidationRequired = p.revalidationRequired
    BY <1>2
  <2>2. Phase(q) = Phase(p)
    BY <2>1 DEF Phase, IsLive
  <2> QED
    BY <1>2, <2>2, LivePhase, SameView DEF Lifecycle!Stale
<1> QED
  BY <1>1, <1>2

\* An invalidated plan is stale, and so is an imported one.
LEMMA InvalidatedView ==
  ASSUME NEW p \in Plans
  PROVE  View(Invalidated(p)) = Lifecycle!Stale(View(p))
<1> DEFINE q == Invalidated(p)
<1>1. /\ q \in Plans /\ SameButFlag(p, q)
      /\ IsLive(q) => q.revalidationRequired = TRUE
      /\ ~IsLive(p) => q = p
  BY InvalidatedType, InvalidatedFields
<1> HIDE DEF q
<1>2. q.index = p.index /\ q.generation = p.generation
  BY <1>1 DEF SameButFlag
<1>3. IsLive(p) => IsLive(q) /\ q.revalidationRequired = TRUE
  BY <1>1 DEF SameButFlag, IsLive
<1> QED
  BY <1>1, <1>2, <1>3, FlaggedView DEF q

LEMMA ImportedView ==
  ASSUME NEW p \in Plans, NEW e \in Nat
  PROVE  View(Imported(p, e)) = Lifecycle!Stale(View(p))
<1>1. CASE p.state = "ABSENT"
  <2>1. Imported(p, e) = p /\ ~IsLive(p)
    BY <1>1 DEF Imported, IsLive, LiveStates, StageStates
  <2> QED
    BY <2>1, FlaggedView
<1>2. CASE p.state # "ABSENT"
  <2> DEFINE d == Invalidated(p)
             n == IF IsLive(p) THEN 1 ELSE d.notes
             q == [d EXCEPT !.epoch = e, !.notes = n]
  <2>1. d \in Plans
    BY InvalidatedType
  <2>2. Imported(p, e) = q
    BY <1>2, <2>1 DEF Imported, Plans
  <2> HIDE DEF d, n
  <2>3. /\ q.state = d.state /\ q.revalidationRequired = d.revalidationRequired
        /\ q.index = d.index /\ q.generation = d.generation
    BY <2>1 DEF Plans
  <2> HIDE DEF q
  <2>4. Phase(q) = Phase(d)
    BY <2>3 DEF Phase, IsLive
  <2>5. View(q) = View(d)
    BY <2>3, <2>4, SameView
  <2> QED
    BY <2>2, <2>5, InvalidatedView DEF d
<1> QED
  BY <1>1, <1>2

-----------------------------------------------------------------------------
(* The rungs a policy has, as PlanLifecycle counts them.                   *)

LEMMA HasRung ==
  ASSUME TypeOK, NEW rung
  PROVE  Lifecycle!Has(rung) <=> rung < Len(Ladder[policyGen])
BY DEF TypeOK, Lifecycle!Has

\* The COMPLETE rung is the last one of a ladder, and no other rung is.
LEMMA LastRung ==
  ASSUME TypeOK, NEW p \in Plans, HasStage(p)
  PROVE  /\ Lifecycle!Has(p.index)
         /\ Lifecycle!Has(p.index + 1) <=> Kind(p) # "COMPLETE"
<1> DEFINE l == Ladder[policyGen]
           k == p.index + 1
<1>1. /\ l \in Seq(StageKinds) /\ l[Len(l)] = "COMPLETE"
      /\ \A i, j \in 1..Len(l) : i < j => KindRank[l[i]] < KindRank[l[j]]
  BY LadderAssumption DEF TypeOK, ValidLadder
<1>2. Len(l) \in Nat /\ p.index \in Nat /\ p.index < Len(l)
  <2>1. p.index \in Nat
    BY Zenon DEF Plans
  <2> QED
    BY <1>1, <2>1 DEF HasStage
<1>3. Lifecycle!Has(p.index) /\ (Lifecycle!Has(k) <=> k < Len(l))
  BY <1>2, HasRung
<1>4. Kind(p) = l[k]
  BY DEF Kind
<1> HIDE DEF l
<1>5. k \in 1..Len(l) /\ Len(l) \in 1..Len(l)
  BY <1>2
<1>6. ASSUME k < Len(l) PROVE l[k] # "COMPLETE"
  <2>1. KindRank[l[k]] < KindRank[l[Len(l)]]
    BY <1>1, <1>5, <1>6
  <2>2. KindRank["COMPLETE"] \in Int
    BY DEF KindRank, StageKinds
  <2>3. KindRank[l[k]] # KindRank["COMPLETE"]
    BY <1>1, <2>1, <2>2
  <2> QED
    BY <2>3
<1>7. ~(k < Len(l)) => k = Len(l)
  BY <1>2
<1>8. ~(k < Len(l)) => l[k] = "COMPLETE"
  BY <1>1, <1>7
<1> HIDE DEF k
<1>9. k < Len(l) <=> Kind(p) # "COMPLETE"
  BY <1>4, <1>6, <1>8
<1> QED
  BY <1>3, <1>9 DEF k

\* A plan that fails for want of a generation has at most taken the next one.
LEMMA FailedReboundTerm ==
  ASSUME NEW p \in Plans, NEW q,
         q \in {Failed(Rebound(p)), Failed([Rebound(p) EXCEPT !.generation = @ + 1])}
  PROVE  q.generation \in {p.generation, p.generation + 1}
<1> DEFINE b == Rebound(p)
           g == b.generation + 1
           c == [b EXCEPT !.generation = g]
<1>1. Failed(b).generation = p.generation /\ Failed(c).generation = p.generation + 1
  BY DEF Failed, Rebound, Plans
<1> QED
  BY <1>1

-----------------------------------------------------------------------------
(* What one step does to the view of one plan.                             *)

Turned(v, w) ==
  \/ w = v
  \/ w = Lifecycle!Stale(v)
  \/ v.phase = "none" /\ w = Lifecycle!At("moving", 0, 1)
  \/ v.phase \in {"completed", "failed"} /\ w = Lifecycle!Nothing
  \/ v.phase = "moving" /\ w = Lifecycle!At("held", v.rung, v.term)
  \/ v.phase = "held" /\ w = Lifecycle!At("moving", v.rung, v.term)
  \/ /\ v.phase = "moving" /\ Lifecycle!Has(v.rung + 1)
     /\ w = Lifecycle!At("moving", v.rung + 1, v.term)
  \/ /\ v.phase = "moving" /\ Lifecycle!Has(v.rung) /\ ~Lifecycle!Has(v.rung + 1)
     /\ w = Lifecycle!At("completed", v.rung, v.term)
  \/ /\ Lifecycle!Live(v) /\ Lifecycle!Has(v.rung)
     /\ w = Lifecycle!At("moving", v.rung, v.term + 1)
  \/ /\ Lifecycle!Live(v)
     /\ w \in {Lifecycle!At("failed", v.rung, v.term), Lifecycle!At("failed", v.rung, v.term + 1)}
  \/ /\ v.phase = "moving" /\ Lifecycle!Has(v.rung + 1)
     /\ w = Lifecycle!At("failed", v.rung + 1, v.term)
  \/ /\ v.phase = "completed" /\ ~Lifecycle!Has(v.rung)
     /\ w = Lifecycle!At("failed", v.rung, v.term)

\* A live plan that stays live on its rung and in its term, and keeps its flag if it
\* has one, is held, released or made stale.
LEMMA LiveTurned ==
  ASSUME NEW p \in Plans, NEW q \in Plans, IsLive(p), IsLive(q),
         q.index = p.index, q.generation = p.generation,
         q.revalidationRequired \in {p.revalidationRequired, TRUE}
  PROVE  Turned(View(p), View(q))
<1>1. p.revalidationRequired \in BOOLEAN /\ q.revalidationRequired \in BOOLEAN
  BY Zenon DEF Plans
<1>2. CASE q.revalidationRequired = TRUE
  BY <1>2, FlaggedView DEF Turned
<1>3. CASE q.revalidationRequired = FALSE
  <2>1. p.revalidationRequired = FALSE
    BY <1>1, <1>3
  <2>2. Phase(p) \in {"moving", "held"} /\ Phase(q) \in {"moving", "held"}
    BY <1>3, <2>1, PhaseFacts
  <2>3. Phase(q) = Phase(p) => View(q) = View(p)
    BY SameView
  <2>4. View(q) = Lifecycle!At(Phase(q), View(p).rung, View(p).term) /\ View(p).phase = Phase(p)
    BY OtherPhase, ViewFields
  <2> QED
    BY <2>2, <2>3, <2>4 DEF Turned
<1> QED
  BY <1>1, <1>2, <1>3

\* Failing a live plan on its rung, in its term or in the next one.
LEMMA FailedTurned ==
  ASSUME NEW p \in Plans, NEW q \in Plans, IsLive(p), q.state = "FAILED",
         q.index = p.index, q.generation \in {p.generation, p.generation + 1}
  PROVE  Turned(View(p), View(q))
<1>1. Phase(q) = "failed" /\ Lifecycle!Live(View(p))
  BY PhaseFacts, LivePhase
<1>2. \/ View(q) = Lifecycle!At("failed", View(p).rung, View(p).term)
      \/ View(q) = Lifecycle!At("failed", View(p).rung, View(p).term + 1)
  BY <1>1 DEF View, Lifecycle!At
<1> QED
  BY <1>1, <1>2 DEF Turned

\* A quiet step.
LEMMA QuietTurned ==
  ASSUME TypeOK, NEW p \in Plans, NEW q \in Plans, Quiet(p, q)
  PROVE  Turned(View(p), View(q))
<1>1. /\ q.index = p.index /\ q.generation = p.generation
      /\ q.revalidationRequired \in {p.revalidationRequired, TRUE}
  BY DEF Quiet
<1>2. CASE IsLive(p) /\ IsLive(q)
  BY <1>1, <1>2, LiveTurned
<1>3. CASE q.state = p.state /\ ~IsLive(p)
  <2>1. p.state \in TerminalStates \cup {"ABSENT"}
    BY <1>3 DEF Plans, RecoveryStates, IsLive
  <2>2. Phase(q) = Phase(p)
    BY <1>3, <2>1, PhaseFacts DEF TerminalStates
  <2> QED
    BY <1>1, <2>2, SameView DEF Turned
<1>4. CASE q.state = "FAILED" /\ IsLive(p)
  BY <1>1, <1>4, FailedTurned
<1>5. CASE q.state = "FAILED" /\ ~IsLive(p) /\ p.state # "ABSENT" /\ ~HasStage(p)
  <2>1. p.state \in TerminalStates
    BY <1>5 DEF Plans, RecoveryStates, IsLive
  <2>2. Phase(q) = "failed"
    BY <1>5, PhaseFacts
  <2>3. CASE p.state = "FAILED"
    BY <1>1, <2>2, <2>3, PhaseFacts, SameView DEF Turned
  <2>4. CASE p.state = "COMPLETED"
    <3>1. View(p).phase = "completed" /\ View(p).rung = p.index
      BY <2>4, PhaseFacts, ViewFields
    <3>2. ~Lifecycle!Has(View(p).rung)
      BY <1>5, <3>1, HasRung DEF HasStage
    <3>3. View(q) = Lifecycle!At("failed", View(p).rung, View(p).term)
      BY <1>1, <2>2, OtherPhase
    <3> QED
      BY <3>1, <3>2, <3>3 DEF Turned
  <2> QED
    BY <2>1, <2>3, <2>4 DEF TerminalStates
<1>6. q.state = p.state /\ IsLive(p) => IsLive(q)
  BY DEF IsLive
<1> QED
  BY <1>2, <1>3, <1>4, <1>5, <1>6 DEF Quiet

\* A snapshot that leaves a mark.
LEMMA MarkedTurned ==
  ASSUME TypeOK, NEW p \in Plans, NEW q \in Plans, OpenRecordOf(p), NEW s \in Snapshots,
         Marked(p, q, s)
  PROVE  Turned(View(p), View(q))
<1>1. Verified(p, s) => Allowed(p, s)
  BY DEF Verified
<1>2. Allowed(p, s)
  BY <1>1 DEF Marked
<1>3. /\ IsLive(p) /\ HasStage(p) /\ ~p.revalidationRequired
      /\ p.state \notin {"ROLLING_BACK", "PAUSED"}
  BY <1>2 DEF Allowed, Settled, Evaluated, Coherent
<1>4. p.revalidationRequired = FALSE
  <2>1. p.revalidationRequired \in BOOLEAN
    BY Zenon DEF Plans
  <2> QED
    BY <1>3, <2>1
<1>5. Phase(p) = "moving"
  BY <1>3, <1>4, PhaseFacts
<1>6. View(p).phase = "moving" /\ View(p).rung = p.index
  BY <1>5, ViewFields
<1>7. /\ Lifecycle!Has(View(p).rung)
      /\ Lifecycle!Has(View(p).rung + 1) <=> Kind(p) # "COMPLETE"
  BY <1>3, <1>6, LastRung
<1>8. CASE q = PartiallyApplied(p, s)
  <2>1. /\ q.index = p.index /\ q.generation = p.generation
        /\ q.revalidationRequired = p.revalidationRequired
        /\ q.state \in {p.state, "ROLLING_BACK"}
    BY <1>8, PartialEffect
  <2>2. IsLive(q)
    BY <1>3, <2>1 DEF IsLive, LiveStates
  <2> QED
    BY <1>3, <2>1, <2>2, LiveTurned
<1>9. CASE q = Failed([p EXCEPT !.history = Closed(Opened(p), "SUCCEEDED", s.tick)])
  <2>1. q.state = "FAILED" /\ q.index = p.index /\ q.generation = p.generation
    BY <1>9, FailedClosedEffect
  <2> QED
    BY <1>3, <2>1, FailedTurned
<1>10. CASE Kind(p) = "COMPLETE" /\ q = Committed(p, s)
  <2>1. q.state = "COMPLETED" /\ q.index = p.index /\ q.generation = p.generation
    BY <1>10, CommittedEffect
  <2>2. Phase(q) = "completed"
    BY <2>1, PhaseFacts
  <2>3. View(q) = Lifecycle!At(Phase(q), View(p).rung, View(p).term)
    BY <2>1, OtherPhase
  <2> QED
    BY <1>6, <1>7, <1>10, <2>2, <2>3 DEF Turned
<1>11. CASE Kind(p) # "COMPLETE" /\ q = Failed(Climbed(p, s))
  <2>1. q.state = "FAILED" /\ q.index = p.index + 1 /\ q.generation = p.generation
    BY <1>11, FailedClimbedEffect
  <2>2. View(q) = Lifecycle!At("failed", View(p).rung + 1, View(p).term)
    BY <2>1, PhaseFacts DEF View, Lifecycle!At
  <2> QED
    BY <1>6, <1>7, <1>11, <2>2 DEF Turned
<1>12. CASE Kind(p) # "COMPLETE" /\ q = Entered(Climbed(p, s), s)
  <2>1. /\ q.state \in StageStates /\ q.index = p.index + 1 /\ q.generation = p.generation
        /\ q.revalidationRequired = p.revalidationRequired
    BY <1>3, <1>12, AdvancedEffect
  <2>2. IsLive(q) /\ q.state \notin {"PAUSED", "ROLLING_BACK"}
    BY <2>1 DEF IsLive, LiveStates, StageStates
  <2>3. Phase(q) = Phase(p)
    BY <1>4, <1>5, <2>1, <2>2, PhaseFacts
  <2>4. View(q) = Lifecycle!At("moving", View(p).rung + 1, View(p).term)
    BY <1>5, <2>1, <2>3 DEF View, Lifecycle!At
  <2> QED
    BY <1>6, <1>7, <1>12, <2>4 DEF Turned
<1> QED
  BY <1>8, <1>9, <1>10, <1>11, <1>12 DEF Marked

\* Every step of a plan.
LEMMA StepTurned ==
  ASSUME TypeOK, NEW p \in Plans, NEW q \in Plans, OpenRecordOf(p), Step(p, q)
  PROVE  Turned(View(p), View(q))
<1>1. CASE Quiet(p, q)
  BY <1>1, QuietTurned
<1>2. CASE p.state \in TerminalStates /\ q = NoPlan
  <2>1. View(p).phase \in {"completed", "failed"}
    BY <1>2, LivePhase, ViewFields
  <2>2. q.state = "ABSENT" /\ q.index = 0 /\ q.generation = 0
    BY <1>2 DEF NoPlan
  <2>3. View(q) = Lifecycle!Nothing
    BY <2>2, PhaseFacts DEF View, Lifecycle!Nothing, Lifecycle!At
  <2> QED
    BY <2>1, <2>3 DEF Turned
<1>3. CASE p.state = "ABSENT" /\ q = NewPlan
  <2>1. View(p).phase = "none"
    BY <1>3, PhaseFacts, ViewFields
  <2>2. /\ q.state = StateForStage[Ladder[policyGen][1]] /\ q.index = 0 /\ q.generation = 1
        /\ q.revalidationRequired = FALSE
    BY <1>3 DEF NewPlan, NoPlan
  <2>3. q.state = "OBSERVING"
    BY <2>2, LadderAssumption DEF TypeOK, ValidLadder, StateForStage, StageKinds
  <2>4. IsLive(q)
    BY <2>3 DEF IsLive, LiveStates, StageStates
  <2>5. Phase(q) = "moving"
    BY <2>2, <2>3, <2>4, PhaseFacts
  <2>6. View(q) = Lifecycle!At("moving", 0, 1)
    BY <2>2, <2>5 DEF View, Lifecycle!At
  <2> QED
    BY <2>1, <2>6 DEF Turned
<1>4. CASE IsLive(p) /\ q = RolledBack(p)
  <2>1. /\ q.index = p.index /\ q.generation = p.generation
        /\ q.revalidationRequired = p.revalidationRequired
        /\ q.state \in {"ROLLED_BACK", "FAILED"}
    BY <1>4, RolledBackEffect
  <2>2. CASE q.state = "FAILED"
    BY <1>4, <2>1, <2>2, FailedTurned
  <2>3. CASE q.state = "ROLLED_BACK"
    <3>1. IsLive(q)
      BY <2>3 DEF IsLive, LiveStates
    <3> QED
      BY <1>4, <2>1, <3>1, LiveTurned
  <2> QED
    BY <2>1, <2>2, <2>3
<1>5. CASE Revalidatable(p) /\ q = Revalidated(p)
  <2>1. HasStage(p) /\ IsLive(p)
    BY <1>5 DEF Revalidatable
  <2>2. /\ q.state = StateForStage[Kind(p)] /\ q.index = p.index
        /\ q.generation = p.generation + 1 /\ q.revalidationRequired = FALSE
    BY <1>5, <2>1, RevalidatedEffect
  <2>3. q.state \in StageStates
    BY <2>1, <2>2, KindType DEF TypeOK
  <2>4. IsLive(q) /\ q.state \notin {"PAUSED", "ROLLING_BACK"}
    BY <2>3 DEF IsLive, LiveStates, StageStates
  <2>5. Phase(q) = "moving"
    BY <2>2, <2>4, PhaseFacts
  <2>6. View(q) = Lifecycle!At("moving", View(p).rung, View(p).term + 1)
    BY <2>2, <2>5 DEF View, Lifecycle!At
  <2>7. Lifecycle!Live(View(p)) /\ Lifecycle!Has(View(p).rung)
    BY <2>1, LivePhase, LastRung, ViewFields
  <2> QED
    BY <2>6, <2>7 DEF Turned
<1>6. CASE /\ Revalidatable(p)
           /\ q \in {Failed(Rebound(p)), Failed([Rebound(p) EXCEPT !.generation = @ + 1])}
  <2>1. IsLive(p)
    BY <1>6 DEF Revalidatable
  <2>2. q.state = "FAILED" /\ q.index = p.index
    BY <1>6, FailedReboundEffect
  <2>3. q.generation \in {p.generation, p.generation + 1}
    BY <1>6, FailedReboundTerm
  <2> QED
    BY <2>1, <2>2, <2>3, FailedTurned
<1>7. ASSUME NEW s \in Snapshots, Marked(p, q, s) PROVE Turned(View(p), View(q))
  BY <1>7, MarkedTurned
<1> QED
  BY <1>1, <1>2, <1>3, <1>4, <1>5, <1>6, <1>7 DEF Step

-----------------------------------------------------------------------------
(* What one step does to the views of all plans.                           *)

\* A plan that turned, while the others stayed as they were, took a step of
\* PlanLifecycle or none.
LEMMA TurnedIsStep ==
  ASSUME NEW i \in PlanIds, Turned(View(plans[i]), View(plans'[i])),
         UNCHANGED <<epoch, policyGen>>,
         \A j \in PlanIds : j # i => View(plans'[j]) = View(plans[j])
  PROVE  [Lifecycle!Next]_(Lifecycle!vars)
<1> DEFINE views == [j \in PlanIds |-> View(plans[j])]
           v == View(plans[i])
           w == View(plans'[i])
<1>1. views' = [views EXCEPT ![i] = w]
  OBVIOUS
<1>2. views[i] = v
  OBVIOUS
<1>3. Lifecycle!Becomes(i, w)
  BY <1>1 DEF Lifecycle!Becomes
<1>4. CASE w = v
  <2>1. views' = views
    BY <1>1, <1>4
  <2> QED
    BY <2>1 DEF Lifecycle!vars
<1>5. CASE w = Lifecycle!Stale(v)
  <2> DEFINE W == [j \in PlanIds |-> IF j \in {i} THEN Lifecycle!Stale(views[j]) ELSE views[j]]
  <2>1. views' = W
    BY <1>5
  <2>2. {i} \in SUBSET PlanIds
    OBVIOUS
  <2>3. Lifecycle!Doubt
    BY <2>1, <2>2 DEF Lifecycle!Doubt
  <2> QED
    BY <2>3 DEF Lifecycle!Next
<1>6. ASSUME ~(w = v), ~(w = Lifecycle!Stale(v))
      PROVE  \/ Lifecycle!Open(i) \/ Lifecycle!Close(i) \/ Lifecycle!Hold(i)
             \/ Lifecycle!Release(i) \/ Lifecycle!Climb(i) \/ Lifecycle!Complete(i)
             \/ Lifecycle!Renew(i) \/ Lifecycle!Fail(i) \/ Lifecycle!Withdraw(i)
  <2>1. CASE v.phase = "none" /\ w = Lifecycle!At("moving", 0, 1)
    BY <1>2, <1>3, <2>1 DEF Lifecycle!Open
  <2>2. CASE v.phase \in {"completed", "failed"} /\ w = Lifecycle!Nothing
    BY <1>2, <1>3, <2>2 DEF Lifecycle!Close
  <2>3. CASE v.phase = "moving" /\ w = Lifecycle!At("held", v.rung, v.term)
    BY <1>2, <1>3, <2>3 DEF Lifecycle!Hold
  <2>4. CASE v.phase = "held" /\ w = Lifecycle!At("moving", v.rung, v.term)
    BY <1>2, <1>3, <2>4 DEF Lifecycle!Release
  <2>5. CASE /\ v.phase = "moving" /\ Lifecycle!Has(v.rung + 1)
           /\ w = Lifecycle!At("moving", v.rung + 1, v.term)
    BY <1>2, <1>3, <2>5 DEF Lifecycle!Climb
  <2>6. CASE /\ v.phase = "moving" /\ Lifecycle!Has(v.rung) /\ ~Lifecycle!Has(v.rung + 1)
           /\ w = Lifecycle!At("completed", v.rung, v.term)
    BY <1>2, <1>3, <2>6 DEF Lifecycle!Complete
  <2>7. CASE /\ Lifecycle!Live(v) /\ Lifecycle!Has(v.rung)
           /\ w = Lifecycle!At("moving", v.rung, v.term + 1)
    BY <1>2, <1>3, <2>7 DEF Lifecycle!Renew
  <2>8. CASE /\ Lifecycle!Live(v)
           /\ w \in {Lifecycle!At("failed", v.rung, v.term),
                     Lifecycle!At("failed", v.rung, v.term + 1)}
    BY <1>2, <1>3, <2>8 DEF Lifecycle!Fail
  <2>9. CASE /\ v.phase = "moving" /\ Lifecycle!Has(v.rung + 1)
           /\ w = Lifecycle!At("failed", v.rung + 1, v.term)
    BY <1>2, <1>3, <2>9 DEF Lifecycle!Fail, Lifecycle!Live
  <2>10. CASE /\ v.phase = "completed" /\ ~Lifecycle!Has(v.rung)
           /\ w = Lifecycle!At("failed", v.rung, v.term)
    BY <1>2, <1>3, <2>10 DEF Lifecycle!Withdraw
  <2>11. Turned(v, w)
    OBVIOUS
  <2> HIDE DEF v, w
  <2> QED
    BY <1>6, <2>1, <2>2, <2>3, <2>4, <2>5, <2>6, <2>7, <2>8, <2>9, <2>10, <2>11 DEF Turned
<1> QED
  BY <1>4, <1>5, <1>6 DEF Lifecycle!Next

\* An epoch or a policy generation that grew, with every live plan made stale.
LEMMA AllStale ==
  ASSUME TypeOK, TypeOK', epoch' >= epoch, policyGen' >= policyGen,
         epoch' # epoch \/ policyGen' # policyGen,
         \A i \in PlanIds : View(plans'[i]) = Lifecycle!Stale(View(plans[i]))
  PROVE  Lifecycle!Next
<1> DEFINE views == [j \in PlanIds |-> View(plans[j])]
<1>1. views' = [i \in PlanIds |-> Lifecycle!Stale(views[i])]
  OBVIOUS
<1>2. /\ <<epoch', policyGen'>> # <<epoch, policyGen>>
      /\ <<epoch', policyGen'>>[1] >= <<epoch, policyGen>>[1]
      /\ <<epoch', policyGen'>>[2] >= <<epoch, policyGen>>[2]
  OBVIOUS
<1>3. Lifecycle!NewEra
  BY <1>1, <1>2 DEF Lifecycle!NewEra
<1> QED
  BY <1>3 DEF Lifecycle!Next

\* Every step of the engine is a step of PlanLifecycle, or leaves it as it is.
LEMMA LifecycleStep ==
  ASSUME LInv, [Next]_vars
  PROVE  [Lifecycle!Next]_(Lifecycle!vars)
<1>1. TypeOK /\ TypeOK' /\ \A i \in PlanIds : OpenRecordOf(plans[i]) /\ TimeOf(plans[i])
  BY TypeStep DEF LInv, Traced
<1>2. \A i \in PlanIds : plans[i] \in Plans /\ plans'[i] \in Plans
  BY <1>1 DEF TypeOK
<1>3. epoch \in Nat /\ policyGen \in Nat
  BY <1>1 DEF TypeOK, PolicyGens
<1>4. CASE UNCHANGED <<epoch, policyGen, plans>>
  BY <1>4 DEF Lifecycle!vars
<1>5. CASE BeginEpoch
  <2>1. PICK e \in (epoch + 1)..MaxEpoch :
          /\ epoch' = e
          /\ plans' = [i \in PlanIds |->
                         IF plans[i].epoch = e THEN plans[i] ELSE Invalidated(plans[i])]
          /\ UNCHANGED <<policyGen, now>>
    BY <1>5 DEF BeginEpoch
  <2>2. e \in Nat /\ e > epoch
    BY <1>3, <2>1, LimitAssumption
  <2>3. ASSUME NEW i \in PlanIds PROVE plans[i].epoch # e
    <3>1. plans[i].epoch \in Nat /\ plans[i].epoch <= epoch
      BY <1>1, <1>2, Zenon DEF Plans, TimeOf
    <3> QED
      BY <1>3, <2>2, <3>1
  <2>4. \A i \in PlanIds : View(plans'[i]) = Lifecycle!Stale(View(plans[i]))
    BY <1>2, <2>1, <2>3, InvalidatedView
  <2>5. epoch' >= epoch /\ epoch' # epoch /\ policyGen' >= policyGen
    BY <1>3, <2>1, <2>2
  <2> QED
    BY <1>1, <2>4, <2>5, AllStale
<1>6. CASE ReplacePolicy
  <2>1. PICK g \in PolicyGens :
          /\ g > policyGen
          /\ policyGen' = g
          /\ plans' = [i \in PlanIds |->
                         IF plans[i].policyGen = g THEN plans[i] ELSE Invalidated(plans[i])]
          /\ UNCHANGED <<epoch, now>>
    BY <1>6 DEF ReplacePolicy
  <2>2. g \in Nat /\ g > policyGen
    BY <2>1 DEF PolicyGens
  <2>3. ASSUME NEW i \in PlanIds PROVE plans[i].policyGen # g
    <3>1. plans[i].policyGen \in Nat /\ plans[i].policyGen <= policyGen
      BY <1>1, <1>2, Zenon DEF Plans, TimeOf
    <3> QED
      BY <1>3, <2>2, <3>1
  <2>4. \A i \in PlanIds : View(plans'[i]) = Lifecycle!Stale(View(plans[i]))
    BY <1>2, <2>1, <2>3, InvalidatedView
  <2>5. policyGen' >= policyGen /\ policyGen' # policyGen /\ epoch' >= epoch
    BY <1>3, <2>1, <2>2
  <2> QED
    BY <1>1, <2>4, <2>5, AllStale
<1>7. CASE ImportState
  <2>1. PICK e \in (epoch + 1)..MaxEpoch :
          /\ epoch' = e
          /\ plans' = [i \in PlanIds |-> Imported(plans[i], e)]
          /\ UNCHANGED <<policyGen, now>>
    BY <1>7 DEF ImportState
  <2>2. e \in Nat /\ e > epoch
    BY <1>3, <2>1, LimitAssumption
  <2>3. \A i \in PlanIds : View(plans'[i]) = Lifecycle!Stale(View(plans[i]))
    BY <1>2, <2>1, <2>2, ImportedView
  <2>4. epoch' >= epoch /\ epoch' # epoch /\ policyGen' >= policyGen
    BY <1>3, <2>1, <2>2
  <2> QED
    BY <1>1, <2>3, <2>4, AllStale
<1>8. CASE NotifyChange
  <2> DEFINE views == [j \in PlanIds |-> View(plans[j])]
  <2>1. PICK S \in SUBSET PlanIds :
          /\ plans' = [i \in PlanIds |-> IF i \in S THEN Invalidated(plans[i]) ELSE plans[i]]
          /\ UNCHANGED <<epoch, policyGen, now>>
    BY <1>8 DEF NotifyChange
  <2>2. \A i \in PlanIds :
          View(plans'[i]) = IF i \in S THEN Lifecycle!Stale(views[i]) ELSE views[i]
    BY <1>2, <2>1, InvalidatedView
  <2>3. views' = [i \in PlanIds |-> IF i \in S THEN Lifecycle!Stale(views[i]) ELSE views[i]]
    BY <2>2
  <2>4. Lifecycle!Doubt
    BY <2>1, <2>3 DEF Lifecycle!Doubt
  <2> QED
    BY <2>4 DEF Lifecycle!Next
<1>9. CASE \E i \in PlanIds : PlanNext(i)
  <2>1. PICK i \in PlanIds : PlanNext(i)
    BY <1>9
  <2>2. PICK q : Update(i, q) /\ Step(plans[i], q)
    BY <1>1, <2>1, PlanCases
  <2>3. /\ UNCHANGED <<epoch, policyGen>>
        /\ \A j \in PlanIds : plans'[j] = IF j = i THEN q ELSE plans[j]
    BY <1>1, <2>2 DEF Update, TypeOK
  <2>4. Turned(View(plans[i]), View(plans'[i]))
    BY <1>1, <1>2, <2>2, <2>3, StepTurned
  <2>5. \A j \in PlanIds : j # i => View(plans'[j]) = View(plans[j])
    BY <2>3
  <2> QED
    BY <2>3, <2>4, <2>5, TurnedIsStep
<1>10. UNCHANGED vars \/ Tick => UNCHANGED <<epoch, policyGen, plans>>
  BY DEF vars, Tick
<1> QED
  BY <1>4, <1>5, <1>6, <1>7, <1>8, <1>9, <1>10 DEF Next

\* The engine implements PlanLifecycle: whatever is called in whatever order, plans
\* climb and complete only while they move, every change of epoch or of policy makes
\* all live plans stale at once, and only a new term takes them on.
THEOREM EngineIsLifecycle == Spec => LifecycleSpec
<1>1. Init => Lifecycle!Init
  <2> SUFFICES ASSUME Init PROVE Lifecycle!Init
    OBVIOUS
  <2> DEFINE p == NoPlan
  <2>1. p.state = "ABSENT" /\ p.index = 0 /\ p.generation = 0
    BY DEF NoPlan
  <2> HIDE DEF p
  <2>2. Phase(p) = "none"
    BY <2>1 DEF Phase, IsLive, LiveStates, StageStates
  <2>3. View(p) = Lifecycle!Nothing
    BY <2>1, <2>2 DEF View, Lifecycle!Nothing, Lifecycle!At
  <2>4. [i \in PlanIds |-> View(plans[i])] = [i \in PlanIds |-> Lifecycle!Nothing]
    BY <2>3 DEF Init, p
  <2> QED
    BY <2>4 DEF Init, Lifecycle!Init
<1>2. LInv /\ [Next]_vars => [Lifecycle!Next]_(Lifecycle!vars)
  BY LifecycleStep
<1> QED
  BY <1>1, <1>2, LineageHolds, PTL DEF Spec, LifecycleSpec, Lifecycle!Spec

=============================================================================
