-------------------------- MODULE RestorationLevels --------------------------
(***************************************************************************)
(* What the engine restores: the levels of one plan, from the readings of  *)
(* a snapshot, the live grants of authority and the protected obligations, *)
(* and what a rollback takes back.  The module composes EvidenceRules and  *)
(* RestorationRules with the plan lifecycle of RecoveryEngine, whose       *)
(* verdict of a snapshot is computed here.                                 *)
(***************************************************************************)
EXTENDS RestorationRules

CONSTANTS
  Rungs,            \* RecoveryPolicy::stages: targets and requirements,
  Ladder,           \* and kinds, for the one policy generation
  RollbackTarget,   \* RecoveryPlan::rollback_target
  Baseline,         \* RecoveryPlan::baseline
  AdvanceMargin,    \* HysteresisPolicy::advance_margin
  RollbackMargin,   \* HysteresisPolicy::rollback_margin
  Tolerance,        \* partial_application_tolerance_bp
  RequireCompletionEvidence,  \* RecoveryPolicy::require_completion_evidence
  RequireStableCompletion,    \* RecoveryPolicy::require_stable_completion
  Dwell, Cooldown,  \* StageSpec::dwell_ticks, HysteresisPolicy::cooldown_ticks
  MaxRollbacks,     \* RecoveryPolicy::max_rollbacks
  Grants,           \* inputs of the model: the grants made for each resource,
  Reports,          \* the readings of a publisher,
  Sightings,        \* and the observations a rollback may be given
  MaxRevalidations, MaxEpoch, MaxTick  \* bounds of the model

VARIABLES
  epoch,         \* epoch_
  plans,         \* plans_: the one plan
  now,           \* the caller's clock
  authority,     \* authority_
  authorized,    \* RecoveryPlan::authorized, the effective levels
  lastObserved,  \* RecoveryPlan::last_observed
  rolledBack,    \* the last entry of rollback_history, until the next rung is left
  basis          \* history: when the oldest reading that left the last rung was made

lifecycle == <<epoch, plans, now>>
levels == <<authorized, lastObserved, rolledBack, basis>>
vars == <<lifecycle, authority, levels>>

\* register_plan and validate_policy.
Constrained == Rungs[1].target
ASSUME LevelsAssumption ==
  /\ Len(Ladder) = 1 /\ DOMAIN Ladder[1] = DOMAIN Rungs
  /\ ~Rungs[1].requiresAuthority
  /\ \A k \in 2..Len(Rungs) : Rungs[k].requiresAuthority \/ Rungs[k].target = Rungs[k - 1].target
  /\ \A r \in Resources :
       /\ RollbackTarget[r] <= Constrained[r]
       /\ \A k \in DOMAIN Rungs : Rungs[k].target[r] <= Baseline[r]
       /\ \A k \in 2..Len(Rungs) : Rungs[k].target[r] >= Rungs[k - 1].target[r]
  /\ \A k \in DOMAIN Rungs :
       /\ RollbackMargin > 0 \/ AdvanceMargin > 0 => Rungs[k].primary.hasMin
       /\ RollbackMargin > 0 => Rungs[k].primary.minValue > RollbackMargin
  /\ \A o \in Obligations : ~Blocks(o, RollbackTarget) /\ ~Blocks(o, Constrained)

\* Levels, ceilings and floors are unsigned, and tolerances are basis points.
ASSUME DomainAssumption ==
  /\ RollbackTarget \in [Resources -> Nat]
  /\ \A k \in DOMAIN Rungs :
       /\ Rungs[k].requiresAuthority \in BOOLEAN
       /\ Rungs[k].target \in [Resources -> Nat]
  /\ \A r \in Resources : Grants[r] \subseteq GrantRecords
  /\ Reports \subseteq Seq(ReadingRecords)
  /\ \A seen \in Sightings : \A r \in DOMAIN seen : seen[r] \in SightingRecords
  /\ Tolerance \in 0..10000 /\ MaxDelta \in Nat
  /\ RequireCompletionEvidence \in BOOLEAN /\ RequireStableCompletion \in BOOLEAN
  /\ Dwell \in Nat /\ Cooldown \in Nat /\ MaxRollbacks \in Nat
  /\ MaxEpoch \in Nat /\ MaxTick \in Nat

\* The lifecycle.  The limits on attempts, history and time are those of
\* RecoveryEngine's own runs and are out of reach here.
E == INSTANCE RecoveryEngine WITH
  PlanIds <- {1}, SnapshotGens <- Nat,
  Window <- 100, MaxTransitions <- 64,
  RevalidationBoundary <- 100, MaxLifetime <- 100,
  MaxStageAttempts <- 3, MaxTotalAttempts <- 32,
  OnRecurrence <- <<"ROLLBACK">>, RollbackOnFailure <- TRUE,
  MaxStageHistory <- 64, MaxRollbackHistory <- 32, MaxCompletionHistory <- 64,
  MaxExplanationItems <- 1, MaxReasonLength <- 1, TransitionRecords <- 64,
  MaxGeneration <- 1000, policyGen <- 1

\* validate_policy
ASSUME PolicyIsValid ==
  Ladder \in Seq(Seq(E!StageKinds)) /\ E!ValidLadder(Ladder[1])

Plan == plans[1]
Rung == Rungs[Plan.index + 1]
Completing == E!Kind(Plan) = "COMPLETE"

NoRollback == [complete |-> FALSE, seen |-> <<>>]

Init ==
  /\ epoch = 1 /\ now = 0
  /\ plans = [i \in {1} |-> E!NoPlan]
  /\ authority = [r \in Resources |-> NoGrant]
  /\ authorized = <<>> /\ lastObserved = <<>> /\ rolledBack = NoRollback /\ basis = 0

-----------------------------------------------------------------------------
(* Authority.                                                              *)

\* grant_authority
Grant(r, g) ==
  /\ Takes(authority[r], [g EXCEPT !.epoch = epoch])
  /\ authority' = [authority EXCEPT ![r] = [g EXCEPT !.epoch = epoch]]
  /\ UNCHANGED <<lifecycle, levels>>

\* revoke_authority: nothing of the grant is kept.
Revoke(r) ==
  /\ authority[r] # NoGrant
  /\ authority' = [authority EXCEPT ![r] = NoGrant]
  /\ UNCHANGED <<lifecycle, levels>>

\* drop_stale_authority
DropStale ==
  /\ authority' = [r \in Resources |->
                     IF Live(authority[r], epoch, now) THEN authority[r] ELSE NoGrant]
  /\ UNCHANGED <<lifecycle, levels>>

\* begin_epoch
BeginEpoch ==
  /\ E!BeginEpoch
  /\ authority' = [r \in Resources |-> NoGrant]
  /\ UNCHANGED levels

\* A mutant of Restart: the engine the state is imported into keeps its grants.
RestartKeepingGrants ==
  /\ E!ImportState
  /\ lastObserved' = <<>>
  /\ UNCHANGED <<authority, authorized, rolledBack, basis>>

\* import_state: neither authority nor what was observed survives.
Restart ==
  /\ E!ImportState
  /\ authority' = [r \in Resources |-> NoGrant]
  /\ lastObserved' = <<>>
  /\ UNCHANGED <<authorized, rolledBack, basis>>

-----------------------------------------------------------------------------
(* advance                                                                 *)

CreatePlan ==
  /\ E!CreatePlan(1)
  /\ authorized' = Constrained
  /\ lastObserved' = <<>> /\ rolledBack' = NoRollback /\ basis' = 0
  /\ UNCHANGED authority

Context == [tick |-> now, planGen |-> Plan.generation, policyGen |-> 1, epoch |-> epoch]

Required(level) == (level * (10000 - Tolerance)) \div 10000

\* A mutant of PartlyApplied: a level that is not observed is not missed.
PartlyAppliedIfSeen(observed, candidate) ==
  \E r \in Resources \cap DOMAIN observed : observed[r] < Required(candidate[r])

\* The COMPLETE rung: a level is not observed, or is observed below the candidate.
PartlyApplied(observed, candidate) ==
  \E r \in Resources : r \notin DOMAIN observed \/ observed[r] < Required(candidate[r])

\* The evidence and the candidate of a rung whose primary value is high enough.  What
\* the COMPLETE rung asks for beyond them is up to the policy.
VerdictInBand(es) ==
  LET candidate == Candidate(Rung, authority) IN
  IF \E req \in Rung.others \cup {Rung.primary} : ~Meets(req, es, Context) THEN "unsatisfied"
  ELSE IF CandidateRefused(Rung, authority, epoch, now) THEN "refused"
  ELSE IF /\ Completing /\ RequireCompletionEvidence
          /\ PartlyApplied(CollectObserved(Unit, es, Context), candidate)
  THEN "partial"
  ELSE IF /\ Completing /\ RequireStableCompletion
          /\ \E k \in Admitted(Rung.primary, es, Context) : ~es[k].stable
  THEN "unstable"
  ELSE "good"

\* The first test of compute_decision_locked that the snapshot fails.
Verdict(es) ==
  LET primary == Rung.primary
      S == Admitted(primary, es, Context)
      value == es[Latest(es, S)].value
  IN IF Contradictory(es) \/ S = {} THEN "unusable"
     ELSE IF primary.hasMin /\ value < primary.minValue - RollbackMargin THEN "recurrence"
     ELSE IF primary.hasMin /\ value < primary.minValue + AdvanceMargin THEN "holdBand"
     ELSE VerdictInBand(es)

\* The readings of a report that is bound to generation g of the plan: each was made
\* some ticks before now, and is bound to none if the report says so.
Readings(report, g) ==
  [k \in DOMAIN report |->
     [report[k] EXCEPT !.at = Max({0, now - @}), !.planGen = IF @ = 0 THEN 0 ELSE g]]

\* Every reading that counts for the requirements of the rung and, on the COMPLETE
\* rung, for the applied levels.
Counted(es) ==
  UNION ({Admitted(req, es, Context) : req \in Rung.others \cup {Rung.primary}}
           \cup {AppliedReadings(r, es, Context) :
                   r \in IF Completing THEN Resources ELSE {}})

LeavesRung(p, q) == q.index > p.index \/ (q.state = "COMPLETED" /\ p.state # "COMPLETED")

Snapshot(verdict) == [tick |-> now, gen |-> now, binding |-> "current", verdict |-> verdict]

\* A snapshot with the readings of a report.  The first conjunct
\* only spares TLC the verdict of a snapshot that is not evaluated: what advance does
\* to a plan of an older epoch is among the other calls.
Advance(report, g) ==
  LET es == Readings(report, g) IN
  /\ E!Coherent(Plan, Snapshot("unusable"))
  /\ E!AdvanceWith(1, Snapshot(Verdict(es)))
  /\ IF LeavesRung(Plan, plans'[1])
     THEN /\ authorized' = Candidate(Rung, authority)
          /\ basis' = Min({es[k].at : k \in Counted(es)})
          /\ lastObserved' = IF Completing THEN CollectObserved(Unit, es, Context)
                             ELSE lastObserved
          /\ rolledBack' = NoRollback
     ELSE UNCHANGED levels
  /\ UNCHANGED authority

-----------------------------------------------------------------------------
(* rollback                                                                *)

\* A mutant of Rollback: the levels authorized are left for the next rung to set.
RollbackKeepingLevels(seen) ==
  /\ E!Rollback(1)
  /\ rolledBack' = Compensation(seen, RollbackTarget, authorized)
  /\ lastObserved' = seen
  /\ basis' = 0
  /\ UNCHANGED <<authority, authorized>>

\* A rollback from what is observed, not from what was authorized.
Rollback(seen) ==
  /\ E!Rollback(1)
  /\ rolledBack' = Compensation(seen, RollbackTarget, authorized)
  /\ authorized' = rolledBack'.landing
  /\ lastObserved' = seen
  /\ basis' = 0
  /\ UNCHANGED authority

\* The calls that leave the levels as they are.
OtherCall ==
  /\ \/ E!Tick
     \/ E!RequireRevalidation(1)
     \/ E!Resume(1)
     \/ E!RollbackStale(1)
     \/ Plan.generation <= MaxRevalidations /\ E!Revalidate(1)
     \/ E!AdvanceStale(1, Snapshot("unusable"))
  /\ UNCHANGED <<authority, levels>>

\* Bound of the model: nothing is asked of the engine before there is a plan and after
\* it has ended.
Watched == E!IsLive(Plan)

Next ==
  \/ CreatePlan
  \/ Watched /\ BeginEpoch
  \/ Watched /\ Restart
  \/ Watched /\ DropStale
  \/ Watched /\ OtherCall
  \/ \E r \in Resources : Watched /\ (Revoke(r) \/ \E g \in Grants[r] : Grant(r, g))
  \/ \E report \in Reports, g \in {Plan.generation - 1, Plan.generation} :
       Watched /\ Advance(report, g)
  \/ \E seen \in Sightings : Watched /\ Rollback(seen)

Spec == Init /\ [][Next]_vars

-----------------------------------------------------------------------------
(* Properties.                                                             *)

Level == Nat

\* Every variable has its type.
TypeOK ==
  /\ epoch \in Nat /\ now \in Nat /\ Plan \in E!Plans
  /\ \A r \in Resources :
       authority[r] = NoGrant \/ WellFormed(authority[r])
  /\ DOMAIN authorized \subseteq Resources
  /\ \A r \in DOMAIN authorized : authorized[r] \in Level
  /\ basis \in Nat

LevelOf(v, r) == IF r \in DOMAIN v THEN v[r] ELSE 0

\* Restoration never exceeds current legal authority: a level rises above the
\* constrained one only under a grant for it that was not revoked, is of this epoch
\* and has not expired, and only up to its ceiling, whatever was granted before,
\* and whatever a rollback took back in between.
WithinAuthority ==
  [][\A r \in Resources :
       LevelOf(authorized', r) > LevelOf(authorized, r) /\ authorized'[r] > Constrained[r] =>
         /\ authority[r] # NoGrant /\ authority[r].epoch = epoch /\ now < authority[r].expires
         /\ authorized'[r] <= authority[r].ceiling]_vars

\* Live authority never survives an epoch change or a restart: it is not enough that
\* a grant of another epoch is refused when it is used, none is held.
AuthorityIsCurrent ==
  \A r \in Resources : authority[r] # NoGrant => authority[r].epoch = epoch

\* Protected obligations stay protected: the levels in force keep every active hard
\* obligation, although a ceiling lowers them, a floor raises them, rungs change
\* them and a rollback replaces them by another vector, which may miss resources.
ObligationsKept ==
  \A o \in Obligations :
    o.active /\ o.hard /\ o.resource \in DOMAIN authorized =>
      Satisfied(o, authorized[o.resource])

\* After a rollback no level is in force that is above the rollback target or that
\* the observation does not vouch for, until the next rung is left: not after the plan
\* was resumed, invalidated, restarted or revalidated, and not if the rollback was the
\* last of its budget and failed the plan.
RollbackTakesBack ==
  rolledBack # NoRollback =>
    \A r \in DOMAIN authorized :
      /\ authorized[r] <= RollbackTarget[r]
      /\ r \in DOMAIN rolledBack.seen /\ rolledBack.seen[r].known

\* A compensation is explicit about every resource: it steps from the level that
\* was observed exactly onto the target, never upwards, or the resource is there
\* already, or it is listed as unobserved.  One that is called complete rests on no
\* earlier request.
CompensationLands ==
  rolledBack # NoRollback =>
    LET c == rolledBack IN
    /\ \A r \in DOMAIN c.seen \cap Resources :
         c.seen[r].known /\ c.seen[r].unit = Unit[r] /\ r \notin c.unobserved =>
           c.seen[r].level + LevelOf(c.steps, r) = Min({c.seen[r].level, RollbackTarget[r]})
    /\ \A r \in Resources \ c.unobserved : r \in DOMAIN c.seen /\ c.seen[r].unit = Unit[r]
    /\ c.complete => c.assumed = {}

\* Every level in force was seen applied, within the tolerance.
SeenApplied ==
  \A r \in Resources :
    r \in DOMAIN lastObserved /\ lastObserved[r] >= Required(authorized[r])

\* A completed plan was observed at its levels, if its policy requires evidence of
\* completion: every level in force was seen, the ones authority clamped at the level
\* they were clamped to, whatever readings were missing, late or of another unit.
CompletedAsObserved ==
  RequireCompletionEvidence /\ Plan.state = "COMPLETED" => SeenApplied

\* A rung is left on its own evidence: with a dwell time no shorter than the age
\* evidence may have, no reading counts that was made before the plan's last
\* transition, a rollback, a resumption or a revalidation, although readings may be
\* delayed and the rung they are bound to is not compared.
OwnEvidence ==
  [][MaxEvidenceAge <= Dwell /\ LeavesRung(Plan, plans'[1]) => basis' >= Plan.updated]_vars
=============================================================================
