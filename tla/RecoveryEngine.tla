--------------------------- MODULE RecoveryEngine ---------------------------
(***************************************************************************)
(* The recovery-plan lifecycle of src/src/engine.cpp: a plan climbs the    *)
(* restoration ladder one rung at a time under evidence snapshots, is      *)
(* paused, rolled back, invalidated and revalidated, and commits at most   *)
(* one completion.  Every public method of the engine takes one mutex for  *)
(* its whole body, so each of its outcomes is one action here.             *)
(*                                                                         *)
(* The evidence itself is abstracted to a verdict, the first test of       *)
(* compute_decision_locked that the snapshot fails.  Restoration levels    *)
(* and authority grants are not part of this module.                       *)
(***************************************************************************)
EXTENDS Integers, Sequences, FiniteSets

CONSTANTS
  PlanIds,               \* slots of plans_
  Ladder,                \* Ladder[g]: the stage kinds of policy generation g
  SnapshotGens,          \* values of EvidenceSnapshot::generation
  Dwell,                 \* StageSpec::dwell_ticks
  Cooldown,              \* HysteresisPolicy::cooldown_ticks
  Window,                \* HysteresisPolicy::window_ticks
  MaxTransitions,        \* HysteresisPolicy::max_transitions_per_window
  RevalidationBoundary,  \* RecoveryPolicy::revalidation_boundary_ticks
  MaxLifetime,           \* RecoveryPolicy::max_plan_lifetime_ticks
  MaxStageAttempts,      \* StageSpec::max_attempts
  MaxTotalAttempts,      \* RecoveryPolicy::max_total_attempts
  MaxRollbacks,          \* RecoveryPolicy::max_rollbacks
  OnRecurrence,          \* RecoveryPolicy::on_recurrence, for each generation
  RollbackOnFailure,     \* StageSpec::rollback_on_failure
  MaxStageHistory,       \* EngineLimits::max_stage_history
  MaxRollbackHistory,    \* EngineLimits::max_rollback_history
  MaxCompletionHistory,  \* EngineLimits::max_completion_history
  MaxExplanationItems,   \* EngineLimits::max_explanation_items
  MaxReasonLength,       \* EngineLimits::max_reason_length
  TransitionRecords,     \* kTransitionWindowRecords
  MaxGeneration,         \* the largest generation bump() can reach
  MaxEpoch, MaxTick      \* bounds of the model: epochs and clock ticks

VARIABLES
  epoch,      \* epoch_
  policyGen,  \* generation of the stored policy
  plans,      \* plans_: one record per slot
  now         \* the caller's clock: no call carries a tick beyond it

vars == <<epoch, policyGen, plans, now>>

StageKinds == {"OBSERVE", "PROBE", "PARTIAL_RESTORE", "HOLD", "EXPAND", "COMPLETE"}
KindRank == [OBSERVE |-> 1, PROBE |-> 2, PARTIAL_RESTORE |-> 3,
             HOLD |-> 4, EXPAND |-> 5, COMPLETE |-> 6]

\* What validate_policy demands of a ladder: it starts with OBSERVE, ends with
\* COMPLETE and its kinds strictly increase.
ValidLadder(l) ==
  /\ l \in Seq(StageKinds)
  /\ Len(l) >= 2
  /\ l[1] = "OBSERVE"
  /\ l[Len(l)] = "COMPLETE"
  /\ \A i, j \in 1..Len(l) : i < j => KindRank[l[i]] < KindRank[l[j]]

PolicyGens == 1..Len(Ladder)

ASSUME LadderAssumption ==
  /\ Ladder \in Seq(Seq(StageKinds))
  /\ Len(Ladder) >= 1
  /\ \A g \in PolicyGens : ValidLadder(Ladder[g])

\* Bounds checked by validate_policy and EngineLimits::valid.
ASSUME PolicyAssumption ==
  /\ Dwell \in Nat /\ Cooldown \in Nat
  /\ Window \in Nat \ {0} /\ MaxTransitions \in Nat \ {0}
  /\ RevalidationBoundary \in Nat \ {0} /\ MaxLifetime \in Nat \ {0}
  /\ MaxStageAttempts \in Nat \ {0} /\ MaxTotalAttempts \in Nat \ {0}
  /\ MaxRollbacks \in Nat
  /\ OnRecurrence \in [PolicyGens -> {"ROLLBACK", "PAUSE", "FAIL"}]
  /\ RollbackOnFailure \in BOOLEAN

ASSUME LimitAssumption ==
  /\ MaxStageHistory \in Nat \ {0}
  /\ MaxRollbackHistory \in Nat \ {0}
  /\ MaxCompletionHistory \in Nat \ {0}
  /\ MaxExplanationItems \in Nat \ {0}
  /\ MaxReasonLength \in Nat \ {0}
  /\ TransitionRecords \in Nat \ {0}
  /\ MaxGeneration \in Nat \ {0}
  /\ MaxEpoch \in Nat /\ MaxTick \in Nat
  /\ SnapshotGens \subseteq Nat

\* kTransitionWindowRecords is 64: a policy may allow more transitions than that
\* (validate_policy caps them at 1024), but a ladder has six rungs at most.
ASSUME WindowAssumption ==
  TransitionRecords >= MaxTransitions \/ TransitionRecords >= Cardinality(StageKinds)

-----------------------------------------------------------------------------
(* States, records and inputs.                                             *)

StateForStage ==
  [OBSERVE |-> "OBSERVING", PROBE |-> "PROBING",
   PARTIAL_RESTORE |-> "PARTIAL_RESTORE", HOLD |-> "HOLDING",
   EXPAND |-> "EXPANDING", COMPLETE |-> "VERIFYING"]

StageStates == {"OBSERVING", "PROBING", "PARTIAL_RESTORE", "HOLDING",
                "EXPANDING", "VERIFYING"}
LiveStates == StageStates \cup {"PAUSED", "ROLLING_BACK", "ROLLED_BACK",
                                "REVALIDATION_REQUIRED"}
TerminalStates == {"COMPLETED", "FAILED"}
RecoveryStates == LiveStates \cup TerminalStates

\* StageRecord: one entry of a plan's stage lineage.  "exited" is meaningful
\* only once the record is closed.
StageRecords ==
  [index : Nat, generation : Nat, attempt : Nat,
   outcome : {"PENDING", "SUCCEEDED", "ROLLED_BACK"}, exited : Nat]

\* CompletionRecord.  The code hashes the four numbers of a key together with
\* the plan id, see completion_key: here the key is the tuple itself, so two
\* distinct tuples never collide.
CompletionKeys == Nat \X Nat \X Nat \X Nat
CompletionRecords == [key : CompletionKeys, state : {"FAILED", "COMMITTED"}]

\* RecoveryPlan.  "updated" stands for updated_at_tick and last_transition_tick,
\* which every handler assigns together; "notes" is the number of
\* revalidation_notes.  "ABSENT" is a slot that holds no plan.
Plans ==
  [state : RecoveryStates \cup {"ABSENT"}, revalidationRequired : BOOLEAN,
   epoch : Nat, policyGen : Nat, generation : Nat, stageGen : Nat,
   index : Nat, attempt : Nat, totalAttempts : Nat, attemptsInStage : Nat,
   created : Nat, updated : Nat, cooldownUntil : Nat, notes : Nat,
   transitions : Seq(Nat), history : Seq(StageRecords),
   completions : Seq(CompletionRecords), rollbacks : Seq(Nat)]

\* The evidence of a snapshot, as the first check it fails in the order the
\* code makes them.  "partial" and "unstable" matter at the COMPLETE rung only.
Verdicts == {"unusable", "recurrence", "holdBand", "unsatisfied", "refused",
             "partial", "unstable", "good"}

\* The bindings a snapshot names, compared with the plan it is used on: an epoch,
\* plan or policy generation that is unset or the plan's own is "current",
\* anything else is stale.
Bindings == {"current", "staleEpoch", "stalePlan"}

\* A snapshot may be delayed: it carries any tick up to the present.
Snapshots == [tick : 0..now, gen : SnapshotGens, binding : Bindings,
              verdict : Verdicts]

-----------------------------------------------------------------------------
(* Helpers: pure functions of a plan, as the code's helpers are.           *)

IsLive(p) == p.state \in LiveStates

\* stage_at: the stored policy decides, whatever generation the plan is bound to.
HasStage(p) == p.index < Len(Ladder[policyGen])
Kind(p) == Ladder[policyGen][p.index + 1]

CompletionKey(p, gen) == <<p.generation, p.stageGen, gen, p.attempt>>

Failed(p) == [p EXCEPT !.state = "FAILED"]

\* A plan that must revalidate.  The reason is noted as long as fewer than cap
\* notes are held.
Flagged(p, cap) ==
  [p EXCEPT !.state = "REVALIDATION_REQUIRED", !.revalidationRequired = TRUE,
            !.notes = IF @ < cap THEN @ + 1 ELSE @]

\* A mutant of Invalidated: a paused plan is overlooked.
InvalidatedUnlessPaused(p) ==
  IF IsLive(p) /\ p.state # "PAUSED" THEN Flagged(p, MaxExplanationItems) ELSE p

\* A mutant of Invalidated: a terminal plan is invalidated too.
InvalidatedAnyState(p) ==
  IF p.state # "ABSENT" THEN Flagged(p, MaxExplanationItems) ELSE p

\* invalidate_plan_locked
Invalidated(p) == IF IsLive(p) THEN Flagged(p, MaxExplanationItems) ELSE p

\* invalidate_draft, whose callers pass it the length of a reason for its cap.
InvalidatedDraft(p) == IF IsLive(p) THEN Flagged(p, MaxReasonLength) ELSE p

PushTransition(ticks, t) ==
  IF Len(ticks) < TransitionRecords THEN Append(ticks, t) ELSE Append(Tail(ticks), t)

CountRecent(ticks, t) ==
  Cardinality({k \in DOMAIN ticks : ticks[k] <= t /\ t - ticks[k] <= Window})

LastRecord(p) == p.history[Len(p.history)]

\* pending_stage_record
HasPending(p) == p.history # <<>> /\ LastRecord(p).outcome = "PENDING"

\* A mutant of Opened: a reused record keeps its generation and its attempt.
OpenedKeepingAttempt(p) ==
  IF HasPending(p) /\ LastRecord(p).index = p.index
  THEN p.history
  ELSE Append(p.history,
              [index |-> p.index, generation |-> p.stageGen, attempt |-> p.attempt,
               outcome |-> "PENDING", exited |-> 0])

\* open_stage_record: the pending record of the same rung is reused.
Opened(p) ==
  IF HasPending(p) /\ LastRecord(p).index = p.index
  THEN [p.history EXCEPT ![Len(p.history)] =
          [@ EXCEPT !.generation = p.stageGen, !.attempt = p.attempt]]
  ELSE Append(p.history,
              [index |-> p.index, generation |-> p.stageGen, attempt |-> p.attempt,
               outcome |-> "PENDING", exited |-> 0])

Closed(history, outcome, t) ==
  [history EXCEPT ![Len(history)] = [@ EXCEPT !.outcome = outcome, !.exited = t]]

\* A mutant of HistoryFull: off by one.
HistoryPastFull(p) == Len(p.history) > MaxStageHistory

HistoryFull(p) == Len(p.history) >= MaxStageHistory

Update(i, q) == plans' = [plans EXCEPT ![i] = q] /\ UNCHANGED <<epoch, policyGen, now>>

-----------------------------------------------------------------------------
(* Creation, epochs and policies.                                          *)

NoPlan ==
  [state |-> "ABSENT", revalidationRequired |-> FALSE, epoch |-> 0, policyGen |-> 0,
   generation |-> 0, stageGen |-> 0, index |-> 0, attempt |-> 0, totalAttempts |-> 0,
   attemptsInStage |-> 0, created |-> 0, updated |-> 0, cooldownUntil |-> 0, notes |-> 0,
   transitions |-> <<>>, history |-> <<>>, completions |-> <<>>, rollbacks |-> <<>>]

\* A plan as create_plan leaves it: on the first rung, with its record open.
NewPlan ==
  [NoPlan EXCEPT !.state = StateForStage[Ladder[policyGen][1]], !.epoch = epoch,
                 !.policyGen = policyGen, !.generation = 1, !.stageGen = 1,
                 !.attempt = 1, !.totalAttempts = 1, !.attemptsInStage = 1,
                 !.created = now, !.updated = now,
                 !.history = <<[index |-> 0, generation |-> 1, attempt |-> 1,
                                outcome |-> "PENDING", exited |-> 0]>>]

Init ==
  /\ epoch = 1
  /\ policyGen = 1
  /\ plans = [i \in PlanIds |-> NoPlan]
  /\ now = 0

\* The request names the current epoch and the stored policy generation, or the
\* call is refused.
CreatePlan(i) == plans[i].state = "ABSENT" /\ Update(i, NewPlan)

\* erase_plan: live plans are never discarded.
ErasePlan(i) == plans[i].state \in TerminalStates /\ Update(i, NoPlan)

Tick == now < MaxTick /\ now' = now + 1 /\ UNCHANGED <<epoch, policyGen, plans>>

\* A mutant of BeginEpoch: plans learn of the epoch when they are next advanced.
BeginEpochLazily ==
  \E e \in (epoch + 1)..MaxEpoch : epoch' = e /\ UNCHANGED <<policyGen, plans, now>>

\* begin_epoch: epochs never regress.
BeginEpoch ==
  \E e \in (epoch + 1)..MaxEpoch :
    /\ epoch' = e
    /\ plans' = [i \in PlanIds |->
                   IF plans[i].epoch = e THEN plans[i] ELSE Invalidated(plans[i])]
    /\ UNCHANGED <<policyGen, now>>

\* A mutant of ReplacePolicy: an older policy may come back.
ReplacePolicyWithAny ==
  \E g \in PolicyGens :
    /\ g # policyGen
    /\ policyGen' = g
    /\ plans' = [i \in PlanIds |->
                   IF plans[i].policyGen = g THEN plans[i] ELSE Invalidated(plans[i])]
    /\ UNCHANGED <<epoch, now>>

\* replace_policy: policy generations never regress.
ReplacePolicy ==
  \E g \in PolicyGens :
    /\ g > policyGen
    /\ policyGen' = g
    /\ plans' = [i \in PlanIds |->
                   IF plans[i].policyGen = g THEN plans[i] ELSE Invalidated(plans[i])]
    /\ UNCHANGED <<epoch, now>>

\* A mutant of Imported: a paused plan comes back as it was.
ImportedKeepingPause(p, e) ==
  IF p.state = "ABSENT" THEN p
  ELSE [(IF p.state = "PAUSED" THEN p ELSE Invalidated(p)) EXCEPT !.epoch = e]

\* What import_state makes of a plan: live plans must revalidate, with one note of
\* the restart, and every plan, terminal ones included, is rebound to the new epoch.
Imported(p, e) ==
  IF p.state = "ABSENT" THEN p
  ELSE [Invalidated(p) EXCEPT !.epoch = e, !.notes = IF IsLive(p) THEN 1 ELSE @]

\* A restart: export_state, then import_state into a fresh engine under a newer
\* epoch.  Nothing is lost here between the two.
ImportState ==
  \E e \in (epoch + 1)..MaxEpoch :
    /\ epoch' = e
    /\ plans' = [i \in PlanIds |-> Imported(plans[i], e)]
    /\ UNCHANGED <<policyGen, now>>

\* notify_resource_change and notify_policy_change: every plan that is bound to
\* the resource, or behind the policy generation, is invalidated at once.
NotifyChange ==
  \E S \in SUBSET PlanIds :
    /\ plans' = [i \in PlanIds |-> IF i \in S THEN Invalidated(plans[i]) ELSE plans[i]]
    /\ UNCHANGED <<epoch, policyGen, now>>

\* A mutant of RequireRevalidation: the attempt of the lost worker is refunded.
RequireRevalidationRefunding(i) ==
  /\ plans[i].state # "ABSENT"
  /\ Update(i, [Invalidated(plans[i]) EXCEPT !.attemptsInStage = @ - 1])

\* require_revalidation: no attempt carries over a lost worker.
RequireRevalidation(i) ==
  /\ plans[i].state # "ABSENT"
  /\ Update(i, [Invalidated(plans[i]) EXCEPT !.attemptsInStage = 0])

-----------------------------------------------------------------------------
(* Pause, resume, rollback and revalidation.                               *)

Pause(i) ==
  /\ IsLive(plans[i])
  /\ plans[i].state # "ROLLING_BACK"
  /\ Update(i, [plans[i] EXCEPT !.state = "PAUSED"])

\* A mutant of Resumable: the cooldown and the flag are not looked at.
ResumableUnchecked(p) == p.state \in {"PAUSED", "ROLLED_BACK"} /\ HasStage(p)

Resumable(p) ==
  /\ p.state \in {"PAUSED", "ROLLED_BACK"}
  /\ ~p.revalidationRequired
  /\ now >= p.cooldownUntil
  /\ HasStage(p)

\* resume checks neither the plan's epoch nor its policy generation.
Resume(i) ==
  LET p == plans[i] IN
  /\ Resumable(p)
  /\ Update(i, [p EXCEPT !.state = StateForStage[Kind(p)], !.attemptsInStage = 0,
                         !.updated = now])

\* rollback on a plan of another epoch invalidates it instead.
RollbackStale(i) ==
  LET p == plans[i] IN
  /\ IsLive(p)
  /\ p.epoch # epoch
  /\ Update(i, Invalidated(p))

RollbackAllowed(p) == IsLive(p) /\ p.epoch = epoch

RollbackHistoryFull(i) ==
  LET p == plans[i] IN
  /\ RollbackAllowed(p)
  /\ Len(p.rollbacks) >= MaxRollbackHistory
  /\ Update(i, Failed(p))

\* A mutant of RolledBack: the budget is compared off by one.
RolledBackPastBudget(p) ==
  [p EXCEPT
     !.state = IF Len(p.rollbacks) + 1 > MaxRollbacks THEN "FAILED" ELSE "ROLLED_BACK",
     !.history = IF HasStage(p) /\ (HasPending(p) \/ ~HistoryFull(p))
                 THEN Closed(Opened(p), "ROLLED_BACK", now) ELSE @,
     !.rollbacks = Append(@, now),
     !.updated = now,
     !.attemptsInStage = 0,
     !.cooldownUntil = now + Cooldown,
     !.transitions = PushTransition(@, now)]

\* The plan after a recorded rollback.  The rung and the revalidation flag stay
\* as they were, and the open stage record is closed, or a closed one appended
\* when none is open and the history has room.
RolledBack(p) ==
  [p EXCEPT
     !.state = IF Len(p.rollbacks) + 1 >= MaxRollbacks THEN "FAILED" ELSE "ROLLED_BACK",
     !.history = IF HasStage(p) /\ (HasPending(p) \/ ~HistoryFull(p))
                 THEN Closed(Opened(p), "ROLLED_BACK", now) ELSE @,
     !.rollbacks = Append(@, now),
     !.updated = now,
     !.attemptsInStage = 0,
     !.cooldownUntil = now + Cooldown,
     !.transitions = PushTransition(@, now)]

Rollback(i) ==
  LET p == plans[i] IN
  /\ RollbackAllowed(p)
  /\ Len(p.rollbacks) < MaxRollbackHistory
  /\ Update(i, RolledBack(p))

\* The stage is looked up before the plan's state is: a plan in any state whose
\* rung the stored policy no longer has is failed.
RevalidateNoStage(i) ==
  LET p == plans[i] IN
  /\ p.state # "ABSENT"
  /\ ~HasStage(p)
  /\ Update(i, Failed(p))

Revalidatable(p) == HasStage(p) /\ IsLive(p) /\ p.state # "ROLLING_BACK"

RevalidateHistoryFull(i) ==
  LET p == plans[i] IN
  /\ Revalidatable(p)
  /\ HistoryFull(p)
  /\ Update(i, Failed(p))

Rebound(p) ==
  [p EXCEPT !.epoch = epoch, !.policyGen = policyGen, !.revalidationRequired = FALSE,
            !.updated = now, !.attemptsInStage = 0, !.cooldownUntil = 0, !.notes = 0]

\* A mutant of Revalidated: the open record is left as it was.
RevalidatedWithoutRecord(p) ==
  [Rebound(p) EXCEPT !.generation = @ + 1, !.stageGen = @ + 1,
                     !.attempt = p.totalAttempts + 1, !.totalAttempts = @ + 1,
                     !.state = StateForStage[Kind(p)]]

\* A new plan generation on the same rung, with a fresh stage generation and a
\* fresh attempt.
Revalidated(p) ==
  LET q == [Rebound(p) EXCEPT !.generation = @ + 1, !.stageGen = @ + 1,
                              !.attempt = p.totalAttempts + 1, !.totalAttempts = @ + 1,
                              !.state = StateForStage[Kind(p)]]
  IN [q EXCEPT !.history = Opened(q)]

Revalidate(i) ==
  LET p == plans[i] IN
  /\ Revalidatable(p)
  /\ ~HistoryFull(p)
  /\ p.generation < MaxGeneration
  /\ p.stageGen < MaxGeneration
  /\ Update(i, Revalidated(p))

\* bump() fails at the largest generation: first the plan's, then the stage's.
RevalidateExhausted(i) ==
  LET p == plans[i] IN
  /\ Revalidatable(p)
  /\ ~HistoryFull(p)
  /\ \/ p.generation >= MaxGeneration /\ Update(i, Failed(Rebound(p)))
     \/ /\ p.generation < MaxGeneration
        /\ p.stageGen >= MaxGeneration
        /\ Update(i, Failed([Rebound(p) EXCEPT !.generation = @ + 1]))

-----------------------------------------------------------------------------
(* advance: compute_decision_locked, one action per outcome that changes   *)
(* the plan.  Each guard below includes the ones before it, in the order   *)
(* the code returns; a snapshot that meets none of the outcomes is refused *)
(* and leaves the plan as it was, a stuttering step.  complete() is the    *)
(* same computation, entered only on the COMPLETE rung.                    *)

\* A mutant of Replayed: only a committed completion is recognised.
ReplayedCommitted(p, s) ==
  /\ Kind(p) = "COMPLETE"
  /\ p.epoch = epoch
  /\ \E k \in DOMAIN p.completions :
       p.completions[k].key = CompletionKey(p, s.gen) /\ p.completions[k].state = "COMMITTED"

\* Step 0: the completion is already recorded; its outcome is returned unchanged.
Replayed(p, s) ==
  /\ Kind(p) = "COMPLETE"
  /\ p.epoch = epoch
  /\ s.binding # "staleEpoch"
  /\ \E k \in DOMAIN p.completions : p.completions[k].key = CompletionKey(p, s.gen)

Bound(p) == p.epoch = epoch /\ p.policyGen = policyGen

\* A mutant of Coherent: the revalidation flag is not looked at.
CoherentUnflagged(p, s) ==
  /\ HasStage(p)
  /\ IsLive(p)
  /\ Bound(p)
  /\ s.binding = "current"
  /\ p.updated <= s.tick
  /\ ~Replayed(p, s)

\* Steps 1 to 3 passed, up to the time coherence test.
Coherent(p, s) ==
  /\ HasStage(p)
  /\ IsLive(p)
  /\ Bound(p)
  /\ ~p.revalidationRequired
  /\ s.binding = "current"
  /\ p.updated <= s.tick
  /\ ~Replayed(p, s)

Outlived(p, s) == s.tick - p.created > MaxLifetime

CrossedBoundary(p, s) == s.tick - p.updated > RevalidationBoundary

\* Step 4 reached, with usable primary evidence.
Evaluated(p, s) ==
  /\ Coherent(p, s)
  /\ ~Outlived(p, s)
  /\ ~CrossedBoundary(p, s)
  /\ p.state \notin {"ROLLING_BACK", "PAUSED"}
  /\ s.verdict # "unusable"

\* A mutant of Settled: the rung's dwell time is not waited for.
SettledWithoutDwell(p, s) ==
  /\ Evaluated(p, s)
  /\ s.verdict \notin {"recurrence", "holdBand"}
  /\ s.tick >= p.cooldownUntil

\* Steps 5 and 6 passed, up to the dwell time.
Settled(p, s) ==
  /\ Evaluated(p, s)
  /\ s.verdict \notin {"recurrence", "holdBand"}
  /\ s.tick >= p.cooldownUntil
  /\ s.tick - p.updated >= Dwell

\* A mutant of WithinRate: off by one.
WithinRatePlusOne(p, s) == CountRecent(p.transitions, s.tick) <= MaxTransitions

WithinRate(p, s) == CountRecent(p.transitions, s.tick) < MaxTransitions

\* Steps 7 and 8 passed: budgets left, all requirements satisfied, and the
\* candidate levels allowed by authority and obligations.
Allowed(p, s) ==
  /\ Settled(p, s)
  /\ WithinRate(p, s)
  /\ p.totalAttempts < MaxTotalAttempts
  /\ p.attemptsInStage < MaxStageAttempts
  /\ s.verdict \in {"partial", "unstable", "good"}

\* Step 9 passed: on the COMPLETE rung the applied levels are verified and stable.
Verified(p, s) ==
  /\ Allowed(p, s)
  /\ Kind(p) = "COMPLETE" => s.verdict = "good"

CompletionsFull(p) == Len(p.completions) >= MaxCompletionHistory

HasRoom(p) == HasPending(p) \/ ~HistoryFull(p)

\* Step 1: a plan bound to an older epoch or policy generation.
AdvanceStale(i, s) ==
  LET p == plans[i] IN
  /\ HasStage(p) /\ IsLive(p)
  /\ ~Replayed(p, s)
  /\ ~Bound(p)
  /\ Update(i, InvalidatedDraft(p))

AdvanceOutlived(i, s) ==
  Coherent(plans[i], s) /\ Outlived(plans[i], s) /\ Update(i, Failed(plans[i]))

AdvanceCrossedBoundary(i, s) ==
  LET p == plans[i] IN
  Coherent(p, s) /\ ~Outlived(p, s) /\ CrossedBoundary(p, s) /\ Update(i, InvalidatedDraft(p))

StateOnRecurrence ==
  CASE OnRecurrence[policyGen] = "ROLLBACK" -> "ROLLING_BACK"
    [] OnRecurrence[policyGen] = "PAUSE" -> "PAUSED"
    [] OnRecurrence[policyGen] = "FAIL" -> "FAILED"

AdvanceRecurrence(i, s) ==
  LET p == plans[i] IN
  /\ Evaluated(p, s)
  /\ s.verdict = "recurrence"
  /\ Update(i, [p EXCEPT !.state = StateOnRecurrence])

AdvanceRateExceeded(i, s) ==
  LET p == plans[i] IN
  Settled(p, s) /\ ~WithinRate(p, s) /\ Update(i, [p EXCEPT !.state = "PAUSED"])

StateOnFailure == IF RollbackOnFailure THEN "ROLLING_BACK" ELSE "FAILED"

AdvanceBudgetExhausted(i, s) ==
  LET p == plans[i] IN
  /\ Settled(p, s) /\ WithinRate(p, s)
  /\ \/ p.totalAttempts >= MaxTotalAttempts /\ Update(i, Failed(p))
     \/ /\ p.totalAttempts < MaxTotalAttempts
        /\ p.attemptsInStage >= MaxStageAttempts
        /\ Update(i, [p EXCEPT !.state = StateOnFailure])

\* A partial application is a failed completion.  It consumes an attempt but
\* does not open a new one: the attempt id stays.
PartiallyApplied(p, s) ==
  [p EXCEPT
     !.completions = Append(@, [key |-> CompletionKey(p, s.gen), state |-> "FAILED"]),
     !.attemptsInStage = @ + 1,
     !.totalAttempts = @ + 1,
     !.state = IF RollbackOnFailure THEN "ROLLING_BACK" ELSE @]

AdvancePartial(i, s) ==
  LET p == plans[i] IN
  /\ Allowed(p, s)
  /\ Kind(p) = "COMPLETE" /\ s.verdict = "partial"
  /\ ~CompletionsFull(p)
  /\ Update(i, PartiallyApplied(p, s))

\* Full completion or stage lineage.  A committed completion that does not fit
\* is noticed only after its stage record is closed as a success.
AdvanceHistoryFull(i, s) ==
  LET p == plans[i] IN
  \/ /\ Allowed(p, s)
     /\ Kind(p) = "COMPLETE" /\ s.verdict = "partial"
     /\ CompletionsFull(p)
     /\ Update(i, Failed(p))
  \/ /\ Verified(p, s)
     /\ ~HasRoom(p)
     /\ Update(i, Failed(p))
  \/ /\ Verified(p, s)
     /\ HasRoom(p)
     /\ Kind(p) = "COMPLETE" /\ CompletionsFull(p)
     /\ Update(i, Failed([p EXCEPT !.history = Closed(Opened(p), "SUCCEEDED", s.tick)]))

Committed(p, s) ==
  [p EXCEPT !.history = Closed(Opened(p), "SUCCEEDED", s.tick),
            !.completions = Append(@, [key |-> CompletionKey(p, s.gen), state |-> "COMMITTED"]),
            !.state = "COMPLETED",
            !.updated = s.tick,
            !.transitions = PushTransition(@, s.tick)]

AdvanceCommit(i, s) ==
  LET p == plans[i] IN
  /\ Verified(p, s) /\ HasRoom(p)
  /\ Kind(p) = "COMPLETE" /\ ~CompletionsFull(p)
  /\ Update(i, Committed(p, s))

\* A mutant of Climbed: the record of the rung left behind is not closed.
ClimbedLeavingOpen(p, s) == [p EXCEPT !.history = Opened(p), !.index = @ + 1]

\* The next rung, up to the stage generation that may not fit.
Climbed(p, s) ==
  [p EXCEPT !.history = Closed(Opened(p), "SUCCEEDED", s.tick), !.index = @ + 1]

\* A mutant of Entered: the attempts of the rung before are kept, and the new
\* rung takes no attempt of its own.
EnteredOnOldAttempt(q, s) ==
  LET r == [q EXCEPT !.stageGen = @ + 1, !.updated = s.tick,
                     !.state = StateForStage[Kind(q)],
                     !.transitions = PushTransition(@, s.tick)]
  IN [r EXCEPT !.history = Opened(r)]

\* The plan on its new rung, with a new stage generation, a new attempt and an
\* open record.
Entered(q, s) ==
  LET r == [q EXCEPT !.stageGen = @ + 1,
                     !.attempt = q.totalAttempts + 1,
                     !.totalAttempts = @ + 1,
                     !.attemptsInStage = 1,
                     !.state = StateForStage[Kind(q)],
                     !.updated = s.tick,
                     !.transitions = PushTransition(@, s.tick)]
  IN [r EXCEPT !.history = Opened(r)]

\* The ladder ends with COMPLETE, so a rung of another kind always has a next one.
AdvanceStage(i, s) ==
  LET p == plans[i] IN
  /\ Verified(p, s) /\ HasRoom(p)
  /\ Kind(p) # "COMPLETE"
  /\ p.stageGen < MaxGeneration
  /\ Update(i, Entered(Climbed(p, s), s))

AdvanceExhausted(i, s) ==
  LET p == plans[i] IN
  /\ Verified(p, s) /\ HasRoom(p)
  /\ Kind(p) # "COMPLETE"
  /\ p.stageGen >= MaxGeneration
  /\ Update(i, Failed(Climbed(p, s)))

\* Every outcome that changes a plan needs a live plan on a rung, and all but the
\* first need a snapshot that names the plan as it is.
AdvanceWith(i, s) ==
  \/ AdvanceStale(i, s)
  \/ /\ Coherent(plans[i], s)
     /\ \/ AdvanceOutlived(i, s)
        \/ AdvanceCrossedBoundary(i, s)
        \/ AdvanceRecurrence(i, s)
        \/ AdvanceRateExceeded(i, s)
        \/ AdvanceBudgetExhausted(i, s)
        \/ AdvancePartial(i, s)
        \/ AdvanceHistoryFull(i, s)
        \/ AdvanceCommit(i, s)
        \/ AdvanceStage(i, s)
        \/ AdvanceExhausted(i, s)

Advance(i) ==
  /\ IsLive(plans[i]) /\ HasStage(plans[i])
  /\ \E s \in Snapshots : AdvanceWith(i, s)

-----------------------------------------------------------------------------
PlanNext(i) ==
  \/ CreatePlan(i)
  \/ ErasePlan(i)
  \/ RequireRevalidation(i)
  \/ Pause(i)
  \/ Resume(i)
  \/ RollbackStale(i)
  \/ RollbackHistoryFull(i)
  \/ Rollback(i)
  \/ RevalidateNoStage(i)
  \/ RevalidateHistoryFull(i)
  \/ Revalidate(i)
  \/ RevalidateExhausted(i)
  \/ Advance(i)

Next ==
  \/ Tick
  \/ BeginEpoch
  \/ ReplacePolicy
  \/ ImportState
  \/ NotifyChange
  \/ \E i \in PlanIds : PlanNext(i)

Spec == Init /\ [][Next]_vars

-----------------------------------------------------------------------------
(* Invariants.  Each is a predicate of one plan, required of every plan.   *)

\* Every variable has its type, and the stored policy is one of the ladders.
TypeOK ==
  /\ epoch \in Nat
  /\ policyGen \in PolicyGens
  /\ plans \in [PlanIds -> Plans]
  /\ now \in Nat

\* A live plan that is not flagged for revalidation is bound to the current
\* epoch and to the stored policy.  resume and pause rely on it: neither compares
\* epochs or policy generations, so every epoch change, policy change and restart
\* must have flagged every live plan, the paused and rolled back ones included.
BindingOf(p) == IsLive(p) /\ ~p.revalidationRequired => Bound(p)
BoundOrFlagged == \A i \in PlanIds : BindingOf(plans[i])

\* The state of a plan agrees with its rung: a stage state is the one of the rung
\* the plan stands on under the stored policy, although a policy may be replaced
\* and resume recomputes the state from the rung; a flagged plan is in no stage
\* state and is not rolling back.
StageStateOf(p) ==
  /\ p.state \in StageStates =>
       ~p.revalidationRequired /\ HasStage(p) /\ p.state = StateForStage[Kind(p)]
  /\ p.state = "REVALIDATION_REQUIRED" => p.revalidationRequired
  /\ p.state = "ROLLING_BACK" => ~p.revalidationRequired
StateMatchesStage == \A i \in PlanIds : StageStateOf(plans[i])

\* Completion lineage: no idempotency key is recorded twice, so a failed
\* completion is never committed later; a committed completion is the last one
\* and belongs to a plan that can do nothing more.
UniqueKeys(p) ==
  \A j, k \in DOMAIN p.completions : p.completions[j].key = p.completions[k].key => j = k
CommittedIsLast(p) ==
  \A k \in DOMAIN p.completions :
    p.completions[k].state = "COMMITTED" =>
      k = Len(p.completions) /\ p.state \in TerminalStates
CompletedIsCommitted(p) ==
  p.state = "COMPLETED" =>
    p.completions # <<>> /\ p.completions[Len(p.completions)].state = "COMMITTED"
LineageOf(p) == UniqueKeys(p) /\ CommittedIsLast(p) /\ CompletedIsCommitted(p)
CompletionLineage == \A i \in PlanIds : LineageOf(plans[i])

\* Every attempt is accounted for: one to start with, one for each rung entered,
\* one for each revalidation and one for each failed completion, whatever order
\* pauses, rollbacks, restarts and revalidations came in.
AccountOf(p) ==
  p.state \notin {"ABSENT", "FAILED"} =>
    /\ p.stageGen = p.index + p.generation
    /\ p.totalAttempts = p.index + p.generation + Len(p.completions)
                           - (IF p.state = "COMPLETED" THEN 1 ELSE 0)
    /\ p.attempt <= p.totalAttempts
    /\ p.attemptsInStage <= MaxStageAttempts
AttemptAccounting == \A i \in PlanIds : AccountOf(plans[i])

\* Only the last stage record may be open, and an open record carries the rung,
\* the stage generation and the attempt the plan is at: closing it never
\* attributes an outcome to another attempt.
OpenRecordOf(p) ==
  /\ \A k \in DOMAIN p.history :
       p.history[k].outcome = "PENDING" => k = Len(p.history)
  /\ HasPending(p) =>
       /\ LastRecord(p).index = p.index
       /\ LastRecord(p).generation = p.stageGen
       /\ LastRecord(p).attempt = p.attempt
OpenRecordIsCurrent == \A i \in PlanIds : OpenRecordOf(plans[i])

\* No rung is skipped: every rung below the current one has a record closed as a
\* success, and a completed plan has one for its own rung too.
Succeeded(p, n) ==
  \E k \in DOMAIN p.history : p.history[k].index = n /\ p.history[k].outcome = "SUCCEEDED"
ClimbOf(p) ==
  /\ \A n \in 0..(p.index - 1) : Succeeded(p, n)
  /\ p.state = "COMPLETED" => Succeeded(p, p.index)
LadderClimbed == \A i \in PlanIds : ClimbOf(plans[i])

\* A plan that has used up its rollback budget is not live any more, and the
\* rollback history never outgrows its limit.
RollbacksOf(p) ==
  /\ Len(p.rollbacks) <= MaxRollbackHistory
  /\ IsLive(p) /\ p.rollbacks # <<>> => Len(p.rollbacks) < MaxRollbacks
RollbackBudget == \A i \in PlanIds : RollbacksOf(plans[i])

\* The limit of the stage history is tested only when no record is open, and a climb
\* appends the next rung's record after the test.  The history may therefore outgrow
\* the limit, but by no more than one record for each rung climbed: the records of
\* revalidations and rollbacks, of which there may be many on one rung, never do.
HistoryOf(p) == Len(p.history) <= MaxStageHistory + p.index
HistoryBounded == \A i \in PlanIds : HistoryOf(plans[i])

Successes(p) == {k \in DOMAIN p.history : p.history[k].outcome = "SUCCEEDED"}

\* One snapshot never carries a plan over two rungs: with a dwell time, the ticks
\* at which rungs were left strictly increase, although a snapshot may be as old
\* as the last transition and may be submitted any number of times.
ExitsOf(p) ==
  \A j, k \in Successes(p) : j < k => p.history[j].exited < p.history[k].exited
OneAdvancePerTick == Dwell > 0 => \A i \in PlanIds : ExitsOf(plans[i])

\* Recovery cannot oscillate without bounded hysteresis: a window that ends with
\* an advance holds at most max_transitions_per_window advances.
RateOf(p) ==
  \A k \in Successes(p) :
    Cardinality({j \in Successes(p) :
                   j <= k /\ p.history[k].exited - p.history[j].exited <= Window})
      <= MaxTransitions
AdvanceRateBounded == \A i \in PlanIds : RateOf(plans[i])

-----------------------------------------------------------------------------
(* Action properties.                                                      *)

\* A flagged plan makes no progress, and only a revalidation, which moves the plan
\* to a new generation, clears the flag of a plan that stays live.
FlagBlocksProgress ==
  [][\A i \in PlanIds :
       LET p == plans[i]  q == plans'[i] IN
       IsLive(p) /\ p.revalidationRequired =>
         /\ q.index = p.index
         /\ q.completions = p.completions
         /\ ~q.revalidationRequired /\ q.state # "FAILED" => q.generation > p.generation
    ]_vars

\* A plan that stays live is bound to another epoch or another policy generation
\* only together with the revalidation flag or by a revalidation: a restart never
\* adopts a plan, paused or rolled back, into the new epoch as it was.
ReboundOnlyByRevalidation ==
  [][\A i \in PlanIds :
       LET p == plans[i]  q == plans'[i] IN
       /\ IsLive(p) /\ IsLive(q)
       /\ q.epoch # p.epoch \/ q.policyGen # p.policyGen
       => q.revalidationRequired \/ q.generation > p.generation
    ]_vars

\* Terminal plans never change state, until they are erased.
TerminalIsFinal ==
  [][\A i \in PlanIds :
       plans[i].state \in TerminalStates =>
         \/ plans'[i].state = "ABSENT"
         \/ /\ plans'[i].state = plans[i].state
            /\ plans'[i].index = plans[i].index
            /\ plans'[i].completions = plans[i].completions
    ]_vars

\* Nothing a plan is identified by ever regresses, and the lineage only grows.
NeverRegresses ==
  [][\A i \in PlanIds :
       LET p == plans[i]  q == plans'[i] IN
       q.state # "ABSENT" =>
         /\ q.generation >= p.generation /\ q.stageGen >= p.stageGen
         /\ q.index \in {p.index, p.index + 1}
         /\ q.index # p.index => q.updated > p.updated \/ Dwell = 0 \/ q.state = "FAILED"
         /\ q.epoch >= p.epoch /\ q.policyGen >= p.policyGen
         /\ q.updated >= p.updated
         /\ Len(q.history) >= Len(p.history)
         /\ Len(q.completions) >= Len(p.completions)
    ]_vars

-----------------------------------------------------------------------------
(* What a client sees of a plan.                                           *)

\* A flagged plan is stale whatever its state is.  A paused plan has to be resumed,
\* and one that is to roll back has to; one that has rolled back may go on by itself.
Phase(p) ==
  CASE p.state = "ABSENT" -> "none"
    [] p.state = "COMPLETED" -> "completed"
    [] p.state = "FAILED" -> "failed"
    [] IsLive(p) /\ p.revalidationRequired -> "stale"
    [] IsLive(p) /\ ~p.revalidationRequired ->
         IF p.state \in {"PAUSED", "ROLLING_BACK"} THEN "held" ELSE "moving"

View(p) == [phase |-> Phase(p), rung |-> p.index, term |-> p.generation]

Lifecycle == INSTANCE PlanLifecycle WITH
  Top <- [g \in PolicyGens |-> Len(Ladder[g])],
  era <- <<epoch, policyGen>>,
  view <- [i \in PlanIds |-> View(plans[i])]

\* The engine keeps the promise of PlanLifecycle, whatever is called in whatever
\* order: plans climb and complete only while they move, every change of epoch or
\* policy makes all live plans stale at once, and only a new term takes them on.
LifecycleSpec == Lifecycle!Spec

-----------------------------------------------------------------------------
(* Statements the documentation or the code makes, that the code does not  *)
(* keep.                                                                   *)

\* Recovery restarts only after the cooldown the last rollback imposed.
CooldownRespected ==
  [][\A i \in PlanIds :
       LET p == plans[i]  q == plans'[i] IN
       q.index > p.index /\ p.rollbacks # <<>> =>
         q.updated >= p.rollbacks[Len(p.rollbacks)] + Cooldown
    ]_vars

\* What the engine exports, the snapshot reader accepts: the notes of a plan fit the
\* limit it enforces, however often a stale plan is advanced.
ExportReadable == \A i \in PlanIds : plans[i].notes <= MaxExplanationItems
=============================================================================
