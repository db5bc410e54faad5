# Verification of Congestion-Recovery in TLA+

This directory holds TLA+ modules that model the recovery engine, what it decides
from evidence, authority and obligations, the durable store, and the coordinator
with its workers; TLC configurations that check them on small instances; and
TLAPS proofs about the engine, the levels, the store and the session for every
value of the constants.

Run from this directory:

    tlc -workers 2 -config EngineLifecycle.cfg MCRecoveryEngine
    tlc -workers 2 -config LevelsRun.cfg MCRestorationLevels
    tlc -workers 2 -config StoreCrashes.cfg DurableStore
    tlc -workers 2 -config CoordinatorRun.cfg MCCoordinatorSession
    tlapm RecoveryEngine_proofs.tla        (also RecoveryLineage_proofs, RecoveryActions_proofs)
    tlapm RestorationLevels_proofs.tla     (also LevelsEngine_proofs)
    tlapm DurableStore_proofs.tla
    tlapm CoordinatorSession_proofs.tla    (also ProvidedRuns_proofs)

## 1. The system

Congestion-Recovery drives a *recovery plan* up a *restoration ladder*
(OBSERVE, PROBE, PARTIAL_RESTORE, HOLD, EXPAND, COMPLETE) once congestion on a
set of resources has cleared. Each rung asks for evidence, waits a dwell time,
and may consume one of a bounded number of attempts. Recurrence of the
congestion rolls the plan back or pauses it. Changes of epoch, policy or
resource force the plan to *revalidate*, which opens a new generation.

### Inventory

| Component | Source | State | Operations | What makes it correct |
|---|---|---|---|---|
| Recovery engine | `src/src/engine.cpp`, `engine.hpp`, `plan.hpp` | `epoch_`, `policies_`, `plans_` (each with rung, attempts, generations, stage, completion and rollback lineage) | create, erase, advance / complete, pause, resume, rollback, revalidate, invalidation, begin_epoch, replace_policy, export / import | no progress under a stale binding; no rung skipped; at most one committed completion; budgets respected; lineage consistent |
| Policies and limits | `policy.cpp`, `policy.hpp` | - | `validate_policy`, `stage_at` | ladders strictly increase, OBSERVE first, COMPLETE last |
| Evidence evaluation | `engine.cpp:523-755` | - | requirement evaluation, freshness, recurrence | missing, stale or unusable evidence never satisfies a requirement |
| Authority vector | `authority.cpp` | grants by authority id | put, revoke, remove, expiry, candidate levels | a level never exceeds a live, current grant |
| Restoration and compensation | `restoration.cpp` | level per action | compensating plan | compensation reverses what was applied |
| Protected obligations | `obligations.cpp` | obligations | blocking predicate | a violated obligation blocks the rise of a level |
| Durable store and restart | `DurableStore`, `commit` and `setup` in `coordinator.cpp`, `journal.cpp` | journal file, snapshot file and its temporary, next sequence, open attempt | load, append, flush, write_snapshot, commit, restart | what was acknowledged survives a crash; one committer per epoch; the journal stays in order |
| Coordinator scenarios and worker sessions | `coordinator.cpp`, `coordinator.hpp` | engine, registered workers and their boots, clock | registration, evidence collection, grant and report, staged recovery, rollback, lifecycle scenarios | a dead or fenced worker never advances a plan; an ambiguous attempt is never counted as a success; a staged recovery ends |
| Wire protocol and transport | `protocol.cpp` | stream of frames | encode, decode, send / receive frame | a frame is delivered whole or not at all |
| Worker | `crworker.cpp` | boot, granted epoch | HELLO, evidence reply, stage report | reports only what was granted |
| Adjacent log, explanations, CLI, examples, benchmarks | `adjacent.cpp`, `explain.cpp`, `crcli.cpp`, ... | - | read-only or I/O | not modelled |

### Interaction

Callers enter the engine through public methods that hold one mutex for their
whole body, so a call is atomic (`evaluate` alone reads without the mutex). The
coordinator is a single-threaded caller: it asks a worker for evidence over a
socket, calls `advance`, appends a journal record, flushes it and writes a
snapshot. After a crash it loads the snapshot, replays the journal, and imports
the state under a newer epoch. Plans interact only through the epoch and the
policies.

### Hard behaviour

* calls in an order no test wrote: pause, epoch change, resume; rollback,
  revalidation, advance; revalidation after completion;
* a snapshot that is delayed or submitted again, before and after a failure, a
  commit or a restart;
* limits that are tested at one place and consumed at another;
* a restart that rebinds plans to the new epoch;
* a process that dies between or inside the steps of a commit, several times in a
  row, with the files as the only thing the next process sees;
* a worker that dies between a grant and its report, a report that comes late, a
  replayed report, an older incarnation that connects again;
* a stream without frame boundaries, and two sides that wait for each other;
* levels that authority clamps on one rung and not on the next, readings that
  are late or missing, a rollback that starts from what was observed.

`PROJECT.json` lists the hazards, each at its line, with the properties that
cover it.

## 2. Plan

1. `RecoveryEngine`: the lifecycle of plans, its runs and its proofs (done).
2. `DurableStore`: commit as append, flush, snapshot; process death between the
   steps; load, replay and restart under a newer epoch; shown to implement
   `StableState`, an atomic register; its proofs (done).
3. `Stream`, `WorkerProcess`, `CoordinatorSession`: the workers, their streams and
   the coordinator over the engine; shown to implement `StagedRecovery`; liveness
   (done).
4. `EvidenceRules`, `RestorationRules`: the pure rules of evidence, authority,
   obligations and compensation (done).
5. `RestorationLevels`: the levels of a plan, composing 4 with the engine (done).
6. `PlanLifecycle`: the abstract specification a client sees (moving, held, stale,
   ended), shown to be implemented by `RecoveryEngine` (done).
7. Proofs about the levels, with lemmas about their rules, and that they implement
   the lifecycle (done).
8. Proofs about the engine: the open record, the climb, the accounting of
   attempts, the rollback budget, one advance per tick, the advance rate, the
   action properties (done).
9. Proofs about the session: its types, `OneHolderPerAttempt`, `OneFrameAtATime`,
   `AnswersMatchRequests`, the refinement of 3, `ProvidedRunSucceeds` (done).

The modules compose as follows:

    CoordinatorSession - EXTENDS WorkerProcess - EXTENDS Stream
       |  E!  the engine           |  Staged!  the abstract specification
    RecoveryEngine              StagedRecovery
       |  E!  the engine
    RestorationLevels - EXTENDS RestorationRules - EXTENDS EvidenceRules

    RecoveryEngine - Lifecycle!  the abstract specification - PlanLifecycle
    DurableStore - Stable!  the abstract specification - StableState

and the proofs, each extending the one to its right and the module it is named after:

    RecoveryActions_proofs - RecoveryLineage_proofs - RecoveryEngine_proofs
       |  EP!  instantiated as the engine E of RestorationLevels
    RestorationLevels_proofs - LevelsEngine_proofs
    DurableStore_proofs
    ProvidedRuns_proofs - CoordinatorSession_proofs
       |  EP!  RecoveryEngine_proofs, instantiated as the engine E of CoordinatorSession

`CoordinatorSession` writes its snapshot in one step: that is what `DurableStore` is
shown to provide. It takes the evidence of a snapshot as a verdict, as
`RecoveryEngine` does: `RestorationLevels` computes that verdict.

## 3. Modules

### RecoveryEngine

The lifecycle of plans, from `engine.cpp`. One action per outcome of a public
method.

| Variable | In the code |
|---|---|
| `epoch` | `epoch_` |
| `policyGen` | generation of the stored policy; `Ladder[policyGen]` is its ladder |
| `plans` | `plans_`, one record per slot, `"ABSENT"` where there is none |
| `now` | no variable of the code: the latest tick a caller may pass |

In a plan, `notes` counts the explanation items that invalidations append; the
snapshot reader refuses more than `MaxExplanationItems` of them, which the
appending code does not look at (`ExportRefused`). The stage history can exceed
its limit too: the limit is tested only when no record is open
(`engine.cpp:1184`), and the next rung's record is appended after that test
(`HistoryBounded` says by how much).

| Actions | Code |
|---|---|
| `CreatePlan`, `ErasePlan` | `create_plan`, `erase_plan` |
| `BeginEpoch`, `ReplacePolicy`, `ImportState` | `begin_epoch`, `replace_policy`, `export_state` then `import_state` |
| `NotifyChange`, `RequireRevalidation` | `notify_resource_change`, `notify_policy_change`, `require_revalidation` |
| `Pause`, `Resume` | `pause`, `resume` |
| `RollbackStale`, `RollbackHistoryFull`, `Rollback` | the outcomes of `rollback` |
| `RevalidateNoStage`, `RevalidateHistoryFull`, `Revalidate`, `RevalidateExhausted` | the outcomes of `revalidate` |
| `Advance...` | the outcomes of `compute_decision_locked`, applied by `advance` and `complete` |

`compute_decision_locked` is a chain of early returns. The module names its
prefixes: `Coherent` (the bindings match), `Evaluated` (not too old), `Settled`
(evidence satisfied, dwell and state allow it), `Allowed` (budgets), `Verified`
(levels verified). Each `Advance...` action is guarded by the prefix that leads
to it. Calls that change nothing (an unknown plan, an invalid argument, a
replayed completion, a hold) are stuttering steps and have no action.

Abstractions:

* *Evidence is a verdict*: the first test the snapshot fails, in the order of
  the code. Levels, grants and obligations are inside the verdict `refused`
  (`RestorationLevels` opens them).
  Every verdict is possible in every call, which is more than the code allows,
  so safety properties carry over.
* *Clock*: the caller supplies ticks. A snapshot carries any tick up to `now`,
  so it may be delayed, repeated or reordered; the other calls carry `now`.
* *One StageSpec*: all rungs share their dwell time and limits, and there is
  one policy id. The generations of the policy differ in their ladder and in what
  they do on recurrence; the other numbers of `RecoveryPolicy` (budgets, window,
  lifetime, `max_rollbacks`) are the same for all of them.
* *Completion keys* are the tuples the code hashes: collisions are left out.
* *Restart* is `export_state` followed by `import_state`: nothing is lost
  between the two here. What a crash loses belongs to the durable store.

### PlanLifecycle

`PlanLifecycle` is what a client of the engine is promised of its plans, whatever it
calls and in whatever order. Of a plan it sees a phase, a rung and a term (the
plan generation); of the engine the epoch and the policy generation in force (`era`).
A plan moves, is held, is stale, has ended or is not there. Only a plan that moves climbs,
one rung at a time, or completes, and it completes on the last rung of the policy
in force and nowhere else. `NewEra` makes every live plan stale in the step that
changes the era; `Doubt` makes any set of plans stale. A stale plan fails, or gets a
new term by `Renew`, and does nothing else. An ended plan may be closed; a completed one
fails only where the policy in force no longer has its rung (`Withdraw`, section 6).

The mapping (`View`) takes the revalidation flag first: a flagged plan is `"stale"`
whatever its state says, since pause and rollback change the state of a flagged
plan. Of the others those that are `PAUSED` or `ROLLING_BACK` are `"held"`. A plan that is
`ROLLED_BACK` is `"moving"`: nothing but its cooldown keeps `advance` from taking it on.
The attempts, the histories, the clock and the evidence are hidden.

### StableState and DurableStore

`StableState` is the abstract specification of a durable store: a register with
a copy in memory (`memory`), a copy that survives (`stable`), and the last state
a caller was told is safe (`acked`). `Commit` makes the copy stable in one step;
a process may stop at any time and the next one starts from `stable`.

`DurableStore` is what `coordinator.cpp` does with its files, one action per file
operation, with a process that may die between any two of them.

| Variable | In the code |
|---|---|
| `step` | the place in `commit` and `write_snapshot` the process is at; `"down"` when there is no process |
| `stopping` | the branch of `run_staged` that writes a last snapshot and returns |
| `epoch`, `state` | the engine's `epoch_`; its plans and policies as a number that every change raises |
| `next`, `openAttempt` | `next_sequence_`, `open_attempt_epoch_` |
| `temp`, `snapshot`, `journal` | the files `recovery.snapshot.tmp`, `recovery.snapshot`, `recovery.journal` |
| `acked`, `boot`, `changes` | history: last acknowledged state, number of the process, number of engine changes |

| Actions | Code |
|---|---|
| `StartRestored`, `StartFresh` | `DurableStore::load` and the two branches of `Coordinator::setup` |
| `Work` | any engine call of the coordinator that changes its state |
| `AppendRecord`, `TearRecord` | `append`, complete or cut short by the death of the process |
| `Flush` | `flush`, with the size limit of the journal |
| `OpenTemp`, `FinishTemp`, `Replace`, `Return` | `write_snapshot` statement by statement, and the return of `commit` |
| `StopHere` | the snapshot `run_staged` writes without a record when it stops at a rung |
| `Crash` | the process ends or dies, at any step |
| `DamageSnapshot` | only in `SpecWithDamage`: the file is damaged while no process runs |

`Replayed`, `ResumedSequence` and `UnfinishedAttempt` are the pure part of `load` and
`replay_journal`: which records are read, where the sequence resumes, and which
attempt is reported as open. `FoldLeft` stands for the loops; the records of an older
epoch (`Fresh`), which `replay_journal` does not return, are passed over in the folds.

A restart computes the epoch from the snapshot and writes nothing before its
first commit, so a process that dies before that leaves its epoch to the next
one. `OneCommitterPerEpoch` is what still holds: only one of them ever puts a
snapshot in place under it.

The refinement mapping takes `up` as `step # "down"`, `memory` as `state` and
`stable` as `snapshot.state`: the rename in `Replace` is the commit point, everything
else before it is invisible to the next process.

Failure model: the process dies, the machine does not. The code flushes its
streams and renames, and never calls `fsync`; what the operating system was given
is therefore kept. A file operation that fails makes `commit` return false, which
ends the run: it is the same as a death at that step.

### EvidenceRules and RestorationRules

Pure definitions, without state. `EvidenceRules` is `evaluate_requirements_locked`
and `collect_observed_locked`: which readings of a snapshot contradict each other
(`Contradictory`), which count for a requirement (`Usable`, `Admitted`), what the
requirement makes of them (`Meets`), and which applied levels they show
(`CollectObserved`). `RestorationRules` is `authority.cpp` (`Takes`, `Live`),
`build_candidate_locked` (`Candidate`, `CandidateRefused`), `obligations.cpp`
(`Blocks`) and `build_compensating_plan` (`Compensation` and its parts).

A vector of levels is a function whose domain is the resources it has entries
for. The sort that finds contradictory neighbours is a quantifier over pairs,
which says the same. Confidence is in hundredths, and a value outside 0..100
stands for all that is out of range, NaN included. Sample counts do not saturate.
`ReadingRecords`, `GrantRecords` and `SightingRecords` are the structures the rules
read, reduced to the fields they test.

### RestorationLevels

What the engine restores: `authority_`, the levels of one plan, and what a
rollback takes back. Every call goes through the action of `RecoveryEngine` that
models it, with a snapshot whose verdict is computed from the readings.

| Variable | In the code |
|---|---|
| `epoch`, `plans`, `now` | as in `RecoveryEngine` |
| `authority` | `authority_`, `NoGrant` where there is no entry |
| `authorized` | `RecoveryPlan::authorized`, the levels in force |
| `lastObserved` | `RecoveryPlan::last_observed` |
| `rolledBack` | the last `RollbackRecord`, until the next rung is left |
| `basis` | history: when the oldest reading that counted for the last rung was made |

| Actions | Code |
|---|---|
| `Grant`, `Revoke`, `DropStale` | `grant_authority`, `revoke_authority`, `drop_stale_authority` |
| `BeginEpoch`, `Restart` | `begin_epoch`, `import_state` |
| `CreatePlan`, `Advance`, `Rollback` | `create_plan`, `advance`, `rollback` with what they do to levels |
| `OtherCall` | `require_revalidation`, `revalidate`, `resume`, stale calls, and the clock |

`RequireCompletionEvidence` and `RequireStableCompletion` are the two fields of
`RecoveryPolicy` that say what the COMPLETE rung asks for beyond its requirements; both
are true by default. The runs about levels set both; the proofs hold for either value
of each. A plan is created with nothing
observed and nothing rolled back, whatever the slot held before. A restart forgets what
was observed; since nothing is asked after a plan has ended, what
`CompletedAsObserved` says of a completed plan is what was observed when it completed.

`LevelsAssumption` is what `create_plan` and `validate_policy` demand of targets,
margins and obligations. What the caller does (`Grants`, `Reports`, `Sightings`) is
enumerated by the MC module, one case for each branch of the rules. `DomainAssumption`
says that levels, floors and ceilings are unsigned and that reports are made of
readings, `PolicyIsValid` that the ladder is one `validate_policy` accepts: the proofs
need nothing else of them. The limits of the engine `E` are out of reach here: its own runs
and proofs are about them.

### Stream and WorkerProcess

`Stream` keeps of TCP what the conversation depends on: each link has two ends
and a queue of frames in each direction; a read may return two frames at once,
which `recv_frame` refuses; what is sent to a closed end is lost, and the send
may or may not report it; what was sent before a close may be read or lost; a
receive may time out while nothing has arrived. Frames are whole: the workers
and the coordinator write well-formed frames, so that encoding, decoding and
checksums never fail between them.

`WorkerProcess` is `crworker.cpp`: one worker process per element of `Processes`, each started at
most once, with its worker, boot and role.

| Variable | In the code |
|---|---|
| `link` | the socket of each process, both ends |
| `proc` | where `main` or `run_replay` of each process is |
| `recorded` | the first line of the `--record` file |
| `applied` | history: the attempts that were applied |

| Actions | Code |
|---|---|
| `Connect`, `Welcomed`, `Refused` | the HELLO and its answer |
| `Report`, `Publish`, `Leave`, `LoseLink` | the branches of the loop |
| `Replay`, `ReplayAnswered` | `run_replay`: the recorded report is sent again under an old HELLO |
| `Die` | `--die-before-report`, or any death |

A replay process says HELLO with the worker and the boot of the record file
(`run_replay`), which `ProcessAssumption` states; without it the recorded report would
arrive under another name than it was made.

### CoordinatorSession and StagedRecovery

`CoordinatorSession` is one thread of `Coordinator::run`, in as many processes as
`MaxRuns`. An action is one wait that ends and what follows up to the next send,
write or wait.

| Variable | In the code |
|---|---|
| `epoch`, `plans`, `now` | the engine's, and `tick_` |
| `at`, `waitFor`, `conn` | the place in `run`, `accept_...`, `run_staged` the thread is at |
| `backlog` | the connections the kernel holds for `accept` |
| `peers`, `applier`, `observer` | `peers_` and the pointers of `run_staged` into it |
| `scenario`, `turn`, `recurring`, `outcome` | `config_.scenario`, `guard`, `recurrence`, the result |
| `disk` | the snapshot file |
| `runs`, `mishap`, `granted` | history: processes started, whether this one met what its scenario does not provide for, its grants |

| Actions | Code |
|---|---|
| `StartRun` | `setup`, with or without a snapshot |
| `HelloMissing`, `HelloStale`, `StaleFrame`, `Register` | the outcomes of `register_connection` |
| `Replace`, `ReplacementRefused` | the outcomes of `accept_replacement` |
| `AcceptTimeout` | nobody connects in `accept_workers`, `accept_extra`, `accept_replacement` |
| `Begin`, `Enter` | `run` up to `run_staged` |
| `LeaveLoop`, `Stop`, `GrantStage`, `ReceiveReport`, `WorkerDeath`, `RevalidateReplaced`, `ReceiveEvidence`, `EvidenceLost`, `RollBack`, `SaveRollback`, `ResumePlan`, `Save` | a pass of `run_staged` |
| `Finish`, `Crash` | `finish`; the process dies |
| `StartProcess`, `ProcessStep`, `KillProcess` | the operator and the workers |

A *mishap* is what the scenario of the run does not provide for: a death, a
receive that fails while the other side is there, a connection nobody waits for,
a failed write. A run meets at most one (a bound of the model); what the
scenario provides for (the death of the applier in `worker-death`, a probe that
stays out) is none. `ProvidedRunSucceeds` is about the runs without one.
Two frames that a worker reads at once (a welcome and the first grant) are
such a mishap: the worker leaves, and the coordinator takes it for dead.

`PolicyIsValid` states of `Rungs` what `validate_policy` demands of the ladder; the other
numbers of `scenario_policy` are in the module. `ExpectedWorkersOnly` assumes that the processes belong to no more workers than
`--workers` says. `peers_` is a vector, `run_staged` holds pointers into it, and a
peer that registers later as a further worker would move it: what those
pointers are worth then is not modelled.

`StagedRecovery` is what the session promises: one rung at a time, left only when
the worker that is registered now has applied the present attempt, durable
before the next is left, and a restart that goes on from the durable rung. The
mapping takes the plan's index for `rung`, the index on disk for `saved`, and
for `applied` that a registered peer applied the plan's present attempt. What a
process that was replaced has applied does not count, although the coordinator
never compares a report with a grant: the streams are what keeps them apart.

## 4. Runs

Bounds of the model are named constants: `MaxEpoch` and `MaxTick` (guards of the
actions that raise them) and the limits of the code itself, which are set low.
A plan's life is short in each dimension (a ladder of two or three rungs, at
most five attempts), so ticks up to 3 or 4 let every order of dwell, cooldown,
boundary and lifetime happen. One plan is enough: plans share only the epoch and
the policy, every operation on one plan leaves the others alone, and the
theorems of section 5 hold for any set of plans. `EngineLifecycle` has the ladder of
three rungs, two policy generations (the second loses a rung and pauses on
recurrence where the first rolls back), two epochs, and a rollback history of one
entry, so that a second rollback finds it full; `EngineCompletion` has the shortest
ladder, stage and completion histories of two entries, which fill up, and a budget of
three rollbacks within a rollback history of three, so that it is the budget that fails
a plan and never the limit of the history.

| Run | Checks | Shows |
|---|---|---|
| `EngineLifecycle` | `TypeOK`, `BoundOrFlagged`, `StateMatchesStage`, `LadderClimbed`, `OneAdvancePerTick`, `OpenRecordIsCurrent`, `FlagBlocksProgress`, `ReboundOnlyByRevalidation`, `NeverRegresses`, `LifecycleSpec` | A plan on a ladder of three rungs, with epoch changes, restarts, a policy that loses a rung, pauses, rollbacks that may find their history full and revalidations in any order: it climbs without skipping a rung and never works under a stale binding, and implements `PlanLifecycle`. |
| `EngineCompletion` | `CompletionLineage`, `AttemptAccounting`, `RollbackBudget`, `HistoryBounded`, `AdvanceRateBounded`, `OpenRecordIsCurrent`, `TerminalIsFinal` | Failed and committed completions, replayed snapshots, the budgets of attempts and of three rollbacks and the transition rate on the shortest ladder, with stage and completion histories small enough to fill up. |
| `TerminalRevalidated` (violation) | `TerminalIsFinal` | A completed plan becomes FAILED when it is revalidated after the policy lost its rung. |
| `CooldownSkipped` (violation) | `CooldownRespected` | A revalidation clears the cooldown a rollback imposed, and the plan advances before it ends. |
| `ExportRefused` (violation) | `ExportReadable` | A stale plan that is advanced again and again collects more notes than the snapshot reader accepts: the exported state cannot be read back. |
| `StoreCrashes` | `TypeOK`, `AcknowledgedSurvives`, `JournalInOrder`, `StableSpec`, `OneCommitterPerEpoch` | Three processes one after the other commit and die at every step, with torn and oversized journals: the files behave as an atomic register. |
| `SequenceRepeated` (violation) | `SequencesNeverRepeat` | Two commits of one process take the same journal sequence. |
| `AttemptUnreported` (violation) | `UnfinishedReported` | A process dies between a journal record and its snapshot, and the restart reports no open attempt. |
| `DamageAccepted` (violation) | `DamageRefused` | A damaged snapshot is followed by a fresh start. |
| `CoordinatorRun` | `TypeOK`, `AnswersMatchRequests`, `OneFrameAtATime`, `OneHolderPerAttempt`, `ProvidedRunSucceeds`, `EverythingEnds`, `StagedSpec` | Two coordinator processes, one after the other, drive a plan with two workers of two boots each and a replayed report, through every scenario, with at most one mishap per run: sessions end, succeed when nothing unprovided happens, never mix answers up, and implement a staged recovery. |
| `LevelsRun` | `TypeOK`, `AuthorityIsCurrent`, `ObligationsKept`, `RollbackTakesBack`, `CompensationLands`, `CompletedAsObserved`, `WithinAuthority`, `OwnEvidence` | The levels of two resources on a ladder of three rungs, with grants that are replaced, revoked, expire or come from another epoch, late and partial readings, rollbacks and restarts in any order. |
| `AuthorityExceeded` (violation) | `WithinAuthority` | A HOLD rung that keeps the target of the rung before it needs no authority and raises a level above the ceiling that clamped that rung. |

No run of the engine or of its levels assumes fairness: callers may stop at any
time.

The store is checked with three processes (`MaxBoot`), two engine changes
(`MaxChange`), a journal of at most four records (`MaxJournal`) of which three fit
the size limit (`MaxRecords`). Two deaths in a row before a first snapshot, a torn
record between two processes, and a journal one record too large all happen
within these bounds; a third process sees whatever the first two left. The
runs of the store say `CHECK_DEADLOCK FALSE`: the last process ends and no other
is started. No run of the store assumes fairness: nothing forces a process to
commit or to be restarted.

The levels are checked with two resources, a ladder of three rungs like that of
`scenario_policy`, two epochs (`MaxEpoch`), three ticks (`MaxTick`), one revalidation
(`MaxRevalidations`), four grants (one that expires, one that allows less, one
that demands more than an obligation bears) and twelve reports: late, partial,
stale, not stable, contradictory, in the hold band and below it. The primary
requirement of the last rung leaves stability to `RequireStableCompletion`. Within these bounds a plan
completes at full and at clamped levels, rolls back and climbs again, loses
its grants to an epoch or a restart on any rung, and a rollback is given levels
that are unknown, in another unit, out of range or of a resource the target
lacks. Nothing is asked before there is a plan and after it has ended
(`Watched`): such calls only multiply states. The run says
`CHECK_DEADLOCK FALSE`: time ends at `MaxTick`. `AuthorityExceeded` has the same
inputs, a fourth rung and one tick more.

The session is checked with two appliers and two observers, each pair one worker
of two boots, a process that replays the first applier's report, and two
coordinator processes (`MaxRuns`). `StartedIn` says which workers may be started in
each run: the first boot of each, and a newer applier with the replay, in the
first; the newer boots and the replay in the second. The ladder is the first
two rungs of `scenario_policy` and its last; the rungs between repeat the same
exchange. With fewer rungs the rung from which recurrence is provoked
(`RecurrenceRung`, 2 in the code) and the rung `restart-part1` stops at (`StopAfter`, 3 in
the code) are both 1. `LoopGuard`, `TickStep` and the policy are the code's own values.
The run says `CHECK_DEADLOCK FALSE`: when the last run is over nothing is left to do.

`EverythingEnds` assumes `WF_vars(CoordinatorStep)` and `WF_vars(ProcessStep(p))`: a
thread that can go on does, and a wait with a timeout ends. The code justifies
it: every socket it receives from or accepts on has a timeout (`set_timeout_ms`,
8 seconds in the worker, `peer_timeout_ms` in the coordinator), no thread waits for
anything else, and a file operation returns. `AcceptTimeout` and a receive
that times out are therefore steps that must happen when nothing else does.
This is the reading of POSIX, where `SO_RCVTIMEO` bounds `accept` too; Windows does
not promise that. No fairness is assumed of `StartProcess`, `KillProcess`, `Crash` and
`StartRun`: nothing has to connect, die or be started.
Where a send to a closed connection raises SIGPIPE, which the programs leave at
its default, it ends the coordinator before it reports a result (`BrokenPipe`);
the model takes either outcome.

## 5. Proofs

### RecoveryEngine

`RecoveryEngine_proofs` proves, for every ladder, limit, set of plans and bound
that the assumptions `LadderAssumption`, `PolicyAssumption` and
`LimitAssumption` allow (these are what `validate_policy` and
`EngineLimits::valid` demand):

| Theorem | Property |
|---|---|
| `TypeCorrect` | `TypeOK` |
| `BindingCorrect` | `BoundOrFlagged`: a live plan without the revalidation flag is bound to the current epoch and policy |
| `StageStateCorrect` | `StateMatchesStage`: a plan's state agrees with its rung under the stored policy |
| `LineageCorrect` | `CompletionLineage`: no completion key twice; a committed completion is last and its plan is terminal |

The inductive invariant is `IInv == TypeOK /\ \A i \in PlanIds : Sound(plans[i])`
where `Sound` is the conjunction of the three predicates of one plan. None of
them is inductive alone: `resume` does not compare epochs, so `BoundOrFlagged`
rests on the flag, and the flag of a plan in a stage state is known only from
`StateMatchesStage`; `CompletionLineage` needs the type of the completion
sequence, and the freshness of a key is the guard `~Replayed` of every advance.
The proof is laid out by operation: one lemma gives the type of each helper
(`InvalidatedType`, `OpenedType`, ...), one per helper shows it keeps `Sound`, and
one lemma per action combines them. `Inductive` splits on the disjuncts of `Next`;
the theorems follow by PTL.

### The lineage of a plan

`RecoveryLineage_proofs` proves what a plan has collected to be right, with one more
assumption, `WindowAssumption`: the ring of transition ticks holds as many ticks as a
policy allows transitions, or as a ladder has rungs (64 and 6 in the code).

| Theorem | Property |
|---|---|
| `OpenRecordCorrect` | `OpenRecordIsCurrent` |
| `ClimbCorrect` | `LadderClimbed`: no rung skipped, whatever policies replaced each other |
| `AccountingCorrect` | `AttemptAccounting`: attempts used are attempts accounted for |
| `RollbackCorrect` | `RollbackBudget` |
| `HistoryCorrect` | `HistoryBounded`: past its limit by one record for each rung climbed at most |
| `ExitsCorrect` | `OneAdvancePerTick` |
| `RateCorrect` | `AdvanceRateBounded`: the window bounds the advances, although it forgets |

The inductive invariant is `LInv == TypeOK /\ \A i \in PlanIds : Traced(plans[i])`.
Beside the six properties `Traced` says of one plan: a slot without a plan is
`NoPlan` (`EmptyOf`; a creation starts from nothing); no plan is ahead of the clock,
the epoch or the policy (`TimeOf`); rungs are left in order and below the one the
plan is on (`RungsOf`, without which a second success of a rung could not be
excluded); no rung was left after the last transition (`LateOf`, needed for one
advance per tick because a delayed snapshot carries an older tick); the ring of ticks
is ordered and not ahead of the plan (`TicksOf`); and `WindowOf`, on which the advance
rate rests: since any tick, a plan has left at most as many rungs as the ring holds
ticks, or the ring is full of ticks since then. `WindowOf` counts two sets of different
shape, and pushing a tick onto a full ring removes one element of one of them;
the lemmas about it use the cardinality facts of `FiniteSetTheorems`.

The proof is laid out by what a step does to one plan: `Step(p, q)` lists it (nothing
recorded, created, rolled back, revalidated, failed on rebinding, marked by a
snapshot), `StepCases` shows that every action of the engine does to every plan one of
these, and each conjunct of `Traced` has a lemma for each of them. `HistoryCorrect` rests
on `LInv` and one lemma more, `HistoryKept`: a record is appended only when none is open,
and then either below the limit or on a new rung.

### What no step does to a plan

`RecoveryActions_proofs` proves the action properties and the refinement from `LInv` and
`StepCases`:

| Theorem | Property |
|---|---|
| `FlagCorrect` | `FlagBlocksProgress` |
| `ReboundCorrect` | `ReboundOnlyByRevalidation` |
| `GrowthCorrect` | `NeverRegresses` |
| `TerminalCorrect` | `TerminalIsFinal`, if `LaddersGrow`: no policy has fewer rungs than one before it |
| `EngineIsLifecycle` | `LifecycleSpec`: the engine implements `PlanLifecycle` |

`LaddersGrow` is a hypothesis of the theorem and not an assumption of the model: nothing
in the code demands it, and without it the property is false, which the run
`TerminalRevalidated` shows and section 6 reports. With it, `OnLadder` (every plan
stands on a rung of the stored policy) is invariant, and that is what keeps
`revalidate` from failing a terminal plan.

The refinement needs no such hypothesis. `Turned(v, w)` lists what a step may do to the
view of one plan, and `StepTurned` shows that every `Step(p, q)` does one of these:
`LastRung` (the kinds of a ladder increase, so COMPLETE is the last rung and no other)
tells a climb from a completion. A call on one plan is then a step of
`PlanLifecycle` (`TurnedIsStep`). A change of epoch or policy is `NewEra` because no plan is
bound to an epoch or a policy that is still to come (`TimeOf`, of `LInv`): the test by
which `begin_epoch` and `replace_policy` leave out the plans that are bound already never
passes over a live one.

### RestorationLevels

`LevelsEngine_proofs` proves `LevelsImplementEngine`: `Spec => EP!Spec`. `EP` instantiates
`RecoveryActions_proofs` with the values `RestorationLevels` gives its engine `E`, so
every theorem about the lifecycle is a theorem about the plan whose levels are
restored. Two instances of one module are different operators to the prover: the
lemmas `Same...` say that they agree, one per operator, from the helpers up to the
actions. What is left to show is that a verdict computed from readings is one of the
verdicts of the engine's snapshots (`EngineAdvances`) and that the values given to the
engine's constants meet its assumptions.

`RestorationLevels_proofs` proves, for any number of resources, any grants, obligations,
reports and observations, and any policy that `LevelsAssumption`, `DomainAssumption` and
`PolicyIsValid` allow: any valid ladder, targets, requirements and margins, any tolerance,
dwell time, cooldown and number of rollbacks, and either value of the two completion
flags. The window, the lifetime, the attempts and what a recurrence does are
fixed in the instance `E`:

| Theorem | Property |
|---|---|
| `LevelsTypeCorrect` | `TypeOK` |
| `AuthorityCorrect` | `AuthorityIsCurrent`: no grant of another epoch is held |
| `ObligationsCorrect` | `ObligationsKept`: the levels in force keep every active hard obligation |
| `TakenBackCorrect` | `RollbackTakesBack`: from a rollback until the next rung is left, in every state of the plan |
| `CompensationCorrect` | `CompensationLands` |
| `CompletionCorrect` | `CompletedAsObserved`, whose antecedent is that the policy requires evidence of completion |
| `EvidenceCorrect` | `OwnEvidence`: no rung is left on readings of before the last transition |
| `AuthorityRespected` | `WithinAuthority`, if every rung but the first requires authority |

The inductive invariant `LevelsInv` conjoins `EP!LInv` with `HeldIsCurrent` (grants held
are well formed and of this epoch, without which a candidate is not within `floor` and
`ceiling`), `LevelTypes`, and the four level properties. `LevelCases` says what a
call does to the levels: it leaves them, creates the plan, leaves a rung, or rolls
back; each conjunct survives each of the four. `OwnEvidence` and `WithinAuthority`
follow from the invariant for one step. The hypothesis of `AuthorityRespected` holds of
`scenario_policy`; `validate_policy` accepts policies without it, for which the run
`AuthorityExceeded` shows the property violated (section 6).

The proofs begin with lemmas about the operators of `EvidenceRules` and
`RestorationRules`: a set of naturals has a least element (by the well-foundedness of
`<`), so `Min` and `Max` of two numbers are what they should be; finitely many readings
have a latest (`LatestOf`: the one that fewest are later than); every
reading that counts is timely; a candidate that is not refused is within a live
grant on every resource (`GrantedLevels`) and keeps every obligation (`Unblocked`);
what a rollback lands on is observed and not above the target (`LandingFacts`); the
steps of a compensation and the resources they leave (`StepLands`,
`CompensationCovers`, `CompleteAssumesNothing`).

### DurableStore

`DurableStore_proofs` proves, for any number of processes, engine changes and
journal records:

| Theorem | Property |
|---|---|
| `StoreImplementsStableState` | `StableSpec`: the store implements `StableState` under the refinement mapping of section 3 |
| `AcknowledgedCorrect` | `AcknowledgedSurvives`: an acknowledged state is on disk, whole, from then on |
| `OneCommitterCorrect` | `OneCommitterPerEpoch`: two processes never both put a snapshot in place under one epoch |
| `StoreTypeCorrect` | `TypeOK` |
| `JournalCorrect` | `JournalInOrder`: neither epochs nor sequences go down along the journal |

The inductive invariant `StoreInv` is `Typed /\ InOrder /\ Fenced`. `InOrder` says
that the three copies of the state are ordered (acknowledged, on disk, in
memory) and what the temporary file holds at each step of `write_snapshot`;
without it `Replace` could put anything in place. `Fenced` says that the snapshot
on disk is of an epoch below the running one or was written by the running
process: that is what makes a reused epoch harmless. Every step is then either
a step of `StableState` or leaves its four variables alone; the refinement is
the conjunction of these facts by PTL.

The last two theorems need to know what a restart makes of the journal, and this of
a fold over a journal of any length. The invariant `JournalInv` adds to `StoreInv` that
every whole record is covered by the snapshot or follows it by one (`Covered`), and
that a process has the snapshot's epoch and sequence once it has committed, and the
next of both before (`ProcessNumbered`). So no record ever moves the fold
of `load`: the sequence resumes one beyond the snapshot's, whatever the journal holds,
and no attempt is reported as open. That a fold no element moves ends where it
started is `Unmoved`, by the least prefix at which it would not: the well-foundedness
of `<` does here what an induction theorem would. `Replayed` is a prefix of
the journal because a bounded set of naturals has a greatest element (`Greatest`).
`StableSpec` and the other theorems do not use any of this.

### CoordinatorSession

`CoordinatorSession_proofs` proves, for any number of processes, workers, boots and
runs, any ladder, any faults and any of the scenarios:

| Theorem | Property |
|---|---|
| `SessionTypeCorrect` | `TypeOK`: a coordinator that grants rungs or asks for evidence has a peer of each role, the engine's plan is a plan |
| `OneHolderCorrect` | `OneHolderPerAttempt`: an attempt is granted to one process only |
| `OneFrameCorrect` | `OneFrameAtATime`: no process ever has two frames on the way to the coordinator |
| `AnswersCorrect` | `AnswersMatchRequests`: what is taken for the answer is the answer |
| `SessionIsStaged` | `StagedSpec`: the session implements `StagedRecovery` |

The last two hold although the coordinator compares nothing in a report with its grant.
All rest on inductive invariants, one over the other:

* `SessionTyped`: types of the plan (by the theorems about the engine, instantiated as
  `EP`, with the lemmas `Same...` as for the levels), of the links and their frames, and
  of the control: `Equipped` says where the pointers `applier` and `observer` are valid.
* `HoldersInv`: a grant that is out is of a generation not above the plan's, and the
  grants of one generation are all of one process. `PlanMoves` shows that no call of
  the engine takes the generation back, and a replacement is driven only after a
  revalidation has raised it.
* `StreamInv`, about frames. On one link (`SoundLink`) a question is the last frame on
  its way down and nothing is on its way up while it is there; a connection that waits
  for `accept` has its HELLO in front and nothing else (`Queued`); no worker has two entries
  in `peers_` (`PeersKnown`); a peer that is asked nothing has nothing to say and no
  question on its way (`PeersCalm`); while an answer is due, the link holds the
  question, or the answer, or is closed (`Asked`). What a replayed report could do is
  excluded by `NoReplays` and `GrantsKnown`: a process whose report is on record was granted
  a rung in this run, so it or a newer boot of its worker has an entry, and the
  replay of it is refused as superseded before it can be the applier or the observer.

The proof of `StreamInv` has one lemma for what each operation on a link does to its
frames (`AnswerSound`, `GreetSound`, `AskSound`, `HeardSound`, `CloseSound`, ...), one for the
processes (`ProcessStreams`: `Follows` lists what any step of a process keeps of its
link), and one per kind of step of the coordinator: steps that touch no link,
greetings, registrations, the four steps that speak with a peer, the end of a run
and the start of the next.

The refinement needs three more facts, together `StagedInv`:

* `RungsInv`: wherever the coordinator waits or drives, the rung of the plan is the
  durable one. A call of the engine other than the evaluation of evidence leaves the
  rung alone (`RungKept`), and after that evaluation nothing is granted before a save.
  That a worker's death cannot move a plan off its rung needs that no completed plan
  is ever granted.
* `AttemptsInv`: no grant on its way, and no attempt a peer of this run ever applied, is
  numbered above the attempts the plan has used. A plan that climbs takes the next
  number, so nobody has applied it. The epoch does not help here: after a crash
  before the first save the next run has the same one, and its first attempt has the
  same generation and number as the first of the run before. What keeps the two apart
  is that a process connects once: one that applied anything is never in the backlog.
* `ReportedInv`: when the report is there, the registered applier has applied the present
  attempt. The worker applies and reports in one step, and by `Asked` the frame it
  answers is the present grant.

`StagedStep` then has three cases: the evaluation of evidence is a `Climb` when the plan
moves, by `HeldAttempt` and `NewAttempt`; the start of a run is `Restart`; any other step
keeps the rung, so it is a `Save`, or it is `Apply`, `Abandon` or a stutter.

`ProvidedRuns_proofs` proves one theorem more, for sessions that are `Configured` as the
scenarios are:

| Theorem | Property |
|---|---|
| `ProvidedRunsCorrect` | `ProvidedRunSucceeds`: a run that meets no mishap ends with success |

That is a statement about everything that could refuse, so its invariant has to say
why nothing does. `ProvidedInv` conjoins, over `SessionTyped` and `StreamInv`:

* `CountsInv`: what a live plan has used up, in terms of its rung and its generation:
  every attempt is a rung climbed or a revalidation, every history is bounded by them
  and the one rollback. These are the numbers `advance`, `revalidate` and `roll_back`
  compare with the budgets of the policy and with the capacities of the histories.
* `RenewalsInv`: every revalidation comes with a restart or with a connection the
  coordinator has closed, so the generation is bounded by the runs and the processes.
  `Pending` counts the one that is due and not yet done.
* `ClockInv`: a pass of the loop takes at most four ticks of the clock, so the lifetime
  and the revalidation boundary are out of reach. `Reserve` is what the pass still has
  to spend.
* `RecordsInv`: whoever reported was started and granted a rung, in this run or in one
  before, so a replay stands for a process no newer than the one that is there, and is
  refused as superseded.
* `CalmInv`: without a mishap the run is `OnTrack`. `LinksCalm`: every peer is connected, in
  the role it was registered for, and told nothing that would make it leave (the
  applier of `worker-death`, who died and whose death is not noticed yet, is the
  exception: `Died`). `BacklogCalm`: whoever waits to be accepted is one that is waited
  for. `PlanCalm`: what the plan is at each place of the run, with the ticks that have
  passed since it last moved (`ToHear`) or are to pass until its cooldown ends
  (`ToResume`), and the number of passes (`turn`) in terms of the rung: one more where
  the scenario provides for a detour (`Detour`).

There is one lemma per step of the coordinator (`...Calm`), one for a process that
connects (`ConnectCalm`) and one for every other step of a process (`ProcessCalm`). That
a step of a process without a mishap is the worker's answer to a question, or the death
`worker-death` provides for, is where `StreamInv` is needed: a worker whose stream held
two frames would leave.

The hypotheses of the theorem are those of `Configured`:

* At least two workers are expected, and there is one worker per role: without an applier
  and an observer `run_staged` fails. `coordinator.hpp:27` and the tests
  (`multiprocess.ps1`, `coordinator_restart.ps1`) say 2, an applier and an observer.
* The workers of a later run are no older than the ones whose reports an earlier run
  recorded. Otherwise the replay, whose boot the restarted coordinator has not seen,
  would be newer than the worker it stands for and take its entry.
* Runs and processes together are at most 26: with the at most six rungs of a valid
  ladder that is what the 32 attempts of `scenario_policy` leave room for.
* `TickStep` is at least 5, so that the two ticks between a grant and the evidence make
  the dwell time of 10; at most 10000, and the loop ends after at most 1000 passes, so
  that the clock stays within the lifetime of 100000000. In the code they are 10 and 64.
  The loop has two passes more than there are rungs.

`InstanceIsConfigured` states in `MCCoordinatorSession` that the instance `CoordinatorRun`
explores is one of these.

### Only model-checked

* `EverythingEnds`: liveness under fairness, which the prover does not reach, nor `ENABLED`.

Induction over data is out of the prover's reach too. Where a fold has to be
reasoned about (the journal), a least counterexample and the well-foundedness of `<` take
its place; what a fold computes in general is not proved anywhere.

## 6. Findings

* `TerminalIsFinal` (run `TerminalRevalidated`, src/src/engine.cpp:1826): revalidate looks the rung up before it tests liveness (1826 before 1834), so revalidating a COMPLETED plan after the policy was replaced by one with fewer rungs sets it FAILED; src/src/engine.cpp:929 says "2. terminal plans never change state." and src/src/engine.cpp:1716 "An epoch or policy change does not retroactively un-complete it".
* `CooldownRespected` (run `CooldownSkipped`, src/src/engine.cpp:1854): revalidate resets cooldown_until_tick to 0, so a rolled back plan that is revalidated advances before its cooldown ends; src/src/coordinator.cpp:991 says "A rollback imposes a cooldown; recovery only restarts after it."
* `ExportReadable` (run `ExportRefused`, src/src/engine.cpp:93): invalidate_draft caps the number of revalidation_notes by its max_len argument, and its callers (915, 920, 961) pass max_reason_length (256) where invalidate_plan_locked (1725) uses max_explanation_items (64); the epoch test comes before the flag test, so every advance of a stale plan adds a note. src/src/journal.cpp:511 refuses a snapshot with `note_count > limits.max_explanation_items`, so the exported state cannot be read back.
* `SequencesNeverRepeat` (run `SequenceRepeated`, src/src/coordinator.cpp:662): commit takes store_.next_sequence() and neither it nor DurableStore::append advances next_sequence_, so all commits of a process write the same sequence and replay_journal stops at the second record as a sequence regression; src/include/congestion_recovery/journal.hpp:55 says "Append-only, checksummed journal record. Sequence numbers never repeat and never regress."
* `UnfinishedReported` (run `AttemptUnreported`, src/src/coordinator.cpp:660): the coordinator journals STAGE and ROLLBACK records after it changed the engine and never an INTENT, so load never sets open_attempt_epoch_; src/include/congestion_recovery/coordinator.hpp:58 says "A crash between intent and commit leaves an unfinished attempt that restart reports as ambiguous".
* `DamageRefused` (run `DamageAccepted`, src/src/coordinator.cpp:391): load returns false with report.valid cleared for a snapshot that does not deserialize, and setup gives up only if `!have_state && restore.valid`, so it goes on to begin_epoch(1) with an empty engine, whose first commit overwrites the snapshot; src/src/coordinator.cpp:399 says "A corrupt snapshot is never silently repaired: the coordinator refuses to continue with unverifiable durable state."
* `WithinAuthority` (run `AuthorityExceeded`, src/src/engine.cpp:799): build_candidate_locked gives a rung that does not require authority its full requested level even when the live grant has a lower ceiling, and validate_policy (src/src/policy.cpp:166-170) accepts such a rung because its target equals the one of the rung before, although that one was clamped when it was reached: leaving the HOLD rung raises the level above the ceiling. src/README.md:43 says "Restoration never exceeds current legal authority."

Smaller observations, which no run reports as a violation:

* The branch of `build_candidate_locked` for a grant of an older epoch
  (engine.cpp:804) is never taken, since an epoch change and an import clear all
  grants (`AuthorityIsCurrent`).
* `restoration.hpp:21` describes the effective level as the lesser of requested and
  authorized, while a floor raises it.
* The limit of the stage history is tested only when no record is open
  (engine.cpp:1184) and the next rung's record is appended after it (1272), so a
  history may exceed `max_stage_history` by one record for each rung climbed. The
  snapshot reader refuses such a history (journal.cpp:518). `HistoryBounded` says that
  it exceeds it by no more.
* The levels observed are compared with the candidate only
  `if (pol.require_completion_evidence)` (engine.cpp:1123), which a policy may clear
  (policy.hpp:77). A plan then completes with nothing observed, with the reason
  "recovery completed with verified applied restoration" (1242), while src/README.md:38
  says "completion is committed only when the applied restoration has been observed."
  Hence the condition in `CompletedAsObserved`.

## 7. Not modelled

* `pause`, `notify_resource_change`, `erase_plan` and delayed snapshots together with
  levels: `RecoveryEngine` has them without. Several policies with different
  targets, and resources matched by their order in a request.
* HELLO of another protocol version, FENCE frames and frames of unknown kind,
  malformed bodies, frames sent in part: no program of the repository sends
  them. Peers beyond the expected workers (section 3).
* The grants of `grant_authority_for_plan` in the session: their ceiling is the
  baseline, so they never clamp a target of `scenario_policy`; the levels a
  STAGE_GRANT carries are the rung's targets, not clamped ones.
* The report file and the printed lines of the coordinator.
* Byte-level serialization and checksums: the effect of a corrupt file is
  modelled where it matters, not the encoding.
* Loss of the machine (nothing is fsynced, so nothing can be promised), two
  coordinators on one directory (nothing in the code excludes or handles it).
* Explanations, the adjacent request log, the command line tools, examples and
  benchmarks: no state that a recovery depends on.
* The event lineage and the counters of the engine: they are written and never
  read by a decision.
* `evaluate`, which reads without the mutex, and the pointers `plan` and `policy`
  return. The concurrency suite (src/README.md:124) calls `evaluate` from eight threads at
  once, but while none of them writes (`src/tests/concurrency.cpp:29`); it reads through
  `plan()` and `policy()` while another thread advances (line 192), which nothing
  synchronises, and asserts only that the state it reads is a valid enumerator. No
  document says what is promised of a decision or a plan that is read during an
  advance, so there is no property to check a model of the race against.
