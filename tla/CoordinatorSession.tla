-------------------------- MODULE CoordinatorSession --------------------------
(***************************************************************************)
(* Coordinator::run of src/src/coordinator.cpp: a coordinator process      *)
(* restores its engine, registers workers, drives one plan up the ladder   *)
(* by granting every rung to the applier and asking the observer for       *)
(* evidence, replaces an applier that dies, and makes every rung durable.  *)
(* The module composes the workers, the streams to them and the engine,    *)
(* and lets processes die, answers stay out and the coordinator crash and  *)
(* be started again.                                                       *)
(*                                                                         *)
(* The coordinator is one thread that waits in accept or in recv and       *)
(* computes in between: an action here is one wait that ends, with what    *)
(* follows up to the next send, the next write or the next wait.           *)
(***************************************************************************)
EXTENDS WorkerProcess

CONSTANTS
  Rungs,            \* the ladder of scenario_policy
  Scenarios,        \* --scenario of the first run
  MaxRuns,          \* bound of the model: coordinator processes
  StartedIn,        \* bound of the model: the processes started in each run
  ExpectedWorkers,  \* --workers
  StopAfter,        \* the rung restart-part1 stops at
  RecurrenceRung,   \* the rung from which recurrence is provoked
  LoopGuard,        \* passes of the loop of run_staged
  TickStep          \* --tick-step

ASSUME SessionAssumption ==
  /\ Scenarios \subseteq {"staged", "recurrence", "worker-death", "restart-part1"}
  /\ MaxRuns \in Nat /\ StartedIn \in [1..MaxRuns -> SUBSET Processes]
  /\ ExpectedWorkers \in Nat \ {0} /\ StopAfter \in Nat \ {0}
  /\ RecurrenceRung \in Nat
  /\ LoopGuard \in Nat /\ TickStep \in Nat \ {0}

\* The processes are of no more workers than are expected: see the README on peers
\* that are registered beyond them.
ASSUME ExpectedWorkersOnly ==
  Cardinality({WorkerOf[p] : p \in Processes}) <= ExpectedWorkers

VARIABLES
  epoch,      \* the engine's epoch_
  plans,      \* the engine's plans_: the one plan
  now,        \* tick_
  at,         \* where the coordinator is
  waitFor,    \* whom it accepts connections for
  backlog,    \* connections the kernel holds for accept
  conn,       \* a refused connection one more frame is read from
  peers,      \* peers_
  applier,    \* run_staged's pointers into peers_, 0 for nullptr
  observer,
  scenario,   \* config_.scenario
  turn,       \* passes of the loop made
  recurring,  \* recurrence is asked for in this pass
  outcome,    \* the result of the run, once it is known
  disk,       \* the durable snapshot, or NoDisk
  runs,       \* history: coordinator processes started
  mishap,     \* history: this run met what its scenario does not provide for
  granted     \* history: the grants of this run

engine == <<epoch, plans, now>>
control == <<at, waitFor, backlog, conn, peers, applier, observer, scenario, turn, recurring, outcome>>
workers == <<link, proc, recorded, applied>>
history == <<runs, mishap, granted>>
vars == <<workers, engine, control, disk, history>>

\* scenario_policy, in ticks.
WindowTicks == 100000
LifetimeTicks == 100000000
BoundaryTicks == 100000000

\* Bound of the model, never reached: generations and ticks.
Unreached == 1000000

\* The policy of scenario_policy and the limits of the engine.
E == INSTANCE RecoveryEngine WITH
  PlanIds <- {1}, Ladder <- <<Rungs>>, SnapshotGens <- Nat,
  Dwell <- 10, Cooldown <- 5, Window <- WindowTicks, MaxTransitions <- 12,
  RevalidationBoundary <- BoundaryTicks, MaxLifetime <- LifetimeTicks,
  MaxStageAttempts <- 3, MaxTotalAttempts <- 32, MaxRollbacks <- 3,
  OnRecurrence <- <<"ROLLBACK">>, RollbackOnFailure <- TRUE,
  MaxStageHistory <- 64, MaxRollbackHistory <- 32, MaxCompletionHistory <- 64,
  MaxExplanationItems <- 64, MaxReasonLength <- 256, TransitionRecords <- 64,
  MaxGeneration <- Unreached, MaxEpoch <- MaxRuns, MaxTick <- Unreached,
  policyGen <- 1

\* validate_policy, which setup calls on it.
ASSUME PolicyIsValid == E!ValidLadder(Rungs)

Plan == plans[1]

Waiting == {"accept", "stale", "report", "evidence"}
Working == {"begin", "revalidate", "enter", "loop", "rollback", "saveRollback", "resume",
            "save", "finish"}
Active == Waiting \cup Working
NoDisk == [epoch |-> 0, plan |-> E!NoPlan]

Init ==
  /\ WorkerInit
  /\ epoch = 0 /\ plans = [i \in {1} |-> E!NoPlan] /\ now = 0
  /\ at = "down" /\ waitFor = "workers" /\ backlog = <<>> /\ conn = <<>>
  /\ peers = <<>> /\ applier = 0 /\ observer = 0
  /\ scenario = "none" /\ turn = 0 /\ recurring = FALSE /\ outcome = "none"
  /\ disk = NoDisk
  /\ runs = 0 /\ mishap = FALSE /\ granted = {}

-----------------------------------------------------------------------------
(* What the actions share.                                                 *)

Peer(k) == peers[k].proc

\* find_peer: the first registered peer of the role.  No peer is ever fenced: a
\* newer boot takes the entry of the older one.
FindPeer(role) ==
  LET S == {k \in DOMAIN peers : peers[k].role = role /\ peers[k].registered}
  IN IF S = {} THEN 0 ELSE CHOOSE k \in S : \A m \in S : k <= m

\* The entry of a worker, or 0.
EntryOf(p) ==
  LET S == {k \in DOMAIN peers : peers[k].worker = WorkerOf[p]}
  IN IF S = {} THEN 0 ELSE CHOOSE k \in S : TRUE

\* A boot that is not newer than the registered one.
Superseded(p) == EntryOf(p) # 0 /\ BootOf[p] <= peers[EntryOf(p)].boot

PeerOf(p) ==
  [worker |-> WorkerOf[p], boot |-> BootOf[p], role |-> RoleOf[p], proc |-> p,
   registered |-> TRUE]

\* fail and finish, or success and finish.
End(result) == at' = "finish" /\ outcome' = result

\* A receive fails although the sender is still there.
Untimely(p) == mishap' = (mishap \/ link[p].worker = "open")

\* A run restored from disk has a plan to go on with.
Restorable == E!IsLive(disk.plan)

-----------------------------------------------------------------------------
(* setup and accept.                                                       *)

\* No process runs any more.
Quiet == at \notin Active /\ \A p \in Processes : proc[p] \notin Running

\* setup: without a snapshot the engine begins epoch 1; with one, it imports it
\* under the next epoch.
StartRun ==
  /\ at \in {"down", "done"}
  /\ runs < MaxRuns /\ runs' = runs + 1
  /\ Quiet /\ disk.plan.state # "COMPLETED"
  /\ scenario' \in (IF runs = 0 THEN Scenarios ELSE {"restart-part2"})
  /\ epoch' = disk.epoch + 1
  /\ plans' = [i \in {1} |-> E!Imported(disk.plan, disk.epoch + 1)]
  /\ now' = IF runs = 0 THEN 1000 ELSE 2000
  /\ at' = "accept" /\ waitFor' = "workers" /\ backlog' = <<>> /\ conn' = <<>>
  /\ peers' = <<>> /\ applier' = 0 /\ observer' = 0
  /\ turn' = 0 /\ recurring' = FALSE /\ outcome' = "none"
  /\ mishap' = (runs # 0 /\ ~Restorable) /\ granted' = {}
  /\ UNCHANGED <<workers, disk>>

\* What follows an accepted connection, or a refused one: more workers are waited
\* for, or the single extra connection has been seen.
Accepted(registered) ==
  CASE waitFor = "workers" ->
         at' = IF Len(registered) < ExpectedWorkers THEN "accept" ELSE "begin"
    [] waitFor = "extra" ->
         at' = IF scenario = "restart-part2" THEN "enter" ELSE "loop"
    [] waitFor = "replacement" -> at' = "revalidate"

\* The first connection in the backlog is accepted and its HELLO is read.
Greets(p) == at = "accept" /\ backlog # <<>> /\ p = Head(backlog)
Hello(p) == Greets(p) /\ link[p].up # <<>>

\* A mutant of HelloMissing: the connection is looked at again and again.
HelloAwaited ==
  \E p \in Processes :
    /\ Greets(p)
    /\ Failure \in Received(link[p].up, link[p].worker)
    /\ link' = [link EXCEPT ![p] = ClosedByCoordinator(@)]
    /\ Untimely(p)
    /\ UNCHANGED <<proc, recorded, applied, engine, control, disk, runs, granted>>

\* register_connection, without a HELLO.
HelloMissing ==
  \E p \in Processes :
    /\ Greets(p)
    /\ Failure \in Received(link[p].up, link[p].worker)
    /\ backlog' = Tail(backlog)
    /\ link' = [link EXCEPT ![p] = ClosedByCoordinator(@)]
    /\ Untimely(p)
    /\ IF waitFor = "replacement"
       THEN End("FAILED")
       ELSE Accepted(peers) /\ UNCHANGED outcome
    /\ UNCHANGED <<proc, recorded, applied, engine, waitFor, conn, peers, applier, observer,
                   scenario, turn, recurring, disk, runs, granted>>

\* The reply to a HELLO or to a frame of a connection that is refused.
Error == [kind |-> "ERROR_MSG"]
\* The welcome of a registered worker.
HelloAck == [kind |-> "HELLO_ACK"]

\* A boot that is not newer is told so, and one more frame is read from it.
HelloStale ==
  \E p \in Processes :
    /\ Hello(p) /\ waitFor # "replacement" /\ Superseded(p)
    /\ backlog' = Tail(backlog) /\ conn' = <<p>> /\ at' = "stale"
    /\ link' = [link EXCEPT ![p] = SentDown(UpRead(@), Error)]
    /\ UNCHANGED <<proc, recorded, applied, engine, waitFor, peers, applier, observer,
                   scenario, turn, recurring, outcome, disk, history>>

\* That frame carries no live authority: it is refused, and the connection closed.
StaleFrame ==
  LET p == conn[1] IN
  /\ at = "stale"
  /\ \E f \in Received(link[p].up, link[p].worker) :
       link' = [link EXCEPT ![p] = ClosedByCoordinator(IF f = Failure THEN @ ELSE SentDown(@, Error))]
  /\ Accepted(peers)
  /\ conn' = <<>>
  /\ UNCHANGED <<proc, recorded, applied, engine, waitFor, backlog, peers, applier, observer,
                 scenario, turn, recurring, outcome, disk, history>>

\* The peers with a new connection: it takes the entry of an older boot of its
\* worker, or a new one.
Registered(p) ==
  IF EntryOf(p) = 0 THEN Append(peers, PeerOf(p))
  ELSE [peers EXCEPT ![EntryOf(p)] = PeerOf(p)]

\* The links once a connection is registered and welcomed: the stream of the
\* superseded boot is closed.
Welcoming(p) ==
  [q \in Processes |->
     IF q = p THEN SentDown(UpRead(link[p]), HelloAck)
     ELSE IF EntryOf(p) # 0 /\ Peer(EntryOf(p)) = q /\ link[q].coordinator = "open"
          THEN ClosedByCoordinator(link[q])
          ELSE link[q]]

\* Registration, the older boot fenced.  A welcome that cannot be sent ends the run.
Register ==
  \E p \in Processes :
    /\ Hello(p) /\ waitFor # "replacement" /\ ~Superseded(p)
    /\ backlog' = Tail(backlog)
    /\ peers' = Registered(p)
    /\ link' = Welcoming(p)
    /\ \E sent \in SendResults(link[p]) :
         IF sent THEN Accepted(Registered(p)) /\ UNCHANGED outcome ELSE End("FAILED")
    /\ UNCHANGED <<proc, recorded, applied, engine, waitFor, conn, applier, observer,
                   scenario, turn, recurring, disk, history>>

\* accept_replacement: a newer boot of a worker that was registered.
Replaces(p) == RoleOf[p] = "applier" /\ EntryOf(p) # 0 /\ ~Superseded(p)

\* accept_replacement: the entry keeps its role.
Replace ==
  \E p \in Processes :
    /\ Hello(p) /\ waitFor = "replacement" /\ Replaces(p)
    /\ backlog' = Tail(backlog)
    /\ peers' = [peers EXCEPT ![EntryOf(p)] = [PeerOf(p) EXCEPT !.role = peers[EntryOf(p)].role]]
    /\ link' = Welcoming(p)
    /\ \E sent \in SendResults(link[p]) :
         IF sent THEN Accepted(peers) /\ UNCHANGED outcome ELSE End("FAILED")
    /\ UNCHANGED <<proc, recorded, applied, engine, waitFor, conn, applier, observer,
                   scenario, turn, recurring, disk, history>>

\* Any other connection ends the run.
ReplacementRefused ==
  \E p \in Processes :
    /\ Hello(p) /\ waitFor = "replacement" /\ ~Replaces(p)
    /\ backlog' = Tail(backlog)
    /\ link' = [link EXCEPT ![p] = ClosedByCoordinator(@)]
    /\ End("FAILED")
    /\ UNCHANGED <<proc, recorded, applied, engine, waitFor, conn, peers, applier, observer,
                   scenario, turn, recurring, disk, history>>

\* Nobody connects within the peer timeout.  For the extra connection that is not a
\* failure.
AcceptTimeout ==
  /\ at = "accept" /\ backlog = <<>> /\ "timeout" \in Faults
  /\ IF waitFor = "extra"
     THEN Accepted(peers) /\ UNCHANGED <<outcome, mishap>>
     ELSE End("FAILED") /\ mishap' = TRUE
  /\ UNCHANGED <<workers, engine, waitFor, backlog, conn, peers, applier, observer, scenario,
                 turn, recurring, disk, runs, granted>>
-----------------------------------------------------------------------------
(* run: the plan is created or restored.                                   *)

Begin ==
  /\ at = "begin"
  /\ IF scenario = "restart-part2"
     THEN \/ E!Revalidate(1) /\ at' = "accept" /\ waitFor' = "extra" /\ UNCHANGED outcome
          \/ ~E!Revalidatable(Plan) /\ End("FAILED") /\ UNCHANGED <<engine, waitFor>>
     ELSE E!CreatePlan(1) /\ at' = "enter" /\ UNCHANGED <<waitFor, outcome>>
  /\ UNCHANGED <<workers, backlog, conn, peers, applier, observer, scenario, turn, recurring,
                 disk, history>>

\* A mutant of Enter: the workers are taken for what they should be.
EnterUnchecked ==
  /\ at = "enter"
  /\ applier' = FindPeer("applier") /\ observer' = FindPeer("observer")
  /\ at' = "loop"
  /\ UNCHANGED <<workers, engine, waitFor, backlog, conn, peers, scenario, turn, recurring,
                 outcome, disk, history>>

\* run_staged needs one worker of each role.
Enter ==
  /\ at = "enter"
  /\ applier' = FindPeer("applier") /\ observer' = FindPeer("observer")
  /\ IF applier' # 0 /\ observer' # 0
     THEN at' = "loop" /\ UNCHANGED outcome
     ELSE End("FAILED")
  /\ UNCHANGED <<workers, engine, waitFor, backlog, conn, peers, scenario, turn, recurring, disk,
                 history>>

-----------------------------------------------------------------------------
(* run_staged: one pass of the loop.                                       *)

Stopping == scenario = "restart-part1" /\ Plan.index >= StopAfter /\ Plan.state # "ROLLED_BACK"

\* The head of the loop ends the run: completed, failed, or the guard exhausted.
LeaveLoop ==
  /\ at = "loop"
  /\ \/ turn >= LoopGuard /\ End("FAILED")
     \/ turn < LoopGuard /\ Plan.state = "COMPLETED" /\ End("OK")
     \/ turn < LoopGuard /\ Plan.state = "FAILED" /\ End("FAILED")
  /\ UNCHANGED <<workers, engine, waitFor, backlog, conn, peers, applier, observer, scenario,
                 turn, recurring, disk, history>>

\* write_snapshot, an atomic register as module StableState has it, or its failure.
Saved == [epoch |-> epoch, plan |-> Plan]
Write(next) ==
  \/ disk' = Saved /\ at' = next /\ UNCHANGED <<outcome, mishap>>
  \/ "store" \in Faults /\ End("FAILED") /\ mishap' = TRUE /\ UNCHANGED disk

\* restart-part1 stops with a snapshot.
Stop ==
  /\ at = "loop" /\ turn < LoopGuard
  /\ Plan.state \notin {"COMPLETED", "FAILED"} /\ Stopping
  /\ \/ disk' = Saved /\ End("OK") /\ UNCHANGED mishap
     \/ "store" \in Faults /\ End("FAILED") /\ mishap' = TRUE /\ UNCHANGED disk
  /\ UNCHANGED <<workers, engine, waitFor, backlog, conn, peers, applier, observer, scenario,
                 turn, recurring, runs, granted>>

\* What a grant tells the applier, of the plan as it is.
GrantOf(k) ==
  [kind |-> "STAGE_GRANT", epoch |-> epoch, boot |-> peers[k].boot,
   generation |-> Plan.generation, attempt |-> Plan.attempt]

\* grant_stage: a tick passes, and the rung the plan is on is granted.
GrantStage ==
  /\ at = "loop" /\ turn < LoopGuard
  /\ Plan.state \notin {"COMPLETED", "FAILED"} /\ ~Stopping
  /\ turn' = turn + 1
  /\ now' = now + TickStep
  /\ recurring' = (scenario = "recurrence" /\ Plan.index >= RecurrenceRung
                     /\ Plan.rollbacks = <<>>)
  /\ link' = [link EXCEPT ![Peer(applier)] = SentDown(@, GrantOf(applier))]
  /\ granted' = granted \cup {<<Plan.generation, Plan.attempt, Peer(applier)>>}
  /\ \E sent \in SendResults(link[Peer(applier)]) :
       IF sent THEN at' = "report" /\ UNCHANGED outcome ELSE End("FAILED")
  /\ UNCHANGED <<proc, recorded, applied, epoch, plans, waitFor, backlog, conn, peers, applier,
                 observer, scenario, disk, runs, mishap>>

Replies(k) == Received(link[Peer(k)].up, link[Peer(k)].worker)

EvidenceRequest ==
  [kind |-> "EVIDENCE_REQUEST", epoch |-> epoch, boot |-> peers[observer].boot,
   tick |-> now', recurrence |-> recurring]

\* A STAGE_REPORT: nothing in it is compared with the grant.  Another tick passes,
\* and the observer is asked for evidence.
ReceiveReport ==
  /\ at = "report"
  /\ \E f \in Replies(applier) : f.kind = "STAGE_REPORT"
  /\ now' = now + TickStep
  /\ LET heard == [link EXCEPT ![Peer(applier)] = UpRead(@)] IN
     link' = [heard EXCEPT ![Peer(observer)] = SentDown(@, EvidenceRequest)]
  /\ \E sent \in SendResults(link[Peer(observer)]) :
       IF sent THEN at' = "evidence" /\ UNCHANGED outcome ELSE End("FAILED")
  /\ UNCHANGED <<proc, recorded, applied, epoch, plans, waitFor, backlog, conn, peers, applier,
                 observer, scenario, turn, recurring, disk, history>>

\* A mutant of WorkerDeath: the attempt is taken for done, and the observer asked.
WorkerDeathOverlooked ==
  /\ at = "report"
  /\ Failure \in Replies(applier)
  /\ now' = now + TickStep
  /\ link' = [link EXCEPT ![Peer(applier)] = ClosedByCoordinator(@),
                          ![Peer(observer)] = SentDown(@, EvidenceRequest)]
  /\ Untimely(Peer(applier))
  /\ at' = "evidence"
  /\ UNCHANGED <<proc, recorded, applied, epoch, plans, waitFor, backlog, conn, peers, applier,
                 observer, scenario, turn, recurring, outcome, disk, runs, granted>>

\* A mutant of WorkerDeath: an applier that does not answer is granted the rung again.
GrantAgain ==
  /\ at = "report"
  /\ Failure \in Replies(applier)
  /\ Untimely(Peer(applier))
  /\ at' = "loop"
  /\ UNCHANGED <<workers, engine, waitFor, backlog, conn, peers, applier, observer, scenario,
                 turn, recurring, outcome, disk, runs, granted>>

\* Anything else: the applier is dead, whether it applied the rung is not known,
\* and a replacement is waited for.
WorkerDeath ==
  /\ at = "report"
  /\ Failure \in Replies(applier)
  /\ link' = [link EXCEPT ![Peer(applier)] = ClosedByCoordinator(@)]
  /\ peers' = [peers EXCEPT ![applier].registered = FALSE]
  /\ E!RequireRevalidation(1)
  /\ Untimely(Peer(applier))
  /\ at' = "accept" /\ waitFor' = "replacement"
  /\ UNCHANGED <<proc, recorded, applied, backlog, conn, applier, observer, scenario, turn,
                 recurring, outcome, disk, runs, granted>>

\* A mutant of RevalidateReplaced: the replacement goes on with the old attempt.
GoOnWithReplacement ==
  /\ at = "revalidate"
  /\ plans' = [plans EXCEPT ![1].revalidationRequired = FALSE,
                            ![1].state = E!StateForStage[E!Kind(Plan)]]
  /\ applier' = FindPeer("applier")
  /\ at' = "loop"
  /\ UNCHANGED <<workers, epoch, now, waitFor, backlog, conn, peers, observer, scenario, turn,
                 recurring, outcome, disk, history>>

\* The replacement is registered: a new attempt on the same rung, and in the
\* worker-death scenario one more connection.  Nothing is saved before the next
\* rung is.
RevalidateReplaced ==
  /\ at = "revalidate"
  /\ applier' = FindPeer("applier")
  /\ IF E!Revalidatable(Plan) /\ applier' # 0
     THEN /\ E!Revalidate(1)
          /\ IF scenario = "worker-death"
             THEN at' = "accept" /\ waitFor' = "extra"
             ELSE at' = "loop" /\ UNCHANGED waitFor
          /\ UNCHANGED outcome
     ELSE End("FAILED") /\ UNCHANGED <<engine, waitFor>>
  /\ UNCHANGED <<workers, backlog, conn, peers, observer, scenario, turn, recurring, disk,
                 history>>

\* The evidence as the engine gets it: the coordinator binds it to the plan as it
\* is now, under the tick of the request.
SnapshotOf(f) ==
  [tick |-> now, gen |-> now, binding |-> "current",
   verdict |-> IF f.cleared THEN "good" ELSE "recurrence"]

\* None of the outcomes of advance that change the plan.
Undecided(s) ==
  /\ E!IsLive(Plan) /\ E!HasStage(Plan) => E!Bound(Plan) \/ E!Replayed(Plan, s)
  /\ E!Coherent(Plan, s) =>
       /\ ~E!Outlived(Plan, s) /\ ~E!CrossedBoundary(Plan, s)
       /\ ~(E!Evaluated(Plan, s) /\ s.verdict = "recurrence")
       /\ E!Settled(Plan, s) =>
            /\ E!WithinRate(Plan, s)
            /\ Plan.totalAttempts < 32 /\ Plan.attemptsInStage < 3
            /\ s.verdict # "good"

\* EVIDENCE_PUBLISH of this epoch: the engine decides.
ReceiveEvidence ==
  /\ at = "evidence"
  /\ \E f \in Replies(observer) :
       /\ f.kind = "EVIDENCE_PUBLISH" /\ f.epoch = epoch
       /\ \/ E!AdvanceWith(1, SnapshotOf(f))
          \/ Undecided(SnapshotOf(f)) /\ UNCHANGED engine
  /\ link' = [link EXCEPT ![Peer(observer)] = UpRead(@)]
  /\ at' = IF scenario = "recurrence" /\ plans'[1].state = "ROLLING_BACK"
           THEN "rollback" ELSE "save"
  /\ UNCHANGED <<proc, recorded, applied, waitFor, backlog, conn, peers, applier, observer,
                 scenario, turn, recurring, outcome, disk, history>>

\* No evidence, or evidence of another epoch: the run fails.
EvidenceLost ==
  /\ at = "evidence"
  /\ \E f \in Replies(observer) : ~(f.kind = "EVIDENCE_PUBLISH" /\ f.epoch = epoch)
  /\ Untimely(Peer(observer))
  /\ End("FAILED")
  /\ UNCHANGED <<workers, engine, waitFor, backlog, conn, peers, applier, observer, scenario,
                 turn, recurring, disk, runs, granted>>

\* The rollback is a pass of its own through commit.
RollBack ==
  /\ at = "rollback"
  /\ IF E!RollbackAllowed(Plan)
     THEN E!Rollback(1) /\ at' = "saveRollback" /\ UNCHANGED outcome
     ELSE End("FAILED") /\ UNCHANGED engine
  /\ UNCHANGED <<workers, waitFor, backlog, conn, peers, applier, observer, scenario, turn,
                 recurring, disk, history>>

\* A mutant of SaveRollback: the cooldown is not waited for.
SaveRollbackAtOnce ==
  /\ at = "saveRollback"
  /\ Write("resume")
  /\ UNCHANGED <<workers, engine, waitFor, backlog, conn, peers, applier, observer, scenario,
                 turn, recurring, runs, granted>>

\* Two ticks pass for the cooldown.
SaveRollback ==
  /\ at = "saveRollback"
  /\ Write("resume")
  /\ now' = now + 2 * TickStep
  /\ UNCHANGED <<workers, epoch, plans, waitFor, backlog, conn, peers, applier, observer,
                 scenario, turn, recurring, runs, granted>>

ResumePlan ==
  /\ at = "resume"
  /\ IF E!Resumable(Plan)
     THEN E!Resume(1) /\ at' = "save" /\ UNCHANGED outcome
     ELSE End("FAILED") /\ UNCHANGED engine
  /\ UNCHANGED <<workers, waitFor, backlog, conn, peers, applier, observer, scenario, turn,
                 recurring, disk, history>>

\* commit: the state is durable before the next rung is granted.
Save ==
  /\ at = "save"
  /\ Write("loop")
  /\ UNCHANGED <<workers, engine, waitFor, backlog, conn, peers, applier, observer, scenario,
                 turn, recurring, runs, granted>>

-----------------------------------------------------------------------------
(* finish, crash and the processes.                                        *)

\* The link of a process once the coordinator has closed its side.
Released(l) == IF l.coordinator = "open" THEN ClosedByCoordinator(l) ELSE l

Goodbye == [kind |-> "GOODBYE"]

IsRegistered(p) == \E k \in DOMAIN peers : peers[k].proc = p /\ peers[k].registered

\* finish: goodbye to every registered worker; every stream and the listener, with
\* what it still holds, are closed.
Finish ==
  /\ at = "finish"
  /\ link' = [p \in Processes |->
                IF IsRegistered(p) THEN Released(SentDown(link[p], Goodbye))
                ELSE Released(link[p])]
  /\ at' = "done"
  /\ UNCHANGED <<proc, recorded, applied, engine, waitFor, backlog, conn, peers, applier,
                 observer, scenario, turn, recurring, outcome, disk, history>>

\* Where sockets raise SIGPIPE, which the code leaves at its default, a send that is
\* refused ends the process instead of returning an error.
BrokenPipe ==
  \/ at = "loop" /\ link[Peer(applier)].worker = "closed"
  \/ at = "report" /\ link[Peer(applier)].up # <<>> /\ link[Peer(observer)].worker = "closed"
  \/ at = "finish" /\ \E k \in DOMAIN peers : peers[k].registered /\ link[Peer(k)].worker = "closed"

\* The coordinator dies, with all it has in memory.
Crash ==
  /\ at \in Active /\ ("crash" \in Faults \/ BrokenPipe)
  /\ at' = "down"
  /\ link' = [p \in Processes |-> Released(link[p])]
  /\ peers' = <<>> /\ applier' = 0 /\ observer' = 0
  /\ UNCHANGED <<proc, recorded, applied, engine, waitFor, backlog, conn, scenario, turn,
                 recurring, outcome, disk, history>>

CoordinatorStep ==
  \/ HelloMissing \/ HelloStale \/ StaleFrame \/ Register
  \/ Replace \/ ReplacementRefused \/ AcceptTimeout
  \/ Begin \/ Enter
  \/ LeaveLoop \/ Stop \/ GrantStage
  \/ ReceiveReport \/ WorkerDeath \/ RevalidateReplaced
  \/ ReceiveEvidence \/ EvidenceLost
  \/ RollBack \/ SaveRollback \/ ResumePlan \/ Save
  \/ Finish

\* The connections each scenario provides for: every worker once, a replacement
\* while one is waited for, and anything as the extra connection.
Provided(p) ==
  /\ at = "accept"
  /\ CASE waitFor = "workers" ->
            /\ RoleOf[p] # "replay"
            /\ \A q \in Processes : WorkerOf[q] = WorkerOf[p] => link[q].worker # "open"
       [] waitFor = "replacement" -> backlog = <<>> /\ Replaces(p)
       [] waitFor = "extra" -> backlog = <<>>

\* Bound of the model: the processes do at most one thing in a run that its scenario
\* does not provide for.  What the coordinator waits for may stay out at any time.
Mishap(happens) == ~(mishap /\ happens) /\ mishap' = (mishap \/ happens)

\* A process is started while the coordinator listens.
StartProcess(p) ==
  /\ at \in Active /\ p \in StartedIn[runs]
  /\ Connect(p)
  /\ backlog' = Append(backlog, p)
  /\ Mishap(~Provided(p))
  /\ UNCHANGED <<engine, at, waitFor, conn, peers, applier, observer, scenario, turn, recurring,
                 outcome, disk, runs, granted>>

ProcessStep(p) ==
  \/ WorkerStep(p) /\ UNCHANGED <<engine, control, disk, history>>
  \/ /\ LoseLink(p)
     /\ Mishap(link[p].coordinator = "open")
     /\ UNCHANGED <<engine, control, disk, runs, granted>>

\* The one death a scenario provides for: the applier's, before its first report
\* since the plan was made.
ProvidedDeath(p) ==
  /\ scenario = "worker-death" /\ at = "report" /\ p = Peer(applier)
  /\ link[p].up = <<>> /\ Plan.generation = 1

KillProcess(p) ==
  /\ at \in Active
  /\ Die(p)
  /\ Mishap(~ProvidedDeath(p))
  /\ UNCHANGED <<engine, control, disk, runs, granted>>

Next ==
  \/ StartRun
  \/ CoordinatorStep
  \/ Crash
  \/ \E p \in Processes : StartProcess(p) \/ ProcessStep(p) \/ KillProcess(p)

\* A thread that can go on does, and a timeout that is set expires.  Processes are
\* started, die and crash as they please.
Fairness ==
  /\ WF_vars(CoordinatorStep)
  /\ \A p \in Processes : WF_vars(ProcessStep(p))

Spec == Init /\ [][Next]_vars /\ Fairness

-----------------------------------------------------------------------------
(* Properties.                                                             *)

Grants == Nat \X Nat \X Processes
PeerRecords ==
  [worker : Nat, boot : Nat, role : {"applier", "observer", "replay"}, proc : Processes,
   registered : BOOLEAN]

\* Every variable has its type, and a coordinator that grants rungs or asks for
\* evidence has a peer of each role.
TypeOK ==
  /\ \A p \in Processes :
       link[p].coordinator \in Ends /\ link[p].worker \in Ends /\ proc[p] \in ProcStates
  /\ epoch \in Nat /\ Plan \in E!Plans /\ now \in Nat
  /\ at \in Active \cup {"down", "done"} /\ waitFor \in {"workers", "extra", "replacement"}
  /\ backlog \in Seq(Processes) /\ peers \in Seq(PeerRecords)
  /\ at \in {"loop", "report", "evidence"} =>
       applier \in DOMAIN peers /\ observer \in DOMAIN peers
  /\ turn \in 0..LoopGuard /\ outcome \in {"none", "OK", "FAILED"}
  /\ disk.epoch \in Nat /\ disk.plan \in E!Plans
  /\ granted \subseteq Grants

\* The frame the coordinator takes for the answer to its request is that answer.
\* Nothing in a report is compared with the grant, and of evidence only the epoch:
\* that no report of an earlier attempt, of an older boot or of a replayed
\* connection is taken rests on the streams alone, on closing the one of every
\* process that failed to answer and on asking nothing while an answer is due.
AnswersMatchRequests ==
  /\ at = "report" /\ link[Peer(applier)].up # <<>> =>
       LET f == Head(link[Peer(applier)].up) IN
       /\ f.kind = "STAGE_REPORT" /\ f.epoch = epoch /\ f.boot = peers[applier].boot
       /\ f.generation = Plan.generation /\ f.attempt = Plan.attempt
  /\ at = "evidence" /\ link[Peer(observer)].up # <<>> =>
       LET f == Head(link[Peer(observer)].up) IN
       f.kind = "EVIDENCE_PUBLISH" /\ f.tick = now /\ f.epoch = epoch

\* A process never has two frames on the way to the coordinator, which could not
\* read them: recv_frame fails when more than one frame has arrived.
OneFrameAtATime == \A p \in Processes : Len(link[p].up) <= 1

\* An attempt is granted to one process only: when the applier is lost and the
\* outcome of its attempt is not known, its replacement gets another attempt, so
\* a late report of the lost one cannot pass for the replacement's.
OneHolderPerAttempt ==
  \A g, h \in granted : g[1] = h[1] /\ g[2] = h[2] => g[3] = h[3]

\* What the scenarios are configured with: two workers, one of each role; a restart
\* with workers no older than those whose reports were recorded before; fewer processes
\* and runs than the budget of attempts allows for; ticks that let the dwell time and
\* the cooldown pass and stay within the lifetime of a plan.
Configured ==
  /\ ExpectedWorkers >= 2
  /\ \A p, q \in Processes :
       RoleOf[p] # "replay" /\ RoleOf[q] # "replay" =>
         (RoleOf[p] = RoleOf[q] <=> WorkerOf[p] = WorkerOf[q])
  /\ \A m, n \in 1..MaxRuns : m < n =>
       \A p \in Processes : RoleOf[p] = "replay" /\ Source[p] \in StartedIn[m] =>
         \A q \in StartedIn[n] : WorkerOf[q] = WorkerOf[p] => BootOf[p] <= BootOf[q]
  /\ IsFiniteSet(Processes) /\ MaxRuns + Cardinality(Processes) <= 26
  /\ TickStep \in 5..10000
  /\ LoopGuard \in (Len(Rungs) + 2)..1000

\* A run that meets what its scenario provides for succeeds: the death of the
\* applier and its replacement, a replayed report, recurring congestion, a restart
\* from a snapshot.  No combination of the clock, the cooldown, the attempts and
\* the revalidations makes the engine refuse.
ProvidedRunSucceeds == at = "done" /\ ~mishap => outcome = "OK"

\* Whatever dies, stays silent or connects when it should not, a coordinator that
\* was started ends, and so does every process that connected to it: none of them
\* waits for another for ever.
EverythingEnds == []<>Quiet

\* What the session promises: a rung is left only when the worker that is registered
\* now has applied its present attempt, and at most one rung is not durable yet.
Staged == INSTANCE StagedRecovery WITH
  Top <- Len(Rungs),
  rung <- IF Plan.state = "COMPLETED" THEN Plan.index + 1 ELSE Plan.index,
  applied <- \E k \in DOMAIN peers :
               /\ peers[k].registered
               /\ Plan.state # "COMPLETED"
               /\ <<epoch, Plan.generation, Plan.attempt, Peer(k)>> \in applied,
  saved <- IF disk.plan.state = "COMPLETED" THEN disk.plan.index + 1 ELSE disk.plan.index
StagedSpec == Staged!Spec

=============================================================================
