-------------------------- MODULE ProvidedRuns_proofs --------------------------
(***************************************************************************)
(* A run of CoordinatorSession that meets what its scenario provides for   *)
(* succeeds, if the session is Configured as the scenarios are.            *)
(***************************************************************************)
EXTENDS CoordinatorSession_proofs, FiniteSetTheorems

-----------------------------------------------------------------------------
(* The inductive invariant: what holds of every run.                       *)

\* The counters of a plan that is live, and the lengths of its histories, by the
\* rung it is on and the revalidations it went through.
Counted(p) ==
  E!IsLive(p) =>
    /\ p.index < Len(Rungs) /\ p.policyGen = 1
    /\ p.completions = <<>> /\ p.attemptsInStage <= 1
    /\ p.stageGen = p.index + p.generation
    /\ p.totalAttempts = p.index + p.generation
    /\ Len(p.rollbacks) <= 1
    /\ Len(p.transitions) <= p.index + Len(p.rollbacks)
    /\ Len(p.history) <= 2 * p.index + p.generation + Len(p.rollbacks)
    /\ p.state = "ROLLING_BACK" => p.rollbacks = <<>>

CountsInv ==
  /\ Counted(Plan) /\ Counted(disk.plan)
  /\ at \in {"report", "evidence"} /\ recurring => scenario = "recurrence" /\ Plan.rollbacks = <<>>
  /\ at = "rollback" => Plan.state = "ROLLING_BACK"
  /\ runs = 0 => Plan.state = "ABSENT" /\ disk.plan.state = "ABSENT"

\* Every revalidation comes with a restart, or with a connection that is given up.
Closed == {p \in Processes : link[p].coordinator = "closed"}
Pending ==
  IF \/ at \in {"begin", "revalidate"}
     \/ at \in {"accept", "stale"} /\ waitFor \in {"workers", "replacement"}
  THEN 1 ELSE 0
RenewalsInv ==
  /\ runs <= MaxRuns
  /\ E!IsLive(Plan) => Plan.generation + Pending <= runs + Cardinality(Closed)
  /\ E!IsLive(disk.plan) => disk.plan.generation <= runs + Cardinality(Closed)

\* Every pass of the loop takes at most four ticks.
Reserve ==
  IF at = "report" THEN 3 * TickStep
  ELSE IF at \in {"evidence", "rollback", "saveRollback"} THEN 2 * TickStep ELSE 0
ClockInv == at \in Active => now + Reserve <= 2000 + 40000 * turn

\* Reports come from processes that were started, in this run with a grant of it.
RecordOf(p) ==
  /\ proc[p] = "serving" => RoleOf[p] # "replay"
  /\ proc[p] = "replaying" => RoleOf[p] = "replay"
  /\ recorded[p] # NotRecorded => RoleOf[p] # "replay"
  /\ proc[p] = "new" => recorded[p] = NotRecorded
  /\ proc[p] # "new" => \E n \in 1..MaxRuns : n <= runs /\ p \in StartedIn[n]
  /\ recorded[p] # NotRecorded =>
       \/ \E g \in granted : g[3] = p
       \/ \E n \in 1..MaxRuns : n < runs /\ p \in StartedIn[n]

RecordsInv ==
  /\ \A p \in Processes : RecordOf(p)
  /\ at \in Active => \A i \in DOMAIN backlog : backlog[i] \in StartedIn[runs]
  /\ at \in Active => \A k \in DOMAIN peers : Peer(k) \in StartedIn[runs]

-----------------------------------------------------------------------------
(* What holds as long as nothing unprovided happened.                      *)

Serious(f) == f.kind \in {"ERROR_MSG", "GOODBYE"}

\* The applier died as worker-death provides for, and its death was not noticed yet.
Died ==
  /\ at = "report" /\ scenario = "worker-death" /\ Plan.generation = 1
  /\ link[Peer(applier)].up = <<>>

Gathering == at \in {"accept", "stale"} /\ waitFor = "workers"
Extra == at \in {"accept", "stale"} /\ waitFor = "extra"
Replacing == at = "accept" /\ waitFor = "replacement"

\* A peer is of the role it was registered for, still there, and is told no bad news.
PeerCalm(k) ==
  /\ RoleOf[Peer(k)] # "replay" /\ peers[k].role = RoleOf[Peer(k)]
  /\ peers[k].registered \/ (Replacing /\ k = applier)
  /\ peers[k].registered =>
       /\ link[Peer(k)].worker = "open" \/ (Died /\ k = applier)
       /\ \A i \in DOMAIN link[Peer(k)].down : ~Serious(link[Peer(k)].down[i])

Staffed ==
  \E k, m \in DOMAIN peers : peers[k].role = "applier" /\ peers[m].role = "observer"

LinksCalm ==
  /\ \A k \in DOMAIN peers : PeerCalm(k)
  /\ Gathering \/ Staffed
  /\ Equipped => peers[applier].role = "applier" /\ peers[observer].role = "observer"

\* A connection that waits to be accepted is one that is waited for.
CallerCalm(i) ==
  LET p == backlog[i] IN
  /\ link[p].worker = "open"
  /\ waitFor = "workers" =>
       /\ RoleOf[p] # "replay"
       /\ \A k \in DOMAIN peers : peers[k].worker # WorkerOf[p]
       /\ \A j \in DOMAIN backlog : WorkerOf[backlog[j]] = WorkerOf[p] => i = j
  /\ waitFor = "replacement" => Replaces(p)

BacklogCalm ==
  /\ \A i \in DOMAIN backlog : CallerCalm(i)
  /\ at # "accept" => backlog = <<>>
  /\ waitFor # "workers" => Len(backlog) <= 1
  /\ at = "stale" => waitFor = "extra"

Live(p) ==
  /\ p.state \in E!StageStates /\ ~p.revalidationRequired /\ p.epoch = epoch

Detour ==
  IF \/ scenario = "recurrence" /\ Plan.rollbacks # <<>>
     \/ scenario = "worker-death" /\ Plan.generation > 1
  THEN 1 ELSE 0

\* The plan is ready to be driven
Ready ==
  /\ Live(Plan) /\ Plan.updated <= now /\ Plan.cooldownUntil <= now

\* The plan at each place of the run.
ToBegin ==
  /\ turn = 0
  /\ scenario = "restart-part2" => Plan.state = "REVALIDATION_REQUIRED"
ToEnter == Ready /\ turn <= Plan.index + Detour
ToGoOn ==
  /\ (Plan.state = "COMPLETED" /\ Plan.index < Len(Rungs)) \/ Ready
  /\ turn <= RungOf(Plan) + Detour
ToHear(ticks) ==
  /\ Ready /\ turn <= Plan.index + 1 + Detour
  /\ Plan.updated + ticks <= now
ToRollBack ==
  /\ E!RollbackAllowed(Plan) /\ ~Plan.revalidationRequired
  /\ turn <= Plan.index + 1 /\ scenario = "recurrence"
ToResume(ticks) ==
  /\ Plan.state = "ROLLED_BACK" /\ ~Plan.revalidationRequired /\ Plan.epoch = epoch
  /\ Plan.rollbacks # <<>> /\ scenario = "recurrence"
  /\ turn <= Plan.index + 1 /\ Plan.updated <= now /\ Plan.cooldownUntil <= now + ticks
ToRevalidate ==
  /\ Plan.state = "REVALIDATION_REQUIRED" /\ turn <= Plan.index + 1
  /\ scenario = "worker-death" /\ Plan.generation = 1

PlanCalm ==
  /\ at = "begin" \/ Gathering => ToBegin
  /\ at = "enter" \/ Extra => ToEnter
  /\ at \in {"loop", "save"} => ToGoOn
  /\ at = "report" => ToHear(TickStep)
  /\ at = "evidence" => ToHear(2 * TickStep)
  /\ at = "rollback" => ToRollBack
  /\ at = "saveRollback" => ToResume(5)
  /\ at = "resume" => ToResume(0)
  /\ at = "revalidate" \/ Replacing => ToRevalidate

OnTrack ==
  /\ at \in Active \ {"finish"} => LinksCalm /\ BacklogCalm /\ PlanCalm
  /\ at \in {"finish", "done"} => outcome = "OK"
CalmInv == ~mishap => OnTrack

-----------------------------------------------------------------------------
(* Ladders, histories and what the engine's calls make of a plan.          *)

\* There are six kinds of rungs and they strictly increase.
LEMMA RungsLength ==
  /\ Len(Rungs) \in 2..6 /\ Rungs[1] = "OBSERVE" /\ Rungs[Len(Rungs)] = "COMPLETE"
<1> DEFINE r == [k \in 1..Len(Rungs) |-> E!KindRank[Rungs[k]]]
<1>1. /\ Rungs \in Seq(E!StageKinds) /\ Len(Rungs) >= 2
      /\ Rungs[1] = "OBSERVE" /\ Rungs[Len(Rungs)] = "COMPLETE"
      /\ \A i, j \in 1..Len(Rungs) : i < j => E!KindRank[Rungs[i]] < E!KindRank[Rungs[j]]
  BY PolicyIsValid, Zenon DEF E!ValidLadder
<1>2. \A k \in E!StageKinds : E!KindRank[k] \in 1..6
  BY DEF E!StageKinds, E!KindRank
<1>3. Len(Rungs) \in Nat /\ \A k \in 1..Len(Rungs) : Rungs[k] \in E!StageKinds
  BY <1>1
<1>4. /\ \A k \in 1..Len(Rungs) : r[k] \in 1..6
      /\ \A i, j \in 1..Len(Rungs) : i < j => r[i] < r[j]
  BY <1>1, <1>2, <1>3
<1> HIDE DEF r
<1>5. ~(Len(Rungs) >= 7)
  <2> SUFFICES ASSUME Len(Rungs) >= 7 PROVE FALSE
    OBVIOUS
  <2>1. /\ 1 \in 1..Len(Rungs) /\ 2 \in 1..Len(Rungs) /\ 3 \in 1..Len(Rungs)
        /\ 4 \in 1..Len(Rungs) /\ 5 \in 1..Len(Rungs) /\ 6 \in 1..Len(Rungs)
        /\ 7 \in 1..Len(Rungs)
    BY <1>3
  <2>2. r[1] < r[2] /\ r[2] < r[3] /\ r[3] < r[4] /\ r[4] < r[5] /\ r[5] < r[6] /\ r[6] < r[7]
    BY <1>4, <2>1
  <2>3. /\ r[1] \in 1..6 /\ r[2] \in 1..6 /\ r[3] \in 1..6 /\ r[4] \in 1..6
        /\ r[5] \in 1..6 /\ r[6] \in 1..6 /\ r[7] \in 1..6
    BY <1>4, <2>1
  <2> QED
    BY <2>2, <2>3
<1>6. Len(Rungs) \in 2..6
  <2> DEFINE n == Len(Rungs)
  <2>1. n \in Nat /\ n >= 2 /\ ~(n >= 7)
    BY <1>1, <1>3, <1>5
  <2> HIDE DEF n
  <2>2. n \in 2..6
    BY <2>1
  <2> QED
    BY <2>2 DEF n
<1> QED
  BY <1>1, <1>6

\* Changing the last element of a sequence keeps its length.
LEMMA LastLength ==
  ASSUME NEW S, NEW h \in Seq(S), NEW r
  PROVE  Len([h EXCEPT ![Len(h)] = r]) = Len(h)
<1> DEFINE T == S \cup {r}
           g == [h EXCEPT ![Len(h)] = r]
<1>1. h \in [1..Len(h) -> T] /\ Len(h) \in Nat /\ r \in T
  OBVIOUS
<1>2. g \in [1..Len(h) -> T]
  BY <1>1
<1>3. g \in Seq(T) /\ DOMAIN g = 1..Len(h)
  BY <1>1, <1>2
<1> HIDE DEF g
<1> QED
  BY <1>1, <1>3

\* Opening a record adds at most one to the lineage.
LEMMA OpenedLength ==
  ASSUME NEW p \in EP!Plans
  PROVE  Len(E!Opened(p)) <= Len(p.history) + 1
<1> DEFINE h == p.history
           rec == [index |-> p.index, generation |-> p.stageGen, attempt |-> p.attempt,
                   outcome |-> "PENDING", exited |-> 0]
           last == [h[Len(h)] EXCEPT !.generation = p.stageGen, !.attempt = p.attempt]
<1>1. h \in Seq(EP!StageRecords)
  BY Zenon DEF EP!Plans
<1>2. E!Opened(p) = IF E!HasPending(p) /\ E!LastRecord(p).index = p.index
                    THEN [h EXCEPT ![Len(h)] = last] ELSE Append(h, rec)
  BY Zenon DEF E!Opened
<1> HIDE DEF h, rec, last
<1>3. Len([h EXCEPT ![Len(h)] = last]) = Len(h)
  BY <1>1, LastLength
<1>4. Len(Append(h, rec)) = Len(h) + 1 /\ Len(h) \in Nat
  BY <1>1
<1>5. Len(E!Opened(p)) <= Len(h) + 1
  BY <1>2, <1>3, <1>4
<1> QED
  BY <1>5 DEF h

\* Opening and closing a record gives a lineage longer by at most one.
LEMMA ClosedLength ==
  ASSUME NEW p \in EP!Plans, NEW o \in {"SUCCEEDED", "ROLLED_BACK"}, NEW t \in Nat
  PROVE  /\ E!Closed(E!Opened(p), o, t) \in Seq(EP!StageRecords)
         /\ Len(E!Closed(E!Opened(p), o, t)) <= Len(p.history) + 1
<1> DEFINE h == E!Opened(p)
           r == [h[Len(h)] EXCEPT !.outcome = o, !.exited = t]
<1>1. h \in Seq(EP!StageRecords) /\ h # <<>>
  BY SameOpened, LadderHolds, PolicyHolds, LimitHolds, EP!OpenedType
<1>2. Len(h) <= Len(p.history) + 1
  BY OpenedLength
<1>3. E!Closed(h, o, t) = [h EXCEPT ![Len(h)] = r]
  BY Zenon DEF E!Closed
<1> HIDE DEF h
<1>4. r \in EP!StageRecords
  <2>1. h[Len(h)] \in EP!StageRecords
    BY <1>1
  <2> QED
    BY <2>1 DEF EP!StageRecords
<1> HIDE DEF r
<1>5. Len([h EXCEPT ![Len(h)] = r]) = Len(h)
  BY <1>1, LastLength
<1>6. [h EXCEPT ![Len(h)] = r] \in Seq(EP!StageRecords)
  <2>1. Len(h) \in 1..Len(h)
    BY <1>1
  <2> QED
    BY <1>1, <1>4, <2>1
<1>7. Len(E!Closed(h, o, t)) <= Len(p.history) + 1
  BY <1>2, <1>3, <1>5
<1> QED
  BY <1>3, <1>6, <1>7 DEF h

\* A transition is pushed.
LEMMA PushLength ==
  ASSUME NEW ticks \in Seq(Nat), NEW t \in Nat
  PROVE  /\ E!PushTransition(ticks, t) \in Seq(Nat)
         /\ Len(E!PushTransition(ticks, t)) <= Len(ticks) + 1
<1>1. Len(ticks) \in Nat /\ Len(Append(ticks, t)) = Len(ticks) + 1 /\ Append(ticks, t) \in Seq(Nat)
  OBVIOUS
<1>2. CASE Len(ticks) < 64
  BY <1>1, <1>2 DEF E!PushTransition
<1>3. CASE ~(Len(ticks) < 64)
  <2>1. ticks # <<>>
    BY <1>3
  <2>2. Tail(ticks) \in Seq(Nat) /\ Len(Tail(ticks)) = Len(ticks) - 1
    BY <2>1
  <2>3. Append(Tail(ticks), t) \in Seq(Nat) /\ Len(Append(Tail(ticks), t)) = Len(ticks)
    BY <1>1, <2>2
  <2>4. E!PushTransition(ticks, t) = Append(Tail(ticks), t)
    BY <1>3 DEF E!PushTransition
  <2> QED
    BY <1>1, <2>3, <2>4
<1> QED
  BY <1>2, <1>3

\* The fields of a plan that are numbers or sequences.
LEMMA PlanNumbers ==
  ASSUME NEW p \in EP!Plans
  PROVE  /\ p.index \in Nat /\ p.generation \in Nat /\ p.stageGen \in Nat
         /\ p.totalAttempts \in Nat /\ p.attemptsInStage \in Nat /\ p.policyGen \in Nat
         /\ p.created \in Nat /\ p.updated \in Nat /\ p.cooldownUntil \in Nat
         /\ p.transitions \in Seq(Nat) /\ p.rollbacks \in Seq(Nat)
         /\ p.history \in Seq(EP!StageRecords)
         /\ Len(p.transitions) \in Nat /\ Len(p.rollbacks) \in Nat /\ Len(p.history) \in Nat
<1>1. /\ p.index \in Nat /\ p.generation \in Nat /\ p.stageGen \in Nat
      /\ p.totalAttempts \in Nat /\ p.attemptsInStage \in Nat /\ p.policyGen \in Nat
      /\ p.created \in Nat /\ p.updated \in Nat /\ p.cooldownUntil \in Nat
  BY Zenon DEF EP!Plans
<1>2. /\ p.transitions \in Seq(Nat) /\ p.rollbacks \in Seq(Nat)
      /\ p.history \in Seq(EP!StageRecords)
  BY Zenon DEF EP!Plans
<1>3. Len(p.transitions) \in Nat /\ Len(p.rollbacks) \in Nat /\ Len(p.history) \in Nat
  BY <1>2
<1> QED
  BY <1>1, <1>2, <1>3, Zenon

\* What the budgets of a plan are counted with stays as it was.
SameBudget(p, q) ==
  /\ q.index = p.index /\ q.policyGen = p.policyGen /\ q.completions = p.completions
  /\ q.stageGen = p.stageGen /\ q.totalAttempts = p.totalAttempts
  /\ q.generation = p.generation /\ q.rollbacks = p.rollbacks
  /\ q.transitions = p.transitions /\ q.history = p.history
  /\ q.attemptsInStage \in {p.attemptsInStage, 0}

\* What a plan is bound to and when it may go on.
SameTerms(p, q) ==
  /\ q.revalidationRequired = p.revalidationRequired /\ q.epoch = p.epoch
  /\ q.cooldownUntil = p.cooldownUntil

LEMMA StateFields ==
  ASSUME NEW p \in EP!Plans, NEW s
  PROVE  LET q == [p EXCEPT !.state = s] IN
         q.state = s /\ SameBudget(p, q) /\ SameTerms(p, q) /\ q.updated = p.updated
<1> DEFINE q == [p EXCEPT !.state = s]
<1>1. /\ q.state = s /\ q.index = p.index /\ q.policyGen = p.policyGen
      /\ q.completions = p.completions /\ q.stageGen = p.stageGen
      /\ q.totalAttempts = p.totalAttempts /\ q.generation = p.generation
      /\ q.rollbacks = p.rollbacks /\ q.transitions = p.transitions /\ q.history = p.history
      /\ q.attemptsInStage = p.attemptsInStage
  BY Zenon DEF EP!Plans
<1>2. SameTerms(p, q) /\ q.updated = p.updated
  BY Zenon DEF EP!Plans, SameTerms
<1> HIDE DEF q
<1>3. SameBudget(p, q)
  BY <1>1 DEF SameBudget
<1> QED
  BY <1>1, <1>2, <1>3 DEF q

LEMMA FlaggedFields ==
  ASSUME NEW p \in EP!Plans, NEW cap
  PROVE  /\ SameBudget(p, E!Flagged(p, cap))
         /\ E!Flagged(p, cap).state = "REVALIDATION_REQUIRED"
<1> DEFINE n == IF p.notes < cap THEN p.notes + 1 ELSE p.notes
           q == [p EXCEPT !.state = "REVALIDATION_REQUIRED", !.revalidationRequired = TRUE,
                          !.notes = n]
<1>1. E!Flagged(p, cap) = q
  BY Zenon DEF E!Flagged
<1> HIDE DEF n
<1>2. /\ q.state = "REVALIDATION_REQUIRED" /\ q.index = p.index /\ q.policyGen = p.policyGen
      /\ q.completions = p.completions /\ q.stageGen = p.stageGen
      /\ q.totalAttempts = p.totalAttempts /\ q.generation = p.generation
      /\ q.rollbacks = p.rollbacks /\ q.transitions = p.transitions /\ q.history = p.history
      /\ q.attemptsInStage = p.attemptsInStage
  BY Zenon DEF EP!Plans
<1> HIDE DEF q
<1>3. SameBudget(p, q)
  BY <1>2 DEF SameBudget
<1> QED
  BY <1>1, <1>2, <1>3

\* Live plans are flagged, the others stay as they were.
LEMMA InvalidatedFields ==
  ASSUME NEW p \in EP!Plans
  PROVE  /\ SameBudget(p, E!Invalidated(p))
         /\ E!Invalidated(p).state = IF E!IsLive(p) THEN "REVALIDATION_REQUIRED" ELSE p.state
<1>1. SameBudget(p, p)
  BY DEF SameBudget
<1> QED
  BY <1>1, FlaggedFields DEF E!Invalidated

LEMMA ImportedFields ==
  ASSUME NEW p \in EP!Plans, NEW e \in Nat
  PROVE  /\ SameBudget(p, E!Imported(p, e))
         /\ E!Imported(p, e).state = IF E!IsLive(p) THEN "REVALIDATION_REQUIRED" ELSE p.state
<1> DEFINE c == E!Invalidated(p)
           n == IF E!IsLive(p) THEN 1 ELSE c.notes
           q == [c EXCEPT !.epoch = e, !.notes = n]
<1>1. /\ c \in EP!Plans /\ SameBudget(p, c)
      /\ c.state = IF E!IsLive(p) THEN "REVALIDATION_REQUIRED" ELSE p.state
  BY SameInvalidated, LadderHolds, PolicyHolds, LimitHolds, EP!InvalidatedType,
     InvalidatedFields
<1>2. E!Imported(p, e) = IF p.state = "ABSENT" THEN p ELSE q
  BY <1>1, Zenon DEF E!Imported, EP!Plans
<1>3. p.state = "ABSENT" => ~E!IsLive(p)
  BY DEF E!IsLive, E!LiveStates, E!StageStates
<1> HIDE DEF c, n
<1>4. /\ q.state = c.state /\ q.index = c.index /\ q.policyGen = c.policyGen
      /\ q.completions = c.completions /\ q.stageGen = c.stageGen
      /\ q.totalAttempts = c.totalAttempts /\ q.generation = c.generation
      /\ q.rollbacks = c.rollbacks /\ q.transitions = c.transitions /\ q.history = c.history
      /\ q.attemptsInStage = c.attemptsInStage
  BY <1>1, Zenon DEF EP!Plans
<1> HIDE DEF q
<1>5. SameBudget(p, q) /\ SameBudget(p, p)
  BY <1>1, <1>4 DEF SameBudget
<1> QED
  BY <1>1, <1>2, <1>3, <1>4, <1>5

LEMMA RequiredFields ==
  ASSUME EngineTyped, E!RequireRevalidation(1)
  PROVE  /\ SameBudget(Plan, Plan')
         /\ Plan'.state = IF E!IsLive(Plan) THEN "REVALIDATION_REQUIRED" ELSE Plan.state
<1> DEFINE p == Plan
           c == E!Invalidated(p)
           q == [c EXCEPT !.attemptsInStage = 0]
<1>1. /\ p \in EP!Plans /\ c \in EP!Plans /\ SameBudget(p, c)
      /\ c.state = IF E!IsLive(p) THEN "REVALIDATION_REQUIRED" ELSE p.state
  BY EngineFacts, SameInvalidated, LadderHolds, PolicyHolds, LimitHolds, EP!InvalidatedType,
     InvalidatedFields
<1>2. E!Update(1, q)
  BY DEF E!RequireRevalidation, Plan
<1>3. Plan' = q
  BY <1>2, UpdatedPlan
<1> HIDE DEF c
<1>4. /\ q.state = c.state /\ q.index = c.index /\ q.policyGen = c.policyGen
      /\ q.completions = c.completions /\ q.stageGen = c.stageGen
      /\ q.totalAttempts = c.totalAttempts /\ q.generation = c.generation
      /\ q.rollbacks = c.rollbacks /\ q.transitions = c.transitions /\ q.history = c.history
      /\ q.attemptsInStage = 0
  BY <1>1, Zenon DEF EP!Plans
<1> HIDE DEF p, q
<1>5. SameBudget(p, q)
  BY <1>1, <1>4 DEF SameBudget
<1> QED
  BY <1>1, <1>3, <1>4, <1>5 DEF p

LEMMA StageState ==
  ASSUME NEW p \in EP!Plans, E!HasStage(p)
  PROVE  E!StateForStage[E!Kind(p)] \in E!StageStates
<1>1. 1 \in EP!PolicyGens
  BY DEF EP!PolicyGens
<1>2. EP!StateForStage[EP!Kind(p)] \in EP!StageStates
  BY <1>1, SameHasStage, LadderHolds, PolicyHolds, LimitHolds, EP!KindType
<1>3. E!StateForStage = EP!StateForStage /\ E!StageStates = EP!StageStates
  BY Zenon DEF E!StateForStage, EP!StateForStage, E!StageStates, EP!StageStates
<1> QED
  BY <1>2, <1>3, SameKind

LEMMA ResumedFields ==
  ASSUME EngineTyped, E!Resume(1)
  PROVE  /\ SameBudget(Plan, Plan') /\ SameTerms(Plan, Plan')
         /\ Plan'.state \in E!StageStates /\ Plan'.updated = now
<1> DEFINE p == Plan
           st == E!StateForStage[E!Kind(p)]
           q == [p EXCEPT !.state = st, !.attemptsInStage = 0, !.updated = now]
<1>1. E!HasStage(p) /\ E!Update(1, q)
  BY DEF E!Resume, E!Resumable, Plan
<1>2. p \in EP!Plans /\ st \in E!StageStates /\ Plan' = q
  BY <1>1, EngineFacts, StageState, UpdatedPlan
<1> HIDE DEF p, st
<1>3. /\ q.state = st /\ q.index = p.index /\ q.policyGen = p.policyGen
      /\ q.completions = p.completions /\ q.stageGen = p.stageGen
      /\ q.totalAttempts = p.totalAttempts /\ q.generation = p.generation
      /\ q.rollbacks = p.rollbacks /\ q.transitions = p.transitions /\ q.history = p.history
      /\ q.attemptsInStage = 0
  BY <1>2, Zenon DEF EP!Plans
<1>4. SameTerms(p, q) /\ q.updated = now
  BY <1>2, Zenon DEF EP!Plans, SameTerms
<1> HIDE DEF q
<1>5. SameBudget(p, q)
  BY <1>3 DEF SameBudget
<1> QED
  BY <1>2, <1>3, <1>4, <1>5 DEF p

LEMMA RolledBackFields ==
  ASSUME EngineTyped, E!Rollback(1)
  PROVE  LET p == Plan  q == Plan' IN
         /\ q.index = p.index /\ q.policyGen = p.policyGen /\ q.completions = p.completions
         /\ q.stageGen = p.stageGen /\ q.totalAttempts = p.totalAttempts
         /\ q.generation = p.generation /\ q.attemptsInStage = 0
         /\ q.revalidationRequired = p.revalidationRequired /\ q.epoch = p.epoch
         /\ q.updated = now /\ q.cooldownUntil = now + 5
         /\ q.rollbacks = Append(p.rollbacks, now)
         /\ Len(q.transitions) <= Len(p.transitions) + 1
         /\ Len(q.history) <= Len(p.history) + 1
         /\ q.state = IF Len(p.rollbacks) + 1 >= 3 THEN "FAILED" ELSE "ROLLED_BACK"
<1> DEFINE p == Plan
           st == IF Len(p.rollbacks) + 1 >= 3 THEN "FAILED" ELSE "ROLLED_BACK"
           h == IF E!HasStage(p) /\ (E!HasPending(p) \/ ~E!HistoryFull(p))
                THEN E!Closed(E!Opened(p), "ROLLED_BACK", now) ELSE p.history
           rs == Append(p.rollbacks, now)
           until == now + 5
           tr == E!PushTransition(p.transitions, now)
           q == [p EXCEPT !.state = st, !.history = h, !.rollbacks = rs, !.updated = now,
                          !.attemptsInStage = 0, !.cooldownUntil = until,
                          !.transitions = tr]
<1>1. E!Update(1, E!RolledBack(p))
  BY DEF E!Rollback, Plan
<1>2. p \in EP!Plans /\ now \in Nat /\ Plan' = E!RolledBack(p)
  BY <1>1, EngineFacts, UpdatedPlan
<1>3. E!RolledBack(p) = q
  BY <1>2 DEF E!RolledBack, EP!Plans
<1>4. Len(tr) <= Len(p.transitions) + 1
  BY <1>2, PlanNumbers, PushLength
<1>5. Len(h) <= Len(p.history) + 1
  <2>1. Len(p.history) \in Nat
    BY <1>2, PlanNumbers
  <2>2. Len(E!Closed(E!Opened(p), "ROLLED_BACK", now)) <= Len(p.history) + 1
    BY <1>2, ClosedLength
  <2> QED
    BY <2>1, <2>2
<1> HIDE DEF p, st, h, rs, until, tr
<1>6. /\ q.index = p.index /\ q.policyGen = p.policyGen /\ q.completions = p.completions
      /\ q.stageGen = p.stageGen /\ q.totalAttempts = p.totalAttempts
      /\ q.generation = p.generation /\ q.attemptsInStage = 0
      /\ q.revalidationRequired = p.revalidationRequired /\ q.epoch = p.epoch
      /\ q.updated = now /\ q.cooldownUntil = until
      /\ q.rollbacks = rs /\ q.transitions = tr /\ q.history = h /\ q.state = st
  BY <1>2, Zenon DEF EP!Plans
<1> HIDE DEF q
<1>7. Plan' = q
  BY <1>2, <1>3
<1>8. /\ Len(q.transitions) <= Len(p.transitions) + 1 /\ Len(q.history) <= Len(p.history) + 1
  BY <1>4, <1>5, <1>6
<1> QED
  BY <1>6, <1>7, <1>8, Zenon DEF p, st, rs, until

LEMMA RevalidatedFields ==
  ASSUME EngineTyped, E!Revalidate(1)
  PROVE  LET p == Plan  q == Plan' IN
         /\ q.index = p.index /\ q.policyGen = 1 /\ q.completions = p.completions
         /\ q.stageGen = p.stageGen + 1 /\ q.totalAttempts = p.totalAttempts + 1
         /\ q.generation = p.generation + 1 /\ q.attemptsInStage = 0
         /\ q.rollbacks = p.rollbacks /\ q.transitions = p.transitions
         /\ Len(q.history) <= Len(p.history) + 1
         /\ q.state \in E!StageStates /\ q.revalidationRequired = FALSE /\ q.epoch = epoch
         /\ q.updated = now /\ q.cooldownUntil = 0
<1> DEFINE p == Plan
           st == E!StateForStage[E!Kind(p)]
           g == p.generation + 1
           sg == p.stageGen + 1
           n == p.totalAttempts + 1
           r == [p EXCEPT !.epoch = epoch, !.policyGen = 1, !.revalidationRequired = FALSE,
                          !.updated = now, !.attemptsInStage = 0, !.cooldownUntil = 0,
                          !.notes = 0, !.generation = g, !.stageGen = sg,
                          !.attempt = n, !.totalAttempts = n, !.state = st]
           o == E!Opened(r)
           q == [r EXCEPT !.history = o]
<1>1. /\ E!Update(1, E!Revalidated(p)) /\ E!HasStage(p)
  BY DEF E!Revalidate, E!Revalidatable, Plan
<1>2. /\ p \in EP!Plans /\ st \in E!StageStates /\ Plan' = E!Revalidated(p)
      /\ epoch \in Nat /\ now \in Nat /\ g \in Nat /\ sg \in Nat /\ n \in Nat
  BY <1>1, EngineFacts, StageState, UpdatedPlan
<1>3. E!Revalidated(p) = q
  <2>1. /\ E!Rebound(p).generation = p.generation /\ E!Rebound(p).stageGen = p.stageGen
        /\ E!Rebound(p).totalAttempts = p.totalAttempts
    BY <1>2, Zenon DEF E!Rebound, EP!Plans
  <2>2. r = [E!Rebound(p) EXCEPT !.generation = g, !.stageGen = sg,
                              !.attempt = n, !.totalAttempts = n, !.state = st]
    BY <1>2 DEF E!Rebound, EP!Plans
  <2>3. E!Revalidated(p) =
          LET b == [E!Rebound(p) EXCEPT !.generation = g, !.stageGen = sg,
                              !.attempt = n, !.totalAttempts = n, !.state = st]
          IN [b EXCEPT !.history = E!Opened(b)]
    BY <2>1, Zenon DEF E!Revalidated
  <2> HIDE DEF p, st, g, sg, n, r
  <2> QED
    BY <2>2, <2>3
<1>4. E!StageStates \subseteq EP!RecoveryStates
  BY DEF E!StageStates, EP!RecoveryStates, EP!LiveStates, EP!StageStates
<1> HIDE DEF p, st, g, sg, n
<1>5. r \in EP!Plans
  <2>1. st \in EP!RecoveryStates \cup {"ABSENT"} /\ 1 \in Nat /\ 0 \in Nat /\ FALSE \in BOOLEAN
    BY <1>2, <1>4
  <2> QED
    BY <1>2, <2>1, Zenon DEF EP!Plans
<1>6. /\ r.index = p.index /\ r.policyGen = 1 /\ r.completions = p.completions
      /\ r.stageGen = sg /\ r.totalAttempts = n /\ r.generation = g /\ r.attemptsInStage = 0
      /\ r.rollbacks = p.rollbacks /\ r.transitions = p.transitions /\ r.history = p.history
      /\ r.state = st /\ r.revalidationRequired = FALSE /\ r.epoch = epoch
      /\ r.updated = now /\ r.cooldownUntil = 0
  BY <1>2, Zenon DEF EP!Plans
<1> HIDE DEF r
<1>7. Len(o) <= Len(r.history) + 1
  BY <1>5, OpenedLength
<1> HIDE DEF o
<1>8. /\ q.index = r.index /\ q.policyGen = r.policyGen /\ q.completions = r.completions
      /\ q.stageGen = r.stageGen /\ q.totalAttempts = r.totalAttempts
      /\ q.generation = r.generation /\ q.attemptsInStage = r.attemptsInStage
      /\ q.rollbacks = r.rollbacks /\ q.transitions = r.transitions /\ q.history = o
      /\ q.state = r.state /\ q.revalidationRequired = r.revalidationRequired
      /\ q.epoch = r.epoch /\ q.updated = r.updated /\ q.cooldownUntil = r.cooldownUntil
  BY <1>5, Zenon DEF EP!Plans
<1> HIDE DEF q
<1>9. Len(q.history) <= Len(p.history) + 1
  BY <1>6, <1>7, <1>8
<1> QED
  BY <1>2, <1>3, <1>6, <1>8, <1>9 DEF p, g, sg, n

LEMMA CreatedFields ==
  ASSUME EngineTyped, E!CreatePlan(1)
  PROVE  LET q == Plan' IN
         /\ q.index = 0 /\ q.policyGen = 1 /\ q.completions = <<>>
         /\ q.stageGen = 1 /\ q.totalAttempts = 1 /\ q.generation = 1 /\ q.attemptsInStage = 1
         /\ q.rollbacks = <<>> /\ q.transitions = <<>> /\ Len(q.history) = 1
         /\ q.state \in E!StageStates /\ q.revalidationRequired = FALSE /\ q.epoch = epoch
         /\ q.updated = now /\ q.cooldownUntil = 0
<1> DEFINE st == E!StateForStage[<<Rungs>>[1][1]]
           h == <<[index |-> 0, generation |-> 1, attempt |-> 1,
                   outcome |-> "PENDING", exited |-> 0]>>
           q == [E!NoPlan EXCEPT !.state = st, !.epoch = epoch,
                 !.policyGen = 1, !.generation = 1, !.stageGen = 1,
                 !.attempt = 1, !.totalAttempts = 1, !.attemptsInStage = 1,
                 !.created = now, !.updated = now, !.history = h]
<1>1. E!NewPlan = q
  BY DEF E!NewPlan
<1>2. Plan' = q
  BY <1>1, UpdatedPlan DEF E!CreatePlan
<1>3. st \in E!StageStates
  BY RungsLength DEF E!StateForStage, E!StageStates
<1>4. Len(h) = 1
  OBVIOUS
<1> HIDE DEF st, h
<1>5. /\ q.index = 0 /\ q.policyGen = 1 /\ q.completions = <<>>
      /\ q.stageGen = 1 /\ q.totalAttempts = 1 /\ q.generation = 1 /\ q.attemptsInStage = 1
      /\ q.rollbacks = <<>> /\ q.transitions = <<>> /\ q.history = h
      /\ q.state = st /\ q.revalidationRequired = FALSE /\ q.epoch = epoch
      /\ q.updated = now /\ q.cooldownUntil = 0
  BY DEF E!NoPlan
<1> HIDE DEF q
<1> QED
  BY <1>2, <1>3, <1>4, <1>5

\* The next rung.
LEMMA EnteredFields ==
  ASSUME EngineTyped, NEW s \in EP!Snapshots, E!AdvanceStage(1, s), E!HasStage(Plan)
  PROVE  LET p == Plan  q == Plan' IN
         /\ q.index = p.index + 1 /\ q.index < Len(Rungs)
         /\ q.policyGen = p.policyGen /\ q.completions = p.completions
         /\ q.stageGen = p.stageGen + 1 /\ q.totalAttempts = p.totalAttempts + 1
         /\ q.generation = p.generation /\ q.attemptsInStage = 1
         /\ q.rollbacks = p.rollbacks
         /\ Len(q.transitions) <= Len(p.transitions) + 1
         /\ Len(q.history) <= Len(p.history) + 2
         /\ q.state \in E!StageStates /\ SameTerms(p, q) /\ q.updated = s.tick
<1> DEFINE p == Plan
           h == E!Closed(E!Opened(p), "SUCCEEDED", s.tick)
           i == p.index + 1
           c == E!Climbed(p, s)
           st == E!StateForStage[E!Kind(c)]
           tr == E!PushTransition(p.transitions, s.tick)
           sg == p.stageGen + 1
           n == p.totalAttempts + 1
           r == [p EXCEPT !.history = h, !.index = i, !.stageGen = sg, !.attempt = n,
                          !.totalAttempts = n, !.attemptsInStage = 1, !.state = st,
                          !.updated = s.tick, !.transitions = tr]
           o == E!Opened(r)
           q == [r EXCEPT !.history = o]
<1>1. /\ E!Update(1, E!Entered(c, s)) /\ E!Kind(p) # "COMPLETE"
  BY DEF E!AdvanceStage, Plan
<1>2. /\ p \in EP!Plans /\ s.tick \in Nat /\ Plan' = E!Entered(c, s)
      /\ i \in Nat /\ sg \in Nat /\ n \in Nat
  <2>1. s.tick \in Nat
    BY EngineFacts DEF EP!Snapshots
  <2> QED
    BY <1>1, <2>1, EngineFacts, UpdatedPlan
<1>3. c \in EP!Plans /\ E!HasStage(c)
  <2>1. EP!HasStage(EP!Climbed(p, s)) /\ EP!Climbed(p, s) \in EP!Plans
    <3>1. EP!HasStage(p) /\ EP!Kind(p) # "COMPLETE"
      BY <1>1, SameHasStage, SameKind
    <3> QED
      BY <1>2, <3>1, LadderHolds, PolicyHolds, LimitHolds, EP!NextRung, EP!ClimbedType
         DEF EngineTyped
  <2> QED
    BY <2>1, SameClimbed, SameHasStage
<1>4. st \in E!StageStates
  BY <1>3, StageState
<1>5. c = [p EXCEPT !.history = h, !.index = i]
  BY Zenon DEF E!Climbed
<1>6. /\ c.stageGen = p.stageGen /\ c.totalAttempts = p.totalAttempts /\ c.index = i
      /\ c.transitions = p.transitions /\ c.history = h
  <2> HIDE DEF p, h, i, c
  <2> QED
    BY <1>2, <1>5, Zenon DEF EP!Plans
<1>7. i < Len(Rungs)
  BY <1>3, <1>6 DEF E!HasStage
<1>8. E!Entered(c, s) = q
  <2>1. E!Entered(c, s) =
          LET b == [c EXCEPT !.stageGen = sg, !.attempt = n, !.totalAttempts = n,
                             !.attemptsInStage = 1, !.state = st, !.updated = s.tick,
                             !.transitions = tr]
          IN [b EXCEPT !.history = E!Opened(b)]
    <3> HIDE DEF p, c
    <3> QED
      BY <1>3, <1>6, Zenon DEF E!Entered
  <2>2. r = [c EXCEPT !.stageGen = sg, !.attempt = n, !.totalAttempts = n,
                      !.attemptsInStage = 1, !.state = st, !.updated = s.tick,
                      !.transitions = tr]
    <3> HIDE DEF p, h, i, c, st, tr, sg, n
    <3> QED
      BY <1>2, <1>5 DEF EP!Plans
  <2> HIDE DEF r, p, c, st, tr, sg, n
  <2> QED
    BY <2>1, <2>2
<1>9. /\ h \in Seq(EP!StageRecords) /\ Len(h) <= Len(p.history) + 1
      /\ tr \in Seq(Nat) /\ Len(tr) <= Len(p.transitions) + 1
      /\ Len(p.history) \in Nat
  BY <1>2, ClosedLength, PlanNumbers, PushLength
<1>10. E!StageStates \subseteq EP!RecoveryStates
  BY DEF E!StageStates, EP!RecoveryStates, EP!LiveStates, EP!StageStates
<1> HIDE DEF p, h, i, c, st, tr, sg, n
<1>11. r \in EP!Plans
  <2>1. st \in EP!RecoveryStates \cup {"ABSENT"} /\ 1 \in Nat
    BY <1>4, <1>10
  <2> QED
    BY <1>2, <1>9, <2>1, Zenon DEF EP!Plans
<1>12. /\ r.index = i /\ r.policyGen = p.policyGen /\ r.completions = p.completions
       /\ r.stageGen = sg /\ r.totalAttempts = n /\ r.generation = p.generation
       /\ r.attemptsInStage = 1 /\ r.rollbacks = p.rollbacks /\ r.transitions = tr
       /\ r.history = h /\ r.state = st /\ SameTerms(p, r) /\ r.updated = s.tick
  BY <1>2, Zenon DEF EP!Plans, SameTerms
<1> HIDE DEF r
<1>13. Len(o) <= Len(r.history) + 1
  BY <1>11, OpenedLength
<1> HIDE DEF o
<1>14. /\ q.index = r.index /\ q.policyGen = r.policyGen /\ q.completions = r.completions
       /\ q.stageGen = r.stageGen /\ q.totalAttempts = r.totalAttempts
       /\ q.generation = r.generation /\ q.attemptsInStage = r.attemptsInStage
       /\ q.rollbacks = r.rollbacks /\ q.transitions = r.transitions /\ q.history = o
       /\ q.state = r.state /\ SameTerms(r, q) /\ q.updated = r.updated
  BY <1>11, Zenon DEF EP!Plans, SameTerms
<1> HIDE DEF q
<1>15. Len(q.history) <= Len(p.history) + 2
  <2>1. Len(o) \in Nat /\ Len(h) \in Nat
    <3>1. E!Opened(r) \in Seq(EP!StageRecords)
      BY <1>11, SameOpened, LadderHolds, PolicyHolds, LimitHolds, EP!OpenedType
    <3> QED
      BY <1>9, <3>1 DEF o
  <2> QED
    BY <1>9, <1>12, <1>13, <1>14, <2>1
<1>16. SameTerms(p, q)
  BY <1>12, <1>14 DEF SameTerms
<1> QED
  BY <1>2, <1>4, <1>7, <1>8, <1>9, <1>12, <1>14, <1>15, <1>16 DEF p, i, sg, n

-----------------------------------------------------------------------------
(* The counters of a plan.                                                 *)

LEMMA PlainCardinality == \A S : E!Cardinality(S) = Cardinality(S)
BY DEF E!Cardinality, Cardinality

\* A call that leaves the budgets alone keeps them counted.
LEMMA CountedKept ==
  ASSUME NEW p \in EP!Plans, NEW q, Counted(p), SameBudget(p, q),
         E!IsLive(q) => E!IsLive(p),
         q.state = "ROLLING_BACK" => q.rollbacks = <<>>
  PROVE  Counted(q)
<1> SUFFICES ASSUME E!IsLive(q)
             PROVE  /\ q.index < Len(Rungs) /\ q.policyGen = 1
                    /\ q.completions = <<>> /\ q.attemptsInStage <= 1
                    /\ q.stageGen = q.index + q.generation
                    /\ q.totalAttempts = q.index + q.generation
                    /\ Len(q.rollbacks) <= 1
                    /\ Len(q.transitions) <= q.index + Len(q.rollbacks)
                    /\ Len(q.history) <= 2 * q.index + q.generation + Len(q.rollbacks)
                    /\ q.state = "ROLLING_BACK" => q.rollbacks = <<>>
  BY Zenon DEF Counted
<1>1. /\ p.index < Len(Rungs) /\ p.policyGen = 1
      /\ p.completions = <<>> /\ p.attemptsInStage <= 1
      /\ p.stageGen = p.index + p.generation
      /\ p.totalAttempts = p.index + p.generation
      /\ Len(p.rollbacks) <= 1
      /\ Len(p.transitions) <= p.index + Len(p.rollbacks)
      /\ Len(p.history) <= 2 * p.index + p.generation + Len(p.rollbacks)
  BY Zenon DEF Counted
<1>2. q.attemptsInStage <= 1
  BY <1>1 DEF SameBudget
<1> QED
  BY <1>1, <1>2, Zenon DEF SameBudget

LEMMA NotLive ==
  /\ \A p : p.state \in {"ABSENT", "COMPLETED", "FAILED"} => ~E!IsLive(p)
  /\ \A p : p.state \in E!StageStates => E!IsLive(p) /\ p.state # "ROLLING_BACK"
  /\ \A p : p.state \in {"PAUSED", "REVALIDATION_REQUIRED", "ROLLED_BACK", "ROLLING_BACK"} =>
       E!IsLive(p) /\ p.state \notin E!StageStates
BY DEF E!IsLive, E!LiveStates, E!StageStates

\* What advance can come to, with no partial application and one attempt used.
LEMMA AdvanceCases ==
  ASSUME EngineTyped, Counted(Plan), NEW f, E!AdvanceWith(1, SnapshotOf(f))
  PROVE  /\ E!IsLive(Plan) /\ E!HasStage(Plan)
         /\ \/ SameBudget(Plan, Plan') /\ Plan'.state \in {"REVALIDATION_REQUIRED", "PAUSED"}
            \/ Plan'.state \in {"FAILED", "COMPLETED"}
            \/ ~f.cleared /\ SameBudget(Plan, Plan') /\ Plan'.state = "ROLLING_BACK"
            \/ E!AdvanceStage(1, SnapshotOf(f))
<1> DEFINE p == Plan
           s == SnapshotOf(f)
           Idle == SameBudget(p, Plan') /\ Plan'.state \in {"REVALIDATION_REQUIRED", "PAUSED"}
           Over == Plan'.state \in {"FAILED", "COMPLETED"}
           Undone == ~f.cleared /\ SameBudget(p, Plan') /\ Plan'.state = "ROLLING_BACK"
<1>1. p \in EP!Plans /\ p = plans[1]
  BY EngineFacts DEF Plan
<1>2. E!IsLive(p) /\ E!HasStage(p)
  BY <1>1, Zenon DEF E!AdvanceWith, E!AdvanceStale, E!Coherent
<1>3. s.verdict = IF f.cleared THEN "good" ELSE "recurrence"
  BY DEF SnapshotOf
<1>4. CASE E!AdvanceStale(1, s) \/ E!AdvanceOutlived(1, s) \/ E!AdvanceCrossedBoundary(1, s)
  <2>1. E!Update(1, E!Flagged(p, 256)) \/ E!Update(1, E!Failed(p))
    BY <1>1, <1>2, <1>4 DEF E!AdvanceStale, E!AdvanceOutlived, E!AdvanceCrossedBoundary,
       E!InvalidatedDraft
  <2>2. Plan' = E!Flagged(p, 256) \/ Plan' = [p EXCEPT !.state = "FAILED"]
    BY <2>1, UpdatedPlan DEF E!Failed
  <2>3. SameBudget(p, E!Flagged(p, 256)) /\ E!Flagged(p, 256).state = "REVALIDATION_REQUIRED"
    BY <1>1, FlaggedFields
  <2>4. [p EXCEPT !.state = "FAILED"].state = "FAILED"
    BY <1>1, StateFields
  <2>5. Idle \/ Over
    BY <2>2, <2>3, <2>4, Zenon
  <2> QED
    BY <1>2, <2>5
<1>5. CASE E!AdvanceRecurrence(1, s)
  <2>1. E!StateOnRecurrence = "ROLLING_BACK"
    BY DEF E!StateOnRecurrence
  <2>2. E!Update(1, [p EXCEPT !.state = E!StateOnRecurrence]) /\ s.verdict = "recurrence"
    BY <1>1, <1>5, Zenon DEF E!AdvanceRecurrence
  <2>3. Plan' = [p EXCEPT !.state = "ROLLING_BACK"] /\ ~f.cleared
    BY <1>3, <2>1, <2>2, UpdatedPlan
  <2>4. Undone
    BY <1>1, <2>3, StateFields
  <2> QED
    BY <1>2, <2>4
<1>6. CASE E!AdvanceRateExceeded(1, s)
  <2>1. E!Update(1, [p EXCEPT !.state = "PAUSED"])
    BY <1>1, <1>6, Zenon DEF E!AdvanceRateExceeded
  <2>2. /\ SameBudget(p, [p EXCEPT !.state = "PAUSED"])
        /\ [p EXCEPT !.state = "PAUSED"].state = "PAUSED"
    BY <1>1, StateFields
  <2>3. Plan' = [p EXCEPT !.state = "PAUSED"]
    BY <2>1, UpdatedPlan
  <2>4. Idle
    BY <2>2, <2>3, Zenon
  <2> QED
    BY <1>2, <2>4
<1>7. CASE E!AdvanceBudgetExhausted(1, s)
  <2>1. p.attemptsInStage <= 1 /\ p.attemptsInStage \in Nat
    BY <1>1, <1>2, PlanNumbers, Zenon DEF Counted
  <2>2. ~(p.attemptsInStage >= 3)
    BY <2>1
  <2>3. E!Update(1, E!Failed(p))
    BY <1>1, <1>7, <2>2, Zenon DEF E!AdvanceBudgetExhausted
  <2>4. [p EXCEPT !.state = "FAILED"].state = "FAILED"
    BY <1>1, StateFields
  <2>5. Plan' = [p EXCEPT !.state = "FAILED"]
    BY <2>3, UpdatedPlan DEF E!Failed
  <2>6. Over
    BY <2>4, <2>5, Zenon
  <2> QED
    BY <1>2, <2>6
<1>8. ~E!AdvancePartial(1, s)
  <2>1. s.verdict # "partial"
    BY <1>3
  <2> QED
    BY <2>1, Zenon DEF E!AdvancePartial
<1>9. CASE E!AdvanceHistoryFull(1, s)
  <2> DEFINE h == E!Closed(E!Opened(p), "SUCCEEDED", s.tick)
  <2>1. PICK q : E!Update(1, E!Failed(q)) /\ (q = p \/ q = [p EXCEPT !.history = h])
    BY <1>1, <1>9, Zenon DEF E!AdvanceHistoryFull
  <2>2. DOMAIN p = DOMAIN q /\ "state" \in DOMAIN p
    <3> HIDE DEF h
    <3> QED
      BY <1>1, <2>1, Zenon DEF EP!Plans
  <2>3. E!Failed(q).state = "FAILED"
    BY <2>2, Zenon DEF E!Failed
  <2>4. Over
    BY <2>1, <2>3, UpdatedPlan
  <2> QED
    BY <1>2, <2>4
<1>10. CASE E!AdvanceCommit(1, s)
  <2>1. E!Update(1, E!Committed(p, s))
    BY <1>1, <1>10, Zenon DEF E!AdvanceCommit
  <2>2. E!Committed(p, s).state = "COMPLETED"
    BY <1>1, Zenon DEF E!Committed, EP!Plans
  <2>3. Over
    BY <2>1, <2>2, UpdatedPlan
  <2> QED
    BY <1>2, <2>3
<1>11. CASE E!AdvanceExhausted(1, s)
  <2>1. E!Update(1, E!Failed(E!Climbed(p, s)))
    BY <1>1, <1>11, Zenon DEF E!AdvanceExhausted
  <2>2. DOMAIN E!Climbed(p, s) = DOMAIN p /\ "state" \in DOMAIN p
    BY <1>1, Zenon DEF EP!Plans, E!Climbed
  <2>3. E!Failed(E!Climbed(p, s)).state = "FAILED"
    BY <2>2, Zenon DEF E!Failed
  <2>4. Over
    BY <2>1, <2>3, UpdatedPlan
  <2> QED
    BY <1>2, <2>4
<1>12. CASE E!AdvanceStage(1, s)
  BY <1>2, <1>12
<1> QED
  BY <1>4, <1>5, <1>6, <1>7, <1>8, <1>9, <1>10, <1>11, <1>12, Zenon DEF E!AdvanceWith

\* Congestion that comes back before the first rollback is the only one there is.
LEMMA AdvanceCounted ==
  ASSUME EngineTyped, Counted(Plan), NEW f, E!AdvanceWith(1, SnapshotOf(f)),
         ~f.cleared => Plan.rollbacks = <<>>
  PROVE  Counted(Plan')
<1>1. Plan \in EP!Plans /\ E!IsLive(Plan) /\ E!HasStage(Plan)
  BY EngineFacts, AdvanceCases
<1>2. CASE SameBudget(Plan, Plan') /\ Plan'.state \in {"REVALIDATION_REQUIRED", "PAUSED"}
  BY <1>1, <1>2, CountedKept
<1>3. CASE Plan'.state \in {"FAILED", "COMPLETED"}
  BY <1>3, NotLive DEF Counted
<1>4. CASE ~f.cleared /\ SameBudget(Plan, Plan') /\ Plan'.state = "ROLLING_BACK"
  <2>1. Plan'.rollbacks = <<>>
    BY <1>4 DEF SameBudget
  <2> QED
    BY <1>1, <1>4, <2>1, CountedKept
<1>5. CASE E!AdvanceStage(1, SnapshotOf(f))
  <2> DEFINE p == Plan
             q == Plan'
  <2>1. /\ q.index = p.index + 1 /\ q.index < Len(Rungs)
        /\ q.policyGen = p.policyGen /\ q.completions = p.completions
        /\ q.stageGen = p.stageGen + 1 /\ q.totalAttempts = p.totalAttempts + 1
        /\ q.generation = p.generation /\ q.attemptsInStage = 1
        /\ q.rollbacks = p.rollbacks
        /\ Len(q.transitions) <= Len(p.transitions) + 1
        /\ Len(q.history) <= Len(p.history) + 2
        /\ q.state \in E!StageStates
    BY <1>1, <1>5, SnapshotType, EnteredFields
  <2>2. /\ p.policyGen = 1 /\ p.completions = <<>>
        /\ p.stageGen = p.index + p.generation /\ p.totalAttempts = p.index + p.generation
        /\ Len(p.rollbacks) <= 1
        /\ Len(p.transitions) <= p.index + Len(p.rollbacks)
        /\ Len(p.history) <= 2 * p.index + p.generation + Len(p.rollbacks)
    BY <1>1, Zenon DEF Counted
  <2>3. /\ p.index \in Nat /\ p.generation \in Nat /\ Len(p.rollbacks) \in Nat
        /\ Len(p.transitions) \in Nat /\ Len(p.history) \in Nat
    BY <1>1, PlanNumbers
  <2>4. q.state # "ROLLING_BACK"
    BY <2>1, NotLive
  <2>5. Len(q.transitions) \in Nat /\ Len(q.history) \in Nat
    <3>1. Plan' \in EP!Plans
      <4>1. EngineCall
        BY DEF EngineCall
      <4>2. EngineTyped'
        BY <4>1, EngineCallType
      <4> QED
        BY <4>2 DEF EngineTyped, EP!TypeOK, Plan
    <3> QED
      BY <3>1, PlanNumbers
  <2> HIDE DEF p, q
  <2>6. /\ q.stageGen = q.index + q.generation /\ q.totalAttempts = q.index + q.generation
        /\ Len(q.transitions) <= q.index + Len(q.rollbacks)
        /\ Len(q.history) <= 2 * q.index + q.generation + Len(q.rollbacks)
        /\ q.attemptsInStage <= 1
    <3> DEFINE pt == Len(p.transitions)
               ph == Len(p.history)
               pr == Len(p.rollbacks)
               qt == Len(q.transitions)
               qh == Len(q.history)
               qr == Len(q.rollbacks)
    <3>1. qr = pr /\ pr \in Nat /\ pt \in Nat /\ ph \in Nat /\ qt \in Nat /\ qh \in Nat
      BY <2>1, <2>3, <2>5
    <3>2. pt <= p.index + pr /\ ph <= 2 * p.index + p.generation + pr
          /\ qt <= pt + 1 /\ qh <= ph + 2
      BY <2>1, <2>2
    <3> HIDE DEF pt, ph, pr, qt, qh, qr
    <3>3. qt <= q.index + qr /\ qh <= 2 * q.index + q.generation + qr
      <4> DEFINE i == p.index
                 g == p.generation
                 j == q.index
                 k == q.generation
      <4>1. i \in Nat /\ g \in Nat /\ j = i + 1 /\ k = g
        BY <2>1, <2>3
      <4>2. pt <= i + pr /\ ph <= 2 * i + g + pr /\ qt <= pt + 1 /\ qh <= ph + 2
        BY <3>2
      <4> HIDE DEF i, g, j, k
      <4>3. qt <= j + qr /\ qh <= 2 * j + k + qr
        BY <3>1, <4>1, <4>2
      <4> QED
        BY <4>3 DEF j, k
    <3>4. /\ q.stageGen = q.index + q.generation /\ q.totalAttempts = q.index + q.generation
          /\ q.attemptsInStage <= 1
      BY <2>1, <2>2, <2>3
    <3> QED
      BY <3>3, <3>4 DEF qt, qh, qr
  <2>7. Counted(q)
    BY <2>1, <2>2, <2>4, <2>6 DEF Counted
  <2> QED
    BY <2>7 DEF q
<1> QED
  BY <1>2, <1>3, <1>4, <1>5, AdvanceCases

\* The calls other than advance.
LEMMA RequiredCounted ==
  ASSUME EngineTyped, Counted(Plan), E!RequireRevalidation(1)
  PROVE  Counted(Plan')
<1>1. Plan \in EP!Plans
  BY EngineFacts
<1>2. /\ SameBudget(Plan, Plan')
      /\ Plan'.state = IF E!IsLive(Plan) THEN "REVALIDATION_REQUIRED" ELSE Plan.state
  BY RequiredFields
<1>3. E!IsLive(Plan') => E!IsLive(Plan)
  BY <1>2 DEF E!IsLive
<1>4. Plan'.state # "ROLLING_BACK"
  BY <1>2 DEF E!IsLive, E!LiveStates
<1> QED
  BY <1>1, <1>2, <1>3, <1>4, CountedKept

LEMMA ResumedCounted ==
  ASSUME EngineTyped, Counted(Plan), E!Resume(1)
  PROVE  Counted(Plan')
<1>1. Plan \in EP!Plans /\ SameBudget(Plan, Plan') /\ Plan'.state \in E!StageStates
  BY EngineFacts, ResumedFields
<1>2. E!IsLive(Plan)
  BY NotLive DEF E!Resume, E!Resumable, Plan
<1>3. Plan'.state # "ROLLING_BACK"
  BY <1>1 DEF E!StageStates
<1> QED
  BY <1>1, <1>2, <1>3, CountedKept

LEMMA CreatedCounted ==
  ASSUME EngineTyped, E!CreatePlan(1)
  PROVE  Counted(Plan') /\ Plan'.generation = 1
<1> DEFINE q == Plan'
<1>1. /\ q.index = 0 /\ q.policyGen = 1 /\ q.completions = <<>>
      /\ q.stageGen = 1 /\ q.totalAttempts = 1 /\ q.generation = 1 /\ q.attemptsInStage = 1
      /\ q.rollbacks = <<>> /\ q.transitions = <<>> /\ Len(q.history) = 1
      /\ q.state \in E!StageStates
  BY CreatedFields
<1>2. 0 < Len(Rungs) /\ Len(<<>>) = 0
  BY RungsLength
<1> HIDE DEF q
<1>3. q.state # "ROLLING_BACK"
  BY <1>1 DEF E!StageStates
<1>4. /\ q.index < Len(Rungs) /\ q.stageGen = q.index + q.generation
      /\ q.totalAttempts = q.index + q.generation /\ q.attemptsInStage <= 1
      /\ Len(q.rollbacks) <= 1 /\ Len(q.transitions) <= q.index + Len(q.rollbacks)
      /\ Len(q.history) <= 2 * q.index + q.generation + Len(q.rollbacks)
  BY <1>1, <1>2
<1>5. Counted(q)
  BY <1>1, <1>3, <1>4 DEF Counted
<1> QED
  BY <1>1, <1>5 DEF q

LEMMA RevalidatedCounted ==
  ASSUME EngineTyped, Counted(Plan), E!Revalidate(1)
  PROVE  Counted(Plan')
<1> DEFINE p == Plan
           q == Plan'
<1>1. /\ q.index = p.index /\ q.policyGen = 1 /\ q.completions = p.completions
      /\ q.stageGen = p.stageGen + 1 /\ q.totalAttempts = p.totalAttempts + 1
      /\ q.generation = p.generation + 1 /\ q.attemptsInStage = 0
      /\ q.rollbacks = p.rollbacks /\ q.transitions = p.transitions
      /\ Len(q.history) <= Len(p.history) + 1
      /\ q.state \in E!StageStates
  BY RevalidatedFields
<1>2. E!IsLive(p) /\ p \in EP!Plans
  BY EngineFacts DEF E!Revalidate, E!Revalidatable, Plan
<1>3. /\ p.index < Len(Rungs) /\ p.policyGen = 1 /\ p.completions = <<>>
      /\ p.stageGen = p.index + p.generation /\ p.totalAttempts = p.index + p.generation
      /\ Len(p.rollbacks) <= 1
      /\ Len(p.transitions) <= p.index + Len(p.rollbacks)
      /\ Len(p.history) <= 2 * p.index + p.generation + Len(p.rollbacks)
  BY <1>2, Zenon DEF Counted
<1>4. /\ p.index \in Nat /\ p.generation \in Nat /\ Len(p.rollbacks) \in Nat
      /\ Len(p.transitions) \in Nat /\ Len(p.history) \in Nat
  BY <1>2, PlanNumbers
<1>5. Len(q.history) \in Nat
  <2>1. EngineCall
    BY DEF EngineCall
  <2>2. q \in EP!Plans
    BY <2>1, EngineCallType DEF EngineTyped, EP!TypeOK, Plan
  <2> QED
    BY <2>2, PlanNumbers
<1> HIDE DEF p, q
<1>6. q.state # "ROLLING_BACK"
  BY <1>1 DEF E!StageStates
<1>7. Len(q.history) <= 2 * q.index + q.generation + Len(q.rollbacks)
  <2> DEFINE i == p.index
             g == p.generation
             j == q.index
             k == q.generation
             n == Len(p.rollbacks)
             o == Len(q.rollbacks)
             h == Len(p.history)
             m == Len(q.history)
  <2>1. /\ i \in Nat /\ g \in Nat /\ k = g + 1 /\ n \in Nat /\ h \in Nat /\ m \in Nat
        /\ h <= 2 * i + g + n /\ m <= h + 1 /\ j = i /\ o = n
    BY <1>1, <1>3, <1>4, <1>5
  <2> HIDE DEF i, g, j, k, n, o, h, m
  <2>2. m <= 2 * j + k + o
    BY <2>1
  <2>3. j = q.index /\ k = q.generation /\ m = Len(q.history) /\ o = Len(q.rollbacks)
    BY DEF j, k, m, o
  <2> QED
    BY <2>2, <2>3, Zenon
<1>8. /\ q.stageGen = q.index + q.generation /\ q.totalAttempts = q.index + q.generation
      /\ q.attemptsInStage <= 1
  <2>1. /\ q.index = p.index /\ q.generation = p.generation + 1
        /\ q.stageGen = p.stageGen + 1 /\ p.stageGen = p.index + p.generation
        /\ q.totalAttempts = p.totalAttempts + 1 /\ p.totalAttempts = p.index + p.generation
    BY <1>1, <1>3
  <2>2. q.stageGen = q.index + q.generation /\ q.totalAttempts = q.index + q.generation
    BY <1>4, <2>1
  <2>3. q.attemptsInStage <= 1
    BY <1>1
  <2> QED
    BY <2>2, <2>3
<1>9. Len(q.transitions) <= q.index + Len(q.rollbacks) /\ Len(q.rollbacks) <= 1
      /\ q.index < Len(Rungs) /\ q.completions = <<>>
  BY <1>1, <1>3
<1>10. Counted(q)
  BY <1>1, <1>6, <1>7, <1>8, <1>9 DEF Counted
<1> QED
  BY <1>10 DEF q

LEMMA RolledBackCounted ==
  ASSUME EngineTyped, Counted(Plan), E!Rollback(1), Plan.rollbacks = <<>>
  PROVE  Counted(Plan')
<1> DEFINE p == Plan
           q == Plan'
<1>1. /\ q.index = p.index /\ q.policyGen = p.policyGen /\ q.completions = p.completions
      /\ q.stageGen = p.stageGen /\ q.totalAttempts = p.totalAttempts
      /\ q.generation = p.generation /\ q.attemptsInStage = 0
      /\ q.rollbacks = Append(p.rollbacks, now)
      /\ Len(q.transitions) <= Len(p.transitions) + 1
      /\ Len(q.history) <= Len(p.history) + 1
      /\ q.state = IF Len(p.rollbacks) + 1 >= 3 THEN "FAILED" ELSE "ROLLED_BACK"
  BY RolledBackFields
<1>2. E!IsLive(p) /\ p \in EP!Plans /\ p.rollbacks = <<>> /\ now \in Nat
  BY EngineFacts DEF E!Rollback, E!RollbackAllowed, Plan
<1>3. /\ p.index < Len(Rungs) /\ p.policyGen = 1 /\ p.completions = <<>>
      /\ p.stageGen = p.index + p.generation /\ p.totalAttempts = p.index + p.generation
      /\ Len(p.transitions) <= p.index + Len(p.rollbacks)
      /\ Len(p.history) <= 2 * p.index + p.generation + Len(p.rollbacks)
  BY <1>2, Zenon DEF Counted
<1>4. /\ p.index \in Nat /\ p.generation \in Nat
      /\ Len(p.transitions) \in Nat /\ Len(p.history) \in Nat
  BY <1>2, PlanNumbers
<1>5. Len(q.history) \in Nat /\ Len(q.transitions) \in Nat
  <2>1. EngineCall
    BY DEF EngineCall
  <2>2. q \in EP!Plans
    BY <2>1, EngineCallType DEF EngineTyped, EP!TypeOK, Plan
  <2> QED
    BY <2>2, PlanNumbers
<1> HIDE DEF p, q
<1>6. Len(p.rollbacks) = 0 /\ Len(q.rollbacks) = 1 /\ q.state # "ROLLING_BACK"
  <2>1. q.rollbacks = <<now>>
    BY <1>1, <1>2
  <2> QED
    BY <1>1, <1>2, <2>1
<1>7. /\ Len(q.history) <= 2 * q.index + q.generation + Len(q.rollbacks)
      /\ Len(q.transitions) <= q.index + Len(q.rollbacks)
  <2> DEFINE i == p.index
             g == p.generation
             n == Len(p.rollbacks)
             o == Len(q.rollbacks)
             h == Len(p.history)
             m == Len(q.history)
             t == Len(p.transitions)
             u == Len(q.transitions)
  <2>1. /\ i \in Nat /\ g \in Nat /\ n = 0 /\ o = 1 /\ h \in Nat /\ m \in Nat
        /\ t \in Nat /\ u \in Nat /\ t <= i + n /\ u <= t + 1
        /\ h <= 2 * i + g + n /\ m <= h + 1
    BY <1>1, <1>3, <1>4, <1>5, <1>6
  <2> HIDE DEF i, g, o, n, h, m, t, u
  <2>2. m <= 2 * i + g + o /\ u <= i + o
    BY <2>1
  <2> QED
    BY <1>1, <2>2 DEF i, g, o, m, u
<1>8. /\ q.stageGen = q.index + q.generation /\ q.totalAttempts = q.index + q.generation
      /\ q.attemptsInStage <= 1 /\ q.policyGen = 1 /\ q.completions = <<>>
      /\ q.index < Len(Rungs) /\ Len(q.rollbacks) <= 1
  BY <1>1, <1>3, <1>4, <1>6
<1>9. Counted(q)
  BY <1>6, <1>7, <1>8 DEF Counted
<1> QED
  BY <1>9 DEF q

LEMMA ImportedCounted ==
  ASSUME NEW p \in EP!Plans, NEW e \in Nat, Counted(p)
  PROVE  Counted(E!Imported(p, e))
<1> DEFINE q == E!Imported(p, e)
<1>1. /\ SameBudget(p, q)
      /\ q.state = IF E!IsLive(p) THEN "REVALIDATION_REQUIRED" ELSE p.state
  BY ImportedFields
<1> HIDE DEF q
<1>2. E!IsLive(q) => E!IsLive(p)
  BY <1>1 DEF E!IsLive
<1>3. q.state # "ROLLING_BACK"
  BY <1>1 DEF E!IsLive, E!LiveStates
<1>4. Counted(q)
  BY <1>1, <1>2, <1>3, CountedKept
<1> QED
  BY <1>4 DEF q

-----------------------------------------------------------------------------
(* The counters of every run.                                              *)

\* The evidence the engine decides on is the answer to the request.
LEMMA EvidenceHeard ==
  ASSUME SessionTyped, StreamInv, ReceiveEvidence
  PROVE  \E f : /\ f.cleared = ~recurring
                /\ \/ E!AdvanceWith(1, SnapshotOf(f))
                   \/ Undecided(SnapshotOf(f)) /\ UNCHANGED engine
<1>1. PICK f \in Replies(observer) :
        /\ f.kind = "EVIDENCE_PUBLISH"
        /\ \/ E!AdvanceWith(1, SnapshotOf(f))
           \/ Undecided(SnapshotOf(f)) /\ UNCHANGED engine
  BY Zenon DEF ReceiveEvidence
<1>2. at = "evidence" /\ f \in Received(link[Peer(observer)].up, link[Peer(observer)].worker)
  BY <1>1, Zenon DEF ReceiveEvidence, Replies
<1>3. Peer(observer) \in Processes
  BY <1>2, DrivenPeers DEF Driving
<1>4. link[Peer(observer)].up # <<>> /\ f = Head(link[Peer(observer)].up)
  BY <1>1, <1>2 DEF Received, Failure
<1>5. link[Peer(observer)].coordinator = "open"
  BY <1>3, <1>4 DEF StreamInv, SoundLinks, SoundLink
<1>6. link[Peer(observer)].up = <<EvidenceOf(Request)>>
  BY <1>2, <1>4, <1>5 DEF StreamInv, Asked, Answering
<1>7. f = EvidenceOf(Request)
  BY <1>4, <1>6
<1>8. f.cleared = ~recurring
  BY <1>7 DEF EvidenceOf, Request
<1> QED
  BY <1>1, <1>8, Zenon

\* A rollback is decided on by the engine.
LEMMA RollbackDecided ==
  ASSUME SessionTyped, [Next]_vars, at' = "rollback"
  PROVE  (ReceiveEvidence /\ Plan'.state = "ROLLING_BACK") \/ (at = "rollback" /\ plans' = plans)
<1>1. ~StartRun
  BY Zenon DEF StartRun
<1>2. CASE \/ HelloMissing \/ HelloStale \/ StaleFrame \/ Register \/ Replace
           \/ ReplacementRefused \/ AcceptTimeout
  <2>1. Waits
    BY <1>2, WaitSteps
  <2>2. waitFor \in {"workers", "extra", "replacement"}
    BY DEF SessionTyped, ControlTyped
  <2>3. at' # "rollback"
    BY <2>1, <2>2, AcceptedFacts DEF Waits
  <2> QED
    BY <2>3
<1>3. CASE \/ Begin \/ Enter \/ LeaveLoop \/ Stop \/ GrantStage \/ ReceiveReport \/ WorkerDeath
           \/ RevalidateReplaced
  <2>1. at' \in {"accept", "finish", "enter", "loop", "report", "evidence"}
    BY <1>3, Zenon DEF Begin, Enter, LeaveLoop, Stop, GrantStage, ReceiveReport, WorkerDeath,
       RevalidateReplaced, End
  <2> QED
    BY <2>1
<1>4. CASE EvidenceLost \/ RollBack \/ SaveRollback \/ ResumePlan \/ Save \/ Finish \/ Crash
  <2>1. at' \in {"finish", "saveRollback", "resume", "save", "loop", "done", "down"}
    BY <1>4, Zenon DEF EvidenceLost, RollBack, SaveRollback, ResumePlan, Save, Finish, Crash,
       End, Write
  <2> QED
    BY <2>1
<1>5. CASE ReceiveEvidence
  BY <1>5, Zenon DEF ReceiveEvidence, Plan
<1>6. ASSUME \/ \E p \in Processes : StartProcess(p) \/ ProcessStep(p) \/ KillProcess(p)
             \/ UNCHANGED vars
      PROVE  at' = at /\ plans' = plans
  BY <1>6, ProcessKinds, Zenon DEF vars, engine, control
<1> QED
  BY <1>1, <1>2, <1>3, <1>4, <1>5, <1>6, Zenon DEF Next, CoordinatorStep

LEMMA PlanCounted ==
  ASSUME SessionTyped, StreamInv, CountsInv, [Next]_vars
  PROVE  Counted(Plan')
<1>1. EngineTyped /\ Counted(Plan) /\ recurring \in BOOLEAN
  BY DEF SessionTyped, ControlTyped, CountsInv
<1>2. ASSUME plans' = plans PROVE Counted(Plan')
  BY <1>1, <1>2 DEF Plan
<1>3. CASE StartRun
  <2>1. Plan' = E!Imported(disk.plan, disk.epoch + 1)
    BY <1>3, Zenon DEF StartRun, Plan
  <2>2. disk.plan \in EP!Plans /\ disk.epoch + 1 \in Nat /\ Counted(disk.plan)
    BY DEF SessionTyped, DurableTyped, CountsInv
  <2> QED
    BY <2>1, <2>2, ImportedCounted
<1>4. CASE Begin \/ RevalidateReplaced \/ ResumePlan \/ WorkerDeath
  <2>1. \/ plans' = plans \/ E!CreatePlan(1) \/ E!Revalidate(1) \/ E!Resume(1)
        \/ E!RequireRevalidation(1)
    BY <1>4, Zenon DEF Begin, RevalidateReplaced, ResumePlan, WorkerDeath, engine
  <2> QED
    BY <1>1, <1>2, <2>1, CreatedCounted, RevalidatedCounted, ResumedCounted, RequiredCounted
<1>5. CASE RollBack
  <2>1. at = "rollback" /\ (plans' = plans \/ E!Rollback(1))
    BY <1>5, Zenon DEF RollBack, engine
  <2>2. ASSUME E!Rollback(1) PROVE Plan.rollbacks = <<>>
    <3>1. Plan.state = "ROLLING_BACK"
      BY <2>1 DEF CountsInv
    <3> QED
      BY <1>1, <3>1, NotLive DEF Counted
  <2> QED
    BY <1>1, <1>2, <2>1, <2>2, RolledBackCounted
<1>6. CASE ReceiveEvidence
  <2>1. at = "evidence"
    BY <1>6, Zenon DEF ReceiveEvidence
  <2>2. PICK f : /\ f.cleared = ~recurring
                 /\ \/ E!AdvanceWith(1, SnapshotOf(f))
                    \/ Undecided(SnapshotOf(f)) /\ UNCHANGED engine
    BY <1>6, EvidenceHeard
  <2>3. ~f.cleared => Plan.rollbacks = <<>>
    BY <1>1, <2>1, <2>2 DEF CountsInv
  <2>4. UNCHANGED engine => plans' = plans
    BY DEF engine
  <2> QED
    BY <1>1, <1>2, <2>2, <2>3, <2>4, AdvanceCounted
<1> QED
  BY <1>2, <1>3, <1>4, <1>5, <1>6, PlansKept

LEMMA CountsStep ==
  ASSUME SessionTyped, StreamInv, CountsInv, [Next]_vars
  PROVE  CountsInv'
<1>1. Counted(Plan)'
  BY PlanCounted DEF Counted, Plan
<1>2. Counted(disk.plan)'
  <2>1. disk' = disk \/ (disk' = Saved /\ plans' = plans)
    BY EngineSteps, Zenon DEF StartRun
  <2>2. CASE disk' = disk
    BY <2>2 DEF CountsInv, Counted
  <2>3. CASE disk' = Saved /\ plans' = plans
    <3>1. disk'.plan = Plan'
      BY <2>3 DEF Saved, Plan
    <3> QED
      BY <1>1, <3>1 DEF Counted, Plan
  <2> QED
    BY <2>1, <2>2, <2>3
<1>3. at' \in {"report", "evidence"} /\ recurring' =>
        scenario' = "recurrence" /\ Plan'.rollbacks = <<>>
  <2> SUFFICES ASSUME at' \in {"report", "evidence"}, recurring'
               PROVE  scenario' = "recurrence" /\ Plan'.rollbacks = <<>>
    OBVIOUS
  <2>1. CASE GrantStage
    BY <2>1, Zenon DEF GrantStage, Plan
  <2>2. CASE ReceiveReport
    <3>1. at = "report" /\ UNCHANGED <<plans, recurring, scenario>>
      BY <2>2, Zenon DEF ReceiveReport
    <3> QED
      BY <3>1 DEF CountsInv, Plan
  <2>3. CASE \E p \in Processes : StartProcess(p) \/ ProcessStep(p) \/ KillProcess(p)
    <3>1. UNCHANGED <<at, plans, recurring, scenario>>
      BY <2>3, ProcessKinds, Zenon DEF engine
    <3> QED
      BY <3>1 DEF CountsInv, Plan
  <2>4. CASE UNCHANGED vars
    BY <2>4 DEF CountsInv, Plan, vars, control, engine
  <2>5. ~StartRun
    BY Zenon DEF StartRun
  <2> QED
    BY <2>1, <2>2, <2>3, <2>4, <2>5, NotExpecting, Zenon DEF Next
<1>4. at' = "rollback" => Plan'.state = "ROLLING_BACK"
  BY RollbackDecided DEF CountsInv, Plan
<1>5. runs' = 0 => Plan'.state = "ABSENT" /\ disk'.plan.state = "ABSENT"
  <2> SUFFICES ASSUME runs' = 0 PROVE Plan'.state = "ABSENT" /\ disk'.plan.state = "ABSENT"
    OBVIOUS
  <2>1. ~StartRun
    <3>1. StartRun => runs' = runs + 1
      BY Zenon DEF StartRun
    <3> QED
      BY <3>1 DEF SessionTyped, ControlTyped
  <2>2. runs = 0 /\ at = "down"
    BY <2>1, RunKeeps DEF SessionTyped, ControlTyped
  <2>3. ~(CoordinatorStep \/ Crash)
    BY <2>2, CoordinatorRuns DEF Active, Waiting, Working
  <2>4. plans' = plans /\ disk' = disk
    BY <2>1, <2>3, ProcessKinds, Zenon DEF Next, vars, engine
  <2> QED
    BY <2>2, <2>4 DEF CountsInv, Plan
<1> QED
  BY <1>1, <1>2, <1>3, <1>4, <1>5 DEF CountsInv

-----------------------------------------------------------------------------
(* What the steps do to the links.                                         *)

\* The worker's end is left alone, and a closed end stays closed.
Touches(l, m) ==
  m.worker = l.worker /\ (l.coordinator = "closed" => m.coordinator = "closed")

\* No frame that ends a worker process is in the link that was not in it before.
Spared(l, m) ==
  \A i \in DOMAIN m.down :
    ~Serious(m.down[i]) \/ \E j \in DOMAIN l.down : m.down[i] = l.down[j]

LEMMA TouchFacts ==
  ASSUME NEW l \in Links, NEW f \in Frames
  PROVE  /\ Touches(l, l) /\ Touches(l, UpRead(l)) /\ Touches(l, ClosedByCoordinator(l))
         /\ Touches(l, Released(l)) /\ Touches(l, SentDown(l, f))
         /\ Touches(l, SentDown(UpRead(l), f)) /\ Touches(l, ClosedByCoordinator(SentDown(l, f)))
         /\ Touches(l, Released(SentDown(l, f)))
<1>1. ASSUME NEW m \in Links
      PROVE  /\ Touches(m, m) /\ Touches(m, UpRead(m)) /\ Touches(m, ClosedByCoordinator(m))
             /\ Touches(m, Released(m)) /\ Touches(m, SentDown(m, f))
  BY ReadFacts, ClosedFacts, SentFacts DEF Released, Touches
<1>2. UpRead(l) \in Links /\ SentDown(l, f) \in Links
  BY LinkTypes
<1>3. \A x, y, z : Touches(x, y) /\ Touches(y, z) => Touches(x, z)
  BY DEF Touches
<1> QED
  BY <1>1, <1>2, <1>3

LEMMA SpareFacts ==
  ASSUME NEW l \in Links, NEW f \in Frames, ~Serious(f)
  PROVE  /\ Spared(l, l) /\ Spared(l, UpRead(l)) /\ Spared(l, ClosedByCoordinator(l))
         /\ Spared(l, SentDown(l, f)) /\ Spared(l, SentDown(UpRead(l), f))
<1>1. UpRead(l).down = l.down /\ ClosedByCoordinator(l).down = l.down
  BY ReadFacts, ClosedFacts
<1>2. \A m : m.down = l.down => Spared(l, m)
  BY DEF Spared
<1>3. ASSUME NEW m \in Links, m.down = l.down PROVE Spared(l, SentDown(m, f))
  <2>1. CASE m.worker = "open"
    <3> DEFINE d == Append(l.down, f)
    <3>1. SentDown(m, f).down = d /\ l.down \in Seq(Frames)
      BY <1>3, <2>1, SentFacts, LinkFields
    <3>2. \A i \in DOMAIN d : (i \in DOMAIN l.down /\ d[i] = l.down[i]) \/ d[i] = f
      BY <3>1, AppendFacts
    <3> HIDE DEF d
    <3> QED
      BY <3>1, <3>2 DEF Spared
  <2>2. CASE m.worker # "open"
    BY <1>2, <1>3, <2>2, SentFacts
  <2> QED
    BY <2>1, <2>2
<1> QED
  BY <1>1, <1>2, <1>3, LinkTypes

\* Errors go to refused connections, and goodbyes at the end of the run.
LEMMA CoordinatorLinks ==
  ASSUME SessionTyped, CoordinatorStep \/ Crash, now' \in Nat, NEW q \in Processes
  PROVE  /\ Touches(link[q], link'[q])
         /\ \/ Spared(link[q], link'[q]) \/ Finish \/ Crash
            \/ HelloStale /\ Greets(q)
            \/ StaleFrame /\ q = conn[1]
<1>1. /\ link \in [Processes -> Links] /\ conn \in Seq(Processes) /\ link[q] \in Links
  BY DEF SessionTyped, LinksTyped, ControlTyped
<1>2. /\ Error \in Frames /\ HelloAck \in Frames /\ Goodbye \in Frames /\ ~Serious(HelloAck)
  BY FrameFacts DEF HelloAck, Serious
<1>3. /\ Touches(link[q], link[q]) /\ Touches(link[q], UpRead(link[q]))
      /\ Touches(link[q], ClosedByCoordinator(link[q])) /\ Touches(link[q], Released(link[q]))
  BY <1>1, <1>2, TouchFacts
<1>4. /\ Spared(link[q], link[q]) /\ Spared(link[q], UpRead(link[q]))
      /\ Spared(link[q], ClosedByCoordinator(link[q]))
  BY <1>1, <1>2, SpareFacts
<1>5. CASE Quietly
  BY <1>3, <1>4, <1>5, QuietlyKeeps
<1>6. CASE HelloMissing \/ ReplacementRefused
  <2>1. PICK p \in Processes : link' = [link EXCEPT ![p] = ClosedByCoordinator(@)]
    BY <1>6, Zenon DEF HelloMissing, ReplacementRefused
  <2>2. link'[q] = IF q = p THEN ClosedByCoordinator(link[q]) ELSE link[q]
    BY <1>1, <2>1
  <2> QED
    BY <1>3, <1>4, <2>2
<1>7. CASE HelloStale
  <2>1. PICK p \in Processes : Greets(p) /\ link' = [link EXCEPT ![p] = SentDown(UpRead(@), Error)]
    BY <1>7, Zenon DEF HelloStale, Hello
  <2>2. link'[q] = IF q = p THEN SentDown(UpRead(link[q]), Error) ELSE link[q]
    BY <1>1, <2>1
  <2>3. Touches(link[q], link'[q])
    BY <1>1, <1>2, <1>3, <2>2, TouchFacts
  <2>4. Spared(link[q], link'[q]) \/ Greets(q)
    BY <1>4, <2>1, <2>2
  <2> QED
    BY <1>7, <2>3, <2>4
<1>8. CASE StaleFrame
  <2>1. PICK f : link' = [link EXCEPT ![conn[1]] =
                            ClosedByCoordinator(IF f = Failure THEN @ ELSE SentDown(@, Error))]
    BY <1>8 DEF StaleFrame
  <2>2. \/ link'[q] = link[q]
        \/ q = conn[1] /\ link'[q] = ClosedByCoordinator(link[q])
        \/ q = conn[1] /\ link'[q] = ClosedByCoordinator(SentDown(link[q], Error))
    BY <1>1, <2>1
  <2>3. Touches(link[q], link'[q])
    BY <1>1, <1>2, <1>3, <2>2, TouchFacts
  <2>4. Spared(link[q], link'[q]) \/ q = conn[1]
    BY <1>4, <2>2
  <2> QED
    BY <1>8, <2>3, <2>4
<1>9. CASE Register \/ Replace
  <2>1. PICK p \in Processes : link' = Welcoming(p)
    BY <1>9, Zenon DEF Register, Replace
  <2>2. \/ link'[q] = link[q] \/ link'[q] = ClosedByCoordinator(link[q])
        \/ link'[q] = SentDown(UpRead(link[q]), HelloAck)
    BY <2>1 DEF Welcoming
  <2>3. Touches(link[q], link'[q])
    BY <1>1, <1>2, <1>3, <2>2, TouchFacts
  <2>4. Spared(link[q], link'[q])
    BY <1>1, <1>2, <1>4, <2>2, SpareFacts
  <2> QED
    BY <2>3, <2>4
<1>10. CASE GrantStage
  <2> DEFINE g == GrantOf(applier)
  <2>1. link' = [link EXCEPT ![Peer(applier)] = SentDown(@, g)] /\ applier \in DOMAIN peers
    BY <1>10, Zenon DEF GrantStage, SessionTyped, ControlTyped, Equipped, Driving
  <2>2. g \in Frames /\ ~Serious(g)
    BY <2>1, GrantType, FrameFacts DEF StageGrants, Serious
  <2> HIDE DEF g
  <2>3. link'[q] = link[q] \/ link'[q] = SentDown(link[q], g)
    BY <1>1, <2>1
  <2> QED
    BY <1>1, <1>3, <1>4, <2>2, <2>3, TouchFacts, SpareFacts
<1>11. CASE ReceiveReport
  <2> DEFINE taken == [link EXCEPT ![Peer(applier)] = UpRead(@)]
             r == EvidenceRequest
  <2>1. /\ applier \in DOMAIN peers /\ observer \in DOMAIN peers
        /\ link' = [taken EXCEPT ![Peer(observer)] = SentDown(@, r)]
    BY <1>11 DEF ReceiveReport, SessionTyped, ControlTyped, Equipped, Driving
  <2>2. r \in Frames /\ ~Serious(r)
    BY <2>1, RequestType, FrameFacts DEF Requests, Serious
  <2>3. taken[q] = link[q] \/ taken[q] = UpRead(link[q])
    BY <1>1
  <2>4. taken \in [Processes -> Links]
    <3>1. \A p \in Processes : UpRead(link[p]) \in Links
      BY <1>1, <1>2, LinkTypes
    <3> QED
      BY <1>1, <3>1
  <2> HIDE DEF r, taken
  <2>5. link'[q] = taken[q] \/ link'[q] = SentDown(taken[q], r)
    BY <2>1, <2>4
  <2>6. \/ link'[q] = link[q] \/ link'[q] = UpRead(link[q])
        \/ link'[q] = SentDown(link[q], r) \/ link'[q] = SentDown(UpRead(link[q]), r)
    BY <2>3, <2>5
  <2>7. Touches(link[q], link'[q])
    BY <1>1, <1>3, <2>2, <2>6, TouchFacts
  <2>8. Spared(link[q], link'[q])
    BY <1>1, <1>4, <2>2, <2>6, SpareFacts
  <2> QED
    BY <2>7, <2>8
<1>12. CASE WorkerDeath
  <2>1. link' = [link EXCEPT ![Peer(applier)] = ClosedByCoordinator(@)]
    BY <1>12, Zenon DEF WorkerDeath
  <2>2. link'[q] = link[q] \/ link'[q] = ClosedByCoordinator(link[q])
    BY <1>1, <2>1
  <2> QED
    BY <1>3, <1>4, <2>2
<1>13. CASE ReceiveEvidence
  <2>1. link' = [link EXCEPT ![Peer(observer)] = UpRead(@)]
    BY <1>13, Zenon DEF ReceiveEvidence
  <2>2. link'[q] = link[q] \/ link'[q] = UpRead(link[q])
    BY <1>1, <2>1
  <2> QED
    BY <1>3, <1>4, <2>2
<1>14. CASE Finish \/ Crash
  <2>1. \/ link'[q] = Released(link[q]) \/ link'[q] = Released(SentDown(link[q], Goodbye))
    BY <1>14 DEF Finish, Crash
  <2>2. Touches(link[q], link'[q])
    BY <1>1, <1>2, <1>3, <2>1, TouchFacts
  <2> QED
    BY <1>14, <2>2
<1> QED
  BY <1>5, <1>6, <1>7, <1>8, <1>9, <1>10, <1>11, <1>12, <1>13, <1>14, Zenon
     DEF CoordinatorStep, Quietly

\* A process changes its own link only.
LEMMA ProcessLinks ==
  ASSUME SessionTyped, StreamInv, NEW p \in Processes,
         StartProcess(p) \/ ProcessStep(p) \/ KillProcess(p)
  PROVE  /\ \A q \in Processes \ {p} : link'[q] = link[q] /\ proc'[q] = proc[q]
         /\ \/ /\ StartProcess(p) /\ link[p] = NoLink /\ link'[p].worker = "open"
               /\ proc'[p] = "greeting"
            \/ /\ ~StartProcess(p) /\ backlog' = backlog
               /\ link'[p].coordinator = link[p].coordinator /\ proc'[p] # "new"
               /\ \A i \in DOMAIN link'[p].down :
                    \E j \in DOMAIN link[p].down : link'[p].down[i] = link[p].down[j]
<1>1. /\ ProcessCases(p) /\ (StartProcess(p) \/ (backlog' = backlog /\ ~Connect(p)))
      /\ link \in [Processes -> Links] /\ proc \in [Processes -> ProcStates]
  BY ProcessKinds DEF SessionTyped, LinksTyped
<1>2. CASE StartProcess(p)
  <2> DEFINE m == SentUp(Opened, HelloFrame)
  <2>1. proc[p] = "new" /\ Changes(p, m, "greeting")
    BY <1>2 DEF StartProcess, Connect, Become, Changes, HelloFrame
  <2>2. m.worker = "open"
    BY FreshLinks, FrameFacts, SentFacts DEF Opened
  <2>3. link[p] = NoLink
    BY <2>1 DEF StreamInv, SoundLinks, SoundLink
  <2> QED
    BY <1>2, <2>1, <2>2, <2>3, ChangedLink
<1>3. CASE ~StartProcess(p)
  <2>1. PICK m, t : Changes(p, m, t) /\ Follows(link[p], proc[p], m, t, RoleOf[p])
    BY <1>1, <1>3, ProcessFollows DEF StreamInv
  <2>2. /\ link'[p] = m /\ proc'[p] = t
        /\ \A q \in Processes \ {p} : link'[q] = link[q] /\ proc'[q] = proc[q]
    BY <2>1, ChangedLink
  <2>3. m.coordinator = link[p].coordinator /\ t # "new"
        /\ \A i \in DOMAIN m.down : \E j \in DOMAIN link[p].down : m.down[i] = link[p].down[j]
    BY <2>1 DEF Follows
  <2> QED
    BY <1>1, <1>3, <2>2, <2>3
<1> QED
  BY <1>2, <1>3

LEMMA ClosedGrows ==
  ASSUME SessionTyped, StreamInv, [Next]_vars
  PROVE  Closed \subseteq Closed'
<1> SUFFICES ASSUME NEW q \in Processes, link[q].coordinator = "closed"
             PROVE  link'[q].coordinator = "closed"
  BY DEF Closed
<1>1. CASE StartRun
  BY <1>1, CoordinatorKeepsProcesses
<1>2. CASE CoordinatorStep \/ Crash
  <2>1. now' \in Nat
    BY EngineTypedStep, EngineFacts DEF EngineTyped, EP!TypeOK
  <2> QED
    BY <1>2, <2>1, CoordinatorLinks DEF Touches
<1>3. ASSUME NEW p \in Processes, StartProcess(p) \/ ProcessStep(p) \/ KillProcess(p)
      PROVE  link'[q].coordinator = "closed"
  BY <1>3, ProcessLinks DEF NoLink
<1>4. CASE UNCHANGED vars
  BY <1>4 DEF vars, workers
<1> QED
  BY <1>1, <1>2, <1>3, <1>4, Zenon DEF Next

LEMMA ClosedCount ==
  ASSUME Configured, SessionTyped, StreamInv, [Next]_vars
  PROVE  /\ Cardinality(Closed) \in Nat /\ Cardinality(Closed') \in Nat
         /\ Cardinality(Closed) <= Cardinality(Closed')
         /\ (\E p \in Closed' : p \notin Closed) =>
              Cardinality(Closed) + 1 <= Cardinality(Closed')
<1>1. /\ IsFiniteSet(Processes) /\ Closed \subseteq Processes /\ Closed' \subseteq Processes
      /\ Closed \subseteq Closed'
  BY ClosedGrows DEF Configured, Closed
<1>2. IsFiniteSet(Closed) /\ IsFiniteSet(Closed')
  BY <1>1, FS_Subset
<1>3. Cardinality(Closed) \in Nat /\ Cardinality(Closed') \in Nat
      /\ Cardinality(Closed) <= Cardinality(Closed')
  BY <1>1, <1>2, FS_Subset, FS_CardinalityType, SMTT(30)
<1>4. ASSUME NEW p \in Closed', p \notin Closed
      PROVE  Cardinality(Closed) + 1 <= Cardinality(Closed')
  <2>1. IsFiniteSet(Closed \cup {p}) /\ Cardinality(Closed \cup {p}) = Cardinality(Closed) + 1
    BY <1>2, <1>4, FS_AddElement
  <2>2. Closed \cup {p} \subseteq Closed'
    BY <1>1, <1>4
  <2>3. Cardinality(Closed \cup {p}) <= Cardinality(Closed')
    BY <1>2, <2>2, FS_Subset
  <2> QED
    BY <2>1, <2>3
<1> QED
  BY <1>3, <1>4

-----------------------------------------------------------------------------
(* Revalidations and what they come with.                                  *)

LEMMA PendingType == Pending \in {0, 1}
BY DEF Pending

\* A step that renews nothing.
LEMMA RenewalsKept ==
  ASSUME Configured, SessionTyped, StreamInv, RenewalsInv, [Next]_vars, ~StartRun,
         E!IsLive(Plan') =>
           /\ E!IsLive(Plan)
           /\ \/ Plan'.generation = Plan.generation /\ Pending' <= Pending
              \/ Plan'.generation + Pending' <= Plan.generation + Pending
              \/ /\ Plan'.generation + Pending' <= Plan.generation + Pending + 1
                 /\ \E p \in Closed' : p \notin Closed
  PROVE  RenewalsInv'
<1> DEFINE c == Cardinality(Closed)
           d == Cardinality(Closed')
           g == Plan.generation
           h == Plan'.generation
           k == disk.plan.generation
           a == Pending
           b == Pending'
<1>1. runs' = runs /\ runs \in Nat /\ runs <= MaxRuns
  BY RunKeeps DEF SessionTyped, ControlTyped, RenewalsInv
<1>2. /\ c \in Nat /\ d \in Nat /\ c <= d
      /\ (\E p \in Closed' : p \notin Closed) => c + 1 <= d
  BY ClosedCount
<1>3. a \in {0, 1} /\ b \in {0, 1}
  BY PendingType DEF Pending
<1>4. g \in Nat /\ h \in Nat /\ k \in Nat
  <2>1. EngineTyped'
    BY EngineTypedStep
  <2>2. Plan \in EP!Plans /\ Plan' \in EP!Plans /\ disk.plan \in EP!Plans
    BY <2>1, EngineFacts DEF SessionTyped, DurableTyped, EngineTyped, EP!TypeOK, Plan
  <2> QED
    BY <2>2, PlanNumbers
<1>5. E!IsLive(Plan) => g + a <= runs + c
  BY DEF RenewalsInv
<1>6. E!IsLive(disk.plan) => k <= runs + c
  BY DEF RenewalsInv
<1>7. disk' = disk \/ (disk'.plan = Plan /\ Plan' = Plan)
  <2>1. disk' = disk \/ (disk' = Saved /\ plans' = plans)
    BY EngineSteps, Zenon
  <2> QED
    BY <2>1 DEF Saved, Plan
<1> HIDE DEF c, d, g, h, k, a, b
<1>8. E!IsLive(Plan') => h + b <= runs' + d
  BY <1>1, <1>2, <1>3, <1>4, <1>5 DEF g, h, a, b
<1>9. E!IsLive(disk'.plan) => disk'.plan.generation <= runs' + d
  <2>1. CASE disk' = disk
    <3>1. E!IsLive(disk.plan) => k <= runs' + d
      BY <1>1, <1>2, <1>4, <1>6
    <3> QED
      BY <2>1, <3>1 DEF k
  <2>2. CASE disk'.plan = Plan /\ Plan' = Plan
    <3>1. E!IsLive(Plan) => g <= runs' + d
      BY <1>1, <1>2, <1>3, <1>4, <1>5
    <3> QED
      BY <2>2, <3>1 DEF g
  <2> QED
    BY <1>7, <2>1, <2>2
<1>10. E!IsLive(Plan)' = E!IsLive(Plan') /\ E!IsLive(disk.plan)' = E!IsLive(disk'.plan)
  BY DEF E!IsLive
<1>11. /\ E!IsLive(Plan') => Plan'.generation + Pending' <= runs' + Cardinality(Closed')
       /\ E!IsLive(disk'.plan) => disk'.plan.generation <= runs' + Cardinality(Closed')
       /\ runs' <= MaxRuns
  BY <1>1, <1>8, <1>9 DEF d, h, b
<1> QED
  BY <1>10, <1>11, Zenon DEF RenewalsInv

LEMMA StartRenews ==
  ASSUME Configured, SessionTyped, StreamInv, RenewalsInv, StartRun
  PROVE  RenewalsInv'
<1> DEFINE c == Cardinality(Closed)
           k == disk.plan.generation
<1>1. /\ runs < MaxRuns /\ runs' = runs + 1 /\ disk' = disk
      /\ Plan' = E!Imported(disk.plan, disk.epoch + 1)
      /\ at' = "accept" /\ waitFor' = "workers"
  BY Zenon DEF StartRun, Plan
<1>2. link' = link
  BY CoordinatorKeepsProcesses
<1>3. runs \in Nat /\ MaxRuns \in Nat
  BY SessionAssumption DEF SessionTyped, ControlTyped
<1>4. Closed' = Closed /\ c \in Nat
  <2>1. [Next]_vars
    BY DEF Next
  <2>2. Closed' = Closed
    BY <1>2 DEF Closed
  <2> QED
    BY <2>1, <2>2, ClosedCount
<1>5. disk.plan \in EP!Plans /\ disk.epoch + 1 \in Nat
  BY DEF SessionTyped, DurableTyped
<1>6. k \in Nat
  BY <1>5, PlanNumbers
<1>7. /\ Plan'.generation = k /\ (E!IsLive(Plan') => E!IsLive(disk.plan))
  <2>1. SameBudget(disk.plan, Plan')
        /\ Plan'.state = IF E!IsLive(disk.plan) THEN "REVALIDATION_REQUIRED" ELSE disk.plan.state
    BY <1>1, <1>5, ImportedFields
  <2> QED
    BY <2>1 DEF SameBudget, E!IsLive
<1>8. Pending' = 1
  BY <1>1 DEF Pending
<1>9. E!IsLive(disk.plan) => k <= runs + c
  BY DEF RenewalsInv
<1> HIDE DEF c, k
<1>10. runs' <= MaxRuns /\ (E!IsLive(disk.plan) => k + 1 <= runs' + c /\ k <= runs' + c)
  BY <1>1, <1>3, <1>4, <1>6, <1>9
<1>11. E!IsLive(Plan)' = E!IsLive(Plan') /\ E!IsLive(disk.plan)' = E!IsLive(disk.plan)
  BY <1>1 DEF E!IsLive
<1> QED
  BY <1>1, <1>4, <1>7, <1>8, <1>10, <1>11 DEF RenewalsInv, c, k

LEMMA RenewalsStep ==
  ASSUME Configured, SessionTyped, StreamInv, RenewalsInv, [Next]_vars
  PROVE  RenewalsInv'
<1>1. EngineTyped /\ Sane(Plan) /\ Plan.generation \in Nat
      /\ waitFor \in {"workers", "extra", "replacement"}
  BY EngineFacts DEF SessionTyped, DurableTyped, ControlTyped
<1>2. CASE StartRun
  BY <1>2, StartRenews
<1>3. CASE \/ HelloMissing \/ HelloStale \/ StaleFrame \/ Register \/ Replace
           \/ ReplacementRefused \/ AcceptTimeout
  <2>1. Waits /\ waitFor' = waitFor /\ plans' = plans /\ (at' = "stale" => HelloStale)
    BY <1>3, WaitSteps DEF engine
  <2>2. Pending' <= Pending
    <3>1. CASE waitFor = "extra"
      <4>1. at' \in {"enter", "loop", "stale", "finish"}
        BY <1>1, <2>1, <3>1, AcceptedFacts DEF Waits
      <4> QED
        BY <2>1, <3>1, <4>1 DEF Pending
    <3>2. CASE waitFor # "extra"
      <4>1. Pending = 1
        BY <1>1, <2>1, <3>2 DEF Waits, Pending
      <4> QED
        BY <4>1, PendingType DEF Pending
    <3> QED
      BY <3>1, <3>2
  <2>3. ~StartRun
    BY <2>1, Zenon DEF Waits, StartRun
  <2>4. Plan' = Plan
    BY <2>1 DEF Plan
  <2> QED
    BY <2>2, <2>3, <2>4, RenewalsKept
<1>4. CASE Begin
  <2>1. /\ at = "begin" /\ waitFor' \in {waitFor, "extra"}
        /\ \/ E!Revalidate(1) /\ at' = "accept" /\ waitFor' = "extra"
           \/ plans' = plans /\ at' = "finish"
           \/ E!CreatePlan(1) /\ at' = "enter"
    BY <1>4, Zenon DEF Begin, End, engine
  <2>2. Pending = 1 /\ Pending' = 0 /\ ~StartRun
    BY <2>1 DEF Pending, StartRun
  <2>3. CASE E!Revalidate(1)
    <3>1. E!IsLive(Plan) /\ Plan'.generation = Plan.generation + 1
      BY <1>1, <2>3, RevalidateEffect DEF Renews, E!Revalidate, E!Revalidatable, Plan
    <3> QED
      BY <1>1, <2>2, <3>1, RenewalsKept
  <2>4. CASE plans' = plans
    BY <1>1, <2>2, <2>4, RenewalsKept DEF Plan
  <2>5. CASE E!CreatePlan(1)
    <3>1. Plan'.generation = 1 /\ disk' = disk /\ runs' = runs
      BY <1>1, <1>4, <2>5, CreateEffect, Zenon DEF Begin, history
    <3>2. runs \in Nat /\ runs # 0 /\ runs <= MaxRuns
      BY <2>1 DEF SessionTyped, ControlTyped, RenewalsInv
    <3>3. /\ Cardinality(Closed) \in Nat /\ Cardinality(Closed') \in Nat
          /\ Cardinality(Closed) <= Cardinality(Closed')
      BY ClosedCount
    <3>4. E!IsLive(disk'.plan) => disk'.plan.generation <= runs' + Cardinality(Closed')
      <4>1. E!IsLive(disk.plan) => disk.plan.generation <= runs + Cardinality(Closed)
        BY DEF RenewalsInv
      <4>2. disk.plan.generation \in Nat
        BY PlanNumbers DEF SessionTyped, DurableTyped
      <4> QED
        BY <3>1, <3>2, <3>3, <4>1, <4>2
    <3>5. Plan'.generation + Pending' <= runs' + Cardinality(Closed')
      BY <2>2, <3>1, <3>2, <3>3
    <3>6. runs' <= MaxRuns
      BY <3>1, <3>2
    <3>7. E!IsLive(Plan)' = E!IsLive(Plan') /\ E!IsLive(disk.plan)' = E!IsLive(disk'.plan)
      BY DEF E!IsLive
    <3> QED
      BY <3>4, <3>5, <3>6, <3>7, Zenon DEF RenewalsInv
  <2> QED
    BY <2>1, <2>3, <2>4, <2>5
<1>5. CASE RevalidateReplaced
  <2>1. /\ at = "revalidate"
        /\ \/ E!Revalidate(1) /\ (at' = "loop" \/ (at' = "accept" /\ waitFor' = "extra"))
           \/ plans' = plans /\ at' = "finish"
    BY <1>5, Zenon DEF RevalidateReplaced, End, engine
  <2>2. Pending = 1 /\ Pending' = 0 /\ ~StartRun
    BY <2>1 DEF Pending, StartRun
  <2>3. CASE E!Revalidate(1)
    <3>1. E!IsLive(Plan) /\ Plan'.generation = Plan.generation + 1
      BY <1>1, <2>3, RevalidateEffect DEF Renews, E!Revalidate, E!Revalidatable, Plan
    <3> QED
      BY <1>1, <2>2, <3>1, RenewalsKept
  <2>4. CASE plans' = plans
    BY <1>1, <2>2, <2>4, RenewalsKept DEF Plan
  <2> QED
    BY <2>1, <2>3, <2>4
<1>6. CASE WorkerDeath
  <2>1. /\ at = "report" /\ at' = "accept" /\ waitFor' = "replacement"
        /\ E!RequireRevalidation(1)
        /\ link' = [link EXCEPT ![Peer(applier)] = ClosedByCoordinator(@)]
    BY <1>6, Zenon DEF WorkerDeath
  <2>2. Pending = 0 /\ Pending' = 1 /\ ~StartRun
    BY <2>1 DEF Pending, StartRun
  <2>3. /\ SameBudget(Plan, Plan')
        /\ Plan'.state = IF E!IsLive(Plan) THEN "REVALIDATION_REQUIRED" ELSE Plan.state
    BY <1>1, <2>1, RequiredFields
  <2>4. Plan'.generation = Plan.generation /\ (E!IsLive(Plan') => E!IsLive(Plan))
    BY <2>3 DEF SameBudget, E!IsLive
  <2>5. Peer(applier) \in Closed' /\ Peer(applier) \notin Closed
    <3>1. Peer(applier) \in Processes /\ link[Peer(applier)].coordinator = "open"
      BY <2>1, DrivenPeers DEF Driving
    <3>2. link'[Peer(applier)] = ClosedByCoordinator(link[Peer(applier)])
          /\ link[Peer(applier)] \in Links
      BY <2>1, <3>1 DEF SessionTyped, LinksTyped
    <3> QED
      BY <3>1, <3>2, ClosedFacts DEF Closed
  <2> QED
    BY <1>1, <2>2, <2>4, <2>5, RenewalsKept
<1>7. CASE ReceiveEvidence \/ RollBack \/ ResumePlan
  <2>1. /\ at \in {"evidence", "rollback", "resume"}
        /\ at' \in {"rollback", "save", "saveRollback", "finish"}
        /\ \/ plans' = plans \/ E!Rollback(1) \/ E!Resume(1)
           \/ \E f : E!AdvanceWith(1, SnapshotOf(f))
    BY <1>7, Zenon DEF ReceiveEvidence, RollBack, ResumePlan, End, engine
  <2>2. Pending = 0 /\ Pending' = 0 /\ ~StartRun
    BY <2>1 DEF Pending, StartRun
  <2>3. plans' = plans => Plan' = Plan
    BY DEF Plan
  <2>4. E!Rollback(1) => E!IsLive(Plan) /\ Plan'.generation = Plan.generation
    BY <1>1, RollbackEffect DEF E!Rollback, E!RollbackAllowed, Stays, Plan
  <2>5. E!Resume(1) => E!IsLive(Plan) /\ Plan'.generation = Plan.generation
    BY <1>1, ResumeEffect DEF E!Resume, E!Resumable, Stays, Plan, E!IsLive, E!LiveStates
  <2>6. (\E f : E!AdvanceWith(1, SnapshotOf(f))) =>
          E!IsLive(Plan) /\ Plan'.generation = Plan.generation
    BY <1>1, AdvanceEffect, SnapshotType DEF Stays, Climbs, Completes
  <2> QED
    BY <2>1, <2>2, <2>3, <2>4, <2>5, <2>6, RenewalsKept
<1>8. CASE \/ Enter \/ LeaveLoop \/ Stop \/ GrantStage \/ ReceiveReport \/ EvidenceLost
           \/ SaveRollback \/ Save \/ Finish \/ Crash
  <2>1. CASE Enter \/ LeaveLoop \/ Stop \/ GrantStage \/ ReceiveReport \/ EvidenceLost
    <3>1. /\ at \in {"enter", "loop", "report", "evidence"} /\ plans' = plans
          /\ at' \in {"loop", "report", "evidence", "finish"}
      BY <2>1, Zenon DEF Enter, LeaveLoop, Stop, GrantStage, ReceiveReport, EvidenceLost, End,
         engine
    <3>2. Pending = 0 /\ Pending' = 0 /\ ~StartRun /\ Plan' = Plan
      BY <3>1 DEF Pending, StartRun, Plan
    <3> QED
      BY <3>2, RenewalsKept
  <2>2. CASE SaveRollback \/ Save \/ Finish \/ Crash
    <3>1. /\ at \notin {"down", "done"} /\ plans' = plans
          /\ at' \in {"loop", "resume", "finish", "done", "down"}
      BY <2>2, Zenon DEF SaveRollback, Save, Finish, Crash, Write, End, engine, Active, Waiting,
         Working
    <3>2. Pending' = 0 /\ ~StartRun /\ Plan' = Plan
      BY <3>1 DEF Pending, StartRun, Plan
    <3>3. Pending' <= Pending
      BY <3>2, PendingType
    <3> QED
      BY <3>2, <3>3, RenewalsKept
  <2> QED
    BY <1>8, <2>1, <2>2
<1>9. ASSUME ~StartRun,
             \/ \E p \in Processes : StartProcess(p) \/ ProcessStep(p) \/ KillProcess(p)
             \/ UNCHANGED vars
      PROVE  RenewalsInv'
  <2>1. UNCHANGED <<plans, at, waitFor>>
    BY <1>9, ProcessKinds, Zenon DEF vars, engine, control
  <2>2. Plan' = Plan /\ Pending' = Pending /\ Pending \in {0, 1}
    BY <2>1, PendingType DEF Plan, Pending
  <2> QED
    BY <1>9, <2>2, RenewalsKept
<1> QED
  BY <1>2, <1>3, <1>4, <1>5, <1>6, <1>7, <1>8, <1>9, Zenon DEF Next, CoordinatorStep

\* The revalidations of a live plan are within the budget of attempts.
LEMMA FewRenewals ==
  ASSUME Configured, SessionTyped, StreamInv, RenewalsInv, E!IsLive(Plan)
  PROVE  Plan.generation + Pending <= 26
<1>1. /\ IsFiniteSet(Processes) /\ Closed \subseteq Processes
      /\ MaxRuns + Cardinality(Processes) <= 26
  BY DEF Configured, Closed
<1>2. /\ Cardinality(Closed) \in Nat /\ Cardinality(Processes) \in Nat
      /\ Cardinality(Closed) <= Cardinality(Processes)
  BY <1>1, FS_Subset, FS_CardinalityType, SMTT(30)
<1>3. /\ Plan.generation \in Nat /\ runs \in Nat /\ MaxRuns \in Nat /\ Pending \in {0, 1}
      /\ runs <= MaxRuns /\ Plan.generation + Pending <= runs + Cardinality(Closed)
  BY EngineFacts, PendingType, SessionAssumption DEF SessionTyped, ControlTyped, RenewalsInv
<1> QED
  BY <1>1, <1>2, <1>3

-----------------------------------------------------------------------------
(* The clock and the passes of the loop.                                   *)

LEMMA ClockNumbers ==
  ASSUME Configured, SessionTyped
  PROVE  /\ now \in Nat /\ turn \in Nat /\ TickStep \in Nat /\ TickStep >= 5
         /\ TickStep <= 10000 /\ Reserve \in Nat
<1>1. TickStep \in Nat /\ TickStep >= 5 /\ TickStep <= 10000
  BY DEF Configured
<1>2. turn \in Nat /\ now \in Nat
  BY EngineFacts, SessionAssumption DEF SessionTyped, ControlTyped
<1>3. Reserve \in Nat
  BY <1>1 DEF Reserve
<1> QED
  BY <1>1, <1>2, <1>3

LEMMA ClockKept ==
  ASSUME Configured, SessionTyped, ClockInv, at \in Active, now' = now, turn' = turn,
         Reserve' = 0 \/ Reserve' = Reserve
  PROVE  ClockInv'
<1> DEFINE r == Reserve
           s == Reserve'
<1>1. now \in Nat /\ turn \in Nat /\ r \in Nat
  BY ClockNumbers
<1>2. now + r <= 2000 + 40000 * turn /\ (s = 0 \/ s = r)
  BY DEF ClockInv
<1> HIDE DEF r, s
<1>3. now + s <= 2000 + 40000 * turn
  BY <1>1, <1>2
<1> QED
  BY <1>3 DEF ClockInv, s

LEMMA ClockStep ==
  ASSUME Configured, SessionTyped, ClockInv, [Next]_vars
  PROVE  ClockInv'
<1>1. CASE StartRun
  <2>1. at' = "accept" /\ turn' = 0 /\ now' \in {1000, 2000}
    BY <1>1 DEF StartRun
  <2> DEFINE n == now'
             k == turn'
             s == Reserve'
  <2>2. (n = 1000 \/ n = 2000) /\ k = 0 /\ s = 0
    BY <2>1 DEF Reserve
  <2> HIDE DEF n, k, s
  <2>3. n + s <= 2000 + 40000 * k
    BY <2>2
  <2> QED
    BY <2>3 DEF ClockInv, n, k, s
<1>2. CASE GrantStage
  <2>1. at = "loop" /\ now' = now + TickStep /\ turn' = turn + 1 /\ at' \in {"report", "finish"}
    BY <1>2, Zenon DEF GrantStage, End
  <2> DEFINE s == Reserve'
             t == TickStep
             n == now
             k == turn
  <2>2. s = 0 \/ s = 3 * t
    BY <2>1 DEF Reserve
  <2>3. n + 0 <= 2000 + 40000 * k
    BY <2>1 DEF ClockInv, Reserve, Active, Waiting, Working
  <2>4. n \in Nat /\ k \in Nat /\ t \in Nat /\ t <= 10000
    BY ClockNumbers
  <2> HIDE DEF s, t, n, k
  <2>5. n + t + s <= 2000 + 40000 * (k + 1)
    BY <2>2, <2>3, <2>4
  <2>6. now' + s <= 2000 + 40000 * turn'
    BY <2>1, <2>5 DEF n, t, k
  <2> QED
    BY <2>6 DEF ClockInv, s
<1>3. CASE ReceiveReport
  <2>1. at = "report" /\ now' = now + TickStep /\ turn' = turn /\ at' \in {"evidence", "finish"}
    BY <1>3, Zenon DEF ReceiveReport, End
  <2>2. Reserve' \in {0, 2 * TickStep} /\ now + 3 * TickStep <= 2000 + 40000 * turn
    <3>1. Reserve' \in {0, 2 * TickStep}
      BY <2>1 DEF Reserve
    <3>2. at \in Active /\ now + 3 * TickStep <= 2000 + 40000 * turn
      BY <2>1 DEF ClockInv, Reserve, Active, Waiting, Working
    <3> QED
      BY <3>1, <3>2
  <2> DEFINE s == Reserve'
  <2>3. s \in {0, 2 * TickStep}
    BY <2>2
  <2> HIDE DEF s
  <2>4. now' + s <= 2000 + 40000 * turn'
    BY <2>1, <2>2, <2>3, ClockNumbers
  <2> QED
    BY <2>4 DEF ClockInv, s
<1>4. CASE SaveRollback
  <2>1. /\ at = "saveRollback" /\ now' = now + 2 * TickStep /\ turn' = turn
        /\ at' \in {"resume", "finish"}
    BY <1>4, Zenon DEF SaveRollback, Write, End
  <2>2. Reserve' = 0 /\ now + 2 * TickStep <= 2000 + 40000 * turn
    <3>1. Reserve' = 0
      BY <2>1 DEF Reserve
    <3>2. at \in Active /\ now + 2 * TickStep <= 2000 + 40000 * turn
      BY <2>1 DEF ClockInv, Reserve, Active, Waiting, Working
    <3> QED
      BY <3>1, <3>2
  <2>3. now' + 0 <= 2000 + 40000 * turn'
    BY <2>1, <2>2, ClockNumbers
  <2> QED
    BY <2>2, <2>3 DEF ClockInv
<1>5. CASE ReceiveEvidence \/ RollBack
  <2>1. /\ at \in {"evidence", "rollback"} /\ at' \in {"rollback", "save", "saveRollback", "finish"}
        /\ turn' = turn /\ (EngineCall \/ UNCHANGED engine)
    BY <1>5, Zenon DEF ReceiveEvidence, RollBack, End, EngineCall
  <2>2. now' = now
    BY <2>1, EngineCallKeeps DEF engine
  <2>3. TickStep' = TickStep
    OBVIOUS
  <2>4. Reserve = 2 * TickStep /\ Reserve' \in {0, 2 * TickStep}
    BY <2>1 DEF Reserve
  <2>5. at \in Active
    BY <2>1 DEF Active, Waiting, Working
  <2> QED
    BY <2>1, <2>2, <2>4, <2>5, ClockKept
<1>6. CASE Begin \/ WorkerDeath \/ RevalidateReplaced \/ ResumePlan
  <2>1. /\ at \in {"begin", "report", "revalidate", "resume"}
        /\ at' \in {"accept", "finish", "enter", "loop", "save"}
        /\ turn' = turn /\ (EngineCall \/ UNCHANGED engine)
    BY <1>6, Zenon DEF Begin, WorkerDeath, RevalidateReplaced, ResumePlan, End, EngineCall
  <2>2. now' = now
    BY <2>1, EngineCallKeeps DEF engine
  <2>3. Reserve' = 0 /\ at \in Active
    BY <2>1 DEF Reserve, Active, Waiting, Working
  <2> QED
    BY <2>1, <2>2, <2>3, ClockKept
<1>7. CASE \/ HelloMissing \/ HelloStale \/ StaleFrame \/ Register \/ Replace
           \/ ReplacementRefused \/ AcceptTimeout
  <2>1. Waits /\ now' = now
    BY <1>7, WaitSteps DEF engine
  <2>2. turn' = turn
    BY <1>7, Zenon DEF HelloMissing, HelloStale, StaleFrame, Register, Replace,
       ReplacementRefused, AcceptTimeout
  <2>3. /\ at \in Active
        /\ at' \in {"accept", "begin", "enter", "loop", "revalidate", "stale", "finish"}
    <3>1. waitFor \in {"workers", "extra", "replacement"}
      BY DEF SessionTyped, ControlTyped
    <3> QED
      BY <2>1, <3>1, AcceptedFacts DEF Waits, Active, Waiting
  <2>4. Reserve' = 0
    BY <2>3 DEF Reserve
  <2> QED
    BY <2>1, <2>2, <2>3, <2>4, ClockKept
<1>8. CASE Enter \/ LeaveLoop \/ Stop \/ EvidenceLost \/ Save
  <2>1. /\ at \in {"enter", "loop", "evidence", "save"} /\ at' \in {"loop", "finish"}
        /\ turn' = turn /\ UNCHANGED engine
    BY <1>8, Zenon DEF Enter, LeaveLoop, Stop, EvidenceLost, Save, Write, End
  <2>2. Reserve' = 0 /\ at \in Active /\ now' = now
    BY <2>1 DEF Reserve, Active, Waiting, Working, engine
  <2> QED
    BY <2>1, <2>2, ClockKept
<1>9. CASE Finish \/ Crash
  <2>1. at' \in {"done", "down"}
    BY <1>9, Zenon DEF Finish, Crash
  <2> QED
    BY <2>1 DEF ClockInv, Active, Waiting, Working
<1>10. ASSUME \/ \E p \in Processes : StartProcess(p) \/ ProcessStep(p) \/ KillProcess(p)
              \/ UNCHANGED vars
       PROVE  ClockInv'
  <2>1. UNCHANGED <<at, turn, now>>
    BY <1>10, ProcessKinds, Zenon DEF vars, engine, control
  <2> QED
    BY <2>1 DEF ClockInv, Reserve
<1> QED
  BY <1>1, <1>2, <1>3, <1>4, <1>5, <1>6, <1>7, <1>8, <1>9, <1>10, Zenon DEF Next, CoordinatorStep

\* No plan outlives its lifetime or its boundary.
LEMMA ClockBound ==
  ASSUME Configured, SessionTyped, ClockInv, at \in Active
  PROVE  now <= LifetimeTicks
<1>1. now \in Nat /\ turn \in Nat /\ Reserve \in Nat
  BY ClockNumbers
<1>2. turn <= 1000
  BY <1>1 DEF Configured, SessionTyped, ControlTyped
<1>3. now + Reserve <= 2000 + 40000 * turn
  BY DEF ClockInv
<1> DEFINE r == Reserve
<1> HIDE DEF r
<1>4. now <= 2000 + 40000 * 1000
  BY <1>1, <1>2, <1>3 DEF r
<1> QED
  BY <1>1, <1>4 DEF LifetimeTicks

-----------------------------------------------------------------------------
(* The processes that are recorded, queued and registered.                 *)

LEMMA GrantedGrows ==
  ASSUME CoordinatorStep \/ Crash
  PROVE  granted \subseteq granted'
<1>1. CASE GrantStage
  BY <1>1, Zenon DEF GrantStage
<1>2. CASE ~GrantStage
  <2>1. granted' = granted
    BY <1>2, Zenon DEF CoordinatorStep, Crash, HelloMissing, HelloStale, StaleFrame, Register,
       Replace, ReplacementRefused, AcceptTimeout, Begin, Enter, LeaveLoop, Stop, ReceiveReport,
       WorkerDeath, RevalidateReplaced, ReceiveEvidence, EvidenceLost, RollBack, SaveRollback,
       ResumePlan, Save, Finish, history
  <2> QED
    BY <2>1
<1> QED
  BY <1>1, <1>2

\* A process that goes on as it was recorded, or that reports a grant of this run.
LEMMA RecordKept ==
  ASSUME NEW p, RecordOf(p), proc'[p] = "new" <=> proc[p] = "new",
         runs' = runs, granted \subseteq granted',
         proc'[p] = "serving" /\ proc[p] # "serving" => RoleOf[p] # "replay",
         proc'[p] = "replaying" /\ proc[p] # "replaying" => RoleOf[p] = "replay",
         \/ recorded'[p] = recorded[p]
         \/ RoleOf[p] # "replay" /\ proc'[p] # "new" /\ \E g \in granted : g[3] = p
  PROVE  RecordOf(p)'
<1>1. /\ proc'[p] = "serving" => RoleOf[p] # "replay"
      /\ proc'[p] = "replaying" => RoleOf[p] = "replay"
      /\ recorded'[p] # NotRecorded => RoleOf[p] # "replay"
      /\ proc'[p] = "new" => recorded'[p] = NotRecorded
      /\ proc'[p] # "new" => \E n \in 1..MaxRuns : n <= runs' /\ p \in StartedIn[n]
  BY DEF RecordOf
<1>2. recorded'[p] # NotRecorded =>
       \/ \E g \in granted' : g[3] = p
       \/ \E n \in 1..MaxRuns : n < runs' /\ p \in StartedIn[n]
  BY DEF RecordOf
<1> QED
  BY <1>1, <1>2, Zenon DEF RecordOf, NotRecorded

LEMMA StartRecords ==
  ASSUME SessionTyped, RenewalsInv, RecordsInv, StartRun
  PROVE  RecordsInv'
<1>1. /\ runs \in Nat /\ runs' = runs + 1 /\ granted' = {} /\ peers' = <<>> /\ backlog' = <<>>
      /\ UNCHANGED <<proc, recorded>>
  BY CoordinatorKeepsProcesses, Zenon DEF StartRun, SessionTyped, ControlTyped
<1>2. ASSUME NEW p \in Processes
      PROVE  RecordOf(p)'
  <2>1. RecordOf(p)
    BY DEF RecordsInv
  <2>2. ASSUME proc[p] # "new"
        PROVE  \E n \in 1..MaxRuns : n < runs' /\ n <= runs' /\ p \in StartedIn[n]
    <3>1. PICK n \in 1..MaxRuns : n <= runs /\ p \in StartedIn[n]
      BY <2>1, <2>2 DEF RecordOf
    <3>2. n < runs' /\ n <= runs'
      BY <1>1, <3>1
    <3> QED
      BY <3>1, <3>2
  <2>3. /\ proc'[p] = "serving" => RoleOf[p] # "replay"
        /\ proc'[p] = "replaying" => RoleOf[p] = "replay"
        /\ recorded'[p] # NotRecorded => RoleOf[p] # "replay"
        /\ proc'[p] = "new" => recorded'[p] = NotRecorded
    BY <1>1, <2>1 DEF RecordOf
  <2>4. recorded'[p] # NotRecorded => proc[p] # "new"
    BY <1>1, <2>1 DEF RecordOf
  <2>5. /\ proc'[p] # "new" => \E n \in 1..MaxRuns : n <= runs' /\ p \in StartedIn[n]
        /\ recorded'[p] # NotRecorded =>
             \/ \E g \in granted' : g[3] = p
             \/ \E n \in 1..MaxRuns : n < runs' /\ p \in StartedIn[n]
    BY <1>1, <2>2, <2>4
  <2> QED
    BY <2>3, <2>5, Zenon DEF RecordOf, NotRecorded
<1>3. at' \in Active => \A i \in DOMAIN backlog' : backlog'[i] \in StartedIn[runs']
  BY <1>1
<1>4. at' \in Active => \A k \in DOMAIN peers' : Peer(k)' \in StartedIn[runs']
  BY <1>1
<1> QED
  BY <1>2, <1>3, <1>4, Zenon DEF RecordsInv

LEMMA CoordinatorRecords ==
  ASSUME SessionTyped, RecordsInv, CoordinatorStep \/ Crash
  PROVE  RecordsInv'
<1>1. /\ at \in Active /\ granted \subseteq granted' /\ UNCHANGED <<proc, recorded>>
      /\ runs' = runs
  <2>1. at \in Active
    BY CoordinatorRuns
  <2>2. ~StartRun
    BY <2>1 DEF StartRun, Active, Waiting, Working
  <2>3. runs' = runs
    BY <2>2, RunKeeps, Zenon DEF Next
  <2> QED
    BY <2>1, <2>3, GrantedGrows, CoordinatorKeepsProcesses, Zenon
<1>2. ASSUME NEW p \in Processes
      PROVE  RecordOf(p)'
  <2>1. RecordOf(p)
    BY DEF RecordsInv
  <2> QED
    BY <1>1, <2>1, RecordKept
<1>3. ASSUME NEW i \in DOMAIN backlog'
      PROVE  backlog'[i] \in StartedIn[runs]
  BY <1>1, BacklogFrom DEF RecordsInv
<1>4. ASSUME NEW k \in DOMAIN peers'
      PROVE  peers'[k].proc \in StartedIn[runs]
  BY <1>1, PeersFrom DEF RecordsInv
<1>5. \A k : Peer(k)' = peers'[k].proc
  BY DEF Peer
<1> QED
  BY <1>1, <1>2, <1>3, <1>4, <1>5, Zenon DEF RecordsInv

LEMMA ConnectRecords ==
  ASSUME SessionTyped, RenewalsInv, RecordsInv, NEW p \in Processes, StartProcess(p)
  PROVE  RecordsInv'
<1>1. /\ runs' = runs /\ granted' = granted /\ peers' = peers /\ at \in Active
      /\ p \in StartedIn[runs] /\ backlog' = Append(backlog, p) /\ at' = at
      /\ recorded' = recorded /\ proc' = [proc EXCEPT ![p] = "greeting"] /\ proc[p] = "new"
  BY Zenon DEF StartProcess, Connect, Become
<1>2. runs \in 1..MaxRuns /\ backlog \in Seq(Processes) /\ proc \in [Processes -> ProcStates]
  <2>1. at # "down"
    BY <1>1 DEF Active, Waiting, Working
  <2> QED
    BY <2>1, SessionAssumption DEF SessionTyped, ControlTyped, LinksTyped, RenewalsInv
<1>3. ASSUME NEW q \in Processes
      PROVE  RecordOf(q)'
  <2>1. RecordOf(q)
    BY DEF RecordsInv
  <2>2. CASE q = p
    <3>1. proc'[q] = "greeting" /\ recorded'[q] = NotRecorded
      BY <1>1, <1>2, <2>1, <2>2 DEF RecordOf
    <3>2. \E n \in 1..MaxRuns : n <= runs' /\ q \in StartedIn[n]
      BY <1>1, <1>2, <2>2
    <3> QED
      BY <3>1, <3>2 DEF RecordOf, NotRecorded
  <2>3. CASE q # p
    <3>1. proc'[q] = proc[q] /\ recorded'[q] = recorded[q]
      BY <1>1, <1>2, <2>3
    <3> QED
      BY <1>1, <2>1, <3>1, RecordKept
  <2> QED
    BY <2>2, <2>3
<1>4. \A i \in DOMAIN backlog' :
        backlog'[i] = p \/ \E j \in DOMAIN backlog : backlog'[i] = backlog[j]
  BY <1>1, <1>2
<1>5. \A i \in DOMAIN backlog' : backlog'[i] \in StartedIn[runs']
  BY <1>1, <1>4 DEF RecordsInv
<1>6. \A k \in DOMAIN peers' : Peer(k)' \in StartedIn[runs']
  BY <1>1 DEF RecordsInv, Peer
<1> QED
  BY <1>3, <1>5, <1>6, Zenon DEF RecordsInv

LEMMA ProcessRecords ==
  ASSUME SessionTyped, StreamInv, RecordsInv, NEW p \in Processes,
         ProcessStep(p) \/ KillProcess(p), ~StartProcess(p)
  PROVE  RecordsInv'
<1>1. /\ runs' = runs /\ granted' = granted /\ peers' = peers /\ at' = at /\ backlog' = backlog
      /\ ProcessCases(p) /\ ~Connect(p)
  BY ProcessKinds
<1>2. /\ proc \in [Processes -> ProcStates] /\ SoundLinks
      /\ recorded \in [Processes -> Reports \cup {NotRecorded}]
  BY DEF SessionTyped, LinksTyped, StreamInv
<1>3. /\ \A q \in Processes \ {p} : proc'[q] = proc[q]
      /\ \/ recorded' = recorded
         \/ /\ \E i \in DOMAIN link[p].down : link[p].down[i].kind = "STAGE_GRANT"
            /\ \A q \in Processes \ {p} : recorded'[q] = recorded[q]
  BY <1>1, <1>2, ProcessFollows, ProcessLinks, Zenon
<1>4. ASSUME NEW q \in Processes \ {p}
      PROVE  RecordOf(q)'
  <2>1. RecordOf(q) /\ proc'[q] = proc[q] /\ recorded'[q] = recorded[q]
    BY <1>3 DEF RecordsInv
  <2> QED
    BY <1>1, <2>1, RecordKept
<1>5. RecordOf(p)'
  <2>1. RecordOf(p)
    BY DEF RecordsInv
  <2>2. CASE Welcomed(p) \/ Replay(p) \/ (proc[p] \in Running /\ Exits(p))
    <3>1. recorded' = recorded /\ proc[p] \in Running
      BY <2>2 DEF Welcomed, Replay, Exits, Exit, Running
    <3>2. /\ proc'[p] \in {"serving", "replaying", "ended", "killed"}
          /\ proc'[p] = "serving" => RoleOf[p] # "replay"
          /\ proc'[p] = "replaying" => RoleOf[p] = "replay"
      BY <1>2, <2>2 DEF Welcomed, Replay, Exits, Exit, Become
    <3> QED
      BY <1>1, <2>1, <3>1, <3>2, RecordKept DEF Running
  <2>3. CASE Publish(p)
    BY <1>1, <2>1, <2>3, RecordKept DEF Publish
  <2>4. CASE Report(p)
    <3>1. proc' = proc /\ proc[p] = "serving"
      BY <2>4 DEF Report
    <3>2. RoleOf[p] # "replay"
      BY <2>1, <3>1 DEF RecordOf
    <3>3. recorded' = recorded \/ \E g \in granted : g[3] = p
      BY <1>3 DEF StreamInv, GrantsKnown
    <3> QED
      BY <1>1, <2>1, <3>1, <3>2, <3>3, RecordKept
  <2> QED
    BY <1>1, <2>2, <2>3, <2>4, Zenon DEF ProcessCases
<1> QED
  BY <1>1, <1>4, <1>5, Zenon DEF RecordsInv, Peer

LEMMA RecordsStep ==
  ASSUME SessionTyped, StreamInv, RenewalsInv, RecordsInv, [Next]_vars
  PROVE  RecordsInv'
<1>1. CASE UNCHANGED vars
  BY <1>1, Zenon DEF vars, workers, engine, control, history, RecordsInv, RecordOf, Peer,
     NotRecorded
<1>2. ASSUME NEW p \in Processes, ProcessStep(p) \/ KillProcess(p)
      PROVE  RecordsInv'
  <2>1. ~StartProcess(p)
    <3>1. SUFFICES ASSUME StartProcess(p) PROVE FALSE
      OBVIOUS
    <3>2. proc[p] = "new"
      BY <3>1 DEF StartProcess, Connect
    <3>3. proc[p] # "new"
      BY <1>2 DEF ProcessStep, KillProcess, WorkerStep, LoseLink, Die, Welcomed, Refused, Replay,
         ReplayAnswered, Report, Publish, Leave, Running
    <3> QED
      BY <3>2, <3>3
  <2> QED
    BY <1>2, <2>1, ProcessRecords
<1> QED
  BY <1>1, <1>2, StartRecords, CoordinatorRecords, ConnectRecords, Zenon DEF Next

-----------------------------------------------------------------------------
(* What the engine decides on a plan that is ready.                        *)

\* There are never as many recent transitions as transitions.
LEMMA RecentBound ==
  ASSUME NEW ticks \in Seq(Nat), NEW t
  PROVE  E!CountRecent(ticks, t) \in Nat /\ E!CountRecent(ticks, t) <= Len(ticks)
<1> DEFINE R == {k \in DOMAIN ticks : ticks[k] <= t /\ t - ticks[k] <= WindowTicks}
           D == DOMAIN ticks
<1>1. D = 1..Len(ticks) /\ Len(ticks) \in Nat
  OBVIOUS
<1>2. IsFiniteSet(D) /\ Cardinality(D) = Len(ticks)
  <2> DEFINE n == Len(ticks)
  <2>1. D = 1..n /\ n \in Nat
    BY <1>1
  <2> HIDE DEF D, n
  <2>2. IsFiniteSet(1..n) /\ Cardinality(1..n) = IF 1 > n THEN 0 ELSE n - 1 + 1
    BY <2>1, FS_Interval
  <2>3. Cardinality(1..n) = n
    BY <2>1, <2>2
  <2> QED
    BY <2>1, <2>2, <2>3 DEF n
<1>3. R \subseteq D
  OBVIOUS
<1>4. E!CountRecent(ticks, t) = Cardinality(R)
  BY PlainCardinality DEF E!CountRecent
<1> HIDE DEF R, D
<1>5. IsFiniteSet(R) /\ Cardinality(R) <= Cardinality(D)
  BY <1>2, <1>3, FS_Subset
<1>6. Cardinality(R) \in Nat
  BY <1>5, FS_CardinalityType, SMTT(30)
<1> QED
  BY <1>2, <1>4, <1>5, <1>6

\* No budget of a plan that is ready is exhausted.
LEMMA WithinBudgets ==
  ASSUME Configured, NEW p \in EP!Plans, Counted(p), E!IsLive(p), p.generation <= 26
  PROVE  /\ E!HasStage(p) /\ p.policyGen = 1 /\ p.completions = <<>>
         /\ p.totalAttempts < 32 /\ p.attemptsInStage < 3
         /\ Len(p.transitions) < 12 /\ ~E!HistoryFull(p)
         /\ p.generation < Unreached /\ p.stageGen < Unreached
         /\ Len(p.rollbacks) < 2
<1> DEFINE i == p.index
           g == p.generation
           sg == p.stageGen
           n == p.totalAttempts
           a == p.attemptsInStage
           lr == Len(p.rollbacks)
           lt == Len(p.transitions)
           lh == Len(p.history)
           r == Len(Rungs)
<1>1. /\ i < r /\ p.policyGen = 1 /\ p.completions = <<>> /\ a <= 1
      /\ sg = i + g /\ n = i + g /\ lr <= 1 /\ lt <= i + lr /\ lh <= 2 * i + g + lr
  BY Zenon DEF Counted
<1>2. /\ i \in Nat /\ g \in Nat /\ sg \in Nat /\ n \in Nat /\ a \in Nat
      /\ lr \in Nat /\ lt \in Nat /\ lh \in Nat
  BY PlanNumbers
<1>3. r \in 2..6 /\ g <= 26
  BY RungsLength
<1>4. E!HasStage(p) <=> i < r
  BY DEF E!HasStage
<1>5. E!HistoryFull(p) <=> lh >= 64
  BY DEF E!HistoryFull
<1> HIDE DEF i, g, sg, n, a, lr, lt, lh, r
<1>6. n < 32 /\ a < 3 /\ lt < 12 /\ ~(lh >= 64) /\ lr < 2
  BY <1>1, <1>2, <1>3
<1>7. g < Unreached /\ sg < Unreached
  BY <1>1, <1>2, <1>3, SMT DEF Unreached
<1> QED
  BY <1>1, <1>4, <1>5, <1>6, <1>7, Zenon DEF n, a, lt, lr, g, sg

\* Evidence on a plan that is ready is coherent with it.
LEMMA ReadyCoherent ==
  ASSUME EngineTyped, Configured, Counted(Plan), Ready, Plan.generation <= 26,
         now <= LifetimeTicks, NEW f
  PROVE  LET p == Plan  s == SnapshotOf(f) IN
         /\ E!Bound(p) /\ E!Coherent(p, s) /\ E!Evaluated(p, s)
         /\ ~E!Outlived(p, s) /\ ~E!CrossedBoundary(p, s)
<1> DEFINE p == Plan
           s == SnapshotOf(f)
<1>1. p \in EP!Plans /\ now \in Nat /\ p.updated \in Nat /\ p.created \in Nat
  BY EngineFacts, PlanNumbers
<1>2. /\ p.state \in E!StageStates /\ ~p.revalidationRequired /\ p.epoch = epoch
      /\ p.updated <= now /\ E!IsLive(p)
  BY NotLive DEF Ready, Live
<1>3. E!HasStage(p) /\ p.policyGen = 1 /\ p.completions = <<>>
  BY <1>1, <1>2, WithinBudgets
<1>4. s.tick = now /\ s.binding = "current" /\ s.verdict # "unusable"
  BY DEF SnapshotOf
<1>5. E!Bound(p)
  BY <1>2, <1>3 DEF E!Bound
<1>6. ~E!Replayed(p, s)
  <2>1. DOMAIN p.completions = {}
    BY <1>3
  <2> QED
    BY <2>1 DEF E!Replayed
<1>7. E!Coherent(p, s)
  BY <1>2, <1>3, <1>4, <1>5, <1>6 DEF E!Coherent
<1>8. ~E!Outlived(p, s) /\ ~E!CrossedBoundary(p, s)
  <2> DEFINE c == p.created
             u == p.updated
             t == now
  <2>1. c \in Nat /\ u \in Nat /\ t \in Nat /\ t <= 100000000
    BY <1>1 DEF LifetimeTicks
  <2> HIDE DEF c, u, t
  <2>2. ~(t - c > 100000000) /\ ~(t - u > 100000000)
    BY <2>1
  <2> QED
    BY <1>4, <2>2 DEF E!Outlived, E!CrossedBoundary, LifetimeTicks, BoundaryTicks, c, u, t
<1>9. p.state # "ROLLING_BACK" /\ p.state # "PAUSED"
  BY <1>2 DEF E!StageStates
<1>10. E!Evaluated(p, s)
  BY <1>4, <1>7, <1>8, <1>9, Zenon DEF E!Evaluated
<1> QED
  BY <1>5, <1>7, <1>8, <1>10

\* The calls of advance that evidence of a ready plan cannot come to.
LEMMA ReadyAdvance ==
  ASSUME NEW s, E!AdvanceWith(1, s), E!Bound(Plan),
         ~E!Outlived(Plan, s), ~E!CrossedBoundary(Plan, s)
  PROVE  \/ E!AdvanceRecurrence(1, s)
         \/ /\ E!Settled(Plan, s)
            /\ \/ E!AdvanceRateExceeded(1, s) \/ E!AdvanceBudgetExhausted(1, s)
               \/ E!AdvancePartial(1, s) \/ E!AdvanceHistoryFull(1, s)
               \/ E!AdvanceCommit(1, s) \/ E!AdvanceStage(1, s) \/ E!AdvanceExhausted(1, s)
<1>1. /\ ~E!AdvanceStale(1, s) /\ ~E!AdvanceOutlived(1, s) /\ ~E!AdvanceCrossedBoundary(1, s)
  BY Zenon DEF E!AdvanceStale, E!AdvanceOutlived, E!AdvanceCrossedBoundary, Plan
<1>2. ASSUME \/ E!AdvanceRateExceeded(1, s) \/ E!AdvanceBudgetExhausted(1, s)
             \/ E!AdvancePartial(1, s) \/ E!AdvanceHistoryFull(1, s)
             \/ E!AdvanceCommit(1, s) \/ E!AdvanceStage(1, s) \/ E!AdvanceExhausted(1, s)
      PROVE  E!Settled(Plan, s)
  BY <1>2, Zenon DEF E!AdvanceRateExceeded, E!AdvanceBudgetExhausted, E!AdvancePartial,
     E!AdvanceHistoryFull, E!AdvanceCommit, E!AdvanceStage, E!AdvanceExhausted, Plan,
     E!Verified, E!Allowed
<1> QED
  BY <1>1, <1>2, Zenon DEF E!AdvanceWith

\* Congestion that is back takes a plan that is ready to the rollback.
LEMMA ReadyRecurrence ==
  ASSUME EngineTyped, Configured, Counted(Plan), Ready, Plan.generation <= 26,
         now <= LifetimeTicks, NEW f, ~f.cleared,
         E!AdvanceWith(1, SnapshotOf(f)) \/ (Undecided(SnapshotOf(f)) /\ UNCHANGED engine)
  PROVE  Plan' = [Plan EXCEPT !.state = "ROLLING_BACK"]
<1> DEFINE s == SnapshotOf(f)
<1>1. /\ E!Bound(Plan) /\ E!Coherent(Plan, s) /\ E!Evaluated(Plan, s)
      /\ ~E!Outlived(Plan, s) /\ ~E!CrossedBoundary(Plan, s)
  BY ReadyCoherent
<1>2. s.verdict = "recurrence"
  BY DEF SnapshotOf
<1> HIDE DEF s
<1>3. ~Undecided(s)
  BY <1>1, <1>2, Zenon DEF Undecided
<1>4. ~E!Settled(Plan, s)
  BY <1>2 DEF E!Settled
<1>5. E!AdvanceRecurrence(1, s)
  <2>1. E!AdvanceWith(1, s)
    BY <1>3 DEF s
  <2> QED
    BY <1>1, <1>4, <2>1, ReadyAdvance
<1>6. E!StateOnRecurrence = "ROLLING_BACK"
  BY DEF E!StateOnRecurrence
<1>7. E!Update(1, [Plan EXCEPT !.state = E!StateOnRecurrence])
  BY <1>5, Zenon DEF E!AdvanceRecurrence, Plan
<1> QED
  BY <1>6, <1>7, UpdatedPlan

\* Good evidence, once the dwell time and the cooldown are over, takes it one rung up.
LEMMA ReadyClimbs ==
  ASSUME EngineTyped, Configured, Counted(Plan), Ready, Plan.generation <= 26,
         Plan.updated + 10 <= now, now <= LifetimeTicks, NEW f, f.cleared,
         E!AdvanceWith(1, SnapshotOf(f)) \/ (Undecided(SnapshotOf(f)) /\ UNCHANGED engine)
  PROVE  E!AdvanceStage(1, SnapshotOf(f)) \/ E!AdvanceCommit(1, SnapshotOf(f))
<1> DEFINE p == Plan
           s == SnapshotOf(f)
<1>1. /\ E!Bound(p) /\ E!Coherent(p, s) /\ E!Evaluated(p, s)
      /\ ~E!Outlived(p, s) /\ ~E!CrossedBoundary(p, s)
  BY ReadyCoherent
<1>2. s.verdict = "good" /\ s.tick = now
  BY DEF SnapshotOf
<1>3. p \in EP!Plans /\ E!IsLive(p) /\ p = plans[1]
  BY EngineFacts, NotLive DEF Ready, Live, Plan
<1>4. /\ p.totalAttempts < 32 /\ p.attemptsInStage < 3 /\ p.completions = <<>>
      /\ Len(p.transitions) < 12 /\ ~E!HistoryFull(p) /\ p.stageGen < Unreached
  BY <1>3, WithinBudgets
<1>5. /\ p.totalAttempts \in Nat /\ p.attemptsInStage \in Nat /\ p.stageGen \in Nat
      /\ p.transitions \in Seq(Nat) /\ p.updated \in Nat /\ p.cooldownUntil \in Nat
      /\ now \in Nat
  BY <1>3, PlanNumbers, EngineFacts
<1>6. E!Settled(p, s)
  <2>1. now >= p.cooldownUntil
    BY <1>5 DEF Ready
  <2>2. now - p.updated >= 10
    BY <1>5
  <2> QED
    BY <1>1, <1>2, <2>1, <2>2 DEF E!Settled
<1>7. E!WithinRate(p, s)
  <2> DEFINE n == E!CountRecent(p.transitions, now)
             l == Len(p.transitions)
  <2>1. n \in Nat /\ n <= l /\ l < 12 /\ l \in Nat
    BY <1>4, <1>5, RecentBound
  <2> HIDE DEF n, l
  <2>2. n < 12
    BY <2>1
  <2> QED
    BY <1>2, <2>2 DEF E!WithinRate, n
<1>8. ~(p.totalAttempts >= 32) /\ ~(p.attemptsInStage >= 3)
  BY <1>4, <1>5
<1>9. ~(p.stageGen >= Unreached)
  BY <1>4, <1>5 DEF Unreached
<1>10. ~E!CompletionsFull(p)
  BY <1>4 DEF E!CompletionsFull
<1>11. E!HasRoom(p)
  BY <1>4 DEF E!HasRoom
<1> HIDE DEF s
<1>12. ~Undecided(s)
  BY <1>1, <1>2, <1>6, Zenon DEF Undecided
<1>13. E!AdvanceWith(1, s)
  BY <1>12 DEF s
<1>14. ~E!AdvanceRecurrence(1, s)
  BY <1>2, Zenon DEF E!AdvanceRecurrence
<1>15. ~E!AdvanceRateExceeded(1, s) /\ ~E!AdvanceBudgetExhausted(1, s)
  BY <1>3, <1>7, <1>8, Zenon DEF E!AdvanceRateExceeded, E!AdvanceBudgetExhausted
<1>16. ~E!AdvancePartial(1, s)
  <2>1. s.verdict # "partial"
    BY <1>2
  <2> QED
    BY <2>1, Zenon DEF E!AdvancePartial
<1>17. ~E!AdvanceHistoryFull(1, s)
  BY <1>3, <1>10, <1>11, Zenon DEF E!AdvanceHistoryFull
<1>18. ~E!AdvanceExhausted(1, s)
  BY <1>3, <1>9, Zenon DEF E!AdvanceExhausted
<1>19. E!AdvanceStage(1, s) \/ E!AdvanceCommit(1, s)
  BY <1>1, <1>13, <1>14, <1>15, <1>16, <1>17, <1>18, ReadyAdvance
<1> QED
  BY <1>19 DEF s

-----------------------------------------------------------------------------
(* What keeps a run on its track.                                          *)

LEMMA MishapGrows ==
  ASSUME [Next]_vars, ~StartRun, ~mishap'
  PROVE  ~mishap
<1>1. CASE CoordinatorStep \/ Crash
  BY <1>1, Zenon DEF CoordinatorStep, Crash, HelloMissing, HelloStale, StaleFrame, Register,
     Replace, ReplacementRefused, AcceptTimeout, Begin, Enter, LeaveLoop, Stop, ReceiveReport,
     WorkerDeath, RevalidateReplaced, ReceiveEvidence, EvidenceLost, RollBack, SaveRollback,
     ResumePlan, Save, Finish, GrantStage, history, Untimely, Write
<1>2. ASSUME NEW p \in Processes, StartProcess(p) \/ ProcessStep(p) \/ KillProcess(p)
      PROVE  ~mishap
  BY <1>2, Zenon DEF StartProcess, ProcessStep, KillProcess, Mishap, history
<1>3. CASE UNCHANGED vars
  BY <1>3, Zenon DEF vars, history
<1> QED
  BY <1>1, <1>2, <1>3, Zenon DEF Next

\* A process the coordinator is not through with keeps its end, and hears no bad news.
LEMMA PeerLinkKept ==
  ASSUME SessionTyped, StreamInv, CoordinatorStep, at' \in Active, NEW k \in DOMAIN peers
  PROVE  /\ link'[Peer(k)].worker = link[Peer(k)].worker
         /\ (\A i \in DOMAIN link[Peer(k)].down : ~Serious(link[Peer(k)].down[i])) =>
              \A i \in DOMAIN link'[Peer(k)].down : ~Serious(link'[Peer(k)].down[i])
<1>1. Peer(k) \in Processes
  BY PeerFacts
<1>2. now' \in Nat
  BY EngineTypedStep, EngineFacts, Zenon DEF Next, EngineTyped, EP!TypeOK
<1>3. ~Finish /\ ~Crash
  <2>1. Finish \/ Crash => at' \in {"done", "down"}
    BY Zenon DEF Finish, Crash
  <2> QED
    BY <2>1 DEF Active, Waiting, Working
<1>4. ~(HelloStale /\ Greets(Peer(k)))
  BY <1>1, HeadFacts
<1>5. ~(StaleFrame /\ Peer(k) = conn[1])
  <2>1. StaleFrame => at = "stale"
    BY Zenon DEF StaleFrame
  <2> QED
    BY <2>1 DEF StreamInv, Unheard
<1>6. Touches(link[Peer(k)], link'[Peer(k)]) /\ Spared(link[Peer(k)], link'[Peer(k)])
  BY <1>1, <1>2, <1>3, <1>4, <1>5, CoordinatorLinks
<1> QED
  BY <1>6, Zenon DEF Touches, Spared

LEMMA CallerKept ==
  ASSUME SessionTyped, StreamInv, CoordinatorStep, NEW i \in DOMAIN backlog
  PROVE  backlog[i] \in Processes /\ link'[backlog[i]].worker = link[backlog[i]].worker
<1>1. backlog[i] \in Processes
  BY DEF SessionTyped, ControlTyped
<1>2. now' \in Nat
  BY EngineTypedStep, EngineFacts, Zenon DEF Next, EngineTyped, EP!TypeOK
<1>3. Touches(link[backlog[i]], link'[backlog[i]])
  BY <1>1, <1>2, CoordinatorLinks
<1> QED
  BY <1>1, <1>3 DEF Touches

\* As long as the applier is not waited for, every registered process is there.
LEMMA PeersOpen ==
  ASSUME LinksCalm, ~Died, NEW k \in DOMAIN peers, peers[k].registered
  PROVE  /\ link[Peer(k)].worker = "open"
         /\ \A i \in DOMAIN link[Peer(k)].down : ~Serious(link[Peer(k)].down[i])
BY Zenon DEF LinksCalm, PeerCalm

LEMMA PeerSteady ==
  ASSUME SessionTyped, StreamInv, LinksCalm, ~Died, CoordinatorStep, at' \in Active,
         NEW k \in DOMAIN peers, peers[k].registered
  PROVE  /\ link'[Peer(k)].worker = "open"
         /\ \A i \in DOMAIN link'[Peer(k)].down : ~Serious(link'[Peer(k)].down[i])
BY PeersOpen, PeerLinkKept

\* A step that leaves the peers as they are, once all of them are registered.
LEMMA SteadyCalm ==
  ASSUME SessionTyped, StreamInv, LinksCalm, ~Died, CoordinatorStep, at' \in Active,
         peers' = peers, backlog' = <<>>, Staffed, ~Replacing,
         at' = "stale" => waitFor' = "extra",
         Equipped' => peers[applier'].role = "applier" /\ peers[observer'].role = "observer"
  PROVE  LinksCalm' /\ BacklogCalm'
<1>1. ASSUME NEW k \in DOMAIN peers
      PROVE  PeerCalm(k)'
  <2>1. /\ RoleOf[Peer(k)] # "replay" /\ peers[k].role = RoleOf[Peer(k)]
        /\ peers[k].registered
    BY Zenon DEF LinksCalm, PeerCalm
  <2>2. /\ link'[Peer(k)].worker = "open"
        /\ \A i \in DOMAIN link'[Peer(k)].down : ~Serious(link'[Peer(k)].down[i])
    BY <2>1, PeerSteady
  <2>3. Peer(k)' = Peer(k)
    BY DEF Peer
  <2> QED
    BY <2>1, <2>2, <2>3, Zenon DEF PeerCalm
<1>2. Staffed'
  BY DEF Staffed
<1>3. LinksCalm'
  BY <1>1, <1>2, Zenon DEF LinksCalm
<1>4. DOMAIN backlog' = {} /\ Len(backlog') <= 1
  BY SMT
<1>5. BacklogCalm'
  BY <1>4, Zenon DEF BacklogCalm
<1> QED
  BY <1>3, <1>5

-----------------------------------------------------------------------------
(* Connections are accepted.                                               *)

LEMMA SamePlan ==
  ASSUME UNCHANGED <<engine, turn, scenario>>
  PROVE  /\ ToBegin' = ToBegin /\ ToEnter' = ToEnter /\ ToGoOn' = ToGoOn
         /\ ToRevalidate' = ToRevalidate /\ Ready' = Ready
         /\ \A t : ToHear(t)' = ToHear(t) /\ ToResume(t)' = ToResume(t)
<1>1. Plan' = Plan /\ now' = now /\ epoch' = epoch
  BY DEF engine, Plan
<1>2. Detour' = Detour /\ Ready' = Ready
  BY <1>1, Zenon DEF Detour, Ready, Live
<1> QED
  BY <1>1, <1>2, Zenon DEF ToBegin, ToEnter, ToGoOn, ToRevalidate, ToHear, ToResume, RungOf

LEMMA ReadyState ==
  ASSUME Ready
  PROVE  Plan.state # "COMPLETED" /\ Plan.state # "FAILED" /\ RungOf(Plan) = Plan.index
         /\ E!IsLive(Plan)
BY NotLive DEF Ready, Live, RungOf, E!StageStates

\* The extra connection has been seen.
LEMMA ExtraPlan ==
  ASSUME PlanCalm, Extra, UNCHANGED <<engine, turn, scenario, waitFor>>,
         at' \in {"enter", "loop", "stale"}
  PROVE  PlanCalm'
<1>1. ToEnter /\ Ready
  BY DEF PlanCalm, ToEnter
<1>2. ToEnter' /\ ToGoOn'
  BY <1>1, SamePlan, ReadyState DEF ToGoOn, ToEnter
<1>3. ~Gathering' /\ ~Replacing'
  BY DEF Extra, Gathering, Replacing
<1> QED
  BY <1>2, <1>3 DEF PlanCalm

\* A connection at the head of the queue.
LEMMA CallerFacts ==
  ASSUME SessionTyped, StreamInv, BacklogCalm, NEW p \in Processes, Greets(p)
  PROVE  /\ 1 \in DOMAIN backlog /\ backlog[1] = p /\ CallerCalm(1)
         /\ link[p].worker = "open" /\ link[p].down = <<>> /\ link[p] \in Links
         /\ Tail(backlog) \in Seq(Processes) /\ at = "accept"
         /\ Len(Tail(backlog)) = Len(backlog) - 1
         /\ \A i \in DOMAIN Tail(backlog) : i + 1 \in DOMAIN backlog
                                            /\ Tail(backlog)[i] = backlog[i + 1]
         /\ waitFor # "workers" => Tail(backlog) = <<>>
<1>1. backlog \in Seq(Processes) /\ backlog # <<>> /\ p = Head(backlog) /\ at = "accept"
  BY DEF SessionTyped, ControlTyped, Greets
<1>2. /\ 1 \in DOMAIN backlog /\ backlog[1] = p /\ Tail(backlog) \in Seq(Processes)
      /\ Len(Tail(backlog)) = Len(backlog) - 1 /\ Len(backlog) \in Nat
      /\ \A i \in DOMAIN Tail(backlog) : i + 1 \in DOMAIN backlog
                                            /\ Tail(backlog)[i] = backlog[i + 1]
  BY <1>1
<1>3. CallerCalm(1) /\ (waitFor # "workers" => Len(backlog) <= 1)
  BY <1>2, Zenon DEF BacklogCalm
<1>4. link[p].worker = "open"
  BY <1>2, <1>3, Zenon DEF CallerCalm
<1>5. link[p].down = <<>> /\ link[p] \in Links
  BY HeadFacts DEF QueuedLink
<1>6. waitFor # "workers" => Tail(backlog) = <<>>
  BY <1>2, <1>3
<1> QED
  BY <1>1, <1>2, <1>3, <1>4, <1>5, <1>6

LEMMA StaleIsExtra ==
  ASSUME SessionTyped, StreamInv, BacklogCalm, HelloStale \/ StaleFrame
  PROVE  Extra
<1>1. CASE StaleFrame
  <2>1. at = "stale"
    BY <1>1, Zenon DEF StaleFrame
  <2> QED
    BY <2>1 DEF BacklogCalm, Extra
<1>2. CASE HelloStale
  <2>1. PICK p \in Processes : Greets(p) /\ waitFor # "replacement" /\ Superseded(p)
    BY <1>2, Zenon DEF HelloStale, Hello
  <2>2. EntryOf(p) \in DOMAIN peers /\ peers[EntryOf(p)].worker = WorkerOf[p]
    BY <2>1, EntryFacts DEF Superseded
  <2>3. waitFor # "workers"
    BY <2>1, <2>2, CallerFacts, Zenon DEF CallerCalm
  <2> QED
    BY <2>1, <2>3 DEF Extra, Greets, SessionTyped, ControlTyped
<1> QED
  BY <1>1, <1>2

LEMMA ExtraCalm ==
  ASSUME SessionTyped, StreamInv, LinksCalm, BacklogCalm, PlanCalm, Extra,
         HelloStale \/ StaleFrame \/ AcceptTimeout
  PROVE  OnTrack'
<1>1. UNCHANGED <<engine, turn, scenario, waitFor, peers, applier, observer>>
  BY Zenon DEF HelloStale, StaleFrame, AcceptTimeout, Extra
<1>2. at' \in {"enter", "loop", "stale"} /\ (at' = "enter" => scenario = "restart-part2")
      /\ (at' = "loop" => scenario # "restart-part2")
  <2>1. HelloStale => at' = "stale"
    BY Zenon DEF HelloStale
  <2>2. StaleFrame \/ AcceptTimeout => Accepted(peers)
    BY Zenon DEF StaleFrame, AcceptTimeout, Extra
  <2> QED
    BY <2>1, <2>2, AcceptedFacts DEF Extra
<1>3. backlog' = <<>>
  <2>1. CASE HelloStale
    <3>1. PICK p \in Processes : Greets(p) /\ backlog' = Tail(backlog)
      BY <2>1, Zenon DEF HelloStale, Hello
    <3> QED
      BY <3>1, CallerFacts DEF Extra
  <2>2. CASE StaleFrame \/ AcceptTimeout
    BY <2>2, Zenon DEF StaleFrame, AcceptTimeout, BacklogCalm
  <2> QED
    BY <2>1, <2>2
<1>4. PlanCalm'
  BY <1>1, <1>2, ExtraPlan
<1>5. CoordinatorStep /\ at' \in Active \ {"finish"} /\ ~Died /\ Staffed /\ ~Replacing
  BY <1>2 DEF CoordinatorStep, Active, Waiting, Working, Died, Extra, LinksCalm, Gathering,
     Replacing
<1>6. Equipped' => Equipped
  BY <1>1, <1>2 DEF Equipped, Driving, Extra
<1>7. Equipped' => peers[applier'].role = "applier" /\ peers[observer'].role = "observer"
  BY <1>1, <1>6 DEF LinksCalm
<1>8. LinksCalm' /\ BacklogCalm'
  BY <1>1, <1>3, <1>5, <1>7, SteadyCalm DEF Extra
<1>9. at' # "done"
  BY <1>2
<1> QED
  BY <1>4, <1>5, <1>8, <1>9, Zenon DEF OnTrack

\* What cannot happen on the track.
LEMMA NoHelloMissing ==
  ASSUME SessionTyped, StreamInv, BacklogCalm, HelloMissing, ~mishap'
  PROVE  FALSE
<1>1. PICK p \in Processes : Greets(p) /\ Untimely(p)
  BY Zenon DEF HelloMissing
<1>2. link[p].worker = "open"
  BY <1>1, CallerFacts
<1> QED
  BY <1>1, <1>2 DEF Untimely

LEMMA NoRefusal ==
  ASSUME SessionTyped, StreamInv, BacklogCalm, ReplacementRefused
  PROVE  FALSE
<1>1. PICK p \in Processes : Greets(p) /\ waitFor = "replacement" /\ ~Replaces(p)
  BY Zenon DEF ReplacementRefused, Hello
<1>2. CallerCalm(1) /\ backlog[1] = p
  BY <1>1, CallerFacts
<1> QED
  BY <1>1, <1>2, Zenon DEF CallerCalm

-----------------------------------------------------------------------------
(* Workers are registered.                                                 *)

\* There is one worker of each role.
LEMMA TwoWorkers ==
  ASSUME Configured, NEW a \in Processes, NEW b \in Processes,
         RoleOf[a] # "replay", RoleOf[b] # "replay", WorkerOf[a] # WorkerOf[b]
  PROVE  /\ \/ RoleOf[a] = "applier" /\ RoleOf[b] = "observer"
            \/ RoleOf[a] = "observer" /\ RoleOf[b] = "applier"
         /\ \A c \in Processes : RoleOf[c] # "replay" =>
              WorkerOf[c] = WorkerOf[a] \/ WorkerOf[c] = WorkerOf[b]
<1>1. \A c \in Processes : RoleOf[c] \in {"applier", "observer", "replay"}
  BY ProcessAssumption
<1>2. \A c, d \in Processes : RoleOf[c] # "replay" /\ RoleOf[d] # "replay" =>
        (RoleOf[c] = RoleOf[d] <=> WorkerOf[c] = WorkerOf[d])
  BY DEF Configured
<1> QED
  BY <1>1, <1>2

LEMMA EntryIs ==
  ASSUME SessionTyped, StreamInv, at \in Active, NEW p, NEW k \in DOMAIN peers,
         peers[k].worker = WorkerOf[p]
  PROVE  EntryOf(p) = k
<1>1. peers \in Seq(PeerRecords)
  BY DEF SessionTyped, ControlTyped
<1>2. EntryOf(p) \in DOMAIN peers /\ peers[EntryOf(p)].worker = WorkerOf[p]
  BY <1>1, EntryFacts
<1> QED
  BY <1>2, Zenon DEF StreamInv, PeersKnown

\* Once the workers are gathered, each role has its peer.
LEMMA PeerOfRole ==
  ASSUME Configured, SessionTyped, StreamInv, at \in Active, LinksCalm, Staffed,
         NEW p \in Processes, RoleOf[p] # "replay"
  PROVE  \E k \in DOMAIN peers :
           /\ EntryOf(p) = k /\ peers[k].role = RoleOf[p]
           /\ peers[k].worker = WorkerOf[p] /\ WorkerOf[Peer(k)] = WorkerOf[p]
<1>1. RoleOf[p] \in {"applier", "observer"}
  BY ProcessAssumption
<1>2. PICK k \in DOMAIN peers : peers[k].role = RoleOf[p]
  BY <1>1 DEF Staffed
<1>3. RoleOf[Peer(k)] = RoleOf[p] /\ Peer(k) \in Processes
  BY <1>2, PeerFacts, Zenon DEF LinksCalm, PeerCalm
<1>4. WorkerOf[Peer(k)] = WorkerOf[p]
  BY <1>3 DEF Configured
<1>5. peers[k].worker = WorkerOf[p]
  BY <1>4 DEF StreamInv, PeersKnown
<1> QED
  BY <1>2, <1>4, <1>5, EntryIs

\* A connection that is welcomed.
LEMMA WelcomedLink ==
  ASSUME SessionTyped, StreamInv, BacklogCalm, NEW p \in Processes, Greets(p)
  PROVE  /\ SendResults(link[p]) = {TRUE}
         /\ link' = Welcoming(p) =>
              /\ link'[p].worker = "open"
              /\ \A i \in DOMAIN link'[p].down : ~Serious(link'[p].down[i])
<1>1. link[p].worker = "open" /\ link[p].down = <<>> /\ link[p] \in Links
  BY CallerFacts
<1>2. HelloAck \in Frames /\ ~Serious(HelloAck)
  BY FrameFacts DEF HelloAck, Serious
<1> DEFINE u == UpRead(link[p])
           m == SentDown(u, HelloAck)
<1>3. u \in Links /\ u.worker = "open" /\ u.down = <<>>
  <2>1. u.worker = link[p].worker /\ u.down = link[p].down
    BY <1>1, ReadFacts, Zenon
  <2>2. u \in Links
    BY <1>1, <1>2, LinkTypes, Zenon
  <2> QED
    BY <1>1, <2>1, <2>2
<1> HIDE DEF u
<1>4. m.worker = "open" /\ m.down = Append(<<>>, HelloAck)
  BY <1>2, <1>3, SentFacts
<1>5. \A i \in DOMAIN m.down : m.down[i] = HelloAck
  BY <1>4
<1>6. link' = Welcoming(p) => link'[p] = m
  BY DEF Welcoming, u
<1> HIDE DEF m
<1>7. SendResults(link[p]) = {TRUE}
  BY <1>1 DEF SendResults
<1> QED
  BY <1>2, <1>4, <1>5, <1>6, <1>7

LEMMA NoCallers ==
  ASSUME backlog' = <<>>, at' # "stale"
  PROVE  BacklogCalm'
<1>1. DOMAIN backlog' = {} /\ Len(backlog') <= 1
  BY SMT
<1> QED
  BY <1>1, Zenon DEF BacklogCalm

\* A newer boot takes the entry of its worker.
LEMMA WelcomedCalm ==
  ASSUME SessionTyped, StreamInv, LinksCalm, BacklogCalm, CoordinatorStep, Staffed, ~Died,
         at' \in {"enter", "loop", "revalidate"}, backlog' = <<>>,
         NEW p \in Processes, Greets(p), link' = Welcoming(p), RoleOf[p] # "replay",
         NEW e \in DOMAIN peers, NEW r, peers' = [peers EXCEPT ![e] = r],
         r.proc = p, r.role = RoleOf[p], peers[e].role = RoleOf[p], r.registered,
         \A k \in DOMAIN peers : k # e => peers[k].registered,
         UNCHANGED <<applier, observer>>, Equipped' => Equipped
  PROVE  LinksCalm' /\ BacklogCalm'
<1>1. /\ DOMAIN peers' = DOMAIN peers /\ peers'[e] = r
      /\ \A k \in DOMAIN peers : k # e => peers'[k] = peers[k]
  BY DEF SessionTyped, ControlTyped
<1>2. at' \in Active
  BY DEF Active, Waiting, Working
<1>3. ASSUME NEW k \in DOMAIN peers'
      PROVE  PeerCalm(k)'
  <2>1. CASE k = e
    <3>1. Peer(k)' = p /\ peers'[k].role = RoleOf[p] /\ peers'[k].registered
      BY <1>1, <2>1 DEF Peer
    <3>2. /\ link'[p].worker = "open"
          /\ \A i \in DOMAIN link'[p].down : ~Serious(link'[p].down[i])
      BY WelcomedLink
    <3> QED
      BY <3>1, <3>2, Zenon DEF PeerCalm
  <2>2. CASE k # e
    <3>1. /\ Peer(k)' = Peer(k) /\ peers'[k] = peers[k] /\ peers[k].registered
          /\ k \in DOMAIN peers
      BY <1>1, <2>2 DEF Peer
    <3>2. RoleOf[Peer(k)] # "replay" /\ peers[k].role = RoleOf[Peer(k)]
      BY <3>1, Zenon DEF LinksCalm, PeerCalm
    <3>3. /\ link'[Peer(k)].worker = "open"
          /\ \A i \in DOMAIN link'[Peer(k)].down : ~Serious(link'[Peer(k)].down[i])
      BY <1>2, <3>1, PeerSteady
    <3> QED
      BY <3>1, <3>2, <3>3, Zenon DEF PeerCalm
  <2> QED
    BY <2>1, <2>2
<1>4. \A k \in DOMAIN peers : peers'[k].role = peers[k].role
  BY <1>1
<1>5. Staffed'
  BY <1>1, <1>4 DEF Staffed
<1>6. Equipped' => peers'[applier'].role = "applier" /\ peers'[observer'].role = "observer"
  BY <1>4 DEF LinksCalm, SessionTyped, ControlTyped
<1>7. LinksCalm'
  BY <1>3, <1>5, <1>6, Zenon DEF LinksCalm
<1> QED
  BY <1>7, NoCallers

\* A boot that is newer is the next boot of a worker, never a replayed one.
LEMMA ExtraIsNewer ==
  ASSUME Configured, SessionTyped, StreamInv, RenewalsInv, RecordsInv, LinksCalm, Staffed,
         NEW p \in Processes, Greets(p), ~Superseded(p)
  PROVE  RoleOf[p] # "replay"
<1> SUFFICES ASSUME RoleOf[p] = "replay"
             PROVE  FALSE
  OBVIOUS
<1> DEFINE s == Source[p]
<1>1. /\ s \in Processes /\ WorkerOf[p] = WorkerOf[s] /\ BootOf[p] = BootOf[s]
      /\ BootOf[p] \in Nat
  BY ProcessAssumption
<1>2. at \in Active /\ runs \in 1..MaxRuns
  <2>1. at = "accept"
    BY DEF Greets
  <2>2. runs # 0 /\ runs \in Nat /\ runs <= MaxRuns
    BY <2>1 DEF SessionTyped, ControlTyped, RenewalsInv
  <2> QED
    BY <2>1, <2>2, SessionAssumption DEF Active, Waiting
<1>3. recorded[s] # NotRecorded /\ RecordOf(s)
  <2>1. proc[p] # "new"
    BY HeadFacts DEF QueuedLink
  <2>2. recorded[s] \in Reports
    BY <2>1 DEF SessionTyped, LinksTyped
  <2> QED
    BY <1>1, <2>2 DEF Reports, NotRecorded, RecordsInv
<1>4. CASE \E g \in granted : g[3] = s
  <2>1. PICK k \in DOMAIN peers : peers[k].worker = WorkerOf[s] /\ peers[k].boot >= BootOf[s]
    BY <1>2, <1>4 DEF StreamInv, GrantsKnown
  <2>2. EntryOf(p) = k /\ k # 0 /\ peers[k].boot \in Nat
    BY <1>1, <1>2, <2>1, EntryIs, PeerFacts
  <2> QED
    BY <1>1, <2>1, <2>2 DEF Superseded
<1>5. CASE \E n \in 1..MaxRuns : n < runs /\ s \in StartedIn[n]
  <2>1. PICK n \in 1..MaxRuns : n < runs /\ s \in StartedIn[n]
    BY <1>5
  <2>2. RoleOf[s] # "replay"
    BY <1>3 DEF RecordOf
  <2>3. PICK k \in DOMAIN peers : EntryOf(s) = k /\ WorkerOf[Peer(k)] = WorkerOf[s]
                                  /\ peers[k].worker = WorkerOf[s]
    BY <1>1, <1>2, <2>2, PeerOfRole
  <2>4. Peer(k) \in StartedIn[runs] /\ peers[k].boot = BootOf[Peer(k)]
    BY <1>2 DEF RecordsInv, StreamInv, PeersKnown
  <2>5. BootOf[p] <= BootOf[Peer(k)]
    BY <1>1, <1>2, <2>1, <2>3, <2>4 DEF Configured
  <2>6. EntryOf(p) = k /\ k # 0
    BY <1>1, <1>2, <2>3, EntryIs, PeerFacts
  <2> QED
    BY <2>4, <2>5, <2>6 DEF Superseded
<1> QED
  BY <1>3, <1>4, <1>5 DEF RecordOf

-----------------------------------------------------------------------------
(* The workers are gathered, and one of them comes back.                   *)

\* Two workers that are not the same are one of each role, and there is no third.
LEMMA Crew ==
  ASSUME Configured, NEW P \in Seq(PeerRecords), Len(P) >= 2,
         \A k \in DOMAIN P :
           /\ P[k].worker = WorkerOf[P[k].proc] /\ RoleOf[P[k].proc] # "replay"
           /\ P[k].role = RoleOf[P[k].proc]
           /\ \A m \in DOMAIN P : P[m].worker = P[k].worker => m = k
  PROVE  /\ \E k, m \in DOMAIN P : P[k].role = "applier" /\ P[m].role = "observer"
         /\ \A c \in Processes : RoleOf[c] # "replay" =>
              \E k \in DOMAIN P : P[k].worker = WorkerOf[c]
<1>1. 1 \in DOMAIN P /\ 2 \in DOMAIN P
  OBVIOUS
<1>2. P[1].proc \in Processes /\ P[2].proc \in Processes
  <2>1. P[1] \in PeerRecords /\ P[2] \in PeerRecords
    BY <1>1
  <2> QED
    BY <2>1 DEF PeerRecords
<1> DEFINE a == P[1].proc
           b == P[2].proc
<1>3. /\ RoleOf[a] # "replay" /\ RoleOf[b] # "replay" /\ WorkerOf[a] # WorkerOf[b]
      /\ P[1].role = RoleOf[a] /\ P[2].role = RoleOf[b]
      /\ P[1].worker = WorkerOf[a] /\ P[2].worker = WorkerOf[b]
  BY <1>1
<1>4. a \in Processes /\ b \in Processes
  BY <1>2
<1> HIDE DEF a, b
<1>5. /\ \/ RoleOf[a] = "applier" /\ RoleOf[b] = "observer"
         \/ RoleOf[a] = "observer" /\ RoleOf[b] = "applier"
      /\ \A c \in Processes : RoleOf[c] # "replay" =>
           WorkerOf[c] = WorkerOf[a] \/ WorkerOf[c] = WorkerOf[b]
  BY <1>3, <1>4, TwoWorkers
<1> QED
  BY <1>1, <1>3, <1>5

\* A worker that is waited for is registered.
LEMMA GatherCalm ==
  ASSUME Configured, SessionTyped, StreamInv, LinksCalm, BacklogCalm, PlanCalm,
         [Next]_vars, Gathering, Register
  PROVE  OnTrack'
<1>1. PICK p \in Processes :
        /\ Greets(p) /\ backlog' = Tail(backlog) /\ peers' = Registered(p)
        /\ link' = Welcoming(p)
        /\ \E sent \in SendResults(link[p]) :
             IF sent THEN Accepted(Registered(p)) /\ UNCHANGED outcome ELSE End("FAILED")
        /\ UNCHANGED <<engine, waitFor, turn, scenario, applier, observer>>
  BY Zenon DEF Register, Hello
<1>2. /\ 1 \in DOMAIN backlog /\ backlog[1] = p /\ CallerCalm(1) /\ at = "accept"
      /\ waitFor = "workers" /\ waitFor' = "workers"
      /\ \A i \in DOMAIN Tail(backlog) : i + 1 \in DOMAIN backlog
                                         /\ Tail(backlog)[i] = backlog[i + 1]
  BY <1>1, CallerFacts DEF Gathering
<1>3. /\ RoleOf[p] # "replay"
      /\ \A k \in DOMAIN peers : peers[k].worker # WorkerOf[p]
      /\ \A j \in DOMAIN backlog : WorkerOf[backlog[j]] = WorkerOf[p] => j = 1
  BY <1>2 DEF CallerCalm
<1>4. EntryOf(p) = 0
  BY <1>3, EntryFacts
<1> DEFINE n == Len(peers) + 1
<1>5. /\ peers' = Append(peers, PeerOf(p)) /\ peers \in Seq(PeerRecords)
      /\ PeerOf(p) \in PeerRecords
  BY <1>1, <1>4, PeerType DEF Registered, SessionTyped, ControlTyped
<1>6. /\ n \in DOMAIN peers' /\ peers'[n] = PeerOf(p) /\ peers' \in Seq(PeerRecords)
      /\ \A k \in DOMAIN peers' : k # n => k \in DOMAIN peers
      /\ \A k \in DOMAIN peers : k \in DOMAIN peers' /\ k # n /\ peers'[k] = peers[k]
      /\ DOMAIN peers' = 1..Len(peers') /\ Len(peers') = n
  BY <1>5
<1> HIDE DEF n
<1>7. /\ at' = IF Len(peers') < ExpectedWorkers THEN "accept" ELSE "begin"
      /\ SendResults(link[p]) = {TRUE}
  <2>1. BacklogCalm /\ SendResults(link[p]) = {TRUE}
    BY <1>1, WelcomedLink
  <2>2. Accepted(peers')
    BY <1>1, <2>1
  <2> QED
    BY <1>2, <2>1, <2>2 DEF Accepted
<1>8. /\ at' \in {"accept", "begin"} /\ at' \in Active /\ at' # "stale"
      /\ at' = "begin" => Len(peers') >= 2
  <2>1. ExpectedWorkers \in Nat /\ ExpectedWorkers >= 2 /\ Len(peers') \in Nat
    BY <1>6, SessionAssumption DEF Configured
  <2> QED
    BY <1>7, <2>1 DEF Active, Waiting, Working
<1>9. CoordinatorStep
  BY Zenon DEF CoordinatorStep
<1>10. StreamInv'
  BY RegisteredStreams
<1>11. ~Died /\ ~Replacing
  BY <1>2 DEF Died, Replacing
<1>12. ASSUME NEW k \in DOMAIN peers'
       PROVE  PeerCalm(k)'
  <2>1. CASE k = n
    <3>1. Peer(k)' = p /\ peers'[k].role = RoleOf[p] /\ peers'[k].registered
      BY <1>6, <2>1 DEF Peer, PeerOf
    <3>2. /\ link'[p].worker = "open"
          /\ \A i \in DOMAIN link'[p].down : ~Serious(link'[p].down[i])
      BY <1>1, WelcomedLink
    <3> QED
      BY <1>3, <3>1, <3>2, Zenon DEF PeerCalm
  <2>2. CASE k # n
    <3>1. Peer(k)' = Peer(k) /\ peers'[k] = peers[k] /\ k \in DOMAIN peers
      BY <1>6, <2>2 DEF Peer
    <3>2. RoleOf[Peer(k)] # "replay" /\ peers[k].role = RoleOf[Peer(k)] /\ peers[k].registered
      BY <1>11, <3>1, Zenon DEF LinksCalm, PeerCalm
    <3>3. /\ link'[Peer(k)].worker = "open"
          /\ \A i \in DOMAIN link'[Peer(k)].down : ~Serious(link'[Peer(k)].down[i])
      BY <1>8, <1>9, <1>11, <3>1, <3>2, PeerSteady
    <3> QED
      BY <3>1, <3>2, <3>3, Zenon DEF PeerCalm
  <2> QED
    BY <2>1, <2>2
<1>13. at' = "begin" =>
        /\ \E k, m \in DOMAIN peers' : peers'[k].role = "applier" /\ peers'[m].role = "observer"
        /\ \A c \in Processes : RoleOf[c] # "replay" =>
              \E k \in DOMAIN peers' : peers'[k].worker = WorkerOf[c]
  <2>1. \A k \in DOMAIN peers' :
           /\ peers'[k].worker = WorkerOf[peers'[k].proc] /\ RoleOf[peers'[k].proc] # "replay"
           /\ peers'[k].role = RoleOf[peers'[k].proc]
           /\ \A m \in DOMAIN peers' : peers'[m].worker = peers'[k].worker => m = k
    BY <1>8, <1>10, <1>12 DEF StreamInv, PeersKnown, PeerCalm, Peer
  <2> QED
    BY <1>6, <1>8, <2>1, Crew
<1>14. LinksCalm'
  <2>1. at' = "begin" => Staffed'
    BY <1>13 DEF Staffed
  <2>2. at' = "accept" => Gathering'
    BY <1>2 DEF Gathering
  <2>3. ~Equipped'
    BY <1>2, <1>8 DEF Equipped, Driving
  <2> QED
    BY <1>8, <1>12, <2>1, <2>2, <2>3, Zenon DEF LinksCalm
<1>15. ASSUME NEW i \in DOMAIN backlog'
       PROVE  /\ CallerCalm(i)' /\ RoleOf[backlog'[i]] # "replay" /\ backlog'[i] \in Processes
              /\ \A k \in DOMAIN peers' : peers'[k].worker # WorkerOf[backlog'[i]]
  <2>1. i + 1 \in DOMAIN backlog /\ backlog'[i] = backlog[i + 1] /\ i \in Nat /\ i # 0
    BY <1>1, <1>2
  <2>2. /\ link[backlog[i + 1]].worker = "open" /\ RoleOf[backlog[i + 1]] # "replay"
        /\ \A k \in DOMAIN peers : peers[k].worker # WorkerOf[backlog[i + 1]]
        /\ \A j \in DOMAIN backlog :
             WorkerOf[backlog[j]] = WorkerOf[backlog[i + 1]] => i + 1 = j
    BY <1>2, <2>1 DEF BacklogCalm, CallerCalm
  <2>3. backlog[i + 1] \in Processes /\ link'[backlog[i + 1]].worker = "open"
    BY <1>9, <2>1, <2>2, CallerKept
  <2>4. WorkerOf[backlog[i + 1]] # WorkerOf[p]
    BY <1>3, <2>1
  <2>5. \A k \in DOMAIN peers' : peers'[k].worker # WorkerOf[backlog[i + 1]]
    BY <1>6, <2>2, <2>4 DEF PeerOf
  <2>6. ASSUME NEW j \in DOMAIN backlog', WorkerOf[backlog'[j]] = WorkerOf[backlog'[i]]
        PROVE  i = j
    <3>1. j + 1 \in DOMAIN backlog /\ backlog'[j] = backlog[j + 1] /\ j \in Nat
      BY <1>1, <1>2
    <3>2. i + 1 = j + 1
      BY <2>1, <2>2, <2>6, <3>1
    <3> QED
      BY <2>1, <3>1, <3>2
  <2> QED
    BY <1>2, <2>1, <2>2, <2>3, <2>5, <2>6 DEF CallerCalm
<1>16. at' = "begin" => backlog' = <<>>
  <2> SUFFICES ASSUME at' = "begin", backlog' # <<>>
               PROVE  FALSE
    OBVIOUS
  <2>1. backlog' \in Seq(Processes)
    BY <1>1, <1>9, CallerFacts
  <2>2. 1 \in DOMAIN backlog'
    BY <2>1
  <2> QED
    BY <1>13, <1>15, <2>2
<1>17. BacklogCalm'
  BY <1>2, <1>8, <1>15, <1>16, Zenon DEF BacklogCalm
<1>18. PlanCalm'
  <2>1. ToBegin
    BY <1>2 DEF PlanCalm, Gathering
  <2>2. ToBegin'
    BY <1>1, <2>1, SamePlan
  <2> QED
    BY <1>2, <1>8, <2>2, Zenon DEF PlanCalm, Extra, Replacing
<1> QED
  BY <1>8, <1>14, <1>17, <1>18, Zenon DEF OnTrack

\* A newer boot that comes as the extra connection takes the place of the older one.
LEMMA RegisterExtraCalm ==
  ASSUME Configured, SessionTyped, StreamInv, RenewalsInv, RecordsInv,
         LinksCalm, BacklogCalm, PlanCalm, Extra, Register
  PROVE  OnTrack'
<1>1. PICK p \in Processes :
        /\ Greets(p) /\ ~Superseded(p) /\ backlog' = Tail(backlog) /\ peers' = Registered(p)
        /\ link' = Welcoming(p)
        /\ \E sent \in SendResults(link[p]) :
             IF sent THEN Accepted(Registered(p)) /\ UNCHANGED outcome ELSE End("FAILED")
        /\ UNCHANGED <<engine, waitFor, turn, scenario, applier, observer>>
  BY Zenon DEF Register, Hello
<1>2. /\ at = "accept" /\ waitFor = "extra" /\ waitFor' = "extra" /\ backlog' = <<>>
      /\ ~Died /\ ~Replacing /\ ~Gathering /\ at \in Active
  BY <1>1, CallerFacts DEF Extra, Died, Replacing, Gathering, Active, Waiting
<1>3. Staffed
  BY <1>2 DEF LinksCalm
<1>4. RoleOf[p] # "replay"
  BY <1>1, <1>3, ExtraIsNewer
<1>5. PICK k \in DOMAIN peers : EntryOf(p) = k /\ peers[k].role = RoleOf[p]
  BY <1>2, <1>3, <1>4, PeerOfRole
<1>6. peers' = [peers EXCEPT ![k] = PeerOf(p)]
  <2>1. k # 0
    BY <1>5, PeerFacts
  <2> QED
    BY <1>1, <1>5, <2>1 DEF Registered
<1>7. at' \in {"enter", "loop"}
  <2>1. SendResults(link[p]) = {TRUE}
    BY <1>1, WelcomedLink
  <2>2. Accepted(Registered(p))
    BY <1>1, <2>1
  <2> QED
    BY <1>2, <2>2, AcceptedFacts
<1>8. CoordinatorStep
  BY Zenon DEF CoordinatorStep
<1>9. Equipped' => Equipped
  BY WaitSteps, WaitControl
<1>10. /\ PeerOf(p).proc = p /\ PeerOf(p).role = RoleOf[p] /\ PeerOf(p).registered
       /\ \A m \in DOMAIN peers : m # k => peers[m].registered
  BY <1>2, Zenon DEF PeerOf, LinksCalm, PeerCalm
<1> DEFINE r == PeerOf(p)
<1>11. peers' = [peers EXCEPT ![k] = r] /\ r.proc = p /\ r.role = RoleOf[p] /\ r.registered
  BY <1>6, <1>10
<1> HIDE DEF r
<1>12. at' \in {"enter", "loop", "revalidate"} /\ UNCHANGED <<applier, observer>>
  BY <1>1, <1>7
<1>13. LinksCalm' /\ BacklogCalm'
  <2>1. /\ Greets(p) /\ link' = Welcoming(p) /\ RoleOf[p] # "replay"
        /\ ~Died /\ backlog' = <<>>
    BY <1>1, <1>2, <1>4
  <2>2. /\ r.proc = p /\ r.role = RoleOf[p] /\ peers[k].role = RoleOf[p] /\ r.registered
        /\ \A m \in DOMAIN peers : m # k => peers[m].registered
    BY <1>5, <1>10, <1>11
  <2> QED
    BY <1>3, <1>8, <1>9, <1>11, <1>12, <2>1, <2>2, WelcomedCalm, Zenon
<1>14. PlanCalm'
  BY <1>1, <1>7, ExtraPlan
<1> QED
  BY <1>7, <1>13, <1>14, Zenon DEF OnTrack

\* The replacement that is waited for takes the place of the applier.
LEMMA ReplaceCalm ==
  ASSUME Configured, SessionTyped, StreamInv, LinksCalm, BacklogCalm, PlanCalm, Replace
  PROVE  OnTrack'
<1>1. PICK p \in Processes :
        /\ Greets(p) /\ Replaces(p) /\ waitFor = "replacement" /\ backlog' = Tail(backlog)
        /\ peers' = [peers EXCEPT ![EntryOf(p)] =
                       [PeerOf(p) EXCEPT !.role = peers[EntryOf(p)].role]]
        /\ link' = Welcoming(p)
        /\ \E sent \in SendResults(link[p]) :
             IF sent THEN Accepted(peers) /\ UNCHANGED outcome ELSE End("FAILED")
        /\ UNCHANGED <<engine, waitFor, turn, scenario, applier, observer>>
  BY Zenon DEF Replace, Hello
<1>2. /\ at = "accept" /\ waitFor' = "replacement" /\ backlog' = <<>>
      /\ ~Died /\ Replacing /\ ~Gathering /\ at \in Active /\ Equipped
  BY <1>1, CallerFacts DEF Died, Replacing, Gathering, Active, Waiting, Equipped
<1>3. Staffed /\ peers[applier].role = "applier" /\ applier \in DOMAIN peers
  BY <1>2 DEF LinksCalm, SessionTyped, ControlTyped
<1>4. RoleOf[p] = "applier"
  BY <1>1 DEF Replaces
<1>5. PICK k \in DOMAIN peers : EntryOf(p) = k /\ peers[k].role = RoleOf[p]
  BY <1>2, <1>3, <1>4, PeerOfRole
<1>6. k = applier
  <2>1. RoleOf[Peer(k)] = "applier" /\ RoleOf[Peer(applier)] = "applier"
    BY <1>3, <1>4, <1>5, Zenon DEF LinksCalm, PeerCalm
  <2>2. Peer(k) \in Processes /\ Peer(applier) \in Processes
    BY <1>3, PeerFacts
  <2>3. WorkerOf[Peer(k)] = WorkerOf[Peer(applier)]
    BY <2>1, <2>2 DEF Configured
  <2>4. peers[k].worker = peers[applier].worker
    BY <1>2, <1>3, <2>3 DEF StreamInv, PeersKnown
  <2> QED
    BY <1>2, <1>3, <2>4 DEF StreamInv, PeersKnown
<1> DEFINE r == [PeerOf(p) EXCEPT !.role = peers[k].role]
<1>7. peers' = [peers EXCEPT ![k] = r] /\ r.proc = p /\ r.role = RoleOf[p] /\ r.registered
  BY <1>1, <1>5 DEF PeerOf
<1> HIDE DEF r
<1>8. at' = "revalidate"
  <2>1. SendResults(link[p]) = {TRUE}
    BY <1>1, WelcomedLink
  <2>2. Accepted(peers)
    BY <1>1, <2>1
  <2> QED
    BY <1>1, <2>2, AcceptedFacts
<1>9. CoordinatorStep
  BY Zenon DEF CoordinatorStep
<1>10. \A m \in DOMAIN peers : m # k => peers[m].registered
  BY <1>6, Zenon DEF LinksCalm, PeerCalm
<1>11. at' \in {"enter", "loop", "revalidate"} /\ UNCHANGED <<applier, observer>>
       /\ (Equipped' => Equipped) /\ RoleOf[p] # "replay"
  BY <1>1, <1>2, <1>4, <1>8
<1>12. LinksCalm' /\ BacklogCalm'
  BY <1>1, <1>2, <1>3, <1>5, <1>7, <1>9, <1>10, <1>11, WelcomedCalm, Zenon
<1>13. PlanCalm'
  <2>1. ToRevalidate
    BY <1>2, Zenon DEF PlanCalm
  <2>2. ToRevalidate'
    BY <1>1, <2>1, SamePlan
  <2> QED
    BY <1>8, <2>2, Zenon DEF PlanCalm, Extra, Gathering, Replacing
<1> QED
  BY <1>8, <1>12, <1>13, Zenon DEF OnTrack

\* The death a scenario provides for, and the only one while no mishap happened.
LEMMA DeathCalm ==
  ASSUME SessionTyped, StreamInv, LinksCalm, BacklogCalm, PlanCalm, WorkerDeath, ~mishap'
  PROVE  OnTrack'
<1>1. /\ at = "report" /\ at' = "accept" /\ waitFor' = "replacement"
      /\ peers' = [peers EXCEPT ![applier].registered = FALSE]
      /\ mishap' = (mishap \/ link[Peer(applier)].worker = "open")
      /\ E!RequireRevalidation(1)
      /\ UNCHANGED <<backlog, applier, observer, scenario, turn>>
  BY Zenon DEF WorkerDeath, Untimely
<1>2. /\ at \in Driving /\ at' \in Active /\ Replacing' /\ ~Gathering /\ ~Replacing /\ Equipped
  BY <1>1 DEF Driving, Active, Waiting, Replacing, Gathering, Equipped
<1>3. applier \in DOMAIN peers /\ peers[applier].registered
  BY <1>2, DrivenPeers
<1>4. Died
  <2>1. link[Peer(applier)].worker # "open"
    BY <1>1
  <2>2. PeerCalm(applier)
    BY <1>3 DEF LinksCalm
  <2> QED
    BY <1>3, <2>1, <2>2, Zenon DEF PeerCalm
<1>5. EngineTyped /\ Plan \in EP!Plans
  BY EngineFacts DEF SessionTyped
<1>6. ToHear(TickStep) /\ scenario = "worker-death" /\ Plan.generation = 1
  BY <1>1, <1>4, Zenon DEF PlanCalm, Died
<1>7. ToRevalidate'
  <2>1. /\ SameBudget(Plan, Plan')
        /\ Plan'.state = IF E!IsLive(Plan) THEN "REVALIDATION_REQUIRED" ELSE Plan.state
    BY <1>1, <1>5, RequiredFields
  <2>2. Ready /\ turn <= Plan.index + 1 + Detour
    BY <1>6 DEF ToHear
  <2>3. Detour = 0
    BY <1>6 DEF Detour
  <2>4. E!IsLive(Plan)
    BY <2>2, ReadyState
  <2>5. Plan.index \in Nat /\ turn \in Nat
    BY <1>5, PlanNumbers DEF SessionTyped, ControlTyped
  <2>6. /\ Plan'.state = "REVALIDATION_REQUIRED" /\ Plan'.generation = 1
        /\ Plan'.index = Plan.index
    BY <1>6, <2>1, <2>4 DEF SameBudget
  <2>7. turn' <= Plan'.index + 1
    BY <1>1, <2>2, <2>3, <2>5, <2>6
  <2> QED
    BY <1>1, <1>6, <2>6, <2>7, Zenon DEF ToRevalidate
<1>8. PlanCalm'
  BY <1>1, <1>7, Zenon DEF PlanCalm, Gathering, Extra
<1>9. CoordinatorStep
  BY Zenon DEF CoordinatorStep
<1>10. /\ DOMAIN peers' = DOMAIN peers
       /\ \A k \in DOMAIN peers : peers'[k].proc = peers[k].proc /\ peers'[k].role = peers[k].role
       /\ \A k \in DOMAIN peers : k # applier => peers'[k] = peers[k]
       /\ ~peers'[applier].registered
  <2>1. peers \in Seq(PeerRecords) /\ peers[applier] \in PeerRecords
    BY <1>3, PeerFacts DEF SessionTyped, ControlTyped
  <2> DEFINE r == [peers[applier] EXCEPT !.registered = FALSE]
  <2>2. r.proc = peers[applier].proc /\ r.role = peers[applier].role /\ ~r.registered
    BY <2>1, Zenon DEF PeerRecords
  <2>3. peers' = [peers EXCEPT ![applier] = r]
    BY <1>1
  <2> HIDE DEF r
  <2> QED
    BY <1>3, <2>1, <2>2, <2>3
<1>11. ASSUME NEW k \in DOMAIN peers'
       PROVE  PeerCalm(k)'
  <2>1. /\ RoleOf[Peer(k)] # "replay" /\ peers[k].role = RoleOf[Peer(k)]
        /\ Peer(k)' = Peer(k) /\ peers'[k].role = peers[k].role /\ k \in DOMAIN peers
    BY <1>10, Zenon DEF LinksCalm, PeerCalm, Peer
  <2>2. CASE k = applier
    BY <1>1, <1>2, <1>10, <2>1, <2>2, Zenon DEF PeerCalm
  <2>3. CASE k # applier
    <3>1. /\ peers[k].registered /\ link[Peer(k)].worker = "open"
          /\ \A i \in DOMAIN link[Peer(k)].down : ~Serious(link[Peer(k)].down[i])
      BY <1>2, <2>1, <2>3, Zenon DEF LinksCalm, PeerCalm
    <3>2. /\ link'[Peer(k)].worker = "open"
          /\ \A i \in DOMAIN link'[Peer(k)].down : ~Serious(link'[Peer(k)].down[i])
      BY <1>2, <1>9, <2>1, <3>1, PeerLinkKept
    <3> QED
      BY <1>10, <2>1, <2>3, <3>1, <3>2, Zenon DEF PeerCalm
  <2> QED
    BY <2>2, <2>3
<1>12. Staffed' /\ peers'[applier'].role = "applier" /\ peers'[observer'].role = "observer"
  <2>1. Staffed /\ peers[applier].role = "applier" /\ peers[observer].role = "observer"
    BY <1>2 DEF LinksCalm
  <2>2. observer \in DOMAIN peers
    BY <1>2, DrivenPeers
  <2>3. applier' = applier /\ observer' = observer
    BY <1>1
  <2>4. peers'[applier].role = "applier" /\ peers'[observer].role = "observer"
    BY <1>3, <1>10, <2>1, <2>2
  <2> QED
    BY <1>3, <1>10, <2>2, <2>3, <2>4, Zenon DEF Staffed
<1>13. LinksCalm'
  BY <1>11, <1>12, Zenon DEF LinksCalm
<1>14. BacklogCalm'
  BY <1>1, NoCallers DEF BacklogCalm
<1> QED
  BY <1>1, <1>8, <1>13, <1>14, Zenon DEF OnTrack

-----------------------------------------------------------------------------
(* What the coordinator does on its own.                                   *)

\* A plan that is created, revalidated or resumed is ready.
LEMMA FreshPlan ==
  ASSUME EngineTyped, EngineCall, Plan'.state \in E!StageStates,
         ~Plan'.revalidationRequired, Plan'.epoch = epoch,
         Plan'.updated = now, Plan'.cooldownUntil <= now
  PROVE  Ready'
<1>1. epoch' = epoch /\ now' = now
  BY EngineCallKeeps
<1>2. now <= now
  BY EngineFacts
<1>3. Plan'.updated <= now' /\ Plan'.cooldownUntil <= now'
  BY <1>1, <1>2
<1>4. Live(Plan)'
  BY <1>1 DEF Live
<1> QED
  BY <1>3, <1>4, Zenon DEF Ready

\* A plan that waits for a revalidation gets it.
LEMMA CanRevalidate ==
  ASSUME Configured, SessionTyped, StreamInv, CountsInv, RenewalsInv,
         Plan.state = "REVALIDATION_REQUIRED"
  PROVE  /\ E!Revalidatable(Plan)
         /\ Plan.generation \in Nat /\ Plan.index \in Nat /\ turn \in Nat
<1>1. EngineTyped /\ Plan \in EP!Plans /\ turn \in Nat
  BY EngineFacts DEF SessionTyped, ControlTyped
<1>2. /\ Plan.generation \in Nat /\ Plan.index \in Nat
  BY <1>1, PlanNumbers
<1>3. E!IsLive(Plan) /\ Counted(Plan)
  BY NotLive DEF CountsInv
<1>4. Plan.generation <= 26
  <2>1. Plan.generation + Pending <= 26
    BY <1>3, FewRenewals
  <2> QED
    BY <1>2, <2>1, PendingType
<1>5. E!HasStage(Plan)
  BY <1>1, <1>3, <1>4, WithinBudgets
<1> QED
  BY <1>1, <1>2, <1>3, <1>5 DEF E!Revalidatable

\* The plan that comes out of a revalidation.
LEMMA RevalidatedReady ==
  ASSUME EngineTyped, E!Revalidate(1)
  PROVE  /\ Ready' /\ Plan'.index = Plan.index
         /\ Plan'.generation = Plan.generation + 1
<1>1. LET p == Plan  q == Plan' IN
      /\ q.index = p.index /\ q.generation = p.generation + 1
      /\ q.state \in E!StageStates /\ q.revalidationRequired = FALSE /\ q.epoch = epoch
      /\ q.updated = now /\ q.cooldownUntil = 0
  BY RevalidatedFields, Zenon
<1>2. 0 <= now
  BY EngineFacts
<1>3. EngineCall
  BY DEF EngineCall
<1> QED
  BY <1>1, <1>2, <1>3, FreshPlan

\* Nothing the coordinator does on its own disturbs the connections.
LEMMA QuietCalm ==
  ASSUME SessionTyped, StreamInv, LinksCalm, BacklogCalm, Quietly, at # "accept",
         Equipped' => peers[applier'].role = "applier" /\ peers[observer'].role = "observer"
  PROVE  LinksCalm' /\ BacklogCalm'
<1>1. /\ at \in Active \ {"report", "finish", "stale"}
      /\ at' \in Active \ {"report", "evidence", "stale"}
  BY QuietControl
<1>2. peers' = peers /\ backlog' = backlog
  BY QuietlyKeeps
<1>3. backlog = <<>>
  BY DEF BacklogCalm
<1>4. ~Died /\ ~Replacing /\ ~Gathering
  BY <1>1 DEF Died, Replacing, Gathering
<1>5. Staffed
  BY <1>4 DEF LinksCalm
<1>6. CoordinatorStep
  BY Zenon DEF Quietly, CoordinatorStep
<1>7. at' \in Active /\ at' # "stale" /\ backlog' = <<>>
  BY <1>1, <1>2, <1>3
<1> QED
  BY <1>2, <1>4, <1>5, <1>6, <1>7, SteadyCalm, Zenon

\* As long as it drives the plan with the peers it has.
LEMMA DrivenCalm ==
  ASSUME SessionTyped, StreamInv, LinksCalm, BacklogCalm, Quietly, at # "accept",
         applier' = applier, observer' = observer, Equipped' => Equipped
  PROVE  LinksCalm' /\ BacklogCalm'
<1>1. Equipped' => peers[applier'].role = "applier" /\ peers[observer'].role = "observer"
  BY DEF LinksCalm
<1> QED
  BY <1>1, QuietCalm

\* The plan is created or revalidated.
LEMMA BeginCalm ==
  ASSUME Configured, SessionTyped, StreamInv, CountsInv, RenewalsInv,
         LinksCalm, BacklogCalm, PlanCalm, Begin
  PROVE  OnTrack'
<1>1. /\ at = "begin" /\ Quietly
      /\ UNCHANGED <<scenario, turn, applier, observer>>
  BY Zenon DEF Begin, Quietly
<1>2. EngineTyped /\ EngineTyped'
  BY <1>1, EngineTypedStep DEF SessionTyped, CoordinatorStep, Next, Quietly
<1>3. ToBegin
  BY <1>1, Zenon DEF PlanCalm
<1>4. turn' = 0 /\ 0 <= Plan'.index
  <2>1. Plan' \in EP!Plans
    BY <1>2 DEF EngineTyped, EP!TypeOK, Plan
  <2>2. Plan'.index \in Nat
    BY <2>1, PlanNumbers
  <2> QED
    BY <1>1, <1>3, <2>2 DEF ToBegin
<1>5. ASSUME Ready'
      PROVE  ToEnter'
  <2>1. Plan'.index \in Nat /\ Detour' \in {0, 1}
    <3>1. Plan' \in EP!Plans
      BY <1>2 DEF EngineTyped, EP!TypeOK, Plan
    <3> QED
      BY <3>1, PlanNumbers DEF Detour
  <2> DEFINE d == Detour'
             i == Plan'.index
  <2>2. 0 <= i + d
    <3> HIDE DEF d, i
    <3>1. i \in Nat /\ d \in {0, 1}
      BY <2>1 DEF i, d
    <3> QED
      BY <3>1
  <2>3. turn' <= Plan'.index + Detour'
    BY <1>4, <2>2
  <2> QED
    BY <1>5, <2>3, Zenon DEF ToEnter
<1>6. CASE scenario = "restart-part2"
  <2>1. E!Revalidatable(Plan)
    BY <1>3, <1>6, CanRevalidate DEF ToBegin
  <2>2. E!Revalidate(1) /\ at' = "accept" /\ waitFor' = "extra"
    BY <1>6, <2>1, Zenon DEF Begin
  <2>3. ToEnter'
    BY <1>2, <1>5, <2>2, RevalidatedReady
  <2>4. ~Equipped'
    BY <1>1, <1>6, <2>2 DEF Equipped, Driving
  <2>5. LinksCalm' /\ BacklogCalm'
    BY <1>1, <2>4, QuietCalm
  <2>6. PlanCalm'
    BY <2>2, <2>3, Zenon DEF PlanCalm, Gathering, Replacing
  <2> QED
    BY <2>2, <2>5, <2>6, Zenon DEF OnTrack
<1>7. CASE scenario # "restart-part2"
  <2>1. E!CreatePlan(1) /\ at' = "enter"
    BY <1>7, Zenon DEF Begin
  <2>2. EngineCall
    BY <2>1 DEF EngineCall
  <2>3. LET q == Plan' IN
        /\ q.state \in E!StageStates /\ q.revalidationRequired = FALSE /\ q.epoch = epoch
        /\ q.updated = now /\ q.cooldownUntil = 0
    BY <1>2, <2>1, CreatedFields, Zenon
  <2>4. 0 <= now
    BY <1>2, EngineFacts
  <2>5. Ready'
    BY <1>2, <2>2, <2>3, <2>4, FreshPlan
  <2>6. ToEnter'
    BY <1>5, <2>5
  <2>7. ~Equipped'
    BY <2>1 DEF Equipped, Driving
  <2>8. LinksCalm' /\ BacklogCalm'
    BY <1>1, <2>7, QuietCalm
  <2>9. PlanCalm'
    BY <2>1, <2>6, Zenon DEF PlanCalm, Gathering, Replacing, Extra
  <2> QED
    BY <2>1, <2>8, <2>9, Zenon DEF OnTrack
<1> QED
  BY <1>6, <1>7

\* A role that is staffed is found.
LEMMA PeerFound ==
  ASSUME peers \in Seq(PeerRecords), NEW role,
         \E k \in DOMAIN peers : peers[k].role = role /\ peers[k].registered
  PROVE  /\ FindPeer(role) # 0 /\ FindPeer(role) \in DOMAIN peers
         /\ peers[FindPeer(role)].role = role
<1> DEFINE S == {k \in DOMAIN peers : peers[k].role = role /\ peers[k].registered}
<1>1. S \subseteq Nat /\ S # {} /\ 0 \notin S
  OBVIOUS
<1>2. \E k \in S : \A m \in S : k <= m
  BY <1>1, LeastNatural
<1>3. FindPeer(role) = CHOOSE k \in S : \A m \in S : k <= m
  BY <1>1, Zenon DEF FindPeer
<1> DEFINE c == CHOOSE k \in S : \A m \in S : k <= m
<1>4. c \in S
  BY <1>2
<1>5. FindPeer(role) # 0
  BY <1>1, <1>3, <1>4
<1> QED
  BY <1>5, FoundPeer

\* Both workers are there.
LEMMA EnterCalm ==
  ASSUME SessionTyped, StreamInv, LinksCalm, BacklogCalm, PlanCalm, Enter
  PROVE  OnTrack'
<1>1. /\ at = "enter" /\ Quietly
      /\ UNCHANGED <<engine, scenario, turn>>
      /\ applier' = FindPeer("applier") /\ observer' = FindPeer("observer")
  BY Zenon DEF Enter, Quietly
<1>2. \A k \in DOMAIN peers : peers[k].registered
  BY <1>1, Zenon DEF LinksCalm, PeerCalm, Replacing
<1>3. Staffed
  BY <1>1 DEF LinksCalm, Gathering
<1>4. /\ FindPeer("applier") # 0 /\ FindPeer("observer") # 0
      /\ peers[FindPeer("applier")].role = "applier"
      /\ peers[FindPeer("observer")].role = "observer"
  <2>1. peers \in Seq(PeerRecords)
    BY DEF SessionTyped, ControlTyped
  <2>2. /\ \E k \in DOMAIN peers : peers[k].role = "applier" /\ peers[k].registered
        /\ \E k \in DOMAIN peers : peers[k].role = "observer" /\ peers[k].registered
    BY <1>2, <1>3 DEF Staffed
  <2> QED
    BY <2>1, <2>2, PeerFound
<1>5. at' = "loop"
  BY <1>1, <1>4, Zenon DEF Enter
<1>6. LinksCalm' /\ BacklogCalm'
  BY <1>1, <1>4, QuietCalm
<1>7. ToGoOn'
  <2>1. ToEnter
    BY <1>1, Zenon DEF PlanCalm
  <2>2. Ready /\ turn <= RungOf(Plan) + Detour
    BY <2>1, ReadyState DEF ToEnter
  <2>3. ToGoOn
    BY <2>2, Zenon DEF ToGoOn
  <2> QED
    BY <1>1, <2>3, SamePlan
<1>8. PlanCalm'
  BY <1>5, <1>7, Zenon DEF PlanCalm, Gathering, Extra, Replacing
<1> QED
  BY <1>5, <1>6, <1>8, Zenon DEF OnTrack

\* The run ends with success: the passes of the loop are enough for every rung.
LEMMA LeaveCalm ==
  ASSUME Configured, SessionTyped, CountsInv, PlanCalm, LeaveLoop
  PROVE  OnTrack'
<1>1. at = "loop" /\ ToGoOn
  BY Zenon DEF LeaveLoop, PlanCalm
<1>2. Plan \in EP!Plans /\ turn \in Nat
  BY EngineFacts DEF SessionTyped, ControlTyped
<1>3. Plan.state # "FAILED"
  BY <1>1, ReadyState DEF ToGoOn
<1>4. turn < LoopGuard
  <2> DEFINE i == Plan.index
             d == Detour
             r == RungOf(Plan)
             n == Len(Rungs)
  <2>1. i \in Nat /\ d \in {0, 1} /\ n \in Nat /\ LoopGuard \in Nat /\ LoopGuard >= n + 2
    BY <1>2, PlanNumbers, RungsLength DEF Configured, Detour
  <2>2. i < n /\ r \in {i, i + 1}
    <3>1. CASE Plan.state = "COMPLETED" /\ Plan.index < Len(Rungs)
      BY <3>1 DEF RungOf
    <3>2. CASE Ready
      BY <3>2, ReadyState, Zenon DEF CountsInv, Counted
    <3> QED
      BY <1>1, <3>1, <3>2 DEF ToGoOn
  <2>3. turn <= r + d
    BY <1>1 DEF ToGoOn
  <2> HIDE DEF i, d, r, n
  <2>4. turn <= n + 1
    BY <1>2, <2>1, <2>2, <2>3
  <2> QED
    BY <1>2, <2>1, <2>4
<1>5. at' = "finish" /\ outcome' = "OK"
  <2>1. ~(turn >= LoopGuard)
    BY <1>2, <1>4 DEF Configured
  <2> QED
    BY <1>3, <2>1, Zenon DEF LeaveLoop, End
<1> QED
  BY <1>5, Zenon DEF OnTrack

\* A plan that is saved goes on.
LEMMA SaveCalm ==
  ASSUME SessionTyped, StreamInv, LinksCalm, BacklogCalm, PlanCalm, Save, ~mishap'
  PROVE  OnTrack'
<1>1. /\ at = "save" /\ Quietly /\ at' = "loop"
      /\ UNCHANGED <<engine, scenario, turn, applier, observer>>
  BY Zenon DEF Save, Write, Quietly
<1>2. Equipped
  BY <1>1 DEF Equipped, Driving
<1>3. LinksCalm' /\ BacklogCalm'
  BY <1>1, <1>2, DrivenCalm
<1>4. ToGoOn'
  <2>1. ToGoOn
    BY <1>1, Zenon DEF PlanCalm
  <2> QED
    BY <1>1, <2>1, SamePlan
<1>5. PlanCalm'
  BY <1>1, <1>4, Zenon DEF PlanCalm, Gathering, Extra, Replacing
<1> QED
  BY <1>1, <1>3, <1>5, Zenon DEF OnTrack

\* restart-part1 stops where it should.
LEMMA StopCalm ==
  ASSUME Stop, ~mishap'
  PROVE  OnTrack'
<1>1. at' = "finish" /\ outcome' = "OK"
  BY Zenon DEF Stop, End
<1> QED
  BY <1>1, Zenon DEF OnTrack

\* The rollback that is decided is made, and only one is.
LEMMA RollBackCalm ==
  ASSUME Configured, SessionTyped, StreamInv, CountsInv, LinksCalm, BacklogCalm, PlanCalm,
         RollBack
  PROVE  OnTrack'
<1>1. /\ at = "rollback" /\ Quietly /\ ToRollBack
      /\ UNCHANGED <<scenario, turn, applier, observer>>
  BY Zenon DEF RollBack, Quietly, PlanCalm
<1>2. E!Rollback(1) /\ at' = "saveRollback" /\ EngineTyped
  BY <1>1, Zenon DEF RollBack, ToRollBack, SessionTyped
<1>3. EngineCall /\ epoch' = epoch /\ now' = now
  BY <1>2, EngineCallKeeps DEF EngineCall
<1>4. Plan.rollbacks = <<>> /\ ~Plan.revalidationRequired /\ Plan.epoch = epoch
  BY <1>1, NotLive DEF CountsInv, Counted, ToRollBack, E!RollbackAllowed
<1>5. LET p == Plan  q == Plan' IN
      /\ q.index = p.index /\ q.revalidationRequired = p.revalidationRequired
      /\ q.epoch = p.epoch /\ q.updated = now /\ q.cooldownUntil = now + 5
      /\ q.rollbacks = Append(p.rollbacks, now)
      /\ q.state = IF Len(p.rollbacks) + 1 >= 3 THEN "FAILED" ELSE "ROLLED_BACK"
  BY <1>2, RolledBackFields, Zenon
<1>6. Plan'.state = "ROLLED_BACK"
  <2>1. Len(Plan.rollbacks) = 0
    BY <1>4
  <2>2. ~(Len(Plan.rollbacks) + 1 >= 3)
    BY <2>1
  <2> QED
    BY <1>5, <2>2, Zenon
<1>7. Plan'.rollbacks # <<>>
  <2>1. Plan'.rollbacks = Append(<<>>, now)
    BY <1>4, <1>5, Zenon
  <2> QED
    BY <2>1
<1>8. Plan'.updated <= now' /\ Plan'.cooldownUntil <= now' + 5
  <2>1. now \in Nat
    BY <1>2, EngineFacts
  <2>2. Plan'.updated = now /\ Plan'.cooldownUntil = now + 5
    BY <1>5, Zenon
  <2>3. now <= now /\ now + 5 <= now + 5
    BY <2>1
  <2> QED
    BY <1>3, <2>2, <2>3
<1>9. turn' <= Plan'.index + 1 /\ scenario' = "recurrence"
  BY <1>1, <1>5, Zenon DEF ToRollBack
<1>10. ToResume(5)'
  <2>1. ~Plan'.revalidationRequired /\ Plan'.epoch = epoch'
    BY <1>3, <1>4, <1>5, Zenon
  <2> QED
    BY <1>6, <1>7, <1>8, <1>9, <2>1, Zenon DEF ToResume
<1>11. LinksCalm' /\ BacklogCalm'
  <2>1. Equipped
    BY <1>1 DEF Equipped, Driving
  <2> QED
    BY <1>1, <2>1, DrivenCalm
<1>12. PlanCalm'
  BY <1>2, <1>10, Zenon DEF PlanCalm, Gathering, Extra, Replacing
<1> QED
  BY <1>2, <1>11, <1>12, Zenon DEF OnTrack

\* The cooldown passes while the rollback is saved.
LEMMA SaveRollbackCalm ==
  ASSUME Configured, SessionTyped, StreamInv, LinksCalm, BacklogCalm, PlanCalm,
         SaveRollback, ~mishap'
  PROVE  OnTrack'
<1>1. /\ at = "saveRollback" /\ Quietly /\ at' = "resume" /\ now' = now + 2 * TickStep
      /\ UNCHANGED <<epoch, plans, scenario, turn, applier, observer>>
  BY Zenon DEF SaveRollback, Write, Quietly
<1>2. ToResume(5)
  BY <1>1, Zenon DEF PlanCalm
<1>3. Plan' = Plan
  BY <1>1 DEF Plan
<1>4. Plan'.updated <= now' /\ Plan'.cooldownUntil <= now' + 0
  <2>1. /\ Plan.updated \in Nat /\ Plan.cooldownUntil \in Nat /\ now \in Nat
        /\ TickStep \in Nat /\ TickStep >= 5
    BY EngineFacts, PlanNumbers DEF SessionTyped, Configured
  <2>2. Plan.updated <= now /\ Plan.cooldownUntil <= now + 5
    BY <1>2, Zenon DEF ToResume
  <2> DEFINE u == Plan.updated
             c == Plan.cooldownUntil
  <2> HIDE DEF u, c
  <2>3. u <= now + 2 * TickStep /\ c <= now + 2 * TickStep + 0
    <3>1. u \in Nat /\ c \in Nat /\ u <= now /\ c <= now + 5
      BY <2>1, <2>2 DEF u, c
    <3> QED
      BY <2>1, <3>1
  <2> QED
    BY <1>1, <1>3, <2>3 DEF u, c
<1>5. ToResume(0)'
  BY <1>1, <1>2, <1>3, <1>4, Zenon DEF ToResume
<1>6. LinksCalm' /\ BacklogCalm'
  <2>1. Equipped
    BY <1>1 DEF Equipped, Driving
  <2> QED
    BY <1>1, <2>1, DrivenCalm
<1>7. PlanCalm'
  BY <1>1, <1>5, Zenon DEF PlanCalm, Gathering, Extra, Replacing
<1> QED
  BY <1>1, <1>6, <1>7, Zenon DEF OnTrack

\* A plan that was rolled back is resumed.
LEMMA ResumeCalm ==
  ASSUME Configured, SessionTyped, StreamInv, CountsInv, RenewalsInv,
         LinksCalm, BacklogCalm, PlanCalm, ResumePlan
  PROVE  OnTrack'
<1>1. /\ at = "resume" /\ Quietly /\ ToResume(0)
      /\ UNCHANGED <<scenario, turn, applier, observer>>
  BY Zenon DEF ResumePlan, Quietly, PlanCalm
<1>2. /\ EngineTyped /\ Plan \in EP!Plans /\ Plan.cooldownUntil \in Nat /\ now \in Nat
      /\ Plan.index \in Nat /\ turn \in Nat /\ Plan.generation \in Nat
  BY EngineFacts, PlanNumbers DEF SessionTyped, ControlTyped
<1>3. /\ Plan.state = "ROLLED_BACK" /\ ~Plan.revalidationRequired /\ Plan.epoch = epoch
      /\ Plan.rollbacks # <<>> /\ scenario = "recurrence" /\ turn <= Plan.index + 1
      /\ Plan.cooldownUntil <= now + 0
  BY <1>1, Zenon DEF ToResume
<1>4. Plan.cooldownUntil <= now
  <2> DEFINE c == Plan.cooldownUntil
  <2>1. c \in Nat /\ c <= now + 0
    BY <1>2, <1>3
  <2> HIDE DEF c
  <2>2. c <= now
    BY <1>2, <2>1
  <2> QED
    BY <2>2 DEF c
<1>5. E!Resumable(Plan)
  <2>1. E!IsLive(Plan) /\ Counted(Plan)
    BY <1>3, NotLive DEF CountsInv
  <2>2. Plan.generation <= 26
    <3>1. Plan.generation + Pending <= 26
      BY <2>1, FewRenewals
    <3> QED
      BY <1>2, <3>1, PendingType
  <2>3. E!HasStage(Plan)
    BY <1>2, <2>1, <2>2, WithinBudgets
  <2> QED
    BY <1>2, <1>3, <1>4, <2>3 DEF E!Resumable
<1>6. E!Resume(1) /\ at' = "save"
  BY <1>1, <1>5, Zenon DEF ResumePlan
<1>7. /\ SameBudget(Plan, Plan') /\ SameTerms(Plan, Plan')
      /\ Plan'.state \in E!StageStates /\ Plan'.updated = now
  BY <1>2, <1>6, ResumedFields
<1>8. /\ ~Plan'.revalidationRequired /\ Plan'.epoch = epoch /\ Plan'.cooldownUntil <= now
      /\ Plan'.index = Plan.index /\ Plan'.rollbacks # <<>>
  BY <1>3, <1>4, <1>7 DEF SameBudget, SameTerms
<1>9. Ready'
  <2>1. EngineCall
    BY <1>6 DEF EngineCall
  <2> QED
    BY <1>2, <1>7, <1>8, <2>1, FreshPlan
<1>10. ToGoOn'
  <2>1. Plan'.state # "COMPLETED"
    BY <1>7 DEF E!StageStates
  <2>2. RungOf(Plan)' = Plan.index /\ Detour' = 1
    BY <1>1, <1>3, <1>8, <2>1 DEF RungOf, Detour
  <2>3. turn' <= RungOf(Plan)' + Detour'
    BY <1>1, <1>3, <2>2
  <2> QED
    BY <1>9, <2>3, Zenon DEF ToGoOn
<1>11. LinksCalm' /\ BacklogCalm'
  <2>1. Equipped
    BY <1>1 DEF Equipped, Driving
  <2> QED
    BY <1>1, <2>1, DrivenCalm
<1>12. PlanCalm'
  BY <1>6, <1>10, Zenon DEF PlanCalm, Gathering, Extra, Replacing
<1> QED
  BY <1>6, <1>11, <1>12, Zenon DEF OnTrack

\* The plan goes on with the replacement.
LEMMA ReplacedCalm ==
  ASSUME Configured, SessionTyped, StreamInv, CountsInv, RenewalsInv,
         LinksCalm, BacklogCalm, PlanCalm, RevalidateReplaced
  PROVE  OnTrack'
<1>1. /\ at = "revalidate" /\ Quietly /\ ToRevalidate /\ applier' = FindPeer("applier")
      /\ UNCHANGED <<scenario, turn, observer>>
  BY Zenon DEF RevalidateReplaced, Quietly, PlanCalm
<1>2. /\ Plan.state = "REVALIDATION_REQUIRED" /\ turn <= Plan.index + 1
      /\ scenario = "worker-death" /\ Plan.generation = 1
  BY <1>1, Zenon DEF ToRevalidate
<1>3. /\ E!Revalidatable(Plan) /\ EngineTyped
      /\ Plan.generation \in Nat /\ Plan.index \in Nat /\ turn \in Nat
  BY <1>2, CanRevalidate DEF SessionTyped
<1>4. /\ FindPeer("applier") # 0 /\ peers[FindPeer("applier")].role = "applier"
  <2>1. peers \in Seq(PeerRecords)
    BY DEF SessionTyped, ControlTyped
  <2>2. \A k \in DOMAIN peers : peers[k].registered
    BY <1>1, Zenon DEF LinksCalm, PeerCalm, Replacing
  <2>3. Staffed
    BY <1>1 DEF LinksCalm, Gathering
  <2>4. \E k \in DOMAIN peers : peers[k].role = "applier" /\ peers[k].registered
    BY <2>2, <2>3 DEF Staffed
  <2> QED
    BY <2>1, <2>4, PeerFound
<1>5. E!Revalidate(1) /\ at' = "accept" /\ waitFor' = "extra"
  BY <1>1, <1>2, <1>3, <1>4, Zenon DEF RevalidateReplaced
<1>6. Ready' /\ Plan'.index = Plan.index /\ Plan'.generation = Plan.generation + 1
  BY <1>3, <1>5, RevalidatedReady
<1>7. ToEnter'
  <2>1. Plan'.generation > 1
    BY <1>2, <1>6
  <2>2. Detour' = 1
    BY <1>1, <1>2, <2>1 DEF Detour
  <2>3. turn' <= Plan'.index + Detour'
    BY <1>1, <1>2, <1>6, <2>2
  <2> QED
    BY <1>6, <2>3, Zenon DEF ToEnter
<1>8. LinksCalm' /\ BacklogCalm'
  <2>1. peers[observer].role = "observer"
    BY <1>1 DEF LinksCalm, Equipped
  <2> QED
    BY <1>1, <1>4, <2>1, QuietCalm
<1>9. PlanCalm'
  BY <1>5, <1>7, Zenon DEF PlanCalm, Gathering, Replacing
<1> QED
  BY <1>5, <1>8, <1>9, Zenon DEF OnTrack

\* Evidence does not stay out for nothing.
LEMMA NoEvidenceLost ==
  ASSUME SessionTyped, StreamInv, LinksCalm, EvidenceLost, ~mishap'
  PROVE  FALSE
<1>1. at = "evidence" /\ mishap' = (mishap \/ link[Peer(observer)].worker = "open")
  BY Zenon DEF EvidenceLost, Untimely
<1>2. ~Died /\ ~Replacing /\ observer \in DOMAIN peers
  BY <1>1, DrivenPeers DEF Died, Replacing, Driving
<1>3. peers[observer].registered
  BY <1>2, Zenon DEF LinksCalm, PeerCalm
<1>4. link[Peer(observer)].worker = "open"
  BY <1>2, <1>3, PeersOpen
<1> QED
  BY <1>1, <1>4

-----------------------------------------------------------------------------
(* A pass of the loop: the grant, the report and the evidence.             *)

\* A commit leaves the plan where it is.
LEMMA CommittedFields ==
  ASSUME EngineTyped, NEW s, E!AdvanceCommit(1, s)
  PROVE  LET p == Plan  q == Plan' IN
         /\ q.index = p.index /\ q.generation = p.generation /\ q.rollbacks = p.rollbacks
         /\ q.state = "COMPLETED"
<1> DEFINE p == Plan
           h == E!Closed(E!Opened(p), "SUCCEEDED", s.tick)
           cs == Append(p.completions,
                        [key |-> E!CompletionKey(p, s.gen), state |-> "COMMITTED"])
           tr == E!PushTransition(p.transitions, s.tick)
           q == [p EXCEPT !.history = h, !.completions = cs, !.state = "COMPLETED",
                          !.updated = s.tick, !.transitions = tr]
<1>1. E!Update(1, E!Committed(p, s))
  BY Zenon DEF E!AdvanceCommit, Plan
<1>2. Plan' = E!Committed(p, s) /\ p \in EP!Plans
  BY <1>1, EngineFacts, UpdatedPlan
<1>3. E!Committed(p, s) = q
  <2>1. E!Committed(p, s) =
          [p EXCEPT !.history = E!Closed(E!Opened(p), "SUCCEEDED", s.tick),
             !.completions = Append(p.completions,
                        [key |-> E!CompletionKey(p, s.gen), state |-> "COMMITTED"]),
             !.state = "COMPLETED", !.updated = s.tick,
             !.transitions = E!PushTransition(p.transitions, s.tick)]
    BY Zenon DEF E!Committed
  <2> QED
    BY <2>1, Zenon
<1>4. /\ q.index = p.index /\ q.generation = p.generation /\ q.rollbacks = p.rollbacks
      /\ q.state = "COMPLETED"
  <2> HIDE DEF p, h, cs, tr
  <2> QED
    BY <1>2, Zenon DEF EP!Plans
<1> HIDE DEF q
<1> QED
  BY <1>2, <1>3, <1>4, Zenon

\* A plan that is ready stays so as time passes.
LEMMA ReadyLater ==
  ASSUME SessionTyped, Ready, now' \in Nat, now <= now', plans' = plans, epoch' = epoch
  PROVE  Ready'
<1>1. /\ Plan.updated \in Nat /\ Plan.cooldownUntil \in Nat /\ now \in Nat
  BY EngineFacts, PlanNumbers DEF SessionTyped
<1>2. Plan' = Plan
  BY DEF Plan
<1> DEFINE u == Plan.updated
           c == Plan.cooldownUntil
<1>3. u <= now' /\ c <= now'
  <2>1. u \in Nat /\ c \in Nat /\ now \in Nat /\ u <= now /\ c <= now
    BY <1>1 DEF Ready
  <2> HIDE DEF u, c
  <2> QED
    BY <2>1
<1>4. Live(Plan)'
  BY <1>2 DEF Live, Ready
<1> QED
  BY <1>2, <1>3, <1>4, Zenon DEF Ready

\* Nothing that is said disturbs the connections.
LEMMA SpeechCalm ==
  ASSUME SessionTyped, StreamInv, LinksCalm, BacklogCalm, CoordinatorStep, ~Died,
         at \in Driving, at' \in Active \ {"stale"},
         UNCHANGED <<backlog, peers, applier, observer>>
  PROVE  LinksCalm' /\ BacklogCalm'
<1>1. ~Replacing /\ ~Gathering /\ Equipped /\ at # "accept"
  BY DEF Driving, Replacing, Gathering, Equipped
<1>2. Staffed /\ peers[applier].role = "applier" /\ peers[observer].role = "observer"
  BY <1>1 DEF LinksCalm
<1>3. backlog' = <<>> /\ peers' = peers /\ applier' = applier /\ observer' = observer
  BY <1>1 DEF BacklogCalm
<1>4. Equipped' => peers[applier'].role = "applier" /\ peers[observer'].role = "observer"
  BY <1>2, <1>3
<1>5. at' \in Active /\ at' # "stale"
  OBVIOUS
<1> QED
  BY <1>1, <1>2, <1>3, <1>4, <1>5, SteadyCalm, Zenon

\* A peer that is there is spoken to.
LEMMA CanSend ==
  ASSUME SessionTyped, StreamInv, LinksCalm, ~Died, at \in Driving
  PROVE  /\ SendResults(link[Peer(applier)]) = {TRUE}
         /\ SendResults(link[Peer(observer)]) = {TRUE}
<1>1. applier \in DOMAIN peers /\ observer \in DOMAIN peers /\ ~Replacing
  BY DrivenPeers DEF Driving, Replacing
<1>2. peers[applier].registered /\ peers[observer].registered
  BY <1>1, Zenon DEF LinksCalm, PeerCalm
<1>3. link[Peer(applier)].worker = "open" /\ link[Peer(observer)].worker = "open"
  BY <1>1, <1>2, PeersOpen
<1> QED
  BY <1>3 DEF SendResults

LEMMA GrantCalm ==
  ASSUME Configured, SessionTyped, StreamInv, LinksCalm, BacklogCalm, PlanCalm, GrantStage
  PROVE  OnTrack'
<1>1. /\ at = "loop" /\ turn' = turn + 1 /\ now' = now + TickStep
      /\ Plan.state # "COMPLETED"
      /\ UNCHANGED <<epoch, plans, scenario, backlog, peers, applier, observer>>
  BY Zenon DEF GrantStage
<1>2. at \in Driving /\ ~Died
  BY <1>1 DEF Driving, Died
<1>3. at' = "report"
  <2>1. SendResults(link[Peer(applier)]) = {TRUE}
    BY <1>2, CanSend
  <2> QED
    BY <2>1, Zenon DEF GrantStage
<1>4. LinksCalm' /\ BacklogCalm'
  <2>1. CoordinatorStep
    BY Zenon DEF CoordinatorStep
  <2>2. at' \in Active \ {"stale"}
    BY <1>3 DEF Active, Waiting
  <2> QED
    BY <1>1, <1>2, <2>1, <2>2, SpeechCalm
<1>5. Ready /\ turn <= Plan.index + Detour /\ Plan.updated <= now
  <2>1. ToGoOn
    BY <1>1, Zenon DEF PlanCalm
  <2> QED
    BY <1>1, <2>1, ReadyState DEF ToGoOn, Ready
<1>6. /\ Plan.index \in Nat /\ Plan.updated \in Nat /\ now \in Nat /\ turn \in Nat
      /\ TickStep \in Nat /\ Detour \in {0, 1}
  BY EngineFacts, PlanNumbers DEF SessionTyped, ControlTyped, Configured, Detour
<1>7. Plan' = Plan /\ Detour' = Detour
  BY <1>1 DEF Plan, Detour
<1>8. /\ turn' <= Plan'.index + 1 + Detour' /\ Plan'.updated + TickStep <= now'
      /\ now' \in Nat /\ now <= now'
  <2> DEFINE i == Plan.index
             u == Plan.updated
             d == Detour
  <2>1. i \in Nat /\ u \in Nat /\ d \in {0, 1} /\ turn <= i + d /\ u <= now
    BY <1>5, <1>6
  <2> HIDE DEF i, u, d
  <2>2. turn + 1 <= i + 1 + d /\ u + TickStep <= now + TickStep
    BY <1>6, <2>1
  <2>3. now + TickStep \in Nat /\ now <= now + TickStep
    BY <1>6
  <2> QED
    BY <1>1, <1>7, <2>2, <2>3 DEF i, u, d
<1>9. ToHear(TickStep)'
  <2>1. Ready'
    BY <1>1, <1>5, <1>8, ReadyLater
  <2> QED
    BY <1>8, <2>1, Zenon DEF ToHear
<1>10. PlanCalm'
  BY <1>3, <1>9, Zenon DEF PlanCalm, Gathering, Extra, Replacing
<1> QED
  BY <1>3, <1>4, <1>10, Zenon DEF OnTrack

LEMMA ReportCalm ==
  ASSUME Configured, SessionTyped, StreamInv, LinksCalm, BacklogCalm, PlanCalm, ReceiveReport
  PROVE  OnTrack'
<1>1. /\ at = "report" /\ now' = now + TickStep
      /\ \E f \in Replies(applier) : f.kind = "STAGE_REPORT"
      /\ UNCHANGED <<epoch, plans, turn, scenario, backlog, peers, applier, observer>>
  BY Zenon DEF ReceiveReport
<1>2. at \in Driving /\ ~Died
  <2>1. link[Peer(applier)].up # <<>>
    BY <1>1, FrameThere
  <2> QED
    BY <1>1, <2>1 DEF Driving, Died
<1>3. at' = "evidence"
  <2>1. SendResults(link[Peer(observer)]) = {TRUE}
    BY <1>2, CanSend
  <2> QED
    BY <2>1, Zenon DEF ReceiveReport
<1>4. LinksCalm' /\ BacklogCalm'
  <2>1. CoordinatorStep
    BY Zenon DEF CoordinatorStep
  <2>2. at' \in Active \ {"stale"}
    BY <1>3 DEF Active, Waiting
  <2> QED
    BY <1>1, <1>2, <2>1, <2>2, SpeechCalm
<1>5. Ready /\ turn <= Plan.index + 1 + Detour /\ Plan.updated + TickStep <= now
  <2>1. ToHear(TickStep)
    BY <1>1, Zenon DEF PlanCalm
  <2> QED
    BY <2>1, Zenon DEF ToHear
<1>6. Plan.updated \in Nat /\ now \in Nat /\ TickStep \in Nat
  BY EngineFacts, PlanNumbers DEF SessionTyped, Configured
<1>7. Plan' = Plan /\ Detour' = Detour
  BY <1>1 DEF Plan, Detour
<1>8. Plan'.updated + 2 * TickStep <= now' /\ now' \in Nat /\ now <= now'
  <2> DEFINE u == Plan.updated
  <2>1. u \in Nat /\ u + TickStep <= now
    BY <1>5, <1>6
  <2> HIDE DEF u
  <2>2. u + 2 * TickStep <= now + TickStep
    BY <1>6, <2>1
  <2>3. now + TickStep \in Nat /\ now <= now + TickStep
    BY <1>6
  <2> QED
    BY <1>1, <1>7, <2>2, <2>3 DEF u
<1>9. ToHear(2 * TickStep)'
  <2>1. Ready'
    BY <1>1, <1>5, <1>8, ReadyLater
  <2>2. turn' <= Plan'.index + 1 + Detour'
    BY <1>1, <1>5, <1>7
  <2> QED
    BY <1>8, <2>1, <2>2, Zenon DEF ToHear
<1>10. PlanCalm'
  BY <1>3, <1>9, Zenon DEF PlanCalm, Gathering, Extra, Replacing
<1> QED
  BY <1>3, <1>4, <1>10, Zenon DEF OnTrack

\* Evidence decides as the scenario provides for: under recurrence the plan is to be
\* rolled back, otherwise it climbs or is complete.
LEMMA EvidenceCalm ==
  ASSUME Configured, SessionTyped, StreamInv, CountsInv, RenewalsInv, ClockInv,
         LinksCalm, BacklogCalm, PlanCalm, ReceiveEvidence
  PROVE  OnTrack'
<1>1. /\ at = "evidence"
      /\ at' = IF scenario = "recurrence" /\ plans'[1].state = "ROLLING_BACK"
               THEN "rollback" ELSE "save"
      /\ UNCHANGED <<turn, scenario, backlog, peers, applier, observer>>
  BY Zenon DEF ReceiveEvidence
<1>2. at \in Driving /\ ~Died /\ at \in Active
  BY <1>1 DEF Driving, Died, Active, Waiting
<1>3. LinksCalm' /\ BacklogCalm'
  <2>1. CoordinatorStep
    BY Zenon DEF CoordinatorStep
  <2>2. at' \in Active \ {"stale"}
    BY <1>1 DEF Active, Waiting, Working
  <2> QED
    BY <1>1, <1>2, <2>1, <2>2, SpeechCalm
<1>4. Ready /\ turn <= Plan.index + 1 + Detour /\ Plan.updated + 2 * TickStep <= now
  <2>1. ToHear(2 * TickStep)
    BY <1>1, Zenon DEF PlanCalm
  <2> QED
    BY <2>1, Zenon DEF ToHear
<1>5. /\ EngineTyped /\ Plan \in EP!Plans /\ Plan.index \in Nat /\ Plan.updated \in Nat
      /\ Plan.generation \in Nat /\ now \in Nat /\ turn \in Nat
      /\ TickStep \in Nat /\ TickStep >= 5
  BY EngineFacts, PlanNumbers DEF SessionTyped, ControlTyped, Configured
<1>6. /\ E!IsLive(Plan) /\ Counted(Plan) /\ Plan.generation <= 26 /\ now <= LifetimeTicks
      /\ Plan.index < Len(Rungs)
  <2>1. E!IsLive(Plan) /\ Counted(Plan)
    BY <1>4, ReadyState DEF CountsInv
  <2>2. Plan.generation + Pending <= 26
    BY <2>1, FewRenewals
  <2>3. Plan.generation <= 26
    BY <1>5, <2>2, PendingType
  <2>4. now <= LifetimeTicks
    BY <1>2, ClockBound
  <2>5. Plan.index < Len(Rungs)
    BY <2>1, Zenon DEF Counted
  <2> QED
    BY <2>1, <2>3, <2>4, <2>5
<1>7. PICK f : /\ f.cleared = ~recurring
               /\ \/ E!AdvanceWith(1, SnapshotOf(f))
                  \/ Undecided(SnapshotOf(f)) /\ UNCHANGED engine
  BY EvidenceHeard
<1>8. epoch' = epoch /\ now' = now
  <2>1. CASE E!AdvanceWith(1, SnapshotOf(f))
    BY <2>1, EngineCallKeeps DEF EngineCall
  <2>2. CASE UNCHANGED engine
    BY <2>2 DEF engine
  <2> QED
    BY <1>7, <2>1, <2>2
<1>9. Live(Plan) /\ Plan.cooldownUntil <= now
  BY <1>4 DEF Ready
<1>10. CASE recurring
  <2>1. ~f.cleared
    BY <1>7, <1>10
  <2>2. scenario = "recurrence" /\ Plan.rollbacks = <<>>
    BY <1>1, <1>10 DEF CountsInv
  <2>3. Plan' = [Plan EXCEPT !.state = "ROLLING_BACK"]
    BY <1>4, <1>5, <1>6, <1>7, <2>1, ReadyRecurrence
  <2>4. /\ Plan'.state = "ROLLING_BACK" /\ SameBudget(Plan, Plan') /\ SameTerms(Plan, Plan')
    BY <1>5, <2>3, StateFields, Zenon
  <2>5. at' = "rollback"
    BY <1>1, <2>2, <2>4 DEF Plan
  <2>6. Detour = 0
    BY <2>2 DEF Detour
  <2>7. turn' <= Plan'.index + 1
    BY <1>1, <1>4, <1>5, <2>4, <2>6 DEF SameBudget
  <2>8. E!RollbackAllowed(Plan)' /\ ~Plan'.revalidationRequired
    BY <1>8, <1>9, <2>4, NotLive DEF SameTerms, Live, E!RollbackAllowed
  <2>9. ToRollBack'
    BY <1>1, <2>2, <2>7, <2>8, Zenon DEF ToRollBack
  <2>10. PlanCalm'
    BY <2>5, <2>9, Zenon DEF PlanCalm, Gathering, Extra, Replacing
  <2> QED
    BY <1>3, <2>5, <2>10, Zenon DEF OnTrack
<1>11. CASE ~recurring
  <2>1. f.cleared
    BY <1>7, <1>11
  <2>2. Plan.updated + 10 <= now
    <3> DEFINE u == Plan.updated
    <3>1. u \in Nat /\ u + 2 * TickStep <= now
      BY <1>4, <1>5
    <3> HIDE DEF u
    <3>2. u + 10 <= now
      BY <1>5, <3>1
    <3> QED
      BY <3>2 DEF u
  <2>3. E!AdvanceStage(1, SnapshotOf(f)) \/ E!AdvanceCommit(1, SnapshotOf(f))
    BY <1>4, <1>5, <1>6, <1>7, <2>1, <2>2, ReadyClimbs
  <2>4. /\ SnapshotOf(f) \in EP!Snapshots /\ SnapshotOf(f).tick = now /\ E!HasStage(Plan)
    BY <1>5, <1>6, SnapshotType, WithinBudgets DEF SnapshotOf
  <2>5. /\ Plan'.state # "ROLLING_BACK" /\ Plan'.rollbacks = Plan.rollbacks
        /\ Plan'.generation = Plan.generation /\ RungOf(Plan)' = Plan.index + 1
        /\ (Plan'.state = "COMPLETED" /\ Plan'.index < Len(Rungs)) \/ Ready'
    <3>1. CASE E!AdvanceStage(1, SnapshotOf(f))
      <4>1. LET p == Plan  q == Plan' IN
            /\ q.index = p.index + 1 /\ q.generation = p.generation
            /\ q.rollbacks = p.rollbacks /\ q.state \in E!StageStates /\ SameTerms(p, q)
            /\ q.updated = SnapshotOf(f).tick
        BY <1>5, <2>4, <3>1, EnteredFields, Zenon
      <4>2. Plan'.state # "ROLLING_BACK" /\ Plan'.state # "COMPLETED"
        BY <4>1 DEF E!StageStates
      <4>3. EngineCall
        <5>1. Plan'.index # Plan.index
          BY <1>5, <4>1
        <5>2. ~UNCHANGED engine
          BY <5>1 DEF engine, Plan
        <5> QED
          BY <1>7, <5>2, Zenon DEF EngineCall
      <4>4. /\ ~Plan'.revalidationRequired /\ Plan'.epoch = epoch /\ Plan'.updated = now
            /\ Plan'.cooldownUntil <= now
        BY <1>9, <2>4, <4>1 DEF SameTerms, Live
      <4>5. Ready'
        BY <1>5, <4>1, <4>3, <4>4, FreshPlan
      <4> QED
        BY <4>1, <4>2, <4>5 DEF RungOf
    <3>2. CASE E!AdvanceCommit(1, SnapshotOf(f))
      <4>1. LET p == Plan  q == Plan' IN
            /\ q.index = p.index /\ q.generation = p.generation /\ q.rollbacks = p.rollbacks
            /\ q.state = "COMPLETED"
        BY <1>5, <3>2, CommittedFields, Zenon
      <4> QED
        BY <1>6, <4>1 DEF RungOf
    <3> QED
      BY <2>3, <3>1, <3>2
  <2>6. at' = "save"
    BY <1>1, <2>5 DEF Plan
  <2>7. Detour' = Detour
    BY <1>1, <2>5 DEF Detour
  <2>8. turn' <= RungOf(Plan)' + Detour'
    BY <1>1, <1>4, <2>5, <2>7
  <2>9. ToGoOn'
    BY <2>5, <2>8, Zenon DEF ToGoOn
  <2>10. PlanCalm'
    BY <2>6, <2>9, Zenon DEF PlanCalm, Gathering, Extra, Replacing
  <2> QED
    BY <1>3, <2>6, <2>10, Zenon DEF OnTrack
<1> QED
  BY <1>10, <1>11

\* Every run begins like this.
LEMMA StartCalm ==
  ASSUME SessionTyped, CountsInv, StartRun, ~mishap'
  PROVE  OnTrack'
<1>1. /\ at' = "accept" /\ waitFor' = "workers" /\ backlog' = <<>> /\ peers' = <<>>
      /\ turn' = 0 /\ plans' = [i \in {1} |-> E!Imported(disk.plan, disk.epoch + 1)]
      /\ scenario' \in (IF runs = 0 THEN Scenarios ELSE {"restart-part2"})
      /\ runs = 0 \/ Restorable
  BY Zenon DEF StartRun
<1>2. ToBegin'
  <2>1. ASSUME scenario' = "restart-part2"
        PROVE  Plan'.state = "REVALIDATION_REQUIRED"
    <3>1. runs # 0
      BY <1>1, <2>1, SessionAssumption
    <3>2. E!IsLive(disk.plan)
      BY <1>1, <3>1 DEF Restorable
    <3>3. Plan' = E!Imported(disk.plan, disk.epoch + 1)
      BY <1>1 DEF Plan
    <3>4. disk.plan \in EP!Plans /\ disk.epoch + 1 \in Nat
      BY DEF SessionTyped, DurableTyped
    <3> QED
      BY <3>2, <3>3, <3>4, ImportedFields
  <2> QED
    BY <1>1, <2>1, Zenon DEF ToBegin
<1>3. PlanCalm'
  BY <1>1, <1>2, Zenon DEF PlanCalm, Extra, Replacing
<1>4. BacklogCalm'
  BY <1>1, NoCallers
<1>5. LinksCalm'
  <2>1. DOMAIN peers' = {}
    BY <1>1
  <2>2. Gathering' /\ ~Equipped'
    BY <1>1 DEF Gathering, Equipped, Driving
  <2> QED
    BY <2>1, <2>2, Zenon DEF LinksCalm
<1> QED
  BY <1>1, <1>3, <1>4, <1>5, Zenon DEF OnTrack

\* The end keeps the result.
LEMMA FinishCalm ==
  ASSUME OnTrack, Finish
  PROVE  OnTrack'
<1>1. at = "finish" /\ at' = "done" /\ outcome' = outcome
  BY Zenon DEF Finish
<1>2. at' \notin Active /\ outcome' = "OK"
  BY <1>1 DEF OnTrack, Active, Waiting, Working
<1> QED
  BY <1>2, Zenon DEF OnTrack

LEMMA CrashCalm ==
  ASSUME Crash
  PROVE  OnTrack'
<1>1. at' = "down"
  BY Zenon DEF Crash
<1>2. at' \notin Active /\ at' \notin {"finish", "done"}
  BY <1>1 DEF Active, Waiting, Working
<1> QED
  BY <1>2, Zenon DEF OnTrack

-----------------------------------------------------------------------------
(* The processes.                                                          *)

\* A process that is told no bad news goes on, unless it dies as provided for.
LEMMA OpenKept ==
  ASSUME SessionTyped, StreamInv, NEW p \in Processes, ProcessStep(p) \/ KillProcess(p),
         ~mishap', link[p].coordinator = "open", proc[p] # "replaying",
         \A i \in DOMAIN link[p].down : ~Serious(link[p].down[i])
  PROVE  /\ link[p].worker = "open"
         /\ link'[p].worker = "open" \/ (ProvidedDeath(p) /\ link'[p].up = link[p].up)
<1>1. /\ link[p] \in Links /\ link \in [Processes -> Links]
      /\ proc[p] \in Running <=> link[p].worker = "open"
  BY LinkNow DEF SoundLink, SessionTyped, LinksTyped
<1>2. \A f \in Incoming(p) : f.kind # "NONE" => ~Serious(f)
  BY IncomingFacts
<1>3. ASSUME link[p].worker = "open", link' = [link EXCEPT ![p] = DownRead(@)]
      PROVE  link'[p].worker = "open"
  <2>1. link'[p] = DownRead(link[p])
    BY <1>1, <1>3
  <2> QED
    BY <1>1, <1>3, <2>1, ReadFacts
<1>4. ASSUME link[p].worker = "open", NEW a, link' = [link EXCEPT ![p] = Answered(@, a)]
      PROVE  link'[p].worker = "open"
  <2>1. link'[p] = Answered(link[p], a)
    BY <1>1, <1>4
  <2>2. DownRead(link[p]).worker = "open"
    BY <1>1, <1>4, ReadFacts
  <2>3. Answered(link[p], a).worker = DownRead(link[p]).worker
    <3> DEFINE l == DownRead(link[p])
    <3>1. l \in Links
      BY <1>1, FrameFacts, LinkTypes
    <3> HIDE DEF l
    <3>2. SentUp(l, a).worker = l.worker
      BY <3>1 DEF SentUp, Links
    <3> QED
      BY <3>2 DEF Answered, l
  <2> QED
    BY <2>1, <2>2, <2>3
<1>5. CASE WorkerStep(p)
  <2>1. CASE Welcomed(p)
    <3>1. link[p].worker = "open" /\ link' = [link EXCEPT ![p] = DownRead(@)]
      BY <1>1, <2>1, Zenon DEF Welcomed, Running
    <3> QED
      BY <1>3, <3>1
  <2>2. CASE Refused(p)
    <3>1. PICK f \in Incoming(p) : f.kind = "ERROR_MSG"
      BY <2>2 DEF Refused
    <3> QED
      BY <1>2, <3>1 DEF Serious
  <2>3. CASE Replay(p)
    <3>1. link[p].worker = "open"
          /\ link' = [link EXCEPT ![p] = Answered(@, recorded[Source[p]])]
      BY <1>1, <2>3, Zenon DEF Replay, Running
    <3> QED
      BY <1>4, <3>1
  <2>4. CASE ReplayAnswered(p)
    BY <2>4 DEF ReplayAnswered
  <2>5. CASE Report(p)
    <3>1. PICK g : link' = [link EXCEPT ![p] = Answered(@, ReportOf(g))]
      BY <2>5, Zenon DEF Report
    <3>2. link[p].worker = "open"
      BY <1>1, <2>5, Zenon DEF Report, Running
    <3> QED
      BY <1>4, <3>1, <3>2
  <2>6. CASE Publish(p)
    <3>1. PICK r : link' = [link EXCEPT ![p] =
                      Answered(@, [kind |-> "EVIDENCE_PUBLISH", epoch |-> r.epoch,
                                   tick |-> r.tick, cleared |-> ~r.recurrence])]
      BY <2>6, Zenon DEF Publish
    <3>2. link[p].worker = "open"
      BY <1>1, <2>6, Zenon DEF Publish, Running
    <3> QED
      BY <1>4, <3>1, <3>2
  <2>7. CASE Leave(p)
    <3>1. PICK f \in Incoming(p) : f.kind = "GOODBYE"
      BY <2>7 DEF Leave
    <3> QED
      BY <1>2, <3>1 DEF Serious
  <2> QED
    BY <1>5, <2>1, <2>2, <2>3, <2>4, <2>5, <2>6, <2>7, Zenon DEF WorkerStep
<1>6. CASE LoseLink(p) /\ Mishap(link[p].coordinator = "open")
  BY <1>6 DEF Mishap
<1>7. CASE KillProcess(p)
  <2>1. ProvidedDeath(p) /\ proc[p] \in Running /\ Exit(p, "killed")
    BY <1>7, Zenon DEF KillProcess, Die, Mishap
  <2>2. link'[p] = ClosedByWorker(link[p])
    BY <1>1, <2>1 DEF Exit
  <2>3. link'[p].up = link[p].up
    BY <1>1, <2>2, ClosedFacts
  <2> QED
    BY <1>1, <2>1, <2>3
<1> QED
  BY <1>5, <1>6, <1>7, Zenon DEF ProcessStep

\* What no process changes.
LEMMA ProcessPlan ==
  ASSUME NEW p \in Processes, StartProcess(p) \/ ProcessStep(p) \/ KillProcess(p)
  PROVE  /\ PlanCalm' = PlanCalm /\ Staffed' = Staffed /\ Gathering' = Gathering
         /\ Replacing' = Replacing /\ Equipped' = Equipped
         /\ UNCHANGED <<at, waitFor, peers, applier, observer, scenario, outcome, plans>>
<1>1. UNCHANGED <<at, waitFor, conn, peers, applier, observer, scenario, turn, recurring,
                  outcome, runs, granted, engine, disk>>
  BY ProcessKinds
<1>2. UNCHANGED <<engine, turn, scenario>>
  BY <1>1
<1>3. /\ ToBegin' = ToBegin /\ ToEnter' = ToEnter /\ ToGoOn' = ToGoOn
      /\ ToRevalidate' = ToRevalidate
      /\ ToHear(TickStep)' = ToHear(TickStep) /\ ToHear(2 * TickStep)' = ToHear(2 * TickStep)
      /\ ToResume(0)' = ToResume(0) /\ ToResume(5)' = ToResume(5)
  BY <1>2, SamePlan
<1>4. ToRollBack' = ToRollBack
  BY <1>1 DEF ToRollBack, Plan, engine, E!RollbackAllowed, E!IsLive
<1>5. at' = at /\ waitFor' = waitFor /\ peers' = peers /\ scenario' = scenario
  BY <1>1
<1>6. /\ Gathering' = Gathering /\ Replacing' = Replacing /\ Extra' = Extra
      /\ Equipped' = Equipped /\ Staffed' = Staffed
  BY <1>5 DEF Gathering, Replacing, Extra, Equipped, Staffed
<1>7. PlanCalm' = PlanCalm
  BY <1>3, <1>4, <1>5, <1>6, Zenon DEF PlanCalm
<1> QED
  BY <1>1, <1>6, <1>7, Zenon DEF engine

\* A process is started that is waited for.
LEMMA ConnectCalm ==
  ASSUME SessionTyped, StreamInv, LinksCalm, BacklogCalm, PlanCalm,
         at \in Active \ {"finish"}, NEW p \in Processes, StartProcess(p), ~mishap'
  PROVE  OnTrack'
<1>1. Provided(p) /\ backlog' = Append(backlog, p) /\ proc[p] = "new"
  BY Zenon DEF StartProcess, Mishap, Connect
<1>2. at = "accept" /\ ~Died /\ backlog \in Seq(Processes)
  BY <1>1 DEF Provided, Died, SessionTyped, ControlTyped
<1>3. /\ PlanCalm' = PlanCalm /\ Staffed' = Staffed /\ Gathering' = Gathering
      /\ Replacing' = Replacing /\ Equipped' = Equipped
      /\ at' = at /\ waitFor' = waitFor /\ peers' = peers
      /\ applier' = applier /\ observer' = observer
  BY ProcessPlan
<1>4. /\ \A q \in Processes \ {p} : link'[q] = link[q]
      /\ link'[p].worker = "open"
  <2>1. ~(link[p].coordinator = "open" /\ proc[p] # "new")
    BY <1>1
  <2>2. \/ /\ StartProcess(p) /\ link[p] = NoLink /\ link'[p].worker = "open"
           /\ proc'[p] = "greeting"
        \/ ~StartProcess(p)
    BY ProcessLinks
  <2> QED
    BY <2>2, ProcessLinks
<1>5. \A k \in DOMAIN peers : Peer(k) # p /\ Peer(k) \in Processes
  BY <1>1, <1>2, PeerFacts DEF StreamInv, PeersKnown, Active, Waiting
<1>6. \A i \in DOMAIN backlog : backlog[i] # p /\ backlog[i] \in Processes
  BY <1>1, <1>2 DEF StreamInv, Queued, QueuedLink, Active, Waiting
<1>7. ASSUME NEW k \in DOMAIN peers'
      PROVE  PeerCalm(k)'
  <2>1. /\ k \in DOMAIN peers /\ Peer(k)' = Peer(k) /\ peers'[k] = peers[k]
        /\ link'[Peer(k)] = link[Peer(k)]
    BY <1>3, <1>4, <1>5 DEF Peer
  <2>2. PeerCalm(k)
    BY <2>1 DEF LinksCalm
  <2> QED
    BY <1>2, <1>3, <2>1, <2>2, Zenon DEF PeerCalm
<1>8. LinksCalm'
  BY <1>3, <1>7, Zenon DEF LinksCalm
<1> DEFINE n == Len(backlog) + 1
<1>9. /\ n \in DOMAIN backlog' /\ backlog'[n] = p
      /\ \A i \in DOMAIN backlog' : i # n => i \in DOMAIN backlog /\ backlog'[i] = backlog[i]
  BY <1>1, <1>2
<1> HIDE DEF n
<1>10. waitFor = "workers" =>
         /\ RoleOf[p] # "replay"
         /\ \A q \in Processes : WorkerOf[q] = WorkerOf[p] => link[q].worker # "open"
  BY <1>1 DEF Provided
<1>11. waitFor = "replacement" => backlog = <<>> /\ Replaces(p)
  BY <1>1 DEF Provided
<1>12. waitFor \in {"workers", "extra", "replacement"} /\ (waitFor = "extra" => backlog = <<>>)
  BY <1>1 DEF Provided, SessionTyped, ControlTyped
<1>13. \A i \in DOMAIN backlog : /\ CallerCalm(i)
                                 /\ link[backlog[i]].worker = "open"
                                 /\ waitFor = "workers" => WorkerOf[backlog[i]] # WorkerOf[p]
  BY <1>6, <1>10, Zenon DEF BacklogCalm, CallerCalm
<1>14. waitFor = "workers" =>
         \A k \in DOMAIN peers : peers[k].worker # WorkerOf[p]
  <2> SUFFICES ASSUME waitFor = "workers", NEW k \in DOMAIN peers
               PROVE  peers[k].worker # WorkerOf[p]
    OBVIOUS
  <2>1. peers[k].worker = WorkerOf[Peer(k)] /\ Peer(k) \in Processes
    BY <1>2, <1>5 DEF StreamInv, PeersKnown, Active, Waiting
  <2>2. peers[k].registered
    BY Zenon DEF LinksCalm, PeerCalm, Replacing
  <2>3. link[Peer(k)].worker = "open"
    BY <1>2, <2>2, PeersOpen
  <2> QED
    BY <1>10, <2>1, <2>3
<1>15. ASSUME NEW i \in DOMAIN backlog'
       PROVE  CallerCalm(i)'
  <2>1. CASE i = n
    <3>1. backlog'[i] = p /\ link'[backlog'[i]].worker = "open"
      BY <1>4, <1>9, <2>1
    <3>2. ASSUME waitFor' = "workers"
          PROVE  /\ RoleOf[backlog'[i]] # "replay"
                 /\ \A k \in DOMAIN peers' : peers'[k].worker # WorkerOf[backlog'[i]]
                 /\ \A j \in DOMAIN backlog' :
                      WorkerOf[backlog'[j]] = WorkerOf[backlog'[i]] => i = j
      BY <1>3, <1>9, <1>10, <1>13, <1>14, <2>1, <3>1, <3>2
    <3>3. waitFor' = "replacement" => Replaces(p)'
      BY <1>3, <1>11 DEF Replaces, EntryOf, Superseded
    <3> QED
      BY <3>1, <3>2, <3>3, Zenon DEF CallerCalm
  <2>2. CASE i # n
    <3>1. i \in DOMAIN backlog /\ backlog'[i] = backlog[i]
      BY <1>9, <2>2
    <3>2. link'[backlog'[i]].worker = "open"
      BY <1>4, <1>6, <1>13, <3>1
    <3>3. ASSUME waitFor' = "workers"
          PROVE  /\ RoleOf[backlog'[i]] # "replay"
                 /\ \A k \in DOMAIN peers' : peers'[k].worker # WorkerOf[backlog'[i]]
                 /\ \A j \in DOMAIN backlog' :
                      WorkerOf[backlog'[j]] = WorkerOf[backlog'[i]] => i = j
      <4>1. /\ RoleOf[backlog[i]] # "replay"
            /\ \A k \in DOMAIN peers : peers[k].worker # WorkerOf[backlog[i]]
            /\ \A j \in DOMAIN backlog : WorkerOf[backlog[j]] = WorkerOf[backlog[i]] => i = j
        BY <1>3, <1>13, <3>1, <3>3 DEF CallerCalm
      <4>2. WorkerOf[backlog[i]] # WorkerOf[p]
        BY <1>3, <1>13, <3>1, <3>3
      <4> QED
        BY <1>3, <1>9, <3>1, <4>1, <4>2
    <3>4. waitFor' # "replacement"
      BY <1>3, <1>11, <3>1
    <3> QED
      BY <3>2, <3>3, <3>4, Zenon DEF CallerCalm
  <2> QED
    BY <2>1, <2>2
<1>16. waitFor' # "workers" => Len(backlog') <= 1
  <2>1. waitFor # "workers" => backlog = <<>>
    BY <1>11, <1>12
  <2> QED
    BY <1>1, <1>3, <2>1
<1>17. BacklogCalm'
  BY <1>2, <1>3, <1>15, <1>16, Zenon DEF BacklogCalm
<1> QED
  BY <1>2, <1>3, <1>8, <1>17, Zenon DEF OnTrack

\* A process that was started goes on.
LEMMA ProcessCalm ==
  ASSUME SessionTyped, StreamInv, RecordsInv, LinksCalm, BacklogCalm, PlanCalm,
         at \in Active \ {"finish"}, NEW p \in Processes,
         ProcessStep(p) \/ KillProcess(p), ~StartProcess(p), ~mishap'
  PROVE  OnTrack'
<1>1. /\ PlanCalm' = PlanCalm /\ Staffed' = Staffed /\ Gathering' = Gathering
      /\ Replacing' = Replacing /\ Equipped' = Equipped
      /\ at' = at /\ waitFor' = waitFor /\ peers' = peers
      /\ applier' = applier /\ observer' = observer /\ scenario' = scenario /\ plans' = plans
  BY ProcessPlan
<1>2. /\ \A q \in Processes \ {p} : link'[q] = link[q]
      /\ backlog' = backlog
      /\ \A i \in DOMAIN link'[p].down :
           \E j \in DOMAIN link[p].down : link'[p].down[i] = link[p].down[j]
  BY ProcessLinks
<1>3. Plan' = Plan
  BY <1>1 DEF Plan
<1>4. ASSUME NEW k \in DOMAIN peers'
      PROVE  PeerCalm(k)'
  <2>1. k \in DOMAIN peers /\ Peer(k)' = Peer(k) /\ peers'[k] = peers[k] /\ PeerCalm(k)
        /\ Peer(k) \in Processes
    BY <1>1, PeerFacts DEF Peer, LinksCalm
  <2>2. /\ RoleOf[Peer(k)] # "replay" /\ peers[k].role = RoleOf[Peer(k)]
        /\ peers[k].registered \/ (Replacing /\ k = applier)
    BY <2>1, Zenon DEF PeerCalm
  <2>3. ASSUME peers[k].registered
        PROVE  /\ link'[Peer(k)].worker = "open" \/ (Died' /\ k = applier)
               /\ \A i \in DOMAIN link'[Peer(k)].down : ~Serious(link'[Peer(k)].down[i])
    <3>1. /\ link[Peer(k)].worker = "open" \/ (Died /\ k = applier)
          /\ \A i \in DOMAIN link[Peer(k)].down : ~Serious(link[Peer(k)].down[i])
      BY <2>1, <2>3, Zenon DEF PeerCalm
    <3>2. CASE Peer(k) # p
      <4>1. link'[Peer(k)] = link[Peer(k)]
        BY <1>2, <2>1, <3>2
      <4>2. Died /\ k = applier => Died'
        <5>1. Died /\ k = applier => link'[Peer(applier)].up = <<>>
          BY <4>1 DEF Died
        <5>2. Peer(applier)' = Peer(applier)
          BY <1>1 DEF Peer
        <5> QED
          BY <1>1, <1>3, <5>1, <5>2 DEF Died
      <4> QED
        BY <3>1, <4>1, <4>2
    <3>3. CASE Peer(k) = p
      <4>1. proc[p] # "replaying" /\ link[p].coordinator = "open"
        BY <2>2, <2>1, <2>3, <3>3 DEF RecordsInv, RecordOf, StreamInv, PeersKnown
      <4>2. \/ link'[p].worker = "open"
            \/ ProvidedDeath(p) /\ link'[p].up = link[p].up
        BY <3>1, <3>3, <4>1, OpenKept
      <4>3. ASSUME ProvidedDeath(p), link'[p].up = link[p].up
            PROVE  Died' /\ k = applier
        <5>1. /\ at = "report" /\ scenario = "worker-death" /\ Plan.generation = 1
              /\ p = Peer(applier) /\ link'[Peer(applier)].up = <<>>
          BY <4>3 DEF ProvidedDeath
        <5>2. k = applier
          BY <2>1, <3>3, <5>1, DrivenPeers DEF Driving
        <5>3. Peer(applier)' = Peer(applier)
          BY <1>1 DEF Peer
        <5> QED
          BY <1>1, <1>3, <5>1, <5>2, <5>3 DEF Died
      <4>4. \A i \in DOMAIN link'[p].down : ~Serious(link'[p].down[i])
        BY <1>2, <3>1, <3>3
      <4> QED
        BY <3>3, <4>2, <4>3, <4>4
    <3> QED
      BY <3>2, <3>3
  <2> QED
    BY <1>1, <2>1, <2>2, <2>3, Zenon DEF PeerCalm
<1>5. LinksCalm'
  <2>1. Equipped' => peers'[applier'].role = "applier" /\ peers'[observer'].role = "observer"
    BY <1>1, Zenon DEF LinksCalm
  <2> QED
    BY <1>1, <1>4, <2>1, Zenon DEF LinksCalm
<1>6. ASSUME NEW i \in DOMAIN backlog'
      PROVE  CallerCalm(i)'
  <2>1. i \in DOMAIN backlog /\ backlog'[i] = backlog[i] /\ CallerCalm(i)
        /\ link[backlog[i]].worker = "open" /\ backlog[i] \in Processes
    BY <1>2 DEF BacklogCalm, CallerCalm, SessionTyped, ControlTyped
  <2>2. link'[backlog[i]].worker = "open"
    <3>1. CASE backlog[i] # p
      BY <1>2, <2>1, <3>1
    <3>2. CASE backlog[i] = p
      <4>1. /\ link[p].coordinator = "open" /\ link[p].down = <<>>
            /\ proc[p] \in {"greeting", "ended", "killed"}
        BY <2>1, <3>2 DEF StreamInv, Queued, QueuedLink
      <4>2. at # "report"
        BY <2>1 DEF BacklogCalm
      <4>3. proc[p] # "replaying" /\ \A j \in DOMAIN link[p].down : ~Serious(link[p].down[j])
        BY <4>1
      <4>4. ~ProvidedDeath(p)
        BY <4>2 DEF ProvidedDeath
      <4> QED
        BY <3>2, <4>1, <4>3, <4>4, OpenKept
    <3> QED
      BY <3>1, <3>2
  <2>3. Replaces(backlog[i])' = Replaces(backlog[i])
    BY <1>1, <1>2 DEF Replaces, EntryOf, Superseded
  <2>4. ASSUME waitFor' = "workers"
        PROVE  /\ RoleOf[backlog'[i]] # "replay"
               /\ \A k \in DOMAIN peers' : peers'[k].worker # WorkerOf[backlog'[i]]
               /\ \A j \in DOMAIN backlog' : WorkerOf[backlog'[j]] = WorkerOf[backlog'[i]] => i = j
    BY <1>1, <1>2, <2>1, <2>4, Zenon DEF CallerCalm
  <2>5. waitFor' = "replacement" => Replaces(backlog[i])'
    BY <1>1, <2>1, <2>3, Zenon DEF CallerCalm
  <2>6. link'[backlog'[i]].worker = "open" /\ backlog[i]' = backlog[i]
    BY <1>2, <2>1, <2>2
  <2> QED
    BY <2>4, <2>5, <2>6, Zenon DEF CallerCalm
<1>7. BacklogCalm'
  BY <1>1, <1>2, <1>6, Zenon DEF BacklogCalm
<1>8. at' \notin {"finish", "done"}
  BY <1>1 DEF Active, Waiting, Working
<1> QED
  BY <1>1, <1>5, <1>7, <1>8, Zenon DEF OnTrack

-----------------------------------------------------------------------------
(* The induction.                                                          *)

LEMMA StutterCalm ==
  ASSUME OnTrack, UNCHANGED vars
  PROVE  OnTrack'
<1>1. UNCHANGED <<link, proc, recorded, applied, epoch, plans, now, at, waitFor, backlog, conn,
                  peers, applier, observer, scenario, turn, recurring, outcome>>
  BY DEF vars, workers, engine, control
<1>2. UNCHANGED <<engine, turn, scenario>>
  BY <1>1 DEF engine
<1>3. /\ ToBegin' = ToBegin /\ ToEnter' = ToEnter /\ ToGoOn' = ToGoOn
      /\ ToRevalidate' = ToRevalidate
      /\ ToHear(TickStep)' = ToHear(TickStep) /\ ToHear(2 * TickStep)' = ToHear(2 * TickStep)
      /\ ToResume(0)' = ToResume(0) /\ ToResume(5)' = ToResume(5)
  BY <1>2, SamePlan
<1>4. ToRollBack' = ToRollBack
  BY <1>1 DEF ToRollBack, Plan, E!RollbackAllowed, E!IsLive
<1>5. /\ Gathering' = Gathering /\ Replacing' = Replacing /\ Extra' = Extra
      /\ Equipped' = Equipped /\ Staffed' = Staffed /\ Died' = Died
  BY <1>1 DEF Gathering, Replacing, Extra, Equipped, Staffed, Died, Plan, Peer
<1>6. PlanCalm' = PlanCalm
  BY <1>1, <1>3, <1>4, <1>5, Zenon DEF PlanCalm
<1>7. \A k : PeerCalm(k)' = PeerCalm(k)
  BY <1>1, <1>5, Zenon DEF PeerCalm, Peer
<1>8. LinksCalm' = LinksCalm
  BY <1>1, <1>5, <1>7, Zenon DEF LinksCalm
<1>9. \A i : CallerCalm(i)' = CallerCalm(i)
  BY <1>1, Zenon DEF CallerCalm, Replaces, EntryOf, Superseded
<1>10. BacklogCalm' = BacklogCalm
  BY <1>1, <1>9, Zenon DEF BacklogCalm
<1> QED
  BY <1>1, <1>6, <1>8, <1>10, Zenon DEF OnTrack

\* A connection is accepted, or is not.
LEMMA WaitCalm ==
  ASSUME Configured, SessionTyped, StreamInv, RenewalsInv, RecordsInv, [Next]_vars,
         LinksCalm, BacklogCalm, PlanCalm, ~mishap',
         \/ HelloMissing \/ HelloStale \/ StaleFrame \/ Register \/ Replace \/ ReplacementRefused
         \/ AcceptTimeout
  PROVE  OnTrack'
<1>1. CASE HelloMissing
  BY <1>1, NoHelloMissing
<1>2. CASE HelloStale \/ StaleFrame
  BY <1>2, StaleIsExtra, ExtraCalm
<1>3. CASE Register
  <2>1. at = "accept" /\ waitFor # "replacement"
    BY <1>3 DEF Register, Hello, Greets
  <2>2. Gathering \/ Extra
    BY <2>1 DEF Gathering, Extra, SessionTyped, ControlTyped
  <2> QED
    BY <1>3, <2>2, GatherCalm, RegisterExtraCalm
<1>4. CASE Replace
  BY <1>4, ReplaceCalm
<1>5. CASE ReplacementRefused
  BY <1>5, NoRefusal
<1>6. CASE AcceptTimeout
  <2>1. at = "accept" /\ waitFor = "extra"
    BY <1>6, Zenon DEF AcceptTimeout
  <2>2. Extra
    BY <2>1 DEF Extra
  <2> QED
    BY <1>6, <2>2, ExtraCalm
<1> QED
  BY <1>1, <1>2, <1>3, <1>4, <1>5, <1>6

\* The coordinator goes on.
LEMMA CoordinatorCalm ==
  ASSUME Configured, SessionTyped, StreamInv, CountsInv, RenewalsInv, ClockInv, RecordsInv,
         OnTrack, [Next]_vars, CoordinatorStep, ~mishap'
  PROVE  OnTrack'
<1>1. CASE Finish
  BY <1>1, FinishCalm
<1>2. CASE ~Finish
  <2>1. at \in Active \ {"finish"}
    <3>1. at # "finish"
      BY <1>2, Zenon DEF CoordinatorStep, HelloMissing, HelloStale, StaleFrame, Register, Replace,
           ReplacementRefused, AcceptTimeout, Begin, Enter, LeaveLoop, Stop, GrantStage,
           ReceiveReport, WorkerDeath, RevalidateReplaced, ReceiveEvidence, EvidenceLost,
           RollBack, SaveRollback, ResumePlan, Save, Hello, Greets
    <3> QED
      BY <3>1, CoordinatorRuns
  <2>2. LinksCalm /\ BacklogCalm /\ PlanCalm
    BY <2>1 DEF OnTrack
  <2>3. CASE \/ HelloMissing \/ HelloStale \/ StaleFrame \/ Register \/ Replace
             \/ ReplacementRefused \/ AcceptTimeout
    BY <2>2, <2>3, WaitCalm
  <2>4. CASE Begin \/ Enter
    BY <2>2, <2>4, BeginCalm, EnterCalm
  <2>5. CASE LeaveLoop \/ Stop \/ Save
    BY <2>2, <2>5, LeaveCalm, StopCalm, SaveCalm
  <2>6. CASE GrantStage \/ ReceiveReport \/ ReceiveEvidence
    BY <2>2, <2>6, GrantCalm, ReportCalm, EvidenceCalm
  <2>7. CASE WorkerDeath \/ RevalidateReplaced \/ EvidenceLost
    BY <2>2, <2>7, DeathCalm, ReplacedCalm, NoEvidenceLost
  <2>8. CASE RollBack \/ SaveRollback \/ ResumePlan
    BY <2>2, <2>8, RollBackCalm, SaveRollbackCalm, ResumeCalm
  <2> QED
    BY <1>2, <2>3, <2>4, <2>5, <2>6, <2>7, <2>8, Zenon DEF CoordinatorStep
<1> QED
  BY <1>1, <1>2

\* A process does something.
LEMMA ProcessesCalm ==
  ASSUME SessionTyped, StreamInv, RecordsInv, OnTrack, NEW p \in Processes, ~mishap',
         StartProcess(p) \/ ProcessStep(p) \/ KillProcess(p)
  PROVE  OnTrack'
<1>1. CASE at \in Active \ {"finish"}
  <2>1. LinksCalm /\ BacklogCalm /\ PlanCalm
    BY <1>1 DEF OnTrack
  <2>2. CASE StartProcess(p)
    BY <1>1, <2>1, <2>2, ConnectCalm
  <2>3. CASE ~StartProcess(p)
    BY <1>1, <2>1, <2>3, ProcessCalm
  <2> QED
    BY <2>2, <2>3
<1>2. CASE at \notin Active \ {"finish"}
  <2>1. at' = at /\ outcome' = outcome
    BY ProcessPlan
  <2> QED
    BY <1>2, <2>1, Zenon DEF OnTrack
<1> QED
  BY <1>1, <1>2

LEMMA CalmStep ==
  ASSUME Configured, SessionTyped, StreamInv, CountsInv, RenewalsInv, ClockInv, RecordsInv,
         CalmInv, [Next]_vars
  PROVE  CalmInv'
<1> SUFFICES ASSUME ~mishap'
             PROVE  OnTrack'
  BY DEF CalmInv
<1>1. CASE StartRun
  BY <1>1, StartCalm
<1>2. CASE ~StartRun
  <2>1. OnTrack
    BY <1>2, MishapGrows DEF CalmInv
  <2>2. CASE CoordinatorStep
    BY <2>1, <2>2, CoordinatorCalm
  <2>3. CASE Crash
    BY <2>3, CrashCalm
  <2>4. CASE \E p \in Processes : StartProcess(p) \/ ProcessStep(p) \/ KillProcess(p)
    BY <2>1, <2>4, ProcessesCalm
  <2>5. CASE UNCHANGED vars
    BY <2>1, <2>5, StutterCalm
  <2> QED
    BY <1>2, <2>2, <2>3, <2>4, <2>5, Zenon DEF Next
<1> QED
  BY <1>1, <1>2

ProvidedInv == CountsInv /\ RenewalsInv /\ ClockInv /\ RecordsInv /\ CalmInv

LEMMA ProvidedInit ==
  ASSUME Init
  PROVE  ProvidedInv
<1>1. /\ at = "down" /\ runs = 0 /\ plans = [i \in {1} |-> E!NoPlan] /\ disk = NoDisk
      /\ proc = [p \in Processes |-> "new"] /\ recorded = [p \in Processes |-> NotRecorded]
  BY DEF Init, WorkerInit
<1>2. Plan = E!NoPlan /\ disk.plan = E!NoPlan /\ E!NoPlan.state = "ABSENT"
  BY <1>1 DEF Plan, NoDisk, E!NoPlan
<1>3. at \notin Active /\ at \notin {"report", "evidence", "rollback", "finish", "done"}
  BY <1>1 DEF Active, Waiting, Working
<1>4. ~E!IsLive(Plan) /\ ~E!IsLive(disk.plan)
  BY <1>2, NotLive
<1>5. CountsInv
  <2>1. Counted(Plan) /\ Counted(disk.plan)
    BY <1>4 DEF Counted
  <2>2. at \notin {"report", "evidence"} /\ at # "rollback"
    BY <1>3
  <2> QED
    BY <1>2, <2>1, <2>2, Zenon DEF CountsInv
<1>6. RenewalsInv
  <2>1. 0 <= MaxRuns
    BY SessionAssumption
  <2> QED
    BY <1>1, <1>4, <2>1, Zenon DEF RenewalsInv
<1>7. ClockInv
  BY <1>3, SMT DEF ClockInv
<1>8. RecordsInv
  <2>1. \A p \in Processes : proc[p] = "new" /\ recorded[p] = NotRecorded
    BY <1>1
  <2> QED
    BY <1>3, <2>1 DEF RecordsInv, RecordOf
<1>9. CalmInv
  BY <1>3, Zenon DEF CalmInv, OnTrack
<1> QED
  BY <1>5, <1>6, <1>7, <1>8, <1>9 DEF ProvidedInv

LEMMA ProvidedInvariant ==
  ASSUME Configured
  PROVE  Spec => []ProvidedInv
<1>1. Init => ProvidedInv
  BY ProvidedInit
<1>2. SessionTyped /\ StreamInv /\ ProvidedInv /\ [Next]_vars => ProvidedInv'
  BY CountsStep, RenewalsStep, ClockStep, RecordsStep, CalmStep DEF ProvidedInv
<1> QED
  BY <1>1, <1>2, SessionTypedInvariant, StreamInvariant, PTL DEF Spec

\* A run that meets what its scenario provides for succeeds, however many processes
\* there are and whatever the ladder is: no combination of the clock, the cooldown, the
\* dwell times, the attempts and the revalidations makes the engine refuse, and no
\* worker is told anything that makes it leave.
THEOREM ProvidedRunsCorrect ==
  ASSUME Configured
  PROVE  Spec => []ProvidedRunSucceeds
<1>1. ProvidedInv => ProvidedRunSucceeds
  BY DEF ProvidedInv, CalmInv, OnTrack, ProvidedRunSucceeds
<1> QED
  BY <1>1, ProvidedInvariant, PTL
=============================================================================
