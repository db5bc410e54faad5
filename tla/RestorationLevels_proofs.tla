----------------------- MODULE RestorationLevels_proofs -----------------------
(***************************************************************************)
(* The properties of RestorationLevels, for every policy, every set of     *)
(* grants, obligations, reports and observations, and every number of      *)
(* resources.                                                              *)
(*                                                                         *)
(* A call does one of four things to the levels of the plan (LevelCases):  *)
(* it leaves them, it creates the plan, it leaves a rung, or it rolls      *)
(* back.  Each conjunct of the invariant is shown to survive the four.     *)
(* Before that, what the operators of EvidenceRules and RestorationRules   *)
(* return, for every reading, grant, obligation and observation.           *)
(***************************************************************************)
EXTENDS LevelsEngine_proofs, FiniteSetTheorems, WellFoundedInduction

-----------------------------------------------------------------------------
(* Extreme elements.                                                       *)

\* A set of naturals has a least element, even when it is infinite.
LEMMA LeastNatural ==
  ASSUME NEW S, S \subseteq Nat, S # {}
  PROVE  \E x \in S : \A y \in S : x <= y
<1> DEFINE R == OpToRel(<, Nat)
<1>1. ASSUME NEW x \in Nat, NEW y \in Nat, y < x PROVE <<y, x>> \in R
  BY <1>1, Zenon DEF OpToRel
<1>2. \E x \in S : \A y \in S : ~(<<y, x>> \in R)
  <2>1. IsWellFoundedOn(R, Nat)
    BY NatLessThanWellFounded
  <2> HIDE DEF R
  <2> QED
    BY <2>1, WFMin
<1> HIDE DEF R
<1>3. PICK x \in S : \A y \in S : ~(<<y, x>> \in R)
  BY <1>2
<1>4. ASSUME NEW y \in S PROVE x <= y
  <2>1. x \in Nat /\ y \in Nat /\ ~(y < x)
    BY <1>1, <1>3
  <2> QED
    BY <2>1
<1> QED
  BY <1>4

LEMMA MinOf ==
  ASSUME NEW S, S \subseteq Nat, S # {}
  PROVE  Min(S) \in S /\ \A y \in S : Min(S) <= y
BY LeastNatural DEF Min

LEMMA MinOfTwo ==
  ASSUME NEW a \in Int, NEW b \in Int
  PROVE  Min({a, b}) = IF a <= b THEN a ELSE b
<1>1. \E x \in {a, b} : \A y \in {a, b} : x <= y
  OBVIOUS
<1>2. Min({a, b}) \in {a, b} /\ \A y \in {a, b} : Min({a, b}) <= y
  BY <1>1 DEF Min
<1> QED
  BY <1>2

LEMMA MaxOfTwo ==
  ASSUME NEW a \in Int, NEW b \in Int
  PROVE  Max({a, b}) = IF a >= b THEN a ELSE b
<1>1. \E x \in {a, b} : \A y \in {a, b} : x >= y
  OBVIOUS
<1>2. Max({a, b}) \in {a, b} /\ \A y \in {a, b} : Max({a, b}) >= y
  BY <1>1 DEF Max
<1> QED
  BY <1>2

-----------------------------------------------------------------------------
(* Evidence.                                                               *)

\* No reading counts that is of the future or older than evidence may be, whatever
\* else a requirement asks for.
LEMMA AdmittedTimely ==
  ASSUME NEW req, NEW es, NEW c, NEW k \in Admitted(req, es, c)
  PROVE  k \in DOMAIN es /\ Timely(es[k], c)
BY DEF Admitted, Usable

LEMMA AppliedTimely ==
  ASSUME NEW r, NEW es, NEW c, NEW k \in AppliedReadings(r, es, c)
  PROVE  k \in DOMAIN es /\ Timely(es[k], c)
BY DEF AppliedReadings

\* One reading is later than another in the order in which Latest compares them.
Later(es, j, k) ==
  \/ es[j].at > es[k].at
  \/ es[j].at = es[k].at /\ es[j].id > es[k].id
  \/ es[j].at = es[k].at /\ es[j].id = es[k].id /\ j < k

\* Among finitely many readings one is the latest: the one to which the fewest are
\* later, for those later than another are among those later than it.
LEMMA LatestOf ==
  ASSUME NEW es, NEW n \in Nat, NEW S, S \subseteq 1..n, S # {},
         \A k \in S : es[k].at \in Int /\ es[k].id \in Int
  PROVE  Latest(es, S) \in S
<1> DEFINE Above(k) == {j \in S : Later(es, j, k)}
           Counts == {Cardinality(Above(k)) : k \in S}
<1>0. IsFiniteSet(S)
  <2>1. IsFiniteSet(1..n)
    BY FS_Interval
  <2> QED
    BY <2>1, FS_Subset
<1>1. ASSUME NEW k \in S PROVE IsFiniteSet(Above(k)) /\ Cardinality(Above(k)) \in Nat
  <2>1. Above(k) \in SUBSET S
    OBVIOUS
  <2> HIDE DEF Above
  <2>2. IsFiniteSet(Above(k))
    BY <1>0, <2>1, FS_Subset
  <2> QED
    BY <2>2, FS_CardinalityType
<1>2. PICK k \in S : \A j \in S : Cardinality(Above(k)) <= Cardinality(Above(j))
  <2>1. Counts \subseteq Nat /\ Counts # {}
    BY <1>1
  <2>2. PICK c \in Counts : \A d \in Counts : c <= d
    BY <2>1, LeastNatural
  <2> QED
    BY <2>2
<1>3. ASSUME NEW j \in Above(k) PROVE FALSE
  <2>1. j \in S /\ Later(es, j, k)
    BY <1>3
  <2>2. ASSUME NEW i \in Above(j) PROVE i \in Above(k)
    <3>1. i \in S /\ Later(es, i, j)
      BY <2>2
    <3>2. i \in Int /\ j \in Int /\ k \in Int
      BY <2>1, <3>1
    <3>3. Later(es, i, k)
      BY <2>1, <3>1, <3>2 DEF Later
    <3> QED
      BY <3>1, <3>3
  <2>3. j \notin Above(j)
    <3>1. j \in Int /\ es[j].at \in Int /\ es[j].id \in Int
      BY <2>1
    <3>2. ~Later(es, j, j)
      BY <3>1 DEF Later
    <3> QED
      BY <3>2
  <2>4. Above(j) \subseteq Above(k) /\ Above(j) # Above(k)
    BY <1>3, <2>2, <2>3
  <2>5. Cardinality(Above(j)) < Cardinality(Above(k))
    <3>1. /\ IsFiniteSet(Above(k)) /\ Cardinality(Above(k)) \in Nat
          /\ Cardinality(Above(j)) \in Nat
      BY <1>1, <2>1
    <3>2. Above(j) \in SUBSET Above(k) /\ Above(j) # Above(k)
      BY <2>4
    <3> HIDE DEF Above
    <3>3. /\ Cardinality(Above(j)) <= Cardinality(Above(k))
          /\ Cardinality(Above(j)) # Cardinality(Above(k))
      BY <3>1, <3>2, FS_Subset
    <3> QED
      BY <3>1, <3>3
  <2>6. Cardinality(Above(k)) <= Cardinality(Above(j))
    BY <1>2, <2>1
  <2>7. Cardinality(Above(j)) \in Nat /\ Cardinality(Above(k)) \in Nat
    BY <1>1, <2>1
  <2> HIDE DEF Above
  <2> QED
    BY <2>5, <2>6, <2>7
<1>4. \A m \in S \ {k} : Later(es, k, m)
  <2> SUFFICES ASSUME NEW m \in S, m # k, ~Later(es, m, k)
               PROVE  Later(es, k, m)
    BY <1>3
  <2> HIDE DEF Above, Counts
  <2>1. m \in 1..n /\ k \in 1..n
    OBVIOUS
  <2> QED
    BY <2>1 DEF Later
<1> QED
  BY <1>4 DEF Latest, Later

-----------------------------------------------------------------------------
(* Candidate levels.                                                       *)

LEMMA NoGrantType == NoGrant \in GrantRecords
BY DEF NoGrant, GrantRecords, Units

LEMMA ClampBounds ==
  ASSUME NEW v \in Nat, NEW lo \in Nat, NEW hi \in Nat
  PROVE  /\ Clamp(v, lo, hi) \in Nat
         /\ lo <= hi => lo <= Clamp(v, lo, hi) /\ Clamp(v, lo, hi) <= hi
BY DEF Clamp

\* The levels of a rung, from grants of which none is missing or malformed.
LEMMA CandidateType ==
  ASSUME NEW rung, rung.target \in [Resources -> Nat],
         NEW given \in [Resources -> GrantRecords]
  PROVE  Candidate(rung, given) \in [Resources -> Nat]
<1> SUFFICES ASSUME NEW r \in Resources
             PROVE  Clamp(rung.target[r], given[r].floor, given[r].ceiling) \in Nat
                    /\ rung.target[r] \in Nat
  BY DEF Candidate
<1>1. given[r].floor \in Nat /\ given[r].ceiling \in Nat
  BY DEF GrantRecords
<1> QED
  BY <1>1, ClampBounds

\* A rung that requires authority is left within the live grants, or not at all.
LEMMA GrantedLevels ==
  ASSUME NEW rung, rung.target \in [Resources -> Nat], rung.requiresAuthority,
         NEW given \in [Resources -> GrantRecords], NEW e, NEW t,
         \A r \in Resources : given[r] = NoGrant \/ WellFormed(given[r]),
         ~CandidateRefused(rung, given, e, t), NEW r \in Resources
  PROVE  /\ given[r] # NoGrant /\ given[r].epoch = e /\ t < given[r].expires
         /\ Candidate(rung, given)[r] <= given[r].ceiling
<1>1. Live(given[r], e, t)
  BY Zenon DEF CandidateRefused
<1>2. WellFormed(given[r])
  BY <1>1 DEF Live
<1>3. given[r].floor \in Nat /\ given[r].ceiling \in Nat /\ rung.target[r] \in Nat
  BY DEF GrantRecords
<1>4. given[r].floor <= given[r].ceiling
  BY <1>2 DEF WellFormed
<1>5. Candidate(rung, given)[r]
        = Clamp(rung.target[r], given[r].floor, given[r].ceiling)
  BY DEF Candidate
<1> QED
  BY <1>1, <1>3, <1>4, <1>5, ClampBounds DEF Live

\* Levels at which no obligation blocks keep those that are active and hard.
LEMMA Unblocked ==
  ASSUME NEW o, NEW v, o.active, o.hard, ~Blocks(o, v)
  PROVE  o.resource \in DOMAIN v /\ Satisfied(o, v[o.resource])
BY DEF Blocks

-----------------------------------------------------------------------------
(* Compensation.                                                           *)

\* The levels a rollback lands on: the target's, where the observation vouches for it.
LEMMA LandingFacts ==
  ASSUME NEW seen, NEW target, NEW r \in DOMAIN Landing(seen, target)
  PROVE  /\ r \in DOMAIN target /\ Landing(seen, target)[r] = target[r]
         /\ r \in DOMAIN seen /\ seen[r].known
BY DEF Landing, AtTarget, Steps, KnownAt

\* Every resource of the target is stepped onto it, is there, or is listed.
LEMMA CompensationCovers ==
  ASSUME NEW seen, NEW target, NEW r \in DOMAIN target \ Unobserved(seen, target)
  PROVE  KnownAt(seen, r) /\ r \in AtTarget(seen, target) \cup DOMAIN Steps(seen, target)
BY DEF Unobserved, AtTarget, Steps

LEMMA StepLands ==
  ASSUME NEW seen, NEW target, NEW r \in DOMAIN target \ Unobserved(seen, target),
         seen[r].level \in Nat, target[r] \in Nat, MaxDelta \in Nat
  PROVE  seen[r].level + (IF r \in DOMAIN Steps(seen, target) THEN Steps(seen, target)[r] ELSE 0)
           = Min({seen[r].level, target[r]})
<1> DEFINE a == seen[r].level
           b == target[r]
<1>1. /\ r \in DOMAIN Steps(seen, target) <=> a - b \in 1..MaxDelta
      /\ r \in DOMAIN Steps(seen, target) => Steps(seen, target)[r] = b - a
      /\ r \in AtTarget(seen, target) => a <= b
  BY CompensationCovers DEF Steps, AtTarget
<1>2. r \in AtTarget(seen, target) \/ r \in DOMAIN Steps(seen, target)
  BY CompensationCovers
<1>3. a \in Nat /\ b \in Nat
  OBVIOUS
<1> HIDE DEF a, b
<1>4. Min({a, b}) = IF a <= b THEN a ELSE b
  BY <1>3, MinOfTwo
<1>5. CASE r \in DOMAIN Steps(seen, target)
  BY <1>1, <1>3, <1>4, <1>5 DEF a, b
<1>6. CASE r \notin DOMAIN Steps(seen, target)
  BY <1>1, <1>2, <1>3, <1>4, <1>6 DEF a, b
<1> QED
  BY <1>5, <1>6

\* A compensation that lists nothing as unobserved assumes nothing.
LEMMA CompleteAssumesNothing ==
  ASSUME NEW seen, NEW target, NEW held, Compensation(seen, target, held).complete
  PROVE  Compensation(seen, target, held).assumed = {}
<1>1. Unobserved(seen, target) = {}
  BY DEF Compensation
<1>2. \A r \in DOMAIN target : r \in DOMAIN seen /\ seen[r].known
  BY <1>1, CompensationCovers DEF KnownAt
<1> QED
  BY <1>2 DEF Compensation

-----------------------------------------------------------------------------
(* The plan and its rung.                                                  *)

LEMMA SamePlans == E!Plans = EP!Plans
BY DEF E!Plans, EP!Plans, E!RecoveryStates, EP!RecoveryStates, E!LiveStates, EP!LiveStates,
   E!StageStates, EP!StageStates, E!TerminalStates, EP!TerminalStates, E!StageRecords,
   EP!StageRecords, E!CompletionRecords, EP!CompletionRecords, E!CompletionKeys,
   EP!CompletionKeys

LEMMA PlanType ==
  ASSUME EP!TypeOK
  PROVE  /\ plans \in [{1} -> EP!Plans] /\ Plan \in EP!Plans
         /\ Plan.index \in Nat /\ Plan.updated \in Nat
         /\ now \in Nat /\ epoch \in Nat
BY DEF EP!TypeOK, EP!Plans, Plan

LEMMA LadderType ==
  /\ Ladder[1] \in Seq(E!StageKinds)
  /\ DOMAIN Rungs = 1..Len(Ladder[1]) /\ Len(Ladder[1]) \in Nat /\ Len(Ladder[1]) >= 2
  /\ Ladder[1][1] = "OBSERVE" /\ Ladder[1][Len(Ladder[1])] = "COMPLETE"
<1>1. E!ValidLadder(Ladder[1])
  BY PolicyIsValid
<1>2. Ladder[1] \in Seq(E!StageKinds)
  BY <1>1 DEF E!ValidLadder
<1>3. DOMAIN Ladder[1] = 1..Len(Ladder[1]) /\ Len(Ladder[1]) \in Nat
  BY <1>2
<1> QED
  BY <1>1, <1>2, <1>3, LevelsAssumption DEF E!ValidLadder

\* The level an obligation constrains a resource to, and the one a rollback restores.
LEMMA ConstrainedType ==
  /\ 1 \in DOMAIN Rungs /\ Constrained \in [Resources -> Nat]
  /\ \A r \in Resources :
       Constrained[r] \in Nat /\ RollbackTarget[r] \in Nat /\ RollbackTarget[r] <= Constrained[r]
<1> DEFINE n == Len(Ladder[1])
           level == Constrained
<1>1. DOMAIN Rungs = 1..n /\ n \in Nat /\ n >= 2
  BY LadderType, Zenon
<1> HIDE DEF n
<1>2. 1 \in DOMAIN Rungs
  BY <1>1
<1>3. /\ \A k \in DOMAIN Rungs : Rungs[k].target \in [Resources -> Nat]
      /\ RollbackTarget \in [Resources -> Nat]
  BY DomainAssumption, SMT
<1>4. level \in [Resources -> Nat]
  BY <1>2, <1>3, Zenon DEF Constrained
<1>5. \A r \in Resources : RollbackTarget[r] <= level[r]
  BY LevelsAssumption, Zenon
<1> HIDE DEF level
<1>6. \A r \in Resources : level[r] \in Nat /\ RollbackTarget[r] \in Nat
  BY <1>3, <1>4, Zenon
<1> QED
  BY <1>2, <1>4, <1>5, <1>6, Zenon DEF level

\* The rung a plan stands on is one of the policy's.
LEMMA RungType ==
  ASSUME EP!TypeOK, E!HasStage(Plan)
  PROVE  /\ Plan.index + 1 \in DOMAIN Rungs
         /\ E!Kind(Plan) \in E!StageKinds
         /\ Rung.target \in [Resources -> Nat]
<1>1. Plan.index \in Nat /\ Plan.index < Len(Ladder[1])
  BY PlanType DEF E!HasStage
<1>2. Plan.index + 1 \in 1..Len(Ladder[1])
  BY <1>1, LadderType
<1>3. E!Kind(Plan) \in E!StageKinds
  BY <1>2, LadderType DEF E!Kind
<1>4. Plan.index + 1 \in DOMAIN Rungs
  BY <1>2, LadderType
<1> QED
  BY <1>3, <1>4, DomainAssumption DEF Rung

\* The state of a stage is neither final nor that of a plan rolled back.
LEMMA StageStateOf ==
  ASSUME NEW k \in E!StageKinds
  PROVE  E!StateForStage[k] \notin {"COMPLETED", "ROLLED_BACK"}
BY DEF E!StageKinds, E!StateForStage

LEMMA NextRungKind ==
  ASSUME EP!TypeOK, E!HasStage(Plan), E!Kind(Plan) # "COMPLETE",
         NEW q, q.index = Plan.index + 1
  PROVE  E!Kind(q) \in E!StageKinds
<1> DEFINE n == Len(Ladder[1])
           k == Plan.index
<1>1. k \in Nat /\ k < n /\ n \in Nat
  BY PlanType, LadderType DEF E!HasStage
<1>2. k + 1 # n
  BY LadderType DEF E!Kind
<1>3. k + 2 \in 1..n
  BY <1>1, <1>2
<1>4. E!Kind(q) = Ladder[1][k + 2]
  <2>1. q.index + 1 = k + 2
    BY <1>1
  <2> QED
    BY <2>1, Zenon DEF E!Kind
<1> QED
  BY <1>3, <1>4, LadderType

-----------------------------------------------------------------------------
(* What a call does to the plan.                                           *)

\* The plan stays on its rung, and is not newly completed or rolled back.
Stays(p, q) ==
  /\ q.index = p.index
  /\ q.state \in {"COMPLETED", "ROLLED_BACK"} => q.state = p.state

LEMMA UpdatedPlan ==
  ASSUME EP!TypeOK, NEW q, E!Update(1, q)
  PROVE  plans'[1] = q /\ UNCHANGED <<epoch, now>>
<1>1. 1 \in DOMAIN plans
  BY PlanType
<1> QED
  BY <1>1 DEF E!Update

LEMMA InvalidatedPlan ==
  ASSUME NEW p \in EP!Plans
  PROVE  E!Invalidated(p) \in EP!Plans
BY SameInvalidated, LadderHolds, PolicyHolds, LimitHolds, EP!InvalidatedType DEF EP!InvalidatedType

LEMMA MarkedStays ==
  ASSUME EP!TypeOK
  PROVE  /\ Stays(Plan, Plan) /\ Stays(Plan, E!Failed(Plan))
         /\ Stays(Plan, E!Invalidated(Plan)) /\ Stays(Plan, E!InvalidatedDraft(Plan))
         /\ \A s \in {"PAUSED", "ROLLING_BACK", "FAILED"} : Stays(Plan, [Plan EXCEPT !.state = s])
BY PlanType DEF Stays, E!Failed, E!Invalidated, E!InvalidatedDraft, E!Flagged, EP!Plans

LEMMA InvalidatedAllStays ==
  ASSUME EP!TypeOK, E!BeginEpoch \/ E!ImportState
  PROVE  Stays(Plan, plans'[1]) /\ now' = now
<1>1. CASE E!BeginEpoch
  <2>1. plans'[1] \in {Plan, E!Invalidated(Plan)} /\ now' = now
    BY <1>1 DEF E!BeginEpoch, Plan
  <2> QED
    BY <2>1, MarkedStays
<1>2. CASE E!ImportState
  <2>1. PICK e : plans' = [i \in {1} |-> E!Imported(plans[i], e)] /\ now' = now
    BY <1>2 DEF E!ImportState
  <2>2. plans'[1] = E!Imported(Plan, e)
    BY <2>1 DEF Plan
  <2>3. E!Invalidated(Plan) \in EP!Plans
    BY PlanType, InvalidatedPlan
  <2>4. Stays(Plan, E!Imported(Plan, e))
    BY <2>3, MarkedStays DEF Stays, E!Imported, EP!Plans
  <2> QED
    BY <2>1, <2>2, <2>4
<1> QED
  BY <1>1, <1>2

LEMMA OtherStays ==
  ASSUME EP!TypeOK, OtherCall
  PROVE  Stays(Plan, plans'[1]) /\ epoch' = epoch
<1>1. CASE E!Tick
  BY <1>1, MarkedStays DEF E!Tick, Plan
<1>2. CASE E!RequireRevalidation(1)
  <2>1. E!Invalidated(Plan) \in EP!Plans
    BY PlanType, InvalidatedPlan
  <2>2. Stays(Plan, [E!Invalidated(Plan) EXCEPT !.attemptsInStage = 0])
    BY <2>1, MarkedStays DEF Stays, EP!Plans
  <2> QED
    BY <1>2, <2>2, UpdatedPlan DEF E!RequireRevalidation, Plan
<1>3. CASE E!Resume(1)
  <2> DEFINE q == [Plan EXCEPT !.state = E!StateForStage[E!Kind(Plan)], !.attemptsInStage = 0,
                               !.updated = now]
  <2>1. E!HasStage(Plan) /\ E!Update(1, q)
    BY <1>3 DEF E!Resume, E!Resumable, Plan
  <2>2. E!StateForStage[E!Kind(Plan)] \notin {"COMPLETED", "ROLLED_BACK"}
    BY <2>1, RungType, StageStateOf
  <2>3. Stays(Plan, q)
    BY <2>2, PlanType DEF Stays, EP!Plans
  <2> QED
    BY <2>1, <2>3, UpdatedPlan
<1>4. CASE E!RollbackStale(1)
  BY <1>4, MarkedStays, UpdatedPlan DEF E!RollbackStale, Plan
<1>5. CASE E!Revalidate(1)
  <2>1. E!HasStage(Plan) /\ E!Update(1, E!Revalidated(Plan))
    BY <1>5 DEF E!Revalidate, E!Revalidatable, Plan
  <2>2. E!StateForStage[E!Kind(Plan)] \notin {"COMPLETED", "ROLLED_BACK"}
    BY <2>1, RungType, StageStateOf
  <2>3. /\ E!Revalidated(Plan).state = E!StateForStage[E!Kind(Plan)]
        /\ E!Revalidated(Plan).index = Plan.index
    BY PlanType DEF E!Revalidated, E!Rebound, EP!Plans
  <2> QED
    BY <2>1, <2>2, <2>3, UpdatedPlan DEF Stays
<1>6. CASE E!AdvanceStale(1, Snapshot("unusable"))
  BY <1>6, MarkedStays, UpdatedPlan DEF E!AdvanceStale, Plan
<1> QED
  BY <1>1, <1>2, <1>3, <1>4, <1>5, <1>6 DEF OtherCall

\* What advance makes of a plan when it leaves a rung, and when it does not.
LeftWith(p, q, v) ==
  /\ E!HasStage(p) /\ v \in {"partial", "unstable", "good"}
  /\ now - p.updated >= Dwell
  /\ q.state # "ROLLED_BACK"
  /\ q.state = "COMPLETED" => E!Kind(p) = "COMPLETE" /\ v = "good"

LEMMA CoherentAnyVerdict ==
  ASSUME NEW p, NEW v, E!Coherent(p, Snapshot("unusable"))
  PROVE  E!Coherent(p, Snapshot(v))
BY Zenon DEF E!Coherent, E!Replayed, Snapshot

LEMMA VerifiedFacts ==
  ASSUME NEW p, NEW v, E!Verified(p, Snapshot(v))
  PROVE  /\ E!HasStage(p) /\ v \in {"partial", "unstable", "good"}
         /\ now - p.updated >= Dwell
         /\ E!Kind(p) = "COMPLETE" => v = "good"
BY DEF E!Verified, E!Allowed, E!Settled, E!Evaluated, E!Coherent, Snapshot

LEMMA ClimbedFields ==
  ASSUME EP!TypeOK, NEW s
  PROVE  LET q == E!Entered(E!Climbed(Plan, s), s) IN
         /\ E!Climbed(Plan, s).index = Plan.index + 1
         /\ q.index = Plan.index + 1
         /\ q.state = E!StateForStage[E!Kind(E!Climbed(Plan, s))]
         /\ E!Failed(E!Climbed(Plan, s)).index = Plan.index + 1
         /\ E!Failed(E!Climbed(Plan, s)).state = "FAILED"
BY PlanType DEF E!Entered, E!Climbed, E!Failed, EP!Plans

LEMMA AdvanceOutcome ==
  ASSUME EP!TypeOK, NEW v, E!Coherent(Plan, Snapshot("unusable")),
         E!AdvanceWith(1, Snapshot(v))
  PROVE  /\ UNCHANGED <<epoch, now>>
         /\ Stays(Plan, plans'[1]) \/ LeftWith(Plan, plans'[1], v)
<1> DEFINE s == Snapshot(v)
<1>1. E!Coherent(Plan, s)
  BY CoherentAnyVerdict
<1> HIDE DEF s
<1>2. ASSUME E!AdvanceStale(1, s) PROVE FALSE
  BY <1>1, <1>2, Zenon DEF E!AdvanceStale, E!Coherent, Plan
<1>3. CASE E!AdvanceOutlived(1, s)
  BY <1>3, MarkedStays, UpdatedPlan DEF E!AdvanceOutlived, Plan
<1>4. CASE E!AdvanceCrossedBoundary(1, s)
  BY <1>4, MarkedStays, UpdatedPlan DEF E!AdvanceCrossedBoundary, Plan
<1>5. CASE E!AdvanceRecurrence(1, s)
  <2>1. E!StateOnRecurrence = "ROLLING_BACK"
    BY DEF E!StateOnRecurrence
  <2> QED
    BY <1>5, <2>1, MarkedStays, UpdatedPlan DEF E!AdvanceRecurrence, Plan
<1>6. CASE E!AdvanceRateExceeded(1, s)
  BY <1>6, MarkedStays, UpdatedPlan DEF E!AdvanceRateExceeded, Plan
<1>7. CASE E!AdvanceBudgetExhausted(1, s)
  BY <1>7, MarkedStays, UpdatedPlan DEF E!AdvanceBudgetExhausted, E!StateOnFailure, Plan
<1>8. CASE E!AdvancePartial(1, s)
  <2>1. Stays(Plan, E!PartiallyApplied(Plan, s))
    BY PlanType DEF Stays, E!PartiallyApplied, EP!Plans
  <2> QED
    BY <1>8, <2>1, UpdatedPlan DEF E!AdvancePartial, Plan
<1>9. CASE E!AdvanceHistoryFull(1, s)
  <2>1. Stays(Plan, E!Failed([Plan EXCEPT !.history = E!Closed(E!Opened(Plan), "SUCCEEDED", s.tick)]))
    BY PlanType DEF Stays, E!Failed, EP!Plans
  <2> QED
    BY <1>9, <2>1, MarkedStays, UpdatedPlan DEF E!AdvanceHistoryFull, Plan
<1>10. CASE E!AdvanceCommit(1, s)
  <2>1. E!Verified(Plan, s) /\ E!Kind(Plan) = "COMPLETE" /\ E!Update(1, E!Committed(Plan, s))
    BY <1>10 DEF E!AdvanceCommit, Plan
  <2>2. E!Committed(Plan, s).state = "COMPLETED"
    BY PlanType DEF E!Committed, EP!Plans
  <2> QED
    BY <2>1, <2>2, VerifiedFacts, UpdatedPlan DEF LeftWith, s
<1>11. CASE E!AdvanceStage(1, s)
  <2> DEFINE c == E!Climbed(Plan, s)
             q == E!Entered(c, s)
  <2>1. E!Verified(Plan, s) /\ E!Kind(Plan) # "COMPLETE" /\ E!Update(1, q)
    BY <1>11 DEF E!AdvanceStage, Plan
  <2>2. E!HasStage(Plan)
    BY <2>1, VerifiedFacts DEF s
  <2>3. c.index = Plan.index + 1 /\ q.state = E!StateForStage[E!Kind(c)]
    BY ClimbedFields
  <2>4. q.state \notin {"COMPLETED", "ROLLED_BACK"}
    BY <2>1, <2>2, <2>3, NextRungKind, StageStateOf
  <2> QED
    BY <2>1, <2>4, VerifiedFacts, UpdatedPlan DEF LeftWith, s
<1>12. CASE E!AdvanceExhausted(1, s)
  <2>1. E!Verified(Plan, s) /\ E!Update(1, E!Failed(E!Climbed(Plan, s)))
    BY <1>12 DEF E!AdvanceExhausted, Plan
  <2>2. E!Failed(E!Climbed(Plan, s)).state = "FAILED"
    BY ClimbedFields
  <2> QED
    BY <2>1, <2>2, VerifiedFacts, UpdatedPlan DEF LeftWith, s
<1> QED
  BY <1>2, <1>3, <1>4, <1>5, <1>6, <1>7, <1>8, <1>9, <1>10, <1>11, <1>12 DEF E!AdvanceWith, s

LEMMA CreatedPlan ==
  ASSUME EP!TypeOK, E!CreatePlan(1)
  PROVE  /\ plans'[1].state = "OBSERVING" /\ plans'[1].index = 0
         /\ Plan.state = "ABSENT" /\ UNCHANGED <<epoch, now>>
<1>1. E!NewPlan.state = "OBSERVING" /\ E!NewPlan.index = 0
  BY LadderType DEF E!NewPlan, E!NoPlan, E!StateForStage
<1> QED
  BY <1>1, UpdatedPlan DEF E!CreatePlan, Plan

LEMMA RolledBackPlan ==
  ASSUME EP!TypeOK, E!Rollback(1)
  PROVE  /\ plans'[1].state # "COMPLETED" /\ plans'[1].index = Plan.index
         /\ UNCHANGED <<epoch, now>>
<1>1. E!RolledBack(Plan).state # "COMPLETED" /\ E!RolledBack(Plan).index = Plan.index
  BY PlanType DEF E!RolledBack, EP!Plans
<1> QED
  BY <1>1, UpdatedPlan DEF E!Rollback, Plan

-----------------------------------------------------------------------------
(* What a snapshot must show for a rung to be left.                        *)

LEMMA ReadingFields ==
  ASSUME now \in Nat, NEW report \in Reports, NEW g, NEW k \in DOMAIN report
  PROVE  LET e == Readings(report, g)[k] IN
         /\ e.at \in Nat /\ e.id \in Nat /\ e.value \in Nat
<1>1. report[k] \in ReadingRecords
  BY DomainAssumption
<1>2. now - report[k].at \in Int
  BY <1>1 DEF ReadingRecords
<1>3. Max({0, now - report[k].at}) \in Nat
  BY <1>2, MaxOfTwo
<1>4. Readings(report, g)[k]
        = [report[k] EXCEPT !.at = Max({0, now - report[k].at}),
                            !.planGen = IF report[k].planGen = 0 THEN 0 ELSE g]
  BY <1>1 DEF Readings, ReadingRecords
<1> HIDE DEF Readings
<1> QED
  BY <1>1, <1>3, <1>4 DEF ReadingRecords

LEMMA ReadingDomain ==
  ASSUME NEW report \in Reports, NEW g
  PROVE  DOMAIN Readings(report, g) = DOMAIN report
         /\ \E n \in Nat : DOMAIN report = 1..n
<1>1. report \in Seq(ReadingRecords)
  BY DomainAssumption
<1>2. DOMAIN report = 1..Len(report) /\ Len(report) \in Nat
  BY <1>1
<1> QED
  BY <1>2 DEF Readings

\* A verdict that lets a rung be left: primary evidence counts and the candidate is
\* not refused; on the COMPLETE rung "good" says that it was seen applied, if the policy
\* asks for that.
LEMMA VerdictFacts ==
  ASSUME NEW es, Verdict(es) \in {"partial", "unstable", "good"}
  PROVE  /\ Admitted(Rung.primary, es, Context) # {}
         /\ ~CandidateRefused(Rung, authority, epoch, now)
         /\ Verdict(es) = "good" /\ Completing /\ RequireCompletionEvidence =>
              ~PartlyApplied(CollectObserved(Unit, es, Context), Candidate(Rung, authority))
<1>1. Verdict(es) = VerdictInBand(es) /\ Admitted(Rung.primary, es, Context) # {}
  BY Zenon DEF Verdict
<1>2. ~CandidateRefused(Rung, authority, epoch, now)
  BY <1>1, Zenon DEF VerdictInBand
<1>3. ASSUME Verdict(es) = "good", Completing, RequireCompletionEvidence
      PROVE  ~PartlyApplied(CollectObserved(Unit, es, Context), Candidate(Rung, authority))
  BY <1>1, <1>3, Zenon DEF VerdictInBand
<1> QED
  BY <1>1, <1>2, <1>3

LEMMA CountedFacts ==
  ASSUME now \in Nat, NEW report \in Reports, NEW g,
         Admitted(Rung.primary, Readings(report, g), Context) # {}
  PROVE  LET es == Readings(report, g)  ats == {es[k].at : k \in Counted(es)} IN
         /\ ats # {} /\ ats \subseteq Nat
         /\ \A t \in ats : now - t <= MaxEvidenceAge
<1> DEFINE es == Readings(report, g)
<1>1. Admitted(Rung.primary, es, Context) \subseteq Counted(es)
  BY DEF Counted
<1>2. ASSUME NEW k \in Counted(es) PROVE k \in DOMAIN es /\ Timely(es[k], Context)
  <2>1. \/ \E req \in Rung.others \cup {Rung.primary} : k \in Admitted(req, es, Context)
        \/ \E r \in Resources : k \in AppliedReadings(r, es, Context)
    BY <1>2 DEF Counted
  <2> HIDE DEF es
  <2> QED
    BY <2>1, AdmittedTimely, AppliedTimely
<1>3. ASSUME NEW k \in Counted(es) PROVE es[k].at \in Nat /\ now - es[k].at <= MaxEvidenceAge
  <2>1. es[k].at \in Nat
    BY <1>2, <1>3, ReadingDomain, ReadingFields
  <2>2. Context.tick = now
    BY DEF Context
  <2> QED
    BY <1>2, <1>3, <2>1, <2>2 DEF Timely
<1> HIDE DEF es
<1> QED
  BY <1>1, <1>3 DEF es

\* A level that is seen is a natural number: the latest of the readings of it.
LEMMA ObservedType ==
  ASSUME now \in Nat, NEW report \in Reports, NEW g,
         NEW r \in DOMAIN CollectObserved(Unit, Readings(report, g), Context)
  PROVE  CollectObserved(Unit, Readings(report, g), Context)[r] \in Nat
<1> DEFINE es == Readings(report, g)
           S == AppliedReadings(r, es, Context)
<1>1. PICK n \in Nat : DOMAIN es = 1..n
  BY ReadingDomain
<1>2. S \subseteq 1..n
  BY <1>1, AppliedTimely
<1>3. \A k \in 1..n : es[k].at \in Int /\ es[k].id \in Int /\ es[k].value \in Nat
  BY <1>1, ReadingDomain, ReadingFields
<1> HIDE DEF es
<1>4. S # {} /\ CollectObserved(Unit, es, Context)[r] = es[Latest(es, S)].value
  BY DEF CollectObserved, es
<1> HIDE DEF S
<1>5. Latest(es, S) \in S
  BY <1>2, <1>3, <1>4, LatestOf
<1> QED
  BY <1>2, <1>3, <1>4, <1>5 DEF es

-----------------------------------------------------------------------------
(* What a call does to the levels.                                         *)

\* The levels stay, and the plan neither leaves its rung nor is newly completed or
\* rolled back.  A restart forgets what was observed, but only plans that have not
\* completed are restarted.
Kept ==
  /\ ~LeavesRung(Plan, plans'[1])
  /\ plans'[1].state \in {"COMPLETED", "ROLLED_BACK"} => plans'[1].state = Plan.state
  /\ UNCHANGED <<authorized, rolledBack, basis>>
  /\ lastObserved' # lastObserved => plans'[1].state # "COMPLETED"

Created ==
  /\ ~LeavesRung(Plan, plans'[1])
  /\ plans'[1].state = "OBSERVING"
  /\ authorized' = Constrained
  /\ rolledBack' = NoRollback /\ basis' = 0

\* A rung is left, with the readings es and at their verdict v.
Left(es, v) ==
  /\ LeftWith(Plan, plans'[1], v)
  /\ v = Verdict(es)
  /\ authorized' = Candidate(Rung, authority)
  /\ basis' = Min({es[k].at : k \in Counted(es)})
  /\ Completing => lastObserved' = CollectObserved(Unit, es, Context)
  /\ rolledBack' = NoRollback

Landed(seen) ==
  /\ ~LeavesRung(Plan, plans'[1])
  /\ plans'[1].state # "COMPLETED"
  /\ rolledBack' = Compensation(seen, RollbackTarget, authorized)
  /\ authorized' = Landing(seen, RollbackTarget)
  /\ basis' = 0

LEMMA StayingIsKept ==
  ASSUME EP!TypeOK, Stays(Plan, plans'[1]),
         UNCHANGED <<authorized, rolledBack, basis>>,
         lastObserved' # lastObserved => Plan.state # "COMPLETED"
  PROVE  Kept
BY PlanType DEF Kept, Stays, LeavesRung

LEMMA AdvanceCases ==
  ASSUME EP!TypeOK, NEW report \in Reports, NEW g, Advance(report, g)
  PROVE  /\ Kept \/ Left(Readings(report, g), Verdict(Readings(report, g)))
         /\ UNCHANGED <<epoch, now, authority>>
<1> DEFINE es == Readings(report, g)
           v == Verdict(es)
           q == plans'[1]
<1>1. /\ E!Coherent(Plan, Snapshot("unusable")) /\ E!AdvanceWith(1, Snapshot(v))
      /\ IF LeavesRung(Plan, q)
         THEN /\ authorized' = Candidate(Rung, authority)
              /\ basis' = Min({es[k].at : k \in Counted(es)})
              /\ lastObserved' = IF Completing THEN CollectObserved(Unit, es, Context)
                                 ELSE lastObserved
              /\ rolledBack' = NoRollback
         ELSE UNCHANGED levels
      /\ UNCHANGED authority
  BY Zenon DEF Advance
<1> HIDE DEF es, v
<1>2. UNCHANGED <<epoch, now>> /\ (Stays(Plan, q) \/ LeftWith(Plan, q, v))
  BY <1>1, AdvanceOutcome
<1>3. CASE LeavesRung(Plan, q)
  <2>1. ~Stays(Plan, q)
    BY <1>3, PlanType DEF Stays, LeavesRung
  <2> QED
    BY <1>1, <1>2, <1>3, <2>1 DEF Left, es, v
<1>4. CASE ~LeavesRung(Plan, q)
  <2>1. UNCHANGED <<authorized, rolledBack, basis, lastObserved>>
    BY <1>1, <1>4 DEF levels
  <2>2. q.state \in {"COMPLETED", "ROLLED_BACK"} => q.state = Plan.state
    BY <1>2, <1>4 DEF Stays, LeftWith, LeavesRung
  <2> QED
    BY <1>1, <1>2, <1>4, <2>1, <2>2 DEF Kept
<1> QED
  BY <1>3, <1>4

LEMMA LevelCases ==
  ASSUME EP!TypeOK, [Next]_vars
  PROVE  \/ Kept
         \/ Created
         \/ \E report \in Reports, g \in Int :
              Left(Readings(report, g), Verdict(Readings(report, g)))
         \/ \E seen \in Sightings : Landed(seen)
<1>0. Stays(Plan, Plan)
  BY MarkedStays
<1>1. CASE UNCHANGED vars
  BY <1>0, <1>1, StayingIsKept DEF vars, lifecycle, levels, Plan
<1>2. CASE CreatePlan
  BY <1>2, CreatedPlan, PlanType DEF CreatePlan, Created, LeavesRung
<1>3. CASE BeginEpoch
  BY <1>3, InvalidatedAllStays, StayingIsKept DEF BeginEpoch, levels
<1>4. CASE Watched /\ Restart
  <2>1. Plan.state # "COMPLETED"
    BY <1>4 DEF Watched, E!IsLive, E!LiveStates, E!StageStates
  <2> QED
    BY <1>4, <2>1, InvalidatedAllStays, StayingIsKept DEF Restart
<1>5. CASE DropStale \/ \E r \in Resources : Revoke(r) \/ \E g \in Grants[r] : Grant(r, g)
  <2>1. UNCHANGED <<lifecycle, levels>>
    BY <1>5, Zenon DEF DropStale, Revoke, Grant
  <2> QED
    BY <1>0, <2>1, StayingIsKept DEF lifecycle, levels, Plan
<1>6. CASE OtherCall
  BY <1>6, OtherStays, StayingIsKept DEF OtherCall, levels
<1>7. CASE \E report \in Reports, g \in {Plan.generation - 1, Plan.generation} : Advance(report, g)
  <2>1. PICK report \in Reports, g \in {Plan.generation - 1, Plan.generation} : Advance(report, g)
    BY <1>7
  <2>2. g \in Int
    BY PlanType DEF EP!Plans
  <2> QED
    BY <2>1, <2>2, AdvanceCases
<1>8. CASE \E seen \in Sightings : Rollback(seen)
  <2>1. PICK seen \in Sightings : Rollback(seen)
    BY <1>8
  <2>2. E!Rollback(1) /\ rolledBack' = Compensation(seen, RollbackTarget, authorized)
        /\ authorized' = rolledBack'.landing /\ basis' = 0
    BY <2>1 DEF Rollback
  <2>3. authorized' = Landing(seen, RollbackTarget)
    BY <2>2 DEF Compensation
  <2>4. plans'[1].state # "COMPLETED" /\ ~LeavesRung(Plan, plans'[1])
    BY <2>2, RolledBackPlan, PlanType DEF LeavesRung
  <2> QED
    BY <2>2, <2>3, <2>4 DEF Landed
<1> QED
  BY <1>1, <1>2, <1>3, <1>4, <1>5, <1>6, <1>7, <1>8, Zenon DEF Next

-----------------------------------------------------------------------------
(* The inductive invariant.                                                *)

\* A grant that is held is well formed and of this epoch.
HeldIsCurrent ==
  /\ authority \in [Resources -> GrantRecords]
  /\ \A r \in Resources : authority[r] = NoGrant \/ WellFormed(authority[r])
  /\ AuthorityIsCurrent

LevelTypes ==
  /\ DOMAIN authorized \subseteq Resources
  /\ \A r \in DOMAIN authorized : authorized[r] \in Nat
  /\ basis \in Nat

LevelsInv ==
  /\ EP!LInv
  /\ HeldIsCurrent
  /\ LevelTypes
  /\ ObligationsKept
  /\ RollbackTakesBack
  /\ CompensationLands
  /\ CompletedAsObserved

LEMMA RevokedHeld ==
  ASSUME HeldIsCurrent, epoch' = epoch,
         authority' \in [Resources -> GrantRecords],
         \A r \in Resources : authority'[r] \in {authority[r], NoGrant}
  PROVE  HeldIsCurrent'
BY DEF HeldIsCurrent, AuthorityIsCurrent

LEMMA GrantHeld ==
  ASSUME HeldIsCurrent, epoch' = epoch, epoch \in Nat,
         NEW r \in Resources, NEW g \in Grants[r], Grant(r, g)
  PROVE  HeldIsCurrent'
<1> DEFINE h == [g EXCEPT !.epoch = epoch]
<1>1. g \in GrantRecords
  BY DomainAssumption
<1>2. h \in GrantRecords /\ h.epoch = epoch
  BY <1>1 DEF GrantRecords
<1>3. WellFormed(h) /\ authority' = [authority EXCEPT ![r] = h]
  BY DEF Grant, Takes
<1> HIDE DEF h
<1>4. authority' \in [Resources -> GrantRecords]
  BY <1>2, <1>3 DEF HeldIsCurrent
<1>5. ASSUME NEW s \in Resources
      PROVE  authority'[s] = IF s = r THEN h ELSE authority[s]
  BY <1>3 DEF HeldIsCurrent
<1> QED
  BY <1>2, <1>3, <1>4, <1>5 DEF HeldIsCurrent, AuthorityIsCurrent

LEMMA NothingHeld ==
  ASSUME authority' = [r \in Resources |-> NoGrant]
  PROVE  HeldIsCurrent'
BY NoGrantType DEF HeldIsCurrent, AuthorityIsCurrent

LEMMA HeldStep ==
  ASSUME EP!TypeOK, HeldIsCurrent, [Next]_vars
  PROVE  HeldIsCurrent'
<1>1. ASSUME UNCHANGED <<authority, epoch>> PROVE HeldIsCurrent'
  BY <1>1, RevokedHeld DEF HeldIsCurrent
<1>2. CASE UNCHANGED vars
  BY <1>1, <1>2 DEF vars, lifecycle
<1>3. CASE CreatePlan
  BY <1>1, <1>3, CreatedPlan DEF CreatePlan
<1>4. CASE BeginEpoch \/ Restart
  BY <1>4, NothingHeld DEF BeginEpoch, Restart
<1>5. CASE DropStale
  <2>1. /\ epoch' = epoch
        /\ authority' = [r \in Resources |->
                           IF Live(authority[r], epoch, now) THEN authority[r] ELSE NoGrant]
    BY <1>5 DEF DropStale, lifecycle
  <2>2. authority' \in [Resources -> GrantRecords]
    BY <2>1, NoGrantType DEF HeldIsCurrent
  <2> QED
    BY <2>1, <2>2, RevokedHeld
<1>6. ASSUME NEW r \in Resources, Revoke(r) PROVE HeldIsCurrent'
  <2>1. epoch' = epoch /\ authority' = [authority EXCEPT ![r] = NoGrant]
    BY <1>6 DEF Revoke, lifecycle
  <2>2. authority' \in [Resources -> GrantRecords]
    BY <2>1, NoGrantType DEF HeldIsCurrent
  <2> QED
    BY <2>1, <2>2, RevokedHeld DEF HeldIsCurrent
<1>7. ASSUME NEW r \in Resources, NEW g \in Grants[r], Grant(r, g) PROVE HeldIsCurrent'
  BY <1>7, GrantHeld, PlanType DEF Grant, lifecycle
<1>8. CASE OtherCall
  BY <1>1, <1>8, OtherStays DEF OtherCall
<1>9. ASSUME NEW report \in Reports, NEW g, Advance(report, g) PROVE HeldIsCurrent'
  BY <1>1, <1>9, AdvanceCases
<1>10. ASSUME NEW seen \in Sightings, Rollback(seen) PROVE HeldIsCurrent'
  BY <1>1, <1>10, RolledBackPlan DEF Rollback
<1> QED
  BY <1>2, <1>3, <1>4, <1>5, <1>6, <1>7, <1>8, <1>9, <1>10, Zenon DEF Next

\* The levels set by the three ways of setting them.
LEMMA LeftFacts ==
  ASSUME EP!TypeOK, NEW report \in Reports, NEW g,
         Left(Readings(report, g), Verdict(Readings(report, g)))
  PROVE  LET es == Readings(report, g)  ats == {es[k].at : k \in Counted(es)} IN
         /\ E!HasStage(Plan) /\ Rung.target \in [Resources -> Nat]
         /\ Plan.index + 1 \in DOMAIN Rungs
         /\ ~CandidateRefused(Rung, authority, epoch, now)
         /\ basis' \in ats /\ ats \subseteq Nat /\ \A t \in ats : now - t <= MaxEvidenceAge
<1> DEFINE es == Readings(report, g)
           v == Verdict(es)
           ats == {es[k].at : k \in Counted(es)}
<1>1. E!HasStage(Plan) /\ v \in {"partial", "unstable", "good"} /\ basis' = Min(ats)
  BY DEF Left, LeftWith
<1>2. Admitted(Rung.primary, es, Context) # {} /\ ~CandidateRefused(Rung, authority, epoch, now)
  BY <1>1, VerdictFacts
<1>3. ats # {} /\ ats \subseteq Nat /\ \A t \in ats : now - t <= MaxEvidenceAge
  BY <1>2, CountedFacts, PlanType
<1>4. Min(ats) \in ats
  <2> HIDE DEF ats
  <2> QED
    BY <1>3, MinOf
<1> QED
  BY <1>1, <1>2, <1>3, <1>4, RungType

LEMMA TypesKept ==
  ASSUME EP!TypeOK, HeldIsCurrent, LevelTypes, [Next]_vars
  PROVE  LevelTypes'
<1>1. CASE Kept
  BY <1>1 DEF Kept, LevelTypes
<1>2. CASE Created
  <2>1. Constrained \in [Resources -> Nat]
    BY ConstrainedType
  <2> QED
    BY <1>2, <2>1 DEF Created, LevelTypes
<1>3. ASSUME NEW report \in Reports, NEW g \in Int,
             Left(Readings(report, g), Verdict(Readings(report, g)))
      PROVE  LevelTypes'
  <2>1. authorized' \in [Resources -> Nat]
    BY <1>3, LeftFacts, CandidateType DEF Left, HeldIsCurrent
  <2>2. basis' \in Nat
    BY <1>3, LeftFacts
  <2> QED
    BY <2>1, <2>2 DEF LevelTypes
<1>4. ASSUME NEW seen \in Sightings, Landed(seen) PROVE LevelTypes'
  BY <1>4, LandingFacts, DomainAssumption DEF Landed, LevelTypes
<1> QED
  BY <1>1, <1>2, <1>3, <1>4, LevelCases

LEMMA ObligationsStep ==
  ASSUME EP!TypeOK, ObligationsKept, [Next]_vars
  PROVE  ObligationsKept'
<1>1. CASE Kept
  BY <1>1 DEF Kept, ObligationsKept
<1>2. CASE Created
  BY <1>2, LevelsAssumption, Unblocked DEF Created, ObligationsKept
<1>3. ASSUME NEW report \in Reports, NEW g \in Int,
             Left(Readings(report, g), Verdict(Readings(report, g)))
      PROVE  ObligationsKept'
  <2>1. \A o \in Obligations : ~Blocks(o, Candidate(Rung, authority))
    BY <1>3, LeftFacts DEF CandidateRefused
  <2> QED
    BY <1>3, <2>1, Unblocked DEF Left, ObligationsKept
<1>4. ASSUME NEW seen \in Sightings, Landed(seen) PROVE ObligationsKept'
  <2>1. \A o \in Obligations : ~Blocks(o, RollbackTarget)
    BY LevelsAssumption
  <2> QED
    BY <1>4, <2>1, Unblocked, LandingFacts DEF Landed, ObligationsKept
<1> QED
  BY <1>1, <1>2, <1>3, <1>4, LevelCases

LEMMA TakenBackStep ==
  ASSUME EP!TypeOK, RollbackTakesBack, [Next]_vars
  PROVE  RollbackTakesBack'
<1>0. RollbackTakesBack' <=>
        (rolledBack' # NoRollback =>
           \A r \in DOMAIN authorized' :
             /\ authorized'[r] <= RollbackTarget[r]
             /\ r \in DOMAIN rolledBack'.seen /\ rolledBack'.seen[r].known)
  BY DEF RollbackTakesBack
<1>1. CASE Kept
  BY <1>0, <1>1 DEF Kept, RollbackTakesBack
<1>2. CASE Created
  BY <1>0, <1>2 DEF Created
<1>3. ASSUME NEW es, NEW v, Left(es, v) PROVE RollbackTakesBack'
  BY <1>0, <1>3 DEF Left
<1>4. ASSUME NEW seen \in Sightings, Landed(seen) PROVE RollbackTakesBack'
  <2>1. rolledBack'.seen = seen /\ authorized' = Landing(seen, RollbackTarget)
    BY <1>4 DEF Landed, Compensation
  <2>2. \A r \in Resources : RollbackTarget[r] <= RollbackTarget[r]
    BY DomainAssumption
  <2>3. \A r \in DOMAIN authorized' :
          /\ r \in Resources /\ authorized'[r] = RollbackTarget[r]
          /\ r \in DOMAIN seen /\ seen[r].known
    BY <2>1, LandingFacts, DomainAssumption
  <2> QED
    BY <1>0, <2>1, <2>2, <2>3
<1> QED
  BY <1>1, <1>2, <1>3, <1>4, LevelCases

\* What CompensationLands says of a compensation, whatever was observed.
LEMMA CompensationFacts ==
  ASSUME NEW seen \in Sightings, NEW granted, NEW c,
         c = Compensation(seen, RollbackTarget, granted)
  PROVE  /\ \A r \in DOMAIN c.seen \cap Resources :
              c.seen[r].known /\ c.seen[r].unit = Unit[r] /\ r \notin c.unobserved =>
                c.seen[r].level + LevelOf(c.steps, r) = Min({c.seen[r].level, RollbackTarget[r]})
         /\ \A r \in Resources \ c.unobserved : r \in DOMAIN c.seen /\ c.seen[r].unit = Unit[r]
         /\ c.complete => c.assumed = {}
<1>1. /\ c.seen = seen /\ c.steps = Steps(seen, RollbackTarget)
      /\ c.unobserved = Unobserved(seen, RollbackTarget)
  BY DEF Compensation
<1>2. DOMAIN RollbackTarget = Resources /\ MaxDelta \in Nat
  BY DomainAssumption
<1>3. ASSUME NEW r \in DOMAIN seen \cap Resources, r \notin Unobserved(seen, RollbackTarget)
      PROVE  seen[r].level + LevelOf(Steps(seen, RollbackTarget), r)
               = Min({seen[r].level, RollbackTarget[r]})
  <2>1. seen[r].level \in Nat /\ RollbackTarget[r] \in Nat
    BY DomainAssumption DEF SightingRecords
  <2> QED
    BY <1>2, <1>3, <2>1, StepLands DEF LevelOf
<1>4. ASSUME NEW r \in Resources \ Unobserved(seen, RollbackTarget)
      PROVE  r \in DOMAIN seen /\ seen[r].unit = Unit[r]
  BY <1>2, <1>4, CompensationCovers DEF KnownAt
<1>5. c.complete => c.assumed = {}
  BY CompleteAssumesNothing
<1> QED
  BY <1>1, <1>3, <1>4, <1>5

LEMMA CompensationStep ==
  ASSUME EP!TypeOK, CompensationLands, [Next]_vars
  PROVE  CompensationLands'
<1>1. CASE Kept
  BY <1>1 DEF Kept, CompensationLands
<1>2. CASE Created
  BY <1>2 DEF Created, CompensationLands
<1>3. ASSUME NEW es, NEW v, Left(es, v) PROVE CompensationLands'
  BY <1>3 DEF Left, CompensationLands
<1>4. ASSUME NEW seen \in Sightings, Landed(seen) PROVE CompensationLands'
  BY <1>4, CompensationFacts DEF Landed, CompensationLands
<1> QED
  BY <1>1, <1>2, <1>3, <1>4, LevelCases

LEMMA RequiredType ==
  ASSUME NEW level \in Nat
  PROVE  Required(level) \in Int
<1>1. Tolerance \in 0..10000
  BY DomainAssumption
<1>2. level * (10000 - Tolerance) \in Int
  BY <1>1
<1> QED
  BY <1>2 DEF Required

LEMMA CompletedStep ==
  ASSUME EP!TypeOK, HeldIsCurrent, CompletedAsObserved, [Next]_vars
  PROVE  CompletedAsObserved'
<1>0. CompletedAsObserved' <=>
        (RequireCompletionEvidence /\ plans'[1].state = "COMPLETED" =>
           \A r \in Resources :
             r \in DOMAIN lastObserved' /\ lastObserved'[r] >= Required(authorized'[r]))
  BY DEF CompletedAsObserved, SeenApplied, Plan, Required
<1>1. CASE Kept
  BY <1>0, <1>1 DEF Kept, CompletedAsObserved, SeenApplied
<1>2. CASE Created
  BY <1>0, <1>2 DEF Created
<1>3. ASSUME NEW report \in Reports, NEW g \in Int,
             Left(Readings(report, g), Verdict(Readings(report, g))),
             RequireCompletionEvidence, plans'[1].state = "COMPLETED", NEW r \in Resources
      PROVE  r \in DOMAIN lastObserved' /\ lastObserved'[r] >= Required(authorized'[r])
  <2> DEFINE es == Readings(report, g)
             seen == CollectObserved(Unit, es, Context)
             candidate == Candidate(Rung, authority)
  <2>1. Completing /\ Verdict(es) = "good"
    BY <1>3 DEF Left, LeftWith, Completing
  <2>2. lastObserved' = seen /\ authorized' = candidate
    BY <1>3, <2>1 DEF Left
  <2>3. ~PartlyApplied(seen, candidate)
    BY <1>3, <2>1, VerdictFacts
  <2>4. candidate \in [Resources -> Nat]
    BY <1>3, LeftFacts, CandidateType DEF HeldIsCurrent
  <2>5. ASSUME r \in DOMAIN seen PROVE seen[r] \in Nat
    BY <2>5, ObservedType, PlanType
  <2> HIDE DEF seen, candidate
  <2>6. r \in DOMAIN seen /\ ~(seen[r] < Required(candidate[r]))
    BY <2>3 DEF PartlyApplied
  <2>7. seen[r] \in Int /\ Required(candidate[r]) \in Int
    BY <2>4, <2>5, <2>6, RequiredType
  <2> QED
    BY <2>2, <2>6, <2>7
<1>4. ASSUME NEW seen \in Sightings, Landed(seen) PROVE CompletedAsObserved'
  BY <1>0, <1>4 DEF Landed
<1> QED
  BY <1>0, <1>1, <1>2, <1>3, <1>4, LevelCases

LEMMA LevelsInductive ==
  /\ Init => LevelsInv
  /\ LevelsInv /\ [Next]_vars => LevelsInv'
<1>1. ASSUME Init, EP!LInv PROVE LevelsInv
  <2>1. HeldIsCurrent
    BY <1>1, NoGrantType DEF Init, HeldIsCurrent, AuthorityIsCurrent
  <2>2. DOMAIN authorized = {} /\ basis \in Nat
    BY <1>1 DEF Init
  <2>3. LevelTypes /\ ObligationsKept /\ RollbackTakesBack
    BY <1>1, <2>2 DEF Init, LevelTypes, ObligationsKept, RollbackTakesBack
  <2>4. CompensationLands /\ CompletedAsObserved
    <3>1. Plan.state # "COMPLETED"
      BY <1>1 DEF Init, Plan, E!NoPlan
    <3> QED
      BY <1>1, <3>1 DEF Init, CompensationLands, CompletedAsObserved
  <2> QED
    BY <1>1, <2>1, <2>3, <2>4 DEF LevelsInv
<1>2. ASSUME LevelsInv, [Next]_vars, EP!LInv' PROVE LevelsInv'
  <2>1. EP!TypeOK
    BY <1>2 DEF LevelsInv, EP!LInv
  <2>2. HeldIsCurrent' /\ LevelTypes' /\ ObligationsKept' /\ RollbackTakesBack'
        /\ CompensationLands' /\ CompletedAsObserved'
    BY <1>2, <2>1, HeldStep, TypesKept, ObligationsStep, TakenBackStep, CompensationStep,
       CompletedStep DEF LevelsInv
  <2> QED
    BY <1>2, <2>2 DEF LevelsInv
<1>3. Init => EP!LInv
  BY EngineInit, EngineInductive
<1>4. EP!LInv /\ [Next]_vars => EP!LInv'
  BY EngineInductive
<1> QED
  BY <1>1, <1>2, <1>3, <1>4 DEF LevelsInv

LEMMA LevelsInvHolds == Spec => []LevelsInv
BY LevelsInductive, PTL DEF Spec

-----------------------------------------------------------------------------
(* What LevelsRun checks on a small instance, for every instance.          *)

\* The plan is a plan of the lifecycle, the grants that are held are well formed, and
\* the levels in force are levels of the plan's resources.
THEOREM LevelsTypeCorrect == Spec => []TypeOK
<1>1. LevelsInv => TypeOK
  <2> SUFFICES ASSUME LevelsInv PROVE TypeOK
    OBVIOUS
  <2>1. EP!TypeOK
    BY DEF LevelsInv, EP!LInv
  <2>2. epoch \in Nat /\ now \in Nat /\ Plan \in E!Plans
    BY <2>1, PlanType, SamePlans
  <2> QED
    BY <2>2 DEF LevelsInv, HeldIsCurrent, LevelTypes, TypeOK, Level
<1> QED
  BY <1>1, LevelsInvHolds, PTL

\* No grant of another epoch is held, after any sequence of grants, revocations, epoch
\* changes and restarts.
THEOREM AuthorityCorrect == Spec => []AuthorityIsCurrent
<1>1. LevelsInv => AuthorityIsCurrent
  BY DEF LevelsInv, HeldIsCurrent
<1> QED
  BY <1>1, LevelsInvHolds, PTL

\* The levels in force keep every active hard obligation.
THEOREM ObligationsCorrect == Spec => []ObligationsKept
<1>1. LevelsInv => ObligationsKept
  BY DEF LevelsInv
<1> QED
  BY <1>1, LevelsInvHolds, PTL

\* From a rollback until the next rung is left nothing is in force above the target or
\* unobserved, in whatever state the plan is by then.
THEOREM TakenBackCorrect == Spec => []RollbackTakesBack
<1>1. LevelsInv => RollbackTakesBack
  BY DEF LevelsInv
<1> QED
  BY <1>1, LevelsInvHolds, PTL

\* A compensation steps from what was observed onto the target, or says what it cannot.
THEOREM CompensationCorrect == Spec => []CompensationLands
<1>1. LevelsInv => CompensationLands
  BY DEF LevelsInv
<1> QED
  BY <1>1, LevelsInvHolds, PTL

\* A plan that is completed was seen at its levels, within the tolerance, if its policy
\* requires evidence of completion.
THEOREM CompletionCorrect == Spec => []CompletedAsObserved
<1>1. LevelsInv => CompletedAsObserved
  BY DEF LevelsInv
<1> QED
  BY <1>1, LevelsInvHolds, PTL

\* No reading that lets a rung be left was made before the plan's last transition,
\* where the dwell time is no shorter than the age evidence may have.
THEOREM EvidenceCorrect == Spec => OwnEvidence
<1> DEFINE A == MaxEvidenceAge <= Dwell /\ LeavesRung(Plan, plans'[1]) => basis' >= Plan.updated
<1>1. LevelsInv /\ [Next]_vars => A
  <2> SUFFICES ASSUME LevelsInv, [Next]_vars, MaxEvidenceAge <= Dwell, LeavesRung(Plan, plans'[1])
               PROVE  basis' >= Plan.updated
    OBVIOUS
  <2>1. EP!TypeOK
    BY DEF LevelsInv, EP!LInv
  <2>2. PICK report \in Reports, g \in Int :
          Left(Readings(report, g), Verdict(Readings(report, g)))
    BY <2>1, LevelCases DEF Kept, Created, Landed
  <2>3. now - Plan.updated >= Dwell
    BY <2>2 DEF Left, LeftWith
  <2>4. basis' \in Nat /\ now - basis' <= MaxEvidenceAge
    BY <2>1, <2>2, LeftFacts
  <2> DEFINE a == MaxEvidenceAge
             u == Plan.updated
             b == basis'
  <2>5. now \in Nat /\ u \in Nat /\ a \in Nat /\ Dwell \in Nat
    BY <2>1, PlanType, AgeAssumption, DomainAssumption
  <2>6. b \in Nat /\ now - b <= a /\ now - u >= Dwell /\ a <= Dwell
    BY <2>3, <2>4
  <2> HIDE DEF a, u, b
  <2>7. b >= u
    BY <2>5, <2>6
  <2> QED
    BY <2>7 DEF u, b
<1>2. LevelsInv /\ [Next]_vars => [A]_vars
  BY <1>1
<1> QED
  BY <1>2, LevelsInvHolds, PTL DEF Spec, OwnEvidence

\* Where every rung but the first requires authority, as in scenario_policy, no level
\* rises above the constrained one without a live grant, or above its ceiling.  Without
\* the hypothesis a rung that keeps the target of the one before it may raise a level that
\* was clamped: the run AuthorityExceeded.
THEOREM AuthorityRespected ==
  ASSUME \A k \in DOMAIN Rungs \ {1} : Rungs[k].requiresAuthority
  PROVE  Spec => WithinAuthority
<1> DEFINE A ==
      \A r \in Resources :
        LevelOf(authorized', r) > LevelOf(authorized, r) /\ authorized'[r] > Constrained[r] =>
          /\ authority[r] # NoGrant /\ authority[r].epoch = epoch /\ now < authority[r].expires
          /\ authorized'[r] <= authority[r].ceiling
<1>1. LevelsInv /\ [Next]_vars => A
  <2> SUFFICES ASSUME LevelsInv, [Next]_vars, NEW r \in Resources,
                      LevelOf(authorized', r) > LevelOf(authorized, r),
                      authorized'[r] > Constrained[r]
               PROVE  /\ authority[r] # NoGrant /\ authority[r].epoch = epoch
                      /\ now < authority[r].expires /\ authorized'[r] <= authority[r].ceiling
    OBVIOUS
  <2>1. EP!TypeOK /\ HeldIsCurrent /\ LevelTypes
    BY DEF LevelsInv, EP!LInv
  <2>2. 1 \in DOMAIN Rungs /\ Constrained[r] \in Nat /\ RollbackTarget[r] \in Nat
        /\ RollbackTarget[r] <= Constrained[r]
    BY ConstrainedType
  <2>3. LevelOf(authorized, r) \in Nat
    BY <2>1 DEF LevelTypes, LevelOf
  <2>4. ASSUME Kept PROVE FALSE
    BY <2>3, <2>4 DEF Kept, LevelOf
  <2>5. ASSUME Created PROVE FALSE
    BY <2>2, <2>5 DEF Created
  <2>6. ASSUME NEW seen \in Sightings, Landed(seen) PROVE FALSE
    <3>1. CASE r \in DOMAIN authorized'
      BY <2>2, <2>6, <3>1, LandingFacts DEF Landed
    <3>2. CASE r \notin DOMAIN authorized'
      BY <2>3, <3>2 DEF LevelOf
    <3> QED
      BY <3>1, <3>2
  <2>7. PICK report \in Reports, g \in Int :
          Left(Readings(report, g), Verdict(Readings(report, g)))
    BY <2>1, <2>4, <2>5, <2>6, LevelCases
  <2>8. /\ authorized' = Candidate(Rung, authority) /\ Rung.target \in [Resources -> Nat]
        /\ Plan.index + 1 \in DOMAIN Rungs /\ ~CandidateRefused(Rung, authority, epoch, now)
    BY <2>1, <2>7, LeftFacts DEF Left
  <2>9. Rung.requiresAuthority
    <3>1. SUFFICES ASSUME Plan.index + 1 = 1 PROVE FALSE
      BY <2>8 DEF Rung
    <3>2. ~Rung.requiresAuthority /\ Rung.target = Constrained
      BY <3>1, LevelsAssumption DEF Rung, Constrained
    <3>3. authorized'[r] = Constrained[r]
      BY <2>8, <3>2 DEF Candidate
    <3> QED
      BY <2>2, <3>3
  <2> QED
    BY <2>1, <2>8, <2>9, GrantedLevels DEF HeldIsCurrent
<1>2. LevelsInv /\ [Next]_vars => [A]_vars
  BY <1>1
<1> QED
  BY <1>2, LevelsInvHolds, PTL DEF Spec, WithinAuthority

=============================================================================
