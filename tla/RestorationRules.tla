-------------------------- MODULE RestorationRules --------------------------
(***************************************************************************)
(* src/src/authority.cpp, obligations.cpp and restoration.cpp, with        *)
(* build_candidate_locked of engine.cpp: which grants are taken and are    *)
(* live, the levels a rung may be left with, the obligations they must     *)
(* keep, and the compensation of a rollback.  Pure definitions; a vector   *)
(* of levels is a function on the resources it has entries for.            *)
(***************************************************************************)
EXTENDS EvidenceRules

CONSTANTS
  Unit,         \* the unit of each resource's levels
  Obligations,  \* RecoveryPlan::obligations
  MaxDelta      \* kI64Max: the largest step of a compensation

-----------------------------------------------------------------------------
(* Authority.                                                              *)

\* RecoveryAuthority, which is held for its resource.
GrantRecords ==
  [generation : Nat, epoch : Nat, unit : Units, floor : Nat, ceiling : Nat,
   granted : Nat, expires : Nat]

NoGrant ==
  [generation |-> 0, epoch |-> 0, unit |-> "none", floor |-> 0, ceiling |-> 0,
   granted |-> 0, expires |-> 0]

WellFormed(g) == g.generation > 0 /\ g.floor <= g.ceiling /\ g.granted <= g.expires

\* AuthorityVector::put over the grant held: one that is neither of a newer
\* generation nor of a newer epoch is refused.
Takes(held, g) ==
  /\ WellFormed(g)
  /\ held # NoGrant => g.generation > held.generation \/ g.epoch > held.epoch

\* A mutant of Live: a grant never expires.
LiveForEver(g, epoch, t) == g # NoGrant /\ g.epoch = epoch

Live(g, epoch, t) == g # NoGrant /\ g.epoch = epoch /\ t < g.expires

-----------------------------------------------------------------------------
(* Candidate levels.                                                       *)

Clamp(v, lo, hi) == IF v < lo THEN lo ELSE IF v > hi THEN hi ELSE v

\* The target of a rung, within the grants if the rung requires authority: a floor
\* raises a level above what the rung requests.
Candidate(rung, authority) ==
  [r \in Resources |->
     IF rung.requiresAuthority
     THEN Clamp(rung.target[r], authority[r].floor, authority[r].ceiling)
     ELSE rung.target[r]]

Satisfied(o, level) ==
  IF o.bound = "floor" THEN level >= o.threshold ELSE level <= o.threshold

\* evaluate_obligation: an active hard obligation blocks when it is violated, and
\* when there is no level to judge it by.
Blocks(o, levels) ==
  /\ o.active /\ o.hard
  /\ o.resource \in DOMAIN levels => ~Satisfied(o, levels[o.resource])

\* A mutant of CandidateRefused: the obligations are judged by the rung's target,
\* before authority clamps it.
CandidateRefusedByTarget(rung, authority, epoch, t) ==
  \/ /\ rung.requiresAuthority
     /\ \E r \in Resources : ~Live(authority[r], epoch, t) \/ authority[r].unit # Unit[r]
  \/ \E o \in Obligations : Blocks(o, rung.target)

\* build_candidate_locked returns false.
CandidateRefused(rung, authority, epoch, t) ==
  \/ /\ rung.requiresAuthority
     /\ \E r \in Resources : ~Live(authority[r], epoch, t) \/ authority[r].unit # Unit[r]
  \/ \E o \in Obligations : Blocks(o, Candidate(rung, authority))

-----------------------------------------------------------------------------
(* Compensation.  "seen" is the observation a rollback starts from.        *)

\* RestorationAmount: an entry of the vector a rollback starts from.
SightingRecords == [level : Nat, known : BOOLEAN, unit : Units]

KnownAt(seen, r) == r \in DOMAIN seen /\ seen[r].known /\ seen[r].unit = Unit[r]

\* A mutant of AtTarget: what is not known is taken to be there.
AtTargetUnlessAbove(seen, target) ==
  {r \in DOMAIN target : KnownAt(seen, r) => seen[r].level <= target[r]}

\* already_at_target
AtTarget(seen, target) ==
  {r \in DOMAIN target : KnownAt(seen, r) /\ seen[r].level <= target[r]}

\* The steps: from the level observed, whatever was requested, down to the target.
\* An excess beyond the range of a step is not compensated.
Steps(seen, target) ==
  LET Above == {r \in DOMAIN target :
                  KnownAt(seen, r) /\ seen[r].level - target[r] \in 1..MaxDelta}
  IN [r \in Above |-> target[r] - seen[r].level]

\* Of the target what is not known, and of the observation what the target lacks.
Unobserved(seen, target) ==
  (DOMAIN target \ (AtTarget(seen, target) \cup DOMAIN Steps(seen, target)))
    \cup {r \in DOMAIN seen \ DOMAIN target : seen[r].known}

\* A mutant of Landing: a resource the target lacks keeps the level observed.
LandingOfAllSeen(seen, target) ==
  [r \in DOMAIN seen |-> IF r \in DOMAIN target THEN target[r] ELSE seen[r].level]

\* The levels in force after the rollback.
Landing(seen, target) ==
  [r \in AtTarget(seen, target) \cup DOMAIN Steps(seen, target) |-> target[r]]

\* build_compensating_plan, with the count of rollback() of the resources authorized
\* above the target that were not observed.
Compensation(seen, target, authorized) ==
  [seen |-> seen,
   steps |-> Steps(seen, target),
   atTarget |-> AtTarget(seen, target),
   unobserved |-> Unobserved(seen, target),
   assumed |-> {r \in DOMAIN authorized \cap DOMAIN target :
                  /\ authorized[r] > target[r]
                  /\ r \in DOMAIN seen => ~seen[r].known},
   landing |-> Landing(seen, target),
   complete |-> Unobserved(seen, target) = {}]
=============================================================================
