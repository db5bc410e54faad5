------------------------- MODULE MCRestorationLevels -------------------------
(* Small instances of RestorationLevels for TLC: two resources, a ladder   *)
(* like that of scenario_policy, and the grants, reports and observations  *)
(* that tell the branches of the code apart.                               *)
EXTENDS RestorationLevels

CONSTANTS r1, r2, r3

Two(a, b) == [r \in {r1, r2} |-> IF r = r1 THEN a ELSE b]
AllBytes == Two("bytes", "bytes")

Rate ==
  [kind |-> "SERVICE_RATE", boundResource |-> FALSE, stable |-> TRUE, affirmative |-> FALSE,
   hasMin |-> TRUE, minValue |-> 4, hasMax |-> FALSE, maxValue |-> 0,
   minSamples |-> 3, minDuration |-> 1, window |-> 1, minConfidence |-> 50, minProvenance |-> 2]
Cleared ==
  [Rate EXCEPT !.kind = "CONGESTION_CLEARED", !.hasMin = FALSE, !.stable = FALSE, !.affirmative = TRUE]
Stage(granted, a, b) ==
  [requiresAuthority |-> granted, target |-> Two(a, b),
   primary |-> Rate, others |-> {Cleared}]

\* The last rung leaves it to require_stable_completion to ask for stable readings.
LastStage == [Stage(TRUE, 6, 3) EXCEPT !.primary.stable = FALSE]

\* Every rung after the first requires authority, as in scenario_policy.
Authorized == <<Stage(FALSE, 2, 1), Stage(TRUE, 4, 2), LastStage>>
ThreeRungs == <<<<"OBSERVE", "PROBE", "COMPLETE">>>>

\* A rung that keeps the target of the one before need not require authority.
HoldUnauthorized == <<Stage(FALSE, 2, 1), Stage(TRUE, 4, 2), Stage(FALSE, 4, 2), LastStage>>
FourRungs == <<<<"OBSERVE", "PROBE", "HOLD", "COMPLETE">>>>

ConstrainedOrLess == Two(1, 1)
PreIntervention == Two(6, 3)

Obliged(r, bound, threshold, hard, active) ==
  [resource |-> r, bound |-> bound, threshold |-> threshold, hard |-> hard, active |-> active]
Protected ==
  {Obliged(r1, "ceiling", 6, TRUE, TRUE), Obliged(r2, "floor", 1, TRUE, TRUE),
   Obliged(r1, "ceiling", 3, FALSE, TRUE), Obliged(r2, "floor", 3, TRUE, FALSE)}

Of(generation, floor, ceiling, expires) ==
  [NoGrant EXCEPT !.generation = generation, !.unit = "bytes", !.floor = floor,
                  !.ceiling = ceiling, !.expires = expires]
\* A grant for all that is asked for that ends early, one that allows less, and one that
\* demands more than an obligation bears.
SomeGrants ==
  Two({Of(1, 0, 7, 3), Of(2, 0, 3, 9), Of(3, 7, 7, 9)},
      {Of(1, 0, 7, 9)})

Reading(id, kind, r, value, lag) ==
  [id |-> id, generation |-> id, kind |-> kind, resource |-> r, planGen |-> 1, policyGen |-> 1,
   epoch |-> 0, provenance |-> 3, confidence |-> 90, at |-> lag, duration |-> 1, samples |-> 4,
   value |-> value, unit |-> "bytes", stable |-> TRUE, affirmative |-> value # 0]
RateOf(value) == <<Reading(1, "SERVICE_RATE", "none", value, 0)>>
ClearedOf(value) == <<Reading(2, "CONGESTION_CLEARED", "none", value, 0)>>
AppliedOf(r, value) == <<Reading(3, "APPLIED_RESTORATION", r, value, 0)>>
Good == RateOf(6) \o ClearedOf(1)
Full == Good \o AppliedOf(r1, 6) \o AppliedOf(r2, 3)
Late(report, lag) == [k \in DOMAIN report |-> [report[k] EXCEPT !.at = lag, !.planGen = 0]]
SomeReports ==
  {Full,
   Late(Full, 1), Late(Full, 2),                             \* bound to no generation
   Good \o AppliedOf(r1, 3) \o AppliedOf(r2, 3),             \* one level as clamped
   Good \o AppliedOf(r1, 6),                                 \* one level unseen
   [k \in DOMAIN Full |-> [Full[k] EXCEPT !.stable = FALSE]], \* not stable
   Full \o <<Reading(4, "APPLIED_RESTORATION", r1, 6, 1),    \* a level that has fallen
             Reading(5, "APPLIED_RESTORATION", r1, 1, 0)>>,
   RateOf(6) \o ClearedOf(0),                                \* not cleared
   RateOf(4) \o ClearedOf(1),                                \* in the hold band
   RateOf(1) \o ClearedOf(1),                                \* recurrence
   Good \o RateOf(1),                                        \* contradictory
   <<Reading(7, "SERVICE_RATE", "none", 1, 1)>> \o Good}     \* recurrence is over

At(level) == [level |-> level, known |-> TRUE, unit |-> "bytes"]
Unknown == [At(0) EXCEPT !.known = FALSE]
SomeSightings ==
  {Two(At(4), At(1)),                                 \* compensated
   Two(At(1), At(0)),                                 \* at the target
   Two(Unknown, [At(3) EXCEPT !.unit = "flows"]),
   [r \in {r1, r2, r3} |-> At(IF r = r1 THEN 6 ELSE 1)]}  \* out of range, and a stray one
=============================================================================
