--------------------------- MODULE PlanLifecycle ---------------------------
(***************************************************************************)
(* What a client of the engine is promised of its plans, whatever it calls *)
(* and in whatever order: a plan climbs and completes only while it moves, *)
(* one rung at a time up to the last one of the policy in force; a change  *)
(* of epoch or of policy makes every live plan stale at once, and only a   *)
(* new term takes a stale plan on; a terminal plan stays as it is.         *)
(***************************************************************************)
EXTENDS Naturals

CONSTANTS
  PlanIds,
  Top       \* of each policy generation: how many rungs it has

VARIABLES
  era,      \* the epoch and the policy generation in force
  view      \* of each plan: its phase, its rung and its term

vars == <<era, view>>

Phases == {"none", "moving", "held", "stale", "completed", "failed"}

At(phase, rung, term) == [phase |-> phase, rung |-> rung, term |-> term]

Nothing == At("none", 0, 0)

Live(v) == v.phase \in {"moving", "held", "stale"}

Stale(v) == IF Live(v) THEN At("stale", v.rung, v.term) ELSE v

\* The plan has this rung under the policy in force.
Has(rung) == rung < Top[era[2]]

Becomes(i, v) == view' = [view EXCEPT ![i] = v] /\ UNCHANGED era

Init == era = <<1, 1>> /\ view = [i \in PlanIds |-> Nothing]

Open(i) == view[i].phase = "none" /\ Becomes(i, At("moving", 0, 1))

Close(i) == view[i].phase \in {"completed", "failed"} /\ Becomes(i, Nothing)

\* A plan that is held neither climbs nor completes until it is released.
Hold(i) ==
  view[i].phase = "moving" /\ Becomes(i, At("held", view[i].rung, view[i].term))

Release(i) ==
  view[i].phase = "held" /\ Becomes(i, At("moving", view[i].rung, view[i].term))

Climb(i) ==
  /\ view[i].phase = "moving" /\ Has(view[i].rung + 1)
  /\ Becomes(i, At("moving", view[i].rung + 1, view[i].term))

Complete(i) ==
  /\ view[i].phase = "moving" /\ Has(view[i].rung) /\ ~Has(view[i].rung + 1)
  /\ Becomes(i, At("completed", view[i].rung, view[i].term))

\* Any live plan may be given a new term, on the rung it is on.
Renew(i) ==
  /\ Live(view[i]) /\ Has(view[i].rung)
  /\ Becomes(i, At("moving", view[i].rung, view[i].term + 1))

\* A plan may fail at any time, also on the rung it climbs to or in the term it
\* is about to get.
Fail(i) ==
  /\ Live(view[i])
  /\ \/ Becomes(i, At("failed", view[i].rung, view[i].term))
     \/ Becomes(i, At("failed", view[i].rung, view[i].term + 1))
     \/ /\ view[i].phase = "moving" /\ Has(view[i].rung + 1)
        /\ Becomes(i, At("failed", view[i].rung + 1, view[i].term))

\* A completed plan fails only where the policy in force has lost its rung.
Withdraw(i) ==
  /\ view[i].phase = "completed" /\ ~Has(view[i].rung)
  /\ Becomes(i, At("failed", view[i].rung, view[i].term))

\* Plans are made stale: live ones are, others stay as they are.
Doubt ==
  \E S \in SUBSET PlanIds :
    /\ view' = [i \in PlanIds |-> IF i \in S THEN Stale(view[i]) ELSE view[i]]
    /\ UNCHANGED era

\* A later epoch or policy generation: no live plan goes on as it was.
NewEra ==
  /\ era' # era /\ era'[1] >= era[1] /\ era'[2] >= era[2]
  /\ view' = [i \in PlanIds |-> Stale(view[i])]

Next ==
  \/ NewEra
  \/ Doubt
  \/ \E i \in PlanIds :
       \/ Open(i) \/ Close(i) \/ Hold(i) \/ Release(i) \/ Climb(i)
       \/ Complete(i) \/ Renew(i) \/ Fail(i) \/ Withdraw(i)

Spec == Init /\ [][Next]_vars
=============================================================================
