--------------------------- MODULE StagedRecovery ---------------------------
(***************************************************************************)
(* What a coordinator promises of one recovery, however its workers and    *)
(* itself may fail: the ladder is climbed one rung at a time, a rung is    *)
(* left only when it was applied, a rung is durable before the next one is *)
(* left, and a restart goes on from the durable rung.                      *)
(***************************************************************************)
EXTENDS Naturals

CONSTANT Top  \* the number of rungs

VARIABLES
  rung,     \* rungs left behind
  applied,  \* the present attempt was applied by the worker that holds it
  saved     \* the durable rung

vars == <<rung, applied, saved>>

Init == rung = 0 /\ applied = FALSE /\ saved = 0

Apply == ~applied /\ applied' = TRUE /\ UNCHANGED <<rung, saved>>

Climb ==
  /\ applied /\ saved = rung /\ rung < Top
  /\ rung' = rung + 1 /\ applied' = FALSE
  /\ UNCHANGED saved

Save == saved' = rung /\ UNCHANGED <<rung, applied>>

\* The holder of the attempt is lost.
Abandon == applied' = FALSE /\ UNCHANGED <<rung, saved>>

Restart == rung' = saved /\ applied' = FALSE /\ UNCHANGED saved

Next == Apply \/ Climb \/ Save \/ Abandon \/ Restart

Spec == Init /\ [][Next]_vars
=============================================================================
