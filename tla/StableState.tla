----------------------------- MODULE StableState -----------------------------
(***************************************************************************)
(* What a durable store promises a coordinator: an atomic register.  A     *)
(* process works on a copy in memory, makes the copy stable in one step    *)
(* and is told so afterwards; it may stop at any moment, and the next      *)
(* process starts from the stable state.                                   *)
(***************************************************************************)
EXTENDS Naturals

VARIABLES
  up,      \* a process is running
  memory,  \* the state it works on
  stable,  \* the state that survives it
  acked    \* the last state a caller was told is stable

vars == <<up, memory, stable, acked>>

Init == up = FALSE /\ memory = 0 /\ stable = 0 /\ acked = 0

Start == ~up /\ up' = TRUE /\ memory' = stable /\ UNCHANGED <<stable, acked>>

\* Every change makes a state that never was before.
Work == up /\ memory' > memory /\ UNCHANGED <<up, stable, acked>>

Commit == up /\ stable' = memory /\ UNCHANGED <<up, memory, acked>>

\* A caller is told of the state in memory, once it is stable.  The process may
\* stop with it.
Acknowledge ==
  up /\ stable = memory /\ acked' = memory /\ up' \in BOOLEAN /\ UNCHANGED <<memory, stable>>

Stop == up /\ up' = FALSE /\ UNCHANGED <<memory, stable, acked>>

Next == Start \/ Work \/ Commit \/ Acknowledge \/ Stop

Spec == Init /\ [][Next]_vars
=============================================================================
