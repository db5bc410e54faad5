------------------------ MODULE MCCoordinatorSession ------------------------
(* Small instances of CoordinatorSession for TLC: two appliers and two     *)
(* observers, each pair one worker of two boots, and a process that        *)
(* replays what the first applier recorded.                                *)
EXTENDS CoordinatorSession

CONSTANTS a1, a2, o1, o2, replay

AllProcesses == {a1, a2, o1, o2, replay}

Worker == [p \in Processes |-> IF p \in {o1, o2} THEN 2 ELSE 1]
Boot == [p \in Processes |-> IF p \in {a2, o2} THEN 2 ELSE 1]
Role ==
  [p \in Processes |->
     IF p = replay THEN "replay" ELSE IF p \in {o1, o2} THEN "observer" ELSE "applier"]
RecordedBy == [p \in Processes |-> a1]

\* The second run is the restart: its workers are of a newer boot.
InTwoRuns == <<{a1, a2, o1, replay}, {a2, o2, replay}>>

\* The first two rungs of scenario_policy and its last.
ThreeRungs == <<"OBSERVE", "PROBE", "COMPLETE">>

\* This instance is one the theorem about ProvidedRunSucceeds speaks of.
ASSUME InstanceIsConfigured == Configured
=============================================================================
