-------------------------- MODULE MCRecoveryEngine --------------------------
(* Small instances of RecoveryEngine for TLC: the ladders of the policy    *)
(* generations, one value per configuration.                               *)
EXTENDS RecoveryEngine

\* One generation with three rungs.
OneLadder == <<<<"OBSERVE", "PROBE", "COMPLETE">>>>

\* A second generation that drops a rung.
ShrinkingLadders == <<<<"OBSERVE", "PROBE", "COMPLETE">>, <<"OBSERVE", "COMPLETE">>>>

\* The shortest ladder validate_policy accepts.
ShortLadder == <<<<"OBSERVE", "COMPLETE">>>>

\* What each generation of the policy does on recurrence.
RollbackThenPause == <<"ROLLBACK", "PAUSE">>
RollbackOnRecurrence == <<"ROLLBACK">>
FailOnRecurrence == <<"FAIL">>
=============================================================================
