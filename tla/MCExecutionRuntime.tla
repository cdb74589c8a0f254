-------------------------- MODULE MCExecutionRuntime -------------------------
(***************************************************************************)
(* Plans of the planner's templates, casts of threads that run them, and   *)
(* the timing assumptions of the runs.                                     *)
(***************************************************************************)
EXTENDS RuntimeContract

CONSTANTS w1, w2, api1, api2, nobody

\* Casts
NoWorker == {}
OneWorker == {w1}
OneThread == {api1}
TwoThreads == {api1, api2}
MixedCast == {w1, api1}

\* Timing
Unhurried == {"lease", "caller", "backoff"}
HastyReviewer == {"lease", "backoff"}

\* Policy decisions, attempts and failures
Restrained == {"approval", "deny"}
Gated == {"approval"}
NoStep == {}
Once == [s \in Step |-> 1]
TargetStep == {Target}
RetryTarget == [s \in Step |-> IF IsTarget(s) THEN 2 ELSE 1]

\* _build_rewrite_steps: prepare, policy, save; and with a human review
Chain == [s \in Step |-> {t \in Step : t = s - 1}]
RewriteKind == <<"prepare", "policy", "tool">>
ReviewedRewriteKind == <<"prepare", "policy", "human", "tool">>

\* _build_artifact_then_packs_steps: prepare, save, policy, dispatch; and with a human
\* review of the prepared text and the staging of a memory candidate at the end
DispatchKind == <<"prepare", "tool", "policy", "tool">>
LongestKind == <<"prepare", "human", "tool", "policy", "tool", "memory">>
LongestDeps == <<{}, {1}, {2}, {3}, {4}, {3, 4, 5}>>
=============================================================================
