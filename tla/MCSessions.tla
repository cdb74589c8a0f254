------------------------------ MODULE MCSessions ------------------------------
(***************************************************************************)
(* Sessions of several plans, casts and faults: instances of               *)
(* ExecutionRuntime and of Replanning over the same variables.  `part`     *)
(* says which of them a behaviour is of; it never changes, and what the    *)
(* other instances alone have stays as it is.                              *)
(***************************************************************************)
EXTENDS Naturals, FiniteSets, TLC

CONSTANTS w1, w2, api1, api2, nobody

VARIABLES
  part,
  session, step, attempts, row,                                  \* ExecutionLedger
  verdict, approvals, tasks, effects, local, lapses,             \* ExecutionRuntime
  made, key, origin, replans, calls, ready, done,                \* Replanning
  pc, item, crashes                                              \* both

runtimeOnly == <<verdict, approvals, tasks, effects, local, lapses>>
replanOnly == <<made, key, origin, replans, calls, ready, done>>
shared == <<session, step, attempts, row, pc, item, crashes>>
vars == <<part, shared, runtimeOnly, replanOnly>>

-----------------------------------------------------------------------------
(* Casts, timing and plans. *)

TwoThreads == {api1, api2}
Mixed == {w1, api1}

Punctual == {"lease", "reviewer", "backoff"}
Unhurried == {"lease", "caller", "backoff"}
LongHandlers == {"reviewer", "backoff"}

AnyVerdict == {"allow", "approval", "deny"}
Allowed == {"allow"}

Chain(n) == [s \in 1..n |-> {t \in 1..n : t = s - 1}]
Once(n) == [s \in 1..n |-> 1]
TwiceAt(n, last) == [Once(n) EXCEPT ![last] = 2]

\* _build_rewrite_steps: prepare, policy, save.
Rewrite == <<"prepare", "policy", "tool">>

\* _build_artifact_then_packs_steps with a human review and the staging of a
\* memory candidate: prepare, review, save, policy, dispatch, stage.
Dispatch == <<"prepare", "human", "tool", "policy", "tool", "memory">>
DispatchDeps == <<{}, {1}, {2}, {3}, {4}, {3, 4, 5}>>

\* The graph of tests/test_step_parent_projection_contracts.py: prepare, then
\* the policy and a sidecar save, then a save that depends on both.
Graph == <<"prepare", "policy", "tool", "tool">>
GraphDeps == <<{}, {1}, {1}, {2, 3}>>

-----------------------------------------------------------------------------
(* The instances. *)

\* Two API threads, every decision of the policy, and the reviewer's answer.
Approval == INSTANCE ExecutionRuntime WITH
  N <- 3, NoOne <- nobody, Actor <- TwoThreads, Worker <- {}, Inline <- TwoThreads,
  Requester <- api1, Kind <- Rewrite, Deps <- Chain(3), MaxAttempts <- Once(3),
  CanFail <- {}, Delayed <- {}, Verdict <- AnyVerdict, Slow <- Punctual,
  ApprovalTtl <- FALSE, MaxRounds <- 1, MaxLapses <- 0, MaxCrashes <- 0

\* The longest template: a review, a gated dispatch that may fail, a memory step.
Reviewed == INSTANCE RuntimeContract WITH
  N <- 6, NoOne <- nobody, Actor <- Mixed, Worker <- {w1}, Inline <- {api1},
  Requester <- api1, Kind <- Dispatch, Deps <- DispatchDeps, MaxAttempts <- TwiceAt(6, 5),
  CanFail <- {5}, Delayed <- {5}, Verdict <- AnyVerdict, Slow <- Unhurried,
  ApprovalTtl <- FALSE, MaxRounds <- 1, MaxLapses <- 0, MaxCrashes <- 0

\* Two steps at once and one that waits for both.
Parallel == INSTANCE RuntimeContract WITH
  N <- 4, NoOne <- nobody, Actor <- Mixed, Worker <- {w1}, Inline <- {api1},
  Requester <- api1, Kind <- Graph, Deps <- GraphDeps, MaxAttempts <- Once(4),
  CanFail <- {}, Delayed <- {}, Verdict <- Allowed, Slow <- Punctual,
  ApprovalTtl <- FALSE, MaxRounds <- 1, MaxLapses <- 0, MaxCrashes <- 0

\* A process dies, its lease runs out, another takes the row over.
Takeover == INSTANCE ExecutionRuntime WITH
  N <- 3, NoOne <- nobody, Actor <- Mixed, Worker <- {w1}, Inline <- {api1},
  Requester <- api1, Kind <- Rewrite, Deps <- Chain(3), MaxAttempts <- Once(3),
  CanFail <- {3}, Delayed <- {}, Verdict <- Allowed, Slow <- Punctual,
  ApprovalTtl <- FALSE, MaxRounds <- 1, MaxLapses <- 1, MaxCrashes <- 1

\* The API process dies while a session waits for approval, which may expire.
Interrupted == INSTANCE ExecutionRuntime WITH
  N <- 3, NoOne <- nobody, Actor <- TwoThreads, Worker <- {}, Inline <- TwoThreads,
  Requester <- api1, Kind <- Rewrite, Deps <- Chain(3), MaxAttempts <- TwiceAt(3, 3),
  CanFail <- {3}, Delayed <- {3}, Verdict <- AnyVerdict, Slow <- Punctual,
  ApprovalTtl <- TRUE, MaxRounds <- 1, MaxLapses <- 1, MaxCrashes <- 1

\* A handler outlives its lease.
Overdue == INSTANCE ExecutionRuntime WITH
  N <- 3, NoOne <- nobody, Actor <- Mixed, Worker <- {w1}, Inline <- {api1},
  Requester <- api1, Kind <- Rewrite, Deps <- Chain(3), MaxAttempts <- Once(3),
  CanFail <- {}, Delayed <- {}, Verdict <- Allowed, Slow <- LongHandlers,
  ApprovalTtl <- FALSE, MaxRounds <- 1, MaxLapses <- 1, MaxCrashes <- 0

\* prepare, two tools that may be replaced, a step that joins them.
Fork == INSTANCE Replanning WITH
  NoOne <- nobody, Actor <- {w1, w2}, Plan <- 4, N <- 6,
  Deps <- <<{}, {1}, {1}, {2, 3}>>, Replannable <- {2, 3}, CanFail <- {2, 3},
  MaxReplans <- 1, MaxCrashes <- 0

\* One tool that may be replaced twice, and a worker that dies.
Dies == INSTANCE Replanning WITH
  NoOne <- nobody, Actor <- {w1, w2}, Plan <- 3, N <- 5,
  Deps <- Chain(3), Replannable <- {2}, CanFail <- {2},
  MaxReplans <- 1, MaxCrashes <- 1

ASSUME Fork!ReplanAssumption /\ Dies!ReplanAssumption

-----------------------------------------------------------------------------

Init ==
  \/ /\ \/ part = "approval" /\ Approval!Init
        \/ part = "reviewed" /\ Reviewed!Init
        \/ part = "parallel" /\ Parallel!Init
        \/ part = "takeover" /\ Takeover!Init
        \/ part = "interrupted" /\ Interrupted!Init
        \/ part = "overdue" /\ Overdue!Init
     /\ made = 0 /\ key = 0 /\ origin = 0 /\ replans = 0
     /\ calls = 0 /\ ready = 0 /\ done = 0
  \/ /\ \/ part = "fork" /\ Fork!Init
        \/ part = "dies" /\ Dies!Init
     /\ verdict = 0 /\ approvals = 0 /\ tasks = 0 /\ effects = 0
     /\ local = 0 /\ lapses = 0

Next ==
  /\ UNCHANGED part
  /\ \/ /\ \/ part = "approval" /\ Approval!Next
           \/ part = "reviewed" /\ Reviewed!Next
           \/ part = "parallel" /\ Parallel!Next
           \/ part = "takeover" /\ Takeover!Next
           \/ part = "interrupted" /\ Interrupted!Next
           \/ part = "overdue" /\ Overdue!Next
        /\ UNCHANGED replanOnly
     \/ /\ \/ part = "fork" /\ Fork!Next
           \/ part = "dies" /\ Dies!Next
        /\ UNCHANGED runtimeOnly

\* Where a property of a part needs it: running threads go on, workers poll, the
\* clock advances, and pending approvals and open tasks are answered.
Runs(a) ==
  \/ /\ \/ part = "approval" /\ a \in TwoThreads /\ Approval!Thread(a)
        \/ part = "reviewed" /\ a \in Mixed /\ Reviewed!Thread(a)
        \/ part = "takeover" /\ a \in Mixed /\ Takeover!Thread(a)
     /\ UNCHANGED <<part, replanOnly>>
  \/ /\ part = "fork" /\ a \in {w1, w2} /\ Fork!Thread(a)
     /\ UNCHANGED <<part, runtimeOnly>>

Polls(w) ==
  \/ /\ \/ part = "reviewed" /\ w = w1 /\ Reviewed!LeaseNext(w)
        \/ part = "takeover" /\ w = w1 /\ Takeover!LeaseNext(w)
     /\ UNCHANGED <<part, replanOnly>>
  \/ /\ part = "fork" /\ Fork!LeaseNext(w)
     /\ UNCHANGED <<part, runtimeOnly>>

Decided ==
  /\ \/ part = "approval" /\ \E a \in TwoThreads : Approval!Approve(a) \/ Approval!Reject(a)
     \/ part = "reviewed" /\ (Reviewed!Approve(api1) \/ Reviewed!Reject(api1))
  /\ UNCHANGED <<part, replanOnly>>

Returned ==
  /\ part = "reviewed" /\ Reviewed!ReturnTask(api1)
  /\ UNCHANGED <<part, replanOnly>>

Ticks ==
  /\ \/ part = "reviewed" /\ Reviewed!Clock
     \/ part = "takeover" /\ Takeover!Clock
  /\ UNCHANGED <<part, replanOnly>>

Fairness ==
  /\ \A a \in {w1, w2, api1, api2} : WF_vars(Runs(a))
  /\ \A w \in {w1, w2} : WF_vars(Polls(w))
  /\ WF_vars(Decided) /\ WF_vars(Returned) /\ WF_vars(Ticks)

Spec == Init /\ [][Next]_vars /\ Fairness

-----------------------------------------------------------------------------
(* The properties of ExecutionRuntime and Replanning, in the parts where they hold: *)
(* the assumptions each needs are the constants of the part.                        *)

\* A gated tool runs only after an approval, also when the API process dies while the
\* approval is pending or expires.
GateSafety ==
  /\ part = "approval" => Approval!GateSafety
  /\ part = "reviewed" => Reviewed!GateSafety
  /\ part = "interrupted" => Interrupted!GateSafety

\* No continuation is lost, whoever closes the last row and when: the session ends
\* with an outcome, and only a dead worker leaves it in "replanning".  (A dead process
\* may well strand a session: not in the parts with crashes.)
NothingStranded ==
  /\ part = "approval" => Approval!NothingStranded
  /\ part = "reviewed" => Reviewed!NothingStranded
  /\ part = "parallel" => Parallel!NothingStranded
  /\ part = "overdue" => Overdue!NothingStranded
  /\ part = "fork" => Fork!ReplanningEnds
  /\ part = "dies" => Dies!ReplanningEnds

\* Takeovers, crashes and replacements are accounted for: a tool's effect is repeated
\* only for a counted attempt or a lease that ran out, attempts stay within their limit,
\* and of a plan step that was replaced one replacement is made and one effect happens,
\* once more for a dead worker.
EffectsBounded ==
  /\ part = "takeover" => Takeover!EffectsCounted
  /\ part = "interrupted" => Interrupted!EffectsCounted /\ Interrupted!AttemptsBounded
  /\ part = "overdue" => Overdue!EffectsCounted
  /\ part = "fork" => Fork!TypeOK /\ Fork!CarriedOutOnce /\ Fork!ReplacedOnce
  /\ part = "dies" => Dies!TypeOK /\ Dies!CarriedOutOnce /\ Dies!ReplacedOnce

\* Effects follow the dependencies, through reviews, parallel branches, retries and
\* replacements.
DependencyOrder ==
  [][/\ part = "reviewed" => Reviewed!InOrder
     /\ part = "parallel" => Parallel!InOrder
     /\ part = "fork" => Fork!InOrder]_vars

\* RuntimeContract: whoever runs them, reviews, retries, a gated dispatch and parallel
\* branches keep what SessionContract promises to whoever submitted the plan.
KeepsContract ==
  /\ part = "reviewed" => Reviewed!ContractBegins
  /\ part = "parallel" => Parallel!ContractBegins
  /\ [][/\ part = "reviewed" => Reviewed!ContractStep
        /\ part = "parallel" => Parallel!ContractStep]_vars

\* Two branches that end at once, a dead process or a reopened step never lead to a
\* completed session with a step left, and a completed session stays completed.
CompletedForGood ==
  /\ [](/\ part = "parallel" => Parallel!CompletedMeansAllDone
        /\ part = "interrupted" => Interrupted!CompletedMeansAllDone)
  /\ [][/\ part = "approval" => Approval!KeepsOutcome
        /\ part = "interrupted" => Interrupted!KeepsOutcome]_vars

\* Every session without a crash gets an outcome for good; the rows of a dead process
\* are taken over; every replacement is run, or the session ends first.
Settles ==
  /\ part \in {"approval", "reviewed"} ~>
       [](session \in {"completed", "failed", "blocked"})
  /\ part = "takeover" /\ Takeover!SomeActive /\ Takeover!Runnable
       ~> ~(Takeover!SomeActive /\ Takeover!Runnable)
  /\ part = "fork" /\ made > 4
       ~> (part = "fork" =>
             session = "failed" \/ \A s \in 5..made : step[s] \in {"completed", "failed"})
=============================================================================
