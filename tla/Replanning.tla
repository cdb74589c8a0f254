------------------------------ MODULE Replanning ------------------------------
(***************************************************************************)
(* Steps with failure_strategy "replan": a tool call that fails is         *)
(* replaced at run time by a new step that calls another tool of the same  *)
(* capability (services/replanning.py), so the steps of the session grow.  *)
(*                                                                         *)
(* Queue workers run the session; the API thread that started it has       *)
(* enqueued its first step and takes no further part.  As in               *)
(* ExecutionRuntime every action is one statement on the ledger with the   *)
(* local code up to the next one.  A handler is assumed to end before its  *)
(* lease does, so only the lease of a dead worker runs out.                *)
(***************************************************************************)
EXTENDS ExecutionLedger, FiniteSetsExt

CONSTANTS
  Plan,        \* plan_step_keys, 1..Plan; the ledger's N bounds the steps
  Deps,        \* per key: depends_on
  Replannable, \* keys with failure_strategy = "replan"
  CanFail,     \* keys whose tool may raise
  MaxReplans,  \* replan_max_attempts
  MaxCrashes   \* bound: worker crashes

PlanKey == 1..Plan

ReplanAssumption ==
  /\ Plan \in 1..N
  /\ Deps \in [PlanKey -> SUBSET PlanKey]
  /\ Replannable \subseteq CanFail /\ CanFail \subseteq PlanKey
  /\ MaxReplans \in Nat /\ MaxCrashes \in Nat

VARIABLES
  made,     \* steps 1..made exist, in the order of created_at
  key,      \* per step: plan_step_key
  origin,   \* per step: replan_from_step_id, or 0
  replans,  \* per step: replan_attempts
  calls,    \* per step: tool invocations
  pc,       \* per worker: the statement it executes next
  item,     \* per worker: the step whose row it works on
  ready,    \* per worker: ready steps not enqueued yet
  done,     \* per worker: were all steps completed when it read them?
  crashes

records == <<made, key, origin, replans, calls>>
threads == <<pc, item, ready, done>>
vars == <<ledgerVars, records, threads, crashes>>

Made == 1..made

Init ==
  /\ session = "running"
  /\ step = [s \in Step |-> "queued"]
  /\ attempts = [s \in Step |-> 0]
  /\ row = [s \in Step |->
       IF s = 1 THEN [AbsentRow EXCEPT !.state = "queued"] ELSE AbsentRow]
  /\ made = Plan
  /\ key = [s \in Step |-> IF s \in PlanKey THEN s ELSE 0]
  /\ origin = [s \in Step |-> 0]
  /\ replans = [s \in Step |-> 0]
  /\ calls = [s \in Step |-> 0]
  /\ pc = [a \in Actor |-> "idle"]
  /\ item = [a \in Actor |-> 1]
  /\ ready = [a \in Actor |-> {}]
  /\ done = [a \in Actor |-> FALSE]
  /\ crashes = 0

\* The statements at which a worker has a leased row in its hands.
RowInHand ==
  {"start", "mark", "run", "invoked", "close", "replace", "enqueue_new", "requeue",
   "fail_replanned"}

Move(a, from, to) ==
  /\ pc[a] = from
  /\ pc' = [pc EXCEPT ![a] = to]

\* A statement that writes the session, or one step.
SessionWrite(a, from, status, to) ==
  /\ Move(a, from, to)
  /\ SetSession(status)
  /\ UNCHANGED <<step, attempts, row, records, item, ready, done, crashes>>

StepWrite(a, from, state, to) ==
  /\ Move(a, from, to)
  /\ UpdateStep(item[a], state)
  /\ attempts' = [attempts EXCEPT ![item[a]] = row[item[a]].attempt]
  /\ UNCHANGED <<session, row, records, item, ready, done, crashes>>

RowFails(a, from, to) ==
  /\ Move(a, from, to)
  /\ FailRow(item[a])
  /\ UNCHANGED <<session, step, attempts, records, item, ready, done, crashes>>

-----------------------------------------------------------------------------
(* _execute_leased_queue_item, up to the answer of the tool. *)

LeaseNext(a) ==
  /\ Move(a, "idle", "start")
  /\ \E s \in Step :
       /\ Oldest(s)
       /\ LeaseRow(s, a)
       /\ item' = [item EXCEPT ![a] = s]
  /\ UNCHANGED <<session, step, attempts, records, ready, done, crashes>>

Start(a) == SessionWrite(a, "start", "running", "mark")

Mark(a) == StepWrite(a, "mark", "running", "run")

Invoke(a) ==
  /\ Move(a, "run", "invoked")
  /\ calls' = [calls EXCEPT ![item[a]] = @ + 1]
  /\ UNCHANGED <<ledgerVars, made, key, origin, replans, item, ready, done, crashes>>

Complete(a) == StepWrite(a, "invoked", "completed", "close")

Close(a) ==
  /\ Move(a, "close", "next")
  /\ CompleteRow(item[a])
  /\ UNCHANGED <<session, step, attempts, records, item, ready, done, crashes>>

-----------------------------------------------------------------------------
(* The tool raised.  A "replan" step is never retried. *)

Raises(a) == pc[a] \in {"run", "invoked"} /\ key[item[a]] \in CanFail

\* Bound: there is a step left for every replacement under way and one more.
Room == made + Cardinality({a \in Actor : pc[a] = "replace"}) < N

\* request_replan goes ahead.
MayReplan(s) ==
  /\ key[s] \in Replannable
  /\ replans[s] < MaxReplans
  /\ Room

Replan(a) ==
  /\ Raises(a) /\ MayReplan(item[a])
  /\ SessionWrite(a, pc[a], "replanning", "replace")

\* start_step with the failed step's input, another tool and one attempt more.
StartReplacement(a) ==
  /\ Move(a, "replace", "enqueue_new")
  /\ made' = made + 1
  /\ key' = [key EXCEPT ![made + 1] = key[item[a]]]
  /\ origin' = [origin EXCEPT ![made + 1] = item[a]]
  /\ replans' = [replans EXCEPT ![made + 1] = replans[item[a]] + 1]
  /\ UNCHANGED <<ledgerVars, calls, item, ready, done, crashes>>

\* The replacement this worker has just started.
Replacement(a) == Max({s \in Made : origin[s] = item[a]})

EnqueueReplacement(a) ==
  /\ Move(a, "enqueue_new", "requeue")
  /\ EnqueueRow(Replacement(a))
  /\ UNCHANGED <<session, step, attempts, records, item, ready, done, crashes>>

\* Mutant of Requeue: the session stays in "replanning".
RequeueForgotten(a) == SessionWrite(a, "requeue", session, "fail_replanned")

Requeue(a) == SessionWrite(a, "requeue", "queued", "fail_replanned")

FailReplanned(a) == RowFails(a, "fail_replanned", "step_replanned")

StepReplanned(a) == StepWrite(a, "step_replanned", "failed", "idle")

\* Not a "replan" step, attempts exhausted, or no other tool is executable: the
\* session fails and the exception ends the call.
FailItem(a) ==
  /\ Raises(a)
  /\ RowFails(a, pc[a], "fail_step")

FailStep(a) == StepWrite(a, "fail_step", "failed", "fail_session")

FailSession(a) == SessionWrite(a, "fail_session", "failed", "idle")

-----------------------------------------------------------------------------
(* queue_next_step_after of a worker whose step has completed. *)

\* _dependency_lookup: of the steps with one key the last one is kept.
Current(k) == Max({s \in Made : key[s] = k})

AllCompleted == \A s \in Made : step[s] = "completed"

ReadSteps(a) ==
  /\ Move(a, "next", "scan")
  /\ done' = [done EXCEPT ![a] = AllCompleted]
  /\ UNCHANGED <<ledgerVars, records, item, ready, crashes>>

\* ready_steps reads the steps, and then the queue.
Scan(a) ==
  /\ Move(a, "scan", "filter")
  /\ ready' = [ready EXCEPT ![a] = {s \in Made :
       /\ step[s] = "queued"
       /\ \A d \in Deps[key[s]] : step[Current(d)] = "completed"}]
  /\ UNCHANGED <<ledgerVars, records, item, done, crashes>>

Filter(a) ==
  LET left == {s \in ready[a] : ~ActiveRow(s)} IN
  /\ Move(a, "filter", IF left = {} THEN "finish" ELSE "enqueue")
  /\ ready' = [ready EXCEPT ![a] = left]
  /\ UNCHANGED <<ledgerVars, records, item, done, crashes>>

EnqueueOne(a) ==
  LET s == Min(ready[a]) IN
  /\ Move(a, "enqueue", IF ready[a] = {s} THEN "idle" ELSE "enqueue")
  /\ EnqueueRow(s)
  /\ ready' = [ready EXCEPT ![a] = @ \ {s}]
  /\ UNCHANGED <<session, step, attempts, records, item, done, crashes>>

\* Nothing is ready: complete_session if all steps were completed at the start.
Finish(a) ==
  /\ SessionWrite(a, "finish", IF done[a] THEN "completed" ELSE session, "idle")

-----------------------------------------------------------------------------
\* The lease of a worker that no longer works on the row runs out.
LeaseExpires(s) ==
  /\ \A a \in Actor : ~(pc[a] \in RowInHand /\ item[a] = s)
  /\ ExpireRow(s)
  /\ UNCHANGED <<session, step, attempts, records, threads, crashes>>

Crash(a) ==
  /\ crashes < MaxCrashes /\ pc[a] # "idle"
  /\ pc' = [pc EXCEPT ![a] = "idle"]
  /\ crashes' = crashes + 1
  /\ UNCHANGED <<ledgerVars, records, item, ready, done>>

Thread(a) ==
  \/ Start(a) \/ Mark(a) \/ Invoke(a) \/ Complete(a) \/ Close(a)
  \/ Replan(a) \/ StartReplacement(a) \/ EnqueueReplacement(a) \/ Requeue(a)
  \/ FailReplanned(a) \/ StepReplanned(a)
  \/ FailItem(a) \/ FailStep(a) \/ FailSession(a)
  \/ ReadSteps(a) \/ Scan(a) \/ Filter(a) \/ EnqueueOne(a) \/ Finish(a)

Next ==
  \/ \E a \in Actor : LeaseNext(a) \/ Thread(a) \/ Crash(a)
  \/ \E s \in Step : LeaseExpires(s)

Spec == Init /\ [][Next]_vars

\* Workers go on and poll, the clock advances.
Fairness ==
  /\ \A a \in Actor : WF_vars(Thread(a)) /\ WF_vars(LeaseNext(a))
  /\ WF_vars(\E s \in Step : LeaseExpires(s))

FairSpec == Spec /\ Fairness

-----------------------------------------------------------------------------
TypeOK ==
  /\ LedgerTypeOK
  /\ made \in Plan..N
  /\ key \in [Step -> 0..Plan] /\ \A s \in Made : key[s] # 0
  /\ origin \in [Step -> 0..N] /\ \A s \in Step : origin[s] < s
  /\ replans \in [Step -> 0..MaxReplans]
  /\ calls \in [Step -> Nat]
  /\ ready \in [Actor -> SUBSET Made]
  /\ \A a \in Actor : item[a] \in Made /\ done[a] \in BOOLEAN

\* A tool is called only when the newest step of every key it depends on has
\* completed (README.md: "from satisfied dependency edges"), also while those keys
\* are being replaced.
InOrder ==
  \A s \in Step : calls'[s] > calls[s] =>
    \A d \in Deps[key[s]] : step[Current(d)] = "completed"

DependencyOrder == [][InOrder]_calls

\* A plan step is carried out once, however often it was replaced, unless a worker
\* died between the replacement and the end of the failed row.
CarriedOutOnce ==
  \A k \in PlanKey :
    Cardinality({s \in Made : key[s] = k /\ step[s] = "completed"}) <= 1 + crashes

\* A failed step is replaced once, unless a worker died on the way.
ReplacedOnce ==
  \A s \in Made : Cardinality({t \in Made : origin[t] = s}) <= 1 + crashes

Quiet ==
  /\ \A a \in Actor : pc[a] = "idle"
  /\ ~(Runnable /\ \E s \in Step : ActiveRow(s))

\* Nobody leases a row of a session that is "replanning": it is left in that state
\* only by a worker that died in request_replan.
ReplanningEnds == Quiet /\ session = "replanning" => crashes > 0

\* tests/test_cognitive_runtime_loops.py calls the replacement a "recovery step with
\* same plan step key": once every plan step has been carried out, by it or by its
\* replacement, the session is completed.
\* Not kept by the code: README.md, "Departures from the documents".
RecoveredCompletes ==
  Quiet /\ (\A k \in PlanKey : step[Current(k)] = "completed") => session = "completed"

\* README.md: a step that fails for good is "terminally failing the whole session".
\* Not kept by the code: README.md, "Departures from the documents".
FailedIsTerminal == [][session = "failed" => session' = "failed"]_session
=============================================================================
