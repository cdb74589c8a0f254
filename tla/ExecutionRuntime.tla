-------------------------- MODULE ExecutionRuntime ---------------------------
(***************************************************************************)
(* The runtime that drives one session's plan through the execution        *)
(* ledger: queue workers, API threads that execute, approve and return     *)
(* "inline", the reviewers they wait for, the clock, and crashes.          *)
(*                                                                         *)
(* A ledger statement commits on its own, so every thread may be           *)
(* overtaken between any two of them: each action below is one statement   *)
(* with the local code up to the next one, and pc[a] says which.           *)
(*                                                                         *)
(* A thread is at most one activation of run_queue_item deep in            *)
(* queue_next_step_after loops; local[a].stack keeps those loops, the      *)
(* innermost first.                                                        *)
(***************************************************************************)
EXTENDS ExecutionLedger, Sequences

CONSTANTS
  Worker,      \* queue worker processes (roles worker and scheduler)
  Inline,      \* threads of the API process, whose lease_owner is "inline"
  Requester,   \* the API thread that executes the task request
  Kind,        \* per step: "prepare", "policy", "tool", "memory" or "human"
  Deps,        \* per step: the steps it depends on
  MaxAttempts, \* per step: max_attempts if it retries, else 1
  CanFail,     \* steps whose handler may raise
  Delayed,     \* steps with a positive retry_backoff_seconds
  Verdict,     \* policy decisions the session may get
  Slow,        \* external events that never overtake a handler, see below
  ApprovalTtl, \* may a pending approval reach its TTL?
  MaxRounds,   \* bound: repeats of the requester's loop (7 in the code)
  MaxLapses,   \* bound: leases that run out
  MaxCrashes   \* bound: process crashes

IsTarget(s) ==
  /\ Kind[s] = "tool"
  /\ \A t \in Step : Kind[t] = "tool" => t <= s

ASSUME RuntimeAssumption ==
  /\ Actor = Worker \cup Inline
  /\ Worker \cap Inline = {}
  /\ Requester \in Inline
  /\ Kind \in [Step -> {"prepare", "policy", "tool", "memory", "human"}]
  /\ Deps \in [Step -> SUBSET Step]
  /\ MaxAttempts \in [Step -> Nat \ {0}]
  /\ \E s \in Step : IsTarget(s)
  /\ CanFail \subseteq Step /\ Delayed \subseteq Step
  /\ Verdict \subseteq {"allow", "approval", "deny"}
  /\ Slow \subseteq {"lease", "reviewer", "caller", "backoff"}
  /\ ApprovalTtl \in BOOLEAN
  /\ MaxRounds \in Nat /\ MaxLapses \in Nat /\ MaxCrashes \in Nat

\* approval_target_step_for_session: the last tool call of the plan.
Target == CHOOSE s \in Step : IsTarget(s)

VARIABLES
  verdict,   \* what the policy decides on this session's input
  approvals, \* approval_requests: how many are pending, how many were approved
  tasks,     \* human_tasks per step: how many are open
  effects,   \* per step: tool invocations (or staged memory candidates)
  pc,        \* per thread: the statement it executes next
  item,      \* per thread: the step whose row it works on
  local,     \* per thread: the other local variables
  lapses,    \* leases that ran out so far
  crashes    \* crashes so far

outside == <<verdict, approvals, tasks, effects, lapses, crashes>>
vars == <<ledgerVars, outside, pc, item, local>>

Paused == session \in {"awaiting_approval", "awaiting_human", "blocked"}

\* A loop waiting for a nested run_queue_item: "request", "resume" and "return"
\* are the outermost ones of the three API calls, "drain" and "items" the two
\* loops of queue_next_step_after ("enqueue" is that function without a loop).
Frame == [loop : {"request", "resume", "return", "drain", "items", "enqueue"},
          done : BOOLEAN,       \* were all steps completed when it started?
          rest : SUBSET Step]   \* queue items it still has to run

OuterFrame(loop) == [loop |-> loop, done |-> FALSE, rest |-> {}]

Locals == [att      : Nat,          \* attempt_count of the leased row
           waits    : BOOLEAN,      \* refreshed_step.state = "waiting_human"
           ready    : SUBSET Step,  \* ready steps not enqueued yet
           stack    : Seq(Frame),
           rounds   : Nat,          \* repeats of the requester's loop so far
           artifact : BOOLEAN]      \* has the requester an artifact?

FreshLocals == [att |-> 0, waits |-> FALSE, ready |-> {}, stack |-> <<>>,
                rounds |-> 0, artifact |-> FALSE]

\* The statements at which a thread has a leased row in its hands.
RowInHand ==
  {"start", "mark", "run", "invoked", "deny_step", "deny_session", "ask",
   "ask_step", "ask_session", "ask_row", "task_step", "task_session",
   "refresh", "close"}

Label == RowInHand \cup
  {"idle", "pick", "lease", "retry_step", "retry_session", "fail_step",
   "fail_session", "next", "next_session", "drain", "scan", "filter",
   "enqueue", "items", "resume", "after", "approve_step", "approve_session",
   "reject_step", "reject_session", "return_step", "return_session"}

Init ==
  /\ LedgerInit
  /\ verdict \in Verdict
  /\ approvals = [pending |-> 0, approved |-> 0]
  /\ tasks = [s \in Step |-> 0]
  /\ effects = [s \in Step |-> 0]
  /\ pc = [a \in Actor |-> IF a = Requester THEN "pick" ELSE "idle"]
  /\ item = [a \in Actor |-> 1]
  /\ local = [a \in Actor |->
       IF a = Requester
         THEN [FreshLocals EXCEPT !.stack = <<OuterFrame("request")>>]
         ELSE FreshLocals]
  /\ lapses = 0
  /\ crashes = 0

-----------------------------------------------------------------------------
(* Notation for the steps of a thread. *)

Move(a, from, to) ==
  /\ pc[a] = from
  /\ pc' = [pc EXCEPT ![a] = to]

Keep(a) == UNCHANGED <<item, local>>

\* Statements that write only the session, one step's state, or nothing.
SessionWrite(a, from, status, to) ==
  /\ Move(a, from, to)
  /\ SetSession(status)
  /\ UNCHANGED <<step, attempts, row, outside, item, local>>

StepWrite(a, from, s, state, to) ==
  /\ Move(a, from, to)
  /\ UpdateStep(s, state)
  /\ UNCHANGED <<session, attempts, row, outside, item, local>>

Top(a) == Head(local[a].stack)
Outer(a) == Top(a).loop \in {"request", "resume", "return"}
Push(a, frame) == [local[a] EXCEPT !.stack = <<frame>> \o @]
Pop(a) == [local[a] EXCEPT !.stack = Tail(@)]

IsFirst(s, S) == s \in S /\ \A t \in S : s <= t

HandlerKeepsUp(event, labels) ==
  event \in Slow => \A a \in Actor : pc[a] \notin labels

-----------------------------------------------------------------------------
(* Leasing: run_next_queue_item, run_queue_item, execute_next_ready_step. *)

TakeRow(a, s) ==
  /\ LeaseRow(s, a)
  /\ item' = [item EXCEPT ![a] = s]
  /\ UNCHANGED <<session, step, attempts, outside>>

LeaseNext(a) ==
  /\ a \in Worker
  /\ Move(a, "idle", "start")
  /\ \E s \in Step :
       /\ Oldest(s)
       /\ TakeRow(a, s)
       /\ local' = [local EXCEPT ![a] = [FreshLocals EXCEPT !.att = NextAttempt(s)]]

\* Mutant of Lease: the picked row is run even when its lease is refused.
LeaseAnyway(a) ==
  /\ Move(a, "lease", "start")
  /\ TakeRow(a, item[a])
  /\ local' = [local EXCEPT ![a] = [@ EXCEPT !.att = NextAttempt(item[a])]]

Lease(a) ==
  \/ /\ Eligible(item[a])
     /\ Move(a, "lease", "start")
     /\ TakeRow(a, item[a])
     /\ local' = [local EXCEPT ![a] = [@ EXCEPT !.att = NextAttempt(item[a])]]
  \/ /\ ~Eligible(item[a])
     /\ Move(a, "lease", "resume")
     /\ UNCHANGED <<ledgerVars, outside, item, local>>

\* The oldest eligible row of the session, or on to another statement.
PickOldest(a, from, otherwise) ==
  /\ \/ \E s \in Step :
          /\ Oldest(s)
          /\ Move(a, from, "lease")
          /\ item' = [item EXCEPT ![a] = s]
     \/ /\ \A s \in Step : ~Eligible(s)
        /\ Move(a, from, otherwise)
        /\ UNCHANGED item
  /\ UNCHANGED <<ledgerVars, outside, local>>

Pick(a) == PickOldest(a, "pick", "scan")

-----------------------------------------------------------------------------
(* _execute_leased_queue_item: the handlers of execute_step. *)

Start(a) == SessionWrite(a, "start", "running", "mark")

Mark(a) ==
  /\ Move(a, "mark", "run")
  /\ UpdateStep(item[a], "running")
  /\ attempts' = [attempts EXCEPT ![item[a]] = local[a].att]
  /\ UNCHANGED <<session, row, outside, item, local>>

Prepare(a) ==
  /\ Kind[item[a]] = "prepare"
  /\ StepWrite(a, "run", item[a], "completed", "refresh")

\* The policy step completes itself first and then applies its decision.
Policy(a) ==
  /\ Kind[item[a]] = "policy"
  /\ StepWrite(a, "run", item[a], "completed",
       CASE verdict = "allow"    -> "refresh"
         [] verdict = "deny"     -> "deny_step"
         [] verdict = "approval" -> "ask")

DenyStep(a) == StepWrite(a, "deny_step", Target, "blocked", "deny_session")

DenySession(a) == SessionWrite(a, "deny_session", "blocked", "refresh")

\* pause_for_approval
Ask(a) ==
  /\ Move(a, "ask", "ask_step")
  /\ approvals' = [approvals EXCEPT !.pending = @ + 1]
  /\ UNCHANGED <<ledgerVars, verdict, tasks, effects, lapses, crashes, item, local>>

AskStep(a) ==
  /\ Move(a, "ask_step", "ask_session")
  /\ UpdateStep(Target, "waiting_approval")
  /\ attempts' = [attempts EXCEPT ![Target] = IF @ = 0 THEN 1 ELSE @]
  /\ UNCHANGED <<session, row, outside, item, local>>

AskSession(a) == SessionWrite(a, "ask_session", "awaiting_approval", "ask_row")

AskRow(a) ==
  /\ Move(a, "ask_row", "refresh")
  /\ EnqueueRow(Target)
  /\ UNCHANGED <<session, step, attempts, outside, item, local>>

\* The tool is invoked, or the memory candidate staged: the effect outside.
Invoke(a) ==
  /\ Kind[item[a]] \in {"tool", "memory"}
  /\ Move(a, "run", "invoked")
  /\ effects' = [effects EXCEPT ![item[a]] = @ + 1]
  /\ UNCHANGED <<ledgerVars, verdict, approvals, tasks, lapses, crashes, item, local>>

FinishEffect(a) ==
  /\ Move(a, "invoked", "refresh")
  /\ UpdateStep(item[a], "completed")
  /\ local' = [local EXCEPT ![a] =
       [@ EXCEPT !.artifact = local[a].artifact \/ Kind[item[a]] = "tool"]]
  /\ UNCHANGED <<session, attempts, row, outside, item>>

\* memory_write_allowed is false.
SkipMemory(a) ==
  /\ Kind[item[a]] = "memory"
  /\ StepWrite(a, "run", item[a], "completed", "refresh")

\* create_human_task with resume_session_on_return
CreateTask(a) ==
  /\ Kind[item[a]] = "human"
  /\ Move(a, "run", "task_step")
  /\ tasks' = [tasks EXCEPT ![item[a]] = @ + 1]
  /\ UNCHANGED <<ledgerVars, verdict, approvals, effects, lapses, crashes, item, local>>

TaskStep(a) == StepWrite(a, "task_step", item[a], "waiting_human", "task_session")

TaskSession(a) == SessionWrite(a, "task_session", "awaiting_human", "refresh")

-----------------------------------------------------------------------------
(* The handler raised: schedule_step_retry, or the failure branch. *)

Raises(a) == item[a] \in CanFail /\ pc[a] \in {"run", "invoked"}

\* Mutant of RetryItem: one attempt too many.
RetryItemOnceMore(a) ==
  /\ Raises(a)
  /\ local[a].att <= MaxAttempts[item[a]]
  /\ Move(a, pc[a], "retry_step")
  /\ RetryRow(item[a], a, item[a] \notin Delayed)
  /\ UNCHANGED <<session, step, attempts, outside, item, local>>

RetryItem(a) ==
  /\ Raises(a)
  /\ local[a].att < MaxAttempts[item[a]]
  /\ Move(a, pc[a], "retry_step")
  /\ RetryRow(item[a], a, item[a] \notin Delayed)
  /\ UNCHANGED <<session, step, attempts, outside, item, local>>

RetryStep(a) ==
  /\ Move(a, "retry_step", "retry_session")
  /\ UpdateStep(item[a], "queued")
  /\ attempts' = [attempts EXCEPT ![item[a]] = local[a].att]
  /\ UNCHANGED <<session, row, outside, item, local>>

RetrySession(a) == SessionWrite(a, "retry_session", "queued", "resume")

FailItem(a) ==
  /\ Raises(a)
  /\ local[a].att >= MaxAttempts[item[a]]
  /\ Move(a, pc[a], "fail_step")
  /\ FailRow(item[a])
  /\ UNCHANGED <<session, step, attempts, outside, item, local>>

FailStep(a) ==
  /\ Move(a, "fail_step", "fail_session")
  /\ UpdateStep(item[a], "failed")
  /\ attempts' = [attempts EXCEPT ![item[a]] = local[a].att]
  /\ UNCHANGED <<session, row, outside, item, local>>

\* The exception leaves every loop and ends the call.
FailSession(a) ==
  /\ Move(a, "fail_session", "idle")
  /\ SetSession("failed")
  /\ local' = [local EXCEPT ![a] = FreshLocals]
  /\ UNCHANGED <<step, attempts, row, outside, item>>

-----------------------------------------------------------------------------
(* The row is closed and the session continued: queue_next_step_after. *)

Refresh(a) ==
  /\ Move(a, "refresh", "close")
  /\ local' = [local EXCEPT ![a] =
       [@ EXCEPT !.waits = step[item[a]] = "waiting_human"]]
  /\ UNCHANGED <<ledgerVars, outside, item>>

Close(a) ==
  /\ Move(a, "close", IF local[a].waits THEN "resume" ELSE "next")
  /\ CompleteRow(item[a])
  /\ UNCHANGED <<session, step, attempts, outside, item, local>>

AllCompleted == \A s \in Step : step[s] = "completed"

\* It drains queued work first if it is inline or was not triggered by a step
\* that has come to rest.
ContinueAfter(a) ==
  LET drains == \/ a \in Inline
                \/ step[item[a]] \notin {"completed", "failed", "blocked", "waiting_human"}
      frame == [loop |-> IF drains THEN "drain" ELSE "enqueue",
                done |-> AllCompleted, rest |-> {}]
  IN  /\ Move(a, "next", "next_session")
      /\ local' = [local EXCEPT ![a] = Push(a, frame)]
      /\ UNCHANGED <<ledgerVars, outside, item>>

Leave(a, from) ==
  /\ Move(a, from, "resume")
  /\ local' = [local EXCEPT ![a] = Pop(a)]
  /\ UNCHANGED item

CheckPaused(a) ==
  /\ \/ /\ Paused
        /\ Leave(a, "next_session")
     \/ /\ ~Paused
        /\ Move(a, "next_session", IF Top(a).loop = "drain" THEN "drain" ELSE "scan")
        /\ Keep(a)
  /\ UNCHANGED <<ledgerVars, outside>>

Drain(a) == PickOldest(a, "drain", "scan")

\* Mutant of Scan: one completed dependency is enough.
ScanAnyDependency(a) ==
  /\ Move(a, "scan", "filter")
  /\ local' = [local EXCEPT ![a] = [@ EXCEPT !.ready =
       {s \in Step : step[s] = "queued"
          /\ (Deps[s] = {} \/ \E d \in Deps[s] : step[d] = "completed")}]]
  /\ UNCHANGED <<ledgerVars, outside, item>>

\* ready_steps reads the steps first ...
Scan(a) ==
  /\ Move(a, "scan", "filter")
  /\ local' = [local EXCEPT ![a] = [@ EXCEPT !.ready =
       {s \in Step : step[s] = "queued" /\ \A d \in Deps[s] : step[d] = "completed"}]]
  /\ UNCHANGED <<ledgerVars, outside, item>>

\* ... and then the queue.
Ready(a) == {s \in local[a].ready : ~ActiveRow(s)}

EnqueueAll(a) ==
  /\ Move(a, "filter", "enqueue")
  /\ Ready(a) # {} /\ ~Outer(a)
  /\ local' = [local EXCEPT ![a] = [@ EXCEPT !.ready = Ready(a), !.stack =
       <<[Top(a) EXCEPT !.loop = IF a \in Inline THEN "items" ELSE "enqueue",
                        !.rest = Ready(a)]>> \o Tail(local[a].stack)]]
  /\ UNCHANGED <<ledgerVars, outside, item>>

\* execute_next_ready_step takes the first ready step only.
EnqueueFirst(a) ==
  /\ Move(a, "filter", "enqueue")
  /\ Outer(a)
  /\ \E s \in Step :
       /\ IsFirst(s, Ready(a))
       /\ local' = [local EXCEPT ![a] = [@ EXCEPT !.ready = {s}]]
  /\ UNCHANGED <<ledgerVars, outside, item>>

\* MissingReadyStepError, which the callers swallow.
MissingReady(a) ==
  /\ Move(a, "filter", "after")
  /\ Ready(a) = {} /\ Outer(a)
  /\ UNCHANGED <<ledgerVars, outside, item, local>>

\* Mutants of NothingReady: the session is never completed, or always is.
NothingReadyForgets(a) ==
  /\ Leave(a, "filter")
  /\ Ready(a) = {} /\ ~Outer(a)
  /\ UNCHANGED <<ledgerVars, outside>>

\* Nothing is ready: complete_session if all steps were completed at the start.
NothingReady(a) ==
  /\ Leave(a, "filter")
  /\ Ready(a) = {} /\ ~Outer(a)
  /\ SetSession(IF Top(a).done THEN "completed" ELSE session)
  /\ UNCHANGED <<step, attempts, row, outside>>

EnqueueOne(a) ==
  /\ pc[a] = "enqueue"
  /\ \E s \in Step :
       /\ IsFirst(s, local[a].ready)
       /\ EnqueueRow(s)
       /\ LET rest == local[a].ready \ {s}
              dropped == [local[a] EXCEPT !.ready = {}]
          IN \/ /\ rest # {}
                /\ Move(a, "enqueue", "enqueue")
                /\ local' = [local EXCEPT ![a] = [@ EXCEPT !.ready = rest]]
                /\ UNCHANGED item
             \/ /\ rest = {} /\ Outer(a)
                /\ Move(a, "enqueue", "lease")
                /\ item' = [item EXCEPT ![a] = s]
                /\ local' = [local EXCEPT ![a] = dropped]
             \/ /\ rest = {} /\ Top(a).loop = "items"
                /\ Move(a, "enqueue", "items")
                /\ local' = [local EXCEPT ![a] = dropped]
                /\ UNCHANGED item
             \/ /\ rest = {} /\ Top(a).loop = "enqueue"
                /\ Move(a, "enqueue", "resume")
                /\ local' = [local EXCEPT ![a] = [dropped EXCEPT !.stack = Tail(local[a].stack)]]
                /\ UNCHANGED item
  /\ UNCHANGED <<session, step, attempts, outside>>

RunNextItem(a) ==
  /\ pc[a] = "items"
  /\ \/ /\ Top(a).rest = {}
        /\ Leave(a, "items")
     \/ \E s \in Step :
          /\ IsFirst(s, Top(a).rest)
          /\ Move(a, "items", "lease")
          /\ item' = [item EXCEPT ![a] = s]
          /\ local' = [local EXCEPT ![a] = [@ EXCEPT !.stack =
               <<[Top(a) EXCEPT !.rest = Top(a).rest \ {s}]>> \o Tail(local[a].stack)]]
  /\ UNCHANGED <<ledgerVars, outside>>

\* run_queue_item returned to the loop on top of the stack.
ResumeWorker(a) ==
  /\ local[a].stack = <<>>
  /\ Move(a, "resume", "idle")
  /\ local' = [local EXCEPT ![a] = FreshLocals]
  /\ UNCHANGED <<ledgerVars, outside, item>>

ResumeInner(a) ==
  /\ local[a].stack # <<>> /\ ~Outer(a)
  /\ \/ /\ Paused
        /\ Leave(a, "resume")
     \/ /\ ~Paused
        /\ Move(a, "resume", Top(a).loop)
        /\ Keep(a)
  /\ UNCHANGED <<ledgerVars, outside>>

\* drain_session_inline, which every API call ends with.
ResumeOuter(a) ==
  /\ local[a].stack # <<>> /\ Outer(a)
  /\ PickOldest(a, "resume", "after")

-----------------------------------------------------------------------------
(* The API calls: execute_task_artifact, decide_approval, return_human_task. *)

SomeActive == \E s \in Step : ActiveRow(s)

\* raise_for_snapshot_state, and what the loop of execute_task_artifact checks
\* after it.
LeavesLoop(a) ==
  \/ Paused
  \/ session = "completed"
  \/ session = "queued" /\ \E s \in Step : row[s].state = "queued" /\ ~row[s].due
  \/ ~SomeActive /\ (local[a].artifact \/ session = "failed")

EndCall(a, from) ==
  /\ Move(a, from, "idle")
  /\ local' = [local EXCEPT ![a] = FreshLocals]

After(a) ==
  LET again == /\ Top(a).loop = "request"
               /\ ~LeavesLoop(a)
  IN  /\ pc[a] = "after"
      /\ \/ /\ again /\ local[a].rounds < MaxRounds
            /\ Move(a, "after", "pick")
            /\ local' = [local EXCEPT ![a] = [@ EXCEPT !.rounds = local[a].rounds + 1]]
         \/ /\ again /\ local[a].rounds >= MaxRounds /\ ~local[a].artifact
            /\ Move(a, "after", "resume")
            /\ local' = [local EXCEPT ![a] = [@ EXCEPT !.stack = <<OuterFrame("return")>>]]
         \/ /\ again => local[a].rounds >= MaxRounds /\ local[a].artifact
            /\ EndCall(a, "after")
      /\ UNCHANGED <<ledgerVars, outside, item>>

\* Who may answer: by default an idle API thread at any moment; with "reviewer"
\* only after the handler that asked has paused the session, with "caller" only
\* after every call working on the session has returned.
Calls(a) ==
  /\ a \in Inline
  /\ HandlerKeepsUp("reviewer", {"ask_step", "ask_session", "task_step", "task_session"})
  /\ HandlerKeepsUp("caller", Label \ {"idle"})

DecideRequest(a, approved, to) ==
  /\ Calls(a)
  /\ approvals.pending > 0
  /\ Move(a, "idle", to)
  /\ approvals' = [pending |-> approvals.pending - 1,
                   approved |-> approvals.approved + approved]
  /\ UNCHANGED <<ledgerVars, verdict, tasks, effects, lapses, crashes, item>>

Approve(a) ==
  /\ DecideRequest(a, 1, "approve_step")
  /\ local' = [local EXCEPT ![a] = [@ EXCEPT !.stack = <<OuterFrame("resume")>>]]

ApproveStep(a) == StepWrite(a, "approve_step", Target, "queued", "approve_session")

ApproveSession(a) == SessionWrite(a, "approve_session", "running", "pick")

Reject(a) == DecideRequest(a, 0, "reject_step") /\ UNCHANGED local

RejectStep(a) == StepWrite(a, "reject_step", Target, "blocked", "reject_session")

RejectSession(a) == SessionWrite(a, "reject_session", "blocked", "idle")

ReturnTask(a) ==
  /\ Calls(a)
  /\ Move(a, "idle", "return_step")
  /\ \E s \in Step :
       /\ tasks[s] > 0
       /\ tasks' = [tasks EXCEPT ![s] = @ - 1]
       /\ item' = [item EXCEPT ![a] = s]
  /\ local' = [local EXCEPT ![a] = [@ EXCEPT !.stack = <<OuterFrame("return")>>]]
  /\ UNCHANGED <<ledgerVars, verdict, approvals, effects, lapses, crashes>>

ReturnStep(a) == StepWrite(a, "return_step", item[a], "completed", "return_session")

ReturnSession(a) == SessionWrite(a, "return_session", "running", "next")

-----------------------------------------------------------------------------
(* The clock and crashes. *)

LeaseExpires(s) ==
  /\ lapses < MaxLapses
  /\ "lease" \in Slow => \A a \in Actor : ~(pc[a] \in RowInHand /\ item[a] = s)
  /\ ExpireRow(s)
  /\ lapses' = lapses + 1
  /\ UNCHANGED <<session, step, attempts, verdict, approvals, tasks, effects,
                 crashes, pc, item, local>>

BackoffElapses(s) ==
  /\ HandlerKeepsUp("backoff", {"retry_step", "retry_session"})
  /\ DueRow(s)
  /\ UNCHANGED <<session, step, attempts, outside, pc, item, local>>

\* Every read of the approvals first expires those past their TTL.
ExpireApproval ==
  /\ ApprovalTtl
  /\ approvals.pending > 0
  /\ approvals' = [approvals EXCEPT !.pending = @ - 1]
  /\ UNCHANGED <<ledgerVars, verdict, tasks, effects, lapses, crashes, pc, item, local>>

\* A worker process dies, or the API process with all its threads.
Crash(dead) ==
  /\ crashes < MaxCrashes
  /\ \E a \in dead : pc[a] # "idle"
  /\ pc' = [a \in Actor |-> IF a \in dead THEN "idle" ELSE pc[a]]
  /\ local' = [a \in Actor |-> IF a \in dead THEN FreshLocals ELSE local[a]]
  /\ crashes' = crashes + 1
  /\ UNCHANGED <<ledgerVars, verdict, approvals, tasks, effects, lapses, item>>

-----------------------------------------------------------------------------
Handle(a) ==
  \/ Lease(a) \/ Pick(a) \/ Start(a) \/ Mark(a)
  \/ Prepare(a) \/ Policy(a) \/ DenyStep(a) \/ DenySession(a)
  \/ Ask(a) \/ AskStep(a) \/ AskSession(a) \/ AskRow(a)
  \/ Invoke(a) \/ FinishEffect(a) \/ SkipMemory(a)
  \/ CreateTask(a) \/ TaskStep(a) \/ TaskSession(a)

Recover(a) ==
  \/ RetryItem(a) \/ RetryStep(a) \/ RetrySession(a)
  \/ FailItem(a) \/ FailStep(a) \/ FailSession(a)

Continue(a) ==
  \/ Refresh(a) \/ Close(a) \/ ContinueAfter(a) \/ CheckPaused(a) \/ Drain(a)
  \/ Scan(a) \/ EnqueueAll(a) \/ EnqueueFirst(a) \/ MissingReady(a)
  \/ NothingReady(a) \/ EnqueueOne(a) \/ RunNextItem(a)
  \/ ResumeWorker(a) \/ ResumeInner(a) \/ ResumeOuter(a) \/ After(a)

Respond(a) ==
  \/ ApproveStep(a) \/ ApproveSession(a) \/ RejectStep(a) \/ RejectSession(a)
  \/ ReturnStep(a) \/ ReturnSession(a)

Thread(a) == Handle(a) \/ Recover(a) \/ Continue(a) \/ Respond(a)

Clock == \E s \in Step : LeaseExpires(s) \/ BackoffElapses(s)

Next ==
  \/ \E a \in Actor :
       \/ LeaseNext(a)
       \/ Thread(a)
       \/ Approve(a)
       \/ Reject(a)
       \/ ReturnTask(a)
  \/ Clock
  \/ ExpireApproval
  \/ \E w \in Worker : Crash({w})
  \/ Crash(Inline)

Spec == Init /\ [][Next]_vars

\* Running threads go on, workers poll, the clock advances, and every pending
\* approval and open human task is answered in the end.
Fairness ==
  /\ \A a \in Actor : WF_vars(Thread(a))
  /\ \A w \in Worker : WF_vars(LeaseNext(w))
  /\ WF_vars(\E a \in Inline : Approve(a) \/ Reject(a))
  /\ WF_vars(\E a \in Inline : ReturnTask(a))
  /\ WF_vars(Clock)

FairSpec == Spec /\ Fairness

-----------------------------------------------------------------------------
TypeOK ==
  /\ LedgerTypeOK
  /\ verdict \in Verdict
  /\ approvals \in [pending : Nat, approved : Nat]
  /\ tasks \in [Step -> Nat]
  /\ effects \in [Step -> Nat]
  /\ pc \in [Actor -> Label]
  /\ item \in [Actor -> Step]
  /\ local \in [Actor -> Locals]
  /\ lapses \in Nat
  /\ crashes \in Nat

Holds(a, s) == pc[a] \in RowInHand /\ item[a] = s

\* No step is executed by two threads at once, whatever workers, API calls and
\* crashes do, as long as no handler outlives the 60 s of its lease.
ExclusiveExecution ==
  \A a, b \in Actor, s \in Step : Holds(a, s) /\ Holds(b, s) => a = b

\* A tool call, a staged memory or a dispatch happens only after every step it
\* depends on has completed (README.md: "from satisfied dependency edges").
InOrder ==
  \A s \in Step : effects'[s] > effects[s] => \A d \in Deps[s] : step[d] = "completed"

DependencyOrder == [][InOrder]_effects

\* README.md: the gated tool runs "only after the approval-backed delivery gate
\* is cleared", and never when the policy denied the session.
GateSafety ==
  effects[Target] > 0 =>
    \/ verdict = "allow"
    \/ verdict = "approval" /\ approvals.approved > 0

\* An effect is repeated only for an attempt that is counted, or after a lease
\* ran out under its first executor.
EffectsCounted == \A s \in Step : effects[s] <= row[s].attempt + lapses

\* RUNBOOK.md: retries go on "until max_attempts is exhausted".
AttemptsBounded == \A s \in Step : row[s].attempt <= MaxAttempts[s] + lapses

\* Effects are paid for by attempts, and attempts by the limit or a lease that ran out.
AttemptsAccounted == EffectsCounted /\ AttemptsBounded

\* A session is reported completed only when every step of its plan is.
CompletedMeansAllDone == session = "completed" => AllCompleted

\* A completed session is never reopened, and a closed row never leased again.
KeepsOutcome ==
  /\ session = "completed" => session' = "completed"
  /\ \A s \in Step : row[s].state \in {"done", "failed"}
                       => row'[s].state = row[s].state

Quiet ==
  /\ \A a \in Actor : pc[a] = "idle"
  /\ approvals.pending = 0
  /\ \A s \in Step : tasks[s] = 0
  /\ ~(Runnable /\ SomeActive)

\* RUNBOOK.md: approving a session "resumes execution": an approval that was
\* given never leaves the session waiting for one.
ApprovalResumes == Quiet /\ approvals.approved > 0 => session # "awaiting_approval"

\* No continuation is lost: once no thread, reviewer or runnable row will touch
\* the session again, it has an outcome the caller can see.
NothingStranded == Quiet => session \in {"completed", "failed", "blocked"}

\* Every session gets an outcome.
Settles == <>[](session \in {"completed", "failed", "blocked"})
=============================================================================
