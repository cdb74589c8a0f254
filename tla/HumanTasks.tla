------------------------------ MODULE HumanTasks ------------------------------
(***************************************************************************)
(* Human tasks as operators work on them through /v1/human/tasks           *)
(* (services/operator_task_routing_service.py and                          *)
(* execution_operator_routing_service.py).  Every call runs in a thread of *)
(* its own: it looks the task up, changes its row by one conditional       *)
(* UPDATE, and then writes down what it did: an event in the session's     *)
(* ledger and, for a task that holds a step up, the step and the session.  *)
(* Nothing ties these writes together.                                     *)
(*                                                                         *)
(* Of the session there are the steps a task may be linked to.  What a     *)
(* resumed session goes on to do is in ExecutionRuntime: here it is done   *)
(* when all of its steps are.                                              *)
(***************************************************************************)
EXTENDS HumanTaskRows, Sequences

CONSTANTS
  Worker,      \* threads that serve requests
  Step,
  NoStep,      \* a task that is linked to no step
  MaxCalls,    \* bound on the calls
  MaxRestarts, \* bound on restarts of the API process
  OutputsFail  \* whether a returned payload may break the step's contract

HumanTasksAssumption ==
  /\ NobodyIsNoOperator
  /\ Task # {} /\ IsFiniteSet(Worker)
  /\ MaxCalls \in Nat /\ MaxRestarts \in Nat /\ OutputsFail \in BOOLEAN /\ NoStep \notin Step

VARIABLES
  linked,   \* per task: the step it holds up (resume_session_on_return)
  step,     \* execution_steps.state
  session,  \* execution_sessions.status
  call,     \* per worker: the call it serves
  history,  \* per task: the owners its row went through
  log,      \* per task: its events in the ledger, in order
  calls,
  restarts

vars == <<task, linked, step, session, call, history, log, calls, restarts>>

Change == [assignment : {"unassigned", "assigned", "claimed", "returned"},
           operator   : Operator \cup {Nobody}]
NoChange == [assignment |-> "unassigned", operator |-> Nobody]

Call == [at       : {"idle", "claim", "assign", "return", "event", "validate", "step",
                     "session", "continue", "insert", "pause_step", "pause_session",
                     "created"},
         task     : Task,
         operator : Operator \cup {Nobody},
         step     : Step \cup {NoStep},
         change   : Change]

AnyTask == CHOOSE t \in Task : TRUE
IdleCall == [at |-> "idle", task |-> AnyTask, operator |-> Nobody, step |-> NoStep,
             change |-> NoChange]

TypeOK ==
  /\ RowsTypeOK
  /\ linked \in [Task -> Step \cup {NoStep}]
  /\ step \in [Step -> {"queued", "waiting_human", "completed"}]
  /\ session \in {"running", "awaiting_human", "completed"}
  /\ call \in [Worker -> Call]
  /\ {history, log} \subseteq [Task -> Seq(Change)]
  /\ calls \in 0..MaxCalls
  /\ restarts \in 0..MaxRestarts

\* A session that runs; all tasks are yet to be created.
Init ==
  /\ task = [t \in Task |-> NoRow]
  /\ linked = [t \in Task |-> NoStep]
  /\ step = [s \in Step |-> "queued"]
  /\ session = "running"
  /\ call = [w \in Worker |-> IdleCall]
  /\ history = [t \in Task |-> <<>>]
  /\ log = [t \in Task |-> <<>>]
  /\ calls = 0
  /\ restarts = 0

\* A session that human steps have paused: ExecutionRuntime gets here.
InitPaused ==
  /\ task = [t \in Task |-> NewRow]
  /\ linked \in {f \in [Task -> Step \cup {NoStep}] : \A s \in Step : \E t \in Task : f[t] = s}
  /\ step = [s \in Step |-> "waiting_human"]
  /\ session = "awaiting_human"
  /\ call = [w \in Worker |-> IdleCall]
  /\ history = [t \in Task |-> <<NoChange>>]
  /\ log = [t \in Task |-> <<NoChange>>]
  /\ calls = 0
  /\ restarts = 0

-----------------------------------------------------------------------------
(* Claim, assign, return *)

Goto(w, place) == call' = [call EXCEPT ![w].at = place]
Leave(w) == call' = [call EXCEPT ![w] = IdleCall]

\* fetch_human_task and the operator's profile: the task is there.  An assignment
\* without an operator_id takes the one the routing hints name, for a task that is
\* unassigned when it is looked up; the UPDATE does not ask again.
Begin(w, kind, t, o) ==
  /\ call[w].at = "idle"
  /\ calls < MaxCalls
  /\ task[t] # NoRow
  /\ call' = [call EXCEPT ![w] = [IdleCall EXCEPT !.at = kind, !.task = t, !.operator = o]]
  /\ calls' = calls + 1
  /\ UNCHANGED <<task, linked, step, session, history, log, restarts>>

\* What the UPDATE returns goes into the event.
Changed(w, t) ==
  LET change == [assignment |-> task'[t].assignment, operator |-> task'[t].operator]
  IN  /\ history' = [history EXCEPT ![t] = Append(@, change)]
      /\ call' = [call EXCEPT ![w].at = "event", ![w].change = change]
      /\ UNCHANGED <<linked, step, session, log, calls, restarts>>

Claim(w) ==
  /\ call[w].at = "claim"
  /\ ClaimRow(call[w].task, call[w].operator)
  /\ Changed(w, call[w].task)

Assign(w) ==
  /\ call[w].at = "assign"
  /\ AssignRow(call[w].task, call[w].operator)
  /\ Changed(w, call[w].task)

Return(w) ==
  /\ call[w].at = "return"
  /\ ReturnRow(call[w].task, call[w].operator)
  /\ Changed(w, call[w].task)

\* The UPDATE found no such row: 409.
Refused(w) ==
  LET t == call[w].task
  IN  /\ \/ call[w].at = "claim" /\ ~Claimable(t)
         \/ call[w].at \in {"assign", "return"} /\ ~Changeable(t)
      /\ Leave(w)
      /\ UNCHANGED <<task, linked, step, session, history, log, calls, restarts>>

\* Mutant of Resumes: tasks without a step aside, a claim resumes as well.
ResumesOnClaim(w) ==
  /\ call[w].change.assignment \in {"claimed", "returned"}
  /\ linked[call[w].task] # NoStep

\* Mutant of Resumes: only a session that is paused is resumed.
ResumesPaused(w) ==
  /\ call[w].change.assignment = "returned"
  /\ linked[call[w].task] # NoStep
  /\ session = "awaiting_human"

\* updated.resume_session_on_return and updated.step_id
Resumes(w) ==
  /\ call[w].change.assignment = "returned"
  /\ linked[call[w].task] # NoStep

\* human_task_claimed, _assigned or _returned.
AppendEvent(w) ==
  LET t == call[w].task
  IN  /\ call[w].at = "event"
      /\ log' = [log EXCEPT ![t] = Append(@, call[w].change)]
      /\ IF Resumes(w) THEN Goto(w, "validate") ELSE Leave(w)
      /\ UNCHANGED <<task, linked, step, session, history, calls, restarts>>

\* validate_step_output_contract raises, with the row returned already.
RejectOutput(w) ==
  /\ call[w].at = "validate"
  /\ OutputsFail
  /\ Leave(w)
  /\ UNCHANGED <<task, linked, step, session, history, log, calls, restarts>>

AcceptOutput(w) ==
  /\ call[w].at = "validate"
  /\ Goto(w, "step")
  /\ UNCHANGED <<task, linked, step, session, history, log, calls, restarts>>

CompleteStep(w) ==
  /\ call[w].at = "step"
  /\ step' = [step EXCEPT ![linked[call[w].task]] = "completed"]
  /\ Goto(w, "session")
  /\ UNCHANGED <<task, linked, session, history, log, calls, restarts>>

\* set_session_status and session_resumed_from_human_task
ResumeSession(w) ==
  /\ call[w].at = "session"
  /\ session' = "running"
  /\ Goto(w, "continue")
  /\ UNCHANGED <<task, linked, step, history, log, calls, restarts>>

\* queue_next_step_after: the session is completed when every step is.
Continue(w) ==
  /\ call[w].at = "continue"
  /\ session' = IF \A s \in Step : step[s] = "completed" THEN "completed" ELSE session
  /\ Leave(w)
  /\ UNCHANGED <<task, linked, step, history, log, calls, restarts>>

-----------------------------------------------------------------------------
(* create_human_task through the API: any step of the session may be paused *)

RequestCreate(w, s) ==
  /\ call[w].at = "idle"
  /\ calls < MaxCalls
  /\ call' = [call EXCEPT ![w] = [IdleCall EXCEPT !.at = "insert", !.step = s]]
  /\ calls' = calls + 1
  /\ UNCHANGED <<task, linked, step, session, history, log, restarts>>

\* From here on operators see the task.
InsertTask(w, t) ==
  /\ call[w].at = "insert"
  /\ Insert(t)
  /\ linked' = [linked EXCEPT ![t] = call[w].step]
  /\ history' = [history EXCEPT ![t] = <<NoChange>>]
  /\ call' = [call EXCEPT ![w].task = t,
       ![w].at = IF call[w].step = NoStep THEN "created" ELSE "pause_step"]
  /\ UNCHANGED <<step, session, log, calls, restarts>>

PauseStep(w) ==
  /\ call[w].at = "pause_step"
  /\ step' = [step EXCEPT ![call[w].step] = "waiting_human"]
  /\ Goto(w, "pause_session")
  /\ UNCHANGED <<task, linked, session, history, log, calls, restarts>>

PauseSession(w) ==
  /\ call[w].at = "pause_session"
  /\ session' = "awaiting_human"
  /\ Goto(w, "created")
  /\ UNCHANGED <<task, linked, step, history, log, calls, restarts>>

\* human_task_created comes last.
AppendCreated(w) ==
  /\ call[w].at = "created"
  /\ log' = [log EXCEPT ![call[w].task] = Append(@, NoChange)]
  /\ Leave(w)
  /\ UNCHANGED <<task, linked, step, session, history, calls, restarts>>

\* The API process is restarted: the calls it served are gone.
Restart ==
  /\ restarts < MaxRestarts
  /\ restarts' = restarts + 1
  /\ call' = [w \in Worker |-> IdleCall]
  /\ UNCHANGED <<task, linked, step, session, history, log, calls>>

-----------------------------------------------------------------------------
Create(w) ==
  \/ \E s \in Step \cup {NoStep} : RequestCreate(w, s)
  \/ \E t \in Task : InsertTask(w, t)
  \/ PauseStep(w) \/ PauseSession(w) \/ AppendCreated(w)

Serve(w) ==
  \/ Claim(w) \/ Assign(w) \/ Return(w) \/ Refused(w) \/ AppendEvent(w)
  \/ RejectOutput(w) \/ AcceptOutput(w) \/ CompleteStep(w) \/ ResumeSession(w)
  \/ Continue(w)

Ask(w) ==
  \E kind \in {"claim", "assign", "return"}, t \in Task, o \in Operator :
    Begin(w, kind, t, o)

Next == Restart \/ \E w \in Worker : Ask(w) \/ Serve(w) \/ Create(w)

\* Operators work on tasks that are there.
NextPaused == Restart \/ \E w \in Worker : Ask(w) \/ Serve(w)

Spec == Init /\ [][Next]_vars

PausedSpec == InitPaused /\ [][NextPaused]_vars

\* A thread that serves a request gets on with it.
FairPaused == PausedSpec /\ \A w \in Worker : WF_vars(Serve(w))

-----------------------------------------------------------------------------
(* Properties *)

Times(seq, x) == Cardinality({i \in DOMAIN seq : seq[i] = x})
Kinds(seq, kind) == {i \in DOMAIN seq : seq[i].assignment = kind}

\* The calls that are at work on task t.
Busy(t) == \E w \in Worker : call[w].at \notin {"idle", "insert"} /\ call[w].task = t

\* Of all operators who ask for a task at once one gets it, and one returns it: no
\* row is claimed twice or returned twice, and none changes hands once returned.
OneWinner ==
  \A t \in Task :
    /\ Cardinality(Kinds(history[t], "claimed")) <= 1
    /\ Kinds(history[t], "returned") \subseteq {Len(history[t])}

\* The assignment history tells what happened: while no call is at work on a task
\* and none was cut off, its events are its row's changes, each once, in some order.
HistoryComplete ==
  \A t \in Task : restarts = 0 /\ ~Busy(t) =>
    \A change \in Change : Times(log[t], change) = Times(history[t], change)

\* One operator wins a task, and the ledger tells of every change on the way.
WinnersTold == OneWinner /\ HistoryComplete

\* README.md:409: the last transition shows the latest ownership change, once no
\* call is at work on the task.
\* Not kept by the code: README.md, "Departures from the documents".
LastTransition ==
  \A t \in Task : ~Busy(t) /\ log[t] # <<>> =>
    log[t][Len(log[t])] = history[t][Len(history[t])]

\* README.md:322: assignment_state tells pre-assigned pending work from active
\* claims: "assigned" is pending.
\* Not kept by the code: README.md, "Departures from the documents".
AssignedIsPending ==
  \A t \in Task : task[t].assignment = "assigned" => task[t].status = "pending"

\* README.md:404: a step waits for a task that is still open, or for a call that is
\* at work on one.
WaitsForSomeone ==
  \A s \in Step : step[s] = "waiting_human" =>
    \E t \in Task : linked[t] = s /\ (Open(t) \/ Busy(t))

\* A step that waits for a human goes on when a task of its own was returned.
ReturnedBefore ==
  \A s \in Step : step[s] = "waiting_human" /\ step'[s] # "waiting_human" =>
    \E t \in Task : linked[t] = s /\ task[t].status = "returned"

\* A session that is reported completed has no step that waits for a human.
CompletedWaitsForNone ==
  session = "completed" => \A s \in Step : step[s] = "completed"

\* README.md:404: the step of a returned task is completed in the end, and the
\* session is running again or done; as calls are bounded, for all tasks at once.
Resumed(t) == step[linked[t]] = "completed" /\ session # "awaiting_human"
Unresumed ==
  \E t \in Task : task[t].status = "returned" /\ linked[t] # NoStep /\ ~Resumed(t)
ReturnResumes == Unresumed ~> ~Unresumed
=============================================================================
