---------------------------- MODULE ProductProofs ----------------------------
(***************************************************************************)
(* What people decide, for any number of operators, requests and tasks:    *)
(* HumanTasks, as sessions create tasks and as operators work on those of  *)
(* a paused session; what becomes of a draft (DraftDelivery); and what     *)
(* becomes of a candidate (CommitmentCandidates).                          *)
(***************************************************************************)
EXTENDS HumanTasks, FiniteSetTheorems, SequenceTheorems, TLAPS

\* The calls that hold a step up, and those that will let one go on.
Pausing == {"pause_step", "pause_session", "created"}
Resuming == {"validate", "step", "session", "continue"}

ReturnedBy(w) == call[w].at = "event" /\ call[w].change.assignment = "returned"

\* What the history of a task's row says of the row.
RowTold(t) ==
  /\ task[t].status = "absent" => task[t] = NoRow /\ history[t] = <<>> /\ log[t] = <<>>
  /\ task[t].status = "pending" => Kinds(history[t], "claimed") = {}
  /\ task[t].status # "returned" => Kinds(history[t], "returned") = {}
  /\ Kinds(history[t], "returned") \subseteq {Len(history[t])}
  /\ \A i, j \in Kinds(history[t], "claimed") : i = j

\* What a call that is under way knows of its task.
CallKnows(w) ==
  /\ call[w].at \notin {"idle", "insert"} => task[call[w].task].status # "absent"
  /\ ReturnedBy(w) \/ call[w].at \in Resuming => task[call[w].task].status = "returned"
  /\ call[w].at \in Resuming => linked[call[w].task] # NoStep
  /\ call[w].at \in {"pause_step", "pause_session"} => call[w].step # NoStep

RowsInv == TypeOK /\ (\A t \in Task : RowTold(t)) /\ \A w \in Worker : CallKnows(w)

-----------------------------------------------------------------------------
LEMMA AnyTaskIsTask == ASSUME HumanTasksAssumption PROVE AnyTask \in Task
BY DEF HumanTasksAssumption, AnyTask

LEMMA IdleIsCall == ASSUME HumanTasksAssumption PROVE IdleCall \in Call
BY AnyTaskIsTask DEF IdleCall, Call, NoChange, Change

LEMMA InitTypes == ASSUME HumanTasksAssumption, Init \/ InitPaused PROVE TypeOK
<1>1. <<>> \in Seq(Change) /\ <<NoChange>> \in Seq(Change)
  BY DEF NoChange, Change
<1>2. NoRow \in TaskRow /\ NewRow \in TaskRow
  BY DEF NoRow, NewRow, TaskRow
<1>3. 0 \in 0..MaxCalls /\ 0 \in 0..MaxRestarts
  BY DEF HumanTasksAssumption
<1>4. CASE Init
  BY <1>1, <1>2, <1>3, <1>4, IdleIsCall DEF Init, TypeOK, RowsTypeOK
<1>5. CASE InitPaused
  BY <1>1, <1>2, <1>3, <1>5, IdleIsCall DEF InitPaused, TypeOK, RowsTypeOK
<1> QED BY <1>4, <1>5

\* What the three UPDATEs of an operator make of a row.
Updates(w) == Claim(w) \/ Assign(w) \/ Return(w)

\* The call that made an UPDATE keeps what it returned.
WithChange(c, change) == [c EXCEPT !.at = "event", !.change = change]

ChangeOf(r) == [assignment |-> r.assignment, operator |-> r.operator]

LEMMA UpdateWrites ==
  ASSUME TypeOK, NEW w \in Worker, Updates(w)
  PROVE  LET t == call[w].task
             r == task'[t]
         IN  /\ t \in Task /\ r \in TaskRow /\ ChangeOf(r) \in Change
             /\ call[w].at \notin {"idle", "insert"}
             /\ task' = [task EXCEPT ![t] = r]
             /\ history' = [history EXCEPT ![t] = Append(@, ChangeOf(r))]
             /\ call' = [call EXCEPT ![w] = WithChange(call[w], ChangeOf(r))]
             /\ UNCHANGED <<linked, step, session, log, calls, restarts>>
             /\ \/ task[t].status = "pending" /\ r.status = "claimed" /\ r.assignment = "claimed"
                \/ Open(t) /\ r.status = task[t].status /\ r.assignment = "assigned"
                \/ Open(t) /\ r.status = "returned" /\ r.assignment = "returned"
<1> DEFINE t == call[w].task
           o == call[w].operator
           r == task'[t]
<1>1. call[w] \in Call /\ t \in Task /\ o \in Operator \cup {Nobody} /\ task \in [Task -> TaskRow]
  BY DEF TypeOK, RowsTypeOK, Call
<1>2. Changed(w, t) /\ call[w].at \in {"claim", "assign", "return"}
  BY DEF Updates, Claim, Assign, Return
<1>3. /\ r \in TaskRow /\ task' = [task EXCEPT ![t] = r]
      /\ \/ task[t].status = "pending" /\ r.status = "claimed" /\ r.assignment = "claimed"
         \/ Open(t) /\ r.status = task[t].status /\ r.assignment = "assigned"
         \/ Open(t) /\ r.status = "returned" /\ r.assignment = "returned"
  <2>1. CASE ClaimRow(t, o)
    BY <1>1, <2>1 DEF ClaimRow, Claimable, TaskRow
  <2>2. CASE AssignRow(t, o)
    <3> DEFINE given == [task[t] EXCEPT !.assignment = "assigned"]
               new == [given EXCEPT !.operator = o]
    <3>1. task' = [task EXCEPT ![t] = new] /\ Open(t)
      BY <1>1, <2>2 DEF AssignRow, Changeable
    <3>2. task[t] \in TaskRow
      BY <1>1
    <3>3. given \in TaskRow /\ given.status = task[t].status /\ given.assignment = "assigned"
      BY <3>2 DEF TaskRow
    <3> HIDE DEF given
    <3>4. new \in TaskRow /\ new.status = task[t].status /\ new.assignment = "assigned"
      BY <1>1, <3>3 DEF TaskRow
    <3> HIDE DEF new
    <3>5. r = new
      BY <1>1, <3>1
    <3> QED BY <3>1, <3>4, <3>5
  <2>3. CASE ReturnRow(t, o)
    BY <1>1, <2>3 DEF ReturnRow, Changeable, TaskRow
  <2> QED BY <2>1, <2>2, <2>3 DEF Updates, Claim, Assign, Return
<1>4. ChangeOf(r) \in Change
  BY <1>3 DEF ChangeOf, Change, TaskRow, Open
<1>5. call' = [call EXCEPT ![w] = WithChange(call[w], ChangeOf(r))]
  BY <1>1, <1>2 DEF Changed, WithChange, ChangeOf, TypeOK
<1> QED BY <1>1, <1>2, <1>3, <1>4, <1>5 DEF Changed, ChangeOf

\* A call that goes on stays the call it is.
LEMMA GoesOn ==
  ASSUME TypeOK, NEW w \in Worker, NEW place, Goto(w, place)
  PROVE  /\ \A v \in Worker : v # w => call'[v] = call[v]
         /\ call'[w].at = place
         /\ call'[w].task = call[w].task /\ call'[w].step = call[w].step
         /\ call'[w].change = call[w].change
         /\ place \in {"event", "validate", "step", "session", "continue", "pause_session", "created"}
              => call' \in [Worker -> Call]
<1>1. call \in [Worker -> Call] /\ call[w] \in Call
  BY DEF TypeOK
<1>2. call' = [call EXCEPT ![w] = [call[w] EXCEPT !.at = place]]
  BY <1>1 DEF Goto
<1> QED BY <1>1, <1>2 DEF Call

LEMMA Left ==
  ASSUME HumanTasksAssumption, TypeOK, NEW w \in Worker, Leave(w)
  PROVE  /\ \A v \in Worker : v # w => call'[v] = call[v]
         /\ call'[w] = IdleCall
         /\ call' \in [Worker -> Call]
BY IdleIsCall DEF Leave, TypeOK

LEMMA Updated ==
  ASSUME TypeOK, NEW w \in Worker, NEW change \in Change,
         call' = [call EXCEPT ![w] = WithChange(call[w], change)]
  PROVE  /\ \A v \in Worker : v # w => call'[v] = call[v]
         /\ call'[w].at = "event" /\ call'[w].change = change
         /\ call'[w].task = call[w].task /\ call'[w].step = call[w].step
         /\ call' \in [Worker -> Call]
<1>1. call \in [Worker -> Call] /\ call[w] \in Call
  BY DEF TypeOK
<1> QED BY <1>1 DEF Call, WithChange

\* The calls that begin.
Begun(w, t) ==
  /\ task[t].status # "absent"
  /\ call[w].at = "idle"
  /\ call'[w].at \in {"claim", "assign", "return"} /\ call'[w].task = t
  /\ \A v \in Worker : v # w => call'[v] = call[v]
  /\ call' \in [Worker -> Call]

LEMMA BeginBegins ==
  ASSUME HumanTasksAssumption, RowsInv, NEW w \in Worker, Ask(w)
  PROVE  /\ \E t \in Task : Begun(w, t)
         /\ calls' \in 0..MaxCalls
         /\ UNCHANGED <<task, linked, step, session, history, log, restarts>>
<1>1. PICK kind \in {"claim", "assign", "return"}, t \in Task, o \in Operator : Begin(w, kind, t, o)
  BY DEF Ask
<1> DEFINE new == [IdleCall EXCEPT !.at = kind, !.task = t, !.operator = o]
<1>2. new \in Call /\ new.at = kind /\ new.task = t
  BY IdleIsCall DEF Call
<1>3. call' = [call EXCEPT ![w] = new] /\ call[w].at = "idle" /\ task[t] # NoRow
  BY <1>1 DEF Begin
<1>4. task[t].status # "absent"
  BY <1>3 DEF RowsInv, RowTold
<1>5. calls' \in 0..MaxCalls
  BY <1>1 DEF Begin, HumanTasksAssumption, RowsInv, TypeOK
<1> QED BY <1>1, <1>2, <1>3, <1>4, <1>5 DEF Begun, RowsInv, TypeOK, Begin

\* The calls that create a task.
LEMMA RequestBegins ==
  ASSUME HumanTasksAssumption, TypeOK, NEW w \in Worker, NEW s \in Step \cup {NoStep},
         RequestCreate(w, s)
  PROVE  /\ call[w].at = "idle" /\ call'[w].at = "insert"
         /\ \A v \in Worker : v # w => call'[v] = call[v]
         /\ call' \in [Worker -> Call]
         /\ calls' \in 0..MaxCalls
         /\ UNCHANGED <<task, linked, step, session, history, log, restarts>>
<1> DEFINE new == [IdleCall EXCEPT !.at = "insert", !.step = s]
<1>1. new \in Call /\ new.at = "insert"
  BY IdleIsCall DEF Call
<1>2. call' = [call EXCEPT ![w] = new] /\ call[w].at = "idle"
  BY DEF RequestCreate
<1>3. calls' \in 0..MaxCalls
  BY DEF RequestCreate, HumanTasksAssumption, TypeOK
<1> QED BY <1>1, <1>2, <1>3 DEF TypeOK, RequestCreate

LEMMA InsertWrites ==
  ASSUME TypeOK, NEW w \in Worker, NEW t \in Task, InsertTask(w, t)
  PROVE  /\ call[w].at = "insert" /\ task[t] = NoRow
         /\ task' = [task EXCEPT ![t] = NewRow]
         /\ linked' = [linked EXCEPT ![t] = call[w].step]
         /\ history' = [history EXCEPT ![t] = <<NoChange>>]
         /\ call'[w].task = t /\ call'[w].step = call[w].step
         /\ call'[w].at = IF call[w].step = NoStep THEN "created" ELSE "pause_step"
         /\ \A v \in Worker : v # w => call'[v] = call[v]
         /\ call' \in [Worker -> Call]
         /\ UNCHANGED <<step, session, log, calls, restarts>>
<1> DEFINE place == IF call[w].step = NoStep THEN "created" ELSE "pause_step"
           new == [call[w] EXCEPT !.task = t, !.at = place]
<1>1. call \in [Worker -> Call] /\ call[w] \in Call
  BY DEF TypeOK
<1>2. call' = [call EXCEPT ![w] = new]
  BY <1>1 DEF InsertTask
<1>3. new \in Call /\ new.task = t /\ new.step = call[w].step /\ new.at = place
  BY <1>1 DEF Call
<1> QED BY <1>1, <1>2, <1>3 DEF InsertTask, Insert

-----------------------------------------------------------------------------
(* Types *)

LEMMA EventTypes ==
  ASSUME HumanTasksAssumption, TypeOK, NEW w \in Worker,
         AppendEvent(w) \/ AppendCreated(w)
  PROVE  TypeOK'
<1>1. call[w] \in Call
  BY DEF TypeOK
<1>2. call[w].task \in Task /\ call[w].change \in Change /\ NoChange \in Change
  BY <1>1 DEF Call, NoChange, Change
<1>3. \A x \in Change :
        log' = [log EXCEPT ![call[w].task] = Append(@, x)] => log' \in [Task -> Seq(Change)]
  BY <1>2 DEF TypeOK
<1>4. log' \in [Task -> Seq(Change)]
  BY <1>2, <1>3 DEF AppendEvent, AppendCreated
<1>5. call' \in [Worker -> Call]
  BY GoesOn, Left DEF AppendEvent, AppendCreated
<1> QED BY <1>4, <1>5 DEF AppendEvent, AppendCreated, TypeOK, RowsTypeOK

LEMMA UpdateTypes ==
  ASSUME HumanTasksAssumption, TypeOK, NEW w \in Worker, Updates(w)
  PROVE  TypeOK'
<1> DEFINE t == call[w].task
           r == task'[t]
           x == ChangeOf(r)
<1>1. /\ t \in Task /\ r \in TaskRow /\ x \in Change
      /\ task' = [task EXCEPT ![t] = r]
      /\ history' = [history EXCEPT ![t] = Append(@, x)]
      /\ call' = [call EXCEPT ![w] = WithChange(call[w], x)]
      /\ UNCHANGED <<linked, step, session, log, calls, restarts>>
  BY UpdateWrites
<1> HIDE DEF t, r, x
<1>2. task' \in [Task -> TaskRow]
  BY <1>1 DEF TypeOK, RowsTypeOK
<1>3. history' \in [Task -> Seq(Change)]
  BY <1>1 DEF TypeOK
<1>4. call' \in [Worker -> Call]
  BY <1>1, Updated
<1> QED BY <1>1, <1>2, <1>3, <1>4 DEF TypeOK, RowsTypeOK

LEMMA InsertTypes ==
  ASSUME HumanTasksAssumption, TypeOK, NEW w \in Worker, NEW t \in Task, InsertTask(w, t)
  PROVE  TypeOK'
<1>1. NewRow \in TaskRow /\ <<NoChange>> \in Seq(Change) /\ call[w].step \in Step \cup {NoStep}
  BY DEF NewRow, TaskRow, NoChange, Change, TypeOK, Call
<1>2. task' \in [Task -> TaskRow] /\ linked' \in [Task -> Step \cup {NoStep}]
  BY <1>1, InsertWrites DEF TypeOK, RowsTypeOK
<1>3. history' \in [Task -> Seq(Change)]
  BY <1>1, InsertWrites DEF TypeOK
<1> QED BY <1>2, <1>3, InsertWrites DEF TypeOK, RowsTypeOK

LEMMA StepTypes ==
  ASSUME HumanTasksAssumption, TypeOK, NEW w \in Worker, CallKnows(w),
         \/ CompleteStep(w) \/ PauseStep(w) \/ ResumeSession(w) \/ PauseSession(w)
         \/ Continue(w)
  PROVE  TypeOK'
<1>1. call' \in [Worker -> Call]
  BY GoesOn, Left DEF CompleteStep, PauseStep, ResumeSession, PauseSession, Continue
<1>2. step' \in [Step -> {"queued", "waiting_human", "completed"}]
  BY DEF CompleteStep, PauseStep, ResumeSession, PauseSession, Continue, TypeOK
<1>3. session' \in {"running", "awaiting_human", "completed"}
  BY DEF CompleteStep, PauseStep, ResumeSession, PauseSession, Continue, TypeOK
<1> QED BY <1>1, <1>2, <1>3
        DEF CompleteStep, PauseStep, ResumeSession, PauseSession, Continue, TypeOK, RowsTypeOK

\* The calls that only go on, or end.
Moves(w) == Refused(w) \/ RejectOutput(w) \/ AcceptOutput(w)

LEMMA MoveTypes ==
  ASSUME HumanTasksAssumption, TypeOK, NEW w \in Worker, Moves(w)
  PROVE  TypeOK'
<1>1. call' \in [Worker -> Call]
  BY GoesOn, Left DEF Moves, Refused, RejectOutput, AcceptOutput
<1> QED BY <1>1 DEF Moves, Refused, RejectOutput, AcceptOutput, TypeOK, RowsTypeOK

LEMMA RestartTypes ==
  ASSUME HumanTasksAssumption, TypeOK, Restart
  PROVE  TypeOK'
<1>1. call' \in [Worker -> Call]
  BY IdleIsCall DEF Restart
<1>2. restarts' \in 0..MaxRestarts
  BY DEF Restart, TypeOK, HumanTasksAssumption
<1> QED BY <1>1, <1>2 DEF Restart, TypeOK, RowsTypeOK

LEMMA TypesKept ==
  ASSUME HumanTasksAssumption, RowsInv, [Next]_vars
  PROVE  TypeOK'
<1> USE DEF RowsInv
<1>1. CASE UNCHANGED vars
  BY <1>1 DEF vars, TypeOK, RowsTypeOK
<1>2. CASE Restart
  BY <1>2, RestartTypes
<1>3. ASSUME NEW w \in Worker, Ask(w) PROVE TypeOK'
  BY <1>3, BeginBegins DEF Begun, TypeOK, RowsTypeOK
<1>4. ASSUME NEW w \in Worker, Serve(w) PROVE TypeOK'
  BY <1>4, UpdateTypes, EventTypes, MoveTypes, StepTypes DEF Serve, Updates, Moves
<1>5. ASSUME NEW w \in Worker, Create(w) PROVE TypeOK'
  <2>1. ASSUME NEW s \in Step \cup {NoStep}, RequestCreate(w, s) PROVE TypeOK'
    BY <2>1, RequestBegins DEF TypeOK, RowsTypeOK
  <2> QED BY <1>5, <2>1, InsertTypes, StepTypes, EventTypes DEF Create
<1> QED BY <1>1, <1>2, <1>3, <1>4, <1>5 DEF Next

-----------------------------------------------------------------------------
(* Rows and the calls that know of them *)

\* No row is taken back: what a call knows of its task stays so.
RowsGoOn ==
  \A t \in Task :
    /\ task[t].status # "absent" => task'[t].status # "absent" /\ linked'[t] = linked[t]
    /\ task[t].status = "returned" => task'[t].status = "returned"

LEMMA OthersKnow ==
  ASSUME TypeOK, RowsGoOn, NEW w \in Worker, CallKnows(w), call'[w] = call[w]
  PROVE  CallKnows(w)'
<1>1. call[w].task \in Task
  BY DEF TypeOK, Call
<1> QED BY <1>1 DEF CallKnows, RowsGoOn, ReturnedBy, Resuming

LEMMA IdleKnows ==
  ASSUME NEW w \in Worker, call'[w].at \in {"idle", "insert"}
  PROVE  CallKnows(w)'
BY DEF CallKnows, ReturnedBy, Resuming

\* Steps that leave the rows and the steps they hold up alone.
LEMMA RowsStay ==
  ASSUME UNCHANGED <<task, linked>>
  PROVE  RowsGoOn
BY DEF RowsGoOn

LEMMA UpdateGoesOn ==
  ASSUME TypeOK, NEW w \in Worker, Updates(w)
  PROVE  RowsGoOn
<1> DEFINE t == call[w].task
           r == task'[t]
<1>1. /\ t \in Task
      /\ task' = [task EXCEPT ![t] = r]
      /\ linked' = linked
      /\ \/ task[t].status = "pending" /\ r.status = "claimed"
         \/ Open(t) /\ r.status = task[t].status
         \/ Open(t) /\ r.status = "returned"
  BY UpdateWrites
<1> HIDE DEF t, r
<1> QED BY <1>1 DEF RowsGoOn, Open, TypeOK, RowsTypeOK

LEMMA InsertGoesOn ==
  ASSUME TypeOK, NEW w \in Worker, NEW t \in Task, InsertTask(w, t)
  PROVE  RowsGoOn
<1>1. task[t].status = "absent"
  BY InsertWrites DEF NoRow
<1>2. \A u \in Task : u # t => task'[u] = task[u] /\ linked'[u] = linked[u]
  BY InsertWrites DEF TypeOK, RowsTypeOK
<1> QED BY <1>1, <1>2 DEF RowsGoOn

\* The call that takes a step knows of its task what it needs to go on.
LEMMA UpdateKnows ==
  ASSUME TypeOK, NEW w \in Worker, Updates(w)
  PROVE  CallKnows(w)'
<1> DEFINE t == call[w].task
           r == task'[t]
<1>1. /\ t \in Task /\ r \in TaskRow /\ ChangeOf(r) \in Change
      /\ task' = [task EXCEPT ![t] = r]
      /\ call' = [call EXCEPT ![w] = WithChange(call[w], ChangeOf(r))]
      /\ \/ task[t].status = "pending" /\ r.status = "claimed" /\ r.assignment = "claimed"
         \/ Open(t) /\ r.status = task[t].status /\ r.assignment = "assigned"
         \/ Open(t) /\ r.status = "returned" /\ r.assignment = "returned"
  BY UpdateWrites
<1>2. call'[w].at = "event" /\ call'[w].change = ChangeOf(r) /\ call'[w].task = t
  BY <1>1, Updated
<1>3. ChangeOf(r).assignment = r.assignment
  BY DEF ChangeOf
<1> HIDE DEF t, r
<1>4. task'[t] = r
  BY <1>1 DEF TypeOK, RowsTypeOK
<1>5. r.status # "absent" /\ (r.assignment = "returned" => r.status = "returned")
  BY <1>1 DEF Open
<1> QED BY <1>2, <1>3, <1>4, <1>5 DEF CallKnows, ReturnedBy, Resuming

LEMMA EventKnows ==
  ASSUME HumanTasksAssumption, TypeOK, NEW w \in Worker, CallKnows(w), AppendEvent(w)
  PROVE  CallKnows(w)'
<1>1. CASE Resumes(w)
  <2>1. Goto(w, "validate") /\ ReturnedBy(w) /\ linked[call[w].task] # NoStep
    BY <1>1 DEF AppendEvent, Resumes, ReturnedBy
  <2>2. call'[w].at = "validate" /\ call'[w].task = call[w].task
    BY <2>1, GoesOn
  <2> QED BY <2>1, <2>2 DEF CallKnows, AppendEvent, ReturnedBy, Resuming
<1>2. CASE ~Resumes(w)
  <2>1. call'[w].at = "idle"
    BY <1>2, Left DEF AppendEvent, IdleCall
  <2> QED BY <2>1, IdleKnows
<1> QED BY <1>1, <1>2

\* Where a call that resumes or pauses a session goes from where.
Follows(w) ==
  \/ call[w].at \in Resuming /\ call'[w].at \in Resuming
  \/ call[w].at \in {"pause_step", "pause_session"} /\ call'[w].at \in {"pause_session", "created"}

LEMMA StepFollows ==
  ASSUME HumanTasksAssumption, TypeOK, NEW w \in Worker,
         AcceptOutput(w) \/ CompleteStep(w) \/ PauseStep(w) \/ ResumeSession(w) \/ PauseSession(w)
  PROVE  /\ Follows(w) /\ call'[w].task = call[w].task /\ call'[w].step = call[w].step
         /\ \A v \in Worker : v # w => call'[v] = call[v]
         /\ UNCHANGED <<task, linked>>
BY GoesOn
DEF Follows, AcceptOutput, CompleteStep, PauseStep, ResumeSession, PauseSession, Resuming

LEMMA FollowsKnows ==
  ASSUME NEW w \in Worker, CallKnows(w), Follows(w),
         call'[w].task = call[w].task, call'[w].step = call[w].step, UNCHANGED <<task, linked>>
  PROVE  CallKnows(w)'
BY DEF CallKnows, Follows, ReturnedBy, Resuming

LEMMA EndKnows ==
  ASSUME HumanTasksAssumption, TypeOK, NEW w \in Worker, Leave(w)
  PROVE  CallKnows(w)' /\ \A v \in Worker : v # w => call'[v] = call[v]
BY Left, IdleKnows DEF IdleCall

LEMMA CallsKnow ==
  ASSUME HumanTasksAssumption, RowsInv, [Next]_vars, NEW v \in Worker
  PROVE  CallKnows(v)'
<1> USE DEF RowsInv
<1>1. CASE UNCHANGED vars
  BY <1>1 DEF vars, CallKnows, ReturnedBy
<1>2. CASE Restart
  BY <1>2, IdleKnows DEF Restart, IdleCall
<1>3. ASSUME NEW w \in Worker, Ask(w) PROVE CallKnows(v)'
  <2>1. PICK t \in Task : Begun(w, t)
    BY <1>3, BeginBegins
  <2>2. UNCHANGED <<task, linked>>
    BY <1>3, BeginBegins
  <2>3. CASE v = w
    BY <2>1, <2>2, <2>3 DEF Begun, CallKnows, ReturnedBy, Resuming
  <2>4. CASE v # w
    BY <2>1, <2>2, <2>4, RowsStay, OthersKnow DEF Begun
  <2> QED BY <2>3, <2>4
<1>4. ASSUME NEW w \in Worker, Serve(w) \/ Create(w) PROVE CallKnows(v)'
  <2>1. CASE Updates(w)
    <3>1. \A u \in Worker : u # w => call'[u] = call[u]
      BY <2>1, UpdateWrites, Updated
    <3> QED BY <2>1, <3>1, UpdateKnows, UpdateGoesOn, OthersKnow
  <2>2. CASE AppendEvent(w)
    <3>1. \A u \in Worker : u # w => call'[u] = call[u]
      BY <2>2, GoesOn, Left DEF AppendEvent
    <3>2. RowsGoOn
      BY <2>2, RowsStay DEF AppendEvent
    <3> QED BY <2>2, <3>1, <3>2, EventKnows, OthersKnow
  <2>3. CASE AcceptOutput(w) \/ CompleteStep(w) \/ PauseStep(w) \/ ResumeSession(w) \/ PauseSession(w)
    BY <2>3, StepFollows, FollowsKnows, RowsStay, OthersKnow
  <2>4. CASE Refused(w) \/ RejectOutput(w) \/ Continue(w) \/ AppendCreated(w)
    <3>1. Leave(w) /\ UNCHANGED <<task, linked>>
      BY <2>4 DEF Refused, RejectOutput, Continue, AppendCreated
    <3> QED BY <3>1, EndKnows, RowsStay, OthersKnow
  <2>5. ASSUME NEW s \in Step \cup {NoStep}, RequestCreate(w, s) PROVE CallKnows(v)'
    BY <2>5, RequestBegins, IdleKnows, RowsStay, OthersKnow
  <2>6. ASSUME NEW t \in Task, InsertTask(w, t) PROVE CallKnows(v)'
    <3>1. CASE v = w
      <4>1. call'[v].task = t /\ call'[v].step = call[v].step
        BY <2>6, <3>1, InsertWrites
      <4>2. call'[v].at = IF call[v].step = NoStep THEN "created" ELSE "pause_step"
        BY <2>6, <3>1, InsertWrites
      <4>3. task' = [task EXCEPT ![t] = NewRow]
        BY <2>6, InsertWrites
      <4>4. task'[t].status # "absent"
        BY <4>3 DEF NewRow, TypeOK, RowsTypeOK
      <4> QED BY <4>1, <4>2, <4>4 DEF CallKnows, ReturnedBy, Resuming
    <3>2. CASE v # w
      BY <2>6, <3>2, InsertWrites, InsertGoesOn, OthersKnow
    <3> QED BY <3>1, <3>2
  <2> QED BY <1>4, <2>1, <2>2, <2>3, <2>4, <2>5, <2>6 DEF Serve, Create, Updates
<1> QED BY <1>1, <1>2, <1>3, <1>4 DEF Next

-----------------------------------------------------------------------------
(* What the histories tell *)

LEMMA KindsOfAppend ==
  ASSUME NEW s \in Seq(Change), NEW x \in Change, NEW kind
  PROVE  Kinds(Append(s, x), kind) =
           IF x.assignment = kind THEN Kinds(s, kind) \cup {Len(s) + 1} ELSE Kinds(s, kind)
<1>1. Append(s, x) \in Seq(Change) /\ Len(Append(s, x)) = Len(s) + 1 /\ Len(s) \in Nat
  BY AppendProperties
<1>2. \A i \in 1..Len(s) : Append(s, x)[i] = s[i]
  BY AppendProperties
<1>3. Append(s, x)[Len(s) + 1] = x
  BY AppendProperties
<1>4. DOMAIN s = 1..Len(s) /\ DOMAIN Append(s, x) = 1..Len(s) + 1
  BY <1>1, LenProperties
<1>5. \A i : i \in 1..Len(s) + 1 <=> i \in 1..Len(s) \/ i = Len(s) + 1
  BY <1>1
<1> QED BY <1>1, <1>2, <1>3, <1>4, <1>5 DEF Kinds

\* A history that is as it was tells what it told, of a row whose status is as it was.
LEMMA ToldAsBefore ==
  ASSUME NEW t \in Task, RowTold(t), task'[t] = task[t], history'[t] = history[t],
         task[t].status = "absent" => log'[t] = log[t]
  PROVE  RowTold(t)'
BY DEF RowTold, Kinds

LEMMA UpdateTold ==
  ASSUME TypeOK, NEW w \in Worker, Updates(w), NEW t \in Task, call[w].task = t, RowTold(t)
  PROVE  RowTold(t)'
<1> DEFINE r == task'[t]
           h == history[t]
           x == ChangeOf(r)
           After(kind) == IF x.assignment = kind THEN Kinds(h, kind) \cup {Len(h) + 1}
                          ELSE Kinds(h, kind)
<1>1. /\ r \in TaskRow /\ x \in Change
      /\ history' = [history EXCEPT ![t] = Append(@, x)]
      /\ \/ task[t].status = "pending" /\ r.status = "claimed" /\ r.assignment = "claimed"
         \/ Open(t) /\ r.status = task[t].status /\ r.assignment = "assigned"
         \/ Open(t) /\ r.status = "returned" /\ r.assignment = "returned"
  BY UpdateWrites
<1>2. x.assignment = r.assignment
  BY DEF ChangeOf
<1>3. h \in Seq(Change) /\ history'[t] = Append(h, x)
  BY <1>1 DEF TypeOK
<1>4. Kinds(h, "returned") = {}
  BY <1>1 DEF RowTold, Open
<1>5. task[t].status = "pending" => Kinds(h, "claimed") = {}
  BY DEF RowTold
<1>6. \A i, j \in Kinds(h, "claimed") : i = j
  BY DEF RowTold
<1> HIDE DEF x, h
<1>7. Kinds(Append(h, x), "claimed") = After("claimed")
  BY <1>1, <1>3, KindsOfAppend
<1>8. Kinds(Append(h, x), "returned") = After("returned")
  BY <1>1, <1>3, KindsOfAppend
<1>9. Len(history'[t]) = Len(h) + 1
  BY <1>1, <1>3
<1> DEFINE claims == Kinds(history'[t], "claimed")
           returns == Kinds(history'[t], "returned")
<1>10. claims = IF r.assignment = "claimed" THEN Kinds(h, "claimed") \cup {Len(h) + 1}
                ELSE Kinds(h, "claimed")
  BY <1>2, <1>3, <1>7
<1>11. returns = IF r.assignment = "returned" THEN Kinds(h, "returned") \cup {Len(h) + 1}
                 ELSE Kinds(h, "returned")
  BY <1>2, <1>3, <1>8
<1> HIDE DEF claims, returns, r
<1>12. r.status # "absent"
  BY <1>1 DEF Open
<1>13. r.status = "pending" => claims = {}
  BY <1>1, <1>5, <1>10 DEF Open
<1>14. r.status # "returned" => returns = {}
  BY <1>1, <1>4, <1>11 DEF Open
<1>15. returns \subseteq {Len(history'[t])}
  BY <1>4, <1>9, <1>11
<1>16. \A i, j \in claims : i = j
  BY <1>1, <1>5, <1>6, <1>10
<1> QED BY <1>12, <1>13, <1>14, <1>15, <1>16 DEF RowTold, Kinds, claims, returns, r

LEMMA InsertTold ==
  ASSUME TypeOK, NEW w \in Worker, NEW t \in Task, InsertTask(w, t)
  PROVE  RowTold(t)'
<1>1. task'[t] = NewRow /\ history'[t] = <<NoChange>>
  BY InsertWrites DEF TypeOK, RowsTypeOK
<1>2. Kinds(<<NoChange>>, "claimed") = {} /\ Kinds(<<NoChange>>, "returned") = {}
  BY DEF Kinds, NoChange
<1> DEFINE claims == Kinds(history'[t], "claimed")
           returns == Kinds(history'[t], "returned")
<1>3. claims = {} /\ returns = {}
  BY <1>1, <1>2
<1>4. task'[t].status = "pending"
  BY <1>1 DEF NewRow
<1>5. returns \subseteq {Len(history'[t])} /\ \A i, j \in claims : i = j
  BY <1>3
<1> HIDE DEF claims, returns
<1> QED BY <1>3, <1>4, <1>5 DEF RowTold, Kinds, claims, returns

LEMMA EventTold ==
  ASSUME TypeOK, NEW w \in Worker, CallKnows(w), NEW t \in Task, RowTold(t),
         AppendEvent(w) \/ AppendCreated(w)
  PROVE  RowTold(t)'
<1>1. call[w].task = t => task[t].status # "absent"
  BY DEF CallKnows, AppendEvent, AppendCreated
<1>2. call[w].task # t => log'[t] = log[t]
  BY DEF AppendEvent, AppendCreated, TypeOK
<1>3. task' = task /\ history' = history
  BY DEF AppendEvent, AppendCreated
<1> QED BY <1>1, <1>2, <1>3, ToldAsBefore

LEMMA RowsTold ==
  ASSUME HumanTasksAssumption, RowsInv, [Next]_vars, NEW t \in Task
  PROVE  RowTold(t)'
<1> USE DEF RowsInv
<1>1. CASE UNCHANGED <<task, history, log>>
  BY <1>1, ToldAsBefore
<1>2. ASSUME NEW w \in Worker, Updates(w) PROVE RowTold(t)'
  <2>1. CASE call[w].task = t
    BY <1>2, <2>1, UpdateTold
  <2>2. CASE call[w].task # t
    <3>1. task'[t] = task[t] /\ history'[t] = history[t] /\ log' = log
      BY <1>2, <2>2, UpdateWrites DEF TypeOK, RowsTypeOK
    <3> QED BY <3>1, ToldAsBefore
  <2> QED BY <2>1, <2>2
<1>3. ASSUME NEW w \in Worker, AppendEvent(w) \/ AppendCreated(w) PROVE RowTold(t)'
  BY <1>3, EventTold
<1>4. ASSUME NEW w \in Worker, NEW u \in Task, InsertTask(w, u) PROVE RowTold(t)'
  <2>1. CASE u = t
    BY <1>4, <2>1, InsertTold
  <2>2. CASE u # t
    <3>1. task'[t] = task[t] /\ history'[t] = history[t] /\ log' = log
      BY <1>4, <2>2, InsertWrites DEF TypeOK, RowsTypeOK
    <3> QED BY <3>1, ToldAsBefore
  <2> QED BY <2>1, <2>2
<1>5. ASSUME NEW w \in Worker, Ask(w) PROVE UNCHANGED <<task, history, log>>
  BY <1>5, BeginBegins
<1>6. CASE UNCHANGED vars \/ Restart
  BY <1>1, <1>6 DEF vars, Restart
<1>7. ASSUME NEW w \in Worker, Serve(w) PROVE RowTold(t)'
  <2>1. CASE Moves(w) \/ CompleteStep(w) \/ ResumeSession(w) \/ Continue(w)
    BY <1>1, <2>1
    DEF Moves, Refused, RejectOutput, AcceptOutput, CompleteStep, ResumeSession, Continue
  <2> QED BY <1>2, <1>3, <1>7, <2>1 DEF Serve, Updates, Moves
<1>8. ASSUME NEW w \in Worker, Create(w) PROVE RowTold(t)'
  <2>1. CASE PauseStep(w) \/ PauseSession(w) \/ \E s \in Step \cup {NoStep} : RequestCreate(w, s)
    BY <1>1, <2>1 DEF PauseStep, PauseSession, RequestCreate
  <2> QED BY <1>3, <1>4, <1>8, <2>1 DEF Create
<1> QED BY <1>1, <1>5, <1>6, <1>7, <1>8 DEF Next

LEMMA InitTold == ASSUME Init \/ InitPaused, NEW t \in Task PROVE RowTold(t)
<1>1. Kinds(<<>>, "claimed") = {} /\ Kinds(<<>>, "returned") = {}
  BY DEF Kinds
<1>2. Kinds(<<NoChange>>, "claimed") = {} /\ Kinds(<<NoChange>>, "returned") = {}
  BY DEF Kinds, NoChange
<1>3. CASE Init
  <2>1. task[t] = NoRow /\ history[t] = <<>> /\ log[t] = <<>>
    BY <1>3 DEF Init
  <2> QED BY <1>1, <2>1 DEF RowTold, NoRow
<1>4. CASE InitPaused
  <2>1. task[t] = NewRow /\ history[t] = <<NoChange>>
    BY <1>4 DEF InitPaused
  <2> QED BY <1>2, <2>1 DEF RowTold, NewRow
<1> QED BY <1>3, <1>4

LEMMA InitKnows == ASSUME Init \/ InitPaused, NEW w \in Worker PROVE CallKnows(w)
BY DEF Init, InitPaused, CallKnows, ReturnedBy, Resuming, IdleCall

-----------------------------------------------------------------------------
(* Changes and the events that tell of them *)

\* The call has changed the task's row, and its event is yet to be written.
Owes(w, t, x) ==
  /\ call[w].task = t
  /\ \/ call[w].at = "event" /\ call[w].change = x
     \/ call[w].at \in Pausing /\ x = NoChange

Due(w, t, x) == IF Owes(w, t, x) THEN 1 ELSE 0

Owing(t, x) == {w \in Worker : Owes(w, t, x)}

\* Every change has its event, or a call that will write it.
Told(t, x) == Times(history[t], x) = Times(log[t], x) + Cardinality(Owing(t, x))

AllTold == restarts = 0 => \A t \in Task, x \in Change : Told(t, x)

TasksInv == RowsInv /\ AllTold

LEMMA TimesOfEmpty ==
  ASSUME NEW x PROVE Times(<<>>, x) = 0
BY FS_EmptySet DEF Times

LEMMA TimesIsNat ==
  ASSUME NEW s \in Seq(Change), NEW x PROVE Times(s, x) \in Nat
<1>1. IsFiniteSet(1..Len(s)) /\ DOMAIN s = 1..Len(s)
  BY FS_Interval, LenProperties
<1> QED BY <1>1, FS_Subset, FS_CardinalityType DEF Times

LEMMA TimesOfAppend ==
  ASSUME NEW s \in Seq(Change), NEW y \in Change, NEW x \in Change
  PROVE  /\ y = x => Times(Append(s, y), x) = Times(s, x) + 1
         /\ y # x => Times(Append(s, y), x) = Times(s, x)
<1> DEFINE before == {i \in DOMAIN s : s[i] = x}
           after == {i \in DOMAIN Append(s, y) : Append(s, y)[i] = x}
<1>1. Append(s, y) \in Seq(Change) /\ Len(Append(s, y)) = Len(s) + 1 /\ Len(s) \in Nat
  BY AppendProperties
<1>2. \A i \in 1..Len(s) : Append(s, y)[i] = s[i]
  BY AppendProperties
<1>3. Append(s, y)[Len(s) + 1] = y
  BY AppendProperties
<1>4. DOMAIN s = 1..Len(s) /\ DOMAIN Append(s, y) = 1..Len(s) + 1
  BY <1>1, LenProperties
<1>5. \A i : i \in 1..Len(s) + 1 <=> i \in 1..Len(s) \/ i = Len(s) + 1
  BY <1>1
<1>6. after = IF y = x THEN before \cup {Len(s) + 1} ELSE before
  BY <1>1, <1>2, <1>3, <1>4, <1>5
<1>7. IsFiniteSet(before) /\ Len(s) + 1 \notin before
  <2>1. IsFiniteSet(1..Len(s))
    BY <1>1, FS_Interval
  <2>2. before \subseteq 1..Len(s)
    BY <1>4
  <2>3. Len(s) + 1 \notin 1..Len(s)
    BY <1>1
  <2> HIDE DEF before
  <2> QED BY <2>1, <2>2, <2>3, FS_Subset
<1>8. Cardinality(before) \in Nat
  BY <1>7, FS_CardinalityType
<1>9. Cardinality(before \cup {Len(s) + 1}) = Cardinality(before) + 1
  BY <1>7, FS_AddElement
<1> HIDE DEF before, after
<1>10. /\ y = x => Cardinality(after) = Cardinality(before) + 1
       /\ y # x => Cardinality(after) = Cardinality(before)
  BY <1>6, <1>9
<1> QED BY <1>10 DEF Times, before, after

\* A step of one call changes what the calls owe by what that call owes.
LEMMA OwingChanges ==
  ASSUME HumanTasksAssumption, NEW w \in Worker, NEW t \in Task, NEW x \in Change,
         \A v \in Worker : v # w => call'[v] = call[v]
  PROVE  /\ Cardinality(Owing(t, x)) \in Nat /\ Cardinality(Owing(t, x)') \in Nat
         /\ Cardinality(Owing(t, x)') + Due(w, t, x) = Cardinality(Owing(t, x)) + Due(w, t, x)'
<1> DEFINE others == {v \in Worker \ {w} : Owes(v, t, x)}
<1>1. \A v \in Worker : v # w => (Owes(v, t, x)' <=> Owes(v, t, x))
  BY DEF Owes
<1>2. Owing(t, x) = IF Owes(w, t, x) THEN others \cup {w} ELSE others
  BY DEF Owing
<1>3. Owing(t, x)' = IF Owes(w, t, x)' THEN others \cup {w} ELSE others
  BY <1>1 DEF Owing
<1>4. IsFiniteSet(others) /\ w \notin others
  BY FS_Subset DEF HumanTasksAssumption
<1>5. Cardinality(others) \in Nat /\ Cardinality(others \cup {w}) = Cardinality(others) + 1
  BY <1>4, FS_CardinalityType, FS_AddElement
<1> HIDE DEF others
<1>6. CASE Owes(w, t, x) /\ Owes(w, t, x)'
  BY <1>2, <1>3, <1>5, <1>6 DEF Due
<1>7. CASE Owes(w, t, x) /\ ~Owes(w, t, x)'
  BY <1>2, <1>3, <1>5, <1>7 DEF Due
<1>8. CASE ~Owes(w, t, x) /\ Owes(w, t, x)'
  BY <1>2, <1>3, <1>5, <1>8 DEF Due
<1>9. CASE ~Owes(w, t, x) /\ ~Owes(w, t, x)'
  BY <1>2, <1>3, <1>5, <1>9 DEF Due
<1> QED BY <1>6, <1>7, <1>8, <1>9

\* What a step of w adds to a history it owes, or has told.
Balanced(w, t, x) ==
  Times(history'[t], x) + Times(log[t], x) + Due(w, t, x)
    = Times(history[t], x) + Times(log'[t], x) + Due(w, t, x)'

\* By what it adds to a history, or an event to the log.
LEMMA BalancedBy ==
  ASSUME NEW w \in Worker, NEW t \in Task, NEW x \in Change,
         Times(history[t], x) \in Nat, Times(log[t], x) \in Nat,
         \/ /\ Times(history'[t], x) = Times(history[t], x) + 1 /\ log'[t] = log[t]
            /\ Due(w, t, x) = 0 /\ Due(w, t, x)' = 1
         \/ /\ Times(log'[t], x) = Times(log[t], x) + 1 /\ history'[t] = history[t]
            /\ Due(w, t, x) = 1 /\ Due(w, t, x)' = 0
         \/ /\ Times(history'[t], x) = Times(history[t], x)
            /\ Times(log'[t], x) = Times(log[t], x)
            /\ Due(w, t, x) = 0 /\ Due(w, t, x)' = 0
  PROVE  Balanced(w, t, x)
<1> DEFINE h == Times(history[t], x)
           l == Times(log[t], x)
           hn == Times(history'[t], x)
           ln == Times(log'[t], x)
           d == Due(w, t, x)
           dn == Due(w, t, x)'
<1>1. \/ hn = h + 1 /\ ln = l /\ d = 0 /\ dn = 1
      \/ ln = l + 1 /\ hn = h /\ d = 1 /\ dn = 0
      \/ hn = h /\ ln = l /\ d = 0 /\ dn = 0
  OBVIOUS
<1>2. h \in Nat /\ l \in Nat
  OBVIOUS
<1> HIDE DEF h, l, hn, ln, d, dn
<1>3. hn + l + d = h + ln + dn
  BY <1>1, <1>2
<1> QED BY <1>3 DEF Balanced, h, l, hn, ln, d, dn

LEMMA BalanceKeeps ==
  ASSUME HumanTasksAssumption, TypeOK, TypeOK', NEW w \in Worker, NEW t \in Task, NEW x \in Change,
         \A v \in Worker : v # w => call'[v] = call[v],
         Balanced(w, t, x), Told(t, x)
  PROVE  Told(t, x)'
<1> DEFINE h == Times(history[t], x)
           l == Times(log[t], x)
           hn == Times(history'[t], x)
           ln == Times(log'[t], x)
           c == Cardinality(Owing(t, x))
           cn == Cardinality(Owing(t, x)')
           d == Due(w, t, x)
           dn == Due(w, t, x)'
<1>1. h \in Nat /\ l \in Nat
  BY TimesIsNat DEF TypeOK
<1>2. hn \in Nat /\ ln \in Nat
  BY TimesIsNat DEF TypeOK
<1>3. c \in Nat /\ cn \in Nat /\ cn + d = c + dn
  BY OwingChanges
<1>4. d \in {0, 1} /\ dn \in {0, 1}
  BY DEF Due
<1>5. hn + l + d = h + ln + dn /\ h = l + c
  BY DEF Balanced, Told
<1> HIDE DEF h, l, hn, ln, c, cn, d, dn
<1>6. hn = ln + cn
  BY <1>1, <1>2, <1>3, <1>4, <1>5
<1> QED BY <1>6 DEF Told, Times, hn, ln, cn

LEMMA UpdateBalanced ==
  ASSUME HumanTasksAssumption, TypeOK, NEW w \in Worker, Updates(w), NEW t \in Task, NEW x \in Change
  PROVE  Balanced(w, t, x) /\ \A v \in Worker : v # w => call'[v] = call[v]
<1> DEFINE u == call[w].task
           y == ChangeOf(task'[u])
<1>1. /\ u \in Task /\ y \in Change
      /\ history' = [history EXCEPT ![u] = Append(@, y)]
      /\ call' = [call EXCEPT ![w] = WithChange(call[w], y)]
      /\ log' = log
  BY UpdateWrites
<1>2. /\ \A v \in Worker : v # w => call'[v] = call[v]
      /\ call'[w].at = "event" /\ call'[w].change = y /\ call'[w].task = u
  BY <1>1, Updated
<1>3. Due(w, t, x) = 0
  BY DEF Due, Owes, Updates, Claim, Assign, Return, Pausing
<1>4. Due(w, t, x)' = IF u = t /\ y = x THEN 1 ELSE 0
  BY <1>2 DEF Due, Owes, Pausing
<1> HIDE DEF u, y
<1>5. history[t] \in Seq(Change)
  BY DEF TypeOK
<1>6. u = t => history'[t] = Append(history[t], y)
  BY <1>1 DEF TypeOK
<1>7. u # t => history'[t] = history[t]
  BY <1>1 DEF TypeOK
<1>8. Times(history[t], x) \in Nat /\ Times(log[t], x) \in Nat
  BY TimesIsNat DEF TypeOK
<1>9. /\ y = x => Times(Append(history[t], y), x) = Times(history[t], x) + 1
      /\ y # x => Times(Append(history[t], y), x) = Times(history[t], x)
  BY <1>1, <1>5, TimesOfAppend
<1>10. CASE u = t /\ y = x
  <2>1. Times(history'[t], x) = Times(history[t], x) + 1
    BY <1>6, <1>9, <1>10
  <2> QED BY <1>1, <1>3, <1>4, <1>8, <1>10, <2>1, BalancedBy
<1>11. CASE ~(u = t /\ y = x)
  <2>1. Times(history'[t], x) = Times(history[t], x)
    BY <1>6, <1>7, <1>9, <1>11
  <2> QED BY <1>1, <1>3, <1>4, <1>8, <1>11, <2>1, BalancedBy
<1> QED BY <1>2, <1>10, <1>11

LEMMA EventBalanced ==
  ASSUME HumanTasksAssumption, TypeOK, NEW w \in Worker, AppendEvent(w) \/ AppendCreated(w),
         NEW t \in Task, NEW x \in Change
  PROVE  Balanced(w, t, x) /\ \A v \in Worker : v # w => call'[v] = call[v]
<1> DEFINE u == call[w].task
           y == IF call[w].at = "event" THEN call[w].change ELSE NoChange
<1>1. u \in Task /\ y \in Change
  BY DEF TypeOK, Call, NoChange, Change
<1>2. log' = [log EXCEPT ![u] = Append(@, y)] /\ history' = history
  BY DEF AppendEvent, AppendCreated
<1>3. /\ \A v \in Worker : v # w => call'[v] = call[v]
      /\ call'[w].at \in {"validate", "idle"}
  BY GoesOn, Left DEF AppendEvent, AppendCreated, IdleCall
<1>4. Due(w, t, x) = IF u = t /\ y = x THEN 1 ELSE 0
  BY DEF Due, Owes, AppendEvent, AppendCreated, Pausing
<1>5. Due(w, t, x)' = 0
  BY <1>3 DEF Due, Owes, Pausing
<1> HIDE DEF u, y
<1>6. log[t] \in Seq(Change)
  BY DEF TypeOK
<1>7. u = t => log'[t] = Append(log[t], y)
  BY <1>1, <1>2 DEF TypeOK
<1>8. u # t => log'[t] = log[t]
  BY <1>1, <1>2 DEF TypeOK
<1>9. Times(history[t], x) \in Nat /\ Times(log[t], x) \in Nat
  BY TimesIsNat DEF TypeOK
<1>10. /\ y = x => Times(Append(log[t], y), x) = Times(log[t], x) + 1
       /\ y # x => Times(Append(log[t], y), x) = Times(log[t], x)
  BY <1>1, <1>6, TimesOfAppend
<1>11. CASE u = t /\ y = x
  <2>1. Times(log'[t], x) = Times(log[t], x) + 1
    BY <1>7, <1>10, <1>11
  <2>2. history'[t] = history[t] /\ Due(w, t, x) = 1
    BY <1>2, <1>4, <1>11
  <2> QED BY <1>3, <1>5, <1>9, <2>1, <2>2, BalancedBy
<1>12. CASE ~(u = t /\ y = x)
  <2>1. Times(log'[t], x) = Times(log[t], x)
    BY <1>7, <1>8, <1>10, <1>12
  <2>2. history'[t] = history[t] /\ Due(w, t, x) = 0
    BY <1>2, <1>4, <1>12
  <2>3. Times(history'[t], x) = Times(history[t], x)
    BY <2>2
  <2> QED BY <1>3, <1>5, <1>9, <2>1, <2>2, <2>3, BalancedBy
<1> QED BY <1>3, <1>11, <1>12

LEMMA InsertBalanced ==
  ASSUME HumanTasksAssumption, RowsInv, NEW w \in Worker, NEW u \in Task, InsertTask(w, u),
         NEW t \in Task, NEW x \in Change
  PROVE  Balanced(w, t, x) /\ \A v \in Worker : v # w => call'[v] = call[v]
<1>1. /\ call[w].at = "insert" /\ task[u] = NoRow
      /\ history' = [history EXCEPT ![u] = <<NoChange>>]
      /\ call'[w].task = u /\ call'[w].at \in Pausing
      /\ log' = log
      /\ \A v \in Worker : v # w => call'[v] = call[v]
  BY InsertWrites DEF RowsInv, Pausing
<1>2. Due(w, t, x) = 0
  BY <1>1 DEF Due, Owes, Pausing
<1>3. Due(w, t, x)' = IF u = t /\ x = NoChange THEN 1 ELSE 0
  BY <1>1 DEF Due, Owes, Pausing
<1>4. Times(log[t], x) \in Nat /\ Times(history[t], x) \in Nat
  BY TimesIsNat DEF RowsInv, TypeOK
<1>5. CASE u = t
  <2>1. history[t] = <<>> /\ history'[t] = Append(<<>>, NoChange)
    BY <1>1, <1>5 DEF RowsInv, RowTold, NoRow, TypeOK
  <2>2. NoChange \in Change /\ <<>> \in Seq(Change)
    BY DEF NoChange, Change
  <2>3. /\ NoChange = x => Times(Append(<<>>, NoChange), x) = Times(<<>>, x) + 1
        /\ NoChange # x => Times(Append(<<>>, NoChange), x) = Times(<<>>, x)
    BY <2>2, TimesOfAppend
  <2>4. /\ NoChange = x => Times(history'[t], x) = Times(history[t], x) + 1
        /\ NoChange # x => Times(history'[t], x) = Times(history[t], x)
    BY <2>1, <2>3
  <2>5. NoChange = x => Due(w, t, x)' = 1
    BY <1>3, <1>5
  <2>6. NoChange # x => Due(w, t, x)' = 0
    BY <1>3
  <2> QED BY <1>1, <1>2, <1>4, <2>4, <2>5, <2>6, BalancedBy
<1>6. CASE u # t
  <2>1. history'[t] = history[t]
    BY <1>1, <1>6 DEF RowsInv, TypeOK
  <2> QED BY <1>1, <1>2, <1>3, <1>4, <1>6, <2>1, BalancedBy
<1> QED BY <1>5, <1>6

\* The other steps write nothing, and owe what they owed.
LEMMA QuietBalanced ==
  ASSUME HumanTasksAssumption, TypeOK, NEW w \in Worker, UNCHANGED <<history, log>>,
         NEW t \in Task, NEW x \in Change,
         Owes(w, t, x)' <=> Owes(w, t, x)
  PROVE  Balanced(w, t, x)
<1>1. Due(w, t, x)' = Due(w, t, x)
  BY DEF Due
<1>2. Times(history[t], x) \in Nat /\ Times(log[t], x) \in Nat /\ Due(w, t, x) \in {0, 1}
  BY TimesIsNat DEF TypeOK, Due
<1> QED BY <1>1, <1>2 DEF Balanced

LEMMA ServeQuiet ==
  ASSUME HumanTasksAssumption, TypeOK, NEW w \in Worker,
         \/ Moves(w) \/ CompleteStep(w) \/ ResumeSession(w) \/ Continue(w)
         \/ PauseStep(w) \/ PauseSession(w),
         NEW t \in Task, NEW x \in Change
  PROVE  Balanced(w, t, x) /\ \A v \in Worker : v # w => call'[v] = call[v]
<1>1. UNCHANGED <<history, log>>
  BY DEF Moves, Refused, RejectOutput, AcceptOutput, CompleteStep, ResumeSession, Continue,
         PauseStep, PauseSession
<1>2. CASE PauseStep(w) \/ PauseSession(w)
  <2>1. /\ call[w].at \in Pausing /\ call'[w].at \in Pausing /\ call'[w].task = call[w].task
        /\ \A v \in Worker : v # w => call'[v] = call[v]
    BY <1>2, GoesOn DEF PauseStep, PauseSession, Pausing
  <2> QED BY <1>1, <2>1, QuietBalanced DEF Owes, Pausing
<1>3. CASE Moves(w) \/ CompleteStep(w) \/ ResumeSession(w) \/ Continue(w)
  <2>1. /\ call[w].at \in {"claim", "assign", "return"} \cup Resuming
        /\ call'[w].at \in {"idle"} \cup Resuming
        /\ \A v \in Worker : v # w => call'[v] = call[v]
    BY <1>3, GoesOn, Left
    DEF Moves, Refused, RejectOutput, AcceptOutput, CompleteStep, ResumeSession, Continue,
        Resuming, IdleCall
  <2> QED BY <1>1, <2>1, QuietBalanced DEF Owes, Pausing, Resuming
<1> QED BY <1>2, <1>3

LEMMA AskQuiet ==
  ASSUME HumanTasksAssumption, RowsInv, NEW w \in Worker,
         Ask(w) \/ \E s \in Step \cup {NoStep} : RequestCreate(w, s),
         NEW t \in Task, NEW x \in Change
  PROVE  Balanced(w, t, x) /\ \A v \in Worker : v # w => call'[v] = call[v]
<1>1. /\ UNCHANGED <<history, log>>
      /\ call[w].at = "idle" /\ call'[w].at \in {"claim", "assign", "return", "insert"}
      /\ \A v \in Worker : v # w => call'[v] = call[v]
  BY BeginBegins, RequestBegins DEF Begun, RowsInv
<1> QED BY <1>1, QuietBalanced DEF Owes, Pausing, RowsInv

LEMMA AllToldKept ==
  ASSUME HumanTasksAssumption, TasksInv, TypeOK', [Next]_vars
  PROVE  AllTold'
<1> USE DEF TasksInv, RowsInv
<1>1. CASE UNCHANGED vars
  BY <1>1 DEF vars, AllTold, Told, Owing, Owes, Times
<1>2. CASE Restart
  BY <1>2 DEF Restart, AllTold, TypeOK, HumanTasksAssumption
<1>3. ASSUME NEW w \in Worker, restarts' = restarts,
             \A t \in Task, x \in Change :
               Balanced(w, t, x) /\ \A v \in Worker : v # w => call'[v] = call[v]
      PROVE  AllTold'
  <2> SUFFICES ASSUME restarts' = 0, NEW t \in Task, NEW x \in Change
               PROVE  Told(t, x)'
    BY DEF AllTold
  <2>1. Told(t, x)
    BY <1>3 DEF AllTold
  <2> QED BY <1>3, <2>1, BalanceKeeps
<1>4. ASSUME NEW w \in Worker, Ask(w) PROVE AllTold'
  <2>1. restarts' = restarts
    BY <1>4, BeginBegins
  <2> QED BY <1>3, <1>4, <2>1, AskQuiet
<1>5. ASSUME NEW w \in Worker, Serve(w) PROVE AllTold'
  <2>1. CASE Updates(w)
    <3>1. restarts' = restarts
      BY <2>1 DEF Updates, Claim, Assign, Return, Changed
    <3> QED BY <1>3, <2>1, <3>1, UpdateBalanced
  <2>2. CASE AppendEvent(w)
    <3>1. restarts' = restarts
      BY <2>2 DEF AppendEvent
    <3> QED BY <1>3, <2>2, <3>1, EventBalanced
  <2>3. CASE Moves(w) \/ CompleteStep(w) \/ ResumeSession(w) \/ Continue(w)
    <3>1. restarts' = restarts
      BY <2>3
      DEF Moves, Refused, RejectOutput, AcceptOutput, CompleteStep, ResumeSession, Continue
    <3> QED BY <1>3, <2>3, <3>1, ServeQuiet
  <2> QED BY <1>5, <2>1, <2>2, <2>3 DEF Serve, Updates, Moves
<1>6. ASSUME NEW w \in Worker, Create(w) PROVE AllTold'
  <2>1. restarts' = restarts
    BY <1>6 DEF Create, RequestCreate, InsertTask, PauseStep, PauseSession, AppendCreated
  <2>2. CASE \E s \in Step \cup {NoStep} : RequestCreate(w, s)
    BY <1>3, <2>1, <2>2, AskQuiet
  <2>3. ASSUME NEW u \in Task, InsertTask(w, u) PROVE AllTold'
    BY <1>3, <2>1, <2>3, InsertBalanced
  <2>4. CASE PauseStep(w) \/ PauseSession(w)
    BY <1>3, <2>1, <2>4, ServeQuiet
  <2>5. CASE AppendCreated(w)
    BY <1>3, <2>1, <2>5, EventBalanced
  <2> QED BY <1>6, <2>2, <2>3, <2>4, <2>5 DEF Create
<1> QED BY <1>1, <1>2, <1>4, <1>5, <1>6 DEF Next

-----------------------------------------------------------------------------
LEMMA InitAllTold ==
  ASSUME HumanTasksAssumption, Init \/ InitPaused
  PROVE  AllTold
<1> SUFFICES ASSUME NEW t \in Task, NEW x \in Change PROVE Told(t, x)
  BY DEF AllTold
<1>1. history[t] = log[t]
  BY DEF Init, InitPaused
<1>4. history[t] \in Seq(Change)
  BY InitTypes DEF TypeOK
<1>2. Owing(t, x) = {}
  BY DEF Owing, Owes, Init, InitPaused, IdleCall, Pausing
<1>3. Cardinality(Owing(t, x)) = 0
  BY <1>2, FS_EmptySet
<1> QED BY <1>1, <1>3, <1>4, TimesIsNat DEF Told

LEMMA PausedIsNext == NextPaused => Next
BY DEF NextPaused, Next

LEMMA TasksInvStarts ==
  ASSUME HumanTasksAssumption, Init \/ InitPaused PROVE TasksInv
BY InitTypes, InitTold, InitKnows, InitAllTold DEF TasksInv, RowsInv

LEMMA TasksInvKept ==
  ASSUME HumanTasksAssumption, TasksInv, [Next]_vars PROVE TasksInv'
<1>1. TypeOK'
  BY TypesKept DEF TasksInv
<1>2. \A t \in Task : RowTold(t)'
  BY RowsTold DEF TasksInv
<1>3. \A w \in Worker : CallKnows(w)'
  BY CallsKnow DEF TasksInv
<1> QED BY <1>1, <1>2, <1>3, AllToldKept DEF TasksInv, RowsInv

LEMMA FewOfOne ==
  ASSUME NEW S, \A i, j \in S : i = j
  PROVE  Cardinality(S) <= 1
<1>1. CASE S = {}
  BY <1>1, FS_EmptySet
<1>2. CASE S # {}
  <2>1. PICK i \in S : TRUE
    BY <1>2
  <2>2. S = {i}
    BY <2>1
  <2>3. Cardinality(S) = 1
    BY <2>2, FS_Singleton
  <2> QED BY <2>3
<1> QED BY <1>1, <1>2

LEMMA TasksInvTells == ASSUME HumanTasksAssumption, TasksInv PROVE WinnersTold
<1>1. OneWinner
  <2> SUFFICES ASSUME NEW t \in Task
               PROVE  /\ Cardinality(Kinds(history[t], "claimed")) <= 1
                      /\ Kinds(history[t], "returned") \subseteq {Len(history[t])}
    BY DEF OneWinner
  <2>1. RowTold(t)
    BY DEF TasksInv, RowsInv
  <2> QED BY <2>1, FewOfOne DEF RowTold
<1>2. HistoryComplete
  <2> SUFFICES ASSUME NEW t \in Task, restarts = 0, ~Busy(t), NEW x \in Change
               PROVE  Times(log[t], x) = Times(history[t], x)
    BY DEF HistoryComplete
  <2>1. Owing(t, x) = {}
    BY DEF Busy, Owing, Owes, Pausing
  <2>2. Cardinality(Owing(t, x)) = 0
    BY <2>1, FS_EmptySet
  <2>3. Told(t, x)
    BY DEF TasksInv, AllTold
  <2>4. Times(log[t], x) \in Nat
    BY TimesIsNat DEF TasksInv, RowsInv, TypeOK
  <2> QED BY <2>2, <2>3, <2>4 DEF Told
<1> QED BY <1>1, <1>2 DEF WinnersTold

\* /v1/human/tasks: whoever asks for a task at once, one operator gets it, one returns
\* it, and unless the process was restarted the ledger tells of every change, each once;
\* as tasks are being created and as operators work on those of a paused session.
THEOREM WinnersKept ==
  ASSUME HumanTasksAssumption
  PROVE  (Spec => []WinnersTold) /\ (PausedSpec => []WinnersTold)
<1>1. Init \/ InitPaused => TasksInv
  BY TasksInvStarts
<1>2. TasksInv /\ [Next]_vars => TasksInv'
  BY TasksInvKept
<1>3. TasksInv => WinnersTold
  BY TasksInvTells
<1>4. [NextPaused]_vars => [Next]_vars
  BY PausedIsNext
<1> QED BY <1>1, <1>2, <1>3, <1>4, PTL DEF Spec, PausedSpec

\* Rows and calls keep their types.
THEOREM TasksTypeCorrect ==
  ASSUME HumanTasksAssumption PROVE (Spec => []TypeOK) /\ (PausedSpec => []TypeOK)
<1>1. Init \/ InitPaused => TasksInv
  BY TasksInvStarts
<1>2. TasksInv /\ [Next]_vars => TasksInv'
  BY TasksInvKept
<1>3. TasksInv => TypeOK
  BY DEF TasksInv, RowsInv
<1>4. [NextPaused]_vars => [Next]_vars
  BY PausedIsNext
<1> QED BY <1>1, <1>2, <1>3, <1>4, PTL DEF Spec, PausedSpec

-----------------------------------------------------------------------------
(* Steps that wait *)

LEMMA NextReturnedBefore ==
  ASSUME HumanTasksAssumption, TasksInv, [Next]_vars PROVE ReturnedBefore
<1> SUFFICES ASSUME NEW s \in Step, step[s] = "waiting_human", step'[s] # "waiting_human"
             PROVE  \E t \in Task : linked[t] = s /\ task[t].status = "returned"
  BY DEF ReturnedBefore
<1>1. step' # step
  OBVIOUS
<1>2. PICK w \in Worker : CompleteStep(w) \/ PauseStep(w)
  <2>1. Next
    BY <1>1 DEF vars
  <2>2. ~Restart
    BY <1>1 DEF Restart
  <2>3. PICK w \in Worker : Ask(w) \/ Serve(w) \/ Create(w)
    BY <2>1, <2>2 DEF Next
  <2> QED
    BY <1>1, <2>3
    DEF Ask, Begin, Serve, Claim, Assign, Return, Changed, Refused, AppendEvent, RejectOutput,
        AcceptOutput, ResumeSession, Continue, Create, RequestCreate, InsertTask, PauseSession,
        AppendCreated
<1>3. CompleteStep(w)
  BY <1>2 DEF PauseStep, TasksInv, RowsInv, TypeOK
<1>4. linked[call[w].task] = s
  BY <1>3 DEF CompleteStep, TasksInv, RowsInv, TypeOK
<1>5. call[w].task \in Task /\ task[call[w].task].status = "returned"
  BY <1>3 DEF CompleteStep, TasksInv, RowsInv, TypeOK, Call, CallKnows, Resuming
<1> QED BY <1>4, <1>5

\* A step that waits for a human goes on only when a task of its own was returned.
THEOREM WaitsForReturn ==
  ASSUME HumanTasksAssumption
  PROVE  (Spec => [][ReturnedBefore]_vars) /\ (PausedSpec => [][ReturnedBefore]_vars)
<1>1. Init \/ InitPaused => TasksInv
  BY TasksInvStarts
<1>2. TasksInv /\ [Next]_vars => TasksInv'
  BY TasksInvKept
<1>3. TasksInv /\ [Next]_vars => [ReturnedBefore]_vars
  BY NextReturnedBefore
<1>4. [NextPaused]_vars => [Next]_vars
  BY PausedIsNext
<1> QED BY <1>1, <1>2, <1>3, <1>4, PTL DEF Spec, PausedSpec

\* A call that will complete the step its task holds up.
WillResume(w) == ReturnedBy(w) \/ call[w].at \in {"validate", "step"}

\* The task keeps a step waiting, or lets it go on.
Waited(t) == Open(t) \/ \E w \in Worker : call[w].task = t /\ WillResume(w)

\* A waiting step has such a task; a completed session has no waiting step.
WaitsInv ==
  /\ restarts = 0 =>
       \A s \in Step : step[s] = "waiting_human" => \E t \in Task : linked[t] = s /\ Waited(t)
  /\ session = "completed" => \A s \in Step : step[s] = "completed"

\* Steps of other calls, and of this one as long as it will resume.
LEMMA WaitedOn ==
  ASSUME NEW t \in Task, Waited(t), task'[t] = task[t], NEW w \in Worker,
         \A v \in Worker : v # w => call'[v] = call[v],
         call[w].task = t /\ WillResume(w) => call'[w].task = t /\ WillResume(w)'
  PROVE  Waited(t)'
BY DEF Waited, Open, WillResume, ReturnedBy

LEMMA ResumesWaited ==
  ASSUME HumanTasksAssumption, TypeOK, NEW w \in Worker, Updates(w), NEW t \in Task, Waited(t)
  PROVE  Waited(t)'
<1> DEFINE u == call[w].task
           r == task'[u]
<1>1. /\ u \in Task
      /\ ChangeOf(r) \in Change
      /\ task' = [task EXCEPT ![u] = r]
      /\ call' = [call EXCEPT ![w] = WithChange(call[w], ChangeOf(r))]
      /\ \/ task[u].status = "pending" /\ r.status = "claimed" /\ r.assignment = "claimed"
         \/ Open(u) /\ r.status = task[u].status /\ r.assignment = "assigned"
         \/ Open(u) /\ r.status = "returned" /\ r.assignment = "returned"
  BY UpdateWrites
<1>2. /\ \A v \in Worker : v # w => call'[v] = call[v]
      /\ call'[w].at = "event" /\ call'[w].change = ChangeOf(r) /\ call'[w].task = u
  BY <1>1, Updated
<1>3. ChangeOf(r).assignment = r.assignment
  BY DEF ChangeOf
<1>4. ~WillResume(w)
  BY DEF WillResume, ReturnedBy, Updates, Claim, Assign, Return
<1> HIDE DEF u, r
<1>5. CASE u = t
  <2>1. task'[t] = r
    BY <1>1, <1>5 DEF TypeOK, RowsTypeOK
  <2>2. CASE r.assignment = "returned"
    BY <1>2, <1>3, <1>5, <2>2 DEF Waited, WillResume, ReturnedBy
  <2>3. CASE r.status \in {"pending", "claimed"}
    BY <2>1, <2>3 DEF Waited, Open
  <2> QED BY <1>1, <2>2, <2>3 DEF Open
<1>6. CASE u # t
  <2>1. task'[t] = task[t]
    BY <1>1, <1>6 DEF TypeOK, RowsTypeOK
  <2> QED BY <1>2, <1>4, <2>1, WaitedOn
<1> QED BY <1>5, <1>6

LEMMA EventWaited ==
  ASSUME HumanTasksAssumption, TypeOK, NEW w \in Worker, AppendEvent(w),
         NEW t \in Task, Waited(t), linked[t] # NoStep
  PROVE  Waited(t)'
<1>1. \A v \in Worker : v # w => call'[v] = call[v]
  BY GoesOn, Left DEF AppendEvent
<1>2. ASSUME call[w].task = t, WillResume(w) PROVE call'[w].task = t /\ WillResume(w)'
  <2>1. Goto(w, "validate")
    BY <1>2 DEF AppendEvent, WillResume, ReturnedBy, Resumes
  <2> QED BY <1>2, <2>1, GoesOn DEF WillResume
<1>3. task' = task
  BY DEF AppendEvent
<1> QED BY <1>1, <1>2, <1>3, WaitedOn

LEMMA MoveWaited ==
  ASSUME HumanTasksAssumption, ~OutputsFail, TypeOK, NEW w \in Worker,
         Moves(w) \/ ResumeSession(w) \/ Continue(w), NEW t \in Task, Waited(t)
  PROVE  Waited(t)'
<1>1. /\ \A v \in Worker : v # w => call'[v] = call[v]
      /\ task' = task
  BY GoesOn, Left DEF Moves, Refused, RejectOutput, AcceptOutput, ResumeSession, Continue
<1>2. ASSUME call[w].task = t, WillResume(w) PROVE call'[w].task = t /\ WillResume(w)'
  <2>1. Goto(w, "step")
    BY <1>2
    DEF Moves, Refused, RejectOutput, AcceptOutput, ResumeSession, Continue, WillResume, ReturnedBy
  <2> QED BY <1>2, <2>1, GoesOn DEF WillResume
<1> QED BY <1>1, <1>2, WaitedOn

\* A step that is completed waits no more; another's task is as it was.
LEMMA CompleteWaited ==
  ASSUME HumanTasksAssumption, TypeOK, NEW w \in Worker, CallKnows(w), CompleteStep(w),
         NEW s \in Step, step'[s] = "waiting_human", NEW t \in Task, linked[t] = s, Waited(t)
  PROVE  step[s] = "waiting_human" /\ Waited(t)'
<1>1. /\ \A v \in Worker : v # w => call'[v] = call[v]
      /\ task' = task
  BY GoesOn DEF CompleteStep
<1>2. s # linked[call[w].task]
  BY DEF CompleteStep, TypeOK
<1>3. step[s] = "waiting_human"
  BY <1>2 DEF CompleteStep, TypeOK
<1>4. call[w].task # t
  BY <1>2
<1> QED BY <1>1, <1>3, <1>4, WaitedOn

LEMMA BeginWaited ==
  ASSUME HumanTasksAssumption, RowsInv, NEW w \in Worker, Ask(w), NEW t \in Task, Waited(t)
  PROVE  Waited(t)'
<1>1. /\ \A v \in Worker : v # w => call'[v] = call[v]
      /\ call[w].at = "idle"
  BY BeginBegins DEF Begun
<1>2. task' = task
  BY BeginBegins
<1> QED BY <1>1, <1>2, WaitedOn DEF WillResume, ReturnedBy

LEMMA WaitsInvStarts ==
  ASSUME HumanTasksAssumption, InitPaused PROVE WaitsInv
<1>1. \A t \in Task : Waited(t)
  BY DEF Waited, Open, InitPaused, NewRow
<1>2. \A s \in Step : \E t \in Task : linked[t] = s
  BY DEF InitPaused
<1> QED BY <1>1, <1>2 DEF WaitsInv, InitPaused

LEMMA WaitsInvKept ==
  ASSUME HumanTasksAssumption, ~OutputsFail, TasksInv, WaitsInv, [NextPaused]_vars
  PROVE  WaitsInv'
<1> USE DEF TasksInv, RowsInv
<1>1. CASE UNCHANGED vars
  BY <1>1 DEF vars, WaitsInv, Waited, Open, WillResume, ReturnedBy
<1>2. ASSUME UNCHANGED <<linked, step, session, restarts>>,
             \A t \in Task : Waited(t) /\ linked[t] # NoStep => Waited(t)'
      PROVE  WaitsInv'
  BY <1>2 DEF WaitsInv, HumanTasksAssumption
<1>3. CASE Restart
  BY <1>3 DEF Restart, WaitsInv, TypeOK, HumanTasksAssumption
<1>4. ASSUME NEW w \in Worker, Ask(w) PROVE WaitsInv'
  <2>1. UNCHANGED <<linked, step, session, restarts>>
    BY <1>4, BeginBegins
  <2> QED BY <1>2, <1>4, <2>1, BeginWaited
<1>5. ASSUME NEW w \in Worker, Serve(w) PROVE WaitsInv'
  <2>1. CASE Updates(w)
    <3>1. UNCHANGED <<linked, step, session, restarts>>
      BY <2>1 DEF Updates, Claim, Assign, Return, Changed
    <3> QED BY <1>2, <2>1, <3>1, ResumesWaited
  <2>2. CASE AppendEvent(w)
    <3>1. UNCHANGED <<linked, step, session, restarts>>
      BY <2>2 DEF AppendEvent
    <3> QED BY <1>2, <2>2, <3>1, EventWaited
  <2>3. CASE Moves(w)
    <3>1. UNCHANGED <<linked, step, session, restarts>>
      BY <2>3 DEF Moves, Refused, RejectOutput, AcceptOutput
    <3> QED BY <1>2, <2>3, <3>1, MoveWaited
  <2>4. CASE CompleteStep(w)
    <3>1. UNCHANGED <<linked, session, restarts>>
      BY <2>4 DEF CompleteStep
    <3>2. \A s \in Step : step[s] = "completed" => step'[s] = "completed"
      BY <2>4 DEF CompleteStep, TypeOK
    <3>3. ASSUME restarts = 0, NEW s \in Step, step'[s] = "waiting_human"
          PROVE  \E t \in Task : linked[t] = s /\ Waited(t)'
      <4>1. step[s] = "waiting_human"
        BY <2>4, <3>3 DEF CompleteStep, TypeOK
      <4>2. PICK t \in Task : linked[t] = s /\ Waited(t)
        BY <3>3, <4>1 DEF WaitsInv
      <4> QED BY <2>4, <3>3, <4>2, CompleteWaited
    <3> QED BY <3>1, <3>2, <3>3 DEF WaitsInv
  <2>5. CASE ResumeSession(w) \/ Continue(w)
    <3>1. UNCHANGED <<linked, step, restarts>>
      BY <2>5 DEF ResumeSession, Continue
    <3>2. \A t \in Task : Waited(t) => Waited(t)'
      BY <2>5, MoveWaited
    <3>3. session' = "completed" => \A s \in Step : step'[s] = "completed"
      BY <2>5 DEF ResumeSession, Continue, WaitsInv
    <3> QED BY <3>1, <3>2, <3>3 DEF WaitsInv
  <2> QED BY <1>5, <2>1, <2>2, <2>3, <2>4, <2>5 DEF Serve, Updates, Moves
<1> QED BY <1>1, <1>3, <1>4, <1>5 DEF NextPaused

LEMMA WaitsInvWaits ==
  ASSUME WaitsInv, TypeOK
  PROVE  CompletedWaitsForNone /\ (restarts = 0 => WaitsForSomeone)
<1>1. \A t \in Task : Waited(t) => Open(t) \/ Busy(t)
  BY DEF Waited, WillResume, ReturnedBy, Busy
<1> QED BY <1>1 DEF WaitsInv, WaitsForSomeone, CompletedWaitsForNone

\* README.md:404: while operators work on a paused session, no call is cut off and no
\* payload refused, a step that waits for a human has an open task or a call at work on
\* one, and a session that is reported completed has no step that waits.
THEOREM SomebodyIsThere ==
  ASSUME HumanTasksAssumption, ~OutputsFail
  PROVE  PausedSpec => [](CompletedWaitsForNone /\ (restarts = 0 => WaitsForSomeone))
<1>1. InitPaused => TasksInv /\ WaitsInv
  BY TasksInvStarts, WaitsInvStarts
<1>2. TasksInv /\ WaitsInv /\ [NextPaused]_vars => TasksInv' /\ WaitsInv'
  <2>1. [NextPaused]_vars => [Next]_vars
    BY PausedIsNext
  <2> QED BY <2>1, TasksInvKept, WaitsInvKept
<1>3. TasksInv /\ WaitsInv => CompletedWaitsForNone /\ (restarts = 0 => WaitsForSomeone)
  BY WaitsInvWaits DEF TasksInv, RowsInv
<1> QED BY <1>1, <1>2, <1>3, PTL DEF PausedSpec

-----------------------------------------------------------------------------
(* What becomes of a draft (DraftDelivery), for any number of clients, operators and *)
(* follow-ups.                                                                       *)

CONSTANTS Client, MaxBegun, MaxCrashes, ResumesRaise

VARIABLES handoff, client, begun, approval, resolution, followed, mails, told, crashes

Draft == INSTANCE DraftDelivery WITH
  MaxCalls <- MaxBegun, task <- handoff, call <- client, calls <- begun

DraftTypes ==
  /\ Draft!RowsTypeOK
  /\ approval \in {"pending", "approved", "denied", "expired"}
  /\ resolution \in [Task -> Draft!Resolution]
  /\ followed \in BOOLEAN
  /\ client \in [Client -> Draft!Call]
  /\ mails \in Seq(Draft!Mailed)
  /\ told \in Nat /\ crashes \in Nat

\* Which calls get where.
KindsOfPlace ==
  \A c \in Client :
    /\ client[c].at = "decide" => client[c].kind \in {"approve", "reject"}
    /\ client[c].at = "resume" => client[c].kind = "approve"
    /\ client[c].at = "own" => client[c].kind = "retry"
    /\ client[c].at \in {"send", "sent"} => client[c].kind \in {"approve", "retry"}
    /\ client[c].at \in {"look", "create", "opened"} => client[c].kind \in {"approve", "reopen"}

\* Nothing was done about the draft yet but decide on it.
Untouched ==
  /\ mails = <<>>
  /\ ~followed
  /\ \A t \in Task : handoff[t] = Draft!NoRow
  /\ \A c \in Client : client[c].at \in {"idle", "decide"}

\* Who is to mail the draft for its approval.
Approvers == {c \in Client : client[c].at \in {"resume", "send"} /\ client[c].kind = "approve"}

MailedOnce ==
  /\ \A c, d \in Approvers : c = d
  /\ \A i, j \in Draft!Sent("approve") : i = j
  /\ Approvers = {} \/ Draft!Sent("approve") = {}

\* A retry that the provider accepted.
RetryMailed(t) == \E i \in Draft!Sent("retry") : mails[i].task = t /\ mails[i].reply = "sent"

\* A call that will close its follow-up as retried.
Closing(c) ==
  \/ client[c].at = "sent" /\ client[c].kind = "retry" /\ client[c].reply = "sent"
  \/ client[c].at = "return" /\ client[c].resolution = "retry_sent"

RetriesMailed ==
  /\ \A t \in Task : resolution[t] = "retry_sent" => RetryMailed(t)
  /\ \A c \in Client : Closing(c) => RetryMailed(client[c].task)

DraftInv ==
  /\ DraftTypes
  /\ KindsOfPlace
  /\ approval = "approved" \/ Untouched
  /\ MailedOnce
  /\ RetriesMailed

-----------------------------------------------------------------------------
LEMMA IdleDraft ==
  ASSUME Draft!DraftBounds
  PROVE  Draft!IdleCall \in Draft!Call /\ Draft!AnyTask \in Task
BY DEF Draft!DraftBounds, Draft!IdleCall, Draft!Call, Draft!AnyTask, Draft!Reply, Draft!Resolution

LEMMA DraftInvStarts == ASSUME Draft!DraftBounds, Draft!Init PROVE DraftInv
<1>1. DraftTypes
  <2>1. Draft!RowsTypeOK
    BY DEF Draft!Init, Draft!RowsTypeOK, Draft!TaskRow, Draft!NoRow
  <2>2. client \in [Client -> Draft!Call]
    BY IdleDraft DEF Draft!Init
  <2>3. mails \in Seq(Draft!Mailed)
    BY DEF Draft!Init
  <2> QED BY <2>1, <2>2, <2>3 DEF Draft!Init, DraftTypes, Draft!Resolution
<1>2. KindsOfPlace /\ Untouched
  BY DEF Draft!Init, KindsOfPlace, Untouched, Draft!IdleCall
<1>3. Draft!Sent("approve") = {} /\ Approvers = {}
  BY DEF Draft!Init, Draft!Sent, Approvers, Draft!IdleCall
<1>4. MailedOnce
  BY <1>3 DEF MailedOnce
<1>5. RetriesMailed
  BY DEF Draft!Init, RetriesMailed, Closing, Draft!IdleCall
<1> QED BY <1>1, <1>2, <1>4, <1>5 DEF DraftInv

LEMMA ClientPut ==
  ASSUME client \in [Client -> Draft!Call], NEW c \in Client, NEW new \in Draft!Call,
         client' = [client EXCEPT ![c] = new]
  PROVE  /\ client' \in [Client -> Draft!Call]
         /\ \A d \in Client \ {c} : client'[d] = client[d]
OBVIOUS

LEMMA GoneOrLeft ==
  ASSUME client \in [Client -> Draft!Call], NEW c \in Client
  PROVE  /\ Draft!Leave(c) => client'[c] = Draft!IdleCall /\ client'[c].at = "idle"
         /\ \A place : Draft!Goto(c, place) =>
              /\ client'[c].at = place /\ client'[c].kind = client[c].kind
              /\ client'[c].task = client[c].task /\ client'[c].reply = client[c].reply
              /\ client'[c].resolution = client[c].resolution
BY DEF Draft!Leave, Draft!Goto, Draft!IdleCall, Draft!Call

LEMMA RetryGoes ==
  ASSUME client \in [Client -> Draft!Call], NEW c \in Client, Draft!RecordRetry(c)
  PROVE  /\ UNCHANGED <<handoff, approval, resolution, followed, mails, crashes>>
         /\ client[c].at = "sent" /\ client[c].kind = "retry"
         /\ \/ /\ client[c].reply = "sent" /\ client'[c].at = "return"
               /\ client'[c].task = client[c].task
            \/ client[c].reply # "sent" /\ Draft!Leave(c)
<1>1. client[c].reply = "sent" => client'[c].at = "return" /\ client'[c].task = client[c].task
  BY DEF Draft!RecordRetry, Draft!Call
<1>2. client[c].reply # "sent" => Draft!Leave(c)
  BY DEF Draft!RecordRetry
<1> QED BY <1>1, <1>2 DEF Draft!RecordRetry

\* Where a new call starts.
LEMMA AskGoes ==
  ASSUME client \in [Client -> Draft!Call], NEW c \in Client, Draft!Ask(c)
  PROVE  /\ UNCHANGED <<handoff, approval, resolution, followed, mails, told, crashes>>
         /\ client[c].at = "idle"
         /\ client'[c].at \in {"decide", "send", "own", "return", "look"}
         /\ client'[c].at = "send" => client'[c].kind = "retry"
         /\ client'[c].at = "return" => client'[c].resolution # "retry_sent"
<1> USE DEF Draft!Begin, Draft!IdleCall
<1>0. UNCHANGED <<handoff, approval, resolution, followed, mails, told, crashes>> /\ client[c].at = "idle"
  BY DEF Draft!Ask, Draft!BeginDecision, Draft!BeginRetry, Draft!BeginComplete, Draft!BeginReopen
<1>1. ASSUME NEW kind \in {"approve", "reject"}, Draft!BeginDecision(c, kind)
      PROVE  client'[c].at = "decide"
  BY <1>1 DEF Draft!BeginDecision
<1>2. ASSUME NEW t \in Task, NEW o \in Operator, Draft!BeginRetry(c, t, o)
      PROVE  client'[c].at \in {"send", "own"} /\ client'[c].kind = "retry"
  BY <1>2 DEF Draft!BeginRetry
<1>3. ASSUME NEW t \in Task, NEW o \in Operator, NEW r \in Draft!ByHand, Draft!BeginComplete(c, t, o, r)
      PROVE  client'[c].at = "return" /\ client'[c].resolution # "retry_sent"
  BY <1>3 DEF Draft!BeginComplete, Draft!ByHand
<1>4. ASSUME NEW o \in Operator, Draft!BeginReopen(c, o)
      PROVE  client'[c].at = "look"
  BY <1>4 DEF Draft!BeginReopen
<1> QED BY <1>0, <1>1, <1>2, <1>3, <1>4 DEF Draft!Ask

\* What a step does to the one call it is about.
LEMMA CallTypes ==
  ASSUME Draft!DraftBounds, DraftTypes, KindsOfPlace, NEW c \in Client,
         Draft!Ask(c) \/ Draft!Serve(c)
  PROVE  /\ client' \in [Client -> Draft!Call]
         /\ \A d \in Client \ {c} : client'[d] = client[d]
<1> USE DEF Draft!Call, Draft!Reply, Draft!Resolution, Draft!Goto, Draft!Leave, Draft!Begin
<1>0. Draft!IdleCall \in Draft!Call /\ client \in [Client -> Draft!Call]
  BY IdleDraft DEF DraftTypes
<1>1. ASSUME NEW kind \in {"approve", "reject"}, Draft!BeginDecision(c, kind)
      PROVE  client' \in [Client -> Draft!Call] /\ \A d \in Client \ {c} : client'[d] = client[d]
  BY <1>0, <1>1 DEF Draft!BeginDecision, Draft!IdleCall
<1>2. ASSUME NEW t \in Task, NEW o \in Operator, Draft!BeginRetry(c, t, o)
      PROVE  client' \in [Client -> Draft!Call] /\ \A d \in Client \ {c} : client'[d] = client[d]
  BY <1>0, <1>2 DEF Draft!BeginRetry, Draft!IdleCall
<1>3. ASSUME NEW t \in Task, NEW o \in Operator, NEW r \in Draft!ByHand, Draft!BeginComplete(c, t, o, r)
      PROVE  client' \in [Client -> Draft!Call] /\ \A d \in Client \ {c} : client'[d] = client[d]
  BY <1>0, <1>3 DEF Draft!BeginComplete, Draft!IdleCall, Draft!ByHand
<1>4. ASSUME NEW o \in Operator, Draft!BeginReopen(c, o)
      PROVE  client' \in [Client -> Draft!Call] /\ \A d \in Client \ {c} : client'[d] = client[d]
  BY <1>0, <1>4, IdleDraft DEF Draft!BeginReopen, Draft!IdleCall
<1>5. CASE Draft!Serve(c)
  <2>1. CASE Draft!Decide(c) \/ Draft!Resume(c) \/ Draft!ResumeRaises(c)
    BY <1>0, <2>1 DEF Draft!Decide, Draft!Resume, Draft!ResumeRaises
  <2>2. ASSUME NEW reply \in Draft!Reply, Draft!Send(c, reply)
        PROVE  client' \in [Client -> Draft!Call] /\ \A d \in Client \ {c} : client'[d] = client[d]
    <3>1. client' = [client EXCEPT ![c] = [client[c] EXCEPT !.at = "sent",
                       !.reply = IF reply = "lost" THEN "failed" ELSE reply]]
      BY <2>2 DEF Draft!Send
    <3> DEFINE r == IF reply = "lost" THEN "failed" ELSE reply
               new == [client[c] EXCEPT !.at = "sent", !.reply = r]
    <3>2. r \in Draft!Reply
      OBVIOUS
    <3>3. new \in Draft!Call
      <4> HIDE DEF r
      <4> QED BY <1>0, <3>2
    <3> QED BY <1>0, <3>1, <3>3, ClientPut
  <2>3. CASE Draft!RecordSend(c) \/ Draft!RecordFollowup(c)
    BY <1>0, <2>3 DEF Draft!RecordSend, Draft!RecordFollowup, Draft!Found
  <2>4. ASSUME NEW t \in Task, Draft!Found(c, t) \/ Draft!CreateFollowup(c, t)
        PROVE  client' \in [Client -> Draft!Call] /\ \A d \in Client \ {c} : client'[d] = client[d]
    <3>1. CASE Draft!CreateFollowup(c, t)
      BY <1>0, <3>1 DEF Draft!CreateFollowup
    <3>2. CASE Draft!Found(c, t)
      <4>1. client' = [client EXCEPT ![c] = [client[c] EXCEPT !.task = t,
                         !.at = IF client[c].kind = "reopen" THEN "owned" ELSE "idle"]]
        BY <3>2 DEF Draft!Found
      <4> DEFINE a == IF client[c].kind = "reopen" THEN "owned" ELSE "idle"
                 new == [client[c] EXCEPT !.task = t, !.at = a]
      <4>2. a \in {"owned", "idle"}
        OBVIOUS
      <4>3. new \in Draft!Call
        <5> HIDE DEF a
        <5> QED BY <1>0, <4>2
      <4> QED BY <1>0, <4>1, <4>3, ClientPut
    <3> QED BY <2>4, <3>1, <3>2
  <2>7. CASE Draft!Look(c)
    BY <1>0, <2>4, <2>7 DEF Draft!Look
  <2>5. CASE Draft!Own(c) \/ Draft!RecordRetry(c) \/ Draft!Return(c) \/ Draft!RecordResolution(c)
    BY <1>0, <2>5 DEF Draft!Own, Draft!RecordRetry, Draft!Return, Draft!RecordResolution
  <2>6. CASE Draft!Owned(c) \/ Draft!Take(c)
    BY <1>0, <2>6 DEF Draft!Owned, Draft!Take
  <2> QED BY <1>5, <2>1, <2>2, <2>3, <2>4, <2>5, <2>6, <2>7 DEF Draft!Serve
<1> QED BY <1>1, <1>2, <1>3, <1>4, <1>5 DEF Draft!Ask

\* Where a call goes from where it is: the places decide.
LEMMA CallGoes ==
  ASSUME Draft!DraftBounds, DraftTypes, KindsOfPlace, NEW c \in Client,
         Draft!Ask(c) \/ Draft!Serve(c)
  PROVE  /\ client'[c].at = "decide" => client'[c].kind \in {"approve", "reject"}
         /\ client'[c].at = "resume" => client'[c].kind = "approve"
         /\ client'[c].at = "own" => client'[c].kind = "retry"
         /\ client'[c].at \in {"send", "sent"} => client'[c].kind \in {"approve", "retry"}
         /\ client'[c].at \in {"look", "create", "opened"} => client'[c].kind \in {"approve", "reopen"}
<1> USE DEF Draft!Call, Draft!Goto, Draft!Leave, Draft!Begin, Draft!IdleCall
<1>0. client \in [Client -> Draft!Call]
  BY DEF DraftTypes
<1> USE <1>0 DEF KindsOfPlace
<1>1. ASSUME NEW kind \in {"approve", "reject"}, Draft!BeginDecision(c, kind)
      PROVE  client'[c].at = "decide" /\ client'[c].kind = kind
  BY <1>1 DEF Draft!BeginDecision
<1>2. ASSUME NEW t \in Task, NEW o \in Operator, Draft!BeginRetry(c, t, o)
      PROVE  client'[c].at \in {"send", "own"} /\ client'[c].kind = "retry"
  BY <1>2 DEF Draft!BeginRetry
<1>3. ASSUME NEW t \in Task, NEW o \in Operator, NEW r \in Draft!ByHand, Draft!BeginComplete(c, t, o, r)
      PROVE  client'[c].at = "return"
  BY <1>3 DEF Draft!BeginComplete
<1>4. ASSUME NEW o \in Operator, Draft!BeginReopen(c, o)
      PROVE  client'[c].at = "look" /\ client'[c].kind = "reopen"
  BY <1>4 DEF Draft!BeginReopen
<1>5. CASE Draft!Serve(c)
  <2>1. CASE Draft!Decide(c) \/ Draft!Resume(c) \/ Draft!ResumeRaises(c)
    BY <2>1 DEF Draft!Decide, Draft!Resume, Draft!ResumeRaises
  <2>2. ASSUME NEW reply \in Draft!Reply, Draft!Send(c, reply)
        PROVE  client'[c].at = "sent" /\ client'[c].kind = client[c].kind /\ client[c].at = "send"
    BY <2>2 DEF Draft!Send
  <2>3. CASE Draft!RecordSend(c)
    BY <2>3 DEF Draft!RecordSend
  <2>4. CASE Draft!RecordFollowup(c)
    BY <2>4 DEF Draft!RecordFollowup, Draft!Found
  <2>5. CASE Draft!Look(c)
    <3>1. ASSUME NEW t \in Task, Draft!Found(c, t) PROVE client'[c].at \in {"owned", "idle"}
      BY <3>1 DEF Draft!Found
    <3>2. CASE Draft!Goto(c, "create")
      BY <2>5, <3>2 DEF Draft!Look
    <3> QED BY <2>5, <3>1, <3>2 DEF Draft!Look
  <2>6. ASSUME NEW t \in Task, Draft!CreateFollowup(c, t)
        PROVE  client'[c].at = "opened" /\ client'[c].kind = client[c].kind /\ client[c].at = "create"
    BY <2>6 DEF Draft!CreateFollowup
  <2>7. CASE Draft!Own(c)
    <3>1. client[c].at = "own" /\ (client'[c].at = "send" => client'[c].kind = client[c].kind)
          /\ client'[c].at \in {"send", "idle"}
      BY <2>7 DEF Draft!Own
    <3> QED BY <3>1
  <2>8. CASE Draft!RecordRetry(c) \/ Draft!Return(c) \/ Draft!RecordResolution(c)
    BY <2>8 DEF Draft!RecordRetry, Draft!Return, Draft!RecordResolution
  <2>9. CASE Draft!Owned(c) \/ Draft!Take(c)
    BY <2>9 DEF Draft!Owned, Draft!Take
  <2> QED BY <1>5, <2>1, <2>2, <2>3, <2>4, <2>5, <2>6, <2>7, <2>8, <2>9 DEF Draft!Serve
<1> QED BY <1>1, <1>2, <1>3, <1>4, <1>5 DEF Draft!Ask

LEMMA KindsKept ==
  ASSUME Draft!DraftBounds, DraftTypes, KindsOfPlace, [Draft!Next]_Draft!vars
  PROVE  KindsOfPlace' /\ client' \in [Client -> Draft!Call]
<1>1. CASE UNCHANGED client
  BY <1>1 DEF KindsOfPlace, DraftTypes
<1>2. ASSUME NEW c \in Client, Draft!Ask(c) \/ Draft!Serve(c)
      PROVE  KindsOfPlace' /\ client' \in [Client -> Draft!Call]
  BY <1>2, CallGoes, CallTypes DEF KindsOfPlace
<1>3. CASE Draft!Crash
  <2>1. client' = [c \in Client |-> Draft!IdleCall]
    BY <1>3 DEF Draft!Crash
  <2>2. client' \in [Client -> Draft!Call]
    BY <2>1, IdleDraft
  <2> QED BY <2>1, <2>2 DEF KindsOfPlace, Draft!IdleCall
<1>4. Draft!Expire \/ (\E t \in Task, o \in Operator : Draft!Claim(t, o)) => UNCHANGED client
  BY DEF Draft!Expire, Draft!Claim
<1> QED BY <1>1, <1>2, <1>3, <1>4 DEF Draft!Next, Draft!NextProduct, Draft!vars

\* The mail that is sent.
LEMMA MailIsMailed ==
  ASSUME DraftTypes, KindsOfPlace, NEW c \in Client, client[c].at = "send", NEW reply \in Draft!Reply
  PROVE  Draft!Mail(c, reply) \in Draft!Mailed
<1>1. client[c] \in Draft!Call /\ client[c].kind \in {"approve", "retry"}
  BY DEF DraftTypes, KindsOfPlace
<1>2. client[c].task \in Task /\ client[c].operator \in Operator \cup {Nobody}
  BY <1>1 DEF Draft!Call
<1>3. handoff[client[c].task] \in Draft!TaskRow
  BY <1>2 DEF DraftTypes, Draft!RowsTypeOK
<1>4. handoff[client[c].task].operator \in Operator \cup {Nobody}
  BY <1>3 DEF Draft!TaskRow
<1>5. Draft!Open(client[c].task) \in BOOLEAN
  BY DEF Draft!Open
<1> QED BY <1>1, <1>2, <1>4, <1>5 DEF Draft!Mail, Draft!Mailed

LEMMA AssignTypes ==
  ASSUME Draft!RowsTypeOK, NEW t \in Task, NEW o \in Operator \cup {Nobody}, Draft!AssignRow(t, o)
  PROVE  Draft!RowsTypeOK'
<1> DEFINE new == [handoff[t] EXCEPT !.assignment = "assigned", !.operator = o]
<1>1. handoff[t] \in Draft!TaskRow
  BY DEF Draft!RowsTypeOK
<1>2. new \in Draft!TaskRow
  BY <1>1 DEF Draft!TaskRow
<1>3. handoff' = [handoff EXCEPT ![t] = new]
  BY DEF Draft!AssignRow
<1> HIDE DEF new
<1> QED BY <1>2, <1>3 DEF Draft!RowsTypeOK

\* What is not about calls keeps its types too.
LEMMA DraftTypesKept ==
  ASSUME Draft!DraftBounds, DraftTypes, KindsOfPlace, [Draft!Next]_Draft!vars
  PROVE  DraftTypes'
<1>0. client' \in [Client -> Draft!Call]
  BY KindsKept
<1>1. CASE UNCHANGED Draft!vars
  BY <1>1 DEF Draft!vars, DraftTypes, Draft!RowsTypeOK
<1>2. CASE Draft!Expire \/ Draft!Crash
  BY <1>0, <1>2 DEF Draft!Expire, Draft!Crash, DraftTypes, Draft!RowsTypeOK
<1>3. ASSUME NEW t \in Task, NEW o \in Operator, Draft!Claim(t, o) PROVE DraftTypes'
  <2>1. Draft!RowsTypeOK'
    BY <1>3 DEF Draft!Claim, Draft!ClaimRow, DraftTypes, Draft!RowsTypeOK, Draft!TaskRow
  <2> QED BY <1>0, <1>3, <2>1 DEF Draft!Claim, DraftTypes
<1>4. ASSUME NEW c \in Client, Draft!Ask(c) PROVE DraftTypes'
  <2>1. UNCHANGED <<handoff, approval, resolution, followed, mails, told, crashes>>
    BY <1>4 DEF Draft!Ask, Draft!BeginDecision, Draft!BeginRetry, Draft!BeginComplete, Draft!BeginReopen
  <2> QED BY <1>0, <2>1 DEF DraftTypes, Draft!RowsTypeOK
<1>5. ASSUME NEW c \in Client, Draft!Serve(c) PROVE DraftTypes'
  <2>0. client[c] \in Draft!Call
    BY DEF DraftTypes
  <2>1. CASE Draft!Decide(c) \/ Draft!Resume(c) \/ Draft!ResumeRaises(c)
    BY <1>0, <2>1 DEF Draft!Decide, Draft!Resume, Draft!ResumeRaises, DraftTypes, Draft!RowsTypeOK
  <2>2. ASSUME NEW reply \in Draft!Reply, Draft!Send(c, reply) PROVE DraftTypes'
    <3>1. mails' \in Seq(Draft!Mailed)
      BY <2>2, MailIsMailed, AppendProperties DEF Draft!Send, DraftTypes
    <3> QED BY <1>0, <2>2, <3>1 DEF Draft!Send, DraftTypes, Draft!RowsTypeOK
  <2>3. CASE Draft!RecordSend(c) \/ Draft!RecordRetry(c)
    BY <1>0, <2>3 DEF Draft!RecordSend, Draft!RecordRetry, DraftTypes, Draft!RowsTypeOK
  <2>4. CASE Draft!Look(c) \/ Draft!RecordFollowup(c) \/ Draft!RecordResolution(c) \/ Draft!Owned(c)
    BY <1>0, <2>4 DEF Draft!Look, Draft!RecordFollowup, Draft!RecordResolution, Draft!Owned, DraftTypes,
                      Draft!RowsTypeOK
  <2>5. ASSUME NEW t \in Task, Draft!CreateFollowup(c, t) PROVE DraftTypes'
    <3>1. Draft!RowsTypeOK'
      BY <2>5 DEF Draft!CreateFollowup, Draft!Insert, Draft!NewRow, DraftTypes, Draft!RowsTypeOK, Draft!TaskRow
    <3> QED BY <1>0, <2>5, <3>1 DEF Draft!CreateFollowup, DraftTypes
  <2>6. CASE Draft!Own(c) \/ Draft!Take(c)
    <3>1. Draft!RowsTypeOK'
      <4>1. CASE UNCHANGED handoff
        BY <4>1 DEF DraftTypes, Draft!RowsTypeOK
      <4>2. CASE Draft!AssignRow(client[c].task, client[c].operator)
        BY <2>0, <4>2, AssignTypes DEF Draft!Call, DraftTypes
      <4> QED BY <2>6, <4>1, <4>2 DEF Draft!Own, Draft!Take
    <3> QED BY <1>0, <2>6, <3>1 DEF Draft!Own, Draft!Take, DraftTypes
  <2>7. CASE Draft!Return(c)
    <3>1. Draft!RowsTypeOK'
      BY <2>0, <2>7 DEF Draft!Return, Draft!ReturnRow, DraftTypes, Draft!RowsTypeOK,
                        Draft!TaskRow, Draft!Call
    <3>2. resolution' \in [Task -> Draft!Resolution]
      BY <2>0, <2>7 DEF Draft!Return, DraftTypes, Draft!Call
    <3> QED BY <1>0, <2>7, <3>1, <3>2 DEF Draft!Return, DraftTypes
  <2> QED BY <1>5, <2>1, <2>2, <2>3, <2>4, <2>5, <2>6, <2>7 DEF Draft!Serve
<1> QED BY <1>1, <1>2, <1>3, <1>4, <1>5 DEF Draft!Next, Draft!NextProduct

-----------------------------------------------------------------------------
\* Until the draft is approved nothing else is done about it.
LEMMA ApprovedFirst ==
  ASSUME DraftTypes, KindsOfPlace, approval = "approved" \/ Untouched, [Draft!Next]_Draft!vars
  PROVE  approval' = "approved" \/ Untouched'
<1>1. CASE UNCHANGED Draft!vars
  BY <1>1 DEF Draft!vars, Untouched
<1>2. CASE Draft!Expire
  BY <1>2 DEF Draft!Expire, Untouched
<1>3. CASE Draft!Crash
  BY <1>3 DEF Draft!Crash, Untouched, Draft!IdleCall
<1>4. ASSUME NEW t \in Task, NEW o \in Operator, Draft!Claim(t, o)
      PROVE  approval' = "approved" \/ Untouched'
  BY <1>4 DEF Draft!Claim, Draft!ClaimRow, Draft!Claimable, Untouched, Draft!NoRow
<1>5. ASSUME NEW c \in Client, Draft!Ask(c) PROVE approval' = "approved" \/ Untouched'
  <2>1. UNCHANGED <<handoff, approval, followed, mails>>
    BY <1>5 DEF Draft!Ask, Draft!BeginDecision, Draft!BeginRetry, Draft!BeginComplete, Draft!BeginReopen
  <2>2. SUFFICES ASSUME Untouched PROVE Untouched'
    BY <2>1
  <2>3. PICK kind \in {"approve", "reject"} : Draft!BeginDecision(c, kind)
    BY <1>5, <2>2 DEF Draft!Ask, Draft!BeginRetry, Draft!BeginComplete, Draft!BeginReopen, Draft!MayRetry,
                      Untouched
  <2>4. client' = [client EXCEPT ![c] = [Draft!IdleCall EXCEPT !.at = "decide", !.kind = kind]]
    BY <2>3 DEF Draft!BeginDecision, Draft!Begin
  <2> QED BY <2>1, <2>2, <2>4 DEF Untouched, DraftTypes, Draft!IdleCall
<1>6. ASSUME NEW c \in Client, Draft!Serve(c) PROVE approval' = "approved" \/ Untouched'
  <2>1. CASE Draft!Decide(c)
    <3>1. CASE approval = "approved"
      BY <2>1, <3>1 DEF Draft!Decide
    <3>2. CASE approval # "approved" /\ approval' # "approved"
      <4>1. client' = [client EXCEPT ![c] = Draft!IdleCall]
        BY <2>1, <3>2 DEF Draft!Decide, Draft!Leave
      <4> QED BY <2>1, <3>2, <4>1 DEF Draft!Decide, Untouched, DraftTypes, Draft!IdleCall
    <3> QED BY <3>1, <3>2
  <2>2. CASE ~Draft!Decide(c)
    <3>1. UNCHANGED approval
      BY <1>6, <2>2 DEF Draft!Serve, Draft!Resume, Draft!ResumeRaises, Draft!Send, Draft!RecordSend,
         Draft!Look, Draft!RecordFollowup, Draft!CreateFollowup, Draft!Own, Draft!RecordRetry,
         Draft!Return, Draft!RecordResolution, Draft!Owned, Draft!Take
    <3>2. client[c].at \notin {"idle", "decide"}
      BY <1>6, <2>2 DEF Draft!Serve, Draft!Resume, Draft!ResumeRaises, Draft!Send, Draft!RecordSend,
         Draft!Look, Draft!RecordFollowup, Draft!CreateFollowup, Draft!Own, Draft!RecordRetry,
         Draft!Return, Draft!RecordResolution, Draft!Owned, Draft!Take
    <3> QED BY <3>1, <3>2 DEF Untouched
  <2> QED BY <2>1, <2>2
<1> QED BY <1>1, <1>2, <1>3, <1>4, <1>5, <1>6 DEF Draft!Next, Draft!NextProduct

LEMMA SentAfter ==
  ASSUME mails \in Seq(Draft!Mailed), NEW m \in Draft!Mailed, mails' = Append(mails, m)
  PROVE  /\ DOMAIN mails' = DOMAIN mails \cup {Len(mails) + 1} /\ Len(mails) + 1 \notin DOMAIN mails
         /\ \A i \in DOMAIN mails : mails'[i] = mails[i]
         /\ mails'[Len(mails) + 1] = m
BY AppendProperties

\* Everything but a decision and a mail leaves those alone who are to mail the draft.
LEMMA OthersMail ==
  ASSUME Draft!DraftBounds, DraftTypes, KindsOfPlace, [Draft!Next]_Draft!vars
  PROVE  \/ UNCHANGED mails /\ Approvers' \subseteq Approvers
         \/ \E c \in Client : Draft!Decide(c) /\ approval = "pending" /\ approval' = "approved"
                              /\ UNCHANGED mails /\ Approvers' \subseteq Approvers \cup {c}
         \/ \E c \in Client, reply \in Draft!Reply : Draft!Send(c, reply)
<1>0. Approvers' = {c \in Client : client'[c].at \in {"resume", "send"} /\ client'[c].kind = "approve"}
  BY DEF Approvers
<1>a. client \in [Client -> Draft!Call]
  BY DEF DraftTypes
<1>1. CASE UNCHANGED Draft!vars
  BY <1>0, <1>1 DEF Draft!vars, Approvers
<1>2. CASE Draft!Expire \/ \E t \in Task, o \in Operator : Draft!Claim(t, o)
  BY <1>0, <1>2 DEF Draft!Expire, Draft!Claim, Approvers
<1>3. CASE Draft!Crash
  BY <1>0, <1>3 DEF Draft!Crash, Draft!IdleCall
<1>4. ASSUME NEW c \in Client, Draft!Ask(c) PROVE UNCHANGED mails /\ Approvers' \subseteq Approvers
  <2>1. \A d \in Client \ {c} : client'[d] = client[d]
    BY <1>4, CallTypes
  <2> QED BY <1>0, <1>a, <1>4, <2>1, AskGoes DEF Approvers
<1>5. ASSUME NEW c \in Client, Draft!Decide(c)
      PROVE  /\ UNCHANGED mails /\ Approvers' \subseteq Approvers \cup {c}
             /\ (approval = "pending" /\ approval' = "approved") \/ Approvers' \subseteq Approvers
  <2>1. \A d \in Client \ {c} : client'[d] = client[d]
    BY <1>a, <1>5 DEF Draft!Decide, Draft!Leave, Draft!Goto
  <2>2. (approval = "pending" /\ approval' = "approved") \/ client'[c].at = "idle"
    BY <1>a, <1>5 DEF Draft!Decide, Draft!Leave, Draft!Goto, Draft!IdleCall
  <2> QED BY <1>0, <1>5, <2>1, <2>2 DEF Draft!Decide, Approvers
<1>6. ASSUME NEW c \in Client, Draft!Serve(c), ~Draft!Decide(c),
             ~\E reply \in Draft!Reply : Draft!Send(c, reply)
      PROVE  UNCHANGED mails /\ Approvers' \subseteq Approvers
  <2>0. \A d \in Client \ {c} : client'[d] = client[d]
    BY <1>6, CallTypes
  <2>1. CASE Draft!Resume(c)
    BY <1>0, <1>a, <2>0, <2>1 DEF Draft!Resume, Draft!Goto, KindsOfPlace, Approvers
  <2>2. CASE ~Draft!Resume(c)
    <3> SUFFICES UNCHANGED mails /\ (client'[c].at \notin {"resume", "send"} \/ client'[c].kind # "approve")
      BY <1>0, <2>0 DEF Approvers
    <3>1. CASE Draft!ResumeRaises(c)
      BY <1>a, <3>1, GoneOrLeft DEF Draft!ResumeRaises
    <3>a. CASE Draft!RecordSend(c)
      BY <1>a, <3>a, GoneOrLeft DEF Draft!RecordSend
    <3>b. CASE Draft!RecordRetry(c)
      <4>1. UNCHANGED mails /\ (Draft!Leave(c) \/ client'[c].at = "return")
        BY <1>a, <3>b, RetryGoes
      <4> QED BY <1>a, <4>1, GoneOrLeft
    <3>2. CASE Draft!Look(c)
      <4>1. ASSUME NEW t \in Task, Draft!Found(c, t) PROVE client'[c].at \in {"owned", "idle"}
        BY <1>a, <4>1 DEF Draft!Found
      <4>2. Draft!Goto(c, "create") => client'[c].at = "create"
        BY <1>a, GoneOrLeft
      <4> QED BY <3>2, <4>1, <4>2 DEF Draft!Look
    <3>3. CASE Draft!RecordFollowup(c)
      BY <1>a, <3>3 DEF Draft!RecordFollowup, Draft!Found
    <3>4. ASSUME NEW t \in Task, Draft!CreateFollowup(c, t) PROVE UNCHANGED mails /\ client'[c].at = "opened"
      BY <1>a, <3>4 DEF Draft!CreateFollowup
    <3>5. CASE Draft!Own(c)
      <4>1. client[c].kind = "retry" /\ UNCHANGED mails /\ (Draft!Goto(c, "send") \/ Draft!Leave(c))
        BY <3>5 DEF Draft!Own, KindsOfPlace
      <4> QED BY <1>a, <4>1, GoneOrLeft
    <3>6. CASE Draft!Return(c)
      BY <1>a, <3>6, GoneOrLeft DEF Draft!Return
    <3>c. CASE Draft!RecordResolution(c) \/ Draft!Owned(c) \/ Draft!Take(c)
      BY <1>a, <3>c, GoneOrLeft DEF Draft!RecordResolution, Draft!Owned, Draft!Take
    <3> QED BY <1>6, <2>2, <3>1, <3>a, <3>b, <3>2, <3>3, <3>4, <3>5, <3>6, <3>c DEF Draft!Serve
  <2> QED BY <1>0, <2>0, <2>1, <2>2 DEF Approvers
<1> QED BY <1>1, <1>2, <1>3, <1>4, <1>5, <1>6 DEF Draft!Next, Draft!NextProduct, Draft!Serve

LEMMA MailedOnceKept ==
  ASSUME Draft!DraftBounds, DraftInv, [Draft!Next]_Draft!vars
  PROVE  MailedOnce'
<1>0. DraftTypes /\ KindsOfPlace /\ MailedOnce /\ (approval = "approved" \/ Untouched)
  BY DEF DraftInv
<1>1. CASE UNCHANGED mails /\ Approvers' \subseteq Approvers
  BY <1>0, <1>1 DEF MailedOnce, Draft!Sent
<1>2. ASSUME NEW c \in Client, approval = "pending", UNCHANGED mails, Approvers' \subseteq Approvers \cup {c}
      PROVE  MailedOnce'
  <2>1. Draft!Sent("approve") = {} /\ Approvers = {}
    BY <1>0, <1>2 DEF Untouched, Draft!Sent, Approvers
  <2> QED BY <1>2, <2>1 DEF MailedOnce, Draft!Sent
<1>3. ASSUME NEW c \in Client, NEW reply \in Draft!Reply, Draft!Send(c, reply) PROVE MailedOnce'
  <2>0. client[c].at = "send" /\ client \in [Client -> Draft!Call]
    BY <1>0, <1>3 DEF Draft!Send, DraftTypes
  <2> DEFINE m == Draft!Mail(c, reply)
  <2>1. m \in Draft!Mailed /\ mails' = Append(mails, m) /\ m.by = client[c].kind
    BY <1>0, <1>3, <2>0, MailIsMailed DEF Draft!Send, Draft!Mail
  <2> HIDE DEF m
  <2>2. Approvers' = Approvers \ {c}
    BY <1>3, <2>0 DEF Approvers, Draft!Send
  <2>3. Draft!Sent("approve")' = IF client[c].kind = "approve"
                                   THEN Draft!Sent("approve") \cup {Len(mails) + 1}
                                   ELSE Draft!Sent("approve")
    <3>1. Draft!Sent("approve")' = {i \in DOMAIN mails' : mails'[i].by = "approve"}
      BY DEF Draft!Sent
    <3>2. /\ DOMAIN mails' = DOMAIN mails \cup {Len(mails) + 1} /\ Len(mails) + 1 \notin DOMAIN mails
          /\ \A i \in DOMAIN mails : mails'[i] = mails[i]
          /\ mails'[Len(mails) + 1] = m
      BY <1>0, <2>1, SentAfter DEF DraftTypes
    <3> QED BY <2>1, <3>1, <3>2 DEF Draft!Sent
  <2>4. CASE client[c].kind = "approve"
    <3>1. c \in Approvers
      BY <2>0, <2>4 DEF Approvers
    <3>2. Draft!Sent("approve") = {} /\ Approvers \ {c} = {}
      BY <1>0, <3>1 DEF MailedOnce
    <3> QED BY <2>2, <2>3, <2>4, <3>2 DEF MailedOnce
  <2>5. CASE client[c].kind # "approve"
    BY <1>0, <2>2, <2>3, <2>5 DEF MailedOnce
  <2> QED BY <2>4, <2>5
<1> QED BY <1>0, <1>1, <1>2, <1>3, OthersMail

\* A call that will close its follow-up as retried was one before, or just mailed.
LEMMA ClosingBefore ==
  ASSUME Draft!DraftBounds, DraftTypes, KindsOfPlace, NEW c \in Client,
         Draft!Ask(c) \/ Draft!Serve(c), Closing(c)'
  PROVE  \/ Closing(c) /\ client'[c].task = client[c].task
         \/ client[c].kind = "retry" /\ Draft!Send(c, "sent") /\ client'[c].task = client[c].task
<1>a. client \in [Client -> Draft!Call]
  BY DEF DraftTypes
<1>1. ~Draft!Ask(c)
  BY <1>a, AskGoes DEF Closing
<1>2. Draft!Serve(c) /\ client'[c].at \in {"sent", "return"}
  BY <1>1 DEF Closing
<1>3. client'[c].at # "idle"
  BY <1>2
<1>4. ASSUME NEW reply \in Draft!Reply, Draft!Send(c, reply)
      PROVE  client[c].kind = "retry" /\ reply = "sent" /\ client'[c].task = client[c].task
  <2>1. client'[c].at = "sent" /\ client'[c].kind = client[c].kind /\ client'[c].task = client[c].task
        /\ client'[c].reply = IF reply = "lost" THEN "failed" ELSE reply
    BY <1>a, <1>4 DEF Draft!Send, Draft!Call
  <2>2. client[c].kind = "retry" /\ client'[c].reply = "sent"
    BY <2>1 DEF Closing
  <2> QED BY <2>1, <2>2
<1>5. CASE Draft!RecordRetry(c)
  BY <1>a, <1>3, <1>5, RetryGoes, GoneOrLeft DEF Closing
<1>6. ~(Draft!Decide(c) \/ Draft!Resume(c) \/ Draft!ResumeRaises(c) \/ Draft!RecordSend(c))
  BY <1>a, <1>2, GoneOrLeft DEF Draft!Decide, Draft!Resume, Draft!ResumeRaises, Draft!RecordSend
<1>7. ~Draft!Look(c)
  <2>1. ASSUME NEW t \in Task, Draft!Found(c, t) PROVE client'[c].at \in {"owned", "idle"}
    BY <1>a, <2>1 DEF Draft!Found
  <2>2. Draft!Goto(c, "create") => client'[c].at = "create"
    BY <1>a, GoneOrLeft
  <2> QED BY <1>2, <2>1, <2>2 DEF Draft!Look
<1>8. ASSUME NEW t \in Task, Draft!CreateFollowup(c, t) PROVE FALSE
  BY <1>a, <1>2, <1>8 DEF Draft!CreateFollowup
<1>b. ~Draft!RecordFollowup(c)
  <2>1. Draft!RecordFollowup(c) => client'[c].at \in {"owned", "idle"}
    BY <1>a DEF Draft!RecordFollowup, Draft!Found
  <2> QED BY <1>2, <2>1
<1>9. ~(Draft!Own(c) \/ Draft!Return(c) \/ Draft!RecordResolution(c) \/ Draft!Owned(c) \/ Draft!Take(c))
  BY <1>a, <1>2, GoneOrLeft DEF Draft!Own, Draft!Return, Draft!RecordResolution, Draft!Owned, Draft!Take
<1> QED BY <1>2, <1>4, <1>5, <1>6, <1>7, <1>8, <1>b, <1>9 DEF Draft!Serve

LEMMA RetryMailedStays ==
  ASSUME Draft!DraftBounds, DraftTypes, KindsOfPlace, [Draft!Next]_Draft!vars, NEW t \in Task, RetryMailed(t)
  PROVE  RetryMailed(t)'
<1>1. PICK i \in DOMAIN mails : mails[i].by = "retry" /\ mails[i].task = t /\ mails[i].reply = "sent"
  BY DEF RetryMailed, Draft!Sent
<1>2. CASE UNCHANGED mails
  BY <1>1, <1>2 DEF RetryMailed, Draft!Sent
<1>3. ASSUME NEW c \in Client, NEW reply \in Draft!Reply, Draft!Send(c, reply)
      PROVE  i \in DOMAIN mails' /\ mails'[i] = mails[i]
  BY <1>3, MailIsMailed, SentAfter DEF DraftTypes, Draft!Send
<1>4. (i \in DOMAIN mails' /\ mails'[i] = mails[i]) => RetryMailed(t)'
  BY <1>1 DEF RetryMailed, Draft!Sent
<1> QED BY <1>2, <1>3, <1>4, OthersMail

LEMMA RetriesMailedKept ==
  ASSUME Draft!DraftBounds, DraftInv, [Draft!Next]_Draft!vars
  PROVE  RetriesMailed'
<1>0. DraftTypes /\ KindsOfPlace /\ RetriesMailed
  BY DEF DraftInv
<1>1. \A t \in Task : RetryMailed(t) => RetryMailed(t)'
  BY <1>0, RetryMailedStays
<1>2. ASSUME NEW t \in Task, resolution'[t] = "retry_sent" PROVE RetryMailed(t)'
  <2>1. CASE resolution[t] = "retry_sent"
    BY <1>0, <1>1, <2>1 DEF RetriesMailed
  <2>2. CASE resolution[t] # "retry_sent"
    <3>1. PICK c \in Client : Draft!Return(c)
      BY <1>2, <2>2 DEF Draft!Next, Draft!NextProduct, Draft!vars, Draft!Expire, Draft!Crash, Draft!Claim,
        Draft!Ask, Draft!BeginDecision, Draft!BeginRetry, Draft!BeginComplete, Draft!BeginReopen,
        Draft!Serve, Draft!Decide, Draft!Resume, Draft!ResumeRaises, Draft!Send, Draft!RecordSend,
        Draft!Look, Draft!RecordFollowup, Draft!CreateFollowup, Draft!Own, Draft!RecordRetry,
        Draft!RecordResolution, Draft!Owned, Draft!Take
    <3>2. client[c].task = t /\ Closing(c)
      BY <1>0, <1>2, <2>2, <3>1 DEF Draft!Return, Closing, DraftTypes
    <3> QED BY <1>0, <1>1, <3>2 DEF RetriesMailed
  <2> QED BY <2>1, <2>2
<1>3. ASSUME NEW d \in Client, Closing(d)' PROVE RetryMailed(client[d].task)'
  <2>0. client[d].task \in Task
    BY <1>0 DEF DraftTypes, Draft!Call
  <2>1. CASE client'[d] = client[d]
    BY <1>0, <1>1, <1>3, <2>0, <2>1 DEF RetriesMailed, Closing
  <2>2. CASE client'[d] # client[d]
    <3>1. ~Draft!Crash
      BY <1>3 DEF Draft!Crash, Closing, Draft!IdleCall
    <3>2. ~UNCHANGED client
      BY <2>2
    <3>3. PICK c \in Client : Draft!Ask(c) \/ Draft!Serve(c)
      BY <3>1, <3>2 DEF Draft!Next, Draft!NextProduct, Draft!vars, Draft!Expire, Draft!Claim
    <3>4. c = d
      BY <1>0, <2>2, <3>3, CallTypes
    <3>5. CASE Closing(d) /\ client'[d].task = client[d].task
      BY <1>0, <1>1, <2>0, <3>5 DEF RetriesMailed
    <3>6. CASE client[d].kind = "retry" /\ Draft!Send(d, "sent") /\ client'[d].task = client[d].task
      <4>1. "sent" \in Draft!Reply /\ client[d].at = "send"
        BY <3>6 DEF Draft!Reply, Draft!Send
      <4>2. Draft!Mail(d, "sent") \in Draft!Mailed /\ mails' = Append(mails, Draft!Mail(d, "sent"))
        BY <1>0, <3>6, <4>1, MailIsMailed DEF Draft!Send
      <4>3. Len(mails) + 1 \in DOMAIN mails' /\ mails'[Len(mails) + 1] = Draft!Mail(d, "sent")
        BY <1>0, <4>2, SentAfter DEF DraftTypes
      <4>4. Draft!Mail(d, "sent").by = "retry" /\ Draft!Mail(d, "sent").task = client[d].task
            /\ Draft!Mail(d, "sent").reply = "sent"
        BY <3>6 DEF Draft!Mail
      <4> QED BY <3>6, <4>3, <4>4 DEF RetryMailed, Draft!Sent
    <3> QED BY <1>0, <1>3, <3>3, <3>4, <3>5, <3>6, ClosingBefore
  <2> QED BY <2>1, <2>2
<1> QED BY <1>2, <1>3 DEF RetriesMailed

-----------------------------------------------------------------------------
\* Mails that were accepted and calls that are about to tell of one.
SentMails == {i \in DOMAIN mails : mails[i].reply = "sent"}
Telling == {c \in Client : client[c].at = "sent" /\ client[c].reply = "sent"}

MailsTold ==
  /\ IsFiniteSet(Telling) /\ IsFiniteSet(SentMails)
  /\ told + Cardinality(Telling) <= Cardinality(SentMails)
  /\ crashes = 0 => told + Cardinality(Telling) = Cardinality(SentMails)

\* Only a mail takes a call to where it tells of one.
LEMMA SentBySending ==
  ASSUME Draft!DraftBounds, DraftTypes, KindsOfPlace, NEW c \in Client,
         Draft!Ask(c) \/ Draft!Serve(c), client'[c].at = "sent"
  PROVE  \E reply \in Draft!Reply : Draft!Send(c, reply)
<1>a. client \in [Client -> Draft!Call]
  BY DEF DraftTypes
<1>1. ~Draft!Ask(c)
  BY <1>a, AskGoes
<1>2. ~Draft!RecordRetry(c)
  BY <1>a, RetryGoes, GoneOrLeft
<1>3. ~(Draft!Decide(c) \/ Draft!Resume(c) \/ Draft!ResumeRaises(c) \/ Draft!RecordSend(c))
  BY <1>a, GoneOrLeft DEF Draft!Decide, Draft!Resume, Draft!ResumeRaises, Draft!RecordSend
<1>4. ~Draft!Look(c)
  <2>1. ASSUME NEW t \in Task, Draft!Found(c, t) PROVE client'[c].at \in {"owned", "idle"}
    BY <1>a, <2>1 DEF Draft!Found
  <2>2. Draft!Goto(c, "create") => client'[c].at = "create"
    BY <1>a, GoneOrLeft
  <2> QED BY <2>1, <2>2 DEF Draft!Look
<1>5. ASSUME NEW t \in Task, Draft!CreateFollowup(c, t) PROVE FALSE
  BY <1>a, <1>5 DEF Draft!CreateFollowup
<1>6. ~Draft!RecordFollowup(c)
  <2>1. Draft!RecordFollowup(c) => client'[c].at \in {"owned", "idle"}
    BY <1>a DEF Draft!RecordFollowup, Draft!Found
  <2> QED BY <2>1
<1>7. ~(Draft!Own(c) \/ Draft!RecordResolution(c) \/ Draft!Owned(c) \/ Draft!Take(c))
  BY <1>a, GoneOrLeft DEF Draft!Own, Draft!RecordResolution, Draft!Owned, Draft!Take
<1>8. ~Draft!Return(c)
  <2>1. Draft!Return(c) => Draft!Goto(c, "resolved") \/ Draft!Leave(c)
    BY DEF Draft!Return
  <2> QED BY <1>a, <2>1, GoneOrLeft
<1> QED BY <1>1, <1>2, <1>3, <1>4, <1>5, <1>6, <1>7, <1>8 DEF Draft!Serve

LEMMA TellingStays ==
  ASSUME Draft!DraftBounds, DraftTypes, KindsOfPlace, [Draft!Next]_Draft!vars
  PROVE  \/ /\ UNCHANGED <<told, mails, crashes>> /\ Telling' = Telling
         \/ /\ UNCHANGED <<told, mails>> /\ crashes' = crashes + 1 /\ Telling' = {}
         \/ \E c \in Client, reply \in Draft!Reply : Draft!Send(c, reply)
         \/ \E c \in Client : Draft!RecordSend(c) \/ Draft!RecordRetry(c)
<1>1. CASE UNCHANGED Draft!vars
  BY <1>1 DEF Draft!vars, Telling
<1>2. CASE Draft!Expire \/ \E t \in Task, o \in Operator : Draft!Claim(t, o)
  BY <1>2 DEF Draft!Expire, Draft!Claim, Telling
<1>3. CASE Draft!Crash
  BY <1>3 DEF Draft!Crash, Draft!IdleCall, Telling
<1>4. ASSUME NEW c \in Client, Draft!Ask(c) \/ Draft!Serve(c),
             ~\E reply \in Draft!Reply : Draft!Send(c, reply),
             ~(Draft!RecordSend(c) \/ Draft!RecordRetry(c))
      PROVE  UNCHANGED <<told, mails, crashes>> /\ Telling' = Telling
  <2>1. UNCHANGED <<told, mails, crashes>> /\ client[c].at # "sent"
    BY <1>4 DEF Draft!Ask, Draft!BeginDecision, Draft!BeginRetry, Draft!BeginComplete, Draft!BeginReopen,
        Draft!Begin, Draft!Serve, Draft!Decide, Draft!Resume, Draft!ResumeRaises,
        Draft!Look, Draft!RecordFollowup, Draft!CreateFollowup, Draft!Own, Draft!Return,
        Draft!RecordResolution, Draft!Owned, Draft!Take
  <2>2. client'[c].at # "sent"
    BY <1>4, SentBySending
  <2>3. \A d \in Client \ {c} : client'[d] = client[d]
    BY <1>4, CallTypes
  <2> QED BY <2>1, <2>2, <2>3 DEF Telling
<1> QED BY <1>1, <1>2, <1>3, <1>4 DEF Draft!Next, Draft!NextProduct

\* A step that tells of no mail balances what it adds to both.
LEMMA MailsToldKept ==
  ASSUME Draft!DraftBounds, DraftTypes, KindsOfPlace, MailsTold, [Draft!Next]_Draft!vars
  PROVE  MailsTold'
<1>0. /\ IsFiniteSet(Telling) /\ IsFiniteSet(SentMails)
      /\ Cardinality(Telling) \in Nat /\ Cardinality(SentMails) \in Nat /\ told \in Nat /\ crashes \in Nat
  BY FS_CardinalityType DEF MailsTold, DraftTypes
<1>a. client \in [Client -> Draft!Call]
  BY DEF DraftTypes
<1>1. CASE UNCHANGED <<told, mails, crashes>> /\ Telling' = Telling
  BY <1>0, <1>1 DEF MailsTold, SentMails
<1>2. CASE UNCHANGED <<told, mails>> /\ crashes' = crashes + 1 /\ Telling' = {}
  <2>1. Cardinality({}) = 0 /\ IsFiniteSet({})
    BY FS_EmptySet
  <2>2. SentMails' = SentMails
    BY <1>2 DEF SentMails
  <2> QED BY <1>0, <1>2, <2>1, <2>2 DEF MailsTold
<1>3. ASSUME NEW c \in Client, NEW reply \in Draft!Reply, Draft!Send(c, reply) PROVE MailsTold'
  <2>0. client[c].at = "send" /\ UNCHANGED <<told, crashes>>
    BY <1>3 DEF Draft!Send
  <2> DEFINE n == Len(mails) + 1
  <2>1. /\ DOMAIN mails' = DOMAIN mails \cup {n} /\ n \notin DOMAIN mails
        /\ \A i \in DOMAIN mails : mails'[i] = mails[i]
        /\ mails'[n].reply = reply
    <3>1. Draft!Mail(c, reply) \in Draft!Mailed /\ mails' = Append(mails, Draft!Mail(c, reply))
      BY <1>3, <2>0, MailIsMailed DEF Draft!Send
    <3> QED BY <3>1, SentAfter DEF DraftTypes, Draft!Mail
  <2>2. client'[c].at = "sent" /\ (client'[c].reply = "sent" <=> reply = "sent")
        /\ \A d \in Client \ {c} : client'[d] = client[d]
    BY <1>a, <1>3 DEF Draft!Send, Draft!Call
  <2> HIDE DEF n
  <2>3. CASE reply = "sent"
    <3>1. SentMails' = SentMails \cup {n} /\ n \notin SentMails
      BY <2>1, <2>3 DEF SentMails
    <3>2. Telling' = Telling \cup {c} /\ c \notin Telling
      BY <2>0, <2>2, <2>3 DEF Telling
    <3>3. Cardinality(SentMails') = Cardinality(SentMails) + 1 /\ IsFiniteSet(SentMails')
      BY <1>0, <3>1, FS_AddElement
    <3>4. Cardinality(Telling') = Cardinality(Telling) + 1 /\ IsFiniteSet(Telling')
      BY <1>0, <3>2, FS_AddElement
    <3> QED BY <1>0, <2>0, <3>3, <3>4 DEF MailsTold
  <2>4. CASE reply # "sent"
    <3>1. SentMails' = SentMails
      BY <2>1, <2>4 DEF SentMails
    <3>2. Telling' = Telling
      BY <2>0, <2>2, <2>4 DEF Telling
    <3> QED BY <2>0, <3>1, <3>2 DEF MailsTold
  <2> QED BY <2>3, <2>4
<1>4. ASSUME NEW c \in Client, Draft!RecordSend(c) \/ Draft!RecordRetry(c) PROVE MailsTold'
  <2>0. client[c].at = "sent" /\ UNCHANGED <<mails, crashes>>
        /\ told' = IF client[c].reply = "sent" THEN told + 1 ELSE told
    BY <1>4 DEF Draft!RecordSend, Draft!RecordRetry
  <2>1. client'[c].at # "sent" /\ \A d \in Client \ {c} : client'[d] = client[d]
    <3>1. CASE Draft!RecordSend(c)
      BY <1>a, <3>1, GoneOrLeft, CallTypes DEF Draft!RecordSend, Draft!Serve
    <3>2. CASE Draft!RecordRetry(c)
      BY <1>a, <3>2, RetryGoes, GoneOrLeft, CallTypes DEF Draft!Serve
    <3> QED BY <1>4, <3>1, <3>2
  <2>2. SentMails' = SentMails
    BY <2>0 DEF SentMails
  <2>3. CASE client[c].reply = "sent"
    <3>1. Telling' = Telling \ {c} /\ c \in Telling
      BY <2>0, <2>1, <2>3 DEF Telling
    <3>2. Cardinality(Telling') = Cardinality(Telling) - 1 /\ IsFiniteSet(Telling')
      BY <1>0, <3>1, FS_RemoveElement
    <3> QED BY <1>0, <2>0, <2>2, <2>3, <3>2 DEF MailsTold
  <2>4. CASE client[c].reply # "sent"
    <3>1. Telling' = Telling
      BY <2>0, <2>1, <2>4 DEF Telling
    <3> QED BY <2>0, <2>2, <2>4, <3>1 DEF MailsTold
  <2> QED BY <2>3, <2>4
<1> QED BY <1>1, <1>2, <1>3, <1>4, TellingStays

-----------------------------------------------------------------------------
\* A follow-up that was opened stays in the table.
LEMMA FollowupsStay ==
  ASSUME DraftTypes, [Draft!Next]_Draft!vars, NEW t \in Task, handoff[t] # Draft!NoRow,
         handoff[t].status # "absent"
  PROVE  handoff'[t] # Draft!NoRow /\ handoff'[t].status # "absent"
<1>0. handoff \in [Task -> Draft!TaskRow]
  BY DEF DraftTypes, Draft!RowsTypeOK
<1>1. CASE UNCHANGED handoff
  BY <1>1
<1>2. ASSUME NEW u \in Task, Draft!Insert(u) PROVE handoff'[t] # Draft!NoRow /\ handoff'[t].status # "absent"
  BY <1>0, <1>2 DEF Draft!Insert, Draft!NewRow, Draft!NoRow
<1>3. ASSUME NEW u \in Task, NEW o, Draft!AssignRow(u, o)
      PROVE  handoff'[t] # Draft!NoRow /\ handoff'[t].status # "absent"
  <2>1. handoff'[t].status = handoff[t].status
    BY <1>0, <1>3 DEF Draft!AssignRow, Draft!TaskRow
  <2> QED BY <2>1 DEF Draft!NoRow
<1>4. ASSUME NEW u \in Task, NEW o, Draft!ReturnRow(u, o) \/ Draft!ClaimRow(u, o)
      PROVE  handoff'[t] # Draft!NoRow /\ handoff'[t].status # "absent"
  <2>1. handoff'[t] = handoff[t] \/ handoff'[t].status \in {"returned", "claimed"}
    BY <1>0, <1>4 DEF Draft!ReturnRow, Draft!ClaimRow
  <2> QED BY <2>1 DEF Draft!NoRow
<1>5. \A c \in Client : client[c].task \in Task
  BY DEF DraftTypes, Draft!Call
<1>6. \/ UNCHANGED handoff
      \/ \E u \in Task : Draft!Insert(u)
      \/ \E c \in Client : \/ Draft!AssignRow(client[c].task, client[c].operator)
                           \/ Draft!ReturnRow(client[c].task, client[c].operator)
      \/ \E u \in Task, o \in Operator : Draft!ClaimRow(u, o)
  BY DEF Draft!Next, Draft!NextProduct, Draft!vars, Draft!Expire, Draft!Crash, Draft!Claim,
    Draft!Ask, Draft!BeginDecision, Draft!BeginRetry, Draft!BeginComplete, Draft!BeginReopen,
    Draft!Serve, Draft!Decide, Draft!Resume, Draft!ResumeRaises, Draft!Send, Draft!RecordSend,
    Draft!Look, Draft!RecordFollowup, Draft!CreateFollowup, Draft!Own, Draft!RecordRetry,
    Draft!Return, Draft!RecordResolution, Draft!Owned, Draft!Take
<1> QED BY <1>1, <1>2, <1>3, <1>4, <1>5, <1>6

\* A call that will see to it that an approved draft is delivered or followed up.
Following(c) ==
  /\ client[c].kind = "approve"
  /\ \/ client[c].at \in {"resume", "send", "look", "create"}
     \/ client[c].at = "sent" /\ client[c].reply \in {"failed", "skipped"}

FollowedUp == \E t \in Task : handoff[t].status # "absent"

SeenTo ==
  crashes = 0 /\ approval = "approved"
    => \/ Draft!Accepted # {}
       \/ FollowedUp
       \/ \E c \in Client : Following(c)

LEMMA AcceptedStay ==
  ASSUME Draft!DraftBounds, DraftTypes, KindsOfPlace, [Draft!Next]_Draft!vars, Draft!Accepted # {}
  PROVE  (Draft!Accepted # {})'
<1>1. PICK i \in DOMAIN mails : mails[i].reply \in {"sent", "lost"}
  BY DEF Draft!Accepted
<1>2. ASSUME NEW c \in Client, NEW reply \in Draft!Reply, Draft!Send(c, reply)
      PROVE  i \in DOMAIN mails' /\ mails'[i] = mails[i]
  BY <1>2, MailIsMailed, SentAfter DEF DraftTypes, Draft!Send
<1> QED BY <1>1, <1>2, OthersMail DEF Draft!Accepted

\* What becomes of such a call.
LEMMA FollowsUp ==
  ASSUME Draft!DraftBounds, ~ResumesRaise, DraftTypes, KindsOfPlace, NEW c \in Client,
         Draft!Ask(c) \/ Draft!Serve(c), Following(c)
  PROVE  Following(c)' \/ (Draft!Accepted # {})' \/ FollowedUp'
<1>a. client \in [Client -> Draft!Call] /\ handoff \in [Task -> Draft!TaskRow]
  BY DEF DraftTypes, Draft!RowsTypeOK
<1>1. CASE Draft!Resume(c)
  BY <1>a, <1>1, GoneOrLeft DEF Draft!Resume, Following
<1>2. ASSUME NEW reply \in Draft!Reply, Draft!Send(c, reply)
      PROVE  Following(c)' \/ (Draft!Accepted # {})'
  <2>1. Draft!Mail(c, reply) \in Draft!Mailed /\ mails' = Append(mails, Draft!Mail(c, reply))
    BY <1>2, MailIsMailed DEF Draft!Send
  <2>2. CASE reply \in {"sent", "lost"}
    <3>1. Len(mails) + 1 \in DOMAIN mails' /\ mails'[Len(mails) + 1].reply = reply
      BY <2>1, SentAfter DEF DraftTypes, Draft!Mail
    <3> QED BY <2>2, <3>1 DEF Draft!Accepted
  <2>3. CASE reply \in {"failed", "skipped"}
    <3>1. client'[c].at = "sent" /\ client'[c].kind = client[c].kind /\ client'[c].reply = reply
      BY <1>a, <1>2, <2>3 DEF Draft!Send, Draft!Call
    <3> QED BY <2>3, <3>1 DEF Following
  <2> QED BY <2>2, <2>3 DEF Draft!Reply
<1>3. CASE Draft!RecordSend(c)
  <2>1. Draft!Goto(c, "look")
    BY <1>3 DEF Draft!RecordSend, Following, Draft!NeedsFollowup
  <2> QED BY <1>a, <2>1, GoneOrLeft DEF Following
<1>4. CASE Draft!Look(c)
  <2>1. CASE Draft!Goto(c, "create")
    BY <1>a, <2>1, GoneOrLeft DEF Following
  <2>2. ASSUME NEW t \in Task, Draft!Followup(t) PROVE FollowedUp'
    BY <1>4, <2>2 DEF FollowedUp, Draft!Look, Draft!Followup
  <2> QED BY <1>4, <2>1, <2>2 DEF Draft!Look
<1>5. ASSUME NEW t \in Task, Draft!CreateFollowup(c, t) PROVE FollowedUp'
  <2>1. handoff'[t].status = "pending"
    BY <1>a, <1>5 DEF Draft!CreateFollowup, Draft!Insert, Draft!NewRow
  <2> QED BY <2>1 DEF FollowedUp
<1>6. ~Draft!Ask(c)
  BY DEF Draft!Ask, Draft!BeginDecision, Draft!BeginRetry, Draft!BeginComplete, Draft!BeginReopen,
         Draft!Begin, Following
<1>7. ~(\/ Draft!Decide(c) \/ Draft!ResumeRaises(c) \/ Draft!RecordFollowup(c) \/ Draft!Own(c)
        \/ Draft!RecordRetry(c) \/ Draft!Return(c) \/ Draft!RecordResolution(c) \/ Draft!Owned(c) \/ Draft!Take(c))
  BY DEF Draft!Decide, Draft!ResumeRaises, Draft!RecordFollowup, Draft!Own, Draft!RecordRetry,
         Draft!Return, Draft!RecordResolution, Draft!Owned, Draft!Take, Following
<1> QED BY <1>1, <1>2, <1>3, <1>4, <1>5, <1>6, <1>7 DEF Draft!Serve

LEMMA SeenToKept ==
  ASSUME Draft!DraftBounds, ~ResumesRaise, DraftTypes, KindsOfPlace, SeenTo, [Draft!Next]_Draft!vars
  PROVE  SeenTo'
<1>a. client \in [Client -> Draft!Call] /\ crashes \in Nat
  BY DEF DraftTypes
<1>0. SUFFICES ASSUME crashes' = 0, approval' = "approved"
               PROVE  (Draft!Accepted # {})' \/ FollowedUp' \/ \E c \in Client : Following(c)'
  BY DEF SeenTo
<1>1. crashes = 0 /\ ~Draft!Crash
  <2>1. ~Draft!Crash
    BY <1>0, <1>a DEF Draft!Crash
  <2>2. ASSUME NEW c \in Client, Draft!Serve(c) PROVE UNCHANGED crashes
    BY <2>2 DEF Draft!Serve, Draft!Decide, Draft!Resume, Draft!ResumeRaises, Draft!Send, Draft!RecordSend,
      Draft!Look, Draft!RecordFollowup, Draft!CreateFollowup, Draft!Own, Draft!RecordRetry,
      Draft!Return, Draft!RecordResolution, Draft!Owned, Draft!Take
  <2>3. ASSUME NEW c \in Client, Draft!Ask(c) PROVE UNCHANGED crashes
    BY <2>3 DEF Draft!Ask, Draft!BeginDecision, Draft!BeginRetry, Draft!BeginComplete, Draft!BeginReopen
  <2>4. UNCHANGED crashes
    BY <2>1, <2>2, <2>3 DEF Draft!Next, Draft!NextProduct, Draft!vars, Draft!Expire, Draft!Claim
  <2> QED BY <1>0, <2>1, <2>4
<1>2. CASE approval # "approved"
  <2>1. PICK c \in Client : Draft!Decide(c)
    BY <1>0, <1>1, <1>2 DEF Draft!Next, Draft!NextProduct, Draft!vars, Draft!Expire, Draft!Claim,
      Draft!Ask, Draft!BeginDecision, Draft!BeginRetry, Draft!BeginComplete, Draft!BeginReopen,
      Draft!Serve, Draft!Resume, Draft!ResumeRaises, Draft!Send, Draft!RecordSend,
      Draft!Look, Draft!RecordFollowup, Draft!CreateFollowup, Draft!Own, Draft!RecordRetry,
      Draft!Return, Draft!RecordResolution, Draft!Owned, Draft!Take
  <2>2. client[c].kind = "approve" /\ Draft!Goto(c, "resume")
    BY <1>0, <1>2, <2>1 DEF Draft!Decide
  <2> QED BY <1>a, <2>2, GoneOrLeft DEF Following
<1>3. CASE approval = "approved" /\ Draft!Accepted # {}
  BY <1>3, AcceptedStay
<1>4. CASE approval = "approved" /\ FollowedUp
  BY <1>4, FollowupsStay DEF FollowedUp, Draft!NoRow
<1>5. CASE approval = "approved" /\ \E d \in Client : Following(d)
  <2>1. PICK d \in Client : Following(d)
    BY <1>5
  <2>2. CASE client'[d] = client[d]
    BY <2>1, <2>2 DEF Following
  <2>3. CASE client'[d] # client[d]
    <3>1. PICK c \in Client : Draft!Ask(c) \/ Draft!Serve(c)
      BY <1>1, <2>3 DEF Draft!Next, Draft!NextProduct, Draft!vars, Draft!Expire, Draft!Claim
    <3>2. c = d
      BY <2>3, <3>1, CallTypes
    <3> QED BY <2>1, <3>1, <3>2, FollowsUp
  <2> QED BY <2>2, <2>3
<1> QED BY <1>1, <1>2, <1>3, <1>4, <1>5 DEF SeenTo

-----------------------------------------------------------------------------
\* One client after the other, through the product alone: nobody claims a follow-up.
OneClient == \A c, d \in Client : c = d

OneOpen ==
  /\ \A t \in Task : handoff[t].status # "claimed"
  /\ \A t, u \in Task : Draft!Open(t) /\ Draft!Open(u) => t = u
  /\ \A c \in Client : client[c].at = "create" => \A t \in Task : ~Draft!Open(t)

\* Only a look into the list takes a call to where it creates a follow-up.
LEMMA CreateAfterLook ==
  ASSUME Draft!DraftBounds, DraftTypes, KindsOfPlace, NEW c \in Client,
         Draft!Ask(c) \/ Draft!Serve(c), client'[c].at = "create"
  PROVE  Draft!Look(c)
<1>a. client \in [Client -> Draft!Call]
  BY DEF DraftTypes
<1>1. ~Draft!Ask(c)
  BY <1>a, AskGoes
<1>2. ~Draft!RecordRetry(c)
  BY <1>a, RetryGoes, GoneOrLeft
<1>3. ~(Draft!Decide(c) \/ Draft!Resume(c) \/ Draft!ResumeRaises(c) \/ Draft!RecordSend(c))
  BY <1>a, GoneOrLeft DEF Draft!Decide, Draft!Resume, Draft!ResumeRaises, Draft!RecordSend
<1>4. ASSUME NEW t \in Task, Draft!CreateFollowup(c, t) PROVE FALSE
  BY <1>a, <1>4 DEF Draft!CreateFollowup
<1>5. ASSUME NEW reply \in Draft!Reply, Draft!Send(c, reply) PROVE FALSE
  BY <1>a, <1>5 DEF Draft!Send
<1>6. ~Draft!RecordFollowup(c)
  <2>1. Draft!RecordFollowup(c) => client'[c].at \in {"owned", "idle"}
    BY <1>a DEF Draft!RecordFollowup, Draft!Found
  <2> QED BY <2>1
<1>7. ~(Draft!Own(c) \/ Draft!RecordResolution(c) \/ Draft!Owned(c) \/ Draft!Take(c))
  BY <1>a, GoneOrLeft DEF Draft!Own, Draft!RecordResolution, Draft!Owned, Draft!Take
<1>8. ~Draft!Return(c)
  <2>1. Draft!Return(c) => Draft!Goto(c, "resolved") \/ Draft!Leave(c)
    BY DEF Draft!Return
  <2> QED BY <1>a, <2>1, GoneOrLeft
<1> QED BY <1>1, <1>2, <1>3, <1>4, <1>5, <1>6, <1>7, <1>8 DEF Draft!Serve

LEMMA OneOpenKept ==
  ASSUME Draft!DraftBounds, OneClient, DraftTypes, KindsOfPlace, OneOpen, [Draft!NextProduct]_Draft!vars
  PROVE  OneOpen'
<1>a. client \in [Client -> Draft!Call] /\ handoff \in [Task -> Draft!TaskRow]
      /\ \A c \in Client : client[c].task \in Task
  BY DEF DraftTypes, Draft!RowsTypeOK, Draft!Call
<1>1. CASE UNCHANGED Draft!vars
  BY <1>1 DEF Draft!vars, OneOpen, Draft!Open
<1>2. CASE Draft!Expire \/ Draft!Crash
  BY <1>2 DEF Draft!Expire, Draft!Crash, OneOpen, Draft!Open, Draft!IdleCall
<1>3. ASSUME NEW c \in Client, Draft!Ask(c) \/ Draft!Serve(c) PROVE OneOpen'
  <2>0. \A d \in Client : d = c
    BY DEF OneClient
  <2>1. CASE \E t \in Task : Draft!CreateFollowup(c, t)
    <3>1. PICK t \in Task : Draft!CreateFollowup(c, t)
      BY <2>1
    <3>2. /\ handoff'[t].status = "pending" /\ \A u \in Task \ {t} : handoff'[u] = handoff[u]
          /\ client[c].at = "create" /\ client'[c].at = "opened"
      BY <1>a, <3>1 DEF Draft!CreateFollowup, Draft!Insert, Draft!NewRow
    <3>3. \A u \in Task \ {t} : handoff'[u].status \notin {"pending", "claimed"}
      BY <3>2 DEF OneOpen, Draft!Open
    <3> QED BY <2>0, <3>2, <3>3 DEF OneOpen, Draft!Open
  <2>2. CASE ~\E t \in Task : Draft!CreateFollowup(c, t)
    <3>1. \A t \in Task : handoff'[t].status \in {handoff[t].status, "returned"}
      <4>1. \/ UNCHANGED handoff
            \/ Draft!AssignRow(client[c].task, client[c].operator)
            \/ Draft!ReturnRow(client[c].task, client[c].operator)
        BY <1>3, <2>2 DEF Draft!Ask, Draft!BeginDecision, Draft!BeginRetry, Draft!BeginComplete,
          Draft!BeginReopen, Draft!Serve, Draft!Decide, Draft!Resume, Draft!ResumeRaises, Draft!Send,
          Draft!RecordSend, Draft!Look, Draft!RecordFollowup, Draft!Own, Draft!RecordRetry,
          Draft!Return, Draft!RecordResolution, Draft!Owned, Draft!Take
      <4>2. CASE Draft!AssignRow(client[c].task, client[c].operator)
        <5>1. \A t \in Task : handoff'[t].status = handoff[t].status
          BY <1>a, <4>2 DEF Draft!AssignRow, Draft!TaskRow
        <5> QED BY <5>1
      <4>3. CASE Draft!ReturnRow(client[c].task, client[c].operator)
        BY <1>a, <4>3 DEF Draft!ReturnRow
      <4> QED BY <4>1, <4>2, <4>3
    <3>2. client'[c].at = "create" => UNCHANGED handoff /\ \A t \in Task : handoff[t].status # "pending"
      <4>1. SUFFICES ASSUME client'[c].at = "create" PROVE Draft!Look(c) /\ ~\E t \in Task : Draft!Followup(t)
        BY DEF Draft!Look, Draft!Followup
      <4>2. Draft!Look(c)
        BY <1>a, <1>3, <2>2, <4>1, CreateAfterLook
      <4>3. ASSUME NEW t \in Task, Draft!Found(c, t) PROVE FALSE
        BY <1>a, <4>1, <4>3 DEF Draft!Found
      <4> QED BY <4>2, <4>3 DEF Draft!Look
    <3>3. \A t \in Task : Draft!Open(t)' => Draft!Open(t)
      BY <3>1 DEF Draft!Open
    <3>4. \A t \in Task : handoff'[t].status # "claimed"
      BY <3>1 DEF OneOpen
    <3>5. client'[c].at = "create" => \A t \in Task : ~Draft!Open(t)'
      BY <3>2, <3>4 DEF Draft!Open
    <3> QED BY <2>0, <3>3, <3>4, <3>5 DEF OneOpen
  <2> QED BY <2>1, <2>2
<1> QED BY <1>1, <1>2, <1>3 DEF Draft!NextProduct

-----------------------------------------------------------------------------
AllDraftInv == DraftInv /\ MailsTold

LEMMA DraftInvKept ==
  ASSUME Draft!DraftBounds, AllDraftInv, [Draft!Next]_Draft!vars
  PROVE  AllDraftInv'
BY DraftTypesKept, KindsKept, ApprovedFirst, MailedOnceKept, RetriesMailedKept, MailsToldKept
   DEF AllDraftInv, DraftInv

LEMMA DraftCountsAlike == ASSUME NEW S PROVE Draft!Cardinality(S) = Cardinality(S)
BY DEF Draft!Cardinality, Cardinality

LEMMA AllDraftInvStarts == ASSUME Draft!DraftBounds, Draft!Init PROVE AllDraftInv
<1>1. Telling = {} /\ SentMails = {} /\ told = 0
  BY DEF Draft!Init, Draft!IdleCall, Telling, SentMails
<1>2. IsFiniteSet({}) /\ Cardinality({}) = 0
  BY FS_EmptySet
<1> QED BY <1>1, <1>2, DraftInvStarts DEF AllDraftInv, MailsTold

LEMMA AllDraftInvHolds == ASSUME Draft!DraftBounds PROVE Draft!Spec => []AllDraftInv
<1> QED BY AllDraftInvStarts, DraftInvKept, PTL DEF Draft!Spec

\* Rows, calls and mails of a draft keep their types, and no more mails are told of than
\* there were.
THEOREM DraftTypeCorrect == ASSUME Draft!DraftBounds PROVE Draft!Spec => []Draft!TypeOK
<1>1. ASSUME AllDraftInv PROVE Draft!TypeOK
  <2>1. DraftTypes /\ IsFiniteSet(Telling) /\ told + Cardinality(Telling) <= Cardinality(SentMails)
    BY <1>1 DEF AllDraftInv, DraftInv, MailsTold
  <2>2. Len(mails) \in Nat /\ DOMAIN mails = 1..Len(mails) /\ told \in Nat
    BY <2>1 DEF DraftTypes
  <2>3. SentMails \subseteq 1..Len(mails)
    BY <2>2 DEF SentMails
  <2> DEFINE n == Len(mails)
  <2>4. IsFiniteSet(1..n) /\ Cardinality(1..n) = n
    <3> HIDE DEF n
    <3>1. n \in Nat /\ 1 \in Int /\ n \in Int
      BY <2>2 DEF n
    <3>2. IsFiniteSet(1..n) /\ Cardinality(1..n) = IF 1 > n THEN 0 ELSE n - 1 + 1
      BY <3>1, FS_Interval
    <3> QED BY <3>1, <3>2
  <2>5. Cardinality(SentMails) <= Len(mails) /\ Cardinality(SentMails) \in Nat
    BY <2>3, <2>4, FS_Subset, FS_CardinalityType
  <2>6. Cardinality(Telling) \in Nat
    BY <2>1, FS_CardinalityType
  <2>7. told \in 0..Len(mails)
    BY <2>1, <2>2, <2>5, <2>6
  <2> QED BY <2>1, <2>7 DEF Draft!TypeOK, DraftTypes
<1> QED BY <1>1, AllDraftInvHolds, PTL

\* approve_draft (product/service.py): whoever approves or rejects it at once, an approval
\* mails the draft once, and only an approved draft is mailed.
THEOREM ApprovalMailsOnce == ASSUME Draft!DraftBounds PROVE Draft!Spec => []Draft!ApprovedOnce
<1>1. ASSUME AllDraftInv PROVE Draft!ApprovedOnce
  <2>1. \A i, j \in Draft!Sent("approve") : i = j
    BY <1>1 DEF AllDraftInv, DraftInv, MailedOnce
  <2>2. Cardinality(Draft!Sent("approve")) <= 1
    BY <2>1, FewOfOne
  <2> QED BY <1>1, <2>2, DraftCountsAlike DEF Draft!ApprovedOnce, AllDraftInv, DraftInv, Untouched
<1> QED BY <1>1, AllDraftInvHolds, PTL

\* Once all calls have returned, and no restart cut one off, an event tells of each mail
\* the provider said it accepted.
THEOREM MailsAreTold == ASSUME Draft!DraftBounds PROVE Draft!Spec => []Draft!EveryMailTold
<1>1. ASSUME AllDraftInv PROVE Draft!EveryMailTold
  <2>1. SUFFICES ASSUME Draft!AtRest PROVE told = Cardinality(SentMails)
    BY DraftCountsAlike DEF Draft!EveryMailTold, SentMails
  <2>2. Telling = {} /\ crashes = 0
    BY <2>1 DEF Draft!AtRest, Telling
  <2>3. told + Cardinality({}) = Cardinality(SentMails) /\ told \in Nat
    BY <1>1, <2>2 DEF AllDraftInv, DraftInv, MailsTold, DraftTypes
  <2> QED BY <2>3, FS_EmptySet
<1> QED BY <1>1, AllDraftInvHolds, PTL

\* A follow-up that was closed as retried was mailed by a retry of it.
THEOREM RetriesWereMailed == ASSUME Draft!DraftBounds PROVE Draft!Spec => []Draft!RetriedWasMailed
<1>1. ASSUME AllDraftInv PROVE Draft!RetriedWasMailed
  BY <1>1 DEF AllDraftInv, DraftInv, RetriesMailed, RetryMailed, Draft!RetriedWasMailed
<1> QED BY <1>1, AllDraftInvHolds, PTL

\* Unless a restart or an error of the resumed session cuts its call off, an approved draft
\* was accepted by the provider or has a follow-up.
THEOREM ApprovedIsSeenTo ==
  ASSUME Draft!DraftBounds, ~ResumesRaise
  PROVE  Draft!Spec => []Draft!DeliveredOrFollowed
<1>1. Draft!Init => SeenTo
  BY DEF Draft!Init, SeenTo
<1>2. AllDraftInv /\ SeenTo /\ [Draft!Next]_Draft!vars => SeenTo'
  BY SeenToKept DEF AllDraftInv, DraftInv
<1>3. AllDraftInv /\ SeenTo => Draft!DeliveredOrFollowed
  BY DEF SeenTo, Draft!DeliveredOrFollowed, Draft!AtRest, Following, FollowedUp, Draft!NoRow
<1> QED BY <1>1, <1>2, <1>3, AllDraftInvHolds, PTL DEF Draft!Spec

\* resume_thread_delivery_followup (product/service.py): for one client after the other,
\* through the product alone, a draft has at most one open follow-up, restarts or not.
THEOREM FollowupIsOne ==
  ASSUME Draft!DraftBounds, OneClient
  PROVE  Draft!Init /\ [][Draft!NextProduct]_Draft!vars => []Draft!OneFollowup
<1>1. Draft!Init => AllDraftInv /\ OneOpen
  <2>1. Draft!Init => OneOpen
    BY DEF Draft!Init, OneOpen, Draft!Open, Draft!NoRow, Draft!IdleCall
  <2> QED BY <2>1, AllDraftInvStarts
<1>2. AllDraftInv /\ OneOpen /\ [Draft!NextProduct]_Draft!vars => AllDraftInv' /\ OneOpen'
  <2>1. [Draft!NextProduct]_Draft!vars => [Draft!Next]_Draft!vars
    BY DEF Draft!Next
  <2> QED BY <2>1, DraftInvKept, OneOpenKept DEF AllDraftInv, DraftInv
<1>3. OneOpen => Draft!OneFollowup
  <2>1. SUFFICES ASSUME OneOpen PROVE Cardinality({t \in Task : Draft!Open(t)}) <= 1
    BY DraftCountsAlike DEF Draft!OneFollowup
  <2> DEFINE S == {t \in Task : Draft!Open(t)}
  <2>2. \A t, u \in S : t = u
    BY <2>1 DEF OneOpen
  <2> HIDE DEF S
  <2>3. Cardinality(S) <= 1
    BY <2>2, FewOfOne
  <2> QED BY <2>3 DEF S
<1> QED BY <1>1, <1>2, <1>3, PTL

-----------------------------------------------------------------------------
(* Candidates under review and what they become (CommitmentCandidates), for any      *)
(* number of clients, candidates, items and commitments.                             *)

CONSTANTS
  Candidate, Title, TitleOf, MaxItems, MaxCommitments, MaxResolves, AtOnce,
  NoItem, NoRef, Nothing

VARIABLES cand, item, commitment, request, resolves, accepted, dropped, refused, overtaken

Review == INSTANCE CommitmentCandidates WITH call <- request

\* Where a request is about a candidate, and where it names a commitment.
AboutCandidate ==
  {"stage", "stage_write", "check", "get", "create_item", "review", "merge_read", "merge_write",
   "create", "get_rejected", "review_rejected"}
AboutCommitment == {"merge_read", "merge_write", "resolve_read", "resolve_write"}

RequestKnows(k) ==
  /\ request[k].at \in AboutCandidate => request[k].of \in Candidate
  /\ request[k].at \in AboutCommitment => request[k].ref \in Review!Commitment
  /\ request[k].at = "review" =>
       request[k].item \in Review!Item /\ item[request[k].item] = request[k].of

\* A request that will make a commitment of the candidate, or merge it into one.
Accepting(k, c) == request[k].of = c /\ request[k].at \in {"create", "merge_read", "merge_write"}

Became(c) == \E m \in Review!Commitment : <<c, m>> \in accepted

ReviewInv ==
  /\ Review!TypeOK
  /\ \A k \in Client : RequestKnows(k)
  /\ Review!PromotedHasItem
  /\ \A c \in Candidate \ dropped :
       cand[c].status = "promoted" => Became(c) \/ \E k \in Client : Accepting(k, c)

-----------------------------------------------------------------------------
LEMMA IdleRequest ==
  ASSUME Review!CandidatesAssumption
  PROVE  Review!Idle.at = "idle" /\ Review!Absent \in Review!Rows
         /\ Review!Idle \in [at : Review!Places, of : Candidate \cup {Nothing}, item : Review!Item \cup {NoItem},
                             ref : Review!Commitment \cup {NoRef}, row : Review!Rows]
BY DEF Review!Idle, Review!Absent, Review!Rows, Review!Places

LEMMA ReviewInvStarts == ASSUME Review!CandidatesAssumption, Review!Init PROVE ReviewInv
<1>1. Review!TypeOK
  BY IdleRequest DEF Review!Init, Review!TypeOK, Review!CandidatesAssumption
<1>2. \A k \in Client : RequestKnows(k)
  BY IdleRequest DEF Review!Init, RequestKnows, AboutCandidate, AboutCommitment
<1>3. \A c \in Candidate : cand[c].status # "promoted"
  BY DEF Review!Init
<1> QED BY <1>1, <1>2, <1>3 DEF ReviewInv, Review!PromotedHasItem

Request == [at : Review!Places, of : Candidate \cup {Nothing}, item : Review!Item \cup {NoItem},
            ref : Review!Commitment \cup {NoRef}, row : Review!Rows]

LEMMA RequestPut ==
  ASSUME request \in [Client -> Request], NEW k \in Client, NEW new \in Request,
         request' = [request EXCEPT ![k] = new]
  PROVE  request' \in [Client -> Request] /\ request'[k] = new
         /\ \A j \in Client \ {k} : request'[j] = request[j]
OBVIOUS

LEMMA ReviewTypes ==
  ASSUME Review!TypeOK
  PROVE  /\ request \in [Client -> Request]
         /\ cand \in [Candidate -> [status : {"none", "pending", "promoted", "rejected"},
                                    item : Review!Item \cup {NoItem}, dup : Review!Commitment \cup {NoRef}]]
         /\ item \in [Review!Item -> Candidate \cup {Nothing}]
         /\ commitment \in [Review!Commitment -> Review!Rows]
BY DEF Review!TypeOK, Request

Steps(k) ==
  \/ Review!Arrive(k) \/ Review!Stage(k) \/ Review!StageWrite(k) \/ Review!Check(k) \/ Review!Get(k)
  \/ Review!CreateItem(k) \/ Review!Review(k) \/ Review!Create(k) \/ Review!MergeRead(k)
  \/ Review!MergeWrite(k) \/ Review!GetRejected(k) \/ Review!ReviewRejected(k)
  \/ Review!ResolveRead(k) \/ Review!ResolveWrite(k) \/ Review!Crash(k)

\* What the request of a step looks like after it, and what it needs for that.
LEMMA RequestMoves ==
  ASSUME Review!CandidatesAssumption, ReviewInv, NEW k \in Client, Steps(k)
  PROVE  /\ request' \in [Client -> Request]
         /\ \A j \in Client \ {k} : request'[j] = request[j]
<1>0. request \in [Client -> Request] /\ request[k] \in Request /\ Review!Idle \in Request
  BY IdleRequest, ReviewTypes DEF ReviewInv, Request
<1>p. {"idle", "stage", "stage_write", "check", "get", "create_item", "review", "merge_read", "merge_write",
       "create", "get_rejected", "review_rejected", "resolve_read", "resolve_write"} = Review!Places
  BY DEF Review!Places
<1>1. CASE \/ Review!StageWrite(k) \/ Review!Create(k) \/ Review!MergeWrite(k) \/ Review!ReviewRejected(k)
           \/ Review!ResolveWrite(k) \/ Review!Crash(k)
  BY <1>0, <1>1 DEF Review!StageWrite, Review!Create, Review!MergeWrite, Review!ReviewRejected,
                    Review!ResolveWrite, Review!Crash, Review!Done
<1>2. \A at \in Review!Places : [request[k] EXCEPT !.at = at] \in Request
  BY <1>0 DEF Request
<1>3. CASE Review!Check(k) \/ Review!GetRejected(k)
  BY <1>0, <1>2, <1>p, <1>3 DEF Review!Check, Review!GetRejected, Review!Now, Review!Done
<1>5. CASE Review!Arrive(k)
  <2>1. ASSUME NEW c \in Candidate, NEW place \in {"stage", "check", "get", "get_rejected"}
        PROVE  [Review!Idle EXCEPT !.at = place, !.of = c] \in Request
    BY <1>0, <1>p DEF Request
  <2>2. ASSUME NEW m \in Review!Commitment
        PROVE  [Review!Idle EXCEPT !.at = "resolve_read", !.ref = m] \in Request
    BY <1>0, <1>p DEF Request
  <2>3. PICK new \in Request : request' = [request EXCEPT ![k] = new]
    BY <1>5, <2>1, <2>2 DEF Review!Arrive
  <2> QED BY <1>0, <2>3, RequestPut
<1>6. CASE Review!Stage(k)
  <2>1. PICK d \in Review!Commitment \cup {NoRef} :
          request' = [request EXCEPT ![k] = [request[k] EXCEPT !.at = "stage_write", !.ref = d]]
    BY <1>6 DEF Review!Stage, Review!Duplicates
  <2>2. [request[k] EXCEPT !.at = "stage_write", !.ref = d] \in Request
    BY <1>0, <1>p DEF Request
  <2> QED BY <1>0, <2>1, <2>2, RequestPut
<1>7. CASE Review!Get(k)
  <2>1. CASE Review!Known(request[k].of)
    <3> DEFINE i == cand[request[k].of].item
               new == [request[k] EXCEPT !.at = "review", !.item = i]
    <3>1. request' = [request EXCEPT ![k] = new]
      BY <1>7, <2>1 DEF Review!Get
    <3>2. request[k].of \in Candidate
      BY <1>7 DEF Review!Get, ReviewInv, RequestKnows, AboutCandidate
    <3>3. i \in Review!Item
      BY <2>1, <3>2, ReviewTypes DEF ReviewInv, Review!Known
    <3>4. new \in Request
      <4> HIDE DEF i
      <4> QED BY <1>0, <1>p, <3>3 DEF Request
    <3> QED BY <1>0, <3>1, <3>4, RequestPut
  <2>2. CASE ~Review!Known(request[k].of)
    <3>1. request' = [request EXCEPT ![k] = [request[k] EXCEPT !.at = "create_item"]]
      BY <1>7, <2>2 DEF Review!Get
    <3>2. [request[k] EXCEPT !.at = "create_item"] \in Request
      BY <1>2, <1>p
    <3> QED BY <1>0, <3>1, <3>2, RequestPut
  <2> QED BY <2>1, <2>2
<1>8. CASE Review!CreateItem(k)
  <2>1. PICK i \in Review!Item :
          request' = [request EXCEPT ![k] = [request[k] EXCEPT !.at = "review", !.item = i]]
    BY <1>8 DEF Review!CreateItem
  <2>2. [request[k] EXCEPT !.at = "review", !.item = i] \in Request
    BY <1>0, <1>p DEF Request
  <2> QED BY <1>0, <2>1, <2>2, RequestPut
<1>9. CASE Review!Review(k)
  <2>1. request[k].of \in Candidate
    BY <1>9 DEF Review!Review, ReviewInv, RequestKnows, AboutCandidate
  <2> DEFINE d == cand[request[k].of].dup
  <2>2. d \in Review!Commitment \cup {NoRef}
    BY <2>1, ReviewTypes DEF ReviewInv
  <2>3. PICK new \in Request : request' = [request EXCEPT ![k] = new]
    <3>1. [request[k] EXCEPT !.at = "create"] \in Request
      BY <1>2, <1>p
    <3>2. [request[k] EXCEPT !.at = "merge_read", !.ref = d] \in Request
      <4> HIDE DEF d
      <4> QED BY <1>0, <1>p, <2>2 DEF Request
    <3> QED BY <1>9, <3>1, <3>2 DEF Review!Review, Review!Now
  <2> QED BY <1>0, <2>3, RequestPut
<1>10. CASE Review!MergeRead(k) \/ Review!ResolveRead(k)
  <2>1. request[k].ref \in Review!Commitment
    BY <1>10 DEF Review!MergeRead, Review!ResolveRead, ReviewInv, RequestKnows, AboutCommitment
  <2>2. commitment[request[k].ref] \in Review!Rows
    BY <2>1, ReviewTypes DEF ReviewInv
  <2>3. PICK at \in {"merge_write", "resolve_write"} :
          request' = [request EXCEPT ![k] = [request[k] EXCEPT !.at = at, !.row = commitment[request[k].ref]]]
    BY <1>10 DEF Review!MergeRead, Review!ResolveRead
  <2>4. [request[k] EXCEPT !.at = at, !.row = commitment[request[k].ref]] \in Request
    BY <1>0, <1>p, <2>2 DEF Request
  <2> QED BY <1>0, <2>3, <2>4, RequestPut
<1> QED BY <1>1, <1>3, <1>5, <1>6, <1>7, <1>8, <1>9, <1>10 DEF Steps

LEMMA ReviewTypesKept ==
  ASSUME Review!CandidatesAssumption, ReviewInv, NEW k \in Client, Steps(k)
  PROVE  Review!TypeOK'
<1> DEFINE About == request[k].of
           Named == request[k].ref
<1>0. /\ request \in [Client -> Request] /\ request[k] \in Request
      /\ request' \in [Client -> Request]
      /\ Review!TypeOK
      /\ request[k].at \in AboutCandidate => About \in Candidate
      /\ request[k].at \in AboutCommitment => Named \in Review!Commitment
      /\ request[k].row \in Review!Rows
      /\ request[k].item \in Review!Item \cup {NoItem} /\ Named \in Review!Commitment \cup {NoRef}
      /\ About \in Candidate \cup {Nothing}
  BY ReviewTypes, RequestMoves DEF ReviewInv, RequestKnows, Request
<1>r. request' \in [Client -> [at : Review!Places, of : Candidate \cup {Nothing}, item : Review!Item \cup {NoItem},
                             ref : Review!Commitment \cup {NoRef}, row : Review!Rows]]
  BY <1>0 DEF Request
<1> HIDE DEF About, Named
<1>1. CASE \/ Review!Arrive(k) \/ Review!Stage(k) \/ Review!Check(k) \/ Review!Get(k) \/ Review!MergeRead(k)
           \/ Review!GetRejected(k) \/ Review!ResolveRead(k)
  <2>1. UNCHANGED <<cand, item, commitment, resolves, crashes, accepted, dropped, refused,
                    overtaken>>
    BY <1>1 DEF Review!Arrive, Review!Stage, Review!Check, Review!Get, Review!MergeRead, Review!GetRejected,
                Review!ResolveRead
  <2> QED BY <1>0, <1>r, <2>1 DEF Review!TypeOK
<1>2. CASE Review!StageWrite(k)
  <2>1. About \in Candidate
    BY <1>0, <1>2 DEF Review!StageWrite, AboutCandidate
  <2>2. cand' = [cand EXCEPT ![About] = [status |-> "pending", item |-> NoItem, dup |-> Named]]
    BY <1>2 DEF Review!StageWrite, About, Named
  <2>3. [status |-> "pending", item |-> NoItem, dup |-> Named]
          \in [status : {"none", "pending", "promoted", "rejected"},
              item : Review!Item \cup {NoItem}, dup : Review!Commitment \cup {NoRef}]
    BY <1>0
  <2>4. cand' \in [Candidate -> [status : {"none", "pending", "promoted", "rejected"},
                                 item : Review!Item \cup {NoItem}, dup : Review!Commitment \cup {NoRef}]]
    BY <1>0, <2>1, <2>2, <2>3 DEF Review!TypeOK
  <2> QED BY <1>0, <1>r, <1>2, <2>4 DEF Review!StageWrite, Review!TypeOK
<1>3. CASE Review!CreateItem(k)
  <2>1. About \in Candidate
    BY <1>0, <1>3 DEF Review!CreateItem, AboutCandidate
  <2>2. PICK i \in Review!Item : item' = [item EXCEPT ![i] = About]
    BY <1>3 DEF Review!CreateItem, About
  <2> QED BY <1>0, <1>r, <1>3, <2>1, <2>2 DEF Review!CreateItem, Review!TypeOK
<1>4. CASE Review!Review(k)
  <2>1. About \in Candidate /\ request[k].item \in Review!Item
    BY <1>0, <1>4 DEF Review!Review, AboutCandidate, ReviewInv, RequestKnows
  <2>2. cand' = [cand EXCEPT ![About] = [cand[About] EXCEPT !.status = "promoted", !.item = request[k].item]]
    BY <1>4 DEF Review!Review, Review!Promoted, About
  <2>3. cand' \in [Candidate -> [status : {"none", "pending", "promoted", "rejected"},
                                 item : Review!Item \cup {NoItem}, dup : Review!Commitment \cup {NoRef}]]
    BY <1>0, <2>1, <2>2 DEF Review!TypeOK
  <2> QED BY <1>0, <1>r, <1>4, <2>3 DEF Review!Review, Review!TypeOK
<1>5. CASE Review!Create(k)
  <2>1. About \in Candidate /\ TitleOf[About] \in Title
    BY <1>0, <1>5 DEF Review!Create, AboutCandidate, Review!CandidatesAssumption
  <2>2. PICK m \in Review!Commitment :
          /\ commitment' = [commitment EXCEPT ![m] = [status |-> "open", title |-> TitleOf[About], merged |-> {}]]
          /\ accepted' = accepted \cup {<<About, m>>}
    BY <1>5 DEF Review!Create, About
  <2>3. [status |-> "open", title |-> TitleOf[About], merged |-> {}] \in Review!Rows
    BY <2>1 DEF Review!Rows
  <2>4. commitment' \in [Review!Commitment -> Review!Rows] /\ accepted' \subseteq Candidate \X Review!Commitment
    BY <1>0, <2>1, <2>2, <2>3 DEF Review!TypeOK
  <2> QED BY <1>0, <1>r, <1>5, <2>4 DEF Review!Create, Review!TypeOK
<1>6. CASE Review!MergeWrite(k)
  <2>1. About \in Candidate /\ Named \in Review!Commitment
    BY <1>0, <1>6 DEF Review!MergeWrite, AboutCandidate, AboutCommitment
  <2> DEFINE row == Review!Merged(request[k].row, About)
  <2>2. /\ commitment' = [commitment EXCEPT ![Named] = row]
        /\ accepted' = accepted \cup {<<About, Named>>}
    BY <1>6 DEF Review!MergeWrite, About, Named
  <2>3. row \in Review!Rows
    BY <1>0, <2>1 DEF Review!Rows, Review!Merged
  <2> HIDE DEF row
  <2>4. commitment' \in [Review!Commitment -> Review!Rows] /\ accepted' \subseteq Candidate \X Review!Commitment
    BY <1>0, <2>1, <2>2, <2>3 DEF Review!TypeOK
  <2>5. overtaken' \subseteq Candidate
    BY <1>0, <1>6, <2>1 DEF Review!MergeWrite, Review!TypeOK, About
  <2> QED BY <1>0, <1>r, <1>6, <2>4, <2>5 DEF Review!MergeWrite, Review!TypeOK
<1>7. CASE Review!ReviewRejected(k)
  <2>1. About \in Candidate
    BY <1>0, <1>7 DEF Review!ReviewRejected, AboutCandidate
  <2>2. cand' = [cand EXCEPT ![About] = [cand[About] EXCEPT !.status = "rejected", !.item = NoItem]]
    BY <1>7 DEF Review!ReviewRejected, About
  <2>3. cand' \in [Candidate -> [status : {"none", "pending", "promoted", "rejected"},
                                 item : Review!Item \cup {NoItem}, dup : Review!Commitment \cup {NoRef}]]
    BY <1>0, <2>1, <2>2 DEF Review!TypeOK
  <2>4. refused' \subseteq Candidate
    BY <1>0, <1>7, <2>1 DEF Review!ReviewRejected, Review!TypeOK, About
  <2> QED BY <1>0, <1>r, <1>7, <2>3, <2>4 DEF Review!ReviewRejected, Review!TypeOK
<1>8. CASE Review!ResolveWrite(k)
  <2>1. Named \in Review!Commitment
    BY <1>0, <1>8 DEF Review!ResolveWrite, AboutCommitment
  <2>2. PICK status \in {"open", "completed"} :
          commitment' = [commitment EXCEPT ![Named] = [request[k].row EXCEPT !.status = status]]
    BY <1>8 DEF Review!ResolveWrite, Named
  <2>3. [request[k].row EXCEPT !.status = status] \in Review!Rows
    BY <1>0 DEF Review!Rows
  <2>4. commitment' \in [Review!Commitment -> Review!Rows]
    <3> DEFINE row == [request[k].row EXCEPT !.status = status]
    <3> HIDE DEF row
    <3> QED BY <1>0, <2>1, <2>2, <2>3 DEF Review!TypeOK, row
  <2>5. resolves' \in Nat
    BY <1>0, <1>8 DEF Review!TypeOK, Review!ResolveWrite
  <2> QED BY <1>0, <1>r, <1>8, <2>4, <2>5 DEF Review!ResolveWrite, Review!TypeOK
<1>9. CASE Review!Crash(k)
  <2>1. crashes' \in 0..MaxCrashes
    BY <1>0, <1>9 DEF Review!Crash, Review!TypeOK, Review!CandidatesAssumption
  <2>2. dropped' \subseteq Candidate \cup {Nothing}
    BY <1>0, <1>9 DEF Review!Crash, Review!TypeOK, About
  <2> QED BY <1>0, <1>r, <1>9, <2>1, <2>2 DEF Review!Crash, Review!TypeOK
<1> QED BY <1>1, <1>2, <1>3, <1>4, <1>5, <1>6, <1>7, <1>8, <1>9 DEF Steps

LEMMA DoneIsIdle ==
  ASSUME Review!TypeOK, NEW k \in Client
  PROVE  /\ Review!Done(k) => request'[k] = Review!Idle /\ request'[k].at = "idle"
         /\ \A place : Review!Now(k, place) =>
              /\ request'[k].at = place
              /\ request'[k].of = request[k].of /\ request'[k].ref = request[k].ref
              /\ request'[k].item = request[k].item /\ request'[k].row = request[k].row
BY ReviewTypes DEF Review!Done, Review!Now, Review!Idle, Request

\* The one step that makes an item makes it under an id that nobody has.
LEMMA ItemsStay ==
  ASSUME ReviewInv, NEW k \in Client, Steps(k), NEW i \in Review!Item, item[i] # Nothing
  PROVE  item'[i] = item[i]
<1>1. CASE Review!CreateItem(k)
  BY <1>1, ReviewTypes DEF ReviewInv, Review!CreateItem, Review!Fresh, Review!Unmade
<1>2. CASE ~Review!CreateItem(k)
  BY <1>2 DEF Steps, Review!Arrive, Review!Stage, Review!StageWrite, Review!Check, Review!Get, Review!Review,
     Review!Create, Review!MergeRead, Review!MergeWrite, Review!GetRejected, Review!ReviewRejected,
     Review!ResolveRead, Review!ResolveWrite, Review!Crash
<1> QED BY <1>1, <1>2

LEMMA KnowsAfter ==
  ASSUME Review!CandidatesAssumption, ReviewInv, NEW k \in Client, Steps(k)
  PROVE  RequestKnows(k)'
<1>0. /\ request \in [Client -> Request] /\ request[k] \in Request /\ RequestKnows(k) /\ Review!TypeOK
      /\ item \in [Review!Item -> Candidate \cup {Nothing}]
  BY ReviewTypes DEF ReviewInv
<1> USE DEF RequestKnows, AboutCandidate, AboutCommitment
<1>1. CASE \/ Review!StageWrite(k) \/ Review!Create(k) \/ Review!MergeWrite(k) \/ Review!ReviewRejected(k)
           \/ Review!ResolveWrite(k) \/ Review!Crash(k)
  BY <1>0, <1>1, DoneIsIdle DEF Review!StageWrite, Review!Create, Review!MergeWrite, Review!ReviewRejected,
                    Review!ResolveWrite, Review!Crash
<1>2. CASE Review!Arrive(k)
  <2>1. ASSUME NEW c \in Candidate, NEW place \in {"stage", "check", "get", "get_rejected"},
               request' = [request EXCEPT ![k] = [Review!Idle EXCEPT !.at = place, !.of = c]]
        PROVE  request'[k].at = place /\ request'[k].of = c
    BY <1>0, <2>1 DEF Review!Idle
  <2>2. ASSUME NEW m \in Review!Commitment,
               request' = [request EXCEPT ![k] = [Review!Idle EXCEPT !.at = "resolve_read", !.ref = m]]
        PROVE  request'[k].at = "resolve_read" /\ request'[k].ref = m
    BY <1>0, <2>2 DEF Review!Idle
  <2> QED BY <1>2, <2>1, <2>2 DEF Review!Arrive
<1>3. CASE Review!Stage(k)
  <2>1. request'[k].at = "stage_write" /\ request'[k].of = request[k].of /\ request[k].at = "stage"
    BY <1>0, <1>3 DEF Review!Stage, Request
  <2> QED BY <1>0, <2>1
<1>4. CASE Review!Check(k) \/ Review!GetRejected(k)
  BY <1>0, <1>4, DoneIsIdle DEF Review!Check, Review!GetRejected
<1>5. CASE Review!Get(k)
  <2>1. request[k].of \in Candidate /\ UNCHANGED item
    BY <1>0, <1>5 DEF Review!Get
  <2>2. CASE Review!Known(request[k].of)
    <3>1. request'[k].at = "review" /\ request'[k].of = request[k].of
          /\ request'[k].item = cand[request[k].of].item
      BY <1>0, <1>5, <2>2 DEF Review!Get, Request
    <3>2. cand[request[k].of].status = "promoted"
      BY <2>2 DEF Review!Known
    <3>3. cand[request[k].of].item \in Review!Item /\ item[cand[request[k].of].item] = request[k].of
      BY <2>1, <3>2, ReviewTypes DEF ReviewInv, Review!PromotedHasItem
    <3> QED BY <2>1, <3>1, <3>3
  <2>3. CASE ~Review!Known(request[k].of)
    <3>1. request'[k].at = "create_item" /\ request'[k].of = request[k].of
      BY <1>0, <1>5, <2>3 DEF Review!Get, Request
    <3> QED BY <2>1, <3>1
  <2> QED BY <2>2, <2>3
<1>6. CASE Review!CreateItem(k)
  <2>1. request[k].of \in Candidate
    BY <1>0, <1>6 DEF Review!CreateItem
  <2>2. PICK i \in Review!Item : /\ item' = [item EXCEPT ![i] = request[k].of]
                                 /\ request' = [request EXCEPT ![k].at = "review", ![k].item = i]
    BY <1>6 DEF Review!CreateItem
  <2>3. request'[k].at = "review" /\ request'[k].item = i /\ request'[k].of = request[k].of
    BY <1>0, <2>2 DEF Request
  <2>4. item'[i] = request[k].of
    BY <1>0, <2>2
  <2> QED BY <2>1, <2>3, <2>4
<1>7. CASE Review!Review(k)
  <2>1. request[k].of \in Candidate /\ cand[request[k].of].dup \in Review!Commitment \cup {NoRef}
    BY <1>0, <1>7, ReviewTypes DEF Review!Review
  <2>2. CASE cand[request[k].of].dup = NoRef
    BY <1>0, <1>7, <2>1, <2>2, DoneIsIdle DEF Review!Review
  <2>3. CASE cand[request[k].of].dup # NoRef
    <3>1. request'[k].at = "merge_read" /\ request'[k].ref = cand[request[k].of].dup
          /\ request'[k].of = request[k].of
      BY <1>0, <1>7, <2>3 DEF Review!Review, Request
    <3> QED BY <2>1, <2>3, <3>1
  <2> QED BY <2>2, <2>3
<1>8. CASE Review!MergeRead(k) \/ Review!ResolveRead(k)
  <2>1. /\ request'[k].of = request[k].of /\ request'[k].ref = request[k].ref
        /\ \/ request[k].at = "merge_read" /\ request'[k].at = "merge_write"
           \/ request[k].at = "resolve_read" /\ request'[k].at = "resolve_write"
    BY <1>0, <1>8 DEF Review!MergeRead, Review!ResolveRead, Request
  <2> QED BY <1>0, <2>1
<1> QED BY <1>1, <1>2, <1>3, <1>4, <1>5, <1>6, <1>7, <1>8 DEF Steps

LEMMA AllKnow ==
  ASSUME Review!CandidatesAssumption, ReviewInv, NEW k \in Client, Steps(k), NEW j \in Client
  PROVE  RequestKnows(j)'
<1>1. CASE j = k
  BY <1>1, KnowsAfter
<1>2. CASE j # k
  <2>1. request'[j] = request[j] /\ RequestKnows(j)
    BY <1>2, RequestMoves DEF ReviewInv
  <2>2. ASSUME request[j].at = "review" PROVE item'[request[j].item] = item[request[j].item]
    <3>1. request[j].item \in Review!Item /\ item[request[j].item] # Nothing
      BY <2>1, <2>2 DEF RequestKnows, AboutCandidate, Review!CandidatesAssumption
    <3> QED BY <3>1, ItemsStay
  <2> QED BY <2>1, <2>2 DEF RequestKnows
<1> QED BY <1>1, <1>2

\* What a step does to the status of candidates.
LEMMA Statuses ==
  ASSUME Review!CandidatesAssumption, ReviewInv, NEW k \in Client, Steps(k), NEW c \in Candidate
  PROVE  \/ cand'[c] = cand[c]
         \/ Review!StageWrite(k) /\ request[k].of = c /\ cand'[c].status = "pending"
            /\ cand'[c].dup = request[k].ref
         \/ /\ Review!Review(k) /\ request[k].of = c
            /\ cand'[c].status = "promoted" /\ cand'[c].item = request[k].item /\ cand'[c].dup = cand[c].dup
         \/ /\ Review!ReviewRejected(k) /\ request[k].of = c
            /\ cand'[c].status = "rejected" /\ cand'[c].dup = cand[c].dup
<1>0. cand \in [Candidate -> [status : {"none", "pending", "promoted", "rejected"},
                            item : Review!Item \cup {NoItem}, dup : Review!Commitment \cup {NoRef}]]
  BY ReviewTypes DEF ReviewInv
<1>1. CASE Review!StageWrite(k)
  BY <1>0, <1>1 DEF Review!StageWrite
<1>2. CASE Review!Review(k)
  BY <1>0, <1>2 DEF Review!Review, Review!Promoted
<1>3. CASE Review!ReviewRejected(k)
  BY <1>0, <1>3 DEF Review!ReviewRejected
<1>4. CASE ~(Review!StageWrite(k) \/ Review!Review(k) \/ Review!ReviewRejected(k))
  BY <1>4 DEF Steps, Review!Arrive, Review!Stage, Review!Check, Review!Get, Review!CreateItem,
     Review!Create, Review!MergeRead, Review!MergeWrite, Review!GetRejected,
     Review!ResolveRead, Review!ResolveWrite, Review!Crash
<1> QED BY <1>1, <1>2, <1>3, <1>4

LEMMA PromotedKept ==
  ASSUME Review!CandidatesAssumption, ReviewInv, NEW k \in Client, Steps(k)
  PROVE  Review!PromotedHasItem'
<1>1. SUFFICES ASSUME NEW c \in Candidate, cand'[c].status = "promoted"
               PROVE  cand'[c].item # NoItem /\ item'[cand'[c].item] = c
  BY DEF Review!PromotedHasItem
<1>2. CASE cand'[c] = cand[c]
  <2>1. cand[c].item \in Review!Item /\ item[cand[c].item] = c /\ cand[c].item # NoItem
    BY <1>1, <1>2, ReviewTypes DEF ReviewInv, Review!PromotedHasItem
  <2> QED BY <1>2, <2>1, ItemsStay DEF Review!CandidatesAssumption
<1>3. CASE Review!Review(k) /\ request[k].of = c /\ cand'[c].item = request[k].item
  <2>1. request[k].item \in Review!Item /\ item[request[k].item] = c
    BY <1>3 DEF ReviewInv, RequestKnows, Review!Review
  <2> QED BY <1>3, <2>1, ItemsStay DEF Review!CandidatesAssumption
<1> QED BY <1>1, <1>2, <1>3, Statuses

\* A request goes on until what it accepts became a commitment, or dies.
LEMMA AcceptingGoesOn ==
  ASSUME Review!CandidatesAssumption, ReviewInv, NEW k \in Client, Steps(k), NEW c \in Candidate, Accepting(k, c)
  PROVE  c \in dropped' \/ Became(c)' \/ Accepting(k, c)'
<1>0. request \in [Client -> Request] /\ request[k] \in Request /\ RequestKnows(k)
  BY ReviewTypes DEF ReviewInv
<1>1. CASE Review!Create(k)
  BY <1>1 DEF Review!Create, Became, Accepting
<1>2. CASE Review!MergeRead(k)
  <2>1. request'[k].at = "merge_write" /\ request'[k].of = request[k].of
    BY <1>0, <1>2 DEF Review!MergeRead, Request
  <2> QED BY <2>1 DEF Accepting
<1>3. CASE Review!MergeWrite(k)
  <2>1. request[k].ref \in Review!Commitment
    BY <1>0, <1>3 DEF Review!MergeWrite, RequestKnows, AboutCommitment
  <2>2. <<c, request[k].ref>> \in accepted'
    BY <1>3 DEF Review!MergeWrite, Accepting
  <2> QED BY <2>1, <2>2 DEF Became
<1>4. CASE Review!Crash(k)
  BY <1>4 DEF Review!Crash, Accepting
<1>5. ~(\/ Review!Arrive(k) \/ Review!Stage(k) \/ Review!StageWrite(k) \/ Review!Check(k) \/ Review!Get(k)
        \/ Review!CreateItem(k) \/ Review!Review(k) \/ Review!GetRejected(k)
        \/ Review!ReviewRejected(k) \/ Review!ResolveRead(k) \/ Review!ResolveWrite(k))
  BY IdleRequest DEF Accepting, Review!Arrive, Review!Stage, Review!StageWrite, Review!Check, Review!Get, Review!CreateItem,
     Review!Review, Review!GetRejected, Review!ReviewRejected, Review!ResolveRead, Review!ResolveWrite
<1> QED BY <1>1, <1>2, <1>3, <1>4, <1>5 DEF Steps

LEMMA HistoriesGrow ==
  ASSUME NEW k \in Client, Steps(k)
  PROVE  /\ accepted \subseteq accepted' /\ dropped \subseteq dropped' /\ refused \subseteq refused'
         /\ overtaken \subseteq overtaken'
BY DEF Steps, Review!Arrive, Review!Stage, Review!StageWrite, Review!Check, Review!Get, Review!CreateItem,
   Review!Review, Review!Create, Review!MergeRead, Review!MergeWrite, Review!GetRejected, Review!ReviewRejected,
   Review!ResolveRead, Review!ResolveWrite, Review!Crash

LEMMA AcceptedKept ==
  ASSUME Review!CandidatesAssumption, ReviewInv, NEW k \in Client, Steps(k),
         NEW c \in Candidate \ dropped', cand'[c].status = "promoted"
  PROVE  Became(c)' \/ \E j \in Client : Accepting(j, c)'
<1>0. c \in Candidate \ dropped /\ accepted \subseteq accepted' /\ request \in [Client -> Request]
  BY HistoriesGrow, ReviewTypes DEF ReviewInv
<1>1. CASE cand'[c] = cand[c]
  <2>1. CASE Became(c)
    BY <1>0, <2>1 DEF Became
  <2>2. ASSUME NEW j \in Client, Accepting(j, c) PROVE Became(c)' \/ Accepting(j, c)'
    <3>1. CASE j = k
      BY <1>0, <2>2, <3>1, AcceptingGoesOn
    <3>2. CASE j # k
      BY <2>2, <3>2, RequestMoves DEF Accepting
    <3> QED BY <3>1, <3>2
  <2> QED BY <1>0, <1>1, <2>1, <2>2 DEF ReviewInv
<1>2. CASE Review!Review(k) /\ request[k].of = c
  <2>1. request'[k].of = c /\ request'[k].at \in {"create", "merge_read"}
    <3>1. CASE cand[c].dup = NoRef
      BY <1>2, <3>1, DoneIsIdle DEF Review!Review, ReviewInv
    <3>2. CASE cand[c].dup # NoRef
      BY <1>0, <1>2, <3>2 DEF Review!Review, Request
    <3> QED BY <3>1, <3>2
  <2> QED BY <2>1 DEF Accepting
<1> QED BY <1>0, <1>1, <1>2, Statuses

LEMMA ReviewInvKept ==
  ASSUME Review!CandidatesAssumption, ReviewInv, [Review!Next]_Review!vars
  PROVE  ReviewInv'
<1>1. CASE UNCHANGED Review!vars
  BY <1>1 DEF Review!vars, ReviewInv, Review!TypeOK, RequestKnows, Review!PromotedHasItem, Became, Accepting
<1>2. ASSUME NEW k \in Client, Steps(k) PROVE ReviewInv'
  BY <1>2, ReviewTypesKept, AllKnow, PromotedKept, AcceptedKept DEF ReviewInv
<1> QED BY <1>1, <1>2 DEF Review!Next, Steps

LEMMA ReviewInvHolds == ASSUME Review!CandidatesAssumption PROVE Review!Spec => []ReviewInv
<1> QED BY ReviewInvStarts, ReviewInvKept, PTL DEF Review!Spec

\* Candidates, items, commitments and the requests about them keep their types.
THEOREM CandidatesTypeCorrect == ASSUME Review!CandidatesAssumption PROVE Review!Spec => []Review!TypeOK
<1>1. ReviewInv => Review!TypeOK
  BY DEF ReviewInv
<1> QED BY <1>1, ReviewInvHolds, PTL

\* promote_candidate (memory_runtime.py): a promoted candidate names a memory item that
\* names it, whoever reviews, rejects or dies meanwhile.
THEOREM PromotedNamesItem == ASSUME Review!CandidatesAssumption PROVE Review!Spec => []Review!PromotedHasItem
<1>1. ReviewInv => Review!PromotedHasItem
  BY DEF ReviewInv
<1> QED BY <1>1, ReviewInvHolds, PTL

\* accept_commitment_candidate (product/service.py): what is accepted becomes a commitment
\* or is merged into one, unless its request died on the way.
THEOREM AcceptedBecomes == ASSUME Review!CandidatesAssumption PROVE Review!Spec => []Review!AcceptedIsCommitment
<1>1. ReviewInv => Review!AcceptedIsCommitment
  BY DEF ReviewInv, Review!AcceptedIsCommitment, Became, Accepting
<1> QED BY <1>1, ReviewInvHolds, PTL

-----------------------------------------------------------------------------
(* What was merged is remembered, for any number of requests at once: whoever will write  *)
(* a commitment back knows what was merged into it, but for what was merged since.        *)

Staging == {"stage", "stage_write"}
Writing == {"merge_write", "resolve_write"}

\* What there is while a request is at a place, whoever else works on its candidate.
Found(k) ==
  LET c == request[k].of
  IN /\ request[k].at \in Staging => cand[c].status = "none"
     /\ request[k].at \in AboutCandidate \ Staging => cand[c].status # "none"
     /\ request[k].at = "create" => cand[c].dup = NoRef

StagedOnce ==
  \A j, k \in Client :
    request[j].at \in Staging /\ request[k].at \in Staging /\ request[j].of = request[k].of => j = k

NewHasNone ==
  \A c \in Candidate, m \in Review!Commitment : cand[c].status = "none" => <<c, m>> \notin accepted

RowKnows(k) ==
  request[k].at \in Writing =>
    \A c \in Candidate \ overtaken :
      <<c, request[k].ref>> \in accepted /\ cand[c].dup = request[k].ref => c \in request[k].row.merged

MergeInv ==
  /\ \A k \in Client : Found(k)
  /\ StagedOnce
  /\ NewHasNone
  /\ Review!MergedRemembered
  /\ \A k \in Client : RowKnows(k)

LEMMA MergeInvStarts == ASSUME Review!CandidatesAssumption, Review!Init PROVE MergeInv
<1>1. \A k \in Client : request[k].at = "idle"
  BY IdleRequest DEF Review!Init
<1>2. accepted = {}
  BY DEF Review!Init
<1> QED
  BY <1>1, <1>2 DEF MergeInv, Found, StagedOnce, NewHasNone, RowKnows, Review!MergedRemembered,
     Staging, Writing, AboutCandidate

\* The candidate of a request stays, as far as that request goes, what it found.
LEMMA FoundByOthers ==
  ASSUME Review!CandidatesAssumption, ReviewInv, MergeInv, NEW k \in Client, Steps(k),
         NEW j \in Client \ {k}
  PROVE  Found(j)'
<1>1. request'[j] = request[j] /\ Found(j) /\ Found(k) /\ RequestKnows(j)
  BY RequestMoves DEF ReviewInv, MergeInv
<1>2. CASE request[j].at \in AboutCandidate
  <2> DEFINE c == request[j].of
  <2>1. c \in Candidate
    BY <1>1, <1>2 DEF RequestKnows
  <2>2. CASE cand'[c] = cand[c]
    BY <1>1, <2>2 DEF Found
  <2>3. ~(Review!StageWrite(k) /\ request[k].of = c)
    BY <1>1, <1>2 DEF Review!StageWrite, Found, Staging, StagedOnce, MergeInv
  <2>4. CASE cand'[c] # cand[c]
    <3>1. request[k].of = c /\ request[k].at \in {"review", "review_rejected"}
          /\ cand'[c].status # "none" /\ cand'[c].dup = cand[c].dup
      BY <2>1, <2>3, <2>4, Statuses DEF Review!Review, Review!ReviewRejected
    <3>2. cand[c].status # "none"
      BY <1>1, <3>1 DEF Found, AboutCandidate, Staging
    <3> QED BY <1>1, <3>1, <3>2 DEF Found
  <2> QED BY <2>2, <2>4
<1>3. CASE request[j].at \notin AboutCandidate
  BY <1>1, <1>3 DEF Found, Staging, AboutCandidate
<1> QED BY <1>2, <1>3

LEMMA FoundAfter ==
  ASSUME Review!CandidatesAssumption, ReviewInv, MergeInv, NEW k \in Client, Steps(k)
  PROVE  Found(k)'
<1>0. /\ request \in [Client -> Request] /\ request[k] \in Request /\ RequestKnows(k) /\ Review!TypeOK
      /\ cand \in [Candidate -> [status : {"none", "pending", "promoted", "rejected"},
                                 item : Review!Item \cup {NoItem}, dup : Review!Commitment \cup {NoRef}]]
      /\ Found(k)
  BY ReviewTypes DEF ReviewInv, MergeInv
<1> USE DEF Found, AboutCandidate, Staging
<1>1. CASE \/ Review!StageWrite(k) \/ Review!Create(k) \/ Review!MergeWrite(k) \/ Review!ReviewRejected(k)
           \/ Review!ResolveWrite(k) \/ Review!Crash(k)
  <2>1. request'[k].at = "idle"
    BY <1>0, <1>1, DoneIsIdle DEF Review!StageWrite, Review!Create, Review!MergeWrite, Review!ReviewRejected,
                    Review!ResolveWrite, Review!Crash
  <2> QED BY <2>1
<1>2. CASE Review!Arrive(k)
  <2>1. ASSUME NEW c \in Candidate, NEW place \in {"stage", "check", "get", "get_rejected"},
               request' = [request EXCEPT ![k] = [Review!Idle EXCEPT !.at = place, !.of = c]]
        PROVE  request'[k].at = place /\ request'[k].of = c
    BY <1>0, <2>1 DEF Review!Idle
  <2>2. ASSUME NEW m \in Review!Commitment,
               request' = [request EXCEPT ![k] = [Review!Idle EXCEPT !.at = "resolve_read", !.ref = m]]
        PROVE  request'[k].at = "resolve_read"
    BY <1>0, <2>2 DEF Review!Idle
  <2> QED BY <1>2, <2>1, <2>2 DEF Review!Arrive
<1>3. CASE Review!Stage(k)
  <2>1. request'[k].at = "stage_write" /\ request'[k].of = request[k].of /\ request[k].at = "stage"
        /\ UNCHANGED cand
    BY <1>0, <1>3 DEF Review!Stage, Request
  <2> QED BY <1>0, <2>1
<1>4. CASE Review!Check(k) \/ Review!GetRejected(k)
  <2>1. UNCHANGED cand /\ \/ request'[k].at = "idle"
                          \/ /\ request'[k].at \in {"get", "review_rejected"}
                             /\ request'[k].of = request[k].of /\ request[k].at \in {"check", "get_rejected"}
    BY <1>0, <1>4, DoneIsIdle DEF Review!Check, Review!GetRejected
  <2> QED BY <1>0, <2>1
<1>5. CASE Review!Get(k) \/ Review!CreateItem(k)
  <2>1. request'[k].of = request[k].of /\ request'[k].at \in {"review", "create_item"}
        /\ request[k].at \in {"get", "create_item"} /\ UNCHANGED cand
    <3>1. CASE Review!Get(k) /\ Review!Known(request[k].of)
      BY <1>0, <3>1 DEF Review!Get, Request
    <3>2. CASE Review!Get(k) /\ ~Review!Known(request[k].of)
      BY <1>0, <3>2 DEF Review!Get, Request
    <3>3. CASE Review!CreateItem(k)
      BY <1>0, <3>3 DEF Review!CreateItem, Request
    <3> QED BY <1>5, <3>1, <3>2, <3>3
  <2> QED BY <1>0, <2>1
<1>6. CASE Review!Review(k)
  <2>1. request[k].of \in Candidate
    BY <1>0, <1>6 DEF Review!Review, RequestKnows
  <2>2. cand'[request[k].of].status = "promoted" /\ cand'[request[k].of].dup = cand[request[k].of].dup
    BY <1>0, <1>6, <2>1 DEF Review!Review, Review!Promoted
  <2>3. CASE cand[request[k].of].dup = NoRef
    BY <1>0, <1>6, <2>2, <2>3, DoneIsIdle DEF Review!Review
  <2>4. CASE cand[request[k].of].dup # NoRef
    <3>1. request'[k].at = "merge_read" /\ request'[k].of = request[k].of
      BY <1>0, <1>6, <2>4 DEF Review!Review, Request
    <3> QED BY <2>2, <3>1
  <2> QED BY <2>3, <2>4
<1>7. CASE Review!MergeRead(k) \/ Review!ResolveRead(k)
  <2>1. /\ request'[k].of = request[k].of /\ UNCHANGED cand
        /\ \/ request[k].at = "merge_read" /\ request'[k].at = "merge_write"
           \/ request[k].at = "resolve_read" /\ request'[k].at = "resolve_write"
    BY <1>0, <1>7 DEF Review!MergeRead, Review!ResolveRead, Request
  <2> QED BY <1>0, <2>1
<1> QED BY <1>1, <1>2, <1>3, <1>4, <1>5, <1>6, <1>7 DEF Steps

\* Who arrives to stage a candidate finds nobody else at it.
LEMMA StagedOnceAfter ==
  ASSUME Review!CandidatesAssumption, ReviewInv, MergeInv, NEW k \in Client, Steps(k)
  PROVE  StagedOnce'
<1>1. SUFFICES ASSUME NEW j \in Client \ {k}, request'[j].at \in Staging, request'[k].at \in Staging,
                      request'[j].of = request'[k].of
               PROVE  FALSE
  <2>1. \A i \in Client \ {k} : request'[i] = request[i]
    BY RequestMoves
  <2>2. ASSUME \A j \in Client \ {k} : ~(/\ request'[j].at \in Staging /\ request'[k].at \in Staging
                                          /\ request'[j].of = request'[k].of)
        PROVE  StagedOnce'
    BY <2>1, <2>2 DEF MergeInv, StagedOnce
  <2> QED BY <2>2
<1>2. request \in [Client -> Request] /\ request[k] \in Request /\ request'[j] = request[j]
      /\ Review!TypeOK /\ StagedOnce
  BY RequestMoves, ReviewTypes DEF ReviewInv, MergeInv
<1>3. CASE Review!Arrive(k)
  <2>1. PICK c \in Candidate, place \in {"stage", "check", "get", "get_rejected"} :
          /\ place = "stage" => \A i \in Client : request[i].of # c
          /\ request' = [request EXCEPT ![k] = [Review!Idle EXCEPT !.at = place, !.of = c]]
    <3>1. ASSUME NEW m \in Review!Commitment,
                 request' = [request EXCEPT ![k] = [Review!Idle EXCEPT !.at = "resolve_read", !.ref = m]]
          PROVE  FALSE
      BY <1>1, <1>2, <3>1 DEF Review!Idle, Staging
    <3> QED BY <1>3, <3>1 DEF Review!Arrive
  <2>2. request'[k].at = place /\ request'[k].of = c
    BY <1>2, <2>1 DEF Review!Idle
  <2> QED BY <1>1, <1>2, <2>1, <2>2 DEF Staging
<1>4. CASE Review!Stage(k)
  <2>1. request'[k].of = request[k].of /\ request[k].at = "stage"
    BY <1>2, <1>4 DEF Review!Stage, Request
  <2> QED BY <1>1, <1>2, <2>1 DEF StagedOnce, Staging
<1>5. CASE ~(Review!Arrive(k) \/ Review!Stage(k))
  <2>1. request'[k].at \notin Staging
    <3>1. CASE \/ Review!StageWrite(k) \/ Review!Create(k) \/ Review!MergeWrite(k) \/ Review!ReviewRejected(k)
               \/ Review!ResolveWrite(k) \/ Review!Crash(k) \/ Review!Check(k) \/ Review!GetRejected(k)
      BY <1>2, <3>1, DoneIsIdle DEF Review!StageWrite, Review!Create, Review!MergeWrite,
         Review!ReviewRejected, Review!ResolveWrite, Review!Crash, Review!Check, Review!GetRejected, Staging
    <3>2. CASE Review!Review(k) /\ cand[request[k].of].dup = NoRef
      BY <1>2, <3>2, DoneIsIdle DEF Review!Review, Staging
    <3>3. CASE Review!Review(k) /\ cand[request[k].of].dup # NoRef
      BY <1>2, <3>3 DEF Review!Review, Request, Staging
    <3>4. CASE Review!Get(k) /\ Review!Known(request[k].of)
      BY <1>2, <3>4 DEF Review!Get, Request, Staging
    <3>5. CASE Review!Get(k) /\ ~Review!Known(request[k].of)
      BY <1>2, <3>5 DEF Review!Get, Request, Staging
    <3>6. CASE Review!CreateItem(k)
      BY <1>2, <3>6 DEF Review!CreateItem, Request, Staging
    <3>7. CASE Review!MergeRead(k) \/ Review!ResolveRead(k)
      BY <1>2, <3>7 DEF Review!MergeRead, Review!ResolveRead, Request, Staging
    <3> QED BY <1>5, <3>1, <3>2, <3>3, <3>4, <3>5, <3>6, <3>7 DEF Steps
  <2> QED BY <1>1, <2>1
<1> QED BY <1>3, <1>4, <1>5

LEMMA NewHasNoneAfter ==
  ASSUME Review!CandidatesAssumption, ReviewInv, MergeInv, NEW k \in Client, Steps(k)
  PROVE  NewHasNone'
<1> SUFFICES ASSUME NEW c \in Candidate, NEW m \in Review!Commitment, cand'[c].status = "none"
             PROVE  <<c, m>> \notin accepted'
  BY DEF NewHasNone
<1>0. RequestKnows(k) /\ Found(k)
  BY DEF ReviewInv, MergeInv
<1>1. cand'[c] = cand[c]
  BY Statuses
<1>2. <<c, m>> \notin accepted
  BY <1>1 DEF MergeInv, NewHasNone
<1>3. CASE Review!Create(k) \/ Review!MergeWrite(k)
  <2>1. request[k].of # c
    BY <1>0, <1>1, <1>3 DEF Found, AboutCandidate, Staging, Review!Create, Review!MergeWrite
  <2> QED BY <1>2, <1>3, <2>1 DEF Review!Create, Review!MergeWrite
<1>4. CASE ~(Review!Create(k) \/ Review!MergeWrite(k))
  BY <1>2, <1>4 DEF Steps, Review!Arrive, Review!Stage, Review!StageWrite, Review!Check, Review!Get, Review!CreateItem,
     Review!Review, Review!MergeRead, Review!GetRejected, Review!ReviewRejected,
     Review!ResolveRead, Review!ResolveWrite, Review!Crash
<1> QED BY <1>3, <1>4

\* A pair that is old names the same duplicate as before: a candidate that is staged now
\* had none.
LEMMA OldPairs ==
  ASSUME Review!CandidatesAssumption, ReviewInv, MergeInv, NEW k \in Client, Steps(k),
         NEW c \in Candidate, NEW m \in Review!Commitment, <<c, m>> \in accepted
  PROVE  cand'[c].dup = cand[c].dup
<1>1. ~(Review!StageWrite(k) /\ request[k].of = c)
  BY DEF MergeInv, NewHasNone, Found, Staging, Review!StageWrite
<1> QED BY <1>1, Statuses

\* What a step adds to the pairs that count: the merge of a candidate that nobody else's
\* write will undo.
LEMMA NewPairs ==
  ASSUME Review!CandidatesAssumption, ReviewInv, MergeInv, NEW k \in Client, Steps(k),
         NEW c \in Candidate \ overtaken', NEW m \in Review!Commitment,
         <<c, m>> \in accepted', cand'[c].dup = m, <<c, m>> \notin accepted
  PROVE  /\ Review!MergeWrite(k) /\ request[k].of = c /\ request[k].ref = m
         /\ \A j \in Client \ {k} : ~(request[j].at \in Writing /\ request[j].ref = m)
<1>0. RequestKnows(k) /\ Found(k)
  BY DEF ReviewInv, MergeInv
<1>1. CASE Review!Create(k)
  <2>1. request[k].of = c /\ request[k].at = "create"
    BY <1>1 DEF Review!Create
  <2>2. cand'[c].dup = NoRef
    BY <1>0, <1>1, <2>1 DEF Review!Create, Found
  <2> QED BY <2>2 DEF Review!CandidatesAssumption
<1>2. CASE Review!MergeWrite(k)
  <2>1. request[k].of = c /\ request[k].ref = m
    BY <1>2 DEF Review!MergeWrite
  <2>2. Review!Writers(m, k) = {}
    BY <1>2, <2>1 DEF Review!MergeWrite
  <2> QED BY <1>2, <2>1, <2>2 DEF Review!Writers, Writing
<1>3. CASE ~(Review!Create(k) \/ Review!MergeWrite(k))
  BY <1>3 DEF Steps, Review!Arrive, Review!Stage, Review!StageWrite, Review!Check, Review!Get, Review!CreateItem,
     Review!Review, Review!MergeRead, Review!GetRejected, Review!ReviewRejected,
     Review!ResolveRead, Review!ResolveWrite, Review!Crash
<1> QED BY <1>1, <1>2, <1>3

\* No step takes away a candidate that is remembered and counts.
LEMMA MergedKept ==
  ASSUME Review!CandidatesAssumption, ReviewInv, MergeInv, NEW k \in Client, Steps(k)
  PROVE  Review!MergedRemembered'
<1>1. SUFFICES ASSUME NEW c \in Candidate \ overtaken', NEW m \in Review!Commitment,
                      <<c, m>> \in accepted', cand'[c].dup = m
               PROVE  c \in commitment'[m].merged
  BY DEF Review!MergedRemembered
<1>0. /\ request \in [Client -> Request] /\ request[k] \in Request /\ RequestKnows(k) /\ RowKnows(k)
      /\ commitment \in [Review!Commitment -> Review!Rows] /\ c \in Candidate \ overtaken
  BY ReviewTypes, HistoriesGrow DEF ReviewInv, MergeInv
<1>2. ASSUME <<c, m>> \in accepted PROVE cand[c].dup = m /\ c \in commitment[m].merged
  <2>1. cand[c].dup = m
    BY <1>1, <1>2, OldPairs
  <2> QED BY <1>0, <1>2, <2>1 DEF MergeInv, Review!MergedRemembered
<1>3. CASE <<c, m>> \notin accepted
  <2>1. Review!MergeWrite(k) /\ request[k].of = c /\ request[k].ref = m
    BY <1>1, <1>3, NewPairs
  <2> DEFINE row == Review!Merged(request[k].row, c)
  <2>2. c \in row.merged
    BY <1>0 DEF Review!Merged, Review!Rows, Request
  <2>3. commitment' = [commitment EXCEPT ![m] = row]
    BY <2>1 DEF Review!MergeWrite
  <2> HIDE DEF row
  <2> QED BY <1>0, <2>2, <2>3
<1>4. CASE <<c, m>> \in accepted
  <2>1. cand[c].dup = m /\ c \in commitment[m].merged
    BY <1>2, <1>4
  <2>2. CASE Review!Create(k)
    <3>1. PICK n \in Review!Commitment : /\ commitment[n] = Review!Absent
                                         /\ \E row : commitment' = [commitment EXCEPT ![n] = row]
      BY <2>2 DEF Review!Create, Review!Fresh, Review!Unmade
    <3>2. m # n
      BY <2>1, <3>1 DEF Review!Absent
    <3> QED BY <1>0, <2>1, <3>1, <3>2
  <2>3. ASSUME Review!MergeWrite(k) \/ Review!ResolveWrite(k) PROVE c \in commitment'[m].merged
    <3> DEFINE n == request[k].ref
    <3>1. PICK row : commitment' = [commitment EXCEPT ![n] = row] /\ request[k].row.merged \subseteq row.merged
      <4>1. CASE Review!MergeWrite(k)
        <5>1. request[k].row.merged \subseteq Review!Merged(request[k].row, request[k].of).merged
          BY <1>0 DEF Review!Merged, Review!Rows, Request
        <5> QED BY <4>1, <5>1 DEF Review!MergeWrite
      <4>2. CASE Review!ResolveWrite(k)
        <5>1. PICK status \in {"open", "completed"} :
                commitment' = [commitment EXCEPT ![n] = [request[k].row EXCEPT !.status = status]]
          BY <4>2 DEF Review!ResolveWrite
        <5>2. [request[k].row EXCEPT !.status = status].merged = request[k].row.merged
          BY <1>0 DEF Review!Rows, Request
        <5> QED BY <5>1, <5>2
      <4> QED BY <2>3, <4>1, <4>2
    <3>2. CASE m = n
      <4>1. c \in request[k].row.merged
        BY <1>0, <1>4, <2>1, <2>3, <3>2 DEF RowKnows, Writing, Review!MergeWrite, Review!ResolveWrite
      <4> QED BY <1>0, <3>1, <3>2, <4>1
    <3>3. CASE m # n
      BY <1>0, <2>1, <3>1, <3>3
    <3> QED BY <3>2, <3>3
  <2>4. CASE ~(Review!Create(k) \/ Review!MergeWrite(k) \/ Review!ResolveWrite(k))
    <3>1. commitment' = commitment
      BY <2>4 DEF Steps, Review!Arrive, Review!Stage, Review!StageWrite, Review!Check, Review!Get, Review!CreateItem,
         Review!Review, Review!MergeRead, Review!GetRejected, Review!ReviewRejected,
         Review!ResolveRead, Review!Crash
    <3> QED BY <2>1, <3>1
  <2> QED BY <2>2, <2>3, <2>4
<1> QED BY <1>3, <1>4

\* Who is about to write knows what counts; who reads now gets to know it.
LEMMA RowKnowsAfter ==
  ASSUME Review!CandidatesAssumption, ReviewInv, MergeInv, NEW k \in Client, Steps(k), NEW j \in Client
  PROVE  RowKnows(j)'
<1>1. SUFFICES ASSUME request'[j].at \in Writing,
                      NEW c \in Candidate \ overtaken', <<c, request'[j].ref>> \in accepted',
                      cand'[c].dup = request'[j].ref
               PROVE  c \in request'[j].row.merged
  BY DEF RowKnows
<1>0. /\ request \in [Client -> Request] /\ RequestKnows(j) /\ RequestKnows(k) /\ RowKnows(j) /\ Review!TypeOK
      /\ request[k] \in Request /\ c \in Candidate \ overtaken
  BY ReviewTypes, HistoriesGrow DEF ReviewInv, MergeInv
<1>2. CASE j # k
  <2> DEFINE m == request[j].ref
  <2>1. request'[j] = request[j] /\ m \in Review!Commitment
    <3>1. request'[j] = request[j]
      BY <1>2, RequestMoves
    <3> QED BY <1>0, <1>1, <3>1 DEF RequestKnows, AboutCommitment, Writing
  <2>2. <<c, m>> \in accepted
    BY <1>1, <1>2, <2>1, NewPairs
  <2>3. cand[c].dup = m
    BY <1>0, <1>1, <2>1, <2>2, OldPairs
  <2> QED BY <1>0, <1>1, <2>1, <2>2, <2>3 DEF RowKnows
<1>3. CASE j = k
  <2>1. CASE Review!MergeRead(k) \/ Review!ResolveRead(k)
    <3> DEFINE m == request[k].ref
    <3>1. /\ request'[k].ref = m /\ request'[k].row = commitment[m]
          /\ UNCHANGED <<cand, accepted>> /\ m \in Review!Commitment
      BY <1>0, <2>1 DEF Review!MergeRead, Review!ResolveRead, Request, RequestKnows, AboutCommitment
    <3>2. <<c, m>> \in accepted /\ cand[c].dup = m
      BY <1>1, <1>3, <3>1
    <3>3. c \in commitment[m].merged
      BY <1>0, <3>1, <3>2 DEF MergeInv, Review!MergedRemembered
    <3> QED BY <1>3, <3>1, <3>3
  <2>2. CASE ~(Review!MergeRead(k) \/ Review!ResolveRead(k))
    <3>1. request'[k].at \notin Writing
      <4>1. CASE \/ Review!StageWrite(k) \/ Review!Create(k) \/ Review!MergeWrite(k) \/ Review!ReviewRejected(k)
                 \/ Review!ResolveWrite(k) \/ Review!Crash(k) \/ Review!Check(k) \/ Review!GetRejected(k)
        BY <1>0, <4>1, DoneIsIdle DEF Review!StageWrite, Review!Create, Review!MergeWrite,
           Review!ReviewRejected, Review!ResolveWrite, Review!Crash, Review!Check, Review!GetRejected, Writing
      <4>2. CASE Review!Review(k) /\ cand[request[k].of].dup = NoRef
        BY <1>0, <4>2, DoneIsIdle DEF Review!Review, Writing
      <4>3. CASE Review!Review(k) /\ cand[request[k].of].dup # NoRef
        BY <1>0, <4>3 DEF Review!Review, Request, Writing
      <4>4. CASE Review!Get(k) /\ Review!Known(request[k].of)
        BY <1>0, <4>4 DEF Review!Get, Request, Writing
      <4>5. CASE Review!Get(k) /\ ~Review!Known(request[k].of)
        BY <1>0, <4>5 DEF Review!Get, Request, Writing
      <4>6. CASE Review!CreateItem(k) \/ Review!Stage(k)
        BY <1>0, <4>6 DEF Review!CreateItem, Review!Stage, Request, Writing
      <4>7. CASE Review!Arrive(k)
        <5>1. ASSUME NEW d \in Candidate, NEW place \in {"stage", "check", "get", "get_rejected"},
                     request' = [request EXCEPT ![k] = [Review!Idle EXCEPT !.at = place, !.of = d]]
              PROVE  request'[k].at = place
          BY <1>0, <5>1 DEF Review!Idle
        <5>2. ASSUME NEW m \in Review!Commitment,
                     request' = [request EXCEPT ![k] = [Review!Idle EXCEPT !.at = "resolve_read", !.ref = m]]
              PROVE  request'[k].at = "resolve_read"
          BY <1>0, <5>2 DEF Review!Idle
        <5> QED BY <4>7, <5>1, <5>2 DEF Review!Arrive, Writing
      <4> QED BY <2>2, <4>1, <4>2, <4>3, <4>4, <4>5, <4>6, <4>7 DEF Steps
    <3> QED BY <1>1, <1>3, <3>1
  <2> QED BY <2>1, <2>2
<1> QED BY <1>2, <1>3

LEMMA MergeInvKept ==
  ASSUME Review!CandidatesAssumption, ReviewInv, MergeInv, [Review!Next]_Review!vars
  PROVE  MergeInv'
<1>1. CASE UNCHANGED Review!vars
  BY <1>1 DEF Review!vars, MergeInv, Found, StagedOnce, NewHasNone, RowKnows, Review!MergedRemembered
<1>2. ASSUME NEW k \in Client, Steps(k) PROVE MergeInv'
  <2>1. \A j \in Client : Found(j)' /\ RowKnows(j)'
    BY <1>2, FoundByOthers, FoundAfter, RowKnowsAfter
  <2> QED BY <1>2, <2>1, StagedOnceAfter, NewHasNoneAfter, MergedKept DEF MergeInv
<1> QED BY <1>1, <1>2 DEF Review!Next, Steps

LEMMA MergeInvHolds == ASSUME Review!CandidatesAssumption PROVE Review!Spec => [](ReviewInv /\ MergeInv)
<1> QED BY ReviewInvStarts, ReviewInvKept, MergeInvStarts, MergeInvKept, PTL DEF Review!Spec

\* _merge_candidate_into_existing (product/service.py): the commitment a candidate was
\* merged into knows of it from then on, for any number of requests at once, unless one
\* had read the commitment before the merge and writes it back.
THEOREM MergesAreRemembered ==
  ASSUME Review!CandidatesAssumption
  PROVE  Review!Spec => []Review!MergedRemembered
<1>1. MergeInv => Review!MergedRemembered
  BY DEF MergeInv
<1> QED BY <1>1, MergeInvHolds, PTL

-----------------------------------------------------------------------------
(* One request at a time: what a request read is what there is when it writes. *)

OneAtWork ==
  \A j, k \in Client : request[j] # Review!Idle /\ request[k] # Review!Idle => j = k

\* What there is when a request comes to a place.
InOrder(k) ==
  LET c == request[k].of
  IN /\ request[k].at \in {"stage", "stage_write"} => cand[c].status = "none"
     /\ request[k].at \in AboutCandidate \ {"stage", "stage_write"} => cand[c].status # "none"
     /\ request[k].at = "create_item" /\ c \notin refused \cup dropped => cand[c].status # "promoted"
     /\ request[k].at = "review" /\ c \notin refused \cup dropped /\ cand[c].status = "promoted"
          => request[k].item = cand[c].item

\* An item is of a candidate that was promoted to it, or is about to be.
ItemKept(c, i) ==
  \/ cand[c].status = "promoted" /\ cand[c].item = i
  \/ \E k \in Client : request[k].at = "review" /\ request[k].of = c /\ request[k].item = i

SerialInv ==
  /\ OneAtWork
  /\ \A k \in Client : InOrder(k)
  /\ \A c \in Candidate \ (refused \cup dropped), i \in Review!Item : item[i] = c => ItemKept(c, i)

LEMMA SerialInvStarts == ASSUME Review!CandidatesAssumption, Review!Init PROVE SerialInv
<1>1. \A k \in Client : request[k] = Review!Idle /\ request[k].at = "idle"
  BY IdleRequest DEF Review!Init
<1>2. \A i \in Review!Item : item[i] \notin Candidate
  BY DEF Review!Init, Review!CandidatesAssumption
<1>3. OneAtWork /\ \A k \in Client : InOrder(k)
  BY <1>1 DEF OneAtWork, InOrder, AboutCandidate
<1> QED BY <1>2, <1>3 DEF SerialInv

LEMMA ReviewCount == ASSUME NEW S PROVE Review!Cardinality(S) = Cardinality(S)
BY DEF Review!Cardinality, Cardinality, Review!IsFiniteSet

\* While a request takes a step the others have none.
LEMMA OthersIdle ==
  ASSUME Review!CandidatesAssumption, AtOnce = 1, ReviewInv, SerialInv, NEW k \in Client, Steps(k)
  PROVE  \A j \in Client \ {k} : /\ request[j] = Review!Idle /\ request[j].at = "idle"
                                 /\ request'[j] = Review!Idle /\ request'[j].at = "idle"
<1>1. SUFFICES ASSUME NEW j \in Client \ {k} PROVE request[j] = Review!Idle
  BY RequestMoves, IdleRequest
<1>2. CASE Review!Arrive(k)
  <2> DEFINE AtWork == {i \in Client : request[i] # Review!Idle}
  <2>1. Cardinality(AtWork) < 1
    BY <1>2, ReviewCount DEF Review!Arrive
  <2>2. ASSUME request[j] # Review!Idle PROVE FALSE
    <3>1. AtWork = {j}
      BY <2>2 DEF SerialInv, OneAtWork
    <3>2. Cardinality({j}) = 1
      BY FS_Singleton
    <3> QED BY <2>1, <3>1, <3>2
  <2> QED BY <2>2
<1>3. CASE ~Review!Arrive(k)
  <2>1. request[k] # Review!Idle
    BY <1>3, IdleRequest DEF Steps, Review!Stage, Review!StageWrite, Review!Check, Review!Get, Review!CreateItem,
       Review!Review, Review!Create, Review!MergeRead, Review!MergeWrite, Review!GetRejected,
       Review!ReviewRejected, Review!ResolveRead, Review!ResolveWrite, Review!Crash
  <2> QED BY <2>1 DEF SerialInv, OneAtWork
<1> QED BY <1>2, <1>3

LEMMA InOrderAfter ==
  ASSUME Review!CandidatesAssumption, ReviewInv, SerialInv, NEW k \in Client, Steps(k)
  PROVE  InOrder(k)'
<1>0. /\ request \in [Client -> Request] /\ request[k] \in Request /\ RequestKnows(k) /\ Review!TypeOK
      /\ cand \in [Candidate -> [status : {"none", "pending", "promoted", "rejected"},
                                 item : Review!Item \cup {NoItem}, dup : Review!Commitment \cup {NoRef}]]
      /\ InOrder(k)
  BY ReviewTypes DEF ReviewInv, SerialInv
<1> USE DEF InOrder, AboutCandidate
<1>1. CASE \/ Review!StageWrite(k) \/ Review!Create(k) \/ Review!MergeWrite(k) \/ Review!ReviewRejected(k)
           \/ Review!ResolveWrite(k) \/ Review!Crash(k)
  <2>1. request'[k].at = "idle"
    BY <1>0, <1>1, DoneIsIdle DEF Review!StageWrite, Review!Create, Review!MergeWrite, Review!ReviewRejected,
                    Review!ResolveWrite, Review!Crash
  <2> QED BY <2>1
<1>2. CASE Review!Arrive(k)
  <2>1. ASSUME NEW c \in Candidate, NEW place \in {"stage", "check", "get", "get_rejected"},
               request' = [request EXCEPT ![k] = [Review!Idle EXCEPT !.at = place, !.of = c]]
        PROVE  request'[k].at = place /\ request'[k].of = c
    BY <1>0, <2>1 DEF Review!Idle
  <2>2. ASSUME NEW m \in Review!Commitment,
               request' = [request EXCEPT ![k] = [Review!Idle EXCEPT !.at = "resolve_read", !.ref = m]]
        PROVE  request'[k].at = "resolve_read"
    BY <1>0, <2>2 DEF Review!Idle
  <2> QED BY <1>2, <2>1, <2>2 DEF Review!Arrive
<1>3. CASE Review!Stage(k)
  <2>1. request'[k].at = "stage_write" /\ request'[k].of = request[k].of /\ request[k].at = "stage"
        /\ UNCHANGED cand
    BY <1>0, <1>3 DEF Review!Stage, Request
  <2> QED BY <1>0, <2>1
<1>4. CASE Review!Check(k) \/ Review!GetRejected(k)
  <2>1. UNCHANGED cand /\ \/ request'[k].at = "idle"
                          \/ /\ request'[k].at \in {"get", "review_rejected"}
                             /\ request'[k].of = request[k].of /\ request[k].at \in {"check", "get_rejected"}
    BY <1>0, <1>4, DoneIsIdle DEF Review!Check, Review!GetRejected
  <2> QED BY <1>0, <2>1
<1>5. CASE Review!Get(k)
  <2>1. request[k].of \in Candidate /\ UNCHANGED cand /\ request[k].at = "get"
    BY <1>0, <1>5 DEF Review!Get, RequestKnows
  <2>2. CASE Review!Known(request[k].of)
    <3>1. request'[k].at = "review" /\ request'[k].of = request[k].of
          /\ request'[k].item = cand[request[k].of].item
      BY <1>0, <1>5, <2>2 DEF Review!Get, Request
    <3> QED BY <1>0, <2>1, <3>1
  <2>3. CASE ~Review!Known(request[k].of)
    <3>1. request'[k].at = "create_item" /\ request'[k].of = request[k].of
      BY <1>0, <1>5, <2>3 DEF Review!Get, Request
    <3>2. cand[request[k].of].status # "promoted"
      BY <2>1, <2>3 DEF Review!Known, ReviewInv, Review!PromotedHasItem, Review!CandidatesAssumption
    <3> QED BY <1>0, <2>1, <3>1, <3>2
  <2> QED BY <2>2, <2>3
<1>6. CASE Review!CreateItem(k)
  <2>1. request'[k].at = "review" /\ request'[k].of = request[k].of /\ request[k].at = "create_item"
        /\ UNCHANGED <<cand, refused, dropped>>
    BY <1>0, <1>6 DEF Review!CreateItem, Request
  <2> QED BY <1>0, <2>1
<1>7. CASE Review!Review(k)
  <2>1. request[k].of \in Candidate
    BY <1>0, <1>7 DEF Review!Review, RequestKnows
  <2>2. cand'[request[k].of].status = "promoted" /\ cand'[request[k].of].dup = cand[request[k].of].dup
    BY <1>0, <1>7, <2>1 DEF Review!Review, Review!Promoted
  <2>3. CASE cand[request[k].of].dup = NoRef
    BY <1>0, <1>7, <2>2, <2>3, DoneIsIdle DEF Review!Review
  <2>4. CASE cand[request[k].of].dup # NoRef
    <3>1. request'[k].at = "merge_read" /\ request'[k].of = request[k].of
      BY <1>0, <1>7, <2>4 DEF Review!Review, Request
    <3> QED BY <2>2, <3>1
  <2> QED BY <2>3, <2>4
<1>8. CASE Review!MergeRead(k) \/ Review!ResolveRead(k)
  <2>1. /\ request'[k].of = request[k].of /\ request'[k].ref = request[k].ref
        /\ request'[k].row = commitment[request[k].ref]
        /\ UNCHANGED <<cand, commitment>>
        /\ \/ request[k].at = "merge_read" /\ request'[k].at = "merge_write"
           \/ request[k].at = "resolve_read" /\ request'[k].at = "resolve_write"
    BY <1>0, <1>8 DEF Review!MergeRead, Review!ResolveRead, Request
  <2> QED BY <1>0, <2>1
<1> QED BY <1>1, <1>2, <1>3, <1>4, <1>5, <1>6, <1>7, <1>8 DEF Steps

LEMMA ItemsKeptAfter ==
  ASSUME Review!CandidatesAssumption, AtOnce = 1, ReviewInv, SerialInv, NEW k \in Client, Steps(k),
         NEW c \in Candidate \ (refused' \cup dropped'), NEW i \in Review!Item, item'[i] = c
  PROVE  ItemKept(c, i)'
<1>0. /\ request \in [Client -> Request] /\ request[k] \in Request /\ RequestKnows(k) /\ InOrder(k)
      /\ Review!TypeOK /\ c \in Candidate /\ c \notin refused \cup dropped
      /\ item \in [Review!Item -> Candidate \cup {Nothing}]
  BY ReviewTypes, HistoriesGrow DEF ReviewInv, SerialInv
\* Who is about to promote it is the one that takes the step.
<1>1. ASSUME item[i] = c
      PROVE  \/ cand[c].status = "promoted" /\ cand[c].item = i
             \/ request[k].at = "review" /\ request[k].of = c /\ request[k].item = i
  BY <1>0, <1>1, OthersIdle DEF SerialInv, ItemKept
<1>2. CASE Review!Review(k)
  <2>1. item[i] = c
    BY <1>2 DEF Review!Review
  <2>2. CASE request[k].of = c
    <3>1. cand'[c].status = "promoted" /\ cand'[c].item = request[k].item
      BY <1>0, <1>2, <2>2, ReviewTypes DEF Review!Review, Review!Promoted
    <3>2. request[k].item = i
      BY <1>0, <1>1, <1>2, <2>1, <2>2 DEF InOrder, Review!Review
    <3> QED BY <3>1, <3>2 DEF ItemKept
  <2>3. CASE request[k].of # c
    <3>1. cand'[c] = cand[c]
      BY <1>0, <1>2, <2>3, ReviewTypes DEF Review!Review
    <3> QED BY <1>1, <2>1, <2>3, <3>1 DEF ItemKept
  <2> QED BY <2>2, <2>3
<1>3. CASE Review!CreateItem(k)
  <2>1. PICK new \in Review!Item : /\ item' = [item EXCEPT ![new] = request[k].of]
                                   /\ request' = [request EXCEPT ![k].at = "review", ![k].item = new]
    BY <1>3 DEF Review!CreateItem
  <2>2. request'[k].at = "review" /\ request'[k].item = new /\ request'[k].of = request[k].of
    BY <1>0, <2>1 DEF Request
  <2>3. CASE i = new
    <3>1. request[k].of = c
      BY <1>0, <2>1, <2>3
    <3> QED BY <2>2, <2>3, <3>1 DEF ItemKept
  <2>4. CASE i # new
    <3>1. item[i] = c
      BY <1>0, <2>1, <2>4
    <3>2. cand[c].status = "promoted" /\ cand[c].item = i /\ UNCHANGED cand
      BY <1>1, <1>3, <3>1 DEF Review!CreateItem
    <3> QED BY <3>2 DEF ItemKept
  <2> QED BY <2>3, <2>4
<1>4. CASE ~(Review!Review(k) \/ Review!CreateItem(k))
  <2>1. item[i] = c
    BY <1>4 DEF Steps, Review!Arrive, Review!Stage, Review!StageWrite, Review!Check, Review!Get,
       Review!Create, Review!MergeRead, Review!MergeWrite, Review!GetRejected, Review!ReviewRejected,
       Review!ResolveRead, Review!ResolveWrite, Review!Crash
  <2>2. cand[c].status = "promoted" /\ cand[c].item = i
    <3>1. CASE Review!Crash(k)
      BY <1>1, <2>1, <3>1 DEF Review!Crash
    <3>2. CASE ~Review!Crash(k)
      <4>1. request[k].at # "review"
        BY <1>4, <3>2, IdleRequest DEF Steps, Review!Arrive, Review!Stage, Review!StageWrite, Review!Check, Review!Get,
           Review!Create, Review!MergeRead, Review!MergeWrite, Review!GetRejected, Review!ReviewRejected,
           Review!ResolveRead, Review!ResolveWrite
      <4> QED BY <1>1, <2>1, <4>1
    <3> QED BY <3>1, <3>2
  <2>3. cand'[c] = cand[c]
    <3>1. CASE Review!StageWrite(k)
      <4>1. request[k].of # c
        BY <1>0, <2>2, <3>1 DEF InOrder, Review!StageWrite
      <4> QED BY <1>0, <3>1, <4>1, Statuses DEF Review!ReviewRejected, Review!Review, Review!StageWrite
    <3>2. CASE ~Review!StageWrite(k)
      <4>1. ~(Review!ReviewRejected(k) /\ request[k].of = c)
        BY <1>0 DEF Review!ReviewRejected
      <4> QED BY <1>0, <1>4, <3>2, <4>1, Statuses
    <3> QED BY <3>1, <3>2
  <2> QED BY <2>2, <2>3 DEF ItemKept
<1> QED BY <1>2, <1>3, <1>4

LEMMA SerialInvKept ==
  ASSUME Review!CandidatesAssumption, AtOnce = 1, ReviewInv, SerialInv, [Review!Next]_Review!vars
  PROVE  SerialInv'
<1>1. CASE UNCHANGED Review!vars
  BY <1>1 DEF Review!vars, SerialInv, OneAtWork, InOrder, ItemKept
<1>2. ASSUME NEW k \in Client, Steps(k) PROVE SerialInv'
  <2>1. OneAtWork'
    BY <1>2, OthersIdle DEF OneAtWork
  <2>2. \A j \in Client : InOrder(j)'
    <3>1. ASSUME NEW j \in Client \ {k} PROVE InOrder(j)'
      BY <1>2, <3>1, OthersIdle DEF InOrder, AboutCandidate
    <3> QED BY <1>2, <3>1, InOrderAfter
  <2> QED BY <1>2, <2>1, <2>2, ItemsKeptAfter DEF SerialInv
<1> QED BY <1>1, <1>2 DEF Review!Next, Steps

LEMMA SerialInvHolds == ASSUME Review!CandidatesAssumption, AtOnce = 1 PROVE Review!Spec => [](ReviewInv /\ SerialInv)
<1> QED BY ReviewInvStarts, ReviewInvKept, SerialInvStarts, SerialInvKept, PTL DEF Review!Spec

\* promote_candidate (memory_runtime.py): served one request at a time, a candidate that
\* was not rejected and whose requests did not die has one memory item at most.
THEOREM OneItemEach ==
  ASSUME Review!CandidatesAssumption, AtOnce = 1
  PROVE  Review!Spec => []Review!OneItem
<1>1. ReviewInv /\ SerialInv => Review!OneItem
  <2>1. SUFFICES ASSUME ReviewInv, SerialInv, NEW c \in Candidate \ (refused \cup dropped)
                 PROVE  Review!Cardinality({i \in Review!Item : item[i] = c}) <= 1
    BY DEF Review!OneItem
  <2>2. ASSUME NEW i \in Review!Item, NEW j \in Review!Item, item[i] = c, item[j] = c PROVE i = j
    <3>1. ItemKept(c, i) /\ ItemKept(c, j) /\ OneAtWork /\ \A k \in Client : InOrder(k)
      BY <2>1, <2>2 DEF SerialInv
    <3>2. \A k \in Client : request[k].at = "review" => request[k] # Review!Idle
      BY IdleRequest
    <3> QED BY <2>1, <3>1, <3>2 DEF ItemKept, InOrder, OneAtWork
  <2>3. Cardinality({i \in Review!Item : item[i] = c}) <= 1
    BY <2>2, FewOfOne
  <2> QED BY <2>3, ReviewCount
<1> QED BY <1>1, SerialInvHolds, PTL
=============================================================================
