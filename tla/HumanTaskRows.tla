---------------------------- MODULE HumanTaskRows ----------------------------
(***************************************************************************)
(* The human_tasks table (repositories/human_tasks_postgres.py and its twin*)
(* in memory): one conditional UPDATE per operation, each atomic.  Of a    *)
(* row's columns those are kept that a guard reads or an operator sees.    *)
(***************************************************************************)
EXTENDS Naturals, FiniteSets

CONSTANTS
  Task,      \* rows there may ever be
  Operator,
  Nobody     \* the empty assigned_operator_id

NobodyIsNoOperator == Nobody \notin Operator

VARIABLE task

TaskRow == [status     : {"absent", "pending", "claimed", "returned"},
            assignment : {"none", "unassigned", "assigned", "claimed", "returned"},
            operator   : Operator \cup {Nobody}]

NoRow == [status |-> "absent", assignment |-> "none", operator |-> Nobody]
NewRow == [status |-> "pending", assignment |-> "unassigned", operator |-> Nobody]

RowsTypeOK == task \in [Task -> TaskRow]

Insert(t) ==
  /\ task[t] = NoRow
  /\ task' = [task EXCEPT ![t] = NewRow]

Open(t) == task[t].status \in {"pending", "claimed"}

\* Mutant of Claimable: a claim is as lenient as an assignment.
ClaimableOpen(t) == Open(t)

\* WHERE status = 'pending'
Claimable(t) == task[t].status = "pending"

\* WHERE status IN ('pending', 'claimed')
Changeable(t) == Open(t)

ClaimRow(t, o) ==
  /\ Claimable(t)
  /\ task' = [task EXCEPT ![t] =
       [status |-> "claimed", assignment |-> "claimed", operator |-> o]]

\* The status stays what it was.
AssignRow(t, o) ==
  /\ Changeable(t)
  /\ task' = [task EXCEPT ![t].assignment = "assigned", ![t].operator = o]

\* Whoever returns a task becomes its operator.
ReturnRow(t, o) ==
  /\ Changeable(t)
  /\ task' = [task EXCEPT ![t] =
       [status |-> "returned", assignment |-> "returned", operator |-> o]]
=============================================================================
