--------------------------- MODULE SessionContract ----------------------------
(***************************************************************************)
(* What the execution runtime promises to whoever submits a plan, whatever *)
(* threads work on it: a task is begun only when everything before it is   *)
(* done and the plan still has no outcome, its work happens while it is    *)
(* begun and no more often than its tries, what is done stays done, and    *)
(* the one outcome is "completed" exactly when all is done.                *)
(* ExecutionRuntime implements this specification under the timing its     *)
(* runs assume.                                                            *)
(***************************************************************************)
EXTENDS Naturals

CONSTANTS Task, Before, Tries

VARIABLES
  status,   \* per task: "pending", "begun", "done" or "failed"
  worked,   \* per task: how often its work was done
  outcome   \* of the plan: "open", "completed" or "failed"

contractVars == <<status, worked, outcome>>

ContractInit ==
  /\ status = [t \in Task |-> "pending"]
  /\ worked = [t \in Task |-> 0]
  /\ outcome = "open"

Becomes(t, s) ==
  /\ status' = [status EXCEPT ![t] = s]
  /\ UNCHANGED <<worked, outcome>>

Begin(t) ==
  /\ outcome = "open" /\ status[t] = "pending"
  /\ \A b \in Before[t] : status[b] = "done"
  /\ Becomes(t, "begun")

Work(t) ==
  /\ status[t] = "begun" /\ worked[t] < Tries[t]
  /\ worked' = [worked EXCEPT ![t] = @ + 1]
  /\ UNCHANGED <<status, outcome>>

Finish(t) == status[t] = "begun" /\ Becomes(t, "done")

\* The attempt failed and another is due.
Withdraw(t) == status[t] = "begun" /\ Becomes(t, "pending")

\* The last attempt failed, or the task was refused.
GiveUp(t) == status[t] \in {"pending", "begun"} /\ Becomes(t, "failed")

Conclude ==
  /\ outcome = "open"
  /\ \/ /\ \A t \in Task : status[t] = "done"
        /\ outcome' = "completed"
     \/ /\ \E t \in Task : status[t] = "failed"
        /\ outcome' = "failed"
  /\ UNCHANGED <<status, worked>>

ContractNext ==
  \/ \E t \in Task : Begin(t) \/ Work(t) \/ Finish(t) \/ Withdraw(t) \/ GiveUp(t)
  \/ Conclude

ContractSpec == ContractInit /\ [][ContractNext]_contractVars
=============================================================================
