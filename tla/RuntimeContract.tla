--------------------------- MODULE RuntimeContract ----------------------------
(***************************************************************************)
(* ExecutionRuntime implements SessionContract: how its ledger shows the   *)
(* status of a task, the work done and the outcome.                        *)
(***************************************************************************)
EXTENDS ExecutionRuntime

\* execution_steps.state; a step that waits for an answer has not begun, or is begun
\* and waits for a person.
StatusOf(s) ==
  CASE step[s] \in {"queued", "waiting_approval"} -> "pending"
    [] step[s] \in {"running", "waiting_human"}   -> "begun"
    [] step[s] = "completed"                      -> "done"
    [] step[s] \in {"blocked", "failed"}          -> "failed"

\* execution_sessions.status: blocked is the outcome of a denial.
OutcomeOf ==
  CASE session = "completed"             -> "completed"
    [] session \in {"failed", "blocked"} -> "failed"
    [] OTHER                             -> "open"

Contract == INSTANCE SessionContract WITH
  Task <- Step, Before <- Deps, Tries <- MaxAttempts,
  status <- [s \in Step |-> StatusOf(s)], worked <- effects, outcome <- OutcomeOf

\* The runtime keeps the contract: steps begin in dependency order while the session is
\* open, their effects stay within their attempts, what is completed stays completed, and
\* the session has one outcome (README.md: execution "from satisfied dependency edges").
KeepsContract == Contract!ContractSpec

\* What KeepsContract says of the initial states and of each step.
ContractBegins == Contract!ContractInit
ContractStep == [Contract!ContractNext]_(Contract!contractVars)
=============================================================================
