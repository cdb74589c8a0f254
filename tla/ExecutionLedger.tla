--------------------------- MODULE ExecutionLedger ---------------------------
(***************************************************************************)
(* The durable execution ledger of one session: the session row, its step  *)
(* rows and its queue rows, and the statements that read and write them.   *)
(* Every operator below is one statement of ledger_postgres.py (autocommit,*)
(* so one atomic step) and of its in-memory twin ledger.py.                *)
(*                                                                         *)
(* A queue row's idempotency key is "rewrite:<session>:<step>" and is      *)
(* UNIQUE, so a step has at most one queue row: row[s] is that row.        *)
(*                                                                         *)
(* Time is abstracted to what the statements compare: row[s].expired says  *)
(* that lease_expires_at has passed and row[s].due that next_attempt_at    *)
(* has (or is NULL).  The clock only moves them forward, by the two        *)
(* environment actions LeaseExpires and BackoffElapses.                    *)
(***************************************************************************)
EXTENDS Naturals, FiniteSets

CONSTANTS
  N,        \* number of steps in the session's plan, in plan order
  Actor,    \* threads that lease queue rows
  NoOne     \* the empty lease_owner

Step == 1..N

ASSUME LedgerAssumption ==
  /\ N \in Nat \ {0}
  /\ IsFiniteSet(Actor)
  /\ NoOne \notin Actor

VARIABLES
  session,  \* execution_sessions.status
  step,     \* execution_steps.state, per step
  attempts, \* execution_steps.attempt_count, per step
  row       \* execution_queue, per step

ledgerVars == <<session, step, attempts, row>>

SessionStatus ==
  {"running", "queued", "replanning", "awaiting_approval", "awaiting_human",
   "blocked", "failed", "completed"}

StepState ==
  {"queued", "running", "waiting_approval", "waiting_human", "blocked",
   "failed", "completed"}

\* failedBefore stands for last_error # '', born for the rank of created_at.
Row == [state   : {"absent", "queued", "leased", "done", "failed"},
        owner   : Actor \cup {NoOne},
        expired : BOOLEAN,
        due     : BOOLEAN,
        attempt : Nat,
        failedBefore : BOOLEAN,
        born    : Nat]

AbsentRow == [state |-> "absent", owner |-> NoOne, expired |-> FALSE,
              due |-> TRUE, attempt |-> 0, failedBefore |-> FALSE, born |-> 0]

LedgerTypeOK ==
  /\ session \in SessionStatus
  /\ step \in [Step -> StepState]
  /\ attempts \in [Step -> Nat]
  /\ row \in [Step -> Row]

\* start_session and start_step: the session starts "running", every step
\* "queued", and nothing is in the queue yet.
LedgerInit ==
  /\ session = "running"
  /\ step = [s \in Step |-> "queued"]
  /\ attempts = [s \in Step |-> 0]
  /\ row = [s \in Step |-> AbsentRow]

-----------------------------------------------------------------------------
(* Reads *)

\* Mutant of Runnable: a session paused for approval keeps leasing.
RunnableWhilePaused == session \in {"running", "queued", "awaiting_approval"}

\* The session statuses whose rows may be leased.
Runnable == session \in {"running", "queued"}

ActiveRow(s) == row[s].state \in {"queued", "leased"}

\* Mutant of Eligible: a lease is taken over without waiting for its expiry.
EligibleIgnoringExpiry(s) ==
  /\ Runnable
  /\ \/ /\ row[s].state = "queued"
        /\ row[s].due
     \/ row[s].state = "leased"

\* The WHERE clause of lease_queue_item and lease_next_queue_item.
Eligible(s) ==
  /\ Runnable
  /\ \/ /\ row[s].state = "queued"
        /\ row[s].due
     \/ /\ row[s].state = "leased"
        /\ row[s].expired

\* ORDER BY created_at ASC ... LIMIT 1
Oldest(s) ==
  /\ Eligible(s)
  /\ \A t \in Step : Eligible(t) => row[s].born <= row[t].born

\* Mutant of NextAttempt: it does not look at last_error.
UncountedRetry(s) == IF row[s].attempt > 0 THEN row[s].attempt ELSE 1

\* The CASE expression that sets attempt_count when a row is leased.
NextAttempt(s) ==
  IF row[s].attempt > 0 /\ ~row[s].failedBefore
    THEN row[s].attempt
    ELSE row[s].attempt + 1

-----------------------------------------------------------------------------
(* Writes *)

\* INSERT ... ON CONFLICT (idempotency_key) DO UPDATE of nothing: an existing
\* row is returned as it is, in whatever state.
EnqueueRow(s) ==
  row' = IF row[s].state # "absent" THEN row ELSE
         [row EXCEPT ![s] = [AbsentRow EXCEPT !.state = "queued",
            !.attempt = attempts[s],
            !.born = Cardinality({t \in Step : row[t].state # "absent"})]]

\* The callers guard this with Eligible(s); the statement is the same UPDATE.
LeaseRow(s, w) ==
  row' = [row EXCEPT ![s] = [@ EXCEPT !.state = "leased", !.owner = w,
            !.expired = FALSE, !.attempt = NextAttempt(s)]]

\* Mutant of CompleteRow: it writes the step's terminal state into the row.
CompleteRowAsStep(s) ==
  row' = [row EXCEPT ![s] = [@ EXCEPT !.state = "completed", !.owner = NoOne]]

\* The three closing statements name the row by queue_id alone.
CompleteRow(s) ==
  row' = [row EXCEPT ![s] = [@ EXCEPT !.state = "done", !.owner = NoOne,
            !.expired = FALSE, !.failedBefore = FALSE]]

FailRow(s) ==
  row' = [row EXCEPT ![s] = [@ EXCEPT !.state = "failed", !.owner = NoOne,
            !.expired = FALSE, !.failedBefore = TRUE]]

\* lease_owner is set to the retrying caller's; now says that the backoff is 0.
RetryRow(s, w, now) ==
  row' = [row EXCEPT ![s] = [@ EXCEPT !.state = "queued", !.owner = w,
            !.expired = FALSE, !.failedBefore = TRUE, !.due = now]]

\* The clock.
ExpireRow(s) ==
  /\ row[s].state = "leased" /\ ~row[s].expired
  /\ row' = [row EXCEPT ![s] = [@ EXCEPT !.expired = TRUE]]

DueRow(s) ==
  /\ row[s].state = "queued" /\ ~row[s].due
  /\ row' = [row EXCEPT ![s] = [@ EXCEPT !.due = TRUE]]

\* UPDATE execution_sessions, UPDATE execution_steps.  The latter keeps the
\* attempt count when the caller passes none.
SetSession(status) == session' = status

UpdateStep(s, state) == step' = [step EXCEPT ![s] = state]
=============================================================================
