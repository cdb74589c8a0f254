---------------------------- MODULE LedgerClients ----------------------------
(***************************************************************************)
(* The ledger under arbitrary clients: threads that enqueue, lease, report *)
(* and close queue rows in any order the repository allows.  What holds    *)
(* here holds of every runtime built on the ledger, because no client      *)
(* behaviour is assumed beyond one fact: a client closes (completes, fails *)
(* or retries) only rows it was handed by a lease.  It may do so long      *)
(* after the lease has run out, since the closing statements name the row  *)
(* by queue_id alone.                                                      *)
(***************************************************************************)
EXTENDS ExecutionLedger

CONSTANTS
  Reported,   \* step states the clients write (StepState, or a sample of it)
  Statuses,   \* session statuses they write
  MaxGrants   \* bound: leases granted per row

ASSUME ClientAssumption ==
  /\ Reported \subseteq StepState
  /\ Statuses \subseteq SessionStatus
  /\ MaxGrants \in Nat

VARIABLES
  held,    \* per client: the rows it was handed and has not closed
  grants,  \* history: leases granted, per row
  lapses   \* history: leases that ran out before their row was closed, per row

history == <<held, grants, lapses>>
vars == <<ledgerVars, history>>

Init ==
  /\ LedgerInit
  /\ held = [a \in Actor |-> {}]
  /\ grants = [s \in Step |-> 0]
  /\ lapses = [s \in Step |-> 0]

-----------------------------------------------------------------------------
Enqueue(s) ==
  /\ EnqueueRow(s)
  /\ UNCHANGED <<session, step, attempts, history>>

Grant(a, s) ==
  /\ grants[s] < MaxGrants
  /\ s \notin held[a]
  /\ LeaseRow(s, a)
  /\ held' = [held EXCEPT ![a] = @ \cup {s}]
  /\ grants' = [grants EXCEPT ![s] = @ + 1]
  /\ UNCHANGED <<session, step, attempts, lapses>>

LeaseItem(a, s) == Eligible(s) /\ Grant(a, s)

LeaseNextItem(a) == \E s \in Step : Oldest(s) /\ Grant(a, s)

Release(a, s) ==
  /\ s \in held[a]
  /\ held' = [held EXCEPT ![a] = @ \ {s}]
  /\ UNCHANGED <<session, step, attempts, grants, lapses>>

Complete(a, s) == CompleteRow(s) /\ Release(a, s)

Fail(a, s) == FailRow(s) /\ Release(a, s)

Retry(a, s) == (\E now \in BOOLEAN : RetryRow(s, a, now)) /\ Release(a, s)

\* A client that stops forgets its rows; their leases run out later.
Forget(a) ==
  /\ held[a] # {}
  /\ held' = [held EXCEPT ![a] = {}]
  /\ UNCHANGED <<ledgerVars, grants, lapses>>

ReportStep(s) ==
  /\ \E state \in Reported : UpdateStep(s, state)
  /\ \E n \in {attempts[s], row[s].attempt, 1} : attempts' = [attempts EXCEPT ![s] = n]
  /\ UNCHANGED <<session, row, history>>

ReportSession ==
  /\ \E status \in Statuses : SetSession(status)
  /\ UNCHANGED <<step, attempts, row, history>>

LeaseExpires(s) ==
  /\ ExpireRow(s)
  /\ lapses' = [lapses EXCEPT ![s] = @ + 1]
  /\ UNCHANGED <<session, step, attempts, held, grants>>

BackoffElapses(s) ==
  /\ DueRow(s)
  /\ UNCHANGED <<session, step, attempts, history>>

Next ==
  \/ \E s \in Step :
       \/ Enqueue(s)
       \/ ReportStep(s)
       \/ LeaseExpires(s)
       \/ BackoffElapses(s)
       \/ \E a \in Actor :
            \/ LeaseItem(a, s)
            \/ Complete(a, s)
            \/ Fail(a, s)
            \/ Retry(a, s)
  \/ \E a \in Actor : LeaseNextItem(a) \/ Forget(a)
  \/ ReportSession

Spec == Init /\ [][Next]_vars

-----------------------------------------------------------------------------
TypeOK ==
  /\ LedgerTypeOK
  /\ held \in [Actor -> SUBSET Step]
  /\ grants \in [Step -> Nat]
  /\ lapses \in [Step -> Nat]

Holders(s) == {a \in Actor : s \in held[a]}

LiveLease(s) == IF row[s].state = "leased" /\ ~row[s].expired THEN 1 ELSE 0

LapsedLease(s) == IF row[s].state = "leased" /\ row[s].expired THEN 1 ELSE 0

\* Two clients run the same step at once only if a lease on it ran out: the
\* clients that hold a row never outnumber the leases on it that ran out by
\* more than the one that is live.  This survives a client that closes a row
\* which has meanwhile been leased to another.
LeaseAccounting ==
  \A s \in Step : Cardinality(Holders(s)) <= lapses[s] + LiveLease(s)

\* RUNBOOK.md: retries run "until max_attempts is exhausted".  The count that
\* limit is compared with misses a start of the step only when a lease ran
\* out: every grant is counted in attempt_count or paid for by a lapse.
GrantsCounted ==
  \A s \in Step : grants[s] + LapsedLease(s) <= row[s].attempt + lapses[s]

\* RUNBOOK.md: the queue runtime "keeps attempt_count monotonic": no lease,
\* retry, completion or second enqueue ever lowers a queue row's count.
AttemptMonotone ==
  [][\A s \in Step : row'[s].attempt >= row[s].attempt]_row

\* The ledger implements a lock per step that can go stale: a row is handed to
\* a second client only when an earlier lease on it has run out, however late
\* the first one closes it and whoever closes it.
Lock == INSTANCE StaleLock WITH
  Item <- Step, Client <- Actor,
  holders <- [s \in Step |-> Holders(s)], stale <- lapses

ImplementsLock == Lock!LockSpec
=============================================================================
