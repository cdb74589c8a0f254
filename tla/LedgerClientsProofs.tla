------------------------- MODULE LedgerClientsProofs -------------------------
(***************************************************************************)
(* What the ledger promises for any number of clients and steps: the type  *)
(* invariant, the count of attempts, and the accounting of leases; and     *)
(* what the workers make of it that replace failed steps (Replanning).     *)
(***************************************************************************)
EXTENDS LedgerClients, FiniteSetTheorems, WellFoundedInduction, TLAPS

\* The row s becomes r and the rest of the queue stays.
BecomesRow(s, r) ==
  /\ row' \in [Step -> Row]
  /\ row'[s] = r
  /\ \A t \in Step : t # s => row'[t] = row[t]

\* What each statement of the ledger makes of the row it names.
LEMMA Statements ==
  ASSUME LedgerTypeOK, NEW s \in Step
  PROVE  /\ \A a \in Actor : LeaseRow(s, a) =>
              BecomesRow(s, [row[s] EXCEPT !.state = "leased", !.owner = a,
                               !.expired = FALSE, !.attempt = NextAttempt(s)])
         /\ CompleteRow(s) =>
              BecomesRow(s, [row[s] EXCEPT !.state = "done", !.owner = NoOne,
                               !.expired = FALSE, !.failedBefore = FALSE])
         /\ FailRow(s) =>
              BecomesRow(s, [row[s] EXCEPT !.state = "failed", !.owner = NoOne,
                               !.expired = FALSE, !.failedBefore = TRUE])
         /\ \A a \in Actor, now \in BOOLEAN : RetryRow(s, a, now) =>
              BecomesRow(s, [row[s] EXCEPT !.state = "queued", !.owner = a,
                               !.expired = FALSE, !.failedBefore = TRUE, !.due = now])
         /\ ExpireRow(s) => BecomesRow(s, [row[s] EXCEPT !.expired = TRUE])
         /\ DueRow(s) => BecomesRow(s, [row[s] EXCEPT !.due = TRUE])
<1>1. row[s] \in Row /\ row \in [Step -> Row]
  BY DEF LedgerTypeOK
<1>2. ASSUME NEW r \in Row, row' = [row EXCEPT ![s] = r] PROVE BecomesRow(s, r)
  BY <1>1, <1>2 DEF BecomesRow
<1>3. NextAttempt(s) \in Nat
  BY <1>1 DEF NextAttempt, Row
<1>4. ASSUME NEW a \in Actor, LeaseRow(s, a)
      PROVE  BecomesRow(s, [row[s] EXCEPT !.state = "leased", !.owner = a,
                              !.expired = FALSE, !.attempt = NextAttempt(s)])
  BY <1>1, <1>2, <1>3, <1>4 DEF LeaseRow, Row
<1>5. ASSUME NEW a \in Actor, NEW now \in BOOLEAN, RetryRow(s, a, now)
      PROVE  BecomesRow(s, [row[s] EXCEPT !.state = "queued", !.owner = a,
                              !.expired = FALSE, !.failedBefore = TRUE, !.due = now])
  BY <1>1, <1>2, <1>5 DEF RetryRow, Row
<1>6. ASSUME CompleteRow(s)
      PROVE  BecomesRow(s, [row[s] EXCEPT !.state = "done", !.owner = NoOne,
                              !.expired = FALSE, !.failedBefore = FALSE])
  BY <1>1, <1>2, <1>6 DEF CompleteRow, Row
<1>7. ASSUME FailRow(s)
      PROVE  BecomesRow(s, [row[s] EXCEPT !.state = "failed", !.owner = NoOne,
                              !.expired = FALSE, !.failedBefore = TRUE])
  BY <1>1, <1>2, <1>7 DEF FailRow, Row
<1>8. ASSUME ExpireRow(s) PROVE BecomesRow(s, [row[s] EXCEPT !.expired = TRUE])
  BY <1>1, <1>2, <1>8 DEF ExpireRow, Row
<1>9. ASSUME DueRow(s) PROVE BecomesRow(s, [row[s] EXCEPT !.due = TRUE])
  BY <1>1, <1>2, <1>9 DEF DueRow, Row
<1> QED BY <1>4, <1>5, <1>6, <1>7, <1>8, <1>9

\* Leasing a row never lowers its attempt count, and leaves it positive.
LEMMA NextAttemptBounds ==
  ASSUME LedgerTypeOK, NEW s \in Step
  PROVE  /\ NextAttempt(s) \in Nat
         /\ NextAttempt(s) >= row[s].attempt
         /\ NextAttempt(s) <= row[s].attempt + 1
         /\ NextAttempt(s) >= 1
  BY DEF NextAttempt, LedgerTypeOK, Row

\* What the three ways of closing a row have in common.
Closes(a, s) ==
  /\ Release(a, s)
  /\ BecomesRow(s, row'[s])
  /\ row'[s].state \in {"queued", "done", "failed"}
  /\ row'[s].attempt = row[s].attempt
  /\ row'[s].state = "queued" => row'[s].failedBefore

LEMMA CompleteCloses ==
  ASSUME TypeOK, NEW a \in Actor, NEW s \in Step, Complete(a, s)
  PROVE  Closes(a, s)
<1>1. CompleteRow(s) /\ Release(a, s) /\ row[s] \in Row
  BY DEF Complete, TypeOK, LedgerTypeOK
<1>2. BecomesRow(s, [row[s] EXCEPT !.state = "done", !.owner = NoOne,
                       !.expired = FALSE, !.failedBefore = FALSE])
  BY <1>1, Statements DEF TypeOK
<1> QED BY <1>1, <1>2 DEF Closes, BecomesRow, Row

LEMMA FailCloses ==
  ASSUME TypeOK, NEW a \in Actor, NEW s \in Step, Fail(a, s)
  PROVE  Closes(a, s)
<1>1. FailRow(s) /\ Release(a, s) /\ row[s] \in Row
  BY DEF Fail, TypeOK, LedgerTypeOK
<1>2. BecomesRow(s, [row[s] EXCEPT !.state = "failed", !.owner = NoOne,
                       !.expired = FALSE, !.failedBefore = TRUE])
  BY <1>1, Statements DEF TypeOK
<1> QED BY <1>1, <1>2 DEF Closes, BecomesRow, Row

LEMMA RetryCloses ==
  ASSUME TypeOK, NEW a \in Actor, NEW s \in Step, Retry(a, s)
  PROVE  Closes(a, s)
<1>1. PICK now \in BOOLEAN : RetryRow(s, a, now)
  BY DEF Retry
<1>2. Release(a, s) /\ row[s] \in Row
  BY DEF Retry, TypeOK, LedgerTypeOK
<1>3. BecomesRow(s, [row[s] EXCEPT !.state = "queued", !.owner = a,
                       !.expired = FALSE, !.failedBefore = TRUE, !.due = now])
  BY <1>1, Statements DEF TypeOK
<1> QED BY <1>2, <1>3 DEF Closes, BecomesRow, Row

\* What an enqueue, whether or not the step has a row already, comes down to.
LEMMA EnqueueEffect ==
  ASSUME TypeOK, NEW s \in Step, Enqueue(s)
  PROVE  \/ row' = row
         \/ /\ BecomesRow(s, row'[s])
            /\ row[s].state = "absent" /\ row'[s].state = "queued"
            /\ row'[s] \in Row
<1> DEFINE n == Cardinality({t \in Step : row[t].state # "absent"})
           r == [AbsentRow EXCEPT !.state = "queued", !.attempt = attempts[s], !.born = n]
<1>1. row \in [Step -> Row] /\ attempts[s] \in Nat /\ EnqueueRow(s)
  BY DEF TypeOK, LedgerTypeOK, Enqueue
<1>2. n \in Nat
  <2>1. IsFiniteSet(Step)
    BY FS_Interval, LedgerAssumption DEF Step
  <2> QED BY <2>1, FS_Subset, FS_CardinalityType
<1>3. CASE row[s].state # "absent"
  BY <1>1, <1>3 DEF EnqueueRow
<1>4. CASE row[s].state = "absent"
  <2>1. r \in Row /\ r.state = "queued"
    BY <1>1, <1>2 DEF Row, AbsentRow
  <2>2. row' = [row EXCEPT ![s] = r]
    BY <1>1, <1>4 DEF EnqueueRow
  <2> QED BY <1>1, <1>4, <2>1, <2>2 DEF BecomesRow
<1> QED BY <1>3, <1>4

-----------------------------------------------------------------------------
LEMMA InitTypeOK == Init => TypeOK
  BY LedgerAssumption DEF Init, LedgerInit, TypeOK, LedgerTypeOK, Row, AbsentRow,
     SessionStatus, StepState

LEMMA ReleaseTypeOK ==
  ASSUME TypeOK, NEW a \in Actor, NEW s \in Step, Closes(a, s)
  PROVE  TypeOK'
<1>1. row' \in [Step -> Row]
  BY DEF Closes, BecomesRow
<1>2. held' \in [Actor -> SUBSET Step]
  BY DEF Closes, Release, TypeOK
<1> QED BY <1>1, <1>2 DEF Closes, Release, TypeOK, LedgerTypeOK

LEMMA GrantTypeOK ==
  ASSUME TypeOK, NEW a \in Actor, NEW s \in Step, Grant(a, s)
  PROVE  TypeOK'
<1>1. row' \in [Step -> Row]
  BY Statements DEF Grant, BecomesRow, TypeOK
<1>2. held' \in [Actor -> SUBSET Step]
  BY DEF Grant, TypeOK
<1>3. grants' \in [Step -> Nat]
  BY DEF Grant, TypeOK
<1> QED BY <1>1, <1>2, <1>3 DEF Grant, TypeOK, LedgerTypeOK

LEMMA NextTypeOK == TypeOK /\ [Next]_vars => TypeOK'
<1> SUFFICES ASSUME TypeOK, [Next]_vars PROVE TypeOK'
  OBVIOUS
<1>1. ASSUME NEW s \in Step, Enqueue(s) PROVE TypeOK'
  BY <1>1, EnqueueEffect DEF Enqueue, BecomesRow, history, TypeOK, LedgerTypeOK
<1>2. ASSUME NEW a \in Actor, NEW s \in Step, Grant(a, s) PROVE TypeOK'
  BY <1>2, GrantTypeOK
<1>3. ASSUME NEW a \in Actor, NEW s \in Step, Complete(a, s) \/ Fail(a, s) \/ Retry(a, s)
      PROVE TypeOK'
  BY <1>3, CompleteCloses, FailCloses, RetryCloses, ReleaseTypeOK
<1>4. ASSUME NEW a \in Actor, Forget(a) PROVE TypeOK'
  BY <1>4 DEF Forget, ledgerVars, TypeOK, LedgerTypeOK
<1>5. ASSUME NEW s \in Step, ReportStep(s) PROVE TypeOK'
  <2>1. step' \in [Step -> StepState]
    BY <1>5, ClientAssumption DEF ReportStep, UpdateStep, TypeOK, LedgerTypeOK
  <2>2. row[s].attempt \in Nat /\ attempts[s] \in Nat
    BY DEF TypeOK, LedgerTypeOK, Row
  <2>3. attempts' \in [Step -> Nat]
    BY <1>5, <2>2 DEF ReportStep, TypeOK, LedgerTypeOK
  <2> QED BY <1>5, <2>1, <2>3 DEF ReportStep, history, TypeOK, LedgerTypeOK
<1>6. CASE ReportSession
  BY <1>6, ClientAssumption DEF ReportSession, SetSession, history, TypeOK, LedgerTypeOK
<1>7. ASSUME NEW s \in Step, LeaseExpires(s) PROVE TypeOK'
  <2>1. row' \in [Step -> Row]
    BY <1>7, Statements DEF LeaseExpires, BecomesRow, TypeOK
  <2>2. lapses' \in [Step -> Nat]
    BY <1>7 DEF LeaseExpires, TypeOK
  <2> QED BY <1>7, <2>1, <2>2 DEF LeaseExpires, TypeOK, LedgerTypeOK
<1>8. ASSUME NEW s \in Step, BackoffElapses(s) PROVE TypeOK'
  <2>1. row' \in [Step -> Row]
    BY <1>8, Statements DEF BackoffElapses, BecomesRow, TypeOK
  <2> QED BY <1>8, <2>1 DEF BackoffElapses, history, TypeOK, LedgerTypeOK
<1>9. CASE UNCHANGED vars
  BY <1>9 DEF vars, ledgerVars, history, TypeOK, LedgerTypeOK
<1> QED
  BY <1>1, <1>2, <1>3, <1>4, <1>5, <1>6, <1>7, <1>8, <1>9
  DEF Next, LeaseItem, LeaseNextItem

\* Whatever the clients do, the ledger holds well-formed rows.
THEOREM LedgerTypeCorrect == Spec => []TypeOK
  BY InitTypeOK, NextTypeOK, PTL DEF Spec

-----------------------------------------------------------------------------
(* The next-state relation, row by row. *)

\* Every step of the clients, as it looks to the row, the holders and the two
\* counters of one step t.
Enqueues(t) ==
  /\ row[t].state = "absent" /\ row'[t].state = "queued"
  /\ UNCHANGED history

Grants(t) ==
  \E a \in Actor :
    /\ Eligible(t) /\ t \notin held[a]
    /\ row'[t].state = "leased" /\ ~row'[t].expired
    /\ row'[t].attempt = NextAttempt(t)
    /\ row'[t].failedBefore = row[t].failedBefore
    /\ Holders(t)' = Holders(t) \cup {a}
    /\ grants'[t] = grants[t] + 1 /\ lapses'[t] = lapses[t]

Closed(t) ==
  \E a \in Holders(t) :
    /\ row'[t].state \in {"queued", "done", "failed"}
    /\ row'[t].state = "queued" => row'[t].failedBefore
    /\ row'[t].attempt = row[t].attempt
    /\ Holders(t)' = Holders(t) \ {a}
    /\ grants'[t] = grants[t] /\ lapses'[t] = lapses[t]

Lapses(t) ==
  /\ row[t].state = "leased" /\ ~row[t].expired
  /\ row'[t] = [row[t] EXCEPT !.expired = TRUE]
  /\ Holders(t)' = Holders(t)
  /\ grants'[t] = grants[t] /\ lapses'[t] = lapses[t] + 1

Rests(t) ==
  /\ \/ row'[t] = row[t]
     \/ row'[t] = [row[t] EXCEPT !.due = TRUE] /\ row[t].state = "queued"
  /\ Holders(t)' \subseteq Holders(t)
  /\ grants'[t] = grants[t] /\ lapses'[t] = lapses[t]

LEMMA RowByRow ==
  ASSUME TypeOK, [Next]_vars, NEW t \in Step
  PROVE  Enqueues(t) \/ Grants(t) \/ Closed(t) \/ Lapses(t) \/ Rests(t)
<1>1. ASSUME NEW s \in Step, Enqueue(s) PROVE Enqueues(t) \/ Rests(t)
  <2>1. UNCHANGED history
    BY <1>1 DEF Enqueue, history
  <2>2. Holders(t)' = Holders(t)
    BY <2>1 DEF Holders, history
  <2> QED
    BY <1>1, <2>1, <2>2, EnqueueEffect DEF Enqueues, Rests, BecomesRow, history
<1>2. ASSUME NEW s \in Step, NEW a \in Actor, Grant(a, s), Eligible(s)
      PROVE Grants(t) \/ Rests(t)
  <2>1. BecomesRow(s, [row[s] EXCEPT !.state = "leased", !.owner = a,
                         !.expired = FALSE, !.attempt = NextAttempt(s)])
    BY <1>2, Statements DEF Grant, TypeOK
  <2>2. held' = [held EXCEPT ![a] = @ \cup {s}] /\ held \in [Actor -> SUBSET Step]
    BY <1>2 DEF Grant, TypeOK
  <2>3. CASE t = s
    <3>1. Holders(t)' = Holders(t) \cup {a}
      BY <2>2, <2>3 DEF Holders
    <3>2. grants'[t] = grants[t] + 1 /\ lapses'[t] = lapses[t]
      BY <1>2, <2>3 DEF Grant, TypeOK
    <3>3. row[t] \in Row
      BY DEF TypeOK, LedgerTypeOK
    <3> QED BY <1>2, <2>1, <2>3, <3>1, <3>2, <3>3 DEF Grants, Grant, BecomesRow, Row
  <2>4. CASE t # s
    <3>1. Holders(t)' = Holders(t)
      BY <2>2, <2>4 DEF Holders
    <3>2. grants'[t] = grants[t] /\ lapses'[t] = lapses[t]
      BY <1>2, <2>4 DEF Grant, TypeOK
    <3> QED BY <2>1, <2>4, <3>1, <3>2 DEF Rests, BecomesRow
  <2> QED BY <2>3, <2>4
<1>3. ASSUME NEW s \in Step, NEW a \in Actor, Closes(a, s)
      PROVE Closed(t) \/ Rests(t)
  <2>1. /\ held' = [held EXCEPT ![a] = @ \ {s}] /\ held \in [Actor -> SUBSET Step]
        /\ s \in held[a]
        /\ grants' = grants /\ lapses' = lapses
    BY <1>3 DEF Closes, Release, TypeOK
  <2>2. CASE t = s
    <3>1. Holders(t)' = Holders(t) \ {a} /\ a \in Holders(t)
      BY <2>1, <2>2 DEF Holders
    <3> QED BY <1>3, <2>1, <2>2, <3>1 DEF Closed, Closes
  <2>3. CASE t # s
    <3>1. Holders(t)' = Holders(t)
      BY <2>1, <2>3 DEF Holders
    <3> QED BY <1>3, <2>1, <2>3, <3>1 DEF Rests, Closes, BecomesRow
  <2> QED BY <2>2, <2>3
<1>4. ASSUME NEW s \in Step, NEW a \in Actor, Complete(a, s) \/ Fail(a, s) \/ Retry(a, s)
      PROVE Closed(t) \/ Rests(t)
  BY <1>3, <1>4, CompleteCloses, FailCloses, RetryCloses
<1>5. ASSUME NEW a \in Actor, Forget(a) PROVE Rests(t)
  <2>1. Holders(t)' \subseteq Holders(t)
    BY <1>5 DEF Forget, Holders, TypeOK
  <2> QED BY <1>5, <2>1 DEF Forget, Rests, ledgerVars
<1>6. ASSUME NEW s \in Step, LeaseExpires(s) PROVE Lapses(t) \/ Rests(t)
  <2>1. /\ row[s].state = "leased" /\ ~row[s].expired
        /\ BecomesRow(s, [row[s] EXCEPT !.expired = TRUE])
    BY <1>6, Statements DEF LeaseExpires, ExpireRow, TypeOK
  <2>2. Holders(t)' = Holders(t) /\ grants' = grants
    BY <1>6 DEF LeaseExpires, Holders
  <2>3. lapses'[t] = IF t = s THEN lapses[t] + 1 ELSE lapses[t]
    BY <1>6 DEF LeaseExpires, TypeOK
  <2> QED BY <2>1, <2>2, <2>3 DEF Lapses, Rests, BecomesRow
<1>7. ASSUME NEW s \in Step, BackoffElapses(s) PROVE Rests(t)
  <2>1. /\ row[s].state = "queued"
        /\ BecomesRow(s, [row[s] EXCEPT !.due = TRUE])
    BY <1>7, Statements DEF BackoffElapses, DueRow, TypeOK
  <2>2. Holders(t)' = Holders(t) /\ grants' = grants /\ lapses' = lapses
    BY <1>7 DEF BackoffElapses, Holders, history
  <2> QED BY <2>1, <2>2 DEF Rests, BecomesRow
<1>8. CASE (\E s \in Step : ReportStep(s)) \/ ReportSession \/ UNCHANGED vars
  <2>1. row' = row /\ UNCHANGED history
    BY <1>8 DEF ReportStep, ReportSession, vars, ledgerVars, history
  <2>2. Holders(t)' = Holders(t)
    BY <2>1 DEF Holders, history
  <2> QED BY <2>1, <2>2 DEF Rests, history
<1>9. ASSUME NEW a \in Actor, LeaseNextItem(a) PROVE Grants(t) \/ Rests(t)
  BY <1>2, <1>9 DEF LeaseNextItem, Oldest
<1> QED
  BY <1>1, <1>2, <1>4, <1>5, <1>6, <1>7, <1>8, <1>9 DEF Next, LeaseItem

-----------------------------------------------------------------------------
(* Counting attempts. *)

\* A row that has never been leased says so, and every lease that was granted
\* is in the row's attempt count or was taken over from one that ran out.
CountInv ==
  \A s \in Step :
    /\ row[s].state = "absent" => row[s].attempt = 0 /\ grants[s] = 0
    /\ row[s].state = "queued" /\ ~row[s].failedBefore => grants[s] = 0
    /\ grants[s] + LapsedLease(s) <= row[s].attempt + lapses[s]

LEMMA InitCountInv == Init => CountInv
  BY DEF Init, LedgerInit, CountInv, AbsentRow, LapsedLease

LEMMA NextCountInv == TypeOK /\ CountInv /\ [Next]_vars => CountInv'
<1> SUFFICES ASSUME TypeOK, CountInv, [Next]_vars, NEW t \in Step
             PROVE  /\ row'[t].state = "absent" => row'[t].attempt = 0 /\ grants'[t] = 0
                    /\ row'[t].state = "queued" /\ ~row'[t].failedBefore => grants'[t] = 0
                    /\ grants'[t] + LapsedLease(t)' <= row'[t].attempt + lapses'[t]
  BY DEF CountInv
<1>1. TypeOK'
  BY NextTypeOK
<1>2. /\ row[t] \in Row /\ row'[t] \in Row
      /\ grants[t] \in Nat /\ lapses[t] \in Nat
      /\ grants'[t] \in Nat /\ lapses'[t] \in Nat
  BY <1>1 DEF TypeOK, LedgerTypeOK
<1>3. /\ row[t].attempt \in Nat /\ row'[t].attempt \in Nat
      /\ row[t].expired \in BOOLEAN /\ row'[t].expired \in BOOLEAN
  BY <1>2 DEF Row
<1>4. /\ row[t].state = "absent" => row[t].attempt = 0 /\ grants[t] = 0
      /\ row[t].state = "queued" /\ ~row[t].failedBefore => grants[t] = 0
      /\ grants[t] + LapsedLease(t) <= row[t].attempt + lapses[t]
  BY DEF CountInv
<1>5. CASE Enqueues(t)
  BY <1>2, <1>3, <1>4, <1>5 DEF Enqueues, LapsedLease, history
<1>6. CASE Grants(t)
  <2>1. PICK a \in Actor :
          /\ Eligible(t)
          /\ row'[t].state = "leased" /\ ~row'[t].expired
          /\ row'[t].attempt = NextAttempt(t)
          /\ grants'[t] = grants[t] + 1 /\ lapses'[t] = lapses[t]
    BY <1>6 DEF Grants
  <2>2. /\ NextAttempt(t) >= row[t].attempt /\ NextAttempt(t) >= 1
        /\ row[t].failedBefore => NextAttempt(t) = row[t].attempt + 1
    BY NextAttemptBounds DEF TypeOK, NextAttempt
  <2>3. CASE row[t].state = "queued" /\ row[t].failedBefore
    BY <1>2, <1>3, <1>4, <2>1, <2>2, <2>3 DEF LapsedLease
  <2>4. CASE row[t].state = "queued" /\ ~row[t].failedBefore
    BY <1>2, <1>3, <1>4, <2>1, <2>2, <2>4 DEF LapsedLease
  <2>5. CASE row[t].state = "leased" /\ row[t].expired
    BY <1>2, <1>3, <1>4, <2>1, <2>2, <2>5 DEF LapsedLease
  <2> QED BY <2>1, <2>3, <2>4, <2>5 DEF Eligible
<1>7. CASE Closed(t)
  BY <1>2, <1>3, <1>4, <1>7 DEF Closed, LapsedLease
<1>8. CASE Lapses(t)
  <2>1. row'[t].state = "leased" /\ row'[t].expired /\ row'[t].attempt = row[t].attempt
    BY <1>2, <1>8 DEF Lapses, Row
  <2> QED BY <1>2, <1>3, <1>4, <1>8, <2>1 DEF Lapses, LapsedLease
<1>9. CASE Rests(t)
  <2>1. /\ row'[t].state = row[t].state /\ row'[t].attempt = row[t].attempt
        /\ row'[t].expired = row[t].expired
        /\ row'[t].failedBefore = row[t].failedBefore
    BY <1>2, <1>9 DEF Rests, Row
  <2> QED BY <1>2, <1>3, <1>4, <1>9, <2>1 DEF Rests, LapsedLease
<1> QED BY <1>5, <1>6, <1>7, <1>8, <1>9, RowByRow

LEMMA CountInvariant == Spec => [](TypeOK /\ CountInv)
<1>1. Init => TypeOK /\ CountInv
  BY InitTypeOK, InitCountInv
<1>2. TypeOK /\ CountInv /\ [Next]_vars => (TypeOK /\ CountInv)'
  BY NextTypeOK, NextCountInv
<1> QED BY <1>1, <1>2, PTL DEF Spec

\* RUNBOOK.md: retries run "until max_attempts is exhausted".  For any clients,
\* the count that limit is compared with misses a grant only if a lease ran out.
THEOREM EveryGrantCounted == Spec => []GrantsCounted
<1>1. CountInv => GrantsCounted
  BY DEF CountInv, GrantsCounted
<1> QED BY <1>1, CountInvariant, PTL

\* RUNBOOK.md: the queue runtime "keeps attempt_count monotonic".  No statement
\* of any client, in any order, lowers the attempt count of a queue row.
THEOREM AttemptsNeverDecrease == Spec => AttemptMonotone
<1>1. ASSUME TypeOK, CountInv, [Next]_vars, NEW t \in Step
      PROVE  row'[t].attempt >= row[t].attempt
  <2>1. row[t] \in Row /\ row'[t] \in Row
    BY NextTypeOK, <1>1 DEF TypeOK, LedgerTypeOK
  <2>2. row[t].attempt \in Nat /\ row'[t].attempt \in Nat
    BY <2>1 DEF Row
  <2>3. CASE Enqueues(t)
    BY <1>1, <2>2, <2>3 DEF Enqueues, CountInv
  <2>4. CASE Grants(t)
    BY <1>1, <2>2, <2>4, NextAttemptBounds DEF Grants, TypeOK
  <2>5. CASE Closed(t)
    BY <2>2, <2>5 DEF Closed
  <2>6. CASE Lapses(t)
    BY <2>1, <2>2, <2>6 DEF Lapses, Row
  <2>7. CASE Rests(t)
    BY <2>1, <2>2, <2>7 DEF Rests, Row
  <2> QED BY <1>1, <2>3, <2>4, <2>5, <2>6, <2>7, RowByRow
<1>2. TypeOK /\ CountInv /\ [Next]_vars
        => [\A s \in Step : row'[s].attempt >= row[s].attempt]_row
  BY <1>1
<1> QED BY <1>2, CountInvariant, PTL DEF Spec, AttemptMonotone

-----------------------------------------------------------------------------
(* Accounting for leases. *)

LEMMA HoldersFinite ==
  ASSUME NEW t \in Step
  PROVE  IsFiniteSet(Holders(t)) /\ Cardinality(Holders(t)) \in Nat
<1>1. IsFiniteSet(Holders(t))
  BY LedgerAssumption, FS_Subset DEF Holders
<1> QED BY <1>1, FS_CardinalityType

LEMMA NextLeaseAccounting ==
  TypeOK /\ LeaseAccounting /\ [Next]_vars => LeaseAccounting'
<1> SUFFICES ASSUME TypeOK, LeaseAccounting, [Next]_vars, NEW t \in Step
             PROVE  Cardinality(Holders(t)') <= lapses'[t] + LiveLease(t)'
  BY DEF LeaseAccounting
<1>1. /\ row[t] \in Row /\ row'[t] \in Row
      /\ lapses[t] \in Nat /\ lapses'[t] \in Nat
  BY NextTypeOK DEF TypeOK, LedgerTypeOK
<1>2. IsFiniteSet(Holders(t)) /\ Cardinality(Holders(t)) \in Nat
  BY HoldersFinite
<1>3. Cardinality(Holders(t)) <= lapses[t] + LiveLease(t)
  BY DEF LeaseAccounting
<1>4. LiveLease(t) \in 0..1 /\ LiveLease(t)' \in 0..1
  BY DEF LiveLease
<1>5. CASE Enqueues(t)
  <2>1. Holders(t)' = Holders(t)
    BY <1>5 DEF Enqueues, Holders, history
  <2> QED BY <1>1, <1>2, <1>3, <1>4, <1>5, <2>1 DEF Enqueues, LiveLease, history
<1>6. CASE Grants(t)
  <2>1. PICK a \in Actor :
          /\ Eligible(t) /\ t \notin held[a]
          /\ row'[t].state = "leased" /\ ~row'[t].expired
          /\ Holders(t)' = Holders(t) \cup {a}
          /\ lapses'[t] = lapses[t]
    BY <1>6 DEF Grants
  <2>2. LiveLease(t) = 0 /\ LiveLease(t)' = 1
    BY <2>1 DEF Eligible, LiveLease
  <2>3. a \notin Holders(t)
    BY <2>1 DEF Holders
  <2>4. Cardinality(Holders(t)') = Cardinality(Holders(t)) + 1
    BY <1>2, <2>1, <2>3, FS_AddElement
  <2> QED BY <1>1, <1>2, <1>3, <2>1, <2>2, <2>4
<1>7. CASE Closed(t)
  <2>1. PICK a \in Holders(t) :
          /\ row'[t].state \in {"queued", "done", "failed"}
          /\ Holders(t)' = Holders(t) \ {a}
          /\ lapses'[t] = lapses[t]
    BY <1>7 DEF Closed
  <2>2. Cardinality(Holders(t)') = Cardinality(Holders(t)) - 1
    BY <1>2, <2>1, FS_RemoveElement
  <2>3. LiveLease(t)' = 0
    BY <2>1 DEF LiveLease
  <2> QED BY <1>1, <1>2, <1>3, <1>4, <2>1, <2>2, <2>3
<1>8. CASE Lapses(t)
  <2>1. LiveLease(t) <= 1 /\ lapses'[t] = lapses[t] + 1 /\ Holders(t)' = Holders(t)
    BY <1>4, <1>8 DEF Lapses
  <2> QED BY <1>1, <1>2, <1>3, <1>4, <2>1
<1>9. CASE Rests(t)
  <2>1. /\ row'[t].state = row[t].state /\ row'[t].expired = row[t].expired
    BY <1>1, <1>9 DEF Rests, Row
  <2>2. LiveLease(t)' = LiveLease(t)
    BY <2>1 DEF LiveLease
  <2>3. Cardinality(Holders(t)') <= Cardinality(Holders(t)) /\ Cardinality(Holders(t)') \in Nat
    BY <1>2, <1>9, FS_Subset, FS_CardinalityType DEF Rests
  <2> QED BY <1>1, <1>2, <1>3, <1>4, <1>9, <2>2, <2>3 DEF Rests
<1> QED BY <1>5, <1>6, <1>7, <1>8, <1>9, RowByRow

\* Two clients run one step at once only if a lease on it ran out, for any
\* number of clients and whatever they do with the rows they were handed.
THEOREM LeasesAccountedFor == Spec => []LeaseAccounting
<1>1. Init => LeaseAccounting
  <2> SUFFICES ASSUME Init, NEW t \in Step
               PROVE  Cardinality(Holders(t)) <= lapses[t] + LiveLease(t)
    BY DEF LeaseAccounting
  <2>1. Holders(t) = {}
    BY DEF Init, Holders
  <2>2. Cardinality(Holders(t)) = 0
    BY <2>1, FS_EmptySet
  <2> QED BY <2>2 DEF Init, LiveLease
<1> QED BY <1>1, NextLeaseAccounting, LedgerTypeCorrect, PTL DEF Spec

-----------------------------------------------------------------------------
(* The ledger implements a lock that can go stale. *)

HeldBy == [s \in Step |-> Holders(s)]

LEMMA GrantAcquires ==
  ASSUME TypeOK, LeaseAccounting, NEW a \in Actor, NEW s \in Step,
         Eligible(s), Grant(a, s)
  PROVE  Lock!Acquire(a, s)
<1>1. LiveLease(s) = 0 /\ lapses[s] \in Nat
  BY DEF Eligible, LiveLease, TypeOK
<1>2. Cardinality(Holders(s)) <= lapses[s]
  BY <1>1 DEF LeaseAccounting
<1>3. a \notin Holders(s)
  BY DEF Grant, Holders
<1>4. held \in [Actor -> SUBSET Step] /\ held' = [held EXCEPT ![a] = @ \cup {s}]
  BY DEF Grant, TypeOK
<1>5. \A t \in Step : Holders(t)' = IF t = s THEN Holders(t) \cup {a} ELSE Holders(t)
  BY <1>4 DEF Holders
<1>6. HeldBy' = [HeldBy EXCEPT ![s] = @ \cup {a}]
  BY <1>5 DEF HeldBy
<1>7. Lock!Cardinality(Holders(s)) = Cardinality(Holders(s))
  BY DEF Lock!Cardinality, Cardinality
<1> QED BY <1>2, <1>3, <1>6, <1>7 DEF Lock!Acquire, HeldBy, Grant

LEMMA ReleaseLeaves ==
  ASSUME TypeOK, NEW a \in Actor, NEW s \in Step, Release(a, s)
  PROVE  Lock!Leave(a, s)
<1>1. a \in Holders(s)
  BY DEF Release, Holders
<1>2. held \in [Actor -> SUBSET Step] /\ held' = [held EXCEPT ![a] = @ \ {s}]
  BY DEF Release, TypeOK
<1>3. \A t \in Step : Holders(t)' = IF t = s THEN Holders(t) \ {a} ELSE Holders(t)
  BY <1>2 DEF Holders
<1>4. HeldBy' = [HeldBy EXCEPT ![s] = @ \ {a}]
  BY <1>3 DEF HeldBy
<1> QED BY <1>1, <1>4 DEF Lock!Leave, HeldBy, Release

LEMMA ForgetVanishes ==
  ASSUME TypeOK, NEW a \in Actor, Forget(a)
  PROVE  Lock!Vanish(a)
<1>1. held \in [Actor -> SUBSET Step] /\ held' = [held EXCEPT ![a] = {}]
  BY DEF Forget, TypeOK
<1>2. \A t \in Step : Holders(t)' = Holders(t) \ {a}
  BY <1>1 DEF Holders
<1> QED BY <1>2 DEF Lock!Vanish, Forget

LEMMA NextRefinesLock ==
  TypeOK /\ LeaseAccounting /\ [Next]_vars => [Lock!LockNext]_(Lock!lockVars)
<1> SUFFICES ASSUME TypeOK, LeaseAccounting, [Next]_vars
             PROVE  Lock!LockNext \/ UNCHANGED Lock!lockVars
  OBVIOUS
<1>1. ASSUME UNCHANGED <<held, lapses>> PROVE UNCHANGED Lock!lockVars
  BY <1>1 DEF Lock!lockVars, Holders
<1>2. ASSUME NEW s \in Step, Enqueue(s) \/ ReportStep(s) \/ BackoffElapses(s)
      PROVE  UNCHANGED Lock!lockVars
  BY <1>1, <1>2 DEF Enqueue, ReportStep, BackoffElapses, history
<1>3. ASSUME NEW s \in Step, LeaseExpires(s) PROVE Lock!LockNext
  <2>1. Lock!GoStale(s)
    BY <1>3 DEF LeaseExpires, Lock!GoStale, Holders
  <2> QED BY <2>1 DEF Lock!LockNext
<1>4. ASSUME NEW a \in Actor, NEW s \in Step, Eligible(s), Grant(a, s) PROVE Lock!LockNext
  BY <1>4, GrantAcquires DEF Lock!LockNext
<1>5. ASSUME NEW a \in Actor, NEW s \in Step, Complete(a, s) \/ Fail(a, s) \/ Retry(a, s)
      PROVE  Lock!LockNext
  BY <1>5, ReleaseLeaves DEF Complete, Fail, Retry, Lock!LockNext
<1>6. ASSUME NEW a \in Actor, Forget(a) PROVE Lock!LockNext
  BY <1>6, ForgetVanishes DEF Lock!LockNext
<1>7. CASE ReportSession
  BY <1>1, <1>7 DEF ReportSession, history
<1>8. CASE UNCHANGED vars
  BY <1>1, <1>8 DEF vars, history
<1> QED
  BY <1>2, <1>3, <1>4, <1>5, <1>6, <1>7, <1>8
  DEF Next, LeaseItem, LeaseNextItem, Oldest

\* Every behaviour of the ledger and its clients is one of a lock per step that
\* admits a second holder only after it went stale.
THEOREM LedgerImplementsLock == Spec => ImplementsLock
<1>1. Init => Lock!LockInit
  BY DEF Init, Lock!LockInit, Holders
<1> QED
  BY <1>1, NextRefinesLock, LedgerTypeCorrect, LeasesAccountedFor, PTL
  DEF Spec, ImplementsLock, Lock!LockSpec

-----------------------------------------------------------------------------
(* Replanning over the same ledger: for any plan, any number of workers and of *)
(* replacements.                                                               *)

CONSTANTS Plan, PlanDeps, Replannable, MayRaise, MaxReplans, MaxCrashes

VARIABLES made, key, origin, replans, calls, pc, item, ready, done, crashes

Replan == INSTANCE Replanning WITH Deps <- PlanDeps, CanFail <- MayRaise

InHand ==
  {"start", "mark", "run", "invoked", "close", "replace", "enqueue_new", "requeue",
   "fail_replanned"}

\* Until the tool has answered for good and, if it failed, the replacement exists.
Trying == {"start", "mark", "run", "invoked", "replace"}

Labels == InHand \cup
  {"idle", "fail_step", "fail_session", "step_replanned", "next", "scan", "filter",
   "enqueue", "finish"}

WorksOn(a, s) == pc[a] \in InHand /\ item[a] = s

\* The step may yet be carried out, or replaced.
Open(s) ==
  \/ row[s].state \in {"absent", "queued"}
  \/ /\ row[s].state = "leased"
     /\ \A a \in Actor : WorksOn(a, s) => pc[a] \in Trying

Replacing == {a \in Actor : pc[a] = "replace"}

ReplanTypes ==
  /\ LedgerTypeOK
  /\ made \in Plan..N
  /\ key \in [Step -> 0..Plan]
  /\ \A s \in 1..made : key[s] # 0
  /\ origin \in [Step -> 0..N]
  /\ \A s \in Step : origin[s] < s
  /\ replans \in [Step -> 0..MaxReplans]
  /\ calls \in [Step -> Nat]
  /\ pc \in [Actor -> Labels]
  /\ item \in [Actor -> Step]
  /\ ready \in [Actor -> SUBSET (1..made)]
  /\ done \in [Actor -> BOOLEAN]
  /\ crashes \in 0..MaxCrashes
  /\ \A a \in Actor : item[a] \in 1..made

\* What the statements of a replacement rely on.
ReplanSteps ==
  /\ \A a \in Actor :
       /\ pc[a] = "replace" => replans[item[a]] < MaxReplans
       /\ pc[a] = "enqueue_new" => \E t \in 1..made : origin[t] = item[a]
       /\ pc[a] = "enqueue" => ready[a] # {}
  /\ \A s \in Step : s > made => row[s].state = "absent"
  /\ made + Cardinality(Replacing) <= N

\* Nobody leases a row somebody works on.
OneWorker ==
  \A s \in Step, a \in Actor : WorksOn(a, s) =>
    /\ row[s].state = "leased" /\ ~row[s].expired
    /\ \A b \in Actor : WorksOn(b, s) => a = b

OpenOf(k) == {s \in 1..made : key[s] = k /\ Open(s)}
DoneOf(k) == {s \in 1..made : key[s] = k /\ step[s] = "completed"}
ReplacedBy(s) == {t \in 1..made : origin[t] = s}

\* A key has one step that is open or was carried out, and a step that is open was not
\* replaced: once more for every worker that died.
Replaced ==
  /\ \A k \in 1..Plan : Cardinality(OpenOf(k)) + Cardinality(DoneOf(k)) <= 1 + crashes
  /\ \A s \in 1..made :
       /\ Cardinality(ReplacedBy(s)) <= 1 + crashes
       /\ Open(s) => Cardinality(ReplacedBy(s)) <= crashes
  /\ \A s \in Step : s > made => step[s] # "completed"

ReplanInv == ReplanTypes /\ ReplanSteps /\ OneWorker /\ Replaced

\* No step is opened that was not: every step but the crash of a worker is of this kind.
Narrows == \A t \in Step : Open(t)' => Open(t)

-----------------------------------------------------------------------------
LEMMA PlanFacts ==
  ASSUME Replan!ReplanAssumption
  PROVE  /\ N \in Nat /\ N >= 1 /\ Plan \in 1..N /\ Step = 1..N
         /\ MaxReplans \in Nat /\ MaxCrashes \in Nat
         /\ IsFiniteSet(Actor) /\ NoOne \notin Actor
         /\ Replan!Step = Step
         /\ Replan!Made = 1..made
         /\ Replan!PlanKey = 1..Plan
         /\ Replan!RowInHand = InHand
BY LedgerAssumption DEF Replan!ReplanAssumption, Replan!Step, Step, Replan!Made,
   Replan!PlanKey, Replan!RowInHand, InHand

\* The statements of the ledger are the same in both modules.
LEMMA SameStatements ==
  ASSUME NEW s \in Step, NEW a \in Actor
  PROVE  /\ Replan!LeaseRow(s, a) => LeaseRow(s, a)
         /\ Replan!CompleteRow(s) => CompleteRow(s)
         /\ Replan!FailRow(s) => FailRow(s)
         /\ Replan!EnqueueRow(s) => EnqueueRow(s)
         /\ Replan!ExpireRow(s) => ExpireRow(s)
         /\ Replan!Oldest(s) => Eligible(s)
<1>1. Replan!LeaseRow(s, a) => LeaseRow(s, a)
  BY DEF Replan!LeaseRow, LeaseRow, Replan!NextAttempt, NextAttempt
<1>2. Replan!CompleteRow(s) => CompleteRow(s)
  BY DEF Replan!CompleteRow, CompleteRow
<1>3. Replan!FailRow(s) => FailRow(s)
  BY DEF Replan!FailRow, FailRow
<1>4. Replan!EnqueueRow(s) => EnqueueRow(s)
  BY DEF Replan!EnqueueRow, EnqueueRow, Replan!AbsentRow, AbsentRow, Replan!Step, Step,
     Replan!Cardinality, Cardinality, Replan!IsFiniteSet
<1>5. Replan!ExpireRow(s) => ExpireRow(s)
  BY DEF Replan!ExpireRow, ExpireRow
<1>6. Replan!Oldest(s) => Eligible(s)
  BY DEF Replan!Oldest, Replan!Eligible, Eligible, Replan!Runnable, Runnable
<1> QED BY <1>1, <1>2, <1>3, <1>4, <1>5, <1>6

\* What each of them makes of a row.
LEMMA RowStatements ==
  ASSUME LedgerTypeOK, NEW s \in Step, NEW a \in Actor
  PROVE  /\ Replan!LeaseRow(s, a) =>
              /\ BecomesRow(s, row'[s])
              /\ row'[s].state = "leased" /\ ~row'[s].expired
         /\ Replan!CompleteRow(s) => BecomesRow(s, row'[s]) /\ row'[s].state = "done"
         /\ Replan!FailRow(s) => BecomesRow(s, row'[s]) /\ row'[s].state = "failed"
         /\ Replan!EnqueueRow(s) =>
              \/ row' = row
              \/ /\ BecomesRow(s, row'[s])
                 /\ row[s].state = "absent" /\ row'[s].state = "queued"
         /\ Replan!ExpireRow(s) =>
              /\ BecomesRow(s, row'[s])
              /\ row[s].state = "leased" /\ row'[s].state = "leased"
<1>0. row[s] \in Row /\ row \in [Step -> Row] /\ attempts[s] \in Nat
  BY DEF LedgerTypeOK
<1>1. ASSUME LeaseRow(s, a)
      PROVE  BecomesRow(s, row'[s]) /\ row'[s].state = "leased" /\ ~row'[s].expired
  <2>1. BecomesRow(s, [row[s] EXCEPT !.state = "leased", !.owner = a,
                               !.expired = FALSE, !.attempt = NextAttempt(s)])
    BY <1>1, Statements
  <2> QED BY <1>0, <2>1 DEF BecomesRow, Row
<1>2. ASSUME CompleteRow(s) PROVE BecomesRow(s, row'[s]) /\ row'[s].state = "done"
  <2>1. BecomesRow(s, [row[s] EXCEPT !.state = "done", !.owner = NoOne,
                               !.expired = FALSE, !.failedBefore = FALSE])
    BY <1>2, Statements
  <2> QED BY <1>0, <2>1 DEF BecomesRow, Row
<1>3. ASSUME FailRow(s) PROVE BecomesRow(s, row'[s]) /\ row'[s].state = "failed"
  <2>1. BecomesRow(s, [row[s] EXCEPT !.state = "failed", !.owner = NoOne,
                               !.expired = FALSE, !.failedBefore = TRUE])
    BY <1>3, Statements
  <2> QED BY <1>0, <2>1 DEF BecomesRow, Row
<1>4. ASSUME EnqueueRow(s)
      PROVE  \/ row' = row
             \/ /\ BecomesRow(s, row'[s])
                /\ row[s].state = "absent" /\ row'[s].state = "queued"
  <2> DEFINE n == Cardinality({t \in Step : row[t].state # "absent"})
             r == [AbsentRow EXCEPT !.state = "queued", !.attempt = attempts[s], !.born = n]
  <2>1. n \in Nat
    <3>1. IsFiniteSet(Step)
      BY FS_Interval, LedgerAssumption DEF Step
    <3> QED BY <3>1, FS_Subset, FS_CardinalityType
  <2>2. r \in Row /\ r.state = "queued"
    BY <1>0, <2>1 DEF Row, AbsentRow
  <2>3. CASE row[s].state = "absent"
    <3>1. row' = [row EXCEPT ![s] = r]
      BY <1>4, <2>3 DEF EnqueueRow
    <3> QED BY <1>0, <2>2, <2>3, <3>1 DEF BecomesRow
  <2> QED BY <1>4, <2>3 DEF EnqueueRow
<1>5. ASSUME ExpireRow(s)
      PROVE  /\ BecomesRow(s, row'[s])
             /\ row[s].state = "leased" /\ row'[s].state = "leased"
  <2>1. BecomesRow(s, [row[s] EXCEPT !.expired = TRUE]) /\ row[s].state = "leased"
    BY <1>5, Statements DEF ExpireRow
  <2> QED BY <1>0, <2>1 DEF BecomesRow, Row
<1> QED BY <1>1, <1>2, <1>3, <1>4, <1>5, SameStatements

LEMMA LeastOf ==
  ASSUME NEW S \in SUBSET Nat, S # {}
  PROVE  \E m \in S : \A x \in S : m <= x
<1>1. \E m \in S : \A x \in S : ~(<<x, m>> \in OpToRel(<, Nat))
  BY NatLessThanWellFounded, WFMin
<1>2. PICK m \in S : \A x \in S : ~(<<x, m>> \in OpToRel(<, Nat))
  BY <1>1
<1>3. ASSUME NEW x \in S PROVE m <= x
  <2>1. x \in Nat /\ m \in Nat /\ ~(<<x, m>> \in OpToRel(<, Nat))
    BY <1>2
  <2>2. ~(x < m)
    BY <2>1 DEF OpToRel
  <2>3. x \in Nat /\ m \in Nat
    OBVIOUS
  <2> QED BY <2>2, <2>3
<1> QED BY <1>3

LEMMA GreatestOf ==
  ASSUME NEW b \in Nat, NEW S \in SUBSET (1..b), S # {}
  PROVE  \E m \in S : \A x \in S : m >= x
<1> DEFINE B == {u \in Nat : \A x \in S : x <= u}
<1>1. PICK u \in B : \A v \in B : u <= v
  <2>1. B \in SUBSET Nat /\ b \in B
    OBVIOUS
  <2> HIDE DEF B
  <2> QED BY <2>1, LeastOf
<1>2. u \in S
  <2> SUFFICES ASSUME u \notin S PROVE FALSE
    OBVIOUS
  <2>1. PICK x \in S : TRUE
    OBVIOUS
  <2>2. x < u /\ x \in Nat /\ u \in Nat
    BY <2>1
  <2>3. u - 1 \in B
    BY <2>2
  <2> QED BY <1>1, <2>2, <2>3
<1> QED BY <1>2

\* Max and Min of the steps that exist.
LEMMA ExtremesOf ==
  ASSUME ReplanTypes, Replan!ReplanAssumption, NEW S \in SUBSET (1..made), S # {}
  PROVE  /\ Replan!Min(S) \in S
         /\ Replan!Max(S) \in S /\ \A x \in S : Replan!Max(S) >= x
<1>1. made \in Nat /\ S \in SUBSET Nat
  BY PlanFacts DEF ReplanTypes
<1>2. \E m \in S : \A x \in S : m <= x
  BY <1>1, LeastOf
<1>3. \E m \in S : \A x \in S : m >= x
  BY <1>1, GreatestOf
<1>4. Replan!Min(S) \in S
  BY <1>2 DEF Replan!Min
<1>5. Replan!Max(S) \in S /\ \A x \in S : Replan!Max(S) >= x
  BY <1>3 DEF Replan!Max
<1> QED BY <1>4, <1>5

-----------------------------------------------------------------------------
(* Types. *)

\* A worker moves and writes at most the session, a step or a row.
LEMMA MoveTypes ==
  ASSUME ReplanTypes, NEW a \in Actor, NEW from, NEW to \in Labels,
         Replan!Move(a, from, to), LedgerTypeOK',
         UNCHANGED <<made, key, origin, replans, item, crashes>>,
         calls' \in [Step -> Nat],
         ready' \in [Actor -> SUBSET (1..made)], done' \in [Actor -> BOOLEAN]
  PROVE  ReplanTypes'
  BY DEF ReplanTypes, Replan!Move

LEMMA StepsStay ==
  ASSUME Replan!ReplanAssumption, ReplanTypes, ReplanSteps, NEW a \in Actor, NEW from, NEW to,
         Replan!Move(a, from, to), to \notin {"replace", "enqueue_new"},
         UNCHANGED <<made, origin, replans>>,
         \A b \in Actor : b # a => item'[b] = item[b] /\ ready'[b] = ready[b],
         to = "enqueue" => ready'[a] # {},
         \A s \in Step : s > made => row'[s].state = "absent"
  PROVE  ReplanSteps'
<1>1. /\ pc'[a] = to /\ \A b \in Actor : b # a => pc'[b] = pc[b]
  BY DEF ReplanTypes, Replan!Move
<1>2. Replacing' \subseteq Replacing
  BY <1>1 DEF Replacing
<1>3. IsFiniteSet(Replacing)
  BY PlanFacts, FS_Subset DEF Replacing
<1>4. /\ Cardinality(Replacing') <= Cardinality(Replacing)
      /\ Cardinality(Replacing) \in Nat /\ Cardinality(Replacing') \in Nat
  <2>1. IsFiniteSet(Replacing') /\ Cardinality(Replacing') <= Cardinality(Replacing)
    BY <1>2, <1>3, FS_Subset
  <2> QED BY <1>3, <2>1, FS_CardinalityType
<1>5. made + Cardinality(Replacing') <= N
  BY <1>4, PlanFacts DEF ReplanSteps, ReplanTypes
<1>6. ASSUME NEW b \in Actor
      PROVE  /\ pc'[b] = "replace" => replans[item'[b]] < MaxReplans
             /\ pc'[b] = "enqueue_new" => \E t \in 1..made : origin[t] = item'[b]
             /\ pc'[b] = "enqueue" => ready'[b] # {}
  BY <1>1 DEF ReplanSteps
<1> QED BY <1>5, <1>6 DEF ReplanSteps

LEMMA SessionWriteTypes ==
  ASSUME Replan!ReplanAssumption, ReplanTypes, ReplanSteps, NEW a \in Actor, NEW from,
         NEW status \in SessionStatus, NEW to \in Labels,
         Replan!SessionWrite(a, from, status, to)
  PROVE  ReplanTypes' /\ (to \notin {"replace", "enqueue_new", "enqueue"} => ReplanSteps')
<1>1. /\ Replan!Move(a, from, to) /\ session' = status
      /\ UNCHANGED <<step, attempts, row, made, key, origin, replans, calls, item, ready,
                     done, crashes>>
  BY DEF Replan!SessionWrite, Replan!SetSession, Replan!records
<1>2. LedgerTypeOK'
  BY <1>1 DEF ReplanTypes, LedgerTypeOK
<1>3. ReplanTypes'
  BY <1>1, <1>2, MoveTypes DEF ReplanTypes
<1> QED BY <1>1, <1>3, StepsStay DEF ReplanSteps

LEMMA StepWriteTypes ==
  ASSUME Replan!ReplanAssumption, ReplanTypes, ReplanSteps, NEW a \in Actor, NEW from,
         NEW state \in StepState, NEW to \in Labels,
         to \notin {"replace", "enqueue_new", "enqueue"},
         Replan!StepWrite(a, from, state, to)
  PROVE  ReplanTypes' /\ ReplanSteps'
<1>1. /\ Replan!Move(a, from, to) /\ step' = [step EXCEPT ![item[a]] = state]
      /\ attempts' = [attempts EXCEPT ![item[a]] = row[item[a]].attempt]
      /\ UNCHANGED <<session, row, made, key, origin, replans, calls, item, ready,
                     done, crashes>>
  BY DEF Replan!StepWrite, Replan!UpdateStep, Replan!records
<1>2. LedgerTypeOK'
  <2>1. row[item[a]] \in Row
    BY DEF ReplanTypes, LedgerTypeOK
  <2>2. row[item[a]].attempt \in Nat
    BY <2>1 DEF Row
  <2> QED BY <1>1, <2>2 DEF ReplanTypes, LedgerTypeOK
<1>3. ReplanTypes'
  BY <1>1, <1>2, MoveTypes DEF ReplanTypes
<1> QED BY <1>1, <1>3, StepsStay DEF ReplanSteps

\* A worker closes its row.
LEMMA RowCloseTypes ==
  ASSUME Replan!ReplanAssumption, ReplanTypes, ReplanSteps, NEW a \in Actor, NEW from,
         NEW to \in Labels, to \notin {"replace", "enqueue_new", "enqueue"},
         Replan!Move(a, from, to),
         Replan!CompleteRow(item[a]) \/ Replan!FailRow(item[a]),
         UNCHANGED <<session, step, attempts, made, key, origin, replans, calls, item, ready,
                     done, crashes>>
  PROVE  ReplanTypes' /\ ReplanSteps'
<1>1. item[a] \in Step /\ item[a] \in 1..made
  BY DEF ReplanTypes
<1>2. BecomesRow(item[a], row'[item[a]])
  BY <1>1, RowStatements DEF ReplanTypes
<1>3. LedgerTypeOK'
  BY <1>2 DEF ReplanTypes, LedgerTypeOK, BecomesRow
<1>4. ReplanTypes'
  BY <1>3, MoveTypes DEF ReplanTypes
<1>5. \A s \in Step : s > made => row'[s].state = "absent"
  <2>1. ASSUME NEW s \in Step, s > made PROVE s # item[a]
    BY <1>1, <2>1, PlanFacts DEF ReplanTypes
  <2> QED BY <1>2, <2>1 DEF ReplanSteps, BecomesRow
<1> QED BY <1>4, <1>5, StepsStay

\* A worker enqueues a step that exists.
LEMMA RowQueueTypes ==
  ASSUME Replan!ReplanAssumption, ReplanTypes, ReplanSteps, NEW a \in Actor, NEW from,
         NEW to \in Labels, to \notin {"replace", "enqueue_new"},
         Replan!Move(a, from, to), NEW s \in 1..made, Replan!EnqueueRow(s),
         UNCHANGED <<session, step, attempts, made, key, origin, replans, calls, item,
                     done, crashes>>,
         NEW left \in SUBSET (1..made), ready' = [ready EXCEPT ![a] = left],
         to = "enqueue" => left # {}
  PROVE  ReplanTypes' /\ ReplanSteps'
<1>1. s \in Step
  BY PlanFacts DEF ReplanTypes
<1>2. row' = row \/ BecomesRow(s, row'[s])
  BY <1>1, RowStatements DEF ReplanTypes
<1>3. LedgerTypeOK'
  BY <1>2 DEF ReplanTypes, LedgerTypeOK, BecomesRow
<1>4. /\ ready' \in [Actor -> SUBSET (1..made)] /\ ready'[a] = left
      /\ \A b \in Actor : b # a => ready'[b] = ready[b]
  BY DEF ReplanTypes
<1>5. ReplanTypes'
  BY <1>3, <1>4, MoveTypes DEF ReplanTypes
<1>6. \A t \in Step : t > made => row'[t].state = "absent"
  <2>1. ASSUME NEW t \in Step, t > made PROVE t # s
    BY <2>1, PlanFacts DEF ReplanTypes
  <2> QED BY <1>2, <2>1 DEF ReplanSteps, BecomesRow
<1> QED BY <1>4, <1>5, <1>6, StepsStay

-----------------------------------------------------------------------------
(* Who works on what, and what is open. *)

LEMMA FewerOf ==
  ASSUME NEW b \in Nat, NEW T \in SUBSET (1..b), NEW S \in SUBSET T
  PROVE  /\ IsFiniteSet(S) /\ IsFiniteSet(T)
         /\ Cardinality(S) \in Nat /\ Cardinality(T) \in Nat
         /\ Cardinality(S) <= Cardinality(T)
<1>1. IsFiniteSet(1..b)
  BY FS_Interval
<1>2. IsFiniteSet(T)
  BY <1>1, FS_Subset
<1>3. IsFiniteSet(S) /\ Cardinality(S) <= Cardinality(T)
  BY <1>2, FS_Subset
<1> QED BY <1>2, <1>3, FS_CardinalityType

LEMMA SetSizes ==
  ASSUME ReplanTypes, Replan!ReplanAssumption
  PROVE  /\ \A k : /\ IsFiniteSet(OpenOf(k)) /\ Cardinality(OpenOf(k)) \in Nat
                   /\ IsFiniteSet(DoneOf(k)) /\ Cardinality(DoneOf(k)) \in Nat
         /\ \A s : IsFiniteSet(ReplacedBy(s)) /\ Cardinality(ReplacedBy(s)) \in Nat
         /\ made \in Nat /\ crashes \in Nat /\ 1..made \subseteq Step
<1>1. made \in Nat /\ crashes \in Nat /\ 1..made \subseteq Step
  BY PlanFacts DEF ReplanTypes
<1>2. ASSUME NEW k
      PROVE  OpenOf(k) \in SUBSET (1..made) /\ DoneOf(k) \in SUBSET (1..made)
  BY DEF OpenOf, DoneOf
<1>3. ASSUME NEW s PROVE ReplacedBy(s) \in SUBSET (1..made)
  BY DEF ReplacedBy
<1> QED BY <1>1, <1>2, <1>3, FewerOf

LEMMA SetSizesNext ==
  ASSUME ReplanTypes', Replan!ReplanAssumption
  PROVE  /\ \A k : /\ IsFiniteSet(OpenOf(k)') /\ Cardinality(OpenOf(k)') \in Nat
                   /\ IsFiniteSet(DoneOf(k)') /\ Cardinality(DoneOf(k)') \in Nat
         /\ \A s : IsFiniteSet(ReplacedBy(s)') /\ Cardinality(ReplacedBy(s)') \in Nat
<1>1. made' \in Nat
  BY PlanFacts DEF ReplanTypes
<1>2. ASSUME NEW k
      PROVE  OpenOf(k)' \in SUBSET (1..made') /\ DoneOf(k)' \in SUBSET (1..made')
  BY DEF OpenOf, DoneOf
<1>3. ASSUME NEW s PROVE ReplacedBy(s)' \in SUBSET (1..made')
  BY DEF ReplacedBy
<1> QED BY <1>1, <1>2, <1>3, FewerOf

\* Nothing is opened or completed.
LEMMA NothingOpens ==
  ASSUME Replan!ReplanAssumption, ReplanTypes, Replaced,
         UNCHANGED <<made, key, origin, crashes>>,
         \A t \in Step : Open(t)' => Open(t),
         \A t \in Step : step'[t] = "completed" => step[t] = "completed"
  PROVE  Replaced'
<1>1. made \in Nat /\ crashes \in Nat /\ 1..made \subseteq Step
  BY SetSizes
<1>2. ASSUME NEW k \in 1..Plan
      PROVE  Cardinality(OpenOf(k)') + Cardinality(DoneOf(k)') <= 1 + crashes
  <2>1. OpenOf(k)' \in SUBSET OpenOf(k) /\ DoneOf(k)' \in SUBSET DoneOf(k)
    BY <1>1 DEF OpenOf, DoneOf
  <2>2. OpenOf(k) \in SUBSET (1..made) /\ DoneOf(k) \in SUBSET (1..made)
    BY DEF OpenOf, DoneOf
  <2>3. /\ Cardinality(OpenOf(k)') \in Nat /\ Cardinality(OpenOf(k)) \in Nat
        /\ Cardinality(OpenOf(k)') <= Cardinality(OpenOf(k))
    BY <1>1, <2>1, <2>2, FewerOf
  <2>4. /\ Cardinality(DoneOf(k)') \in Nat /\ Cardinality(DoneOf(k)) \in Nat
        /\ Cardinality(DoneOf(k)') <= Cardinality(DoneOf(k))
    BY <1>1, <2>1, <2>2, FewerOf
  <2>5. Cardinality(OpenOf(k)) + Cardinality(DoneOf(k)) <= 1 + crashes
    BY DEF Replaced
  <2> QED BY <1>1, <2>3, <2>4, <2>5
<1>3. ASSUME NEW s \in 1..made
      PROVE  /\ Cardinality(ReplacedBy(s)') <= 1 + crashes
             /\ Open(s)' => Cardinality(ReplacedBy(s)') <= crashes
  <2>1. ReplacedBy(s)' = ReplacedBy(s)
    BY DEF ReplacedBy
  <2> QED BY <1>1, <2>1 DEF Replaced
<1>4. \A s \in Step : s > made => step'[s] # "completed"
  BY DEF Replaced
<1> QED BY <1>2, <1>3, <1>4 DEF Replaced

\* What most statements of a worker that keeps its item come down to.
LEMMA WorkerStep ==
  ASSUME Replan!ReplanAssumption, ReplanTypes, OneWorker, Replaced,
         NEW a \in Actor, NEW from, NEW to, Replan!Move(a, from, to),
         UNCHANGED <<made, key, origin, item, crashes>>,
         from \in InHand \/ to \notin InHand,
         from \in InHand \ Trying =>
           to \in InHand \ Trying \/ row'[item[a]].state \in {"done", "failed"},
         \A t \in Step :
           \/ row'[t] = row[t]
           \/ row[t].state = "absent" /\ row'[t].state = "queued"
           \/ /\ t = item[a] /\ from \in InHand /\ to \notin InHand
              /\ row'[t].state \in {"done", "failed"},
         \A t \in Step : step'[t] = "completed" => step[t] = "completed"
  PROVE  OneWorker' /\ Replaced' /\ Narrows
<1>1. /\ pc[a] = from /\ pc'[a] = to
      /\ \A b \in Actor : b # a => pc'[b] = pc[b]
  BY DEF ReplanTypes, Replan!Move
<1>2. item'[a] = item[a] /\ \A b \in Actor : item'[b] = item[b]
  OBVIOUS
<1>3. ASSUME NEW b \in Actor, NEW t \in Step, WorksOn(b, t)' PROVE WorksOn(b, t)
  BY <1>1, <1>2, <1>3 DEF WorksOn
<1>4. OneWorker'
  <2>1. ASSUME NEW b \in Actor, NEW t \in Step, WorksOn(b, t)'
        PROVE  /\ row'[t].state = "leased" /\ ~row'[t].expired
               /\ \A c \in Actor : WorksOn(c, t)' => b = c
    <3>1. /\ row[t].state = "leased" /\ ~row[t].expired
          /\ \A c \in Actor : WorksOn(c, t) => b = c
      BY <1>3, <2>1 DEF OneWorker
    <3>2. ~(t = item[a] /\ from \in InHand /\ to \notin InHand)
      <4> SUFFICES ASSUME t = item[a], from \in InHand, to \notin InHand PROVE FALSE
        OBVIOUS
      <4>1. WorksOn(a, t)
        BY <1>1 DEF WorksOn
      <4>2. b = a
        BY <3>1, <4>1
      <4> QED BY <1>1, <2>1, <4>2 DEF WorksOn
    <3>3. row'[t] = row[t]
      BY <3>1, <3>2
    <3> QED BY <1>3, <3>1, <3>3
  <2> QED BY <2>1 DEF OneWorker
<1>5. ASSUME NEW t \in Step, Open(t)' PROVE Open(t)
  <2>1. CASE row[t].state = "absent"
    BY <2>1 DEF Open
  <2>2. CASE row'[t] = row[t]
    <3>1. row[t].state \in {"absent", "queued"} \/ row[t].state = "leased"
      BY <1>5, <2>2 DEF Open
    <3>2. CASE row[t].state = "leased"
      <4>1. \A b \in Actor : WorksOn(b, t)' => pc'[b] \in Trying
        BY <1>5, <2>2, <3>2 DEF Open
      <4>2. ASSUME NEW b \in Actor, WorksOn(b, t) PROVE pc[b] \in Trying
        <5>1. CASE b # a
          <6>1. WorksOn(b, t)'
            BY <1>1, <1>2, <4>2, <5>1 DEF WorksOn
          <6> QED BY <1>1, <4>1, <5>1, <6>1
        <5>2. CASE b = a
          <6> SUFFICES ASSUME from \notin Trying PROVE FALSE
            BY <1>1, <5>2
          <6>1. from \in InHand \ Trying /\ item[a] = t
            BY <1>1, <4>2, <5>2 DEF WorksOn
          <6>2. to \in InHand \ Trying
            BY <2>2, <3>2, <6>1
          <6>3. WorksOn(a, t)'
            BY <1>1, <1>2, <6>1, <6>2 DEF WorksOn
          <6> QED BY <1>1, <4>1, <6>2, <6>3
        <5> QED BY <5>1, <5>2
      <4> QED BY <3>2, <4>2 DEF Open
    <3> QED BY <3>1, <3>2 DEF Open
  <2>3. CASE row'[t].state \in {"done", "failed"}
    BY <1>5, <2>3 DEF Open
  <2> QED BY <2>1, <2>2, <2>3
<1>6. Replaced'
  BY <1>5, NothingOpens
<1> QED BY <1>4, <1>5, <1>6 DEF Narrows

-----------------------------------------------------------------------------
(* The statements one by one. *)

LEMMA SessionWriteInv ==
  ASSUME Replan!ReplanAssumption, ReplanInv, NEW a \in Actor,
         NEW from, NEW status \in SessionStatus, NEW to \in Labels,
         Replan!SessionWrite(a, from, status, to),
         from \in InHand \/ to \notin InHand,
         from \in InHand \ Trying => to \in InHand \ Trying
  PROVE  /\ ReplanTypes' /\ OneWorker' /\ Replaced' /\ Narrows
         /\ to \notin {"replace", "enqueue_new", "enqueue"} => ReplanSteps'
<1>1. ReplanTypes /\ ReplanSteps /\ OneWorker /\ Replaced
  BY DEF ReplanInv
<1>2. ReplanTypes' /\ (to \notin {"replace", "enqueue_new", "enqueue"} => ReplanSteps')
  BY <1>1, SessionWriteTypes
<1>3. /\ Replan!Move(a, from, to)
      /\ UNCHANGED <<step, row, made, key, origin, item, crashes>>
  BY DEF Replan!SessionWrite, Replan!records
<1>4. OneWorker' /\ Replaced' /\ Narrows
  BY <1>1, <1>3, WorkerStep
<1> QED BY <1>2, <1>4

LEMMA StepWriteInv ==
  ASSUME Replan!ReplanAssumption, ReplanInv, NEW a \in Actor,
         NEW from, NEW state \in StepState \ {"completed"}, NEW to \in Labels,
         Replan!StepWrite(a, from, state, to),
         to \notin {"replace", "enqueue_new", "enqueue"},
         from \in InHand \/ to \notin InHand,
         from \in InHand \ Trying => to \in InHand \ Trying
  PROVE  ReplanInv' /\ Narrows
<1>1. ReplanTypes /\ ReplanSteps /\ OneWorker /\ Replaced
  BY DEF ReplanInv
<1>2. ReplanTypes' /\ ReplanSteps'
  BY <1>1, StepWriteTypes
<1>3. /\ Replan!Move(a, from, to) /\ step' = [step EXCEPT ![item[a]] = state]
      /\ UNCHANGED <<row, made, key, origin, item, crashes>>
  BY DEF Replan!StepWrite, Replan!UpdateStep, Replan!records
<1>4. \A t \in Step : step'[t] = "completed" => step[t] = "completed"
  BY <1>1, <1>3 DEF ReplanTypes, LedgerTypeOK
<1>5. OneWorker' /\ Replaced' /\ Narrows
  BY <1>1, <1>3, <1>4, WorkerStep
<1> QED BY <1>2, <1>5 DEF ReplanInv

LEMMA RowCloseInv ==
  ASSUME Replan!ReplanAssumption, ReplanInv, NEW a \in Actor,
         NEW from \in InHand, NEW to \in Labels \ InHand,
         to # "enqueue", Replan!Move(a, from, to),
         Replan!CompleteRow(item[a]) \/ Replan!FailRow(item[a]),
         UNCHANGED <<session, step, attempts, made, key, origin, replans, calls, item, ready,
                     done, crashes>>
  PROVE  ReplanInv' /\ Narrows
<1>1. ReplanTypes /\ ReplanSteps /\ OneWorker /\ Replaced
  BY DEF ReplanInv
<1>2. to \in Labels /\ to \notin {"replace", "enqueue_new", "enqueue"}
  BY DEF InHand
<1>3. ReplanTypes' /\ ReplanSteps'
  BY <1>1, <1>2, RowCloseTypes
<1>4. item[a] \in Step /\ LedgerTypeOK
  BY <1>1 DEF ReplanTypes
<1>5. BecomesRow(item[a], row'[item[a]]) /\ row'[item[a]].state \in {"done", "failed"}
  BY <1>4, RowStatements
<1>6. \A t \in Step :
        \/ row'[t] = row[t]
        \/ t = item[a] /\ row'[t].state \in {"done", "failed"}
  BY <1>5 DEF BecomesRow
<1>7. OneWorker' /\ Replaced' /\ Narrows
  BY <1>1, <1>5, <1>6, WorkerStep
<1> QED BY <1>3, <1>7 DEF ReplanInv

LEMMA RowQueueInv ==
  ASSUME Replan!ReplanAssumption, ReplanInv, NEW a \in Actor, NEW from, NEW to \in Labels,
         to \notin {"replace", "enqueue_new"},
         from \in InHand \/ to \notin InHand,
         from \in InHand \ Trying => to \in InHand \ Trying,
         Replan!Move(a, from, to), NEW s \in 1..made, Replan!EnqueueRow(s),
         UNCHANGED <<session, step, attempts, made, key, origin, replans, calls, item,
                     done, crashes>>,
         NEW left \in SUBSET (1..made), ready' = [ready EXCEPT ![a] = left],
         to = "enqueue" => left # {}
  PROVE  ReplanInv' /\ Narrows
<1>1. ReplanTypes /\ ReplanSteps /\ OneWorker /\ Replaced
  BY DEF ReplanInv
<1>2. ReplanTypes' /\ ReplanSteps'
  BY <1>1, RowQueueTypes
<1>3. s \in Step /\ LedgerTypeOK
  BY <1>1, SetSizes DEF ReplanTypes
<1>4. \/ row' = row
      \/ /\ BecomesRow(s, row'[s])
         /\ row[s].state = "absent" /\ row'[s].state = "queued"
  BY <1>3, RowStatements
<1>5. \A t \in Step :
        \/ row'[t] = row[t]
        \/ row[t].state = "absent" /\ row'[t].state = "queued"
  BY <1>4 DEF BecomesRow
<1>6. OneWorker' /\ Replaced' /\ Narrows
  BY <1>1, <1>5, WorkerStep
<1> QED BY <1>2, <1>6 DEF ReplanInv

\* A worker reads.
LEMMA ReadInv ==
  ASSUME Replan!ReplanAssumption, ReplanInv, NEW a \in Actor, NEW from \in Labels \ InHand,
         NEW to \in Labels \ InHand, Replan!Move(a, from, to),
         UNCHANGED <<session, step, attempts, row, made, key, origin, replans, calls, item,
                     crashes>>,
         NEW left \in SUBSET (1..made),
         \/ ready' = [ready EXCEPT ![a] = left] /\ done' = done
         \/ ready' = ready /\ done' \in [Actor -> BOOLEAN] /\ to # "enqueue",
         to = "enqueue" => left # {}
  PROVE  ReplanInv' /\ Narrows
<1>1. ReplanTypes /\ ReplanSteps /\ OneWorker /\ Replaced
  BY DEF ReplanInv
<1>2. LedgerTypeOK'
  BY <1>1 DEF ReplanTypes, LedgerTypeOK
<1>3. /\ ready' \in [Actor -> SUBSET (1..made)] /\ done' \in [Actor -> BOOLEAN]
      /\ to = "enqueue" => ready'[a] # {}
      /\ \A b \in Actor : b # a => ready'[b] = ready[b]
  BY <1>1 DEF ReplanTypes
<1>4. to \in Labels /\ to \notin {"replace", "enqueue_new"} /\ calls' \in [Step -> Nat]
  BY <1>1 DEF InHand, ReplanTypes
<1>5. ReplanTypes'
  BY <1>1, <1>2, <1>3, <1>4, MoveTypes
<1>6. \A s \in Step : s > made => row'[s].state = "absent"
  BY <1>1 DEF ReplanSteps
<1>7. ReplanSteps'
  BY <1>1, <1>3, <1>4, <1>6, StepsStay
<1>8. OneWorker' /\ Replaced' /\ Narrows
  BY <1>1, WorkerStep
<1> QED BY <1>5, <1>7, <1>8 DEF ReplanInv

LEMMA LeaseInv ==
  ASSUME Replan!ReplanAssumption, ReplanInv, NEW a \in Actor, Replan!LeaseNext(a)
  PROVE  ReplanInv' /\ Narrows
<1>1. ReplanTypes /\ ReplanSteps /\ OneWorker /\ Replaced
  BY DEF ReplanInv
<1>2. PICK s \in Step : Replan!Oldest(s) /\ Replan!LeaseRow(s, a)
                        /\ item' = [item EXCEPT ![a] = s]
  BY PlanFacts DEF Replan!LeaseNext
<1>3. /\ Replan!Move(a, "idle", "start")
      /\ UNCHANGED <<session, step, attempts, made, key, origin, replans, calls, ready, done,
                     crashes>>
  BY DEF Replan!LeaseNext, Replan!records
<1>4. /\ Eligible(s) /\ BecomesRow(s, row'[s])
      /\ row'[s].state = "leased" /\ ~row'[s].expired
  BY <1>1, <1>2, SameStatements, RowStatements DEF ReplanTypes
<1>5. row[s].state = "queued" \/ (row[s].state = "leased" /\ row[s].expired)
  BY <1>4 DEF Eligible
<1>6. s \in 1..made /\ made \in Nat
  <2>1. ~(s > made)
    BY <1>1, <1>5 DEF ReplanSteps
  <2>2. s \in 1..N /\ made \in Nat
    BY <1>1, PlanFacts, SetSizes
  <2> QED BY <2>1, <2>2
<1>7. /\ pc[a] = "idle" /\ pc'[a] = "start" /\ item'[a] = s /\ pc' \in [Actor -> Labels]
      /\ \A b \in Actor : b # a => pc'[b] = pc[b] /\ item'[b] = item[b]
      /\ item' \in [Actor -> Step] /\ \A b \in Actor : item'[b] \in 1..made
  BY <1>1, <1>2, <1>3, <1>6 DEF ReplanTypes, Replan!Move, Labels, InHand
<1>8. ReplanTypes'
  <2>1. LedgerTypeOK'
    BY <1>1, <1>3, <1>4 DEF ReplanTypes, LedgerTypeOK, BecomesRow
  <2> QED BY <1>1, <1>3, <1>7, <2>1 DEF ReplanTypes
<1>9. ReplanSteps'
  <2>1. \A t \in Step : t > made => row'[t].state = "absent"
    <3>1. ASSUME NEW t \in Step, t > made PROVE t # s
      BY <1>6, <3>1
    <3> QED BY <1>1, <1>4, <3>1 DEF ReplanSteps, BecomesRow
  <2> QED BY <1>1, <1>3, <1>7, <2>1, StepsStay
<1>10. \A b \in Actor : ~WorksOn(b, s)
  BY <1>1, <1>5 DEF OneWorker
<1>11. ASSUME NEW b \in Actor, NEW t \in Step
       PROVE  /\ b # a => (WorksOn(b, t)' <=> WorksOn(b, t))
              /\ ~WorksOn(a, t) /\ (WorksOn(a, t)' => t = s)
  BY <1>7 DEF WorksOn, InHand
<1>12. OneWorker'
  <2>1. ASSUME NEW b \in Actor, NEW t \in Step, WorksOn(b, t)'
        PROVE  /\ row'[t].state = "leased" /\ ~row'[t].expired
               /\ \A c \in Actor : WorksOn(c, t)' => b = c
    <3>1. CASE b = a
      <4>1. t = s
        BY <1>11, <2>1, <3>1
      <4>2. ASSUME NEW c \in Actor, WorksOn(c, t)', c # a PROVE FALSE
        BY <1>10, <1>11, <4>1, <4>2
      <4> QED BY <1>4, <3>1, <4>1, <4>2
    <3>2. CASE b # a
      <4>1. WorksOn(b, t)
        BY <1>11, <2>1, <3>2
      <4>2. t # s
        BY <1>10, <4>1
      <4>3. /\ row[t].state = "leased" /\ ~row[t].expired
            /\ \A c \in Actor : WorksOn(c, t) => b = c
        BY <1>1, <4>1 DEF OneWorker
      <4>4. row'[t] = row[t]
        BY <1>4, <4>2 DEF BecomesRow
      <4>5. ASSUME NEW c \in Actor, WorksOn(c, t)' PROVE b = c
        <5>1. c # a
          BY <1>11, <4>2, <4>5
        <5> QED BY <1>11, <4>3, <4>5, <5>1
      <4> QED BY <4>3, <4>4, <4>5
    <3> QED BY <3>1, <3>2
  <2> QED BY <2>1 DEF OneWorker
<1>13. ASSUME NEW t \in Step, Open(t)' PROVE Open(t)
  <2>1. CASE t = s
    BY <1>5, <1>10, <2>1 DEF Open
  <2>2. CASE t # s
    <3>1. row'[t] = row[t]
      BY <1>4, <2>2 DEF BecomesRow
    <3>2. ASSUME NEW b \in Actor, WorksOn(b, t)
          PROVE  WorksOn(b, t)' /\ pc'[b] = pc[b]
      <4>1. b # a
        BY <1>11, <3>2
      <4> QED BY <1>7, <1>11, <3>2, <4>1
    <3> QED BY <1>13, <3>1, <3>2 DEF Open
  <2> QED BY <2>1, <2>2
<1>14. Replaced'
  BY <1>1, <1>3, <1>13, NothingOpens
<1> QED BY <1>8, <1>9, <1>12, <1>13, <1>14 DEF ReplanInv, Narrows

LEMMA InvokeInv ==
  ASSUME Replan!ReplanAssumption, ReplanInv, NEW a \in Actor, Replan!Invoke(a)
  PROVE  ReplanInv' /\ Narrows
<1>1. ReplanTypes /\ ReplanSteps /\ OneWorker /\ Replaced
  BY DEF ReplanInv
<1>2. /\ Replan!Move(a, "run", "invoked")
      /\ UNCHANGED <<session, step, attempts, row, made, key, origin, replans, item, ready,
                     done, crashes>>
      /\ calls' = [calls EXCEPT ![item[a]] = @ + 1]
  BY DEF Replan!Invoke, Replan!ledgerVars
<1>3. LedgerTypeOK' /\ calls' \in [Step -> Nat]
  BY <1>1, <1>2 DEF ReplanTypes, LedgerTypeOK
<1>4. "invoked" \in Labels /\ "invoked" \in InHand /\ "run" \in Trying
  BY DEF Labels, InHand, Trying
<1>5. ready' \in [Actor -> SUBSET (1..made)] /\ done' \in [Actor -> BOOLEAN]
  BY <1>1, <1>2 DEF ReplanTypes
<1>6. ReplanTypes'
  BY <1>1, <1>2, <1>3, <1>4, <1>5, MoveTypes
<1>7. \A s \in Step : s > made => row'[s].state = "absent"
  BY <1>1, <1>2 DEF ReplanSteps
<1>8. ReplanSteps'
  BY <1>1, <1>2, <1>7, StepsStay
<1>9. "run" \in InHand
  BY DEF InHand
<1>10. OneWorker' /\ Replaced' /\ Narrows
  BY <1>1, <1>2, <1>4, <1>9, WorkerStep
<1> QED BY <1>6, <1>8, <1>10 DEF ReplanInv

LEMMA ExpireInv ==
  ASSUME Replan!ReplanAssumption, ReplanInv, NEW s \in Step, Replan!LeaseExpires(s)
  PROVE  ReplanInv' /\ Narrows
<1>1. ReplanTypes /\ ReplanSteps /\ OneWorker /\ Replaced
  BY DEF ReplanInv
<1>2. /\ \A a \in Actor : ~WorksOn(a, s)
      /\ Replan!ExpireRow(s)
      /\ UNCHANGED <<session, step, attempts, made, key, origin, replans, calls, pc, item,
                     ready, done, crashes>>
  BY PlanFacts DEF Replan!LeaseExpires, Replan!records, Replan!threads, WorksOn
<1>3. BecomesRow(s, row'[s]) /\ row[s].state = "leased" /\ row'[s].state = "leased"
  <2>2. Replan!ExpireRow(s) => ExpireRow(s)
    BY DEF Replan!ExpireRow, ExpireRow
  <2>3. row[s] \in Row /\ BecomesRow(s, [row[s] EXCEPT !.expired = TRUE])
        /\ row[s].state = "leased"
    BY <1>1, <1>2, <2>2, Statements DEF ExpireRow, ReplanTypes, LedgerTypeOK
  <2> QED BY <2>3 DEF BecomesRow, Row
<1>4. \A t \in Step : row'[t].state = row[t].state /\ (t # s => row'[t] = row[t])
  BY <1>3 DEF BecomesRow
<1>5. ReplanTypes'
  BY <1>1, <1>2, <1>3 DEF ReplanTypes, LedgerTypeOK, BecomesRow
<1>6. ReplanSteps'
  <2>1. Replacing' = Replacing
    BY <1>2 DEF Replacing
  <2> QED BY <1>1, <1>2, <1>4, <2>1 DEF ReplanSteps
<1>7. \A t \in Step, b \in Actor : WorksOn(b, t)' <=> WorksOn(b, t)
  BY <1>2 DEF WorksOn
<1>8. OneWorker'
  <2>1. ASSUME NEW b \in Actor, NEW t \in Step, WorksOn(b, t)'
        PROVE  /\ row'[t].state = "leased" /\ ~row'[t].expired
               /\ \A c \in Actor : WorksOn(c, t)' => b = c
    <3>1. WorksOn(b, t) /\ t # s
      BY <1>2, <1>7, <2>1
    <3> QED BY <1>1, <1>4, <1>7, <3>1 DEF OneWorker
  <2> QED BY <2>1 DEF OneWorker
<1>9. ASSUME NEW t \in Step, Open(t)' PROVE Open(t)
  BY <1>2, <1>4, <1>7, <1>9 DEF Open
<1>10. Replaced'
  BY <1>1, <1>2, <1>9, NothingOpens
<1> QED BY <1>5, <1>6, <1>8, <1>9, <1>10 DEF ReplanInv, Narrows

\* The step leaves what is open and enters what was carried out.
LEMMA CompleteInv ==
  ASSUME Replan!ReplanAssumption, ReplanInv, NEW a \in Actor, Replan!Complete(a)
  PROVE  ReplanInv' /\ Narrows
<1> DEFINE x == item[a]
<1>1. ReplanTypes /\ ReplanSteps /\ OneWorker /\ Replaced
  BY DEF ReplanInv
<1>2. Replan!StepWrite(a, "invoked", "completed", "close")
  BY DEF Replan!Complete
<1>3. ReplanTypes' /\ ReplanSteps'
  BY <1>1, <1>2, StepWriteTypes DEF StepState, Labels, InHand
<1>4. /\ pc[a] = "invoked" /\ pc'[a] = "close"
      /\ \A b \in Actor : b # a => pc'[b] = pc[b]
      /\ step' = [step EXCEPT ![x] = "completed"]
      /\ UNCHANGED <<row, made, key, origin, item, crashes>>
  BY <1>1, <1>2 DEF Replan!StepWrite, Replan!UpdateStep, Replan!records, Replan!Move,
     ReplanTypes
<1>5. x \in Step /\ x \in 1..made
  BY <1>1 DEF ReplanTypes
<1>6. \A t \in Step, b \in Actor : WorksOn(b, t)' <=> WorksOn(b, t)
  BY <1>4 DEF WorksOn, InHand
<1>7. OneWorker'
  BY <1>1, <1>4, <1>6 DEF OneWorker
<1>8. ASSUME NEW t \in Step, Open(t)' PROVE Open(t) /\ t # x
  <2>1. CASE row[t].state \in {"absent", "queued"}
    <3>1. WorksOn(a, x)
      BY <1>4 DEF WorksOn, InHand
    <3>2. t # x
      BY <1>1, <1>5, <2>1, <3>1 DEF OneWorker
    <3> QED BY <2>1, <3>2 DEF Open
  <2>2. CASE ~(row[t].state \in {"absent", "queued"})
    <3>1. /\ row[t].state = "leased"
          /\ \A b \in Actor : WorksOn(b, t)' => pc'[b] \in Trying
      BY <1>4, <1>8, <2>2 DEF Open
    <3>2. t # x
      BY <1>4, <3>1 DEF WorksOn, InHand, Trying
    <3>3. ASSUME NEW b \in Actor, WorksOn(b, t) PROVE pc[b] \in Trying
      <4>1. b # a
        BY <3>2, <3>3 DEF WorksOn
      <4> QED BY <1>4, <1>6, <3>1, <3>3, <4>1
    <3> QED BY <3>1, <3>2, <3>3 DEF Open
  <2> QED BY <2>1, <2>2
<1>9. Open(x)
  <2>1. WorksOn(a, x)
    BY <1>4 DEF WorksOn, InHand
  <2>2. row[x].state = "leased" /\ \A b \in Actor : WorksOn(b, x) => a = b
    BY <1>1, <1>5, <2>1 DEF OneWorker
  <2>3. pc[a] \in Trying
    BY <1>4 DEF Trying
  <2> QED BY <2>2, <2>3 DEF Open
<1>10. \A t \in Step : t # x => step'[t] = step[t]
  BY <1>1, <1>4 DEF ReplanTypes, LedgerTypeOK
<1>11. ASSUME NEW k \in 1..Plan
       PROVE  Cardinality(OpenOf(k)') + Cardinality(DoneOf(k)') <= 1 + crashes
  <2>1. /\ IsFiniteSet(OpenOf(k)) /\ Cardinality(OpenOf(k)) \in Nat
        /\ IsFiniteSet(DoneOf(k)) /\ Cardinality(DoneOf(k)) \in Nat
        /\ crashes \in Nat /\ 1..made \subseteq Step
    BY <1>1, SetSizes
  <2>2. Cardinality(OpenOf(k)) + Cardinality(DoneOf(k)) <= 1 + crashes
    BY <1>1 DEF Replaced
  <2>3. IsFiniteSet(OpenOf(k)') /\ IsFiniteSet(DoneOf(k)')
        /\ Cardinality(OpenOf(k)') \in Nat /\ Cardinality(DoneOf(k)') \in Nat
    BY <1>3, SetSizesNext
  <2>4. CASE key[x] = k
    <3>1. x \in OpenOf(k) /\ OpenOf(k)' \subseteq OpenOf(k) \ {x}
      BY <1>4, <1>5, <1>8, <1>9, <2>1, <2>4 DEF OpenOf
    <3>2. Cardinality(OpenOf(k) \ {x}) = Cardinality(OpenOf(k)) - 1
          /\ IsFiniteSet(OpenOf(k) \ {x})
      BY <2>1, <3>1, FS_RemoveElement
    <3>3. Cardinality(OpenOf(k)') <= Cardinality(OpenOf(k)) - 1
      BY <3>1, <3>2, FS_Subset
    <3>4. DoneOf(k)' \subseteq DoneOf(k) \cup {x}
      BY <1>4, <1>10, <2>1 DEF DoneOf
    <3>5. /\ IsFiniteSet(DoneOf(k) \cup {x})
          /\ Cardinality(DoneOf(k) \cup {x}) \in
               {Cardinality(DoneOf(k)), Cardinality(DoneOf(k)) + 1}
      BY <2>1, FS_AddElement
    <3>6. Cardinality(DoneOf(k)') <= Cardinality(DoneOf(k) \cup {x})
      BY <3>4, <3>5, FS_Subset
    <3> QED BY <2>1, <2>2, <2>3, <3>3, <3>5, <3>6
  <2>5. CASE key[x] # k
    <3>1. OpenOf(k)' \subseteq OpenOf(k) /\ DoneOf(k)' \subseteq DoneOf(k)
      BY <1>4, <1>8, <1>10, <2>1, <2>5 DEF OpenOf, DoneOf
    <3>2. /\ Cardinality(OpenOf(k)') <= Cardinality(OpenOf(k))
          /\ Cardinality(DoneOf(k)') <= Cardinality(DoneOf(k))
      BY <2>1, <3>1, FS_Subset
    <3> QED BY <2>1, <2>2, <2>3, <3>2
  <2> QED BY <2>4, <2>5
<1>12. Replaced'
  <2>1. ASSUME NEW s \in 1..made
        PROVE  /\ Cardinality(ReplacedBy(s)') <= 1 + crashes
               /\ Open(s)' => Cardinality(ReplacedBy(s)') <= crashes
    <3>1. ReplacedBy(s)' = ReplacedBy(s) /\ s \in Step
      BY <1>1, <1>4, SetSizes DEF ReplacedBy
    <3> QED BY <1>1, <1>8, <3>1 DEF Replaced
  <2>2. \A s \in Step : s > made => step'[s] # "completed"
    <3>1. ASSUME NEW s \in Step, s > made PROVE s # x
      <4>1. made \in Nat
        BY <1>1, SetSizes
      <4> QED BY <1>5, <3>1, <4>1
    <3> QED BY <1>1, <1>10, <3>1 DEF Replaced
  <2> QED BY <1>4, <1>11, <2>1, <2>2 DEF Replaced
<1> QED BY <1>3, <1>7, <1>8, <1>12 DEF ReplanInv, Narrows

LEMMA ReplanCallInv ==
  ASSUME Replan!ReplanAssumption, ReplanInv, NEW a \in Actor, Replan!Replan(a)
  PROVE  ReplanInv' /\ Narrows
<1>1. ReplanTypes /\ ReplanSteps /\ OneWorker /\ Replaced
  BY DEF ReplanInv
<1>2. /\ pc[a] \in {"run", "invoked"}
      /\ replans[item[a]] < MaxReplans
      /\ made + Cardinality(Replacing) < N
      /\ Replan!SessionWrite(a, pc[a], "replanning", "replace")
  BY DEF Replan!Replan, Replan!Raises, Replan!MayReplan, Replan!Room, Replan!Cardinality,
     Cardinality, Replan!IsFiniteSet, Replacing
<1>3. ReplanTypes' /\ OneWorker' /\ Replaced' /\ Narrows
  BY <1>2, SessionWriteInv DEF SessionStatus, Labels, InHand, Trying
<1>4. /\ pc'[a] = "replace" /\ \A b \in Actor : b # a => pc'[b] = pc[b]
      /\ UNCHANGED <<row, made, origin, replans, item, ready>>
  BY <1>1, <1>2 DEF Replan!SessionWrite, Replan!records, Replan!Move, ReplanTypes
<1>5. ReplanSteps'
  <2>1. Replacing' = Replacing \cup {a} /\ a \notin Replacing
    BY <1>2, <1>4 DEF Replacing
  <2>2. IsFiniteSet(Replacing)
    BY PlanFacts, FS_Subset DEF Replacing
  <2>3. Cardinality(Replacing') = Cardinality(Replacing) + 1
    BY <2>1, <2>2, FS_AddElement
  <2>4. Cardinality(Replacing) \in Nat /\ made \in Nat /\ N \in Nat
    BY <1>1, <2>2, FS_CardinalityType, SetSizes, PlanFacts
  <2>5. made + Cardinality(Replacing') <= N
    BY <1>2, <2>3, <2>4
  <2>6. ASSUME NEW b \in Actor
        PROVE  /\ pc'[b] = "replace" => replans[item[b]] < MaxReplans
               /\ pc'[b] = "enqueue_new" => \E t \in 1..made : origin[t] = item[b]
               /\ pc'[b] = "enqueue" => ready[b] # {}
    BY <1>1, <1>2, <1>4 DEF ReplanSteps
  <2> QED BY <1>1, <1>4, <2>5, <2>6 DEF ReplanSteps
<1> QED BY <1>3, <1>5 DEF ReplanInv

\* The failed step stops being open when its replacement begins to be.
LEMMA StartReplacementInv ==
  ASSUME Replan!ReplanAssumption, ReplanInv, NEW a \in Actor, Replan!StartReplacement(a)
  PROVE  ReplanInv' /\ Narrows
<1> DEFINE x == item[a]
           n == made + 1
<1>1. ReplanTypes /\ ReplanSteps /\ OneWorker /\ Replaced
  BY DEF ReplanInv
<1>2. /\ pc[a] = "replace" /\ pc'[a] = "enqueue_new" /\ pc' \in [Actor -> Labels]
      /\ \A b \in Actor : b # a => pc'[b] = pc[b]
  BY <1>1 DEF Replan!StartReplacement, Replan!Move, ReplanTypes, Labels, InHand
<1>3. /\ made' = n
      /\ key' = [key EXCEPT ![n] = key[x]]
      /\ origin' = [origin EXCEPT ![n] = x]
      /\ replans' = [replans EXCEPT ![n] = replans[x] + 1]
      /\ UNCHANGED <<session, step, attempts, row, calls, item, ready, done, crashes>>
  BY DEF Replan!StartReplacement, Replan!ledgerVars
<1>4. x \in Step /\ x \in 1..made /\ made \in Nat /\ 1..made \subseteq Step
  BY <1>1, SetSizes DEF ReplanTypes
<1>5. /\ Replacing' = Replacing \ {a} /\ a \in Replacing /\ IsFiniteSet(Replacing)
      /\ Cardinality(Replacing) \in Nat
  BY <1>2, PlanFacts, FS_Subset, FS_CardinalityType DEF Replacing
<1>6. Cardinality(Replacing') = Cardinality(Replacing) - 1
  BY <1>5, FS_RemoveElement
<1>7. Cardinality(Replacing') \in Nat
  BY <1>5, FS_RemoveElement, FS_CardinalityType
<1>8. /\ n \in Step /\ n > made /\ n \in made'..made' /\ made' + Cardinality(Replacing') <= N
      /\ made' \in Plan..N /\ N \in Nat
  <2>1. made + Cardinality(Replacing) <= N /\ made \in Plan..N
    BY <1>1 DEF ReplanSteps, ReplanTypes
  <2>2. N \in Nat /\ Plan \in 1..N /\ Step = 1..N
    BY PlanFacts
  <2> QED BY <1>3, <1>4, <1>5, <1>6, <1>7, <2>1, <2>2
<1>9. row[n].state = "absent" /\ step[n] # "completed"
  BY <1>1, <1>8 DEF ReplanSteps, Replaced
<1>10. /\ key'[n] = key[x] /\ \A t \in Step : t # n => key'[t] = key[t]
       /\ origin'[n] = x /\ \A t \in Step : t # n => origin'[t] = origin[t]
       /\ replans'[n] = replans[x] + 1 /\ \A t \in Step : t # n => replans'[t] = replans[t]
  BY <1>1, <1>3, <1>8 DEF ReplanTypes
<1>11. replans[x] < MaxReplans /\ replans[x] \in Nat /\ MaxReplans \in Nat
  BY <1>1, <1>2, <1>4, PlanFacts DEF ReplanSteps, ReplanTypes
<1>12. ReplanTypes'
  <2>1. key' \in [Step -> 0..Plan] /\ \A s \in 1..made' : key'[s] # 0
    <3>1. key[x] # 0 /\ key[x] \in 0..Plan
      BY <1>1, <1>4 DEF ReplanTypes
    <3>2. key' \in [Step -> 0..Plan]
      BY <1>1, <1>3, <3>1 DEF ReplanTypes
    <3>3. ASSUME NEW s \in 1..made' PROVE key'[s] # 0
      <4>1. CASE s = n
        BY <1>10, <3>1, <4>1
      <4>2. CASE s # n
        <5>1. s \in 1..made
          BY <1>3, <1>4, <4>2
        <5> QED BY <1>1, <1>4, <1>10, <4>2, <5>1 DEF ReplanTypes
      <4> QED BY <4>1, <4>2
    <3> QED BY <3>2, <3>3
  <2>2. origin' \in [Step -> 0..N] /\ \A s \in Step : origin'[s] < s
    <3>1. x \in 0..N /\ x < n
      BY <1>4, <1>8, PlanFacts
    <3>2. origin' \in [Step -> 0..N]
      BY <1>1, <1>3, <3>1 DEF ReplanTypes
    <3>3. \A s \in Step : origin'[s] < s
      BY <1>1, <1>10, <3>1 DEF ReplanTypes
    <3> QED BY <3>2, <3>3
  <2>3. replans' \in [Step -> 0..MaxReplans]
    <3>1. replans[x] + 1 \in 0..MaxReplans
      BY <1>11
    <3> QED BY <1>1, <1>3, <3>1 DEF ReplanTypes
  <2>4. LedgerTypeOK'
    BY <1>1, <1>3 DEF ReplanTypes, LedgerTypeOK
  <2>5. 1..made \subseteq 1..made'
    BY <1>3, <1>4
  <2>6. /\ ready' \in [Actor -> SUBSET (1..made')] /\ calls' \in [Step -> Nat]
        /\ item' \in [Actor -> Step] /\ done' \in [Actor -> BOOLEAN]
        /\ crashes' \in 0..MaxCrashes /\ \A b \in Actor : item'[b] \in 1..made'
    BY <1>1, <1>3, <2>5 DEF ReplanTypes
  <2> QED BY <1>2, <1>8, <2>1, <2>2, <2>3, <2>4, <2>6 DEF ReplanTypes
<1>13. ReplanSteps'
  <2>1. ASSUME NEW b \in Actor, pc'[b] = "replace" PROVE replans'[item[b]] < MaxReplans
    <3>1. pc[b] = "replace" /\ item[b] \in Step /\ item[b] \in 1..made
      BY <1>1, <1>2, <2>1 DEF ReplanTypes
    <3>2. item[b] # n
      BY <1>4, <3>1
    <3> QED BY <1>1, <1>10, <3>1, <3>2 DEF ReplanSteps
  <2>2. ASSUME NEW b \in Actor, pc'[b] = "enqueue_new"
        PROVE  \E t \in 1..made' : origin'[t] = item[b]
    <3>1. CASE b = a
      <4>1. n \in 1..made'
        BY <1>3, <1>4
      <4> QED BY <1>10, <3>1, <4>1
    <3>2. CASE b # a
      <4>1. PICK t \in 1..made : origin[t] = item[b]
        BY <1>1, <1>2, <2>2, <3>2 DEF ReplanSteps
      <4>2. t # n /\ t \in Step /\ t \in 1..made'
        BY <1>3, <1>4
      <4> QED BY <1>10, <4>1, <4>2
    <3> QED BY <3>1, <3>2
  <2>3. ASSUME NEW b \in Actor, pc'[b] = "enqueue" PROVE ready[b] # {}
    BY <1>1, <1>2, <2>3 DEF ReplanSteps
  <2>4. ASSUME NEW s \in Step, s > made' PROVE row[s].state = "absent"
    <3>1. s > made
      BY <1>3, <1>4, <2>4, PlanFacts
    <3> QED BY <1>1, <3>1 DEF ReplanSteps
  <2> QED BY <1>3, <1>8, <2>1, <2>2, <2>3, <2>4 DEF ReplanSteps
<1>14. \A t \in Step, b \in Actor : WorksOn(b, t)' <=> WorksOn(b, t)
  BY <1>2, <1>3 DEF WorksOn, InHand
<1>15. OneWorker'
  BY <1>1, <1>3, <1>14 DEF OneWorker
<1>16. WorksOn(a, x) /\ row[x].state = "leased" /\ \A b \in Actor : WorksOn(b, x) => a = b
  <2>1. WorksOn(a, x)
    BY <1>2 DEF WorksOn, InHand
  <2> QED BY <1>1, <1>4, <2>1 DEF OneWorker
<1>17. Open(x) /\ Open(n)
  BY <1>2, <1>9, <1>16 DEF Open, Trying
<1>18. ASSUME NEW t \in Step, Open(t)' PROVE Open(t) /\ t # x
  <2>1. t # x
    <3> SUFFICES ASSUME t = x PROVE FALSE
      OBVIOUS
    <3>1. WorksOn(a, t)' /\ pc'[a] \notin Trying
      BY <1>2, <1>14, <1>16 DEF Trying
    <3>2. row'[t].state = "leased"
      BY <1>3, <1>16
    <3> QED BY <1>18, <3>1, <3>2 DEF Open
  <2>2. ASSUME NEW b \in Actor, WorksOn(b, t) PROVE b # a
    BY <2>1, <2>2 DEF WorksOn
  <2> QED BY <1>2, <1>3, <1>14, <1>18, <2>1, <2>2 DEF Open
<1>19. ASSUME NEW k \in 1..Plan
       PROVE  Cardinality(OpenOf(k)') + Cardinality(DoneOf(k)') <= 1 + crashes
  <2>1. /\ IsFiniteSet(OpenOf(k)) /\ Cardinality(OpenOf(k)) \in Nat
        /\ IsFiniteSet(DoneOf(k)) /\ Cardinality(DoneOf(k)) \in Nat
        /\ crashes \in Nat
    BY <1>1, SetSizes
  <2>2. Cardinality(OpenOf(k)) + Cardinality(DoneOf(k)) <= 1 + crashes
    BY <1>1 DEF Replaced
  <2>3. IsFiniteSet(OpenOf(k)') /\ IsFiniteSet(DoneOf(k)')
        /\ Cardinality(OpenOf(k)') \in Nat /\ Cardinality(DoneOf(k)') \in Nat
    BY <1>12, SetSizesNext
  <2>4. ASSUME NEW t \in 1..made', t # n
        PROVE  t \in 1..made /\ t \in Step /\ key'[t] = key[t]
    <3>1. t \in 1..made
      BY <1>3, <1>4, <2>4
    <3> QED BY <1>4, <1>10, <2>4, <3>1
  <2>5. DoneOf(k)' \subseteq DoneOf(k)
    BY <1>3, <1>9, <2>4 DEF DoneOf
  <2>6. Cardinality(DoneOf(k)') <= Cardinality(DoneOf(k))
    BY <2>1, <2>5, FS_Subset
  <2>7. CASE key[x] = k
    <3>1. x \in OpenOf(k)
      BY <1>4, <1>17, <2>7 DEF OpenOf
    <3>2. OpenOf(k)' \subseteq (OpenOf(k) \ {x}) \cup {n}
      <4>1. ASSUME NEW t \in 1..made', key'[t] = k, Open(t)', t # n
            PROVE  t \in OpenOf(k) /\ t # x
        <5>1. t \in 1..made /\ t \in Step /\ key[t] = k
          BY <2>4, <4>1
        <5>2. Open(t) /\ t # x
          BY <1>18, <4>1, <5>1
        <5> QED BY <5>1, <5>2 DEF OpenOf
      <4> QED BY <4>1 DEF OpenOf
    <3>3. /\ IsFiniteSet(OpenOf(k) \ {x}) /\ n \notin OpenOf(k) \ {x}
          /\ Cardinality(OpenOf(k) \ {x}) = Cardinality(OpenOf(k)) - 1
      <4>1. n \notin OpenOf(k)
        BY <1>4 DEF OpenOf
      <4> QED BY <2>1, <3>1, <4>1, FS_RemoveElement
    <3>4. /\ IsFiniteSet((OpenOf(k) \ {x}) \cup {n})
          /\ Cardinality((OpenOf(k) \ {x}) \cup {n}) = Cardinality(OpenOf(k) \ {x}) + 1
      BY <3>3, FS_AddElement
    <3>5. Cardinality(OpenOf(k)') <= Cardinality((OpenOf(k) \ {x}) \cup {n})
      BY <3>2, <3>4, FS_Subset
    <3> QED BY <2>1, <2>2, <2>3, <2>6, <3>3, <3>4, <3>5
  <2>8. CASE key[x] # k
    <3>1. OpenOf(k)' \subseteq OpenOf(k)
      BY <1>10, <1>18, <2>4, <2>8 DEF OpenOf
    <3>2. Cardinality(OpenOf(k)') <= Cardinality(OpenOf(k))
      BY <2>1, <3>1, FS_Subset
    <3> QED BY <2>1, <2>2, <2>3, <2>6, <3>2
  <2> QED BY <2>7, <2>8
<1>20. ASSUME NEW s \in 1..made'
       PROVE  /\ Cardinality(ReplacedBy(s)') <= 1 + crashes
              /\ Open(s)' => Cardinality(ReplacedBy(s)') <= crashes
  <2>1. crashes \in Nat
    BY <1>1, SetSizes
  <2>2. CASE s = n
    <3>1. ReplacedBy(s)' = {}
      <4>1. ASSUME NEW t \in 1..made', origin'[t] = n PROVE FALSE
        <5>1. t \in Step /\ t <= n
          BY <1>3, <1>4, <1>8, PlanFacts
        <5>2. origin'[t] < t
          BY <1>12, <5>1 DEF ReplanTypes
        <5>3. t \in Nat /\ n \in Nat
          BY <1>4
        <5> QED BY <4>1, <5>1, <5>2, <5>3
      <4> QED BY <2>2, <4>1 DEF ReplacedBy
    <3> QED BY <2>1, <3>1, FS_EmptySet
  <2>3. CASE s # n
    <3>1. s \in 1..made /\ s \in Step
      BY <1>3, <1>4, <2>3
    <3>2. /\ IsFiniteSet(ReplacedBy(s)) /\ Cardinality(ReplacedBy(s)) \in Nat
          /\ Cardinality(ReplacedBy(s)) <= 1 + crashes
          /\ Open(s) => Cardinality(ReplacedBy(s)) <= crashes
      BY <1>1, <3>1, SetSizes DEF Replaced
    <3>3. ASSUME NEW t \in 1..made', t # n
          PROVE  t \in 1..made /\ origin'[t] = origin[t]
      <4>1. t \in 1..made
        BY <1>3, <1>4, <3>3
      <4> QED BY <1>4, <1>10, <3>3, <4>1
    <3>4. CASE s = x
      <4>1. ReplacedBy(s)' \subseteq ReplacedBy(s) \cup {n}
        BY <3>3 DEF ReplacedBy
      <4>2. /\ IsFiniteSet(ReplacedBy(s) \cup {n})
            /\ Cardinality(ReplacedBy(s) \cup {n}) \in
                 {Cardinality(ReplacedBy(s)), Cardinality(ReplacedBy(s)) + 1}
        BY <3>2, FS_AddElement
      <4>3. Cardinality(ReplacedBy(s)') <= Cardinality(ReplacedBy(s) \cup {n})
        BY <4>1, <4>2, FS_Subset
      <4>4. Cardinality(ReplacedBy(s)') \in Nat
        BY <1>12, SetSizesNext
      <4>5. Cardinality(ReplacedBy(s)) <= crashes /\ ~Open(s)'
        BY <1>17, <1>18, <3>1, <3>2, <3>4
      <4> QED BY <2>1, <3>2, <4>2, <4>3, <4>4, <4>5
    <3>5. CASE s # x
      <4>1. ReplacedBy(s)' \subseteq ReplacedBy(s)
        BY <1>10, <3>3, <3>5 DEF ReplacedBy
      <4>2. Cardinality(ReplacedBy(s)') <= Cardinality(ReplacedBy(s))
        BY <3>2, <4>1, FS_Subset
      <4>3. Cardinality(ReplacedBy(s)') \in Nat
        BY <1>12, SetSizesNext
      <4> QED BY <1>18, <2>1, <3>1, <3>2, <4>2, <4>3
    <3> QED BY <3>4, <3>5
  <2> QED BY <2>2, <2>3
<1>21. \A s \in Step : s > made' => step'[s] # "completed"
  <2>1. ASSUME NEW s \in Step, s > made' PROVE s > made
    BY <1>3, <1>4, <2>1, PlanFacts
  <2> QED BY <1>1, <1>3, <2>1 DEF Replaced
<1>22. Replaced'
  BY <1>3, <1>19, <1>20, <1>21 DEF Replaced
<1> QED BY <1>12, <1>13, <1>15, <1>18, <1>22 DEF ReplanInv, Narrows

LEMMA EnqueueReplacementInv ==
  ASSUME Replan!ReplanAssumption, ReplanInv, NEW a \in Actor, Replan!EnqueueReplacement(a)
  PROVE  ReplanInv' /\ Narrows
<1> DEFINE s == Replan!Replacement(a)
<1>1. ReplanTypes /\ ReplanSteps
  BY DEF ReplanInv
<1>2. /\ Replan!Move(a, "enqueue_new", "requeue") /\ Replan!EnqueueRow(s)
      /\ UNCHANGED <<session, step, attempts, made, key, origin, replans, calls, item, ready,
                     done, crashes>>
  BY DEF Replan!EnqueueReplacement, Replan!records
<1>3. pc[a] = "enqueue_new"
  BY <1>2 DEF Replan!Move
<1>4. s \in 1..made
  <2> DEFINE S == {t \in 1..made : origin[t] = item[a]}
  <2>1. S # {}
    BY <1>1, <1>3 DEF ReplanSteps
  <2>2. s = Replan!Max(S)
    BY PlanFacts DEF Replan!Replacement
  <2>3. S \in SUBSET (1..made)
    OBVIOUS
  <2> HIDE DEF S, s
  <2> QED BY <1>1, <2>1, <2>2, <2>3, ExtremesOf
<1>5. ready[a] \in SUBSET (1..made) /\ ready' = [ready EXCEPT ![a] = ready[a]]
  BY <1>1, <1>2 DEF ReplanTypes
<1>6. "requeue" \in Labels /\ "requeue" \in InHand \ Trying /\ "enqueue_new" \in InHand
  BY DEF Labels, InHand, Trying
<1> HIDE DEF s
<1> QED BY <1>2, <1>4, <1>5, <1>6, RowQueueInv

LEMMA EnqueueOneInv ==
  ASSUME Replan!ReplanAssumption, ReplanInv, NEW a \in Actor, Replan!EnqueueOne(a)
  PROVE  ReplanInv' /\ Narrows
<1> DEFINE s == Replan!Min(ready[a])
           left == ready[a] \ {s}
           to == IF ready[a] = {s} THEN "idle" ELSE "enqueue"
<1>1. ReplanTypes /\ ReplanSteps
  BY DEF ReplanInv
<1>2. /\ Replan!Move(a, "enqueue", to) /\ Replan!EnqueueRow(s)
      /\ ready' = [ready EXCEPT ![a] = left]
      /\ UNCHANGED <<session, step, attempts, made, key, origin, replans, calls, item, done,
                     crashes>>
  BY DEF Replan!EnqueueOne, Replan!records
<1>3. pc[a] = "enqueue"
  BY <1>2 DEF Replan!Move
<1>4. ready[a] # {} /\ ready[a] \in SUBSET (1..made)
  BY <1>1, <1>3 DEF ReplanSteps, ReplanTypes
<1>5. s \in ready[a]
  BY <1>1, <1>4, ExtremesOf
<1>6. to \in Labels /\ to \notin InHand /\ to \notin {"replace", "enqueue_new"}
  BY DEF Labels, InHand
<1>7. left \in SUBSET (1..made) /\ (to = "enqueue" => left # {})
  BY <1>4, <1>5
<1>8. "enqueue" \notin InHand
  BY DEF InHand
<1>9. s \in 1..made
  BY <1>4, <1>5
<1> HIDE DEF s, left, to
<1> QED BY <1>2, <1>6, <1>7, <1>8, <1>9, RowQueueInv

LEMMA ReadsInv ==
  ASSUME Replan!ReplanAssumption, ReplanInv, NEW a \in Actor,
         Replan!ReadSteps(a) \/ Replan!Scan(a) \/ Replan!Filter(a)
  PROVE  ReplanInv' /\ Narrows
<1>1. ReplanTypes
  BY DEF ReplanInv
<1>2. CASE Replan!ReadSteps(a)
  <2>1. /\ Replan!Move(a, "next", "scan") /\ done' = [done EXCEPT ![a] = Replan!AllCompleted]
        /\ UNCHANGED <<session, step, attempts, row, made, key, origin, replans, calls, item,
                       ready, crashes>>
    BY <1>2 DEF Replan!ReadSteps, Replan!ledgerVars, Replan!records
  <2>2. Replan!AllCompleted \in BOOLEAN
    BY DEF Replan!AllCompleted
  <2>3. done' \in [Actor -> BOOLEAN] /\ {} \in SUBSET (1..made)
    BY <1>1, <2>1, <2>2 DEF ReplanTypes
  <2>4. "next" \in Labels \ InHand /\ "scan" \in Labels \ InHand
    BY DEF Labels, InHand
  <2> QED BY <2>1, <2>3, <2>4, ReadInv
<1>3. CASE Replan!Scan(a)
  <2>1. PICK left \in SUBSET (1..made) : ready' = [ready EXCEPT ![a] = left]
    <3> DEFINE S == {s \in Replan!Made : step[s] = "queued"
                     /\ \A d \in PlanDeps[key[s]] : step[Replan!Current(d)] = "completed"}
    <3>1. S \in SUBSET (1..made)
      BY PlanFacts
    <3>2. ready' = [ready EXCEPT ![a] = S]
      BY <1>3 DEF Replan!Scan
    <3> QED BY <3>1, <3>2
  <2>2. /\ Replan!Move(a, "scan", "filter")
        /\ UNCHANGED <<session, step, attempts, row, made, key, origin, replans, calls, item,
                       done, crashes>>
    BY <1>3 DEF Replan!Scan, Replan!ledgerVars, Replan!records
  <2>3. "scan" \in Labels \ InHand /\ "filter" \in Labels \ InHand
    BY DEF Labels, InHand
  <2> QED BY <2>1, <2>2, <2>3, ReadInv
<1>4. CASE Replan!Filter(a)
  <2> DEFINE left == {s \in ready[a] : ~Replan!ActiveRow(s)}
             to == IF left = {} THEN "finish" ELSE "enqueue"
  <2>1. left \in SUBSET (1..made)
    BY <1>1 DEF ReplanTypes
  <2>2. /\ Replan!Move(a, "filter", to)
        /\ ready' = [ready EXCEPT ![a] = left]
        /\ UNCHANGED <<session, step, attempts, row, made, key, origin, replans, calls, item,
                       done, crashes>>
    BY <1>4 DEF Replan!Filter, Replan!ledgerVars, Replan!records
  <2>3. "filter" \in Labels \ InHand /\ to \in Labels \ InHand /\ (to = "enqueue" => left # {})
    BY DEF Labels, InHand
  <2> HIDE DEF left, to
  <2> QED BY <2>1, <2>2, <2>3, ReadInv
<1> QED BY <1>2, <1>3, <1>4

\* At most the step in the hands of the worker that died is open again.
LEMMA CrashInv ==
  ASSUME Replan!ReplanAssumption, ReplanInv, NEW a \in Actor, Replan!Crash(a)
  PROVE  ReplanInv'
<1> DEFINE x == item[a]
<1>1. ReplanTypes /\ ReplanSteps /\ OneWorker /\ Replaced
  BY DEF ReplanInv
<1>2. /\ pc'[a] = "idle" /\ \A b \in Actor : b # a => pc'[b] = pc[b]
      /\ pc' \in [Actor -> Labels] /\ crashes' = crashes + 1 /\ crashes < MaxCrashes
      /\ UNCHANGED <<session, step, attempts, row, made, key, origin, replans, calls, item,
                     ready, done>>
  BY <1>1 DEF Replan!Crash, Replan!ledgerVars, Replan!records, ReplanTypes, Labels
<1>3. /\ crashes \in Nat /\ made \in Nat /\ 1..made \subseteq Step
      /\ crashes' \in 0..MaxCrashes /\ x \in 1..made
  <2>1. crashes \in Nat /\ made \in Nat /\ 1..made \subseteq Step
    BY <1>1, SetSizes
  <2>2. MaxCrashes \in Nat
    BY PlanFacts
  <2>3. crashes' \in 0..MaxCrashes
    BY <1>2, <2>1, <2>2
  <2>4. x \in 1..made
    BY <1>1 DEF ReplanTypes
  <2> QED BY <2>1, <2>3, <2>4
<1>4. ReplanTypes'
  BY <1>1, <1>2, <1>3 DEF ReplanTypes, LedgerTypeOK
<1>5. ReplanSteps'
  <2>1. Replacing' \subseteq Replacing /\ Replacing \subseteq Actor
    BY <1>2 DEF Replacing
  <2>2. IsFiniteSet(Replacing) /\ Cardinality(Replacing) \in Nat
    BY <2>1, PlanFacts, FS_Subset, FS_CardinalityType
  <2>3. Cardinality(Replacing') <= Cardinality(Replacing) /\ Cardinality(Replacing') \in Nat
    BY <2>1, <2>2, FS_Subset, FS_CardinalityType
  <2>4. made + Cardinality(Replacing') <= N
    BY <1>1, <1>3, <2>2, <2>3, PlanFacts DEF ReplanSteps
  <2>5. ASSUME NEW b \in Actor
        PROVE  /\ pc'[b] = "replace" => replans[item[b]] < MaxReplans
               /\ pc'[b] = "enqueue_new" => \E t \in 1..made : origin[t] = item[b]
               /\ pc'[b] = "enqueue" => ready[b] # {}
    BY <1>1, <1>2 DEF ReplanSteps
  <2> QED BY <1>1, <1>2, <2>4, <2>5 DEF ReplanSteps
<1>6. ASSUME NEW b \in Actor, NEW t \in Step, WorksOn(b, t)' PROVE b # a /\ WorksOn(b, t)
  BY <1>2, <1>6 DEF WorksOn, InHand
<1>7. OneWorker'
  BY <1>1, <1>2, <1>6 DEF OneWorker
<1>8. ASSUME NEW t \in Step, t # x, Open(t)' PROVE Open(t)
  <2>1. ASSUME NEW b \in Actor, WorksOn(b, t) PROVE b # a /\ WorksOn(b, t)'
    <3>1. b # a
      BY <1>8, <2>1 DEF WorksOn
    <3> QED BY <1>2, <2>1, <3>1 DEF WorksOn
  <2> QED BY <1>2, <1>8, <2>1 DEF Open
<1>9. ASSUME NEW k \in 1..Plan
      PROVE  Cardinality(OpenOf(k)') + Cardinality(DoneOf(k)') <= 1 + crashes'
  <2>1. /\ IsFiniteSet(OpenOf(k)) /\ Cardinality(OpenOf(k)) \in Nat
        /\ IsFiniteSet(DoneOf(k)) /\ Cardinality(DoneOf(k)) \in Nat
    BY <1>1, SetSizes
  <2>2. Cardinality(OpenOf(k)) + Cardinality(DoneOf(k)) <= 1 + crashes
    BY <1>1 DEF Replaced
  <2>3. Cardinality(OpenOf(k)') \in Nat /\ DoneOf(k)' = DoneOf(k)
    BY <1>2, <1>4, SetSizesNext DEF DoneOf
  <2>4. OpenOf(k)' \subseteq OpenOf(k) \cup {x}
    BY <1>2, <1>3, <1>8 DEF OpenOf
  <2>5. /\ IsFiniteSet(OpenOf(k) \cup {x})
        /\ Cardinality(OpenOf(k) \cup {x}) \in
             {Cardinality(OpenOf(k)), Cardinality(OpenOf(k)) + 1}
    BY <2>1, FS_AddElement
  <2>6. Cardinality(OpenOf(k)') <= Cardinality(OpenOf(k) \cup {x})
    BY <2>4, <2>5, FS_Subset
  <2> QED BY <1>2, <1>3, <2>1, <2>2, <2>3, <2>5, <2>6
<1>10. ASSUME NEW s \in 1..made
       PROVE  /\ Cardinality(ReplacedBy(s)') <= 1 + crashes'
              /\ Open(s)' => Cardinality(ReplacedBy(s)') <= crashes'
  <2>1. ReplacedBy(s)' = ReplacedBy(s)
    BY <1>2 DEF ReplacedBy
  <2>2. Cardinality(ReplacedBy(s)) \in Nat /\ Cardinality(ReplacedBy(s)) <= 1 + crashes
    BY <1>1, SetSizes DEF Replaced
  <2> QED BY <1>2, <1>3, <2>1, <2>2
<1>11. \A s \in Step : s > made => step'[s] # "completed"
  BY <1>1, <1>2 DEF Replaced
<1>12. Replaced'
  BY <1>2, <1>9, <1>10, <1>11 DEF Replaced
<1> QED BY <1>4, <1>5, <1>7, <1>12 DEF ReplanInv

LEMMA ReplanInit ==
  ASSUME Replan!ReplanAssumption, Replan!Init
  PROVE  ReplanInv
<1>1. /\ session = "running" /\ step = [s \in Step |-> "queued"]
      /\ attempts = [s \in Step |-> 0]
      /\ made = Plan /\ key = [s \in Step |-> IF s \in 1..Plan THEN s ELSE 0]
      /\ origin = [s \in Step |-> 0] /\ replans = [s \in Step |-> 0]
      /\ calls = [s \in Step |-> 0] /\ pc = [a \in Actor |-> "idle"]
      /\ item = [a \in Actor |-> 1] /\ ready = [a \in Actor |-> {}]
      /\ done = [a \in Actor |-> FALSE] /\ crashes = 0
  BY PlanFacts DEF Replan!Init
<1>2. row = [s \in Step |->
        IF s = 1 THEN [AbsentRow EXCEPT !.state = "queued"] ELSE AbsentRow]
  BY PlanFacts DEF Replan!Init, Replan!AbsentRow, AbsentRow
<1>3. /\ N \in Nat /\ N >= 1 /\ Plan \in 1..N /\ Step = 1..N
      /\ MaxReplans \in Nat /\ MaxCrashes \in Nat
  BY PlanFacts
<1>4. row \in [Step -> Row] /\ \A s \in Step : s # 1 => row[s].state = "absent"
  <2>1. AbsentRow \in Row /\ [AbsentRow EXCEPT !.state = "queued"] \in Row
    BY DEF AbsentRow, Row
  <2>2. AbsentRow.state = "absent"
    BY DEF AbsentRow
  <2> QED BY <1>2, <2>1, <2>2
<1>5. ReplanTypes
  <2>1. LedgerTypeOK
    BY <1>1, <1>4 DEF LedgerTypeOK, SessionStatus, StepState
  <2>2. made \in Plan..N /\ key \in [Step -> 0..Plan] /\ \A s \in 1..made : key[s] # 0
    BY <1>1, <1>3
  <2>3. origin \in [Step -> 0..N] /\ \A s \in Step : origin[s] < s
    BY <1>1, <1>3
  <2>4. /\ replans \in [Step -> 0..MaxReplans] /\ calls \in [Step -> Nat]
        /\ crashes \in 0..MaxCrashes
    BY <1>1, <1>3
  <2>5. /\ pc \in [Actor -> Labels] /\ item \in [Actor -> Step]
        /\ ready \in [Actor -> SUBSET (1..made)] /\ done \in [Actor -> BOOLEAN]
        /\ \A a \in Actor : item[a] \in 1..made
    BY <1>1, <1>3 DEF Labels
  <2> QED BY <2>1, <2>2, <2>3, <2>4, <2>5 DEF ReplanTypes
<1>6. ReplanSteps
  <2>1. Replacing = {}
    BY <1>1 DEF Replacing
  <2>2. made + Cardinality(Replacing) <= N
    BY <1>1, <1>3, <2>1, FS_EmptySet
  <2>3. \A s \in Step : s > made => row[s].state = "absent"
    BY <1>1, <1>3, <1>4
  <2> QED BY <1>1, <2>2, <2>3 DEF ReplanSteps
<1>7. OneWorker
  BY <1>1 DEF OneWorker, WorksOn, InHand
<1>8. Replaced
  <2>1. ASSUME NEW k \in 1..Plan PROVE Cardinality(OpenOf(k)) + Cardinality(DoneOf(k)) <= 1
    <3>1. DoneOf(k) = {}
      BY <1>1, <1>3 DEF DoneOf
    <3>2. OpenOf(k) \subseteq {k}
      BY <1>1, <1>3 DEF OpenOf
    <3>3. Cardinality({k}) = 1 /\ IsFiniteSet({k})
      BY FS_Singleton
    <3>4. Cardinality(OpenOf(k)) <= 1 /\ Cardinality(OpenOf(k)) \in Nat
      BY <3>2, <3>3, FS_Subset, FS_CardinalityType
    <3> QED BY <3>1, <3>4, FS_EmptySet
  <2>2. ASSUME NEW s \in 1..made PROVE Cardinality(ReplacedBy(s)) = 0
    <3>1. ReplacedBy(s) = {}
      BY <1>1, <1>3 DEF ReplacedBy
    <3> QED BY <3>1, FS_EmptySet
  <2>3. \A s \in Step : s > made => step[s] # "completed"
    BY <1>1
  <2> QED BY <1>1, <2>1, <2>2, <2>3 DEF Replaced
<1> QED BY <1>5, <1>6, <1>7, <1>8 DEF ReplanInv

LEMMA ReplanNext ==
  ASSUME Replan!ReplanAssumption, ReplanInv, [Replan!Next]_(Replan!vars)
  PROVE  ReplanInv' /\ (crashes' = crashes => Narrows)
<1>1. CASE UNCHANGED Replan!vars
  BY <1>1 DEF Replan!vars, Replan!ledgerVars, Replan!records, Replan!threads, ReplanInv,
     ReplanTypes, ReplanSteps, OneWorker, Replaced, LedgerTypeOK, OpenOf, DoneOf,
     ReplacedBy, Open, WorksOn, Replacing, Narrows
<1>2. ASSUME NEW s \in Step, Replan!LeaseExpires(s) PROVE ReplanInv' /\ Narrows
  BY <1>2, ExpireInv
<1>3. ASSUME NEW a \in Actor, Replan!LeaseNext(a) PROVE ReplanInv' /\ Narrows
  BY <1>3, LeaseInv
<1>4. ASSUME NEW a \in Actor, Replan!Crash(a) PROVE ReplanInv' /\ crashes' # crashes
  <2>1. crashes \in Nat /\ crashes' = crashes + 1
    BY <1>4, SetSizes DEF Replan!Crash, ReplanInv
  <2> QED BY <1>4, <2>1, CrashInv
<1>5. ASSUME NEW a \in Actor, Replan!Thread(a) PROVE ReplanInv' /\ Narrows
  <2>1. CASE Replan!Start(a)
    BY <2>1, SessionWriteInv
       DEF Replan!Start, SessionStatus, Labels, InHand, Trying, ReplanInv
  <2>2. CASE Replan!Mark(a)
    BY <2>2, StepWriteInv DEF Replan!Mark, StepState, Labels, InHand, Trying
  <2>3. CASE Replan!Invoke(a)
    BY <2>3, InvokeInv
  <2>4. CASE Replan!Complete(a)
    BY <2>4, CompleteInv
  <2>5. CASE Replan!Close(a)
    BY <2>5, RowCloseInv DEF Replan!Close, Replan!records, Labels, InHand
  <2>6. CASE Replan!Replan(a)
    BY <2>6, ReplanCallInv
  <2>7. CASE Replan!StartReplacement(a)
    BY <2>7, StartReplacementInv
  <2>8. CASE Replan!EnqueueReplacement(a)
    BY <2>8, EnqueueReplacementInv
  <2>9. CASE Replan!Requeue(a)
    BY <2>9, SessionWriteInv
       DEF Replan!Requeue, SessionStatus, Labels, InHand, Trying, ReplanInv
  <2>10. CASE Replan!FailReplanned(a)
    BY <2>10, RowCloseInv
       DEF Replan!FailReplanned, Replan!RowFails, Replan!records, Labels, InHand
  <2>11. CASE Replan!StepReplanned(a)
    BY <2>11, StepWriteInv DEF Replan!StepReplanned, StepState, Labels, InHand, Trying
  <2>12. CASE Replan!FailItem(a)
    BY <2>12, RowCloseInv
       DEF Replan!FailItem, Replan!Raises, Replan!RowFails, Replan!records, Labels, InHand
  <2>13. CASE Replan!FailStep(a)
    BY <2>13, StepWriteInv DEF Replan!FailStep, StepState, Labels, InHand, Trying
  <2>14. CASE Replan!FailSession(a)
    BY <2>14, SessionWriteInv
       DEF Replan!FailSession, SessionStatus, Labels, InHand, Trying, ReplanInv
  <2>15. CASE Replan!ReadSteps(a) \/ Replan!Scan(a) \/ Replan!Filter(a)
    BY <2>15, ReadsInv
  <2>16. CASE Replan!EnqueueOne(a)
    BY <2>16, EnqueueOneInv
  <2>17. CASE Replan!Finish(a)
    <3> DEFINE status == IF done[a] THEN "completed" ELSE session
    <3>1. status \in SessionStatus
      BY DEF ReplanInv, ReplanTypes, LedgerTypeOK, SessionStatus
    <3>2. Replan!SessionWrite(a, "finish", status, "idle")
      BY <2>17 DEF Replan!Finish
    <3> HIDE DEF status
    <3> QED BY <3>1, <3>2, SessionWriteInv DEF Labels, InHand, Trying, ReplanInv
  <2> QED BY <1>5, <2>1, <2>2, <2>3, <2>4, <2>5, <2>6, <2>7, <2>8, <2>9, <2>10, <2>11,
         <2>12, <2>13, <2>14, <2>15, <2>16, <2>17 DEF Replan!Thread
<1> QED BY <1>1, <1>2, <1>3, <1>4, <1>5, PlanFacts DEF Replan!Next

LEMMA ReplanSizes == \A S : Replan!Cardinality(S) = Cardinality(S)
  BY DEF Replan!Cardinality, Cardinality, Replan!IsFiniteSet

LEMMA ReplanHolds ==
  ASSUME Replan!ReplanAssumption, ReplanInv
  PROVE  Replan!TypeOK /\ Replan!CarriedOutOnce /\ Replan!ReplacedOnce
<1>1. ReplanTypes /\ Replaced
  BY DEF ReplanInv
<1>2. Replan!TypeOK
  <2>1. Replan!LedgerTypeOK
    BY <1>1 DEF ReplanTypes, LedgerTypeOK, Replan!LedgerTypeOK, Replan!SessionStatus,
       SessionStatus, Replan!StepState, StepState, Replan!Row, Row, Replan!Step, Step
  <2>2. \A a \in Actor : done[a] \in BOOLEAN
    BY <1>1 DEF ReplanTypes
  <2> QED BY <1>1, <2>1, <2>2, PlanFacts DEF Replan!TypeOK, ReplanTypes
<1>3. Replan!CarriedOutOnce
  <2>1. ASSUME NEW k \in 1..Plan PROVE Cardinality(DoneOf(k)) <= 1 + crashes
    <3>1. Cardinality(OpenOf(k)) + Cardinality(DoneOf(k)) <= 1 + crashes
      BY <1>1 DEF Replaced
    <3>2. Cardinality(OpenOf(k)) \in Nat /\ Cardinality(DoneOf(k)) \in Nat /\ crashes \in Nat
      BY <1>1, SetSizes
    <3> QED BY <3>1, <3>2
  <2>2. ASSUME NEW k \in 1..Plan
        PROVE  Cardinality({s \in 1..made : key[s] = k /\ step[s] = "completed"}) <= 1 + crashes
    BY <2>1 DEF DoneOf
  <2> QED BY <2>2, ReplanSizes, PlanFacts DEF Replan!CarriedOutOnce
<1>4. Replan!ReplacedOnce
  <2>1. ASSUME NEW s \in 1..made
        PROVE  Cardinality({t \in 1..made : origin[t] = s}) <= 1 + crashes
    BY <1>1 DEF Replaced, ReplacedBy
  <2> QED BY <2>1, ReplanSizes, PlanFacts DEF Replan!ReplacedOnce
<1> QED BY <1>2, <1>3, <1>4

\* However its tool calls fail, and with any number of workers, a plan step is carried
\* out once and a failed step is replaced once: once more for every worker that died
\* (_execute_leased_queue_item, request_replan).
THEOREM CarriedOut ==
  ASSUME Replan!ReplanAssumption
  PROVE  Replan!Spec => [](Replan!TypeOK /\ Replan!CarriedOutOnce /\ Replan!ReplacedOnce)
<1>1. Replan!Init => ReplanInv
  BY ReplanInit
<1>2. ReplanInv /\ [Replan!Next]_(Replan!vars) => ReplanInv'
  BY ReplanNext
<1>3. ReplanInv => Replan!TypeOK /\ Replan!CarriedOutOnce /\ Replan!ReplacedOnce
  BY ReplanHolds
<1> QED BY <1>1, <1>2, <1>3, PTL DEF Replan!Spec

-----------------------------------------------------------------------------
(* A session is "replanning" in the hands of a worker. *)

AtReplan == {a \in Actor : pc[a] \in {"replace", "enqueue_new", "requeue"}}

Answered == session = "replanning" => AtReplan # {} \/ crashes > 0

LEMMA AnsweredNext ==
  ASSUME Replan!ReplanAssumption, ReplanInv, Answered, [Replan!Next]_(Replan!vars)
  PROVE  Answered'
<1>0. crashes \in Nat /\ pc \in [Actor -> Labels]
  BY SetSizes DEF ReplanInv, ReplanTypes
\* No worker leaves the replacement.
<1>1. ASSUME UNCHANGED <<session, crashes>>,
             \A a \in AtReplan : pc'[a] \in {"replace", "enqueue_new", "requeue"}
      PROVE  Answered'
  <2>1. AtReplan # {} => AtReplan' # {}
    BY <1>1 DEF AtReplan
  <2> QED BY <1>1, <2>1 DEF Answered
<1>2. ASSUME session' # "replanning" PROVE Answered'
  BY <1>2 DEF Answered
<1>3. ASSUME NEW a \in Actor, NEW from, NEW to, Replan!Move(a, from, to),
             UNCHANGED <<session, crashes>>,
             \/ from \notin {"replace", "enqueue_new", "requeue"}
             \/ to \in {"replace", "enqueue_new", "requeue"}
      PROVE  Answered'
  <2>1. \A b \in AtReplan : pc'[b] \in {"replace", "enqueue_new", "requeue"}
    BY <1>0, <1>3 DEF AtReplan, Replan!Move
  <2> QED BY <1>1, <1>3, <2>1
<1>4. CASE UNCHANGED Replan!vars
  BY <1>1, <1>4 DEF Replan!vars, Replan!ledgerVars, Replan!threads, AtReplan
<1>5. ASSUME NEW s \in Step, Replan!LeaseExpires(s) PROVE Answered'
  BY <1>1, <1>5 DEF Replan!LeaseExpires, Replan!threads, AtReplan
<1>6. ASSUME NEW a \in Actor, Replan!LeaseNext(a) PROVE Answered'
  BY <1>3, <1>6 DEF Replan!LeaseNext
<1>7. ASSUME NEW a \in Actor, Replan!Crash(a) PROVE Answered'
  BY <1>0, <1>7 DEF Replan!Crash, Answered
<1>8. ASSUME NEW a \in Actor, Replan!Thread(a) PROVE Answered'
  <2>1. CASE Replan!Start(a) \/ Replan!Requeue(a) \/ Replan!FailSession(a)
    BY <1>2, <2>1 DEF Replan!Start, Replan!Requeue, Replan!FailSession, Replan!SessionWrite,
       Replan!SetSession
  <2>2. CASE Replan!Replan(a)
    BY <1>0, <2>2 DEF Replan!Replan, Replan!SessionWrite, Replan!Move, AtReplan, Answered
  <2>3. CASE Replan!Finish(a)
    <3>1. CASE done[a]
      BY <1>2, <2>3, <3>1 DEF Replan!Finish, Replan!SessionWrite, Replan!SetSession
    <3>2. CASE ~done[a]
      BY <1>3, <2>3, <3>2 DEF Replan!Finish, Replan!SessionWrite, Replan!SetSession
    <3> QED BY <3>1, <3>2
  <2>4. CASE \/ Replan!Mark(a) \/ Replan!Complete(a)
             \/ Replan!StepReplanned(a) \/ Replan!FailStep(a)
    BY <1>3, <2>4 DEF Replan!Mark, Replan!Complete, Replan!StepReplanned, Replan!FailStep,
       Replan!StepWrite
  <2>5. CASE Replan!Invoke(a) \/ Replan!Close(a) \/ Replan!FailReplanned(a)
    BY <1>3, <2>5 DEF Replan!Invoke, Replan!Close, Replan!FailReplanned, Replan!RowFails,
       Replan!ledgerVars
  <2>6. CASE Replan!FailItem(a)
    BY <1>3, <2>6 DEF Replan!FailItem, Replan!Raises, Replan!RowFails
  <2>7. CASE Replan!StartReplacement(a) \/ Replan!EnqueueReplacement(a)
    BY <1>3, <2>7 DEF Replan!StartReplacement, Replan!EnqueueReplacement, Replan!ledgerVars
  <2>8. CASE Replan!ReadSteps(a) \/ Replan!Scan(a) \/ Replan!Filter(a)
    BY <1>3, <2>8 DEF Replan!ReadSteps, Replan!Scan, Replan!Filter, Replan!ledgerVars
  <2>9. CASE Replan!EnqueueOne(a)
    BY <1>3, <2>9 DEF Replan!EnqueueOne
  <2> QED BY <1>8, <2>1, <2>2, <2>3, <2>4, <2>5, <2>6, <2>7, <2>8, <2>9 DEF Replan!Thread
<1> QED BY <1>4, <1>5, <1>6, <1>7, <1>8, PlanFacts DEF Replan!Next

\* A session is not left in "replanning", from which nothing is leased, unless a worker
\* died in request_replan.
THEOREM ReplanAnswered ==
  ASSUME Replan!ReplanAssumption
  PROVE  Replan!Spec => []Replan!ReplanningEnds
<1>1. Replan!Init => ReplanInv /\ Answered
  BY ReplanInit DEF Replan!Init, Answered
<1>2. ReplanInv /\ Answered /\ [Replan!Next]_(Replan!vars) => (ReplanInv /\ Answered)'
  BY ReplanNext, AnsweredNext
<1>3. Answered => Replan!ReplanningEnds
  BY DEF Answered, AtReplan, Replan!ReplanningEnds, Replan!Quiet
<1> QED BY <1>1, <1>2, <1>3, PTL DEF Replan!Spec

-----------------------------------------------------------------------------
(* The order of the calls, as long as no worker dies. *)

\* A plan whose first step waits for nothing (execute_next_ready_step enqueues a step that
\* is ready), and workers that do not die.
Orderly == MaxCrashes = 0 /\ PlanDeps[1] = {}

Newest(s) == \A t \in 1..made : key[t] = key[s] => t <= s

\* Every key the step depends on has been carried out.
Met(s) ==
  \A d \in PlanDeps[key[s]] : \E u \in 1..made : key[u] = d /\ step[u] = "completed"

\* The labels of a worker whose tool raised, and those after it has failed its row.
Closing == {"step_replanned", "fail_step"}
Failing == {"replace", "enqueue_new", "requeue", "fail_replanned"} \cup Closing

Ordered ==
  /\ \A s \in 1..made : Open(s) \/ step[s] = "completed" => Newest(s)
  /\ \A a \in Actor :
       /\ pc[a] \in Failing => step[item[a]] # "completed"
       /\ pc[a] \in Closing => row[item[a]].state = "failed"
  /\ \A s \in 1..made : row[s].state # "absent" => Met(s)
  /\ \A a \in Actor : \A s \in ready[a] : Met(s)
  /\ \A s \in 1..Plan : key[s] = s
  /\ \A t \in 1..made : origin[t] # 0 => key[t] = key[origin[t]]

\* What is open has not been carried out.
LEMMA NotBoth ==
  ASSUME Replan!ReplanAssumption, Orderly, ReplanInv, NEW s \in 1..made, Open(s)
  PROVE  step[s] # "completed"
<1> SUFFICES ASSUME step[s] = "completed" PROVE FALSE
  OBVIOUS
<1> DEFINE k == key[s]
<1>1. ReplanTypes /\ Replaced /\ s \in Step
  BY SetSizes DEF ReplanInv
<1>2. crashes = 0
  BY <1>1 DEF ReplanTypes, Orderly
<1>3. k \in 1..Plan
  <2>1. k \in 0..Plan /\ k # 0 /\ Plan \in Nat
    BY <1>1, PlanFacts DEF ReplanTypes
  <2> QED BY <2>1
<1>4. s \in OpenOf(k) /\ s \in DoneOf(k)
  BY DEF OpenOf, DoneOf
<1>5. /\ IsFiniteSet(OpenOf(k)) /\ Cardinality(OpenOf(k)) \in Nat
      /\ IsFiniteSet(DoneOf(k)) /\ Cardinality(DoneOf(k)) \in Nat
  BY <1>1, SetSizes
<1>6. Cardinality(OpenOf(k)) # 0 /\ Cardinality(DoneOf(k)) # 0
  BY <1>4, <1>5, FS_EmptySet
<1>7. Cardinality(OpenOf(k)) + Cardinality(DoneOf(k)) <= 1 + crashes
  BY <1>1, <1>3 DEF Replaced
<1> QED BY <1>2, <1>5, <1>6, <1>7

\* A step in the hands of a worker whose tool has not failed is open.
LEMMA InHandOpen ==
  ASSUME Replan!ReplanAssumption, ReplanInv, NEW a \in Actor, pc[a] \in InHand
  PROVE  /\ item[a] \in 1..made /\ item[a] \in Step
         /\ row[item[a]].state = "leased"
         /\ \A b \in Actor : pc[b] \in InHand /\ item[b] = item[a] => a = b
         /\ pc[a] \in Trying => Open(item[a])
<1>1. item[a] \in 1..made /\ item[a] \in Step /\ WorksOn(a, item[a])
  BY DEF ReplanInv, ReplanTypes, WorksOn
<1>2. /\ row[item[a]].state = "leased"
      /\ \A b \in Actor : WorksOn(b, item[a]) => a = b
  BY <1>1 DEF ReplanInv, OneWorker
<1> QED BY <1>1, <1>2 DEF WorksOn, Open

\* Every step but the start of a replacement.
LEMMA OrderStays ==
  ASSUME Replan!ReplanAssumption, ReplanInv, Ordered, Narrows,
         UNCHANGED <<made, key, origin>>,
         \A t \in 1..made :
           /\ step[t] = "completed" => step'[t] = "completed"
           /\ step'[t] = "completed" => step[t] = "completed" \/ Open(t)
           /\ row'[t].state # "absent" => row[t].state # "absent" \/ Met(t),
         \A a \in Actor :
           /\ \A t \in ready'[a] : t \in 1..made /\ (t \in ready[a] \/ Met(t))
           /\ pc'[a] \in Failing => step'[item'[a]] # "completed"
           /\ pc'[a] \in Closing => row'[item'[a]].state = "failed"
  PROVE  Ordered'
<1>1. 1..made \subseteq Step /\ \A s \in 1..Plan : s \in 1..made
  BY SetSizes, PlanFacts DEF ReplanInv, ReplanTypes
<1>2. ASSUME NEW s \in 1..made, Open(s)' \/ step'[s] = "completed" PROVE Newest(s)'
  <2>1. Open(s) \/ step[s] = "completed"
    BY <1>1, <1>2 DEF Narrows
  <2>2. Newest(s)
    BY <2>1 DEF Ordered
  <2> QED BY <2>2 DEF Newest
<1>3. ASSUME NEW s \in 1..made, Met(s) PROVE Met(s)'
  BY <1>3 DEF Met
<1>4. \A s \in 1..made : row'[s].state # "absent" => Met(s)'
  BY <1>3 DEF Ordered
<1>5. \A a \in Actor : \A s \in ready'[a] : Met(s)'
  BY <1>3 DEF Ordered
<1> QED BY <1>2, <1>4, <1>5 DEF Ordered

\* A worker that keeps its item and does not complete its step.
LEMMA OrderMove ==
  ASSUME Replan!ReplanAssumption, Orderly, ReplanInv, Ordered, Narrows,
         UNCHANGED <<made, key, origin, item>>,
         NEW a \in Actor, NEW from, NEW to, Replan!Move(a, from, to),
         \A t \in Step : step'[t] = "completed" <=> step[t] = "completed",
         \A t \in Step :
           /\ row[t].state = "failed" => row'[t].state = "failed"
           /\ row'[t].state # "absent" => row[t].state # "absent" \/ Met(t),
         \A b \in Actor : b # a => ready'[b] = ready[b],
         \A t \in ready'[a] : t \in 1..made /\ (t \in ready[a] \/ Met(t)),
         to \in Failing => from \in Failing \cup Trying,
         to \in Closing => row'[item[a]].state = "failed"
  PROVE  Ordered'
<1>1. /\ pc[a] = from /\ pc'[a] = to
      /\ \A b \in Actor : b # a => pc'[b] = pc[b]
      /\ \A b \in Actor : item'[b] = item[b] /\ item[b] \in Step /\ item[b] \in 1..made
      /\ \A b \in Actor : \A t \in ready[b] : t \in 1..made
      /\ 1..made \subseteq Step
  BY SetSizes DEF Replan!Move, ReplanInv, ReplanTypes
<1>2. ASSUME NEW b \in Actor, pc'[b] \in Failing PROVE step'[item'[b]] # "completed"
  <2>1. CASE pc[b] \in Failing
    BY <1>1, <2>1 DEF Ordered
  <2>2. CASE pc[b] \notin Failing
    <3>1. b = a /\ pc[a] \in Trying
      BY <1>1, <1>2, <2>2
    <3>2. pc[a] \in InHand
      BY <3>1 DEF InHand, Trying
    <3>3. Open(item[a])
      BY <3>1, <3>2, InHandOpen
    <3> QED BY <1>1, <3>1, <3>3, NotBoth
  <2> QED BY <2>1, <2>2
<1>3. ASSUME NEW b \in Actor, pc'[b] \in Closing PROVE row'[item'[b]].state = "failed"
  BY <1>1, <1>3 DEF Ordered
<1>4. ASSUME NEW b \in Actor, NEW t \in ready'[b]
      PROVE  t \in 1..made /\ (t \in ready[b] \/ Met(t))
  BY <1>1, <1>4
<1>5. ASSUME NEW t \in 1..made
      PROVE  /\ step[t] = "completed" => step'[t] = "completed"
             /\ step'[t] = "completed" => step[t] = "completed" \/ Open(t)
             /\ row'[t].state # "absent" => row[t].state # "absent" \/ Met(t)
  BY <1>1
<1> QED BY <1>2, <1>3, <1>4, <1>5, OrderStays

LEMMA OrderedRun ==
  ASSUME Replan!ReplanAssumption, Orderly, ReplanInv, Ordered, Narrows, NEW a \in Actor,
         \/ Replan!Start(a) \/ Replan!Mark(a) \/ Replan!Invoke(a) \/ Replan!Close(a)
         \/ Replan!Replan(a) \/ Replan!EnqueueReplacement(a) \/ Replan!Requeue(a)
         \/ Replan!FailReplanned(a) \/ Replan!StepReplanned(a) \/ Replan!FailItem(a)
         \/ Replan!FailStep(a) \/ Replan!FailSession(a)
  PROVE  Ordered'
<1> DEFINE x == item[a]
<1>1. /\ ReplanTypes /\ LedgerTypeOK /\ x \in Step /\ x \in 1..made /\ 1..made \subseteq Step
      /\ \A b \in Actor : \A t \in ready[b] : t \in 1..made
  BY SetSizes DEF ReplanInv, ReplanTypes
<1>2. pc[a] \in Trying => step[x] # "completed"
  <2>1. Trying \subseteq InHand
    BY DEF Trying, InHand
  <2> QED BY <2>1, InHandOpen, NotBoth
<1>3. ASSUME NEW from, NEW status, NEW to, Replan!SessionWrite(a, from, status, to),
             to \in Failing => from \in Failing \cup Trying, to \notin Closing
      PROVE  Ordered'
  <2>1. /\ Replan!Move(a, from, to)
        /\ UNCHANGED <<step, row, made, key, origin, item, ready>>
    BY <1>3 DEF Replan!SessionWrite, Replan!records
  <2> QED BY <1>1, <1>3, <2>1, OrderMove
<1>4. ASSUME NEW from, NEW state, state # "completed", NEW to,
             Replan!StepWrite(a, from, state, to),
             from \in Failing \cup Trying, to \notin Failing
      PROVE  Ordered'
  <2>1. /\ Replan!Move(a, from, to) /\ step' = [step EXCEPT ![x] = state]
        /\ UNCHANGED <<row, made, key, origin, item, ready>>
    BY <1>4 DEF Replan!StepWrite, Replan!UpdateStep, Replan!records
  <2>2. pc[a] = from
    BY <2>1 DEF Replan!Move
  <2>3. step[x] # "completed"
    BY <1>2, <1>4, <2>2 DEF Ordered
  <2>4. \A t \in Step : step'[t] = "completed" <=> step[t] = "completed"
    BY <1>1, <1>4, <2>1, <2>3 DEF LedgerTypeOK
  <2>5. to \notin Closing
    BY <1>4 DEF Failing
  <2> QED BY <1>1, <1>4, <2>1, <2>4, <2>5, OrderMove
<1>5. ASSUME NEW from \in InHand, NEW to, Replan!Move(a, from, to),
             to \in Failing => from \in Failing \cup Trying,
             \/ Replan!CompleteRow(x) /\ to \notin Closing
             \/ Replan!FailRow(x),
             UNCHANGED <<step, made, key, origin, item, ready>>
      PROVE  Ordered'
  <2>1. row[x].state = "leased"
    BY <1>5, InHandOpen DEF Replan!Move
  <2>2. BecomesRow(x, row'[x]) /\ (to \in Closing => row'[x].state = "failed")
    BY <1>1, <1>5, RowStatements
  <2>3. \A t \in Step :
          /\ row[t].state = "failed" => row'[t].state = "failed"
          /\ row'[t].state # "absent" => row[t].state # "absent"
    BY <2>1, <2>2 DEF BecomesRow
  <2> QED BY <1>1, <1>5, <2>2, <2>3, OrderMove
<1>6. CASE Replan!Start(a) \/ Replan!FailSession(a)
  BY <1>3, <1>6 DEF Replan!Start, Replan!FailSession, Failing, Closing
<1>7. CASE Replan!Mark(a)
  BY <1>4, <1>7 DEF Replan!Mark, Failing, Closing, Trying
<1>8. CASE Replan!Invoke(a)
  <2>1. /\ Replan!Move(a, "run", "invoked")
        /\ UNCHANGED <<step, row, made, key, origin, item, ready>>
    BY <1>8 DEF Replan!Invoke, Replan!ledgerVars
  <2>2. "invoked" \notin Failing /\ "invoked" \notin Closing
    BY DEF Failing, Closing
  <2> QED BY <1>1, <2>1, <2>2, OrderMove
<1>9. CASE Replan!Close(a)
  BY <1>5, <1>9 DEF Replan!Close, Replan!records, InHand, Failing, Closing
<1>10. CASE Replan!Replan(a)
  <2>1. pc[a] \in {"run", "invoked"} /\ Replan!SessionWrite(a, pc[a], "replanning", "replace")
    BY <1>10 DEF Replan!Replan, Replan!Raises
  <2> QED BY <1>3, <2>1 DEF Failing, Closing, Trying
<1>11. CASE Replan!EnqueueReplacement(a)
  <2> DEFINE s == Replan!Replacement(a)
  <2>1. /\ Replan!Move(a, "enqueue_new", "requeue") /\ Replan!EnqueueRow(s)
        /\ UNCHANGED <<step, made, key, origin, item, ready>>
    BY <1>11 DEF Replan!EnqueueReplacement, Replan!records
  <2>2. pc[a] = "enqueue_new"
    BY <2>1 DEF Replan!Move
  <2>3. s \in 1..made /\ origin[s] = x
    <3> DEFINE S == {t \in 1..made : origin[t] = x}
    <3>1. S # {}
      BY <2>2 DEF ReplanInv, ReplanSteps
    <3>2. s = Replan!Max(S)
      BY PlanFacts DEF Replan!Replacement
    <3>3. S \in SUBSET (1..made)
      OBVIOUS
    <3>4. Replan!Max(S) \in S
      <4> HIDE DEF S
      <4> QED BY <1>1, <3>1, <3>3, ExtremesOf
    <3> QED BY <3>2, <3>4
  <2>4. row[x].state = "leased"
    BY <2>2, InHandOpen DEF InHand
  <2>5. Met(x)
    BY <1>1, <2>4 DEF Ordered
  <2>6. key[s] = key[x]
    <3>1. x # 0
      BY <1>1
    <3> QED BY <2>3, <3>1 DEF Ordered
  <2>7. Met(s)
    BY <2>5, <2>6 DEF Met
  <2> HIDE DEF s
  <2>8. s \in Step
    BY <1>1, <2>3
  <2>9. \/ row' = row
        \/ /\ BecomesRow(s, row'[s])
           /\ row[s].state = "absent" /\ row'[s].state = "queued"
    BY <1>1, <2>1, <2>8, RowStatements
  <2>10. \A t \in Step :
          /\ row[t].state = "failed" => row'[t].state = "failed"
          /\ row'[t].state # "absent" => row[t].state # "absent" \/ Met(t)
    BY <2>7, <2>9 DEF BecomesRow
  <2>11. "requeue" \notin Closing /\ "enqueue_new" \in Failing
    BY DEF Failing, Closing
  <2> QED BY <1>1, <2>1, <2>10, <2>11, OrderMove
<1>12. CASE Replan!Requeue(a)
  BY <1>3, <1>12 DEF Replan!Requeue, Failing, Closing
<1>13. CASE Replan!FailReplanned(a)
  BY <1>5, <1>13 DEF Replan!FailReplanned, Replan!RowFails, Replan!records, InHand, Failing
<1>14. CASE Replan!StepReplanned(a)
  BY <1>4, <1>14 DEF Replan!StepReplanned, Failing, Closing
<1>15. CASE Replan!FailItem(a)
  BY <1>5, <1>15 DEF Replan!FailItem, Replan!Raises, Replan!RowFails, Replan!records, InHand,
     Failing, Trying
<1>16. CASE Replan!FailStep(a)
  BY <1>4, <1>16 DEF Replan!FailStep, Failing, Closing
<1> QED BY <1>6, <1>7, <1>8, <1>9, <1>10, <1>11, <1>12, <1>13, <1>14, <1>15, <1>16

\* The newest step of a key that has been carried out, and the other way round.
LEMMA CurrentStep ==
  ASSUME Replan!ReplanAssumption, ReplanInv, Ordered, NEW d \in 1..Plan
  PROVE  /\ Replan!Current(d) \in 1..made /\ key[Replan!Current(d)] = d
         /\ \A u \in 1..made : key[u] = d /\ step[u] = "completed" => u = Replan!Current(d)
<1> DEFINE S == {s \in 1..made : key[s] = d}
           m == Replan!Current(d)
<1>1. ReplanTypes /\ made \in Nat
  BY SetSizes DEF ReplanInv
<1>2. d \in S
  <2>1. made \in Plan..N /\ Plan \in Nat /\ N \in Nat
    BY <1>1, PlanFacts DEF ReplanTypes
  <2>2. d \in 1..made
    BY <1>1, <2>1
  <2> QED BY <2>2 DEF Ordered
<1>3. m = Replan!Max(S)
  BY PlanFacts DEF Replan!Current
<1>4. m \in S /\ \A x \in S : m >= x
  <2>1. S \in SUBSET (1..made) /\ S # {}
    BY <1>2
  <2> HIDE DEF S, m
  <2> QED BY <1>1, <1>3, <2>1, ExtremesOf
<1>5. ASSUME NEW u \in 1..made, key[u] = d, step[u] = "completed" PROVE u = m
  <2>1. m <= u
    BY <1>4, <1>5 DEF Ordered, Newest
  <2>2. m >= u /\ m \in Nat /\ u \in Nat
    BY <1>4, <1>5
  <2> HIDE DEF m
  <2> QED BY <2>1, <2>2
<1> QED BY <1>4, <1>5

LEMMA OrderedReads ==
  ASSUME Replan!ReplanAssumption, Orderly, ReplanInv, Ordered, Narrows, NEW a \in Actor,
         \/ Replan!ReadSteps(a) \/ Replan!Scan(a) \/ Replan!Filter(a)
         \/ Replan!EnqueueOne(a) \/ Replan!Finish(a)
  PROVE  Ordered'
<1>1. /\ ReplanTypes /\ LedgerTypeOK /\ 1..made \subseteq Step
      /\ \A b \in Actor : \A t \in ready[b] : t \in 1..made
      /\ ready \in [Actor -> SUBSET (1..made)]
  BY SetSizes DEF ReplanInv, ReplanTypes
\* Labels outside of a tool call.
<1>2. ASSUME NEW from, NEW to, Replan!Move(a, from, to), to \notin Failing,
             UNCHANGED <<step, made, key, origin, item, row>>,
             \A b \in Actor : b # a => ready'[b] = ready[b],
             \A t \in ready'[a] : t \in 1..made /\ (t \in ready[a] \/ Met(t))
      PROVE  Ordered'
  <2>1. to \notin Closing
    BY <1>2 DEF Failing
  <2> QED BY <1>1, <1>2, <2>1, OrderMove
<1>3. CASE Replan!ReadSteps(a)
  <2>1. /\ Replan!Move(a, "next", "scan")
        /\ UNCHANGED <<step, made, key, origin, item, row, ready>>
    BY <1>3 DEF Replan!ReadSteps, Replan!ledgerVars, Replan!records
  <2>2. "scan" \notin Failing
    BY DEF Failing, Closing
  <2> QED BY <1>1, <1>2, <2>1, <2>2
<1>4. CASE Replan!Scan(a)
  <2> DEFINE S == {s \in 1..made : step[s] = "queued"
                   /\ \A d \in PlanDeps[key[s]] : step[Replan!Current(d)] = "completed"}
  <2>1. /\ Replan!Move(a, "scan", "filter")
        /\ UNCHANGED <<step, made, key, origin, item, row>>
        /\ ready' = [ready EXCEPT ![a] = S]
    BY <1>4, PlanFacts DEF Replan!Scan, Replan!ledgerVars, Replan!records
  <2>2. ASSUME NEW s \in S PROVE s \in 1..made /\ Met(s)
    <3>1. key[s] \in 1..Plan
      <4>1. s \in 1..made /\ s \in Step /\ Plan \in Nat
        BY <1>1, PlanFacts
      <4>2. key[s] \in 0..Plan /\ key[s] # 0
        BY <1>1, <4>1 DEF ReplanTypes
      <4> QED BY <4>1, <4>2
    <3>2. PlanDeps[key[s]] \subseteq 1..Plan
      BY <3>1, PlanFacts DEF Replan!ReplanAssumption
    <3>3. ASSUME NEW d \in PlanDeps[key[s]]
          PROVE  \E u \in 1..made : key[u] = d /\ step[u] = "completed"
      <4>1. Replan!Current(d) \in 1..made /\ key[Replan!Current(d)] = d
        BY <3>2, CurrentStep
      <4> QED BY <4>1
    <3> QED BY <3>3 DEF Met
  <2>3. /\ ready'[a] = S
        /\ \A b \in Actor : b # a => ready'[b] = ready[b]
    BY <1>1, <2>1
  <2>4. "filter" \notin Failing
    BY DEF Failing, Closing
  <2> HIDE DEF S
  <2> QED BY <1>2, <2>1, <2>2, <2>3, <2>4
<1>5. CASE Replan!Filter(a)
  <2> DEFINE left == {s \in ready[a] : ~Replan!ActiveRow(s)}
             to == IF left = {} THEN "finish" ELSE "enqueue"
  <2>1. /\ Replan!Move(a, "filter", to)
        /\ ready' = [ready EXCEPT ![a] = left]
        /\ UNCHANGED <<step, made, key, origin, item, row>>
    BY <1>5 DEF Replan!Filter, Replan!ledgerVars, Replan!records
  <2>2. to \notin Failing /\ left \subseteq ready[a]
    BY DEF Failing, Closing
  <2> HIDE DEF left, to
  <2>3. /\ ready'[a] = left
        /\ \A b \in Actor : b # a => ready'[b] = ready[b]
    BY <1>1, <2>1
  <2> QED BY <1>1, <1>2, <2>1, <2>2, <2>3
<1>6. CASE Replan!EnqueueOne(a)
  <2> DEFINE s == Replan!Min(ready[a])
             to == IF ready[a] = {s} THEN "idle" ELSE "enqueue"
  <2>1. /\ Replan!Move(a, "enqueue", to) /\ Replan!EnqueueRow(s)
        /\ ready' = [ready EXCEPT ![a] = ready[a] \ {s}]
        /\ UNCHANGED <<step, made, key, origin, item>>
    BY <1>6 DEF Replan!EnqueueOne, Replan!records
  <2>2. pc[a] = "enqueue"
    BY <2>1 DEF Replan!Move
  <2>3. ready[a] # {} /\ ready[a] \in SUBSET (1..made)
    BY <1>1, <2>2 DEF ReplanInv, ReplanSteps
  <2>4. s \in ready[a]
    BY <1>1, <2>3, ExtremesOf
  <2>5. to \notin Failing /\ to \notin Closing
    BY DEF Failing, Closing
  <2> HIDE DEF s, to
  <2>6. s \in Step /\ Met(s)
    BY <1>1, <2>4 DEF Ordered
  <2>7. \/ row' = row
        \/ /\ BecomesRow(s, row'[s])
           /\ row[s].state = "absent" /\ row'[s].state = "queued"
    BY <1>1, <2>1, <2>6, RowStatements
  <2>8. \A t \in Step :
          /\ row[t].state = "failed" => row'[t].state = "failed"
          /\ row'[t].state # "absent" => row[t].state # "absent" \/ Met(t)
    BY <2>6, <2>7 DEF BecomesRow
  <2>9. /\ ready'[a] = ready[a] \ {s}
        /\ \A b \in Actor : b # a => ready'[b] = ready[b]
    BY <1>1, <2>1
  <2>10. UNCHANGED <<step, made, key, origin, item>>
    BY <2>1
  <2> QED BY <1>1, <2>1, <2>5, <2>8, <2>9, <2>10, OrderMove
<1>7. CASE Replan!Finish(a)
  <2>1. /\ Replan!Move(a, "finish", "idle")
        /\ UNCHANGED <<step, made, key, origin, item, row, ready>>
    BY <1>7 DEF Replan!Finish, Replan!SessionWrite, Replan!records
  <2>2. "idle" \notin Failing
    BY DEF Failing, Closing
  <2> QED BY <1>1, <1>2, <2>1, <2>2
<1> QED BY <1>3, <1>4, <1>5, <1>6, <1>7

LEMMA OrderedComplete ==
  ASSUME Replan!ReplanAssumption, Orderly, ReplanInv, Ordered, Narrows, NEW a \in Actor,
         Replan!Complete(a)
  PROVE  Ordered'
<1> DEFINE x == item[a]
<1>1. /\ ReplanTypes /\ LedgerTypeOK /\ 1..made \subseteq Step
      /\ \A b \in Actor : \A t \in ready[b] : t \in 1..made
      /\ \A b \in Actor : item[b] \in Step
  BY SetSizes DEF ReplanInv, ReplanTypes
<1>2. /\ pc[a] = "invoked" /\ pc'[a] = "close"
      /\ \A b \in Actor : b # a => pc'[b] = pc[b]
      /\ step' = [step EXCEPT ![x] = "completed"]
      /\ UNCHANGED <<row, made, key, origin, item, ready>>
  BY <1>1 DEF Replan!Complete, Replan!StepWrite, Replan!UpdateStep, Replan!records,
     Replan!Move, ReplanTypes
<1>3. /\ row[x].state = "leased" /\ Open(x)
      /\ \A b \in Actor : pc[b] \in InHand /\ item[b] = x => a = b
  BY <1>2, InHandOpen DEF InHand, Trying
<1>4. step'[x] = "completed" /\ \A t \in Step : t # x => step'[t] = step[t]
  BY <1>1, <1>2 DEF LedgerTypeOK
<1>5. ASSUME NEW b \in Actor, pc'[b] \in Failing PROVE step'[item'[b]] # "completed"
  <2>1. b # a
    BY <1>2, <1>5 DEF Failing, Closing
  <2>2. pc[b] \in Failing /\ item'[b] = item[b]
    BY <1>2, <1>5, <2>1
  <2>3. item[b] # x
    <3>1. CASE pc[b] \in Closing
      BY <1>3, <3>1 DEF Ordered
    <3>2. CASE pc[b] \notin Closing
      BY <1>3, <2>1, <2>2, <3>2 DEF Failing, InHand
    <3> QED BY <3>1, <3>2
  <2> QED BY <1>1, <1>4, <2>2, <2>3 DEF Ordered
<1>6. ASSUME NEW b \in Actor, pc'[b] \in Closing PROVE row'[item'[b]].state = "failed"
  <2>1. b # a
    BY <1>2, <1>6 DEF Closing
  <2> QED BY <1>2, <1>6, <2>1 DEF Ordered
<1>7. ASSUME NEW t \in 1..made
      PROVE  /\ step[t] = "completed" => step'[t] = "completed"
             /\ step'[t] = "completed" => step[t] = "completed" \/ Open(t)
             /\ row'[t].state # "absent" => row[t].state # "absent" \/ Met(t)
  BY <1>1, <1>2, <1>3, <1>4
<1> QED BY <1>1, <1>2, <1>5, <1>6, <1>7, OrderStays

LEMMA OrderedLedger ==
  ASSUME Replan!ReplanAssumption, Orderly, ReplanInv, Ordered, Narrows,
         \/ \E s \in Step : Replan!LeaseExpires(s)
         \/ \E a \in Actor : Replan!LeaseNext(a)
  PROVE  Ordered'
<1>1. /\ ReplanTypes /\ LedgerTypeOK /\ 1..made \subseteq Step
      /\ \A b \in Actor : \A t \in ready[b] : t \in 1..made
      /\ \A b \in Actor : item[b] \in Step
  BY SetSizes DEF ReplanInv, ReplanTypes
<1>2. ASSUME NEW s \in Step, BecomesRow(s, row'[s]),
             row[s].state \notin {"absent", "failed"}, row'[s].state = "leased",
             UNCHANGED <<step, made, key, origin, ready>>,
             \A a \in Actor : pc'[a] \in Failing => pc'[a] = pc[a] /\ item'[a] = item[a]
      PROVE  Ordered'
  <2>1. \A t \in Step : row[t].state = "failed" => row'[t] = row[t]
    BY <1>2 DEF BecomesRow
  <2>2. ASSUME NEW t \in 1..made
        PROVE  /\ step[t] = "completed" => step'[t] = "completed"
               /\ step'[t] = "completed" => step[t] = "completed" \/ Open(t)
               /\ row'[t].state # "absent" => row[t].state # "absent" \/ Met(t)
    BY <1>1, <1>2 DEF BecomesRow
  <2>3. ASSUME NEW b \in Actor
        PROVE  /\ \A t \in ready'[b] : t \in 1..made /\ (t \in ready[b] \/ Met(t))
               /\ pc'[b] \in Failing => step'[item'[b]] # "completed"
               /\ pc'[b] \in Closing => row'[item'[b]].state = "failed"
    <3>1. \A t \in ready'[b] : t \in 1..made /\ (t \in ready[b] \/ Met(t))
      BY <1>1, <1>2
    <3>2. pc'[b] \in Failing => step'[item'[b]] # "completed"
      BY <1>2 DEF Ordered
    <3>3. pc'[b] \in Closing => row'[item'[b]].state = "failed"
      <4> SUFFICES ASSUME pc'[b] \in Closing PROVE row'[item'[b]].state = "failed"
        OBVIOUS
      <4>1. pc'[b] = pc[b] /\ item'[b] = item[b]
        BY <1>2 DEF Failing
      <4>2. row[item[b]].state = "failed" /\ item[b] \in Step
        BY <1>1, <4>1 DEF Ordered
      <4> QED BY <2>1, <4>1, <4>2
    <3> QED BY <3>1, <3>2, <3>3
  <2> QED BY <1>2, <2>2, <2>3, OrderStays
<1>3. ASSUME NEW s \in Step, Replan!LeaseExpires(s) PROVE Ordered'
  <2>1. /\ Replan!ExpireRow(s)
        /\ UNCHANGED <<step, made, key, origin, pc, item, ready>>
    BY <1>3 DEF Replan!LeaseExpires, Replan!records, Replan!threads
  <2>2. Replan!ExpireRow(s) => ExpireRow(s)
    BY DEF Replan!ExpireRow, ExpireRow
  <2>3. /\ row[s] \in Row /\ BecomesRow(s, [row[s] EXCEPT !.expired = TRUE])
        /\ row[s].state = "leased"
    BY <1>1, <2>1, <2>2, Statements DEF ExpireRow, LedgerTypeOK
  <2>4. BecomesRow(s, row'[s]) /\ row'[s].state = "leased"
    BY <2>3 DEF BecomesRow, Row
  <2> QED BY <1>2, <2>1, <2>3, <2>4
<1>4. ASSUME NEW a \in Actor, Replan!LeaseNext(a) PROVE Ordered'
  <2>1. PICK s \in Step : /\ Replan!Oldest(s) /\ Replan!LeaseRow(s, a)
                          /\ item' = [item EXCEPT ![a] = s]
    BY <1>4, PlanFacts DEF Replan!LeaseNext
  <2>2. /\ pc'[a] = "start" /\ \A b \in Actor : b # a => pc'[b] = pc[b] /\ item'[b] = item[b]
        /\ UNCHANGED <<step, made, key, origin, ready>>
    BY <1>1, <1>4, <2>1 DEF Replan!LeaseNext, Replan!records, Replan!Move, ReplanTypes
  <2>3. Eligible(s) /\ BecomesRow(s, row'[s]) /\ row'[s].state = "leased"
    BY <1>1, <2>1, SameStatements, RowStatements
  <2>4. row[s].state \notin {"absent", "failed"}
    BY <2>3 DEF Eligible
  <2>5. \A b \in Actor : pc'[b] \in Failing => pc'[b] = pc[b] /\ item'[b] = item[b]
    BY <2>2 DEF Failing, Closing
  <2> QED BY <1>2, <2>2, <2>3, <2>4, <2>5
<1> QED BY <1>3, <1>4

\* The replacement becomes the newest step of its key: the failed one was the only step
\* of it that was open, and none has been carried out.
LEMMA OrderedReplacement ==
  ASSUME Replan!ReplanAssumption, Orderly, ReplanInv, Ordered, Narrows, NEW a \in Actor,
         Replan!StartReplacement(a), ReplanTypes'
  PROVE  Ordered'
<1> DEFINE x == item[a]
           n == made + 1
<1>1. /\ ReplanTypes /\ ReplanSteps /\ made \in Nat /\ 1..made \subseteq Step
      /\ \A b \in Actor : item[b] \in Step /\ item[b] \in 1..made
      /\ \A b \in Actor : \A t \in ready[b] : t \in 1..made
  BY SetSizes DEF ReplanInv, ReplanTypes
<1>2. /\ pc[a] = "replace" /\ pc'[a] = "enqueue_new"
      /\ \A b \in Actor : b # a => pc'[b] = pc[b]
  BY <1>1 DEF Replan!StartReplacement, Replan!Move, ReplanTypes
<1>3. /\ made' = n
      /\ key' = [key EXCEPT ![n] = key[x]]
      /\ origin' = [origin EXCEPT ![n] = x]
      /\ UNCHANGED <<step, row, item, ready>>
  BY DEF Replan!StartReplacement, Replan!ledgerVars
<1>4. n \in Step /\ n > made
  <2>1. n \in 1..made' /\ made' \in Plan..N /\ Plan \in Nat /\ N \in Nat
    BY <1>1, <1>3, PlanFacts DEF ReplanTypes
  <2> QED BY <1>1, <1>3, <2>1, PlanFacts
<1>5. /\ key'[n] = key[x] /\ \A t \in Step : t # n => key'[t] = key[t]
      /\ origin'[n] = x /\ \A t \in Step : t # n => origin'[t] = origin[t]
  BY <1>1, <1>3, <1>4 DEF ReplanTypes
<1>6. \A t \in 1..made' : t # n => t \in 1..made /\ t \in Step /\ key'[t] = key[t]
  <2>1. \A t \in 1..made' : t # n => t \in 1..made
    BY <1>1, <1>3
  <2> QED BY <1>1, <1>5, <2>1
<1>7. \A t \in 1..made : t # n /\ t \in 1..made' /\ t \in Step /\ key'[t] = key[t]
  <2>1. \A t \in 1..made : t # n /\ t \in 1..made'
    BY <1>1, <1>3
  <2> QED BY <1>1, <1>5, <2>1
<1>8. row[n].state = "absent" /\ step[n] # "completed"
  BY <1>1, <1>4 DEF ReplanSteps, ReplanInv, Replaced
<1>9. /\ Open(x) /\ row[x].state = "leased" /\ step[x] # "completed"
      /\ x \in 1..made
  <2>1. pc[a] \in InHand /\ pc[a] \in Trying
    BY <1>2 DEF InHand, Trying
  <2> QED BY <1>1, <2>1, InHandOpen, NotBoth
<1>10. ASSUME NEW s \in Step, s = x PROVE ~Open(s)'
  <2>1. WorksOn(a, s)' /\ pc'[a] \notin Trying /\ row'[s].state = "leased"
    BY <1>2, <1>3, <1>9, <1>10 DEF WorksOn, InHand, Trying
  <2> QED BY <2>1 DEF Open
\* The other steps of the failed one's key are closed, and none was completed.
<1>11. ASSUME NEW s \in 1..made, key[s] = key[x], Open(s) \/ step[s] = "completed"
       PROVE  s = x
  <2>1. Newest(s) /\ Newest(x)
    BY <1>9, <1>11 DEF Ordered
  <2>2. x <= s /\ s <= x
    BY <1>9, <1>11, <2>1 DEF Newest
  <2>3. x \in Nat /\ s \in Nat
    BY <1>9
  <2> HIDE DEF x
  <2> QED BY <2>2, <2>3
<1>12. ASSUME NEW s \in 1..made', Open(s)' \/ step'[s] = "completed" PROVE Newest(s)'
  <2>1. CASE s = n
    <3>1. \A t \in 1..made' : t <= n
      BY <1>1, <1>3
    <3> QED BY <2>1, <3>1 DEF Newest
  <2>2. CASE s # n
    <3>1. s \in 1..made /\ s \in Step /\ key'[s] = key[s]
      BY <1>6, <2>2
    <3>2. (Open(s) \/ step[s] = "completed") /\ s # x
      <4>1. Open(s)' => Open(s)
        BY <3>1 DEF Narrows
      <4>2. s # x
        BY <1>3, <1>9, <1>10, <1>12, <3>1
      <4> QED BY <1>3, <1>12, <4>1, <4>2
    <3>3. key[s] # key[x]
      BY <1>11, <3>1, <3>2
    <3>4. Newest(s)
      BY <3>1, <3>2 DEF Ordered
    <3>5. ASSUME NEW t \in 1..made', key'[t] = key'[s] PROVE t <= s
      <4>1. t # n
        BY <1>5, <3>1, <3>3, <3>5
      <4>2. t \in 1..made /\ key'[t] = key[t]
        BY <1>6, <4>1
      <4> QED BY <3>1, <3>4, <3>5, <4>2 DEF Newest
    <3> QED BY <3>5 DEF Newest
  <2> QED BY <2>1, <2>2
<1>13. ASSUME NEW s \in 1..made, Met(s) PROVE Met(s)'
  <2>1. key'[s] = key[s]
    BY <1>7
  <2>2. ASSUME NEW d \in PlanDeps[key[s]]
        PROVE  \E u \in 1..made' : key'[u] = d /\ step'[u] = "completed"
    <3>1. PICK u \in 1..made : key[u] = d /\ step[u] = "completed"
      BY <1>13 DEF Met
    <3> QED BY <1>3, <1>7, <3>1
  <2> QED BY <2>1, <2>2 DEF Met
<1>14. ASSUME NEW s \in 1..made', row'[s].state # "absent" PROVE Met(s)'
  <2>1. s # n
    BY <1>3, <1>8, <1>14
  <2>2. s \in 1..made
    BY <1>6, <2>1
  <2> QED BY <1>3, <1>13, <1>14, <2>2 DEF Ordered
<1>15. \A b \in Actor : \A s \in ready'[b] : Met(s)'
  BY <1>1, <1>3, <1>13 DEF Ordered
<1>16. ASSUME NEW b \in Actor
       PROVE  /\ pc'[b] \in Failing => step'[item'[b]] # "completed"
              /\ pc'[b] \in Closing => row'[item'[b]].state = "failed"
  <2>1. CASE b = a
    BY <1>2, <1>3, <1>9, <2>1 DEF Closing
  <2>2. CASE b # a
    BY <1>2, <1>3, <2>2 DEF Ordered
  <2> QED BY <2>1, <2>2
<1>17. ASSUME NEW s \in 1..Plan PROVE key'[s] = s
  <2>1. s \in 1..made
    <3>1. made \in Plan..N /\ Plan \in Nat
      BY <1>1, PlanFacts DEF ReplanTypes
    <3> QED BY <1>1, <3>1
  <2> QED BY <1>7, <2>1 DEF Ordered
<1>18. ASSUME NEW t \in 1..made', origin'[t] # 0 PROVE key'[t] = key'[origin'[t]]
  <2>1. CASE t = n
    BY <1>5, <1>7, <1>9, <2>1
  <2>2. CASE t # n
    <3>1. t \in 1..made /\ t \in Step /\ origin'[t] = origin[t] /\ key'[t] = key[t]
      BY <1>5, <1>6, <2>2
    <3>2. key[t] = key[origin[t]]
      BY <1>18, <3>1 DEF Ordered
    <3>3. origin[t] \in 1..made
      <4>1. origin[t] \in 0..N /\ origin[t] < t /\ origin[t] # 0 /\ N \in Nat
        BY <1>1, <1>18, <3>1, PlanFacts DEF ReplanTypes
      <4> QED BY <1>1, <3>1, <4>1
    <3> QED BY <1>7, <3>1, <3>2, <3>3
  <2> QED BY <2>1, <2>2
<1> QED BY <1>12, <1>14, <1>15, <1>16, <1>17, <1>18 DEF Ordered

LEMMA OrderedNext ==
  ASSUME Replan!ReplanAssumption, Orderly, ReplanInv, Ordered, [Replan!Next]_(Replan!vars)
  PROVE  Ordered'
<1>1. CASE UNCHANGED Replan!vars
  BY <1>1 DEF Replan!vars, Replan!ledgerVars, Replan!records, Replan!threads, Ordered,
     Newest, Met, Open, WorksOn
<1>2. ASSUME NEW a \in Actor, Replan!Crash(a) PROVE FALSE
  <2>1. crashes \in Nat /\ crashes < 0
    BY <1>2, SetSizes DEF Replan!Crash, ReplanInv, Orderly
  <2> QED BY <2>1
<1>3. ReplanInv' /\ (crashes' = crashes => Narrows)
  BY ReplanNext
<1>4. ASSUME NEW s \in Step, Replan!LeaseExpires(s) PROVE Ordered'
  <2>1. Narrows
    BY <1>3, <1>4 DEF Replan!LeaseExpires
  <2> QED BY <1>4, <2>1, OrderedLedger
<1>5. ASSUME NEW a \in Actor, Replan!LeaseNext(a) PROVE Ordered'
  <2>1. Narrows
    BY <1>3, <1>5 DEF Replan!LeaseNext
  <2> QED BY <1>5, <2>1, OrderedLedger
<1>6. ASSUME NEW a \in Actor, Replan!Thread(a) PROVE Ordered'
  <2>1. crashes' = crashes
    BY <1>6 DEF Replan!Thread, Replan!Start, Replan!Mark, Replan!Invoke, Replan!Complete,
       Replan!Close, Replan!Replan, Replan!StartReplacement, Replan!EnqueueReplacement,
       Replan!Requeue, Replan!FailReplanned, Replan!StepReplanned, Replan!FailItem,
       Replan!FailStep, Replan!FailSession, Replan!ReadSteps, Replan!Scan, Replan!Filter,
       Replan!EnqueueOne, Replan!Finish, Replan!SessionWrite, Replan!StepWrite,
       Replan!RowFails
  <2>2. Narrows /\ ReplanTypes'
    BY <1>3, <2>1 DEF ReplanInv
  <2> QED BY <1>6, <2>2, OrderedRun, OrderedReads, OrderedComplete, OrderedReplacement
         DEF Replan!Thread
<1> QED BY <1>1, <1>2, <1>4, <1>5, <1>6, PlanFacts DEF Replan!Next

LEMMA OrderedInit ==
  ASSUME Replan!ReplanAssumption, Orderly, Replan!Init
  PROVE  Ordered
<1>1. /\ step = [s \in Step |-> "queued"] /\ made = Plan
      /\ key = [s \in Step |-> IF s \in 1..Plan THEN s ELSE 0]
      /\ origin = [s \in Step |-> 0] /\ pc = [a \in Actor |-> "idle"]
      /\ ready = [a \in Actor |-> {}]
  BY PlanFacts DEF Replan!Init
<1>2. \A s \in Step : s # 1 => row[s].state = "absent"
  BY PlanFacts DEF Replan!Init, Replan!AbsentRow
<1>3. /\ N \in Nat /\ Plan \in 1..N /\ Step = 1..N
  BY PlanFacts
<1>4. 1..made \subseteq Step /\ 1..made = 1..Plan
  BY <1>1, <1>3
<1>5. \A s \in 1..made : key[s] = s
  BY <1>1, <1>4
<1>6. \A s \in 1..made : Newest(s)
  BY <1>3, <1>4, <1>5 DEF Newest
<1>7. ASSUME NEW s \in 1..made, row[s].state # "absent" PROVE Met(s)
  <2>1. s = 1 /\ key[s] = 1
    BY <1>2, <1>4, <1>5, <1>7
  <2> QED BY <2>1 DEF Met, Orderly
<1> QED BY <1>1, <1>4, <1>5, <1>6, <1>7 DEF Ordered, Failing, Closing

LEMMA OrderedCalls ==
  ASSUME Replan!ReplanAssumption, Orderly, ReplanInv, Ordered, [Replan!Next]_(Replan!vars)
  PROVE  [Replan!InOrder]_calls
<1>1. ReplanTypes /\ 1..made \subseteq Step
  BY SetSizes DEF ReplanInv
<1>2. SUFFICES ASSUME calls' # calls PROVE Replan!InOrder
  OBVIOUS
<1>3. PICK a \in Actor : Replan!Invoke(a)
  BY <1>2 DEF Replan!vars, Replan!records, Replan!Next, Replan!Crash, Replan!LeaseNext,
     Replan!LeaseExpires, Replan!Thread, Replan!Start, Replan!Mark, Replan!Complete,
     Replan!Close, Replan!Replan, Replan!StartReplacement, Replan!EnqueueReplacement,
     Replan!Requeue, Replan!FailReplanned, Replan!StepReplanned, Replan!FailItem,
     Replan!FailStep, Replan!FailSession, Replan!ReadSteps, Replan!Scan, Replan!Filter,
     Replan!EnqueueOne, Replan!Finish, Replan!SessionWrite, Replan!StepWrite,
     Replan!RowFails
<1> DEFINE x == item[a]
<1>4. pc[a] = "run" /\ calls' = [calls EXCEPT ![x] = @ + 1]
  BY <1>3 DEF Replan!Invoke, Replan!Move
<1>5. x \in 1..made /\ row[x].state = "leased"
  BY <1>4, InHandOpen DEF InHand
<1>6. ASSUME NEW s \in Step, calls'[s] > calls[s] PROVE s = x
  <2> SUFFICES ASSUME s # x PROVE FALSE
    OBVIOUS
  <2>1. calls'[s] = calls[s] /\ calls[s] \in Nat
    BY <1>1, <1>4 DEF ReplanTypes
  <2> QED BY <1>6, <2>1
<1>7. key[x] \in 1..Plan
  <2>1. key[x] \in 0..Plan /\ key[x] # 0 /\ Plan \in Nat
    BY <1>1, <1>5, PlanFacts DEF ReplanTypes
  <2> QED BY <2>1
<1>8. ASSUME NEW d \in PlanDeps[key[x]] PROVE step[Replan!Current(d)] = "completed"
  <2>1. d \in 1..Plan
    BY <1>7, <1>8, PlanFacts DEF Replan!ReplanAssumption
  <2>2. Met(x)
    BY <1>5 DEF Ordered
  <2>3. PICK u \in 1..made : key[u] = d /\ step[u] = "completed"
    BY <1>8, <2>2 DEF Met
  <2>4. u = Replan!Current(d)
    BY <2>1, <2>3, CurrentStep
  <2> QED BY <2>3, <2>4
<1> QED BY <1>6, <1>8, PlanFacts DEF Replan!InOrder

\* A tool is called only when the newest step of every key it depends on has been carried
\* out, also while those keys are being replaced (ready_steps, _dependency_lookup): as
\* long as no worker dies.  A second worker that leases the row of one that died replaces
\* the step a second time, under the eyes of those that depend on it.
THEOREM ReplannedInOrder ==
  ASSUME Replan!ReplanAssumption, Orderly
  PROVE  Replan!Spec => Replan!DependencyOrder
<1>1. Replan!Init => ReplanInv /\ Ordered
  BY ReplanInit, OrderedInit
<1>2. ReplanInv /\ Ordered /\ [Replan!Next]_(Replan!vars) => (ReplanInv /\ Ordered)'
  BY ReplanNext, OrderedNext
<1>3. ReplanInv /\ Ordered /\ [Replan!Next]_(Replan!vars) => [Replan!InOrder]_calls
  BY OrderedCalls
<1> QED BY <1>1, <1>2, <1>3, PTL DEF Replan!Spec, Replan!DependencyOrder
=============================================================================
