----------------------- MODULE ExecutionRuntimeProofs ------------------------
(***************************************************************************)
(* What the runtime keeps for any plan, any number of workers and threads, *)
(* any interleaving and any crashes: the type invariant, one executor per  *)
(* step while no handler outlives its lease, the count of effects and the  *)
(* limit of attempts; the approval gate, where the API works alone; that   *)
(* effects follow the dependencies, where handlers keep up; that a session *)
(* is completed when its plan is, and for good; and that the runtime keeps *)
(* the contract of SessionContract, where nothing interrupts a plan.       *)
(***************************************************************************)
EXTENDS RuntimeContract, FiniteSetTheorems, SequenceTheorems, TLAPS

-----------------------------------------------------------------------------
(* What each statement of the ledger does to the row it names: every other row *)
(* stays.                                                                      *)

\* The row s becomes r and the rest of the queue stays.
BecomesRow(s, r) ==
  /\ row' \in [Step -> Row]
  /\ row'[s] = r
  /\ \A t \in Step : t # s => row'[t] = row[t]

\* Replacing one row by a well-formed one keeps the queue well-formed.
LEMMA ReplaceRow ==
  ASSUME row \in [Step -> Row], NEW s \in Step, NEW r \in Row,
         row' = [row EXCEPT ![s] = r]
  PROVE  BecomesRow(s, r)
  BY DEF BecomesRow

\* Leasing a row never lowers its attempt count, and leaves it positive.
LEMMA NextAttemptBounds ==
  ASSUME LedgerTypeOK, NEW s \in Step
  PROVE  /\ NextAttempt(s) \in Nat
         /\ NextAttempt(s) >= row[s].attempt
         /\ NextAttempt(s) <= row[s].attempt + 1
         /\ NextAttempt(s) >= 1
  BY DEF NextAttempt, LedgerTypeOK, Row

LEMMA LeaseRowEffect ==
  ASSUME LedgerTypeOK, NEW s \in Step, NEW w \in Actor, LeaseRow(s, w)
  PROVE  BecomesRow(s, [row[s] EXCEPT !.state = "leased", !.owner = w,
            !.expired = FALSE, !.attempt = NextAttempt(s)])
<1> DEFINE r == [row[s] EXCEPT !.state = "leased", !.owner = w,
            !.expired = FALSE, !.attempt = NextAttempt(s)]
<1>1. row[s] \in Row /\ row \in [Step -> Row]
  BY DEF LedgerTypeOK
<1>2. NextAttempt(s) \in Nat
  BY NextAttemptBounds
<1>3. r \in Row
  BY <1>1, <1>2 DEF Row
<1>4. row' = [row EXCEPT ![s] = r]
  BY <1>1 DEF LeaseRow
<1> QED BY <1>1, <1>3, <1>4, ReplaceRow

LEMMA CompleteRowEffect ==
  ASSUME LedgerTypeOK, NEW s \in Step, CompleteRow(s)
  PROVE  BecomesRow(s, [row[s] EXCEPT !.state = "done", !.owner = NoOne,
            !.expired = FALSE, !.failedBefore = FALSE])
<1> DEFINE r == [row[s] EXCEPT !.state = "done", !.owner = NoOne,
            !.expired = FALSE, !.failedBefore = FALSE]
<1>1. row[s] \in Row /\ row \in [Step -> Row]
  BY DEF LedgerTypeOK
<1>2. r \in Row
  BY <1>1 DEF Row
<1>3. row' = [row EXCEPT ![s] = r]
  BY <1>1 DEF CompleteRow
<1> QED BY <1>1, <1>2, <1>3, ReplaceRow

LEMMA FailRowEffect ==
  ASSUME LedgerTypeOK, NEW s \in Step, FailRow(s)
  PROVE  BecomesRow(s, [row[s] EXCEPT !.state = "failed", !.owner = NoOne,
            !.expired = FALSE, !.failedBefore = TRUE])
<1> DEFINE r == [row[s] EXCEPT !.state = "failed", !.owner = NoOne,
            !.expired = FALSE, !.failedBefore = TRUE]
<1>1. row[s] \in Row /\ row \in [Step -> Row]
  BY DEF LedgerTypeOK
<1>2. r \in Row
  BY <1>1 DEF Row
<1>3. row' = [row EXCEPT ![s] = r]
  BY <1>1 DEF FailRow
<1> QED BY <1>1, <1>2, <1>3, ReplaceRow

LEMMA RetryRowEffect ==
  ASSUME LedgerTypeOK, NEW s \in Step, NEW w \in Actor, NEW now \in BOOLEAN,
         RetryRow(s, w, now)
  PROVE  BecomesRow(s, [row[s] EXCEPT !.state = "queued", !.owner = w,
            !.expired = FALSE, !.failedBefore = TRUE, !.due = now])
<1> DEFINE r == [row[s] EXCEPT !.state = "queued", !.owner = w,
            !.expired = FALSE, !.failedBefore = TRUE, !.due = now]
<1>1. row[s] \in Row /\ row \in [Step -> Row]
  BY DEF LedgerTypeOK
<1>2. r \in Row
  BY <1>1 DEF Row
<1>3. row' = [row EXCEPT ![s] = r]
  BY <1>1 DEF RetryRow
<1> QED BY <1>1, <1>2, <1>3, ReplaceRow

LEMMA ExpireRowEffect ==
  ASSUME LedgerTypeOK, NEW s \in Step, ExpireRow(s)
  PROVE  /\ row[s].state = "leased" /\ ~row[s].expired
         /\ BecomesRow(s, [row[s] EXCEPT !.expired = TRUE])
<1>1. row[s] \in Row /\ row \in [Step -> Row]
  BY DEF LedgerTypeOK
<1>2. [row[s] EXCEPT !.expired = TRUE] \in Row
  BY <1>1 DEF Row
<1>3. row' = [row EXCEPT ![s] = [row[s] EXCEPT !.expired = TRUE]]
  BY <1>1 DEF ExpireRow
<1> QED BY <1>1, <1>2, <1>3, ReplaceRow DEF ExpireRow

LEMMA DueRowEffect ==
  ASSUME LedgerTypeOK, NEW s \in Step, DueRow(s)
  PROVE  /\ row[s].state = "queued" /\ ~row[s].due
         /\ BecomesRow(s, [row[s] EXCEPT !.due = TRUE])
<1>1. row[s] \in Row /\ row \in [Step -> Row]
  BY DEF LedgerTypeOK
<1>2. [row[s] EXCEPT !.due = TRUE] \in Row
  BY <1>1 DEF Row
<1>3. row' = [row EXCEPT ![s] = [row[s] EXCEPT !.due = TRUE]]
  BY <1>1 DEF DueRow
<1> QED BY <1>1, <1>2, <1>3, ReplaceRow DEF DueRow

\* Enqueueing a step changes nothing, or gives a step without a row a queued one.
LEMMA EnqueueRowEffect ==
  ASSUME LedgerTypeOK, NEW s \in Step, EnqueueRow(s)
  PROVE  \/ row' = row /\ row[s].state # "absent"
         \/ /\ row[s].state = "absent"
            /\ \E n \in Nat :
                 BecomesRow(s, [AbsentRow EXCEPT !.state = "queued",
                                !.attempt = attempts[s], !.born = n])
<1> DEFINE n == Cardinality({t \in Step : row[t].state # "absent"})
           r == [AbsentRow EXCEPT !.state = "queued", !.attempt = attempts[s],
                                  !.born = n]
<1>1. n \in Nat
  <2>1. IsFiniteSet(Step)
    BY FS_Interval, LedgerAssumption DEF Step
  <2> QED BY <2>1, FS_Subset, FS_CardinalityType
<1>2. row \in [Step -> Row] /\ attempts[s] \in Nat
  BY DEF LedgerTypeOK
<1>3. CASE row[s].state # "absent"
  BY <1>3 DEF EnqueueRow
<1>4. CASE row[s].state = "absent"
  <2>1. r \in Row
    BY <1>1, <1>2 DEF Row, AbsentRow
  <2>2. row' = [row EXCEPT ![s] = r]
    BY <1>4 DEF EnqueueRow
  <2> QED BY <1>1, <1>2, <1>4, <2>1, <2>2, ReplaceRow
<1> QED BY <1>3, <1>4

-----------------------------------------------------------------------------
\* The statements that read the innermost loop, or lead to one that does.
InLoop ==
  {"pick", "next_session", "drain", "scan", "filter", "enqueue", "items",
   "after", "approve_step", "approve_session"}

OutsideOK ==
  /\ verdict \in Verdict
  /\ approvals \in [pending : Nat, approved : Nat]
  /\ tasks \in [Step -> Nat]
  /\ effects \in [Step -> Nat]
  /\ lapses \in Nat
  /\ crashes \in Nat

ThreadsOK ==
  /\ pc \in [Actor -> Label]
  /\ item \in [Actor -> Step]
  /\ local \in [Actor -> Locals]
  /\ \A a \in Actor : pc[a] \in InLoop => local[a].stack # <<>>

TypeInv == LedgerTypeOK /\ OutsideOK /\ ThreadsOK

LEMMA TypeInvTypeOK == TypeInv => TypeOK
  BY DEF TypeInv, OutsideOK, ThreadsOK, TypeOK

LEMMA TargetIsStep == Target \in Step
  BY RuntimeAssumption DEF Target

LEMMA FreshLocalsType ==
  /\ FreshLocals \in Locals
  /\ \A loop \in {"request", "resume", "return"} :
       /\ <<OuterFrame(loop)>> \in Seq(Frame)
       /\ <<OuterFrame(loop)>> # <<>>
<1>1. <<>> \in Seq(Frame)
  BY EmptySeq
<1>2. ASSUME NEW loop \in {"request", "resume", "return"}
      PROVE  <<OuterFrame(loop)>> \in Seq(Frame) /\ <<OuterFrame(loop)>> # <<>>
  BY DEF OuterFrame, Frame
<1> QED BY <1>1, <1>2 DEF FreshLocals, Locals

\* One thread moves; the others stay as they are.
LEMMA ThreadMoves ==
  ASSUME ThreadsOK, NEW a \in Actor, NEW to \in Label,
         NEW i \in Step, NEW l \in Locals,
         to \in InLoop => l.stack # <<>>,
         pc' = [pc EXCEPT ![a] = to],
         item' = [item EXCEPT ![a] = i],
         local' = [local EXCEPT ![a] = l]
  PROVE  ThreadsOK'
  BY DEF ThreadsOK

LEMMA ThreadKeepsLocals ==
  ASSUME ThreadsOK, NEW a \in Actor, NEW from, NEW to \in Label,
         Move(a, from, to), UNCHANGED <<item, local>>,
         to \in InLoop => from \in InLoop \/ local[a].stack # <<>>
  PROVE  ThreadsOK'
  BY DEF ThreadsOK, Move

LEMMA ThreadKeepsItem ==
  ASSUME ThreadsOK, NEW a \in Actor, NEW from, NEW to \in Label,
         Move(a, from, to), item' = item, NEW l \in Locals,
         local' = [local EXCEPT ![a] = l],
         to \in InLoop => l.stack # <<>>
  PROVE  ThreadsOK'
  BY DEF ThreadsOK, Move

LEMMA OutsideStays == ASSUME OutsideOK, UNCHANGED outside PROVE OutsideOK'
  BY DEF OutsideOK, outside

LEMMA LedgerStays == ASSUME LedgerTypeOK, UNCHANGED ledgerVars PROVE LedgerTypeOK'
  BY DEF LedgerTypeOK, ledgerVars

LEMMA SessionWriteType ==
  ASSUME TypeInv, NEW a \in Actor, NEW from, NEW status \in SessionStatus,
         NEW to \in Label, to \in InLoop => from \in InLoop,
         SessionWrite(a, from, status, to)
  PROVE  TypeInv'
<1>1. ThreadsOK'
  BY ThreadKeepsLocals DEF TypeInv, SessionWrite
<1>2. OutsideOK'
  BY OutsideStays DEF TypeInv, SessionWrite
<1>3. LedgerTypeOK'
  BY DEF TypeInv, SessionWrite, SetSession, LedgerTypeOK
<1> QED BY <1>1, <1>2, <1>3 DEF TypeInv

LEMMA StepWriteType ==
  ASSUME TypeInv, NEW a \in Actor, NEW from, NEW s \in Step,
         NEW state \in StepState,
         NEW to \in Label, to \in InLoop => from \in InLoop,
         StepWrite(a, from, s, state, to)
  PROVE  TypeInv'
<1>1. ThreadsOK'
  BY ThreadKeepsLocals DEF TypeInv, StepWrite
<1>2. OutsideOK'
  BY OutsideStays DEF TypeInv, StepWrite
<1>3. LedgerTypeOK'
  BY DEF TypeInv, StepWrite, UpdateStep, LedgerTypeOK
<1> QED BY <1>1, <1>2, <1>3 DEF TypeInv

\* An update that writes a step's state and its attempt count.
LEMMA CountedWriteType ==
  ASSUME LedgerTypeOK, NEW s \in Step, NEW state \in StepState, NEW n \in Nat,
         UpdateStep(s, state), attempts' = [attempts EXCEPT ![s] = n],
         UNCHANGED <<session, row>>
  PROVE  LedgerTypeOK'
  BY DEF LedgerTypeOK, UpdateStep

\* An update of a queue row.
LEMMA RowWriteType ==
  ASSUME LedgerTypeOK, NEW s \in Step, NEW w \in Actor,
         \/ LeaseRow(s, w) \/ CompleteRow(s) \/ FailRow(s) \/ EnqueueRow(s)
         \/ \E now \in BOOLEAN : RetryRow(s, w, now)
         \/ ExpireRow(s) \/ DueRow(s)
  PROVE  row' \in [Step -> Row]
<1>1. CASE LeaseRow(s, w)
  BY <1>1, LeaseRowEffect DEF BecomesRow
<1>2. CASE CompleteRow(s)
  BY <1>2, CompleteRowEffect DEF BecomesRow
<1>3. CASE FailRow(s)
  BY <1>3, FailRowEffect DEF BecomesRow
<1>4. CASE EnqueueRow(s)
  BY <1>4, EnqueueRowEffect DEF BecomesRow, LedgerTypeOK
<1>5. ASSUME NEW now \in BOOLEAN, RetryRow(s, w, now) PROVE row' \in [Step -> Row]
  BY <1>5, RetryRowEffect DEF BecomesRow
<1>6. CASE ExpireRow(s)
  BY <1>6, ExpireRowEffect DEF BecomesRow
<1>7. CASE DueRow(s)
  BY <1>7, DueRowEffect DEF BecomesRow
<1> QED BY <1>1, <1>2, <1>3, <1>4, <1>5, <1>6, <1>7

LEMMA OnlyRowType ==
  ASSUME LedgerTypeOK, row' \in [Step -> Row], UNCHANGED <<session, step, attempts>>
  PROVE  LedgerTypeOK'
  BY DEF LedgerTypeOK

LEMMA InitTypeInv == Init => TypeInv
<1> SUFFICES ASSUME Init PROVE TypeInv
  OBVIOUS
<1>1. LedgerTypeOK
  BY LedgerAssumption DEF Init, LedgerInit, LedgerTypeOK, Row, AbsentRow,
     SessionStatus, StepState
<1>2. OutsideOK
  BY DEF Init, OutsideOK
<1>3. ThreadsOK
  <2>1. pc \in [Actor -> Label]
    BY DEF Init, Label
  <2>2. item \in [Actor -> Step]
    BY LedgerAssumption DEF Init, Step
  <2>3. [FreshLocals EXCEPT !.stack = <<OuterFrame("request")>>] \in Locals
    BY FreshLocalsType DEF Locals
  <2>4. local \in [Actor -> Locals]
    BY <2>3, FreshLocalsType DEF Init
  <2>5. ASSUME NEW a \in Actor, pc[a] \in InLoop PROVE local[a].stack # <<>>
    BY <2>5, FreshLocalsType DEF Init, InLoop, Locals
  <2> QED BY <2>1, <2>2, <2>4, <2>5 DEF ThreadsOK
<1> QED BY <1>1, <1>2, <1>3 DEF TypeInv

-----------------------------------------------------------------------------
(* The type invariant, action by action. *)

LEMMA LeasingTypeInv ==
  ASSUME TypeInv, NEW a \in Actor, LeaseNext(a) \/ Lease(a)
  PROVE  TypeInv'
<1> USE DEF TypeInv
<1>1. ASSUME NEW s \in Step, TakeRow(a, s) PROVE LedgerTypeOK' /\ OutsideOK'
  BY <1>1, RowWriteType, OnlyRowType, OutsideStays DEF TakeRow
<1>2. ASSUME NEW s \in Step, TakeRow(a, s),
             NEW l \in Locals, local' = [local EXCEPT ![a] = l],
             NEW from, Move(a, from, "start")
      PROVE  ThreadsOK'
  <2>1. "start" \in Label /\ "start" \notin InLoop
    BY DEF Label, RowInHand, InLoop
  <2> QED BY <1>2, <2>1, ThreadMoves DEF TakeRow, Move
<1>3. \A s \in Step : NextAttempt(s) \in Nat
  BY NextAttemptBounds
<1>4. CASE LeaseNext(a)
  <2>1. PICK s \in Step :
          /\ TakeRow(a, s)
          /\ local' = [local EXCEPT ![a] = [FreshLocals EXCEPT !.att = NextAttempt(s)]]
    BY <1>4 DEF LeaseNext
  <2>2. [FreshLocals EXCEPT !.att = NextAttempt(s)] \in Locals
    BY <1>3, FreshLocalsType DEF Locals
  <2>3. Move(a, "idle", "start")
    BY <1>4 DEF LeaseNext
  <2> QED BY <1>1, <1>2, <2>1, <2>2, <2>3
<1>5. CASE Eligible(item[a]) /\ Lease(a)
  <2>1. item[a] \in Step /\ local[a] \in Locals
    BY DEF ThreadsOK
  <2>2. [local[a] EXCEPT !.att = NextAttempt(item[a])] \in Locals
    BY <1>3, <2>1 DEF Locals
  <2>3. /\ TakeRow(a, item[a])
        /\ local' = [local EXCEPT ![a] = [local[a] EXCEPT !.att = NextAttempt(item[a])]]
        /\ Move(a, "lease", "start")
    BY <1>5 DEF Lease
  <2> QED BY <1>1, <1>2, <2>1, <2>2, <2>3
<1>6. CASE ~Eligible(item[a]) /\ Lease(a)
  <2>1. "resume" \in Label /\ "resume" \notin InLoop
    BY DEF Label, InLoop
  <2> QED
    BY <1>6, <2>1, LedgerStays, OutsideStays, ThreadKeepsLocals DEF Lease
<1> QED BY <1>4, <1>5, <1>6

LEMMA PickOldestTypeInv ==
  ASSUME TypeInv, NEW a \in Actor, NEW from, NEW otherwise \in Label,
         PickOldest(a, from, otherwise),
         otherwise \in InLoop => from \in InLoop \/ local[a].stack # <<>>
  PROVE  TypeInv'
<1>1. "lease" \in Label /\ "lease" \notin InLoop
  BY DEF Label, InLoop
<1>2. UNCHANGED <<ledgerVars, outside, local>>
  BY DEF PickOldest
<1>3. LedgerTypeOK' /\ OutsideOK'
  BY <1>2, LedgerStays, OutsideStays DEF TypeInv
<1>4. ASSUME NEW s \in Step, Move(a, from, "lease"), item' = [item EXCEPT ![a] = s]
      PROVE  ThreadsOK'
  BY <1>1, <1>2, <1>4 DEF Move, ThreadsOK, TypeInv
<1>5. ASSUME Move(a, from, otherwise), item' = item PROVE ThreadsOK'
  BY <1>2, <1>5, ThreadKeepsLocals DEF TypeInv
<1> QED BY <1>3, <1>4, <1>5 DEF PickOldest, TypeInv

LEMMA WritesTypeInv ==
  ASSUME TypeInv, NEW a \in Actor,
         \/ Start(a) \/ DenySession(a) \/ AskSession(a) \/ TaskSession(a)
         \/ RetrySession(a) \/ ApproveSession(a) \/ RejectSession(a) \/ ReturnSession(a)
         \/ Prepare(a) \/ Policy(a) \/ DenyStep(a) \/ SkipMemory(a) \/ TaskStep(a)
         \/ ApproveStep(a) \/ RejectStep(a) \/ ReturnStep(a)
  PROVE  TypeInv'
<1>1. {"mark", "refresh", "ask_row", "resume", "idle", "next", "deny_session", "deny_step",
       "ask", "task_session", "reject_session", "return_session"} \subseteq Label \ InLoop
  BY DEF Label, RowInHand, InLoop
<1>2. {"pick", "approve_session", "approve_step"} \subseteq Label \cap InLoop
  BY DEF Label, InLoop
<1>3. item[a] \in Step /\ Target \in Step
  BY TargetIsStep DEF TypeInv, ThreadsOK
<1>4. {"running", "blocked", "awaiting_approval", "awaiting_human", "queued"}
        \subseteq SessionStatus
  BY DEF SessionStatus
<1>5. {"completed", "blocked", "waiting_human", "queued"} \subseteq StepState
  BY DEF StepState
<1>6. CASE \/ Start(a) \/ DenySession(a) \/ AskSession(a) \/ TaskSession(a)
           \/ RetrySession(a) \/ RejectSession(a) \/ ReturnSession(a)
  BY <1>1, <1>4, <1>6, SessionWriteType
  DEF Start, DenySession, AskSession, TaskSession, RetrySession, RejectSession, ReturnSession
<1>7. CASE ApproveSession(a)
  BY <1>2, <1>4, <1>7, SessionWriteType DEF ApproveSession
<1>8. CASE \/ Prepare(a) \/ DenyStep(a) \/ SkipMemory(a) \/ TaskStep(a)
           \/ RejectStep(a) \/ ReturnStep(a)
  BY <1>1, <1>3, <1>5, <1>8, StepWriteType
  DEF Prepare, DenyStep, SkipMemory, TaskStep, RejectStep, ReturnStep
<1>9. CASE ApproveStep(a)
  BY <1>2, <1>3, <1>5, <1>9, StepWriteType DEF ApproveStep
<1>10. CASE Policy(a)
  <2>1. verdict \in {"allow", "approval", "deny"}
    BY RuntimeAssumption DEF TypeInv, OutsideOK
  <2>2. \E to \in {"refresh", "deny_step", "ask"} :
          StepWrite(a, "run", item[a], "completed", to)
    BY <1>10, <2>1 DEF Policy
  <2> QED BY <1>1, <1>3, <1>5, <2>2, StepWriteType
<1> QED BY <1>6, <1>7, <1>8, <1>9, <1>10
LEMMA AskingTypeInv ==
  ASSUME TypeInv, NEW a \in Actor,
         Ask(a) \/ AskStep(a) \/ AskRow(a) \/ CreateTask(a) \/ Invoke(a) \/ FinishEffect(a)
  PROVE  TypeInv'
<1> USE DEF TypeInv
<1>1. {"ask_step", "ask_session", "refresh", "task_step", "invoked"} \subseteq Label \ InLoop
  BY DEF Label, RowInHand, InLoop
<1>2. /\ item[a] \in Step /\ Target \in Step /\ local[a] \in Locals
      /\ attempts \in [Step -> Nat]
  BY TargetIsStep DEF ThreadsOK, LedgerTypeOK
<1>3. CASE Ask(a)
  <2>1. approvals' \in [pending : Nat, approved : Nat]
    BY <1>3 DEF Ask, OutsideOK
  <2>2. OutsideOK'
    BY <1>3, <2>1 DEF Ask, OutsideOK
  <2> QED BY <1>1, <1>3, <2>2, LedgerStays, ThreadKeepsLocals DEF Ask
<1>4. CASE AskStep(a)
  <2>1. (IF attempts[Target] = 0 THEN 1 ELSE attempts[Target]) \in Nat
    BY <1>2
  <2>2. LedgerTypeOK'
    BY <1>2, <1>4, <2>1, CountedWriteType DEF AskStep, StepState
  <2> QED BY <1>1, <1>4, <2>2, OutsideStays, ThreadKeepsLocals DEF AskStep
<1>5. CASE AskRow(a)
  BY <1>1, <1>2, <1>5, RowWriteType, OnlyRowType, OutsideStays, ThreadKeepsLocals DEF AskRow
<1>6. CASE CreateTask(a)
  <2>1. tasks' \in [Step -> Nat]
    BY <1>2, <1>6 DEF CreateTask, OutsideOK
  <2>2. OutsideOK'
    BY <1>6, <2>1 DEF CreateTask, OutsideOK
  <2> QED BY <1>1, <1>6, <2>2, LedgerStays, ThreadKeepsLocals DEF CreateTask
<1>7. CASE Invoke(a)
  <2>1. effects' \in [Step -> Nat]
    BY <1>2, <1>7 DEF Invoke, OutsideOK
  <2>2. OutsideOK'
    BY <1>7, <2>1 DEF Invoke, OutsideOK
  <2> QED BY <1>1, <1>7, <2>2, LedgerStays, ThreadKeepsLocals DEF Invoke
<1>8. CASE FinishEffect(a)
  <2>1. LedgerTypeOK'
    BY <1>2, <1>8 DEF FinishEffect, UpdateStep, LedgerTypeOK, StepState
  <2> DEFINE l == [local[a] EXCEPT !.artifact = local[a].artifact \/ Kind[item[a]] = "tool"]
  <2>2. l \in Locals
    BY <1>2 DEF Locals
  <2>3. local' = [local EXCEPT ![a] = l]
    BY <1>8 DEF FinishEffect
  <2> HIDE DEF l
  <2>4. ThreadsOK'
    BY <1>1, <1>8, <2>2, <2>3, ThreadKeepsItem DEF FinishEffect
  <2> QED BY <1>8, <2>1, <2>4, OutsideStays DEF FinishEffect
<1> QED BY <1>3, <1>4, <1>5, <1>6, <1>7, <1>8

LEMMA RecoverTypeInv ==
  ASSUME TypeInv, NEW a \in Actor,
         \/ Mark(a) \/ RetryItem(a) \/ RetryStep(a) \/ FailItem(a) \/ FailStep(a)
         \/ FailSession(a)
  PROVE  TypeInv'
<1> USE DEF TypeInv
<1>1. {"run", "retry_step", "retry_session", "fail_step", "fail_session", "idle"}
        \subseteq Label \ InLoop
  BY DEF Label, RowInHand, InLoop
<1>2. item[a] \in Step /\ local[a] \in Locals /\ local[a].att \in Nat
  BY DEF ThreadsOK, Locals
<1>3. {"running", "queued", "failed"} \subseteq StepState
  BY DEF StepState
<1>4. CASE Mark(a)
  BY <1>1, <1>2, <1>3, <1>4, CountedWriteType, OutsideStays, ThreadKeepsLocals DEF Mark
<1>5. CASE RetryItem(a)
  <2>1. (item[a] \notin Delayed) \in BOOLEAN
    OBVIOUS
  <2>2. row' \in [Step -> Row]
    BY <1>2, <1>5, <2>1, RowWriteType DEF RetryItem
  <2> QED BY <1>1, <1>5, <2>2, OnlyRowType, OutsideStays, ThreadKeepsLocals DEF RetryItem
<1>6. CASE RetryStep(a)
  BY <1>1, <1>2, <1>3, <1>6, CountedWriteType, OutsideStays, ThreadKeepsLocals DEF RetryStep
<1>7. CASE FailItem(a)
  BY <1>1, <1>2, <1>7, RowWriteType, OnlyRowType, OutsideStays, ThreadKeepsLocals DEF FailItem
<1>8. CASE FailStep(a)
  BY <1>1, <1>2, <1>3, <1>8, CountedWriteType, OutsideStays, ThreadKeepsLocals DEF FailStep
<1>9. CASE FailSession(a)
  <2>1. LedgerTypeOK'
    BY <1>9 DEF FailSession, SetSession, LedgerTypeOK, SessionStatus
  <2> QED BY <1>1, <1>9, <2>1, OutsideStays, ThreadKeepsItem, FreshLocalsType DEF FailSession
<1> QED BY <1>4, <1>5, <1>6, <1>7, <1>8, <1>9

\* What popping, pushing and rewriting the innermost loop gives.
LEMMA StackType ==
  ASSUME ThreadsOK, NEW a \in Actor
  PROVE  /\ local[a].stack # <<>> => Pop(a) \in Locals /\ Top(a) \in Frame
         /\ \A f \in Frame : Push(a, f) \in Locals /\ Push(a, f).stack # <<>>
         /\ local[a].stack # <<>> => \A f \in Frame :
              /\ <<f>> \o Tail(local[a].stack) \in Seq(Frame)
              /\ <<f>> \o Tail(local[a].stack) # <<>>
<1>1. local[a] \in Locals /\ local[a].stack \in Seq(Frame)
  BY DEF ThreadsOK, Locals
<1>2. ASSUME NEW f \in Frame, NEW q \in Seq(Frame)
      PROVE  <<f>> \o q \in Seq(Frame) /\ <<f>> \o q # <<>>
  <2>1. <<f>> \in Seq(Frame) /\ <<f>> # <<>>
    OBVIOUS
  <2> QED BY <2>1, ConcatProperties, ConcatEqualIffEmpty
<1>3. ASSUME local[a].stack # <<>>
      PROVE  Tail(local[a].stack) \in Seq(Frame) /\ Head(local[a].stack) \in Frame
  BY <1>1, <1>3, HeadTailProperties
<1>4. ASSUME local[a].stack # <<>> PROVE Pop(a) \in Locals /\ Top(a) \in Frame
  BY <1>1, <1>3, <1>4 DEF Pop, Top, Locals
<1>5. ASSUME NEW f \in Frame PROVE Push(a, f) \in Locals /\ Push(a, f).stack # <<>>
  BY <1>1, <1>2 DEF Push, Locals
<1> QED BY <1>2, <1>3, <1>4, <1>5
LEMMA LoopTypeInv ==
  ASSUME TypeInv, NEW a \in Actor,
         \/ Refresh(a) \/ Close(a) \/ ContinueAfter(a) \/ CheckPaused(a) \/ Drain(a)
         \/ Scan(a) \/ Pick(a) \/ ResumeWorker(a) \/ ResumeInner(a) \/ ResumeOuter(a)
  PROVE  TypeInv'
<1> USE DEF TypeInv
<1>1. {"close", "resume", "next", "lease", "idle"} \subseteq Label \ InLoop
  BY DEF Label, RowInHand, InLoop
<1>2. {"next_session", "drain", "scan", "filter", "after", "pick"} \subseteq Label \cap InLoop
  BY DEF Label, InLoop
<1>3. /\ item[a] \in Step /\ local[a] \in Locals
      /\ pc[a] \in InLoop => local[a].stack # <<>>
  BY DEF ThreadsOK
<1>4. CASE Refresh(a)
  <2> DEFINE l == [local[a] EXCEPT !.waits = step[item[a]] = "waiting_human"]
  <2>1. l \in Locals
    BY <1>3 DEF Locals
  <2>2. local' = [local EXCEPT ![a] = l]
    BY <1>4 DEF Refresh
  <2> HIDE DEF l
  <2> QED
    BY <1>1, <1>4, <2>1, <2>2, LedgerStays, OutsideStays, ThreadKeepsItem DEF Refresh
<1>5. CASE Close(a)
  BY <1>1, <1>3, <1>5, RowWriteType, OnlyRowType, OutsideStays, ThreadKeepsLocals DEF Close
<1>6. CASE ContinueAfter(a)
  <2> DEFINE drains == \/ a \in Inline
                       \/ step[item[a]] \notin {"completed", "failed", "blocked",
                                               "waiting_human"}
             f == [loop |-> IF drains THEN "drain" ELSE "enqueue",
                   done |-> AllCompleted, rest |-> {}]
  <2>1. AllCompleted \in BOOLEAN
    BY DEF AllCompleted
  <2>2. (IF drains THEN "drain" ELSE "enqueue") \in {"drain", "enqueue"}
    OBVIOUS
  <2>3. f \in Frame
    BY <2>1, <2>2 DEF Frame
  <2>4. local' = [local EXCEPT ![a] = Push(a, f)]
    BY <1>6, Zenon DEF ContinueAfter
  <2>5. /\ Move(a, "next", "next_session")
        /\ UNCHANGED <<ledgerVars, outside, item>>
    BY <1>6 DEF ContinueAfter
  <2> HIDE DEF f
  <2> QED
    BY <1>2, <2>3, <2>4, <2>5, StackType, LedgerStays, OutsideStays, ThreadKeepsItem
<1>7. ASSUME NEW from, Leave(a, from), local[a].stack # <<>> PROVE ThreadsOK'
  BY <1>1, <1>7, StackType, ThreadKeepsItem DEF Leave
<1>8. CASE CheckPaused(a)
  <2>1. pc[a] = "next_session" /\ UNCHANGED <<ledgerVars, outside>>
    BY <1>8 DEF CheckPaused, Leave, Move
  <2>2. local[a].stack # <<>>
    BY <1>2, <1>3, <2>1
  <2>3. CASE Leave(a, "next_session")
    BY <1>7, <2>1, <2>2, <2>3, LedgerStays, OutsideStays
  <2>4. ASSUME NEW to \in {"drain", "scan"}, Move(a, "next_session", to), Keep(a)
        PROVE  ThreadsOK'
    BY <1>2, <2>4, ThreadKeepsLocals DEF Keep
  <2> QED BY <1>8, <2>1, <2>3, <2>4, LedgerStays, OutsideStays DEF CheckPaused
<1>9. CASE Drain(a) \/ Pick(a)
  BY <1>2, <1>9, PickOldestTypeInv DEF Drain, Pick
<1>10. CASE Scan(a)
  <2> DEFINE S == {s \in Step : step[s] = "queued" /\ \A d \in Deps[s] : step[d] = "completed"}
  <2>1. S \in SUBSET Step
    OBVIOUS
  <2>2. local' = [local EXCEPT ![a] = [local[a] EXCEPT !.ready = S]]
    BY <1>10 DEF Scan
  <2> HIDE DEF S
  <2>3. /\ [local[a] EXCEPT !.ready = S] \in Locals
        /\ [local[a] EXCEPT !.ready = S].stack = local[a].stack
    BY <1>3, <2>1 DEF Locals
  <2>4. local[a].stack # <<>>
    BY <1>2, <1>3, <1>10 DEF Scan, Move
  <2> QED
    BY <1>2, <1>10, <2>2, <2>3, <2>4, LedgerStays, OutsideStays, ThreadKeepsItem DEF Scan
<1>11. CASE ResumeWorker(a)
  BY <1>1, <1>11, FreshLocalsType, LedgerStays, OutsideStays, ThreadKeepsItem DEF ResumeWorker
<1>12. CASE ResumeInner(a)
  <2>1. UNCHANGED <<ledgerVars, outside>> /\ local[a].stack # <<>>
    BY <1>12 DEF ResumeInner
  <2>2. CASE Leave(a, "resume")
    BY <1>7, <2>1, <2>2, LedgerStays, OutsideStays
  <2>3. CASE Move(a, "resume", Top(a).loop) /\ Keep(a)
    <3>1. Top(a).loop \in {"drain", "items", "enqueue"}
      BY <1>12, <2>1, StackType DEF ResumeInner, Outer, Frame
    <3>2. Top(a).loop \in Label
      BY <3>1 DEF Label
    <3> QED
      BY <2>1, <2>3, <3>2, LedgerStays, OutsideStays, ThreadKeepsLocals DEF Keep
  <2> QED BY <1>12, <2>2, <2>3 DEF ResumeInner
<1>13. CASE ResumeOuter(a)
  BY <1>2, <1>13, PickOldestTypeInv DEF ResumeOuter
<1> QED
  BY <1>4, <1>5, <1>6, <1>8, <1>9, <1>10, <1>11, <1>12, <1>13
LEMMA QueueingTypeInv ==
  ASSUME TypeInv, NEW a \in Actor,
         \/ EnqueueAll(a) \/ EnqueueFirst(a) \/ MissingReady(a) \/ NothingReady(a)
         \/ EnqueueOne(a) \/ RunNextItem(a)
  PROVE  TypeInv'
<1> USE DEF TypeInv
<1>1. {"resume", "lease"} \subseteq Label \ InLoop
  BY DEF Label, InLoop
<1>2. {"filter", "enqueue", "items", "after"} \subseteq Label \cap InLoop
  BY DEF Label, InLoop
<1>3. pc[a] \in {"filter", "enqueue", "items"}
  BY DEF EnqueueAll, EnqueueFirst, MissingReady, NothingReady, EnqueueOne, RunNextItem,
         Move, Leave
<1>4. /\ item[a] \in Step /\ local[a] \in Locals /\ local[a].ready \in SUBSET Step
      /\ local[a].stack # <<>> /\ Top(a) \in Frame /\ Pop(a) \in Locals
  BY <1>2, <1>3, StackType DEF ThreadsOK, Locals
<1>5. ASSUME NEW from, Leave(a, from) PROVE ThreadsOK'
  BY <1>1, <1>4, <1>5, ThreadKeepsItem DEF Leave
<1>6. CASE EnqueueAll(a)
  <2> DEFINE f == [Top(a) EXCEPT !.loop = IF a \in Inline THEN "items" ELSE "enqueue",
                                 !.rest = Ready(a)]
             l == [local[a] EXCEPT !.ready = Ready(a),
                                   !.stack = <<f>> \o Tail(local[a].stack)]
  <2>1. Ready(a) \in SUBSET Step
    BY <1>4 DEF Ready
  <2>2. f \in Frame
    BY <1>4, <2>1 DEF Frame
  <2>3. local' = [local EXCEPT ![a] = l]
    BY <1>6, Zenon DEF EnqueueAll
  <2> HIDE DEF f
  <2>4. l \in Locals /\ l.stack # <<>>
    BY <1>4, <2>1, <2>2, StackType DEF Locals
  <2> HIDE DEF l
  <2> QED
    BY <1>2, <1>6, <2>3, <2>4, LedgerStays, OutsideStays, ThreadKeepsItem DEF EnqueueAll
<1>7. CASE EnqueueFirst(a)
  <2>1. PICK s \in Step : local' = [local EXCEPT ![a] = [local[a] EXCEPT !.ready = {s}]]
    BY <1>7 DEF EnqueueFirst
  <2>2. /\ [local[a] EXCEPT !.ready = {s}] \in Locals
        /\ [local[a] EXCEPT !.ready = {s}].stack # <<>>
    BY <1>4 DEF Locals
  <2> QED
    BY <1>2, <1>7, <2>1, <2>2, LedgerStays, OutsideStays, ThreadKeepsItem DEF EnqueueFirst
<1>8. CASE MissingReady(a)
  BY <1>2, <1>8, LedgerStays, OutsideStays, ThreadKeepsLocals DEF MissingReady
<1>9. CASE NothingReady(a)
  <2>1. LedgerTypeOK'
    BY <1>9 DEF NothingReady, SetSession, LedgerTypeOK, SessionStatus
  <2> QED BY <1>5, <1>9, <2>1, OutsideStays DEF NothingReady
<1>10. CASE EnqueueOne(a)
  <2>1. PICK s \in Step :
          /\ EnqueueRow(s)
          /\ LET rest == local[a].ready \ {s}
                 dropped == [local[a] EXCEPT !.ready = {}]
             IN \/ /\ Move(a, "enqueue", "enqueue")
                   /\ local' = [local EXCEPT ![a] = [local[a] EXCEPT !.ready = rest]]
                   /\ item' = item
                \/ /\ Move(a, "enqueue", "lease")
                   /\ item' = [item EXCEPT ![a] = s]
                   /\ local' = [local EXCEPT ![a] = dropped]
                \/ /\ Move(a, "enqueue", "items")
                   /\ local' = [local EXCEPT ![a] = dropped]
                   /\ item' = item
                \/ /\ Move(a, "enqueue", "resume")
                   /\ local' = [local EXCEPT ![a] =
                        [dropped EXCEPT !.stack = Tail(local[a].stack)]]
                   /\ item' = item
    BY <1>10, Zenon DEF EnqueueOne
  <2> DEFINE rest == local[a].ready \ {s}
             more == [local[a] EXCEPT !.ready = rest]
             dropped == [local[a] EXCEPT !.ready = {}]
             popped == [dropped EXCEPT !.stack = Tail(local[a].stack)]
  <2>2. /\ more \in Locals /\ more.stack # <<>>
        /\ dropped \in Locals /\ dropped.stack # <<>>
    BY <1>4 DEF Locals
  <2>3. popped \in Locals
    BY <1>4, <2>2, HeadTailProperties DEF Locals
  <2>4. \/ Move(a, "enqueue", "enqueue") /\ local' = [local EXCEPT ![a] = more] /\ item' = item
        \/ /\ Move(a, "enqueue", "lease") /\ local' = [local EXCEPT ![a] = dropped]
           /\ item' = [item EXCEPT ![a] = s]
        \/ Move(a, "enqueue", "items") /\ local' = [local EXCEPT ![a] = dropped] /\ item' = item
        \/ Move(a, "enqueue", "resume") /\ local' = [local EXCEPT ![a] = popped] /\ item' = item
    BY <2>1
  <2> HIDE DEF more, dropped, popped
  <2>5. ThreadsOK'
    BY <1>1, <1>2, <2>2, <2>3, <2>4, ThreadKeepsItem, ThreadMoves DEF Move
  <2>6. LedgerTypeOK'
    BY <1>10, <2>1, RowWriteType, OnlyRowType DEF EnqueueOne
  <2> QED BY <1>10, <2>5, <2>6, OutsideStays DEF EnqueueOne
<1>11. CASE RunNextItem(a)
  <2>1. ASSUME NEW s \in Step,
               Move(a, "items", "lease"),
               item' = [item EXCEPT ![a] = s],
               local' = [local EXCEPT ![a] = [local[a] EXCEPT !.stack =
                 <<[Top(a) EXCEPT !.rest = Top(a).rest \ {s}]>> \o Tail(local[a].stack)]]
        PROVE  ThreadsOK'
    <3> DEFINE f == [Top(a) EXCEPT !.rest = Top(a).rest \ {s}]
               l == [local[a] EXCEPT !.stack = <<f>> \o Tail(local[a].stack)]
    <3>1. f \in Frame
      BY <1>4 DEF Frame
    <3>2. local' = [local EXCEPT ![a] = l]
      BY <2>1
    <3> HIDE DEF f
    <3>3. l \in Locals
      BY <1>4, <3>1, StackType DEF Locals
    <3> HIDE DEF l
    <3> QED BY <1>1, <2>1, <3>2, <3>3, ThreadMoves DEF Move
  <2> QED BY <1>5, <1>11, <2>1, LedgerStays, OutsideStays DEF RunNextItem
<1> QED BY <1>6, <1>7, <1>8, <1>9, <1>10, <1>11
LEMMA CallTypeInv ==
  ASSUME TypeInv, NEW a \in Actor,
         After(a) \/ Approve(a) \/ Reject(a) \/ ReturnTask(a)
  PROVE  TypeInv'
<1> USE DEF TypeInv
<1>1. {"resume", "idle", "reject_step", "return_step"} \subseteq Label \ InLoop
  BY DEF Label, InLoop
<1>2. {"pick", "after", "approve_step"} \subseteq Label \cap InLoop
  BY DEF Label, InLoop
<1>3. local[a] \in Locals /\ local[a].rounds \in Nat
  BY DEF ThreadsOK, Locals
<1>4. ASSUME NEW loop \in {"resume", "return"}
      PROVE  /\ [local[a] EXCEPT !.stack = <<OuterFrame(loop)>>] \in Locals
             /\ [local[a] EXCEPT !.stack = <<OuterFrame(loop)>>].stack # <<>>
  BY <1>3, FreshLocalsType DEF Locals
<1>5. CASE After(a)
  <2>1. UNCHANGED <<ledgerVars, outside, item>> /\ pc[a] = "after"
    BY <1>5 DEF After
  <2>2. local[a].stack # <<>>
    BY <1>2, <2>1 DEF ThreadsOK
  <2>3. /\ [local[a] EXCEPT !.rounds = local[a].rounds + 1] \in Locals
        /\ [local[a] EXCEPT !.rounds = local[a].rounds + 1].stack # <<>>
    BY <1>3, <2>2 DEF Locals
  <2>4. \/ /\ Move(a, "after", "pick")
           /\ local' = [local EXCEPT ![a] =
                          [local[a] EXCEPT !.rounds = local[a].rounds + 1]]
        \/ /\ Move(a, "after", "resume")
           /\ local' = [local EXCEPT ![a] =
                          [local[a] EXCEPT !.stack = <<OuterFrame("return")>>]]
        \/ /\ Move(a, "after", "idle")
           /\ local' = [local EXCEPT ![a] = FreshLocals]
    BY <1>5 DEF After, EndCall
  <2>5. ThreadsOK'
    BY <1>1, <1>2, <1>4, <2>1, <2>3, <2>4, FreshLocalsType, ThreadKeepsItem
  <2> QED BY <2>1, <2>5, LedgerStays, OutsideStays
<1>6. ASSUME NEW n \in {0, 1}, NEW to, DecideRequest(a, n, to) PROVE OutsideOK'
  <2>1. approvals' \in [pending : Nat, approved : Nat]
    BY <1>6 DEF DecideRequest, OutsideOK
  <2> QED BY <1>6, <2>1 DEF DecideRequest, OutsideOK
<1>7. CASE Approve(a)
  <2>1. DecideRequest(a, 1, "approve_step")
    BY <1>7 DEF Approve
  <2>2. ThreadsOK'
    BY <1>2, <1>4, <1>7, <2>1, ThreadKeepsItem DEF Approve, DecideRequest
  <2> QED BY <1>6, <2>1, <2>2, LedgerStays DEF DecideRequest
<1>8. CASE Reject(a)
  <2>1. DecideRequest(a, 0, "reject_step") /\ local' = local
    BY <1>8 DEF Reject
  <2>2. ThreadsOK'
    BY <1>1, <2>1, ThreadKeepsLocals DEF DecideRequest
  <2> QED BY <1>6, <2>1, <2>2, LedgerStays DEF DecideRequest
<1>9. CASE ReturnTask(a)
  <2>1. PICK s \in Step : /\ tasks[s] > 0
                          /\ tasks' = [tasks EXCEPT ![s] = @ - 1]
                          /\ item' = [item EXCEPT ![a] = s]
    BY <1>9 DEF ReturnTask
  <2>2. tasks' \in [Step -> Nat]
    BY <2>1 DEF OutsideOK
  <2>3. OutsideOK'
    BY <1>9, <2>2 DEF ReturnTask, OutsideOK
  <2>4. ThreadsOK'
    BY <1>1, <1>4, <1>9, <2>1, ThreadMoves DEF ReturnTask, Move
  <2> QED BY <1>9, <2>3, <2>4, LedgerStays DEF ReturnTask
<1> QED BY <1>5, <1>7, <1>8, <1>9

LEMMA EnvironmentTypeInv ==
  ASSUME TypeInv,
         \/ \E s \in Step : LeaseExpires(s) \/ BackoffElapses(s)
         \/ ExpireApproval
         \/ \E dead \in SUBSET Actor : Crash(dead)
  PROVE  TypeInv'
<1> USE DEF TypeInv
<1>1. ASSUME UNCHANGED <<pc, item, local>> PROVE ThreadsOK'
  BY <1>1 DEF ThreadsOK
<1>2. \E a \in Actor : TRUE
  BY RuntimeAssumption
<1>3. ASSUME NEW s \in Step, LeaseExpires(s) PROVE TypeInv'
  <2>1. LedgerTypeOK'
    BY <1>2, <1>3, RowWriteType, OnlyRowType DEF LeaseExpires
  <2>2. OutsideOK'
    BY <1>3 DEF LeaseExpires, OutsideOK
  <2> QED BY <1>1, <1>3, <2>1, <2>2 DEF LeaseExpires
<1>4. ASSUME NEW s \in Step, BackoffElapses(s) PROVE TypeInv'
  <2>1. LedgerTypeOK'
    BY <1>2, <1>4, RowWriteType, OnlyRowType DEF BackoffElapses
  <2> QED BY <1>1, <1>4, <2>1, OutsideStays DEF BackoffElapses
<1>5. CASE ExpireApproval
  <2>1. approvals' \in [pending : Nat, approved : Nat]
    BY <1>5 DEF ExpireApproval, OutsideOK
  <2>2. OutsideOK'
    BY <1>5, <2>1 DEF ExpireApproval, OutsideOK
  <2> QED BY <1>1, <1>5, <2>2, LedgerStays DEF ExpireApproval
<1>6. ASSUME NEW dead \in SUBSET Actor, Crash(dead) PROVE TypeInv'
  <2>1. OutsideOK'
    BY <1>6 DEF Crash, OutsideOK
  <2>2. "idle" \in Label \ InLoop
    BY DEF Label, InLoop
  <2>3. ThreadsOK'
    BY <1>6, <2>2, FreshLocalsType DEF Crash, ThreadsOK
  <2> QED BY <1>6, <2>1, <2>3, LedgerStays DEF Crash
<1> QED BY <1>3, <1>4, <1>5, <1>6

LEMMA NextTypeInv == TypeInv /\ [Next]_vars => TypeInv'
<1> SUFFICES ASSUME TypeInv, [Next]_vars PROVE TypeInv'
  OBVIOUS
<1>1. ASSUME NEW a \in Actor,
             LeaseNext(a) \/ Thread(a) \/ Approve(a) \/ Reject(a) \/ ReturnTask(a)
      PROVE  TypeInv'
  <2>1. CASE Handle(a)
    BY <2>1, LeasingTypeInv, LoopTypeInv, WritesTypeInv, AskingTypeInv, RecoverTypeInv
    DEF Handle
  <2>2. CASE Recover(a)
    BY <2>2, RecoverTypeInv, WritesTypeInv DEF Recover
  <2>3. CASE Continue(a)
    BY <2>3, LoopTypeInv, QueueingTypeInv, CallTypeInv DEF Continue
  <2>4. CASE Respond(a)
    BY <2>4, WritesTypeInv DEF Respond
  <2> QED BY <1>1, <2>1, <2>2, <2>3, <2>4, LeasingTypeInv, CallTypeInv DEF Thread
<1>2. CASE Clock \/ ExpireApproval
  BY <1>2, EnvironmentTypeInv DEF Clock
<1>3. CASE (\E w \in Worker : Crash({w})) \/ Crash(Inline)
  <2>1. Inline \in SUBSET Actor /\ \A w \in Worker : {w} \in SUBSET Actor
    BY RuntimeAssumption
  <2> QED BY <1>3, <2>1, EnvironmentTypeInv
<1>4. CASE UNCHANGED vars
  BY <1>4, LedgerStays DEF vars, outside, TypeInv, OutsideOK, ThreadsOK
<1> QED BY <1>1, <1>2, <1>3, <1>4 DEF Next

\* However the threads, reviewers, the clock and crashes interleave, every row,
\* status and stack stays well-formed: no loop is continued that was left.
THEOREM RuntimeTypeCorrect == Spec => []TypeOK
<1>1. Spec => []TypeInv
  BY InitTypeInv, NextTypeInv, PTL DEF Spec
<1> QED BY <1>1, TypeInvTypeOK, PTL
-----------------------------------------------------------------------------
(* The next-state relation as the rows and their holders see it. *)

\* The statements before the effect outside.
BeforeEffect == {"start", "mark", "run"}

Starting(a, s) == pc[a] \in BeforeEffect /\ item[a] = s

\* No thread takes a row in hand, or goes back before its effect.
HandsOff ==
  \A b \in Actor, s \in Step :
    /\ Holds(b, s)' => Holds(b, s)
    /\ Starting(b, s)' => Starting(b, s)

Works == row' = row /\ HandsOff /\ UNCHANGED <<effects, lapses>>

Enqueues(s) == EnqueueRow(s) /\ HandsOff /\ UNCHANGED <<effects, lapses>>

Leases(a, s) ==
  /\ Eligible(s) /\ LeaseRow(s, a)
  /\ pc[a] \notin RowInHand
  /\ pc' = [pc EXCEPT ![a] = "start"] /\ item' = [item EXCEPT ![a] = s]
  /\ UNCHANGED <<effects, lapses>>

Closes(a, s) ==
  /\ Holds(a, s)
  /\ CompleteRow(s) \/ FailRow(s) \/ \E now \in BOOLEAN : RetryRow(s, a, now)
  /\ HandsOff /\ pc'[a] \notin RowInHand
  /\ UNCHANGED <<effects, lapses>>

Invokes(a, s) ==
  /\ Starting(a, s)
  /\ pc' = [pc EXCEPT ![a] = "invoked"]
  /\ effects' = [effects EXCEPT ![s] = @ + 1]
  /\ UNCHANGED <<row, item, lapses>>

Elapses(s) ==
  /\ \/ LeaseExpires(s)
     \/ /\ DueRow(s)
        /\ UNCHANGED lapses
  /\ UNCHANGED <<pc, item, effects>>

LEMMA MoveHandsOff ==
  ASSUME TypeInv, NEW a \in Actor, NEW from, NEW to, Move(a, from, to),
         to \in RowInHand => from \in RowInHand,
         to \in BeforeEffect => from \in BeforeEffect,
         \/ item' = item
         \/ to \notin RowInHand /\ \E i \in Step : item' = [item EXCEPT ![a] = i]
  PROVE  HandsOff
<1>1. BeforeEffect \subseteq RowInHand
  BY DEF BeforeEffect, RowInHand
<1>2. pc \in [Actor -> Label] /\ item \in [Actor -> Step]
  BY DEF TypeInv, ThreadsOK
<1>3. ASSUME NEW b \in Actor, b # a
      PROVE  pc'[b] = pc[b] /\ item'[b] = item[b]
  BY <1>2, <1>3 DEF Move
<1>4. pc[a] = from /\ pc'[a] = to
  BY <1>2 DEF Move
<1>5. to \in RowInHand => item'[a] = item[a]
  BY <1>2
<1> QED BY <1>1, <1>3, <1>4, <1>5 DEF HandsOff, Holds, Starting

LEMMA HandleKinds ==
  ASSUME TypeInv, NEW a \in Actor, Handle(a)
  PROVE  \/ Works
         \/ \E s \in Step : Enqueues(s) \/ Leases(a, s) \/ Invokes(a, s)
<1>1. item[a] \in Step /\ Target \in Step
  BY TargetIsStep DEF TypeInv, ThreadsOK
<1>2. /\ {"start", "mark", "run"} \subseteq BeforeEffect
      /\ {"mark", "refresh", "ask_row", "deny_session", "deny_step", "ask", "ask_step",
          "ask_session", "task_step", "task_session", "invoked", "run", "start"}
           \subseteq RowInHand
      /\ {"ask_step", "ask_session", "refresh", "task_step", "task_session", "ask_row",
          "deny_session", "deny_step", "ask", "lease", "scan", "resume"}
           \cap BeforeEffect = {}
      /\ {"lease", "scan", "resume", "pick"} \cap RowInHand = {}
  BY DEF RowInHand, BeforeEffect
<1>3. ASSUME NEW from \in RowInHand, NEW to, to \in BeforeEffect => from \in BeforeEffect,
             Move(a, from, to), UNCHANGED <<row, effects, lapses, item>>
      PROVE  Works
  BY <1>3, MoveHandsOff DEF Works
<1>4. CASE Lease(a)
  <2>1. CASE Eligible(item[a])
    BY <1>1, <1>2, <1>4, <2>1 DEF Lease, TakeRow, Leases, Move, outside
  <2>2. CASE ~Eligible(item[a])
    <3>1. Move(a, "lease", "resume") /\ UNCHANGED <<row, effects, lapses, item>>
      BY <1>4, <2>2 DEF Lease, ledgerVars, outside
    <3> QED BY <1>2, <3>1, MoveHandsOff DEF Works
  <2> QED BY <2>1, <2>2
<1>5. CASE Pick(a)
  <2>1. UNCHANGED <<row, effects, lapses>>
    BY <1>5 DEF Pick, PickOldest, ledgerVars, outside
  <2>2. HandsOff
    BY <1>2, <1>5, MoveHandsOff DEF Pick, PickOldest
  <2> QED BY <2>1, <2>2 DEF Works
<1>6. CASE Start(a) \/ DenySession(a) \/ AskSession(a) \/ TaskSession(a)
  BY <1>2, <1>3, <1>6
  DEF Start, DenySession, AskSession, TaskSession, SessionWrite, outside
<1>7. CASE Prepare(a) \/ DenyStep(a) \/ SkipMemory(a) \/ TaskStep(a)
  BY <1>2, <1>3, <1>7 DEF Prepare, DenyStep, SkipMemory, TaskStep, StepWrite, outside
<1>8. CASE Policy(a)
  <2>1. verdict \in {"allow", "approval", "deny"}
    BY RuntimeAssumption DEF TypeInv, OutsideOK
  <2>2. \E to \in {"refresh", "deny_step", "ask"} :
          StepWrite(a, "run", item[a], "completed", to)
    BY <1>8, <2>1 DEF Policy
  <2> QED BY <1>2, <1>3, <2>2 DEF StepWrite, outside
<1>9. CASE Mark(a) \/ Ask(a) \/ AskStep(a) \/ FinishEffect(a) \/ CreateTask(a)
  BY <1>2, <1>3, <1>9
  DEF Mark, Ask, AskStep, FinishEffect, CreateTask, ledgerVars, outside
<1>10. CASE AskRow(a)
  <2>1. Move(a, "ask_row", "refresh") /\ UNCHANGED <<effects, lapses, item>>
    BY <1>10 DEF AskRow, outside
  <2>2. HandsOff
    BY <1>2, <2>1, MoveHandsOff
  <2> QED BY <1>1, <1>10, <2>1, <2>2 DEF AskRow, Enqueues
<1>11. CASE Invoke(a)
  <2>1. Starting(a, item[a])
    BY <1>2, <1>11 DEF Invoke, Starting, Move
  <2> QED BY <1>1, <1>11, <2>1 DEF Invoke, Invokes, Move, ledgerVars
<1> QED
  BY <1>4, <1>5, <1>6, <1>7, <1>8, <1>9, <1>10, <1>11 DEF Handle

LEMMA RecoverKinds ==
  ASSUME TypeInv, NEW a \in Actor, Recover(a) \/ Respond(a)
  PROVE  Works \/ \E s \in Step : Closes(a, s)
<1>1. item[a] \in Step /\ pc \in [Actor -> Label]
  BY DEF TypeInv, ThreadsOK
<1>2. /\ {"run", "invoked"} \subseteq RowInHand
      /\ {"retry_step", "retry_session", "resume", "fail_step", "fail_session", "idle",
          "approve_session", "pick", "reject_session", "return_session", "next"}
           \cap (RowInHand \cup BeforeEffect) = {}
  BY DEF RowInHand, BeforeEffect
<1>3. ASSUME NEW from, NEW to, to \notin RowInHand \cup BeforeEffect,
             Move(a, from, to), UNCHANGED <<row, effects, lapses, item>>
      PROVE  Works
  BY <1>3, MoveHandsOff DEF Works
<1>4. CASE RetrySession(a) \/ ApproveSession(a) \/ RejectSession(a) \/ ReturnSession(a)
  BY <1>2, <1>3, <1>4
  DEF RetrySession, ApproveSession, RejectSession, ReturnSession, SessionWrite, outside
<1>5. CASE ApproveStep(a) \/ RejectStep(a) \/ ReturnStep(a)
  BY <1>2, <1>3, <1>5 DEF ApproveStep, RejectStep, ReturnStep, StepWrite, outside
<1>6. CASE RetryStep(a) \/ FailStep(a) \/ FailSession(a)
  BY <1>2, <1>3, <1>6 DEF RetryStep, FailStep, FailSession, outside
<1>7. ASSUME NEW to \in {"retry_step", "fail_step"}, Raises(a), Move(a, pc[a], to),
             item' = item
      PROVE  Holds(a, item[a]) /\ HandsOff /\ pc'[a] \notin RowInHand
  <2>1. Holds(a, item[a])
    BY <1>2, <1>7 DEF Raises, Holds
  <2>2. HandsOff
    BY <1>2, <1>7, MoveHandsOff
  <2>3. pc'[a] = to
    BY <1>1, <1>7 DEF Move
  <2> QED BY <1>2, <2>1, <2>2, <2>3
<1>8. CASE RetryItem(a)
  BY <1>1, <1>7, <1>8 DEF RetryItem, Closes, outside
<1>9. CASE FailItem(a)
  BY <1>1, <1>7, <1>9 DEF FailItem, Closes, outside
<1> QED BY <1>4, <1>5, <1>6, <1>8, <1>9 DEF Recover, Respond
LEMMA ContinueKinds ==
  ASSUME TypeInv, NEW a \in Actor, Continue(a)
  PROVE  Works \/ \E s \in Step : Enqueues(s) \/ Closes(a, s)
<1>1. /\ item[a] \in Step /\ pc \in [Actor -> Label]
      /\ local[a] \in Locals
      /\ pc[a] \in InLoop => local[a].stack # <<>>
  BY DEF TypeInv, ThreadsOK
<1>2. /\ {"refresh", "close"} \subseteq RowInHand \ BeforeEffect
      /\ {"resume", "next", "next_session", "drain", "scan", "filter", "enqueue", "items",
          "lease", "idle", "after", "pick"}
           \cap (RowInHand \cup BeforeEffect) = {}
  BY DEF RowInHand, BeforeEffect
<1>3. ASSUME NEW from, NEW to, to \notin RowInHand \cup BeforeEffect,
             Move(a, from, to), UNCHANGED <<row, effects, lapses>>,
             item' = item \/ \E i \in Step : item' = [item EXCEPT ![a] = i]
      PROVE  Works
  BY <1>3, MoveHandsOff DEF Works
<1>4. ASSUME NEW from, Leave(a, from), UNCHANGED <<row, effects, lapses>> PROVE Works
  BY <1>2, <1>3, <1>4 DEF Leave
<1>5. ASSUME NEW from, NEW to \in {"scan", "after"}, PickOldest(a, from, to) PROVE Works
  BY <1>2, <1>3, <1>5 DEF PickOldest, ledgerVars, outside
<1>6. CASE Refresh(a)
  <2>1. Move(a, "refresh", "close") /\ UNCHANGED <<row, effects, lapses, item>>
    BY <1>6 DEF Refresh, ledgerVars, outside
  <2> QED BY <1>2, <2>1, MoveHandsOff DEF Works
<1>7. CASE Close(a)
  <2>1. PICK to \in {"resume", "next"} : Move(a, "close", to)
    BY <1>7 DEF Close
  <2>2. CompleteRow(item[a]) /\ UNCHANGED <<effects, lapses, item>>
    BY <1>7 DEF Close, outside
  <2>3. Holds(a, item[a]) /\ pc'[a] = to
    BY <1>1, <1>2, <2>1 DEF Move, Holds
  <2>4. HandsOff
    BY <1>2, <2>1, <2>2, MoveHandsOff
  <2> QED BY <1>1, <1>2, <2>2, <2>3, <2>4 DEF Closes
<1>8. CASE ContinueAfter(a) \/ Scan(a) \/ EnqueueAll(a) \/ EnqueueFirst(a) \/ MissingReady(a)
           \/ ResumeWorker(a)
  BY <1>2, <1>3, <1>8
  DEF ContinueAfter, Scan, EnqueueAll, EnqueueFirst, MissingReady, ResumeWorker, ledgerVars,
      outside
<1>9. CASE CheckPaused(a)
  BY <1>2, <1>3, <1>4, <1>9 DEF CheckPaused, Keep, ledgerVars, outside
<1>10. CASE Drain(a) \/ ResumeOuter(a)
  BY <1>5, <1>10 DEF Drain, ResumeOuter
<1>11. CASE NothingReady(a)
  BY <1>4, <1>11 DEF NothingReady, outside
<1>12. CASE EnqueueOne(a)
  <2>1. PICK s \in Step : EnqueueRow(s)
    BY <1>12 DEF EnqueueOne
  <2>2. UNCHANGED <<effects, lapses>>
    BY <1>12 DEF EnqueueOne, outside
  <2>3. \E to \in {"enqueue", "lease", "items", "resume"} :
          /\ Move(a, "enqueue", to)
          /\ item' = item \/ \E i \in Step : item' = [item EXCEPT ![a] = i]
    BY <1>12, Zenon DEF EnqueueOne
  <2>4. HandsOff
    BY <1>2, <2>3, MoveHandsOff
  <2> QED BY <2>1, <2>2, <2>4 DEF Enqueues
<1>13. CASE RunNextItem(a)
  BY <1>2, <1>3, <1>4, <1>13 DEF RunNextItem, ledgerVars, outside
<1>14. CASE ResumeInner(a)
  <2>1. UNCHANGED <<row, effects, lapses>>
    BY <1>14 DEF ResumeInner, ledgerVars, outside
  <2>2. CASE Leave(a, "resume")
    BY <1>4, <2>1, <2>2
  <2>3. CASE Move(a, "resume", Top(a).loop) /\ Keep(a)
    <3>1. Top(a).loop \in {"drain", "items", "enqueue"}
      BY <1>14, StackType DEF TypeInv, ResumeInner, Outer, Frame
    <3> QED BY <1>2, <1>3, <2>1, <2>3, <3>1 DEF Keep
  <2> QED BY <1>14, <2>2, <2>3 DEF ResumeInner
<1>15. CASE After(a)
  <2>1. \E to \in {"pick", "resume", "idle"} : Move(a, "after", to)
    BY <1>15 DEF After, EndCall
  <2> QED BY <1>2, <1>3, <1>15, <2>1 DEF After, ledgerVars, outside
<1> QED
  BY <1>6, <1>7, <1>8, <1>9, <1>10, <1>11, <1>12, <1>13, <1>14, <1>15 DEF Continue

\* Every step of the runtime is one of these kinds.
LEMMA StepKinds ==
  ASSUME TypeInv, [Next]_vars
  PROVE  \/ Works
         \/ \E s \in Step : Enqueues(s) \/ Elapses(s)
         \/ \E a \in Actor, s \in Step : Leases(a, s) \/ Closes(a, s) \/ Invokes(a, s)
<1>1. {"idle", "approve_step", "reject_step", "return_step"}
        \cap (RowInHand \cup BeforeEffect) = {}
  BY DEF RowInHand, BeforeEffect
<1>2. ASSUME NEW a \in Actor, Thread(a)
      PROVE  \/ Works
             \/ \E s \in Step : Enqueues(s)
             \/ \E s \in Step : Leases(a, s) \/ Closes(a, s) \/ Invokes(a, s)
  BY <1>2, HandleKinds, RecoverKinds, ContinueKinds DEF Thread
<1>3. ASSUME NEW a \in Actor, LeaseNext(a) PROVE \E s \in Step : Leases(a, s)
  <2>1. PICK s \in Step : Oldest(s) /\ TakeRow(a, s)
    BY <1>3 DEF LeaseNext
  <2> QED BY <1>1, <1>3, <2>1 DEF LeaseNext, TakeRow, Oldest, Leases, Move, outside
<1>4. ASSUME NEW a \in Actor, Approve(a) \/ Reject(a) \/ ReturnTask(a) PROVE Works
  <2>1. /\ \E to \in {"approve_step", "reject_step", "return_step"} : Move(a, "idle", to)
        /\ item' = item \/ \E i \in Step : item' = [item EXCEPT ![a] = i]
        /\ UNCHANGED <<row, effects, lapses>>
    BY <1>4 DEF Approve, Reject, ReturnTask, DecideRequest, ledgerVars
  <2> QED BY <1>1, <2>1, MoveHandsOff DEF Works
<1>5. ASSUME NEW s \in Step, LeaseExpires(s) \/ BackoffElapses(s) PROVE Elapses(s)
  <2>1. CASE LeaseExpires(s)
    <3>1. UNCHANGED <<pc, item, effects>>
      BY <2>1 DEF LeaseExpires
    <3> QED BY <2>1, <3>1 DEF Elapses
  <2>2. CASE BackoffElapses(s)
    BY <2>2 DEF Elapses, BackoffElapses, outside
  <2> QED BY <1>5, <2>1, <2>2
<1>6. ASSUME UNCHANGED <<row, pc, item, effects, lapses>> PROVE Works
  BY <1>6 DEF Works, HandsOff, Holds, Starting
<1>7. CASE ExpireApproval \/ UNCHANGED vars
  BY <1>6, <1>7 DEF ExpireApproval, ledgerVars, vars, outside
<1>8. ASSUME NEW dead, Crash(dead) PROVE Works
  <2>1. UNCHANGED <<row, effects, lapses, item>>
    BY <1>8 DEF Crash, ledgerVars
  <2>2. \A b \in Actor : pc'[b] = "idle" \/ pc'[b] = pc[b]
    BY <1>8 DEF Crash
  <2> QED BY <1>1, <2>1, <2>2 DEF Works, HandsOff, Holds, Starting
<1>9. CASE (\E w \in Worker : Crash({w})) \/ Crash(Inline)
  BY <1>8, <1>9
<1>10. CASE \E a \in Actor :
              LeaseNext(a) \/ Thread(a) \/ Approve(a) \/ Reject(a) \/ ReturnTask(a)
  BY <1>2, <1>3, <1>4, <1>10
<1>11. CASE Clock
  BY <1>5, <1>11 DEF Clock
<1> QED BY <1>7, <1>9, <1>10, <1>11 DEF Next

-----------------------------------------------------------------------------
(* One executor per step. *)

\* A row in hand is leased to the thread that has it, and the lease is live.
LeaseInHand ==
  \A a \in Actor, s \in Step : Holds(a, s) =>
    /\ row[s].state = "leased" /\ row[s].owner = a
    /\ ~row[s].expired

\* A lease never runs out while its holder works on the row.
HandlersKeepUp == "lease" \in Slow

LEMMA NextLeaseInHand ==
  ASSUME HandlersKeepUp, TypeInv, LeaseInHand, [Next]_vars
  PROVE  LeaseInHand'
<1> SUFFICES ASSUME NEW b \in Actor, NEW t \in Step, Holds(b, t)'
             PROVE  /\ row'[t].state = "leased" /\ row'[t].owner = b
                    /\ ~row'[t].expired
  BY DEF LeaseInHand
<1>1. /\ LedgerTypeOK /\ row[t] \in Row
      /\ pc \in [Actor -> Label] /\ item \in [Actor -> Step]
  BY DEF TypeInv, LedgerTypeOK, ThreadsOK
<1>2. ASSUME HandsOff PROVE Holds(b, t)
  BY <1>2 DEF HandsOff
<1>3. Holds(b, t) => /\ row[t].state = "leased" /\ row[t].owner = b
                     /\ ~row[t].expired
  BY DEF LeaseInHand
<1>4. CASE Works
  BY <1>2, <1>3, <1>4 DEF Works
<1>5. ASSUME NEW s \in Step, Enqueues(s)
      PROVE  row'[t] = row[t] /\ Holds(b, t)
  <2>1. row[t].state # "absent"
    BY <1>2, <1>3, <1>5 DEF Enqueues
  <2> QED BY <1>1, <1>2, <1>5, <2>1, EnqueueRowEffect DEF Enqueues, BecomesRow
<1>6. ASSUME NEW a \in Actor, NEW s \in Step, Leases(a, s)
      PROVE  /\ row'[t].state = "leased" /\ row'[t].owner = b
             /\ ~row'[t].expired
  <2>1. BecomesRow(s, [row[s] EXCEPT !.state = "leased", !.owner = a,
                         !.expired = FALSE, !.attempt = NextAttempt(s)])
    BY <1>1, <1>6, LeaseRowEffect DEF Leases
  <2>2. b # a => Holds(b, t)
    BY <1>1, <1>6 DEF Leases, Holds
  <2>3. CASE b = a
    <3>1. t = s
      BY <1>1, <1>6, <2>3 DEF Leases, Holds
    <3> QED BY <1>1, <2>1, <2>3, <3>1 DEF BecomesRow, Row
  <2>4. CASE b # a
    <3>1. t # s
      BY <1>3, <1>6, <2>2, <2>4 DEF Leases, Eligible
    <3> QED BY <1>3, <2>1, <2>2, <2>4, <3>1 DEF BecomesRow
  <2> QED BY <2>3, <2>4
<1>7. ASSUME NEW a \in Actor, NEW s \in Step, Closes(a, s)
      PROVE  row'[t] = row[t] /\ Holds(b, t)
  <2>1. Holds(b, t) /\ b # a
    BY <1>2, <1>7 DEF Closes, Holds
  <2>2. row[s].owner = a
    BY <1>7 DEF Closes, LeaseInHand
  <2>3. t # s
    BY <1>3, <2>1, <2>2
  <2>4. CASE CompleteRow(s)
    BY <1>1, <2>1, <2>3, <2>4, CompleteRowEffect DEF BecomesRow
  <2>5. CASE FailRow(s)
    BY <1>1, <2>1, <2>3, <2>5, FailRowEffect DEF BecomesRow
  <2>6. ASSUME NEW now \in BOOLEAN, RetryRow(s, a, now) PROVE row'[t] = row[t]
    <3>1. BecomesRow(s, [row[s] EXCEPT !.state = "queued", !.owner = a,
                           !.expired = FALSE, !.failedBefore = TRUE, !.due = now])
      BY <1>1, <2>6, RetryRowEffect
    <3> QED BY <2>3, <3>1 DEF BecomesRow
  <2> QED BY <1>7, <2>1, <2>4, <2>5, <2>6 DEF Closes
<1>8. ASSUME NEW a \in Actor, NEW s \in Step, Invokes(a, s)
      PROVE  row'[t] = row[t] /\ Holds(b, t)
  BY <1>1, <1>8 DEF Invokes, Starting, Holds, BeforeEffect, RowInHand
<1>9. ASSUME NEW s \in Step, Elapses(s)
      PROVE  row'[t] = row[t] /\ Holds(b, t)
  <2>1. Holds(b, t)
    BY <1>9 DEF Elapses, Holds
  <2>2. CASE LeaseExpires(s)
    <3>1. t # s
      BY <2>1, <2>2 DEF LeaseExpires, HandlersKeepUp, Holds
    <3>2. \E r \in Row : BecomesRow(s, r)
      BY <1>1, <2>2, ExpireRowEffect DEF LeaseExpires, BecomesRow
    <3> QED BY <2>1, <3>1, <3>2 DEF BecomesRow
  <2>3. CASE DueRow(s)
    <3>1. row[s].state = "queued"
      BY <2>3 DEF DueRow
    <3>2. t # s
      BY <1>3, <2>1, <3>1
    <3>3. \E r \in Row : BecomesRow(s, r)
      BY <1>1, <2>3, DueRowEffect DEF BecomesRow
    <3> QED BY <2>1, <3>2, <3>3 DEF BecomesRow
  <2> QED BY <1>9, <2>2, <2>3 DEF Elapses
<1> QED BY <1>3, <1>4, <1>5, <1>6, <1>7, <1>8, <1>9, StepKinds

\* As long as no handler outlives the 60 s of its lease, no step of any plan is
\* executed by two threads at once, however many workers and API threads lease,
\* retry, crash and take over.
THEOREM OneExecutorPerStep ==
  ASSUME HandlersKeepUp PROVE Spec => []ExclusiveExecution
<1>1. Init => LeaseInHand
  BY DEF Init, LeaseInHand, Holds, RowInHand
<1>2. TypeInv /\ LeaseInHand /\ [Next]_vars => (TypeInv /\ LeaseInHand)'
  BY NextTypeInv, NextLeaseInHand
<1>3. LeaseInHand => ExclusiveExecution
  BY DEF LeaseInHand, ExclusiveExecution
<1> QED BY <1>1, <1>2, <1>3, InitTypeInv, PTL DEF Spec
-----------------------------------------------------------------------------
(* Counting effects. *)

Starters(s) == {a \in Actor : Starting(a, s)}

Overdue(s) == IF row[s].state = "leased" /\ row[s].expired THEN 1 ELSE 0

\* A row that was never leased has no effect and nobody about to have one; from
\* then on every thread that may still invoke the tool is paid for in advance,
\* by the attempt it was leased for or by the lease it took over.
EffectsInv ==
  \A s \in Step :
    /\ \/ row[s].state = "absent"
       \/ row[s].state = "queued" /\ ~row[s].failedBefore
       => effects[s] = 0 /\ Starters(s) = {}
    /\ effects[s] + Cardinality(Starters(s)) + Overdue(s) <= row[s].attempt + lapses

LEMMA StartersFinite ==
  ASSUME NEW t \in Step
  PROVE  /\ IsFiniteSet(Starters(t)) /\ Cardinality(Starters(t)) \in Nat
         /\ IsFiniteSet(Starters(t)') /\ Cardinality(Starters(t)') \in Nat
<1>1. Starters(t) \subseteq Actor /\ Starters(t)' \subseteq Actor
  BY DEF Starters
<1> QED BY <1>1, LedgerAssumption, FS_Subset, FS_CardinalityType

LEMMA FewerStarters ==
  ASSUME NEW t \in Step, Starters(t)' \subseteq Starters(t)
  PROVE  Cardinality(Starters(t)') <= Cardinality(Starters(t))
  BY StartersFinite, FS_Subset

LEMMA HandsOffStarters ==
  ASSUME HandsOff, NEW t \in Step
  PROVE  Starters(t)' \subseteq Starters(t)
  BY DEF HandsOff, Starters

\* What one step of the runtime does to the effects of one step of the plan.
EffectsStep(t) ==
  /\ \/ row'[t].state = "absent"
     \/ row'[t].state = "queued" /\ ~row'[t].failedBefore
     => effects'[t] = 0 /\ Starters(t)' = {}
  /\ effects'[t] + Cardinality(Starters(t)') + Overdue(t)' <= row'[t].attempt + lapses'

\* A step that leaves the row, or only changes what is not counted.
LEMMA EffectsRest ==
  ASSUME TypeInv, TypeInv', EffectsInv, NEW t \in Step,
         row'[t].state = row[t].state, row'[t].attempt = row[t].attempt,
         row'[t].expired = row[t].expired,
         row'[t].failedBefore = row[t].failedBefore,
         effects'[t] = effects[t], lapses' >= lapses,
         Starters(t)' \subseteq Starters(t)
  PROVE  EffectsStep(t)
<1>1. /\ row[t] \in Row /\ row[t].attempt \in Nat
      /\ effects[t] \in Nat /\ lapses \in Nat /\ lapses' \in Nat
  BY DEF TypeInv, LedgerTypeOK, OutsideOK, Row
<1>2. Overdue(t)' = Overdue(t) /\ Overdue(t) \in 0..1
  BY DEF Overdue
<1>3. /\ Cardinality(Starters(t)') <= Cardinality(Starters(t))
      /\ Cardinality(Starters(t)') \in Nat /\ Cardinality(Starters(t)) \in Nat
  BY FewerStarters, StartersFinite
<1>4. effects[t] + Cardinality(Starters(t)) + Overdue(t) <= row[t].attempt + lapses
  BY DEF EffectsInv
<1>5. effects'[t] + Cardinality(Starters(t)') + Overdue(t)' <= row'[t].attempt + lapses'
  BY <1>1, <1>2, <1>3, <1>4
<1>6. \/ row'[t].state = "absent"
      \/ row'[t].state = "queued" /\ ~row'[t].failedBefore
      => effects'[t] = 0 /\ Starters(t)' = {}
  BY DEF EffectsInv
<1> QED BY <1>5, <1>6 DEF EffectsStep

LEMMA EffectsOfClosing ==
  ASSUME TypeInv, EffectsInv, NEW a \in Actor, NEW s \in Step, Closes(a, s)
  PROVE  EffectsStep(s)
<1>1. /\ LedgerTypeOK /\ row[s] \in Row /\ row[s].attempt \in Nat
      /\ effects[s] \in Nat /\ lapses \in Nat
  BY DEF TypeInv, LedgerTypeOK, OutsideOK, Row
<1>2. /\ row'[s].state \in {"queued", "done", "failed"}
      /\ row'[s].state = "queued" => row'[s].failedBefore
      /\ row'[s].attempt = row[s].attempt
  <2>1. CASE CompleteRow(s)
    <3>1. BecomesRow(s, [row[s] EXCEPT !.state = "done", !.owner = NoOne,
                           !.expired = FALSE, !.failedBefore = FALSE])
      BY <1>1, <2>1, CompleteRowEffect
    <3> QED BY <1>1, <3>1 DEF BecomesRow, Row
  <2>2. CASE FailRow(s)
    <3>1. BecomesRow(s, [row[s] EXCEPT !.state = "failed", !.owner = NoOne,
                           !.expired = FALSE, !.failedBefore = TRUE])
      BY <1>1, <2>2, FailRowEffect
    <3> QED BY <1>1, <3>1 DEF BecomesRow, Row
  <2>3. ASSUME NEW now \in BOOLEAN, RetryRow(s, a, now)
        PROVE  /\ row'[s].state = "queued" /\ row'[s].failedBefore
               /\ row'[s].attempt = row[s].attempt
    <3>1. BecomesRow(s, [row[s] EXCEPT !.state = "queued", !.owner = a,
                           !.expired = FALSE, !.failedBefore = TRUE, !.due = now])
      BY <1>1, <2>3, RetryRowEffect
    <3> QED BY <1>1, <3>1 DEF BecomesRow, Row
  <2> QED BY <2>1, <2>2, <2>3 DEF Closes
<1>3. Overdue(s)' = 0 /\ Overdue(s) \in 0..1
  BY <1>2 DEF Overdue
<1>4. /\ Cardinality(Starters(s)') <= Cardinality(Starters(s))
      /\ Cardinality(Starters(s)') \in Nat /\ Cardinality(Starters(s)) \in Nat
  BY FewerStarters, StartersFinite, HandsOffStarters DEF Closes
<1>5. effects[s] + Cardinality(Starters(s)) + Overdue(s) <= row[s].attempt + lapses
  BY DEF EffectsInv
<1>6. effects'[s] = effects[s] /\ lapses' = lapses
  BY DEF Closes
<1>7. effects'[s] + Cardinality(Starters(s)') + Overdue(s)' <= row'[s].attempt + lapses'
  BY <1>1, <1>2, <1>3, <1>4, <1>5, <1>6
<1> QED BY <1>2, <1>7 DEF EffectsStep

LEMMA EffectsOfLeasing ==
  ASSUME TypeInv, EffectsInv, NEW a \in Actor, NEW s \in Step, Leases(a, s)
  PROVE  EffectsStep(s)
<1>1. /\ LedgerTypeOK /\ row[s] \in Row /\ row[s].attempt \in Nat
      /\ effects[s] \in Nat /\ lapses \in Nat
      /\ pc \in [Actor -> Label] /\ item \in [Actor -> Step]
  BY DEF TypeInv, LedgerTypeOK, OutsideOK, ThreadsOK, Row
<1>2. BecomesRow(s, [row[s] EXCEPT !.state = "leased", !.owner = a,
                       !.expired = FALSE, !.attempt = NextAttempt(s)])
  BY <1>1, LeaseRowEffect DEF Leases
<1>3. /\ row'[s].state = "leased" /\ ~row'[s].expired
      /\ row'[s].attempt = NextAttempt(s)
  BY <1>1, <1>2 DEF BecomesRow, Row
<1>4. Starters(s)' = Starters(s) \cup {a} /\ a \notin Starters(s)
  BY <1>1 DEF Starters, Starting, Leases, BeforeEffect, RowInHand
<1>5. Cardinality(Starters(s)') = Cardinality(Starters(s)) + 1
  BY <1>4, StartersFinite, FS_AddElement
<1>6. Overdue(s)' = 0
  BY <1>3 DEF Overdue
<1>7. /\ NextAttempt(s) \in Nat /\ NextAttempt(s) >= row[s].attempt /\ NextAttempt(s) >= 1
      /\ row[s].failedBefore => NextAttempt(s) = row[s].attempt + 1
  BY <1>1, NextAttemptBounds DEF NextAttempt
<1>8. effects[s] + Cardinality(Starters(s)) + Overdue(s) <= row[s].attempt + lapses
  BY DEF EffectsInv
<1>9. Cardinality(Starters(s)) \in Nat /\ effects'[s] = effects[s] /\ lapses' = lapses
  BY StartersFinite DEF Leases
<1>10. effects[s] + Cardinality(Starters(s)) + 1 <= NextAttempt(s) + lapses
  <2>1. CASE row[s].state = "queued" /\ ~row[s].failedBefore
    <3>1. effects[s] = 0 /\ Starters(s) = {}
      BY <2>1 DEF EffectsInv
    <3> QED BY <1>1, <1>7, <3>1, FS_EmptySet
  <2>2. CASE row[s].state = "queued" /\ row[s].failedBefore
    <3>1. Overdue(s) = 0
      BY <2>2 DEF Overdue
    <3> QED BY <1>1, <1>7, <1>8, <1>9, <2>2, <3>1
  <2>3. CASE row[s].state = "leased" /\ row[s].expired
    <3>1. Overdue(s) = 1
      BY <2>3 DEF Overdue
    <3> QED BY <1>1, <1>7, <1>8, <1>9, <3>1
  <2> QED BY <2>1, <2>2, <2>3 DEF Leases, Eligible
<1>11. effects'[s] + Cardinality(Starters(s)') + Overdue(s)' <= row'[s].attempt + lapses'
  BY <1>1, <1>3, <1>5, <1>6, <1>7, <1>9, <1>10
<1> QED BY <1>3, <1>11 DEF EffectsStep

LEMMA EffectsOfEnqueueing ==
  ASSUME TypeInv, TypeInv', EffectsInv, NEW s \in Step, Enqueues(s), row[s].state = "absent"
  PROVE  EffectsStep(s)
<1>1. effects[s] = 0 /\ Starters(s) = {}
  BY DEF EffectsInv
<1>2. Starters(s)' = {} /\ effects'[s] = 0
  BY <1>1, HandsOffStarters DEF Enqueues
<1>3. row'[s] \in Row /\ row'[s].attempt \in Nat /\ lapses' \in Nat
  BY DEF TypeInv, LedgerTypeOK, OutsideOK, Row
<1>4. row'[s].state = "queued"
  BY EnqueueRowEffect DEF TypeInv, Enqueues, BecomesRow, AbsentRow
<1>5. Overdue(s)' = 0
  BY <1>4 DEF Overdue
<1> QED BY <1>2, <1>3, <1>5, FS_EmptySet DEF EffectsStep

LEMMA EffectsOfInvoking ==
  ASSUME TypeInv, EffectsInv, NEW a \in Actor, NEW s \in Step, Invokes(a, s)
  PROVE  EffectsStep(s)
<1>1. /\ row[s].attempt \in Nat /\ lapses \in Nat
      /\ effects \in [Step -> Nat] /\ pc \in [Actor -> Label]
  BY DEF TypeInv, LedgerTypeOK, OutsideOK, ThreadsOK, Row
<1>2. Starters(s)' = Starters(s) \ {a} /\ a \in Starters(s)
  BY <1>1 DEF Starters, Starting, Invokes, BeforeEffect
<1>3. Cardinality(Starters(s)') = Cardinality(Starters(s)) - 1
  BY <1>2, StartersFinite, FS_RemoveElement
<1>4. effects'[s] = effects[s] + 1 /\ lapses' = lapses /\ row' = row
  BY <1>1 DEF Invokes
<1>5. effects[s] + Cardinality(Starters(s)) + Overdue(s) <= row[s].attempt + lapses
  BY DEF EffectsInv
<1>6. Overdue(s)' = Overdue(s) /\ Overdue(s) \in 0..1
  BY <1>4 DEF Overdue
<1>7. effects'[s] + Cardinality(Starters(s)') + Overdue(s)' <= row'[s].attempt + lapses'
  BY <1>1, <1>3, <1>4, <1>5, <1>6, StartersFinite
<1>8. ~(\/ row'[s].state = "absent"
        \/ row'[s].state = "queued" /\ ~row'[s].failedBefore)
  BY <1>2, <1>4 DEF EffectsInv
<1> QED BY <1>7, <1>8 DEF EffectsStep

LEMMA EffectsOfExpiring ==
  ASSUME TypeInv, EffectsInv, NEW s \in Step, LeaseExpires(s), Starters(s)' = Starters(s),
         effects' = effects
  PROVE  EffectsStep(s)
<1>1. /\ LedgerTypeOK /\ row[s] \in Row /\ row[s].attempt \in Nat /\ lapses \in Nat
      /\ effects[s] \in Nat
  BY DEF TypeInv, LedgerTypeOK, OutsideOK, Row
<1>2. /\ row[s].state = "leased" /\ ~row[s].expired
      /\ BecomesRow(s, [row[s] EXCEPT !.expired = TRUE])
  BY <1>1, ExpireRowEffect DEF LeaseExpires
<1>3. row'[s].state = "leased" /\ row'[s].attempt = row[s].attempt
  BY <1>1, <1>2 DEF BecomesRow, Row
<1>4. Overdue(s) = 0 /\ Overdue(s)' \in 0..1
  BY <1>2 DEF Overdue
<1>5. lapses' = lapses + 1
  BY DEF LeaseExpires
<1>6. effects[s] + Cardinality(Starters(s)) + Overdue(s) <= row[s].attempt + lapses
  BY DEF EffectsInv
<1>7. effects'[s] + Cardinality(Starters(s)') + Overdue(s)' <= row'[s].attempt + lapses'
  BY <1>1, <1>3, <1>4, <1>5, <1>6, StartersFinite
<1> QED BY <1>3, <1>7 DEF EffectsStep
LEMMA NextEffectsInv == TypeInv /\ EffectsInv /\ [Next]_vars => EffectsInv'
<1> SUFFICES ASSUME TypeInv, EffectsInv, [Next]_vars, NEW t \in Step
             PROVE  EffectsStep(t)
  BY DEF EffectsInv, EffectsStep
<1>1. TypeInv'
  BY NextTypeInv
<1>2. /\ LedgerTypeOK /\ row[t] \in Row /\ lapses \in Nat
      /\ effects \in [Step -> Nat]
      /\ pc \in [Actor -> Label] /\ item \in [Actor -> Step]
  BY DEF TypeInv, LedgerTypeOK, OutsideOK, ThreadsOK
<1>3. ASSUME row'[t] = row[t], effects'[t] = effects[t], lapses' >= lapses,
             Starters(t)' \subseteq Starters(t)
      PROVE  EffectsStep(t)
  BY <1>1, <1>3, EffectsRest
<1>4. CASE Works
  <2>1. Starters(t)' \subseteq Starters(t)
    BY <1>4, HandsOffStarters DEF Works
  <2> QED BY <1>2, <1>3, <1>4, <2>1 DEF Works
<1>5. ASSUME NEW s \in Step, Enqueues(s) PROVE EffectsStep(t)
  <2>1. CASE t = s /\ row[s].state = "absent"
    BY <1>1, <1>5, <2>1, EffectsOfEnqueueing
  <2>2. CASE t # s \/ row[s].state # "absent"
    <3>1. row'[t] = row[t]
      BY <1>2, <1>5, <2>2, EnqueueRowEffect DEF Enqueues, BecomesRow
    <3>2. Starters(t)' \subseteq Starters(t)
      BY <1>5, HandsOffStarters DEF Enqueues
    <3> QED BY <1>2, <1>3, <1>5, <3>1, <3>2 DEF Enqueues
  <2> QED BY <2>1, <2>2
<1>6. ASSUME NEW s \in Step, Elapses(s) PROVE EffectsStep(t)
  <2>1. Starters(t)' = Starters(t) /\ effects' = effects
    BY <1>6 DEF Elapses, Starters, Starting
  <2>2. CASE LeaseExpires(s)
    <3>1. CASE t = s
      BY <2>1, <2>2, <3>1, EffectsOfExpiring
    <3>2. CASE t # s
      <4>1. BecomesRow(s, [row[s] EXCEPT !.expired = TRUE])
        BY <1>2, <2>2, ExpireRowEffect DEF LeaseExpires
      <4>2. row'[t] = row[t] /\ lapses' >= lapses
        BY <1>2, <2>2, <3>2, <4>1 DEF LeaseExpires, BecomesRow
      <4> QED BY <1>3, <2>1, <4>2
    <3> QED BY <3>1, <3>2
  <2>3. CASE DueRow(s) /\ lapses' = lapses
    <3>1. BecomesRow(s, [row[s] EXCEPT !.due = TRUE])
      BY <1>2, <2>3, DueRowEffect
    <3>2. /\ row'[t].state = row[t].state /\ row'[t].attempt = row[t].attempt
          /\ row'[t].expired = row[t].expired
          /\ row'[t].failedBefore = row[t].failedBefore
      BY <1>2, <3>1 DEF BecomesRow, Row
    <3> QED BY <1>1, <1>2, <2>1, <2>3, <3>2, EffectsRest
  <2> QED BY <1>6, <2>2, <2>3 DEF Elapses
<1>7. ASSUME NEW a \in Actor, NEW s \in Step, Leases(a, s) PROVE EffectsStep(t)
  <2>1. CASE t = s
    BY <1>7, <2>1, EffectsOfLeasing
  <2>2. CASE t # s
    <3>1. BecomesRow(s, [row[s] EXCEPT !.state = "leased", !.owner = a,
                           !.expired = FALSE, !.attempt = NextAttempt(s)])
      BY <1>2, <1>7, LeaseRowEffect DEF Leases
    <3>2. row'[t] = row[t]
      BY <2>2, <3>1 DEF BecomesRow
    <3>3. Starters(t)' \subseteq Starters(t)
      BY <1>2, <1>7, <2>2 DEF Leases, Starters, Starting
    <3> QED BY <1>2, <1>3, <1>7, <3>2, <3>3 DEF Leases
  <2> QED BY <2>1, <2>2
<1>8. ASSUME NEW a \in Actor, NEW s \in Step, Closes(a, s) PROVE EffectsStep(t)
  <2>1. CASE t = s
    BY <1>8, <2>1, EffectsOfClosing
  <2>2. CASE t # s
    <3>1. row'[t] = row[t]
      <4>1. CASE CompleteRow(s)
        BY <1>2, <2>2, <4>1, CompleteRowEffect DEF BecomesRow
      <4>2. CASE FailRow(s)
        BY <1>2, <2>2, <4>2, FailRowEffect DEF BecomesRow
      <4>3. ASSUME NEW now \in BOOLEAN, RetryRow(s, a, now) PROVE row'[t] = row[t]
        <5>1. BecomesRow(s, [row[s] EXCEPT !.state = "queued", !.owner = a,
                               !.expired = FALSE, !.failedBefore = TRUE, !.due = now])
          BY <1>2, <4>3, RetryRowEffect
        <5> QED BY <2>2, <5>1 DEF BecomesRow
      <4> QED BY <1>8, <4>1, <4>2, <4>3 DEF Closes
    <3>2. Starters(t)' \subseteq Starters(t)
      BY <1>8, HandsOffStarters DEF Closes
    <3> QED BY <1>2, <1>3, <1>8, <3>1, <3>2 DEF Closes
  <2> QED BY <2>1, <2>2
<1>9. ASSUME NEW a \in Actor, NEW s \in Step, Invokes(a, s) PROVE EffectsStep(t)
  <2>1. CASE t = s
    BY <1>9, <2>1, EffectsOfInvoking
  <2>2. CASE t # s
    <3>1. effects'[t] = effects[t] /\ row'[t] = row[t] /\ lapses' >= lapses
      BY <1>2, <1>9, <2>2 DEF Invokes
    <3>2. Starters(t)' \subseteq Starters(t)
      BY <1>2, <1>9 DEF Invokes, Starters, Starting, BeforeEffect
    <3> QED BY <1>3, <3>1, <3>2
  <2> QED BY <2>1, <2>2
<1> QED BY <1>4, <1>5, <1>6, <1>7, <1>8, <1>9, StepKinds

\* A tool is invoked, or a memory staged, again only for an attempt the queue
\* row counts or after a lease ran out: for any plan, threads and crashes, and
\* also when handlers outlive their leases.
THEOREM EffectsAreCounted == Spec => []EffectsCounted
<1>1. Init => EffectsInv
  <2> SUFFICES ASSUME Init, NEW s \in Step
               PROVE  /\ effects[s] = 0 /\ Starters(s) = {}
                      /\ Overdue(s) = 0 /\ row[s].attempt = 0 /\ lapses = 0
    BY FS_EmptySet DEF EffectsInv
  <2> QED BY DEF Init, LedgerInit, AbsentRow, Overdue, Starters, Starting, BeforeEffect
<1>2. TypeInv /\ EffectsInv /\ [Next]_vars => (TypeInv /\ EffectsInv)'
  BY NextTypeInv, NextEffectsInv
<1>3. TypeInv /\ EffectsInv => EffectsCounted
  <2> SUFFICES ASSUME TypeInv, EffectsInv, NEW s \in Step
               PROVE  effects[s] <= row[s].attempt + lapses
    BY DEF EffectsCounted
  <2>1. /\ effects[s] \in Nat /\ lapses \in Nat /\ row[s].attempt \in Nat
    BY DEF TypeInv, LedgerTypeOK, OutsideOK, Row
  <2>2. effects[s] + Cardinality(Starters(s)) + Overdue(s) <= row[s].attempt + lapses
    BY DEF EffectsInv
  <2>3. Overdue(s) \in 0..1
    BY DEF Overdue
  <2> QED BY <2>1, <2>2, <2>3, StartersFinite
<1> QED BY <1>1, <1>2, <1>3, InitTypeInv, PTL DEF Spec
-----------------------------------------------------------------------------
(* Counting attempts. *)

\* The statements a handler may raise at or has before it.
BeforeRaise == {"start", "mark", "run", "invoked"}

\* A thread that may still put the row of s back for another attempt.
Trying(a, s) == /\ pc[a] \in BeforeRaise /\ item[a] = s
                /\ local[a].att < MaxAttempts[s]

Tries(s) == {a \in Actor : Trying(a, s)}

\* A thread that was handed the row of s and may write the attempts of the step.
Working == RowInHand \cup {"retry_step", "fail_step"}
WorksOn(a, s) == pc[a] \in Working /\ item[a] = s

\* Nobody starts to work on a step, or comes into a position to retry it.
NoNewTryOf(s) ==
  \A b \in Actor :
    /\ Trying(b, s)' => Trying(b, s)
    /\ WorksOn(b, s)' => WorksOn(b, s)

NoNewTry == \A s \in Step : NoNewTryOf(s)

RowStays == row' = row /\ NoNewTry /\ UNCHANGED lapses

RowEnqueued(s) == EnqueueRow(s) /\ NoNewTry /\ UNCHANGED lapses

RowTaken(a, s) ==
  /\ Eligible(s) /\ LeaseRow(s, a)
  /\ pc' = [pc EXCEPT ![a] = "start"] /\ item' = [item EXCEPT ![a] = s]
  /\ local'[a].att = NextAttempt(s)
  /\ \A b \in Actor : b # a => local'[b] = local[b]
  /\ UNCHANGED lapses

RowClosed(a, s) ==
  /\ WorksOn(a, s)
  /\ CompleteRow(s) \/ FailRow(s)
  /\ NoNewTry /\ UNCHANGED lapses

RowRetried(a, s) ==
  /\ Trying(a, s) /\ ~Trying(a, s)'
  /\ \E now \in BOOLEAN : RetryRow(s, a, now)
  /\ NoNewTry /\ UNCHANGED lapses

RowElapses(s) ==
  /\ \/ LeaseExpires(s)
     \/ DueRow(s) /\ UNCHANGED lapses
  /\ NoNewTry

\* The locals of the other threads are their own.
OthersStay(a) ==
  \A b \in Actor : b # a => item'[b] = item[b] /\ local'[b] = local[b]

LEMMA MoveNoNewTry ==
  ASSUME TypeInv, NEW a \in Actor, NEW from, NEW to, Move(a, from, to), OthersStay(a),
         to \in Working => from \in Working /\ item' = item,
         to \in BeforeRaise => from \in BeforeRaise /\ local' = local
  PROVE  NoNewTry
<1>1. pc \in [Actor -> Label] /\ BeforeRaise \subseteq Working
  BY DEF TypeInv, ThreadsOK, BeforeRaise, Working, RowInHand
<1>2. pc[a] = from /\ pc'[a] = to
  BY <1>1 DEF Move
<1>3. ASSUME NEW b \in Actor, b # a PROVE pc'[b] = pc[b] /\ item'[b] = item[b] /\ local'[b] = local[b]
  BY <1>1, <1>3 DEF Move, OthersStay
<1>4. ASSUME NEW b \in Actor, NEW s \in Step, WorksOn(b, s)' PROVE WorksOn(b, s)
  BY <1>2, <1>3, <1>4 DEF WorksOn
<1>5. ASSUME NEW b \in Actor, NEW s \in Step, Trying(b, s)' PROVE Trying(b, s)
  <2>1. pc'[b] \in BeforeRaise /\ item'[b] = s /\ local'[b].att < MaxAttempts[s]
    BY <1>5 DEF Trying
  <2>2. pc[b] \in BeforeRaise /\ item[b] = s /\ local[b] = local'[b]
    BY <1>1, <1>2, <1>3, <2>1
  <2> QED BY <2>1, <2>2 DEF Trying
<1> QED BY <1>4, <1>5 DEF NoNewTry, NoNewTryOf

\* A thread that goes on to a statement at which it has no row in its hands.
LEMMA MoveAway ==
  ASSUME TypeInv, NEW a \in Actor, NEW from, NEW to, Move(a, from, to), OthersStay(a),
         to \notin Working
  PROVE  NoNewTry
<1>1. BeforeRaise \subseteq Working
  BY DEF BeforeRaise, Working, RowInHand
<1> QED BY <1>1, MoveNoNewTry

\* A thread that goes on with the row it has, and with the same locals.
LEMMA MoveOn ==
  ASSUME TypeInv, NEW a \in Actor, NEW from \in Working, NEW to, Move(a, from, to),
         UNCHANGED <<item, local>>, to \in BeforeRaise => from \in BeforeRaise
  PROVE  NoNewTry
<1>1. OthersStay(a)
  BY DEF OthersStay
<1> QED BY <1>1, MoveNoNewTry

LEMMA HandleTries ==
  ASSUME TypeInv, NEW a \in Actor, Handle(a)
  PROVE  RowStays \/ \E s \in Step : RowEnqueued(s) \/ RowTaken(a, s)
<1>1. /\ item[a] \in Step /\ Target \in Step
      /\ item \in [Actor -> Step] /\ local \in [Actor -> Locals]
  BY TargetIsStep DEF TypeInv, ThreadsOK
<1>2. /\ {"start", "mark", "run"} \subseteq BeforeRaise
      /\ {"mark", "refresh", "ask_row", "deny_session", "deny_step", "ask", "ask_step",
          "ask_session", "task_step", "task_session", "invoked", "run", "start"}
           \subseteq Working
      /\ {"ask_step", "ask_session", "refresh", "task_step", "task_session", "ask_row",
          "deny_session", "deny_step", "ask"} \cap BeforeRaise = {}
      /\ {"lease", "scan", "resume", "pick"} \cap Working = {}
  BY DEF RowInHand, BeforeRaise, Working
<1>3. ASSUME NEW from \in Working, NEW to, to \in BeforeRaise => from \in BeforeRaise,
             Move(a, from, to), UNCHANGED <<row, lapses, item, local>>
      PROVE  RowStays
  BY <1>3, MoveOn DEF RowStays
<1>4. CASE Lease(a)
  <2>1. CASE Eligible(item[a])
    <3>1. /\ local' = [local EXCEPT ![a] = [@ EXCEPT !.att = NextAttempt(item[a])]]
          /\ TakeRow(a, item[a]) /\ Move(a, "lease", "start")
      BY <1>4, <2>1 DEF Lease
    <3>2. /\ local'[a].att = NextAttempt(item[a])
          /\ \A b \in Actor : b # a => local'[b] = local[b]
      BY <1>1, <3>1 DEF Locals
    <3> QED BY <1>1, <2>1, <3>1, <3>2 DEF TakeRow, RowTaken, Move, outside
  <2>2. CASE ~Eligible(item[a])
    <3>1. Move(a, "lease", "resume") /\ UNCHANGED <<row, lapses, item, local>>
      BY <1>4, <2>2 DEF Lease, ledgerVars, outside
    <3> QED BY <1>2, <3>1, MoveAway DEF RowStays, OthersStay
  <2> QED BY <2>1, <2>2
<1>5. CASE Pick(a)
  <2>1. UNCHANGED <<row, lapses, local>>
    BY <1>5 DEF Pick, PickOldest, ledgerVars, outside
  <2>2. /\ \E to \in {"lease", "scan"} : Move(a, "pick", to)
        /\ OthersStay(a)
    BY <1>1, <1>5, <2>1 DEF Pick, PickOldest, OthersStay
  <2> QED BY <1>2, <2>1, <2>2, MoveAway DEF RowStays
<1>6. CASE Start(a) \/ DenySession(a) \/ AskSession(a) \/ TaskSession(a)
  BY <1>2, <1>3, <1>6
  DEF Start, DenySession, AskSession, TaskSession, SessionWrite, outside
<1>7. CASE Prepare(a) \/ DenyStep(a) \/ SkipMemory(a) \/ TaskStep(a)
  BY <1>2, <1>3, <1>7 DEF Prepare, DenyStep, SkipMemory, TaskStep, StepWrite, outside
<1>8. CASE Policy(a)
  <2>1. verdict \in {"allow", "approval", "deny"}
    BY RuntimeAssumption DEF TypeInv, OutsideOK
  <2>2. \E to \in {"refresh", "deny_step", "ask"} :
          StepWrite(a, "run", item[a], "completed", to)
    BY <1>8, <2>1 DEF Policy
  <2> QED BY <1>2, <1>3, <2>2 DEF StepWrite, outside
<1>9. CASE Mark(a) \/ Ask(a) \/ AskStep(a) \/ CreateTask(a) \/ Invoke(a)
  BY <1>2, <1>3, <1>9 DEF Mark, Ask, AskStep, CreateTask, Invoke, ledgerVars, outside
<1>10. CASE AskRow(a)
  <2>1. Move(a, "ask_row", "refresh") /\ UNCHANGED <<lapses, item, local>>
    BY <1>10 DEF AskRow, outside
  <2>2. NoNewTry
    BY <1>2, <2>1, MoveOn
  <2> QED BY <1>1, <1>10, <2>1, <2>2 DEF AskRow, RowEnqueued
<1>11. CASE FinishEffect(a)
  <2>1. Move(a, "invoked", "refresh") /\ UNCHANGED <<row, lapses, item>>
    BY <1>11 DEF FinishEffect, outside
  <2>2. OthersStay(a)
    BY <1>1, <1>11 DEF FinishEffect, OthersStay
  <2> QED BY <1>2, <2>1, <2>2, MoveNoNewTry DEF RowStays
<1> QED
  BY <1>4, <1>5, <1>6, <1>7, <1>8, <1>9, <1>10, <1>11 DEF Handle

LEMMA RecoverTries ==
  ASSUME TypeInv, NEW a \in Actor, Recover(a) \/ Respond(a)
  PROVE  RowStays \/ \E s \in Step : RowClosed(a, s) \/ RowRetried(a, s)
<1>1. /\ item[a] \in Step /\ pc \in [Actor -> Label]
      /\ item \in [Actor -> Step] /\ local \in [Actor -> Locals]
  BY DEF TypeInv, ThreadsOK
<1>2. /\ {"run", "invoked"} \subseteq BeforeRaise
      /\ {"run", "invoked", "retry_step", "fail_step"} \subseteq Working
      /\ {"retry_step", "retry_session", "resume", "fail_step", "fail_session", "idle",
          "approve_session", "pick", "reject_session", "return_session", "next"}
           \cap BeforeRaise = {}
      /\ {"retry_session", "resume", "fail_session", "idle", "approve_session", "pick",
          "reject_session", "return_session", "next"} \cap Working = {}
  BY DEF RowInHand, BeforeRaise, Working
<1>3. ASSUME NEW from, NEW to, to \notin Working,
             Move(a, from, to), OthersStay(a), UNCHANGED <<row, lapses>>
      PROVE  RowStays
  BY <1>3, MoveAway DEF RowStays
<1>4. CASE RetrySession(a) \/ ApproveSession(a) \/ RejectSession(a) \/ ReturnSession(a)
  BY <1>2, <1>3, <1>4
  DEF RetrySession, ApproveSession, RejectSession, ReturnSession, SessionWrite, outside,
      OthersStay
<1>5. CASE ApproveStep(a) \/ RejectStep(a) \/ ReturnStep(a)
  BY <1>2, <1>3, <1>5
  DEF ApproveStep, RejectStep, ReturnStep, StepWrite, outside, OthersStay
<1>6. CASE RetryStep(a) \/ FailStep(a)
  BY <1>2, <1>3, <1>6 DEF RetryStep, FailStep, outside, OthersStay
<1>7. CASE FailSession(a)
  <2>1. OthersStay(a)
    BY <1>1, <1>7 DEF FailSession, OthersStay
  <2> QED BY <1>2, <1>3, <1>7, <2>1 DEF FailSession, outside
<1>8. ASSUME NEW to \in {"retry_step", "fail_step"}, Raises(a), Move(a, pc[a], to),
             UNCHANGED <<item, local>>
      PROVE  /\ WorksOn(a, item[a]) /\ NoNewTry
             /\ pc[a] \in BeforeRaise /\ pc'[a] \notin BeforeRaise
  <2>1. pc[a] \in {"run", "invoked"} /\ pc'[a] = to
    BY <1>1, <1>8 DEF Raises, Move
  <2>2. NoNewTry
    BY <1>2, <1>8, <2>1, MoveOn
  <2> QED BY <1>2, <2>1, <2>2 DEF WorksOn
<1>9. CASE RetryItem(a)
  <2>1. /\ WorksOn(a, item[a]) /\ NoNewTry
        /\ pc[a] \in BeforeRaise /\ pc'[a] \notin BeforeRaise
    BY <1>8, <1>9 DEF RetryItem
  <2>2. Trying(a, item[a])
    BY <1>9, <2>1 DEF RetryItem, Trying
  <2>3. \A s \in Step : ~Trying(a, s)'
    BY <2>1 DEF Trying
  <2> QED BY <1>1, <1>9, <2>1, <2>2, <2>3 DEF RetryItem, RowRetried, outside
<1>10. CASE FailItem(a)
  BY <1>1, <1>8, <1>10 DEF FailItem, RowClosed, outside
<1> QED BY <1>4, <1>5, <1>6, <1>7, <1>9, <1>10 DEF Recover, Respond

LEMMA ContinueTries ==
  ASSUME TypeInv, NEW a \in Actor, Continue(a)
  PROVE  RowStays \/ \E s \in Step : RowEnqueued(s) \/ RowClosed(a, s)
<1>1. /\ item[a] \in Step /\ pc \in [Actor -> Label]
      /\ item \in [Actor -> Step] /\ local \in [Actor -> Locals]
      /\ pc[a] \in InLoop => local[a].stack # <<>>
  BY DEF TypeInv, ThreadsOK
<1>2. /\ {"refresh", "close"} \subseteq Working \ BeforeRaise
      /\ {"resume", "next", "next_session", "drain", "scan", "filter", "enqueue", "items",
          "lease", "idle", "after", "pick"} \cap Working = {}
  BY DEF RowInHand, BeforeRaise, Working
<1>3. ASSUME NEW from, NEW to, to \notin Working,
             Move(a, from, to), OthersStay(a), UNCHANGED <<row, lapses>>
      PROVE  RowStays
  BY <1>3, MoveAway DEF RowStays
<1>4. ASSUME NEW from, Leave(a, from), UNCHANGED <<row, lapses>> PROVE RowStays
  <2>1. Move(a, from, "resume") /\ OthersStay(a)
    BY <1>1, <1>4 DEF Leave, OthersStay
  <2> QED BY <1>2, <1>3, <1>4, <2>1
<1>5. ASSUME NEW from, NEW to \in {"scan", "after"}, PickOldest(a, from, to) PROVE RowStays
  <2>1. OthersStay(a) /\ UNCHANGED <<row, lapses>>
    BY <1>1, <1>5 DEF PickOldest, OthersStay, ledgerVars, outside
  <2>2. \E place \in {"lease", "scan", "after"} : Move(a, from, place)
    BY <1>5 DEF PickOldest
  <2> QED BY <1>2, <1>3, <2>1, <2>2
<1>6. CASE Refresh(a)
  <2>1. Move(a, "refresh", "close") /\ UNCHANGED <<row, lapses, item>>
    BY <1>6 DEF Refresh, ledgerVars, outside
  <2>2. OthersStay(a)
    BY <1>1, <1>6 DEF Refresh, OthersStay
  <2> QED BY <1>2, <2>1, <2>2, MoveNoNewTry DEF RowStays
<1>7. CASE Close(a)
  <2>1. PICK to \in {"resume", "next"} : Move(a, "close", to)
    BY <1>7 DEF Close
  <2>2. CompleteRow(item[a]) /\ UNCHANGED <<lapses, item, local>>
    BY <1>7 DEF Close, outside
  <2>3. WorksOn(a, item[a])
    BY <1>1, <1>2, <2>1 DEF Move, WorksOn
  <2>4. NoNewTry
    BY <1>2, <2>1, <2>2, MoveAway DEF OthersStay
  <2> QED BY <1>1, <2>2, <2>3, <2>4 DEF RowClosed
<1>8. CASE ContinueAfter(a) \/ Scan(a) \/ EnqueueAll(a) \/ EnqueueFirst(a) \/ MissingReady(a)
           \/ ResumeWorker(a)
  <2>1. OthersStay(a)
    BY <1>1, <1>8
    DEF ContinueAfter, Scan, EnqueueAll, EnqueueFirst, MissingReady, ResumeWorker, OthersStay
  <2>2. UNCHANGED <<row, lapses>>
    BY <1>8
    DEF ContinueAfter, Scan, EnqueueAll, EnqueueFirst, MissingReady, ResumeWorker, ledgerVars,
        outside
  <2>3. \E from : \E to \in {"next_session", "filter", "enqueue", "after", "idle"} :
          Move(a, from, to)
    BY <1>8 DEF ContinueAfter, Scan, EnqueueAll, EnqueueFirst, MissingReady, ResumeWorker
  <2> QED BY <1>2, <1>3, <2>1, <2>2, <2>3
<1>9. CASE CheckPaused(a)
  BY <1>2, <1>3, <1>4, <1>9 DEF CheckPaused, Keep, OthersStay, ledgerVars, outside
<1>10. CASE Drain(a) \/ ResumeOuter(a)
  BY <1>5, <1>10 DEF Drain, ResumeOuter
<1>11. CASE NothingReady(a)
  BY <1>4, <1>11 DEF NothingReady, outside
<1>12. CASE EnqueueOne(a)
  <2>1. PICK s \in Step : EnqueueRow(s)
    BY <1>12 DEF EnqueueOne
  <2>2. UNCHANGED lapses
    BY <1>12 DEF EnqueueOne, outside
  <2>3. \E to \in {"enqueue", "lease", "items", "resume"} : Move(a, "enqueue", to)
    BY <1>12, Zenon DEF EnqueueOne
  <2>4. /\ item' = item \/ \E i \in Step : item' = [item EXCEPT ![a] = i]
        /\ \E l : local' = [local EXCEPT ![a] = l]
    BY <1>12, Zenon DEF EnqueueOne
  <2>5. OthersStay(a)
    BY <1>1, <2>4 DEF OthersStay
  <2>6. NoNewTry
    BY <1>2, <2>3, <2>5, MoveAway
  <2> QED BY <2>1, <2>2, <2>6 DEF RowEnqueued
<1>13. CASE RunNextItem(a)
  <2>1. OthersStay(a)
    BY <1>1, <1>13 DEF RunNextItem, Leave, OthersStay
  <2>2. UNCHANGED <<row, lapses>>
    BY <1>13 DEF RunNextItem, ledgerVars, outside
  <2>3. \E to \in {"lease", "resume"} : Move(a, "items", to)
    BY <1>13 DEF RunNextItem, Leave
  <2> QED BY <1>2, <1>3, <2>1, <2>2, <2>3
<1>14. CASE ResumeInner(a)
  <2>1. UNCHANGED <<row, lapses>>
    BY <1>14 DEF ResumeInner, ledgerVars, outside
  <2>2. CASE Leave(a, "resume")
    BY <1>4, <2>1, <2>2
  <2>3. CASE Move(a, "resume", Top(a).loop) /\ Keep(a)
    <3>1. Top(a).loop \in {"drain", "items", "enqueue"}
      BY <1>14, StackType DEF TypeInv, ResumeInner, Outer, Frame
    <3> QED BY <1>2, <1>3, <2>1, <2>3, <3>1 DEF Keep, OthersStay
  <2> QED BY <1>14, <2>2, <2>3 DEF ResumeInner
<1>15. CASE After(a)
  <2>1. \E to \in {"pick", "resume", "idle"} : Move(a, "after", to)
    BY <1>15 DEF After, EndCall
  <2>2. OthersStay(a)
    BY <1>1, <1>15 DEF After, EndCall, OthersStay
  <2> QED BY <1>2, <1>3, <1>15, <2>1, <2>2 DEF After, ledgerVars, outside
<1> QED
  BY <1>6, <1>7, <1>8, <1>9, <1>10, <1>11, <1>12, <1>13, <1>14, <1>15 DEF Continue

\* Every step of the runtime as the rows and those who may retry them see it.
LEMMA TryKinds ==
  ASSUME TypeInv, [Next]_vars
  PROVE  \/ RowStays
         \/ \E s \in Step : RowEnqueued(s) \/ RowElapses(s)
         \/ \E a \in Actor, s \in Step : RowTaken(a, s) \/ RowClosed(a, s) \/ RowRetried(a, s)
<1>1. /\ {"idle", "approve_step", "reject_step", "return_step"} \cap Working = {}
      /\ "idle" \notin BeforeRaise
  BY DEF RowInHand, BeforeRaise, Working
<1>2. item \in [Actor -> Step] /\ local \in [Actor -> Locals]
  BY DEF TypeInv, ThreadsOK
<1>3. ASSUME NEW a \in Actor, Thread(a)
      PROVE  \/ RowStays
             \/ \E s \in Step : RowEnqueued(s)
             \/ \E s \in Step : RowTaken(a, s) \/ RowClosed(a, s) \/ RowRetried(a, s)
  BY <1>3, HandleTries, RecoverTries, ContinueTries DEF Thread
<1>4. ASSUME NEW a \in Actor, LeaseNext(a) PROVE \E s \in Step : RowTaken(a, s)
  <2>1. PICK s \in Step :
          /\ Oldest(s) /\ TakeRow(a, s)
          /\ local' = [local EXCEPT ![a] = [FreshLocals EXCEPT !.att = NextAttempt(s)]]
    BY <1>4 DEF LeaseNext
  <2>2. /\ local'[a].att = NextAttempt(s)
        /\ \A b \in Actor : b # a => local'[b] = local[b]
    BY <1>2, <2>1 DEF FreshLocals
  <2> QED BY <1>4, <2>1, <2>2 DEF LeaseNext, TakeRow, Oldest, RowTaken, Move, outside
<1>5. ASSUME NEW a \in Actor, Approve(a) \/ Reject(a) \/ ReturnTask(a) PROVE RowStays
  <2>1. /\ \E to \in {"approve_step", "reject_step", "return_step"} : Move(a, "idle", to)
        /\ UNCHANGED <<row, lapses>>
    BY <1>5 DEF Approve, Reject, ReturnTask, DecideRequest, ledgerVars
  <2>2. OthersStay(a)
    BY <1>2, <1>5 DEF Approve, Reject, ReturnTask, DecideRequest, OthersStay
  <2> QED BY <1>1, <2>1, <2>2, MoveAway DEF RowStays
<1>6. ASSUME UNCHANGED <<pc, item, local>> PROVE NoNewTry
  BY <1>6 DEF NoNewTry, NoNewTryOf, Trying, WorksOn
<1>7. ASSUME NEW s \in Step, LeaseExpires(s) \/ BackoffElapses(s) PROVE RowElapses(s)
  BY <1>6, <1>7 DEF RowElapses, LeaseExpires, BackoffElapses, outside
<1>8. CASE ExpireApproval \/ UNCHANGED vars
  BY <1>6, <1>8 DEF ExpireApproval, RowStays, ledgerVars, vars, outside
<1>9. ASSUME NEW dead, Crash(dead) PROVE RowStays
  <2>1. UNCHANGED <<row, lapses, item>>
    BY <1>9 DEF Crash, ledgerVars
  <2>2. \A b \in Actor : pc'[b] # "idle" => pc'[b] = pc[b] /\ local'[b] = local[b]
    BY <1>9 DEF Crash
  <2>3. ASSUME NEW b \in Actor, NEW s \in Step, Trying(b, s)' PROVE Trying(b, s)
    BY <1>1, <2>1, <2>2, <2>3 DEF Trying
  <2>4. ASSUME NEW b \in Actor, NEW s \in Step, WorksOn(b, s)' PROVE WorksOn(b, s)
    BY <1>1, <2>1, <2>2, <2>4 DEF WorksOn
  <2> QED BY <2>1, <2>3, <2>4 DEF RowStays, NoNewTry, NoNewTryOf
<1>10. CASE (\E w \in Worker : Crash({w})) \/ Crash(Inline)
  BY <1>9, <1>10
<1>11. CASE \E a \in Actor :
              LeaseNext(a) \/ Thread(a) \/ Approve(a) \/ Reject(a) \/ ReturnTask(a)
  BY <1>3, <1>4, <1>5, <1>11
<1>12. CASE Clock
  BY <1>7, <1>12 DEF Clock
<1> QED BY <1>8, <1>10, <1>11, <1>12 DEF Next

\* Who writes the attempts of a step: a thread that was handed its row, and the pause
\* for an approval, which makes a first attempt of none.
AttemptWritten ==
  \/ attempts' = attempts
  \/ \E a \in Actor : /\ pc[a] \in Working
                      /\ attempts' = [attempts EXCEPT ![item[a]] = local[a].att]
  \/ attempts' = [attempts EXCEPT ![Target] = IF @ = 0 THEN 1 ELSE @]

LEMMA AttemptWriters ==
  ASSUME [Next]_vars PROVE AttemptWritten
<1>1. {"mark", "retry_step", "fail_step"} \subseteq Working
  BY DEF Working, RowInHand
<1>2. ASSUME NEW a \in Actor, Handle(a) PROVE AttemptWritten
  <2>1. CASE Mark(a)
    BY <1>1, <2>1 DEF Mark, Move, AttemptWritten
  <2>2. CASE AskStep(a)
    BY <2>2 DEF AskStep, AttemptWritten
  <2>3. CASE \/ Start(a) \/ Prepare(a) \/ Policy(a) \/ DenyStep(a) \/ DenySession(a)
             \/ AskSession(a) \/ SkipMemory(a) \/ TaskStep(a) \/ TaskSession(a)
    BY <2>3 DEF Start, Prepare, Policy, DenyStep, DenySession, AskSession, SkipMemory, TaskStep,
         TaskSession, StepWrite, SessionWrite, AttemptWritten
  <2>4. CASE Lease(a) \/ Pick(a) \/ Ask(a) \/ AskRow(a) \/ Invoke(a) \/ FinishEffect(a)
             \/ CreateTask(a)
    BY <2>4 DEF Lease, TakeRow, Pick, PickOldest, Ask, AskRow, Invoke, FinishEffect, CreateTask,
         ledgerVars, AttemptWritten
  <2> QED BY <1>2, <2>1, <2>2, <2>3, <2>4 DEF Handle
<1>3. ASSUME NEW a \in Actor, Recover(a) \/ Respond(a) PROVE AttemptWritten
  <2>1. CASE RetryStep(a) \/ FailStep(a)
    BY <1>1, <2>1 DEF RetryStep, FailStep, Move, AttemptWritten
  <2>2. CASE RetryItem(a) \/ FailItem(a) \/ FailSession(a)
    BY <2>2 DEF RetryItem, FailItem, FailSession, AttemptWritten
  <2>3. CASE RetrySession(a) \/ Respond(a)
    BY <2>3 DEF RetrySession, Respond, ApproveStep, ApproveSession, RejectStep, RejectSession,
         ReturnStep, ReturnSession, StepWrite, SessionWrite, AttemptWritten
  <2> QED BY <1>3, <2>1, <2>2, <2>3 DEF Recover
<1>4. ASSUME NEW a \in Actor, Continue(a) PROVE AttemptWritten
  <2>1. CASE Refresh(a) \/ ContinueAfter(a) \/ CheckPaused(a) \/ Drain(a) \/ Scan(a)
             \/ EnqueueAll(a) \/ EnqueueFirst(a) \/ MissingReady(a)
    BY <2>1 DEF Refresh, ContinueAfter, CheckPaused, Drain, PickOldest, Scan, EnqueueAll,
         EnqueueFirst, MissingReady, ledgerVars, AttemptWritten
  <2>2. CASE RunNextItem(a) \/ ResumeWorker(a) \/ ResumeInner(a) \/ ResumeOuter(a) \/ After(a)
    BY <2>2 DEF RunNextItem, ResumeWorker, ResumeInner, ResumeOuter, PickOldest, After,
         ledgerVars, AttemptWritten
  <2>3. CASE Close(a) \/ NothingReady(a) \/ EnqueueOne(a)
    BY <2>3 DEF Close, NothingReady, EnqueueOne, AttemptWritten
  <2> QED BY <1>4, <2>1, <2>2, <2>3 DEF Continue
<1>5. ASSUME NEW a \in Actor, LeaseNext(a) \/ Approve(a) \/ Reject(a) \/ ReturnTask(a)
      PROVE  AttemptWritten
  BY <1>5 DEF LeaseNext, TakeRow, Approve, Reject, ReturnTask, DecideRequest, ledgerVars,
       AttemptWritten
<1>6. ASSUME Clock \/ ExpireApproval \/ UNCHANGED vars PROVE AttemptWritten
  BY <1>6 DEF Clock, LeaseExpires, BackoffElapses, ExpireApproval, ledgerVars, vars,
       AttemptWritten
<1>7. ASSUME NEW dead, Crash(dead) PROVE AttemptWritten
  BY <1>7 DEF Crash, ledgerVars, AttemptWritten
<1> QED BY <1>2, <1>3, <1>4, <1>5, <1>6, <1>7 DEF Next, Thread

-----------------------------------------------------------------------------
\* The next lease of the row may be another attempt, or is not the last one.
MayBeTried(s) ==
  /\ \/ row[s].state \in {"absent", "queued"}
     \/ row[s].state = "leased" /\ row[s].expired
  /\ \/ row[s].attempt = 0
     \/ row[s].failedBefore
     \/ row[s].attempt < MaxAttempts[s]

Claim(s) == IF MayBeTried(s) THEN 1 ELSE 0

\* Attempts below the limit are kept for whoever may still try.
Base(s) == IF row[s].attempt < MaxAttempts[s] THEN MaxAttempts[s] - 1 ELSE row[s].attempt

\* A row that was never inserted has no attempt, and nobody works on its step.
Untouched(s) ==
  row[s].state = "absent" =>
    /\ row[s].attempt = 0 /\ attempts[s] <= 1
    /\ \A a \in Actor : ~WorksOn(a, s)

\* Of the last attempt there is one chance: the row waits for it, or one thread works on
\* the row and may put it back.  Each lapse adds a chance.
AttemptsInv ==
  \A s \in Step :
    /\ Base(s) + Claim(s) + Cardinality(Tries(s)) <= MaxAttempts[s] + lapses
    /\ Untouched(s)

AttemptsStep(t) ==
  /\ Base(t)' + Claim(t)' + Cardinality(Tries(t)') <= MaxAttempts[t] + lapses'
  /\ Untouched(t)'

LEMMA TriesFinite ==
  ASSUME NEW t \in Step
  PROVE  /\ IsFiniteSet(Tries(t)) /\ Cardinality(Tries(t)) \in Nat
         /\ IsFiniteSet(Tries(t)') /\ Cardinality(Tries(t)') \in Nat
<1>1. Tries(t) \subseteq Actor /\ Tries(t)' \subseteq Actor
  BY DEF Tries
<1> QED BY <1>1, LedgerAssumption, FS_Subset, FS_CardinalityType

LEMMA OneMore ==
  ASSUME NEW S, IsFiniteSet(S), NEW x
  PROVE  IsFiniteSet(S \cup {x}) /\ Cardinality(S \cup {x}) <= Cardinality(S) + 1
<1>1. Cardinality(S) \in Nat
  BY FS_CardinalityType
<1>2. CASE x \in S
  <2>1. S \cup {x} = S
    BY <1>2
  <2>2. IsFiniteSet(S \cup {x}) /\ Cardinality(S \cup {x}) = Cardinality(S)
    BY <2>1, Zenon
  <2> QED BY <1>1, <2>2
<1>3. CASE x \notin S
  <2>1. IsFiniteSet(S \cup {x}) /\ Cardinality(S \cup {x}) = Cardinality(S) + 1
    BY <1>3, FS_AddElement
  <2> QED BY <1>1, <2>1
<1> QED BY <1>2, <1>3

LEMMA FewerTries ==
  ASSUME NEW t \in Step, NoNewTryOf(t)
  PROVE  Cardinality(Tries(t)') <= Cardinality(Tries(t))
<1>1. Tries(t)' \subseteq Tries(t)
  BY DEF NoNewTryOf, Tries
<1> QED BY <1>1, TriesFinite, FS_Subset

LEMMA AttemptNumbers ==
  ASSUME TypeInv, NEW t \in Step
  PROVE  /\ row[t] \in Row /\ row[t].attempt \in Nat /\ lapses \in Nat
         /\ MaxAttempts[t] \in Nat /\ MaxAttempts[t] >= 1
         /\ Base(t) \in Nat /\ Claim(t) \in 0..1
<1>1. row[t] \in Row /\ row[t].attempt \in Nat /\ lapses \in Nat
  BY DEF TypeInv, LedgerTypeOK, OutsideOK, Row
<1>2. MaxAttempts[t] \in Nat /\ MaxAttempts[t] >= 1
  BY RuntimeAssumption
<1> QED BY <1>1, <1>2 DEF Base, Claim

\* A step without a row stays untouched until it is enqueued.
LEMMA AbsentStaysUntouched ==
  ASSUME TypeInv, AttemptsInv, [Next]_vars, NEW t \in Step, NoNewTryOf(t),
         row[t].state = "absent"
  PROVE  attempts'[t] <= 1 /\ \A a \in Actor : ~WorksOn(a, t)'
<1>1. /\ attempts[t] <= 1 /\ \A a \in Actor : ~WorksOn(a, t)
  BY DEF AttemptsInv, Untouched
<1>2. attempts \in [Step -> Nat] /\ item \in [Actor -> Step] /\ Target \in Step
  BY TargetIsStep DEF TypeInv, LedgerTypeOK, ThreadsOK
<1>3. AttemptWritten
  BY AttemptWriters
<1>4. ASSUME NEW a \in Actor, pc[a] \in Working,
             attempts' = [attempts EXCEPT ![item[a]] = local[a].att]
      PROVE  attempts'[t] = attempts[t]
  <2>1. item[a] # t
    BY <1>1, <1>4 DEF WorksOn
  <2> QED BY <1>2, <1>4, <2>1
<1>5. ASSUME attempts' = [attempts EXCEPT ![Target] = IF @ = 0 THEN 1 ELSE @]
      PROVE  attempts'[t] <= 1
  BY <1>1, <1>2, <1>5
<1>6. attempts'[t] <= 1
  BY <1>1, <1>3, <1>4, <1>5 DEF AttemptWritten
<1> QED BY <1>1, <1>6 DEF NoNewTryOf

\* A step that leaves the row of t as it is.
LEMMA AttemptsRest ==
  ASSUME TypeInv, TypeInv', AttemptsInv, [Next]_vars, NEW t \in Step, NoNewTryOf(t),
         row'[t].state = row[t].state, row'[t].attempt = row[t].attempt,
         row'[t].expired = row[t].expired,
         row'[t].failedBefore = row[t].failedBefore, lapses' >= lapses
  PROVE  AttemptsStep(t)
<1>1. /\ Base(t) \in Nat /\ Claim(t) \in 0..1 /\ lapses \in Nat /\ lapses' \in Nat
      /\ MaxAttempts[t] \in Nat
  BY AttemptNumbers DEF TypeInv, OutsideOK
<1>2. Base(t)' = Base(t) /\ Claim(t)' = Claim(t)
  BY DEF Base, Claim, MayBeTried
<1>3. Cardinality(Tries(t)') <= Cardinality(Tries(t))
  BY FewerTries
<1>4. Base(t) + Claim(t) + Cardinality(Tries(t)) <= MaxAttempts[t] + lapses
  BY DEF AttemptsInv
<1>5. Base(t)' + Claim(t)' + Cardinality(Tries(t)') <= MaxAttempts[t] + lapses'
  BY <1>1, <1>2, <1>3, <1>4, TriesFinite
<1>6. Untouched(t)'
  BY AbsentStaysUntouched DEF AttemptsInv, Untouched
<1> QED BY <1>5, <1>6 DEF AttemptsStep

LEMMA AttemptsOfEnqueueing ==
  ASSUME TypeInv, TypeInv', AttemptsInv, NEW s \in Step, RowEnqueued(s),
         row[s].state = "absent"
  PROVE  AttemptsStep(s)
<1>1. /\ Base(s)' \in Nat /\ Claim(s)' \in 0..1 /\ lapses \in Nat /\ row'[s].attempt \in Nat
      /\ MaxAttempts[s] \in Nat /\ MaxAttempts[s] >= 1 /\ lapses' = lapses
  BY AttemptNumbers DEF TypeInv, LedgerTypeOK, OutsideOK, Row, Base, Claim, RowEnqueued
<1>2. row[s].attempt = 0 /\ attempts[s] <= 1 /\ attempts[s] \in Nat
  BY DEF AttemptsInv, Untouched, TypeInv, LedgerTypeOK
<1>3. Base(s) = MaxAttempts[s] - 1 /\ Claim(s) = 1
  BY <1>1, <1>2 DEF Base, Claim, MayBeTried
<1>4. PICK n \in Nat :
        BecomesRow(s, [AbsentRow EXCEPT !.state = "queued", !.attempt = attempts[s], !.born = n])
  <2>1. LedgerTypeOK /\ EnqueueRow(s)
    BY DEF TypeInv, RowEnqueued
  <2> QED BY <2>1, EnqueueRowEffect
<1>5. row'[s].state = "queued" /\ row'[s].attempt = attempts[s] /\ ~row'[s].failedBefore
  BY <1>4 DEF BecomesRow, AbsentRow
<1>6. Base(s)' + Claim(s)' <= MaxAttempts[s]
  <2>1. CASE row'[s].attempt < MaxAttempts[s]
    BY <1>1, <2>1 DEF Base
  <2>2. CASE ~(row'[s].attempt < MaxAttempts[s])
    <3>1. row'[s].attempt = 1 /\ MaxAttempts[s] = 1
      BY <1>1, <1>2, <1>5, <2>2
    <3>2. Base(s)' = 1 /\ Claim(s)' = 0
      BY <1>5, <2>2, <3>1 DEF Base, Claim, MayBeTried
    <3> QED BY <3>1, <3>2
  <2> QED BY <2>1, <2>2
<1>7. Base(s) + Claim(s) + Cardinality(Tries(s)) <= MaxAttempts[s] + lapses
  BY DEF AttemptsInv
<1>8. Cardinality(Tries(s)') <= Cardinality(Tries(s))
  BY FewerTries DEF RowEnqueued, NoNewTry
<1>9. Base(s)' + Claim(s)' + Cardinality(Tries(s)') <= MaxAttempts[s] + lapses'
  BY <1>1, <1>3, <1>6, <1>7, <1>8, TriesFinite
<1> QED BY <1>5, <1>9 DEF AttemptsStep, Untouched

LEMMA AttemptsOfLeasing ==
  ASSUME TypeInv, AttemptsInv, NEW a \in Actor, NEW s \in Step, RowTaken(a, s)
  PROVE  AttemptsStep(s)
<1>0. LedgerTypeOK
  BY DEF TypeInv
<1>1. /\ row[s] \in Row /\ row[s].attempt \in Nat /\ lapses \in Nat
      /\ MaxAttempts[s] \in Nat /\ MaxAttempts[s] >= 1
      /\ Base(s) \in Nat /\ Claim(s) \in 0..1
      /\ pc \in [Actor -> Label] /\ item \in [Actor -> Step]
  BY AttemptNumbers DEF TypeInv, ThreadsOK
<1>2. BecomesRow(s, [row[s] EXCEPT !.state = "leased", !.owner = a,
                       !.expired = FALSE, !.attempt = NextAttempt(s)])
  BY <1>0, LeaseRowEffect DEF RowTaken
<1>3. row'[s].state = "leased" /\ ~row'[s].expired /\ row'[s].attempt = NextAttempt(s)
  BY <1>1, <1>2 DEF BecomesRow, Row
<1>4. Claim(s)' = 0
  BY <1>3 DEF Claim, MayBeTried
<1>5. /\ NextAttempt(s) \in Nat /\ NextAttempt(s) >= row[s].attempt
      /\ NextAttempt(s) <= row[s].attempt + 1 /\ NextAttempt(s) >= 1
      /\ NextAttempt(s) # row[s].attempt => row[s].attempt = 0 \/ row[s].failedBefore
  BY <1>0, <1>1, NextAttemptBounds DEF NextAttempt
<1>6. ASSUME NEW b \in Actor, b # a, Trying(b, s)' PROVE Trying(b, s)
  BY <1>1, <1>6 DEF Trying, RowTaken
<1>7. Trying(a, s)' => NextAttempt(s) < MaxAttempts[s]
  BY DEF Trying, RowTaken
<1>8. row[s].state = "queued" \/ (row[s].state = "leased" /\ row[s].expired)
  BY DEF RowTaken, Eligible
<1>9. Base(s) + Claim(s) + Cardinality(Tries(s)) <= MaxAttempts[s] + lapses /\ lapses' = lapses
  BY DEF AttemptsInv, RowTaken
<1>10. CASE NextAttempt(s) < MaxAttempts[s]
  <2>1. Base(s)' = Base(s)
    BY <1>1, <1>3, <1>5, <1>10 DEF Base
  <2>2. Claim(s) = 1
    BY <1>1, <1>5, <1>8, <1>10 DEF Claim, MayBeTried
  <2>3. Tries(s)' \subseteq Tries(s) \cup {a}
    BY <1>6 DEF Tries
  <2>4. /\ IsFiniteSet(Tries(s) \cup {a})
        /\ Cardinality(Tries(s) \cup {a}) <= Cardinality(Tries(s)) + 1
    BY TriesFinite, OneMore
  <2>5. Cardinality(Tries(s)') <= Cardinality(Tries(s) \cup {a})
    BY <2>3, <2>4, FS_Subset
  <2>6. Cardinality(Tries(s) \cup {a}) \in Nat
    BY <2>4, FS_CardinalityType
  <2> QED BY <1>1, <1>3, <1>4, <1>9, <2>1, <2>2, <2>4, <2>5, <2>6, TriesFinite DEF AttemptsStep, Untouched
<1>11. CASE ~(NextAttempt(s) < MaxAttempts[s])
  <2>1. Tries(s)' \subseteq Tries(s)
    BY <1>6, <1>7, <1>11 DEF Tries
  <2>2. Cardinality(Tries(s)') <= Cardinality(Tries(s))
    BY <2>1, TriesFinite, FS_Subset
  <2>3. Base(s)' = NextAttempt(s)
    BY <1>3, <1>11 DEF Base
  <2>4. NextAttempt(s) <= Base(s) + Claim(s)
    <3>1. CASE NextAttempt(s) = row[s].attempt
      BY <1>1, <1>11, <3>1 DEF Base
    <3>2. CASE NextAttempt(s) # row[s].attempt
      <4>1. Claim(s) = 1 /\ NextAttempt(s) = row[s].attempt + 1
        BY <1>1, <1>5, <1>8, <3>2 DEF Claim, MayBeTried
      <4>2. Base(s) >= row[s].attempt
        BY <1>1 DEF Base
      <4> QED BY <1>1, <1>5, <4>1, <4>2
    <3> QED BY <3>1, <3>2
  <2> QED BY <1>1, <1>3, <1>4, <1>5, <1>9, <2>2, <2>3, <2>4, TriesFinite DEF AttemptsStep, Untouched
<1> QED BY <1>10, <1>11

LEMMA AttemptsOfClosing ==
  ASSUME TypeInv, AttemptsInv, NEW a \in Actor, NEW s \in Step, RowClosed(a, s)
  PROVE  AttemptsStep(s)
<1>0. LedgerTypeOK
  BY DEF TypeInv
<1>1. /\ row[s] \in Row /\ row[s].attempt \in Nat /\ lapses \in Nat
      /\ MaxAttempts[s] \in Nat /\ Base(s) \in Nat /\ Claim(s) \in 0..1
  BY AttemptNumbers DEF TypeInv
<1>2. row'[s].state \in {"done", "failed"} /\ row'[s].attempt = row[s].attempt
  <2>1. CASE CompleteRow(s)
    <3>1. BecomesRow(s, [row[s] EXCEPT !.state = "done", !.owner = NoOne,
                           !.expired = FALSE, !.failedBefore = FALSE])
      BY <1>0, <2>1, CompleteRowEffect
    <3> QED BY <1>1, <3>1 DEF BecomesRow, Row
  <2>2. CASE FailRow(s)
    <3>1. BecomesRow(s, [row[s] EXCEPT !.state = "failed", !.owner = NoOne,
                           !.expired = FALSE, !.failedBefore = TRUE])
      BY <1>0, <2>2, FailRowEffect
    <3> QED BY <1>1, <3>1 DEF BecomesRow, Row
  <2> QED BY <2>1, <2>2 DEF RowClosed
<1>3. Base(s)' = Base(s) /\ Claim(s)' = 0
  BY <1>2 DEF Base, Claim, MayBeTried
<1>4. Cardinality(Tries(s)') <= Cardinality(Tries(s)) /\ lapses' = lapses
  BY FewerTries DEF RowClosed, NoNewTry
<1>5. Base(s) + Claim(s) + Cardinality(Tries(s)) <= MaxAttempts[s] + lapses
  BY DEF AttemptsInv
<1>6. Base(s)' + Claim(s)' + Cardinality(Tries(s)') <= MaxAttempts[s] + lapses'
  BY <1>1, <1>3, <1>4, <1>5, TriesFinite
<1> QED BY <1>2, <1>6 DEF AttemptsStep, Untouched

LEMMA AttemptsOfRetrying ==
  ASSUME TypeInv, AttemptsInv, NEW a \in Actor, NEW s \in Step, RowRetried(a, s)
  PROVE  AttemptsStep(s)
<1>0. LedgerTypeOK
  BY DEF TypeInv
<1>1. /\ row[s] \in Row /\ row[s].attempt \in Nat /\ lapses \in Nat
      /\ MaxAttempts[s] \in Nat /\ Base(s) \in Nat /\ Claim(s) \in 0..1
  BY AttemptNumbers DEF TypeInv
<1>2. PICK now \in BOOLEAN : RetryRow(s, a, now)
  BY DEF RowRetried
<1>3. BecomesRow(s, [row[s] EXCEPT !.state = "queued", !.owner = a,
                       !.expired = FALSE, !.failedBefore = TRUE, !.due = now])
  BY <1>0, <1>2, RetryRowEffect
<1>4. row'[s].state = "queued" /\ row'[s].attempt = row[s].attempt
  BY <1>1, <1>3 DEF BecomesRow, Row
<1>5. Base(s)' = Base(s) /\ Claim(s)' \in 0..1
  BY <1>4 DEF Base, Claim
<1>6. Tries(s)' \subseteq Tries(s) \ {a} /\ a \in Tries(s)
  BY DEF RowRetried, NoNewTry, NoNewTryOf, Tries
<1>7. /\ IsFiniteSet(Tries(s) \ {a})
      /\ Cardinality(Tries(s) \ {a}) = Cardinality(Tries(s)) - 1
  BY <1>6, TriesFinite, FS_RemoveElement
<1>8. Cardinality(Tries(s)') <= Cardinality(Tries(s)) - 1
  BY <1>6, <1>7, FS_Subset
<1>9. Base(s) + Claim(s) + Cardinality(Tries(s)) <= MaxAttempts[s] + lapses /\ lapses' = lapses
  BY DEF AttemptsInv, RowRetried
<1>10. Base(s)' + Claim(s)' + Cardinality(Tries(s)') <= MaxAttempts[s] + lapses'
  BY <1>1, <1>5, <1>8, <1>9, TriesFinite
<1> QED BY <1>4, <1>10 DEF AttemptsStep, Untouched

LEMMA AttemptsOfExpiring ==
  ASSUME TypeInv, AttemptsInv, NEW s \in Step, LeaseExpires(s), NoNewTry
  PROVE  AttemptsStep(s)
<1>0. LedgerTypeOK
  BY DEF TypeInv
<1>1. /\ row[s] \in Row /\ row[s].attempt \in Nat /\ lapses \in Nat
      /\ MaxAttempts[s] \in Nat /\ Base(s) \in Nat
  BY AttemptNumbers DEF TypeInv
<1>2. /\ row[s].state = "leased" /\ ~row[s].expired
      /\ BecomesRow(s, [row[s] EXCEPT !.expired = TRUE])
  BY <1>0, ExpireRowEffect DEF LeaseExpires
<1>3. row'[s].state = "leased" /\ row'[s].attempt = row[s].attempt
  BY <1>1, <1>2 DEF BecomesRow, Row
<1>4. Base(s)' = Base(s) /\ Claim(s) = 0 /\ Claim(s)' \in 0..1
  BY <1>2, <1>3 DEF Base, Claim, MayBeTried
<1>5. Cardinality(Tries(s)') <= Cardinality(Tries(s)) /\ lapses' = lapses + 1
  BY FewerTries DEF LeaseExpires, NoNewTry
<1>6. Base(s) + Claim(s) + Cardinality(Tries(s)) <= MaxAttempts[s] + lapses
  BY DEF AttemptsInv
<1>7. Base(s)' + Claim(s)' + Cardinality(Tries(s)') <= MaxAttempts[s] + lapses'
  BY <1>1, <1>4, <1>5, <1>6, TriesFinite
<1> QED BY <1>3, <1>7 DEF AttemptsStep, Untouched

LEMMA NextAttemptsInv == TypeInv /\ AttemptsInv /\ [Next]_vars => AttemptsInv'
<1> SUFFICES ASSUME TypeInv, AttemptsInv, [Next]_vars, NEW t \in Step
             PROVE  AttemptsStep(t)
  BY DEF AttemptsInv, AttemptsStep
<1>0. LedgerTypeOK
  BY DEF TypeInv
<1>1. TypeInv'
  BY NextTypeInv
<1>2. /\ row[t] \in Row /\ lapses \in Nat
      /\ pc \in [Actor -> Label] /\ item \in [Actor -> Step]
  BY DEF TypeInv, LedgerTypeOK, OutsideOK, ThreadsOK
<1>3. ASSUME row'[t] = row[t], lapses' >= lapses, NoNewTry PROVE AttemptsStep(t)
  BY <1>1, <1>3, AttemptsRest DEF NoNewTry
<1>4. CASE RowStays
  BY <1>2, <1>3, <1>4 DEF RowStays
<1>5. ASSUME NEW s \in Step, RowEnqueued(s) PROVE AttemptsStep(t)
  <2>1. CASE t = s /\ row[s].state = "absent"
    BY <1>1, <1>5, <2>1, AttemptsOfEnqueueing
  <2>2. CASE t # s \/ row[s].state # "absent"
    <3>1. row'[t] = row[t]
      BY <1>0, <1>5, <2>2, EnqueueRowEffect DEF RowEnqueued, BecomesRow
    <3> QED BY <1>2, <1>3, <1>5, <3>1 DEF RowEnqueued
  <2> QED BY <2>1, <2>2
<1>6. ASSUME NEW s \in Step, RowElapses(s) PROVE AttemptsStep(t)
  <2>1. CASE LeaseExpires(s)
    <3>1. CASE t = s
      BY <1>6, <2>1, <3>1, AttemptsOfExpiring DEF RowElapses
    <3>2. CASE t # s
      <4>1. BecomesRow(s, [row[s] EXCEPT !.expired = TRUE])
        BY <1>0, <2>1, ExpireRowEffect DEF LeaseExpires
      <4>2. row'[t] = row[t] /\ lapses' >= lapses
        BY <1>2, <2>1, <3>2, <4>1 DEF LeaseExpires, BecomesRow
      <4> QED BY <1>3, <1>6, <4>2 DEF RowElapses
    <3> QED BY <3>1, <3>2
  <2>2. CASE DueRow(s) /\ lapses' = lapses
    <3>1. BecomesRow(s, [row[s] EXCEPT !.due = TRUE])
      BY <1>0, <2>2, DueRowEffect
    <3>2. /\ row'[t].state = row[t].state /\ row'[t].attempt = row[t].attempt
          /\ row'[t].expired = row[t].expired
          /\ row'[t].failedBefore = row[t].failedBefore
      BY <1>2, <3>1 DEF BecomesRow, Row
    <3> QED BY <1>1, <1>2, <1>6, <2>2, <3>2, AttemptsRest DEF RowElapses, NoNewTry
  <2> QED BY <1>6, <2>1, <2>2 DEF RowElapses
<1>7. ASSUME NEW a \in Actor, NEW s \in Step, RowTaken(a, s) PROVE AttemptsStep(t)
  <2>1. CASE t = s
    BY <1>7, <2>1, AttemptsOfLeasing
  <2>2. CASE t # s
    <3>1. BecomesRow(s, [row[s] EXCEPT !.state = "leased", !.owner = a,
                           !.expired = FALSE, !.attempt = NextAttempt(s)])
      BY <1>0, <1>7, LeaseRowEffect DEF RowTaken
    <3>2. row'[t] = row[t] /\ lapses' >= lapses
      BY <1>2, <1>7, <2>2, <3>1 DEF RowTaken, BecomesRow
    <3>3. ASSUME NEW b \in Actor, pc'[b] \in Working \cup BeforeRaise, item'[b] = t
          PROVE  pc'[b] = pc[b] /\ item'[b] = item[b] /\ local'[b] = local[b]
      <4>1. b # a
        BY <1>2, <1>7, <2>2, <3>3 DEF RowTaken
      <4> QED BY <1>2, <1>7, <4>1 DEF RowTaken
    <3>4. NoNewTryOf(t)
      BY <3>3 DEF NoNewTryOf, Trying, WorksOn
    <3> QED BY <1>1, <3>2, <3>4, AttemptsRest
  <2> QED BY <2>1, <2>2
<1>8. ASSUME NEW a \in Actor, NEW s \in Step, RowClosed(a, s) PROVE AttemptsStep(t)
  <2>1. CASE t = s
    BY <1>8, <2>1, AttemptsOfClosing
  <2>2. CASE t # s
    <3>1. row'[t] = row[t]
      BY <1>0, <1>8, <2>2, CompleteRowEffect, FailRowEffect DEF RowClosed, BecomesRow
    <3> QED BY <1>2, <1>3, <1>8, <3>1 DEF RowClosed
  <2> QED BY <2>1, <2>2
<1>9. ASSUME NEW a \in Actor, NEW s \in Step, RowRetried(a, s) PROVE AttemptsStep(t)
  <2>1. CASE t = s
    BY <1>9, <2>1, AttemptsOfRetrying
  <2>2. CASE t # s
    <3>1. PICK now \in BOOLEAN : RetryRow(s, a, now)
      BY <1>9 DEF RowRetried
    <3>2. BecomesRow(s, [row[s] EXCEPT !.state = "queued", !.owner = a,
                           !.expired = FALSE, !.failedBefore = TRUE, !.due = now])
      BY <1>0, <3>1, RetryRowEffect
    <3> QED BY <1>2, <1>3, <1>9, <2>2, <3>2 DEF RowRetried, BecomesRow
  <2> QED BY <2>1, <2>2
<1> QED BY <1>4, <1>5, <1>6, <1>7, <1>8, <1>9, TryKinds

\* RUNBOOK.md: retries go on "until max_attempts is exhausted".  Under any plan, threads,
\* crashes and takeovers an effect is repeated only for an attempt that the row
\* counts, or after a lapse, and there are no more attempts than the limit and one for each
\* lapse.
THEOREM AttemptsAreAccounted == Spec => []AttemptsAccounted
<1>1. Init => AttemptsInv
  <2> SUFFICES ASSUME Init, NEW s \in Step
               PROVE  /\ Base(s) + Claim(s) + Cardinality(Tries(s)) <= MaxAttempts[s] + lapses
                      /\ Untouched(s)
    BY DEF AttemptsInv
  <2>1. /\ row[s].state = "absent" /\ row[s].attempt = 0 /\ attempts[s] = 0 /\ lapses = 0
        /\ \A a \in Actor : pc[a] \in {"idle", "pick"}
    BY DEF Init, LedgerInit, AbsentRow
  <2>2. /\ \A a \in Actor : ~WorksOn(a, s)
        /\ Tries(s) = {}
    BY <2>1 DEF WorksOn, Tries, Trying, Working, RowInHand, BeforeRaise
  <2>3. MaxAttempts[s] \in Nat /\ MaxAttempts[s] >= 1
    BY RuntimeAssumption
  <2>4. Base(s) = MaxAttempts[s] - 1 /\ Claim(s) = 1
    BY <2>1, <2>3 DEF Base, Claim, MayBeTried
  <2>5. Cardinality(Tries(s)) = 0
    BY <2>2, FS_EmptySet
  <2> QED BY <2>1, <2>2, <2>3, <2>4, <2>5 DEF Untouched
<1>2. TypeInv /\ AttemptsInv /\ [Next]_vars => (TypeInv /\ AttemptsInv)'
  BY NextTypeInv, NextAttemptsInv
<1>3. TypeInv /\ AttemptsInv => AttemptsBounded
  <2> SUFFICES ASSUME TypeInv, AttemptsInv, NEW s \in Step
               PROVE  row[s].attempt <= MaxAttempts[s] + lapses
    BY DEF AttemptsBounded
  <2>1. Base(s) + Claim(s) + Cardinality(Tries(s)) <= MaxAttempts[s] + lapses
    BY DEF AttemptsInv
  <2>2. /\ row[s].attempt \in Nat /\ Base(s) \in Nat /\ Claim(s) \in 0..1 /\ lapses \in Nat
        /\ MaxAttempts[s] \in Nat /\ Base(s) >= row[s].attempt
    BY AttemptNumbers DEF Base
  <2> QED BY <2>1, <2>2, TriesFinite
<1>4. Spec => []AttemptsBounded
  BY <1>1, <1>2, <1>3, InitTypeInv, PTL DEF Spec
<1>5. AttemptsAccounted <=> EffectsCounted /\ AttemptsBounded
  BY DEF AttemptsAccounted
<1> QED BY <1>4, <1>5, EffectsAreCounted, PTL
-----------------------------------------------------------------------------
(* The approval gate, where only API threads work on the session, its plan has *)
(* no human step, and its target waits for a policy step.                      *)

GatedInline ==
  /\ Worker = {}
  /\ \A s \in Step : Kind[s] # "human"
  /\ \E p \in Deps[Target] : Kind[p] = "policy"

\* A policy step the target waits for.
Gate == CHOOSE p \in Deps[Target] : Kind[p] = "policy"

Cleared ==
  \/ verdict = "allow"
  \/ verdict = "approval" /\ approvals.approved > 0

OnlyRuns(c) == \A b \in Actor : b # c => pc[b] = "idle"

\* The statements of a run that has not come to a decision, ...
Undecided ==
  {"idle", "pick", "lease", "start", "mark", "run", "invoked", "refresh", "close",
   "retry_step", "retry_session", "fail_step", "fail_session", "next", "next_session",
   "drain", "scan", "filter", "enqueue", "items", "resume", "after"}

\* ... that applies one, ...
Deciding == {"deny_step", "deny_session", "ask", "ask_step", "ask_session"}

\* ... and of one that ends because the session is paused.
Ending ==
  {"idle", "ask_row", "refresh", "close", "next", "next_session", "resume", "after",
   "reject_step", "reject_session"}

\* The policy step has not been carried out: one thread runs, and the target is not in
\* the queue, nor in that thread's hands.
BeforeGate ==
  /\ approvals.pending = 0
  /\ step[Gate] # "completed"
  /\ row[Target].state = "absent"
  /\ \E c \in Actor : OnlyRuns(c)
  /\ \A a \in Actor :
       /\ pc[a] \in Undecided
       /\ Target \notin local[a].ready
       /\ pc[a] \in RowInHand => item[a] # Target
       /\ pc[a] = "invoked" => Kind[item[a]] \in {"tool", "memory"}

\* Threads that reject a request, or none.
Rejecting == {"idle", "reject_step", "reject_session"}

\* The thread that carried it out applies its decision, which may be rejected already.
AtGate ==
  \E c \in Actor :
    /\ pc[c] \in Deciding
    /\ pc[c] = "ask" => verdict = "approval"
    /\ \A b \in Actor : b # c => pc[b] \in Rejecting

\* The session is paused and every thread leaves it, or died on the way.
Stopped ==
  \/ Paused /\ \A a \in Actor : pc[a] \in Ending
  \/ \A a \in Actor : pc[a] \in Rejecting

NoTasks == \A s \in Step : tasks[s] = 0

GateInv ==
  /\ NoTasks
  /\ ~Cleared =>
       /\ effects[Target] = 0
       /\ approvals.pending > 0 => verdict = "approval"
       /\ BeforeGate \/ AtGate \/ Stopped

LEMMA GateIsPolicy ==
  ASSUME GatedInline
  PROVE  /\ Gate \in Step /\ Gate \in Deps[Target] /\ Kind[Gate] = "policy"
         /\ Target \in Step /\ Kind[Target] = "tool" /\ Gate # Target
         /\ Actor = Inline
<1>1. Target \in Step /\ IsTarget(Target)
  BY RuntimeAssumption DEF Target
<1>2. Gate \in Deps[Target] /\ Kind[Gate] = "policy"
  BY DEF Gate, GatedInline
<1>3. Deps[Target] \subseteq Step
  BY <1>1, RuntimeAssumption
<1>4. Actor = Inline
  BY RuntimeAssumption DEF GatedInline
<1> QED BY <1>1, <1>2, <1>3, <1>4 DEF IsTarget

\* What the steps do to the records outside the ledger.
LEMMA OutsideKinds ==
  ASSUME TypeInv, [Next]_vars
  PROVE  /\ verdict' = verdict
         /\ \/ UNCHANGED <<approvals, tasks, effects>>
            \/ ExpireApproval
            \/ \E a \in Actor : Ask(a) \/ Invoke(a) \/ CreateTask(a)
                                 \/ Approve(a) \/ Reject(a) \/ ReturnTask(a)
<1>1. ASSUME NEW a \in Actor, LeaseNext(a)
      PROVE  UNCHANGED outside
  BY <1>1 DEF LeaseNext, TakeRow
<1>2. ASSUME NEW a \in Actor, Handle(a)
      PROVE  UNCHANGED outside \/ Ask(a) \/ Invoke(a) \/ CreateTask(a)
  BY <1>2 DEF Handle, Lease, TakeRow, Pick, PickOldest, Start, SessionWrite, Mark, Prepare,
     StepWrite, Policy, DenyStep, DenySession, AskStep, AskSession, AskRow, FinishEffect,
     SkipMemory, TaskStep, TaskSession
<1>3. ASSUME NEW a \in Actor, Recover(a)
      PROVE  UNCHANGED outside
  BY <1>3 DEF Recover, RetryItem, RetryStep, RetrySession, SessionWrite, FailItem, FailStep,
     FailSession
<1>4. ASSUME NEW a \in Actor, Continue(a)
      PROVE  UNCHANGED outside
  BY <1>4 DEF Continue, Refresh, Close, ContinueAfter, CheckPaused, Drain, PickOldest, Scan,
     EnqueueAll, EnqueueFirst, MissingReady, NothingReady, EnqueueOne, RunNextItem,
     ResumeWorker, ResumeInner, ResumeOuter, After
<1>5. ASSUME NEW a \in Actor, Respond(a)
      PROVE  UNCHANGED outside
  BY <1>5 DEF Respond, ApproveStep, ApproveSession, RejectStep, RejectSession, ReturnStep,
     ReturnSession, StepWrite, SessionWrite
<1>6. ASSUME Clock PROVE UNCHANGED <<verdict, approvals, tasks, effects>>
  BY <1>6 DEF Clock, LeaseExpires, BackoffElapses, outside
<1>7. ASSUME NEW dead, Crash(dead) PROVE UNCHANGED <<verdict, approvals, tasks, effects>>
  BY <1>7 DEF Crash
<1>8. ASSUME ExpireApproval PROVE verdict' = verdict
  BY <1>8 DEF ExpireApproval
<1>9. ASSUME NEW a \in Actor,
             Ask(a) \/ Invoke(a) \/ CreateTask(a) \/ Approve(a) \/ Reject(a) \/ ReturnTask(a)
      PROVE  verdict' = verdict
  BY <1>9 DEF Ask, Invoke, CreateTask, Approve, Reject, DecideRequest, ReturnTask
<1>10. UNCHANGED outside => UNCHANGED <<verdict, approvals, tasks, effects>>
  BY DEF outside
<1>11. UNCHANGED vars => UNCHANGED outside
  BY DEF vars
<1> QED
  BY <1>1, <1>2, <1>3, <1>4, <1>5, <1>6, <1>7, <1>8, <1>9, <1>10, <1>11 DEF Next, Thread

\* A cleared gate stays cleared, and there are no human tasks.
LEMMA ClearedStays ==
  ASSUME TypeInv, GatedInline, NoTasks, [Next]_vars
  PROVE  NoTasks' /\ (Cleared => Cleared')
<1>1. ASSUME NEW a \in Actor, CreateTask(a) PROVE FALSE
  <2>1. item[a] \in Step
    BY DEF TypeInv, ThreadsOK
  <2> QED BY <1>1, <2>1 DEF CreateTask, GatedInline
<1>2. ASSUME NEW a \in Actor, ReturnTask(a) PROVE FALSE
  BY <1>2 DEF ReturnTask, NoTasks, TypeInv, OutsideOK
<1>3. approvals.approved \in Nat /\ approvals.pending \in Nat
  BY DEF TypeInv, OutsideOK
<1>4. ASSUME NEW a \in Actor, Ask(a) \/ Invoke(a) \/ Approve(a) \/ Reject(a)
      PROVE  tasks' = tasks /\ approvals'.approved >= approvals.approved
  <2>1. CASE Ask(a)
    BY <1>3, <2>1 DEF Ask, TypeInv, OutsideOK
  <2>2. CASE Invoke(a)
    BY <1>3, <2>2 DEF Invoke
  <2>3. CASE Approve(a) \/ Reject(a)
    BY <1>3, <2>3 DEF Approve, Reject, DecideRequest
  <2> QED BY <1>4, <2>1, <2>2, <2>3
<1>5. ASSUME ExpireApproval
      PROVE  tasks' = tasks /\ approvals'.approved = approvals.approved
  BY <1>5 DEF ExpireApproval, TypeInv, OutsideOK
<1>6. /\ verdict' = verdict /\ tasks' = tasks
      /\ approvals'.approved >= approvals.approved
  <2>1. CASE UNCHANGED <<approvals, tasks, effects>>
    BY <1>3, <2>1, OutsideKinds
  <2> QED BY <1>1, <1>2, <1>3, <1>4, <1>5, <2>1, OutsideKinds
<1>7. approvals'.approved \in Nat
  BY NextTypeInv DEF TypeInv, OutsideOK
<1> QED BY <1>3, <1>6, <1>7 DEF NoTasks, Cleared

\* The one thread that runs goes on without a decision.
LEMMA RunsOn ==
  ASSUME TypeInv, TypeInv', BeforeGate, NEW a \in Actor, NEW from, NEW to \in Undecided,
         Move(a, from, to), from # "idle",
         approvals' = approvals,
         step'[Gate] # "completed", row'[Target].state = "absent",
         Target \notin local'[a].ready,
         \A b \in Actor : b # a => local'[b] = local[b] /\ item'[b] = item[b],
         to \in RowInHand => item'[a] # Target,
         to = "invoked" => Kind[item'[a]] \in {"tool", "memory"}
  PROVE  BeforeGate'
<1>1. /\ pc[a] = from /\ pc'[a] = to
      /\ \A b \in Actor : b # a => pc'[b] = pc[b]
  BY DEF Move, TypeInv, ThreadsOK
<1>2. \A b \in Actor : b # a => pc[b] = "idle"
  <2>1. PICK c \in Actor : OnlyRuns(c)
    BY DEF BeforeGate
  <2>2. c = a
    BY <1>1, <2>1 DEF OnlyRuns
  <2> QED BY <2>1, <2>2 DEF OnlyRuns
<1>3. OnlyRuns(a)'
  BY <1>1, <1>2 DEF OnlyRuns
<1>4. ASSUME NEW b \in Actor
      PROVE  /\ pc'[b] \in Undecided
             /\ Target \notin local'[b].ready
             /\ pc'[b] \in RowInHand => item'[b] # Target
             /\ pc'[b] = "invoked" => Kind[item'[b]] \in {"tool", "memory"}
  BY <1>1 DEF BeforeGate
<1> QED BY <1>3, <1>4 DEF BeforeGate

\* A statement on the row in hand leaves the target's row alone.
LEMMA OtherRow ==
  ASSUME LedgerTypeOK, NEW s \in Step, NEW t \in Step, s # t,
         \/ \E w \in Actor : LeaseRow(s, w) \/ \E now \in BOOLEAN : RetryRow(s, w, now)
         \/ CompleteRow(s) \/ FailRow(s) \/ EnqueueRow(s) \/ ExpireRow(s) \/ DueRow(s)
  PROVE  row'[t] = row[t]
<1>1. ASSUME NEW w \in Actor, LeaseRow(s, w) PROVE row'[t] = row[t]
  BY <1>1, LeaseRowEffect DEF BecomesRow
<1>2. ASSUME NEW w \in Actor, NEW now \in BOOLEAN, RetryRow(s, w, now)
      PROVE  row'[t] = row[t]
  <2>1. \E r : BecomesRow(s, r)
    BY <1>2, RetryRowEffect
  <2> QED BY <2>1 DEF BecomesRow
<1>3. CASE CompleteRow(s)
  BY <1>3, CompleteRowEffect DEF BecomesRow
<1>4. CASE FailRow(s)
  BY <1>4, FailRowEffect DEF BecomesRow
<1>5. CASE EnqueueRow(s)
  BY <1>5, EnqueueRowEffect DEF BecomesRow
<1>6. CASE ExpireRow(s)
  BY <1>6, ExpireRowEffect DEF BecomesRow
<1>7. CASE DueRow(s)
  BY <1>7, DueRowEffect DEF BecomesRow
<1> QED BY <1>1, <1>2, <1>3, <1>4, <1>5, <1>6, <1>7

LEMMA PickBeforeGate ==
  ASSUME TypeInv, TypeInv', BeforeGate, NEW a \in Actor, NEW from \in Undecided,
         NEW otherwise \in Undecided \ RowInHand, from # "idle",
         PickOldest(a, from, otherwise)
  PROVE  BeforeGate'
<1>1. UNCHANGED <<approvals, step, row, local>>
  BY DEF PickOldest, outside, ledgerVars
<1>2. PICK to \in {"lease", otherwise} :
        Move(a, from, to) /\ (item' = item \/ \E s \in Step : item' = [item EXCEPT ![a] = s])
  BY DEF PickOldest
<1>3. "lease" \in Undecided \ RowInHand /\ "invoked" \in RowInHand
  BY DEF Undecided, RowInHand
<1>4. /\ approvals.pending = 0 /\ step[Gate] # "completed" /\ row[Target].state = "absent"
      /\ Target \notin local[a].ready
  BY DEF BeforeGate
<1>5. \A b \in Actor : b # a => item'[b] = item[b]
  BY <1>2 DEF TypeInv, ThreadsOK
<1> QED BY <1>1, <1>2, <1>3, <1>4, <1>5, RunsOn

LEMMA HandleBeforeGate ==
  ASSUME TypeInv, TypeInv', GatedInline, BeforeGate, ~Cleared, NEW a \in Actor, Handle(a)
  PROVE  effects'[Target] = effects[Target] /\ (BeforeGate' \/ AtGate')
<1>1. /\ item[a] \in Step /\ Gate \in Step /\ Target \in Step /\ Gate # Target
      /\ Kind[Gate] = "policy"
  BY GateIsPolicy DEF TypeInv, ThreadsOK
<1>2. /\ approvals.pending = 0 /\ step[Gate] # "completed" /\ row[Target].state = "absent"
      /\ Target \notin local[a].ready
      /\ pc[a] \in Undecided
      /\ pc[a] \in RowInHand => item[a] # Target
      /\ pc[a] = "invoked" => Kind[item[a]] \in {"tool", "memory"}
  BY DEF BeforeGate
<1>3. /\ step \in [Step -> StepState] /\ row \in [Step -> Row] /\ effects \in [Step -> Nat]
      /\ pc \in [Actor -> Label] /\ local \in [Actor -> Locals]
  BY DEF TypeInv, LedgerTypeOK, OutsideOK, ThreadsOK
<1>4. /\ {"lease", "start", "mark", "run", "invoked", "refresh", "resume", "pick", "scan"}
           \subseteq Undecided
      /\ {"start", "mark", "run", "invoked", "refresh"} \subseteq RowInHand
      /\ {"lease", "resume", "pick", "scan"} \cap RowInHand = {}
  BY DEF Undecided, RowInHand
<1>5. {"deny_step", "deny_session", "ask", "ask_step", "ask_session", "ask_row",
       "task_step", "task_session"} \cap Undecided = {}
  BY DEF Undecided
<1>6. ASSUME NEW from, NEW to \in Undecided, from # "idle",
             Move(a, from, to), UNCHANGED <<row, approvals, item, local, effects>>,
             step'[Gate] # "completed", from \in RowInHand, to # "invoked"
      PROVE  effects'[Target] = effects[Target] /\ BeforeGate'
  <2>1. pc[a] = from
    BY <1>6 DEF Move
  <2> QED BY <1>2, <1>6, <2>1, RunsOn
<1>7. ASSUME NEW state \in StepState, state # "completed", UpdateStep(item[a], state)
      PROVE  step'[Gate] # "completed"
  BY <1>1, <1>2, <1>3, <1>7 DEF UpdateStep
<1>8. ASSUME NEW state, item[a] # Gate, UpdateStep(item[a], state)
      PROVE  step'[Gate] # "completed"
  BY <1>1, <1>2, <1>3, <1>8 DEF UpdateStep
<1>9. CASE Lease(a)
  <2>1. CASE Eligible(item[a])
    <3>1. /\ LeaseRow(item[a], a) /\ Move(a, "lease", "start")
          /\ item' = [item EXCEPT ![a] = item[a]]
          /\ UNCHANGED <<step, approvals, effects>>
          /\ local' = [local EXCEPT ![a] = [local[a] EXCEPT !.att = NextAttempt(item[a])]]
      BY <1>9, <2>1 DEF Lease, TakeRow, outside
    <3>2. item[a] # Target
      BY <1>2, <2>1 DEF Eligible
    <3>3. row'[Target] = row[Target]
      BY <1>1, <3>1, <3>2, OtherRow DEF TypeInv
    <3>4. local'[a].ready = local[a].ready
      BY <1>3, <3>1 DEF Locals
    <3>5. item' = item
      BY <3>1 DEF TypeInv, ThreadsOK
    <3> QED BY <1>2, <1>3, <1>4, <3>1, <3>2, <3>3, <3>4, <3>5, RunsOn
  <2>2. CASE ~Eligible(item[a])
    BY <1>2, <1>4, <1>9, <2>2, RunsOn DEF Lease, ledgerVars, outside
  <2> QED BY <2>1, <2>2
<1>10. CASE Pick(a)
  <2>1. effects' = effects
    BY <1>10 DEF Pick, PickOldest, outside
  <2> QED BY <1>4, <1>10, <2>1, PickBeforeGate DEF Pick
<1>11. CASE Start(a)
  BY <1>2, <1>4, <1>6, <1>11 DEF Start, SessionWrite, outside
<1>12. CASE Mark(a)
  <2>1. "running" \in StepState \ {"completed"}
    BY DEF StepState
  <2> QED BY <1>4, <1>6, <1>7, <1>12, <2>1 DEF Mark, outside
<1>13. CASE Prepare(a) \/ SkipMemory(a)
  <2>1. item[a] # Gate
    BY <1>1, <1>13 DEF Prepare, SkipMemory
  <2> QED BY <1>4, <1>6, <1>8, <1>13, <2>1 DEF Prepare, SkipMemory, StepWrite, outside
<1>14. CASE Policy(a)
  <2>1. verdict \in {"approval", "deny"}
    BY RuntimeAssumption DEF TypeInv, OutsideOK, Cleared
  <2>2. PICK to \in {"deny_step", "ask"} :
          /\ to = "ask" => verdict = "approval"
          /\ StepWrite(a, "run", item[a], "completed", to)
    BY <1>14, <2>1 DEF Policy
  <2>3. /\ pc[a] = "run" /\ pc' = [pc EXCEPT ![a] = to]
        /\ UNCHANGED <<verdict, approvals, effects>>
    BY <2>2 DEF StepWrite, Move, outside
  <2>4. \A b \in Actor : b # a => pc[b] = "idle"
    <3>1. PICK c \in Actor : OnlyRuns(c)
      BY DEF BeforeGate
    <3>2. c = a
      BY <2>3, <3>1 DEF OnlyRuns
    <3> QED BY <3>1, <3>2 DEF OnlyRuns
  <2>5. pc'[a] = to /\ \A b \in Actor : b # a => pc'[b] = "idle"
    BY <1>3, <2>3, <2>4
  <2>6. AtGate'
    BY <2>2, <2>3, <2>5 DEF AtGate, Deciding, Rejecting
  <2> QED BY <2>3, <2>6
<1>15. CASE Invoke(a)
  <2>1. /\ pc[a] = "run" /\ Move(a, "run", "invoked")
        /\ effects' = [effects EXCEPT ![item[a]] = @ + 1]
        /\ Kind[item[a]] \in {"tool", "memory"}
        /\ UNCHANGED <<row, step, approvals, item, local>>
    BY <1>15 DEF Invoke, Move, ledgerVars
  <2>2. item[a] # Target
    BY <1>2, <1>4, <2>1
  <2>3. effects'[Target] = effects[Target]
    BY <1>1, <1>3, <2>1, <2>2
  <2>4. BeforeGate'
    BY <1>2, <1>4, <2>1, <2>2, RunsOn
  <2> QED BY <2>3, <2>4
<1>16. CASE FinishEffect(a)
  <2>1. /\ Move(a, "invoked", "refresh") /\ UpdateStep(item[a], "completed")
        /\ UNCHANGED <<row, approvals, effects, item>>
        /\ local' = [local EXCEPT ![a] =
             [local[a] EXCEPT !.artifact = local[a].artifact \/ Kind[item[a]] = "tool"]]
    BY <1>16 DEF FinishEffect, outside
  <2>2. pc[a] = "invoked"
    BY <2>1 DEF Move
  <2>3. step'[Gate] # "completed"
    BY <1>1, <1>2, <1>8, <2>1, <2>2
  <2>4. local'[a].ready = local[a].ready
    BY <1>3, <2>1 DEF Locals
  <2>5. \A b \in Actor : b # a => local'[b] = local[b]
    BY <1>3, <2>1
  <2> QED BY <1>2, <1>4, <2>1, <2>2, <2>3, <2>4, <2>5, RunsOn
<1>17. ASSUME DenyStep(a) \/ DenySession(a) \/ Ask(a) \/ AskStep(a) \/ AskSession(a)
              \/ AskRow(a) \/ TaskStep(a) \/ TaskSession(a)
       PROVE  FALSE
  BY <1>2, <1>5, <1>17 DEF DenyStep, DenySession, Ask, AskStep, AskSession, AskRow, TaskStep,
     TaskSession, StepWrite, SessionWrite, Move
<1>18. ASSUME CreateTask(a) PROVE FALSE
  BY <1>1, <1>18 DEF CreateTask, GatedInline
<1> QED
  BY <1>9, <1>10, <1>11, <1>12, <1>13, <1>14, <1>15, <1>16, <1>17, <1>18 DEF Handle

LEMMA RecoverBeforeGate ==
  ASSUME TypeInv, TypeInv', GatedInline, BeforeGate, NEW a \in Actor, Recover(a)
  PROVE  BeforeGate'
<1>1. /\ item[a] \in Step /\ Gate \in Step /\ Target \in Step
      /\ local \in [Actor -> Locals] /\ step \in [Step -> StepState]
  BY GateIsPolicy DEF TypeInv, ThreadsOK, LedgerTypeOK
<1>2. /\ approvals.pending = 0 /\ step[Gate] # "completed" /\ row[Target].state = "absent"
      /\ Target \notin local[a].ready
      /\ pc[a] \in RowInHand => item[a] # Target
  BY DEF BeforeGate
<1>3. /\ {"idle", "resume", "retry_step", "retry_session", "fail_step", "fail_session"}
           \subseteq Undecided \ RowInHand
      /\ {"run", "invoked"} \subseteq RowInHand
  BY DEF Undecided, RowInHand
<1>4. ASSUME NEW state \in {"queued", "failed"}, UpdateStep(item[a], state)
      PROVE  step'[Gate] # "completed"
  BY <1>1, <1>2, <1>4 DEF UpdateStep
<1>5. CASE RetryItem(a) \/ FailItem(a)
  <2>1. pc[a] \in {"run", "invoked"} /\ UNCHANGED <<step, approvals, item, local>>
    BY <1>5 DEF RetryItem, FailItem, Raises, outside
  <2>2. item[a] # Target
    BY <1>2, <1>3, <2>1
  <2>3. (item[a] \notin Delayed) \in BOOLEAN
    OBVIOUS
  <2>4. row'[Target] = row[Target]
    BY <1>1, <1>5, <2>2, <2>3, OtherRow DEF RetryItem, FailItem, TypeInv
  <2>5. PICK to \in {"retry_step", "fail_step"} : Move(a, pc[a], to)
    BY <1>5 DEF RetryItem, FailItem
  <2> QED BY <1>2, <1>3, <2>1, <2>4, <2>5, RunsOn
<1>6. CASE RetryStep(a)
  BY <1>2, <1>3, <1>4, <1>6, RunsOn DEF RetryStep, outside
<1>7. CASE FailStep(a)
  BY <1>2, <1>3, <1>4, <1>7, RunsOn DEF FailStep, outside
<1>8. CASE RetrySession(a)
  BY <1>2, <1>3, <1>8, RunsOn DEF RetrySession, SessionWrite, outside
<1>9. CASE FailSession(a)
  <2>1. Target \notin local'[a].ready
    BY <1>1, <1>9 DEF FailSession, FreshLocals
  <2>2. \A b \in Actor : b # a => local'[b] = local[b]
    BY <1>1, <1>9 DEF FailSession
  <2> QED BY <1>2, <1>3, <1>9, <2>1, <2>2, RunsOn DEF FailSession, outside
<1> QED BY <1>5, <1>6, <1>7, <1>8, <1>9 DEF Recover

LEMMA ContinueBeforeGate ==
  ASSUME TypeInv, TypeInv', GatedInline, BeforeGate, NEW a \in Actor, Continue(a)
  PROVE  BeforeGate'
<1>1. /\ item[a] \in Step /\ Gate \in Step /\ Target \in Step /\ Gate \in Deps[Target]
      /\ local \in [Actor -> Locals] /\ item \in [Actor -> Step] /\ local[a] \in Locals
      /\ local[a].ready \in SUBSET Step
      /\ pc[a] \in InLoop => local[a].stack # <<>> /\ Pop(a) \in Locals /\ Top(a) \in Frame
  BY GateIsPolicy, StackType DEF TypeInv, ThreadsOK, LedgerTypeOK, Locals
<1>2. /\ approvals.pending = 0 /\ step[Gate] # "completed" /\ row[Target].state = "absent"
      /\ Target \notin local[a].ready
      /\ pc[a] \in RowInHand => item[a] # Target
  BY DEF BeforeGate
<1>3. {"idle", "pick", "lease", "next", "next_session", "drain", "scan", "filter",
       "enqueue", "items", "resume", "after"} \subseteq Undecided \ RowInHand
  BY DEF Undecided, RowInHand
<1>4. /\ "close" \in Undecided /\ {"refresh", "close"} \subseteq RowInHand
      /\ "invoked" \in RowInHand
  BY DEF Undecided, RowInHand
\* The next statement has no row in hand, and the thread has nothing on the target.
<1>5. ASSUME NEW from, NEW to \in Undecided \ RowInHand, from # "idle",
             Move(a, from, to), UNCHANGED <<approvals, step>>,
             row'[Target].state = "absent",
             NEW l, local' = [local EXCEPT ![a] = l], Target \notin l.ready,
             item' = item \/ \E s \in Step : item' = [item EXCEPT ![a] = s]
      PROVE  BeforeGate'
  <2>1. local'[a] = l /\ \A b \in Actor : b # a => local'[b] = local[b] /\ item'[b] = item[b]
    BY <1>1, <1>5
  <2> QED BY <1>2, <1>4, <1>5, <2>1, RunsOn
<1>6. ASSUME NEW from, Leave(a, from), from # "idle", local[a].stack # <<>>,
             UNCHANGED <<approvals, step, row>>
      PROVE  BeforeGate'
  <2>1. Pop(a).ready = local[a].ready
    BY <1>1 DEF Pop, Locals
  <2> QED BY <1>2, <1>3, <1>5, <1>6, <2>1 DEF Leave
<1>7. ASSUME NEW from, NEW to \in Undecided \ RowInHand, from # "idle",
             Move(a, from, to), UNCHANGED <<approvals, step, row, item, local>>
      PROVE  BeforeGate'
  BY <1>2, <1>4, <1>7, RunsOn
<1>8. CASE Refresh(a)
  <2> DEFINE l == [local[a] EXCEPT !.waits = step[item[a]] = "waiting_human"]
  <2>1. l.ready = local[a].ready
    BY <1>1 DEF Locals
  <2>2. local' = [local EXCEPT ![a] = l]
    BY <1>8 DEF Refresh
  <2> HIDE DEF l
  <2>3. Move(a, "refresh", "close") /\ UNCHANGED <<approvals, step, row, item>>
    BY <1>8 DEF Refresh, ledgerVars, outside
  <2>4. item[a] # Target
    BY <1>2, <1>4, <2>3 DEF Move
  <2>5. Target \notin local'[a].ready /\ \A b \in Actor : b # a => local'[b] = local[b]
    BY <1>1, <1>2, <2>1, <2>2
  <2> QED BY <1>2, <1>4, <2>3, <2>4, <2>5, RunsOn
<1>9. CASE Close(a)
  <2>1. /\ pc[a] = "close" /\ CompleteRow(item[a])
        /\ UNCHANGED <<approvals, step, item, local>>
        /\ \E to \in {"resume", "next"} : Move(a, "close", to)
    BY <1>9 DEF Close, Move, outside
  <2>2. row'[Target] = row[Target]
    BY <1>1, <1>2, <1>4, <2>1, OtherRow DEF TypeInv
  <2> QED BY <1>2, <1>3, <1>4, <2>1, <2>2, RunsOn
<1>10. CASE ContinueAfter(a)
  <2>1. PICK f : local' = [local EXCEPT ![a] = Push(a, f)]
    BY <1>10, Zenon DEF ContinueAfter
  <2>2. Push(a, f).ready = local[a].ready
    BY <1>1 DEF Push, Locals
  <2>3. Move(a, "next", "next_session") /\ UNCHANGED <<approvals, step, row, item>>
    BY <1>10 DEF ContinueAfter, ledgerVars, outside
  <2> QED BY <1>2, <1>3, <1>5, <2>1, <2>2, <2>3
<1>11. CASE CheckPaused(a)
  <2>1. pc[a] = "next_session" /\ UNCHANGED <<approvals, step, row>>
    BY <1>11 DEF CheckPaused, Leave, Move, ledgerVars, outside
  <2>2. local[a].stack # <<>>
    BY <1>1, <2>1 DEF InLoop
  <2>3. CASE Leave(a, "next_session")
    BY <1>6, <2>1, <2>2, <2>3
  <2>4. ASSUME NEW to \in {"drain", "scan"}, Move(a, "next_session", to), Keep(a)
        PROVE  BeforeGate'
    BY <1>3, <1>7, <2>1, <2>4 DEF Keep
  <2> QED BY <1>11, <2>3, <2>4 DEF CheckPaused
<1>12. CASE Drain(a)
  BY <1>3, <1>12, PickBeforeGate DEF Drain
<1>13. CASE ResumeOuter(a)
  BY <1>3, <1>13, PickBeforeGate DEF ResumeOuter
<1>14. CASE Scan(a)
  <2> DEFINE S == {s \in Step : step[s] = "queued" /\ \A d \in Deps[s] : step[d] = "completed"}
  <2>1. Target \notin S
    BY <1>1, <1>2
  <2>2. local' = [local EXCEPT ![a] = [local[a] EXCEPT !.ready = S]]
    BY <1>14 DEF Scan
  <2> HIDE DEF S
  <2>3. [local[a] EXCEPT !.ready = S].ready = S
    BY <1>1 DEF Locals
  <2>4. Move(a, "scan", "filter") /\ UNCHANGED <<approvals, step, row, item>>
    BY <1>14 DEF Scan, ledgerVars, outside
  <2> QED BY <1>2, <1>3, <1>5, <2>1, <2>2, <2>3, <2>4
<1>15. CASE EnqueueAll(a)
  <2>1. PICK q : local' = [local EXCEPT ![a] =
                    [local[a] EXCEPT !.ready = Ready(a), !.stack = q]]
    BY <1>15, Zenon DEF EnqueueAll
  <2>2. [local[a] EXCEPT !.ready = Ready(a), !.stack = q].ready = Ready(a)
    BY <1>1 DEF Locals
  <2>3. Target \notin Ready(a)
    BY <1>2 DEF Ready
  <2>4. Move(a, "filter", "enqueue") /\ UNCHANGED <<approvals, step, row, item>>
    BY <1>15 DEF EnqueueAll, ledgerVars, outside
  <2> QED BY <1>2, <1>3, <1>5, <2>1, <2>2, <2>3, <2>4
<1>16. CASE EnqueueFirst(a)
  <2>1. PICK s \in Ready(a) :
          local' = [local EXCEPT ![a] = [local[a] EXCEPT !.ready = {s}]]
    BY <1>16 DEF EnqueueFirst, IsFirst
  <2>2. [local[a] EXCEPT !.ready = {s}].ready = {s}
    BY <1>1 DEF Locals
  <2>3. s # Target
    BY <1>2, <2>1 DEF Ready
  <2>4. Move(a, "filter", "enqueue") /\ UNCHANGED <<approvals, step, row, item>>
    BY <1>16 DEF EnqueueFirst, ledgerVars, outside
  <2> QED BY <1>2, <1>3, <1>5, <2>1, <2>2, <2>3, <2>4
<1>17. CASE MissingReady(a)
  BY <1>3, <1>7, <1>17 DEF MissingReady, ledgerVars, outside
<1>18. CASE NothingReady(a)
  <2>1. /\ pc[a] = "filter" /\ Leave(a, "filter")
        /\ UNCHANGED <<approvals, step, row>>
    BY <1>18 DEF NothingReady, Leave, Move, outside
  <2>2. local[a].stack # <<>>
    BY <1>1, <2>1 DEF InLoop
  <2> QED BY <1>6, <2>1, <2>2
<1>19. CASE EnqueueOne(a)
  <2>1. PICK s \in Step :
          /\ IsFirst(s, local[a].ready)
          /\ EnqueueRow(s)
          /\ LET rest == local[a].ready \ {s}
                 dropped == [local[a] EXCEPT !.ready = {}]
             IN \/ /\ Move(a, "enqueue", "enqueue")
                   /\ local' = [local EXCEPT ![a] = [local[a] EXCEPT !.ready = rest]]
                   /\ item' = item
                \/ /\ Move(a, "enqueue", "lease")
                   /\ item' = [item EXCEPT ![a] = s]
                   /\ local' = [local EXCEPT ![a] = dropped]
                \/ /\ Move(a, "enqueue", "items")
                   /\ local' = [local EXCEPT ![a] = dropped]
                   /\ item' = item
                \/ /\ Move(a, "enqueue", "resume")
                   /\ local' = [local EXCEPT ![a] =
                        [dropped EXCEPT !.stack = Tail(local[a].stack)]]
                   /\ item' = item
    BY <1>19, Zenon DEF EnqueueOne
  <2>2. UNCHANGED <<approvals, step>>
    BY <1>19 DEF EnqueueOne, outside
  <2>3. s # Target
    BY <1>2, <2>1 DEF IsFirst
  <2>4. row'[Target] = row[Target]
    BY <1>1, <2>1, <2>3, OtherRow DEF TypeInv
  <2>5. PICK to \in {"enqueue", "lease", "items", "resume"}, S \in {local[a].ready \ {s}, {}} :
          \E l \in {[local[a] EXCEPT !.ready = S],
                    [[local[a] EXCEPT !.ready = S] EXCEPT !.stack = Tail(local[a].stack)]} :
            /\ Move(a, "enqueue", to)
            /\ local' = [local EXCEPT ![a] = l]
            /\ item' = item \/ item' = [item EXCEPT ![a] = s]
    BY <2>1
  <2>6. PICK l : /\ l.ready = S
                 /\ Move(a, "enqueue", to)
                 /\ local' = [local EXCEPT ![a] = l]
                 /\ item' = item \/ item' = [item EXCEPT ![a] = s]
    BY <1>1, <2>5 DEF Locals
  <2>7. Target \notin S
    BY <1>2, <2>5
  <2> QED BY <1>2, <1>3, <1>5, <2>2, <2>4, <2>6, <2>7
<1>20. CASE RunNextItem(a)
  <2>1. pc[a] = "items" /\ UNCHANGED <<approvals, step, row>>
    BY <1>20 DEF RunNextItem, ledgerVars, outside
  <2>2. local[a].stack # <<>>
    BY <1>1, <2>1 DEF InLoop
  <2>3. CASE Leave(a, "items")
    BY <1>6, <2>1, <2>2, <2>3
  <2>4. ASSUME NEW s \in Step, NEW q,
               Move(a, "items", "lease"), item' = [item EXCEPT ![a] = s],
               local' = [local EXCEPT ![a] = [local[a] EXCEPT !.stack = q]]
        PROVE  BeforeGate'
    <3>1. [local[a] EXCEPT !.stack = q].ready = local[a].ready
      BY <1>1 DEF Locals
    <3> QED BY <1>2, <1>3, <1>5, <2>1, <2>4, <3>1
  <2> QED BY <1>20, <2>3, <2>4, Zenon DEF RunNextItem
<1>21. CASE ResumeWorker(a)
  <2>1. Target \notin FreshLocals.ready
    BY DEF FreshLocals
  <2> QED BY <1>2, <1>3, <1>5, <1>21, <2>1 DEF ResumeWorker, ledgerVars, outside
<1>22. CASE ResumeInner(a)
  <2>1. UNCHANGED <<approvals, step, row>> /\ local[a].stack # <<>> /\ ~Outer(a)
    BY <1>22 DEF ResumeInner, ledgerVars, outside
  <2>2. CASE Leave(a, "resume")
    BY <1>6, <2>1, <2>2
  <2>3. CASE Move(a, "resume", Top(a).loop) /\ Keep(a)
    <3>1. Top(a).loop \in {"drain", "items", "enqueue"}
      BY <2>1, StackType DEF TypeInv, Outer, Frame
    <3> QED BY <1>3, <1>7, <2>1, <2>3, <3>1 DEF Keep
  <2> QED BY <1>22, <2>2, <2>3 DEF ResumeInner
<1>23. CASE After(a)
  <2>1. pc[a] = "after" /\ UNCHANGED <<approvals, step, row, item>>
    BY <1>23 DEF After, ledgerVars, outside
  <2>2. PICK to \in {"pick", "resume", "idle"},
             l \in {[local[a] EXCEPT !.rounds = local[a].rounds + 1],
                    [local[a] EXCEPT !.stack = <<OuterFrame("return")>>], FreshLocals} :
          Move(a, "after", to) /\ local' = [local EXCEPT ![a] = l]
    BY <1>23 DEF After, EndCall
  <2>3. l.ready \in {local[a].ready, {}}
    BY <1>1, <2>2 DEF Locals, FreshLocals
  <2> QED BY <1>2, <1>3, <1>5, <2>1, <2>2, <2>3
<1> QED
  BY <1>8, <1>9, <1>10, <1>11, <1>12, <1>13, <1>14, <1>15, <1>16, <1>17, <1>18, <1>19,
     <1>20, <1>21, <1>22, <1>23 DEF Continue

\* Which statements a thread that decides, and one that leaves, can be at.
LEMMA DecidingStatements ==
  ASSUME NEW a \in Actor, Thread(a), pc[a] \in Deciding \cup Rejecting
  PROVE  DenyStep(a) \/ DenySession(a) \/ Ask(a) \/ AskStep(a) \/ AskSession(a)
         \/ RejectStep(a) \/ RejectSession(a)
<1>1. pc[a] \notin Label \ (Deciding \cup Rejecting)
  OBVIOUS
<1>2. {"lease", "pick", "start", "mark", "run", "invoked", "ask_row", "task_step",
       "task_session", "retry_step", "retry_session", "fail_step", "fail_session",
       "refresh", "close", "next", "next_session", "drain", "scan", "filter", "enqueue",
       "items", "resume", "after", "approve_step", "approve_session", "return_step", "return_session"}
        \subseteq Label \ (Deciding \cup Rejecting)
  BY DEF Label, RowInHand, Deciding, Rejecting
<1>3. CASE Handle(a)
  BY <1>1, <1>2, <1>3 DEF Handle, Lease, Pick, PickOldest, Start, Mark, Prepare, Policy,
     AskRow, Invoke, FinishEffect, SkipMemory, CreateTask, TaskStep, TaskSession,
     SessionWrite, StepWrite, Move
<1>4. ASSUME Recover(a) PROVE FALSE
  BY <1>1, <1>2, <1>4 DEF Recover, RetryItem, RetryStep, RetrySession, FailItem, FailStep,
     FailSession, Raises, SessionWrite, Move
<1>5. ASSUME Continue(a) PROVE FALSE
  BY <1>1, <1>2, <1>5 DEF Continue, Refresh, Close, ContinueAfter, CheckPaused, Drain,
     PickOldest, Scan, EnqueueAll, EnqueueFirst, MissingReady, NothingReady, EnqueueOne,
     RunNextItem, ResumeWorker, ResumeInner, ResumeOuter, After, Leave, Move
<1>6. CASE Respond(a)
  BY <1>1, <1>2, <1>6 DEF Respond, ApproveStep, ApproveSession, ReturnStep, ReturnSession, SessionWrite, StepWrite, Move
<1> QED BY <1>3, <1>4, <1>5, <1>6 DEF Thread

LEMMA EndingStatements ==
  ASSUME NEW a \in Actor, Thread(a), pc[a] \in Ending
  PROVE  \/ AskRow(a) \/ Refresh(a) \/ Close(a) \/ ContinueAfter(a) \/ CheckPaused(a)
         \/ ResumeWorker(a) \/ ResumeInner(a) \/ ResumeOuter(a) \/ After(a)
         \/ RejectStep(a) \/ RejectSession(a)
<1>1. pc[a] \notin Label \ Ending
  OBVIOUS
<1>2. {"lease", "pick", "start", "mark", "run", "invoked", "deny_step", "deny_session",
       "ask", "ask_step", "ask_session", "task_step",
       "task_session", "retry_step", "retry_session", "fail_step", "fail_session",
       "drain", "scan", "filter", "enqueue", "items", "approve_step", "approve_session",
       "return_step", "return_session"}
        \subseteq Label \ Ending
  BY DEF Label, RowInHand, Ending
<1>3. CASE Handle(a)
  BY <1>1, <1>2, <1>3 DEF Handle, Lease, Pick, PickOldest, Start, Mark, Prepare, Policy,
     DenyStep, DenySession, Ask, AskStep, AskSession, Invoke, FinishEffect, SkipMemory,
     CreateTask, TaskStep, TaskSession, SessionWrite, StepWrite, Move
<1>4. ASSUME Recover(a) PROVE FALSE
  BY <1>1, <1>2, <1>4 DEF Recover, RetryItem, RetryStep, RetrySession, FailItem, FailStep,
     FailSession, Raises, SessionWrite, Move
<1>5. CASE Continue(a)
  BY <1>1, <1>2, <1>5 DEF Continue, Drain, PickOldest, Scan, EnqueueAll, EnqueueFirst,
     MissingReady, NothingReady, EnqueueOne, RunNextItem, Leave, Move
<1>6. CASE Respond(a)
  BY <1>1, <1>2, <1>6 DEF Respond, ApproveStep, ApproveSession, ReturnStep,
     ReturnSession, SessionWrite, StepWrite, Move
<1> QED BY <1>3, <1>4, <1>5, <1>6 DEF Thread

\* A crash of the API process ends every thread.
LEMMA CrashStops ==
  ASSUME GatedInline, Crash(Inline)
  PROVE  Stopped' /\ UNCHANGED <<approvals, effects>>
  BY GateIsPolicy DEF Crash, Stopped, Rejecting

LEMMA BeforeGateStep ==
  ASSUME TypeInv, TypeInv', GatedInline, NoTasks, ~Cleared, BeforeGate, Next
  PROVE  /\ effects'[Target] = effects[Target] /\ approvals' = approvals
         /\ BeforeGate' \/ AtGate' \/ Stopped'
<1>1. /\ Target \in Step /\ approvals.pending = 0
      /\ \A a \in Actor : pc[a] \in Undecided
  BY GateIsPolicy DEF BeforeGate
<1>2. {"ask", "approve_step", "approve_session", "reject_step", "reject_session",
       "return_step", "return_session"} \cap Undecided = {}
  BY DEF Undecided
<1>3. ASSUME NEW a \in Actor, Approve(a) \/ Reject(a) \/ ReturnTask(a) \/ LeaseNext(a)
             \/ Ask(a) \/ Respond(a) \/ ExpireApproval
      PROVE  FALSE
  <2>1. CASE Approve(a) \/ Reject(a) \/ ExpireApproval
    BY <1>1, <2>1 DEF Approve, Reject, DecideRequest, ExpireApproval
  <2>2. CASE ReturnTask(a)
    BY <2>2 DEF ReturnTask, NoTasks
  <2>3. CASE LeaseNext(a)
    BY <2>3 DEF LeaseNext, GatedInline
  <2>4. CASE Ask(a) \/ Respond(a)
    BY <1>1, <1>2, <2>4 DEF Ask, Respond, ApproveStep, ApproveSession, RejectStep,
       RejectSession, ReturnStep, ReturnSession, StepWrite, SessionWrite, Move
  <2> QED BY <1>3, <2>1, <2>2, <2>3, <2>4
<1>4. approvals' = approvals
  BY <1>3, OutsideKinds, RuntimeAssumption DEF Invoke, CreateTask
<1>5. ASSUME NEW a \in Actor, Handle(a)
      PROVE  effects'[Target] = effects[Target] /\ (BeforeGate' \/ AtGate')
  BY <1>5, HandleBeforeGate
<1>6. ASSUME NEW a \in Actor, Recover(a) \/ Continue(a)
      PROVE  effects'[Target] = effects[Target] /\ BeforeGate'
  <2>1. BeforeGate'
    BY <1>6, RecoverBeforeGate, ContinueBeforeGate
  <2>2. effects' = effects
    BY <1>6 DEF Recover, RetryItem, RetryStep, RetrySession, SessionWrite, FailItem, FailStep,
       FailSession, Continue, Refresh, Close, ContinueAfter, CheckPaused, Drain, PickOldest,
       Scan, EnqueueAll, EnqueueFirst, MissingReady, NothingReady, EnqueueOne, RunNextItem,
       ResumeWorker, ResumeInner, ResumeOuter, After, outside
  <2> QED BY <2>1, <2>2
<1>7. ASSUME Clock PROVE effects'[Target] = effects[Target] /\ BeforeGate'
  <2>1. PICK s \in Step :
          /\ row[s].state # "absent"
          /\ ExpireRow(s) \/ DueRow(s)
          /\ UNCHANGED <<step, approvals, effects, pc, item, local>>
    BY <1>7 DEF Clock, LeaseExpires, BackoffElapses, ExpireRow, DueRow, outside
  <2>2. row[Target].state = "absent"
    BY DEF BeforeGate
  <2>3. s # Target
    BY <2>1, <2>2
  <2>4. row'[Target] = row[Target]
    BY <1>1, <2>1, <2>3, OtherRow DEF TypeInv
  <2> QED BY <2>1, <2>4 DEF BeforeGate, OnlyRuns
<1>8. ~ \E w \in Worker : Crash({w})
  BY DEF GatedInline
<1> QED BY <1>3, <1>4, <1>5, <1>6, <1>7, <1>8, CrashStops, RuntimeAssumption DEF Next, Thread

LEMMA AtGateStep ==
  ASSUME TypeInv, TypeInv', GatedInline, NoTasks, ~Cleared, AtGate,
         approvals.pending > 0 => verdict = "approval", Next
  PROVE  \/ Cleared'
         \/ /\ effects'[Target] = effects[Target]
            /\ approvals'.pending > 0 => verdict' = "approval"
            /\ AtGate' \/ Stopped'
<1>1. PICK c \in Actor :
        /\ pc[c] \in Deciding
        /\ pc[c] = "ask" => verdict = "approval"
        /\ \A b \in Actor : b # c => pc[b] \in Rejecting
  BY DEF AtGate
<1>2. /\ pc \in [Actor -> Label] /\ approvals \in [pending : Nat, approved : Nat]
      /\ verdict' = verdict
  BY OutsideKinds DEF TypeInv, ThreadsOK, OutsideOK
<1>3. ASSUME NEW to, Move(c, pc[c], to)
      PROVE  pc'[c] = to /\ \A b \in Actor : b # c => pc'[b] \in Rejecting
  BY <1>1, <1>2, <1>3 DEF Move
\* A thread that rejects leaves the one that decides alone.
<1>4. ASSUME NEW a \in Actor, NEW from \in Rejecting, NEW to \in Rejecting, Move(a, from, to)
      PROVE  AtGate'
  <2>1. a # c
    BY <1>1, <1>4 DEF Move, Rejecting, Deciding
  <2>2. /\ pc'[c] = pc[c]
        /\ \A b \in Actor : b # c => pc'[b] \in Rejecting
    BY <1>1, <1>2, <1>4, <2>1 DEF Move
  <2> QED BY <1>1, <1>2, <2>2 DEF AtGate
<1>5. ASSUME NEW a \in Actor, Thread(a)
      PROVE  /\ effects' = effects
             /\ AtGate' \/ Stopped'
             /\ approvals'.pending > 0 => verdict = "approval"
  <2>1. pc[a] \in Deciding \cup Rejecting
    BY <1>1
  <2>2. \/ DenyStep(a) \/ DenySession(a) \/ Ask(a) \/ AskStep(a) \/ AskSession(a)
        \/ RejectStep(a) \/ RejectSession(a)
    BY <1>5, <2>1, DecidingStatements
  <2>3. ASSUME DenyStep(a) \/ DenySession(a) \/ Ask(a) \/ AskStep(a) \/ AskSession(a)
        PROVE  a = c
    BY <1>1, <2>3 DEF DenyStep, DenySession, Ask, AskStep, AskSession, StepWrite,
       SessionWrite, Move, Rejecting
  <2>4. CASE DenyStep(a)
    <3>1. pc[c] = "deny_step" /\ UNCHANGED <<verdict, approvals, effects>>
          /\ Move(c, pc[c], "deny_session")
      BY <2>3, <2>4 DEF DenyStep, StepWrite, Move, outside
    <3> QED BY <1>1, <1>2, <1>3, <3>1 DEF AtGate, Deciding
  <2>5. CASE DenySession(a)
    <3>1. /\ UNCHANGED <<verdict, approvals, effects>>
          /\ Move(c, pc[c], "refresh") /\ session' = "blocked"
      BY <2>3, <2>5 DEF DenySession, SessionWrite, SetSession, Move, outside
    <3> QED BY <1>3, <3>1 DEF Stopped, Paused, Ending, Rejecting
  <2>6. CASE Ask(a)
    <3>1. /\ pc[c] = "ask" /\ UNCHANGED <<verdict, effects>>
          /\ Move(c, pc[c], "ask_step")
      BY <2>3, <2>6 DEF Ask, Move
    <3> QED BY <1>1, <1>2, <1>3, <3>1 DEF AtGate, Deciding
  <2>7. CASE AskStep(a)
    <3>1. UNCHANGED <<verdict, approvals, effects>> /\ Move(c, pc[c], "ask_session")
      BY <2>3, <2>7 DEF AskStep, Move, outside
    <3> QED BY <1>1, <1>2, <1>3, <3>1 DEF AtGate, Deciding
  <2>8. CASE AskSession(a)
    <3>1. /\ UNCHANGED <<verdict, approvals, effects>>
          /\ Move(c, pc[c], "ask_row") /\ session' = "awaiting_approval"
      BY <2>3, <2>8 DEF AskSession, SessionWrite, SetSession, Move, outside
    <3> QED BY <1>3, <3>1 DEF Stopped, Paused, Ending, Rejecting
  <2>9. CASE RejectStep(a) \/ RejectSession(a)
    <3>1. \E from, to \in Rejecting : Move(a, from, to)
      BY <2>9 DEF RejectStep, RejectSession, StepWrite, SessionWrite, Rejecting
    <3>2. UNCHANGED <<approvals, effects>>
      BY <2>9 DEF RejectStep, RejectSession, StepWrite, SessionWrite, outside
    <3> QED BY <1>4, <3>1, <3>2
  <2> QED BY <2>2, <2>4, <2>5, <2>6, <2>7, <2>8, <2>9
<1>6. ASSUME NEW a \in Actor, Approve(a) PROVE Cleared'
  <2>1. approvals.pending > 0 /\ approvals'.approved = approvals.approved + 1
    BY <1>6 DEF Approve, DecideRequest
  <2> QED BY <1>2, <2>1 DEF Cleared
<1>7. ASSUME NEW a \in Actor, Reject(a)
      PROVE  effects' = effects /\ approvals.pending > 0 /\ AtGate'
  <2>1. /\ Move(a, "idle", "reject_step") /\ approvals.pending > 0 /\ effects' = effects
    BY <1>7 DEF Reject, DecideRequest
  <2> QED BY <1>4, <2>1 DEF Rejecting
<1>8. ASSUME NEW a \in Actor, ReturnTask(a) \/ LeaseNext(a) PROVE FALSE
  <2>1. CASE ReturnTask(a)
    BY <2>1 DEF ReturnTask, NoTasks
  <2>2. CASE LeaseNext(a)
    BY <2>2 DEF LeaseNext, GatedInline
  <2> QED BY <1>8, <2>1, <2>2
<1>9. ASSUME Clock PROVE UNCHANGED <<effects, approvals>> /\ AtGate'
  <2>1. UNCHANGED <<verdict, approvals, effects, pc>>
    BY <1>9 DEF Clock, LeaseExpires, BackoffElapses, outside
  <2> QED BY <2>1 DEF AtGate
<1>10. ASSUME ExpireApproval
      PROVE  effects' = effects /\ AtGate' /\ approvals.pending > 0
  BY <1>10 DEF ExpireApproval, ledgerVars, AtGate
<1>11. ~ \E w \in Worker : Crash({w})
  BY DEF GatedInline
<1> QED
  BY <1>2, <1>5, <1>6, <1>7, <1>8, <1>9, <1>10, <1>11, CrashStops DEF Next

LEMMA StoppedStep ==
  ASSUME TypeInv, TypeInv', GatedInline, NoTasks, ~Cleared, Stopped,
         approvals.pending > 0 => verdict = "approval", Next
  PROVE  \/ Cleared'
         \/ /\ effects'[Target] = effects[Target]
            /\ approvals'.pending > 0 => verdict' = "approval"
            /\ Stopped'
<1>1. /\ pc \in [Actor -> Label] /\ approvals \in [pending : Nat, approved : Nat]
      /\ verdict' = verdict
  BY OutsideKinds DEF TypeInv, ThreadsOK, OutsideOK
<1>2. Rejecting \subseteq Ending /\ \A a \in Actor : pc[a] \in Ending
  BY DEF Stopped, Ending, Rejecting
\* A thread that goes on to `to` and leaves the session paused.
<1>3. ASSUME NEW a \in Actor, NEW from, NEW to \in Ending, Move(a, from, to),
             session' = session \/ session' = "blocked", from \in Ending,
             to \in Rejecting \/ Paused
      PROVE  Stopped'
  <2>1. pc[a] = from /\ pc'[a] = to /\ \A b \in Actor : b # a => pc'[b] = pc[b]
    BY <1>1, <1>3 DEF Move
  <2>2. CASE Paused
    <3>1. Paused'
      BY <1>3, <2>2 DEF Paused
    <3> QED BY <1>2, <1>3, <2>1, <3>1 DEF Stopped
  <2>3. CASE ~Paused
    BY <1>3, <2>1, <2>3 DEF Stopped
  <2> QED BY <2>2, <2>3
<1>4. ASSUME NEW a \in Actor, Thread(a)
      PROVE  UNCHANGED <<effects, approvals>> /\ Stopped'
  <2>1. \/ AskRow(a) \/ Refresh(a) \/ Close(a) \/ ContinueAfter(a) \/ CheckPaused(a)
        \/ ResumeWorker(a) \/ ResumeInner(a) \/ ResumeOuter(a) \/ After(a)
        \/ RejectStep(a) \/ RejectSession(a)
    BY <1>2, <1>4, EndingStatements
  <2>2. UNCHANGED <<effects, approvals>>
    BY <2>1 DEF AskRow, Refresh, Close, ContinueAfter, CheckPaused, ResumeWorker, ResumeInner,
       ResumeOuter, PickOldest, After, RejectStep, RejectSession, StepWrite, SessionWrite,
       outside
  <2>3. {"idle", "refresh", "close", "next", "next_session", "resume", "after",
         "reject_session", "ask_row", "reject_step"} \subseteq Ending
    BY DEF Ending
  <2>4. CASE RejectStep(a)
    BY <1>3, <2>2, <2>3, <2>4 DEF RejectStep, StepWrite, Rejecting
  <2>5. CASE RejectSession(a)
    BY <1>3, <2>2, <2>3, <2>5 DEF RejectSession, SessionWrite, SetSession, Rejecting
  <2>6. CASE ~(RejectStep(a) \/ RejectSession(a))
    <3>1. pc[a] \in {"ask_row", "refresh", "close", "next", "next_session", "resume", "after"}
      BY <2>1, <2>6 DEF AskRow, Refresh, Close, ContinueAfter, CheckPaused, ResumeWorker,
         ResumeInner, ResumeOuter, PickOldest, After, Leave, Move
    <3>2. Paused
      BY <3>1 DEF Stopped, Rejecting
    <3>3. ~Runnable
      BY <3>2 DEF Paused, Runnable
    <3>4. session' = session
      BY <2>1, <2>6 DEF AskRow, Refresh, Close, ContinueAfter, CheckPaused, ResumeWorker,
         ResumeInner, ResumeOuter, PickOldest, After, ledgerVars
    <3>5. \E to \in {"idle", "refresh", "close", "next", "next_session", "resume", "after"} :
             Move(a, pc[a], to)
      <4>1. CASE AskRow(a) \/ Refresh(a) \/ Close(a) \/ ContinueAfter(a) \/ ResumeWorker(a)
        BY <4>1 DEF AskRow, Refresh, Close, ContinueAfter, ResumeWorker, Move
      <4>2. CASE CheckPaused(a) \/ ResumeInner(a)
        BY <3>2, <4>2 DEF CheckPaused, ResumeInner, Leave, Move
      <4>3. CASE ResumeOuter(a)
        BY <3>3, <4>3 DEF ResumeOuter, PickOldest, Oldest, Eligible, Move
      <4>4. CASE After(a)
        BY <3>2, <4>4 DEF After, LeavesLoop, EndCall, Move
      <4> QED BY <2>1, <2>6, <4>1, <4>2, <4>3, <4>4
    <3> QED BY <1>2, <1>3, <2>2, <2>3, <3>2, <3>4, <3>5
  <2> QED BY <2>2, <2>4, <2>5, <2>6
<1>5. ASSUME NEW a \in Actor, Approve(a) PROVE Cleared'
  <2>1. approvals.pending > 0 /\ approvals'.approved = approvals.approved + 1
    BY <1>5 DEF Approve, DecideRequest
  <2> QED BY <1>1, <2>1 DEF Cleared
<1>6. ASSUME NEW a \in Actor, Reject(a)
      PROVE  effects' = effects /\ approvals.pending > 0 /\ Stopped'
  <2>1. /\ Move(a, "idle", "reject_step") /\ approvals.pending > 0
        /\ UNCHANGED <<session, effects>>
    BY <1>6 DEF Reject, DecideRequest, ledgerVars
  <2>2. {"idle", "reject_step"} \subseteq Rejecting \cap Ending
    BY DEF Rejecting, Ending
  <2> QED BY <1>3, <2>1, <2>2
<1>7. ASSUME NEW a \in Actor, ReturnTask(a) \/ LeaseNext(a) PROVE FALSE
  <2>1. CASE ReturnTask(a)
    BY <2>1 DEF ReturnTask, NoTasks
  <2>2. CASE LeaseNext(a)
    BY <2>2 DEF LeaseNext, GatedInline
  <2> QED BY <1>7, <2>1, <2>2
<1>8. ASSUME Clock PROVE UNCHANGED <<effects, approvals>> /\ Stopped'
  BY <1>8 DEF Clock, LeaseExpires, BackoffElapses, outside, Stopped, Paused
<1>9. ASSUME ExpireApproval
      PROVE  effects' = effects /\ Stopped' /\ approvals.pending > 0
  BY <1>9 DEF ExpireApproval, ledgerVars, Stopped, Paused
<1>10. ~ \E w \in Worker : Crash({w})
  BY DEF GatedInline
<1> QED
  BY <1>1, <1>4, <1>5, <1>6, <1>7, <1>8, <1>9, <1>10, CrashStops DEF Next

LEMMA NextGateInv ==
  ASSUME GatedInline, TypeInv, GateInv, [Next]_vars
  PROVE  GateInv'
<1>1. TypeInv'
  BY NextTypeInv
<1>2. NoTasks /\ NoTasks' /\ (Cleared => Cleared') /\ verdict' = verdict
  BY ClearedStays, OutsideKinds DEF GateInv
<1>3. CASE Cleared
  BY <1>2, <1>3 DEF GateInv
<1>4. CASE ~Cleared /\ Next
  <2>1. /\ effects[Target] = 0
        /\ approvals.pending > 0 => verdict = "approval"
    BY <1>4 DEF GateInv
  <2>2. CASE BeforeGate
    BY <1>1, <1>2, <1>4, <2>1, <2>2, BeforeGateStep DEF GateInv
  <2>3. CASE AtGate
    BY <1>1, <1>2, <1>4, <2>1, <2>3, AtGateStep DEF GateInv
  <2>4. CASE Stopped
    BY <1>1, <1>2, <1>4, <2>1, <2>4, StoppedStep DEF GateInv
  <2> QED BY <1>4, <2>2, <2>3, <2>4 DEF GateInv
<1>5. CASE UNCHANGED vars
  BY <1>5 DEF vars, outside, ledgerVars, GateInv, NoTasks, Cleared, BeforeGate, AtGate, Stopped,
     OnlyRuns, Paused
<1> QED BY <1>3, <1>4, <1>5

\* The gated tool runs only after an approval, and never when the policy denied the
\* session: for every plan without human steps whose last tool call waits for a policy
\* step, any number of API threads, retries, reviewers who answer early, requests that
\* expire, leases that run out under a handler and crashes of the API process.  With a
\* queue worker beside the API it does not hold: the run gate_bypassed.
THEOREM GateHolds ==
  ASSUME GatedInline
  PROVE  Spec => []GateSafety
<1>1. Init => GateInv
  <2> SUFFICES ASSUME Init PROVE GateInv
    OBVIOUS
  <2>1. /\ Gate \in Step /\ Target \in Step
    BY GateIsPolicy
  <2>2. NoTasks /\ effects[Target] = 0 /\ approvals.pending = 0
    BY <2>1 DEF Init, NoTasks
  <2>3. step[Gate] = "queued" /\ row[Target].state = "absent"
    BY <2>1 DEF Init, LedgerInit, AbsentRow
  <2>4. OnlyRuns(Requester) /\ Requester \in Actor
    BY RuntimeAssumption DEF Init, OnlyRuns
  <2>5. \A a \in Actor : pc[a] \in {"pick", "idle"} /\ local[a].ready = {}
    BY DEF Init, FreshLocals
  <2>6. {"pick", "idle"} \subseteq Undecided \ RowInHand /\ "invoked" \in RowInHand
    BY DEF Undecided, RowInHand
  <2> QED BY <2>2, <2>3, <2>4, <2>5, <2>6 DEF GateInv, BeforeGate
<1>2. TypeInv /\ GateInv /\ [Next]_vars => (TypeInv /\ GateInv)'
  BY NextTypeInv, NextGateInv
<1>3. TypeInv /\ GateInv => GateSafety
  BY TargetIsStep DEF TypeInv, OutsideOK, GateInv, GateSafety, Cleared
<1> QED BY <1>1, <1>2, <1>3, InitTypeInv, PTL DEF Spec

-----------------------------------------------------------------------------
(* Effects follow the dependencies, while handlers keep up and no process dies. *)

\* The policy allows every session.
Allowing == Verdict \subseteq {"allow"}

\* No handler is overtaken by the end of its lease, by a reviewer or by a backoff, no
\* process dies, and a step that may be tried again waits for a backoff; and either the
\* policy allows every session, or its target waits for nothing that the policy step did
\* not wait for, and nothing waits for the target.
Steady ==
  /\ {"lease", "reviewer", "backoff"} \subseteq Slow
  /\ MaxCrashes = 0
  /\ \A s \in CanFail : MaxAttempts[s] > 1 => s \in Delayed
  /\ \/ Allowing
     \/ /\ \A s \in Step : Target \notin Deps[s]
        /\ \A p \in Step : Kind[p] = "policy" => Deps[Target] \subseteq Deps[p] \cup {p}

\* The steps whose state is written by nobody but who works on them.
Firm(s) == s # Target \/ Allowing

\* A thread that may take the completion of its step back.
Busy == {"start", "mark", "run", "invoked", "retry_step", "fail_step"}

\* The step was carried out for the last time, as far as its rows and threads can tell.
Past(s) ==
  /\ row[s].state \in {"leased", "done"}
  /\ \A a \in Actor : item[a] = s => pc[a] \notin Busy

NoTaskStep(s) == \A a \in Actor : item[a] = s => pc[a] # "task_step"

Awaited(s) == \A d \in Deps[s] : step[d] = "completed"

Asking == {"ask", "ask_step", "ask_session", "ask_row"}

TargetWrites == {"deny_step", "approve_step", "reject_step"}

ThreadInv(a) ==
  /\ pc[a] = "retry_step" => row[item[a]].state = "queued" /\ ~row[item[a]].due
  /\ pc[a] = "fail_step" => row[item[a]].state = "failed"
  /\ pc[a] \in BeforeRaise => local[a].att >= 1
  /\ pc[a] = "return_step" => Past(item[a]) /\ NoTaskStep(item[a])
  /\ pc[a] \in Asking => Awaited(Target)
  /\ Allowing => pc[a] \notin Asking \cup TargetWrites
  /\ \A s \in local[a].ready : Awaited(s)

StepInv(s) ==
  /\ row[s].state = "leased" => \E a \in Actor : Holds(a, s)
  /\ tasks[s] > 0 => Past(s)
  /\ step[s] = "completed" => Past(s) /\ NoTaskStep(s)
  /\ row[s].state # "absent" => Awaited(s)

OrderInv ==
  /\ LeaseInHand
  /\ Allowing => approvals.pending = 0
  /\ \A a \in Actor : ThreadInv(a)
  /\ \A s \in Step : StepInv(s)

\* What was completed stays so, unless it is the target and the policy may withhold it.
FirmStays == \A s \in Step : Firm(s) /\ step[s] = "completed" => step'[s] = "completed"

OrderGoesOn == OrderInv' /\ FirmStays

AloneMoves(a) ==
  \A b \in Actor : b # a => pc'[b] = pc[b] /\ item'[b] = item[b] /\ local'[b] = local[b]

LEMMA DepsAreFirm ==
  ASSUME Steady, NEW s \in Step, NEW d \in Deps[s]
  PROVE  d \in Step /\ Firm(d)
  BY RuntimeAssumption DEF Steady, Firm

\* A step in the hands of a thread is in no other thread's, nor about to be put back.
LEMMA OnlyHolder ==
  ASSUME OrderInv, NEW a \in Actor, NEW b \in Actor, NEW s \in Step, Holds(a, s), b # a,
         item[b] = s
  PROVE  pc[b] \notin RowInHand \cup {"retry_step", "fail_step"}
<1>1. row[s].state = "leased" /\ row[s].owner = a
  BY DEF OrderInv, LeaseInHand
<1>2. ~Holds(b, s)
  BY <1>1 DEF OrderInv, LeaseInHand
<1>3. ThreadInv(b)
  BY DEF OrderInv
<1> QED BY <1>1, <1>2, <1>3 DEF Holds, ThreadInv

\* Nobody can lease a step that was carried out.
LEMMA PastNotEligible ==
  ASSUME OrderInv, NEW s \in Step, Past(s)
  PROVE  ~Eligible(s)
<1>1. StepInv(s) /\ LeaseInHand
  BY DEF OrderInv
<1> QED BY <1>1 DEF StepInv, LeaseInHand, Past, Eligible

\* What was carried out stays so, unless somebody comes to work on it.
LEMMA PastStays ==
  ASSUME NEW a \in Actor, AloneMoves(a),
         \A s \in Step : Past(s) => row'[s].state \in {"leased", "done"},
         \/ pc'[a] \notin Busy \cup {"task_step"}
         \/ pc[a] \in Busy /\ item'[a] = item[a]
         \/ ~Past(item'[a])
  PROVE  \A s \in Step : /\ Past(s) => Past(s)'
                         /\ Past(s) /\ NoTaskStep(s) => NoTaskStep(s)'
<1> SUFFICES ASSUME NEW s \in Step, Past(s)
             PROVE  Past(s)' /\ (NoTaskStep(s) => NoTaskStep(s)')
  OBVIOUS
<1>1. ASSUME item'[a] = s PROVE pc'[a] \notin Busy \cup {"task_step"}
  BY <1>1 DEF Past
<1> QED BY <1>1 DEF Past, NoTaskStep, AloneMoves

\* The invariant is kept by a step of one thread that keeps what is past, and in which
\* that thread and the steps it writes come out right.
LEMMA OrderKept ==
  ASSUME TypeInv, Steady, OrderInv, LeaseInHand', NEW a \in Actor, AloneMoves(a),
         \A s \in Step : /\ Past(s) => Past(s)'
                         /\ Past(s) /\ NoTaskStep(s) => NoTaskStep(s)'
                         /\ Firm(s) /\ step[s] = "completed" => step'[s] = "completed",
         \A b \in Actor : b # a /\ pc[b] \in {"retry_step", "fail_step"} =>
           row'[item[b]].state = row[item[b]].state /\ row'[item[b]].due = row[item[b]].due,
         \A s \in Step :
           /\ row'[s].state = "leased" => \E b \in Actor : Holds(b, s)'
           /\ tasks'[s] > 0 => tasks[s] > 0 \/ Past(s)'
           /\ step'[s] = "completed" => step[s] = "completed" \/ (Past(s)' /\ NoTaskStep(s)')
           /\ row'[s].state # "absent" => row[s].state # "absent" \/ Awaited(s),
         ThreadInv(a)',
         Allowing => approvals'.pending = 0
  PROVE  OrderGoesOn
<1>1. ASSUME NEW s \in Step, Awaited(s) PROVE Awaited(s)'
  BY <1>1, DepsAreFirm DEF Awaited
<1>2. ASSUME NEW b \in Actor, b # a PROVE ThreadInv(b)'
  <2>1. /\ pc'[b] = pc[b] /\ item'[b] = item[b] /\ local'[b] = local[b]
        /\ ThreadInv(b)
    BY <1>2 DEF AloneMoves, OrderInv
  <2>2. item[b] \in Step /\ Target \in Step /\ local[b].ready \subseteq Step
    BY TargetIsStep DEF TypeInv, ThreadsOK, Locals
  <2>3. pc[b] = "return_step" => Past(item[b])' /\ NoTaskStep(item[b])'
    BY <2>1, <2>2 DEF ThreadInv
  <2>4. (pc[b] \in Asking => Awaited(Target)') /\ (\A s \in local[b].ready : Awaited(s)')
    BY <1>1, <2>1, <2>2 DEF ThreadInv
  <2>5. /\ pc[b] = "retry_step" => row'[item[b]].state = "queued" /\ ~row'[item[b]].due
        /\ pc[b] = "fail_step" => row'[item[b]].state = "failed"
    BY <1>2, <2>1 DEF ThreadInv
  <2>6. /\ pc[b] \in BeforeRaise => local[b].att >= 1
        /\ Allowing => pc[b] \notin Asking \cup TargetWrites
    BY <2>1 DEF ThreadInv
  <2> QED BY <2>1, <2>3, <2>4, <2>5, <2>6 DEF ThreadInv
<1>3. ASSUME NEW s \in Step PROVE StepInv(s)'
  <2>1. StepInv(s)
    BY DEF OrderInv
  <2> QED BY <1>1, <2>1 DEF StepInv
<1> QED BY <1>2, <1>3 DEF OrderGoesOn, OrderInv, FirmStays

\* The statements of a thread that has no row in its hands and no step to write.
Free ==
  {"idle", "pick", "lease", "retry_session", "fail_session", "next", "next_session",
   "drain", "scan", "filter", "enqueue", "items", "resume", "after", "approve_session",
   "reject_session", "return_session"}

\* Such a thread goes on, and may enqueue a step that was ready.
Goes(a) ==
  /\ AloneMoves(a) /\ pc[a] \in Free /\ pc'[a] \in Free
  /\ UNCHANGED <<step, tasks, approvals>>
  /\ row' = row \/ \E s \in local[a].ready : EnqueueRow(s)
  /\ \A s \in local'[a].ready : s \in local[a].ready \/ Awaited(s)

LEMMA EnqueueKeeps ==
  ASSUME LedgerTypeOK, NEW t \in Step, EnqueueRow(t), NEW s \in Step
  PROVE  /\ row[s].state # "absent" => row'[s] = row[s]
         /\ row'[s].state # "absent" => row[s].state # "absent" \/ s = t
         /\ row'[s].state = "leased" => row[s].state = "leased"
<1>1. CASE row' = row
  BY <1>1
<1>2. ASSUME row[t].state = "absent", NEW n \in Nat,
             BecomesRow(t, [AbsentRow EXCEPT !.state = "queued",
                              !.attempt = attempts[t], !.born = n])
      PROVE  /\ row[s].state # "absent" => row'[s] = row[s]
             /\ row'[s].state # "absent" => row[s].state # "absent" \/ s = t
             /\ row'[s].state = "leased" => row[s].state = "leased"
  <2>1. row'[t].state = "queued" /\ (s # t => row'[s] = row[s])
    BY <1>2 DEF BecomesRow, AbsentRow
  <2> QED BY <1>2, <2>1
<1> QED BY <1>1, <1>2, EnqueueRowEffect

LEMMA GoesOn ==
  ASSUME TypeInv, Steady, OrderInv, LeaseInHand', NEW a \in Actor, Goes(a)
  PROVE  OrderGoesOn
<1> USE DEF Goes
<1>1. /\ Free \cap (RowInHand \cup Busy \cup BeforeRaise \cup Asking \cup TargetWrites) = {}
      /\ Free \cap {"task_step", "retry_step", "fail_step", "return_step"} = {}
  BY DEF Free, RowInHand, Busy, BeforeRaise, Asking, TargetWrites
<1>2. /\ ThreadInv(a) /\ (\A s \in Step : StepInv(s)) /\ LedgerTypeOK
      /\ local[a].ready \subseteq Step
  BY DEF OrderInv, TypeInv, ThreadsOK, Locals
<1>3. ASSUME NEW s \in Step
      PROVE  /\ row[s].state # "absent" => row'[s] = row[s]
             /\ row'[s].state # "absent" => row[s].state # "absent" \/ Awaited(s)
             /\ row'[s].state = "leased" => row[s].state = "leased"
  <2>1. CASE row' = row
    BY <2>1
  <2>2. ASSUME NEW t \in local[a].ready, EnqueueRow(t)
        PROVE  /\ row[s].state # "absent" => row'[s] = row[s]
               /\ row'[s].state # "absent" => row[s].state # "absent" \/ Awaited(s)
               /\ row'[s].state = "leased" => row[s].state = "leased"
    <3>1. t \in Step /\ Awaited(t)
      BY <1>2 DEF ThreadInv
    <3> QED BY <1>2, <2>2, <3>1, EnqueueKeeps
  <2> QED BY <2>1, <2>2
<1>4. \A s \in Step : /\ Past(s) => Past(s)'
                      /\ Past(s) /\ NoTaskStep(s) => NoTaskStep(s)'
  <2>1. \A s \in Step : Past(s) => row'[s].state \in {"leased", "done"}
    BY <1>3 DEF Past
  <2> QED BY <1>1, <2>1, PastStays
<1>5. ASSUME NEW b \in Actor, b # a, pc[b] \in {"retry_step", "fail_step"}
      PROVE  row'[item[b]] = row[item[b]]
  <2>1. item[b] \in Step /\ ThreadInv(b)
    BY DEF TypeInv, ThreadsOK, OrderInv
  <2> QED BY <1>3, <1>5, <2>1 DEF ThreadInv
<1>6. ASSUME NEW s \in Step, row'[s].state = "leased" PROVE \E b \in Actor : Holds(b, s)'
  <2>1. PICK b \in Actor : Holds(b, s)
    BY <1>2, <1>3, <1>6 DEF StepInv
  <2>2. b # a
    BY <1>1, <2>1 DEF Holds
  <2> QED BY <2>1, <2>2 DEF Holds, AloneMoves
<1>7. ThreadInv(a)'
  <2>1. ASSUME NEW s, s \in local'[a].ready PROVE Awaited(s)'
    BY <1>2, <2>1 DEF ThreadInv, Awaited
  <2> QED BY <1>1, <2>1 DEF ThreadInv
<1>8. Allowing => approvals'.pending = 0
  BY DEF OrderInv
<1> QED BY <1>3, <1>4, <1>5, <1>6, <1>7, <1>8, OrderKept

LEMMA AloneWhileKept ==
  ASSUME TypeInv, NEW a \in Actor, NEW from, NEW to, Move(a, from, to),
         item' = item \/ \E i : item' = [item EXCEPT ![a] = i],
         local' = local \/ \E l : local' = [local EXCEPT ![a] = l]
  PROVE  /\ AloneMoves(a) /\ pc[a] = from /\ pc'[a] = to
         /\ \A l : local' = [local EXCEPT ![a] = l] => local'[a] = l
         /\ \A i : item' = [item EXCEPT ![a] = i] => item'[a] = i
  BY DEF TypeInv, ThreadsOK, Move, AloneMoves

LEMMA ContinueGoes ==
  ASSUME TypeInv, NEW a \in Actor, Continue(a)
  PROVE  Goes(a) \/ Refresh(a) \/ Close(a)
<1>1. /\ pc \in [Actor -> Label] /\ item \in [Actor -> Step] /\ local \in [Actor -> Locals]
      /\ pc[a] \in InLoop => local[a].stack # <<>>
      /\ local[a] \in Locals /\ FreshLocals.ready = {}
  BY DEF TypeInv, ThreadsOK, FreshLocals
<1>2. /\ {"resume", "next", "next_session", "drain", "scan", "filter", "enqueue", "items",
          "lease", "idle", "after", "pick"} \subseteq Free
  BY DEF Free
<1>3. ASSUME NEW from \in Free, NEW to \in Free, Move(a, from, to),
             item' = item \/ \E i : item' = [item EXCEPT ![a] = i],
             local' = local \/ \E l : /\ local' = [local EXCEPT ![a] = l]
                                      /\ l.ready \subseteq local[a].ready,
             row' = row \/ \E s \in local[a].ready : EnqueueRow(s),
             UNCHANGED <<step, tasks, approvals>>
      PROVE  Goes(a)
  <2>1. AloneMoves(a) /\ pc[a] = from /\ pc'[a] = to
    BY <1>3, AloneWhileKept
  <2>2. local'[a].ready \subseteq local[a].ready
    BY <1>1, <1>3
  <2> QED BY <1>3, <2>1, <2>2 DEF Goes
<1>4. ASSUME NEW from \in Free, Leave(a, from), UNCHANGED <<row, step, tasks, approvals>>
      PROVE  Goes(a)
  <2>1. Pop(a).ready = local[a].ready
    BY <1>1 DEF Pop, Locals
  <2> QED BY <1>2, <1>3, <1>4, <2>1 DEF Leave
<1>5. ASSUME NEW from \in Free, NEW to \in {"scan", "after"}, PickOldest(a, from, to)
      PROVE  Goes(a)
  BY <1>2, <1>3, <1>5 DEF PickOldest, ledgerVars, outside
<1>6. CASE ContinueAfter(a)
  <2>1. \A frame : Push(a, frame).ready = local[a].ready
    BY <1>1 DEF Push, Locals
  <2> QED BY <1>2, <1>3, <1>6, <2>1 DEF ContinueAfter, ledgerVars, outside
<1>7. CASE CheckPaused(a)
  BY <1>2, <1>3, <1>4, <1>7 DEF CheckPaused, Keep, ledgerVars, outside
<1>8. CASE Drain(a) \/ ResumeOuter(a)
  BY <1>2, <1>5, <1>8 DEF Drain, ResumeOuter
<1>9. CASE Scan(a)
  <2>1. /\ Move(a, "scan", "filter") /\ UNCHANGED <<row, step, tasks, approvals, item>>
        /\ local' = [local EXCEPT ![a] = [local[a] EXCEPT !.ready =
             {s \in Step : step[s] = "queued" /\ \A d \in Deps[s] : step[d] = "completed"}]]
    BY <1>1, <1>9 DEF Scan, ledgerVars, outside
  <2>2. \A s \in local'[a].ready : Awaited(s)
    BY <1>1, <2>1 DEF Locals, Awaited
  <2>3. AloneMoves(a) /\ pc[a] = "scan" /\ pc'[a] = "filter"
    BY <2>1, AloneWhileKept
  <2> QED BY <1>2, <2>1, <2>2, <2>3 DEF Goes
<1>10. CASE EnqueueAll(a) \/ EnqueueFirst(a)
  <2>1. Ready(a) \subseteq local[a].ready
    BY DEF Ready
  <2>2. /\ Move(a, "filter", "enqueue") /\ UNCHANGED <<row, step, tasks, approvals, item>>
        /\ \E ready, stack :
             /\ ready \subseteq local[a].ready
             /\ \/ local' = [local EXCEPT ![a] = [local[a] EXCEPT !.ready = ready,
                                                                  !.stack = stack]]
                \/ local' = [local EXCEPT ![a] = [local[a] EXCEPT !.ready = ready]]
    <3>1. CASE EnqueueAll(a)
      BY <1>1, <2>1, <3>1 DEF EnqueueAll, ledgerVars, outside
    <3>2. CASE EnqueueFirst(a)
      <4>1. PICK s \in Step :
              /\ IsFirst(s, Ready(a))
              /\ local' = [local EXCEPT ![a] = [local[a] EXCEPT !.ready = {s}]]
        BY <1>1, <3>2 DEF EnqueueFirst
      <4>2. {s} \subseteq local[a].ready
        BY <2>1, <4>1 DEF IsFirst
      <4> QED BY <3>2, <4>1, <4>2 DEF EnqueueFirst, ledgerVars, outside
    <3> QED BY <1>10, <3>1, <3>2
  <2>3. \E l : local' = [local EXCEPT ![a] = l] /\ l.ready \subseteq local[a].ready
    <3>1. PICK ready, stack :
             /\ ready \subseteq local[a].ready
             /\ \/ local' = [local EXCEPT ![a] = [local[a] EXCEPT !.ready = ready,
                                                                  !.stack = stack]]
                \/ local' = [local EXCEPT ![a] = [local[a] EXCEPT !.ready = ready]]
      BY <2>2
    <3>2. CASE local' = [local EXCEPT ![a] = [local[a] EXCEPT !.ready = ready, !.stack = stack]]
      <4> WITNESS [local[a] EXCEPT !.ready = ready, !.stack = stack]
      <4>1. [local[a] EXCEPT !.ready = ready, !.stack = stack].ready = ready
        BY <1>1 DEF Locals
      <4> QED BY <3>1, <3>2, <4>1
    <3>3. CASE local' = [local EXCEPT ![a] = [local[a] EXCEPT !.ready = ready]]
      <4> WITNESS [local[a] EXCEPT !.ready = ready]
      <4>1. [local[a] EXCEPT !.ready = ready].ready = ready
        BY <1>1 DEF Locals
      <4> QED BY <3>1, <3>3, <4>1
    <3> QED BY <3>1, <3>2, <3>3
  <2> QED BY <1>2, <1>3, <2>2, <2>3
<1>11. CASE MissingReady(a)
  BY <1>2, <1>3, <1>11 DEF MissingReady, ledgerVars, outside
<1>12. CASE NothingReady(a)
  BY <1>2, <1>4, <1>12 DEF NothingReady, outside
<1>13. CASE EnqueueOne(a)
  <2>1. PICK s \in Step :
          /\ IsFirst(s, local[a].ready) /\ EnqueueRow(s)
          /\ \E to \in {"enqueue", "lease", "items", "resume"} : Move(a, "enqueue", to)
          /\ item' = item \/ \E i : item' = [item EXCEPT ![a] = i]
          /\ \E ready, stack :
               /\ ready \subseteq local[a].ready
               /\ \/ local' = [local EXCEPT ![a] = [local[a] EXCEPT !.ready = ready]]
                  \/ local' = [local EXCEPT ![a] = [[local[a] EXCEPT !.ready = ready]
                                                      EXCEPT !.stack = stack]]
    BY <1>1, <1>13, Zenon DEF EnqueueOne
  <2>2. UNCHANGED <<step, tasks, approvals>> /\ s \in local[a].ready
    BY <1>13, <2>1 DEF EnqueueOne, outside, IsFirst
  <2>3. \E l : local' = [local EXCEPT ![a] = l] /\ l.ready \subseteq local[a].ready
    <3>1. PICK ready, stack :
             /\ ready \subseteq local[a].ready
             /\ \/ local' = [local EXCEPT ![a] = [local[a] EXCEPT !.ready = ready]]
                \/ local' = [local EXCEPT ![a] = [[local[a] EXCEPT !.ready = ready]
                                                    EXCEPT !.stack = stack]]
      BY <2>1
    <3>2. CASE local' = [local EXCEPT ![a] = [local[a] EXCEPT !.ready = ready]]
      <4> WITNESS [local[a] EXCEPT !.ready = ready]
      <4>1. [local[a] EXCEPT !.ready = ready].ready = ready
        BY <1>1 DEF Locals
      <4> QED BY <3>1, <3>2, <4>1
    <3>3. CASE local' = [local EXCEPT ![a] = [[local[a] EXCEPT !.ready = ready] EXCEPT !.stack = stack]]
      <4> WITNESS [[local[a] EXCEPT !.ready = ready] EXCEPT !.stack = stack]
      <4>1. [[local[a] EXCEPT !.ready = ready] EXCEPT !.stack = stack].ready = ready
        BY <1>1 DEF Locals
      <4> QED BY <3>1, <3>3, <4>1
    <3> QED BY <3>1, <3>2, <3>3
  <2> QED BY <1>2, <1>3, <2>1, <2>2, <2>3
<1>14. CASE RunNextItem(a)
  <2>1. \A stack : [local[a] EXCEPT !.stack = stack].ready = local[a].ready
    BY <1>1 DEF Locals
  <2>2. UNCHANGED <<row, step, tasks, approvals>>
    BY <1>14 DEF RunNextItem, ledgerVars, outside
  <2>3. CASE Leave(a, "items")
    BY <1>2, <1>4, <2>2, <2>3
  <2>4. CASE /\ Move(a, "items", "lease") /\ \E s \in Step : item' = [item EXCEPT ![a] = s]
             /\ \E stack : local' = [local EXCEPT ![a] = [local[a] EXCEPT !.stack = stack]]
    BY <1>2, <1>3, <2>1, <2>2, <2>4
  <2> QED BY <1>1, <1>14, <2>3, <2>4 DEF RunNextItem
<1>15. CASE ResumeWorker(a)
  BY <1>1, <1>2, <1>3, <1>15 DEF ResumeWorker, ledgerVars, outside
<1>16. CASE ResumeInner(a)
  <2>1. UNCHANGED <<row, step, tasks, approvals>>
    BY <1>16 DEF ResumeInner, ledgerVars, outside
  <2>2. CASE Leave(a, "resume")
    BY <1>2, <1>4, <2>1, <2>2
  <2>3. CASE Move(a, "resume", Top(a).loop) /\ Keep(a)
    <3>1. Top(a).loop \in {"drain", "items", "enqueue"}
      BY <1>16, StackType DEF TypeInv, ResumeInner, Outer, Frame
    <3> QED BY <1>2, <1>3, <2>1, <2>3, <3>1 DEF Keep
  <2> QED BY <1>16, <2>2, <2>3 DEF ResumeInner
<1>17. CASE After(a)
  <2>1. \E to \in {"pick", "resume", "idle"} : Move(a, "after", to)
    BY <1>17 DEF After, EndCall
  <2>2. UNCHANGED <<row, step, tasks, approvals, item>>
    BY <1>17 DEF After, ledgerVars, outside
  <2>3. \E l : local' = [local EXCEPT ![a] = l] /\ l.ready \subseteq local[a].ready
    <3>1. \A rounds, stack : /\ [local[a] EXCEPT !.rounds = rounds].ready = local[a].ready
                             /\ [local[a] EXCEPT !.stack = stack].ready = local[a].ready
      BY <1>1 DEF Locals
    <3>2. \/ \E rounds : local' = [local EXCEPT ![a] = [local[a] EXCEPT !.rounds = rounds]]
          \/ \E stack : local' = [local EXCEPT ![a] = [local[a] EXCEPT !.stack = stack]]
          \/ local' = [local EXCEPT ![a] = FreshLocals]
      BY <1>1, <1>17 DEF After, EndCall
    <3> QED BY <1>1, <3>1, <3>2
  <2> QED BY <1>2, <1>3, <2>1, <2>2, <2>3
<1> QED
  BY <1>6, <1>7, <1>8, <1>9, <1>10, <1>11, <1>12, <1>13, <1>14, <1>15, <1>16, <1>17
  DEF Continue

\* A thread takes the row of a step in hand: it is not past.
LEMMA TakesOn ==
  ASSUME TypeInv, Steady, OrderInv, LeaseInHand', NEW a \in Actor, NEW s \in Step,
         AloneMoves(a), pc[a] \in Free, pc'[a] = "start", item'[a] = s,
         Eligible(s), LeaseRow(s, a), UNCHANGED <<step, tasks, approvals>>,
         local'[a].att >= 1, local'[a].ready \subseteq local[a].ready
  PROVE  OrderGoesOn
<1>1. /\ Free \cap RowInHand = {} /\ "start" \in RowInHand
      /\ "start" \notin Asking \cup TargetWrites \cup {"retry_step", "fail_step", "return_step"}
  BY DEF Free, RowInHand, Asking, TargetWrites
<1>2. /\ ThreadInv(a) /\ (\A t \in Step : StepInv(t)) /\ LedgerTypeOK
      /\ local[a].ready \subseteq Step
  BY DEF OrderInv, TypeInv, ThreadsOK, Locals
<1>3. /\ row'[s].state = "leased"
      /\ \A t \in Step : t # s => row'[t] = row[t]
  BY <1>2, LeaseRowEffect DEF BecomesRow, LedgerTypeOK, Row
<1>4. ~Past(s) /\ row[s].state \in {"queued", "leased"}
  BY PastNotEligible DEF Eligible
<1>5. \A t \in Step : /\ Past(t) => Past(t)'
                      /\ Past(t) /\ NoTaskStep(t) => NoTaskStep(t)'
  <2>1. \A t \in Step : Past(t) => row'[t].state \in {"leased", "done"}
    BY <1>3, <1>4 DEF Past
  <2> QED BY <1>4, <2>1, PastStays
<1>6. ASSUME NEW b \in Actor, b # a, pc[b] \in {"retry_step", "fail_step"}
      PROVE  row'[item[b]] = row[item[b]]
  <2>1. item[b] \in Step /\ ThreadInv(b)
    BY DEF TypeInv, ThreadsOK, OrderInv
  <2>2. item[b] # s
    BY <1>6, <2>1 DEF ThreadInv, Eligible
  <2> QED BY <1>3, <2>1, <2>2
<1>7. ASSUME NEW t \in Step, row'[t].state = "leased" PROVE \E b \in Actor : Holds(b, t)'
  <2>1. CASE t = s
    BY <1>1, <2>1 DEF Holds
  <2>2. CASE t # s
    <3>1. PICK b \in Actor : Holds(b, t)
      BY <1>2, <1>3, <1>7, <2>2 DEF StepInv
    <3>2. b # a
      BY <1>1, <3>1 DEF Holds
    <3> QED BY <3>1, <3>2 DEF Holds, AloneMoves
  <2> QED BY <2>1, <2>2
<1>8. ThreadInv(a)'
  <2>1. ASSUME NEW t, t \in local'[a].ready PROVE Awaited(t)'
    BY <1>2, <2>1 DEF ThreadInv, Awaited
  <2> QED BY <1>1, <2>1 DEF ThreadInv
<1>9. \A t \in Step : row'[t].state # "absent" => row[t].state # "absent"
  BY <1>3, <1>4
<1>10. Allowing => approvals'.pending = 0
  BY DEF OrderInv
<1> QED BY <1>5, <1>6, <1>7, <1>8, <1>9, <1>10, OrderKept

\* A thread works on the row it has in hand.
LEMMA WorksOnRow ==
  ASSUME TypeInv, Steady, OrderInv, LeaseInHand', NEW a \in Actor, AloneMoves(a),
         pc[a] \in RowInHand, pc'[a] \in RowInHand, item'[a] = item[a],
         local'[a].ready = local[a].ready, local'[a].att = local[a].att,
         row' = row \/ (EnqueueRow(Target) /\ Awaited(Target)),
         pc'[a] \in Busy \cup {"task_step"} => pc[a] \in Busy,
         pc'[a] \in BeforeRaise => pc[a] \in BeforeRaise,
         pc'[a] \in Asking => Awaited(Target)',
         Allowing => pc'[a] \notin Asking \cup TargetWrites /\ approvals'.pending = 0,
         \A s \in Step :
           /\ Firm(s) /\ step[s] = "completed" => step'[s] = "completed"
           /\ step'[s] = "completed" =>
                \/ step[s] = "completed"
                \/ s = item[a] /\ pc'[a] \notin Busy \cup {"task_step"}
           /\ tasks'[s] > 0 => tasks[s] > 0 \/ (s = item[a] /\ pc'[a] \notin Busy)
  PROVE  OrderGoesOn
<1>1. RowInHand \cap {"retry_step", "fail_step", "return_step"} = {}
  BY DEF RowInHand
<1>2. /\ ThreadInv(a) /\ (\A t \in Step : StepInv(t)) /\ LedgerTypeOK
      /\ local[a].ready \subseteq Step /\ Target \in Step /\ item[a] \in Step
  BY TargetIsStep DEF OrderInv, TypeInv, ThreadsOK, Locals
<1>3. ASSUME NEW s \in Step
      PROVE  /\ row[s].state # "absent" => row'[s] = row[s]
             /\ row'[s].state # "absent" => row[s].state # "absent" \/ Awaited(s)
             /\ row'[s].state = "leased" => row[s].state = "leased"
  BY <1>2, EnqueueKeeps
<1>4. \A s \in Step : /\ Past(s) => Past(s)'
                      /\ Past(s) /\ NoTaskStep(s) => NoTaskStep(s)'
  <2>1. \A s \in Step : Past(s) => row'[s].state \in {"leased", "done"}
    BY <1>3 DEF Past
  <2> QED BY <2>1, PastStays
<1>5. ASSUME NEW b \in Actor, b # a, pc[b] \in {"retry_step", "fail_step"}
      PROVE  row'[item[b]] = row[item[b]]
  <2>1. item[b] \in Step /\ ThreadInv(b)
    BY DEF TypeInv, ThreadsOK, OrderInv
  <2> QED BY <1>3, <1>5, <2>1 DEF ThreadInv
<1>6. ASSUME NEW s \in Step, row'[s].state = "leased" PROVE \E b \in Actor : Holds(b, s)'
  <2>1. PICK b \in Actor : Holds(b, s)
    BY <1>2, <1>3, <1>6 DEF StepInv
  <2> QED BY <2>1 DEF Holds, AloneMoves
<1>7. /\ pc'[a] \notin Busy => Past(item[a])'
      /\ pc'[a] # "task_step" => NoTaskStep(item[a])'
  <2>1. Holds(a, item[a]) /\ row[item[a]].state = "leased"
    BY <1>2 DEF Holds, OrderInv, LeaseInHand
  <2>2. ASSUME NEW b \in Actor, b # a, item[b] = item[a]
        PROVE  pc'[b] \notin Busy \cup {"task_step"}
    <3>1. pc[b] \notin RowInHand \cup {"retry_step", "fail_step"}
      BY <1>2, <2>1, <2>2, OnlyHolder
    <3> QED BY <2>2, <3>1 DEF AloneMoves, Busy, RowInHand
  <2> QED BY <1>2, <1>3, <2>1, <2>2 DEF Past, NoTaskStep, AloneMoves
<1>8. ThreadInv(a)'
  <2>1. ASSUME NEW s, s \in local'[a].ready PROVE Awaited(s)'
    BY <1>2, <2>1, DepsAreFirm DEF ThreadInv, Awaited
  <2> QED BY <1>1, <1>2, <2>1 DEF ThreadInv
<1> QED BY <1>3, <1>4, <1>5, <1>6, <1>7, <1>8, OrderKept

\* It writes the state of a step, and nothing else that the invariant is about.
LEMMA WritesStep ==
  ASSUME TypeInv, Steady, OrderInv, LeaseInHand', NEW a \in Actor,
         NEW from \in RowInHand, NEW to \in RowInHand, Move(a, from, to),
         NEW s \in Step, NEW st, step' = [step EXCEPT ![s] = st],
         UNCHANGED <<row, tasks, approvals, item>>,
         local' = local \/ \E l : /\ local' = [local EXCEPT ![a] = l]
                                  /\ l.ready = local[a].ready /\ l.att = local[a].att,
         to \in Busy \cup {"task_step"} => from \in Busy,
         to \in BeforeRaise => from \in BeforeRaise,
         to \in Asking => Awaited(Target)',
         Allowing => to \notin Asking \cup TargetWrites,
         Firm(s) /\ step[s] = "completed" => st = "completed",
         st = "completed" => s = item[a] /\ to \notin Busy \cup {"task_step"}
  PROVE  OrderGoesOn
<1>1. AloneMoves(a) /\ pc[a] = from /\ pc'[a] = to /\ item'[a] = item[a]
  BY AloneWhileKept
<1>2. local'[a].ready = local[a].ready /\ local'[a].att = local[a].att
  BY DEF TypeInv, ThreadsOK
<1>3. ASSUME NEW t \in Step
      PROVE  /\ Firm(t) /\ step[t] = "completed" => step'[t] = "completed"
             /\ step'[t] = "completed" =>
                  \/ step[t] = "completed"
                  \/ t = item[a] /\ pc'[a] \notin Busy \cup {"task_step"}
  BY <1>1 DEF TypeInv, LedgerTypeOK
<1>4. Allowing => approvals'.pending = 0
  BY DEF OrderInv
<1> QED BY <1>1, <1>2, <1>3, <1>4, WorksOnRow

LEMMA HandleOrder ==
  ASSUME TypeInv, Steady, OrderInv, LeaseInHand', NEW a \in Actor, Handle(a)
  PROVE  OrderGoesOn
<1>1. /\ item[a] \in Step /\ Target \in Step /\ ThreadInv(a) /\ StepInv(item[a])
      /\ LedgerTypeOK /\ local[a] \in Locals /\ local \in [Actor -> Locals]
      /\ pc \in [Actor -> Label]
  BY TargetIsStep DEF TypeInv, ThreadsOK, OrderInv
<1>2. /\ {"start", "mark", "run", "invoked"} = BeforeRaise
      /\ BeforeRaise \subseteq Busy \cap RowInHand
      /\ {"refresh", "ask_row", "deny_session", "deny_step", "ask", "ask_step",
          "ask_session", "task_step", "task_session"} \subseteq RowInHand \ Busy
      /\ Asking = {"ask", "ask_step", "ask_session", "ask_row"}
      /\ TargetWrites = {"deny_step", "approve_step", "reject_step"}
      /\ {"lease", "resume", "pick", "scan", "idle"} \subseteq Free
  BY DEF RowInHand, BeforeRaise, Busy, Asking, TargetWrites, Free
<1>20. /\ {"refresh", "deny_session", "task_session"}
             \cap (Busy \cup {"task_step"} \cup BeforeRaise \cup Asking \cup TargetWrites) = {}
       /\ {"ask", "deny_step"} \cap (Busy \cup {"task_step"} \cup BeforeRaise) = {}
       /\ "deny_step" \notin Asking
       /\ {"refresh", "deny_session", "task_session", "ask", "deny_step", "run", "invoked",
           "task_step"} \subseteq RowInHand
  BY DEF RowInHand, BeforeRaise, Busy, Asking, TargetWrites
<1>3. pc[a] \in Busy => ~Past(item[a])
  BY DEF Past
<1>4. ASSUME NEW from \in RowInHand, NEW to \in RowInHand, Move(a, from, to),
             UNCHANGED <<row, step, tasks, approvals, item, local>>,
             to \in Busy \cup {"task_step"} => from \in Busy,
             to \in BeforeRaise => from \in BeforeRaise,
             to \in Asking => from \in Asking, to \notin TargetWrites
      PROVE  OrderGoesOn
  <2>1. AloneMoves(a) /\ pc[a] = from /\ pc'[a] = to
    BY <1>4, AloneWhileKept
  <2>2. (to \in Asking => Awaited(Target)') /\ (Allowing => to \notin Asking \cup TargetWrites)
    BY <1>1, <1>4, <2>1 DEF ThreadInv, Awaited
  <2>3. Allowing => approvals'.pending = 0
    BY <1>4 DEF OrderInv
  <2> QED BY <1>4, <2>1, <2>2, <2>3, WorksOnRow
<1>5. CASE Lease(a)
  <2>1. CASE Eligible(item[a])
    <3>1. /\ Move(a, "lease", "start") /\ TakeRow(a, item[a])
          /\ local' = [local EXCEPT ![a] = [local[a] EXCEPT !.att = NextAttempt(item[a])]]
      BY <1>1, <1>5, <2>1 DEF Lease
    <3>2. /\ AloneMoves(a) /\ pc[a] = "lease" /\ pc'[a] = "start" /\ item'[a] = item[a]
          /\ local'[a] = [local[a] EXCEPT !.att = NextAttempt(item[a])]
      BY <1>1, <3>1, AloneWhileKept DEF TakeRow, TypeInv, ThreadsOK
    <3>3. local'[a].att >= 1 /\ local'[a].ready = local[a].ready
      BY <1>1, <3>2, NextAttemptBounds DEF Locals
    <3> QED BY <1>1, <1>2, <2>1, <3>1, <3>2, <3>3, TakesOn DEF TakeRow, outside
  <2>2. CASE ~Eligible(item[a])
    <3>1. Move(a, "lease", "resume") /\ UNCHANGED <<row, step, tasks, approvals, item, local>>
      BY <1>5, <2>2 DEF Lease, ledgerVars, outside
    <3>2. Goes(a)
      BY <1>2, <3>1, AloneWhileKept DEF Goes
    <3> QED BY <3>2, GoesOn
  <2> QED BY <2>1, <2>2
<1>6. CASE Pick(a)
  <2>1. /\ \E to \in {"lease", "scan"} : Move(a, "pick", to)
        /\ UNCHANGED <<row, step, tasks, approvals, local>>
        /\ item' = item \/ \E i : item' = [item EXCEPT ![a] = i]
    BY <1>6 DEF Pick, PickOldest, ledgerVars, outside
  <2>2. Goes(a)
    BY <1>2, <2>1, AloneWhileKept DEF Goes
  <2> QED BY <2>2, GoesOn
<1>7. CASE Start(a) \/ DenySession(a) \/ AskSession(a) \/ TaskSession(a)
  BY <1>2, <1>4, <1>7
  DEF Start, DenySession, AskSession, TaskSession, SessionWrite, outside
<1>8. CASE Mark(a)
  <2>1. /\ Move(a, "mark", "run") /\ step' = [step EXCEPT ![item[a]] = "running"]
        /\ UNCHANGED <<row, tasks, approvals, item, local>>
    BY <1>8 DEF Mark, UpdateStep, outside
  <2>2. step[item[a]] # "completed"
    BY <1>1, <1>2, <1>3, <2>1 DEF Move, StepInv
  <2> QED BY <1>1, <1>2, <2>1, <2>2, WritesStep
<1>9. ASSUME NEW to \in {"refresh", "deny_step"}, to = "deny_step" => ~Allowing,
             StepWrite(a, "run", item[a], "completed", to)
      PROVE  OrderGoesOn
  <2>1. /\ Move(a, "run", to) /\ step' = [step EXCEPT ![item[a]] = "completed"]
        /\ UNCHANGED <<row, tasks, approvals, item, local>>
    BY <1>9 DEF StepWrite, UpdateStep, outside
  <2>2. /\ "run" \in RowInHand /\ to \in RowInHand /\ to \notin Asking
        /\ to \notin Busy \cup {"task_step"} /\ to \notin BeforeRaise
        /\ Allowing => to \notin Asking \cup TargetWrites
    BY <1>20, <1>9
  <2> QED BY <1>1, <2>1, <2>2, WritesStep
<1>10. CASE Prepare(a) \/ SkipMemory(a)
  BY <1>9, <1>10 DEF Prepare, SkipMemory
<1>11. CASE Policy(a)
  <2>1. verdict \in {"allow", "approval", "deny"} /\ (Allowing => verdict = "allow")
    BY RuntimeAssumption DEF TypeInv, OutsideOK, Allowing
  <2>2. CASE verdict \in {"allow", "deny"}
    BY <1>9, <1>11, <2>1, <2>2 DEF Policy
  <2>3. CASE verdict = "approval"
    <3>1. /\ Move(a, "run", "ask") /\ step' = [step EXCEPT ![item[a]] = "completed"]
          /\ UNCHANGED <<row, tasks, approvals, item, local>> /\ Kind[item[a]] = "policy"
      BY <1>11, <2>3 DEF Policy, StepWrite, UpdateStep, outside
    <3>2. ~Allowing
      BY <2>1, <2>3
    <3>3. Awaited(item[a])
      <4>1. Holds(a, item[a])
        BY <1>2, <3>1 DEF Move, Holds
      <4>2. row[item[a]].state = "leased"
        BY <1>1, <4>1 DEF OrderInv, LeaseInHand
      <4> QED BY <1>1, <4>2 DEF StepInv
    <3>4. Awaited(Target)'
      <4> SUFFICES ASSUME NEW d \in Deps[Target] PROVE step'[d] = "completed"
        BY DEF Awaited
      <4>1. d \in Step /\ d \in Deps[item[a]] \cup {item[a]}
        BY <1>1, <3>1, <3>2, DepsAreFirm DEF Steady
      <4>2. d # item[a] => step[d] = "completed"
        BY <3>3, <4>1 DEF Awaited
      <4> QED BY <1>1, <3>1, <4>1, <4>2 DEF LedgerTypeOK
    <3> QED BY <1>1, <1>20, <3>1, <3>2, <3>4, WritesStep
  <2> QED BY <2>1, <2>2, <2>3
<1>12. CASE DenyStep(a)
  <2>1. /\ Move(a, "deny_step", "deny_session") /\ step' = [step EXCEPT ![Target] = "blocked"]
        /\ UNCHANGED <<row, tasks, approvals, item, local>>
    BY <1>12 DEF DenyStep, StepWrite, UpdateStep, outside
  <2>2. ~Firm(Target)
    BY <1>1, <1>2, <2>1 DEF Move, ThreadInv, Firm
  <2> QED BY <1>1, <1>20, <2>1, <2>2, WritesStep
<1>13. CASE AskStep(a)
  <2>1. /\ Move(a, "ask_step", "ask_session")
        /\ step' = [step EXCEPT ![Target] = "waiting_approval"]
        /\ UNCHANGED <<row, tasks, approvals, item, local>>
    BY <1>13 DEF AskStep, UpdateStep, outside
  <2>2. ~Firm(Target) /\ ~Allowing /\ Awaited(Target)
    BY <1>1, <1>2, <2>1 DEF Move, ThreadInv, Firm
  <2>3. Awaited(Target)'
    BY <1>1, <2>1, <2>2, DepsAreFirm DEF Awaited, LedgerTypeOK
  <2> QED BY <1>1, <1>2, <2>1, <2>2, <2>3, WritesStep
<1>14. CASE Ask(a)
  <2>1. Move(a, "ask", "ask_step") /\ UNCHANGED <<row, step, tasks, item, local>>
    BY <1>14 DEF Ask, ledgerVars
  <2>2. AloneMoves(a) /\ pc[a] = "ask" /\ pc'[a] = "ask_step"
    BY <2>1, AloneWhileKept
  <2>3. ~Allowing /\ Awaited(Target)'
    BY <1>1, <1>2, <2>1, <2>2 DEF ThreadInv, Awaited
  <2> QED BY <1>2, <2>1, <2>2, <2>3, WorksOnRow
<1>15. CASE AskRow(a)
  <2>1. /\ Move(a, "ask_row", "refresh") /\ EnqueueRow(Target)
        /\ UNCHANGED <<step, tasks, approvals, item, local>>
    BY <1>15 DEF AskRow, outside
  <2>2. AloneMoves(a) /\ pc[a] = "ask_row" /\ pc'[a] = "refresh"
    BY <2>1, AloneWhileKept
  <2>3. ~Allowing /\ Awaited(Target)
    BY <1>1, <1>2, <2>2 DEF ThreadInv
  <2> QED BY <1>2, <2>1, <2>2, <2>3, WorksOnRow
<1>16. CASE Invoke(a)
  BY <1>2, <1>4, <1>16 DEF Invoke, ledgerVars
<1>17. CASE FinishEffect(a)
  <2>1. /\ Move(a, "invoked", "refresh") /\ step' = [step EXCEPT ![item[a]] = "completed"]
        /\ UNCHANGED <<row, tasks, approvals, item>>
        /\ \E artifact : local' = [local EXCEPT ![a] = [local[a] EXCEPT !.artifact = artifact]]
    BY <1>1, <1>17 DEF FinishEffect, UpdateStep, outside
  <2>2. \E l : /\ local' = [local EXCEPT ![a] = l]
               /\ l.ready = local[a].ready /\ l.att = local[a].att
    <3>1. PICK artifact :
            local' = [local EXCEPT ![a] = [local[a] EXCEPT !.artifact = artifact]]
      BY <2>1
    <3> WITNESS [local[a] EXCEPT !.artifact = artifact]
    <3> QED BY <1>1, <3>1 DEF Locals
  <2> QED BY <1>1, <1>20, <2>1, <2>2, WritesStep
<1>18. CASE CreateTask(a)
  <2>1. /\ Move(a, "run", "task_step") /\ UNCHANGED <<row, step, approvals, item, local>>
        /\ tasks' = [tasks EXCEPT ![item[a]] = @ + 1]
    BY <1>18 DEF CreateTask, ledgerVars
  <2>2. AloneMoves(a) /\ pc[a] = "run" /\ pc'[a] = "task_step"
    BY <2>1, AloneWhileKept
  <2>3. ASSUME NEW s \in Step, tasks'[s] > 0 PROVE tasks[s] > 0 \/ s = item[a]
    BY <2>1, <2>3 DEF TypeInv, OutsideOK
  <2>4. Allowing => approvals'.pending = 0
    BY <2>1 DEF OrderInv
  <2> QED BY <1>2, <2>1, <2>2, <2>3, <2>4, WorksOnRow
<1>19. CASE TaskStep(a)
  <2>1. /\ Move(a, "task_step", "task_session")
        /\ step' = [step EXCEPT ![item[a]] = "waiting_human"]
        /\ UNCHANGED <<row, tasks, approvals, item, local>>
    BY <1>19 DEF TaskStep, StepWrite, UpdateStep, outside
  <2>2. step[item[a]] # "completed"
    BY <1>1, <2>1 DEF Move, StepInv, NoTaskStep
  <2> QED BY <1>1, <1>20, <2>1, <2>2, WritesStep
<1> QED
  BY <1>5, <1>6, <1>7, <1>8, <1>10, <1>11, <1>12, <1>13, <1>14, <1>15, <1>16, <1>17, <1>18,
     <1>19 DEF Handle

\* A thread lets the row it has in hand go, and stays at its step or leaves it.
LEMMA LetsGo ==
  ASSUME TypeInv, Steady, OrderInv, LeaseInHand', NEW a \in Actor, AloneMoves(a),
         pc[a] \in RowInHand, item'[a] = item[a], local'[a].ready = local[a].ready,
         pc'[a] \in Free \cup {"retry_step", "fail_step"},
         UNCHANGED <<step, tasks, approvals>>,
         \A t \in Step : t # item[a] => row'[t] = row[t],
         row'[item[a]].state \notin {"leased", "absent"},
         pc[a] \in Busy \/ (row'[item[a]].state = "done" /\ pc'[a] \in Free),
         pc'[a] = "retry_step" => row'[item[a]].state = "queued" /\ ~row'[item[a]].due,
         pc'[a] = "fail_step" => row'[item[a]].state = "failed"
  PROVE  OrderGoesOn
<1>1. /\ Free \cap (RowInHand \cup Busy \cup BeforeRaise \cup Asking \cup TargetWrites) = {}
      /\ Free \cap {"task_step", "retry_step", "fail_step", "return_step"} = {}
      /\ {"retry_step", "fail_step"} \cap (BeforeRaise \cup Asking \cup TargetWrites) = {}
  BY DEF Free, RowInHand, Busy, BeforeRaise, Asking, TargetWrites
<1>2. /\ ThreadInv(a) /\ (\A t \in Step : StepInv(t)) /\ item[a] \in Step
      /\ local[a].ready \subseteq Step
  BY DEF OrderInv, TypeInv, ThreadsOK, Locals
<1>3. Holds(a, item[a]) /\ row[item[a]].state = "leased"
  BY <1>2 DEF Holds, OrderInv, LeaseInHand
<1>4. \A s \in Step : /\ Past(s) => Past(s)'
                      /\ Past(s) /\ NoTaskStep(s) => NoTaskStep(s)'
  <2>1. pc[a] \in Busy => ~Past(item[a])
    BY DEF Past
  <2>2. \A s \in Step : Past(s) => row'[s].state \in {"leased", "done"}
    BY <1>2, <2>1 DEF Past
  <2> QED BY <1>1, <2>2, PastStays
<1>5. ASSUME NEW b \in Actor, b # a, pc[b] \in {"retry_step", "fail_step"}
      PROVE  row'[item[b]] = row[item[b]]
  <2>1. item[b] \in Step /\ ThreadInv(b)
    BY DEF TypeInv, ThreadsOK, OrderInv
  <2>2. item[b] # item[a]
    BY <1>3, <1>5, <2>1 DEF ThreadInv
  <2> QED BY <2>1, <2>2
<1>6. ASSUME NEW s \in Step, row'[s].state = "leased" PROVE \E b \in Actor : Holds(b, s)'
  <2>1. s # item[a]
    BY <1>6
  <2>2. PICK b \in Actor : Holds(b, s)
    BY <1>2, <1>6, <2>1 DEF StepInv
  <2>3. b # a
    BY <2>1, <2>2 DEF Holds
  <2> QED BY <2>2, <2>3 DEF Holds, AloneMoves
<1>7. ThreadInv(a)'
  <2>1. ASSUME NEW s, s \in local'[a].ready PROVE Awaited(s)'
    BY <1>2, <2>1 DEF ThreadInv, Awaited
  <2> QED BY <1>1, <2>1 DEF ThreadInv
<1>8. \A s \in Step : row'[s].state # "absent" => row[s].state # "absent"
  BY <1>2, <1>3
<1>9. Allowing => approvals'.pending = 0
  BY DEF OrderInv
<1> QED BY <1>4, <1>5, <1>6, <1>7, <1>8, <1>9, OrderKept

\* A thread without a row in its hands writes the state of a step.
LEMMA WritesBack ==
  ASSUME TypeInv, Steady, OrderInv, LeaseInHand', NEW a \in Actor,
         NEW from, NEW to \in Free, from \notin RowInHand, Move(a, from, to),
         NEW s \in Step, NEW st, step' = [step EXCEPT ![s] = st],
         UNCHANGED <<row, tasks, approvals, item, local>>,
         Firm(s) /\ step[s] = "completed" => st = "completed",
         st = "completed" => Past(s) /\ NoTaskStep(s)
  PROVE  OrderGoesOn
<1>1. /\ Free \cap (RowInHand \cup Busy \cup BeforeRaise \cup Asking \cup TargetWrites) = {}
      /\ Free \cap {"task_step", "retry_step", "fail_step", "return_step"} = {}
  BY DEF Free, RowInHand, Busy, BeforeRaise, Asking, TargetWrites
<1>2. /\ ThreadInv(a) /\ (\A t \in Step : StepInv(t)) /\ LedgerTypeOK
      /\ local[a].ready \subseteq Step
  BY DEF OrderInv, TypeInv, ThreadsOK, Locals
<1>3. AloneMoves(a) /\ pc[a] = from /\ pc'[a] = to
  BY AloneWhileKept
<1>4. \A t \in Step : /\ Past(t) => Past(t)'
                      /\ Past(t) /\ NoTaskStep(t) => NoTaskStep(t)'
  <2>1. \A t \in Step : Past(t) => row'[t].state \in {"leased", "done"}
    BY DEF Past
  <2> QED BY <1>1, <1>3, <2>1, PastStays
<1>5. ASSUME NEW t \in Step
      PROVE  /\ Firm(t) /\ step[t] = "completed" => step'[t] = "completed"
             /\ step'[t] = "completed" => step[t] = "completed" \/ (Past(t)' /\ NoTaskStep(t)')
  BY <1>2, <1>4 DEF LedgerTypeOK
<1>6. ASSUME NEW t \in Step, row'[t].state = "leased" PROVE \E b \in Actor : Holds(b, t)'
  <2>1. PICK b \in Actor : Holds(b, t)
    BY <1>2, <1>6 DEF StepInv
  <2>2. b # a
    BY <1>3, <2>1 DEF Holds
  <2> QED BY <2>1, <2>2 DEF Holds, AloneMoves, Move
<1>7. ThreadInv(a)'
  <2>1. ASSUME NEW t, t \in local'[a].ready PROVE Awaited(t)'
    BY <1>2, <1>5, <2>1, DepsAreFirm DEF ThreadInv, Awaited
  <2> QED BY <1>1, <1>3, <2>1 DEF ThreadInv
<1>8. Allowing => approvals'.pending = 0
  BY DEF OrderInv
<1> QED BY <1>3, <1>4, <1>5, <1>6, <1>7, <1>8, OrderKept

LEMMA CloseOrder ==
  ASSUME TypeInv, Steady, OrderInv, LeaseInHand', NEW a \in Actor, Refresh(a) \/ Close(a)
  PROVE  OrderGoesOn
<1>1. /\ item[a] \in Step /\ LedgerTypeOK /\ local[a] \in Locals /\ local \in [Actor -> Locals]
  BY DEF TypeInv, ThreadsOK, OrderInv
<1>2. /\ "refresh" \in RowInHand /\ "close" \in RowInHand
      /\ "close" \notin Busy \cup {"task_step"} \cup BeforeRaise \cup Asking \cup TargetWrites
      /\ {"resume", "next"} \subseteq Free
      /\ Free \cap {"retry_step", "fail_step"} = {}
  BY DEF RowInHand, BeforeRaise, Busy, Asking, TargetWrites, Free
<1>3. CASE Refresh(a)
  <2>1. /\ Move(a, "refresh", "close") /\ UNCHANGED <<row, step, tasks, approvals, item>>
        /\ \E waits : local' = [local EXCEPT ![a] = [local[a] EXCEPT !.waits = waits]]
    BY <1>1, <1>3 DEF Refresh, ledgerVars, outside
  <2>2. AloneMoves(a) /\ pc[a] = "refresh" /\ pc'[a] = "close"
    BY <2>1, AloneWhileKept
  <2>3. local'[a].ready = local[a].ready /\ local'[a].att = local[a].att
    BY <1>1, <2>1 DEF Locals
  <2>4. Allowing => approvals'.pending = 0
    BY <2>1 DEF OrderInv
  <2> QED BY <1>2, <2>1, <2>2, <2>3, <2>4, WorksOnRow
<1>4. CASE Close(a)
  <2>1. PICK to \in {"resume", "next"} : Move(a, "close", to)
    BY <1>4 DEF Close
  <2>2. CompleteRow(item[a]) /\ UNCHANGED <<step, tasks, approvals, item, local>>
    BY <1>4 DEF Close, outside
  <2>3. AloneMoves(a) /\ pc[a] = "close" /\ pc'[a] = to
    BY <2>1, <2>2, AloneWhileKept
  <2>4. /\ row'[item[a]].state = "done"
        /\ \A t \in Step : t # item[a] => row'[t] = row[t]
    <3>1. row[item[a]] \in Row
      BY <1>1 DEF LedgerTypeOK
    <3>2. BecomesRow(item[a], [row[item[a]] EXCEPT !.state = "done", !.owner = NoOne,
                                 !.expired = FALSE, !.failedBefore = FALSE])
      BY <1>1, <2>2, CompleteRowEffect
    <3> QED BY <3>1, <3>2 DEF BecomesRow, Row
  <2> QED BY <1>2, <2>2, <2>3, <2>4, LetsGo
<1> QED BY <1>3, <1>4

LEMMA RecoverOrder ==
  ASSUME TypeInv, Steady, OrderInv, LeaseInHand', NEW a \in Actor, Recover(a) \/ Respond(a)
  PROVE  OrderGoesOn
<1>1. /\ item[a] \in Step /\ LedgerTypeOK /\ local[a] \in Locals /\ local \in [Actor -> Locals]
      /\ Target \in Step /\ ThreadInv(a) /\ StepInv(item[a]) /\ FreshLocals.ready = {}
      /\ pc \in [Actor -> Label]
  BY TargetIsStep DEF TypeInv, ThreadsOK, OrderInv, FreshLocals
<1>2. /\ {"run", "invoked"} \subseteq RowInHand \cap Busy \cap BeforeRaise
      /\ {"retry_step", "fail_step"} \subseteq Busy \ RowInHand
      /\ {"approve_step", "reject_step"} \subseteq TargetWrites \ RowInHand
      /\ "return_step" \notin RowInHand
      /\ {"retry_session", "resume", "fail_session", "idle", "approve_session", "pick",
          "reject_session", "return_session", "next"} \subseteq Free
  BY DEF RowInHand, BeforeRaise, Busy, Asking, TargetWrites, Free
<1>3. pc[a] \in Busy => step[item[a]] # "completed"
  BY <1>1 DEF StepInv, Past
<1>4. CASE RetrySession(a) \/ ApproveSession(a) \/ RejectSession(a) \/ ReturnSession(a)
  <2>1. \E from \in Free, to \in Free : Move(a, from, to)
    BY <1>2, <1>4
    DEF RetrySession, ApproveSession, RejectSession, ReturnSession, SessionWrite
  <2>2. UNCHANGED <<row, step, tasks, approvals, item, local>>
    BY <1>4
    DEF RetrySession, ApproveSession, RejectSession, ReturnSession, SessionWrite, outside
  <2>3. Goes(a)
    BY <2>1, <2>2, AloneWhileKept DEF Goes
  <2> QED BY <2>3, GoesOn
<1>5. CASE FailSession(a)
  <2>1. /\ Move(a, "fail_session", "idle") /\ UNCHANGED <<row, step, tasks, approvals, item>>
        /\ local' = [local EXCEPT ![a] = FreshLocals]
    BY <1>5 DEF FailSession, outside
  <2>2. Goes(a)
    BY <1>1, <1>2, <2>1, AloneWhileKept DEF Goes
  <2> QED BY <2>2, GoesOn
<1>6. CASE RetryStep(a)
  <2>1. /\ Move(a, "retry_step", "retry_session") /\ step' = [step EXCEPT ![item[a]] = "queued"]
        /\ UNCHANGED <<row, tasks, approvals, item, local>>
    BY <1>6 DEF RetryStep, UpdateStep, outside
  <2> QED BY <1>1, <1>2, <1>3, <2>1, WritesBack DEF Move
<1>7. CASE FailStep(a)
  <2>1. /\ Move(a, "fail_step", "fail_session") /\ step' = [step EXCEPT ![item[a]] = "failed"]
        /\ UNCHANGED <<row, tasks, approvals, item, local>>
    BY <1>7 DEF FailStep, UpdateStep, outside
  <2> QED BY <1>1, <1>2, <1>3, <2>1, WritesBack DEF Move
<1>8. CASE ApproveStep(a)
  <2>1. /\ Move(a, "approve_step", "approve_session")
        /\ step' = [step EXCEPT ![Target] = "queued"]
        /\ UNCHANGED <<row, tasks, approvals, item, local>>
    BY <1>8 DEF ApproveStep, StepWrite, UpdateStep, outside
  <2>2. ~Firm(Target)
    BY <1>1, <1>2, <2>1 DEF Move, ThreadInv, Firm
  <2> QED BY <1>1, <1>2, <2>1, <2>2, WritesBack
<1>9. CASE RejectStep(a)
  <2>1. /\ Move(a, "reject_step", "reject_session")
        /\ step' = [step EXCEPT ![Target] = "blocked"]
        /\ UNCHANGED <<row, tasks, approvals, item, local>>
    BY <1>9 DEF RejectStep, StepWrite, UpdateStep, outside
  <2>2. ~Firm(Target)
    BY <1>1, <1>2, <2>1 DEF Move, ThreadInv, Firm
  <2> QED BY <1>1, <1>2, <2>1, <2>2, WritesBack
<1>10. CASE ReturnStep(a)
  <2>1. /\ Move(a, "return_step", "return_session")
        /\ step' = [step EXCEPT ![item[a]] = "completed"]
        /\ UNCHANGED <<row, tasks, approvals, item, local>>
    BY <1>10 DEF ReturnStep, StepWrite, UpdateStep, outside
  <2>2. Past(item[a]) /\ NoTaskStep(item[a])
    BY <1>1, <2>1 DEF Move, ThreadInv
  <2> QED BY <1>1, <1>2, <2>1, <2>2, WritesBack
<1>11. CASE RetryItem(a)
  <2>1. /\ item[a] \in CanFail /\ pc[a] \in {"run", "invoked"}
        /\ local[a].att < MaxAttempts[item[a]] /\ Move(a, pc[a], "retry_step")
        /\ RetryRow(item[a], a, item[a] \notin Delayed)
        /\ UNCHANGED <<step, tasks, approvals, item, local>>
    BY <1>11 DEF RetryItem, Raises, outside
  <2>2. local[a].att >= 1 /\ local[a].att \in Nat /\ MaxAttempts[item[a]] \in Nat
    BY <1>1, <1>2, <2>1, RuntimeAssumption DEF ThreadInv, Locals
  <2>3. item[a] \in Delayed
    BY <2>1, <2>2 DEF Steady
  <2>4. RetryRow(item[a], a, FALSE)
    BY <2>1, <2>3
  <2>5. /\ row'[item[a]].state = "queued" /\ ~row'[item[a]].due
        /\ \A t \in Step : t # item[a] => row'[t] = row[t]
    <3>1. row[item[a]] \in Row
      BY <1>1 DEF LedgerTypeOK
    <3>2. BecomesRow(item[a], [row[item[a]] EXCEPT !.state = "queued", !.owner = a,
                                 !.expired = FALSE, !.failedBefore = TRUE, !.due = FALSE])
      BY <1>1, <2>4, RetryRowEffect
    <3> QED BY <3>1, <3>2 DEF BecomesRow, Row
  <2>6. AloneMoves(a) /\ pc'[a] = "retry_step"
    BY <2>1, AloneWhileKept
  <2> QED BY <1>2, <2>1, <2>5, <2>6, LetsGo
<1>12. CASE FailItem(a)
  <2>1. /\ pc[a] \in {"run", "invoked"} /\ Move(a, pc[a], "fail_step") /\ FailRow(item[a])
        /\ UNCHANGED <<step, tasks, approvals, item, local>>
    BY <1>12 DEF FailItem, Raises, outside
  <2>2. /\ row'[item[a]].state = "failed"
        /\ \A t \in Step : t # item[a] => row'[t] = row[t]
    <3>1. row[item[a]] \in Row
      BY <1>1 DEF LedgerTypeOK
    <3>2. BecomesRow(item[a], [row[item[a]] EXCEPT !.state = "failed", !.owner = NoOne,
                                 !.expired = FALSE, !.failedBefore = TRUE])
      BY <1>1, <2>1, FailRowEffect
    <3> QED BY <3>1, <3>2 DEF BecomesRow, Row
  <2>3. AloneMoves(a) /\ pc'[a] = "fail_step"
    BY <2>1, AloneWhileKept
  <2> QED BY <1>2, <2>1, <2>2, <2>3, LetsGo
<1> QED
  BY <1>4, <1>5, <1>6, <1>7, <1>8, <1>9, <1>10, <1>11, <1>12 DEF Recover, Respond

\* An idle thread leases the oldest row, or takes a decision or an answer.
LEMMA CallOrder ==
  ASSUME TypeInv, Steady, OrderInv, LeaseInHand', NEW a \in Actor,
         LeaseNext(a) \/ Approve(a) \/ Reject(a) \/ ReturnTask(a)
  PROVE  OrderGoesOn
<1>1. /\ LedgerTypeOK /\ local[a] \in Locals /\ local \in [Actor -> Locals]
      /\ ThreadInv(a) /\ (\A s \in Step : StepInv(s)) /\ FreshLocals.ready = {}
      /\ local[a].ready \subseteq Step /\ tasks \in [Step -> Nat]
  BY DEF TypeInv, ThreadsOK, OutsideOK, OrderInv, FreshLocals, Locals
<1>2. /\ "idle" \in Free /\ Free \cap RowInHand = {}
      /\ {"approve_step", "reject_step", "return_step"}
           \cap (RowInHand \cup Busy \cup BeforeRaise \cup Asking) = {}
  BY DEF Free, RowInHand, BeforeRaise, Busy, Asking
<1>3. CASE LeaseNext(a)
  <2>1. PICK s \in Step :
          /\ Move(a, "idle", "start") /\ Oldest(s) /\ TakeRow(a, s)
          /\ local' = [local EXCEPT ![a] = [FreshLocals EXCEPT !.att = NextAttempt(s)]]
    BY <1>3 DEF LeaseNext
  <2>2. /\ AloneMoves(a) /\ pc[a] = "idle" /\ pc'[a] = "start" /\ item'[a] = s
        /\ local'[a] = [FreshLocals EXCEPT !.att = NextAttempt(s)]
    BY <2>1, AloneWhileKept DEF TakeRow, TypeInv, ThreadsOK
  <2>3. local'[a].att >= 1 /\ local'[a].ready = {}
    BY <1>1, <2>2, NextAttemptBounds DEF FreshLocals
  <2>4. /\ Eligible(s) /\ LeaseRow(s, a) /\ UNCHANGED <<step, tasks, approvals>>
    BY <2>1 DEF Oldest, TakeRow, outside
  <2> QED BY <1>2, <2>2, <2>3, <2>4, TakesOn
<1>4. ASSUME NEW to \in {"approve_step", "reject_step", "return_step"}, Move(a, "idle", to),
             UNCHANGED <<row, step>>,
             item' = item \/ \E i : item' = [item EXCEPT ![a] = i],
             local' = local \/ \E l : /\ local' = [local EXCEPT ![a] = l]
                                      /\ l.ready = local[a].ready,
             \A s \in Step : tasks'[s] > 0 => tasks[s] > 0,
             to = "return_step" => /\ item'[a] \in Step /\ Past(item'[a])
                                   /\ NoTaskStep(item'[a]),
             to # "return_step" => ~Allowing, Allowing => approvals'.pending = 0
      PROVE  OrderGoesOn
  <2>1. AloneMoves(a) /\ pc[a] = "idle" /\ pc'[a] = to /\ local'[a].ready = local[a].ready
    BY <1>1, <1>4, AloneWhileKept
  <2>2. \A s \in Step : /\ Past(s) => Past(s)'
                        /\ Past(s) /\ NoTaskStep(s) => NoTaskStep(s)'
    <3>1. \A s \in Step : Past(s) => row'[s].state \in {"leased", "done"}
      BY <1>4 DEF Past
    <3>2. to \notin Busy \cup {"task_step"}
      BY <1>2
    <3> QED BY <2>1, <3>1, <3>2, PastStays
  <2>3. ASSUME NEW s \in Step, row'[s].state = "leased" PROVE \E b \in Actor : Holds(b, s)'
    <3>1. PICK b \in Actor : Holds(b, s)
      BY <1>1, <1>4, <2>3 DEF StepInv
    <3>2. b # a
      BY <1>2, <2>1, <3>1 DEF Holds
    <3> QED BY <3>1, <3>2, <2>1 DEF Holds, AloneMoves
  <2>4. ThreadInv(a)'
    <3>1. ASSUME NEW s, s \in local'[a].ready PROVE Awaited(s)'
      BY <1>1, <1>4, <2>1, <3>1 DEF ThreadInv, Awaited
    <3>2. to = "return_step" => Past(item[a])' /\ NoTaskStep(item[a])'
      <4> SUFFICES ASSUME to = "return_step" PROVE Past(item[a])' /\ NoTaskStep(item[a])'
        OBVIOUS
      <4> DEFINE i == item'[a]
      <4>1. i \in Step /\ Past(i) /\ NoTaskStep(i)
        BY <1>4
      <4> HIDE DEF i
      <4>2. \A b \in Actor : item'[b] = i => pc'[b] \notin Busy \cup {"task_step"}
        BY <1>2, <2>1, <4>1 DEF Past, NoTaskStep, AloneMoves
      <4>3. row'[i].state \in {"leased", "done"}
        BY <1>4, <4>1 DEF Past
      <4> QED BY <4>2, <4>3 DEF i, Past, NoTaskStep
    <3>3. Allowing => to \notin Asking \cup TargetWrites
      BY <1>4 DEF Asking, TargetWrites
    <3> QED BY <1>2, <1>4, <2>1, <3>1, <3>2, <3>3 DEF ThreadInv
  <2> QED BY <1>4, <2>1, <2>2, <2>3, <2>4, OrderKept
<1>5. Allowing => approvals.pending = 0
  BY DEF OrderInv
<1>6. CASE Approve(a) \/ Reject(a)
  <2>1. /\ \E to \in {"approve_step", "reject_step"} : Move(a, "idle", to)
        /\ approvals.pending > 0 /\ UNCHANGED <<row, step, tasks, item>>
    BY <1>6 DEF Approve, Reject, DecideRequest, ledgerVars
  <2>2. ~Allowing
    BY <1>5, <2>1
  <2>3. local' = local \/ \E l : local' = [local EXCEPT ![a] = l] /\ l.ready = local[a].ready
    <3>1. CASE Reject(a)
      BY <3>1 DEF Reject
    <3>2. CASE Approve(a)
      <4>1. local' = [local EXCEPT ![a] =
                        [local[a] EXCEPT !.stack = <<OuterFrame("resume")>>]]
        BY <1>1, <3>2 DEF Approve
      <4>2. [local[a] EXCEPT !.stack = <<OuterFrame("resume")>>].ready = local[a].ready
        BY <1>1 DEF Locals
      <4> QED BY <4>1, <4>2
    <3> QED BY <1>6, <3>1, <3>2
  <2> QED BY <1>4, <2>1, <2>2, <2>3
<1>7. CASE ReturnTask(a)
  <2>1. PICK s \in Step :
          /\ tasks[s] > 0 /\ tasks' = [tasks EXCEPT ![s] = @ - 1]
          /\ item' = [item EXCEPT ![a] = s]
    BY <1>7 DEF ReturnTask
  <2>2. /\ Move(a, "idle", "return_step") /\ UNCHANGED <<row, step, approvals>>
        /\ local' = [local EXCEPT ![a] = [local[a] EXCEPT !.stack = <<OuterFrame("return")>>]]
    BY <1>1, <1>7 DEF ReturnTask, ledgerVars
  <2>3. [local[a] EXCEPT !.stack = <<OuterFrame("return")>>].ready = local[a].ready
    BY <1>1 DEF Locals
  <2>4. item'[a] = s /\ Past(s)
    BY <1>1, <2>1 DEF StepInv, TypeInv, ThreadsOK
  <2>5. NoTaskStep(s)
    BY <1>7 DEF ReturnTask, Calls, HandlerKeepsUp, Steady, NoTaskStep
  <2>6. \A t \in Step : tasks'[t] > 0 => tasks[t] > 0
    BY <1>1, <2>1
  <2>7. \E l : local' = [local EXCEPT ![a] = l] /\ l.ready = local[a].ready
    BY <2>2, <2>3
  <2>8. Allowing => approvals'.pending = 0
    BY <1>5, <2>2
  <2> QED BY <1>4, <2>1, <2>2, <2>4, <2>5, <2>6, <2>7, <2>8
<1> QED BY <1>3, <1>6, <1>7

\* No thread moves: a backoff elapses, or a request expires.
LEMMA RestsOn ==
  ASSUME TypeInv, Steady, OrderInv, LeaseInHand', UNCHANGED <<pc, item, local, step, tasks>>,
         Allowing => approvals'.pending = 0,
         \A s \in Step : row'[s].state = row[s].state,
         \/ row' = row
         \/ \A a \in Actor : pc[a] # "retry_step"
  PROVE  OrderGoesOn
<1>1. \A s \in Step : Past(s) => Past(s)'
  BY DEF Past
<1>2. \A s \in Step : NoTaskStep(s) => NoTaskStep(s)'
  BY DEF NoTaskStep
<1>3. ASSUME NEW a \in Actor PROVE ThreadInv(a)'
  <2>1. ThreadInv(a) /\ item[a] \in Step
    BY DEF OrderInv, TypeInv, ThreadsOK
  <2>2. pc[a] = "return_step" => Past(item[a])' /\ NoTaskStep(item[a])'
    BY <2>1 DEF ThreadInv, Past, NoTaskStep
  <2>3. /\ pc[a] = "retry_step" => row'[item[a]].state = "queued" /\ ~row'[item[a]].due
        /\ pc[a] = "fail_step" => row'[item[a]].state = "failed"
    BY <2>1 DEF ThreadInv
  <2> QED BY <2>1, <2>2, <2>3 DEF ThreadInv, Awaited
<1>4. ASSUME NEW s \in Step PROVE StepInv(s)'
  <2>1. StepInv(s)
    BY DEF OrderInv
  <2> QED BY <1>1, <1>2, <2>1 DEF StepInv, Holds, Awaited
<1> QED BY <1>3, <1>4 DEF OrderGoesOn, OrderInv, FirmStays

LEMMA NextOrderInv ==
  ASSUME TypeInv, Steady, OrderInv, [Next]_vars
  PROVE  OrderGoesOn
<1>1. LeaseInHand'
  BY NextLeaseInHand DEF OrderInv, Steady, HandlersKeepUp
<1>2. LedgerTypeOK /\ (Allowing => approvals.pending = 0) /\ crashes \in Nat
  BY DEF TypeInv, OutsideOK, OrderInv
<1>3. ASSUME NEW a \in Actor, Thread(a) PROVE OrderGoesOn
  <2>1. CASE Continue(a)
    BY <1>1, <2>1, ContinueGoes, GoesOn, CloseOrder
  <2> QED BY <1>1, <1>3, <2>1, HandleOrder, RecoverOrder DEF Thread
<1>4. ASSUME NEW a \in Actor, LeaseNext(a) \/ Approve(a) \/ Reject(a) \/ ReturnTask(a)
      PROVE  OrderGoesOn
  BY <1>1, <1>4, CallOrder
<1>5. ASSUME NEW s \in Step, LeaseExpires(s) PROVE FALSE
  <2>1. row[s].state = "leased" /\ \A a \in Actor : ~Holds(a, s)
    BY <1>5 DEF LeaseExpires, ExpireRow, Steady, Holds
  <2> QED BY <2>1 DEF OrderInv, StepInv
<1>6. ASSUME NEW s \in Step, BackoffElapses(s) PROVE OrderGoesOn
  <2>1. /\ DueRow(s) /\ UNCHANGED <<pc, item, local, step, tasks, approvals>>
        /\ \A a \in Actor : pc[a] # "retry_step"
    BY <1>6 DEF BackoffElapses, HandlerKeepsUp, Steady, outside
  <2>2. row[s] \in Row
    BY <1>2 DEF LedgerTypeOK
  <2>3. BecomesRow(s, [row[s] EXCEPT !.due = TRUE])
    BY <1>2, <2>1, DueRowEffect
  <2>4. \A t \in Step : row'[t].state = row[t].state
    BY <2>2, <2>3 DEF BecomesRow, Row
  <2> QED BY <1>1, <1>2, <2>1, <2>4, RestsOn
<1>7. CASE ExpireApproval
  <2>1. ~Allowing /\ UNCHANGED <<row, pc, item, local, step, tasks>>
    BY <1>2, <1>7 DEF ExpireApproval, ledgerVars
  <2> QED BY <1>1, <2>1, RestsOn
<1>8. CASE UNCHANGED vars
  <2>1. UNCHANGED <<row, pc, item, local, step, tasks, approvals>>
    BY <1>8 DEF vars, ledgerVars, outside
  <2> QED BY <1>1, <1>2, <2>1, RestsOn
<1>9. ASSUME NEW dead, Crash(dead) PROVE FALSE
  BY <1>2, <1>9 DEF Crash, Steady
<1> QED BY <1>3, <1>4, <1>5, <1>6, <1>7, <1>8, <1>9 DEF Next, Clock

LEMMA InitOrderInv == Init => OrderInv
<1> SUFFICES ASSUME Init PROVE OrderInv
  OBVIOUS
<1>1. /\ \A a \in Actor : pc[a] \in {"idle", "pick"} /\ local[a].ready = {}
      /\ \A s \in Step : row[s].state = "absent" /\ tasks[s] = 0 /\ step[s] = "queued"
      /\ approvals.pending = 0
  <2>1. FreshLocals.ready = {}
    BY DEF FreshLocals
  <2>2. [FreshLocals EXCEPT !.stack = <<OuterFrame("request")>>].ready = {}
    BY DEF FreshLocals
  <2> QED BY <2>1, <2>2 DEF Init, LedgerInit, AbsentRow
<1>2. {"idle", "pick"} \cap (RowInHand \cup BeforeRaise \cup Asking \cup TargetWrites
        \cup {"retry_step", "fail_step", "return_step"}) = {}
  BY DEF RowInHand, BeforeRaise, Asking, TargetWrites
<1> QED BY <1>1, <1>2 DEF OrderInv, LeaseInHand, Holds, ThreadInv, StepInv

\* While handlers keep up and no process dies, a tool is invoked, and a memory staged,
\* only when every step it depends on is completed, for every plan, any number of workers
\* and threads, retries and reviewers, and any decision of the policy.
THEOREM DependenciesKept ==
  ASSUME Steady PROVE Spec => DependencyOrder
<1>1. TypeInv /\ OrderInv /\ [Next]_vars => (TypeInv /\ OrderInv)'
  BY NextTypeInv, NextOrderInv DEF OrderGoesOn
<1>2. TypeInv /\ OrderInv /\ [Next]_vars => [InOrder]_effects
  <2> SUFFICES ASSUME TypeInv, OrderInv, [Next]_vars, effects' # effects PROVE InOrder
    OBVIOUS
  <2>1. PICK a \in Actor, s \in Step : Invokes(a, s)
    BY StepKinds DEF Works, Enqueues, Elapses, Leases, Closes
  <2>2. Holds(a, s)
    BY <2>1 DEF Invokes, Starting, BeforeEffect, Holds, RowInHand
  <2>3. Awaited(s)
    BY <2>2 DEF OrderInv, LeaseInHand, StepInv
  <2>4. \A t \in Step : effects'[t] > effects[t] => t = s
    BY <2>1 DEF Invokes, TypeInv, OutsideOK
  <2> QED BY <2>3, <2>4 DEF InOrder, Awaited
<1> QED BY <1>1, <1>2, InitTypeInv, InitOrderInv, PTL DEF Spec, DependencyOrder

-----------------------------------------------------------------------------
(* A session is completed when its plan is, and for good. *)

\* Loops that began before all steps were completed.
Unfinished == {f \in Frame : ~f.done}

\* Nobody has the session completed, nor is about to.
Unclosed ==
  /\ session # "completed"
  /\ \A a \in Actor : local[a].stack \in Seq(Unfinished)

CompletedInv == AllCompleted \/ Unclosed

LEMMA UnfinishedStacks ==
  ASSUME NEW q \in Seq(Unfinished)
  PROVE  /\ q # <<>> => Head(q) \in Unfinished /\ Tail(q) \in Seq(Unfinished)
         /\ \A f \in Unfinished : <<f>> \o q \in Seq(Unfinished)
         /\ q # <<>> => \A f \in Unfinished : <<f>> \o Tail(q) \in Seq(Unfinished)
<1>1. q # <<>> => Head(q) \in Unfinished /\ Tail(q) \in Seq(Unfinished)
  BY HeadTailProperties
<1>2. ASSUME NEW f \in Unfinished, NEW r \in Seq(Unfinished)
      PROVE  <<f>> \o r \in Seq(Unfinished)
  <2>1. <<f>> \in Seq(Unfinished)
    OBVIOUS
  <2> QED BY <2>1, ConcatProperties
<1> QED BY <1>1, <1>2

LEMMA OuterUnfinished ==
  /\ FreshLocals.stack \in Seq(Unfinished)
  /\ \A loop \in {"request", "resume", "return"} :
       <<OuterFrame(loop)>> \in Seq(Unfinished)
<1>1. \A loop \in {"request", "resume", "return"} : OuterFrame(loop) \in Unfinished
  BY DEF OuterFrame, Frame, Unfinished
<1>2. \A f \in Unfinished : <<f>> \in Seq(Unfinished)
  OBVIOUS
<1> QED BY <1>1, <1>2, EmptySeq DEF FreshLocals

\* One thread changes its local variables.
LEMMA UnclosedMoves ==
  ASSUME ThreadsOK, Unclosed, session' # "completed", NEW a \in Actor, NEW l,
         local' = [local EXCEPT ![a] = l], l.stack \in Seq(Unfinished)
  PROVE  Unclosed'
<1>1. \A b \in Actor : local'[b] = IF b = a THEN l ELSE local[b]
  BY DEF ThreadsOK
<1> QED BY <1>1 DEF Unclosed

LEMMA UnclosedRests ==
  ASSUME Unclosed, session' # "completed", local' = local
  PROVE  Unclosed'
  BY DEF Unclosed

LEMMA HandleUnclosed ==
  ASSUME TypeInv, Unclosed, NEW a \in Actor, Handle(a) \/ LeaseNext(a)
  PROVE  Unclosed'
<1>1. /\ ThreadsOK /\ local[a] \in Locals /\ local[a].stack \in Seq(Unfinished)
      /\ session # "completed"
  BY DEF TypeInv, ThreadsOK, Unclosed
<1>2. CASE Lease(a)
  <2>1. session' # "completed"
    BY <1>1, <1>2 DEF Lease, TakeRow, ledgerVars
  <2>2. CASE local' = local
    BY <2>1, <2>2, UnclosedRests
  <2>3. CASE local' = [local EXCEPT ![a] = [local[a] EXCEPT !.att = NextAttempt(item[a])]]
    <3>1. [local[a] EXCEPT !.att = NextAttempt(item[a])].stack = local[a].stack
      BY <1>1 DEF Locals
    <3> QED BY <1>1, <2>1, <2>3, <3>1, UnclosedMoves
  <2> QED BY <1>2, <2>2, <2>3 DEF Lease
<1>3. CASE LeaseNext(a)
  <2>1. PICK s \in Step : local' = [local EXCEPT ![a] = [FreshLocals EXCEPT !.att = NextAttempt(s)]]
    BY <1>3 DEF LeaseNext
  <2>2. [FreshLocals EXCEPT !.att = NextAttempt(s)].stack \in Seq(Unfinished)
    BY OuterUnfinished DEF FreshLocals
  <2>3. session' # "completed"
    BY <1>1, <1>3 DEF LeaseNext, TakeRow
  <2> QED BY <1>1, <2>1, <2>2, <2>3, UnclosedMoves
<1>4. CASE Pick(a)
  BY <1>1, <1>4, UnclosedRests DEF Pick, PickOldest, ledgerVars
<1>5. CASE Start(a) \/ DenySession(a) \/ AskSession(a) \/ TaskSession(a)
  BY <1>5, UnclosedRests
  DEF Start, DenySession, AskSession, TaskSession, SessionWrite, SetSession
<1>6. CASE Prepare(a) \/ DenyStep(a) \/ SkipMemory(a) \/ TaskStep(a) \/ Policy(a)
  BY <1>1, <1>6, UnclosedRests DEF Prepare, DenyStep, SkipMemory, TaskStep, Policy, StepWrite
<1>7. CASE Mark(a) \/ Ask(a) \/ AskStep(a) \/ AskRow(a) \/ Invoke(a) \/ CreateTask(a)
  BY <1>1, <1>7, UnclosedRests DEF Mark, Ask, AskStep, AskRow, Invoke, CreateTask, ledgerVars
<1>8. CASE FinishEffect(a)
  <2>1. /\ local' = [local EXCEPT ![a] =
              [local[a] EXCEPT !.artifact = local[a].artifact \/ Kind[item[a]] = "tool"]]
        /\ session' = session
    BY <1>8 DEF FinishEffect
  <2>2. [local[a] EXCEPT !.artifact = local[a].artifact \/ Kind[item[a]] = "tool"].stack
          = local[a].stack
    BY <1>1 DEF Locals
  <2> QED BY <1>1, <2>1, <2>2, UnclosedMoves
<1> QED BY <1>2, <1>3, <1>4, <1>5, <1>6, <1>7, <1>8 DEF Handle

LEMMA RecoverUnclosed ==
  ASSUME TypeInv, Unclosed, NEW a \in Actor, Recover(a) \/ Respond(a)
  PROVE  Unclosed'
<1>1. ThreadsOK /\ session # "completed"
  BY DEF TypeInv, Unclosed
<1>2. CASE RetryItem(a) \/ RetryStep(a) \/ FailItem(a) \/ FailStep(a)
  BY <1>1, <1>2, UnclosedRests DEF RetryItem, RetryStep, FailItem, FailStep
<1>3. CASE RetrySession(a) \/ ApproveSession(a) \/ RejectSession(a) \/ ReturnSession(a)
  BY <1>3, UnclosedRests
  DEF RetrySession, ApproveSession, RejectSession, ReturnSession, SessionWrite, SetSession
<1>4. CASE ApproveStep(a) \/ RejectStep(a) \/ ReturnStep(a)
  BY <1>1, <1>4, UnclosedRests DEF ApproveStep, RejectStep, ReturnStep, StepWrite
<1>5. CASE FailSession(a)
  BY <1>1, <1>5, UnclosedMoves, OuterUnfinished DEF FailSession, SetSession
<1> QED BY <1>2, <1>3, <1>4, <1>5 DEF Recover, Respond

LEMMA LoopUnclosed ==
  ASSUME TypeInv, Unclosed, ~AllCompleted, NEW a \in Actor,
         \/ Refresh(a) \/ Close(a) \/ ContinueAfter(a) \/ CheckPaused(a) \/ Drain(a)
         \/ Scan(a) \/ ResumeWorker(a) \/ ResumeInner(a) \/ ResumeOuter(a)
  PROVE  Unclosed'
<1>1. /\ ThreadsOK /\ local[a] \in Locals /\ local[a].stack \in Seq(Unfinished)
      /\ session # "completed"
      /\ pc[a] \in InLoop => local[a].stack # <<>>
  BY DEF TypeInv, ThreadsOK, Unclosed
<1>2. ASSUME NEW from, Leave(a, from), local[a].stack # <<>>, session' # "completed"
      PROVE  Unclosed'
  <2>1. Pop(a).stack = Tail(local[a].stack)
    BY <1>1 DEF Pop, Locals
  <2>2. Pop(a).stack \in Seq(Unfinished)
    BY <1>1, <1>2, <2>1, UnfinishedStacks
  <2> QED BY <1>1, <1>2, <2>2, UnclosedMoves DEF Leave
<1>3. CASE Refresh(a)
  <2>1. /\ local' = [local EXCEPT ![a] =
              [local[a] EXCEPT !.waits = step[item[a]] = "waiting_human"]]
        /\ session' = session
    BY <1>3 DEF Refresh, ledgerVars
  <2>2. [local[a] EXCEPT !.waits = step[item[a]] = "waiting_human"].stack = local[a].stack
    BY <1>1 DEF Locals
  <2> QED BY <1>1, <2>1, <2>2, UnclosedMoves
<1>4. CASE Close(a)
  BY <1>1, <1>4, UnclosedRests DEF Close
<1>5. CASE ContinueAfter(a)
  <2> DEFINE drains == \/ a \in Inline
                       \/ step[item[a]] \notin {"completed", "failed", "blocked",
                                               "waiting_human"}
             f == [loop |-> IF drains THEN "drain" ELSE "enqueue",
                   done |-> AllCompleted, rest |-> {}]
  <2>1. (IF drains THEN "drain" ELSE "enqueue") \in {"drain", "enqueue"}
    OBVIOUS
  <2>2. AllCompleted = FALSE
    BY DEF AllCompleted
  <2>3. f \in Unfinished
    BY <2>1, <2>2 DEF Frame, Unfinished
  <2>4. local' = [local EXCEPT ![a] = Push(a, f)]
    BY <1>5, Zenon DEF ContinueAfter
  <2>5. session' = session
    BY <1>5 DEF ContinueAfter, ledgerVars
  <2> HIDE DEF f
  <2>6. Push(a, f).stack = <<f>> \o local[a].stack
    BY <1>1 DEF Push, Locals
  <2>7. Push(a, f).stack \in Seq(Unfinished)
    BY <1>1, <2>3, <2>6, UnfinishedStacks
  <2> QED BY <1>1, <2>4, <2>5, <2>7, UnclosedMoves
<1>6. CASE CheckPaused(a)
  <2>1. pc[a] = "next_session" /\ session' = session
    BY <1>6 DEF CheckPaused, Leave, Move, ledgerVars
  <2>2. local[a].stack # <<>>
    BY <1>1, <2>1 DEF InLoop
  <2> QED BY <1>1, <1>2, <1>6, <2>1, <2>2, UnclosedRests DEF CheckPaused, Keep
<1>7. CASE Drain(a) \/ ResumeOuter(a)
  BY <1>1, <1>7, UnclosedRests DEF Drain, ResumeOuter, PickOldest, ledgerVars
<1>8. CASE Scan(a)
  <2> DEFINE S == {s \in Step : step[s] = "queued" /\ \A d \in Deps[s] : step[d] = "completed"}
  <2>1. local' = [local EXCEPT ![a] = [local[a] EXCEPT !.ready = S]] /\ session' = session
    BY <1>8 DEF Scan, ledgerVars
  <2> HIDE DEF S
  <2>2. [local[a] EXCEPT !.ready = S].stack = local[a].stack
    BY <1>1 DEF Locals
  <2> QED BY <1>1, <2>1, <2>2, UnclosedMoves
<1>9. CASE ResumeWorker(a)
  BY <1>1, <1>9, UnclosedMoves, OuterUnfinished DEF ResumeWorker, ledgerVars
<1>10. CASE ResumeInner(a)
  BY <1>1, <1>2, <1>10, UnclosedRests DEF ResumeInner, Keep, ledgerVars
<1> QED BY <1>3, <1>4, <1>5, <1>6, <1>7, <1>8, <1>9, <1>10
LEMMA QueueingUnclosed ==
  ASSUME TypeInv, Unclosed, NEW a \in Actor,
         \/ EnqueueAll(a) \/ EnqueueFirst(a) \/ MissingReady(a) \/ NothingReady(a)
         \/ EnqueueOne(a) \/ RunNextItem(a) \/ After(a)
  PROVE  Unclosed'
<1>1. pc[a] \in InLoop
  BY DEF EnqueueAll, EnqueueFirst, MissingReady, NothingReady, EnqueueOne, RunNextItem,
         After, Move, Leave, InLoop
<1>2. /\ ThreadsOK /\ local[a] \in Locals /\ local[a].stack \in Seq(Unfinished)
      /\ session # "completed" /\ local[a].stack # <<>>
  BY <1>1 DEF TypeInv, ThreadsOK, Unclosed
<1>3. /\ Top(a) \in Unfinished
      /\ Tail(local[a].stack) \in Seq(Unfinished)
      /\ \A f \in Unfinished : <<f>> \o Tail(local[a].stack) \in Seq(Unfinished)
  BY <1>2, UnfinishedStacks DEF Top
<1>4. ASSUME NEW from, Leave(a, from), session' # "completed" PROVE Unclosed'
  <2>1. Pop(a).stack \in Seq(Unfinished)
    BY <1>2, <1>3 DEF Pop, Locals
  <2> QED BY <1>2, <1>4, <2>1, UnclosedMoves DEF Leave
<1>5. ASSUME NEW f \in Unfinished, session' = session,
             local' = [local EXCEPT ![a] =
               [local[a] EXCEPT !.stack = <<f>> \o Tail(local[a].stack)]]
      PROVE  Unclosed'
  <2>1. [local[a] EXCEPT !.stack = <<f>> \o Tail(local[a].stack)].stack
          = <<f>> \o Tail(local[a].stack)
    BY <1>2 DEF Locals
  <2> QED BY <1>2, <1>3, <1>5, <2>1, UnclosedMoves
<1>6. CASE EnqueueAll(a)
  <2> DEFINE f == [Top(a) EXCEPT !.loop = IF a \in Inline THEN "items" ELSE "enqueue",
                                 !.rest = Ready(a)]
             l == [local[a] EXCEPT !.ready = Ready(a),
                                   !.stack = <<f>> \o Tail(local[a].stack)]
  <2>1. Ready(a) \in SUBSET Step
    BY <1>2 DEF Ready, Locals
  <2>2. f \in Unfinished
    BY <1>3, <2>1 DEF Unfinished, Frame
  <2>3. local' = [local EXCEPT ![a] = l] /\ session' = session
    BY <1>6, Zenon DEF EnqueueAll, ledgerVars
  <2> HIDE DEF f
  <2>4. l.stack \in Seq(Unfinished)
    BY <1>2, <1>3, <2>2 DEF Locals
  <2> HIDE DEF l
  <2> QED BY <1>2, <2>3, <2>4, UnclosedMoves
<1>7. CASE EnqueueFirst(a)
  <2>1. PICK s \in Step : local' = [local EXCEPT ![a] = [local[a] EXCEPT !.ready = {s}]]
    BY <1>7 DEF EnqueueFirst
  <2>2. [local[a] EXCEPT !.ready = {s}].stack = local[a].stack
    BY <1>2 DEF Locals
  <2> QED BY <1>2, <1>7, <2>1, <2>2, UnclosedMoves DEF EnqueueFirst, ledgerVars
<1>8. CASE MissingReady(a)
  BY <1>2, <1>8, UnclosedRests DEF MissingReady, ledgerVars
<1>9. CASE NothingReady(a)
  <2>1. ~Top(a).done
    BY <1>3 DEF Unfinished
  <2> QED BY <1>2, <1>4, <1>9, <2>1 DEF NothingReady, SetSession
<1>10. CASE EnqueueOne(a)
  <2>1. PICK s \in Step :
          LET rest == local[a].ready \ {s}
              dropped == [local[a] EXCEPT !.ready = {}]
          IN \/ local' = [local EXCEPT ![a] = [local[a] EXCEPT !.ready = rest]]
             \/ local' = [local EXCEPT ![a] = dropped]
             \/ local' = [local EXCEPT ![a] =
                  [dropped EXCEPT !.stack = Tail(local[a].stack)]]
    BY <1>10, Zenon DEF EnqueueOne
  <2> DEFINE more == [local[a] EXCEPT !.ready = local[a].ready \ {s}]
             dropped == [local[a] EXCEPT !.ready = {}]
             popped == [dropped EXCEPT !.stack = Tail(local[a].stack)]
  <2>2. /\ more.stack \in Seq(Unfinished) /\ dropped.stack \in Seq(Unfinished)
        /\ popped.stack \in Seq(Unfinished)
    BY <1>2, <1>3 DEF Locals
  <2>3. PICK l \in {more, dropped, popped} : local' = [local EXCEPT ![a] = l]
    BY <2>1
  <2>4. l.stack \in Seq(Unfinished)
    BY <2>2, <2>3
  <2>5. session' # "completed"
    BY <1>2, <1>10 DEF EnqueueOne
  <2> HIDE DEF more, dropped, popped
  <2> QED BY <1>2, <2>3, <2>4, <2>5, UnclosedMoves
<1>11. CASE RunNextItem(a)
  <2>1. session' # "completed"
    BY <1>2, <1>11 DEF RunNextItem, ledgerVars
  <2>2. ASSUME NEW s \in Step,
               local' = [local EXCEPT ![a] = [local[a] EXCEPT !.stack =
                 <<[Top(a) EXCEPT !.rest = Top(a).rest \ {s}]>> \o Tail(local[a].stack)]]
        PROVE  Unclosed'
    <3>1. [Top(a) EXCEPT !.rest = Top(a).rest \ {s}] \in Unfinished
      BY <1>3 DEF Unfinished, Frame
    <3>2. session' = session
      BY <1>11 DEF RunNextItem, ledgerVars
    <3> QED BY <1>5, <2>2, <3>1, <3>2
  <2> QED BY <1>4, <1>11, <2>1, <2>2 DEF RunNextItem
<1>12. CASE After(a)
  <2>1. session' = session
    BY <1>12 DEF After, ledgerVars
  <2>2. \/ local' = [local EXCEPT ![a] = [local[a] EXCEPT !.rounds = local[a].rounds + 1]]
        \/ local' = [local EXCEPT ![a] =
                       [local[a] EXCEPT !.stack = <<OuterFrame("return")>>]]
        \/ local' = [local EXCEPT ![a] = FreshLocals]
    BY <1>12 DEF After, EndCall
  <2>3. /\ [local[a] EXCEPT !.rounds = local[a].rounds + 1].stack \in Seq(Unfinished)
        /\ [local[a] EXCEPT !.stack = <<OuterFrame("return")>>].stack \in Seq(Unfinished)
        /\ FreshLocals.stack \in Seq(Unfinished)
    BY <1>2, OuterUnfinished DEF Locals
  <2> QED BY <1>2, <2>1, <2>2, <2>3, UnclosedMoves
<1> QED BY <1>6, <1>7, <1>8, <1>9, <1>10, <1>11, <1>12

LEMMA OutsideUnclosed ==
  ASSUME TypeInv, Unclosed,
         \/ \E a \in Actor : Approve(a) \/ Reject(a) \/ ReturnTask(a)
         \/ Clock \/ ExpireApproval
         \/ \E dead : Crash(dead)
         \/ UNCHANGED vars
  PROVE  Unclosed'
<1>1. ThreadsOK /\ session # "completed"
  BY DEF TypeInv, Unclosed
<1>2. ASSUME NEW a \in Actor, Approve(a) \/ ReturnTask(a) PROVE Unclosed'
  <2>1. PICK loop \in {"resume", "return"} :
          local' = [local EXCEPT ![a] = [local[a] EXCEPT !.stack = <<OuterFrame(loop)>>]]
    BY <1>2 DEF Approve, ReturnTask
  <2>2. session' = session
    BY <1>2 DEF Approve, ReturnTask, DecideRequest, ledgerVars
  <2>3. [local[a] EXCEPT !.stack = <<OuterFrame(loop)>>].stack = <<OuterFrame(loop)>>
    BY <1>1 DEF ThreadsOK, Locals
  <2> QED BY <1>1, <2>1, <2>2, <2>3, UnclosedMoves, OuterUnfinished
<1>3. ASSUME UNCHANGED <<session, local>> PROVE Unclosed'
  BY <1>1, <1>3, UnclosedRests
<1>4. ASSUME NEW a \in Actor, Reject(a) PROVE Unclosed'
  BY <1>3, <1>4 DEF Reject, DecideRequest, ledgerVars
<1>5. CASE Clock
  BY <1>3, <1>5 DEF Clock, LeaseExpires, BackoffElapses
<1>6. CASE ExpireApproval \/ UNCHANGED vars
  BY <1>3, <1>6 DEF ExpireApproval, vars, ledgerVars
<1>7. ASSUME NEW dead, Crash(dead) PROVE Unclosed'
  <2>1. \A b \in Actor : local'[b] = FreshLocals \/ local'[b] = local[b]
    BY <1>7 DEF Crash
  <2>2. session' # "completed"
    BY <1>1, <1>7 DEF Crash, ledgerVars
  <2> QED BY <2>1, <2>2, OuterUnfinished DEF Unclosed
<1> QED BY <1>2, <1>4, <1>5, <1>6, <1>7

\* Nobody completes a session before its last step.
LEMMA NextUnclosed ==
  ASSUME TypeInv, Unclosed, ~AllCompleted, [Next]_vars
  PROVE  Unclosed'
<1>1. ASSUME NEW a \in Actor, Continue(a) PROVE Unclosed'
  BY <1>1, LoopUnclosed, QueueingUnclosed DEF Continue
<1>2. ASSUME NEW a \in Actor, LeaseNext(a) \/ Thread(a) PROVE Unclosed'
  BY <1>1, <1>2, HandleUnclosed, RecoverUnclosed DEF Thread
<1>3. CASE \E a \in Actor : LeaseNext(a) \/ Thread(a)
  BY <1>2, <1>3
<1>4. CASE \/ \E a \in Actor : Approve(a) \/ Reject(a) \/ ReturnTask(a)
           \/ Clock \/ ExpireApproval
           \/ \E w \in Worker : Crash({w})
           \/ Crash(Inline)
           \/ UNCHANGED vars
  BY <1>4, OutsideUnclosed
<1> QED BY <1>3, <1>4 DEF Next

\* While handlers keep up, no process dies and the policy allows the session, it is
\* reported completed only when every step of its plan is: branches that end at once,
\* loops that counted the steps before others went on, and retries included.
THEOREM CompletedIsDone ==
  ASSUME Steady, Allowing PROVE Spec => []CompletedMeansAllDone
<1>1. Init => CompletedInv
  <2>1. ASSUME Init, NEW a \in Actor PROVE local[a].stack \in Seq(Unfinished)
    <3>1. [FreshLocals EXCEPT !.stack = <<OuterFrame("request")>>].stack
            = <<OuterFrame("request")>>
      BY DEF FreshLocals
    <3> QED BY <2>1, <3>1, OuterUnfinished DEF Init
  <2> QED BY <2>1 DEF Init, LedgerInit, CompletedInv, Unclosed
<1>2. TypeInv /\ OrderInv /\ CompletedInv /\ [Next]_vars => CompletedInv'
  <2> SUFFICES ASSUME TypeInv, OrderInv, CompletedInv, [Next]_vars PROVE CompletedInv'
    OBVIOUS
  <2>1. CASE AllCompleted
    BY <2>1, NextOrderInv DEF OrderGoesOn, FirmStays, Firm, AllCompleted, CompletedInv
  <2>2. CASE ~AllCompleted
    BY <2>2, NextUnclosed DEF CompletedInv
  <2> QED BY <2>1, <2>2
<1>3. TypeInv /\ OrderInv /\ [Next]_vars => (TypeInv /\ OrderInv)'
  BY NextTypeInv, NextOrderInv DEF OrderGoesOn
<1>4. CompletedInv => CompletedMeansAllDone
  BY DEF CompletedInv, Unclosed, CompletedMeansAllDone
<1> QED BY <1>1, <1>2, <1>3, <1>4, InitTypeInv, InitOrderInv, PTL DEF Spec
-----------------------------------------------------------------------------
(* What was completed is not reopened. *)

NoHuman == \A s \in Step : Kind[s] # "human"

\* The statements of a pause or a denial.
Interrupting ==
  {"ask", "ask_step", "ask_session", "ask_row", "deny_step", "deny_session", "task_step",
   "task_session", "approve_step", "approve_session", "reject_step", "reject_session",
   "return_step", "return_session"}

\* The row stays what a handler that raised made of it, until the session is written.
Raised(a) ==
  /\ pc[a] = "retry_session" => row[item[a]].state = "queued" /\ ~row[item[a]].due
  /\ pc[a] = "fail_session" => row[item[a]].state = "failed"

RunsThrough ==
  /\ \A s \in Step : tasks[s] = 0
  /\ \A a \in Actor : pc[a] \notin Interrupting /\ Raised(a)

\* A row that is closed, or waits for its backoff, is in nobody's hands and stays, unless
\* its backoff elapses.
LEMMA RowsRest ==
  ASSUME TypeInv, LeaseInHand, [Next]_vars, NEW t \in Step,
         \/ row[t].state \in {"done", "failed"}
         \/ row[t].state = "queued" /\ ~row[t].due
  PROVE  row'[t] = row[t] \/ (row[t].state = "queued" /\ BackoffElapses(t))
<1>1. LedgerTypeOK /\ row \in [Step -> Row]
  BY DEF TypeInv, LedgerTypeOK
<1>2. ASSUME NEW s \in Step, s # t, NEW r, BecomesRow(s, r) PROVE row'[t] = row[t]
  BY <1>2 DEF BecomesRow
<1>3. ASSUME NEW s \in Step, EnqueueRow(s) PROVE row'[t] = row[t]
  BY <1>1, <1>3, EnqueueKeeps
<1>4. ASSUME NEW a \in Actor, NEW s \in Step, Eligible(s), LeaseRow(s, a)
      PROVE  row'[t] = row[t]
  BY <1>1, <1>2, <1>4, LeaseRowEffect DEF Eligible
<1>5. ASSUME NEW a \in Actor, NEW s \in Step, Closes(a, s) PROVE row'[t] = row[t]
  <2>1. s # t
    BY <1>5 DEF Closes, LeaseInHand
  <2>2. ASSUME NEW now \in BOOLEAN, RetryRow(s, a, now) PROVE row'[t] = row[t]
    <3>1. BecomesRow(s, [row[s] EXCEPT !.state = "queued", !.owner = a,
                           !.expired = FALSE, !.failedBefore = TRUE, !.due = now])
      BY <1>1, <2>2, RetryRowEffect
    <3> QED BY <1>2, <2>1, <3>1
  <2>3. CASE CompleteRow(s) \/ FailRow(s)
    BY <1>1, <1>2, <2>1, <2>3, CompleteRowEffect, FailRowEffect
  <2> QED BY <1>5, <2>2, <2>3 DEF Closes
<1>6. ASSUME NEW a \in Actor, Thread(a) PROVE row'[t] = row[t]
  <2>1. \/ Works
        \/ \E s \in Step : Enqueues(s) \/ Leases(a, s) \/ Closes(a, s) \/ Invokes(a, s)
    BY <1>6, HandleKinds, RecoverKinds, ContinueKinds DEF Thread
  <2> QED BY <1>3, <1>4, <1>5, <2>1 DEF Works, Enqueues, Leases, Invokes
<1>7. ASSUME NEW a \in Actor, LeaseNext(a) PROVE row'[t] = row[t]
  BY <1>4, <1>7 DEF LeaseNext, TakeRow, Oldest
<1>8. ASSUME NEW s \in Step, LeaseExpires(s) PROVE row'[t] = row[t]
  <2>1. s # t /\ ExpireRow(s)
    BY <1>8 DEF LeaseExpires, ExpireRow
  <2> QED BY <1>1, <1>2, <2>1, ExpireRowEffect
<1>9. ASSUME NEW s \in Step, s # t, BackoffElapses(s) PROVE row'[t] = row[t]
  BY <1>1, <1>2, <1>9, DueRowEffect DEF BackoffElapses
<1>10. BackoffElapses(t) => row[t].state = "queued"
  BY DEF BackoffElapses, DueRow
<1>11. ASSUME \/ \E a \in Actor : Approve(a) \/ Reject(a) \/ ReturnTask(a)
              \/ ExpireApproval
              \/ \E dead : Crash(dead)
              \/ UNCHANGED vars
       PROVE  row' = row
  BY <1>11 DEF Approve, Reject, ReturnTask, DecideRequest, ExpireApproval, Crash, vars, ledgerVars
<1>12. CASE \E a \in Actor :
              LeaseNext(a) \/ Thread(a) \/ Approve(a) \/ Reject(a) \/ ReturnTask(a)
  BY <1>6, <1>7, <1>11, <1>12
<1>13. CASE Clock
  BY <1>8, <1>9, <1>10, <1>13 DEF Clock
<1> QED BY <1>11, <1>12, <1>13 DEF Next

\* Where a thread may go.
Onward(b) ==
  \/ pc'[b] = pc[b] /\ item'[b] = item[b]
  \/ pc'[b] \notin Interrupting \cup {"retry_session", "fail_session"}
  \/ /\ pc[b] = "retry_step" /\ pc'[b] = "retry_session"
     /\ item'[b] = item[b] /\ row' = row
  \/ /\ pc[b] = "fail_step" /\ pc'[b] = "fail_session"
     /\ item'[b] = item[b] /\ row' = row

LEMMA MovesOnward ==
  ASSUME TypeInv, NEW a \in Actor, NEW from, NEW to, Move(a, from, to),
         \A b \in Actor : b # a => item'[b] = item[b],
         to \notin Interrupting \cup {"retry_session", "fail_session"}
  PROVE  \A b \in Actor : Onward(b)
<1>1. \A b \in Actor : pc'[b] = IF b = a THEN to ELSE pc[b]
  BY DEF TypeInv, ThreadsOK, Move
<1> QED BY <1>1 DEF Onward

LEMMA HandleOnward ==
  ASSUME TypeInv, Allowing, NoHuman, RunsThrough, NEW a \in Actor, Handle(a) \/ LeaseNext(a)
  PROVE  (\A b \in Actor : Onward(b)) /\ tasks' = tasks
<1>1. item \in [Actor -> Step] /\ pc[a] \notin Interrupting /\ verdict = "allow"
  BY DEF TypeInv, ThreadsOK, RunsThrough, OutsideOK, Allowing
<1>2. {"start", "lease", "scan", "resume", "mark", "run", "refresh", "invoked"}
        \cap (Interrupting \cup {"retry_session", "fail_session"}) = {}
  BY DEF Interrupting
<1>3. ASSUME NEW from,
             NEW to \in {"start", "lease", "scan", "resume", "mark", "run", "refresh",
                         "invoked"},
             Move(a, from, to),
             item' = item \/ \E s \in Step : item' = [item EXCEPT ![a] = s]
      PROVE  \A b \in Actor : Onward(b)
  <2>1. \A b \in Actor : b # a => item'[b] = item[b]
    BY <1>1, <1>3
  <2> QED BY <1>2, <1>3, <2>1, MovesOnward
<1>4. CASE LeaseNext(a)
  BY <1>3, <1>4 DEF LeaseNext, TakeRow, outside
<1>5. CASE Lease(a)
  <2>1. item[a] \in Step
    BY <1>1
  <2> QED BY <1>3, <1>5, <2>1 DEF Lease, TakeRow, outside
<1>6. CASE Pick(a)
  BY <1>3, <1>6 DEF Pick, PickOldest, outside
<1>7. CASE Start(a)
  BY <1>3, <1>7 DEF Start, SessionWrite, outside
<1>8. CASE Mark(a) \/ FinishEffect(a) \/ Invoke(a)
  BY <1>3, <1>8 DEF Mark, FinishEffect, Invoke, outside
<1>9. CASE Prepare(a) \/ SkipMemory(a)
  BY <1>3, <1>9 DEF Prepare, SkipMemory, StepWrite, outside
<1>10. CASE Policy(a)
  <2>1. StepWrite(a, "run", item[a], "completed", "refresh")
    BY <1>1, <1>10 DEF Policy
  <2> QED BY <1>3, <2>1 DEF StepWrite, outside
<1>11. ~CreateTask(a)
  BY <1>1 DEF CreateTask, NoHuman
<1>12. ASSUME \/ DenyStep(a) \/ DenySession(a) \/ Ask(a) \/ AskStep(a) \/ AskSession(a)
              \/ AskRow(a) \/ TaskStep(a) \/ TaskSession(a)
       PROVE  FALSE
  <2>1. pc[a] \in Interrupting
    BY <1>12 DEF DenyStep, DenySession, Ask, AskStep, AskSession, AskRow, TaskStep,
         TaskSession, StepWrite, SessionWrite, Move, Interrupting
  <2> QED BY <1>1, <2>1
<1> QED
  BY <1>4, <1>5, <1>6, <1>7, <1>8, <1>9, <1>10, <1>11, <1>12 DEF Handle

LEMMA RecoverOnward ==
  ASSUME TypeInv, RunsThrough, NEW a \in Actor, Recover(a) \/ Respond(a)
  PROVE  (\A b \in Actor : Onward(b)) /\ tasks' = tasks
<1>1. pc[a] \notin Interrupting /\ pc \in [Actor -> Label]
  BY DEF TypeInv, ThreadsOK, RunsThrough
<1>2. ASSUME NEW from, NEW to \in {"retry_step", "fail_step", "resume", "idle"},
             Move(a, from, to), item' = item
      PROVE  \A b \in Actor : Onward(b)
  <2>1. to \notin Interrupting \cup {"retry_session", "fail_session"}
    BY DEF Interrupting
  <2> QED BY <1>2, <2>1, MovesOnward
<1>3. CASE RetryItem(a) \/ FailItem(a) \/ FailSession(a)
  BY <1>2, <1>3 DEF RetryItem, FailItem, FailSession, outside
<1>4. CASE RetrySession(a)
  BY <1>2, <1>4 DEF RetrySession, SessionWrite, outside
<1>5. CASE RetryStep(a) \/ FailStep(a)
  BY <1>1, <1>5 DEF RetryStep, FailStep, Move, Onward, outside
<1>6. ~Respond(a)
  BY <1>1 DEF Respond, ApproveStep, ApproveSession, RejectStep, RejectSession, ReturnStep,
       ReturnSession, StepWrite, SessionWrite, Move, Interrupting
<1> QED BY <1>3, <1>4, <1>5, <1>6 DEF Recover

LEMMA ContinueOnward ==
  ASSUME TypeInv, NEW a \in Actor, Continue(a)
  PROVE  (\A b \in Actor : Onward(b)) /\ tasks' = tasks
<1>1. item \in [Actor -> Step]
  BY DEF TypeInv, ThreadsOK
<1> DEFINE targets == {"close", "resume", "next", "next_session", "drain", "scan", "filter",
                       "enqueue", "items", "lease", "after", "idle", "pick"}
<1>2. ASSUME NEW from, NEW to \in targets, Move(a, from, to),
             item' = item \/ \E s \in Step : item' = [item EXCEPT ![a] = s]
      PROVE  \A b \in Actor : Onward(b)
  <2>1. \A b \in Actor : b # a => item'[b] = item[b]
    BY <1>1, <1>2
  <2>2. to \notin Interrupting \cup {"retry_session", "fail_session"}
    BY DEF Interrupting
  <2> QED BY <1>2, <2>1, <2>2, MovesOnward
<1>3. CASE Refresh(a) \/ Close(a) \/ ContinueAfter(a) \/ Scan(a) \/ EnqueueAll(a)
           \/ EnqueueFirst(a) \/ MissingReady(a) \/ ResumeWorker(a)
  BY <1>2, <1>3
  DEF Refresh, Close, ContinueAfter, Scan, EnqueueAll, EnqueueFirst, MissingReady,
      ResumeWorker, outside
<1>4. CASE CheckPaused(a) \/ NothingReady(a) \/ RunNextItem(a)
  BY <1>2, <1>4 DEF CheckPaused, NothingReady, RunNextItem, Leave, Keep, outside
<1>5. CASE Drain(a) \/ ResumeOuter(a)
  BY <1>2, <1>5 DEF Drain, ResumeOuter, PickOldest, outside
<1>6. CASE EnqueueOne(a)
  <2>1. \E to \in {"enqueue", "lease", "items", "resume"} :
          /\ Move(a, "enqueue", to)
          /\ item' = item \/ \E i \in Step : item' = [item EXCEPT ![a] = i]
    BY <1>6, Zenon DEF EnqueueOne
  <2>2. tasks' = tasks
    BY <1>6 DEF EnqueueOne, outside
  <2> QED BY <1>2, <2>1, <2>2
<1>7. CASE ResumeInner(a)
  <2>1. Top(a).loop \in {"drain", "items", "enqueue"}
    BY <1>7, StackType DEF TypeInv, ResumeInner, Outer, Frame
  <2> QED BY <1>2, <1>7, <2>1 DEF ResumeInner, Leave, Keep, outside
<1>8. CASE After(a)
  <2>1. \E to \in {"pick", "resume", "idle"} : Move(a, "after", to)
    BY <1>8 DEF After, EndCall
  <2> QED BY <1>2, <1>8, <2>1 DEF After, outside
<1> QED BY <1>3, <1>4, <1>5, <1>6, <1>7, <1>8 DEF Continue

LEMMA NextOnward ==
  ASSUME TypeInv, Steady, Allowing, NoHuman, OrderInv, RunsThrough, [Next]_vars
  PROVE  (\A b \in Actor : Onward(b)) /\ tasks' = tasks
<1>1. approvals.pending = 0 /\ \A s \in Step : tasks[s] = 0
  BY DEF OrderInv, RunsThrough
<1>2. \A a \in Actor : ~Approve(a) /\ ~Reject(a) /\ ~ReturnTask(a)
  BY <1>1 DEF Approve, Reject, ReturnTask, DecideRequest
<1>3. \A dead : ~Crash(dead)
  BY RuntimeAssumption DEF Crash, Steady, TypeInv, OutsideOK
<1>4. CASE Clock \/ ExpireApproval \/ UNCHANGED vars
  BY <1>4 DEF Clock, LeaseExpires, BackoffElapses, ExpireApproval, vars, outside, Onward
<1>5. CASE \E a \in Actor : LeaseNext(a) \/ Thread(a)
  BY <1>5, HandleOnward, RecoverOnward, ContinueOnward DEF Thread
<1> QED BY <1>2, <1>3, <1>4, <1>5 DEF Next

LEMMA NextRunsThrough ==
  ASSUME TypeInv, Steady, Allowing, NoHuman, OrderInv, RunsThrough, [Next]_vars
  PROVE  RunsThrough'
<1>1. (\A b \in Actor : Onward(b)) /\ tasks' = tasks
  BY NextOnward
<1>2. ASSUME NEW a \in Actor PROVE Raised(a)'
  <2>1. ThreadInv(a) /\ Raised(a) /\ item[a] \in Step /\ LeaseInHand
    BY DEF OrderInv, RunsThrough, TypeInv, ThreadsOK
  <2>2. Onward(a)
    BY <1>1
  <2>3. CASE row' = row /\ item'[a] = item[a]
    BY <2>1, <2>2, <2>3 DEF Onward, Raised, ThreadInv
  <2>4. CASE pc'[a] = pc[a] /\ item'[a] = item[a]
    <3>1. CASE pc[a] = "retry_session"
      <4>1. ~BackoffElapses(item[a])
        BY <3>1 DEF BackoffElapses, HandlerKeepsUp, Steady
      <4> QED BY <2>1, <2>4, <3>1, <4>1, RowsRest DEF Raised
    <3>2. CASE pc[a] = "fail_session"
      BY <2>1, <2>4, <3>2, RowsRest DEF Raised
    <3> QED BY <2>4, <3>1, <3>2 DEF Raised
  <2>5. CASE pc'[a] \notin {"retry_session", "fail_session"}
    BY <2>5 DEF Raised
  <2> QED BY <2>2, <2>3, <2>4, <2>5 DEF Onward
<1>3. ASSUME NEW a \in Actor PROVE pc'[a] \notin Interrupting
  <2>1. Onward(a) /\ pc[a] \notin Interrupting
    BY <1>1 DEF RunsThrough
  <2> QED BY <2>1 DEF Onward, Interrupting
<1> QED BY <1>1, <1>2, <1>3 DEF RunsThrough

\* Who writes the session, if nothing interrupts it.
LEMMA SessionWriters ==
  ASSUME TypeInv, Steady, Allowing, NoHuman, OrderInv, RunsThrough, [Next]_vars
  PROVE  \/ session' \in {session, "completed"}
         \/ \E a \in Actor : pc[a] \in {"start", "retry_session", "fail_session"}
<1>1. \A a \in Actor : pc[a] \notin Interrupting
  BY DEF RunsThrough
<1>2. ASSUME NEW a \in Actor, Handle(a)
      PROVE  session' = session \/ pc[a] = "start"
  <2>1. CASE Start(a) \/ DenySession(a) \/ AskSession(a) \/ TaskSession(a)
    BY <1>1, <2>1
    DEF Start, DenySession, AskSession, TaskSession, SessionWrite, Move, Interrupting
  <2>2. CASE Lease(a) \/ Pick(a) \/ Mark(a) \/ Prepare(a) \/ Policy(a) \/ DenyStep(a)
    BY <2>2 DEF Lease, TakeRow, Pick, PickOldest, Mark, Prepare, Policy, DenyStep, StepWrite,
       ledgerVars
  <2>3. CASE \/ Ask(a) \/ AskStep(a) \/ AskRow(a) \/ Invoke(a) \/ FinishEffect(a)
             \/ SkipMemory(a) \/ CreateTask(a) \/ TaskStep(a)
    BY <2>3 DEF Ask, AskStep, AskRow, Invoke, FinishEffect, SkipMemory, CreateTask, TaskStep,
       StepWrite, ledgerVars
  <2> QED BY <1>2, <2>1, <2>2, <2>3 DEF Handle
<1>3. ASSUME NEW a \in Actor, Recover(a)
      PROVE  session' = session \/ pc[a] \in {"retry_session", "fail_session"}
  BY <1>3 DEF Recover, RetryItem, RetryStep, RetrySession, FailItem, FailStep, FailSession,
     SessionWrite, Move
<1>4. ASSUME NEW a \in Actor PROVE ~Respond(a)
  BY <1>1 DEF Respond, ApproveStep, ApproveSession, RejectStep, RejectSession, ReturnStep,
       ReturnSession, StepWrite, SessionWrite, Move, Interrupting
<1>5. ASSUME NEW a \in Actor, Continue(a) PROVE session' \in {session, "completed"}
  <2>1. CASE \/ Refresh(a) \/ Close(a) \/ ContinueAfter(a) \/ CheckPaused(a) \/ Drain(a)
             \/ Scan(a) \/ EnqueueAll(a) \/ EnqueueFirst(a) \/ MissingReady(a)
    BY <2>1 DEF Refresh, Close, ContinueAfter, CheckPaused, Drain, PickOldest, Scan,
       EnqueueAll, EnqueueFirst, MissingReady, ledgerVars
  <2>2. CASE NothingReady(a)
    BY <2>2 DEF NothingReady, SetSession
  <2>3. CASE \/ EnqueueOne(a) \/ RunNextItem(a) \/ ResumeWorker(a) \/ ResumeInner(a)
             \/ ResumeOuter(a) \/ After(a)
    BY <2>3 DEF EnqueueOne, RunNextItem, ResumeWorker, ResumeInner, ResumeOuter, PickOldest,
       After, ledgerVars
  <2> QED BY <1>5, <2>1, <2>2, <2>3 DEF Continue
<1>6. ASSUME NEW a \in Actor, LeaseNext(a) \/ Approve(a) \/ Reject(a) \/ ReturnTask(a)
      PROVE  session' = session
  BY <1>6 DEF LeaseNext, TakeRow, Approve, Reject, ReturnTask, DecideRequest, ledgerVars
<1>7. ASSUME Clock \/ ExpireApproval \/ (\E dead : Crash(dead)) \/ UNCHANGED vars
      PROVE  session' = session
  BY <1>7 DEF Clock, LeaseExpires, BackoffElapses, ExpireApproval, Crash, vars, ledgerVars
<1>8. ASSUME NEW a \in Actor, Thread(a)
      PROVE  \/ session' \in {session, "completed"}
             \/ pc[a] \in {"start", "retry_session", "fail_session"}
  BY <1>2, <1>3, <1>4, <1>5, <1>8 DEF Thread
<1> QED BY <1>6, <1>7, <1>8 DEF Next

\* While handlers keep up, no process dies, the policy allows the session and no step is a
\* person's, a completed session stays completed, and a row that was closed is never leased
\* again, for every plan, any number of workers and threads, and any retries.
THEOREM OutcomeIsFinal ==
  ASSUME Steady, Allowing, NoHuman PROVE Spec => [][KeepsOutcome]_vars
<1>1. Init => RunsThrough
  <2>1. {"pick", "idle"} \cap (Interrupting \cup {"retry_session", "fail_session"}) = {}
    BY DEF Interrupting
  <2> QED BY <2>1 DEF Init, RunsThrough, Raised
<1>2. TypeInv /\ OrderInv /\ [Next]_vars => (TypeInv /\ OrderInv)'
  BY NextTypeInv, NextOrderInv DEF OrderGoesOn
<1>3. ASSUME TypeInv, OrderInv, RunsThrough, CompletedMeansAllDone, [Next]_vars
      PROVE  KeepsOutcome
  <2>1. ASSUME NEW s \in Step, row[s].state \in {"done", "failed"}
        PROVE  row'[s].state = row[s].state
    <3>1. LeaseInHand
      BY <1>3 DEF OrderInv
    <3> QED BY <1>3, <2>1, <3>1, RowsRest
  <2>2. ASSUME session = "completed", NEW a \in Actor
        PROVE  pc[a] \notin {"start", "retry_session", "fail_session"}
    <3>1. item[a] \in Step /\ Raised(a)
      BY <1>3 DEF TypeInv, ThreadsOK, RunsThrough
    <3>2. Past(item[a])
      BY <1>3, <2>2, <3>1 DEF CompletedMeansAllDone, AllCompleted, OrderInv, StepInv
    <3> QED BY <3>1, <3>2 DEF Past, Busy, Raised
  <2>3. session = "completed" => session' = "completed"
    BY <1>3, <2>2, SessionWriters
  <2> QED BY <2>1, <2>3 DEF KeepsOutcome
<1>4. TypeInv /\ OrderInv /\ RunsThrough /\ [Next]_vars => RunsThrough'
  BY NextRunsThrough
<1>5. TypeInv /\ OrderInv /\ RunsThrough /\ CompletedMeansAllDone /\ [Next]_vars => KeepsOutcome
  BY <1>3
<1>6. Spec => []CompletedMeansAllDone
  BY CompletedIsDone
<1> QED BY <1>1, <1>2, <1>4, <1>5, <1>6, InitTypeInv, InitOrderInv, PTL DEF Spec

-----------------------------------------------------------------------------
(* The contract of a plan that is interrupted by nobody. *)

\* Of the steps that wait for nothing more there is at most one.
InLine ==
  \A S \in SUBSET Step : (\A s \in S : Deps[s] \subseteq S) =>
    \A s, t \in Step \ S : Deps[s] \subseteq S /\ Deps[t] \subseteq S => s = t

\* Handlers keep up, no process dies, the policy allows the session and no step is a
\* person's; and steps fail only where there are no others beside them.
Undisturbed ==
  /\ Steady /\ Allowing /\ NoHuman
  /\ CanFail = {} \/ InLine

\* A thread that works on the step of its item.
Engaging ==
  {"start", "mark", "run", "invoked", "retry_step", "retry_session", "fail_step",
   "fail_session"}

Engaged(a) == pc[a] \in Engaging

\* What the thread finds its step to be.
Expects(a) ==
  /\ pc[a] \in {"start", "mark", "retry_session"} => step[item[a]] = "queued"
  /\ pc[a] \in {"run", "invoked", "retry_step", "fail_step"} => step[item[a]] = "running"
  /\ pc[a] = "fail_session" => step[item[a]] = "failed"
  /\ pc[a] \in {"retry_step", "retry_session", "fail_step", "fail_session"}
       => item[a] \in CanFail

Unleased(s) == row[s].state \in {"absent", "queued"}

WorkInv ==
  /\ \A a \in Actor : Expects(a)
  /\ \A a, b \in Actor : a # b /\ Engaged(a) /\ Engaged(b) => item[a] # item[b]
  /\ \A s \in Step : Unleased(s) =>
       \/ step[s] = "queued"
       \/ \E a \in Actor : pc[a] = "retry_step" /\ item[a] = s

\* A session that is at an end is left alone.
EndInv ==
  /\ session \in {"running", "queued", "completed", "failed"}
  /\ session = "failed" =>
       /\ \E s \in Step : step[s] = "failed"
       /\ \A a \in Actor : ~Engaged(a)

-----------------------------------------------------------------------------
(* The kinds of step, as the contract sees them. *)

Alone(a) == \A b \in Actor : b # a => pc'[b] = pc[b] /\ item'[b] = item[b]

Turns(a, from, to) == Alone(a) /\ pc[a] = from /\ pc'[a] = to /\ item'[a] = item[a]

\* It works on nothing, and completes the session if all is done.
Passes(a) ==
  /\ Alone(a) /\ ~Engaged(a) /\ ~Engaged(a)'
  /\ session' \in {session, "completed"}
  /\ UNCHANGED <<step, effects>>
  /\ \A s \in Step : Unleased(s)' => Unleased(s)

Takes(a, s) ==
  /\ Alone(a) /\ ~Engaged(a) /\ pc'[a] = "start" /\ item'[a] = s
  /\ Eligible(s) /\ LeaseRow(s, a)
  /\ UNCHANGED <<session, step, effects>>

Sets(a, status) ==
  /\ \/ status = "running" /\ Turns(a, "start", "mark")
     \/ status = "queued" /\ Turns(a, "retry_session", "resume")
     \/ status = "failed" /\ Turns(a, "fail_session", "idle")
  /\ session' = status
  /\ UNCHANGED <<step, effects, row>>

Writes(a, state) ==
  /\ \/ state = "running" /\ Turns(a, "mark", "run")
     \/ state = "completed" /\ (Turns(a, "run", "refresh") \/ Turns(a, "invoked", "refresh"))
     \/ state = "queued" /\ Turns(a, "retry_step", "retry_session")
     \/ state = "failed" /\ Turns(a, "fail_step", "fail_session")
  /\ step' = [step EXCEPT ![item[a]] = state]
  /\ UNCHANGED <<session, effects, row>>

Performs(a) ==
  /\ Turns(a, "run", "invoked")
  /\ effects' = [effects EXCEPT ![item[a]] = @ + 1]
  /\ UNCHANGED <<session, step, row>>

Raising(a) ==
  /\ \E from \in {"run", "invoked"} :
       \/ /\ Turns(a, from, "retry_step")
          /\ \A s \in Step : s # item[a] => row'[s] = row[s]
       \/ /\ Turns(a, from, "fail_step")
          /\ \A s \in Step : Unleased(s)' => Unleased(s)
  /\ item[a] \in CanFail
  /\ UNCHANGED <<session, step, effects>>

Rests ==
  /\ UNCHANGED <<pc, item, session, step, effects>>
  /\ \A s \in Step : Unleased(s)' => Unleased(s)

Acts(a) ==
  \/ Passes(a)
  \/ \E s \in Step : Takes(a, s)
  \/ \E x \in {"running", "queued", "completed", "failed"} : Sets(a, x) \/ Writes(a, x)
  \/ Performs(a) \/ Raising(a)

LEMMA MoveTurns ==
  ASSUME TypeInv, NEW a \in Actor, NEW from, NEW to, Move(a, from, to)
  PROVE  /\ pc[a] = from /\ pc'[a] = to
         /\ item' = item => Turns(a, from, to)
         /\ \A i : item' = [item EXCEPT ![a] = i] => Alone(a) /\ item'[a] = i
  BY DEF TypeInv, ThreadsOK, Move, Turns, Alone

LEMMA HandleActs ==
  ASSUME TypeInv, Allowing, NoHuman, RunsThrough, NEW a \in Actor, Handle(a) \/ LeaseNext(a)
  PROVE  Acts(a)
<1>1. item \in [Actor -> Step] /\ pc[a] \notin Interrupting /\ verdict = "allow"
  BY DEF TypeInv, ThreadsOK, RunsThrough, OutsideOK, Allowing
<1>2. {"idle", "pick", "lease", "resume", "scan", "refresh"} \cap Engaging = {}
  BY DEF Engaging
<1>3. ASSUME UNCHANGED row PROVE \A s \in Step : Unleased(s)' => Unleased(s)
  BY <1>3 DEF Unleased
<1>4. CASE LeaseNext(a)
  <2>1. PICK s \in Step : /\ Eligible(s) /\ LeaseRow(s, a) /\ item' = [item EXCEPT ![a] = s]
                          /\ UNCHANGED <<session, step, effects>>
    BY <1>4 DEF LeaseNext, TakeRow, Oldest, outside
  <2>2. Move(a, "idle", "start")
    BY <1>4 DEF LeaseNext
  <2>3. Takes(a, s)
    BY <1>2, <2>1, <2>2, MoveTurns DEF Takes, Engaged
  <2> QED BY <2>3 DEF Acts
<1>5. CASE Lease(a)
  <2>1. item[a] \in Step
    BY <1>1
  <2>2. CASE Eligible(item[a])
    <3>1. /\ Move(a, "lease", "start") /\ LeaseRow(item[a], a)
          /\ item' = [item EXCEPT ![a] = item[a]] /\ UNCHANGED <<session, step, effects>>
      BY <1>5, <2>2 DEF Lease, TakeRow, outside
    <3>2. Takes(a, item[a])
      BY <1>2, <2>2, <3>1, MoveTurns DEF Takes, Engaged
    <3> QED BY <2>1, <3>2 DEF Acts
  <2>3. CASE ~Eligible(item[a])
    <3>1. /\ Move(a, "lease", "resume") /\ UNCHANGED <<row, item, session, step, effects>>
      BY <1>5, <2>3 DEF Lease, ledgerVars, outside
    <3> QED BY <1>2, <1>3, <3>1, MoveTurns DEF Acts, Passes, Turns, Engaged
  <2> QED BY <2>2, <2>3
<1>6. CASE Pick(a)
  <2>1. UNCHANGED <<row, session, step, effects>>
    BY <1>6 DEF Pick, PickOldest, ledgerVars, outside
  <2>2. \E to \in {"lease", "scan"} :
          /\ Move(a, "pick", to)
          /\ item' = item \/ \E i \in Step : item' = [item EXCEPT ![a] = i]
    BY <1>6 DEF Pick, PickOldest
  <2>3. Alone(a) /\ pc[a] = "pick" /\ pc'[a] \in {"lease", "scan"}
    BY <2>2, MoveTurns DEF Turns
  <2> QED BY <1>2, <1>3, <2>1, <2>3 DEF Acts, Passes, Engaged
<1>7. CASE Start(a)
  <2>1. Sets(a, "running")
    BY <1>7, MoveTurns DEF Start, SessionWrite, SetSession, Sets, outside
  <2> QED BY <2>1 DEF Acts
<1>8. CASE Mark(a)
  <2>1. Writes(a, "running")
    BY <1>8, MoveTurns DEF Mark, UpdateStep, Writes, outside
  <2> QED BY <2>1 DEF Acts
<1>9. CASE Prepare(a) \/ SkipMemory(a) \/ Policy(a) \/ FinishEffect(a)
  <2>1. CASE StepWrite(a, "run", item[a], "completed", "refresh")
    <3>1. Writes(a, "completed")
      BY <2>1, MoveTurns DEF StepWrite, UpdateStep, Writes, outside
    <3> QED BY <3>1 DEF Acts
  <2>2. CASE FinishEffect(a)
    <3>1. Writes(a, "completed")
      BY <2>2, MoveTurns DEF FinishEffect, UpdateStep, Writes, outside
    <3> QED BY <3>1 DEF Acts
  <2> QED BY <1>1, <1>9, <2>1, <2>2 DEF Prepare, SkipMemory, Policy
<1>10. CASE Invoke(a)
  BY <1>10, MoveTurns DEF Invoke, Acts, Performs, ledgerVars
<1>11. ~CreateTask(a)
  BY <1>1 DEF CreateTask, NoHuman
<1>12. ASSUME \/ DenyStep(a) \/ DenySession(a) \/ Ask(a) \/ AskStep(a) \/ AskSession(a)
              \/ AskRow(a) \/ TaskStep(a) \/ TaskSession(a)
       PROVE  FALSE
  <2>1. pc[a] \in Interrupting
    BY <1>12 DEF DenyStep, DenySession, Ask, AskStep, AskSession, AskRow, TaskStep,
         TaskSession, StepWrite, SessionWrite, Move, Interrupting
  <2> QED BY <1>1, <2>1
<1> QED
  BY <1>4, <1>5, <1>6, <1>7, <1>8, <1>9, <1>10, <1>11, <1>12 DEF Handle

LEMMA RecoverActs ==
  ASSUME TypeInv, RunsThrough, NEW a \in Actor, Recover(a) \/ Respond(a)
  PROVE  Acts(a)
<1>1. /\ pc[a] \notin Interrupting /\ item[a] \in Step
      /\ LedgerTypeOK /\ row[item[a]] \in Row
  BY DEF TypeInv, LedgerTypeOK, ThreadsOK, RunsThrough
<1>2. CASE RetryItem(a)
  <2>1. PICK now \in BOOLEAN : RetryRow(item[a], a, now)
    BY <1>2 DEF RetryItem
  <2>2. \A s \in Step : s # item[a] => row'[s] = row[s]
    <3>1. BecomesRow(item[a], [row[item[a]] EXCEPT !.state = "queued", !.owner = a,
                                 !.expired = FALSE, !.failedBefore = TRUE, !.due = now])
      BY <1>1, <2>1, RetryRowEffect
    <3> QED BY <3>1 DEF BecomesRow
  <2>3. Raising(a)
    BY <1>2, <2>2, MoveTurns DEF RetryItem, Raises, Raising, outside
  <2> QED BY <2>3 DEF Acts
<1>3. CASE FailItem(a)
  <2>1. BecomesRow(item[a], [row[item[a]] EXCEPT !.state = "failed", !.owner = NoOne,
                               !.expired = FALSE, !.failedBefore = TRUE])
    BY <1>1, <1>3, FailRowEffect DEF FailItem
  <2>2. row'[item[a]].state = "failed"
    BY <1>1, <2>1 DEF BecomesRow, Row
  <2>3. \A s \in Step : Unleased(s)' => Unleased(s)
    BY <2>1, <2>2 DEF BecomesRow, Unleased
  <2>4. Raising(a)
    BY <1>3, <2>3, MoveTurns DEF FailItem, Raises, Raising, outside
  <2> QED BY <2>4 DEF Acts
<1>4. CASE RetryStep(a)
  <2>1. Writes(a, "queued")
    BY <1>4, MoveTurns DEF RetryStep, UpdateStep, Writes, outside
  <2> QED BY <2>1 DEF Acts
<1>5. CASE FailStep(a)
  <2>1. Writes(a, "failed")
    BY <1>5, MoveTurns DEF FailStep, UpdateStep, Writes, outside
  <2> QED BY <2>1 DEF Acts
<1>6. CASE RetrySession(a)
  <2>1. Sets(a, "queued")
    BY <1>6, MoveTurns DEF RetrySession, SessionWrite, SetSession, Sets, outside
  <2> QED BY <2>1 DEF Acts
<1>7. CASE FailSession(a)
  <2>1. Sets(a, "failed")
    BY <1>7, MoveTurns DEF FailSession, SetSession, Sets, outside
  <2> QED BY <2>1 DEF Acts
<1>8. ~Respond(a)
  BY <1>1 DEF Respond, ApproveStep, ApproveSession, RejectStep, RejectSession, ReturnStep,
       ReturnSession, StepWrite, SessionWrite, Move, Interrupting
<1> QED BY <1>2, <1>3, <1>4, <1>5, <1>6, <1>7, <1>8 DEF Recover

LEMMA ContinueActs ==
  ASSUME TypeInv, NEW a \in Actor, Continue(a)
  PROVE  Acts(a)
<1>1. LedgerTypeOK /\ item[a] \in Step /\ item \in [Actor -> Step]
  BY DEF TypeInv, ThreadsOK
<1> DEFINE places == {"refresh", "close", "resume", "next", "next_session", "drain", "scan",
                      "filter", "enqueue", "items", "lease", "after", "idle", "pick"}
<1>2. places \cap Engaging = {}
  BY DEF Engaging
<1> HIDE DEF places
<1>3. ASSUME UNCHANGED row PROVE \A s \in Step : Unleased(s)' => Unleased(s)
  BY <1>3 DEF Unleased
<1>4. ASSUME NEW s \in Step, EnqueueRow(s) PROVE \A t \in Step : Unleased(t)' => Unleased(t)
  BY <1>1, <1>4, EnqueueKeeps DEF Unleased
<1>5. ASSUME NEW from \in places, NEW to \in places, Move(a, from, to),
             item' = item \/ \E i \in Step : item' = [item EXCEPT ![a] = i],
             session' \in {session, "completed"}, UNCHANGED <<step, effects>>,
             row' = row \/ \E s \in Step : EnqueueRow(s)
      PROVE  Acts(a)
  <2>1. Alone(a) /\ pc[a] = from /\ pc'[a] = to
    BY <1>5, MoveTurns DEF Turns
  <2>2. \A s \in Step : Unleased(s)' => Unleased(s)
    BY <1>3, <1>4, <1>5
  <2> QED BY <1>2, <1>5, <2>1, <2>2 DEF Acts, Passes, Engaged
<1>6. CASE Refresh(a) \/ ContinueAfter(a) \/ Scan(a) \/ EnqueueAll(a)
           \/ EnqueueFirst(a) \/ MissingReady(a) \/ ResumeWorker(a)
  <2>1. \E from \in places, to \in places : Move(a, from, to)
    BY <1>6 DEF places, Refresh, ContinueAfter, Scan, EnqueueAll, EnqueueFirst, MissingReady,
       ResumeWorker
  <2>2. UNCHANGED <<row, item, session, step, effects>>
    BY <1>6 DEF Refresh, ContinueAfter, Scan, EnqueueAll, EnqueueFirst, MissingReady,
       ResumeWorker, ledgerVars, outside
  <2> QED BY <1>5, <2>1, <2>2
<1>7. CASE Close(a)
  <2>1. \E to \in places : Move(a, "close", to)
    BY <1>7 DEF places, Close
  <2>2. CompleteRow(item[a]) /\ UNCHANGED <<item, session, step, effects>>
    BY <1>7 DEF Close, outside
  <2>3. row[item[a]] \in Row
    BY <1>1 DEF LedgerTypeOK
  <2>4. BecomesRow(item[a], [row[item[a]] EXCEPT !.state = "done", !.owner = NoOne,
                               !.expired = FALSE, !.failedBefore = FALSE])
    BY <1>1, <2>2, CompleteRowEffect
  <2>5. row'[item[a]].state = "done"
    BY <1>1, <2>3, <2>4 DEF BecomesRow, Row
  <2>6. \A s \in Step : Unleased(s)' => Unleased(s)
    BY <2>4, <2>5 DEF BecomesRow, Unleased
  <2>7. Alone(a) /\ pc[a] = "close" /\ pc'[a] \in places
    BY <2>1, <2>2, MoveTurns DEF Turns
  <2>8. "close" \in places
    BY DEF places
  <2> QED BY <1>2, <2>2, <2>6, <2>7, <2>8 DEF Acts, Passes, Engaged
<1>8. CASE CheckPaused(a) \/ NothingReady(a) \/ RunNextItem(a)
  <2>1. \E from \in places, to \in places : Move(a, from, to)
    BY <1>8 DEF places, CheckPaused, NothingReady, RunNextItem, Leave
  <2>2. UNCHANGED <<row, step, effects>> /\ session' \in {session, "completed"}
    BY <1>8 DEF CheckPaused, NothingReady, RunNextItem, SetSession, ledgerVars, outside
  <2>3. item' = item \/ \E i \in Step : item' = [item EXCEPT ![a] = i]
    BY <1>8 DEF CheckPaused, NothingReady, RunNextItem, Leave, Keep
  <2> QED BY <1>5, <2>1, <2>2, <2>3
<1>9. CASE Drain(a) \/ ResumeOuter(a)
  <2>1. \E from \in places, to \in places : Move(a, from, to)
    BY <1>9 DEF places, Drain, ResumeOuter, PickOldest
  <2>2. UNCHANGED <<row, session, step, effects>>
    BY <1>9 DEF Drain, ResumeOuter, PickOldest, ledgerVars, outside
  <2>3. item' = item \/ \E i \in Step : item' = [item EXCEPT ![a] = i]
    BY <1>9 DEF Drain, ResumeOuter, PickOldest
  <2> QED BY <1>5, <2>1, <2>2, <2>3
<1>10. CASE EnqueueOne(a)
  <2>1. \E to \in {"enqueue", "lease", "items", "resume"} :
          /\ Move(a, "enqueue", to)
          /\ item' = item \/ \E i \in Step : item' = [item EXCEPT ![a] = i]
    BY <1>10, Zenon DEF EnqueueOne
  <2>2. UNCHANGED <<session, step, effects>> /\ \E s \in Step : EnqueueRow(s)
    BY <1>10 DEF EnqueueOne, outside
  <2>3. {"enqueue", "lease", "items", "resume"} \subseteq places
    BY DEF places
  <2> QED BY <1>5, <2>1, <2>2, <2>3
<1>11. CASE ResumeInner(a)
  <2>1. Top(a).loop \in {"drain", "items", "enqueue"}
    BY <1>11, StackType DEF TypeInv, ResumeInner, Outer, Frame
  <2>2. \E from \in places, to \in places : Move(a, from, to)
    BY <1>11, <2>1 DEF places, ResumeInner, Leave
  <2>3. UNCHANGED <<row, item, session, step, effects>>
    BY <1>11 DEF ResumeInner, Leave, Keep, ledgerVars, outside
  <2> QED BY <1>5, <2>2, <2>3
<1>12. CASE After(a)
  <2>1. \E from \in places, to \in places : Move(a, from, to)
    BY <1>12 DEF places, After, EndCall
  <2>2. UNCHANGED <<row, item, session, step, effects>>
    BY <1>12 DEF After, ledgerVars, outside
  <2> QED BY <1>5, <2>1, <2>2
<1> QED BY <1>6, <1>7, <1>8, <1>9, <1>10, <1>11, <1>12 DEF Continue

LEMMA NextActs ==
  ASSUME TypeInv, Undisturbed, OrderInv, RunsThrough, [Next]_vars
  PROVE  Rests \/ \E a \in Actor : Acts(a)
<1>1. /\ approvals.pending = 0 /\ (\A s \in Step : tasks[s] = 0)
      /\ LedgerTypeOK /\ row \in [Step -> Row]
  BY DEF OrderInv, RunsThrough, Undisturbed, TypeInv, LedgerTypeOK
<1>2. \A a \in Actor : ~Approve(a) /\ ~Reject(a) /\ ~ReturnTask(a)
  BY <1>1 DEF Approve, Reject, ReturnTask, DecideRequest
<1>3. \A dead : ~Crash(dead)
  BY RuntimeAssumption DEF Crash, Undisturbed, Steady, TypeInv, OutsideOK
<1>4. ASSUME NEW a \in Actor, LeaseNext(a) \/ Thread(a) PROVE Acts(a)
  BY <1>4, HandleActs, RecoverActs, ContinueActs DEF Thread, Undisturbed
<1>5. ASSUME NEW s \in Step, LeaseExpires(s) PROVE Rests
  <2>1. /\ ExpireRow(s) /\ row[s].state = "leased"
        /\ UNCHANGED <<pc, item, session, step, effects>>
    BY <1>5 DEF LeaseExpires, ExpireRow
  <2>2. row[s] \in Row
    BY <1>1
  <2>3. BecomesRow(s, [row[s] EXCEPT !.expired = TRUE])
    BY <1>1, <2>1, ExpireRowEffect
  <2>4. \A t \in Step : row'[t].state = row[t].state
    BY <2>2, <2>3 DEF BecomesRow, Row
  <2> QED BY <2>1, <2>4 DEF Rests, Unleased
<1>6. ASSUME NEW s \in Step, BackoffElapses(s) PROVE Rests
  <2>1. /\ DueRow(s) /\ UNCHANGED <<pc, item, session, step, effects>>
    BY <1>6 DEF BackoffElapses, outside
  <2>2. row[s] \in Row
    BY <1>1
  <2>3. BecomesRow(s, [row[s] EXCEPT !.due = TRUE])
    BY <1>1, <2>1, DueRowEffect
  <2>4. \A t \in Step : row'[t].state = row[t].state
    BY <2>2, <2>3 DEF BecomesRow, Row
  <2> QED BY <2>1, <2>4 DEF Rests, Unleased
<1>7. CASE ExpireApproval \/ UNCHANGED vars
  BY <1>7 DEF ExpireApproval, vars, ledgerVars, outside, Rests, Unleased
<1> QED BY <1>2, <1>3, <1>4, <1>5, <1>6, <1>7 DEF Next, Clock

-----------------------------------------------------------------------------
(* What the steps keep. *)

\* Who works on a step has its row, or left it as a failed attempt leaves it.
LEMMA EngagedRows ==
  ASSUME TypeInv, OrderInv, RunsThrough, NEW a \in Actor, Engaged(a)
  PROVE  /\ item[a] \in Step
         /\ pc[a] \in {"start", "mark", "run", "invoked"} =>
              /\ Holds(a, item[a])
              /\ row[item[a]].state = "leased" /\ ~row[item[a]].expired
         /\ pc[a] \in {"retry_step", "retry_session"} =>
              row[item[a]].state = "queued" /\ ~row[item[a]].due
         /\ pc[a] \in {"fail_step", "fail_session"} => row[item[a]].state = "failed"
         /\ ~Eligible(item[a])
         /\ Awaited(item[a])
<1>1. item[a] \in Step /\ ThreadInv(a) /\ Raised(a) /\ LeaseInHand /\ StepInv(item[a])
  BY DEF TypeInv, ThreadsOK, OrderInv, RunsThrough
<1>2. pc[a] \in {"start", "mark", "run", "invoked"} =>
        Holds(a, item[a]) /\ row[item[a]].state = "leased" /\ ~row[item[a]].expired
  BY <1>1 DEF Holds, RowInHand, LeaseInHand
<1>3. /\ pc[a] \in {"retry_step", "retry_session"} =>
           row[item[a]].state = "queued" /\ ~row[item[a]].due
      /\ pc[a] \in {"fail_step", "fail_session"} => row[item[a]].state = "failed"
  BY <1>1 DEF ThreadInv, Raised
<1>4. row[item[a]].state # "absent" /\ ~Eligible(item[a])
  BY <1>2, <1>3 DEF Engaged, Engaging, Eligible
<1> QED BY <1>1, <1>2, <1>3, <1>4 DEF StepInv

\* The threads keep their steps apart, and find them as they expect.
LEMMA WorkKept ==
  ASSUME TypeInv, WorkInv, NEW a \in Actor, Alone(a), Expects(a)',
         \A s \in Step : step'[s] = step[s] \/ (Engaged(a) /\ item[a] = s),
         Engaged(a)' =>
           \/ Engaged(a) /\ item'[a] = item[a]
           \/ \A b \in Actor : b # a /\ Engaged(b) => item[b] # item'[a],
         \A s \in Step : Unleased(s)' =>
           \/ Unleased(s) /\ step'[s] = step[s] /\ ~(pc[a] = "retry_step" /\ item[a] = s)
           \/ step'[s] = "queued"
           \/ pc'[a] = "retry_step" /\ item'[a] = s
  PROVE  WorkInv'
<1>1. \A b \in Actor : b # a => pc'[b] = pc[b] /\ item'[b] = item[b] /\ item[b] \in Step
  BY DEF Alone, TypeInv, ThreadsOK
<1>2. ASSUME NEW b \in Actor PROVE Expects(b)'
  <2>1. CASE b = a
    BY <2>1
  <2>2. CASE b # a
    <3>1. Expects(b) /\ (Engaged(a) /\ Engaged(b) => item[b] # item[a])
      BY <2>2 DEF WorkInv
    <3>2. Engaged(b) => step'[item[b]] = step[item[b]]
      BY <1>1, <2>2, <3>1
    <3>3. pc'[b] = pc[b] /\ item'[b] = item[b]
      BY <1>1, <2>2
    <3>4. {"start", "mark", "run", "invoked", "retry_step", "retry_session", "fail_step",
           "fail_session"} \subseteq Engaging
      BY DEF Engaging
    <3> QED BY <3>1, <3>2, <3>3, <3>4 DEF Expects, Engaged
  <2> QED BY <2>1, <2>2
<1>3. ASSUME NEW b \in Actor, NEW c \in Actor, b # c, Engaged(b)', Engaged(c)'
      PROVE  item'[b] # item'[c]
  <2>1. Engaged(b) /\ Engaged(c) => item[b] # item[c]
    BY <1>3 DEF WorkInv
  <2> QED BY <1>1, <1>3, <2>1 DEF Engaged
<1>4. ASSUME NEW s \in Step, Unleased(s)'
      PROVE  step'[s] = "queued" \/ \E b \in Actor : pc'[b] = "retry_step" /\ item'[b] = s
  <2>1. CASE Unleased(s) /\ step'[s] = step[s] /\ ~(pc[a] = "retry_step" /\ item[a] = s)
    <3>1. step[s] = "queued" \/ \E b \in Actor : pc[b] = "retry_step" /\ item[b] = s
      BY <2>1 DEF WorkInv
    <3> QED BY <1>1, <2>1, <3>1
  <2> QED BY <1>4, <2>1
<1> QED BY <1>2, <1>3, <1>4 DEF WorkInv

LEMMA ActsKeepWork ==
  ASSUME TypeInv, OrderInv, RunsThrough, WorkInv, NEW a \in Actor, Acts(a)
  PROVE  WorkInv'
<1>1. /\ item[a] \in Step /\ LedgerTypeOK /\ step \in [Step -> StepState] /\ row \in [Step -> Row]
      /\ Expects(a)
  BY DEF TypeInv, ThreadsOK, LedgerTypeOK, WorkInv
<1>2. ASSUME UNCHANGED row PROVE \A s \in Step : Unleased(s)' => Unleased(s)
  BY <1>2 DEF Unleased
<1>3. {"start", "mark", "run", "invoked", "retry_step", "retry_session", "fail_step",
       "fail_session"} = Engaging
  BY DEF Engaging
<1>4. {"idle", "resume", "refresh"} \cap Engaging = {}
  BY DEF Engaging
<1>5. CASE Passes(a)
  <2>1. Expects(a)'
    BY <1>3, <1>5 DEF Passes, Engaged, Expects
  <2>2. pc[a] # "retry_step"
    BY <1>3, <1>5 DEF Passes, Engaged
  <2> QED BY <1>5, <2>1, <2>2, WorkKept DEF Passes
<1>6. ASSUME NEW s \in Step, Takes(a, s) PROVE WorkInv'
  <2>1. \A b \in Actor : Engaged(b) => item[b] # s
    BY <1>6, EngagedRows DEF Takes
  <2>2. BecomesRow(s, [row[s] EXCEPT !.state = "leased", !.owner = a,
                         !.expired = FALSE, !.attempt = NextAttempt(s)])
    BY <1>1, <1>6, LeaseRowEffect DEF Takes
  <2>3. row'[s].state = "leased" /\ \A t \in Step : t # s => row'[t] = row[t]
    BY <1>1, <2>2 DEF BecomesRow, Row
  <2>4. row[s].state = "queued"
    <3>1. row[s].state = "leased" => ~row[s].expired
      BY DEF OrderInv, StepInv, LeaseInHand
    <3> QED BY <1>6, <3>1 DEF Takes, Eligible
  <2>5. step[s] = "queued"
    BY <1>3, <2>1, <2>4 DEF WorkInv, Unleased, Engaged
  <2>6. Expects(a)'
    BY <1>6, <2>5 DEF Takes, Expects
  <2>7. pc[a] # "retry_step"
    BY <1>3, <1>6 DEF Takes, Engaged
  <2>8. \A t \in Step : Unleased(t)' => Unleased(t)
    BY <2>3 DEF Unleased
  <2> QED BY <1>6, <2>1, <2>6, <2>7, <2>8, WorkKept DEF Takes
<1>7. ASSUME NEW x, Sets(a, x) PROVE WorkInv'
  <2>1. Alone(a) /\ item'[a] = item[a] /\ UNCHANGED <<step, row>>
    BY <1>7 DEF Sets, Turns
  <2>2. Engaged(a) /\ pc[a] # "retry_step"
    BY <1>3, <1>7 DEF Sets, Turns, Engaged
  <2>3. Expects(a)'
    BY <1>1, <1>7, <2>1 DEF Sets, Turns, Expects
  <2> QED BY <1>2, <2>1, <2>2, <2>3, WorkKept
<1>8. ASSUME NEW x \in {"running", "queued", "completed", "failed"}, Writes(a, x) PROVE WorkInv'
  <2>1. /\ Alone(a) /\ item'[a] = item[a] /\ UNCHANGED row
        /\ step' = [step EXCEPT ![item[a]] = x]
    BY <1>8 DEF Writes, Turns
  <2>2. Engaged(a)
    BY <1>3, <1>8 DEF Writes, Turns, Engaged
  <2>3. step'[item[a]] = x /\ \A s \in Step : s # item[a] => step'[s] = step[s]
    BY <1>1, <2>1
  <2>4. Expects(a)'
    BY <1>1, <1>8, <2>1, <2>3 DEF Writes, Turns, Expects
  <2>5. x = "queued" \/ ~Unleased(item[a])
    BY <1>8, <2>2, EngagedRows DEF Writes, Turns, Unleased
  <2>6. \A s \in Step : Unleased(s)' =>
           \/ Unleased(s) /\ step'[s] = step[s] /\ ~(pc[a] = "retry_step" /\ item[a] = s)
           \/ step'[s] = "queued"
    BY <1>2, <2>1, <2>3, <2>5
  <2> QED BY <2>1, <2>2, <2>3, <2>4, <2>6, WorkKept
<1>9. CASE Performs(a)
  <2>1. Alone(a) /\ item'[a] = item[a] /\ UNCHANGED <<step, row>>
    BY <1>9 DEF Performs, Turns
  <2>2. Engaged(a) /\ pc[a] # "retry_step"
    BY <1>3, <1>9 DEF Performs, Turns, Engaged
  <2>3. Expects(a)'
    BY <1>1, <1>9, <2>1 DEF Performs, Turns, Expects
  <2> QED BY <1>2, <2>1, <2>2, <2>3, WorkKept
<1>10. CASE Raising(a)
  <2>1. Alone(a) /\ item'[a] = item[a] /\ UNCHANGED step
    BY <1>10 DEF Raising, Turns
  <2>2. Engaged(a) /\ pc[a] # "retry_step"
    BY <1>3, <1>10 DEF Raising, Turns, Engaged
  <2>3. Expects(a)'
    BY <1>1, <1>10, <2>1 DEF Raising, Turns, Expects
  <2>4. \A s \in Step : Unleased(s)' => Unleased(s) \/ (pc'[a] = "retry_step" /\ item'[a] = s)
    BY <1>10, <2>1 DEF Raising, Turns, Unleased
  <2> QED BY <2>1, <2>2, <2>3, <2>4, WorkKept
<1> QED BY <1>5, <1>6, <1>7, <1>8, <1>9, <1>10 DEF Acts

\* Two steps that are neither completed nor waiting for another are one.
LEMMA OneAtATime ==
  ASSUME OrderInv, InLine, NEW s \in Step, NEW t \in Step,
         Awaited(s), Awaited(t), step[s] # "completed", step[t] # "completed"
  PROVE  s = t
<1> DEFINE S == {d \in Step : step[d] = "completed"}
<1>1. \A d \in S : Deps[d] \subseteq S
  <2>1. ASSUME NEW d \in S PROVE Awaited(d)
    BY <2>1 DEF OrderInv, StepInv, Past
  <2> QED BY <2>1, RuntimeAssumption DEF Awaited
<1>2. Deps[s] \subseteq S /\ Deps[t] \subseteq S
  BY RuntimeAssumption DEF Awaited
<1>3. S \in SUBSET Step /\ s \in Step \ S /\ t \in Step \ S
  OBVIOUS
<1> HIDE DEF S
<1> QED BY <1>1, <1>2, <1>3 DEF InLine

\* Nobody works in a session that is at an end.
LEMMA EngagedIsOpen ==
  ASSUME WorkInv, EndInv, CompletedMeansAllDone, NEW a \in Actor, Engaged(a), item[a] \in Step
  PROVE  session \in {"running", "queued"} /\ step[item[a]] # "completed"
<1>1. step[item[a]] # "completed"
  BY DEF WorkInv, Expects, Engaged, Engaging
<1> QED BY <1>1 DEF EndInv, CompletedMeansAllDone, AllCompleted

LEMMA ActsKeepEnd ==
  ASSUME TypeInv, OrderInv, RunsThrough, WorkInv, EndInv, CompletedMeansAllDone,
         CanFail = {} \/ InLine, NEW a \in Actor, Acts(a), CompletedMeansAllDone'
  PROVE  EndInv'
<1>1. item[a] \in Step /\ step \in [Step -> StepState] /\ Expects(a)
  BY DEF TypeInv, ThreadsOK, LedgerTypeOK, WorkInv
<1>2. Engaged(a) => session \in {"running", "queued"}
  BY <1>1, EngagedIsOpen
<1>3. CASE Passes(a)
  <2>1. CASE session' = session
    BY <1>3, <2>1 DEF Passes, EndInv, Alone, Engaged
  <2>2. CASE session' = "completed"
    BY <2>2 DEF EndInv
  <2> QED BY <1>3, <2>1, <2>2 DEF Passes
<1>4. ASSUME NEW s \in Step, Takes(a, s) PROVE EndInv'
  <2>1. session \in {"running", "queued"} /\ session' = session
    BY <1>4 DEF Takes, Eligible, Runnable
  <2> QED BY <2>1 DEF EndInv
<1>5. CASE Sets(a, "running") \/ Sets(a, "queued")
  BY <1>5 DEF Sets, EndInv
<1>6. CASE Sets(a, "failed")
  <2>1. /\ pc[a] = "fail_session" /\ pc'[a] = "idle" /\ Alone(a)
        /\ session' = "failed" /\ step' = step
    BY <1>6 DEF Sets, Turns
  <2>2. step'[item[a]] = "failed" /\ item[a] \in CanFail /\ Engaged(a)
    BY <1>1, <2>1 DEF Expects, Engaged, Engaging
  <2>3. ASSUME NEW b \in Actor, b # a, Engaged(b) PROVE FALSE
    <3>1. item[b] \in Step
      BY DEF TypeInv, ThreadsOK
    <3>2. /\ Awaited(item[a]) /\ Awaited(item[b])
          /\ step[item[a]] # "completed" /\ step[item[b]] # "completed"
      BY <1>1, <2>2, <2>3, <3>1, EngagedRows, EngagedIsOpen
    <3>3. item[a] = item[b]
      BY <1>1, <2>2, <3>1, <3>2, OneAtATime
    <3> QED BY <2>2, <2>3, <3>3 DEF WorkInv
  <2>4. ~Engaged(a)'
    BY <2>1 DEF Engaged, Engaging
  <2>5. \A b \in Actor : ~Engaged(b)'
    BY <2>1, <2>3, <2>4 DEF Alone, Engaged
  <2> QED BY <1>1, <2>1, <2>2, <2>5 DEF EndInv
<1>7. ASSUME NEW x, Writes(a, x) \/ Performs(a) \/ Raising(a) PROVE EndInv'
  <2>1. session' = session /\ Engaged(a)
    BY <1>7 DEF Writes, Performs, Raising, Turns, Engaged, Engaging
  <2> QED BY <1>2, <2>1 DEF EndInv
<1>8. ~Sets(a, "completed")
  BY DEF Sets
<1> QED BY <1>3, <1>4, <1>5, <1>6, <1>7, <1>8 DEF Acts

LEMMA NoLapse ==
  ASSUME TypeInv, Undisturbed, OrderInv, [Next]_vars
  PROVE  lapses' = lapses
<1>1. ASSUME NEW s \in Step, LeaseExpires(s) PROVE FALSE
  <2>1. row[s].state = "leased" /\ \A a \in Actor : ~Holds(a, s)
    BY <1>1 DEF LeaseExpires, ExpireRow, Undisturbed, Steady, Holds
  <2> QED BY <2>1 DEF OrderInv, StepInv
<1> QED BY <1>1, StepKinds DEF Works, Enqueues, Elapses, Leases, Closes, Invokes

\* A step is invoked once more only within its attempts.
LEMMA TriesLeft ==
  ASSUME TypeInv, NEW s \in Step, lapses' = 0, AttemptsAccounted', LedgerTypeOK',
         effects' = [effects EXCEPT ![s] = @ + 1]
  PROVE  effects[s] < MaxAttempts[s]
<1>1. /\ effects[s] \in Nat /\ effects'[s] = effects[s] + 1
      /\ row'[s].attempt \in Nat /\ MaxAttempts[s] \in Nat
  BY RuntimeAssumption DEF TypeInv, OutsideOK, LedgerTypeOK, Row
<1>2. effects'[s] <= row'[s].attempt + 0 /\ row'[s].attempt <= MaxAttempts[s] + 0
  BY DEF AttemptsAccounted, EffectsCounted, AttemptsBounded
<1> QED BY <1>1, <1>2

LEMMA StatusKept ==
  ASSUME step' = step
  PROVE  [s \in Step |-> StatusOf(s)]' = [s \in Step |-> StatusOf(s)]
  BY DEF StatusOf

LEMMA StatusBecomes ==
  ASSUME TypeInv, NEW i \in Step, NEW x, step' = [step EXCEPT ![i] = x]
  PROVE  [s \in Step |-> StatusOf(s)]'
           = [[s \in Step |-> StatusOf(s)] EXCEPT ![i] = StatusOf(i)']
<1>1. ASSUME NEW s \in Step, s # i PROVE StatusOf(s)' = StatusOf(s)
  <2>1. step'[s] = step[s]
    BY <1>1 DEF TypeInv, LedgerTypeOK
  <2> QED BY <2>1 DEF StatusOf
<1> QED BY <1>1

LEMMA OutcomeKept ==
  ASSUME session' = session \/ {session, session'} \subseteq {"running", "queued"}
  PROVE  OutcomeOf' = OutcomeOf
  BY DEF OutcomeOf

\* What a thread does is a step of the contract, or none.
LEMMA ActsKeepContract ==
  ASSUME TypeInv, LedgerTypeOK', OrderInv, RunsThrough, WorkInv, EndInv,
         CompletedMeansAllDone, CompletedMeansAllDone', AttemptsAccounted', lapses' = 0,
         NEW a \in Actor, Acts(a)
  PROVE  ContractStep
<1> DEFINE status == [s \in Step |-> StatusOf(s)]
<1>1. item[a] \in Step /\ step \in [Step -> StepState] /\ Expects(a)
  BY DEF TypeInv, ThreadsOK, LedgerTypeOK, WorkInv
<1>2. /\ Engaged(a) => session \in {"running", "queued"}
      /\ Engaged(a) => Awaited(item[a])
  BY <1>1, EngagedIsOpen, EngagedRows
<1>3. {"start", "mark", "run", "invoked", "retry_step", "retry_session", "fail_step",
       "fail_session"} = Engaging
  BY DEF Engaging
<1>4. ASSUME status' = status, UNCHANGED <<effects, OutcomeOf>> PROVE ContractStep
  BY <1>4 DEF ContractStep, Contract!contractVars
<1>5. CASE Passes(a)
  <2>1. status' = status /\ effects' = effects
    BY <1>5, StatusKept DEF Passes
  <2>2. CASE session' = session
    BY <1>4, <2>1, <2>2, OutcomeKept
  <2>3. CASE session' = "completed" /\ session # "completed"
    <3>1. AllCompleted
      BY <1>5, <2>3 DEF CompletedMeansAllDone, AllCompleted, Passes
    <3>2. session \in {"running", "queued"}
      BY <2>3, <3>1 DEF EndInv, AllCompleted
    <3>3. OutcomeOf = "open" /\ OutcomeOf' = "completed"
      BY <2>3, <3>2 DEF OutcomeOf
    <3>4. \A s \in Step : status[s] = "done"
      BY <3>1 DEF AllCompleted, StatusOf
    <3>5. Contract!Conclude
      BY <2>1, <3>3, <3>4 DEF Contract!Conclude
    <3> QED BY <3>5 DEF ContractStep, Contract!ContractNext
  <2> QED BY <1>5, <2>2, <2>3 DEF Passes
<1>6. ASSUME NEW s \in Step, Takes(a, s) PROVE ContractStep
  BY <1>4, <1>6, StatusKept, OutcomeKept DEF Takes
<1>7. ASSUME NEW x \in {"running", "queued"}, Sets(a, x) PROVE ContractStep
  <2>1. Engaged(a) /\ session' = x /\ UNCHANGED <<step, effects>>
    BY <1>3, <1>7 DEF Sets, Turns, Engaged
  <2> QED BY <1>2, <1>4, <2>1, StatusKept, OutcomeKept
<1>8. CASE Sets(a, "failed")
  <2>1. pc[a] = "fail_session" /\ session' = "failed" /\ UNCHANGED <<step, effects>>
    BY <1>8 DEF Sets, Turns
  <2>2. Engaged(a) /\ step[item[a]] = "failed"
    BY <1>1, <1>3, <2>1 DEF Expects, Engaged
  <2>3. OutcomeOf = "open" /\ OutcomeOf' = "failed"
    BY <1>2, <2>1, <2>2 DEF OutcomeOf
  <2>4. status[item[a]] = "failed"
    BY <1>1, <2>2 DEF StatusOf
  <2>5. status' = status
    BY <2>1, StatusKept
  <2>6. Contract!Conclude
    BY <1>1, <2>1, <2>3, <2>4, <2>5 DEF Contract!Conclude
  <2> QED BY <2>6 DEF ContractStep, Contract!ContractNext
<1>9. ASSUME NEW x \in {"running", "queued", "completed", "failed"}, Writes(a, x)
      PROVE  ContractStep
  <2>1. PICK i \in Step : i = item[a]
    BY <1>1
  <2>2. /\ step' = [step EXCEPT ![i] = x] /\ UNCHANGED <<effects, session>>
        /\ step'[i] = x
    BY <1>1, <1>9, <2>1 DEF Writes
  <2>3. /\ status' = [status EXCEPT ![i] = StatusOf(i)']
        /\ OutcomeOf' = OutcomeOf
    BY <2>2, StatusBecomes, OutcomeKept
  <2>4. status[i] = StatusOf(i)
    OBVIOUS
  <2>5. ASSUME NEW y, StatusOf(i)' = y PROVE Contract!Becomes(i, y)
    <3>1. status' = [status EXCEPT ![i] = y]
      BY <2>3, <2>5
    <3> QED BY <2>2, <2>3, <3>1 DEF Contract!Becomes
  <2>6. CASE x = "running"
    <3>1. pc[a] = "mark" /\ step[i] = "queued"
      BY <1>1, <1>9, <2>1, <2>6 DEF Writes, Turns, Expects
    <3>2. Engaged(a)
      BY <1>3, <3>1 DEF Engaged
    <3>3. OutcomeOf = "open"
      BY <1>2, <3>2 DEF OutcomeOf
    <3>4. StatusOf(i) = "pending" /\ StatusOf(i)' = "begun"
      BY <2>2, <2>6, <3>1 DEF StatusOf
    <3>5. \A d \in Deps[i] : status[d] = "done"
      <4>1. ASSUME NEW d \in Deps[i] PROVE StatusOf(d) = "done"
        BY <1>2, <2>1, <3>2, <4>1 DEF Awaited, StatusOf
      <4> QED BY <4>1, RuntimeAssumption
    <3>6. Contract!Becomes(i, "begun")
      BY <2>5, <3>4
    <3>7. Contract!Begin(i)
      BY <2>4, <3>3, <3>4, <3>5, <3>6 DEF Contract!Begin
    <3> QED BY <3>7 DEF ContractStep, Contract!ContractNext
  <2>7. CASE x = "completed"
    <3>1. step[i] = "running"
      BY <1>1, <1>9, <2>1, <2>7 DEF Writes, Turns, Expects
    <3>2. StatusOf(i) = "begun" /\ StatusOf(i)' = "done"
      BY <2>2, <2>7, <3>1 DEF StatusOf
    <3>3. Contract!Becomes(i, "done")
      BY <2>5, <3>2
    <3>4. Contract!Finish(i)
      BY <2>4, <3>2, <3>3 DEF Contract!Finish
    <3> QED BY <3>4 DEF ContractStep, Contract!ContractNext
  <2>8. CASE x = "queued"
    <3>1. step[i] = "running"
      BY <1>1, <1>9, <2>1, <2>8 DEF Writes, Turns, Expects
    <3>2. StatusOf(i) = "begun" /\ StatusOf(i)' = "pending"
      BY <2>2, <2>8, <3>1 DEF StatusOf
    <3>3. Contract!Becomes(i, "pending")
      BY <2>5, <3>2
    <3>4. Contract!Withdraw(i)
      BY <2>4, <3>2, <3>3 DEF Contract!Withdraw
    <3> QED BY <3>4 DEF ContractStep, Contract!ContractNext
  <2>9. CASE x = "failed"
    <3>1. step[i] = "running"
      BY <1>1, <1>9, <2>1, <2>9 DEF Writes, Turns, Expects
    <3>2. StatusOf(i) = "begun" /\ StatusOf(i)' = "failed"
      BY <2>2, <2>9, <3>1 DEF StatusOf
    <3>3. Contract!Becomes(i, "failed")
      BY <2>5, <3>2
    <3>4. Contract!GiveUp(i)
      BY <2>4, <3>2, <3>3 DEF Contract!GiveUp
    <3> QED BY <3>4 DEF ContractStep, Contract!ContractNext
  <2> QED BY <2>6, <2>7, <2>8, <2>9
<1>10. CASE Performs(a)
  <2>1. /\ pc[a] = "run" /\ UNCHANGED <<step, session>>
        /\ effects' = [effects EXCEPT ![item[a]] = @ + 1]
    BY <1>10 DEF Performs, Turns
  <2>2. step[item[a]] = "running"
    BY <1>1, <2>1 DEF Expects
  <2>3. status[item[a]] = "begun"
    BY <1>1, <2>2 DEF StatusOf
  <2>4. status' = status /\ OutcomeOf' = OutcomeOf
    BY <2>1, StatusKept, OutcomeKept
  <2>5. effects[item[a]] < MaxAttempts[item[a]]
    BY <1>1, <2>1, TriesLeft
  <2>6. Contract!Work(item[a])
    BY <2>1, <2>3, <2>4, <2>5 DEF Contract!Work
  <2> QED BY <1>1, <2>6 DEF ContractStep, Contract!ContractNext
<1>11. CASE Raising(a)
  BY <1>4, <1>11, StatusKept, OutcomeKept DEF Raising
<1>12. ~Sets(a, "completed")
  BY DEF Sets
<1> QED BY <1>5, <1>6, <1>7, <1>8, <1>9, <1>10, <1>11, <1>12 DEF Acts

PlanInv == RunsThrough /\ WorkInv /\ EndInv /\ lapses = 0

LEMMA NextPlanInv ==
  ASSUME TypeInv, LedgerTypeOK', Undisturbed, OrderInv, PlanInv, CompletedMeansAllDone,
         CompletedMeansAllDone', AttemptsAccounted', [Next]_vars
  PROVE  PlanInv' /\ ContractStep
<1>1. RunsThrough' /\ lapses' = 0
  BY NextRunsThrough, NoLapse DEF PlanInv, Undisturbed
<1>2. ASSUME NEW a \in Actor, Acts(a) PROVE WorkInv' /\ EndInv' /\ ContractStep
  BY <1>1, <1>2, ActsKeepWork, ActsKeepEnd, ActsKeepContract DEF PlanInv, Undisturbed
<1>3. CASE Rests
  <2>1. WorkInv'
    BY <1>3 DEF Rests, PlanInv, WorkInv, Expects, Engaged
  <2>2. EndInv'
    BY <1>3 DEF Rests, PlanInv, EndInv, Engaged
  <2>3. ContractStep
    BY <1>3, StatusKept, OutcomeKept DEF Rests, ContractStep, Contract!contractVars
  <2> QED BY <1>1, <2>1, <2>2, <2>3 DEF PlanInv
<1> QED BY <1>1, <1>2, <1>3, NextActs DEF PlanInv

LEMMA InitPlanInv ==
  ASSUME Init
  PROVE  PlanInv /\ ContractBegins
<1>1. {"pick", "idle"} \cap (Interrupting \cup Engaging) = {}
  BY DEF Interrupting, Engaging
<1>2. \A a \in Actor : pc[a] \in {"pick", "idle"}
  BY DEF Init
<1>3. RunsThrough
  BY <1>1, <1>2 DEF Init, RunsThrough, Raised
<1>4. WorkInv
  BY <1>1, <1>2 DEF Init, LedgerInit, WorkInv, Expects, Engaged
<1>5. EndInv
  BY DEF Init, LedgerInit, EndInv
<1>6. OutcomeOf = "open" /\ \A s \in Step : StatusOf(s) = "pending"
  BY DEF Init, LedgerInit, OutcomeOf, StatusOf
<1>7. ContractBegins
  BY <1>6 DEF Init, ContractBegins, Contract!ContractInit
<1> QED BY <1>3, <1>4, <1>5, <1>7 DEF Init, PlanInv

\* The runtime keeps the contract of SessionContract: whatever threads and workers
\* interleave, a step begins only when all it depends on is done and the session is still
\* open, its effects stay within its attempts, what is completed stays completed, and the
\* session has one outcome, "completed" exactly when all of it is.  This holds of every
\* plan without human steps that the policy allows, while handlers keep up and no process
\* dies, if no step fails, or steps come one after the other.
THEOREM RuntimeKeepsContract ==
  ASSUME Undisturbed PROVE Spec => KeepsContract
<1>1. TypeInv /\ OrderInv /\ [Next]_vars => (TypeInv /\ OrderInv)'
  BY NextTypeInv, NextOrderInv DEF OrderGoesOn, Undisturbed
<1>2. /\ TypeInv /\ OrderInv /\ PlanInv /\ CompletedMeansAllDone /\ [Next]_vars
      /\ TypeInv' /\ CompletedMeansAllDone' /\ AttemptsAccounted'
      => PlanInv' /\ ContractStep
  BY NextPlanInv DEF TypeInv
<1>3. Spec => []CompletedMeansAllDone
  BY CompletedIsDone DEF Undisturbed
<1>4. Init => PlanInv /\ ContractBegins
  BY InitPlanInv
<1>5. Spec => []AttemptsAccounted
  BY AttemptsAreAccounted
<1>6. /\ ContractBegins <=> Contract!ContractInit
      /\ ContractStep <=> [Contract!ContractNext]_(Contract!contractVars)
  BY DEF ContractBegins, ContractStep
<1> QED
  BY <1>1, <1>2, <1>3, <1>4, <1>5, <1>6, InitTypeInv, InitOrderInv, PTL
  DEF Spec, KeepsContract, Contract!ContractSpec
=============================================================================
