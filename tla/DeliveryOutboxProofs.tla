------------------------ MODULE DeliveryOutboxProofs ------------------------
(***************************************************************************)
(* What the outbox keeps for any number of calls, senders and rows: one    *)
(* row per key, a cause for every repeated message, and a limit to the     *)
(* sends of a row.  And the guard of outgoing mail (EmailGuard): how many  *)
(* attempts a window holds and how far apart they are, from what the file  *)
(* still says of the attempts that were made.                              *)
(***************************************************************************)
EXTENDS DeliveryOutbox, Sequences, FiniteSetTheorems, WellFoundedInduction, TLAPS

Working(x) == job[x].phase # "idle"

\* Rows and the calls that insert them.
Inserted ==
  /\ \A c \in Call : at[c] \in {"start", "insert"} => ~Exists(c)
  /\ \A c \in Call : ~Exists(c) => row[c] = AbsentRow
  /\ \A c \in Call : at[c] \in {"defer", "returned"} =>
       got[c] \in Call /\ Exists(got[c]) /\ (KeyOf[c] # NoKey => KeyOf[got[c]] = KeyOf[c])
  /\ \A c \in Call : at[c] = "raised" => SameKey(c) # {}
  /\ \A c, d \in Call :
       Exists(c) /\ Exists(d) /\ KeyOf[c] = KeyOf[d] /\ KeyOf[c] # NoKey => c = d

\* The proactive sender sends the row it inserted, once.
OwnRow ==
  \A c \in Direct :
    /\ at[c] \in {"start", "insert", "defer"} => job[c] = Idle
    /\ at[c] \in {"defer", "returned"} => got[c] = c
    /\ job[c].id \in {c, NoRow}
    /\ job[c].id = c => Exists(c)

\* The rows of a pass, listed or being sent, are different rows, and have not lost
\* attempts since.
InPass ==
  \A w \in Scheduler :
    /\ Working(w) => /\ job[w].id \in Call /\ Exists(job[w].id)
                     /\ job[w].seen <= row[job[w].id].attempts
                     /\ \A e \in snapshot[w] : e.id # job[w].id
    /\ \A e \in snapshot[w] : Exists(e.id) /\ e.seen <= row[e.id].attempts
    /\ \A e, f \in snapshot[w] : e.id = f.id => e = f

Resting == \A x \in Sender : ~Working(x) => job[x] = Idle

\* A message of a row that is marked sent has been paid for, for each who will still
\* send it.
Willing(c) == {x \in Sender : WillSend(x, c)}

Sent(c) == \E x \in Sender : HasSent(x, c)

Paid(c) ==
  /\ row[c].status # "sent" => copies[c] <= excuses[c] + IF Sent(c) THEN 1 ELSE 0
  /\ row[c].status = "sent" => copies[c] + Cardinality(Willing(c)) <= excuses[c] + 1

CopiesPaid == \A c \in Call : Paid(c)

IInv ==
  TypeOK /\ Inserted /\ OwnRow /\ InPass /\ Resting /\ CopiesPaid /\ DeadLettersEarned

-----------------------------------------------------------------------------
(* The sends that a row may still see. *)

\* While it is pending after a attempts, once it is closed, and after a send that was
\* listed at seen attempts fails.
PendingLeft(a) == IF a < MaxAttempts THEN MaxAttempts - a ELSE 1
ClosedLeft(a) == IF a + 2 < MaxAttempts THEN MaxAttempts - a - 2 ELSE 0
FailedLeft(seen, a) == IF seen + 1 >= MaxAttempts THEN 0 ELSE PendingLeft(a + 1)

Budget == MaxAttempts + spent.faults + spent.marks + spent.deferrals

Taken(c) ==
  \E w \in Scheduler : (Working(w) /\ job[w].id = c) \/ \E e \in snapshot[w] : e.id = c

Within(c) ==
  LET a == row[c].attempts IN
  /\ \A w \in Scheduler : \A e \in snapshot[w] :
       e.id = c => tries[c] + 1 + FailedLeft(e.seen, a) <= Budget
  /\ \A w \in Scheduler : job[w].id = c =>
       /\ job[w].phase = "send" => tries[c] + 1 + FailedLeft(job[w].seen, a) <= Budget
       /\ job[w].phase \in {"sent", "failed"} => tries[c] + FailedLeft(job[w].seen, a) <= Budget
  /\ ~Taken(c) =>
       tries[c] + (IF Pending(c) \/ ~Exists(c) THEN PendingLeft(a) ELSE ClosedLeft(a)) <= Budget

TriesWithin == \A c \in Call \ Direct : Within(c)

OneScheduler == \A v, w \in Scheduler : v = w

-----------------------------------------------------------------------------
(* What the statements of the repository do to the table. *)

LEMMA SendersFinite ==
  ASSUME OutboxAssumption
  PROVE  IsFiniteSet(Sender) /\ \A S \in SUBSET Sender : IsFiniteSet(S) /\ Cardinality(S) \in Nat
<1>1. IsFiniteSet(Direct)
  BY FS_Subset DEF OutboxAssumption
<1>2. IsFiniteSet(Sender)
  BY <1>1, FS_Union DEF Sender, OutboxAssumption
<1> QED BY <1>2, FS_Subset, FS_CardinalityType

\* Only the row of c changes, and keeps a type.
Touches(c, status, attempts) ==
  /\ row' \in [Call -> Row]
  /\ \A d \in Call : d # c => row'[d] = row[d]
  /\ row'[c].status = status
  /\ row'[c].attempts = attempts

LEMMA InsertTouches ==
  ASSUME OutboxAssumption, TypeOK, NEW c \in Call, InsertRow(c)
  PROVE  Touches(c, "queued", 0)
<1>1. Cardinality({d \in Call : Exists(d)}) \in Nat
  BY FS_Subset, FS_CardinalityType DEF OutboxAssumption
<1>2. row \in [Call -> Row]
  BY DEF TypeOK
<1> DEFINE n == Cardinality({d \in Call : Exists(d)})
<1>3. row' = [row EXCEPT ![c] = [AbsentRow EXCEPT !.status = "queued", !.born = n]]
  BY DEF InsertRow
<1>4. n \in Nat
  BY <1>1
<1> HIDE DEF n
<1> QED BY <1>2, <1>3, <1>4 DEF Touches, AbsentRow, Row

LEMMA SentTouches ==
  ASSUME TypeOK, NEW c \in Call, RowSent(c)
  PROVE  Touches(c, "sent", row[c].attempts)
<1>1. row \in [Call -> Row]
  BY DEF TypeOK
<1> QED BY <1>1 DEF Touches, RowSent, Row

LEMMA FailedTouches ==
  ASSUME TypeOK, NEW c \in Call, NEW dead \in BOOLEAN, NEW due \in BOOLEAN,
         RowFailed(c, dead, due)
  PROVE  Touches(c, IF dead THEN "dead_lettered" ELSE "retry", row[c].attempts + 1)
<1>1. row \in [Call -> Row] /\ row[c].attempts + 1 \in Nat
  BY DEF TypeOK, Row
<1>2. (dead \/ due) \in BOOLEAN
  OBVIOUS
<1>3. row' = [row EXCEPT ![c] = [row[c] EXCEPT
                 !.status = IF dead THEN "dead_lettered" ELSE "retry",
                 !.attempts = row[c].attempts + 1, !.due = dead \/ due]]
  BY DEF RowFailed
<1>4. CASE dead
  BY <1>1, <1>3, <1>4 DEF Touches, Row
<1>5. CASE ~dead
  BY <1>1, <1>2, <1>3, <1>5 DEF Touches, Row
<1> QED BY <1>4, <1>5

LEMMA TickTouches ==
  ASSUME TypeOK, NEW c \in Call, Tick(c)
  PROVE  Touches(c, row[c].status, row[c].attempts)
<1>1. row \in [Call -> Row]
  BY DEF TypeOK
<1> QED BY <1>1 DEF Touches, Tick, Row

-----------------------------------------------------------------------------
(* Types *)

LEMMA InitTypeOK == ASSUME OutboxAssumption PROVE Init => TypeOK
<1> SUFFICES ASSUME Init PROVE TypeOK
  OBVIOUS
<1>1. AbsentRow \in Row /\ Idle \in Job
  BY DEF AbsentRow, Row, Idle, Job
<1>2. {} \in SUBSET Entry
  OBVIOUS
<1> QED BY <1>1, <1>2, SMT DEF Init, TypeOK

LEMMA Counters ==
  ASSUME TypeOK
  PROVE  /\ copies \in [Call -> Nat] /\ tries \in [Call -> Nat] /\ excuses \in [Call -> Nat]
         /\ spent.faults \in Nat /\ spent.marks \in Nat /\ spent.deferrals \in Nat
  BY DEF TypeOK

\* The job of a sender is one of a few kinds.
LEMMA Jobs ==
  ASSUME TypeOK, NEW x \in Sender
  PROVE  /\ job[x] \in Job
         /\ job[x].phase \in {"idle", "send", "sent", "failed"}
         /\ job[x].id \in Call \cup {NoRow} /\ job[x].seen \in Nat
         /\ Idle \in Job /\ Idle.phase = "idle" /\ Idle.id = NoRow /\ Idle.seen = 0
  BY DEF TypeOK, Job, Idle

LEMMA ExcuseTypeOK ==
  ASSUME TypeOK, NEW c \in Call, NEW n \in Nat, Excuse(c, n)
  PROVE  /\ excuses' \in [Call -> Nat]
         /\ excuses'[c] = excuses[c] + n
         /\ \A d \in Call : d # c => excuses'[d] = excuses[d]
<1>1. excuses \in [Call -> Nat]
  BY Counters
<1> QED BY <1>1 DEF Excuse

LEMMA ReopeningNat == ASSUME NEW c PROVE Reopening(c) \in {0, 1} /\ Reopening(c) \in Nat
  BY DEF Reopening

LEMMA FaultTypeOK ==
  ASSUME TypeOK, Fault
  PROVE  /\ spent' \in [faults : Nat, marks : Nat, deferrals : Nat]
         /\ spent'.faults = spent.faults + 1
         /\ spent'.marks = spent.marks /\ spent'.deferrals = spent.deferrals
  BY DEF Fault, TypeOK

LEMMA RestTypeOK ==
  ASSUME TypeOK, NEW x \in Sender, Rest(x)
  PROVE  /\ job' \in [Sender -> Job] /\ job'[x] = Idle
         /\ \A y \in Sender : y # x => job'[y] = job[y]
<1>1. job \in [Sender -> Job] /\ Idle \in Job
  BY Jobs DEF TypeOK
<1> QED BY <1>1 DEF Rest

LEMMA LookUpTypeOK ==
  ASSUME TypeOK, NEW c \in Call, LookUp(c)
  PROVE  TypeOK'
<1>1. SameKey(c) \subseteq Call
  BY DEF SameKey
<1>2. at' \in [Call -> {"start", "insert", "defer", "returned", "raised"}]
  BY DEF LookUp, TypeOK
<1>3. got' \in [Call -> Call \cup {NoRow}]
  BY <1>1 DEF LookUp, TypeOK
<1> QED BY <1>2, <1>3 DEF LookUp, TypeOK, history

LEMMA ContinueTypeOK ==
  ASSUME TypeOK, NEW c \in Call, NEW id \in Call \cup {NoRow}, Continue(c, id)
  PROVE  /\ job' \in [Sender -> Job]
         /\ c \in Direct => job'[c] = [phase |-> "send", id |-> id, seen |-> 0]
         /\ \A y \in Sender : y # c \/ c \notin Direct => job'[y] = job[y]
<1>1. [phase |-> "send", id |-> id, seen |-> 0] \in Job
  BY DEF Job
<1>2. job \in [Sender -> Job]
  BY DEF TypeOK
<1>3. c \in Direct => c \in Sender
  BY DEF Sender
<1> QED BY <1>1, <1>2, <1>3 DEF Continue

LEMMA InsertTypeOK ==
  ASSUME OutboxAssumption, TypeOK, NEW c \in Call, Insert(c)
  PROVE  TypeOK'
<1>1. CASE SameKey(c) = {}
  <2>1. InsertRow(c)
    BY <1>1 DEF Insert
  <2>2. row' \in [Call -> Row]
    BY <2>1, InsertTouches DEF Touches
  <2>3. at' \in [Call -> {"start", "insert", "defer", "returned", "raised"}]
    BY <1>1 DEF Insert, TypeOK
  <2>4. got' \in [Call -> Call \cup {NoRow}]
    BY <1>1 DEF Insert, TypeOK
  <2> QED BY <1>1, <2>2, <2>3, <2>4 DEF Insert, TypeOK, history
<1>2. CASE SameKey(c) # {}
  <2>1. job' \in [Sender -> Job]
    BY <1>2, ContinueTypeOK DEF Insert
  <2>2. at' \in [Call -> {"start", "insert", "defer", "returned", "raised"}]
    BY <1>2 DEF Insert, TypeOK
  <2> QED BY <1>2, <2>1, <2>2 DEF Insert, TypeOK, history
<1> QED BY <1>1, <1>2

LEMMA DeferTypeOK ==
  ASSUME TypeOK, Inserted, NEW c \in Call, Defer(c)
  PROVE  TypeOK'
<1>1. got[c] \in Call
  BY DEF Defer, Inserted
<1>2. at' \in [Call -> {"start", "insert", "defer", "returned", "raised"}]
  BY DEF Defer, TypeOK
<1>3. job' \in [Sender -> Job]
  BY <1>1, ContinueTypeOK DEF Defer
<1>4. CASE UNCHANGED <<row, excuses, spent>>
  BY <1>2, <1>3, <1>4 DEF Defer, TypeOK
<1>5. ASSUME spent' = [spent EXCEPT !.deferrals = @ + 1],
             Excuse(got[c], Reopening(got[c])), RowFailed(got[c], FALSE, FALSE)
      PROVE  TypeOK'
  <2>1. row' \in [Call -> Row]
    BY <1>1, <1>5, FailedTouches DEF Touches
  <2>2. excuses' \in [Call -> Nat]
    BY <1>1, <1>5, ReopeningNat, ExcuseTypeOK
  <2>3. spent' \in [faults : Nat, marks : Nat, deferrals : Nat]
    BY <1>5 DEF TypeOK
  <2> QED BY <1>2, <1>3, <2>1, <2>2, <2>3 DEF Defer, TypeOK
<1> QED BY <1>4, <1>5 DEF Defer

LEMMA ListTypeOK ==
  ASSUME TypeOK, NEW w \in Scheduler, ListPending(w)
  PROVE  TypeOK'
<1> DEFINE batch == Newest({c \in Listed \cap Drained : row[c].aged}, MaxSends)
           listing == {[id |-> c, seen |-> row[c].attempts] : c \in batch}
<1>1. batch \subseteq Call
  BY DEF Newest, Listed
<1>2. \A c \in Call : row[c].attempts \in Nat
  BY DEF TypeOK, Row
<1>3. \A c \in batch : [id |-> c, seen |-> row[c].attempts] \in Entry
  BY <1>1, <1>2 DEF Entry
<1>4. listing \in SUBSET Entry
  BY <1>3
<1>5. snapshot' = [snapshot EXCEPT ![w] = listing]
  BY DEF ListPending
<1>6. snapshot' \in [Scheduler -> SUBSET Entry]
  BY <1>4, <1>5 DEF TypeOK
<1> QED BY <1>6 DEF ListPending, TypeOK, history

LEMMA TakeTypeOK ==
  ASSUME TypeOK, NEW w \in Scheduler, Take(w)
  PROVE  TypeOK'
<1>1. PICK e \in snapshot[w] :
        /\ job' = [job EXCEPT ![w] = [phase |-> "send", id |-> e.id, seen |-> e.seen]]
        /\ snapshot' = [snapshot EXCEPT ![w] = @ \ {e}]
  BY DEF Take
<1>2. e \in Entry
  BY DEF TypeOK
<1>3. [phase |-> "send", id |-> e.id, seen |-> e.seen] \in Job
  BY <1>2 DEF Entry, Job
<1>4. job' \in [Sender -> Job]
  BY <1>1, <1>3 DEF TypeOK
<1>5. snapshot' \in [Scheduler -> SUBSET Entry]
  BY <1>1 DEF TypeOK
<1> QED BY <1>4, <1>5 DEF Take, TypeOK, history

\* What a send does to the sender and to the row it sends, which is c.
Sends(x, c) ==
  /\ job[x].phase = "send" /\ job[x].id = c
  /\ job'[x].phase \in {"sent", "failed"}
  /\ job'[x].id = c /\ job'[x].seen = job[x].seen
  /\ \A y \in Sender : y # x => job'[y] = job[y]
  /\ \A d \in Call : d # c =>
       copies'[d] = copies[d] /\ tries'[d] = tries[d] /\ excuses'[d] = excuses[d]
  /\ spent'.faults >= spent.faults
  /\ spent'.marks = spent.marks /\ spent'.deferrals = spent.deferrals
  /\ UNCHANGED <<row, at, got, snapshot>>

Delivered(x, c) ==
  /\ job'[x].phase = "sent"
  /\ copies'[c] = copies[c] + 1
  /\ excuses'[c] = excuses[c] + IF Sent(c) THEN 1 ELSE 0

Raised(x, c) ==
  /\ job'[x].phase = "failed"
  /\ \/ copies'[c] = copies[c] /\ excuses'[c] = excuses[c]
     \/ copies'[c] = copies[c] + 1 /\ excuses'[c] = excuses[c] + 1

LEMMA SendEffect ==
  ASSUME OutboxAssumption, TypeOK, NEW x \in Sender, Send(x)
  PROVE  /\ TypeOK'
         /\ Sends(x, job[x].id)
         /\ job[x].id \in Call =>
              /\ tries'[job[x].id] = tries[job[x].id] + 1
              /\ Delivered(x, job[x].id) \/ Raised(x, job[x].id)
<1> DEFINE c == job[x].id
           overlap == IF \E y \in Sender : HasSent(y, c) THEN 1 ELSE 0
<1>1. /\ job \in [Sender -> Job] /\ job[x] \in Job
      /\ job[x].phase = "send" /\ c \in Call \cup {NoRow} /\ job[x].seen \in Nat
      /\ copies \in [Call -> Nat] /\ tries \in [Call -> Nat] /\ excuses \in [Call -> Nat]
      /\ spent.faults \in Nat /\ spent.marks \in Nat /\ spent.deferrals \in Nat
      /\ spent \in [faults : Nat, marks : Nat, deferrals : Nat]
      /\ NoRow \notin Call
  BY Jobs, Counters DEF Send, TypeOK, OutboxAssumption
<1>2. overlap \in Nat /\ overlap = IF Sent(c) THEN 1 ELSE 0
  BY DEF Sent
<1>3. /\ UNCHANGED <<row, at, got, snapshot>>
      /\ IF c = NoRow THEN UNCHANGED tries ELSE tries' = [tries EXCEPT ![c] = @ + 1]
      /\ \/ /\ job' = [job EXCEPT ![x] = [@ EXCEPT !.phase = "sent"]]
            /\ IF c = NoRow THEN UNCHANGED copies ELSE copies' = [copies EXCEPT ![c] = @ + 1]
            /\ IF c = NoRow THEN UNCHANGED excuses ELSE Excuse(c, overlap)
            /\ UNCHANGED spent
         \/ /\ job' = [job EXCEPT ![x] = [@ EXCEPT !.phase = "failed"]]
            /\ UNCHANGED <<copies, excuses, spent>>
         \/ /\ job' = [job EXCEPT ![x] = [@ EXCEPT !.phase = "failed"]]
            /\ IF c = NoRow THEN UNCHANGED copies ELSE copies' = [copies EXCEPT ![c] = @ + 1]
            /\ Fault
            /\ IF c = NoRow THEN UNCHANGED excuses ELSE Excuse(c, 1)
  BY DEF Send
<1> HIDE DEF overlap
<1>4. ASSUME NEW phase \in {"sent", "failed"},
             job' = [job EXCEPT ![x] = [@ EXCEPT !.phase = phase]]
      PROVE  /\ job' \in [Sender -> Job] /\ job'[x].phase = phase
             /\ job'[x].id = c /\ job'[x].seen = job[x].seen
             /\ \A y \in Sender : y # x => job'[y] = job[y]
  BY <1>1, <1>4 DEF Job
<1>5. /\ tries' \in [Call -> Nat]
      /\ \A d \in Call : d # c => tries'[d] = tries[d]
      /\ c \in Call => tries'[c] = tries[c] + 1
  BY <1>1, <1>3
<1>6. ASSUME IF c = NoRow THEN UNCHANGED copies ELSE copies' = [copies EXCEPT ![c] = @ + 1]
      PROVE  /\ copies' \in [Call -> Nat]
             /\ \A d \in Call : d # c => copies'[d] = copies[d]
             /\ c \in Call => copies'[c] = copies[c] + 1
  BY <1>1, <1>6
<1>7. ASSUME NEW n \in Nat, IF c = NoRow THEN UNCHANGED excuses ELSE Excuse(c, n)
      PROVE  /\ excuses' \in [Call -> Nat]
             /\ \A d \in Call : d # c => excuses'[d] = excuses[d]
             /\ c \in Call => excuses'[c] = excuses[c] + n
  BY <1>1, <1>7, ExcuseTypeOK
<1>8. CASE /\ job' = [job EXCEPT ![x] = [@ EXCEPT !.phase = "sent"]]
           /\ IF c = NoRow THEN UNCHANGED copies ELSE copies' = [copies EXCEPT ![c] = @ + 1]
           /\ IF c = NoRow THEN UNCHANGED excuses ELSE Excuse(c, overlap)
           /\ UNCHANGED spent
  <2>1. /\ job' \in [Sender -> Job] /\ job'[x].phase = "sent"
        /\ job'[x].id = c /\ job'[x].seen = job[x].seen
        /\ \A y \in Sender : y # x => job'[y] = job[y]
    BY <1>4, <1>8
  <2>2. /\ copies' \in [Call -> Nat]
        /\ \A d \in Call : d # c => copies'[d] = copies[d]
        /\ c \in Call => copies'[c] = copies[c] + 1
    BY <1>6, <1>8
  <2>3. /\ excuses' \in [Call -> Nat]
        /\ \A d \in Call : d # c => excuses'[d] = excuses[d]
        /\ c \in Call => excuses'[c] = excuses[c] + overlap
    BY <1>2, <1>7, <1>8
  <2>4. TypeOK'
    BY <1>3, <1>5, <1>8, <2>1, <2>2, <2>3 DEF TypeOK
  <2>5. Sends(x, c)
    BY <1>1, <1>3, <1>5, <1>8, <2>1, <2>2, <2>3 DEF Sends
  <2>6. c \in Call => Delivered(x, c)
    BY <1>2, <2>1, <2>2, <2>3 DEF Delivered
  <2> QED BY <1>5, <2>4, <2>5, <2>6
<1>9. CASE /\ job' = [job EXCEPT ![x] = [@ EXCEPT !.phase = "failed"]]
           /\ UNCHANGED <<copies, excuses, spent>>
  <2>1. /\ job' \in [Sender -> Job] /\ job'[x].phase = "failed"
        /\ job'[x].id = c /\ job'[x].seen = job[x].seen
        /\ \A y \in Sender : y # x => job'[y] = job[y]
    BY <1>4, <1>9
  <2>2. TypeOK'
    BY <1>3, <1>5, <1>9, <2>1 DEF TypeOK
  <2>3. Sends(x, c)
    BY <1>1, <1>3, <1>5, <1>9, <2>1 DEF Sends
  <2>4. c \in Call => Raised(x, c)
    BY <1>9, <2>1 DEF Raised
  <2> QED BY <1>5, <2>2, <2>3, <2>4
<1>10. CASE /\ job' = [job EXCEPT ![x] = [@ EXCEPT !.phase = "failed"]]
            /\ IF c = NoRow THEN UNCHANGED copies ELSE copies' = [copies EXCEPT ![c] = @ + 1]
            /\ Fault
            /\ IF c = NoRow THEN UNCHANGED excuses ELSE Excuse(c, 1)
  <2>1. /\ job' \in [Sender -> Job] /\ job'[x].phase = "failed"
        /\ job'[x].id = c /\ job'[x].seen = job[x].seen
        /\ \A y \in Sender : y # x => job'[y] = job[y]
    BY <1>4, <1>10
  <2>2. /\ copies' \in [Call -> Nat]
        /\ \A d \in Call : d # c => copies'[d] = copies[d]
        /\ c \in Call => copies'[c] = copies[c] + 1
    BY <1>6, <1>10
  <2>3. /\ excuses' \in [Call -> Nat]
        /\ \A d \in Call : d # c => excuses'[d] = excuses[d]
        /\ c \in Call => excuses'[c] = excuses[c] + 1
    BY <1>7, <1>10
  <2>4. /\ spent' \in [faults : Nat, marks : Nat, deferrals : Nat]
        /\ spent'.faults = spent.faults + 1
        /\ spent'.marks = spent.marks /\ spent'.deferrals = spent.deferrals
    BY <1>10, FaultTypeOK
  <2>5. TypeOK'
    BY <1>3, <1>5, <2>1, <2>2, <2>3, <2>4 DEF TypeOK
  <2>6. Sends(x, c)
    BY <1>1, <1>3, <1>5, <2>1, <2>2, <2>3, <2>4 DEF Sends
  <2>7. c \in Call => Raised(x, c)
    BY <2>1, <2>2, <2>3 DEF Raised
  <2> QED BY <1>5, <2>5, <2>6, <2>7
<1> QED BY <1>3, <1>8, <1>9, <1>10

\* Marking a row sent: done, or lost with the statement.
Marks(x, c) ==
  /\ job[x].phase = "sent" /\ job[x].id = c
  /\ job'[x] = Idle \/ (x \in Scheduler /\ job'[x].phase = "failed" /\ job'[x].id = c
                        /\ job'[x].seen = job[x].seen)
  /\ \A y \in Sender : y # x => job'[y] = job[y]
  /\ spent'.faults >= spent.faults
  /\ spent'.marks = spent.marks /\ spent'.deferrals = spent.deferrals
  /\ UNCHANGED <<at, got, snapshot, copies, tries>>

Others(x, c) == {y \in Sender : y # x /\ (WillSend(y, c) \/ HasSent(y, c))}

MarkedSent(x, c) ==
  /\ job'[x] = Idle
  /\ RowSent(c)
  /\ Touches(c, "sent", row[c].attempts)
  /\ excuses'[c] = excuses[c] + Cardinality(Others(x, c))
  /\ \A d \in Call : d # c => excuses'[d] = excuses[d]
  /\ UNCHANGED spent

MarkLost(x, c) ==
  /\ row' = row
  /\ x \in Scheduler => job'[x].phase = "failed"
  /\ excuses'[c] = excuses[c] + 1
  /\ \A d \in Call : d # c => excuses'[d] = excuses[d]
  /\ spent'.faults = spent.faults + 1

LEMMA MarkSentEffect ==
  ASSUME OutboxAssumption, TypeOK, NEW x \in Sender, MarkSent(x)
  PROVE  /\ TypeOK'
         /\ Marks(x, job[x].id)
         /\ job[x].id = NoRow => job'[x] = Idle /\ UNCHANGED <<row, excuses, spent>>
         /\ job[x].id # NoRow => MarkedSent(x, job[x].id) \/ MarkLost(x, job[x].id)
<1> DEFINE c == job[x].id
           n == Cardinality(Others(x, c))
<1>1. /\ job \in [Sender -> Job] /\ job[x] \in Job
      /\ job[x].phase = "sent" /\ c \in Call \cup {NoRow} /\ job[x].seen \in Nat
      /\ spent.faults \in Nat /\ spent.marks \in Nat /\ spent.deferrals \in Nat
      /\ NoRow \notin Call
  BY Jobs, Counters DEF MarkSent, TypeOK, OutboxAssumption
<1>2. n \in Nat
  BY SendersFinite DEF Others
<1>3. /\ UNCHANGED <<at, got, snapshot, copies, tries>>
      /\ \/ c = NoRow /\ Rest(x) /\ UNCHANGED <<row, excuses, spent>>
         \/ c # NoRow /\ RowSent(c) /\ Excuse(c, n) /\ Rest(x) /\ UNCHANGED spent
         \/ /\ c # NoRow /\ Fault /\ Excuse(c, 1) /\ UNCHANGED row
            /\ IF x \in Scheduler
                 THEN job' = [job EXCEPT ![x] = [@ EXCEPT !.phase = "failed"]]
                 ELSE Rest(x)
  BY DEF MarkSent, Others
<1> HIDE DEF n
<1>4. CASE c = NoRow /\ Rest(x) /\ UNCHANGED <<row, excuses, spent>>
  <2>1. /\ job' \in [Sender -> Job] /\ job'[x] = Idle
        /\ \A y \in Sender : y # x => job'[y] = job[y]
    BY <1>4, RestTypeOK
  <2>2. TypeOK'
    BY <1>3, <1>4, <2>1 DEF TypeOK
  <2>3. Marks(x, c)
    BY <1>1, <1>3, <1>4, <2>1 DEF Marks
  <2> QED BY <1>4, <2>1, <2>2, <2>3
<1>5. CASE c # NoRow /\ RowSent(c) /\ Excuse(c, n) /\ Rest(x) /\ UNCHANGED spent
  <2>1. /\ job' \in [Sender -> Job] /\ job'[x] = Idle
        /\ \A y \in Sender : y # x => job'[y] = job[y]
    BY <1>5, RestTypeOK
  <2>2. c \in Call
    BY <1>1, <1>5
  <2>3. /\ excuses' \in [Call -> Nat] /\ excuses'[c] = excuses[c] + n
        /\ \A d \in Call : d # c => excuses'[d] = excuses[d]
    BY <1>2, <1>5, <2>2, ExcuseTypeOK
  <2>4. Touches(c, "sent", row[c].attempts)
    BY <1>5, <2>2, SentTouches
  <2>5. TypeOK'
    BY <1>3, <1>5, <2>1, <2>3, <2>4 DEF TypeOK, Touches
  <2>6. Marks(x, c)
    BY <1>1, <1>3, <1>5, <2>1 DEF Marks
  <2>7. MarkedSent(x, c)
    BY <1>5, <2>1, <2>3, <2>4 DEF MarkedSent, n
  <2> QED BY <1>5, <2>5, <2>6, <2>7
<1>6. CASE /\ c # NoRow /\ Fault /\ Excuse(c, 1) /\ UNCHANGED row
           /\ IF x \in Scheduler
                THEN job' = [job EXCEPT ![x] = [@ EXCEPT !.phase = "failed"]]
                ELSE Rest(x)
  <2>1. /\ job' \in [Sender -> Job]
        /\ \A y \in Sender : y # x => job'[y] = job[y]
        /\ x \in Scheduler =>
             job'[x].phase = "failed" /\ job'[x].id = c /\ job'[x].seen = job[x].seen
        /\ x \notin Scheduler => job'[x] = Idle
    <3>1. CASE x \in Scheduler
      BY <1>1, <1>6, <3>1 DEF Job
    <3>2. CASE x \notin Scheduler
      BY <1>6, <3>2, RestTypeOK
    <3> QED BY <3>1, <3>2
  <2>2. c \in Call
    BY <1>1, <1>6
  <2>3. /\ excuses' \in [Call -> Nat] /\ excuses'[c] = excuses[c] + 1
        /\ \A d \in Call : d # c => excuses'[d] = excuses[d]
    BY <1>6, <2>2, ExcuseTypeOK
  <2>4. /\ spent' \in [faults : Nat, marks : Nat, deferrals : Nat]
        /\ spent'.faults = spent.faults + 1
        /\ spent'.marks = spent.marks /\ spent'.deferrals = spent.deferrals
    BY <1>6, FaultTypeOK
  <2>5. TypeOK'
    BY <1>3, <1>6, <2>1, <2>3, <2>4 DEF TypeOK
  <2>6. Marks(x, c)
    BY <1>1, <1>3, <1>6, <2>1, <2>4 DEF Marks
  <2>7. MarkLost(x, c)
    BY <1>6, <2>1, <2>3, <2>4 DEF MarkLost
  <2> QED BY <1>6, <2>5, <2>6, <2>7
<1> QED BY <1>3, <1>4, <1>5, <1>6

\* A failed attempt is recorded: it becomes a retry or a dead letter.
FailureRecorded(x, c) ==
  /\ Touches(c, IF Exhausted(x) THEN "dead_lettered" ELSE "retry", row[c].attempts + 1)
  /\ excuses'[c] = excuses[c] + Reopening(c)
  /\ \A d \in Call : d # c => excuses'[d] = excuses[d]

LEMMA MarkFailedEffect ==
  ASSUME OutboxAssumption, TypeOK, NEW x \in Sender, MarkFailed(x)
  PROVE  /\ TypeOK'
         /\ job[x].phase = "failed" /\ job'[x] = Idle
         /\ \A y \in Sender : y # x => job'[y] = job[y]
         /\ UNCHANGED <<at, got, snapshot, copies, tries, spent>>
         /\ job[x].id = NoRow => UNCHANGED <<row, excuses>>
         /\ job[x].id # NoRow => FailureRecorded(x, job[x].id)
<1> DEFINE c == job[x].id
<1>1. /\ job[x].phase = "failed" /\ UNCHANGED <<at, got, snapshot, copies, tries, spent>>
      /\ c \in Call \cup {NoRow}
  BY Jobs DEF MarkFailed
<1>2. /\ job' \in [Sender -> Job] /\ job'[x] = Idle
      /\ \A y \in Sender : y # x => job'[y] = job[y]
  BY RestTypeOK DEF MarkFailed
<1>3. CASE c = NoRow
  <2>1. UNCHANGED <<row, excuses>>
    BY <1>3 DEF MarkFailed
  <2>2. TypeOK'
    BY <1>1, <1>2, <2>1 DEF TypeOK
  <2> QED BY <1>1, <1>2, <1>3, <2>1, <2>2
<1>4. CASE c # NoRow
  <2>1. c \in Call /\ RowFailed(c, Exhausted(x), x \in Direct) /\ Excuse(c, Reopening(c))
    BY <1>1, <1>4 DEF MarkFailed
  <2>2. Exhausted(x) \in BOOLEAN /\ (x \in Direct) \in BOOLEAN
    BY DEF Exhausted
  <2>3. Touches(c, IF Exhausted(x) THEN "dead_lettered" ELSE "retry", row[c].attempts + 1)
    BY <2>1, <2>2, FailedTouches
  <2>4. /\ excuses' \in [Call -> Nat] /\ excuses'[c] = excuses[c] + Reopening(c)
        /\ \A d \in Call : d # c => excuses'[d] = excuses[d]
    BY <2>1, ReopeningNat, ExcuseTypeOK
  <2>5. TypeOK'
    BY <1>1, <1>2, <2>3, <2>4 DEF TypeOK, Touches
  <2>6. FailureRecorded(x, c)
    BY <2>3, <2>4 DEF FailureRecorded
  <2> QED BY <1>1, <1>2, <1>4, <2>5, <2>6
<1> QED BY <1>3, <1>4

\* What a mark of the API leaves alone, and what it costs.
Marked(c) ==
  /\ UNCHANGED <<at, got, snapshot, job, copies, tries>>
  /\ \A d \in Call : d # c => excuses'[d] = excuses[d]
  /\ spent'.faults = spent.faults /\ spent'.marks = spent.marks + 1
  /\ spent'.deferrals = spent.deferrals

Reachable(c) == {y \in Sender : WillSend(y, c) \/ HasSent(y, c)}

LEMMA ApiSentEffect ==
  ASSUME OutboxAssumption, TypeOK, NEW c \in Call, ApiSent(c)
  PROVE  /\ TypeOK' /\ Exists(c) /\ Marked(c)
         /\ Touches(c, "sent", row[c].attempts)
         /\ excuses'[c] = excuses[c] + Cardinality(Reachable(c))
<1>1. /\ Exists(c) /\ spent' = [spent EXCEPT !.marks = @ + 1]
      /\ UNCHANGED <<at, got, snapshot, job, copies, tries>>
      /\ RowSent(c) /\ Excuse(c, Cardinality(Reachable(c)))
  BY DEF ApiSent, Mark, Reachable
<1>2. Cardinality(Reachable(c)) \in Nat
  BY SendersFinite DEF Reachable
<1>3. /\ excuses' \in [Call -> Nat] /\ excuses'[c] = excuses[c] + Cardinality(Reachable(c))
      /\ \A d \in Call : d # c => excuses'[d] = excuses[d]
  BY <1>1, <1>2, ExcuseTypeOK
<1>4. Touches(c, "sent", row[c].attempts)
  BY <1>1, SentTouches
<1>5. /\ spent' \in [faults : Nat, marks : Nat, deferrals : Nat]
      /\ spent'.faults = spent.faults /\ spent'.marks = spent.marks + 1
      /\ spent'.deferrals = spent.deferrals
  BY <1>1 DEF TypeOK
<1>6. TypeOK'
  BY <1>1, <1>3, <1>4, <1>5 DEF TypeOK, Touches
<1> QED BY <1>1, <1>3, <1>4, <1>5, <1>6 DEF Marked

LEMMA ApiFailedEffect ==
  ASSUME TypeOK, NEW c \in Call, ApiFailed(c)
  PROVE  /\ TypeOK' /\ Exists(c) /\ Marked(c)
         /\ \E status \in {"dead_lettered", "retry"} :
              Touches(c, status, row[c].attempts + 1)
         /\ excuses'[c] = excuses[c] + Reopening(c)
<1>1. /\ Exists(c) /\ spent' = [spent EXCEPT !.marks = @ + 1]
      /\ UNCHANGED <<at, got, snapshot, job, copies, tries>>
      /\ Excuse(c, Reopening(c))
  BY DEF ApiFailed, Mark
<1>2. PICK dead \in BOOLEAN, due \in BOOLEAN : RowFailed(c, dead, due)
  BY DEF ApiFailed
<1>3. Touches(c, IF dead THEN "dead_lettered" ELSE "retry", row[c].attempts + 1)
  BY <1>2, FailedTouches
<1>4. /\ excuses' \in [Call -> Nat] /\ excuses'[c] = excuses[c] + Reopening(c)
      /\ \A d \in Call : d # c => excuses'[d] = excuses[d]
  BY <1>1, ReopeningNat, ExcuseTypeOK
<1>5. /\ spent' \in [faults : Nat, marks : Nat, deferrals : Nat]
      /\ spent'.faults = spent.faults /\ spent'.marks = spent.marks + 1
      /\ spent'.deferrals = spent.deferrals
  BY <1>1 DEF TypeOK
<1>6. TypeOK'
  BY <1>1, <1>3, <1>4, <1>5 DEF TypeOK, Touches
<1> QED BY <1>1, <1>3, <1>4, <1>5, <1>6 DEF Marked

\* A sender that dies forgets its rows.
Dies(x) ==
  /\ job[x] # Idle /\ job'[x] = Idle
  /\ \A y \in Sender : y # x => job'[y] = job[y]
  /\ \A w \in Scheduler : snapshot'[w] = IF w = x THEN {} ELSE snapshot[w]
  /\ \A d \in Call :
       excuses'[d] = excuses[d] + IF HasSent(x, d) THEN 1 ELSE 0
  /\ spent'.faults = spent.faults + 1
  /\ spent'.marks = spent.marks /\ spent'.deferrals = spent.deferrals
  /\ UNCHANGED <<row, at, got, copies, tries>>

LEMMA CrashEffect ==
  ASSUME OutboxAssumption, TypeOK, NEW x \in Sender, Crash(x)
  PROVE  TypeOK' /\ Dies(x)
<1>1. /\ job' \in [Sender -> Job] /\ job'[x] = Idle
      /\ \A y \in Sender : y # x => job'[y] = job[y]
  BY RestTypeOK DEF Crash
<1>2. /\ spent' \in [faults : Nat, marks : Nat, deferrals : Nat]
      /\ spent'.faults = spent.faults + 1
      /\ spent'.marks = spent.marks /\ spent'.deferrals = spent.deferrals
  BY FaultTypeOK DEF Crash
<1>3. /\ snapshot' \in [Scheduler -> SUBSET Entry]
      /\ \A w \in Scheduler : snapshot'[w] = IF w = x THEN {} ELSE snapshot[w]
  BY DEF Crash, TypeOK
<1>4. /\ excuses' \in [Call -> Nat]
      /\ \A d \in Call : excuses'[d] = excuses[d] + IF HasSent(x, d) THEN 1 ELSE 0
  <2>1. excuses \in [Call -> Nat] /\ job[x].id \in Call \cup {NoRow} /\ NoRow \notin Call
    BY Counters, Jobs DEF OutboxAssumption
  <2>2. CASE job[x].phase = "sent" /\ job[x].id # NoRow
    <3>1. Excuse(job[x].id, 1) /\ job[x].id \in Call
      BY <2>1, <2>2 DEF Crash
    <3> QED BY <2>1, <2>2, <3>1, ExcuseTypeOK DEF HasSent
  <2>3. CASE ~(job[x].phase = "sent" /\ job[x].id # NoRow)
    BY <2>1, <2>3 DEF Crash, HasSent
  <2> QED BY <2>2, <2>3
<1>5. TypeOK'
  BY <1>1, <1>2, <1>3, <1>4 DEF Crash, TypeOK
<1> QED BY <1>1, <1>2, <1>3, <1>4, <1>5 DEF Crash, Dies

LEMMA TickTypeOK ==
  ASSUME TypeOK, NEW c \in Call, Tick(c)
  PROVE  TypeOK'
<1>1. row' \in [Call -> Row]
  BY TickTouches DEF Touches
<1> QED BY <1>1 DEF Tick, TypeOK, history

LEMMA NextTypeOK ==
  ASSUME OutboxAssumption, TypeOK, Inserted, [Next]_vars
  PROVE  TypeOK'
<1>1. ASSUME NEW c \in Call, LookUp(c) \/ Insert(c) \/ Defer(c) PROVE TypeOK'
  BY <1>1, LookUpTypeOK, InsertTypeOK, DeferTypeOK
<1>2. ASSUME NEW c \in Call, ApiSent(c) \/ ApiFailed(c) \/ Tick(c) PROVE TypeOK'
  BY <1>2, ApiSentEffect, ApiFailedEffect, TickTypeOK
<1>3. ASSUME NEW w \in Scheduler, ListPending(w) \/ Take(w) PROVE TypeOK'
  BY <1>3, ListTypeOK, TakeTypeOK
<1>4. ASSUME NEW x \in Sender, Send(x) \/ MarkSent(x) \/ MarkFailed(x) \/ Crash(x)
      PROVE TypeOK'
  BY <1>4, SendEffect, MarkSentEffect, MarkFailedEffect, CrashEffect
<1>5. CASE UNCHANGED vars
  BY <1>5 DEF vars, TypeOK
<1> QED BY <1>1, <1>2, <1>3, <1>4, <1>5 DEF Next

\* A call returns; its row may be put off.
Deferred(c) ==
  /\ Touches(got[c], "retry", row[got[c]].attempts + 1)
  /\ excuses'[got[c]] = excuses[got[c]] + Reopening(got[c])
  /\ \A d \in Call : d # got[c] => excuses'[d] = excuses[d]
  /\ spent'.faults = spent.faults /\ spent'.marks = spent.marks
  /\ spent'.deferrals = spent.deferrals + 1

LEMMA DeferEffect ==
  ASSUME TypeOK, Inserted, NEW c \in Call, Defer(c)
  PROVE  /\ got[c] \in Call /\ Exists(got[c])
         /\ at[c] = "defer" /\ at'[c] = "returned"
         /\ \A d \in Call : d # c => at'[d] = at[d]
         /\ c \in Direct => job'[c] = [phase |-> "send", id |-> got[c], seen |-> 0]
         /\ \A y \in Sender : y # c \/ c \notin Direct => job'[y] = job[y]
         /\ UNCHANGED <<got, snapshot, copies, tries>>
         /\ UNCHANGED <<row, excuses, spent>> \/ Deferred(c)
<1>1. /\ got[c] \in Call /\ Exists(got[c]) /\ at[c] = "defer"
      /\ Continue(c, got[c]) /\ UNCHANGED <<got, snapshot, copies, tries>>
  BY DEF Defer, Inserted
<1>2. at'[c] = "returned" /\ \A d \in Call : d # c => at'[d] = at[d]
  BY DEF Defer, TypeOK
<1>3. /\ c \in Direct => job'[c] = [phase |-> "send", id |-> got[c], seen |-> 0]
      /\ \A y \in Sender : y # c \/ c \notin Direct => job'[y] = job[y]
  BY <1>1, ContinueTypeOK
<1>4. ASSUME spent' = [spent EXCEPT !.deferrals = @ + 1],
             Excuse(got[c], Reopening(got[c])), RowFailed(got[c], FALSE, FALSE)
      PROVE  Deferred(c)
  <2>1. Touches(got[c], "retry", row[got[c]].attempts + 1)
    BY <1>1, <1>4, FailedTouches
  <2>2. /\ excuses'[got[c]] = excuses[got[c]] + Reopening(got[c])
        /\ \A d \in Call : d # got[c] => excuses'[d] = excuses[d]
    BY <1>1, <1>4, ReopeningNat, ExcuseTypeOK
  <2>3. /\ spent'.faults = spent.faults /\ spent'.marks = spent.marks
        /\ spent'.deferrals = spent.deferrals + 1
    BY <1>4 DEF TypeOK
  <2> QED BY <2>1, <2>2, <2>3 DEF Deferred
<1> QED BY <1>1, <1>2, <1>3, <1>4 DEF Defer

-----------------------------------------------------------------------------
(* Rows stay, calls end. *)

RowGoesOn(c) ==
  /\ Exists(c)' <=> Exists(c)
  /\ ~Exists(c) => row'[c] = row[c]
  /\ row'[c].attempts >= row[c].attempts

\* What the steps keep that the senders take.
Known == TypeOK /\ Inserted /\ OwnRow /\ InPass

LEMMA SendersRows ==
  ASSUME OutboxAssumption, Known, NEW x \in Sender
  PROVE  /\ job[x].id # NoRow => job[x].id \in Call
         /\ job[x].phase # "idle" /\ job[x].id # NoRow => Exists(job[x].id)
<1>1. job[x].id \in Call \cup {NoRow}
  BY Jobs DEF Known
<1>2. CASE x \in Scheduler
  BY <1>1, <1>2 DEF Known, InPass, Working
<1>3. CASE x \in Direct
  BY <1>1, <1>3 DEF Known, OwnRow
<1> QED BY <1>1, <1>2, <1>3 DEF Sender

LEMMA TouchedGoesOn ==
  ASSUME TypeOK, NEW c \in Call, Exists(c), NEW status, NEW n \in Nat,
         status # "absent", n >= row[c].attempts, Touches(c, status, n), NEW d \in Call
  PROVE  RowGoesOn(d)
<1>1. \A e \in Call : row[e].attempts \in Nat
  BY DEF TypeOK, Row
<1>2. CASE d = c
  BY <1>1, <1>2 DEF Touches, RowGoesOn, Exists
<1>3. CASE d # c
  BY <1>1, <1>3 DEF Touches, RowGoesOn, Exists
<1> QED BY <1>2, <1>3

LEMMA SameGoesOn ==
  ASSUME TypeOK, row' = row, NEW d \in Call
  PROVE  RowGoesOn(d)
<1>1. row[d].attempts \in Nat
  BY DEF TypeOK, Row
<1> QED BY <1>1 DEF RowGoesOn, Exists

\* Only an INSERT makes a row, of the call that runs it.
LEMMA RowsGoOn ==
  ASSUME OutboxAssumption, Known, [Next]_vars, NEW d \in Call
  PROVE  RowGoesOn(d) \/ (Insert(d) /\ SameKey(d) = {})
<1>1. TypeOK /\ \A c \in Call : row[c].attempts \in Nat /\ row[c].attempts + 1 \in Nat
  BY DEF Known, TypeOK, Row
<1>2. ASSUME row' = row PROVE RowGoesOn(d)
  BY <1>1, <1>2, SameGoesOn
<1>3. ASSUME NEW c \in Call, Insert(c)
      PROVE RowGoesOn(d) \/ (Insert(d) /\ SameKey(d) = {})
  <2>1. CASE SameKey(c) = {} /\ c # d
    <3>1. Touches(c, "queued", 0)
      BY <1>1, <1>3, <2>1, InsertTouches DEF Insert
    <3> QED BY <1>1, <2>1, <3>1 DEF Touches, RowGoesOn, Exists
  <2>2. CASE SameKey(c) # {}
    BY <1>2, <1>3, <2>2 DEF Insert
  <2> QED BY <1>3, <2>1, <2>2
<1>4. ASSUME NEW c \in Call, Defer(c) PROVE RowGoesOn(d)
  <2>1. /\ got[c] \in Call /\ Exists(got[c])
        /\ UNCHANGED <<row, excuses, spent>> \/ Deferred(c)
    BY <1>4, DeferEffect DEF Known
  <2>2. CASE Deferred(c)
    BY <1>1, <2>1, <2>2, TouchedGoesOn DEF Deferred
  <2> QED BY <1>2, <2>1, <2>2
<1>5. ASSUME NEW c \in Call, ApiSent(c) PROVE RowGoesOn(d)
  BY <1>1, <1>5, ApiSentEffect, TouchedGoesOn
<1>6. ASSUME NEW c \in Call, ApiFailed(c) PROVE RowGoesOn(d)
  BY <1>1, <1>6, ApiFailedEffect, TouchedGoesOn
<1>7. ASSUME NEW c \in Call, Tick(c) PROVE RowGoesOn(d)
  <2>1. Exists(c) /\ row[c].status # "absent"
    BY <1>7 DEF Tick, Exists
  <2> QED BY <1>1, <1>7, <2>1, TickTouches, TouchedGoesOn
<1>8. ASSUME NEW x \in Sender, MarkSent(x) PROVE RowGoesOn(d)
  <2>1. job[x].phase = "sent"
    BY <1>8 DEF MarkSent
  <2>2. CASE MarkedSent(x, job[x].id) /\ job[x].id # NoRow
    <3>1. job[x].id \in Call /\ Exists(job[x].id)
      BY <2>1, <2>2, SendersRows
    <3> QED BY <1>1, <2>2, <3>1, TouchedGoesOn DEF MarkedSent
  <2> QED BY <1>1, <1>2, <1>8, <2>2, MarkSentEffect DEF MarkLost
<1>9. ASSUME NEW x \in Sender, MarkFailed(x) PROVE RowGoesOn(d)
  <2>1. job[x].phase = "failed"
    BY <1>9 DEF MarkFailed
  <2>2. CASE FailureRecorded(x, job[x].id) /\ job[x].id # NoRow
    <3>1. job[x].id \in Call /\ Exists(job[x].id)
      BY <2>1, <2>2, SendersRows
    <3>2. (IF Exhausted(x) THEN "dead_lettered" ELSE "retry") # "absent"
      OBVIOUS
    <3> QED BY <1>1, <2>2, <3>1, <3>2, TouchedGoesOn DEF FailureRecorded
  <2> QED BY <1>1, <1>2, <1>9, <2>2, MarkFailedEffect
<1>10. ASSUME NEW c \in Call, LookUp(c) PROVE RowGoesOn(d)
  BY <1>2, <1>10 DEF LookUp
<1>11. ASSUME NEW w \in Scheduler, ListPending(w) \/ Take(w) PROVE RowGoesOn(d)
  BY <1>2, <1>11 DEF ListPending, Take
<1>12. ASSUME NEW x \in Sender, Send(x) \/ Crash(x) PROVE RowGoesOn(d)
  BY <1>2, <1>12 DEF Send, Crash
<1>13. CASE UNCHANGED vars
  BY <1>2, <1>13 DEF vars
<1> QED
  BY <1>3, <1>4, <1>5, <1>6, <1>7, <1>8, <1>9, <1>10, <1>11, <1>12, <1>13 DEF Next

\* Calls only go on in queue_delivery.
LEMMA CallsGoOn ==
  ASSUME [Next]_vars
  PROVE  \/ UNCHANGED <<at, got>>
         \/ \E c \in Call : LookUp(c) \/ Insert(c) \/ Defer(c)
<1>1. ASSUME NEW c \in Call, ApiSent(c) \/ ApiFailed(c) \/ Tick(c) PROVE UNCHANGED <<at, got>>
  BY <1>1 DEF ApiSent, ApiFailed, Mark, Tick
<1>2. ASSUME NEW w \in Scheduler, ListPending(w) \/ Take(w) PROVE UNCHANGED <<at, got>>
  BY <1>2 DEF ListPending, Take
<1>3. ASSUME NEW x \in Sender, Send(x) \/ MarkSent(x) \/ MarkFailed(x) \/ Crash(x)
      PROVE  UNCHANGED <<at, got>>
  BY <1>3 DEF Send, MarkSent, MarkFailed, Crash
<1>4. CASE UNCHANGED vars
  BY <1>4 DEF vars
<1> QED BY <1>1, <1>2, <1>3, <1>4 DEF Next

LEMMA InitInserted == ASSUME OutboxAssumption PROVE Init => Inserted
  BY DEF Init, Inserted, Exists, AbsentRow

LEMMA SameKeyGrows ==
  ASSUME OutboxAssumption, Known, [Next]_vars, NEW c \in Call
  PROVE  SameKey(c) \subseteq SameKey(c)'
<1>1. \A d \in Call : Exists(d) => Exists(d)'
  <2> SUFFICES ASSUME NEW d \in Call, Exists(d) PROVE Exists(d)'
    OBVIOUS
  <2>1. CASE RowGoesOn(d)
    BY <2>1 DEF RowGoesOn
  <2>2. CASE Insert(d) /\ SameKey(d) = {}
    BY <2>2 DEF Known, Inserted, Insert
  <2> QED BY <2>1, <2>2, RowsGoOn
<1> QED BY <1>1 DEF SameKey

LEMMA NextInserted ==
  ASSUME OutboxAssumption, Known, [Next]_vars
  PROVE  Inserted'
<1>1. TypeOK /\ Inserted /\ at \in [Call -> {"start", "insert", "defer", "returned", "raised"}]
      /\ got \in [Call -> Call \cup {NoRow}]
  BY DEF Known, TypeOK
<1>2. \A c \in Call : SameKey(c) \subseteq SameKey(c)'
  BY SameKeyGrows
<1>3. ASSUME UNCHANGED <<at, got>> PROVE Inserted'
  <2>1. \A c \in Call : RowGoesOn(c)
    BY <1>3, <1>1, RowsGoOn DEF Insert
  <2>2. ASSUME NEW c \in Call, at'[c] = "raised" PROVE SameKey(c)' # {}
    BY <1>1, <1>2, <1>3, <2>2 DEF Inserted
  <2> QED BY <1>1, <1>3, <2>1, <2>2 DEF Inserted, RowGoesOn
<1>4. ASSUME NEW c \in Call, LookUp(c) PROVE Inserted'
  <2>1. row' = row /\ SameKey(c) \subseteq Call
    BY <1>4 DEF LookUp, SameKey
  <2>2. \A d \in Call : Exists(d)' <=> Exists(d)
    BY <2>1 DEF Exists
  <2>3. \A d \in Call : SameKey(d)' = SameKey(d)
    BY <2>1 DEF SameKey, Exists
  <2>4. \A d \in Call : d # c => at'[d] = at[d] /\ got'[d] = got[d]
    BY <1>1, <1>4 DEF LookUp
  <2>5. ASSUME at'[c] \in {"defer", "returned"}
        PROVE  got'[c] \in Call /\ Exists(got'[c]) /\ KeyOf[got'[c]] = KeyOf[c]
    BY <1>1, <1>4, <2>5 DEF LookUp, SameKey
  <2>6. at'[c] \in {"insert", "defer"} /\ at[c] = "start"
    BY <1>1, <1>4 DEF LookUp
  <2> QED BY <1>1, <2>1, <2>2, <2>3, <2>4, <2>5, <2>6 DEF Inserted
<1>5. ASSUME NEW c \in Call, Defer(c) PROVE Inserted'
  <2>1. \A d \in Call : RowGoesOn(d)
    BY <1>5, <1>1, RowsGoOn DEF Insert, Defer
  <2>2. /\ got' = got /\ at[c] = "defer" /\ at'[c] = "returned"
        /\ \A d \in Call : d # c => at'[d] = at[d]
    BY <1>1, <1>5 DEF Defer
  <2>3. ASSUME NEW d \in Call, at'[d] = "raised" PROVE SameKey(d)' # {}
    BY <1>1, <1>2, <2>2, <2>3 DEF Inserted
  <2> QED BY <1>1, <2>1, <2>2, <2>3 DEF Inserted, RowGoesOn
<1>6. ASSUME NEW c \in Call, Insert(c), SameKey(c) # {} PROVE Inserted'
  <2>1. \A d \in Call : RowGoesOn(d)
    BY <1>6, <1>1, SameGoesOn DEF Insert
  <2>2. /\ got' = got /\ at[c] = "insert" /\ at'[c] = "raised"
        /\ \A d \in Call : d # c => at'[d] = at[d]
    BY <1>1, <1>6 DEF Insert
  <2>3. ASSUME NEW d \in Call, at'[d] = "raised" PROVE SameKey(d)' # {}
    BY <1>1, <1>2, <1>6, <2>2, <2>3 DEF Inserted
  <2> QED BY <1>1, <2>1, <2>2, <2>3 DEF Inserted, RowGoesOn
<1>7. ASSUME NEW c \in Call, Insert(c), SameKey(c) = {} PROVE Inserted'
  <2>1. Touches(c, "queued", 0)
    BY <1>1, <1>7, InsertTouches DEF Insert
  <2>2. /\ at[c] = "insert" /\ at'[c] = "defer" /\ got'[c] = c
        /\ \A d \in Call : d # c => at'[d] = at[d] /\ got'[d] = got[d]
    BY <1>1, <1>7 DEF Insert
  <2>3. Exists(c)' /\ \A d \in Call : d # c => row'[d] = row[d] /\ (Exists(d)' <=> Exists(d))
    BY <2>1 DEF Touches, Exists
  <2>4. ASSUME NEW d \in Call, at'[d] = "raised" PROVE SameKey(d)' # {}
    BY <1>1, <1>2, <2>2, <2>4 DEF Inserted
  <2>5. \A d \in Call : Exists(d) => KeyOf[c] = NoKey \/ KeyOf[d] # KeyOf[c]
    BY <1>7 DEF SameKey
  <2>6. ASSUME NEW d \in Call, NEW e \in Call,
               Exists(d)', Exists(e)', KeyOf[d] = KeyOf[e], KeyOf[d] # NoKey
        PROVE  d = e
    BY <1>1, <2>3, <2>5, <2>6 DEF Inserted
  <2>7. ASSUME NEW d \in Call, at'[d] \in {"defer", "returned"}
        PROVE  /\ got'[d] \in Call /\ Exists(got[d])'
               /\ KeyOf[d] # NoKey => KeyOf[got'[d]] = KeyOf[d]
    <3>1. CASE d = c
      BY <2>2, <2>3, <3>1 DEF Exists
    <3>2. CASE d # c
      <4>1. /\ got[d] \in Call /\ Exists(got[d]) /\ got'[d] = got[d]
            /\ KeyOf[d] # NoKey => KeyOf[got[d]] = KeyOf[d]
        BY <1>1, <2>2, <2>7, <3>2 DEF Inserted
      <4> QED BY <2>3, <4>1 DEF Exists
    <3> QED BY <3>1, <3>2
  <2>8. ASSUME NEW d \in Call
        PROVE  /\ at'[d] \in {"start", "insert"} => ~Exists(d)'
               /\ ~Exists(d)' => row'[d] = AbsentRow
    BY <1>1, <2>2, <2>3, <2>8 DEF Inserted
  <2> QED BY <2>4, <2>6, <2>7, <2>8 DEF Inserted
<1> QED BY <1>3, <1>4, <1>5, <1>6, <1>7, CallsGoOn

-----------------------------------------------------------------------------
(* Senders *)

KeepsOn(x) ==
  \/ job'[x] = job[x]
  \/ job'[x] = Idle
  \/ /\ Working(x) /\ job'[x].phase \in {"sent", "failed"}
     /\ job'[x].id = job[x].id /\ job'[x].seen = job[x].seen

\* A sender goes on, takes a row of its pass, or starts on the row it queued.
LEMMA JobsGoOn ==
  ASSUME OutboxAssumption, Known, [Next]_vars, NEW x \in Sender
  PROVE  KeepsOn(x) \/ (x \in Scheduler /\ Take(x)) \/ (x \in Direct /\ Defer(x))
<1>1. TypeOK /\ job \in [Sender -> Job]
  BY DEF Known, TypeOK
<1>2. ASSUME job' = job PROVE KeepsOn(x)
  BY <1>2 DEF KeepsOn
<1>3. ASSUME NEW c \in Call, LookUp(c) \/ ApiSent(c) \/ ApiFailed(c) \/ Tick(c)
      PROVE  KeepsOn(x)
  BY <1>2, <1>3 DEF LookUp, ApiSent, ApiFailed, Mark, Tick
<1>4. ASSUME NEW c \in Call, Insert(c) PROVE KeepsOn(x)
  <2>1. c \in Direct => SameKey(c) = {}
    BY DEF OutboxAssumption, SameKey
  <2> QED BY <1>2, <1>4, <2>1 DEF Insert, Continue
<1>5. ASSUME NEW c \in Call, Defer(c) PROVE KeepsOn(x) \/ (x \in Direct /\ Defer(x))
  <2>1. got[c] \in Call \cup {NoRow} /\ Continue(c, got[c])
    BY <1>1, <1>5 DEF Defer, TypeOK
  <2>2. CASE x = c /\ c \in Direct
    BY <1>5, <2>2
  <2>3. CASE ~(x = c /\ c \in Direct)
    <3>1. job'[x] = job[x]
      BY <1>1, <2>1, <2>3, ContinueTypeOK
    <3> QED BY <3>1 DEF KeepsOn
  <2> QED BY <2>2, <2>3
<1>6. ASSUME NEW w \in Scheduler, ListPending(w) PROVE KeepsOn(x)
  BY <1>2, <1>6 DEF ListPending
<1>7. ASSUME NEW w \in Scheduler, Take(w) PROVE KeepsOn(x) \/ (x \in Scheduler /\ Take(x))
  <2>1. CASE x # w
    BY <1>1, <1>7, <2>1 DEF Take, KeepsOn
  <2> QED BY <1>7, <2>1
<1>8. ASSUME NEW y \in Sender, Send(y) PROVE KeepsOn(x)
  <2>1. Sends(y, job[y].id)
    BY <1>1, <1>8, SendEffect
  <2>2. CASE x = y
    BY <2>1, <2>2 DEF Sends, KeepsOn, Working
  <2>3. CASE x # y
    BY <2>1, <2>3 DEF Sends, KeepsOn
  <2> QED BY <2>2, <2>3
<1>9. ASSUME NEW y \in Sender, MarkSent(y) PROVE KeepsOn(x)
  <2>1. Marks(y, job[y].id)
    BY <1>1, <1>9, MarkSentEffect
  <2>2. CASE x = y
    BY <2>1, <2>2 DEF Marks, KeepsOn, Working
  <2>3. CASE x # y
    BY <2>1, <2>3 DEF Marks, KeepsOn
  <2> QED BY <2>2, <2>3
<1>10. ASSUME NEW y \in Sender, MarkFailed(y) PROVE KeepsOn(x)
  BY <1>1, <1>10, MarkFailedEffect DEF KeepsOn
<1>11. ASSUME NEW y \in Sender, Crash(y) PROVE KeepsOn(x)
  BY <1>1, <1>11, CrashEffect DEF KeepsOn, Dies
<1>12. CASE UNCHANGED vars
  BY <1>2, <1>12 DEF vars
<1> QED
  BY <1>3, <1>4, <1>5, <1>6, <1>7, <1>8, <1>9, <1>10, <1>11, <1>12 DEF Next

LEMMA PassesGoOn ==
  ASSUME OutboxAssumption, Known, [Next]_vars, NEW w \in Scheduler
  PROVE  snapshot'[w] \subseteq snapshot[w] \/ ListPending(w)
<1>1. TypeOK /\ snapshot \in [Scheduler -> SUBSET Entry]
  BY DEF Known, TypeOK
<1>2. ASSUME snapshot' = snapshot PROVE snapshot'[w] \subseteq snapshot[w]
  BY <1>2
<1>3. ASSUME NEW c \in Call,
             LookUp(c) \/ Insert(c) \/ Defer(c) \/ ApiSent(c) \/ ApiFailed(c) \/ Tick(c)
      PROVE  snapshot'[w] \subseteq snapshot[w]
  BY <1>2, <1>3 DEF LookUp, Insert, Defer, ApiSent, ApiFailed, Mark, Tick
<1>4. ASSUME NEW v \in Scheduler, ListPending(v)
      PROVE  snapshot'[w] \subseteq snapshot[w] \/ ListPending(w)
  <2>1. CASE w # v
    BY <1>1, <1>4, <2>1 DEF ListPending
  <2> QED BY <1>4, <2>1
<1>5. ASSUME NEW v \in Scheduler, Take(v) PROVE snapshot'[w] \subseteq snapshot[w]
  BY <1>1, <1>5 DEF Take
<1>6. ASSUME NEW x \in Sender, Send(x) \/ MarkSent(x) \/ MarkFailed(x)
      PROVE  snapshot'[w] \subseteq snapshot[w]
  BY <1>2, <1>6 DEF Send, MarkSent, MarkFailed
<1>7. ASSUME NEW x \in Sender, Crash(x) PROVE snapshot'[w] \subseteq snapshot[w]
  BY <1>1, <1>7, CrashEffect DEF Dies
<1>8. CASE UNCHANGED vars
  BY <1>2, <1>8 DEF vars
<1> QED BY <1>3, <1>4, <1>5, <1>6, <1>7, <1>8 DEF Next

LEMMA InitOwnRow == ASSUME OutboxAssumption PROVE Init => OwnRow
  BY DEF Init, OwnRow, Sender, Idle, OutboxAssumption

\* A call that has not returned had not returned.
LEMMA CallsOnlyEnd ==
  ASSUME OutboxAssumption, TypeOK, [Next]_vars, NEW c \in Direct
  PROVE  /\ at'[c] \in {"start", "insert", "defer"} => at[c] \in {"start", "insert", "defer"}
         /\ Defer(c) => at'[c] = "returned"
         /\ at'[c] \in {"defer", "returned"} =>
              \/ at[c] \in {"defer", "returned"} /\ got'[c] = got[c]
              \/ got'[c] = c
<1>1. /\ c \in Call /\ SameKey(c) = {}
      /\ at \in [Call -> {"start", "insert", "defer", "returned", "raised"}]
      /\ got \in [Call -> Call \cup {NoRow}]
  BY DEF OutboxAssumption, SameKey, TypeOK
<1>2. CASE UNCHANGED <<at, got>>
  BY <1>1, <1>2 DEF Defer
<1>3. ASSUME NEW d \in Call, LookUp(d)
      PROVE  \/ at[c] = at'[c] /\ got[c] = got'[c]
             \/ at[c] = "start" /\ at'[c] = "insert"
  BY <1>1, <1>3 DEF LookUp
<1>4. ASSUME NEW d \in Call, Insert(d)
      PROVE  \/ at[c] = at'[c] /\ got[c] = got'[c]
             \/ at[c] = "insert" /\ at'[c] = "defer" /\ got'[c] = c
  BY <1>1, <1>4 DEF Insert
<1>5. ASSUME NEW d \in Call, Defer(d)
      PROVE  /\ got[c] = got'[c]
             /\ \/ at[c] = at'[c]
                \/ at[c] = "defer" /\ at'[c] = "returned"
  BY <1>1, <1>5 DEF Defer
<1>6. Defer(c) => at'[c] = "returned"
  BY <1>1 DEF Defer
<1> QED BY <1>2, <1>3, <1>4, <1>5, <1>6, CallsGoOn

LEMMA NextOwnRow ==
  ASSUME OutboxAssumption, Known, [Next]_vars
  PROVE  OwnRow'
<1> SUFFICES ASSUME NEW c \in Direct
             PROVE  /\ at'[c] \in {"start", "insert", "defer"} => job'[c] = Idle
                    /\ at'[c] \in {"defer", "returned"} => got'[c] = c
                    /\ job'[c].id \in {c, NoRow}
                    /\ job'[c].id = c => Exists(c)'
  BY DEF OwnRow
<1>1. /\ c \in Sender /\ c \in Call /\ c \notin Scheduler /\ NoRow \notin Call
      /\ TypeOK /\ Inserted
  BY DEF OutboxAssumption, Sender, Known
<1>2. /\ at[c] \in {"start", "insert", "defer"} => job[c] = Idle
      /\ at[c] \in {"defer", "returned"} => got[c] = c
      /\ job[c].id \in {c, NoRow}
      /\ job[c].id = c => Exists(c)
  BY DEF Known, OwnRow
<1>3. KeepsOn(c) \/ Defer(c)
  BY <1>1, JobsGoOn
<1>4. Exists(c) => Exists(c)'
  BY <1>1, RowsGoOn DEF RowGoesOn, Insert, Inserted
<1>5. /\ at'[c] \in {"start", "insert", "defer"} => at[c] \in {"start", "insert", "defer"}
      /\ Defer(c) => at'[c] = "returned"
      /\ at'[c] \in {"defer", "returned"} =>
           \/ at[c] \in {"defer", "returned"} /\ got'[c] = got[c]
           \/ got'[c] = c
  BY <1>1, CallsOnlyEnd
<1>6. Idle.phase = "idle" /\ Idle.id = NoRow
  BY DEF Idle
<1>7. at'[c] \in {"defer", "returned"} => got'[c] = c
  BY <1>2, <1>5
<1>8. CASE KeepsOn(c) /\ ~Defer(c)
  <2>1. at'[c] \in {"start", "insert", "defer"} => job'[c] = Idle
    BY <1>2, <1>5, <1>6, <1>8 DEF KeepsOn, Working
  <2>2. job'[c].id \in {c, NoRow} /\ (job'[c].id = c => job[c].id = c)
    BY <1>1, <1>2, <1>6, <1>8 DEF KeepsOn
  <2> QED BY <1>2, <1>4, <1>7, <2>1, <2>2
<1>9. CASE Defer(c)
  <2>1. got[c] = c /\ Exists(c) /\ at'[c] = "returned"
    BY <1>1, <1>2, <1>5, <1>9 DEF Defer, Inserted
  <2>2. job'[c] = [phase |-> "send", id |-> c, seen |-> 0]
    BY <1>1, <1>9, <2>1, DeferEffect
  <2> QED BY <1>4, <1>7, <2>1, <2>2
<1> QED BY <1>3, <1>8, <1>9

LEMMA InitInPass == ASSUME OutboxAssumption PROVE Init => InPass /\ Resting
  BY DEF Init, InPass, Resting, Working, Idle, Sender

\* A row that exists goes on, with the attempts it had or more.
LEMMA RowsLast ==
  ASSUME OutboxAssumption, Known, [Next]_vars, NEW c \in Call, Exists(c)
  PROVE  Exists(c)' /\ row'[c].attempts >= row[c].attempts
                    /\ row[c].attempts \in Nat
<1>1. ~Insert(c)
  BY DEF Known, Inserted, Insert
<1>2. row[c].attempts \in Nat
  BY DEF Known, TypeOK, Row
<1> QED BY <1>1, <1>2, RowsGoOn DEF RowGoesOn

\* What a pass lists.
LEMMA ListEffect ==
  ASSUME TypeOK, NEW w \in Scheduler, ListPending(w)
  PROVE  /\ snapshot[w] = {} /\ job[w] = Idle
         /\ \A e \in snapshot'[w] :
              /\ e.id \in Call /\ Pending(e.id) /\ e.seen = row[e.id].attempts
              /\ e = [id |-> e.id, seen |-> row[e.id].attempts]
         /\ \A v \in Scheduler : v # w => snapshot'[v] = snapshot[v]
         /\ UNCHANGED <<row, at, got, job, history, spent>>
<1> DEFINE batch == Newest({c \in Listed \cap Drained : row[c].aged}, MaxSends)
           listing == {[id |-> c, seen |-> row[c].attempts] : c \in batch}
<1>1. \A c \in batch : c \in Call /\ Pending(c)
  BY DEF Newest, Listed
<1>2. snapshot' = [snapshot EXCEPT ![w] = listing] /\ snapshot \in [Scheduler -> SUBSET Entry]
  BY DEF ListPending, TypeOK
<1> HIDE DEF batch
<1>3. \A e \in listing :
        /\ e.id \in Call /\ Pending(e.id) /\ e.seen = row[e.id].attempts
        /\ e = [id |-> e.id, seen |-> row[e.id].attempts]
  BY <1>1
<1> QED BY <1>2, <1>3 DEF ListPending

LEMMA TakeEffect ==
  ASSUME TypeOK, NEW w \in Scheduler, Take(w)
  PROVE  \E e \in snapshot[w] :
           /\ job[w] = Idle /\ e \in Entry
           /\ job'[w] = [phase |-> "send", id |-> e.id, seen |-> e.seen]
           /\ \A y \in Sender : y # w => job'[y] = job[y]
           /\ snapshot'[w] = snapshot[w] \ {e}
           /\ \A v \in Scheduler : v # w => snapshot'[v] = snapshot[v]
           /\ UNCHANGED <<row, at, got, history, spent>>
<1>1. PICK e \in snapshot[w] :
        /\ job' = [job EXCEPT ![w] = [phase |-> "send", id |-> e.id, seen |-> e.seen]]
        /\ snapshot' = [snapshot EXCEPT ![w] = @ \ {e}]
  BY DEF Take
<1>2. /\ job \in [Sender -> Job] /\ snapshot \in [Scheduler -> SUBSET Entry] /\ w \in Sender
      /\ e \in Entry
  BY DEF TypeOK, Sender
<1> QED BY <1>1, <1>2 DEF Take

LEMMA NextInPass ==
  ASSUME OutboxAssumption, Known, [Next]_vars
  PROVE  InPass'
<1> SUFFICES ASSUME NEW w \in Scheduler
             PROVE  /\ Working(w)' => /\ job'[w].id \in Call /\ Exists(job[w].id)'
                                      /\ job'[w].seen <= row'[job'[w].id].attempts
                                      /\ \A e \in snapshot'[w] : e.id # job'[w].id
                    /\ \A e \in snapshot'[w] : Exists(e.id)' /\ e.seen <= row'[e.id].attempts
                    /\ \A e, f \in snapshot'[w] : e.id = f.id => e = f
  BY DEF InPass
<1>1. /\ TypeOK /\ w \in Sender /\ w \notin Direct
      /\ \A e \in snapshot[w] : e \in Entry /\ e.id \in Call /\ e.seen \in Nat
  BY DEF Known, TypeOK, Sender, OutboxAssumption, Entry
<1>2. /\ Working(w) => /\ job[w].id \in Call /\ Exists(job[w].id)
                       /\ job[w].seen <= row[job[w].id].attempts
                       /\ \A e \in snapshot[w] : e.id # job[w].id
      /\ \A e \in snapshot[w] : Exists(e.id) /\ e.seen <= row[e.id].attempts
      /\ \A e, f \in snapshot[w] : e.id = f.id => e = f
  BY DEF Known, InPass
<1>3. job[w] \in Job /\ job[w].seen \in Nat /\ Idle.phase = "idle"
  BY <1>1, Jobs
<1>4. \A c \in Call : Exists(c) =>
        Exists(c)' /\ row'[c].attempts >= row[c].attempts /\ row[c].attempts \in Nat
                   /\ row'[c].attempts \in Nat
  BY RowsLast, NextTypeOK DEF Known, TypeOK, Row
<1>5. ASSUME NEW e \in snapshot[w]
      PROVE  Exists(e.id)' /\ e.seen <= row'[e.id].attempts
  <2>1. e.id \in Call /\ Exists(e.id) /\ e.seen <= row[e.id].attempts /\ e.seen \in Nat
    BY <1>1, <1>2
  <2> QED BY <1>4, <2>1
<1>6. CASE ListPending(w)
  <2>1. job' = job /\ row' = row /\ ~Working(w)
    BY <1>1, <1>3, <1>6, ListEffect DEF Working
  <2>2. \A e \in snapshot'[w] : Pending(e.id) /\ e.seen = row[e.id].attempts
                             /\ e.id \in Call
                             /\ e = [id |-> e.id, seen |-> row[e.id].attempts]
    BY <1>1, <1>6, ListEffect
  <2>3. \A e \in snapshot'[w] : Exists(e.id)' /\ e.seen <= row'[e.id].attempts
    BY <1>4, <2>1, <2>2 DEF Exists, Pending
  <2>4. \A e, f \in snapshot'[w] : e.id = f.id => e = f
    BY <2>2
  <2>5. ~Working(w)'
    BY <2>1 DEF Working
  <2> QED BY <2>3, <2>4, <2>5
<1>7. CASE Take(w)
  <2>1. PICK e \in snapshot[w] :
          /\ job'[w] = [phase |-> "send", id |-> e.id, seen |-> e.seen]
          /\ snapshot'[w] = snapshot[w] \ {e}
    BY <1>1, <1>7, TakeEffect
  <2>2. job'[w].id = e.id /\ job'[w].seen = e.seen
    BY <2>1
  <2>3. Exists(job[w].id)'
    BY <1>5, <2>2 DEF Exists
  <2>4. \A f \in snapshot'[w] : f.id # job'[w].id
    BY <1>2, <2>1, <2>2
  <2> QED BY <1>1, <1>2, <1>5, <2>1, <2>2, <2>3, <2>4
<1>8. CASE KeepsOn(w) /\ snapshot'[w] \subseteq snapshot[w]
  <2>1. Working(w)' => /\ Working(w) /\ job'[w].id = job[w].id
                       /\ job'[w].seen = job[w].seen
    BY <1>3, <1>8 DEF KeepsOn, Working
  <2>2. ASSUME Working(w)'
        PROVE  /\ job'[w].id \in Call /\ Exists(job[w].id)'
               /\ job'[w].seen <= row'[job'[w].id].attempts
               /\ \A e \in snapshot'[w] : e.id # job'[w].id
    <3>1. /\ job[w].id \in Call /\ Exists(job[w].id) /\ job'[w].id = job[w].id
          /\ job'[w].seen = job[w].seen /\ job[w].seen <= row[job[w].id].attempts
          /\ \A e \in snapshot[w] : e.id # job[w].id
      BY <1>2, <2>1, <2>2
    <3>2. Exists(job[w].id)'
      BY <1>4, <3>1 DEF Exists
    <3> QED BY <1>3, <1>4, <1>8, <3>1, <3>2
  <2> QED BY <1>2, <1>5, <1>8, <2>2
<1> QED BY <1>1, <1>6, <1>7, <1>8, JobsGoOn, PassesGoOn

LEMMA NextResting ==
  ASSUME OutboxAssumption, Known, Resting, [Next]_vars
  PROVE  Resting'
<1> SUFFICES ASSUME NEW x \in Sender, ~Working(x)' PROVE job'[x] = Idle
  BY DEF Resting
<1>1. TypeOK /\ (~Working(x) => job[x] = Idle)
  BY DEF Known, Resting
<1>2. CASE KeepsOn(x)
  BY <1>1, <1>2 DEF KeepsOn, Working
<1>3. CASE x \in Scheduler /\ Take(x)
  <2>1. PICK e \in snapshot[x] : job'[x] = [phase |-> "send", id |-> e.id, seen |-> e.seen]
    BY <1>1, <1>3, TakeEffect
  <2>2. Working(x)'
    BY <2>1 DEF Working
  <2> QED BY <2>2
<1>4. CASE x \in Direct /\ Defer(x)
  <2>1. x \in Call
    BY <1>4 DEF OutboxAssumption
  <2>2. job'[x] = [phase |-> "send", id |-> got[x], seen |-> 0]
    BY <1>1, <1>4, <2>1, DeferEffect DEF Known
  <2>3. Working(x)'
    BY <2>2 DEF Working
  <2> QED BY <2>3
<1> QED BY <1>2, <1>3, <1>4, JobsGoOn

-----------------------------------------------------------------------------
(* Dead letters *)

Earned(c) ==
  row[c].status = "dead_lettered" => row[c].attempts >= MaxAttempts \/ spent.marks > 0

LEMMA NextDeadLetters ==
  ASSUME OutboxAssumption, Known, DeadLettersEarned, [Next]_vars
  PROVE  DeadLettersEarned'
<1> SUFFICES ASSUME NEW d \in Call PROVE Earned(d)'
  BY DEF DeadLettersEarned, Earned
<1>1. /\ TypeOK /\ Earned(d) /\ spent.marks \in Nat /\ MaxAttempts \in Nat
      /\ \A c \in Call : row[c].attempts \in Nat
  BY Counters DEF Known, DeadLettersEarned, Earned, OutboxAssumption, TypeOK, Row
<1>2. ASSUME row' = row, spent'.marks >= spent.marks PROVE Earned(d)'
  <2>1. spent'.marks \in Nat
    BY NextTypeOK, <1>1 DEF Known, TypeOK
  <2> QED BY <1>1, <1>2, <2>1 DEF Earned
<1>3. ASSUME NEW c \in Call, NEW status \in {"queued", "retry", "sent"}, NEW n \in Nat,
             Touches(c, status, n), spent'.marks = spent.marks
      PROVE  Earned(d)'
  BY <1>1, <1>3 DEF Touches, Earned
<1>4. ASSUME NEW c \in Call, LookUp(c) PROVE Earned(d)'
  BY <1>1, <1>2, <1>4 DEF LookUp
<1>5. ASSUME NEW c \in Call, Insert(c) PROVE Earned(d)'
  <2>1. CASE SameKey(c) = {}
    BY <1>1, <1>3, <1>5, <2>1, InsertTouches DEF Insert
  <2>2. CASE SameKey(c) # {}
    BY <1>1, <1>2, <1>5, <2>2 DEF Insert
  <2> QED BY <2>1, <2>2
<1>6. ASSUME NEW c \in Call, Defer(c) PROVE Earned(d)'
  <2>1. got[c] \in Call /\ (UNCHANGED <<row, excuses, spent>> \/ Deferred(c))
    BY <1>1, <1>6, DeferEffect DEF Known
  <2>2. CASE Deferred(c)
    BY <1>1, <1>3, <2>1, <2>2 DEF Deferred
  <2> QED BY <1>1, <1>2, <2>1, <2>2
<1>7. ASSUME NEW c \in Call, ApiSent(c) PROVE Earned(d)'
  <2>1. Touches(c, "sent", row[c].attempts) /\ spent'.marks = spent.marks + 1
    BY <1>1, <1>7, ApiSentEffect DEF Marked
  <2> QED BY <1>1, <2>1 DEF Earned
<1>8. ASSUME NEW c \in Call, ApiFailed(c) PROVE Earned(d)'
  <2>1. spent'.marks = spent.marks + 1
    BY <1>1, <1>8, ApiFailedEffect DEF Marked
  <2> QED BY <1>1, <2>1 DEF Earned
<1>9. ASSUME NEW c \in Call, Tick(c) PROVE Earned(d)'
  <2>1. Touches(c, row[c].status, row[c].attempts) /\ spent' = spent
    BY <1>1, <1>9, TickTouches DEF Tick
  <2> QED BY <1>1, <2>1 DEF Touches, Earned
<1>10. ASSUME NEW w \in Scheduler, ListPending(w) \/ Take(w) PROVE Earned(d)'
  BY <1>1, <1>2, <1>10 DEF ListPending, Take
<1>11. ASSUME NEW x \in Sender, Send(x) PROVE Earned(d)'
  BY <1>1, <1>2, <1>11, SendEffect DEF Sends
<1>12. ASSUME NEW x \in Sender, MarkSent(x) PROVE Earned(d)'
  <2>1. job[x].id # NoRow => job[x].id \in Call
    BY SendersRows
  <2>2. CASE job[x].id = NoRow \/ MarkLost(x, job[x].id)
    BY <1>1, <1>2, <1>12, <2>2, MarkSentEffect DEF Marks, MarkLost
  <2>3. CASE job[x].id # NoRow /\ MarkedSent(x, job[x].id)
    BY <1>1, <1>3, <2>1, <2>3 DEF MarkedSent
  <2> QED BY <1>1, <1>12, <2>2, <2>3, MarkSentEffect
<1>13. ASSUME NEW x \in Sender, MarkFailed(x) PROVE Earned(d)'
  <2>1. /\ job[x].id # NoRow => job[x].id \in Call
        /\ job[x].phase = "failed" /\ spent' = spent
    BY <1>1, <1>13, SendersRows, MarkFailedEffect
  <2>2. CASE job[x].id = NoRow
    BY <1>1, <1>2, <1>13, <2>2, MarkFailedEffect
  <2>3. CASE job[x].id # NoRow /\ ~Exhausted(x)
    <3>1. Touches(job[x].id, "retry", row[job[x].id].attempts + 1)
      BY <1>1, <1>13, <2>3, MarkFailedEffect DEF FailureRecorded
    <3> QED BY <1>1, <1>3, <2>1, <2>3, <3>1
  <2>4. CASE job[x].id # NoRow /\ Exhausted(x)
    <3>1. Touches(job[x].id, "dead_lettered", row[job[x].id].attempts + 1)
      BY <1>1, <1>13, <2>4, MarkFailedEffect DEF FailureRecorded
    <3>2. /\ x \in Scheduler /\ job[x].seen + 1 >= MaxAttempts
          /\ job[x].seen <= row[job[x].id].attempts /\ job[x].seen \in Nat
      BY <1>1, <2>1, <2>4, Jobs DEF Exhausted, Known, InPass, Working
    <3> QED BY <1>1, <2>1, <2>4, <3>1, <3>2 DEF Touches, Earned
  <2> QED BY <2>2, <2>3, <2>4
<1>14. ASSUME NEW x \in Sender, Crash(x) PROVE Earned(d)'
  BY <1>1, <1>2, <1>14, CrashEffect DEF Dies
<1>15. CASE UNCHANGED vars
  BY <1>1, <1>2, <1>15 DEF vars
<1> QED
  BY <1>4, <1>5, <1>6, <1>7, <1>8, <1>9, <1>10, <1>11, <1>12, <1>13, <1>14, <1>15 DEF Next

-----------------------------------------------------------------------------
(* Messages and excuses *)

\* Nobody comes to a row that is marked sent: a pass lists pending rows.
LEMMA NoneJoins ==
  ASSUME OutboxAssumption, Known, [Next]_vars, NEW x \in Sender, NEW d \in Call,
         WillSend(x, d)'
  PROVE  WillSend(x, d) \/ (Pending(d) /\ row' = row) \/ Insert(d)
<1>1. TypeOK /\ OwnRow /\ Inserted /\ Scheduler \cap Direct = {}
  BY DEF Known, OutboxAssumption
<1>2. CASE job'[x].phase = "send" /\ job'[x].id = d
  <2>1. CASE KeepsOn(x)
    BY <1>1, <1>2, <2>1 DEF KeepsOn, WillSend, Idle
  <2>2. CASE x \in Scheduler /\ Take(x)
    <3>1. PICK e \in snapshot[x] :
            job'[x] = [phase |-> "send", id |-> e.id, seen |-> e.seen]
      BY <1>1, <2>2, TakeEffect
    <3>2. e.id = d
      BY <1>2, <3>1
    <3> QED BY <2>2, <3>2 DEF WillSend
  <2>3. CASE x \in Direct /\ Defer(x)
    <3>1. x \in Call
      BY <2>3 DEF OutboxAssumption
    <3>2. job'[x] = [phase |-> "send", id |-> got[x], seen |-> 0] /\ at[x] = "defer"
      BY <1>1, <2>3, <3>1, DeferEffect
    <3>3. got[x] = d
      BY <1>2, <3>2
    <3> QED BY <2>3, <3>2, <3>3 DEF WillSend
  <2> QED BY <2>1, <2>2, <2>3, JobsGoOn
<1>3. CASE x \in Scheduler /\ \E e \in snapshot'[x] : e.id = d
  <2>1. CASE snapshot'[x] \subseteq snapshot[x]
    BY <1>3, <2>1 DEF WillSend
  <2>2. CASE ListPending(x)
    <3>1. row' = row /\ \A e \in snapshot'[x] : Pending(e.id)
      BY <1>1, <1>3, <2>2, ListEffect
    <3> QED BY <1>3, <3>1
  <2> QED BY <1>3, <2>1, <2>2, PassesGoOn
<1>4. CASE x \in Direct /\ at'[x] = "defer" /\ got'[x] = d
  <2>1. /\ x \in Call /\ SameKey(x) = {}
        /\ at \in [Call -> {"start", "insert", "defer", "returned", "raised"}]
        /\ got \in [Call -> Call \cup {NoRow}]
    BY <1>1, <1>4 DEF OutboxAssumption, SameKey, TypeOK
  <2>2. ASSUME at'[x] = at[x], got'[x] = got[x] PROVE WillSend(x, d)
    BY <1>4, <2>2 DEF WillSend
  <2>3. CASE UNCHANGED <<at, got>>
    BY <2>2, <2>3
  <2>4. ASSUME NEW c \in Call, LookUp(c) PROVE WillSend(x, d)
    BY <1>4, <2>1, <2>2, <2>4 DEF LookUp
  <2>5. ASSUME NEW c \in Call, Insert(c) PROVE WillSend(x, d) \/ Insert(d)
    <3>1. CASE c = x
      BY <1>4, <2>1, <2>5, <3>1 DEF Insert
    <3>2. CASE c # x
      BY <2>1, <2>2, <2>5, <3>2 DEF Insert
    <3> QED BY <3>1, <3>2
  <2>6. ASSUME NEW c \in Call, Defer(c) PROVE WillSend(x, d)
    BY <1>4, <2>1, <2>2, <2>6 DEF Defer
  <2> QED BY <2>3, <2>4, <2>5, <2>6, CallsGoOn
<1> QED BY <1>2, <1>3, <1>4 DEF WillSend

LEMMA WillingShrinks ==
  ASSUME OutboxAssumption, Known, [Next]_vars, NEW d \in Call, row[d].status = "sent"
  PROVE  Willing(d)' \subseteq Willing(d)
<1>1. ~Pending(d) /\ ~Insert(d)
  BY DEF Known, Inserted, Insert, Exists, Pending
<1> QED BY <1>1, NoneJoins DEF Willing

\* A sender that has done its send is no longer among those who will.
LEMMA Leaves ==
  ASSUME OutboxAssumption, Known, NEW x \in Sender, NEW c \in Call,
         Working(x), job[x].id = c,
         UNCHANGED <<at, got, snapshot>>, job'[x].phase # "send",
         \A y \in Sender : y # x => job'[y] = job[y]
  PROVE  Willing(c)' = Willing(c) \ {x}
<1>1. OwnRow /\ InPass /\ Idle.phase = "idle" /\ Sender = Scheduler \cup Direct
      /\ Scheduler \cap Direct = {}
  BY DEF Known, Idle, Sender, OutboxAssumption
<1>2. x \in Scheduler => \A e \in snapshot[x] : e.id # c
  BY <1>1 DEF InPass
<1>3. x \in Direct => at[x] # "defer"
  BY <1>1 DEF OwnRow, Working
<1>4. ~WillSend(x, c)'
  BY <1>2, <1>3 DEF WillSend
<1>5. ASSUME NEW y \in Sender, y # x PROVE WillSend(y, c)' <=> WillSend(y, c)
  BY <1>5 DEF WillSend
<1> QED BY <1>4, <1>5 DEF Willing

\* What a step means for the messages of a row: nothing, a row that may be sent again,
\* a message, or a row marked sent in spite of those who still send it.
Undisturbed(c) ==
  /\ copies'[c] = copies[c] /\ excuses'[c] >= excuses[c]
  /\ row'[c].status = "sent" <=> row[c].status = "sent"
  /\ Sent(c) => Sent(c)' \/ excuses'[c] >= excuses[c] + 1
  /\ row[c].status = "sent" => Willing(c)' \subseteq Willing(c)

Reopened(c) ==
  /\ copies'[c] = copies[c] /\ excuses'[c] = excuses[c] + Reopening(c)
  /\ row'[c].status # "sent"
  /\ Sent(c) => Sent(c)'

Posted(c) ==
  /\ \E x \in Willing(c) : Willing(c)' = Willing(c) \ {x}
  /\ row'[c].status = row[c].status
  /\ \/ /\ copies'[c] = copies[c] /\ excuses'[c] = excuses[c]
        /\ Sent(c) => Sent(c)'
     \/ /\ copies'[c] = copies[c] + 1 /\ Sent(c)'
        /\ excuses'[c] = excuses[c] + IF Sent(c) THEN 1 ELSE 0
     \/ /\ copies'[c] = copies[c] + 1 /\ excuses'[c] = excuses[c] + 1
        /\ Sent(c) => Sent(c)'

ClosedNow(c) ==
  /\ copies'[c] = copies[c] /\ row'[c].status = "sent"
  /\ Willing(c)' \subseteq Willing(c)
  /\ \E S \in SUBSET Sender :
       Willing(c)' \subseteq S /\ excuses'[c] = excuses[c] + Cardinality(S)

\* Each of the four keeps the account.
LEMMA KindsPay ==
  ASSUME OutboxAssumption, TypeOK, TypeOK', NEW c \in Call, Paid(c),
         Undisturbed(c) \/ Reopened(c) \/ Posted(c) \/ ClosedNow(c)
  PROVE  Paid(c)'
<1>1. /\ copies[c] \in Nat /\ copies'[c] \in Nat /\ excuses[c] \in Nat /\ excuses'[c] \in Nat
  BY DEF TypeOK
<1>2. /\ IsFiniteSet(Willing(c)) /\ Cardinality(Willing(c)) \in Nat
      /\ Cardinality(Willing(c)') \in Nat
  BY SendersFinite DEF Willing
<1>3. Willing(c)' \subseteq Willing(c) => Cardinality(Willing(c)') <= Cardinality(Willing(c))
  BY <1>2, FS_Subset
<1>4. /\ row[c].status # "sent" => copies[c] <= excuses[c] + IF Sent(c) THEN 1 ELSE 0
      /\ row[c].status = "sent" => copies[c] + Cardinality(Willing(c)) <= excuses[c] + 1
  BY DEF Paid
<1> SUFFICES /\ row'[c].status # "sent" =>
                  copies'[c] <= excuses'[c] + IF Sent(c)' THEN 1 ELSE 0
             /\ row'[c].status = "sent" =>
                  copies'[c] + Cardinality(Willing(c)') <= excuses'[c] + 1
  BY DEF Paid
<1> DEFINE k == Cardinality(Willing(c))
           m == Cardinality(Willing(c)')
           sent == Sent(c)
           sentNow == Sent(c)'
<1>5. k \in Nat /\ m \in Nat /\ sent \in BOOLEAN /\ sentNow \in BOOLEAN
  BY <1>2 DEF Sent
<1>6. CASE Undisturbed(c)
  <2>1. /\ copies'[c] = copies[c] /\ excuses'[c] >= excuses[c]
        /\ row'[c].status = "sent" <=> row[c].status = "sent"
        /\ sent => sentNow \/ excuses'[c] >= excuses[c] + 1
        /\ row[c].status = "sent" => m <= k
    BY <1>3, <1>6 DEF Undisturbed
  <2> HIDE DEF k, m, sent, sentNow
  <2>2. /\ row[c].status # "sent" => copies[c] <= excuses[c] + IF sent THEN 1 ELSE 0
        /\ row[c].status = "sent" => copies[c] + k <= excuses[c] + 1
    BY <1>4 DEF k, sent
  <2>3. /\ row'[c].status # "sent" => copies'[c] <= excuses'[c] + IF sentNow THEN 1 ELSE 0
        /\ row'[c].status = "sent" => copies'[c] + m <= excuses'[c] + 1
    BY <1>1, <1>5, <2>1, <2>2
  <2> QED BY <2>3 DEF m, sentNow
<1>7. CASE Reopened(c)
  <2>1. CASE row[c].status = "sent"
    BY <1>1, <1>2, <1>4, <1>7, <2>1 DEF Reopened, Reopening
  <2>2. CASE row[c].status # "sent"
    BY <1>1, <1>4, <1>7, <2>2 DEF Reopened, Reopening
  <2> QED BY <2>1, <2>2
<1>8. CASE Posted(c)
  <2>1. m = k - 1
    BY <1>2, <1>8, FS_RemoveElement DEF Posted
  <2>2. /\ row'[c].status = row[c].status
        /\ \/ copies'[c] = copies[c] /\ excuses'[c] = excuses[c] /\ (sent => sentNow)
           \/ /\ copies'[c] = copies[c] + 1 /\ sentNow
              /\ excuses'[c] = excuses[c] + IF sent THEN 1 ELSE 0
           \/ /\ copies'[c] = copies[c] + 1 /\ excuses'[c] = excuses[c] + 1
              /\ (sent => sentNow)
    BY <1>8 DEF Posted
  <2>3. /\ row[c].status # "sent" => copies[c] <= excuses[c] + IF sent THEN 1 ELSE 0
        /\ row[c].status = "sent" => copies[c] + k <= excuses[c] + 1
    BY <1>4
  <2> HIDE DEF k, m, sent, sentNow
  <2>4. /\ row'[c].status # "sent" => copies'[c] <= excuses'[c] + IF sentNow THEN 1 ELSE 0
        /\ row'[c].status = "sent" => copies'[c] + m <= excuses'[c] + 1
    BY <1>1, <1>5, <2>1, <2>2, <2>3
  <2> QED BY <2>4 DEF m, sentNow
<1>9. CASE ClosedNow(c)
  <2>1. PICK S \in SUBSET Sender :
          Willing(c)' \subseteq S /\ excuses'[c] = excuses[c] + Cardinality(S)
    BY <1>9 DEF ClosedNow
  <2>2. IsFiniteSet(S) /\ Cardinality(S) \in Nat
    BY SendersFinite
  <2>3. m <= Cardinality(S)
    BY <2>1, <2>2, FS_Subset
  <2>4. m <= k /\ copies'[c] = copies[c] /\ row'[c].status = "sent"
    BY <1>3, <1>9 DEF ClosedNow
  <2>5. CASE row[c].status = "sent"
    BY <1>1, <1>4, <1>5, <2>1, <2>2, <2>4, <2>5
  <2>6. CASE row[c].status # "sent"
    BY <1>1, <1>4, <1>5, <2>1, <2>2, <2>3, <2>4, <2>6
  <2> QED BY <2>5, <2>6
<1> QED BY <1>6, <1>7, <1>8, <1>9

Kind(c) == Undisturbed(c) \/ Reopened(c) \/ Posted(c) \/ ClosedNow(c)

LEMMA SentKept ==
  ASSUME NEW d, \A x \in Sender : HasSent(x, d) => job'[x] = job[x]
  PROVE  Sent(d) => Sent(d)'
  BY DEF Sent, HasSent

\* Of the other rows, nothing is said.
LEMMA Apart ==
  ASSUME OutboxAssumption, Known, [Next]_vars, NEW d \in Call,
         copies'[d] = copies[d], excuses'[d] = excuses[d],
         row'[d].status = "sent" <=> row[d].status = "sent",
         \A x \in Sender : HasSent(x, d) => job'[x] = job[x]
  PROVE  Undisturbed(d)
<1>1. excuses[d] \in Nat
  BY DEF Known, TypeOK
<1> QED BY <1>1, SentKept, WillingShrinks DEF Undisturbed

LEMMA StepKind ==
  ASSUME OutboxAssumption, Known, [Next]_vars, NEW d \in Call
  PROVE  Kind(d)
<1>1. /\ TypeOK /\ NoRow \notin Call /\ excuses[d] \in Nat
      /\ \A x \in Sender : job[x].id \in Call \cup {NoRow}
  BY Jobs DEF Known, OutboxAssumption, TypeOK
<1>2. ASSUME UNCHANGED <<job, copies, excuses>>,
             row'[d].status = "sent" <=> row[d].status = "sent"
      PROVE  Kind(d)
  BY <1>2, Apart DEF Kind
<1>3. ASSUME NEW c \in Call, LookUp(c) PROVE Kind(d)
  BY <1>2, <1>3 DEF LookUp, history
<1>4. ASSUME NEW c \in Call, Insert(c) PROVE Kind(d)
  <2>1. c \in Direct => SameKey(c) = {}
    BY DEF OutboxAssumption, SameKey
  <2>2. UNCHANGED <<job, copies, excuses>>
    BY <1>4, <2>1 DEF Insert, Continue, history
  <2>3. CASE SameKey(c) = {}
    <3>1. Touches(c, "queued", 0) /\ row[c].status = "absent"
      BY <1>1, <1>4, <2>3, InsertTouches DEF Insert, Known, Inserted, Exists
    <3> QED BY <1>2, <2>2, <3>1 DEF Touches
  <2>4. CASE SameKey(c) # {}
    BY <1>2, <1>4, <2>2, <2>4 DEF Insert
  <2> QED BY <2>3, <2>4
<1>5. ASSUME NEW c \in Call, Defer(c) PROVE Kind(d)
  <2>1. /\ got[c] \in Call /\ at[c] = "defer" /\ copies' = copies
        /\ \A y \in Sender : y # c \/ c \notin Direct => job'[y] = job[y]
        /\ UNCHANGED <<row, excuses, spent>> \/ Deferred(c)
    BY <1>1, <1>5, DeferEffect DEF Known
  <2>2. c \in Direct => job[c] = Idle
    BY <2>1 DEF Known, OwnRow
  <2>3. \A x \in Sender : HasSent(x, d) => job'[x] = job[x]
    BY <2>1, <2>2 DEF HasSent, Idle
  <2>4. CASE UNCHANGED <<row, excuses, spent>>
    BY <2>1, <2>3, <2>4, Apart DEF Kind
  <2>5. CASE Deferred(c) /\ d # got[c]
    BY <2>1, <2>3, <2>5, Apart DEF Kind, Deferred, Touches
  <2>6. CASE Deferred(c) /\ d = got[c]
    <3>1. row'[d].status # "sent" /\ excuses'[d] = excuses[d] + Reopening(d)
      BY <2>6 DEF Deferred, Touches
    <3> QED BY <2>1, <2>3, <3>1, SentKept DEF Kind, Reopened
  <2> QED BY <2>1, <2>4, <2>5, <2>6
<1>6. ASSUME NEW c \in Call, ApiSent(c) PROVE Kind(d)
  <2>1. /\ Marked(c) /\ Touches(c, "sent", row[c].attempts)
        /\ excuses'[c] = excuses[c] + Cardinality(Reachable(c))
    BY <1>1, <1>6, ApiSentEffect
  <2>2. CASE d # c
    BY <2>1, <2>2, Apart DEF Kind, Marked, Touches
  <2>3. CASE d = c
    <3>1. Willing(c)' = Willing(c) /\ Willing(c) \subseteq Reachable(c)
          /\ Reachable(c) \in SUBSET Sender
      BY <2>1 DEF Marked, Willing, WillSend, Reachable
    <3>2. ClosedNow(c)
      BY <2>1, <3>1 DEF ClosedNow, Marked, Touches
    <3> QED BY <2>3, <3>2 DEF Kind
  <2> QED BY <2>2, <2>3
<1>7. ASSUME NEW c \in Call, ApiFailed(c) PROVE Kind(d)
  <2>1. PICK status \in {"dead_lettered", "retry"} : Touches(c, status, row[c].attempts + 1)
    BY <1>1, <1>7, ApiFailedEffect
  <2>2. Marked(c) /\ excuses'[c] = excuses[c] + Reopening(c)
    BY <1>1, <1>7, ApiFailedEffect
  <2>3. CASE d # c
    BY <2>1, <2>2, <2>3, Apart DEF Kind, Marked, Touches
  <2>4. CASE d = c
    BY <2>1, <2>2, <2>4, SentKept DEF Kind, Reopened, Marked, Touches
  <2> QED BY <2>3, <2>4
<1>8. ASSUME NEW c \in Call, Tick(c) PROVE Kind(d)
  BY <1>1, <1>2, <1>8, TickTouches DEF Tick, Touches, history
<1>9. ASSUME NEW w \in Scheduler, ListPending(w) PROVE Kind(d)
  BY <1>1, <1>2, <1>9, ListEffect DEF history
<1>10. ASSUME NEW w \in Scheduler, Take(w) PROVE Kind(d)
  <2>1. /\ job[w] = Idle /\ \A y \in Sender : y # w => job'[y] = job[y]
        /\ UNCHANGED <<row, history>>
    BY <1>1, <1>10, TakeEffect
  <2>2. \A x \in Sender : HasSent(x, d) => job'[x] = job[x]
    BY <2>1 DEF HasSent, Idle
  <2> QED BY <2>1, <2>2, Apart DEF Kind, history
<1>11. ASSUME NEW x \in Sender, Send(x) PROVE Kind(d)
  <2>1. /\ Sends(x, job[x].id)
        /\ job[x].id \in Call => Delivered(x, job[x].id) \/ Raised(x, job[x].id)
    BY <1>1, <1>11, SendEffect
  <2>2. \A y \in Sender : HasSent(y, d) => job'[y] = job[y]
    BY <2>1 DEF HasSent, Sends
  <2>3. CASE job[x].id # d
    BY <2>1, <2>2, <2>3, Apart DEF Kind, Sends
  <2>4. CASE job[x].id = d
    <3>1. Working(x) /\ x \in Willing(d) /\ row' = row
      BY <2>1, <2>4 DEF Sends, Working, Willing, WillSend
    <3>2. Willing(d)' = Willing(d) \ {x}
      BY <2>1, <2>4, <3>1, Leaves DEF Sends
    <3>3. Delivered(x, d) => Sent(d)'
      BY <2>1, <2>4 DEF Delivered, Sends, Sent, HasSent
    <3>4. Posted(d)
      BY <2>1, <2>2, <2>4, <3>1, <3>2, <3>3, SentKept DEF Posted, Delivered, Raised
    <3> QED BY <3>4 DEF Kind
  <2> QED BY <2>3, <2>4
<1>12. ASSUME NEW x \in Sender, MarkSent(x) PROVE Kind(d)
  <2>1. /\ Marks(x, job[x].id)
        /\ job[x].id = NoRow => job'[x] = Idle /\ UNCHANGED <<row, excuses, spent>>
        /\ job[x].id # NoRow => MarkedSent(x, job[x].id) \/ MarkLost(x, job[x].id)
    BY <1>1, <1>12, MarkSentEffect
  <2>2. CASE job[x].id # d
    <3>1. \A y \in Sender : HasSent(y, d) => job'[y] = job[y]
      BY <2>1, <2>2 DEF HasSent, Marks
    <3>2. /\ copies'[d] = copies[d] /\ excuses'[d] = excuses[d]
          /\ row'[d].status = row[d].status
      BY <2>1, <2>2 DEF Marks, MarkedSent, MarkLost, Touches
    <3> QED BY <3>1, <3>2, Apart DEF Kind
  <2>3. CASE job[x].id = d
    <3>1. /\ Working(x) /\ job'[x].phase # "send" /\ d # NoRow /\ copies'[d] = copies[d]
          /\ UNCHANGED <<at, got, snapshot>> /\ \A y \in Sender : y # x => job'[y] = job[y]
      BY <1>1, <2>1, <2>3 DEF Marks, Working, Idle
    <3>2. Willing(d)' = Willing(d) \ {x}
      BY <2>3, <3>1, Leaves
    <3>3. CASE MarkedSent(x, d)
      <4>1. Willing(d)' \subseteq Others(x, d) /\ Others(x, d) \in SUBSET Sender
        BY <3>2 DEF Willing, Others
      <4>2. ClosedNow(d)
        BY <3>1, <3>2, <3>3, <4>1 DEF ClosedNow, MarkedSent, Touches
      <4> QED BY <4>2 DEF Kind
    <3>4. CASE MarkLost(x, d)
      <4>1. Undisturbed(d)
        BY <1>1, <3>1, <3>2, <3>4 DEF Undisturbed, MarkLost
      <4> QED BY <4>1 DEF Kind
    <3> QED BY <2>1, <2>3, <3>1, <3>3, <3>4
  <2> QED BY <2>2, <2>3
<1>13. ASSUME NEW x \in Sender, MarkFailed(x) PROVE Kind(d)
  <2>1. /\ job[x].phase = "failed" /\ \A y \in Sender : y # x => job'[y] = job[y]
        /\ copies' = copies
        /\ job[x].id = NoRow => UNCHANGED <<row, excuses>>
        /\ job[x].id # NoRow => FailureRecorded(x, job[x].id)
    BY <1>1, <1>13, MarkFailedEffect
  <2>2. \A y \in Sender : HasSent(y, d) => job'[y] = job[y]
    BY <2>1 DEF HasSent
  <2>3. CASE job[x].id # d
    BY <2>1, <2>2, <2>3, Apart DEF Kind, FailureRecorded, Touches
  <2>4. CASE job[x].id = d
    <3>1. row'[d].status # "sent" /\ excuses'[d] = excuses[d] + Reopening(d)
      BY <1>1, <2>1, <2>4 DEF FailureRecorded, Touches
    <3> QED BY <2>1, <2>2, <3>1, SentKept DEF Kind, Reopened
  <2> QED BY <2>3, <2>4
<1>14. ASSUME NEW x \in Sender, Crash(x) PROVE Kind(d)
  <2>1. Dies(x)
    BY <1>1, <1>14, CrashEffect
  <2>2. CASE HasSent(x, d)
    BY <1>1, <2>1, <2>2, WillingShrinks DEF Kind, Undisturbed, Dies
  <2>3. CASE ~HasSent(x, d)
    <3>1. \A y \in Sender : HasSent(y, d) => job'[y] = job[y]
      BY <2>1, <2>3 DEF Dies
    <3>2. excuses'[d] = excuses[d]
      BY <1>1, <2>1, <2>3 DEF Dies
    <3> QED BY <2>1, <3>1, <3>2, Apart DEF Kind, Dies
  <2> QED BY <2>2, <2>3
<1>15. CASE UNCHANGED vars
  BY <1>2, <1>15 DEF vars
<1> QED
  BY <1>3, <1>4, <1>5, <1>6, <1>7, <1>8, <1>9, <1>10, <1>11, <1>12, <1>13, <1>14, <1>15
  DEF Next

LEMMA NextPaid ==
  ASSUME OutboxAssumption, Known, CopiesPaid, [Next]_vars
  PROVE  CopiesPaid'
<1>1. TypeOK /\ TypeOK'
  BY NextTypeOK DEF Known
<1> SUFFICES ASSUME NEW c \in Call PROVE Paid(c)'
  BY DEF CopiesPaid
<1>2. Paid(c) /\ Kind(c)
  BY StepKind DEF CopiesPaid
<1> QED BY <1>1, <1>2, KindsPay DEF Kind

-----------------------------------------------------------------------------
(* Tries *)

LEMMA Left ==
  ASSUME OutboxAssumption, NEW seen \in Nat, NEW a \in Nat, seen <= a
  PROVE  /\ PendingLeft(a) \in Nat /\ ClosedLeft(a) \in Nat /\ FailedLeft(seen, a) \in Nat
         /\ PendingLeft(a + 1) \in Nat /\ ClosedLeft(a + 1) \in Nat
         /\ FailedLeft(seen, a + 1) \in Nat
         /\ PendingLeft(a + 1) <= PendingLeft(a)
         /\ ClosedLeft(a + 1) <= ClosedLeft(a) /\ ClosedLeft(a) <= PendingLeft(a)
         /\ PendingLeft(a + 1) <= ClosedLeft(a) + 1
         /\ FailedLeft(seen, a + 1) <= FailedLeft(seen, a)
         /\ 1 + FailedLeft(a, a) <= PendingLeft(a)
         /\ ClosedLeft(a) <= FailedLeft(seen, a)
         /\ PendingLeft(a) <= FailedLeft(seen, a) + 1
         /\ seen + 1 >= MaxAttempts => ClosedLeft(a + 1) = 0
         /\ ~(seen + 1 >= MaxAttempts) => PendingLeft(a + 1) = FailedLeft(seen, a)
<1>1. MaxAttempts \in Nat \ {0}
  BY DEF OutboxAssumption
<1> QED BY <1>1 DEF PendingLeft, ClosedLeft, FailedLeft

\* What a step by another sender, or by none, does to a row.
RowKept(c) ==
  /\ row'[c].status = row[c].status /\ row'[c].attempts = row[c].attempts
  /\ Budget' >= Budget

RowClosed(c) ==
  /\ row'[c].status = "sent" /\ row'[c].attempts = row[c].attempts /\ Budget' >= Budget

RowCharged(c) ==
  /\ Exists(c) /\ row'[c].status \in {"retry", "dead_lettered"}
  /\ row'[c].attempts = row[c].attempts + 1 /\ Budget' >= Budget + 1

RowMade(c) ==
  /\ row[c] = AbsentRow /\ row'[c].status = "queued" /\ row'[c].attempts = 0
  /\ Budget' >= Budget

PassKept(c) ==
  /\ tries'[c] = tries[c]
  /\ \A w \in Scheduler :
       /\ \A e \in snapshot'[w] : e.id = c => e \in snapshot[w]
       /\ job'[w].id = c => job'[w] = job[w]
  /\ Taken(c) => Taken(c)'

LEMMA Measures ==
  ASSUME TypeOK, NEW c \in Call
  PROVE  /\ row[c].attempts \in Nat /\ tries[c] \in Nat
         /\ OutboxAssumption => Budget \in Nat
         /\ \A w \in Scheduler : job[w].seen \in Nat
         /\ \A w \in Scheduler : \A e \in snapshot[w] : e.seen \in Nat /\ e.id \in Call
  BY DEF TypeOK, Row, Job, Entry, Sender, Budget, OutboxAssumption

LEMMA KeptWithin ==
  ASSUME OutboxAssumption, Known, Resting, TypeOK', NEW c \in Call, Within(c), PassKept(c),
         RowKept(c) \/ RowClosed(c) \/ RowCharged(c) \/ RowMade(c)
  PROVE  Within(c)'
<1> DEFINE a == row[c].attempts
           b == row'[c].attempts
<1>1. /\ TypeOK /\ InPass /\ a \in Nat /\ b \in Nat /\ tries[c] \in Nat /\ tries'[c] = tries[c]
      /\ Budget \in Nat /\ Budget' \in Nat /\ Budget' >= Budget
  <2>1. TypeOK /\ InPass /\ tries'[c] = tries[c]
    BY DEF Known, PassKept
  <2>2. a \in Nat /\ tries[c] \in Nat /\ Budget \in Nat
    BY <2>1, Measures
  <2>3. b \in Nat /\ Budget' \in Nat
    BY DEF TypeOK, Row, Budget, OutboxAssumption
  <2>4. Budget' >= Budget
    BY <2>2, <2>3 DEF RowKept, RowClosed, RowCharged, RowMade
  <2> QED BY <2>1, <2>2, <2>3, <2>4
<1>2. b = a \/ (b = a + 1 /\ Budget' >= Budget + 1)
  BY DEF RowKept, RowClosed, RowCharged, RowMade, AbsentRow
<1> HIDE DEF a, b
<1>3. ASSUME NEW seen \in Nat, seen <= a
      PROVE  FailedLeft(seen, b) <= FailedLeft(seen, a)
             /\ FailedLeft(seen, a) \in Nat /\ FailedLeft(seen, b) \in Nat
  <2>1. /\ FailedLeft(seen, a) \in Nat /\ FailedLeft(seen, a + 1) \in Nat
        /\ FailedLeft(seen, a + 1) <= FailedLeft(seen, a)
    BY <1>1, <1>3, Left
  <2> QED BY <1>2, <2>1
<1>4. ASSUME NEW w \in Scheduler, NEW e \in snapshot'[w], e.id = c
      PROVE  tries'[c] + 1 + FailedLeft(e.seen, b) <= Budget'
  <2>1. e \in snapshot[w] /\ e.seen \in Nat /\ e.seen <= a
    BY <1>1, <1>4, Measures DEF PassKept, InPass, a
  <2>2. tries[c] + 1 + FailedLeft(e.seen, a) <= Budget
    BY <1>4, <2>1 DEF Within, a
  <2> QED BY <1>1, <1>3, <2>1, <2>2
<1>5. ASSUME NEW w \in Scheduler, job'[w].id = c
      PROVE  /\ job'[w].phase = "send" =>
                  tries'[c] + 1 + FailedLeft(job'[w].seen, b) <= Budget'
             /\ job'[w].phase \in {"sent", "failed"} =>
                  tries'[c] + FailedLeft(job'[w].seen, b) <= Budget'
  <2>1. /\ job'[w] = job[w] /\ job[w].seen \in Nat /\ w \in Sender /\ job[w].id = c
    BY <1>1, <1>5, Measures DEF PassKept, Sender
  <2>2. Working(w) => job[w].seen <= a
    BY <1>1, <2>1 DEF InPass, a
  <2>3. /\ job[w].phase = "send" => tries[c] + 1 + FailedLeft(job[w].seen, a) <= Budget
        /\ job[w].phase \in {"sent", "failed"} =>
             tries[c] + FailedLeft(job[w].seen, a) <= Budget
    BY <2>1 DEF Within, a
  <2>4. CASE Working(w)
    BY <1>1, <1>3, <2>1, <2>2, <2>3, <2>4
  <2>5. CASE ~Working(w)
    BY <2>1, <2>5 DEF Working
  <2> QED BY <2>4, <2>5
<1>6. ASSUME ~Taken(c)'
      PROVE  tries'[c] + (IF Pending(c)' \/ ~Exists(c)' THEN PendingLeft(b) ELSE ClosedLeft(b))
               <= Budget'
  <2>1. tries[c] + (IF Pending(c) \/ ~Exists(c) THEN PendingLeft(a) ELSE ClosedLeft(a)) <= Budget
    BY <1>6 DEF PassKept, Within, a
  <2>2. /\ PendingLeft(a) \in Nat /\ ClosedLeft(a) \in Nat
        /\ PendingLeft(a + 1) \in Nat /\ ClosedLeft(a + 1) \in Nat
        /\ PendingLeft(a + 1) <= PendingLeft(a)
        /\ ClosedLeft(a + 1) <= ClosedLeft(a) /\ ClosedLeft(a) <= PendingLeft(a)
        /\ PendingLeft(a + 1) <= ClosedLeft(a) + 1
    <3>1. a <= a
      BY <1>1
    <3> QED BY <1>1, <3>1, Left
  <2>3. CASE RowKept(c)
    <3>1. b = a /\ (Pending(c)' <=> Pending(c)) /\ (Exists(c)' <=> Exists(c))
      BY <2>3 DEF RowKept, Pending, Exists, a, b
    <3> QED BY <1>1, <2>1, <2>2, <3>1
  <2>4. CASE RowClosed(c)
    <3>1. ~Pending(c)' /\ Exists(c)' /\ b = a
      BY <2>4 DEF RowClosed, Pending, Exists, a, b
    <3> QED BY <1>1, <2>1, <2>2, <3>1
  <2>5. CASE RowCharged(c)
    <3>1. b = a + 1 /\ Budget' >= Budget + 1
      BY <2>5 DEF RowCharged, a, b
    <3> QED BY <1>1, <2>1, <2>2, <3>1
  <2>6. CASE RowMade(c)
    <3>1. ~Exists(c) /\ Pending(c)' /\ b = a
      BY <2>6 DEF RowMade, AbsentRow, Exists, Pending, a, b
    <3> QED BY <1>1, <2>1, <2>2, <3>1
  <2> QED BY <2>3, <2>4, <2>5, <2>6
<1> QED BY <1>4, <1>5, <1>6 DEF Within, b

\* Steps of the calls, of the API and of the clock leave the passes alone.
LEMMA CallsWithin ==
  ASSUME OutboxAssumption, Known, Resting, [Next]_vars, NEW d \in Call, Within(d),
         \/ \E c \in Call : \/ LookUp(c) \/ Insert(c) \/ Defer(c)
                            \/ ApiSent(c) \/ ApiFailed(c) \/ Tick(c)
         \/ UNCHANGED vars
  PROVE  Within(d)'
<1>1. /\ TypeOK /\ TypeOK' /\ Scheduler \cap Call = {} /\ Direct \subseteq Call
      /\ Budget \in Nat /\ Budget' \in Nat /\ Scheduler \subseteq Sender
      /\ spent.faults \in Nat /\ spent.marks \in Nat /\ spent.deferrals \in Nat
      /\ MaxAttempts \in Nat
  BY NextTypeOK, Counters, Measures DEF Known, OutboxAssumption, Sender, TypeOK, Budget
<1>2. ASSUME UNCHANGED <<tries, snapshot>>, \A w \in Scheduler : job'[w] = job[w]
      PROVE  PassKept(d)
  BY <1>2 DEF PassKept, Taken, Working
<1>3. ASSUME NEW c \in Call, LookUp(c) PROVE Within(d)'
  <2>1. PassKept(d)
    BY <1>2, <1>3 DEF LookUp, history
  <2>2. RowKept(d)
    BY <1>1, <1>3 DEF LookUp, RowKept, Budget
  <2> QED BY <1>1, <2>1, <2>2, KeptWithin
<1>4. ASSUME NEW c \in Call, Insert(c) PROVE Within(d)'
  <2>1. c \in Direct => SameKey(c) = {}
    BY DEF OutboxAssumption, SameKey
  <2>2. PassKept(d) /\ spent' = spent
    BY <1>2, <1>4, <2>1 DEF Insert, Continue, history
  <2>3. CASE SameKey(c) = {}
    <3>1. Touches(c, "queued", 0) /\ row[c] = AbsentRow
      BY <1>1, <1>4, <2>3, InsertTouches DEF Insert, Known, Inserted
    <3>2. RowMade(d) \/ RowKept(d)
      BY <1>1, <2>2, <3>1 DEF Touches, RowMade, RowKept, Budget
    <3> QED BY <1>1, <2>2, <3>2, KeptWithin
  <2>4. CASE SameKey(c) # {}
    <3>1. RowKept(d)
      BY <1>1, <1>4, <2>2, <2>4 DEF Insert, RowKept, Budget
    <3> QED BY <1>1, <2>2, <3>1, KeptWithin
  <2> QED BY <2>3, <2>4
<1>5. ASSUME NEW c \in Call, Defer(c) PROVE Within(d)'
  <2>1. /\ got[c] \in Call /\ Exists(got[c]) /\ UNCHANGED <<snapshot, tries>>
        /\ \A y \in Sender : y # c \/ c \notin Direct => job'[y] = job[y]
        /\ UNCHANGED <<row, excuses, spent>> \/ Deferred(c)
    BY <1>1, <1>5, DeferEffect DEF Known
  <2>2. PassKept(d)
    BY <1>1, <1>2, <2>1
  <2>3. RowKept(d) \/ RowCharged(d)
    BY <1>1, <2>1 DEF Deferred, Touches, RowKept, RowCharged, Budget
  <2> QED BY <1>1, <2>2, <2>3, KeptWithin
<1>6. ASSUME NEW c \in Call, ApiSent(c) PROVE Within(d)'
  <2>1. Marked(c) /\ Touches(c, "sent", row[c].attempts)
    BY <1>1, <1>6, ApiSentEffect
  <2>2. PassKept(d)
    BY <1>2, <2>1 DEF Marked
  <2>3. RowKept(d) \/ RowClosed(d)
    BY <1>1, <2>1 DEF Marked, Touches, RowKept, RowClosed, Budget
  <2> QED BY <1>1, <2>2, <2>3, KeptWithin
<1>7. ASSUME NEW c \in Call, ApiFailed(c) PROVE Within(d)'
  <2>1. PICK status \in {"dead_lettered", "retry"} : Touches(c, status, row[c].attempts + 1)
    BY <1>1, <1>7, ApiFailedEffect
  <2>2. Marked(c) /\ Exists(c)
    BY <1>1, <1>7, ApiFailedEffect
  <2>3. PassKept(d)
    BY <1>2, <2>2 DEF Marked
  <2>4. RowKept(d) \/ RowCharged(d)
    BY <1>1, <2>1, <2>2 DEF Marked, Touches, RowKept, RowCharged, Budget
  <2> QED BY <1>1, <2>3, <2>4, KeptWithin
<1>8. ASSUME NEW c \in Call, Tick(c) PROVE Within(d)'
  <2>1. Touches(c, row[c].status, row[c].attempts) /\ spent' = spent
    BY <1>1, <1>8, TickTouches DEF Tick
  <2>2. PassKept(d)
    BY <1>2, <1>8 DEF Tick, history
  <2>3. RowKept(d)
    BY <1>1, <2>1 DEF Touches, RowKept, Budget
  <2> QED BY <1>1, <2>2, <2>3, KeptWithin
<1>9. CASE UNCHANGED vars
  <2>1. PassKept(d)
    BY <1>2, <1>9 DEF vars
  <2>2. RowKept(d)
    BY <1>1, <1>9 DEF vars, RowKept, Budget
  <2> QED BY <1>1, <2>1, <2>2, KeptWithin
<1> QED BY <1>3, <1>4, <1>5, <1>6, <1>7, <1>8, <1>9

\* A row that no pass has.
Free(c) == \A w \in Scheduler : job[w].id # c /\ \A e \in snapshot[w] : e.id # c

LEMMA FreeWithin ==
  ASSUME NEW c, Free(c)',
         tries'[c] + (IF Pending(c)' \/ ~Exists(c)' THEN PendingLeft(row'[c].attempts)
                      ELSE ClosedLeft(row'[c].attempts)) <= Budget'
  PROVE  Within(c)'
  BY DEF Free, Within

LEMMA PassWithin ==
  ASSUME OutboxAssumption, OneScheduler, Known, Resting, [Next]_vars,
         NEW d \in Call, Within(d), NEW w \in Scheduler, ListPending(w) \/ Take(w)
  PROVE  Within(d)'
<1>1. /\ TypeOK /\ TypeOK' /\ InPass /\ w \in Sender /\ \A v \in Scheduler : v = w
      /\ row[d].attempts \in Nat /\ tries[d] \in Nat /\ Budget \in Nat
      /\ Idle.id = NoRow /\ NoRow \notin Call /\ Idle.phase = "idle"
  BY NextTypeOK, Measures DEF Known, OutboxAssumption, OneScheduler, Sender, Idle
<1>2. CASE ListPending(w)
  <2>1. /\ snapshot[w] = {} /\ job[w] = Idle /\ UNCHANGED <<row, job, tries, spent>>
        /\ \A e \in snapshot'[w] : e.id \in Call /\ Pending(e.id) /\ e.seen = row[e.id].attempts
    BY <1>1, <1>2, ListEffect DEF history
  <2>2. Budget' = Budget
    BY <2>1 DEF Budget
  <2>3. ~Taken(d)
    BY <1>1, <2>1 DEF Taken, Working
  <2>4. tries[d] + (IF Pending(d) \/ ~Exists(d) THEN PendingLeft(row[d].attempts)
                    ELSE ClosedLeft(row[d].attempts)) <= Budget
    BY <2>3 DEF Within
  <2>5. ASSUME NEW e \in snapshot'[w], e.id = d
        PROVE  tries'[d] + 1 + FailedLeft(e.seen, row'[d].attempts) <= Budget'
    <3>1. Pending(d) /\ e.seen = row[d].attempts
      BY <2>1, <2>5
    <3>2. row[d].attempts <= row[d].attempts
      BY <1>1
    <3>3. /\ 1 + FailedLeft(row[d].attempts, row[d].attempts) <= PendingLeft(row[d].attempts)
          /\ FailedLeft(row[d].attempts, row[d].attempts) \in Nat
          /\ PendingLeft(row[d].attempts) \in Nat
      BY <1>1, <3>2, Left
    <3> QED BY <1>1, <2>1, <2>2, <2>4, <3>1, <3>3
  <2>6. job'[w].id # d
    BY <1>1, <2>1
  <2>7. tries'[d] + (IF Pending(d)' \/ ~Exists(d)' THEN PendingLeft(row'[d].attempts)
                     ELSE ClosedLeft(row'[d].attempts)) <= Budget'
    BY <2>1, <2>2, <2>4 DEF Pending, Exists
  <2> QED BY <1>1, <2>5, <2>6, <2>7 DEF Within
<1>3. CASE Take(w)
  <2>1. PICK e \in snapshot[w] :
          /\ job[w] = Idle /\ job'[w] = [phase |-> "send", id |-> e.id, seen |-> e.seen]
          /\ snapshot'[w] = snapshot[w] \ {e}
          /\ UNCHANGED <<row, tries, spent>>
    BY <1>1, <1>3, TakeEffect DEF history
  <2>2. Budget' = Budget /\ job'[w].id = e.id /\ job'[w].phase = "send" /\ job'[w].seen = e.seen
    BY <2>1 DEF Budget
  <2>3. CASE e.id = d
    <3>1. tries[d] + 1 + FailedLeft(e.seen, row[d].attempts) <= Budget
      BY <2>3 DEF Within
    <3>2. \A f \in snapshot'[w] : f.id # d
      BY <1>1, <2>1, <2>3 DEF InPass
    <3>3. Taken(d)'
      BY <1>1, <2>2, <2>3 DEF Taken, Working
    <3> QED BY <1>1, <2>1, <2>2, <3>1, <3>2, <3>3 DEF Within
  <2>4. CASE e.id # d
    <3>1. PassKept(d)
      BY <1>1, <2>1, <2>2, <2>4 DEF PassKept, Taken, Working
    <3>2. RowKept(d)
      BY <1>1, <2>1, <2>2 DEF RowKept
    <3> QED BY <1>1, <3>1, <3>2, KeptWithin
  <2> QED BY <2>3, <2>4
<1> QED BY <1>2, <1>3

LEMMA SenderWithin ==
  ASSUME OutboxAssumption, OneScheduler, Known, Resting, [Next]_vars,
         NEW d \in Call \ Direct, Within(d), NEW x \in Sender,
         Send(x) \/ MarkSent(x) \/ MarkFailed(x) \/ Crash(x)
  PROVE  Within(d)'
<1> DEFINE a == row[d].attempts
           seen == job[x].seen
<1>1. /\ TypeOK /\ TypeOK' /\ InPass /\ OwnRow /\ d \in Call
      /\ a \in Nat /\ seen \in Nat /\ tries[d] \in Nat
      /\ Budget \in Nat /\ Budget' \in Nat
      /\ spent.faults \in Nat /\ spent.marks \in Nat /\ spent.deferrals \in Nat
      /\ MaxAttempts \in Nat
      /\ Idle.id = NoRow /\ NoRow \notin Call /\ Idle.phase = "idle"
      /\ job[x].id \in Call \cup {NoRow}
      /\ x \in Direct \/ x \in Scheduler
  BY NextTypeOK, Measures, Counters, Jobs
  DEF Known, OutboxAssumption, OneScheduler, Sender, Idle, TypeOK, Budget
<1>2. x \in Direct => job[x].id # d /\ x \notin Scheduler
  BY <1>1 DEF OwnRow, OutboxAssumption
<1>3. \A v, w \in Scheduler : v = w
  BY DEF OneScheduler
<1>4. ASSUME UNCHANGED <<snapshot, tries>>, job[x].id # d, job'[x].id # d,
             \A y \in Sender : y # x => job'[y] = job[y]
      PROVE  PassKept(d)
  BY <1>4 DEF PassKept, Taken, Working, Sender
<1>5. ASSUME x \in Scheduler, job[x].id = d, job[x].phase # "idle"
      PROVE  /\ seen <= a /\ \A w \in Scheduler : \A e \in snapshot[w] : e.id # d
             /\ job[x].phase = "send" => tries[d] + 1 + FailedLeft(seen, a) <= Budget
             /\ job[x].phase \in {"sent", "failed"} => tries[d] + FailedLeft(seen, a) <= Budget
  BY <1>1, <1>3, <1>5 DEF InPass, Working, Within
<1>6. CASE Send(x)
  <2>1. /\ Sends(x, job[x].id) /\ row' = row
        /\ job[x].id \in Call => tries'[job[x].id] = tries[job[x].id] + 1
    BY <1>1, <1>6, SendEffect DEF Sends
  <2>2. Budget' >= Budget
    BY <1>1, <2>1 DEF Sends, Budget, TypeOK
  <2>3. CASE job[x].id # d
    <3>1. PassKept(d)
      BY <2>1, <2>3 DEF PassKept, Taken, Working, Sender, Sends
    <3>2. RowKept(d)
      BY <1>1, <2>1, <2>2 DEF RowKept
    <3> QED BY <1>1, <3>1, <3>2, KeptWithin
  <2>4. CASE job[x].id = d
    <3>1. /\ x \in Scheduler /\ job[x].phase = "send" /\ snapshot' = snapshot
          /\ job'[x].phase \in {"sent", "failed"} /\ job'[x].id = d /\ job'[x].seen = seen
      BY <1>1, <1>2, <2>1, <2>4 DEF Sends
    <3>2. seen <= a /\ FailedLeft(seen, a) \in Nat /\ tries[d] + 1 + FailedLeft(seen, a) <= Budget
      BY <1>1, <1>5, <2>4, <3>1, Left
    <3>3. tries'[d] + FailedLeft(seen, a) <= Budget'
      BY <1>1, <2>1, <2>2, <2>4, <3>2
    <3>4. Taken(d)'
      BY <3>1 DEF Taken, Working
    <3>5. \A w \in Scheduler : w = x /\ \A e \in snapshot'[w] : e.id # d
      BY <1>3, <1>5, <2>4, <3>1
    <3> QED BY <2>1, <3>1, <3>3, <3>4, <3>5 DEF Within
  <2> QED BY <2>3, <2>4
<1>7. CASE MarkSent(x)
  <2>1. /\ Marks(x, job[x].id)
        /\ job[x].id = NoRow => job'[x] = Idle /\ UNCHANGED <<row, excuses, spent>>
        /\ job[x].id # NoRow => MarkedSent(x, job[x].id) \/ MarkLost(x, job[x].id)
    BY <1>1, <1>7, MarkSentEffect
  <2>2. Budget' >= Budget /\ (MarkLost(x, job[x].id) => Budget' >= Budget + 1)
    BY <1>1, <2>1 DEF Marks, MarkLost, Budget, TypeOK
  <2>3. CASE job[x].id # d
    <3>1. PassKept(d)
      BY <1>1, <1>4, <2>1, <2>3 DEF Marks
    <3>2. RowKept(d)
      BY <1>1, <2>1, <2>2, <2>3 DEF RowKept, MarkedSent, MarkLost, Touches
    <3> QED BY <1>1, <3>1, <3>2, KeptWithin
  <2>4. CASE job[x].id = d
    <3>1. /\ x \in Scheduler /\ job[x].phase = "sent" /\ snapshot' = snapshot /\ tries' = tries
          /\ MarkedSent(x, d) \/ MarkLost(x, d)
      BY <1>1, <1>2, <2>1, <2>4 DEF Marks
    <3>2. /\ seen <= a /\ FailedLeft(seen, a) \in Nat /\ ClosedLeft(a) \in Nat
          /\ ClosedLeft(a) <= FailedLeft(seen, a) /\ tries[d] + FailedLeft(seen, a) <= Budget
      BY <1>1, <1>5, <2>4, <3>1, Left
    <3>3. \A w \in Scheduler : w = x /\ \A e \in snapshot'[w] : e.id # d
      BY <1>3, <1>5, <2>4, <3>1
    <3>4. CASE MarkedSent(x, d)
      <4>1. /\ job'[x] = Idle /\ row'[d].status = "sent" /\ row'[d].attempts = a
        BY <3>4 DEF MarkedSent, Touches
      <4>2. Free(d)'
        BY <1>1, <3>3, <4>1 DEF Free
      <4>3. ~Pending(d)' /\ Exists(d)'
        BY <4>1 DEF Pending, Exists
      <4>4. tries'[d] + ClosedLeft(a) <= Budget'
        BY <1>1, <2>2, <3>1, <3>2
      <4> QED BY <4>1, <4>2, <4>3, <4>4, FreeWithin
    <3>5. CASE MarkLost(x, d)
      <4>1. /\ row' = row /\ job'[x].phase = "failed" /\ job'[x].id = d /\ job'[x].seen = seen
        BY <1>1, <2>1, <2>4, <3>1, <3>5 DEF Marks, MarkLost
      <4>2. Taken(d)'
        BY <3>1, <4>1 DEF Taken, Working
      <4>3. tries'[d] + FailedLeft(seen, a) <= Budget'
        BY <1>1, <2>2, <3>1, <3>2
      <4> QED BY <3>3, <4>1, <4>2, <4>3 DEF Within
    <3> QED BY <3>1, <3>4, <3>5
  <2> QED BY <2>3, <2>4
<1>8. CASE MarkFailed(x)
  <2>1. /\ job[x].phase = "failed" /\ job'[x] = Idle
        /\ \A y \in Sender : y # x => job'[y] = job[y]
        /\ UNCHANGED <<at, got, snapshot, copies, tries, spent>>
        /\ job[x].id = NoRow => UNCHANGED <<row, excuses>>
        /\ job[x].id # NoRow => FailureRecorded(x, job[x].id)
    BY <1>1, <1>8, MarkFailedEffect
  <2>2. Budget' = Budget
    BY <2>1 DEF Budget
  <2>3. CASE job[x].id # d
    <3>1. PassKept(d)
      BY <1>1, <1>4, <2>1, <2>3
    <3>2. RowKept(d)
      BY <1>1, <2>1, <2>2, <2>3 DEF RowKept, FailureRecorded, Touches
    <3> QED BY <1>1, <3>1, <3>2, KeptWithin
  <2>4. CASE job[x].id = d
    <3>1. /\ x \in Scheduler /\ seen <= a /\ tries[d] + FailedLeft(seen, a) <= Budget
          /\ \A w \in Scheduler : w = x /\ \A e \in snapshot'[w] : e.id # d
      BY <1>1, <1>2, <1>3, <1>5, <2>1, <2>4
    <3>2. /\ seen + 1 >= MaxAttempts => ClosedLeft(a + 1) = 0
          /\ ~(seen + 1 >= MaxAttempts) => PendingLeft(a + 1) = FailedLeft(seen, a)
          /\ FailedLeft(seen, a) \in Nat
      BY <1>1, <3>1, Left
    <3>3. Free(d)'
      BY <1>1, <2>1, <3>1 DEF Free
    <3>4. /\ row'[d].status = IF Exhausted(x) THEN "dead_lettered" ELSE "retry"
          /\ row'[d].attempts = a + 1
          /\ Exhausted(x) <=> seen + 1 >= MaxAttempts
      BY <1>1, <2>1, <2>4, <3>1 DEF FailureRecorded, Touches, Exhausted
    <3>5. CASE Exhausted(x)
      <4>1. ~Pending(d)' /\ Exists(d)'
        BY <3>4, <3>5 DEF Pending, Exists
      <4>2. tries'[d] + ClosedLeft(a + 1) <= Budget'
        BY <1>1, <2>1, <2>2, <3>1, <3>2, <3>4, <3>5
      <4> QED BY <3>3, <3>4, <4>1, <4>2, FreeWithin
    <3>6. CASE ~Exhausted(x)
      <4>1. Pending(d)'
        BY <3>4, <3>6 DEF Pending
      <4>2. tries'[d] + PendingLeft(a + 1) <= Budget'
        BY <1>1, <2>1, <2>2, <3>1, <3>2, <3>4, <3>6
      <4> QED BY <3>3, <3>4, <4>1, <4>2, FreeWithin
    <3> QED BY <3>5, <3>6
  <2> QED BY <2>3, <2>4
<1>9. CASE Crash(x)
  <2>1. Dies(x)
    BY <1>1, <1>9, CrashEffect
  <2>2. Budget' = Budget + 1 /\ row' = row /\ tries' = tries
    BY <1>1, <2>1 DEF Dies, Budget
  <2>3. RowKept(d)
    BY <1>1, <2>2 DEF RowKept
  <2>4. CASE ~Taken(d) \/ x \in Direct
    <3>1. PassKept(d)
      BY <1>1, <1>2, <2>1, <2>2, <2>4 DEF PassKept, Taken, Dies, Working, Sender
    <3> QED BY <1>1, <2>3, <3>1, KeptWithin
  <2>5. CASE Taken(d) /\ x \in Scheduler
    <3>1. Free(d)'
      BY <1>1, <1>3, <2>1, <2>5 DEF Free, Dies
    <3>2. \E s \in Nat : s <= a /\ tries[d] + FailedLeft(s, a) <= Budget
      <4>1. CASE Working(x) /\ job[x].id = d
        <5>1. job[x].phase \in {"send", "sent", "failed"}
          BY <1>1, <4>1, Jobs DEF Working
        <5>2. seen <= a /\ FailedLeft(seen, a) \in Nat
          BY <1>1, <1>5, <2>5, <4>1, <5>1, Left
        <5>3. tries[d] + FailedLeft(seen, a) <= Budget
          BY <1>1, <1>5, <2>5, <4>1, <5>1, <5>2
        <5> QED BY <1>1, <5>2, <5>3
      <4>2. ASSUME NEW e \in snapshot[x], e.id = d
            PROVE  \E s \in Nat : s <= a /\ tries[d] + FailedLeft(s, a) <= Budget
        <5>1. /\ e.seen \in Nat /\ e.seen <= a
              /\ tries[d] + 1 + FailedLeft(e.seen, a) <= Budget
          BY <1>1, <2>5, <4>2, Measures DEF InPass, Within
        <5>2. FailedLeft(e.seen, a) \in Nat
          BY <1>1, <5>1, Left
        <5> QED BY <1>1, <5>1, <5>2
      <4> QED BY <1>3, <2>5, <4>1, <4>2 DEF Taken
    <3>3. PICK s \in Nat : s <= a /\ tries[d] + FailedLeft(s, a) <= Budget
      BY <3>2
    <3>4. /\ PendingLeft(a) \in Nat /\ ClosedLeft(a) \in Nat /\ FailedLeft(s, a) \in Nat
          /\ PendingLeft(a) <= FailedLeft(s, a) + 1 /\ ClosedLeft(a) <= PendingLeft(a)
      BY <1>1, <3>3, Left
    <3>5. tries'[d] + PendingLeft(a) <= Budget' /\ tries'[d] + ClosedLeft(a) <= Budget'
      BY <1>1, <2>2, <3>3, <3>4
    <3>6. row'[d].attempts = a
      BY <2>2
    <3> QED BY <3>1, <3>5, <3>6, FreeWithin
  <2> QED BY <1>1, <2>4, <2>5
<1> QED BY <1>6, <1>7, <1>8, <1>9

LEMMA NextTries ==
  ASSUME OutboxAssumption, OneScheduler, Known, Resting, TriesWithin, [Next]_vars
  PROVE  TriesWithin'
<1> SUFFICES ASSUME NEW c \in Call \ Direct PROVE Within(c)'
  BY DEF TriesWithin
<1>1. Within(c) /\ c \in Call
  BY DEF TriesWithin
<1>2. ASSUME NEW d \in Call, \/ LookUp(d) \/ Insert(d) \/ Defer(d)
                             \/ ApiSent(d) \/ ApiFailed(d) \/ Tick(d)
      PROVE  Within(c)'
  BY <1>1, <1>2, CallsWithin
<1>3. ASSUME NEW w \in Scheduler, ListPending(w) \/ Take(w) PROVE Within(c)'
  BY <1>1, <1>3, PassWithin
<1>4. ASSUME NEW x \in Sender, Send(x) \/ MarkSent(x) \/ MarkFailed(x) \/ Crash(x)
      PROVE  Within(c)'
  BY <1>1, <1>4, SenderWithin
<1>5. CASE UNCHANGED vars
  BY <1>1, <1>5, CallsWithin
<1> QED BY <1>2, <1>3, <1>4, <1>5 DEF Next

-----------------------------------------------------------------------------
(* The invariant, and what follows from it. *)

LEMMA InitIInv == ASSUME OutboxAssumption PROVE Init => IInv
<1> SUFFICES ASSUME Init PROVE IInv
  OBVIOUS
<1>1. CopiesPaid
  <2> SUFFICES ASSUME NEW c \in Call PROVE Paid(c)
    BY DEF CopiesPaid
  <2> QED BY DEF Paid, Init, AbsentRow
<1>2. DeadLettersEarned
  BY DEF Init, DeadLettersEarned, AbsentRow
<1> QED BY <1>1, <1>2, InitTypeOK, InitInserted, InitOwnRow, InitInPass DEF IInv

LEMMA NextIInv == ASSUME OutboxAssumption PROVE IInv /\ [Next]_vars => IInv'
<1> SUFFICES ASSUME IInv, [Next]_vars PROVE IInv'
  OBVIOUS
<1>1. Known
  BY DEF IInv, Known
<1> QED
  BY <1>1, NextTypeOK, NextInserted, NextOwnRow, NextInPass, NextResting, NextPaid,
     NextDeadLetters DEF IInv

LEMMA OutboxInvariant == ASSUME OutboxAssumption PROVE Spec => []IInv
  BY InitIInv, NextIInv, PTL DEF Spec

\* The outbox, its calls and its senders stay well-formed.
THEOREM OutboxTypeCorrect == ASSUME OutboxAssumption PROVE Spec => []TypeOK
<1>1. IInv => TypeOK
  BY DEF IInv
<1> QED BY <1>1, OutboxInvariant, PTL

\* CHANGELOG.md: "idempotent enqueue".  For any number of calls with one key: those
\* that return have one row, and one that raises leaves the message with another's.
THEOREM EnqueueOnce == ASSUME OutboxAssumption PROVE Spec => []OneRowPerKey
<1>1. ASSUME IInv, NEW c \in Call
      PROVE  /\ at[c] = "raised" => SameKey(c) # {}
             /\ at[c] \in {"defer", "returned"} /\ KeyOf[c] # NoKey => SameKey(c) = {got[c]}
  BY <1>1 DEF IInv, Inserted, SameKey
<1>2. IInv => OneRowPerKey
  BY <1>1 DEF OneRowPerKey
<1> QED BY <1>2, OutboxInvariant, PTL

\* Every message beyond the first of a row has a cause, as long as who will still send
\* it has paid for it.
LEMMA MessagesHaveCauses == ASSUME OutboxAssumption PROVE Spec => []CopiesExplained
<1>1. ASSUME IInv, NEW c \in Call
      PROVE  copies[c] <= excuses[c] + IF row[c].status = "sent" \/ Sent(c) THEN 1 ELSE 0
  <2>1. Paid(c) /\ copies[c] \in Nat /\ excuses[c] \in Nat
    BY <1>1, Counters DEF IInv, CopiesPaid
  <2>2. Cardinality(Willing(c)) \in Nat
    BY SendersFinite DEF Willing
  <2> QED BY <2>1, <2>2 DEF Paid
<1>2. IInv => CopiesExplained
  BY <1>1 DEF CopiesExplained, Sent
<1> QED BY <1>2, OutboxInvariant, PTL

\* However many senders work on the outbox, calls with one key have one row, and every
\* message beyond the first of a row has a cause: a provider that delivered and raised, a
\* mark or a process that was lost, a row that left "sent", or senders that overlapped.
THEOREM RepeatsHaveCauses == ASSUME OutboxAssumption PROVE Spec => []RepeatsExplained
BY EnqueueOnce, MessagesHaveCauses, PTL DEF RepeatsExplained

\* A dead letter has used up its attempts, or the API declared it dead: a row is closed
\* on the count that was listed, and the count never falls behind it.
THEOREM DeadLettersLate == ASSUME OutboxAssumption PROVE Spec => []DeadLettersEarned
<1>1. IInv => DeadLettersEarned
  BY DEF IInv
<1> QED BY <1>1, OutboxInvariant, PTL

LEMMA InitTries == ASSUME OutboxAssumption PROVE Init => TriesWithin
<1> SUFFICES ASSUME Init, NEW c \in Call PROVE Within(c)
  BY DEF TriesWithin
<1>1. /\ Free(c) /\ row[c].attempts = 0 /\ ~Exists(c) /\ tries[c] = 0
      /\ MaxAttempts \in Nat \ {0} /\ Budget = MaxAttempts + 0 + 0 + 0
  BY DEF Init, Free, Idle, AbsentRow, Exists, Budget, OutboxAssumption, Sender
<1>2. PendingLeft(0) = MaxAttempts
  BY <1>1 DEF PendingLeft
<1> QED BY <1>1, <1>2 DEF Free, Within

\* Under one scheduler the sends that are started stay within what each row has left.
LEMMA TriesEnd ==
  ASSUME OutboxAssumption, OneScheduler
  PROVE  Spec => []TriesBounded
<1>1. Init => IInv /\ TriesWithin
  BY InitIInv, InitTries
<1>2. IInv /\ TriesWithin /\ [Next]_vars => (IInv /\ TriesWithin)'
  <2> SUFFICES ASSUME IInv, TriesWithin, [Next]_vars PROVE IInv' /\ TriesWithin'
    OBVIOUS
  <2>1. Known /\ Resting
    BY DEF IInv, Known
  <2> QED BY <2>1, NextIInv, NextTries
<1>3. IInv /\ TriesWithin => TriesBounded
  <2> SUFFICES ASSUME IInv, NEW c \in Call \ Direct, Within(c)
               PROVE  tries[c] <= Budget
    BY DEF TriesWithin, TriesBounded, Budget
  <2> DEFINE a == row[c].attempts
  <2>1. /\ TypeOK /\ InPass /\ a \in Nat /\ tries[c] \in Nat /\ Budget \in Nat
        /\ Scheduler \subseteq Sender
    BY Measures DEF IInv, Sender
  <2>2. ASSUME NEW w \in Scheduler, NEW e \in snapshot[w], e.id = c PROVE tries[c] <= Budget
    <3>1. e.seen \in Nat /\ e.seen <= a /\ tries[c] + 1 + FailedLeft(e.seen, a) <= Budget
      BY <2>1, <2>2, Measures DEF InPass, Within
    <3>2. FailedLeft(e.seen, a) \in Nat
      BY <2>1, <3>1, Left
    <3> QED BY <2>1, <3>1, <3>2
  <2>3. ASSUME NEW w \in Scheduler, Working(w), job[w].id = c PROVE tries[c] <= Budget
    <3>1. job[w].seen \in Nat /\ job[w].seen <= a /\ job[w].phase \in {"send", "sent", "failed"}
      BY <2>1, <2>3, Jobs DEF InPass, Working
    <3>2. FailedLeft(job[w].seen, a) \in Nat
      BY <2>1, <3>1, Left
    <3> QED BY <2>1, <2>3, <3>1, <3>2 DEF Within
  <2>4. CASE ~Taken(c)
    <3>1. a <= a
      BY <2>1
    <3>2. PendingLeft(a) \in Nat /\ ClosedLeft(a) \in Nat
      BY <2>1, <3>1, Left
    <3> QED BY <2>1, <2>4, <3>2 DEF Within
  <2> QED BY <2>2, <2>3, <2>4 DEF Taken
<1> QED BY <1>1, <1>2, <1>3, PTL DEF Spec

\* Under the one scheduler that the runner starts, a row is sent MaxAttempts times at
\* most, and once more for each fault, mark and deferral; and a dead letter has used up
\* its attempts.
THEOREM RetriesEnd ==
  ASSUME OutboxAssumption, OneScheduler
  PROVE  Spec => []RetriesLimited
BY TriesEnd, DeadLettersLate, PTL DEF RetriesLimited

-----------------------------------------------------------------------------
(* The guard of outgoing mail *)

CONSTANTS Mailer, PerSecond, Cooldown, FailureCooldown, Window, MaxPerWindow, MaxKeys,
          RetryAfters, MaxWait, MaxTime, MaxCrashes, WritesDie
VARIABLES entries, torn, sender, mails, now, crashes

Mail == INSTANCE EmailGuard WITH Sender <- Mailer, history <- mails

\* An attempt of the file.
Written == [by : Mailer, at : 0..MaxTime, status : Mail!Statuses, done : 0..MaxTime,
            retry : RetryAfters \cup {0}]
\* An attempt that was made.
Made == [by : Mailer, at : 0..MaxTime, status : Mail!Statuses, until : Nat]

Rising(a) == \A i, j \in DOMAIN a : i < j => a[i].at <= a[j].at

\* r is what a has after its first d.
Ending(r, a, d) ==
  /\ Len(r) = Len(a) - d
  /\ \A i \in 1..Len(r) : r[i] = a[i + d]

\* Of two products by the same number the one of the smaller is not the greater one.
LEMMA TimesGrows ==
  ASSUME NEW p \in Nat, NEW x \in Nat, NEW y \in Nat, x <= y
  PROVE  p * x \in Nat /\ p * y \in Nat /\ p * x <= p * y
<1>1. p * (y - x) >= 0 /\ y - x \in Nat
  BY SMT
<1>2. p * y = p * x + p * (y - x)
  BY SMT
<1> QED BY <1>1, <1>2, SMT

LEMMA LeastNat ==
  ASSUME NEW S \in SUBSET Nat, S # {}
  PROVE  \E m \in S : \A x \in S : m <= x
<1>1. \E m \in S : \A x \in S : ~(<<x, m>> \in OpToRel(<, Nat))
  BY NatLessThanWellFounded, WFMin
<1>2. PICK m \in S : \A x \in S : ~(<<x, m>> \in OpToRel(<, Nat))
  BY <1>1
<1>3. ASSUME NEW x \in S PROVE m <= x
  <2>1. x \in Nat /\ m \in Nat /\ ~(<<x, m>> \in OpToRel(<, Nat))
    BY <1>2
  <2>2. ~(x < m)
    BY <2>1 DEF OpToRel
  <2>3. x \in Nat /\ m \in Nat
    OBVIOUS
  <2> QED BY <2>2, <2>3
<1> QED BY <1>3

LEMMA GreatestNat ==
  ASSUME NEW S \in SUBSET Nat, S # {}, NEW b \in Nat, \A x \in S : x <= b
  PROVE  \E m \in S : \A x \in S : x <= m
<1> DEFINE B == {u \in Nat : \A x \in S : x <= u}
<1>1. PICK u \in B : \A v \in B : u <= v
  <2> B \in SUBSET Nat /\ B # {}
    OBVIOUS
  <2> HIDE DEF B
  <2> QED BY LeastNat
<1>2. u \in S
  <2> SUFFICES ASSUME u \notin S PROVE FALSE
    OBVIOUS
  <2>1. PICK x \in S : TRUE
    OBVIOUS
  <2>2. x < u /\ x \in Nat /\ u \in Nat
    BY <2>1
  <2>3. u - 1 \in B
    BY <2>2
  <2> QED BY <1>1, <2>2, <2>3
<1> QED BY <1>2

LEMMA WrittenAt ==
  ASSUME Mail!GuardAssumption, NEW a \in Seq(Written)
  PROVE  \A n \in DOMAIN a : a[n] \in Written /\ a[n].at \in Nat
<1>1. \A n \in DOMAIN a : a[n] \in Written
  OBVIOUS
<1>2. \A e \in Written : e.at \in Nat
  BY DEF Written, Mail!GuardAssumption
<1> QED BY <1>1, <1>2

LEMMA WindowNat == Mail!GuardAssumption => PerSecond * Window \in Nat
<1>1. Mail!GuardAssumption => PerSecond \in Nat /\ Window \in Nat
  BY DEF Mail!GuardAssumption
<1> QED BY <1>1, TimesGrows

LEMMA SameCardinality ==
  ASSUME NEW S PROVE Mail!Cardinality(S) = Cardinality(S)
BY DEF Mail!Cardinality, Cardinality, Mail!IsFiniteSet

\* What is kept of attempts that are in the order of their times is the end of them.
LEMMA KeptIsEnd ==
  ASSUME Mail!GuardAssumption, NEW a \in Seq(Written), Rising(a), NEW t \in Nat
  PROVE  \E d \in 0..Len(a) :
           {n \in DOMAIN a : a[n].at + PerSecond * Window >= t} = (d + 1)..Len(a)
<1> DEFINE w == PerSecond * Window
           D == {d \in Nat : d <= Len(a) /\ \A n \in DOMAIN a : d < n => a[n].at + w >= t}
<1>1. w \in Nat /\ Len(a) \in Nat /\ DOMAIN a = 1..Len(a) /\ t \in Nat
  BY WindowNat
<1>2. \A n \in DOMAIN a : a[n].at \in Nat
  BY <1>1, WrittenAt
<1> HIDE DEF w
<1>3. PICK d \in D : \A e \in D : d <= e
  <2>1. Len(a) \in D
    BY <1>1
  <2> D \in SUBSET Nat /\ D # {}
    BY <2>1
  <2> HIDE DEF D
  <2> QED BY LeastNat
<1>4. d \in Nat /\ d <= Len(a) /\ \A n \in DOMAIN a : d < n => a[n].at + w >= t
  BY <1>3
<1>5. ASSUME d # 0 PROVE a[d].at + w < t
  <2>1. SUFFICES ASSUME ~(a[d].at + w < t) PROVE FALSE
    OBVIOUS
  <2>2. d \in DOMAIN a /\ a[d].at + w >= t
    BY <1>1, <1>2, <1>4, <1>5, <2>1
  <2>3. ASSUME NEW n \in DOMAIN a, d - 1 < n PROVE a[n].at + w >= t
    BY <1>1, <1>4, <2>2, <2>3
  <2>4. d - 1 \in D
    BY <1>1, <1>4, <1>5, <2>3
  <2> QED BY <1>3, <1>4, <2>4
<1>6. ASSUME NEW n \in DOMAIN a, n <= d PROVE a[n].at + w < t
  <2>1. d # 0 /\ d \in DOMAIN a /\ n \in Nat
    BY <1>1, <1>4, <1>6
  <2>2. a[n].at <= a[d].at
    BY <1>2, <1>4, <1>6, <2>1 DEF Rising
  <2> QED BY <1>1, <1>2, <1>5, <2>1, <2>2
<1>7. {n \in DOMAIN a : a[n].at + w >= t} = (d + 1)..Len(a)
  BY <1>1, <1>2, <1>4, <1>6
<1> QED BY <1>1, <1>4, <1>7 DEF w

LEMMA RecentEnds ==
  ASSUME Mail!GuardAssumption, NEW a \in Seq(Written), Rising(a), NEW t \in Nat
  PROVE  LET r == Mail!Recent(a, t) IN
         /\ r \in Seq(Written)
         /\ \E d \in 0..Len(a) :
              /\ Ending(r, a, d)
              /\ \A n \in DOMAIN a : n <= d <=> a[n].at + PerSecond * Window < t
<1> DEFINE kept == {n \in DOMAIN a : a[n].at + PerSecond * Window >= t}
           Place(i) == Cardinality({j \in kept : j <= i})
<1>1. PICK d \in 0..Len(a) : kept = (d + 1)..Len(a)
  BY KeptIsEnd
<1>2. Mail!Recent(a, t) = [n \in 1..Cardinality(kept) |-> a[CHOOSE i \in kept : Place(i) = n]]
  BY DEF Mail!Recent, Mail!Cardinality, Cardinality, Mail!IsFiniteSet
<1>3. Len(a) \in Nat /\ d \in Nat /\ d <= Len(a) /\ DOMAIN a = 1..Len(a)
  BY <1>1
<1>4. PerSecond * Window \in Nat /\ \A n \in DOMAIN a : a[n].at \in Nat
  BY WindowNat, WrittenAt
<1>5. \A n \in DOMAIN a : n <= d <=> a[n].at + PerSecond * Window < t
  <2> TAKE n \in DOMAIN a
  <2>1. n \in kept <=> d < n
    BY <1>1, <1>3
  <2>2. n \in kept <=> a[n].at + PerSecond * Window >= t
    OBVIOUS
  <2> DEFINE w == PerSecond * Window
  <2>3. w \in Nat /\ a[n].at \in Nat /\ n \in Nat
    BY <1>3, <1>4
  <2> HIDE DEF kept, w
  <2>4. n \in kept <=> a[n].at + w >= t
    BY <2>2 DEF w
  <2>5. n <= d <=> a[n].at + w < t
    BY <1>3, <2>1, <2>3, <2>4
  <2> QED BY <2>5 DEF w
<1> HIDE DEF kept
<1>6. Cardinality(kept) = Len(a) - d
  <2>1. d + 1 \in Int /\ Len(a) \in Int
    BY <1>3
  <2>2. Cardinality((d + 1)..Len(a)) = IF d + 1 > Len(a) THEN 0 ELSE Len(a) - (d + 1) + 1
    BY <2>1, FS_Interval
  <2> QED BY <1>1, <1>3, <2>2
<1>7. ASSUME NEW i \in kept PROVE Place(i) = i - d
  <2>1. {j \in kept : j <= i} = (d + 1)..i
    BY <1>1, <1>3
  <2>2. Cardinality((d + 1)..i) = i - d
    BY <1>1, <1>3, FS_Interval
  <2> QED BY <2>1, <2>2
<1> HIDE DEF Place
<1>8. ASSUME NEW n \in 1..(Len(a) - d) PROVE (CHOOSE i \in kept : Place(i) = n) = n + d
  <2>1. n + d \in kept
    BY <1>1, <1>3
  <2>2. \A i \in kept : Place(i) = n <=> i = n + d
    BY <1>1, <1>3, <1>7
  <2> QED BY <2>1, <2>2
<1> DEFINE r == Mail!Recent(a, t)
<1>9. r = [n \in 1..(Len(a) - d) |-> a[n + d]]
  BY <1>2, <1>6, <1>8
<1> HIDE DEF r
<1>10. \A n \in 1..(Len(a) - d) : n + d \in DOMAIN a /\ a[n + d] \in Written
  BY <1>3
<1>11. Len(a) - d \in Nat
  BY <1>3
<1>12. r \in Seq(Written) /\ Len(r) = Len(a) - d
  BY <1>9, <1>10, <1>11
<1>13. Ending(r, a, d)
  BY <1>9, <1>12 DEF Ending
<1> QED BY <1>1, <1>5, <1>12, <1>13 DEF r

-----------------------------------------------------------------------------
(* The file *)

Post == [at : {"idle", "reserve", "send"}, key : Key \cup {NoKey}, read : 0..MaxTime]

\* The attempts of a key at time n.
Orderly(a, n) ==
  /\ Rising(a)
  /\ \A i \in DOMAIN a : a[i].at <= n /\ (a[i].done > 0 => a[i].at <= a[i].done)

\* A sender at time n.
Waits(p, n) ==
  /\ p.at # "idle" => p.key \in Key
  /\ p.at = "reserve" => p.read <= n /\ n <= p.read + MaxWait

\* A file, and senders, at time n.
FileOk(f, n) == f \in [Key -> Seq(Written)] /\ \A k \in Key : Orderly(f[k], n)
SendersOk(q, n) == q \in [Mailer -> Post] /\ \A s \in Mailer : Waits(q[s], n)

\* The file is in order, and its attempts and the senders are not ahead of the clock.
FileInv ==
  /\ FileOk(entries, now)
  /\ SendersOk(sender, now)
  /\ mails \in [Key -> Seq(Made)]
  /\ torn \in BOOLEAN
  /\ now \in 0..MaxTime
  /\ crashes \in 0..MaxCrashes

LEMMA EndOrderly ==
  ASSUME NEW a \in Seq(Written), NEW r \in Seq(Written), NEW d \in 0..Len(a), NEW n,
         Ending(r, a, d), Orderly(a, n)
  PROVE  Orderly(r, n)
<1>1. \A i \in DOMAIN r : i \in 1..Len(r) /\ i + d \in DOMAIN a /\ r[i] = a[i + d]
  BY DEF Ending
<1>2. ASSUME NEW i \in DOMAIN r, NEW j \in DOMAIN r, i < j PROVE r[i].at <= r[j].at
  <2>1. i + d \in DOMAIN a /\ j + d \in DOMAIN a /\ i + d < j + d
    BY <1>1, <1>2
  <2>2. a[i + d].at <= a[j + d].at
    BY <2>1 DEF Orderly, Rising
  <2> QED BY <1>1, <2>2
<1>3. ASSUME NEW i \in DOMAIN r PROVE r[i].at <= n /\ (r[i].done > 0 => r[i].at <= r[i].done)
  <2>1. i + d \in DOMAIN a /\ r[i] = a[i + d]
    BY <1>1
  <2> QED BY <2>1 DEF Orderly
<1> QED BY <1>2, <1>3 DEF Orderly, Rising

LEMMA RecentOrderly ==
  ASSUME Mail!GuardAssumption, NEW a \in Seq(Written), NEW n, NEW t \in Nat, Orderly(a, n)
  PROVE  Mail!Recent(a, t) \in Seq(Written) /\ Orderly(Mail!Recent(a, t), n)
<1> DEFINE r == Mail!Recent(a, t)
<1>1. Rising(a)
  BY DEF Orderly
<1>2. r \in Seq(Written) /\ \E d \in 0..Len(a) : Ending(r, a, d)
  BY <1>1, RecentEnds
<1> HIDE DEF r
<1>3. Orderly(r, n)
  BY <1>2, EndOrderly
<1> QED BY <1>2, <1>3 DEF r

\* What pruning leaves of a key: what is recent, or nothing.
LEMMA PrunedOrNone ==
  ASSUME NEW e, NEW f \in Mail!Pruned(e)
  PROVE  /\ f = [k \in Key |-> f[k]]
         /\ \A k \in Key : f[k] = Mail!Recent(e[k], now) \/ f[k] = <<>>
<1> DEFINE recent == [k \in Key |-> Mail!Recent(e[k], now)]
<1>1. PICK kept : f = [k \in Key |-> IF k \in kept THEN recent[k] ELSE <<>>]
  BY DEF Mail!Pruned
<1>2. \A k \in Key : recent[k] = Mail!Recent(e[k], now)
  OBVIOUS
<1> HIDE DEF recent
<1> QED BY <1>1, <1>2

LEMMA PrunedOrderly ==
  ASSUME Mail!GuardAssumption, now \in 0..MaxTime, NEW e, FileOk(e, now), NEW f \in Mail!Pruned(e)
  PROVE  FileOk(f, now)
<1>1. now \in Nat /\ e \in [Key -> Seq(Written)] /\ \A k \in Key : Orderly(e[k], now)
  BY DEF FileOk, Mail!GuardAssumption
<1>2. ASSUME NEW k \in Key PROVE f[k] \in Seq(Written) /\ Orderly(f[k], now)
  <2>1. CASE f[k] = Mail!Recent(e[k], now)
    <3>1. e[k] \in Seq(Written) /\ Orderly(e[k], now)
      BY <1>1
    <3>2. Mail!Recent(e[k], now) \in Seq(Written) /\ Orderly(Mail!Recent(e[k], now), now)
      BY <1>1, <3>1, RecentOrderly
    <3> QED BY <2>1, <3>2
  <2>2. CASE f[k] = <<>>
    BY <2>2 DEF Orderly, Rising
  <2> QED BY <2>1, <2>2, PrunedOrNone
<1>3. f = [k \in Key |-> f[k]]
  BY PrunedOrNone
<1> QED BY <1>2, <1>3 DEF FileOk

LEMMA AppendOrderly ==
  ASSUME Mail!GuardAssumption, NEW a \in Seq(Written), NEW x \in Written, NEW n \in Nat,
         Orderly(a, n), x.at <= n, x.done = 0, a # <<>> => a[Len(a)].at <= x.at
  PROVE  Append(a, x) \in Seq(Written) /\ Orderly(Append(a, x), n)
<1> DEFINE b == Append(a, x)
<1>1. /\ b \in Seq(Written) /\ Len(b) = Len(a) + 1 /\ DOMAIN b = 1..(Len(a) + 1)
      /\ DOMAIN a = 1..Len(a) /\ Len(a) \in Nat
      /\ \A i \in DOMAIN a : b[i] = a[i]
      /\ b[Len(a) + 1] = x
  OBVIOUS
<1>2. /\ \A i \in DOMAIN a : a[i].at \in Nat
      /\ x.at \in Nat
  <2>1. \A i \in DOMAIN a : a[i].at \in Nat
    BY WrittenAt
  <2>2. x.at \in Nat
    BY DEF Written, Mail!GuardAssumption
  <2> QED BY <2>1, <2>2
<1> HIDE DEF b
<1>3. ASSUME NEW i \in DOMAIN a PROVE a[i].at <= x.at
  <2>1. Len(a) \in DOMAIN a /\ a # <<>> /\ i \in Nat /\ i <= Len(a)
    BY <1>1
  <2>2. a[i].at <= a[Len(a)].at
    <3>1. i < Len(a) => a[i].at <= a[Len(a)].at
      BY <2>1 DEF Orderly, Rising
    <3>2. i = Len(a) => a[i].at <= a[Len(a)].at
      BY <1>2, <2>1
    <3> QED BY <1>1, <2>1, <3>1, <3>2
  <2> QED BY <1>2, <2>1, <2>2
<1>4. ASSUME NEW i \in DOMAIN b, NEW j \in DOMAIN b, i < j PROVE b[i].at <= b[j].at
  <2>1. i \in DOMAIN a /\ b[i] = a[i]
    BY <1>1, <1>4
  <2>2. CASE j \in DOMAIN a
    BY <1>1, <1>4, <2>1, <2>2 DEF Orderly, Rising
  <2>3. CASE j = Len(a) + 1
    BY <1>1, <1>3, <2>1, <2>3
  <2> QED BY <1>1, <2>2, <2>3
<1>5. ASSUME NEW i \in DOMAIN b PROVE b[i].at <= n /\ (b[i].done > 0 => b[i].at <= b[i].done)
  <2>1. CASE i \in DOMAIN a
    BY <1>1, <2>1 DEF Orderly
  <2>2. CASE i = Len(a) + 1
    BY <1>1, <2>2
  <2> QED BY <1>1, <2>1, <2>2
<1> QED BY <1>1, <1>4, <1>5 DEF Orderly, Rising, b

LEMMA CooldownLong ==
  ASSUME Mail!GuardAssumption, NEW a \in Written
  PROVE  Mail!CooldownOf(a) \in Nat /\ Mail!CooldownOf(a) >= PerSecond
<1> DEFINE c == IF a.status = "failed"
                THEN Mail!Least(Window, Mail!Most(Mail!Least(FailureCooldown, Cooldown), a.retry))
                ELSE Cooldown
<1>1. a.retry \in Nat
  <2>1. a.retry \in RetryAfters \cup {0}
    BY DEF Written
  <2>2. \A r \in RetryAfters : r \in Nat
    BY DEF Mail!GuardAssumption
  <2>3. a.retry \in RetryAfters \/ a.retry = 0
    BY <2>1
  <2> QED BY <2>2, <2>3
<1>2. c \in Nat /\ 1 <= c /\ PerSecond \in Nat
  BY <1>1 DEF Mail!Least, Mail!Most, Mail!GuardAssumption
<1>3. Mail!CooldownOf(a) = PerSecond * c
  BY DEF Mail!CooldownOf
<1> HIDE DEF c
<1>4. PerSecond * c \in Nat /\ PerSecond * 1 <= PerSecond * c
  BY <1>2, TimesGrows
<1>5. PerSecond * 1 = PerSecond
  BY <1>2
<1> QED BY <1>2, <1>3, <1>4, <1>5

\* A sender that is not refused begins after the newest attempt of the file.
LEMMA AdmittedLater ==
  ASSUME Mail!GuardAssumption, NEW a \in Seq(Written), NEW t \in Nat, ~Mail!Refused(a, t), a # <<>>
  PROVE  a[Len(a)] \in Written /\ a[Len(a)].at < t
         /\ a[Len(a)].at + Mail!CooldownOf(a[Len(a)]) < t + PerSecond
<1>1. Len(a) \in DOMAIN a
  OBVIOUS
<1>2. a[Len(a)] \in Written /\ a[Len(a)].at \in Nat
  BY <1>1, WrittenAt
<1>3. Mail!Last(a) = a[Len(a)]
  BY DEF Mail!Last
<1>4. ~(a[Len(a)].at + Mail!CooldownOf(a[Len(a)]) >= t + PerSecond)
  BY <1>3 DEF Mail!Refused, Mail!CoolingDown
<1>5. PerSecond \in Nat
  BY DEF Mail!GuardAssumption
<1> QED BY <1>2, <1>4, <1>5, CooldownLong

Starts(a, s) == {i \in DOMAIN a : a[i].by = s /\ a[i].status = "started"}

LEMMA OwnIs ==
  ASSUME NEW S, NEW a \in Seq(S), NEW s
  PROVE  LET n == Mail!Own(a, s) IN
         \/ n = 0 /\ Starts(a, s) = {}
         \/ n \in Starts(a, s) /\ \A i \in Starts(a, s) : i <= n
<1>1. DOMAIN a = 1..Len(a) /\ Len(a) \in Nat
  OBVIOUS
<1>2. Mail!Own(a, s) = IF Starts(a, s) # {} THEN Mail!Max(Starts(a, s)) ELSE 0
  BY <1>1 DEF Mail!Own, Mail!SelectLastInSeq, Starts
<1>3. ASSUME Starts(a, s) # {}
      PROVE  \E m \in Starts(a, s) : \A i \in Starts(a, s) : i <= m
  <2>1. Starts(a, s) \in SUBSET Nat /\ \A i \in Starts(a, s) : i <= Len(a)
    BY <1>1 DEF Starts
  <2> QED BY <1>1, <1>3, <2>1, GreatestNat
<1>4. ASSUME Starts(a, s) # {}
      PROVE  LET n == Mail!Max(Starts(a, s)) IN
             n \in Starts(a, s) /\ \A i \in Starts(a, s) : i <= n
  <2>1. Starts(a, s) \subseteq Int
    BY <1>1 DEF Starts
  <2>2. PICK m \in Starts(a, s) : \A i \in Starts(a, s) : i <= m
    BY <1>3, <1>4
  <2>3. \A i \in Starts(a, s) : m >= i
    BY <2>1, <2>2
  <2>4. LET n == Mail!Max(Starts(a, s)) IN
        n \in Starts(a, s) /\ \A i \in Starts(a, s) : n >= i
    BY <2>3 DEF Mail!Max
  <2> QED BY <2>1, <2>4
<1> QED BY <1>2, <1>4

LEMMA WrittenChanged ==
  ASSUME NEW x \in Written, NEW status, NEW done, NEW retry
  PROVE  [[[x EXCEPT !.status = status] EXCEPT !.done = done] EXCEPT !.retry = retry]
           = [by |-> x.by, at |-> x.at, status |-> status, done |-> done, retry |-> retry]
<1> DEFINE y == [x EXCEPT !.status = status]
           z == [y EXCEPT !.done = done]
<1>1. x = [by |-> x.by, at |-> x.at, status |-> x.status, done |-> x.done, retry |-> x.retry]
  BY DEF Written
<1>2. y = [by |-> x.by, at |-> x.at, status |-> status, done |-> x.done, retry |-> x.retry]
  BY <1>1
<1> HIDE DEF y
<1>3. z = [by |-> x.by, at |-> x.at, status |-> status, done |-> done, retry |-> x.retry]
  BY <1>2
<1> HIDE DEF z
<1>4. [z EXCEPT !.retry = retry]
        = [by |-> x.by, at |-> x.at, status |-> status, done |-> done, retry |-> retry]
  BY <1>3
<1> QED BY <1>4 DEF y, z

LEMMA FinishedIs ==
  ASSUME NEW S, NEW a \in Seq(S), NEW s, NEW status, NEW wait,
         \A i \in DOMAIN a : a[i] \in Written
  PROVE  LET n == Mail!Own(a, s)
             r == Mail!Finished(a, s, status, wait) IN
         /\ n \notin DOMAIN a => r = a
         /\ n \in DOMAIN a =>
              r = [i \in DOMAIN a |->
                     IF i = n THEN [by |-> a[i].by, at |-> a[i].at, status |-> status,
                                    done |-> now, retry |-> wait]
                     ELSE a[i]]
<1> DEFINE n == Mail!Own(a, s)
           r == Mail!Finished(a, s, status, wait)
<1>1. 0 \notin DOMAIN a
  OBVIOUS
<1>2. n \notin DOMAIN a => n = 0
  BY OwnIs DEF Starts
<1>3. r = IF n = 0 THEN a
          ELSE [a EXCEPT ![n].status = status, ![n].done = now, ![n].retry = wait]
  BY DEF Mail!Finished
<1> HIDE DEF n, r
<1>4. n \notin DOMAIN a => r = a
  BY <1>2, <1>3
<1>5. ASSUME n \in DOMAIN a
      PROVE  r = [i \in DOMAIN a |->
                    IF i = n THEN [by |-> a[i].by, at |-> a[i].at, status |-> status,
                                   done |-> now, retry |-> wait]
                    ELSE a[i]]
  <2>1. a[n] \in Written
    BY <1>5
  <2>2. [[[a[n] EXCEPT !.status = status] EXCEPT !.done = now] EXCEPT !.retry = wait]
          = [by |-> a[n].by, at |-> a[n].at, status |-> status, done |-> now, retry |-> wait]
    BY <2>1, WrittenChanged
  <2>3. a = [i \in DOMAIN a |-> a[i]]
    OBVIOUS
  <2> QED BY <1>1, <1>3, <1>5, <2>2, <2>3
<1> QED BY <1>4, <1>5 DEF n, r

LEMMA LeaveOk ==
  ASSUME Mail!GuardAssumption, NEW n, NEW s, SendersOk(sender, n), Mail!Leave(s)
  PROVE  SendersOk(sender', n)
<1>1. Mail!Idle \in Post /\ Waits(Mail!Idle, n)
  BY DEF Mail!Idle, Post, Waits, Mail!GuardAssumption
<1> HIDE DEF Post
<1>2. sender' = [sender EXCEPT ![s] = Mail!Idle]
  BY DEF Mail!Leave
<1> QED BY <1>1, <1>2 DEF SendersOk

\* A reservation that is made, by s for k under the time t, in the file e.
Reserved(s, k, t, e) ==
  LET a == Mail!Recent(e[k], t) IN
  /\ e \in Mail!Pruned(entries)
  /\ ~Mail!Refused(a, t)
  /\ entries' \in Mail!Pruned([e EXCEPT ![k] =
       Append(a, [by |-> s, at |-> t, status |-> "started", done |-> 0, retry |-> 0])])
  /\ mails' = [mails EXCEPT ![k] =
       Append(@, [by |-> s, at |-> now, status |-> "started", until |-> 0])]
  /\ sender' = [sender EXCEPT ![s].at = "send"]

LEMMA ReserveCases ==
  ASSUME NEW s, Mail!Reserve(s)
  PROVE  /\ sender[s].at = "reserve"
         /\ torn' = torn /\ now' = now /\ crashes' = crashes
         /\ \/ Mail!Leave(s) /\ entries' = entries /\ mails' = mails
            \/ \E e : Reserved(s, sender[s].key, sender[s].read, e)
BY DEF Mail!Reserve, Reserved

LEMMA ReservedOk ==
  ASSUME Mail!GuardAssumption, FileInv, NEW s \in Mailer, NEW e, sender[s].at = "reserve",
         Reserved(s, sender[s].key, sender[s].read, e)
  PROVE  LET k == sender[s].key
             t == sender[s].read
             x == [by |-> s, at |-> t, status |-> "started", done |-> 0, retry |-> 0] IN
         /\ FileOk(e, now)
         /\ FileOk([e EXCEPT ![k] = Append(Mail!Recent(e[k], t), x)], now)
         /\ FileOk(entries', now)
         /\ SendersOk(sender', now)
         /\ mails' \in [Key -> Seq(Made)]
<1> DEFINE k == sender[s].key
           t == sender[s].read
           a == Mail!Recent(e[k], t)
           x == [by |-> s, at |-> t, status |-> "started", done |-> 0, retry |-> 0]
<1>1. /\ sender \in [Mailer -> Post] /\ sender[s] \in Post /\ Waits(sender[s], now)
      /\ now \in 0..MaxTime
  BY DEF FileInv, SendersOk
<1>2. /\ k \in Key /\ t \in 0..MaxTime /\ t \in Nat /\ now \in Nat
      /\ t <= now /\ now <= t + MaxWait
  BY <1>1 DEF Post, Waits, Mail!GuardAssumption
<1>3. FileOk(e, now)
  BY PrunedOrderly DEF Reserved, FileInv
<1>4. e[k] \in Seq(Written) /\ Orderly(e[k], now)
  BY <1>2, <1>3 DEF FileOk
<1> HIDE DEF k, t
<1>5. a \in Seq(Written) /\ Orderly(a, now)
  BY <1>2, <1>4, RecentOrderly
<1>6. ~Mail!Refused(a, t) /\ entries' \in Mail!Pruned([e EXCEPT ![k] = Append(a, x)])
  BY DEF Reserved, k, t
<1> HIDE DEF a
<1>7. a # <<>> => a[Len(a)].at <= t
  <2>1. a # <<>> => a[Len(a)] \in Written /\ a[Len(a)].at < t
    BY <1>2, <1>5, <1>6, AdmittedLater
  <2>2. \A w \in Written : w.at \in Nat
    BY DEF Written, Mail!GuardAssumption
  <2> QED BY <1>2, <2>1, <2>2
<1>8. x \in Written /\ x.at = t /\ x.done = 0
  BY <1>2 DEF Written, Mail!Statuses, Mail!GuardAssumption
<1> HIDE DEF x
<1>9. Append(a, x) \in Seq(Written) /\ Orderly(Append(a, x), now)
  BY <1>2, <1>5, <1>7, <1>8, AppendOrderly
<1>10. FileOk([e EXCEPT ![k] = Append(a, x)], now)
  BY <1>3, <1>9 DEF FileOk
<1>11. FileOk(entries', now)
  BY <1>1, <1>6, <1>10, PrunedOrderly
<1>12. SendersOk(sender', now)
  <2>1. sender' = [sender EXCEPT ![s].at = "send"]
    BY DEF Reserved
  <2>2. [sender[s] EXCEPT !.at = "send"] \in Post /\ Waits([sender[s] EXCEPT !.at = "send"], now)
    BY <1>1 DEF Post, Waits
  <2> HIDE DEF Post
  <2>3. \A r \in Mailer : sender'[r] \in Post /\ Waits(sender'[r], now)
    BY <2>1, <2>2 DEF FileInv, SendersOk
  <2> QED BY <1>1, <2>1, <2>3 DEF SendersOk
<1>13. mails' \in [Key -> Seq(Made)]
  <2> DEFINE y == [by |-> s, at |-> now, status |-> "started", until |-> 0]
  <2>1. mails' = [mails EXCEPT ![k] = Append(@, y)]
    BY DEF Reserved, k, t
  <2>2. y \in Made
    BY <1>1 DEF Made, Mail!Statuses
  <2>3. mails \in [Key -> Seq(Made)]
    BY DEF FileInv
  <2> HIDE DEF y, Made
  <2>4. Append(mails[k], y) \in Seq(Made)
    BY <1>2, <2>2, <2>3
  <2> QED BY <2>1, <2>3, <2>4
<1> QED BY <1>3, <1>10, <1>11, <1>12, <1>13 DEF a, x, k, t

LEMMA FinishedOk ==
  ASSUME Mail!GuardAssumption, now \in 0..MaxTime, NEW a \in Seq(Written), Orderly(a, now),
         NEW s, NEW status \in {"sent", "failed"}, NEW wait \in RetryAfters \cup {0}
  PROVE  LET r == Mail!Finished(a, s, status, wait) IN r \in Seq(Written) /\ Orderly(r, now)
<1> DEFINE n == Mail!Own(a, s)
           r == Mail!Finished(a, s, status, wait)
           x(i) == [by |-> a[i].by, at |-> a[i].at, status |-> status, done |-> now, retry |-> wait]
<1>1. \A i \in DOMAIN a : a[i] \in Written /\ a[i].at \in Nat
  BY WrittenAt
<1>2. /\ n \notin DOMAIN a => r = a
      /\ n \in DOMAIN a => r = [i \in DOMAIN a |-> IF i = n THEN x(i) ELSE a[i]]
  BY <1>1, FinishedIs
<1> HIDE DEF n, r
<1>3. CASE n \notin DOMAIN a
  BY <1>2, <1>3 DEF r
<1>4. CASE n \in DOMAIN a
  <2>1. ASSUME NEW i \in DOMAIN a PROVE x(i) \in Written
    <3>1. status \in Mail!Statuses
      BY DEF Mail!Statuses
    <3>2. a[i] \in Written
      BY <1>1
    <3> QED BY <3>1, <3>2 DEF Written
  <2> DEFINE g == [i \in DOMAIN a |-> IF i = n THEN x(i) ELSE a[i]]
  <2>2. r = g
    BY <1>2, <1>4
  <2>3. \A i \in DOMAIN a : g[i] \in Written
    BY <1>1, <2>1
  <2> DEFINE w == Written
  <2>4. g \in [1..Len(a) -> w] /\ Len(a) \in Nat
    BY <2>3
  <2> HIDE DEF w
  <2>5. \A i \in DOMAIN a : g[i].at = a[i].at
    OBVIOUS
  <2>6. \A i \in DOMAIN a : g[i].done > 0 => g[i].at <= g[i].done
    BY DEF Orderly
  <2>7. DOMAIN g = DOMAIN a
    OBVIOUS
  <2> HIDE DEF g
  <2>8. g \in Seq(w)
    BY <2>4
  <2>9. Orderly(g, now)
    BY <2>5, <2>6, <2>7 DEF Orderly, Rising
  <2> QED BY <2>2, <2>8, <2>9 DEF r, w
<1> QED BY <1>3, <1>4

\* s's attempt of the key k ends, in the file e.
Ends(s, k, status, wait, e) ==
  /\ e \in Mail!Pruned(entries)
  /\ entries' \in Mail!Pruned([e EXCEPT ![k] = Mail!Finished(e[k], s, status, wait)])

\* The n-th of the attempts that were made for k ends.
MadeEnds(k, n, status, until) ==
  mails' = [mails EXCEPT ![k][n].status = status, ![k][n].until = until]

LEMMA FinishCases ==
  ASSUME NEW s, NEW status, NEW wait, Mail!Finish(s, status, wait)
  PROVE  /\ sender[s].at = "send"
         /\ torn' = torn /\ now' = now /\ crashes' = crashes /\ Mail!Leave(s)
         /\ \/ torn /\ entries' = entries
            \/ \E e : Ends(s, sender[s].key, status, wait, e)
         /\ MadeEnds(sender[s].key, Mail!Own(mails[sender[s].key], s), status,
                     IF wait > 0 THEN now + PerSecond * wait ELSE 0)
BY DEF Mail!Finish, Ends, MadeEnds

LEMMA MadeChanged ==
  ASSUME NEW x \in Made, NEW status, NEW until
  PROVE  [[x EXCEPT !.status = status] EXCEPT !.until = until]
           = [by |-> x.by, at |-> x.at, status |-> status, until |-> until]
<1> DEFINE y == [x EXCEPT !.status = status]
<1>1. x = [by |-> x.by, at |-> x.at, status |-> x.status, until |-> x.until]
  BY DEF Made
<1>2. y = [by |-> x.by, at |-> x.at, status |-> status, until |-> x.until]
  BY <1>1
<1> HIDE DEF y
<1>3. [y EXCEPT !.until = until] = [by |-> x.by, at |-> x.at, status |-> status, until |-> until]
  BY <1>2
<1> QED BY <1>3 DEF y

LEMMA MadeEndsEffect ==
  ASSUME NEW k \in Key, NEW n, NEW status \in Mail!Statuses, NEW until \in Nat,
         mails \in [Key -> Seq(Made)], MadeEnds(k, n, status, until)
  PROVE  /\ mails' \in [Key -> Seq(Made)]
         /\ \A j \in Key : j # k => mails'[j] = mails[j]
         /\ DOMAIN mails'[k] = DOMAIN mails[k] /\ Len(mails'[k]) = Len(mails[k])
         /\ \A i \in DOMAIN mails[k] :
              /\ mails'[k][i].by = mails[k][i].by /\ mails'[k][i].at = mails[k][i].at
              /\ mails'[k][i].status = IF i = n THEN status ELSE mails[k][i].status
<1> DEFINE h == mails[k]
           x(i) == [by |-> h[i].by, at |-> h[i].at, status |-> status, until |-> until]
           g == [i \in DOMAIN h |-> IF i = n THEN x(i) ELSE h[i]]
<1>1. h \in Seq(Made) /\ \A i \in DOMAIN h : h[i] \in Made
  <2>1. h \in Seq(Made)
    OBVIOUS
  <2> HIDE DEF h
  <2>2. \A i \in DOMAIN h : h[i] \in Made
    BY <2>1
  <2> QED BY <2>1, <2>2
<1>2. mails' = [mails EXCEPT ![k][n].status = status, ![k][n].until = until]
  BY DEF MadeEnds
<1>3. mails'[k] = [[h EXCEPT ![n].status = status] EXCEPT ![n].until = until]
  BY <1>2
<1>4. mails'[k] = g
  <2>1. CASE n \notin DOMAIN h
    BY <1>1, <1>3, <2>1
  <2>2. CASE n \in DOMAIN h
    <3>1. [[h[n] EXCEPT !.status = status] EXCEPT !.until = until] = x(n)
      BY <1>1, <2>2, MadeChanged
    <3> HIDE DEF h
    <3> QED BY <1>1, <1>3, <2>2, <3>1
  <2> QED BY <2>1, <2>2
<1>5. \A i \in DOMAIN h : x(i) \in Made
  BY <1>1 DEF Made
<1>6. g \in Seq(Made) /\ Len(g) = Len(h)
  <2> DEFINE w == Made
  <2>1. g \in [1..Len(h) -> w] /\ Len(h) \in Nat
    BY <1>1, <1>5
  <2> HIDE DEF w, g
  <2>2. g \in Seq(w) /\ Len(g) = Len(h)
    BY <2>1
  <2> QED BY <2>2 DEF w
<1>7. \A i \in DOMAIN h : /\ g[i].by = h[i].by /\ g[i].at = h[i].at
                          /\ g[i].status = IF i = n THEN status ELSE h[i].status
  OBVIOUS
<1>8. DOMAIN g = DOMAIN h
  OBVIOUS
<1> HIDE DEF g
<1>9. \A j \in Key : j # k => mails'[j] = mails[j]
  BY <1>2
<1>10. mails' \in [Key -> Seq(Made)]
  <2>1. \A j \in Key : mails'[j] \in Seq(Made)
    BY <1>4, <1>6, <1>9
  <2>2. mails' = [j \in Key |-> mails'[j]]
    BY <1>2
  <2> HIDE DEF Made
  <2> QED BY <2>1, <2>2
<1> QED BY <1>4, <1>6, <1>7, <1>8, <1>9, <1>10

LEMMA EndsOk ==
  ASSUME Mail!GuardAssumption, FileInv, NEW s \in Mailer, NEW status \in {"sent", "failed"},
         NEW wait \in RetryAfters \cup {0}, NEW k \in Key, NEW e, Ends(s, k, status, wait, e)
  PROVE  /\ FileOk(e, now)
         /\ FileOk([e EXCEPT ![k] = Mail!Finished(e[k], s, status, wait)], now)
         /\ FileOk(entries', now)
<1>1. now \in 0..MaxTime /\ FileOk(entries, now)
  BY DEF FileInv
<1>2. /\ e \in Mail!Pruned(entries)
      /\ entries' \in Mail!Pruned([e EXCEPT ![k] = Mail!Finished(e[k], s, status, wait)])
  BY DEF Ends
<1>3. FileOk(e, now)
  BY <1>1, <1>2, PrunedOrderly
<1> DEFINE r == Mail!Finished(e[k], s, status, wait)
<1>4. r \in Seq(Written) /\ Orderly(r, now)
  <2>1. e[k] \in Seq(Written) /\ Orderly(e[k], now)
    BY <1>3 DEF FileOk
  <2> QED BY <1>1, <2>1, FinishedOk
<1> HIDE DEF r
<1>5. FileOk([e EXCEPT ![k] = r], now)
  BY <1>3, <1>4 DEF FileOk
<1>6. FileOk(entries', now)
  BY <1>1, <1>2, <1>5, PrunedOrderly DEF r
<1> QED BY <1>3, <1>5, <1>6 DEF r

LEMMA InitFile == ASSUME Mail!GuardAssumption PROVE Mail!Init => FileInv
<1> SUFFICES ASSUME Mail!Init PROVE FileInv
  OBVIOUS
<1>1. /\ entries = [k \in Key |-> <<>>] /\ mails = [k \in Key |-> <<>>]
      /\ torn = FALSE /\ sender = [s \in Mailer |-> Mail!Idle] /\ now = 0 /\ crashes = 0
  BY DEF Mail!Init
<1>2. FileOk(entries, now)
  <2>1. \A k \in Key : entries[k] = <<>>
    BY <1>1
  <2>2. Orderly(<<>>, now)
    BY DEF Orderly, Rising
  <2> QED BY <1>1, <2>1, <2>2 DEF FileOk
<1>3. SendersOk(sender, now)
  <2>1. Mail!Idle \in Post /\ Waits(Mail!Idle, now)
    BY DEF Mail!Idle, Post, Waits, Mail!GuardAssumption
  <2> HIDE DEF Post
  <2> QED BY <1>1, <2>1 DEF SendersOk
<1>4. 0 \in 0..MaxTime /\ 0 \in 0..MaxCrashes
  BY DEF Mail!GuardAssumption
<1>5. mails \in [Key -> Seq(Made)]
  <2>1. <<>> \in Seq(Made)
    OBVIOUS
  <2> HIDE DEF Made
  <2> QED BY <1>1, <2>1
<1> QED BY <1>1, <1>2, <1>3, <1>4, <1>5 DEF FileInv

LEMMA AttemptFile ==
  ASSUME Mail!GuardAssumption, FileInv, NEW s \in Mailer, NEW k \in Key, Mail!Attempt(s, k)
  PROVE  FileInv'
<1> DEFINE p == [at |-> "reserve", key |-> k, read |-> now]
<1>1. /\ sender' = [sender EXCEPT ![s] = p]
      /\ entries' = entries /\ torn' = torn /\ mails' = mails /\ now' = now /\ crashes' = crashes
  BY DEF Mail!Attempt
<1>2. now \in 0..MaxTime
  BY DEF FileInv
<1>3. p \in Post /\ Waits(p, now)
  BY <1>2 DEF Post, Waits, Mail!GuardAssumption
<1> HIDE DEF p
<1>4. SendersOk(sender', now)
  BY <1>1, <1>3 DEF SendersOk, FileInv
<1> QED BY <1>1, <1>4 DEF FileInv

LEMMA ReserveFile ==
  ASSUME Mail!GuardAssumption, FileInv, NEW s \in Mailer, Mail!Reserve(s)
  PROVE  FileInv'
<1>1. /\ sender[s].at = "reserve" /\ torn' = torn /\ now' = now /\ crashes' = crashes
  BY ReserveCases
<1>2. CASE Mail!Leave(s) /\ entries' = entries /\ mails' = mails
  <2>1. SendersOk(sender', now)
    BY <1>2, LeaveOk DEF FileInv
  <2> QED BY <1>1, <1>2, <2>1 DEF FileInv
<1>3. CASE \E e : Reserved(s, sender[s].key, sender[s].read, e)
  <2>1. FileOk(entries', now) /\ SendersOk(sender', now) /\ mails' \in [Key -> Seq(Made)]
    BY <1>1, <1>3, ReservedOk
  <2> QED BY <1>1, <2>1 DEF FileInv
<1> QED BY <1>2, <1>3, ReserveCases

LEMMA FinishFile ==
  ASSUME Mail!GuardAssumption, FileInv, NEW s \in Mailer, NEW status \in {"sent", "failed"},
         NEW wait \in RetryAfters \cup {0}, Mail!Finish(s, status, wait)
  PROVE  FileInv'
<1> DEFINE k == sender[s].key
<1>1. /\ sender[s].at = "send" /\ torn' = torn /\ now' = now /\ crashes' = crashes
      /\ Mail!Leave(s)
  BY FinishCases
<1>2. k \in Key /\ now \in Nat /\ wait \in Nat
  <2>1. \A r \in RetryAfters : r \in Nat
    BY DEF Mail!GuardAssumption
  <2>2. k \in Key
    BY <1>1 DEF FileInv, SendersOk, Waits
  <2>3. now \in Nat
    BY DEF FileInv, Mail!GuardAssumption
  <2> QED BY <2>1, <2>2, <2>3
<1>3. SendersOk(sender', now)
  BY <1>1, LeaveOk DEF FileInv
<1>4. FileOk(entries', now)
  <2>1. CASE entries' = entries
    BY <2>1 DEF FileInv
  <2>2. CASE \E e : Ends(s, k, status, wait, e)
    <3> HIDE DEF k
    <3> QED BY <1>2, <2>2, EndsOk
  <2> QED BY <2>1, <2>2, FinishCases
<1>5. mails' \in [Key -> Seq(Made)]
  <2> DEFINE n == Mail!Own(mails[k], s)
             until == IF wait > 0 THEN now + PerSecond * wait ELSE 0
  <2>1. until \in Nat
    <3>1. PerSecond \in Nat
      BY DEF Mail!GuardAssumption
    <3>2. PerSecond * wait \in Nat
      BY <1>2, <3>1, TimesGrows
    <3> QED BY <1>2, <3>2
  <2>2. MadeEnds(k, n, status, until)
    BY FinishCases
  <2>3. mails \in [Key -> Seq(Made)] /\ status \in Mail!Statuses
    BY DEF FileInv, Mail!Statuses
  <2> HIDE DEF n, until, k
  <2> QED BY <1>2, <2>1, <2>2, <2>3, MadeEndsEffect
<1> QED BY <1>1, <1>3, <1>4, <1>5 DEF FileInv

LEMMA DieFile ==
  ASSUME Mail!GuardAssumption, FileInv, NEW s \in Mailer, Mail!Die(s) \/ Mail!DieWriting(s)
  PROVE  FileInv'
<1>1. /\ Mail!Leave(s) /\ mails' = mails /\ now' = now /\ torn' \in BOOLEAN
      /\ crashes < MaxCrashes /\ crashes' = crashes + 1
      /\ entries' = entries \/ entries' = [k \in Key |-> <<>>]
  BY DEF Mail!Die, Mail!DieWriting, FileInv
<1>2. SendersOk(sender', now)
  BY <1>1, LeaveOk DEF FileInv
<1>3. FileOk(entries', now)
  <2>1. Orderly(<<>>, now)
    BY DEF Orderly, Rising
  <2>2. CASE entries' = [k \in Key |-> <<>>]
    <3>1. \A k \in Key : entries'[k] = <<>>
      BY <2>2
    <3> QED BY <2>1, <2>2, <3>1 DEF FileOk
  <2> QED BY <1>1, <2>2 DEF FileInv
<1>4. crashes' \in 0..MaxCrashes
  BY <1>1 DEF FileInv, Mail!GuardAssumption
<1> QED BY <1>1, <1>2, <1>3, <1>4 DEF FileInv

LEMMA SummarizeFile ==
  ASSUME Mail!GuardAssumption, FileInv, Mail!Summarize
  PROVE  FileInv'
<1>1. /\ entries' \in Mail!Pruned(entries)
      /\ torn' = torn /\ sender' = sender /\ mails' = mails /\ now' = now /\ crashes' = crashes
  BY DEF Mail!Summarize
<1>2. FileOk(entries', now)
  BY <1>1, PrunedOrderly DEF FileInv
<1> QED BY <1>1, <1>2 DEF FileInv

LEMMA TickFile ==
  ASSUME Mail!GuardAssumption, FileInv, Mail!Tick
  PROVE  FileInv'
<1>1. /\ now < MaxTime /\ now' = now + 1
      /\ \A s \in Mailer : sender[s].at = "reserve" => now < sender[s].read + MaxWait
      /\ entries' = entries /\ torn' = torn /\ sender' = sender /\ mails' = mails
      /\ crashes' = crashes
  BY DEF Mail!Tick
<1>2. now \in 0..MaxTime /\ MaxTime \in Nat /\ MaxWait \in Nat /\ now' \in 0..MaxTime
  BY <1>1 DEF FileInv, Mail!GuardAssumption
<1>3. FileOk(entries, now')
  <2>1. ASSUME NEW k \in Key PROVE Orderly(entries[k], now')
    <3>1. entries[k] \in Seq(Written) /\ Orderly(entries[k], now)
      BY DEF FileInv, FileOk
    <3>2. \A i \in DOMAIN entries[k] : entries[k][i].at \in Nat
      BY <3>1, WrittenAt
    <3> QED BY <1>1, <1>2, <3>1, <3>2 DEF Orderly
  <2> QED BY <2>1 DEF FileInv, FileOk
<1>4. SendersOk(sender, now')
  <2>1. ASSUME NEW s \in Mailer PROVE Waits(sender[s], now')
    <3>1. sender[s] \in Post /\ Waits(sender[s], now)
      BY DEF FileInv, SendersOk
    <3>2. sender[s].read \in Nat
      BY <1>2, <3>1 DEF Post
    <3> QED BY <1>1, <1>2, <3>1, <3>2 DEF Waits
  <2> QED BY <2>1 DEF FileInv, SendersOk
<1> QED BY <1>1, <1>2, <1>3, <1>4 DEF FileInv

LEMMA NextFile == ASSUME Mail!GuardAssumption PROVE FileInv /\ [Mail!Next]_Mail!vars => FileInv'
<1> SUFFICES ASSUME FileInv, [Mail!Next]_Mail!vars PROVE FileInv'
  OBVIOUS
<1>1. ASSUME NEW s \in Mailer, NEW k \in Key, Mail!Attempt(s, k) PROVE FileInv'
  BY <1>1, AttemptFile
<1>2. ASSUME NEW s \in Mailer, Mail!Reserve(s) PROVE FileInv'
  BY <1>2, ReserveFile
<1>3. ASSUME NEW s \in Mailer, NEW status \in {"sent", "failed"}, NEW wait \in RetryAfters \cup {0},
             Mail!Finish(s, status, wait)
      PROVE  FileInv'
  BY <1>3, FinishFile
<1>4. ASSUME NEW s \in Mailer, Mail!Die(s) \/ Mail!DieWriting(s) PROVE FileInv'
  BY <1>4, DieFile
<1>5. CASE Mail!Summarize
  BY <1>5, SummarizeFile
<1>6. CASE Mail!Tick
  BY <1>6, TickFile
<1>7. CASE UNCHANGED Mail!vars
  BY <1>7 DEF Mail!vars, FileInv
<1> QED BY <1>1, <1>2, <1>3, <1>4, <1>5, <1>6, <1>7 DEF Mail!Next

LEMMA FileInvariant == ASSUME Mail!GuardAssumption PROVE Mail!Spec => []FileInv
BY InitFile, NextFile, PTL DEF Mail!Spec

LEMMA FileTypes == ASSUME Mail!GuardAssumption, FileInv PROVE Mail!TypeOK /\ Mail!InOrder
<1>1. ASSUME NEW k \in Key, NEW n \in DOMAIN entries[k] PROVE entries[k][n] \in Written
  <2>1. entries[k] \in Seq(Written)
    BY DEF FileInv, FileOk
  <2> QED BY <2>1
<1>2. ASSUME NEW k \in Key, NEW n \in DOMAIN mails[k] PROVE mails[k][n].status \in Mail!Statuses
  <2>1. mails[k] \in Seq(Made)
    BY DEF FileInv
  <2>2. mails[k][n] \in Made
    BY <2>1
  <2> QED BY <2>2 DEF Made
<1>3. ASSUME NEW k \in Key, NEW i \in DOMAIN entries[k], NEW j \in DOMAIN entries[k], i < j
      PROVE  entries[k][i].at <= entries[k][j].at
  BY <1>3 DEF FileInv, FileOk, Orderly, Rising
<1>4. sender \in [Mailer -> Post]
  BY DEF FileInv, SendersOk
<1>5. Mail!TypeOK
  BY <1>1, <1>2, <1>4 DEF Mail!TypeOK, FileInv, Written, Post
<1> QED BY <1>3, <1>5 DEF Mail!InOrder

\* The newest attempt did not begin after the last activity.
LEMMA ActiveLate ==
  ASSUME Mail!GuardAssumption, NEW a \in Seq(Written), NEW n \in Nat, Orderly(a, n), a # <<>>
  PROVE  a[Len(a)].at <= Mail!LastActivity(a) /\ Mail!LastActivity(a) \in Nat
<1> DEFINE A == {Mail!Activity(a[i]) : i \in DOMAIN a}
<1>1. ASSUME NEW i \in DOMAIN a
      PROVE  /\ Mail!Activity(a[i]) \in 0..MaxTime
             /\ a[i].at <= Mail!Activity(a[i])
  <2>1. a[i].at \in 0..MaxTime /\ a[i].done \in 0..MaxTime
    BY WrittenAt DEF Written
  <2> QED BY <2>1 DEF Mail!Activity, Orderly, Mail!GuardAssumption
<1>2. Len(a) \in DOMAIN a
  OBVIOUS
<1>3. PICK m \in A : \A x \in A : x <= m
  <2>1. A \in SUBSET Nat /\ A # {} /\ MaxTime \in Nat /\ \A x \in A : x <= MaxTime
    BY <1>1, <1>2 DEF Mail!GuardAssumption
  <2> HIDE DEF A
  <2> QED BY <2>1, GreatestNat
<1>4. m \in A /\ \A i \in DOMAIN a : Mail!Activity(a[i]) <= m
  BY <1>3
<1>5. /\ Mail!LastActivity(a) \in A
      /\ \A i \in DOMAIN a : Mail!Activity(a[i]) <= Mail!LastActivity(a)
  BY <1>4 DEF Mail!LastActivity
<1>6. Mail!LastActivity(a) \in 0..MaxTime
  BY <1>1, <1>5
<1>7. Mail!Activity(a[Len(a)]) <= Mail!LastActivity(a) /\ a[Len(a)].at <= Mail!Activity(a[Len(a)])
  BY <1>1, <1>2, <1>5
<1>8. a[Len(a)].at \in Nat /\ Mail!Activity(a[Len(a)]) \in 0..MaxTime
  BY <1>1, <1>2, WrittenAt
<1> QED BY <1>6, <1>7, <1>8 DEF Mail!GuardAssumption

LEMMA ClearFree == ASSUME Mail!GuardAssumption, FileInv PROVE Mail!ClearMeansFree
<1> SUFFICES ASSUME Mail!Clear, NEW k \in Key
             PROVE  ~Mail!Refused(Mail!Recent(entries[k], now), now)
  BY DEF Mail!ClearMeansFree
<1> DEFINE a == Mail!Recent(entries[k], now)
<1>1. now \in Nat
  BY DEF FileInv, Mail!GuardAssumption
<1>2. a \in Seq(Written) /\ Orderly(a, now)
  <2>1. entries[k] \in Seq(Written) /\ Orderly(entries[k], now)
    BY DEF FileInv, FileOk
  <2> QED BY <1>1, <2>1, RecentOrderly
<1>3. a # <<>> => /\ Mail!LastActivity(a) + Mail!CooldownOf(Mail!Last(a)) <= now
                  /\ ~Mail!Exhausted(a)
  BY DEF Mail!Clear
<1> HIDE DEF a
<1>4. ~Mail!Exhausted(a)
  <2>1. CASE a = <<>>
    BY <2>1 DEF Mail!Exhausted, Mail!GuardAssumption
  <2> QED BY <1>3, <2>1
<1>5. ~Mail!CoolingDown(a, now)
  <2>1. CASE a # <<>>
    <3> DEFINE l == a[Len(a)]
    <3>1. l \in Written /\ l.at \in Nat
      <4>1. Len(a) \in DOMAIN a
        BY <1>2, <2>1
      <4> QED BY <1>2, <4>1, WrittenAt
    <3>2. l.at <= Mail!LastActivity(a) /\ Mail!LastActivity(a) \in Nat
      BY <1>1, <1>2, <2>1, ActiveLate
    <3>3. Mail!Last(a) = l
      BY DEF Mail!Last
    <3> HIDE DEF l
    <3>4. Mail!CooldownOf(l) \in Nat
      BY <3>1, CooldownLong
    <3>5. PerSecond \in Nat \ {0}
      BY DEF Mail!GuardAssumption
    <3>6. ~(l.at + Mail!CooldownOf(l) >= now + PerSecond)
      BY <1>1, <1>3, <2>1, <3>1, <3>2, <3>3, <3>4, <3>5
    <3> QED BY <3>3, <3>6 DEF Mail!CoolingDown
  <2> QED BY <2>1 DEF Mail!CoolingDown
<1> QED BY <1>4, <1>5 DEF Mail!Refused, a

\* The attempts of a key stay in the order of their times, whoever waits for the lock
\* how long, whatever is pruned, evicted or cut off (_reserve_attempt, _prune_attempts):
\* the code takes the last of them for the newest.
THEOREM AttemptsInOrder ==
  ASSUME Mail!GuardAssumption PROVE Mail!Spec => [](Mail!TypeOK /\ Mail!InOrder)
<1>1. FileInv => Mail!TypeOK /\ Mail!InOrder
  BY FileTypes
<1> QED BY <1>1, FileInvariant, PTL

\* When outbound_email_guard_summary says "clear", nobody would be refused.
THEOREM ClearIsFree == ASSUME Mail!GuardAssumption PROVE Mail!Spec => []Mail!ClearMeansFree
<1>1. FileInv => Mail!ClearMeansFree
  BY ClearFree
<1> QED BY <1>1, FileInvariant, PTL

-----------------------------------------------------------------------------
(* The attempts that were made, where the file has room for every key and is never *)
(* cut off.                                                                         *)

Roomy == IsFiniteSet(Key) /\ Cardinality(Key) <= MaxKeys /\ ~WritesDie

\* The file's x is the attempt y.
CopyOf(x, y) == x.by = y.by /\ x.status = y.status /\ x.at <= y.at /\ y.at <= x.at + MaxWait

\* At time n the file has the end of the attempts h: those that are missing are out of
\* the window.
Recorded(a, h, d, n) ==
  /\ Len(a) = Len(h) - d
  /\ \A i \in 1..Len(a) : CopyOf(a[i], h[i + d])
  /\ \A i \in 1..d : h[i].at + PerSecond * Window < n + MaxWait

Linked(a, h, n) == \E d \in 0..Len(h) : Recorded(a, h, d, n)

\* Attempts begin one after the other.
Past(h, n) == Rising(h) /\ \A i \in DOMAIN h : h[i].at <= n

LEMMA MadeAt ==
  ASSUME Mail!GuardAssumption, NEW h \in Seq(Made)
  PROVE  /\ DOMAIN h = 1..Len(h) /\ Len(h) \in Nat
         /\ \A i \in DOMAIN h : h[i] \in Made /\ h[i].at \in Nat
<1>1. \A i \in DOMAIN h : h[i] \in Made
  OBVIOUS
<1>2. \A y \in Made : y.at \in Nat
  BY DEF Made, Mail!GuardAssumption
<1>3. DOMAIN h = 1..Len(h) /\ Len(h) \in Nat
  OBVIOUS
<1> QED BY <1>1, <1>2, <1>3

LEMMA LinkedLater ==
  ASSUME Mail!GuardAssumption, NEW a, NEW h \in Seq(Made), NEW n \in Nat, NEW m \in Nat, n <= m,
         Linked(a, h, n)
  PROVE  Linked(a, h, m)
<1>1. PICK d \in 0..Len(h) : Recorded(a, h, d, n)
  BY DEF Linked
<1>2. ASSUME NEW i \in 1..d PROVE h[i].at + PerSecond * Window < m + MaxWait
  <2> DEFINE w == PerSecond * Window
  <2>1. h[i].at + w < n + MaxWait
    BY <1>1 DEF Recorded
  <2>2. h[i].at \in Nat /\ w \in Nat
    BY MadeAt, WindowNat
  <2>3. MaxWait \in Nat
    BY DEF Mail!GuardAssumption
  <2> HIDE DEF w
  <2>4. h[i].at + w < m + MaxWait
    BY <2>1, <2>2, <2>3
  <2> QED BY <2>4 DEF w
<1>3. Recorded(a, h, d, m)
  BY <1>1, <1>2 DEF Recorded
<1> QED BY <1>3 DEF Linked

LEMMA Sums ==
  ASSUME NEW x \in Nat, NEW y \in Nat, NEW w \in Nat, NEW t \in Nat, NEW n \in Nat, NEW m \in Nat,
         x + w < t, y <= x + m, t <= n
  PROVE  y + w < n + m
OBVIOUS

LEMMA LinkedRecent ==
  ASSUME Mail!GuardAssumption, NEW a \in Seq(Written), Rising(a), NEW h \in Seq(Made),
         NEW n \in Nat, NEW t \in Nat, t <= n, Linked(a, h, n)
  PROVE  Linked(Mail!Recent(a, t), h, n)
<1> DEFINE r == Mail!Recent(a, t)
           w == PerSecond * Window
<1>1. PICK d \in 0..Len(h) : Recorded(a, h, d, n)
  BY DEF Linked
<1>2. PICK c \in 0..Len(a) : Ending(r, a, c) /\ \A i \in DOMAIN a : i <= c <=> a[i].at + w < t
  BY RecentEnds
<1>3. w \in Nat /\ MaxWait \in Nat
  BY WindowNat DEF Mail!GuardAssumption
<1>4. /\ DOMAIN a = 1..Len(a) /\ Len(a) \in Nat /\ \A i \in DOMAIN a : a[i].at \in Nat
      /\ DOMAIN h = 1..Len(h) /\ Len(h) \in Nat /\ \A i \in DOMAIN h : h[i].at \in Nat
  BY MadeAt, WrittenAt
<1> HIDE DEF r, w
<1>5. /\ Len(a) = Len(h) - d /\ d \in Nat /\ c \in Nat /\ c <= Len(a)
      /\ \A i \in 1..Len(a) : CopyOf(a[i], h[i + d])
      /\ \A i \in 1..d : h[i].at + w < n + MaxWait
  BY <1>1, <1>4 DEF Recorded, w
<1>6. /\ Len(r) = Len(a) - c
      /\ \A i \in 1..Len(r) : r[i] = a[i + c]
  BY <1>2 DEF Ending
<1>7. d + c \in 0..Len(h) /\ Len(r) = Len(h) - (d + c)
  BY <1>4, <1>5, <1>6
<1>8. ASSUME NEW i \in 1..Len(r) PROVE CopyOf(r[i], h[i + (d + c)])
  <2>1. i + c \in 1..Len(a) /\ (i + c) + d = i + (d + c)
    BY <1>4, <1>5, <1>6
  <2>2. CopyOf(a[i + c], h[(i + c) + d])
    BY <1>5, <2>1
  <2> QED BY <1>6, <2>1, <2>2
<1>9. ASSUME NEW i \in 1..(d + c) PROVE h[i].at + w < n + MaxWait
  <2>1. CASE i <= d
    BY <1>5, <2>1
  <2>2. CASE d < i
    <3>1. i - d \in 1..Len(a) /\ i - d <= c /\ (i - d) + d = i /\ i \in DOMAIN h
      BY <1>4, <1>5, <2>2
    <3>2. a[i - d].at + w < t
      BY <1>2, <1>4, <3>1
    <3>3. h[i].at <= a[i - d].at + MaxWait
      BY <1>5, <3>1 DEF CopyOf
    <3>4. a[i - d].at \in Nat /\ h[i].at \in Nat
      BY <1>4, <3>1
    <3> QED BY <1>3, <3>2, <3>3, <3>4, Sums
  <2> QED BY <1>5, <2>1, <2>2
<1>10. Recorded(r, h, d + c, n)
  BY <1>7, <1>8, <1>9 DEF Recorded, w
<1> QED BY <1>7, <1>10 DEF Linked, r

LEMMA LinkedAppend ==
  ASSUME Mail!GuardAssumption, NEW a \in Seq(Written), NEW h \in Seq(Made), NEW n \in Nat,
         Linked(a, h, n), NEW x \in Written, NEW y \in Made, CopyOf(x, y)
  PROVE  Linked(Append(a, x), Append(h, y), n)
<1>1. PICK d \in 0..Len(h) : Recorded(a, h, d, n)
  BY DEF Linked
<1> DEFINE b == Append(a, x)
           g == Append(h, y)
<1>2. /\ Len(b) = Len(a) + 1 /\ Len(a) \in Nat /\ b[Len(a) + 1] = x
      /\ \A i \in 1..Len(a) : b[i] = a[i]
      /\ Len(g) = Len(h) + 1 /\ Len(h) \in Nat /\ g[Len(h) + 1] = y
      /\ \A i \in 1..Len(h) : g[i] = h[i]
  OBVIOUS
<1> HIDE DEF b, g
<1>3. /\ Len(a) = Len(h) - d /\ d \in Nat /\ d <= Len(h)
      /\ \A i \in 1..Len(a) : CopyOf(a[i], h[i + d])
      /\ \A i \in 1..d : h[i].at + PerSecond * Window < n + MaxWait
  BY <1>1, <1>2 DEF Recorded
<1>4. d \in 0..Len(g) /\ Len(b) = Len(g) - d
  BY <1>2, <1>3
<1>5. ASSUME NEW i \in 1..Len(b) PROVE CopyOf(b[i], g[i + d])
  <2>1. CASE i = Len(a) + 1
    BY <1>2, <1>3, <2>1
  <2>2. CASE i \in 1..Len(a)
    <3>1. i + d \in 1..Len(h)
      BY <1>2, <1>3, <2>2
    <3> QED BY <1>2, <1>3, <2>2, <3>1
  <2> QED BY <1>2, <2>1, <2>2
<1>6. ASSUME NEW i \in 1..d PROVE g[i].at + PerSecond * Window < n + MaxWait
  <2>1. i \in 1..Len(h)
    BY <1>2, <1>3
  <2> QED BY <1>2, <1>3, <2>1
<1>7. Recorded(b, g, d, n)
  BY <1>4, <1>5, <1>6 DEF Recorded
<1> QED BY <1>4, <1>7 DEF Linked, b, g

LEMMA LinkedFinished ==
  ASSUME Mail!GuardAssumption, NEW a \in Seq(Written), NEW h \in Seq(Made), NEW g, NEW n \in Nat,
         Linked(a, h, n), NEW s, NEW status \in {"sent", "failed"}, NEW wait,
         DOMAIN g = DOMAIN h, Len(g) = Len(h),
         \A i \in DOMAIN h :
           /\ g[i].by = h[i].by /\ g[i].at = h[i].at
           /\ g[i].status = IF i = Mail!Own(h, s) THEN status ELSE h[i].status
  PROVE  Linked(Mail!Finished(a, s, status, wait), g, n)
<1> DEFINE r == Mail!Finished(a, s, status, wait)
           m == Mail!Own(a, s)
           l == Mail!Own(h, s)
<1>1. PICK d \in 0..Len(h) : Recorded(a, h, d, n)
  BY DEF Linked
<1>2. /\ DOMAIN a = 1..Len(a) /\ Len(a) \in Nat /\ DOMAIN h = 1..Len(h) /\ Len(h) \in Nat
      /\ \A i \in DOMAIN a : a[i] \in Written
  BY WrittenAt, MadeAt
<1>3. /\ Len(a) = Len(h) - d /\ d \in Nat /\ d <= Len(h)
      /\ \A i \in 1..Len(a) : CopyOf(a[i], h[i + d])
      /\ \A i \in 1..d : h[i].at + PerSecond * Window < n + MaxWait
  BY <1>1, <1>2 DEF Recorded
<1>4. /\ m \notin DOMAIN a => r = a
      /\ m \in DOMAIN a =>
           r = [i \in DOMAIN a |->
                  IF i = m THEN [by |-> a[i].by, at |-> a[i].at, status |-> status,
                                 done |-> now, retry |-> wait]
                  ELSE a[i]]
  BY <1>2, FinishedIs
<1>5. /\ \/ m = 0 /\ Starts(a, s) = {}
         \/ m \in Starts(a, s) /\ \A i \in Starts(a, s) : i <= m
      /\ \/ l = 0 /\ Starts(h, s) = {}
         \/ l \in Starts(h, s) /\ \A i \in Starts(h, s) : i <= l
  BY OwnIs
<1>6. \A i \in DOMAIN h : /\ g[i].by = h[i].by /\ g[i].at = h[i].at
                          /\ g[i].status = IF i = l THEN status ELSE h[i].status
  OBVIOUS
<1> HIDE DEF r, m, l
<1>7. ASSUME NEW i \in DOMAIN a
      PROVE  i + d \in DOMAIN h /\ (i \in Starts(a, s) <=> i + d \in Starts(h, s))
  <2>1. i + d \in DOMAIN h
    BY <1>2, <1>3
  <2>2. a[i].by = h[i + d].by /\ a[i].status = h[i + d].status
    BY <1>2, <1>3 DEF CopyOf
  <2> QED BY <2>1, <2>2 DEF Starts
<1>8. ASSUME NEW i \in DOMAIN a PROVE i = m <=> i + d = l
  <2>1. ASSUME i = m PROVE i + d = l
    <3>1. i # 0 /\ i \in Nat
      BY <1>2
    <3>2. m \in Starts(a, s) /\ \A j \in Starts(a, s) : j <= m
      BY <1>5, <2>1, <3>1
    <3>3. m + d \in Starts(h, s)
      BY <1>7, <2>1, <3>2
    <3>4. l \in Starts(h, s) /\ m + d <= l
      BY <1>5, <3>3
    <3>5. l \in DOMAIN h /\ l \in Nat /\ m \in Nat
      BY <1>2, <2>1, <3>1, <3>4 DEF Starts
    <3>6. l - d \in DOMAIN a /\ (l - d) + d = l
      BY <1>2, <1>3, <2>1, <3>1, <3>4, <3>5
    <3>7. l - d \in Starts(a, s)
      BY <1>7, <3>4, <3>6
    <3>8. l - d <= m
      BY <3>2, <3>7
    <3> QED BY <1>3, <2>1, <3>4, <3>5, <3>8
  <2>2. ASSUME i + d = l PROVE i = m
    <3>1. i \in Nat /\ i # 0 /\ l # 0 /\ l \in DOMAIN h
      BY <1>2, <1>3, <1>7, <2>2
    <3>2. l \in Starts(h, s) /\ \A j \in Starts(h, s) : j <= l
      BY <1>5, <3>1
    <3>3. i \in Starts(a, s)
      BY <1>7, <2>2, <3>2
    <3>4. m \in Starts(a, s) /\ i <= m
      BY <1>5, <3>3
    <3>5. m \in DOMAIN a /\ m \in Nat
      BY <1>2, <3>4 DEF Starts
    <3>6. m + d \in Starts(h, s)
      BY <1>7, <3>4, <3>5
    <3>7. m + d <= l
      BY <3>2, <3>6
    <3> QED BY <1>3, <2>2, <3>1, <3>4, <3>5, <3>7
  <2> QED BY <2>1, <2>2
<1>9. /\ DOMAIN r = DOMAIN a /\ Len(r) = Len(a)
      /\ \A i \in DOMAIN a : /\ r[i].by = a[i].by /\ r[i].at = a[i].at
                             /\ r[i].status = IF i = m THEN status ELSE a[i].status
  <2>1. CASE m \notin DOMAIN a
    BY <1>4, <2>1
  <2>2. CASE m \in DOMAIN a
    <3>1. DOMAIN r = 1..Len(a)
      BY <1>2, <1>4, <2>2
    <3>2. Len(r) = Len(a)
      BY <1>2, <3>1
    <3> QED BY <1>2, <1>4, <2>2, <3>1, <3>2
  <2> QED BY <2>1, <2>2
<1>10. ASSUME NEW i \in 1..Len(r) PROVE CopyOf(r[i], g[i + d])
  <2>1. i \in DOMAIN a /\ i + d \in DOMAIN h
    BY <1>2, <1>7, <1>9
  <2>2. CopyOf(a[i], h[i + d])
    BY <1>2, <1>3, <2>1
  <2>3. r[i].status = g[i + d].status
    BY <1>6, <1>8, <1>9, <2>1, <2>2 DEF CopyOf
  <2> QED BY <1>6, <1>9, <2>1, <2>2, <2>3 DEF CopyOf
<1>11. ASSUME NEW i \in 1..d PROVE g[i].at + PerSecond * Window < n + MaxWait
  <2>1. i \in DOMAIN h
    BY <1>2, <1>3
  <2> QED BY <1>3, <1>6, <2>1
<1>12. Recorded(r, g, d, n)
  BY <1>3, <1>9, <1>10, <1>11 DEF Recorded
<1> QED BY <1>12 DEF Linked, r

\* Where there is room, pruning leaves of a key what is recent.
LEMMA PrunedRoomy ==
  ASSUME Mail!GuardAssumption, Roomy, NEW e, NEW f \in Mail!Pruned(e), NEW k \in Key
  PROVE  f[k] = Mail!Recent(e[k], now)
<1> DEFINE recent == [j \in Key |-> Mail!Recent(e[j], now)]
           live == {j \in Key : recent[j] # <<>>}
<1>1. PICK kept \in SUBSET live :
        /\ Mail!Cardinality(kept) = Mail!Least(MaxKeys, Mail!Cardinality(live))
        /\ f = [j \in Key |-> IF j \in kept THEN recent[j] ELSE <<>>]
  BY DEF Mail!Pruned
<1>2. recent[k] = Mail!Recent(e[k], now)
  OBVIOUS
<1> HIDE DEF recent
<1>3. IsFiniteSet(live) /\ Cardinality(live) <= Cardinality(Key) /\ Cardinality(live) \in Nat
      /\ Cardinality(Key) \in Nat
  <2>1. live \in SUBSET Key /\ IsFiniteSet(Key)
    BY DEF Roomy
  <2> HIDE DEF live
  <2> QED BY <2>1, FS_Subset, FS_CardinalityType
<1>4. Cardinality(kept) = Cardinality(live)
  <2>1. Cardinality(kept) = Mail!Least(MaxKeys, Cardinality(live))
    <3>1. Mail!Cardinality(kept) = Cardinality(kept) /\ Mail!Cardinality(live) = Cardinality(live)
      BY SameCardinality
    <3> HIDE DEF live
    <3> QED BY <1>1, <3>1
  <2>2. Cardinality(live) <= MaxKeys /\ MaxKeys \in Nat
    BY <1>3 DEF Roomy, Mail!GuardAssumption
  <2> HIDE DEF live
  <2> QED BY <1>3, <2>1, <2>2 DEF Mail!Least
<1>5. kept = live
  <2> HIDE DEF live
  <2> QED BY <1>1, <1>3, <1>4, FS_Subset
<1>6. f[k] = recent[k]
  <2>1. CASE k \in live
    BY <1>1, <1>5, <2>1
  <2>2. CASE k \notin live
    <3>1. recent[k] = <<>>
      BY <2>2
    <3> HIDE DEF live
    <3> QED BY <1>1, <1>5, <2>2, <3>1
  <2> QED BY <2>1, <2>2
<1> QED BY <1>2, <1>6

\* The attempts of h within the window that ends with its j-th.
Beside(h, j) == {i \in 1..j : h[i].at + PerSecond * Window >= h[j].at + MaxWait}
WithinBudget(h) == \A j \in DOMAIN h : Cardinality(Beside(h, j)) <= MaxPerWindow

\* A cooldown after x, the shorter one if it failed.
WaitOf(x) == IF x.status = "failed" THEN Mail!Least(FailureCooldown, Cooldown) ELSE Cooldown

Spaced(h) ==
  \A i, j \in DOMAIN h :
    i < j => h[j].at + PerSecond + MaxWait > h[i].at + PerSecond * WaitOf(h[i])

Told(a, h, n) ==
  Linked(a, h, n) /\ Past(h, n) /\ WithinBudget(h) /\ (Cooldown <= Window => Spaced(h))

GuardInv ==
  /\ FileInv
  /\ ~torn
  /\ \A k \in Key : Told(entries[k], mails[k], now)

LEMMA ToldRecent ==
  ASSUME Mail!GuardAssumption, NEW a \in Seq(Written), NEW n \in Nat, Orderly(a, n),
         NEW h \in Seq(Made), Told(a, h, n), NEW t \in Nat, t <= n
  PROVE  Told(Mail!Recent(a, t), h, n)
<1>1. Linked(Mail!Recent(a, t), h, n)
  BY LinkedRecent DEF Told, Orderly
<1> QED BY <1>1 DEF Told

LEMMA ToldLater ==
  ASSUME Mail!GuardAssumption, NEW a, NEW h \in Seq(Made), NEW n \in Nat, NEW m \in Nat, n <= m,
         Told(a, h, n)
  PROVE  Told(a, h, m)
<1>1. Linked(a, h, m)
  BY LinkedLater DEF Told
<1>2. \A i \in DOMAIN h : h[i].at <= m
  <2> TAKE i \in DOMAIN h
  <2>1. h[i].at \in Nat /\ h[i].at <= n
    BY MadeAt DEF Told, Past
  <2> QED BY <2>1
<1> QED BY <1>1, <1>2 DEF Told, Past

LEMMA WaitShort ==
  ASSUME Mail!GuardAssumption, NEW y
  PROVE  /\ PerSecond * WaitOf(y) \in Nat
         /\ PerSecond * WaitOf(y) <= PerSecond * Cooldown
         /\ Cooldown <= Window => PerSecond * WaitOf(y) <= PerSecond * Window
<1> DEFINE v == WaitOf(y)
<1>1. /\ PerSecond \in Nat /\ Cooldown \in Nat /\ FailureCooldown \in Nat /\ Window \in Nat
  BY DEF Mail!GuardAssumption
<1>2. v \in Nat /\ v <= Cooldown
  BY <1>1 DEF WaitOf, Mail!Least
<1> HIDE DEF v
<1>3. PerSecond * v \in Nat /\ PerSecond * v <= PerSecond * Cooldown
  BY <1>1, <1>2, TimesGrows
<1>4. Cooldown <= Window => PerSecond * v <= PerSecond * Window
  <2>1. Cooldown <= Window => v <= Window
    BY <1>1, <1>2
  <2> QED BY <1>1, <1>2, <2>1, TimesGrows
<1> QED BY <1>3, <1>4 DEF v

\* The file's attempt x is waited for as long as the attempt y that was made.
LEMMA WaitsLong ==
  ASSUME Mail!GuardAssumption, Cooldown <= Window, NEW x \in Written, NEW y, x.status = y.status
  PROVE  PerSecond * WaitOf(y) <= Mail!CooldownOf(x)
<1> DEFINE c == IF x.status = "failed"
                THEN Mail!Least(Window, Mail!Most(Mail!Least(FailureCooldown, Cooldown), x.retry))
                ELSE Cooldown
           v == WaitOf(y)
<1>1. x.retry \in Nat
  <2>1. x.retry \in RetryAfters \/ x.retry = 0
    BY DEF Written
  <2>2. \A r \in RetryAfters : r \in Nat
    BY DEF Mail!GuardAssumption
  <2> QED BY <2>1, <2>2
<1>2. /\ PerSecond \in Nat /\ Cooldown \in Nat /\ FailureCooldown \in Nat /\ Window \in Nat
  BY DEF Mail!GuardAssumption
<1>3. c \in Nat /\ v \in Nat /\ v <= c
  BY <1>1, <1>2 DEF WaitOf, Mail!Least, Mail!Most
<1>4. Mail!CooldownOf(x) = PerSecond * c
  BY DEF Mail!CooldownOf
<1> HIDE DEF c, v
<1>5. PerSecond * v <= PerSecond * c
  BY <1>2, <1>3, TimesGrows
<1> QED BY <1>4, <1>5 DEF v

LEMMA Adds ==
  ASSUME NEW x \in Nat, NEW y \in Nat, NEW c \in Nat, NEW v \in Nat, NEW t \in Nat, NEW n \in Nat,
         NEW m \in Nat, NEW p \in Nat, x + c < t + p, y <= x + m, v <= c, t <= n
  PROVE  n + p + m > y + v
OBVIOUS

LEMMA AddsLater ==
  ASSUME NEW b \in Nat, NEW x \in Nat, NEW v \in Nat, NEW n \in Nat, NEW m \in Nat, NEW p \in Nat,
         b + p + m > x + v, b <= n
  PROVE  n + p + m > x + v
OBVIOUS

\* A sender that is not refused begins a cooldown after the newest attempt.
LEMMA SpacedLast ==
  ASSUME Mail!GuardAssumption, Cooldown <= Window, NEW a \in Seq(Written), NEW h \in Seq(Made),
         NEW n \in Nat, NEW t \in Nat, t <= n, Linked(a, h, n), ~Mail!Refused(a, t), h # <<>>
  PROVE  n + PerSecond + MaxWait > h[Len(h)].at + PerSecond * WaitOf(h[Len(h)])
<1> DEFINE y == h[Len(h)]
           v == PerSecond * WaitOf(y)
           w == PerSecond * Window
<1>1. PICK d \in 0..Len(h) : Recorded(a, h, d, n)
  BY DEF Linked
<1>2. /\ Len(h) \in Nat /\ Len(a) \in Nat /\ Len(h) # 0
      /\ y \in Made /\ y.at \in Nat
  <2>1. Len(h) \in DOMAIN h
    OBVIOUS
  <2> QED BY <2>1, MadeAt
<1>3. v \in Nat /\ v <= w /\ w \in Nat /\ MaxWait \in Nat /\ PerSecond \in Nat
  <2>1. v \in Nat /\ v <= w
    BY WaitShort
  <2> QED BY <2>1, WindowNat DEF Mail!GuardAssumption
<1>4. CASE Len(a) = 0
  <2>1. d = Len(h) /\ Len(h) \in 1..d
    BY <1>1, <1>2, <1>4 DEF Recorded
  <2>2. y.at + w < n + MaxWait
    BY <1>1, <2>1 DEF Recorded
  <2> HIDE DEF y, v, w
  <2>3. y.at + v < n + MaxWait + PerSecond
    BY <1>2, <1>3, <2>2
  <2> QED BY <1>2, <1>3, <2>3 DEF y, v
<1>5. CASE Len(a) # 0
  <2> DEFINE x == a[Len(a)]
             c == Mail!CooldownOf(x)
  <2>1. a # <<>> /\ Len(a) \in 1..Len(a) /\ Len(a) \in DOMAIN a /\ Len(a) + d = Len(h)
    BY <1>1, <1>2, <1>5 DEF Recorded
  <2>2. CopyOf(x, y)
    BY <1>1, <2>1 DEF Recorded
  <2>3. x \in Written /\ x.at + c < t + PerSecond
    BY <2>1, AdmittedLater
  <2>4. x.at \in Nat /\ c \in Nat
    BY <2>1, <2>3, WrittenAt, CooldownLong
  <2>5. v <= c
    BY <2>2, <2>3, WaitsLong DEF CopyOf
  <2>6. y.at <= x.at + MaxWait
    BY <2>2 DEF CopyOf
  <2> HIDE DEF x, y, c, v
  <2>7. n + PerSecond + MaxWait > y.at + v
    BY <1>2, <1>3, <2>3, <2>4, <2>5, <2>6, Adds
  <2> QED BY <2>7 DEF y, v
<1> QED BY <1>4, <1>5

LEMMA ToldReserved ==
  ASSUME Mail!GuardAssumption, NEW a \in Seq(Written), NEW h \in Seq(Made), NEW n \in Nat,
         NEW t \in Nat, t <= n, Told(a, h, n), ~Mail!Refused(a, t),
         NEW x \in Written, NEW y \in Made, CopyOf(x, y), y.at = n
  PROVE  Told(Append(a, x), Append(h, y), n)
<1> DEFINE g == Append(h, y)
           l == Len(h)
<1>1. /\ l \in Nat /\ DOMAIN h = 1..l /\ DOMAIN g = 1..(l + 1) /\ g[l + 1] = y
      /\ \A i \in DOMAIN h : g[i] = h[i] /\ h[i] \in Made /\ h[i].at \in Nat
  BY MadeAt
<1>2. Linked(Append(a, x), g, n)
  BY LinkedAppend DEF Told
<1> HIDE DEF g
<1>3. /\ Rising(h) /\ \A i \in DOMAIN h : h[i].at <= n
  BY DEF Told, Past
<1>4. Past(g, n)
  <2>1. \A i \in DOMAIN g : g[i].at <= n
    BY <1>1, <1>3
  <2>2. ASSUME NEW i \in DOMAIN g, NEW j \in DOMAIN g, i < j PROVE g[i].at <= g[j].at
    <3>1. i \in DOMAIN h
      BY <1>1, <2>2
    <3>2. CASE j \in DOMAIN h
      BY <1>1, <1>3, <2>2, <3>1, <3>2 DEF Rising
    <3>3. CASE j = l + 1
      BY <1>1, <1>3, <3>1, <3>3
    <3> QED BY <1>1, <3>2, <3>3
  <2> QED BY <2>1, <2>2 DEF Past, Rising
<1>5. WithinBudget(g)
  <2>1. ASSUME NEW j \in DOMAIN h PROVE Cardinality(Beside(g, j)) <= MaxPerWindow
    <3>1. Beside(g, j) = Beside(h, j)
      <4>1. \A i \in 1..j : i \in DOMAIN h
        BY <1>1
      <4> QED BY <1>1, <4>1 DEF Beside
    <3> QED BY <3>1 DEF Told, WithinBudget
  <2>2. Cardinality(Beside(g, l + 1)) <= MaxPerWindow
    <3>1. PICK d \in 0..l : Recorded(a, h, d, n)
      BY DEF Told, Linked
    <3>2. Len(a) \in Nat /\ Len(a) < MaxPerWindow /\ MaxPerWindow \in Nat
      BY DEF Mail!Refused, Mail!Exhausted, Mail!GuardAssumption
    <3>3. Len(a) = l - d /\ d \in Nat /\ d <= l
      BY <1>1, <3>1 DEF Recorded
    <3>4. Beside(g, l + 1) \subseteq (d + 1)..(l + 1)
      <4> SUFFICES ASSUME NEW i \in Beside(g, l + 1), ~(d < i) PROVE FALSE
        BY <1>1, <3>3 DEF Beside
      <4> DEFINE w == PerSecond * Window
      <4>1. i \in 1..(l + 1) /\ g[i].at + w >= n + MaxWait
        BY <1>1 DEF Beside
      <4>2. i \in 1..d /\ i \in DOMAIN h
        BY <1>1, <3>3, <4>1
      <4>3. h[i].at + w < n + MaxWait
        BY <3>1, <4>2 DEF Recorded
      <4>4. h[i].at \in Nat /\ w \in Nat /\ MaxWait \in Nat /\ g[i] = h[i]
        BY <1>1, <4>2, WindowNat DEF Mail!GuardAssumption
      <4> HIDE DEF w
      <4> QED BY <4>1, <4>3, <4>4
    <3>5. IsFiniteSet((d + 1)..(l + 1)) /\ Cardinality((d + 1)..(l + 1)) = l + 1 - d
      <4>1. d + 1 \in Int /\ l + 1 \in Int
        BY <1>1, <3>3
      <4>2. Cardinality((d + 1)..(l + 1)) = IF d + 1 > l + 1 THEN 0 ELSE (l + 1) - (d + 1) + 1
        BY <4>1, FS_Interval
      <4>3. IsFiniteSet((d + 1)..(l + 1))
        BY <4>1, FS_Interval
      <4> QED BY <1>1, <3>3, <4>2, <4>3
    <3>6. Cardinality(Beside(g, l + 1)) <= l + 1 - d /\ Cardinality(Beside(g, l + 1)) \in Nat
      BY <3>4, <3>5, FS_Subset, FS_CardinalityType
    <3> QED BY <1>1, <3>2, <3>3, <3>6
  <2> QED BY <1>1, <2>1, <2>2 DEF WithinBudget
<1>6. ASSUME Cooldown <= Window PROVE Spaced(g)
  <2> SUFFICES ASSUME NEW i \in DOMAIN g, NEW j \in DOMAIN g, i < j
               PROVE  g[j].at + PerSecond + MaxWait > g[i].at + PerSecond * WaitOf(g[i])
    BY DEF Spaced
  <2>1. i \in DOMAIN h /\ g[i] = h[i]
    BY <1>1
  <2>2. CASE j \in DOMAIN h
    BY <1>1, <1>6, <2>1, <2>2 DEF Told, Spaced
  <2>3. CASE j = l + 1
    <3>1. h # <<>> /\ l \in DOMAIN h
      BY <1>1, <2>1
    <3>2. n + PerSecond + MaxWait > h[l].at + PerSecond * WaitOf(h[l])
      BY <1>6, <3>1, SpacedLast DEF Told
    <3>3. CASE i = l
      BY <1>1, <2>1, <2>3, <3>2, <3>3
    <3>4. CASE i < l
      <4>1. h[l].at + PerSecond + MaxWait > h[i].at + PerSecond * WaitOf(h[i])
        BY <1>6, <2>1, <3>1, <3>4 DEF Told, Spaced
      <4>2. h[l].at <= n /\ h[l].at \in Nat /\ h[i].at \in Nat
        BY <1>1, <1>3, <2>1, <3>1
      <4>3. PerSecond * WaitOf(h[i]) \in Nat /\ PerSecond \in Nat /\ MaxWait \in Nat
        BY WaitShort DEF Mail!GuardAssumption
      <4> DEFINE v == PerSecond * WaitOf(h[i])
      <4>4. h[l].at + PerSecond + MaxWait > h[i].at + v /\ v \in Nat
        BY <4>1, <4>3
      <4> HIDE DEF v
      <4>5. n + PerSecond + MaxWait > h[i].at + v
        BY <4>2, <4>3, <4>4, AddsLater
      <4> QED BY <1>1, <2>1, <2>3, <4>5 DEF v
    <3> QED BY <1>1, <2>1, <3>3, <3>4
  <2> QED BY <1>1, <2>2, <2>3
<1> QED BY <1>2, <1>4, <1>5, <1>6 DEF Told, g

LEMMA ToldFinished ==
  ASSUME Mail!GuardAssumption, NEW a \in Seq(Written), NEW h \in Seq(Made), NEW g \in Seq(Made),
         NEW n \in Nat, Told(a, h, n), NEW s, NEW status \in {"sent", "failed"}, NEW wait,
         DOMAIN g = DOMAIN h, Len(g) = Len(h),
         \A i \in DOMAIN h :
           /\ g[i].by = h[i].by /\ g[i].at = h[i].at
           /\ g[i].status = IF i = Mail!Own(h, s) THEN status ELSE h[i].status
  PROVE  Told(Mail!Finished(a, s, status, wait), g, n)
<1>1. Linked(Mail!Finished(a, s, status, wait), g, n)
  BY LinkedFinished DEF Told
<1>2. Past(g, n)
  BY DEF Told, Past, Rising
<1>3. WithinBudget(g)
  <2>1. ASSUME NEW j \in DOMAIN h PROVE Beside(g, j) = Beside(h, j)
    <3>1. \A i \in 1..j : i \in DOMAIN h
      BY MadeAt
    <3> QED BY <3>1 DEF Beside
  <2> QED BY <2>1 DEF Told, WithinBudget
<1>4. ASSUME Cooldown <= Window PROVE Spaced(g)
  <2>1. ASSUME NEW i \in DOMAIN h
        PROVE  PerSecond * WaitOf(g[i]) <= PerSecond * WaitOf(h[i])
    <3>1. CASE i # Mail!Own(h, s)
      <4>1. WaitOf(g[i]) = WaitOf(h[i])
        BY <3>1 DEF WaitOf
      <4> QED BY <4>1, WaitShort
    <3>2. CASE i = Mail!Own(h, s)
      <4>1. i \in Nat /\ i # 0
        BY MadeAt
      <4>2. h[i].status = "started"
        BY <3>2, <4>1, OwnIs DEF Starts
      <4>3. WaitOf(h[i]) = Cooldown
        BY <4>2 DEF WaitOf
      <4> QED BY <4>3, WaitShort
    <3> QED BY <3>1, <3>2
  <2> SUFFICES ASSUME NEW i \in DOMAIN h, NEW j \in DOMAIN h, i < j
               PROVE  g[j].at + PerSecond + MaxWait > g[i].at + PerSecond * WaitOf(g[i])
    BY DEF Spaced
  <2> DEFINE u == PerSecond * WaitOf(g[i])
             v == PerSecond * WaitOf(h[i])
  <2>2. h[j].at + PerSecond + MaxWait > h[i].at + v
    BY <1>4 DEF Told, Spaced
  <2>3. u \in Nat /\ v \in Nat /\ u <= v
    BY <2>1, WaitShort
  <2>4. h[i].at \in Nat /\ h[j].at \in Nat /\ PerSecond \in Nat /\ MaxWait \in Nat
    BY MadeAt DEF Mail!GuardAssumption
  <2>5. g[i].at = h[i].at /\ g[j].at = h[j].at
    OBVIOUS
  <2> HIDE DEF u, v
  <2>6. g[j].at + PerSecond + MaxWait > g[i].at + u
    BY <2>2, <2>3, <2>4, <2>5
  <2> QED BY <2>6 DEF u
<1> QED BY <1>1, <1>2, <1>3, <1>4 DEF Told

LEMMA InitGuard == ASSUME Mail!GuardAssumption PROVE Mail!Init => GuardInv
<1> SUFFICES ASSUME Mail!Init PROVE GuardInv
  OBVIOUS
<1>1. FileInv
  BY InitFile
<1>2. torn = FALSE /\ \A k \in Key : entries[k] = <<>> /\ mails[k] = <<>>
  BY DEF Mail!Init
<1>3. Told(<<>>, <<>>, now)
  <2>1. Recorded(<<>>, <<>>, 0, now)
    BY DEF Recorded
  <2>2. Linked(<<>>, <<>>, now)
    BY <2>1 DEF Linked
  <2> QED BY <2>2 DEF Told, Past, Rising, WithinBudget, Spaced
<1> QED BY <1>1, <1>2, <1>3 DEF GuardInv

\* What pruning leaves tells as much as what was there.
LEMMA ToldPruned ==
  ASSUME Mail!GuardAssumption, Roomy, now \in Nat, NEW e, FileOk(e, now), NEW f \in Mail!Pruned(e),
         NEW k \in Key, NEW h \in Seq(Made), Told(e[k], h, now)
  PROVE  Told(f[k], h, now)
<1>1. e[k] \in Seq(Written) /\ Orderly(e[k], now)
  BY DEF FileOk
<1>2. f[k] = Mail!Recent(e[k], now)
  BY PrunedRoomy
<1>3. now <= now
  OBVIOUS
<1>4. Told(Mail!Recent(e[k], now), h, now)
  BY <1>1, <1>3, ToldRecent
<1> QED BY <1>2, <1>4

LEMMA ReserveGuard ==
  ASSUME Mail!GuardAssumption, Roomy, GuardInv, NEW s \in Mailer, NEW e, sender[s].at = "reserve",
         Reserved(s, sender[s].key, sender[s].read, e), NEW j \in Key
  PROVE  Told(entries'[j], mails'[j], now)
<1> DEFINE k == sender[s].key
           t == sender[s].read
           a == Mail!Recent(e[k], t)
           x == [by |-> s, at |-> t, status |-> "started", done |-> 0, retry |-> 0]
           y == [by |-> s, at |-> now, status |-> "started", until |-> 0]
           g == [e EXCEPT ![k] = Append(a, x)]
<1>1. /\ FileInv /\ now \in 0..MaxTime /\ now \in Nat /\ FileOk(entries, now)
      /\ sender[s] \in Post /\ Waits(sender[s], now) /\ mails \in [Key -> Seq(Made)]
      /\ \A i \in Key : Told(entries[i], mails[i], now)
  BY DEF GuardInv, FileInv, SendersOk, Mail!GuardAssumption
<1>2. k \in Key /\ t \in 0..MaxTime /\ t \in Nat /\ t <= now /\ now <= t + MaxWait
  BY <1>1 DEF Post, Waits, Mail!GuardAssumption
<1>3. FileOk(e, now) /\ FileOk(g, now)
  BY <1>1, ReservedOk
<1>4. /\ e \in Mail!Pruned(entries) /\ ~Mail!Refused(a, t) /\ entries' \in Mail!Pruned(g)
      /\ mails' = [mails EXCEPT ![k] = Append(@, y)]
  BY DEF Reserved
<1>5. x \in Written /\ y \in Made /\ CopyOf(x, y) /\ y.at = now
  BY <1>1, <1>2 DEF Written, Made, Mail!Statuses, CopyOf, Mail!GuardAssumption
<1> HIDE DEF k, t, x, y
<1>6. \A i \in Key : mails[i] \in Seq(Made) /\ Told(e[i], mails[i], now)
  BY <1>1, <1>4, ToldPruned
<1>7. e[k] \in Seq(Written) /\ Orderly(e[k], now)
  BY <1>2, <1>3 DEF FileOk
<1>8. a \in Seq(Written) /\ Told(a, mails[k], now)
  BY <1>1, <1>2, <1>6, <1>7, ToldRecent, RecentOrderly
<1>9. DOMAIN e = Key
  BY <1>3 DEF FileOk
<1> HIDE DEF a
<1>10. Told(g[j], mails'[j], now) /\ mails'[j] \in Seq(Made)
  <2>1. CASE j = k
    <3>1. g[j] = Append(a, x) /\ mails'[j] = Append(mails[k], y)
      BY <1>1, <1>2, <1>4, <1>9, <2>1
    <3>2. Told(Append(a, x), Append(mails[k], y), now)
      BY <1>1, <1>2, <1>4, <1>5, <1>6, <1>8, ToldReserved
    <3> DEFINE W == Made
    <3>3. mails[k] \in Seq(W) /\ y \in W
      BY <1>2, <1>5, <1>6
    <3> HIDE DEF W
    <3>4. Append(mails[k], y) \in Seq(W)
      BY <3>3
    <3> QED BY <3>1, <3>2, <3>4 DEF W
  <2>2. CASE j # k
    BY <1>1, <1>4, <1>6, <1>9, <2>2
  <2> QED BY <2>1, <2>2
<1> HIDE DEF g
<1> QED BY <1>1, <1>3, <1>4, <1>10, ToldPruned

LEMMA FinishGuard ==
  ASSUME Mail!GuardAssumption, Roomy, GuardInv, NEW s \in Mailer, NEW status \in {"sent", "failed"},
         NEW wait \in RetryAfters \cup {0}, Mail!Finish(s, status, wait), NEW j \in Key
  PROVE  Told(entries'[j], mails'[j], now)
<1> DEFINE k == sender[s].key
           n == Mail!Own(mails[k], s)
           until == IF wait > 0 THEN now + PerSecond * wait ELSE 0
<1>1. /\ FileInv /\ now \in 0..MaxTime /\ now \in Nat /\ FileOk(entries, now) /\ ~torn
      /\ mails \in [Key -> Seq(Made)]
      /\ \A i \in Key : Told(entries[i], mails[i], now)
  BY DEF GuardInv, FileInv, Mail!GuardAssumption
<1>2. sender[s].at = "send"
  BY FinishCases
<1>3. k \in Key
  BY <1>2 DEF GuardInv, FileInv, SendersOk, Waits
<1>4. until \in Nat
  <2>1. wait \in Nat /\ PerSecond \in Nat
    <3>1. wait \in RetryAfters \/ wait = 0
      OBVIOUS
    <3>2. \A r \in RetryAfters : r \in Nat
      BY DEF Mail!GuardAssumption
    <3> QED BY <3>1, <3>2 DEF Mail!GuardAssumption
  <2>2. PerSecond * wait \in Nat
    BY <2>1, TimesGrows
  <2> QED BY <1>1, <2>1, <2>2
<1>5. MadeEnds(k, n, status, until)
  BY FinishCases
<1>6. PICK e : Ends(s, k, status, wait, e)
  BY <1>1, FinishCases
<1> HIDE DEF until, k
<1> DEFINE r == Mail!Finished(e[k], s, status, wait)
           g == [e EXCEPT ![k] = r]
<1>7. FileOk(e, now) /\ FileOk(g, now)
  BY <1>1, <1>3, <1>6, EndsOk
<1>8. e \in Mail!Pruned(entries) /\ entries' \in Mail!Pruned(g)
  BY <1>6 DEF Ends
<1>9. \A i \in Key : mails[i] \in Seq(Made) /\ Told(e[i], mails[i], now)
  BY <1>1, <1>8, ToldPruned
<1>10. status \in Mail!Statuses
  BY DEF Mail!Statuses
<1>11. /\ mails' \in [Key -> Seq(Made)]
       /\ \A i \in Key : i # k => mails'[i] = mails[i]
       /\ DOMAIN mails'[k] = DOMAIN mails[k] /\ Len(mails'[k]) = Len(mails[k])
       /\ \A i \in DOMAIN mails[k] :
            /\ mails'[k][i].by = mails[k][i].by /\ mails'[k][i].at = mails[k][i].at
            /\ mails'[k][i].status = IF i = n THEN status ELSE mails[k][i].status
  BY <1>1, <1>3, <1>4, <1>5, <1>10, MadeEndsEffect
<1>12. e[k] \in Seq(Written) /\ DOMAIN e = Key
  BY <1>3, <1>7 DEF FileOk
<1>13. Told(r, mails'[k], now)
  <2>1. mails'[k] \in Seq(Made) /\ mails[k] \in Seq(Made) /\ Told(e[k], mails[k], now)
    BY <1>3, <1>9, <1>11
  <2> QED BY <1>1, <1>11, <1>12, <2>1, ToldFinished
<1> HIDE DEF r, n
<1>14. Told(g[j], mails'[j], now) /\ mails'[j] \in Seq(Made)
  BY <1>3, <1>9, <1>11, <1>12, <1>13
<1> HIDE DEF g
<1> QED BY <1>1, <1>7, <1>8, <1>14, ToldPruned

LEMMA NextGuard ==
  ASSUME Mail!GuardAssumption, Roomy PROVE GuardInv /\ [Mail!Next]_Mail!vars => GuardInv'
<1> SUFFICES ASSUME GuardInv, [Mail!Next]_Mail!vars PROVE GuardInv'
  OBVIOUS
<1>1. FileInv'
  BY NextFile DEF GuardInv
<1>2. /\ FileInv /\ now \in Nat /\ ~torn /\ mails \in [Key -> Seq(Made)] /\ FileOk(entries, now)
      /\ \A k \in Key : Told(entries[k], mails[k], now)
  BY DEF GuardInv, FileInv, Mail!GuardAssumption
<1>3. ASSUME entries' = entries, mails' = mails, torn' = torn, now' = now PROVE GuardInv'
  BY <1>1, <1>2, <1>3 DEF GuardInv
<1>4. ASSUME NEW s \in Mailer, Mail!Reserve(s) PROVE GuardInv'
  <2>1. sender[s].at = "reserve" /\ torn' = torn /\ now' = now
    BY <1>4, ReserveCases
  <2>2. CASE entries' = entries /\ mails' = mails
    BY <1>3, <2>1, <2>2
  <2>3. CASE \E e : Reserved(s, sender[s].key, sender[s].read, e)
    <3>1. \A j \in Key : Told(entries'[j], mails'[j], now)
      BY <2>1, <2>3, ReserveGuard
    <3> QED BY <1>1, <1>2, <2>1, <3>1 DEF GuardInv
  <2> QED BY <1>4, <2>2, <2>3, ReserveCases
<1>5. ASSUME NEW s \in Mailer, NEW status \in {"sent", "failed"}, NEW wait \in RetryAfters \cup {0},
             Mail!Finish(s, status, wait)
      PROVE  GuardInv'
  <2>1. torn' = torn /\ now' = now
    BY <1>5, FinishCases
  <2>2. \A j \in Key : Told(entries'[j], mails'[j], now)
    BY <1>5, FinishGuard
  <2> QED BY <1>1, <1>2, <2>1, <2>2 DEF GuardInv
<1>6. CASE Mail!Summarize
  <2>1. entries' \in Mail!Pruned(entries) /\ mails' = mails /\ torn' = torn /\ now' = now
    BY <1>6 DEF Mail!Summarize
  <2>2. \A k \in Key : Told(entries'[k], mails[k], now)
    BY <1>2, <2>1, ToldPruned
  <2> QED BY <1>1, <1>2, <2>1, <2>2 DEF GuardInv
<1>7. CASE Mail!Tick
  <2>1. entries' = entries /\ mails' = mails /\ torn' = torn /\ now' = now + 1
    BY <1>7 DEF Mail!Tick
  <2>2. now + 1 \in Nat /\ now <= now + 1
    BY <1>2
  <2>3. \A k \in Key : Told(entries[k], mails[k], now + 1)
    BY <1>2, <2>2, ToldLater
  <2> QED BY <1>1, <1>2, <2>1, <2>3 DEF GuardInv
<1>8. ASSUME NEW s \in Mailer, Mail!Die(s) PROVE GuardInv'
  BY <1>3, <1>8 DEF Mail!Die
<1>9. ASSUME NEW s \in Mailer, Mail!DieWriting(s) PROVE FALSE
  BY <1>9 DEF Mail!DieWriting, Roomy
<1>10. ASSUME NEW s \in Mailer, NEW k \in Key, Mail!Attempt(s, k) PROVE GuardInv'
  BY <1>3, <1>10 DEF Mail!Attempt
<1>11. CASE UNCHANGED Mail!vars
  BY <1>3, <1>11 DEF Mail!vars
<1> QED BY <1>4, <1>5, <1>6, <1>7, <1>8, <1>9, <1>10, <1>11 DEF Mail!Next

LEMMA GuardInvariant == ASSUME Mail!GuardAssumption, Roomy PROVE Mail!Spec => []GuardInv
BY InitGuard, NextGuard, PTL DEF Mail!Spec

\* No window of time holds more attempts for one key than the policy allows, up to the
\* wait for the lock, whoever sends and whatever dies with a mail on its way: as long as
\* the file keeps every key (MAX_KEYS) and is never cut off.
THEOREM WindowsBudgeted ==
  ASSUME Mail!GuardAssumption, Roomy PROVE Mail!Spec => []Mail!WindowBudget
<1>1. GuardInv => Mail!WindowBudget
  <2> SUFFICES ASSUME GuardInv, NEW k \in Key, NEW j \in DOMAIN mails[k]
               PROVE  Mail!Cardinality({i \in 1..j : mails[k][i].at + PerSecond * Window
                                                       >= mails[k][j].at + MaxWait}) <= MaxPerWindow
    BY DEF Mail!WindowBudget
  <2>1. Cardinality(Beside(mails[k], j)) <= MaxPerWindow
    BY DEF GuardInv, Told, WithinBudget
  <2>2. Mail!Cardinality(Beside(mails[k], j)) <= MaxPerWindow
    BY <2>1, SameCardinality
  <2> QED BY <2>2 DEF Beside
<1> QED BY <1>1, GuardInvariant, PTL

\* Two attempts for one key begin a cooldown apart, the shorter one after a failure, up
\* to the second that is cut off and the wait for the lock (_reserve_attempt): where
\* besides the window is not shorter than the cooldown.
THEOREM AttemptsApart ==
  ASSUME Mail!GuardAssumption, Roomy, Cooldown <= Window PROVE Mail!Spec => []Mail!Apart
<1>1. GuardInv => Mail!Apart
  <2> SUFFICES ASSUME GuardInv, NEW k \in Key, NEW i \in DOMAIN mails[k], NEW j \in DOMAIN mails[k],
                      i < j
               PROVE  mails[k][j].at + PerSecond + MaxWait
                        > mails[k][i].at + PerSecond * WaitOf(mails[k][i])
    BY DEF Mail!Apart, WaitOf
  <2>1. Spaced(mails[k])
    BY DEF GuardInv, Told
  <2> QED BY <2>1 DEF Spaced
<1> QED BY <1>1, GuardInvariant, PTL
=============================================================================
