--------------------------- MODULE DeliveryOutbox ---------------------------
(***************************************************************************)
(* The delivery outbox: calls of queue_delivery that insert or find a row  *)
(* by its idempotency key, the scheduler pass that sends what is pending,  *)
(* the proactive sender that queues a row and sends it itself, and the API *)
(* that marks rows.  One action per statement of delivery_outbox_postgres. *)
(*                                                                         *)
(* A row is named by the call that inserted it.  row[c].due says that      *)
(* next_attempt_at is NULL or has passed, row[c].aged that the row is old  *)
(* enough (min_age_seconds) to be sent; the clock sets both.               *)
(***************************************************************************)
EXTENDS Naturals, FiniteSets

CONSTANTS
  Call,         \* calls of queue_delivery
  NoRow,        \* the outbox row of a call that has none
  Key, NoKey,   \* idempotency keys, and the empty one
  KeyOf,        \* per call: its idempotency key
  Direct,       \* the calls of send_proactive_ooda_notification, which send what they queue
  Drained,      \* the calls on the whatsapp channel with a full address
  Scheduler,    \* processes that run the recovery pass
  MaxAttempts,  \* _whatsapp_queue_max_attempts()
  MaxSends,     \* sends per pass
  Limit,        \* LIMIT of list_pending
  MaxFaults,    \* bound: crashes, lost answers of the provider, failed statements
  MaxMarks,     \* bound: calls of the API's /sent and /failed
  MaxDeferrals  \* bound: calls that meet an exhausted interruption budget

OutboxAssumption ==
  /\ KeyOf \in [Call -> Key \cup {NoKey}]
  /\ NoKey \notin Key
  /\ NoRow \notin Call
  /\ IsFiniteSet(Call) /\ IsFiniteSet(Scheduler)
  /\ Direct \subseteq {c \in Call : KeyOf[c] = NoKey}
  /\ Drained \subseteq Call
  /\ Scheduler \cap Call = {}
  /\ MaxAttempts \in Nat \ {0}
  /\ MaxSends \in Nat \ {0}
  /\ Limit \in Nat \ {0}
  /\ {MaxFaults, MaxMarks, MaxDeferrals} \subseteq Nat

Sender == Scheduler \cup Direct

VARIABLES
  row,      \* delivery_outbox
  at,       \* per call of queue_delivery: where it is
  got,      \* per call: the row it works on or has returned
  snapshot, \* per scheduler: the rows of its pass still to be sent, as listed
  job,      \* per sender: the row it sends, and how far it is
  copies,   \* history: messages that reached the recipient, per row
  tries,    \* history: sends started, per row
  excuses,  \* history: reasons to send a row again, per row
  spent     \* faults, marks and deferrals that have happened

vars == <<row, at, got, snapshot, job, copies, tries, excuses, spent>>

history == <<copies, tries, excuses>>

Row == [status : {"absent", "queued", "retry", "sent", "dead_lettered"},
        attempts : Nat, due : BOOLEAN, aged : BOOLEAN, born : Nat]

AbsentRow == [status |-> "absent", attempts |-> 0, due |-> TRUE,
              aged |-> FALSE, born |-> 0]

\* seen is the attempt_count of the listed row.
Entry == [id : Call, seen : Nat]

Idle == [phase |-> "idle", id |-> NoRow, seen |-> 0]

Job == [phase : {"idle", "send", "sent", "failed"}, id : Call \cup {NoRow}, seen : Nat]

Init ==
  /\ row = [c \in Call |-> AbsentRow]
  /\ at = [c \in Call |-> "start"]
  /\ got = [c \in Call |-> NoRow]
  /\ snapshot = [w \in Scheduler |-> {}]
  /\ job = [x \in Sender |-> Idle]
  /\ copies = [c \in Call |-> 0]
  /\ tries = [c \in Call |-> 0]
  /\ excuses = [c \in Call |-> 0]
  /\ spent = [faults |-> 0, marks |-> 0, deferrals |-> 0]

-----------------------------------------------------------------------------
Exists(c) == row[c].status # "absent"

SameKey(c) == {d \in Call : Exists(d) /\ KeyOf[c] # NoKey /\ KeyOf[d] = KeyOf[c]}

Pending(c) == row[c].status \in {"queued", "retry"}

Newest(S, n) == {c \in S : Cardinality({d \in S : row[d].born > row[c].born}) < n}

Fault ==
  /\ spent.faults < MaxFaults
  /\ spent' = [spent EXCEPT !.faults = @ + 1]

\* Who may still send the row: it is sending it, has it in its pass, or is
\* the call that queued it to send it.
WillSend(x, c) ==
  \/ x \in Sender /\ job[x].phase = "send" /\ job[x].id = c
  \/ x \in Scheduler /\ \E e \in snapshot[x] : e.id = c
  \/ x \in Direct /\ at[x] = "defer" /\ got[x] = c

HasSent(x, c) == job[x].phase = "sent" /\ job[x].id = c

\* A row leaves "sent": what was sent may be sent again.
Reopening(c) == IF row[c].status = "sent" THEN 1 ELSE 0

Excuse(c, n) == excuses' = [excuses EXCEPT ![c] = @ + n]

-----------------------------------------------------------------------------
(* The statements of the repository *)

InsertRow(c) ==
  row' = [row EXCEPT ![c] = [AbsentRow EXCEPT !.status = "queued",
            !.born = Cardinality({d \in Call : Exists(d)})]]

\* Mutant of RowSent: the row keeps its status.
RowSentReceiptOnly(c) == row' = [row EXCEPT ![c] = [@ EXCEPT !.due = TRUE]]

RowSent(c) == row' = [row EXCEPT ![c] = [@ EXCEPT !.status = "sent", !.due = TRUE]]

\* Unconditional: whatever status the row has.
RowFailed(c, dead, due) ==
  row' = [row EXCEPT ![c] = [@ EXCEPT
            !.status = IF dead THEN "dead_lettered" ELSE "retry",
            !.attempts = row[c].attempts + 1,
            !.due = dead \/ due]]

-----------------------------------------------------------------------------
(* queue_delivery *)

\* SELECT ... WHERE principal_id = ... AND idempotency_key = ... LIMIT 1
LookUp(c) ==
  /\ at[c] = "start"
  /\ IF SameKey(c) = {}
       THEN at' = [at EXCEPT ![c] = "insert"] /\ UNCHANGED got
       ELSE /\ at' = [at EXCEPT ![c] = "defer"]
            /\ \E d \in SameKey(c) : got' = [got EXCEPT ![c] = d]
  /\ UNCHANGED <<row, snapshot, job, history, spent>>

\* What the call does next once it is over: the proactive sender sends.
Continue(c, id) ==
  job' = IF c \in Direct
           THEN [job EXCEPT ![c] = [phase |-> "send", id |-> id, seen |-> 0]]
           ELSE job

\* The INSERT of a key that arrived in between violates the unique index, and
\* the exception leaves queue_delivery.  A direct call has no key; if queue_delivery fails
\* it after its INSERT, it sends what it can no longer mark, as when a mark is lost.
Insert(c) ==
  /\ at[c] = "insert"
  /\ IF SameKey(c) = {}
       THEN /\ InsertRow(c)
            /\ at' = [at EXCEPT ![c] = "defer"]
            /\ got' = [got EXCEPT ![c] = c]
            /\ UNCHANGED job
       ELSE /\ at' = [at EXCEPT ![c] = "raised"]
            /\ Continue(c, NoRow)
            /\ UNCHANGED <<row, got>>
  /\ UNCHANGED <<snapshot, history, spent>>

\* An exhausted interruption budget defers the row that was inserted or found.
Defer(c) ==
  /\ at[c] = "defer"
  /\ at' = [at EXCEPT ![c] = "returned"]
  /\ Continue(c, got[c])
  /\ \/ UNCHANGED <<row, excuses, spent>>
     \/ /\ spent.deferrals < MaxDeferrals
        /\ spent' = [spent EXCEPT !.deferrals = @ + 1]
        /\ Excuse(got[c], Reopening(got[c]))
        /\ RowFailed(got[c], FALSE, FALSE)
  /\ UNCHANGED <<got, snapshot, copies, tries>>

-----------------------------------------------------------------------------
(* The recovery pass of the scheduler *)

\* Mutant of Listed: it is cut after the newest row, of whatever channel.
ListedNewestOnly == Newest({c \in Call : Pending(c) /\ row[c].due}, 1)

\* list_pending: newest first, of every channel, LIMIT.
Listed == Newest({c \in Call : Pending(c) /\ row[c].due}, Limit)

\* The rows of the list it will send; the others it skips, or leaves to a
\* later pass for their age or for want of budget.
ListPending(w) ==
  /\ snapshot[w] = {} /\ job[w] = Idle
  /\ LET batch == Newest({c \in Listed \cap Drained : row[c].aged}, MaxSends)
     IN /\ batch # {}
        /\ snapshot' = [snapshot EXCEPT ![w] =
                          {[id |-> c, seen |-> row[c].attempts] : c \in batch}]
  /\ UNCHANGED <<row, at, got, job, history, spent>>

Take(w) ==
  /\ job[w] = Idle
  /\ \E e \in snapshot[w] :
       /\ \A f \in snapshot[w] : row[f.id].born <= row[e.id].born
       /\ job' = [job EXCEPT ![w] = [phase |-> "send", id |-> e.id, seen |-> e.seen]]
       /\ snapshot' = [snapshot EXCEPT ![w] = @ \ {e}]
  /\ UNCHANGED <<row, at, got, history, spent>>

\* The provider call.  It may deliver the message and still raise.
Send(x) ==
  /\ job[x].phase = "send"
  /\ LET c == job[x].id
         delivers == IF c = NoRow THEN UNCHANGED copies
                                  ELSE copies' = [copies EXCEPT ![c] = @ + 1]
         becomes(phase) == job' = [job EXCEPT ![x] = [@ EXCEPT !.phase = phase]]
         overlap == IF \E y \in Sender : HasSent(y, c) THEN 1 ELSE 0
     IN /\ IF c = NoRow THEN UNCHANGED tries ELSE tries' = [tries EXCEPT ![c] = @ + 1]
        /\ \/ /\ becomes("sent") /\ delivers
              /\ IF c = NoRow THEN UNCHANGED excuses ELSE Excuse(c, overlap)
              /\ UNCHANGED spent
           \/ becomes("failed") /\ UNCHANGED <<copies, excuses, spent>>
           \/ /\ becomes("failed") /\ delivers
              /\ Fault
              /\ IF c = NoRow THEN UNCHANGED excuses ELSE Excuse(c, 1)
  /\ UNCHANGED <<row, at, got, snapshot>>

Rest(x) == job' = [job EXCEPT ![x] = Idle]

\* Marking a row sent does not reach those who are about to send it.
MarkSent(x) ==
  /\ job[x].phase = "sent"
  /\ LET c == job[x].id
         others == {y \in Sender : y # x /\ (WillSend(y, c) \/ HasSent(y, c))}
     IN \/ /\ c = NoRow
           /\ Rest(x)
           /\ UNCHANGED <<row, excuses, spent>>
        \/ /\ c # NoRow
           /\ RowSent(c)
           /\ Excuse(c, Cardinality(others))
           /\ Rest(x)
           /\ UNCHANGED spent
        \/ /\ c # NoRow
           /\ Fault
           /\ Excuse(c, 1)
           /\ IF x \in Scheduler
                THEN job' = [job EXCEPT ![x] = [@ EXCEPT !.phase = "failed"]]
                ELSE Rest(x)
           /\ UNCHANGED row
  /\ UNCHANGED <<at, got, snapshot, copies, tries>>

\* Mutant of Exhausted: the attempt that just failed is not counted.
ExhaustedLate(x) == x \in Scheduler /\ job[x].seen >= MaxAttempts

\* The count is the one that was listed; the proactive sender never gives up.
Exhausted(x) == x \in Scheduler /\ job[x].seen + 1 >= MaxAttempts

\* The scheduler's backoff lies ahead; the proactive sender leaves it empty.
MarkFailed(x) ==
  /\ job[x].phase = "failed"
  /\ LET c == job[x].id
     IN IF c = NoRow THEN UNCHANGED <<row, excuses>>
        ELSE /\ RowFailed(c, Exhausted(x), x \in Direct)
             /\ Excuse(c, Reopening(c))
  /\ Rest(x)
  /\ UNCHANGED <<at, got, snapshot, copies, tries, spent>>

-----------------------------------------------------------------------------
(* The API's marks, crashes and the clock *)

Mark(c) ==
  /\ Exists(c)
  /\ spent.marks < MaxMarks
  /\ spent' = [spent EXCEPT !.marks = @ + 1]
  /\ UNCHANGED <<at, got, snapshot, job, copies, tries>>

ApiSent(c) ==
  /\ Mark(c)
  /\ RowSent(c)
  /\ Excuse(c, Cardinality({y \in Sender : WillSend(y, c) \/ HasSent(y, c)}))

ApiFailed(c) ==
  /\ Mark(c)
  /\ \E dead, due \in BOOLEAN : RowFailed(c, dead, due)
  /\ Excuse(c, Reopening(c))

\* A sender that stops forgets its pass; a message it sent stays unrecorded.
Crash(x) ==
  /\ job[x] # Idle
  /\ Fault
  /\ Rest(x)
  /\ snapshot' = IF x \in Scheduler THEN [snapshot EXCEPT ![x] = {}] ELSE snapshot
  /\ IF job[x].phase = "sent" /\ job[x].id # NoRow
       THEN Excuse(job[x].id, 1) ELSE UNCHANGED excuses
  /\ UNCHANGED <<row, at, got, copies, tries>>

Tick(c) ==
  /\ Exists(c)
  /\ \/ ~row[c].due /\ row' = [row EXCEPT ![c] = [@ EXCEPT !.due = TRUE]]
     \/ ~row[c].aged /\ row' = [row EXCEPT ![c] = [@ EXCEPT !.aged = TRUE]]
  /\ UNCHANGED <<at, got, snapshot, job, history, spent>>

Next ==
  \/ \E c \in Call :
       LookUp(c) \/ Insert(c) \/ Defer(c) \/ ApiSent(c) \/ ApiFailed(c) \/ Tick(c)
  \/ \E w \in Scheduler : ListPending(w) \/ Take(w)
  \/ \E x \in Sender : Send(x) \/ MarkSent(x) \/ MarkFailed(x) \/ Crash(x)

\* Requests are served, the scheduler loop runs pass after pass, sends end, and the
\* clock advances.
Serve(c) == LookUp(c) \/ Insert(c) \/ Defer(c)
Pass(w) == ListPending(w) \/ Take(w)
Deliver(x) == Send(x) \/ MarkSent(x) \/ MarkFailed(x)

Fairness ==
  /\ \A c \in Call : WF_vars(Serve(c)) /\ WF_vars(Tick(c))
  /\ \A w \in Scheduler : WF_vars(Pass(w))
  /\ \A x \in Sender : WF_vars(Deliver(x))

Spec == Init /\ [][Next]_vars
FairSpec == Spec /\ Fairness

-----------------------------------------------------------------------------
TypeOK ==
  /\ row \in [Call -> Row]
  /\ at \in [Call -> {"start", "insert", "defer", "returned", "raised"}]
  /\ got \in [Call -> Call \cup {NoRow}]
  /\ snapshot \in [Scheduler -> SUBSET Entry]
  /\ job \in [Sender -> Job]
  /\ \A h \in {copies, tries, excuses} : h \in [Call -> Nat]
  /\ spent \in [faults : Nat, marks : Nat, deferrals : Nat]

\* CHANGELOG.md: "idempotent enqueue".  However calls with one key interleave,
\* those that return have the same row, and a call that raises leaves the
\* message with the row of another call.
OneRowPerKey ==
  \A c \in Call :
    /\ at[c] = "raised" => SameKey(c) # {}
    /\ at[c] \in {"defer", "returned"} /\ KeyOf[c] # NoKey => SameKey(c) = {got[c]}

\* Every message beyond the first has a cause: the provider delivered and
\* raised, a mark or a process was lost after a send, a row left "sent", or two
\* senders worked on the row at once.  Nothing else sends a message twice.
CopiesExplained ==
  \A c \in Call :
    copies[c] <= excuses[c]
      + IF row[c].status = "sent" \/ \E x \in Sender : HasSent(x, c) THEN 1 ELSE 0

\* The retry limit bounds the sends of a row, not only its counter: a row is
\* sent MaxAttempts times at most, and once more for each fault, each mark of
\* the API and each deferral, which may reopen a row that was closed.
TriesBounded ==
  \A c \in Call \ Direct :
    tries[c] <= MaxAttempts + spent.faults + spent.marks + spent.deferrals

\* A dead letter has used up its attempts, or the API declared it dead.
DeadLettersEarned ==
  \A c \in Call :
    row[c].status = "dead_lettered" => row[c].attempts >= MaxAttempts \/ spent.marks > 0

\* A message is neither queued twice under one key nor sent twice without a cause.
RepeatsExplained == OneRowPerKey /\ CopiesExplained

\* Retries end, and not before the attempts are used up.
RetriesLimited == TriesBounded /\ DeadLettersEarned

\* CHANGELOG.md: "idempotent enqueue".  Without faults and without marks of the
\* API, a message is delivered once, however often its call is repeated.
\* Not kept by the code: README.md, "Departures from the documents".
DeliveredOnce == \A c \in Call \ Direct : copies[c] <= 1

\* No call that repeats a key fails.
\* Not kept by the code: README.md, "Departures from the documents".
RepeatsAnswered == \A c \in Call : at[c] # "raised"

\* Every whatsapp delivery that is queued ends sent or as a dead letter: as calls
\* are bounded, there comes a time when none is pending.
EveryDeliverySettles ==
  (\E c \in Drained : Pending(c)) ~> \A c \in Drained : ~Pending(c)
=============================================================================
