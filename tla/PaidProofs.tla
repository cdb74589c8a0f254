----------------------------- MODULE PaidProofs -----------------------------
(***************************************************************************)
(* What is paid for.  What VocalLab keeps for any number of workers,       *)
(* observers, requests and texts, and that its ledger implements Purchase; *)
(* then, for an instance of OneMinLeases, what the leases keep.            *)
(***************************************************************************)
EXTENDS VocalLab, FiniteSetTheorems, WellFoundedInduction, TLAPS

Pacing == {"post_pace", "post_sleep", "post_again", "post"}

Polling == {"poll_pace", "poll_sleep", "poll_again", "poll", "poll_failed", "polled"}

Live(s) == rows[s].status \notin {"absent", "released"}

\* A worker inside a call has the provider lock.
Held == \A w \in Worker : at[w] # "idle" => lock = w /\ req[w] \in Request

Observing ==
  \A o \in Observer : at[o] \in {"idle", "poll_pace", "poll_sleep", "poll_again", "poll"}

Named == \A s \in Slot : rows[s].status = "absent" <=> rows[s].fp = NoFp

\* At most one reservation stands for a text.
OneRow == \A s, t \in Slot : Live(s) /\ Live(t) /\ rows[s].fp = rows[t].fp => s = t

HasRow(w, statuses) == rows[slot(w)].fp = fp(w) /\ rows[slot(w)].status \in statuses

\* What the row of a call is while the call is at work: nobody else writes it then.
AtWork(w) ==
  /\ at[w] \in {"balance", "reserve"} => ~Refused(slot(w), fp(w)) /\ ~Resumable(slot(w))
  /\ at[w] = "start" => HasRow(w, {"reserved"})
  /\ at[w] \in Pacing \cup {"reply", "post_failed", "record"} => HasRow(w, {"post_started"})
  /\ at[w] = "unknown" => HasRow(w, {"post_started", "generation_known"})
  /\ at[w] = "recorded" => HasRow(w, {"generation_known"})
  /\ at[w] \in Polling \cup {"settle"} =>
       HasRow(w, {"generation_known", "charged_pending_materialization"})
  /\ at[w] \in {"materialize", "commit"} => HasRow(w, {"charged_pending_materialization"})
  /\ at[w] \in {"reply", "post_failed", "record"} => order[fp(w)] # "none"
  /\ at[w] = "settle" => order[fp(w)] = "charged"

Working == \A w \in Worker : AtWork(w)

Frozen == \E s \in Slot : rows[s].status \in {"unknown", "complete_budget_violation"}

\* Between the reservation and the POST, the provider knows nothing of the text and
\* no reservation is ambiguous.
UnsentBy(w) == at[w] \in {"start"} \cup Pacing => order[fp(w)] = "none" /\ ~Frozen

Unsent == \A w \in Worker : UnsentBy(w)

\* A charge above its estimate has opened the circuit, for good.
Violations ==
  (\E s \in Slot : rows[s].status = "complete_budget_violation") => circuit = "open"

\* The provider is asked by a POST, and by one.
Posted == \A f \in Fp : posts[f] = IF order[f] = "none" THEN 0 ELSE 1

IInv ==
  /\ TypeOK /\ Held /\ Observing /\ Named /\ OneRow /\ Working
  /\ Unsent /\ Violations /\ Posted /\ ChargesRemembered

-----------------------------------------------------------------------------
(* Actions, and what they do to a row. *)

\* The steps of a worker that leave the rows alone.
Handles(w) ==
  \/ \E r \in Request : Begin(w, r)
  \/ Find(w) \/ ReadBalance(w) \/ Post(w) \/ Reply(w) \/ PostFailed(w)
  \/ Recorded(w) \/ RecordedFails(w) \/ Poll(w) \/ PollFailed(w) \/ Polled(w)
  \/ Materialize(w) \/ Return(w) \/ Crash(w)

Paces(p, purpose) == Pace(p, purpose) \/ Wait(p, purpose) \/ GiveUp(p, purpose)

Rewrites(s, r) == r \in Reservation /\ rows' = [rows EXCEPT ![s] = r]

\* The lifecycle of a reservation.
Moves ==
  {<<"reserved", "post_started">>, <<"reserved", "released">>,
   <<"post_started", "generation_known">>, <<"post_started", "unknown">>,
   <<"generation_known", "charged_pending_materialization">>,
   <<"generation_known", "complete_budget_violation">>,
   <<"charged_pending_materialization", "complete">>}

Advances(s, r) ==
  /\ Rewrites(s, r)
  /\ r.fp = rows[s].fp /\ r.estimated = rows[s].estimated
  /\ <<rows[s].status, r.status>> \in Moves
  /\ r.status \in Charged =>
       \/ rows[s].status \in Charged /\ r.used = rows[s].used
       \/ order[r.fp] = "charged" /\ r.used = cost[r.fp]

Reserves(s, r) ==
  /\ Rewrites(s, r)
  /\ rows[s].status \in {"absent", "released"}
  /\ rows[s].status = "absent" \/ rows[s].fp = r.fp
  /\ r.status = "reserved" /\ r.fp \in Fp
  /\ \A t \in Slot : Live(t) => rows[t].fp # r.fp

LEMMA WriteStatus ==
  ASSUME rows \in [Slot -> Reservation], NEW s \in Slot, NEW status \in Status,
         SetStatus(s, status)
  PROVE  \E r \in Reservation :
           /\ rows' = [rows EXCEPT ![s] = r]
           /\ r.status = status /\ r.fp = rows[s].fp
           /\ r.estimated = rows[s].estimated /\ r.used = rows[s].used
<1>1. PICK r \in Reservation : r = rows[s]
  OBVIOUS
<1>2. PICK q : q = [r EXCEPT !.status = status]
  OBVIOUS
<1>3. q \in Reservation /\ q.status = status /\ q.fp = r.fp
      /\ q.estimated = r.estimated /\ q.used = r.used
  BY <1>2 DEF Reservation
<1>4. rows' = [rows EXCEPT ![s] = q]
  BY <1>1, <1>2 DEF SetStatus
<1> QED BY <1>1, <1>3, <1>4

LEMMA WriteCharge ==
  ASSUME rows \in [Slot -> Reservation], NEW s \in Slot, NEW points \in Nat,
         ReconcileCharge(s, points)
  PROVE  \E r \in Reservation :
           /\ rows' = [rows EXCEPT ![s] = r]
           /\ r.fp = rows[s].fp /\ r.estimated = rows[s].estimated /\ r.used = points
           /\ r.status = IF points > rows[s].estimated
                           THEN "complete_budget_violation"
                           ELSE "charged_pending_materialization"
<1>1. PICK r \in Reservation : r = rows[s]
  OBVIOUS
<1>2. ASSUME NEW status \in Status,
             rows' = [rows EXCEPT ![s] = [@ EXCEPT !.used = points, !.status = status]]
      PROVE  \E q \in Reservation :
               /\ rows' = [rows EXCEPT ![s] = q]
               /\ q.status = status /\ q.fp = rows[s].fp
               /\ q.estimated = rows[s].estimated /\ q.used = points
  <2>1. PICK q : q = [r EXCEPT !.used = points, !.status = status]
    OBVIOUS
  <2>2. q = [status |-> status, fp |-> r.fp, estimated |-> r.estimated, used |-> points]
    BY <2>1 DEF Reservation
  <2>3. q \in Reservation
    BY <2>2 DEF Reservation
  <2>4. rows' = [rows EXCEPT ![s] = q]
    BY <1>1, <1>2, <2>1
  <2> QED BY <1>1, <2>2, <2>3, <2>4
<1>3. CASE points > rows[s].estimated
  BY <1>2, <1>3 DEF ReconcileCharge, Status
<1>4. CASE ~(points > rows[s].estimated)
  BY <1>2, <1>4 DEF ReconcileCharge, Status
<1> QED BY <1>3, <1>4

\* Which actions there are.
LEMMA NextActions ==
  ASSUME [Next]_vars
  PROVE  \/ \E w \in Worker :
              \/ Handles(w)
              \/ ReservePoints(w) \/ StartPost(w) \/ GiveUpPost(w) \/ Record(w)
              \/ Settle(w) \/ Commit(w)
         \/ \E p \in Process, purpose \in {"post", "poll"} : Paces(p, purpose)
         \/ \E o \in Observer : Observe(o) \/ Observed(o)
         \/ \E f \in Fp : Charge(f) \/ Drop(f)
         \/ \E s \in Slot : ReleaseReservation(s)
         \/ Tick
         \/ UNCHANGED vars
BY Zenon DEF Next, Handles, Paces

-----------------------------------------------------------------------------
(* Types. *)

\* Places that a step of a worker may lead to.
LEMMA Moved ==
  ASSUME TypeOK, NEW p \in Process, NEW place \in Places, Go(p, place)
  PROVE  at' \in [Process -> Places]
BY DEF TypeOK, Go

LEMMA WithinTypes ==
  ASSUME TypeOK, NEW p \in Process, NEW from, NEW to \in Places, Within(p, from, to)
  PROVE  at' \in [Process -> Places] /\ UNCHANGED <<lock, req>>
BY DEF TypeOK, Go, Within

LEMMA FinishTypes ==
  ASSUME TypeOK, NEW w \in Worker, Finish(w)
  PROVE  /\ at' \in [Process -> Places]
         /\ lock' \in Worker \cup {Nobody}
         /\ req' \in [Worker -> Request \cup {NoRequest}]
BY DEF TypeOK, Go, Finish, Places, Process

LEMMA FailureTypes ==
  ASSUME failures \in 0..3, circuit \in {"closed", "open"},
         RecordUpstreamFailure \/ RecordProviderSuccess
  PROVE  /\ failures' \in 0..3 /\ circuit' \in {"closed", "open"}
         /\ circuit = "open" => circuit' = "open"
BY DEF RecordUpstreamFailure, RecordProviderSuccess

LEMMA RowTypes ==
  ASSUME rows \in [Slot -> Reservation], NEW s \in Slot, NEW r, Advances(s, r) \/ Reserves(s, r)
  PROVE  rows' \in [Slot -> Reservation]
BY DEF Advances, Reserves, Rewrites

\* What a worker has in hand.
LEMMA InHand ==
  ASSUME VocalLabAssumption, TypeOK, Held, NEW w \in Worker, at[w] # "idle"
  PROVE  /\ req[w] \in Request /\ slot(w) \in Slot /\ fp(w) \in Fp /\ lock = w
         /\ Estimate[fp(w)] \in Nat
BY DEF VocalLabAssumption, TypeOK, Held, slot, fp

-----------------------------------------------------------------------------
(* What each action that writes a row does to it. *)

LEMMA StartWrites ==
  ASSUME VocalLabAssumption, TypeOK, Held, NEW w \in Worker, StartPost(w)
  PROVE  \E r : Advances(slot(w), r) /\ r.status = "post_started"
<1>1. slot(w) \in Slot
  BY InHand DEF StartPost, Within
<1>2. PICK r \in Reservation :
        /\ rows' = [rows EXCEPT ![slot(w)] = r]
        /\ r.status = "post_started" /\ r.fp = rows[slot(w)].fp
        /\ r.estimated = rows[slot(w)].estimated /\ r.used = rows[slot(w)].used
  BY <1>1, WriteStatus DEF StartPost, MarkPostStarted, TypeOK, LedgerTypeOK, Status
<1> QED BY <1>2 DEF StartPost, MarkPostStarted, Advances, Rewrites, Moves, Charged

LEMMA RecordWrites ==
  ASSUME VocalLabAssumption, TypeOK, Held, NEW w \in Worker, Record(w), rows' # rows
  PROVE  (\E r : Advances(slot(w), r) /\ r.status = "generation_known") /\ at' = [at EXCEPT ![w] = "recorded"]
<1>1. slot(w) \in Slot /\ RecordGeneration(slot(w)) /\ Within(w, "record", "recorded")
  BY InHand DEF Record
<1>2. PICK r \in Reservation :
        /\ rows' = [rows EXCEPT ![slot(w)] = r]
        /\ r.status = "generation_known" /\ r.fp = rows[slot(w)].fp
        /\ r.estimated = rows[slot(w)].estimated /\ r.used = rows[slot(w)].used
  BY <1>1, WriteStatus DEF RecordGeneration, TypeOK, LedgerTypeOK, Status
<1> QED BY <1>1, <1>2 DEF RecordGeneration, Within, Go, Advances, Rewrites, Moves, Charged

LEMMA GiveUpWrites ==
  ASSUME VocalLabAssumption, TypeOK, Held, NEW w \in Worker, GiveUpPost(w), rows' # rows
  PROVE  \E r : Advances(slot(w), r) /\ r.status = "unknown"
<1>1. slot(w) \in Slot /\ MarkUnknown(slot(w))
  BY InHand DEF GiveUpPost
<1>2. PICK r \in Reservation :
        /\ rows' = [rows EXCEPT ![slot(w)] = r]
        /\ r.status = "unknown" /\ r.fp = rows[slot(w)].fp
        /\ r.estimated = rows[slot(w)].estimated /\ r.used = rows[slot(w)].used
  BY <1>1, WriteStatus DEF MarkUnknown, TypeOK, LedgerTypeOK, Status
<1> QED BY <1>1, <1>2 DEF MarkUnknown, Advances, Rewrites, Moves, Charged

LEMMA SettleWrites ==
  ASSUME VocalLabAssumption, TypeOK, Held, Working, NEW w \in Worker, Settle(w), rows' # rows
  PROVE  \E r : /\ Advances(slot(w), r)
                /\ \/ /\ r.status = "complete_budget_violation" /\ circuit' = "open"
                      /\ Finish(w)
                   \/ /\ r.status = "charged_pending_materialization"
                      /\ UNCHANGED circuit
                      /\ Within(w, "settle", "materialize")
<1>1. slot(w) \in Slot /\ fp(w) \in Fp /\ cost[fp(w)] \in Nat
  BY InHand DEF Settle, TypeOK
<1>2. /\ ReconcileCharge(slot(w), cost[fp(w)])
      /\ IF cost[fp(w)] > rows[slot(w)].estimated THEN Finish(w) ELSE Within(w, "settle", "materialize")
  BY Zenon DEF Settle
<1>3. PICK r \in Reservation :
        /\ rows' = [rows EXCEPT ![slot(w)] = r]
        /\ r.fp = rows[slot(w)].fp /\ r.estimated = rows[slot(w)].estimated
        /\ r.used = cost[fp(w)]
        /\ r.status = IF cost[fp(w)] > rows[slot(w)].estimated
                        THEN "complete_budget_violation"
                        ELSE "charged_pending_materialization"
  BY <1>1, <1>2, WriteCharge DEF TypeOK, LedgerTypeOK
<1>4. rows[slot(w)].fp = fp(w) /\ order[fp(w)] = "charged"
  BY DEF Settle, Working, AtWork, HasRow
<1>5. Advances(slot(w), r)
  BY <1>2, <1>3, <1>4 DEF ReconcileCharge, Advances, Rewrites, Moves
<1> QED BY <1>2, <1>3, <1>5 DEF ReconcileCharge

LEMMA CommitWrites ==
  ASSUME VocalLabAssumption, TypeOK, Held, NEW w \in Worker, Commit(w)
  PROVE  \E r : Advances(slot(w), r) /\ r.status = "complete"
<1>1. slot(w) \in Slot
  BY InHand DEF Commit, Within
<1>2. PICK r \in Reservation :
        /\ rows' = [rows EXCEPT ![slot(w)] = r]
        /\ r.status = "complete" /\ r.fp = rows[slot(w)].fp
        /\ r.estimated = rows[slot(w)].estimated /\ r.used = rows[slot(w)].used
  BY <1>1, WriteStatus DEF Commit, CommitMaterialized, TypeOK, LedgerTypeOK, Status
<1> QED BY <1>2 DEF Commit, CommitMaterialized, Advances, Rewrites, Moves, Charged

LEMMA ReleaseWrites ==
  ASSUME TypeOK, NEW s \in Slot, ReleaseReservation(s)
  PROVE  \E r : Advances(s, r) /\ r.status = "released"
<1>1. PICK r \in Reservation :
        /\ rows' = [rows EXCEPT ![s] = r]
        /\ r.status = "released" /\ r.fp = rows[s].fp /\ r.estimated = rows[s].estimated
  BY WriteStatus DEF ReleaseReservation, Release, TypeOK, LedgerTypeOK, Status
<1> QED BY <1>1 DEF ReleaseReservation, Release, Advances, Rewrites, Moves, Charged

\* A reservation is written where no other stands for the text.
LEMMA ReserveWrites ==
  ASSUME VocalLabAssumption, TypeOK, Held, Working, NEW w \in Worker, ReservePoints(w), rows' # rows
  PROVE  /\ \E r : /\ Reserves(slot(w), r)
                   /\ r.fp = fp(w) /\ r.estimated = Estimate[fp(w)]
         /\ Reservable(slot(w), fp(w), Estimate[fp(w)], seen[w])
<1> DEFINE s == slot(w)
           f == fp(w)
           r == [status |-> "reserved", fp |-> f, estimated |-> Estimate[f], used |-> 0]
<1>1. s \in Slot /\ f \in Fp /\ Estimate[f] \in Nat
  BY InHand DEF ReservePoints
<1>2. /\ Reservable(s, f, Estimate[f], seen[w])
      /\ rows[s].status # "reserved"
      /\ rows' = [rows EXCEPT ![s] = r]
  BY Zenon DEF ReservePoints, WriteReservation
<1>3. ~Refused(s, f) /\ ~Duplicate(s, f) /\ ~Resumable(s)
  BY <1>2 DEF Reservable, Working, AtWork, ReservePoints
<1>4. rows[s].status \in Status
  BY <1>1 DEF TypeOK, LedgerTypeOK, Reservation
<1>5. rows[s].status \in {"absent", "released"} /\ (rows[s].status = "absent" \/ rows[s].fp = f)
  BY <1>2, <1>3, <1>4 DEF Refused, KeyReused, ChargeUnknown, Settled, Resumable, Status
<1>6. \A t \in Slot : Live(t) => rows[t].fp # f
  BY <1>3, <1>5 DEF Duplicate, Live
<1>7. r \in Reservation /\ r.status = "reserved" /\ r.fp = f /\ r.estimated = Estimate[f]
  BY <1>1 DEF Reservation, Status
<1>8. rows[s].status = "absent" \/ rows[s].fp = r.fp
  BY <1>5, <1>7
<1> HIDE DEF r
<1> QED BY <1>1, <1>2, <1>5, <1>6, <1>7, <1>8 DEF Reserves, Rewrites

-----------------------------------------------------------------------------
(* A step keeps the types. *)

LEMMA TypeHandles ==
  ASSUME VocalLabAssumption, TypeOK, Held, Observing, NEW w \in Worker, Handles(w)
  PROVE  TypeOK'
<1> USE DEF TypeOK, LedgerTypeOK
<1>1. w \in Process
  BY DEF Process
<1>2. ASSUME NEW place \in Places, Go(w, place) PROVE at' \in [Process -> Places]
  BY <1>1, <1>2, Moved
<1>3. ASSUME NEW from, NEW to \in Places, Within(w, from, to)
      PROVE  at' \in [Process -> Places] /\ UNCHANGED <<lock, req>>
  BY <1>1, <1>3, WithinTypes
<1>4. ASSUME Finish(w)
      PROVE  /\ at' \in [Process -> Places]
             /\ lock' \in Worker \cup {Nobody}
             /\ req' \in [Worker -> Request \cup {NoRequest}]
  BY <1>4, FinishTypes
<1>5. ASSUME RecordUpstreamFailure \/ RecordProviderSuccess
      PROVE  failures' \in 0..3 /\ circuit' \in {"closed", "open"}
  BY <1>5, FailureTypes
<1>6. ASSUME NEW r \in Request, Begin(w, r) PROVE TypeOK'
  BY <1>2, <1>6 DEF Begin, Places, ledgerVars, provider
<1>7. CASE Find(w)
  BY <1>3, <1>4, <1>7 DEF Find, Places, ledgerVars, provider
<1>8. CASE ReadBalance(w)
  BY <1>3, <1>4, <1>8 DEF ReadBalance, Places, ledgerVars, provider
<1>9. CASE Post(w)
  <2>1. fp(w) \in Fp
    BY <1>9, InHand DEF Post, Within
  <2> QED BY <1>3, <1>9, <2>1 DEF Post, Places, ledgerVars
<1>10. CASE Reply(w)
  BY <1>3, <1>10 DEF Reply, Places, ledgerVars, provider
<1>11. CASE PostFailed(w)
  BY <1>3, <1>5, <1>11 DEF PostFailed, Places, provider
<1>12. ASSUME NEW from, Answered(w, from) PROVE TypeOK'
  BY <1>3, <1>4, <1>5, <1>12 DEF Answered, Places, provider
<1>13. CASE RecordedFails(w)
  BY <1>3, <1>13 DEF RecordedFails, Places, ledgerVars, provider
<1>14. CASE Poll(w)
  BY <1>3, <1>4, <1>14 DEF Poll, Places, ledgerVars, provider
<1>15. CASE PollFailed(w)
  BY <1>4, <1>5, <1>15 DEF PollFailed, provider
<1>16. CASE Materialize(w)
  BY <1>3, <1>4, <1>16 DEF Materialize, Places, ledgerVars, provider
<1>17. CASE Return(w) \/ Crash(w)
  BY <1>4, <1>17 DEF Return, Crash, ledgerVars, provider
<1> QED
  BY <1>6, <1>7, <1>8, <1>9, <1>10, <1>11, <1>12, <1>13, <1>14, <1>15, <1>16, <1>17
  DEF Handles, Recorded, Polled

LEMMA TypeWrites ==
  ASSUME VocalLabAssumption, TypeOK, Held, Working, NEW w \in Worker,
         \/ ReservePoints(w) \/ StartPost(w) \/ GiveUpPost(w) \/ Record(w)
         \/ Settle(w) \/ Commit(w)
  PROVE  TypeOK'
<1>1. w \in Process
  BY DEF Process
<1>2. ASSUME NEW from, NEW to \in Places, Within(w, from, to)
      PROVE  at' \in [Process -> Places] /\ UNCHANGED <<lock, req>>
  BY <1>1, <1>2, WithinTypes
<1>3. ASSUME Finish(w)
      PROVE  /\ at' \in [Process -> Places]
             /\ lock' \in Worker \cup {Nobody}
             /\ req' \in [Worker -> Request \cup {NoRequest}]
  BY <1>3, FinishTypes
<1>4. at[w] # "idle"
  BY DEF ReservePoints, StartPost, GiveUpPost, Record, Settle, Commit, Within
<1>5. slot(w) \in Slot
  BY <1>4, InHand
<1>6. rows \in [Slot -> Reservation]
  BY DEF TypeOK, LedgerTypeOK
<1>7. ASSUME rows' # rows PROVE rows' \in [Slot -> Reservation]
  BY <1>5, <1>6, <1>7, RowTypes, ReserveWrites, StartWrites, GiveUpWrites, RecordWrites,
     SettleWrites, CommitWrites
<1>8. rows' \in [Slot -> Reservation]
  BY <1>6, <1>7
<1> USE DEF TypeOK, LedgerTypeOK
<1>9. CASE ReservePoints(w)
  BY <1>2, <1>3, <1>8, <1>9 DEF ReservePoints, Places, provider
<1>10. CASE StartPost(w)
  BY <1>2, <1>8, <1>10 DEF StartPost, Places, provider
<1>11. CASE GiveUpPost(w)
  <2>1. faults' \in Nat
    BY <1>11 DEF GiveUpPost
  <2> QED BY <1>3, <1>8, <1>11, <2>1 DEF GiveUpPost, provider
<1>12. CASE Record(w)
  <2>1. faults' \in Nat
    BY <1>12 DEF Record
  <2>2. Within(w, "record", "recorded") \/ Within(w, "record", "unknown")
    BY <1>12 DEF Record
  <2>3. at' \in [Process -> Places] /\ UNCHANGED <<lock, req>>
    BY <1>2, <2>2 DEF Places
  <2> QED BY <1>8, <1>12, <2>1, <2>3 DEF Record, provider
<1>13. CASE Settle(w)
  <2>1. Within(w, "settle", "materialize") \/ Finish(w)
    BY <1>13 DEF Settle
  <2>2. /\ at' \in [Process -> Places]
        /\ lock' \in Worker \cup {Nobody}
        /\ req' \in [Worker -> Request \cup {NoRequest}]
    BY <1>2, <1>3, <2>1 DEF Places
  <2>3. circuit' \in {"closed", "open"}
    BY <1>13 DEF Settle, ReconcileCharge
  <2> QED BY <1>8, <1>13, <2>2, <2>3 DEF Settle, provider
<1>14. CASE Commit(w)
  BY <1>2, <1>8, <1>14 DEF Commit, Places, provider
<1> QED BY <1>9, <1>10, <1>11, <1>12, <1>13, <1>14

LEMMA TypeStep ==
  ASSUME VocalLabAssumption, TypeOK, Held, Observing, Working, [Next]_vars
  PROVE  TypeOK'
<1> USE DEF TypeOK, LedgerTypeOK
<1>1. ASSUME NEW p \in Process, NEW purpose \in {"post", "poll"}, Paces(p, purpose)
      PROVE  TypeOK'
  <2>1. ASSUME NEW from, NEW to \in Places, Within(p, from, to)
        PROVE  at' \in [Process -> Places] /\ UNCHANGED <<lock, req>>
    BY <2>1, WithinTypes
  <2>2. CASE Pace(p, purpose)
    BY <2>1, <2>2 DEF Pace, Places, provider
  <2>3. CASE Wait(p, purpose)
    BY <2>1, <2>3 DEF Wait, SleepAt, Places, ledgerVars, provider
  <2>4. CASE GiveUp(p, purpose)
    <3>1. at[p] \in {"post_again", "poll_again"}
      BY <2>4 DEF GiveUp, AgainAt
    <3>2. limited' \subseteq Request
      BY <2>4, <3>1, InHand DEF GiveUp
    <3>3. /\ at' \in [Process -> Places]
          /\ lock' \in Worker \cup {Nobody}
          /\ req' \in [Worker -> Request \cup {NoRequest}]
      BY <2>1, <2>4, FinishTypes DEF GiveUp, Places
    <3> QED BY <2>4, <3>2, <3>3 DEF GiveUp, ledgerVars, provider
  <2> QED BY <1>1, <2>2, <2>3, <2>4 DEF Paces
<1>2. ASSUME NEW o \in Observer, Observe(o) \/ Observed(o) PROVE TypeOK'
  <2>1. ASSUME NEW from, NEW to \in Places, Within(o, from, to)
        PROVE  at' \in [Process -> Places] /\ UNCHANGED <<lock, req>>
    BY <2>1, WithinTypes DEF Process
  <2>2. CASE Observe(o)
    BY <2>1, <2>2 DEF Observe, Places, ledgerVars, provider
  <2>3. CASE Observed(o)
    BY <2>1, <2>3, FailureTypes DEF Observed, Places, provider
  <2> QED BY <1>2, <2>2, <2>3
<1>3. ASSUME NEW f \in Fp, Charge(f) PROVE TypeOK'
  BY <1>3 DEF Charge, ledgerVars, VocalLabAssumption
<1>4. ASSUME NEW f \in Fp, Drop(f) PROVE TypeOK'
  BY <1>4 DEF Drop, ledgerVars
<1>5. ASSUME NEW s \in Slot, ReleaseReservation(s) PROVE TypeOK'
  <2>1. rows' \in [Slot -> Reservation]
    BY <1>5, ReleaseWrites, RowTypes
  <2> QED BY <1>5, <2>1 DEF ReleaseReservation, provider
<1>6. CASE Tick
  BY <1>6 DEF Tick, provider, Places
<1>7. CASE UNCHANGED vars
  BY <1>7 DEF vars, ledgerVars
<1> QED
  BY <1>1, <1>2, <1>3, <1>4, <1>5, <1>6, <1>7, NextActions, TypeHandles, TypeWrites

-----------------------------------------------------------------------------
(* The rows: their lifecycle, and one row per text. *)

LEMMA HandlesKeepsRows == ASSUME NEW w \in Worker, Handles(w) PROVE UNCHANGED rows
BY DEF Handles, Begin, Find, ReadBalance, Post, Reply, PostFailed, Recorded, RecordedFails,
   Poll, PollFailed, Polled, Answered, Materialize, Return, Crash, ledgerVars

LEMMA PacesKeepsRows ==
  ASSUME NEW p, NEW purpose, Paces(p, purpose) PROVE UNCHANGED rows
BY DEF Paces, Pace, Wait, GiveUp, ledgerVars

LEMMA RowsStep ==
  ASSUME VocalLabAssumption, TypeOK, Held, Working, [Next]_vars
  PROVE  rows' = rows \/ \E s \in Slot : \E r : Advances(s, r) \/ Reserves(s, r)
<1>1. ASSUME NEW w \in Worker,
             \/ ReservePoints(w) \/ StartPost(w) \/ GiveUpPost(w) \/ Record(w)
             \/ Settle(w) \/ Commit(w)
      PROVE  rows' = rows \/ \E s \in Slot : \E r : Advances(s, r) \/ Reserves(s, r)
  <2>1. at[w] # "idle"
    BY <1>1 DEF ReservePoints, StartPost, GiveUpPost, Record, Settle, Commit, Within
  <2>2. slot(w) \in Slot
    BY <2>1, InHand
  <2> QED
    BY <1>1, <2>2, ReserveWrites, StartWrites, GiveUpWrites, RecordWrites, SettleWrites,
        CommitWrites
<1>2. ASSUME NEW s \in Slot, ReleaseReservation(s) PROVE \E r : Advances(s, r)
  BY <1>2, ReleaseWrites
<1>3. ASSUME NEW o \in Observer, Observe(o) \/ Observed(o) PROVE rows' = rows
  BY <1>3 DEF Observe, Observed, ledgerVars
<1>4. ASSUME NEW f \in Fp, Charge(f) \/ Drop(f) PROVE rows' = rows
  BY <1>4 DEF Charge, Drop, ledgerVars
<1>5. CASE Tick \/ UNCHANGED vars
  BY <1>5 DEF Tick, vars, ledgerVars
<1> QED BY <1>1, <1>2, <1>3, <1>4, <1>5, NextActions, HandlesKeepsRows, PacesKeepsRows

LEMMA NamedStep ==
  ASSUME VocalLabAssumption, TypeOK, Held, Working, Named, [Next]_vars
  PROVE  Named'
<1>1. NoFp \notin Fp
  BY DEF VocalLabAssumption, BudgetAssumption
<1>2. CASE rows' = rows
  BY <1>2 DEF Named
<1>3. ASSUME NEW s \in Slot, NEW r, Advances(s, r) PROVE Named'
  BY <1>3 DEF Named, Advances, Rewrites, Moves, TypeOK, LedgerTypeOK
<1>4. ASSUME NEW s \in Slot, NEW r, Reserves(s, r) PROVE Named'
  BY <1>1, <1>4 DEF Named, Reserves, Rewrites, TypeOK, LedgerTypeOK
<1> QED BY <1>2, <1>3, <1>4, RowsStep

LEMMA OneRowStep ==
  ASSUME VocalLabAssumption, TypeOK, Held, Working, OneRow, [Next]_vars
  PROVE  OneRow'
<1>1. CASE rows' = rows
  BY <1>1 DEF OneRow, Live
<1>2. ASSUME NEW s \in Slot, NEW r, Advances(s, r) PROVE OneRow'
  <2>1. Live(s) /\ r.fp = rows[s].fp /\ rows' = [rows EXCEPT ![s] = r]
    BY <1>2 DEF Advances, Rewrites, Moves, Live
  <2>2. \A t \in Slot : (Live(t))' => Live(t) /\ rows'[t].fp = rows[t].fp
    BY <2>1 DEF Live, TypeOK, LedgerTypeOK
  <2> QED BY <2>2 DEF OneRow
<1>3. ASSUME NEW s \in Slot, NEW r, Reserves(s, r) PROVE OneRow'
  <2>1. /\ rows' = [rows EXCEPT ![s] = r]
        /\ \A t \in Slot : Live(t) => rows[t].fp # r.fp
    BY <1>3 DEF Reserves, Rewrites
  <2>2. \A t \in Slot : t # s => rows'[t] = rows[t]
    BY <2>1 DEF TypeOK, LedgerTypeOK
  <2>3. rows'[s] = r
    BY <2>1 DEF TypeOK, LedgerTypeOK
  <2> QED BY <2>1, <2>2, <2>3 DEF OneRow, Live
<1> QED BY <1>1, <1>2, <1>3, RowsStep

-----------------------------------------------------------------------------
(* Who holds the lock, and where an observer is. *)

LEMMA HeldStep ==
  ASSUME VocalLabAssumption, TypeOK, Held, Observing, [Next]_vars
  PROVE  Held'
<1> USE DEF TypeOK, Held
<1>1. Nobody \notin Worker /\ Worker \cap Observer = {} /\ NoRequest \notin Request
      /\ Worker \subseteq Process
  BY DEF VocalLabAssumption, Process
<1>2. ASSUME NEW w \in Worker, NEW from, NEW to, from # "idle", Within(w, from, to) PROVE Held'
  BY <1>1, <1>2 DEF Within, Go
<1>3. ASSUME NEW w \in Worker, at[w] # "idle", Finish(w) PROVE Held'
  BY <1>1, <1>3 DEF Finish, Go
<1>4. ASSUME NEW w \in Worker, NEW r \in Request, Begin(w, r) PROVE Held'
  BY <1>1, <1>4 DEF Begin, Go
<1>5. ASSUME NEW w \in Worker, Handles(w) PROVE Held'
  BY <1>2, <1>3, <1>4, <1>5
  DEF Handles, Find, ReadBalance, Post, Reply, PostFailed, Recorded, RecordedFails,
      Poll, PollFailed, Polled, Answered, Materialize, Return, Crash
<1>6. ASSUME NEW w \in Worker,
             \/ ReservePoints(w) \/ StartPost(w) \/ GiveUpPost(w) \/ Record(w)
             \/ Settle(w) \/ Commit(w)
      PROVE  Held'
  BY <1>2, <1>3, <1>6 DEF ReservePoints, StartPost, GiveUpPost, Record, Settle, Commit
<1>7. ASSUME NEW o \in Observer, NEW from, NEW to, Within(o, from, to) PROVE Held'
  BY <1>1, <1>7 DEF Within, Go
<1>8. ASSUME NEW p \in Process, NEW purpose \in {"post", "poll"}, Paces(p, purpose) PROVE Held'
  <2>1. at[p] \in {"post_pace", "post_again", "poll_pace", "poll_again"}
    BY <1>8 DEF Paces, Pace, Wait, GiveUp, PaceAt, AgainAt, Within
  <2>2. (\E to : Within(p, at[p], to)) \/ (p \in Worker /\ Finish(p))
    BY <1>8, <2>1 DEF Paces, Pace, Wait, GiveUp, Within
  <2> QED BY <1>2, <1>3, <1>7, <2>1, <2>2 DEF Process
<1>9. ASSUME NEW o \in Observer, Observe(o) \/ Observed(o) PROVE Held'
  BY <1>7, <1>9 DEF Observe, Observed
<1>10. CASE Tick
  BY <1>1, <1>10 DEF Tick
<1>11. ASSUME UNCHANGED <<lock, at, req>> PROVE Held'
  BY <1>11
<1>12. ASSUME NEW f \in Fp, Charge(f) \/ Drop(f) PROVE Held'
  BY <1>11, <1>12 DEF Charge, Drop
<1>13. ASSUME NEW s \in Slot, ReleaseReservation(s) PROVE Held'
  BY <1>11, <1>13 DEF ReleaseReservation
<1>14. CASE UNCHANGED vars
  BY <1>11, <1>14 DEF vars
<1> QED
  BY <1>5, <1>6, <1>8, <1>9, <1>10, <1>12, <1>13, <1>14, NextActions

LEMMA ObservingStep ==
  ASSUME VocalLabAssumption, TypeOK, Observing, [Next]_vars
  PROVE  Observing'
<1> USE DEF TypeOK, Observing
<1>1. Worker \cap Observer = {} /\ Worker \subseteq Process /\ Observer \subseteq Process
  BY DEF VocalLabAssumption, Process
<1>2. ASSUME NEW w \in Worker, NEW place, at' = [at EXCEPT ![w] = place] PROVE Observing'
  BY <1>1, <1>2
<1>3. ASSUME NEW w \in Worker,
             \/ Handles(w)
             \/ ReservePoints(w) \/ StartPost(w) \/ GiveUpPost(w) \/ Record(w)
             \/ Settle(w) \/ Commit(w)
      PROVE  Observing'
  <2>1. \E place : at' = [at EXCEPT ![w] = place]
    BY <1>3
    DEF Handles, Begin, Find, ReadBalance, Post, Reply, PostFailed, Recorded, RecordedFails,
        Poll, PollFailed, Polled, Answered, Materialize, Return, Crash, ReservePoints,
        StartPost, GiveUpPost, Record, Settle, Commit, Within, Finish, Go
  <2> QED BY <1>2, <2>1
<1>4. ASSUME NEW o \in Observer, NEW from, Within(o, from, at'[o]),
             at'[o] \in {"idle", "poll_pace", "poll_sleep", "poll_again", "poll"}
      PROVE  Observing'
  BY <1>1, <1>4 DEF Within, Go
<1>5. ASSUME NEW p \in Process, NEW purpose \in {"post", "poll"}, Paces(p, purpose)
      PROVE  Observing'
  <2>1. CASE p \in Worker
    <3>1. \E place : at' = [at EXCEPT ![p] = place]
      BY <1>1, <1>5, <2>1 DEF Paces, Pace, Wait, GiveUp, Within, Finish, Go
    <3> QED BY <1>2, <2>1, <3>1
  <2>2. CASE p \in Observer
    <3>1. purpose = "poll"
      BY <1>5, <2>2 DEF Paces, Pace, Wait, GiveUp, PaceAt, AgainAt, Within
    <3>2. at' = [at EXCEPT ![p] = at'[p]] /\ at'[p] \in {"idle", "poll_sleep", "poll"}
      BY <1>1, <1>5, <2>2, <3>1 DEF Paces, Pace, Wait, GiveUp, SleepAt, Within, Go
    <3> QED BY <1>1, <2>2, <3>2
  <2> QED BY <2>1, <2>2 DEF Process
<1>6. ASSUME NEW o \in Observer, Observe(o) \/ Observed(o) PROVE Observing'
  BY <1>1, <1>6 DEF Observe, Observed, Within, Go
<1>7. CASE Tick
  BY <1>1, <1>7 DEF Tick
<1>8. ASSUME NEW f \in Fp, Charge(f) \/ Drop(f) PROVE Observing'
  BY <1>8 DEF Charge, Drop
<1>9. ASSUME NEW s \in Slot, ReleaseReservation(s) PROVE Observing'
  BY <1>9 DEF ReleaseReservation
<1>10. CASE UNCHANGED vars
  BY <1>10 DEF vars
<1> QED BY <1>3, <1>5, <1>6, <1>7, <1>8, <1>9, <1>10, NextActions

-----------------------------------------------------------------------------
(* The row of a call at work. *)

LEMMA OthersIdle ==
  ASSUME VocalLabAssumption, TypeOK, Held, NEW w \in Worker, at[w] # "idle" \/ lock = Nobody
  PROVE  \A v \in Worker \ {w} : at[v] = "idle"
BY DEF VocalLabAssumption, Process, Held

LEMMA IdleAtWork == ASSUME NEW w \in Worker, at[w] = "idle" PROVE AtWork(w)
BY DEF AtWork, Pacing, Polling

\* The row need only be looked at where the step was.
LEMMA WorkingThere ==
  ASSUME VocalLabAssumption, TypeOK, Held, NEW w \in Worker, at[w] # "idle" \/ lock = Nobody,
         NEW place, at' = [at EXCEPT ![w] = place], AtWork(w)'
  PROVE  Working'
<1>1. ASSUME NEW v \in Worker \ {w} PROVE AtWork(v)'
  <2>1. at'[v] = "idle"
    BY OthersIdle DEF TypeOK
  <2> QED BY <2>1 DEF AtWork, Pacing, Polling
<1> QED BY <1>1 DEF Working

LEMMA WorkingHandles ==
  ASSUME VocalLabAssumption, IInv, NEW w \in Worker, Handles(w)
  PROVE  Working'
<1>0. TypeOK /\ Held /\ AtWork(w) /\ Unsent
  BY DEF IInv, Working
<1>1. w \in Process /\ at \in [Process -> Places] /\ req \in [Worker -> Request \cup {NoRequest}]
  BY <1>0 DEF TypeOK, Process
<1>2. \E place : at' = [at EXCEPT ![w] = place]
  BY DEF Handles, Begin, Find, ReadBalance, Post, Reply, PostFailed, Recorded, RecordedFails,
         Poll, PollFailed, Polled, Answered, Materialize, Return, Crash, Within, Finish, Go
<1>3. at[w] # "idle" \/ lock = Nobody
  BY DEF Handles, Begin, Find, ReadBalance, Post, Reply, PostFailed, Recorded, RecordedFails,
         Poll, PollFailed, Polled, Answered, Materialize, Return, Crash, Within
<1>s. SUFFICES AtWork(w)'
  BY <1>0, <1>2, <1>3, WorkingThere
<1>4. rows' = rows
  BY HandlesKeepsRows
<1>5. ASSUME Finish(w) PROVE AtWork(w)'
  BY <1>1, <1>5 DEF Finish, Go, AtWork, Pacing, Polling
<1>6. ASSUME NEW r \in Request, Begin(w, r) PROVE AtWork(w)'
  BY <1>1, <1>6 DEF Begin, Go, AtWork, Pacing, Polling
<1>7. ASSUME NEW from, NEW to, Within(w, from, to)
      PROVE  at[w] = from /\ at'[w] = to /\ req'[w] = req[w] /\ slot(w)' = slot(w) /\ fp(w)' = fp(w)
  BY <1>1, <1>7 DEF Within, Go, slot, fp
<1> USE DEF AtWork, Pacing, Polling, HasRow
<1>8. CASE Find(w)
  <2>1. CASE FindsResumable(slot(w), fp(w)) /\ Within(w, "find", "poll_pace")
    BY <1>4, <1>7, <2>1 DEF FindsResumable, Resumable, Refused, KeyReused
  <2>2. CASE FindsNone(slot(w), fp(w)) /\ Within(w, "find", "balance")
    BY <1>4, <1>7, <2>2 DEF FindsNone, Resumable, Refused, KeyReused, ChargeUnknown, Settled
  <2> QED BY <1>5, <1>8, <2>1, <2>2 DEF Find
<1>9. CASE ReadBalance(w)
  BY <1>0, <1>4, <1>5, <1>7, <1>9
  DEF ReadBalance, Resumable, Refused, KeyReused, ChargeUnknown, Settled
<1>10. CASE Post(w)
  <2>1. fp(w) \in Fp
    BY <1>0, <1>10, InHand DEF Post, Within
  <2>2. order'[fp(w)] # "none"
    BY <1>0, <1>10, <2>1 DEF Post, TypeOK
  <2> QED BY <1>0, <1>4, <1>7, <1>10, <2>2 DEF Post
<1>11. CASE Reply(w)
  BY <1>0, <1>4, <1>7, <1>11 DEF Reply, provider
<1>12. CASE PostFailed(w)
  BY <1>0, <1>4, <1>7, <1>12 DEF PostFailed, provider
<1>13. CASE Recorded(w)
  BY <1>0, <1>4, <1>5, <1>7, <1>13 DEF Recorded, Answered, provider
<1>14. CASE Polled(w)
  BY <1>0, <1>4, <1>5, <1>7, <1>14 DEF Polled, Answered, provider
<1>15. CASE RecordedFails(w)
  BY <1>0, <1>4, <1>7, <1>15 DEF RecordedFails, provider
<1>16. CASE Poll(w)
  BY <1>0, <1>4, <1>5, <1>7, <1>16 DEF Poll, provider
<1>17. CASE Materialize(w)
  BY <1>0, <1>4, <1>5, <1>7, <1>17 DEF Materialize, provider
<1>18. CASE PollFailed(w) \/ Return(w) \/ Crash(w)
  BY <1>5, <1>18 DEF PollFailed, Return, Crash
<1> QED
  BY <1>6, <1>8, <1>9, <1>10, <1>11, <1>12, <1>13, <1>14, <1>15, <1>16, <1>17, <1>18, Zenon
  DEF Handles

LEMMA WorkingWrites ==
  ASSUME VocalLabAssumption, IInv, NEW w \in Worker,
         \/ ReservePoints(w) \/ StartPost(w) \/ GiveUpPost(w) \/ Record(w)
         \/ Settle(w) \/ Commit(w)
  PROVE  Working'
<1>0. TypeOK /\ Held /\ AtWork(w) /\ Unsent /\ Working
  BY DEF IInv, Working
<1>1. w \in Process /\ at \in [Process -> Places] /\ req \in [Worker -> Request \cup {NoRequest}]
  BY <1>0 DEF TypeOK, Process
<1>2. \E place : at' = [at EXCEPT ![w] = place]
  BY DEF ReservePoints, StartPost, GiveUpPost, Record, Settle, Commit, Within, Finish, Go
<1>3. at[w] # "idle"
  BY DEF ReservePoints, StartPost, GiveUpPost, Record, Settle, Commit, Within
<1>s. SUFFICES AtWork(w)'
  BY <1>0, <1>2, <1>3, WorkingThere
<1>4. slot(w) \in Slot /\ fp(w) \in Fp
  BY <1>0, <1>3, InHand
<1>5. ASSUME Finish(w) PROVE AtWork(w)'
  BY <1>1, <1>5 DEF Finish, Go, AtWork, Pacing, Polling
<1>7. ASSUME NEW from, NEW to, Within(w, from, to)
      PROVE  at[w] = from /\ at'[w] = to /\ slot(w)' = slot(w) /\ fp(w)' = fp(w)
  BY <1>1, <1>7 DEF Within, Go, slot, fp
<1>8. ASSUME NEW r, Advances(slot(w), r)
      PROVE  rows'[slot(w)] = r /\ rows'[slot(w)].fp = rows[slot(w)].fp
  BY <1>0, <1>4, <1>8 DEF Advances, Rewrites, TypeOK, LedgerTypeOK
<1> USE DEF AtWork, Pacing, Polling, HasRow
<1>9. CASE ReservePoints(w)
  <2> DEFINE admitted == Reservable(slot(w), fp(w), Estimate[fp(w)], seen[w])
  <2>1. CASE admitted /\ rows' = rows
    <3>1. Within(w, "reserve", "start")
      BY <1>9, <2>1, Zenon DEF ReservePoints
    <3>2. CASE rows[slot(w)].status = "reserved"
      BY <1>0, <1>7, <3>1, <2>1, <3>2 DEF Refused, KeyReused
    <3>3. CASE rows[slot(w)].status # "reserved"
      <4> DEFINE r == [status |-> "reserved", fp |-> fp(w), estimated |-> Estimate[fp(w)], used |-> 0]
      <4>1. rows' = [rows EXCEPT ![slot(w)] = r]
        BY <1>9, <2>1, <3>3, Zenon DEF ReservePoints, WriteReservation
      <4>2. rows'[slot(w)].status = "reserved"
        BY <1>0, <1>4, <4>1 DEF TypeOK, LedgerTypeOK
      <4> QED BY <2>1, <3>3, <4>2
    <3> QED BY <3>2, <3>3
  <2>2. CASE admitted /\ rows' # rows
    <3>1. PICK r : Reserves(slot(w), r) /\ r.fp = fp(w)
      BY <1>0, <1>9, <2>2, ReserveWrites
    <3>2. rows'[slot(w)] = r /\ r.status = "reserved"
      BY <1>0, <1>4, <3>1 DEF Reserves, Rewrites, TypeOK, LedgerTypeOK
    <3>3. Within(w, "reserve", "start")
      BY <1>9, <2>2, Zenon DEF ReservePoints
    <3> QED BY <1>7, <3>1, <3>2, <3>3
  <2>3. CASE ~admitted
    <3>1. Finish(w)
      BY <1>9, <2>3, Zenon DEF ReservePoints
    <3> QED BY <1>5, <3>1
  <2> QED BY <2>1, <2>2, <2>3
<1>10. CASE StartPost(w)
  <2>1. PICK r : Advances(slot(w), r) /\ r.status = "post_started"
    BY <1>0, <1>10, StartWrites
  <2>2. Within(w, "start", "post_pace")
    BY <1>10 DEF StartPost
  <2> QED BY <1>0, <1>7, <1>8, <2>1, <2>2
<1>11. CASE GiveUpPost(w)
  BY <1>5, <1>11 DEF GiveUpPost
<1>12. CASE Record(w)
  <2>1. CASE rows' = rows
    <3>1. Within(w, "record", "unknown") \/ Within(w, "record", "recorded")
      BY <1>12 DEF Record
    <3>2. CASE Within(w, "record", "unknown")
      BY <1>0, <1>7, <2>1, <3>2
    <3>3. CASE Within(w, "record", "recorded")
      <4>1. \/ RecordGeneration(slot(w)) \/ Within(w, "record", "unknown")
        BY <1>12 DEF Record
      <4>2. ~Within(w, "record", "unknown")
        BY <1>7, <3>3
      <4>3. PICK r : rows' = [rows EXCEPT ![slot(w)] = r] /\ r.status = "generation_known"
        BY <1>0, <1>4, <4>1, <4>2, WriteStatus DEF RecordGeneration, TypeOK, LedgerTypeOK, Status
      <4>4. rows'[slot(w)].status = "generation_known"
        BY <1>0, <1>4, <4>3 DEF TypeOK, LedgerTypeOK
      <4> QED BY <1>0, <1>7, <2>1, <3>3, <4>4
    <3> QED BY <3>1, <3>2, <3>3
  <2>2. CASE rows' # rows
    <3>1. PICK r : Advances(slot(w), r) /\ r.status = "generation_known"
      BY <1>0, <1>12, <2>2, RecordWrites
    <3>2. Within(w, "record", "recorded")
      BY <1>12, <2>2 DEF Record
    <3> QED BY <1>0, <1>7, <1>8, <3>1, <3>2
  <2> QED BY <2>1, <2>2
<1>13. CASE Settle(w)
  <2>1. CASE rows' # rows
    <3>1. PICK r : /\ Advances(slot(w), r)
                   /\ \/ Finish(w)
                      \/ r.status = "charged_pending_materialization"
                         /\ Within(w, "settle", "materialize")
      BY <1>0, <1>13, <2>1, SettleWrites
    <3> QED BY <1>0, <1>5, <1>7, <1>8, <3>1
  <2>2. CASE rows' = rows
    <3>1. Within(w, "settle", "materialize") \/ Finish(w)
      BY <1>13 DEF Settle
    <3>2. CASE Within(w, "settle", "materialize")
      <4>1. rows[slot(w)].status = "charged_pending_materialization"
            \/ ReconcileCharge(slot(w), cost[fp(w)])
        BY <1>13 DEF Settle
      <4>2. CASE ReconcileCharge(slot(w), cost[fp(w)])
        <5>1. PICK r : rows' = [rows EXCEPT ![slot(w)] = r] /\ r.status # "generation_known"
          BY <1>0, <1>4, <4>2, WriteCharge DEF TypeOK, LedgerTypeOK
        <5>2. rows'[slot(w)] = r /\ rows[slot(w)].status = "generation_known"
          BY <1>0, <1>4, <4>2, <5>1 DEF ReconcileCharge, TypeOK, LedgerTypeOK
        <5> QED BY <2>2, <5>1, <5>2
      <4> QED BY <1>0, <1>7, <2>2, <3>2, <4>1, <4>2
    <3> QED BY <1>5, <3>1, <3>2
  <2> QED BY <2>1, <2>2
<1>14. CASE Commit(w)
  BY <1>7, <1>14 DEF Commit
<1> QED BY <1>9, <1>10, <1>11, <1>12, <1>13, <1>14

LEMMA WorkingStep ==
  ASSUME VocalLabAssumption, IInv, [Next]_vars
  PROVE  Working'
<1>0. TypeOK /\ Held /\ Working /\ Unsent /\ Observing
  BY DEF IInv
<1>1. Worker \subseteq Process /\ Worker \cap Observer = {}
  BY DEF VocalLabAssumption, Process
<1>2. ASSUME UNCHANGED <<rows, req>>, \A w \in Worker : at'[w] = at[w],
             \A f \in Fp : /\ order[f] # "none" => order'[f] # "none"
                           /\ order[f] = "charged" => order'[f] = "charged"
      PROVE  Working'
  <2>1. ASSUME NEW w \in Worker PROVE AtWork(w)'
    <3>1. CASE at[w] = "idle"
      BY <1>2, <3>1 DEF AtWork, Pacing, Polling
    <3>2. CASE at[w] # "idle"
      <4>1. fp(w) \in Fp /\ fp(w)' = fp(w) /\ slot(w)' = slot(w)
        BY <1>0, <1>2, <3>2, InHand DEF fp, slot
      <4> QED
        BY <1>0, <1>2, <4>1
        DEF Working, AtWork, HasRow, Refused, KeyReused, ChargeUnknown, Settled, Resumable
    <3> QED BY <3>1, <3>2
  <2> QED BY <2>1 DEF Working
<1>3. ASSUME NEW p \in Process, NEW purpose \in {"post", "poll"}, Paces(p, purpose)
      PROVE  Working'
  <2>1. CASE p \in Worker
    <3>1. at[p] # "idle" /\ rows' = rows /\ order' = order
      BY <1>3 DEF Paces, Pace, Wait, GiveUp, PaceAt, AgainAt, Within, ledgerVars, provider
    <3>2. \E place : at' = [at EXCEPT ![p] = place]
      BY <1>1, <1>3, <2>1 DEF Paces, Pace, Wait, GiveUp, Within, Finish, Go
    <3>3. CASE Finish(p)
      <4>1. at'[p] = "idle"
        BY <1>0, <3>3 DEF Finish, Go, TypeOK
      <4>2. AtWork(p)'
        BY <4>1 DEF AtWork, Pacing, Polling
      <4> QED BY <1>0, <2>1, <3>1, <3>2, <4>2, WorkingThere
    <3>4. CASE ~Finish(p)
      <4>1. req' = req /\ slot(p)' = slot(p) /\ fp(p)' = fp(p)
        BY <1>1, <1>3, <2>1, <3>4 DEF Paces, Pace, Wait, GiveUp, Within, slot, fp
      <4>2. \/ at[p] \in Pacing /\ at'[p] \in Pacing \cup {"unknown"}
            \/ at[p] \in Polling /\ at'[p] \in Polling
        BY <1>0, <1>1, <1>3, <2>1, <3>4
        DEF Paces, Pace, Wait, GiveUp, Within, Go, TypeOK, PaceAt, AgainAt, SleepAt, Pacing, Polling
      <4>3. AtWork(p)'
        BY <1>0, <2>1, <3>1, <4>1, <4>2 DEF Working, AtWork, HasRow, Pacing, Polling
      <4> QED BY <1>0, <2>1, <3>1, <3>2, <4>3, WorkingThere
    <3> QED BY <3>3, <3>4
  <2>2. CASE p \notin Worker
    <3>1. UNCHANGED <<rows, req, order>> /\ at' = [at EXCEPT ![p] = at'[p]]
      BY <1>0, <1>3, <2>2 DEF Paces, Pace, Wait, GiveUp, Within, Go, ledgerVars, provider, TypeOK
    <3> QED BY <1>0, <1>1, <1>2, <2>2, <3>1 DEF TypeOK
  <2> QED BY <2>1, <2>2
<1>4. ASSUME NEW o \in Observer, Observe(o) \/ Observed(o) PROVE Working'
  BY <1>0, <1>1, <1>2, <1>4 DEF Observe, Observed, Within, Go, TypeOK, ledgerVars, provider
<1>5. ASSUME NEW f \in Fp, Charge(f) \/ Drop(f) PROVE Working'
  BY <1>0, <1>2, <1>5 DEF Charge, Drop, TypeOK, ledgerVars
<1>6. ASSUME NEW s \in Slot, ReleaseReservation(s) PROVE Working'
  <2>1. \A w \in Worker : at'[w] = "idle"
    BY <1>0, <1>6 DEF ReleaseReservation, Held, VocalLabAssumption, Process
  <2> QED BY <2>1 DEF Working, AtWork, Pacing, Polling
<1>7. CASE Tick
  <2>1. ASSUME NEW w \in Worker PROVE AtWork(w)'
    <3>1. UNCHANGED <<rows, req, order>> /\ fp(w)' = fp(w) /\ slot(w)' = slot(w)
      BY <1>7 DEF Tick, provider, fp, slot
    <3>2. \/ at'[w] = at[w]
          \/ at[w] \in Pacing /\ at'[w] \in Pacing
          \/ at[w] \in Polling /\ at'[w] \in Polling
      BY <1>1, <1>7 DEF Tick, Pacing, Polling
    <3> QED
      BY <1>0, <3>1, <3>2
      DEF Working, AtWork, HasRow, Pacing, Polling, Refused, KeyReused, ChargeUnknown, Settled,
          Resumable
  <2> QED BY <2>1 DEF Working
<1>8. CASE UNCHANGED vars
  BY <1>0, <1>2, <1>8 DEF vars, ledgerVars, provider
<1> QED
  BY <1>3, <1>4, <1>5, <1>6, <1>7, <1>8, NextActions, WorkingHandles, WorkingWrites

-----------------------------------------------------------------------------
(* Before the POST. *)

LEMMA UnsentThere ==
  ASSUME VocalLabAssumption, TypeOK, Held, NEW w \in Worker, at[w] # "idle" \/ lock = Nobody,
         NEW place, at' = [at EXCEPT ![w] = place], UnsentBy(w)'
  PROVE  Unsent'
<1>1. ASSUME NEW v \in Worker \ {w} PROVE UnsentBy(v)'
  <2>1. at'[v] = "idle"
    BY OthersIdle DEF TypeOK
  <2> QED BY <2>1 DEF UnsentBy, Pacing
<1> QED BY <1>1 DEF Unsent

\* The steps that a worker takes in a call other than towards the POST.
LEMMA UnsentHandles ==
  ASSUME VocalLabAssumption, IInv, NEW w \in Worker, Handles(w)
  PROVE  Unsent'
<1>0. TypeOK /\ Held
  BY DEF IInv
<1>1. w \in Process /\ at \in [Process -> Places]
  BY <1>0 DEF TypeOK, Process
<1>2. \E place : at' = [at EXCEPT ![w] = place] /\ place \notin {"start"} \cup Pacing
  BY DEF Handles, Begin, Find, ReadBalance, Post, Reply, PostFailed, Recorded, RecordedFails,
         Poll, PollFailed, Polled, Answered, Materialize, Return, Crash, Within, Finish, Go, Pacing
<1>3. at[w] # "idle" \/ lock = Nobody
  BY DEF Handles, Begin, Find, ReadBalance, Post, Reply, PostFailed, Recorded, RecordedFails,
         Poll, PollFailed, Polled, Answered, Materialize, Return, Crash, Within
<1>4. UnsentBy(w)'
  BY <1>1, <1>2 DEF UnsentBy
<1> QED BY <1>0, <1>2, <1>3, <1>4, UnsentThere

\* A reservation is admitted where nobody asked the provider for the text before.
LEMMA AdmittedUnsent ==
  ASSUME VocalLabAssumption, IInv, NEW w \in Worker, at[w] = "reserve",
         Reservable(slot(w), fp(w), Estimate[fp(w)], seen[w])
  PROVE  order[fp(w)] = "none" /\ ~Frozen
<1>0. TypeOK /\ Held /\ AtWork(w) /\ Violations /\ ChargesRemembered
  BY DEF IInv, Working
<1>1. slot(w) \in Slot /\ fp(w) \in Fp
  BY <1>0, InHand
<1>2. ~AccountBlocked /\ ~Duplicate(slot(w), fp(w))
  BY DEF Reservable
<1>3. ~Frozen
  BY <1>0, <1>2 DEF AccountBlocked, Frozen, Violations
<1>4. ASSUME order[fp(w)] # "none" PROVE FALSE
  <2>1. PICK t \in Slot : /\ rows[t].fp = fp(w)
                          /\ rows[t].status \notin {"absent", "reserved", "released"}
    BY <1>0, <1>1, <1>4 DEF ChargesRemembered
  <2>2. t = slot(w)
    BY <1>2, <2>1 DEF Duplicate
  <2>3. ~Refused(slot(w), fp(w)) /\ ~Resumable(slot(w))
    BY <1>0 DEF AtWork
  <2> QED BY <1>0, <1>1, <2>1, <2>2, <2>3
          DEF Refused, KeyReused, ChargeUnknown, Settled, Resumable, TypeOK, LedgerTypeOK,
              Reservation, Status
<1> QED BY <1>3, <1>4

LEMMA UnsentWrites ==
  ASSUME VocalLabAssumption, IInv, NEW w \in Worker,
         \/ ReservePoints(w) \/ StartPost(w) \/ GiveUpPost(w) \/ Record(w)
         \/ Settle(w) \/ Commit(w)
  PROVE  Unsent'
<1>0. TypeOK /\ Held /\ Working /\ UnsentBy(w)
  BY DEF IInv, Unsent
<1>1. w \in Process /\ at \in [Process -> Places] /\ rows \in [Slot -> Reservation]
  BY <1>0 DEF TypeOK, LedgerTypeOK, Process
<1>2. \E place : at' = [at EXCEPT ![w] = place]
  BY DEF ReservePoints, StartPost, GiveUpPost, Record, Settle, Commit, Within, Finish, Go
<1>3. at[w] # "idle"
  BY DEF ReservePoints, StartPost, GiveUpPost, Record, Settle, Commit, Within
<1>s. SUFFICES UnsentBy(w)'
  BY <1>0, <1>2, <1>3, UnsentThere
<1>4. slot(w) \in Slot
  BY <1>0, <1>3, InHand
<1>5. CASE ReservePoints(w)
  <2> DEFINE admitted == Reservable(slot(w), fp(w), Estimate[fp(w)], seen[w])
  <2>1. CASE admitted
    <3>1. at[w] = "reserve" /\ Within(w, "reserve", "start") /\ order' = order
      BY <1>5, <2>1, Zenon DEF ReservePoints, provider
    <3>2. order[fp(w)] = "none" /\ ~Frozen
      BY <2>1, <3>1, AdmittedUnsent
    <3>3. fp(w)' = fp(w)
      BY <3>1 DEF Within, fp
    <3>4. (~Frozen)'
      <4>1. CASE rows' = rows
        BY <3>2, <4>1 DEF Frozen
      <4>2. CASE rows' # rows
        <5>1. PICK r : Reserves(slot(w), r)
          BY <1>0, <1>5, <4>2, ReserveWrites
        <5> QED BY <1>1, <1>4, <3>2, <5>1 DEF Frozen, Reserves, Rewrites
      <4> QED BY <4>1, <4>2
    <3> QED BY <3>1, <3>2, <3>3, <3>4 DEF UnsentBy
  <2>2. CASE ~admitted
    <3>1. Finish(w)
      BY <1>5, <2>2, Zenon DEF ReservePoints
    <3> QED BY <1>1, <3>1 DEF UnsentBy, Finish, Go, Pacing
  <2> QED BY <2>1, <2>2
<1>6. CASE StartPost(w)
  <2>1. PICK r : Advances(slot(w), r) /\ r.status = "post_started"
    BY <1>0, <1>6, StartWrites
  <2>2. order[fp(w)] = "none" /\ ~Frozen
    BY <1>0, <1>6 DEF UnsentBy, StartPost, Within
  <2>3. (~Frozen)'
    BY <1>1, <1>4, <2>1, <2>2 DEF Frozen, Advances, Rewrites
  <2>4. fp(w)' = fp(w) /\ order' = order
    BY <1>6 DEF StartPost, Within, fp, provider
  <2> QED BY <2>2, <2>3, <2>4 DEF UnsentBy
<1>7. CASE GiveUpPost(w) \/ Record(w) \/ Settle(w) \/ Commit(w)
  <2>1. at'[w] \notin {"start"} \cup Pacing
    BY <1>1, <1>7 DEF GiveUpPost, Record, Settle, Commit, Within, Finish, Go, Pacing
  <2> QED BY <2>1 DEF UnsentBy
<1> QED BY <1>5, <1>6, <1>7

LEMMA UnsentStep ==
  ASSUME VocalLabAssumption, IInv, [Next]_vars
  PROVE  Unsent'
<1>0. TypeOK /\ Held /\ Unsent /\ Observing
  BY DEF IInv
<1>1. Worker \subseteq Process /\ Worker \cap Observer = {}
  BY DEF VocalLabAssumption, Process
<1>2. ASSUME UNCHANGED <<rows, req>>,
             \A w \in Worker : at'[w] \in {"start"} \cup Pacing => at[w] \in {"start"} \cup Pacing,
             \A f \in Fp : order[f] = "none" => order'[f] = "none"
      PROVE  Unsent'
  <2>1. ASSUME NEW w \in Worker PROVE UnsentBy(w)'
    <3>1. CASE at[w] \notin {"start"} \cup Pacing
      BY <1>2, <3>1 DEF UnsentBy
    <3>2. CASE at[w] \in {"start"} \cup Pacing
      <4>1. fp(w) \in Fp /\ fp(w)' = fp(w)
        BY <1>0, <1>2, <3>2, InHand DEF fp, Pacing
      <4> QED BY <1>0, <1>2, <3>2, <4>1 DEF Unsent, UnsentBy, Frozen
    <3> QED BY <3>1, <3>2
  <2> QED BY <2>1 DEF Unsent
<1>3. ASSUME NEW p \in Process, NEW purpose \in {"post", "poll"}, Paces(p, purpose)
      PROVE  Unsent'
  <2>1. CASE p \in Worker
    <3>1. at[p] # "idle" /\ rows' = rows /\ order' = order
      BY <1>3 DEF Paces, Pace, Wait, GiveUp, PaceAt, AgainAt, Within, ledgerVars, provider
    <3>2. \E place : at' = [at EXCEPT ![p] = place]
      BY <1>1, <1>3, <2>1 DEF Paces, Pace, Wait, GiveUp, Within, Finish, Go
    <3>3. CASE Finish(p)
      <4>1. at'[p] = "idle"
        BY <1>0, <3>3 DEF Finish, Go, TypeOK
      <4>2. UnsentBy(p)'
        BY <4>1 DEF UnsentBy, Pacing
      <4> QED BY <1>0, <2>1, <3>1, <3>2, <4>2, UnsentThere
    <3>4. CASE ~Finish(p)
      <4>1. req' = req
        BY <1>1, <1>3, <2>1, <3>4 DEF Paces, Pace, Wait, GiveUp, Within
      <4>2. at'[p] \in {"start"} \cup Pacing => at[p] \in {"start"} \cup Pacing
        BY <1>0, <1>1, <1>3, <2>1, <3>4
        DEF Paces, Pace, Wait, GiveUp, Within, Go, TypeOK, PaceAt, AgainAt, SleepAt, Pacing
      <4>3. \A w \in Worker : w # p => at'[w] = at[w]
        BY <1>0, <3>2 DEF TypeOK
      <4> QED BY <1>2, <3>1, <4>1, <4>2, <4>3
    <3> QED BY <3>3, <3>4
  <2>2. CASE p \notin Worker
    <3>1. UNCHANGED <<rows, req, order>> /\ at' = [at EXCEPT ![p] = at'[p]]
      BY <1>0, <1>3, <2>2 DEF Paces, Pace, Wait, GiveUp, Within, Go, ledgerVars, provider, TypeOK
    <3> QED BY <1>0, <1>1, <1>2, <2>2, <3>1 DEF TypeOK
  <2> QED BY <2>1, <2>2
<1>4. ASSUME NEW o \in Observer, Observe(o) \/ Observed(o) PROVE Unsent'
  BY <1>0, <1>1, <1>2, <1>4 DEF Observe, Observed, Within, Go, TypeOK, ledgerVars, provider
<1>5. ASSUME NEW f \in Fp, Charge(f) \/ Drop(f) PROVE Unsent'
  BY <1>0, <1>2, <1>5 DEF Charge, Drop, TypeOK, ledgerVars
<1>6. ASSUME NEW s \in Slot, ReleaseReservation(s) PROVE Unsent'
  <2>1. \A w \in Worker : at'[w] = "idle"
    BY <1>0, <1>6 DEF ReleaseReservation, Held, VocalLabAssumption, Process
  <2> QED BY <2>1 DEF Unsent, UnsentBy, Pacing
<1>7. CASE Tick
  BY <1>1, <1>2, <1>7 DEF Tick, Pacing, provider
<1>8. CASE UNCHANGED vars
  BY <1>2, <1>8 DEF vars, ledgerVars, provider
<1> QED
  BY <1>3, <1>4, <1>5, <1>6, <1>7, <1>8, NextActions, UnsentHandles, UnsentWrites

-----------------------------------------------------------------------------
(* The circuit, the POSTs and the reservations that stand for them. *)

LEMMA CircuitStep ==
  ASSUME VocalLabAssumption, TypeOK, Held, Working, [Next]_vars
  PROVE  circuit = "open" => circuit' = "open"
<1>0. failures \in 0..3 /\ circuit \in {"closed", "open"}
  BY DEF TypeOK, LedgerTypeOK
<1>1. ASSUME RecordUpstreamFailure \/ RecordProviderSuccess
      PROVE  circuit = "open" => circuit' = "open"
  BY <1>0, <1>1, FailureTypes
<1>2. ASSUME NEW w \in Worker, Handles(w) PROVE circuit = "open" => circuit' = "open"
  BY <1>1, <1>2
  DEF Handles, Begin, Find, ReadBalance, Post, Reply, PostFailed, Recorded, RecordedFails,
      Poll, PollFailed, Polled, Answered, Materialize, Return, Crash, ledgerVars
<1>3. ASSUME NEW w \in Worker,
             \/ ReservePoints(w) \/ StartPost(w) \/ GiveUpPost(w) \/ Record(w)
             \/ Settle(w) \/ Commit(w)
      PROVE  circuit = "open" => circuit' = "open"
  BY <1>3 DEF ReservePoints, StartPost, GiveUpPost, Record, Settle, Commit, ReconcileCharge
<1>4. ASSUME NEW p \in Process, NEW purpose, Paces(p, purpose) PROVE circuit' = circuit
  BY <1>4 DEF Paces, Pace, Wait, GiveUp, ledgerVars
<1>5. ASSUME NEW o \in Observer, Observe(o) \/ Observed(o)
      PROVE  circuit = "open" => circuit' = "open"
  BY <1>1, <1>5 DEF Observe, Observed, ledgerVars
<1>6. ASSUME NEW f \in Fp, Charge(f) \/ Drop(f) PROVE circuit' = circuit
  BY <1>6 DEF Charge, Drop, ledgerVars
<1>7. ASSUME NEW s \in Slot, ReleaseReservation(s) PROVE circuit' = circuit
  BY <1>7 DEF ReleaseReservation
<1>8. CASE Tick \/ UNCHANGED vars
  BY <1>8 DEF Tick, vars, ledgerVars
<1> QED BY <1>2, <1>3, <1>4, <1>5, <1>6, <1>7, <1>8, NextActions

\* Only a settlement writes a charge above its estimate, and it opens the circuit.
LEMMA OverrunOpens ==
  ASSUME VocalLabAssumption, TypeOK, Held, Working, [Next]_vars,
         NEW s \in Slot, rows'[s].status = "complete_budget_violation",
         rows[s].status # "complete_budget_violation"
  PROVE  circuit' = "open"
<1>0. rows \in [Slot -> Reservation]
  BY DEF TypeOK, LedgerTypeOK
<1>1. ASSUME NEW t \in Slot, NEW r, Advances(t, r) \/ Reserves(t, r)
      PROVE  r.status = "complete_budget_violation"
  BY <1>0, <1>1 DEF Advances, Reserves, Rewrites
<1>2. ASSUME NEW w \in Worker, at[w] # "idle" PROVE slot(w) \in Slot
  BY <1>2, InHand
<1>3. rows' # rows
  OBVIOUS
<1>4. ASSUME NEW w \in Worker,
             \/ ReservePoints(w) \/ StartPost(w) \/ GiveUpPost(w) \/ Record(w)
             \/ Commit(w)
      PROVE  FALSE
  <2>1. slot(w) \in Slot
    BY <1>2, <1>4 DEF ReservePoints, StartPost, GiveUpPost, Record, Commit, Within
  <2>2. PICK r : (Advances(slot(w), r) \/ Reserves(slot(w), r)) /\ r.status # "complete_budget_violation"
    BY <1>3, <1>4, ReserveWrites, StartWrites, GiveUpWrites, RecordWrites, CommitWrites
    DEF Reserves
  <2> QED BY <1>1, <2>1, <2>2
<1>5. ASSUME NEW w \in Worker, Settle(w) PROVE circuit' = "open"
  <2>1. slot(w) \in Slot
    BY <1>2, <1>5 DEF Settle
  <2>2. PICK r : /\ Advances(slot(w), r)
                 /\ \/ r.status = "complete_budget_violation" /\ circuit' = "open"
                    \/ r.status = "charged_pending_materialization"
    BY <1>3, <1>5, SettleWrites
  <2> QED BY <1>1, <2>1, <2>2
<1>6. ASSUME NEW t \in Slot, ReleaseReservation(t) PROVE FALSE
  BY <1>1, <1>6, ReleaseWrites
<1>7. ASSUME NEW o \in Observer, Observe(o) \/ Observed(o) PROVE FALSE
  BY <1>3, <1>7 DEF Observe, Observed, ledgerVars
<1>8. ASSUME NEW f \in Fp, Charge(f) \/ Drop(f) PROVE FALSE
  BY <1>3, <1>8 DEF Charge, Drop, ledgerVars
<1>9. CASE Tick \/ UNCHANGED vars
  BY <1>3, <1>9 DEF Tick, vars, ledgerVars
<1> QED
  BY <1>3, <1>4, <1>5, <1>6, <1>7, <1>8, <1>9, NextActions, HandlesKeepsRows, PacesKeepsRows

LEMMA ViolationsStep ==
  ASSUME VocalLabAssumption, TypeOK, Held, Working, Violations, [Next]_vars
  PROVE  Violations'
BY CircuitStep, OverrunOpens DEF Violations

\* Who changes what the provider knows.
LEMMA OrdersStep ==
  ASSUME [Next]_vars
  PROVE  \/ UNCHANGED <<order, posts>>
         \/ \E w \in Worker : Post(w)
         \/ \E f \in Fp : Charge(f) \/ Drop(f)
<1>1. ASSUME NEW w \in Worker, Handles(w), ~Post(w) PROVE UNCHANGED <<order, posts>>
  BY <1>1
  DEF Handles, Begin, Find, ReadBalance, Reply, PostFailed, Recorded, RecordedFails,
      Poll, PollFailed, Polled, Answered, Materialize, Return, Crash, provider
<1>2. ASSUME NEW w \in Worker,
             \/ ReservePoints(w) \/ StartPost(w) \/ GiveUpPost(w) \/ Record(w)
             \/ Settle(w) \/ Commit(w)
      PROVE  UNCHANGED <<order, posts>>
  BY <1>2 DEF ReservePoints, StartPost, GiveUpPost, Record, Settle, Commit, provider
<1>3. ASSUME NEW p \in Process, NEW purpose, Paces(p, purpose) PROVE UNCHANGED <<order, posts>>
  BY <1>3 DEF Paces, Pace, Wait, GiveUp, provider
<1>4. ASSUME NEW o \in Observer, Observe(o) \/ Observed(o) PROVE UNCHANGED <<order, posts>>
  BY <1>4 DEF Observe, Observed, provider
<1>5. ASSUME NEW s \in Slot, ReleaseReservation(s) PROVE UNCHANGED <<order, posts>>
  BY <1>5 DEF ReleaseReservation, provider
<1>6. ASSUME Tick \/ UNCHANGED vars PROVE UNCHANGED <<order, posts>>
  BY <1>6 DEF Tick, vars, provider
<1> QED BY <1>1, <1>2, <1>3, <1>4, <1>5, <1>6, NextActions

LEMMA PostedStep ==
  ASSUME VocalLabAssumption, IInv, [Next]_vars
  PROVE  Posted'
<1>0. TypeOK /\ Held /\ Unsent /\ Posted
  BY DEF IInv
<1>1. ASSUME NEW w \in Worker, Post(w) PROVE Posted'
  <2>1. fp(w) \in Fp /\ order[fp(w)] = "none"
    BY <1>0, <1>1, InHand DEF Post, Within, Unsent, UnsentBy, Pacing
  <2> QED BY <1>0, <1>1, <2>1 DEF Post, Posted, TypeOK
<1>2. ASSUME NEW f \in Fp, Charge(f) \/ Drop(f) PROVE Posted'
  BY <1>0, <1>2 DEF Charge, Drop, Posted, TypeOK
<1> QED BY <1>0, <1>1, <1>2, OrdersStep DEF Posted

LEMMA RememberedStep ==
  ASSUME VocalLabAssumption, IInv, [Next]_vars
  PROVE  ChargesRemembered'
<1>0. TypeOK /\ Held /\ Working /\ ChargesRemembered
  BY DEF IInv
<1> DEFINE Remembers(f, s) ==
             rows[s].fp = f /\ rows[s].status \notin {"absent", "reserved", "released"}
<1>1. ASSUME NEW f \in Fp, NEW s \in Slot, Remembers(f, s) PROVE Remembers(f, s)'
  <2>1. CASE rows' = rows
    BY <1>1, <2>1
  <2>2. ASSUME NEW t \in Slot, NEW r, Advances(t, r) PROVE Remembers(f, s)'
    BY <1>0, <1>1, <2>2 DEF Advances, Rewrites, Moves, TypeOK, LedgerTypeOK
  <2>3. ASSUME NEW t \in Slot, NEW r, Reserves(t, r) PROVE Remembers(f, s)'
    BY <1>0, <1>1, <2>3 DEF Reserves, Rewrites, TypeOK, LedgerTypeOK
  <2> QED BY <1>0, <2>1, <2>2, <2>3, RowsStep
<1>2. ASSUME NEW f \in Fp, order'[f] # "none", order[f] = "none"
      PROVE  \E s \in Slot : Remembers(f, s)
  <2>1. ASSUME NEW w \in Worker, Post(w) PROVE \E s \in Slot : Remembers(f, s)
    <3>1. slot(w) \in Slot /\ fp(w) = f
      BY <1>0, <1>2, <2>1, InHand DEF Post, Within, TypeOK
    <3>2. rows[slot(w)].fp = f /\ rows[slot(w)].status = "post_started"
      BY <1>0, <2>1, <3>1 DEF Post, Within, Working, AtWork, HasRow, Pacing
    <3> QED BY <3>1, <3>2
  <2>2. ASSUME NEW g \in Fp, Charge(g) \/ Drop(g) PROVE FALSE
    BY <1>0, <1>2, <2>2 DEF Charge, Drop, TypeOK
  <2> QED BY <1>2, <2>1, <2>2, OrdersStep
<1> QED BY <1>0, <1>1, <1>2 DEF ChargesRemembered

-----------------------------------------------------------------------------
(* The invariant, and what it gives. *)

LEMMA InitInv == ASSUME VocalLabAssumption, Init PROVE IInv
<1> USE DEF Init, LedgerInit, Absent
<1>1. TypeOK
  BY DEF TypeOK, LedgerTypeOK, Places, Reservation, Status, VocalLabAssumption
<1>2. Held /\ Observing /\ Named /\ OneRow /\ Violations /\ Posted /\ ChargesRemembered
  BY DEF Held, Observing, Named, OneRow, Live, Violations, Posted, ChargesRemembered, Process,
         VocalLabAssumption, BudgetAssumption
<1>3. Working /\ Unsent
  BY DEF Working, AtWork, Unsent, UnsentBy, Pacing, Polling, Process
<1> QED BY <1>1, <1>2, <1>3 DEF IInv

LEMMA StepInv == ASSUME VocalLabAssumption, IInv, [Next]_vars PROVE IInv'
<1>1. TypeOK /\ Held /\ Observing /\ Named /\ OneRow /\ Working /\ Violations
  BY DEF IInv
<1>2. TypeOK' /\ Held' /\ Observing' /\ Named' /\ OneRow' /\ Violations'
  BY <1>1, TypeStep, HeldStep, ObservingStep, NamedStep, OneRowStep, ViolationsStep
<1>3. Working' /\ Unsent' /\ Posted' /\ ChargesRemembered'
  BY WorkingStep, UnsentStep, PostedStep, RememberedStep
<1> QED BY <1>2, <1>3 DEF IInv

LEMMA InvHolds == ASSUME VocalLabAssumption PROVE Spec => []IInv
BY InitInv, StepInv, PTL DEF Spec

\* The types, and with them the bounds of the circuit breaker, hold in every state.
THEOREM VoiceTypeCorrect == ASSUME VocalLabAssumption PROVE Spec => []TypeOK
<1>1. IInv => TypeOK
  BY DEF IInv
<1> QED BY <1>1, InvHolds, PTL

\* Whatever crashes, retries, lost answers and other keys or jobs a text is asked for
\* under, at most one POST ever leaves for it.
THEOREM OnePostPerText == ASSUME VocalLabAssumption PROVE Spec => []PostedOnce
<1>1. IInv => PostedOnce
  BY DEF IInv, Posted, PostedOnce
<1> QED BY <1>1, InvHolds, PTL

\* A text the provider was asked for keeps a reservation that can be neither released
\* nor posted again.
THEOREM ChargesStay == ASSUME VocalLabAssumption PROVE Spec => []ChargesRemembered
<1>1. IInv => ChargesRemembered
  BY DEF IInv
<1> QED BY <1>1, InvHolds, PTL

\* While a reservation is ambiguous, nothing is posted for any text.
THEOREM AmbiguityFreezes == ASSUME VocalLabAssumption PROVE Spec => UnknownFreezes
<1>1. ASSUME IInv, [Next]_vars
      PROVE  [\A f \in Fp : posts'[f] # posts[f] =>
                 \A s \in Slot : rows[s].status # "unknown"]_vars
  <2>1. CASE posts' = posts
    BY <2>1
  <2>2. ASSUME NEW w \in Worker, Post(w) PROVE ~Frozen
    BY <1>1, <2>2 DEF IInv, Post, Within, Unsent, UnsentBy, Pacing
  <2>3. ASSUME NEW f \in Fp, Charge(f) \/ Drop(f) PROVE posts' = posts
    BY <2>3 DEF Charge, Drop
  <2> QED BY <1>1, <2>1, <2>2, <2>3, OrdersStep DEF Frozen
<1> QED BY <1>1, InvHolds, PTL DEF Spec, UnknownFreezes

\* A tripped circuit breaker stays open: only the operator's file edit would close it.
CircuitStays == [][circuit = "open" => circuit' = "open"]_vars

\* record_upstream_failure, record_provider_success and reconcile_charge never close
\* the circuit again.
THEOREM TrippedStaysOpen == ASSUME VocalLabAssumption PROVE Spec => CircuitStays
<1>1. IInv => TypeOK /\ Held /\ Working
  BY DEF IInv
<1>2. ASSUME IInv, [Next]_vars PROVE [circuit = "open" => circuit' = "open"]_vars
  BY <1>1, <1>2, CircuitStep
<1> QED BY <1>2, InvHolds, PTL DEF Spec, CircuitStays

-----------------------------------------------------------------------------
(* The refinement of Purchase. *)

Ordered == {"post_started", "generation_known", "charged_pending_materialization"}

StageOf(status) ==
  CASE status \in {"unknown", "complete_budget_violation"} -> "frozen"
    [] status = "complete" -> "delivered"
    [] status \in Ordered -> "ordered"
    [] OTHER -> "open"

LEMMA StageOfRow ==
  ASSUME OneRow, NEW s \in Slot, Live(s)
  PROVE  Stage(rows[s].fp) = StageOf(rows[s].status)
<1>1. ASSUME NEW statuses, statuses \cap {"absent", "released"} = {}
      PROVE  Stands(rows[s].fp, statuses) <=> rows[s].status \in statuses
  BY <1>1 DEF Stands, OneRow, Live
<1>2. /\ Stands(rows[s].fp, {"unknown", "complete_budget_violation"})
           <=> rows[s].status \in {"unknown", "complete_budget_violation"}
      /\ Stands(rows[s].fp, {"complete"}) <=> rows[s].status = "complete"
      /\ Stands(rows[s].fp, Ordered) <=> rows[s].status \in Ordered
  BY <1>1 DEF Ordered
<1> QED BY <1>2 DEF Stage, StageOf, Ordered

\* A posting starts while no reservation is ambiguous.
LEMMA StartsUnfrozen ==
  ASSUME VocalLabAssumption, IInv, [Next]_vars,
         NEW s \in Slot, rows[s].status = "reserved", rows'[s].status = "post_started"
  PROVE  ~Frozen
<1>0. TypeOK /\ Held /\ Working /\ Unsent
  BY DEF IInv
<1>1. rows \in [Slot -> Reservation] /\ rows' # rows
  BY <1>0 DEF TypeOK, LedgerTypeOK
<1>2. ASSUME NEW t \in Slot, NEW r, Advances(t, r) \/ Reserves(t, r)
      PROVE  r.status = "post_started"
  BY <1>1, <1>2 DEF Advances, Reserves, Rewrites
<1>3. ASSUME NEW w \in Worker, at[w] # "idle" PROVE slot(w) \in Slot
  BY <1>0, <1>3, InHand
<1>4. ASSUME NEW w \in Worker,
             ReservePoints(w) \/ GiveUpPost(w) \/ Record(w) \/ Settle(w) \/ Commit(w)
      PROVE  FALSE
  <2>1. slot(w) \in Slot
    BY <1>3, <1>4 DEF ReservePoints, GiveUpPost, Record, Settle, Commit, Within
  <2>2. PICK r : (Advances(slot(w), r) \/ Reserves(slot(w), r)) /\ r.status # "post_started"
    BY <1>0, <1>1, <1>4, ReserveWrites, GiveUpWrites, RecordWrites, SettleWrites, CommitWrites
    DEF Reserves
  <2> QED BY <1>2, <2>1, <2>2
<1>5. ASSUME NEW w \in Worker, StartPost(w) PROVE ~Frozen
  BY <1>0, <1>5 DEF StartPost, Within, Unsent, UnsentBy
<1>6. ASSUME NEW t \in Slot, ReleaseReservation(t) PROVE FALSE
  BY <1>0, <1>2, <1>6, ReleaseWrites
<1>7. ASSUME NEW o \in Observer, Observe(o) \/ Observed(o) PROVE FALSE
  BY <1>1, <1>7 DEF Observe, Observed, ledgerVars
<1>8. ASSUME NEW f \in Fp, Charge(f) \/ Drop(f) PROVE FALSE
  BY <1>1, <1>8 DEF Charge, Drop, ledgerVars
<1>9. CASE Tick \/ UNCHANGED vars
  BY <1>1, <1>9 DEF Tick, vars, ledgerVars
<1> QED
  BY <1>1, <1>4, <1>5, <1>6, <1>7, <1>8, <1>9, NextActions, HandlesKeepsRows, PacesKeepsRows

\* The texts as the abstract specification sees them.
Stages == [f \in Fp |-> Stage(f)]

LEMMA UnfrozenStages == ASSUME ~Frozen PROVE \A f \in Fp : Stages[f] # "frozen"
BY DEF Frozen, Stages, Stage, Stands

\* Every step is a step of Purchase, or none.
LEMMA PurchaseStep ==
  ASSUME VocalLabAssumption, IInv, [Next]_vars
  PROVE  \/ Stages' = Stages
         \/ \E f \in Fp : \/ Ordering!Order(f) \/ Ordering!Deliver(f) \/ Ordering!Freeze(f)
<1>0. TypeOK /\ Held /\ Working /\ Named /\ OneRow /\ OneRow'
  BY OneRowStep DEF IInv
<1>1. rows \in [Slot -> Reservation]
  BY <1>0 DEF TypeOK, LedgerTypeOK
<1>2. CASE rows' = rows
  BY <1>2 DEF Stages, Stage, Stands
<1>3. ASSUME NEW s \in Slot, NEW r, Reserves(s, r) PROVE Stages' = Stages
  <2>1. ASSUME NEW f \in Fp, NEW statuses, statuses \cap {"absent", "released", "reserved"} = {}
        PROVE  Stands(f, statuses)' <=> Stands(f, statuses)
    <3>1. /\ rows' = [rows EXCEPT ![s] = r] /\ r.status = "reserved"
          /\ rows[s].status \in {"absent", "released"}
      BY <1>3 DEF Reserves, Rewrites
    <3> QED BY <1>1, <2>1, <3>1 DEF Stands
  <2>2. \A f \in Fp : Stage(f)' = Stage(f)
    BY <2>1 DEF Stage
  <2> QED BY <2>2 DEF Stages
<1>4. ASSUME NEW s \in Slot, NEW r, Advances(s, r)
      PROVE  \/ Stages' = Stages
             \/ \E f \in Fp : Ordering!Order(f) \/ Ordering!Deliver(f) \/ Ordering!Freeze(f)
  <2>0. PICK f : f = rows[s].fp
    OBVIOUS
  <2>1. /\ rows' = [rows EXCEPT ![s] = r] /\ r.fp = f
        /\ <<rows[s].status, r.status>> \in Moves
    BY <1>4, <2>0 DEF Advances, Rewrites
  <2>2. Live(s) /\ f \in Fp
    BY <1>0, <1>1, <2>0, <2>1 DEF Moves, Live, Named, Reservation
  <2>3. rows'[s] = r
    BY <1>1, <2>1
  <2>4. ASSUME NEW g \in Fp, g # f PROVE Stage(g)' = Stage(g)
    <3>1. ASSUME NEW statuses PROVE Stands(g, statuses)' <=> Stands(g, statuses)
      BY <1>1, <2>0, <2>1, <2>4 DEF Stands
    <3> QED BY <3>1 DEF Stage
  <2>5. Stage(f) = StageOf(rows[s].status)
    BY <1>0, <2>0, <2>2, StageOfRow
  <2>6. CASE r.status = "released"
    <3>1. rows[s].status = "reserved"
      BY <2>1, <2>6 DEF Moves
    <3>2. Stage(f) = "open"
      BY <2>5, <3>1 DEF StageOf, Ordered
    <3>3. ASSUME NEW statuses, statuses \cap {"absent", "released", "reserved"} = {}
          PROVE  ~Stands(f, statuses)'
      BY <1>0, <1>1, <2>0, <2>1, <2>2, <2>6, <3>1, <3>3 DEF Stands, OneRow, Live
    <3>4. Stage(f)' = "open"
      BY <3>3 DEF Stage
    <3> QED BY <2>4, <3>2, <3>4 DEF Stages
  <2>7. CASE r.status # "released"
    <3>1. Stage(f)' = StageOf(r.status)
      <4>1. Live(s)' /\ rows'[s].fp = f
        BY <2>1, <2>3, <2>7 DEF Live, Moves
      <4>2. ASSUME NEW statuses, statuses \cap {"absent", "released"} = {}
            PROVE  Stands(f, statuses)' <=> r.status \in statuses
        BY <1>0, <2>3, <4>1, <4>2 DEF Stands, OneRow, Live
      <4>3. /\ Stands(f, {"unknown", "complete_budget_violation"})'
                 <=> r.status \in {"unknown", "complete_budget_violation"}
            /\ Stands(f, {"complete"})' <=> r.status = "complete"
            /\ Stands(f, Ordered)' <=> r.status \in Ordered
        BY <4>2 DEF Ordered
      <4> QED BY <4>3 DEF Stage, StageOf, Ordered
    <3>2. ASSUME Stage(f)' = Stage(f) PROVE Stages' = Stages
      BY <2>4, <3>2 DEF Stages
    <3>3. Stages' = [Stages EXCEPT ![f] = StageOf(r.status)]
      BY <2>4, <3>1 DEF Stages
    <3>4. Stages[f] = StageOf(rows[s].status)
      BY <2>2, <2>5 DEF Stages
    <3>5. CASE rows[s].status = "reserved"
      <4>1. r.status = "post_started"
        BY <2>1, <2>7, <3>5 DEF Moves
      <4>2. \A g \in Fp : Stages[g] # "frozen"
        BY <2>3, <3>5, <4>1, StartsUnfrozen, UnfrozenStages
      <4>3. Stages[f] = "open" /\ Stages' = [Stages EXCEPT ![f] = "ordered"]
        BY <3>3, <3>4, <3>5, <4>1 DEF StageOf, Ordered
      <4> QED BY <2>2, <4>2, <4>3 DEF Ordering!Order, Ordering!Move, Stages
    <3>6. CASE r.status = "complete"
      <4>1. Stages[f] = "ordered" /\ Stages' = [Stages EXCEPT ![f] = "delivered"]
        BY <2>1, <3>3, <3>4, <3>6 DEF StageOf, Ordered, Moves
      <4> QED BY <2>2, <4>1 DEF Ordering!Deliver, Ordering!Move, Stages
    <3>7. CASE r.status \in {"unknown", "complete_budget_violation"}
      <4>1. Stages[f] = "ordered" /\ Stages' = [Stages EXCEPT ![f] = "frozen"]
        BY <2>1, <3>3, <3>4, <3>7 DEF StageOf, Ordered, Moves
      <4> QED BY <2>2, <4>1 DEF Ordering!Freeze, Ordering!Move, Stages
    <3>8. CASE /\ rows[s].status # "reserved"
               /\ r.status \notin {"complete", "unknown", "complete_budget_violation"}
      BY <2>1, <2>5, <2>7, <3>1, <3>2, <3>8 DEF StageOf, Ordered, Moves
    <3> QED BY <3>5, <3>6, <3>7, <3>8
  <2> QED BY <2>6, <2>7
<1> QED BY <1>0, <1>2, <1>3, <1>4, RowsStep

\* The points ledger implements Purchase: a text is ordered at most once under all its
\* keys, and an order nobody can tell the end of stops all further orders and posts.
THEOREM LedgerIsPurchase == ASSUME VocalLabAssumption PROVE Spec => ImplementsPurchase
<1>1. ASSUME Init PROVE Ordering!PurchaseInit
  BY <1>1 DEF Init, LedgerInit, Absent, Ordering!PurchaseInit, Stage, Stands
<1>2. ASSUME IInv, [Next]_vars
      PROVE  [Ordering!PurchaseNext]_([f \in Fp |-> Stage(f)])
  BY <1>2, PurchaseStep DEF Ordering!PurchaseNext, Stages
<1> QED
  BY <1>1, <1>2, InvHolds, AmbiguityFreezes, PTL
  DEF Spec, ImplementsPurchase, Ordering!PurchaseSpec

-----------------------------------------------------------------------------
(* Sums over finite sets.  The library's induction is over operators; here a *)
(* smallest counterexample is taken instead.                                  *)

Pick(s) == CHOOSE x \in s : TRUE

\* The recursion that the library's sum is defined by.
Defines(g, F, S) ==
  g = [s \in SUBSET S |-> IF s = {} THEN 0 ELSE F[Pick(s)] + g[s \ {Pick(s)}]]

Recursion(F, S) == CHOOSE g : Defines(g, F, S)

LEMMA PickIn == ASSUME NEW s, s # {} PROVE Pick(s) \in s
BY DEF Pick

LEMMA SumIsRecursion ==
  ASSUME NEW F, NEW S
  PROVE  SumFunctionOnSet(F, S) = Recursion(F, S)[S]
BY DEF SumFunctionOnSet, FoldFunctionOnSet, MapThenFoldSet, Recursion, Defines, Pick

LEMMA Smallest ==
  ASSUME NEW S, IsFiniteSet(S), NEW T, T \subseteq SUBSET S, T # {}
  PROVE  \E s \in T : \A t \in SUBSET s : t # s => t \notin T
<1>1. IsWellFoundedOn(StrictSubsetOrdering(S), FiniteSubsetsOf(S))
  BY FS_StrictSubsetOrderingWellFounded
<1>2. FiniteSubsetsOf(S) = SUBSET S
  BY FS_FiniteSubsetsOfFinite
<1>3. \E s \in T : \A t \in T : ~(<<t, s>> \in StrictSubsetOrdering(S))
  BY <1>1, <1>2, WFMin
<1> QED BY <1>3 DEF StrictSubsetOrdering

LEMMA RecursionUnique ==
  ASSUME NEW F, NEW S, IsFiniteSet(S), NEW g, NEW h, Defines(g, F, S), Defines(h, F, S)
  PROVE  g = h
<1> DEFINE T == {s \in SUBSET S : g[s] # h[s]}
<1>1. ASSUME T # {} PROVE FALSE
  <2>1. T \subseteq SUBSET S
    OBVIOUS
  <2> HIDE DEF T
  <2>2. PICK s \in T : \A t \in SUBSET s : t # s => t \notin T
    BY <1>1, <2>1, Smallest
  <2> USE DEF T
  <2>3. s \in SUBSET S /\ g[s] # h[s]
    BY <2>2
  <2>4. /\ g[s] = IF s = {} THEN 0 ELSE F[Pick(s)] + g[s \ {Pick(s)}]
        /\ h[s] = IF s = {} THEN 0 ELSE F[Pick(s)] + h[s \ {Pick(s)}]
    BY <2>3 DEF Defines
  <2>5. s # {} /\ s \ {Pick(s)} \in SUBSET s /\ s \ {Pick(s)} # s
    BY <2>3, <2>4, PickIn
  <2>6. g[s \ {Pick(s)}] = h[s \ {Pick(s)}]
    BY <2>2, <2>3, <2>5
  <2> QED BY <2>3, <2>4, <2>5, <2>6
<1>2. \A s \in SUBSET S : g[s] = h[s]
  BY <1>1
<1>3. g = [s \in SUBSET S |-> g[s]] /\ h = [s \in SUBSET S |-> h[s]]
  BY Zenon DEF Defines
<1> QED BY <1>2, <1>3

LEMMA RecursionRestricts ==
  ASSUME NEW F, NEW S, NEW g, Defines(g, F, S), NEW T \in SUBSET S
  PROVE  Defines([s \in SUBSET T |-> g[s]], F, T)
<1> DEFINE h == [s \in SUBSET T |-> g[s]]
<1>1. ASSUME NEW s \in SUBSET T
      PROVE  h[s] = IF s = {} THEN 0 ELSE F[Pick(s)] + h[s \ {Pick(s)}]
  <2>1. s \in SUBSET S /\ s \ {Pick(s)} \in SUBSET T
    OBVIOUS
  <2>2. g[s] = IF s = {} THEN 0 ELSE F[Pick(s)] + g[s \ {Pick(s)}]
    BY <2>1 DEF Defines
  <2> QED BY <2>1, <2>2
<1>2. h = [s \in SUBSET T |-> h[s]]
  OBVIOUS
<1> HIDE DEF h
<1>3. h = [s \in SUBSET T |-> IF s = {} THEN 0 ELSE F[Pick(s)] + h[s \ {Pick(s)}]]
  BY <1>1, <1>2
<1>4. Defines(h, F, T)
  BY <1>3, Zenon DEF Defines
<1> QED BY <1>4 DEF h

LEMMA RecursionExists ==
  ASSUME NEW F, NEW S, IsFiniteSet(S)
  PROVE  Defines(Recursion(F, S), F, S)
<1> DEFINE T == {U \in SUBSET S : ~ \E g : Defines(g, F, U)}
<1>1. ASSUME T # {} PROVE FALSE
  <2>1. T \subseteq SUBSET S
    OBVIOUS
  <2> HIDE DEF T
  <2>2. PICK U \in T : \A V \in SUBSET U : V # U => V \notin T
    BY <1>1, <2>1, Smallest
  <2> USE DEF T
  <2>3. ASSUME NEW V \in SUBSET U, V # U PROVE Defines(Recursion(F, V), F, V)
    <3>1. V \in SUBSET S /\ V \notin T
      BY <2>2, <2>3
    <3>2. \E g : Defines(g, F, V)
      BY <3>1
    <3> QED BY <3>2 DEF Recursion
  <2> DEFINE g == [s \in SUBSET U |->
                     IF s = {} THEN 0
                     ELSE F[Pick(s)] + Recursion(F, s \ {Pick(s)})[s \ {Pick(s)}]]
  <2>4. ASSUME NEW V \in SUBSET U, V # U PROVE Recursion(F, V)[V] = g[V]
    <3>1. Defines(Recursion(F, V), F, V)
      BY <2>3, <2>4
    <3>2. Recursion(F, V)[V] =
            IF V = {} THEN 0 ELSE F[Pick(V)] + Recursion(F, V)[V \ {Pick(V)}]
      BY <3>1 DEF Defines
    <3>3. CASE V # {}
      <4> DEFINE W == V \ {Pick(V)}
      <4>1. W \in SUBSET V /\ W \in SUBSET U /\ W # U
        BY <2>4, <3>3, PickIn
      <4>2. Defines(Recursion(F, W), F, W)
        BY <2>3, <4>1
      <4>3. Defines([s \in SUBSET W |-> Recursion(F, V)[s]], F, W)
        BY <3>1, <4>1, RecursionRestricts
      <4>4. IsFiniteSet(W)
        BY <2>2, <4>1, FS_Subset
      <4>5. Recursion(F, W) = [s \in SUBSET W |-> Recursion(F, V)[s]]
        BY <4>2, <4>3, <4>4, RecursionUnique
      <4>6. Recursion(F, W)[W] = Recursion(F, V)[W]
        BY <4>5
      <4> QED BY <3>2, <3>3, <4>6
    <3> QED BY <3>2, <3>3
  <2>5. ASSUME NEW s \in SUBSET U
        PROVE  g[s] = IF s = {} THEN 0 ELSE F[Pick(s)] + g[s \ {Pick(s)}]
    <3>1. CASE s # {}
      <4>1. s \ {Pick(s)} \in SUBSET U /\ s \ {Pick(s)} # U
        BY <3>1, PickIn
      <4> QED BY <2>4, <3>1, <4>1
    <3> QED BY <3>1
  <2>6. g = [s \in SUBSET U |-> g[s]]
    OBVIOUS
  <2> HIDE DEF g
  <2>7. g = [s \in SUBSET U |-> IF s = {} THEN 0 ELSE F[Pick(s)] + g[s \ {Pick(s)}]]
    BY <2>5, <2>6
  <2>8. Defines(g, F, U)
    BY <2>7, Zenon DEF Defines
  <2> QED BY <2>2, <2>8
<1>2. \E g : Defines(g, F, S)
  BY <1>1
<1> QED BY <1>2 DEF Recursion

LEMMA SumUnfolds ==
  ASSUME NEW F, NEW S, IsFiniteSet(S)
  PROVE  SumFunctionOnSet(F, S) =
           IF S = {} THEN 0 ELSE F[Pick(S)] + SumFunctionOnSet(F, S \ {Pick(S)})
<1>1. Defines(Recursion(F, S), F, S)
  BY RecursionExists
<1>2. Recursion(F, S)[S] =
        IF S = {} THEN 0 ELSE F[Pick(S)] + Recursion(F, S)[S \ {Pick(S)}]
  BY <1>1 DEF Defines
<1> DEFINE W == S \ {Pick(S)}
<1>3. W \in SUBSET S /\ IsFiniteSet(W)
  BY FS_Subset
<1>4. Defines([s \in SUBSET W |-> Recursion(F, S)[s]], F, W)
  BY <1>1, <1>3, RecursionRestricts
<1>5. Recursion(F, W) = [s \in SUBSET W |-> Recursion(F, S)[s]]
  BY <1>3, <1>4, RecursionExists, RecursionUnique
<1>6. Recursion(F, W)[W] = Recursion(F, S)[W]
  BY <1>5
<1> QED BY <1>2, <1>6, SumIsRecursion

LEMMA SumEmpty == ASSUME NEW F PROVE SumFunctionOnSet(F, {}) = 0
BY SumUnfolds, FS_EmptySet

LEMMA SumNat ==
  ASSUME NEW F, NEW S, IsFiniteSet(S), \A x \in S : F[x] \in Nat
  PROVE  SumFunctionOnSet(F, S) \in Nat
<1> DEFINE T == {s \in SUBSET S : SumFunctionOnSet(F, s) \notin Nat}
<1>1. ASSUME T # {} PROVE FALSE
  <2>1. T \subseteq SUBSET S
    OBVIOUS
  <2> HIDE DEF T
  <2>2. PICK s \in T : \A t \in SUBSET s : t # s => t \notin T
    BY <1>1, <2>1, Smallest
  <2> USE DEF T
  <2>3. IsFiniteSet(s) /\ s \in SUBSET S
    BY <2>2, FS_Subset
  <2>4. SumFunctionOnSet(F, s) = IF s = {} THEN 0 ELSE F[Pick(s)] + SumFunctionOnSet(F, s \ {Pick(s)})
    BY <2>3, SumUnfolds
  <2>5. CASE s # {}
    <3>1. Pick(s) \in s /\ s \ {Pick(s)} # s
      BY <2>5, PickIn
    <3>2. SumFunctionOnSet(F, s \ {Pick(s)}) \in Nat /\ F[Pick(s)] \in Nat
      BY <2>2, <2>3, <3>1
    <3> QED BY <2>2, <2>4, <2>5, <3>2
  <2> QED BY <2>2, <2>4, <2>5
<1> QED BY <1>1

\* An element can be taken out of a sum, whichever.
LEMMA SumTakesOut ==
  ASSUME NEW F, NEW S, IsFiniteSet(S), \A x \in S : F[x] \in Nat, NEW x \in S
  PROVE  SumFunctionOnSet(F, S) = F[x] + SumFunctionOnSet(F, S \ {x})
<1> DEFINE Sum(s) == SumFunctionOnSet(F, s)
           T == {s \in SUBSET S : \E y \in s : Sum(s) # F[y] + Sum(s \ {y})}
<1>1. ASSUME T # {} PROVE FALSE
  <2>1. T \subseteq SUBSET S
    OBVIOUS
  <2> HIDE DEF T
  <2>2. PICK s \in T : \A t \in SUBSET s : t # s => t \notin T
    BY <1>1, <2>1, Smallest
  <2> USE DEF T
  <2>3. s \in SUBSET S /\ IsFiniteSet(s)
    BY <2>2, FS_Subset
  <2>4. PICK y \in s : Sum(s) # F[y] + Sum(s \ {y})
    BY <2>2
  <2>5. PICK p : p = Pick(s)
    OBVIOUS
  <2>6. p \in s /\ Sum(s) = F[p] + Sum(s \ {p})
    BY <2>3, <2>4, <2>5, PickIn, SumUnfolds
  <2>7. p # y
    BY <2>4, <2>6
  <2>8. Sum(s \ {p}) = F[y] + Sum((s \ {p}) \ {y})
    BY <2>2, <2>3, <2>4, <2>6, <2>7
  <2>9. Sum(s \ {y}) = F[p] + Sum((s \ {y}) \ {p})
    BY <2>2, <2>3, <2>4, <2>6, <2>7
  <2>10. Sum((s \ {p}) \ {y}) = Sum((s \ {y}) \ {p})
    <3>1. (s \ {p}) \ {y} = (s \ {y}) \ {p}
      OBVIOUS
    <3> QED BY <3>1, Zenon
  <2>11. Sum((s \ {p}) \ {y}) \in Nat /\ F[y] \in Nat /\ F[p] \in Nat
    BY <2>3, <2>4, <2>6, FS_Subset, SumNat
  <2> HIDE DEF Sum
  <2> QED BY <2>4, <2>6, <2>8, <2>9, <2>10, <2>11
<1> QED BY <1>1

LEMMA SumAdds ==
  ASSUME NEW F, NEW S, IsFiniteSet(S), NEW x, x \notin S, \A y \in S \cup {x} : F[y] \in Nat
  PROVE  SumFunctionOnSet(F, S \cup {x}) = F[x] + SumFunctionOnSet(F, S)
<1>1. IsFiniteSet(S \cup {x}) /\ (S \cup {x}) \ {x} = S
  BY FS_AddElement
<1> QED BY <1>1, SumTakesOut

\* Terms that are not greater, of a set that is not larger.
LEMMA SumMonotone ==
  ASSUME NEW S, IsFiniteSet(S), NEW F, NEW G, NEW U \in SUBSET S,
         \A x \in S : G[x] \in Nat, \A x \in U : F[x] \in Nat /\ F[x] <= G[x]
  PROVE  SumFunctionOnSet(F, U) <= SumFunctionOnSet(G, S)
<1> DEFINE T == {s \in SUBSET S : ~ SumFunctionOnSet(F, U \cap s) <= SumFunctionOnSet(G, s)}
<1>1. ASSUME T # {} PROVE FALSE
  <2>1. T \subseteq SUBSET S
    OBVIOUS
  <2> HIDE DEF T
  <2>2. PICK s \in T : \A t \in SUBSET s : t # s => t \notin T
    BY <1>1, <2>1, Smallest
  <2> USE DEF T
  <2>3. s \in SUBSET S /\ IsFiniteSet(s) /\ IsFiniteSet(U \cap s)
    BY <2>2, FS_Subset
  <2>4. s # {}
    <3>1. ASSUME s = {} PROVE FALSE
      <4>1. U \cap s = {}
        BY <3>1
      <4>2. SumFunctionOnSet(F, U \cap s) = 0 /\ SumFunctionOnSet(G, s) = 0
        BY <3>1, <4>1, SumEmpty
      <4> QED BY <2>2, <4>2
    <3> QED BY <3>1
  <2>5. PICK x \in s : TRUE
    BY <2>4
  <2>6. SumFunctionOnSet(F, U \cap (s \ {x})) <= SumFunctionOnSet(G, s \ {x})
    BY <2>2, <2>3, <2>5
  <2>7. SumFunctionOnSet(G, s) = G[x] + SumFunctionOnSet(G, s \ {x})
    BY <2>3, <2>5, SumTakesOut
  <2>8. /\ SumFunctionOnSet(G, s \ {x}) \in Nat /\ SumFunctionOnSet(F, U \cap (s \ {x})) \in Nat
        /\ G[x] \in Nat
    <3>1. IsFiniteSet(s \ {x}) /\ IsFiniteSet(U \cap (s \ {x}))
      BY <2>3, FS_Subset
    <3> QED BY <2>3, <2>5, <3>1, SumNat
  <2>9. CASE x \in U
    <3>1. (U \cap s) \ {x} = U \cap (s \ {x})
      OBVIOUS
    <3>2. SumFunctionOnSet(F, U \cap s) = F[x] + SumFunctionOnSet(F, U \cap (s \ {x}))
      BY <2>3, <2>5, <2>9, <3>1, SumTakesOut
    <3>3. F[x] \in Nat /\ F[x] <= G[x]
      BY <2>9
    <3>4. SumFunctionOnSet(F, U \cap s) <= SumFunctionOnSet(G, s)
      BY <2>6, <2>7, <2>8, <3>2, <3>3
    <3> QED BY <2>2, <3>4
  <2>10. CASE x \notin U
    <3>1. U \cap s = U \cap (s \ {x})
      BY <2>10
    <3>2. SumFunctionOnSet(F, U \cap s) = SumFunctionOnSet(F, U \cap (s \ {x}))
      BY <3>1, Zenon
    <3>3. SumFunctionOnSet(F, U \cap s) <= SumFunctionOnSet(G, s)
      BY <2>6, <2>7, <2>8, <3>2
    <3> QED BY <2>2, <3>3
  <2> QED BY <2>9, <2>10
<1>2. S \notin T
  BY <1>1
<1>3. U \cap S = U
  OBVIOUS
<1> QED BY <1>2, <1>3

\* A sum depends on the terms in its set.
LEMMA SumSame ==
  ASSUME NEW S, IsFiniteSet(S), NEW F, NEW G,
         \A x \in S : F[x] \in Nat /\ G[x] = F[x]
  PROVE  SumFunctionOnSet(F, S) = SumFunctionOnSet(G, S)
<1>1. /\ SumFunctionOnSet(F, S) <= SumFunctionOnSet(G, S)
      /\ SumFunctionOnSet(G, S) <= SumFunctionOnSet(F, S)
  BY SumMonotone
<1>2. SumFunctionOnSet(F, S) \in Nat /\ SumFunctionOnSet(G, S) \in Nat
  BY SumNat
<1> QED BY <1>1, <1>2

-----------------------------------------------------------------------------
(* The reserve of the account and the ceilings of the jobs. *)

Estimated == [s \in Slot |-> rows[s].estimated]

\* What a reservation counts for in its job.
Weights ==
  [s \in Slot |-> IF rows[s].status \in Charged THEN rows[s].used ELSE rows[s].estimated]

\* Reservations that the provider may still charge for.
Claims == {s \in Slot : Live(s) /\ order[rows[s].fp] \in {"none", "sent"}}

HeldRows == {s \in Slot : rows[s].status \in {"reserved", "post_started", "generation_known"}}

JobRows(j) == {s \in Slot : Live(s) /\ JobOf[s] = j}

Priced == \A s \in Slot : Live(s) => rows[s].estimated = Estimate[rows[s].fp]

CostKnown == \A f \in Fp : order[f] # "charged" => cost[f] = 0

SettledCharged ==
  \A s \in Slot : rows[s].status \in Charged =>
    order[rows[s].fp] = "charged" /\ rows[s].used = cost[rows[s].fp]

\* What may still be charged is there, beside the reserve.
SpareKept == Overruns \/ balance >= Reserve + SumFunctionOnSet(Estimated, Claims)

\* A balance that was read may be old: what was charged since is still held for.
SeenFresh ==
  \A w \in Worker : at[w] = "reserve" /\ (\A s \in Slot : rows[s].status # "unknown") =>
    \/ Overruns
    \/ seen[w] + SumFunctionOnSet(Estimated, Claims)
         <= balance + SumFunctionOnSet(Estimated, HeldRows)

JobsCapped ==
  \A j \in Job : Overruns \/ SumFunctionOnSet(Weights, JobRows(j)) <= MaxPointsPerJob

MoneyInv == IInv /\ Priced /\ CostKnown /\ SettledCharged /\ SpareKept /\ SeenFresh

CeilingInv == IInv /\ Priced /\ CostKnown /\ SettledCharged /\ JobsCapped

LEMMA SumsAreNat ==
  ASSUME VocalLabAssumption, TypeOK, NEW S \in SUBSET Slot
  PROVE  /\ IsFiniteSet(S)
         /\ SumFunctionOnSet(Estimated, S) \in Nat
         /\ SumFunctionOnSet(Weights, S) \in Nat
         /\ \A s \in Slot : Estimated[s] \in Nat /\ Weights[s] \in Nat
<1>1. IsFiniteSet(S)
  BY FS_Subset DEF VocalLabAssumption, BudgetAssumption
<1>2. \A s \in Slot : Estimated[s] \in Nat /\ Weights[s] \in Nat
  BY DEF Estimated, Weights, TypeOK, LedgerTypeOK, Reservation
<1> QED BY <1>1, <1>2, SumNat

LEMMA LiveNamed ==
  ASSUME TypeOK, Named, NEW s \in Slot, Live(s)
  PROVE  rows[s].fp \in Fp
BY DEF TypeOK, LedgerTypeOK, Reservation, Named, Live

\* What a step may do to the rows, the orders and the balance.
LEMMA MoneySteps ==
  ASSUME VocalLabAssumption, IInv, [Next]_vars
  PROVE  \/ UNCHANGED <<rows, order, cost, balance>>
         \/ \E s \in Slot : \E r : Advances(s, r) /\ UNCHANGED <<order, cost, balance>>
         \/ \E w \in Worker : \E r :
              /\ ReservePoints(w) /\ Reserves(slot(w), r)
              /\ r.fp = fp(w) /\ r.estimated = Estimate[fp(w)]
              /\ Reservable(slot(w), fp(w), Estimate[fp(w)], seen[w])
              /\ UNCHANGED <<order, cost, balance>>
         \/ \E f \in Fp : (Charge(f) \/ Drop(f)) /\ rows' = rows
         \/ \E w \in Worker : Post(w) /\ UNCHANGED <<rows, cost, balance>>
<1>0. TypeOK /\ Held /\ Working
  BY DEF IInv
<1>1. ASSUME NEW w \in Worker, Handles(w)
      PROVE  \/ UNCHANGED <<rows, order, cost, balance>>
             \/ Post(w) /\ UNCHANGED <<rows, cost, balance>>
  BY <1>1
  DEF Handles, Begin, Find, ReadBalance, Post, Reply, PostFailed, Recorded, RecordedFails,
      Poll, PollFailed, Polled, Answered, Materialize, Return, Crash, ledgerVars, provider
<1>2. ASSUME NEW w \in Worker,
             \/ ReservePoints(w) \/ StartPost(w) \/ GiveUpPost(w) \/ Record(w)
             \/ Settle(w) \/ Commit(w)
      PROVE  UNCHANGED <<order, cost, balance>> /\ slot(w) \in Slot
  <2>1. at[w] # "idle"
    BY <1>2 DEF ReservePoints, StartPost, GiveUpPost, Record, Settle, Commit, Within
  <2>2. slot(w) \in Slot
    BY <1>0, <2>1, InHand
  <2> QED BY <1>2, <2>2 DEF ReservePoints, StartPost, GiveUpPost, Record, Settle, Commit, provider
<1>3. ASSUME NEW w \in Worker,
             StartPost(w) \/ GiveUpPost(w) \/ Record(w) \/ Settle(w) \/ Commit(w), rows' # rows
      PROVE  \E r : Advances(slot(w), r)
  BY <1>0, <1>3, StartWrites, GiveUpWrites, RecordWrites, SettleWrites, CommitWrites
<1>4. ASSUME NEW w \in Worker, ReservePoints(w), rows' # rows
      PROVE  \E r : /\ ReservePoints(w) /\ Reserves(slot(w), r)
                    /\ r.fp = fp(w) /\ r.estimated = Estimate[fp(w)]
                    /\ Reservable(slot(w), fp(w), Estimate[fp(w)], seen[w])
  BY <1>0, <1>4, ReserveWrites
<1>5. ASSUME NEW p \in Process, NEW purpose, Paces(p, purpose)
      PROVE  UNCHANGED <<rows, order, cost, balance>>
  BY <1>5 DEF Paces, Pace, Wait, GiveUp, ledgerVars, provider
<1>6. ASSUME NEW o \in Observer, Observe(o) \/ Observed(o)
      PROVE  UNCHANGED <<rows, order, cost, balance>>
  BY <1>6 DEF Observe, Observed, ledgerVars, provider
<1>7. ASSUME NEW s \in Slot, ReleaseReservation(s)
      PROVE  (\E r : Advances(s, r)) /\ UNCHANGED <<order, cost, balance>>
  BY <1>0, <1>7, ReleaseWrites DEF ReleaseReservation, provider
<1>8. ASSUME NEW f \in Fp, Charge(f) \/ Drop(f) PROVE rows' = rows
  BY <1>8 DEF Charge, Drop, ledgerVars
<1>9. ASSUME Tick \/ UNCHANGED vars PROVE UNCHANGED <<rows, order, cost, balance>>
  BY <1>9 DEF Tick, vars, ledgerVars, provider
<1> QED BY <1>1, <1>2, <1>3, <1>4, <1>5, <1>6, <1>7, <1>8, <1>9, NextActions

LEMMA OverrunsStay ==
  ASSUME VocalLabAssumption, IInv, CostKnown, Overruns, [Next]_vars
  PROVE  Overruns'
<1>1. PICK f \in Fp : cost[f] > Estimate[f]
  BY DEF Overruns
<1>2. order[f] = "charged" /\ Estimate[f] \in Nat
  BY <1>1 DEF CostKnown, VocalLabAssumption
<1>3. cost'[f] = cost[f]
  <2>1. cost' = cost \/ \E g \in Fp : Charge(g) \/ Drop(g)
    BY MoneySteps
  <2> QED BY <1>2, <2>1 DEF Charge, Drop, IInv, TypeOK
<1> QED BY <1>1, <1>3 DEF Overruns

LEMMA PricedStep ==
  ASSUME VocalLabAssumption, IInv, Priced, [Next]_vars
  PROVE  Priced'
<1>0. rows \in [Slot -> Reservation]
  BY DEF IInv, TypeOK, LedgerTypeOK
<1>1. CASE rows' = rows
  BY <1>1 DEF Priced, Live
<1>2. ASSUME NEW s \in Slot, NEW r, Advances(s, r) PROVE Priced'
  BY <1>0, <1>2 DEF Priced, Live, Advances, Rewrites, Moves
<1>3. ASSUME NEW w \in Worker, NEW r, ReservePoints(w), Reserves(slot(w), r),
             r.fp = fp(w), r.estimated = Estimate[fp(w)]
      PROVE  Priced'
  BY <1>0, <1>3 DEF Priced, Live, Reserves, Rewrites
<1> QED BY <1>1, <1>2, <1>3, MoneySteps

LEMMA CostKnownStep ==
  ASSUME VocalLabAssumption, IInv, CostKnown, [Next]_vars
  PROVE  CostKnown'
<1>0. TypeOK /\ Held
  BY DEF IInv
<1>1. ASSUME NEW f \in Fp, Charge(f) \/ Drop(f) PROVE CostKnown'
  BY <1>0, <1>1 DEF CostKnown, Charge, Drop, TypeOK
<1>2. ASSUME NEW w \in Worker, Post(w), cost' = cost PROVE CostKnown'
  <2>1. fp(w) \in Fp
    BY <1>0, <1>2, InHand DEF Post, Within
  <2> QED BY <1>0, <1>2, <2>1 DEF CostKnown, Post, TypeOK
<1>3. CASE UNCHANGED <<order, cost>>
  BY <1>3 DEF CostKnown
<1> QED BY <1>1, <1>2, <1>3, MoneySteps

LEMMA SettledChargedStep ==
  ASSUME VocalLabAssumption, IInv, SettledCharged, [Next]_vars
  PROVE  SettledCharged'
<1>0. TypeOK /\ Held /\ Named /\ rows \in [Slot -> Reservation]
  BY DEF IInv, TypeOK, LedgerTypeOK
<1>1. CASE UNCHANGED <<rows, order, cost>>
  BY <1>1 DEF SettledCharged
<1>2. ASSUME NEW s \in Slot, NEW r, Advances(s, r), UNCHANGED <<order, cost>>
      PROVE  SettledCharged'
  <2>1. rows' = [rows EXCEPT ![s] = r] /\ r.fp = rows[s].fp
    BY <1>2 DEF Advances, Rewrites
  <2>2. r.status \in Charged => order[r.fp] = "charged" /\ r.used = cost[r.fp]
    BY <1>2, <2>1 DEF SettledCharged, Advances
  <2>3. \A t \in Slot : rows'[t] = IF t = s THEN r ELSE rows[t]
    BY <1>0, <2>1
  <2>4. ASSUME NEW t \in Slot, rows'[t].status \in Charged
        PROVE  order'[rows'[t].fp] = "charged" /\ rows'[t].used = cost'[rows'[t].fp]
    <3>1. CASE t = s
      BY <1>2, <2>2, <2>3, <2>4, <3>1
    <3>2. CASE t # s
      BY <1>2, <2>3, <2>4, <3>2 DEF SettledCharged
    <3> QED BY <3>1, <3>2
  <2> QED BY <2>4 DEF SettledCharged
<1>3. ASSUME NEW s \in Slot, NEW r, Reserves(s, r), UNCHANGED <<order, cost>>
      PROVE  SettledCharged'
  BY <1>0, <1>3 DEF SettledCharged, Reserves, Rewrites, Charged
<1>4. ASSUME NEW f \in Fp, Charge(f) \/ Drop(f), rows' = rows PROVE SettledCharged'
  <2>1. order[f] # "charged" /\ \A g \in Fp \ {f} : order'[g] = order[g] /\ cost'[g] = cost[g]
    BY <1>0, <1>4 DEF Charge, Drop, TypeOK
  <2>2. ASSUME NEW t \in Slot, rows[t].status \in Charged
        PROVE  rows[t].fp \in Fp \ {f} /\ order[rows[t].fp] = "charged" /\ rows[t].used = cost[rows[t].fp]
    BY <1>0, <2>1, <2>2, LiveNamed DEF SettledCharged, Live, Charged
  <2> QED BY <1>4, <2>1, <2>2 DEF SettledCharged
<1>5. ASSUME NEW w \in Worker, Post(w), UNCHANGED <<rows, cost>> PROVE SettledCharged'
  <2>1. fp(w) \in Fp /\ order[fp(w)] = "none"
    BY <1>0, <1>5, InHand DEF IInv, Post, Within, Unsent, UnsentBy, Pacing
  <2> QED BY <1>0, <1>5, <2>1 DEF SettledCharged, Post, TypeOK
<1>6. ASSUME NEW w \in Worker, ReservePoints(w) PROVE slot(w) \in Slot
  BY <1>0, <1>6, InHand DEF ReservePoints
<1> QED BY <1>1, <1>2, <1>3, <1>4, <1>5, <1>6, MoneySteps

\* What a reservation that is admitted finds.
LEMMA AdmittedSpare ==
  ASSUME VocalLabAssumption, MoneyInv, NEW w \in Worker, ReservePoints(w),
         NEW r, Reserves(slot(w), r),
         Reservable(slot(w), fp(w), Estimate[fp(w)], seen[w])
  PROVE  Overruns \/ balance >= Reserve + SumFunctionOnSet(Estimated, Claims) + Estimate[fp(w)]
<1>0. TypeOK /\ Held /\ SeenFresh
  BY DEF MoneyInv, IInv
<1>1. /\ slot(w) \in Slot /\ Estimate[fp(w)] \in Nat /\ at[w] = "reserve"
      /\ seen[w] \in Int /\ balance \in Int /\ Reserve \in Nat
  BY <1>0, InHand DEF ReservePoints, TypeOK, VocalLabAssumption, BudgetAssumption
<1>2. \A s \in Slot : rows[s].status # "unknown"
  BY DEF Reservable, AccountBlocked
<1>3. seen[w] - HeldPoints(slot(w)) - Estimate[fp(w)] >= Reserve
  BY DEF Reservable
<1>4. HeldPoints(slot(w)) = SumFunctionOnSet(Estimated, HeldRows)
  <2> DEFINE U == {o \in Slot \ {slot(w)} :
                     rows[o].status \in {"reserved", "post_started", "generation_known"}}
  <2>1. U = HeldRows
    BY DEF HeldRows, Reserves
  <2>2. HeldPoints(slot(w)) = SumFunctionOnSet([o \in U |-> rows[o].estimated], U)
    BY DEF HeldPoints, SumOver
  <2>3. U \in SUBSET Slot
    OBVIOUS
  <2> HIDE DEF U
  <2>4. \A o \in U : Estimated[o] \in Nat /\ [x \in U |-> rows[x].estimated][o] = Estimated[o]
    BY <1>0, <2>3, SumsAreNat DEF Estimated
  <2>5. SumFunctionOnSet(Estimated, U) = SumFunctionOnSet([x \in U |-> rows[x].estimated], U)
    BY <1>0, <2>3, <2>4, SumsAreNat, SumSame
  <2> QED BY <2>1, <2>2, <2>5
<1>5. \/ Overruns
      \/ seen[w] + SumFunctionOnSet(Estimated, Claims)
           <= balance + SumFunctionOnSet(Estimated, HeldRows)
  BY <1>0, <1>1, <1>2 DEF SeenFresh
<1>6. SumFunctionOnSet(Estimated, Claims) \in Nat /\ SumFunctionOnSet(Estimated, HeldRows) \in Nat
  BY <1>0, SumsAreNat DEF Claims, HeldRows
<1> QED BY <1>1, <1>3, <1>4, <1>5, <1>6

\* Fewer claims, the same estimates.
LEMMA FewerClaims ==
  ASSUME VocalLabAssumption, TypeOK, Estimated' = Estimated, Claims' \subseteq Claims
  PROVE  /\ SumFunctionOnSet(Estimated, Claims)' <= SumFunctionOnSet(Estimated, Claims)
         /\ SumFunctionOnSet(Estimated, Claims)' \in Nat
<1>1. Claims \in SUBSET Slot /\ Claims' \in SUBSET Slot
  BY DEF Claims
<1>2. IsFiniteSet(Claims) /\ \A s \in Claims : Estimated[s] \in Nat
  BY <1>1, SumsAreNat
<1>3. SumFunctionOnSet(Estimated, Claims') <= SumFunctionOnSet(Estimated, Claims)
  BY <1>1, <1>2, SumMonotone
<1>4. SumFunctionOnSet(Estimated, Claims') \in Nat
  BY <1>1, SumsAreNat
<1> QED BY <1>3, <1>4

\* A charge takes its claim away.
LEMMA ChargedClaim ==
  ASSUME VocalLabAssumption, MoneyInv, NEW f \in Fp, Charge(f), rows' = rows
  PROVE  /\ Estimated' = Estimated /\ Claims' \subseteq Claims
         /\ SumFunctionOnSet(Estimated, Claims)' + Estimate[f]
              <= SumFunctionOnSet(Estimated, Claims)
<1>0. TypeOK /\ Named /\ ChargesRemembered /\ Priced
  BY DEF MoneyInv, IInv
<1>1. PICK s \in Slot : rows[s].fp = f /\ rows[s].status \notin {"absent", "reserved", "released"}
  BY <1>0 DEF ChargesRemembered, Charge
<1>2. s \in Claims /\ Estimated[s] = Estimate[f]
  BY <1>0, <1>1 DEF Claims, Live, Charge, Priced, Estimated
<1>3. Claims' \subseteq Claims \ {s}
  <2>1. \A t \in Slot : Live(t) => rows[t].fp \in Fp
    BY <1>0, LiveNamed
  <2> QED BY <1>0, <1>1, <2>1 DEF Claims, Live, Charge, TypeOK
<1>4. Estimated' = Estimated
  BY DEF Estimated
<1>5. Claims \in SUBSET Slot /\ Claims \ {s} \in SUBSET Slot /\ Claims' \in SUBSET Slot
  BY <1>3 DEF Claims
<1>6. SumFunctionOnSet(Estimated, Claims) = Estimated[s] + SumFunctionOnSet(Estimated, Claims \ {s})
  BY <1>0, <1>2, <1>5, SumsAreNat, SumTakesOut
<1>7. SumFunctionOnSet(Estimated, Claims') <= SumFunctionOnSet(Estimated, Claims \ {s})
  BY <1>0, <1>3, <1>5, SumsAreNat, SumMonotone
<1>8. /\ SumFunctionOnSet(Estimated, Claims') \in Nat
      /\ SumFunctionOnSet(Estimated, Claims \ {s}) \in Nat /\ Estimate[f] \in Nat
  BY <1>0, <1>5, SumsAreNat DEF VocalLabAssumption
<1> QED BY <1>2, <1>3, <1>4, <1>6, <1>7, <1>8

LEMMA ChargedPoints ==
  ASSUME VocalLabAssumption, NEW f \in Fp, Charge(f)
  PROVE  \E points \in Nat :
           balance' = balance - points /\ cost' = [cost EXCEPT ![f] = points]
<1>1. Estimate[f] + Overrun \in Nat
  BY DEF VocalLabAssumption
<1>2. PICK points \in 1..(Estimate[f] + Overrun) :
        balance' = balance - points /\ cost' = [cost EXCEPT ![f] = points]
  BY DEF Charge
<1>3. points \in Nat
  BY <1>1
<1> QED BY <1>2, <1>3

LEMMA SpareKeptStep ==
  ASSUME VocalLabAssumption, MoneyInv, [Next]_vars
  PROVE  SpareKept'
<1>0. /\ TypeOK /\ Held /\ Named /\ SpareKept /\ CostKnown /\ IInv
      /\ rows \in [Slot -> Reservation] /\ balance \in Int /\ Reserve \in Nat
  BY DEF MoneyInv, IInv, TypeOK, LedgerTypeOK, VocalLabAssumption, BudgetAssumption
<1>1. SUFFICES ASSUME ~Overruns, ~Overruns' PROVE SpareKept'
  BY <1>0, OverrunsStay DEF SpareKept
<1>2. balance >= Reserve + SumFunctionOnSet(Estimated, Claims)
  BY <1>0, <1>1 DEF SpareKept
<1>3. SumFunctionOnSet(Estimated, Claims) \in Nat
  BY <1>0, SumsAreNat DEF Claims
<1>4. ASSUME Estimated' = Estimated, Claims' \subseteq Claims, balance' = balance
      PROVE  SpareKept'
  <2>1. /\ SumFunctionOnSet(Estimated, Claims)' <= SumFunctionOnSet(Estimated, Claims)
        /\ SumFunctionOnSet(Estimated, Claims)' \in Nat
    BY <1>0, <1>4, FewerClaims
  <2> QED BY <1>0, <1>2, <1>3, <1>4, <2>1 DEF SpareKept
<1>5. CASE UNCHANGED <<rows, order, cost, balance>>
  BY <1>4, <1>5 DEF Estimated, Claims, Live
<1>6. ASSUME NEW s \in Slot, NEW r, Advances(s, r), UNCHANGED <<order, cost, balance>>
      PROVE  SpareKept'
  <2>1. \A t \in Slot : /\ rows'[t].estimated = rows[t].estimated /\ rows'[t].fp = rows[t].fp
                        /\ Live(t)' => Live(t)
    BY <1>0, <1>6 DEF Advances, Rewrites, Moves, Live
  <2> QED BY <1>4, <1>6, <2>1 DEF Estimated, Claims
<1>7. ASSUME NEW w \in Worker, NEW r, ReservePoints(w), Reserves(slot(w), r),
             r.fp = fp(w), r.estimated = Estimate[fp(w)],
             Reservable(slot(w), fp(w), Estimate[fp(w)], seen[w]),
             UNCHANGED <<order, cost, balance>>
      PROVE  SpareKept'
  <2>1. PICK s \in Slot : s = slot(w)
    BY <1>0, <1>7, InHand DEF ReservePoints
  <2>2. balance >= Reserve + SumFunctionOnSet(Estimated, Claims) + Estimate[fp(w)]
    BY <1>1, <1>7, AdmittedSpare
  <2>3. rows' = [rows EXCEPT ![s] = r] /\ s \notin Claims /\ ~Live(s)
    BY <1>7, <2>1 DEF Reserves, Rewrites, Claims, Live
  <2>4. Estimated'[s] = Estimate[fp(w)] /\ \A t \in Slot : t # s => Estimated'[t] = Estimated[t]
    BY <1>0, <1>7, <2>3 DEF Estimated
  <2>5. Claims' \subseteq Claims \cup {s}
    BY <1>0, <1>7, <2>3 DEF Claims, Live
  <2>6. TypeOK'
    BY <1>0, StepInv DEF IInv
  <2>7. Claims \in SUBSET Slot /\ Claims' \in SUBSET Slot /\ Claims \cup {s} \in SUBSET Slot
    BY <2>5 DEF Claims
  <2>8. \A t \in Slot : Estimated[t] \in Nat /\ Estimated'[t] \in Nat
    BY <2>6, <1>0, SumsAreNat DEF Estimated, TypeOK, LedgerTypeOK, Reservation
  <2>9. IsFiniteSet(Claims) /\ IsFiniteSet(Claims \cup {s}) /\ IsFiniteSet(Claims')
    BY <1>0, <2>7, SumsAreNat
  <2>10. SumFunctionOnSet(Estimated', Claims') <= SumFunctionOnSet(Estimated', Claims \cup {s})
    BY <2>5, <2>7, <2>8, <2>9, SumMonotone
  <2>11. SumFunctionOnSet(Estimated', Claims \cup {s})
           = Estimated'[s] + SumFunctionOnSet(Estimated', Claims)
    BY <2>3, <2>7, <2>8, <2>9, SumAdds
  <2>12. SumFunctionOnSet(Estimated, Claims) = SumFunctionOnSet(Estimated', Claims)
    BY <2>3, <2>4, <2>7, <2>8, <2>9, SumSame
  <2>13. SumFunctionOnSet(Estimated', Claims') \in Nat
    BY <2>7, <2>8, <2>9, SumNat
  <2>14. Estimate[fp(w)] \in Nat
    BY <1>0, <1>7, InHand DEF ReservePoints
  <2>15. balance >= Reserve + SumFunctionOnSet(Estimated', Claims')
    BY <1>0, <1>3, <2>2, <2>4, <2>10, <2>11, <2>12, <2>13, <2>14
  <2> QED BY <1>7, <2>15 DEF SpareKept
<1>8. ASSUME NEW f \in Fp, Charge(f), rows' = rows PROVE SpareKept'
  <2>1. /\ Estimated' = Estimated /\ Claims' \subseteq Claims
        /\ SumFunctionOnSet(Estimated, Claims)' + Estimate[f]
              <= SumFunctionOnSet(Estimated, Claims)
    BY <1>8, ChargedClaim
  <2>2. SumFunctionOnSet(Estimated, Claims)' \in Nat
    BY <1>0, <2>1, FewerClaims
  <2>3. PICK points \in Nat : balance' = balance - points /\ cost' = [cost EXCEPT ![f] = points]
    BY <1>8, ChargedPoints
  <2>4. points <= Estimate[f] /\ Estimate[f] \in Nat
    BY <1>0, <1>1, <2>3 DEF Overruns, TypeOK, VocalLabAssumption
  <2> QED BY <1>0, <1>2, <1>3, <2>1, <2>2, <2>3, <2>4 DEF SpareKept
<1>9. ASSUME NEW f \in Fp, Drop(f), rows' = rows PROVE SpareKept'
  <2>1. \A t \in Slot : Live(t) => rows[t].fp \in Fp
    BY <1>0, LiveNamed
  <2>2. Claims' \subseteq Claims
    BY <1>0, <1>9, <2>1 DEF Claims, Live, Drop, TypeOK
  <2> QED BY <1>4, <1>9, <2>2 DEF Estimated, Drop
<1>10. ASSUME NEW w \in Worker, Post(w), UNCHANGED <<rows, cost, balance>> PROVE SpareKept'
  <2>1. fp(w) \in Fp /\ order[fp(w)] = "none"
    BY <1>0, <1>10, InHand DEF IInv, Post, Within, Unsent, UnsentBy, Pacing
  <2>2. Claims' \subseteq Claims
    BY <1>0, <1>10, <2>1 DEF Claims, Live, Post, TypeOK
  <2> QED BY <1>4, <1>10, <2>2 DEF Estimated
<1> QED BY <1>0, <1>5, <1>6, <1>7, <1>8, <1>9, <1>10, MoneySteps

\* Where a worker has a balance in hand, the rows are as they were when it was read.
LEMMA SeenSteps ==
  ASSUME VocalLabAssumption, IInv, [Next]_vars, NEW w \in Worker, at'[w] = "reserve"
  PROVE  \/ seen'[w] = balance /\ UNCHANGED <<rows, order, cost, balance>>
         \/ /\ at[w] = "reserve" /\ seen'[w] = seen[w] /\ rows' = rows
            /\ \/ UNCHANGED <<order, cost, balance>>
               \/ \E f \in Fp : Charge(f) \/ Drop(f)
<1>0. TypeOK /\ Held /\ \A v \in Worker \ {w} : at[w] # "idle" => at[v] = "idle"
  BY OthersIdle DEF IInv
<1>1. Worker \subseteq Process /\ Worker \cap Observer = {} /\ Nobody \notin Worker
  BY DEF VocalLabAssumption, Process
<1>2. ASSUME NEW v \in Worker, NEW place, at' = [at EXCEPT ![v] = place], v # w
      PROVE  at[w] = "reserve" /\ at[v] = "idle"
  BY <1>0, <1>1, <1>2 DEF TypeOK
<1>3. ASSUME NEW v \in Worker, Handles(v)
      PROVE  \/ seen'[w] = balance /\ UNCHANGED <<rows, order, cost, balance>>
             \/ /\ at[w] = "reserve" /\ seen'[w] = seen[w]
                /\ UNCHANGED <<rows, order, cost, balance>>
  <2>1. PICK place : at' = [at EXCEPT ![v] = place]
    BY <1>3 DEF Handles, Begin, Find, ReadBalance, Post, Reply, PostFailed, Recorded,
                RecordedFails, Poll, PollFailed, Polled, Answered, Materialize, Return, Crash,
                Within, Finish, Go
  <2>2. CASE v # w
    <3>1. at[w] = "reserve" /\ at[v] = "idle"
      BY <1>2, <2>1, <2>2
    <3>2. \E r \in Request : Begin(v, r)
      BY <1>3, <3>1 DEF Handles, Find, ReadBalance, Post, Reply, PostFailed, Recorded,
                RecordedFails, Poll, PollFailed, Polled, Answered, Materialize, Return, Crash,
                Within
    <3> QED BY <3>1, <3>2 DEF Begin, ledgerVars, provider
  <2>3. CASE v = w
    <3>1. place = "reserve"
      BY <1>0, <1>1, <2>1, <2>3 DEF TypeOK
    <3>2. ReadBalance(w)
      <4>1. at'[w] = "reserve"
        OBVIOUS
      <4> QED
        BY <1>0, <1>1, <1>3, <2>3, <4>1
        DEF Handles, Begin, Find, Post, Reply, PostFailed, Recorded,
            RecordedFails, Poll, PollFailed, Polled, Answered, Materialize, Return, Crash,
            Within, Finish, Go, TypeOK
    <3>3. at[w] # "reserve"
      BY <3>2 DEF ReadBalance
    <3>4. ~Finish(w)
      BY <1>0, <1>1 DEF Finish, Go, TypeOK
    <3> QED BY <1>0, <3>2, <3>4 DEF ReadBalance, TypeOK, ledgerVars, provider
  <2> QED BY <2>2, <2>3
<1>4. ASSUME NEW v \in Worker,
             \/ ReservePoints(v) \/ StartPost(v) \/ GiveUpPost(v) \/ Record(v)
             \/ Settle(v) \/ Commit(v)
      PROVE  FALSE
  <2>1. PICK place : at' = [at EXCEPT ![v] = place] /\ place # "reserve" /\ at[v] # "idle"
    BY <1>4 DEF ReservePoints, StartPost, GiveUpPost, Record, Settle, Commit, Within, Finish, Go
  <2>2. v = w
    BY <1>2, <2>1
  <2> QED BY <1>0, <1>1, <2>1, <2>2 DEF TypeOK
<1>5. ASSUME NEW p \in Process, NEW purpose \in {"post", "poll"}, Paces(p, purpose)
      PROVE  at[w] = "reserve" /\ UNCHANGED <<seen, rows, order, cost, balance>>
  <2>1. UNCHANGED <<seen, rows, order, cost, balance>>
    BY <1>5 DEF Paces, Pace, Wait, GiveUp, ledgerVars, provider
  <2>2. \E place : at' = [at EXCEPT ![p] = place] /\ place # "reserve"
    BY <1>5 DEF Paces, Pace, Wait, GiveUp, Within, Finish, Go, SleepAt
  <2> QED BY <1>0, <1>1, <2>1, <2>2 DEF TypeOK
<1>6. ASSUME NEW o \in Observer, Observe(o) \/ Observed(o)
      PROVE  at[w] = "reserve" /\ UNCHANGED <<seen, rows, order, cost, balance>>
  BY <1>0, <1>1, <1>6 DEF Observe, Observed, Within, Go, TypeOK, ledgerVars, provider
<1>7. ASSUME NEW s \in Slot, ReleaseReservation(s) PROVE FALSE
  BY <1>0, <1>1, <1>7 DEF ReleaseReservation, Held
<1>8. ASSUME NEW f \in Fp, Charge(f) \/ Drop(f)
      PROVE  at[w] = "reserve" /\ UNCHANGED <<seen, rows>>
  BY <1>8 DEF Charge, Drop, ledgerVars
<1>9. ASSUME Tick PROVE at[w] = "reserve" /\ UNCHANGED <<seen, rows, order, cost, balance>>
  BY <1>1, <1>9 DEF Tick, provider
<1>10. ASSUME UNCHANGED vars
       PROVE  at[w] = "reserve" /\ UNCHANGED <<seen, rows, order, cost, balance>>
  BY <1>10 DEF vars, ledgerVars, provider
<1> QED
  BY <1>3, <1>4, <1>5, <1>6, <1>7, <1>8, <1>9, <1>10, NextActions


LEMMA SeenFreshStep ==
  ASSUME VocalLabAssumption, MoneyInv, [Next]_vars
  PROVE  SeenFresh'
<1>0. /\ TypeOK /\ IInv /\ CostKnown /\ SettledCharged /\ SeenFresh
      /\ rows \in [Slot -> Reservation] /\ balance \in Int /\ seen \in [Worker -> Int]
  BY DEF MoneyInv, IInv, TypeOK, LedgerTypeOK
<1>1. SUFFICES ASSUME NEW w \in Worker, at'[w] = "reserve",
                      \A s \in Slot : rows'[s].status # "unknown",
                      ~Overruns, ~Overruns'
               PROVE  seen'[w] + SumFunctionOnSet(Estimated, Claims)'
                        <= balance' + SumFunctionOnSet(Estimated, HeldRows)'
  BY <1>0, OverrunsStay DEF SeenFresh
<1>2. Claims \in SUBSET Slot /\ HeldRows \in SUBSET Slot
  BY DEF Claims, HeldRows
<1>3. /\ IsFiniteSet(HeldRows) /\ \A s \in Slot : Estimated[s] \in Nat
      /\ SumFunctionOnSet(Estimated, Claims) \in Nat
      /\ SumFunctionOnSet(Estimated, HeldRows) \in Nat
  BY <1>0, <1>2, SumsAreNat
<1>4. CASE seen'[w] = balance /\ UNCHANGED <<rows, order, cost, balance>>
  <2>1. Claims \subseteq HeldRows
    BY <1>0, <1>1, <1>4 DEF Claims, HeldRows, Live, SettledCharged, Charged, Reservation, Status
  <2>2. SumFunctionOnSet(Estimated, Claims) <= SumFunctionOnSet(Estimated, HeldRows)
    BY <1>2, <1>3, <2>1, SumMonotone
  <2>3. Estimated' = Estimated /\ Claims' = Claims /\ HeldRows' = HeldRows
    BY <1>4 DEF Estimated, Claims, HeldRows, Live
  <2>4. /\ SumFunctionOnSet(Estimated, Claims)' = SumFunctionOnSet(Estimated, Claims)
        /\ SumFunctionOnSet(Estimated, HeldRows)' = SumFunctionOnSet(Estimated, HeldRows)
    BY <2>3, Zenon
  <2> QED BY <1>0, <1>3, <1>4, <2>2, <2>4
<1>5. CASE /\ at[w] = "reserve" /\ seen'[w] = seen[w] /\ rows' = rows
           /\ UNCHANGED <<order, cost, balance>> \/ \E f \in Fp : Charge(f) \/ Drop(f)
  <2>1. seen[w] + SumFunctionOnSet(Estimated, Claims)
          <= balance + SumFunctionOnSet(Estimated, HeldRows)
    BY <1>0, <1>1, <1>5 DEF SeenFresh
  <2>2. Estimated' = Estimated /\ HeldRows' = HeldRows
    BY <1>5 DEF Estimated, HeldRows
  <2>3. SumFunctionOnSet(Estimated, HeldRows)' = SumFunctionOnSet(Estimated, HeldRows)
    BY <2>2, Zenon
  <2>4. CASE Claims' \subseteq Claims /\ balance' = balance
    <3>1. /\ SumFunctionOnSet(Estimated, Claims)' <= SumFunctionOnSet(Estimated, Claims)
          /\ SumFunctionOnSet(Estimated, Claims)' \in Nat
      BY <1>0, <2>2, <2>4, FewerClaims
    <3> QED BY <1>0, <1>3, <1>5, <2>1, <2>3, <2>4, <3>1
  <2>5. CASE UNCHANGED <<order, cost, balance>>
    BY <1>5, <2>4, <2>5 DEF Claims, Live
  <2>6. ASSUME NEW f \in Fp, Drop(f)
        PROVE  Claims' \subseteq Claims /\ balance' = balance
    <3>1. \A t \in Slot : Live(t) => rows[t].fp \in Fp
      BY <1>0, LiveNamed DEF IInv
    <3> QED BY <1>0, <1>5, <2>6, <3>1 DEF Claims, Live, Drop, TypeOK
  <2>7. ASSUME NEW f \in Fp, Charge(f)
        PROVE  seen'[w] + SumFunctionOnSet(Estimated, Claims)'
                 <= balance' + SumFunctionOnSet(Estimated, HeldRows)'
    <3>1. /\ Claims' \subseteq Claims
          /\ SumFunctionOnSet(Estimated, Claims)' + Estimate[f]
               <= SumFunctionOnSet(Estimated, Claims)
      BY <1>5, <2>7, ChargedClaim
    <3>2. SumFunctionOnSet(Estimated, Claims)' \in Nat
      BY <1>0, <2>2, <3>1, FewerClaims
    <3>3. PICK points \in Nat : balance' = balance - points /\ cost' = [cost EXCEPT ![f] = points]
      BY <2>7, ChargedPoints
    <3>4. points <= Estimate[f] /\ Estimate[f] \in Nat
      BY <1>0, <1>1, <3>3 DEF Overruns, TypeOK, VocalLabAssumption
    <3> QED BY <1>0, <1>3, <1>5, <2>1, <2>3, <3>1, <3>2, <3>3, <3>4
  <2> QED BY <1>5, <2>4, <2>5, <2>6, <2>7
<1> QED BY <1>0, <1>1, <1>4, <1>5, SeenSteps

\* What other reservations of the job already count for.
LEMMA CommittedToJob ==
  ASSUME VocalLabAssumption, TypeOK, NEW s \in Slot, ~Live(s)
  PROVE  Committed(s) = SumFunctionOnSet(Weights, JobRows(JobOf[s]))
<1> DEFINE U == Segments(s)
<1>1. U = JobRows(JobOf[s])
  BY DEF Segments, JobRows, Live
<1>2. Committed(s) =
        SumFunctionOnSet([o \in U |-> IF rows[o].status \in Charged
                                        THEN rows[o].used ELSE rows[o].estimated], U)
  BY DEF Committed, SumOver
<1>3. U \in SUBSET Slot
  BY <1>1 DEF JobRows
<1> HIDE DEF U
<1>4. \A o \in U : /\ Weights[o] \in Nat
                   /\ [x \in U |-> IF rows[x].status \in Charged
                                     THEN rows[x].used ELSE rows[x].estimated][o] = Weights[o]
  BY <1>3, SumsAreNat DEF Weights
<1>5. SumFunctionOnSet(Weights, U) =
        SumFunctionOnSet([x \in U |-> IF rows[x].status \in Charged
                                        THEN rows[x].used ELSE rows[x].estimated], U)
  BY <1>3, <1>4, SumsAreNat, SumSame
<1> QED BY <1>1, <1>2, <1>5

\* Weights that are not greater, of rows that are not more.
LEMMA LighterJob ==
  ASSUME VocalLabAssumption, TypeOK, TypeOK', NEW j \in Job, JobRows(j)' \subseteq JobRows(j),
         \A t \in Slot : t \in JobRows(j)' => Weights'[t] <= Weights[t],
         SumFunctionOnSet(Weights, JobRows(j)) <= MaxPointsPerJob
  PROVE  SumFunctionOnSet(Weights, JobRows(j))' <= MaxPointsPerJob
<1>1. JobRows(j) \in SUBSET Slot
  BY DEF JobRows
<1>2. \A t \in Slot : Weights'[t] \in Nat
  BY DEF Weights, TypeOK, LedgerTypeOK, Reservation
<1>3. /\ IsFiniteSet(JobRows(j)) /\ \A t \in Slot : Weights[t] \in Nat
      /\ IsFiniteSet(JobRows(j)')
      /\ SumFunctionOnSet(Weights, JobRows(j)) \in Nat
  BY <1>1, SumsAreNat
<1>4. SumFunctionOnSet(Weights', JobRows(j)') <= SumFunctionOnSet(Weights, JobRows(j))
  BY <1>1, <1>2, <1>3, SumMonotone
<1>5. SumFunctionOnSet(Weights', JobRows(j)') \in Nat
  BY <1>1, <1>2, <1>3, SumNat
<1> QED BY <1>3, <1>4, <1>5 DEF VocalLabAssumption, BudgetAssumption

LEMMA JobsCappedStep ==
  ASSUME VocalLabAssumption, CeilingInv, [Next]_vars
  PROVE  JobsCapped'
<1>0. /\ TypeOK /\ Held /\ IInv /\ Priced /\ CostKnown /\ SettledCharged /\ JobsCapped
      /\ rows \in [Slot -> Reservation]
  BY DEF CeilingInv, IInv, TypeOK, LedgerTypeOK
<1>1. TypeOK'
  BY <1>0, StepInv DEF IInv
<1>2. SUFFICES ASSUME NEW j \in Job, ~Overruns
               PROVE  SumFunctionOnSet(Weights, JobRows(j))' <= MaxPointsPerJob
  BY <1>0, OverrunsStay DEF JobsCapped
<1>3. SumFunctionOnSet(Weights, JobRows(j)) <= MaxPointsPerJob
  BY <1>0, <1>2 DEF JobsCapped
<1>4. \A t \in Slot : Weights[t] \in Nat
  BY <1>0, SumsAreNat
<1>5. CASE rows' = rows
  <2>1. Weights' = Weights /\ JobRows(j)' = JobRows(j)
    BY <1>5 DEF Weights, JobRows, Live
  <2>2. \A t \in Slot : Weights'[t] <= Weights[t]
    BY <1>4, <2>1
  <2> QED BY <1>0, <1>1, <1>3, <2>1, <2>2, LighterJob
<1>6. ASSUME NEW s \in Slot, NEW r, Advances(s, r), UNCHANGED <<order, cost, balance>>
      PROVE  SumFunctionOnSet(Weights, JobRows(j))' <= MaxPointsPerJob
  <2>1. rows' = [rows EXCEPT ![s] = r] /\ Live(s)
    BY <1>6 DEF Advances, Rewrites, Moves, Live
  <2>2. JobRows(j)' \subseteq JobRows(j)
    BY <1>0, <2>1 DEF JobRows, Live
  <2>3. Weights'[s] <= Weights[s]
    <3>1. Weights'[s] = IF r.status \in Charged THEN r.used ELSE r.estimated
      BY <1>0, <2>1 DEF Weights
    <3>2. /\ rows[s].fp \in Fp /\ Estimate[rows[s].fp] \in Nat
          /\ cost[rows[s].fp] \in Nat
          /\ rows[s].estimated \in Nat /\ rows[s].used \in Nat
      BY <1>0, <2>1, LiveNamed DEF IInv, TypeOK, VocalLabAssumption, Reservation
    <3>3. cost[rows[s].fp] <= rows[s].estimated
      BY <1>0, <1>2, <2>1, <3>2 DEF Overruns, Priced
    <3>4. CASE r.status \in Charged
      BY <1>0, <1>6, <3>1, <3>2, <3>3, <3>4 DEF Advances, Weights, SettledCharged
    <3>5. CASE r.status \notin Charged
      BY <1>6, <3>1, <3>2, <3>5 DEF Advances, Weights, Moves, Charged
    <3> QED BY <3>4, <3>5
  <2>4. \A t \in Slot : t # s => Weights'[t] = Weights[t]
    BY <1>0, <2>1 DEF Weights
  <2>5. \A t \in Slot : Weights'[t] <= Weights[t]
    BY <1>4, <2>3, <2>4
  <2> QED BY <1>0, <1>1, <1>3, <2>2, <2>5, LighterJob
<1>7. ASSUME NEW w \in Worker, NEW r, ReservePoints(w), Reserves(slot(w), r),
             r.fp = fp(w), r.estimated = Estimate[fp(w)],
             Reservable(slot(w), fp(w), Estimate[fp(w)], seen[w])
      PROVE  SumFunctionOnSet(Weights, JobRows(j))' <= MaxPointsPerJob
  <2>1. PICK s \in Slot : s = slot(w)
    BY <1>0, <1>7, InHand DEF ReservePoints
  <2>2. rows' = [rows EXCEPT ![s] = r] /\ ~Live(s)
    BY <1>7, <2>1 DEF Reserves, Rewrites, Live
  <2>3. Weights'[s] = r.estimated /\ \A t \in Slot : t # s => Weights'[t] = Weights[t]
    BY <1>0, <1>7, <2>2 DEF Weights, Reserves, Charged
  <2>4. CASE JobOf[s] # j
    <3>1. JobRows(j)' \subseteq JobRows(j) /\ s \notin JobRows(j)'
      BY <1>0, <2>2, <2>4 DEF JobRows, Live
    <3>2. \A t \in Slot : t \in JobRows(j)' => Weights'[t] <= Weights[t]
      BY <1>4, <2>3, <3>1
    <3> QED BY <1>0, <1>1, <1>3, <3>1, <3>2, LighterJob
  <2>5. CASE JobOf[s] = j
    <3>1. Committed(s) + r.estimated <= MaxPointsPerJob
      BY <1>7, <2>1 DEF Reservable
    <3>2. JobRows(j)' = JobRows(j) \cup {s} /\ s \notin JobRows(j) /\ JobRows(j) \in SUBSET Slot
      BY <1>0, <1>7, <2>2, <2>5 DEF JobRows, Live, Reserves
    <3>3. \A t \in Slot : Weights'[t] \in Nat
      BY <1>1 DEF Weights, TypeOK, LedgerTypeOK, Reservation
    <3>4. IsFiniteSet(JobRows(j)) /\ SumFunctionOnSet(Weights, JobRows(j)) \in Nat
      BY <1>0, <3>2, SumsAreNat
    <3>5. SumFunctionOnSet(Weights', JobRows(j) \cup {s})
            = Weights'[s] + SumFunctionOnSet(Weights', JobRows(j))
      BY <3>2, <3>3, <3>4, SumAdds
    <3>6. SumFunctionOnSet(Weights, JobRows(j)) = SumFunctionOnSet(Weights', JobRows(j))
      BY <1>4, <2>3, <3>2, <3>4, SumSame
    <3>7. SumFunctionOnSet(Weights', JobRows(j)') = r.estimated + Committed(s)
      BY <1>0, <2>2, <2>3, <2>5, <3>2, <3>5, <3>6, CommittedToJob
    <3>8. Committed(s) \in Nat /\ r.estimated \in Nat
      BY <1>0, <2>2, <2>3, <2>5, <3>3, <3>4, CommittedToJob
    <3> QED BY <3>1, <3>7, <3>8
  <2> QED BY <2>4, <2>5
<1>8. ASSUME NEW f \in Fp, Charge(f) \/ Drop(f) PROVE rows' = rows
  BY <1>8 DEF Charge, Drop, ledgerVars
<1> QED BY <1>0, <1>5, <1>6, <1>7, <1>8, MoneySteps


LEMMA MoneyHolds ==
  ASSUME VocalLabAssumption, StartBalance >= Reserve
  PROVE  Spec => []MoneyInv
<1>1. ASSUME Init PROVE MoneyInv
  <2>1. IInv /\ TypeOK
    BY <1>1, InitInv DEF IInv
  <2>2. Priced /\ CostKnown /\ SettledCharged
    BY <1>1 DEF Init, LedgerInit, Absent, Priced, CostKnown, SettledCharged, Live, Charged
  <2>3. SeenFresh
    BY <1>1 DEF Init, SeenFresh, Process
  <2>4. Claims = {}
    BY <1>1 DEF Init, LedgerInit, Absent, Claims, Live
  <2>5. SumFunctionOnSet(Estimated, Claims) = 0
    BY <2>4, SumEmpty, Zenon
  <2>6. SpareKept
    BY <1>1, <2>5 DEF Init, SpareKept, VocalLabAssumption, BudgetAssumption
  <2> QED BY <2>1, <2>2, <2>3, <2>6 DEF MoneyInv
<1>2. ASSUME MoneyInv, [Next]_vars PROVE MoneyInv'
  <2>1. IInv' /\ Priced' /\ CostKnown' /\ SettledCharged'
    BY <1>2, StepInv, PricedStep, CostKnownStep, SettledChargedStep DEF MoneyInv
  <2>2. SpareKept' /\ SeenFresh'
    BY <1>2, SpareKeptStep, SeenFreshStep
  <2> QED BY <2>1, <2>2 DEF MoneyInv
<1> QED BY <1>1, <1>2, PTL DEF Spec

LEMMA CeilingInvHolds ==
  ASSUME VocalLabAssumption
  PROVE  Spec => []CeilingInv
<1>1. ASSUME Init PROVE CeilingInv
  <2>1. IInv
    BY <1>1, InitInv
  <2>2. Priced /\ CostKnown /\ SettledCharged
    BY <1>1 DEF Init, LedgerInit, Absent, Priced, CostKnown, SettledCharged, Live, Charged
  <2>3. \A j \in Job : JobRows(j) = {}
    BY <1>1 DEF Init, LedgerInit, Absent, JobRows, Live
  <2>4. \A j \in Job : SumFunctionOnSet(Weights, JobRows(j)) = 0
    BY <2>3, SumEmpty, Zenon
  <2>5. JobsCapped
    BY <2>4 DEF JobsCapped, VocalLabAssumption, BudgetAssumption
  <2> QED BY <2>1, <2>2, <2>5 DEF CeilingInv
<1>2. ASSUME CeilingInv, [Next]_vars PROVE CeilingInv'
  <2>1. IInv' /\ Priced' /\ CostKnown' /\ SettledCharged'
    BY <1>2, StepInv, PricedStep, CostKnownStep, SettledChargedStep DEF CeilingInv
  <2>2. JobsCapped'
    BY <1>2, JobsCappedStep
  <2> QED BY <2>1, <2>2 DEF CeilingInv
<1> QED BY <1>1, <1>2, PTL DEF Spec

(* However late the provider charges what was sent, the account stays at or *)
(* above its reserve, unless the provider charged more than was estimated:  *)
(* what reserve admits leaves room for every claim still open.              *)
THEOREM ReserveHolds ==
  ASSUME VocalLabAssumption, StartBalance >= Reserve
  PROVE  Spec => []ReserveKept
<1>1. ASSUME MoneyInv PROVE ReserveKept
  <2>1. TypeOK /\ SpareKept
    BY <1>1 DEF MoneyInv, IInv
  <2>2. SumFunctionOnSet(Estimated, Claims) \in Nat
    BY <2>1, SumsAreNat DEF Claims
  <2> QED
    BY <2>1, <2>2 DEF SpareKept, ReserveKept, TypeOK, VocalLabAssumption, BudgetAssumption
<1> QED BY <1>1, MoneyHolds, PTL

(* What the provider charged for the reservations of a job that still count  *)
(* stays within maximum_points_per_job, unless it charged more than was      *)
(* estimated.                                                                *)
THEOREM CeilingsHold ==
  ASSUME VocalLabAssumption
  PROVE  Spec => []JobCeilingKept
<1>1. ASSUME CeilingInv PROVE JobCeilingKept
  <2>0. /\ TypeOK /\ Named /\ Priced /\ CostKnown /\ SettledCharged /\ JobsCapped
        /\ rows \in [Slot -> Reservation]
    BY <1>1 DEF CeilingInv, IInv, TypeOK, LedgerTypeOK
  <2>1. SUFFICES ASSUME NEW j \in Job, ~Overruns
                 PROVE  SumOver({s \in Slot : JobOf[s] = j /\
                                              rows[s].status \notin {"absent", "released"}},
                                LAMBDA s : cost[rows[s].fp]) <= MaxPointsPerJob
    BY Zenon DEF JobCeilingKept
  <2> DEFINE U == {s \in Slot : JobOf[s] = j /\ rows[s].status \notin {"absent", "released"}}
             Costs == [s \in U |-> cost[rows[s].fp]]
  <2>2. U = JobRows(j) /\ U \in SUBSET Slot
    BY DEF JobRows, Live
  <2>3. ASSUME NEW s \in U PROVE Costs[s] \in Nat /\ Costs[s] <= Weights[s]
    <3>1. Live(s) /\ rows[s].fp \in Fp
      BY <2>0, <2>3, LiveNamed DEF Live
    <3>2. cost[rows[s].fp] \in Nat /\ Estimate[rows[s].fp] \in Nat
      BY <2>0, <3>1 DEF TypeOK, VocalLabAssumption
    <3>3. cost[rows[s].fp] <= Estimate[rows[s].fp]
      BY <2>1, <3>1, <3>2 DEF Overruns
    <3>4. CASE rows[s].status \in Charged
      BY <2>0, <3>2, <3>4 DEF SettledCharged, Weights
    <3>5. CASE rows[s].status \notin Charged
      BY <2>0, <3>1, <3>2, <3>3, <3>5 DEF Priced, Weights
    <3> QED BY <3>4, <3>5
  <2> HIDE DEF U, Costs
  <2>4. IsFiniteSet(U) /\ (\A s \in U : Weights[s] \in Nat)
        /\ SumFunctionOnSet(Weights, U) \in Nat
    BY <2>0, <2>2, SumsAreNat
  <2>5. SumFunctionOnSet(Costs, U) <= SumFunctionOnSet(Weights, U)
    BY <2>3, <2>4, SumMonotone
  <2>6. SumFunctionOnSet(Weights, U) <= MaxPointsPerJob
    BY <2>0, <2>1, <2>2 DEF JobsCapped
  <2>7. SumFunctionOnSet(Costs, U) \in Nat
    BY <2>3, <2>4, SumNat
  <2>8. SumFunctionOnSet(Costs, U) <= MaxPointsPerJob
    BY <2>4, <2>5, <2>6, <2>7 DEF VocalLabAssumption, BudgetAssumption
  <2> QED BY <2>8 DEF SumOver, U, Costs
<1> QED BY <1>1, CeilingInvHolds, PTL

-----------------------------------------------------------------------------
(* The leases that calls of paid accounts hold (OneMinLeases), for any number of *)
(* callers, readers, accounts and leases, and what one process gives on top.     *)

CONSTANTS
  Caller, Remote, Reader, Server, ServerOf, ClassOf, Account, Lease, NoLease, NoAccount,
  NoCaller, MaxTotal, MaxCore, MaxImage, MaxMishaps

VARIABLES
  leases, overdue, locked, place, looked, eligible, listed, copy, lease, orphans, used, mishaps

One == INSTANCE OneMinLeases WITH
  Process <- Server, ProcessOf <- ServerOf, Nobody <- NoCaller, MaxFaults <- MaxMishaps,
  rows <- leases, lock <- locked, at <- place, faults <- mishaps

\* Where a caller has a lease.
InCall == {"calling", "report", "list", "usage_get", "usage_put", "release_get", "release_put"}

\* Where it has not reported the usage yet.
BeforeUsage == {"calling", "report", "list", "usage_get", "usage_put"}

\* Lease rows that were written.
Taken == {l \in Lease : leases[l] # One!AbsentRow}

\* A caller has a lease in a call and nowhere else, and nobody else has it.
Holding ==
  /\ \A c \in Caller : place[c] \in InCall <=> lease[c] # NoLease
  /\ \A c, d \in Caller : lease[c] = lease[d] /\ lease[c] # NoLease => c = d

\* Every row that somebody holds, lists, copied or reported on was written, and the
\* row of a lease says for whom.
Written ==
  /\ \A l \in Taken : leases[l].status # "absent" /\ leases[l].account \in Account
  /\ \A c \in Caller : lease[c] # NoLease =>
       lease[c] \in Taken /\ leases[lease[c]].class = ClassOf[c]
  /\ \A t \in One!Thread : \A pair \in listed[t] :
       /\ pair[1] \in Taken /\ pair[2].status = "in_flight"
       /\ pair[2].account = leases[pair[1]].account /\ pair[2].class = leases[pair[1]].class
  /\ \A c \in Caller : place[c] \in {"usage_put", "release_put"} =>
       /\ copy[c].account = leases[lease[c]].account /\ copy[c].class = leases[lease[c]].class
  /\ used \subseteq Taken

\* As long as the lease lasts, nobody but its holder writes its row.
Fresh ==
  \A c \in Caller : lease[c] # NoLease /\ lease[c] \notin overdue =>
    /\ place[c] \in BeforeUsage => One!Active(lease[c])
    /\ place[c] \in {"usage_put", "release_put"} => copy[c] = leases[lease[c]]

\* The invariant that holds for any number of processes.
LeaseInv == One!TypeOK /\ Holding /\ Written /\ Fresh /\ One!NoPhantoms /\ One!UsageKept

\* What is counted against an account is within its caps.
RowsCapped ==
  \A a \in Account :
    /\ Cardinality(One!Counted(a)) <= MaxTotal
    /\ \A class \in One!Core : Cardinality(One!OfClass(One!Counted(a), {class})) <= MaxCore
    /\ \A class \in One!Image : Cardinality(One!OfClass(One!Counted(a), {class})) <= MaxImage
    /\ One!OfClass(One!Counted(a), One!Core) = {} \/ One!OfClass(One!Counted(a), One!Image) = {}

\* Who searches has the lock.
Searching == \A c \in Caller : place[c] = "look" => locked[ServerOf[c]] = c

\* What a search found eligible still is.
StillAllowed == \A c \in Caller : place[c] = "look" => \A a \in eligible[c] : One!CapsAllow(a, ClassOf[c])

\* All callers are in one process, the one whose lock they take.
OneProcess == \A c, d \in Caller : ServerOf[c] = ServerOf[d]

\* The invariant that one process gives.
OneInv == LeaseInv /\ IsFiniteSet(Taken) /\ RowsCapped /\ Searching /\ StillAllowed

-----------------------------------------------------------------------------
(* What a step writes into a row *)

WithStatus(r, status) == [r EXCEPT !.status = status]
WithUsage(r) == [r EXCEPT !.metered = TRUE]

\* A row with another status.
LEMMA RowStatus ==
  ASSUME NEW r \in One!Row,
         NEW status \in {"in_flight", "success", "released", "failed", "expired"}
  PROVE  /\ WithStatus(r, status) \in One!Row
         /\ WithStatus(r, status).status = status
         /\ WithStatus(r, status).account = r.account
         /\ WithStatus(r, status).class = r.class
         /\ WithStatus(r, status).metered = r.metered
BY DEF One!Row, WithStatus

\* A row with its usage.
LEMMA RowUsage ==
  ASSUME NEW r \in One!Row
  PROVE  /\ WithUsage(r) \in One!Row
         /\ WithUsage(r).metered = TRUE
         /\ WithUsage(r).account = r.account
         /\ WithUsage(r).class = r.class
BY DEF One!Row, WithUsage

\* In a call the caller has a lease, and its row is one that was written.
LEMMA InCallHolds ==
  ASSUME One!OneMinAssumption, LeaseInv, NEW c \in Caller, place[c] \in InCall
  PROVE  lease[c] \in Lease /\ lease[c] \in Taken /\ copy[c] \in One!Row
BY DEF One!OneMinAssumption, LeaseInv, One!TypeOK, Holding, Written

LEMMA PutUsageWrites ==
  ASSUME One!OneMinAssumption, LeaseInv, NEW c \in Caller, One!PutUsage(c)
  PROVE  \E w \in One!Row :
           /\ leases' = [leases EXCEPT ![lease[c]] = w]
           /\ w.account = leases[lease[c]].account /\ w.class = leases[lease[c]].class
           /\ w.metered = TRUE /\ w.status \in {"in_flight", "success"}
<1>1. lease[c] \in Lease /\ copy[c] \in One!Row
  BY InCallHolds DEF One!PutUsage, InCall
<1> DEFINE status == IF c \in Remote THEN "in_flight" ELSE "success"
<1>2. status \in {"in_flight", "success"}
  OBVIOUS
<1> DEFINE m == WithUsage(copy[c])
           w == WithStatus(m, status)
<1>3. leases' = [leases EXCEPT ![lease[c]] = w]
  BY DEF One!PutUsage, WithStatus, WithUsage
<1>m. /\ m \in One!Row /\ m.metered = TRUE
      /\ m.account = copy[c].account /\ m.class = copy[c].class
  BY <1>1, RowUsage
<1> HIDE DEF status, m
<1>4. /\ w \in One!Row /\ w.status = status /\ w.metered = TRUE
      /\ w.account = copy[c].account /\ w.class = copy[c].class
  BY <1>m, <1>2, RowStatus
<1>5. copy[c].account = leases[lease[c]].account /\ copy[c].class = leases[lease[c]].class
  BY DEF One!PutUsage, LeaseInv, Written
<1> HIDE DEF w
<1> QED BY <1>2, <1>3, <1>4, <1>5

LEMMA PutReleaseWrites ==
  ASSUME One!OneMinAssumption, LeaseInv, NEW c \in Caller, One!PutRelease(c)
  PROVE  \E w \in One!Row :
           /\ leases' = [leases EXCEPT ![lease[c]] = w]
           /\ w.account = leases[lease[c]].account /\ w.class = leases[lease[c]].class
           /\ w.metered = copy[c].metered /\ w.status \in {"released", "failed"}
<1>1. lease[c] \in Lease /\ copy[c] \in One!Row
  BY InCallHolds DEF One!PutRelease, InCall
<1> DEFINE status == IF lease[c] \in used THEN "released" ELSE "failed"
           w == WithStatus(copy[c], status)
<1>2. status \in {"released", "failed"}
  OBVIOUS
<1>3. leases' = [leases EXCEPT ![lease[c]] = w]
  BY DEF One!PutRelease, WithStatus
<1> HIDE DEF status
<1>4. /\ w \in One!Row /\ w.status = status /\ w.metered = copy[c].metered
      /\ w.account = copy[c].account /\ w.class = copy[c].class
  BY <1>1, <1>2, RowStatus
<1>5. copy[c].account = leases[lease[c]].account /\ copy[c].class = leases[lease[c]].class
  BY DEF One!PutRelease, LeaseInv, Written
<1> HIDE DEF w
<1> QED BY <1>2, <1>3, <1>4, <1>5

LEMMA ExpiredWrites ==
  ASSUME One!OneMinAssumption, LeaseInv, NEW t \in One!Thread, One!WriteExpired(t)
  PROVE  \E l \in Taken, w \in One!Row :
           /\ l \in overdue
           /\ leases' = [leases EXCEPT ![l] = w]
           /\ w.account = leases[l].account /\ w.class = leases[l].class
           /\ w.status = "expired"
           /\ \E pair \in listed[t] : listed' = [listed EXCEPT ![t] = @ \ {pair}]
<1>1. PICK pair \in listed[t] :
        /\ leases' = [leases EXCEPT ![pair[1]] = [pair[2] EXCEPT !.status = "expired"]]
        /\ listed' = [listed EXCEPT ![t] = @ \ {pair}]
  BY DEF One!WriteExpired
<1>2. pair[1] \in overdue /\ pair[2] \in One!Row
  BY DEF LeaseInv, One!TypeOK
<1>3. pair[1] \in Taken
      /\ pair[2].account = leases[pair[1]].account /\ pair[2].class = leases[pair[1]].class
  BY DEF LeaseInv, Written
<1> DEFINE w == WithStatus(pair[2], "expired")
<1>4. w \in One!Row /\ w.status = "expired" /\ w.account = pair[2].account /\ w.class = pair[2].class
  BY <1>2, RowStatus
<1>5. leases' = [leases EXCEPT ![pair[1]] = w]
  BY <1>1 DEF WithStatus
<1> HIDE DEF w
<1> QED BY <1>1, <1>2, <1>3, <1>4, <1>5

-----------------------------------------------------------------------------
(* Types *)

LEMMA LeaseInitInv == ASSUME One!OneMinAssumption, One!Init PROVE LeaseInv
<1> USE DEF One!OneMinAssumption
<1>1. One!TypeOK
  BY DEF One!Init, One!TypeOK, One!Row, One!AbsentRow, One!Places, One!Thread
<1>2. Holding
  BY DEF One!Init, Holding, InCall, One!Thread
<1>3. Taken = {}
  BY DEF One!Init, Taken
<1>4. Written
  BY <1>3 DEF One!Init, Written, One!Thread
<1>5. Fresh
  BY DEF One!Init, Fresh
<1>6. One!NoPhantoms /\ One!UsageKept
  BY DEF One!Init, One!NoPhantoms, One!UsageKept, One!Active, One!AbsentRow
<1> QED BY <1>1, <1>2, <1>4, <1>5, <1>6 DEF LeaseInv

LEMMA LeaseTypeStep == ASSUME One!OneMinAssumption, LeaseInv, [One!Next]_One!vars PROVE One!TypeOK'
<1> USE DEF One!OneMinAssumption, LeaseInv, One!TypeOK, One!Go, One!history, One!search, One!Thread
<1>1. ASSUME NEW c \in Caller, One!TakeLock(c) PROVE One!TypeOK'
  BY <1>1 DEF One!TakeLock, One!Places
<1>2. ASSUME NEW c \in Caller, One!Refuse(c) PROVE One!TypeOK'
  BY <1>2 DEF One!Refuse, One!Unlock, One!Places
<1>3. ASSUME NEW c \in Caller, NEW a \in Account, One!LookAt(c, a) PROVE One!TypeOK'
  <2>1. One!Overdue \subseteq overdue \X One!Row
    BY DEF One!Overdue
  <2> QED BY <1>3, <2>1 DEF One!LookAt
<1>4. ASSUME NEW c \in Caller, NEW a \in Account, NEW l \in Lease, One!Grant(c, a, l)
      PROVE  One!TypeOK'
  <2>1. [status |-> "in_flight", account |-> a, class |-> ClassOf[c], metered |-> FALSE] \in One!Row
    BY DEF One!Row
  <2> QED BY <1>4, <2>1 DEF One!Grant, One!Unlock, One!Places
<1>5. ASSUME NEW c \in Caller, One!Succeed(c) \/ One!Fail(c) PROVE One!TypeOK'
  BY <1>5 DEF One!Succeed, One!Fail, One!Places
<1>6. ASSUME NEW c \in Caller, One!GetForUsage(c) \/ One!GetForRelease(c) PROVE One!TypeOK'
  <2>1. lease[c] \in Lease
    BY <1>6, InCallHolds DEF One!GetForUsage, One!GetForRelease, One!Get, InCall
  <2> QED BY <1>6, <2>1 DEF One!GetForUsage, One!GetForRelease, One!Get, One!Places
<1>7. ASSUME NEW c \in Caller, One!PutUsage(c) PROVE One!TypeOK'
  <2>1. lease[c] \in Lease
    BY <1>7, InCallHolds DEF One!PutUsage, InCall
  <2>2. leases' \in [Lease -> One!Row]
    BY <1>7, PutUsageWrites
  <2> QED BY <1>7, <2>1, <2>2 DEF One!PutUsage, One!Places
<1>8. ASSUME NEW c \in Caller, One!PutRelease(c) PROVE One!TypeOK'
  <2>1. leases' \in [Lease -> One!Row]
    BY <1>8, PutReleaseWrites
  <2> QED BY <1>8, <2>1 DEF One!PutRelease, One!Places
<1>9. ASSUME NEW c \in Caller, One!Vanish(c) PROVE One!TypeOK'
  BY <1>9 DEF One!Vanish, One!Die, One!Places
<1>10. ASSUME NEW t \in One!Thread, One!List(t) PROVE One!TypeOK'
  <2>1. One!Overdue \subseteq overdue \X One!Row
    BY DEF One!Overdue
  <2> QED BY <1>10, <2>1 DEF One!List, One!Places
<1>11. ASSUME NEW t \in One!Thread, One!WriteExpired(t) PROVE One!TypeOK'
  <2>1. leases' \in [Lease -> One!Row]
    BY <1>11, ExpiredWrites
  <2>2. listed' \in [One!Thread -> SUBSET (overdue \X One!Row)]
    BY <1>11, ExpiredWrites
  <2> QED BY <1>11, <2>1, <2>2 DEF One!WriteExpired
<1>12. ASSUME NEW t \in One!Thread, One!Listed(t) PROVE One!TypeOK'
  BY <1>12 DEF One!Listed, One!Places
<1>13. ASSUME NEW l \in Lease, One!Lapse(l) PROVE One!TypeOK'
  BY <1>13 DEF One!Lapse
<1>14. ASSUME NEW p \in Server, One!Crash(p) PROVE One!TypeOK'
  BY <1>14 DEF One!Crash, One!Die, One!Places
<1>15. CASE UNCHANGED One!vars
  BY <1>15 DEF One!vars
<1> QED
  BY <1>1, <1>2, <1>3, <1>4, <1>5, <1>6, <1>7, <1>8, <1>9, <1>10, <1>11, <1>12, <1>13,
     <1>14, <1>15 DEF One!Next, One!ReserveLease, One!Finish, One!Snapshot

-----------------------------------------------------------------------------
(* Who holds what *)

\* Rows that were written stay written, for the same account and class.
Kept ==
  \A l \in Taken :
    l \in Taken' /\ leases'[l].account = leases[l].account /\ leases'[l].class = leases[l].class

\* Only a search writes a row that was not there.
Same == Taken' = Taken /\ Kept

LEMMA Rewritten ==
  ASSUME One!TypeOK, NEW l \in Taken, NEW w \in One!Row, leases' = [leases EXCEPT ![l] = w],
         w.account = leases[l].account, w.class = leases[l].class, w.status # "absent"
  PROVE  Same
<1>1. w # One!AbsentRow
  BY DEF One!AbsentRow
<1> QED BY <1>1 DEF Same, Kept, Taken, One!TypeOK

LEMMA SameWhenRewritten ==
  ASSUME One!OneMinAssumption, LeaseInv,
         \/ UNCHANGED leases
         \/ \E c \in Caller : One!PutUsage(c) \/ One!PutRelease(c)
         \/ \E t \in One!Thread : One!WriteExpired(t)
  PROVE  Same
<1> USE DEF LeaseInv
<1>1. CASE UNCHANGED leases
  BY <1>1 DEF Same, Kept, Taken
<1>2. ASSUME NEW c \in Caller, One!PutUsage(c) PROVE Same
  <2>1. lease[c] \in Taken
    BY <1>2, InCallHolds DEF One!PutUsage, InCall
  <2> QED BY <1>2, <2>1, PutUsageWrites, Rewritten
<1>3. ASSUME NEW c \in Caller, One!PutRelease(c) PROVE Same
  <2>1. lease[c] \in Taken
    BY <1>3, InCallHolds DEF One!PutRelease, InCall
  <2> QED BY <1>3, <2>1, PutReleaseWrites, Rewritten
<1>4. ASSUME NEW t \in One!Thread, One!WriteExpired(t) PROVE Same
  BY <1>4, ExpiredWrites, Rewritten
<1> QED BY <1>1, <1>2, <1>3, <1>4

LEMMA GrantWrites ==
  ASSUME One!OneMinAssumption, LeaseInv,
         NEW c \in Caller, NEW a \in Account, NEW l \in Lease, One!Grant(c, a, l)
  PROVE  /\ Kept
         /\ l \notin Taken /\ Taken' = Taken \cup {l}
         /\ leases'[l].status = "in_flight" /\ leases'[l].account = a /\ leases'[l].class = ClassOf[c]
         /\ \A k \in Lease \ {l} : leases'[k] = leases[k]
         /\ lease' = [lease EXCEPT ![c] = l] /\ lease[c] = NoLease
<1> DEFINE new == [status |-> "in_flight", account |-> a, class |-> ClassOf[c], metered |-> FALSE]
<1>1. new # One!AbsentRow
  BY DEF One!AbsentRow
<1>2. leases' = [leases EXCEPT ![l] = new] /\ leases[l] = One!AbsentRow /\ lease' = [lease EXCEPT ![c] = l]
  BY DEF One!Grant
<1>3. lease[c] = NoLease
  BY DEF One!Grant, One!Searched, LeaseInv, Holding, InCall
<1>4. new.status = "in_flight" /\ new.account = a /\ new.class = ClassOf[c]
  OBVIOUS
<1> HIDE DEF new
<1> QED BY <1>1, <1>2, <1>3, <1>4 DEF Kept, Taken, LeaseInv, One!TypeOK

LEMMA HoldingStep == ASSUME One!OneMinAssumption, LeaseInv, [One!Next]_One!vars PROVE Holding'
<1> USE DEF One!OneMinAssumption, LeaseInv, One!TypeOK, Holding, InCall, One!Go, One!history,
    One!search, One!Thread
<1>1. ASSUME NEW c \in Caller, One!TakeLock(c) PROVE Holding'
  BY <1>1 DEF One!TakeLock
<1>2. ASSUME NEW c \in Caller, One!Refuse(c) PROVE Holding'
  BY <1>2 DEF One!Refuse, One!Searched
<1>3. ASSUME NEW c \in Caller, NEW a \in Account, One!LookAt(c, a) PROVE Holding'
  BY <1>3 DEF One!LookAt
<1>4. ASSUME NEW c \in Caller, NEW a \in Account, NEW l \in Lease, One!Grant(c, a, l) PROVE Holding'
  <2>1. \A d \in Caller : lease[d] # l
    BY <1>4, GrantWrites DEF Written
  <2> QED BY <1>4, <2>1 DEF One!Grant, One!Searched
<1>5. ASSUME NEW c \in Caller, One!Succeed(c) \/ One!Fail(c) PROVE Holding'
  BY <1>5 DEF One!Succeed, One!Fail
<1>6. ASSUME NEW c \in Caller, One!GetForUsage(c) \/ One!GetForRelease(c) PROVE Holding'
  BY <1>6 DEF One!GetForUsage, One!GetForRelease, One!Get
<1>7. ASSUME NEW c \in Caller, One!PutUsage(c) PROVE Holding'
  BY <1>7 DEF One!PutUsage
<1>8. ASSUME NEW c \in Caller, One!PutRelease(c) PROVE Holding'
  BY <1>8 DEF One!PutRelease
<1>9. ASSUME NEW c \in Caller, One!Vanish(c) PROVE Holding'
  BY <1>9 DEF One!Vanish, One!Die
<1>10. ASSUME NEW t \in One!Thread, One!List(t) PROVE Holding'
  BY <1>10 DEF One!List
<1>11. ASSUME NEW t \in One!Thread, One!WriteExpired(t) PROVE Holding'
  BY <1>11 DEF One!WriteExpired
<1>12. ASSUME NEW t \in One!Thread, One!Listed(t) PROVE Holding'
  BY <1>12 DEF One!Listed
<1>13. ASSUME NEW l \in Lease, One!Lapse(l) PROVE Holding'
  BY <1>13 DEF One!Lapse
<1>14. ASSUME NEW p \in Server, One!Crash(p) PROVE Holding'
  BY <1>14 DEF One!Crash, One!Die
<1>15. CASE UNCHANGED One!vars
  BY <1>15 DEF One!vars
<1> QED
  BY <1>1, <1>2, <1>3, <1>4, <1>5, <1>6, <1>7, <1>8, <1>9, <1>10, <1>11, <1>12, <1>13,
     <1>14, <1>15 DEF One!Next, One!ReserveLease, One!Finish, One!Snapshot

-----------------------------------------------------------------------------
(* What is known of the rows *)

\* What is listed as overdue is what the table holds.
LEMMA OverdueWritten ==
  ASSUME LeaseInv, NEW pair \in One!Overdue
  PROVE  pair[1] \in Taken /\ pair[2] = leases[pair[1]] /\ pair[2].status = "in_flight"
BY DEF One!Overdue, One!Active, Taken, One!AbsentRow, LeaseInv, One!TypeOK

\* A step that writes no new row, lists nothing new and copies nothing.
LEMMA WrittenWhenSame ==
  ASSUME One!OneMinAssumption, LeaseInv, Same, One!TypeOK',
         \A l \in Taken : leases'[l].status # "absent",
         \A t \in One!Thread : listed'[t] \subseteq listed[t],
         \A c \in Caller : lease'[c] \in {lease[c], NoLease},
         \A c \in Caller : place'[c] \in {"usage_put", "release_put"} =>
           place[c] = place'[c] /\ lease'[c] = lease[c] /\ copy'[c] = copy[c],
         used' \subseteq Taken
  PROVE  Written'
<1> USE DEF LeaseInv
<1>1. \A l \in Taken' : leases'[l].status # "absent" /\ leases'[l].account \in Account
  BY DEF Same, Kept, Written
<1>2. \A c \in Caller : lease'[c] # NoLease =>
        lease'[c] \in Taken' /\ leases'[lease'[c]].class = ClassOf[c]
  BY DEF Same, Kept, Written
<1>3. \A t \in One!Thread : \A pair \in listed'[t] :
        /\ pair[1] \in Taken' /\ pair[2].status = "in_flight"
        /\ pair[2].account = leases'[pair[1]].account /\ pair[2].class = leases'[pair[1]].class
  BY DEF Same, Kept, Written
<1>4. ASSUME NEW c \in Caller, place'[c] \in {"usage_put", "release_put"}
      PROVE  /\ copy'[c].account = leases'[lease'[c]].account
             /\ copy'[c].class = leases'[lease'[c]].class
  <2>1. lease[c] \in Taken
    BY <1>4, InCallHolds DEF InCall
  <2> QED BY <1>4, <2>1 DEF Same, Kept, Written
<1>5. used' \subseteq Taken'
  BY DEF Same
<1> QED BY <1>1, <1>2, <1>3, <1>4, <1>5 DEF Written

LEMMA WrittenStep == ASSUME One!OneMinAssumption, LeaseInv, [One!Next]_One!vars PROVE Written'
<1> USE DEF One!OneMinAssumption, LeaseInv, One!Go, One!history, One!search, One!Thread
<1>0. One!TypeOK'
  BY LeaseTypeStep
<1>a. \A l \in Taken : leases[l].status # "absent"
  BY DEF Written
<1>b. used \subseteq Taken
  BY DEF Written
<1>1. ASSUME NEW c \in Caller, One!TakeLock(c) PROVE Written'
  BY <1>0, <1>a, <1>b, <1>1, SameWhenRewritten, WrittenWhenSame DEF One!TakeLock, One!TypeOK
<1>2. ASSUME NEW c \in Caller, One!Refuse(c) PROVE Written'
  BY <1>0, <1>a, <1>b, <1>2, SameWhenRewritten, WrittenWhenSame DEF One!Refuse, One!TypeOK
<1>3. ASSUME NEW c \in Caller, NEW a \in Account, One!LookAt(c, a) PROVE Written'
  <2>1. listed' = [listed EXCEPT ![c] = One!Overdue] /\ Taken' = Taken
        /\ UNCHANGED <<leases, place, copy, lease, used>>
    BY <1>3 DEF One!LookAt, Taken
  <2> QED BY <2>1, OverdueWritten DEF Written, One!TypeOK
<1>4. ASSUME NEW c \in Caller, NEW a \in Account, NEW l \in Lease, One!Grant(c, a, l) PROVE Written'
  <2>1. /\ Kept /\ l \notin Taken /\ Taken' = Taken \cup {l}
        /\ leases'[l].status = "in_flight" /\ leases'[l].account = a /\ leases'[l].class = ClassOf[c]
        /\ \A k \in Lease \ {l} : leases'[k] = leases[k]
        /\ lease' = [lease EXCEPT ![c] = l]
    BY <1>4, GrantWrites
  <2>2. place' = [place EXCEPT ![c] = "calling"] /\ UNCHANGED <<listed, copy, used>>
    BY <1>4 DEF One!Grant
  <2>3. \A k \in Taken' : leases'[k].status # "absent" /\ leases'[k].account \in Account
    BY <2>1 DEF Written, Taken
  <2>4. \A d \in Caller : lease'[d] # NoLease =>
          lease'[d] \in Taken' /\ leases'[lease'[d]].class = ClassOf[d]
    BY <2>1 DEF Written, One!TypeOK, Kept
  <2>5. \A t \in One!Thread : \A pair \in listed'[t] :
          /\ pair[1] \in Taken' /\ pair[2].status = "in_flight"
          /\ pair[2].account = leases'[pair[1]].account /\ pair[2].class = leases'[pair[1]].class
    BY <2>1, <2>2 DEF Written, Kept
  <2>6. ASSUME NEW d \in Caller, place'[d] \in {"usage_put", "release_put"}
        PROVE  /\ copy'[d].account = leases'[lease'[d]].account
               /\ copy'[d].class = leases'[lease'[d]].class
    <3>1. d # c /\ place[d] = place'[d] /\ lease'[d] = lease[d]
      BY <2>1, <2>2, <2>6 DEF One!TypeOK
    <3>2. lease[d] \in Taken
      BY <2>6, <3>1, InCallHolds DEF InCall
    <3> QED BY <2>1, <2>2, <2>6, <3>1, <3>2 DEF Kept, Written
  <2> QED BY <2>1, <2>2, <2>3, <2>4, <2>5, <2>6 DEF Written
<1>5. ASSUME NEW c \in Caller, One!Succeed(c) \/ One!Fail(c) PROVE Written'
  BY <1>0, <1>a, <1>b, <1>5, SameWhenRewritten, WrittenWhenSame DEF One!Succeed, One!Fail,
      One!TypeOK
<1>6. ASSUME NEW c \in Caller, One!GetForUsage(c) \/ One!GetForRelease(c) PROVE Written'
  <2>1. /\ copy' = [copy EXCEPT ![c] = leases[lease[c]]] /\ Taken' = Taken
        /\ \E there \in One!Places : place' = [place EXCEPT ![c] = there]
        /\ UNCHANGED <<leases, listed, lease, used>>
    BY <1>6 DEF One!GetForUsage, One!GetForRelease, One!Get, Taken, One!Places
  <2> QED BY <2>1 DEF Written, One!TypeOK
<1>7. ASSUME NEW c \in Caller, One!PutUsage(c) PROVE Written'
  <2>1. lease[c] \in Taken
    BY <1>7, InCallHolds DEF One!PutUsage, InCall
  <2>2. \A l \in Taken : leases'[l].status # "absent"
    BY <1>a, <1>7, PutUsageWrites DEF One!TypeOK, Taken
  <2> QED BY <1>0, <1>b, <1>7, <2>1, <2>2, SameWhenRewritten, WrittenWhenSame DEF One!PutUsage,
      One!TypeOK
<1>8. ASSUME NEW c \in Caller, One!PutRelease(c) PROVE Written'
  <2>1. \A l \in Taken : leases'[l].status # "absent"
    BY <1>a, <1>8, PutReleaseWrites DEF One!TypeOK, Taken
  <2> QED BY <1>0, <1>b, <1>8, <2>1, SameWhenRewritten, WrittenWhenSame DEF One!PutRelease,
      One!TypeOK
<1>9. ASSUME NEW c \in Caller, One!Vanish(c) PROVE Written'
  BY <1>0, <1>a, <1>b, <1>9, SameWhenRewritten, WrittenWhenSame DEF One!Vanish, One!Die, One!TypeOK
<1>10. ASSUME NEW t \in One!Thread, One!List(t) PROVE Written'
  <2>1. listed' = [listed EXCEPT ![t] = One!Overdue] /\ Taken' = Taken
        /\ place' = [place EXCEPT ![t] = "list"]
        /\ UNCHANGED <<leases, copy, lease, used>>
    BY <1>10 DEF One!List, Taken
  <2> QED BY <2>1, OverdueWritten DEF Written, One!TypeOK
<1>11. ASSUME NEW t \in One!Thread, One!WriteExpired(t) PROVE Written'
  <2>1. \A l \in Taken : leases'[l].status # "absent"
    BY <1>a, <1>11, ExpiredWrites DEF One!TypeOK, Taken
  <2>2. \A u \in One!Thread : listed'[u] \subseteq listed[u]
    BY <1>11, ExpiredWrites DEF One!TypeOK
  <2> QED
    BY <1>0, <1>b, <1>11, <2>1, <2>2, SameWhenRewritten, WrittenWhenSame DEF One!WriteExpired,
        One!TypeOK
<1>12. ASSUME NEW t \in One!Thread, One!Listed(t) PROVE Written'
  BY <1>0, <1>a, <1>b, <1>12, SameWhenRewritten, WrittenWhenSame DEF One!Listed, One!TypeOK
<1>13. ASSUME NEW l \in Lease, One!Lapse(l) PROVE Written'
  BY <1>0, <1>a, <1>b, <1>13, SameWhenRewritten, WrittenWhenSame DEF One!Lapse, One!TypeOK
<1>14. ASSUME NEW p \in Server, One!Crash(p) PROVE Written'
  BY <1>0, <1>a, <1>b, <1>14, SameWhenRewritten, WrittenWhenSame DEF One!Crash, One!Die, One!TypeOK
<1>15. CASE UNCHANGED One!vars
  BY <1>0, <1>a, <1>b, <1>15, SameWhenRewritten, WrittenWhenSame DEF One!vars, One!TypeOK
<1> QED
  BY <1>1, <1>2, <1>3, <1>4, <1>5, <1>6, <1>7, <1>8, <1>9, <1>10, <1>11, <1>12, <1>13,
     <1>14, <1>15 DEF One!Next, One!ReserveLease, One!Finish, One!Snapshot

-----------------------------------------------------------------------------
(* A lease that lasts is its holder's *)

\* Expiry is written to leases that ran out only.
LEMMA ExpiredRows ==
  ASSUME One!OneMinAssumption, LeaseInv, NEW t \in One!Thread, One!WriteExpired(t)
  PROVE  /\ \A k \in Lease \ overdue : leases'[k] = leases[k]
         /\ \A k \in Lease : leases'[k] = leases[k] \/ (k \in overdue /\ leases'[k].status = "expired")
BY ExpiredWrites DEF LeaseInv, One!TypeOK, Taken

\* What a holder reports is written to its lease only.
LEMMA PutRows ==
  ASSUME One!OneMinAssumption, LeaseInv, NEW c \in Caller, One!PutUsage(c) \/ One!PutRelease(c)
  PROVE  \A k \in Lease \ {lease[c]} : leases'[k] = leases[k]
BY PutUsageWrites, PutReleaseWrites DEF LeaseInv, One!TypeOK

\* A step that leaves the rows, the leases and the copies alone, and reports nothing.
LEMMA FreshWhenSame ==
  ASSUME LeaseInv, UNCHANGED lease, overdue \subseteq overdue',
         \A k \in Lease \ overdue : leases'[k] = leases[k],
         \A c \in Caller :
           /\ place'[c] \in BeforeUsage => place[c] \in BeforeUsage \cup {"idle", "look"}
           /\ place'[c] \in {"usage_put", "release_put"} => place[c] = place'[c] /\ copy'[c] = copy[c]
  PROVE  Fresh'
<1> SUFFICES ASSUME NEW c \in Caller, lease'[c] # NoLease, lease'[c] \notin overdue'
             PROVE  /\ place'[c] \in BeforeUsage => One!Active(lease[c])'
                    /\ place'[c] \in {"usage_put", "release_put"} => copy'[c] = leases'[lease'[c]]
  BY DEF Fresh
<1>1. lease[c] \in Lease \ overdue /\ lease'[c] = lease[c]
  BY DEF LeaseInv, One!TypeOK
<1>2. place[c] \notin {"idle", "look"}
  BY DEF LeaseInv, Holding, InCall
<1> QED BY <1>1, <1>2 DEF LeaseInv, Fresh, One!Active

LEMMA FreshStep == ASSUME One!OneMinAssumption, LeaseInv, [One!Next]_One!vars PROVE Fresh'
<1> USE DEF One!OneMinAssumption, One!Go, One!history, One!search, One!Thread, BeforeUsage
<1>0. One!TypeOK /\ One!TypeOK'
  BY LeaseTypeStep DEF LeaseInv
<1> USE DEF One!TypeOK
<1>1. ASSUME NEW c \in Caller, One!TakeLock(c) PROVE Fresh'
  BY <1>0, <1>1, FreshWhenSame DEF One!TakeLock
<1>2. ASSUME NEW c \in Caller, One!Refuse(c) PROVE Fresh'
  BY <1>0, <1>2, FreshWhenSame DEF One!Refuse
<1>3. ASSUME NEW c \in Caller, NEW a \in Account, One!LookAt(c, a) PROVE Fresh'
  BY <1>0, <1>3, FreshWhenSame DEF One!LookAt
<1>4. ASSUME NEW c \in Caller, NEW a \in Account, NEW l \in Lease, One!Grant(c, a, l) PROVE Fresh'
  <2>1. /\ l \notin Taken /\ leases'[l].status = "in_flight"
        /\ \A k \in Lease \ {l} : leases'[k] = leases[k]
        /\ lease' = [lease EXCEPT ![c] = l]
    BY <1>4, GrantWrites
  <2>a. place' = [place EXCEPT ![c] = "calling"] /\ UNCHANGED <<overdue, copy>>
    BY <1>4 DEF One!Grant
  <2>2. \A d \in Caller \ {c} : lease[d] # l
    BY <2>1 DEF LeaseInv, Written
  <2>3. Fresh
    BY DEF LeaseInv
  <2>4. \A d \in Caller \ {c} : place'[d] = place[d] /\ lease'[d] = lease[d] /\ copy'[d] = copy[d]
    BY <1>0, <2>1, <2>a
  <2>5. \A d \in Caller \ {c} : lease[d] # NoLease => leases'[lease[d]] = leases[lease[d]]
    BY <1>0, <2>1, <2>2
  <2> QED BY <1>0, <2>1, <2>a, <2>3, <2>4, <2>5 DEF Fresh, One!Active
<1>5. ASSUME NEW c \in Caller, One!Succeed(c) \/ One!Fail(c) PROVE Fresh'
  BY <1>0, <1>5, FreshWhenSame DEF One!Succeed, One!Fail
<1>6. ASSUME NEW c \in Caller, One!GetForUsage(c) \/ One!GetForRelease(c) PROVE Fresh'
  <2>1. /\ copy' = [copy EXCEPT ![c] = leases[lease[c]]]
        /\ \/ place[c] = "usage_get" /\ place' = [place EXCEPT ![c] = "usage_put"]
           \/ place[c] = "release_get" /\ place' = [place EXCEPT ![c] = "release_put"]
        /\ UNCHANGED <<leases, overdue, lease>>
    BY <1>6 DEF One!GetForUsage, One!GetForRelease, One!Get
  <2> QED BY <1>0, <2>1 DEF LeaseInv, Fresh, One!Active
<1>7. ASSUME NEW c \in Caller, One!PutUsage(c) PROVE Fresh'
  <2>1. /\ place' = [place EXCEPT ![c] = "release_get"] /\ UNCHANGED <<overdue, lease, copy>>
        /\ \A k \in Lease \ {lease[c]} : leases'[k] = leases[k]
    BY <1>7, PutRows DEF One!PutUsage
  <2>2. \A d \in Caller \ {c} : lease[d] # NoLease => leases'[lease[d]] = leases[lease[d]]
    <3>1. lease[c] # NoLease
      BY <1>0, <1>7 DEF One!PutUsage, LeaseInv, Holding, InCall
    <3> QED BY <1>0, <2>1, <3>1 DEF LeaseInv, Holding
  <2> QED BY <1>0, <2>1, <2>2 DEF LeaseInv, Fresh, One!Active
<1>8. ASSUME NEW c \in Caller, One!PutRelease(c) PROVE Fresh'
  <2>1. /\ place' = [place EXCEPT ![c] = "idle"] /\ lease' = [lease EXCEPT ![c] = NoLease]
        /\ UNCHANGED <<overdue, copy>>
        /\ \A k \in Lease \ {lease[c]} : leases'[k] = leases[k]
    BY <1>8, PutRows DEF One!PutRelease
  <2>2. \A d \in Caller \ {c} : lease[d] # NoLease => leases'[lease[d]] = leases[lease[d]]
    <3>1. lease[c] # NoLease
      BY <1>0, <1>8 DEF One!PutRelease, LeaseInv, Holding, InCall
    <3> QED BY <1>0, <2>1, <3>1 DEF LeaseInv, Holding
  <2> QED BY <1>0, <2>1, <2>2 DEF LeaseInv, Fresh, One!Active
<1>9. ASSUME NEW T \in SUBSET One!Thread, One!Die(T) PROVE Fresh'
  BY <1>0, <1>9 DEF One!Die, LeaseInv, Fresh, One!Active
<1>10. ASSUME NEW t \in One!Thread, One!List(t) PROVE Fresh'
  BY <1>0, <1>10, FreshWhenSame DEF One!List
<1>11. ASSUME NEW t \in One!Thread, One!WriteExpired(t) PROVE Fresh'
  BY <1>0, <1>11, ExpiredRows, FreshWhenSame DEF One!WriteExpired
<1>12. ASSUME NEW t \in One!Thread, One!Listed(t) PROVE Fresh'
  BY <1>0, <1>12, FreshWhenSame DEF One!Listed
<1>13. ASSUME NEW l \in Lease, One!Lapse(l) PROVE Fresh'
  BY <1>0, <1>13, FreshWhenSame DEF One!Lapse
<1>14. CASE UNCHANGED One!vars
  BY <1>0, <1>14, FreshWhenSame DEF One!vars
<1>15. ASSUME NEW c \in Caller, One!Vanish(c) PROVE Fresh'
  BY <1>9, <1>15 DEF One!Vanish
<1>16. ASSUME NEW p \in Server, One!Crash(p) PROVE Fresh'
  BY <1>9, <1>16 DEF One!Crash
<1> QED
  BY <1>1, <1>2, <1>3, <1>4, <1>5, <1>6, <1>7, <1>8, <1>10, <1>11, <1>12, <1>13, <1>14,
     <1>15, <1>16 DEF One!Next, One!ReserveLease, One!Finish, One!Snapshot

-----------------------------------------------------------------------------
(* What ends and what stays *)

LEMMA PhantomStep ==
  ASSUME One!OneMinAssumption, LeaseInv, [One!Next]_One!vars
  PROVE  One!NoPhantoms'
<1> USE DEF One!OneMinAssumption, One!Go, One!history, One!search, One!Thread
<1>0. One!TypeOK /\ One!TypeOK' /\ One!NoPhantoms
  BY LeaseTypeStep DEF LeaseInv
<1> USE DEF One!TypeOK
<1>a. ASSUME UNCHANGED lease, orphans \subseteq orphans', overdue \subseteq overdue',
             \A k \in Lease \ overdue : leases'[k] = leases[k]
      PROVE  One!NoPhantoms'
  BY <1>0, <1>a DEF One!NoPhantoms, One!Active, One!Held
<1>1. ASSUME NEW c \in Caller,
             \/ One!TakeLock(c) \/ One!Refuse(c) \/ One!Succeed(c) \/ One!Fail(c)
             \/ One!GetForUsage(c) \/ One!GetForRelease(c) \/ \E a \in Account : One!LookAt(c, a)
      PROVE  One!NoPhantoms'
  BY <1>a, <1>1
     DEF One!TakeLock, One!Refuse, One!Succeed, One!Fail, One!GetForUsage, One!GetForRelease,
         One!Get, One!LookAt
<1>2. ASSUME NEW c \in Caller, NEW a \in Account, NEW l \in Lease, One!Grant(c, a, l)
      PROVE  One!NoPhantoms'
  <2>1. /\ \A k \in Lease \ {l} : leases'[k] = leases[k]
        /\ lease' = [lease EXCEPT ![c] = l] /\ lease[c] = NoLease
        /\ UNCHANGED <<overdue, orphans>>
    BY <1>2, GrantWrites DEF One!Grant
  <2> QED BY <1>0, <2>1 DEF One!NoPhantoms, One!Active, One!Held
<1>3. ASSUME NEW c \in Caller, One!PutUsage(c) PROVE One!NoPhantoms'
  BY <1>0, <1>3, PutRows DEF One!PutUsage, One!NoPhantoms, One!Active, One!Held
<1>4. ASSUME NEW c \in Caller, One!PutRelease(c) PROVE One!NoPhantoms'
  <2>1. leases'[lease[c]].status # "in_flight"
    BY <1>0, <1>4, PutReleaseWrites, InCallHolds DEF One!PutRelease, InCall
  <2>2. /\ \A k \in Lease \ {lease[c]} : leases'[k] = leases[k]
        /\ lease' = [lease EXCEPT ![c] = NoLease] /\ UNCHANGED <<overdue, orphans>>
    BY <1>4, PutRows DEF One!PutRelease
  <2> QED BY <1>0, <2>1, <2>2 DEF One!NoPhantoms, One!Active, One!Held
<1>5. ASSUME NEW T \in SUBSET One!Thread, One!Die(T) PROVE One!NoPhantoms'
  BY <1>0, <1>5 DEF One!Die, One!NoPhantoms, One!Active, One!Held
<1>6. ASSUME NEW t \in One!Thread, One!List(t) \/ One!WriteExpired(t) \/ One!Listed(t)
      PROVE  One!NoPhantoms'
  BY <1>a, <1>6, ExpiredRows DEF One!List, One!WriteExpired, One!Listed
<1>7. ASSUME NEW l \in Lease, One!Lapse(l) PROVE One!NoPhantoms'
  BY <1>a, <1>7 DEF One!Lapse
<1>8. CASE UNCHANGED One!vars
  BY <1>a, <1>8 DEF One!vars
<1>9. ASSUME NEW c \in Caller, One!Vanish(c) PROVE One!NoPhantoms'
  BY <1>5, <1>9 DEF One!Vanish
<1>10. ASSUME NEW p \in Server, One!Crash(p) PROVE One!NoPhantoms'
  BY <1>5, <1>10 DEF One!Crash
<1> QED
  BY <1>1, <1>2, <1>3, <1>4, <1>6, <1>7, <1>8, <1>9, <1>10
     DEF One!Next, One!ReserveLease, One!Finish, One!Snapshot

LEMMA UsageStep == ASSUME One!OneMinAssumption, LeaseInv, [One!Next]_One!vars PROVE One!UsageKept'
<1> USE DEF One!OneMinAssumption, One!Go, One!history, One!search, One!Thread
<1>0. One!TypeOK /\ One!TypeOK' /\ One!UsageKept
  BY LeaseTypeStep DEF LeaseInv
<1> USE DEF One!TypeOK
<1>a. ASSUME UNCHANGED used, overdue \subseteq overdue',
             \A k \in used \ overdue : leases'[k] = leases[k]
      PROVE  One!UsageKept'
  BY <1>0, <1>a DEF One!UsageKept
<1>1. ASSUME NEW c \in Caller,
             \/ One!TakeLock(c) \/ One!Refuse(c) \/ One!Succeed(c) \/ One!Fail(c) \/ One!Vanish(c)
             \/ One!GetForUsage(c) \/ One!GetForRelease(c) \/ \E a \in Account : One!LookAt(c, a)
      PROVE  One!UsageKept'
  BY <1>a, <1>1
     DEF One!TakeLock, One!Refuse, One!Succeed, One!Fail, One!GetForUsage, One!GetForRelease,
         One!Get, One!LookAt, One!Vanish, One!Die
<1>2. ASSUME NEW c \in Caller, NEW a \in Account, NEW l \in Lease, One!Grant(c, a, l)
      PROVE  One!UsageKept'
  <2>1. l \notin used
    BY <1>2, GrantWrites DEF LeaseInv, Written
  <2> QED BY <1>0, <1>a, <1>2, <2>1, GrantWrites DEF One!Grant
<1>3. ASSUME NEW c \in Caller, One!PutUsage(c) PROVE One!UsageKept'
  <2>1. lease[c] \in Lease
    BY <1>3, InCallHolds DEF One!PutUsage, InCall
  <2>2. leases'[lease[c]].metered = TRUE
    <3>1. PICK w \in One!Row : leases' = [leases EXCEPT ![lease[c]] = w] /\ w.metered = TRUE
      BY <1>3, PutUsageWrites
    <3>2. leases'[lease[c]] = w
      BY <1>0, <2>1, <3>1
    <3> QED BY <3>1, <3>2, Zenon
  <2> QED BY <1>0, <1>3, <2>1, <2>2, PutRows DEF One!PutUsage, One!UsageKept
<1>4. ASSUME NEW c \in Caller, One!PutRelease(c) PROVE One!UsageKept'
  <2>1. lease[c] \in Lease /\ leases'[lease[c]].metered = copy[c].metered
    BY <1>0, <1>4, PutReleaseWrites, InCallHolds DEF One!PutRelease, InCall
  <2>2. lease[c] \notin overdue => copy[c] = leases[lease[c]]
    BY <1>0, <1>4, <2>1 DEF One!PutRelease, LeaseInv, Fresh
  <2>3. \A k \in Lease \ {lease[c]} : leases'[k] = leases[k]
    BY <1>4, PutRows
  <2> QED BY <1>0, <1>4, <2>1, <2>2, <2>3 DEF One!PutRelease, One!UsageKept
<1>5. ASSUME NEW t \in One!Thread, One!List(t) \/ One!WriteExpired(t) \/ One!Listed(t)
      PROVE  One!UsageKept'
  BY <1>0, <1>a, <1>5, ExpiredRows DEF One!List, One!WriteExpired, One!Listed
<1>6. ASSUME NEW l \in Lease, One!Lapse(l) PROVE One!UsageKept'
  BY <1>a, <1>6 DEF One!Lapse
<1>7. ASSUME NEW p \in Server, One!Crash(p) PROVE One!UsageKept'
  BY <1>a, <1>7 DEF One!Crash, One!Die
<1>8. CASE UNCHANGED One!vars
  BY <1>a, <1>8 DEF One!vars
<1> QED
  BY <1>1, <1>2, <1>3, <1>4, <1>5, <1>6, <1>7, <1>8
     DEF One!Next, One!ReserveLease, One!Finish, One!Snapshot

LEMMA LeaseInvStep == ASSUME One!OneMinAssumption, LeaseInv, [One!Next]_One!vars PROVE LeaseInv'
BY LeaseTypeStep, HoldingStep, WrittenStep, FreshStep, PhantomStep, UsageStep DEF LeaseInv

LEMMA LeaseInvHolds == ASSUME One!OneMinAssumption PROVE One!Spec => []LeaseInv
<1>1. One!Init => LeaseInv
  BY LeaseInitInv
<1>2. LeaseInv /\ [One!Next]_One!vars => LeaseInv'
  BY LeaseInvStep
<1> QED BY <1>1, <1>2, PTL DEF One!Spec

\* The leases, their copies and their holders have their types.
THEOREM LeasesTypeCorrect == ASSUME One!OneMinAssumption PROVE One!Spec => []One!TypeOK
<1>1. LeaseInv => One!TypeOK
  BY DEF LeaseInv
<1> QED BY <1>1, LeaseInvHolds, PTL

\* Whatever crashes, lapses or is written late, an account is blocked only by a
\* call that runs or whose process died less than a lease ago.
THEOREM NoPhantomLeases == ASSUME One!OneMinAssumption PROVE One!Spec => []One!NoPhantoms
<1>1. LeaseInv => One!NoPhantoms
  BY DEF LeaseInv
<1> QED BY <1>1, LeaseInvHolds, PTL

\* A usage that was reported in time stays in the row, whoever lists and writes
\* expiries meanwhile.
THEOREM UsageStays == ASSUME One!OneMinAssumption PROVE One!Spec => []One!UsageKept
<1>1. LeaseInv => One!UsageKept
  BY DEF LeaseInv
<1> QED BY <1>1, LeaseInvHolds, PTL

-----------------------------------------------------------------------------
(* One process: the caps *)

\* The leases count as this module does.
LEMMA CountsAlike == ASSUME NEW S PROVE One!Cardinality(S) = Cardinality(S)
BY DEF One!Cardinality, Cardinality

LEMMA NumbersOfCaps ==
  ASSUME One!OneMinAssumption
  PROVE  MaxTotal \in Nat \ {0} /\ MaxCore \in Nat \ {0} /\ MaxImage \in Nat \ {0}
BY DEF One!OneMinAssumption

\* Rows are written one by one, so there are finitely many.
LEMMA FiniteStep ==
  ASSUME One!OneMinAssumption, LeaseInv, IsFiniteSet(Taken), [One!Next]_One!vars
  PROVE  IsFiniteSet(Taken')
<1>1. ASSUME NEW c \in Caller, NEW a \in Account, NEW l \in Lease, One!Grant(c, a, l)
      PROVE  IsFiniteSet(Taken')
  BY <1>1, GrantWrites, FS_AddElement
<1>2. ASSUME UNCHANGED leases PROVE IsFiniteSet(Taken')
  BY <1>2 DEF Taken
<1>3. ASSUME NEW c \in Caller, One!PutUsage(c) \/ One!PutRelease(c) PROVE IsFiniteSet(Taken')
  BY <1>3, SameWhenRewritten DEF Same
<1>4. ASSUME NEW t \in One!Thread, One!WriteExpired(t) PROVE IsFiniteSet(Taken')
  BY <1>4, SameWhenRewritten DEF Same
<1> QED
  BY <1>1, <1>2, <1>3, <1>4
     DEF One!Next, One!vars, One!ReserveLease, One!Finish, One!Snapshot, One!TakeLock,
         One!Refuse, One!LookAt, One!Succeed, One!Fail,
         One!GetForUsage, One!GetForRelease, One!Get, One!Vanish, One!Die, One!List, One!Listed,
         One!Lapse, One!Crash

\* No step but a grant counts a lease that was not counted, or changes what is counted.
Shrinks ==
  \A a \in Account : One!Counted(a)' \subseteq One!Counted(a)
    /\ \A l \in One!Counted(a)' : leases'[l].class = leases[l].class

LEMMA ShrinkStep ==
  ASSUME One!OneMinAssumption, LeaseInv, [One!Next]_One!vars
  PROVE  Shrinks \/ \E c \in Caller, a \in Account, l \in Lease : One!Grant(c, a, l)
<1> USE DEF One!Counted, One!Active
<1>0. One!TypeOK /\ One!TypeOK'
  BY LeaseTypeStep DEF LeaseInv
<1>1. ASSUME overdue \subseteq overdue', \A k \in Lease \ overdue : leases'[k] = leases[k]
      PROVE  Shrinks
  BY <1>0, <1>1 DEF Shrinks, One!TypeOK
<1>2. ASSUME UNCHANGED leases, overdue \subseteq overdue' PROVE Shrinks
  BY <1>1, <1>2
<1>3. ASSUME NEW t \in One!Thread, One!WriteExpired(t) PROVE Shrinks
  BY <1>1, <1>3, ExpiredRows DEF One!WriteExpired
<1>4. ASSUME NEW c \in Caller, One!PutUsage(c) PROVE Shrinks
  <2>1. lease[c] \in Lease /\ lease[c] # NoLease
    BY <1>4, InCallHolds DEF One!PutUsage, InCall, One!OneMinAssumption
  <2>2. leases'[lease[c]].account = leases[lease[c]].account
        /\ leases'[lease[c]].class = leases[lease[c]].class
    BY <1>0, <1>4, <2>1, PutUsageWrites DEF One!TypeOK
  <2>3. lease[c] \notin overdue => leases[lease[c]].status = "in_flight"
    BY <1>4, <2>1 DEF One!PutUsage, LeaseInv, Fresh, BeforeUsage
  <2>4. \A k \in Lease \ {lease[c]} : leases'[k] = leases[k]
    BY <1>4, PutRows
  <2>5. UNCHANGED overdue
    BY <1>4 DEF One!PutUsage
  <2> QED BY <2>1, <2>2, <2>3, <2>4, <2>5 DEF Shrinks
<1>5. ASSUME NEW c \in Caller, One!PutRelease(c) PROVE Shrinks
  <2>1. lease[c] \in Lease
    BY <1>5, InCallHolds DEF One!PutRelease, InCall
  <2>2. leases'[lease[c]].status # "in_flight"
    BY <1>0, <1>5, <2>1, PutReleaseWrites DEF One!TypeOK
  <2>3. \A k \in Lease \ {lease[c]} : leases'[k] = leases[k]
    BY <1>5, PutRows
  <2>4. UNCHANGED overdue
    BY <1>5 DEF One!PutRelease
  <2> QED BY <2>1, <2>2, <2>3, <2>4 DEF Shrinks
<1> QED
  BY <1>2, <1>3, <1>4, <1>5
     DEF One!Next, One!vars, One!ReserveLease, One!Finish, One!Snapshot, One!TakeLock,
         One!Refuse, One!LookAt, One!Succeed, One!Fail,
         One!GetForUsage, One!GetForRelease, One!Get, One!Vanish, One!Die, One!List, One!Listed,
         One!Lapse, One!Crash

\* What is counted is finite, and a part of it counts for no more.
LEMMA CountedFinite ==
  ASSUME One!TypeOK, IsFiniteSet(Taken), NEW a \in Account
  PROVE  /\ IsFiniteSet(One!Counted(a)) /\ Cardinality(One!Counted(a)) \in Nat
         /\ \A S : IsFiniteSet(One!OfClass(One!Counted(a), S)) /\ Cardinality(One!OfClass(One!Counted(a), S)) \in Nat
<1>1. One!Counted(a) \subseteq Taken
  BY DEF One!Counted, One!Active, Taken, One!AbsentRow, One!TypeOK
<1>2. \A S : One!OfClass(One!Counted(a), S) \subseteq One!Counted(a)
  BY DEF One!OfClass
<1> QED BY <1>1, <1>2, FS_Subset, FS_CardinalityType

LEMMA CountsShrink ==
  ASSUME One!TypeOK, IsFiniteSet(Taken), NEW a \in Account, One!Counted(a)' \subseteq One!Counted(a),
         \A l \in One!Counted(a)' : leases'[l].class = leases[l].class
  PROVE  /\ Cardinality(One!Counted(a))' \in Nat
         /\ Cardinality(One!Counted(a))' <= Cardinality(One!Counted(a))
         /\ \A S : /\ One!OfClass(One!Counted(a), S)' \subseteq One!OfClass(One!Counted(a), S)
                   /\ Cardinality(One!OfClass(One!Counted(a), S))' \in Nat
                   /\ Cardinality(One!OfClass(One!Counted(a), S))' <= Cardinality(One!OfClass(One!Counted(a), S))
<1>1. ASSUME NEW S PROVE One!OfClass(One!Counted(a), S)' \subseteq One!OfClass(One!Counted(a), S)
  BY DEF One!OfClass
<1>2. ASSUME NEW S
      PROVE  /\ Cardinality(One!OfClass(One!Counted(a), S))' \in Nat
             /\ Cardinality(One!OfClass(One!Counted(a), S))' <= Cardinality(One!OfClass(One!Counted(a), S))
  BY <1>1, CountedFinite, FS_Subset, FS_CardinalityType
<1>3. Cardinality(One!Counted(a))' \in Nat /\ Cardinality(One!Counted(a))' <= Cardinality(One!Counted(a))
  BY CountedFinite, FS_Subset, FS_CardinalityType
<1> QED BY <1>1, <1>2, <1>3

\* One lease more counts for one more, in its class only.
LEMMA CountsGrow ==
  ASSUME One!TypeOK, IsFiniteSet(Taken), NEW a \in Account, NEW l, l \notin One!Counted(a),
         One!Counted(a)' \subseteq One!Counted(a) \cup {l},
         \A k \in One!Counted(a) : leases'[k].class = leases[k].class
  PROVE  /\ Cardinality(One!Counted(a))' \in Nat
         /\ Cardinality(One!Counted(a))' <= Cardinality(One!Counted(a)) + 1
         /\ \A S : /\ Cardinality(One!OfClass(One!Counted(a), S))' \in Nat
                   /\ Cardinality(One!OfClass(One!Counted(a), S))' <= Cardinality(One!OfClass(One!Counted(a), S)) + 1
         /\ \A S : leases'[l].class \notin S =>
              /\ One!OfClass(One!Counted(a), S)' \subseteq One!OfClass(One!Counted(a), S)
              /\ Cardinality(One!OfClass(One!Counted(a), S))' <= Cardinality(One!OfClass(One!Counted(a), S))
<1>1. ASSUME NEW A, NEW B, IsFiniteSet(A), l \notin A, B \subseteq A \cup {l}
      PROVE  Cardinality(B) \in Nat /\ Cardinality(B) <= Cardinality(A) + 1
  <2>1. IsFiniteSet(A \cup {l}) /\ Cardinality(A \cup {l}) = Cardinality(A) + 1
    BY <1>1, FS_AddElement
  <2>2. IsFiniteSet(B) /\ Cardinality(B) <= Cardinality(A \cup {l})
    BY <1>1, <2>1, FS_Subset
  <2> QED BY <2>1, <2>2, FS_CardinalityType
<1>2. IsFiniteSet(One!Counted(a)) /\ \A S : IsFiniteSet(One!OfClass(One!Counted(a), S))
  BY CountedFinite
<1>3. Cardinality(One!Counted(a))' \in Nat /\ Cardinality(One!Counted(a))' <= Cardinality(One!Counted(a)) + 1
  BY <1>1, <1>2
<1>4. ASSUME NEW S
      PROVE  /\ Cardinality(One!OfClass(One!Counted(a), S))' \in Nat
             /\ Cardinality(One!OfClass(One!Counted(a), S))' <= Cardinality(One!OfClass(One!Counted(a), S)) + 1
  <2>1. l \notin One!OfClass(One!Counted(a), S)
        /\ One!OfClass(One!Counted(a), S)' \subseteq One!OfClass(One!Counted(a), S) \cup {l}
    BY DEF One!OfClass
  <2> QED BY <1>1, <1>2, <2>1
<1>5. ASSUME NEW S, leases'[l].class \notin S
      PROVE  /\ One!OfClass(One!Counted(a), S)' \subseteq One!OfClass(One!Counted(a), S)
             /\ Cardinality(One!OfClass(One!Counted(a), S))' <= Cardinality(One!OfClass(One!Counted(a), S))
  <2>1. One!OfClass(One!Counted(a), S)' \subseteq One!OfClass(One!Counted(a), S)
    BY <1>5 DEF One!OfClass
  <2> QED BY <1>2, <2>1, FS_Subset
<1> QED BY <1>3, <1>4, <1>5

\* What the caps allow they still allow when less is counted.
LEMMA AllowedStays ==
  ASSUME One!OneMinAssumption, One!TypeOK, IsFiniteSet(Taken), Shrinks,
         NEW a \in Account, NEW class \in One!Core \cup One!Image, One!CapsAllow(a, class)
  PROVE  One!CapsAllow(a, class)'
<1> DEFINE n == Cardinality(One!Counted(a))
           m == Cardinality(One!OfClass(One!Counted(a), {class}))
<1>1. One!Counted(a)' \subseteq One!Counted(a) /\ \A l \in One!Counted(a)' : leases'[l].class = leases[l].class
  BY DEF Shrinks
<1>2. n \in Nat /\ m \in Nat
  BY CountedFinite
<1>3. n' \in Nat /\ m' \in Nat /\ n' <= n /\ m' <= m
  BY <1>1, CountsShrink
<1>4. /\ One!OfClass(One!Counted(a), One!Image)' \subseteq One!OfClass(One!Counted(a), One!Image)
      /\ One!OfClass(One!Counted(a), One!Core)' \subseteq One!OfClass(One!Counted(a), One!Core)
  BY <1>1, CountsShrink
<1>5. /\ n < MaxTotal
      /\ class \in One!Core => m < MaxCore /\ One!OfClass(One!Counted(a), One!Image) = {}
      /\ class \in One!Image => m < MaxImage /\ One!OfClass(One!Counted(a), One!Core) = {}
  BY CountsAlike DEF One!CapsAllow
<1>6. /\ n' < MaxTotal
      /\ class \in One!Core => m' < MaxCore /\ One!OfClass(One!Counted(a), One!Image)' = {}
      /\ class \in One!Image => m' < MaxImage /\ One!OfClass(One!Counted(a), One!Core)' = {}
  <2> HIDE DEF n, m
  <2> QED BY <1>2, <1>3, <1>4, <1>5, NumbersOfCaps
<1> QED BY <1>6, CountsAlike DEF One!CapsAllow

\* The searches of one process exclude each other.
LEMMA SearchStep ==
  ASSUME One!OneMinAssumption, LeaseInv, Searching, [One!Next]_One!vars
  PROVE  Searching'
<1> USE DEF One!OneMinAssumption, One!Go, One!history, One!search, One!Thread, Searching
<1>0. One!TypeOK
  BY DEF LeaseInv
<1> USE DEF One!TypeOK
<1>1. ASSUME NEW c \in Caller, One!TakeLock(c) PROVE Searching'
  BY <1>0, <1>1 DEF One!TakeLock
<1>2. ASSUME NEW c \in Caller, One!Refuse(c) PROVE Searching'
  BY <1>0, <1>2 DEF One!Refuse, One!Unlock, One!Searched
<1>3. ASSUME NEW c \in Caller, NEW a \in Account, One!LookAt(c, a) PROVE Searching'
  BY <1>0, <1>3 DEF One!LookAt
<1>4. ASSUME NEW c \in Caller, NEW a \in Account, NEW l \in Lease, One!Grant(c, a, l)
      PROVE  Searching'
  BY <1>0, <1>4 DEF One!Grant, One!Unlock, One!Searched
<1>5. ASSUME NEW c \in Caller, One!Finish(c) PROVE Searching'
  BY <1>0, <1>5
     DEF One!Finish, One!Succeed, One!Fail, One!GetForUsage, One!GetForRelease, One!Get,
         One!PutUsage, One!PutRelease
<1>6. ASSUME NEW c \in Caller, One!Vanish(c) PROVE Searching'
  BY <1>0, <1>6 DEF One!Vanish, One!Die
<1>7. ASSUME NEW t \in One!Thread, One!Snapshot(t) PROVE Searching'
  BY <1>0, <1>7 DEF One!Snapshot, One!List, One!WriteExpired, One!Listed
<1>8. ASSUME NEW l \in Lease, One!Lapse(l) PROVE Searching'
  BY <1>0, <1>8 DEF One!Lapse
<1>9. ASSUME NEW p \in Server, One!Crash(p) PROVE Searching'
  BY <1>0, <1>9 DEF One!Crash, One!Die
<1>10. CASE UNCHANGED One!vars
  BY <1>10 DEF One!vars
<1> QED
  BY <1>1, <1>2, <1>3, <1>4, <1>5, <1>6, <1>7, <1>8, <1>9, <1>10 DEF One!Next, One!ReserveLease

\* In one process, at most one caller searches.
LEMMA OneSearch ==
  ASSUME OneProcess, Searching, NEW c \in Caller, NEW d \in Caller, place[c] = "look", place[d] = "look"
  PROVE  c = d
BY DEF OneProcess, Searching

LEMMA AllowedStep ==
  ASSUME One!OneMinAssumption, OneProcess, OneInv, [One!Next]_One!vars
  PROVE  StillAllowed'
<1> SUFFICES ASSUME NEW c \in Caller, place'[c] = "look", NEW a \in eligible'[c]
             PROVE  One!CapsAllow(a, ClassOf[c])'
  BY DEF StillAllowed
<1>0. One!TypeOK /\ One!TypeOK' /\ a \in Account /\ ClassOf[c] \in One!Core \cup One!Image
  BY LeaseTypeStep DEF OneInv, LeaseInv, One!TypeOK, One!OneMinAssumption
<1>1. CASE place[c] = "look" /\ a \in eligible[c]
  <2>1. One!CapsAllow(a, ClassOf[c])
    BY <1>1 DEF OneInv, StillAllowed
  <2>2. ASSUME NEW d \in Caller, NEW b \in Account, NEW l \in Lease, One!Grant(d, b, l) PROVE FALSE
    <3>1. place[d] = "look" /\ place' = [place EXCEPT ![d] = "calling"]
      BY <2>2 DEF One!Grant, One!Searched, One!Go
    <3>2. d = c
      BY <1>1, <3>1, OneSearch DEF OneInv
    <3> QED BY <1>0, <3>1, <3>2 DEF One!TypeOK, One!Thread
  <2>3. Shrinks
    BY <2>2, ShrinkStep DEF OneInv
  <2> QED BY <1>0, <2>1, <2>3, AllowedStays DEF OneInv
<1>2. CASE ~(place[c] = "look" /\ a \in eligible[c])
  <2>1. ASSUME NEW d \in Caller, NEW b \in Account, One!LookAt(d, b)
        PROVE  One!CapsAllow(a, ClassOf[c])'
    <3>1. UNCHANGED <<leases, overdue>> /\ One!CapsAllow(a, ClassOf[c])
      BY <1>0, <1>2, <2>1 DEF One!LookAt, One!TypeOK
    <3> QED BY <3>1 DEF One!CapsAllow, One!Counted, One!Active, One!OfClass
  <2>2. ASSUME NEW d \in Caller, One!TakeLock(d) PROVE FALSE
    BY <1>0, <1>2, <2>2 DEF One!TakeLock, One!TypeOK, One!Go, One!Thread
  <2>3. ASSUME NEW t \in One!Thread, NEW there \in One!Places \ {"look"}, One!Go(t, there), UNCHANGED eligible
        PROVE  FALSE
    BY <1>0, <1>2, <2>3 DEF One!TypeOK, One!Go, One!Thread
  <2>4. ASSUME NEW d \in Caller,
               \/ One!Refuse(d) \/ One!Finish(d) \/ \E b \in Account, l \in Lease : One!Grant(d, b, l)
        PROVE  FALSE
    BY <2>3, <2>4
       DEF One!Refuse, One!Grant, One!Finish, One!Succeed, One!Fail, One!GetForUsage,
           One!GetForRelease, One!Get, One!PutUsage,
           One!PutRelease, One!search, One!Places, One!Thread
  <2>5. ASSUME NEW t \in One!Thread, One!List(t) \/ One!Listed(t) PROVE FALSE
    BY <2>3, <2>5 DEF One!List, One!Listed, One!search, One!Places
  <2>6. ASSUME UNCHANGED <<place, eligible>> PROVE FALSE
    BY <1>2, <2>6
  <2>7. ASSUME NEW T \in SUBSET One!Thread, One!Die(T) PROVE FALSE
    BY <1>0, <1>2, <2>7 DEF One!Die, One!TypeOK, One!Thread
  <2>8. ASSUME NEW d \in Caller, One!Vanish(d) PROVE FALSE
    BY <2>7, <2>8 DEF One!Vanish, One!Thread
  <2>9. ASSUME NEW p \in Server, One!Crash(p) PROVE FALSE
    BY <2>7, <2>9 DEF One!Crash
  <2> QED
    BY <2>1, <2>2, <2>4, <2>5, <2>6, <2>8, <2>9
       DEF One!Next, One!vars, One!ReserveLease, One!Snapshot, One!WriteExpired, One!Lapse,
           One!search
<1> QED BY <1>1, <1>2

LEMMA CappedStep ==
  ASSUME One!OneMinAssumption, OneProcess, OneInv, [One!Next]_One!vars
  PROVE  RowsCapped'
<1>0. One!TypeOK /\ LeaseInv /\ IsFiniteSet(Taken)
  BY DEF OneInv, LeaseInv
<1>n. \A a \in Account : /\ Cardinality(One!Counted(a)) \in Nat
                         /\ \A S : Cardinality(One!OfClass(One!Counted(a), S)) \in Nat
  BY <1>0, CountedFinite
<1> SUFFICES ASSUME NEW a \in Account
             PROVE  /\ Cardinality(One!Counted(a))' <= MaxTotal
                    /\ \A class \in One!Core : Cardinality(One!OfClass(One!Counted(a), {class}))' <= MaxCore
                    /\ \A class \in One!Image : Cardinality(One!OfClass(One!Counted(a), {class}))' <= MaxImage
                    /\ One!OfClass(One!Counted(a), One!Core)' = {} \/ One!OfClass(One!Counted(a), One!Image)' = {}
  BY DEF RowsCapped
<1>a. /\ Cardinality(One!Counted(a)) <= MaxTotal
      /\ \A class \in One!Core : Cardinality(One!OfClass(One!Counted(a), {class})) <= MaxCore
      /\ \A class \in One!Image : Cardinality(One!OfClass(One!Counted(a), {class})) <= MaxImage
      /\ One!OfClass(One!Counted(a), One!Core) = {} \/ One!OfClass(One!Counted(a), One!Image) = {}
  BY DEF OneInv, RowsCapped
<1>1. CASE One!Counted(a)' \subseteq One!Counted(a) /\ \A l \in One!Counted(a)' : leases'[l].class = leases[l].class
  <2>1. /\ Cardinality(One!Counted(a))' \in Nat
        /\ Cardinality(One!Counted(a))' <= Cardinality(One!Counted(a))
        /\ \A S : /\ One!OfClass(One!Counted(a), S)' \subseteq One!OfClass(One!Counted(a), S)
                  /\ Cardinality(One!OfClass(One!Counted(a), S))' \in Nat
                  /\ Cardinality(One!OfClass(One!Counted(a), S))' <= Cardinality(One!OfClass(One!Counted(a), S))
    BY <1>0, <1>1, CountsShrink
  <2>2. Cardinality(One!Counted(a))' <= MaxTotal
    BY <1>n, <1>a, <2>1, NumbersOfCaps
  <2>3. ASSUME NEW class \in One!Core
        PROVE  Cardinality(One!OfClass(One!Counted(a), {class}))' <= MaxCore
    BY <1>n, <1>a, <2>1, NumbersOfCaps
  <2>4. ASSUME NEW class \in One!Image
        PROVE  Cardinality(One!OfClass(One!Counted(a), {class}))' <= MaxImage
    BY <1>n, <1>a, <2>1, NumbersOfCaps
  <2> QED BY <1>a, <2>1, <2>2, <2>3, <2>4
<1>2. ASSUME NEW c \in Caller, NEW b \in Account, NEW l \in Lease, One!Grant(c, b, l)
      PROVE  /\ Cardinality(One!Counted(a))' <= MaxTotal
             /\ \A class \in One!Core : Cardinality(One!OfClass(One!Counted(a), {class}))' <= MaxCore
             /\ \A class \in One!Image : Cardinality(One!OfClass(One!Counted(a), {class}))' <= MaxImage
             /\ One!OfClass(One!Counted(a), One!Core)' = {} \/ One!OfClass(One!Counted(a), One!Image)' = {}
  <2>1. /\ l \notin Taken
        /\ leases'[l].status = "in_flight" /\ leases'[l].account = b /\ leases'[l].class = ClassOf[c]
        /\ \A k \in Lease \ {l} : leases'[k] = leases[k]
    BY <1>0, <1>2, GrantWrites
  <2>2. UNCHANGED overdue /\ One!CapsAllow(b, ClassOf[c]) /\ ClassOf[c] \in One!Core \cup One!Image
    BY <1>2 DEF One!Grant, One!Searched, OneInv, StillAllowed, One!OneMinAssumption
  <2>3. l \notin One!Counted(a)
    BY <1>0, <2>1 DEF One!Counted, One!Active, Taken, One!AbsentRow
  <2>4. CASE a # b
    BY <1>1, <2>1, <2>2, <2>4 DEF One!Counted, One!Active
  <2>5. CASE a = b
    <3>1. One!Counted(a)' \subseteq One!Counted(a) \cup {l}
          /\ \A k \in One!Counted(a) : leases'[k].class = leases[k].class
      BY <2>1, <2>2, <2>3 DEF One!Counted, One!Active
    <3>2. /\ Cardinality(One!Counted(a))' \in Nat
          /\ Cardinality(One!Counted(a))' <= Cardinality(One!Counted(a)) + 1
          /\ \A S : /\ Cardinality(One!OfClass(One!Counted(a), S))' \in Nat
                    /\ Cardinality(One!OfClass(One!Counted(a), S))'
                         <= Cardinality(One!OfClass(One!Counted(a), S)) + 1
          /\ \A S : ClassOf[c] \notin S =>
               /\ One!OfClass(One!Counted(a), S)' \subseteq One!OfClass(One!Counted(a), S)
               /\ Cardinality(One!OfClass(One!Counted(a), S))' <= Cardinality(One!OfClass(One!Counted(a), S))
      BY <1>0, <2>1, <2>3, <3>1, CountsGrow
    <3>7. /\ Cardinality(One!Counted(a)) < MaxTotal
          /\ ClassOf[c] \in One!Core =>
               /\ Cardinality(One!OfClass(One!Counted(a), {ClassOf[c]})) < MaxCore
               /\ One!OfClass(One!Counted(a), One!Image) = {}
          /\ ClassOf[c] \in One!Image =>
               /\ Cardinality(One!OfClass(One!Counted(a), {ClassOf[c]})) < MaxImage
               /\ One!OfClass(One!Counted(a), One!Core) = {}
      BY <2>2, <2>5, CountsAlike DEF One!CapsAllow
    <3>8. Cardinality(One!Counted(a))' <= MaxTotal
      BY <1>n, <3>2, <3>7, NumbersOfCaps
    <3>9. ASSUME NEW class \in One!Core
          PROVE  Cardinality(One!OfClass(One!Counted(a), {class}))' <= MaxCore
      <4> DEFINE n == Cardinality(One!OfClass(One!Counted(a), {class}))
      <4>1. n \in Nat /\ n' \in Nat /\ n <= MaxCore
        BY <1>n, <1>a, <3>2
      <4>2. CASE class = ClassOf[c]
        BY <3>2, <3>7, <4>1, <4>2, NumbersOfCaps
      <4>3. CASE class # ClassOf[c]
        BY <3>2, <4>1, <4>3, NumbersOfCaps
      <4> QED BY <4>2, <4>3
    <3>10. ASSUME NEW class \in One!Image
           PROVE  Cardinality(One!OfClass(One!Counted(a), {class}))' <= MaxImage
      <4> DEFINE n == Cardinality(One!OfClass(One!Counted(a), {class}))
      <4>1. n \in Nat /\ n' \in Nat /\ n <= MaxImage
        BY <1>n, <1>a, <3>2
      <4>2. CASE class = ClassOf[c]
        BY <3>2, <3>7, <4>1, <4>2, NumbersOfCaps
      <4>3. CASE class # ClassOf[c]
        BY <3>2, <4>1, <4>3, NumbersOfCaps
      <4> QED BY <4>2, <4>3
    <3>11. One!OfClass(One!Counted(a), One!Core)' = {} \/ One!OfClass(One!Counted(a), One!Image)' = {}
      BY <2>2, <3>2, <3>7 DEF One!Core, One!Image
    <3> QED BY <3>8, <3>9, <3>10, <3>11
  <2> QED BY <2>4, <2>5
<1>3. Shrinks \/ \E c \in Caller, b \in Account, l \in Lease : One!Grant(c, b, l)
  BY <1>0, ShrinkStep
<1> QED BY <1>1, <1>2, <1>3 DEF Shrinks

LEMMA OneHolds == ASSUME One!OneMinAssumption, OneProcess PROVE One!Spec => []OneInv
<1>1. ASSUME One!Init PROVE OneInv
  <2>1. LeaseInv
    BY <1>1, LeaseInitInv
  <2>2. Taken = {}
    BY <1>1 DEF One!Init, Taken
  <2>3. \A a \in Account : One!Counted(a) = {}
    BY <1>1 DEF One!Init, One!Counted, One!Active, One!AbsentRow
  <2>4. RowsCapped
    <3>1. \A S : One!OfClass({}, S) = {}
      BY DEF One!OfClass
    <3> QED BY <2>3, <3>1, FS_EmptySet, NumbersOfCaps DEF RowsCapped
  <2>5. Searching /\ StillAllowed
    BY <1>1 DEF One!Init, Searching, StillAllowed, One!Thread
  <2> QED BY <2>1, <2>2, <2>4, <2>5, FS_EmptySet DEF OneInv
<1>2. ASSUME OneInv, [One!Next]_One!vars PROVE OneInv'
  <2>1. LeaseInv' /\ IsFiniteSet(Taken') /\ Searching'
    BY <1>2, LeaseInvStep, FiniteStep, SearchStep DEF OneInv
  <2> QED BY <1>2, <2>1, AllowedStep, CappedStep DEF OneInv
<1> QED BY <1>1, <1>2, PTL DEF One!Spec

\* A call that runs within its lease is counted, and each by a lease of its own.
LEMMA RunningCounted ==
  ASSUME One!OneMinAssumption, LeaseInv, IsFiniteSet(Taken), NEW a \in Account,
         NEW R, R \subseteq One!Running(a), NEW S,
         \A c \in R : ClassOf[c] \in S
  PROVE  /\ IsFiniteSet(R) /\ Cardinality(R) \in Nat
         /\ Cardinality(R) <= Cardinality(One!OfClass(One!Counted(a), S))
<1>1. ASSUME NEW c \in R
      PROVE  lease[c] \in One!OfClass(One!Counted(a), S) /\ c \in Caller /\ lease[c] # NoLease
  <2>1. c \in Caller /\ place[c] = "calling" /\ leases[lease[c]].account = a /\ lease[c] \notin overdue
    BY DEF One!Running
  <2>2. lease[c] \in Lease /\ lease[c] # NoLease
    BY <2>1, InCallHolds DEF InCall, One!OneMinAssumption
  <2>3. One!Active(lease[c])
    BY <2>1, <2>2 DEF LeaseInv, Fresh, BeforeUsage
  <2>4. leases[lease[c]].class \in S
    BY <2>1, <2>2 DEF LeaseInv, Written
  <2> QED BY <2>1, <2>2, <2>3, <2>4 DEF One!OfClass, One!Counted
<1> DEFINE f == [c \in R |-> lease[c]]
<1>2. f \in Injection(R, One!OfClass(One!Counted(a), S))
  BY <1>1 DEF Injection, IsInjective, LeaseInv, Holding
<1>3. IsFiniteSet(One!OfClass(One!Counted(a), S))
  BY CountedFinite DEF LeaseInv
<1> HIDE DEF f
<1> QED BY <1>2, <1>3, FS_Injection, FS_CardinalityType

\* However searches, reports, expiries and crashes interleave in one process, the
\* calls that run on an account stay within its caps.
THEOREM CapsHold == ASSUME One!OneMinAssumption, OneProcess PROVE One!Spec => []One!CapsKept
<1>1. ASSUME OneInv PROVE One!CapsKept
  <2>1. SUFFICES ASSUME NEW a \in Account
                 PROVE  /\ Cardinality(One!Running(a)) <= MaxTotal
                        /\ \A class \in One!Core \cup One!Image :
                             Cardinality({c \in One!Running(a) : ClassOf[c] = class})
                               <= IF class \in One!Core THEN MaxCore ELSE MaxImage
                        /\ \A c, d \in One!Running(a) : ClassOf[c] \in One!Image => ClassOf[d] \notin One!Core
    BY CountsAlike DEF One!CapsKept
  <2>0. LeaseInv /\ IsFiniteSet(Taken) /\ One!TypeOK
    BY <1>1 DEF OneInv, LeaseInv
  <2>a. /\ Cardinality(One!Counted(a)) <= MaxTotal
        /\ \A class \in One!Core : Cardinality(One!OfClass(One!Counted(a), {class})) <= MaxCore
        /\ \A class \in One!Image : Cardinality(One!OfClass(One!Counted(a), {class})) <= MaxImage
        /\ One!OfClass(One!Counted(a), One!Core) = {} \/ One!OfClass(One!Counted(a), One!Image) = {}
    BY <1>1 DEF OneInv, RowsCapped
  <2>n. Cardinality(One!Counted(a)) \in Nat /\ IsFiniteSet(One!Counted(a))
        /\ \A S : Cardinality(One!OfClass(One!Counted(a), S)) \in Nat
    BY <2>0, CountedFinite
  <2>2. Cardinality(One!Running(a)) <= MaxTotal
    <3>1. \A c \in One!Running(a) : ClassOf[c] \in One!Core \cup One!Image
      BY DEF One!Running, One!OneMinAssumption
    <3>2. Cardinality(One!Running(a)) \in Nat
          /\ Cardinality(One!Running(a)) <= Cardinality(One!OfClass(One!Counted(a), One!Core \cup One!Image))
      BY <2>0, <3>1, RunningCounted
    <3>3. Cardinality(One!OfClass(One!Counted(a), One!Core \cup One!Image)) <= Cardinality(One!Counted(a))
      <4>1. One!OfClass(One!Counted(a), One!Core \cup One!Image) \subseteq One!Counted(a)
        BY DEF One!OfClass
      <4> QED BY <2>n, <4>1, FS_Subset
    <3> QED BY <2>a, <2>n, <3>2, <3>3, NumbersOfCaps
  <2>3. ASSUME NEW class \in One!Core \cup One!Image
        PROVE  Cardinality({c \in One!Running(a) : ClassOf[c] = class})
                 <= IF class \in One!Core THEN MaxCore ELSE MaxImage
    <3>1. PICK R : R = {c \in One!Running(a) : ClassOf[c] = class}
      OBVIOUS
    <3>2. Cardinality(R) \in Nat /\ Cardinality(R) <= Cardinality(One!OfClass(One!Counted(a), {class}))
      BY <2>0, <3>1, RunningCounted
    <3>3. CASE class \in One!Core
      BY <2>a, <2>n, <3>1, <3>2, <3>3, NumbersOfCaps
    <3>4. CASE class \notin One!Core
      <4>1. class \in One!Image
        BY <3>4
      <4> QED BY <2>a, <2>n, <3>1, <3>2, <3>4, <4>1, NumbersOfCaps
    <3> QED BY <3>3, <3>4
  <2>4. ASSUME NEW c \in One!Running(a), NEW d \in One!Running(a), ClassOf[c] \in One!Image, ClassOf[d] \in One!Core
        PROVE  FALSE
    <3>1. \A e \in One!Running(a) : e \in Caller /\ place[e] = "calling" /\ leases[lease[e]].account = a
                                /\ lease[e] \notin overdue
      BY DEF One!Running
    <3>2. \A e \in One!Running(a) : lease[e] \in Lease /\ lease[e] # NoLease
      BY <2>0, <3>1, InCallHolds DEF InCall, One!OneMinAssumption
    <3>3. \A e \in One!Running(a) : lease[e] \in One!OfClass(One!Counted(a), {ClassOf[e]})
      BY <2>0, <3>1, <3>2 DEF One!OfClass, One!Counted, LeaseInv, Written, Fresh, BeforeUsage
    <3> QED BY <2>a, <2>4, <3>3 DEF One!OfClass
  <2> QED BY <2>2, <2>3, <2>4
<1> QED BY <1>1, OneHolds, PTL
=============================================================================
