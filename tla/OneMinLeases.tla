---------------------------- MODULE OneMinLeases ----------------------------
(***************************************************************************)
(* The leases of OneMinManagerService on provider accounts.  The lease     *)
(* table is shared; it is read with SELECTs and written with upserts of    *)
(* whole rows, one statement per action here.  Only reserve_for_candidates *)
(* takes a lock, and the lock belongs to one process: snapshots, usage and *)
(* release run beside it.                                                  *)
(*                                                                         *)
(* Credits, roles and the score of a candidate only narrow what the caps   *)
(* allow, so an account the caps allow may still be refused.               *)
(***************************************************************************)
EXTENDS Integers, FiniteSets

CONSTANTS
  Caller,      \* threads that reserve an account and call the provider
  Remote,      \* the callers that reserve and report over the API
  Reader,      \* threads that list leases for a snapshot
  Process, ProcessOf,  \* the process of each thread
  ClassOf,     \* per caller: its task class
  Account, Lease,
  NoLease, NoAccount, Nobody,
  MaxTotal, MaxCore, MaxImage,
  MaxFaults    \* bound: crashes, and leases that run out under a live call

Thread == Caller \cup Reader

Core == {"core_code", "core_review"}
Image == {"image_generation", "media_transform"}

OneMinAssumption ==
  /\ Remote \subseteq Caller
  /\ Caller \cap Reader = {}
  /\ ProcessOf \in [Thread -> Process]
  /\ ClassOf \in [Caller -> Core \cup Image]
  /\ NoLease \notin Lease /\ NoAccount \notin Account /\ Nobody \notin Caller
  /\ {MaxTotal, MaxCore, MaxImage} \subseteq Nat \ {0}
  /\ MaxFaults \in Nat

VARIABLES
  rows,     \* the lease table
  overdue,  \* leases past their expires_at, which never moves
  lock,     \* per process: who reserves
  at,       \* per thread: where it is
  looked,   \* per caller: the candidates it has looked at
  eligible, \* per caller: those it may take
  listed,   \* per thread: rows it listed as overdue and will write as expired
  copy,     \* per caller: the row it read before changing it
  lease,    \* per caller: the lease it holds
  orphans,  \* history: leases whose holder died
  used,     \* history: leases whose usage was recorded
  faults

vars == <<rows, overdue, lock, at, looked, eligible, listed, copy, lease, orphans, used, faults>>
search == <<lock, looked, eligible>>
history == <<orphans, used, faults>>

Row == [status : {"absent", "in_flight", "success", "released", "failed", "expired"},
        account : Account \cup {NoAccount},
        class : Core \cup Image \cup {"none"},
        metered : BOOLEAN]

AbsentRow == [status |-> "absent", account |-> NoAccount, class |-> "none", metered |-> FALSE]

Places == {"idle", "look", "calling", "report", "list", "usage_get", "usage_put",
           "release_get", "release_put"}

Init ==
  /\ rows = [l \in Lease |-> AbsentRow]
  /\ overdue = {}
  /\ lock = [p \in Process |-> Nobody]
  /\ at = [t \in Thread |-> "idle"]
  /\ looked = [c \in Caller |-> {}]
  /\ eligible = [c \in Caller |-> {}]
  /\ listed = [t \in Thread |-> {}]
  /\ copy = [c \in Caller |-> AbsentRow]
  /\ lease = [c \in Caller |-> NoLease]
  /\ orphans = {} /\ used = {} /\ faults = 0

Go(t, place) == at' = [at EXCEPT ![t] = place]

-----------------------------------------------------------------------------
(* Active leases and the caps *)

Active(l) == rows[l].status = "in_flight"

\* _active_leases: what is in flight and not overdue.
Counted(a) == {l \in Lease : Active(l) /\ l \notin overdue /\ rows[l].account = a}

OfClass(S, classes) == {l \in S : rows[l].class \in classes}

\* _candidate_allowed, as far as the leases of the account decide.
CapsAllow(a, class) ==
  LET here == Counted(a)
  IN /\ Cardinality(here) < MaxTotal
     /\ class \in Core =>
          /\ Cardinality(OfClass(here, {class})) < MaxCore
          /\ OfClass(here, Image) = {}
     /\ class \in Image =>
          /\ Cardinality(OfClass(here, {class})) < MaxImage
          /\ OfClass(here, Core) = {}

\* Mutant of Overdue: no lease is ever written as expired.
OverdueNever == {}

\* The rows a listing will write as expired, as it read them.
Overdue == {<<l, rows[l]>> : l \in {l \in overdue : Active(l)}}

-----------------------------------------------------------------------------
(* reserve_for_candidates *)

\* Mutant of TakeLock: the search is not serialised.
TakeLockShared(c) ==
  /\ at[c] = "idle"
  /\ looked' = [looked EXCEPT ![c] = {}]
  /\ eligible' = [eligible EXCEPT ![c] = {}]
  /\ Go(c, "look")
  /\ UNCHANGED <<rows, overdue, lock, listed, copy, lease, history>>

TakeLock(c) ==
  /\ at[c] = "idle"
  /\ lock[ProcessOf[c]] = Nobody
  /\ lock' = [lock EXCEPT ![ProcessOf[c]] = c]
  /\ looked' = [looked EXCEPT ![c] = {}]
  /\ eligible' = [eligible EXCEPT ![c] = {}]
  /\ Go(c, "look")
  /\ UNCHANGED <<rows, overdue, listed, copy, lease, history>>

LookAt(c, a) ==
  /\ at[c] = "look" /\ listed[c] = {}
  /\ a \notin looked[c]
  /\ looked' = [looked EXCEPT ![c] = @ \cup {a}]
  /\ listed' = [listed EXCEPT ![c] = Overdue]
  /\ \/ CapsAllow(a, ClassOf[c]) /\ eligible' = [eligible EXCEPT ![c] = @ \cup {a}]
     \/ UNCHANGED eligible
  /\ UNCHANGED <<rows, overdue, lock, at, copy, lease, history>>

\* The row is written as it was listed, whatever happened to it since.
WriteExpired(t) ==
  /\ \E seen \in listed[t] :
       /\ rows' = [rows EXCEPT ![seen[1]] = [seen[2] EXCEPT !.status = "expired"]]
       /\ listed' = [listed EXCEPT ![t] = @ \ {seen}]
  /\ UNCHANGED <<overdue, at, search, copy, lease, history>>

Searched(c) == at[c] = "look" /\ listed[c] = {} /\ looked[c] = Account

Unlock(c) == lock' = [lock EXCEPT ![ProcessOf[c]] = IF @ = c THEN Nobody ELSE @]

Grant(c, a, l) ==
  /\ Searched(c) /\ a \in eligible[c]
  /\ rows[l] = AbsentRow
  /\ rows' = [rows EXCEPT ![l] = [status |-> "in_flight", account |-> a,
                                  class |-> ClassOf[c], metered |-> FALSE]]
  /\ lease' = [lease EXCEPT ![c] = l]
  /\ Unlock(c)
  /\ Go(c, "calling")
  /\ UNCHANGED <<overdue, looked, eligible, listed, copy, history>>

Refuse(c) ==
  /\ Searched(c) /\ eligible[c] = {}
  /\ Unlock(c)
  /\ Go(c, "idle")
  /\ UNCHANGED <<rows, overdue, looked, eligible, listed, copy, lease, history>>

-----------------------------------------------------------------------------
(* The end of a call: usage, then release, each a read and a write *)

Succeed(c) ==
  /\ at[c] = "calling"
  /\ Go(c, IF c \in Remote THEN "report" ELSE "usage_get")
  /\ UNCHANGED <<rows, overdue, search, listed, copy, lease, history>>

Fail(c) ==
  /\ at[c] = "calling"
  /\ Go(c, "release_get")
  /\ UNCHANGED <<rows, overdue, search, listed, copy, lease, history>>

\* A snapshot; the release endpoint starts with one.
List(t) ==
  /\ at[t] = IF t \in Reader THEN "idle" ELSE "report"
  /\ listed' = [listed EXCEPT ![t] = Overdue]
  /\ Go(t, "list")
  /\ UNCHANGED <<rows, overdue, search, copy, lease, history>>

Listed(t) ==
  /\ at[t] = "list" /\ listed[t] = {}
  /\ Go(t, IF t \in Reader THEN "idle" ELSE "usage_get")
  /\ UNCHANGED <<rows, overdue, search, listed, copy, lease, history>>

Get(c, from, to) ==
  /\ at[c] = from
  /\ copy' = [copy EXCEPT ![c] = rows[lease[c]]]
  /\ Go(c, to)
  /\ UNCHANGED <<rows, overdue, search, listed, lease, history>>

GetForUsage(c) == Get(c, "usage_get", "usage_put")

\* The endpoint reports usage with the status in_flight.
PutUsage(c) ==
  /\ at[c] = "usage_put"
  /\ rows' = [rows EXCEPT ![lease[c]] =
                [copy[c] EXCEPT !.metered = TRUE,
                                !.status = IF c \in Remote THEN "in_flight" ELSE "success"]]
  /\ used' = used \cup {lease[c]}
  /\ Go(c, "release_get")
  /\ UNCHANGED <<overdue, search, listed, copy, lease, orphans, faults>>

GetForRelease(c) == Get(c, "release_get", "release_put")

PutRelease(c) ==
  /\ at[c] = "release_put"
  /\ rows' = [rows EXCEPT ![lease[c]] =
                [copy[c] EXCEPT !.status = IF lease[c] \in used THEN "released" ELSE "failed"]]
  /\ lease' = [lease EXCEPT ![c] = NoLease]
  /\ Go(c, "idle")
  /\ UNCHANGED <<overdue, search, listed, copy, history>>

-----------------------------------------------------------------------------
(* Time and crashes *)

Held(l) == \E c \in Caller : lease[c] = l

\* expires_at passes.
Lapse(l) ==
  /\ rows[l] # AbsentRow /\ l \notin overdue
  /\ Held(l) => faults < MaxFaults
  /\ faults' = IF Held(l) THEN faults + 1 ELSE faults
  /\ overdue' = overdue \cup {l}
  /\ UNCHANGED <<rows, lock, at, looked, eligible, listed, copy, lease, orphans, used>>

Die(T) ==
  /\ at' = [t \in Thread |-> IF t \in T THEN "idle" ELSE at[t]]
  /\ listed' = [t \in Thread |-> IF t \in T THEN {} ELSE listed[t]]
  /\ lease' = [c \in Caller |-> IF c \in T THEN NoLease ELSE lease[c]]
  /\ orphans' = orphans \cup {l \in Lease : \E c \in T \cap Caller : lease[c] = l}
  /\ UNCHANGED <<rows, overdue, looked, eligible, copy, used>>

\* A process dies with all its threads; its lock was in memory.
Crash(p) ==
  /\ Die({t \in Thread : ProcessOf[t] = p})
  /\ lock' = [lock EXCEPT ![p] = Nobody]
  /\ faults < MaxFaults /\ faults' = faults + 1

\* The client of the API never reports.
Vanish(c) ==
  /\ c \in Remote /\ at[c] = "calling"
  /\ Die({c})
  /\ UNCHANGED <<lock, faults>>

Finish(c) ==
  \/ Succeed(c) \/ Fail(c) \/ GetForUsage(c) \/ PutUsage(c)
  \/ GetForRelease(c) \/ PutRelease(c)

ReserveLease(c) ==
  \/ TakeLock(c) \/ Refuse(c)
  \/ \E a \in Account : LookAt(c, a) \/ \E l \in Lease : Grant(c, a, l)

Snapshot(t) == List(t) \/ WriteExpired(t) \/ Listed(t)

Next ==
  \/ \E c \in Caller : ReserveLease(c) \/ Finish(c) \/ Vanish(c)
  \/ \E t \in Thread : Snapshot(t)
  \/ \E l \in Lease : Lapse(l)
  \/ \E p \in Process : Crash(p)

\* Time passes, calls have timeouts and the scheduler lists leases forever; who
\* calls, and whether anybody does, is open.
Fairness ==
  /\ \A t \in Thread : WF_vars(Snapshot(t))
  /\ \A c \in Caller : WF_vars(Finish(c)) /\ WF_vars(\E a \in Account : LookAt(c, a))
  /\ \A l \in Lease : WF_vars(Lapse(l))

Spec == Init /\ [][Next]_vars
FairSpec == Spec /\ Fairness

-----------------------------------------------------------------------------
TypeOK ==
  /\ rows \in [Lease -> Row]
  /\ overdue \subseteq Lease
  /\ lock \in [Process -> Caller \cup {Nobody}]
  /\ at \in [Thread -> Places]
  /\ looked \in [Caller -> SUBSET Account]
  /\ eligible \in [Caller -> SUBSET Account]
  /\ \A c \in Caller : eligible[c] \subseteq looked[c]
  /\ listed \in [Thread -> SUBSET (overdue \X Row)]
  /\ copy \in [Caller -> Row]
  /\ lease \in [Caller -> Lease \cup {NoLease}]
  /\ orphans \subseteq Lease /\ used \subseteq Lease
  /\ faults \in 0..MaxFaults

\* The calls running on an account, those that outlived their lease aside.
Running(a) == {c \in Caller : at[c] = "calling" /\ rows[lease[c]].account = a
                              /\ lease[c] \notin overdue}

\* The caps hold for the calls that run, not only for the rows that were
\* counted: however searches, reports, expiries and crashes interleave, no
\* account serves more calls than its caps, nor core and image calls at once.
CapsKept ==
  \A a \in Account :
    /\ Cardinality(Running(a)) <= MaxTotal
    /\ \A class \in Core \cup Image :
         Cardinality({c \in Running(a) : ClassOf[c] = class})
           <= IF class \in Core THEN MaxCore ELSE MaxImage
    /\ \A c, d \in Running(a) : ClassOf[c] \in Image => ClassOf[d] \notin Core

\* The usage a call recorded stays in its row, unless the lease ran out under
\* the call.
UsageKept == \A l \in used : rows[l].metered \/ l \in overdue

\* No account is blocked by a call that ended: what counts is held, or was held
\* by a process that died less than a lease ago.
NoPhantoms ==
  \A l \in Lease : Active(l) /\ l \notin overdue => Held(l) \/ l \in orphans

\* A call that succeeded ends as released with its usage.
\* Not kept by the code: README.md, "Departures from the documents".
ReleasedWithUsage ==
  \A l \in used : ~Held(l) /\ l \notin orphans =>
    rows[l].metered /\ rows[l].status = "released"

\* Every lease ends, reported or found overdue by whoever lists next: as leases are
\* bounded, there comes a time when none is active.
LeasesEnd == (\E l \in Lease : Active(l)) ~> \A l \in Lease : ~Active(l)
=============================================================================
