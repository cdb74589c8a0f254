---------------------------- MODULE BudgetLedger ----------------------------
(***************************************************************************)
(* The points ledger of one VocalLab account: its reservations, the        *)
(* circuit breaker and the pace of requests, with one operator per         *)
(* transaction of budget_ledger.py.  A transaction reads, changes,         *)
(* validates and renames the file under a lock, so it is one atomic step;  *)
(* a refused one writes nothing.                                           *)
(*                                                                         *)
(* A reservation is named by its slot, the pair of a job and an            *)
(* idempotency key; fp is the fingerprint of the request bound to it.      *)
(***************************************************************************)
EXTENDS Integers, FiniteSets, Functions

CONSTANTS
  Slot, Fp, Job, NoFp,
  JobOf,            \* per slot: its job
  Reserve,          \* minimum_account_reserve
  MaxPointsPerJob,  \* maximum_points_per_job
  MaxSegmentsPerJob \* maximum_segments_per_job

BudgetAssumption ==
  /\ IsFiniteSet(Slot)
  /\ JobOf \in [Slot -> Job]
  /\ NoFp \notin Fp
  /\ {Reserve, MaxPointsPerJob, MaxSegmentsPerJob} \subseteq Nat

VARIABLES
  rows,     \* reservations
  circuit,  \* circuit_breaker.status
  failures, \* circuit_breaker.consecutive_upstream_failures
  quiet     \* the least interval since last_request_started_at has passed

ledgerVars == <<rows, circuit, failures, quiet>>

Status ==
  {"absent", "reserved", "post_started", "generation_known",
   "charged_pending_materialization", "complete", "complete_budget_violation",
   "released", "unknown"}

Reservation == [status : Status, fp : Fp \cup {NoFp}, estimated : Nat, used : Nat]

Absent == [status |-> "absent", fp |-> NoFp, estimated |-> 0, used |-> 0]

LedgerInit ==
  /\ rows = [s \in Slot |-> Absent]
  /\ circuit = "closed" /\ failures = 0
  /\ quiet = TRUE

LedgerTypeOK ==
  /\ rows \in [Slot -> Reservation]
  /\ circuit \in {"closed", "open"}
  /\ failures \in 0..3
  /\ quiet \in BOOLEAN

-----------------------------------------------------------------------------
Charged == {"charged_pending_materialization", "complete", "complete_budget_violation"}

Settled(s) == rows[s].status \in {"complete", "complete_budget_violation"}

ChargeUnknown(s) == rows[s].status \in {"post_started", "unknown"}

Resumable(s) == rows[s].status \in {"generation_known", "charged_pending_materialization"}

KeyReused(s, f) == rows[s].status # "absent" /\ rows[s].fp # f

\* Mutant of Duplicate: only a request that was charged counts as made.
DuplicateCharged(s, f) ==
  \E o \in Slot \ {s} : rows[o].fp = f /\ rows[o].status \in Charged

Duplicate(s, f) ==
  \E o \in Slot \ {s} : rows[o].fp = f /\ rows[o].status \notin {"absent", "released"}

AccountBlocked == circuit = "open" \/ \E s \in Slot : rows[s].status = "unknown"

SumOver(S, points(_)) == SumFunctionOnSet([o \in S |-> points(o)], S)

\* Mutant of HeldPoints: what was posted no longer counts as held.
HeldPointsReservedOnly(s) ==
  SumOver({o \in Slot \ {s} : rows[o].status = "reserved"}, LAMBDA o : rows[o].estimated)

\* Points other reservations may still cost the account.
HeldPoints(s) ==
  SumOver({o \in Slot \ {s} :
             rows[o].status \in {"reserved", "post_started", "generation_known"}},
          LAMBDA o : rows[o].estimated)

Segments(s) ==
  {o \in Slot \ {s} : JobOf[o] = JobOf[s] /\ rows[o].status \notin {"absent", "released"}}

Committed(s) ==
  SumOver(Segments(s),
          LAMBDA o : IF rows[o].status \in Charged THEN rows[o].used ELSE rows[o].estimated)

\* What both find_existing and reserve refuse about the slot itself.
Refused(s, f) ==
  \/ KeyReused(s, f)
  \/ ChargeUnknown(s)
  \/ Settled(s)

\* find_existing: resume, go on to reserve, or (neither) raise.
FindsResumable(s, f) == ~Refused(s, f) /\ Resumable(s)

FindsNone(s, f) ==
  /\ ~Refused(s, f)
  /\ rows[s].status \in {"absent", "released"} => ~Duplicate(s, f) /\ ~AccountBlocked
  /\ ~Resumable(s)

\* What reserve checks before it writes the row, or returns the reserved one.
Reservable(s, f, points, balance) ==
  /\ ~Refused(s, f)
  /\ ~Duplicate(s, f)
  /\ ~AccountBlocked
  /\ Cardinality(Segments(s)) + 1 <= MaxSegmentsPerJob
  /\ Committed(s) + points <= MaxPointsPerJob
  /\ balance - HeldPoints(s) - points >= Reserve
  /\ rows[s].status = "reserved" => rows[s].estimated = points

-----------------------------------------------------------------------------
SetStatus(s, status) == rows' = [rows EXCEPT ![s].status = status]

WriteReservation(s, f, points) ==
  rows' = [rows EXCEPT ![s] =
             [status |-> "reserved", fp |-> f, estimated |-> points, used |-> 0]]

MarkPostStarted(s) == rows[s].status = "reserved" /\ SetStatus(s, "post_started")

RecordGeneration(s) == rows[s].status = "post_started" /\ SetStatus(s, "generation_known")

MarkUnknown(s) == rows[s].status = "post_started" /\ SetStatus(s, "unknown")

\* Mutant of Release: a request whose charge is unknown may be released too.
ReleaseUnknown(s) == rows[s].status \in {"reserved", "unknown"} /\ SetStatus(s, "released")

\* release_known_uncharged: only a reservation that never entered POST.
Release(s) == rows[s].status = "reserved" /\ SetStatus(s, "released")

ReconcileCharge(s, points) ==
  /\ rows[s].status = "generation_known"
  /\ IF points > rows[s].estimated
       THEN /\ rows' = [rows EXCEPT ![s] = [@ EXCEPT
                          !.used = points, !.status = "complete_budget_violation"]]
            /\ circuit' = "open"
       ELSE /\ rows' = [rows EXCEPT ![s] = [@ EXCEPT
                          !.used = points, !.status = "charged_pending_materialization"]]
            /\ UNCHANGED circuit

CommitMaterialized(s) ==
  /\ rows[s].status = "charged_pending_materialization"
  /\ SetStatus(s, "complete")

RecordUpstreamFailure ==
  IF circuit = "open" THEN UNCHANGED <<circuit, failures>>
  ELSE /\ failures' = IF failures < 3 THEN failures + 1 ELSE 3
       /\ circuit' = IF failures' = 3 THEN "open" ELSE "closed"

RecordProviderSuccess ==
  /\ failures' = IF circuit = "closed" THEN 0 ELSE failures
  /\ UNCHANGED circuit
=============================================================================
