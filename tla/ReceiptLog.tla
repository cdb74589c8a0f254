------------------------------ MODULE ReceiptLog ------------------------------
(***************************************************************************)
(* What the private ledger of governed spatial renders promises: for every *)
(* composition, build and privacy scope a history of receipts that only    *)
(* grows, one receipt at a time, and only by a receipt the ledger's rules  *)
(* accept after the history so far.  SpatialLedger implements it with      *)
(* files that survive crashes; SpatialBuild relies on it.                  *)
(***************************************************************************)
EXTENDS Naturals, Sequences, Functions

CONSTANTS
  Composition, Build, Scope,  \* the keys of the three record families
  MaxAttempts                 \* authorization.maximum_provider_attempts

Key == Composition \cup Build \cup Scope

\* What the constants have to be.
AttemptBound == MaxAttempts \in Nat
FamiliesApart == Build \cap (Composition \cup Scope) = {}

VARIABLE log  \* per key: the receipts, oldest first

Newest(history) == history[Len(history)]

(***************************************************************************)
(* Build receipts.  A receipt names the request it answers, its state, the *)
(* attempt number, the quota digests it carries, whether it names an       *)
(* output, the operation it announces (pending_operation), the operation   *)
(* whose outcome it reports as unknown (operation_failure_evidence) and    *)
(* whether reconciliation is no longer required.                           *)
(***************************************************************************)
Blocked == "blocked"

Attempted ==
  {"attempt_committed", "charge_pending", "cancelled_reconciliation_pending"}

Consumed ==
  {"consumed", "closed_consumed", "compensation_pending", "compensated",
   "compensation_failed_blocked"}

Compensated == {"compensated", "compensation_failed_blocked"}

BuildStates ==
  {Blocked, "authorization_verified", "reservation_held", "released"}
    \cup Attempted \cup Consumed

AllowedTransitions == [s \in BuildStates |->
  CASE s = "authorization_verified" ->
         {"authorization_verified", "reservation_held", Blocked}
    [] s = "reservation_held" -> {"reservation_held", "released", "attempt_committed"}
    [] s = "attempt_committed" ->
         {"attempt_committed", "charge_pending", "cancelled_reconciliation_pending",
          "consumed", "released"}
    [] s = "charge_pending" ->
         {"attempt_committed", "released", "cancelled_reconciliation_pending", "consumed"}
    [] s = "cancelled_reconciliation_pending" -> {"released", "consumed"}
    [] s = "consumed" -> {"closed_consumed", "compensation_pending"}
    [] s = "compensation_pending" -> Compensated
    [] OTHER -> {}]

\* The quota digests a receipt in state s has to carry, and no others.
QuotaOf(s) ==
  CASE s \in {Blocked, "authorization_verified"} -> {}
    [] s \in {"reservation_held", "released"} -> {"reservation"}
    [] s \in Attempted -> {"reservation", "mutation"}
    [] s \in Consumed \ Compensated -> {"reservation", "mutation", "consumption"}
    [] s \in Compensated -> {"reservation", "mutation", "consumption", "compensation"}

\* validate_build_state_receipt without a prior receipt.
WellFormed(r) ==
  /\ r.state \in BuildStates
  /\ r.attempt \in 0..MaxAttempts
  /\ r.quota = QuotaOf(r.state)
  /\ r.attempt = 0 <=> r.state \notin Attempted \cup Consumed
  /\ r.state = "closed_consumed" => r.output
  /\ r.output => r.state \in {"consumed", "closed_consumed"}

\* ... and with one.
Follows(prior, r) ==
  /\ r.state \in AllowedTransitions[prior.state]
  /\ r.attempt >= prior.attempt

\* Two ways a receipt may repeat its predecessor's state: a release announced
\* where nothing was, and the unknown outcome of what was announced.
MayRepeat(prior, r) ==
  /\ ~r.settled
  /\ \/ r.state = "reservation_held" /\ prior.pending = "none" /\ r.pending = "release"
     \/ prior.pending # "none" /\ r.failed = prior.pending /\ r.pending = "none"

\* _save_build_transition: save_build brings the first receipt of a blocked build,
\* append_build_transition every other.
BuildAccepts(history, r) ==
  /\ WellFormed(r)
  /\ IF history = <<>>
     THEN r.state \in {Blocked, "authorization_verified"}
     ELSE LET prior == Newest(history) IN
          /\ r.req = prior.req
          /\ r.state = prior.state => MayRepeat(prior, r)
          /\ Follows(prior, r)

\* A composition is saved once per key; a privacy action once per material.
Accepts(k, history, r) ==
  \/ k \in Composition /\ history = <<>>
  \/ k \in Build /\ BuildAccepts(history, r)
  \/ k \in Scope /\ r \notin Range(history)
-----------------------------------------------------------------------------
LogInit == log = [k \in Key |-> <<>>]

Grows(k) ==
  LET r == Newest(log'[k]) IN
  /\ log'[k] # <<>>
  /\ Accepts(k, log[k], r)
  /\ log' = [log EXCEPT ![k] = Append(@, r)]

LogNext == \E k \in Key : Grows(k)

LogSpec == LogInit /\ [][LogNext]_log

\* Quota for which an attempt was committed is never recorded as given back, by
\* whatever way the build went on.
AttemptsNotReleased ==
  \A b \in Build : \A m, n \in DOMAIN log[b] :
    m < n /\ log[b][m].attempt > 0 => log[b][n].state # "released"
=============================================================================
