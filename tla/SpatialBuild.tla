----------------------------- MODULE SpatialBuild -----------------------------
(***************************************************************************)
(* GovernedSpatialRenderOrchestrator.build of                              *)
(* services/governed_spatial_render.py, over the histories of ReceiptLog:  *)
(* a build reserves quota, commits an attempt, has it executed, consumes   *)
(* the quota, passes a quality gate or is compensated.  Each operation is  *)
(* announced in a receipt, then called, then its outcome is recorded in    *)
(* the next receipt.  Several workers may be asked for the same build, and *)
(* any of them may die between two of these steps; callers ask again.      *)
(* Privacy actions put tombstones on a composition at any time.            *)
(***************************************************************************)
EXTENDS Naturals, Sequences, FiniteSets, ReceiptLog

CONSTANTS
  Worker,
  Request,    \* build_request_digests: authorization and evidence of a call
  ScopeOf,    \* [Build -> Scope]: the composition a build renders
  Material,   \* the privacy actions there may be
  NoBuild,
  MaxCrashes  \* bound on deaths

BuildAssumption ==
  /\ AttemptBound /\ FamiliesApart
  /\ ScopeOf \in [Build -> Scope]
  /\ Composition = {}
  /\ MaxCrashes \in Nat

Operations ==
  {"reserve", "commit_attempt", "execute", "consume", "quality_gate", "compensate"}

VARIABLES
  pc,       \* per worker: "idle", "check", "block", "admit", "call", "record"
  build,    \* per worker: the build it was asked for
  request,  \* per worker: with which request
  latest,   \* per worker: the last receipt it wrote
  answer,   \* per worker: what the operation answered
  calls,    \* per build and operation: how often it was called
  took,     \* per build: the operations that took effect outside
  crashes

work == <<pc, build, request, latest, answer>>
vars == <<log, work, calls, took, crashes>>

NoReceipt ==
  [req |-> NoBuild, state |-> "none", attempt |-> 0, quota |-> {}, output |-> FALSE,
   pending |-> "none", failed |-> "none", settled |-> FALSE]

Answers == {"none", "ok", "declined", "error"}

Init ==
  /\ LogInit
  /\ pc = [w \in Worker |-> "idle"]
  /\ build = [w \in Worker |-> NoBuild]
  /\ request = [w \in Worker |-> NoBuild]
  /\ latest = [w \in Worker |-> NoReceipt]
  /\ answer = [w \in Worker |-> "none"]
  /\ calls = [b \in Build |-> [op \in Operations |-> 0]]
  /\ took = [b \in Build |-> {}]
  /\ crashes = 0

Tombstoned(b) == log[ScopeOf[b]] # <<>>

Write(k, r) == log' = [log EXCEPT ![k] = Append(@, r)]
Go(w, place) == pc' = [pc EXCEPT ![w] = place]

\* The call returns, or its worker dies; what it held in memory is gone.
Leave(w) ==
  /\ Go(w, "idle")
  /\ build' = [build EXCEPT ![w] = NoBuild]
  /\ request' = [request EXCEPT ![w] = NoBuild]
  /\ latest' = [latest EXCEPT ![w] = NoReceipt]
  /\ answer' = [answer EXCEPT ![w] = "none"]

-----------------------------------------------------------------------------
(* Admission *)

\* find_build: a build there is already is replayed, or conflicts; either way the
\* call ends, so only the first request for a key goes on.
Ask(w, b, q) ==
  /\ pc[w] = "idle"
  /\ log[b] = <<>>
  /\ Go(w, "check")
  /\ build' = [build EXCEPT ![w] = b]
  /\ request' = [request EXCEPT ![w] = q]
  /\ UNCHANGED <<log, latest, answer, calls, took, crashes>>

\* privacy_status, then the evidence, which may be good or not.
Check(w) ==
  /\ pc[w] = "check"
  /\ \/ Go(w, "block")
     \/ ~Tombstoned(build[w]) /\ Go(w, "admit")
  /\ UNCHANGED <<log, build, request, latest, answer, calls, took, crashes>>

BlockedReceipt(q) ==
  [NoReceipt EXCEPT !.req = q, !.state = Blocked, !.settled = TRUE]

VerifiedReceipt(q) ==
  [NoReceipt EXCEPT !.req = q, !.state = "authorization_verified", !.pending = "reserve"]

\* Mutant of Block: the blocked receipt is added to what is there.
BlockAlways(w) ==
  /\ pc[w] = "block"
  /\ Write(build[w], BlockedReceipt(request[w]))
  /\ Leave(w)
  /\ UNCHANGED <<calls, took, crashes>>

\* save_build keeps what another worker wrote meanwhile, and returns that.
Block(w) ==
  /\ pc[w] = "block"
  /\ IF log[build[w]] = <<>>
     THEN Write(build[w], BlockedReceipt(request[w]))
     ELSE UNCHANGED log
  /\ Leave(w)
  /\ UNCHANGED <<calls, took, crashes>>

\* Mutant of Admit: the reservation is asked for before the receipt is written.
AdmitUnrecorded(w) ==
  /\ pc[w] = "admit"
  /\ Accepts(build[w], log[build[w]], VerifiedReceipt(request[w]))
  /\ latest' = [latest EXCEPT ![w] = VerifiedReceipt(request[w])]
  /\ Go(w, "call")
  /\ UNCHANGED <<log, build, request, answer, calls, took, crashes>>

\* append_build_transition refuses a second first receipt: the call is a replay.
Admit(w) ==
  /\ pc[w] = "admit"
  /\ LET r == VerifiedReceipt(request[w]) IN
       IF Accepts(build[w], log[build[w]], r)
       THEN /\ Write(build[w], r)
            /\ latest' = [latest EXCEPT ![w] = r]
            /\ Go(w, "call")
            /\ UNCHANGED <<build, request, answer>>
       ELSE Leave(w) /\ UNCHANGED log
  /\ UNCHANGED <<calls, took, crashes>>

-----------------------------------------------------------------------------
(* Operations *)

\* The adapter is called.  What it answers with success took effect; what it
\* answers with an error may have.  It may decline to execute or to compensate,
\* and the gate may decline to pass, without an error.
Call(w, a) ==
  /\ pc[w] = "call"
  /\ LET b == build[w]  op == latest[w].pending IN
       /\ a = "declined" => op \in {"execute", "quality_gate", "compensate"}
       /\ calls' = [calls EXCEPT ![b][op] = @ + 1]
       /\ \/ a # "declined" /\ took' = [took EXCEPT ![b] = @ \cup {op}]
          \/ a # "ok" /\ UNCHANGED took
  /\ answer' = [answer EXCEPT ![w] = a]
  /\ Go(w, "record")
  /\ UNCHANGED <<log, build, request, latest, crashes>>

\* _transition: the receipt in a new state, announcing op.
Announce(r, state, op) ==
  [r EXCEPT !.state = state, !.quota = QuotaOf(state), !.pending = op]

\* Mutant of Unknown: what was announced stays announced.
UnknownStillPending(r, state) == [r EXCEPT !.state = state, !.failed = r.pending]

\* ... and after an unknown outcome, in the state that holds then.
Unknown(r, state) ==
  [r EXCEPT !.state = state, !.pending = "none", !.failed = r.pending]

\* Mutant of Cancelled: an attempt that was declined needs no reconciliation.
CancelledSettled(r) ==
  [r EXCEPT !.state = "cancelled_reconciliation_pending", !.pending = "none",
            !.settled = TRUE]

Cancelled(r) == [r EXCEPT !.state = "cancelled_reconciliation_pending", !.pending = "none"]

\* The receipt that records answer a to the operation r announces.
Recorded(r, a) ==
  CASE r.pending = "reserve" ->
         IF a = "ok" THEN Announce(r, "reservation_held", "commit_attempt")
                     ELSE Unknown(r, "authorization_verified")
    [] r.pending = "commit_attempt" ->
         IF a = "ok" THEN [Announce(r, "attempt_committed", "execute") EXCEPT !.attempt = 1]
                     ELSE Unknown(r, "reservation_held")
    [] r.pending = "execute" ->
         IF a = "ok" THEN Announce(r, "charge_pending", "consume")
         ELSE IF a = "declined" THEN Cancelled(r)
         ELSE Unknown(r, "cancelled_reconciliation_pending")
    [] r.pending = "consume" ->
         IF a = "ok" THEN [Announce(r, "consumed", "quality_gate") EXCEPT !.output = TRUE]
                     ELSE Unknown(r, "cancelled_reconciliation_pending")
    [] r.pending = "quality_gate" ->
         IF a = "ok" THEN [Announce(r, "closed_consumed", "none") EXCEPT !.settled = TRUE]
         ELSE [Announce(r, "compensation_pending", "compensate") EXCEPT !.output = FALSE]
    [] r.pending = "compensate" ->
         IF a = "ok" THEN [Announce(r, "compensated", "none") EXCEPT !.settled = TRUE]
                     ELSE Announce(r, "compensation_failed_blocked", "none")

\* The ledger takes it (it would raise otherwise), and the worker goes on with the
\* operation the receipt announces, or returns.
Record(w) ==
  /\ pc[w] = "record"
  /\ LET r == Recorded(latest[w], answer[w]) IN
       /\ Accepts(build[w], log[build[w]], r)
       /\ Write(build[w], r)
       /\ \/ r.pending = "none" /\ Leave(w)
          \/ /\ r.pending # "none"
             /\ Go(w, "call")
             /\ latest' = [latest EXCEPT ![w] = r]
             /\ answer' = [answer EXCEPT ![w] = "none"]
             /\ UNCHANGED <<build, request>>
  /\ UNCHANGED <<calls, took, crashes>>

\* record_privacy_action: a composition is revoked, withdrawn or deleted.
RecordPrivacy(s, m) ==
  /\ Accepts(s, log[s], m)
  /\ Write(s, m)
  /\ UNCHANGED <<work, calls, took, crashes>>

\* A worker dies; its caller may ask again.
Crash(w) ==
  /\ pc[w] # "idle" /\ crashes < MaxCrashes
  /\ crashes' = crashes + 1
  /\ Leave(w)
  /\ UNCHANGED <<log, calls, took>>

Work(w) == Check(w) \/ Block(w) \/ Admit(w) \/ Record(w)
             \/ \E a \in Answers \ {"none"} : Call(w, a)

Next ==
  \/ \E w \in Worker :
       Work(w) \/ Crash(w) \/ \E b \in Build, q \in Request : Ask(w, b, q)
  \/ \E s \in Scope, m \in Material : RecordPrivacy(s, m)

Spec == Init /\ [][Next]_vars

\* A call runs on; adapters answer.
FairSpec == Spec /\ \A w \in Worker : WF_vars(Work(w))

-----------------------------------------------------------------------------
(* Cancellation: what cancel does with the newest receipt r of a build. *)

CancelOutcome(r) ==
  CASE r.state \in {Blocked, "released"} \cup Compensated -> "replay"
    [] r.state \notin {Blocked, "released"} \cup Compensated /\ ~r.settled -> "replay"
    [] r.settled /\ r.state = "reservation_held" -> "release"
    [] r.settled /\ r.state \in {"attempt_committed", "charge_pending"} -> "reconcile"
    [] OTHER -> "raise"
-----------------------------------------------------------------------------
TypeOK ==
  /\ \A b \in Build : \A n \in DOMAIN log[b] : WellFormed(log[b][n])
  /\ \A s \in Scope : Range(log[s]) \subseteq Material
  /\ pc \in [Worker -> {"idle", "check", "block", "admit", "call", "record"}]
  /\ build \in [Worker -> Build \cup {NoBuild}]
  /\ request \in [Worker -> Request \cup {NoBuild}]
  /\ answer \in [Worker -> Answers]
  /\ calls \in [Build -> [Operations -> Nat]]
  /\ took \in [Build -> SUBSET Operations]

\* However many workers are asked for a build, and however often after a crash, no
\* operation on its quota is called twice.
CalledOnce == \A b \in Build, op \in Operations : calls[b][op] <= 1

\* Nothing is called before the ledger says that it will be: after any crash the
\* announced operations include all that may have taken effect.
Announced ==
  \A b \in Build, op \in Operations :
    calls[b][op] > 0 => \E n \in DOMAIN log[b] : log[b][n].pending = op

\* A build that no longer asks for reconciliation leaves nothing open outside: it was
\* blocked before anything was called, or it consumed its quota and passed, or it gave
\* back what it consumed.
SettledMeansSettled ==
  \A b \in Build :
    log[b] # <<>> /\ Newest(log[b]).settled =>
      \/ Newest(log[b]).state = Blocked /\ took[b] = {}
      \/ Newest(log[b]).state = "closed_consumed" /\ {"reserve", "consume"} \subseteq took[b]
      \/ Newest(log[b]).state = "compensated" /\ {"consume", "compensate"} \subseteq took[b]

\* Every answer fits into the history: the ledger never refuses the receipt of a
\* worker that has called something, so the outcome is not lost.
Recordable ==
  \A w \in Worker : pc[w] = "record" =>
    Accepts(build[w], log[build[w]], Recorded(latest[w], answer[w]))

\* Every build comes to a receipt that announces nothing more, unless a worker died.
Concludes ==
  \A b \in Build :
    log[b] # <<>> ~> (log[b] # <<>> /\ Newest(log[b]).pending = "none") \/ crashes > 0

\* The tombstone's build_allowed = False: once a composition has one, no build of it
\* is executed any more.
\* Not kept by the code: README.md, "Departures from the documents".
TombstoneStopsExecution ==
  [][\A b \in Build : Tombstoned(b) => calls'[b]["execute"] = calls[b]["execute"]]_vars

\* _ALLOWED_TRANSITIONS lets a cancelled attempt that was not charged be released.
\* Not kept by the code: README.md, "Departures from the documents".
CancelledReleasable ==
  \A b \in Build :
    log[b] # <<>> /\ Newest(log[b]).state = "cancelled_reconciliation_pending" =>
      \E n \in 0..MaxAttempts, settled \in BOOLEAN :
        Accepts(b, log[b],
          [Newest(log[b]) EXCEPT !.state = "released", !.attempt = n,
                                 !.quota = QuotaOf("released"), !.settled = settled])

\* cancel gives a reservation back that no attempt was committed for.
\* Not kept by the code: README.md, "Departures from the documents".
CancelReleasesHeld ==
  \A b \in Build :
    log[b] # <<>> /\ Newest(log[b]).state = "reservation_held" =>
      CancelOutcome(Newest(log[b])) = "release"

\* The receipts of a run are a history the ledger accepts.
KeepsReceiptLog == LogSpec
=============================================================================
