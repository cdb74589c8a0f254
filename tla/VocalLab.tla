------------------------------ MODULE VocalLab ------------------------------
(***************************************************************************)
(* VocalLabProvider.synthesize over the points ledger: worker processes    *)
(* that may stop at any point, the provider behind a network, and a        *)
(* process that only observes the account (verify_capability), which takes *)
(* part in the pace of requests and in the circuit breaker but not in the  *)
(* provider lock.  One action per transaction or request.                  *)
(*                                                                         *)
(* As shipped, _require_spending_balance_partition refuses every spend;    *)
(* PartitionVerified is TRUE where it is replaced, as in the tests.        *)
(***************************************************************************)
EXTENDS BudgetLedger

CONSTANTS
  Worker,    \* processes that call synthesize
  Observer,  \* processes that call verify_capability
  Request,   \* calls that may be made
  Nobody, NoRequest,
  SlotOf, FpOf,       \* per request
  Estimate,           \* estimate_points, per fingerprint
  StartBalance,
  Overrun,            \* bound: points the provider may charge beyond an estimate
  MaxFaults,          \* bound: transactions that fail after a POST
  PartitionVerified

Process == Worker \cup Observer

VocalLabAssumption ==
  /\ BudgetAssumption
  /\ SlotOf \in [Request -> Slot]
  /\ FpOf \in [Request -> Fp]
  /\ Estimate \in [Fp -> Nat \ {0}]
  /\ {StartBalance, Overrun, MaxFaults} \subseteq Nat
  /\ Nobody \notin Process
  /\ NoRequest \notin Request
  /\ Worker \cap Observer = {}
  /\ PartitionVerified \in BOOLEAN

VARIABLES
  lock,    \* provider_account_lock: its holder
  at,      \* per process: where it is
  req,     \* per worker: the request it serves
  balance, \* the points of the account, at the provider
  seen,    \* per worker: the balance it read
  order,   \* per fingerprint: the provider's side of the request
  cost,    \* per fingerprint: points charged
  posts,   \* history: POSTs sent, per fingerprint
  limited, \* history: requests refused by the local rate limit, which promises a retry
  faults

vars == <<ledgerVars, lock, at, req, balance, seen, order, cost, posts, limited, faults>>

provider == <<balance, order, cost>>

Places ==
  {"idle", "find", "balance", "reserve", "start", "post_pace", "post_sleep",
   "post_again", "post", "reply", "post_failed", "unknown", "record", "recorded",
   "poll_pace", "poll_sleep", "poll_again", "poll", "poll_failed", "polled",
   "settle", "materialize", "commit", "returned"}

Init ==
  /\ LedgerInit
  /\ lock = Nobody
  /\ at = [p \in Process |-> "idle"]
  /\ req = [w \in Worker |-> NoRequest]
  /\ balance = StartBalance
  /\ seen = [w \in Worker |-> 0]
  /\ order = [f \in Fp |-> "none"]
  /\ cost = [f \in Fp |-> 0]
  /\ posts = [f \in Fp |-> 0]
  /\ limited = {}
  /\ faults = 0

\* Where a request waits for its turn: to be posted, or to be polled.
PaceAt == [post |-> "post_pace", poll |-> "poll_pace"]
SleepAt == [post |-> "post_sleep", poll |-> "poll_sleep"]
AgainAt == [post |-> "post_again", poll |-> "poll_again"]

slot(w) == SlotOf[req[w]]
fp(w) == FpOf[req[w]]

Go(p, place) == at' = [at EXCEPT ![p] = place]

\* An exception, or the result: the locks are released.
Finish(w) ==
  /\ Go(w, "idle")
  /\ lock' = Nobody
  /\ req' = [req EXCEPT ![w] = NoRequest]

\* A step that stays inside the call.
Within(p, from, to) == at[p] = from /\ Go(p, to) /\ UNCHANGED <<lock, req>>

-----------------------------------------------------------------------------
(* Admission *)

Begin(w, r) ==
  /\ at[w] = "idle" /\ lock = Nobody
  /\ lock' = w
  /\ req' = [req EXCEPT ![w] = r]
  /\ Go(w, "find")
  /\ UNCHANGED <<ledgerVars, provider, seen, posts, limited, faults>>

Find(w) ==
  /\ at[w] = "find"
  /\ \/ FindsResumable(slot(w), fp(w)) /\ Within(w, "find", "poll_pace")
     \/ FindsNone(slot(w), fp(w)) /\ Within(w, "find", "balance")
     \/ /\ ~FindsResumable(slot(w), fp(w)) /\ ~FindsNone(slot(w), fp(w))
        /\ Finish(w)
  /\ UNCHANGED <<ledgerVars, provider, seen, posts, limited, faults>>

ReadBalance(w) ==
  /\ at[w] = "balance"
  /\ IF PartitionVerified
       THEN seen' = [seen EXCEPT ![w] = balance] /\ Within(w, "balance", "reserve")
       ELSE Finish(w) /\ UNCHANGED seen
  /\ UNCHANGED <<ledgerVars, provider, posts, limited, faults>>

ReservePoints(w) ==
  /\ at[w] = "reserve"
  /\ LET points == Estimate[fp(w)]
     IN IF Reservable(slot(w), fp(w), points, seen[w])
          THEN /\ IF rows[slot(w)].status = "reserved" THEN UNCHANGED rows
                  ELSE WriteReservation(slot(w), fp(w), points)
               /\ Within(w, "reserve", "start")
          ELSE Finish(w) /\ UNCHANGED rows
  /\ UNCHANGED <<circuit, failures, quiet, provider, seen, posts, limited, faults>>

StartPost(w) ==
  /\ at[w] = "start"
  /\ MarkPostStarted(slot(w))
  /\ Within(w, "start", "post_pace")
  /\ UNCHANGED <<circuit, failures, quiet, provider, seen, posts, limited, faults>>

-----------------------------------------------------------------------------
(* The pace of requests: wait once for the interval, then give up *)

Pace(p, purpose) ==
  /\ at[p] \in {PaceAt[purpose], AgainAt[purpose]}
  /\ quiet
  /\ quiet' = FALSE
  /\ Within(p, at[p], purpose)
  /\ UNCHANGED <<rows, circuit, failures, provider, seen, posts, limited, faults>>

Wait(p, purpose) ==
  /\ ~quiet
  /\ Within(p, PaceAt[purpose], SleepAt[purpose])
  /\ UNCHANGED <<ledgerVars, provider, seen, posts, limited, faults>>

\* The second refusal leaves the request with a retryable error.
GiveUp(p, purpose) ==
  /\ at[p] = AgainAt[purpose]
  /\ ~quiet
  /\ \/ p \in Worker /\ purpose = "post" /\ Within(p, at[p], "unknown")
     \/ p \in Worker /\ purpose = "poll" /\ Finish(p)
     \/ p \in Observer /\ Within(p, at[p], "idle")
  /\ limited' = IF p \in Worker THEN limited \cup {req[p]} ELSE limited
  /\ UNCHANGED <<ledgerVars, provider, seen, posts, faults>>

\* The interval passes; whoever slept for it wakes up.
Tick ==
  /\ ~quiet
  /\ quiet' = TRUE
  /\ at' = [p \in Process |-> CASE at[p] = "post_sleep" -> "post_again"
                                [] at[p] = "poll_sleep" -> "poll_again"
                                [] OTHER -> at[p]]
  /\ UNCHANGED <<rows, circuit, failures, lock, req, provider, seen, posts, limited, faults>>

-----------------------------------------------------------------------------
(* The POST and the provider *)

Post(w) ==
  /\ Within(w, "post", "reply")
  /\ posts' = [posts EXCEPT ![fp(w)] = @ + 1]
  /\ order' = [order EXCEPT ![fp(w)] = IF @ = "none" THEN "sent" ELSE @]
  /\ UNCHANGED <<ledgerVars, balance, cost, seen, limited, faults>>

\* The request arrives, or never does, whether or not the caller still waits.
Charge(f) ==
  /\ order[f] = "sent"
  /\ \E points \in 1..(Estimate[f] + Overrun) :
       /\ points <= balance
       /\ cost' = [cost EXCEPT ![f] = points]
       /\ balance' = balance - points
  /\ order' = [order EXCEPT ![f] = "charged"]
  /\ UNCHANGED <<ledgerVars, lock, at, req, seen, posts, limited, faults>>

Drop(f) ==
  /\ order[f] = "sent"
  /\ order' = [order EXCEPT ![f] = "dropped"]
  /\ UNCHANGED <<ledgerVars, lock, at, req, balance, cost, seen, posts, limited, faults>>

\* A usable answer needs an accepted request; an error may come for any.
Reply(w) ==
  /\ at[w] = "reply"
  /\ \/ order[fp(w)] \in {"sent", "charged"} /\ Within(w, "reply", "record")
     \/ Within(w, "reply", "post_failed")
     \/ Within(w, "reply", "unknown")
  /\ UNCHANGED <<ledgerVars, provider, seen, posts, limited, faults>>

\* upstream_unavailable is recorded before the request is marked unknown.
PostFailed(w) ==
  /\ Within(w, "post_failed", "unknown")
  /\ RecordUpstreamFailure
  /\ UNCHANGED <<rows, quiet, provider, seen, posts, limited, faults>>

\* mark_unknown; a ledger that cannot be written then is ignored.
GiveUpPost(w) ==
  /\ at[w] = "unknown"
  /\ \/ MarkUnknown(slot(w)) /\ UNCHANGED faults
     \/ rows[slot(w)].status # "post_started" /\ UNCHANGED <<rows, faults>>
     \/ faults < MaxFaults /\ faults' = faults + 1 /\ UNCHANGED rows
  /\ Finish(w)
  /\ UNCHANGED <<circuit, failures, quiet, provider, seen, posts, limited>>

Record(w) ==
  /\ at[w] = "record"
  /\ \/ /\ RecordGeneration(slot(w))
        /\ Within(w, "record", "recorded")
        /\ UNCHANGED faults
     \/ /\ faults < MaxFaults /\ faults' = faults + 1
        /\ Within(w, "record", "unknown")
        /\ UNCHANGED rows
  /\ UNCHANGED <<circuit, failures, quiet, provider, seen, posts, limited>>

\* The answer carries the audio and its points, is pending, or is a failure.
Answered(w, from) ==
  /\ at[w] = from
  /\ RecordProviderSuccess
  /\ \/ order[fp(w)] = "charged" /\ Within(w, from, "settle")
     \/ Within(w, from, "poll_pace")
     \/ Finish(w)
  /\ UNCHANGED <<rows, quiet, provider, seen, posts, limited, faults>>

Recorded(w) == Answered(w, "recorded")

\* The success cannot be recorded: the handler finds the generation known.
RecordedFails(w) ==
  /\ faults < MaxFaults /\ faults' = faults + 1
  /\ Within(w, "recorded", "unknown")
  /\ UNCHANGED <<ledgerVars, provider, seen, posts, limited>>

-----------------------------------------------------------------------------
(* Polling and settling *)

\* An answer, an outage, or an error that is neither.
Poll(w) ==
  /\ at[w] = "poll"
  /\ \/ Within(w, "poll", "polled")
     \/ Within(w, "poll", "poll_failed")
     \/ Finish(w)
  /\ UNCHANGED <<ledgerVars, provider, seen, posts, limited, faults>>

PollFailed(w) ==
  /\ at[w] = "poll_failed"
  /\ RecordUpstreamFailure
  /\ Finish(w)
  /\ UNCHANGED <<rows, quiet, provider, seen, posts, limited, faults>>

\* Any answer counts as a success, a pending one too; it is asked again until
\* the poll times out.
Polled(w) == Answered(w, "polled")

\* A charge that was settled before is only compared.
Settle(w) ==
  /\ at[w] = "settle"
  /\ LET s == slot(w)
         points == cost[fp(w)]
     IN \/ /\ rows[s].status = "charged_pending_materialization"
           /\ IF rows[s].used = points THEN Within(w, "settle", "materialize") ELSE Finish(w)
           /\ UNCHANGED <<rows, circuit>>
        \/ /\ ReconcileCharge(s, points)
           /\ IF points > rows[s].estimated THEN Finish(w) ELSE Within(w, "settle", "materialize")
  /\ UNCHANGED <<failures, quiet, provider, seen, posts, limited, faults>>

\* Audio that does not validate leaves the charge pending.
Materialize(w) ==
  /\ at[w] = "materialize"
  /\ Within(w, "materialize", "commit") \/ Finish(w)
  /\ UNCHANGED <<ledgerVars, provider, seen, posts, limited, faults>>

Commit(w) ==
  /\ Within(w, "commit", "returned")
  /\ CommitMaterialized(slot(w))
  /\ UNCHANGED <<circuit, failures, quiet, provider, seen, posts, limited, faults>>

Return(w) ==
  /\ at[w] = "returned"
  /\ Finish(w)
  /\ UNCHANGED <<ledgerVars, provider, seen, posts, limited, faults>>

-----------------------------------------------------------------------------
(* The observing process, the release of a reservation, and crashes *)

Observe(o) ==
  /\ Within(o, "idle", "poll_pace") /\ o \in Observer
  /\ UNCHANGED <<ledgerVars, provider, seen, posts, limited, faults>>

\* Any other answer than success or an outage changes no shared state.
Observed(o) ==
  /\ Within(o, "poll", "idle") /\ o \in Observer
  /\ RecordProviderSuccess \/ RecordUpstreamFailure
  /\ UNCHANGED <<rows, quiet, provider, seen, posts, limited, faults>>

\* Nothing in src/ calls it between the steps of a request.
ReleaseReservation(s) ==
  /\ lock = Nobody
  /\ Release(s)
  /\ UNCHANGED <<circuit, failures, quiet, lock, at, req, provider, seen, posts, limited, faults>>

\* The file lock goes with the process that held it.
Crash(w) ==
  /\ at[w] # "idle"
  /\ Finish(w)
  /\ UNCHANGED <<ledgerVars, provider, seen, posts, limited, faults>>

Next ==
  \/ \E w \in Worker :
       \/ \E r \in Request : Begin(w, r)
       \/ Find(w) \/ ReadBalance(w) \/ ReservePoints(w) \/ StartPost(w)
       \/ Post(w) \/ Reply(w) \/ PostFailed(w) \/ GiveUpPost(w)
       \/ Record(w) \/ Recorded(w) \/ RecordedFails(w)
       \/ Poll(w) \/ PollFailed(w) \/ Polled(w)
       \/ Settle(w) \/ Materialize(w) \/ Commit(w) \/ Return(w) \/ Crash(w)
  \/ \E p \in Process, purpose \in {"post", "poll"} :
       Pace(p, purpose) \/ Wait(p, purpose) \/ GiveUp(p, purpose)
  \/ \E o \in Observer : Observe(o) \/ Observed(o)
  \/ \E f \in Fp : Charge(f) \/ Drop(f)
  \/ \E s \in Slot : ReleaseReservation(s)
  \/ Tick

Spec == Init /\ [][Next]_vars

-----------------------------------------------------------------------------
TypeOK ==
  /\ LedgerTypeOK
  /\ lock \in Worker \cup {Nobody}
  /\ at \in [Process -> Places]
  /\ req \in [Worker -> Request \cup {NoRequest}]
  /\ balance \in Int
  /\ seen \in [Worker -> Int]
  /\ order \in [Fp -> {"none", "sent", "charged", "dropped"}]
  /\ cost \in [Fp -> Nat]
  /\ posts \in [Fp -> Nat]
  /\ limited \subseteq Request
  /\ faults \in Nat

\* A request is paid for once: whatever crashes, retries, lost answers and
\* other keys or jobs it is asked for under, at most one POST ever leaves for
\* one fingerprint.
PostedOnce == \A f \in Fp : posts[f] <= 1

Overruns == \E f \in Fp : cost[f] > Estimate[f]

\* However late the provider charges what was sent, the account never falls
\* below its reserve, unless the provider charges more than was estimated.
ReserveKept == balance >= Reserve \/ Overruns

\* What the provider charged for a job, settled or not, stays within the
\* ceiling of the job, unless the provider overran.
JobCeilingKept ==
  \A j \in Job :
    LET live == {s \in Slot : JobOf[s] = j /\ rows[s].status \notin {"absent", "released"}}
    IN SumOver(live, LAMBDA s : cost[rows[s].fp]) <= MaxPointsPerJob \/ Overruns

\* No charge is forgotten: a fingerprint the provider was asked for keeps a
\* reservation that is neither released nor about to be posted.
ChargesRemembered ==
  \A f \in Fp : order[f] # "none" =>
    \E s \in Slot : /\ rows[s].fp = f
                    /\ rows[s].status \notin {"absent", "reserved", "released"}

\* A reservation that ended ambiguous freezes the account: while there is one,
\* nothing is posted.
UnknownFreezes ==
  [][\A f \in Fp : posts'[f] # posts[f] =>
       \A s \in Slot : rows[s].status # "unknown"]_vars

\* A request refused by the local rate limit was not sent and may be tried
\* again, so it must not leave the account frozen.
\* Not kept by the code: README.md, "Departures from the documents".
RateLimitIsRetryable ==
  \A r \in limited : posts[FpOf[r]] = 0 => rows[SlotOf[r]].status # "unknown"

\* A fingerprint seen from outside: the reservation that stands for it.
Stands(f, statuses) == \E s \in Slot : rows[s].fp = f /\ rows[s].status \in statuses

Stage(f) ==
  IF Stands(f, {"unknown", "complete_budget_violation"}) THEN "frozen"
  ELSE IF Stands(f, {"complete"}) THEN "delivered"
  ELSE IF Stands(f, {"post_started", "generation_known", "charged_pending_materialization"})
    THEN "ordered"
  ELSE "open"

\* The ledger implements a purchase per fingerprint: it is ordered once, under
\* whatever keys it is asked for, and an ambiguous end stops further orders, on
\* the wire too.
Ordering == INSTANCE Purchase WITH Item <- Fp, stage <- [f \in Fp |-> Stage(f)]

ImplementsPurchase == Ordering!PurchaseSpec /\ UnknownFreezes
=============================================================================
