------------------------- MODULE BackgroundResponses -------------------------
(***************************************************************************)
(* Background responses of the responses API (api/routes/responses_back-   *)
(* ground_*.py, responses_persistence_runtime.py): a request stores a      *)
(* response "in_progress" and starts a worker thread for it; clients poll. *)
(* A poll fails a response past its deadline, and starts a new worker for  *)
(* one that has none (the process was restarted, the thread died).         *)
(* Workers are kept in a registry of the process; a response for which     *)
(* one is about to be registered is in `starting`.  Changes of a record    *)
(* are made under the transition lock, except the first; the registry has  *)
(* a lock of its own, held for each of the short sections below.  Records  *)
(* are in Postgres and outlive the process.                                *)
(***************************************************************************)
EXTENDS Naturals, FiniteSets

CONSTANTS
  Response,
  Caller,       \* request threads
  Worker,       \* worker threads; bounds how many there are at a time
  NoWorker,
  NoResponse,
  Timeout,      \* background_timeout_seconds; 0 is no deadline
  MaxTime,      \* bound on the clock
  MaxRestarts,  \* bound on restarts of the process
  Outages       \* whether threads may fail to start and answers to be stored

ASSUME TimesAreNumbers == Timeout \in Nat /\ MaxTime \in Nat
ASSUME RestartBound == MaxRestarts \in Nat
ASSUME OutagesOrNot == Outages \in BOOLEAN
ASSUME NoWorkerApart == NoWorker \notin Worker
ASSUME NoResponseApart == NoResponse \notin Response

VARIABLES
  record,       \* response_records
  caller,       \* per request thread: where it is, for which response and worker
  worker,       \* per worker thread: where it is, for which response
  registry,     \* _BACKGROUND_RESPONSE_WORKERS
  starting,     \* _BACKGROUND_RESPONSE_STARTING
  transition,   \* callers in the section of _BACKGROUND_RESPONSE_TRANSITION_LOCK
  known,        \* the responses whose id a client has
  generations,  \* per response: generations begun, two standing for more
  now,
  restarts

threads == <<caller, worker, registry, starting>>
vars == <<record, threads, transition, known, generations, now, restarts>>

\* A failed response carries its cause: an answer that failed, the deadline, or a
\* record without the request to replay.
Ended == {"completed", "failed", "timed_out", "unreplayable"}
Statuses == {"none", "in_progress"} \cup Ended

IdleCaller == [at |-> "idle", resp |-> NoResponse, worker |-> NoWorker]
IdleWorker == [at |-> "idle", resp |-> NoResponse]

InProgress(r) == record[r].status = "in_progress"

\* A record may be left by an earlier process, also without a background_job.
Init ==
  /\ record \in [Response -> [status : {"none"}, job : {TRUE}, created : {0}]
                              \cup [status : {"in_progress"}, job : BOOLEAN, created : {0}]]
  /\ caller = [c \in Caller |-> IdleCaller]
  /\ worker = [w \in Worker |-> IdleWorker]
  /\ registry = [r \in Response |-> NoWorker]
  /\ starting = {}
  /\ transition = {}
  /\ known = {r \in Response : InProgress(r)}
  /\ generations = [r \in Response |-> 0]
  /\ now = 0
  /\ restarts = 0

\* background_response_has_expired.
Expired(r) == Timeout > 0 /\ now >= record[r].created + Timeout

\* Thread.is_alive: a thread that was registered and not started is not alive.
Alive(w) == worker[w].at \in {"generating", "stored"}

\* cleanup_background_response_workers, at the head of every look at the registry.
Stale == {r \in Response : registry[r] # NoWorker /\ ~Alive(registry[r])}

Cleanup ==
  /\ registry' = [r \in Response |-> IF r \in Stale THEN NoWorker ELSE registry[r]]
  /\ starting' = starting \ Stale

HasLiveWorker(r) == r \in starting \ Stale \/ (registry[r] # NoWorker /\ r \notin Stale)

\* Mutant of ReleaseSlot: the worker is left in the registry.
ReleaseClaimOnly(r) == starting' = starting \ {r} /\ UNCHANGED registry

\* release_background_response_worker_slot, always called without the worker.
ReleaseSlot(r) ==
  /\ registry' = [registry EXCEPT ![r] = NoWorker]
  /\ starting' = starting \ {r}

SetStatus(r, s) == record' = [record EXCEPT ![r].status = s]
Unlocked == transition = {}
Return(c) ==
  /\ caller' = [caller EXCEPT ![c] = IdleCaller]
  /\ transition' = transition \ {c}

\* A bound, not a rule of the code: there is a worker thread left to start.
MayStart ==
  Cardinality({c \in Caller : caller[c].at \in {"claim", "register"}})
    < Cardinality({w \in Worker : worker[w].at = "idle"})

-----------------------------------------------------------------------------
(* Requests *)

\* _run_background_codex_response: the record, then the worker, without the lock.
Create(c, r) ==
  /\ caller[c] = IdleCaller
  /\ record[r].status = "none"
  /\ MayStart
  /\ now + Timeout <= MaxTime    \* a bound: its deadline is within the clock's
  /\ record' = [record EXCEPT ![r] = [status |-> "in_progress", job |-> TRUE, created |-> now]]
  /\ caller' = [caller EXCEPT ![c].at = "claim", ![c].resp = r]
  /\ UNCHANGED <<worker, registry, starting, transition, known, generations, now, restarts>>

\* load_response_for_runtime reads the record before it asks for the lock.  What is
\* read of a response that has ended is returned as it is.
Load(c, r) ==
  /\ caller[c] = IdleCaller
  /\ r \in known /\ InProgress(r)
  /\ caller' = [caller EXCEPT ![c].at = "loaded", ![c].resp = r]
  /\ UNCHANGED <<record, worker, registry, starting, transition, known, generations, now, restarts>>

Settle(c, s) == SetStatus(caller[c].resp, s) /\ Return(c)

\* Mutant of Decide: the deadline is not looked at.
DecideUndated(c) ==
  LET r == caller[c].resp IN
  /\ caller[c].at = "loaded" /\ Unlocked
  /\ Cleanup
  /\ \/ HasLiveWorker(r) /\ Return(c) /\ UNCHANGED record
     \/ ~HasLiveWorker(r) /\ ~record[r].job /\ Settle(c, "unreplayable")
     \/ /\ ~HasLiveWorker(r) /\ record[r].job /\ MayStart
        /\ SetStatus(r, "in_progress")
        /\ transition' = {c} /\ caller' = [caller EXCEPT ![c].at = "claim"]
  /\ UNCHANGED <<worker, known, generations, now, restarts>>

\* ensure_background_response_progress.  It goes by the status that was loaded: the
\* record may have ended since.
Decide(c) ==
  LET r == caller[c].resp IN
  /\ caller[c].at = "loaded"
  /\ Unlocked
  /\ \/ /\ Expired(r)
        /\ Settle(c, "timed_out")
        /\ UNCHANGED <<registry, starting>>
     \/ /\ ~Expired(r) /\ HasLiveWorker(r)
        /\ Cleanup
        /\ Return(c)
        /\ UNCHANGED record
     \/ /\ ~Expired(r) /\ ~HasLiveWorker(r) /\ ~record[r].job
        /\ Cleanup
        /\ Settle(c, "unreplayable")
     \/ /\ ~Expired(r) /\ ~HasLiveWorker(r) /\ record[r].job
        /\ MayStart
        /\ Cleanup
        /\ SetStatus(r, "in_progress")
        /\ transition' = {c}
        /\ caller' = [caller EXCEPT ![c].at = "claim"]
  /\ UNCHANGED <<worker, known, generations, now, restarts>>

-----------------------------------------------------------------------------
(* spawn_background_codex_worker *)

\* claim_background_response_worker_slot: refused where there is a worker already.  The
\* clean-up before it takes the lock on its own; a worker that ends in between releases
\* no more than its own entry, so the two are one step here.
Claim(c) ==
  LET r == caller[c].resp IN
  /\ caller[c].at = "claim"
  /\ \/ /\ HasLiveWorker(r)
        /\ Cleanup
        /\ Return(c)
     \/ /\ ~HasLiveWorker(r)
        /\ registry' = [q \in Response |-> IF q \in Stale THEN NoWorker ELSE registry[q]]
        /\ starting' = (starting \ Stale) \cup {r}
        /\ caller' = [caller EXCEPT ![c].at = "register"]
        /\ UNCHANGED transition
  /\ UNCHANGED <<record, worker, known, generations, now, restarts>>

\* register_background_response_worker, with a thread that is not started yet.
Register(c) ==
  LET r == caller[c].resp IN
  /\ caller[c].at = "register"
  /\ \E w \in Worker :
       /\ worker[w] = IdleWorker
       /\ worker' = [worker EXCEPT ![w] = [at |-> "made", resp |-> r]]
       /\ registry' = [registry EXCEPT ![r] = w]
       /\ caller' = [caller EXCEPT ![c].at = "start", ![c].worker = w]
  /\ starting' = starting \ {r}
  /\ UNCHANGED <<record, transition, known, generations, now, restarts>>

Start(c) ==
  LET w == caller[c].worker
      r == caller[c].resp IN
  /\ caller[c].at = "start"
  /\ worker' = [worker EXCEPT ![w].at = "generating"]
  /\ generations' = [generations EXCEPT ![r] = IF @ < 2 THEN @ + 1 ELSE @]
  /\ known' = known \cup {r}
  /\ Return(c)
  /\ UNCHANGED <<record, registry, starting, now, restarts>>

\* No thread can be started: the slot is given back and the request fails.
StartFails(c) ==
  /\ Outages
  /\ caller[c].at = "start"
  /\ worker' = [worker EXCEPT ![caller[c].worker] = IdleWorker]
  /\ ReleaseSlot(caller[c].resp)
  /\ Return(c)
  /\ UNCHANGED <<record, known, generations, now, restarts>>

-----------------------------------------------------------------------------
(* The worker *)

\* store_background_terminal_response: what the record says afterwards.
Stored(r, s) ==
  IF ~InProgress(r) THEN record[r].status ELSE IF Expired(r) THEN "timed_out" ELSE s

Finish(w, s) ==
  /\ worker[w].at = "generating"
  /\ Unlocked
  /\ SetStatus(worker[w].resp, Stored(worker[w].resp, s))
  /\ worker' = [worker EXCEPT ![w].at = "stored"]
  /\ UNCHANGED <<caller, registry, starting, transition, known, generations, now, restarts>>

\* The database refuses the answer and then the failure: the worker leaves nothing.
FinishUnstored(w) ==
  /\ Outages
  /\ worker[w].at = "generating"
  /\ Unlocked
  /\ worker' = [worker EXCEPT ![w].at = "stored"]
  /\ UNCHANGED <<record, caller, registry, starting, transition, known, generations, now, restarts>>

\* The finally clause; the slot of whichever worker is registered is released.
Release(w) ==
  /\ worker[w].at = "stored"
  /\ worker' = [worker EXCEPT ![w] = IdleWorker]
  /\ ReleaseSlot(worker[w].resp)
  /\ UNCHANGED <<record, caller, transition, known, generations, now, restarts>>

-----------------------------------------------------------------------------
Tick ==
  /\ now < MaxTime
  /\ now' = now + 1
  /\ UNCHANGED <<record, threads, transition, known, generations, restarts>>

Restart ==
  /\ restarts < MaxRestarts
  /\ restarts' = restarts + 1
  /\ caller' = [c \in Caller |-> IdleCaller]
  /\ worker' = [w \in Worker |-> IdleWorker]
  /\ registry' = [r \in Response |-> NoWorker]
  /\ starting' = {}
  /\ transition' = {}
  /\ UNCHANGED <<record, known, generations, now>>

Next ==
  \/ \E c \in Caller :
       \/ \E r \in Response : Create(c, r) \/ Load(c, r)
       \/ Decide(c) \/ Claim(c) \/ Register(c) \/ Start(c) \/ StartFails(c)
  \/ \E w \in Worker :
       \/ \E s \in {"completed", "failed"} : Finish(w, s)
       \/ FinishUnstored(w)
       \/ Release(w)
  \/ Tick
  \/ Restart

Spec == Init /\ [][Next]_vars

\* Request threads and workers run on, clients poll until a response has ended, and
\* the clock advances.
FairSpec ==
  /\ Spec
  /\ \A c \in Caller :
       /\ WF_vars(\E r \in Response : Load(c, r))
       /\ WF_vars(Decide(c) \/ Claim(c) \/ Register(c) \/ Start(c) \/ StartFails(c))
  /\ WF_vars(Tick)

\* Where there is no deadline, generations end and their answers can be stored.
FairWorkers ==
  /\ FairSpec
  /\ \A w \in Worker : SF_vars(\E s \in {"completed", "failed"} : Finish(w, s))
  /\ \A w \in Worker : WF_vars(Release(w))
  /\ \A c \in Caller : SF_vars(Start(c))

-----------------------------------------------------------------------------
(* Properties *)

TypeOK ==
  /\ record \in [Response -> [status : Statuses, job : BOOLEAN, created : Nat]]
  /\ caller \in [Caller -> [at : {"idle", "loaded", "claim", "register", "start"},
                            resp : Response \cup {NoResponse},
                            worker : Worker \cup {NoWorker}]]
  /\ worker \in [Worker -> [at : {"idle", "made", "generating", "stored"},
                            resp : Response \cup {NoResponse}]]
  /\ registry \in [Response -> Worker \cup {NoWorker}]
  /\ starting \subseteq Response
  /\ known \subseteq Response
  /\ transition \subseteq Caller
  /\ generations \in [Response -> 0..2]
  /\ now \in Nat
  /\ restarts \in Nat

\* A response counts as about to have a worker only while a request thread is about to
\* register one: a claim left behind would keep every poll from starting a worker.
ClaimHeld ==
  \A r \in starting : \E c \in Caller : caller[c].at = "register" /\ caller[c].resp = r

\* A registered worker is a thread of that response that has not ended, whatever
\* order workers of one response are registered and released in.
RegisteredRuns ==
  \A r \in Response :
    registry[r] # NoWorker =>
      /\ worker[registry[r]].resp = r
      /\ worker[registry[r]].at # "idle"

\* A response that failed at its deadline stays failed, however late an answer comes
\* and however old the record is that a poll goes by.
TimeoutIsFinal ==
  [][\A r \in Response :
       record[r].status = "timed_out" => record'[r].status = "timed_out"]_vars

\* No answer is given out after the deadline of its response.
AnsweredInTime ==
  [][\A r \in Response :
       record'[r].status = "completed" /\ record[r].status # "completed" => ~Expired(r)]_vars

\* Slots are given back on every way out: a claim belongs to a caller that goes on to
\* use it, and the registry names live threads.
SlotsAccounted == ClaimHeld /\ RegisteredRuns

\* The deadline decides: an answer is in time, or it is not given out.
DeadlineKept == TimeoutIsFinal /\ AnsweredInTime

\* Without a deadline too a response that is polled ends, through restarts, threads
\* that do not start and answers that cannot be stored.
Concludes ==
  \A r \in Response : r \in known /\ InProgress(r) ~> record[r].status \in Ended

\* What a test says of polls: "resume_spawns_only_one_worker_for_concurrent_polls".
\* Not kept by the code: README.md, "Departures from the documents".
GeneratedOnce == \A r \in Response : generations[r] <= 1

\* What claiming a slot is for: no two workers generate one response.
\* Not kept by the code: README.md, "Departures from the documents".
OneAtATime ==
  \A v, w \in Worker :
    worker[v].at = "generating" /\ worker[w].at = "generating"
      /\ worker[v].resp = worker[w].resp => v = w
=============================================================================
