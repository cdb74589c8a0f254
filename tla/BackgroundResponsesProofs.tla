---------------------- MODULE BackgroundResponsesProofs ----------------------
(* What BackgroundResponses keeps for any number of responses, request threads, *)
(* workers, restarts and outages.                                               *)
EXTENDS BackgroundResponses, TLAPS

\* A request thread that is at work has a response.
Named == \A c \in Caller : caller[c].at # "idle" => caller[c].resp \in Response

\* A request thread about to start a worker has a thread of that response that is not
\* started yet, and no two have the same.
Starters ==
  \A c \in Caller :
    caller[c].at = "start" =>
      /\ caller[c].worker \in Worker
      /\ worker[caller[c].worker] = [at |-> "made", resp |-> caller[c].resp]
      /\ \A d \in Caller \ {c} : caller[d].at = "start" => caller[d].worker # caller[c].worker

\* A response that failed at its deadline is past it.
TimedOutLate == \A r \in Response : record[r].status = "timed_out" => Expired(r)

\* The strengthening of the invariants that is inductive.
IInv == TypeOK /\ Named /\ ClaimHeld /\ Starters /\ RegisteredRuns /\ TimedOutLate

-----------------------------------------------------------------------------
\* A sweep of the registry only takes entries out.
LEMMA CleanupShrinks ==
  ASSUME TypeOK, Cleanup
  PROVE  /\ registry' \in [Response -> Worker \cup {NoWorker}]
         /\ starting' \subseteq starting
         /\ \A r \in Response : registry'[r] # NoWorker => registry'[r] = registry[r]
BY DEF Cleanup, Stale, TypeOK

\* Releasing a slot only takes entries out, and leaves none for the response.
LEMMA ReleaseShrinks ==
  ASSUME TypeOK, NEW q, ReleaseSlot(q)
  PROVE  /\ registry' \in [Response -> Worker \cup {NoWorker}]
         /\ starting' \subseteq starting
         /\ \A r \in Response : registry'[r] # NoWorker => registry'[r] = registry[r] /\ r # q
BY DEF ReleaseSlot, TypeOK

\* What holds at the start.
LEMMA InitInv == Init => IInv
<1> SUFFICES ASSUME Init PROVE IInv
  OBVIOUS
<1> DEFINE Fresh == [status : {"none"}, job : {TRUE}, created : {0}]
           Left == [status : {"in_progress"}, job : BOOLEAN, created : {0}]
           Any == [status : Statuses, job : BOOLEAN, created : Nat]
<1>0. record \in [Response -> Any]
  <2>1. Fresh \subseteq Any /\ Left \subseteq Any
    <3>1. "none" \in Statuses /\ "in_progress" \in Statuses /\ 0 \in Nat
      BY DEF Statuses
    <3> QED BY <3>1
  <2>2. record \in [Response -> Fresh \cup Left]
    BY DEF Init
  <2> QED BY <2>1, <2>2
<1>1. TypeOK
  BY <1>0 DEF Init, TypeOK, IdleCaller, IdleWorker
<1>2. Named /\ ClaimHeld /\ Starters /\ RegisteredRuns
  BY DEF Init, Named, ClaimHeld, Starters, RegisteredRuns, IdleCaller
<1>3. TimedOutLate
  BY DEF Init, TimedOutLate
<1> QED BY <1>1, <1>2, <1>3 DEF IInv

-----------------------------------------------------------------------------
(* One lemma per action *)

LEMMA CreateInv ==
  ASSUME IInv, NEW c \in Caller, NEW r \in Response, Create(c, r) PROVE IInv'
<1> USE DEF IInv, Create
<1>1. TypeOK'
  BY DEF TypeOK, IdleCaller, Statuses
<1>2. Named'
  BY DEF Named, TypeOK, IdleCaller
<1>3. ClaimHeld'
  BY DEF ClaimHeld, TypeOK, IdleCaller
<1>4. Starters'
  BY DEF Starters, TypeOK, IdleCaller
<1>5. RegisteredRuns'
  BY DEF RegisteredRuns
<1>6. TimedOutLate'
  BY DEF TimedOutLate, TypeOK, Expired
<1> QED BY <1>1, <1>2, <1>3, <1>4, <1>5, <1>6

LEMMA LoadInv ==
  ASSUME IInv, NEW c \in Caller, NEW r \in Response, Load(c, r) PROVE IInv'
<1> USE DEF IInv, Load
<1>1. TypeOK'
  BY DEF TypeOK, IdleCaller
<1>2. Named'
  BY DEF Named, TypeOK, IdleCaller
<1>4. ClaimHeld'
  BY DEF ClaimHeld, TypeOK, IdleCaller
<1>5. Starters'
  BY DEF Starters, TypeOK, IdleCaller
<1>3. RegisteredRuns' /\ TimedOutLate'
  BY DEF RegisteredRuns, TimedOutLate, Expired
<1> QED BY <1>1, <1>2, <1>3, <1>4, <1>5

LEMMA DecideInv ==
  ASSUME IInv, NEW c \in Caller, Decide(c) PROVE IInv'
<1> DEFINE q == caller[c].resp
<1>1. q \in Response /\ caller[c].at = "loaded"
  BY DEF IInv, Named, Decide
<1>2. /\ registry' \in [Response -> Worker \cup {NoWorker}]
      /\ starting' \subseteq starting
      /\ \A r \in Response : registry'[r] # NoWorker => registry'[r] = registry[r]
  BY CleanupShrinks DEF IInv, TypeOK, Decide
<1>3. /\ caller' = [caller EXCEPT ![c] = IdleCaller]
         \/ caller' = [caller EXCEPT ![c].at = "claim"]
      /\ transition' = transition \ {c} \/ transition' = {c}
      /\ UNCHANGED <<worker, known, generations, now, restarts>>
  BY DEF Decide, Return, Settle
<1>4. \/ Expired(q) /\ record' = [record EXCEPT ![q].status = "timed_out"]
      \/ record' = record
      \/ ~Expired(q) /\ record' = [record EXCEPT ![q].status = "unreplayable"]
      \/ ~Expired(q) /\ record' = [record EXCEPT ![q].status = "in_progress"]
  BY DEF Decide, Settle, SetStatus
<1>11. PICK st \in {"timed_out", "unreplayable", "in_progress"} :
         record' = record \/ record' = [record EXCEPT ![q].status = st]
  BY <1>4
<1>5. TypeOK'
  <2>1. record' \in [Response -> [status : Statuses, job : BOOLEAN, created : Nat]]
    <3>1. st \in Statuses
      BY <1>11 DEF Statuses, Ended
    <3> DEFINE mid == [record EXCEPT ![q].status = st]
    <3>2. mid \in [Response -> [status : Statuses, job : BOOLEAN, created : Nat]]
      BY <3>1 DEF IInv, TypeOK
    <3> QED BY <1>11, <3>2 DEF IInv, TypeOK
  <2>2. caller' \in [Caller -> [at : {"idle", "loaded", "claim", "register", "start"},
                                resp : Response \cup {NoResponse},
                                worker : Worker \cup {NoWorker}]]
    <3>1. CASE caller' = [caller EXCEPT ![c] = IdleCaller]
      BY <3>1 DEF IInv, TypeOK, IdleCaller
    <3> DEFINE mid == [caller EXCEPT ![c].at = "claim"]
    <3>3. mid \in [Caller -> [at : {"idle", "loaded", "claim", "register", "start"},
                              resp : Response \cup {NoResponse},
                              worker : Worker \cup {NoWorker}]]
      BY DEF IInv, TypeOK
    <3>2. CASE caller' = mid
      BY <3>2, <3>3
    <3> QED BY <1>3, <3>1, <3>2
  <2> QED BY <1>2, <1>3, <2>1, <2>2 DEF IInv, TypeOK
<1>6. Named'
  BY <1>1, <1>3 DEF IInv, Named, TypeOK, IdleCaller
<1>10. Starters'
  <2>1. \A d \in Caller : caller'[d].at = "start" => d # c /\ caller'[d] = caller[d]
    BY <1>1, <1>3 DEF IInv, TypeOK, IdleCaller
  <2> QED BY <1>3, <2>1 DEF IInv, Starters
<1>7. ClaimHeld'
  BY <1>1, <1>2, <1>3 DEF IInv, ClaimHeld, TypeOK, IdleCaller
<1>8. RegisteredRuns'
  BY <1>2, <1>3 DEF IInv, RegisteredRuns
<1>9. TimedOutLate'
  <2> SUFFICES ASSUME NEW r \in Response, record'[r].status = "timed_out"
      PROVE now >= record'[r].created + Timeout /\ Timeout > 0
    BY <1>3 DEF TimedOutLate, Expired
  <2>1. record'[r].created = record[r].created
    BY <1>1, <1>11 DEF IInv, TypeOK
  <2>2. Expired(r)
    BY <1>1, <1>4 DEF IInv, TypeOK, TimedOutLate
  <2> QED BY <2>1, <2>2 DEF Expired
<1> QED BY <1>5, <1>6, <1>7, <1>8, <1>9, <1>10 DEF IInv

LEMMA ClaimInv ==
  ASSUME IInv, NEW c \in Caller, Claim(c) PROVE IInv'
<1> DEFINE q == caller[c].resp
<1>1. q \in Response /\ caller[c].at = "claim"
  BY DEF IInv, Named, Claim
<1>2. UNCHANGED <<record, worker, known, generations, now, restarts>>
  BY DEF Claim
<1>3. TimedOutLate'
  BY <1>2 DEF IInv, TimedOutLate, Expired
<1>4. CASE HasLiveWorker(q)
  <2>1. Cleanup /\ Return(c)
    BY <1>4 DEF Claim
  <2>2. /\ registry' \in [Response -> Worker \cup {NoWorker}]
        /\ starting' \subseteq starting
        /\ \A r \in Response : registry'[r] # NoWorker => registry'[r] = registry[r]
    BY <2>1, CleanupShrinks DEF IInv
  <2>3. TypeOK'
    BY <1>2, <2>1, <2>2 DEF IInv, TypeOK, Return, IdleCaller
  <2>4. Named' /\ Starters' /\ ClaimHeld'
    BY <1>1, <1>2, <2>1, <2>2 DEF IInv, Named, Starters, ClaimHeld, Return, TypeOK, IdleCaller
  <2>5. RegisteredRuns'
    BY <1>2, <2>2 DEF IInv, RegisteredRuns
  <2> QED BY <1>3, <2>3, <2>4, <2>5 DEF IInv
<1>5. CASE ~HasLiveWorker(q)
  <2>1. /\ registry' = [r \in Response |-> IF r \in Stale THEN NoWorker ELSE registry[r]]
        /\ starting' = (starting \ Stale) \cup {q}
        /\ caller' = [caller EXCEPT ![c].at = "register"]
        /\ UNCHANGED transition
    BY <1>5 DEF Claim
  <2>2. TypeOK'
    BY <1>1, <1>2, <2>1 DEF IInv, TypeOK
  <2>3. Named' /\ Starters'
    BY <1>1, <1>2, <2>1 DEF IInv, Named, Starters, TypeOK
  <2>4. ClaimHeld'
    BY <1>1, <2>1 DEF IInv, ClaimHeld, TypeOK
  <2>5. RegisteredRuns'
    BY <1>2, <2>1 DEF IInv, RegisteredRuns
  <2> QED BY <1>3, <2>2, <2>3, <2>4, <2>5 DEF IInv
<1> QED BY <1>4, <1>5

LEMMA RegisterInv ==
  ASSUME IInv, NEW c \in Caller, Register(c) PROVE IInv'
<1> DEFINE q == caller[c].resp
<1>1. q \in Response /\ caller[c].at = "register"
  BY DEF IInv, Named, Register
<1>2. PICK w \in Worker :
        /\ worker[w] = IdleWorker
        /\ worker' = [worker EXCEPT ![w] = [at |-> "made", resp |-> q]]
        /\ registry' = [registry EXCEPT ![q] = w]
        /\ caller' = [caller EXCEPT ![c].at = "start", ![c].worker = w]
  BY DEF Register
<1>3. starting' = starting \ {q}
      /\ UNCHANGED <<record, transition, known, generations, now, restarts>>
  BY DEF Register
<1>4. TypeOK'
  <2>1. caller' \in [Caller -> [at : {"idle", "loaded", "claim", "register", "start"},
                                resp : Response \cup {NoResponse},
                                worker : Worker \cup {NoWorker}]]
    <3> DEFINE mid == [caller EXCEPT ![c].at = "start"]
    <3>1. mid \in [Caller -> [at : {"idle", "loaded", "claim", "register", "start"},
                              resp : Response \cup {NoResponse},
                              worker : Worker \cup {NoWorker}]]
      BY DEF IInv, TypeOK
    <3>2. caller' = [mid EXCEPT ![c].worker = w]
      BY <1>2 DEF IInv, TypeOK
    <3> HIDE DEF mid
    <3> QED BY <3>1, <3>2
  <2>2. worker' \in [Worker -> [at : {"idle", "made", "generating", "stored"},
                                resp : Response \cup {NoResponse}]]
    BY <1>1, <1>2 DEF IInv, TypeOK
  <2> QED BY <1>1, <1>2, <1>3, <2>1, <2>2 DEF IInv, TypeOK
<1>5. Named'
  BY <1>1, <1>2 DEF IInv, Named, TypeOK
<1>6. ClaimHeld'
  BY <1>1, <1>2, <1>3 DEF IInv, ClaimHeld, TypeOK
<1>7. Starters'
  \* The thread was idle, so it is nobody else's.
  <2>0. worker[w].at = "idle"
    BY <1>2 DEF IdleWorker
  <2>1. \A d \in Caller : caller[d].at = "start" => caller[d].worker # w
    <3> SUFFICES ASSUME NEW d \in Caller, caller[d].at = "start", caller[d].worker = w PROVE FALSE
      OBVIOUS
    <3>1. worker[w] = [at |-> "made", resp |-> caller[d].resp]
      BY DEF IInv, Starters
    <3> QED BY <2>0, <3>1
  <2> QED BY <1>1, <1>2, <2>1 DEF IInv, Starters, TypeOK
<1>8. RegisteredRuns'
  BY <1>1, <1>2 DEF IInv, RegisteredRuns, TypeOK, IdleWorker
<1>9. TimedOutLate'
  BY <1>3 DEF IInv, TimedOutLate, Expired
<1> QED BY <1>4, <1>5, <1>6, <1>7, <1>8, <1>9 DEF IInv

LEMMA StartInv ==
  ASSUME IInv, NEW c \in Caller, Start(c) PROVE IInv'
<1> DEFINE q == caller[c].resp
           w == caller[c].worker
<1>1. /\ q \in Response /\ w \in Worker /\ caller[c].at = "start"
      /\ worker[w] = [at |-> "made", resp |-> q]
  BY DEF IInv, Named, Starters, Start
<1>2. /\ worker' = [worker EXCEPT ![w].at = "generating"]
      /\ generations' = [generations EXCEPT ![q] = IF @ < 2 THEN @ + 1 ELSE @]
      /\ known' = known \cup {q}
      /\ caller' = [caller EXCEPT ![c] = IdleCaller]
      /\ transition' = transition \ {c}
      /\ UNCHANGED <<record, registry, starting, now, restarts>>
  BY DEF Start, Return
<1>3. TypeOK'
  BY <1>1, <1>2 DEF IInv, TypeOK, IdleCaller
<1>4. Named' /\ ClaimHeld'
  BY <1>1, <1>2 DEF IInv, Named, ClaimHeld, TypeOK, IdleCaller
<1>5. Starters'
  BY <1>1, <1>2 DEF IInv, Starters, TypeOK, IdleCaller
<1>6. RegisteredRuns'
  BY <1>1, <1>2 DEF IInv, RegisteredRuns, TypeOK
<1>7. TimedOutLate'
  BY <1>2 DEF IInv, TimedOutLate, Expired
<1> QED BY <1>3, <1>4, <1>5, <1>6, <1>7 DEF IInv

LEMMA StartFailsInv ==
  ASSUME IInv, NEW c \in Caller, StartFails(c) PROVE IInv'
<1> DEFINE q == caller[c].resp
           w == caller[c].worker
<1>1. /\ q \in Response /\ w \in Worker /\ caller[c].at = "start"
      /\ worker[w] = [at |-> "made", resp |-> q]
  BY DEF IInv, Named, Starters, StartFails
<1>2. /\ worker' = [worker EXCEPT ![w] = IdleWorker]
      /\ caller' = [caller EXCEPT ![c] = IdleCaller]
      /\ transition' = transition \ {c}
      /\ UNCHANGED <<record, known, generations, now, restarts>>
  BY DEF StartFails, Return
<1>3. /\ registry' \in [Response -> Worker \cup {NoWorker}]
      /\ starting' \subseteq starting
      /\ \A r \in Response : registry'[r] # NoWorker => registry'[r] = registry[r] /\ r # q
  BY ReleaseShrinks DEF IInv, StartFails
<1>4. TypeOK'
  BY <1>1, <1>2, <1>3 DEF IInv, TypeOK, IdleCaller, IdleWorker
<1>5. Named' /\ ClaimHeld'
  BY <1>1, <1>2, <1>3 DEF IInv, Named, ClaimHeld, TypeOK, IdleCaller
<1>6. Starters'
  BY <1>1, <1>2 DEF IInv, Starters, TypeOK, IdleCaller
<1>7. RegisteredRuns'
  \* A registration of w is one of q, and q has none left.
  BY <1>1, <1>2, <1>3 DEF IInv, RegisteredRuns, TypeOK
<1>8. TimedOutLate'
  BY <1>2 DEF IInv, TimedOutLate, Expired
<1> QED BY <1>4, <1>5, <1>6, <1>7, <1>8 DEF IInv

LEMMA FinishInv ==
  ASSUME IInv, NEW w \in Worker, NEW s \in {"completed", "failed"},
         Finish(w, s) \/ FinishUnstored(w)
  PROVE  IInv'
<1> DEFINE q == worker[w].resp
<1>1. /\ worker[w].at = "generating"
      /\ worker' = [worker EXCEPT ![w].at = "stored"]
      /\ UNCHANGED <<caller, registry, starting, transition, known, generations, now, restarts>>
  BY DEF Finish, FinishUnstored
<1>2. record' = record \/ record' = [record EXCEPT ![q].status = Stored(q, s)]
  BY DEF Finish, FinishUnstored, SetStatus
<1>3. record' \in [Response -> [status : Statuses, job : BOOLEAN, created : Nat]]
  <2>1. CASE q \notin Response
    BY <1>2, <2>1 DEF IInv, TypeOK
  <2>2. CASE q \in Response
    <3>1. Stored(q, s) \in Statuses
      BY <2>2 DEF IInv, TypeOK, Stored, Statuses, Ended
    <3> DEFINE v == Stored(q, s)
    <3>2. v \in Statuses
      BY <3>1
    <3>3. record' = record \/ record' = [record EXCEPT ![q].status = v]
      BY <1>2
    <3> HIDE DEF v
    <3> QED BY <2>2, <3>2, <3>3 DEF IInv, TypeOK
  <2> QED BY <2>1, <2>2
<1>4. TypeOK'
  BY <1>1, <1>3 DEF IInv, TypeOK
<1>5. Named' /\ ClaimHeld'
  BY <1>1 DEF IInv, Named, ClaimHeld
<1>6. Starters' /\ RegisteredRuns'
  BY <1>1 DEF IInv, Starters, RegisteredRuns, TypeOK
<1>7. TimedOutLate'
  <2> SUFFICES ASSUME NEW r \in Response, record'[r].status = "timed_out"
      PROVE now >= record'[r].created + Timeout /\ Timeout > 0
    BY <1>1 DEF TimedOutLate, Expired
  <2>1. record'[r].created = record[r].created
    BY <1>2 DEF IInv, TypeOK
  <2>2. record'[r].status = record[r].status \/ (r = q /\ record'[r].status = Stored(q, s))
    BY <1>2 DEF IInv, TypeOK
  <2>3. record[r].status = "timed_out" \/ Expired(r)
    BY <2>2 DEF Stored
  <2> QED BY <2>1, <2>3 DEF IInv, TimedOutLate, Expired
<1> QED BY <1>4, <1>5, <1>6, <1>7 DEF IInv

LEMMA ReleaseInv ==
  ASSUME IInv, NEW w \in Worker, Release(w) PROVE IInv'
<1> DEFINE q == worker[w].resp
<1>1. /\ worker[w].at = "stored"
      /\ worker' = [worker EXCEPT ![w] = IdleWorker]
      /\ UNCHANGED <<record, caller, transition, known, generations, now, restarts>>
  BY DEF Release
<1>2. /\ registry' \in [Response -> Worker \cup {NoWorker}]
      /\ starting' \subseteq starting
      /\ \A r \in Response : registry'[r] # NoWorker => registry'[r] = registry[r] /\ r # q
  BY ReleaseShrinks DEF IInv, Release
<1>3. TypeOK'
  BY <1>1, <1>2 DEF IInv, TypeOK, IdleWorker
<1>4. Named' /\ ClaimHeld'
  BY <1>1, <1>2 DEF IInv, Named, ClaimHeld
<1>5. Starters'
  BY <1>1 DEF IInv, Starters, TypeOK
<1>6. RegisteredRuns'
  BY <1>1, <1>2 DEF IInv, RegisteredRuns, TypeOK
<1>7. TimedOutLate'
  BY <1>1 DEF IInv, TimedOutLate, Expired
<1> QED BY <1>3, <1>4, <1>5, <1>6, <1>7 DEF IInv

LEMMA TickInv == ASSUME IInv, Tick PROVE IInv'
<1>1. TypeOK' /\ Named' /\ ClaimHeld' /\ Starters' /\ RegisteredRuns'
  BY DEF IInv, Tick, threads, TypeOK, Named, ClaimHeld, Starters, RegisteredRuns
<1>2. TimedOutLate'
  BY TimesAreNumbers DEF IInv, Tick, TypeOK, TimedOutLate, Expired
<1> QED BY <1>1, <1>2 DEF IInv

LEMMA RestartInv == ASSUME IInv, Restart PROVE IInv'
<1>1. TypeOK'
  BY RestartBound DEF IInv, Restart, TypeOK, IdleCaller, IdleWorker
<1>2. Named' /\ ClaimHeld' /\ Starters' /\ RegisteredRuns'
  BY DEF Restart, Named, ClaimHeld, Starters, RegisteredRuns, IdleCaller
<1>3. TimedOutLate'
  BY DEF IInv, Restart, TimedOutLate, Expired
<1> QED BY <1>1, <1>2, <1>3 DEF IInv

-----------------------------------------------------------------------------
\* Every step keeps the invariant.
LEMMA NextInv == IInv /\ [Next]_vars => IInv'
<1> SUFFICES ASSUME IInv, [Next]_vars PROVE IInv'
  OBVIOUS
<1>1. CASE UNCHANGED vars
  BY <1>1 DEF vars, threads, IInv, TypeOK, Named, ClaimHeld, Starters, RegisteredRuns,
              TimedOutLate, Expired
<1>2. ASSUME NEW c \in Caller, NEW r \in Response, Create(c, r) \/ Load(c, r) PROVE IInv'
  BY <1>2, CreateInv, LoadInv
<1>3. ASSUME NEW c \in Caller,
             Decide(c) \/ Claim(c) \/ Register(c) \/ Start(c) \/ StartFails(c)
      PROVE IInv'
  BY <1>3, DecideInv, ClaimInv, RegisterInv, StartInv, StartFailsInv
<1>4. ASSUME NEW w \in Worker, NEW s \in {"completed", "failed"},
             Finish(w, s) \/ FinishUnstored(w)
      PROVE IInv'
  BY <1>4, FinishInv
<1>5. ASSUME NEW w \in Worker, Release(w) PROVE IInv'
  BY <1>5, ReleaseInv
<1>6. CASE Tick
  BY <1>6, TickInv
<1>7. CASE Restart
  BY <1>7, RestartInv
<1> QED BY <1>1, <1>2, <1>3, <1>4, <1>5, <1>6, <1>7 DEF Next

LEMMA Invariant == Spec => []IInv
BY InitInv, NextInv, PTL DEF Spec

\* No claim on a slot is left behind, whatever fails or restarts.
THEOREM ClaimsAreHeld == Spec => []ClaimHeld
<1>1. IInv => ClaimHeld
  BY DEF IInv
<1> QED BY <1>1, Invariant, PTL

\* The registry only ever names threads of the response that have not ended.
THEOREM RegistryNamesWorkers == Spec => []RegisteredRuns
<1>1. IInv => RegisteredRuns
  BY DEF IInv
<1> QED BY <1>1, Invariant, PTL

\* Slots are given back on every way out.
THEOREM SlotsAreAccounted == Spec => []SlotsAccounted
BY ClaimsAreHeld, RegistryNamesWorkers, PTL DEF SlotsAccounted

\* A response that failed at its deadline stays failed: late answers are not stored,
\* and a poll, however old its copy of the record, looks at the deadline first.
THEOREM TimeoutStays == Spec => TimeoutIsFinal
<1> DEFINE Kept == \A r \in Response :
                     record[r].status = "timed_out" => record'[r].status = "timed_out"
<1>1. IInv /\ [Next]_vars => [Kept]_vars
  <2> SUFFICES ASSUME IInv, Next, NEW r \in Response, record[r].status = "timed_out"
      PROVE record'[r].status = "timed_out"
    OBVIOUS
  <2>0. Expired(r) /\ record \in [Response -> [status : Statuses, job : BOOLEAN, created : Nat]]
    BY DEF IInv, TimedOutLate, TypeOK
  <2>1. ASSUME NEW c \in Caller, NEW q \in Response, Create(c, q) \/ Load(c, q)
        PROVE record'[r].status = "timed_out"
    BY <2>0, <2>1 DEF Create, Load
  <2>2. ASSUME NEW c \in Caller, Decide(c) PROVE record'[r].status = "timed_out"
    BY <2>0, <2>2 DEF Decide, Settle, SetStatus
  <2>3. ASSUME NEW c \in Caller, Claim(c) \/ Register(c) \/ Start(c) \/ StartFails(c)
        PROVE record'[r].status = "timed_out"
    BY <2>3 DEF Claim, Register, Start, StartFails
  <2>4. ASSUME NEW w \in Worker, NEW s \in {"completed", "failed"}, Finish(w, s)
        PROVE record'[r].status = "timed_out"
    BY <2>0, <2>4 DEF Finish, SetStatus, Stored, InProgress
  <2>5. ASSUME NEW w \in Worker, FinishUnstored(w) \/ Release(w)
        PROVE record'[r].status = "timed_out"
    BY <2>5 DEF FinishUnstored, Release
  <2>6. CASE Tick \/ Restart
    BY <2>6 DEF Tick, Restart
  <2> QED BY <2>1, <2>2, <2>3, <2>4, <2>5, <2>6 DEF Next
<1> QED BY <1>1, Invariant, PTL DEF Spec, TimeoutIsFinal

\* No answer is stored after the deadline of its response.
THEOREM AnswersInTime == Spec => AnsweredInTime
<1> DEFINE InTime == \A r \in Response :
                       record'[r].status = "completed" /\ record[r].status # "completed"
                         => ~Expired(r)
<1>1. IInv /\ [Next]_vars => [InTime]_vars
  <2> SUFFICES ASSUME IInv, Next, NEW r \in Response,
                      record'[r].status = "completed", record[r].status # "completed"
      PROVE ~Expired(r)
    OBVIOUS
  <2>0. record \in [Response -> [status : Statuses, job : BOOLEAN, created : Nat]]
    BY DEF IInv, TypeOK
  <2>1. ASSUME NEW c \in Caller, NEW q \in Response, Create(c, q) \/ Load(c, q) PROVE FALSE
    BY <2>0, <2>1 DEF Create, Load
  <2>2. ASSUME NEW c \in Caller, Decide(c) PROVE FALSE
    BY <2>0, <2>2 DEF Decide, Settle, SetStatus
  <2>3. ASSUME NEW c \in Caller, Claim(c) \/ Register(c) \/ Start(c) \/ StartFails(c)
        PROVE FALSE
    BY <2>3 DEF Claim, Register, Start, StartFails
  <2>4. ASSUME NEW w \in Worker, NEW s \in {"completed", "failed"}, Finish(w, s)
        PROVE ~Expired(r)
    BY <2>0, <2>4 DEF Finish, SetStatus, Stored
  <2>5. ASSUME NEW w \in Worker, FinishUnstored(w) \/ Release(w) PROVE FALSE
    BY <2>5 DEF FinishUnstored, Release
  <2>6. CASE Tick \/ Restart
    BY <2>6 DEF Tick, Restart
  <2> QED BY <2>1, <2>2, <2>3, <2>4, <2>5, <2>6 DEF Next
<1> QED BY <1>1, Invariant, PTL DEF Spec, AnsweredInTime

\* The deadline decides, however late an answer comes and however old a poll's copy is.
THEOREM DeadlineDecides == Spec => DeadlineKept
BY TimeoutStays, AnswersInTime DEF DeadlineKept
=============================================================================
