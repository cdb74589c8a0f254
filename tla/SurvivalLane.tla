---------------------------- MODULE SurvivalLane ----------------------------
(***************************************************************************)
(* SurvivalLaneService.execute: the slow backup lane of one process.  A    *)
(* request looks into the cache, waits for one of a few slots, looks again *)
(* and then tries the backends in route order, skipping those on cooldown. *)
(* Requests are threads; cache, slots and cooldowns are three structures   *)
(* under three locks, so one action is one critical section or one call.   *)
(*                                                                         *)
(* What a backend says is a kind of outcome.  The codes that are only      *)
(* shown (challenge_loop, consecutive_challenges) and the attempts listed  *)
(* in an answer are left out.                                              *)
(***************************************************************************)
EXTENDS Naturals, Sequences, FiniteSets

CONSTANTS
  Request, Key, Backend,
  KeyOf,                \* per request: prompt_cache_key or the fingerprint
  Order,                \* _survival_route_order
  Ui,                   \* backends that need a BrowserAct binding
  MaxActive, QueueTimeout, CacheTtl, ChallengeCooldown, UnavailableCooldown,
  MaxTime               \* bound: the clock stops there

ASSUME SurvivalAssumption ==
  /\ KeyOf \in [Request -> Key]
  /\ Order \in Seq(Backend) /\ Ui \subseteq Backend
  /\ {QueueTimeout, CacheTtl, ChallengeCooldown, UnavailableCooldown} \subseteq Nat
  /\ {MaxActive, MaxTime} \subseteq Nat \ {0}
  /\ IsFiniteSet(Request)

VARIABLES
  now,       \* time.time(), from 1
  cache,     \* _SURVIVAL_CACHE: until when the answer may be used, 0 for none
  active,    \* _SURVIVAL_ACTIVE_REQUESTS
  cooldown,  \* _SURVIVAL_BACKEND_STATE: cooldown_until
  at,        \* per request: where it is
  next,      \* per request: position in the route order
  deadline,  \* per request: when it stops waiting, 0 when it does not
  quiet,     \* history: until when a challenged backend is to be left alone
  beside     \* history: the requests that were with it when it asked for a challenge

vars == <<now, cache, active, cooldown, at, next, deadline, quiet, beside>>

Places == {"new", "queue", "look", "route", "call", "store", "leave", "done"}
Holding == {"look", "route", "call", "store", "leave"}

Init ==
  /\ now = 1
  /\ cache = [k \in Key |-> 0]
  /\ active = 0
  /\ cooldown = [b \in Backend |-> 0]
  /\ at = [r \in Request |-> "new"]
  /\ next = [r \in Request |-> 1]
  /\ deadline = [r \in Request |-> 0]
  /\ quiet = [b \in Backend |-> 0]
  /\ beside = [b \in Backend |-> {}]

\* _cache_get: an expired entry is as good as none.
Live(k) == cache[k] >= now

\* The loop condition of _acquire_survival_slot.
Busy == active >= MaxActive

\* _current_backend_failure: the backend is left alone for now.
Cooling(b) == cooldown[b] > now

backend(r) == Order[next[r]]

\* The requests with a slot.
Holders == {r \in Request : at[r] \in Holding}

Goto(r, place) == at' = [at EXCEPT ![r] = place]

\* The look into the cache before queueing.  (Bound: nobody comes so late that
\* the clock stops before the deadline.)
Begin(r) ==
  /\ at[r] = "new" /\ now + QueueTimeout <= MaxTime
  /\ \/ Live(KeyOf[r]) /\ Goto(r, "done") /\ UNCHANGED deadline
     \/ /\ ~Live(KeyOf[r])
        /\ deadline' = [deadline EXCEPT ![r] = now + QueueTimeout]
        /\ Goto(r, "queue")
  /\ UNCHANGED <<now, cache, active, cooldown, next, quiet, beside>>

\* A slot is free, which is tested before the deadline.
Enter(r) ==
  /\ at[r] = "queue" /\ ~Busy
  /\ active' = active + 1
  /\ deadline' = [deadline EXCEPT ![r] = 0]
  /\ Goto(r, "look")
  /\ UNCHANGED <<now, cache, cooldown, next, quiet, beside>>

\* survival_queue_timeout.
GiveUp(r) ==
  /\ at[r] = "queue" /\ Busy /\ now >= deadline[r]
  /\ deadline' = [deadline EXCEPT ![r] = 0]
  /\ Goto(r, "done")
  /\ UNCHANGED <<now, cache, active, cooldown, next, quiet, beside>>

\* The second look into the cache, with the slot.
Look(r) ==
  /\ at[r] = "look"
  /\ Goto(r, IF Live(KeyOf[r]) THEN "leave" ELSE "route")
  /\ UNCHANGED <<now, cache, active, cooldown, next, deadline, quiet, beside>>

\* On to the next backend.
Advance(r) == next' = [next EXCEPT ![r] = @ + 1]

Skip(r) ==
  /\ at[r] = "route" /\ next[r] <= Len(Order) /\ Cooling(backend(r))
  /\ Advance(r)
  /\ UNCHANGED <<now, cache, active, cooldown, at, deadline, quiet, beside>>

Ask(r) ==
  /\ at[r] = "route" /\ next[r] <= Len(Order) /\ ~Cooling(backend(r))
  /\ Goto(r, "call")
  /\ UNCHANGED <<now, cache, active, cooldown, next, deadline, quiet, beside>>

\* survival_no_backend_available.
NoBackend(r) ==
  /\ at[r] = "route" /\ next[r] > Len(Order)
  /\ Goto(r, "leave")
  /\ UNCHANGED <<now, cache, active, cooldown, next, deadline, quiet, beside>>

\* _record_backend_failure_state: a timeout or an empty output ends now.
Until == [challenge |-> ChallengeCooldown, unavailable |-> UnavailableCooldown, timeout |-> 0]

\* Mutant of Recorded: a challenge is recorded like a timeout.
RecordedShort(b, code) == cooldown' = [cooldown EXCEPT ![b] = now + Until["timeout"]]
Recorded(b, code) == cooldown' = [cooldown EXCEPT ![b] = now + Until[code]]

\* A challenge asks that nobody else goes to b.  Those who are there already come back
\* with an outcome of their own, and the last one counts.
Quieten(b, until, who) ==
  /\ quiet' = [quiet EXCEPT ![b] = until]
  /\ beside' = [beside EXCEPT ![b] = who]

Noted(r, code) ==
  LET b == backend(r) IN
  \/ /\ code = "challenge"
     /\ Quieten(b, now + ChallengeCooldown,
                {s \in Request \ {r} : at[s] = "call" /\ backend(s) = b})
  \/ code # "challenge" /\ r \in beside[b] /\ Quieten(b, 0, {})
  \/ code # "challenge" /\ r \notin beside[b] /\ UNCHANGED <<quiet, beside>>

\* No BrowserAct binding for the principal or for anybody: recorded without a call.
NoBinding(r) ==
  /\ at[r] = "call" /\ backend(r) \in Ui
  /\ Recorded(backend(r), "unavailable") /\ Noted(r, "unavailable")
  /\ Advance(r)
  /\ Goto(r, "route")
  /\ UNCHANGED <<now, cache, active, deadline>>

\* The tool raises ToolExecutionError with one of the codes of the lane.
Fails(r, code) ==
  /\ at[r] = "call"
  /\ Recorded(backend(r), code) /\ Noted(r, code)
  /\ Advance(r)
  /\ Goto(r, "route")
  /\ UNCHANGED <<now, cache, active, deadline>>

\* No text in the output, or an error without a code: nothing is recorded.
Empty(r) ==
  /\ at[r] = "call"
  /\ Advance(r)
  /\ Goto(r, "route")
  /\ UNCHANGED <<now, cache, active, cooldown, deadline, quiet, beside>>

\* _clear_backend_failure: an answer ends every cooldown of the backend.
Answers(r) ==
  /\ at[r] = "call"
  /\ cooldown' = [cooldown EXCEPT ![backend(r)] = 0]
  /\ Quieten(backend(r), 0, {})
  /\ Goto(r, "store")
  /\ UNCHANGED <<now, cache, active, next, deadline>>

\* Mutant of Raises: the slot is released on return only.
RaisesWithSlot(r) ==
  /\ at[r] = "call"
  /\ Goto(r, "done")
  /\ UNCHANGED <<now, cache, active, cooldown, next, deadline, quiet, beside>>
\* Any other exception leaves execute, by way of finally.
Raises(r) ==
  /\ at[r] = "call"
  /\ Goto(r, "leave")
  /\ UNCHANGED <<now, cache, active, cooldown, next, deadline, quiet, beside>>

\* _cache_put.
Store(r) ==
  /\ at[r] = "store"
  /\ cache' = [cache EXCEPT ![KeyOf[r]] = now + CacheTtl]
  /\ Goto(r, "leave")
  /\ UNCHANGED <<now, active, cooldown, next, deadline, quiet, beside>>

\* _release_survival_slot wakes everybody who waits.  (What the thread knew of
\* its route goes with it.)
Leave(r) ==
  /\ at[r] = "leave"
  /\ active' = IF active > 0 THEN active - 1 ELSE active
  /\ next' = [next EXCEPT ![r] = 1]
  /\ Goto(r, "done")
  /\ UNCHANGED <<now, cache, cooldown, deadline, quiet, beside>>

Tick ==
  /\ now < MaxTime
  /\ now' = now + 1
  /\ UNCHANGED <<cache, active, cooldown, at, next, deadline, quiet, beside>>

\* What the thread of a request does by itself, and what a backend does to it.
RunOn(r) ==
  Begin(r) \/ Enter(r) \/ GiveUp(r) \/ Look(r) \/ Skip(r) \/ Ask(r) \/ NoBackend(r)
    \/ Store(r) \/ Leave(r)
Return(r) ==
  NoBinding(r) \/ Empty(r) \/ Answers(r) \/ Raises(r) \/ \E code \in DOMAIN Until : Fails(r, code)

Next == Tick \/ \E r \in Request : RunOn(r) \/ Return(r)

Spec == Init /\ [][Next]_vars

\* Threads run and the clock moves, but a backend need never answer.
FairSpec == Spec /\ WF_vars(Tick) /\ \A r \in Request : WF_vars(RunOn(r))

-----------------------------------------------------------------------------
\* The kinds of values, and the counter of active requests is the number of
\* requests that hold a slot, never more than there are.
TypeOK ==
  /\ now \in 1..MaxTime
  /\ cache \in [Key -> Nat]
  /\ active \in 0..MaxActive
  /\ cooldown \in [Backend -> Nat] /\ quiet \in [Backend -> Nat]
  /\ beside \in [Backend -> SUBSET Request]
  /\ at \in [Request -> Places]
  /\ next \in [Request -> 1..Len(Order) + 1]
  /\ deadline \in [Request -> Nat]

\* _SURVIVAL_ACTIVE_REQUESTS counts the requests that hold a slot, through
\* answers, cache hits, exhausted routes and exceptions.
SlotsHeld == active = Cardinality(Holders)

\* A backend that asked for a challenge or a new login is not asked again while
\* its cooldown lasts, unless in between it answered somebody or failed somebody who
\* was with it already.
CooldownKept ==
  [][\A r \in Request : at[r] = "route" /\ at'[r] = "call" => quiet[backend(r)] <= now]_vars

\* While an answer to a question is in the cache, no backend is asked it, also
\* when the question was already waiting for its slot when the answer came.
AskedOnce ==
  [][\A r \in Request : at[r] = "route" /\ at'[r] = "call" => ~Live(KeyOf[r])]_vars

\* A request does not wait in the queue for ever, even when the backend of the
\* request before it never answers: there comes a time when nobody waits.
WaitersLeave == (\E r \in Request : at[r] = "queue") ~> \A r \in Request : at[r] # "queue"

\* Every slot that is taken is given back, if backends answer in the end (the tools
\* have timeouts of their own).
SlotsReturn ==
  []<>(\A r \in Request : at[r] # "call") => (active > 0 ~> active = 0)
=============================================================================
