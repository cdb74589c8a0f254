------------------------------ MODULE MCProgress ------------------------------
(***************************************************************************)
(* What must come to an end: SurvivalLane, and instances of                *)
(* DeliveryOutbox, OneMinLeases, HumanTasks and BackgroundResponses.       *)
(* `part` says which of them a behaviour is of; it never changes, and the  *)
(* variables of the others stay as they are.                               *)
(***************************************************************************)
EXTENDS SurvivalLane, TLC

CONSTANTS r1, r2, r3, k1, k2, b1, b2, none

VARIABLES
  part,
  row, place, got, snapshot, job, copies, tries, excuses, spent,   \* DeliveryOutbox
  rows, overdue, lock, looked, eligible, listed, copy, lease,      \* OneMinLeases
  orphans, used, faults,
  task, linked, step, session, call, history, log, calls,          \* HumanTasks
  record, caller, worker, registry, starting, transition, known,   \* BackgroundResponses
  generations, time,
  restarts                                                         \* the last two

outboxVars == <<row, got, snapshot, job, copies, tries, excuses, spent>>
leaseVars == <<rows, overdue, lock, looked, eligible, listed, copy, lease, orphans, used, faults>>
taskVars == <<task, linked, step, session, call, history, log, calls>>
responseVars == <<record, caller, worker, registry, starting, transition, known,
                  generations, time>>
all == <<part, vars, place, outboxVars, leaseVars, taskVars, responseVars, restarts>>

Requests == {r1, r2, r3}
Keys == {k1, k2}
Backends == {b1, b2}
KeyOfs == r1 :> k1 @@ r2 :> k1 @@ r3 :> k2
Route == <<b1, b2>>
UiBackends == {b2}

-----------------------------------------------------------------------------
\* A delivery whose send may fail or be deferred, and one of a channel nobody drains,
\* which may be the newer one in the list.
Outbox == INSTANCE DeliveryOutbox WITH
  Call <- {r1, r2}, NoRow <- none, Key <- {k1}, NoKey <- none,
  KeyOf <- r1 :> k1 @@ r2 :> none, Direct <- {}, Drained <- {r1},
  Scheduler <- {b1}, MaxAttempts <- 2, MaxSends <- 1, Limit <- 2,
  MaxFaults <- 1, MaxMarks <- 0, MaxDeferrals <- 1, at <- place

\* Two deliveries and one of the other channel: one row more than the list shows, and the
\* oldest waits for the others to settle.
Crowded == INSTANCE DeliveryOutbox WITH
  Call <- Requests, NoRow <- none, Key <- {}, NoKey <- none,
  KeyOf <- [r \in Requests |-> none], Direct <- {}, Drained <- {r1, r2},
  Scheduler <- {b1}, MaxAttempts <- 2, MaxSends <- 1, Limit <- 2,
  MaxFaults <- 0, MaxMarks <- 0, MaxDeferrals <- 0, at <- place

\* A caller that may die with its lease, and a thread that lists.
Leases == INSTANCE OneMinLeases WITH
  Caller <- {r1}, Remote <- {}, Reader <- {r2}, Process <- {r3},
  ProcessOf <- r1 :> r3 @@ r2 :> r3, ClassOf <- r1 :> "image_generation",
  Account <- {b1}, Lease <- {k1, k2}, NoLease <- none, NoAccount <- none, Nobody <- none,
  MaxTotal <- 1, MaxCore <- 1, MaxImage <- 1, MaxFaults <- 1, at <- place

\* Two tasks that hold up two steps.
Tasks == INSTANCE HumanTasks WITH
  Task <- {k1, k2}, Operator <- {b1, b2}, Nobody <- none, Worker <- {r1, r2},
  Step <- {1, 2}, NoStep <- none, MaxCalls <- 2, MaxRestarts <- 0, OutputsFail <- FALSE

\* A response with a deadline, and one without.
Dated == INSTANCE BackgroundResponses WITH
  Response <- {k1}, Caller <- {r1, r2}, Worker <- {b1, b2, r3}, NoWorker <- none,
  NoResponse <- none, Timeout <- 2, MaxTime <- 4, MaxRestarts <- 1, Outages <- TRUE,
  now <- time
Undated == INSTANCE BackgroundResponses WITH
  Response <- {k1}, Caller <- {r1, r2}, Worker <- {b1, b2, r3}, NoWorker <- none,
  NoResponse <- none, Timeout <- 0, MaxTime <- 0, MaxRestarts <- 2, Outages <- TRUE,
  now <- time

ASSUME Outbox!OutboxAssumption /\ Crowded!OutboxAssumption
ASSUME Leases!OneMinAssumption /\ Tasks!HumanTasksAssumption

-----------------------------------------------------------------------------
NoOutbox ==
  /\ row = 0 /\ got = 0 /\ snapshot = 0 /\ job = 0
  /\ copies = 0 /\ tries = 0 /\ excuses = 0 /\ spent = 0
NoLeases ==
  /\ rows = 0 /\ overdue = 0 /\ lock = 0 /\ looked = 0 /\ eligible = 0 /\ listed = 0
  /\ copy = 0 /\ lease = 0 /\ orphans = 0 /\ used = 0 /\ faults = 0
NoTasks ==
  /\ task = 0 /\ linked = 0 /\ step = 0 /\ session = 0 /\ call = 0
  /\ history = 0 /\ log = 0 /\ calls = 0
NoResponses ==
  /\ record = 0 /\ caller = 0 /\ worker = 0 /\ registry = 0 /\ starting = 0
  /\ transition = 0 /\ known = 0 /\ generations = 0 /\ time = 0

MCInit ==
  /\ Init
  /\ \/ /\ part = "lane"
        /\ place = 0 /\ restarts = 0 /\ NoOutbox /\ NoLeases /\ NoTasks /\ NoResponses
     \/ /\ \/ part = "outbox" /\ Outbox!Init
           \/ part = "crowded" /\ Crowded!Init
        /\ restarts = 0 /\ NoLeases /\ NoTasks /\ NoResponses
     \/ /\ part = "leases" /\ Leases!Init
        /\ restarts = 0 /\ NoOutbox /\ NoTasks /\ NoResponses
     \/ /\ part = "tasks" /\ Tasks!InitPaused
        /\ place = 0 /\ NoOutbox /\ NoLeases /\ NoResponses
     \/ /\ \/ part = "dated" /\ Dated!Init
           \/ part = "undated" /\ Undated!Init
        /\ place = 0 /\ NoOutbox /\ NoLeases /\ NoTasks

OnlyLane == UNCHANGED <<place, outboxVars, leaseVars, taskVars, responseVars, restarts>>
OnlyOutbox == UNCHANGED <<vars, leaseVars, taskVars, responseVars, restarts>>
OnlyLeases == UNCHANGED <<vars, outboxVars, taskVars, responseVars, restarts>>
OnlyTasks == UNCHANGED <<vars, place, outboxVars, leaseVars, responseVars>>
OnlyResponses == UNCHANGED <<vars, place, outboxVars, leaseVars, taskVars>>

MCNext ==
  /\ UNCHANGED part
  /\ \/ part = "lane" /\ Next /\ OnlyLane
     \/ part = "outbox" /\ Outbox!Next /\ OnlyOutbox
     \/ part = "crowded" /\ Crowded!Next /\ OnlyOutbox
     \/ part = "leases" /\ Leases!Next /\ OnlyLeases
     \/ part = "tasks" /\ Tasks!NextPaused /\ OnlyTasks
     \/ part = "dated" /\ Dated!Next /\ OnlyResponses
     \/ part = "undated" /\ Undated!Next /\ OnlyResponses

\* The fairness of the components, thread by thread.  A behaviour is of one part, so
\* that the threads of several parts may share a condition.
Runs(t) ==
  /\ UNCHANGED part
  /\ \/ part = "lane" /\ RunOn(t) /\ OnlyLane
     \/ part = "outbox" /\ t # r3 /\ Outbox!Serve(t) /\ OnlyOutbox
     \/ part = "crowded" /\ Crowded!Serve(t) /\ OnlyOutbox
     \/ part = "leases" /\ t \in {r1, r2} /\ Leases!Snapshot(t) /\ OnlyLeases
     \/ part = "tasks" /\ t \in {r1, r2} /\ Tasks!Serve(t) /\ OnlyTasks
     \/ /\ part = "dated" /\ t \in {r1, r2} /\ OnlyResponses
        /\ Dated!Decide(t) \/ Dated!Claim(t) \/ Dated!Register(t) \/ Dated!Start(t)
             \/ Dated!StartFails(t)
     \/ /\ part = "undated" /\ t \in {r1, r2} /\ OnlyResponses
        /\ Undated!Decide(t) \/ Undated!Claim(t) \/ Undated!Register(t) \/ Undated!Start(t)
             \/ Undated!StartFails(t)

\* Clients poll; providers answer; a search goes on; the scheduler's passes follow each other.
Polls(t) ==
  /\ UNCHANGED part
  /\ \/ part = "dated" /\ Dated!Load(t, k1) /\ OnlyResponses
     \/ part = "undated" /\ Undated!Load(t, k1) /\ OnlyResponses
     \/ part = "leases" /\ t = r1 /\ Leases!Finish(t) /\ OnlyLeases
     \/ part = "leases" /\ t = r2 /\ Leases!LookAt(r1, b1) /\ OnlyLeases
     \/ part = "outbox" /\ t = r1 /\ Outbox!Pass(b1) /\ OnlyOutbox
     \/ part = "crowded" /\ t = r1 /\ Crowded!Pass(b1) /\ OnlyOutbox

Sends ==
  /\ UNCHANGED part
  /\ \/ part = "outbox" /\ Outbox!Deliver(b1) /\ OnlyOutbox
     \/ part = "crowded" /\ Crowded!Deliver(b1) /\ OnlyOutbox

\* The clock.
Ticks(n) ==
  /\ UNCHANGED part
  /\ \/ part = "lane" /\ n = 1 /\ Tick /\ OnlyLane
     \/ part = "outbox" /\ n < 3 /\ Outbox!Tick(<<r1, r2>>[n]) /\ OnlyOutbox
     \/ part = "crowded" /\ Crowded!Tick(<<r1, r2, r3>>[n]) /\ OnlyOutbox
     \/ part = "leases" /\ n < 3 /\ Leases!Lapse(<<k1, k2>>[n]) /\ OnlyLeases
     \/ part = "dated" /\ n = 1 /\ Dated!Tick /\ OnlyResponses

\* Where there is no deadline: generations end, their answers can be stored, and
\* threads can be started, if only now and then.
Ends(w) ==
  /\ UNCHANGED part /\ part = "undated" /\ OnlyResponses
  /\ \E s \in {"completed", "failed"} : Undated!Finish(w, s)
Releases(w) == UNCHANGED part /\ part = "undated" /\ Undated!Release(w) /\ OnlyResponses
Starts(t) == UNCHANGED part /\ part = "undated" /\ Undated!Start(t) /\ OnlyResponses

Fairness ==
  /\ \A t \in Requests : WF_all(Runs(t))
  /\ \A t \in {r1, r2} : WF_all(Polls(t)) /\ SF_all(Starts(t))
  /\ \A n \in 1..3 : WF_all(Ticks(n))
  /\ WF_all(Sends)
  /\ \A w \in {b1, b2, r3} : SF_all(Ends(w)) /\ WF_all(Releases(w))

MCSpec == MCInit /\ [][MCNext]_all /\ Fairness

-----------------------------------------------------------------------------
\* SurvivalLane: requests leave and slots come back, whatever backends do.
LaneMoves == WaitersLeave /\ SlotsReturn

\* DeliveryOutbox: every queued delivery of a channel that is drained is sent or given up,
\* also one that is too old for the list, where fewer rows of other channels are pending
\* than the list shows.
EveryDeliverySettles ==
  part \in {"outbox", "crowded"} /\ Outbox!Pending(r1)
    ~> (part \in {"outbox", "crowded"} => ~Outbox!Pending(r1))

\* OneMinLeases: every lease ends, also one whose holder died.
LeasesEnd ==
  part = "leases" /\ (\E l \in {k1, k2} : Leases!Active(l))
    ~> (part = "leases" => \A l \in {k1, k2} : ~Leases!Active(l))

\* HumanTasks: the step of a returned task goes on.
ReturnResumes ==
  part = "tasks" /\ Tasks!Unresumed ~> (part = "tasks" => ~Tasks!Unresumed)

\* BackgroundResponses: a polled response with a deadline ends for good; one without
\* ends too, through restarts and outages.
ResponsesEnd ==
  /\ part = "dated" /\ k1 \in known /\ Dated!InProgress(k1)
       ~> [](part = "dated" => record[k1].status \in Dated!Ended)
  /\ part = "undated" /\ k1 \in known /\ Undated!InProgress(k1)
       ~> (part = "undated" => record[k1].status \in Undated!Ended)
=============================================================================
