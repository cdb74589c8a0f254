# A formal model of Executive Assistant's core

This directory holds TLA+ modules, TLC configurations and TLAPS proofs about the
parts of Executive Assistant that decide what runs, when, how often and who hears of
it: the execution ledger and its runtime, the people who approve and return work, the
outbox, the mail guard, the accounts that cost money, the receipt ledger of spatial
renders, background responses and the survival lane. Paths are relative to the
repository root; `services/x.py`, `repositories/x.py`, `product/x.py` and
`api/routes/x.py` are files under `ea/app/`.

```
tlc -workers 2 -config sessions.cfg MCSessions   # one run
tlapm LedgerClientsProofs.tla                    # the proofs of a module
```

Contents: 1 the system, 2 the modules, 3 what is checked, 4 departures from the
documents, 5 what is proved, 6 what is not modelled, 7 the plan.

## 1. The system

A request (`execute_task_artifact`) is compiled to a plan, written to the ledger as a
*session* with *steps*, and executed step by step through *queue rows*. Queue workers
lease rows of any session; API threads execute a request inline and go on with a
session when an approval is decided or a human task returned; reviewers and operators
act at any time. Beside this runtime stand components with state machines of their
own, each shared by several processes, each calling something outside that may fail,
answer late or act and not say so.

No transaction spans two statements: the Postgres repositories open one autocommit
connection per call. So every thread can be overtaken, or die, between any two calls.
That, with leases that run out under a thread that is still working, files that
processes share, and providers that charge before they answer, is what makes this code
hard to test and worth modelling.

### Inventory

| Component | State it keeps | Hard behaviour | What makes it correct | Module |
|---|---|---|---|---|
| Execution ledger (`repositories/ledger_postgres.py`, twin `ledger.py`) | session status, step states, one queue row per step | leases that lapse, closing statements without an owner, conflicting inserts | rows held by one thread at a time up to lapses; attempts counted | `ExecutionLedger`, `LedgerClients` |
| Execution queue, step handlers, task call (`services/execution_*`) | local variables of nested loops | interleaved threads, stale snapshots, crashes between commits | dependency order, completion exactly when all is done, no lost continuation | `ExecutionRuntime` |
| Approvals (`services/execution_approval_*`, `repositories/approvals*`) | requests with status and TTL | a reviewer faster than the pause, TTL | the gate is respected, an approval resumes its session | `ExecutionRuntime`, `DraftDelivery` |
| Human tasks (`services/operator_task_routing_service.py`, `execution_operator_routing_service.py`, `repositories/human_tasks*`) | task rows, their events, the linked step | several operators, a return while the task is being created | one owner, one return, the step goes on | `HumanTasks` |
| Replanning (`services/replanning.py`) | new steps in a running session | two replacements at once, a death in between | one replacement per failure, one effect per plan step | `Replanning` |
| Delivery outbox (`repositories/delivery_outbox*`, `services/channel_runtime.py`, `runner.py`) | deliveries by idempotency key | look-up then insert, unconditional marks, two senders | a repeated message has a cause; every delivery settles | `DeliveryOutbox` |
| Outbound mail guard (`services/outbound_email_bounds.py`) | one JSON file under an flock | the clock is read before the lock; the file is cut off or too small | budget and cooldown hold | `EmailGuard` |
| OneMin manager (`services/onemin_manager.py`) | leases on provider accounts | counting and inserting in two statements, snapshots beside reports | caps hold for running calls; leases end | `OneMinLeases` |
| VocalLab (`services/audiobook_tts/providers/vocallab.py`, `budget_ledger.py`) | reservations of points, circuit breaker, pace | a POST that may have been charged | nothing bought twice, reserve kept, ambiguity freezes | `BudgetLedger`, `VocalLab` |
| Governed spatial renders (`services/governed_spatial_state.py`, `governed_spatial_render.py`) | receipt files and an index; a build's history | death between two renames; provider calls that hide a success | receipts returned are kept; nothing is called twice | `SpatialLedger`, `SpatialBuild` |
| Background responses (`api/routes/responses_background_*.py`) | records, worker threads, registry | polls that load before they lock, deadline races, restarts | slots given back, deadlines decide, responses end | `BackgroundResponses` |
| Survival lane (`services/survival_lane.py`) | cache, slots, cooldowns | exits of all kinds from a slot, backends that never answer | slots come back, a challenged backend rests | `SurvivalLane` |
| Draft replies (`product/service.py`) | approval, follow-up tasks, mails | two clients at once, a mail accepted with its answer lost | one approval; a mail or a follow-up | `DraftDelivery` |
| Memory candidates and commitments (`services/memory_runtime.py`, `product/service.py`) | three tables | a death between promotion and commitment, merges at once | accepted means there is a commitment | `CommitmentCandidates` |
| Runner, planner, observations, tool adapters, provider routing, context repositories, OODA, relays, release scripts, pages and routes | | | | section 6 |

The components meet in three places. The ledger's rows are used by the runtime and by
replanning; human task rows by operators and by the follow-ups of drafts; receipt
histories by the file ledger and by builds. Each has a module of its own
(`ExecutionLedger`, `HumanTaskRows`, `ReceiptLog`) that both users EXTEND or
INSTANCE.

`PROJECT.json` lists under "hazards" what is hard to test here, each at its line with
the properties that would catch it.

## 2. The modules

| Module | Role |
|---|---|
| `ExecutionLedger` | state of one session in the ledger, one operator per statement |
| `LedgerClients` | the ledger under arbitrary clients |
| `StaleLock` | abstract: a lock per item that may go stale; `LedgerClients` implements it |
| `ExecutionRuntime` | workers, API threads, reviewers, clock and crashes on that ledger |
| `SessionContract`, `RuntimeContract` | abstract: what a plan's submitter is promised; the mapping that shows `ExecutionRuntime` implements it |
| `Replanning` | sessions whose failed steps are replaced, on the same ledger |
| `HumanTaskRows`, `HumanTasks` | the table; operators' calls, events, the linked step and session |
| `DraftDelivery` | drafts, their mails and follow-ups, over the same table |
| `CommitmentCandidates` | candidates, memory items, commitments |
| `DeliveryOutbox` | enqueue, scheduler pass, proactive sender, API marks |
| `EmailGuard` | reservations and outcomes in the shared file |
| `OneMinLeases` | reserve, report, list, expire |
| `BudgetLedger`, `VocalLab`, `Purchase` | the points ledger; the provider's calls over it; abstract: an item is ordered once and an ambiguous order freezes |
| `ReceiptLog` | abstract: histories that grow by receipts the rules accept |
| `SpatialLedger`, `SpatialBuild` | files, index and flock that implement `ReceiptLog`; the build over it |
| `BackgroundResponses` | request threads, workers, registry, deadline |
| `SurvivalLane` | `execute` with cache, slots, route and cooldowns |
| `MC*` | instances for TLC |
| `LedgerClientsProofs`, `ExecutionRuntimeProofs` | theorems of the ledger and of `Replanning` on it; of the runtime on it |
| `SpatialLedgerProofs` | of `SpatialLedger`, of the `ReceiptLog` it implements and of `SpatialBuild` |
| `PaidProofs` | of `VocalLab` and of `OneMinLeases` |
| `DeliveryOutboxProofs` | of `DeliveryOutbox` and of `EmailGuard` |
| `ProductProofs` | of `HumanTasks`, `DraftDelivery` and `CommitmentCandidates` |
| `BackgroundResponsesProofs`, `SurvivalLaneProofs` | of the modules they are named after |

In every module a thread's place (`pc`, `at`, `phase`) names the statement it executes
next, and an action is that statement with the local code up to the next one. Calls
outside (tools, providers, mail) are actions of their own whose outcome is chosen; a
process that dies keeps nothing but what it wrote. Variables called `effects`, `calls`,
`posts`, `copies`, `grants`, `history`, `quiet`, `beside`, `overtaken` are history
variables: they record what happened and no guard of the code reads them.

### ExecutionLedger and LedgerClients

`session`, `step[s]`, `attempts[s]` and `row[s]` are `execution_sessions.status`,
`execution_steps.state`, `execution_steps.attempt_count` and the row of
`execution_queue` whose UNIQUE idempotency key is `rewrite:<session>:<step>`; the
key is why a step has at most one row. Every operator is one SQL statement
(`EnqueueRow`: the `INSERT ... ON CONFLICT`, which returns an existing row in
whatever state; `LeaseRow`/`NextAttempt`: the `UPDATE` with its `CASE`;
`CompleteRow`, `FailRow`, `RetryRow`: the three closing statements, which name
the row by `queue_id` only). The in-memory repository has the same guards and
effects.

Data are abstracted to what a guard compares: `expired` is
`lease_expires_at <= now`, `due` is `next_attempt_at IS NULL OR <= now`,
`failedBefore` is `last_error <> ''`, `born` is the rank of `created_at`. JSON inputs
and outputs, events, receipts and costs are left out: no guard reads them.

In `LedgerClients` clients enqueue, lease, report and close in any order. The only
discipline is one the whole code base keeps: a client closes only rows it was handed by
a lease. `held` says which; `grants` and `lapses` are history variables.

### ExecutionRuntime

`item[a]` is the step of the row a thread works on; `local[a]` has the leased attempt
count, the refreshed step, the ready steps it computed, and a `stack` of the
`queue_next_step_after` loops it is inside of: `run_queue_item` and
`queue_next_step_after` call each other, and everything a suspended loop still needs is
its kind, whether all steps were completed when it started, and the queue items left to
run.

| Code | Actions |
|---|---|
| `run_next_queue_item` (a worker's poll) | `LeaseNext` |
| `_next_eligible_queue_item_for_session` + `run_queue_item` | `Pick`, `Drain` or `ResumeOuter`, then `Lease` |
| `_execute_leased_queue_item` | `Start`, `Mark`, a handler, `Refresh`, `Close`; on an exception `RetryItem`, `RetryStep`, `RetrySession` or `FailItem`, `FailStep`, `FailSession` |
| handlers | `Prepare`; `Policy`, then `DenyStep`, `DenySession` or `Ask`, `AskStep`, `AskSession`, `AskRow` (`pause_for_approval`); `Invoke`, `FinishEffect`; `SkipMemory`; `CreateTask`, `TaskStep`, `TaskSession` |
| `queue_next_step_after` | `ContinueAfter`, `CheckPaused`, `Drain`, `Scan` (steps), then `EnqueueAll`, `EnqueueOne`, `RunNextItem` or `NothingReady` (queue) |
| `execute_next_ready_step` | `Pick`, `Scan`, `EnqueueFirst` or `MissingReady`, `EnqueueOne` |
| `drain_session_inline` | `ResumeOuter` |
| `execute_task_artifact` | the "request" frame and `After` |
| `decide_approval` | `Approve`, `ApproveStep`, `ApproveSession`, or `Reject`, `RejectStep`, `RejectSession` |
| `return_human_task` | `ReturnTask`, `ReturnStep`, `ReturnSession`, then `ContinueAfter` |
| clock, TTL, process death | `LeaseExpires`, `BackoffElapses`, `ExpireApproval`, `Crash` |

Simplifications, each of which keeps the control of the code:

- Two reads in a row of data nobody else's guard depends on are one action (the
  snapshot of `After`, the session read of `NothingReady`, the `target_step` that
  `pause_for_approval` was handed). The two reads of `ready_steps`, and the read
  of the step before its row is closed, are separate actions: their results
  are used after others may have written.
- The policy decision is a pure function of the input, so it is chosen once per
  session (`verdict`), and a plan has one policy step.
- `row.owner` holds the thread instead of the role string; no statement reads it
  in a guard.
- A memory candidate counts as an effect like a tool call. An exception is
  raised before or after the invocation, never between the writes of a pause.
- A session that leaves the request loop without an artifact drains once more in
  the code when it has failed or completed; nothing is eligible then, and the
  model ends the call.
- The paths `step_not_found` are left out (steps are never deleted), and so is
  `stop_before_step_id`, which no API call passes.
- The hook after a human task's return (`_after_human_task_return`) only stages a
  reflection about style, outside the session.

`Replanning` has the same actions for the failure strategy "replan", with workers
only: `Replan` (status "replanning" and the choice of another tool),
`StartReplacement`, `EnqueueReplacement`, `Requeue`, `FailReplanned`, `StepReplanned`.
A step is found by its key, newest first, as `ready_steps` does.

### The other components

- `HumanTasks`: `Begin` looks the task up; `Claim`, `Assign`, `Return` are the three
  conditional UPDATEs (`Refused` when one matches no row), `AppendEvent` the event,
  `RejectOutput`/`AcceptOutput` the output contract, `CompleteStep`, `ResumeSession`,
  `Continue` what a return does to the session. `Create` is the insertion, its event and
  the two pauses. What a resumed session does next is in `ExecutionRuntime`: here it is
  done when all its steps are.
- `DraftDelivery`: `Decide` is the conditional UPDATE of the approval; then mail,
  record, and either an event or a follow-up task; retries and completions by operators,
  reopening. A mail is accepted, refused, not tried, or accepted with the answer lost.
- `CommitmentCandidates`: staging, `promote_candidate` (item, then candidate),
  acceptance (look up a duplicate, create or read-merge-write), rejection, resolution
  and reopening; any request may die between statements.
- `DeliveryOutbox`: `LookUp` and `Insert` are the two statements of `enqueue`, `Defer`
  the interruption budget, `ListPending`/`Take`/`Send`/`MarkSent`/`MarkFailed` the
  recovery pass of `runner.py`; the sender of proactive messages uses the last three. It
  also sends when its enqueue fails: before the INSERT no row is left, after it a row it
  cannot mark, which is a lost mark (`MarkSent`).
- `EmailGuard`: a sender reads the clock, waits for the lock, prunes, refuses or writes;
  later records the outcome. A crash may leave the file empty or cut.
- `OneMinLeases`: a search looks at candidates and grants under a lock of its process;
  usage and release read and then write whole rows without it, and so does the listing
  that expires overdue leases.
- `VocalLab`: each transaction of the points file is one action of `BudgetLedger`, each
  request of the provider one of `VocalLab`; the provider charges when it likes, within
  `Overrun` points of the estimate.
- `SpatialLedger`: `Enter` (flock, reload, rules), `WriteTemp`, `Rename`, `PersistIndex`,
  `Return`, and a failure of each; `Crash` anywhere. A damaged directory answers every
  call with an exception.
- `SpatialBuild`: each operation is announced in a receipt (`Record`), called (`Call`),
  and recorded in the next; `Ask` may repeat at any time, privacy tombstones come at any
  time.
- `BackgroundResponses`: `Load` (before the lock), `Decide` (under it), `Claim`, `Register`,
  `Start` (`Claim` with the clean-up before it, which the code does under the lock once more: a
  worker that ends in between releases its own entry only); a worker's `Finish`,
  `FinishUnstored`, `Release`; `Restart` loses all threads and keeps the records.
- `SurvivalLane`: one action per critical section of `execute`; a backend's answers are
  kinds of outcome.

## 3. What is checked

### How the runs are put together

An MC module holds several instances ("parts") of components, each with the smallest constants
in which its interesting cases happen. A variable `part` is chosen at the start and never
changes; a step is a step of the chosen instance, and the variables of the others keep a
constant value. So the reachable states are the disjoint union of those of the parts, and a
property of the form `part = "x" => X!Inv` says of part x exactly what `X!Inv` says of that
instance. For the same reason a fairness condition that names the actions of several parts is,
in each behaviour, the fairness of its part. `MCPaid`, `MCOutbound`, `MCProduct` and
`MCResponses` extend one component each (`VocalLab`, `DeliveryOutbox`, `HumanTasks`,
`BackgroundResponses`), which is a part under its own names, so that a property the run checks
is the formula the theorem is about; in the other parts its variables keep their initial
values. Nothing is composed that way that shares state: components that do (`ExecutionLedger`
under `ExecutionRuntime`, `HumanTaskRows` under `DraftDelivery`, `ReceiptLog` under
`SpatialBuild`) are composed in the modules.

TLC's coverage (`-coverage 1`), taken over the runs, shows every action of the modules
taken in one part or another.

A property of an MC module gathers those of one component that speak of one promise;
its conjuncts are the component's named invariants and action formulas. Each component
module without a proved type invariant has its `TypeOK` among them.

Symmetry is declared only where the permuted names occur nowhere in the code's
decisions (clients of the ledger, response threads, operators, leases) and no liveness
is checked. `outbound` uses a VIEW in the two parts of the mail guard, where the history
variable grows with the clock and decides nothing. In *worn*, whose properties are about the
file, the view leaves it out. In *guard* it keeps of the attempts of the last window when
they began, whether they failed, and which of them is under way. `WindowBudget` and `Apart`
relate each new attempt to those at most a window before it, and were checked of older ones
when those began; a cooldown is shorter than the window. So two states that look alike in the
view differ in nothing that the properties of a later state can see.

### Runs

| Run | Parts and bounds | Properties | States |
|---|---|---|---|
| `ledger_clients` | 2 steps, 2 clients, 2 grants per row (the least with a holder before and after a lapse) | `TypeOK` `LeaseAccounting` `GrantsCounted` `ImplementsLock` | 121 300 |
| `whole_session` | prepare, review, save, policy, dispatch (fails, 2 attempts), memory; approval required or denied; a worker and an API thread; TTL, a crash and a lapse at once | `ExclusiveExecution` `AttemptsAccounted` | 722 501 |
| `sessions` | *approval*: all verdicts, two API threads. *reviewed*: prepare, human, save, policy, dispatch (2 attempts, backoff), memory. *parallel*: branches that join. *takeover*: a crash and a lapse. *interrupted*: crash, lapse and TTL around an approval. *overdue*: a handler outlives its lease. *fork*, *dies*: replanned branches; a worker that dies | `GateSafety` `NothingStranded` `EffectsBounded` `DependencyOrder` `KeepsContract` `CompletedForGood` `Settles` | 222 973 |
| `spatial` | file ledger, 2 processes, one key per family: *shared* (a refused write), *crash*, *faults* (two of any kind), *chain* (six receipts of one build). *build*: 3 workers, 2 deaths, 2 requests | `AcksKept` `CalledOnce` `SettledMeansSettled` `ImplementsReceiptLog` `DirectoryKept` `KeepsReceiptLog` `Concludes` | 291 887 |
| `responses` | *responses*: 2 responses, 2 clients, 3 threads, deadline 2, a restart, outages. *lane*: 3 requests, 3 questions, 2 slots | `SlotsAccounted` `DeadlineKept` `CooldownKept` | 1 161 587 |
| `progress` | *lane*: 3 requests, 2 questions, 2 backends, 1 slot. *outbox*: a drained row beside one of another channel. *crowded*: two drained rows beside one of another channel, of which the pass lists two. *leases*: a caller that may die, a listing thread. *tasks*: 2 tasks, 2 steps. *dated*, *undated*: a response with and without deadline, restarts, outages | `LaneMoves` `EveryDeliverySettles` `LeasesEnd` `ReturnResumes` `ResponsesEnd` | 55 272 |
| `product` | *returned*: 2 operators, 2 tasks, 4 calls. *created*: tasks being created, refused payloads, a restart. *drafts*: 2 clients, 3 calls. *in turn*: 1 client, 4 calls, a restart. *alone*: 3 candidates of one identity. *together*: 2 clients, one may die | `WinnersTold` `DraftKept` `AcceptedKept` `PausesKept` | 1 351 652 |
| `outbound` | *repeats*: two calls with one key, a row of another channel. *senders*: proactive sender, scheduler, a mark of the API. *guard*: 2 mailers, window of 3 s, clock to 4.5 s. *worn*: 2 recipients in a file that keeps one and may be cut, window of 2 s, clock to 3 s | `RepeatsExplained` `RetriesLimited` `WindowBudget` `ClearMeansFree` | 1 720 064 |
| `paid` | *voice*: 3 requests, 2 texts, 1 job, a fault. *observed*: a reused key, an observing process. *caps*: 3 callers of 2 classes. *died*: one place, 2 faults. *reports*: a remote report, which starts with a snapshot, beside a local one. *watched*: snapshots beside a remote report | `PostedOnce` `ReserveKept` `CapsKept` `ImplementsPurchase` | 427 174 |
| `review_bypassed` | policy, human review, save; approval required | violates `DependencyOrder` | |
| `gate_bypassed` | prepare, save, policy, dispatch; a worker | violates `GateSafety` | |
| `early_approval` | rewrite plan; a reviewer who does not wait for the pause | violates `ApprovalResumes` | |

The plans are those of the planner's templates (`services/planner.py`,
`_build_rewrite_steps`, `_build_artifact_then_packs_steps`) and the graph of
`tests/test_step_parent_projection_contracts.py`. One session is enough: rows of
different sessions share no state but the order in which workers pick them, and a worker
that is busy elsewhere is a worker that does not step. Two threads of a kind are enough
for every race of two statements; a third is added where one finishes while two others
still act (`voice`, `build`, `caps`, the workers of `responses`). Faults are bounded by
1 or 2: a fault, and a fault in the recovery from it. Attempts are bounded by 2: a
failure that is retried and one that is not. Clocks end after every deadline, cooldown
and window of the part has passed at least once; those of the mail guard go on for half a
window more, with two ticks to the second, so that attempts are pruned and others take
their place: its window slides. In *crowded* a row is due more than the list shows, and the
one of the channel that is not drained may be the newest of them.

Deadlock checking is off where the system may stop: a settled session, bounded calls, a
bounded clock. `NothingStranded`, `PausesKept` and the liveness properties say more
precisely where it may not.

### The properties

Of the ledger under any clients, `LeaseAccounting` (holders of a row never outnumber its
lapsed leases by more than one, although closing statements are not fenced by owner),
`GrantsCounted` (every start is in `attempt_count` or paid for by a lapse) and
`ImplementsLock` (the refinement of `StaleLock`).

Of sessions, `ExclusiveExecution`, `AttemptsAccounted`/`EffectsBounded` (an effect is repeated
only for a counted attempt, a lapse, or a dead worker; a row counts at most `max_attempts`
attempts and one for each lapse), `DependencyOrder`, `GateSafety`, `CompletedForGood` (reported
completed only when all is done, and for good), `NothingStranded` (when no thread, reviewer or
runnable row will touch the session again, it has an outcome: the safety form of "no lost
continuation"), `Settles`, and `KeepsContract`, the refinement of `SessionContract` (parts
*reviewed* and *parallel*).

Of people, `WinnersTold` (of all who ask for a task one gets it and one returns it, and
each change of the row is told of once), `PausesKept` (a paused session has somebody to wait
for), `DraftKept` (approved once; then mailed or followed up; every accepted mail is told
of), `AcceptedKept` (what is accepted is a commitment, whoever dies when, and a commitment
remembers what was merged into it, whoever else is at it; only a request that read it before
the merge and writes it back after it makes it forget).

Of what leaves the house, `RepeatsExplained` (calls with one key have one row, and every
repeated message has a cause: a lost mark, a lost answer, a reopened row, two senders at
once), `RetriesLimited` (tries within the limit under one scheduler; a dead letter has used
them up), `WindowBudget`, `ClearMeansFree`.

Of money, `PostedOnce`, `ReserveKept`, `ImplementsPurchase` (an ambiguous order freezes the
account), `CapsKept` (the caps hold for calls that run and not only for rows that were
counted).

Of spatial renders, `AcksKept` (what a save returned is in the index with its file in place),
`DirectoryKept` (it stays loadable, a damaged one is left alone, and quota of a committed
attempt is never recorded as given back), `ImplementsReceiptLog` and `KeepsReceiptLog` (files
and builds implement the same abstract histories), `CalledOnce`, `SettledMeansSettled`,
`Concludes`.

Of responses and the lane, `SlotsAccounted`, `DeadlineKept`, `ResponsesEnd`, `LaneMoves`,
`CooldownKept` (a backend that asked for a challenge is not asked again while its cooldown
lasts; only a request that was with it at that moment may come back and end it).

### Timing

`Slow` of `ExecutionRuntime` names the external events that never overtake a handler:

- `"lease"`: a lease runs out only when its holder is dead or gone (60 s against
  handlers that take seconds). Part *overdue* drops it.
- `"reviewer"`: nobody answers a request before the handler that asked for it has
  paused the session. `early_approval` drops it.
- `"caller"`: answers come after every call on the session has returned. Part *reviewed*
  and the other two violating runs have it, so their findings are not about fast
  reviewers.
- `"backoff"`: a positive retry backoff outlasts the two writes that follow it.

`Replanning` assumes `"lease"`. `OneMinLeases` does not: leases run out under live calls.
`EmailGuard` bounds the wait for the lock by `MaxWait`.

### Fairness

Each component module states its own (`Fairness` or `FairSpec`); MCSessions, MCSpatial
and MCProgress conjoin those of their parts.

- A running thread goes on (weak fairness of the actions it takes by itself): it is code
  between two statements. Workers and schedulers poll in endless loops that survive
  exceptions (`runner.py`). The clock advances.
- People answer in the end: `Settles` is a promise only as long as they do, so this is an
  assumption of the parts *approval* and *reviewed* and not of the code. `ReturnResumes`
  starts from a return and needs none.
- Clients poll a background response until it ended (`Load` is weakly fair). Without a
  deadline (*undated*) its generation ends, its answer can be stored and a thread can be
  started if tried often enough (strong fairness); with one, nothing of the kind is
  assumed.
- Adapters of a build answer, with success or error. A backend of the lane need not
  answer at all for waiters to leave; slots come back if it does.
- Nothing is fair about crashes, lapses, faults, outages or new calls.

## 4. Departures from the documents

Three runs show disagreements of code and documents:

1. **An approval bypasses a pending human review** (`review_bypassed`). With both an
   approval gate and a human review, `pause_for_approval` enqueues the gated save at once
   (`execution_approval_pause_service.py:46`), without looking at its dependencies.
   Approving runs that row ahead of `step_human_review`, against README.md:374. A single
   API thread is enough.
2. **A worker runs the dispatch before its approval** (`gate_bypassed`). The policy step
   is marked completed (`execution_step_runtime_service.py:197`) before the approval is
   requested and the target held back; a worker that continues the preceding step in
   between enqueues and runs it, against README.md:376 and RUNBOOK.md:194.
3. **A fast approval is lost** (`early_approval`). The request is visible before step and
   session are paused (`execution_approval_pause_service.py:32`); the pause then overwrites
   the resumption, against RUNBOOK.md:170.

More of them were met while modelling. The modules keep the formula that states what the
document says, with a note that the code does not keep it; no run has it as a property.
To see a counterexample, make the formula of the named instance an invariant or property
of the MC module's run; of the last two, which hold with an exception, the formula without
it (`overtaken`, `beside`).

| Formula | What is said | What the code does |
|---|---|---|
| `Replanning!RecoveredCompletes` | a replacement is a recovery step (`tests/test_cognitive_runtime_loops.py:321`) | the failed step stays failed beside its replacement, and `queue_next_step_after` completes a session only when all steps are (`execution_queue_service.py:209`) |
| `Replanning!FailedIsTerminal` | a failed step fails the session for good (README.md:366) | `request_replan` writes "queued" over "failed" when another branch failed meanwhile (`replanning.py:115`) |
| `DeliveryOutbox!DeliveredOnce` | idempotent enqueue (CHANGELOG.md:446) | a repeated call under an exhausted budget marks a sent row failed, and it is sent again (`channel_runtime.py:99`) |
| `DeliveryOutbox!RepeatsAnswered` | idempotency keys (RUNBOOK.md:59) | of two concurrent calls with one key one raises on the unique index (`delivery_outbox_postgres.py:184`) |
| `VocalLab!RateLimitIsRetryable` | a locally refused request is retryable (`ea/tests/test_audiobook_vocallab_provider.py:351`) | the reservation was marked posted before the pace refused it, and is left unknown: the account is frozen (`vocallab.py:995`) |
| `OneMinLeases!ReleasedWithUsage` | a call that succeeded ends released with its credits (`tests/test_tool_execution.py:7026`) | a listing writes an overdue row back whole, over usage and release (`onemin_manager.py:616`) |
| `SpatialLedger!Loadable`, after a restart or a failed sync | receipts reload across restarts (`tests/test_governed_spatial_render.py:870`) | a file the index does not name makes every load raise, for good (`governed_spatial_state.py:858`, `:623`) |
| `SpatialBuild!TombstoneStopsExecution` | `"build_allowed": False` (`governed_spatial_state.py:1151`) | the privacy status is read once before the reservation (`governed_spatial_render.py:3513`) |
| `SpatialBuild!CancelledReleasable` | the table lets a cancelled attempt be released (`governed_spatial_state.py:87`) | the rule on attempt numbers refuses every such receipt (`:343`, `:413`) |
| `SpatialBuild!CancelReleasesHeld` | `cancel` releases a held reservation (`governed_spatial_render.py:4066`) | the test before it replays such a build unchanged (`:4062`) |
| `BackgroundResponses!GeneratedOnce`, `OneAtATime` | one worker for concurrent polls (`tests/test_responses_api_contracts.py:6459`) | a poll decides by a record loaded before the lock (`responses_background_orchestration.py:199`); a worker that is registered but not started counts as dead (`:149`) |
| `EmailGuard!SentKeepsCooldown` | a sent mail keeps its full cooldown (`tests/test_outbound_email_bounds.py:82`) | evicted keys and a cut file forget it (`outbound_email_bounds.py:197`, `:236`) |
| `EmailGuard!RetryAfterKept` | a provider's retry-after is kept (`tests/test_outbound_email_bounds.py:130`) | it is counted from the attempt and not from the answer (`outbound_email_bounds.py:294`) |
| `HumanTasks!LastTransition` | the last event shows the latest ownership change (README.md:409) | row and event are two statements (`operator_task_routing_service.py:88`) |
| `HumanTasks!AssignedIsPending` | "assigned" is pending work (README.md:322) | `assign` also takes a claimed task and leaves it claimed (`human_tasks_postgres.py:504`) |
| `HumanTasks!WaitsForSomeone`, while a task is created or when a payload is refused | the step resumes when the packet is returned (README.md:404) | the pause follows the insertion and overwrites a return in between (`execution_operator_routing_service.py:225`); a refused payload leaves the row returned (`operator_task_routing_service.py:209`) |
| `DraftDelivery!RetriedWhileOpen` | a retry is offered for open follow-ups, its link works once (`api/routes/landing_channel.py:243`) | neither status nor use is looked at before the mail is sent (`product/service.py:18394`) |
| `DraftDelivery!RetriedByOwner` | `delivery_followup_owned_by_other_operator` (`product/service.py:18381`) | owner and assignment are read and written in two statements (`:18383`) |
| `CommitmentCandidates!ListedIsPromoted` | `/v1/memory/items` lists promoted items (README.md:341) | a promoted candidate may be rejected; its item stays (`memory_runtime.py:220`) |
| `CommitmentCandidates!MergedRemembered`, of all candidates (two clients) | merged candidates are remembered (`tests/test_product_api_contracts.py`) | read, merge and write back without a version (`product/service.py:18614`) |
| `SurvivalLane!CooldownKept`, of all requests (two slots) | a challenged backend is skipped (README.md:269) | the later timeout of a request that was there already writes its zero cooldown over the challenge's (`survival_lane.py:372`) |

Behaviour the runs' assumptions exclude, and which a maintainer should know of:
`NothingStranded` also fails when an approval expires by its TTL (only the request
changes), when a process dies between closing a row and enqueueing the next step, when a
retry without backoff meets a second drainer, and when one branch of a parallel plan fails
beside another in flight. With handlers longer than their lease, `ExclusiveExecution`,
`CompletedForGood` and `DependencyOrder` fail. After a crash a lapsed row may execute a
completed step again, so `KeepsContract` is checked without crashes. A delivery beyond the
LIMIT of the list waits as long as newer rows of channels nobody drains are pending.
These contradict no sentence of the documents.

## 5. What is proved

For every value of the constants, from the named assumptions on them and, where a theorem
has one, a condition stated in its hypotheses:

| Theorem | Statement | Inductive invariant |
|---|---|---|
| *Ledger and runtime* | | |
| `LedgerTypeCorrect` | `[]TypeOK` of `LedgerClients` | itself |
| `EveryGrantCounted` | `[]GrantsCounted` | `CountInv` |
| `AttemptsNeverDecrease` | no statement lowers an `attempt_count` | `CountInv` |
| `LeasesAccountedFor` | `[]LeaseAccounting` | itself, with types |
| `LedgerImplementsLock` | `LedgerClients` implements `StaleLock` | `LeaseAccounting` |
| `RuntimeTypeCorrect` | `[]TypeOK` of `ExecutionRuntime` | `TypeInv` |
| `OneExecutorPerStep` | `[]ExclusiveExecution`, if `"lease" \in Slow` | `LeaseInHand` |
| `EffectsAreCounted` | `[]EffectsCounted`, no timing assumption | `EffectsInv` |
| `AttemptsAreAccounted` | `[]AttemptsAccounted`, no timing assumption | `AttemptsInv` and `EffectsInv` |
| `GateHolds` | `[]GateSafety` of `ExecutionRuntime`, if `GatedInline` | `GateInv` |
| `DependenciesKept` | `DependencyOrder` of `ExecutionRuntime`, if `Steady` | `OrderInv` |
| `CompletedIsDone` | `[]CompletedMeansAllDone`, if `Steady` and `Allowing` | `OrderInv` and `CompletedInv` |
| `OutcomeIsFinal` | `[][KeepsOutcome]_vars`: what is completed stays so, a closed row is not leased again; if also `NoHuman` | and `RunsThrough` |
| `RuntimeKeepsContract` | `ExecutionRuntime` implements `SessionContract`, if `Undisturbed` | and `PlanInv` |
| `CarriedOut` | types, `CarriedOutOnce` and `ReplacedOnce` of `Replanning` | `ReplanInv` |
| `ReplanAnswered` | `[]ReplanningEnds` | `Answered` |
| `ReplannedInOrder` | `DependencyOrder` of `Replanning`, if `Orderly` | `Ordered` |
| *Money* | | |
| `VoiceTypeCorrect` | `[]TypeOK` of `VocalLab` | `IInv` |
| `OnePostPerText`, `ChargesStay` | `PostedOnce`; a text the provider was asked for keeps a reservation | `IInv` |
| `AmbiguityFreezes`, `TrippedStaysOpen` | no POST while a reservation is ambiguous; the circuit stays open | `IInv` |
| `LedgerIsPurchase` | `VocalLab` implements `Purchase` | `IInv` |
| `ReserveHolds` | `[]ReserveKept`, if the account starts above its reserve | `MoneyInv` |
| `CeilingsHold` | `[]JobCeilingKept` | `CeilingInv` |
| `LeasesTypeCorrect`, `NoPhantomLeases`, `UsageStays` | types of `OneMinLeases`; a blocked account has a cause; reported usage stays | `LeaseInv` |
| `CapsHold` | `[]CapsKept`, if all callers are in one process | `OneInv` |
| *Outbox* | | |
| `OutboxTypeCorrect`, `EnqueueOnce` | types; one row per key | `IInv` |
| `RepeatsHaveCauses`, `DeadLettersLate` | `[]RepeatsExplained`; a dead letter used up its attempts | `IInv` |
| `RetriesEnd` | `[]RetriesLimited`, if there is one scheduler | `TriesWithin` |
| `AttemptsInOrder`, `ClearIsFree` | types, `InOrder` and `ClearMeansFree` of `EmailGuard` | `FileInv` |
| `WindowsBudgeted` | `[]WindowBudget`, if `Roomy` | `GuardInv` |
| `AttemptsApart` | `[]Apart`, if `Roomy` and `Cooldown <= Window` | `GuardInv` |
| *People* | | |
| `TasksTypeCorrect`, `WaitsForReturn` | types of `HumanTasks`; a waiting step goes on only when a task of its own was returned | `RowsInv` |
| `WinnersKept` | `[]WinnersTold`, for created tasks and for those of a paused session | `TasksInv` |
| `SomebodyIsThere` | of a paused session, `CompletedWaitsForNone` and without a restart `WaitsForSomeone`, if no payload is refused | `WaitsInv` |
| `DraftTypeCorrect`, `ApprovalMailsOnce`, `RetriesWereMailed` | types of `DraftDelivery`; one mail per approval; a follow-up closed as retried was mailed | `DraftInv` |
| `MailsAreTold` | `EveryMailTold` | `MailsTold` |
| `ApprovedIsSeenTo` | `DeliveredOrFollowed`, if the resumed session does not raise | `SeenTo` |
| `FollowupIsOne` | `OneFollowup`, for one client that uses the product alone | `OneOpen` |
| `CandidatesTypeCorrect`, `PromotedNamesItem`, `AcceptedBecomes` | types of `CommitmentCandidates`; promoted has its item; accepted is a commitment | `ReviewInv` |
| `MergesAreRemembered` | `[]MergedRemembered`, any number of requests at once | `MergeInv` |
| `OneItemEach` | `[]OneItem`, if `AtOnce = 1` | `SerialInv` |
| *Renders, responses, lane* | | |
| `AttemptsFinal`, `QuotaStays` | neither a history the rules accept nor what a directory records gives back quota for which an attempt was committed | `AttemptsOrdered` |
| `ReturnedReceiptsStay` | `[]AcksKept` of `SpatialLedger`, any crashes and faults | `IInv` |
| `DamageStays` | a damaged directory is written by nobody | `IInv` |
| `LedgerIsReceiptLog` | `SpatialLedger` implements `ReceiptLog` | `IInv` |
| `NoSecondCall`, `SettledIsSettled` | types, `CalledOnce`, `Announced` and `SettledMeansSettled` of `SpatialBuild` | `BuildInv` |
| `BuildsKeepLog` | `SpatialBuild` implements `ReceiptLog` | `BuildInv` |
| `OutcomesRecordable` | `[]Recordable`, if `MaxAttempts >= 1` | `BuildInv` |
| `SlotsAreAccounted` | `[]SlotsAccounted` of `BackgroundResponses` | `IInv` |
| `DeadlineDecides` | `DeadlineKept` | `IInv` |
| `TypeCorrect`, `SlotsCounted` | `[]TypeOK` of `SurvivalLane`; the counter is the number of holders | `IInv` |
| `ChallengedRests` | `CooldownKept`, any number of slots | `RestInv` |
| `AnsweredNotAsked` | `AskedOnce`, if `MaxActive = 1` | `OneInv` |

The invariants and why they are needed:

- `CountInv` adds that a row that is absent, or queued and never failed, was never
  granted. Without it a first lease, which sets the count to 1 or leaves the count it was
  enqueued with, could not be told from an uncounted one.
- `TypeInv` adds to `TypeOK` that a thread at a label inside a loop has a non-empty stack,
  without which `Tail` of the stack has no type.
- `LeaseInHand`: a thread with a row in its hands owns that row's live lease. Two threads
  cannot both own it. Crashes keep it because a dead thread holds nothing; lapses keep it
  because of the timing assumption, the only use of it.
- `EffectsInv` pays in advance: a thread that may still invoke the tool (`Starters`) and a
  lease that ran out but was not yet taken over (`Overdue`) each claim one unit of
  `attempt + lapses`. A takeover turns the unit of the lapse into that of the new starter,
  an invocation turns it into an effect, and a retry can be leased again only at the price
  of an attempt. `ExecutionRuntimeProofs` first reduces the many actions of `Next` to seven
  kinds of step (`StepKinds`); the invariants are then proved per kind.
- `AttemptsInv`: of the last attempt there is one chance. Either the row waits for it
  (`Claim`), or one thread works on the row and may put it back (`Tries`); attempts below
  the limit are set aside for it (`Base`). A lapse adds a chance, since then the row can be
  leased beside a thread that still works on it, and that is the `lapses` of the bound.
- `GateInv` says where the runtime is with the policy step, and that it is in one of three
  places. Not carried out yet: then one thread at most runs (`BeforeGate`), and the target is
  neither in the queue nor in anybody's hands, for it waits for the policy. Being decided
  (`AtGate`): that thread applies the decision and holds no ready step. Decided: the policy
  was cleared (`Cleared`, and nothing is left to show), or the session is paused or at an end
  (`Stopped`), where nothing is leased, or whoever had to go on is dead. A second worker
  breaks the first place, a human step the third; run `gate_bypassed` shows the first.
- `OrderInv` says of each step where its row and threads are: who may still take its
  completion back (`Busy`), when that is past for good, and that a row in the queue has its
  dependencies completed (`Awaited`). A completed step may be written again only by a thread
  that is busy with it, and the lease makes that one thread; the one step others may write is
  the target, whose state an approval or a denial sets. `DependenciesKept` follows because
  nothing that is invoked depends on the target (or the policy allows everything).
- `CompletedInv`: either all steps are completed, or the session is not, and every loop on a
  stack counted its steps before they all were. Counting is read and written later, with
  other drains nested between, so the invariant is about stacks of any depth.
- `RunsThrough` says that nobody stands at a statement of a pause, and that the row a raised
  handler left is still as it left it when the session is written: so a session is set running
  or failed only by a thread whose step is open, never after its completion.
- `PlanInv` adds for the contract what each thread finds its step to be (`WorkInv`; two
  threads at work are at different steps, and an unleased row's step is queued or about to
  be) and that a failed session has a failed step and nobody at work (`EndInv`). `InLine` is
  what a failure needs: every step at work has its dependencies completed and is not completed
  itself, of such steps there is one, so when it fails nobody works beside it. The contract's
  tries come from `AttemptsAccounted` with no lapse, the leases being long enough.
- `ReplanInv`: nobody leases a row somebody works on (`OneWorker`), which needs that leases
  outlive handlers; and of each key the steps that are open and those that were carried out
  are together one, and one more per crash (`Replaced`). A step is open until its tool has
  answered for good: an answer moves it from the one count to the other, a replacement takes
  the place of the step it replaces, and only a crash opens a step again. `Ordered` adds that
  what is open or was carried out is the newest step of its key (`Newest`), so that the newest
  step is the one that was carried out when any was, and that what is queued has its
  dependencies behind it (`Met`).
- The refinement of `StaleLock` maps `holders[i]` to the clients that hold i and `stale[i]`
  to the lapses; `LeaseAccounting` is what makes an acquisition legal.
- `IInv` of `VocalLab`: one live reservation per text (`OneRow`); what the row of a call is
  while the call is at work, since nobody else writes it then (`AtWork`); between the
  reservation and the POST the provider knows nothing of the text and no reservation is
  ambiguous (`Unsent`). `Purchase` sees of a text whether it is open, ordered, delivered or
  frozen; `AtWork` and `Unsent` say that each transaction moves it along that order.
- `MoneyInv` adds that what may still be charged lies beside the reserve (`SpareKept`), and
  that a balance that was read before others were charged is not too high by more than what
  the rows hold (`SeenFresh`): the reserve is checked against an old balance and present
  rows. `CeilingInv` is the same for the sum of a job (`JobsCapped`), of which
  `JobCeilingKept` is the part already charged. Both end where the provider charges more
  than was estimated (`Overruns`). Sums over rows are handled without induction: that a sum
  changes with one term is proved from the smallest set for which it would not.
- `LeaseInv` of `OneMinLeases`: as long as a lease lasts nobody but its holder writes its row
  (`Fresh`), and who lists or copies a row has its account and class right (`Written`).
  `OneInv` adds that the counted rows are within the caps and that what a search found
  eligible still is (`StillAllowed`), which the lock gives within one process only.
- `IInv` of the outbox: rows of a pass are distinct and have not lost attempts since they
  were listed (`InPass`); and a message of a row that is marked sent was paid for, for each
  sender that will still send it (`CopiesPaid`), the argument of `EffectsInv`.
  `TriesWithin` gives each row a budget of sends: those made and those it may still see,
  pending, listed or in flight, are within the limit and the faults. With two schedulers it
  fails: TLC finds `TriesBounded` violated by two that list the same row.
- `FileInv` of the mail guard: who holds the lock writes what it read, and what it is about to
  write is later than all of it, though its own clock was read earlier (`InOrder`).
  `GuardInv` relates the file to the attempts made: with room it holds the last of them, what
  was dropped is out of the window, and so the count in the file is the count in the window.
- `RowsInv` reads a task's row off its history (`RowTold`) and says what a call under way
  knows of its task (`CallKnows`). `TasksInv` adds that every change has its event or one
  call that owes it, each counted (`AllTold`). `WaitsInv`: a waiting step has a task that is
  open or a call that will let it go on; in a paused session no task appears late, which is
  why created tasks are excluded.
- `DraftInv`: before the approval nothing happened (`Untouched`); of those who are to mail
  and the mails for the approval there is one at most (`MailedOnce`); who will close a
  follow-up as retried has mailed it (`RetriesMailed`). `MailsTold` counts events and calls
  that owe one against mails, with equality unless a restart cut a call off. `SeenTo`: what
  is approved was accepted, is followed up, or a call is on the way there. `OneOpen`: the
  follow-up a single client looks for is still missing when it creates one.
- `ReviewInv`: who reviews a candidate has an item of it; promoted means became, or a request
  is about to make it so, or died. `MergeInv`: a candidate is staged by one request, under
  an id of its own (`StagedOnce`), so that its duplicate is settled before anything comes of
  it; and whoever will write a commitment back knows all that was merged into it and not
  overtaken (`RowKnows`). A merge beside another writer counts as overtaken at once, and who
  reads later reads what is remembered. `SerialInv` says what holds at each place when
  requests come one at a time (`InOrder`): a candidate without item is not promoted. With
  `AtOnce = 2` TLC finds two items of one candidate.
- `IInv` of `SpatialLedgerProofs` says who holds the flock while something is being saved
  (`Locked`), that the saver's cache is the index (`Fresh`), where its receipt is at each
  place (`InPlace`, `Replaced`), and that what was returned is named and in place (`Kept`).
  An index write is then an append the rules accepted, and everything else a stutter.
- `BuildInv`: of those who work on a build, one has the newest receipt to go by (`Owning`), and
  it may call what that receipt announces (`Rightful`); what was not announced was not
  called. What was taken outside is read off the newest receipt, and the rules accept a
  receipt for every answer.
- `IInv` of `BackgroundResponsesProofs`: a request thread at work has a response
  (`Named`), one about to start a worker has an unstarted thread of its own (`Starters`),
  and only a response past its deadline is `timed_out` (`TimedOutLate`).
- `RestInv` of `SurvivalLaneProofs`: while a backend is to be left alone, its recorded
  cooldown lasts at least as long, and whoever is with it was so when it asked (`BesideIt`).
  Nobody comes to it meanwhile, so those whose outcome may shorten the cooldown are the ones
  the property excepts. `OneInv`: with one slot the requests that may call a backend are one
  (`Alone`), so no question is answered between the look into the cache and the call
  (`Unanswered`); with two slots one is.

The assumptions (`LedgerAssumption`, `RuntimeAssumption`, `ClientAssumption`,
`ReplanAssumption`, `SurvivalAssumption`, `VocalLabAssumption`, `OneMinAssumption`,
`OutboxAssumption`, `GuardAssumption`, `HumanTasksAssumption`, `DraftBounds`,
`CandidatesAssumption`, `BuildAssumption`, and those of `BackgroundResponses` and
`SpatialLedger`) are the types of the constants, finitely many threads, and absent values
that are no values; TLC evaluates them in the runs. The conditions are what the code needs
and does not enforce by itself:

- one process for the OneMin caps, one scheduler for the limit of tries, one request at a
  time for `OneItemEach`, one slot for `AnsweredNotAsked`;
- `GatedInline`: no worker process, the policy step before the target, no human step
  (section 4 has what happens with a worker);
- `Steady`: handlers finish within their lease and before a reviewer or a backoff, no process
  dies, a step that may be tried again has a backoff; and the policy allows the session, or
  the target waits for no more than the policy step and nothing waits for the target, as in
  the plan of a rewrite (run `review_bypassed` has a target that also waits for a review;
  section 4 has the long handlers and the retry without backoff);
- `NoHuman`: a returned task sets the session running, also when another branch has completed
  or failed it in between;
- `Undisturbed`: `Steady`, the policy allows the session, no human step, and no step fails or
  steps come one after the other (`InLine`): a branch that starts after another has failed
  sets the failed session running again. Part *parallel* of run `sessions` satisfies it;
- `Orderly`: no worker dies while a session is replanned (else the row it held is leased
  again, and the step replaced a second time under the eyes of those that depend on it), and
  the first step waits for nothing, which `execute_next_ready_step` sees to;
- `Roomy`: the file of the mail guard has room for every key (`MAX_KEYS`) and no write is cut
  off; `Cooldown <= Window`, as the defaults of 1800 seconds and a day are;
- `MaxAttempts >= 1`, which the contract of an authorization does enforce.

Only model-checked: `DependencyOrder` where a step waits for a gated one (part *reviewed*);
`NothingStranded`, which relates what is left in the queue to every place a continuation may
be at; the contract of plans with human steps, approvals or denials (part *reviewed*), where
a pause takes a step back; finality across approvals; `GateSafety` of plans with a human
step; and everything about what happens in the end, which is out of the prover's reach, as
is ENABLED. The modules use no RECURSIVE operator: the nested calls of the runtime are the
explicit `stack`, and sums are folds.

## 6. Not modelled

Of modelled components: ledger events, receipts and costs (append-only, read by no guard),
the content of steps, queries and listings that change no state, the scores by which
operators, accounts and routes are chosen (they narrow a choice the model leaves open),
`replace_state` of the OneMin manager, the sealed store of spatial materials, health
snapshots.

Of the repository, which is far larger than its state machines: the planner, contracts and
policy (pure compilation; their plans are inputs here); observations and context
repositories (independent rows); tool adapters, provider routing and upstream streaming,
messaging relays (calls outside; the models leave their outcomes open); the proactive OODA
services (classification and text over receipts); the rest of `product/service.py` with its
pages, property search and briefs, and of the channel routes; release materialization,
guide workers and live-operations scripts under `scripts/` (run one after the other, by
one caller); routes that only parse and project. The audiobook EPUB pipeline (a job
directory under two flocks with a timeout) has a state machine of its own and is left
for later; of its speech only the VocalLab provider is modelled, where money is spent.
`PROJECT.json` lists each with its sources. By lines these are most of the repository, so
the share of it that is modelled stays small.

## 7. Plan

Done: the runtime and its ledger with two refinements; replanning; human tasks; drafts,
candidates; outbox, mail guard; OneMin leases; VocalLab; spatial ledger and builds;
background responses; survival lane; theorems about all of these.

Worth doing next, in this order:

1. Proofs: `SessionContract` and `GateSafety` of plans with a review before the gate;
   `NothingStranded`.
2. The prebuild coordinator of spatial renders and `replace_state` of the OneMin manager.
3. The audiobook EPUB pipeline: job and render locks, checkpoints, resumption.
4. The follow-ups of `product/service.py` that are no drafts, with a second `HumanTasks`
   composition.
