# t3-steward: TLA+ model, checks and proofs

t3-steward runs a backlog of agent tasks on a fleet of workers. One coordinator
keeps every attempt of every task in a SQLite store; workers report snapshots,
receive offers and commands, and run agent threads; a quota watchdog throttles
work; agents park their attempt on waits and are woken by messages; operators
intervene with commands. The project models the part of this where several
actors write the same rows from reads that may be stale.

## The system

| Part (source) | State | Operations | What is hard |
|---|---|---|---|
| Custody store (`store/sqlite/fleet.go`, `worker_commands.go`, `worker_reconcile.go`, `recovery.go`, `lifecycle.go`) | attempts, assignments, worker snapshots, commands, the coordinator epoch | offer, claim, release, lease expiry, command, acknowledgement, worker-state transition, recovery | two rows per attempt written by different transactions; fences by epoch, sequence and revision |
| Planning and exchange (`backlog/coordinator.go`, `worker_reconcile.go`, `worker_exchange.go`, `repair.go`) | what was read | plan offers, commands and transitions; repair | the plan is made before the transaction that commits it |
| Throttling (`backlog/throttle_delivery.go`, `store/sqlite/throttle_delivery.go`) | throttle records | drain, pause, deadline, resume, acknowledge | late answers projected on an attempt that moved on |
| Task-bound waits (`store/sqlite/task_wait*.go`, `domain/task_wait.go`) | wait rows | register, settle, expire, cancel, wake, list, transition | settlement races; a wake commits before it is delivered |
| Wake delivery (`wait/task.go`, `control/t3/node_wake.go`) | runners' reads, messages | claim, send, observe, record | at most one message, over a service that can fail after it succeeded |
| Operators and results (`backlogadmin/execution.go`, `backlog/turn_outcome.go`) | the same rows | start, pause, resume, cancel, skip, rewake, import | act on rows in any state |
| Worker runtime (`workerruntime/`) | journal, threads, workspaces | prepare, dispatch, stop, collect | effects before acknowledgements, restart |
| Supervision, activations, schedules, task graph, campaigns, reviews | records per run | gates, holds, triggers, projection | out of order activations, several epochs |
| Quota policy and telemetry (`policy`, `daemon`, `source`, ...) | buckets | warn, drain, stop, resume | thresholds and stale observations |
| Wire protocol, configuration, command line, archive, clients | - | formats and I/O | - |

`PROJECT.json` lists every part, with the reason for each that is not modelled,
and the hazards with their source lines.

## Modules

| Module | Content |
|---|---|
| `AttemptCustody` | Abstract: an attempt is free, offered, held or settled, under an epoch that names one worker |
| `AssignmentLifecycle` | The coordinator's rows and every actor that writes them |
| `AssignmentLifecycleProofs` | Type correctness, custody agreement, refinement of `AttemptCustody` |
| `AssignmentLifecycleStepProofs` | Action properties and the properties of parks and dispatches |
| `TaskWakes` | The waits of attempts, one by one, and the delivery of wake messages |
| `TaskWakesProofs` | At most one send, and that delivery records are true |
| `MCAssignmentLifecycle`, `MCTaskWakes` | Constants and symmetry for TLC |

### AssignmentLifecycle

`att`, `asgn`, `cmd`, `snap`, `thr` and `wait` are the rows of the store; `coord`
is the coordinator epoch. Every SQLite transaction is one step. The reads made
before a transaction live in `flight`: `PlanOffer`, `DeliverOffer`,
`PlanWorkerCommand` and `PlanWorkerStateTransitions` fill a flight, and
`CommitAssignmentPlan`, `ClaimAssignment`, `CommitWorkerCommand` and
`CommitWorkerStateTransitions` run its transaction later, evaluating only the
fences the code evaluates. A flight survives `AcquireCoordinator`, so a deposed
coordinator's write can arrive late: the model does not rely on the file lock
that normally prevents this.

A worker is the source of arbitrary observations of the assignments it may know
(`Reports`): its snapshots can be late, partial, or of a new worker epoch. The
worker epoch is a number its configuration declares. The reconciliation of one
observation with the rows is a set of pure operators (`ReleasedRows`,
`ObservedClaimRows`, `ReconciledRows`, ...), one per branch of
`planWorkerStateTransition`.

Time is two facts: a snapshot is fresh or not, and a lease may elapse at any
step. A thread identity is a function of the assignment epoch. `completedAt` is
kept apart from the progress, since the code tests both. An attempt has one
throttle record that is not settled, and its waits are two flags (live, settled);
`TaskWakes` has the waits themselves. A throttle binds every execution its worker
reports, which is wider than the code: it also wants a known thread and workspace
and leaves out attempts an administrator forced to start. Turn outcomes are `done`,
the only marker the result import sends. Exact replays of a request change nothing
and are not steps. `RepairCoordinatorState` is one step although the code loads,
decides and upserts without a fence: the planning goroutine is the only one that
offers. Attention stops, review refusals, activation offers, retries and the
task graph are not in the module.

### TaskWakes

`wait` holds the wait rows, `att` what waits see of an attempt (progress,
revision, whether its assignment is held, settled or no longer named, and its
thread), `turn` the thread's turn, and `runner` what each runner has read and how
far it is. `flying` and `arrived` are messages; `told` counts how often an
outcome was handed to the thread service, including calls that failed.

A runner lists (`TaskWakesAwaitingDelivery`, which also closes stale wakes),
then for each message observes, abandons or claims it, sends, and records. Each
store call and each thread call is a step; a runner can stop at any of them
(`GiveUp`). Two runners stand for a daemon that is replaced while it delivers. A
send can succeed, be lost, or fail and arrive later. An observation can miss a
message that is there, because the thread listing is bounded. A message's
identity in the code is its first wait and the revision; a wait is woken once, so
the first wait is enough. A fresh claim event is written by every claim of a
group and is not represented; rows of older binaries, which have none, are left
out, and so are attention and ask waits and the reasons a wake is deferred.

The two modules overlap in the attempt: `AssignmentLifecycle` decides when it
moves, `TaskWakes` lets it move at any time (`AttemptMoves`, `AttemptEnds`,
`ExecutionReleased`, `ExecutionClaimed`).

## Runs

`tlc -config <run's cfg> <module>`; all use one worker and one executor slot
where `AssignmentLifecycle` is concerned. Deadlock is not checked: the bounds on
revisions and epochs end every behaviour.

| Run | Instance | Shows |
|---|---|---|
| `races` | 1 attempt, 2 flights, 2 coordinator epochs, 2 assignment epochs, revision 5; no other actors | `TypeOK`, `CustodyAgreement`, `PreparedBeforeDispatch`, `DeposedCoordinatorWritesNothing` |
| `epochs` | 1 attempt, 1 flight, 2 worker epochs, 2 assignment epochs | `CustodyRefinement`: the rows implement `AttemptCustody` |
| `actors` | throttle, waits and administrator on 1 attempt | `ParkHasWaker`, `NoLostUpdate`, `EndedUnlessOffered`, `StoppingNeedsProof`, `ParkHeld` |
| `capacity` | 2 attempts, waits | `CapacityReacquired`: a wake takes a slot only if one is free |
| `runners` | 1 attempt, 2 waits, 2 runners; the attempt ends, is released, recovered and claimed on a new thread; threads are archived | `TypeOK`, `SentAtMostOnce`, `DeliveredIsThere`, `AbandonedUnsent`, `GroupMovesTogether`, `OutcomeKept` |
| `resolved` | 1 attempt, 2 waits, 1 runner, fair | `EveryWakeResolved` |

The bounds are small but let the interesting cases happen: two assignment epochs
are one hand-over; revision 5 is an offer, a claim and two more writes after it;
two flights are one stale operation against a current one; two waits are the
smallest group, and the smallest set with both modes; two runners are one
crashed or late sender and its successor. In `TaskWakes`, `MaxRev` bounds the
writes of the other actors only, so that a wake is never disabled by the bound.
Each passing property has a mutant in `PROJECT.json`, a plausible slip in one
mapped definition (a dropped guard, a missing comparison, a wrong branch) under
which TLC finds it violated.

### Where a document and the code disagree

| Run | Property | What happens |
|---|---|---|
| `rewake` | `CapacityReacquired` | The administrator's rewake resumes a parked attempt without a slot |
| `ended` | `EndedNeverClaimed` | An attempt cancelled while offered is requeued by the release of a narrowed offer, and claimed |
| `recovered` | `RecoveredStaysUnassigned` | A throttle record of the earlier execution moves a recovered attempt that nobody holds |
| `newepoch` | `EpochChangeIsNoProof` | A dispatched, running execution whose lease expired is released because a snapshot of a new worker epoch does not report it |
| `blocked` | `HeldWakeResolved` | An ended attempt that lost its assignment while its wake was uncertain fails the listing for all attempts, from then on |
| `withdrawn` | `AnswerNotWithdrawn` | A turn that registers another wait between a wake and its delivery loses the first outcome |

The findings in `PROJECT.json` quote the lines. `EpochChangeIsNoProof` is about
executions whose dispatch was accepted and whose attempt is running: the release
of a claim that was never dispatched is what the same documents, the comment of
`PlanWorkerStateTransitions` and its test ask for. `blocked` is checked under the
fairness below and shows a behaviour that stays stuck although every pass keeps
running.

### Fairness

Only `resolved` and `blocked` use it (`FairSpec`). The expiry of each wait, the
wake pass of each attempt, the listing, and the send and the record of a runner
are weakly fair: `tickTaskWaits` runs all of them on every tick and every wait
has a deadline. Handling a listed message is strongly fair, per message: each
tick goes through the whole list, and a runner that fails or holds a wake back
(crash, drained quota) does not do so forever. A ready attempt is claimed
eventually. The wake pass is assumed to find capacity. The delivery of a late
message is not fair: it may be lost. Nothing else is assumed, in particular
no fairness of attempts, turns or sends that succeed.

## Proofs

All theorems hold for any constants that satisfy the named assumptions:
`BoundsAssumption` and `WorkersAssumption` (positive bounds, some worker) for
`AssignmentLifecycle`; `OfAssumption` (every wait has an attempt),
`NoWaitAssumption` and `MaxRevAssumption` for `TaskWakes`.

**Custody** (`AssignmentLifecycleProofs`). `CustodyAgreement` is not inductive:
a transition in flight carries rows that were read earlier, and a throttle
answer writes a control. `CustodyInvariant` adds that a planned transition moves
the assignment it was read from and leaves its attempt well parked
(`PlannedShape`), that parks have one shape (`WellParked`), and that no pending
throttle record unassigns or parks (`ThrottleShape`). `InvariantHolds` proves it
action by action; `TypeCorrect` and `CustodyAgrees` follow. `CustodyRefined`
shows that every step maps to a step of `AttemptCustody` or to a stutter.

**Steps** (`AssignmentLifecycleStepProofs`). From the same invariant:
`UpdatesAreNotLost`, `DeposedWritesNothing`, `EndedStays`, `StopIsProven`. Parks
need `ParkInvariant`, which adds that an offered attempt is not parked;
`ParksHaveWakers` and `ParksAreHeld` follow. `DispatchIsPrepared` strengthens the
property with what a planned dispatch in flight implies.

**Wakes** (`TaskWakesProofs`), for any number of runners, attempts and waits.
`SentAtMostOnce` is not inductive: a runner that has claimed is about to send, and
what it read may be old. `WakeInvariant` says what each piece of state implies
about the others: a runner that claimed is the only one for its message, whose
waits are all uncertain and unsent (`ClaimShape`); a message speaks for its whole
group, which was sent (`MessageShape`); what may have been sent is not pending or
abandoned (`SentIsClaimed`); a runner's entry names the group of a woken wait,
which no longer changes (`EntriesShape`, `WokenShape`). A second claim would need a
pending wait of a claimed group, and a delivered record a message in the thread of
a group nobody is sending. `WakeInvariantHolds` proves it action by action;
`WakeTypes`, `SentOnce`, `DeliveredIsTrue`, `AbandonedIsTrue` and
`GroupsMoveTogether` follow, and `OutcomesAreKept` is the step property.

Only model-checked: `CapacityReacquired`, which counts a set, and the liveness
properties, since fairness is out of the prover's reach.

## Not modelled, and the plan

1. `CollectionFence`: a worker never collects a turn that parked
   (`workerruntime/task_wait.go`, `runtime.go` `collectUnlessWaiting`).
2. `WorkerRuntime`: journal phases, effects before acknowledgements, bounded
   preparation retries, restart under the same or another epoch.
3. `Fleet`: `AssignmentLifecycle` composed with worker runtimes; no two
   executions of an attempt run at once, and liveness of offers.
4. Throttling with several directives, leases, owner notification, supervision
   gates and activation offers, schedule triggers, the task graph; the quota
   policy as an operator checked against its thresholds.

Formats, configuration, command line, clients of external services, archives
and rendering are left out: they are I/O without shared state.
