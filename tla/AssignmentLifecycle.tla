------------------------ MODULE AssignmentLifecycle ------------------------
(***************************************************************************)
(* The coordinator's durable custody of attempts: which worker holds an    *)
(* attempt, under which fencing epochs, and how worker evidence, operator  *)
(* commands, quota throttling and task-bound waits move it.                *)
(*                                                                         *)
(* Every SQLite transaction is one atomic step.  What a caller reads       *)
(* before it opens the transaction is kept in a "flight" and may be stale  *)
(* when the transaction runs, also across a coordinator restart: only the  *)
(* fences the transaction itself evaluates protect the store.              *)
(*                                                                         *)
(* Abstractions.  Time is two facts: a snapshot is fresh or not, and a     *)
(* lease may elapse at any step.  A thread identity is a function of the   *)
(* assignment epoch.  paused stands for paused and paused-uncheckpointed.  *)
(* An attempt has at most one throttle record that is not settled, and its *)
(* task-bound waits are two flags: some are live, some are settled and not *)
(* yet woken.  Attention stops, review refusals and the task graph are not *)
(* in this module.                                                         *)
(***************************************************************************)
EXTENDS Integers, FiniteSets

CONSTANTS
    Attempts,        \* attempts of the runs under execution
    Workers,         \* enrolled workers
    Flights,         \* operations that may be between their read and their write
    Slots,           \* executor slots every worker declares
    Actors,          \* who acts besides the exchange: "throttle", "waits", "admin"
    MaxCoord,        \* bound: coordinator epochs
    MaxWorkerEpoch,  \* bound: epochs of one worker
    MaxSeq,          \* bound: snapshot sequence in one worker epoch
    MaxEpoch,        \* bound: assignment epoch
    MaxRev           \* bound: attempt revision

ASSUME BoundsAssumption ==
    /\ Slots \in Nat \ {0}
    /\ MaxCoord \in Nat \ {0}
    /\ MaxWorkerEpoch \in Nat \ {0}
    /\ MaxSeq \in Nat \ {0}
    /\ MaxEpoch \in Nat \ {0}
    /\ MaxRev \in Nat \ {0}

ASSUME WorkersAssumption == Workers # {}

VARIABLES
    coord,   \* the coordinator epoch
    att,     \* attempt rows
    asgn,    \* assignment rows, one per attempt
    cmd,     \* worker command rows of the current assignment epoch
    snap,    \* newest stored snapshot of each worker
    thr,     \* newest throttle record of each attempt
    wait,    \* task-bound waits of each attempt
    flight   \* reads whose transaction has not run yet

vars == <<coord, att, asgn, cmd, snap, thr, wait, flight>>

-----------------------------------------------------------------------------
(* States. *)

TerminalProgress == {"succeeded", "failed", "cancelled", "skipped"}

Progress == {"ready", "active", "waiting-external", "verifying"}
              \cup TerminalProgress

Control == {"unassigned", "preparing", "running", "draining", "paused",
            "resuming", "stopped", "waiting-external"}

AssignmentState == {"none", "offered", "claimed", "released", "completed", "unknown"}

\* What one snapshot says of one assignment: the claimed state is split by
\* the control the worker reports with it, "absent" is no observation.
ObservedState == {"absent", "preparing", "running", "paused", "waiting-external",
                  "released", "completed", "unknown"}

ObservedClaim == {"preparing", "running", "paused", "waiting-external"}

CommandKind == {"prepare", "dispatch", "stop", "collect"}

CommandState == {"none", "pending", "accepted", "rejected"}

ThrottleKind == {"none", "warn", "drain", "hard-stop", "resume"}

ThrottleDelivery == {"none", "pending", "acknowledged", "rejected", "cancelled"}

Attempt == [progress : Progress, control : Control, attached : BOOLEAN,
            completedAt : BOOLEAN, rev : 1..MaxRev]

Assignment == [state : AssignmentState, epoch : 0..MaxEpoch,
               worker : Workers, wepoch : 0..MaxWorkerEpoch]

Command == [state : CommandState, wepoch : 0..MaxWorkerEpoch]

Observation == [state : ObservedState, epoch : 0..MaxEpoch]

Snapshot == [wepoch : 1..MaxWorkerEpoch, cepoch : 0..MaxCoord, seq : 0..MaxSeq,
             fresh : BOOLEAN, obs : [Attempts -> Observation]]

Throttle == [kind : ThrottleKind, delivery : ThrottleDelivery, control : Control]

Wait == [live : BOOLEAN, settled : BOOLEAN]

NoCommand == [state |-> "none", wepoch |-> 0]

NoThrottle == [kind |-> "none", delivery |-> "none", control |-> "unassigned"]

Idle == [op |-> "idle"]

OfferFlight == [op : {"offer"}, a : Attempts, w : Workers, rev : 1..MaxRev,
                cepoch : 1..MaxCoord, wepoch : 1..MaxWorkerEpoch, seq : 0..MaxSeq]

ClaimFlight == [op : {"claim"}, a : Attempts, w : Workers, epoch : 0..MaxEpoch,
                cepoch : 1..MaxCoord, wepoch : 1..MaxWorkerEpoch]

CommandFlight == [op : {"command"}, a : Attempts, w : Workers, kind : CommandKind,
                  epoch : 0..MaxEpoch, cepoch : 1..MaxCoord,
                  wepoch : 1..MaxWorkerEpoch, seq : 0..MaxSeq]

\* One planned worker-state transition: the rows it was planned from, the rows
\* it writes, and whether its reason is "worker-observed-stopped".
Transition == [expected : Assignment, expectedRev : 1..MaxRev,
               assignment : Assignment, attempt : Attempt, stopped : BOOLEAN]

NoTransition == [none |-> TRUE]

ReconcileFlight == [op : {"reconcile"}, w : Workers, cepoch : 1..MaxCoord,
                    wepoch : 1..MaxWorkerEpoch, seq : 0..MaxSeq,
                    items : [Attempts -> Transition \cup {NoTransition}]]

Flight == {Idle} \cup OfferFlight \cup ClaimFlight \cup CommandFlight
            \cup ReconcileFlight

-----------------------------------------------------------------------------
(* Predicates of the domain package. *)

Terminal(t) == t.progress \in TerminalProgress

Finished(t) == Terminal(t) \/ t.completedAt

HoldsProviderSlot(c) == c \in {"preparing", "running", "draining", "resuming"}

TurnLive(t) ==
    /\ t.progress \in {"active", "waiting-external"}
    /\ t.control \in {"preparing", "running", "resuming", "waiting-external"}

WaitingExternal(t) ==
    t.progress = "waiting-external" \/ t.control = "waiting-external"

WorkerOwnsStopIntent(t) == t.control \in {"draining", "paused"}

UnfinishedPark(t) == ~Finished(t) /\ WaitingExternal(t)

OwnsExecutorCapacity(t, r) ==
    r.state \in {"offered", "claimed", "unknown"} /\ t.control # "waiting-external"

CapacityOwners(w) ==
    {a \in Attempts : asgn[a].worker = w /\ OwnsExecutorCapacity(att[a], asgn[a])}

\* connected, unexpired, accepting and ready
WorkerAccepts(w) == snap[w].fresh

\* Mutant: what the worker already holds is not counted.
ExecutorCapacityUncounted(w) == WorkerAccepts(w)

ExecutorCapacity(w) ==
    WorkerAccepts(w) /\ Cardinality(CapacityOwners(w)) < Slots

-----------------------------------------------------------------------------
(* Row updates. *)

\* updateAttemptTx: every write of an attempt advances its revision.
SaveAttempt(a, t) ==
    /\ att[a].rev < MaxRev
    /\ att' = [att EXCEPT ![a] = [t EXCEPT !.rev = att[a].rev + 1]]

SaveAssignment(a, r) == asgn' = [asgn EXCEPT ![a] = r]

Finish(t, p) ==
    [t EXCEPT !.progress = p, !.control = "stopped", !.completedAt = TRUE]

\* Mutant: the control keeps its zero value.
RequeueZeroControl(t) ==
    [t EXCEPT !.progress = "ready", !.control = "", !.attached = FALSE]

\* ready and unassigned, no longer bound to an assignment
Requeue(t) ==
    [t EXCEPT !.progress = "ready", !.control = "unassigned", !.attached = FALSE]

\* Mutant: only the control leaves the park.
ResumedControlOnly(t) == [t EXCEPT !.control = "resuming"]

\* What a wake and a rewake make of a parked attempt.
Resumed(t) == [t EXCEPT !.progress = "active", !.control = "resuming"]

\* Mutant: the epoch a caller read under is not compared.
CoordinatorCurrentSkipped(p) == TRUE

\* requireCoordinatorEpoch: the caller's read was made under the current epoch.
CoordinatorCurrent(p) == p.cepoch = coord

\* The caller still speaks of the worker's session, and of its newest snapshot.
SessionCurrent(p) == snap[p.w].wepoch = p.wepoch /\ snap[p.w].cepoch = p.cepoch

SnapshotCurrent(p) == SessionCurrent(p) /\ snap[p.w].seq = p.seq

\* The observation of a in snapshot s that is about a's current assignment epoch.
ObservationOf(a, s) ==
    IF s.obs[a].epoch = asgn[a].epoch THEN s.obs[a].state ELSE "absent"

-----------------------------------------------------------------------------
Init ==
    /\ coord = 1
    /\ att = [a \in Attempts |-> [progress |-> "ready", control |-> "unassigned",
                                  attached |-> FALSE, completedAt |-> FALSE, rev |-> 1]]
    /\ asgn \in [Attempts -> [state : {"none"}, epoch : {0},
                              worker : {CHOOSE w \in Workers : TRUE}, wepoch : {0}]]
    /\ cmd = [a \in Attempts |-> [k \in CommandKind |-> NoCommand]]
    /\ snap = [w \in Workers |->
                 [wepoch |-> 1, cepoch |-> 0, seq |-> 0, fresh |-> FALSE,
                  obs |-> [a \in Attempts |-> [state |-> "absent", epoch |-> 0]]]]
    /\ thr = [a \in Attempts |-> NoThrottle]
    /\ wait = [a \in Attempts |-> [live |-> FALSE, settled |-> FALSE]]
    /\ flight = [f \in Flights |-> Idle]

-----------------------------------------------------------------------------
(* Coordinator authority and worker snapshots. *)

\* AcquireCoordinator: the new owner advances the epoch.  A pending command of
\* an older epoch is never delivered or counted again.
AcquireCoordinator ==
    /\ coord < MaxCoord
    /\ coord' = coord + 1
    /\ cmd' = [a \in Attempts |-> [k \in CommandKind |->
                 IF cmd[a][k].state = "pending" THEN NoCommand ELSE cmd[a][k]]]
    /\ UNCHANGED <<att, asgn, snap, thr, wait, flight>>

\* What a snapshot of w may say: nothing of an assignment w does not have,
\* anything of one it has.
Reports(w) ==
    {o \in [Attempts -> Observation] : \A a \in Attempts :
        /\ o[a].epoch = asgn[a].epoch
        /\ (asgn[a].worker # w \/ asgn[a].state = "none") => o[a].state = "absent"}

\* saveWorkerSnapshot: the same worker epoch needs a later sequence; a new
\* worker epoch starts over.
SnapshotEpochs(w) ==
    {e \in 1..MaxWorkerEpoch :
        \/ e = snap[w].wepoch /\ snap[w].seq < MaxSeq
        \/ e = snap[w].wepoch + 1}

ObserveSnapshot(w, e, o) ==
    /\ snap' = [snap EXCEPT ![w] =
                 [wepoch |-> e, cepoch |-> coord, fresh |-> TRUE, obs |-> o,
                  seq |-> IF e = snap[w].wepoch THEN snap[w].seq + 1 ELSE 1]]
    /\ UNCHANGED <<coord, att, asgn, cmd, thr, wait, flight>>

SnapshotExpires(w) ==
    /\ snap[w].fresh
    /\ snap' = [snap EXCEPT ![w].fresh = FALSE]
    /\ UNCHANGED <<coord, att, asgn, cmd, thr, wait, flight>>

\* The caller of a transaction fails, is refused, or dies before it commits.
AbandonFlight(f) ==
    /\ flight[f] # Idle
    /\ flight' = [flight EXCEPT ![f] = Idle]
    /\ UNCHANGED <<coord, att, asgn, cmd, snap, thr, wait>>

-----------------------------------------------------------------------------
(* Offer and claim. *)

\* PlanAndCommit reads an eligible attempt and a current snapshot of a worker.
PlanOffer(f, a, w) ==
    /\ flight[f] = Idle
    /\ att[a].progress = "ready" /\ att[a].control = "unassigned" /\ ~att[a].attached
    /\ snap[w].cepoch = coord /\ WorkerAccepts(w)
    /\ flight' = [flight EXCEPT ![f] =
                   [op |-> "offer", a |-> a, w |-> w, rev |-> att[a].rev,
                    cepoch |-> coord, wepoch |-> snap[w].wepoch, seq |-> snap[w].seq]]
    /\ UNCHANGED <<coord, att, asgn, cmd, snap, thr, wait>>

\* Mutant: a released row is offered again under the epoch it had.
OfferEpochKept(r) == IF r.state = "none" THEN 1 ELSE r.epoch

OfferEpoch(r) == r.epoch + 1

\* The transaction of CommitAssignmentPlan: a first offer, or a re-arm of the
\* released row under the next epoch.
CommitAssignmentPlan(f) ==
    LET p == flight[f] IN
    /\ p.op = "offer"
    /\ CoordinatorCurrent(p)
    /\ ~att[p.a].attached
    /\ att[p.a].rev = p.rev
    /\ ~Terminal(att[p.a]) /\ att[p.a].control = "unassigned"
    /\ asgn[p.a].state \in {"none", "released"}
    /\ SnapshotCurrent(p) /\ ExecutorCapacity(p.w)
    /\ asgn[p.a].epoch < MaxEpoch
    /\ SaveAssignment(p.a, [state |-> "offered", epoch |-> OfferEpoch(asgn[p.a]),
                            worker |-> p.w, wepoch |-> p.wepoch])
    /\ SaveAttempt(p.a, [att[p.a] EXCEPT !.attached = TRUE])
    /\ cmd' = [cmd EXCEPT ![p.a] = [k \in CommandKind |-> NoCommand]]
    /\ flight' = [flight EXCEPT ![f] = Idle]
    /\ UNCHANGED <<coord, snap, thr, wait>>

\* The offer goes to the worker, which answers with a claim.
DeliverOffer(f, a) ==
    LET w == asgn[a].worker IN
    /\ flight[f] = Idle
    /\ asgn[a].state = "offered" /\ asgn[a].wepoch = snap[w].wepoch
    /\ snap[w].cepoch = coord /\ WorkerAccepts(w)
    /\ flight' = [flight EXCEPT ![f] =
                   [op |-> "claim", a |-> a, w |-> w, epoch |-> asgn[a].epoch,
                    cepoch |-> coord, wepoch |-> snap[w].wepoch]]
    /\ UNCHANGED <<coord, att, asgn, cmd, snap, thr, wait>>

\* The transaction of ClaimAssignment.
ClaimAssignment(f) ==
    LET p == flight[f] IN
    /\ p.op = "claim"
    /\ CoordinatorCurrent(p)
    /\ SessionCurrent(p) /\ WorkerAccepts(p.w)
    /\ asgn[p.a] = [state |-> "offered", epoch |-> p.epoch, worker |-> p.w,
                    wepoch |-> p.wepoch]
    /\ att[p.a].attached /\ ~Terminal(att[p.a]) /\ att[p.a].control = "unassigned"
    /\ SaveAssignment(p.a, [asgn[p.a] EXCEPT !.state = "claimed"])
    /\ SaveAttempt(p.a, [att[p.a] EXCEPT !.progress = "active", !.control = "preparing"])
    /\ flight' = [flight EXCEPT ![f] = Idle]
    /\ UNCHANGED <<coord, cmd, snap, thr, wait>>

\* Mutant: the released row is left attached to its attempt.
ReleaseNarrowedOfferAttached(a) ==
    /\ asgn[a].state = "offered"
    /\ SaveAssignment(a, [asgn[a] EXCEPT !.state = "released"])
    /\ SaveAttempt(a, [Requeue(att[a]) EXCEPT !.attached = TRUE])
    /\ UNCHANGED <<coord, cmd, snap, thr, wait, flight>>

\* releaseNarrowedOffersTx: a hold, gate or amendment no longer admits the task
\* of an outstanding offer.
ReleaseNarrowedOffer(a) ==
    /\ asgn[a].state = "offered"
    /\ SaveAssignment(a, [asgn[a] EXCEPT !.state = "released"])
    /\ SaveAttempt(a, Requeue(att[a]))
    /\ UNCHANGED <<coord, cmd, snap, thr, wait, flight>>

\* RepairCoordinatorState: an offer whose attempt has ended, or an offer or
\* claim its attempt does not name, is released; the attempt is not written.
RepairCoordinatorState(a) ==
    /\ asgn[a].state \in {"offered", "claimed"}
    /\ (asgn[a].state = "offered" /\ Terminal(att[a])) \/ ~att[a].attached
    /\ SaveAssignment(a, [asgn[a] EXCEPT !.state = "released"])
    /\ UNCHANGED <<coord, att, cmd, snap, thr, wait, flight>>

\* ExpireAssignmentLeases over the claims whose leases have elapsed.
ExpireAssignmentLeases(S) ==
    /\ S # {} /\ \A a \in S : asgn[a].state = "claimed"
    /\ asgn' = [a \in Attempts |->
                 IF a \in S THEN [asgn[a] EXCEPT !.state = "unknown"] ELSE asgn[a]]
    /\ UNCHANGED <<coord, att, cmd, snap, thr, wait, flight>>

\* Mutant: an attempt that has ended is requeued.
RecoveredAttemptRequeued(t, outcome) ==
    IF outcome = "failed" THEN [Finish(t, "failed") EXCEPT !.attached = FALSE]
    ELSE Requeue(t)

RecoveredAttempt(t, outcome) ==
    IF outcome = "failed" THEN [Finish(t, "failed") EXCEPT !.attached = FALSE]
    ELSE IF Finished(t) THEN [t EXCEPT !.control = "stopped", !.attached = FALSE]
    ELSE Requeue(t)

\* RecoverUnknownAssignment: an operator resolves an unknown execution.
RecoverUnknownAssignment(a, outcome) ==
    /\ asgn[a].state = "unknown" /\ att[a].attached
    /\ SaveAssignment(a, [asgn[a] EXCEPT !.state = "released"])
    /\ SaveAttempt(a, RecoveredAttempt(att[a], outcome))
    /\ UNCHANGED <<coord, cmd, snap, thr, wait, flight>>

-----------------------------------------------------------------------------
(* Worker commands. *)

Has(a, k) == cmd[a][k].state # "none"

Accepted(a, k) == cmd[a][k].state = "accepted"

Rejected(a, k) == cmd[a][k].state = "rejected"

\* Mutant: a prepare that is planned is taken for one that is accepted.
DispatchDueEager(a) ==
    ~Has(a, "dispatch") /\ att[a].control \in {"preparing", "resuming"}

DispatchDue(a) ==
    /\ Accepted(a, "prepare") /\ ~Has(a, "dispatch")
    /\ att[a].control \in {"preparing", "resuming"}

\* nextWorkerCommand: the command a's rows and observation o call for, or "".
NextWorkerCommand(a, o) ==
    LET t == att[a]  r == asgn[a] IN
    CASE o = "completed" -> IF Has(a, "collect") THEN "" ELSE "collect"
      [] o # "completed" /\ (Finished(t) \/ t.control = "stopped") ->
           IF Has(a, "stop") THEN "" ELSE "stop"
      [] OTHER ->
           IF r.state # "claimed" \/ WaitingExternal(t) THEN ""
           ELSE IF ~Has(a, "prepare") THEN "prepare"
           ELSE IF DispatchDue(a) THEN "dispatch" ELSE ""

PlanWorkerCommand(f, w, a) ==
    LET k == NextWorkerCommand(a, ObservationOf(a, snap[w])) IN
    /\ flight[f] = Idle
    /\ snap[w].cepoch = coord /\ snap[w].fresh
    /\ asgn[a].worker = w /\ asgn[a].wepoch = snap[w].wepoch
    /\ asgn[a].state \in {"claimed", "unknown"}
    /\ k # ""
    /\ flight' = [flight EXCEPT ![f] =
                   [op |-> "command", a |-> a, w |-> w, kind |-> k,
                    epoch |-> asgn[a].epoch, cepoch |-> coord,
                    wepoch |-> snap[w].wepoch, seq |-> snap[w].seq]]
    /\ UNCHANGED <<coord, att, asgn, cmd, snap, thr, wait>>

\* workerCommandAttemptEligibleTx
CommandEligible(a, k) ==
    k \in {"prepare", "dispatch"} =>
        /\ att[a].attached /\ ~Finished(att[a])
        /\ ~WaitingExternal(att[a]) /\ att[a].control # "stopped"

\* The transaction of CommitWorkerCommands.
CommitWorkerCommand(f) ==
    LET p == flight[f] IN
    /\ p.op = "command"
    /\ ~Has(p.a, p.kind)
    /\ CoordinatorCurrent(p)
    /\ SnapshotCurrent(p) /\ WorkerAccepts(p.w)
    /\ asgn[p.a].worker = p.w /\ asgn[p.a].wepoch = p.wepoch /\ asgn[p.a].epoch = p.epoch
    /\ asgn[p.a].state \in IF p.kind \in {"prepare", "dispatch"}
                           THEN {"claimed"} ELSE {"claimed", "unknown"}
    /\ CommandEligible(p.a, p.kind)
    /\ cmd' = [cmd EXCEPT ![p.a][p.kind] = [state |-> "pending", wepoch |-> p.wepoch]]
    /\ flight' = [flight EXCEPT ![f] = Idle]
    /\ UNCHANGED <<coord, att, asgn, snap, thr, wait>>

\* AcknowledgeWorkerCommand: the epochs fence the answer, not the sequence.
AcknowledgeWorkerCommand(a, k, answer) ==
    LET w == asgn[a].worker IN
    /\ cmd[a][k].state = "pending"
    /\ snap[w].wepoch = cmd[a][k].wepoch /\ snap[w].cepoch = coord /\ WorkerAccepts(w)
    /\ cmd' = [cmd EXCEPT ![a][k].state = answer]
    /\ UNCHANGED <<coord, att, asgn, snap, thr, wait, flight>>

-----------------------------------------------------------------------------
(* Worker-state reconciliation: what one observation does to an assignment   *)
(* row r and its attempt t.  Each operator returns the two rows it leaves;   *)
(* rows equal to the ones given mean that no transition is planned.          *)

Rows(r, t) == [assignment |-> r, attempt |-> t]

\* releasedWorkerState: a parked attempt keeps its reference to the released
\* assignment.
ReleasedRows(r, t) ==
    Rows([r EXCEPT !.state = "released"],
         IF UnfinishedPark(t) THEN t
         ELSE IF Finished(t) THEN [t EXCEPT !.control = "stopped", !.attached = FALSE]
         ELSE IF t.control = "stopped" THEN [t EXCEPT !.attached = FALSE]
         ELSE Requeue(t))

\* completedWorkerState
CompletedRows(r, t, e) ==
    Rows([r EXCEPT !.state = "completed", !.wepoch = e],
         IF UnfinishedPark(t) THEN t
         ELSE [t EXCEPT !.progress = IF Finished(t) THEN @ ELSE "verifying",
                        !.control = "stopped"])

\* observedCompletedWorkerState: completed, and not yet collected
ObservedCompletedRows(r, t, e) ==
    Rows([r EXCEPT !.state = "claimed", !.wepoch = e],
         IF UnfinishedPark(t) THEN t
         ELSE [t EXCEPT !.progress = IF Finished(t) THEN @ ELSE "active",
                        !.control = "stopped"])

\* Mutant: the observed control is applied to a parked attempt.
ObservedClaimRowsUnpark(r, t, e, o) ==
    LET held == [t EXCEPT !.attached = TRUE] IN
    Rows([r EXCEPT !.state = "claimed", !.wepoch = e],
         IF WorkerOwnsStopIntent(t) THEN held
         ELSE IF Finished(t) THEN [held EXCEPT !.control = "stopped"]
         ELSE IF t.control = "resuming" THEN held
         ELSE [held EXCEPT !.progress = "active", !.control = o])

\* The claimed case of planWorkerStateTransition; o is the observed control.
\* Coordinator intent, a finish and a park outrank what the worker reports.
ObservedClaimRows(r, t, e, o) ==
    LET held == [t EXCEPT !.attached = TRUE] IN
    Rows([r EXCEPT !.state = "claimed", !.wepoch = e],
         IF WorkerOwnsStopIntent(t) THEN held
         ELSE IF Finished(t) THEN [held EXCEPT !.control = "stopped"]
         ELSE IF t.control = "resuming" THEN held
         ELSE IF t.progress = "waiting-external" THEN [held EXCEPT !.control = "waiting-external"]
         ELSE IF "waiting-external" \in {t.control, o} THEN held
         ELSE [held EXCEPT !.progress = "active", !.control = o])

\* The unknown case: what is unknown already stays as it is.
ObservedUnknownRows(r, t, e) ==
    IF r.state = "unknown" THEN Rows(r, t)
    ELSE Rows([r EXCEPT !.state = "unknown", !.wepoch = e],
              IF Finished(t) \/ ~WorkerOwnsStopIntent(t)
              THEN [t EXCEPT !.control = "stopped"] ELSE t)

\* No observation: durable command receipts, then the worker's silence.
UnobservedRows(a, e) ==
    LET r == asgn[a]  t == att[a] IN
    IF Accepted(a, "stop") THEN Rows(r, t)
    ELSE IF Accepted(a, "collect") THEN CompletedRows(r, t, r.wepoch)
    ELSE IF WorkerOwnsStopIntent(t) \/ t.control = "resuming" THEN Rows(r, t)
    ELSE IF Rejected(a, "prepare") \/ Rejected(a, "dispatch") THEN ReleasedRows(r, t)
    ELSE IF Finished(t)
         THEN IF r.wepoch # e THEN Rows(r, t) ELSE Rows(r, [t EXCEPT !.control = "stopped"])
    ELSE IF ~WaitingExternal(t) /\ Accepted(a, "dispatch") /\ r.state = "claimed"
         THEN Rows(r, [t EXCEPT !.progress = "active", !.control = "running"])
    ELSE IF r.state = "unknown" \/ r.wepoch # e THEN ReleasedRows(r, t)
    ELSE Rows(r, t)

\* planWorkerStateTransition of a against observation o of worker epoch e.
ReconciledRows(a, o, e) ==
    LET r == asgn[a]  t == att[a] IN
    CASE o \in ObservedClaim -> ObservedClaimRows(r, t, e, o)
      [] o = "released" -> IF e = r.wepoch THEN ReleasedRows(r, t) ELSE Rows(r, t)
      [] o = "completed" -> IF Accepted(a, "collect") THEN CompletedRows(r, t, e)
                            ELSE ObservedCompletedRows(r, t, e)
      [] o = "unknown" -> ObservedUnknownRows(r, t, e)
      [] OTHER -> UnobservedRows(a, e)

\* PlanWorkerStateTransitions: one transition per assignment the worker holds
\* whose rows would change.
PlannedTransition(a, w) ==
    LET o == ObservationOf(a, snap[w])
        n == ReconciledRows(a, o, snap[w].wepoch) IN
    IF /\ asgn[a].worker = w /\ asgn[a].state \in {"claimed", "unknown"}
       /\ n # Rows(asgn[a], att[a])
    THEN [expected |-> asgn[a], expectedRev |-> att[a].rev, assignment |-> n.assignment,
          attempt |-> [n.attempt EXCEPT !.rev = att[a].rev + 1], stopped |-> o = "released"]
    ELSE NoTransition

PlanWorkerStateTransitions(f, w) ==
    LET items == [a \in Attempts |-> PlannedTransition(a, w)] IN
    /\ flight[f] = Idle
    /\ snap[w].cepoch = coord /\ snap[w].fresh
    /\ \E a \in Attempts : items[a] # NoTransition
    /\ \A a \in Attempts : items[a] # NoTransition => att[a].rev < MaxRev
    /\ flight' = [flight EXCEPT ![f] =
                   [op |-> "reconcile", w |-> w, cepoch |-> coord,
                    wepoch |-> snap[w].wepoch, seq |-> snap[w].seq, items |-> items]]
    /\ UNCHANGED <<coord, att, asgn, cmd, snap, thr, wait>>

\* durableParkReleaseHandoff: the release of a parked attempt changes nothing
\* of the attempt but its revision.
ParkReleaseHandoff(t, i) ==
    UnfinishedPark(t) /\ t.attached /\ i.attempt = [t EXCEPT !.rev = i.attempt.rev]

\* The worker of p has reported the current execution of a stopped.
StopProven(a, w) ==
    ObservationOf(a, snap[w]) = "released" /\ snap[w].wepoch = asgn[a].wepoch

\* Mutant: the release of a cancelled attempt needs no proof.
NeedsStopProofUnlessCancelled(t, i) ==
    \/ i.stopped
    \/ /\ i.assignment.state = "released"
       /\ t.control \in {"draining", "paused", "resuming"}

\* A stop reason, or the release of an attempt the coordinator was stopping,
\* resuming or had cancelled.
NeedsStopProof(t, i) ==
    \/ i.stopped
    \/ /\ i.assignment.state = "released"
       /\ t.control \in {"draining", "paused", "resuming"} \/ t.progress = "cancelled"

\* Mutant: the revision of the attempt is not compared.
RowsAsReadAnyRev(a, i) == asgn[a] = i.expected

\* The rows a transition was planned from are the rows it replaces.
RowsAsRead(a, i) == asgn[a] = i.expected /\ att[a].rev = i.expectedRev

\* validateWorkerStateTransition: the transition moves one execution of the worker
\* of p and does not change its identity.
ValidTransition(i, p) ==
    LET r == i.expected  n == i.assignment IN
    /\ r.worker = p.w /\ r.epoch > 0 /\ r.state \in {"claimed", "unknown"}
    /\ n.worker = r.worker /\ n.epoch = r.epoch
    /\ n.state \in {"claimed", "unknown", "released", "completed"}
    /\ n.state \in {"claimed", "unknown"} => n.wepoch = p.wepoch
    /\ i.attempt.rev = i.expectedRev + 1
    /\ n.state # "released" => i.attempt.attached
    /\ n.state = "released" /\ i.attempt.attached => UnfinishedPark(i.attempt)

\* The fences CommitWorkerStateTransitions evaluates for one transition i of a.
TransitionAdmitted(a, i, p) ==
    LET t == att[a]  n == i.assignment IN
    /\ ValidTransition(i, p)
    /\ RowsAsRead(a, i)
    /\ n.state = "released" /\ (i.attempt.attached \/ UnfinishedPark(t))
         => ParkReleaseHandoff(t, i)
    /\ ~ /\ n.state = "claimed"
         /\ WorkerOwnsStopIntent(t) \/ t.control = "resuming"
         /\ \/ i.attempt.control \in {"preparing", "running"}
            \/ i.attempt.control = "resuming" /\ t.control # "resuming"
    /\ NeedsStopProof(t, i) => StopProven(a, p.w)
    /\ Finished(t) =>
         /\ i.attempt.progress = t.progress /\ i.attempt.completedAt = t.completedAt
         /\ \/ i.attempt.control = "stopped"
            \/ n.state = "claimed" /\ i.attempt.control = t.control /\ WorkerOwnsStopIntent(t)

\* The transaction of CommitWorkerStateTransitions: the whole batch or nothing.
CommitWorkerStateTransitions(f) ==
    LET p == flight[f]
        planned == {a \in Attempts : p.items[a] # NoTransition} IN
    /\ p.op = "reconcile"
    /\ CoordinatorCurrent(p)
    /\ SnapshotCurrent(p) /\ snap[p.w].fresh
    /\ \A a \in planned : TransitionAdmitted(a, p.items[a], p)
    /\ asgn' = [a \in Attempts |-> IF a \in planned THEN p.items[a].assignment ELSE asgn[a]]
    /\ att' = [a \in Attempts |-> IF a \in planned THEN p.items[a].attempt ELSE att[a]]
    /\ flight' = [flight EXCEPT ![f] = Idle]
    /\ UNCHANGED <<coord, cmd, snap, thr, wait>>

-----------------------------------------------------------------------------
(* Quota throttling and administrator pause. *)

\* syncThrottleAttemptControlTx: the newest throttle intent is projected on any
\* attempt that has not ended.
SyncControl(a, c) ==
    IF Terminal(att[a]) \/ att[a].control = c THEN att' = att
    ELSE SaveAttempt(a, [att[a] EXCEPT !.control = c])

SaveThrottle(a, k, d, c) ==
    thr' = [thr EXCEPT ![a] = [kind |-> k, delivery |-> d, control |-> c]]

\* A throttle binding: the worker's snapshot reports the held execution.  The code
\* also asks for a known thread and workspace, and leaves out attempts an
\* administrator forced to start; the model binds these all the same.
ThrottleBound(a) ==
    LET w == asgn[a].worker IN
    /\ att[a].attached /\ asgn[a].state \in {"claimed", "unknown"}
    /\ snap[w].cepoch = coord /\ snap[w].fresh
    /\ ObservationOf(a, snap[w]) # "absent"

\* PlanThrottleDeliveries: a directive of severity k reaches a bound attempt that
\* holds a provider slot.
ThrottleIntent(a, k) ==
    LET c == IF k = "warn" THEN att[a].control ELSE "draining" IN
    /\ ThrottleBound(a) /\ HoldsProviderSlot(att[a].control)
    /\ thr[a].delivery # "pending"
    /\ SaveThrottle(a, k, "pending", c)
    /\ SyncControl(a, c)
    /\ UNCHANGED <<coord, asgn, cmd, snap, wait, flight>>

\* The pause command writes the draining attempt and its intent together.
AdminPause(a, k) ==
    /\ ThrottleBound(a) /\ ~Terminal(att[a])
    /\ att[a].control \in {"preparing", "running", "resuming"}
    /\ thr[a].delivery # "pending"
    /\ SaveThrottle(a, k, "pending", "draining")
    /\ SaveAttempt(a, [att[a] EXCEPT !.control = "draining"])
    /\ UNCHANGED <<coord, asgn, cmd, snap, wait, flight>>

\* PlanThrottleDeadlineExpirations
ThrottleDeadline(a) ==
    /\ thr[a].kind = "drain" /\ thr[a].control = "draining"
    /\ SaveThrottle(a, "hard-stop", "pending", "draining")
    /\ SyncControl(a, "draining")
    /\ UNCHANGED <<coord, asgn, cmd, snap, wait, flight>>

\* PlanThrottleResumes: the pool admits again.  Neither the attempt nor its
\* assignment is consulted.
ThrottleResume(a) ==
    /\ thr[a].control = "paused"
    /\ SaveThrottle(a, "resume", "pending", "resuming")
    /\ SyncControl(a, "resuming")
    /\ UNCHANGED <<coord, asgn, cmd, snap, wait, flight>>

\* applyThrottleAcknowledgement: the control a record has after its answer.
AcknowledgedControl(t, answer) ==
    CASE answer = "rejected" -> IF t.kind = "resume" THEN "paused" ELSE t.control
      [] answer = "checkpoint-failed" -> "draining"
      [] answer = "accepted" /\ t.kind = "warn" -> t.control
      [] answer = "accepted" /\ t.kind = "resume" -> "running"
      [] OTHER -> "paused"

ThrottleAcknowledge(a, answer) ==
    LET c == AcknowledgedControl(thr[a], answer) IN
    /\ thr[a].delivery = "pending"
    /\ answer = "checkpoint-failed" => thr[a].kind = "drain"
    /\ SaveThrottle(a, thr[a].kind,
                    IF answer = "rejected" THEN "rejected" ELSE "acknowledged", c)
    /\ SyncControl(a, c)
    /\ UNCHANGED <<coord, asgn, cmd, snap, wait, flight>>

-----------------------------------------------------------------------------
(* Task-bound waits. *)

\* RegisterTaskWait parks the attempt of a live turn.
RegisterTaskWait(a) ==
    /\ TurnLive(att[a])
    /\ SaveAttempt(a, [att[a] EXCEPT !.progress = "waiting-external",
                                     !.control = "waiting-external", !.completedAt = FALSE])
    /\ wait' = [wait EXCEPT ![a].live = TRUE]
    /\ UNCHANGED <<coord, asgn, cmd, snap, thr, flight>>

\* A wait settles, expires or is cancelled; others of the attempt may stay live.
SettleTaskWait(a, others) ==
    /\ wait[a].live
    /\ wait' = [wait EXCEPT ![a] = [live |-> others, settled |-> TRUE]]
    /\ UNCHANGED <<coord, att, asgn, cmd, snap, thr, flight>>

\* taskWaitExecutionAbandonedTx
ExecutionAbandoned(a) ==
    att[a].attached /\ asgn[a].state \in {"completed", "released"}

\* WakeTaskWaits, one attempt: nothing left to resume.
WakeWithoutResuming(a) ==
    /\ wait[a].settled /\ att[a].progress # "waiting-external"
    /\ wait' = [wait EXCEPT ![a].settled = FALSE]
    /\ UNCHANGED <<coord, att, asgn, cmd, snap, thr, flight>>

\* WakeTaskWaits: the parked execution is gone, the task fails.
WakeAbandoned(a) ==
    /\ wait[a].settled /\ att[a].progress = "waiting-external" /\ ExecutionAbandoned(a)
    /\ SaveAttempt(a, Finish(att[a], "failed"))
    /\ wait' = [wait EXCEPT ![a].settled = FALSE]
    /\ UNCHANGED <<coord, asgn, cmd, snap, thr, flight>>

\* WakeTaskWaits: the parked attempt reacquires capacity and resumes.
WakeResuming(a) ==
    LET w == asgn[a].worker IN
    /\ wait[a].settled /\ att[a].progress = "waiting-external" /\ ~ExecutionAbandoned(a)
    /\ att[a].attached
    /\ snap[w].wepoch = asgn[a].wepoch /\ ExecutorCapacity(w)
    /\ SaveAttempt(a, Resumed(att[a]))
    /\ wait' = [wait EXCEPT ![a].settled = FALSE]
    /\ UNCHANGED <<coord, asgn, cmd, snap, thr, flight>>

-----------------------------------------------------------------------------
(* Administrator commands and result import. *)

AdminStart(a) ==
    /\ ~Terminal(att[a]) /\ att[a].control = "unassigned"
    /\ SaveAttempt(a, [att[a] EXCEPT !.progress = "ready"])
    /\ UNCHANGED <<coord, asgn, cmd, snap, thr, wait, flight>>

\* The assigned worker must be fresh and hold the execution.
AdminResume(a) ==
    /\ ~Terminal(att[a]) /\ att[a].control = "paused"
    /\ att[a].attached /\ WorkerAccepts(asgn[a].worker)
    /\ SaveAttempt(a, [att[a] EXCEPT !.control = "resuming"])
    /\ UNCHANGED <<coord, asgn, cmd, snap, thr, wait, flight>>

AdminCancel(a) ==
    /\ ~Terminal(att[a])
    /\ SaveAttempt(a, Finish(att[a], "cancelled"))
    /\ UNCHANGED <<coord, asgn, cmd, snap, thr, wait, flight>>

AdminSkip(a) ==
    /\ att[a].progress \notin {"succeeded", "skipped"}
    /\ SaveAttempt(a, Finish(att[a], "skipped"))
    /\ UNCHANGED <<coord, asgn, cmd, snap, thr, wait, flight>>

AdminRewake(a) ==
    /\ ~Terminal(att[a]) /\ WaitingExternal(att[a]) /\ ~wait[a].live
    /\ att[a].attached /\ asgn[a].state = "claimed"
    /\ SaveAttempt(a, Resumed(att[a]))
    /\ UNCHANGED <<coord, asgn, cmd, snap, thr, wait, flight>>

\* activeTurnThrottle
ActiveTurnThrottle(t) ==
    /\ t.delivery # "cancelled"
    /\ \/ t.kind \in {"drain", "hard-stop"} /\ t.control \in {"draining", "paused"}
       \/ t.kind = "resume" /\ t.control = "resuming"

\* resultImportBinding: the result is of the completed assignment its attempt names.
\* An attempt that has ended is bound too, and its outcome changes nothing.
ResultBinding(a) ==
    /\ asgn[a].state = "completed" /\ att[a].attached
    /\ att[a].progress = "verifying"

\* A bound result is imported unless a wait of its turn is live; its done outcome
\* ends the attempt and settles an active throttle.  No caller sends the waiting or
\* the continue marker.
ImportResult(a, p) ==
    /\ ResultBinding(a) /\ ~wait[a].live
    /\ SaveAttempt(a, Finish(att[a], p))
    /\ IF ActiveTurnThrottle(thr[a])
       THEN SaveThrottle(a, thr[a].kind,
                         IF thr[a].delivery = "pending" THEN "cancelled" ELSE thr[a].delivery,
                         "stopped")
       ELSE thr' = thr
    /\ UNCHANGED <<coord, asgn, cmd, snap, wait, flight>>

-----------------------------------------------------------------------------
WorkerStep(w) ==
    \/ \E e \in SnapshotEpochs(w) : \E o \in Reports(w) : ObserveSnapshot(w, e, o)
    \/ SnapshotExpires(w)

FlightStep(f) ==
    \/ \E a \in Attempts, w \in Workers : PlanOffer(f, a, w)
    \/ CommitAssignmentPlan(f)
    \/ \E a \in Attempts : DeliverOffer(f, a)
    \/ ClaimAssignment(f)
    \/ \E a \in Attempts, w \in Workers : PlanWorkerCommand(f, w, a)
    \/ CommitWorkerCommand(f)
    \/ \E w \in Workers : PlanWorkerStateTransitions(f, w)
    \/ CommitWorkerStateTransitions(f)
    \/ AbandonFlight(f)

CustodyStep(a) ==
    \/ ReleaseNarrowedOffer(a)
    \/ RepairCoordinatorState(a)
    \/ \E o \in {"stopped", "failed"} : RecoverUnknownAssignment(a, o)
    \/ \E k \in CommandKind, r \in {"accepted", "rejected"} :
         AcknowledgeWorkerCommand(a, k, r)

ThrottleStep(a) ==
    \/ \E k \in {"warn", "drain", "hard-stop"} : ThrottleIntent(a, k)
    \/ \E k \in {"drain", "hard-stop"} : AdminPause(a, k)
    \/ ThrottleDeadline(a)
    \/ ThrottleResume(a)
    \/ \E r \in {"accepted", "checkpoint-failed", "rejected"} : ThrottleAcknowledge(a, r)

WaitStep(a) ==
    \/ RegisterTaskWait(a)
    \/ \E others \in BOOLEAN : SettleTaskWait(a, others)
    \/ WakeWithoutResuming(a)
    \/ WakeAbandoned(a)
    \/ WakeResuming(a)

AdminStep(a) ==
    \/ AdminStart(a)
    \/ AdminResume(a)
    \/ AdminCancel(a)
    \/ AdminSkip(a)
    \/ AdminRewake(a)
    \/ \E p \in {"succeeded", "failed"} : ImportResult(a, p)

Next ==
    \/ AcquireCoordinator
    \/ \E w \in Workers : WorkerStep(w)
    \/ \E f \in Flights : FlightStep(f)
    \/ \E S \in SUBSET Attempts : ExpireAssignmentLeases(S)
    \/ \E a \in Attempts : CustodyStep(a)
    \/ "throttle" \in Actors /\ \E a \in Attempts : ThrottleStep(a)
    \/ "waits" \in Actors /\ \E a \in Attempts : WaitStep(a)
    \/ "admin" \in Actors /\ \E a \in Attempts : AdminStep(a)

Spec == Init /\ [][Next]_vars

-----------------------------------------------------------------------------
(* Properties. *)

\* Every row the coordinator stores, and every read it holds, is well formed.
TypeOK ==
    /\ coord \in 1..MaxCoord
    /\ att \in [Attempts -> Attempt]
    /\ asgn \in [Attempts -> Assignment]
    /\ cmd \in [Attempts -> [CommandKind -> Command]]
    /\ snap \in [Workers -> Snapshot]
    /\ thr \in [Attempts -> Throttle]
    /\ wait \in [Attempts -> Wait]
    /\ flight \in [Flights -> Flight]

\* The rows t and r of an attempt and its assignment agree on custody: an
\* outstanding offer, claim or unknown execution is named by its attempt, and an
\* attempt that still names a released assignment is parked or has ended.
Agreement(t, r) ==
    /\ r.state \in {"offered", "claimed", "unknown", "completed"} => t.attached
    /\ t.attached => r.state # "none"
    /\ t.attached /\ r.state = "released" => UnfinishedPark(t) \/ Terminal(t)

\* Attempts and assignments, which different transactions write, agree on custody.
CustodyAgreement == \A a \in Attempts : Agreement(att[a], asgn[a])

\* An attempt whose control is waiting is parked, a parked attempt is not
\* unassigned, and it has not completed.
ParkShape(t) ==
    /\ t.control = "waiting-external" => t.progress = "waiting-external"
    /\ t.progress = "waiting-external" => t.control # "unassigned" /\ ~t.completedAt

WellParked == \A a \in Attempts : ParkShape(att[a])

\* No throttle record that is still to be answered can project a control that
\* unassigns or parks its attempt.
ThrottleShape ==
    \A a \in Attempts :
        thr[a].delivery = "pending" => thr[a].control \notin {"unassigned", "waiting-external"}

\* A planned transition moves the assignment it was read from, not another one,
\* and leaves its attempt well parked.
TransitionShape(i) ==
    /\ i.expected.state \in {"claimed", "unknown"}
    /\ i.assignment.state \in {"claimed", "unknown", "released", "completed"}
    /\ i.assignment.epoch = i.expected.epoch /\ i.assignment.worker = i.expected.worker
    /\ i.attempt.rev = i.expectedRev + 1
    /\ ParkShape(i.attempt)

PlannedShape ==
    \A f \in Flights : flight[f].op = "reconcile" =>
        \A a \in Attempts :
            flight[f].items[a] # NoTransition => TransitionShape(flight[f].items[a])

\* What the agreement rests on: parks, throttle intents and the transitions in
\* flight never separate an attempt from the assignment it is executed under.
CustodyInvariant ==
    TypeOK /\ CustodyAgreement /\ WellParked /\ ThrottleShape /\ PlannedShape

\* The abstract custody of an attempt, read off its assignment row.
Custody(r) ==
    CASE r.state \in {"none", "released"} -> "free"
      [] r.state = "offered" -> "offered"
      [] r.state \in {"claimed", "unknown"} -> "held"
      [] OTHER -> "settled"

AC == INSTANCE AttemptCustody WITH
        custody <- [a \in Attempts |-> Custody(asgn[a])],
        epoch <- [a \in Attempts |-> asgn[a].epoch],
        holder <- [a \in Attempts |-> asgn[a].worker]

\* The assignment rows implement AttemptCustody: no interleaving of offers,
\* claims, lease expiry, recovery and stale worker evidence hands an attempt out
\* under an epoch that was used, or while it is held, or after it completed.
CustodyRefinement == AC!Spec

\* Every change of an attempt takes the next revision: no transaction overwrites
\* a change that was made after the read it was planned from.
NoLostUpdate ==
    [][\A a \in Attempts : att'[a] # att[a] => att'[a].rev = att[a].rev + 1]_vars

\* A read made under a superseded coordinator epoch changes no attempt, no
\* assignment and no command when its transaction finally runs.
DeposedCoordinatorWritesNothing ==
    [][\A f \in Flights :
         /\ flight[f] # Idle /\ flight[f].cepoch # coord
         /\ flight'[f] # flight[f]
         => UNCHANGED <<att, asgn, cmd>>]_vars

\* An attempt that ended stays ended.  The one exception is the release of an
\* offer that outlived the end of its attempt (releaseNarrowedOffersTx).
EndedUnlessOffered ==
    [][\A a \in Attempts :
         Terminal(att[a]) /\ ~Terminal(att'[a]) => asgn[a].state = "offered"]_vars

\* An execution the coordinator is stopping or has cancelled is given up only on
\* its worker's report that this execution stopped, or by an operator's recovery.
StoppingNeedsProof ==
    [][\A a \in Attempts :
         /\ asgn[a].state \in {"claimed", "unknown"} /\ asgn'[a].state = "released"
         /\ WorkerOwnsStopIntent(att[a]) \/ att[a].progress = "cancelled"
         => \/ StopProven(a, asgn[a].worker)
            \/ \E o \in {"stopped", "failed"} : RecoverUnknownAssignment(a, o)]_vars

\* Worker evidence never un-parks an attempt: it leaves its park when it ends,
\* when its wait has settled or is gone, or when its execution is recovered.
ParkHeld ==
    [][\A a \in Attempts :
         att[a].progress = "waiting-external" /\ att'[a].progress # "waiting-external"
         => \/ Terminal(att'[a])
            \/ wait[a].settled \/ ~wait[a].live
            \/ asgn[a].state = "unknown"]_vars

\* A parked attempt has a wait that is live, or settled and still to wake it: no
\* park is forgotten.
ParkHasWaker ==
    \A a \in Attempts :
        att[a].progress = "waiting-external" => wait[a].live \/ wait[a].settled

\* An execution is dispatched only after this execution's preparation was
\* accepted, also across coordinator restarts and recoveries.
PreparedBeforeDispatch ==
    \A a \in Attempts : Has(a, "dispatch") => Accepted(a, "prepare")

\* An offer and a resumption of parked work take an executor slot only while the
\* worker has one free.
CapacityReacquired ==
    [][\A a \in Attempts, w \in Workers :
         /\ asgn'[a].worker = w
         /\ \/ asgn[a].state # "offered" /\ asgn'[a].state = "offered"
            \/ att[a].control = "waiting-external" /\ att'[a].control = "resuming"
         => Cardinality(CapacityOwners(w)') <= Slots]_vars

-----------------------------------------------------------------------------
(* Statements of the repository that the code does not keep. *)

\* repair.go: an offer for an attempt that already ended can never be claimed.
EndedNeverClaimed ==
    [][\A a \in Attempts :
         asgn[a].state = "offered" /\ asgn'[a].state = "claimed"
         => ~att[a].completedAt]_vars

\* backlog-v2-operations.md: an attempt recovered as stopped is ready and
\* unassigned, and nothing starts or resumes it before it is assigned again.
RecoveredStaysUnassigned ==
    [][\A a \in Attempts :
         /\ ~att[a].attached /\ ~att'[a].attached
         /\ att[a].progress = "ready" /\ att[a].control = "unassigned"
         => att'[a].control \in {"unassigned", "stopped"}]_vars

\* The worker accepted the dispatch of this execution and its attempt is running.
RunningExecution(a) ==
    /\ asgn[a].state \in {"claimed", "unknown"}
    /\ Accepted(a, "dispatch") /\ att[a].control = "running"

\* adr-s5b-execution-environment.md, adr-s0-worker-enrollment.md: a worker epoch
\* change invalidates offers and claims, and is never proof that a running effect
\* stopped.  Only an operator's recovery gives up a running execution of an older
\* worker epoch; claims that were never dispatched may be released.
EpochChangeIsNoProof ==
    [][\A a \in Attempts :
         /\ RunningExecution(a) /\ asgn'[a].state = "released"
         /\ snap[asgn[a].worker].wepoch # asgn[a].wepoch
         => \E o \in {"stopped", "failed"} : RecoverUnknownAssignment(a, o)]_vars

=============================================================================
