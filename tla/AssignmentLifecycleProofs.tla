--------------------- MODULE AssignmentLifecycleProofs ---------------------
(***************************************************************************)
(* Proofs about AssignmentLifecycle for every set of attempts, workers and *)
(* flights and every bound: the type invariant, the agreement of attempts  *)
(* and assignments, and the refinement of AttemptCustody.                  *)
(***************************************************************************)
EXTENDS AssignmentLifecycle, TLAPS

-----------------------------------------------------------------------------
(* Types of the row operators. *)

\* A read in flight is of the kind its operation names.
LEMMA FlightKinds ==
    ASSUME NEW p \in Flight
    PROVE  /\ p.op = "offer" => p \in OfferFlight
           /\ p.op = "claim" => p \in ClaimFlight
           /\ p.op = "command" => p \in CommandFlight
           /\ p.op = "reconcile" => p \in ReconcileFlight
BY DEF Flight, Idle, OfferFlight, ClaimFlight, CommandFlight, ReconcileFlight

\* Requeue, Finish, Resumed and RecoveredAttempt return attempts.
LEMMA AttemptOps ==
    ASSUME NEW t \in Attempt
    PROVE  /\ Requeue(t) \in Attempt
           /\ Resumed(t) \in Attempt
           /\ \A p \in TerminalProgress : Finish(t, p) \in Attempt
           /\ \A o \in {"stopped", "failed"} : RecoveredAttempt(t, o) \in Attempt
           /\ \A c \in Control : [t EXCEPT !.control = c] \in Attempt
           /\ \A p \in Progress, c \in Control :
                [t EXCEPT !.progress = p, !.control = c] \in Attempt
           /\ \A p \in Progress : [t EXCEPT !.progress = p] \in Attempt
           /\ \A b \in BOOLEAN : [t EXCEPT !.attached = b] \in Attempt
BY ZenonT(60) DEF Attempt, Requeue, Resumed, Finish, RecoveredAttempt, Finished, Terminal,
       Progress, TerminalProgress, Control

\* updateAttemptTx keeps the attempts well formed.
LEMMA SaveAttemptType ==
    ASSUME TypeOK, NEW a \in Attempts, NEW t \in Attempt, SaveAttempt(a, t)
    PROVE  att' \in [Attempts -> Attempt]
<1>1. att[a] \in Attempt /\ att[a].rev + 1 \in 1..MaxRev
  BY BoundsAssumption DEF TypeOK, SaveAttempt, Attempt
<1>2. [t EXCEPT !.rev = att[a].rev + 1] \in Attempt
  BY <1>1 DEF Attempt
<1> QED BY <1>2 DEF TypeOK, SaveAttempt

\* The reconciliation operators return an assignment and an attempt.
LEMMA ReconciledRowsType ==
    ASSUME TypeOK, NEW a \in Attempts, NEW o \in ObservedState,
           NEW e \in 1..MaxWorkerEpoch
    PROVE  /\ ReconciledRows(a, o, e).assignment \in Assignment
           /\ ReconciledRows(a, o, e).attempt \in Attempt
<1> DEFINE r == asgn[a]
           t == att[a]
<1>1. r \in Assignment /\ t \in Attempt /\ e \in 0..MaxWorkerEpoch /\ r.wepoch \in 0..MaxWorkerEpoch
  BY BoundsAssumption DEF TypeOK, Assignment
<1>2. \A s \in AssignmentState : [r EXCEPT !.state = s] \in Assignment
  BY <1>1 DEF Assignment
<1>3. \A s \in AssignmentState, w \in 0..MaxWorkerEpoch :
        [r EXCEPT !.state = s, !.wepoch = w] \in Assignment
  BY Zenon, <1>1 DEF Assignment
<1>4. \A c \in Control : [t EXCEPT !.control = c] \in Attempt
  BY ZenonT(30), <1>1, AttemptOps
<1>5. \A c \in Control, p \in Progress : [t EXCEPT !.progress = p, !.control = c] \in Attempt
  BY Zenon, <1>1, AttemptOps
<1>6. \A c \in Control, b \in BOOLEAN :
        /\ [t EXCEPT !.control = c, !.attached = b] \in Attempt
        /\ [t EXCEPT !.attached = b] \in Attempt
  BY Zenon, <1>1 DEF Attempt
<1>7. t.progress \in Progress /\ t.control \in Control
  BY <1>1 DEF Attempt
<1>8. "released" \in AssignmentState /\ "claimed" \in AssignmentState
      /\ "completed" \in AssignmentState /\ "unknown" \in AssignmentState
      /\ "stopped" \in Control /\ "running" \in Control /\ "waiting-external" \in Control
      /\ "active" \in Progress /\ "verifying" \in Progress
  BY DEF AssignmentState, Control, Progress
<1>9. /\ ReleasedRows(r, t).assignment \in Assignment
      /\ ReleasedRows(r, t).attempt \in Attempt
  BY Zenon, <1>1, <1>2, <1>6, <1>8, AttemptOps DEF ReleasedRows, Rows
<1>10. \A w \in 0..MaxWorkerEpoch :
         /\ CompletedRows(r, t, w).assignment \in Assignment
         /\ CompletedRows(r, t, w).attempt \in Attempt
         /\ ObservedCompletedRows(r, t, w).assignment \in Assignment
         /\ ObservedCompletedRows(r, t, w).attempt \in Attempt
  <2> SUFFICES ASSUME NEW w \in 0..MaxWorkerEpoch
               PROVE  /\ CompletedRows(r, t, w).assignment \in Assignment
                      /\ CompletedRows(r, t, w).attempt \in Attempt
                      /\ ObservedCompletedRows(r, t, w).assignment \in Assignment
                      /\ ObservedCompletedRows(r, t, w).attempt \in Attempt
    OBVIOUS
  <2>1. CompletedRows(r, t, w).assignment \in Assignment
        /\ ObservedCompletedRows(r, t, w).assignment \in Assignment
    BY ZenonT(30), <1>3, <1>8 DEF CompletedRows, ObservedCompletedRows, Rows
  <2>2. CompletedRows(r, t, w).attempt \in Attempt
        /\ ObservedCompletedRows(r, t, w).attempt \in Attempt
    BY Zenon, <1>1, <1>5, <1>7, <1>8 DEF CompletedRows, ObservedCompletedRows, Rows
  <2> QED BY <2>1, <2>2
<1>11. CASE o \in ObservedClaim
  <2>1. o \in Control
    BY SMTT(30), <1>11 DEF ObservedClaim, Control
  <2>2. ObservedClaimRows(r, t, e, o).assignment \in Assignment
    BY Zenon, <1>1, <1>3, <1>8 DEF ObservedClaimRows, Rows
  <2>3. ObservedClaimRows(r, t, e, o).attempt \in Attempt
    BY Zenon, <1>1, <1>8, <2>1 DEF ObservedClaimRows, Rows, Attempt
  <2>4. ReconciledRows(a, o, e) = ObservedClaimRows(r, t, e, o)
    BY <1>11 DEF ReconciledRows, ObservedClaim
  <2> QED BY <2>2, <2>3, <2>4
<1>12. CASE o = "released"
  BY <1>12, <1>1, <1>9 DEF ReconciledRows, ObservedClaim, Rows
<1>13. CASE o = "completed"
  BY <1>13, <1>1, <1>10 DEF ReconciledRows, ObservedClaim
<1>14. CASE o = "unknown"
  <2>1. ReconciledRows(a, o, e) = ObservedUnknownRows(r, t, e)
    BY <1>14 DEF ReconciledRows, ObservedClaim
  <2>2. ObservedUnknownRows(r, t, e).assignment \in Assignment
    BY Zenon, <1>1, <1>3, <1>8 DEF ObservedUnknownRows, Rows
  <2>3. ObservedUnknownRows(r, t, e).attempt \in Attempt
    BY <1>1, <1>4, <1>8 DEF ObservedUnknownRows, Rows
  <2> QED BY <2>1, <2>2, <2>3
<1>15. CASE o = "absent"
  <2>1. ReconciledRows(a, o, e) = UnobservedRows(a, e)
    BY <1>15 DEF ReconciledRows, ObservedClaim
  <2>2. UnobservedRows(a, e).assignment \in Assignment
    BY SMTT(30), <1>1, <1>9, <1>10 DEF UnobservedRows, Rows
  <2>3. UnobservedRows(a, e).attempt \in Attempt
    BY Zenon, <1>1, <1>4, <1>5, <1>8, <1>9, <1>10 DEF UnobservedRows, Rows
  <2> QED BY <2>1, <2>2, <2>3
<1> QED BY <1>11, <1>12, <1>13, <1>14, <1>15 DEF ObservedState, ObservedClaim

\* Saving a well-formed assignment keeps the assignments well formed.
LEMMA SaveAssignmentType ==
    ASSUME TypeOK, NEW a \in Attempts, NEW r \in Assignment, SaveAssignment(a, r)
    PROVE  asgn' \in [Attempts -> Assignment]
BY DEF TypeOK, SaveAssignment

\* A state change of an assignment row returns an assignment.
LEMMA AssignmentOps ==
    ASSUME NEW r \in Assignment
    PROVE  \A s \in AssignmentState : [r EXCEPT !.state = s] \in Assignment
BY DEF Assignment

\* The projection of a throttle control keeps the attempts well formed.
LEMMA SyncControlType ==
    ASSUME TypeOK, NEW a \in Attempts, NEW c \in Control, SyncControl(a, c)
    PROVE  att' \in [Attempts -> Attempt]
<1>1. att[a] \in Attempt
  BY SMTT(30) DEF TypeOK
<1>2. [att[a] EXCEPT !.control = c] \in Attempt
  BY Zenon, <1>1, AttemptOps
<1> QED BY <1>2, SaveAttemptType DEF SyncControl, TypeOK

\* Saving a throttle record keeps the records well formed.
LEMMA SaveThrottleType ==
    ASSUME TypeOK, NEW a \in Attempts, NEW k \in ThrottleKind, NEW d \in ThrottleDelivery,
           NEW c \in Control, SaveThrottle(a, k, d, c)
    PROVE  thr' \in [Attempts -> Throttle]
BY DEF TypeOK, SaveThrottle, Throttle

\* Clearing or filling a flight keeps the flights well formed.
LEMMA FlightType ==
    ASSUME TypeOK, NEW f \in Flights, NEW p \in Flight, flight' = [flight EXCEPT ![f] = p]
    PROVE  flight' \in [Flights -> Flight]
BY DEF TypeOK

\* An idle flight is a flight.
LEMMA IdleFlight == Idle \in Flight
BY DEF Flight

\* The initial rows are well formed.
LEMMA InitType == Init => TypeOK
<1> SUFFICES ASSUME Init PROVE TypeOK
  OBVIOUS
<1>1. coord \in 1..MaxCoord
  BY BoundsAssumption DEF Init
<1>2. att \in [Attempts -> Attempt]
  BY BoundsAssumption DEF Init, Attempt, Progress, Control
<1>3. asgn \in [Attempts -> Assignment]
  <2>1. (CHOOSE w \in Workers : TRUE) \in Workers
    BY WorkersAssumption
  <2>2. 0 \in 0..MaxEpoch /\ 0 \in 0..MaxWorkerEpoch /\ "none" \in AssignmentState
    BY BoundsAssumption DEF AssignmentState
  <2>3. [state : {"none"}, epoch : {0}, worker : {CHOOSE w \in Workers : TRUE}, wepoch : {0}]
          \subseteq Assignment
    BY <2>1, <2>2 DEF Assignment
  <2> QED BY <2>3 DEF Init
<1>4. cmd \in [Attempts -> [CommandKind -> Command]]
  BY BoundsAssumption DEF Init, NoCommand, Command, CommandState
<1>5. snap \in [Workers -> Snapshot]
  <2>1. [a \in Attempts |-> [state |-> "absent", epoch |-> 0]] \in [Attempts -> Observation]
    BY BoundsAssumption DEF Observation, ObservedState
  <2>2. [wepoch |-> 1, cepoch |-> 0, seq |-> 0, fresh |-> FALSE,
         obs |-> [a \in Attempts |-> [state |-> "absent", epoch |-> 0]]] \in Snapshot
    BY <2>1, BoundsAssumption DEF Snapshot
  <2> QED BY <2>2 DEF Init
<1>6. thr \in [Attempts -> Throttle]
  BY DEF Init, NoThrottle, Throttle, ThrottleKind, ThrottleDelivery, Control
<1>7. wait \in [Attempts -> Wait]
  BY DEF Init, Wait
<1>8. flight \in [Flights -> Flight]
  BY IdleFlight DEF Init
<1> QED BY <1>1, <1>2, <1>3, <1>4, <1>5, <1>6, <1>7, <1>8 DEF TypeOK

-----------------------------------------------------------------------------
(* Every step keeps the rows well formed. *)

\* The coordinator's, the workers' and the sweep's steps.
LEMMA EnvironmentType ==
    ASSUME TypeOK,
           \/ AcquireCoordinator
           \/ \E w \in Workers : WorkerStep(w)
           \/ \E S \in SUBSET Attempts : ExpireAssignmentLeases(S)
    PROVE  TypeOK'
<1>1. CASE AcquireCoordinator
  <2>1. coord' \in 1..MaxCoord
    BY <1>1, BoundsAssumption DEF AcquireCoordinator, TypeOK
  <2>2. NoCommand \in Command
    BY BoundsAssumption DEF NoCommand, Command, CommandState
  <2>3. cmd' \in [Attempts -> [CommandKind -> Command]]
    BY <1>1, <2>2 DEF AcquireCoordinator, TypeOK
  <2> QED BY <1>1, <2>1, <2>3 DEF AcquireCoordinator, TypeOK
<1>2. CASE \E w \in Workers : WorkerStep(w)
  <2>1. PICK w \in Workers : WorkerStep(w)
    BY <1>2
  <2>2. CASE SnapshotExpires(w)
    <3>1. [snap[w] EXCEPT !.fresh = FALSE] \in Snapshot
      BY ZenonT(60) DEF TypeOK, Snapshot
    <3> QED BY <2>2, <3>1 DEF SnapshotExpires, TypeOK
  <2>3. CASE \E e \in SnapshotEpochs(w) : \E o \in Reports(w) : ObserveSnapshot(w, e, o)
    <3>1. PICK e \in SnapshotEpochs(w), o \in Reports(w) : ObserveSnapshot(w, e, o)
      BY <2>3
    <3>e. e \in 1..MaxWorkerEpoch /\ (e = snap[w].wepoch => snap[w].seq < MaxSeq)
      <4>1. snap[w].wepoch \in Nat
        BY DEF TypeOK, Snapshot
      <4> QED BY <4>1 DEF SnapshotEpochs
    <3>2. o \in [Attempts -> Observation]
      BY DEF Reports
    <3> DEFINE n == [wepoch |-> e, cepoch |-> coord, fresh |-> TRUE, obs |-> o,
                     seq |-> IF e = snap[w].wepoch THEN snap[w].seq + 1 ELSE 1]
    <3>3. snap' = [snap EXCEPT ![w] = n]
      BY <3>1 DEF ObserveSnapshot
    <3>4. n.seq \in 0..MaxSeq
      <4>1. snap[w] \in Snapshot
        BY DEF TypeOK
      <4>4. snap[w].seq \in 0..MaxSeq
        BY <4>1 DEF Snapshot
      <4>5. n.seq = IF e = snap[w].wepoch THEN snap[w].seq + 1 ELSE 1
        OBVIOUS
      <4> HIDE DEF n
      <4> QED BY <3>e, <4>4, <4>5, BoundsAssumption
    <3>5. n \in Snapshot
      BY <3>2, <3>4, <3>e DEF Snapshot, TypeOK
    <3>6. UNCHANGED <<coord, att, asgn, cmd, thr, wait, flight>>
      BY <3>1 DEF ObserveSnapshot
    <3> HIDE DEF n
    <3> QED BY <3>3, <3>5, <3>6 DEF TypeOK
  <2> QED BY <2>1, <2>2, <2>3 DEF WorkerStep
<1>3. CASE \E S \in SUBSET Attempts : ExpireAssignmentLeases(S)
  <2>1. PICK S \in SUBSET Attempts : ExpireAssignmentLeases(S)
    BY <1>3
  <2>2. \A a \in Attempts : [asgn[a] EXCEPT !.state = "unknown"] \in Assignment
    BY Zenon, AssignmentOps DEF TypeOK, AssignmentState
  <2> QED BY <2>1, <2>2 DEF ExpireAssignmentLeases, TypeOK
<1> QED BY <1>1, <1>2, <1>3

\* The steps of an operation between its read and its write.
LEMMA FlightStepType ==
    ASSUME TypeOK, NEW f \in Flights, FlightStep(f)
    PROVE  TypeOK'
<1> DEFINE p == flight[f]
<1>1. p \in Flight
  BY DEF TypeOK
<1>2. \A a \in Attempts : att[a] \in Attempt /\ asgn[a] \in Assignment
  BY DEF TypeOK
<1>3. \A w \in Workers : snap[w] \in Snapshot
  BY DEF TypeOK
<1>4. coord \in 1..MaxCoord
  BY DEF TypeOK
<1>5. ASSUME NEW a \in Attempts, NEW w \in Workers, PlanOffer(f, a, w) PROVE TypeOK'
  <2> DEFINE n == [op |-> "offer", a |-> a, w |-> w, rev |-> att[a].rev,
                   cepoch |-> coord, wepoch |-> snap[w].wepoch, seq |-> snap[w].seq]
  <2>1. n \in OfferFlight
    BY <1>2, <1>3, <1>4 DEF OfferFlight, Attempt, Snapshot
  <2>2. n \in Flight
    BY SMTT(60), <2>1 DEF Flight
  <2>3. flight' = [flight EXCEPT ![f] = n] /\ UNCHANGED <<coord, att, asgn, cmd, snap, thr, wait>>
    BY SMTT(60), <1>5 DEF PlanOffer
  <2> HIDE DEF n
  <2> QED BY <2>2, <2>3, FlightType DEF TypeOK
<1>6. ASSUME CommitAssignmentPlan(f) PROVE TypeOK'
  <2>1. p \in OfferFlight
    BY <1>1, <1>6, FlightKinds DEF CommitAssignmentPlan
  <2>2. p.a \in Attempts /\ p.w \in Workers /\ p.wepoch \in 1..MaxWorkerEpoch
    BY SMTT(60), <2>1 DEF OfferFlight
  <2>3. asgn[p.a].epoch + 1 \in 0..MaxEpoch
    BY SMTT(60), <1>2, <1>6, <2>2, BoundsAssumption DEF CommitAssignmentPlan, Assignment
  <2>4. [state |-> "offered", epoch |-> OfferEpoch(asgn[p.a]), worker |-> p.w,
         wepoch |-> p.wepoch] \in Assignment
    BY SMTT(60), <2>2, <2>3, BoundsAssumption DEF Assignment, AssignmentState, OfferEpoch
  <2>5. asgn' \in [Attempts -> Assignment]
    BY SMTT(30), <1>6, <2>2, <2>4, SaveAssignmentType DEF CommitAssignmentPlan
  <2>6. [att[p.a] EXCEPT !.attached = TRUE] \in Attempt
    BY ZenonT(60), <1>2, <2>2, AttemptOps
  <2>7. att' \in [Attempts -> Attempt]
    BY SMTT(60), <1>6, <2>2, <2>6, SaveAttemptType DEF CommitAssignmentPlan
  <2>8. cmd' \in [Attempts -> [CommandKind -> Command]]
    <3>1. NoCommand \in Command
      BY BoundsAssumption DEF NoCommand, Command, CommandState
    <3> QED BY <1>6, <2>2, <3>1 DEF CommitAssignmentPlan, TypeOK
  <2>9. flight' \in [Flights -> Flight]
    BY ZenonT(60), <1>6, IdleFlight, FlightType DEF CommitAssignmentPlan
  <2> QED BY SMTT(60), <1>6, <2>5, <2>7, <2>8, <2>9 DEF CommitAssignmentPlan, TypeOK
<1>7. ASSUME NEW a \in Attempts, DeliverOffer(f, a) PROVE TypeOK'
  <2> DEFINE w == asgn[a].worker
             n == [op |-> "claim", a |-> a, w |-> w, epoch |-> asgn[a].epoch,
                   cepoch |-> coord, wepoch |-> snap[w].wepoch]
  <2>1. w \in Workers
    BY SMTT(60), <1>2 DEF Assignment
  <2>3. n \in ClaimFlight
    BY SMTT(60), <1>2, <1>3, <1>4, <1>7, <2>1 DEF ClaimFlight, Assignment, Snapshot
  <2>4. n \in Flight
    BY SMTT(60), <2>3 DEF Flight
  <2>5. flight' = [flight EXCEPT ![f] = n] /\ UNCHANGED <<coord, att, asgn, cmd, snap, thr, wait>>
    BY <1>7 DEF DeliverOffer
  <2> HIDE DEF n
  <2> QED BY <2>4, <2>5, FlightType DEF TypeOK
<1>8. ASSUME ClaimAssignment(f) PROVE TypeOK'
  <2>1. p \in ClaimFlight
    BY SMTT(60), <1>1, <1>8, FlightKinds DEF ClaimAssignment
  <2>2. p.a \in Attempts
    BY <2>1 DEF ClaimFlight
  <2>3. [asgn[p.a] EXCEPT !.state = "claimed"] \in Assignment
    BY ZenonT(60), <1>2, <2>2, AssignmentOps DEF AssignmentState
  <2>4. asgn' \in [Attempts -> Assignment]
    BY <1>8, <2>2, <2>3, SaveAssignmentType DEF ClaimAssignment
  <2>5. [att[p.a] EXCEPT !.progress = "active", !.control = "preparing"] \in Attempt
    BY ZenonT(60), <1>2, <2>2, AttemptOps DEF Progress, Control
  <2>6. att' \in [Attempts -> Attempt]
    BY <1>8, <2>2, <2>5, SaveAttemptType DEF ClaimAssignment
  <2>7. flight' \in [Flights -> Flight]
    BY Zenon, <1>8, IdleFlight, FlightType DEF ClaimAssignment
  <2> QED BY SMTT(60), <1>8, <2>4, <2>6, <2>7 DEF ClaimAssignment, TypeOK
<1>9. ASSUME NEW a \in Attempts, NEW w \in Workers, PlanWorkerCommand(f, w, a) PROVE TypeOK'
  <2> DEFINE k == NextWorkerCommand(a, ObservationOf(a, snap[w]))
             n == [op |-> "command", a |-> a, w |-> w, kind |-> k,
                   epoch |-> asgn[a].epoch, cepoch |-> coord,
                   wepoch |-> snap[w].wepoch, seq |-> snap[w].seq]
  <2>1. k \in CommandKind
    BY Zenon, <1>9 DEF PlanWorkerCommand, NextWorkerCommand, CommandKind
  <2>2. asgn[a].epoch \in 0..MaxEpoch /\ snap[w].wepoch \in 1..MaxWorkerEpoch
        /\ snap[w].seq \in 0..MaxSeq
    BY SMTT(60), <1>2, <1>3 DEF Assignment, Snapshot
  <2> HIDE DEF k
  <2>3. n \in CommandFlight
    BY SMTT(60), <1>4, <2>1, <2>2 DEF CommandFlight
  <2>4. n \in Flight
    BY <2>3 DEF Flight
  <2>5. flight' = [flight EXCEPT ![f] = n] /\ UNCHANGED <<coord, att, asgn, cmd, snap, thr, wait>>
    BY ZenonT(60), <1>9 DEF PlanWorkerCommand, k
  <2> HIDE DEF n
  <2> QED BY <2>4, <2>5, FlightType DEF TypeOK
<1>10. ASSUME CommitWorkerCommand(f) PROVE TypeOK'
  <2>1. p \in CommandFlight
    BY SMTT(60), <1>1, <1>10, FlightKinds DEF CommitWorkerCommand
  <2>2. p.a \in Attempts /\ p.kind \in CommandKind /\ p.wepoch \in 0..MaxWorkerEpoch
    BY <2>1, BoundsAssumption DEF CommandFlight
  <2>3. [state |-> "pending", wepoch |-> p.wepoch] \in Command
    BY SMTT(60), <2>2 DEF Command, CommandState
  <2>4. cmd' \in [Attempts -> [CommandKind -> Command]]
    BY <1>10, <2>2, <2>3 DEF CommitWorkerCommand, TypeOK
  <2>5. flight' \in [Flights -> Flight]
    BY Zenon, <1>10, IdleFlight, FlightType DEF CommitWorkerCommand
  <2> QED BY SMTT(60), <1>10, <2>4, <2>5 DEF CommitWorkerCommand, TypeOK
<1>11. ASSUME NEW w \in Workers, PlanWorkerStateTransitions(f, w) PROVE TypeOK'
  <2> DEFINE items == [a \in Attempts |-> PlannedTransition(a, w)]
             n == [op |-> "reconcile", w |-> w, cepoch |-> coord,
                   wepoch |-> snap[w].wepoch, seq |-> snap[w].seq, items |-> items]
  <2>1. snap[w].wepoch \in 1..MaxWorkerEpoch /\ snap[w].seq \in 0..MaxSeq
        /\ snap[w].obs \in [Attempts -> Observation]
    BY <1>3 DEF Snapshot
  <2>2. items \in [Attempts -> Transition \cup {NoTransition}]
    <3> SUFFICES ASSUME NEW a \in Attempts, PlannedTransition(a, w) # NoTransition
                 PROVE  PlannedTransition(a, w) \in Transition
      OBVIOUS
    <3> DEFINE o == ObservationOf(a, snap[w])
               m == ReconciledRows(a, o, snap[w].wepoch)
    <3>1. o \in ObservedState
      BY SMTT(60), <2>1 DEF ObservationOf, Observation, ObservedState
    <3>2. m.assignment \in Assignment /\ m.attempt \in Attempt
      BY SMTT(60), <2>1, <3>1, ReconciledRowsType
    <3>3. att[a].rev < MaxRev
      BY <1>11 DEF PlanWorkerStateTransitions
    <3>4. att[a].rev \in 1..MaxRev /\ att[a].rev + 1 \in 1..MaxRev
      BY <1>2, <3>3, BoundsAssumption DEF Attempt
    <3> HIDE DEF m, o
    <3>5. [m.attempt EXCEPT !.rev = att[a].rev + 1] \in Attempt
      BY SMTT(60), <3>2, <3>4 DEF Attempt
    <3>6. PlannedTransition(a, w) =
            [expected |-> asgn[a], expectedRev |-> att[a].rev, assignment |-> m.assignment,
             attempt |-> [m.attempt EXCEPT !.rev = att[a].rev + 1], stopped |-> o = "released"]
      BY DEF PlannedTransition, m, o
    <3>7. asgn[a] \in Assignment /\ (o = "released") \in BOOLEAN
      BY <1>2
    <3> QED BY <3>2, <3>4, <3>5, <3>6, <3>7 DEF Transition
  <2> HIDE DEF items
  <2>3. n \in ReconcileFlight
    BY <1>4, <2>1, <2>2 DEF ReconcileFlight
  <2>4. n \in Flight
    BY SMTT(60), <2>3 DEF Flight
  <2>5. flight' = [flight EXCEPT ![f] = n] /\ UNCHANGED <<coord, att, asgn, cmd, snap, thr, wait>>
    BY SMTT(60), <1>11 DEF PlanWorkerStateTransitions, items
  <2> HIDE DEF n
  <2> QED BY <2>4, <2>5, FlightType DEF TypeOK
<1>12. ASSUME CommitWorkerStateTransitions(f) PROVE TypeOK'
  <2>1. p \in ReconcileFlight
    BY <1>1, <1>12, FlightKinds DEF CommitWorkerStateTransitions
  <2>2. \A a \in Attempts : p.items[a] # NoTransition =>
          p.items[a].assignment \in Assignment /\ p.items[a].attempt \in Attempt
    BY SMTT(60), <2>1 DEF ReconcileFlight, Transition
  <2>3. asgn' \in [Attempts -> Assignment] /\ att' \in [Attempts -> Attempt]
    BY <1>2, <1>12, <2>2 DEF CommitWorkerStateTransitions
  <2>4. flight' \in [Flights -> Flight]
    BY ZenonT(60), <1>12, IdleFlight, FlightType DEF CommitWorkerStateTransitions
  <2> QED BY SMTT(60), <1>12, <2>3, <2>4 DEF CommitWorkerStateTransitions, TypeOK
<1>13. ASSUME AbandonFlight(f) PROVE TypeOK'
  BY <1>13, IdleFlight, FlightType DEF AbandonFlight, TypeOK
<1> QED
  BY <1>5, <1>6, <1>7, <1>8, <1>9, <1>10, <1>11, <1>12, <1>13 DEF FlightStep

\* The custody transactions that are one step.
LEMMA CustodyStepType ==
    ASSUME TypeOK, NEW a \in Attempts, CustodyStep(a)
    PROVE  TypeOK'
<1>1. att[a] \in Attempt /\ asgn[a] \in Assignment
  BY DEF TypeOK
<1>2. [asgn[a] EXCEPT !.state = "released"] \in Assignment
  BY Zenon, <1>1, AssignmentOps DEF AssignmentState
<1>3. ASSUME ReleaseNarrowedOffer(a) PROVE TypeOK'
  BY Zenon, <1>1, <1>2, <1>3, AttemptOps, SaveAssignmentType, SaveAttemptType
     DEF ReleaseNarrowedOffer, TypeOK
<1>4. ASSUME RepairCoordinatorState(a) PROVE TypeOK'
  BY SMTT(30), <1>2, <1>4, SaveAssignmentType DEF RepairCoordinatorState, TypeOK
<1>5. ASSUME NEW o \in {"stopped", "failed"}, RecoverUnknownAssignment(a, o) PROVE TypeOK'
  BY ZenonT(60), <1>1, <1>2, <1>5, AttemptOps, SaveAssignmentType, SaveAttemptType
     DEF RecoverUnknownAssignment, TypeOK
<1>6. ASSUME NEW k \in CommandKind, NEW r \in {"accepted", "rejected"},
             AcknowledgeWorkerCommand(a, k, r)
      PROVE TypeOK'
  <2>1. cmd[a] \in [CommandKind -> Command] /\ cmd[a][k] \in Command
    BY DEF TypeOK
  <2>2. [cmd[a][k] EXCEPT !.state = r] \in Command
    BY <2>1 DEF Command, CommandState
  <2>3. [cmd[a] EXCEPT ![k] = [cmd[a][k] EXCEPT !.state = r]] \in [CommandKind -> Command]
    BY <2>1, <2>2
  <2>4. cmd' \in [Attempts -> [CommandKind -> Command]]
    BY <1>6, <2>3 DEF AcknowledgeWorkerCommand, TypeOK
  <2> QED BY <1>6, <2>4 DEF AcknowledgeWorkerCommand, TypeOK
<1> QED BY <1>3, <1>4, <1>5, <1>6 DEF CustodyStep

\* The control a throttle record has after its answer.
LEMMA AcknowledgedControlType ==
    ASSUME NEW t \in Throttle, NEW r
    PROVE  AcknowledgedControl(t, r) \in Control
BY DEF AcknowledgedControl, Throttle, Control

\* The throttle's steps.
LEMMA ThrottleStepType ==
    ASSUME TypeOK, NEW a \in Attempts, ThrottleStep(a)
    PROVE  TypeOK'
<1>1. att[a] \in Attempt /\ thr[a] \in Throttle
  BY DEF TypeOK
<1>2. att[a].control \in Control /\ thr[a].kind \in ThrottleKind
  BY SMTT(60), <1>1 DEF Attempt, Throttle
<1>3. ASSUME NEW k \in {"warn", "drain", "hard-stop"}, ThrottleIntent(a, k) PROVE TypeOK'
  <2> DEFINE c == IF k = "warn" THEN att[a].control ELSE "draining"
  <2>1. c \in Control /\ k \in ThrottleKind /\ "pending" \in ThrottleDelivery
    BY SMTT(60), <1>2 DEF Control, ThrottleKind, ThrottleDelivery
  <2>2. SaveThrottle(a, k, "pending", c) /\ SyncControl(a, c)
        /\ UNCHANGED <<coord, asgn, cmd, snap, wait, flight>>
    BY <1>3 DEF ThrottleIntent
  <2> HIDE DEF c
  <2> QED BY SMTT(60), <2>1, <2>2, SaveThrottleType, SyncControlType DEF TypeOK
<1>4. ASSUME NEW k \in {"drain", "hard-stop"}, AdminPause(a, k) PROVE TypeOK'
  <2>1. "draining" \in Control /\ k \in ThrottleKind /\ "pending" \in ThrottleDelivery
    BY SMTT(30) DEF Control, ThrottleKind, ThrottleDelivery
  <2>2. [att[a] EXCEPT !.control = "draining"] \in Attempt
    BY ZenonT(60), <1>1, <2>1, AttemptOps
  <2> QED BY SMTT(60), <1>4, <2>1, <2>2, SaveThrottleType, SaveAttemptType DEF AdminPause, TypeOK
<1>5. ASSUME ThrottleDeadline(a) PROVE TypeOK'
  <2>1. "draining" \in Control /\ "hard-stop" \in ThrottleKind /\ "pending" \in ThrottleDelivery
    BY SMTT(60) DEF Control, ThrottleKind, ThrottleDelivery
  <2> QED BY <1>5, <2>1, SaveThrottleType, SyncControlType DEF ThrottleDeadline, TypeOK
<1>6. ASSUME ThrottleResume(a) PROVE TypeOK'
  <2>1. "resuming" \in Control /\ "resume" \in ThrottleKind /\ "pending" \in ThrottleDelivery
    BY SMTT(60) DEF Control, ThrottleKind, ThrottleDelivery
  <2> QED BY <1>6, <2>1, SaveThrottleType, SyncControlType DEF ThrottleResume, TypeOK
<1>7. ASSUME NEW r \in {"accepted", "checkpoint-failed", "rejected"}, ThrottleAcknowledge(a, r)
      PROVE TypeOK'
  <2> DEFINE c == AcknowledgedControl(thr[a], r)
             d == IF r = "rejected" THEN "rejected" ELSE "acknowledged"
  <2>1. c \in Control
    BY <1>1, AcknowledgedControlType
  <2>2. d \in ThrottleDelivery
    BY SMTT(60) DEF ThrottleDelivery
  <2>3. SaveThrottle(a, thr[a].kind, d, c) /\ SyncControl(a, c)
        /\ UNCHANGED <<coord, asgn, cmd, snap, wait, flight>>
    BY <1>7 DEF ThrottleAcknowledge
  <2> HIDE DEF c, d
  <2> QED BY SMTT(60), <1>2, <2>1, <2>2, <2>3, SaveThrottleType, SyncControlType DEF TypeOK
<1> QED BY <1>3, <1>4, <1>5, <1>6, <1>7 DEF ThrottleStep

\* The steps of task-bound waits.
LEMMA WaitStepType ==
    ASSUME TypeOK, NEW a \in Attempts, WaitStep(a)
    PROVE  TypeOK'
<1>1. att[a] \in Attempt /\ wait[a] \in Wait
  BY DEF TypeOK
<1>2. ASSUME RegisterTaskWait(a) PROVE TypeOK'
  <2>1. [att[a] EXCEPT !.progress = "waiting-external", !.control = "waiting-external",
                       !.completedAt = FALSE] \in Attempt
    BY Zenon, <1>1 DEF Attempt, Progress, Control
  <2>2. wait' \in [Attempts -> Wait]
    BY ZenonT(60), <1>2 DEF RegisterTaskWait, TypeOK, Wait
  <2> QED BY <1>2, <2>1, <2>2, SaveAttemptType DEF RegisterTaskWait, TypeOK
<1>3. ASSUME NEW others \in BOOLEAN, SettleTaskWait(a, others) PROVE TypeOK'
  BY <1>3 DEF SettleTaskWait, TypeOK, Wait
<1>4. ASSUME WakeWithoutResuming(a) PROVE TypeOK'
  BY ZenonT(60), <1>4 DEF WakeWithoutResuming, TypeOK, Wait
<1>5. ASSUME WakeAbandoned(a) PROVE TypeOK'
  <2>1. Finish(att[a], "failed") \in Attempt
    BY Zenon, <1>1, AttemptOps DEF TerminalProgress
  <2>2. wait' \in [Attempts -> Wait]
    BY ZenonT(60), <1>5 DEF WakeAbandoned, TypeOK, Wait
  <2> QED BY <1>5, <2>1, <2>2, SaveAttemptType DEF WakeAbandoned, TypeOK
<1>6. ASSUME WakeResuming(a) PROVE TypeOK'
  <2>1. wait' \in [Attempts -> Wait]
    BY ZenonT(60), <1>6 DEF WakeResuming, TypeOK, Wait
  <2>2. SaveAttempt(a, Resumed(att[a])) /\ UNCHANGED <<coord, asgn, cmd, snap, thr, flight>>
    BY <1>6 DEF WakeResuming
  <2> QED BY Zenon, <1>1, <2>1, <2>2, AttemptOps, SaveAttemptType DEF TypeOK
<1> QED BY <1>2, <1>3, <1>4, <1>5, <1>6 DEF WaitStep

\* The administrator's steps and the import of a result.
LEMMA AdminStepType ==
    ASSUME TypeOK, NEW a \in Attempts, AdminStep(a)
    PROVE  TypeOK'
<1>1. att[a] \in Attempt /\ thr[a] \in Throttle
  BY DEF TypeOK
<1>2. \A p \in TerminalProgress : Finish(att[a], p) \in Attempt
  BY Zenon, <1>1, AttemptOps
<1>3. ASSUME AdminStart(a) PROVE TypeOK'
  <2>1. [att[a] EXCEPT !.progress = "ready"] \in Attempt
    BY Zenon, <1>1, AttemptOps DEF Progress
  <2> QED BY SMTT(30), <1>3, <2>1, SaveAttemptType DEF AdminStart, TypeOK
<1>4. ASSUME AdminResume(a) PROVE TypeOK'
  <2>1. [att[a] EXCEPT !.control = "resuming"] \in Attempt
    BY ZenonT(60), <1>1, AttemptOps DEF Control
  <2> QED BY SMTT(30), <1>4, <2>1, SaveAttemptType DEF AdminResume, TypeOK
<1>5. ASSUME AdminCancel(a) PROVE TypeOK'
  BY SMTT(60), <1>2, <1>5, SaveAttemptType DEF AdminCancel, TypeOK, TerminalProgress
<1>6. ASSUME AdminSkip(a) PROVE TypeOK'
  BY SMTT(30), <1>2, <1>6, SaveAttemptType DEF AdminSkip, TypeOK, TerminalProgress
<1>7. ASSUME AdminRewake(a) PROVE TypeOK'
  BY ZenonT(60), <1>1, <1>7, AttemptOps, SaveAttemptType DEF AdminRewake, TypeOK
<1>8. ASSUME NEW p \in {"succeeded", "failed"}, ImportResult(a, p) PROVE TypeOK'
  <2>1. att' \in [Attempts -> Attempt]
    BY <1>2, <1>8, SaveAttemptType DEF ImportResult, TerminalProgress
  <2>2. thr' \in [Attempts -> Throttle]
    <3> DEFINE d == IF thr[a].delivery = "pending" THEN "cancelled" ELSE thr[a].delivery
    <3>1. d \in ThrottleDelivery /\ thr[a].kind \in ThrottleKind /\ "stopped" \in Control
      BY SMTT(60), <1>1 DEF Throttle, ThrottleDelivery, Control
    <3>2. SaveThrottle(a, thr[a].kind, d, "stopped") \/ thr' = thr
      BY <1>8 DEF ImportResult
    <3> HIDE DEF d
    <3> QED BY SMTT(60), <3>1, <3>2, SaveThrottleType DEF TypeOK
  <2> QED BY SMTT(60), <1>8, <2>1, <2>2 DEF ImportResult, TypeOK
<1> QED BY <1>3, <1>4, <1>5, <1>6, <1>7, <1>8 DEF AdminStep

\* Every step keeps the rows and the reads in flight well formed.
LEMMA NextType == TypeOK /\ [Next]_vars => TypeOK'
<1> SUFFICES ASSUME TypeOK, [Next]_vars PROVE TypeOK'
  OBVIOUS
<1>1. CASE UNCHANGED vars
  BY SMTT(60), <1>1 DEF vars, TypeOK
<1>2. CASE Next
  BY <1>2, EnvironmentType, FlightStepType, CustodyStepType, ThrottleStepType,
     WaitStepType, AdminStepType DEF Next
<1> QED BY <1>1, <1>2

\* The type invariant of the coordinator's store, for every number of attempts,
\* workers and operations in flight: no transaction writes a malformed row.
THEOREM TypeCorrect == Spec => []TypeOK
BY InitType, NextType, PTL DEF Spec

-----------------------------------------------------------------------------
(* Custody agreement. *)

\* What a write of one attempt leaves: the fields given, the next revision, and
\* the other attempts as they were.
LEMMA SavedAttempt ==
    ASSUME TypeOK, NEW a \in Attempts, NEW t \in Attempt, SaveAttempt(a, t)
    PROVE  /\ att'[a].progress = t.progress /\ att'[a].control = t.control
           /\ att'[a].attached = t.attached /\ att'[a].completedAt = t.completedAt
           /\ att'[a].rev = att[a].rev + 1
           /\ \A b \in Attempts \ {a} : att'[b] = att[b]
BY DEF TypeOK, SaveAttempt, Attempt

\* What a write of one assignment leaves.
LEMMA SavedAssignment ==
    ASSUME TypeOK, NEW a \in Attempts, NEW r, SaveAssignment(a, r)
    PROVE  asgn'[a] = r /\ \A b \in Attempts \ {a} : asgn'[b] = asgn[b]
BY DEF TypeOK, SaveAssignment

\* The agreement of one attempt depends on four fields of it.
LEMMA AgreementFields ==
    ASSUME NEW t, NEW u, NEW r,
           t.progress = u.progress, t.control = u.control, t.attached = u.attached,
           t.completedAt = u.completedAt
    PROVE  /\ Agreement(t, r) <=> Agreement(u, r)
           /\ ParkShape(t) <=> ParkShape(u)
BY SMTT(60) DEF Agreement, ParkShape, UnfinishedPark, Finished, Terminal, WaitingExternal

\* A step that moves the rows of one attempt keeps the invariant when it keeps it
\* for that attempt.
LEMMA OneAttempt ==
    ASSUME CustodyInvariant, NEW a \in Attempts,
           \A b \in Attempts \ {a} : att'[b] = att[b] /\ asgn'[b] = asgn[b],
           Agreement(att'[a], asgn'[a]), ParkShape(att'[a])
    PROVE  CustodyAgreement' /\ WellParked'
<1>1. \A b \in Attempts : Agreement(att'[b], asgn'[b])
  <2> SUFFICES ASSUME NEW b \in Attempts, b # a PROVE Agreement(att'[b], asgn'[b])
    OBVIOUS
  <2> QED BY DEF CustodyInvariant, CustodyAgreement
<1>2. \A b \in Attempts : ParkShape(att'[b])
  <2> SUFFICES ASSUME NEW b \in Attempts, b # a PROVE ParkShape(att'[b])
    OBVIOUS
  <2> QED BY DEF CustodyInvariant, WellParked
<1> QED BY SMTT(60), <1>1, <1>2 DEF CustodyAgreement, WellParked

\* A flight that is not a planned reconciliation adds no transition.
LEMMA OtherFlight ==
    ASSUME CustodyInvariant, NEW f \in Flights, NEW p, p.op # "reconcile",
           flight' = [flight EXCEPT ![f] = p]
    PROVE  PlannedShape'
BY SMTT(60) DEF CustodyInvariant, TypeOK, PlannedShape

\* What stays when the flights, or the throttle records, are not written.
LEMMA UnchangedShapes ==
    ASSUME CustodyInvariant
    PROVE  /\ flight' = flight => PlannedShape'
           /\ thr' = thr => ThrottleShape'
           /\ att' = att => WellParked'
           /\ att' = att /\ asgn' = asgn => CustodyAgreement'
BY SMTT(60) DEF CustodyInvariant, PlannedShape, ThrottleShape, WellParked, CustodyAgreement

\* The rows a reconciliation returns are about the assignment it was given, and
\* keep a park a park.
LEMMA ReconciledShape ==
    ASSUME CustodyInvariant, NEW a \in Attempts, NEW o \in ObservedState,
           NEW e \in 1..MaxWorkerEpoch, asgn[a].state \in {"claimed", "unknown"}
    PROVE  LET m == ReconciledRows(a, o, e) IN
           /\ m.assignment.state \in {"claimed", "unknown", "released", "completed"}
           /\ m.assignment.epoch = asgn[a].epoch /\ m.assignment.worker = asgn[a].worker
           /\ ParkShape(m.attempt)
<1> DEFINE r == asgn[a]
           t == att[a]
           Good(m) == /\ m.assignment.state \in {"claimed", "unknown", "released", "completed"}
                      /\ m.assignment.epoch = r.epoch /\ m.assignment.worker = r.worker
                      /\ ParkShape(m.attempt)
<1>1. r \in Assignment /\ t \in Attempt /\ ParkShape(t)
  BY SMTT(60) DEF CustodyInvariant, TypeOK, WellParked
<1>2. Good(Rows(r, t))
  BY SMTT(60), <1>1 DEF Rows
<1>3. Good(ReleasedRows(r, t))
  BY <1>1 DEF ReleasedRows, Rows, Requeue, ParkShape, UnfinishedPark, Finished, Terminal,
              WaitingExternal, TerminalProgress, Attempt, Assignment
<1>4. \A w : Good(CompletedRows(r, t, w)) /\ Good(ObservedCompletedRows(r, t, w))
  BY ZenonT(60), <1>1 DEF CompletedRows, ObservedCompletedRows, Rows, ParkShape, UnfinishedPark, Finished,
              Terminal, WaitingExternal, TerminalProgress, Attempt, Assignment
<1>5. o \in ObservedClaim => Good(ObservedClaimRows(r, t, e, o))
  BY Zenon, <1>1 DEF ObservedClaimRows, ObservedClaim, Rows, ParkShape, Finished, Terminal,
              WorkerOwnsStopIntent, TerminalProgress, Attempt, Assignment
<1>6. Good(ObservedUnknownRows(r, t, e))
  BY <1>1, <1>2 DEF ObservedUnknownRows, Rows, ParkShape, Attempt, Assignment
<1>7. Good(UnobservedRows(a, e))
  <2>1. Good(Rows(r, [t EXCEPT !.control = "stopped"]))
    BY <1>1 DEF Rows, ParkShape, Attempt
  <2>2. ~WaitingExternal(t) =>
          Good(Rows(r, [t EXCEPT !.progress = "active", !.control = "running"]))
    BY Zenon, <1>1 DEF Rows, ParkShape, Attempt
  <2> HIDE DEF Good
  <2> QED BY <1>2, <1>3, <1>4, <2>1, <2>2 DEF UnobservedRows
<1>8. Good(ReconciledRows(a, o, e))
  <2> HIDE DEF Good
  <2> QED BY <1>2, <1>3, <1>4, <1>5, <1>6, <1>7 DEF ReconciledRows
<1> QED BY SMTT(60), <1>8

\* Initially no attempt is attached or parked and nothing is in flight.
LEMMA InitInvariant == Init => CustodyInvariant
<1> SUFFICES ASSUME Init PROVE CustodyInvariant
  OBVIOUS
<1>1. TypeOK
  BY SMTT(60), InitType
<1>2. CustodyAgreement
  BY SMTT(60) DEF Init, CustodyAgreement, Agreement
<1>3. WellParked
  BY SMTT(60) DEF Init, WellParked, ParkShape
<1>4. ThrottleShape
  BY SMTT(60) DEF Init, ThrottleShape, NoThrottle
<1>5. PlannedShape
  BY DEF Init, PlannedShape, Idle
<1> QED BY <1>1, <1>2, <1>3, <1>4, <1>5 DEF CustodyInvariant

\* Coordinator restarts, snapshots and lease expiry.
LEMMA EnvironmentInvariant ==
    ASSUME CustodyInvariant,
           \/ AcquireCoordinator
           \/ \E w \in Workers : WorkerStep(w)
           \/ \E S \in SUBSET Attempts : ExpireAssignmentLeases(S)
    PROVE  (CustodyAgreement /\ WellParked /\ ThrottleShape /\ PlannedShape)'
<1>1. CASE AcquireCoordinator
  BY <1>1, UnchangedShapes DEF AcquireCoordinator
<1>2. CASE \E w \in Workers : WorkerStep(w)
  BY <1>2, UnchangedShapes DEF WorkerStep, ObserveSnapshot, SnapshotExpires
<1>3. CASE \E S \in SUBSET Attempts : ExpireAssignmentLeases(S)
  <2>1. PICK S \in SUBSET Attempts : ExpireAssignmentLeases(S)
    BY <1>3
  <2>2. \A a \in Attempts : Agreement(att[a], asgn'[a])
    BY <2>1 DEF CustodyInvariant, CustodyAgreement, Agreement, ExpireAssignmentLeases,
                TypeOK, Assignment
  <2>3. CustodyAgreement'
    BY SMTT(60), <2>1, <2>2 DEF CustodyAgreement, ExpireAssignmentLeases
  <2> QED BY <2>1, <2>3, UnchangedShapes DEF ExpireAssignmentLeases
<1> QED BY SMTT(60), <1>1, <1>2, <1>3

\* Operations between their read and their write.
LEMMA FlightStepInvariant ==
    ASSUME CustodyInvariant, NEW f \in Flights, FlightStep(f)
    PROVE  (CustodyAgreement /\ WellParked /\ ThrottleShape /\ PlannedShape)'
<1> DEFINE p == flight[f]
           Goal == (CustodyAgreement /\ WellParked /\ ThrottleShape /\ PlannedShape)'
<1>0. TypeOK /\ p \in Flight
  BY DEF CustodyInvariant, TypeOK
<1>1. Idle.op # "reconcile"
  BY DEF Idle
<1>2. ASSUME NEW a \in Attempts, NEW w \in Workers, PlanOffer(f, a, w) PROVE Goal
  BY Zenon, <1>2, OtherFlight, UnchangedShapes DEF PlanOffer
<1>3. ASSUME CommitAssignmentPlan(f) PROVE Goal
  <2>1. p.a \in Attempts
    BY <1>0, <1>3, FlightKinds DEF CommitAssignmentPlan, OfferFlight
  <2>2. att[p.a] \in Attempt /\ [att[p.a] EXCEPT !.attached = TRUE] \in Attempt
    BY ZenonT(60), <1>0, <2>1, AttemptOps DEF TypeOK
  <2> DEFINE t == [att[p.a] EXCEPT !.attached = TRUE]
  <2>3. t.attached /\ t.progress = att[p.a].progress /\ t.control = att[p.a].control
        /\ t.completedAt = att[p.a].completedAt
    BY <2>2 DEF Attempt
  <2>4. ParkShape(t)
    BY SMTT(60), <2>1, <2>3 DEF CustodyInvariant, WellParked, ParkShape
  <2>5. asgn'[p.a].state = "offered" /\ \A b \in Attempts \ {p.a} : asgn'[b] = asgn[b]
    BY <1>0, <1>3, <2>1, SavedAssignment DEF CommitAssignmentPlan
  <2>6. /\ att'[p.a].progress = t.progress /\ att'[p.a].control = t.control
        /\ att'[p.a].attached = t.attached /\ att'[p.a].completedAt = t.completedAt
        /\ \A b \in Attempts \ {p.a} : att'[b] = att[b]
    BY ZenonT(30), <1>0, <1>3, <2>1, <2>2, SavedAttempt DEF CommitAssignmentPlan
  <2>7. Agreement(t, asgn'[p.a])
    BY SMTT(60), <2>3, <2>5 DEF Agreement
  <2> HIDE DEF t
  <2>8. Agreement(att'[p.a], asgn'[p.a]) /\ ParkShape(att'[p.a])
    BY SMTT(60), <2>4, <2>6, <2>7, AgreementFields
  <2>9. CustodyAgreement' /\ WellParked'
    BY <2>1, <2>5, <2>6, <2>8, OneAttempt
  <2> QED BY ZenonT(60), <1>1, <1>3, <2>9, OtherFlight, UnchangedShapes DEF CommitAssignmentPlan
<1>4. ASSUME NEW a \in Attempts, DeliverOffer(f, a) PROVE Goal
  BY Zenon, <1>4, OtherFlight, UnchangedShapes DEF DeliverOffer
<1>5. ASSUME ClaimAssignment(f) PROVE Goal
  <2>1. p.a \in Attempts
    BY <1>0, <1>5, FlightKinds DEF ClaimAssignment, ClaimFlight
  <2>2. att[p.a] \in Attempt /\ asgn[p.a] \in Assignment
    BY SMTT(30), <1>0, <2>1 DEF TypeOK
  <2> DEFINE t == [att[p.a] EXCEPT !.progress = "active", !.control = "preparing"]
  <2>3. t \in Attempt
    BY Zenon, <2>2, AttemptOps DEF Progress, Control
  <2>4. t.attached = att[p.a].attached /\ t.progress = "active" /\ t.control = "preparing"
    BY <2>2 DEF Attempt
  <2>5. att[p.a].attached
    BY SMTT(60), <1>5 DEF ClaimAssignment
  <2>6. asgn'[p.a].state = "claimed" /\ \A b \in Attempts \ {p.a} : asgn'[b] = asgn[b]
    BY <1>0, <1>5, <2>1, <2>2, SavedAssignment DEF ClaimAssignment, Assignment
  <2>7. /\ att'[p.a].progress = t.progress /\ att'[p.a].control = t.control
        /\ att'[p.a].attached = t.attached /\ att'[p.a].completedAt = t.completedAt
        /\ \A b \in Attempts \ {p.a} : att'[b] = att[b]
    BY ZenonT(60), <1>0, <1>5, <2>1, <2>3, SavedAttempt DEF ClaimAssignment
  <2>8. Agreement(att'[p.a], asgn'[p.a]) /\ ParkShape(att'[p.a])
    BY SMTT(60), <2>4, <2>5, <2>6, <2>7 DEF Agreement, ParkShape
  <2> HIDE DEF t
  <2>9. CustodyAgreement' /\ WellParked'
    BY <2>1, <2>6, <2>7, <2>8, OneAttempt
  <2> QED BY ZenonT(60), <1>1, <1>5, <2>9, OtherFlight, UnchangedShapes DEF ClaimAssignment
<1>6. ASSUME NEW a \in Attempts, NEW w \in Workers, PlanWorkerCommand(f, w, a) PROVE Goal
  BY Zenon, <1>6, OtherFlight, UnchangedShapes DEF PlanWorkerCommand
<1>7. ASSUME CommitWorkerCommand(f) PROVE Goal
  BY ZenonT(60), <1>1, <1>7, OtherFlight, UnchangedShapes DEF CommitWorkerCommand
<1>8. ASSUME NEW w \in Workers, PlanWorkerStateTransitions(f, w) PROVE Goal
  <2> DEFINE items == [a \in Attempts |-> PlannedTransition(a, w)]
             n == [op |-> "reconcile", w |-> w, cepoch |-> coord,
                   wepoch |-> snap[w].wepoch, seq |-> snap[w].seq, items |-> items]
  <2>1. snap[w].wepoch \in 1..MaxWorkerEpoch /\ snap[w].obs \in [Attempts -> Observation]
    BY <1>0 DEF TypeOK, Snapshot
  <2>2. ASSUME NEW a \in Attempts, items[a] # NoTransition PROVE TransitionShape(items[a])
    <3> DEFINE o == ObservationOf(a, snap[w])
               m == ReconciledRows(a, o, snap[w].wepoch)
    <3>1. o \in ObservedState
      BY SMTT(60), <2>1 DEF ObservationOf, Observation, ObservedState
    <3>2. asgn[a].state \in {"claimed", "unknown"} /\ items[a] =
            [expected |-> asgn[a], expectedRev |-> att[a].rev, assignment |-> m.assignment,
             attempt |-> [m.attempt EXCEPT !.rev = att[a].rev + 1], stopped |-> o = "released"]
      BY SMTT(60), <2>2 DEF PlannedTransition
    <3>3. m.attempt \in Attempt
      BY SMTT(60), <1>0, <2>1, <3>1, ReconciledRowsType
    <3>4. /\ m.assignment.state \in {"claimed", "unknown", "released", "completed"}
          /\ m.assignment.epoch = asgn[a].epoch /\ m.assignment.worker = asgn[a].worker
          /\ ParkShape(m.attempt)
      BY <2>1, <3>1, <3>2, ReconciledShape
    <3> HIDE DEF m, o, items
    <3> DEFINE t == [m.attempt EXCEPT !.rev = att[a].rev + 1]
    <3>5. t.rev = att[a].rev + 1 /\ t.progress = m.attempt.progress
          /\ t.control = m.attempt.control /\ t.completedAt = m.attempt.completedAt
      BY <3>3 DEF Attempt
    <3>6. ParkShape(t)
      BY <3>4, <3>5 DEF ParkShape
    <3>7. /\ items[a].expected = asgn[a] /\ items[a].expectedRev = att[a].rev
          /\ items[a].assignment = m.assignment /\ items[a].attempt = t
      BY SMTT(60), <3>2
    <3> HIDE DEF t
    <3> QED BY SMTT(60), <3>2, <3>4, <3>5, <3>6, <3>7 DEF TransitionShape
  <2> HIDE DEF items
  <2>3. flight' = [flight EXCEPT ![f] = n] /\ UNCHANGED <<coord, att, asgn, cmd, snap, thr, wait>>
    BY <1>8 DEF PlanWorkerStateTransitions, items
  <2>4. PlannedShape'
    BY SMTT(30), <2>2, <2>3 DEF CustodyInvariant, TypeOK, PlannedShape
  <2> QED BY <2>3, <2>4, UnchangedShapes
<1>9. ASSUME CommitWorkerStateTransitions(f) PROVE Goal
  <2>1. ASSUME NEW a \in Attempts, p.items[a] # NoTransition
        PROVE  Agreement(p.items[a].attempt, p.items[a].assignment)
               /\ ParkShape(p.items[a].attempt)
    <3>1. TransitionAdmitted(a, p.items[a], p)
      BY ZenonT(60), <1>9, <2>1 DEF CommitWorkerStateTransitions
    <3>2. TransitionShape(p.items[a])
      <4>1. p.op = "reconcile"
        BY ZenonT(60), <1>9 DEF CommitWorkerStateTransitions
      <4>2. PlannedShape
        BY ZenonT(60) DEF CustodyInvariant
      <4> QED BY ZenonT(60), <2>1, <4>1, <4>2 DEF PlannedShape
    <3> DEFINE i == p.items[a]
    <3>3. /\ i.assignment.state # "released" => i.attempt.attached
          /\ i.assignment.state = "released" /\ i.attempt.attached => UnfinishedPark(i.attempt)
      BY ZenonT(30), <3>1 DEF TransitionAdmitted, ValidTransition
    <3>4. i.assignment.state # "none" /\ ParkShape(i.attempt)
      BY ZenonT(60), <3>2 DEF TransitionShape
    <3> HIDE DEF i
    <3>5. Agreement(i.attempt, i.assignment)
      BY SMTT(60), <3>3, <3>4 DEF Agreement
    <3> QED BY SMTT(60), <3>4, <3>5 DEF i
  <2>2. \A a \in Attempts :
          \/ att'[a] = att[a] /\ asgn'[a] = asgn[a]
          \/ /\ p.items[a] # NoTransition
             /\ att'[a] = p.items[a].attempt /\ asgn'[a] = p.items[a].assignment
    BY SMTT(60), <1>9 DEF CommitWorkerStateTransitions
  <2>3. CustodyAgreement' /\ WellParked'
    BY <2>1, <2>2 DEF CustodyInvariant, CustodyAgreement, WellParked
  <2> QED BY ZenonT(60), <1>1, <1>9, <2>3, OtherFlight, UnchangedShapes DEF CommitWorkerStateTransitions
<1>10. ASSUME AbandonFlight(f) PROVE Goal
  BY ZenonT(60), <1>1, <1>10, OtherFlight, UnchangedShapes DEF AbandonFlight
<1> QED
  BY SMTT(60), <1>2, <1>3, <1>4, <1>5, <1>6, <1>7, <1>8, <1>9, <1>10 DEF FlightStep

\* A write of one attempt, with its assignment as it was.
LEMMA AttemptWritten ==
    ASSUME CustodyInvariant, NEW a \in Attempts, NEW t \in Attempt, SaveAttempt(a, t),
           asgn' = asgn, Agreement(t, asgn[a]), ParkShape(t)
    PROVE  CustodyAgreement' /\ WellParked'
<1>1. TypeOK
  BY SMTT(60) DEF CustodyInvariant
<1>2. Agreement(att'[a], asgn[a]) /\ ParkShape(att'[a])
  <2>1. /\ att'[a].progress = t.progress /\ att'[a].control = t.control
        /\ att'[a].attached = t.attached /\ att'[a].completedAt = t.completedAt
    BY SMTT(60), <1>1, SavedAttempt
  <2> QED BY SMTT(60), <2>1, AgreementFields
<1>3. \A b \in Attempts \ {a} : att'[b] = att[b]
  BY <1>1, SavedAttempt
<1> QED BY <1>2, <1>3, OneAttempt

\* A control that neither parks nor unassigns keeps agreement and parks.
LEMMA ControlWritten ==
    ASSUME CustodyInvariant, NEW a \in Attempts,
           NEW c \in Control \ {"unassigned", "waiting-external"}
    PROVE  LET t == [att[a] EXCEPT !.control = c] IN
           t \in Attempt /\ Agreement(t, asgn[a]) /\ ParkShape(t)
<1> DEFINE t == [att[a] EXCEPT !.control = c]
<1>1. att[a] \in Attempt /\ Agreement(att[a], asgn[a]) /\ ParkShape(att[a])
  BY SMTT(30) DEF CustodyInvariant, TypeOK, CustodyAgreement, WellParked
<1>2. t \in Attempt
  BY Zenon, <1>1, AttemptOps
<1>3. /\ t.control = c /\ t.progress = att[a].progress /\ t.attached = att[a].attached
      /\ t.completedAt = att[a].completedAt
  BY SMTT(60), <1>1 DEF Attempt
<1> HIDE DEF t
<1>4. ParkShape(t)
  BY SMTT(60), <1>1, <1>3 DEF ParkShape
<1>5. Agreement(t, asgn[a])
  BY <1>1, <1>3 DEF Agreement, ParkShape, UnfinishedPark, Finished, Terminal, WaitingExternal
<1> QED BY SMTT(60), <1>2, <1>4, <1>5 DEF t

\* The projection of a throttle intent keeps agreement and parks.
LEMMA ControlProjected ==
    ASSUME CustodyInvariant, NEW a \in Attempts,
           NEW c \in Control \ {"unassigned", "waiting-external"}, SyncControl(a, c),
           asgn' = asgn
    PROVE  CustodyAgreement' /\ WellParked'
<1>1. CASE att' = att
  BY <1>1, UnchangedShapes
<1>2. CASE SaveAttempt(a, [att[a] EXCEPT !.control = c])
  BY SMTT(60), <1>2, ControlWritten, AttemptWritten
<1> QED BY <1>1, <1>2 DEF SyncControl

\* A finished attempt agrees with any assignment its unfinished one agreed with.
LEMMA FinishWritten ==
    ASSUME CustodyInvariant, NEW a \in Attempts, NEW p \in TerminalProgress
    PROVE  /\ Finish(att[a], p) \in Attempt
           /\ Agreement(Finish(att[a], p), asgn[a]) /\ ParkShape(Finish(att[a], p))
<1> DEFINE t == Finish(att[a], p)
<1>1. att[a] \in Attempt /\ Agreement(att[a], asgn[a])
  BY SMTT(30) DEF CustodyInvariant, TypeOK, CustodyAgreement
<1>2. t \in Attempt
  BY Zenon, <1>1, AttemptOps
<1>3. t.control = "stopped" /\ t.progress = p /\ t.attached = att[a].attached
  BY SMTT(60), <1>1 DEF Attempt, Finish
<1> HIDE DEF t
<1>4. ParkShape(t)
  BY SMTT(60), <1>3 DEF ParkShape, TerminalProgress
<1>5. Agreement(t, asgn[a])
  BY SMTT(60), <1>1, <1>3 DEF Agreement, Terminal
<1> QED BY SMTT(60), <1>2, <1>4, <1>5 DEF t

\* Ending an attempt under an assignment that stays keeps agreement and parks.
LEMMA FinishSaved ==
    ASSUME CustodyInvariant, NEW a \in Attempts, NEW p \in TerminalProgress,
           SaveAttempt(a, Finish(att[a], p)), asgn' = asgn
    PROVE  CustodyAgreement' /\ WellParked'
BY SMTT(60), FinishWritten, AttemptWritten

\* The custody transactions that are one step.
LEMMA CustodyStepInvariant ==
    ASSUME CustodyInvariant, NEW a \in Attempts, CustodyStep(a)
    PROVE  (CustodyAgreement /\ WellParked /\ ThrottleShape /\ PlannedShape)'
<1> DEFINE Goal == (CustodyAgreement /\ WellParked /\ ThrottleShape /\ PlannedShape)'
           r == [asgn[a] EXCEPT !.state = "released"]
<1>1. TypeOK /\ att[a] \in Attempt /\ asgn[a] \in Assignment
  BY DEF CustodyInvariant, TypeOK
<1>2. r.state = "released"
  BY SMTT(60), <1>1 DEF Assignment
<1>3. ASSUME NEW t \in Attempt, SaveAttempt(a, t), SaveAssignment(a, r), ~t.attached,
             ParkShape(t)
      PROVE CustodyAgreement' /\ WellParked'
  <2>1. /\ att'[a].progress = t.progress /\ att'[a].control = t.control
        /\ att'[a].attached = t.attached /\ att'[a].completedAt = t.completedAt
        /\ \A b \in Attempts \ {a} : att'[b] = att[b]
    BY <1>1, <1>3, SavedAttempt
  <2>2. asgn'[a] = r /\ \A b \in Attempts \ {a} : asgn'[b] = asgn[b]
    BY <1>1, <1>3, SavedAssignment
  <2> HIDE DEF r
  <2>3. Agreement(t, r)
    BY SMTT(60), <1>2, <1>3 DEF Agreement
  <2>4. Agreement(att'[a], asgn'[a]) /\ ParkShape(att'[a])
    BY SMTT(30), <1>3, <2>1, <2>2, <2>3, AgreementFields
  <2> QED BY SMTT(60), <2>1, <2>2, <2>4, OneAttempt
<1>4. Requeue(att[a]) \in Attempt /\ ~Requeue(att[a]).attached /\ ParkShape(Requeue(att[a]))
  BY ZenonT(60), <1>1, AttemptOps DEF Requeue, ParkShape, Attempt
<1>5. ASSUME ReleaseNarrowedOffer(a) PROVE Goal
  BY <1>3, <1>4, <1>5, UnchangedShapes DEF ReleaseNarrowedOffer
<1>6. ASSUME RepairCoordinatorState(a) PROVE Goal
  <2>1. asgn'[a] = r /\ (\A b \in Attempts \ {a} : asgn'[b] = asgn[b]) /\ att' = att
    BY <1>1, <1>6, SavedAssignment DEF RepairCoordinatorState
  <2>2. Terminal(att[a]) \/ ~att[a].attached
    BY <1>6 DEF RepairCoordinatorState
  <2> HIDE DEF r
  <2>3. Agreement(att[a], r)
    BY <1>2, <2>2 DEF Agreement
  <2>4. ParkShape(att[a])
    BY SMTT(60) DEF CustodyInvariant, WellParked
  <2>5. CustodyAgreement' /\ WellParked'
    BY <2>1, <2>3, <2>4, OneAttempt
  <2> QED BY <1>6, <2>5, UnchangedShapes DEF RepairCoordinatorState
<1>7. ASSUME NEW o \in {"stopped", "failed"}, RecoverUnknownAssignment(a, o) PROVE Goal
  <2> DEFINE t == RecoveredAttempt(att[a], o)
  <2>1. t \in Attempt
    BY Zenon, <1>1, AttemptOps
  <2>2. ParkShape(att[a])
    BY DEF CustodyInvariant, WellParked
  <2>3. ~t.attached /\ ParkShape(t)
    BY <1>1, <2>2 DEF RecoveredAttempt, Finish, Requeue, Finished, Terminal, TerminalProgress,
                      ParkShape, Attempt
  <2>4. SaveAttempt(a, t) /\ SaveAssignment(a, r)
        /\ UNCHANGED <<coord, cmd, snap, thr, wait, flight>>
    BY <1>7 DEF RecoverUnknownAssignment
  <2> HIDE DEF t
  <2> QED BY SMTT(30), <1>3, <2>1, <2>3, <2>4, UnchangedShapes
<1>8. ASSUME NEW k \in CommandKind, NEW q \in {"accepted", "rejected"},
             AcknowledgeWorkerCommand(a, k, q)
      PROVE Goal
  BY SMTT(60), <1>8, UnchangedShapes DEF AcknowledgeWorkerCommand
<1> QED BY SMTT(60), <1>5, <1>6, <1>7, <1>8 DEF CustodyStep

\* A throttle record that is saved with a control that neither parks nor unassigns.
LEMMA ThrottleWritten ==
    ASSUME CustodyInvariant, NEW a \in Attempts, NEW k, NEW d, NEW c,
           d = "pending" => c \notin {"unassigned", "waiting-external"},
           SaveThrottle(a, k, d, c)
    PROVE  ThrottleShape'
BY DEF CustodyInvariant, TypeOK, ThrottleShape, SaveThrottle

\* The throttle's steps.
LEMMA ThrottleStepInvariant ==
    ASSUME CustodyInvariant, NEW a \in Attempts, ThrottleStep(a)
    PROVE  (CustodyAgreement /\ WellParked /\ ThrottleShape /\ PlannedShape)'
<1> DEFINE Goal == (CustodyAgreement /\ WellParked /\ ThrottleShape /\ PlannedShape)'
           Active == Control \ {"unassigned", "waiting-external"}
<1>1. att[a].control \in Control /\ thr[a] \in Throttle
  BY DEF CustodyInvariant, TypeOK, Attempt
<1>2. {"draining", "resuming", "running", "paused"} \subseteq Active
  BY SMTT(60) DEF Control
<1>3. ASSUME NEW k, NEW d, NEW c \in Active, SaveThrottle(a, k, d, c), SyncControl(a, c),
             UNCHANGED <<asgn, flight>>
      PROVE Goal
  BY SMTT(60), <1>3, ThrottleWritten, ControlProjected, UnchangedShapes
<1>4. ASSUME NEW k \in {"warn", "drain", "hard-stop"}, ThrottleIntent(a, k) PROVE Goal
  <2> DEFINE c == IF k = "warn" THEN att[a].control ELSE "draining"
  <2>1. c \in Active
    BY SMTT(60), <1>1, <1>2, <1>4 DEF ThrottleIntent, HoldsProviderSlot
  <2>2. SaveThrottle(a, k, "pending", c) /\ SyncControl(a, c) /\ UNCHANGED <<asgn, flight>>
    BY <1>4 DEF ThrottleIntent
  <2> HIDE DEF c
  <2> QED BY SMTT(60), <1>3, <2>1, <2>2
<1>5. ASSUME NEW k \in {"drain", "hard-stop"}, AdminPause(a, k) PROVE Goal
  <2>1. ThrottleShape'
    BY <1>5, ThrottleWritten DEF AdminPause
  <2>2. CustodyAgreement' /\ WellParked'
    BY SMTT(60), <1>2, <1>5, ControlWritten, AttemptWritten DEF AdminPause
  <2> QED BY <1>5, <2>1, <2>2, UnchangedShapes DEF AdminPause
<1>6. ASSUME ThrottleDeadline(a) PROVE Goal
  BY SMTT(60), <1>2, <1>3, <1>6 DEF ThrottleDeadline
<1>7. ASSUME ThrottleResume(a) PROVE Goal
  BY SMTT(60), <1>2, <1>3, <1>7 DEF ThrottleResume
<1>8. ASSUME NEW q \in {"accepted", "checkpoint-failed", "rejected"}, ThrottleAcknowledge(a, q)
      PROVE Goal
  <2> DEFINE c == AcknowledgedControl(thr[a], q)
             d == IF q = "rejected" THEN "rejected" ELSE "acknowledged"
  <2>1. thr[a].control \in Active
    BY <1>1, <1>8 DEF ThrottleAcknowledge, CustodyInvariant, ThrottleShape, Throttle
  <2>2. c \in Active
    BY SMTT(60), <1>2, <2>1 DEF AcknowledgedControl
  <2>3. SaveThrottle(a, thr[a].kind, d, c) /\ SyncControl(a, c) /\ UNCHANGED <<asgn, flight>>
    BY SMTT(60), <1>8 DEF ThrottleAcknowledge
  <2> HIDE DEF c, d
  <2> QED BY SMTT(60), <1>3, <2>2, <2>3
<1> QED BY SMTT(60), <1>4, <1>5, <1>6, <1>7, <1>8 DEF ThrottleStep

\* A resumed attempt that holds its execution.
LEMMA ResumeWritten ==
    ASSUME CustodyInvariant, NEW a \in Attempts, asgn[a].state # "released"
    PROVE  /\ Resumed(att[a]) \in Attempt
           /\ Agreement(Resumed(att[a]), asgn[a]) /\ ParkShape(Resumed(att[a]))
<1> DEFINE t == Resumed(att[a])
<1>1. att[a] \in Attempt /\ Agreement(att[a], asgn[a])
  BY SMTT(30) DEF CustodyInvariant, TypeOK, CustodyAgreement
<1>2. t \in Attempt
  BY Zenon, <1>1, AttemptOps
<1>3. t.control = "resuming" /\ t.progress = "active" /\ t.attached = att[a].attached
  BY SMTT(60), <1>1 DEF Attempt, Resumed
<1> HIDE DEF t
<1>4. ParkShape(t) /\ Agreement(t, asgn[a])
  BY SMTT(60), <1>1, <1>3 DEF ParkShape, Agreement
<1> QED BY SMTT(60), <1>2, <1>4 DEF t

\* The steps of task-bound waits.
LEMMA WaitStepInvariant ==
    ASSUME CustodyInvariant, NEW a \in Attempts, WaitStep(a)
    PROVE  (CustodyAgreement /\ WellParked /\ ThrottleShape /\ PlannedShape)'
<1> DEFINE Goal == (CustodyAgreement /\ WellParked /\ ThrottleShape /\ PlannedShape)'
<1>1. ASSUME RegisterTaskWait(a) PROVE Goal
  <2> DEFINE t == [att[a] EXCEPT !.progress = "waiting-external",
                                 !.control = "waiting-external", !.completedAt = FALSE]
  <2>1. att[a] \in Attempt /\ Agreement(att[a], asgn[a])
    BY DEF CustodyInvariant, TypeOK, CustodyAgreement
  <2>2. t \in Attempt
    BY Zenon, <2>1 DEF Attempt, Progress, Control
  <2>3. /\ t.progress = "waiting-external" /\ t.control = "waiting-external"
        /\ ~t.completedAt /\ t.attached = att[a].attached
    BY <2>1 DEF Attempt
  <2>4. SaveAttempt(a, t) /\ UNCHANGED <<asgn, thr, flight>>
    BY SMTT(60), <1>1 DEF RegisterTaskWait
  <2> HIDE DEF t
  <2>5. ParkShape(t)
    BY SMTT(60), <2>3 DEF ParkShape
  <2>6. Agreement(t, asgn[a])
    BY SMTT(60), <2>1, <2>3 DEF Agreement, UnfinishedPark, Finished, Terminal, WaitingExternal,
                      TerminalProgress
  <2> QED BY SMTT(60), <2>2, <2>4, <2>5, <2>6, AttemptWritten, UnchangedShapes
<1>2. ASSUME NEW others \in BOOLEAN, SettleTaskWait(a, others) PROVE Goal
  BY SMTT(60), <1>2, UnchangedShapes DEF SettleTaskWait
<1>3. ASSUME WakeWithoutResuming(a) PROVE Goal
  BY <1>3, UnchangedShapes DEF WakeWithoutResuming
<1>4. ASSUME WakeAbandoned(a) PROVE Goal
  BY ZenonT(60), <1>4, FinishSaved, UnchangedShapes DEF WakeAbandoned, TerminalProgress
<1>5. ASSUME WakeResuming(a) PROVE Goal
  <2>1. asgn[a].state # "released"
    BY SMTT(60), <1>5 DEF WakeResuming, ExecutionAbandoned
  <2>2. SaveAttempt(a, Resumed(att[a])) /\ UNCHANGED <<asgn, thr, flight>>
    BY SMTT(60), <1>5 DEF WakeResuming
  <2> QED BY SMTT(60), <2>1, <2>2, ResumeWritten, AttemptWritten, UnchangedShapes
<1> QED BY SMTT(60), <1>1, <1>2, <1>3, <1>4, <1>5 DEF WaitStep

\* The administrator's steps and the import of a result.
LEMMA AdminStepInvariant ==
    ASSUME CustodyInvariant, NEW a \in Attempts, AdminStep(a)
    PROVE  (CustodyAgreement /\ WellParked /\ ThrottleShape /\ PlannedShape)'
<1> DEFINE Goal == (CustodyAgreement /\ WellParked /\ ThrottleShape /\ PlannedShape)'
<1>1. ASSUME AdminStart(a) PROVE Goal
  <2> DEFINE t == [att[a] EXCEPT !.progress = "ready"]
  <2>1. att[a] \in Attempt /\ Agreement(att[a], asgn[a]) /\ ParkShape(att[a])
    BY SMTT(30) DEF CustodyInvariant, TypeOK, CustodyAgreement, WellParked
  <2>2. t \in Attempt
    BY ZenonT(60), <2>1, AttemptOps DEF Progress
  <2>3. /\ t.progress = "ready" /\ t.control = att[a].control
        /\ t.completedAt = att[a].completedAt /\ t.attached = att[a].attached
    BY <2>1 DEF Attempt
  <2>4. /\ SaveAttempt(a, t) /\ UNCHANGED <<asgn, thr, flight>>
        /\ ~Terminal(att[a]) /\ att[a].control = "unassigned"
    BY SMTT(60), <1>1 DEF AdminStart
  <2> HIDE DEF t
  <2>5. ParkShape(t)
    BY SMTT(60), <2>3, <2>4 DEF ParkShape
  <2>6. ~UnfinishedPark(att[a])
    BY SMTT(60), <2>1, <2>4 DEF UnfinishedPark, WaitingExternal, ParkShape
  <2>7. Agreement(t, asgn[a])
    BY <2>1, <2>3, <2>4, <2>6 DEF Agreement
  <2> QED BY ZenonT(60), <2>2, <2>4, <2>5, <2>7, AttemptWritten, UnchangedShapes
<1>2. ASSUME AdminResume(a) PROVE Goal
  <2>1. "resuming" \in Control \ {"unassigned", "waiting-external"}
    BY SMTT(30) DEF Control
  <2> QED BY SMTT(60), <1>2, <2>1, ControlWritten, AttemptWritten, UnchangedShapes DEF AdminResume
<1>3. ASSUME AdminCancel(a) PROVE Goal
  BY Zenon, <1>3, FinishSaved, UnchangedShapes DEF AdminCancel, TerminalProgress
<1>4. ASSUME AdminSkip(a) PROVE Goal
  BY ZenonT(60), <1>4, FinishSaved, UnchangedShapes DEF AdminSkip, TerminalProgress
<1>5. ASSUME AdminRewake(a) PROVE Goal
  <2>1. asgn[a].state # "released"
    BY SMTT(60), <1>5 DEF AdminRewake
  <2>2. SaveAttempt(a, Resumed(att[a])) /\ UNCHANGED <<asgn, thr, flight>>
    BY <1>5 DEF AdminRewake
  <2> QED BY <2>1, <2>2, ResumeWritten, AttemptWritten, UnchangedShapes
<1>6. ASSUME NEW p \in {"succeeded", "failed"}, ImportResult(a, p) PROVE Goal
  <2>1. CustodyAgreement' /\ WellParked'
    BY ZenonT(60), <1>6, FinishSaved DEF ImportResult, TerminalProgress
  <2>2. ThrottleShape'
    BY <1>6, ThrottleWritten, UnchangedShapes DEF ImportResult
  <2>3. PlannedShape'
    BY Zenon, <1>6, UnchangedShapes DEF ImportResult
  <2> QED BY <2>1, <2>2, <2>3
<1> QED BY SMTT(30), <1>1, <1>2, <1>3, <1>4, <1>5, <1>6 DEF AdminStep

\* The invariant is inductive.
LEMMA NextInvariant == CustodyInvariant /\ [Next]_vars => CustodyInvariant'
<1> SUFFICES ASSUME CustodyInvariant, [Next]_vars PROVE CustodyInvariant'
  OBVIOUS
<1>1. TypeOK'
  BY NextType DEF CustodyInvariant
<1>2. (CustodyAgreement /\ WellParked /\ ThrottleShape /\ PlannedShape)'
  <2>1. CASE UNCHANGED vars
    BY SMTT(60), <2>1, UnchangedShapes DEF vars
  <2>2. CASE Next
    BY SMTT(60), <2>2, EnvironmentInvariant, FlightStepInvariant, CustodyStepInvariant,
       ThrottleStepInvariant, WaitStepInvariant, AdminStepInvariant DEF Next
  <2> QED BY SMTT(60), <2>1, <2>2
<1> QED BY <1>1, <1>2 DEF CustodyInvariant

\* The inductive invariant holds in every reachable state.
THEOREM InvariantHolds == Spec => []CustodyInvariant
BY InitInvariant, NextInvariant, PTL DEF Spec

\* Attempts and assignments agree on custody in every reachable state: an offer, a
\* claim or an unknown execution is always named by its attempt, whatever stale
\* plan, lease expiry, recovery, throttle or wake crosses it.
THEOREM CustodyAgrees == Spec => []CustodyAgreement
<1>1. CustodyInvariant => CustodyAgreement
  BY SMTT(30) DEF CustodyInvariant
<1> QED BY InvariantHolds, <1>1, PTL

-----------------------------------------------------------------------------
(* The assignment rows implement AttemptCustody. *)

\* A row moves as AttemptCustody allows: it keeps its custody, is offered under
\* the next epoch, claimed, withdrawn, released or settled.
Moves(r, n) ==
    \/ /\ n.epoch = r.epoch /\ n.worker = r.worker
       /\ \/ Custody(n) = Custody(r)
          \/ Custody(r) = "offered" /\ Custody(n) \in {"free", "held"}
          \/ Custody(r) = "held" /\ Custody(n) \in {"free", "settled"}
    \/ /\ n.epoch = r.epoch + 1
       /\ Custody(r) = "free" /\ Custody(n) = "offered"

\* Every step moves every assignment row as AttemptCustody allows.
LEMMA RowsMove ==
    ASSUME CustodyInvariant, Next, NEW a \in Attempts
    PROVE  Moves(asgn[a], asgn'[a])
<1>1. TypeOK /\ asgn[a] \in Assignment
  BY SMTT(60) DEF CustodyInvariant, TypeOK
<1>2. asgn'[a] = asgn[a] => Moves(asgn[a], asgn'[a])
  BY DEF Moves
<1>3. ASSUME NEW s, [asgn[a] EXCEPT !.state = s] = asgn'[a],
             \/ asgn[a].state = "offered" /\ s \in {"claimed", "released"}
             \/ asgn[a].state = "claimed" /\ s \in {"unknown", "released"}
             \/ asgn[a].state = "unknown" /\ s = "released"
      PROVE Moves(asgn[a], asgn'[a])
  BY <1>1, <1>3 DEF Moves, Custody, Assignment
<1>4. CASE AcquireCoordinator \/ \E w \in Workers : WorkerStep(w)
  BY <1>2, <1>4 DEF AcquireCoordinator, WorkerStep, ObserveSnapshot, SnapshotExpires
<1>5. ASSUME NEW S \in SUBSET Attempts, ExpireAssignmentLeases(S)
      PROVE Moves(asgn[a], asgn'[a])
  BY SMTT(60), <1>2, <1>3, <1>5 DEF ExpireAssignmentLeases
<1>6. ASSUME NEW f \in Flights, FlightStep(f) PROVE Moves(asgn[a], asgn'[a])
  <2> DEFINE p == flight[f]
  <2>1. p \in Flight
    BY SMTT(60), <1>1 DEF TypeOK
  <2>2. CASE CommitAssignmentPlan(f)
    <3>1. p.a \in Attempts
      BY SMTT(60), <2>1, <2>2, FlightKinds DEF CommitAssignmentPlan, OfferFlight
    <3>2. CASE p.a # a
      BY SMTT(60), <1>1, <1>2, <2>2, <3>1, <3>2, SavedAssignment DEF CommitAssignmentPlan
    <3>3. CASE p.a = a
      <4>1. asgn'[a] = [state |-> "offered", epoch |-> OfferEpoch(asgn[a]), worker |-> p.w,
                        wepoch |-> p.wepoch]
        BY SMTT(60), <1>1, <2>2, <3>1, <3>3, SavedAssignment DEF CommitAssignmentPlan
      <4>2. asgn[a].state \in {"none", "released"}
        BY SMTT(60), <2>2, <3>3 DEF CommitAssignmentPlan
      <4> QED BY SMTT(60), <4>1, <4>2 DEF Moves, Custody, OfferEpoch
    <3> QED BY SMTT(60), <3>2, <3>3
  <2>3. CASE ClaimAssignment(f)
    <3>1. p.a \in Attempts
      BY SMTT(60), <2>1, <2>3, FlightKinds DEF ClaimAssignment, ClaimFlight
    <3>2. asgn[p.a].state = "offered"
      BY SMTT(60), <2>3 DEF ClaimAssignment
    <3>3. asgn'[p.a] = [asgn[p.a] EXCEPT !.state = "claimed"]
          /\ \A b \in Attempts \ {p.a} : asgn'[b] = asgn[b]
      BY SMTT(60), <1>1, <2>3, <3>1, SavedAssignment DEF ClaimAssignment
    <3> QED BY SMTT(60), <1>2, <1>3, <3>2, <3>3
  <2>4. CASE CommitWorkerStateTransitions(f)
    <3>1. CASE p.items[a] = NoTransition
      BY <1>2, <2>4, <3>1 DEF CommitWorkerStateTransitions
    <3>2. CASE p.items[a] # NoTransition
      <4> DEFINE i == p.items[a]
      <4>1. TransitionShape(i) /\ asgn[a] = i.expected /\ asgn'[a] = i.assignment
        BY ZenonT(60), <2>4, <3>2 DEF CommitWorkerStateTransitions, TransitionAdmitted, RowsAsRead,
                          CustodyInvariant, PlannedShape
      <4> HIDE DEF i
      <4> QED BY SMTT(30), <4>1 DEF TransitionShape, Moves, Custody
    <3> QED BY SMTT(60), <3>1, <3>2
  <2>5. CASE \/ \E b \in Attempts, w \in Workers : PlanOffer(f, b, w)
             \/ \E b \in Attempts : DeliverOffer(f, b)
             \/ \E b \in Attempts, w \in Workers : PlanWorkerCommand(f, w, b)
             \/ CommitWorkerCommand(f)
             \/ \E w \in Workers : PlanWorkerStateTransitions(f, w)
             \/ AbandonFlight(f)
    BY ZenonT(60), <1>2, <2>5 DEF PlanOffer, DeliverOffer, PlanWorkerCommand, CommitWorkerCommand,
                      PlanWorkerStateTransitions, AbandonFlight
  <2> QED BY ZenonT(60), <1>6, <2>2, <2>3, <2>4, <2>5 DEF FlightStep
<1>7. ASSUME NEW b \in Attempts, CustodyStep(b) PROVE Moves(asgn[a], asgn'[a])
  <2>1. CASE \E k \in CommandKind, q \in {"accepted", "rejected"} :
               AcknowledgeWorkerCommand(b, k, q)
    BY <1>2, <2>1 DEF AcknowledgeWorkerCommand
  <2>2. CASE \/ ReleaseNarrowedOffer(b)
             \/ RepairCoordinatorState(b)
             \/ \E o \in {"stopped", "failed"} : RecoverUnknownAssignment(b, o)
    <3>1. /\ asgn[b].state \in {"offered", "claimed", "unknown"}
          /\ SaveAssignment(b, [asgn[b] EXCEPT !.state = "released"])
      BY <2>2 DEF ReleaseNarrowedOffer, RepairCoordinatorState, RecoverUnknownAssignment
    <3>2. asgn'[b] = [asgn[b] EXCEPT !.state = "released"]
          /\ \A c \in Attempts \ {b} : asgn'[c] = asgn[c]
      BY SMTT(60), <1>1, <3>1, SavedAssignment
    <3> QED BY SMTT(60), <1>2, <1>3, <3>1, <3>2
  <2> QED BY ZenonT(60), <1>7, <2>1, <2>2 DEF CustodyStep
<1>8. ASSUME NEW b \in Attempts, ThrottleStep(b) \/ WaitStep(b) \/ AdminStep(b)
      PROVE Moves(asgn[a], asgn'[a])
  <2>1. CASE ThrottleStep(b)
    BY SMTT(60), <1>2, <2>1 DEF ThrottleStep, ThrottleIntent, AdminPause, ThrottleDeadline,
                      ThrottleResume, ThrottleAcknowledge
  <2>2. CASE WaitStep(b)
    BY SMTT(60), <1>2, <2>2 DEF WaitStep, RegisterTaskWait, SettleTaskWait, WakeWithoutResuming,
                      WakeAbandoned, WakeResuming
  <2>3. CASE AdminStep(b)
    BY SMTT(60), <1>2, <2>3 DEF AdminStep, AdminStart, AdminResume, AdminCancel, AdminSkip, AdminRewake,
                      ImportResult
  <2> QED BY SMTT(60), <1>8, <2>1, <2>2, <2>3
<1> QED BY ZenonT(60), <1>4, <1>5, <1>6, <1>7, <1>8 DEF Next

\* The store implements the custody protocol for every number of attempts, workers
\* and operations in flight: an epoch names one worker for good, and an attempt is
\* never handed out while it is held or after its execution completed.
THEOREM CustodyRefined == Spec => CustodyRefinement
<1>1. Init => AC!Init
  <2> SUFFICES ASSUME Init PROVE AC!Init
    OBVIOUS
  <2>1. TypeOK
    BY InitType
  <2>2. [a \in Attempts |-> Custody(asgn[a])] = [a \in Attempts |-> "free"]
    BY SMTT(60) DEF Init, Custody
  <2>3. [a \in Attempts |-> asgn[a].epoch] = [a \in Attempts |-> 0]
    BY DEF Init
  <2>4. [a \in Attempts |-> asgn[a].worker] \in [Attempts -> Workers]
    BY <2>1 DEF TypeOK, Assignment
  <2> QED BY <2>2, <2>3, <2>4 DEF AC!Init
<1>2. CustodyInvariant /\ CustodyInvariant' /\ [Next]_vars => [AC!Next]_(AC!vars)
  <2> SUFFICES ASSUME CustodyInvariant, CustodyInvariant', [Next]_vars
               PROVE [AC!Next]_(AC!vars)
    OBVIOUS
  <2>1. CASE UNCHANGED vars
    BY <2>1 DEF vars, AC!vars
  <2>2. CASE Next
    <3>1. \A a \in Attempts : Moves(asgn[a], asgn'[a])
      BY <2>2, RowsMove
    <3>2. \A a \in Attempts : /\ asgn'[a] \in Assignment
                              /\ Custody(asgn'[a]) \in {"free", "offered", "held", "settled"}
      BY SMTT(60) DEF CustodyInvariant, TypeOK, Custody
    <3>3. \A a \in Attempts : asgn'[a].epoch \in Nat /\ asgn'[a].worker \in Workers
      BY SMTT(60), <3>2, BoundsAssumption DEF Assignment
    <3>4. \A a \in Attempts : \/ AC!Offer(a) \/ AC!Withdraw(a) \/ AC!Claim(a)
                               \/ AC!Release(a) \/ AC!Settle(a) \/ AC!Stay(a)
      BY ZenonT(60), <3>1, <3>2, <3>3 DEF Moves, AC!Offer, AC!Withdraw, AC!Claim, AC!Release, AC!Settle,
                              AC!Stay, AC!Keep
    <3>5. AC!Next
      BY <3>2, <3>3, <3>4 DEF AC!Next
    <3> QED BY SMTT(60), <3>5
  <2> QED BY <2>1, <2>2
<1> QED BY <1>1, <1>2, InvariantHolds, PTL DEF Spec, CustodyRefinement, AC!Spec

=============================================================================
