-------------------- MODULE AssignmentLifecycleStepProofs --------------------
(***************************************************************************)
(* What no step of AssignmentLifecycle does, for every value of its        *)
(* constants: the action properties the runs check, from the inductive     *)
(* invariant of AssignmentLifecycleProofs.                                 *)
(***************************************************************************)
EXTENDS AssignmentLifecycleProofs

-----------------------------------------------------------------------------
(* What kind of write a step is. *)

\* What a write of one attempt row does to any attempt.
LEMMA AttemptSaved ==
    ASSUME TypeOK, TypeOK', NEW a \in Attempts, NEW b \in Attempts, NEW t, SaveAttempt(b, t)
    PROVE  /\ b # a => att'[a] = att[a]
           /\ b = a => att'[a].rev = att[a].rev + 1 /\ att'[a].progress = t.progress
<1>1. att'[b] = [t EXCEPT !.rev = att[b].rev + 1] /\ \A c \in Attempts \ {b} : att'[c] = att[c]
  BY DEF TypeOK, SaveAttempt
<1>2. att'[b] \in Attempt
  BY SMTT(60) DEF TypeOK
<1> QED BY <1>1, <1>2 DEF Attempt

\* What a reconciliation writes was admitted against the rows it replaces.
LEMMA ReconciledWrite ==
    ASSUME CustodyInvariant, NEW f \in Flights, CommitWorkerStateTransitions(f),
           NEW a \in Attempts, att'[a] # att[a] \/ asgn'[a] # asgn[a]
    PROVE  LET i == flight[f].items[a] IN
           /\ TransitionAdmitted(a, i, flight[f])
           /\ att'[a] = i.attempt /\ asgn'[a] = i.assignment
<1>1. flight[f].items[a] # NoTransition
  BY DEF CommitWorkerStateTransitions
<1> QED BY SMTT(60), <1>1 DEF CommitWorkerStateTransitions

-----------------------------------------------------------------------------
(* Revisions. *)

\* Every step takes an attempt it changes to the next revision.
LEMMA NextRevision ==
    ASSUME CustodyInvariant, TypeOK', Next, NEW a \in Attempts, att'[a] # att[a]
    PROVE  att'[a].rev = att[a].rev + 1
<1> DEFINE G == att'[a].rev = att[a].rev + 1
<1>1. TypeOK
  BY DEF CustodyInvariant
<1>2. \A b \in Attempts : \A t : SaveAttempt(b, t) => G
  BY <1>1, AttemptSaved
<1>3. ASSUME NEW b \in Attempts, NEW c, SyncControl(b, c) PROVE G
  BY <1>2, <1>3 DEF SyncControl
<1> HIDE DEF G
<1>4. att' # att
  OBVIOUS
<1>5. ASSUME NEW f \in Flights, FlightStep(f) PROVE G
  <2>1. CASE CommitAssignmentPlan(f) \/ ClaimAssignment(f)
    <3>1. flight[f].a \in Attempts
      BY SMTT(60), <1>1, <2>1, FlightKinds
         DEF TypeOK, CommitAssignmentPlan, ClaimAssignment, OfferFlight, ClaimFlight
    <3> QED BY SMTT(60), <1>2, <2>1, <3>1 DEF CommitAssignmentPlan, ClaimAssignment
  <2>2. CASE CommitWorkerStateTransitions(f)
    <3> DEFINE i == flight[f].items[a]
    <3>1. TransitionAdmitted(a, i, flight[f]) /\ att'[a] = i.attempt
      BY SMTT(30), <2>2, ReconciledWrite
    <3>2. i.attempt.rev = i.expectedRev + 1 /\ att[a].rev = i.expectedRev
      BY ZenonT(60), <3>1 DEF TransitionAdmitted, ValidTransition, RowsAsRead
    <3> QED BY SMTT(60), <3>1, <3>2 DEF G
  <2> QED BY ZenonT(60), <1>4, <1>5, <2>1, <2>2
          DEF FlightStep, PlanOffer, DeliverOffer, PlanWorkerCommand, CommitWorkerCommand,
              PlanWorkerStateTransitions, AbandonFlight
<1>6. ASSUME NEW b \in Attempts, CustodyStep(b) PROVE G
  BY SMTT(60), <1>2, <1>4, <1>6 DEF CustodyStep, ReleaseNarrowedOffer, RepairCoordinatorState,
                          RecoverUnknownAssignment, AcknowledgeWorkerCommand
<1>7. ASSUME NEW b \in Attempts, ThrottleStep(b) PROVE G
  BY SMTT(60), <1>2, <1>3, <1>7 DEF ThrottleStep, ThrottleIntent, AdminPause, ThrottleDeadline,
                          ThrottleResume, ThrottleAcknowledge
<1>8. ASSUME NEW b \in Attempts, WaitStep(b) PROVE G
  BY SMTT(60), <1>2, <1>4, <1>8 DEF WaitStep, RegisterTaskWait, SettleTaskWait, WakeWithoutResuming,
                          WakeAbandoned, WakeResuming
<1>9. ASSUME NEW b \in Attempts, AdminStep(b) PROVE G
  BY SMTT(60), <1>2, <1>9 DEF AdminStep, AdminStart, AdminResume, AdminCancel, AdminSkip, AdminRewake,
                    ImportResult
<1>10. CASE \/ AcquireCoordinator
            \/ \E w \in Workers : WorkerStep(w)
            \/ \E S \in SUBSET Attempts : ExpireAssignmentLeases(S)
  BY <1>4, <1>10 DEF AcquireCoordinator, WorkerStep, ObserveSnapshot, SnapshotExpires,
                     ExpireAssignmentLeases
<1> QED BY <1>5, <1>6, <1>7, <1>8, <1>9, <1>10 DEF Next, G

\* No transaction overwrites a change made after the read it was planned from: a
\* reconciliation, which writes whole rows it planned earlier, replaces exactly the
\* revision it read.
THEOREM UpdatesAreNotLost == Spec => NoLostUpdate
<1>1. CustodyInvariant /\ TypeOK' /\ [Next]_vars
      => [\A a \in Attempts : att'[a] # att[a] => att'[a].rev = att[a].rev + 1]_vars
  BY NextRevision
<1> QED BY <1>1, InvariantHolds, TypeCorrect, PTL DEF Spec, NoLostUpdate

-----------------------------------------------------------------------------
(* Deposed coordinators. *)

\* A step that moves a flight read under another coordinator epoch writes nothing.
LEMMA DeposedFlight ==
    ASSUME TypeOK, Next, NEW f \in Flights, flight[f] # Idle, flight[f].cepoch # coord,
           flight'[f] # flight[f]
    PROVE  UNCHANGED <<att, asgn, cmd>>
<1>1. ASSUME NEW g \in Flights, FlightStep(g) PROVE UNCHANGED <<att, asgn, cmd>>
  <2>1. CASE g = f
    <3>1. AbandonFlight(f)
      BY Zenon, <1>1, <2>1 DEF FlightStep, CoordinatorCurrent, PlanOffer, CommitAssignmentPlan,
                        DeliverOffer, ClaimAssignment, PlanWorkerCommand, CommitWorkerCommand,
                        PlanWorkerStateTransitions, CommitWorkerStateTransitions
    <3> QED BY SMTT(30), <3>1 DEF AbandonFlight
  <2>2. CASE g # f
    <3>1. \E p : flight' = [flight EXCEPT ![g] = p]
      BY ZenonT(60), <1>1 DEF FlightStep, PlanOffer, CommitAssignmentPlan, DeliverOffer, ClaimAssignment,
                  PlanWorkerCommand, CommitWorkerCommand, PlanWorkerStateTransitions,
                  CommitWorkerStateTransitions, AbandonFlight
    <3> QED BY SMTT(30), <2>2, <3>1 DEF TypeOK
  <2> QED BY <2>1, <2>2
<1>2. ASSUME NEW a \in Attempts, CustodyStep(a) PROVE FALSE
  BY SMTT(60), <1>2 DEF CustodyStep, ReleaseNarrowedOffer, RepairCoordinatorState,
              RecoverUnknownAssignment, AcknowledgeWorkerCommand
<1>3. ASSUME NEW a \in Attempts, ThrottleStep(a) PROVE FALSE
  BY SMTT(60), <1>3 DEF ThrottleStep, ThrottleIntent, AdminPause, ThrottleDeadline, ThrottleResume,
              ThrottleAcknowledge
<1>4. ASSUME NEW a \in Attempts, WaitStep(a) PROVE FALSE
  BY SMTT(60), <1>4 DEF WaitStep, RegisterTaskWait, SettleTaskWait, WakeWithoutResuming, WakeAbandoned,
              WakeResuming
<1>5. ASSUME NEW a \in Attempts, AdminStep(a) PROVE FALSE
  BY <1>5 DEF AdminStep, AdminStart, AdminResume, AdminCancel, AdminSkip, AdminRewake,
              ImportResult
<1>6. CASE \/ AcquireCoordinator
           \/ \E w \in Workers : WorkerStep(w)
           \/ \E S \in SUBSET Attempts : ExpireAssignmentLeases(S)
  BY <1>6 DEF AcquireCoordinator, WorkerStep, ObserveSnapshot, SnapshotExpires,
              ExpireAssignmentLeases
<1> QED BY <1>1, <1>2, <1>3, <1>4, <1>5, <1>6 DEF Next

\* Whatever a deposed coordinator read, its transactions change no attempt, no
\* assignment and no command.
THEOREM DeposedWritesNothing == Spec => DeposedCoordinatorWritesNothing
<1> DEFINE A == \A f \in Flights :
                  /\ flight[f] # Idle /\ flight[f].cepoch # coord
                  /\ flight'[f] # flight[f]
                  => UNCHANGED <<att, asgn, cmd>>
<1>1. TypeOK /\ [Next]_vars => [A]_vars
  BY DeposedFlight
<1> QED BY <1>1, TypeCorrect, PTL DEF Spec, DeposedCoordinatorWritesNothing

-----------------------------------------------------------------------------
(* Ended attempts. *)

\* A step that un-ends an attempt is the release of an offer it still had.
LEMMA EndedStep ==
    ASSUME CustodyInvariant, TypeOK', Next, NEW a \in Attempts,
           Terminal(att[a]), ~Terminal(att'[a])
    PROVE  asgn[a].state = "offered"
<1>1. TypeOK
  BY DEF CustodyInvariant
<1>2. att'[a] # att[a]
  OBVIOUS
<1>3. ASSUME NEW b \in Attempts, NEW t, SaveAttempt(b, t)
      PROVE  b = a /\ t.progress \notin TerminalProgress
  BY <1>1, <1>2, <1>3, AttemptSaved DEF Terminal
<1>4. att[a] \in Attempt
  BY SMTT(30), <1>1 DEF TypeOK
<1>5. ASSUME NEW f \in Flights, FlightStep(f) PROVE FALSE
  <2>1. CASE CommitAssignmentPlan(f) \/ ClaimAssignment(f)
    <3>1. flight[f].a \in Attempts
      BY SMTT(60), <1>1, <2>1, FlightKinds
         DEF TypeOK, CommitAssignmentPlan, ClaimAssignment, OfferFlight, ClaimFlight
    <3>2. flight[f].a = a
      BY SMTT(60), <1>3, <2>1, <3>1 DEF CommitAssignmentPlan, ClaimAssignment
    <3> QED BY SMTT(60), <2>1, <3>2 DEF CommitAssignmentPlan, ClaimAssignment
  <2>2. CASE CommitWorkerStateTransitions(f)
    <3>1. /\ TransitionAdmitted(a, flight[f].items[a], flight[f])
          /\ att'[a] = flight[f].items[a].attempt
      BY SMTT(60), <1>2, <2>2, ReconciledWrite
    <3> QED BY SMTT(60), <3>1 DEF TransitionAdmitted, Finished, Terminal
  <2> QED BY ZenonT(60), <1>2, <1>5, <2>1, <2>2
          DEF FlightStep, PlanOffer, DeliverOffer, PlanWorkerCommand, CommitWorkerCommand,
              PlanWorkerStateTransitions, AbandonFlight
<1>6. ASSUME NEW b \in Attempts, CustodyStep(b) PROVE asgn[a].state = "offered"
  <2>1. CASE ReleaseNarrowedOffer(b)
    BY <1>3, <2>1 DEF ReleaseNarrowedOffer
  <2>2. ASSUME NEW o \in {"stopped", "failed"}, RecoverUnknownAssignment(b, o) PROVE FALSE
    <3>1. b = a /\ RecoveredAttempt(att[a], o).progress \notin TerminalProgress
      BY <1>3, <2>2 DEF RecoverUnknownAssignment
    <3>2. RecoveredAttempt(att[a], o).progress \in TerminalProgress
      BY <1>4 DEF RecoveredAttempt, Finish, Finished, Terminal, Attempt, TerminalProgress
    <3> QED BY <3>1, <3>2
  <2> QED BY <1>2, <1>6, <2>1, <2>2 DEF CustodyStep, RepairCoordinatorState,
                                        AcknowledgeWorkerCommand
<1>7. \A b \in Attempts : \A c : ~SaveAttempt(b, [att[b] EXCEPT !.control = c])
  BY <1>3, <1>4 DEF Terminal, Attempt
<1>8. \A b \in Attempts : \A p \in TerminalProgress : ~SaveAttempt(b, Finish(att[b], p))
  <2>1. \A p \in TerminalProgress : Finish(att[a], p).progress = p
    BY SMTT(60), <1>4 DEF Finish, Attempt
  <2> QED BY <1>3, <2>1
<1>9. ASSUME NEW b \in Attempts, ThrottleStep(b) PROVE FALSE
  BY SMTT(60), <1>2, <1>7, <1>9 DEF ThrottleStep, ThrottleIntent, AdminPause, ThrottleDeadline,
                          ThrottleResume, ThrottleAcknowledge, SyncControl
<1>10. ASSUME NEW b \in Attempts, WaitStep(b) PROVE FALSE
  <2>1. CASE RegisterTaskWait(b)
    BY <1>3, <2>1 DEF RegisterTaskWait, TurnLive, Terminal, TerminalProgress
  <2>2. CASE WakeAbandoned(b) \/ WakeResuming(b)
    BY <1>3, <2>2 DEF WakeAbandoned, WakeResuming, Terminal, TerminalProgress
  <2> QED BY <1>2, <1>10, <2>1, <2>2 DEF WaitStep, SettleTaskWait, WakeWithoutResuming
<1>11. ASSUME NEW b \in Attempts, AdminStep(b) PROVE FALSE
  <2>1. CASE AdminStart(b) \/ AdminRewake(b)
    BY <1>3, <2>1 DEF AdminStart, AdminRewake
  <2>2. CASE AdminResume(b)
    BY <1>7, <2>2 DEF AdminResume
  <2>3. CASE AdminCancel(b) \/ AdminSkip(b)
    BY <1>8, <2>3 DEF AdminCancel, AdminSkip, TerminalProgress
  <2>4. ASSUME NEW p \in {"succeeded", "failed"}, ImportResult(b, p) PROVE FALSE
    <3>1. SaveAttempt(b, Finish(att[b], p)) /\ p \in TerminalProgress
      BY <2>4 DEF ImportResult, TerminalProgress
    <3> QED BY SMTT(60), <1>8, <3>1
  <2> QED BY <1>11, <2>1, <2>2, <2>3, <2>4 DEF AdminStep
<1>12. CASE \/ AcquireCoordinator
            \/ \E w \in Workers : WorkerStep(w)
            \/ \E S \in SUBSET Attempts : ExpireAssignmentLeases(S)
  BY <1>2, <1>12 DEF AcquireCoordinator, WorkerStep, ObserveSnapshot, SnapshotExpires,
                     ExpireAssignmentLeases
<1> QED BY SMTT(60), <1>5, <1>6, <1>9, <1>10, <1>11, <1>12 DEF Next

\* An attempt that ended stays ended, except through the release of an offer that
\* outlived its end.
THEOREM EndedStays == Spec => EndedUnlessOffered
<1> DEFINE A == \A a \in Attempts :
                  Terminal(att[a]) /\ ~Terminal(att'[a]) => asgn[a].state = "offered"
<1>1. CustodyInvariant /\ TypeOK' /\ [Next]_vars => [A]_vars
  BY EndedStep
<1> QED BY <1>1, InvariantHolds, TypeCorrect, PTL DEF Spec, EndedUnlessOffered

-----------------------------------------------------------------------------
(* Stop proofs. *)

\* A step that gives up an execution the coordinator is stopping has its worker's
\* proof, or is an operator's recovery.
LEMMA StoppingStep ==
    ASSUME CustodyInvariant, Next, NEW a \in Attempts,
           asgn[a].state \in {"claimed", "unknown"}, asgn'[a].state = "released",
           WorkerOwnsStopIntent(att[a]) \/ att[a].progress = "cancelled"
    PROVE  \/ StopProven(a, asgn[a].worker)
           \/ \E o \in {"stopped", "failed"} : RecoverUnknownAssignment(a, o)
<1>1. TypeOK
  BY DEF CustodyInvariant
<1>2. asgn'[a] # asgn[a]
  OBVIOUS
<1>3. ASSUME NEW b \in Attempts, NEW r, SaveAssignment(b, r) PROVE b = a /\ r = asgn'[a]
  BY SMTT(60), <1>1, <1>2, <1>3, SavedAssignment
<1>4. ASSUME NEW f \in Flights, FlightStep(f) PROVE StopProven(a, asgn[a].worker)
  <2>1. CASE CommitAssignmentPlan(f) \/ ClaimAssignment(f)
    <3>1. flight[f].a \in Attempts
      BY SMTT(60), <1>1, <2>1, FlightKinds
         DEF TypeOK, CommitAssignmentPlan, ClaimAssignment, OfferFlight, ClaimFlight
    <3>2. flight[f].a = a
      BY <1>3, <2>1, <3>1 DEF CommitAssignmentPlan, ClaimAssignment
    <3> QED BY SMTT(60), <2>1, <3>2 DEF CommitAssignmentPlan, ClaimAssignment
  <2>2. CASE CommitWorkerStateTransitions(f)
    <3> DEFINE i == flight[f].items[a]
    <3>1. TransitionAdmitted(a, i, flight[f]) /\ i.assignment.state = "released"
      BY SMTT(60), <1>2, <2>2, ReconciledWrite
    <3>2. NeedsStopProof(att[a], i)
      BY SMTT(30), <3>1 DEF NeedsStopProof, WorkerOwnsStopIntent
    <3>3. StopProven(a, flight[f].w) /\ asgn[a].worker = flight[f].w
      BY ZenonT(60), <3>1, <3>2 DEF TransitionAdmitted, ValidTransition, RowsAsRead
    <3> QED BY SMTT(60), <3>3
  <2> QED BY ZenonT(60), <1>2, <1>4, <2>1, <2>2
          DEF FlightStep, PlanOffer, DeliverOffer, PlanWorkerCommand, CommitWorkerCommand,
              PlanWorkerStateTransitions, AbandonFlight
<1>5. ASSUME NEW b \in Attempts, CustodyStep(b)
      PROVE \E o \in {"stopped", "failed"} : RecoverUnknownAssignment(a, o)
  <2>1. ~ReleaseNarrowedOffer(b)
    BY <1>3 DEF ReleaseNarrowedOffer
  <2>2. ~RepairCoordinatorState(b)
    BY <1>3 DEF RepairCoordinatorState, CustodyInvariant, CustodyAgreement, Agreement
  <2>3. ASSUME NEW o \in {"stopped", "failed"}, RecoverUnknownAssignment(b, o) PROVE b = a
    BY <1>3, <2>3 DEF RecoverUnknownAssignment
  <2> QED BY <1>2, <1>5, <2>1, <2>2, <2>3 DEF CustodyStep, AcknowledgeWorkerCommand
<1>6. ASSUME NEW S \in SUBSET Attempts, ExpireAssignmentLeases(S) PROVE FALSE
  BY SMTT(60), <1>1, <1>6 DEF ExpireAssignmentLeases, TypeOK, Assignment
<1>7. ASSUME NEW b \in Attempts, ThrottleStep(b) PROVE FALSE
  BY SMTT(60), <1>2, <1>7 DEF ThrottleStep, ThrottleIntent, AdminPause, ThrottleDeadline, ThrottleResume,
                    ThrottleAcknowledge
<1>8. ASSUME NEW b \in Attempts, WaitStep(b) PROVE FALSE
  BY SMTT(60), <1>2, <1>8 DEF WaitStep, RegisterTaskWait, SettleTaskWait, WakeWithoutResuming,
                    WakeAbandoned, WakeResuming
<1>9. ASSUME NEW b \in Attempts, AdminStep(b) PROVE FALSE
  BY <1>2, <1>9 DEF AdminStep, AdminStart, AdminResume, AdminCancel, AdminSkip, AdminRewake,
                    ImportResult
<1>10. CASE AcquireCoordinator \/ \E w \in Workers : WorkerStep(w)
  BY <1>2, <1>10 DEF AcquireCoordinator, WorkerStep, ObserveSnapshot, SnapshotExpires
<1> QED BY SMTT(60), <1>4, <1>5, <1>6, <1>7, <1>8, <1>9, <1>10 DEF Next

\* An execution the coordinator is stopping or has cancelled is given up only on
\* its worker's report that it stopped, or by an operator's recovery.
THEOREM StopIsProven == Spec => StoppingNeedsProof
<1> DEFINE A == \A a \in Attempts :
                  /\ asgn[a].state \in {"claimed", "unknown"} /\ asgn'[a].state = "released"
                  /\ WorkerOwnsStopIntent(att[a]) \/ att[a].progress = "cancelled"
                  => \/ StopProven(a, asgn[a].worker)
                     \/ \E o \in {"stopped", "failed"} : RecoverUnknownAssignment(a, o)
<1>1. CustodyInvariant /\ [Next]_vars => [A]_vars
  BY StoppingStep
<1> QED BY <1>1, InvariantHolds, PTL DEF Spec, StoppingNeedsProof

-----------------------------------------------------------------------------
(* Parks.  A transition in flight was planned at the attempt's revision or an  *)
(* older one, and at the same revision it does not park or un-park.            *)

Parked(t) == t.progress = "waiting-external"

PlannedPark(f, a) ==
    LET i == flight[f].items[a] IN
    flight[f].op = "reconcile" /\ i # NoTransition =>
        /\ i.expectedRev <= att[a].rev
        /\ i.expectedRev = att[a].rev => (Parked(i.attempt) <=> Parked(att[a]))

\* An offer in flight was planned at the attempt's revision, when it was ready, or
\* at an older one.
PlannedReady(f) ==
    flight[f].op = "offer" =>
        /\ flight[f].rev <= att[flight[f].a].rev
        /\ flight[f].rev = att[flight[f].a].rev => att[flight[f].a].progress = "ready"

\* An attempt under offer has not started.
OfferedReady ==
    \A a \in Attempts :
        asgn[a].state = "offered" => att[a].progress = "ready" \/ Terminal(att[a])

ParkInvariant ==
    /\ CustodyInvariant
    /\ ParkHasWaker
    /\ OfferedReady
    /\ \A f \in Flights : PlannedReady(f) /\ \A a \in Attempts : PlannedPark(f, a)

\* Worker evidence neither parks nor un-parks the attempt it is applied to.
LEMMA ReconciledPark ==
    ASSUME CustodyInvariant, NEW a \in Attempts, NEW o \in ObservedState,
           NEW e \in 1..MaxWorkerEpoch
    PROVE  Parked(ReconciledRows(a, o, e).attempt) <=> Parked(att[a])
<1> DEFINE r == asgn[a]
           t == att[a]
<1>1. t \in Attempt /\ r \in Assignment /\ ParkShape(t)
  BY DEF CustodyInvariant, TypeOK, WellParked
<1>2. Parked(t) => UnfinishedPark(t) /\ WaitingExternal(t) /\ ~Finished(t)
  BY <1>1 DEF Parked, ParkShape, UnfinishedPark, WaitingExternal, Finished, Terminal,
              TerminalProgress
<1>3. \A c \in Control, h \in BOOLEAN :
        /\ Parked([t EXCEPT !.control = c]) <=> Parked(t)
        /\ Parked([t EXCEPT !.attached = h]) <=> Parked(t)
        /\ Parked([t EXCEPT !.control = c, !.attached = h]) <=> Parked(t)
        /\ Parked([[t EXCEPT !.attached = h] EXCEPT !.control = c]) <=> Parked(t)
        /\ \A p \in Progress \ {"waiting-external"} :
             /\ ~Parked([t EXCEPT !.progress = p, !.control = c])
             /\ ~Parked([[t EXCEPT !.attached = h] EXCEPT !.progress = p, !.control = c])
             /\ ~Parked([t EXCEPT !.progress = p, !.control = c, !.attached = h])
  BY <1>1 DEF Attempt, Parked
<1>4. /\ "stopped" \in Control /\ "running" \in Control /\ "unassigned" \in Control
      /\ "waiting-external" \in Control /\ ObservedClaim \subseteq Control
      /\ {"ready", "active", "verifying"} \subseteq Progress \ {"waiting-external"}
  BY SMTT(30) DEF Control, ObservedClaim, Progress
<1> HIDE DEF t, r
<1>5. Parked(ReleasedRows(r, t).attempt) <=> Parked(t)
  BY ZenonT(60), <1>2, <1>3, <1>4 DEF ReleasedRows, Rows, Requeue
<1>6. \A x \in 0..MaxWorkerEpoch :
        /\ Parked(CompletedRows(r, t, x).attempt) <=> Parked(t)
        /\ Parked(ObservedCompletedRows(r, t, x).attempt) <=> Parked(t)
  BY SMTT(60), <1>1, <1>2 DEF CompletedRows, ObservedCompletedRows, Rows, Parked, Attempt
<1>7. \A x \in ObservedClaim : Parked(ObservedClaimRows(r, t, e, x).attempt) <=> Parked(t)
  <2> SUFFICES ASSUME NEW x \in ObservedClaim
               PROVE Parked(ObservedClaimRows(r, t, e, x).attempt) <=> Parked(t)
    OBVIOUS
  <2> QED BY <1>1, <1>2 DEF ObservedClaimRows, Rows, Parked, Attempt, ObservedClaim
<1>8. Parked(ObservedUnknownRows(r, t, e).attempt) <=> Parked(t)
  BY ZenonT(30), <1>3, <1>4 DEF ObservedUnknownRows, Rows
<1>9. Parked(UnobservedRows(a, e).attempt) <=> Parked(t)
  <2>1. r.wepoch \in 0..MaxWorkerEpoch
    BY <1>1 DEF Assignment
  <2> QED BY ZenonT(60), <1>2, <1>3, <1>4, <1>5, <1>6, <2>1 DEF UnobservedRows, Rows, r, t
<1>10. e \in 0..MaxWorkerEpoch
  BY SMTT(60), BoundsAssumption
<1> QED BY SMTT(60), <1>5, <1>6, <1>7, <1>8, <1>9, <1>10 DEF ReconciledRows, Rows, r, t

\* What a step that moves the progress of an attempt is.
LEMMA ProgressMoves ==
    ASSUME ParkInvariant, TypeOK', Next, NEW a \in Attempts,
           att'[a].progress # att[a].progress
    PROVE  \/ Terminal(att'[a])
           \/ RegisterTaskWait(a)
           \/ /\ att'[a].progress = "ready"
              /\ asgn[a].state \in {"offered", "unknown"} \/ att[a].control = "unassigned"
           \/ /\ att'[a].progress = "active" /\ att[a].control = "unassigned"
              /\ asgn'[a].state # "offered"
           \/ /\ att'[a].progress = "active" /\ Parked(att[a])
              /\ wait[a].settled \/ ~wait[a].live
           \/ /\ Parked(att'[a]) <=> Parked(att[a])
              /\ asgn[a].state \in {"claimed", "unknown"}
<1>1. TypeOK /\ CustodyInvariant /\ att[a] \in Attempt /\ att'[a] \in Attempt
  BY DEF ParkInvariant, CustodyInvariant, TypeOK
<1>2. att'[a] # att[a] /\ att' # att
  OBVIOUS
<1>3. ASSUME NEW b \in Attempts, NEW t, SaveAttempt(b, t)
      PROVE  b = a /\ t.progress = att'[a].progress
  BY <1>1, <1>2, <1>3, AttemptSaved
<1>4. ASSUME NEW b \in Attempts, NEW c, SaveAttempt(b, [att[b] EXCEPT !.control = c])
      PROVE  FALSE
  BY <1>1, <1>3, <1>4 DEF Attempt
<1>5. ASSUME NEW b \in Attempts, NEW q, SaveAttempt(b, Finish(att[b], q))
      PROVE  b = a /\ att'[a].progress = q
  <2>1. b = a /\ Finish(att[a], q).progress = att'[a].progress
    BY SMTT(60), <1>3, <1>5
  <2> QED BY <1>1, <2>1 DEF Finish, Attempt
<1>6. Requeue(att[a]).progress = "ready" /\ Resumed(att[a]).progress = "active"
  BY SMTT(30), <1>1 DEF Requeue, Resumed, Attempt
<1>7. ASSUME NEW f \in Flights, FlightStep(f)
      PROVE  \/ /\ att'[a].progress = "active" /\ att[a].control = "unassigned"
                /\ asgn'[a].state # "offered"
             \/ /\ Parked(att'[a]) <=> Parked(att[a])
                /\ asgn[a].state \in {"claimed", "unknown"}
  <2>1. CASE CommitAssignmentPlan(f)
    <3>1. flight[f].a \in Attempts
      BY SMTT(60), <1>1, <2>1, FlightKinds DEF TypeOK, CommitAssignmentPlan, OfferFlight
    <3>2. flight[f].a = a /\ [att[a] EXCEPT !.attached = TRUE].progress = att'[a].progress
      BY ZenonT(60), <1>3, <2>1, <3>1 DEF CommitAssignmentPlan
    <3> QED BY SMTT(60), <1>1, <3>2 DEF Attempt
  <2>2. CASE ClaimAssignment(f)
    <3>1. flight[f].a \in Attempts
      BY <1>1, <2>2, FlightKinds DEF TypeOK, ClaimAssignment, ClaimFlight
    <3>2. flight[f].a = a
          /\ [att[a] EXCEPT !.progress = "active", !.control = "preparing"].progress
               = att'[a].progress
      BY ZenonT(60), <1>3, <2>2, <3>1 DEF ClaimAssignment
    <3>3. att[a].control = "unassigned" /\ asgn'[a] = [asgn[a] EXCEPT !.state = "claimed"]
      BY SMTT(60), <1>1, <2>2, <3>2, SavedAssignment DEF ClaimAssignment
    <3>4. asgn[a] \in Assignment
      BY <1>1 DEF TypeOK
    <3> QED BY SMTT(60), <1>1, <3>2, <3>3, <3>4 DEF Attempt, Assignment
  <2>3. CASE CommitWorkerStateTransitions(f)
    <3>1. /\ TransitionAdmitted(a, flight[f].items[a], flight[f])
          /\ att'[a] = flight[f].items[a].attempt
      BY SMTT(60), <1>1, <1>2, <2>3, ReconciledWrite
    <3>2. flight[f].op = "reconcile" /\ flight[f].items[a] # NoTransition
      BY SMTT(60), <1>2, <2>3 DEF CommitWorkerStateTransitions
    <3>3. PlannedPark(f, a)
      BY SMTT(60) DEF ParkInvariant
    <3> QED BY ZenonT(60), <3>1, <3>2, <3>3 DEF PlannedPark, TransitionAdmitted, ValidTransition, RowsAsRead
  <2> QED BY ZenonT(60), <1>2, <1>7, <2>1, <2>2, <2>3
          DEF FlightStep, PlanOffer, DeliverOffer, PlanWorkerCommand, CommitWorkerCommand,
              PlanWorkerStateTransitions, AbandonFlight
<1>8. ASSUME NEW b \in Attempts, CustodyStep(b)
      PROVE  \/ Terminal(att'[a])
             \/ att'[a].progress = "ready" /\ asgn[a].state \in {"offered", "unknown"}
  <2>1. CASE ReleaseNarrowedOffer(b)
    BY SMTT(60), <1>3, <1>6, <2>1 DEF ReleaseNarrowedOffer
  <2>2. ASSUME NEW o \in {"stopped", "failed"}, RecoverUnknownAssignment(b, o)
        PROVE  asgn[a].state = "unknown" /\ (Terminal(att'[a]) \/ att'[a].progress = "ready")
    <3>1. b = a /\ RecoveredAttempt(att[a], o).progress = att'[a].progress
      BY <1>3, <2>2 DEF RecoverUnknownAssignment
    <3>2. RecoveredAttempt(att[a], o).progress \in {"failed", "ready", att[a].progress}
      BY <1>1, <1>6 DEF RecoveredAttempt, Finish, Attempt
    <3> QED BY SMTT(60), <2>2, <3>1, <3>2 DEF RecoverUnknownAssignment, Terminal, TerminalProgress
  <2> QED BY SMTT(60), <1>2, <1>8, <2>1, <2>2 DEF CustodyStep, RepairCoordinatorState,
                                        AcknowledgeWorkerCommand
<1>9. ASSUME NEW b \in Attempts, ThrottleStep(b) PROVE FALSE
  BY ZenonT(60), <1>2, <1>4, <1>9 DEF ThrottleStep, ThrottleIntent, AdminPause, ThrottleDeadline,
                          ThrottleResume, ThrottleAcknowledge, SyncControl
<1>10. ASSUME NEW b \in Attempts, WaitStep(b)
       PROVE  \/ Terminal(att'[a]) \/ RegisterTaskWait(a)
              \/ att'[a].progress = "active" /\ Parked(att[a]) /\ wait[a].settled
  <2>1. CASE RegisterTaskWait(b)
    BY ZenonT(60), <1>3, <2>1 DEF RegisterTaskWait
  <2>2. CASE WakeAbandoned(b)
    BY <1>5, <2>2 DEF WakeAbandoned, Terminal, TerminalProgress
  <2>3. CASE WakeResuming(b)
    BY SMTT(60), <1>3, <1>6, <2>3 DEF WakeResuming, Parked
  <2> QED BY SMTT(60), <1>2, <1>10, <2>1, <2>2, <2>3 DEF WaitStep, SettleTaskWait, WakeWithoutResuming
<1>11. ASSUME NEW b \in Attempts, AdminStep(b)
       PROVE  \/ Terminal(att'[a])
              \/ att'[a].progress = "ready" /\ att[a].control = "unassigned"
              \/ att'[a].progress = "active" /\ Parked(att[a]) /\ ~wait[a].live
  <2>1. CASE AdminStart(b)
    <3>1. b = a /\ [att[a] EXCEPT !.progress = "ready"].progress = att'[a].progress
      BY ZenonT(60), <1>3, <2>1 DEF AdminStart
    <3> QED BY SMTT(60), <1>1, <2>1, <3>1 DEF AdminStart, Attempt
  <2>2. CASE AdminResume(b)
    <3>1. SaveAttempt(b, [att[b] EXCEPT !.control = "resuming"])
      BY Zenon, <2>2 DEF AdminResume
    <3> QED BY SMTT(60), <1>4, <3>1
  <2>3. CASE AdminCancel(b) \/ AdminSkip(b)
    BY <1>5, <2>3 DEF AdminCancel, AdminSkip, Terminal, TerminalProgress
  <2>4. CASE AdminRewake(b)
    BY SMTT(60), <1>1, <1>3, <1>6, <2>4 DEF AdminRewake, Parked, WaitingExternal, CustodyInvariant,
                                  WellParked, ParkShape
  <2>5. ASSUME NEW q \in {"succeeded", "failed"}, ImportResult(b, q) PROVE Terminal(att'[a])
    <3>1. SaveAttempt(b, Finish(att[b], q))
      BY Zenon, <2>5 DEF ImportResult
    <3> QED BY SMTT(60), <1>5, <3>1 DEF Terminal, TerminalProgress
  <2> QED BY SMTT(60), <1>11, <2>1, <2>2, <2>3, <2>4, <2>5 DEF AdminStep
<1>12. CASE \/ AcquireCoordinator
            \/ \E w \in Workers : WorkerStep(w)
            \/ \E S \in SUBSET Attempts : ExpireAssignmentLeases(S)
  BY SMTT(60), <1>2, <1>12 DEF AcquireCoordinator, WorkerStep, ObserveSnapshot, SnapshotExpires,
                     ExpireAssignmentLeases
<1> QED BY SMTT(60), <1>7, <1>8, <1>9, <1>10, <1>11, <1>12 DEF Next

\* An offer or a reconciliation that is in flight after a step was in flight before
\* it, or the step planned it.
LEMMA FlightOrigin ==
    ASSUME TypeOK, Next, NEW f \in Flights, flight'[f] # flight[f]
    PROVE  \/ flight'[f].op \notin {"offer", "reconcile"}
           \/ \E a \in Attempts, w \in Workers : PlanOffer(f, a, w)
           \/ \E w \in Workers : PlanWorkerStateTransitions(f, w)
<1>1. ASSUME NEW g \in Flights, FlightStep(g)
      PROVE  \/ flight'[f].op \notin {"offer", "reconcile"}
             \/ \E a \in Attempts, w \in Workers : PlanOffer(f, a, w)
             \/ \E w \in Workers : PlanWorkerStateTransitions(f, w)
  <2>1. g = f
    <3>1. \E p : flight' = [flight EXCEPT ![g] = p]
      BY ZenonT(60), <1>1 DEF FlightStep, PlanOffer, CommitAssignmentPlan, DeliverOffer, ClaimAssignment,
                  PlanWorkerCommand, CommitWorkerCommand, PlanWorkerStateTransitions,
                  CommitWorkerStateTransitions, AbandonFlight
    <3> QED BY SMTT(30), <3>1 DEF TypeOK
  <2>2. CASE \/ CommitAssignmentPlan(f) \/ ClaimAssignment(f) \/ CommitWorkerCommand(f)
             \/ CommitWorkerStateTransitions(f) \/ AbandonFlight(f)
    <3>1. flight'[f] = Idle
      BY Zenon, <2>2 DEF TypeOK, CommitAssignmentPlan, ClaimAssignment, CommitWorkerCommand,
                  CommitWorkerStateTransitions, AbandonFlight
    <3> QED BY <3>1 DEF Idle
  <2>3. ASSUME NEW a \in Attempts, DeliverOffer(f, a) PROVE flight'[f].op = "claim"
    BY SMTT(60), <2>3 DEF TypeOK, DeliverOffer
  <2>4. ASSUME NEW a \in Attempts, NEW w \in Workers, PlanWorkerCommand(f, w, a)
        PROVE  flight'[f].op = "command"
    <3>1. PICK k : flight' = [flight EXCEPT ![f] =
                     [op |-> "command", a |-> a, w |-> w, kind |-> k,
                      epoch |-> asgn[a].epoch, cepoch |-> coord,
                      wepoch |-> snap[w].wepoch, seq |-> snap[w].seq]]
      BY ZenonT(60), <2>4, Zenon DEF PlanWorkerCommand
    <3> QED BY <3>1 DEF TypeOK
  <2> QED BY SMTT(60), <1>1, <2>1, <2>2, <2>3, <2>4 DEF FlightStep
<1>2. ASSUME NEW a \in Attempts, CustodyStep(a) PROVE FALSE
  BY SMTT(60), <1>2 DEF CustodyStep, ReleaseNarrowedOffer, RepairCoordinatorState,
              RecoverUnknownAssignment, AcknowledgeWorkerCommand
<1>3. ASSUME NEW a \in Attempts, ThrottleStep(a) PROVE FALSE
  BY SMTT(60), <1>3 DEF ThrottleStep, ThrottleIntent, AdminPause, ThrottleDeadline, ThrottleResume,
              ThrottleAcknowledge
<1>4. ASSUME NEW a \in Attempts, WaitStep(a) PROVE FALSE
  BY SMTT(60), <1>4 DEF WaitStep, RegisterTaskWait, SettleTaskWait, WakeWithoutResuming, WakeAbandoned,
              WakeResuming
<1>5. ASSUME NEW a \in Attempts, AdminStep(a) PROVE FALSE
  BY <1>5 DEF AdminStep, AdminStart, AdminResume, AdminCancel, AdminSkip, AdminRewake,
              ImportResult
<1>6. ~ \/ AcquireCoordinator
        \/ \E w \in Workers : WorkerStep(w)
        \/ \E S \in SUBSET Attempts : ExpireAssignmentLeases(S)
  BY DEF AcquireCoordinator, WorkerStep, ObserveSnapshot, SnapshotExpires,
         ExpireAssignmentLeases
<1> QED BY SMTT(60), <1>1, <1>2, <1>3, <1>4, <1>5, <1>6 DEF Next

\* A new offer is made of an attempt that is ready.
LEMMA OfferOrigin ==
    ASSUME ParkInvariant, Next, NEW a \in Attempts,
           asgn[a].state # "offered", asgn'[a].state = "offered"
    PROVE  att[a].progress = "ready"
<1>1. TypeOK /\ asgn'[a] # asgn[a]
  BY DEF ParkInvariant, CustodyInvariant
<1>2. ASSUME NEW b \in Attempts, NEW r, SaveAssignment(b, r) PROVE b = a /\ r.state = "offered"
  BY SMTT(30), <1>1, <1>2, SavedAssignment
<1>3. ASSUME NEW f \in Flights, FlightStep(f) PROVE att[a].progress = "ready"
  <2>1. CASE CommitAssignmentPlan(f)
    <3>1. flight[f].a \in Attempts /\ PlannedReady(f)
      BY SMTT(60), <1>1, <2>1, FlightKinds DEF ParkInvariant, TypeOK, CommitAssignmentPlan, OfferFlight
    <3> QED BY SMTT(60), <1>2, <2>1, <3>1 DEF CommitAssignmentPlan, PlannedReady
  <2>2. CASE ClaimAssignment(f)
    <3>1. flight[f].a \in Attempts
      BY SMTT(60), <1>1, <2>2, FlightKinds DEF TypeOK, ClaimAssignment, ClaimFlight
    <3>2. flight[f].a = a
      BY SMTT(60), <1>2, <2>2, <3>1 DEF ClaimAssignment
    <3> QED BY SMTT(60), <2>2, <3>2 DEF ClaimAssignment
  <2>3. CASE CommitWorkerStateTransitions(f)
    BY ZenonT(60), <1>1, <2>3, ReconciledWrite DEF ParkInvariant, TransitionAdmitted, ValidTransition
  <2> QED BY ZenonT(60), <1>1, <1>3, <2>1, <2>2, <2>3
          DEF FlightStep, PlanOffer, DeliverOffer, PlanWorkerCommand, CommitWorkerCommand,
              PlanWorkerStateTransitions, AbandonFlight
<1>4. ASSUME NEW b \in Attempts, CustodyStep(b) PROVE FALSE
  <2>1. asgn[a] \in Assignment
    BY Zenon, <1>1 DEF TypeOK
  <2>2. [asgn[a] EXCEPT !.state = "released"].state = "released"
    BY <2>1 DEF Assignment
  <2> QED BY Zenon, <1>1, <1>2, <1>4, <2>2
          DEF CustodyStep, ReleaseNarrowedOffer, RepairCoordinatorState,
              RecoverUnknownAssignment, AcknowledgeWorkerCommand
<1>5. ASSUME NEW S \in SUBSET Attempts, ExpireAssignmentLeases(S) PROVE FALSE
  BY SMTT(60), <1>1, <1>5 DEF ExpireAssignmentLeases, TypeOK, Assignment
<1>6. ASSUME NEW b \in Attempts, ThrottleStep(b) PROVE FALSE
  BY SMTT(60), <1>1, <1>6 DEF ThrottleStep, ThrottleIntent, AdminPause, ThrottleDeadline, ThrottleResume,
                    ThrottleAcknowledge
<1>7. ASSUME NEW b \in Attempts, WaitStep(b) PROVE FALSE
  BY SMTT(60), <1>1, <1>7 DEF WaitStep, RegisterTaskWait, SettleTaskWait, WakeWithoutResuming,
                    WakeAbandoned, WakeResuming
<1>8. ASSUME NEW b \in Attempts, AdminStep(b) PROVE FALSE
  BY <1>1, <1>8 DEF AdminStep, AdminStart, AdminResume, AdminCancel, AdminSkip, AdminRewake,
                    ImportResult
<1>9. ~ (AcquireCoordinator \/ \E w \in Workers : WorkerStep(w))
  BY SMTT(60), <1>1 DEF AcquireCoordinator, WorkerStep, ObserveSnapshot, SnapshotExpires
<1> QED BY SMTT(60), <1>3, <1>4, <1>5, <1>6, <1>7, <1>8, <1>9 DEF Next

\* A wait of a that is forgotten leaves an attempt that is not parked.
LEMMA WaitKept ==
    ASSUME TypeOK, TypeOK', Next, NEW a \in Attempts, wait[a].live \/ wait[a].settled,
           ~(wait'[a].live \/ wait'[a].settled)
    PROVE  ~Parked(att'[a])
<1>1. wait' # wait /\ att[a] \in Attempt /\ att'[a] \in Attempt
  BY DEF TypeOK
<1>2. ASSUME NEW b \in Attempts, WaitStep(b) PROVE ~Parked(att'[a])
  <2>1. b = a
    BY SMTT(60), <1>1, <1>2 DEF TypeOK, WaitStep, RegisterTaskWait, SettleTaskWait, WakeWithoutResuming,
                      WakeAbandoned, WakeResuming
  <2>2. CASE RegisterTaskWait(a) \/ \E others \in BOOLEAN : SettleTaskWait(a, others)
    BY <2>2 DEF TypeOK, Wait, RegisterTaskWait, SettleTaskWait
  <2>3. CASE WakeWithoutResuming(a)
    BY <2>3 DEF WakeWithoutResuming, Parked
  <2>4. CASE WakeAbandoned(a)
    <3>1. att'[a].progress = Finish(att[a], "failed").progress
      BY <2>4, AttemptSaved DEF WakeAbandoned
    <3> QED BY <1>1, <3>1 DEF Finish, Attempt, Parked
  <2>5. CASE WakeResuming(a)
    <3>1. att'[a].progress = Resumed(att[a]).progress
      BY <2>5, AttemptSaved DEF WakeResuming
    <3> QED BY <1>1, <3>1 DEF Resumed, Attempt, Parked
  <2> QED BY SMTT(60), <1>2, <2>1, <2>2, <2>3, <2>4, <2>5 DEF WaitStep
<1>3. ~ \/ AcquireCoordinator
        \/ \E w \in Workers : WorkerStep(w)
        \/ \E S \in SUBSET Attempts : ExpireAssignmentLeases(S)
  BY SMTT(30), <1>1 DEF AcquireCoordinator, WorkerStep, ObserveSnapshot, SnapshotExpires,
              ExpireAssignmentLeases
<1>4. ASSUME NEW f \in Flights, FlightStep(f) PROVE FALSE
  BY ZenonT(60), <1>1, <1>4 DEF FlightStep, PlanOffer, CommitAssignmentPlan, DeliverOffer, ClaimAssignment,
                    PlanWorkerCommand, CommitWorkerCommand, PlanWorkerStateTransitions,
                    CommitWorkerStateTransitions, AbandonFlight
<1>5. ASSUME NEW b \in Attempts, CustodyStep(b) PROVE FALSE
  BY SMTT(60), <1>1, <1>5 DEF CustodyStep, ReleaseNarrowedOffer, RepairCoordinatorState,
                    RecoverUnknownAssignment, AcknowledgeWorkerCommand
<1>6. ASSUME NEW b \in Attempts, ThrottleStep(b) PROVE FALSE
  BY SMTT(60), <1>1, <1>6 DEF ThrottleStep, ThrottleIntent, AdminPause, ThrottleDeadline, ThrottleResume,
                    ThrottleAcknowledge
<1>7. ASSUME NEW b \in Attempts, AdminStep(b) PROVE FALSE
  BY SMTT(60), <1>1, <1>7 DEF AdminStep, AdminStart, AdminResume, AdminCancel, AdminSkip, AdminRewake,
                    ImportResult
<1> QED BY SMTT(60), <1>2, <1>3, <1>4, <1>5, <1>6, <1>7 DEF Next

\* The initial rows satisfy the invariant of the parks.
LEMMA InitPark == Init => ParkInvariant
<1> SUFFICES ASSUME Init PROVE ParkInvariant
  OBVIOUS
<1>1. CustodyInvariant
  BY SMTT(60), InitInvariant
<1>2. ParkHasWaker
  BY SMTT(60) DEF Init, ParkHasWaker
<1>3. OfferedReady
  BY SMTT(60) DEF Init, OfferedReady
<1>4. \A f \in Flights : flight[f].op = "idle"
  BY DEF Init, Idle
<1> QED BY <1>1, <1>2, <1>3, <1>4 DEF ParkInvariant, PlannedReady, PlannedPark

\* Every step keeps the invariant of the parks.
LEMMA NextPark == ParkInvariant /\ CustodyInvariant' /\ [Next]_vars => ParkInvariant'
<1> SUFFICES ASSUME ParkInvariant, CustodyInvariant', [Next]_vars PROVE ParkInvariant'
  OBVIOUS
<1>1. CustodyInvariant /\ TypeOK /\ TypeOK'
  BY DEF ParkInvariant, CustodyInvariant
<1>2. CASE UNCHANGED vars
  <2>1. ParkHasWaker' /\ OfferedReady'
    BY SMTT(60), <1>2 DEF ParkInvariant, vars, ParkHasWaker, OfferedReady
  <2>2. \A f \in Flights : PlannedReady(f)' /\ \A a \in Attempts : PlannedPark(f, a)'
    BY <1>2 DEF ParkInvariant, vars, PlannedReady, PlannedPark
  <2> QED BY SMTT(60), <2>1, <2>2 DEF ParkInvariant
<1>3. CASE Next
  <2>1. \A a \in Attempts : att'[a] # att[a] => att'[a].rev = att[a].rev + 1
    BY SMTT(60), <1>1, <1>3, NextRevision
  <2>2. \A a \in Attempts : att[a].rev \in Nat
    BY SMTT(60), <1>1, BoundsAssumption DEF TypeOK, Attempt
  <2>3. ParkHasWaker'
    <3> SUFFICES ASSUME NEW a \in Attempts, Parked(att'[a])
                 PROVE  wait'[a].live \/ wait'[a].settled
      BY DEF ParkHasWaker, Parked
    <3>1. CASE Parked(att[a])
      BY SMTT(60), <1>1, <1>3, <3>1, WaitKept DEF ParkInvariant, ParkHasWaker, Parked
    <3>2. CASE ~Parked(att[a])
      <4>1. RegisterTaskWait(a)
        BY SMTT(60), <1>1, <1>3, <3>2, ProgressMoves DEF Parked, Terminal, TerminalProgress
      <4> QED BY SMTT(60), <1>1, <4>1 DEF RegisterTaskWait, TypeOK, Wait
    <3> QED BY SMTT(60), <3>1, <3>2
  <2>4. OfferedReady'
    <3> SUFFICES ASSUME NEW a \in Attempts, asgn'[a].state = "offered",
                        att'[a].progress # "ready", ~Terminal(att'[a])
                 PROVE  FALSE
      BY SMTT(60) DEF OfferedReady
    <3>1. att[a].progress = "ready" \/ Terminal(att[a])
      BY <1>3, OfferOrigin DEF ParkInvariant, OfferedReady
    <3>2. att'[a].progress # att[a].progress
      BY <3>1 DEF Terminal
    <3>3. ~Parked(att[a])
      BY <3>1 DEF Parked, Terminal, TerminalProgress
    <3>4. ~RegisterTaskWait(a)
      BY <3>1 DEF RegisterTaskWait, TurnLive, Terminal, TerminalProgress
    <3>5. ~ /\ Parked(att'[a]) <=> Parked(att[a])
            /\ asgn[a].state \in {"claimed", "unknown"}
      <4>1. ASSUME asgn[a].state \in {"claimed", "unknown"} PROVE FALSE
        BY SMTT(60), <1>1, <1>3, <4>1, RowsMove DEF Moves, Custody
      <4> QED BY <4>1
    <3> QED BY SMTT(60), <1>1, <1>3, <3>2, <3>3, <3>4, <3>5, ProgressMoves
  <2>5. ASSUME NEW f \in Flights PROVE PlannedReady(f)' /\ \A a \in Attempts : PlannedPark(f, a)'
    <3>1. CASE flight'[f] = flight[f]
      <4>1. PlannedReady(f)'
        <5>1. CASE flight[f].op = "offer"
          <6>1. flight[f].a \in Attempts /\ flight[f].rev \in Nat
            BY SMTT(60), <1>1, <5>1, FlightKinds, BoundsAssumption DEF TypeOK, OfferFlight
          <6>2. PlannedReady(f)
            BY SMTT(60) DEF ParkInvariant
          <6> QED BY SMTT(60), <2>1, <2>2, <3>1, <5>1, <6>1, <6>2 DEF PlannedReady
        <5> QED BY SMTT(60), <3>1, <5>1 DEF PlannedReady
      <4>2. ASSUME NEW a \in Attempts, flight[f].op = "reconcile",
                   flight[f].items[a] # NoTransition
            PROVE  PlannedPark(f, a)'
        <5>1. flight[f].items[a].expectedRev \in Nat
          BY SMTT(60), <1>1, <4>2, FlightKinds, BoundsAssumption DEF TypeOK, ReconcileFlight, Transition
        <5>2. PlannedPark(f, a)
          BY SMTT(60) DEF ParkInvariant
        <5> DEFINE i == flight[f].items[a]
        <5>3. /\ i.expectedRev <= att[a].rev
              /\ i.expectedRev = att[a].rev => (Parked(i.attempt) <=> Parked(att[a]))
          BY <4>2, <5>2 DEF PlannedPark
        <5>4. flight'[f].items[a] = i
          BY <3>1
        <5> HIDE DEF i
        <5>5. /\ i.expectedRev <= att'[a].rev
              /\ i.expectedRev = att'[a].rev => (Parked(i.attempt) <=> Parked(att'[a]))
          <6>1. CASE att'[a] = att[a]
            BY SMTT(60), <5>3, <6>1
          <6>2. CASE att'[a] # att[a]
            <7>1. att'[a].rev = att[a].rev + 1 /\ att[a].rev \in Nat /\ i.expectedRev \in Nat
              BY SMTT(60), <2>1, <2>2, <5>1, <6>2 DEF i
            <7> QED BY SMTT(60), <5>3, <7>1
          <6> QED BY SMTT(60), <6>1, <6>2
        <5> QED BY SMTT(60), <5>4, <5>5 DEF PlannedPark
      <4> QED BY SMTT(60), <3>1, <4>1, <4>2 DEF PlannedPark
    <3>2. ASSUME NEW a \in Attempts, NEW w \in Workers, PlanOffer(f, a, w)
          PROVE  PlannedReady(f)' /\ \A b \in Attempts : PlannedPark(f, b)'
      <4>1. /\ flight'[f].op = "offer" /\ flight'[f].a = a /\ flight'[f].rev = att[a].rev
            /\ att' = att /\ att[a].progress = "ready"
        BY SMTT(60), <1>1, <3>2 DEF PlanOffer, TypeOK
      <4> QED BY SMTT(60), <2>2, <4>1 DEF PlannedReady, PlannedPark
    <3>3. ASSUME NEW w \in Workers, PlanWorkerStateTransitions(f, w)
          PROVE  PlannedReady(f)' /\ \A b \in Attempts : PlannedPark(f, b)'
      <4>1. /\ flight'[f].op = "reconcile" /\ att' = att
            /\ \A b \in Attempts : flight'[f].items[b] = PlannedTransition(b, w)
        BY <1>1, <3>3 DEF PlanWorkerStateTransitions, TypeOK
      <4>2. ASSUME NEW b \in Attempts, PlannedTransition(b, w) # NoTransition
            PROVE  /\ PlannedTransition(b, w).expectedRev = att[b].rev
                   /\ Parked(PlannedTransition(b, w).attempt) <=> Parked(att[b])
        <5> DEFINE o == ObservationOf(b, snap[w])
                   m == ReconciledRows(b, o, snap[w].wepoch)
        <5>1. o \in ObservedState /\ snap[w].wepoch \in 1..MaxWorkerEpoch
          BY SMTT(60), <1>1 DEF ObservationOf, TypeOK, Snapshot, Observation, ObservedState
        <5>2. m.attempt \in Attempt /\ (Parked(m.attempt) <=> Parked(att[b]))
          BY SMTT(60), <1>1, <5>1, ReconciledPark, ReconciledRowsType
        <5>3. PlannedTransition(b, w) =
                [expected |-> asgn[b], expectedRev |-> att[b].rev, assignment |-> m.assignment,
                 attempt |-> [m.attempt EXCEPT !.rev = att[b].rev + 1], stopped |-> o = "released"]
          BY SMTT(60), <4>2 DEF PlannedTransition
        <5> HIDE DEF o, m
        <5> QED BY SMTT(60), <5>2, <5>3 DEF Parked, Attempt
      <4> QED BY SMTT(60), <2>2, <4>1, <4>2 DEF PlannedReady, PlannedPark
    <3>4. CASE flight'[f].op \notin {"offer", "reconcile"}
      BY <3>4 DEF PlannedReady, PlannedPark
    <3> QED BY SMTT(60), <1>1, <1>3, <3>1, <3>2, <3>3, <3>4, FlightOrigin
  <2> QED BY SMTT(60), <2>3, <2>4, <2>5 DEF ParkInvariant
<1> QED BY <1>2, <1>3

\* The invariant of the parks holds in every reachable state.
THEOREM ParkInvariantHolds == Spec => []ParkInvariant
BY InitPark, NextPark, InvariantHolds, PTL DEF Spec

\* No park is forgotten: a parked attempt always has a live wait, or a settled one
\* that is still to wake it.
THEOREM ParksHaveWakers == Spec => []ParkHasWaker
<1>1. ParkInvariant => ParkHasWaker
  BY SMTT(60) DEF ParkInvariant
<1> QED BY <1>1, ParkInvariantHolds, PTL

\* A step that ends a park is the attempt's end, a wake, or a recovery.
LEMMA ParkEnds ==
    ASSUME ParkInvariant, TypeOK', Next, NEW a \in Attempts, Parked(att[a]), ~Parked(att'[a])
    PROVE  \/ Terminal(att'[a])
           \/ wait[a].settled \/ ~wait[a].live
           \/ asgn[a].state = "unknown"
<1>1. att[a].control # "unassigned"
  BY DEF ParkInvariant, CustodyInvariant, WellParked, ParkShape, Parked
<1>2. asgn[a].state # "offered"
  BY DEF ParkInvariant, OfferedReady, Parked, Terminal, TerminalProgress
<1>3. RegisterTaskWait(a) => Parked(att'[a])
  <2> SUFFICES ASSUME RegisterTaskWait(a) PROVE Parked(att'[a])
    OBVIOUS
  <2> DEFINE t == [att[a] EXCEPT !.progress = "waiting-external",
                                 !.control = "waiting-external", !.completedAt = FALSE]
  <2>1. att[a] \in Attempt /\ TypeOK
    BY DEF ParkInvariant, CustodyInvariant, TypeOK
  <2>2. t.progress = "waiting-external"
    BY <2>1 DEF Attempt
  <2>3. SaveAttempt(a, t)
    BY DEF RegisterTaskWait
  <2>4. att'[a].progress = t.progress
    BY Zenon, <2>1, <2>3, AttemptSaved
  <2> QED BY SMTT(60), <2>2, <2>4 DEF Parked
<1> QED BY SMTT(60), <1>1, <1>2, <1>3, ProgressMoves DEF Parked

\* Worker evidence never un-parks an attempt, however late it is applied.
THEOREM ParksAreHeld == Spec => ParkHeld
<1> DEFINE A == \A a \in Attempts :
                  att[a].progress = "waiting-external" /\ att'[a].progress # "waiting-external"
                  => \/ Terminal(att'[a])
                     \/ wait[a].settled \/ ~wait[a].live
                     \/ asgn[a].state = "unknown"
<1>1. ParkInvariant /\ TypeOK' /\ [Next]_vars => [A]_vars
  BY ParkEnds DEF Parked
<1> QED BY <1>1, ParkInvariantHolds, TypeCorrect, PTL DEF Spec, ParkHeld

-----------------------------------------------------------------------------
(* Commands. *)

\* A dispatch in flight for the current execution follows its accepted prepare.
PlannedDispatch(f) ==
    LET p == flight[f] IN
    p.op = "command" /\ p.kind = "dispatch" =>
        /\ p.epoch <= asgn[p.a].epoch
        /\ p.epoch = asgn[p.a].epoch => Accepted(p.a, "prepare")

DispatchInvariant == PreparedBeforeDispatch /\ \A f \in Flights : PlannedDispatch(f)

\* What a step does to the command rows of an attempt.
LEMMA CommandMoves ==
    ASSUME CustodyInvariant, DispatchInvariant, Next, NEW a \in Attempts
    PROVE  \/ /\ Accepted(a, "prepare") => Accepted(a, "prepare")'
              /\ Has(a, "dispatch")' => Has(a, "dispatch") \/ Accepted(a, "prepare")
           \/ asgn'[a].epoch = asgn[a].epoch + 1 /\ ~Has(a, "dispatch")'
<1> DEFINE G == /\ Accepted(a, "prepare") => Accepted(a, "prepare")'
                /\ Has(a, "dispatch")' => Has(a, "dispatch") \/ Accepted(a, "prepare")
<1>1. TypeOK /\ "prepare" \in CommandKind /\ "dispatch" \in CommandKind
  BY DEF CustodyInvariant, CommandKind
<1>2. cmd'[a] = cmd[a] => G
  BY SMTT(60) DEF Accepted, Has
<1>3. ASSUME AcquireCoordinator PROVE G
  BY SMTT(60), <1>1, <1>3 DEF AcquireCoordinator, Accepted, Has, NoCommand
<1> HIDE DEF G
<1>4. ASSUME NEW f \in Flights, FlightStep(f)
      PROVE  G \/ (asgn'[a].epoch = asgn[a].epoch + 1 /\ ~Has(a, "dispatch")')
  <2>1. CASE CommitAssignmentPlan(f)
    <3>1. flight[f].a \in Attempts
      BY SMTT(60), <1>1, <2>1, FlightKinds DEF TypeOK, CommitAssignmentPlan, OfferFlight
    <3>2. CASE flight[f].a # a
      <4>1. cmd'[a] = cmd[a]
        BY SMTT(60), <1>1, <2>1, <3>1, <3>2 DEF CommitAssignmentPlan, TypeOK
      <4> QED BY SMTT(60), <1>2, <4>1
    <3>3. CASE flight[f].a = a
      <4>1. cmd'[a] = [k \in CommandKind |-> NoCommand]
        BY SMTT(60), <1>1, <2>1, <3>1, <3>3 DEF CommitAssignmentPlan, TypeOK
      <4>2. asgn'[a].epoch = asgn[a].epoch + 1
        <5>1. asgn'[a] = [state |-> "offered", epoch |-> OfferEpoch(asgn[a]),
                          worker |-> flight[f].w, wepoch |-> flight[f].wepoch]
          BY SMTT(60), <1>1, <2>1, <3>1, <3>3, SavedAssignment DEF CommitAssignmentPlan
        <5> QED BY <5>1 DEF OfferEpoch
      <4> QED BY SMTT(60), <1>1, <4>1, <4>2 DEF Has, NoCommand
    <3> QED BY SMTT(60), <3>2, <3>3
  <2>2. CASE CommitWorkerCommand(f)
    <3> DEFINE p == flight[f]
    <3>1. p \in CommandFlight
      BY ZenonT(60), <1>1, <2>2, FlightKinds DEF TypeOK, CommitWorkerCommand
    <3>2. p.a \in Attempts /\ p.kind \in CommandKind /\ p.op = "command"
      BY SMTT(60), <3>1 DEF CommandFlight
    <3>3. /\ cmd' = [cmd EXCEPT ![p.a][p.kind] = [state |-> "pending", wepoch |-> p.wepoch]]
          /\ ~Has(p.a, p.kind) /\ asgn[p.a].epoch = p.epoch /\ PlannedDispatch(f)
      BY SMTT(30), <2>2 DEF CommitWorkerCommand, DispatchInvariant
    <3>4. /\ \A b \in Attempts \ {p.a} : cmd'[b] = cmd[b]
          /\ \A k \in CommandKind \ {p.kind} : cmd'[p.a][k] = cmd[p.a][k]
      BY ZenonT(60), <1>1, <3>2, <3>3 DEF TypeOK
    <3> HIDE DEF p
    <3>5. CASE p.a # a
      BY SMTT(60), <1>2, <3>4, <3>5
    <3>6. CASE p.a = a /\ p.kind = "dispatch"
      <4>1. cmd'[a]["prepare"] = cmd[a]["prepare"]
        BY SMTT(60), <1>1, <3>4, <3>6
      <4>2. Accepted(a, "prepare")
        BY SMTT(60), <3>2, <3>3, <3>6 DEF PlannedDispatch, p
      <4> QED BY SMTT(60), <4>1, <4>2 DEF Accepted, G
    <3>7. CASE p.a = a /\ p.kind # "dispatch"
      <4>1. cmd'[a]["dispatch"] = cmd[a]["dispatch"]
        BY SMTT(60), <1>1, <3>4, <3>7
      <4>2. Accepted(a, "prepare") => cmd'[a]["prepare"] = cmd[a]["prepare"]
        BY SMTT(60), <1>1, <3>3, <3>4, <3>7 DEF Accepted, Has
      <4> QED BY SMTT(60), <4>1, <4>2 DEF Accepted, Has, G
    <3> QED BY SMTT(30), <3>5, <3>6, <3>7
  <2>3. CASE ClaimAssignment(f) \/ CommitWorkerStateTransitions(f) \/ AbandonFlight(f)
    <3>1. CASE ClaimAssignment(f)
      BY SMTT(60), <1>2, <3>1 DEF ClaimAssignment
    <3>2. CASE CommitWorkerStateTransitions(f)
      BY SMTT(60), <1>2, <3>2 DEF CommitWorkerStateTransitions
    <3>3. CASE AbandonFlight(f)
      BY SMTT(60), <1>2, <3>3 DEF AbandonFlight
    <3> QED BY <2>3, <3>1, <3>2, <3>3
  <2>4. ASSUME NEW b \in Attempts, NEW w \in Workers,
               PlanOffer(f, b, w) \/ PlanWorkerCommand(f, w, b)
        PROVE  G
    BY ZenonT(60), <1>2, <2>4 DEF PlanOffer, PlanWorkerCommand
  <2>5. ASSUME NEW b \in Attempts, DeliverOffer(f, b) PROVE G
    BY SMTT(60), <1>2, <2>5 DEF DeliverOffer
  <2>6. ASSUME NEW w \in Workers, PlanWorkerStateTransitions(f, w) PROVE G
    BY SMTT(60), <1>2, <2>6 DEF PlanWorkerStateTransitions
  <2> QED BY SMTT(60), <1>4, <2>1, <2>2, <2>3, <2>4, <2>5, <2>6 DEF FlightStep
<1>5. ASSUME NEW b \in Attempts, CustodyStep(b) PROVE G
  <2>1. ASSUME NEW k \in CommandKind, NEW q \in {"accepted", "rejected"},
               AcknowledgeWorkerCommand(b, k, q)
        PROVE  G
    <3>1. cmd[b][k].state = "pending" /\ cmd' = [cmd EXCEPT ![b][k].state = q]
      BY <2>1 DEF AcknowledgeWorkerCommand
    <3>2. \A c \in Attempts, l \in CommandKind : c # b \/ l # k => cmd'[c][l] = cmd[c][l]
      BY SMTT(60), <1>1, <3>1 DEF TypeOK
    <3>3. Accepted(a, "prepare") => cmd'[a]["prepare"] = cmd[a]["prepare"]
      BY SMTT(60), <1>1, <3>1, <3>2 DEF Accepted
    <3>4. cmd'[a]["dispatch"] = cmd[a]["dispatch"] \/ Has(a, "dispatch")
      BY SMTT(60), <1>1, <3>1, <3>2 DEF Has
    <3> QED BY SMTT(60), <3>3, <3>4 DEF Accepted, Has, G
  <2> QED BY SMTT(60), <1>2, <1>5, <2>1 DEF CustodyStep, ReleaseNarrowedOffer, RepairCoordinatorState,
                                  RecoverUnknownAssignment
<1>6. ASSUME NEW b \in Attempts, ThrottleStep(b) PROVE G
  BY SMTT(60), <1>2, <1>6 DEF ThrottleStep, ThrottleIntent, AdminPause, ThrottleDeadline, ThrottleResume,
                    ThrottleAcknowledge
<1>7. ASSUME NEW b \in Attempts, WaitStep(b) PROVE G
  BY SMTT(60), <1>2, <1>7 DEF WaitStep, RegisterTaskWait, SettleTaskWait, WakeWithoutResuming,
                    WakeAbandoned, WakeResuming
<1>8. ASSUME NEW b \in Attempts, AdminStep(b) PROVE G
  BY SMTT(60), <1>2, <1>8 DEF AdminStep, AdminStart, AdminResume, AdminCancel, AdminSkip, AdminRewake,
                    ImportResult
<1>9. ASSUME \/ \E w \in Workers : WorkerStep(w)
             \/ \E S \in SUBSET Attempts : ExpireAssignmentLeases(S)
      PROVE  G
  BY SMTT(60), <1>2, <1>9 DEF WorkerStep, ObserveSnapshot, SnapshotExpires, ExpireAssignmentLeases
<1> QED BY ZenonT(60), <1>3, <1>4, <1>5, <1>6, <1>7, <1>8, <1>9 DEF Next, G

\* A command in flight after a step was in flight before it, or the step planned it
\* for the attempt's current execution.
LEMMA CommandOrigin ==
    ASSUME TypeOK, Next, NEW f \in Flights, flight'[f] # flight[f], flight'[f].op = "command",
           flight'[f].kind = "dispatch"
    PROVE  LET p == flight'[f] IN
           /\ p.a \in Attempts /\ p.epoch = asgn[p.a].epoch /\ Accepted(p.a, "prepare")
           /\ UNCHANGED <<asgn, cmd>>
<1> DEFINE G == LET p == flight'[f] IN
                /\ p.a \in Attempts /\ p.epoch = asgn[p.a].epoch /\ Accepted(p.a, "prepare")
                /\ UNCHANGED <<asgn, cmd>>
<1>1. ASSUME NEW g \in Flights, FlightStep(g) PROVE G
  <2>1. g = f
    <3>1. \E p : flight' = [flight EXCEPT ![g] = p]
      BY ZenonT(60), <1>1 DEF FlightStep, PlanOffer, CommitAssignmentPlan, DeliverOffer, ClaimAssignment,
                  PlanWorkerCommand, CommitWorkerCommand, PlanWorkerStateTransitions,
                  CommitWorkerStateTransitions, AbandonFlight
    <3> QED BY SMTT(30), <3>1 DEF TypeOK
  <2>2. ~ \/ CommitAssignmentPlan(f) \/ ClaimAssignment(f) \/ CommitWorkerCommand(f)
          \/ CommitWorkerStateTransitions(f) \/ AbandonFlight(f)
    <3>1. flight' # [flight EXCEPT ![f] = Idle]
      BY SMTT(60) DEF TypeOK, Idle
    <3>2. ~CommitAssignmentPlan(f) /\ ~ClaimAssignment(f)
      BY SMTT(60), <3>1 DEF CommitAssignmentPlan, ClaimAssignment
    <3>3. ~CommitWorkerCommand(f) /\ ~AbandonFlight(f)
      BY SMTT(60), <3>1 DEF CommitWorkerCommand, AbandonFlight
    <3>4. ~CommitWorkerStateTransitions(f)
      BY SMTT(60), <3>1 DEF CommitWorkerStateTransitions
    <3> QED BY SMTT(60), <3>2, <3>3, <3>4
  <2>3. \A a \in Attempts : ~DeliverOffer(f, a)
    <3> SUFFICES ASSUME NEW a \in Attempts, DeliverOffer(f, a) PROVE FALSE
      OBVIOUS
    <3> DEFINE p == [op |-> "claim", a |-> a, w |-> asgn[a].worker, epoch |-> asgn[a].epoch,
                     cepoch |-> coord, wepoch |-> snap[asgn[a].worker].wepoch]
    <3>1. flight' = [flight EXCEPT ![f] = p]
      BY SMTT(60) DEF DeliverOffer
    <3>2. p.op = "claim"
      OBVIOUS
    <3> HIDE DEF p
    <3>3. flight'[f] = p
      BY SMTT(60), <3>1 DEF TypeOK
    <3> QED BY SMTT(60), <3>2, <3>3
  <2>4. \A a \in Attempts, w \in Workers : ~PlanOffer(f, a, w)
    <3> SUFFICES ASSUME NEW a \in Attempts, NEW w \in Workers, PlanOffer(f, a, w) PROVE FALSE
      OBVIOUS
    <3> DEFINE p == [op |-> "offer", a |-> a, w |-> w, rev |-> att[a].rev,
                     cepoch |-> coord, wepoch |-> snap[w].wepoch, seq |-> snap[w].seq]
    <3>1. flight' = [flight EXCEPT ![f] = p]
      BY SMTT(60) DEF PlanOffer
    <3>2. p.op = "offer"
      OBVIOUS
    <3> HIDE DEF p
    <3>3. flight'[f] = p
      BY SMTT(60), <3>1 DEF TypeOK
    <3> QED BY SMTT(60), <3>2, <3>3
  <2>5. \A w \in Workers : ~PlanWorkerStateTransitions(f, w)
    <3> SUFFICES ASSUME NEW w \in Workers, PlanWorkerStateTransitions(f, w) PROVE FALSE
      OBVIOUS
    <3> DEFINE p == [op |-> "reconcile", w |-> w, cepoch |-> coord,
                     wepoch |-> snap[w].wepoch, seq |-> snap[w].seq,
                     items |-> [a \in Attempts |-> PlannedTransition(a, w)]]
    <3>1. flight' = [flight EXCEPT ![f] = p]
      BY SMTT(60) DEF PlanWorkerStateTransitions
    <3>2. p.op = "reconcile"
      OBVIOUS
    <3> HIDE DEF p
    <3>3. flight'[f] = p
      BY SMTT(60), <3>1 DEF TypeOK
    <3> QED BY SMTT(60), <3>2, <3>3
  <2>6. ASSUME NEW a \in Attempts, NEW w \in Workers, PlanWorkerCommand(f, w, a) PROVE G
    <3> DEFINE k == NextWorkerCommand(a, ObservationOf(a, snap[w]))
    <3>1. /\ flight' = [flight EXCEPT ![f] =
                          [op |-> "command", a |-> a, w |-> w, kind |-> k,
                           epoch |-> asgn[a].epoch, cepoch |-> coord,
                           wepoch |-> snap[w].wepoch, seq |-> snap[w].seq]]
          /\ UNCHANGED <<asgn, cmd>>
      BY ZenonT(60), <2>6 DEF PlanWorkerCommand
    <3> HIDE DEF k
    <3>2. flight'[f].a = a /\ flight'[f].epoch = asgn[a].epoch /\ k = "dispatch"
      BY <3>1 DEF TypeOK
    <3>3. Accepted(a, "prepare")
      BY SMTT(60), <3>2 DEF k, NextWorkerCommand, DispatchDue
    <3> QED BY SMTT(60), <3>1, <3>2, <3>3
  <2> QED BY SMTT(60), <1>1, <2>1, <2>2, <2>3, <2>4, <2>5, <2>6 DEF FlightStep
<1>2. ASSUME NEW a \in Attempts, CustodyStep(a) PROVE FALSE
  BY SMTT(60), <1>2 DEF CustodyStep, ReleaseNarrowedOffer, RepairCoordinatorState,
              RecoverUnknownAssignment, AcknowledgeWorkerCommand
<1>3. ASSUME NEW a \in Attempts, ThrottleStep(a) PROVE FALSE
  BY SMTT(60), <1>3 DEF ThrottleStep, ThrottleIntent, AdminPause, ThrottleDeadline, ThrottleResume,
              ThrottleAcknowledge
<1>4. ASSUME NEW a \in Attempts, WaitStep(a) PROVE FALSE
  BY SMTT(60), <1>4 DEF WaitStep, RegisterTaskWait, SettleTaskWait, WakeWithoutResuming, WakeAbandoned,
              WakeResuming
<1>5. ASSUME NEW a \in Attempts, AdminStep(a) PROVE FALSE
  BY SMTT(60), <1>5 DEF AdminStep, AdminStart, AdminResume, AdminCancel, AdminSkip, AdminRewake,
              ImportResult
<1>6. ~ \/ AcquireCoordinator
        \/ \E w \in Workers : WorkerStep(w)
        \/ \E S \in SUBSET Attempts : ExpireAssignmentLeases(S)
  BY SMTT(60) DEF AcquireCoordinator, WorkerStep, ObserveSnapshot, SnapshotExpires,
         ExpireAssignmentLeases
<1> QED BY SMTT(60), <1>1, <1>2, <1>3, <1>4, <1>5, <1>6 DEF Next

\* Assignments and planned commands name attempts and epochs.
LEMMA EpochTypes ==
    ASSUME TypeOK
    PROVE  /\ \A a \in Attempts : asgn[a].epoch \in Nat
           /\ \A f \in Flights : flight[f].op = "command" =>
                flight[f].a \in Attempts /\ flight[f].epoch \in Nat
<1>1. ASSUME NEW a \in Attempts PROVE asgn[a].epoch \in Nat
  <2>1. asgn[a] \in Assignment
    BY DEF TypeOK
  <2>2. asgn[a].epoch \in 0..MaxEpoch
    BY SMTT(60), <2>1 DEF Assignment
  <2> QED BY SMTT(60), <2>2, BoundsAssumption
<1>2. ASSUME NEW f \in Flights, flight[f].op = "command"
      PROVE  flight[f].a \in Attempts /\ flight[f].epoch \in Nat
  <2>1. flight[f] \in CommandFlight
    BY SMTT(60), <1>2, FlightKinds DEF TypeOK
  <2>2. flight[f].a \in Attempts /\ flight[f].epoch \in 0..MaxEpoch
    BY <2>1 DEF CommandFlight
  <2> QED BY SMTT(60), <2>2, BoundsAssumption
<1> QED BY SMTT(60), <1>1, <1>2

\* Every step keeps prepares ahead of dispatches.
LEMMA NextDispatch == CustodyInvariant /\ DispatchInvariant /\ [Next]_vars => DispatchInvariant'
<1> SUFFICES ASSUME CustodyInvariant, DispatchInvariant, [Next]_vars PROVE DispatchInvariant'
  OBVIOUS
<1>1. CASE UNCHANGED vars
  BY <1>1 DEF vars, DispatchInvariant, PreparedBeforeDispatch, PlannedDispatch, Has, Accepted
<1>2. CASE Next
  <2>1. TypeOK
    BY SMTT(60) DEF CustodyInvariant
  <2>2. PreparedBeforeDispatch'
    <3> SUFFICES ASSUME NEW a \in Attempts, Has(a, "dispatch")'
                 PROVE  Accepted(a, "prepare")'
      BY SMTT(60) DEF PreparedBeforeDispatch
    <3> QED BY SMTT(60), <1>2, CommandMoves DEF DispatchInvariant, PreparedBeforeDispatch
  <2>3. ASSUME NEW f \in Flights PROVE PlannedDispatch(f)'
    <3> DEFINE p == flight'[f]
    <3> SUFFICES ASSUME p.op = "command", p.kind = "dispatch"
                 PROVE  /\ p.epoch <= asgn'[p.a].epoch
                        /\ p.epoch = asgn'[p.a].epoch => cmd'[p.a]["prepare"].state = "accepted"
      BY SMTT(60) DEF PlannedDispatch, Accepted
    <3>1. CASE flight'[f] = flight[f]
      <4>1. p.a \in Attempts /\ p.epoch \in Nat
        BY SMTT(60), <2>1, <3>1, EpochTypes
      <4>2. asgn[p.a].epoch \in Nat
        BY SMTT(60), <2>1, <4>1, EpochTypes
      <4>3. /\ p.epoch <= asgn[p.a].epoch
            /\ p.epoch = asgn[p.a].epoch => Accepted(p.a, "prepare")
        BY SMTT(60), <3>1 DEF DispatchInvariant, PlannedDispatch
      <4>4. \/ asgn'[p.a].epoch = asgn[p.a].epoch + 1
            \/ /\ asgn'[p.a].epoch = asgn[p.a].epoch
               /\ Accepted(p.a, "prepare") => cmd'[p.a]["prepare"].state = "accepted"
        <5>1. ASSUME NEW a \in Attempts, asgn[a].epoch \in Nat
              PROVE  \/ asgn'[a].epoch = asgn[a].epoch + 1
                     \/ /\ asgn'[a].epoch = asgn[a].epoch
                        /\ Accepted(a, "prepare") => cmd'[a]["prepare"].state = "accepted"
          <6>1. \/ asgn'[a].epoch = asgn[a].epoch + 1
                \/ asgn'[a].epoch = asgn[a].epoch
            BY SMTT(60), <1>2, <5>1, RowsMove DEF Moves
          <6>2. \/ asgn'[a].epoch = asgn[a].epoch + 1
                \/ Accepted(a, "prepare") => Accepted(a, "prepare")'
            BY SMTT(60), <1>2, <5>1, CommandMoves
          <6>3. CASE asgn'[a].epoch = asgn[a].epoch + 1
            BY SMTT(60), <6>3
          <6>4. CASE asgn'[a].epoch # asgn[a].epoch + 1
            <7>1. asgn'[a].epoch = asgn[a].epoch
              BY SMTT(60), <6>1, <6>4
            <7>2. Accepted(a, "prepare") => cmd'[a]["prepare"].state = "accepted"
              BY SMTT(60), <6>2, <6>4 DEF Accepted
            <7> QED BY SMTT(60), <7>1, <7>2
          <6> QED BY SMTT(60), <6>3, <6>4
        <5> HIDE DEF p
        <5> QED BY SMTT(60), <4>1, <4>2, <5>1
      <4> HIDE DEF p
      <4>5. CASE asgn'[p.a].epoch = asgn[p.a].epoch + 1
        <5>1. p.epoch <= asgn[p.a].epoch
          BY SMTT(60), <4>3
        <5>2. p.epoch <= asgn'[p.a].epoch /\ p.epoch # asgn'[p.a].epoch
          BY SMTT(60), <4>1, <4>2, <4>5, <5>1
        <5> QED BY SMTT(60), <5>2
      <4>6. CASE /\ asgn'[p.a].epoch = asgn[p.a].epoch
                 /\ Accepted(p.a, "prepare") => cmd'[p.a]["prepare"].state = "accepted"
        BY SMTT(60), <4>3, <4>6
      <4> QED BY SMTT(60), <4>4, <4>5, <4>6
    <3>2. CASE flight'[f] # flight[f]
      <4>1. /\ p.a \in Attempts /\ p.epoch = asgn[p.a].epoch /\ Accepted(p.a, "prepare")
            /\ UNCHANGED <<asgn, cmd>>
        BY SMTT(60), <1>2, <2>1, <3>2, CommandOrigin
      <4> HIDE DEF p
      <4>2. p.epoch \in Nat
        BY SMTT(60), <2>1, <4>1, EpochTypes
      <4>3. asgn'[p.a].epoch = p.epoch
        BY SMTT(60), <4>1
      <4>4. cmd'[p.a]["prepare"].state = "accepted"
        BY <4>1 DEF Accepted
      <4>5. p.epoch <= asgn'[p.a].epoch
        BY <4>2, <4>3
      <4> QED BY SMTT(60), <4>4, <4>5
    <3> QED BY SMTT(60), <3>1, <3>2
  <2> QED BY <2>2, <2>3 DEF DispatchInvariant
<1> QED BY <1>1, <1>2

\* An execution is dispatched only after its own preparation was accepted, also
\* when the dispatch was planned before a coordinator restart, a recovery or a
\* new offer of the attempt.
THEOREM DispatchIsPrepared == Spec => []PreparedBeforeDispatch
<1>1. Init => DispatchInvariant
  <2> SUFFICES ASSUME Init PROVE DispatchInvariant
    OBVIOUS
  <2>1. PreparedBeforeDispatch
    BY DEF Init, PreparedBeforeDispatch, Has, NoCommand, CommandKind
  <2>2. \A f \in Flights : flight[f].op = "idle"
    BY DEF Init, Idle
  <2> QED BY SMTT(60), <2>1, <2>2 DEF DispatchInvariant, PlannedDispatch
<1>2. DispatchInvariant => PreparedBeforeDispatch
  BY DEF DispatchInvariant
<1> QED BY <1>1, <1>2, NextDispatch, InvariantHolds, PTL DEF Spec

=============================================================================
