----------------------------- MODULE TaskWakes -----------------------------
(***************************************************************************)
(* Task-bound waits and the delivery of their wakes.  A turn registers     *)
(* waits, which park its attempt; a wait settles once; a wake pass commits *)
(* the resumption of the attempt and one message for the set of waits that *)
(* justify it; a runner on the attempt's host claims the message durably   *)
(* before it sends it, so that a crash on either side of the send leaves   *)
(* evidence that a message may exist.                                      *)
(*                                                                         *)
(* A store call is one step, and so is a call to the thread service.  What *)
(* a runner read stays in its record and may be stale: two runners stand   *)
(* for a daemon that is replaced while it delivers.  The identity of a     *)
(* message is its first wait, since a wait is woken once.  Left out: the   *)
(* kinds of conditions, attention and ask waits, the reasons of a deferred *)
(* wake (capacity is in AssignmentLifecycle), the group claim event, which *)
(* every claim of a group writes, and rows written by older binaries.      *)
(***************************************************************************)
EXTENDS Naturals, FiniteSets

CONSTANTS
    Attempts,   \* attempts
    Waits,      \* waits that may be registered
    Of,         \* the attempt a wait belongs to
    Runners,    \* runners that deliver wakes
    Actors,     \* what else moves attempts: "moves", "ends", "releases", "archive"
    NoWait,     \* the identity of no message
    MaxRev      \* bound: revisions after which only wakes advance an attempt

ASSUME OfAssumption == Of \in [Waits -> Attempts]

ASSUME NoWaitAssumption == NoWait \notin Waits

ASSUME MaxRevAssumption == MaxRev \in Nat

VARIABLES
    att,      \* attempt rows: progress, revision, custody and thread number
    turn,     \* state of each attempt's thread
    wait,     \* wait rows
    runner,   \* what each runner is doing
    told,     \* how often each wait's outcome was handed to the thread service
    flying,   \* messages handed over whose fate is open
    arrived   \* messages that are in their thread

vars == <<att, turn, wait, runner, told, flying, arrived>>

-----------------------------------------------------------------------------
Progress == {"active", "waiting", "ready", "ended"}

\* The assignment an attempt names: one that is held, one that is released or
\* completed, or none.
Custody == {"held", "settled", "none"}

Attempt == [progress : Progress, rev : Nat, custody : Custody, thread : Nat]

Turn == {"running", "stopped", "archived"}

\* An outcome the condition or a cancellation decided, or the one of an expiry.
Outcome == {"decided", "timed-out"}

Delivery == {"", "pending", "sending", "recovery-required", "delivered", "abandoned"}

Wait == [state : {"none", "live", "settled"}, mode : {"each", "all"},
         outcome : Outcome \cup {""}, woken : BOOLEAN, delivery : Delivery,
         id : Waits \cup {NoWait}, wakeRev : Nat, resumption : BOOLEAN]

\* One message as a runner read it: its identity, the waits it speaks for, the
\* delivery state they had, and the thread the attempt had.
Entry == [id : Waits, members : SUBSET Waits, from : Delivery, thread : Nat]

Message == [id : Waits, waits : SUBSET Waits, thread : Nat]

Runner == [pc : {"idle"}]
            \cup [pc : {"list"}, todo : SUBSET Entry]
            \cup [pc : {"claimed", "sent", "failed"}, todo : SUBSET Entry, entry : Entry]

Idle == [pc |-> "idle"]

-----------------------------------------------------------------------------
Live(w) == wait[w].state = "live"

\* Settled, and not yet woken.
Ready(w) == wait[w].state = "settled" /\ ~wait[w].woken

WaitsOf(a) == {w \in Waits : Of[w] = a}

\* taskWaitWakeSet: each wakes on the first settlement, all when none is live.
WakeSet(a) ==
    LET ready == {w \in WaitsOf(a) : Ready(w)} IN
    IF \/ \A w \in WaitsOf(a) : ~Live(w)
       \/ \E w \in ready : wait[w].mode = "each"
    THEN ready ELSE {}

\* The waits that share the message of id.
Group(id) == {w \in Waits : wait[w].woken /\ wait[w].id = id}

\* A message may exist: only its observation resolves the delivery.
Uncertain(w) == wait[w].delivery \in {"sending", "recovery-required"}

\* Woken, and neither delivered nor closed.
Undelivered(w) == wait[w].woken /\ wait[w].delivery \in {"pending", "sending", "recovery-required"}

\* The attempt has ended or moved past the revision the wake was committed at.
StaleWake(w) ==
    LET t == att[Of[w]] IN t.progress = "ended" \/ wait[w].wakeRev # t.rev

-----------------------------------------------------------------------------
Init ==
    /\ att = [a \in Attempts |-> [progress |-> "active", rev |-> 1,
                                  custody |-> "held", thread |-> 1]]
    /\ turn = [a \in Attempts |-> "running"]
    /\ wait = [w \in Waits |-> [state |-> "none", mode |-> "each", outcome |-> "",
                                woken |-> FALSE, delivery |-> "", id |-> NoWait,
                                wakeRev |-> 0, resumption |-> FALSE]]
    /\ runner = [r \in Runners |-> Idle]
    /\ told = [w \in Waits |-> 0]
    /\ flying = {}
    /\ arrived = {}

\* Every write of an attempt row advances its revision.
SaveAttempt(a, t) == att' = [att EXCEPT ![a] = [t EXCEPT !.rev = att[a].rev + 1]]

-----------------------------------------------------------------------------
(* Waits. *)

\* RegisterTaskWait: the running turn of a live attempt parks on one more wait.
RegisterTaskWait(w, mode) ==
    LET a == Of[w] IN
    /\ wait[w].state = "none"
    /\ turn[a] = "running" /\ att[a].custody # "none"
    /\ att[a].progress \in {"active", "waiting"}
    /\ att[a].rev < MaxRev
    /\ wait' = [wait EXCEPT ![w].state = "live", ![w].mode = mode]
    /\ SaveAttempt(a, [att[a] EXCEPT !.progress = "waiting"])
    /\ UNCHANGED <<turn, runner, told, flying, arrived>>

\* Mutant: a settlement does not look for an earlier one.
SettleTaskWaitAgain(w, outcome) ==
    /\ wait[w].state # "none"
    /\ wait' = [wait EXCEPT ![w].state = "settled", ![w].outcome = outcome]
    /\ UNCHANGED <<att, turn, runner, told, flying, arrived>>

\* SettleTaskWait and CancelTaskWait: the first outcome wins.
SettleTaskWait(w, outcome) ==
    /\ Live(w)
    /\ wait' = [wait EXCEPT ![w].state = "settled", ![w].outcome = outcome]
    /\ UNCHANGED <<att, turn, runner, told, flying, arrived>>

\* ExpireTaskWaits, one wait: the deadline may pass in any step.
ExpireTaskWait(w) ==
    /\ Live(w)
    /\ wait' = [wait EXCEPT ![w].state = "settled", ![w].outcome = "timed-out"]
    /\ UNCHANGED <<att, turn, runner, told, flying, arrived>>

\* markTaskWaitsWokenTx: the set shares one message, named by its first wait.
MarkWoken(S, delivery, rev, resumption) ==
    LET first == CHOOSE w \in S : TRUE IN
    wait' = [w \in Waits |->
               IF w \in S
               THEN [wait[w] EXCEPT !.woken = TRUE, !.delivery = delivery, !.id = first,
                                    !.wakeRev = rev, !.resumption = resumption]
               ELSE wait[w]]

\* WakeTaskWaits, one attempt that is not parked: nothing is resumed.  The
\* outcome of a running attempt is delivered into its turn.
WakeUnparked(a) ==
    /\ WakeSet(a) # {} /\ att[a].progress # "waiting"
    /\ MarkWoken(WakeSet(a), IF att[a].progress = "ended" THEN "abandoned" ELSE "pending",
                 att[a].rev, FALSE)
    /\ UNCHANGED <<att, turn, runner, told, flying, arrived>>

\* WakeTaskWaits: the execution of the parked attempt is gone and the task fails.
WakeAbandoned(a) ==
    /\ WakeSet(a) # {} /\ att[a].progress = "waiting" /\ att[a].custody = "settled"
    /\ MarkWoken(WakeSet(a), "abandoned", att[a].rev, FALSE)
    /\ SaveAttempt(a, [att[a] EXCEPT !.progress = "ended"])
    /\ UNCHANGED <<turn, runner, told, flying, arrived>>

\* WakeTaskWaits: the parked attempt resumes.
WakeResuming(a) ==
    /\ WakeSet(a) # {} /\ att[a].progress = "waiting" /\ att[a].custody = "held"
    /\ MarkWoken(WakeSet(a), "pending", att[a].rev + 1, TRUE)
    /\ SaveAttempt(a, [att[a] EXCEPT !.progress = "active"])
    /\ UNCHANGED <<turn, runner, told, flying, arrived>>

WakeTaskWaits(a) == WakeUnparked(a) \/ WakeAbandoned(a) \/ WakeResuming(a)

-----------------------------------------------------------------------------
(* Delivery. *)

\* Mutant: a stale wake is not listed for observation.
ListedFresh == {w \in Waits : Undelivered(w) /\ ~StaleWake(w)}

\* What TaskWakesAwaitingDelivery lists: wakes of the current revision, and stale
\* ones whose message may exist.  The other stale wakes are closed.
Listed == {w \in Waits : Undelivered(w) /\ (~StaleWake(w) \/ Uncertain(w))}

\* Mutant: a stale wake is closed also when its message may exist.
ClosedUncertain == {w \in Waits : Undelivered(w) /\ StaleWake(w)}

Closed == {w \in Waits : Undelivered(w) /\ StaleWake(w) /\ ~Uncertain(w)}

\* The assignment of every attempt with a listed wake is loaded; an attempt that
\* names none fails the whole call.
ListFails == \E w \in Listed : att[Of[w]].custody = "none"

TaskWakesAwaitingDelivery(r) ==
    /\ runner[r] = Idle
    /\ Listed \cup Closed # {} /\ ~ListFails
    /\ wait' = [w \in Waits |-> IF w \in Closed THEN [wait[w] EXCEPT !.delivery = "abandoned"]
                                ELSE wait[w]]
    /\ runner' = [runner EXCEPT ![r] =
         IF Listed = {} THEN Idle
         ELSE [pc |-> "list",
               todo |-> {[id |-> wait[w].id, members |-> Group(wait[w].id),
                          from |-> wait[w].delivery,
                          thread |-> att[Of[w]].thread] : w \in Listed}]]
    /\ UNCHANGED <<att, turn, told, flying, arrived>>

\* Mutant: the state of the message is not compared with the one that was read.
CanTransitionBlind(id, from) == TRUE

\* TransitionTaskWake: every member of the message is still in the state read.
CanTransition(id, from) == \A w \in Group(id) : wait[w].delivery = from

\* Mutant: only the wait that names the message is moved.
TransitionFirst(id, to) == wait' = [wait EXCEPT ![id].delivery = to]

Transition(id, to) ==
    wait' = [w \in Waits |-> IF w \in Group(id) THEN [wait[w] EXCEPT !.delivery = to]
                             ELSE wait[w]]

TransitionTaskWake(id, from, to) ==
    IF CanTransition(id, from) THEN Transition(id, to) ELSE wait' = wait

\* Runner r is done with one entry of its list.
Drop(r, e) ==
    LET rest == runner[r].todo \ {e} IN
    runner' = [runner EXCEPT ![r] = IF rest = {} THEN Idle ELSE [pc |-> "list", todo |-> rest]]

\* Mutant: a claim is taken for evidence of a send.
FoundByClaim(e) == TRUE

\* The message is in the thread it was listed for.
Found(e) == \E m \in arrived : m.id = e.id /\ m.thread = e.thread

\* The entry's thread is the one its attempt runs on.  An earlier thread may be
\* archived or not.
CurrentThread(e) == e.thread = att[Of[e.id]].thread

\* A message in the attempt's thread starts a turn if none is running.
StartTurn(m) ==
    turn' = IF CurrentThread(m) /\ turn[Of[m.id]] = "stopped"
            THEN [turn EXCEPT ![Of[m.id]] = "running"] ELSE turn

\* A delivery whose send is uncertain is only observed.  The thread's listing is
\* bounded, so a message that is there may also not be found.
ObserveWake(r, e, found) ==
    /\ runner[r].pc = "list" /\ e \in runner[r].todo
    /\ e.from \in {"sending", "recovery-required"}
    /\ found => Found(e)
    /\ TransitionTaskWake(e.id, e.from, IF found THEN "delivered" ELSE "recovery-required")
    /\ Drop(r, e)
    /\ UNCHANGED <<att, turn, told, flying, arrived>>

\* The thread is gone: the wake is abandoned instead of retried.
AbandonWake(r, e) ==
    /\ runner[r].pc = "list" /\ e \in runner[r].todo /\ e.from = "pending"
    /\ CurrentThread(e) => turn[Of[e.id]] = "archived"
    /\ TransitionTaskWake(e.id, "pending", "abandoned")
    /\ Drop(r, e)
    /\ UNCHANGED <<att, turn, told, flying, arrived>>

\* sending is durable before the send.  A claim that is lost sends nothing.
ClaimWake(r, e) ==
    /\ runner[r].pc = "list" /\ e \in runner[r].todo /\ e.from = "pending"
    /\ CurrentThread(e) => turn[Of[e.id]] # "archived"
    /\ TransitionTaskWake(e.id, "pending", "sending")
    /\ IF CanTransition(e.id, "pending")
       THEN runner' = [runner EXCEPT ![r] = [pc |-> "claimed", todo |-> runner[r].todo \ {e},
                                             entry |-> e]]
       ELSE Drop(r, e)
    /\ UNCHANGED <<att, turn, told, flying, arrived>>

\* SendNodeWake: the message arrives; or the call fails with the message lost or
\* still under way.
SendWake(r, result) ==
    LET e == runner[r].entry
        m == [id |-> e.id, waits |-> e.members, thread |-> e.thread] IN
    /\ runner[r].pc = "claimed"
    /\ told' = [w \in Waits |-> IF w \in e.members THEN told[w] + 1 ELSE told[w]]
    /\ arrived' = IF result = "ok" THEN arrived \cup {m} ELSE arrived
    /\ flying' = IF result = "late" THEN flying \cup {m} ELSE flying
    /\ IF result = "ok" THEN StartTurn(m) ELSE turn' = turn
    /\ runner' = [runner EXCEPT ![r].pc = IF result = "ok" THEN "sent" ELSE "failed"]
    /\ UNCHANGED <<att, wait>>

\* Mutant: the result of the call is recorded as the state of the delivery.
RecordWakeResult(r) ==
    LET e == runner[r].entry IN
    /\ runner[r].pc \in {"sent", "failed"}
    /\ TransitionTaskWake(e.id, "sending", runner[r].pc)
    /\ runner' = [runner EXCEPT ![r] = Idle]
    /\ UNCHANGED <<att, turn, told, flying, arrived>>

\* What the sender records of its own send.
RecordWake(r) ==
    LET e == runner[r].entry IN
    /\ runner[r].pc \in {"sent", "failed"}
    /\ TransitionTaskWake(e.id, "sending",
                          IF runner[r].pc = "sent" THEN "delivered" ELSE "recovery-required")
    /\ runner' = [runner EXCEPT ![r] = IF runner[r].todo = {} THEN Idle
                                       ELSE [pc |-> "list", todo |-> runner[r].todo]]
    /\ UNCHANGED <<att, turn, told, flying, arrived>>

\* The runner dies, cannot reach the store or the thread, or holds the wake while
\* the quota of the thread is drained.
GiveUp(r) ==
    /\ runner[r] # Idle
    /\ runner' = [runner EXCEPT ![r] = Idle]
    /\ UNCHANGED <<att, turn, wait, told, flying, arrived>>

\* A message whose call had failed reaches its thread.
Arrive(m) ==
    /\ m \in flying
    /\ flying' = flying \ {m}
    /\ arrived' = arrived \cup {m}
    /\ StartTurn(m)
    /\ UNCHANGED <<att, wait, runner, told>>

-----------------------------------------------------------------------------
(* The rest of the coordinator and the worker, as far as waits see it. *)

TurnEnds(a) ==
    /\ turn[a] = "running"
    /\ turn' = [turn EXCEPT ![a] = "stopped"]
    /\ UNCHANGED <<att, wait, runner, told, flying, arrived>>

ThreadArchived(a) ==
    /\ turn[a] = "stopped"
    /\ turn' = [turn EXCEPT ![a] = "archived"]
    /\ UNCHANGED <<att, wait, runner, told, flying, arrived>>

\* A throttle, a worker report or an operator writes the attempt.
AttemptMoves(a) ==
    /\ att[a].progress # "ended" /\ att[a].rev < MaxRev
    /\ SaveAttempt(a, att[a])
    /\ UNCHANGED <<turn, wait, runner, told, flying, arrived>>

\* Cancelled, skipped, failed, or its result imported.
AttemptEnds(a) ==
    /\ att[a].progress # "ended" /\ att[a].rev < MaxRev
    /\ SaveAttempt(a, [att[a] EXCEPT !.progress = "ended"])
    /\ UNCHANGED <<turn, wait, runner, told, flying, arrived>>

\* releasedWorkerState: a parked attempt keeps its reference, an ended one loses
\* it and stays ended, any other is ready again, or keeps its progress when it
\* had been stopped.
ReleasedAttempts(t) ==
    CASE t.progress = "waiting" -> {[t EXCEPT !.custody = "settled"]}
      [] t.progress = "ended" -> {[t EXCEPT !.custody = "none"]}
      [] OTHER -> {[t EXCEPT !.custody = "none", !.progress = p] : p \in {t.progress, "ready"}}

\* RecoverUnknownAssignment: an operator says the execution stopped or failed.
RecoveredAttempts(t) ==
    {[t EXCEPT !.custody = "none", !.progress = p] :
       p \in IF t.progress = "ended" THEN {"ended"} ELSE {"ready", "ended"}}

\* A held execution is released by its worker or recovered by an operator.
ExecutionReleased(a) ==
    /\ att[a].custody = "held" /\ att[a].rev < MaxRev
    /\ \E t \in ReleasedAttempts(att[a]) \cup RecoveredAttempts(att[a]) : SaveAttempt(a, t)
    /\ turn' = [turn EXCEPT ![a] = IF @ = "running" THEN "stopped" ELSE @]
    /\ UNCHANGED <<wait, runner, told, flying, arrived>>

\* A ready attempt is offered again and claimed: it runs on a new thread.
ExecutionClaimed(a) ==
    /\ att[a].progress = "ready"
    /\ SaveAttempt(a, [att[a] EXCEPT !.progress = "active", !.custody = "held",
                                     !.thread = att[a].thread + 1])
    /\ turn' = [turn EXCEPT ![a] = "running"]
    /\ UNCHANGED <<wait, runner, told, flying, arrived>>

-----------------------------------------------------------------------------
WaitStep(w) ==
    \/ \E mode \in {"each", "all"} : RegisterTaskWait(w, mode)
    \/ \E o \in Outcome : SettleTaskWait(w, o)
    \/ ExpireTaskWait(w)

HandleEntry(r, e) ==
    \/ \E found \in BOOLEAN : ObserveWake(r, e, found)
    \/ AbandonWake(r, e)
    \/ ClaimWake(r, e)

\* Runner r handles what it has listed for message id.
HandleWake(r, id) ==
    /\ runner[r].pc = "list"
    /\ \E e \in runner[r].todo : e.id = id /\ HandleEntry(r, e)

RunnerStep(r) ==
    \/ TaskWakesAwaitingDelivery(r)
    \/ \E id \in Waits : HandleWake(r, id)
    \/ \E result \in {"ok", "lost", "late"} : SendWake(r, result)
    \/ RecordWake(r)
    \/ GiveUp(r)

AttemptStep(a) ==
    \/ WakeTaskWaits(a)
    \/ TurnEnds(a)
    \/ "archive" \in Actors /\ ThreadArchived(a)
    \/ "moves" \in Actors /\ AttemptMoves(a)
    \/ "ends" \in Actors /\ AttemptEnds(a)
    \/ "releases" \in Actors /\ (ExecutionReleased(a) \/ ExecutionClaimed(a))

Next ==
    \/ \E w \in Waits : WaitStep(w)
    \/ \E r \in Runners : RunnerStep(r)
    \/ \E m \in flying : Arrive(m)
    \/ \E a \in Attempts : AttemptStep(a)

Spec == Init /\ [][Next]_vars

\* Every wait has a deadline and an expiry pass; the wake pass and the runners
\* run on every tick; a ready attempt is offered again and claimed; a runner that
\* lists a wake again and again does not fail or hold it back forever.
Fairness ==
    /\ \A w \in Waits : WF_vars(ExpireTaskWait(w))
    /\ \A a \in Attempts : WF_vars(WakeTaskWaits(a)) /\ WF_vars(ExecutionClaimed(a))
    /\ \A r \in Runners :
         /\ WF_vars(TaskWakesAwaitingDelivery(r))
         /\ \A id \in Waits : SF_vars(HandleWake(r, id))
         /\ WF_vars(RecordWake(r) \/ \E result \in {"ok", "lost", "late"} : SendWake(r, result))

FairSpec == Spec /\ Fairness

-----------------------------------------------------------------------------
(* Properties. *)

\* The rows of the store and the runners' records have their types.
TypeOK ==
    /\ att \in [Attempts -> Attempt]
    /\ turn \in [Attempts -> Turn]
    /\ wait \in [Waits -> Wait]
    /\ runner \in [Runners -> Runner]
    /\ told \in [Waits -> Nat]
    /\ flying \subseteq Message
    /\ arrived \subseteq Message

\* deliverTaskWake "sends one wake at most once": whatever runners crash, race or
\* read late, the outcome of a wait is handed to the thread service at most once.
SentAtMostOnce == \A w \in Waits : told[w] <= 1

\* A wake that is recorded as delivered is in a thread, in a message that carries
\* this wait's outcome: the observation of a message identity stands for every
\* member of its group.
DeliveredIsThere ==
    \A w \in Waits : wait[w].delivery = "delivered" =>
        \E m \in arrived : m.id = wait[w].id /\ w \in m.waits

\* A wake that is recorded as abandoned was never sent: the stale wakes that
\* TaskWakesAwaitingDelivery closes are the ones no runner can have claimed.
AbandonedUnsent == \A w \in Waits : wait[w].delivery = "abandoned" => told[w] = 0

\* The waits of one message are claimed and resolved together.
GroupMovesTogether ==
    \A v, w \in Waits :
        wait[v].woken /\ wait[w].woken /\ wait[v].id = wait[w].id =>
            wait[v].delivery = wait[w].delivery /\ wait[v].wakeRev = wait[w].wakeRev
                /\ Of[v] = Of[w]

\* A wait settles once and wakes once: a late settlement, expiry or cancellation
\* does not retract an outcome, and a woken wait keeps its message for good.
OutcomeKept ==
    [][\A w \in Waits :
         /\ wait[w].state = "settled" =>
              wait'[w].state = "settled" /\ wait'[w].outcome = wait[w].outcome
         /\ wait[w].woken =>
              wait'[w].woken /\ wait'[w].id = wait[w].id /\ wait'[w].wakeRev = wait[w].wakeRev]_vars

Resolved(w) == wait[w].delivery \in {"delivered", "abandoned", "recovery-required"}

\* Every registered wait comes to an end an agent or an operator can see: a
\* message that is delivered, closed, or left for recovery, however runners crash
\* and the attempt's revision moves.
EveryWakeResolved == \A w \in Waits : Live(w) ~> Resolved(w)

\* TaskWakesAwaitingDelivery "lists the wakes whose message has not reached its
\* thread yet": the wake of an attempt that a worker holds throughout is resolved,
\* whatever happens to the other attempts.
HeldWakeResolved ==
    \A w \in Waits : [](att[Of[w]].custody = "held") => (Live(w) ~> Resolved(w))

\* An outcome that was due to an agent is withdrawn only if the agent's attempt
\* or thread is gone: an agent that registers an urgent check alongside others
\* "gets the urgent answer when it arrives".
AnswerNotWithdrawn ==
    [][\A w \in Waits :
         wait[w].delivery = "pending" /\ wait'[w].delivery = "abandoned" =>
            att[Of[w]].progress = "ended" \/ turn[Of[w]] = "archived"]_vars
=============================================================================
