-------------------------- MODULE TaskWakesProofs --------------------------
(***************************************************************************)
(* Proofs about TaskWakes for every set of attempts, waits and runners:    *)
(* the type invariant, that no outcome is sent twice, and that what the    *)
(* store records of a delivery is true.                                    *)
(***************************************************************************)
EXTENDS TaskWakes, TLAPS

-----------------------------------------------------------------------------
(* The invariant. *)

\* A woken wait belongs to the group of a wait that leads it; a wait that is not
\* woken has no message and was never sent.
WokenShape ==
    \A w \in Waits :
        /\ wait[w].woken =>
             /\ wait[w].state = "settled" /\ wait[w].delivery # ""
             /\ wait[w].id \in Waits
             /\ wait[wait[w].id].woken /\ wait[wait[w].id].id = wait[w].id
        /\ ~wait[w].woken => wait[w].delivery = "" /\ told[w] = 0

\* An outcome that may have been sent is recorded as claimed at least.
SentIsClaimed ==
    \A w \in Waits : wait[w].delivery \in {"pending", "abandoned"} => told[w] = 0

\* What a runner read of a message: its group does not change, its state may.
EntryShape(e) ==
    /\ wait[e.id].woken /\ wait[e.id].id = e.id
    /\ e.members = Group(e.id)

EntriesShape ==
    \A r \in Runners :
        /\ runner[r].pc # "idle" => \A e \in runner[r].todo :
                                        EntryShape(e) /\ e.from # "delivered" /\ e.from # "abandoned"
        /\ runner[r].pc \in {"claimed", "sent", "failed"} => EntryShape(runner[r].entry)

\* A runner about to send is the only one for its message, which was never sent.
ClaimShape ==
    \A r \in Runners : runner[r].pc = "claimed" =>
        /\ \A w \in runner[r].entry.members : told[w] = 0 /\ Uncertain(w)
        /\ \A q \in Runners : runner[q].pc = "claimed" /\ q # r =>
               runner[q].entry.id # runner[r].entry.id

\* A message speaks for its whole group, whose outcomes were sent.
MessageShape ==
    \A m \in flying \cup arrived :
        /\ wait[m.id].woken /\ wait[m.id].id = m.id
        /\ m.waits = Group(m.id)
        /\ \A w \in m.waits : told[w] = 1

\* A runner whose send succeeded left its message in the thread.
SentShape ==
    \A r \in Runners : runner[r].pc = "sent" =>
        \E m \in arrived : m.id = runner[r].entry.id

WakeInvariant ==
    /\ TypeOK
    /\ SentAtMostOnce
    /\ DeliveredIsThere
    /\ GroupMovesTogether
    /\ WokenShape
    /\ SentIsClaimed
    /\ EntriesShape
    /\ ClaimShape
    /\ MessageShape
    /\ SentShape

-----------------------------------------------------------------------------
(* Types. *)

\* The shape of a runner's record follows from its program counter.
LEMMA RunnerShape ==
    ASSUME TypeOK, NEW r \in Runners
    PROVE  /\ runner[r].pc \in {"idle", "list", "claimed", "sent", "failed"}
           /\ runner[r].pc = "idle" => runner[r] = Idle
           /\ runner[r].pc # "idle" => runner[r].todo \subseteq Entry
           /\ runner[r].pc \in {"claimed", "sent", "failed"} =>
                /\ runner[r].entry \in Entry
                /\ runner[r] \in [pc : {"claimed", "sent", "failed"},
                                  todo : SUBSET Entry, entry : Entry]
BY DEF TypeOK, Runner, Idle

\* Every row write of an attempt keeps the attempts well formed.
LEMMA SaveAttemptType ==
    ASSUME TypeOK, NEW a \in Attempts, NEW t \in Attempt, SaveAttempt(a, t)
    PROVE  att' \in [Attempts -> Attempt]
BY SMTT(30) DEF TypeOK, SaveAttempt, Attempt

\* The writes of a wait row keep it well formed.
LEMMA WaitOps ==
    ASSUME NEW x \in Wait
    PROVE  /\ \A d \in Delivery : [x EXCEPT !.delivery = d] \in Wait
           /\ \A d \in Delivery, i \in Waits, n \in Nat, b \in BOOLEAN :
                [x EXCEPT !.woken = TRUE, !.delivery = d, !.id = i,
                          !.wakeRev = n, !.resumption = b] \in Wait
           /\ \A m \in {"each", "all"} : [x EXCEPT !.state = "live", !.mode = m] \in Wait
           /\ \A o \in Outcome : [x EXCEPT !.state = "settled", !.outcome = o] \in Wait
BY ZenonT(60) DEF Wait

\* A transition of a message keeps the waits well formed.
LEMMA TransitionType ==
    ASSUME TypeOK, NEW id, NEW from, NEW to \in Delivery, TransitionTaskWake(id, from, to)
    PROVE  wait' \in [Waits -> Wait]
<1>1. \A w \in Waits : wait[w] \in Wait /\ [wait[w] EXCEPT !.delivery = to] \in Wait
  BY Zenon, WaitOps DEF TypeOK
<1> QED BY <1>1 DEF TypeOK, TransitionTaskWake, Transition

\* A runner that drops an entry has a shorter list or none.
LEMMA DropType ==
    ASSUME TypeOK, NEW r \in Runners, NEW e, runner[r].pc = "list", Drop(r, e)
    PROVE  runner' \in [Runners -> Runner]
<1>1. runner[r].todo \ {e} \subseteq Entry
  BY RunnerShape
<1>2. [pc |-> "list", todo |-> runner[r].todo \ {e}] \in Runner /\ Idle \in Runner
  BY <1>1 DEF Runner, Idle
<1> QED BY <1>2 DEF Drop, TypeOK

\* The wake set consists of settled waits of the attempt that were not woken.
LEMMA WakeSetFacts ==
    ASSUME NEW a \in Attempts
    PROVE  /\ WakeSet(a) \subseteq Waits
           /\ \A w \in WakeSet(a) :
                Of[w] = a /\ wait[w].state = "settled" /\ ~wait[w].woken
BY SMTT(30) DEF WakeSet, WaitsOf, Ready

\* markTaskWaitsWokenTx keeps the waits well formed.
LEMMA MarkWokenType ==
    ASSUME TypeOK, NEW S \in SUBSET Waits, S # {}, NEW d \in Delivery, NEW n \in Nat,
           NEW b \in BOOLEAN, MarkWoken(S, d, n, b)
    PROVE  wait' \in [Waits -> Wait]
<1>1. (CHOOSE w \in S : TRUE) \in Waits
  OBVIOUS
<1>2. \A w \in Waits :
        /\ wait[w] \in Wait
        /\ [wait[w] EXCEPT !.woken = TRUE, !.delivery = d, !.id = CHOOSE v \in S : TRUE,
                           !.wakeRev = n, !.resumption = b] \in Wait
  BY ZenonT(60), <1>1, WaitOps DEF TypeOK
<1> QED BY Zenon, <1>2 DEF MarkWoken

\* A wake pass keeps the rows well formed.
LEMMA WakeType ==
    ASSUME TypeOK, NEW a \in Attempts, WakeTaskWaits(a)
    PROVE  TypeOK'
<1>0. /\ att[a] \in Attempt /\ att[a].rev \in Nat /\ att[a].rev + 1 \in Nat
      /\ WakeSet(a) \in SUBSET Waits
  BY WakeSetFacts DEF TypeOK, Attempt
<1>1. \A p \in Progress : [att[a] EXCEPT !.progress = p] \in Attempt
  BY <1>0 DEF Attempt
<1>2. CASE WakeUnparked(a)
  <2>1. wait' \in [Waits -> Wait]
    BY Zenon, <1>0, <1>2, MarkWokenType DEF WakeUnparked, Delivery
  <2> QED BY <1>2, <2>1 DEF WakeUnparked, TypeOK
<1>3. CASE WakeAbandoned(a)
  <2>1. wait' \in [Waits -> Wait]
    BY Zenon, <1>0, <1>3, MarkWokenType DEF WakeAbandoned, Delivery
  <2>2. att' \in [Attempts -> Attempt]
    BY <1>1, <1>3, SaveAttemptType DEF WakeAbandoned, Progress
  <2> QED BY <1>3, <2>1, <2>2 DEF WakeAbandoned, TypeOK
<1>4. CASE WakeResuming(a)
  <2>1. wait' \in [Waits -> Wait]
    BY Zenon, <1>0, <1>4, MarkWokenType DEF WakeResuming, Delivery
  <2>2. att' \in [Attempts -> Attempt]
    BY <1>1, <1>4, SaveAttemptType DEF WakeResuming, Progress
  <2> QED BY <1>4, <2>1, <2>2 DEF WakeResuming, TypeOK
<1> QED BY <1>2, <1>3, <1>4 DEF WakeTaskWaits

\* The other steps of an attempt keep the rows well formed.
LEMMA AttemptType ==
    ASSUME TypeOK, NEW a \in Attempts,
           \/ TurnEnds(a) \/ ThreadArchived(a) \/ AttemptMoves(a) \/ AttemptEnds(a)
           \/ ExecutionReleased(a) \/ ExecutionClaimed(a)
    PROVE  TypeOK' /\ UNCHANGED <<wait, runner, told, flying, arrived>>
<1>0. att[a] \in Attempt
  BY DEF TypeOK
<1>1. CASE TurnEnds(a) \/ ThreadArchived(a)
  BY <1>1 DEF TurnEnds, ThreadArchived, TypeOK, Turn
<1>2. CASE AttemptMoves(a)
  <2>1. att' \in [Attempts -> Attempt]
    BY <1>0, <1>2, SaveAttemptType DEF AttemptMoves
  <2> QED BY <1>2, <2>1 DEF AttemptMoves, TypeOK
<1>3. CASE AttemptEnds(a)
  <2>1. [att[a] EXCEPT !.progress = "ended"] \in Attempt
    BY <1>0 DEF Attempt, Progress
  <2>2. att' \in [Attempts -> Attempt]
    BY <1>3, <2>1, SaveAttemptType DEF AttemptEnds
  <2> QED BY <1>3, <2>2 DEF AttemptEnds, TypeOK
<1>4. CASE ExecutionReleased(a)
  <2>1. \A t \in ReleasedAttempts(att[a]) \cup RecoveredAttempts(att[a]) : t \in Attempt
    <3>1. ASSUME NEW t \in ReleasedAttempts(att[a]) PROVE t \in Attempt
      <4>1. CASE att[a].progress = "waiting" \/ att[a].progress = "ended"
        BY <1>0, <3>1, <4>1 DEF ReleasedAttempts, Attempt, Progress, Custody
      <4>2. CASE att[a].progress # "waiting" /\ att[a].progress # "ended"
        <5>1. PICK p \in {att[a].progress, "ready"} :
                t = [att[a] EXCEPT !.custody = "none", !.progress = p]
          BY <3>1, <4>2 DEF ReleasedAttempts
        <5>2. p \in Progress
          BY <1>0, <5>1 DEF Attempt, Progress
        <5> QED BY Zenon, <1>0, <5>1, <5>2 DEF Attempt, Custody
      <4> QED BY <4>1, <4>2
    <3>2. ASSUME NEW t \in RecoveredAttempts(att[a]) PROVE t \in Attempt
      <4>1. PICK p \in Progress : t = [att[a] EXCEPT !.custody = "none", !.progress = p]
        BY Zenon, <3>2 DEF RecoveredAttempts, Progress
      <4> QED BY Zenon, <1>0, <4>1 DEF Attempt, Custody
    <3> QED BY <3>1, <3>2
  <2>2. att' \in [Attempts -> Attempt]
    BY <1>4, <2>1, SaveAttemptType DEF ExecutionReleased
  <2>3. turn' \in [Attempts -> Turn]
    BY <1>4 DEF ExecutionReleased, TypeOK, Turn
  <2> QED BY <1>4, <2>2, <2>3 DEF ExecutionReleased, TypeOK
<1>5. CASE ExecutionClaimed(a)
  <2>1. [att[a] EXCEPT !.progress = "active", !.custody = "held",
                       !.thread = att[a].thread + 1] \in Attempt
    <3>1. att[a].thread + 1 \in Nat
      BY <1>0 DEF Attempt
    <3> QED BY Zenon, <1>0, <3>1 DEF Attempt, Progress, Custody
  <2>2. att' \in [Attempts -> Attempt]
    BY <1>5, <2>1, SaveAttemptType DEF ExecutionClaimed
  <2> QED BY Zenon, <1>5, <2>2 DEF ExecutionClaimed, TypeOK, Turn
<1> QED BY <1>1, <1>2, <1>3, <1>4, <1>5

-----------------------------------------------------------------------------
(* Steps that leave deliveries alone. *)

\* Wait rows keep what a delivery reads of them.
SameDelivery ==
    \A w \in Waits :
        /\ (wait'[w].woken <=> wait[w].woken) /\ wait'[w].id = wait[w].id
        /\ wait'[w].delivery = wait[w].delivery /\ wait'[w].wakeRev = wait[w].wakeRev
        /\ wait[w].woken => wait'[w].state = "settled"

\* Registration and settlement keep the invariant.
LEMMA SameDeliveryKept ==
    ASSUME WakeInvariant, TypeOK', SameDelivery, UNCHANGED <<runner, told, flying, arrived>>
    PROVE  WakeInvariant'
<1> USE DEF WakeInvariant, SameDelivery
<1>1. \A i : Group(i)' = Group(i)
  BY DEF Group
<1>2. SentAtMostOnce' /\ SentIsClaimed' /\ DeliveredIsThere' /\ GroupMovesTogether' /\ SentShape'
  BY DEF SentAtMostOnce, SentIsClaimed, DeliveredIsThere, GroupMovesTogether, SentShape
<1>3. WokenShape'
  <2>1. ASSUME NEW w \in Waits, wait'[w].woken
        PROVE  /\ wait'[w].state = "settled" /\ wait'[w].delivery # ""
               /\ wait'[w].id \in Waits
               /\ wait'[wait'[w].id].woken /\ wait'[wait'[w].id].id = wait'[w].id
    <3>1. /\ wait[w].woken /\ wait[w].id \in Waits /\ wait[w].delivery # ""
          /\ wait[wait[w].id].woken /\ wait[wait[w].id].id = wait[w].id
      BY Zenon, <2>1 DEF WokenShape
    <3> QED BY Zenon, <2>1, <3>1
  <2>2. ASSUME NEW w \in Waits, ~wait'[w].woken
        PROVE  wait'[w].delivery = "" /\ told'[w] = 0
    BY ZenonT(60), <2>2 DEF WokenShape
  <2> QED BY Zenon, <2>1, <2>2 DEF WokenShape
<1>4. \A e \in Entry : EntryShape(e) => EntryShape(e)'
  BY <1>1 DEF EntryShape, Entry
<1>5. EntriesShape'
  BY <1>4, RunnerShape DEF EntriesShape
<1>6. ClaimShape'
  <2>1. \A w \in Waits : Uncertain(w)' = Uncertain(w)
    BY DEF Uncertain
  <2>2. \A r \in Runners : runner[r].pc = "claimed" => runner[r].entry.members \subseteq Waits
    BY RunnerShape DEF Entry
  <2> QED BY <2>1, <2>2 DEF ClaimShape
<1>7. MessageShape'
  <2>1. \A m \in flying \cup arrived : m.id \in Waits
    BY DEF TypeOK, Message
  <2> QED BY <1>1, <2>1 DEF MessageShape
<1> QED BY <1>2, <1>3, <1>5, <1>6, <1>7

\* A step of an attempt that touches no wait, runner or message.
LEMMA RowsKept ==
    ASSUME WakeInvariant, TypeOK', UNCHANGED <<wait, runner, told, flying, arrived>>
    PROVE  WakeInvariant'
<1>1. SameDelivery
  BY Zenon DEF SameDelivery, WakeInvariant, WokenShape
<1> QED BY <1>1, SameDeliveryKept

\* RegisterTaskWait, SettleTaskWait and ExpireTaskWaits keep the invariant.
LEMMA WaitStepKept ==
    ASSUME WakeInvariant, NEW w \in Waits, WaitStep(w)
    PROVE  WakeInvariant'
<1>0. TypeOK /\ wait[w] \in Wait /\ Of[w] \in Attempts
  BY OfAssumption DEF WakeInvariant, TypeOK
<1>1. wait[w].woken => wait[w].state = "settled"
  BY Zenon DEF WakeInvariant, WokenShape
<1>2. CASE \E mode \in {"each", "all"} : RegisterTaskWait(w, mode)
  <2>1. PICK mode \in {"each", "all"} : RegisterTaskWait(w, mode)
    BY <1>2
  <2>2. wait' = [wait EXCEPT ![w] = [wait[w] EXCEPT !.state = "live", !.mode = mode]]
    BY Zenon, <1>0, <2>1 DEF RegisterTaskWait, TypeOK
  <2>3. wait' \in [Waits -> Wait]
    BY Zenon, <1>0, <2>2, WaitOps DEF TypeOK
  <2>4. [att[Of[w]] EXCEPT !.progress = "waiting"] \in Attempt
    BY SMTT(60), <1>0 DEF TypeOK, Attempt, Progress
  <2>5. att' \in [Attempts -> Attempt]
    BY <1>0, <2>1, <2>4, SaveAttemptType DEF RegisterTaskWait
  <2>6. TypeOK'
    BY <1>0, <2>1, <2>3, <2>5 DEF RegisterTaskWait, TypeOK
  <2>7. SameDelivery
    <3>1. wait[w].state = "none"
      BY <2>1 DEF RegisterTaskWait
    <3>2. WokenShape
      BY DEF WakeInvariant
    <3>3. ~wait[w].woken
      BY <1>1, <3>1
    <3>4. \A v \in Waits : v # w => wait'[v] = wait[v]
      BY <1>0, <2>2 DEF TypeOK
    <3>5. /\ (wait'[w].woken <=> wait[w].woken) /\ wait'[w].id = wait[w].id
          /\ wait'[w].delivery = wait[w].delivery /\ wait'[w].wakeRev = wait[w].wakeRev
      BY Zenon, <1>0, <2>2 DEF TypeOK, Wait
    <3> QED BY ZenonT(60), <3>2, <3>3, <3>4, <3>5 DEF SameDelivery, WokenShape
  <2> QED BY <2>1, <2>6, <2>7, SameDeliveryKept DEF RegisterTaskWait
<1>3. CASE (\E o \in Outcome : SettleTaskWait(w, o)) \/ ExpireTaskWait(w)
  <2>1. PICK o \in Outcome :
          /\ wait' = [wait EXCEPT ![w] = [wait[w] EXCEPT !.state = "settled", !.outcome = o]]
          /\ UNCHANGED <<att, turn, runner, told, flying, arrived>>
    BY Zenon, <1>0, <1>3 DEF SettleTaskWait, ExpireTaskWait, TypeOK, Outcome
  <2>2. wait' \in [Waits -> Wait]
    BY Zenon, <1>0, <2>1, WaitOps DEF TypeOK
  <2>3. TypeOK'
    BY <1>0, <2>1, <2>2 DEF TypeOK
  <2>4. SameDelivery
    <3>1. WokenShape
      BY DEF WakeInvariant
    <3>2. \A v \in Waits : v # w => wait'[v] = wait[v]
      BY <1>0, <2>1 DEF TypeOK
    <3>3. /\ (wait'[w].woken <=> wait[w].woken) /\ wait'[w].id = wait[w].id
          /\ wait'[w].delivery = wait[w].delivery /\ wait'[w].wakeRev = wait[w].wakeRev
          /\ wait'[w].state = "settled"
      BY Zenon, <1>0, <2>1 DEF TypeOK, Wait
    <3> QED BY ZenonT(60), <3>1, <3>2, <3>3 DEF SameDelivery, WokenShape
  <2> QED BY <2>1, <2>3, <2>4, SameDeliveryKept
<1> QED BY <1>2, <1>3 DEF WaitStep

\* A runner that gives up holds nothing.
LEMMA GiveUpKept ==
    ASSUME WakeInvariant, NEW r \in Runners, GiveUp(r)
    PROVE  WakeInvariant'
<1>1. \A q \in Runners : runner'[q] = runner[q] \/ runner'[q].pc = "idle"
  BY DEF WakeInvariant, TypeOK, GiveUp, Idle
<1>2. TypeOK'
  BY SMTT(60) DEF WakeInvariant, TypeOK, GiveUp, Idle, Runner
<1>3. EntriesShape'
  BY <1>1 DEF WakeInvariant, EntriesShape, EntryShape, Group, GiveUp
<1>4. ClaimShape' /\ SentShape'
  BY <1>1 DEF WakeInvariant, ClaimShape, SentShape, Uncertain, GiveUp
<1>5. SentAtMostOnce' /\ DeliveredIsThere' /\ GroupMovesTogether' /\ SentIsClaimed'
  BY DEF WakeInvariant, GiveUp, SentAtMostOnce, DeliveredIsThere, GroupMovesTogether,
         SentIsClaimed
<1>6. WokenShape' /\ MessageShape'
  <2>1. WokenShape'
    BY Zenon DEF WakeInvariant, GiveUp, WokenShape
  <2>2. MessageShape'
    BY DEF WakeInvariant, GiveUp, MessageShape, Group
  <2> QED BY <2>1, <2>2
<1> QED BY <1>2, <1>3, <1>4, <1>5, <1>6 DEF WakeInvariant

\* A late message arrives.
LEMMA ArriveKept ==
    ASSUME WakeInvariant, NEW m \in flying, Arrive(m)
    PROVE  WakeInvariant'
<1>1. m \in Message /\ m.id \in Waits /\ Of[m.id] \in Attempts
  BY OfAssumption DEF WakeInvariant, TypeOK, Message
<1>2. TypeOK'
  BY <1>1 DEF WakeInvariant, TypeOK, Arrive, StartTurn, Turn
<1>3. MessageShape'
  BY DEF WakeInvariant, MessageShape, Arrive, Group
<1>4. DeliveredIsThere' /\ SentShape'
  BY DEF WakeInvariant, DeliveredIsThere, SentShape, Arrive
<1>5. SentAtMostOnce' /\ GroupMovesTogether' /\ SentIsClaimed' /\ WokenShape'
  <2>1. wait' = wait /\ told' = told
    BY DEF Arrive
  <2>2. SentAtMostOnce' /\ SentIsClaimed'
    BY <2>1 DEF WakeInvariant, SentAtMostOnce, SentIsClaimed
  <2>3. GroupMovesTogether'
    BY <2>1 DEF WakeInvariant, GroupMovesTogether
  <2>4. WokenShape'
    BY ZenonT(60), <2>1 DEF WakeInvariant, WokenShape
  <2> QED BY <2>2, <2>3, <2>4
<1>6. EntriesShape' /\ ClaimShape'
  BY DEF WakeInvariant, Arrive, EntriesShape, EntryShape, Group, ClaimShape, Uncertain
<1> QED BY <1>2, <1>3, <1>4, <1>5, <1>6 DEF WakeInvariant

-----------------------------------------------------------------------------
(* The wake pass. *)

\* A set of settled waits of one attempt that were not woken becomes a group of
\* its own; no other group changes.
LEMMA MarkWokenKept ==
    ASSUME WakeInvariant, TypeOK', NEW a \in Attempts, NEW S \in SUBSET Waits, S # {},
           \A w \in S : Of[w] = a /\ wait[w].state = "settled" /\ ~wait[w].woken,
           NEW d \in {"pending", "abandoned"}, NEW n \in Nat, NEW b \in BOOLEAN,
           MarkWoken(S, d, n, b), UNCHANGED <<runner, told, flying, arrived>>
    PROVE  WakeInvariant'
<1> USE DEF WakeInvariant
<1>1. PICK first \in S : \A w \in Waits :
        /\ w \in S => /\ wait'[w].woken /\ wait'[w].delivery = d /\ wait'[w].id = first
                      /\ wait'[w].wakeRev = n /\ wait'[w].state = "settled"
        /\ w \notin S => wait'[w] = wait[w]
  <2> DEFINE f == CHOOSE w \in S : TRUE
  <2>1. f \in S
    OBVIOUS
  <2>2. \A w \in Waits : wait[w] \in Wait
    BY DEF TypeOK
  <2> HIDE DEF f
  <2>3. ASSUME NEW w \in S
        PROVE  /\ wait'[w].woken /\ wait'[w].delivery = d /\ wait'[w].id = f
               /\ wait'[w].wakeRev = n /\ wait'[w].state = "settled"
    <3>1. wait'[w] = [wait[w] EXCEPT !.woken = TRUE, !.delivery = d, !.id = f,
                                     !.wakeRev = n, !.resumption = b]
      BY Zenon DEF MarkWoken, f
    <3>2. wait[w] \in Wait /\ wait[w].state = "settled"
      BY SMTT(30), <2>2
    <3> QED BY ZenonT(30), <3>1, <3>2 DEF Wait
  <2>4. \A w \in Waits : w \notin S => wait'[w] = wait[w]
    BY Zenon DEF MarkWoken
  <2> QED BY <2>1, <2>3, <2>4
<1>2. \A i \in Waits : wait[i].woken => i \notin S /\ wait'[i] = wait[i]
  BY <1>1
<1>12. \A w \in Waits : w \notin S /\ wait[w].woken => wait[w].id \in Waits /\ wait[w].id \notin S
  BY Zenon DEF WokenShape
<1>3. \A i \in Waits : wait[i].woken => Group(i)' = Group(i)
  BY <1>1, <1>2 DEF Group
<1>4. \A w \in S : told[w] = 0
  BY Zenon DEF WokenShape
<1>5. SentAtMostOnce' /\ SentIsClaimed' /\ SentShape'
  BY <1>1, <1>4 DEF SentAtMostOnce, SentIsClaimed, SentShape
<1>6. DeliveredIsThere'
  BY <1>1 DEF DeliveredIsThere
<1>7. GroupMovesTogether'
  <2> SUFFICES ASSUME NEW v \in Waits, NEW w \in Waits,
                      wait'[v].woken, wait'[w].woken, wait'[v].id = wait'[w].id
               PROVE  /\ wait'[v].delivery = wait'[w].delivery
                      /\ wait'[v].wakeRev = wait'[w].wakeRev /\ Of[v] = Of[w]
    BY DEF GroupMovesTogether
  <2>1. v \in S <=> w \in S
    BY <1>1, <1>12
  <2>2. CASE v \in S
    BY <1>1, <2>1, <2>2
  <2>3. CASE v \notin S
    BY <1>1, <2>1, <2>3 DEF GroupMovesTogether
  <2> QED BY SMTT(60), <2>2, <2>3
<1>8. WokenShape'
  <2>1. ASSUME NEW w \in Waits, wait'[w].woken
        PROVE  /\ wait'[w].state = "settled" /\ wait'[w].delivery # ""
               /\ wait'[w].id \in Waits
               /\ wait'[wait'[w].id].woken /\ wait'[wait'[w].id].id = wait'[w].id
    <3>1. CASE w \in S
      BY ZenonT(60), <1>1, <3>1
    <3>2. CASE w \notin S
      <4>1. wait'[w] = wait[w] /\ wait[w].woken
        BY <1>1, <2>1, <3>2
      <4>2. wait[w].id \in Waits /\ wait'[wait[w].id] = wait[wait[w].id]
        BY <1>1, <1>12, <3>2, <4>1
      <4>3. /\ wait[w].state = "settled" /\ wait[w].delivery # ""
            /\ wait[wait[w].id].woken /\ wait[wait[w].id].id = wait[w].id
        BY Zenon, <4>1 DEF WokenShape
      <4> QED BY ZenonT(60), <4>1, <4>2, <4>3
    <3> QED BY Zenon, <3>1, <3>2
  <2>2. ASSUME NEW w \in Waits, ~wait'[w].woken
        PROVE  wait'[w].delivery = "" /\ told'[w] = 0
    BY ZenonT(60), <1>1, <2>2 DEF WokenShape
  <2> QED BY Zenon, <2>1, <2>2 DEF WokenShape
<1>9. EntriesShape'
  <2>1. \A e \in Entry : EntryShape(e) => EntryShape(e)'
    BY <1>2, <1>3 DEF EntryShape, Entry
  <2> QED BY <2>1, RunnerShape DEF EntriesShape
<1>10. ClaimShape'
  <2>1. \A w \in Waits : Uncertain(w) => Uncertain(w)'
    BY ZenonT(60), <1>1 DEF Uncertain, WokenShape
  <2>2. \A r \in Runners : runner[r].pc = "claimed" => runner[r].entry.members \subseteq Waits
    BY RunnerShape DEF Entry
  <2> QED BY <2>1, <2>2 DEF ClaimShape
<1>11. MessageShape'
  <2>1. \A m \in flying \cup arrived : m.id \in Waits
    BY DEF TypeOK, Message
  <2> QED BY SMTT(60), <1>2, <1>3, <2>1 DEF MessageShape
<1> QED BY SMTT(60), <1>5, <1>6, <1>7, <1>8, <1>9, <1>10, <1>11

\* WakeTaskWaits keeps the invariant.
LEMMA WakeKept ==
    ASSUME WakeInvariant, NEW a \in Attempts, WakeTaskWaits(a)
    PROVE  WakeInvariant'
<1>1. TypeOK /\ TypeOK'
  BY WakeType DEF WakeInvariant
<1>2. att[a].rev \in Nat /\ att[a].rev + 1 \in Nat
  BY <1>1 DEF TypeOK, Attempt
<1>3. PICK d \in {"pending", "abandoned"}, n \in Nat, b \in BOOLEAN :
        MarkWoken(WakeSet(a), d, n, b)
  BY Zenon, <1>2 DEF WakeTaskWaits, WakeUnparked, WakeAbandoned, WakeResuming
<1>4. WakeSet(a) # {} /\ UNCHANGED <<runner, told, flying, arrived>>
  BY ZenonT(60) DEF WakeTaskWaits, WakeUnparked, WakeAbandoned, WakeResuming
<1> QED BY <1>1, <1>3, <1>4, WakeSetFacts, MarkWokenKept

-----------------------------------------------------------------------------
(* Transitions of a message. *)

\* What TransitionTaskWake does to the waits: the members of the message move
\* together, from the state that was read, or nothing moves.
LEMMA TransitionFacts ==
    ASSUME TypeOK, NEW id \in Waits, NEW from, NEW to \in Delivery,
           TransitionTaskWake(id, from, to)
    PROVE  \A w \in Waits :
             /\ wait'[w].woken <=> wait[w].woken
             /\ wait'[w].id = wait[w].id /\ wait'[w].wakeRev = wait[w].wakeRev
             /\ wait'[w].state = wait[w].state
             /\ CanTransition(id, from) /\ w \in Group(id) =>
                  wait[w].delivery = from /\ wait'[w].delivery = to
             /\ ~CanTransition(id, from) \/ w \notin Group(id) =>
                  wait'[w].delivery = wait[w].delivery
<1>1. \A w \in Waits : wait[w] \in Wait
  BY DEF TypeOK
<1>2. CASE CanTransition(id, from)
  <2>1. \A w \in Waits : w \in Group(id) => wait[w].delivery = from
    BY <1>2 DEF CanTransition
  <2>2. \A w \in Waits : wait'[w] = IF w \in Group(id) THEN [wait[w] EXCEPT !.delivery = to]
                                   ELSE wait[w]
    BY <1>2 DEF TransitionTaskWake, Transition
  <2>3. ASSUME NEW w \in Waits, w \in Group(id)
        PROVE  /\ wait'[w].delivery = to /\ (wait'[w].woken <=> wait[w].woken)
               /\ wait'[w].id = wait[w].id /\ wait'[w].wakeRev = wait[w].wakeRev
               /\ wait'[w].state = wait[w].state
    <3>1. wait'[w] = [wait[w] EXCEPT !.delivery = to] /\ wait[w] \in Wait
      BY <1>1, <2>2, <2>3
    <3> QED BY Zenon, <3>1 DEF Wait
  <2>4. \A w \in Waits : w \notin Group(id) => wait'[w] = wait[w]
    BY Zenon, <2>2
  <2> QED BY <1>2, <2>1, <2>3, <2>4
<1>3. CASE ~CanTransition(id, from)
  BY <1>3 DEF TransitionTaskWake
<1> QED BY <1>2, <1>3

\* A transition keeps what the invariant says of groups, entries and messages.
LEMMA TransitionKept ==
    ASSUME WakeInvariant, NEW id \in Waits, NEW from, NEW to \in Delivery, to # "",
           TransitionTaskWake(id, from, to)
    PROVE  /\ GroupMovesTogether'
           /\ told' = told => WokenShape'
           /\ \A i : Group(i)' = Group(i)
           /\ \A e \in Entry : EntryShape(e) => EntryShape(e)'
<1> USE DEF WakeInvariant
<1>1. \A w \in Waits :
        /\ wait'[w].woken <=> wait[w].woken
        /\ wait'[w].id = wait[w].id /\ wait'[w].wakeRev = wait[w].wakeRev
        /\ wait'[w].state = wait[w].state
        /\ CanTransition(id, from) /\ w \in Group(id) => wait'[w].delivery = to
        /\ ~CanTransition(id, from) \/ w \notin Group(id) => wait'[w].delivery = wait[w].delivery
  BY ZenonT(60), TransitionFacts
<1>2. \A i : Group(i)' = Group(i)
  BY Zenon, <1>1 DEF Group
<1>3. GroupMovesTogether'
  <2> SUFFICES ASSUME NEW v \in Waits, NEW w \in Waits,
                      wait'[v].woken, wait'[w].woken, wait'[v].id = wait'[w].id
               PROVE  /\ wait'[v].delivery = wait'[w].delivery
                      /\ wait'[v].wakeRev = wait'[w].wakeRev /\ Of[v] = Of[w]
    BY ZenonT(60) DEF GroupMovesTogether
  <2>1. wait[v].woken /\ wait[w].woken /\ wait[v].id = wait[w].id
    BY Zenon, <1>1
  <2>2. v \in Group(id) <=> w \in Group(id)
    BY Zenon, <2>1 DEF Group
  <2>3. /\ wait[v].delivery = wait[w].delivery /\ wait[v].wakeRev = wait[w].wakeRev
        /\ Of[v] = Of[w]
    BY Zenon, <2>1 DEF GroupMovesTogether
  <2>4. CASE CanTransition(id, from) /\ v \in Group(id)
    BY Zenon, <1>1, <2>2, <2>3, <2>4
  <2>5. CASE ~(CanTransition(id, from) /\ v \in Group(id))
    BY Zenon, <1>1, <2>2, <2>3, <2>5
  <2> QED BY Zenon, <2>4, <2>5
<1>4. ASSUME told' = told PROVE WokenShape'
  <2>1. ASSUME NEW w \in Waits, wait'[w].woken
        PROVE  /\ wait'[w].state = "settled" /\ wait'[w].delivery # ""
               /\ wait'[w].id \in Waits
               /\ wait'[wait'[w].id].woken /\ wait'[wait'[w].id].id = wait'[w].id
    <3>1. /\ wait[w].woken /\ wait[w].id \in Waits /\ wait[w].delivery # ""
          /\ wait[w].state = "settled"
          /\ wait[wait[w].id].woken /\ wait[wait[w].id].id = wait[w].id
      BY Zenon, <1>1, <2>1 DEF WokenShape
    <3>2. wait'[w].state = "settled" /\ wait'[w].delivery # "" /\ wait'[w].id = wait[w].id
      BY Zenon, <1>1, <3>1
    <3>3. wait'[wait[w].id].woken /\ wait'[wait[w].id].id = wait[wait[w].id].id
      BY Zenon, <1>1, <3>1
    <3> QED BY Zenon, <3>1, <3>2, <3>3
  <2>2. ASSUME NEW w \in Waits, ~wait'[w].woken
        PROVE  wait'[w].delivery = "" /\ told'[w] = 0
    BY ZenonT(60), <1>1, <1>4, <2>2 DEF WokenShape, Group
  <2> QED BY Zenon, <2>1, <2>2 DEF WokenShape
<1>5. \A e \in Entry : EntryShape(e) => EntryShape(e)'
  BY Zenon, <1>1, <1>2 DEF EntryShape, Entry
<1> QED BY Zenon, <1>2, <1>3, <1>4, <1>5

\* A transition that says delivered of a message in its thread, or abandoned of
\* one nobody claimed, keeps what the invariant says of rows and messages, and
\* leaves every message that is about to be sent uncertain.
LEMMA TransitionStep ==
    ASSUME WakeInvariant, NEW id \in Waits, wait[id].woken, wait[id].id = id, NEW from,
           NEW to \in {"sending", "recovery-required", "delivered", "abandoned"},
           to = "delivered" => \E m \in arrived : m.id = id,
           to = "abandoned" => from = "pending",
           TransitionTaskWake(id, from, to), UNCHANGED <<told, flying, arrived>>
    PROVE  /\ SentAtMostOnce' /\ DeliveredIsThere' /\ GroupMovesTogether'
           /\ WokenShape' /\ SentIsClaimed' /\ MessageShape'
           /\ \A e \in Entry : EntryShape(e) => EntryShape(e)'
           /\ \A r \in Runners : runner[r].pc = "claimed" =>
                \A w \in runner[r].entry.members : told'[w] = 0 /\ Uncertain(w)'
<1> USE DEF WakeInvariant
<1>1. \A w \in Waits :
        /\ wait'[w].woken <=> wait[w].woken
        /\ wait'[w].id = wait[w].id /\ wait'[w].wakeRev = wait[w].wakeRev
        /\ wait'[w].state = wait[w].state
        /\ CanTransition(id, from) /\ w \in Group(id) => wait'[w].delivery = to
        /\ ~CanTransition(id, from) \/ w \notin Group(id) => wait'[w].delivery = wait[w].delivery
  <2>1. TypeOK /\ to \in Delivery
    BY Zenon DEF Delivery
  <2> QED BY <2>1, TransitionFacts
<1>2. /\ GroupMovesTogether' /\ WokenShape'
      /\ \A i : Group(i)' = Group(i)
      /\ \A e \in Entry : EntryShape(e) => EntryShape(e)'
  BY TransitionKept DEF Delivery
<1>3. id \in Group(id)
  BY DEF Group
<1>4. SentAtMostOnce'
  BY DEF SentAtMostOnce
<1>5. ASSUME NEW w \in Waits, wait'[w].delivery = "delivered"
      PROVE  \E m \in arrived : m.id = wait[w].id /\ w \in m.waits
  <2>1. CASE wait[w].delivery = "delivered"
    BY <2>1 DEF DeliveredIsThere
  <2>2. CASE wait[w].delivery # "delivered"
    <3>1. w \in Group(id) /\ to = "delivered"
      BY SMTT(60), <1>1, <1>5, <2>2
    <3>2. PICK m \in arrived : m.id = id
      BY <3>1
    <3>3. m.waits = Group(id)
      BY SMTT(60), <3>2 DEF MessageShape
    <3> QED BY SMTT(60), <3>1, <3>2, <3>3 DEF Group
  <2> QED BY SMTT(60), <2>1, <2>2
<1>6. DeliveredIsThere'
  BY SMTT(60), <1>1, <1>5 DEF DeliveredIsThere
<1>7. ASSUME NEW w \in Waits, wait'[w].delivery \in {"pending", "abandoned"}
      PROVE  told[w] = 0
  <2>1. CASE wait[w].delivery \in {"pending", "abandoned"}
    BY <2>1 DEF SentIsClaimed
  <2>2. CASE wait[w].delivery \notin {"pending", "abandoned"}
    <3>1. w \in Group(id) /\ CanTransition(id, from) /\ to = "abandoned"
      BY <1>1, <1>7, <2>2
    <3> QED BY SMTT(60), <2>2, <3>1 DEF CanTransition
  <2> QED BY <2>1, <2>2
<1>8. SentIsClaimed'
  BY SMTT(60), <1>7 DEF SentIsClaimed
<1>9. MessageShape'
  <2> SUFFICES ASSUME NEW m \in flying \cup arrived
               PROVE  /\ wait'[m.id].woken /\ wait'[m.id].id = m.id
                      /\ m.waits = Group(m.id)' /\ \A w \in m.waits : told'[w] = 1
    BY DEF MessageShape
  <2>1. m.id \in Waits
    BY SMTT(60) DEF TypeOK, Message
  <2>2. /\ wait[m.id].woken /\ wait[m.id].id = m.id
        /\ m.waits = Group(m.id) /\ \A w \in m.waits : told[w] = 1
    BY DEF MessageShape
  <2> QED BY SMTT(60), <1>1, <1>2, <2>1, <2>2
<1>10. ASSUME NEW r \in Runners, runner[r].pc = "claimed", NEW w \in runner[r].entry.members
       PROVE  told'[w] = 0 /\ Uncertain(w)'
  <2> DEFINE e == runner[r].entry
  <2>1. /\ e.members = Group(e.id) /\ w \in Waits /\ wait[w].id = e.id
        /\ \A v \in Group(e.id) : told[v] = 0 /\ Uncertain(v)
    <3>1. EntryShape(e)
      BY <1>10 DEF EntriesShape
    <3>2. \A v \in e.members : told[v] = 0 /\ Uncertain(v)
      BY SMTT(60), <1>10 DEF ClaimShape
    <3> QED BY SMTT(60), <3>1, <3>2 DEF EntryShape, Group
  <2>2. CASE CanTransition(id, from) /\ w \in Group(id)
    <3>1. id = e.id
      BY SMTT(60), <2>1, <2>2 DEF Group
    <3>2. to # "delivered"
      <4> SUFFICES ASSUME to = "delivered" PROVE FALSE
        OBVIOUS
      <4>1. PICK m \in arrived : m.id = id
        OBVIOUS
      <4>2. told[id] = 1
        BY SMTT(60), <1>3, <4>1 DEF MessageShape
      <4> QED BY SMTT(60), <1>3, <2>1, <3>1, <4>2
    <3>3. to # "abandoned"
      BY SMTT(60), <1>3, <2>1, <2>2, <3>1 DEF CanTransition, Uncertain
    <3> QED BY SMTT(60), <1>1, <2>1, <2>2, <3>2, <3>3 DEF Uncertain
  <2>3. CASE ~(CanTransition(id, from) /\ w \in Group(id))
    BY SMTT(60), <1>1, <2>1, <2>3, <1>10 DEF Uncertain, ClaimShape
  <2> QED BY SMTT(60), <2>2, <2>3
<1> QED BY <1>2, <1>4, <1>6, <1>8, <1>9, <1>10

-----------------------------------------------------------------------------
(* Steps of the runners. *)

\* A runner that goes back to its list, or idle, leaves the claims of the others.
LEMMA BackToList ==
    ASSUME WakeInvariant, NEW r \in Runners, NEW x,
           x.pc = "idle" \/ (/\ x.pc = "list" /\ x.todo \subseteq Entry
                             /\ \A e \in x.todo : EntryShape(e)' /\ e.from # "delivered"
                                                                /\ e.from # "abandoned"),
           runner' = [runner EXCEPT ![r] = x], UNCHANGED arrived,
           \A e \in Entry : EntryShape(e) => EntryShape(e)',
           \A q \in Runners : runner[q].pc = "claimed" =>
                \A w \in runner[q].entry.members : told'[w] = 0 /\ Uncertain(w)'
    PROVE  EntriesShape' /\ ClaimShape' /\ SentShape'
<1> USE DEF WakeInvariant
<1>1. runner'[r] = x /\ \A q \in Runners : q # r => runner'[q] = runner[q]
  BY SMTT(60) DEF TypeOK
<1>2. ASSUME NEW q \in Runners
      PROVE  /\ runner'[q].pc # "idle" => \A e \in runner'[q].todo :
                    EntryShape(e)' /\ e.from # "delivered" /\ e.from # "abandoned"
             /\ runner'[q].pc \in {"claimed", "sent", "failed"} => EntryShape(runner[q].entry)'
  <2>1. CASE q = r
    BY SMTT(60), <1>1, <2>1
  <2>2. CASE q # r
    <3>1. /\ runner[q].pc # "idle" => runner[q].todo \subseteq Entry
          /\ runner[q].pc \in {"claimed", "sent", "failed"} => runner[q].entry \in Entry
      BY SMTT(60), RunnerShape
    <3> QED BY SMTT(60), <1>1, <2>2, <3>1 DEF EntriesShape
  <2> QED BY SMTT(60), <2>1, <2>2
<1>3. EntriesShape'
  BY SMTT(60), <1>2 DEF EntriesShape
<1>4. \A q \in Runners : runner'[q].pc = "claimed" => q # r /\ runner'[q] = runner[q]
  BY SMTT(60), <1>1
<1>5. ClaimShape'
  BY <1>4 DEF ClaimShape
<1>6. SentShape'
  BY <1>1 DEF SentShape
<1> QED BY <1>3, <1>5, <1>6

\* What a runner knows of an entry of its list.
LEMMA ListedEntry ==
    ASSUME WakeInvariant, NEW r \in Runners, runner[r].pc = "list", NEW e \in runner[r].todo
    PROVE  /\ e \in Entry /\ e.id \in Waits /\ EntryShape(e)
           /\ wait[e.id].woken /\ wait[e.id].id = e.id
<1>1. e \in Entry
  BY RunnerShape DEF WakeInvariant
<1>2. EntryShape(e)
  BY SMTT(60) DEF WakeInvariant, EntriesShape
<1> QED BY SMTT(60), <1>1, <1>2 DEF Entry, EntryShape

\* A runner that resolves an entry by a transition and drops it keeps the
\* invariant.
LEMMA DropKept ==
    ASSUME WakeInvariant, NEW r \in Runners, runner[r].pc = "list", NEW e \in runner[r].todo,
           NEW from, NEW to \in {"sending", "recovery-required", "delivered", "abandoned"},
           to = "delivered" => \E m \in arrived : m.id = e.id,
           to = "abandoned" => from = "pending",
           TransitionTaskWake(e.id, from, to), Drop(r, e),
           UNCHANGED <<att, turn, told, flying, arrived>>
    PROVE  WakeInvariant'
<1>1. TypeOK'
  <2>1. wait' \in [Waits -> Wait]
    BY ZenonT(60), TransitionType DEF WakeInvariant, Delivery
  <2>2. runner' \in [Runners -> Runner]
    BY SMTT(60), DropType DEF WakeInvariant
  <2> QED BY <2>1, <2>2 DEF TypeOK, WakeInvariant
<1>2. e \in Entry /\ e.id \in Waits /\ wait[e.id].woken /\ wait[e.id].id = e.id
  BY SMTT(60), ListedEntry
<1>3. /\ SentAtMostOnce' /\ DeliveredIsThere' /\ GroupMovesTogether'
      /\ WokenShape' /\ SentIsClaimed' /\ MessageShape'
      /\ \A f \in Entry : EntryShape(f) => EntryShape(f)'
      /\ \A q \in Runners : runner[q].pc = "claimed" =>
           \A w \in runner[q].entry.members : told'[w] = 0 /\ Uncertain(w)'
  BY SMTT(60), <1>2, TransitionStep
<1> DEFINE rest == runner[r].todo \ {e}
           x == IF rest = {} THEN Idle ELSE [pc |-> "list", todo |-> rest]
<1>4. rest \subseteq Entry
  BY SMTT(30), RunnerShape DEF WakeInvariant
<1>5. \A f \in rest : EntryShape(f)' /\ f.from # "delivered" /\ f.from # "abandoned"
  BY ZenonT(60), <1>3, <1>4 DEF WakeInvariant, EntriesShape
<1>6. x.pc = "idle" \/ (/\ x.pc = "list" /\ x.todo \subseteq Entry
                        /\ \A f \in x.todo : EntryShape(f)' /\ f.from # "delivered"
                                                           /\ f.from # "abandoned")
  <2>1. CASE rest = {}
    BY ZenonT(60), <2>1 DEF Idle
  <2>2. CASE rest # {}
    <3>1. x.pc = "list" /\ x.todo = rest
      BY SMTT(60), <2>2
    <3> QED BY SMTT(60), <1>4, <1>5, <3>1
  <2> QED BY SMTT(30), <2>1, <2>2
<1>7. runner' = [runner EXCEPT ![r] = x]
  BY DEF Drop
<1> HIDE DEF x, rest
<1>8. EntriesShape' /\ ClaimShape' /\ SentShape'
  BY ZenonT(60), <1>3, <1>6, <1>7, BackToList
<1> QED BY SMTT(60), <1>1, <1>3, <1>8 DEF WakeInvariant

\* Observing and abandoning keep the invariant.
LEMMA ResolveKept ==
    ASSUME WakeInvariant, NEW r \in Runners, NEW e,
           (\E found \in BOOLEAN : ObserveWake(r, e, found)) \/ AbandonWake(r, e)
    PROVE  WakeInvariant'
<1>1. ASSUME NEW found \in BOOLEAN, ObserveWake(r, e, found) PROVE WakeInvariant'
  <2> DEFINE to == IF found THEN "delivered" ELSE "recovery-required"
  <2>1. /\ runner[r].pc = "list" /\ e \in runner[r].todo
        /\ TransitionTaskWake(e.id, e.from, to) /\ Drop(r, e)
        /\ UNCHANGED <<att, turn, told, flying, arrived>>
    BY SMTT(60), <1>1 DEF ObserveWake
  <2>2. /\ to \in {"sending", "recovery-required", "delivered", "abandoned"}
        /\ to = "delivered" => \E m \in arrived : m.id = e.id
        /\ to # "abandoned"
    BY SMTT(60), <1>1 DEF ObserveWake, Found
  <2> HIDE DEF to
  <2> QED BY SMTT(60), <2>1, <2>2, DropKept
<1>2. ASSUME AbandonWake(r, e) PROVE WakeInvariant'
  <2>1. /\ runner[r].pc = "list" /\ e \in runner[r].todo
        /\ TransitionTaskWake(e.id, "pending", "abandoned") /\ Drop(r, e)
        /\ UNCHANGED <<att, turn, told, flying, arrived>>
    BY <1>2 DEF AbandonWake
  <2> QED BY SMTT(60), <2>1, DropKept
<1> QED BY SMTT(60), <1>1, <1>2

\* A claim keeps the invariant: its message is pending, so nobody else claimed it.
LEMMA ClaimKept ==
    ASSUME WakeInvariant, NEW r \in Runners, NEW e, ClaimWake(r, e)
    PROVE  WakeInvariant'
<1>1. /\ runner[r].pc = "list" /\ e \in runner[r].todo
      /\ TransitionTaskWake(e.id, "pending", "sending")
      /\ UNCHANGED <<att, turn, told, flying, arrived>>
  BY SMTT(60) DEF ClaimWake
<1>2. CASE ~CanTransition(e.id, "pending")
  <2>1. Drop(r, e)
    BY SMTT(60), <1>2 DEF ClaimWake
  <2> QED BY SMTT(60), <1>1, <2>1, DropKept
<1>3. CASE CanTransition(e.id, "pending")
  <2> DEFINE x == [pc |-> "claimed", todo |-> runner[r].todo \ {e}, entry |-> e]
  <2>1. runner' = [runner EXCEPT ![r] = x]
    BY SMTT(60), <1>3 DEF ClaimWake
  <2>2. /\ e \in Entry /\ e.id \in Waits /\ wait[e.id].woken /\ wait[e.id].id = e.id
        /\ e.members = Group(e.id) /\ EntryShape(e) /\ runner[r].todo \subseteq Entry
    BY SMTT(60), <1>1, ListedEntry, RunnerShape DEF EntryShape, WakeInvariant
  <2>3. TypeOK /\ TypeOK'
    <3>1. wait' \in [Waits -> Wait]
      BY ZenonT(60), <1>1, TransitionType DEF WakeInvariant, Delivery
    <3>2. x \in Runner
      BY SMTT(60), <2>2 DEF Runner
    <3> QED BY <1>1, <2>1, <3>1, <3>2 DEF TypeOK, WakeInvariant
  <2>4. x.pc = "claimed" /\ x.entry = e /\ x.todo = runner[r].todo \ {e}
    OBVIOUS
  <2> HIDE DEF x
  <2>5. runner'[r] = x /\ \A q \in Runners : q # r => runner'[q] = runner[q]
    BY SMTT(60), <2>1, <2>3 DEF TypeOK
  <2>6. /\ SentAtMostOnce' /\ DeliveredIsThere' /\ GroupMovesTogether'
        /\ WokenShape' /\ SentIsClaimed' /\ MessageShape'
        /\ \A f \in Entry : EntryShape(f) => EntryShape(f)'
        /\ \A q \in Runners : runner[q].pc = "claimed" =>
             \A w \in runner[q].entry.members : told'[w] = 0 /\ Uncertain(w)'
    BY SMTT(60), <1>1, <2>2, TransitionStep
  <2>7. \A w \in Group(e.id) : wait[w].delivery = "pending" /\ told[w] = 0
    BY SMTT(60), <1>3 DEF CanTransition, WakeInvariant, SentIsClaimed, Group
  <2>8. \A w \in Group(e.id) : told'[w] = 0 /\ Uncertain(w)'
    <3>1. \A w \in Waits : w \in Group(e.id) => wait'[w].delivery = "sending"
      <4>1. "sending" \in Delivery
        BY SMTT(60) DEF Delivery
      <4>2. \A w \in Waits : CanTransition(e.id, "pending") /\ w \in Group(e.id) =>
                                 wait'[w].delivery = "sending"
        BY SMTT(60), <1>1, <2>2, <2>3, <4>1, TransitionFacts
      <4> QED BY <1>3, <4>2
    <3> QED BY <1>1, <2>7, <3>1 DEF Uncertain, Group
  <2>9. \A q \in Runners : runner[q].pc = "claimed" => runner[q].entry.id # e.id
    <3> SUFFICES ASSUME NEW q \in Runners, runner[q].pc = "claimed", runner[q].entry.id = e.id
                 PROVE  FALSE
      OBVIOUS
    <3>1. runner[q].entry.members = Group(e.id)
      BY SMTT(60) DEF WakeInvariant, EntriesShape, EntryShape
    <3>2. e.id \in Group(e.id)
      BY SMTT(60), <2>2 DEF Group
    <3>3. Uncertain(e.id)
      BY SMTT(60), <3>1, <3>2 DEF WakeInvariant, ClaimShape
    <3> QED BY <2>7, <3>2, <3>3 DEF Uncertain
  <2>10. EntriesShape'
    <3>1. ASSUME NEW q \in Runners
          PROVE  /\ runner'[q].pc # "idle" => \A f \in runner'[q].todo :
                      EntryShape(f)' /\ f.from # "delivered" /\ f.from # "abandoned"
                 /\ runner'[q].pc \in {"claimed", "sent", "failed"} => EntryShape(runner[q].entry)'
      <4>1. CASE q = r
        <5>1. \A f \in x.todo : EntryShape(f) /\ f.from # "delivered" /\ f.from # "abandoned"
          BY SMTT(60), <1>1, <2>4 DEF WakeInvariant, EntriesShape
        <5> QED BY SMTT(60), <2>2, <2>4, <2>5, <2>6, <4>1, <5>1
      <4>2. CASE q # r
        <5>1. /\ runner[q].pc # "idle" => runner[q].todo \subseteq Entry
              /\ runner[q].pc \in {"claimed", "sent", "failed"} => runner[q].entry \in Entry
          BY SMTT(60), <2>3, RunnerShape
        <5> QED BY SMTT(60), <2>5, <2>6, <4>2, <5>1 DEF EntriesShape, WakeInvariant
      <4> QED BY SMTT(60), <4>1, <4>2
    <3> QED BY SMTT(60), <3>1 DEF EntriesShape
  <2>11. ClaimShape'
    <3>1. \A q \in Runners : runner'[q].pc = "claimed" =>
            \A w \in runner'[q].entry.members : told'[w] = 0 /\ Uncertain(w)'
      <4> SUFFICES ASSUME NEW q \in Runners, runner'[q].pc = "claimed",
                          NEW w \in runner'[q].entry.members
                   PROVE  told'[w] = 0 /\ Uncertain(w)'
        OBVIOUS
      <4>1. CASE q = r
        BY SMTT(60), <2>2, <2>4, <2>5, <2>8, <4>1
      <4>2. CASE q # r
        BY SMTT(60), <2>5, <2>6, <4>2
      <4> QED BY SMTT(60), <4>1, <4>2
    <3>2. \A p, q \in Runners :
            runner'[p].pc = "claimed" /\ runner'[q].pc = "claimed" /\ q # p =>
               runner'[q].entry.id # runner'[p].entry.id
      <4> SUFFICES ASSUME NEW p \in Runners, NEW q \in Runners, runner'[p].pc = "claimed",
                          runner'[q].pc = "claimed", q # p
                   PROVE  runner'[q].entry.id # runner'[p].entry.id
        OBVIOUS
      <4>1. CASE p = r \/ q = r
        BY SMTT(60), <2>4, <2>5, <2>9, <4>1
      <4>2. CASE p # r /\ q # r
        <5>1. runner'[p] = runner[p] /\ runner'[q] = runner[q]
          BY SMTT(60), <2>5, <4>2
        <5> QED BY SMTT(60), <5>1 DEF ClaimShape, WakeInvariant
      <4> QED BY SMTT(60), <4>1, <4>2
    <3> QED BY SMTT(60), <3>1, <3>2 DEF ClaimShape
  <2>12. SentShape'
    BY <1>1, <2>4, <2>5 DEF SentShape, WakeInvariant
  <2> QED BY SMTT(60), <2>3, <2>6, <2>10, <2>11, <2>12 DEF WakeInvariant
<1> QED BY SMTT(60), <1>2, <1>3

\* A send keeps the invariant: its outcomes were never sent, and now are.
LEMMA SendKept ==
    ASSUME WakeInvariant, NEW r \in Runners, NEW result \in {"ok", "lost", "late"},
           SendWake(r, result)
    PROVE  WakeInvariant'
<1> DEFINE e == runner[r].entry
           m == [id |-> e.id, waits |-> e.members, thread |-> e.thread]
<1>1. /\ runner[r].pc = "claimed" /\ wait' = wait /\ att' = att
      /\ told' = [w \in Waits |-> IF w \in e.members THEN told[w] + 1 ELSE told[w]]
      /\ arrived' = IF result = "ok" THEN arrived \cup {m} ELSE arrived
      /\ flying' = IF result = "late" THEN flying \cup {m} ELSE flying
      /\ IF result = "ok" THEN StartTurn(m) ELSE turn' = turn
      /\ runner' = [runner EXCEPT ![r].pc = IF result = "ok" THEN "sent" ELSE "failed"]
  BY SMTT(60) DEF SendWake
<1>2. /\ e \in Entry /\ e.id \in Waits /\ EntryShape(e)
      /\ e.members = Group(e.id) /\ e.members \subseteq Waits
      /\ wait[e.id].woken /\ wait[e.id].id = e.id /\ runner[r].todo \subseteq Entry
  <2>1. e \in Entry /\ runner[r].todo \subseteq Entry
    BY <1>1, RunnerShape DEF WakeInvariant
  <2>2. EntryShape(e)
    BY SMTT(60), <1>1 DEF WakeInvariant, EntriesShape
  <2> QED BY SMTT(60), <2>1, <2>2 DEF Entry, EntryShape
<1>3. m \in Message /\ m.id = e.id /\ m.waits = e.members /\ Of[m.id] \in Attempts
  <2>1. e.thread \in Nat
    BY SMTT(60), <1>2 DEF Entry
  <2>2. m.id = e.id /\ m.waits = e.members
    OBVIOUS
  <2>3. m \in Message
    BY SMTT(60), <1>2, <2>1 DEF Message
  <2> HIDE DEF m
  <2> QED BY SMTT(60), <1>2, <2>2, <2>3, OfAssumption
<1>4. \A w \in e.members : told[w] = 0 /\ Uncertain(w)
  BY <1>1 DEF WakeInvariant, ClaimShape
<1> HIDE DEF m
<1>5. \A w \in Waits : told'[w] = IF w \in e.members THEN 1 ELSE told[w]
  BY <1>1, <1>4
<1>6. runner' = [runner EXCEPT ![r] = [runner[r] EXCEPT !.pc = IF result = "ok" THEN "sent" ELSE "failed"]]
  BY <1>1 DEF WakeInvariant, TypeOK
<1>7. /\ runner'[r].pc = (IF result = "ok" THEN "sent" ELSE "failed")
      /\ runner'[r].todo = runner[r].todo /\ runner'[r].entry = e /\ runner'[r] \in Runner
      /\ \A q \in Runners : q # r => runner'[q] = runner[q]
  <2>1. runner[r] \in [pc : {"claimed", "sent", "failed"}, todo : SUBSET Entry, entry : Entry]
    BY <1>1, RunnerShape DEF WakeInvariant
  <2> QED BY <1>6, <2>1 DEF WakeInvariant, TypeOK, Runner
<1> HIDE DEF e
<1>8. TypeOK'
  <2>1. runner' \in [Runners -> Runner]
    BY <1>6, <1>7 DEF WakeInvariant, TypeOK
  <2>2. told' \in [Waits -> Nat]
    BY <1>1, <1>5 DEF WakeInvariant, TypeOK
  <2>3. turn' \in [Attempts -> Turn]
    BY <1>1, <1>3 DEF WakeInvariant, TypeOK, StartTurn, Turn
  <2>4. flying' \subseteq Message /\ arrived' \subseteq Message
    BY <1>1, <1>3 DEF WakeInvariant, TypeOK
  <2> QED BY <1>1, <2>1, <2>2, <2>3, <2>4 DEF WakeInvariant, TypeOK
<1>9. SentAtMostOnce' /\ DeliveredIsThere' /\ GroupMovesTogether'
  BY <1>1, <1>5 DEF WakeInvariant, SentAtMostOnce, DeliveredIsThere, GroupMovesTogether
<1>10. WokenShape'
  <2>1. \A w \in e.members : wait[w].woken
    BY <1>2 DEF Group
  <2> QED BY ZenonT(60), <1>1, <1>5, <2>1 DEF WakeInvariant, WokenShape
<1>11. SentIsClaimed'
  BY <1>1, <1>4, <1>5 DEF WakeInvariant, SentIsClaimed, Uncertain
<1>12. \A i : Group(i)' = Group(i)
  BY <1>1 DEF Group
<1>13. \A f : EntryShape(f) => EntryShape(f)'
  BY SMTT(60), <1>1, <1>12 DEF EntryShape
<1>14. EntriesShape'
  <2>1. ASSUME NEW q \in Runners
        PROVE  /\ runner'[q].pc # "idle" => \A f \in runner'[q].todo :
                    EntryShape(f)' /\ f.from # "delivered" /\ f.from # "abandoned"
               /\ runner'[q].pc \in {"claimed", "sent", "failed"} => EntryShape(runner[q].entry)'
    <3>1. CASE q = r
      BY SMTT(60), <1>1, <1>2, <1>7, <1>13, <3>1 DEF WakeInvariant, EntriesShape
    <3>2. CASE q # r
      BY SMTT(60), <1>7, <1>13, <3>2 DEF WakeInvariant, EntriesShape
    <3> QED BY <3>1, <3>2
  <2> QED BY SMTT(60), <2>1 DEF EntriesShape
<1>15. ClaimShape'
  <2>1. ASSUME NEW q \in Runners, runner'[q].pc = "claimed"
        PROVE  /\ runner'[q] = runner[q] /\ q # r
               /\ \A w \in runner'[q].entry.members : told'[w] = 0 /\ Uncertain(w)'
    <3>1. q # r /\ runner'[q] = runner[q] /\ runner[q].pc = "claimed"
      BY <1>7, <2>1
    <3>2. runner[q].entry.id # e.id
      BY SMTT(60), <1>1, <3>1 DEF WakeInvariant, ClaimShape, e
    <3>3. runner[q].entry.members = Group(runner[q].entry.id)
      BY SMTT(60), <3>1 DEF WakeInvariant, EntriesShape, EntryShape
    <3>4. \A w \in runner[q].entry.members : w \in Waits /\ w \notin e.members
      BY SMTT(60), <1>2, <3>2, <3>3 DEF Group
    <3> QED BY <1>1, <1>5, <3>1, <3>4 DEF WakeInvariant, ClaimShape, Uncertain
  <2>2. \A p, q \in Runners :
          runner'[p].pc = "claimed" /\ runner'[q].pc = "claimed" /\ q # p =>
             runner'[q].entry.id # runner'[p].entry.id
    <3> SUFFICES ASSUME NEW p \in Runners, NEW q \in Runners, runner'[p].pc = "claimed",
                        runner'[q].pc = "claimed", q # p
                 PROVE  runner'[q].entry.id # runner'[p].entry.id
      OBVIOUS
    <3>1. runner'[p] = runner[p] /\ runner'[q] = runner[q]
      BY SMTT(60), <2>1
    <3> QED BY SMTT(60), <3>1 DEF WakeInvariant, ClaimShape
  <2> QED BY <2>1, <2>2 DEF ClaimShape
<1>16. MessageShape'
  <2> SUFFICES ASSUME NEW n \in flying' \cup arrived'
               PROVE  /\ wait'[n.id].woken /\ wait'[n.id].id = n.id
                      /\ n.waits = Group(n.id)' /\ \A w \in n.waits : told'[w] = 1
    BY DEF MessageShape
  <2>1. CASE n = m
    BY SMTT(60), <1>1, <1>2, <1>3, <1>5, <1>12, <2>1
  <2>2. CASE n # m
    <3>1. n \in flying \cup arrived
      BY SMTT(60), <1>1, <2>2
    <3>2. /\ wait[n.id].woken /\ wait[n.id].id = n.id
          /\ n.waits = Group(n.id) /\ \A w \in n.waits : told[w] = 1
      BY SMTT(60), <3>1 DEF WakeInvariant, MessageShape
    <3>3. \A w \in n.waits : w \in Waits /\ w \notin e.members
      BY SMTT(60), <1>4, <3>2 DEF Group
    <3> QED BY <1>1, <1>5, <1>12, <3>2, <3>3
  <2> QED BY SMTT(60), <2>1, <2>2
<1>17. SentShape'
  <2>1. arrived \subseteq arrived' /\ (result = "ok" => m \in arrived')
    BY SMTT(60), <1>1
  <2>2. ASSUME NEW q \in Runners, runner'[q].pc = "sent"
        PROVE  \E n \in arrived' : n.id = runner'[q].entry.id
    <3>1. CASE q = r
      BY SMTT(60), <1>3, <1>7, <2>1, <2>2, <3>1
    <3>2. CASE q # r
      BY SMTT(60), <1>7, <2>1, <2>2, <3>2 DEF WakeInvariant, SentShape
    <3> QED BY SMTT(60), <3>1, <3>2
  <2> QED BY <2>2 DEF SentShape
<1> QED BY SMTT(60), <1>8, <1>9, <1>10, <1>11, <1>14, <1>15, <1>16, <1>17 DEF WakeInvariant

\* What a sender records of its send keeps the invariant.
LEMMA RecordKept ==
    ASSUME WakeInvariant, NEW r \in Runners, RecordWake(r)
    PROVE  WakeInvariant'
<1> DEFINE e == runner[r].entry
           to == IF runner[r].pc = "sent" THEN "delivered" ELSE "recovery-required"
           x == IF runner[r].todo = {} THEN Idle ELSE [pc |-> "list", todo |-> runner[r].todo]
<1>1. /\ runner[r].pc \in {"sent", "failed"} /\ TransitionTaskWake(e.id, "sending", to)
      /\ runner' = [runner EXCEPT ![r] = x]
      /\ UNCHANGED <<att, turn, told, flying, arrived>>
  BY SMTT(60) DEF RecordWake
<1>2. e \in Entry /\ runner[r].todo \subseteq Entry
  BY SMTT(60), <1>1, RunnerShape DEF WakeInvariant
<1>3. e.id \in Waits /\ wait[e.id].woken /\ wait[e.id].id = e.id
  BY SMTT(60), <1>1, <1>2 DEF WakeInvariant, EntriesShape, EntryShape, Entry
<1>4. /\ to \in {"sending", "recovery-required", "delivered", "abandoned"}
      /\ to = "delivered" => \E m \in arrived : m.id = e.id
      /\ to # "abandoned" /\ to \in Delivery
  BY SMTT(60) DEF WakeInvariant, SentShape, Delivery
<1>5. x \in Runner
  BY SMTT(60), <1>2 DEF Runner, Idle
<1>6. x.pc = "idle" \/ (x.pc = "list" /\ x.todo = runner[r].todo)
  BY DEF Idle
<1> HIDE DEF e, to, x
<1>7. TypeOK'
  <2>1. wait' \in [Waits -> Wait]
    BY SMTT(60), <1>1, <1>4, TransitionType DEF WakeInvariant
  <2> QED BY SMTT(60), <1>1, <1>5, <2>1 DEF WakeInvariant, TypeOK
<1>8. /\ SentAtMostOnce' /\ DeliveredIsThere' /\ GroupMovesTogether'
      /\ WokenShape' /\ SentIsClaimed' /\ MessageShape'
      /\ \A f \in Entry : EntryShape(f) => EntryShape(f)'
      /\ \A q \in Runners : runner[q].pc = "claimed" =>
           \A w \in runner[q].entry.members : told'[w] = 0 /\ Uncertain(w)'
  BY SMTT(30), <1>1, <1>3, <1>4, TransitionStep
<1>9. \A f \in runner[r].todo : EntryShape(f)' /\ f.from # "delivered" /\ f.from # "abandoned"
  BY ZenonT(60), <1>1, <1>2, <1>8 DEF WakeInvariant, EntriesShape
<1>10. x.pc = "idle" \/ (/\ x.pc = "list" /\ x.todo \subseteq Entry
                         /\ \A f \in x.todo : EntryShape(f)' /\ f.from # "delivered"
                                                            /\ f.from # "abandoned")
  BY <1>2, <1>6, <1>9
<1>11. EntriesShape' /\ ClaimShape' /\ SentShape'
  BY ZenonT(60), <1>1, <1>8, <1>10, BackToList
<1> QED BY SMTT(60), <1>7, <1>8, <1>11 DEF WakeInvariant

\* Listing keeps the invariant: what it closes is pending, whole groups at a time.
LEMMA ListKept ==
    ASSUME WakeInvariant, NEW r \in Runners, TaskWakesAwaitingDelivery(r)
    PROVE  WakeInvariant'
<1> DEFINE todo == {[id |-> wait[w].id, members |-> Group(wait[w].id),
                     from |-> wait[w].delivery, thread |-> att[Of[w]].thread] : w \in Listed}
           x == IF Listed = {} THEN Idle ELSE [pc |-> "list", todo |-> todo]
<1>1. /\ runner' = [runner EXCEPT ![r] = x]
      /\ UNCHANGED <<att, turn, told, flying, arrived>>
  BY DEF TaskWakesAwaitingDelivery
<1> HIDE DEF todo, x
<1>2. TypeOK /\ WokenShape /\ GroupMovesTogether
  BY DEF WakeInvariant
<1>3. ASSUME NEW w \in Waits
      PROVE  /\ wait'[w] \in Wait
             /\ wait'[w].woken <=> wait[w].woken
             /\ wait'[w].id = wait[w].id /\ wait'[w].wakeRev = wait[w].wakeRev
             /\ wait'[w].state = wait[w].state
             /\ w \in Closed => wait'[w].delivery = "abandoned" /\ wait[w].delivery = "pending"
                                /\ wait[w].woken
             /\ w \notin Closed => wait'[w].delivery = wait[w].delivery
  <2>1. wait[w] \in Wait
    BY <1>2 DEF TypeOK
  <2>2. CASE w \in Closed
    <3>1. wait'[w] = [wait[w] EXCEPT !.delivery = "abandoned"]
      BY SMTT(30), <2>2 DEF TaskWakesAwaitingDelivery
    <3>2. wait[w].delivery = "pending" /\ wait[w].woken
      BY Zenon, <2>2 DEF Closed, Undelivered, Uncertain
    <3> QED BY Zenon, <2>1, <2>2, <3>1, <3>2 DEF Wait, Delivery
  <2>3. CASE w \notin Closed
    BY SMTT(60), <2>1, <2>3 DEF TaskWakesAwaitingDelivery
  <2> QED BY Zenon, <2>2, <2>3
<1>4. ASSUME NEW v \in Waits, NEW w \in Waits, wait[v].woken, wait[w].woken,
             wait[v].id = wait[w].id
      PROVE  v \in Closed <=> w \in Closed
  BY SMTT(60), <1>2, <1>4 DEF GroupMovesTogether, Closed, Undelivered, Uncertain, StaleWake
<1>5. GroupMovesTogether'
  <2> SUFFICES ASSUME NEW v \in Waits, NEW w \in Waits,
                      wait'[v].woken, wait'[w].woken, wait'[v].id = wait'[w].id
               PROVE  /\ wait'[v].delivery = wait'[w].delivery
                      /\ wait'[v].wakeRev = wait'[w].wakeRev /\ Of[v] = Of[w]
    BY SMTT(60) DEF GroupMovesTogether
  <2>1. wait[v].woken /\ wait[w].woken /\ wait[v].id = wait[w].id
    BY SMTT(60), <1>3
  <2>2. v \in Closed <=> w \in Closed
    BY SMTT(60), <1>4, <2>1
  <2>3. /\ wait[v].delivery = wait[w].delivery /\ wait[v].wakeRev = wait[w].wakeRev
        /\ Of[v] = Of[w]
    BY <1>2, <2>1 DEF GroupMovesTogether
  <2> QED BY SMTT(60), <1>3, <2>2, <2>3
<1>6. WokenShape'
  <2>1. ASSUME NEW w \in Waits, wait'[w].woken
        PROVE  /\ wait'[w].state = "settled" /\ wait'[w].delivery # ""
               /\ wait'[w].id \in Waits
               /\ wait'[wait'[w].id].woken /\ wait'[wait'[w].id].id = wait'[w].id
    <3>1. /\ wait[w].woken /\ wait[w].id \in Waits /\ wait[w].delivery # ""
          /\ wait[w].state = "settled"
          /\ wait[wait[w].id].woken /\ wait[wait[w].id].id = wait[w].id
      BY Zenon, <1>2, <1>3, <2>1 DEF WokenShape
    <3>2. wait'[w].state = "settled" /\ wait'[w].delivery # "" /\ wait'[w].id = wait[w].id
      BY Zenon, <1>3, <3>1
    <3>3. wait'[wait[w].id].woken /\ wait'[wait[w].id].id = wait[wait[w].id].id
      BY Zenon, <1>3, <3>1
    <3> QED BY Zenon, <3>1, <3>2, <3>3
  <2>2. ASSUME NEW w \in Waits, ~wait'[w].woken
        PROVE  wait'[w].delivery = "" /\ told'[w] = 0
    <3>1. ~wait[w].woken /\ w \notin Closed
      BY <1>3, <2>2
    <3>2. wait[w].delivery = "" /\ told[w] = 0
      BY ZenonT(60), <1>2, <3>1 DEF WokenShape
    <3>3. wait'[w].delivery = wait[w].delivery
      BY SMTT(60), <1>3, <3>1
    <3> QED BY ZenonT(60), <1>1, <3>2, <3>3
  <2> QED BY Zenon, <2>1, <2>2 DEF WokenShape
<1>7. SentAtMostOnce' /\ DeliveredIsThere' /\ SentIsClaimed'
  BY SMTT(60), <1>1, <1>3 DEF WakeInvariant, SentAtMostOnce, DeliveredIsThere, SentIsClaimed
<1>8. \A i : Group(i)' = Group(i)
  BY SMTT(60), <1>3 DEF Group
<1>9. \A e \in Entry : EntryShape(e) => EntryShape(e)'
  BY SMTT(60), <1>3, <1>8 DEF EntryShape, Entry
<1>10. MessageShape'
  <2>1. \A m \in flying \cup arrived : m.id \in Waits
    BY SMTT(60), <1>2 DEF TypeOK, Message
  <2> QED BY <1>1, <1>3, <1>8, <2>1 DEF WakeInvariant, MessageShape
<1>11. ASSUME NEW q \in Runners, runner[q].pc = "claimed", NEW w \in runner[q].entry.members
       PROVE  told'[w] = 0 /\ Uncertain(w)'
  <2>1. w \in Waits
    BY SMTT(60), <1>2, <1>11, RunnerShape DEF Entry
  <2>2. told[w] = 0 /\ Uncertain(w)
    BY SMTT(60), <1>11 DEF WakeInvariant, ClaimShape
  <2>3. w \notin Closed
    BY SMTT(30), <2>2 DEF Closed
  <2> QED BY SMTT(60), <1>1, <1>3, <2>1, <2>2, <2>3 DEF Uncertain
<1>12. ASSUME NEW e \in todo
       PROVE  /\ e \in Entry /\ EntryShape(e) /\ e.from # "delivered" /\ e.from # "abandoned"
  <2>1. PICK w \in Listed : e = [id |-> wait[w].id, members |-> Group(wait[w].id),
                                 from |-> wait[w].delivery, thread |-> att[Of[w]].thread]
    BY Zenon, <1>12 DEF todo
  <2>2. /\ w \in Waits /\ wait[w].woken /\ wait[w].delivery \in Delivery
        /\ wait[w].delivery # "delivered" /\ wait[w].delivery # "abandoned"
    BY Zenon, <2>1 DEF Listed, Undelivered, Delivery
  <2>3. wait[w].id \in Waits /\ wait[wait[w].id].woken /\ wait[wait[w].id].id = wait[w].id
    BY ZenonT(60), <1>2, <2>2 DEF WokenShape
  <2>4. Group(wait[w].id) \in SUBSET Waits /\ att[Of[w]].thread \in Nat
    BY SMTT(60), <1>2, <2>2, OfAssumption DEF Group, TypeOK, Attempt
  <2>5. e \in Entry
    BY SMTT(60), <2>1, <2>2, <2>3, <2>4 DEF Entry
  <2>6. /\ e.id = wait[w].id /\ e.members = Group(wait[w].id) /\ e.from = wait[w].delivery
    BY SMTT(60), <2>1
  <2> QED BY ZenonT(60), <2>2, <2>3, <2>5, <2>6 DEF EntryShape
<1>13. x \in Runner /\ (x.pc = "idle" \/ (x.pc = "list" /\ x.todo = todo))
  <2>1. todo \in SUBSET Entry
    BY SMTT(60), <1>12
  <2> QED BY SMTT(60), <2>1 DEF x, Runner, Idle
<1>14. x.pc = "idle" \/ (/\ x.pc = "list" /\ x.todo \subseteq Entry
                         /\ \A e \in x.todo : EntryShape(e)' /\ e.from # "delivered"
                                                            /\ e.from # "abandoned")
  BY <1>9, <1>12, <1>13
<1>15. EntriesShape' /\ ClaimShape' /\ SentShape'
  BY ZenonT(60), <1>1, <1>9, <1>11, <1>14, BackToList
<1>16. TypeOK'
  <2>1. wait' \in [Waits -> Wait]
    BY <1>3 DEF TaskWakesAwaitingDelivery
  <2> QED BY <1>1, <1>2, <1>13, <2>1 DEF TypeOK
<1> QED BY <1>5, <1>6, <1>7, <1>10, <1>15, <1>16 DEF WakeInvariant

-----------------------------------------------------------------------------
(* Theorems. *)

\* The invariant holds initially.
LEMMA InitInvariant == Init => WakeInvariant
<1> SUFFICES ASSUME Init PROVE WakeInvariant
  OBVIOUS
<1>1. TypeOK
  BY Zenon DEF Init, TypeOK, Attempt, Progress, Custody, Turn, Wait, Outcome, Delivery, Runner, Idle
<1>2. \A w \in Waits : ~wait[w].woken /\ wait[w].delivery = "" /\ told[w] = 0
  BY Zenon DEF Init
<1>3. \A r \in Runners : runner[r].pc = "idle"
  BY Zenon DEF Init, Idle
<1>4. flying = {} /\ arrived = {}
  BY ZenonT(60) DEF Init
<1>5. SentAtMostOnce /\ SentIsClaimed
  <2>1. \A w \in Waits : told[w] = 0
    BY Zenon DEF Init
  <2>2. \A w \in Waits : told[w] <= 1
    BY <2>1
  <2> QED BY <2>1, <2>2 DEF SentAtMostOnce, SentIsClaimed
<1>6. DeliveredIsThere
  BY Zenon, <1>2 DEF DeliveredIsThere
<1>7. GroupMovesTogether
  BY Zenon, <1>2 DEF GroupMovesTogether
<1>8. WokenShape
  BY ZenonT(60), <1>2 DEF WokenShape
<1>9. EntriesShape /\ ClaimShape /\ MessageShape /\ SentShape
  BY <1>3, <1>4 DEF EntriesShape, ClaimShape, MessageShape, SentShape
<1> QED BY <1>1, <1>5, <1>6, <1>7, <1>8, <1>9 DEF WakeInvariant

\* A step of a runner keeps the invariant.
LEMMA RunnerStepKept ==
    ASSUME WakeInvariant, NEW r \in Runners, RunnerStep(r)
    PROVE  WakeInvariant'
<1>1. CASE TaskWakesAwaitingDelivery(r)
  BY SMTT(60), <1>1, ListKept
<1>2. CASE \E id \in Waits : HandleWake(r, id)
  <2>1. PICK e \in runner[r].todo : HandleEntry(r, e)
    BY <1>2 DEF HandleWake
  <2> QED BY SMTT(60), <2>1, ResolveKept, ClaimKept DEF HandleEntry
<1>3. CASE \E result \in {"ok", "lost", "late"} : SendWake(r, result)
  BY SMTT(60), <1>3, SendKept
<1>4. CASE RecordWake(r)
  BY <1>4, RecordKept
<1>5. CASE GiveUp(r)
  BY <1>5, GiveUpKept
<1> QED BY <1>1, <1>2, <1>3, <1>4, <1>5 DEF RunnerStep

\* Every step keeps the invariant.
LEMMA StepInvariant == WakeInvariant /\ [Next]_vars => WakeInvariant'
<1> SUFFICES ASSUME WakeInvariant, [Next]_vars PROVE WakeInvariant'
  OBVIOUS
<1>1. ASSUME NEW w \in Waits, WaitStep(w) PROVE WakeInvariant'
  BY <1>1, WaitStepKept
<1>2. ASSUME NEW r \in Runners, RunnerStep(r) PROVE WakeInvariant'
  BY <1>2, RunnerStepKept
<1>3. ASSUME NEW m \in flying, Arrive(m) PROVE WakeInvariant'
  BY <1>3, ArriveKept
<1>4. ASSUME NEW a \in Attempts, AttemptStep(a) PROVE WakeInvariant'
  <2>1. CASE WakeTaskWaits(a)
    BY <2>1, WakeKept
  <2>2. CASE \/ TurnEnds(a) \/ ThreadArchived(a) \/ AttemptMoves(a) \/ AttemptEnds(a)
             \/ ExecutionReleased(a) \/ ExecutionClaimed(a)
    <3>1. TypeOK' /\ UNCHANGED <<wait, runner, told, flying, arrived>>
      BY <2>2, AttemptType DEF WakeInvariant
    <3> QED BY SMTT(60), <3>1, RowsKept
  <2> QED BY <1>4, <2>1, <2>2 DEF AttemptStep
<1>5. ASSUME UNCHANGED vars PROVE WakeInvariant'
  <2>1. TypeOK' /\ UNCHANGED <<wait, runner, told, flying, arrived>>
    BY <1>5 DEF vars, WakeInvariant, TypeOK
  <2> QED BY <2>1, RowsKept
<1> QED BY <1>1, <1>2, <1>3, <1>4, <1>5 DEF Next

\* The inductive invariant of waits, messages and runners holds in every state.
THEOREM WakeInvariantHolds == Spec => []WakeInvariant
BY InitInvariant, StepInvariant, PTL DEF Spec

\* Wait rows, attempt rows and what runners read of them are well formed.
THEOREM WakeTypes == Spec => []TypeOK
<1>1. WakeInvariant => TypeOK
  BY DEF WakeInvariant
<1> QED BY <1>1, WakeInvariantHolds, PTL

\* For every number of runners, however they race, crash and read late, the
\* outcome of a wait is handed to the thread service at most once: the durable
\* sending claim of deliverTaskWake is enough.
THEOREM SentOnce == Spec => []SentAtMostOnce
<1>1. WakeInvariant => SentAtMostOnce
  BY DEF WakeInvariant
<1> QED BY <1>1, WakeInvariantHolds, PTL

\* A wake that TransitionTaskWake recorded as delivered is in a thread, in a
\* message that carries the outcome.
THEOREM DeliveredIsTrue == Spec => []DeliveredIsThere
<1>1. WakeInvariant => DeliveredIsThere
  BY DEF WakeInvariant
<1> QED BY <1>1, WakeInvariantHolds, PTL

\* A wake that TaskWakesAwaitingDelivery or a runner closed as abandoned was never
\* handed to the thread service.
THEOREM AbandonedIsTrue == Spec => []AbandonedUnsent
<1>1. WakeInvariant => AbandonedUnsent
  BY DEF WakeInvariant, SentIsClaimed, AbandonedUnsent
<1> QED BY <1>1, WakeInvariantHolds, PTL

\* The waits of one message always have one delivery state.
THEOREM GroupsMoveTogether == Spec => []GroupMovesTogether
<1>1. WakeInvariant => GroupMovesTogether
  BY DEF WakeInvariant
<1> QED BY <1>1, WakeInvariantHolds, PTL

\* A step keeps the outcome of a settled wait and the message of a woken one.
KeepsOutcome ==
    \A w \in Waits :
        /\ wait[w].state = "settled" =>
             wait'[w].state = "settled" /\ wait'[w].outcome = wait[w].outcome
        /\ wait[w].woken =>
             wait'[w].woken /\ wait'[w].id = wait[w].id /\ wait'[w].wakeRev = wait[w].wakeRev

\* Writing delivery states keeps outcomes and messages.
LEMMA DeliveryKeepsOutcome ==
    ASSUME TypeOK, NEW S, NEW d,
           wait' = [w \in Waits |-> IF w \in S THEN [wait[w] EXCEPT !.delivery = d] ELSE wait[w]]
    PROVE  KeepsOutcome
<1>1. ASSUME NEW w \in Waits
      PROVE  /\ wait'[w].state = wait[w].state /\ wait'[w].outcome = wait[w].outcome
             /\ wait'[w].woken <=> wait[w].woken
             /\ wait'[w].id = wait[w].id /\ wait'[w].wakeRev = wait[w].wakeRev
  <2>1. wait[w] \in Wait
    BY DEF TypeOK
  <2>2. wait'[w] = IF w \in S THEN [wait[w] EXCEPT !.delivery = d] ELSE wait[w]
    OBVIOUS
  <2> QED BY Zenon, <2>1, <2>2 DEF Wait
<1> QED BY <1>1 DEF KeepsOutcome

\* Every step keeps outcomes and messages.
LEMMA StepKeepsOutcome ==
    ASSUME WakeInvariant, [Next]_vars
    PROVE  KeepsOutcome
<1>0. TypeOK /\ WokenShape
  BY SMTT(60) DEF WakeInvariant
<1>1. ASSUME NEW v \in Waits, WaitStep(v) PROVE KeepsOutcome
  <2>1. /\ \A w \in Waits : w # v => wait'[w] = wait[w]
        /\ wait[v].state # "settled"
    BY <1>0, <1>1 DEF WaitStep, RegisterTaskWait, SettleTaskWait, ExpireTaskWait, Live, TypeOK
  <2>2. ~wait[v].woken
    BY Zenon, <1>0, <2>1 DEF WokenShape
  <2> QED BY SMTT(60), <2>1, <2>2 DEF KeepsOutcome
<1>2. ASSUME NEW id, NEW from, NEW to, TransitionTaskWake(id, from, to) PROVE KeepsOutcome
  <2>1. CASE wait' = wait
    BY <2>1 DEF KeepsOutcome
  <2>2. CASE Transition(id, to)
    BY ZenonT(60), <1>0, <2>2, DeliveryKeepsOutcome DEF Transition
  <2> QED BY SMTT(60), <1>2, <2>1, <2>2 DEF TransitionTaskWake
<1>3. ASSUME NEW r \in Runners, RunnerStep(r) PROVE KeepsOutcome
  <2>1. CASE TaskWakesAwaitingDelivery(r)
    BY Zenon, <1>0, <2>1, DeliveryKeepsOutcome DEF TaskWakesAwaitingDelivery
  <2>2. CASE \E id \in Waits : HandleWake(r, id)
    BY ZenonT(60), <1>2, <2>2 DEF HandleWake, HandleEntry, ObserveWake, AbandonWake, ClaimWake
  <2>3. CASE RecordWake(r)
    BY SMTT(60), <1>2, <2>3 DEF RecordWake
  <2>4. CASE GiveUp(r) \/ \E result \in {"ok", "lost", "late"} : SendWake(r, result)
    <3>1. wait' = wait
      BY SMTT(60), <2>4 DEF GiveUp, SendWake
    <3> QED BY SMTT(60), <3>1 DEF KeepsOutcome
  <2> QED BY <1>3, <2>1, <2>2, <2>3, <2>4 DEF RunnerStep
<1>4. ASSUME NEW a \in Attempts, WakeTaskWaits(a) PROVE KeepsOutcome
  <2>1. PICK d, n, b : MarkWoken(WakeSet(a), d, n, b)
    BY ZenonT(60), <1>4 DEF WakeTaskWaits, WakeUnparked, WakeAbandoned, WakeResuming
  <2>2. ASSUME NEW w \in Waits
        PROVE  /\ wait[w].state = "settled" =>
                    wait'[w].state = "settled" /\ wait'[w].outcome = wait[w].outcome
               /\ wait[w].woken => w \notin WakeSet(a) /\ wait'[w] = wait[w]
    <3>1. wait[w] \in Wait
      BY <1>0 DEF TypeOK
    <3>2. CASE w \in WakeSet(a)
      <4>1. wait'[w] = [wait[w] EXCEPT !.woken = TRUE, !.delivery = d,
                                       !.id = CHOOSE v \in WakeSet(a) : TRUE,
                                       !.wakeRev = n, !.resumption = b]
        BY ZenonT(60), <2>1, <3>2 DEF MarkWoken
      <4>2. ~wait[w].woken
        BY SMTT(30), <3>2, WakeSetFacts
      <4> QED BY Zenon, <3>1, <4>1, <4>2 DEF Wait
    <3>3. CASE w \notin WakeSet(a)
      BY Zenon, <2>1, <3>3 DEF MarkWoken
    <3> QED BY <3>2, <3>3
  <2> QED BY <2>2 DEF KeepsOutcome
<1>5. ASSUME NEW a \in Attempts, AttemptStep(a) PROVE KeepsOutcome
  <2>1. CASE WakeTaskWaits(a)
    BY SMTT(60), <1>4, <2>1
  <2>2. CASE wait' = wait
    BY <2>2 DEF KeepsOutcome
  <2> QED BY SMTT(60), <1>5, <2>1, <2>2 DEF AttemptStep, TurnEnds, ThreadArchived, AttemptMoves,
                                  AttemptEnds, ExecutionReleased, ExecutionClaimed
<1>6. ASSUME wait' = wait PROVE KeepsOutcome
  BY <1>6 DEF KeepsOutcome
<1> QED BY <1>1, <1>3, <1>5, <1>6 DEF Next, Arrive, vars

\* A wait settles once and wakes once, whoever settles, expires, wakes or delivers.
THEOREM OutcomesAreKept == Spec => OutcomeKept
<1>1. WakeInvariant /\ [Next]_vars => [KeepsOutcome]_vars
  BY StepKeepsOutcome
<1>2. Spec => [][KeepsOutcome]_vars
  BY <1>1, WakeInvariantHolds, PTL DEF Spec
<1> QED BY <1>2 DEF OutcomeKept, KeepsOutcome

=============================================================================
