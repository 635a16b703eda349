--------------------------- MODULE AttemptCustody ---------------------------
(***************************************************************************)
(* What the coordinator's store promises about the custody of an attempt,  *)
(* whatever crosses in flight: a fencing epoch names one worker for good,  *)
(* custody is taken only of a free attempt and under the next epoch, and   *)
(* an execution that completed is never handed out again.                  *)
(***************************************************************************)
EXTENDS Naturals

CONSTANTS Attempts, Workers

VARIABLES
    custody,   \* free, offered, held or settled
    epoch,     \* the fencing epoch of the last offer, 0 before the first
    holder     \* the worker the last offer went to

vars == <<custody, epoch, holder>>

Init ==
    /\ custody = [a \in Attempts |-> "free"]
    /\ epoch = [a \in Attempts |-> 0]
    /\ holder \in [Attempts -> Workers]

Keep(a) == epoch'[a] = epoch[a] /\ holder'[a] = holder[a]

\* An offer takes the next epoch, for any worker.
Offer(a) ==
    /\ custody[a] = "free" /\ custody'[a] = "offered"
    /\ epoch'[a] = epoch[a] + 1
    /\ holder'[a] \in Workers

Withdraw(a) == custody[a] = "offered" /\ custody'[a] = "free" /\ Keep(a)

Claim(a) == custody[a] = "offered" /\ custody'[a] = "held" /\ Keep(a)

Release(a) == custody[a] = "held" /\ custody'[a] = "free" /\ Keep(a)

Settle(a) == custody[a] = "held" /\ custody'[a] = "settled" /\ Keep(a)

Stay(a) == custody'[a] = custody[a] /\ Keep(a)

\* One transaction may move several attempts: a reconciliation is one batch.
Next ==
    /\ custody' \in [Attempts -> {"free", "offered", "held", "settled"}]
    /\ epoch' \in [Attempts -> Nat]
    /\ holder' \in [Attempts -> Workers]
    /\ \A a \in Attempts :
         Offer(a) \/ Withdraw(a) \/ Claim(a) \/ Release(a) \/ Settle(a) \/ Stay(a)

Spec == Init /\ [][Next]_vars

=============================================================================
