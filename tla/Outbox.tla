------------------------------- MODULE Outbox -------------------------------
(***************************************************************************)
(* What the table paperless_tag_jobs promises to whoever writes a row into *)
(* it, with no queue, no worker and no tag: a row is posted, withdrawn by  *)
(* its owner, or delivered.  A delivery marks the row, at most once writes *)
(* its result, and ends; it may end early at any time.  One row has one    *)
(* delivery at a time, a row that was completed or withdrawn is not        *)
(* delivered again, and it is sent back at most MaxRetries times.          *)
(*                                                                         *)
(* Rows move on their own, several of them in a step where a transaction   *)
(* or a handler touches several.                                           *)
(***************************************************************************)
EXTENDS Naturals

CONSTANTS Jobs, MaxRetries

VARIABLES
    status,     \* the rows
    retries,    \* how often each was sent back
    delivery    \* "none", or how far the delivery of the row is

outboxVars == <<status, retries, delivery>>

Settled == {"COMPLETED", "FAILED", "SKIPPED"}

OutboxInit ==
    /\ status = [j \in Jobs |-> "absent"]
    /\ retries = [j \in Jobs |-> 0]
    /\ delivery = [j \in Jobs |-> "none"]

\* Row j goes from one of `before` to one of `after`.
Turns(j, before, after) == status[j] \in before /\ status'[j] \in after
Holds(j, before, after) == delivery[j] \in before /\ delivery'[j] \in after
Counter(j, n) == retries'[j] = n

Post(j) ==
    Turns(j, {"absent"}, {"PENDING"}) /\ Holds(j, {"none"}, {"none"}) /\ Counter(j, 0)

\* The owner does not ask whether the row is being delivered.
Withdraw(j) ==
    /\ Turns(j, {"PENDING", "RUNNING"}, {"SKIPPED"})
    /\ delivery'[j] = delivery[j]
    /\ Counter(j, retries[j])

Begin(j) ==
    /\ Turns(j, {"PENDING", "RUNNING", "FAILED"}, {status[j]})
    /\ Holds(j, {"none"}, {"begun"})
    /\ Counter(j, retries[j])

\* There is nothing left to do for the row.
Skip(j) ==
    /\ Turns(j, {"PENDING", "RUNNING", "FAILED"}, {"SKIPPED"})
    /\ Holds(j, {"none"}, {"none"})
    /\ Counter(j, retries[j])

Mark(j) ==
    /\ Turns(j, {"PENDING", "RUNNING", "FAILED", "SKIPPED"}, {"RUNNING"})
    /\ Holds(j, {"begun"}, {"marked"})
    /\ Counter(j, retries[j])

\* The result is written over a withdrawal; what is left to do after it
\* belongs to the same delivery.
Finish(j) ==
    /\ Turns(j, {"RUNNING", "SKIPPED"}, Settled)
    /\ Holds(j, {"marked"}, {"none", "written"})
    /\ Counter(j, retries[j])

SendBack(j) ==
    /\ retries[j] < MaxRetries
    /\ Turns(j, {"RUNNING", "SKIPPED"}, {"PENDING"})
    /\ Holds(j, {"marked"}, {"none"})
    /\ Counter(j, retries[j] + 1)

\* The delivery is over, or its worker is gone.
Leave(j) ==
    /\ status'[j] = status[j]
    /\ Holds(j, {"begun", "marked", "written"}, {"none"})
    /\ Counter(j, retries[j])

Forget(j) ==
    Turns(j, Settled, {"absent"}) /\ Holds(j, {"none"}, {"none"}) /\ Counter(j, 0)

Rest(j) == status'[j] = status[j] /\ delivery'[j] = delivery[j] /\ Counter(j, retries[j])

OutboxNext ==
    \A j \in Jobs :
        \/ Post(j) \/ Withdraw(j) \/ Begin(j) \/ Skip(j) \/ Mark(j)
        \/ Finish(j) \/ SendBack(j) \/ Leave(j) \/ Forget(j) \/ Rest(j)

OutboxSpec == OutboxInit /\ [][OutboxNext]_outboxVars

=============================================================================
