---------------------------- MODULE AiExtraction ----------------------------
(***************************************************************************)
(* AI extraction for one policy: AiAssistService.startExtraction and       *)
(* extractNow write rows of ai_extraction_jobs and push them to BullMQ,    *)
(* AiExtractionProcessor works on them in the slots of one worker process, *)
(* MonitoringService lets an administrator retry what BullMQ counts as     *)
(* failed, and deleting the policy deletes its rows.                       *)
(*                                                                         *)
(* process() catches every exception and returns, so for BullMQ all its    *)
(* jobs succeed.  Only an exception inside its own catch block, or a job   *)
(* that stalls twice, is a failed job.  The documents, the prompt and the  *)
(* extracted facts are left out: what counts is whether there is text to   *)
(* send and whether the provider answers with facts.                       *)
(***************************************************************************)
EXTENDS Naturals, FiniteSets

CONSTANTS
    Rows,           \* ids of rows of ai_extraction_jobs; an id is used once
    Calls,          \* startExtraction requests under way at a time
    Concurrency,    \* slots of the worker (2)
    None,           \* no row
    MaxRetries,     \* maxRetries of a row (3)
    MaxCrashes      \* bound on crashes of the worker

ASSUME ExtractionAssumption ==
    /\ MaxRetries \in Nat
    /\ Concurrency \in Nat
    /\ MaxCrashes \in Nat
    /\ None \notin Rows
    /\ IsFiniteSet(Calls)

VARIABLES
    policy,     \* the policy exists
    rows,       \* ai_extraction_jobs: status and retryCount
    bull,       \* the BullMQ job of each row
    call,       \* startExtraction requests
    work,       \* where the worker's handler of each row is
    crashes     \* crashes of the worker so far

vars == <<policy, rows, bull, call, work, crashes>>

Active == {"PENDING", "RUNNING"}
Settled == {"COMPLETED", "FAILED", "SKIPPED"}

Row == [status : Active \cup Settled \cup {"absent", "deleted"}, retries : 0..MaxRetries]
BullJob ==
    [state : {"none", "waiting", "active", "completed", "failed"},
     stalled : BOOLEAN,     \* has stalled once already
     again : BOOLEAN]       \* is delivered, or will be, for a second time
Call == [phase : {"idle", "checked", "created"}, row : Rows \cup {None}]
Handler == {"none", "taken", "running", "catch", "done"}

NoCall == [phase |-> "idle", row |-> None]

ActiveRows == {r \in Rows : rows[r].status \in Active}
Exists(r) == rows[r].status \in Active \cup Settled

Init ==
    /\ policy = TRUE
    /\ rows = [r \in Rows |-> [status |-> "absent", retries |-> 0]]
    /\ bull = [r \in Rows |-> [state |-> "none", stalled |-> FALSE, again |-> FALSE]]
    /\ call = [c \in Calls |-> NoCall]
    /\ work = [r \in Rows |-> "none"]
    /\ crashes = 0

-----------------------------------------------------------------------------
(* The API.                                                                *)

\* Broken variant: only a running extraction keeps another one from starting.
NoneActiveIfPending == \A r \in Rows : rows[r].status # "RUNNING"

NoneActive == ActiveRows = {}

\* An active row is returned instead of a new one; that request does nothing more.
StartExtraction(c) ==
    /\ call[c].phase = "idle"
    /\ policy /\ NoneActive
    /\ call' = [call EXCEPT ![c].phase = "checked"]
    /\ UNCHANGED <<policy, rows, bull, work, crashes>>

\* The row refers to the policy.
CreateRow(c, r) ==
    /\ call[c].phase = "checked"
    /\ policy /\ rows[r].status = "absent"
    /\ rows' = [rows EXCEPT ![r].status = "PENDING"]
    /\ call' = [call EXCEPT ![c] = [phase |-> "created", row |-> r]]
    /\ UNCHANGED <<policy, bull, work, crashes>>

PushRow(c) ==
    /\ call[c].phase = "created"
    /\ bull' = [bull EXCEPT ![call[c].row].state = "waiting"]
    /\ call' = [call EXCEPT ![c] = NoCall]
    /\ UNCHANGED <<policy, rows, work, crashes>>

\* The request throws, the push included, or its process dies.
AbandonCall(c) ==
    /\ call[c].phase # "idle"
    /\ call' = [call EXCEPT ![c] = NoCall]
    /\ UNCHANGED <<policy, rows, bull, work, crashes>>

\* A synchronous extraction stores its result in a row of its own.
ExtractNow(r) ==
    /\ policy /\ rows[r].status = "absent"
    /\ rows' = [rows EXCEPT ![r].status = "COMPLETED"]
    /\ UNCHANGED <<policy, bull, call, work, crashes>>

RetryFailedJob(r) ==
    /\ bull[r].state = "failed"
    /\ bull' = [bull EXCEPT ![r].state = "waiting", ![r].again = TRUE]
    /\ UNCHANGED <<policy, rows, call, work, crashes>>

\* The rows go with their policy, the BullMQ jobs stay.
DeletePolicy ==
    /\ policy
    /\ policy' = FALSE
    /\ rows' = [r \in Rows |-> IF Exists(r) THEN [rows[r] EXCEPT !.status = "deleted"]
                                           ELSE rows[r]]
    /\ UNCHANGED <<bull, call, work, crashes>>

-----------------------------------------------------------------------------
(* process(), one step per await after which the row can be another.       *)

Busy(r) == work[r] # "none"
InSlots == {r \in Rows : Busy(r)}

Take(r) ==
    /\ bull[r].state = "waiting" /\ Cardinality(InSlots) < Concurrency
    /\ work' = [work EXCEPT ![r] = "taken"]
    /\ bull' = [bull EXCEPT ![r].state = "active"]
    /\ UNCHANGED <<policy, rows, call, crashes>>

\* The row gets a status, and its handler moves on.
Write(r, status, next) ==
    /\ Exists(r)
    /\ rows' = [rows EXCEPT ![r].status = status]
    /\ work' = [work EXCEPT ![r] = next]
    /\ UNCHANGED <<policy, bull, call, crashes>>

\* The status a row has is not looked at.
MarkRunning(r) == work[r] = "taken" /\ Write(r, "RUNNING", "running")

\* There is nothing to send, or the provider answers with facts.
StoreResult(r) ==
    /\ work[r] = "running"
    /\ \E status \in {"SKIPPED", "COMPLETED"} : Write(r, status, "done")

\* Broken variant: the limit itself is one more retry.
RetriesLeftOneMore(r) == rows[r].retries <= MaxRetries

RetriesLeft(r) == rows[r].retries + 1 <= MaxRetries

\* The provider answers with nothing: the row is PENDING again, and the exception that
\* is to make BullMQ try again is caught in the same method.
PutBack(r) ==
    /\ work[r] = "running"
    /\ Exists(r) /\ RetriesLeft(r)
    /\ rows' = [rows EXCEPT ![r] = [status |-> "PENDING", retries |-> @.retries + 1]]
    /\ work' = [work EXCEPT ![r] = "done"]
    /\ UNCHANGED <<policy, bull, call, crashes>>

GiveUp(r) ==
    /\ work[r] = "running"
    /\ ~RetriesLeft(r)
    /\ Write(r, "FAILED", "done")

\* Broken variant: the try block goes on after the result is stored.
ThrowLater(r) ==
    /\ work[r] \in {"taken", "running", "done"}
    /\ work' = [work EXCEPT ![r] = "catch"]
    /\ UNCHANGED <<policy, rows, bull, call, crashes>>

\* Any call inside the try block throws; so does a write to a row that is deleted.
Throw(r) ==
    /\ work[r] \in {"taken", "running"}
    /\ work' = [work EXCEPT ![r] = "catch"]
    /\ UNCHANGED <<policy, rows, bull, call, crashes>>

\* Broken variant: the catch block only logs.
CatchOnlyLogs(r) ==
    /\ work[r] = "catch"
    /\ work' = [work EXCEPT ![r] = "done"]
    /\ UNCHANGED <<policy, rows, bull, call, crashes>>

\* The catch block fails the row, also one that is settled, unless it is PENDING.
Catch(r) ==
    /\ work[r] = "catch"
    /\ \/ rows[r].status # "PENDING" /\ Write(r, "FAILED", "done")
       \/ /\ rows[r].status \in {"PENDING", "deleted"}
          /\ work' = [work EXCEPT ![r] = "done"]
          /\ UNCHANGED <<policy, rows, bull, call, crashes>>

\* The slot is free and BullMQ has the outcome of the job.
Return(r, state) ==
    /\ bull' = [bull EXCEPT ![r].state = state]
    /\ work' = [work EXCEPT ![r] = "none"]
    /\ UNCHANGED <<policy, rows, call, crashes>>

Finish(r) == work[r] = "done" /\ Return(r, "completed")

\* The database fails inside the catch block as well.
CatchFails(r) == work[r] = "catch" /\ Return(r, "failed")

\* A stalled job is delivered once more; the second time it is a failed job.
Stalled(j) ==
    IF j.state # "active" THEN j
    ELSE IF j.stalled THEN [j EXCEPT !.state = "failed"]
    ELSE [j EXCEPT !.state = "waiting", !.stalled = TRUE, !.again = TRUE]

\* The slots are in one process.
Crash ==
    /\ crashes < MaxCrashes
    /\ InSlots # {}
    /\ crashes' = crashes + 1
    /\ work' = [r \in Rows |-> "none"]
    /\ bull' = [r \in Rows |-> Stalled(bull[r])]
    /\ UNCHANGED <<policy, rows, call>>

-----------------------------------------------------------------------------

Request(c) ==
    \/ StartExtraction(c)
    \/ \E r \in Rows : CreateRow(c, r)
    \/ PushRow(c)
    \/ AbandonCall(c)

Handle(r) ==
    \/ MarkRunning(r)
    \/ StoreResult(r)
    \/ PutBack(r)
    \/ GiveUp(r)
    \/ Throw(r)
    \/ Catch(r)
    \/ Finish(r)
    \/ CatchFails(r)

Next ==
    \/ \E c \in Calls : Request(c)
    \/ \E r \in Rows : Take(r) \/ Handle(r) \/ ExtractNow(r) \/ RetryFailedJob(r)
    \/ DeletePolicy
    \/ Crash

Spec == Init /\ [][Next]_vars

-----------------------------------------------------------------------------
(* Properties.                                                             *)

TypeOK ==
    /\ policy \in BOOLEAN
    /\ rows \in [Rows -> Row]
    /\ bull \in [Rows -> BullJob]
    /\ call \in [Calls -> Call]
    /\ work \in [Rows -> Handler]
    /\ crashes \in 0..MaxCrashes

(* The check for a running extraction keeps the active rows of a policy to *)
(* those of requests that overlapped each other, jobs that BullMQ delivers *)
(* again set aside (startExtraction).                                      *)
FewActive == Cardinality({r \in ActiveRows : ~bull[r].again}) <= Cardinality(Calls)

(* A settled extraction changes its status only if BullMQ delivers its job *)
(* again or its policy is deleted (process).                               *)
SettledStays ==
    [][\A r \in Rows : rows[r].status \in Settled /\ rows'[r] # rows[r] =>
          bull[r].again \/ rows'[r].status = "deleted"]_vars

(* A row that is RUNNING has a job in BullMQ that is handled or will be, or *)
(* stands in the list of failed jobs where an administrator can retry it,  *)
(* whatever the provider, the database and the worker process do (process, *)
(* listFailedJobs).                                                        *)
RunningHasJob ==
    \A r \in Rows : rows[r].status = "RUNNING" =>
                        bull[r].state \in {"waiting", "active", "failed"}

=============================================================================
