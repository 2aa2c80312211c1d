------------------------- MODULE AiExtractionProofs -------------------------
(***************************************************************************)
(* What the parts around the AI extraction keep.                           *)
(*                                                                         *)
(* AiExtraction, for any number of rows, requests, slots, retries and      *)
(* crashes: a row that is RUNNING has a job in BullMQ, a settled row stays *)
(* settled unless its job is delivered again, and not more rows are active *)
(* than requests can overlap.                                              *)
(*                                                                         *)
(* InputTokenBudget, for any number and length of documents, any limit,    *)
(* marker and token size: what is left is always enough to give every      *)
(* document still to come an equal share of the whole limit; that is why a *)
(* document within that share is handed over as it is, however long the    *)
(* others are.                                                             *)
(*                                                                         *)
(* WorkerHeartbeat, for any workers, timeout and retention: a row is       *)
(* behind by no more than the heartbeats its worker failed to write.       *)
(*                                                                         *)
(* CoverageSummaries, for any limit, requests and rows: what all open      *)
(* cleanups will delete is counted before they commit.  What a request     *)
(* carries is what a format accepted, so if the formats give back what they*)
(* accept, users read what the provider answered.                          *)
(*                                                                         *)
(* AiProviders, for any settings and endpoints: the adapters of API and    *)
(* worker answer alike.                                                    *)
(***************************************************************************)
EXTENDS MCAiExtraction, FiniteSetTheorems, NaturalsInduction, WellFoundedInduction, TLAPS

\* A request that has created a row and not pushed it yet: BullMQ knows nothing of it.
CallOwns(c) ==
    call[c].phase = "created" =>
        /\ call[c].row \in Rows
        /\ rows[call[c].row].status \in {"PENDING", "deleted"}
        /\ bull[call[c].row].state = "none"

(* Each has created its own row. *)
OwnersDiffer ==
    \A c, d \in Calls :
        call[c].phase = "created" /\ call[d].phase = "created" /\ c # d =>
            call[c].row # call[d].row

(* A row's status against its job: who works on it, what BullMQ still      *)
(* knows of it, and why a settled row is not run again.                    *)
RowSane(r) ==
    /\ work[r] # "none" <=> bull[r].state = "active"
    /\ rows[r].status = "absent" => bull[r].state = "none"
    /\ rows[r].status = "RUNNING" => bull[r].state \in {"waiting", "active", "failed"}
    /\ work[r] = "done" => rows[r].status # "RUNNING"
    /\ rows[r].status \in Settled =>
          \/ bull[r].again
          \/ bull[r].state \in {"none", "completed", "failed"}
          \/ work[r] = "done"

(* The inductive invariant. *)
ExtractionInv ==
    /\ TypeOK
    /\ \A c \in Calls : CallOwns(c)
    /\ OwnersDiffer
    /\ \A r \in Rows : RowSane(r)

-----------------------------------------------------------------------------
(* Helpers.                                                                *)

(* Updates of a job are typed. *)
LEMMA JobFields ==
  ASSUME NEW j \in BullJob,
         NEW state \in {"none", "waiting", "active", "completed", "failed"},
         NEW stalled \in BOOLEAN, NEW again \in BOOLEAN
  PROVE  /\ [j EXCEPT !.state = state] \in BullJob
         /\ [[[j EXCEPT !.state = state] EXCEPT !.stalled = stalled] EXCEPT !.again = again]
               \in BullJob
         /\ [[j EXCEPT !.state = state] EXCEPT !.again = again] \in BullJob
         /\ [j EXCEPT !.state = state].state = state
         /\ [j EXCEPT !.state = state].again = j.again
  BY DEF BullJob

(* A step of one row that BullMQ knows touches neither the other rows nor  *)
(* those that requests have yet to push.                                   *)
LEMMA OneRowStep ==
  ASSUME ExtractionInv, NEW r \in Rows, bull[r].state # "none", UNCHANGED call,
         TypeOK', RowSane(r)',
         \A q \in Rows \ {r} : rows'[q] = rows[q] /\ bull'[q] = bull[q] /\ work'[q] = work[q]
  PROVE  ExtractionInv'
  <1>1. ASSUME NEW c \in Calls PROVE CallOwns(c)'
    BY DEF ExtractionInv, CallOwns
  <1>2. OwnersDiffer'
    BY DEF ExtractionInv, OwnersDiffer
  <1>3. ASSUME NEW q \in Rows PROVE RowSane(q)'
    <2>1. CASE q = r
      BY <2>1
    <2>2. CASE q # r
      BY <2>2 DEF ExtractionInv, RowSane
    <2> QED  BY <2>1, <2>2
  <1> QED  BY <1>1, <1>2, <1>3 DEF ExtractionInv

(* The same for a write of the row's status by its handler.                *)
LEMMA WriteKeepsInv ==
  ASSUME ExtractionInv, NEW r \in Rows, NEW status \in Active \cup Settled,
         NEW next \in Handler, work[r] # "none", next # "none",
         status = "RUNNING" => next # "done",
         status \in Settled => next = "done",
         Write(r, status, next)
  PROVE  ExtractionInv'
  <1>1. /\ rows' = [rows EXCEPT ![r].status = status]
        /\ work' = [work EXCEPT ![r] = next]
        /\ UNCHANGED <<policy, bull, call, crashes>>
    BY DEF Write
  <1>2. rows[r] \in Row /\ rows \in [Rows -> Row] /\ work \in [Rows -> Handler]
    BY DEF ExtractionInv, TypeOK
  <1>3. rows'[r].status = status /\ work'[r] = next /\ bull[r].state = "active"
    BY <1>1, <1>2 DEF Row, ExtractionInv, RowSane
  <1>4. [rows[r] EXCEPT !.status = status] \in Row
    BY <1>2 DEF Row
  <1>5. TypeOK'
    BY <1>1, <1>2, <1>4 DEF ExtractionInv, TypeOK
  <1>6. RowSane(r)'
    BY <1>1, <1>3 DEF RowSane, Active, Settled
  <1>7. \A q \in Rows \ {r} : rows'[q] = rows[q] /\ bull'[q] = bull[q] /\ work'[q] = work[q]
    BY <1>1, <1>2
  <1> QED  BY <1>1, <1>3, <1>5, <1>6, <1>7, OneRowStep

-----------------------------------------------------------------------------
(* Requests.                                                               *)

(* The steps of a request. *)
LEMMA RequestKeepsInv == ASSUME ExtractionInv, NEW c \in Calls, Request(c) PROVE ExtractionInv'
  <1>0. /\ call \in [Calls -> Call] /\ call[c] \in Call /\ rows \in [Rows -> Row]
        /\ bull \in [Rows -> BullJob]
    BY DEF ExtractionInv, TypeOK
  <1>1. NoCall \in Call /\ NoCall.phase = "idle"
    BY DEF NoCall, Call
  <1>2. CASE StartExtraction(c)
    <2>1. /\ call' = [call EXCEPT ![c].phase = "checked"]
          /\ UNCHANGED <<policy, rows, bull, work, crashes>>
      BY <1>2 DEF StartExtraction
    <2>2. [call[c] EXCEPT !.phase = "checked"] \in Call /\ call'[c].phase = "checked"
      BY <1>0, <2>1 DEF Call
    <2>3. TypeOK'
      BY <1>0, <2>1, <2>2 DEF ExtractionInv, TypeOK
    <2>4. \A d \in Calls : d # c => call'[d] = call[d]
      BY <1>0, <2>1
    <2>5. (\A d \in Calls : CallOwns(d)') /\ OwnersDiffer'
      BY <2>1, <2>2, <2>4 DEF ExtractionInv, CallOwns, OwnersDiffer
    <2>6. \A r \in Rows : RowSane(r)'
      BY <2>1 DEF ExtractionInv, RowSane
    <2> QED  BY <2>3, <2>5, <2>6 DEF ExtractionInv
  <1>3. ASSUME NEW r \in Rows, CreateRow(c, r) PROVE ExtractionInv'
    <2> DEFINE created == [phase |-> "created", row |-> r]
    <2>1. /\ rows' = [rows EXCEPT ![r].status = "PENDING"] /\ rows[r].status = "absent"
          /\ call' = [call EXCEPT ![c] = created]
          /\ UNCHANGED <<policy, bull, work, crashes>>
      BY <1>3 DEF CreateRow
    <2>2. created \in Call /\ created.phase = "created" /\ created.row = r
      BY DEF Call
    <2>3. [rows[r] EXCEPT !.status = "PENDING"] \in Row /\ rows'[r].status = "PENDING"
      BY <1>0, <2>1 DEF Row, Active
    <2>4. TypeOK'
      BY <1>0, <2>1, <2>2, <2>3 DEF ExtractionInv, TypeOK
    <2>5. bull[r].state = "none" /\ work[r] = "none"
      BY <2>1 DEF ExtractionInv, RowSane
    <2>6. /\ call'[c] = created /\ \A d \in Calls : d # c => call'[d] = call[d]
          /\ \A q \in Rows : q # r => rows'[q] = rows[q]
      BY <1>0, <2>1
    <2>7. \A d \in Calls : call[d].phase = "created" => call[d].row # r
      BY <2>1 DEF ExtractionInv, CallOwns
    <2>8. (\A d \in Calls : CallOwns(d)') /\ OwnersDiffer'
      BY <2>1, <2>2, <2>3, <2>5, <2>6, <2>7 DEF ExtractionInv, CallOwns, OwnersDiffer
    <2>9. ASSUME NEW q \in Rows PROVE RowSane(q)'
      BY <2>1, <2>3, <2>5, <2>6 DEF ExtractionInv, RowSane, Settled
    <2> QED  BY <2>4, <2>8, <2>9 DEF ExtractionInv
  <1>4. CASE PushRow(c)
    <2> DEFINE r == call[c].row
    <2>1. /\ bull' = [bull EXCEPT ![r].state = "waiting"] /\ call[c].phase = "created"
          /\ call' = [call EXCEPT ![c] = NoCall] /\ UNCHANGED <<policy, rows, work, crashes>>
      BY <1>4 DEF PushRow
    <2>2. /\ r \in Rows /\ rows[r].status \in {"PENDING", "deleted"}
          /\ bull[r].state = "none" /\ work[r] = "none"
      BY <2>1 DEF ExtractionInv, CallOwns, RowSane
    <2>a. bull[r] \in BullJob /\ bull'[r] = [bull[r] EXCEPT !.state = "waiting"]
      BY <1>0, <2>1, <2>2
    <2>3. [bull[r] EXCEPT !.state = "waiting"] \in BullJob /\ bull'[r].state = "waiting"
      BY <2>a DEF BullJob
    <2>4. TypeOK'
      BY <1>0, <1>1, <2>1, <2>2, <2>3 DEF ExtractionInv, TypeOK
    <2>5. /\ call'[c] = NoCall /\ \A d \in Calls : d # c => call'[d] = call[d]
          /\ \A q \in Rows : q # r => bull'[q] = bull[q]
      BY <1>0, <2>1
    <2>6. \A d \in Calls : d # c /\ call[d].phase = "created" => call[d].row # r
      BY <2>1 DEF ExtractionInv, OwnersDiffer
    <2>7. (\A d \in Calls : CallOwns(d)') /\ OwnersDiffer'
      BY <1>1, <2>1, <2>5, <2>6 DEF ExtractionInv, CallOwns, OwnersDiffer
    <2>8. ASSUME NEW q \in Rows PROVE RowSane(q)'
      BY <2>1, <2>2, <2>3, <2>5 DEF ExtractionInv, RowSane, Settled
    <2> QED  BY <2>4, <2>7, <2>8 DEF ExtractionInv
  <1>5. CASE AbandonCall(c)
    <2>1. call' = [call EXCEPT ![c] = NoCall] /\ UNCHANGED <<policy, rows, bull, work, crashes>>
      BY <1>5 DEF AbandonCall
    <2>2. TypeOK'
      BY <1>0, <1>1, <2>1 DEF ExtractionInv, TypeOK
    <2>3. call'[c] = NoCall /\ \A d \in Calls : d # c => call'[d] = call[d]
      BY <1>0, <2>1
    <2>4. (\A d \in Calls : CallOwns(d)') /\ OwnersDiffer'
      BY <1>1, <2>1, <2>3 DEF ExtractionInv, CallOwns, OwnersDiffer
    <2>5. \A r \in Rows : RowSane(r)'
      BY <2>1 DEF ExtractionInv, RowSane
    <2> QED  BY <2>2, <2>4, <2>5 DEF ExtractionInv
  <1> QED  BY <1>2, <1>3, <1>4, <1>5 DEF Request

(* Starting an extraction by hand. *)
LEMMA ExtractNowKeepsInv ==
  ASSUME ExtractionInv, NEW r \in Rows, ExtractNow(r) PROVE ExtractionInv'
  <1>1. /\ rows' = [rows EXCEPT ![r].status = "COMPLETED"] /\ rows[r].status = "absent"
        /\ UNCHANGED <<policy, bull, call, work, crashes>>
    BY DEF ExtractNow
  <1>2. rows \in [Rows -> Row] /\ rows[r] \in Row
    BY DEF ExtractionInv, TypeOK
  <1>3. [rows[r] EXCEPT !.status = "COMPLETED"] \in Row /\ rows'[r].status = "COMPLETED"
    BY <1>1, <1>2 DEF Row, Settled
  <1>4. TypeOK'
    BY <1>1, <1>2, <1>3 DEF ExtractionInv, TypeOK
  <1>5. bull[r].state = "none" /\ work[r] = "none"
    BY <1>1 DEF ExtractionInv, RowSane
  <1>6. \A q \in Rows : q # r => rows'[q] = rows[q]
    BY <1>1, <1>2
  <1>7. (\A d \in Calls : CallOwns(d)') /\ OwnersDiffer'
    BY <1>1, <1>6 DEF ExtractionInv, CallOwns, OwnersDiffer
  <1>8. ASSUME NEW q \in Rows PROVE RowSane(q)'
    BY <1>1, <1>3, <1>5, <1>6 DEF ExtractionInv, RowSane
  <1> QED  BY <1>4, <1>7, <1>8 DEF ExtractionInv

(* Retrying a failed job. *)
LEMMA RetryKeepsInv ==
  ASSUME ExtractionInv, NEW r \in Rows, RetryFailedJob(r) PROVE ExtractionInv'
  <1>1. /\ bull' = [bull EXCEPT ![r].state = "waiting", ![r].again = TRUE]
        /\ bull[r].state = "failed" /\ UNCHANGED <<policy, rows, call, work, crashes>>
    BY DEF RetryFailedJob
  <1>2. bull \in [Rows -> BullJob] /\ bull[r] \in BullJob
    BY DEF ExtractionInv, TypeOK
  <1>3. [[bull[r] EXCEPT !.state = "waiting"] EXCEPT !.again = TRUE] \in BullJob
    BY <1>2, JobFields
  <1>4. bull'[r] = [[bull[r] EXCEPT !.state = "waiting"] EXCEPT !.again = TRUE]
    BY <1>1, <1>2 DEF BullJob
  <1>5. bull'[r].state = "waiting" /\ bull'[r].again = TRUE
    BY <1>2, <1>4 DEF BullJob
  <1>6. \A q \in Rows \ {r} : bull'[q] = bull[q]
    BY <1>1, <1>2
  <1>a. bull' \in [Rows -> BullJob]
    BY <1>1, <1>2, <1>3, <1>4, <1>6
  <1>7. TypeOK'
    BY <1>1, <1>a DEF ExtractionInv, TypeOK
  <1>8. RowSane(r)'
    BY <1>1, <1>5 DEF ExtractionInv, RowSane
  <1> QED  BY <1>1, <1>6, <1>7, <1>8, OneRowStep

(* Deleting the policy takes its rows along. *)
LEMMA DeleteKeepsInv == ASSUME ExtractionInv, DeletePolicy PROVE ExtractionInv'
  <1>1. /\ policy' = FALSE /\ UNCHANGED <<bull, call, work, crashes>>
        /\ rows' = [r \in Rows |-> IF Exists(r) THEN [rows[r] EXCEPT !.status = "deleted"]
                                                ELSE rows[r]]
    BY DEF DeletePolicy
  <1>2. ASSUME NEW r \in Rows PROVE /\ rows'[r] \in Row
                                    /\ rows'[r].status = IF Exists(r) THEN "deleted"
                                                                      ELSE rows[r].status
    <2>1. rows[r] \in Row
      BY DEF ExtractionInv, TypeOK
    <2>2. [rows[r] EXCEPT !.status = "deleted"] \in Row
      BY <2>1 DEF Row
    <2> QED  BY <1>1, <2>1, <2>2 DEF Row
  <1>3. TypeOK'
    BY <1>1, <1>2 DEF ExtractionInv, TypeOK
  <1>4. (\A d \in Calls : CallOwns(d)') /\ OwnersDiffer'
    BY <1>1, <1>2 DEF ExtractionInv, CallOwns, OwnersDiffer, Exists, Active
  <1>5. ASSUME NEW r \in Rows PROVE RowSane(r)'
    BY <1>1, <1>2 DEF ExtractionInv, RowSane, Exists, Active, Settled
  <1> QED  BY <1>3, <1>4, <1>5 DEF ExtractionInv

-----------------------------------------------------------------------------
(* The worker.                                                             *)

(* A slot takes a job. *)
LEMMA TakeKeepsInv == ASSUME ExtractionInv, NEW r \in Rows, Take(r) PROVE ExtractionInv'
  <1>1. /\ work' = [work EXCEPT ![r] = "taken"] /\ bull[r].state = "waiting"
        /\ bull' = [bull EXCEPT ![r].state = "active"]
        /\ UNCHANGED <<policy, rows, call, crashes>>
    BY DEF Take
  <1>2. bull \in [Rows -> BullJob] /\ bull[r] \in BullJob /\ work \in [Rows -> Handler]
    BY DEF ExtractionInv, TypeOK
  <1>3. /\ [bull[r] EXCEPT !.state = "active"] \in BullJob
        /\ bull'[r].state = "active" /\ bull'[r].again = bull[r].again
    BY <1>1, <1>2, JobFields
  <1>4. work'[r] = "taken" /\ "taken" \in Handler
    BY <1>1, <1>2 DEF Handler
  <1>5. TypeOK'
    BY <1>1, <1>2, <1>3, <1>4 DEF ExtractionInv, TypeOK
  <1>6. RowSane(r)'
    BY <1>1, <1>3, <1>4 DEF ExtractionInv, RowSane
  <1>7. \A q \in Rows \ {r} : rows'[q] = rows[q] /\ bull'[q] = bull[q] /\ work'[q] = work[q]
    BY <1>1, <1>2
  <1> QED  BY <1>1, <1>5, <1>6, <1>7, OneRowStep

(* A slot becomes free: the row is no longer RUNNING, or its job failed.   *)
LEMMA ReturnKeepsInv ==
  ASSUME ExtractionInv, NEW r \in Rows, NEW state \in {"completed", "failed"},
         work[r] # "none", Return(r, state), state = "completed" => work[r] = "done"
  PROVE  ExtractionInv'
  <1>1. /\ bull' = [bull EXCEPT ![r].state = state] /\ work' = [work EXCEPT ![r] = "none"]
        /\ UNCHANGED <<policy, rows, call, crashes>>
    BY DEF Return
  <1>2. bull \in [Rows -> BullJob] /\ bull[r] \in BullJob /\ work \in [Rows -> Handler]
    BY DEF ExtractionInv, TypeOK
  <1>3. [bull[r] EXCEPT !.state = state] \in BullJob /\ bull'[r].state = state
    BY <1>1, <1>2 DEF BullJob
  <1>4. work'[r] = "none" /\ "none" \in Handler /\ bull[r].state = "active"
    BY <1>1, <1>2 DEF Handler, ExtractionInv, RowSane
  <1>5. TypeOK'
    BY <1>1, <1>2, <1>3, <1>4 DEF ExtractionInv, TypeOK
  <1>6. RowSane(r)'
    BY <1>1, <1>3, <1>4 DEF ExtractionInv, RowSane
  <1>7. \A q \in Rows \ {r} : rows'[q] = rows[q] /\ bull'[q] = bull[q] /\ work'[q] = work[q]
    BY <1>1, <1>2
  <1> QED  BY <1>1, <1>4, <1>5, <1>6, <1>7, OneRowStep

(* The handler moves on and writes nothing.                                *)
LEMMA MoveKeepsInv ==
  ASSUME ExtractionInv, NEW r \in Rows, NEW next \in Handler, next # "none",
         work[r] \notin {"none", "done"}, work' = [work EXCEPT ![r] = next],
         next = "done" => rows[r].status # "RUNNING",
         UNCHANGED <<policy, rows, bull, call, crashes>>
  PROVE  ExtractionInv'
  <1>1. work \in [Rows -> Handler] /\ bull[r].state = "active" /\ work'[r] = next
    BY DEF ExtractionInv, TypeOK, RowSane
  <1>2. TypeOK'
    BY <1>1 DEF ExtractionInv, TypeOK
  <1>3. RowSane(r)'
    BY <1>1 DEF ExtractionInv, RowSane
  <1>4. \A q \in Rows \ {r} : rows'[q] = rows[q] /\ bull'[q] = bull[q] /\ work'[q] = work[q]
    BY <1>1
  <1> QED  BY <1>1, <1>2, <1>3, <1>4, OneRowStep

(* A stalled job goes back. *)
LEMMA PutBackKeepsInv == ASSUME ExtractionInv, NEW r \in Rows, PutBack(r) PROVE ExtractionInv'
  <1> DEFINE row == [status |-> "PENDING", retries |-> rows[r].retries + 1]
  <1>1. /\ rows' = [rows EXCEPT ![r] = row] /\ work[r] = "running" /\ RetriesLeft(r)
        /\ work' = [work EXCEPT ![r] = "done"] /\ UNCHANGED <<policy, bull, call, crashes>>
    BY DEF PutBack
  <1>2. rows \in [Rows -> Row] /\ rows[r] \in Row /\ work \in [Rows -> Handler]
    BY DEF ExtractionInv, TypeOK
  <1>3. rows[r].retries \in Nat /\ rows[r].retries + 1 \in 0..MaxRetries
    BY <1>1, <1>2, ExtractionAssumption DEF Row, RetriesLeft
  <1>4. row \in Row /\ row.status = "PENDING"
    BY <1>3 DEF Row, Active
  <1>5. rows'[r] = row /\ work'[r] = "done" /\ "done" \in Handler /\ bull[r].state = "active"
    BY <1>1, <1>2 DEF Handler, ExtractionInv, RowSane
  <1>6. TypeOK'
    BY <1>1, <1>2, <1>4, <1>5 DEF ExtractionInv, TypeOK
  <1>7. RowSane(r)'
    BY <1>1, <1>4, <1>5 DEF RowSane, Settled
  <1>8. \A q \in Rows \ {r} : rows'[q] = rows[q] /\ bull'[q] = bull[q] /\ work'[q] = work[q]
    BY <1>1, <1>2
  <1> QED  BY <1>1, <1>5, <1>6, <1>7, <1>8, OneRowStep

(* A slot goes on with its job. *)
LEMMA HandleKeepsInv == ASSUME ExtractionInv, NEW r \in Rows, Handle(r) PROVE ExtractionInv'
  <1>1. {"running", "catch", "done"} \subseteq Handler
    BY DEF Handler
  <1>2. CASE MarkRunning(r)
    BY <1>1, <1>2, WriteKeepsInv DEF MarkRunning, Active, Settled
  <1>3. CASE StoreResult(r)
    BY <1>1, <1>3, WriteKeepsInv DEF StoreResult, Active, Settled
  <1>4. CASE PutBack(r)
    BY <1>4, PutBackKeepsInv
  <1>5. CASE GiveUp(r)
    BY <1>1, <1>5, WriteKeepsInv DEF GiveUp, Active, Settled
  <1>6. CASE Throw(r)
    BY <1>1, <1>6, MoveKeepsInv DEF Throw
  <1>7. CASE Catch(r)
    <2>1. CASE Write(r, "FAILED", "done")
      BY <1>1, <1>7, <2>1, WriteKeepsInv DEF Catch, Active, Settled
    <2>2. CASE rows[r].status \in {"PENDING", "deleted"} /\ UNCHANGED rows
      BY <1>1, <1>7, <2>2, MoveKeepsInv, WriteKeepsInv DEF Catch, Active, Settled
    <2> QED  BY <1>7, <2>1, <2>2 DEF Catch
  <1>8. CASE Finish(r)
    BY <1>8, ReturnKeepsInv DEF Finish
  <1>9. CASE CatchFails(r)
    BY <1>9, ReturnKeepsInv DEF CatchFails
  <1> QED  BY <1>2, <1>3, <1>4, <1>5, <1>6, <1>7, <1>8, <1>9 DEF Handle

(* A crash frees every slot. *)
LEMMA CrashKeepsInv == ASSUME ExtractionInv, Crash PROVE ExtractionInv'
  <1>1. /\ crashes < MaxCrashes /\ crashes' = crashes + 1
        /\ work' = [r \in Rows |-> "none"] /\ bull' = [r \in Rows |-> Stalled(bull[r])]
        /\ UNCHANGED <<policy, rows, call>>
    BY DEF Crash
  <1>2. ASSUME NEW j \in BullJob
        PROVE  /\ Stalled(j) \in BullJob
               /\ j.state # "active" => Stalled(j) = j
               /\ j.state = "active" => \/ Stalled(j).state = "failed"
                                        \/ Stalled(j).state = "waiting" /\ Stalled(j).again
    <2>1. CASE j.state # "active"
      BY <2>1 DEF Stalled
    <2>2. CASE j.state = "active" /\ j.stalled
      BY <2>2, JobFields DEF Stalled
    <2>3. CASE j.state = "active" /\ ~j.stalled
      <3>1. Stalled(j) = [[[j EXCEPT !.state = "waiting"] EXCEPT !.stalled = TRUE]
                             EXCEPT !.again = TRUE]
        BY <2>3 DEF Stalled
      <3>2. Stalled(j) \in BullJob
        BY <3>1 DEF BullJob
      <3>3. Stalled(j).state = "waiting" /\ Stalled(j).again = TRUE
        BY <3>1 DEF BullJob
      <3> QED  BY <2>3, <3>2, <3>3
    <2> QED  BY <2>1, <2>2, <2>3
  <1>3. ASSUME NEW r \in Rows
        PROVE  bull[r] \in BullJob /\ bull'[r] = Stalled(bull[r]) /\ work'[r] = "none"
    BY <1>1 DEF ExtractionInv, TypeOK
  <1>4. crashes' \in 0..MaxCrashes
    BY <1>1, ExtractionAssumption DEF ExtractionInv, TypeOK
  <1>5. bull' \in [Rows -> BullJob] /\ work' \in [Rows -> Handler]
    BY <1>1, <1>2, <1>3 DEF Handler
  <1>6. TypeOK'
    BY <1>1, <1>4, <1>5 DEF ExtractionInv, TypeOK
  <1>7. (\A d \in Calls : CallOwns(d)') /\ OwnersDiffer'
    BY <1>1, <1>2, <1>3 DEF ExtractionInv, CallOwns, OwnersDiffer
  <1>8. ASSUME NEW r \in Rows PROVE RowSane(r)'
    <2>1. CASE bull[r].state # "active"
      BY <1>1, <1>2, <1>3, <2>1 DEF ExtractionInv, RowSane
    <2>2. CASE bull[r].state = "active"
      BY <1>1, <1>2, <1>3, <2>2 DEF ExtractionInv, RowSane
    <2> QED  BY <2>1, <2>2
  <1> QED  BY <1>6, <1>7, <1>8 DEF ExtractionInv

-----------------------------------------------------------------------------
(* Theorems.                                                               *)

(* The inductive invariant of extraction rows and their BullMQ jobs.       *)
THEOREM ExtractionInvariance == Spec => []ExtractionInv
  <1>1. Init => ExtractionInv
    <2> SUFFICES ASSUME Init PROVE ExtractionInv
      OBVIOUS
    <2>1. TypeOK
      BY ExtractionAssumption DEF Init, TypeOK, Row, BullJob, Call, NoCall, Handler
    <2>2. (\A c \in Calls : CallOwns(c)) /\ OwnersDiffer
      BY DEF Init, NoCall, CallOwns, OwnersDiffer
    <2>3. \A r \in Rows : RowSane(r)
      BY DEF Init, RowSane, Settled
    <2> QED  BY <2>1, <2>2, <2>3 DEF ExtractionInv
  <1>2. ExtractionInv /\ [Next]_vars => ExtractionInv'
    <2> SUFFICES ASSUME ExtractionInv, [Next]_vars PROVE ExtractionInv'
      OBVIOUS
    <2>1. CASE Next
      BY <2>1, RequestKeepsInv, TakeKeepsInv, HandleKeepsInv, ExtractNowKeepsInv,
         RetryKeepsInv, DeleteKeepsInv, CrashKeepsInv DEF Next
    <2>2. CASE UNCHANGED vars
      BY <2>2 DEF vars, ExtractionInv, TypeOK, CallOwns, OwnersDiffer, RowSane
    <2> QED  BY <2>1, <2>2
  <1> QED  BY <1>1, <1>2, PTL DEF Spec

(* TypeOK: the row's retry counter never passes its budget.                *)
THEOREM ExtractionTypes == Spec => []TypeOK
  <1>1. ExtractionInv => TypeOK
    BY DEF ExtractionInv
  <1> QED  BY <1>1, ExtractionInvariance, PTL

(* RunningHasJob: a row that is RUNNING is never forgotten by BullMQ.      *)
THEOREM RunningRemembered == Spec => []RunningHasJob
  <1>1. ExtractionInv => RunningHasJob
    BY DEF ExtractionInv, RowSane, RunningHasJob
  <1> QED  BY <1>1, ExtractionInvariance, PTL

(* SettledStays: only a second delivery or the deletion of the policy      *)
(* changes a settled row.                                                  *)
THEOREM SettledForGood == Spec => SettledStays
  <1>1. ExtractionInv /\ [Next]_vars =>
          [\A r \in Rows : rows[r].status \in Settled /\ rows'[r] # rows[r] =>
              bull[r].again \/ rows'[r].status = "deleted"]_vars
    <2> SUFFICES ASSUME ExtractionInv, Next, NEW q \in Rows,
                        rows[q].status \in Settled, rows'[q] # rows[q], ~bull[q].again
                 PROVE  rows'[q].status = "deleted"
      BY DEF vars
    <2>1. rows \in [Rows -> Row] /\ work[q] \in {"none", "done"}
      BY DEF ExtractionInv, TypeOK, RowSane
    <2>2. ASSUME NEW r \in Rows, Handle(r) PROVE FALSE
      <3>1. CASE work[r] \in {"taken", "running", "catch"}
        BY <2>1, <2>2, <3>1 DEF Handle, MarkRunning, StoreResult, PutBack, GiveUp, Throw, Catch,
           Finish, CatchFails, Write, Return
      <3>2. CASE work[r] \in {"none", "done"}
        BY <2>2, <3>2 DEF Handle, MarkRunning, StoreResult, PutBack, GiveUp, Throw, Catch,
           Finish, CatchFails, Return
      <3>3. work[r] \in Handler
        BY DEF ExtractionInv, TypeOK
      <3> QED  BY <3>1, <3>2, <3>3 DEF Handler
    <2>3. ASSUME NEW c \in Calls, Request(c) PROVE FALSE
      <3>1. ASSUME NEW r \in Rows, CreateRow(c, r) PROVE FALSE
        BY <2>1, <3>1 DEF CreateRow, Settled
      <3> QED  BY <2>3, <3>1 DEF Request, StartExtraction, PushRow, AbandonCall
    <2>4. ASSUME NEW r \in Rows, ExtractNow(r) PROVE FALSE
      BY <2>1, <2>4 DEF ExtractNow, Settled
    <2>5. CASE DeletePolicy
      <3>1. rows'[q] = [rows[q] EXCEPT !.status = "deleted"]
        BY <2>5 DEF DeletePolicy, Exists
      <3> QED  BY <2>1, <3>1 DEF Row
    <2>6. CASE UNCHANGED rows
      BY <2>6
    <2> QED  BY <2>2, <2>3, <2>4, <2>5, <2>6 DEF Next, Take, RetryFailedJob, Crash, vars
  <1> QED  BY <1>1, ExtractionInvariance, PTL DEF Spec, SettledStays

-----------------------------------------------------------------------------
(* How many rows are active.                                               *)

(* Active rows whose job was not delivered again. *)
Fresh == {r \in ActiveRows : ~bull[r].again}
(* Requests that found no active row and have not created theirs. *)
Checked == {c \in Calls : call[c].phase = "checked"}

\* A request that has found no active row counts as one: it may yet create one.
FewInv == IsFiniteSet(Fresh) /\ Cardinality(Fresh) + Cardinality(Checked) <= Cardinality(Calls)

(* Fewer of both is no harm. *)
LEMMA FewShrinks ==
  ASSUME FewInv, Fresh' \subseteq Fresh, Checked' \subseteq Checked
  PROVE  FewInv'
  <1>1. IsFiniteSet(Checked)
    BY FS_Subset, ExtractionAssumption DEF Checked
  <1>2. IsFiniteSet(Fresh') /\ Cardinality(Fresh') <= Cardinality(Fresh)
    BY FS_Subset DEF FewInv
  <1>3. IsFiniteSet(Checked') /\ Cardinality(Checked') <= Cardinality(Checked)
    BY <1>1, FS_Subset
  <1>4. /\ Cardinality(Fresh) \in Nat /\ Cardinality(Fresh') \in Nat
        /\ Cardinality(Checked) \in Nat /\ Cardinality(Checked') \in Nat
        /\ Cardinality(Calls) \in Nat
    BY <1>1, <1>2, <1>3, FS_CardinalityType, ExtractionAssumption DEF FewInv
  <1>5. Cardinality(Fresh') + Cardinality(Checked') <= Cardinality(Calls)
    BY <1>2, <1>3, <1>4 DEF FewInv
  <1> QED  BY <1>2, <1>5 DEF FewInv

(* Rows that are fresh after a step were before it. *)
LEMMA FreshFrom ==
  ASSUME \A q \in Rows : rows'[q].status \in Active /\ ~bull'[q].again =>
                           rows[q].status \in Active /\ ~bull[q].again
  PROVE  Fresh' \subseteq Fresh
  BY DEF Fresh, ActiveRows

(* A job that only gets another state is delivered as often as before.     *)
LEMMA StateKeepsAgain ==
  ASSUME bull \in [Rows -> BullJob], NEW r \in Rows, NEW q \in Rows,
         NEW state \in {"none", "waiting", "active", "completed", "failed"},
         bull' = [bull EXCEPT ![r].state = state]
  PROVE  bull'[q].again = bull[q].again
  <1>1. bull[r] \in BullJob /\ bull'[q] = IF q = r THEN [bull[r] EXCEPT !.state = state]
                                                   ELSE bull[q]
    OBVIOUS
  <1>2. [bull[r] EXCEPT !.state = state].again = bull[r].again
    BY <1>1, JobFields
  <1> QED  BY <1>1, <1>2

(* No handler makes a settled row active but that of a repeated delivery.  *)
LEMMA HandleFresh ==
  ASSUME ExtractionInv, NEW r \in Rows, Handle(r)
  PROVE  Fresh' \subseteq Fresh
  <1> SUFFICES ASSUME NEW q \in Rows, rows'[q].status \in Active, ~bull'[q].again
               PROVE  rows[q].status \in Active /\ ~bull[q].again
    BY FreshFrom
  <1>1. rows \in [Rows -> Row] /\ bull \in [Rows -> BullJob]
    BY DEF ExtractionInv, TypeOK
  <1>2. bull'[q].again = bull[q].again
    <2>1. CASE UNCHANGED bull
      BY <2>1
    <2>2. ASSUME NEW state \in {"completed", "failed"}, Return(r, state)
          PROVE  bull'[q].again = bull[q].again
      BY <1>1, <2>2, StateKeepsAgain DEF Return
    <2> QED  BY <2>1, <2>2 DEF Handle, MarkRunning, StoreResult, PutBack, GiveUp, Throw, Catch,
              Finish, CatchFails, Write
  <1>3. CASE rows'[q] = rows[q]
    BY <1>2, <1>3
  <1>4. CASE rows'[q] # rows[q]
    <2>1. q = r /\ Exists(r) /\ work[r] \in {"taken", "running", "catch"}
      BY <1>1, <1>4 DEF Handle, MarkRunning, StoreResult, PutBack, GiveUp, Throw, Catch,
         Finish, CatchFails, Write, Return
    <2>2. rows[r].status \notin Settled
      BY <1>2, <2>1 DEF ExtractionInv, RowSane
    <2> QED  BY <1>2, <2>1, <2>2 DEF Exists
  <1> QED  BY <1>3, <1>4

(* A request that creates a row is no longer one that may. *)
LEMMA RequestFew ==
  ASSUME ExtractionInv, FewInv, NEW c \in Calls, Request(c)
  PROVE  FewInv'
  <1>1. /\ call \in [Calls -> Call] /\ rows \in [Rows -> Row] /\ bull \in [Rows -> BullJob]
        /\ IsFiniteSet(Calls) /\ Cardinality(Calls) \in Nat
    BY FS_CardinalityType, ExtractionAssumption DEF ExtractionInv, TypeOK
  <1>2. CASE StartExtraction(c)
    <2>1. Fresh' = {}
      BY <1>2 DEF StartExtraction, NoneActive, Fresh, ActiveRows
    <2>2. IsFiniteSet(Checked') /\ Cardinality(Checked') <= Cardinality(Calls)
      BY <1>1, FS_Subset DEF Checked
    <2>3. Cardinality(Checked') \in Nat
      BY <2>2, FS_CardinalityType
    <2>4. IsFiniteSet(Fresh') /\ Cardinality(Fresh') = 0
      BY <2>1, FS_EmptySet
    <2> QED  BY <1>1, <2>2, <2>3, <2>4 DEF FewInv
  <1>3. ASSUME NEW r \in Rows, CreateRow(c, r) PROVE FewInv'
    <2>1. c \in Checked /\ IsFiniteSet(Checked)
      BY <1>1, <1>3, FS_Subset DEF CreateRow, Checked
    <2>2. Checked' = Checked \ {c}
      BY <1>1, <1>3 DEF CreateRow, Checked
    <2>3. Fresh' \subseteq Fresh \cup {r}
      BY <1>1, <1>3 DEF CreateRow, Fresh, ActiveRows
    <2>4. Cardinality(Checked') = Cardinality(Checked) - 1
      BY <2>1, <2>2, FS_RemoveElement
    <2>5. /\ IsFiniteSet(Fresh \cup {r})
          /\ Cardinality(Fresh \cup {r}) = IF r \in Fresh THEN Cardinality(Fresh)
                                                         ELSE Cardinality(Fresh) + 1
      BY FS_AddElement DEF FewInv
    <2>6. IsFiniteSet(Fresh') /\ Cardinality(Fresh') <= Cardinality(Fresh \cup {r})
      BY <2>3, <2>5, FS_Subset
    <2>7. /\ Cardinality(Fresh) \in Nat /\ Cardinality(Fresh') \in Nat
          /\ Cardinality(Checked) \in Nat
      BY <2>1, <2>6, FS_CardinalityType DEF FewInv
    <2>8. Cardinality(Fresh) + Cardinality(Checked) <= Cardinality(Calls)
      BY DEF FewInv
    <2>9. Cardinality(Fresh') <= Cardinality(Fresh) + 1
      BY <2>5, <2>6, <2>7
    <2>10. Cardinality(Fresh') + Cardinality(Checked') <= Cardinality(Calls)
      BY <1>1, <2>4, <2>7, <2>8, <2>9
    <2> QED  BY <2>6, <2>10 DEF FewInv
  <1>4. CASE PushRow(c)
    <2>1. call[c].row \in Rows
      BY <1>4 DEF PushRow, ExtractionInv, CallOwns
    <2>2. Fresh' \subseteq Fresh
      BY <1>1, <1>4, <2>1, StateKeepsAgain, FreshFrom DEF PushRow
    <2>3. Checked' \subseteq Checked
      BY <1>1, <1>4 DEF PushRow, Checked, NoCall
    <2> QED  BY <2>2, <2>3, FewShrinks
  <1>5. CASE AbandonCall(c)
    <2>1. Fresh' = Fresh
      BY <1>5 DEF AbandonCall, Fresh, ActiveRows
    <2>2. Checked' \subseteq Checked
      BY <1>1, <1>5 DEF AbandonCall, Checked, NoCall
    <2> QED  BY <2>1, <2>2, FewShrinks
  <1> QED  BY <1>2, <1>3, <1>4, <1>5 DEF Request

(* No other step makes a row active. *)
LEMMA OtherFew ==
  ASSUME ExtractionInv, FewInv,
         \/ \E r \in Rows : Take(r) \/ Handle(r) \/ ExtractNow(r) \/ RetryFailedJob(r)
         \/ DeletePolicy \/ Crash \/ UNCHANGED vars
  PROVE  FewInv'
  <1>1. Checked' = Checked
    <2>1. UNCHANGED call
      BY DEF Take, Handle, ExtractNow, RetryFailedJob, DeletePolicy, Crash, vars, MarkRunning,
         StoreResult, PutBack, GiveUp, Throw, Catch, Finish, CatchFails, Write, Return
    <2> QED  BY <2>1 DEF Checked
  <1>2. rows \in [Rows -> Row] /\ bull \in [Rows -> BullJob]
    BY DEF ExtractionInv, TypeOK
  <1>3. ASSUME NEW r \in Rows, Take(r) PROVE Fresh' \subseteq Fresh
    BY <1>2, <1>3, StateKeepsAgain, FreshFrom DEF Take
  <1>4. ASSUME NEW r \in Rows, ExtractNow(r) PROVE Fresh' \subseteq Fresh
    BY <1>2, <1>4 DEF ExtractNow, Fresh, ActiveRows, Active
  <1>5. ASSUME NEW r \in Rows, RetryFailedJob(r) PROVE Fresh' \subseteq Fresh
    BY <1>2, <1>5 DEF RetryFailedJob, Fresh, ActiveRows, BullJob
  <1>6. ASSUME DeletePolicy PROVE Fresh' \subseteq Fresh
    <2>1. ASSUME NEW q \in Rows, rows'[q].status \in Active PROVE rows[q].status \in Active
      BY <1>2, <1>6, <2>1 DEF DeletePolicy, Exists, Active, Row
    <2> QED  BY <1>6, <2>1, FreshFrom DEF DeletePolicy
  <1>7. ASSUME Crash PROVE Fresh' \subseteq Fresh
    <2>1. ASSUME NEW q \in Rows PROVE bull[q].again => bull'[q].again
      BY <1>2, <1>7, <2>1 DEF Crash, Stalled, BullJob
    <2> QED  BY <1>7, <2>1, FreshFrom DEF Crash
  <1>8. ASSUME UNCHANGED vars PROVE Fresh' \subseteq Fresh
    BY <1>8, FreshFrom DEF vars
  <1> QED  BY <1>1, <1>3, <1>4, <1>5, <1>6, <1>7, <1>8, HandleFresh, FewShrinks

(* FewActive: the active rows are those of requests that overlapped.       *)
THEOREM ActiveRowsAreFew == Spec => []FewActive
  <1>1. Init => FewInv
    <2> SUFFICES ASSUME Init PROVE FewInv
      OBVIOUS
    <2>1. Fresh = {} /\ Checked = {}
      BY DEF Init, Fresh, ActiveRows, Active, Checked, NoCall
    <2> QED  BY <2>1, FS_EmptySet, FS_CardinalityType, ExtractionAssumption DEF FewInv
  <1>2. ExtractionInv /\ FewInv /\ [Next]_vars => FewInv'
    BY RequestFew, OtherFew DEF Next
  <1>3. FewInv => FewActive
    <2> SUFFICES ASSUME FewInv PROVE FewActive
      OBVIOUS
    <2>1. IsFiniteSet(Checked)
      BY FS_Subset, ExtractionAssumption DEF Checked
    <2>2. /\ Cardinality(Checked) \in Nat /\ Cardinality(Fresh) \in Nat
          /\ Cardinality(Calls) \in Nat
      BY <2>1, FS_CardinalityType, ExtractionAssumption DEF FewInv
    <2>3. Cardinality(Fresh) <= Cardinality(Calls)
      BY <2>2 DEF FewInv
    <2> QED  BY <2>3 DEF FewActive, Fresh
  <1> QED  BY <1>1, <1>2, <1>3, ExtractionInvariance, PTL DEF Spec

-----------------------------------------------------------------------------
(* The token budget of a prompt.                                           *)

(* Every document's share of the limit. *)
Share == limit \div count

(* The invariant, in parts. *)
Balanced == sent + remaining = limit
(* What is left suffices for the shares still to come. *)
ShareLeft == index < count => Share * (count - index) <= remaining
(* Only documents above the share were cut. *)
CutFairly == \A i \in cut : i <= index /\ Tokens(texts[i]) > Share

(* The inductive invariant; without a limit nothing is cut. *)
BudgetInv == BudgetTypeOK /\ (~Unlimited => Balanced /\ ShareLeft /\ CutFairly)

-----------------------------------------------------------------------------
(* Arithmetic.                                                             *)

(* The quotient is the number of times that b fits into a.                 *)
LEMMA Quotient ==
  ASSUME NEW a \in Nat, NEW b \in Nat \ {0}
  PROVE  a \div b \in Nat /\ b * (a \div b) <= a /\ a < b * (a \div b) + b
  BY SMT

(* Products grow with their factors.                                       *)
LEMMA ProductGrows ==
  ASSUME NEW m \in Nat, NEW n \in Nat, NEW k \in Nat, m <= n
  PROVE  k * m <= k * n /\ k * m \in Nat /\ k * n \in Nat
  BY SMT

(* What fits k times is no more than the quotient by k.                    *)
LEMMA FitsQuotient ==
  ASSUME NEW a \in Nat, NEW b \in Nat \ {0}, NEW q \in Nat, b * q <= a
  PROVE  q <= a \div b
  <1> DEFINE d == a \div b
  <1>1. d \in Nat /\ a < b * d + b
    BY Quotient
  <1>2. SUFFICES ASSUME d + 1 <= q PROVE FALSE
    BY <1>1
  <1>3. b * (d + 1) <= b * q
    BY <1>1, <1>2, ProductGrows
  <1>4. b * (d + 1) = b * d + b
    BY <1>1
  <1> QED  BY <1>1, <1>3, <1>4

(* A text of no more than q tokens' worth of characters has at most q tokens. *)
LEMMA TokensFit ==
  ASSUME BudgetAssumption, NEW n \in Nat, NEW q \in Nat, n <= q * CharsPerToken
  PROVE  Tokens(n) \in Nat /\ Tokens(n) <= q
  <1> DEFINE c == CharsPerToken
             t == (n + c - 1) \div c
  <1>1. c \in Nat \ {0} /\ n + c - 1 \in Nat
    BY DEF BudgetAssumption
  <1>2. t \in Nat /\ c * t <= n + c - 1
    BY <1>1, Quotient
  <1>3. SUFFICES ASSUME q + 1 <= t PROVE FALSE
    BY <1>2 DEF Tokens
  <1>4. c * (q + 1) <= c * t
    BY <1>1, <1>2, <1>3, ProductGrows
  <1>5. c * (q + 1) = q * c + c
    BY <1>1
  <1>6. n + c - 1 < q * c + c
    BY <1>1
  <1> QED  BY <1>1, <1>2, <1>4, <1>5, <1>6

(* Who takes no more than the k-th part of r leaves the others theirs.     *)
LEMMA SharesRemain ==
  ASSUME NEW r \in Nat, NEW k \in Nat \ {0}, NEW q \in Nat, NEW u \in Nat,
         q * k <= r, u <= r \div k
  PROVE  r - u \in Nat /\ q * (k - 1) <= r - u
  <1> DEFINE d == r \div k
  <1>1. d \in Nat /\ k * d <= r
    BY Quotient
  <1>2. k - 1 \in Nat /\ q <= d
    BY FitsQuotient
  <1>3. (k - 1) * q <= (k - 1) * d
    BY <1>1, <1>2, ProductGrows
  <1>4. (k - 1) * d = k * d - d /\ (k - 1) * q = q * (k - 1)
    BY <1>1
  <1>5. (k - 1) * d \in Nat
    BY <1>1, <1>2, ProductGrows
  <1> QED  BY <1>1, <1>2, <1>3, <1>4, <1>5

(* No cut is longer than asked for.                                        *)
LEMMA TruncatedFits ==
  ASSUME BudgetAssumption, NEW chars \in Nat, NEW n \in Truncated(chars)
  PROVE  n \in Nat /\ n <= chars
  BY DEF BudgetAssumption, Truncated, AtWordBoundary

-----------------------------------------------------------------------------
(* The loop.                                                               *)

(* Tokens are counted in natural numbers. *)
LEMMA TokensAreNat ==
  ASSUME BudgetAssumption, BudgetTypeOK, NEW i \in 1..count
  PROVE  Tokens(texts[i]) \in Nat
  <1>1. texts[i] \in Nat
    BY DEF BudgetTypeOK, BudgetAssumption
  <1>2. texts[i] + CharsPerToken - 1 \in Nat /\ CharsPerToken \in Nat \ {0}
    BY <1>1 DEF BudgetAssumption
  <1> QED  BY <1>2, Quotient DEF Tokens

(* So are the shares. *)
LEMMA SharesAreNat ==
  ASSUME BudgetAssumption, BudgetTypeOK, index < count
  PROVE  /\ Share \in Nat /\ Quota \in Nat /\ count - index \in Nat \ {0}
         /\ (~Unlimited /\ ShareLeft) => Share <= Quota
  <1>1. limit \in Nat /\ count \in Nat \ {0} /\ count - index \in Nat \ {0} /\ remaining \in Nat
    BY DEF BudgetAssumption, BudgetTypeOK
  <1>2. Share \in Nat /\ Quota \in Nat
    BY <1>1, Quotient DEF Share, Quota
  <1>3. ShareLeft => Share <= Quota
    BY <1>1, <1>2, FitsQuotient DEF Quota, ShareLeft
  <1> QED  BY <1>1, <1>2, <1>3

(* Before the first document everything is left. *)
LEMMA StartsFair == ASSUME BudgetAssumption, BudgetInit PROVE BudgetInv
  <1>1. BudgetTypeOK /\ Balanced /\ CutFairly
    BY DEF BudgetAssumption, BudgetInit, BudgetTypeOK, Balanced, CutFairly
  <1>2. ShareLeft
    <2> SUFFICES ASSUME index < count PROVE Share * (count - index) <= remaining
      BY DEF ShareLeft
    <2>1. limit \in Nat /\ count \in Nat \ {0} /\ index = 0 /\ remaining = limit
      BY DEF BudgetAssumption, BudgetInit
    <2>2. Share \in Nat /\ count * Share <= limit
      BY <2>1, Quotient DEF Share
    <2> QED  BY <2>1, <2>2
  <1> QED  BY <1>1, <1>2 DEF BudgetInv

(* One document more that is charged no more than its quota.               *)
LEMMA ChargeKeepsShares ==
  ASSUME BudgetAssumption, BudgetInv, ~Unlimited, index < count,
         NEW used \in Nat, used <= Quota,
         remaining' = remaining - used, sent' = sent + used, index' = index + 1,
         UNCHANGED <<count, texts, limit>>
  PROVE  remaining' \in Nat /\ sent' \in Nat /\ Balanced' /\ ShareLeft'
  <1> DEFINE k == count - index
  <1>1. k \in Nat \ {0} /\ Share \in Nat /\ remaining \in Nat /\ sent \in Nat /\ limit \in Nat
    BY SharesAreNat DEF BudgetInv, BudgetTypeOK, BudgetAssumption
  <1>2. Share * k <= remaining
    BY DEF BudgetInv, ShareLeft
  <1>3. remaining - used \in Nat /\ Share * (k - 1) <= remaining - used
    BY <1>1, <1>2, SharesRemain DEF Quota
  <1>4. Balanced'
    BY <1>1, <1>3 DEF BudgetInv, Balanced
  <1>5. Share' = Share /\ count' - index' = k - 1
    BY DEF Share, BudgetInv, BudgetTypeOK, BudgetAssumption
  <1>6. ShareLeft'
    BY <1>3, <1>5 DEF ShareLeft
  <1> QED  BY <1>1, <1>3, <1>4, <1>6

(* Each document takes at most what its share leaves to it. *)
LEMMA StepKeepsFair ==
  ASSUME BudgetAssumption, BudgetInv, [BudgetNext]_budgetVars
  PROVE  BudgetInv'
  <1> USE DEF BudgetInv
  <1>1. CASE Hand
    <2> DEFINE used == Tokens(texts[index + 1])
    <2>1. index < count /\ index + 1 \in 1..count
      BY <1>1 DEF Hand, BudgetTypeOK, BudgetAssumption
    <2>2. used \in Nat
      BY <2>1, TokensAreNat
    <2>3. UNCHANGED <<count, texts, limit, cut>> /\ index' = index + 1 /\ sent' = sent + used
      BY <1>1 DEF Hand
    <2>4. Unlimited' = Unlimited
      BY <2>3 DEF Unlimited, TotalUpTo
    <2>5. CASE Unlimited
      BY <1>1, <2>1, <2>2, <2>3, <2>4, <2>5 DEF Hand, BudgetTypeOK, BudgetAssumption
    <2>6. CASE ~Unlimited
      <3>1. used <= Quota /\ remaining' = remaining - used
        BY <1>1, <2>6 DEF Hand
      <3>2. remaining' \in Nat /\ sent' \in Nat /\ Balanced' /\ ShareLeft'
        BY <2>1, <2>2, <2>3, <2>6, <3>1, ChargeKeepsShares
      <3>3. CutFairly'
        BY <2>1, <2>3, <2>6 DEF CutFairly, Share, Tokens, BudgetTypeOK, BudgetAssumption
      <3> QED  BY <2>1, <2>3, <3>2, <3>3 DEF BudgetTypeOK, BudgetAssumption
    <2> QED  BY <2>5, <2>6
  <1>2. CASE Shorten
    <2>1. index < count /\ index + 1 \in 1..count
      BY <1>2 DEF Shorten, BudgetTypeOK, BudgetAssumption
    <2>2. UNCHANGED <<count, texts, limit>> /\ index' = index + 1 /\ cut' = cut \cup {index + 1}
      BY <1>2 DEF Shorten
    <2>3. ~Unlimited /\ Tokens(texts[index + 1]) > Quota
      BY <1>2 DEF Shorten
    <2>4. PICK length \in Truncated(Quota * CharsPerToken) :
             remaining' = remaining - Tokens(length) /\ sent' = sent + Tokens(length)
      BY <1>2 DEF Shorten
    <2>5. Quota \in Nat /\ Share \in Nat /\ Share <= Quota /\ Quota * CharsPerToken \in Nat
      BY <2>1, <2>3, SharesAreNat, ProductGrows DEF BudgetAssumption
    <2>6. length \in Nat /\ length <= Quota * CharsPerToken
      BY <2>4, <2>5, TruncatedFits
    <2>7. Tokens(length) \in Nat /\ Tokens(length) <= Quota
      BY <2>5, <2>6, TokensFit
    <2>8. remaining' \in Nat /\ sent' \in Nat /\ Balanced' /\ ShareLeft'
      BY <2>1, <2>2, <2>3, <2>4, <2>7, ChargeKeepsShares
    <2>9. CutFairly'
      <3> SUFFICES ASSUME NEW i \in cut'
                   PROVE  i <= index' /\ Tokens(texts[i])' > Share'
        BY DEF CutFairly
      <3>1. Share' = Share /\ Tokens(texts[i])' = Tokens(texts[i])
        BY <2>2 DEF Share, Tokens
      <3>2. CASE i \in cut
        BY <2>2, <2>3, <3>1, <3>2 DEF CutFairly, BudgetTypeOK, BudgetAssumption
      <3>3. CASE i = index + 1
        <4>1. Tokens(texts[i]) \in Nat
          BY <2>1, <3>3, TokensAreNat
        <4> QED  BY <2>2, <2>3, <2>5, <3>1, <3>3, <4>1 DEF BudgetTypeOK, BudgetAssumption
      <3> QED  BY <2>2, <3>2, <3>3
    <2> QED  BY <2>1, <2>2, <2>8, <2>9 DEF BudgetTypeOK, BudgetAssumption
  <1>3. CASE UNCHANGED budgetVars
    BY <1>3 DEF budgetVars, BudgetTypeOK, Unlimited, TotalUpTo, Balanced, ShareLeft, CutFairly,
       Share, Tokens
  <1> QED  BY <1>1, <1>2, <1>3 DEF BudgetNext

(* The invariant implies both guarantees. *)
LEMMA FairKeepsBudget == ASSUME BudgetAssumption, BudgetInv PROVE BudgetKept
  BY DEF BudgetAssumption, BudgetInv, BudgetTypeOK, Balanced, CutFairly, BudgetKept, Share

-----------------------------------------------------------------------------
(* The invariant holds for every number of documents and every limit.      *)
THEOREM BudgetInvariant == BudgetSpec => []BudgetInv
  <1>1. BudgetInit => BudgetInv
    BY BudgetAssumption, StartsFair
  <1>2. BudgetInv /\ [BudgetNext]_budgetVars => BudgetInv'
    BY BudgetAssumption, StepKeepsFair
  <1> QED  BY <1>1, <1>2, PTL DEF BudgetSpec

(* The provider never gets more tokens than AI_MAX_INPUT_TOKENS allows, and *)
(* no document within an equal share is cut (input-token-budget.ts).        *)
THEOREM BudgetIsKept == BudgetSpec => []BudgetKept
  <1>1. BudgetInv => BudgetKept
    BY BudgetAssumption, FairKeepsBudget
  <1> QED  BY <1>1, BudgetInvariant, PTL

-----------------------------------------------------------------------------
(* The worker's heartbeat.                                                 *)

\* Any bounded set of numbers has a greatest one.
LEMMA GreatestExists ==
  ASSUME NEW S \in SUBSET Nat, S # {}, NEW n \in Nat, \A s \in S : s <= n
  PROVE  \E m \in S : \A s \in S : s <= m
  <1> DEFINE T == {n - s : s \in S}
  <1>1. T \subseteq Nat /\ T # {}
    <2>1. \A s \in S : n - s \in Nat
      OBVIOUS
    <2>2. PICK s \in S : TRUE
      OBVIOUS
    <2>3. n - s \in T
      BY <2>2
    <2> QED  BY <2>1, <2>3
  <1>2. PICK x \in T : \A y \in T : ~(<<y, x>> \in OpToRel(<, Nat))
    <2> HIDE DEF T
    <2> QED  BY <1>1, NatLessThanWellFounded, WFMin
  <1>3. \A y \in T : ~(y < x)
    BY <1>1, <1>2 DEF OpToRel
  <1>4. PICK m \in S : x = n - m
    OBVIOUS
  <1>5. \A s \in S : n - s \in T
    OBVIOUS
  <1>6. ASSUME NEW s \in S PROVE s <= m
    <2>1. ~(n - s < x)
      BY <1>3, <1>5
    <2>2. x = n - m /\ m \in Nat /\ s \in Nat
      BY <1>4
    <2> QED  BY <2>1, <2>2
  <1> QED  BY <1>4, <1>6

(* When a row can have been written: never, or at some time so far. *)
BeatTimes == {Unwritten} \cup 0..time

(* Types, with a clock of any height. *)
HeartShape ==
  /\ time \in Nat
  /\ due \subseteq alive /\ alive \subseteq WorkerIds
  /\ lastSeenAt \in [WorkerIds -> BeatTimes]
  /\ lastAlive \in [WorkerIds -> BeatTimes]
  /\ missed \in [WorkerIds -> 0..BeatTimeout]

\* A row is from a time at which the worker ran.
RowsLived ==
  \A w \in WorkerIds : lastSeenAt[w] # Unwritten =>
     lastAlive[w] # Unwritten /\ lastSeenAt[w] <= lastAlive[w]

\* The heartbeats a worker failed to write are all that its row can be behind.
RowsFresh ==
  \A w \in alive : missed[w] < BeatTimeout =>
     /\ lastSeenAt[w] # Unwritten
     /\ time - lastSeenAt[w] <= missed[w] + (IF w \in due THEN 1 ELSE 0)

(* The inductive invariant: a worker that runs has lived until now, rows   *)
(* are from workers that ran, and a row is behind by no more than the      *)
(* heartbeats that failed.                                                 *)
HeartInv ==
  /\ HeartShape
  /\ \A w \in alive : lastAlive[w] = time
  /\ RowsLived
  /\ RowsFresh

(* The constants of the heartbeat are numbers, the timeout below the       *)
(* retention.                                                              *)
LEMMA HeartNumbers ==
  /\ BeatTimeout \in Nat /\ BeatTimeout > 0 /\ BeatRetention \in Nat
  /\ BeatTimeout <= BeatRetention /\ Unwritten = -1
  BY HeartbeatAssumption DEF Unwritten

(* At the start no worker has written and all are due. *)
LEMMA HeartStarts == HeartInit => HeartInv
  BY HeartNumbers DEF HeartInit, HeartInv, HeartShape, RowsLived, RowsFresh, BeatTimes

(* A beat of the clock: a worker still due has missed one heartbeat more. *)
LEMMA HeartBeats == HeartInv /\ Beat => HeartInv'
  <1> SUFFICES ASSUME HeartInv, Beat PROVE HeartInv'
    OBVIOUS
  <1>1. HeartShape'
    BY HeartNumbers DEF HeartInv, HeartShape, Beat, BeatTimes
  <1>2. \A w \in alive' : lastAlive'[w] = time'
    BY DEF HeartInv, HeartShape, Beat
  <1>3. RowsLived'
    BY HeartNumbers DEF HeartInv, HeartShape, Beat, RowsLived, BeatTimes
  <1>4. RowsFresh'
    BY HeartNumbers DEF HeartInv, HeartShape, Beat, RowsFresh, BeatTimes
  <1> QED  BY <1>1, <1>2, <1>3, <1>4 DEF HeartInv

\* The cleanup of a starting worker takes no row of one that is known to be up.
LEMMA HeartStartsWorker ==
  ASSUME NEW w \in WorkerIds, HeartInv, StartWorker(w) PROVE HeartInv'
  <1>0. /\ \A v \in WorkerIds \ {w} : lastAlive'[v] = lastAlive[v] /\ missed'[v] = missed[v]
        /\ lastAlive'[w] = time /\ missed'[w] = BeatTimeout /\ time' = time
        /\ alive' = alive \cup {w} /\ due' = due \cup {w}
        /\ lastAlive' \in [WorkerIds -> BeatTimes] /\ missed' \in [WorkerIds -> 0..BeatTimeout]
    BY HeartNumbers DEF HeartInv, HeartShape, StartWorker, BeatTimes
  <1>1. /\ lastSeenAt' \in [WorkerIds -> BeatTimes]
        /\ \A v \in WorkerIds : (\/ lastSeenAt'[v] = lastSeenAt[v]
                                 \/ lastSeenAt'[v] = Unwritten /\ Orphan(v))
    <2>0. lastSeenAt \in [WorkerIds -> BeatTimes] /\ Unwritten \in BeatTimes
      BY DEF HeartInv, HeartShape, BeatTimes
    <2>1. CASE lastSeenAt' = [v \in WorkerIds |-> IF Orphan(v) THEN Unwritten ELSE lastSeenAt[v]]
      BY <2>0, <2>1, Zenon
    <2>2. CASE UNCHANGED lastSeenAt
      BY <2>0, <2>2
    <2> QED  BY <2>1, <2>2 DEF StartWorker
  <1>2. HeartShape'
    BY <1>0, <1>1 DEF HeartInv, HeartShape, BeatTimes
  <1>3. \A v \in alive' : lastAlive'[v] = time'
    BY <1>0 DEF HeartInv, HeartShape
  <1>4. RowsLived'
    BY <1>0, <1>1, HeartNumbers DEF HeartInv, HeartShape, RowsLived, BeatTimes
  <1>5. ASSUME NEW v \in alive', missed'[v] < BeatTimeout'
        PROVE  /\ lastSeenAt'[v] # Unwritten
               /\ time' - lastSeenAt'[v] <= missed'[v] + (IF v \in due' THEN 1 ELSE 0)
    <2>1. v # w /\ v \in alive /\ v \in WorkerIds /\ missed[v] < BeatTimeout
      BY <1>0, <1>5, HeartNumbers DEF HeartInv, HeartShape
    <2>2. /\ lastSeenAt[v] # Unwritten
          /\ time - lastSeenAt[v] <= missed[v] + (IF v \in due THEN 1 ELSE 0)
      BY <2>1 DEF HeartInv, RowsFresh
    <2>3. /\ lastSeenAt[v] \in Int /\ time \in Nat /\ missed[v] \in Nat
      BY <2>1, HeartNumbers DEF HeartInv, HeartShape, BeatTimes
    <2>4. ~Orphan(v)
      BY <2>1, <2>2, <2>3, HeartNumbers DEF Orphan
    <2> QED  BY <1>0, <1>1, <2>1, <2>2, <2>4
  <1> QED  BY <1>2, <1>3, <1>4, <1>5 DEF HeartInv, RowsFresh

(* A heartbeat brings the row up to date, and the rows that are too old    *)
(* go.                                                                     *)
LEMMA HeartWrites ==
  ASSUME NEW w \in WorkerIds, HeartInv, WriteHeartbeat(w) PROVE HeartInv'
  <1>0. /\ \A v \in WorkerIds \ {w} : lastSeenAt'[v] = lastSeenAt[v] /\ missed'[v] = missed[v]
        /\ lastAlive' = lastAlive /\ time' = time /\ alive' = alive /\ due' = due \ {w}
        /\ w \in due /\ w \in alive
    BY DEF HeartInv, HeartShape, WriteHeartbeat
  <1>1. \/ lastSeenAt'[w] = time /\ missed'[w] = 0
        \/ /\ lastSeenAt'[w] = lastSeenAt[w]
           /\ missed[w] < BeatTimeout => missed'[w] = missed[w] + 1
           /\ ~(missed[w] < BeatTimeout) => missed'[w] = missed[w]
    BY DEF HeartInv, HeartShape, WriteHeartbeat
  <1>2. lastSeenAt' \in [WorkerIds -> BeatTimes] /\ missed' \in [WorkerIds -> 0..BeatTimeout]
    BY HeartNumbers DEF HeartInv, HeartShape, WriteHeartbeat, BeatTimes
  <1>3. HeartShape'
    BY <1>0, <1>2 DEF HeartInv, HeartShape, BeatTimes
  <1>4. RowsLived'
    BY <1>0, <1>1, HeartNumbers DEF HeartInv, HeartShape, RowsLived
  <1>5. RowsFresh'
    BY <1>0, <1>1, HeartNumbers DEF HeartInv, HeartShape, RowsFresh, BeatTimes
  <1> QED  BY <1>0, <1>3, <1>4, <1>5 DEF HeartInv

(* A worker that stops leaves its row behind. *)
LEMMA HeartStops ==
  ASSUME NEW w \in WorkerIds, HeartInv, StopWorker(w) PROVE HeartInv'
  BY DEF HeartInv, HeartShape, RowsLived, RowsFresh, BeatTimes, StopWorker

(* The invariant of the heartbeat holds in every reachable state.          *)
THEOREM HeartInvariance == HeartSpec => []HeartInv
  <1>1. HeartInv /\ [HeartNext]_heartVars => HeartInv'
    <2> SUFFICES ASSUME HeartInv, [HeartNext]_heartVars PROVE HeartInv'
      OBVIOUS
    <2>1. CASE Beat
      BY <2>1, HeartBeats
    <2>2. ASSUME NEW w \in WorkerIds, StartWorker(w) \/ WriteHeartbeat(w) \/ StopWorker(w)
          PROVE  HeartInv'
      BY <2>2, HeartStartsWorker, HeartWrites, HeartStops
    <2>3. CASE UNCHANGED heartVars
      BY <2>3 DEF heartVars, HeartInv, HeartShape, RowsLived, RowsFresh, BeatTimes
    <2> QED  BY <2>1, <2>2, <2>3 DEF HeartNext
  <1> QED  BY <1>1, HeartStarts, PTL DEF HeartSpec

(* The newest row, where there is one, is some worker's. *)
LEMMA NewestRow ==
  ASSUME HeartInv, Beats # {}
  PROVE  /\ Newest \in Nat /\ \A t \in Beats : t <= Newest
         /\ \E w \in WorkerIds : lastSeenAt[w] = Newest
  <1>1. Beats \in SUBSET Nat /\ time \in Nat /\ \A t \in Beats : t <= time
    BY HeartNumbers DEF HeartInv, HeartShape, BeatTimes, Beats
  <1>2. \E t \in Beats : \A u \in Beats : u <= t
    <2> HIDE DEF Beats
    <2> QED  BY <1>1, GreatestExists
  <1>3. Newest \in Beats /\ \A u \in Beats : u <= Newest
    BY <1>2 DEF Newest
  <1> QED  BY <1>1, <1>3 DEF Beats

(* What GET /ready says of the worker is so, for any number of workers,    *)
(* any timeout and any retention no shorter than it: a worker that runs    *)
(* and whose heartbeats did not all fail for that long is "up", and "up"   *)
(* means that some worker ran within the timeout.                          *)
THEOREM WorkerStateTrue == HeartSpec => []HeartbeatTrue
  <1>1. HeartInv => HeartbeatTrue
    <2> SUFFICES ASSUME HeartInv PROVE HeartbeatTrue
      OBVIOUS
    <2>1. ASSUME NEW w \in alive, missed[w] < BeatTimeout PROVE Status = "up"
      <3>1. /\ w \in WorkerIds /\ lastSeenAt[w] # Unwritten /\ lastSeenAt[w] \in Int
            /\ time \in Nat /\ missed[w] \in Nat
            /\ time - lastSeenAt[w] <= missed[w] + 1
        BY <2>1, HeartNumbers DEF HeartInv, HeartShape, RowsFresh, BeatTimes
      <3>2. lastSeenAt[w] \in Beats
        BY <3>1 DEF Beats
      <3>3. lastSeenAt[w] <= Newest /\ Newest \in Nat
        BY <3>2, NewestRow
      <3> QED  BY <2>1, <3>1, <3>2, <3>3, HeartNumbers DEF Status
    <2>2. ASSUME Status = "up"
          PROVE  \E w \in WorkerIds : lastAlive[w] # Unwritten
                                      /\ time - lastAlive[w] <= BeatTimeout
      <3>1. Beats # {} /\ ~(time - Newest > BeatTimeout)
        BY <2>2 DEF Status
      <3>2. PICK w \in WorkerIds : lastSeenAt[w] = Newest
        BY <3>1, NewestRow
      <3>3. lastAlive[w] # Unwritten /\ Newest <= lastAlive[w] /\ Newest \in Nat
        BY <3>1, <3>2, NewestRow, HeartNumbers DEF HeartInv, RowsLived
      <3>4. lastAlive[w] \in Int /\ time \in Nat
        BY <3>2, HeartNumbers DEF HeartInv, HeartShape, BeatTimes
      <3> QED  BY <3>1, <3>3, <3>4, HeartNumbers
    <2> QED  BY <2>1, <2>2 DEF HeartbeatTrue
  <1> QED  BY <1>1, HeartInvariance, PTL

-----------------------------------------------------------------------------
(* The summaries a policy keeps.                                           *)

(* The fields of a request for a summary. *)
AskFields == {"phase", "kind", "by", "docs", "row", "drop", "proposal", "bill"}
(* A function that is determined by its values on the given fields. *)
IsRecord(x, fields) == DOMAIN x = fields /\ x = [f \in fields |-> x[f]]
(* The shape of a request; the values of its fields are left open, since   *)
(* what the summaries say does not matter for which of them are kept.      *)
IsAsk(x) == IsRecord(x, AskFields) /\ IsRecord(x.row, {"at", "summary"})

(* Every asker has a request of that shape. *)
AskShape == DOMAIN ask = Askers /\ ask = [a \in Askers |-> ask[a]]
            /\ \A a \in Askers : IsAsk(ask[a])

(* Requests that have created their row in a transaction that has not      *)
(* committed.                                                              *)
Writers == {a \in Askers : ask[a].phase \in {"created", "read"}}
(* Those of them that have read which rows are surplus. *)
Readers == {a \in Askers : ask[a].phase = "read"}

(* Rows that some requests are about to add. *)
RowsOf(some) == {ask[a].row : a \in some}
(* Rows that some requests are about to delete. *)
DropsOf(some) == UNION {ask[a].drop : a \in some}

\* The table when some of those that know their surplus have committed.
After(some) == (stored \cup RowsOf(some)) \ DropsOf(some)

\* A row is known by its number.
RowsApart ==
  /\ \A s \in stored : s.at \in 1..clock
  /\ \A s, t \in stored : s.at = t.at => s = t
  /\ \A a \in Writers : ask[a].row.at \in 1..clock
  /\ \A a \in Writers, s \in stored : s.at # ask[a].row.at
  /\ \A a, b \in Writers : a # b => ask[a].row.at # ask[b].row.at

\* What a cleanup has seen.
DropsSeen ==
  \A a \in Readers : \A r \in ask[a].drop :
     /\ r.at \in 1..clock
     /\ \A b \in Writers : b # a => r.at # ask[b].row.at

(* A row that is to go is older than one in the table or than the row of   *)
(* the request that drops it.                                              *)
DropsOld ==
  \A a \in Readers : \A d \in ask[a].drop : \E r \in stored \cup {ask[a].row} : r.at > d.at

(* One row more than the limit for every request beyond the first. *)
MostRows == Keep + Cardinality(Askers) - 1

(* Whichever of the readers commit, and in whichever order, the table has  *)
(* at most that many rows; the statement about the table itself is the     *)
(* case of nobody.                                                         *)
CapInv ==
  \A some \in SUBSET Readers : Cardinality(After(some)) <= MostRows

(* The inductive invariant. *)
SummaryInv ==
  /\ AskShape
  /\ clock \in Nat /\ IsFiniteSet(stored)
  /\ RowsApart
  /\ DropsSeen
  /\ DropsOld
  /\ CapInv

(* The constants are numbers, and the askers finitely many. *)
LEMMA SummaryNumbers ==
  /\ Keep \in Nat /\ Keep > 0 /\ Cardinality(Askers) \in Nat /\ IsFiniteSet(Askers)
  /\ MostRows \in Int
  BY SummariesAssumption, FS_CardinalityType DEF MostRows

(* Some requests add no more rows than they are. *)
LEMMA FewRows ==
  ASSUME NEW some \in SUBSET Askers
  PROVE  /\ IsFiniteSet(RowsOf(some)) /\ IsFiniteSet(some)
         /\ Cardinality(RowsOf(some)) <= Cardinality(some)
         /\ Cardinality(RowsOf(some)) \in Nat /\ Cardinality(some) \in Nat
  <1>1. IsFiniteSet(some)
    BY SummaryNumbers, FS_Subset
  <1> DEFINE f == [a \in some |-> ask[a].row]
  <1>2. f \in Surjection(some, RowsOf(some))
    BY DEF Surjection, RowsOf
  <1>3. IsFiniteSet(RowsOf(some)) /\ Cardinality(RowsOf(some)) <= Cardinality(some)
    <2> HIDE DEF f
    <2> QED  BY <1>1, <1>2, FS_Surjection
  <1> QED  BY <1>1, <1>3, FS_CardinalityType

\* A set of numbered rows has a first and a last.
LEMMA LastRow ==
  ASSUME NEW V, V # {}, NEW n \in Nat, \A s \in V : s.at \in 1..n
  PROVE  \E m \in V : \A s \in V : s.at <= m.at
  <1> DEFINE S == {s.at : s \in V}
  <1>1. S \in SUBSET Nat /\ S # {} /\ \A k \in S : k <= n
    OBVIOUS
  <1>2. PICK k \in S : \A l \in S : l <= k
    <2> HIDE DEF S
    <2> QED  BY <1>1, GreatestExists
  <1>3. PICK m \in V : m.at = k
    OBVIOUS
  <1> QED  BY <1>2, <1>3

(* Any set of numbered rows has an oldest one. *)
LEMMA FirstRow ==
  ASSUME NEW V, V # {}, NEW n \in Nat, \A s \in V : s.at \in 1..n
  PROVE  \E m \in V : \A s \in V : m.at <= s.at
  <1> DEFINE S == {n - s.at : s \in V}
  <1>1. S \in SUBSET Nat /\ S # {} /\ \A k \in S : k <= n
    OBVIOUS
  <1>2. PICK k \in S : \A l \in S : l <= k
    <2> HIDE DEF S
    <2> QED  BY <1>1, GreatestExists
  <1>3. PICK m \in V : n - m.at = k
    OBVIOUS
  <1>4. \A s \in V : n - s.at <= n - m.at
    BY <1>2, <1>3
  <1> HIDE DEF S
  <1> QED  BY <1>4

\* The surplus leaves no more rows than a policy keeps.
LEMMA SurplusLeavesFew ==
  ASSUME NEW V, IsFiniteSet(V), NEW n \in Nat, \A s \in V : s.at \in 1..n,
         \A s, t \in V : s.at = t.at => s = t
  PROVE  /\ IsFiniteSet(V \ Surplus(V))
         /\ Cardinality(V \ Surplus(V)) \in Nat
         /\ Cardinality(V \ Surplus(V)) <= Keep
  <1> DEFINE T == V \ Surplus(V)
  <1>0. IsFiniteSet(T) /\ Cardinality(T) \in Nat
    BY FS_Subset, FS_CardinalityType
  <1>1. CASE T = {}
    BY <1>0, <1>1, FS_EmptySet, SummaryNumbers
  <1>2. CASE T # {}
    <2>1. PICK m \in T : \A s \in T : m.at <= s.at
      <3>1. \A s \in T : s.at \in 1..n
        OBVIOUS
      <3> HIDE DEF T
      <3> QED  BY <1>2, <3>1, FirstRow
    <2>2. ~(Cardinality(Newer(V, m)) >= Keep)
      BY <2>1 DEF Surplus
    <2>3. IsFiniteSet(Newer(V, m)) /\ Cardinality(Newer(V, m)) \in Nat
      BY FS_Subset, FS_CardinalityType DEF Newer
    <2>4. T \ {m} \subseteq Newer(V, m)
      BY <2>1 DEF Newer
    <2>5. Cardinality(T \ {m}) <= Cardinality(Newer(V, m))
      BY <2>3, <2>4, FS_Subset
    <2>6. Cardinality(T \ {m}) = Cardinality(T) - 1
      <3> HIDE DEF T
      <3> QED  BY <1>0, <2>1, FS_RemoveElement
    <2> QED  BY <1>0, <2>2, <2>3, <2>5, <2>6, SummaryNumbers
  <1> QED  BY <1>0, <1>1, <1>2

\* A row of the surplus has a newer one.
LEMMA SurplusIsOld ==
  ASSUME NEW V, NEW s \in Surplus(V) PROVE s \in V /\ \E r \in V : r.at > s.at
  <1>1. s \in V /\ Cardinality(Newer(V, s)) >= Keep
    BY DEF Surplus
  <1>2. Newer(V, s) # {}
    BY <1>1, SummaryNumbers, FS_EmptySet
  <1> QED  BY <1>1, <1>2 DEF Newer

-----------------------------------------------------------------------------
(* No request is of the shape too. *)
LEMMA NoAskShape == IsAsk(NoAsk) /\ NoAsk.phase = "idle"
  BY DEF IsAsk, NoAsk, NoSummary, IsRecord, AskFields

(* At the start nobody asks. *)
LEMMA SummaryStarts == SummaryInit => SummaryInv
  <1> SUFFICES ASSUME SummaryInit PROVE SummaryInv
    OBVIOUS
  <1>1. AskShape /\ Writers = {} /\ Readers = {}
    <2>1. DOMAIN ask = Askers /\ ask = [a \in Askers |-> ask[a]]
          /\ \A a \in Askers : ask[a] = NoAsk
      BY DEF SummaryInit
    <2> QED  BY <2>1, NoAskShape DEF AskShape, Writers, Readers
  <1>2. clock \in Nat /\ IsFiniteSet(stored) /\ clock = Cardinality(OldSummaries)
        /\ stored \subseteq OldSummaries
        /\ Cardinality(stored) <= Cardinality(OldSummaries) /\ Cardinality(stored) \in Nat
    BY OldSummariesAssumption, FS_Subset, FS_CardinalityType DEF SummaryInit
  <1>3. RowsApart
    BY <1>1, <1>2, OldSummariesAssumption DEF RowsApart
  <1>4. ASSUME NEW some \in SUBSET Readers PROVE Cardinality(After(some)) <= MostRows
    <2>1. After(some) = stored
      BY <1>1 DEF After, RowsOf, DropsOf
    <2> QED  BY <1>2, <2>1, OldSummariesAssumption, FS_CardinalityType, SummaryNumbers DEF MostRows
  <1> QED  BY <1>1, <1>2, <1>3, <1>4 DEF SummaryInv, DropsSeen, DropsOld, CapInv

\* One request moves on, the others stay as they are.
OnlyAsk(a) ==
  /\ DOMAIN ask' = Askers /\ ask' = [b \in Askers |-> ask'[b]]
  /\ IsAsk(ask'[a])
  /\ \A b \in Askers \ {a} : ask'[b] = ask[b]

(* A step of one request leaves the others where they are. *)
LEMMA OnlyAskShape ==
  ASSUME SummaryInv, NEW a \in Askers, OnlyAsk(a)
  PROVE  /\ AskShape'
         /\ \A b \in Writers' : b # a => b \in Writers
         /\ \A b \in Readers' : b # a => b \in Readers
         /\ \A b \in Readers : b # a => b \in Readers'
         /\ \A b \in Writers : b # a => b \in Writers'
  <1>1. IsAsk(ask[a])'
    BY DEF OnlyAsk, IsAsk
  <1>2. \A b \in Askers \ {a} : IsAsk(ask[b])'
    BY DEF OnlyAsk, IsAsk, SummaryInv, AskShape
  <1> QED  BY <1>1, <1>2 DEF OnlyAsk, AskShape, SummaryInv, Writers, Readers

\* Requests that have not changed leave the table as it would have been.
LEMMA AfterSame ==
  ASSUME NEW some \in SUBSET Askers, UNCHANGED stored, \A b \in some : ask'[b] = ask[b]
  PROVE  After(some)' = After(some)
  <1>1. RowsOf(some)' = RowsOf(some)
    BY DEF RowsOf
  <1>2. DropsOf(some)' = DropsOf(some)
    BY DEF DropsOf
  <1> QED  BY <1>1, <1>2 DEF After

\* A step of a request that does not write.
LEMMA StepOutside ==
  ASSUME SummaryInv, NEW a \in Askers, OnlyAsk(a), UNCHANGED <<stored, clock>>,
         ask'[a].phase \notin {"created", "read"}
  PROVE  SummaryInv'
  <1>1. /\ AskShape'
        /\ Writers' = Writers \ {a} /\ Readers' = Readers \ {a}
        /\ \A b \in Writers' \cup Readers' : ask'[b] = ask[b]
    BY OnlyAskShape DEF OnlyAsk, Writers, Readers
  <1>2. RowsApart'
    BY <1>1 DEF SummaryInv, RowsApart
  <1>3. DropsSeen'
    BY <1>1 DEF SummaryInv, DropsSeen
  <1>4. DropsOld'
    BY <1>1 DEF SummaryInv, DropsOld
  <1>5. ASSUME NEW some \in SUBSET Readers' PROVE Cardinality(After(some)') <= MostRows'
    <2>1. After(some)' = After(some)
      BY <1>1, AfterSame DEF Readers
    <2> QED  BY <1>1, <2>1 DEF SummaryInv, CapInv, MostRows
  <1> QED  BY <1>1, <1>2, <1>3, <1>4, <1>5 DEF SummaryInv, CapInv

\* What the steps of a request write.
Picked(x, d, k) == [x EXCEPT !.phase = "selected", !.by = d, !.docs = k]
(* A request whose first answer could not be read. *)
Repairing(x) == [x EXCEPT !.phase = "repair"]
(* A request whose answer was read. *)
Answered(x, d, k) == [x EXCEPT !.phase = "answered", !.docs = d, !.row.summary = k]
(* A request that has created its row. *)
Created(x, k) == [x EXCEPT !.phase = "created", !.row.at = k]
(* A request that has read the surplus. *)
HasRead(x, k) == [x EXCEPT !.phase = "read", !.drop = k]

(* Selecting documents keeps the shape. *)
LEMMA AskPicks ==
  ASSUME NEW x, IsAsk(x), NEW d, NEW k
  PROVE  /\ IsAsk(Picked(x, d, k)) /\ Picked(x, d, k).phase = "selected"
  <1> DEFINE y == [x EXCEPT !.phase = "selected", !.by = d, !.docs = k]
  <1>1. DOMAIN x = AskFields
    BY DEF IsAsk, IsRecord
  <1>2. /\ y.phase = "selected" /\ y.row = x.row
        /\ DOMAIN y = DOMAIN x /\ y = [f \in DOMAIN x |-> y[f]]
    BY <1>1 DEF AskFields
  <1>4. IsAsk(y)
    <2> HIDE DEF y
    <2> QED  BY <1>1, <1>2 DEF IsAsk, IsRecord
  <1> QED  BY <1>1, <1>2, <1>4 DEF Picked

(* Asking again keeps the shape and the row. *)
LEMMA AskMoves ==
  ASSUME NEW x, IsAsk(x)
  PROVE  /\ IsAsk(Repairing(x)) /\ Repairing(x).phase = "repair"
  <1> DEFINE y == [x EXCEPT !.phase = "repair"]
  <1>1. DOMAIN x = AskFields
    BY DEF IsAsk, IsRecord
  <1>2. /\ y.phase = "repair" /\ y.row = x.row
        /\ DOMAIN y = DOMAIN x /\ y = [f \in DOMAIN x |-> y[f]]
    BY <1>1 DEF AskFields
  <1>4. IsAsk(y)
    <2> HIDE DEF y
    <2> QED  BY <1>1, <1>2 DEF IsAsk, IsRecord
  <1> QED  BY <1>1, <1>2, <1>4 DEF Repairing

(* An answer keeps the shape. *)
LEMMA AskAnswered ==
  ASSUME NEW x, IsAsk(x), NEW d, NEW k
  PROVE  /\ IsAsk(Answered(x, d, k)) /\ Answered(x, d, k).phase = "answered"
  <1> DEFINE y == [x EXCEPT !.phase = "answered", !.docs = d, !.row.summary = k]
             s == [x.row EXCEPT !.summary = k]
  <1>1. DOMAIN x = AskFields /\ DOMAIN x.row = {"at", "summary"}
    BY DEF IsAsk, IsRecord
  <1>2. /\ y.phase = "answered" /\ y.row = s
        /\ DOMAIN y = DOMAIN x /\ y = [f \in DOMAIN x |-> y[f]]
    BY <1>1 DEF AskFields
  <1>3. DOMAIN s = DOMAIN x.row /\ s = [f \in DOMAIN x.row |-> s[f]]
    BY <1>1
  <1>4. IsAsk(y)
    <2> HIDE DEF y, s
    <2> QED  BY <1>1, <1>2, <1>3 DEF IsAsk, IsRecord
  <1> QED  BY <1>1, <1>2, <1>3, <1>4 DEF Answered

(* Creating a row keeps the shape and numbers the row. *)
LEMMA AskCreated ==
  ASSUME NEW x, IsAsk(x), NEW k
  PROVE  /\ IsAsk(Created(x, k)) /\ Created(x, k).phase = "created"
         /\ Created(x, k).row.at = k
  <1> DEFINE y == [x EXCEPT !.phase = "created", !.row.at = k]
             s == [x.row EXCEPT !.at = k]
  <1>1. DOMAIN x = AskFields /\ DOMAIN x.row = {"at", "summary"}
    BY DEF IsAsk, IsRecord
  <1>2. /\ y.phase = "created" /\ y.row = s
        /\ DOMAIN y = DOMAIN x /\ y = [f \in DOMAIN x |-> y[f]]
    BY <1>1 DEF AskFields
  <1>3. DOMAIN s = DOMAIN x.row /\ s = [f \in DOMAIN x.row |-> s[f]] /\ s.at = k
    BY <1>1
  <1>4. IsAsk(y)
    <2> HIDE DEF y, s
    <2> QED  BY <1>1, <1>2, <1>3 DEF IsAsk, IsRecord
  <1> QED  BY <1>1, <1>2, <1>3, <1>4 DEF Created

(* Reading the surplus keeps the shape and the row. *)
LEMMA AskRead ==
  ASSUME NEW x, IsAsk(x), NEW k
  PROVE  /\ IsAsk(HasRead(x, k)) /\ HasRead(x, k).phase = "read"
         /\ HasRead(x, k).drop = k
         /\ HasRead(x, k).row = x.row
  <1> DEFINE y == [x EXCEPT !.phase = "read", !.drop = k]
  <1>1. DOMAIN x = AskFields
    BY DEF IsAsk, IsRecord
  <1>2. /\ y.phase = "read" /\ y.row = x.row /\ y.drop = k
        /\ DOMAIN y = DOMAIN x /\ y = [f \in DOMAIN x |-> y[f]]
    BY <1>1 DEF AskFields
  <1>4. IsAsk(y)
    <2> HIDE DEF y
    <2> QED  BY <1>1, <1>2 DEF IsAsk, IsRecord
  <1> QED  BY <1>1, <1>2, <1>4 DEF HasRead

(* A request that starts is not a writer. *)
LEMMA SelectDocumentsKeeps ==
  ASSUME SummaryInv, NEW a \in Askers, NEW ids \in SUBSET Docs, NEW p \in BOOLEAN,
         SelectDocuments(a, ids, p)
  PROVE  SummaryInv'
  <1> DEFINE u == (Candidates(ids) \cap Allowed) \ Unreadable
             y == Picked(NoAsk, AdapterKey, u)
  <1>1. IsAsk(y) /\ y.phase = "selected"
    BY AskPicks, NoAskShape
  <1>2. ask' = [ask EXCEPT ![a] = y] /\ UNCHANGED <<stored, clock>>
    BY DEF SelectDocuments, Picked
  <1> HIDE DEF y
  <1>3. OnlyAsk(a) /\ ask'[a] = y
    BY <1>1, <1>2 DEF OnlyAsk, SummaryInv, AskShape
  <1> QED  BY <1>1, <1>2, <1>3, StepOutside

(* A request that ends before it wrote, or whose transaction fails, takes  *)
(* its row and its deletions with it.                                      *)
LEMMA EndRequestKeeps ==
  ASSUME SummaryInv, NEW a \in Askers, EndRequest(a) PROVE SummaryInv'
  <1>2. ask' = [ask EXCEPT ![a] = NoAsk] /\ UNCHANGED <<stored, clock>>
    BY DEF EndRequest
  <1>3. OnlyAsk(a) /\ ask'[a] = NoAsk
    BY <1>2, NoAskShape DEF OnlyAsk, SummaryInv, AskShape
  <1> QED  BY <1>2, <1>3, NoAskShape, StepOutside

(* An answer of the provider writes nothing yet. *)
LEMMA ReplySummaryKeeps ==
  ASSUME SummaryInv, NEW a \in Askers, NEW answer, ReplySummary(a, answer) PROVE SummaryInv'
  <1> DEFINE y == Answered(ask[a], {}, SummaryOf(answer))
             z == Repairing(ask[a])
  <1>1. IsAsk(ask[a])
    BY DEF SummaryInv, AskShape
  <1>2. IsAsk(y) /\ y.phase = "answered" /\ IsAsk(z) /\ z.phase = "repair"
    BY <1>1, AskAnswered, AskMoves
  <1>3. UNCHANGED <<stored, clock>> /\ ask = [b \in Askers |-> ask[b]] /\ DOMAIN ask = Askers
    BY DEF ReplySummary, SummaryInv, AskShape
  <1>4. CASE ask' = [ask EXCEPT ![a].phase = "answered", ![a].docs = {},
                                ![a].row.summary = SummaryOf(answer)]
    <2>1. ask' = [ask EXCEPT ![a] = y]
      BY <1>3, <1>4 DEF Answered
    <2> HIDE DEF y
    <2>2. OnlyAsk(a) /\ ask'[a] = y
      BY <1>2, <1>3, <2>1 DEF OnlyAsk
    <2> QED  BY <1>2, <1>3, <2>2, StepOutside
  <1>5. CASE ask' = Repair(a)
    <2>1. ask' = [ask EXCEPT ![a] = IF ask[a].phase = "selected" THEN z ELSE NoAsk]
      BY <1>3, <1>5 DEF Repair, Repairing
    <2> HIDE DEF z
    <2>2. OnlyAsk(a) /\ ask'[a] \in {z, NoAsk}
      BY <1>2, <1>3, <2>1, NoAskShape DEF OnlyAsk
    <2> QED  BY <1>2, <1>3, <2>2, NoAskShape, StepOutside
  <1> QED  BY <1>4, <1>5 DEF ReplySummary

(* A row that is created has a number nobody has. *)
LEMMA CreateSummaryKeeps ==
  ASSUME SummaryInv, NEW a \in Askers, CreateSummary(a) PROVE SummaryInv'
  <1> DEFINE y == Created(ask[a], clock + 1)
  <1>1. IsAsk(ask[a]) /\ clock \in Nat
    BY DEF SummaryInv, AskShape
  <1>2. IsAsk(y) /\ y.phase = "created" /\ y.row.at = clock + 1
    BY <1>1, AskCreated
  <1>3. /\ UNCHANGED stored /\ clock' = clock + 1 /\ ask[a].phase = "answered"
        /\ ask = [b \in Askers |-> ask[b]] /\ DOMAIN ask = Askers
    BY DEF CreateSummary, SummaryInv, AskShape
  <1>4. ask' = [ask EXCEPT ![a] = y]
    BY <1>3 DEF CreateSummary, Created
  <1> HIDE DEF y
  <1>5. OnlyAsk(a) /\ ask'[a].phase = "created" /\ ask'[a].row.at = clock + 1
    BY <1>2, <1>3, <1>4 DEF OnlyAsk
  <1>6. /\ AskShape'
        /\ Writers' = Writers \cup {a} /\ Readers' = Readers
        /\ a \notin Writers /\ a \notin Readers
        /\ \A b \in Writers \cup Readers : ask'[b] = ask[b] /\ b # a
    BY <1>3, <1>5, OnlyAskShape DEF OnlyAsk, Writers, Readers
  <1>7. RowsApart'
    <2>1. /\ \A s \in stored : s.at \in 1..clock
          /\ \A s, t \in stored : s.at = t.at => s = t
          /\ \A b \in Writers : ask[b].row.at \in 1..clock
          /\ \A b \in Writers, s \in stored : s.at # ask[b].row.at
          /\ \A b, c \in Writers : b # c => ask[b].row.at # ask[c].row.at
      BY DEF SummaryInv, RowsApart
    <2>2. \A b \in Writers' : \/ b = a /\ (ask'[b]).row.at = clock + 1
                              \/ b # a /\ b \in Writers /\ ask'[b] = ask[b]
      BY <1>5, <1>6
    <2>3. \A s \in stored' : s.at \in 1..clock'
      BY <1>1, <1>3, <2>1
    <2>4. \A b \in Writers' : (ask'[b]).row.at \in 1..clock'
      BY <1>1, <1>3, <2>1, <2>2
    <2>5. ASSUME NEW b \in Writers', NEW s \in stored' PROVE s.at # (ask'[b]).row.at
      BY <1>1, <1>3, <2>1, <2>2
    <2>6. ASSUME NEW b \in Writers', NEW c \in Writers', b # c
          PROVE  (ask'[b]).row.at # (ask'[c]).row.at
      BY <1>1, <2>1, <2>2, <2>6
    <2>7. \A s, t \in stored' : s.at = t.at => s = t
      BY <1>3, <2>1
    <2> QED  BY <2>3, <2>4, <2>5, <2>6, <2>7 DEF RowsApart
  <1>8. DropsSeen'
    <2> SUFFICES ASSUME NEW b \in Readers', NEW r \in (ask'[b]).drop
                 PROVE  /\ r.at \in 1..clock'
                        /\ \A c \in Writers' : c # b => r.at # (ask'[c]).row.at
      BY DEF DropsSeen
    <2>1. b \in Readers /\ r \in ask[b].drop
      BY <1>6
    <2>2. r.at \in 1..clock /\ \A c \in Writers : c # b => r.at # ask[c].row.at
      BY <2>1 DEF SummaryInv, DropsSeen
    <2>3. \A c \in Writers : ask'[c] = ask[c]
      BY <1>6
    <2>4. r.at # (ask'[a]).row.at
      BY <1>1, <1>5, <2>2
    <2> QED  BY <1>1, <1>3, <1>6, <2>2, <2>3, <2>4
  <1>9. DropsOld'
    BY <1>3, <1>6 DEF SummaryInv, DropsOld
  <1>10. ASSUME NEW some \in SUBSET Readers' PROVE Cardinality(After(some)') <= MostRows'
    <2>1. After(some)' = After(some)
      BY <1>3, <1>6, AfterSame DEF Readers
    <2> QED  BY <1>6, <2>1 DEF SummaryInv, CapInv, MostRows
  <1> QED  BY <1>1, <1>3, <1>6, <1>7, <1>8, <1>9, <1>10 DEF SummaryInv, CapInv

(* The surplus is read from the table with the request's own row: what it  *)
(* leaves is the limit at most, and each later writer adds one row.        *)
LEMMA ReadSurplusKeeps ==
  ASSUME SummaryInv, NEW a \in Askers, ReadSurplus(a) PROVE SummaryInv'
  <1> DEFINE V == stored \cup {ask[a].row}
             y == HasRead(ask[a], Surplus(V))
  <1>1. IsAsk(ask[a]) /\ clock \in Nat
    BY DEF SummaryInv, AskShape
  <1>2. IsAsk(y) /\ y.phase = "read" /\ y.drop = Surplus(V) /\ y.row = ask[a].row
    BY <1>1, AskRead
  <1>3. /\ UNCHANGED <<stored, clock>> /\ ask[a].phase = "created"
        /\ ask = [b \in Askers |-> ask[b]] /\ DOMAIN ask = Askers
    BY DEF ReadSurplus, SummaryInv, AskShape
  <1>4. ask' = [ask EXCEPT ![a] = y]
    BY <1>3 DEF ReadSurplus, HasRead
  <1> HIDE DEF y
  <1>5. /\ OnlyAsk(a) /\ (ask'[a]).phase = "read" /\ (ask'[a]).drop = Surplus(V)
        /\ (ask'[a]).row = ask[a].row
    BY <1>2, <1>3, <1>4 DEF OnlyAsk
  <1>6. /\ AskShape'
        /\ Writers' = Writers /\ Readers' = Readers \cup {a}
        /\ a \in Writers /\ a \notin Readers /\ Writers \subseteq Askers
        /\ \A b \in Askers : (ask'[b]).row = ask[b].row
        /\ \A b \in Readers : (ask'[b]).drop = ask[b].drop /\ ask'[b] = ask[b]
    BY <1>3, <1>5, OnlyAskShape DEF OnlyAsk, Writers, Readers
  <1> DEFINE r == ask[a].row
  <1>7. /\ \A s \in V : s.at \in 1..clock
        /\ \A s, t \in V : s.at = t.at => s = t
        /\ \A s \in V : \A c \in Writers : c # a => s.at # ask[c].row.at
    BY <1>6 DEF SummaryInv, RowsApart
  <1>8. RowsApart'
    <2>1. \A b \in Writers : (ask'[b]).row = ask[b].row
      BY <1>6
    <2>2. RowsApart
      BY DEF SummaryInv
    <2>3. \A b \in Writers' : (ask'[b]).row.at \in 1..clock'
      BY <1>3, <1>6, <2>1, <2>2 DEF RowsApart
    <2>4. \A b \in Writers', s \in stored' : s.at # (ask'[b]).row.at
      BY <1>3, <1>6, <2>1, <2>2 DEF RowsApart
    <2>5. \A b, c \in Writers' : b # c => (ask'[b]).row.at # (ask'[c]).row.at
      BY <1>6, <2>1, <2>2 DEF RowsApart
    <2> QED  BY <1>3, <2>2, <2>3, <2>4, <2>5 DEF RowsApart
  <1>9. DropsSeen'
    <2> SUFFICES ASSUME NEW b \in Readers', NEW d \in (ask'[b]).drop
                 PROVE  /\ d.at \in 1..clock'
                        /\ \A c \in Writers' : c # b => d.at # (ask'[c]).row.at
      BY DEF DropsSeen
    <2>1. CASE b = a
      <3>1. d \in V
        BY <1>5, <2>1 DEF Surplus
      <3> QED  BY <1>3, <1>6, <1>7, <2>1, <3>1
    <2>2. CASE b # a
      <3>1. b \in Readers /\ d \in ask[b].drop
        BY <1>6, <2>2
      <3>2. d.at \in 1..clock /\ \A c \in Writers : c # b => d.at # ask[c].row.at
        BY <3>1 DEF SummaryInv, DropsSeen
      <3> QED  BY <1>3, <1>6, <3>2
    <2> QED  BY <2>1, <2>2
  <1>10. DropsOld'
    <2> SUFFICES ASSUME NEW b \in Readers', NEW d \in (ask'[b]).drop
                 PROVE  \E s \in stored' \cup {(ask'[b]).row} : s.at > d.at
      BY DEF DropsOld
    <2>1. CASE b = a
      BY <1>3, <1>5, <2>1, SurplusIsOld
    <2>2. CASE b # a
      <3>1. b \in Readers /\ d \in ask[b].drop
        BY <1>6, <2>2
      <3>2. \E s \in stored \cup {ask[b].row} : s.at > d.at
        BY <3>1 DEF SummaryInv, DropsOld
      <3> QED  BY <1>3, <1>6, <3>1, <3>2
    <2> QED  BY <2>1, <2>2
  <1>11. ASSUME NEW some \in SUBSET Readers' PROVE Cardinality(After(some)') <= MostRows'
    <2>1. CASE a \notin some
      <3>1. some \in SUBSET Readers /\ some \in SUBSET Askers
        BY <1>6, <2>1 DEF Readers
      <3>2. After(some)' = After(some)
        BY <1>3, <1>6, <3>1, AfterSame
      <3> QED  BY <3>1, <3>2 DEF SummaryInv, CapInv, MostRows
    <2>2. CASE a \in some
      <3> DEFINE rest == some \ {a}
      <3>1. rest \in SUBSET Askers /\ some \in SUBSET Askers /\ rest \in SUBSET (Askers \ {a})
        BY <1>6 DEF Readers
      <3>2. After(some)' \subseteq (V \ Surplus(V)) \cup RowsOf(rest)
        <4>1. RowsOf(some)' = {r} \cup RowsOf(rest)
          BY <1>6, <2>2, <3>1 DEF RowsOf
        <4>2. Surplus(V) \subseteq DropsOf(some)'
          BY <1>5, <2>2 DEF DropsOf
        <4> QED  BY <1>3, <4>1, <4>2 DEF After
      <3>3. IsFiniteSet(V)
        BY FS_AddElement DEF SummaryInv
      <3>4. /\ IsFiniteSet(V \ Surplus(V)) /\ Cardinality(V \ Surplus(V)) \in Nat
            /\ Cardinality(V \ Surplus(V)) <= Keep
        <4> HIDE DEF V
        <4> QED  BY <1>1, <1>7, <3>3, SurplusLeavesFew
      <3>5. /\ IsFiniteSet(RowsOf(rest)) /\ Cardinality(RowsOf(rest)) \in Nat
            /\ Cardinality(RowsOf(rest)) <= Cardinality(rest) /\ Cardinality(rest) \in Nat
        BY <3>1, FewRows
      <3>6. Cardinality(rest) <= Cardinality(Askers) - 1
        <4>1. /\ IsFiniteSet(Askers \ {a})
              /\ Cardinality(Askers \ {a}) = Cardinality(Askers) - 1
          BY SummaryNumbers, FS_RemoveElement
        <4> QED  BY <3>1, <4>1, FS_Subset
      <3> DEFINE A == V \ Surplus(V)
                 B == RowsOf(rest)
      <3>7. IsFiniteSet(A \cup B) /\ Cardinality(A \cup B) <= Cardinality(A) + Cardinality(B)
            /\ Cardinality(A \cup B) \in Nat
        <4>1. Cardinality(A \cap B) \in Nat
          <5>1. IsFiniteSet(A \cap B)
            BY <3>4, FS_Subset
          <5> QED  BY <5>1, FS_CardinalityType
        <4> HIDE DEF A, B
        <4>2. IsFiniteSet(A) /\ IsFiniteSet(B) /\ Cardinality(A) \in Nat /\ Cardinality(B) \in Nat
          BY <3>4, <3>5 DEF A, B
        <4> QED  BY <4>1, <4>2, FS_Union, FS_CardinalityType
      <3>8. Cardinality(After(some)') <= Cardinality(A \cup B) /\ Cardinality(After(some)') \in Nat
        <4> HIDE DEF A, B
        <4>1. After(some)' \subseteq A \cup B
          BY <3>2 DEF A, B
        <4> QED  BY <3>7, <4>1, FS_Subset, FS_CardinalityType
      <3> HIDE DEF A, B, V
      <3>9. Cardinality(A) <= Keep /\ Cardinality(A) \in Nat
            /\ Cardinality(B) <= Cardinality(Askers) - 1 /\ Cardinality(B) \in Nat
        BY <3>4, <3>5, <3>6, SummaryNumbers DEF A, B
      <3>10. MostRows' = Keep + Cardinality(Askers) - 1
        BY DEF MostRows
      <3> QED  BY <3>7, <3>8, <3>9, <3>10, SummaryNumbers
    <2> QED  BY <2>1, <2>2
  <1> QED  BY <1>1, <1>3, <1>6, <1>8, <1>9, <1>10, <1>11 DEF SummaryInv, CapInv

(* A commit turns a reader's part of the table after all into the table    *)
(* itself.                                                                 *)
LEMMA StoreSummaryKeeps ==
  ASSUME SummaryInv, NEW a \in Askers, StoreSummary(a) PROVE SummaryInv'
  <1> DEFINE r == ask[a].row
             D == ask[a].drop
             V == stored \cup {r}
  <1>1. /\ ask' = [ask EXCEPT ![a] = NoAsk] /\ clock' = clock /\ clock \in Nat
        /\ stored' = V \ D /\ ask[a].phase = "read"
    BY DEF StoreSummary, SummaryInv
  <1>2. OnlyAsk(a) /\ ask'[a] = NoAsk
    BY <1>1, NoAskShape DEF OnlyAsk, SummaryInv, AskShape
  <1>3. /\ AskShape'
        /\ Writers' = Writers \ {a} /\ Readers' = Readers \ {a}
        /\ a \in Readers /\ a \in Writers /\ Readers \subseteq Writers
        /\ \A b \in Writers' : ask'[b] = ask[b]
    BY <1>1, <1>2, NoAskShape, OnlyAskShape DEF OnlyAsk, Writers, Readers
  <1>4. /\ \A s \in V : s.at \in 1..clock
        /\ \A s, t \in V : s.at = t.at => s = t
        /\ \A s \in V : \A c \in Writers : c # a => s.at # ask[c].row.at
        /\ \A b \in Writers : ask[b].row.at \in 1..clock
        /\ \A b, c \in Writers : b # c => ask[b].row.at # ask[c].row.at
    BY <1>3 DEF SummaryInv, RowsApart
  <1>5. RowsApart'
    <2>1. \A b \in Writers' : b \in Writers /\ b # a /\ ask'[b] = ask[b]
      BY <1>3
    <2>2. \A s \in stored' : s \in V
      BY <1>1
    <2> HIDE DEF V
    <2>3. \A s \in stored' : s.at \in 1..clock'
      BY <1>1, <1>4, <2>2
    <2>4. \A s, t \in stored' : s.at = t.at => s = t
      BY <1>4, <2>2
    <2>5. \A b \in Writers' : (ask'[b]).row.at \in 1..clock'
      BY <1>1, <1>4, <2>1
    <2>6. \A b \in Writers', s \in stored' : s.at # (ask'[b]).row.at
      BY <1>4, <2>1, <2>2
    <2>7. \A b, c \in Writers' : b # c => (ask'[b]).row.at # (ask'[c]).row.at
      BY <1>4, <2>1
    <2> QED  BY <2>3, <2>4, <2>5, <2>6, <2>7 DEF RowsApart
  <1>6. DropsSeen'
    <2> SUFFICES ASSUME NEW b \in Readers', NEW d \in (ask'[b]).drop
                 PROVE  /\ d.at \in 1..clock'
                        /\ \A c \in Writers' : c # b => d.at # (ask'[c]).row.at
      BY DEF DropsSeen
    <2>1. b \in Readers /\ d \in ask[b].drop
      BY <1>3
    <2>2. d.at \in 1..clock /\ \A c \in Writers : c # b => d.at # ask[c].row.at
      BY <2>1 DEF SummaryInv, DropsSeen
    <2> QED  BY <1>1, <1>3, <2>2
  <1>7. \A d \in D : \E s \in V : s.at > d.at
    BY <1>3 DEF SummaryInv, DropsOld
  <1>8. DropsOld'
    <2> SUFFICES ASSUME NEW b \in Readers', NEW d \in (ask'[b]).drop
                 PROVE  \E s \in stored' \cup {(ask'[b]).row} : s.at > d.at
      BY DEF DropsOld
    <2>1. b \in Readers /\ d \in ask[b].drop /\ (ask'[b]).row = ask[b].row
      BY <1>3
    <2>2. PICK s \in stored \cup {ask[b].row} : s.at > d.at
      BY <2>1 DEF SummaryInv, DropsOld
    <2>3. d.at \in 1..clock
      BY <2>1 DEF SummaryInv, DropsSeen
    <2>4. CASE s = ask[b].row
      BY <2>1, <2>2, <2>4
    <2>5. CASE s \in V
      <3>1. PICK m \in V : \A t \in V : t.at <= m.at
        <4> HIDE DEF V
        <4> QED  BY <1>1, <1>4, <2>5, LastRow
      <3>2. m \notin D
        <4> SUFFICES ASSUME m \in D PROVE FALSE
          OBVIOUS
        <4>1. PICK t \in V : t.at > m.at
          BY <1>7
        <4>2. t.at \in Nat /\ m.at \in Nat /\ t.at <= m.at
          BY <1>4, <3>1
        <4> QED  BY <4>1, <4>2
      <3>3. m \in stored' /\ m.at \in Nat /\ s.at \in Nat /\ s.at <= m.at
        BY <1>1, <1>4, <2>5, <3>1, <3>2
      <3>4. m.at > d.at
        BY <2>2, <2>3, <3>3
      <3> QED  BY <3>3, <3>4
    <2> QED  BY <2>2, <2>4, <2>5
  <1>9. ASSUME NEW some \in SUBSET Readers' PROVE Cardinality(After(some)') <= MostRows'
    <2> DEFINE more == some \cup {a}
    <2>1. more \in SUBSET Readers /\ \A b \in some : b \in Writers /\ b # a /\ ask'[b] = ask[b]
      BY <1>3
    <2>2. RowsOf(some)' = RowsOf(some) /\ DropsOf(some)' = DropsOf(some)
      BY <2>1 DEF RowsOf, DropsOf
    <2>3. RowsOf(more) = RowsOf(some) \cup {r} /\ DropsOf(more) = DropsOf(some) \cup D
      BY DEF RowsOf, DropsOf
    <2>4. \A s \in RowsOf(some) : s \notin D
      <3> SUFFICES ASSUME NEW b \in some, ask[b].row \in D PROVE FALSE
        BY DEF RowsOf
      <3>1. ask[b].row.at # ask[b].row.at
        BY <1>3, <2>1 DEF SummaryInv, DropsSeen
      <3> QED  BY <3>1
    <2>5. After(some)' = After(more)
      BY <1>1, <2>2, <2>3, <2>4 DEF After
    <2> QED  BY <2>1, <2>5 DEF SummaryInv, CapInv, MostRows
  <1>10. IsFiniteSet(stored')
    <2>1. IsFiniteSet(V)
      BY FS_AddElement DEF SummaryInv
    <2> HIDE DEF V
    <2> QED  BY <1>1, <2>1, FS_Subset
  <1> QED  BY <1>1, <1>3, <1>5, <1>6, <1>8, <1>9, <1>10 DEF SummaryInv, CapInv

(* Steps that touch neither table nor requests. *)
LEMMA EditDocumentKeeps ==
  ASSUME SummaryInv, UNCHANGED <<stored, clock, ask>> PROVE SummaryInv'
  <1>1. Writers' = Writers /\ Readers' = Readers /\ MostRows' = MostRows
    BY DEF Writers, Readers, MostRows
  <1>2. \A some \in SUBSET Readers : After(some)' = After(some)
    BY AfterSame DEF Readers
  <1>3. AskShape' /\ RowsApart' /\ DropsSeen' /\ DropsOld'
    <2>1. AskShape'
      BY DEF SummaryInv, AskShape, IsAsk, IsRecord
    <2>2. RowsApart'
      BY <1>1 DEF SummaryInv, RowsApart
    <2>3. DropsSeen' /\ DropsOld'
      BY <1>1 DEF SummaryInv, DropsSeen, DropsOld
    <2> QED  BY <2>1, <2>2, <2>3
  <1>4. CapInv'
    BY <1>1, <1>2 DEF SummaryInv, CapInv
  <1> QED  BY <1>3, <1>4 DEF SummaryInv

(* The invariant of the summaries holds in every reachable state.          *)
THEOREM SummaryInvariance == SummarySpec => []SummaryInv
  <1>1. SummaryInv /\ [SummarizeNext]_summaryVars => SummaryInv'
    <2> SUFFICES ASSUME SummaryInv, [SummarizeNext]_summaryVars PROVE SummaryInv'
      OBVIOUS
    <2>1. ASSUME NEW a \in Askers, NEW ids \in SUBSET Docs, NEW p \in BOOLEAN,
                 SelectDocuments(a, ids, p)
          PROVE  SummaryInv'
      BY <2>1, SelectDocumentsKeeps
    <2>2. ASSUME NEW a \in Askers, NEW answer \in SummaryReplies, ReplySummary(a, answer)
          PROVE  SummaryInv'
      BY <2>2, ReplySummaryKeeps
    <2>3. ASSUME NEW a \in Askers,
                 CreateSummary(a) \/ ReadSurplus(a) \/ StoreSummary(a) \/ EndRequest(a)
          PROVE  SummaryInv'
      BY <2>3, CreateSummaryKeeps, ReadSurplusKeeps, StoreSummaryKeeps, EndRequestKeeps
    <2>4. ASSUME NEW d \in Docs, NEW state, EditDocument(d, state) PROVE SummaryInv'
      BY <2>4, EditDocumentKeeps DEF EditDocument
    <2>5. CASE UNCHANGED summaryVars
      BY <2>5, EditDocumentKeeps DEF summaryVars
    <2> QED  BY <2>1, <2>2, <2>3, <2>4, <2>5 DEF SummarizeNext
  <1> QED  BY <1>1, SummaryStarts, PTL DEF SummarySpec

(* The invariant bounds the rows and keeps the newest.                     *)
LEMMA InvKeepsNewest == ASSUME SummaryInv PROVE Capped /\ NewestStays
  <1>1. Capped
    <2>1. Cardinality(After({})) <= MostRows
      BY DEF SummaryInv, CapInv
    <2>2. After({}) = stored
      BY DEF After, RowsOf, DropsOf
    <2> QED  BY <2>1, <2>2 DEF Capped, MostRows
  <1>2. NewestStays
    <2> SUFFICES ASSUME NEW a \in Askers, ask[a].phase = "read",
                        NEW d \in Latest(stored \cup {ask[a].row}), d \in ask[a].drop
                 PROVE  FALSE
      BY DEF NewestStays
    <2>1. \E s \in stored \cup {ask[a].row} : s.at > d.at
      BY DEF SummaryInv, DropsOld, Readers
    <2> QED  BY <2>1 DEF Latest, Newer
  <1> QED  BY <1>1, <1>2

(* A policy keeps at most the limit of summaries and one more per request  *)
(* running beside another, and the newest row a request has created is     *)
(* never deleted by a cleanup, for any limit, any number of requests and   *)
(* any rows at the start.                                                  *)
THEOREM FewNewestKept == SummarySpec => [](Capped /\ NewestStays)
  BY InvKeepsNewest, SummaryInvariance, PTL

-----------------------------------------------------------------------------
(* What users see of the answers.                                          *)

\* A summary of an earlier version, or what validation left of an answer it accepted.
Accepted(summary) ==
    \/ \E s \in OldSummaries : summary = s.summary
    \/ \E answer \in SummaryReplies :
          ValidSummary(answer, FALSE) /\ summary = SummaryOf(answer)

\* No proposal, or that of an answer about this bill that validation accepted.
Proposed(proposal, bill) ==
    \/ proposal = NoProposal
    \/ \E answer \in CostReplies :
          ValidCost(answer) /\ proposal = ProposalOf(answer) /\ bill = answer.bill

\* Where a request is.
Phases == {"idle", "selected", "repair", "answered", "created", "read"}

\* A request carries a summary and a proposal that were accepted.
Truthful(x) ==
    /\ x.phase \in {"answered", "created", "read"} => Accepted(x.row.summary)
    /\ Proposed(x.proposal, x.bill)

\* Nothing in the table and nothing shown but what was accepted.
OnlyAccepted ==
    /\ \A s \in stored : Accepted(s.summary)
    /\ \A a \in Askers : Proposed(ask[a].proposal, ask[a].bill)

AnswersInv ==
    /\ doc \in [Docs -> {"here", "excluded", "archived"}]
    /\ clock \in 0..MaxSummaries
    /\ edits \in 0..MaxEdits
    /\ \A a \in Askers : ask[a].phase \in Phases
    /\ \A s \in stored : Accepted(s.summary)
    /\ \A a \in Askers : Truthful(ask[a])

\* A request on its way to an answer has no proposal yet; whatever moves keeps it so.
LEMMA NoAskTruthful ==
    /\ NoAsk.phase \in Phases /\ Truthful(NoAsk)
    /\ NoAsk.proposal = NoProposal
BY DEF NoAsk, Phases, Truthful, Proposed

\* The documents of a request are picked.
LEMMA PickedTruthful ==
    ASSUME NEW d, NEW k
    PROVE  Picked(NoAsk, d, k).phase \in Phases /\ Truthful(Picked(NoAsk, d, k))
BY DEF Picked, NoAsk, Phases, Truthful, Proposed

\* A bill is picked, and its answer is read.
LEMMA BillTruthful ==
    ASSUME NEW d, NEW k
    PROVE  /\ IsAsk([NoAsk EXCEPT !.phase = "selected", !.kind = "cost", !.by = d, !.docs = k])
           /\ [NoAsk EXCEPT !.phase = "selected", !.kind = "cost", !.by = d,
                            !.docs = k].phase = "selected"
           /\ Truthful([NoAsk EXCEPT !.phase = "selected", !.kind = "cost", !.by = d,
                                     !.docs = k])
           /\ IsAsk([NoAsk EXCEPT !.proposal = d, !.bill = k])
           /\ [NoAsk EXCEPT !.proposal = d, !.bill = k].phase = "idle"
           /\ Proposed(d, k) => Truthful([NoAsk EXCEPT !.proposal = d, !.bill = k])
<1>1. IsRecord(NoSummary, {"at", "summary"})
  BY DEF NoSummary, IsRecord
<1> DEFINE y == [NoAsk EXCEPT !.phase = "selected", !.kind = "cost", !.by = d, !.docs = k]
           z == [NoAsk EXCEPT !.proposal = d, !.bill = k]
<1>2. /\ DOMAIN y = AskFields /\ y = [f \in AskFields |-> y[f]]
      /\ y.row = NoSummary /\ y.phase = "selected" /\ y.proposal = NoProposal
  BY DEF NoAsk, AskFields
<1>3. /\ DOMAIN z = AskFields /\ z = [f \in AskFields |-> z[f]]
      /\ z.row = NoSummary /\ z.phase = "idle" /\ z.proposal = d /\ z.bill = k
  BY DEF NoAsk, AskFields
<1> HIDE DEF y, z
<1>4. IsAsk(y) /\ IsAsk(z)
  BY <1>1, <1>2, <1>3 DEF IsAsk, IsRecord
<1>5. Truthful(y) /\ (Proposed(d, k) => Truthful(z))
  BY <1>2, <1>3 DEF Truthful, Proposed
<1>. QED BY <1>2, <1>3, <1>4, <1>5 DEF y, z

\* A request that moves on keeps its proposal, and gets its summary with the answer.
LEMMA MovesTruthful ==
    ASSUME NEW x, IsAsk(x), NEW d, NEW k
    PROVE  /\ Truthful(x) => Truthful(Repairing(x))
           /\ Truthful(x) /\ Accepted(k) => Truthful(Answered(x, d, k))
           /\ Truthful(x) /\ x.phase = "answered" => Truthful(Created(x, k))
           /\ Truthful(x) /\ x.phase = "created" => Truthful(HasRead(x, k))
<1>1. DOMAIN x = AskFields /\ DOMAIN x.row = {"at", "summary"}
  BY DEF IsAsk, IsRecord
<1>2. /\ Repairing(x).phase = "repair" /\ Repairing(x).proposal = x.proposal
      /\ Repairing(x).bill = x.bill
  BY <1>1 DEF Repairing, AskFields
<1>3. /\ Answered(x, d, k).phase = "answered" /\ Answered(x, d, k).proposal = x.proposal
      /\ Answered(x, d, k).bill = x.bill /\ Answered(x, d, k).row.summary = k
  BY <1>1 DEF Answered, AskFields
<1>4. /\ Created(x, k).proposal = x.proposal /\ Created(x, k).bill = x.bill
      /\ Created(x, k).row.summary = x.row.summary
  BY <1>1 DEF Created, AskFields
<1>5. /\ HasRead(x, k).proposal = x.proposal /\ HasRead(x, k).bill = x.bill
      /\ HasRead(x, k).row = x.row
  BY <1>1 DEF HasRead, AskFields
<1>6. Truthful(x) => Truthful(Repairing(x))
  BY <1>2 DEF Truthful
<1>7. Truthful(x) /\ Accepted(k) => Truthful(Answered(x, d, k))
  BY <1>3 DEF Truthful
<1>8. Truthful(x) /\ x.phase = "answered" => Truthful(Created(x, k))
  BY <1>4 DEF Truthful
<1>9. Truthful(x) /\ x.phase = "created" => Truthful(HasRead(x, k))
  BY <1>5 DEF Truthful
<1>. QED BY <1>6, <1>7, <1>8, <1>9

\* What a step must show that moves one request and no document.
LEMMA OneTruthful ==
    ASSUME AnswersInv, SummaryInv, NEW a \in Askers, OnlyAsk(a), UNCHANGED <<doc, edits>>,
           clock' \in 0..MaxSummaries, ask'[a].phase \in Phases,
           Truthful(ask'[a]), \A s \in stored' \ stored : Accepted(s.summary)
    PROVE  AnswersInv'
<1>1. \A b \in Askers : ask'[b] = ask[b] \/ b = a
  BY DEF OnlyAsk
<1>2. \A b \in Askers : ask'[b].phase \in Phases
  BY <1>1 DEF AnswersInv
<1>3. /\ \A s \in stored' : Accepted(s.summary)
      /\ \A b \in Askers : Truthful(ask'[b])
  BY <1>1 DEF AnswersInv
<1>. QED BY <1>2, <1>3 DEF AnswersInv

\* The steps of a request.
LEMMA SelectDocumentsTrue ==
    ASSUME AnswersInv, SummaryInv, NEW a \in Askers, NEW ids, NEW p,
           SelectDocuments(a, ids, p)
    PROVE  AnswersInv'
<1> DEFINE u == (Candidates(ids) \cap Allowed) \ Unreadable
           y == Picked(NoAsk, AdapterKey, u)
<1>1. IsAsk(y) /\ y.phase \in Phases /\ Truthful(y)
  BY AskPicks, NoAskShape, PickedTruthful
<1>2. ask' = [ask EXCEPT ![a] = y] /\ UNCHANGED <<stored, clock, doc, edits>>
  BY DEF SelectDocuments, Picked
<1> HIDE DEF y
<1>3. OnlyAsk(a) /\ ask'[a] = y
  BY <1>1, <1>2 DEF OnlyAsk, SummaryInv, AskShape
<1>. QED BY <1>1, <1>2, <1>3, OneTruthful DEF AnswersInv

\* A bill is selected: its shape, and that nothing is claimed of it yet.
LEMMA SelectBillTrue ==
    ASSUME AnswersInv, SummaryInv, NEW a \in Askers, NEW d, SelectBill(a, d)
    PROVE  AnswersInv' /\ SummaryInv'
<1> DEFINE y == [NoAsk EXCEPT !.phase = "selected", !.kind = "cost", !.by = AdapterKey,
                              !.docs = {d}]
<1>1. IsAsk(y) /\ y.phase = "selected" /\ Truthful(y)
  BY BillTruthful, Zenon
<1>2. ask' = [ask EXCEPT ![a] = y] /\ UNCHANGED <<stored, clock, doc, edits>>
  BY DEF SelectBill
<1> HIDE DEF y
<1>3. OnlyAsk(a) /\ ask'[a] = y
  BY <1>1, <1>2 DEF OnlyAsk, SummaryInv, AskShape
<1>4. SummaryInv'
  BY <1>1, <1>2, <1>3, StepOutside
<1>. QED BY <1>1, <1>2, <1>3, <1>4, OneTruthful DEF AnswersInv, Phases

\* A request that ends says nothing.
LEMMA EndRequestTrue ==
    ASSUME AnswersInv, SummaryInv, NEW a \in Askers, EndRequest(a) PROVE AnswersInv'
<1>1. ask' = [ask EXCEPT ![a] = NoAsk] /\ UNCHANGED <<stored, clock, doc, edits>>
  BY DEF EndRequest
<1>2. OnlyAsk(a) /\ ask'[a] = NoAsk
  BY <1>1, NoAskShape DEF OnlyAsk, SummaryInv, AskShape
<1>. QED BY <1>1, <1>2, NoAskTruthful, OneTruthful DEF AnswersInv

\* An answer that does not fit is asked for again, or ends the request.
LEMMA RepairTrue ==
    ASSUME AnswersInv, SummaryInv, NEW a \in Askers, ask' = Repair(a),
           UNCHANGED <<stored, clock, doc, edits>>
    PROVE  AnswersInv' /\ SummaryInv'
<1> DEFINE z == Repairing(ask[a])
<1>1. IsAsk(ask[a]) /\ ask = [b \in Askers |-> ask[b]] /\ DOMAIN ask = Askers
  BY DEF SummaryInv, AskShape
<1>2. IsAsk(z) /\ z.phase = "repair" /\ (Truthful(ask[a]) => Truthful(z))
  BY <1>1, AskMoves, MovesTruthful
<1>3. ask' = [ask EXCEPT ![a] = IF ask[a].phase = "selected" THEN z ELSE NoAsk]
  BY <1>1 DEF Repair, Repairing
<1> HIDE DEF z
<1>4. OnlyAsk(a) /\ ask'[a] \in {z, NoAsk}
  BY <1>1, <1>2, <1>3, NoAskShape DEF OnlyAsk
<1>5. SummaryInv'
  BY <1>2, <1>4, NoAskShape, StepOutside
<1>6. ask'[a].phase \in Phases /\ Truthful(ask'[a])
  BY <1>2, <1>4, NoAskTruthful DEF AnswersInv, Phases
<1>. QED BY <1>4, <1>5, <1>6, OneTruthful DEF AnswersInv

\* An answer that fits is kept as the format leaves it.
LEMMA ReplySummaryTrue ==
    ASSUME AnswersInv, SummaryInv, NEW a \in Askers, NEW answer \in SummaryReplies,
           ReplySummary(a, answer)
    PROVE  AnswersInv'
<1> DEFINE y == Answered(ask[a], {}, SummaryOf(answer))
<1>1. /\ IsAsk(ask[a]) /\ ask = [b \in Askers |-> ask[b]] /\ DOMAIN ask = Askers
      /\ UNCHANGED <<stored, clock, doc, edits>>
  BY DEF SummaryInv, AskShape, ReplySummary
<1>2. CASE ValidSummary(answer, FALSE)
  <2>1. ask' = [ask EXCEPT ![a] = y]
    BY <1>1, <1>2 DEF ReplySummary, Answered
  <2>2. IsAsk(y) /\ y.phase = "answered"
    BY <1>1, AskAnswered
  <2>3. Truthful(y)
    <3>1. Accepted(SummaryOf(answer)) /\ Truthful(ask[a])
      BY <1>2 DEF Accepted, AnswersInv
    <3>. QED BY <1>1, <3>1, MovesTruthful
  <2> HIDE DEF y
  <2>4. OnlyAsk(a) /\ ask'[a] = y
    BY <1>1, <2>1, <2>2 DEF OnlyAsk
  <2>. QED BY <1>1, <2>2, <2>3, <2>4, OneTruthful DEF AnswersInv, Phases
<1>3. CASE ~ValidSummary(answer, FALSE)
  <2>1. ask' = Repair(a)
    BY <1>3 DEF ReplySummary
  <2>. QED BY <1>1, <2>1, RepairTrue
<1>. QED BY <1>2, <1>3

\* A proposal goes to the user.
LEMMA ReplyCostTrue ==
    ASSUME AnswersInv, SummaryInv, NEW a \in Askers, NEW answer \in CostReplies,
           ReplyCost(a, answer)
    PROVE  AnswersInv' /\ SummaryInv'
<1> DEFINE y == [NoAsk EXCEPT !.proposal = ProposalOf(answer), !.bill = answer.bill]
<1>1. UNCHANGED <<stored, clock, doc, edits>>
  BY DEF ReplyCost
<1>2. CASE ValidCost(answer)
  <2>1. ask' = [ask EXCEPT ![a] = y]
    BY <1>2 DEF ReplyCost
  <2>2. IsAsk(y) /\ y.phase = "idle"
    BY BillTruthful, Zenon
  <2>3. Truthful(y)
    <3>1. Proposed(ProposalOf(answer), answer.bill)
      BY <1>2 DEF Proposed
    <3>. QED BY <3>1, BillTruthful, Zenon
  <2> HIDE DEF y
  <2>4. OnlyAsk(a) /\ ask'[a] = y
    BY <2>1, <2>2 DEF OnlyAsk, SummaryInv, AskShape
  <2>5. SummaryInv'
    BY <1>1, <2>2, <2>4, StepOutside
  <2>. QED BY <1>1, <2>2, <2>3, <2>4, <2>5, OneTruthful DEF AnswersInv, Phases
<1>3. CASE ~ValidCost(answer)
  <2>1. ask' = Repair(a)
    BY <1>3 DEF ReplyCost
  <2>. QED BY <1>1, <2>1, RepairTrue
<1>. QED BY <1>2, <1>3

\* A row is created with the summary of the answer.
LEMMA CreateSummaryTrue ==
    ASSUME AnswersInv, SummaryInv, NEW a \in Askers, CreateSummary(a) PROVE AnswersInv'
<1> DEFINE y == Created(ask[a], clock + 1)
<1>1. /\ IsAsk(ask[a]) /\ ask = [b \in Askers |-> ask[b]] /\ DOMAIN ask = Askers
      /\ ask[a].phase = "answered" /\ UNCHANGED <<stored, doc, edits>>
  BY DEF SummaryInv, AskShape, CreateSummary
<1>2. IsAsk(y) /\ y.phase = "created" /\ (Truthful(ask[a]) => Truthful(y))
  BY <1>1, AskCreated, MovesTruthful
<1>3. ask' = [ask EXCEPT ![a] = y]
  BY <1>1 DEF CreateSummary, Created
<1> HIDE DEF y
<1>4. OnlyAsk(a) /\ ask'[a] = y
  BY <1>1, <1>2, <1>3 DEF OnlyAsk
<1>5. clock' \in 0..MaxSummaries
  BY SummariesAssumption DEF CreateSummary, AnswersInv
<1>. QED BY <1>1, <1>2, <1>4, <1>5, OneTruthful DEF AnswersInv, Phases

\* The surplus is read.
LEMMA ReadSurplusTrue ==
    ASSUME AnswersInv, SummaryInv, NEW a \in Askers, ReadSurplus(a) PROVE AnswersInv'
<1> DEFINE V == stored \cup {ask[a].row}
           y == HasRead(ask[a], Surplus(V))
<1>1. /\ IsAsk(ask[a]) /\ ask = [b \in Askers |-> ask[b]] /\ DOMAIN ask = Askers
      /\ ask[a].phase = "created" /\ UNCHANGED <<stored, clock, doc, edits>>
  BY DEF SummaryInv, AskShape, ReadSurplus
<1>2. IsAsk(y) /\ y.phase = "read" /\ (Truthful(ask[a]) => Truthful(y))
  BY <1>1, AskRead, MovesTruthful
<1>3. ask' = [ask EXCEPT ![a] = y]
  BY <1>1 DEF ReadSurplus, HasRead
<1> HIDE DEF y
<1>4. OnlyAsk(a) /\ ask'[a] = y
  BY <1>1, <1>2, <1>3 DEF OnlyAsk
<1>. QED BY <1>1, <1>2, <1>4, OneTruthful DEF AnswersInv, Phases

\* The row a commit adds was accepted.
LEMMA StoreSummaryTrue ==
    ASSUME AnswersInv, SummaryInv, NEW a \in Askers, StoreSummary(a) PROVE AnswersInv'
<1>1. /\ ask' = [ask EXCEPT ![a] = NoAsk] /\ UNCHANGED <<clock, doc, edits>>
      /\ ask[a].phase = "read" /\ stored' = (stored \cup {ask[a].row}) \ ask[a].drop
  BY DEF StoreSummary
<1>2. OnlyAsk(a) /\ ask'[a] = NoAsk
  BY <1>1, NoAskShape DEF OnlyAsk, SummaryInv, AskShape
<1>3. \A s \in stored' \ stored : Accepted(s.summary)
  BY <1>1 DEF AnswersInv, Truthful
<1>. QED BY <1>1, <1>2, <1>3, NoAskTruthful, OneTruthful DEF AnswersInv

\* A document is excluded, allowed again or archived.
LEMMA EditDocumentTrue ==
    ASSUME AnswersInv, NEW d \in Docs, NEW state \in {"here", "excluded", "archived"},
           EditDocument(d, state)
    PROVE  AnswersInv'
<1>1. doc' \in [Docs -> {"here", "excluded", "archived"}]
  BY DEF AnswersInv, EditDocument
<1>2. edits' \in 0..MaxEdits
  BY SummariesAssumption DEF AnswersInv, EditDocument
<1>. QED BY <1>1, <1>2 DEF AnswersInv, EditDocument

\* Nobody has asked, and the rows are those of earlier versions.
LEMMA AnswersBegin == ASSUME SummaryInit PROVE AnswersInv
<1>1. clock \in 0..MaxSummaries
  BY OldSummariesAssumption, SummariesAssumption, FS_CardinalityType DEF SummaryInit
<1>2. \A a \in Askers : ask[a] = NoAsk
  BY DEF SummaryInit
<1>3. \A s \in stored : Accepted(s.summary)
  BY DEF SummaryInit, Accepted
<1>4. doc \in [Docs -> {"here", "excluded", "archived"}] /\ edits \in 0..MaxEdits
  BY SummariesAssumption DEF SummaryInit
<1>. QED BY <1>1, <1>2, <1>3, <1>4, NoAskTruthful DEF AnswersInv

\* Every step of summaries and proposals keeps both invariants.
LEMMA AnswersStep ==
    ASSUME AnswersInv, SummaryInv, [SummarizeNext \/ CostNext]_summaryVars
    PROVE  AnswersInv' /\ SummaryInv'
<1>1. ASSUME NEW a \in Askers, NEW ids \in SUBSET Docs, NEW p \in BOOLEAN,
             SelectDocuments(a, ids, p)
      PROVE  AnswersInv' /\ SummaryInv'
  BY <1>1, SelectDocumentsTrue, SelectDocumentsKeeps
<1>2. ASSUME NEW a \in Askers, NEW answer \in SummaryReplies, ReplySummary(a, answer)
      PROVE  AnswersInv' /\ SummaryInv'
  BY <1>2, ReplySummaryTrue, ReplySummaryKeeps
<1>3. ASSUME NEW a \in Askers,
             CreateSummary(a) \/ ReadSurplus(a) \/ StoreSummary(a) \/ EndRequest(a)
      PROVE  AnswersInv' /\ SummaryInv'
  BY <1>3, CreateSummaryTrue, ReadSurplusTrue, StoreSummaryTrue, EndRequestTrue,
     CreateSummaryKeeps, ReadSurplusKeeps, StoreSummaryKeeps, EndRequestKeeps
<1>4. ASSUME NEW d \in Docs, NEW state \in {"here", "excluded", "archived"},
             EditDocument(d, state)
      PROVE  AnswersInv' /\ SummaryInv'
  <2>1. UNCHANGED <<stored, clock, ask>>
    BY <1>4 DEF EditDocument
  <2>. QED BY <1>4, <2>1, EditDocumentTrue, EditDocumentKeeps
<1>5. ASSUME NEW a \in Askers, NEW d \in Docs, SelectBill(a, d)
      PROVE  AnswersInv' /\ SummaryInv'
  BY <1>5, SelectBillTrue
<1>6. ASSUME NEW a \in Askers, NEW answer \in CostReplies, ReplyCost(a, answer)
      PROVE  AnswersInv' /\ SummaryInv'
  BY <1>6, ReplyCostTrue
<1>7. CASE UNCHANGED summaryVars
  <2>1. SummaryInv'
    BY <1>7, EditDocumentKeeps DEF summaryVars
  <2>2. AnswersInv'
    BY <1>7 DEF summaryVars, AnswersInv
  <2>. QED BY <2>1, <2>2
<1>. QED BY <1>1, <1>2, <1>3, <1>4, <1>5, <1>6, <1>7 DEF SummarizeNext, CostNext

-----------------------------------------------------------------------------
(* The provider.                                                           *)

\* What the health check says is typed, whatever the endpoints answer.
LEMMA HealthTyped ==
    /\ Up.connected \in BOOLEAN
    /\ \A reason : Down(reason).connected \in BOOLEAN
    /\ \A status : FromStatus(status).connected \in BOOLEAN
    /\ \A key : AdapterHealth(key).connected \in BOOLEAN
<1>1. Up.connected \in BOOLEAN
  BY DEF Up
<1>2. \A reason : Down(reason).connected \in BOOLEAN
  BY DEF Down
<1>3. \A status : FromStatus(status).connected \in BOOLEAN
  BY <1>1, <1>2, Zenon DEF FromStatus
<1>4. OllamaHealth.connected \in BOOLEAN
  BY <1>3 DEF OllamaHealth
<1>5. OpenAiHealth.connected \in BOOLEAN
  BY <1>1, <1>2, <1>3, Zenon DEF OpenAiHealth
<1>6. ASSUME NEW key PROVE AdapterHealth(key).connected \in BOOLEAN
  <2>1. CASE key = "ollama"
    BY <1>4, <2>1 DEF AdapterHealth
  <2>2. CASE key = "openai-compat"
    BY <1>5, <2>2 DEF AdapterHealth
  <2>3. CASE key \notin {"ollama", "openai-compat"}
    <3>1. AdapterHealth(key) = Down("not-configured")
      BY <2>3 DEF AdapterHealth
    <3>. QED BY <1>2, <3>1
  <2>. QED BY <2>1, <2>2, <2>3
<1>. QED BY <1>1, <1>2, <1>3, <1>6

\* Every step of the provider and its health check keeps the types.
LEMMA ProviderStep ==
    ASSUME ProviderTypeOK, [ProviderNext]_providerVars PROVE ProviderTypeOK'
<1>1. CASE HealthCheck
  <2>1. health'.connected \in BOOLEAN
    BY <1>1, HealthTyped, Zenon DEF HealthCheck
  <2>2. fallback' \in BOOLEAN
    BY <1>1 DEF HealthCheck
  <2>. QED BY <1>1, <2>1, <2>2 DEF HealthCheck, ProviderTypeOK
<1>2. CASE FallbackExpires \/ ProviderChanges
  BY <1>2 DEF FallbackExpires, ProviderChanges, ProviderTypeOK
<1>3. CASE UNCHANGED providerVars
  BY <1>3 DEF providerVars, ProviderTypeOK
<1>. QED BY <1>1, <1>2, <1>3 DEF ProviderNext

\* Whatever answers the API answers the worker, for any settings and endpoints.
LEMMA AdaptersAgree == ASSUME ProviderTypeOK PROVE WorkerAgrees
<1>1. /\ provider.key \in {"none", "ollama", "openai-compat"}
      /\ provider.relaxed \in BOOLEAN /\ provider.enabled \in BOOLEAN
      /\ provider.url \in BOOLEAN
  <2>1. provider \in ProviderType
    BY ProvidersAssumption DEF ProviderTypeOK
  <2>. QED BY <2>1 DEF ProviderType, Adapters
<1>2. SUFFICES ASSUME provider.key # "none", ~provider.relaxed
               PROVE  WorkerAnswers <=> Answers(AdapterKey)
  BY DEF WorkerAgrees
<1>3. WorkerAdapterKey = AdapterKey
  BY <1>1, <1>2 DEF WorkerAdapterKey, AdapterKey
<1>. QED BY <1>2, <1>3
         DEF WorkerAnswers, Answers, WorkerOllamaChat, WorkerOpenAiChat, OllamaChat, OpenAiChat

-----------------------------------------------------------------------------
(* All together.                                                           *)

\* The first states of the composition are first states of the parts.
LEMMA PartsBegin ==
    ASSUME MCInit
    PROVE  Init /\ HeartInit /\ SummaryInit /\ ProviderTypeOK /\ BudgetInv
<1>1. Init /\ HeartInit /\ SummaryInit /\ ProviderInit /\ (BudgetInit \/ BudgetRests)
  BY DEF MCInit, ProviderRests
<1>2. ProviderTypeOK
  BY <1>1 DEF ProviderInit, ProviderTypeOK, Down
<1>3. ASSUME BudgetRests PROVE BudgetInv
  <2>1. Unlimited
    BY <1>3 DEF BudgetRests, Unlimited
  <2>2. count \in 0..MaxDocuments /\ limit \in Limits /\ index \in 0..count
    BY <1>3, BudgetAssumption DEF BudgetRests
  <2>3. texts \in [1..count -> Lengths]
    <3>1. 1..count = {}
      BY <1>3 DEF BudgetRests
    <3>2. texts = [i \in {} |-> i]
      BY <1>3 DEF BudgetRests
    <3>. QED BY <3>1, <3>2
  <2>4. remaining \in Nat /\ sent \in Nat /\ cut \subseteq 1..count
    BY <1>3 DEF BudgetRests
  <2>. QED BY <2>1, <2>2, <2>3, <2>4 DEF BudgetInv, BudgetTypeOK
<1>. QED BY <1>1, <1>2, <1>3, BudgetAssumption, StartsFair

\* The steps of the composition are steps of the parts.
LEMMA PartsStep ==
    ASSUME [MCNext]_allVars
    PROVE  /\ [Next]_vars /\ [HeartNext]_heartVars /\ [BudgetNext]_budgetVars
           /\ [ProviderNext]_providerVars /\ [SummarizeNext \/ CostNext]_summaryVars
BY DEF MCNext, allVars

\* Extraction, summaries, proposals, health check, budget and heartbeat together: the
\* invariants of all of them, whichever a behaviour works on.
THEOREM AiInvariance ==
    MCSpec => [](ExtractionInv /\ SummaryInv /\ AnswersInv /\ ProviderTypeOK
                 /\ BudgetInv /\ HeartInv)
<1>1. MCInit => Init /\ HeartInit /\ SummaryInv /\ AnswersInv /\ ProviderTypeOK /\ BudgetInv
  BY PartsBegin, SummaryStarts, AnswersBegin
<1>2. [MCNext]_allVars => [Next]_vars /\ [HeartNext]_heartVars
  BY PartsStep
<1>3. BudgetInv /\ [MCNext]_allVars => BudgetInv'
  BY PartsStep, BudgetAssumption, StepKeepsFair
<1>4. ProviderTypeOK /\ [MCNext]_allVars => ProviderTypeOK'
  BY PartsStep, ProviderStep
<1>5. AnswersInv /\ SummaryInv /\ [MCNext]_allVars => AnswersInv' /\ SummaryInv'
  BY PartsStep, AnswersStep
<1>6. MCSpec => Spec /\ HeartSpec
  BY <1>1, <1>2, PTL DEF MCSpec, Spec, HeartSpec
<1>. QED BY <1>1, <1>3, <1>4, <1>5, <1>6, ExtractionInvariance, HeartInvariance, PTL DEF MCSpec

\* Every variable of the AI features has its type: counters within their bounds, rows
\* numbered, budgets never negative.
THEOREM AllAiTyped == MCSpec => []TypesOK
<1>1. ExtractionInv /\ SummaryInv /\ AnswersInv /\ ProviderTypeOK /\ BudgetInv /\ HeartInv
        => TypesOK
  <2>1. SummaryInv /\ AnswersInv => SummaryTypeOK
    BY DEF SummaryInv, RowsApart, AnswersInv, SummaryTypeOK, Phases
  <2>2. HeartInv => HeartTypeOK
    BY DEF HeartInv, HeartShape, HeartTypeOK, BeatTimes
  <2>. QED BY <2>1, <2>2 DEF TypesOK, ExtractionInv, BudgetInv
<1>. QED BY <1>1, AiInvariance, PTL

\* However many requests, repairs, cleanups and edits of documents cross, nothing reaches
\* the table or the user but what validation made of an answer it accepted, a proposal
\* beside the bill it was made for; the rows are few, the newest among them; and the worker
\* is answered when the API is.
THEOREM OnlyAcceptedShown == MCSpec => [](OnlyAccepted /\ Capped /\ NewestStays /\ WorkerAgrees)
<1>1. SummaryInv /\ AnswersInv /\ ProviderTypeOK
        => OnlyAccepted /\ Capped /\ NewestStays /\ WorkerAgrees
  BY InvKeepsNewest, AdaptersAgree DEF AnswersInv, OnlyAccepted, Truthful
<1>. QED BY <1>1, AiInvariance, PTL

=============================================================================
