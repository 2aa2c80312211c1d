------------------------ MODULE PaperlessTagSyncJobs ------------------------
(***************************************************************************)
(* The outbox and BullMQ, for any number of workers, requests, rows and    *)
(* faults: no row runs twice at a time, the retry budget holds, a          *)
(* completed row is final, and all of it implements Outbox.                *)
(*                                                                         *)
(* The invariant ties what a worker read when it started a job to the row  *)
(* as it is: nobody else changes the retry counter or completes the row    *)
(* meanwhile, although ticks, late pushes and stalled jobs deliver rows    *)
(* again and again. The refinement: every step is, for every row, one step *)
(* of Outbox or none; what a worker holds tells how far the delivery of    *)
(* its row is, and no two workers hold the same row (JobInv).              *)
(***************************************************************************)
EXTENDS PaperlessTagSyncProofs

\* Labels at which the row of the job is still to be settled.
Working == Labels \ (Waiting \cup {"backfill", "backfillCheck", "backfillWrite"})

(* Rows in the hands of workers. *)
Held == Executing \ {0}

(* The invariant, in parts. *)
HeldJobs ==
    \A w \in Workers : IF pc[w] \in Waiting THEN run[w].job = 0 ELSE run[w].job \in JobIds
(* A row to be run is in the table. *)
RowsExist == \A j \in queue \cup unsent \cup Held : jobs[j].status # "absent"
(* The retry counter a worker read is still the row's. *)
RetriesRead == \A w \in Workers : run[w].job # 0 => jobs[run[w].job].retries = run[w].retries
(* A row that is still worked on is not completed. *)
OpenWhileWorking ==
    \A w \in Workers : pc[w] \in Working => jobs[run[w].job].status # "COMPLETED"

(* The inductive invariant of the outbox. *)
JobInv ==
    HeldJobs /\ OneRunPerJob /\ RowsExist /\ RetriesRead /\ RetriesBounded /\ OpenWhileWorking

\* Worker v holds nothing any more.
Released(v) == run'[v].job = 0 /\ pc'[v] \in Waiting

\* Worker v goes on with what it holds, and has not gone back to unsettled work.
Keeps(v) ==
    /\ run'[v].job = run[v].job
    /\ run'[v].retries = run[v].retries
    /\ pc'[v] \in Waiting <=> pc[v] \in Waiting
    /\ pc'[v] \in Working => pc[v] \in Working

\* The row of the job worker v holds is as v knows it.
RowKept(v) ==
    /\ jobs'[run[v].job].retries = jobs[run[v].job].retries
    /\ jobs'[run[v].job].status # "absent"
    /\ pc'[v] \in Working => jobs'[run[v].job].status # "COMPLETED"

(* What a step has to show to keep the invariant, when no worker takes a   *)
(* job from the queue.                                                     *)
LEMMA JobStep ==
  ASSUME TypeOK, JobInv,
         \A v \in Workers : Released(v) \/ Keeps(v),
         \A v \in Workers : Keeps(v) /\ run[v].job # 0 => RowKept(v),
         \A v \in Workers : Keeps(v) /\ run[v].job # 0 => run[v].job \notin queue',
         \A j \in queue' \cup unsent' : jobs'[j].status # "absent",
         RetriesBounded'
  PROVE JobInv'
  <1>1. \A v \in Workers : run'[v].job # 0 => Keeps(v) /\ run'[v].job = run[v].job
    BY DEF Released, Keeps
  <1>2. HeldJobs'
    BY DEF JobInv, HeldJobs, Released, Keeps
  <1>3. OneRunPerJob'
    BY <1>1 DEF JobInv, OneRunPerJob, Executing
  <1>4. \A j \in Held' : jobs'[j].status # "absent"
    BY <1>1 DEF Held, Executing, RowKept
  <1>5. RetriesRead'
    BY <1>1 DEF JobInv, RetriesRead, RowKept, Keeps
  <1>6. OpenWhileWorking'
    <2> SUFFICES ASSUME NEW v \in Workers, pc'[v] \in Working
                 PROVE jobs'[run'[v].job].status # "COMPLETED"
      BY DEF OpenWhileWorking
    <2>1. pc'[v] \notin Waiting
      BY DEF Working
    <2>2. Keeps(v)
      BY <2>1 DEF Released
    <2>3. run[v].job \in JobIds
      BY <2>1, <2>2 DEF Keeps, JobInv, HeldJobs
    <2>4. run[v].job # 0
      BY <2>3 DEF JobIds
    <2> QED  BY <2>2, <2>4 DEF RowKept, Keeps
  <1> QED  BY <1>2, <1>3, <1>4, <1>5, <1>6 DEF JobInv, RowsExist

-----------------------------------------------------------------------------
(* What steps do to the outbox rows.                                       *)

\* Row i keeps its counter, stays in the table and is not completed.
RowSafe(i) ==
    /\ jobs'[i].retries = jobs[i].retries
    /\ jobs[i].status # "absent" => jobs'[i].status # "absent"
    /\ jobs[i].status # "COMPLETED" => jobs'[i].status # "COMPLETED"

\* Row i is a new one.
RowCreated(i) ==
    /\ jobs[i].status = "absent"
    /\ jobs'[i].status = "PENDING"
    /\ jobs'[i].retries = 0

(* Steps that leave the workers alone keep the invariant if rows are kept  *)
(* or created and only rows that are not running are pushed.               *)
LEMMA OutboxStep ==
  ASSUME TypeOK, JobInv, UNCHANGED <<pc, run>>,
         \A i \in JobIds : RowSafe(i) \/ RowCreated(i),
         queue' \subseteq JobIds, unsent' \subseteq JobIds,
         \A i \in queue' \ queue : i \notin Executing,
         \A i \in queue' \cup unsent' : jobs[i].status = "absent" => RowCreated(i)
  PROVE JobInv'
  <1>1. \A v \in Workers : Keeps(v)
    BY DEF Keeps
  <1>2. ASSUME NEW v \in Workers, run[v].job # 0
        PROVE RowKept(v) /\ run[v].job \notin queue'
    <2>1. run[v].job \in JobIds /\ run[v].job \in Held
      BY <1>2 DEF JobInv, HeldJobs, Held, Executing
    <2>2. jobs[run[v].job].status # "absent"
      BY <2>1 DEF JobInv, RowsExist
    <2>3. RowSafe(run[v].job)
      BY <2>1, <2>2 DEF RowCreated
    <2>4. pc'[v] \in Working => jobs[run[v].job].status # "COMPLETED"
      BY DEF JobInv, OpenWhileWorking
    <2>5. run[v].job \notin queue'
      BY <2>1 DEF JobInv, OneRunPerJob, Held
    <2> QED  BY <2>2, <2>3, <2>4, <2>5 DEF RowKept, RowSafe
  <1>3. \A j \in queue' \cup unsent' : jobs'[j].status # "absent"
    BY DEF RowSafe, RowCreated
  <1>4. RetriesBounded'
    BY BoundsAssumption DEF JobInv, RetriesBounded, RowSafe, RowCreated
  <1> QED  BY <1>1, <1>2, <1>3, <1>4, JobStep

(* Superseding keeps rows; a row that is not superseded stays as it is. *)
LEMMA SupersededSafe ==
  ASSUME TypeOK, NEW i \in JobIds, jobs'[i] = Superseded(i) PROVE RowSafe(i)
  <1>1. jobs[i] \in Job
    BY DEF TypeOK
  <1> QED  BY <1>1 DEF Superseded, RowSafe, Job, ActiveStatuses

(* Fresh rows are PENDING with an unused retry budget. *)
LEMMA FreshRows ==
  ASSUME NEW v, NEW d
  PROVE /\ SyncJob(v).status = "PENDING" /\ SyncJob(v).retries = 0
        /\ TagJob(d, v).status = "PENDING" /\ TagJob(d, v).retries = 0
  BY DEF SyncJob, TagJob, NoJob

(* Inserting one row keeps the others. *)
LEMMA Inserted ==
  ASSUME TypeOK, NEW j \in JobIds, FreshJob(j), NEW r, r.status = "PENDING", r.retries = 0,
         jobs' = [jobs EXCEPT ![j] = r]
  PROVE RowCreated(j) /\ \A i \in JobIds \ {j} : RowSafe(i) /\ jobs'[i] = jobs[i]
  BY DEF TypeOK, FreshJob, RowCreated, RowSafe

(* A statement about one inserted row that is handed to the pushes later.  *)
LEMMA InsertStep ==
  ASSUME TypeOK, JobInv, UNCHANGED <<pc, run>>, NEW j \in JobIds, FreshJob(j),
         NEW r, r.status = "PENDING", r.retries = 0, jobs' = [jobs EXCEPT ![j] = r],
         unsent' = unsent \cup {j}, UNCHANGED queue
  PROVE JobInv'
  <1>1. RowCreated(j) /\ \A i \in JobIds \ {j} : RowSafe(i)
    BY Inserted
  <1>2. queue' \subseteq JobIds /\ unsent' \subseteq JobIds
    BY DEF TypeOK
  <1>3. \A i \in queue' \cup unsent' : jobs[i].status = "absent" => RowCreated(i)
    BY <1>1 DEF JobInv, RowsExist
  <1> QED  BY <1>1, <1>2, <1>3, OutboxStep

(* Steps that leave workers, rows and pushes alone keep the invariant. *)
LEMMA JobsUntouched ==
  ASSUME JobInv, UNCHANGED <<pc, run, jobs, queue, unsent>> PROVE JobInv'
  BY DEF JobInv, HeldJobs, OneRunPerJob, RowsExist, RetriesRead, RetriesBounded,
         OpenWhileWorking, Executing, Held

(* setTag supersedes open rows and inserts one. *)
LEMMA ChangeTagKeepsJobInv ==
  ASSUME TypeOK, JobInv, NEW t, NEW c, ChangeTag(t, c) PROVE JobInv'
  <1>1. UNCHANGED <<queue, pc, run>>
    BY DEF ChangeTag
  <1>2. PICK j \in JobIds :
           /\ FreshJob(j)
           /\ jobs' = [i \in JobIds |-> IF i = j THEN SyncJob(config'.version)
                                                 ELSE Superseded(i)]
           /\ unsent' = unsent \cup {j}
    BY DEF ChangeTag
  <1>3. RowCreated(j)
    BY <1>2, FreshRows DEF RowCreated, FreshJob
  <1>4. \A i \in JobIds \ {j} : RowSafe(i)
    BY <1>2, SupersededSafe
  <1>5. queue' \subseteq JobIds /\ unsent' \subseteq JobIds
    BY <1>1, <1>2 DEF TypeOK
  <1>6. \A i \in queue' \cup unsent' : jobs[i].status = "absent" => RowCreated(i)
    BY <1>1, <1>2, <1>3 DEF JobInv, RowsExist
  <1> QED  BY <1>1, <1>3, <1>4, <1>5, <1>6, OutboxStep

(* removeTag supersedes open rows. *)
LEMMA RemoveTagKeepsJobInv == ASSUME TypeOK, JobInv, RemoveTag PROVE JobInv'
  <1>1. UNCHANGED <<queue, unsent, pc, run>>
    BY DEF RemoveTag
  <1>2. jobs' = [j \in JobIds |-> Superseded(j)]
    BY DEF RemoveTag
  <1>3. \A i \in JobIds : RowSafe(i)
    BY <1>2, SupersededSafe
  <1>4. queue' \subseteq JobIds /\ unsent' \subseteq JobIds
    BY <1>1 DEF TypeOK
  <1>5. \A i \in queue' \cup unsent' : jobs[i].status # "absent"
    BY <1>1 DEF JobInv, RowsExist
  <1> QED  BY <1>1, <1>3, <1>4, <1>5, OutboxStep

(* retryTagging inserts one row per document and pushes the active ones again. *)
LEMMA CreateRetriesKeepsJobInv ==
  ASSUME TypeOK, JobInv, NEW q \in Requests, CreateRetries(q) PROVE JobInv'
  <1> DEFINE ds == request[q].rows
             new == {d \in ds : ActiveTagJobs(d) = {}}
             version == request[q].version
  <1>1. UNCHANGED <<queue, pc, run>>
    BY DEF CreateRetries
  <1>2. PICK ids \in [ds -> JobIds] :
           /\ \A d \in ds \ new : ids[d] \in ActiveTagJobs(d)
           /\ \A d \in new : jobs[ids[d]].status = "absent"
           /\ jobs' = [j \in JobIds |->
                          IF \E d \in new : ids[d] = j
                          THEN TagJob(CHOOSE d \in new : ids[d] = j, version)
                          ELSE jobs[j]]
           /\ unsent' = unsent \cup {ids[d] : d \in ds}
    BY DEF CreateRetries
  <1>9. new \subseteq ds
    OBVIOUS
  <1> HIDE DEF new, ds, version
  <1>3. \A d \in new : RowCreated(ids[d])
    BY <1>2, <1>9, FreshRows DEF RowCreated
  <1>4. ASSUME NEW i \in JobIds, ~\E d \in new : ids[d] = i PROVE RowSafe(i)
    BY <1>2, <1>4 DEF RowSafe
  <1>5. \A i \in JobIds : RowSafe(i) \/ RowCreated(i)
    BY <1>3, <1>4
  <1>6. \A d \in ds \ new : jobs[ids[d]].status # "absent"
    BY <1>2 DEF ActiveTagJobs, ActiveJobs, ActiveStatuses
  <1>7. queue' \subseteq JobIds /\ unsent' \subseteq JobIds
    BY <1>1, <1>2 DEF TypeOK
  <1>8. \A i \in queue' \cup unsent' : jobs[i].status = "absent" => RowCreated(i)
    BY <1>1, <1>2, <1>3, <1>6 DEF JobInv, RowsExist
  <1> QED  BY <1>1, <1>5, <1>7, <1>8, OutboxStep

(* A manual link inserts at most one row. *)
LEMMA LinkPaperlessDocumentKeepsJobInv ==
  ASSUME TypeOK, JobInv, NEW r \in Refs, LinkPaperlessDocument(r) PROVE JobInv'
  <1>1. UNCHANGED <<queue, pc, run>>
    BY DEF LinkPaperlessDocument
  <1>2. PICK d \in RowIds : \E link : ApplyManualLinkOrigin(d, link)
    BY DEF LinkPaperlessDocument
  <1>3. \/ UNCHANGED <<jobs, unsent>>
        \/ \E j \in JobIds : /\ FreshJob(j)
                             /\ jobs' = [jobs EXCEPT ![j] = TagJob(d, config.version)]
                             /\ unsent' = unsent \cup {j}
    BY <1>2 DEF ApplyManualLinkOrigin
  <1> QED  BY <1>1, <1>3, FreshRows, InsertStep, JobsUntouched

(* A push hands a row to BullMQ unless BullMQ still knows it. *)
LEMMA PushStep ==
  ASSUME TypeOK, JobInv, UNCHANGED <<jobs, pc, run>>, NEW ids \in SUBSET JobIds,
         queue' = Enqueued(ids), unsent' \subseteq unsent,
         \A i \in ids : jobs[i].status # "absent"
  PROVE JobInv'
  <1>1. \A i \in JobIds : RowSafe(i)
    BY DEF RowSafe
  <1>2. queue' \subseteq JobIds /\ unsent' \subseteq JobIds
    BY EnqueuedTypes DEF TypeOK
  <1>3. \A i \in queue' \ queue : i \notin Executing
    BY DEF Enqueued
  <1>4. \A i \in queue' \cup unsent' : jobs[i].status # "absent"
    BY DEF Enqueued, JobInv, RowsExist
  <1> QED  BY <1>1, <1>2, <1>3, <1>4, OutboxStep

(* The invariant is kept by the API. *)
LEMMA ApiKeepsJobInv == ASSUME TypeOK, JobInv, Api PROVE JobInv'
  <1>1. CASE \/ \E t \in Tags : SetTag(t)
             \/ \E q \in Requests : SetRequestedTag(q)
    BY <1>1, ChangeTagKeepsJobInv DEF SetTag, SetRequestedTag
  <1>2. CASE \/ \E q \in Requests, t \in Tags : RequestTag(q, t)
             \/ \E q \in Requests : RequestSync(q) \/ RequestRetry(q)
             \/ \E d \in RowIds : RemoveDocument(d)
    <2>1. UNCHANGED <<pc, run, jobs, queue, unsent>>
      BY <1>2 DEF RequestTag, RequestSync, RequestRetry, RemoveDocument
    <2> QED  BY <2>1, JobsUntouched
  <1>3. ASSUME NEW q \in Requests, CreateRequestedSync(q) PROVE JobInv'
    <2>1. UNCHANGED <<queue, pc, run>>
      BY <1>3 DEF CreateRequestedSync
    <2>2. PICK j \in JobIds : /\ FreshJob(j)
                              /\ jobs' = [jobs EXCEPT ![j] = SyncJob(request[q].version)]
                              /\ unsent' = unsent \cup {j}
      BY <1>3 DEF CreateRequestedSync
    <2> QED  BY <2>1, <2>2, FreshRows, InsertStep
  <1>4. ASSUME NEW j \in JobIds, Enqueue(j) PROVE JobInv'
    <2>1. /\ UNCHANGED <<jobs, pc, run>> /\ queue' = Enqueued({j})
          /\ j \in unsent /\ unsent' = unsent \ {j}
      BY <1>4 DEF Enqueue
    <2>2. jobs[j].status # "absent"
      BY <2>1 DEF JobInv, RowsExist
    <2> QED  BY <2>1, <2>2, PushStep
  <1> QED
    BY <1>1, <1>2, <1>3, <1>4, RemoveTagKeepsJobInv, CreateRetriesKeepsJobInv,
       LinkPaperlessDocumentKeepsJobInv DEF Api

-----------------------------------------------------------------------------
(* What a worker's step does to the outbox row it holds.                   *)

\* Worker w writes a status into its row; after COMPLETED it works no more on it.
WritesStatus(w) ==
    /\ UNCHANGED queue
    /\ \E s \in {"RUNNING", "COMPLETED", "FAILED", "SKIPPED"} :
          /\ jobs' = [jobs EXCEPT ![run[w].job].status = s]
          /\ s = "COMPLETED" => pc'[w] \notin Working

\* Worker w gives its row back or fails it, and is done with it.
RetriesOrFails(w) ==
    /\ UNCHANGED queue
    /\ Ends(w)
    /\ \E n \in {run[w].retries, MaxRetries} : RetryOrFail(run[w].job, n)

\* Worker w inserts a row for somebody else.
Inserts ==
    \E j \in JobIds, v \in 0..MaxVersion :
        /\ FreshJob(j)
        /\ \/ jobs' = [jobs EXCEPT ![j] = SyncJob(v)]
           \/ \E d : jobs' = [jobs EXCEPT ![j] = TagJob(d, v)]
        /\ queue' \in {queue, Enqueued({j})}

(* What a step of a worker may do to the outbox. *)
Effect(w) ==
    /\ UNCHANGED unsent
    /\ pc'[w] \in Working => pc[w] \in Working
    /\ \/ UNCHANGED <<jobs, queue>>
       \/ pc[w] \in Working /\ (WritesStatus(w) \/ RetriesOrFails(w))
       \/ Inserts

(* What the steps of a sync do to the outbox. *)
LEMMA SyncStepEffect == ASSUME TypeOK, NEW w \in Workers, SyncStep(w) PROVE Effect(w)
  <1>1. run[w] \in Run /\ pc \in [Workers -> Labels]
    BY DEF TypeOK
  <1>2. CASE FetchUnreachable(w) \/ FetchRejected(w) \/ FetchIncomplete(w)
    <2>1. Finish(w) /\ UNCHANGED <<unsent, queue>> /\ pc[w] = "fetch"
      BY <1>2 DEF FetchUnreachable, FetchRejected, FetchIncomplete
    <2>2. \E n \in {run[w].retries, MaxRetries} : RetryOrFail(run[w].job, n)
      BY <1>2 DEF FetchUnreachable, FetchRejected, FetchIncomplete
    <2>3. Ends(w)
      BY <2>1, FinishMoves
    <2> QED  BY <2>1, <2>2, <2>3 DEF Effect, RetriesOrFails, Working, Labels, Waiting
  <1>3. CASE AbortSync(w)
    <2>1. /\ pc[w] \in {"add", "drop"} /\ UNCHANGED <<unsent, queue>>
          /\ jobs' = [jobs EXCEPT ![run[w].job].status = "SKIPPED"]
      BY <1>3 DEF AbortSync
    <2> QED  BY <2>1 DEF Effect, WritesStatus, Working, Labels, Waiting
  <1>4. CASE CompleteSync(w)
    <2>1. /\ pc[w] = "complete" /\ UNCHANGED <<unsent, queue>>
          /\ jobs' = [jobs EXCEPT ![run[w].job].status = "COMPLETED"]
          /\ pc' = [pc EXCEPT ![w] = "backfill"]
      BY <1>4 DEF CompleteSync, Goto
    <2>2. pc'[w] = "backfill"
      BY <1>1, <2>1
    <2> QED  BY <2>1, <2>2 DEF Effect, WritesStatus, Working, Labels, Waiting
  <1>5. CASE \/ Fetch(w) \/ Snapshot(w) \/ CheckAdd(w) \/ CheckDrop(w)
             \/ AddTagOrigin(w) \/ DropTagOrigin(w) \/ Activate(w)
    <2>1. /\ pc[w] \in {"fetch", "snapshot", "add", "drop", "addWrite", "dropWrite", "activate"}
          /\ UNCHANGED <<unsent, jobs, queue>>
      BY <1>5 DEF Fetch, Snapshot, CheckAdd, CheckDrop, AddTagOrigin, DropTagOrigin, Activate
    <2> QED  BY <2>1 DEF Effect, Working, Labels, Waiting
  <1>6. CASE StartBackfill(w) \/ CheckBackfill(w)
    <2>1. UNCHANGED <<unsent, jobs, queue>>
      BY <1>6 DEF StartBackfill, CheckBackfill
    <2>2. \/ Goto(w, "idle") \/ Goto(w, "backfillCheck") \/ Goto(w, "backfillWrite")
          \/ UNCHANGED pc /\ pc[w] = "backfillCheck"
      BY <1>6 DEF StartBackfill, CheckBackfill, Finish
    <2>3. pc'[w] \in {"idle", "backfillCheck", "backfillWrite"}
      BY <1>1, <2>2 DEF Goto
    <2> QED  BY <2>1, <2>3 DEF Effect, Working, Waiting
  <1>7. CASE CreateBackfill(w)
    <2>1. run[w].version \in 0..MaxVersion
      BY <1>1, RunFields
    <2>2. Inserts /\ UNCHANGED unsent
      BY <1>7, <2>1 DEF CreateBackfill, Inserts
    <2>3. Goto(w, "idle") \/ Goto(w, "backfillCheck")
      BY <1>7 DEF CreateBackfill, Finish
    <2>4. pc'[w] \in {"idle", "backfillCheck"}
      BY <1>1, <2>3 DEF Goto
    <2> QED  BY <2>2, <2>4 DEF Effect, Working, Waiting
  <1> QED  BY <1>2, <1>3, <1>4, <1>5, <1>6, <1>7 DEF SyncStep

(* What the steps of a worker that is not idle do to the outbox. *)
LEMMA ProceedEffect == ASSUME TypeOK, NEW w \in Workers, Proceed(w) PROVE Effect(w)
  <1>1. run[w] \in Run /\ pc \in [Workers -> Labels]
    BY DEF TypeOK
  <1>2. CASE MarkRunning(w)
    <2>1. /\ pc[w] = "mark" /\ UNCHANGED <<unsent, queue>>
          /\ jobs' = [jobs EXCEPT ![run[w].job].status = "RUNNING"]
      BY <1>2 DEF MarkRunning
    <2> QED  BY <2>1 DEF Effect, WritesStatus, Working, Labels, Waiting
  <1>3. CASE AssignTag(w) \/ WriteTagging(w)
    <2>1. pc[w] \in {"assign", "tagWrite"} /\ UNCHANGED <<unsent, jobs, queue>>
      BY <1>3 DEF AssignTag, WriteTagging
    <2> QED  BY <2>1 DEF Effect, Working, Labels, Waiting
  <1>4. CASE FinishTagJob(w)
    <2>1. pc[w] = "tagDone" /\ UNCHANGED <<unsent, queue>> /\ Finish(w)
      BY <1>4 DEF FinishTagJob
    <2>2. Ends(w)
      BY <2>1, FinishMoves
    <2>3. \/ jobs' = [jobs EXCEPT ![run[w].job].status = "COMPLETED"]
          \/ RetryOrFail(run[w].job, run[w].retries)
          \/ jobs' = [jobs EXCEPT ![run[w].job].status = "FAILED"]
      BY <1>4 DEF FinishTagJob
    <2>4. pc'[w] \notin Working
      BY <2>2 DEF Ends, Working, Waiting
    <2>5. WritesStatus(w) \/ RetriesOrFails(w)
      BY <2>1, <2>2, <2>3, <2>4 DEF WritesStatus, RetriesOrFails
    <2> QED  BY <2>1, <2>5 DEF Effect, Working, Labels, Waiting
  <1>5. CASE ScheduleSync(w) \/ RefuseInsert(w)
    <2>1. Finish(w) /\ UNCHANGED unsent
      BY <1>5 DEF ScheduleSync, RefuseInsert
    <2>2. pc'[w] = "idle"
      BY <2>1, FinishMoves DEF Ends
    <2>3. run[w].version \in 0..MaxVersion
      BY <1>1, RunFields
    <2>4. Inserts \/ UNCHANGED <<jobs, queue>>
      BY <1>5, <2>3 DEF ScheduleSync, RefuseInsert, Inserts
    <2> QED  BY <2>1, <2>2, <2>4 DEF Effect, Working, Waiting
  <1> QED  BY <1>2, <1>3, <1>4, <1>5, SyncStepEffect DEF Proceed, TagStep

-----------------------------------------------------------------------------
(* The invariant is kept by the workers and the environment.               *)

(* Moving workers keep what they hold or let it go. *)
LEMMA MovesRelease ==
  ASSUME TypeOK, NEW w \in Workers, Moves(w), pc'[w] \in Working => pc[w] \in Working
  PROVE \A v \in Workers : Released(v) \/ Keeps(v)
  <1>1. \A v \in Workers \ {w} : Keeps(v)
    BY DEF Moves, OthersStay, Keeps
  <1>2. Ends(w) => Released(w)
    BY DEF Ends, Released, NoRun, Waiting
  <1>3. Continues(w) => Keeps(w)
    BY DEF Continues, Keeps, SamePurpose
  <1> QED  BY <1>1, <1>2, <1>3 DEF Moves

(* A row that nobody holds may change, and the holder of a row may write it. *)
LEMMA ProceedKeepsJobInv ==
  ASSUME TypeOK, JobInv, NEW w \in Workers, Proceed(w) PROVE JobInv'
  <1> DEFINE j == run[w].job
  <1>1. Moves(w) /\ Effect(w)
    BY ProceedMoves, ProceedEffect
  <1>2. \A v \in Workers : Released(v) \/ Keeps(v)
    BY <1>1, MovesRelease DEF Effect
  <1>3. /\ jobs \in [JobIds -> Job] /\ run \in [Workers -> Run]
        /\ queue \subseteq JobIds /\ unsent \subseteq JobIds
    BY DEF TypeOK
  <1>4. ASSUME NEW v \in Workers, run[v].job # 0
        PROVE /\ run[v].job \in JobIds /\ run[v].job \in Held
              /\ jobs[run[v].job].status # "absent" /\ run[v].job \notin queue
    <2>1. run[v].job \in JobIds /\ run[v].job \in Held
      BY <1>4 DEF JobInv, HeldJobs, Held, Executing
    <2> QED  BY <2>1 DEF JobInv, RowsExist, OneRunPerJob, Held
  <1>5. \A v \in Workers : pc[v] \in Working => jobs[run[v].job].status # "COMPLETED"
    BY DEF JobInv, OpenWhileWorking
  <1>6. \A v \in Workers : Keeps(v) /\ pc'[v] \in Working => pc[v] \in Working
    BY DEF Keeps
  <1>7. \A i \in queue \cup unsent : jobs[i].status # "absent"
    BY DEF JobInv, RowsExist
  <1>8. \A i \in JobIds : jobs[i].retries \in Nat /\ jobs[i].retries <= MaxRetries
    BY <1>3, JobFields DEF JobInv, RetriesBounded
  <1>9. UNCHANGED unsent
    BY <1>1 DEF Effect
  <1>10. CASE UNCHANGED <<jobs, queue>>
    <2>1. \A v \in Workers : Keeps(v) /\ run[v].job # 0 => RowKept(v)
      BY <1>4, <1>5, <1>6, <1>10 DEF RowKept
    <2>2. RetriesBounded'
      BY <1>10 DEF JobInv, RetriesBounded
    <2> QED  BY <1>2, <1>4, <1>7, <1>9, <1>10, <2>1, <2>2, JobStep
  <1>11. CASE pc[w] \in Working /\ WritesStatus(w)
    <2>1. PICK s \in {"RUNNING", "COMPLETED", "FAILED", "SKIPPED"} :
             /\ jobs' = [jobs EXCEPT ![j].status = s]
             /\ s = "COMPLETED" => pc'[w] \notin Working
      BY <1>11 DEF WritesStatus
    <2>2. UNCHANGED queue
      BY <1>11 DEF WritesStatus
    <2>3. \A i \in JobIds : jobs'[i] = IF i = j THEN [jobs[i] EXCEPT !.status = s] ELSE jobs[i]
      BY <1>3, <2>1
    <2>4. \A r \in Job : /\ [r EXCEPT !.status = s].status = s
                         /\ [r EXCEPT !.status = s].retries = r.retries
      BY DEF Job
    <2>5. ASSUME NEW i \in JobIds
          PROVE /\ jobs'[i].retries = jobs[i].retries
                /\ i = j => jobs'[i].status = s
                /\ i # j => jobs'[i].status = jobs[i].status
      <3>1. jobs[i] \in Job
        BY <1>3
      <3> QED  BY <2>3, <2>4, <3>1
    <2>6. \A v \in Workers : run[v].job # 0 /\ v # w => run[v].job # j
      BY DEF JobInv, OneRunPerJob
    <2>7. \A v \in Workers : Keeps(v) /\ run[v].job # 0 => RowKept(v)
      BY <1>4, <1>5, <1>6, <2>1, <2>5, <2>6 DEF RowKept
    <2>8. RetriesBounded'
      BY <1>8, <2>5 DEF RetriesBounded
    <2>9. \A i \in queue' \cup unsent' : jobs'[i].status # "absent"
      BY <1>3, <1>7, <1>9, <2>2, <2>5
    <2> QED  BY <1>2, <1>4, <2>2, <2>7, <2>8, <2>9, JobStep
  <1>12. CASE pc[w] \in Working /\ RetriesOrFails(w)
    <2>1. PICK n \in {run[w].retries, MaxRetries} : RetryOrFail(j, n)
      BY <1>12 DEF RetriesOrFails
    <2>2. UNCHANGED queue /\ Released(w) /\ ~Keeps(w)
      <3>1. UNCHANGED queue /\ run'[w] = NoRun /\ pc'[w] = "idle"
        BY <1>12 DEF RetriesOrFails, Ends
      <3>2. pc[w] \notin Waiting
        BY <1>12 DEF Working
      <3> QED  BY <3>1, <3>2 DEF Released, Keeps, Waiting, NoRun
    <2>3. j \in JobIds /\ j # 0
      <3>1. pc[w] \notin Waiting
        BY <1>12 DEF Working
      <3> QED  BY <3>1 DEF JobInv, HeldJobs, JobIds
    <2>4. jobs[j].retries = run[w].retries
      BY <2>3 DEF JobInv, RetriesRead
    <2>5. \A i \in JobIds \ {j} : jobs'[i] = jobs[i]
      BY <1>3, <2>1 DEF RetryOrFail
    <2>6. /\ jobs'[j].status \in {"PENDING", "FAILED"}
          /\ \/ jobs'[j].retries = jobs[j].retries
             \/ n < MaxRetries /\ jobs'[j].retries = jobs[j].retries + 1
      <3>1. jobs[j] \in Job
        BY <1>3, <2>3
      <3>2. \/ n < MaxRetries /\ jobs'[j] = [jobs[j] EXCEPT !.status = "PENDING",
                                                           !.retries = @ + 1]
            \/ jobs'[j] = [jobs[j] EXCEPT !.status = "FAILED"]
        BY <1>3, <2>1, <2>3 DEF RetryOrFail
      <3> QED  BY <3>1, <3>2 DEF Job
    <2>7. jobs'[j].retries <= MaxRetries
      BY <1>8, <2>3, <2>4, <2>6, BoundsAssumption
    <2>8. RetriesBounded'
      BY <1>8, <2>5, <2>7 DEF RetriesBounded
    <2>9. \A v \in Workers : run[v].job # 0 /\ v # w => run[v].job # j
      BY DEF JobInv, OneRunPerJob
    <2>10. \A v \in Workers : Keeps(v) /\ run[v].job # 0 => RowKept(v)
      BY <1>4, <1>5, <1>6, <2>2, <2>5, <2>9 DEF RowKept
    <2>11. \A i \in queue' \cup unsent' : jobs'[i].status # "absent"
      BY <1>3, <1>7, <1>9, <2>2, <2>5, <2>6
    <2> QED  BY <1>2, <1>4, <2>2, <2>8, <2>10, <2>11, JobStep
  <1>13. CASE Inserts
    <2>1. PICK i \in JobIds, v \in 0..MaxVersion :
             /\ FreshJob(i)
             /\ \/ jobs' = [jobs EXCEPT ![i] = SyncJob(v)]
                \/ \E d : jobs' = [jobs EXCEPT ![i] = TagJob(d, v)]
             /\ queue' \in {queue, Enqueued({i})}
      BY <1>13 DEF Inserts
    <2>2. RowCreated(i) /\ \A k \in JobIds \ {i} : RowSafe(k) /\ jobs'[k] = jobs[k]
      BY <2>1, FreshRows, Inserted
    <2>3. \A u \in Workers : run[u].job # 0 => run[u].job # i /\ run[u].job \notin queue'
      BY <1>4, <2>1 DEF FreshJob, Enqueued, Executing
    <2>4. \A u \in Workers : Keeps(u) /\ run[u].job # 0 => RowKept(u)
      BY <1>4, <1>5, <1>6, <2>2, <2>3 DEF RowKept
    <2>5. RetriesBounded'
      BY <1>8, <2>2, BoundsAssumption DEF RetriesBounded, RowCreated
    <2>6. \A k \in queue' \cup unsent' : jobs'[k].status # "absent"
      BY <1>3, <1>7, <1>9, <2>1, <2>2 DEF RowCreated, Enqueued
    <2> QED  BY <1>2, <2>3, <2>4, <2>5, <2>6, JobStep
  <1> QED  BY <1>1, <1>10, <1>11, <1>12, <1>13 DEF Effect

(* A row is taken from the queue by one worker, with the counter it has. *)
LEMMA DispatchKeepsJobInv ==
  ASSUME TypeOK, JobInv, NEW w \in Workers, NEW j \in JobIds, Dispatch(w, j) PROVE JobInv'
  <1>1. /\ pc[w] = "idle" /\ j \in queue /\ queue' = queue \ {j} /\ UNCHANGED unsent
    BY DEF Dispatch, DropSettled, SkipJob, StartJob, Take
  <1>2. queue' \subseteq JobIds /\ unsent' \subseteq JobIds
    BY <1>1 DEF TypeOK
  <1>3. /\ jobs \in [JobIds -> Job] /\ run \in [Workers -> Run] /\ pc \in [Workers -> Labels]
    BY DEF TypeOK
  <1>4. \A i \in queue \cup unsent : jobs[i].status # "absent"
    BY DEF JobInv, RowsExist
  <1>5. CASE DropSettled(w, j)
    <2>1. UNCHANGED <<jobs, pc, run>>
      BY <1>5 DEF DropSettled
    <2>2. \A i \in JobIds : RowSafe(i)
      BY <2>1 DEF RowSafe
    <2> QED  BY <1>1, <1>2, <1>4, <2>1, <2>2, OutboxStep
  <1>6. CASE SkipJob(w, j)
    <2>1. UNCHANGED <<pc, run>> /\ jobs' = [jobs EXCEPT ![j].status = "SKIPPED"]
      BY <1>6 DEF SkipJob
    <2>2. \A r \in Job : /\ [r EXCEPT !.status = "SKIPPED"].status = "SKIPPED"
                         /\ [r EXCEPT !.status = "SKIPPED"].retries = r.retries
      BY DEF Job
    <2>3. ASSUME NEW i \in JobIds PROVE RowSafe(i)
      <3>1. jobs[i] \in Job /\ jobs'[i] \in {jobs[i], [jobs[i] EXCEPT !.status = "SKIPPED"]}
        BY <1>3, <2>1
      <3> QED  BY <2>2, <3>1 DEF RowSafe
    <2> QED  BY <1>1, <1>2, <1>4, <2>1, <2>3, OutboxStep
  <1>7. CASE StartJob(w, j)
    <2>1. UNCHANGED jobs /\ jobs[j].status # "COMPLETED"
      BY <1>7 DEF StartJob, Settled
    <2>2. run' = [run EXCEPT ![w] = [NoRun EXCEPT
                    !.job = j, !.version = jobs[j].version, !.retries = jobs[j].retries,
                    !.cfg = config.id, !.tag = config.tag, !.row = jobs[j].row]]
      BY <1>7 DEF StartJob
    <2>3. run'[w].job = j /\ run'[w].retries = jobs[j].retries
      BY <1>3, <2>2 DEF NoRun
    <2>4. pc' = [pc EXCEPT ![w] = "mark"]
      BY <1>7 DEF StartJob, Goto
    <2>5. pc'[w] = "mark" /\ "mark" \notin Waiting
      BY <1>3, <2>4 DEF Waiting
    <2>6. \A v \in Workers \ {w} : pc'[v] = pc[v] /\ run'[v] = run[v]
      BY <1>3, <2>2, <2>4
    <2>7. HeldJobs'
      BY <2>3, <2>5, <2>6 DEF JobInv, HeldJobs
    <2>8. \A v \in Workers : run[v].job # 0 => run[v].job \notin queue
      BY DEF JobInv, OneRunPerJob, Executing
    <2>9. j # 0
      BY DEF JobIds
    <2>10. OneRunPerJob'
      BY <1>1, <2>3, <2>6, <2>8 DEF JobInv, OneRunPerJob, Executing
    <2>11. Held' \subseteq Held \cup {j}
      BY <2>3, <2>6 DEF Held, Executing
    <2>12. RowsExist'
      BY <1>1, <2>1, <2>11 DEF JobInv, RowsExist
    <2>13. RetriesRead' /\ RetriesBounded'
      BY <2>1, <2>3, <2>6 DEF JobInv, RetriesRead, RetriesBounded
    <2>14. OpenWhileWorking'
      BY <2>1, <2>3, <2>6 DEF JobInv, OpenWhileWorking
    <2> QED  BY <2>7, <2>10, <2>12, <2>13, <2>14 DEF JobInv
  <1> QED  BY <1>5, <1>6, <1>7 DEF Dispatch

(* The tick pushes no row that runs. *)
LEMMA TickKeepsJobInv == ASSUME TypeOK, JobInv, NEW w \in Workers, Tick(w) PROVE JobInv'
  <1> DEFINE ids == {j \in JobIds : jobs[j].status = "PENDING"}
  <1>1. queue' = Enqueued(ids) /\ UNCHANGED <<jobs, unsent>>
    BY DEF Tick
  <1>2. \A i \in ids : jobs[i].status # "absent"
    OBVIOUS
  <1>3. ids \in SUBSET JobIds
    OBVIOUS
  <1> HIDE DEF ids
  <1>4. CASE UNCHANGED <<run, pc>>
    BY <1>1, <1>2, <1>3, <1>4, PushStep
  <1>5. CASE /\ run' = [run EXCEPT ![w] = [run[w] EXCEPT !.version = config.version]]
             /\ Goto(w, "schedule")
    <2>1. /\ run \in [Workers -> Run] /\ pc \in [Workers -> Labels] /\ queue \subseteq JobIds
          /\ unsent \subseteq JobIds /\ pc[w] = "idle"
      BY DEF TypeOK, Tick
    <2>2. run[w] \in Run
      BY <2>1
    <2>3. run'[w].job = run[w].job /\ run'[w].retries = run[w].retries
      BY <1>5, <2>1, <2>2 DEF Run
    <2>4. pc' = [pc EXCEPT ![w] = "schedule"]
      BY <1>5 DEF Goto
    <2>5. run[w].job = 0
      BY <2>1 DEF JobInv, HeldJobs, Waiting
    <2>6. \A v \in Workers \ {w} : pc'[v] = pc[v] /\ run'[v] = run[v]
      BY <1>5, <2>1, <2>4
    <2>7. Released(w)
      BY <2>1, <2>3, <2>4, <2>5 DEF Released, Waiting
    <2>8. \A v \in Workers \ {w} : Keeps(v)
      BY <2>6 DEF Keeps
    <2>9. ASSUME NEW v \in Workers, run[v].job # 0
          PROVE RowKept(v) /\ run[v].job \notin queue'
      <3>1. v # w /\ run[v].job \in Held /\ run[v].job \in Executing
        BY <2>5, <2>9 DEF Held, Executing
      <3>2. jobs[run[v].job].status # "absent" /\ run[v].job \notin queue
        BY <3>1 DEF JobInv, RowsExist, OneRunPerJob, Held
      <3>3. run[v].job \notin queue'
        BY <1>1, <3>1, <3>2 DEF Enqueued
      <3> QED  BY <1>1, <2>6, <3>1, <3>2, <3>3 DEF RowKept, JobInv, OpenWhileWorking
    <2>10. \A i \in queue' \cup unsent' : jobs'[i].status # "absent"
      BY <1>1, <1>2 DEF Enqueued, JobInv, RowsExist
    <2>11. RetriesBounded'
      BY <1>1 DEF JobInv, RetriesBounded
    <2> QED  BY <2>7, <2>8, <2>9, <2>10, <2>11, JobStep
  <1> QED  BY <1>4, <1>5 DEF Tick

(* Only rows that nobody refers to free their place. *)
LEMMA ForgetKeepsJobInv == ASSUME TypeOK, JobInv, NEW j \in JobIds, Forget(j) PROVE JobInv'
  <1>1. /\ j \notin queue /\ j \notin Executing /\ jobs' = [jobs EXCEPT ![j] = NoJob]
        /\ unsent' = unsent \ {j} /\ UNCHANGED <<queue, pc, run>>
    BY DEF Forget
  <1>2. jobs \in [JobIds -> Job] /\ queue \subseteq JobIds /\ unsent \subseteq JobIds
    BY DEF TypeOK
  <1>3. \A i \in JobIds \ {j} : jobs'[i] = jobs[i]
    BY <1>1, <1>2
  <1>4. \A v \in Workers : Keeps(v)
    BY <1>1 DEF Keeps
  <1>5. ASSUME NEW v \in Workers, run[v].job # 0
        PROVE RowKept(v) /\ run[v].job \notin queue'
    <2>1. run[v].job \in JobIds /\ run[v].job \in Held /\ run[v].job # j
      BY <1>1, <1>5 DEF JobInv, HeldJobs, Held, Executing
    <2>2. jobs[run[v].job].status # "absent" /\ run[v].job \notin queue
      BY <2>1 DEF JobInv, RowsExist, OneRunPerJob, Held
    <2> QED  BY <1>1, <1>3, <2>1, <2>2 DEF RowKept, JobInv, OpenWhileWorking
  <1>6. \A i \in queue' \cup unsent' : jobs'[i].status # "absent"
    BY <1>1, <1>2, <1>3 DEF JobInv, RowsExist
  <1>7. jobs'[j].retries = 0
    BY <1>1, <1>2 DEF NoJob
  <1>8. RetriesBounded'
    BY <1>3, <1>7, BoundsAssumption DEF JobInv, RetriesBounded
  <1> QED  BY <1>4, <1>5, <1>6, <1>8, JobStep

(* A worker that dies or throws lets its row go; only after a death is it queued. *)
LEMMA StopKeepsJobInv ==
  ASSUME TypeOK, JobInv, NEW w \in Workers, Finish(w), UNCHANGED <<jobs, unsent>>,
         queue' \in {queue, queue \cup (Held \cap {run[w].job})}
  PROVE JobInv'
  <1>1. Moves(w) /\ Ends(w)
    BY FinishMoves DEF Moves
  <1>2. pc'[w] \notin Working
    BY <1>1 DEF Ends, Working, Waiting
  <1>3. \A v \in Workers : Released(v) \/ Keeps(v)
    BY <1>1, <1>2, MovesRelease
  <1>4. ASSUME NEW v \in Workers, run[v].job # 0, Keeps(v)
        PROVE RowKept(v) /\ run[v].job \notin queue'
    <2>1. run[v].job \in Held /\ run[v].job # 0
      BY <1>4 DEF Held, Executing
    <2>2. jobs[run[v].job].status # "absent" /\ run[v].job \notin queue
      BY <2>1 DEF JobInv, RowsExist, OneRunPerJob, Held
    <2>3. v # w
      BY <1>1, <2>1, <1>4 DEF Ends, Keeps, NoRun
    <2>4. run[v].job # run[w].job
      BY <1>4, <2>3 DEF JobInv, OneRunPerJob
    <2>5. pc'[v] \in Working => pc[v] \in Working
      BY <1>4 DEF Keeps
    <2> QED  BY <2>2, <2>4, <2>5 DEF RowKept, JobInv, OpenWhileWorking
  <1>5. \A i \in queue' \cup unsent' : jobs'[i].status # "absent"
    BY DEF JobInv, RowsExist
  <1>6. RetriesBounded'
    BY DEF JobInv, RetriesBounded
  <1> QED  BY <1>3, <1>4, <1>5, <1>6, JobStep

(* The invariant is kept by the environment. *)
LEMMA EnvironmentKeepsJobInv == ASSUME TypeOK, JobInv, Environment PROVE JobInv'
  <1>1. CASE \/ IntervalElapses
             \/ \E c \in Conns, r \in Refs, t \in Tags : Retag(c, r, t)
             \/ \E c \in Conns : Repoint(c)
             \/ ArchivePolicy
    <2>1. UNCHANGED <<pc, run, jobs, queue, unsent>>
      BY <1>1 DEF IntervalElapses, Retag, Repoint, ArchivePolicy
    <2> QED  BY <2>1, JobsUntouched
  <1>2. ASSUME NEW w \in Workers, Throw(w) PROVE JobInv'
    <2>1. Finish(w) /\ UNCHANGED <<jobs, unsent, queue>>
      BY <1>2 DEF Throw
    <2> QED  BY <2>1, StopKeepsJobInv
  <1>3. ASSUME NEW w \in Workers, Crash(w) PROVE JobInv'
    <2>1. /\ Finish(w) /\ UNCHANGED <<jobs, unsent>>
          /\ queue' = queue \/ queue' = queue \cup ({run[w].job} \ {0})
      BY <1>3 DEF Crash
    <2>2. {run[w].job} \ {0} = Held \cap {run[w].job}
      BY DEF Held, Executing
    <2> QED  BY <2>1, <2>2, StopKeepsJobInv
  <1> QED  BY <1>1, <1>2, <1>3, ForgetKeepsJobInv DEF Environment

(* Initially there are no rows and nobody holds one. *)
LEMMA InitJobInv == Init => JobInv
  <1> SUFFICES ASSUME Init PROVE JobInv
    OBVIOUS
  <1>1. /\ \A w \in Workers : run[w].job = 0 /\ pc[w] \in Waiting
        /\ \A j \in JobIds : jobs[j].retries = 0
        /\ queue = {} /\ unsent = {}
    BY DEF Init, NoRun, NoJob, Waiting
  <1>2. Held = {}
    BY <1>1 DEF Held, Executing
  <1>3. \A w \in Workers : pc[w] \notin Working
    BY <1>1 DEF Working
  <1> QED
    BY <1>1, <1>2, <1>3, BoundsAssumption
       DEF JobInv, HeldJobs, OneRunPerJob, RowsExist, RetriesRead, RetriesBounded,
           OpenWhileWorking

(* The invariant is kept by every step. *)
LEMMA NextKeepsJobInv == ASSUME TypeOK, JobInv, [Next]_vars PROVE JobInv'
  <1>1. CASE Next
    BY <1>1, ApiKeepsJobInv, DispatchKeepsJobInv, ProceedKeepsJobInv, TickKeepsJobInv,
       EnvironmentKeepsJobInv DEF Next
  <1>2. CASE UNCHANGED vars
    BY <1>2, JobsUntouched DEF vars
  <1> QED  BY <1>1, <1>2

(* The invariant holds in every reachable state. *)
THEOREM JobInvariance == Spec => []JobInv
  <1>1. Init => JobInv
    BY InitJobInv
  <1>2. TypeOK /\ JobInv /\ [Next]_vars => JobInv'
    BY NextKeepsJobInv
  <1> QED  BY <1>1, <1>2, TypeCorrect, PTL DEF Spec

(* No outbox row is run by two workers at a time, nor waits in BullMQ      *)
(* while it runs.                                                          *)
THEOREM RunsOnce == Spec => []OneRunPerJob
  <1>1. JobInv => OneRunPerJob
    BY DEF JobInv
  <1> QED  BY <1>1, JobInvariance, PTL

(* The counter that retryOrFail compares was read when the job started;    *)
(* it still bounds the retries, because nobody else runs the row.          *)
THEOREM RetryBudget == Spec => []RetriesBounded
  <1>1. JobInv => RetriesBounded
    BY DEF JobInv
  <1> QED  BY <1>1, JobInvariance, PTL

-----------------------------------------------------------------------------
(* A completed row is final.                                               *)

\* The body of CompletedIsFinal.
CompletedStays ==
    \A j \in JobIds : jobs[j].status = "COMPLETED"
                      => jobs'[j].status \in {"COMPLETED", "absent"}

(* Worker steps write statuses only into rows that are not completed yet. *)
LEMMA ProceedCompletedStays ==
  ASSUME TypeOK, JobInv, NEW w \in Workers, Proceed(w) PROVE CompletedStays
  <1>1. jobs \in [JobIds -> Job] /\ Effect(w)
    BY ProceedEffect DEF TypeOK
  <1>2. CASE UNCHANGED jobs
    BY <1>2 DEF CompletedStays
  <1>3. CASE pc[w] \in Working /\ (WritesStatus(w) \/ RetriesOrFails(w))
    <2>1. jobs[run[w].job].status # "COMPLETED"
      BY <1>3 DEF JobInv, OpenWhileWorking
    <2>2. \A i \in JobIds \ {run[w].job} : jobs'[i] = jobs[i]
      BY <1>1, <1>3 DEF WritesStatus, RetriesOrFails, RetryOrFail
    <2> QED  BY <2>1, <2>2 DEF CompletedStays
  <1>4. CASE Inserts
    BY <1>1, <1>4 DEF Inserts, FreshJob, CompletedStays
  <1> QED  BY <1>1, <1>2, <1>3, <1>4 DEF Effect

(* No step takes a row out of COMPLETED. *)
LEMMA NextCompletedStays == ASSUME TypeOK, JobInv, [Next]_vars PROVE CompletedStays
  <1>1. jobs \in [JobIds -> Job]
    BY DEF TypeOK
  <1>2. UNCHANGED jobs => CompletedStays
    BY DEF CompletedStays
  <1>3. ASSUME NEW i \in JobIds, jobs[i].status = "COMPLETED"
        PROVE Superseded(i) = jobs[i]
    BY <1>3 DEF Superseded, ActiveStatuses
  <1>4. ASSUME NEW j \in JobIds, FreshJob(j), NEW r, jobs' = [jobs EXCEPT ![j] = r]
        PROVE CompletedStays
    BY <1>1, <1>4 DEF FreshJob, CompletedStays
  <1>5. CASE Api
    <2>1. ASSUME NEW t, NEW c, ChangeTag(t, c) PROVE CompletedStays
      BY <1>3, <2>1 DEF ChangeTag, FreshJob, CompletedStays
    <2>2. CASE RemoveTag
      BY <1>3, <2>2 DEF RemoveTag, CompletedStays
    <2>3. ASSUME NEW q \in Requests, CreateRequestedSync(q) PROVE CompletedStays
      BY <1>4, <2>3 DEF CreateRequestedSync
    <2>4. ASSUME NEW q \in Requests, CreateRetries(q) PROVE CompletedStays
      <3> DEFINE new == {d \in request[q].rows : ActiveTagJobs(d) = {}}
      <3>1. PICK ids \in [request[q].rows -> JobIds] :
               /\ \A d \in new : jobs[ids[d]].status = "absent"
               /\ jobs' = [j \in JobIds |->
                              IF \E d \in new : ids[d] = j
                              THEN TagJob(CHOOSE d \in new : ids[d] = j, request[q].version)
                              ELSE jobs[j]]
        BY <2>4 DEF CreateRetries
      <3> HIDE DEF new
      <3> QED  BY <3>1 DEF CompletedStays
    <2>5. ASSUME NEW r \in Refs, LinkPaperlessDocument(r) PROVE CompletedStays
      BY <1>2, <1>4, <2>5 DEF LinkPaperlessDocument, ApplyManualLinkOrigin
    <2>6. CASE \/ \E q \in Requests, t \in Tags : RequestTag(q, t)
               \/ \E q \in Requests : RequestSync(q) \/ RequestRetry(q)
               \/ \E d \in RowIds : RemoveDocument(d)
               \/ \E j \in JobIds : Enqueue(j)
      BY <1>2, <2>6 DEF RequestTag, RequestSync, RequestRetry, RemoveDocument, Enqueue
    <2> QED
      BY <1>5, <2>1, <2>2, <2>3, <2>4, <2>5, <2>6 DEF Api, SetTag, SetRequestedTag
  <1>6. ASSUME NEW w \in Workers, NEW j \in JobIds, Dispatch(w, j) PROVE CompletedStays
    <2>1. CASE SkipJob(w, j)
      <3>1. jobs[j].status # "COMPLETED" /\ jobs' = [jobs EXCEPT ![j].status = "SKIPPED"]
        BY <2>1 DEF SkipJob, Settled
      <3> QED  BY <1>1, <3>1 DEF CompletedStays
    <2>2. CASE DropSettled(w, j) \/ StartJob(w, j)
      BY <1>2, <2>2 DEF DropSettled, StartJob
    <2> QED  BY <1>6, <2>1, <2>2 DEF Dispatch
  <1>7. CASE \E w \in Workers : Tick(w)
    BY <1>2, <1>7 DEF Tick
  <1>8. CASE Environment
    <2>1. ASSUME NEW j \in JobIds, Forget(j) PROVE CompletedStays
      BY <1>1, <2>1 DEF Forget, NoJob, CompletedStays
    <2> QED
      BY <1>2, <1>8, <2>1
         DEF Environment, IntervalElapses, Retag, Repoint, ArchivePolicy, Throw, Crash
  <1>9. CASE UNCHANGED vars
    BY <1>2, <1>9 DEF vars
  <1> QED  BY <1>5, <1>6, <1>7, <1>8, <1>9, ProceedCompletedStays DEF Next

(* A completed row is never run again nor superseded: it stays completed   *)
(* until nobody refers to it.                                              *)
THEOREM CompletedForGood == Spec => CompletedIsFinal
  <1>1. TypeOK /\ JobInv /\ [Next]_vars => CompletedStays
    BY NextCompletedStays
  <1>2. CompletedStays
         => \A j \in JobIds : jobs[j].status = "COMPLETED"
                              => jobs'[j].status \in {"COMPLETED", "absent"}
    BY DEF CompletedStays
  <1> QED  BY <1>1, <1>2, JobInvariance, TypeCorrect, PTL DEF Spec, CompletedIsFinal

-----------------------------------------------------------------------------
(* The table, BullMQ and the workers implement Outbox.                     *)

(* Labels at which the row is settled and the worker still adds            *)
(* assignments.                                                            *)
Written == {"backfill", "backfillCheck", "backfillWrite"}

\* How far the delivery of the row is that a worker at this label holds.
Phase(label) ==
    CASE label \in Waiting -> "none"
      [] label = "mark" -> "begun"
      [] label \in Written -> "written"
      [] OTHER -> "marked"

\* One row's part of a step of the outbox.
RowStep(j) ==
    \/ Outbox!Post(j) \/ Outbox!Withdraw(j) \/ Outbox!Begin(j) \/ Outbox!Skip(j)
    \/ Outbox!Mark(j) \/ Outbox!Finish(j) \/ Outbox!SendBack(j) \/ Outbox!Leave(j)
    \/ Outbox!Forget(j) \/ Outbox!Rest(j)

\* A row whose delivery was marked is RUNNING unless it was withdrawn.
MarkedIsOpen ==
    \A j \in JobIds : Delivery(j) = "marked" => jobs[j].status \in {"RUNNING", "SKIPPED"}

-----------------------------------------------------------------------------
(* What Outbox calls status, retries and delivery.                         *)

(* Outbox's words for a row, in terms of the table and of what workers     *)
(* hold.                                                                   *)
LEMMA View ==
  ASSUME NEW j \in JobIds, NEW before, NEW after, NEW n
  PROVE  /\ Outbox!Turns(j, before, after)
              <=> jobs[j].status \in before /\ jobs'[j].status \in after
         /\ Outbox!Holds(j, before, after)
              <=> Delivery(j) \in before /\ Delivery(j)' \in after
         /\ Outbox!Counter(j, n) <=> jobs'[j].retries = n
  BY DEF Outbox!Turns, Outbox!Holds, Outbox!Counter

(* Steps that leave row and delivery alone.                                *)
LEMMA RowRests ==
  ASSUME NEW j \in JobIds, jobs'[j] = jobs[j], Delivery(j)' = Delivery(j)
  PROVE  RowStep(j)
  BY DEF RowStep, Outbox!Rest, Outbox!Counter

(* Superseding withdraws a row, whoever is working on it.                  *)
LEMMA RowSuperseded ==
  ASSUME TypeOK, NEW j \in JobIds, jobs'[j] = Superseded(j), Delivery(j)' = Delivery(j)
  PROVE  RowStep(j)
  <1>1. CASE jobs[j].status \in ActiveStatuses
    <2>1. jobs[j] \in Job /\ jobs'[j] = [jobs[j] EXCEPT !.status = "SKIPPED"]
      BY <1>1 DEF TypeOK, Superseded
    <2>2. jobs'[j].status = "SKIPPED" /\ jobs'[j].retries = jobs[j].retries
      BY <2>1 DEF Job
    <2> QED
      BY <1>1, <2>2 DEF RowStep, Outbox!Withdraw, Outbox!Turns, Outbox!Counter, ActiveStatuses
  <1>2. CASE jobs[j].status \notin ActiveStatuses
    BY <1>2, RowRests DEF Superseded
  <1> QED  BY <1>1, <1>2

(* A new row is posted.                                                    *)
LEMMA RowPosted ==
  ASSUME NEW j \in JobIds, RowCreated(j), Delivery(j) = "none", Delivery(j)' = "none"
  PROVE  RowStep(j)
  BY DEF RowCreated, RowStep, Outbox!Post, Outbox!Turns, Outbox!Holds, Outbox!Counter

-----------------------------------------------------------------------------
(* Deliveries.                                                             *)

(* A row that waits, or is not there, is not being delivered. *)
LEMMA NotDelivered ==
  ASSUME JobInv, NEW j \in JobIds, j \in queue \/ jobs[j].status = "absent" \/ j \notin Executing
  PROVE  j \notin Executing /\ Delivery(j) = "none"
  <1>1. j \notin Executing
    BY DEF JobInv, OneRunPerJob, RowsExist, Held, JobIds
  <1> QED  BY <1>1 DEF Delivery

(* The worker that holds a row tells how far its delivery is.              *)
LEMMA HolderTells ==
  ASSUME JobInv, NEW w \in Workers, NEW j \in JobIds, run[w].job = j
  PROVE  Delivery(j) = Phase(pc[w]) /\ pc[w] \notin Waiting
  <1>1. j \in Executing /\ j # 0
    BY DEF Executing, JobIds
  <1>2. \A v \in Workers : run[v].job = j => v = w
    BY <1>1 DEF JobInv, OneRunPerJob
  <1>3. pc[w] \notin Waiting
    BY <1>1 DEF JobInv, HeldJobs
  <1> QED  BY <1>1, <1>2, <1>3 DEF Delivery, Phase, Written

(* The same after the step. *)
LEMMA HolderTellsNext ==
  ASSUME JobInv', NEW w \in Workers, NEW j \in JobIds, run'[w].job = j
  PROVE  Delivery(j)' = Phase(pc'[w])
  <1>1. j \in Executing' /\ j # 0
    BY DEF Executing, JobIds
  <1>2. \A v \in Workers : run'[v].job = j => v = w
    BY <1>1 DEF JobInv, OneRunPerJob
  <1>3. pc'[w] \notin Waiting
    BY <1>1 DEF JobInv, HeldJobs
  <1> QED  BY <1>1, <1>2, <1>3 DEF Delivery, Phase, Written

(* Who holds another row, before and after, does not matter.               *)
LEMMA OtherRow ==
  ASSUME NEW w \in Workers, OthersStay(w), NEW j \in JobIds, run[w].job # j, run'[w].job # j
  PROVE  Delivery(j)' = Delivery(j)
  <1>1. \A v \in Workers : /\ run'[v].job = j <=> run[v].job = j
                           /\ run[v].job = j => pc'[v] = pc[v]
    BY DEF OthersStay
  <1>2. j \in Executing' <=> j \in Executing
    BY <1>1 DEF Executing
  <1> QED  BY <1>1, <1>2 DEF Delivery

(* A worker that is done lets its row go.                                  *)
LEMMA DoneDelivers ==
  ASSUME JobInv, NEW w \in Workers, OthersStay(w), Ends(w), NEW j \in JobIds, run[w].job = j
  PROVE  Delivery(j)' = "none"
  <1>1. \A v \in Workers \ {w} : run[v].job # j
    BY DEF JobInv, OneRunPerJob, JobIds
  <1>2. run'[w].job # j
    BY DEF Ends, NoRun, JobIds
  <1>3. j \notin Executing'
    BY <1>1, <1>2 DEF OthersStay, Executing
  <1> QED  BY <1>3 DEF Delivery

(* No worker moves.                                                        *)
LEMMA NobodyMoves ==
  ASSUME UNCHANGED <<pc, run>>, NEW j \in JobIds PROVE Delivery(j)' = Delivery(j)
  BY DEF Delivery, Executing

-----------------------------------------------------------------------------
(* Steps of the API and of the environment: nobody's delivery moves.       *)

(* Steps that change neither workers nor table. *)
LEMMA NobodyActs ==
  ASSUME UNCHANGED <<pc, run, jobs>> PROVE \A j \in JobIds : RowStep(j)
  BY NobodyMoves, RowRests

(* One row is inserted, and perhaps a worker that holds none moves.        *)
LEMMA OneInserted ==
  ASSUME TypeOK, JobInv, NEW i \in JobIds, FreshJob(i), NEW r, r.status = "PENDING",
         r.retries = 0, jobs' = [jobs EXCEPT ![i] = r],
         \A j \in JobIds : Delivery(j)' = Delivery(j)
  PROVE  \A j \in JobIds : RowStep(j)
  <1>1. RowCreated(i) /\ \A j \in JobIds \ {i} : jobs'[j] = jobs[j]
    BY Inserted
  <1>2. Delivery(i) = "none"
    BY NotDelivered DEF FreshJob
  <1> QED  BY <1>1, <1>2, RowPosted, RowRests

(* Requests of users and administrators. *)
LEMMA ApiSteps == ASSUME TypeOK, JobInv, Api PROVE \A j \in JobIds : RowStep(j)
  <1>1. ASSUME NEW t, NEW c, ChangeTag(t, c) PROVE \A j \in JobIds : RowStep(j)
    <2>1. PICK i \in JobIds :
             /\ FreshJob(i)
             /\ jobs' = [j \in JobIds |-> IF j = i THEN SyncJob(config'.version)
                                                     ELSE Superseded(j)]
      BY <1>1 DEF ChangeTag
    <2>2. \A j \in JobIds : Delivery(j)' = Delivery(j)
      BY <1>1, NobodyMoves DEF ChangeTag
    <2>3. RowCreated(i)
      BY <2>1, FreshRows DEF RowCreated, FreshJob
    <2>4. Delivery(i) = "none"
      BY <2>1, NotDelivered DEF FreshJob
    <2>5. \A j \in JobIds \ {i} : jobs'[j] = Superseded(j)
      BY <2>1
    <2> QED  BY <2>2, <2>3, <2>4, <2>5, RowPosted, RowSuperseded
  <1>2. CASE RemoveTag
    <2>1. UNCHANGED <<pc, run>> /\ \A j \in JobIds : jobs'[j] = Superseded(j)
      BY <1>2 DEF RemoveTag
    <2> QED  BY <2>1, NobodyMoves, RowSuperseded
  <1>3. ASSUME NEW q \in Requests, CreateRequestedSync(q) PROVE \A j \in JobIds : RowStep(j)
    <2>1. PICK i \in JobIds :
             FreshJob(i) /\ jobs' = [jobs EXCEPT ![i] = SyncJob(request[q].version)]
      BY <1>3 DEF CreateRequestedSync
    <2>2. \A j \in JobIds : Delivery(j)' = Delivery(j)
      BY <1>3, NobodyMoves DEF CreateRequestedSync
    <2> QED  BY <2>1, <2>2, FreshRows, OneInserted
  <1>4. ASSUME NEW q \in Requests, CreateRetries(q) PROVE \A j \in JobIds : RowStep(j)
    <2> DEFINE new == {d \in request[q].rows : ActiveTagJobs(d) = {}}
    <2>1. PICK ids \in [request[q].rows -> JobIds] :
             /\ \A d \in new : jobs[ids[d]].status = "absent"
             /\ jobs' = [j \in JobIds |->
                            IF \E d \in new : ids[d] = j
                            THEN TagJob(CHOOSE d \in new : ids[d] = j, request[q].version)
                            ELSE jobs[j]]
      BY <1>4 DEF CreateRetries
    <2> HIDE DEF new
    <2>2. \A j \in JobIds : Delivery(j)' = Delivery(j)
      BY <1>4, NobodyMoves DEF CreateRetries
    <2>3. ASSUME NEW j \in JobIds, \E d \in new : ids[d] = j PROVE RowStep(j)
      <3>1. RowCreated(j)
        BY <2>1, <2>3, FreshRows DEF RowCreated
      <3>2. Delivery(j) = "none"
        BY <2>1, <2>3, NotDelivered
      <3> QED  BY <2>2, <3>1, <3>2, RowPosted
    <2>4. ASSUME NEW j \in JobIds, ~\E d \in new : ids[d] = j PROVE RowStep(j)
      BY <2>1, <2>2, <2>4, RowRests
    <2> QED  BY <2>3, <2>4
  <1>5. ASSUME NEW r \in Refs, LinkPaperlessDocument(r) PROVE \A j \in JobIds : RowStep(j)
    <2>1. UNCHANGED <<pc, run>>
      BY <1>5 DEF LinkPaperlessDocument
    <2>2. \/ UNCHANGED jobs
          \/ \E i \in JobIds : \E d : FreshJob(i)
               /\ jobs' = [jobs EXCEPT ![i] = TagJob(d, config.version)]
      BY <1>5 DEF LinkPaperlessDocument, ApplyManualLinkOrigin
    <2>3. \A j \in JobIds : Delivery(j)' = Delivery(j)
      BY <2>1, NobodyMoves
    <2> QED  BY <2>1, <2>2, <2>3, FreshRows, OneInserted, NobodyActs
  <1>6. CASE \/ \E q \in Requests, t \in Tags : RequestTag(q, t)
             \/ \E q \in Requests : RequestSync(q) \/ RequestRetry(q)
             \/ \E d \in RowIds : RemoveDocument(d)
             \/ \E j \in JobIds : Enqueue(j)
    BY <1>6, NobodyActs DEF RequestTag, RequestSync, RequestRetry, RemoveDocument, Enqueue
  <1> QED
    BY <1>1, <1>2, <1>3, <1>4, <1>5, <1>6 DEF Api, SetTag, SetRequestedTag

(* A worker that stops leaves its row as it is.                            *)
LEMMA StopSteps ==
  ASSUME TypeOK, JobInv, NEW w \in Workers, Finish(w), UNCHANGED jobs
  PROVE  \A j \in JobIds : RowStep(j)
  <1> SUFFICES ASSUME NEW j \in JobIds PROVE RowStep(j)
    OBVIOUS
  <1>1. OthersStay(w) /\ Ends(w)
    BY FinishMoves
  <1>2. CASE run[w].job = j
    <2>1. Delivery(j)' = "none"
      BY <1>1, <1>2, DoneDelivers
    <2>2. Delivery(j) \in {"begun", "marked", "written"}
      BY <1>2, HolderTells DEF Phase
    <2> QED
      BY <2>1, <2>2 DEF RowStep, Outbox!Leave, Outbox!Holds, Outbox!Counter
  <1>3. CASE run[w].job # j
    <2>1. run'[w].job # j
      BY <1>1 DEF Ends, NoRun, JobIds
    <2> QED  BY <1>1, <1>3, <2>1, OtherRow, RowRests
  <1> QED  BY <1>2, <1>3

(* Paperless, crashes and stalled jobs. *)
LEMMA EnvironmentSteps == ASSUME TypeOK, JobInv, Environment PROVE \A j \in JobIds : RowStep(j)
  <1>1. ASSUME NEW i \in JobIds, Forget(i) PROVE \A j \in JobIds : RowStep(j)
    <2>1. /\ jobs[i].status \in {"COMPLETED", "FAILED", "SKIPPED"} /\ i \notin Executing
          /\ jobs' = [jobs EXCEPT ![i] = NoJob] /\ UNCHANGED <<pc, run>>
      BY <1>1 DEF Forget
    <2>2. \A j \in JobIds : Delivery(j)' = Delivery(j)
      BY <2>1, NobodyMoves
    <2>3. Delivery(i) = "none"
      BY <2>1, NotDelivered
    <2>4. /\ jobs'[i].status = "absent" /\ jobs'[i].retries = 0
          /\ \A j \in JobIds \ {i} : jobs'[j] = jobs[j]
      BY <2>1 DEF TypeOK, NoJob
    <2>5. RowStep(i)
      BY <2>1, <2>2, <2>3, <2>4
         DEF RowStep, Outbox!Forget, Outbox!Turns, Outbox!Holds, Outbox!Counter, Outbox!Settled
    <2> QED  BY <2>2, <2>4, <2>5, RowRests
  <1>2. ASSUME NEW w \in Workers, Throw(w) \/ Crash(w) PROVE \A j \in JobIds : RowStep(j)
    BY <1>2, StopSteps DEF Throw, Crash
  <1>3. CASE \/ IntervalElapses
             \/ \E c \in Conns, r \in Refs, t \in Tags : Retag(c, r, t)
             \/ \E c \in Conns : Repoint(c)
             \/ ArchivePolicy
    BY <1>3, NobodyActs DEF IntervalElapses, Retag, Repoint, ArchivePolicy
  <1> QED  BY <1>1, <1>2, <1>3 DEF Environment

-----------------------------------------------------------------------------
(* Steps of an idle worker.                                                *)

(* Taking a row from the queue. *)
LEMMA DispatchSteps ==
  ASSUME TypeOK, JobInv, JobInv', NEW w \in Workers, NEW i \in JobIds, Dispatch(w, i)
  PROVE  \A j \in JobIds : RowStep(j)
  <1>1. i \in queue /\ pc[w] = "idle"
    BY DEF Dispatch, DropSettled, SkipJob, StartJob, Take
  <1>2. jobs[i].status # "absent" /\ jobs[i] \in Job
    BY <1>1 DEF JobInv, RowsExist, TypeOK
  <1>3. Delivery(i) = "none"
    BY <1>1, NotDelivered
  <1>4. CASE DropSettled(w, i)
    BY <1>4, NobodyActs DEF DropSettled
  <1>5. CASE SkipJob(w, i)
    <2>1. /\ UNCHANGED <<pc, run>> /\ jobs' = [jobs EXCEPT ![i].status = "SKIPPED"]
          /\ jobs[i].status \notin {"COMPLETED", "SKIPPED"}
      BY <1>5 DEF SkipJob, Settled
    <2>2. \A j \in JobIds : Delivery(j)' = Delivery(j)
      BY <2>1, NobodyMoves
    <2>3. /\ jobs'[i].status = "SKIPPED" /\ jobs'[i].retries = jobs[i].retries
          /\ \A j \in JobIds \ {i} : jobs'[j] = jobs[j]
      BY <1>2, <2>1 DEF TypeOK, Job
    <2>4. jobs[i].status \in {"PENDING", "RUNNING", "FAILED"}
      BY <1>2, <2>1 DEF Job
    <2>5. RowStep(i)
      BY <1>3, <2>2, <2>3, <2>4
         DEF RowStep, Outbox!Skip, Outbox!Turns, Outbox!Holds, Outbox!Counter
    <2> QED  BY <2>2, <2>3, <2>5, RowRests
  <1>6. CASE StartJob(w, i)
    <2>1. /\ UNCHANGED jobs /\ jobs[i].status \notin {"COMPLETED", "SKIPPED"}
          /\ pc' = [pc EXCEPT ![w] = "mark"]
          /\ run' = [run EXCEPT ![w] = [NoRun EXCEPT
                        !.job = i, !.version = jobs[i].version, !.retries = jobs[i].retries,
                        !.cfg = config.id, !.tag = config.tag, !.row = jobs[i].row]]
      BY <1>6 DEF StartJob, Settled, Goto
    <2>2. OthersStay(w) /\ run'[w].job = i /\ pc'[w] = "mark"
      BY <2>1 DEF TypeOK, OthersStay, NoRun
    <2>3. run[w].job = 0
      BY <1>1 DEF JobInv, HeldJobs, Waiting
    <2>4. \A j \in JobIds \ {i} : Delivery(j)' = Delivery(j)
      BY <2>2, <2>3, OtherRow DEF JobIds
    <2>5. Delivery(i)' = "begun"
      <3>1. Delivery(i)' = Phase(pc'[w])
        BY <2>2, HolderTellsNext
      <3>2. Phase("mark") = "begun"
        BY DEF Phase, Waiting, Written
      <3> QED  BY <2>2, <3>1, <3>2
    <2>6. jobs[i].status \in {"PENDING", "RUNNING", "FAILED"}
      BY <1>2, <2>1 DEF Job
    <2>7. RowStep(i)
      BY <1>3, <2>1, <2>5, <2>6
         DEF RowStep, Outbox!Begin, Outbox!Turns, Outbox!Holds, Outbox!Counter
    <2> QED  BY <2>1, <2>4, <2>7, RowRests
  <1> QED  BY <1>4, <1>5, <1>6 DEF Dispatch

(* The scheduler's tick. *)
LEMMA TickSteps ==
  ASSUME TypeOK, JobInv, NEW w \in Workers, Tick(w) PROVE \A j \in JobIds : RowStep(j)
  <1>1. UNCHANGED jobs /\ pc[w] = "idle"
    BY DEF Tick
  <1>2. CASE UNCHANGED <<run, pc>>
    BY <1>1, <1>2, NobodyActs
  <1>3. CASE /\ run' = [run EXCEPT ![w] = [run[w] EXCEPT !.version = config.version]]
             /\ pc' = [pc EXCEPT ![w] = "schedule"]
    <2>1. run[w] \in Run /\ run[w].job = 0
      BY <1>1 DEF TypeOK, JobInv, HeldJobs, Waiting
    <2>2. OthersStay(w) /\ run'[w].job = 0
      BY <1>3, <2>1 DEF TypeOK, OthersStay, Run
    <2> QED  BY <1>1, <2>1, <2>2, OtherRow, RowRests DEF JobIds
  <1> QED  BY <1>2, <1>3 DEF Tick, Goto

-----------------------------------------------------------------------------
(* Steps of a worker that goes on with its row.                            *)

\* It writes nothing into the table, and stays in the phase or lets its row go.
Advances(w) == UNCHANGED jobs /\ (Ends(w) \/ Phase(pc'[w]) = Phase(pc[w]))

(* It marks its row RUNNING. *)
Marks(w) ==
    /\ pc[w] = "mark" /\ Phase(pc'[w]) = "marked"
    /\ jobs' = [jobs EXCEPT ![run[w].job].status = "RUNNING"]

(* It writes its row's last status. *)
Settles(w) ==
    /\ Phase(pc[w]) = "marked" /\ (Ends(w) \/ Phase(pc'[w]) = "written")
    /\ \E s \in {"COMPLETED", "FAILED", "SKIPPED"} :
          jobs' = [jobs EXCEPT ![run[w].job].status = s]

(* It sends its row back, or gives it up. *)
SendsBack(w) ==
    /\ Phase(pc[w]) = "marked" /\ Ends(w)
    /\ \E n \in {run[w].retries, MaxRetries} : RetryOrFail(run[w].job, n)

(* It inserts a row that nobody holds yet. *)
InsertsOne(w) ==
    /\ Ends(w) \/ Phase(pc'[w]) = Phase(pc[w])
    /\ \E i \in JobIds : \E r :
          FreshJob(i) /\ r.status = "PENDING" /\ r.retries = 0
          /\ jobs' = [jobs EXCEPT ![i] = r]

(* The phase of each label. *)
LEMMA Phases ==
  /\ Phase("mark") = "begun"
  /\ \A l \in Written : Phase(l) = "written"
  /\ \A l \in {"fetch", "snapshot", "add", "addWrite", "drop", "dropWrite", "activate",
                "complete", "assign", "tagWrite", "tagDone"} : Phase(l) = "marked"
  BY DEF Phase, Waiting, Written

(* What the steps of a sync do for the outbox. *)
LEMMA SyncStepDeeds ==
  ASSUME TypeOK, NEW w \in Workers, SyncStep(w)
  PROVE  Advances(w) \/ Settles(w) \/ SendsBack(w) \/ InsertsOne(w)
  <1>1. pc \in [Workers -> Labels]
    BY DEF TypeOK
  <1>2. ASSUME NEW l, Goto(w, l) PROVE pc'[w] = l
    BY <1>1, <1>2 DEF Goto
  <1>3. ASSUME Finish(w) PROVE Ends(w)
    BY <1>3, FinishMoves
  <1>4. CASE FetchUnreachable(w) \/ FetchRejected(w) \/ FetchIncomplete(w)
    <2>1. /\ pc[w] = "fetch" /\ Finish(w)
          /\ \E n \in {run[w].retries, MaxRetries} : RetryOrFail(run[w].job, n)
      BY <1>4 DEF FetchUnreachable, FetchRejected, FetchIncomplete
    <2> QED  BY <1>3, <2>1, Phases DEF SendsBack
  <1>5. CASE AbortSync(w)
    <2>1. /\ pc[w] \in {"add", "drop"} /\ Finish(w)
          /\ jobs' = [jobs EXCEPT ![run[w].job].status = "SKIPPED"]
      BY <1>5 DEF AbortSync
    <2> QED  BY <1>3, <2>1, Phases DEF Settles
  <1>6. CASE CompleteSync(w)
    <2>1. /\ pc[w] = "complete" /\ Goto(w, "backfill")
          /\ jobs' = [jobs EXCEPT ![run[w].job].status = "COMPLETED"]
      BY <1>6 DEF CompleteSync
    <2> QED  BY <1>2, <2>1, Phases DEF Settles, Written
  <1>7. CASE \/ Fetch(w) \/ Snapshot(w) \/ CheckAdd(w) \/ CheckDrop(w)
             \/ AddTagOrigin(w) \/ DropTagOrigin(w) \/ Activate(w)
    <2>1. /\ pc[w] \in {"fetch", "snapshot", "add", "drop", "addWrite", "dropWrite", "activate"}
          /\ UNCHANGED jobs
      BY <1>7 DEF Fetch, Snapshot, CheckAdd, CheckDrop, AddTagOrigin, DropTagOrigin, Activate
    <2>2. \E l \in {"snapshot", "add", "addWrite", "drop", "dropWrite", "activate", "complete"} :
             Goto(w, l)
      BY <1>7 DEF Fetch, Snapshot, CheckAdd, CheckDrop, AddTagOrigin, DropTagOrigin, Activate,
                  SyncLabel
    <2>3. pc'[w] \in {"snapshot", "add", "addWrite", "drop", "dropWrite", "activate", "complete"}
      BY <1>2, <2>2
    <2>4. Phase(pc[w]) = "marked" /\ Phase(pc'[w]) = "marked"
      BY <2>1, <2>3, Phases
    <2> QED  BY <2>1, <2>4 DEF Advances
  <1>8. CASE StartBackfill(w) \/ CheckBackfill(w)
    <2>1. pc[w] \in Written /\ UNCHANGED jobs
      BY <1>8 DEF StartBackfill, CheckBackfill, Written
    <2>2. \/ Finish(w) \/ Goto(w, "backfillCheck") \/ Goto(w, "backfillWrite") \/ UNCHANGED pc
      BY <1>8 DEF StartBackfill, CheckBackfill
    <2>3. Ends(w) \/ pc'[w] \in Written
      BY <1>2, <1>3, <2>1, <2>2 DEF Written
    <2> QED  BY <2>1, <2>3, Phases DEF Advances
  <1>9. CASE CreateBackfill(w)
    <2>1. /\ pc[w] = "backfillWrite"
          /\ \E i \in JobIds :
                FreshJob(i) /\ jobs' = [jobs EXCEPT ![i] = TagJob(run[w].row, run[w].version)]
          /\ Finish(w) \/ Goto(w, "backfillCheck")
      BY <1>9 DEF CreateBackfill
    <2>2. Ends(w) \/ Phase(pc'[w]) = Phase(pc[w])
      BY <1>2, <1>3, <2>1, Phases DEF Written
    <2> DEFINE r == TagJob(run[w].row, run[w].version)
    <2>3. r.status = "PENDING" /\ r.retries = 0
      BY FreshRows
    <2> HIDE DEF r
    <2> QED  BY <2>1, <2>2, <2>3 DEF InsertsOne, r
  <1> QED  BY <1>4, <1>5, <1>6, <1>7, <1>8, <1>9 DEF SyncStep

(* What any step of a worker with a row does. *)
LEMMA ProceedDeeds ==
  ASSUME TypeOK, NEW w \in Workers, Proceed(w)
  PROVE  Advances(w) \/ Marks(w) \/ Settles(w) \/ SendsBack(w) \/ InsertsOne(w)
  <1>1. pc \in [Workers -> Labels]
    BY DEF TypeOK
  <1>2. ASSUME NEW l, Goto(w, l) PROVE pc'[w] = l
    BY <1>1, <1>2 DEF Goto
  <1>3. ASSUME Finish(w) PROVE Ends(w)
    BY <1>3, FinishMoves
  <1>4. CASE MarkRunning(w)
    <2>1. /\ pc[w] = "mark" /\ (Goto(w, "fetch") \/ Goto(w, "assign"))
          /\ jobs' = [jobs EXCEPT ![run[w].job].status = "RUNNING"]
      BY <1>4 DEF MarkRunning
    <2> QED  BY <1>2, <2>1, Phases DEF Marks
  <1>5. CASE AssignTag(w) \/ WriteTagging(w)
    <2>1. /\ pc[w] \in {"assign", "tagWrite"} /\ UNCHANGED jobs
          /\ Goto(w, "tagWrite") \/ Goto(w, "tagDone")
      BY <1>5 DEF AssignTag, WriteTagging
    <2>2. pc'[w] \in {"tagWrite", "tagDone"}
      BY <1>2, <2>1
    <2> QED  BY <2>1, <2>2, Phases DEF Advances
  <1>6. CASE FinishTagJob(w)
    <2>1. /\ pc[w] = "tagDone" /\ Finish(w)
          /\ \/ \E s \in {"COMPLETED", "FAILED"} : jobs' = [jobs EXCEPT ![run[w].job].status = s]
             \/ RetryOrFail(run[w].job, run[w].retries)
      BY <1>6 DEF FinishTagJob
    <2> QED  BY <1>3, <2>1, Phases DEF Settles, SendsBack
  <1>7. CASE ScheduleSync(w)
    <2>1. /\ \E i \in JobIds : FreshJob(i) /\ jobs' = [jobs EXCEPT ![i] = SyncJob(run[w].version)]
          /\ Finish(w)
      BY <1>7 DEF ScheduleSync
    <2> QED  BY <1>3, <2>1, FreshRows DEF InsertsOne
  <1>8. CASE RefuseInsert(w)
    BY <1>3, <1>8 DEF RefuseInsert, Advances
  <1> QED  BY <1>4, <1>5, <1>6, <1>7, <1>8, SyncStepDeeds DEF Proceed, TagStep

(* What such a step is to the row that the worker holds.                   *)
LEMMA HeldRowSteps ==
  ASSUME TypeOK, JobInv, JobInv', MarkedIsOpen, NEW w \in Workers, Moves(w),
         NEW j \in JobIds, run[w].job = j,
         Advances(w) \/ Marks(w) \/ Settles(w) \/ SendsBack(w)
  PROVE  RowStep(j)
  <1>1. Delivery(j) = Phase(pc[w]) /\ pc[w] \notin Waiting
    BY HolderTells
  <1>2. Ends(w) => Delivery(j)' = "none"
    BY DoneDelivers DEF Moves
  <1>3. ~Ends(w) => Delivery(j)' = Phase(pc'[w])
    <2>1. ~Ends(w) => run'[w].job = j
      BY DEF Moves, Continues, SamePurpose
    <2> QED  BY <2>1, HolderTellsNext
  <1>4. jobs \in [JobIds -> Job] /\ jobs[j] \in Job
    BY DEF TypeOK
  <1>5. jobs[j].status # "absent"
    BY DEF JobInv, RowsExist, Held, Executing, JobIds
  <1>6. jobs[j].retries = run[w].retries
    BY DEF JobInv, RetriesRead, JobIds
  <1>7. Phase(pc[w]) = "marked" => jobs[j].status \in {"RUNNING", "SKIPPED"}
    BY <1>1 DEF MarkedIsOpen
  <1>8. ASSUME NEW s, jobs' = [jobs EXCEPT ![j].status = s]
        PROVE jobs'[j].status = s /\ jobs'[j].retries = jobs[j].retries
    BY <1>4, <1>8 DEF Job
  <1>9. CASE Advances(w)
    <2>1. jobs'[j] = jobs[j]
      BY <1>9 DEF Advances
    <2>2. CASE Ends(w)
      <3>1. Delivery(j) \in {"begun", "marked", "written"}
        BY <1>1 DEF Phase
      <3> QED
        BY <1>2, <2>1, <2>2, <3>1 DEF RowStep, Outbox!Leave, Outbox!Holds, Outbox!Counter
    <2>3. CASE ~Ends(w)
      BY <1>1, <1>3, <1>9, <2>1, <2>3, RowRests DEF Advances
    <2> QED  BY <2>2, <2>3
  <1>10. CASE Marks(w)
    <2>1. jobs'[j].status = "RUNNING" /\ jobs'[j].retries = jobs[j].retries
      BY <1>8, <1>10 DEF Marks
    <2>2. Delivery(j) = "begun" /\ jobs[j].status # "COMPLETED"
      BY <1>1, <1>10, Phases DEF Marks, JobInv, OpenWhileWorking, Working, Labels, Waiting
    <2>3. Delivery(j)' = "marked"
      <3>1. ~Ends(w)
        BY <1>10 DEF Marks, Ends, Phase, Waiting
      <3> QED  BY <1>3, <1>10, <3>1 DEF Marks
    <2>4. jobs[j].status \in {"PENDING", "RUNNING", "FAILED", "SKIPPED"}
      BY <1>4, <1>5, <2>2 DEF Job
    <2> QED
      BY <2>1, <2>2, <2>3, <2>4 DEF RowStep, Outbox!Mark, Outbox!Turns, Outbox!Holds, Outbox!Counter
  <1>11. CASE Settles(w)
    <2>1. jobs'[j].status \in {"COMPLETED", "FAILED", "SKIPPED"} /\ jobs'[j].retries = jobs[j].retries
      BY <1>8, <1>11 DEF Settles
    <2>2. Delivery(j) = "marked" /\ Delivery(j)' \in {"none", "written"}
      BY <1>1, <1>2, <1>3, <1>11 DEF Settles
    <2> QED
      BY <1>1, <1>7, <2>1, <2>2
         DEF RowStep, Outbox!Finish, Outbox!Turns, Outbox!Holds, Outbox!Counter, Outbox!Settled
  <1>12. CASE SendsBack(w)
    <2>1. PICK n \in {run[w].retries, MaxRetries} : RetryOrFail(j, n)
      BY <1>12 DEF SendsBack
    <2>2. Delivery(j) = "marked" /\ Delivery(j)' = "none"
      BY <1>1, <1>2, <1>12 DEF SendsBack
    <2>3. CASE n < MaxRetries
      <3>1. jobs[j].retries < MaxRetries
        BY <1>6, <2>1, <2>3, BoundsAssumption
      <3>2. jobs'[j].status = "PENDING" /\ jobs'[j].retries = jobs[j].retries + 1
        BY <1>4, <2>1, <2>3 DEF RetryOrFail, Job
      <3> QED
        BY <1>1, <1>7, <2>2, <3>1, <3>2
           DEF RowStep, Outbox!SendBack, Outbox!Turns, Outbox!Holds, Outbox!Counter
    <2>4. CASE ~(n < MaxRetries)
      <3>1. jobs'[j].status = "FAILED" /\ jobs'[j].retries = jobs[j].retries
        BY <1>8, <2>1, <2>4 DEF RetryOrFail
      <3> QED
        BY <1>1, <1>7, <2>2, <3>1
           DEF RowStep, Outbox!Finish, Outbox!Turns, Outbox!Holds, Outbox!Counter, Outbox!Settled
    <2> QED  BY <2>3, <2>4
  <1> QED  BY <1>9, <1>10, <1>11, <1>12

(* A step of a worker is a step of Outbox for its own row. *)
LEMMA ProceedSteps ==
  ASSUME TypeOK, JobInv, JobInv', MarkedIsOpen, NEW w \in Workers, Proceed(w)
  PROVE  \A j \in JobIds : RowStep(j)
  <1>1. Moves(w)
    BY ProceedMoves
  <1>2. run'[w].job \in {run[w].job, 0}
    BY <1>1 DEF Moves, Ends, Continues, SamePurpose, NoRun
  <1>3. CASE InsertsOne(w)
    <2>1. \A j \in JobIds : Delivery(j)' = Delivery(j) \/ run[w].job = j
      BY <1>1, <1>2, OtherRow DEF Moves, JobIds
    <2>2. PICK i \in JobIds : \E r : FreshJob(i) /\ r.status = "PENDING" /\ r.retries = 0
                                    /\ jobs' = [jobs EXCEPT ![i] = r]
      BY <1>3 DEF InsertsOne
    <2>3. RowCreated(i) /\ \A j \in JobIds \ {i} : jobs'[j] = jobs[j]
      BY <2>2, Inserted
    <2>4. i \notin Executing /\ Delivery(i) = "none"
      BY <2>2, NotDelivered DEF FreshJob
    <2>5. RowStep(i)
      BY <2>1, <2>3, <2>4, RowPosted DEF Executing
    <2>6. ASSUME NEW j \in JobIds \ {i} PROVE RowStep(j)
      <3>1. CASE run[w].job # j
        BY <2>1, <2>3, <3>1, RowRests
      <3>2. CASE run[w].job = j
        <4>1. Delivery(j) = Phase(pc[w]) /\ Delivery(j) \in {"begun", "marked", "written"}
          BY <3>2, HolderTells DEF Phase
        <4>2. CASE Ends(w)
          <5>1. Delivery(j)' = "none"
            BY <1>1, <3>2, <4>2, DoneDelivers DEF Moves
          <5> QED
            BY <2>3, <4>1, <5>1 DEF RowStep, Outbox!Leave, Outbox!Holds, Outbox!Counter
        <4>3. CASE ~Ends(w)
          <5>1. run'[w].job = j /\ Phase(pc'[w]) = Phase(pc[w])
            BY <1>1, <1>3, <3>2, <4>3 DEF Moves, Continues, SamePurpose, InsertsOne
          <5>2. Delivery(j)' = Delivery(j)
            BY <4>1, <5>1, HolderTellsNext
          <5> QED  BY <2>3, <5>2, RowRests
        <4> QED  BY <4>2, <4>3
      <3> QED  BY <3>1, <3>2
    <2> QED  BY <2>5, <2>6
  <1>4. CASE Advances(w) \/ Marks(w) \/ Settles(w) \/ SendsBack(w)
    <2> SUFFICES ASSUME NEW j \in JobIds PROVE RowStep(j)
      OBVIOUS
    <2>1. CASE run[w].job = j
      BY <1>1, <1>4, <2>1, HeldRowSteps
    <2>2. CASE run[w].job # j
      <3>1. jobs'[j] = jobs[j]
        BY <1>4, <2>2 DEF TypeOK, Advances, Marks, Settles, SendsBack, RetryOrFail
      <3>2. Delivery(j)' = Delivery(j)
        BY <1>1, <1>2, <2>2, OtherRow DEF Moves, JobIds
      <3> QED  BY <3>1, <3>2, RowRests
    <2> QED  BY <2>1, <2>2
  <1> QED  BY <1>3, <1>4, ProceedDeeds

-----------------------------------------------------------------------------
(* The refinement.                                                         *)

(* So is every step, for every row. *)
LEMMA EveryStepIsOutbox ==
  ASSUME TypeOK, JobInv, JobInv', MarkedIsOpen, [Next]_vars
  PROVE  \A j \in JobIds : RowStep(j)
  <1>1. CASE UNCHANGED vars
    BY <1>1, NobodyActs DEF vars
  <1>2. CASE Next
    BY <1>2, ApiSteps, DispatchSteps, ProceedSteps, TickSteps, EnvironmentSteps DEF Next
  <1> QED  BY <1>1, <1>2

(* The steps of the outbox alone keep a marked row open.                   *)
LEMMA MarkedStaysOpen ==
  ASSUME MarkedIsOpen, \A j \in JobIds : RowStep(j) PROVE MarkedIsOpen'
  <1> SUFFICES ASSUME NEW j \in JobIds, Delivery(j)' = "marked"
               PROVE  jobs'[j].status \in {"RUNNING", "SKIPPED"}
    BY DEF MarkedIsOpen
  <1>1. RowStep(j) /\ (Delivery(j) = "marked" => jobs[j].status \in {"RUNNING", "SKIPPED"})
    BY DEF MarkedIsOpen
  <1> QED
    BY <1>1 DEF RowStep, Outbox!Post, Outbox!Withdraw, Outbox!Begin, Outbox!Skip, Outbox!Mark,
                Outbox!Finish, Outbox!SendBack, Outbox!Leave, Outbox!Forget, Outbox!Rest,
                Outbox!Turns, Outbox!Holds

(* At the start there is no row. *)
LEMMA InitIsOutbox == ASSUME Init PROVE Outbox!OutboxInit /\ MarkedIsOpen
  <1>1. \A w \in Workers : run[w].job = 0
    BY DEF Init, NoRun
  <1>2. \A j \in JobIds : Delivery(j) = "none"
    BY <1>1 DEF Delivery, Executing, JobIds
  <1>3. \A j \in JobIds : jobs[j].status = "absent" /\ jobs[j].retries = 0
    BY DEF Init, NoJob
  <1> QED  BY <1>2, <1>3 DEF Outbox!OutboxInit, MarkedIsOpen

(* A row whose delivery was marked is RUNNING, or was withdrawn meanwhile. *)
THEOREM MarkedRowsOpen == Spec => []MarkedIsOpen
  <1>1. Init => MarkedIsOpen
    BY InitIsOutbox
  <1>2. TypeOK /\ JobInv /\ JobInv' /\ MarkedIsOpen /\ [Next]_vars => MarkedIsOpen'
    BY EveryStepIsOutbox, MarkedStaysOpen
  <1> QED  BY <1>1, <1>2, TypeCorrect, JobInvariance, PTL DEF Spec

(* The outbox table keeps its promise: deliveries of a row never overlap,  *)
(* no settled row is delivered except a failed one, and no row is sent     *)
(* back more often than MaxRetries, whatever ticks, late pushes, deaths    *)
(* and withdrawals come together.                                          *)
THEOREM RefinesOutbox == Spec => ImplementsOutbox
  <1>1. Init => Outbox!OutboxInit
    BY InitIsOutbox
  <1>2. TypeOK /\ JobInv /\ JobInv' /\ MarkedIsOpen /\ [Next]_vars
          => [Outbox!OutboxNext]_(Outbox!outboxVars)
    BY EveryStepIsOutbox DEF RowStep, Outbox!OutboxNext
  <1> QED
    BY <1>1, <1>2, TypeCorrect, JobInvariance, MarkedRowsOpen, PTL
       DEF Spec, ImplementsOutbox, Outbox!OutboxSpec

=============================================================================
