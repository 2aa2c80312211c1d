-------------------------- MODULE PaperlessTagSync --------------------------
(***************************************************************************)
(* The tag-based assignment of Paperless documents to ONE insurance        *)
(* policy: the API handlers that change the tag configuration and the      *)
(* manual links, the outbox table paperless_tag_jobs, the BullMQ queue,    *)
(* the worker that runs SYNC_POLICY, TAG_DOCUMENT and the periodic         *)
(* reconciliation, and the external Paperless server.                      *)
(*                                                                         *)
(* A database transaction is one step.  Handlers are cut at every await    *)
(* after which another process can change what they already read: the      *)
(* values read are kept in run[w] (worker) or request[q] (API) and may be  *)
(* stale when they are used.  Consecutive reads with no write of another   *)
(* party able to tell their order apart are one step.  Policies share no   *)
(* state but the queue, so one policy is modelled.  Audit events, document *)
(* metadata, progress counters and error codes are left out.               *)
(***************************************************************************)
EXTENDS Naturals, FiniteSets

CONSTANTS
    Refs,            \* Paperless document ids (storageRef)
    Tags,            \* Paperless tag ids
    Conns,           \* values PAPERLESS_URL can take
    Workers,         \* worker processes; BullMQ concurrency is 1 per process
    Requests,        \* concurrent API requests that read before they write
    None,            \* SQL NULL
    AutoSync,        \* what a tick may read for PAPERLESS_TAG_SYNC_ENABLED
    MaxRetries,      \* paperless_tag_jobs.maxRetries (3 in the schema)
    MaxJobs,         \* bound: outbox rows
    Forgetful,       \* BOOLEAN: rows nobody refers to free their place (see Forget)
    MaxRows,         \* bound: policy_documents rows
    MaxConfigs,      \* bound: configuration rows ever created
    MaxVersion,      \* bound: configVersion
    MaxCalls,        \* bound: API calls that change something
    MaxRetags,       \* bound: tag changes made in Paperless itself
    MaxRepoints,     \* bound: changes of PAPERLESS_URL
    MaxArchives,     \* bound: archivings of the policy (0 or 1)
    MaxExceptions,   \* bound: exceptions swallowed by process()
    MaxCrashes       \* bound: worker deaths, redelivered by BullMQ

ASSUME BoundsAssumption ==
    /\ {MaxRetries, MaxJobs, MaxRows, MaxConfigs, MaxVersion} \subseteq Nat
    /\ {MaxCalls, MaxRetags, MaxRepoints, MaxArchives, MaxExceptions, MaxCrashes} \subseteq Nat
    /\ AutoSync \subseteq BOOLEAN
    /\ Forgetful \in BOOLEAN
    /\ Conns # {}
    /\ None \notin Refs \cup Tags \cup Conns

VARIABLES
    config,      \* the policy_paperless_tags row of the policy
    configIds,   \* how many configuration rows were created so far
    rows,        \* policy_documents rows of type PAPERLESS_LINK
    jobs,        \* paperless_tag_jobs rows
    unsent,      \* jobs the API committed but has not pushed to BullMQ yet
    queue,       \* jobs waiting in BullMQ
    pc, run,     \* where each worker is, and what it read so far
    request,     \* API requests between their read and their write
    paperless,   \* tags of each document on each Paperless server
    baseUrl,     \* the effective PAPERLESS_URL
    archived,    \* insurance_policies.archivedAt is set
    spent        \* how much of each environment bound is used

vars == <<config, configIds, rows, jobs, unsent, queue, pc, run, request,
          paperless, baseUrl, archived, spent>>

JobIds == 1..MaxJobs
RowIds == 1..MaxRows
ActiveStatuses == {"PENDING", "RUNNING"}

Config ==
    [id : 0..MaxConfigs, version : 0..MaxVersion, tag : Tags \cup {None},
     conn : Conns \cup {None}, status : {"PENDING", "ACTIVE", "ERROR"}, due : BOOLEAN]
Row ==
    [state : {"absent", "live", "archived"}, ref : Refs \cup {None},
     manual : BOOLEAN, tag : BOOLEAN,
     tagging : {None, "PENDING", "APPLIED", "FAILED"}]
Job ==
    [status : {"absent", "PENDING", "RUNNING", "COMPLETED", "FAILED", "SKIPPED"},
     kind : {"SYNC_POLICY", "TAG_DOCUMENT"}, row : 0..MaxRows,
     version : 0..MaxVersion, retries : Nat]
Run ==
    [job : 0..MaxJobs, version : 0..MaxVersion, retries : Nat,
     cfg : 0..MaxConfigs, tag : Tags \cup {None}, row : 0..MaxRows,
     remote : SUBSET Refs, local : SUBSET RowIds, manual : SUBSET RowIds,
     tagged : SUBSET RowIds, adds : SUBSET Refs, todo : SUBSET RowIds,
     ref : Refs \cup {None}, outcome : {"none", "ok", "retry", "reject"}]
Request ==
    [op : {"idle", "set", "sync", "retry"}, version : 0..MaxVersion, rows : SUBSET RowIds,
     tag : Tags \cup {None}, conn : Conns \cup {None}]

Labels == {"idle", "mark", "fetch", "snapshot", "add", "addWrite", "drop", "dropWrite",
           "activate", "complete", "backfill", "backfillCheck", "backfillWrite",
           "assign", "tagWrite", "tagDone", "schedule"}

NoConfig == [id |-> 0, version |-> 0, tag |-> None, conn |-> None,
             status |-> "PENDING", due |-> FALSE]
NoRow == [state |-> "absent", ref |-> None, manual |-> FALSE, tag |-> FALSE,
          tagging |-> None]
NoJob == [status |-> "absent", kind |-> "SYNC_POLICY", row |-> 0, version |-> 0,
          retries |-> 0]
NoRun == [job |-> 0, version |-> 0, retries |-> 0, cfg |-> 0, tag |-> None, row |-> 0,
          remote |-> {}, local |-> {}, manual |-> {}, tagged |-> {}, adds |-> {},
          todo |-> {}, ref |-> None, outcome |-> "none"]
NoRequest == [op |-> "idle", version |-> 0, rows |-> {}, tag |-> None, conn |-> None]

HasTag == config.version # 0
Live(d) == rows[d].state = "live"
LiveLinks(r) == {d \in RowIds : Live(d) /\ rows[d].ref = r}
ActiveJobs(kind) == {j \in JobIds : jobs[j].kind = kind /\ jobs[j].status \in ActiveStatuses}
ActiveTagJobs(d) == {j \in ActiveJobs("TAG_DOCUMENT") : jobs[j].row = d}
Executing == {run[w].job : w \in Workers}

\* Row ids are uuids; handing them out in order loses nothing.
FreshJob(j) == jobs[j].status = "absent" /\ \A i \in 1..(j - 1) : jobs[i].status # "absent"
FreshRow(d) == rows[d].state = "absent" /\ \A i \in 1..(d - 1) : rows[i].state # "absent"
SyncJob(v) == [NoJob EXCEPT !.status = "PENDING", !.version = v]
TagJob(d, v) == [NoJob EXCEPT !.status = "PENDING", !.version = v,
                              !.kind = "TAG_DOCUMENT", !.row = d]

\* Broken variant: BullMQ is asked to run a row it is running.
EnqueuedAgain(ids) == queue \cup ids

\* queue.add with jobId = row id: ignored while BullMQ still knows the id.
Enqueued(ids) == queue \cup (ids \ Executing)

\* The environment's budget: every user call and every fault is counted.
Spend(what, bound) == spent[what] < bound /\ spent' = [spent EXCEPT ![what] = @ + 1]

Init ==
    /\ config = NoConfig
    /\ configIds = 0
    /\ rows = [d \in RowIds |-> NoRow]
    /\ jobs = [j \in JobIds |-> NoJob]
    /\ unsent = {}
    /\ queue = {}
    /\ pc = [w \in Workers |-> "idle"]
    /\ run = [w \in Workers |-> NoRun]
    /\ request = [q \in Requests |-> NoRequest]
    /\ paperless \in [Conns -> [Refs -> SUBSET Tags]]
    /\ baseUrl \in Conns
    /\ archived = FALSE
    /\ spent = [call |-> 0, retag |-> 0, repoint |-> 0, archive |-> 0, exception |-> 0, crash |-> 0]

-----------------------------------------------------------------------------
(* The API: PaperlessTagService and the Paperless part of DocumentsService *)

\* Broken variant: every row of the policy is closed, open or not.
SupersededAll(j) ==
    IF jobs[j].status # "absent" THEN [jobs[j] EXCEPT !.status = "SKIPPED"] ELSE jobs[j]

\* Open outbox rows are closed when the configuration changes or goes.
Superseded(j) ==
    IF jobs[j].status \in ActiveStatuses THEN [jobs[j] EXCEPT !.status = "SKIPPED"] ELSE jobs[j]

\* Broken variant: a change of the tag keeps the version.
ChangedConfigSameVersion(t, c) ==
    IF HasTag
    THEN [config EXCEPT !.tag = t, !.conn = c, !.status = "PENDING"]
    ELSE [id |-> configIds + 1, version |-> 1, tag |-> t, conn |-> c,
          status |-> "PENDING", due |-> TRUE]

ChangedConfig(t, c) ==
    IF HasTag
    THEN [config EXCEPT !.version = @ + 1, !.tag = t, !.conn = c, !.status = "PENDING"]
    ELSE [id |-> configIds + 1, version |-> 1, tag |-> t, conn |-> c,
          status |-> "PENDING", due |-> TRUE]

\* Confirmed assignments belong to the old tag once the tag itself changes.
ResetApplied(t, d) ==
    IF HasTag /\ config.tag # t /\ rows[d].manual /\ rows[d].tagging = "APPLIED"
    THEN [rows[d] EXCEPT !.tagging = "PENDING"] ELSE rows[d]

\* The transaction of setTag, for the base URL read before it.
ChangeTag(t, c) ==
    /\ IF HasTag THEN config.version < MaxVersion ELSE configIds < MaxConfigs /\ MaxVersion > 0
    /\ \E j \in JobIds :
          /\ FreshJob(j)
          /\ config' = ChangedConfig(t, c)
          /\ configIds' = IF HasTag THEN configIds ELSE configIds + 1
          /\ jobs' = [i \in JobIds |-> IF i = j THEN SyncJob(config'.version) ELSE Superseded(i)]
          /\ rows' = [d \in RowIds |-> ResetApplied(t, d)]
          /\ unsent' = unsent \cup {j}
    /\ UNCHANGED <<queue, pc, run, paperless, baseUrl, archived>>

\* A call of setTag that nothing overtakes.
SetTag(t) ==
    /\ ~archived
    /\ Spend("call", MaxCalls)
    /\ ChangeTag(t, baseUrl)
    /\ UNCHANGED request

\* setTag asks Paperless for the tag between its checks and its transaction.
RequestTag(q, t) ==
    /\ ~archived
    /\ Spend("call", MaxCalls)
    /\ request[q].op = "idle"
    /\ request' = [request EXCEPT ![q] = [NoRequest EXCEPT !.op = "set", !.tag = t,
                                                           !.conn = baseUrl]]
    /\ UNCHANGED <<config, configIds, rows, jobs, unsent, queue, pc, run, paperless,
                   baseUrl, archived>>

SetRequestedTag(q) ==
    /\ request[q].op = "set"
    /\ ChangeTag(request[q].tag, request[q].conn)
    /\ request' = [request EXCEPT ![q] = NoRequest]
    /\ UNCHANGED spent

\* Broken variant: the status of the superseded job lands in the document row.
WithoutTagOriginSkipped(d) ==
    [rows[d] EXCEPT !.tag = FALSE, !.tagging = IF rows[d].manual THEN "SKIPPED" ELSE @]

\* Only the automatic origin goes; a link without any other origin is hidden.
WithoutTagOrigin(d) ==
    [rows[d] EXCEPT
        !.tag = FALSE,
        !.state = IF rows[d].tag /\ ~rows[d].manual THEN "archived" ELSE @,
        !.tagging = IF rows[d].manual /\ Live(d) THEN None ELSE @]

RemoveTag ==
    /\ ~archived
    /\ Spend("call", MaxCalls)
    /\ HasTag
    /\ config' = NoConfig
    /\ jobs' = [j \in JobIds |-> Superseded(j)]
    /\ rows' = [d \in RowIds |-> WithoutTagOrigin(d)]
    /\ UNCHANGED <<configIds, unsent, queue, pc, run, request, paperless, baseUrl,
                   archived>>

\* requestSync: no transaction around "is a run active?" and the insert.
RequestSync(q) ==
    /\ ~archived
    /\ Spend("call", MaxCalls)
    /\ request[q].op = "idle"
    /\ HasTag
    /\ ActiveJobs("SYNC_POLICY") = {}
    /\ request' = [request EXCEPT ![q] = [NoRequest EXCEPT !.op = "sync",
                                                           !.version = config.version]]
    /\ UNCHANGED <<config, configIds, rows, jobs, unsent, queue, pc, run, paperless,
                   baseUrl, archived>>

CreateRequestedSync(q) ==
    /\ request[q].op = "sync"
    /\ \E j \in JobIds :
          /\ FreshJob(j)
          /\ jobs' = [jobs EXCEPT ![j] = SyncJob(request[q].version)]
          /\ unsent' = unsent \cup {j}
    /\ request' = [request EXCEPT ![q] = NoRequest]
    /\ UNCHANGED <<config, configIds, rows, queue, pc, run, paperless, baseUrl,
                   archived, spent>>

Retryable == {d \in RowIds : Live(d) /\ rows[d].manual /\ rows[d].tagging \in {"PENDING", "FAILED"}}

\* retryTagging for all documents or, with a documentId, for one.
RequestRetry(q) ==
    /\ ~archived
    /\ Spend("call", MaxCalls)
    /\ request[q].op = "idle"
    /\ HasTag
    /\ \E ds \in {Retryable} \cup {{d} : d \in Retryable} :
          /\ ds # {}
          /\ request' = [request EXCEPT ![q] = [NoRequest EXCEPT !.op = "retry", !.rows = ds,
                                                               !.version = config.version]]
    /\ UNCHANGED <<config, configIds, rows, jobs, unsent, queue, pc, run, paperless,
                   baseUrl, archived>>

\* A document without an active row gets one; otherwise one active row is pushed again.
CreateRetries(q) ==
    LET ds == request[q].rows
        new == {d \in ds : ActiveTagJobs(d) = {}}
    IN
    /\ request[q].op = "retry"
    /\ \E ids \in [ds -> JobIds] :
          /\ \A d \in ds \ new : ids[d] \in ActiveTagJobs(d)
          /\ \A d, e \in new : d # e => ids[d] # ids[e]
          /\ \A d \in new : /\ jobs[ids[d]].status = "absent"
                            /\ \A i \in 1..(ids[d] - 1) :
                                  jobs[i].status # "absent" \/ \E e \in new : ids[e] = i
          /\ jobs' = [j \in JobIds |->
                         IF \E d \in new : ids[d] = j
                         THEN TagJob(CHOOSE d \in new : ids[d] = j, request[q].version)
                         ELSE jobs[j]]
          /\ unsent' = unsent \cup {ids[d] : d \in ds}
    /\ rows' = [d \in RowIds |-> IF d \in ds THEN [rows[d] EXCEPT !.tagging = "PENDING"]
                                             ELSE rows[d]]
    /\ request' = [request EXCEPT ![q] = NoRequest]
    /\ UNCHANGED <<config, configIds, queue, pc, run, paperless, baseUrl, archived, spent>>

\* applyManualLinkOrigin on row d, which carries `link` before the call.
ApplyManualLinkOrigin(d, link) ==
    IF ~HasTag
    THEN /\ rows' = [rows EXCEPT ![d] = [link EXCEPT !.manual = TRUE]]
         /\ UNCHANGED <<jobs, unsent>>
    ELSE /\ rows' = [rows EXCEPT ![d] = [link EXCEPT !.manual = TRUE, !.tagging = "PENDING"]]
         /\ \/ ActiveTagJobs(d) # {} /\ UNCHANGED <<jobs, unsent>>
            \/ /\ ActiveTagJobs(d) = {}
               /\ \E j \in JobIds :
                     /\ FreshJob(j)
                     /\ jobs' = [jobs EXCEPT ![j] = TagJob(d, config.version)]
                     /\ unsent' = unsent \cup {j}

\* DocumentsService does not ask whether the policy is archived.
\* The live link of r is reused, otherwise a new row is created; the unique
\* index makes a parallel create fall back to the first case.
LinkPaperlessDocument(r) ==
    /\ Spend("call", MaxCalls)
    /\ \E d \in RowIds :
          \/ d \in LiveLinks(r) /\ ApplyManualLinkOrigin(d, rows[d])
          \/ /\ LiveLinks(r) = {}
             /\ FreshRow(d)
             /\ ApplyManualLinkOrigin(d, [NoRow EXCEPT !.state = "live", !.ref = r])
    /\ UNCHANGED <<config, configIds, queue, pc, run, request, paperless, baseUrl,
                   archived>>

\* remove: with both origins only the manual link goes, otherwise the row is archived.
RemoveDocument(d) ==
    /\ Spend("call", MaxCalls)
    /\ Live(d)
    /\ rows' = IF rows[d].tag /\ rows[d].manual
               THEN [rows EXCEPT ![d].manual = FALSE]
               ELSE [rows EXCEPT ![d].state = "archived"]
    /\ UNCHANGED <<config, configIds, jobs, unsent, queue, pc, run, request, paperless,
                   baseUrl, archived>>

\* enqueue after the commit.  It may come late; that it fails (which the code
\* swallows) is the case that it never comes, and the row stays PENDING.
Enqueue(j) ==
    /\ j \in unsent
    /\ unsent' = unsent \ {j}
    /\ queue' = Enqueued({j})
    /\ UNCHANGED <<config, configIds, rows, jobs, pc, run, request, paperless, baseUrl,
                   archived, spent>>

-----------------------------------------------------------------------------
(* The worker: dispatch.  A handler first reads job, configuration, policy *)
(* and base URL; nothing is written before all of them passed.             *)

Goto(w, label) == pc' = [pc EXCEPT ![w] = label]

Finish(w) ==
    /\ Goto(w, "idle")
    /\ run' = [run EXCEPT ![w] = NoRun]

Take(w, j) ==
    /\ pc[w] = "idle"
    /\ j \in queue
    /\ queue' = queue \ {j}

\* Broken variant: completed rows are not recognized when they are delivered again.
SettledIfSkipped(j) == jobs[j].status = "SKIPPED"

Settled(j) == jobs[j].status \in {"COMPLETED", "SKIPPED"}
Outdated(j) == ~HasTag \/ config.version # jobs[j].version \/ archived
Drifted == config.conn # baseUrl
DocumentGone(j) ==
    jobs[j].kind = "TAG_DOCUMENT" /\ (jobs[j].row = 0 \/ ~Live(jobs[j].row))

DropSettled(w, j) ==
    /\ Take(w, j)
    /\ Settled(j)
    /\ UNCHANGED <<config, configIds, rows, jobs, unsent, pc, run, request, paperless,
                   baseUrl, archived, spent>>

\* Broken variant: a job skipped because of drift leaves the status alone.
DriftErrorForgotten(j) == config

\* Both handlers report the drift before they skip the job.
DriftError(j) ==
    IF ~Outdated(j) /\ Drifted THEN [config EXCEPT !.status = "ERROR"] ELSE config

SkipJob(w, j) ==
    /\ Take(w, j)
    /\ ~Settled(j)
    /\ Outdated(j) \/ Drifted \/ DocumentGone(j)
    /\ jobs' = [jobs EXCEPT ![j].status = "SKIPPED"]
    /\ config' = DriftError(j)
    /\ UNCHANGED <<configIds, rows, unsent, pc, run, request, paperless, baseUrl,
                   archived, spent>>

StartJob(w, j) ==
    /\ Take(w, j)
    /\ ~Settled(j)
    /\ ~Outdated(j) /\ ~Drifted /\ ~DocumentGone(j)
    /\ run' = [run EXCEPT ![w] = [NoRun EXCEPT
                  !.job = j, !.version = jobs[j].version, !.retries = jobs[j].retries,
                  !.cfg = config.id, !.tag = config.tag, !.row = jobs[j].row]]
    /\ Goto(w, "mark")
    /\ UNCHANGED <<config, configIds, rows, jobs, unsent, request, paperless, baseUrl,
                   archived, spent>>

\* The write does not look at the status again: a row skipped meanwhile runs on.
MarkRunning(w) ==
    LET j == run[w].job IN
    /\ pc[w] = "mark"
    /\ jobs' = [jobs EXCEPT ![j].status = "RUNNING"]
    /\ Goto(w, IF jobs[j].kind = "SYNC_POLICY" THEN "fetch" ELSE "assign")
    /\ UNCHANGED <<config, configIds, rows, unsent, queue, run, request, paperless,
                   baseUrl, archived, spent>>

\* Broken variant: one retry too many.
RetryOrFailOffByOne(j, retries) ==
    jobs' = IF retries <= MaxRetries
            THEN [jobs EXCEPT ![j].status = "PENDING", ![j].retries = @ + 1]
            ELSE [jobs EXCEPT ![j].status = "FAILED"]

\* retryOrFail compares the retry counter read when the job was started.
RetryOrFail(j, retries) ==
    jobs' = IF retries < MaxRetries
            THEN [jobs EXCEPT ![j].status = "PENDING", ![j].retries = @ + 1]
            ELSE [jobs EXCEPT ![j].status = "FAILED"]

\* Broken variant: a write is made as long as any configuration exists.
VersionCurrentIfAny(w) == HasTag

\* What the handlers compare before a write: the version, not the row's id.
VersionCurrent(w) == HasTag /\ config.version = run[w].version

\* updateMany where configVersion = the job's: no row, no change.
GuardedStatus(w, s) ==
    config' = IF VersionCurrent(w) THEN [config EXCEPT !.status = s] ELSE config

-----------------------------------------------------------------------------
(* The worker: SYNC_POLICY.                                                *)

\* getTag found no server: the last assignments stay, the job is retried.
FetchUnreachable(w) ==
    /\ pc[w] = "fetch"
    /\ RetryOrFail(run[w].job, run[w].retries)
    /\ Finish(w)
    /\ UNCHANGED <<config, configIds, rows, unsent, queue, request, paperless, baseUrl,
                   archived, spent>>

\* getTag: NOT_FOUND, AUTH_FAILED or NOT_CONFIGURED, which no retry cures.
FetchRejected(w) ==
    /\ pc[w] = "fetch"
    /\ GuardedStatus(w, "ERROR")
    /\ RetryOrFail(run[w].job, MaxRetries)
    /\ Finish(w)
    /\ UNCHANGED <<configIds, rows, unsent, queue, request, paperless, baseUrl,
                   archived, spent>>

\* One failed page or too many pages: listDocumentsByTag returns null.
FetchIncomplete(w) ==
    /\ pc[w] = "fetch"
    /\ GuardedStatus(w, "ERROR")
    /\ RetryOrFail(run[w].job, run[w].retries)
    /\ Finish(w)
    /\ UNCHANGED <<configIds, rows, unsent, queue, request, paperless, baseUrl,
                   archived, spent>>

\* Broken variant: the pages read so far count as the listing.
FetchSomePages(w) ==
    /\ pc[w] = "fetch"
    /\ \E pages \in SUBSET {r \in Refs : run[w].tag \in paperless[baseUrl][r]} :
          run' = [run EXCEPT ![w].remote = pages]
    /\ Goto(w, "snapshot")
    /\ UNCHANGED <<config, configIds, rows, jobs, unsent, queue, request, paperless,
                   baseUrl, archived, spent>>

\* All pages, from whatever server PAPERLESS_URL names by now.
Fetch(w) ==
    /\ pc[w] = "fetch"
    /\ run' = [run EXCEPT ![w].remote = {r \in Refs : run[w].tag \in paperless[baseUrl][r]}]
    /\ Goto(w, "snapshot")
    /\ UNCHANGED <<config, configIds, rows, jobs, unsent, queue, request, paperless,
                   baseUrl, archived, spent>>

\* Broken variant: links that lost the tag are not looked at.
SyncLabelAddsOnly(adds, drops) == IF adds # {} THEN "add" ELSE "activate"

\* The next loop of reconcileAssignments with work left.
SyncLabel(adds, drops) ==
    IF adds # {} THEN "add" ELSE IF drops # {} THEN "drop" ELSE "activate"

\* The local links are read once; both loops work on this copy.
Snapshot(w) ==
    LET local == {d \in RowIds : Live(d)}
        tagged == {d \in local : rows[d].tag}
        drops == {d \in tagged : rows[d].ref \notin run[w].remote}
    IN
    /\ pc[w] = "snapshot"
    /\ run' = [run EXCEPT ![w] = IF SyncLabel(run[w].remote, drops) = "activate" THEN @ ELSE [@ EXCEPT
                  !.local = local, !.tagged = tagged,
                  !.manual = {d \in local : rows[d].manual},
                  !.adds = run[w].remote, !.todo = drops]]
    /\ Goto(w, SyncLabel(run[w].remote, drops))
    /\ UNCHANGED <<config, configIds, rows, jobs, unsent, queue, request, paperless,
                   baseUrl, archived, spent>>

CheckAdd(w) ==
    /\ pc[w] = "add"
    /\ VersionCurrent(w)
    /\ \E r \in run[w].adds : run' = [run EXCEPT ![w].ref = r, ![w].adds = @ \ {r}]
    /\ Goto(w, "addWrite")
    /\ UNCHANGED <<config, configIds, rows, jobs, unsent, queue, request, paperless,
                   baseUrl, archived, spent>>

CheckDrop(w) ==
    /\ pc[w] = "drop"
    /\ VersionCurrent(w)
    /\ \E d \in run[w].todo : run' = [run EXCEPT ![w].row = d, ![w].todo = @ \ {d}]
    /\ Goto(w, "dropWrite")
    /\ UNCHANGED <<config, configIds, rows, jobs, unsent, queue, request, paperless,
                   baseUrl, archived, spent>>

\* The configuration changed under the run: no further write, job SKIPPED.
AbortSync(w) ==
    /\ pc[w] \in {"add", "drop"}
    /\ ~VersionCurrent(w)
    /\ jobs' = [jobs EXCEPT ![run[w].job].status = "SKIPPED"]
    /\ Finish(w)
    /\ UNCHANGED <<config, configIds, rows, unsent, queue, request, paperless, baseUrl,
                   archived, spent>>

\* After the loops the copy of the local links is of no use any more.
WithoutCopy(r) == [r EXCEPT !.local = {}, !.manual = {}, !.tagged = {}, !.ref = None, !.row = 0]

\* The row of the snapshot is updated by id; only without one is a row created.
AddTagOrigin(w) ==
    LET r == run[w].ref
        known == {d \in run[w].local : rows[d].ref = r}
    IN
    /\ pc[w] = "addWrite"
    /\ \/ /\ known # {}
          /\ rows' = [d \in RowIds |-> IF d \in known \ run[w].tagged
                                       THEN [rows[d] EXCEPT !.tag = TRUE] ELSE rows[d]]
       \/ /\ known = {}
          /\ LiveLinks(r) # {}
          /\ rows' = [d \in RowIds |-> IF d \in LiveLinks(r)
                                       THEN [rows[d] EXCEPT !.tag = TRUE] ELSE rows[d]]
       \/ /\ known = {}
          /\ LiveLinks(r) = {}
          /\ \E d \in RowIds :
                /\ FreshRow(d)
                /\ rows' = [rows EXCEPT ![d] = [NoRow EXCEPT !.state = "live", !.ref = r,
                                                             !.tag = TRUE]]
    /\ run' = [run EXCEPT ![w] = IF run[w].adds \cup run[w].todo = {} THEN WithoutCopy(@)
                                 ELSE [@ EXCEPT !.ref = None]]
    /\ Goto(w, SyncLabel(run[w].adds, run[w].todo))
    /\ UNCHANGED <<config, configIds, jobs, unsent, queue, request, paperless, baseUrl,
                   archived, spent>>

\* The manual origin of the snapshot decides whether the row is hidden.
DropTagOrigin(w) ==
    LET d == run[w].row IN
    /\ pc[w] = "dropWrite"
    /\ rows' = [rows EXCEPT ![d].tag = FALSE,
                            ![d].state = IF d \in run[w].manual THEN @ ELSE "archived"]
    /\ run' = [run EXCEPT ![w] = IF run[w].todo = {} THEN WithoutCopy(@) ELSE [@ EXCEPT !.row = 0]]
    /\ Goto(w, SyncLabel({}, run[w].todo))
    /\ UNCHANGED <<config, configIds, jobs, unsent, queue, request, paperless, baseUrl,
                   archived, spent>>

Activate(w) ==
    /\ pc[w] = "activate"
    /\ config' = IF VersionCurrent(w)
                 THEN [config EXCEPT !.status = "ACTIVE", !.due = FALSE] ELSE config
    /\ Goto(w, "complete")
    /\ UNCHANGED <<configIds, rows, jobs, unsent, queue, run, request, paperless, baseUrl,
                   archived, spent>>

CompleteSync(w) ==
    /\ pc[w] = "complete"
    /\ jobs' = [jobs EXCEPT ![run[w].job].status = "COMPLETED"]
    /\ run' = [run EXCEPT ![w].remote = {}]
    /\ Goto(w, "backfill")
    /\ UNCHANGED <<config, configIds, rows, unsent, queue, request, paperless,
                   baseUrl, archived, spent>>

Untagged == {d \in RowIds : Live(d) /\ rows[d].manual /\ rows[d].tagging # "APPLIED"}

\* scheduleManualLinkBackfill: the manual links that do not carry the tag yet.
StartBackfill(w) ==
    LET ds == IF VersionCurrent(w) THEN Untagged ELSE {} IN
    /\ pc[w] = "backfill"
    /\ IF ds = {} THEN Finish(w)
       ELSE /\ run' = [run EXCEPT ![w].todo = ds]
            /\ Goto(w, "backfillCheck")
    /\ UNCHANGED <<config, configIds, rows, jobs, unsent, queue, request, paperless,
                   baseUrl, archived, spent>>

CheckBackfill(w) ==
    /\ pc[w] = "backfillCheck"
    /\ \E d \in run[w].todo :
          \/ /\ ActiveTagJobs(d) = {}
             /\ run' = [run EXCEPT ![w].row = d, ![w].todo = @ \ {d}]
             /\ Goto(w, "backfillWrite")
          \/ /\ ActiveTagJobs(d) # {}
             /\ IF run[w].todo = {d} THEN Finish(w)
                ELSE /\ run' = [run EXCEPT ![w].todo = @ \ {d}]
                     /\ UNCHANGED pc
    /\ UNCHANGED <<config, configIds, rows, jobs, unsent, queue, request, paperless,
                   baseUrl, archived, spent>>

\* queue.add by the worker itself may fail as well.
CreateBackfill(w) ==
    LET d == run[w].row IN
    /\ pc[w] = "backfillWrite"
    /\ \E j \in JobIds, sent \in BOOLEAN :
          /\ FreshJob(j)
          /\ jobs' = [jobs EXCEPT ![j] = TagJob(d, run[w].version)]
          /\ queue' = IF sent THEN Enqueued({j}) ELSE queue
    /\ rows' = [rows EXCEPT ![d].tagging = "PENDING"]
    /\ IF run[w].todo = {} THEN Finish(w)
       ELSE Goto(w, "backfillCheck") /\ run' = [run EXCEPT ![w].row = 0]
    /\ UNCHANGED <<config, configIds, unsent, request, paperless, baseUrl, archived, spent>>

-----------------------------------------------------------------------------
(* The worker: TAG_DOCUMENT.                                               *)

\* assignTagToDocument against the server PAPERLESS_URL names at this moment.
\* A call that failed may still have set the tag: its answer was lost, the check
\* came too early, or the PATCH tried after a refused bulk edit had got through.
AssignTag(w) ==
    LET r == rows[run[w].row].ref
        with == [paperless EXCEPT ![baseUrl][r] = @ \cup {run[w].tag}]
    IN
    /\ pc[w] = "assign"
    /\ \E outcome \in {"ok", "retry", "reject"} :
          /\ run' = [run EXCEPT ![w].outcome = outcome]
          /\ paperless' \in IF outcome = "ok" THEN {with} ELSE {with, paperless}
    /\ Goto(w, "tagWrite")
    /\ UNCHANGED <<config, configIds, rows, jobs, unsent, queue, request, baseUrl,
                   archived, spent>>

\* The document row is updated by id, whatever happened to it meanwhile.
WriteTagging(w) ==
    /\ pc[w] = "tagWrite"
    /\ rows' = [rows EXCEPT ![run[w].row].tagging =
                   CASE run[w].outcome = "ok" -> "APPLIED"
                     [] run[w].outcome = "retry" -> "PENDING"
                     [] OTHER -> "FAILED"]
    /\ Goto(w, "tagDone")
    /\ UNCHANGED <<config, configIds, jobs, unsent, queue, run, request, paperless,
                   baseUrl, archived, spent>>

FinishTagJob(w) ==
    LET j == run[w].job IN
    /\ pc[w] = "tagDone"
    /\ CASE run[w].outcome = "ok" -> jobs' = [jobs EXCEPT ![j].status = "COMPLETED"]
         [] run[w].outcome = "retry" -> RetryOrFail(j, run[w].retries)
         [] OTHER -> jobs' = [jobs EXCEPT ![j].status = "FAILED"]
    /\ Finish(w)
    /\ UNCHANGED <<config, configIds, rows, unsent, queue, request, paperless, baseUrl,
                   archived, spent>>

-----------------------------------------------------------------------------
(* The worker: the periodic reconciliation.                                *)

\* Broken variant: the tick does not push PENDING rows again.
TickWithoutOutbox(w) ==
    /\ pc[w] = "idle"
    /\ \E enabled \in AutoSync :
          /\ enabled /\ HasTag /\ config.due /\ ~archived /\ ActiveJobs("SYNC_POLICY") = {}
          /\ run' = [run EXCEPT ![w].version = config.version]
          /\ Goto(w, "schedule")
    /\ UNCHANGED <<config, configIds, rows, jobs, unsent, queue, request, paperless,
                   baseUrl, archived, spent>>

\* PENDING rows are pushed again; then the policy is looked at if it is due.
Tick(w) ==
    /\ pc[w] = "idle"
    /\ queue' = Enqueued({j \in JobIds : jobs[j].status = "PENDING"})
    /\ \E enabled \in AutoSync :
          IF enabled /\ HasTag /\ config.due /\ ~archived /\ ActiveJobs("SYNC_POLICY") = {}
          THEN /\ run' = [run EXCEPT ![w].version = config.version]
               /\ Goto(w, "schedule")
          ELSE UNCHANGED <<run, pc>>
    /\ UNCHANGED <<config, configIds, rows, jobs, unsent, request, paperless, baseUrl,
                   archived, spent>>

ScheduleSync(w) ==
    /\ pc[w] = "schedule"
    /\ \E j \in JobIds, sent \in BOOLEAN :
          /\ FreshJob(j)
          /\ jobs' = [jobs EXCEPT ![j] = SyncJob(run[w].version)]
          /\ queue' = IF sent THEN Enqueued({j}) ELSE queue
    /\ Finish(w)
    /\ UNCHANGED <<config, configIds, rows, unsent, request, paperless, baseUrl,
                   archived, spent>>

-----------------------------------------------------------------------------
(* The environment.                                                        *)

\* lastSyncedAt grows older than the interval of the policy.
IntervalElapses ==
    /\ HasTag
    /\ ~config.due
    /\ config' = [config EXCEPT !.due = TRUE]
    /\ UNCHANGED <<configIds, rows, jobs, unsent, queue, pc, run, request, paperless,
                   baseUrl, archived, spent>>

\* Somebody sets or clears a tag in Paperless.
Retag(c, r, t) ==
    /\ Spend("retag", MaxRetags)
    /\ paperless' = [paperless EXCEPT ![c][r] = IF t \in @ THEN @ \ {t} ELSE @ \cup {t}]
    /\ UNCHANGED <<config, configIds, rows, jobs, unsent, queue, pc, run, request,
                   baseUrl, archived>>

\* An administrator points PAPERLESS_URL at another server.
Repoint(c) ==
    /\ c # baseUrl
    /\ Spend("repoint", MaxRepoints)
    /\ baseUrl' = c
    /\ UNCHANGED <<config, configIds, rows, jobs, unsent, queue, pc, run, request,
                   paperless, archived>>

ArchivePolicy ==
    /\ ~archived
    /\ Spend("archive", MaxArchives)
    /\ archived' = TRUE
    /\ UNCHANGED <<config, configIds, rows, jobs, unsent, queue, pc, run, request,
                   paperless, baseUrl>>

\* No handler reads a settled row that is neither queued nor held nor pushed any
\* more, so its place may be used again: MaxJobs then bounds the rows in use.
Forget(j) ==
    /\ Forgetful
    /\ jobs[j].status \in {"COMPLETED", "FAILED", "SKIPPED"}
    /\ j \notin queue \cup Executing
    /\ jobs' = [jobs EXCEPT ![j] = NoJob]
    /\ unsent' = unsent \ {j}
    /\ UNCHANGED <<config, configIds, rows, queue, pc, run, request, paperless,
                   baseUrl, archived, spent>>

\* A database call throws: process() logs it and BullMQ sees a finished job.
Throw(w) ==
    /\ pc[w] # "idle"
    /\ Spend("exception", MaxExceptions)
    /\ Finish(w)
    /\ UNCHANGED <<config, configIds, rows, jobs, unsent, queue, request, paperless,
                   baseUrl, archived>>

\* The database refuses an insert, as soon as MaxJobs rows are in use: process()
\* swallows the exception.  No row is RUNNING for a worker at these two inserts.
RefuseInsert(w) ==
    /\ pc[w] \in {"schedule", "backfillWrite"}
    /\ \A j \in JobIds : jobs[j].status # "absent"
    /\ Finish(w)
    /\ UNCHANGED <<config, configIds, rows, jobs, unsent, queue, request, paperless,
                   baseUrl, archived, spent>>

\* The process dies: BullMQ finds the stalled job and puts it back.  A job that
\* stalls twice is given up (maxStalledCount is 1 unless set, which it is not).
Crash(w) ==
    /\ pc[w] # "idle"
    /\ Spend("crash", MaxCrashes)
    /\ Finish(w)
    /\ queue' \in {queue \cup ({run[w].job} \ {0})}
                    \cup IF spent.crash > 0 THEN {queue} ELSE {}
    /\ UNCHANGED <<config, configIds, rows, jobs, unsent, request, paperless, baseUrl,
                   archived>>

-----------------------------------------------------------------------------

Api ==
    \/ \E t \in Tags : SetTag(t)
    \/ RemoveTag
    \/ \E q \in Requests, t \in Tags : RequestTag(q, t)
    \/ \E q \in Requests : \/ SetRequestedTag(q)
                           \/ RequestSync(q)
                           \/ CreateRequestedSync(q)
                           \/ RequestRetry(q)
                           \/ CreateRetries(q)
    \/ \E r \in Refs : LinkPaperlessDocument(r)
    \/ \E d \in RowIds : RemoveDocument(d)
    \/ \E j \in JobIds : Enqueue(j)

SyncStep(w) ==
    \/ FetchUnreachable(w)
    \/ FetchRejected(w)
    \/ FetchIncomplete(w)
    \/ Fetch(w)
    \/ Snapshot(w)
    \/ CheckAdd(w)
    \/ CheckDrop(w)
    \/ AbortSync(w)
    \/ AddTagOrigin(w)
    \/ DropTagOrigin(w)
    \/ Activate(w)
    \/ CompleteSync(w)
    \/ StartBackfill(w)
    \/ CheckBackfill(w)
    \/ CreateBackfill(w)

TagStep(w) == AssignTag(w) \/ WriteTagging(w) \/ FinishTagJob(w)

Dispatch(w, j) == DropSettled(w, j) \/ SkipJob(w, j) \/ StartJob(w, j)

\* A worker that holds a job goes on with it.
Proceed(w) ==
    MarkRunning(w) \/ SyncStep(w) \/ TagStep(w) \/ ScheduleSync(w) \/ RefuseInsert(w)

Environment ==
    \/ IntervalElapses
    \/ \E c \in Conns, r \in Refs, t \in Tags : Retag(c, r, t)
    \/ \E c \in Conns : Repoint(c)
    \/ ArchivePolicy
    \/ \E j \in JobIds : Forget(j)
    \/ \E w \in Workers : Throw(w) \/ Crash(w)

Next ==
    \/ Api
    \/ \E w \in Workers : \/ \E j \in JobIds : Dispatch(w, j)
                          \/ Proceed(w)
                          \/ Tick(w)
    \/ Environment

Spec == Init /\ [][Next]_vars

(***************************************************************************)
(* Fairness.  A running worker finishes what it holds, and the repeatable  *)
(* tick keeps coming.  BullMQ hands waiting jobs out first come first      *)
(* served, so a job that waits again and again is taken: strong fairness   *)
(* per job, because the worker is not idle all the time.  Nothing is owed  *)
(* by users, by the environment and by the API, whose pushes may fail.     *)
(***************************************************************************)
Fairness ==
    /\ \A w \in Workers : WF_vars(Proceed(w)) /\ SF_vars(Tick(w))
    /\ WF_vars(IntervalElapses)
    /\ \A j \in JobIds :
          /\ SF_vars(\E w \in Workers : Dispatch(w, j))
          /\ WF_vars(Forget(j))

FairSpec == Spec /\ Fairness

-----------------------------------------------------------------------------
(* Properties.                                                             *)

TypeOK ==
    /\ config \in Config
    /\ configIds \in 0..MaxConfigs
    /\ rows \in [RowIds -> Row]
    /\ jobs \in [JobIds -> Job]
    /\ unsent \subseteq JobIds
    /\ queue \subseteq JobIds
    /\ pc \in [Workers -> Labels]
    /\ run \in [Workers -> Run]
    /\ request \in [Requests -> Request]
    /\ paperless \in [Conns -> [Refs -> SUBSET Tags]]
    /\ baseUrl \in Conns
    /\ archived \in BOOLEAN
    /\ spent \in [{"call", "retag", "repoint", "archive", "exception", "crash"} -> Nat]

\* The configuration row a run started under still has the version it had.
SameConfig(w) == HasTag /\ config.id = run[w].cfg /\ config.version = run[w].version

\* Worker w makes the step.
Steps(w) == pc[w] # "idle" /\ (pc'[w] # pc[w] \/ run'[w] # run[w])

(* The version a job carries tells tags apart: as long as the row was not  *)
(* deleted, a run whose version is current works for the current tag.      *)
(* (setTag bumps configVersion; handleSyncPolicy compares versions only.)  *)
VersionNamesTag == \A w \in Workers : SameConfig(w) => config.tag = run[w].tag

(* A run never writes ACTIVE or ERROR onto a tag it does not work for, as  *)
(* long as the row it started under was not deleted (the version guards of *)
(* updateMany in handleSyncPolicy).                                        *)
StatusIsOwnTags ==
    [][\A w \in Workers :
          Steps(w) /\ config' # config /\ config.id = run[w].cfg => config.tag = run[w].tag]_vars

(* The retry budget holds although retryOrFail compares a counter it read  *)
(* when the job was started: no two deliveries of a row overlap.           *)
RetriesBounded == \A j \in JobIds : jobs[j].retries <= MaxRetries

(* BullMQ's job id is the row id: no row runs twice at a time.             *)
OneRunPerJob ==
    /\ queue \cap (Executing \ {0}) = {}
    /\ \A v, w \in Workers : v # w /\ run[v].job # 0 => run[v].job # run[w].job

(* When a sync is about to report ACTIVE under an unchanged configuration, *)
(* every visible automatic link is in the listing of this run, and every   *)
(* listed document has a row that carries the automatic origin, visible or *)
(* hidden by the user meanwhile: whatever users and earlier broken runs    *)
(* did between the listing and the last write.                             *)
ActivatedListIsTagList ==
    \A w \in Workers : pc[w] = "activate" /\ SameConfig(w) =>
        /\ \A d \in RowIds : Live(d) /\ rows[d].tag => rows[d].ref \in run[w].remote
        /\ \A r \in run[w].remote : \E d \in RowIds : rows[d].ref = r /\ rows[d].tag

(* The worker takes the automatic origin from a link or hides it only if   *)
(* its listing was complete and lacked the document: where nobody changed  *)
(* Paperless itself, a document that carries the tag keeps its link.       *)
OnlyLostTagsHide ==
    [][\A w \in Workers, d \in RowIds :
          Steps(w) /\ Live(d) /\ rows[d].tag /\ ~(Live(d)' /\ rows'[d].tag)
          => /\ rows[d].ref \notin run[w].remote
             /\ spent.retag = 0 /\ spent.repoint = 0
                => run[w].tag \notin paperless[baseUrl][rows[d].ref]]_vars

(***************************************************************************)
(* The rows, the queue and the workers together keep what an outbox        *)
(* promises: deliveries of a row never overlap, the stale status and the   *)
(* stale retry counter a worker decides by are those of the row, and what  *)
(* was completed or withdrawn is not delivered again.                      *)
(***************************************************************************)
Delivery(j) ==
    IF j \notin Executing THEN "none"
    ELSE CASE \E w \in Workers : run[w].job = j /\ pc[w] = "mark" -> "begun"
           [] \E w \in Workers : run[w].job = j
                  /\ pc[w] \in {"backfill", "backfillCheck", "backfillWrite"} -> "written"
           [] OTHER -> "marked"

Outbox == INSTANCE Outbox WITH
    Jobs <- JobIds,
    status <- [j \in JobIds |-> jobs[j].status],
    retries <- [j \in JobIds |-> jobs[j].retries],
    delivery <- [j \in JobIds |-> Delivery(j)]

ImplementsOutbox == Outbox!OutboxSpec

(* A completed row is never run again, though rows are delivered twice by  *)
(* the tick, by late enqueues and after crashes.                           *)
CompletedIsFinal ==
    [][\A j \in JobIds : jobs[j].status = "COMPLETED"
                         => jobs'[j].status \in {"COMPLETED", "absent"}]_vars

(* The worker never hides a link that the user made (reconcileAssignments: *)
(* manual links survive a lost tag).  The code does not keep this: it hides *)
(* a link that was made after the local links were read.                   *)
ManualLinkSurvives ==
    [][\A w \in Workers, d \in RowIds :
          Steps(w) /\ Live(d) /\ rows[d].manual => Live(d)']_vars

(* Every outbox row is settled in the end, though pushes to BullMQ fail,   *)
(* workers die and Paperless is unreachable (PaperlessTagService.enqueue,  *)
(* handleReconcile, retryOrFail).                                          *)
EveryJobSettles ==
    \A j \in JobIds : jobs[j].status \in ActiveStatuses ~> jobs[j].status \notin ActiveStatuses

(* When PAPERLESS_URL names another server than the one the tag was chosen *)
(* on, the policy's status says so sooner or later, whatever runs and      *)
(* requests were under way and however the status was overwritten by them. *)
DriftIsReported ==
    HasTag /\ Drifted /\ ~archived ~> config.status = "ERROR" \/ ~Drifted \/ ~HasTag \/ archived

=============================================================================
