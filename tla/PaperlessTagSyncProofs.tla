----------------------- MODULE PaperlessTagSyncProofs -----------------------
(***************************************************************************)
(* What PaperlessTagSync keeps, for any number of workers, requests, rows, *)
(* retries and faults: the types, the meaning of a job's version, who may  *)
(* write a status, and what a sync lists and hides.                        *)
(*                                                                         *)
(* Types: a record update is typed by the lemma about the fields of that   *)
(* record type, a step variable by variable, one lemma per action.         *)
(* Versions: the invariant says what a worker knows about the              *)
(* configuration it was started for: its version is not newer than the     *)
(* row's, and where both are equal so are the tags. A row that was deleted *)
(* and created again has another id, which is why the ids are part of it.  *)
(* The listing: what a worker in the loops of reconcileAssignments holds   *)
(* of the documents that it listed and the rows that it copied, and, when  *)
(* no other worker changes the rows, what these rows are by then.          *)
(***************************************************************************)
EXTENDS PaperlessTagSync, TLAPS

(* What typing needs beyond types: a configuration names a tag, and so     *)
(* does everybody who works for one.                                       *)
TagsKnown ==
    /\ HasTag => config.tag \in Tags
    /\ \A w \in Workers : pc[w] \notin {"idle", "schedule"} => run[w].tag \in Tags
    /\ \A q \in Requests : request[q].op = "set" =>
          request[q].tag \in Tags /\ request[q].conn \in Conns

(* The empty records and fresh rows have their types. *)
LEMMA Constructors ==
    /\ NoConfig \in Config /\ NoRow \in Row /\ NoJob \in Job
    /\ NoRun \in Run /\ NoRequest \in Request
  BY BoundsAssumption
     DEF NoConfig, Config, NoRow, Row, NoJob, Job, NoRun, Run, NoRequest, Request

(* The fields of configuration rows, and that changing one keeps the type. *)
LEMMA ConfigFields ==
  ASSUME NEW r \in Config
  PROVE
    /\ r.id \in 0..MaxConfigs
    /\ r.version \in 0..MaxVersion
    /\ r.tag \in Tags \cup {None}
    /\ r.conn \in Conns \cup {None}
    /\ r.status \in {"PENDING", "ACTIVE", "ERROR"}
    /\ r.due \in BOOLEAN
    /\ \A v \in 0..MaxConfigs : [r EXCEPT !.id = v] \in Config
    /\ \A v \in 0..MaxVersion : [r EXCEPT !.version = v] \in Config
    /\ \A v \in Tags \cup {None} : [r EXCEPT !.tag = v] \in Config
    /\ \A v \in Conns \cup {None} : [r EXCEPT !.conn = v] \in Config
    /\ \A v \in {"PENDING", "ACTIVE", "ERROR"} : [r EXCEPT !.status = v] \in Config
    /\ \A v \in BOOLEAN : [r EXCEPT !.due = v] \in Config
  <1>1. r.id \in 0..MaxConfigs
    BY DEF Config
  <1>2. r.version \in 0..MaxVersion
    BY DEF Config
  <1>3. r.tag \in Tags \cup {None}
    BY DEF Config
  <1>4. r.conn \in Conns \cup {None}
    BY DEF Config
  <1>5. r.status \in {"PENDING", "ACTIVE", "ERROR"}
    BY DEF Config
  <1>6. r.due \in BOOLEAN
    BY DEF Config
  <1>7. \A v \in 0..MaxConfigs : [r EXCEPT !.id = v] \in Config
    BY DEF Config
  <1>8. \A v \in 0..MaxVersion : [r EXCEPT !.version = v] \in Config
    BY DEF Config
  <1>9. \A v \in Tags \cup {None} : [r EXCEPT !.tag = v] \in Config
    BY DEF Config
  <1>10. \A v \in Conns \cup {None} : [r EXCEPT !.conn = v] \in Config
    BY DEF Config
  <1>11. \A v \in {"PENDING", "ACTIVE", "ERROR"} : [r EXCEPT !.status = v] \in Config
    BY DEF Config
  <1>12. \A v \in BOOLEAN : [r EXCEPT !.due = v] \in Config
    BY DEF Config
  <1> QED  BY <1>1, <1>2, <1>3, <1>4, <1>5, <1>6, <1>7, <1>8, <1>9, <1>10, <1>11, <1>12

(* The fields of document rows, and that changing one keeps the type. *)
LEMMA RowFields ==
  ASSUME NEW r \in Row
  PROVE
    /\ r.state \in {"absent", "live", "archived"}
    /\ r.ref \in Refs \cup {None}
    /\ r.manual \in BOOLEAN
    /\ r.tag \in BOOLEAN
    /\ r.tagging \in {None, "PENDING", "APPLIED", "FAILED"}
    /\ \A v \in {"absent", "live", "archived"} : [r EXCEPT !.state = v] \in Row
    /\ \A v \in Refs \cup {None} : [r EXCEPT !.ref = v] \in Row
    /\ \A v \in BOOLEAN : [r EXCEPT !.manual = v] \in Row
    /\ \A v \in BOOLEAN : [r EXCEPT !.tag = v] \in Row
    /\ \A v \in {None, "PENDING", "APPLIED", "FAILED"} : [r EXCEPT !.tagging = v] \in Row
  <1>1. r.state \in {"absent", "live", "archived"}
    BY DEF Row
  <1>2. r.ref \in Refs \cup {None}
    BY DEF Row
  <1>3. r.manual \in BOOLEAN
    BY DEF Row
  <1>4. r.tag \in BOOLEAN
    BY DEF Row
  <1>5. r.tagging \in {None, "PENDING", "APPLIED", "FAILED"}
    BY DEF Row
  <1>6. \A v \in {"absent", "live", "archived"} : [r EXCEPT !.state = v] \in Row
    BY DEF Row
  <1>7. \A v \in Refs \cup {None} : [r EXCEPT !.ref = v] \in Row
    BY DEF Row
  <1>8. \A v \in BOOLEAN : [r EXCEPT !.manual = v] \in Row
    BY DEF Row
  <1>9. \A v \in BOOLEAN : [r EXCEPT !.tag = v] \in Row
    BY DEF Row
  <1>10. \A v \in {None, "PENDING", "APPLIED", "FAILED"} : [r EXCEPT !.tagging = v] \in Row
    BY DEF Row
  <1> QED  BY <1>1, <1>2, <1>3, <1>4, <1>5, <1>6, <1>7, <1>8, <1>9, <1>10

(* The fields of outbox rows, and that changing one keeps the type. *)
LEMMA JobFields ==
  ASSUME NEW r \in Job
  PROVE
    /\ r.status \in {"absent", "PENDING", "RUNNING", "COMPLETED", "FAILED", "SKIPPED"}
    /\ r.kind \in {"SYNC_POLICY", "TAG_DOCUMENT"}
    /\ r.row \in 0..MaxRows
    /\ r.version \in 0..MaxVersion
    /\ r.retries \in Nat
    /\ \A v \in {"absent", "PENDING", "RUNNING", "COMPLETED", "FAILED", "SKIPPED"} : [r EXCEPT !.status = v] \in Job
    /\ \A v \in {"SYNC_POLICY", "TAG_DOCUMENT"} : [r EXCEPT !.kind = v] \in Job
    /\ \A v \in 0..MaxRows : [r EXCEPT !.row = v] \in Job
    /\ \A v \in 0..MaxVersion : [r EXCEPT !.version = v] \in Job
    /\ \A v \in Nat : [r EXCEPT !.retries = v] \in Job
  <1>1. r.status \in {"absent", "PENDING", "RUNNING", "COMPLETED", "FAILED", "SKIPPED"}
    BY DEF Job
  <1>2. r.kind \in {"SYNC_POLICY", "TAG_DOCUMENT"}
    BY DEF Job
  <1>3. r.row \in 0..MaxRows
    BY DEF Job
  <1>4. r.version \in 0..MaxVersion
    BY DEF Job
  <1>5. r.retries \in Nat
    BY DEF Job
  <1>6. \A v \in {"absent", "PENDING", "RUNNING", "COMPLETED", "FAILED", "SKIPPED"} : [r EXCEPT !.status = v] \in Job
    BY DEF Job
  <1>7. \A v \in {"SYNC_POLICY", "TAG_DOCUMENT"} : [r EXCEPT !.kind = v] \in Job
    BY DEF Job
  <1>8. \A v \in 0..MaxRows : [r EXCEPT !.row = v] \in Job
    BY DEF Job
  <1>9. \A v \in 0..MaxVersion : [r EXCEPT !.version = v] \in Job
    BY DEF Job
  <1>10. \A v \in Nat : [r EXCEPT !.retries = v] \in Job
    BY DEF Job
  <1> QED  BY <1>1, <1>2, <1>3, <1>4, <1>5, <1>6, <1>7, <1>8, <1>9, <1>10

(* The fields of what a worker keeps, and that changing one keeps the type. *)
LEMMA RunFields ==
  ASSUME NEW r \in Run
  PROVE
    /\ r.job \in 0..MaxJobs
    /\ r.version \in 0..MaxVersion
    /\ r.retries \in Nat
    /\ r.cfg \in 0..MaxConfigs
    /\ r.tag \in Tags \cup {None}
    /\ r.row \in 0..MaxRows
    /\ r.remote \in SUBSET Refs
    /\ r.local \in SUBSET RowIds
    /\ r.manual \in SUBSET RowIds
    /\ r.tagged \in SUBSET RowIds
    /\ r.adds \in SUBSET Refs
    /\ r.todo \in SUBSET RowIds
    /\ r.ref \in Refs \cup {None}
    /\ r.outcome \in {"none", "ok", "retry", "reject"}
    /\ \A v \in 0..MaxJobs : [r EXCEPT !.job = v] \in Run
    /\ \A v \in 0..MaxVersion : [r EXCEPT !.version = v] \in Run
    /\ \A v \in Nat : [r EXCEPT !.retries = v] \in Run
    /\ \A v \in 0..MaxConfigs : [r EXCEPT !.cfg = v] \in Run
    /\ \A v \in Tags \cup {None} : [r EXCEPT !.tag = v] \in Run
    /\ \A v \in 0..MaxRows : [r EXCEPT !.row = v] \in Run
    /\ \A v \in SUBSET Refs : [r EXCEPT !.remote = v] \in Run
    /\ \A v \in SUBSET RowIds : [r EXCEPT !.local = v] \in Run
    /\ \A v \in SUBSET RowIds : [r EXCEPT !.manual = v] \in Run
    /\ \A v \in SUBSET RowIds : [r EXCEPT !.tagged = v] \in Run
    /\ \A v \in SUBSET Refs : [r EXCEPT !.adds = v] \in Run
    /\ \A v \in SUBSET RowIds : [r EXCEPT !.todo = v] \in Run
    /\ \A v \in Refs \cup {None} : [r EXCEPT !.ref = v] \in Run
    /\ \A v \in {"none", "ok", "retry", "reject"} : [r EXCEPT !.outcome = v] \in Run
  <1>1. r.job \in 0..MaxJobs
    BY DEF Run
  <1>2. r.version \in 0..MaxVersion
    BY DEF Run
  <1>3. r.retries \in Nat
    BY DEF Run
  <1>4. r.cfg \in 0..MaxConfigs
    BY DEF Run
  <1>5. r.tag \in Tags \cup {None}
    BY DEF Run
  <1>6. r.row \in 0..MaxRows
    BY DEF Run
  <1>7. r.remote \in SUBSET Refs
    BY DEF Run
  <1>8. r.local \in SUBSET RowIds
    BY DEF Run
  <1>9. r.manual \in SUBSET RowIds
    BY DEF Run
  <1>10. r.tagged \in SUBSET RowIds
    BY DEF Run
  <1>11. r.adds \in SUBSET Refs
    BY DEF Run
  <1>12. r.todo \in SUBSET RowIds
    BY DEF Run
  <1>13. r.ref \in Refs \cup {None}
    BY DEF Run
  <1>14. r.outcome \in {"none", "ok", "retry", "reject"}
    BY DEF Run
  <1>15. \A v \in 0..MaxJobs : [r EXCEPT !.job = v] \in Run
    BY DEF Run
  <1>16. \A v \in 0..MaxVersion : [r EXCEPT !.version = v] \in Run
    BY DEF Run
  <1>17. \A v \in Nat : [r EXCEPT !.retries = v] \in Run
    BY DEF Run
  <1>18. \A v \in 0..MaxConfigs : [r EXCEPT !.cfg = v] \in Run
    BY DEF Run
  <1>19. \A v \in Tags \cup {None} : [r EXCEPT !.tag = v] \in Run
    BY DEF Run
  <1>20. \A v \in 0..MaxRows : [r EXCEPT !.row = v] \in Run
    BY DEF Run
  <1>21. \A v \in SUBSET Refs : [r EXCEPT !.remote = v] \in Run
    BY DEF Run
  <1>22. \A v \in SUBSET RowIds : [r EXCEPT !.local = v] \in Run
    BY DEF Run
  <1>23. \A v \in SUBSET RowIds : [r EXCEPT !.manual = v] \in Run
    BY DEF Run
  <1>24. \A v \in SUBSET RowIds : [r EXCEPT !.tagged = v] \in Run
    BY DEF Run
  <1>25. \A v \in SUBSET Refs : [r EXCEPT !.adds = v] \in Run
    BY DEF Run
  <1>26. \A v \in SUBSET RowIds : [r EXCEPT !.todo = v] \in Run
    BY DEF Run
  <1>27. \A v \in Refs \cup {None} : [r EXCEPT !.ref = v] \in Run
    BY DEF Run
  <1>28. \A v \in {"none", "ok", "retry", "reject"} : [r EXCEPT !.outcome = v] \in Run
    BY DEF Run
  <1> QED  BY <1>1, <1>2, <1>3, <1>4, <1>5, <1>6, <1>7, <1>8, <1>9, <1>10, <1>11, <1>12, <1>13, <1>14, <1>15, <1>16, <1>17, <1>18, <1>19, <1>20, <1>21, <1>22, <1>23, <1>24, <1>25, <1>26, <1>27, <1>28

(* The fields of what a request keeps, and that changing one keeps the type. *)
LEMMA RequestFields ==
  ASSUME NEW r \in Request
  PROVE
    /\ r.op \in {"idle", "set", "sync", "retry"}
    /\ r.version \in 0..MaxVersion
    /\ r.rows \in SUBSET RowIds
    /\ r.tag \in Tags \cup {None}
    /\ r.conn \in Conns \cup {None}
    /\ \A v \in {"idle", "set", "sync", "retry"} : [r EXCEPT !.op = v] \in Request
    /\ \A v \in 0..MaxVersion : [r EXCEPT !.version = v] \in Request
    /\ \A v \in SUBSET RowIds : [r EXCEPT !.rows = v] \in Request
    /\ \A v \in Tags \cup {None} : [r EXCEPT !.tag = v] \in Request
    /\ \A v \in Conns \cup {None} : [r EXCEPT !.conn = v] \in Request
  <1>1. r.op \in {"idle", "set", "sync", "retry"}
    BY DEF Request
  <1>2. r.version \in 0..MaxVersion
    BY DEF Request
  <1>3. r.rows \in SUBSET RowIds
    BY DEF Request
  <1>4. r.tag \in Tags \cup {None}
    BY DEF Request
  <1>5. r.conn \in Conns \cup {None}
    BY DEF Request
  <1>6. \A v \in {"idle", "set", "sync", "retry"} : [r EXCEPT !.op = v] \in Request
    BY DEF Request
  <1>7. \A v \in 0..MaxVersion : [r EXCEPT !.version = v] \in Request
    BY DEF Request
  <1>8. \A v \in SUBSET RowIds : [r EXCEPT !.rows = v] \in Request
    BY DEF Request
  <1>9. \A v \in Tags \cup {None} : [r EXCEPT !.tag = v] \in Request
    BY DEF Request
  <1>10. \A v \in Conns \cup {None} : [r EXCEPT !.conn = v] \in Request
    BY DEF Request
  <1> QED  BY <1>1, <1>2, <1>3, <1>4, <1>5, <1>6, <1>7, <1>8, <1>9, <1>10

-----------------------------------------------------------------------------
(* What actions have in common.                                            *)

(* A fresh SYNC_POLICY row is a row. *)
LEMMA SyncJobType == ASSUME NEW v \in 0..MaxVersion PROVE SyncJob(v) \in Job
  <1>1. [NoJob EXCEPT !.status = "PENDING"] \in Job
    BY Constructors, JobFields
  <1> QED  BY <1>1, JobFields DEF SyncJob

(* A fresh TAG_DOCUMENT row is a row. *)
LEMMA TagJobType ==
  ASSUME NEW d \in RowIds, NEW v \in 0..MaxVersion PROVE TagJob(d, v) \in Job
  <1>1. [NoJob EXCEPT !.status = "PENDING"] \in Job
    BY Constructors, JobFields
  <1>2. [NoJob EXCEPT !.status = "PENDING", !.version = v] \in Job
    BY <1>1, JobFields
  <1>3. [NoJob EXCEPT !.status = "PENDING", !.version = v, !.kind = "TAG_DOCUMENT"] \in Job
    BY <1>2, JobFields
  <1>4. d \in 0..MaxRows
    BY BoundsAssumption DEF RowIds
  <1> QED  BY <1>3, <1>4, JobFields DEF TagJob

(* A worker that goes to a label is at a label. *)
LEMMA GotoTypes ==
  ASSUME TypeOK, NEW w \in Workers, NEW l \in Labels, Goto(w, l)
  PROVE pc' \in [Workers -> Labels]
  BY DEF TypeOK, Goto

(* A worker that is done is idle and keeps the empty run. *)
LEMMA FinishTypes ==
  ASSUME TypeOK, NEW w \in Workers, Finish(w)
  PROVE pc' \in [Workers -> Labels] /\ run' \in [Workers -> Run]
  <1>1. pc' \in [Workers -> Labels]
    BY GotoTypes DEF Finish, Labels
  <1>2. run \in [Workers -> Run] /\ run' = [run EXCEPT ![w] = NoRun]
    BY DEF TypeOK, Finish
  <1> QED  BY <1>1, <1>2, Constructors

(* retryOrFail counts up or fails the row, and leaves a row. *)
LEMMA RetryOrFailTypes ==
  ASSUME TypeOK, NEW j, NEW n, RetryOrFail(j, n) PROVE jobs' \in [JobIds -> Job]
  <1>1. jobs \in [JobIds -> Job]
    BY DEF TypeOK
  <1>2. \/ jobs' = [jobs EXCEPT ![j].status = "PENDING", ![j].retries = @ + 1]
        \/ jobs' = [jobs EXCEPT ![j].status = "FAILED"]
    BY DEF RetryOrFail
  <1>3. CASE jobs' = [jobs EXCEPT ![j].status = "PENDING", ![j].retries = @ + 1]
    <2> DEFINE pending == [jobs EXCEPT ![j].status = "PENDING"]
    <2>1. pending \in [JobIds -> Job]
      BY <1>1, JobFields
    <2>2. jobs' = [pending EXCEPT ![j].retries = @ + 1]
      BY <1>3
    <2> HIDE DEF pending
    <2>3. ASSUME j \in JobIds PROVE pending[j].retries + 1 \in Nat
      <3>1. pending[j] \in Job
        BY <2>1, <2>3
      <3>2. pending[j].retries \in Nat
        BY <3>1, JobFields
      <3> QED  BY <3>2
    <2> QED  BY <2>1, <2>2, <2>3, JobFields
  <1>4. CASE jobs' = [jobs EXCEPT ![j].status = "FAILED"]
    BY <1>1, <1>4, JobFields
  <1> QED  BY <1>2, <1>3, <1>4

(* The guarded write of the status leaves a configuration row. *)
LEMMA GuardedStatusTypes ==
  ASSUME TypeOK, NEW w, NEW s \in {"PENDING", "ACTIVE", "ERROR"}, GuardedStatus(w, s)
  PROVE config' \in Config
  <1>1. config \in Config
    BY DEF TypeOK
  <1>2. config' = config \/ config' = [config EXCEPT !.status = s]
    BY DEF GuardedStatus
  <1> QED  BY <1>1, <1>2, ConfigFields

(* A push leaves a set of rows in BullMQ. *)
LEMMA EnqueuedTypes ==
  ASSUME TypeOK, NEW ids \in SUBSET JobIds PROVE Enqueued(ids) \in SUBSET JobIds
  BY DEF TypeOK, Enqueued

(* Every call and every fault is counted by a natural number. *)
LEMMA SpendTypes ==
  ASSUME TypeOK, NEW what, NEW bound, Spend(what, bound)
  PROVE spent' \in [{"call", "retag", "repoint", "archive", "exception", "crash"} -> Nat]
  <1> DEFINE kinds == {"call", "retag", "repoint", "archive", "exception", "crash"}
  <1>1. spent \in [kinds -> Nat]
    BY DEF TypeOK
  <1>2. spent' = [spent EXCEPT ![what] = spent[what] + 1]
    BY DEF Spend
  <1>3. what \in kinds => spent[what] + 1 \in Nat
    BY <1>1
  <1> HIDE DEF kinds
  <1>4. spent' \in [kinds -> Nat]
    BY <1>1, <1>2, <1>3
  <1> QED  BY <1>4 DEF kinds

(* The transaction of setTag: version and id stay within their bounds. *)
LEMMA ChangeTagTypes ==
  ASSUME TypeOK, NEW t \in Tags, NEW c \in Conns, ChangeTag(t, c)
  PROVE /\ config' \in Config /\ configIds' \in 0..MaxConfigs
        /\ jobs' \in [JobIds -> Job] /\ rows' \in [RowIds -> Row]
        /\ unsent' \in SUBSET JobIds
        /\ UNCHANGED <<queue, pc, run, paperless, baseUrl, archived>>
  <1>1. /\ config \in Config /\ configIds \in 0..MaxConfigs
        /\ jobs \in [JobIds -> Job] /\ rows \in [RowIds -> Row] /\ unsent \subseteq JobIds
    BY DEF TypeOK
  <1>2. config' \in Config
    <2>1. CASE HasTag
      <3>1. config' = [config EXCEPT !.version = @ + 1, !.tag = t, !.conn = c,
                                     !.status = "PENDING"]
        BY <2>1 DEF ChangeTag, ChangedConfig
      <3>2. config.version \in 0..MaxVersion
        BY <1>1, ConfigFields
      <3>3. config.version < MaxVersion
        BY <2>1 DEF ChangeTag
      <3>4. config.version + 1 \in 0..MaxVersion
        BY <3>2, <3>3, BoundsAssumption
      <3>5. [config EXCEPT !.version = @ + 1] \in Config
        BY <1>1, <3>4, ConfigFields
      <3>6. [config EXCEPT !.version = @ + 1, !.tag = t] \in Config
        BY <3>5, ConfigFields
      <3>7. [config EXCEPT !.version = @ + 1, !.tag = t, !.conn = c] \in Config
        BY <3>6, ConfigFields
      <3> QED  BY <3>1, <3>7, ConfigFields
    <2>2. CASE ~HasTag
      <3>1. config' = [id |-> configIds + 1, version |-> 1, tag |-> t, conn |-> c,
                       status |-> "PENDING", due |-> TRUE]
        BY <2>2 DEF ChangeTag, ChangedConfig
      <3>2. configIds < MaxConfigs /\ MaxVersion > 0
        BY <2>2 DEF ChangeTag
      <3>3. configIds + 1 \in 0..MaxConfigs /\ 1 \in 0..MaxVersion
        BY <1>1, <3>2, BoundsAssumption
      <3> QED  BY <3>1, <3>3 DEF Config
    <2> QED  BY <2>1, <2>2
  <1>3. configIds' \in 0..MaxConfigs
    BY <1>1, BoundsAssumption DEF ChangeTag
  <1>4. \A i \in JobIds : Superseded(i) \in Job
    BY <1>1, JobFields DEF Superseded
  <1>5. SyncJob(config'.version) \in Job
    BY <1>2, ConfigFields, SyncJobType
  <1>6. jobs' \in [JobIds -> Job] /\ unsent' \in SUBSET JobIds
    <2>1. PICK j \in JobIds :
             /\ jobs' = [i \in JobIds |-> IF i = j THEN SyncJob(config'.version)
                                                   ELSE Superseded(i)]
             /\ unsent' = unsent \cup {j}
      BY DEF ChangeTag
    <2> QED  BY <1>1, <1>4, <1>5, <2>1
  <1>7. \A d \in RowIds : ResetApplied(t, d) \in Row
    BY <1>1, RowFields DEF ResetApplied
  <1>8. rows' \in [RowIds -> Row]
    <2>1. rows' = [d \in RowIds |-> ResetApplied(t, d)]
      BY DEF ChangeTag
    <2> QED  BY <1>7, <2>1
  <1>9. UNCHANGED <<queue, pc, run, paperless, baseUrl, archived>>
    BY DEF ChangeTag
  <1> QED  BY <1>2, <1>3, <1>6, <1>8, <1>9

-----------------------------------------------------------------------------
(* The API.                                                                *)

(* A call of setTag that nothing overtakes. *)
LEMMA SetTagTypes == ASSUME TypeOK, NEW t \in Tags, SetTag(t) PROVE TypeOK'
  <1>1. ChangeTag(t, baseUrl) /\ baseUrl \in Conns /\ UNCHANGED request
    BY DEF SetTag, TypeOK
  <1>2. Spend("call", MaxCalls)
    BY DEF SetTag
  <1>3. spent' \in [{"call", "retag", "repoint", "archive", "exception", "crash"} -> Nat]
    BY <1>2, SpendTypes
  <1> QED  BY <1>1, <1>3, ChangeTagTypes DEF TypeOK

(* The transaction of a setTag call that asked Paperless before. *)
LEMMA SetRequestedTagTypes ==
  ASSUME TypeOK, TagsKnown, NEW q \in Requests, SetRequestedTag(q) PROVE TypeOK'
  <1>1. request \in [Requests -> Request] /\ request[q].op = "set"
    BY DEF TypeOK, SetRequestedTag
  <1>2. request[q].tag \in Tags
    BY <1>1 DEF TagsKnown
  <1>3. request[q].conn \in Conns
    BY <1>1 DEF TagsKnown
  <1>4. ChangeTag(request[q].tag, request[q].conn) /\ UNCHANGED spent
    BY DEF SetRequestedTag
  <1>5. request' = [request EXCEPT ![q] = NoRequest]
    BY DEF SetRequestedTag
  <1>6. request' \in [Requests -> Request]
    BY <1>1, <1>5, Constructors
  <1> QED  BY <1>2, <1>3, <1>4, <1>6, ChangeTagTypes DEF TypeOK

(* The checks of setTag, before its transaction. *)
LEMMA RequestTagTypes ==
  ASSUME TypeOK, NEW q \in Requests, NEW t \in Tags, RequestTag(q, t) PROVE TypeOK'
  <1>1. request \in [Requests -> Request] /\ baseUrl \in Conns
    BY DEF TypeOK
  <1>2. request' = [request EXCEPT ![q] = [NoRequest EXCEPT !.op = "set", !.tag = t,
                                                           !.conn = baseUrl]]
    BY DEF RequestTag
  <1>3. request' \in [Requests -> Request]
    BY <1>1, <1>2, Constructors, RequestFields
  <1>4. Spend("call", MaxCalls)
    BY DEF RequestTag
  <1>5. spent' \in [{"call", "retag", "repoint", "archive", "exception", "crash"} -> Nat]
    BY <1>4, SpendTypes
  <1>6. UNCHANGED <<config, configIds, rows, jobs, unsent, queue, pc, run, paperless,
                    baseUrl, archived>>
    BY DEF RequestTag
  <1> QED  BY <1>3, <1>5, <1>6 DEF TypeOK

(* removeTag: rows without the tag origin, jobs superseded. *)
LEMMA RemoveTagTypes == ASSUME TypeOK, RemoveTag PROVE TypeOK'
  <1>1. rows \in [RowIds -> Row] /\ jobs \in [JobIds -> Job]
    BY DEF TypeOK
  <1>2. config' = NoConfig /\ rows' = [d \in RowIds |-> WithoutTagOrigin(d)]
                           /\ jobs' = [j \in JobIds |-> Superseded(j)]
    BY DEF RemoveTag
  <1>3. config' \in Config
    BY <1>2, Constructors
  <1>4. \A j \in JobIds : Superseded(j) \in Job
    BY <1>1, JobFields DEF Superseded
  <1>5. ASSUME NEW d \in RowIds PROVE WithoutTagOrigin(d) \in Row
    <2> DEFINE state == IF rows[d].tag /\ ~rows[d].manual THEN "archived" ELSE rows[d].state
               tagging == IF rows[d].manual /\ Live(d) THEN None ELSE rows[d].tagging
    <2>1. rows[d] \in Row
      BY <1>1
    <2>2. /\ state \in {"absent", "live", "archived"}
          /\ tagging \in {None, "PENDING", "APPLIED", "FAILED"}
      BY <2>1, RowFields
    <2>3. WithoutTagOrigin(d) = [rows[d] EXCEPT !.tag = FALSE, !.state = state,
                                                !.tagging = tagging]
      BY DEF WithoutTagOrigin
    <2> HIDE DEF state, tagging
    <2>4. [rows[d] EXCEPT !.tag = FALSE] \in Row
      BY <2>1, RowFields
    <2>5. [rows[d] EXCEPT !.tag = FALSE, !.state = state] \in Row
      BY <2>2, <2>4, RowFields
    <2> QED  BY <2>2, <2>3, <2>5, RowFields
  <1>6. Spend("call", MaxCalls)
    BY DEF RemoveTag
  <1>7. spent' \in [{"call", "retag", "repoint", "archive", "exception", "crash"} -> Nat]
    BY <1>6, SpendTypes
  <1>8. UNCHANGED <<configIds, unsent, queue, pc, run, request, paperless, baseUrl, archived>>
    BY DEF RemoveTag
  <1> QED  BY <1>2, <1>3, <1>4, <1>5, <1>7, <1>8 DEF TypeOK

(* The checks of requestSync. *)
LEMMA RequestSyncTypes ==
  ASSUME TypeOK, NEW q \in Requests, RequestSync(q) PROVE TypeOK'
  <1>1. request \in [Requests -> Request] /\ config \in Config
    BY DEF TypeOK
  <1>2. request' = [request EXCEPT ![q] = [NoRequest EXCEPT !.op = "sync",
                                                           !.version = config.version]]
    BY DEF RequestSync
  <1>3. config.version \in 0..MaxVersion
    BY <1>1, ConfigFields
  <1>4. request' \in [Requests -> Request]
    BY <1>1, <1>2, <1>3, Constructors, RequestFields
  <1>5. Spend("call", MaxCalls)
    BY DEF RequestSync
  <1>6. spent' \in [{"call", "retag", "repoint", "archive", "exception", "crash"} -> Nat]
    BY <1>5, SpendTypes
  <1>7. UNCHANGED <<config, configIds, rows, jobs, unsent, queue, pc, run, paperless,
                    baseUrl, archived>>
    BY DEF RequestSync
  <1> QED  BY <1>4, <1>6, <1>7 DEF TypeOK

(* The insert of requestSync. *)
LEMMA CreateRequestedSyncTypes ==
  ASSUME TypeOK, NEW q \in Requests, CreateRequestedSync(q) PROVE TypeOK'
  <1>1. /\ request \in [Requests -> Request] /\ jobs \in [JobIds -> Job]
        /\ unsent \in SUBSET JobIds
    BY DEF TypeOK
  <1>2. PICK j \in JobIds : /\ jobs' = [jobs EXCEPT ![j] = SyncJob(request[q].version)]
                            /\ unsent' = unsent \cup {j}
    BY DEF CreateRequestedSync
  <1>3. request' = [request EXCEPT ![q] = NoRequest]
    BY DEF CreateRequestedSync
  <1>4. SyncJob(request[q].version) \in Job
    BY <1>1, RequestFields, SyncJobType
  <1>5. jobs' \in [JobIds -> Job] /\ unsent' \in SUBSET JobIds
    BY <1>1, <1>2, <1>4
  <1>6. request' \in [Requests -> Request]
    BY <1>1, <1>3, Constructors
  <1>7. UNCHANGED <<config, configIds, rows, queue, pc, run, paperless, baseUrl, archived,
                    spent>>
    BY DEF CreateRequestedSync
  <1> QED  BY <1>5, <1>6, <1>7 DEF TypeOK

(* The reads of retryTagging. *)
LEMMA RequestRetryTypes ==
  ASSUME TypeOK, NEW q \in Requests, RequestRetry(q) PROVE TypeOK'
  <1>1. request \in [Requests -> Request] /\ config \in Config
    BY DEF TypeOK
  <1>2. PICK ds \in {Retryable} \cup {{d} : d \in Retryable} :
           request' = [request EXCEPT ![q] = [NoRequest EXCEPT !.op = "retry", !.rows = ds,
                                                               !.version = config.version]]
    BY DEF RequestRetry
  <1>3. config.version \in 0..MaxVersion
    BY <1>1, ConfigFields
  <1>4. ds \in SUBSET RowIds
    BY <1>2 DEF Retryable
  <1>5. request' \in [Requests -> Request]
    BY <1>1, <1>2, <1>3, <1>4, Constructors, RequestFields
  <1>6. Spend("call", MaxCalls)
    BY DEF RequestRetry
  <1>7. spent' \in [{"call", "retag", "repoint", "archive", "exception", "crash"} -> Nat]
    BY <1>6, SpendTypes
  <1>8. UNCHANGED <<config, configIds, rows, jobs, unsent, queue, pc, run, paperless,
                    baseUrl, archived>>
    BY DEF RequestRetry
  <1> QED  BY <1>5, <1>7, <1>8 DEF TypeOK

(* The transaction of retryTagging, one row per document without an active one. *)
LEMMA CreateRetriesTypes ==
  ASSUME TypeOK, NEW q \in Requests, CreateRetries(q) PROVE TypeOK'
  <1> DEFINE ds == request[q].rows
             new == {d \in ds : ActiveTagJobs(d) = {}}
  <1>1. /\ request \in [Requests -> Request] /\ jobs \in [JobIds -> Job]
        /\ rows \in [RowIds -> Row] /\ unsent \in SUBSET JobIds
    BY DEF TypeOK
  <1>2. PICK ids \in [ds -> JobIds] :
           /\ jobs' = [j \in JobIds |->
                          IF \E d \in new : ids[d] = j
                          THEN TagJob(CHOOSE d \in new : ids[d] = j, request[q].version)
                          ELSE jobs[j]]
           /\ unsent' = unsent \cup {ids[d] : d \in ds}
    BY DEF CreateRetries
  <1>3. ds \in SUBSET RowIds /\ request[q].version \in 0..MaxVersion
    BY <1>1, RequestFields
  <1>4. new \in SUBSET RowIds
    BY <1>3
  <1> HIDE DEF ds, new
  <1>6. unsent' \in SUBSET JobIds
    BY <1>1, <1>2
  <1>7. ASSUME NEW j \in JobIds, \E d \in new : ids[d] = j
        PROVE TagJob(CHOOSE d \in new : ids[d] = j, request[q].version) \in Job
    BY <1>3, <1>4, <1>7, TagJobType
  <1>8. jobs' \in [JobIds -> Job]
    BY <1>1, <1>2, <1>7
  <1>9. rows' \in [RowIds -> Row]
    <2>1. rows' = [d \in RowIds |-> IF d \in ds THEN [rows[d] EXCEPT !.tagging = "PENDING"]
                                                 ELSE rows[d]]
      BY DEF CreateRetries, ds
    <2> QED  BY <1>1, <2>1, RowFields
  <1>10. request' \in [Requests -> Request]
    <2>1. request' = [request EXCEPT ![q] = NoRequest]
      BY DEF CreateRetries
    <2> QED  BY <1>1, <2>1, Constructors
  <1>11. UNCHANGED <<config, configIds, queue, pc, run, paperless, baseUrl, archived, spent>>
    BY DEF CreateRetries
  <1> QED  BY <1>6, <1>8, <1>9, <1>10, <1>11 DEF TypeOK


(* Giving a document row the manual origin keeps the types. *)
LEMMA ApplyManualLinkOriginTypes ==
  ASSUME TypeOK, NEW d \in RowIds, NEW link \in Row, ApplyManualLinkOrigin(d, link)
  PROVE /\ rows' \in [RowIds -> Row] /\ jobs' \in [JobIds -> Job]
        /\ unsent' \in SUBSET JobIds
  <1>1. /\ rows \in [RowIds -> Row] /\ jobs \in [JobIds -> Job]
        /\ unsent \in SUBSET JobIds /\ config \in Config
    BY DEF TypeOK
  <1>2. [link EXCEPT !.manual = TRUE] \in Row
    BY RowFields
  <1>3. [link EXCEPT !.manual = TRUE, !.tagging = "PENDING"] \in Row
    BY <1>2, RowFields
  <1>4. \/ rows' = [rows EXCEPT ![d] = [link EXCEPT !.manual = TRUE]]
        \/ rows' = [rows EXCEPT ![d] = [link EXCEPT !.manual = TRUE, !.tagging = "PENDING"]]
    BY DEF ApplyManualLinkOrigin
  <1>5. rows' \in [RowIds -> Row]
    BY <1>1, <1>2, <1>3, <1>4
  <1>6. TagJob(d, config.version) \in Job
    BY <1>1, ConfigFields, TagJobType
  <1>7. \/ UNCHANGED <<jobs, unsent>>
        \/ \E j \in JobIds : /\ jobs' = [jobs EXCEPT ![j] = TagJob(d, config.version)]
                             /\ unsent' = unsent \cup {j}
    BY DEF ApplyManualLinkOrigin
  <1> QED  BY <1>1, <1>5, <1>6, <1>7

(* The manual link, on an old row or a new one. *)
LEMMA LinkPaperlessDocumentTypes ==
  ASSUME TypeOK, NEW r \in Refs, LinkPaperlessDocument(r) PROVE TypeOK'
  <1>1. rows \in [RowIds -> Row]
    BY DEF TypeOK
  <1>2. [NoRow EXCEPT !.state = "live"] \in Row
    BY Constructors, RowFields
  <1>3. [NoRow EXCEPT !.state = "live", !.ref = r] \in Row
    BY <1>2, RowFields
  <1>4. PICK d \in RowIds :
           \/ ApplyManualLinkOrigin(d, rows[d])
           \/ ApplyManualLinkOrigin(d, [NoRow EXCEPT !.state = "live", !.ref = r])
    BY DEF LinkPaperlessDocument
  <1>5. /\ rows' \in [RowIds -> Row] /\ jobs' \in [JobIds -> Job]
        /\ unsent' \in SUBSET JobIds
    BY <1>1, <1>3, <1>4, ApplyManualLinkOriginTypes
  <1>6. Spend("call", MaxCalls)
    BY DEF LinkPaperlessDocument
  <1>7. spent' \in [{"call", "retag", "repoint", "archive", "exception", "crash"} -> Nat]
    BY <1>6, SpendTypes
  <1>8. UNCHANGED <<config, configIds, queue, pc, run, request, paperless, baseUrl, archived>>
    BY DEF LinkPaperlessDocument
  <1> QED  BY <1>5, <1>7, <1>8 DEF TypeOK

(* Removing a link, or its manual origin only. *)
LEMMA RemoveDocumentTypes ==
  ASSUME TypeOK, NEW d \in RowIds, RemoveDocument(d) PROVE TypeOK'
  <1>1. rows \in [RowIds -> Row]
    BY DEF TypeOK
  <1>2. \/ rows' = [rows EXCEPT ![d].manual = FALSE]
        \/ rows' = [rows EXCEPT ![d].state = "archived"]
    BY DEF RemoveDocument
  <1>3. rows' \in [RowIds -> Row]
    <2>1. CASE rows' = [rows EXCEPT ![d].manual = FALSE]
      BY <1>1, <2>1, RowFields
    <2>2. CASE rows' = [rows EXCEPT ![d].state = "archived"]
      BY <1>1, <2>2, RowFields
    <2> QED  BY <1>2, <2>1, <2>2
  <1>4. Spend("call", MaxCalls)
    BY DEF RemoveDocument
  <1>5. spent' \in [{"call", "retag", "repoint", "archive", "exception", "crash"} -> Nat]
    BY <1>4, SpendTypes
  <1>6. UNCHANGED <<config, configIds, jobs, unsent, queue, pc, run, request, paperless,
                    baseUrl, archived>>
    BY DEF RemoveDocument
  <1> QED  BY <1>3, <1>5, <1>6 DEF TypeOK

(* The push after the commit. *)
LEMMA EnqueueTypes == ASSUME TypeOK, NEW j \in JobIds, Enqueue(j) PROVE TypeOK'
  <1>1. unsent' \subseteq JobIds
    BY DEF TypeOK, Enqueue
  <1>2. queue' = Enqueued({j})
    BY DEF Enqueue
  <1>3. queue' \subseteq JobIds
    BY <1>2, EnqueuedTypes
  <1>4. UNCHANGED <<config, configIds, rows, jobs, pc, run, request, paperless, baseUrl,
                    archived, spent>>
    BY DEF Enqueue
  <1> QED  BY <1>1, <1>3, <1>4 DEF TypeOK

-----------------------------------------------------------------------------
(* The worker.                                                             *)

(* Whatever status is written into an outbox row, the table keeps its type. *)
LEMMA StatusWritten ==
  ASSUME TypeOK, NEW j,
         NEW s \in {"absent", "PENDING", "RUNNING", "COMPLETED", "FAILED", "SKIPPED"}
  PROVE [jobs EXCEPT ![j].status = s] \in [JobIds -> Job]
  <1>1. jobs \in [JobIds -> Job]
    BY DEF TypeOK
  <1> QED  BY <1>1, JobFields

(* Whatever record a worker keeps, the workers keep their type. *)
LEMMA RunWritten ==
  ASSUME TypeOK, NEW w \in Workers, NEW r \in Run
  PROVE run[w] \in Run /\ [run EXCEPT ![w] = r] \in [Workers -> Run]
  BY DEF TypeOK

(* Whether a worker has work left in reconcileAssignments, it is at a label. *)
LEMMA SyncLabelTypes ==
  ASSUME NEW adds, NEW drops PROVE SyncLabel(adds, drops) \in Labels
  BY DEF SyncLabel, Labels

(* A settled row is dropped from the queue. *)
LEMMA DropSettledTypes ==
  ASSUME TypeOK, NEW w \in Workers, NEW j \in JobIds, DropSettled(w, j) PROVE TypeOK'
  <1>1. queue' \subseteq JobIds
    BY DEF DropSettled, Take, TypeOK
  <1>2. UNCHANGED <<config, configIds, rows, jobs, unsent, pc, run, request, paperless,
                    baseUrl, archived, spent>>
    BY DEF DropSettled
  <1> QED  BY <1>1, <1>2 DEF TypeOK

(* A row that is outdated or drifted is skipped. *)
LEMMA SkipJobTypes ==
  ASSUME TypeOK, NEW w \in Workers, NEW j \in JobIds, SkipJob(w, j) PROVE TypeOK'
  <1>1. queue' \subseteq JobIds
    BY DEF SkipJob, Take, TypeOK
  <1>2. jobs' = [jobs EXCEPT ![j].status = "SKIPPED"] /\ config' = DriftError(j)
    BY DEF SkipJob
  <1>3. jobs' \in [JobIds -> Job]
    BY <1>2, StatusWritten
  <1>4. config \in Config
    BY DEF TypeOK
  <1>5. config' \in Config
    BY <1>2, <1>4, ConfigFields DEF DriftError
  <1>6. UNCHANGED <<configIds, rows, unsent, pc, run, request, paperless, baseUrl, archived,
                    spent>>
    BY DEF SkipJob
  <1> QED  BY <1>1, <1>3, <1>5, <1>6 DEF TypeOK

(* What a worker reads when it takes a job is a run. *)
LEMMA StartJobTypes ==
  ASSUME TypeOK, NEW w \in Workers, NEW j \in JobIds, StartJob(w, j) PROVE TypeOK'
  <1>1. jobs[j] \in Job /\ config \in Config
    BY DEF TypeOK
  <1>2. run' = [run EXCEPT ![w] = [NoRun EXCEPT
                  !.job = j, !.version = jobs[j].version, !.retries = jobs[j].retries,
                  !.cfg = config.id, !.tag = config.tag, !.row = jobs[j].row]]
    BY DEF StartJob
  <1>3. j \in 0..MaxJobs
    BY BoundsAssumption DEF JobIds
  <1>4. [NoRun EXCEPT !.job = j] \in Run
    BY <1>3, Constructors, RunFields
  <1>5. [NoRun EXCEPT !.job = j, !.version = jobs[j].version] \in Run
    BY <1>1, <1>4, JobFields, RunFields
  <1>6. [NoRun EXCEPT !.job = j, !.version = jobs[j].version, !.retries = jobs[j].retries]
           \in Run
    BY <1>1, <1>5, JobFields, RunFields
  <1>7. [NoRun EXCEPT !.job = j, !.version = jobs[j].version, !.retries = jobs[j].retries,
                      !.cfg = config.id] \in Run
    BY <1>1, <1>6, ConfigFields, RunFields
  <1>8. [NoRun EXCEPT !.job = j, !.version = jobs[j].version, !.retries = jobs[j].retries,
                      !.cfg = config.id, !.tag = config.tag] \in Run
    BY <1>1, <1>7, ConfigFields, RunFields
  <1>9. [NoRun EXCEPT !.job = j, !.version = jobs[j].version, !.retries = jobs[j].retries,
                      !.cfg = config.id, !.tag = config.tag, !.row = jobs[j].row] \in Run
    BY <1>1, <1>8, JobFields, RunFields
  <1>10. run' \in [Workers -> Run]
    BY <1>2, <1>9, RunWritten
  <1>11. Goto(w, "mark") /\ "mark" \in Labels
    BY DEF StartJob, Labels
  <1>12. pc' \in [Workers -> Labels]
    BY <1>11, GotoTypes
  <1>13. queue' \subseteq JobIds
    BY DEF StartJob, Take, TypeOK
  <1>14. UNCHANGED <<config, configIds, rows, jobs, unsent, request, paperless, baseUrl,
                     archived, spent>>
    BY DEF StartJob
  <1> QED  BY <1>10, <1>12, <1>13, <1>14 DEF TypeOK

(* The row is marked RUNNING. *)
LEMMA MarkRunningTypes ==
  ASSUME TypeOK, NEW w \in Workers, MarkRunning(w) PROVE TypeOK'
  <1>1. jobs' = [jobs EXCEPT ![run[w].job].status = "RUNNING"]
    BY DEF MarkRunning
  <1>2. jobs' \in [JobIds -> Job]
    BY <1>1, StatusWritten
  <1>3. Goto(w, "fetch") \/ Goto(w, "assign")
    BY DEF MarkRunning
  <1>4. pc' \in [Workers -> Labels]
    BY <1>3, GotoTypes DEF Labels
  <1>5. UNCHANGED <<config, configIds, rows, unsent, queue, run, request, paperless, baseUrl,
                    archived, spent>>
    BY DEF MarkRunning
  <1> QED  BY <1>2, <1>4, <1>5 DEF TypeOK

(* Paperless could not be reached. *)
LEMMA FetchUnreachableTypes ==
  ASSUME TypeOK, NEW w \in Workers, FetchUnreachable(w) PROVE TypeOK'
  <1>1. RetryOrFail(run[w].job, run[w].retries) /\ Finish(w)
    BY DEF FetchUnreachable
  <1>2. /\ jobs' \in [JobIds -> Job]
        /\ pc' \in [Workers -> Labels] /\ run' \in [Workers -> Run]
    BY <1>1, RetryOrFailTypes, FinishTypes
  <1>3. UNCHANGED <<config, configIds, rows, unsent, queue, request, paperless, baseUrl,
                    archived, spent>>
    BY DEF FetchUnreachable
  <1> QED  BY <1>2, <1>3 DEF TypeOK

(* Paperless rejected the tag or the listing was incomplete. *)
LEMMA FetchFailedTypes ==
  ASSUME TypeOK, NEW w \in Workers, FetchRejected(w) \/ FetchIncomplete(w) PROVE TypeOK'
  <1>1. /\ \E n : RetryOrFail(run[w].job, n)
        /\ Finish(w) /\ GuardedStatus(w, "ERROR")
    BY DEF FetchRejected, FetchIncomplete
  <1>2. /\ jobs' \in [JobIds -> Job] /\ config' \in Config
        /\ pc' \in [Workers -> Labels] /\ run' \in [Workers -> Run]
    BY <1>1, RetryOrFailTypes, FinishTypes, GuardedStatusTypes
  <1>3. UNCHANGED <<configIds, rows, unsent, queue, request, paperless, baseUrl, archived,
                    spent>>
    BY DEF FetchRejected, FetchIncomplete
  <1> QED  BY <1>2, <1>3 DEF TypeOK

(* The listing is a set of documents. *)
LEMMA FetchTypes == ASSUME TypeOK, NEW w \in Workers, Fetch(w) PROVE TypeOK'
  <1> DEFINE listed == {r \in Refs : run[w].tag \in paperless[baseUrl][r]}
  <1>1. run' = [run EXCEPT ![w] = [run[w] EXCEPT !.remote = listed]]
    BY DEF Fetch
  <1>2. listed \in SUBSET Refs
    OBVIOUS
  <1> HIDE DEF listed
  <1>3. run[w] \in Run
    BY DEF TypeOK
  <1>4. run' \in [Workers -> Run]
    BY <1>1, <1>2, <1>3, RunFields, RunWritten
  <1>5. Goto(w, "snapshot") /\ "snapshot" \in Labels
    BY DEF Fetch, Labels
  <1>6. pc' \in [Workers -> Labels]
    BY <1>5, GotoTypes
  <1>7. UNCHANGED <<config, configIds, rows, jobs, unsent, queue, request, paperless, baseUrl,
                    archived, spent>>
    BY DEF Fetch
  <1> QED  BY <1>4, <1>6, <1>7 DEF TypeOK

(* The copy of the local links. *)
LEMMA SnapshotTypes == ASSUME TypeOK, NEW w \in Workers, Snapshot(w) PROVE TypeOK'
  <1> DEFINE local == {d \in RowIds : Live(d)}
             tagged == {d \in local : rows[d].tag}
             manual == {d \in local : rows[d].manual}
             drops == {d \in tagged : rows[d].ref \notin run[w].remote}
             copy == [run[w] EXCEPT !.local = local, !.tagged = tagged, !.manual = manual,
                                    !.adds = run[w].remote, !.todo = drops]
  <1>1. \/ run' = [run EXCEPT ![w] = run[w]]
        \/ run' = [run EXCEPT ![w] = copy]
    BY DEF Snapshot
  <1>2. /\ local \in SUBSET RowIds /\ tagged \in SUBSET RowIds
        /\ manual \in SUBSET RowIds /\ drops \in SUBSET RowIds
    OBVIOUS
  <1>3. Goto(w, SyncLabel(run[w].remote, drops))
    BY DEF Snapshot
  <1>4. copy \in Run
    <2> HIDE DEF local, tagged, manual, drops
    <2>1. run[w] \in Run /\ run[w].remote \in SUBSET Refs
      BY RunFields DEF TypeOK
    <2>2. [run[w] EXCEPT !.local = local] \in Run
      BY <1>2, <2>1, RunFields
    <2>3. [run[w] EXCEPT !.local = local, !.tagged = tagged] \in Run
      BY <1>2, <2>2, RunFields
    <2>4. [run[w] EXCEPT !.local = local, !.tagged = tagged, !.manual = manual] \in Run
      BY <1>2, <2>3, RunFields
    <2>5. [run[w] EXCEPT !.local = local, !.tagged = tagged, !.manual = manual,
                         !.adds = run[w].remote] \in Run
      BY <2>1, <2>4, RunFields
    <2> QED  BY <1>2, <2>5, RunFields
  <1> HIDE DEF copy, drops
  <1>5. run[w] \in Run
    BY DEF TypeOK
  <1>6. run' \in [Workers -> Run]
    BY <1>1, <1>4, <1>5, RunWritten
  <1>7. pc' \in [Workers -> Labels]
    BY <1>3, SyncLabelTypes, GotoTypes
  <1>8. UNCHANGED <<config, configIds, rows, jobs, unsent, queue, request, paperless, baseUrl,
                    archived, spent>>
    BY DEF Snapshot
  <1> QED  BY <1>6, <1>7, <1>8 DEF TypeOK

(* The next listed document. *)
LEMMA CheckAddTypes == ASSUME TypeOK, NEW w \in Workers, CheckAdd(w) PROVE TypeOK'
  <1>1. PICK r \in run[w].adds :
           run' = [run EXCEPT ![w] = [run[w] EXCEPT !.ref = r, !.adds = run[w].adds \ {r}]]
    BY DEF CheckAdd, TypeOK
  <1>2. run[w] \in Run
    BY DEF TypeOK
  <1>3. run[w].adds \in SUBSET Refs
    BY <1>2, RunFields
  <1>4. [run[w] EXCEPT !.ref = r] \in Run
    BY <1>2, <1>3, RunFields
  <1>5. [run[w] EXCEPT !.ref = r, !.adds = run[w].adds \ {r}] \in Run
    BY <1>3, <1>4, RunFields
  <1>6. run' \in [Workers -> Run]
    BY <1>1, <1>5, RunWritten
  <1>7. Goto(w, "addWrite") /\ "addWrite" \in Labels
    BY DEF CheckAdd, Labels
  <1>8. pc' \in [Workers -> Labels]
    BY <1>7, GotoTypes
  <1>9. UNCHANGED <<config, configIds, rows, jobs, unsent, queue, request, paperless, baseUrl,
                    archived, spent>>
    BY DEF CheckAdd
  <1> QED  BY <1>6, <1>8, <1>9 DEF TypeOK

(* A worker that picks row d out of its set of rows keeps a run. *)
LEMMA PickedRow ==
  ASSUME TypeOK, NEW w \in Workers, NEW d \in run[w].todo
  PROVE /\ [run[w] EXCEPT !.row = d, !.todo = run[w].todo \ {d}] \in Run
        /\ [run[w] EXCEPT !.todo = run[w].todo \ {d}] \in Run
  <1>1. run[w] \in Run
    BY DEF TypeOK
  <1>2. run[w].todo \in SUBSET RowIds
    BY <1>1, RunFields
  <1>3. d \in 0..MaxRows
    BY <1>2, BoundsAssumption DEF RowIds
  <1>4. [run[w] EXCEPT !.row = d] \in Run
    BY <1>1, <1>3, RunFields
  <1> QED  BY <1>1, <1>2, <1>4, RunFields

(* The next link that lost the tag. *)
LEMMA CheckDropTypes == ASSUME TypeOK, NEW w \in Workers, CheckDrop(w) PROVE TypeOK'
  <1>1. PICK d \in run[w].todo :
           run' = [run EXCEPT ![w] = [run[w] EXCEPT !.row = d, !.todo = run[w].todo \ {d}]]
    BY DEF CheckDrop, TypeOK
  <1>2. run' \in [Workers -> Run]
    BY <1>1, PickedRow, RunWritten
  <1>3. Goto(w, "dropWrite") /\ "dropWrite" \in Labels
    BY DEF CheckDrop, Labels
  <1>4. pc' \in [Workers -> Labels]
    BY <1>3, GotoTypes
  <1>5. UNCHANGED <<config, configIds, rows, jobs, unsent, queue, request, paperless, baseUrl,
                    archived, spent>>
    BY DEF CheckDrop
  <1> QED  BY <1>2, <1>4, <1>5 DEF TypeOK

(* A run that found the configuration changed. *)
LEMMA AbortSyncTypes == ASSUME TypeOK, NEW w \in Workers, AbortSync(w) PROVE TypeOK'
  <1>1. jobs' = [jobs EXCEPT ![run[w].job].status = "SKIPPED"] /\ Finish(w)
    BY DEF AbortSync
  <1>2. /\ jobs' \in [JobIds -> Job]
        /\ pc' \in [Workers -> Labels] /\ run' \in [Workers -> Run]
    BY <1>1, StatusWritten, FinishTypes
  <1>3. UNCHANGED <<config, configIds, rows, unsent, queue, request, paperless, baseUrl,
                    archived, spent>>
    BY DEF AbortSync
  <1> QED  BY <1>2, <1>3 DEF TypeOK

(* Forgetting the copy of the local links leaves a run. *)
LEMMA WithoutCopyTypes ==
  ASSUME NEW r \in Run
  PROVE WithoutCopy(r) \in Run /\ [r EXCEPT !.ref = None] \in Run /\ [r EXCEPT !.row = 0] \in Run
  <1>1. 0 \in 0..MaxRows
    BY BoundsAssumption
  <1>2. [r EXCEPT !.local = {}] \in Run
    BY RunFields
  <1>3. [r EXCEPT !.local = {}, !.manual = {}] \in Run
    BY <1>2, RunFields
  <1>4. [r EXCEPT !.local = {}, !.manual = {}, !.tagged = {}] \in Run
    BY <1>3, RunFields
  <1>5. [r EXCEPT !.local = {}, !.manual = {}, !.tagged = {}, !.ref = None] \in Run
    BY <1>4, RunFields
  <1>6. WithoutCopy(r) \in Run
    BY <1>1, <1>5, RunFields DEF WithoutCopy
  <1> QED  BY <1>1, <1>6, RunFields

(* A link gets the automatic origin, or a row is created with it. *)
LEMMA AddTagOriginTypes == ASSUME TypeOK, NEW w \in Workers, AddTagOrigin(w) PROVE TypeOK'
  <1> DEFINE fresh == [NoRow EXCEPT !.state = "live", !.ref = run[w].ref, !.tag = TRUE]
  <1>1. run[w] \in Run /\ rows \in [RowIds -> Row]
    BY DEF TypeOK
  <1>2. fresh \in Row
    <2>1. [NoRow EXCEPT !.state = "live"] \in Row
      BY Constructors, RowFields
    <2>2. [NoRow EXCEPT !.state = "live", !.ref = run[w].ref] \in Row
      BY <1>1, <2>1, RunFields, RowFields
    <2> QED  BY <2>2, RowFields
  <1>3. \A d \in RowIds : [rows[d] EXCEPT !.tag = TRUE] \in Row
    BY <1>1, RowFields
  <1>4. \/ \E known : rows' = [d \in RowIds |-> IF d \in known \ run[w].tagged
                                                 THEN [rows[d] EXCEPT !.tag = TRUE] ELSE rows[d]]
        \/ rows' = [d \in RowIds |-> IF d \in LiveLinks(run[w].ref)
                                     THEN [rows[d] EXCEPT !.tag = TRUE] ELSE rows[d]]
        \/ \E d \in RowIds : rows' = [rows EXCEPT ![d] = fresh]
    BY DEF AddTagOrigin
  <1> HIDE DEF fresh
  <1>5. rows' \in [RowIds -> Row]
    BY <1>1, <1>2, <1>3, <1>4
  <1>6. \/ run' = [run EXCEPT ![w] = WithoutCopy(run[w])]
        \/ run' = [run EXCEPT ![w] = [run[w] EXCEPT !.ref = None]]
    BY DEF AddTagOrigin
  <1>7. run' \in [Workers -> Run]
    BY <1>1, <1>6, WithoutCopyTypes, RunWritten
  <1>8. Goto(w, SyncLabel(run[w].adds, run[w].todo))
    BY DEF AddTagOrigin
  <1>9. pc' \in [Workers -> Labels]
    BY <1>8, SyncLabelTypes, GotoTypes
  <1>10. UNCHANGED <<config, configIds, jobs, unsent, queue, request, paperless, baseUrl,
                     archived, spent>>
    BY DEF AddTagOrigin
  <1> QED  BY <1>5, <1>7, <1>9, <1>10 DEF TypeOK

(* A link loses the automatic origin and may be hidden. *)
LEMMA DropTagOriginTypes == ASSUME TypeOK, NEW w \in Workers, DropTagOrigin(w) PROVE TypeOK'
  <1> DEFINE d == run[w].row
             untagged == [rows EXCEPT ![d].tag = FALSE]
  <1>1. run[w] \in Run /\ rows \in [RowIds -> Row]
    BY DEF TypeOK
  <1>2. \/ rows' = [untagged EXCEPT ![d].state = @]
        \/ rows' = [untagged EXCEPT ![d].state = "archived"]
    BY DEF DropTagOrigin
  <1>3. untagged \in [RowIds -> Row]
    BY <1>1, RowFields
  <1> HIDE DEF untagged
  <1>4. rows' \in [RowIds -> Row]
    <2>1. CASE rows' = [untagged EXCEPT ![d].state = @]
      BY <1>3, <2>1, RowFields
    <2>2. CASE rows' = [untagged EXCEPT ![d].state = "archived"]
      BY <1>3, <2>2, RowFields
    <2> QED  BY <1>2, <2>1, <2>2
  <1>5. \/ run' = [run EXCEPT ![w] = WithoutCopy(run[w])]
        \/ run' = [run EXCEPT ![w] = [run[w] EXCEPT !.row = 0]]
    BY DEF DropTagOrigin
  <1>6. run' \in [Workers -> Run]
    BY <1>1, <1>5, WithoutCopyTypes, RunWritten
  <1>7. Goto(w, SyncLabel({}, run[w].todo))
    BY DEF DropTagOrigin
  <1>8. pc' \in [Workers -> Labels]
    BY <1>7, SyncLabelTypes, GotoTypes
  <1>9. UNCHANGED <<config, configIds, jobs, unsent, queue, request, paperless, baseUrl,
                    archived, spent>>
    BY DEF DropTagOrigin
  <1> QED  BY <1>4, <1>6, <1>8, <1>9 DEF TypeOK

(* The configuration becomes ACTIVE under its version. *)
LEMMA ActivateTypes == ASSUME TypeOK, NEW w \in Workers, Activate(w) PROVE TypeOK'
  <1>1. config \in Config
    BY DEF TypeOK
  <1>2. \/ config' = config
        \/ config' = [config EXCEPT !.status = "ACTIVE", !.due = FALSE]
    BY DEF Activate
  <1>3. [config EXCEPT !.status = "ACTIVE"] \in Config
    BY <1>1, ConfigFields
  <1>4. config' \in Config
    BY <1>1, <1>2, <1>3, ConfigFields
  <1>5. Goto(w, "complete") /\ "complete" \in Labels
    BY DEF Activate, Labels
  <1>6. pc' \in [Workers -> Labels]
    BY <1>5, GotoTypes
  <1>7. UNCHANGED <<configIds, rows, jobs, unsent, queue, run, request, paperless, baseUrl,
                    archived, spent>>
    BY DEF Activate
  <1> QED  BY <1>4, <1>6, <1>7 DEF TypeOK

(* The row of the sync is completed. *)
LEMMA CompleteSyncTypes == ASSUME TypeOK, NEW w \in Workers, CompleteSync(w) PROVE TypeOK'
  <1>1. jobs' = [jobs EXCEPT ![run[w].job].status = "COMPLETED"]
    BY DEF CompleteSync
  <1>2. jobs' \in [JobIds -> Job]
    BY <1>1, StatusWritten
  <1>3. run[w] \in Run
    BY DEF TypeOK
  <1>4. run' = [run EXCEPT ![w] = [run[w] EXCEPT !.remote = {}]]
    BY DEF CompleteSync
  <1>5. run' \in [Workers -> Run]
    BY <1>3, <1>4, RunFields, RunWritten
  <1>6. Goto(w, "backfill") /\ "backfill" \in Labels
    BY DEF CompleteSync, Labels
  <1>7. pc' \in [Workers -> Labels]
    BY <1>6, GotoTypes
  <1>8. UNCHANGED <<config, configIds, rows, unsent, queue, request, paperless, baseUrl,
                    archived, spent>>
    BY DEF CompleteSync
  <1> QED  BY <1>2, <1>5, <1>7, <1>8 DEF TypeOK

(* The manual links to be tagged are read. *)
LEMMA StartBackfillTypes == ASSUME TypeOK, NEW w \in Workers, StartBackfill(w) PROVE TypeOK'
  <1> DEFINE ds == IF VersionCurrent(w) THEN Untagged ELSE {}
  <1>1. run[w] \in Run
    BY DEF TypeOK
  <1>2. ds \in SUBSET RowIds
    BY DEF Untagged
  <1>3. \/ Finish(w)
        \/ /\ run' = [run EXCEPT ![w] = [run[w] EXCEPT !.todo = ds]]
           /\ Goto(w, "backfillCheck")
    BY DEF StartBackfill
  <1> HIDE DEF ds
  <1>4. [run[w] EXCEPT !.todo = ds] \in Run
    BY <1>1, <1>2, RunFields
  <1>5. pc' \in [Workers -> Labels] /\ run' \in [Workers -> Run]
    BY <1>3, <1>4, FinishTypes, GotoTypes, RunWritten DEF Labels
  <1>6. UNCHANGED <<config, configIds, rows, jobs, unsent, queue, request, paperless, baseUrl,
                    archived, spent>>
    BY DEF StartBackfill
  <1> QED  BY <1>5, <1>6 DEF TypeOK

(* The next manual link: has it an active row? *)
LEMMA CheckBackfillTypes == ASSUME TypeOK, NEW w \in Workers, CheckBackfill(w) PROVE TypeOK'
  <1>1. PICK d \in run[w].todo :
           \/ /\ run' = [run EXCEPT ![w] = [run[w] EXCEPT !.row = d, !.todo = run[w].todo \ {d}]]
              /\ Goto(w, "backfillWrite")
           \/ Finish(w)
           \/ /\ run' = [run EXCEPT ![w] = [run[w] EXCEPT !.todo = run[w].todo \ {d}]]
              /\ UNCHANGED pc
    BY DEF CheckBackfill, TypeOK
  <1>2. run' \in [Workers -> Run]
    <2>1. CASE run' = [run EXCEPT ![w] = [run[w] EXCEPT !.row = d, !.todo = run[w].todo \ {d}]]
      BY <2>1, PickedRow, RunWritten
    <2>2. CASE Finish(w)
      BY <2>2, FinishTypes
    <2>3. CASE run' = [run EXCEPT ![w] = [run[w] EXCEPT !.todo = run[w].todo \ {d}]]
      BY <2>3, PickedRow, RunWritten
    <2> QED  BY <1>1, <2>1, <2>2, <2>3
  <1>3. pc \in [Workers -> Labels]
    BY DEF TypeOK
  <1>4. pc' \in [Workers -> Labels]
    BY <1>1, <1>3, FinishTypes, GotoTypes DEF Labels
  <1>5. UNCHANGED <<config, configIds, rows, jobs, unsent, queue, request, paperless, baseUrl,
                    archived, spent>>
    BY DEF CheckBackfill
  <1> QED  BY <1>2, <1>4, <1>5 DEF TypeOK

(* A row for the manual link is inserted. *)
LEMMA CreateBackfillTypes == ASSUME TypeOK, NEW w \in Workers, CreateBackfill(w) PROVE TypeOK'
  <1> DEFINE d == run[w].row
  <1>1. /\ run[w] \in Run /\ rows \in [RowIds -> Row] /\ jobs \in [JobIds -> Job]
        /\ queue \subseteq JobIds
    BY DEF TypeOK
  <1>2. PICK j \in JobIds, sent \in BOOLEAN :
           /\ jobs' = [jobs EXCEPT ![j] = TagJob(d, run[w].version)]
           /\ queue' = IF sent THEN Enqueued({j}) ELSE queue
    BY DEF CreateBackfill
  <1>3. TagJob(d, run[w].version) \in Job
    <2>1. [NoJob EXCEPT !.status = "PENDING"] \in Job
      BY Constructors, JobFields
    <2>2. [NoJob EXCEPT !.status = "PENDING", !.version = run[w].version] \in Job
      BY <1>1, <2>1, RunFields, JobFields
    <2>3. [NoJob EXCEPT !.status = "PENDING", !.version = run[w].version,
                        !.kind = "TAG_DOCUMENT"] \in Job
      BY <2>2, JobFields
    <2> QED  BY <1>1, <2>3, RunFields, JobFields DEF TagJob
  <1>4. jobs' \in [JobIds -> Job] /\ queue' \subseteq JobIds
    BY <1>1, <1>2, <1>3, EnqueuedTypes
  <1>5. rows' = [rows EXCEPT ![d].tagging = "PENDING"]
    BY DEF CreateBackfill
  <1>6. rows' \in [RowIds -> Row]
    BY <1>1, <1>5, RowFields
  <1>7. \/ Finish(w)
        \/ Goto(w, "backfillCheck") /\ run' = [run EXCEPT ![w] = [run[w] EXCEPT !.row = 0]]
    BY DEF CreateBackfill
  <1>8. pc' \in [Workers -> Labels] /\ run' \in [Workers -> Run]
    BY <1>1, <1>7, FinishTypes, GotoTypes, WithoutCopyTypes, RunWritten DEF Labels
  <1>9. UNCHANGED <<config, configIds, unsent, request, paperless, baseUrl, archived, spent>>
    BY DEF CreateBackfill
  <1> QED  BY <1>4, <1>6, <1>8, <1>9 DEF TypeOK

(* Setting the tag in Paperless: the tag of a run is a tag. *)
LEMMA AssignTagTypes ==
  ASSUME TypeOK, TagsKnown, NEW w \in Workers, AssignTag(w) PROVE TypeOK'
  <1> DEFINE r == rows[run[w].row].ref
             set == paperless[baseUrl][r] \cup {run[w].tag}
             with == [paperless EXCEPT ![baseUrl] = [@ EXCEPT ![r] = set]]
  <1>1. /\ run[w] \in Run /\ paperless \in [Conns -> [Refs -> SUBSET Tags]]
        /\ baseUrl \in Conns
    BY DEF TypeOK
  <1>2. PICK outcome \in {"ok", "retry", "reject"} :
           /\ run' = [run EXCEPT ![w] = [run[w] EXCEPT !.outcome = outcome]]
           /\ paperless' \in {with, paperless}
    BY DEF AssignTag
  <1>3. run' \in [Workers -> Run]
    BY <1>1, <1>2, RunFields, RunWritten
  <1>4. run[w].tag \in Tags
    BY DEF AssignTag, TagsKnown
  <1>5. r \in Refs => set \in SUBSET Tags
    BY <1>1, <1>4
  <1>6. paperless' \in [Conns -> [Refs -> SUBSET Tags]]
    <2> HIDE DEF r, set
    <2>1. [paperless[baseUrl] EXCEPT ![r] = set] \in [Refs -> SUBSET Tags]
      BY <1>1, <1>5
    <2> QED  BY <1>1, <1>2, <2>1
  <1>7. Goto(w, "tagWrite") /\ "tagWrite" \in Labels
    BY DEF AssignTag, Labels
  <1>8. pc' \in [Workers -> Labels]
    BY <1>7, GotoTypes
  <1>9. UNCHANGED <<config, configIds, rows, jobs, unsent, queue, request, baseUrl, archived,
                    spent>>
    BY DEF AssignTag
  <1> QED  BY <1>3, <1>6, <1>8, <1>9 DEF TypeOK

(* The result is written into the document row. *)
LEMMA WriteTaggingTypes == ASSUME TypeOK, NEW w \in Workers, WriteTagging(w) PROVE TypeOK'
  <1> DEFINE d == run[w].row
  <1>1. rows \in [RowIds -> Row]
    BY DEF TypeOK
  <1>2. PICK s \in {"APPLIED", "PENDING", "FAILED"} : rows' = [rows EXCEPT ![d].tagging = s]
    BY DEF WriteTagging
  <1>3. rows' \in [RowIds -> Row]
    BY <1>1, <1>2, RowFields
  <1>4. Goto(w, "tagDone") /\ "tagDone" \in Labels
    BY DEF WriteTagging, Labels
  <1>5. pc' \in [Workers -> Labels]
    BY <1>4, GotoTypes
  <1>6. UNCHANGED <<config, configIds, jobs, unsent, queue, run, request, paperless, baseUrl,
                    archived, spent>>
    BY DEF WriteTagging
  <1> QED  BY <1>3, <1>5, <1>6 DEF TypeOK

(* The TAG_DOCUMENT row is settled. *)
LEMMA FinishTagJobTypes == ASSUME TypeOK, NEW w \in Workers, FinishTagJob(w) PROVE TypeOK'
  <1> DEFINE j == run[w].job
  <1>1. /\ Finish(w)
        /\ \/ jobs' = [jobs EXCEPT ![j].status = "COMPLETED"]
           \/ RetryOrFail(j, run[w].retries)
           \/ jobs' = [jobs EXCEPT ![j].status = "FAILED"]
    BY DEF FinishTagJob
  <1>2. jobs' \in [JobIds -> Job]
    <2>1. CASE jobs' = [jobs EXCEPT ![j].status = "COMPLETED"]
      BY <2>1, StatusWritten
    <2>2. CASE RetryOrFail(j, run[w].retries)
      BY <2>2, RetryOrFailTypes
    <2>3. CASE jobs' = [jobs EXCEPT ![j].status = "FAILED"]
      BY <2>3, StatusWritten
    <2> QED  BY <1>1, <2>1, <2>2, <2>3
  <1>3. pc' \in [Workers -> Labels] /\ run' \in [Workers -> Run]
    BY <1>1, FinishTypes
  <1>4. UNCHANGED <<config, configIds, rows, unsent, queue, request, paperless, baseUrl,
                    archived, spent>>
    BY DEF FinishTagJob
  <1> QED  BY <1>2, <1>3, <1>4 DEF TypeOK

(* The tick pushes rows again and may decide for a sync. *)
LEMMA TickTypes == ASSUME TypeOK, NEW w \in Workers, Tick(w) PROVE TypeOK'
  <1>1. config \in Config /\ run \in [Workers -> Run] /\ pc \in [Workers -> Labels]
    BY DEF TypeOK
  <1>2. queue' = Enqueued({j \in JobIds : jobs[j].status = "PENDING"})
    BY DEF Tick
  <1>3. queue' \subseteq JobIds
    BY <1>2, EnqueuedTypes
  <1>4. \/ /\ run' = [run EXCEPT ![w] = [run[w] EXCEPT !.version = config.version]]
           /\ Goto(w, "schedule")
        \/ UNCHANGED <<run, pc>>
    BY DEF Tick
  <1>5. run' \in [Workers -> Run]
    <2>1. run[w] \in Run /\ config.version \in 0..MaxVersion
      BY <1>1, ConfigFields
    <2>2. [run[w] EXCEPT !.version = config.version] \in Run
      BY <2>1, RunFields
    <2> QED  BY <1>1, <1>4, <2>2, RunWritten
  <1>6. pc' \in [Workers -> Labels]
    BY <1>1, <1>4, GotoTypes DEF Labels
  <1>7. UNCHANGED <<config, configIds, rows, jobs, unsent, request, paperless, baseUrl,
                    archived, spent>>
    BY DEF Tick
  <1> QED  BY <1>3, <1>5, <1>6, <1>7 DEF TypeOK

(* The insert of the tick. *)
LEMMA ScheduleSyncTypes == ASSUME TypeOK, NEW w \in Workers, ScheduleSync(w) PROVE TypeOK'
  <1>1. run[w] \in Run /\ jobs \in [JobIds -> Job] /\ queue \subseteq JobIds
    BY DEF TypeOK
  <1>2. PICK j \in JobIds, sent \in BOOLEAN :
           /\ jobs' = [jobs EXCEPT ![j] = SyncJob(run[w].version)]
           /\ queue' = IF sent THEN Enqueued({j}) ELSE queue
    BY DEF ScheduleSync
  <1>3. SyncJob(run[w].version) \in Job
    BY <1>1, RunFields, SyncJobType
  <1>4. jobs' \in [JobIds -> Job] /\ queue' \subseteq JobIds
    BY <1>1, <1>2, <1>3, EnqueuedTypes
  <1>5. Finish(w)
    BY DEF ScheduleSync
  <1>6. pc' \in [Workers -> Labels] /\ run' \in [Workers -> Run]
    BY <1>5, FinishTypes
  <1>7. UNCHANGED <<config, configIds, rows, unsent, request, paperless, baseUrl, archived,
                    spent>>
    BY DEF ScheduleSync
  <1> QED  BY <1>4, <1>6, <1>7 DEF TypeOK

(* The database refuses an insert. *)
LEMMA RefuseInsertTypes == ASSUME TypeOK, NEW w \in Workers, RefuseInsert(w) PROVE TypeOK'
  <1>1. Finish(w)
    BY DEF RefuseInsert
  <1>2. pc' \in [Workers -> Labels] /\ run' \in [Workers -> Run]
    BY <1>1, FinishTypes
  <1>3. UNCHANGED <<config, configIds, rows, jobs, unsent, queue, request, paperless, baseUrl,
                    archived, spent>>
    BY DEF RefuseInsert
  <1> QED  BY <1>2, <1>3 DEF TypeOK

-----------------------------------------------------------------------------
(* The environment.                                                        *)

(* The configuration is due. *)
LEMMA IntervalElapsesTypes == ASSUME TypeOK, IntervalElapses PROVE TypeOK'
  <1>1. config \in Config /\ config' = [config EXCEPT !.due = TRUE]
    BY DEF TypeOK, IntervalElapses
  <1>2. config' \in Config
    BY <1>1, ConfigFields
  <1>3. UNCHANGED <<configIds, rows, jobs, unsent, queue, pc, run, request, paperless,
                    baseUrl, archived, spent>>
    BY DEF IntervalElapses
  <1> QED  BY <1>2, <1>3 DEF TypeOK

(* A tag is set or cleared in Paperless. *)
LEMMA RetagTypes ==
  ASSUME TypeOK, NEW c \in Conns, NEW r \in Refs, NEW t \in Tags, Retag(c, r, t) PROVE TypeOK'
  <1>1. paperless \in [Conns -> [Refs -> SUBSET Tags]]
    BY DEF TypeOK
  <1>2. PICK set \in SUBSET Tags : paperless' = [paperless EXCEPT ![c] = [@ EXCEPT ![r] = set]]
    <2>1. paperless' = [paperless EXCEPT ![c] = [@ EXCEPT
             ![r] = IF t \in paperless[c][r] THEN paperless[c][r] \ {t}
                                             ELSE paperless[c][r] \cup {t}]]
      BY DEF Retag
    <2>2. paperless[c][r] \in SUBSET Tags
      BY <1>1
    <2> QED  BY <2>1, <2>2
  <1>3. [paperless[c] EXCEPT ![r] = set] \in [Refs -> SUBSET Tags]
    BY <1>1
  <1>4. paperless' \in [Conns -> [Refs -> SUBSET Tags]]
    BY <1>1, <1>2, <1>3
  <1>5. Spend("retag", MaxRetags)
    BY DEF Retag
  <1>6. spent' \in [{"call", "retag", "repoint", "archive", "exception", "crash"} -> Nat]
    BY <1>5, SpendTypes
  <1>7. UNCHANGED <<config, configIds, rows, jobs, unsent, queue, pc, run, request, baseUrl,
                    archived>>
    BY DEF Retag
  <1> QED  BY <1>4, <1>6, <1>7 DEF TypeOK

(* The base URL changes. *)
LEMMA RepointTypes == ASSUME TypeOK, NEW c \in Conns, Repoint(c) PROVE TypeOK'
  <1>1. baseUrl' \in Conns
    BY DEF Repoint
  <1>2. Spend("repoint", MaxRepoints)
    BY DEF Repoint
  <1>3. spent' \in [{"call", "retag", "repoint", "archive", "exception", "crash"} -> Nat]
    BY <1>2, SpendTypes
  <1>4. UNCHANGED <<config, configIds, rows, jobs, unsent, queue, pc, run, request, paperless,
                    archived>>
    BY DEF Repoint
  <1> QED  BY <1>1, <1>3, <1>4 DEF TypeOK

(* The policy is archived. *)
LEMMA ArchivePolicyTypes == ASSUME TypeOK, ArchivePolicy PROVE TypeOK'
  <1>1. archived' \in BOOLEAN
    BY DEF ArchivePolicy
  <1>2. Spend("archive", MaxArchives)
    BY DEF ArchivePolicy
  <1>3. spent' \in [{"call", "retag", "repoint", "archive", "exception", "crash"} -> Nat]
    BY <1>2, SpendTypes
  <1>4. UNCHANGED <<config, configIds, rows, jobs, unsent, queue, pc, run, request, paperless,
                    baseUrl>>
    BY DEF ArchivePolicy
  <1> QED  BY <1>1, <1>3, <1>4 DEF TypeOK

(* A settled row frees its place. *)
LEMMA ForgetTypes == ASSUME TypeOK, NEW j \in JobIds, Forget(j) PROVE TypeOK'
  <1>1. jobs \in [JobIds -> Job] /\ unsent \subseteq JobIds
    BY DEF TypeOK
  <1>2. jobs' = [jobs EXCEPT ![j] = NoJob] /\ unsent' = unsent \ {j}
    BY DEF Forget
  <1>3. jobs' \in [JobIds -> Job] /\ unsent' \subseteq JobIds
    BY <1>1, <1>2, Constructors
  <1>4. UNCHANGED <<config, configIds, rows, queue, pc, run, request, paperless, baseUrl,
                    archived, spent>>
    BY DEF Forget
  <1> QED  BY <1>3, <1>4 DEF TypeOK

(* An exception ends the run. *)
LEMMA ThrowTypes == ASSUME TypeOK, NEW w \in Workers, Throw(w) PROVE TypeOK'
  <1>1. Finish(w) /\ Spend("exception", MaxExceptions)
    BY DEF Throw
  <1>2. /\ pc' \in [Workers -> Labels] /\ run' \in [Workers -> Run]
        /\ spent' \in [{"call", "retag", "repoint", "archive", "exception", "crash"} -> Nat]
    BY <1>1, FinishTypes, SpendTypes
  <1>3. UNCHANGED <<config, configIds, rows, jobs, unsent, queue, request, paperless, baseUrl,
                    archived>>
    BY DEF Throw
  <1> QED  BY <1>2, <1>3 DEF TypeOK

(* The process dies, and its row is queued again. *)
LEMMA CrashTypes == ASSUME TypeOK, NEW w \in Workers, Crash(w) PROVE TypeOK'
  <1>1. Finish(w) /\ Spend("crash", MaxCrashes)
    BY DEF Crash
  <1>2. /\ pc' \in [Workers -> Labels] /\ run' \in [Workers -> Run]
        /\ spent' \in [{"call", "retag", "repoint", "archive", "exception", "crash"} -> Nat]
    BY <1>1, FinishTypes, SpendTypes
  <1>3. queue \subseteq JobIds /\ run[w] \in Run
    BY DEF TypeOK
  <1>4. run[w].job \in 0..MaxJobs
    BY <1>3, RunFields
  <1>5. {run[w].job} \ {0} \subseteq JobIds
    BY <1>4, BoundsAssumption DEF JobIds
  <1>6. queue' = queue \/ queue' = queue \cup ({run[w].job} \ {0})
    BY DEF Crash
  <1>7. queue' \subseteq JobIds
    BY <1>3, <1>5, <1>6
  <1>8. UNCHANGED <<config, configIds, rows, jobs, unsent, request, paperless, baseUrl,
                    archived>>
    BY DEF Crash
  <1> QED  BY <1>2, <1>7, <1>8 DEF TypeOK

-----------------------------------------------------------------------------

(* The initial states are well typed. *)
LEMMA InitTypes == Init => TypeOK
  <1> SUFFICES ASSUME Init PROVE TypeOK
    OBVIOUS
  <1>1. config \in Config /\ configIds \in 0..MaxConfigs
    BY Constructors, BoundsAssumption DEF Init
  <1>2. rows \in [RowIds -> Row] /\ jobs \in [JobIds -> Job]
    BY Constructors DEF Init
  <1>3. pc \in [Workers -> Labels] /\ run \in [Workers -> Run]
    BY Constructors DEF Init, Labels
  <1>4. request \in [Requests -> Request]
    BY Constructors DEF Init
  <1>5. spent \in [{"call", "retag", "repoint", "archive", "exception", "crash"} -> Nat]
    BY DEF Init
  <1>6. /\ unsent \subseteq JobIds /\ queue \subseteq JobIds /\ archived \in BOOLEAN
        /\ baseUrl \in Conns /\ paperless \in [Conns -> [Refs -> SUBSET Tags]]
    BY DEF Init
  <1> QED  BY <1>1, <1>2, <1>3, <1>4, <1>5, <1>6 DEF TypeOK

(* All steps of the API. *)
LEMMA ApiTypes == ASSUME TypeOK, TagsKnown, Api PROVE TypeOK'
  BY SetTagTypes, RemoveTagTypes, RequestTagTypes, SetRequestedTagTypes, RequestSyncTypes,
     CreateRequestedSyncTypes, RequestRetryTypes, CreateRetriesTypes,
     LinkPaperlessDocumentTypes, RemoveDocumentTypes, EnqueueTypes DEF Api

(* All steps of a sync. *)
LEMMA SyncStepTypes == ASSUME TypeOK, NEW w \in Workers, SyncStep(w) PROVE TypeOK'
  BY FetchUnreachableTypes, FetchFailedTypes, FetchTypes, SnapshotTypes, CheckAddTypes,
     CheckDropTypes, AbortSyncTypes, AddTagOriginTypes, DropTagOriginTypes, ActivateTypes,
     CompleteSyncTypes, StartBackfillTypes, CheckBackfillTypes, CreateBackfillTypes
     DEF SyncStep

(* All steps of the workers. *)
LEMMA WorkerTypes ==
  ASSUME TypeOK, TagsKnown, NEW w \in Workers,
         (\E j \in JobIds : Dispatch(w, j)) \/ Proceed(w) \/ Tick(w)
  PROVE TypeOK'
  BY DropSettledTypes, SkipJobTypes, StartJobTypes, MarkRunningTypes, SyncStepTypes,
     AssignTagTypes, WriteTaggingTypes, FinishTagJobTypes, ScheduleSyncTypes,
     RefuseInsertTypes, TickTypes DEF Dispatch, Proceed, TagStep

(* All steps of the environment. *)
LEMMA EnvironmentTypes == ASSUME TypeOK, Environment PROVE TypeOK'
  BY IntervalElapsesTypes, RetagTypes, RepointTypes, ArchivePolicyTypes, ForgetTypes,
     ThrowTypes, CrashTypes DEF Environment

(* Types last, given that configurations and everybody working for one know a tag. *)
LEMMA NextTypes == ASSUME TypeOK, TagsKnown, [Next]_vars PROVE TypeOK'
  <1>1. CASE Next
    BY <1>1, ApiTypes, WorkerTypes, EnvironmentTypes DEF Next
  <1>2. CASE UNCHANGED vars
    BY <1>2 DEF vars, TypeOK
  <1> QED  BY <1>1, <1>2

-----------------------------------------------------------------------------
(* What the version of a job means, and who writes a status.               *)

\* Labels of a worker that holds no job.
Waiting == {"idle", "schedule"}

(* What worker w was started for, against the configuration row of today. *)
RunKnown(w) ==
    /\ run[w].tag \in Tags
    /\ run[w].cfg \in 1..configIds
    /\ HasTag /\ config.id = run[w].cfg =>
          /\ run[w].version <= config.version
          /\ run[w].version = config.version => run[w].tag = config.tag

(* The invariant, in parts. *)
ConfigKnown == HasTag => config.tag \in Tags /\ config.id \in 1..configIds
(* That, for every worker with a job. *)
RunsKnown == \A w \in Workers : IF pc[w] \in Waiting THEN run[w].cfg = 0 ELSE RunKnown(w)
(* A change under way names a tag and a connection. *)
RequestsKnown ==
    \A q \in Requests : request[q].op = "set" =>
        request[q].tag \in Tags /\ request[q].conn \in Conns

(* The inductive invariant. *)
TagInv == ConfigKnown /\ RunsKnown /\ RequestsKnown

(* The invariant gives the typing lemmas what they need. *)
LEMMA TagInvKnown == TagInv => TagsKnown
  BY DEF TagInv, TagsKnown, ConfigKnown, RunsKnown, RequestsKnown, RunKnown, Waiting

(* The invariant is stronger than the property. *)
LEMMA TagInvNames == TypeOK /\ TagInv => VersionNamesTag
  <1> SUFFICES ASSUME TypeOK, TagInv, NEW w \in Workers, SameConfig(w)
               PROVE config.tag = run[w].tag
    BY DEF VersionNamesTag
  <1>1. HasTag /\ config.id = run[w].cfg /\ config.version = run[w].version
    BY DEF SameConfig
  <1>2. config.id \in 1..configIds /\ configIds \in Nat
    BY <1>1, BoundsAssumption DEF TagInv, ConfigKnown, TypeOK
  <1>3. RunKnown(w)
    BY <1>1, <1>2 DEF TagInv, RunsKnown
  <1> QED  BY <1>1, <1>3 DEF RunKnown

-----------------------------------------------------------------------------
(* How workers move.                                                       *)

\* Two runs were started for the same job, version and configuration.
SamePurpose(r, s) ==
    /\ r.job = s.job
    /\ r.version = s.version
    /\ r.retries = s.retries
    /\ r.cfg = s.cfg
    /\ r.tag = s.tag

(* The worker lets its job go. *)
Ends(w) == pc'[w] = "idle" /\ run'[w] = NoRun
(* The worker goes on with what it was started for. *)
Continues(w) ==
    pc[w] \notin Waiting /\ pc'[w] \notin Waiting /\ SamePurpose(run'[w], run[w])
(* The other workers stand still. *)
OthersStay(w) == \A v \in Workers \ {w} : pc'[v] = pc[v] /\ run'[v] = run[v]

(* No step that writes into the run of a worker changes what it is for. *)
LEMMA PurposeKept ==
  ASSUME NEW r \in Run, NEW a, NEW b, NEW c, NEW d, NEW e
  PROVE /\ SamePurpose([r EXCEPT !.remote = a], r)
        /\ SamePurpose([r EXCEPT !.local = a, !.tagged = b, !.manual = c, !.adds = d,
                                 !.todo = e], r)
        /\ SamePurpose([r EXCEPT !.ref = a, !.adds = b], r)
        /\ SamePurpose([r EXCEPT !.row = a, !.todo = b], r)
        /\ SamePurpose([r EXCEPT !.todo = a], r)
        /\ SamePurpose([r EXCEPT !.ref = a], r)
        /\ SamePurpose([r EXCEPT !.row = a], r)
        /\ SamePurpose([r EXCEPT !.outcome = a], r)
        /\ SamePurpose(WithoutCopy(r), r)
        /\ SamePurpose(r, r)
  <1>1. SamePurpose([r EXCEPT !.remote = a], r)
    BY DEF Run, SamePurpose
  <1>2. SamePurpose([r EXCEPT !.local = a, !.tagged = b, !.manual = c, !.adds = d,
                              !.todo = e], r)
    BY DEF Run, SamePurpose
  <1>3. SamePurpose([r EXCEPT !.ref = a, !.adds = b], r)
    BY DEF Run, SamePurpose
  <1>4. SamePurpose([r EXCEPT !.row = a, !.todo = b], r)
    BY DEF Run, SamePurpose
  <1>5. SamePurpose([r EXCEPT !.todo = a], r)
    BY DEF Run, SamePurpose
  <1>6. SamePurpose([r EXCEPT !.ref = a], r) /\ SamePurpose([r EXCEPT !.row = a], r)
    BY DEF Run, SamePurpose
  <1>7. SamePurpose([r EXCEPT !.outcome = a], r)
    BY DEF Run, SamePurpose
  <1>8. SamePurpose(WithoutCopy(r), r)
    BY DEF Run, SamePurpose, WithoutCopy
  <1>9. SamePurpose(r, r)
    BY DEF SamePurpose
  <1> QED  BY <1>1, <1>2, <1>3, <1>4, <1>5, <1>6, <1>7, <1>8, <1>9

(* A worker that finishes is idle and holds nothing; the others stay. *)
LEMMA FinishMoves ==
  ASSUME TypeOK, NEW w \in Workers, Finish(w) PROVE Ends(w) /\ OthersStay(w)
  <1>1. pc' = [pc EXCEPT ![w] = "idle"] /\ run' = [run EXCEPT ![w] = NoRun]
    BY DEF Finish, Goto
  <1> QED  BY <1>1 DEF TypeOK, Ends, OthersStay

(* A worker that goes on goes on with the same job; the others stay. *)
LEMMA GoesOn ==
  ASSUME TypeOK, NEW w \in Workers, NEW l, pc[w] \notin Waiting, l \notin Waiting, Goto(w, l),
         NEW r, run' = [run EXCEPT ![w] = r], SamePurpose(r, run[w])
  PROVE Continues(w) /\ OthersStay(w)
  <1>1. pc' = [pc EXCEPT ![w] = l]
    BY DEF Goto
  <1>2. pc'[w] = l /\ run'[w] = r
    BY <1>1 DEF TypeOK
  <1>3. OthersStay(w)
    BY <1>1 DEF TypeOK, OthersStay
  <1> QED  BY <1>2, <1>3 DEF Continues

(* The same for a step that writes nothing into the run. *)
LEMMA GoesOnUnchanged ==
  ASSUME TypeOK, NEW w \in Workers, NEW l, pc[w] \notin Waiting, l \notin Waiting, Goto(w, l),
         UNCHANGED run
  PROVE Continues(w) /\ OthersStay(w)
  <1>1. run' = [run EXCEPT ![w] = run[w]]
    BY DEF TypeOK
  <1>2. SamePurpose(run[w], run[w])
    BY DEF SamePurpose
  <1> QED  BY <1>1, <1>2, GoesOn

(* Between the loops of reconcileAssignments a worker holds its job. *)
LEMMA SyncLabelHolds ==
  ASSUME NEW adds, NEW drops PROVE SyncLabel(adds, drops) \notin Waiting
  BY DEF SyncLabel, Waiting

\* A worker that holds a job or is about to create one goes on with it or ends.
Moves(w) == OthersStay(w) /\ (Ends(w) \/ Continues(w))

(* Every step of a sync keeps what the run is for, or ends it. *)
LEMMA SyncStepMoves == ASSUME TypeOK, NEW w \in Workers, SyncStep(w) PROVE Moves(w)
  <1>1. run[w] \in Run
    BY DEF TypeOK
  <1>2. ASSUME Finish(w) PROVE Moves(w)
    BY <1>2, FinishMoves DEF Moves
  <1>3. CASE FetchUnreachable(w) \/ FetchRejected(w) \/ FetchIncomplete(w) \/ AbortSync(w)
    <2>1. Finish(w)
      BY <1>3 DEF FetchUnreachable, FetchRejected, FetchIncomplete, AbortSync
    <2> QED  BY <1>2, <2>1
  <1>4. CASE Fetch(w)
    <2>1. PICK a : run' = [run EXCEPT ![w] = [run[w] EXCEPT !.remote = a]]
      BY <1>4 DEF Fetch
    <2>2. pc[w] \notin Waiting /\ "snapshot" \notin Waiting /\ Goto(w, "snapshot")
      BY <1>4 DEF Fetch, Waiting
    <2> QED  BY <1>1, <2>1, <2>2, PurposeKept, GoesOn DEF Moves
  <1>5. CASE Snapshot(w)
    <2> DEFINE local == {d \in RowIds : Live(d)}
               tagged == {d \in local : rows[d].tag}
               manual == {d \in local : rows[d].manual}
               drops == {d \in tagged : rows[d].ref \notin run[w].remote}
               copy == [run[w] EXCEPT !.local = local, !.tagged = tagged, !.manual = manual,
                                      !.adds = run[w].remote, !.todo = drops]
    <2>1. \/ run' = [run EXCEPT ![w] = run[w]]
          \/ run' = [run EXCEPT ![w] = copy]
      BY <1>5 DEF Snapshot
    <2>2. Goto(w, SyncLabel(run[w].remote, drops)) /\ pc[w] \notin Waiting
      BY <1>5 DEF Snapshot, Waiting
    <2> HIDE DEF local, tagged, manual, drops
    <2>3. SamePurpose(copy, run[w]) /\ SamePurpose(run[w], run[w])
      BY <1>1, PurposeKept
    <2>4. SyncLabel(run[w].remote, drops) \notin Waiting
      BY SyncLabelHolds
    <2> HIDE DEF copy
    <2> QED  BY <2>1, <2>2, <2>3, <2>4, GoesOn DEF Moves
  <1>6. CASE CheckAdd(w)
    <2>1. PICK a, b : run' = [run EXCEPT ![w] = [run[w] EXCEPT !.ref = a, !.adds = b]]
      BY <1>6 DEF CheckAdd, TypeOK
    <2>2. pc[w] \notin Waiting /\ "addWrite" \notin Waiting /\ Goto(w, "addWrite")
      BY <1>6 DEF CheckAdd, Waiting
    <2> QED  BY <1>1, <2>1, <2>2, PurposeKept, GoesOn DEF Moves
  <1>7. CASE CheckDrop(w)
    <2>1. PICK a, b : run' = [run EXCEPT ![w] = [run[w] EXCEPT !.row = a, !.todo = b]]
      BY <1>7 DEF CheckDrop, TypeOK
    <2>2. pc[w] \notin Waiting /\ "dropWrite" \notin Waiting /\ Goto(w, "dropWrite")
      BY <1>7 DEF CheckDrop, Waiting
    <2> QED  BY <1>1, <2>1, <2>2, PurposeKept, GoesOn DEF Moves
  <1>8. CASE AddTagOrigin(w)
    <2>1. PICK r \in {WithoutCopy(run[w]), [run[w] EXCEPT !.ref = None]} :
             run' = [run EXCEPT ![w] = r]
      BY <1>8 DEF AddTagOrigin
    <2>2. SamePurpose(r, run[w])
      BY <1>1, <2>1, PurposeKept
    <2>3. pc[w] \notin Waiting /\ \E l : Goto(w, l) /\ l \notin Waiting
      BY <1>8, SyncLabelHolds DEF AddTagOrigin, Waiting
    <2> QED  BY <2>1, <2>2, <2>3, GoesOn DEF Moves
  <1>9. CASE DropTagOrigin(w)
    <2>1. PICK r \in {WithoutCopy(run[w]), [run[w] EXCEPT !.row = 0]} :
             run' = [run EXCEPT ![w] = r]
      BY <1>9 DEF DropTagOrigin
    <2>2. SamePurpose(r, run[w])
      BY <1>1, <2>1, PurposeKept
    <2>3. pc[w] \notin Waiting /\ \E l : Goto(w, l) /\ l \notin Waiting
      BY <1>9, SyncLabelHolds DEF DropTagOrigin, Waiting
    <2> QED  BY <2>1, <2>2, <2>3, GoesOn DEF Moves
  <1>10. CASE Activate(w)
    <2>1. /\ pc[w] \notin Waiting /\ "complete" \notin Waiting /\ Goto(w, "complete")
          /\ UNCHANGED run
      BY <1>10 DEF Activate, Waiting
    <2> QED  BY <2>1, GoesOnUnchanged DEF Moves
  <1>11. CASE CompleteSync(w)
    <2>1. PICK a : run' = [run EXCEPT ![w] = [run[w] EXCEPT !.remote = a]]
      BY <1>11 DEF CompleteSync
    <2>2. pc[w] \notin Waiting /\ "backfill" \notin Waiting /\ Goto(w, "backfill")
      BY <1>11 DEF CompleteSync, Waiting
    <2> QED  BY <1>1, <2>1, <2>2, PurposeKept, GoesOn DEF Moves
  <1>12. CASE StartBackfill(w)
    <2>1. \/ Finish(w)
          \/ \E a : /\ run' = [run EXCEPT ![w] = [run[w] EXCEPT !.todo = a]]
                    /\ Goto(w, "backfillCheck")
      BY <1>12 DEF StartBackfill
    <2>2. pc[w] \notin Waiting /\ "backfillCheck" \notin Waiting
      BY <1>12 DEF StartBackfill, Waiting
    <2> QED  BY <1>1, <1>2, <2>1, <2>2, PurposeKept, GoesOn DEF Moves
  <1>13. CASE CheckBackfill(w)
    <2>1. pc[w] = "backfillCheck"
      BY <1>13 DEF CheckBackfill
    <2>2. \/ Finish(w)
          \/ \E a, b : /\ run' = [run EXCEPT ![w] = [run[w] EXCEPT !.row = a, !.todo = b]]
                       /\ Goto(w, "backfillWrite")
          \/ \E a : /\ run' = [run EXCEPT ![w] = [run[w] EXCEPT !.todo = a]]
                    /\ UNCHANGED pc
      BY <1>13 DEF CheckBackfill, TypeOK
    <2>3. UNCHANGED pc => Goto(w, "backfillCheck")
      BY <2>1 DEF Goto, TypeOK
    <2>4. pc[w] \notin Waiting /\ "backfillCheck" \notin Waiting /\ "backfillWrite" \notin Waiting
      BY <2>1 DEF Waiting
    <2>5. CASE \E a, b : /\ run' = [run EXCEPT ![w] = [run[w] EXCEPT !.row = a, !.todo = b]]
                         /\ Goto(w, "backfillWrite")
      BY <1>1, <2>4, <2>5, PurposeKept, GoesOn DEF Moves
    <2>6. CASE \E a : /\ run' = [run EXCEPT ![w] = [run[w] EXCEPT !.todo = a]]
                      /\ UNCHANGED pc
      BY <1>1, <2>3, <2>4, <2>6, PurposeKept, GoesOn DEF Moves
    <2> QED  BY <1>2, <2>2, <2>5, <2>6
  <1>14. CASE CreateBackfill(w)
    <2>1. \/ Finish(w)
          \/ Goto(w, "backfillCheck") /\ run' = [run EXCEPT ![w] = [run[w] EXCEPT !.row = 0]]
      BY <1>14 DEF CreateBackfill
    <2>2. pc[w] \notin Waiting /\ "backfillCheck" \notin Waiting
      BY <1>14 DEF CreateBackfill, Waiting
    <2> QED  BY <1>1, <1>2, <2>1, <2>2, PurposeKept, GoesOn DEF Moves
  <1> QED
    BY <1>3, <1>4, <1>5, <1>6, <1>7, <1>8, <1>9, <1>10, <1>11, <1>12, <1>13, <1>14
       DEF SyncStep

(* Every step of an assignment keeps what the run is for, or ends it. *)
LEMMA TagStepMoves == ASSUME TypeOK, NEW w \in Workers, TagStep(w) PROVE Moves(w)
  <1>1. run[w] \in Run
    BY DEF TypeOK
  <1>2. CASE AssignTag(w)
    <2>1. PICK a : run' = [run EXCEPT ![w] = [run[w] EXCEPT !.outcome = a]]
      BY <1>2 DEF AssignTag
    <2>2. pc[w] \notin Waiting /\ "tagWrite" \notin Waiting /\ Goto(w, "tagWrite")
      BY <1>2 DEF AssignTag, Waiting
    <2> QED  BY <1>1, <2>1, <2>2, PurposeKept, GoesOn DEF Moves
  <1>3. CASE WriteTagging(w)
    <2>1. /\ pc[w] \notin Waiting /\ "tagDone" \notin Waiting /\ Goto(w, "tagDone")
          /\ UNCHANGED run
      BY <1>3 DEF WriteTagging, Waiting
    <2> QED  BY <2>1, GoesOnUnchanged DEF Moves
  <1>4. CASE FinishTagJob(w)
    <2>1. Finish(w)
      BY <1>4 DEF FinishTagJob
    <2> QED  BY <2>1, FinishMoves DEF Moves
  <1> QED  BY <1>2, <1>3, <1>4 DEF TagStep

(* Every step of a worker that is not idle leaves the others alone and keeps *)
(* what the worker works for, or ends its run.                               *)
LEMMA ProceedMoves == ASSUME TypeOK, NEW w \in Workers, Proceed(w) PROVE Moves(w)
  <1>1. CASE MarkRunning(w)
    <2>1. PICK l \in {"fetch", "assign"} : Goto(w, l)
      BY <1>1 DEF MarkRunning
    <2>2. pc[w] \notin Waiting /\ l \notin Waiting /\ UNCHANGED run
      BY <1>1, <2>1 DEF MarkRunning, Waiting
    <2> QED  BY <2>1, <2>2, GoesOnUnchanged DEF Moves
  <1>2. CASE ScheduleSync(w) \/ RefuseInsert(w)
    <2>1. Finish(w)
      BY <1>2 DEF ScheduleSync, RefuseInsert
    <2> QED  BY <2>1, FinishMoves DEF Moves
  <1> QED  BY <1>1, <1>2, SyncStepMoves, TagStepMoves DEF Proceed

\* A configuration row that still is the same row with the same version and tag.
SameTag == /\ config'.id = config.id
           /\ config'.version = config.version
           /\ config'.tag = config.tag
           /\ configIds' = configIds

(* Writing status or due date of the configuration keeps what it names. *)
LEMMA StatusKeepsTag ==
  ASSUME TypeOK, UNCHANGED configIds,
         \/ UNCHANGED config
         \/ \E s : config' = [config EXCEPT !.status = s]
         \/ \E s : config' = [config EXCEPT !.due = s]
         \/ \E s, d : config' = [config EXCEPT !.status = s, !.due = d]
  PROVE SameTag
  BY DEF TypeOK, Config, SameTag

(* No step of a worker that is not idle changes id, version or tag of the row. *)
LEMMA ProceedKeepsTag ==
  ASSUME TypeOK, NEW w \in Workers, Proceed(w) PROVE SameTag /\ UNCHANGED request
  <1>1. UNCHANGED <<configIds, request>>
    BY DEF Proceed, SyncStep, TagStep, MarkRunning, FetchUnreachable, FetchRejected,
           FetchIncomplete, Fetch, Snapshot, CheckAdd, CheckDrop, AbortSync, AddTagOrigin,
           DropTagOrigin, Activate, CompleteSync, StartBackfill, CheckBackfill,
           CreateBackfill, AssignTag, WriteTagging, FinishTagJob, ScheduleSync, RefuseInsert
  <1>2. \/ UNCHANGED config
        \/ \E s : config' = [config EXCEPT !.status = s]
        \/ \E s, d : config' = [config EXCEPT !.status = s, !.due = d]
    BY DEF Proceed, SyncStep, TagStep, MarkRunning, FetchUnreachable, FetchRejected,
           FetchIncomplete, Fetch, Snapshot, CheckAdd, CheckDrop, AbortSync, AddTagOrigin,
           DropTagOrigin, Activate, CompleteSync, StartBackfill, CheckBackfill,
           CreateBackfill, AssignTag, WriteTagging, FinishTagJob, ScheduleSync, RefuseInsert,
           GuardedStatus
  <1> QED  BY <1>1, <1>2, StatusKeepsTag

-----------------------------------------------------------------------------
(* The invariant is kept.                                                  *)

(* By worker steps that keep the configuration's tag and the requests. *)
LEMMA MovesKeepTagInv ==
  ASSUME TypeOK, TagInv, SameTag, UNCHANGED request, NEW w \in Workers, Moves(w)
  PROVE TagInv'
  <1>1. ConfigKnown' /\ RequestsKnown'
    BY DEF TagInv, ConfigKnown, RequestsKnown, SameTag, HasTag
  <1>2. ASSUME NEW v \in Workers
        PROVE (IF pc[v] \in Waiting THEN run[v].cfg = 0 ELSE RunKnown(v))'
    <2>1. IF pc[v] \in Waiting THEN run[v].cfg = 0 ELSE RunKnown(v)
      BY DEF TagInv, RunsKnown
    <2>2. CASE pc'[v] = pc[v] /\ run'[v] = run[v]
      BY <2>1, <2>2 DEF RunKnown, SameTag, HasTag
    <2>3. CASE Ends(v)
      BY <2>3 DEF Ends, NoRun, Waiting
    <2>4. CASE Continues(v)
      BY <2>1, <2>4 DEF Continues, SamePurpose, RunKnown, SameTag, HasTag
    <2> QED  BY <2>2, <2>3, <2>4 DEF Moves, OthersStay
  <1> QED  BY <1>1, <1>2 DEF TagInv, RunsKnown

(* By steps that touch neither workers nor what the configuration names. *)
LEMMA StillKeepsTagInv ==
  ASSUME TagInv, SameTag, RequestsKnown', UNCHANGED <<pc, run>> PROVE TagInv'
  BY DEF TagInv, ConfigKnown, RunsKnown, RunKnown, SameTag, HasTag

(* setTag: a higher version on the old row, or version 1 on a row with a new id. *)
LEMMA ChangeTagKeepsTagInv ==
  ASSUME TypeOK, TagInv, NEW t \in Tags, NEW c \in Conns, ChangeTag(t, c), RequestsKnown'
  PROVE TagInv'
  <1>1. config \in Config /\ configIds \in Nat /\ run \in [Workers -> Run]
    BY BoundsAssumption DEF TypeOK
  <1>2. UNCHANGED <<pc, run>>
    BY DEF ChangeTag
  <1>3. CASE HasTag
    <2>1. /\ config' = [config EXCEPT !.version = @ + 1, !.tag = t, !.conn = c,
                                      !.status = "PENDING"]
          /\ configIds' = configIds
      BY <1>3 DEF ChangeTag, ChangedConfig
    <2>2. config.version \in Nat
      <3>1. config.version \in 0..MaxVersion
        BY <1>1, ConfigFields
      <3> QED  BY <3>1, BoundsAssumption
    <2>3. /\ config'.id = config.id /\ config'.version = config.version + 1
          /\ config'.tag = t
      BY <1>1, <2>1 DEF Config
    <2>4. ConfigKnown'
      BY <1>3, <2>1, <2>3 DEF TagInv, ConfigKnown, HasTag
    <2>5. ASSUME NEW w \in Workers, pc[w] \notin Waiting PROVE RunKnown(w)'
      <3>1. RunKnown(w)
        BY <2>5 DEF TagInv, RunsKnown
      <3>2. run[w].version \in Nat
        <4>1. run[w].version \in 0..MaxVersion
          BY <1>1, RunFields
        <4> QED  BY <4>1, BoundsAssumption
      <3> QED  BY <1>2, <1>3, <2>1, <2>2, <2>3, <3>1, <3>2 DEF RunKnown
    <2> QED  BY <1>2, <2>4, <2>5 DEF TagInv, RunsKnown
  <1>4. CASE ~HasTag
    <2>1. /\ config' = [id |-> configIds + 1, version |-> 1, tag |-> t, conn |-> c,
                        status |-> "PENDING", due |-> TRUE]
          /\ configIds' = configIds + 1
      BY <1>4 DEF ChangeTag, ChangedConfig
    <2>2. ConfigKnown'
      BY <1>1, <2>1 DEF ConfigKnown, HasTag
    <2>3. ASSUME NEW w \in Workers, pc[w] \notin Waiting PROVE RunKnown(w)'
      <3>1. RunKnown(w)
        BY <2>3 DEF TagInv, RunsKnown
      <3>2. run[w].cfg \in 1..configIds
        BY <3>1 DEF RunKnown
      <3>3. run[w].cfg \in 1..configIds' /\ run[w].cfg # config'.id
        BY <1>1, <2>1, <3>2
      <3> QED  BY <1>2, <3>1, <3>3 DEF RunKnown
    <2> QED  BY <1>2, <2>2, <2>3 DEF TagInv, RunsKnown
  <1> QED  BY <1>3, <1>4

(* removeTag: no configuration, nothing to compare with. *)
LEMMA RemoveTagKeepsTagInv == ASSUME TypeOK, TagInv, RemoveTag PROVE TagInv'
  <1>1. config' = NoConfig /\ UNCHANGED <<configIds, pc, run, request>>
    BY DEF RemoveTag
  <1>2. ~HasTag'
    BY <1>1 DEF HasTag, NoConfig
  <1> QED  BY <1>1, <1>2 DEF TagInv, ConfigKnown, RunsKnown, RunKnown, RequestsKnown

(* A job is started only for the version of the row, so it reads its tag. *)
LEMMA StartJobKeepsTagInv ==
  ASSUME TypeOK, TagInv, NEW w \in Workers, NEW j \in JobIds, StartJob(w, j) PROVE TagInv'
  <1>1. HasTag /\ config.version = jobs[j].version
    BY DEF StartJob, Outdated
  <1>2. /\ config \in Config /\ UNCHANGED <<config, configIds, request>>
        /\ run \in [Workers -> Run] /\ pc \in [Workers -> Labels]
    BY DEF TypeOK, StartJob
  <1>3. run' = [run EXCEPT ![w] = [NoRun EXCEPT
                  !.job = j, !.version = jobs[j].version, !.retries = jobs[j].retries,
                  !.cfg = config.id, !.tag = config.tag, !.row = jobs[j].row]]
    BY DEF StartJob
  <1>4. /\ run'[w].version = jobs[j].version /\ run'[w].cfg = config.id
        /\ run'[w].tag = config.tag
    BY <1>2, <1>3 DEF NoRun
  <1>5. pc' = [pc EXCEPT ![w] = "mark"]
    BY DEF StartJob, Goto
  <1>6. pc'[w] = "mark" /\ OthersStay(w)
    BY <1>2, <1>3, <1>5 DEF OthersStay
  <1>7. config.version \in Nat
    <2>1. config.version \in 0..MaxVersion
      BY <1>2, ConfigFields
    <2> QED  BY <2>1, BoundsAssumption
  <1>8. RunKnown(w)'
    BY <1>1, <1>2, <1>4, <1>7 DEF TagInv, ConfigKnown, RunKnown
  <1>9. ASSUME NEW v \in Workers \ {w}
        PROVE (IF pc[v] \in Waiting THEN run[v].cfg = 0 ELSE RunKnown(v))'
    BY <1>2, <1>6, <1>9 DEF OthersStay, TagInv, RunsKnown, RunKnown, HasTag
  <1>10. ConfigKnown' /\ RequestsKnown'
    BY <1>2 DEF TagInv, ConfigKnown, RequestsKnown, HasTag
  <1>11. "mark" \notin Waiting
    BY DEF Waiting
  <1> QED  BY <1>6, <1>8, <1>9, <1>10, <1>11 DEF TagInv, RunsKnown

(* The tick reads a version but holds no configuration row. *)
LEMMA TickKeepsTagInv == ASSUME TypeOK, TagInv, NEW w \in Workers, Tick(w) PROVE TagInv'
  <1>1. UNCHANGED <<config, configIds, request>> /\ SameTag
    BY StatusKeepsTag DEF Tick
  <1>2. RequestsKnown'
    BY <1>1 DEF TagInv, RequestsKnown
  <1>3. CASE UNCHANGED <<run, pc>>
    BY <1>1, <1>2, <1>3, StillKeepsTagInv
  <1>4. CASE /\ run' = [run EXCEPT ![w] = [run[w] EXCEPT !.version = config.version]]
             /\ Goto(w, "schedule")
    <2>1. run[w] \in Run /\ pc[w] \in Waiting
      BY DEF TypeOK, Tick, Waiting
    <2>2. pc' = [pc EXCEPT ![w] = "schedule"]
      BY <1>4 DEF Goto
    <2>3. run'[w].cfg = run[w].cfg /\ pc'[w] = "schedule" /\ OthersStay(w)
      BY <1>4, <2>1, <2>2 DEF TypeOK, Run, OthersStay
    <2>4. run[w].cfg = 0
      BY <2>1 DEF TagInv, RunsKnown
    <2>5. ASSUME NEW v \in Workers \ {w}
          PROVE (IF pc[v] \in Waiting THEN run[v].cfg = 0 ELSE RunKnown(v))'
      BY <1>1, <2>3, <2>5 DEF OthersStay, TagInv, RunsKnown, RunKnown, HasTag
    <2>6. ConfigKnown'
      BY <1>1 DEF TagInv, ConfigKnown, HasTag
    <2>7. "schedule" \in Waiting
      BY DEF Waiting
    <2> QED  BY <1>2, <2>3, <2>4, <2>5, <2>6, <2>7 DEF TagInv, RunsKnown
  <1> QED  BY <1>3, <1>4 DEF Tick

(* Initially nothing is configured and nobody works. *)
LEMMA InitTagInv == Init => TagInv
  <1> SUFFICES ASSUME Init PROVE TagInv
    OBVIOUS
  <1>1. ConfigKnown
    BY DEF Init, NoConfig, ConfigKnown, HasTag
  <1>2. RunsKnown
    BY DEF Init, NoRun, RunsKnown, Waiting
  <1>3. RequestsKnown
    BY DEF Init, NoRequest, RequestsKnown
  <1> QED  BY <1>1, <1>2, <1>3 DEF TagInv

(* The invariant is kept by the API. *)
LEMMA ApiKeepsTagInv == ASSUME TypeOK, TagInv, Api PROVE TagInv'
  <1>1. /\ request \in [Requests -> Request] /\ baseUrl \in Conns
        /\ RequestsKnown
    BY DEF TypeOK, TagInv
  <1>2. UNCHANGED request => RequestsKnown'
    BY <1>1 DEF RequestsKnown
  <1>3. ASSUME NEW q \in Requests, NEW r,
               request' = [request EXCEPT ![q] = r],
               r.op = "set" => r.tag \in Tags /\ r.conn \in Conns
        PROVE RequestsKnown'
    BY <1>1, <1>3 DEF RequestsKnown
  <1>4. NoRequest.op # "set"
    BY DEF NoRequest
  <1>5. CASE \E t \in Tags : SetTag(t)
    BY <1>1, <1>2, <1>5, ChangeTagKeepsTagInv DEF SetTag
  <1>6. CASE RemoveTag
    BY <1>6, RemoveTagKeepsTagInv
  <1>7. ASSUME NEW q \in Requests, SetRequestedTag(q) PROVE TagInv'
    <2>1. request[q].tag \in Tags /\ request[q].conn \in Conns
      BY <1>1, <1>7 DEF SetRequestedTag, RequestsKnown
    <2>2. request' = [request EXCEPT ![q] = NoRequest]
      BY <1>7 DEF SetRequestedTag
    <2>3. RequestsKnown'
      BY <1>3, <1>4, <2>2
    <2> QED  BY <1>7, <2>1, <2>3, ChangeTagKeepsTagInv DEF SetRequestedTag
  <1>8. ASSUME NEW q \in Requests, NEW t \in Tags, RequestTag(q, t) PROVE TagInv'
    <2> DEFINE r == [NoRequest EXCEPT !.op = "set", !.tag = t, !.conn = baseUrl]
    <2>1. request' = [request EXCEPT ![q] = r]
      BY <1>8 DEF RequestTag
    <2>2. r.tag = t /\ r.conn = baseUrl
      BY DEF NoRequest
    <2>3. RequestsKnown'
      <3> HIDE DEF r
      <3> QED  BY <1>1, <1>3, <2>1, <2>2
    <2>4. SameTag /\ UNCHANGED <<pc, run>>
      BY <1>8, StatusKeepsTag DEF RequestTag
    <2> QED  BY <2>3, <2>4, StillKeepsTagInv
  <1>9. ASSUME NEW q \in Requests,
               RequestSync(q) \/ CreateRequestedSync(q) \/ RequestRetry(q) \/ CreateRetries(q)
        PROVE TagInv'
    <2>1. \E r : request' = [request EXCEPT ![q] = r] /\ r.op # "set"
      <3>1. CASE CreateRequestedSync(q) \/ CreateRetries(q)
        BY <1>4, <3>1 DEF CreateRequestedSync, CreateRetries
      <3>2. CASE RequestSync(q)
        <4>1. request' = [request EXCEPT ![q] = [NoRequest EXCEPT !.op = "sync",
                                                                !.version = config.version]]
          BY <3>2 DEF RequestSync
        <4>2. [NoRequest EXCEPT !.op = "sync", !.version = config.version].op = "sync"
          BY DEF NoRequest
        <4> QED  BY <4>1, <4>2
      <3>3. CASE RequestRetry(q)
        <4>1. PICK ds : request' = [request EXCEPT ![q] =
                  [NoRequest EXCEPT !.op = "retry", !.rows = ds, !.version = config.version]]
          BY <3>3 DEF RequestRetry
        <4>2. [NoRequest EXCEPT !.op = "retry", !.rows = ds, !.version = config.version].op
                = "retry"
          BY DEF NoRequest
        <4> QED  BY <4>1, <4>2
      <3> QED  BY <1>9, <3>1, <3>2, <3>3
    <2>2. RequestsKnown'
      BY <1>3, <2>1
    <2>3. SameTag /\ UNCHANGED <<pc, run>>
      BY <1>9, StatusKeepsTag
         DEF RequestSync, CreateRequestedSync, RequestRetry, CreateRetries
    <2> QED  BY <2>2, <2>3, StillKeepsTagInv
  <1>10. CASE \/ \E r \in Refs : LinkPaperlessDocument(r)
              \/ \E d \in RowIds : RemoveDocument(d)
              \/ \E j \in JobIds : Enqueue(j)
    <2>1. SameTag /\ UNCHANGED <<pc, run, request>>
      BY <1>10, StatusKeepsTag DEF LinkPaperlessDocument, RemoveDocument, Enqueue
    <2> QED  BY <1>2, <2>1, StillKeepsTagInv
  <1> QED  BY <1>5, <1>6, <1>7, <1>8, <1>9, <1>10 DEF Api

(* The invariant is kept by the workers. *)
LEMMA WorkerKeepsTagInv ==
  ASSUME TypeOK, TagInv, NEW w \in Workers,
         (\E j \in JobIds : Dispatch(w, j)) \/ Proceed(w) \/ Tick(w)
  PROVE TagInv'
  <1>1. RequestsKnown
    BY DEF TagInv
  <1>2. ASSUME NEW j \in JobIds, DropSettled(w, j) \/ SkipJob(w, j) PROVE TagInv'
    <2>1. UNCHANGED <<pc, run, request>> /\ RequestsKnown'
      BY <1>1, <1>2 DEF DropSettled, SkipJob, RequestsKnown
    <2>2. SameTag
      BY <1>2, StatusKeepsTag DEF DropSettled, SkipJob, DriftError
    <2> QED  BY <2>1, <2>2, StillKeepsTagInv
  <1>3. CASE Proceed(w)
    BY <1>3, ProceedMoves, ProceedKeepsTag, MovesKeepTagInv
  <1> QED  BY <1>2, <1>3, StartJobKeepsTagInv, TickKeepsTagInv DEF Dispatch

(* The invariant is kept by the environment. *)
LEMMA EnvironmentKeepsTagInv == ASSUME TypeOK, TagInv, Environment PROVE TagInv'
  <1>1. RequestsKnown
    BY DEF TagInv
  <1>2. CASE IntervalElapses
    <2>1. UNCHANGED <<pc, run, request>> /\ RequestsKnown'
      BY <1>1, <1>2 DEF IntervalElapses, RequestsKnown
    <2>2. SameTag
      BY <1>2, StatusKeepsTag DEF IntervalElapses
    <2> QED  BY <2>1, <2>2, StillKeepsTagInv
  <1>3. CASE \/ \E c \in Conns, r \in Refs, t \in Tags : Retag(c, r, t)
             \/ \E c \in Conns : Repoint(c)
             \/ ArchivePolicy
             \/ \E j \in JobIds : Forget(j)
    <2>1. UNCHANGED <<config, configIds, pc, run, request>>
      BY <1>3 DEF Retag, Repoint, ArchivePolicy, Forget
    <2>2. SameTag /\ RequestsKnown'
      BY <1>1, <2>1, StatusKeepsTag DEF RequestsKnown
    <2> QED  BY <2>1, <2>2, StillKeepsTagInv
  <1>4. ASSUME NEW w \in Workers, Throw(w) \/ Crash(w) PROVE TagInv'
    <2>1. Finish(w) /\ UNCHANGED <<config, configIds, request>>
      BY <1>4 DEF Throw, Crash
    <2>2. Moves(w)
      BY <2>1, FinishMoves DEF Moves
    <2> QED  BY <2>1, <2>2, StatusKeepsTag, MovesKeepTagInv
  <1> QED  BY <1>2, <1>3, <1>4 DEF Environment

(* The invariant is kept by every step. *)
LEMMA NextKeepsTagInv == ASSUME TypeOK, TagInv, [Next]_vars PROVE TagInv'
  <1>1. CASE Next
    BY <1>1, ApiKeepsTagInv, WorkerKeepsTagInv, EnvironmentKeepsTagInv DEF Next
  <1>2. CASE UNCHANGED vars
    BY <1>2 DEF vars, TagInv, ConfigKnown, RunsKnown, RunKnown, RequestsKnown, HasTag
  <1> QED  BY <1>1, <1>2

(* Types and the invariant hold together: setTag's transaction and the     *)
(* assignment in Paperless are well typed because a tag is known.          *)
THEOREM Invariance == Spec => [](TypeOK /\ TagInv)
  <1>1. Init => TypeOK /\ TagInv
    BY InitTypes, InitTagInv
  <1>2. TypeOK /\ TagInv /\ [Next]_vars => (TypeOK /\ TagInv)'
    BY TagInvKnown, NextTypes, NextKeepsTagInv
  <1> QED  BY <1>1, <1>2, PTL DEF Spec

(* Every reachable state is well typed, for any number of documents, tags, *)
(* servers, workers, requests and rows.                                    *)
THEOREM TypeCorrect == Spec => []TypeOK
  BY Invariance, PTL

(* While the row a run started under exists and has the version the run    *)
(* read, the tag of the run is the configured one: comparing versions is   *)
(* enough for handleSyncPolicy as long as no row is deleted.               *)
THEOREM VersionNames == Spec => []VersionNamesTag
  <1>1. TypeOK /\ TagInv => VersionNamesTag
    BY TagInvNames
  <1> QED  BY <1>1, Invariance, PTL

-----------------------------------------------------------------------------
(* Who writes a status.                                                    *)

\* The body of StatusIsOwnTags.
OwnStatus ==
    \A w \in Workers :
        Steps(w) /\ config' # config /\ config.id = run[w].cfg => config.tag = run[w].tag

(* Only the last read of the listing and the activation write the status,  *)
(* and both ask for the version first.                                     *)
LEMMA StatusWriters ==
  ASSUME NEW w \in Workers, Proceed(w), config' # config PROVE VersionCurrent(w)
  BY DEF Proceed, SyncStep, TagStep, MarkRunning, FetchUnreachable, FetchRejected,
         FetchIncomplete, Fetch, Snapshot, CheckAdd, CheckDrop, AbortSync, AddTagOrigin,
         DropTagOrigin, Activate, CompleteSync, StartBackfill, CheckBackfill,
         CreateBackfill, AssignTag, WriteTagging, FinishTagJob, ScheduleSync, RefuseInsert,
         GuardedStatus

(* A step of a working worker that writes a status compared the version first. *)
LEMMA NextOwnStatus == ASSUME TypeOK, TagInv, [Next]_vars PROVE OwnStatus
  <1> SUFFICES ASSUME NEW w \in Workers, Steps(w), config' # config,
                      config.id = run[w].cfg
               PROVE config.tag = run[w].tag
    BY DEF OwnStatus
  <1>1. pc[w] # "idle" /\ ~(pc'[w] = pc[w] /\ run'[w] = run[w])
    BY DEF Steps
  <1>2. ~UNCHANGED <<pc, run>>
    BY <1>1
  <1>3. ~UNCHANGED config
    OBVIOUS
  <1>4. ~Api
    BY <1>2 DEF Api, SetTag, ChangeTag, RemoveTag, RequestTag, SetRequestedTag, RequestSync,
                CreateRequestedSync, RequestRetry, CreateRetries, LinkPaperlessDocument,
                RemoveDocument, Enqueue
  <1>5. ~Environment
    BY <1>2, <1>3 DEF Environment, IntervalElapses, Retag, Repoint, ArchivePolicy, Forget,
                      Throw, Crash
  <1>6. ASSUME NEW v \in Workers, \/ \E j \in JobIds : Dispatch(v, j)
                                  \/ Tick(v)
        PROVE FALSE
    BY <1>2, <1>3, <1>6 DEF Dispatch, DropSettled, SkipJob, StartJob, Tick
  <1>7. PICK v \in Workers : Proceed(v)
    BY <1>2, <1>4, <1>5, <1>6 DEF Next, vars
  <1>8. v = w
    BY <1>1, <1>7, ProceedMoves DEF Moves, OthersStay
  <1>9. SameConfig(w)
    BY <1>7, <1>8, StatusWriters DEF SameConfig, VersionCurrent
  <1> QED  BY <1>9, TagInvNames DEF VersionNamesTag

(* A run never writes ACTIVE or ERROR onto a tag it does not work for, as  *)
(* long as the row it started under was not deleted: the version guard of  *)
(* the updateMany calls is sound for rows that live on.                    *)
THEOREM OwnStatusOnly == Spec => StatusIsOwnTags
  <1>1. TypeOK /\ TagInv /\ [Next]_vars => OwnStatus
    BY NextOwnStatus
  <1>2. (OwnStatus)
         => \A w \in Workers :
               Steps(w) /\ config' # config /\ config.id = run[w].cfg => config.tag = run[w].tag
    BY DEF OwnStatus
  <1> QED  BY <1>1, <1>2, Invariance, PTL DEF Spec, StatusIsOwnTags

-----------------------------------------------------------------------------
(* What steps do to document rows.                                         *)

\* The user changes a row, or creates one.
UserRow(x, y) ==
  \/ /\ y.ref = x.ref /\ y.tag = x.tag
     /\ y.state # x.state => x.state = "live" /\ y.state = "archived"
  \/ x.state = "absent" /\ y.state = "live" /\ ~y.tag /\ y.ref \in Refs

\* Whoever changes it, a row that is there stays and keeps its document.
SameDocument(x, y) ==
  /\ x.state # "absent" => y.state # "absent" /\ y.ref = x.ref
  /\ x.state = "absent" /\ y.state # "absent" => y.ref \in Refs
  /\ y.state = "absent" => (y.tag => x.tag)

(* Every row changes as a user changes it. *)
RowsByUsers == \A d \in RowIds : UserRow(rows[d], rows'[d])
(* Every row stays the row of its document. *)
RowsTraceable == \A d \in RowIds : SameDocument(rows[d], rows'[d])

(* One row gets the value y, the others stay. *)
LEMMA OneRowByUser ==
  ASSUME TypeOK, NEW d, NEW y, rows' = [rows EXCEPT ![d] = y], d \in RowIds => UserRow(rows[d], y)
  PROVE  RowsByUsers
  BY DEF TypeOK, RowsByUsers, UserRow

(* Writing the tagging status. *)
LEMMA TaggingIsUsers ==
  ASSUME NEW x \in Row, NEW v PROVE UserRow(x, [x EXCEPT !.tagging = v])
  BY DEF Row, UserRow

(* Writing the manual origin. *)
LEMMA ManualIsUsers ==
  ASSUME NEW x \in Row, NEW v PROVE UserRow(x, [x EXCEPT !.manual = v])
  BY DEF Row, UserRow

(* Writing both. *)
LEMMA ManualLinkIsUsers ==
  ASSUME NEW x \in Row, NEW v, NEW u PROVE UserRow(x, [x EXCEPT !.manual = v, !.tagging = u])
  BY DEF Row, UserRow

(* Archiving a live row. *)
LEMMA HidingIsUsers ==
  ASSUME NEW x \in Row, x.state = "live" PROVE UserRow(x, [x EXCEPT !.state = "archived"])
  BY DEF Row, UserRow

(* A link that the user makes anew. *)
LEMMA NewLinkIsUsers ==
  ASSUME NEW x, x.state = "absent", NEW r \in Refs, NEW v, NEW u
  PROVE  /\ UserRow(x, [[NoRow EXCEPT !.state = "live", !.ref = r] EXCEPT !.manual = v])
         /\ UserRow(x, [[NoRow EXCEPT !.state = "live", !.ref = r]
                          EXCEPT !.manual = v, !.tagging = u])
  BY DEF NoRow, UserRow

(* Linking a document creates a row without the automatic origin, or adds  *)
(* the manual one to a row that is there.                                  *)
LEMMA LinkByUser ==
  ASSUME TypeOK, NEW r \in Refs, LinkPaperlessDocument(r) PROVE RowsByUsers
  <1>1. PICK d \in RowIds :
           \/ ApplyManualLinkOrigin(d, rows[d])
           \/ /\ FreshRow(d)
              /\ ApplyManualLinkOrigin(d, [NoRow EXCEPT !.state = "live", !.ref = r])
    BY DEF LinkPaperlessDocument
  <1>2. rows[d] \in Row
    BY DEF TypeOK
  <1>3. CASE ApplyManualLinkOrigin(d, rows[d])
    <2>1. \/ rows' = [rows EXCEPT ![d] = [rows[d] EXCEPT !.manual = TRUE]]
          \/ rows' = [rows EXCEPT ![d] = [rows[d] EXCEPT !.manual = TRUE, !.tagging = "PENDING"]]
      BY <1>3 DEF ApplyManualLinkOrigin
    <2> QED  BY <1>2, <2>1, ManualIsUsers, ManualLinkIsUsers, OneRowByUser
  <1>4. CASE /\ FreshRow(d)
             /\ ApplyManualLinkOrigin(d, [NoRow EXCEPT !.state = "live", !.ref = r])
    <2> DEFINE link == [NoRow EXCEPT !.state = "live", !.ref = r]
    <2>1. \/ rows' = [rows EXCEPT ![d] = [link EXCEPT !.manual = TRUE]]
          \/ rows' = [rows EXCEPT ![d] = [link EXCEPT !.manual = TRUE, !.tagging = "PENDING"]]
      BY <1>4 DEF ApplyManualLinkOrigin
    <2>2. /\ UserRow(rows[d], [link EXCEPT !.manual = TRUE])
          /\ UserRow(rows[d], [link EXCEPT !.manual = TRUE, !.tagging = "PENDING"])
      BY <1>4, NewLinkIsUsers DEF FreshRow
    <2> HIDE DEF link
    <2> QED  BY <2>1, <2>2, OneRowByUser
  <1> QED  BY <1>1, <1>3, <1>4

(* Removing a document archives its row. *)
LEMMA RemoveByUser ==
  ASSUME TypeOK, NEW d \in RowIds, RemoveDocument(d) PROVE RowsByUsers
  <1>1. rows[d] \in Row /\ rows[d].state = "live"
    BY DEF TypeOK, RemoveDocument, Live
  <1>2. \/ rows' = [rows EXCEPT ![d] = [rows[d] EXCEPT !.manual = FALSE]]
        \/ rows' = [rows EXCEPT ![d] = [rows[d] EXCEPT !.state = "archived"]]
    BY DEF RemoveDocument
  <1> QED  BY <1>1, <1>2, ManualIsUsers, HidingIsUsers, OneRowByUser

\* The rows stay, but for the state of the assignment in Paperless.
TaggingOnly ==
  \A d \in RowIds : rows'[d] = rows[d] \/ \E v : rows'[d] = [rows[d] EXCEPT !.tagging = v]

(* Steps that only write the tagging status. *)
LEMMA TaggingByUsers == TypeOK /\ TaggingOnly => RowsByUsers
  <1> SUFFICES ASSUME TypeOK, TaggingOnly, NEW d \in RowIds PROVE UserRow(rows[d], rows'[d])
    BY DEF RowsByUsers
  <1>1. rows[d] \in Row
    BY DEF TypeOK
  <1>2. CASE rows'[d] = rows[d]
    BY <1>2 DEF UserRow
  <1>3. CASE \E v : rows'[d] = [rows[d] EXCEPT !.tagging = v]
    BY <1>1, <1>3, TaggingIsUsers
  <1> QED  BY <1>2, <1>3 DEF TaggingOnly

(* Steps that write only the state of the assignment, if anything. *)
LEMMA ChangeTagTagging == ASSUME NEW t, NEW c, ChangeTag(t, c) PROVE TaggingOnly
  BY DEF ChangeTag, ResetApplied, TaggingOnly

(* A sync that makes failed assignments due again writes their status      *)
(* only.                                                                   *)
LEMMA RetriesTagging == ASSUME NEW q, CreateRetries(q) PROVE TaggingOnly
  BY DEF CreateRetries, TaggingOnly

(* So does the result of an assignment, *)
LEMMA WriteTaggingTagging ==
  ASSUME TypeOK, NEW w, WriteTagging(w) PROVE TaggingOnly
  <1>1. PICK v : rows' = [rows EXCEPT ![run[w].row].tagging = v]
    BY DEF WriteTagging
  <1> QED  BY <1>1 DEF TypeOK, TaggingOnly

(* and a backfill. *)
LEMMA BackfillTagging ==
  ASSUME TypeOK, NEW w, CreateBackfill(w) PROVE TaggingOnly
  <1>1. rows' = [rows EXCEPT ![run[w].row].tagging = "PENDING"]
    BY DEF CreateBackfill
  <1> QED  BY <1>1 DEF TypeOK, TaggingOnly

(* Who writes rows: users, the removal of the tag, and the two loops of    *)
(* reconcileAssignments.                                                   *)
LEMMA RowWriters ==
  ASSUME TypeOK, [Next]_vars
  PROVE  \/ RowsByUsers
         \/ RemoveTag
         \/ \E w \in Workers : AddTagOrigin(w) \/ DropTagOrigin(w)
  <1>1. UNCHANGED rows => RowsByUsers
    BY DEF RowsByUsers, UserRow
  <1>2. CASE Api
    <2>1. CASE \E t \in Tags : SetTag(t)
      BY <2>1, ChangeTagTagging, TaggingByUsers DEF SetTag
    <2>2. ASSUME NEW q \in Requests, \/ SetRequestedTag(q) \/ RequestSync(q)
                                     \/ CreateRequestedSync(q) \/ RequestRetry(q)
                                     \/ CreateRetries(q) \/ \E t \in Tags : RequestTag(q, t)
          PROVE  RowsByUsers
      <3>1. CASE SetRequestedTag(q)
        BY <3>1, ChangeTagTagging, TaggingByUsers DEF SetRequestedTag
      <3>2. CASE CreateRetries(q)
        BY <3>2, RetriesTagging, TaggingByUsers
      <3>3. CASE RequestSync(q) \/ CreateRequestedSync(q) \/ RequestRetry(q)
                 \/ \E t \in Tags : RequestTag(q, t)
        BY <1>1, <3>3 DEF RequestSync, CreateRequestedSync, RequestRetry, RequestTag
      <3> QED  BY <2>2, <3>1, <3>2, <3>3
    <2>3. CASE \E j \in JobIds : Enqueue(j)
      BY <1>1, <2>3 DEF Enqueue
    <2> QED  BY <1>2, <2>1, <2>2, <2>3, LinkByUser, RemoveByUser DEF Api
  <1>3. CASE Environment
    <2>1. UNCHANGED rows
      BY <1>3 DEF Environment, IntervalElapses, Retag, Repoint, ArchivePolicy, Forget, Throw,
                  Crash
    <2> QED  BY <1>1, <2>1
  <1>4. ASSUME NEW w \in Workers, (\E j \in JobIds : Dispatch(w, j)) \/ Tick(w)
        PROVE  RowsByUsers
    <2>1. UNCHANGED rows
      BY <1>4 DEF Dispatch, DropSettled, SkipJob, StartJob, Tick
    <2> QED  BY <1>1, <2>1
  <1>5. ASSUME NEW w \in Workers, Proceed(w), ~AddTagOrigin(w), ~DropTagOrigin(w)
        PROVE  RowsByUsers
    <2>1. CASE WriteTagging(w) \/ CreateBackfill(w)
      BY <2>1, WriteTaggingTagging, BackfillTagging, TaggingByUsers
    <2>2. CASE ~WriteTagging(w) /\ ~CreateBackfill(w)
      <3>1. UNCHANGED rows
        BY <1>5, <2>2 DEF Proceed, SyncStep, TagStep, MarkRunning, FetchUnreachable,
             FetchRejected, FetchIncomplete, Fetch, Snapshot, CheckAdd, CheckDrop, AbortSync,
             Activate, CompleteSync, StartBackfill, CheckBackfill, AssignTag, FinishTagJob,
             ScheduleSync, RefuseInsert
      <3> QED  BY <1>1, <3>1
    <2> QED  BY <2>1, <2>2
  <1>6. CASE UNCHANGED vars
    BY <1>1, <1>6 DEF vars
  <1> QED  BY <1>2, <1>3, <1>4, <1>5, <1>6 DEF Next

-----------------------------------------------------------------------------
(* What a worker in the loops of reconcileAssignments has in its hands.    *)

(* Labels inside the loops of reconcileAssignments. *)
Looping == {"add", "addWrite", "drop", "dropWrite"}

\* Labels at which there is no listing, or nothing is done with it any more.
Calm == Labels \ (Looping \cup {"snapshot", "activate"})

\* The rows of the copy exist, and what is to lose the origin is not in the listing.
CopyRight(w) ==
  pc[w] \in Looping =>
     /\ \A d \in run[w].local : rows[d].state # "absent"
     /\ \A d \in run[w].todo : rows[d].state # "absent" /\ rows[d].ref \notin run[w].remote
     /\ run[w].adds \subseteq run[w].remote
     /\ pc[w] = "addWrite" => run[w].ref \in run[w].remote
     /\ pc[w] \in {"drop", "dropWrite"} => run[w].adds = {}
     /\ pc[w] = "dropWrite" =>
           /\ run[w].row \in RowIds
           /\ rows[run[w].row].state # "absent" /\ rows[run[w].row].ref \notin run[w].remote

\* A row that is not there carries no origin; one that is there has a document.
AbsentBare ==
  \A d \in RowIds : IF rows[d].state = "absent" THEN ~rows[d].tag ELSE rows[d].ref \in Refs

(* The inductive invariant of what is held, for any number of workers. *)
CopyInv == AbsentBare /\ \A w \in Workers : CopyRight(w)

(* A row that is there stays there, with its document. *)
LEMMA RowsStay ==
  ASSUME TypeOK, CopyInv, [Next]_vars PROVE RowsTraceable
  <1>1. ASSUME RowsByUsers PROVE RowsTraceable
    BY <1>1 DEF RowsByUsers, RowsTraceable, UserRow, SameDocument
  <1>2. CASE RemoveTag
    <2> SUFFICES ASSUME NEW d \in RowIds PROVE SameDocument(rows[d], rows'[d])
      BY DEF RowsTraceable
    <2>1. rows'[d] = WithoutTagOrigin(d) /\ rows[d] \in Row
      BY <1>2 DEF RemoveTag, TypeOK
    <2>2. /\ rows'[d].ref = rows[d].ref
          /\ rows'[d].tag = FALSE
          /\ rows'[d].state \in {rows[d].state, "archived"}
          /\ ~rows[d].tag => rows'[d].state = rows[d].state
      BY <2>1 DEF WithoutTagOrigin, Row
    <2> QED  BY <2>2 DEF SameDocument, CopyInv, AbsentBare
  <1>3. ASSUME NEW w \in Workers, AddTagOrigin(w) PROVE RowsTraceable
    <2> SUFFICES ASSUME NEW d \in RowIds PROVE SameDocument(rows[d], rows'[d])
      BY DEF RowsTraceable
    <2> DEFINE fresh == [NoRow EXCEPT !.state = "live", !.ref = run[w].ref, !.tag = TRUE]
    <2>1. rows[d] \in Row /\ rows \in [RowIds -> Row]
      BY DEF TypeOK
    <2>2. fresh.state = "live" /\ fresh.ref \in Refs
      <3>1. run[w].ref \in run[w].remote /\ run[w].remote \subseteq Refs
        BY <1>3 DEF CopyInv, CopyRight, AddTagOrigin, Looping, TypeOK, Run
      <3> QED  BY <3>1 DEF NoRow
    <2>3. \A e \in run[w].local : rows[e].state # "absent"
      BY <1>3 DEF CopyInv, CopyRight, AddTagOrigin, Looping
    <2>4. \/ rows'[d] = rows[d]
          \/ rows'[d] = [rows[d] EXCEPT !.tag = TRUE] /\ rows[d].state # "absent"
          \/ rows'[d] = fresh /\ rows[d].state = "absent"
      <3> HIDE DEF fresh
      <3>1. CASE rows' = [e \in RowIds |->
                            IF e \in {x \in run[w].local : rows[x].ref = run[w].ref} \ run[w].tagged
                            THEN [rows[e] EXCEPT !.tag = TRUE] ELSE rows[e]]
        BY <2>3, <3>1
      <3>2. CASE rows' = [e \in RowIds |-> IF e \in LiveLinks(run[w].ref)
                                           THEN [rows[e] EXCEPT !.tag = TRUE] ELSE rows[e]]
        BY <3>2 DEF LiveLinks, Live
      <3>3. CASE \E e \in RowIds : FreshRow(e) /\ rows' = [rows EXCEPT ![e] = fresh]
        BY <2>1, <3>3 DEF FreshRow
      <3> QED  BY <1>3, <3>1, <3>2, <3>3 DEF AddTagOrigin, fresh
    <2> HIDE DEF fresh
    <2>5. CASE rows'[d] = rows[d]
      BY <2>5 DEF SameDocument
    <2>6. CASE rows'[d] = [rows[d] EXCEPT !.tag = TRUE] /\ rows[d].state # "absent"
      <3>1. rows'[d].state = rows[d].state /\ rows'[d].ref = rows[d].ref
        BY <2>1, <2>6 DEF Row
      <3> QED  BY <2>6, <3>1 DEF SameDocument
    <2> QED  BY <2>2, <2>4, <2>5, <2>6 DEF SameDocument
  <1>4. ASSUME NEW w \in Workers, DropTagOrigin(w) PROVE RowsTraceable
    <2> SUFFICES ASSUME NEW d \in RowIds PROVE SameDocument(rows[d], rows'[d])
      BY DEF RowsTraceable
    <2>1. rows[d] \in Row /\ rows \in [RowIds -> Row]
      BY DEF TypeOK
    <2>2. /\ rows'[d].ref = rows[d].ref
          /\ rows'[d].tag \in {FALSE, rows[d].tag}
          /\ rows'[d].state \in {rows[d].state, "archived"}
      BY <1>4, <2>1 DEF DropTagOrigin, Row
    <2>3. rows[d].tag \in BOOLEAN
      BY <2>1 DEF Row
    <2>4. rows[d].state = "absent" => rows'[d] = rows[d]
      BY <1>4, <2>1 DEF DropTagOrigin, CopyInv, CopyRight, Looping
    <2> QED  BY <2>2, <2>3, <2>4 DEF SameDocument
  <1> QED  BY <1>1, <1>2, <1>3, <1>4, RowWriters

(* What a step does to a worker that has a listing: nothing, an end of it, *)
(* or one of the steps of the sync.                                        *)
Untouched(w) == pc'[w] = pc[w] /\ run'[w] = run[w]
(* The steps that make or use a listing. *)
ListStep(w) ==
  Fetch(w) \/ Snapshot(w) \/ CheckAdd(w) \/ AddTagOrigin(w) \/ CheckDrop(w) \/ DropTagOrigin(w)

(* A step that leaves for a calm label gets there. *)
LEMMA GotoCalm ==
  ASSUME TypeOK, NEW w \in Workers, NEW l \in Calm, Goto(w, l) PROVE pc'[w] \in Calm
  BY DEF TypeOK, Goto

(* What a worker does between its listing and its last write is a step of  *)
(* the sync; all other steps leave it alone or end its listing.            *)
LEMMA ListSteps ==
  ASSUME TypeOK, [Next]_vars, NEW w \in Workers
  PROVE  Untouched(w) \/ pc'[w] \in Calm \/ ListStep(w)
  <1>1. UNCHANGED <<pc, run>> => Untouched(w)
    BY DEF Untouched
  <1>2. CASE Api
    BY <1>1, <1>2 DEF Api, SetTag, ChangeTag, RemoveTag, RequestTag, SetRequestedTag, RequestSync,
                CreateRequestedSync, RequestRetry, CreateRetries, LinkPaperlessDocument,
                RemoveDocument, Enqueue
  <1>3. ASSUME NEW v \in Workers, v # w, Moves(v) PROVE Untouched(w)
    BY <1>3 DEF Moves, OthersStay, Untouched
  <1>4. ASSUME Finish(w) PROVE pc'[w] \in Calm
    BY <1>4, GotoCalm DEF Finish, Calm, Labels, Looping
  <1>5. CASE Environment
    <2>1. ASSUME NEW v \in Workers, Throw(v) \/ Crash(v) PROVE Untouched(w) \/ pc'[w] \in Calm
      <3>1. Finish(v)
        BY <2>1 DEF Throw, Crash
      <3> QED  BY <1>3, <1>4, <3>1, FinishMoves DEF Moves
    <2>2. CASE ~\E v \in Workers : Throw(v) \/ Crash(v)
      BY <1>1, <1>5, <2>2 DEF Environment, IntervalElapses, Retag, Repoint, ArchivePolicy, Forget
    <2> QED  BY <2>1, <2>2
  <1>6. ASSUME NEW v \in Workers, (\E j \in JobIds : Dispatch(v, j)) \/ Tick(v)
        PROVE  Untouched(w) \/ pc'[w] \in Calm
    <2>1. ASSUME NEW r, run' = [run EXCEPT ![v] = r], NEW l \in {"mark", "schedule"}, Goto(v, l)
          PROVE  Untouched(w) \/ pc'[w] \in Calm
      <3>1. l \in Calm
        BY DEF Calm, Labels, Looping
      <3>2. CASE v = w
        BY <2>1, <3>1, <3>2, GotoCalm
      <3>3. CASE v # w
        BY <2>1, <3>3 DEF Goto, TypeOK, Untouched
      <3> QED  BY <3>2, <3>3
    <2>2. ASSUME NEW j \in JobIds, StartJob(v, j) PROVE Untouched(w) \/ pc'[w] \in Calm
      BY <2>1, <2>2 DEF StartJob
    <2>3. ASSUME NEW j \in JobIds, DropSettled(v, j) \/ SkipJob(v, j) PROVE Untouched(w)
      BY <1>1, <2>3 DEF DropSettled, SkipJob
    <2>4. CASE Tick(v)
      BY <1>1, <2>1, <2>4 DEF Tick
    <2> QED  BY <1>6, <2>2, <2>3, <2>4 DEF Dispatch
  <1>7. ASSUME NEW v \in Workers, Proceed(v) PROVE Untouched(w) \/ pc'[w] \in Calm \/ ListStep(w)
    <2>1. CASE v # w
      BY <1>3, <1>7, <2>1, ProceedMoves
    <2>2. CASE v = w
      <3>1. ASSUME NEW l \in {"fetch", "assign", "complete", "backfill", "backfillCheck",
                              "backfillWrite", "tagWrite", "tagDone"}, Goto(w, l)
            PROVE  pc'[w] \in Calm
        BY <3>1, GotoCalm DEF Calm, Labels, Looping
      <3>2. CASE MarkRunning(w)
        BY <3>1, <3>2 DEF MarkRunning
      <3>3. CASE FetchUnreachable(w) \/ FetchRejected(w) \/ FetchIncomplete(w) \/ AbortSync(w)
                 \/ FinishTagJob(w) \/ ScheduleSync(w) \/ RefuseInsert(w)
        BY <1>4, <3>3 DEF FetchUnreachable, FetchRejected, FetchIncomplete, AbortSync,
                          FinishTagJob, ScheduleSync, RefuseInsert
      <3>4. CASE Activate(w) \/ CompleteSync(w) \/ AssignTag(w) \/ WriteTagging(w)
        BY <3>1, <3>4 DEF Activate, CompleteSync, AssignTag, WriteTagging
      <3>5. CASE StartBackfill(w) \/ CreateBackfill(w)
        BY <1>4, <3>1, <3>5 DEF StartBackfill, CreateBackfill
      <3>6. CASE CheckBackfill(w)
        <4>1. CASE UNCHANGED pc
          BY <3>6, <4>1 DEF CheckBackfill, Calm, Labels, Looping
        <4>2. CASE ~UNCHANGED pc
          BY <1>4, <3>1, <3>6, <4>2 DEF CheckBackfill
        <4> QED  BY <4>1, <4>2
      <3> QED  BY <1>7, <2>2, <3>2, <3>3, <3>4, <3>5, <3>6
               DEF Proceed, SyncStep, TagStep, ListStep
    <2> QED  BY <2>1, <2>2
  <1>8. CASE UNCHANGED vars
    BY <1>1, <1>8 DEF vars
  <1> QED  BY <1>2, <1>5, <1>6, <1>7, <1>8 DEF Next

-----------------------------------------------------------------------------
(* The copy is right: for any number of workers.                           *)

(* At the start no worker has a listing. *)
LEMMA InitCopyInv == Init => CopyInv
  BY DEF Init, CopyInv, CopyRight, AbsentBare, NoRow, Looping

(* Rows that stay traceable carry no origin before they exist. *)
LEMMA BareStays == ASSUME CopyInv, RowsTraceable PROVE AbsentBare'
  <1> SUFFICES ASSUME NEW d \in RowIds
               PROVE  (IF rows[d].state = "absent" THEN ~rows[d].tag ELSE rows[d].ref \in Refs)'
    BY DEF AbsentBare
  <1>1. IF rows[d].state = "absent" THEN ~rows[d].tag ELSE rows[d].ref \in Refs
    BY DEF CopyInv, AbsentBare
  <1> QED  BY <1>1 DEF RowsTraceable, SameDocument

(* A copy that the worker does not touch stays right. *)
LEMMA CopyStays ==
  ASSUME TypeOK, RowsTraceable, NEW w \in Workers, CopyRight(w), Untouched(w) PROVE CopyRight(w)'
  <1> SUFFICES ASSUME pc[w] \in Looping PROVE CopyRight(w)'
    BY DEF CopyRight, Untouched
  <1>1. run[w].local \subseteq RowIds /\ run[w].todo \subseteq RowIds
    BY DEF TypeOK, Run
  <1>2. \A d \in RowIds : rows[d].state # "absent" => rows'[d].state # "absent" /\ rows'[d].ref = rows[d].ref
    BY DEF RowsTraceable, SameDocument
  <1> QED  BY <1>1, <1>2 DEF CopyRight, Untouched

(* The fields of the copy, as each step of the loops writes them. *)
LEMMA SnapshotFields ==
  ASSUME TypeOK, NEW w \in Workers, Snapshot(w), pc'[w] # "activate"
  PROVE  /\ pc'[w] \in {"add", "drop"}
         /\ run'[w].remote = run[w].remote
         /\ run'[w].local = {d \in RowIds : Live(d)}
         /\ run'[w].tagged = {d \in RowIds : Live(d) /\ rows[d].tag}
         /\ run'[w].adds = run[w].remote
         /\ run'[w].todo = {d \in RowIds : Live(d) /\ rows[d].tag /\ rows[d].ref \notin run[w].remote}
         /\ pc'[w] = "drop" => run[w].remote = {}
  <1> DEFINE drops == {d \in {e \in {x \in RowIds : Live(x)} : rows[e].tag} : rows[d].ref \notin run[w].remote}
             local == {d \in RowIds : Live(d)}
             tagged == {d \in local : rows[d].tag}
             man == {d \in local : rows[d].manual}
  <1>1. run[w] \in Run /\ run \in [Workers -> Run] /\ pc \in [Workers -> Labels]
    BY DEF TypeOK
  <1>2. pc'[w] = SyncLabel(run[w].remote, drops)
    BY <1>1 DEF Snapshot, Goto
  <1>3. /\ pc'[w] \in {"add", "drop"}
        /\ pc'[w] = "drop" => run[w].remote = {}
    BY <1>2 DEF SyncLabel
  <1>4. run'[w] = [run[w] EXCEPT !.local = local, !.tagged = tagged, !.manual = man,
                                 !.adds = run[w].remote, !.todo = drops]
    BY <1>1, <1>2 DEF Snapshot
  <1>5. /\ run'[w].remote = run[w].remote /\ run'[w].local = local
        /\ run'[w].tagged = tagged /\ run'[w].adds = run[w].remote
        /\ run'[w].todo = drops
    <2> HIDE DEF local, tagged, man, drops
    <2> QED  BY <1>1, <1>4 DEF Run
  <1> QED  BY <1>3, <1>5

(* The snapshot copies rows that exist, and sets apart those to lose the   *)
(* origin.                                                                 *)
LEMMA SnapshotCopy ==
  ASSUME TypeOK, NEW w \in Workers, Snapshot(w) PROVE CopyRight(w)'
  <1> SUFFICES ASSUME pc'[w] # "activate" PROVE CopyRight(w)'
    BY DEF CopyRight, Looping
  <1>1. UNCHANGED rows
    BY DEF Snapshot
  <1> QED  BY <1>1, SnapshotFields DEF CopyRight, Live

(* The adding loop goes on to a document of the listing. *)
LEMMA CheckAddCopy ==
  ASSUME TypeOK, NEW w \in Workers, CheckAdd(w), CopyRight(w) PROVE CopyRight(w)'
  <1>1. PICK r \in run[w].adds : run' = [run EXCEPT ![w].ref = r, ![w].adds = @ \ {r}]
    BY DEF CheckAdd
  <1>2. run[w] \in Run /\ run \in [Workers -> Run] /\ pc \in [Workers -> Labels]
    BY DEF TypeOK
  <1>3. /\ run'[w].remote = run[w].remote /\ run'[w].local = run[w].local
        /\ run'[w].todo = run[w].todo /\ run'[w].adds = run[w].adds \ {r} /\ run'[w].ref = r
    BY <1>1, <1>2 DEF Run
  <1>4. pc'[w] = "addWrite" /\ pc[w] = "add" /\ UNCHANGED rows
    BY <1>2 DEF CheckAdd, Goto
  <1> QED  BY <1>3, <1>4 DEF CopyRight, Looping

(* The dropping loop goes on to a row that was set apart. *)
LEMMA CheckDropCopy ==
  ASSUME TypeOK, NEW w \in Workers, CheckDrop(w), CopyRight(w) PROVE CopyRight(w)'
  <1>1. PICK d \in run[w].todo : run' = [run EXCEPT ![w].row = d, ![w].todo = @ \ {d}]
    BY DEF CheckDrop
  <1>2. run[w] \in Run /\ run \in [Workers -> Run] /\ pc \in [Workers -> Labels]
    BY DEF TypeOK
  <1>3. /\ run'[w].remote = run[w].remote /\ run'[w].local = run[w].local
        /\ run'[w].todo = run[w].todo \ {d} /\ run'[w].adds = run[w].adds /\ run'[w].row = d
    BY <1>1, <1>2 DEF Run
  <1>4. pc'[w] = "dropWrite" /\ pc[w] = "drop" /\ UNCHANGED rows
    BY <1>2 DEF CheckDrop, Goto
  <1>5. d \in RowIds
    BY <1>2 DEF Run
  <1> QED  BY <1>3, <1>4, <1>5 DEF CopyRight, Looping

(* Both writes leave the listing, the copy and what is still to do. *)
LEMMA WriteFields ==
  ASSUME TypeOK, NEW w \in Workers, AddTagOrigin(w) \/ DropTagOrigin(w), pc'[w] # "activate"
  PROVE  /\ run'[w].remote = run[w].remote /\ run'[w].local = run[w].local
         /\ run'[w].tagged = run[w].tagged
         /\ run'[w].todo = run[w].todo /\ run'[w].adds = run[w].adds
  <1>1. run[w] \in Run /\ run \in [Workers -> Run] /\ pc \in [Workers -> Labels]
    BY DEF TypeOK
  <1>2. CASE AddTagOrigin(w)
    <2>1. pc'[w] = SyncLabel(run[w].adds, run[w].todo)
      BY <1>1, <1>2 DEF AddTagOrigin, Goto
    <2>2. run[w].adds \cup run[w].todo # {}
      BY <2>1 DEF SyncLabel
    <2>3. run'[w] = [run[w] EXCEPT !.ref = None]
      BY <1>1, <1>2, <2>2 DEF AddTagOrigin
    <2> QED  BY <1>1, <2>3 DEF Run
  <1>3. CASE DropTagOrigin(w)
    <2>1. pc'[w] = SyncLabel({}, run[w].todo)
      BY <1>1, <1>3 DEF DropTagOrigin, Goto
    <2>2. run[w].todo # {}
      BY <2>1 DEF SyncLabel
    <2>3. run'[w] = [run[w] EXCEPT !.row = 0]
      BY <1>1, <1>3, <2>2 DEF DropTagOrigin
    <2> QED  BY <1>1, <2>3 DEF Run
  <1> QED  BY <1>2, <1>3

(* Where the loops go on after a write. *)
LEMMA WriteLabels ==
  ASSUME TypeOK, NEW w \in Workers, AddTagOrigin(w) \/ DropTagOrigin(w)
  PROVE  /\ pc'[w] \in {"add", "drop", "activate"}
         /\ AddTagOrigin(w) => /\ pc[w] = "addWrite"
                               /\ pc'[w] \in {"drop", "activate"} => run[w].adds = {}
         /\ DropTagOrigin(w) => pc[w] = "dropWrite" /\ pc'[w] # "add"
         /\ pc'[w] = "activate" => run[w].todo = {}
  BY DEF TypeOK, AddTagOrigin, DropTagOrigin, Goto, SyncLabel

(* A write of the loops keeps what is held. *)
LEMMA WriteCopy ==
  ASSUME TypeOK, RowsTraceable, NEW w \in Workers, AddTagOrigin(w) \/ DropTagOrigin(w), CopyRight(w)
  PROVE  CopyRight(w)'
  <1> SUFFICES ASSUME pc'[w] # "activate" PROVE CopyRight(w)'
    BY DEF CopyRight, Looping
  <1>1. run[w].local \subseteq RowIds /\ run[w].todo \subseteq RowIds
    BY DEF TypeOK, Run
  <1>2. \A d \in RowIds : rows[d].state # "absent" => rows'[d].state # "absent" /\ rows'[d].ref = rows[d].ref
    BY DEF RowsTraceable, SameDocument
  <1> QED  BY <1>1, <1>2, WriteFields, WriteLabels DEF CopyRight, Looping

(* Every step keeps CopyInv. *)
LEMMA NextCopyInv == ASSUME TypeOK, CopyInv, [Next]_vars PROVE CopyInv'
  <1>1. RowsTraceable
    BY RowsStay
  <1>2. ASSUME NEW w \in Workers PROVE CopyRight(w)'
    <2>1. CopyRight(w)
      BY DEF CopyInv
    <2>2. CASE Untouched(w)
      BY <1>1, <2>1, <2>2, CopyStays
    <2>3. CASE pc'[w] \in Calm
      BY <2>3 DEF CopyRight, Calm, Looping
    <2>4. CASE Fetch(w)
      BY <2>4 DEF Fetch, Goto, TypeOK, CopyRight, Looping
    <2> QED  BY <1>1, <2>1, <2>2, <2>3, <2>4, ListSteps, SnapshotCopy, CheckAddCopy, CheckDropCopy,
                WriteCopy DEF ListStep
  <1> QED  BY <1>1, <1>2, BareStays DEF CopyInv

-----------------------------------------------------------------------------
(* One worker: nobody else adds or drops origins while it is in its loops. *)

(* The deployment runs one worker process, which takes one job of the      *)
(* queue at a time; so does the run that checks the listing. With two, a   *)
(* second sync may drop what a first has added.                            *)
OneWorker == \E w \in Workers : Workers = {w}

(* What is visible for the tag is in the listing, or still to lose the     *)
(* origin.                                                                 *)
VisibleListed(w) ==
  \A d \in RowIds : Live(d) /\ rows[d].tag =>
     \/ rows[d].ref \in run[w].remote
     \/ pc[w] \in Looping /\ d \in run[w].todo
     \/ pc[w] = "dropWrite" /\ d = run[w].row

(* What is in the listing has a row with the origin, or is still to get    *)
(* one.                                                                    *)
ListedKept(w) ==
  \A r \in run[w].remote :
     \/ pc[w] \in {"add", "addWrite"} /\ r \in run[w].adds
     \/ pc[w] = "addWrite" /\ r = run[w].ref
     \/ \E d \in RowIds : rows[d].ref = r /\ rows[d].tag

(* A row copied with the origin keeps it as long as its document is        *)
(* listed.                                                                 *)
CopyKept(w) ==
  pc[w] \in Looping =>
     /\ run[w].tagged \subseteq run[w].local
     /\ \A d \in run[w].tagged : rows[d].ref \in run[w].remote => rows[d].tag

\* What a run that is still current knows of the rows, from the snapshot to the last write.
ListRight(w) ==
  pc[w] \in Looping \cup {"activate"} /\ SameConfig(w) =>
     VisibleListed(w) /\ ListedKept(w) /\ CopyKept(w)

(* The inductive invariant of the listing. *)
ListInv == \A w \in Workers : ListRight(w)

(* At the start no worker is in its loops. *)
LEMMA InitListInv == Init => ListInv
  BY DEF Init, ListInv, ListRight, Looping

(* Who changes the tag: an administrator, in one step with the rows that   *)
(* lose it.                                                                *)
LEMMA ConfigWriters ==
  ASSUME TypeOK, [Next]_vars
  PROVE  SameTag \/ RemoveTag \/ \E t, c : ChangeTag(t, c)
  <1>1. UNCHANGED <<config, configIds>> => SameTag
    BY DEF SameTag
  <1>2. CASE Api
    BY <1>1, <1>2 DEF Api, SetTag, RequestTag, SetRequestedTag, RequestSync,
                CreateRequestedSync, RequestRetry, CreateRetries, LinkPaperlessDocument,
                RemoveDocument, Enqueue
  <1>3. CASE Environment
    <2>1. CASE IntervalElapses
      BY <2>1, StatusKeepsTag DEF IntervalElapses
    <2>2. CASE ~IntervalElapses
      BY <1>1, <1>3, <2>2 DEF Environment, Retag, Repoint, ArchivePolicy, Forget, Throw, Crash
    <2> QED  BY <2>1, <2>2
  <1>4. ASSUME NEW w \in Workers, (\E j \in JobIds : Dispatch(w, j)) \/ Tick(w) PROVE SameTag
    <2>1. ASSUME NEW j \in JobIds, SkipJob(w, j) PROVE SameTag
      BY <2>1, StatusKeepsTag DEF SkipJob, DriftError
    <2>2. ASSUME NEW j \in JobIds, DropSettled(w, j) \/ StartJob(w, j) PROVE SameTag
      BY <1>1, <2>2 DEF DropSettled, StartJob
    <2>3. CASE Tick(w)
      BY <1>1, <2>3 DEF Tick
    <2> QED  BY <1>4, <2>1, <2>2, <2>3 DEF Dispatch
  <1>5. ASSUME NEW w \in Workers, Proceed(w) PROVE SameTag
    BY <1>5, ProceedKeepsTag
  <1>6. CASE UNCHANGED vars
    BY <1>1, <1>6 DEF vars
  <1> QED  BY <1>2, <1>3, <1>4, <1>5, <1>6 DEF Next

(* A run that is current after a step of others was current before it. *)
LEMMA StaysCurrent ==
  ASSUME TypeOK, TagInv, [Next]_vars, NEW w \in Workers, pc[w] \notin Waiting, Untouched(w),
         SameConfig(w)'
  PROVE  SameConfig(w) /\ ~RemoveTag
  <1>1. run'[w] = run[w] /\ RunKnown(w)
    BY DEF Untouched, TagInv, RunsKnown
  <1>2. CASE SameTag
    <2>1. SameConfig(w)
      BY <1>1, <1>2 DEF SameTag, SameConfig, HasTag
    <2>2. ~RemoveTag
      BY <1>1, <1>2 DEF SameTag, SameConfig, HasTag, RemoveTag, NoConfig
    <2> QED  BY <2>1, <2>2
  <1>3. CASE RemoveTag
    BY <1>3 DEF RemoveTag, NoConfig, SameConfig, HasTag
  <1>4. ASSUME NEW t, NEW c, ChangeTag(t, c) PROVE FALSE
    <2>1. config' = ChangedConfig(t, c) /\ config'.id = run[w].cfg /\ config'.version = run[w].version
      BY <1>1, <1>4 DEF ChangeTag, SameConfig
    <2>2. config \in Config /\ configIds \in Nat /\ MaxVersion \in Nat
      BY BoundsAssumption DEF TypeOK
    <2>3. CASE HasTag
      <3>1. config'.id = config.id /\ config'.version = config.version + 1
        BY <2>1, <2>2, <2>3 DEF ChangedConfig, Config
      <3>2. config.version \in Nat
        BY <2>2 DEF Config
      <3> QED  BY <1>1, <2>1, <2>3, <3>1, <3>2 DEF RunKnown
    <2>4. CASE ~HasTag
      <3>1. config'.id = configIds + 1
        BY <2>1, <2>4 DEF ChangedConfig
      <3> QED  BY <1>1, <2>1, <2>2, <3>1 DEF RunKnown
    <2> QED  BY <2>3, <2>4
  <1> QED  BY <1>2, <1>3, <1>4, ConfigWriters

(* Users do not tag rows, and rows do not lose their document. *)
LEMMA UsersKeepList ==
  ASSUME TypeOK, CopyInv, NEW w \in Workers, RowsByUsers, Untouched(w),
         pc[w] \in Looping \cup {"activate"}, VisibleListed(w), ListedKept(w), CopyKept(w)
  PROVE  VisibleListed(w)' /\ ListedKept(w)' /\ CopyKept(w)'
  <1>1. run'[w] = run[w] /\ pc'[w] = pc[w]
    BY DEF Untouched
  <1>2. \A d \in RowIds : UserRow(rows[d], rows'[d])
    BY DEF RowsByUsers
  <1>3. \A d \in RowIds : rows[d].state = "absent" => ~rows[d].tag
    BY DEF CopyInv, AbsentBare
  <1>4. VisibleListed(w)'
    <2> SUFFICES ASSUME NEW d \in RowIds, rows'[d].state = "live", rows'[d].tag
                 PROVE  \/ rows'[d].ref \in run[w].remote
                        \/ pc[w] \in Looping /\ d \in run[w].todo
                        \/ pc[w] = "dropWrite" /\ d = run[w].row
      BY <1>1 DEF VisibleListed, Live
    <2>1. Live(d) /\ rows[d].tag /\ rows'[d].ref = rows[d].ref
      BY <1>2 DEF UserRow, Live
    <2> QED  BY <2>1 DEF VisibleListed
  <1>5. \A d \in RowIds : rows[d].tag => rows'[d].tag /\ rows'[d].ref = rows[d].ref
    BY <1>2, <1>3 DEF UserRow
  <1>6. ListedKept(w)'
    BY <1>1, <1>5 DEF ListedKept
  <1>7. CopyKept(w)'
    <2> SUFFICES ASSUME pc[w] \in Looping, NEW d \in run[w].tagged, rows'[d].ref \in run[w].remote
                 PROVE  rows'[d].tag
      BY <1>1 DEF CopyKept
    <2>1. d \in RowIds /\ rows[d].state # "absent"
      BY DEF CopyKept, CopyInv, CopyRight, TypeOK, Run
    <2>2. rows'[d].ref = rows[d].ref
      BY <1>2, <2>1 DEF UserRow
    <2> QED  BY <1>5, <2>1, <2>2 DEF CopyKept
  <1> QED  BY <1>4, <1>6, <1>7

(* The snapshot. *)
LEMMA SnapshotList ==
  ASSUME TypeOK, NEW w \in Workers, Snapshot(w)
  PROVE  VisibleListed(w)' /\ ListedKept(w)' /\ CopyKept(w)'
  <1>1. UNCHANGED rows
    BY DEF Snapshot
  <1>2. CASE pc'[w] # "activate"
    BY <1>1, <1>2, SnapshotFields DEF VisibleListed, ListedKept, CopyKept, Live, Looping
  <1>3. CASE pc'[w] = "activate"
    <2> DEFINE drops == {d \in {e \in {x \in RowIds : Live(x)} : rows[e].tag} : rows[d].ref \notin run[w].remote}
    <2>1. SyncLabel(run[w].remote, drops) = "activate"
      BY <1>3 DEF Snapshot, Goto, TypeOK
    <2>2. run[w].remote = {} /\ drops = {}
      BY <2>1 DEF SyncLabel
    <2>3. run'[w] = run[w]
      BY <2>1 DEF Snapshot, TypeOK
    <2> QED  BY <1>1, <1>3, <2>2, <2>3 DEF VisibleListed, ListedKept, CopyKept, Live, Looping
  <1> QED  BY <1>2, <1>3

(* A document is taken off those to add when its write begins, or when a   *)
(* row has the origin.                                                     *)
LEMMA CheckAddList ==
  ASSUME TypeOK, NEW w \in Workers, CheckAdd(w), VisibleListed(w), ListedKept(w), CopyKept(w)
  PROVE  VisibleListed(w)' /\ ListedKept(w)' /\ CopyKept(w)'
  <1>1. PICK r \in run[w].adds : run' = [run EXCEPT ![w].ref = r, ![w].adds = @ \ {r}]
    BY DEF CheckAdd
  <1>2. run[w] \in Run /\ run \in [Workers -> Run] /\ pc \in [Workers -> Labels]
    BY DEF TypeOK
  <1>3. /\ run'[w].remote = run[w].remote /\ run'[w].local = run[w].local
        /\ run'[w].todo = run[w].todo /\ run'[w].adds = run[w].adds \ {r} /\ run'[w].ref = r
        /\ run'[w].tagged = run[w].tagged
    BY <1>1, <1>2 DEF Run
  <1>4. pc'[w] = "addWrite" /\ pc[w] = "add" /\ UNCHANGED rows
    BY <1>2 DEF CheckAdd, Goto
  <1> QED  BY <1>3, <1>4 DEF VisibleListed, ListedKept, CopyKept, Live, Looping

(* A row is taken off those to drop when its write begins, or when it lost *)
(* the origin.                                                             *)
LEMMA CheckDropList ==
  ASSUME TypeOK, NEW w \in Workers, CheckDrop(w), VisibleListed(w), ListedKept(w), CopyKept(w)
  PROVE  VisibleListed(w)' /\ ListedKept(w)' /\ CopyKept(w)'
  <1>1. PICK d \in run[w].todo : run' = [run EXCEPT ![w].row = d, ![w].todo = @ \ {d}]
    BY DEF CheckDrop
  <1>2. run[w] \in Run /\ run \in [Workers -> Run] /\ pc \in [Workers -> Labels]
    BY DEF TypeOK
  <1>3. /\ run'[w].remote = run[w].remote /\ run'[w].local = run[w].local
        /\ run'[w].todo = run[w].todo \ {d} /\ run'[w].row = d
        /\ run'[w].tagged = run[w].tagged
    BY <1>1, <1>2 DEF Run
  <1>4. pc'[w] = "dropWrite" /\ pc[w] = "drop" /\ UNCHANGED rows
    BY <1>2 DEF CheckDrop, Goto
  <1> QED  BY <1>3, <1>4 DEF VisibleListed, ListedKept, CopyKept, Live, Looping

(* The first loop: the listed document gets a row with the origin. *)
LEMMA AddedRows ==
  ASSUME TypeOK, CopyInv, NEW w \in Workers, AddTagOrigin(w), CopyKept(w)
  PROVE  /\ \A d \in RowIds : \/ rows'[d] = rows[d]
                              \/ rows'[d].tag /\ rows'[d].ref = run[w].ref
         /\ \E d \in RowIds : rows'[d].tag /\ rows'[d].ref = run[w].ref
         /\ \A d \in RowIds : rows[d].tag => rows'[d].tag /\ rows'[d].ref = rows[d].ref
  <1> DEFINE r == run[w].ref
             known == {d \in run[w].local : rows[d].ref = r}
             fresh == [NoRow EXCEPT !.state = "live", !.ref = r, !.tag = TRUE]
  <1>1. rows \in [RowIds -> Row] /\ run[w].local \subseteq RowIds
    BY DEF TypeOK, Run
  <1>2. \A x \in Row : [x EXCEPT !.tag = TRUE].tag /\ [x EXCEPT !.tag = TRUE].ref = x.ref
    BY DEF Row
  <1>3. ASSUME NEW ds \in SUBSET RowIds, ds # {}, \A d \in ds : rows[d].ref = r,
               NEW done \in SUBSET RowIds, \A d \in ds \cap done : rows[d].tag,
               rows' = [d \in RowIds |-> IF d \in ds \ done THEN [rows[d] EXCEPT !.tag = TRUE] ELSE rows[d]]
        PROVE  /\ \A d \in RowIds : rows'[d] = rows[d] \/ (rows'[d].tag /\ rows'[d].ref = r)
               /\ \E d \in RowIds : rows'[d].tag /\ rows'[d].ref = r
               /\ \A d \in RowIds : rows[d].tag => rows'[d].tag /\ rows'[d].ref = rows[d].ref
    <2>1. \A d \in RowIds : rows'[d] = rows[d] \/ (d \in ds /\ rows'[d].tag /\ rows'[d].ref = rows[d].ref)
      BY <1>1, <1>2, <1>3
    <2>2. PICK d \in ds : TRUE
      BY <1>3
    <2>3. rows'[d].tag /\ rows'[d].ref = r
      BY <1>1, <1>2, <1>3, <2>1, <2>2
    <2> QED  BY <1>3, <2>1, <2>2, <2>3
  <1>4. CASE known # {} /\ rows' = [d \in RowIds |-> IF d \in known \ run[w].tagged
                                                     THEN [rows[d] EXCEPT !.tag = TRUE] ELSE rows[d]]
    <2>1. run[w].tagged \in SUBSET RowIds /\ \A d \in known \cap run[w].tagged : rows[d].tag
      BY DEF TypeOK, Run, CopyKept, CopyInv, CopyRight, Looping, AddTagOrigin
    <2>2. known \in SUBSET RowIds /\ \A d \in known : rows[d].ref = r
      BY <1>1
    <2> HIDE DEF known
    <2> QED  BY <1>3, <1>4, <2>1, <2>2
  <1>5. CASE LiveLinks(r) # {} /\ rows' = [d \in RowIds |-> IF d \in LiveLinks(r)
                                                            THEN [rows[d] EXCEPT !.tag = TRUE] ELSE rows[d]]
    <2>1. LiveLinks(r) \in SUBSET RowIds /\ \A d \in LiveLinks(r) : rows[d].ref = r
      BY DEF LiveLinks
    <2>2. LiveLinks(r) \ {} = LiveLinks(r) /\ LiveLinks(r) \cap {} = {}
      OBVIOUS
    <2> QED  BY <1>3, <1>5, <2>1, <2>2
  <1>6. ASSUME NEW e \in RowIds, FreshRow(e), rows' = [rows EXCEPT ![e] = fresh]
        PROVE  /\ \A d \in RowIds : rows'[d] = rows[d] \/ (rows'[d].tag /\ rows'[d].ref = r)
               /\ \E d \in RowIds : rows'[d].tag /\ rows'[d].ref = r
               /\ \A d \in RowIds : rows[d].tag => rows'[d].tag /\ rows'[d].ref = rows[d].ref
    <2>1. fresh.tag /\ fresh.ref = r
      BY DEF NoRow
    <2>2. ~rows[e].tag
      BY <1>6 DEF FreshRow, CopyInv, AbsentBare
    <2> HIDE DEF fresh
    <2> QED  BY <1>1, <1>6, <2>1, <2>2
  <1> QED  BY <1>4, <1>5, <1>6 DEF AddTagOrigin

(* Both writes keep the listing, to the end of the sync. *)
LEMMA WriteRemote ==
  ASSUME TypeOK, NEW w \in Workers, AddTagOrigin(w) \/ DropTagOrigin(w)
  PROVE  run'[w].remote = run[w].remote
  <1>1. run[w] \in Run /\ run \in [Workers -> Run]
    BY DEF TypeOK
  <1>2. \/ run'[w] = WithoutCopy(run[w])
        \/ run'[w] = [run[w] EXCEPT !.ref = None]
        \/ run'[w] = [run[w] EXCEPT !.row = 0]
    BY <1>1 DEF AddTagOrigin, DropTagOrigin
  <1> QED  BY <1>1, <1>2 DEF WithoutCopy, Run

(* The write of the adding loop gives the document its row. *)
LEMMA AddTagOriginList ==
  ASSUME TypeOK, CopyInv, NEW w \in Workers, AddTagOrigin(w),
         VisibleListed(w), ListedKept(w), CopyKept(w)
  PROVE  VisibleListed(w)' /\ ListedKept(w)' /\ CopyKept(w)'
  <1>1. /\ \A d \in RowIds : \/ rows'[d] = rows[d]
                             \/ rows'[d].tag /\ rows'[d].ref = run[w].ref
        /\ \E d \in RowIds : rows'[d].tag /\ rows'[d].ref = run[w].ref
        /\ \A d \in RowIds : rows[d].tag => rows'[d].tag /\ rows'[d].ref = rows[d].ref
    BY AddedRows
  <1>2. run'[w].remote = run[w].remote /\ pc[w] = "addWrite" /\ run[w].ref \in run[w].remote
    BY WriteRemote DEF AddTagOrigin, CopyInv, CopyRight, Looping
  <1>3. /\ pc'[w] \in {"add", "drop", "activate"}
        /\ pc'[w] \in {"drop", "activate"} => run[w].adds = {}
        /\ pc'[w] = "activate" => run[w].todo = {}
    BY WriteLabels
  <1>4. pc'[w] # "activate" => run'[w].todo = run[w].todo /\ run'[w].adds = run[w].adds
                               /\ run'[w].tagged = run[w].tagged /\ run'[w].local = run[w].local
    BY WriteFields
  <1>5. VisibleListed(w)'
    BY <1>1, <1>2, <1>3, <1>4 DEF VisibleListed, Live, Looping
  <1>6. ListedKept(w)'
    <2> SUFFICES ASSUME NEW r \in run[w].remote,
                        ~(pc'[w] \in {"add", "addWrite"} /\ r \in run'[w].adds)
                 PROVE  \E d \in RowIds : rows'[d].ref = r /\ rows'[d].tag
      BY <1>2 DEF ListedKept
    <2>1. r \notin run[w].adds
      BY <1>3, <1>4
    <2>2. r = run[w].ref \/ \E d \in RowIds : rows[d].ref = r /\ rows[d].tag
      BY <2>1 DEF ListedKept
    <2> QED  BY <1>1, <2>2
  <1>7. CopyKept(w)'
    <2> SUFFICES ASSUME pc'[w] # "activate", NEW d \in run[w].tagged, rows'[d].ref \in run[w].remote
                 PROVE  rows'[d].tag /\ run[w].tagged \subseteq run[w].local
      BY <1>2, <1>3, <1>4 DEF CopyKept, Looping
    <2>1. d \in RowIds
      BY DEF TypeOK, Run
    <2> QED  BY <1>1, <1>2, <2>1 DEF CopyKept, Looping
  <1> QED  BY <1>5, <1>6, <1>7

(* The second loop: a row loses the origin that is not in the listing. *)
LEMMA DroppedRow ==
  ASSUME TypeOK, CopyInv, NEW w \in Workers, DropTagOrigin(w)
  PROVE  /\ \A d \in RowIds : d # run[w].row => rows'[d] = rows[d]
         /\ run[w].row \in RowIds /\ rows[run[w].row].ref \notin run[w].remote
         /\ rows'[run[w].row].ref = rows[run[w].row].ref /\ ~rows'[run[w].row].tag
  <1>1. pc[w] = "dropWrite" /\ rows \in [RowIds -> Row]
    BY DEF DropTagOrigin, TypeOK
  <1>2. run[w].row \in RowIds /\ rows[run[w].row].ref \notin run[w].remote
    BY <1>1 DEF CopyInv, CopyRight, Looping
  <1> QED  BY <1>1, <1>2 DEF DropTagOrigin, Row

(* The write of the dropping loop takes the origin of a row that is not in *)
(* the listing.                                                            *)
LEMMA DropTagOriginList ==
  ASSUME TypeOK, CopyInv, NEW w \in Workers, DropTagOrigin(w),
         VisibleListed(w), ListedKept(w), CopyKept(w)
  PROVE  VisibleListed(w)' /\ ListedKept(w)' /\ CopyKept(w)'
  <1> DEFINE x == run[w].row
  <1>1. /\ \A d \in RowIds : d # x => rows'[d] = rows[d]
        /\ x \in RowIds /\ rows[x].ref \notin run[w].remote
        /\ rows'[x].ref = rows[x].ref /\ ~rows'[x].tag
    BY DroppedRow
  <1>2. run'[w].remote = run[w].remote
    BY WriteRemote
  <1>3. /\ pc[w] = "dropWrite" /\ pc'[w] \in {"drop", "activate"}
        /\ pc'[w] = "activate" => run[w].todo = {}
    BY WriteLabels
  <1>4. pc'[w] # "activate" => run'[w].todo = run[w].todo /\ run'[w].tagged = run[w].tagged
                               /\ run'[w].local = run[w].local
    BY WriteFields
  <1>5. VisibleListed(w)'
    <2> SUFFICES ASSUME NEW d \in RowIds, rows'[d].state = "live", rows'[d].tag
                 PROVE  rows'[d].ref \in run[w].remote \/ (pc'[w] \in Looping /\ d \in run'[w].todo)
      BY <1>2 DEF VisibleListed, Live
    <2>1. d # x /\ rows'[d] = rows[d]
      BY <1>1
    <2> QED  BY <1>3, <1>4, <2>1 DEF VisibleListed, Live, Looping
  <1>6. ListedKept(w)'
    <2> SUFFICES ASSUME NEW r \in run[w].remote PROVE \E d \in RowIds : rows'[d].ref = r /\ rows'[d].tag
      BY <1>2 DEF ListedKept
    <2>1. PICK d \in RowIds : rows[d].ref = r /\ rows[d].tag
      BY <1>3 DEF ListedKept
    <2>2. rows'[d] = rows[d]
      BY <1>1, <2>1
    <2> QED  BY <2>1, <2>2
  <1>7. CopyKept(w)'
    <2> SUFFICES ASSUME pc'[w] # "activate", NEW d \in run[w].tagged, rows'[d].ref \in run[w].remote
                 PROVE  rows'[d].tag /\ run[w].tagged \subseteq run[w].local
      BY <1>2, <1>3, <1>4 DEF CopyKept, Looping
    <2>1. d \in RowIds
      BY DEF TypeOK, Run
    <2>2. rows'[d] = rows[d]
      BY <1>1, <2>1
    <2> QED  BY <1>3, <2>2 DEF CopyKept, Looping
  <1> QED  BY <1>5, <1>6, <1>7

(* Every step of the one worker keeps what it knows of the rows; another   *)
(* configuration ends it.                                                  *)
LEMMA NextListInv ==
  ASSUME OneWorker, TypeOK, TagInv, CopyInv, ListInv, [Next]_vars PROVE ListInv'
  <1> SUFFICES ASSUME NEW w \in Workers, (pc[w] \in Looping \cup {"activate"})', SameConfig(w)'
               PROVE  VisibleListed(w)' /\ ListedKept(w)' /\ CopyKept(w)'
    BY DEF ListInv, ListRight
  <1>1. \A v \in Workers : v = w
    BY DEF OneWorker
  <1>2. CASE Untouched(w)
    <2>1. pc[w] \in Looping \cup {"activate"} /\ pc[w] \notin Waiting
      BY <1>2 DEF Untouched, Looping, Waiting
    <2>2. SameConfig(w) /\ ~RemoveTag
      BY <1>2, <2>1, StaysCurrent
    <2>3. ~AddTagOrigin(w) /\ ~DropTagOrigin(w)
      BY <1>2, WriteLabels DEF Untouched
    <2>4. RowsByUsers
      BY <1>1, <2>2, <2>3, RowWriters
    <2> QED  BY <1>2, <2>1, <2>2, <2>4, UsersKeepList DEF ListInv, ListRight
  <1>3. pc'[w] \notin Calm
    BY DEF Calm, Looping
  <1>4. CASE Fetch(w)
    BY <1>4 DEF Fetch, Goto, TypeOK, Looping
  <1>5. CASE Snapshot(w)
    BY <1>5, SnapshotList
  <1>6. CASE CheckAdd(w) \/ AddTagOrigin(w) \/ CheckDrop(w) \/ DropTagOrigin(w)
    <2>1. SyncStep(w)
      BY <1>6 DEF SyncStep
    <2>2. Continues(w)
      BY <2>1, SyncStepMoves DEF Moves, Ends, Looping
    <2>3. SameConfig(w)
      BY <1>6, <2>2 DEF CheckAdd, AddTagOrigin, CheckDrop, DropTagOrigin, Continues, SamePurpose,
                        SameConfig, HasTag
    <2>4. pc[w] \in Looping
      BY <1>6 DEF CheckAdd, AddTagOrigin, CheckDrop, DropTagOrigin, Looping
    <2>5. VisibleListed(w) /\ ListedKept(w) /\ CopyKept(w)
      BY <2>3, <2>4 DEF ListInv, ListRight
    <2> QED  BY <1>6, <2>5, CheckAddList, CheckDropList, AddTagOriginList, DropTagOriginList
  <1> QED  BY <1>2, <1>3, <1>4, <1>5, <1>6, ListSteps DEF ListStep

(* The invariant of a sync with one worker. *)
THEOREM ListInvariance == ASSUME OneWorker PROVE Spec => [](TypeOK /\ TagInv /\ CopyInv /\ ListInv)
  <1>1. Init => CopyInv /\ ListInv
    BY InitCopyInv, InitListInv
  <1>2. TypeOK /\ TagInv /\ CopyInv /\ ListInv /\ [Next]_vars => CopyInv' /\ ListInv'
    BY NextCopyInv, NextListInv
  <1> QED  BY <1>1, <1>2, Invariance, PTL DEF Spec

(* With one worker: what a sync reports as ACTIVE is the listing. *)
THEOREM ActiveIsListed == ASSUME OneWorker PROVE Spec => []ActivatedListIsTagList
  <1>1. TypeOK /\ ListInv => ActivatedListIsTagList
    <2> SUFFICES ASSUME ListInv, NEW w \in Workers, pc[w] = "activate", SameConfig(w)
                 PROVE  /\ \A d \in RowIds : Live(d) /\ rows[d].tag => rows[d].ref \in run[w].remote
                        /\ \A r \in run[w].remote : \E d \in RowIds : rows[d].ref = r /\ rows[d].tag
      BY DEF ActivatedListIsTagList
    <2>1. VisibleListed(w) /\ ListedKept(w)
      BY DEF ListInv, ListRight
    <2> QED  BY <2>1 DEF VisibleListed, ListedKept, Looping
  <1> QED  BY <1>1, ListInvariance, PTL

-----------------------------------------------------------------------------
(* What the listing says of Paperless.                                     *)

(* As long as nobody retags a document or moves Paperless, the listing is  *)
(* what Paperless has under the tag.                                       *)
PaperlessKnown(w) ==
  pc[w] \in Looping \cup {"snapshot"} /\ spent.retag = 0 /\ spent.repoint = 0 =>
     run[w].remote = {r \in Refs : run[w].tag \in paperless[baseUrl][r]}

(* That, for every worker. *)
PaperlessInv == \A w \in Workers : PaperlessKnown(w)

(* At the start no worker has a listing. *)
LEMMA InitPaperlessInv == Init => PaperlessInv
  BY DEF Init, PaperlessInv, PaperlessKnown, Looping

(* A step that spends something counts it; nothing is given back. *)
LEMMA SpentCounts ==
  ASSUME TypeOK, NEW what \in {"call", "retag", "repoint", "archive", "exception", "crash"},
         NEW bound, Spend(what, bound)
  PROVE  /\ spent'.retag = 0 => spent.retag = 0 /\ what # "retag"
         /\ spent'.repoint = 0 => spent.repoint = 0 /\ what # "repoint"
  BY DEF TypeOK, Spend

(* Who changes Paperless, or what the program calls Paperless. *)
LEMMA PaperlessWriters ==
  ASSUME TypeOK, [Next]_vars, spent'.retag = 0, spent'.repoint = 0
  PROVE  /\ spent.retag = 0 /\ spent.repoint = 0
         /\ UNCHANGED <<paperless, baseUrl>> \/ \E w \in Workers : AssignTag(w)
  <1>1. CASE UNCHANGED <<paperless, baseUrl, spent>>
    BY <1>1
  <1>2. CASE Api
    <2>1. UNCHANGED <<paperless, baseUrl>>
      BY <1>2 DEF Api, SetTag, ChangeTag, RemoveTag, RequestTag, SetRequestedTag, RequestSync,
                CreateRequestedSync, RequestRetry, CreateRetries, LinkPaperlessDocument,
                RemoveDocument, Enqueue
    <2>2. UNCHANGED spent \/ Spend("call", MaxCalls)
      BY <1>2 DEF Api, SetTag, RemoveTag, RequestTag, SetRequestedTag, RequestSync,
                CreateRequestedSync, RequestRetry, CreateRetries, LinkPaperlessDocument,
                RemoveDocument, Enqueue
    <2> QED  BY <2>1, <2>2, SpentCounts
  <1>3. CASE Environment
    <2>1. ASSUME NEW c \in Conns, NEW r \in Refs, NEW t \in Tags, Retag(c, r, t) PROVE FALSE
      BY <2>1, SpentCounts DEF Retag
    <2>2. ASSUME NEW c \in Conns, Repoint(c) PROVE FALSE
      BY <2>2, SpentCounts DEF Repoint
    <2>3. ASSUME \/ IntervalElapses \/ ArchivePolicy \/ \E j \in JobIds : Forget(j)
                 \/ \E w \in Workers : Throw(w) \/ Crash(w)
          PROVE  /\ UNCHANGED <<paperless, baseUrl>>
                 /\ spent.retag = 0 /\ spent.repoint = 0
      <3>1. UNCHANGED <<paperless, baseUrl>>
        BY <2>3 DEF IntervalElapses, ArchivePolicy, Forget, Throw, Crash
      <3>2. \/ UNCHANGED spent \/ Spend("archive", MaxArchives)
            \/ Spend("exception", MaxExceptions) \/ Spend("crash", MaxCrashes)
        BY <2>3 DEF IntervalElapses, ArchivePolicy, Forget, Throw, Crash
      <3> QED  BY <3>1, <3>2, SpentCounts
    <2> QED  BY <1>3, <2>1, <2>2, <2>3 DEF Environment
  <1>4. ASSUME NEW w \in Workers, (\E j \in JobIds : Dispatch(w, j)) \/ Tick(w)
        PROVE  UNCHANGED <<paperless, baseUrl, spent>>
    BY <1>4 DEF Dispatch, DropSettled, SkipJob, StartJob, Tick
  <1>5. ASSUME NEW w \in Workers, Proceed(w), ~AssignTag(w)
        PROVE  UNCHANGED <<paperless, baseUrl, spent>>
    BY <1>5 DEF Proceed, SyncStep, TagStep, MarkRunning, FetchUnreachable,
         FetchRejected, FetchIncomplete, Fetch, Snapshot, CheckAdd, CheckDrop, AddTagOrigin,
         DropTagOrigin, AbortSync, Activate, CompleteSync, StartBackfill, CheckBackfill,
         CreateBackfill, WriteTagging, FinishTagJob, ScheduleSync, RefuseInsert
  <1>6. ASSUME NEW w \in Workers, AssignTag(w) PROVE UNCHANGED spent
    BY <1>6 DEF AssignTag
  <1>7. CASE UNCHANGED vars
    BY <1>1, <1>7 DEF vars
  <1> QED  BY <1>1, <1>2, <1>3, <1>4, <1>5, <1>6, <1>7 DEF Next

(* Every step keeps PaperlessInv: assigning a tag is not a step of a       *)
(* worker that has a listing.                                              *)
LEMMA NextPaperlessInv ==
  ASSUME OneWorker, TypeOK, PaperlessInv, [Next]_vars PROVE PaperlessInv'
  <1> SUFFICES ASSUME NEW w \in Workers, (pc[w] \in Looping \cup {"snapshot"})',
                      spent'.retag = 0, spent'.repoint = 0
               PROVE  run'[w].remote = {r \in Refs : run'[w].tag \in paperless'[baseUrl'][r]}
    BY DEF PaperlessInv, PaperlessKnown
  <1>1. /\ spent.retag = 0 /\ spent.repoint = 0
        /\ UNCHANGED <<paperless, baseUrl>> \/ \E v \in Workers : AssignTag(v)
    BY PaperlessWriters
  <1>2. ~\E v \in Workers : AssignTag(v)
    <2>1. ASSUME AssignTag(w) PROVE pc'[w] = "tagWrite"
      BY <2>1 DEF AssignTag, Goto, TypeOK
    <2> QED  BY <2>1 DEF OneWorker, Looping
  <1>3. UNCHANGED <<paperless, baseUrl>>
    BY <1>1, <1>2
  <1>4. CASE pc[w] \in Looping \cup {"snapshot"} /\ run'[w].remote = run[w].remote /\ run'[w].tag = run[w].tag
    BY <1>1, <1>3, <1>4 DEF PaperlessInv, PaperlessKnown
  <1>5. CASE Untouched(w)
    BY <1>4, <1>5 DEF Untouched
  <1>6. pc'[w] \notin Calm
    BY DEF Calm, Looping
  <1>7. CASE Fetch(w)
    <2>1. run[w] \in Run /\ run \in [Workers -> Run]
      BY DEF TypeOK
    <2>2. run'[w] = [run[w] EXCEPT !.remote = {r \in Refs : run[w].tag \in paperless[baseUrl][r]}]
      BY <1>7, <2>1 DEF Fetch
    <2>3. /\ run'[w].remote = {r \in Refs : run[w].tag \in paperless[baseUrl][r]}
          /\ run'[w].tag = run[w].tag
      BY <2>1, <2>2 DEF Run
    <2> QED  BY <1>3, <2>3
  <1>8. CASE Snapshot(w) \/ CheckAdd(w) \/ AddTagOrigin(w) \/ CheckDrop(w) \/ DropTagOrigin(w)
    <2>1. SyncStep(w)
      BY <1>8 DEF SyncStep
    <2>2. Continues(w)
      BY <2>1, SyncStepMoves DEF Moves, Ends, Looping
    <2>3. run'[w].tag = run[w].tag
      BY <2>2 DEF Continues, SamePurpose
    <2>4. pc[w] \in Looping \cup {"snapshot"}
      BY <1>8 DEF Snapshot, CheckAdd, AddTagOrigin, CheckDrop, DropTagOrigin, Looping
    <2>5. run'[w].remote = run[w].remote
      <3>1. CASE Snapshot(w)
        BY <3>1, SnapshotFields DEF Looping
      <3>2. CASE CheckAdd(w) \/ CheckDrop(w)
        BY <3>2 DEF CheckAdd, CheckDrop, TypeOK, Run
      <3> QED  BY <1>8, <3>1, <3>2, WriteRemote
    <2> QED  BY <1>4, <2>3, <2>4, <2>5
  <1> QED  BY <1>5, <1>6, <1>7, <1>8, ListSteps DEF ListStep

\* The first half of OnlyLostTagsHide: what a worker hides is not in its listing.
OnlyUnlistedHide ==
    \A w \in Workers, d \in RowIds :
        Steps(w) /\ Live(d) /\ rows[d].tag /\ ~(Live(d)' /\ rows'[d].tag)
        => pc[w] = "dropWrite" /\ rows[d].ref \notin run[w].remote /\ rows[d].ref \in Refs

\* The body of OnlyLostTagsHide.
LostTags ==
    \A w \in Workers, d \in RowIds :
        Steps(w) /\ Live(d) /\ rows[d].tag /\ ~(Live(d)' /\ rows'[d].tag)
        => /\ rows[d].ref \notin run[w].remote
           /\ spent.retag = 0 /\ spent.repoint = 0
              => run[w].tag \notin paperless[baseUrl][rows[d].ref]

(* Every step hides only what the listing does not have. *)
LEMMA NextUnlisted == ASSUME TypeOK, CopyInv, [Next]_vars PROVE OnlyUnlistedHide
  <1> SUFFICES ASSUME NEW w \in Workers, NEW d \in RowIds, Steps(w), Live(d), rows[d].tag,
                      ~(rows'[d].state = "live" /\ rows'[d].tag)
               PROVE  pc[w] = "dropWrite" /\ rows[d].ref \notin run[w].remote /\ rows[d].ref \in Refs
    BY DEF OnlyUnlistedHide, Live
  <1>1. ~Api /\ ~UNCHANGED vars
    BY DEF Steps, vars, Api, SetTag, ChangeTag, RemoveTag, RequestTag, SetRequestedTag, RequestSync,
                CreateRequestedSync, RequestRetry, CreateRetries, LinkPaperlessDocument,
                RemoveDocument, Enqueue
  <1>2. ~UNCHANGED rows
    BY DEF Live
  <1>3. ~Environment
    BY <1>2 DEF Environment, IntervalElapses, Retag, Repoint, ArchivePolicy, Forget, Throw, Crash
  <1>4. PICK v \in Workers : Proceed(v)
    BY <1>1, <1>2, <1>3 DEF Next, Dispatch, DropSettled, SkipJob, StartJob, Tick
  <1>5. v = w
    BY <1>4, ProceedMoves DEF Moves, OthersStay, Steps
  <1>6. rows \in [RowIds -> Row]
    BY DEF TypeOK
  <1>7. \A x \in Row : \A u : [x EXCEPT !.tagging = u].state = x.state /\ [x EXCEPT !.tagging = u].tag = x.tag
    BY DEF Row
  <1>8. ASSUME NEW u, NEW e, rows' = [rows EXCEPT ![e].tagging = u] PROVE FALSE
    BY <1>6, <1>7, <1>8 DEF Live
  <1>9. ~AddTagOrigin(w)
    <2> SUFFICES ASSUME AddTagOrigin(w) PROVE rows'[d].state = "live" /\ rows'[d].tag
      OBVIOUS
    <2>1. [rows[d] EXCEPT !.tag = TRUE].state = "live" /\ [rows[d] EXCEPT !.tag = TRUE].tag
      BY <1>6 DEF Row, Live
    <2>2. \/ rows'[d] = rows[d]
          \/ rows'[d] = [rows[d] EXCEPT !.tag = TRUE]
          \/ \E e \in RowIds : FreshRow(e) /\ e # d /\ rows'[d] = rows[d]
      BY <1>6 DEF AddTagOrigin, FreshRow, Live
    <2> QED  BY <2>1, <2>2 DEF Live
  <1>10. DropTagOrigin(w)
    BY <1>2, <1>4, <1>5, <1>8, <1>9 DEF Proceed, SyncStep, TagStep, MarkRunning, FetchUnreachable,
         FetchRejected, FetchIncomplete, Fetch, Snapshot, CheckAdd, CheckDrop,
         AbortSync, Activate, CompleteSync, StartBackfill, CheckBackfill,
         CreateBackfill, AssignTag, WriteTagging, FinishTagJob, ScheduleSync, RefuseInsert
  <1>11. d = run[w].row
    BY <1>10, DroppedRow DEF Live
  <1> QED  BY <1>10, <1>11, DroppedRow DEF CopyInv, AbsentBare, Live, DropTagOrigin

(* Every step hides only documents that lost the tag. *)
LEMMA NextLostTags ==
  ASSUME TypeOK, CopyInv, PaperlessInv, [Next]_vars PROVE LostTags
  <1>1. OnlyUnlistedHide
    BY NextUnlisted
  <1> SUFFICES ASSUME NEW w \in Workers, NEW d \in RowIds, Steps(w), Live(d), rows[d].tag,
                      ~(Live(d)' /\ rows'[d].tag), spent.retag = 0, spent.repoint = 0
               PROVE  run[w].tag \notin paperless[baseUrl][rows[d].ref]
    BY <1>1 DEF LostTags, OnlyUnlistedHide
  <1>2. pc[w] = "dropWrite" /\ rows[d].ref \notin run[w].remote /\ rows[d].ref \in Refs
    BY <1>1 DEF OnlyUnlistedHide
  <1>3. run[w].remote = {r \in Refs : run[w].tag \in paperless[baseUrl][r]}
    BY <1>2 DEF PaperlessInv, PaperlessKnown, Looping
  <1> QED  BY <1>2, <1>3

(* For any number of workers: a worker takes the origin only from links    *)
(* that its own listing lacks.                                             *)
THEOREM UnlistedOnly == Spec => [][OnlyUnlistedHide]_vars
  <1>1. Init => CopyInv
    BY InitCopyInv
  <1>2. TypeOK /\ TagInv /\ CopyInv /\ [Next]_vars => CopyInv' /\ OnlyUnlistedHide
    BY NextCopyInv, NextUnlisted
  <1> QED  BY <1>1, <1>2, Invariance, PTL DEF Spec

(* With one worker: what it hides does not carry the tag. *)
THEOREM LostTagsOnly == ASSUME OneWorker PROVE Spec => OnlyLostTagsHide
  <1>1. Init => CopyInv /\ PaperlessInv
    BY InitCopyInv, InitPaperlessInv
  <1>2. TypeOK /\ TagInv /\ CopyInv /\ PaperlessInv /\ [Next]_vars
          => CopyInv' /\ PaperlessInv' /\ LostTags
    BY NextCopyInv, NextPaperlessInv, NextLostTags
  <1>3. LostTags =>
    \A w \in Workers, d \in RowIds :
          Steps(w) /\ Live(d) /\ rows[d].tag /\ ~(Live(d)' /\ rows'[d].tag)
          => /\ rows[d].ref \notin run[w].remote
             /\ spent.retag = 0 /\ spent.repoint = 0
                => run[w].tag \notin paperless[baseUrl][rows[d].ref]
    BY DEF LostTags
  <1> QED  BY <1>1, <1>2, <1>3, Invariance, PTL DEF Spec, OnlyLostTagsHide

=============================================================================
