# VersiGo: specifications, model checking and proofs

VersiGo is a self-hosted manager of insurance policies: a NestJS API, a BullMQ
worker, PostgreSQL, Redis, a Next.js front end, and external Paperless-ngx and AI
servers.  This directory holds TLA+ modules translated from its source, TLC
configurations that check them on small instances, and theorems that TLAPS
checks for every value of the constants.  `PROJECT.json` is the index: which
definition models which lines, which run checks what, which broken variant of
the code each property detects, and every hazard with its line.

## 1. Inventory of the system

| component | state | operations | what is hard | correct when |
|---|---|---|---|---|
| **paperless-tag-sync** (worker `paperless-tag.processor`, API `paperless-tag.service`, Paperless part of `documents.service`) | `policy_paperless_tags`, `policy_documents`, outbox `paperless_tag_jobs`, BullMQ queue, tags in Paperless, `PAPERLESS_URL` | set/remove tag, request sync, retry, link and unlink a document; SYNC_POLICY, TAG_DOCUMENT, periodic tick | users, two kinds of jobs and an external server change the same rows; every await is a gap; pushes fail, workers die, rows are delivered many times | old jobs do not touch a new configuration; only links whose document lost the tag go; each row settles, once |
| **paperless-access** (`paperless-ngx.service`, `paperless-tag.client`) | cache of dialects; everything else is Paperless | create a tag, give a tag, list a tag's documents, look up | a call is many requests, each to the server configured at that moment; answers of two dialects | what is reported is so, nobody's tags are lost |
| **ai-extraction** (worker `ai-extraction.processor`, API `ai-assist.service`) | `ai_extraction_jobs`, BullMQ queue, `ai_coverage_summaries` | start, extract at once, run in one of two slots, retry a failed job, summarise and trim, propose costs | no outbox; errors swallowed; redelivery; parallel requests | one active row per policy but for overlapping requests, no running row is forgotten, the newest summaries stay |
| **ai-providers-formats** (`foundation/src/ai`, adapters) | none | choose an adapter, cut to the budget, validate answers | rounding, notation of amounts, versions of a format | the budget holds, amounts are not misread |
| **user-accounts** (`user-admin.service`, `privacy.service`, `auth.service`, `local-admin.bootstrap`) | `users` (role, status), household and memberships | register, approve, reject, disable, enable, set role, delete own account, bootstrap at every start | check-then-write under two isolation levels, retried transactions | an active administrator remains; a deletion takes nothing from others |
| **auth-session, login-rate-limiter** (`auth.controller`, `oidc.strategy`, `login-rate-limiter.service`) | session store, cookie, OIDC bindings, counters in Redis | sign in, link, callback, unlink, sign out; count an attempt | a session is loaded, changed and stored by overlapping requests; flows outlive sign-ins | an identity is linked by its owner only; guesses are bounded |
| **documents-storage** (`documents.service`) | document rows, files | upload (row, file, reference), remove, dedupe | a file and a row cannot be written together | each live row has its file and no file is forgotten |
| **policy-registry, family-sharing** | policies, covered persons, portal links, shares | add, change, archive, delete, share, revoke | duplicate check outside the transaction; who may read is decided in two places | one share per member, lists and single policies agree |
| **cost-tracking** (`cost-tracking.service`, `cost-schedule`) | cost entries | create, move, end, remove; schedules and totals | ending and reopening predecessors in overlapping transactions; ends of months | no gap, no change of the past, totals agree |
| **settings-restart, system-config** (`settings-preload`, `settings-catalog`, `restart-coordinator`, admin settings) | settings table, process environment, restart flag in Redis | save by two sets of endpoints, preload at start, request and consume a restart | two processes, one flag; a timeout racing late work; rows of older releases | every process runs on the saved settings in the end |
| **worker-health, monitoring** | heartbeat rows, BullMQ sets | beat, prune, read; retry a failed job | clocks against each other | a living worker is not called dead |
| **personal-preferences** (`language.service`, `user-preferences.service`, contexts of the web) | account, session, cookie, React state | choose, save, load | shown before it is saved | what was chosen comes back |
| **web-policy-page, web-admin-pages** (`apps/web`) | React state, requests under way | every button and effect | answers in any order, after remounts and navigation | no older answer replaces a newer one, no lock is for ever |
| **web-other, audit-profile, portal-connectors-connectivity** | single rows, or none | single-row writes, external I/O, texts | nothing shared | – |

Interaction: the API writes rows in PostgreSQL and pushes row ids to BullMQ; the
worker reads the rows, calls Paperless or an AI provider and writes results back;
both read effective settings (database over environment), and the worker is
restarted through a key in Redis; the web UI sees all of it through requests
that overlap.  No component locks rows; the protection is version columns
compared in code, unique indexes, conditional updates, and serializable
transactions in two places of user administration.

## 2. Modules

| module | role |
|---|---|
| `PaperlessTagSync` | the tag assignment of one policy: API, outbox, queue, workers, Paperless, environment |
| `Outbox` | what the table `paperless_tag_jobs` promises, without queue, worker and tag |
| `MCPaperlessTagSync` | instances for TLC |
| `PaperlessTagSyncProofs`, `PaperlessTagSyncJobs` | proofs: types, versions, what a sync lists and hides; delivery and the refinement of `Outbox` |
| `PaperlessServer`, `PaperlessAdapter`, `PaperlessClient` | one request to Paperless; the calls of the API; the calls of the synchronisation |
| `AiExtraction` | extraction rows of one policy, their BullMQ jobs, the handler |
| `AiAnswers`, `AiProviders`, `CoverageSummaries` | formats of answers; selection and health of providers; summaries and cost proposals |
| `InputTokenBudget` | the token budget of one call |
| `WorkerHeartbeat` | heartbeat rows and the status read from them |
| `MCAiExtraction` | composes the modules above from `AiExtraction` on |
| `AiExtractionProofs` | proofs about each of these and about the composition |
| `UserAccounts` | accounts, roles, transactions under two isolation levels, the default household |
| `LoginSession` | sessions, sign-in, OIDC linking, rate limiter |
| `MCUserAccounts` | composes both |
| `UserAccountsProofs` | proofs about each and about the composition |
| `DocumentStorage`, `HouseholdSharing`, `PersonalSettings`, `MCRecords` | files and rows; policies and shares; language and accent colour; their composition |
| `RecordsProofs` | proofs about files, shares, language and accent colour |
| `CostRules`, `CostTracking`, `CostSchedule`, `MCCosts` | the rule that writes and tables share; the writes; the tables; their composition |
| `CostTrackingProofs` | proofs about the writes and about the starts of periods |
| `SettingsCatalog`, `SystemSettings` | keys, values and the configuration schema; one key on its way into two processes |
| `SettingsProofs` | proofs about both |
| `TabRequests` | what the tabs of the policy page share: list, form, overlapping fetches |
| `ListTabs`, `DocumentsTab`, `PaperlessTagSection`, `PaperlessSearch`, `CoverageSection`, `PolicyPage` | the tabs and the page itself |
| `PageRequests`, `AdminUsersPage`, `SharesPage`, `AdminSettingsPage` | the pages outside of a policy |
| `MCPolicyTabs` | composes the web modules and the calls to Paperless for TLC |
| `WebProofs` | proofs about the calls to Paperless and about every screen |

A composing MC module has a variable (`focus`, `tab`) that says which part a
behaviour is about; the others keep a first state.  The parts share no state in
the code either, so nothing is lost, and their state spaces add up instead of
multiplying.

### PaperlessTagSync and Outbox

State: `config` is the `policy_paperless_tags` row (`version = 0`: no row; `id`
counts created rows, so that a deleted and re-created one is told apart), `rows`
are `policy_documents` of type PAPERLESS_LINK with their two origins
(`linkOriginManual`, `linkOriginTag`) and `taggingStatus`, `jobs` are outbox rows,
`unsent` rows committed by the API whose push has not been tried, `queue` the ids
waiting in BullMQ, `pc`/`run` where a worker is and what it read, `request` the
reads of an API call that writes later, `paperless` the tags on each server.

A database transaction is one step.  A handler is cut at every await after which
another party can change what it read.  The worker's sync is: take a job and check
it (`DropSettled`, `SkipJob`, `StartJob`), `MarkRunning`, `Fetch*`, `Snapshot` of
the local links, then for each missing link `CheckAdd`, `AddTagOrigin`, for each
superfluous one `CheckDrop`, `DropTagOrigin`, then `Activate`, `CompleteSync`,
`StartBackfill`, `CheckBackfill`, `CreateBackfill`; `AbortSync` is any check that
fails.  TAG_DOCUMENT is `AssignTag`, `WriteTagging`, `FinishTagJob`; the
repeatable job is `Tick`, `ScheduleSync`.  `Crash` is a dead process (BullMQ
delivers the job again, and gives up a job that stalls twice), `Throw` an
exception that `process()` swallows, `Enqueue` a push that may fail.

`Outbox` is the promise: a row is posted, withdrawn by its owner, or delivered; a
delivery marks the row, writes its result at most once and ends; deliveries of a
row do not overlap; what was completed or withdrawn is not delivered again; a row
is sent back at most `MaxRetries` times.  The refinement maps `delivery` to where
the worker that holds the row is.  What makes it more than a renaming: a worker
decides by a status and a retry counter it read earlier, and the abstract
`Begin`, `SendBack` and `Finish` speak of the row as it is now.

Abstractions: one policy (policies share only the queue); `setTag`'s external
lookup lies between its read and its transaction, other access checks are in the
step that writes; READ COMMITTED effects inside one transaction are left out, as
are the P2002 fallback's second read and an empty `PAPERLESS_URL`; batches of 200
and 500 rows are unbounded; of a document's tags in Paperless only those of the
policy matter; an exception in a handler's reads is `StartJob` followed by
`Throw`; a FAILED row that is delivered again runs again, as in the code.
`Fetch` takes a listing as exact; `PaperlessClient` shows when it is
(`ListingIsWhole`).  Deleting a policy, audit events and progress counters are
not modelled.

### PaperlessServer, PaperlessAdapter, PaperlessClient

`host` is the server `PAPERLESS_URL` names, `flavour` its dialect, `dialects` the
adapter's cache, `catalogue` and `marks` the tags there are and the tags of each
document, `accepted` bulk edits Paperless has accepted and not carried out, `asks`
the calls under way.  One request with its answer is a step (`OneRequest`): it
goes to the server of that moment, after a probe of the dialect if the cache has
none, and its answer is one of the classes the code tells apart.  Pages are
offsets: a document that loses the tag while the walk goes on moves the others to
earlier pages.  `createTag` looks only at the first hundred hits (`Buried` tags
are not among them).  The fields `alone`, `steady`, `heard`, `kept` and `lossy`
of a call are history for the properties: what they promise is promised where
nobody else interfered.

### AiExtraction

State: `rows` are status and retry counter of `ai_extraction_jobs`, `bull` the BullMQ
job of each row (waiting, active, completed, failed; whether it stalled before and
whether it is delivered again), `work` where the handler of a row is, `call` the
`startExtraction` requests, `policy` whether the policy is still there.  A row has
one BullMQ job because `queue.add` is called once for it, and BullMQ gives a job to
one slot (the same assumption as below for the tag queue).

`StartExtraction`, `CreateRow`, `PushRow` are the three awaits of the request that
matter; `AbandonCall` is a throw or a dead process between any two.  The handler is
`Take`, `MarkRunning`, then `StoreResult` (SKIPPED or COMPLETED), `PutBack` (the
provider answered with nothing and retries are left) or `GiveUp`, then `Finish`.
`Throw` is an exception anywhere in the try block, the first read of settings
included; `Catch` is the catch block, which leaves PENDING rows alone and fails all
others, even completed ones; `CatchFails` is an exception inside it, one of the
two ways a job becomes a failed one.  The other way is `Crash`, which frees both
slots of the process: a job that stalls for the second time is a failed one.
`DeletePolicy` deletes rows under the handlers' hands.

Abstractions: one policy; the documents and the facts are choices of outcome; a read
of the row followed by a write of it in the handler is one step, because no one
else but the deletion of the policy writes it.

### AiAnswers, AiProviders, CoverageSummaries, InputTokenBudget, WorkerHeartbeat

A text is its length, a summary its version, sections and hints; `ValidSummary`
and `SummaryOf` are validation and clean-up of an answer, for new answers and for
stored ones of older versions.  An amount is groups of digits with the separators
between them, which is all `parseMoneyAmount` looks at.  `CoverageSummaries`
starts with numbered rows that earlier versions may have stored.  It selects documents (with its limits,
and a confirmation if some cannot be read), asks, asks once more if the answer does not fit, and stores in a transaction of three
steps whose view of the other rows may be old.  `AiProviders` has the adapter that
the settings select, by API and by worker, and the verdicts of the health check.
`InputTokenBudget` is the loop of `applyInputTokenBudget`, one document a step; a
cut at a word boundary may end at any admissible length.  `WorkerHeartbeat`
counts time in intervals; all clocks agree.

### UserAccounts and LoginSession

`users` (status and role per id; an id is used once), `local` the row that
bears `LOCAL_ADMIN_USERNAME`, `household` and `members` the household `default` and
its memberships, `call` the requests under way, each with what it has read.

A request is cut after its session guard and after the reads of its transaction;
its writes appear with the commit, in one step.  `approve`, `reject`, `enable`
(`ReadAccount`, `WriteDecision`) and `deleteAccount` (`CountAdmins`,
`CountMembers`, `DeleteAccount`) run at PostgreSQL's default READ COMMITTED: each
statement sees what is committed, and a write by id hits the row whatever its
status has become.  `disable` and `setRole` (`Snapshot`, `CommitChange`) are
serializable.  The database aborts such a transaction (`AbortChange`,
`runSerializable` tries again) if its row has been written since the snapshot, or
if two of them have counted administrators: the count scans `users` (no index has
role or status), so each has read what the other writes.  PostgreSQL may abort
more often, and `AbortChange` may be taken at any time; it is not obliged to abort
less.  A serializable transaction is not protected from one that is READ
COMMITTED, which is what `accounts_reject` shows.  `GiveUp` is any exception,
early return or dead process.  The bootstrap is `FindLocalAdmin`,
`CreateLocalAdmin` (another API may have been faster) and `EnsureDefaultHousehold`,
its separate last transaction; the first start may have failed before that one.

`Alone` names operations that overlap no other request in an instance.
`deleteAccount` is always in it: ADR-008 accepts that two concurrent deletions may
remove all administrators, and a member approved between its count and the
deletion of the household would lose the membership.  `reject` is in it where
`AdminRemains` is to hold.  Everything else overlaps freely.

`LoginSession` is one browser with one cookie.  As in express-session, a request
works on a copy of its session, which is stored with the answer if the request
changed it; `regenerate` removes the old session and makes a new id.  A flow is
what the OIDC provider knows: who started it, for which purpose, whether its code
is used; a callback may bring any flow.  The rate limiter's check, increment and
expiry are steps.  It fails open: a check that gets no answer lets the attempt
through (`Passes`), an increment that gets none leaves it uncounted (`RedisFails`);
`excused` remembers the scopes where that happened.

Abstractions: whether policies are left in the household is a free choice;
policies, passwords and audit rows are left out (an inactive account is refused by
the guard, a request already past it goes on); the local name is known and no
placeholder password is configured.

### DocumentStorage, HouseholdSharing, PersonalSettings

`DocumentStorage` has `papers` (rows), `disk` (files) and `request`.  An upload is
`UploadCheck`, `UploadCreate`, `StoreFile` (or `UnwindRow`), `UploadFinish` (or
`DiscardFile`), a removal `RemoveFile`, `ArchiveRow`; `HardDelete` and
`DeleteAccount` cascade to the rows, and the latter sweeps the files afterwards.
`loose`, `bare` and `twins` remember the cases the code gives up (a file left by a
dead process, a row whose file could not be written, overlapping uploads of one
content); without them `FilesRight` would be false, with them it says there is no
other case.

`HouseholdSharing` has `registry` (policies), `member` (roles) and `shares`.  A share
is created in two steps, `ShareCheck` and `ShareInsert`; policies change their type,
members leave and change roles in between.  `Listed` is `getReadablePolicyIds` as the lists use it,
`MayRead` is `assertPolicyReadAccess`: the same decision, written twice.

`PersonalSettings` holds two settings shown before they are saved.  The language
lives in the account (or in the session of a READ_ONLY user), the cookie and the
page; the accent colour goes to the server as a hexadecimal colour and comes back
through a conversion that is computed in full.  `tidy` and `orderly` say that no
two choices overlapped.

### CostRules, CostTracking, CostSchedule

`CostTracking`: `costs` are entries with start and end (an end the millisecond
before the next start is `t - 1`), `booking` the transactions.  A transaction is
what it reads before its first write (`BeginCreate`, `BeginUpdate`,
`BeginRemove`), the predecessor it then picks (`Pick`), and `Commit`; others
commit in between.  `raced`, `limited` and `advanced` remember overlapped
transactions, entered end dates and entries moved to an earlier start, for which
the comments of the code allow gaps.

`CostSchedule` computes the tables: dates are `month * 32 + day` in a calendar with
leap years, amounts are cents, `NoAmount` is null.  `GetSchedule` is the policy
page's, `HouseholdSummary` the household page's, both over `entryForPeriod`
(`CostRules`).

### SettingsCatalog, SystemSettings

One key's way: `row` the settings row in the database, `file` the text in `.env`,
`procs` the two processes with their environment and the value they were built
with, `asked` the restart key in Redis, `calls` the administrators' requests,
each a look and a write.  A text is what it reads as and how it is spelt, so that
validation, canonical form and the schema's parsing can disagree.  The initial row
may hold anything an older release accepted.  A worker is up once it is built
(`Built`); the API then asks whether anybody can sign in (`Open`,
`OpenWithoutDatabase`: `IdentityModule.onModuleInit`) and ends if nobody can.
`local` is local sign-in, which only the file can switch; it is the one place where
another key matters.  `mishap` is everything outside the
program: a database slower than the timeout of 15 s, a request lost by Redis.

### The web modules

`TabRequests` is a list, one form and numbered fetches: a request is `fresh` until
the counter moves and `mine` until the tab is unmounted.  A request is sent,
served by the API (`ServeList`, `Commit`, `Refuse`: in any order), and answered,
which is an action of the tab.  The tabs differ in what they number: submits take
the current number, deletes a new one, the quiet refresh none; the module of each
tab has its own actions.  `PaperlessTagSection` adds polling with stray timers,
`PaperlessSearch` the two delayed searches, `CoverageSection` a view state written
by whichever request is answered.  `PageRequests` is the same for pages without
numbers: `busyId` locks a row, one lock the form, and an action reloads with the
function of the rendering it began in.

## 3. Runs

| run | question | result |
|---|---|---|
| `tag_sync` | two tags, two configurations, two rows, the user acts at every await | types, versions name tags, ACTIVE means the whole listing is applied, statuses go to their own tag, only lost tags hide links |
| `tag_requests` | sync requests, retries, ticks (periodic sync off), lost pushes, a dying worker | one run per row, retry budget, completed rows stay completed, the outbox is implemented |
| `tag_live` | fairness, an unreliable push, an unreachable server, one dead worker | every outbox row settles |
| `tag_drift` | two servers, `PAPERLESS_URL` changed twice | the drift is reported as ERROR in the end |
| `tag_manual` | violation | a manual link made during a sync is hidden |
| `accounts` | two requests at a time on three accounts, the API starting, retries; or one browser's sign-ins, linkings and sign-outs | an administrator remains, memberships go with their own account only; identities are linked by their owner, a session id keeps its user, guesses are bounded, blocks end |
| `accounts_reject` | violation | a rejection that overlaps an approval and a promotion disables an administrator unchecked |
| `ai_extraction` | extraction; summaries and proposals; health; budget; heartbeats | few active rows, running rows have a job, settled rows stay settled; newest summaries stay, amounts are not misread; the budget is kept; the status is true |
| `records` | files; shares; language; accent colour | rows and files belong together, lists and policies agree, what was chosen comes back |
| `costs` | entries by two users; tables on critical days | distinct starts, no gap, unchanged past, consistent tables |
| `settings` | a switch, OIDC with and without local sign-in, a number, a secret; two admins, two processes | the UI shows what runs, a row prevents a start only where it takes away the last way to sign in, a saved value takes effect |
| `web` | tabs, pages, calls to Paperless | locks are backed, lists never go back, answers about Paperless are true |

The two violation runs each check one sentence of a comment against the code;
`PROJECT.json` quotes it and describes the counterexample.

Several properties are conjunctions of named parts, one per module or screen
(`WebTypeOK`, `ViewBacked`, `PaperlessAnswersTrue`, `AnswersKept`, `ScheduleRight`,
`FilesRight`, `SharesRight`, `LoginRight`, `ChoiceKept`): the part's own comment
says what it promises, and there is a mutant for parts of each.

Size: `tag_sync` 3.1 million distinct states, `web` 1.6 million, `tag_requests` 1.2
million, `accounts` 0.7, `ai_extraction` 0.5, `settings` 0.7, `records`
0.35, `costs` 0.2 million.  All runs are complete: they explore their instance to
the end.

Bounds.  *Tags*: one or two documents and two rows show a document with and without
a link and one hidden earlier; two tags and two configurations, with
`MaxVersion = 2`, give both ways a version can be reused or passed; one worker is
the deployment's number, and `ActivatedListIsTagList` needs it: two overlapping
SYNC_POLICY rows (possible, see the hazard at `paperless-tag.service.ts:521`) on two
workers break it.  `MaxJobs` bounds rows in use (`Forget` frees settled rows nobody
refers to) or, with `Forgetful = FALSE`, rows ever created.  `MaxRetries = 1`
instead of 3 still has both outcomes.  `tag_requests` switches the periodic sync off:
three calls (set the tag, link, retry) with two workers and a crash are then
explored in full; the other runs have it on, the theorems both.
*Accounts*: two requests at a time show every pair of overlapping transactions
(three would show chains, which the theorems cover), three accounts leave one that
is neither request's target, `MaxAttempts = 2` has a retry and a last attempt.
READ_ONLY acts like USER except that such an account may not delete itself;
nothing else tells them apart, so roles assigned are USER and ADMIN.  *Login*: two
flows, two accounts, one identity and four requests are a flow of each kind with a
sign-in or sign-out between; `MaxGuesses = 1` blocks after one guess.
*AI*: three rows and two requests show two rows started side by side and a third
refused; two crashes make a job stall twice; `Keep = 2` summaries instead of five,
with two transactions; the answers lie at the limits of the format (2000
characters in all, 8 sections, 12 items, 80 and 300 characters) and just beyond;
the budget's limits and lengths are small numbers around multiples of
`CharsPerToken` and `MarkerLength`, up to three documents.  *Heartbeats*: two
workers over seven intervals, longer than timeout (3) and retention (4) together
with a restart.
*Records*: two documents of one content, two requests, one death; two members, two
policies of two types, two shares; two choices each, two requests under way.  The
colours are the five presets and others of at least half the full saturation.
*Costs*: three entries, times 0 to 2, four bookings: insertion before, between and
after, moves over a neighbour.  The ledgers of the tables have anchors on the 30th
and the 31st of January and the 29th of February, an increase, a gap, an overlap,
billing by month and half-year, entries by month, quarter and year, and amounts
that do not divide.
*Settings*: two booleans of the restart category, one of which the API looks at before
it opens; a number of that category, which the schema takes in a wider range than the
catalogue; a secret that every start preloads; three events.
*Web*: two rows, two requests under way, two mounts, two changes; a page of one
document and two pages, one change from outside per call to Paperless.
Each bound stops the system, so deadlock is not checked.

Fairness.  Tags: `WF(Proceed)`: a running worker goes on.  `SF(Tick)`: the
repeatable job comes again and again.  `SF(Dispatch)` per job: BullMQ is
first-come, first-served.  `WF(IntervalElapses)`: time passes.  `WF(Forget)` only
frees places of the bound.  Settings: Compose restarts a process that has ended,
its code goes on, the worker polls for restarts.  Users, administrators, faults
and the API's pushes owe nothing.  The liveness runs of the tags leave out
swallowed exceptions and a second crash of one job, under which a row stays
RUNNING; both are listed as hazards.  The other specifications have no fairness,
because the code has nothing that repeats there: a request that dies is not
tried again by anybody.

Assumption about BullMQ: a job is not given to a second worker while its first
worker lives.  It would be if the lock could not be renewed (Redis unreachable
longer than the lock), and then `OneRunPerJob`, `RetriesBounded` and
`ImplementsOutbox` fail.

## 4. Proofs

| theorem | statement |
|---|---|
| `TypeCorrect` | `Spec => []TypeOK` |
| `VersionNames` | `Spec => []VersionNamesTag` |
| `OwnStatusOnly` | `Spec => StatusIsOwnTags` |
| `ActiveIsListed` | `OneWorker`: `Spec => []ActivatedListIsTagList` |
| `LostTagsOnly` | `OneWorker`: `Spec => OnlyLostTagsHide` |
| `UnlistedOnly` | `Spec => [][OnlyUnlistedHide]_vars` |
| `RunsOnce` | `Spec => []OneRunPerJob` |
| `RetryBudget` | `Spec => []RetriesBounded` |
| `CompletedForGood` | `Spec => CompletedIsFinal` |
| `RefinesOutbox` | `Spec => ImplementsOutbox` |
| `AdminStays` | `NotOverlapped => (Spec => []AdminRemains)` |
| `MembersStay` | `NotOverlapped => (Spec => MembershipKept)` |
| `AccountTypes` | `NotOverlapped => (Spec => []TypeOK)` |
| `AllTyped` | `NotOverlapped => (MCSpec => []TypesOK)` |
| `LoginTypeCorrect` | `LoginSpec => []LoginTypeOK` |
| `SignInRight` | `LoginSpec => []LoginRight` |
| `SessionIdHasOneUser` | `LoginSpec => SidKeepsUser` |
| `ExtractionTypes` | `Spec => []TypeOK` |
| `RunningRemembered` | `Spec => []RunningHasJob` |
| `SettledForGood` | `Spec => SettledStays` |
| `ActiveRowsAreFew` | `Spec => []FewActive` |
| `BudgetIsKept` | `BudgetSpec => []BudgetKept` |
| `WorkerStateTrue` | `HeartSpec => []HeartbeatTrue` |
| `FewNewestKept` | `SummarySpec => [](Capped /\ NewestStays)` |
| `AllAiTyped` | `MCSpec => []TypesOK` |
| `OnlyAcceptedShown` | `MCSpec => [](OnlyAccepted /\ Capped /\ NewestStays /\ WorkerAgrees)` |
| `FilesAlwaysRight` | `StorageSpec => []FilesRight` |
| `SharesAlwaysRight` | `SharingSpec => []SharesRight` |
| `RecordsTyped` | `Spec => []RecordsTypeOK` |
| `ChoiceAlwaysKept` | `Returning`: `Spec => []ChoiceKept` |
| `CostTypes` | `CostSpec => []CostTypeOK` |
| `NoTwoStartTogether` | `CostSpec => []StartsDistinct` |
| `NoGapEver` | `CostSpec => []NoGap` |
| `PastNeverRepriced` | `CostSpec => HistoryKept` |
| `PeriodsAligned` | `ScheduleSpec => []StartsAligned` |
| `SettingsTypes` | `SettingsSpec => []SettingsTypeOK` |
| `ShownIsRunning` | `SettingsSpec => []EffectiveIsRunning` |
| `ProcessesStart` | `SettingsSpec => []BootSurvives` |
| `PaperlessAlwaysTrue` | `WebSpec => []PaperlessAnswersTrue` |
| `WebTyped` | `WebSpec => []WebTypeOK` |
| `ScreensBacked` | `WebSpec => []ViewBacked` |
| `ListsGoForth` | `WebSpec => ListNeverGoesBack` |

The theorems named `...Invariance`, `MarkedRowsOpen` and `BudgetInvariant` are the
inductive invariants they rest on.

What is assumed of the constants, besides that bounds are natural numbers and that
a value for "none" is not one of the others: there is at least one checksum
(`Sums # {}`, or no upload has a content); entries, requests of the extraction and
askers of summaries are finite sets, because they are counted or searched; the keys
are keys of the catalogue; the rows of earlier versions are numbered apart and no
more than the code ever kept; a heartbeat is deleted no sooner than it counts as
missed; Paperless has at least one document and one tag, and a page of a listing
holds at least one document; 0 is among the token limits (it means "unlimited",
`settings-catalog.ts:191`); English is a language; accents are hues and
saturations; dates are days of the calendar from 2000 to 2099, and the rows of a
policy's costs are numbered as they were inserted.  The code has each of these; the
century is the one of the model, whose leap years come every four years.

One theorem has a hypothesis about a conversion of data.  `Returning` says of the
accent colours a user can pick that each survives the way through the hexadecimal
form; the presets do (`PresetsReturn`, proved), and TLC has looked at them.  It is a
statement about a constant, and none about requests: what the theorem adds is that
no order of requests and failures undoes it.

**Tags.**  The theorems follow from `BoundsAssumption` only, for any number of
workers, documents, tags, jobs and requests.  Types are not inductive alone: a
worker copies `config.tag` into a field of type `Tags`, so `TagsKnown` (a
configuration with a version has a tag) belongs to the induction.
`VersionNamesTag` follows from `TagInv`: the current row's id is the last one
handed out, every run and request remembers a row id handed out before and a
version no greater than the present one of that row, and at equal versions the tags
agree.  The job theorems follow from `JobInv`: a worker that is not idle holds a
row, nobody else holds or queues it, the retry counter it read is the row's, and a
row someone works on is not COMPLETED.  Each proof has one lemma per action and
combines them by cases on `Next`.

**What a sync lists and hides.**  A sync works on copies: the listing of Paperless
(`run.remote`), the rows it read once (`run.local`), and what its two loops have
still to do.  `CopyInv` holds for any number of workers: no row of the copy has
vanished, rows keep their documents (a row is archived, never deleted), and what
is to lose its origin is not in the listing.  `UnlistedOnly` follows from it.  For
`ActiveIsListed` the rows have to be today's as well: `ListInv` says, for a run under
the current configuration, that a visible link is in the listing or still to be
dropped (`VisibleListed`), that a listed document has its row or is still to get it
(`ListedKept`), and that a row copied with the origin has kept it (`CopyKept`).  Users
do not disturb it: what they add is not automatic, what they hide is not visible, and
they never touch the origin.  An administrator's change of the tag ends the run's
claim.  A second worker would disturb it: `OneWorker` is needed, it is what the
deployment runs, and two workers break the property on a small instance.
`LostTagsOnly` adds `PaperlessInv`: while nobody changes Paperless, the listing is
what Paperless has under the tag, because the only other writer of tags, the
assignment of a tag, is a step of a worker that has no listing.

**Refinement.**  `PaperlessTagSyncJobs` shows that every step of `Next` is, for every row, one
of the steps of `Outbox` or none.  `JobInv` is nearly enough: it says that a
delivery has one worker, so `Delivery(j)` has one value.  What it lacks is that a
row whose delivery was marked can still be written over: `MarkedIsOpen` adds that
its status is RUNNING or, withdrawn meanwhile, SKIPPED.  The proof goes row by row:
`RowPosted`, `RowRests`, `RowSuperseded` and the like say which abstract step a
change of a row is, and each concrete action is reduced to them.  Actions touch
many rows at once (`CreateRetries`, the transaction of `setTag`, the tick), which
is why the abstract specification lets several rows move in a step.

**Token budget.**  The loop keeps `sent + remaining = limit`, which gives the sum.  That
no document within an equal share is cut needs more: a document can be longer than
what is left divided by the rest only if it exceeds the share of the whole limit.
`ShareLeft` is the invariant: what remains is at least the number of documents to
come times `limit \div count`.  It survives a step because the quota is rounded
down and a shortened text never costs more than its quota; the arithmetic of
`\div` is in lemmas of its own.  Both hold for any documents, limit, marker and
token size.

**Heartbeat.**  `RowsFresh` counts: a row of a running worker is behind by no more than
the heartbeats that failed in a row, and one that is still due.  `RowsLived` gives the
other direction.  The newest row exists because times are bounded (`GreatestExists`,
by well-founded induction over the natural numbers).

**Summaries.**  A cleanup decides in a transaction whose view may be old, and several
may be under way, so that the table is small now says nothing of later.  `CapInv` says
it of every set of open cleanups: whichever of them commit, at most `Keep` rows
and one per further request are left (`After`).  Reading the surplus establishes it for
the sets with the reader, and a commit makes one of the sets the table.  `DropsOld`
gives `NewestStays`: what is to go has a newer row that stays.

**Answers.**  `AnswersInv` follows an answer from the provider to the table: what a
request carries after validation, at once or after a repair, is what an accepted
answer was made into, and a proposal stands beside the bill it was accepted for.
That accepted summaries can be read back, and amounts are the bill's, is the formats'
doing and not the requests': TLC looks at it answer by answer (`StoredReadable`,
`AmountsRead`).  Cleanups take rows away and change none; a
document excluded or archived meanwhile ends a request.  That the worker agrees with
the API (`AdaptersAgree`) needs no invariant: it holds for any settings of a provider.
`AiInvariance` puts the invariants of the five parts together, from which the types
of the composition follow.

**Accounts.**  The theorems hold for any number of accounts, requests, retries and any
assigned roles.  `NotOverlapped` says that `reject` and `deleteAccount` are in `Alone`;
`accounts_reject` shows that it cannot be dropped.  `AdminRemains` is not
inductive.  `AccountInv` adds that an operation in `Alone` is alone, and for each
request what its reads still guarantee: a serializable transaction that is not
stale has another active administrator than its target (or its target is no
administrator), a rejection's account is still pending, a deletion has an
administrator to spare.  A commit either leaves these facts of the others
untouched or makes them stale.

**Extraction.**  The theorems follow from `ExtractionAssumption` and `ExtractionInv`: a
handler works on a row exactly if its BullMQ job is active; a handler that is done
has left a status other than RUNNING; a settled row's job is delivered again, is
over, or has a handler that is done; and BullMQ does not know a row that a request
has created and not pushed, which no other request has created.  The last part is
what makes `PushRow` harmless.  A step of one row changes nothing else
(`OneRowStep`), so most lemmas look at that row only.  `FewActive` adds a count
(`FewInv`): active rows and requests that have checked and not yet created one are
together no more than there are requests.  A check passes only when there is no
active row, a creation turns the one into the other, and `ExtractionInv` says that
no handler makes a settled row active again unless its job is delivered again.

**Sign-in.**  A request works on a copy of its session, so every fact about sessions has
to hold for copies too.  `LinkInv`: where the link mode is, in the store or in a copy,
the flow next to it was started for linking by the session's own user; a callback
takes both out together.  `SidInv`: ids are given out once, and everybody who holds a
copy under an id holds it for the id's user, so that a late answer cannot put
another user's session back.  `CountInv`: what is counted and the requests that have
passed the check without having been counted are together at most the limit and one
request each; a request passes only below the limit, and a failed call excuses its
scope.

**Files and shares.**  `StorageInv` says who answers for a file: a row, a request that is
at it (`Held`), or one of the cases the code gives up; `InOrder`, what a request holds
at each of its steps; `ChecksStand`, that every live row of an upload's content
that was made after its check is in the request's `clash`, which is how
`ContentOnce` survives a check outside the transaction.  `SharingInv` is the same
argument for shares (`PendingKnown`); that the list and the single policy agree
follows from the types.

**Language and colour.**  A page, a cookie or its storage, the server and the requests
between them hold copies of one choice.  `TidyLines` says what they hold as long as no
two choices overlapped: the page waits for at most one answer (`Awaits`: what the
answer will make it do agrees with what the page, the cookie and the server have),
requests of pages that are gone have been served, and where nothing is awaited all agree.
`Kept` is the same for the colour: a put that is not served carries the chosen
colour, otherwise the server has it, and a load brings nothing else.  A conversion
stays within a hue's and a saturation's range for every colour, which takes bounds of
quotients one by one.

**Costs.**  The chain of entries is what makes the argument: `Chained` says that an entry
that ends does so just before another starts, no two before the same one, and none
ends before it starts; so one of them is open, and no time after a start is without.
`Bounded` and `Current` say what the checks at a transaction's beginning leave when
others commit before it (its entry may be gone, its dates stay in order), and
what they leave while nobody does.  Inserting, moving and removing an entry then
are changes of a chain at one or two places.  The predecessor is picked by a maximum,
which exists because the entries are finite.  `HistoryKept` needs no chain:
an entry that ends at or after the earlier date still contains every time before it.

**Periods.**  `PeriodsAligned` is about single computations: `addMonthsClamped` keeps
the month that is due and shortens the day only to the last one of the month, so the
k-th start lies k steps after the first whatever day that is; no drift, since each is
counted from the anchor.  Every month that is due is reached, because one step
more is tried than the horizon has room for.  The anchor and the billing
step exist because the rows have a least start, and one that covers the day or
begins last.

**Settings.**  A value goes from a row through a canonical text into an environment and
from there into a configuration.  `CatalogEntries` looks at all entries: one that
the preload copies has a type whose valid texts the schema takes too, and numbers
there are positive.  `SettingsInv` says what a process has in its environment (the
deployment's text, or a valid canonical one) and, once it has been built in time, that
its value is the one of its environment.  For the API that is about to open it says
where a switch that is off has come from: the file, or the row this start has read
(`OpeningFinds`).  `ProcessesStart` is therefore no promise that the API always
starts.  It says which row alone can prevent it.

**Calls to Paperless.**  Calls interleave request by request with each other and with
whoever works on the server.  `PaperlessInv` says of each call what it has seen that
is still so: a repeated search after a refusal will find the name unless it is hidden
(`CreateSafe`), names to be fetched exist (`MetadataSafe`), an assignment knows all
tags of its document until it writes (`AssignSafe`).  For a listing it counts:
of the documents that bore the tag throughout, those whose rank is on the pages
before the next one have been found (`WalkSafe`).  Giving others the tag only
raises ranks; taking it from one ends the claim, which is the case the property
leaves out.  Whatever happens outside is a notice to every call (`Noticed`), so that
lemmas about notices (`Bystander` and those after it) cover all other callers and
the lemma of a step looks at its own call.

**Screens.**  `ScreenInv` has a part per tab and per page.  The tabs number their loads
or cancel them: among the requests under way at most one load is the newest, and no
answer is from the future of the table (`NewestLoad`, `RevsPast`), from which the
list cannot go back.  A lock stands for one save (`OneSave`), a spinner for its
load, a poll for its timer, its read or a reload.  What a step does to requests is
one of few moves (sent, sent anew, given up, answered, freed), whose effect on loads
and saves is proved once.  The pages of the administrator have no numbers, and need
more: `RowsFollow` says that unless reads crossed (`crossed`) there is at most one,
with the filter that is set, and that while no write is committed and unanswered, the
rows that are shown or on their way are the table's.  `EntriesFollow` says it entry by
entry for the settings, where an answer replaces a single one, and `DocumentsFollow`
for the documents of the policy picked for a share.  Everything a page shows at rest
follows.

Only model-checked: everything under fairness (`EveryJobSettles`, `DriftIsReported`,
`SavedTakesEffect`: ENABLED and fairness are beyond the prover); the parts of
`ScheduleRight` about sums (totals of a policy and of the household, amounts scaled
between frequencies), which are folds over the rows and would need induction over
data; `Returning` beyond the presets, and that what validation accepts can be read
back with the amount of the bill (`StoredReadable`, `AmountsRead`), for the same
reason.

## 5. Observations

What the modelling brought up, beside the two findings of `PROJECT.json`.  Where a
property would be false, the model has the case, and the property says so or leaves
it out.  Most cases contradict nothing the code promises.  Five contradict a comment:
that no second SYNC_POLICY run is started, that an empty answer is tried again, that a
summary payload is never cut, what an `unknown` worker is, and that every position of
a schedule contributes.  They are named with their lines below.

*Tag synchronisation.*  A re-created configuration starts at version 1 again, so a run
of the deleted one goes on under it (`paperless-tag.processor.ts:511`).  APPLIED is
written without a look at the version (716): a document can be confirmed for the
old tag after `setTag` reset it.  A second SYNC_POLICY run can be started
(`paperless-tag.service.ts:521`) although 518-520 says it never is.  A user's
unlinking and a sync's removal of the automatic origin, each seeing the other's
origin, leave a visible link without an origin (`documents.service.ts:723`).  A
row that stays RUNNING after a swallowed exception or a second stall blocks all
later syncs of its policy.

*Paperless.*  One call's requests may hit different servers.  A document that loses
the tag between two pages hides others, whose links the sync then drops.  If the
bulk endpoint answers 404 and the PATCH fails on the network, the result is
DOCUMENT_NOT_FOUND, for which there is no retry.  A cached dialect is never probed
again after an upgrade of the server.  `createTag` looks at the first hundred hits
only and may miss the exact name.

*AI.*  The throw for a retry is caught in the same method, so the announced retry never
happens and the row stays PENDING (`ai-extraction.processor.ts:521`, 549).  A row
whose push fails is pushed by nobody.  A summary payload between the token budget
and the character limit is cut although `ai-assist.service.ts` says near 628 that
it never is.  With an unknown `AI_PROVIDER` the worker uses Ollama and the API
nothing; the worker's adapters ignore `CONNECTIVITY_ALLOW_SELF_SIGNED`.  `Fr. 123.45`
is read as 12345: amounts with a dot before the number are outside `AmountsRead`.
A worker that was seen long ago and pruned is `unknown`, which the documents call
never seen.

*Sign-in.*  A sign-out that overlaps a request which changes the session is undone by
it.  A death between increment and expiry leaves a counter that never ends.

*Records.*  A share with WRITE gives no read access, and shares of single documents
give none either.  Overlapping choices of a language, or a lost answer, leave page
and server different; accent colours of low saturation change by the round trip
through hexadecimal (the presets do not).

*Costs.*  Overlapping transactions may pick a stale predecessor and leave an overlap.
An entry that contains no start of a period contributes nothing, although
`cost-schedule.ts:172` says every position contributes.  Without a payment
frequency of the policy, a change of the active entry divides the past anew.

*Settings.*  An administrator can save `OIDC_ENABLED=false` while local sign-in is off
in the file: `SystemConfigService.update` does not look, and from the next start on
the API refuses to run (`identity.module.ts:66`) until the file or the row is
changed by hand.  The refusal is documented (`settings-catalog.ts:527-529`); other rows
cannot cause it.  The older PATCH without a value writes back what it read.
`OIDC_CLIENT_SECRET` is shown as active at once though it is read at boot only.
The environment may have values the UI does not accept (200 attempts), which run
while the UI shows the default.  Work of a preload that timed out still changes the
environment of the started process.

*Web.*  Regenerating a summary is not held back by the consent to the transfer.  An
older answer may replace a newer one in the document search, the summary and the
pages without numbers; the documents' spinner may stay when a quiet refresh crosses
a reload, which is why `SpinnerEnds` leaves that tab out; an answer to a creation
that comes after a poll has reloaded never releases the lock of the tag section; a
row action finished after a change of the filter reloads the list of the old one;
a finished update closes the edit of another row.  Choosing the blank option of the
share form while documents of a policy are read leaves them offered under no policy
(`household/shares/page.tsx:162-163`; `astray`).

## 6. Plan and what is not modelled

Possible next steps: policy deletion in `PaperlessTagSync`; several policies in one
queue; the export and the deletion of personal data.

Not modelled: texts, layout, styles and translations of the web (a third of its
lines); data transfer objects and their validation decorators; readers of PDF and
text files; prompts; encryption of secrets, which is an opaque step; audit rows,
which no step reads; the portal catalogue and the connectivity guard, which keep no
state; the stagger of synchronisation intervals; settings of a household; scripts
of the build.  What recursive or folding definitions compute for every input is
checked on bounded inputs only.
