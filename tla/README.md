# Verification of the finance-intelligence services

TLA+ models of the concurrent core of finance-intelligence, model-checked with
TLC on small instances and proved with TLAPS where a statement can be proved
for every instance. Everything is translated from the code under `src/`;
`PROJECT.json` maps each definition to the lines it stands for.

Paths below are short for: **A** `src/services/api/app/`, **W**
`src/services/worker/app/`, **V** `src/services/api/alembic/versions/`, **M**
`src/apps/mobile/lib/`.

## 1. The system and its parts

A FastAPI service and two kinds of worker processes share one PostgreSQL
database with row level security; a Flutter app talks to the API. There is no
message broker: a queue is a table, a claim is a row update inside a stored
procedure, a lease is a timestamp, and mutual exclusion is `SELECT ... FOR
UPDATE`. Every interaction between components goes through committed rows.

| Component | State it keeps | Operations | What makes it correct |
|---|---|---|---|
| Analysis API (A `routers/analyses.py`) | `analysis_jobs` | create, cancel, status, result, event stream | a cancellation is applied; a result is served only for the run that owns it |
| Claim authority (V `031`, W `analysis_worker.py`) | claim token, `locked_by`, lease, `recovery_count` | claim, recover, renew, heartbeat, poll | one owner per token; recovery only before side effects; no stale owner writes |
| Engine (A `orchestration/engine.py`) | job status, attempts, events, snapshot | fence, plan, policy, clarify, tool, complete, fail | the fence holds as long as the row lock; one dataset, one outcome |
| Clarifications (A `services/clarification_service.py`) | `analysis_clarifications` | require, respond, cancel, expire | job and clarification close together; no double answer; no lasting deadlock |
| Events (A `orchestration/event_engine.py`, A `routers/analyses.py`) | `analysis_events` | emit, replay after a number | numbers without gap or repeat under concurrent writers |
| Mobile analysis controller (M `features/analysis/`) | in-memory view state | submit, stream, answer, cancel, fetch the result | a late event or reply never overwrites what is shown of another analysis |
| Request understanding (A `orchestration/request_normalizer.py`, `period_expression.py`, `policy_engine.py`, `quality_gate.py`) | none | match, clarify, plan, gate | a completed analysis answers the question that was asked |
| Comparisons (A `services/comparison_service.py`, `api/v1/comparisons.py`) | stored datasets | execute, page | every figure can be traced; the pages are pieces of one ranking |
| Ingestion (W `ingestion_worker.py`, `command_envelope.py`, `main.py`, V `009`, `033`) | `ingestion_jobs`, `ingestion_attempts`, `document_versions`, command log | sign, poll, claim, parse, publish, record a failure | one verdict and one extraction per version; attempts are numbered and bounded; nothing waits behind a job that cannot be claimed |
| Upload (A `api/v1/documents.py`, `services/reference_service.py`) | sessions, versions, stored objects, reference counts | upload, finalize, compensate, clean up, reconcile | a version has its content; an object is deleted only when nothing refers to it |
| Extraction (A `services/fact_extraction_service.py`, `fact_candidate_service.py`, `llm_fact_extraction_service.py`) | candidates, institutions, periods | extract from tables, extract with a model | a candidate can be pointed at in the document |
| Facts (A `services/financial_fact_service.py`, V `010`) | facts, revisions, candidates' review | approve, approve as revision, reject | one line of revisions per natural key; an approval rests on a current fact |
| Calculations (A `services/calculation_service.py`) | requests, attempts, calculations | run, record a failure | the same inputs are calculated once, from facts that are current at the commit |
| Migration runner (A `migration_execution/`) | schema revision, privileges, memberships | provision, migrate, reconcile, verify | the phases fit the revision; no privilege outlives its need; a passed verification stays true |
| Maintenance (W `maintenance_worker.py`, V `024`) | `maintenance_jobs`, heartbeat | claim, clarification expiry, lease recovery | see section 7 |
| Provider resilience (A `orchestration/circuit_breaker.py`, `transient_retry.py`, `tool_dedup.py`, `budget.py`, V `025`) | breaker rows, fingerprints, counters | allow, success, failure, retry | see section 7 |
| Parsers, UI, CI scripts, registries | files, configuration | | data and layout, no protocol |

How they interact: the API inserts a job, a worker claims it, the engine runs
it inside one database session whose commits release the row lock, the
clarification handlers of the API move the same row, and the expiry handler
moves it from the other side. The comparison service is called by the engine
*on the engine's own session* and commits there. The finalize endpoint queues
the document that the ingestion worker parses; its extraction writes the
candidates that reviewers make facts, which calculations and comparisons read.

What is hard: two workers that both believe they own a job; a commit in the
middle of a run that drops the lock; a handler that reads without the lock and
writes after waiting for it; a locking read that waits and then finds its row
superseded; two handlers that take the same two locks in opposite orders; an
object store outside the transaction; a process that dies between two commits;
a lease that runs out under a live worker; a reply that arrives on another
screen. `PROJECT.json` lists each such hazard at its line with the properties
that cover it, or with the reason why none does.

## 2. Modules

| Module | What it is |
|---|---|
| `JobStates` | status vocabulary, transition table, status lists of the fence and of recovery |
| `AnalysisJobs` | the analysis plane: API, claim authority, engine, heartbeats, clarification handlers, crashes, time |
| `AnalysisLifecycle` | abstract specification: what one analysis looks like to its client |
| `ClarificationLocks` | the row locks of `ClarificationService`, one by one, with the deadlock detector |
| `ClarificationSteps` | abstract specification: the same handlers one at a time |
| `AnalysisClient` | event logs with concurrent writers, and the mobile controller that follows them |
| `Comparisons` | one comparison beside changing facts: two reads, policies, ranking, pages |
| `AnalysisAnswers` | extends `Comparisons`: from the prompt to the tool call, from the dataset to the gated narrative |
| `DocumentStates` | the job and version tables of `StateMachineService` and the parsers' verdicts |
| `IngestionQueue` | the ingestion plane: finalize, poll, claim, parse, publish, failure recording, crashes, time |
| `IngestionLifecycle` | abstract specification: what a client sees of an uploaded version |
| `Uploads` | upload and finalize beside the object store, the reference counts and reconciliation |
| `ContentStore` | abstract specification: which object stands for which content |
| `FactExtraction` | extends `Uploads`: what is extracted from a version |
| `FactReview` | approve, revise, reject by concurrent reviewers |
| `Calculations` | extends `FactReview`: calculations that read the facts under review |
| `FactLedger` | abstract specification: what reviews and calculations promise together |
| `Migrations` | migrate, provision, reconcile and verify on one database |
| `MC...` | constants for TLC |
| `..._proofs` | inductive invariants and theorems (section 5) |

The modules that extend another compose it: `AnalysisAnswers`, `FactExtraction`
and `Calculations` interleave their own actions with those of the module they
extend, on its variables. Some modules define beside an action or operator a
variant of it (`BeginUnlocked`, `RankingUnsorted`): what the code would be
without the lock or the step in question. No specification uses them;
`PROJECT.json` names, for each property, the variant that breaks it.

### AnalysisJobs

*State.* One function per column of `analysis_jobs` that a decision depends on
(`status`, `claim_token`, `locked_by`, `lease`, `recovery_count`), the tables
that hang off a job (`attempts`, `clars`, `datasets`, `snapshots`, `outcomes`),
the row lock, and per worker the engine's local variables: where it is (`pc`),
the job, token and attempt it believes it has (`held`, `tok`, `att`), the
status it has flushed but not committed (`mem`), and whether its heartbeat has
given up (`lost`). Committed and flushed state are separate on purpose: what
the engine flushes is invisible to every other session until a commit.

*Grain.* An action is the part of a handler between two points where another
session can act. The engine's run falls into: claim, first fence (lock),
flushes, the commit of `require_clarification` or of the tool (unlock), the
fence after it (lock again), and the final or failing transaction. Handlers
that lock, write and commit without an await in between that matters are one
action; the cancel handler is two, because it reads without the lock.

| Action | Code |
|---|---|
| `CreateAnalysis`, `CancelRead`, `CancelWrite` | A `routers/analyses.py` |
| `Claim`, `Recover`, `TakeOver`, `HeartbeatRenews` | procedures of V `031` |
| `PollEmpty`, `PollMiss`, `HeartbeatFails`, `HeartbeatCancels`, `Crash` | W `analysis_worker.py`, `main.py` |
| `StartEngine`, `Advance`, `DenyByPolicy`, `ParkAttempt`, `Reassert`, `Complete`, `Fail`, `PersistFailure`, `LoseOwnership` | A `orchestration/engine.py` |
| `RunTool` | A `services/comparison_service.py`, called by the engine |
| `RequireClarification`, `Respond`, `RespondTooLate`, `CancelClarification`, `ExpireDueClarifications` | A `services/clarification_service.py` |
| `LeaseExpires`, `ClarificationDue` | the clock |

*A parked engine.* `require_clarification` commits, and the tenant setting was
local to that transaction (`set_config(..., true)`). What the engine then writes
by primary key matches no row, the flush raises, and the failing path loses its
fence because the job waits. `ParkAttempt` therefore always leads to "failing".
This holds for every role the service can run under: 020 and 036 force row
security on the tables, for their owner too, and the deployment's verification
refuses a role that bypasses it (A `migration_execution/verification.py:92`).

*Abstractions.* Claim tokens are numbered per job instead of drawn from
`gen_random_uuid`; attempts are identified by position; the claim takes any
eligible row instead of the oldest; the plan has its one step; an exception
raised by prompt building, a provider, the budget, an open breaker, the quality
gate or a unique index is `Fail`; one raised outside the engine's `try` leaves
the worker as `Crash` does; of all events only the terminal ones are kept. The
deduplication branch of the tool call is unreachable, since each run has a
fresh `ToolDedup` and one step. `expire_due_clarifications` raises in the middle
of a batch for a job that is neither over nor waiting; `ClarificationMatchesJob`
shows there is none, so that path is not an action.

### AnalysisLifecycle

Absent, open, waiting, and four ways to be over. One dataset at most, produced
while open; success needs it, and sets status, result and announcement in one
step. `AnalysisJobs!ImplementsLifecycle` maps the rows to it. A batch of the
expiry handler moves several jobs in one commit, so the abstract next-state
relation lets every job take a step of its own at once.

### ClarificationLocks

Starts where a job waits and has its one open clarification. `respond` and
`cancel` lock the job, then the clarification; `expire_due_clarifications` locks
up to `BatchSize` clarifications with SKIP LOCKED, then their jobs one by one.
Nothing is written before the commit. `BreakDeadlock` is PostgreSQL's detector:
either of two sessions that wait for each other is aborted. The cancellation of an
analysis is two steps as in `AnalysisJobs`: `CancelRead` reads and validates
without a lock (analyses.py:210, 235-236), `CancelWrite` comes at any later time,
waits for the lock of the job's row alone and overwrites whatever status there is
by then, EXPIRED included; a request may also end in between (`CancelDies`).

`AnalysisJobs` takes each of these handlers as one action, although it waits
between its two locks and reads before it writes. `ClarificationSteps` has them in
that form, and `ImplementsSteps` shows that the locked handlers do nothing else:
each takes effect at its commit as if it ran alone, and an abort or a refusal is a
stutter. The cancellation of an analysis has no such step: the specification has
it in the same two, with the overwriting.

### AnalysisClient

*Server.* A log of numbered events per job, and writers: a transaction reads the
largest committed number (`BeginEmit`) and commits its batch under the numbers
that follow (`CommitEmit`), unless the unique index on the numbers or the fence
on the job refuses it. `Batches` are the commits of one run: the tool commits the
events before it, and what follows comes with the result; a clarification and a
denial by policy commit all at once; a failure is recorded alone. Cancelling emits
nothing, nor does the answer that comes too late; the expiry handler emits even for
a job that has ended meanwhile (clarification_service.py:380-395). *Client.*
`client` is what `AnalysisController` keeps: active job, shown status, last number
applied; `streams` and `calls` are what is on its way. A reply or an event is
delivered at any later time.

| Action | Code |
|---|---|
| `BeginEmit`, `CommitEmit` | A `orchestration/event_engine.py` and its callers' transactions |
| `ExpireClarification` | `expire_due_clarifications` |
| `Serve` (`Create`, `Respond`, `RespondTooLate`, `GiveUp`, `CancelRead`, `CancelWrite`, `Snapshot`, `Refuse`), `Replay` | A `routers/analyses.py`, `services/clarification_service.py` |
| `Submit`, `AnswerClarification`, `GiveUpClarification`, `CancelAnalysis` | the user, M `analysis_controller.dart` |
| `Replied` (`CreateReplied`, `RespondReplied`, `GaveUp`, `RefreshReplied`, `FetchReplied`), `Deliver`, `StreamBreaks`, `StreamEnds` | what finds its way back |

The event stream replays once and ends, and the client does not reconnect. The
controller does nothing with what a cancellation answers, nor with a refresh that
fails. An event that leaves a gap is not applied; the controller asks for the state
of the job that is active then (`Gap`, analysis_controller.dart:265-269), and what
comes back later is shown whatever is active by that time
(`RefreshReplied`, 396-407): a completion that is another analysis's, and the
result fetched for it. `ShownIsTold` says that, of progress, questions, completions
and expiries, this is all of another analysis that can show. The controller is built without its resume store
(M `presentation/providers/providers.dart:146-151`) and nothing calls
`restorePendingAnalysis`, so a restart begins from nothing. What the model makes
visible and no property forbids, since nothing in the repository promises
otherwise: a new submission keeps the last applied number of the old one, so the
first events of the second analysis are skipped; a "completed" event carries no
job id, so the result is fetched for the empty id and fails; a late reply to
giving up the clarification of an earlier analysis shows "cancelled" over a
running one.

### Comparisons and AnalysisAnswers

A cell is an institution and a period. `ReadFacts` and `ReadCalculations` are the
two statements, each with a snapshot of its own; before, between and after them
`ApproveFact`, `ReviseFact` and `CompleteCalculation` change what there is: a fact
may be revised into another amount, or into one whose evidence has no usable
coordinates. A cell may have several completed calculations, of which the last one
read wins (comparison_service.py:341, `LastRead`). A fact in another currency than
the one asked for, or one without usable evidence under the strict policy, ends
the request (`Unreadable`, `RefuseFacts`). `Dataset` applies the source policy with
its fallbacks, the evidence and period policies, the ranking and top-n; `Store`
commits it and serves its first page, `GetPage` the later ones. `past` remembers
the figures there were to use at each moment from the request to its last read.
Facts and calculations are of two such moments; the code promises no common one,
and neither does `FiguresTraceable`.

In `AnalysisAnswers` the request is one made over HTTP or the tool call of one
analysis. `Clarify` and `MakePlan` are the normalizer and the planner, `Compare`
the tool, `Narrate` a model that claims any set of numbers, `RunGates` the
quality gate. The answer to a clarification does not occur: the normalizer reads
the request's prompt only. A prompt names at most one line of the catalog (a
bound; of two names that overlap the code returns both). The normalizer is always
the heuristic one, since the transport wired in returns no JSON. Other behaviour
of the code that the models carry or leave out: the gate is handed the dataset's
id alone (engine.py:455-465), so a figure above ten passes only when its digits
occur in the id; the narrative sees only the first page; the reporting basis is
not among the tool's arguments (engine.py:266), and the models have one basis;
the charts of later pages are those of the first (`charted`).

What a prompt means is said in `Meant` by the quarters of time that a wording and a
stored period cover, apart from how the normalizer matches them. It keeps what the
code takes a question to be, which may be less than its words: a period that is
quoted silences every other wording of a period (period_expression.py:151), and a
quarter silences every bare year (request_normalizer.py:144-158). Nothing in the
repository says that a question about "Q1 2026 and 2025" is about both.

### IngestionQueue

| State | In the code |
|---|---|
| `status`, `current_attempt`, `stale` | `ingestion_jobs`; `stale` is "locked_at is older than 15 minutes" |
| `owner` | `locked_by` and `claim_token`. A worker handles one job at a time and draws a token per claim, so the comparison of both columns with its `ClaimedJob` says that the last committed claim is its own |
| `rowlock` | the open transaction that has the row FOR UPDATE |
| `version`, `attempts`, `results` | `document_versions.ingestion_status`, rows of `ingestion_attempts`, number of `extraction_results` |
| `pc`, `held`, `number` | where a worker is between two transactions, its job, the attempt number it remembers |

| Action | Code |
|---|---|
| `Finalize` | last transaction of `finalize_upload` |
| `Poll` | `fetch_next_queued_ingestion_job` (033), read without a lock |
| `Claim`, `ClaimNothing`, `CommitClaim` | `claim_ingestion_job` (009) with SKIP LOCKED, and the commit with the command log |
| `Begin`, `BeginRefused` | head of `_process_claimed_job` up to the version's transition |
| `Publish`, `PublishUnacknowledged` | the try block; in the second its commit takes effect and raises |
| `ParseFails`, `Relock`, `RecordFailure`, `RecordRefused` | the except block: rollback, FOR UPDATE, claim test, requeue or fail |
| `Expire`, `Crash`, `Killed` | time, a process that dies, a file that may kill the process parsing it |

What a transaction writes is invisible until its commit, so the increment of
`current_attempt` and the version's PARSING appear only in the committing action.
The lock is open between claim and processing and between a failed parse and its
record, and these are the places where another worker can get in. A worker that
comes back from a failed parse may take the row from a successor that has just
claimed it, whose SKIP LOCKED then finds nothing: both give up, and the job waits
for the lease of the second. Left out: the envelope's signature, expiry and
replay log, since each turn of the loop signs an envelope and consumes it; the
branch for a missing version (the foreign key excludes it); the pages, chunks
and candidates, which are committed with the extraction result.

`IngestionLifecycle` has neither workers nor claims: a version is queued, attempted
up to `MaxAttempts` times, each attempt under its number, and ends with a verdict.
`ImplementsIngestion` maps the rows to it; the attempts on record are the rows of
`attempts` as a set (`OnRecord`), since a worker whose FAILED took effect without
its knowing records it again, under the number it already has.

### Uploads and FactExtraction

| State | In the code |
|---|---|
| `session`, `late`, `rows` | `upload_sessions`, those past `expires_at`; the rows that a look-up of an institution's or a period's name finds, by spelling |
| `stored`, `undone` | the objects; those that a compensation deleted (history) |
| `canonical`, `count` | `stored_objects`: the object that stands for a content, its count |
| `pc`, `target`, `dup`, `todo`, `inserted` | where a finalize request is, its session, whether its object is a duplicate, names still to be looked up and those inserted and not committed |

| Action | Code |
|---|---|
| `Stream`, `OpenSession`, `AbandonUpload` | the upload endpoint: object first, row second |
| `Begin`, `Acquire`, `Commit`, `CommitUnacknowledged` | `finalize_upload`, statement by statement |
| `Find`, `Miss`, `FindTwo`, `Insert`, `InsertAgain` | the look-up and the insert of each name in `ensure_reference_data` |
| `CreateByHand` | a reviewer's own institution or period (A `api/v1/facts.py:170-223`) |
| `Fail`, `Compensate` | its except blocks: rollback, then deletion of the object |
| `Cleanup`, `CleanupFails`, `Crash` | deletion of a duplicate after the commit |
| `Recount`, `Overwrite` | `ReferenceService.reconcile`, which counts before it locks |

An institution's name and a period's key are unique (V `008:57`, `008:80-82`). Of two
requests that both miss a name and insert it, the second waits for the first and then
fails (`InsertAgain`): nothing went wrong, but its object is deleted by the except
block (documents.py:338-346) while its session stays UPLOADED and can never be
finalized. The look-up is wider than the constraint: it ignores letter case and the
type of a period, so a second spelling created by hand makes it find two rows, which
fails every later finalize and every extraction of that name (`FindTwo`,
`NameAmbiguous`; `scalar_one_or_none`).

The compensation reads an attribute of the session after the rollback has expired
it, so that it may raise before it deletes; `Compensate` allows both outcomes. The
production store swallows an error of a deletion and the local one raises;
`CleanupFails` and `Crash` stand for both. An extraction is one step: it is part
of the transaction that holds the job FOR UPDATE, and nothing else writes
candidates (the path for a lost race in `create_candidate` is unreachable). A
model's report is accepted when its figure occurs in the excerpt, as a number or
inside of one: the test for "printed verbatim" is one of substrings
(llm_fact_extraction_service.py:272). A label is used as an ILIKE pattern
(fact_candidate_service.py:27,40); one that matches two metrics ends the whole
extraction (`LabelAmbiguous`).

`ContentStore` is the store without requests, locks and names: an upload is
published once, in one step; the first object published stands for its content
from then on (`KeyOf`), the others may go. Only undoing takes an object that stands
for content, which the compensation of a commit that raised may do to an upload
that is published. `ImplementsStore` maps the rows to it.

### FactReview and Calculations

At READ COMMITTED a locking read finds its row in the statement's snapshot, waits
for it, and tests the condition again: a fact that was superseded meanwhile is
dropped, and its successor is not found. Reading is therefore two steps, `Look`
and `LockFact` for a review (`LookRole` and `LockRole` for a role of a
calculation).

| Action | Code |
|---|---|
| `Approve`, `Revise`, `LockFact` | the reads of `approve_candidate`, `approve_candidate_as_revision` |
| `Corroborate`, `RecordConflict`, `RefuseRevision`, `Insert`, `InsertRefused`, `CommitFact`, `AbortReview` | its outcomes; the partial unique index of V `010` in `Insert`/`InsertRefused` |
| `Reject` | `reject_candidate` |
| `Start`, `LookRole`, `LockRole`, `LockRoleAmbiguous`, `RefuseInputs` | reads of `run_calculation` |
| `LockRequest`, `Complete`, `CompleteUnacknowledged`, `Raise`, `Victim` | request row, result, commit; `Victim` is the one the deadlock detector picks |
| `Reuse`, `Return` | an existing row is returned without a commit (calculation_service.py:586): its locks last until the caller ends the transaction |
| `LockForFailure`, `RecordFailure`, `GiveUp` | the second transaction after a failure |

A reviewer may name the reporting basis at approval (financial_fact_service.py:75,
140, 303), so a candidate can become a fact of one of several keys (`KeysOf`,
`natural`).

`FactLedger` is what the two services promise, without transactions, snapshots,
row locks, indexes or attempts: a decision on a candidate enters a figure,
confirms the one in force or rejects, once and at once; a calculation is made of
figures in force, once and at once. `Calculations!ImplementsLedger` maps the rows
to it: the entries are the facts without their links, the figure in force of a key
is its current fact, the verdict and its basis are `review_status` and
`created_fact_id`. The commits are the points at which the steps take effect.

The unique index on the hash of a calculation is left out on purpose:
`CalculatedOnce` shows that the locks on the facts suffice for it. A calculation
is not invalidated by a later revision, so `InputsCurrentAtCommit` speaks of the
commit. A run that waits for a fact under revision finds none and refuses,
although its successor exists; a repeated approval is refused by the index.

### Migrations

A revision is a number, of which only 023, 024, 026, one below and some above
matter to the code. `runner` and `prov` are what an execution of `migrate` and of
`provision-database` knows; `create`, `owners`, `claim`, `roles` are privileges,
memberships and roles of the database; `verifier` is where `verify` is. A
transaction that commits in one place is one step; the clean-up of privileges is
not, as its REVOKE is in force only when the connection next commits
(`Cleanup`, `CommitNothing`, `CommitCleanup`).

| Action | Code |
|---|---|
| `Connect`, `Acquire`, `CheckLock`, `ReadRevision`, the phases, `GrantCreate`, `Cleanup`, `Unlock`, `UpgradeRaises`, `RunnerDies` | `alembic_runner.py`, `compatibility/` |
| `StartProvision` to `Harden`, `Revoke`, `ConfirmRevoked`, `ProvisionerDies` | `provisioning.py` |
| `JoinFails`, `StatementFails`, `PollTimesOut`, `CleanupFails` | its statements that raise, the GRANT and the REVOKE among them |
| `Reconcile`, `Verify` | `reconcile-role-membership-attributes`, `verification.py`, gate by gate |

Behaviour worth knowing, which the properties are worded around. When phase 3
fails, the REVOKE is issued in a transaction that is never committed, so
`db_bootstrap` keeps CREATE, although the comment at alembic_runner.py:326 and a
test on mocks (test_migration_runner_remediation.py:506) say otherwise; started
from 026 or above, the next run then fails its parity check after it has
committed the upgrade, and the one after that succeeds without doing anything.
`UpgradeLeavesNoCreate` speaks of runs that upgraded and got past their clean-up.
`CheckLock` counts rows of the lock table, waiting sessions included, so a waiting
runner can make the holder fail.

Provisioning may leave postgres its membership in db_owner although its finally
block revokes: when the process dies, when the REVOKE is refused, which is logged
and no more (provisioning.py:251-256), and when the GRANT was done but its
acknowledgement was lost between lines 161 and 162, so that the execution does not
know of it. Later runs take what is left for a membership that was always there.
`lapsed` marks these three, and ends with the next REVOKE; `MembershipIsTransient`
says that there is no fourth. On PostgreSQL 16 (`Servers`) CREATE ROLE makes a
creator that is not a superuser a member of the role: then nobody grants (line 157)
and nobody revokes, the gate on memberships never passes, and whether that
membership is enough to own the database depends on the server's settings
(`OwnDatabase`, `OwnSchema`). A verification reads gate by gate; `since` collects
what happens after each: an upgrade, and a provisioner that joins db_owner once
Gate 5 was read. A verification that passed is then not true of that gate, and
`VerifiedStaysTrue` says exactly so. The passwords of the roles are left out.

## 3. Runs

| Run | Instance | Question |
|---|---|---|
| `jobs` | 1 job, 2 workers, 1 cancelling client | all safety, fencing and liveness properties, and the life cycle |
| `clarification_locks` | 2 jobs, 1 answer, 1 cancellation of a clarification, any of an analysis, 2 expiry workers, batches of 2 | lock order, deadlock, abort; each handler as if alone |
| `ingestion` | 2 workers, 2 jobs of which the older may kill its worker, 2 attempts, 2 faults, 2 slow parses | what is recorded of a job and by whom; what a client sees of it; is the job behind a lethal one ever done |
| `uploads` | 3 sessions, 2 of the same bytes, 2 requests, 2 names, one of which is created in another spelling too, 1 fault, 1 reconciliation, 1 extraction | objects and what they stand for, counts, who waits for whom, candidates |
| `figures` | 3 keys, 4 candidates with 2 values, one of them on either basis, 2 reviewers, 2 calculations, 3 requests for 2 formulas | revisions, inputs, nothing twice, and the ledger |
| `comparisons` | 2 institutions, 2 periods, 2 ledgers, every policy, limit and order, 2 changes by 3 candidates and 2 results; prompts over the same and 2 years | traceability, paging, answers |
| `migrations` | 2 runners, 2 provisioners, 3 executions, a fresh database or one at 23 or 30, images 30 and 36, PostgreSQL 14 and 16, 1 crash, 1 failure | revision, privileges, verification, termination |
| `client` | 2 analyses, 2 writers on one job at a time, 6 events, 2 calls under way | numbering, what is shown of which analysis |
| `jobs_terminal` | as `jobs` | violation: a terminal status is overwritten |
| `jobs_abandon` | as `jobs` | violation: recovery abandons no attempt |
| `jobs_resume` | 1 job, 1 worker | violation: an answered job is not run again |
| `ingestion_budget` | 1 lethal job, 1 worker | violation: attempts that kill the worker are not counted |

*Bounds.* No state constraint is used: what grows is bounded in the guards, by
named constants.

* `AnalysisJobs` needs none. A job is claimed once and recovered once
  (`recovery_count`), and every engine run appends at most one attempt; a third
  worker could only wait. Two workers are the owner and its successor. One job is
  enough, since no action but a batch of expiries touches two, and the batch is
  what `clarification_locks` is about. There two expirers and two clients are the
  sessions that can meet on a pair of rows.
* `IngestionQueue`: `MaxFaults` (crashes and lost acknowledgements) and `MaxSlow`
  (leases that expire under a live worker, parses of more than 15 minutes); the
  lease of an orphan and a lethal file are not bounded. Two of each let a takeover
  be taken over again. `MaxAttempts` is 3 in the code and 2 in the run: an attempt
  that is followed by another, and one that is the last. Of the five verdicts TLC uses one that ends well and
  FAILED, the only one a handler compares with; the proofs take all.
* `Uploads`: `MaxFaults`, `MaxReconciles` and `MaxExtractions` are 1. Two sessions
  of the same bytes and a third that shares their names are all the ways in
  which uploads meet; that all three are of one filing makes them meet on its names
  too; an extraction has candidates of both tables and models, and
  `MaxCandidates` = 2 is reached.
* `FactReview` and `Calculations`: `MaxFacts` = 3 is a revision of a revision, or a
  second key; `MaxOpen` = 2 reviews or runs under way at a time are the pairs that
  meet on a row; `MaxRuns` = 2, `MaxRejections` = `MaxFaults` = 1. Two requests have
  one formula, and two formulas read the same keys in opposite orders, which makes
  deadlocks.
* `Comparisons`: `MaxChanges` = 2 changes before, between or after the two reads;
  `PageSize` = 2 with four cells makes two pages.
* `Migrations`: `MaxStarts` = 3 executions of either command, `MaxCrashes`,
  `MaxFailures` 1: two that meet, and one that comes after one has failed or died. 23
  is below the bridge and 30 above it; a database that the second image has taken
  to 36 is beyond the first.
* `AnalysisClient`: `MaxSubmits` = 2 analyses, `MaxCalls` = 2, and `MaxEvents` = 6: a
  whole run of one analysis and the events of the other that a late reply, a gap and
  its refresh need. Both writers are of one job, as events of two never meet.

Requests, the two sessions of the same bytes, reviewers, calculations, jobs and
writers are permuted (SYMMETRY) in `uploads`, `figures` and `client`, where they are interchangeable and no
liveness is checked. The type invariants are not among the runs' properties: they
are proved, as parts of the inductive invariants. `Drained`, `Settled`, `Idle`, `Ended` and the
like are stutters of a system that is done, so that a deadlock is an error.

*Properties of the analysis plane.* `FenceHoldsUnderLock`: the checks inside a
transaction cannot begin to fail half-way. `ToolEffectOnce`: recovery stops where
side effects start. `ResultIsOwners`, `OutcomeReportedOnce`, `FencedWrites`: no
late owner is heard. `TerminalOnlyToCancelled`: what is left of finality.
`ClarificationMatchesJob`: an answer never collides with the attempt numbering, a
batch never raises. `JobPickedUp`, `RunEnds`, `CancelLands`: nothing waits for
ever. `ClosedTogether`, `DeadlocksArePairs`, `SessionsEnd`: the same for the
two-row handlers; `ImplementsSteps`: that they wait between their locks is not seen
in what they do (`ClosedStays`, the part of it about closed clarifications, is
proved only). `EventsNumbered`: the number of the last event is a
place to resume from. `ShownIsTold`: what is shown is in the events of the active
analysis, but for a completion that a refresh found, which is in the events of the
analysis it asked about. `FiguresTraceable`: a dataset is what there was at two
moments since it was asked for, nothing invented and nothing passed over.
`PagesAreOneRanking`: what its pages show. `AnswersTheQuestion`: a completed analysis
has a row exactly for the institutions and periods that the prompt means (in the
sense of section 2) and that had a figure of its line when they were read.

*Properties of documents and figures.* `AttemptsNumbered`, `VersionFollowsJob`:
three tables written in one transaction or another agree through every rollback.
`ImplementsIngestion`: together they tell of one attempt after the other, with one
extraction and one verdict (`ExtractedOnce`, the part of it about extractions, is
proved only). `WaitingHasAttemptLeft`: the poll and the claim, which differ by a
condition, never disagree. `RecordedByOwner`: a late worker changes nothing.
`UploadsEnd`: every upload that can be parsed gets a verdict. `ImplementsStore`:
the first publication settles which object stands for a content, and removing
duplicates never takes that one (`ContentKept`, which says that it is there, is
proved only). `OrphansAreFaults`: an object
nobody can reach is the trace of a fault. `CountCoversVersions`: a count is never
zero for content in use. `SomeRequestGoesOn`: finalize requests wait for
each other's content and names, yet never in a circle.
`CandidatesAreSourced`: a candidate can be pointed at, and is of no period but the
filing's. `RevisionsFormOneLine`,
`InputsCurrentAtCommit`, `CalculatedOnce`: what decisions and calculations rest
on. `ImplementsLedger`: each decision and each calculation takes effect at its
commit as if nothing else were under way; `ApprovedByCurrentFact`, which is
proved only, is the part of it about approvals.

*Properties of migrations.* `CachedRevisionTrue`: the revision that decides the
phases is the database's. `UpgradeLeavesNoCreate`: a run that got past its clean-up
leaves no privilege, whatever an earlier one left. `MembershipIsTransient`: a
membership that provisioning granted has an execution that will revoke it, but for
the three ways to lose it (section 2). `VerifiedStaysTrue`: what was read gate by
gate holds afterwards, the two gates that can be undone only if nothing did so.
`RunnersEnd`: no runner waits for ever.

*Fairness.* A worker that is idle keeps polling (`run_worker_loop`), an engine
that can go on does (the event loop), a cancelled task ends, PostgreSQL grants a
lock that stays free (in `ClarificationLocks`, one that is free again and again:
its waiters are queued) and breaks a deadlock, and leases run out because time
passes. Nothing is assumed of clients, heartbeats or crashes. Nothing is assumed
of clarification expiry either (section 7), so a clarification that is not
answered may well stay open, and no property says otherwise.
In `IngestionQueue` parses end and orphaned leases expire. A poll finds any job
that is at the head of the queue infinitely often (strong fairness):
workers poll every few seconds, and once the head is claimed it is 15 minutes
before its lease can bring it back. This is assumed per job and not per worker.
In `Migrations` a started execution goes on, as nothing in it waits for a person;
failures, deaths and new executions are not promised. The other specifications
have no fairness and no liveness property.

## 4. Findings

* `jobs_terminal`: the transition table refuses to leave a terminal state
  (state_machine.py:116 `TERMINAL_STATE_MUTATION_PROHIBITED`), but
  `cancel_analysis` validates before it waits for the row lock, and writes
  after; a job that completes meanwhile ends CANCELLED with a result.
* `jobs_abandon`: ADR-031 says recovery marks the open attempt ABANDONED; it
  looks for attempts in status RUNNING, and none is ever written.
* `jobs_resume`: an answer announces `analysis.resumed`, but the job it leaves
  in UNDERSTANDING_REQUEST is neither claimable nor, after one recovery,
  recoverable.

* `ingestion_budget`: ADR-004 says failed attempts are persisted and end a job
  when the budget is exhausted; the count is only committed at the end of a parse,
  so a document that kills its worker is tried without end.

The exact lines are in `PROJECT.json`.

## 5. Proofs

Every invariant and every action property of the passing runs is proved, and all
five refinements; of the runs' properties only the six about liveness are not.
The theorems hold for all values of the constants under each module's named
assumption: that placeholders are not members of their sets, that constants have
their types, and, where something is counted or sorted, that it is finite
(`Uploads_proofs`: sessions and requests; `Figures_proofs`: candidates and
processes; `Answers_proofs`: institutions and periods). `CalculatedOnce` needs
formulas with at least one role, `AnswersTheQuestion` at least one prompt. The
bounds stay in the models as constants of any value. Every proof module has an
inductive invariant `IInv`, a lemma that each step keeps it, action by action, and
`Invariance == Spec => []IInv`; the other theorems follow from it, the action
properties with one lemma each. Where a statement needs facts that the others do
not, they are a second invariant that is inductive relative to `IInv`: `Tooled`,
`Clarified`, `DueIfLocked`, `LastAgrees`, `Ordered`, `Opened`, `Once`,
`Undecided` below.

### Analysis jobs

`FenceHoldsUnderLock` and the rest are not inductive alone: that an engine's
token is still current when it commits depends on who may change the token,
which depends on the row lock and on the statuses recovery accepts. `IInv` of
`AnalysisJobs_proofs` has four parts.

1. `TypeOK`.
2. *Ownership*: a worker has a job exactly while it works (`Linked`); a row lock
   is held exactly by an engine in an open transaction (`LockMatchesEngine`);
   under it the fence is true; no worker has a token from the future and only
   the worker the row names has the current one (`TokenNamesOwner`).
3. *Effects*: tokens 0, 1, 2 and `recovery_count` move together
   (`ClaimedThenRecovered`); once a dataset is committed the job is outside every
   status from which it can be claimed, recovered or answered, and no worker
   before the tool call has the current token (`EffectClosesJob`); hence one
   dataset.
4. *Results*: a job with an outcome is over (`OutcomeClosesJob`); hence one
   outcome, and the snapshot is the last owner's.

`Refinement` needs two more facts, themselves invariant: an engine past the tool
call has its dataset (`Tooled`), and a cancellation under way is of a job that
exists (`Validated`). Each handler has a lemma that names the abstract step it
is; the others leave the visible columns alone.

`ClarificationsMatch` rests on `Clarified`: a job that waits does so for exactly
one answer, to its newest attempt, and one that has open clarifications waits or
is over (`WaitsForOne`); an engine that is about to write an attempt numbers it
right, since nobody adds one while it holds the row (`NumbersNext`).

| Theorem | Statement |
|---|---|
| `Invariance`, `TypeCorrect` | `[]IInv`, `[]TypeOK` |
| `LockProtectsFence` | `[]FenceHoldsUnderLock` |
| `ToolRunsOnce` | `[]ToolEffectOnce` |
| `SnapshotOfOwner` | `[]ResultIsOwners` |
| `OneOutcome` | `[]OutcomeReportedOnce` |
| `TerminalStaysOrCancelled` | `TerminalOnlyToCancelled` |
| `HandoverIsSafe` | `HandoverOnlyBeforeEffects` |
| `LateWriterIsFenced` | `FencedWrites` |
| `ClarificationsMatch` | `[]ClarificationMatchesJob` |
| `Refinement` | `ImplementsLifecycle` |

### Clarification locks

A session that waits has read what it will act on only where it holds the lock.
`IInv` of `ClarificationLocks_proofs`: where a session is and which locks that
means (`Placed`, `Batched`, `JobHeld`, `ClarHeld`); what it read under them is
still so (`StillOpen`, `StillWaits`); and `ClosedTogether`. That a deadlock is of
two sessions follows from the order of locks alone: only an expirer waits for a
job while it has a clarification, and a batch never shares a clarification.

`Refinement` needs one fact more: a clarification that a batch has locked is still
due when its turn comes (`DueIfLocked`).

| Theorem | Statement |
|---|---|
| `Invariance`, `LocksTyped` | `[]IInv`, `[]TypeOK` |
| `CloseTogether` | `[]ClosedTogether` |
| `ClosedIsFinal` | `ClosedStays` |
| `DeadlocksAreOfTwo` | `[]DeadlocksArePairs` |
| `Refinement` | `ImplementsSteps` |

### Analysis client

`IInv` of `AnalysisClient_proofs`: types of both sides; *ServerRight*, every log is
numbered by its places, what a writer has read is a number up to its length
(`EventsNumbered`, `ReadNumbers`), and a completed job has said so
(`CompletionTold`); *Shows*, a stream is of the active analysis (`OfActive`), while a
submission or an answer is under way there is no other (`OneBusy`), an answer is for
the active analysis and its reply is in that log, and a refresh that came back found
what is in the log it asked about (`Answered`), and what is shown is in one of these
logs (`Truthful`). The numbers hold because the index refuses exactly the batch
whose base is no longer the end of the log; what is shown stays told because a log
only grows (`ToldStays`).

| Theorem | Statement |
|---|---|
| `Invariance` | `[]IInv` |
| `EventNumbers` | `[]EventsNumbered` |
| `ShowsWhatIsTold` | `[]ShownIsTold` |

### Ingestion queue

The theorems hold for all jobs (any set of naturals in order of creation),
workers, `max_attempts` > 0, verdicts, lethal files and bounds. That a verdict
stands cannot be read off the handler that records failures; it follows from who
can be in it. `IInv`: `TypeOK`; `Linked` and `LockMatchesWorker` as above; `Rows`,
what the committed rows of one job say about one another (an open job has an
attempt left, no result and only failed attempts; an ended one has its verdict in
the last attempt); and `Claims`, what the worker of the last claim may take for
granted at each point: its number is the next one, unless its own verdict was
committed without its knowing. Then `RecordableRow`: a failure is recorded on an
open parse, or repeats FAILED, since the version table lets nothing leave a
verdict. A recorded failure may repeat the last number, and `AttemptsNumbered`
allows for it.

`Refinement` needs to know that such a repetition says the same: whatever stands
under the last number of a job that has ended is how it has ended (`LastAgrees`).
`Finalize` is `Queue`. A verdict that commits, acknowledged or not, is `Extract`
(`VerdictExtracts`), and its number is the next one because the committing worker
owns the last claim. A recorded failure is `Fail` where the job is open, and a
stutter where it repeats a FAILED (`FailureFails`).

| Theorem | Statement |
|---|---|
| `Invariance`, `TypeCorrectness` | `[]IInv`, `[]TypeOK` |
| `AttemptNumbering` | `[]AttemptsNumbered` |
| `VersionAgrees` | `[]VersionFollowsJob` |
| `AttemptLeft` | `[]WaitingHasAttemptLeft` |
| `SingleExtraction` | `[]ExtractedOnce` |
| `OwnerRecords` | `RecordedByOwner` |
| `VerdictIsFinal` | `VerdictStands` |
| `Refinement` | `ImplementsIngestion` |

### Uploads

`IInv` of `Uploads_proofs`: the object that stands for a content is that of a
finalized session with this content and is there unless a compensation removed it
(`Known`); a finalized session has made its content known (`Finalized`); what a
request may rely on at each point, and that what it will delete is not what stands
for the content (`Holds`); the row locks (`Exclusive`); and *Counts*, which relates
the counter to the number of versions while somebody adds to it or a
reconciliation is about to overwrite it.

| Theorem | Statement |
|---|---|
| `Invariance`, `UploadsTyped` | `[]IInv`, `[]TypeOK` |
| `ContentIsKept` | `[]ContentKept` |
| `CountsCover` | `[]CountCoversVersions` |
| `RequestsGoOn` | `[]SomeRequestGoesOn` |
| `OrphansComeFromFaults` | `[]OrphansAreFaults` |
| `Refinement` | `ImplementsStore` |
| `ExtractionKeepsUploads` | `ExtractionSpec => Spec` |
| `ExtractionTyped` | `[]ExtractionTypeOK` |
| `CandidatesHaveSource` | `[]CandidatesAreSourced` |

`RequestsGoOn` rests on the order in which a request takes what others wait for
(`Ordered`, `InOrder`): the row of its content, then the institution's name, then the
period's. A request that waits for a content waits for one that is further on, one
that waits for an institution for one that has it and at most a period to go, and one
that waits for a period for one that has nothing to wait for (`WaitsEnd`).
`OrphansAreFaults` is inductive
relative to `IInv`, by counting: a step leaves at most one object without a
reference, and one that leaves any is a fault. `Refinement` needs that whatever a
request is at work on was uploaded and not abandoned (`Opened`): a commit is
`Publish` (`CommitPublishes`), a compensation `Undo`, a clean-up `RemoveDuplicate`,
since what it deletes does not stand for the content (`Holds`), and a reconciliation
`Recount` with a number of versions that there were when it counted
(`OverwriteRecounts`). For the extraction the statement is
inductive itself. What `Extract` creates depends on the order of the rows and of
the reports, as a row whose figure is there already creates nothing; the places of
the rows are totally ordered (`PlacesOrdered`), the first `MaxCandidates` of them
are that many (`FirstAreFew`), and of two rows of the same figure only the first
is created (`CreatedOnce`). That the extraction leaves the uploads alone
(`ExtractionKeepsUploads`) carries the theorems on uploads over to it.

### Figures

`IInv` of `Figures_proofs`: `TypeOK`, `Room` (the bound on facts); *Reviews*, what a
review may rely on (`Reviewing`: the fact it holds is current and of its key, and
an inserted fact is the only candidate for its key) and that the index holds back a
second insert (`OneInsert`); *Readings*, the facts a calculation has read are
locked by it and current; *Line*, the statement about revisions.

`OneCalculation` rests on `Once`: whoever records an attempt holds the request and
has its next number (`Taking`), and what a run is about to commit has not been
calculated yet (`Novel`). The second is what replaces the unique index: two runs
that are about to commit have different inputs, since each has locked its own
(`InputsDiffer`). Then every calculation gets its completed attempt one by one
(`Matched`).

`LedgerIsImplemented` needs, besides, that a review under way has its candidate,
undecided, to itself (`Undecided`). `CommitFact` is `Enter` (`EnterRefines`): the
inserted fact is the only candidate for its key, so the one in force before it is
the one it supersedes, and has another value. `Corroborate` is `Confirm`: the fact
it has locked is in force. The commit of a run is `Calculate`: each of its inputs
is locked, hence in force for a key of its role. All other steps, those that look,
wait, lock, refuse and fail among them, leave the ledger alone.

| Theorem | Statement |
|---|---|
| `Invariance`, `FiguresTyped` | `[]IInv`, `[]TypeOK` |
| `OneLine` | `[]RevisionsFormOneLine` |
| `ApprovalsAreCurrent` | `ApprovedByCurrentFact` |
| `InputsAreCurrent` | `InputsCurrentAtCommit` |
| `OneCalculation` | `[]CalculatedOnce` |
| `LedgerIsImplemented` | `ImplementsLedger` |

### Answers

`IInv` of `Answers_proofs`: `AnswerTypeOK`; what a request has read is what there was
at a moment since it was made, the facts at one and the calculations at one
(`SourcesHeld`); the stored rows are the dataset of what was read and the page is a
piece of them (`StoredIsRead`); and an analysis compares what its prompt says
(`Planned`). That nothing is passed over follows from what was read of each moment
(`FiguresAreOfMoments`); that the periods compared are those meant, from the
normalizer's match being an overlap in time (`MatchIsOverlap`, `MatchedAreMeant`).
`InOrder`, which sorts, is a function of how many members precede one,
and so can be reasoned about: `InOrderLists` shows that for a total order it lists
every member once and in order. On it rest the ranking, the top n and the pages
(`RankingLists`, `TopOfAll`, `PageIsPiece`).

| Theorem | Statement |
|---|---|
| `InOrderLists` | a finite set sorted by a total order has each member once, in order |
| `Invariance`, `AnswersTyped` | `[]IInv`, `[]AnswerTypeOK` |
| `FiguresAreTraced` | `[]FiguresTraceable` |
| `PagesOfOneRanking` | `[]PagesAreOneRanking` |
| `AnalysesAnswer` | `[]AnswersTheQuestion` |

### Migrations

`IInv` of `Migrations_proofs`: a runner holds the lock exactly in its phases
(`LockMatchesPlace`); what it knows at each place (`Sound`); the objects of 024
exist from 024 on (`SchemaAgrees`); a membership that is not `lapsed` has an execution
that has yet to revoke it (`Transient`); and what each gate that the verification has
passed still guarantees, given what has happened `since` (`GatesHold`).

| Theorem | Statement |
|---|---|
| `Invariance`, `MigrationsTyped` | `[]IInv`, `[]TypeOK` |
| `RunnersReadTruth` | `[]CachedRevisionTrue` |
| `CleanupIsComplete` | `[]UpgradeLeavesNoCreate` |
| `MembershipEnds` | `[]MembershipIsTransient` |
| `VerificationLasts` | `[]VerifiedStaysTrue` |

### Only model-checked

The liveness properties `JobPickedUp`, `RunEnds`, `CancelLands`, `SessionsEnd`,
`UploadsEnd` and `RunnersEnd`: liveness under fairness and `ENABLED` are beyond the
proof system, as are induction over data and recursive operators. Therefore no
operator of a proved module is recursive: what sorts or takes the first of a
sequence is defined by counting, and is proved without induction. The four
violations of section 4 are shown by runs.

## 6. Plan

*Done*, in the order in which it was planned: the analysis plane and its life
cycle; the ingestion plane; uploads; review and calculations; comparisons and
answers; events and the mobile analysis controller; migrations; proofs of every
safety property of every specification; the ledger of figures, the steps of the
clarification handlers, the life cycle of a document and the content store, and the
refinements to them.

*Left*:

1. The mobile upload and review controllers, composed with `Uploads` and
   `FactReview`.
2. The derivations of the quality gate and the tolerance of the reconciliation
   as operators against reference definitions, should the engine come to hand
   its facts to the gate.

## 7. Not modelled

* *Maintenance claim.* `claim_next_maintenance_job` (V `024:121-181`) is SECURITY
  DEFINER and owned by `db_owner`, its table forces row security with a tenant
  policy, the worker's session has no tenant setting (maintenance_worker.py:115),
  and no role bypasses row security: the claim finds no row. No code of the
  repository inserts one either. 033 repairs the same thing for ingestion and says
  so. The handler `ANALYSIS_LEASE_RECOVERY` selects a column that `analysis_jobs`
  does not have, and the update after a handler's commit has no tenant setting.
  The expirers of `ClarificationLocks` and `ExpireDueClarifications` of
  `AnalysisJobs` model the expiry, whoever calls it.
* *Circuit breaker.* `record_success` and `record_failure`, local or distributed,
  are called by tests only: the breaker the engine asks never opens. In
  `AnalysisJobs` it is one of the exceptions of `Fail`.
* *Retry, budget, deduplication.* An overrun is an exception of `Fail`; with a plan
  of one step per run the deduplication has nothing to find.
* *Releasing references.* `acquire_existing`, `release_reference` and
  `is_eligible_for_deletion` are called by tests only. Objects of expired sessions
  are never deleted.
* *Audit records.* They are appended in the caller's transaction and steer nothing;
  their `previous_hash` is a constant, although docs/DATA_MODEL.md:202 speaks of a
  chain.
* *Authentication and permissions*: only what a session may still write after a
  commit has dropped its tenant setting.
* *Document parsers, content validation, prompt assembly, arithmetic of formulas,
  registries, user interface, CI scripts*: data processing, pure I/O or
  configuration without a protocol of their own.
* *Mobile upload, review and document controllers*: one request after the other;
  what the server does with them is `Uploads` and `FactReview`.

Details abstracted inside modelled parts are named in section 2; in the extraction
the parsing of decimals, the heuristics on file names and the search for a figure's
page are constants. The idempotency hash of a candidate lacks the metric, and a
table's row is read by its first number whatever period its column is of:
`FactExtraction` does as the code does, and `CandidatesAreSourced` claims no more.
