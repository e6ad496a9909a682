---------------------------- MODULE IngestionQueue ----------------------------
(***************************************************************************)
(* The ingestion plane: finalizing an upload queues a document version,    *)
(* and the worker processes poll the queue, claim a job, parse the file    *)
(* and publish a verdict, or record a failed attempt and requeue.          *)
(*                                                                         *)
(* A claim is one transaction and the processing is the next.  The second  *)
(* holds the row lock of the job for as long as the parse takes, and       *)
(* nothing it writes can be seen before it commits: a worker that dies     *)
(* leaves the committed claim behind and no other trace.  The lock is open *)
(* between the two transactions, and again after a parse has failed,       *)
(* between the rollback and the transaction that records the failure.      *)
(*                                                                         *)
(* A worker handles one job at a time and draws a new claim_token for each *)
(* claim, so "locked_by and claim_token are still mine" says that the last *)
(* claim committed on the job is the one this worker is working under:     *)
(* owner[j] = w.  A restarted process, with a new WORKER_ID, is idle.      *)
(***************************************************************************)
EXTENDS DocumentStates, Naturals, Sequences

CONSTANTS
    Jobs,          \* ingestion_jobs in order of created_at: 1..N
    Workers,       \* worker processes
    NoWorker, NoJob,
    MaxAttempts,   \* ingestion_jobs.max_attempts
    Verdicts,      \* the verdicts the parsers are observed to give
    Lethal,        \* jobs whose file may kill the process that parses it
    MaxFaults,     \* bound: crashes and lost commit acknowledgements
    MaxSlow        \* bound: leases that expire under a live worker

ASSUME IngestionAssumption ==
    /\ Jobs \subseteq Nat
    /\ NoJob \notin Jobs
    /\ NoWorker \notin Workers
    /\ MaxAttempts \in Nat \ {0}
    /\ Verdicts \subseteq ParserStatus
    /\ Lethal \subseteq Jobs
    /\ MaxFaults \in Nat
    /\ MaxSlow \in Nat

VARIABLES
    \* committed columns of ingestion_jobs
    status, current_attempt,
    owner,      \* locked_by and claim_token: whose claim is the last
    stale,      \* locked_at is more than 15 minutes ago
    rowlock,    \* the worker whose open transaction holds the row
    \* committed rows that belong to the job's document version
    version,    \* document_versions.ingestion_status
    attempts,   \* ingestion_attempts in order of insertion
    results,    \* how many extraction_results there are
    \* a worker process
    pc, held,
    number,     \* attempt.attempt_number, kept in memory across a rollback
    \* environment budgets
    faults, slow

row == <<status, current_attempt, owner, stale>>
children == <<version, attempts, results>>
vars == <<row, rowlock, children, pc, held, number, faults, slow>>

Attempt == [number : Nat, status : ParserStatus]

Ended == ParserStatus          \* no worker takes the job up again

PC == {"idle", "polled", "claiming", "claimed", "parsing", "failed",
       "recording"}
InTransaction == {"claiming", "parsing", "recording"}   \* holding the row

TypeOK ==
    /\ status \in [Jobs -> {"NONE", "QUEUED", "PARSING"} \cup Ended]
    /\ current_attempt \in [Jobs -> 0..MaxAttempts]
    /\ owner \in [Jobs -> Workers \cup {NoWorker}]
    /\ stale \in [Jobs -> BOOLEAN]
    /\ rowlock \in [Jobs -> Workers \cup {NoWorker}]
    /\ version \in [Jobs -> {"NONE", "QUEUED"} \cup Ended]
    /\ attempts \in [Jobs -> Seq(Attempt)]
    /\ results \in [Jobs -> Nat]
    /\ pc \in [Workers -> PC]
    /\ held \in [Workers -> Jobs \cup {NoJob}]
    /\ number \in [Workers -> Nat]
    /\ faults \in 0..MaxFaults
    /\ slow \in 0..MaxSlow

Init ==
    /\ status = [j \in Jobs |-> "NONE"]
    /\ current_attempt = [j \in Jobs |-> 0]
    /\ owner = [j \in Jobs |-> NoWorker]
    /\ stale = [j \in Jobs |-> FALSE]
    /\ rowlock = [j \in Jobs |-> NoWorker]
    /\ version = [j \in Jobs |-> "NONE"]
    /\ attempts = [j \in Jobs |-> <<>>]
    /\ results = [j \in Jobs |-> 0]
    /\ pc = [w \in Workers |-> "idle"]
    /\ held = [w \in Workers |-> NoJob]
    /\ number = [w \in Workers |-> 0]
    /\ faults = 0
    /\ slow = 0

------------------------------------------------------------------------------
(* Finalizing an upload. *)

\* finalize_upload commits the version and its job together, both QUEUED.
Finalize(j) ==
    /\ status[j] = "NONE"
    /\ status' = [status EXCEPT ![j] = "QUEUED"]
    /\ version' = [version EXCEPT ![j] = "QUEUED"]
    /\ UNCHANGED <<current_attempt, owner, stale, rowlock, attempts, results,
                   pc, held, number, faults, slow>>

------------------------------------------------------------------------------
(* The claim. *)

Unlocked(j) == rowlock[j] = NoWorker
Lock(w, j) == rowlock' = [rowlock EXCEPT ![j] = w]
Unlock(j) == rowlock' = [rowlock EXCEPT ![j] = NoWorker]
Becomes(w, step) == pc' = [pc EXCEPT ![w] = step]

\* The loop's session is closed, which rolls back what it had open, and the
\* worker polls again.
BackToPolling(w) ==
    /\ Becomes(w, "idle")
    /\ held' = [held EXCEPT ![w] = NoJob]
    /\ number' = [number EXCEPT ![w] = 0]

\* fetch_next_queued_ingestion_job takes no lock and does not look at the
\* attempts; the oldest row it accepts is the only one a poll ever sees.
Fetchable(j) ==
    \/ status[j] = "QUEUED"
    \/ status[j] = "PARSING" /\ stale[j]

Poll(w, j) ==
    /\ pc[w] = "idle"
    /\ Fetchable(j)
    /\ \A i \in Jobs : i < j => ~Fetchable(i)
    /\ Becomes(w, "polled")
    /\ held' = [held EXCEPT ![w] = j]
    /\ UNCHANGED <<row, rowlock, children, number, faults, slow>>

\* Deviation: the claim refuses orphaned jobs, which the poll still returns.
ClaimableQueued(j) == status[j] = "QUEUED"

\* The WHERE clause of claim_ingestion_job.
Claimable(j) ==
    \/ status[j] = "QUEUED"
    \/ status[j] = "PARSING" /\ stale[j] /\ current_attempt[j] < MaxAttempts

\* FOR UPDATE SKIP LOCKED: the row is locked, and rewritten out of sight.
Claim(w) ==
    LET j == held[w] IN
    /\ pc[w] = "polled"
    /\ Unlocked(j) /\ Claimable(j)
    /\ Lock(w, j)
    /\ Becomes(w, "claiming")
    /\ UNCHANGED <<row, children, held, number, faults, slow>>

\* NO_JOB_CLAIMED: taken meanwhile, or locked by another session.
ClaimNothing(w) ==
    /\ pc[w] = "polled"
    /\ ~(Unlocked(held[w]) /\ Claimable(held[w]))
    /\ BackToPolling(w)
    /\ UNCHANGED <<row, rowlock, children, faults, slow>>

\* The claim commits with the row of the command log.
CommitClaim(w) ==
    LET j == held[w] IN
    /\ pc[w] = "claiming"
    /\ status' = [status EXCEPT ![j] = "PARSING"]
    /\ owner' = [owner EXCEPT ![j] = w]
    /\ stale' = [stale EXCEPT ![j] = FALSE]
    /\ Unlock(j)
    /\ Becomes(w, "claimed")
    /\ UNCHANGED <<current_attempt, children, held, number, faults, slow>>

------------------------------------------------------------------------------
(* Processing a claimed job. *)

\* The select at the head of _process_claimed_job, SKIP LOCKED again.
StillMine(w, j) ==
    /\ Unlocked(j)
    /\ owner[j] = w
    /\ status[j] \in {"QUEUED", "PARSING"}

\* The version must leave QUEUED before the try block is entered: a refused
\* transition is not recorded as a failed attempt, it ends the poll.
MayBegin(w, j) ==
    StillMine(w, j) /\ "PARSING" \in VersionTransitions[version[j]]

\* Deviation: the count is committed before the parse, which would let a crash
\* consume the last attempt of a job that nobody has given up.
BeginCounting(w) ==
    LET j == held[w] IN
    /\ pc[w] = "claimed"
    /\ MayBegin(w, j)
    /\ Lock(w, j)
    /\ number' = [number EXCEPT ![w] = current_attempt[j] + 1]
    /\ current_attempt' = [current_attempt EXCEPT ![j] = @ + 1]
    /\ Becomes(w, "parsing")
    /\ UNCHANGED <<status, owner, stale, children, held, faults, slow>>

\* The attempt is numbered; the number, the attempt row and the version's
\* PARSING stay uncommitted for as long as the parse takes.
Begin(w) ==
    LET j == held[w] IN
    /\ pc[w] = "claimed"
    /\ MayBegin(w, j)
    /\ Lock(w, j)
    /\ number' = [number EXCEPT ![w] = current_attempt[j] + 1]
    /\ Becomes(w, "parsing")
    /\ UNCHANGED <<row, children, held, faults, slow>>

\* STALE_CLAIM_ABORTED, or the refused transition of the version.
BeginRefused(w) ==
    /\ pc[w] = "claimed"
    /\ ~MayBegin(w, held[w])
    /\ BackToPolling(w)
    /\ UNCHANGED <<row, rowlock, children, faults, slow>>

\* The commit that publishes pages, chunks, candidates and the verdict.
CommitVerdict(w, verdict) ==
    LET j == held[w] IN
    /\ pc[w] = "parsing"
    /\ verdict \in JobTransitions["PARSING"]
    /\ verdict \in VersionTransitions["PARSING"]
    /\ status' = [status EXCEPT ![j] = verdict]
    /\ version' = [version EXCEPT ![j] = verdict]
    /\ current_attempt' = [current_attempt EXCEPT ![j] = number[w]]
    /\ attempts' = [attempts EXCEPT ![j] =
                       Append(@, [number |-> number[w], status |-> verdict])]
    /\ results' = [results EXCEPT ![j] = @ + 1]
    /\ Unlock(j)
    /\ UNCHANGED <<owner, stale, slow>>

Publish(w, verdict) ==
    /\ CommitVerdict(w, verdict)
    /\ BackToPolling(w)
    /\ UNCHANGED faults

\* The commit took effect but its acknowledgement is lost: commit() raises
\* inside the try block, and the worker goes on to record a failure.
PublishUnacknowledged(w, verdict) ==
    /\ faults < MaxFaults
    /\ faults' = faults + 1
    /\ CommitVerdict(w, verdict)
    /\ Becomes(w, "failed")
    /\ UNCHANGED <<held, number>>

\* Any exception of the try block: the transaction is rolled back, the number
\* of the attempt survives in the detached attempt object.
ParseFails(w) ==
    /\ pc[w] = "parsing"
    /\ Unlock(held[w])
    /\ Becomes(w, "failed")
    /\ UNCHANGED <<row, children, held, number, faults, slow>>

------------------------------------------------------------------------------
(* Recording a failed attempt. *)

\* A plain FOR UPDATE: it waits for whoever holds the row.
Relock(w) ==
    /\ pc[w] = "failed"
    /\ Unlocked(held[w])
    /\ Lock(w, held[w])
    /\ Becomes(w, "recording")
    /\ UNCHANGED <<row, children, held, number, faults, slow>>

NextStatus(w) == IF number[w] < MaxAttempts THEN "QUEUED" ELSE "FAILED"

\* Either nothing has to change or the table lets the row get there.
Reaches(table, from, to) == from = to \/ to \in table[from]

\* Deviations: the claim, or the version, is not looked at again.
MayRecordAnyClaim(w, j) ==
    /\ Reaches(JobTransitions, status[j], NextStatus(w))
    /\ Reaches(VersionTransitions, version[j], NextStatus(w))
MayRecordAnyVersion(w, j) ==
    /\ owner[j] = w
    /\ Reaches(JobTransitions, status[j], NextStatus(w))

\* The claim is still this worker's, and both rows can take the next status.
\* The status of the job is not looked at otherwise.
MayRecord(w, j) ==
    /\ owner[j] = w
    /\ Reaches(JobTransitions, status[j], NextStatus(w))
    /\ Reaches(VersionTransitions, version[j], NextStatus(w))

\* Deviations: the count that the rollback undid is not written again, and the
\* version of an exhausted job is left as it was.
RecordFailureUncounted(w) ==
    LET j == held[w] IN
    /\ pc[w] = "recording"
    /\ MayRecord(w, j)
    /\ status' = [status EXCEPT ![j] = NextStatus(w)]
    /\ version' = [version EXCEPT ![j] = NextStatus(w)]
    /\ attempts' = [attempts EXCEPT ![j] =
                       Append(@, [number |-> number[w], status |-> "FAILED"])]
    /\ Unlock(j)
    /\ BackToPolling(w)
    /\ UNCHANGED <<current_attempt, owner, stale, results, faults, slow>>
RecordFailureOfJob(w) ==
    LET j == held[w] IN
    /\ pc[w] = "recording"
    /\ MayRecord(w, j)
    /\ status' = [status EXCEPT ![j] = NextStatus(w)]
    /\ current_attempt' = [current_attempt EXCEPT ![j] = number[w]]
    /\ attempts' = [attempts EXCEPT ![j] =
                       Append(@, [number |-> number[w], status |-> "FAILED"])]
    /\ Unlock(j)
    /\ BackToPolling(w)
    /\ UNCHANGED <<version, owner, stale, results, faults, slow>>

\* A requeued job keeps locked_by, claim_token and locked_at.
RecordFailure(w) ==
    LET j == held[w] IN
    /\ pc[w] = "recording"
    /\ MayRecord(w, j)
    /\ status' = [status EXCEPT ![j] = NextStatus(w)]
    /\ version' = [version EXCEPT ![j] = NextStatus(w)]
    /\ current_attempt' = [current_attempt EXCEPT ![j] = number[w]]
    /\ attempts' = [attempts EXCEPT ![j] =
                       Append(@, [number |-> number[w], status |-> "FAILED"])]
    /\ Unlock(j)
    /\ BackToPolling(w)
    /\ UNCHANGED <<owner, stale, results, faults, slow>>

\* STALE_CLAIM_ABORTED, or a refused transition raised out of the handler.
RecordRefused(w) ==
    /\ pc[w] = "recording"
    /\ ~MayRecord(w, held[w])
    /\ Unlock(held[w])
    /\ BackToPolling(w)
    /\ UNCHANGED <<row, children, faults, slow>>

------------------------------------------------------------------------------
(* The environment: time and faults. *)

\* A live worker is working under the last claim of the job.
Attended(j) ==
    \E w \in Workers :
        held[w] = j /\ owner[j] = w /\ pc[w] \notin {"polled", "claiming"}

\* Fifteen minutes have passed since the claim.  Nothing renews locked_at.
Expire(j) ==
    /\ status[j] = "PARSING" /\ ~stale[j]
    /\ stale' = [stale EXCEPT ![j] = TRUE]
    /\ IF Attended(j) THEN slow < MaxSlow /\ slow' = slow + 1
                      ELSE UNCHANGED slow
    /\ UNCHANGED <<status, current_attempt, owner, rowlock, children, pc,
                   held, number, faults>>

\* The process dies, or an exception outside the try block ends the poll:
\* the open transaction is rolled back and its lock released.
Die(w) ==
    /\ rowlock' = [j \in Jobs |->
                      IF rowlock[j] = w THEN NoWorker ELSE rowlock[j]]
    /\ BackToPolling(w)
    /\ UNCHANGED <<row, children, slow>>

Crash(w) ==
    /\ pc[w] # "idle"
    /\ faults < MaxFaults
    /\ faults' = faults + 1
    /\ Die(w)

\* The file exhausts the memory of the process that parses it, this time.
Killed(w) ==
    /\ pc[w] = "parsing"
    /\ held[w] \in Lethal
    /\ Die(w)
    /\ UNCHANGED faults

\* Nothing is left to do: the polls come back empty.
Drained ==
    /\ \A j \in Jobs : status[j] \in Ended
    /\ \A w \in Workers : pc[w] = "idle"
    /\ UNCHANGED vars

------------------------------------------------------------------------------
WorkerStep(w) ==
    \/ Claim(w) \/ ClaimNothing(w) \/ CommitClaim(w)
    \/ Begin(w) \/ BeginRefused(w)
    \/ \E verdict \in Verdicts : Publish(w, verdict)
    \/ ParseFails(w)
    \/ Relock(w) \/ RecordFailure(w) \/ RecordRefused(w)
    \/ Killed(w)

Next ==
    \/ \E j \in Jobs : Finalize(j) \/ Expire(j)
    \/ \E w \in Workers :
          \/ \E j \in Jobs : Poll(w, j)
          \/ WorkerStep(w)
          \/ \E verdict \in Verdicts : PublishUnacknowledged(w, verdict)
          \/ Crash(w)
    \/ Drained

Spec == Init /\ [][Next]_vars

\* A worker that has taken a job up goes on with it, as every parse ends.  An
\* orphaned lease expires.  A poll finds a job that is at the head of the
\* queue again and again: workers poll every few seconds, and the head changes
\* only when a job is claimed or when fifteen minutes have passed.
Fairness ==
    /\ \A w \in Workers : WF_vars(WorkerStep(w))
    /\ \A j \in Jobs : WF_vars(~Attended(j) /\ Expire(j))
    /\ \A j \in Jobs : SF_vars(\E w \in Workers : Poll(w, j))

LiveSpec == Spec /\ Fairness

------------------------------------------------------------------------------
(* Properties. *)

\* The attempts of a job are numbered 1..current_attempt without a gap, all but
\* the last have failed, and the last one says what became of the job, whatever
\* was rolled back, taken over or left unacknowledged: the number is assigned
\* in one transaction of _process_claimed_job and recorded in another.
AttemptsNumbered ==
    \A j \in Jobs :
        /\ {attempts[j][i].number : i \in DOMAIN attempts[j]} =
               1..current_attempt[j]
        /\ \A i \in DOMAIN attempts[j] :
               attempts[j][i].number < current_attempt[j] =>
                   attempts[j][i].status = "FAILED"
        /\ status[j] \in Ended =>
               attempts[j][Len(attempts[j])].status = status[j]

\* A version shows the verdict exactly when its job has one, and is QUEUED
\* while the job waits or is being parsed: the version's PARSING never shows,
\* so no claim is ever lost to a version that cannot begin.
VersionFollowsJob ==
    \A j \in Jobs :
        version[j] = IF status[j] = "PARSING" THEN "QUEUED" ELSE status[j]

\* A job that waits or is being parsed has an attempt left.  The poll of
\* migration 033 leaves out the attempt test that claim_ingestion_job makes, so
\* a stale job without one would stay at the head of the queue for ever.
WaitingHasAttemptLeft ==
    \A j \in Jobs :
        status[j] \in {"QUEUED", "PARSING"} =>
            current_attempt[j] < MaxAttempts

\* A version has at most one extraction result, and none unless its job has
\* ended: no pages, chunks or candidates are written twice by a worker whose
\* claim was taken over, or that repeats an unacknowledged commit.
ExtractedOnce ==
    \A j \in Jobs :
        results[j] <= 1 /\ (results[j] = 1 => status[j] \in Ended)

\* Whatever is recorded about a job is recorded by the worker that made the
\* last claim on it, however late that worker comes back from its parse.
RecordedStep ==
    \A j \in Jobs : attempts'[j] # attempts[j] => owner[j] = rowlock[j]
RecordedByOwner == [][RecordedStep]_vars

\* A verdict stands: the job table has a way from FAILED back to QUEUED, and
\* the handler that records a failure does not look at the job's status.
VerdictStep ==
    \A j \in Jobs : status[j] \in Ended =>
        status'[j] = status[j] /\ version'[j] = version[j]
VerdictStands == [][VerdictStep]_vars

\* The attempts of each job, of which an unacknowledged one may be listed twice.
OnRecord == [j \in Jobs |-> {attempts[j][i] : i \in DOMAIN attempts[j]}]

Lifecycle ==
    INSTANCE IngestionLifecycle WITH
        shown <- version,
        spent <- current_attempt,
        recorded <- OnRecord,
        extractions <- results

\* For the client the workers behave like one that attempts each file in steps
\* of its own: what a worker commits, however late, taken over or
\* unacknowledged, is the next attempt of an upload that waits or changes
\* nothing that is seen, so that version, count, attempts and extraction change
\* together or not at all.
ImplementsIngestion == Lifecycle!Spec

\* Every upload whose file can be parsed at all gets a verdict, whatever
\* crashes, and also behind a job that kills each worker that takes it.
UploadsEnd ==
    \A j \in Jobs \ Lethal : status[j] = "QUEUED" ~> status[j] \in Ended

\* "When the retry budget is exhausted, the application updates the job status
\* to failed" (ADR-004): every queued job reaches a verdict.  An attempt whose
\* process dies is neither recorded nor counted.
RetryBudgetEnds ==
    \A j \in Jobs : status[j] = "QUEUED" ~> status[j] \in Ended

==============================================================================
