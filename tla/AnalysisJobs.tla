----------------------------- MODULE AnalysisJobs -----------------------------
(***************************************************************************)
(* The analysis plane: API requests create, cancel and clarify analysis    *)
(* jobs; worker processes claim them, run the orchestration engine on them *)
(* and recover those whose owner has died.                                 *)
(*                                                                         *)
(* Everything is kept in PostgreSQL rows.  An engine run holds the row     *)
(* lock of its job (SELECT ... FOR UPDATE) from its first fence to the     *)
(* next commit or rollback, and what it writes in between is invisible     *)
(* until then, so an action below is the part of a handler between two     *)
(* points where other sessions can act.  A row lock is free for any        *)
(* session unless an engine holds it: the other handlers lock, write and   *)
(* commit within one action.                                               *)
(***************************************************************************)
EXTENDS JobStates, Naturals, Sequences, FiniteSets

CONSTANTS
    Jobs,         \* analysis_jobs.id
    Workers,      \* worker processes (one AnalysisWorker each)
    Clients,      \* in-flight requests to POST /analyses/{id}/cancel
    NoWorker, NoJob

ASSUME AnalysisAssumption ==
    /\ NoWorker \notin Workers
    /\ NoJob \notin Jobs

VARIABLES
    \* committed columns of analysis_jobs
    status, claim_token, locked_by, lease, recovery_count,
    rowlock,      \* the engine session that holds the row lock
    \* committed rows of the tables that hang off a job
    attempts,     \* statuses of analysis_attempts, by attempt_number
    clars,        \* analysis_clarifications in order of creation
    datasets,     \* how many comparison datasets the tool has committed
    snapshots,    \* claim tokens under which a final snapshot was written
    outcomes,     \* the analysis.completed / analysis.failed events
    \* a worker process
    pc, held, tok, mem, att, lost,
    \* the cancel handler, between its unlocked read and its write
    cancelling

row == <<status, claim_token, locked_by, lease, recovery_count>>
children == <<attempts, clars, datasets, snapshots, outcomes>>
worker == <<pc, held, tok, mem, att, lost>>
vars == <<row, rowlock, children, worker, cancelling>>

NULL == 0   \* the NULL claim token; gen_random_uuid gives 1, 2, ... per job

AttemptStatus ==
    {"IN_PROGRESS", "NEEDS_CLARIFICATION", "REJECTED_BY_POLICY", "COMPLETED",
     "FAILED", "ABANDONED"}

Clarification ==
    [status : {"AWAITING_CLARIFICATION", "CLARIFICATION_RECEIVED",
               "CLARIFICATION_EXPIRED", "CLARIFICATION_CANCELLED"},
     attempt : Nat,     \* attempt_number
     due : BOOLEAN]     \* expires_at has passed

PC == {"idle", "polled", "claimed", "running", "parked", "tooled",
       "recording", "failing"}
Engaged == PC \ {"idle", "polled"}
Locking == {"running", "recording"}   \* an open transaction on the job's row

TypeOK ==
    /\ status \in [Jobs -> AnalysisJobStatus \cup {"NONE"}]
    /\ claim_token \in [Jobs -> Nat]
    /\ locked_by \in [Jobs -> Workers \cup {NoWorker}]
    /\ lease \in [Jobs -> {"NULL", "LIVE", "STALE"}]
    /\ recovery_count \in [Jobs -> 0..1]
    /\ rowlock \in [Jobs -> Workers \cup {NoWorker}]
    /\ attempts \in [Jobs -> Seq(AttemptStatus)]
    /\ clars \in [Jobs -> Seq(Clarification)]
    /\ datasets \in [Jobs -> Nat]
    /\ snapshots \in [Jobs -> SUBSET Nat]
    /\ outcomes \in [Jobs -> Seq({"completed", "failed"})]
    /\ pc \in [Workers -> PC]
    /\ held \in [Workers -> Jobs \cup {NoJob}]
    /\ tok \in [Workers -> Nat]
    /\ mem \in [Workers -> AnalysisJobStatus]
    /\ att \in [Workers -> Nat]
    /\ lost \in [Workers -> BOOLEAN]
    /\ cancelling \in [Clients -> Jobs \cup {NoJob}]

Init ==
    /\ status = [j \in Jobs |-> "NONE"]
    /\ claim_token = [j \in Jobs |-> NULL]
    /\ locked_by = [j \in Jobs |-> NoWorker]
    /\ lease = [j \in Jobs |-> "NULL"]
    /\ recovery_count = [j \in Jobs |-> 0]
    /\ rowlock = [j \in Jobs |-> NoWorker]
    /\ attempts = [j \in Jobs |-> <<>>]
    /\ clars = [j \in Jobs |-> <<>>]
    /\ datasets = [j \in Jobs |-> 0]
    /\ snapshots = [j \in Jobs |-> {}]
    /\ outcomes = [j \in Jobs |-> <<>>]
    /\ pc = [w \in Workers |-> "idle"]
    /\ held = [w \in Workers |-> NoJob]
    /\ tok = [w \in Workers |-> NULL]
    /\ mem = [w \in Workers |-> "RECEIVED"]
    /\ att = [w \in Workers |-> 0]
    /\ lost = [w \in Workers |-> FALSE]
    /\ cancelling = [c \in Clients |-> NoJob]

------------------------------------------------------------------------------
(* Helpers *)

\* Deviation: every session ignores the row lock.
UnlockedAlways(j) == rowlock[j] \in Workers \cup {NoWorker}

Unlocked(j) == rowlock[j] = NoWorker

\* The worker returns from process_analysis_job and forgets its claim.
GoIdle(w) ==
    /\ pc' = [pc EXCEPT ![w] = "idle"]
    /\ held' = [held EXCEPT ![w] = NoJob]
    /\ tok' = [tok EXCEPT ![w] = NULL]
    /\ mem' = [mem EXCEPT ![w] = "RECEIVED"]
    /\ att' = [att EXCEPT ![w] = 0]
    /\ lost' = [lost EXCEPT ![w] = FALSE]

\* Deviation: the transaction is left open.
ReleaseForgotten(w) == rowlock' = [rowlock EXCEPT ![held[w]] = @]

\* Commit or rollback releases the row lock, if this session holds it.
Release(w) ==
    rowlock' = [j \in Jobs |-> IF rowlock[j] = w THEN NoWorker ELSE rowlock[j]]

\* The engine continues at another point of execute_job.
GoTo(w, p) ==
    /\ pc' = [pc EXCEPT ![w] = p]
    /\ UNCHANGED <<held, tok, mem, att, lost>>

\* Deviation: the WHERE clause names the job only.
OwnsRowById(w) == held[w] \in Jobs

\* WHERE id = :jid AND claim_token = :tok AND locked_by = :w
OwnsRow(w) ==
    /\ claim_token[held[w]] = tok[w]
    /\ locked_by[held[w]] = w

\* Deviations: a fence without the status list, and no fence at all.
FenceAnyStatus(w) == OwnsRow(w)
FenceDropped(w) == held[w] \in Jobs

\* The row _assert_fenced_ownership selects exists.
Fence(w) ==
    /\ OwnsRow(w)
    /\ status[held[w]] \in ActiveStatuses

\* The status the engine moves to after s on its straight path.
NextPhase ==
    [RECEIVED |-> "UNDERSTANDING_REQUEST",
     UNDERSTANDING_REQUEST |-> "PLANNING",
     PLANNING |-> "POLICY_CHECK",
     POLICY_CHECK |-> "RETRIEVING_INTERNAL_SOURCES",
     RETRIEVING_INTERNAL_SOURCES |-> "VALIDATING_SOURCES",
     VALIDATING_SOURCES |-> "EXECUTING_TOOLS",
     EXECUTING_TOOLS |-> "RECONCILING_RESULTS",
     RECONCILING_RESULTS |-> "GENERATING_STRUCTURED_RESULT",
     GENERATING_STRUCTURED_RESULT |-> "QUALITY_GATE"]

------------------------------------------------------------------------------
(* The API: creating and cancelling an analysis *)

\* create_analysis: the row is inserted unclaimed.
CreateAnalysis(j) ==
    /\ status[j] = "NONE"
    /\ status' = [status EXCEPT ![j] = "RECEIVED"]
    /\ UNCHANGED <<claim_token, locked_by, lease, recovery_count, rowlock,
                   children, worker, cancelling>>

\* cancel_analysis up to validate_transition: the row is read without a lock,
\* so what is validated is the last committed status.
CancelRead(c, j) ==
    /\ cancelling[c] = NoJob
    /\ MayTransition(status[j], "CANCELLED")
    /\ cancelling' = [cancelling EXCEPT ![c] = j]
    /\ UNCHANGED <<row, rowlock, children, worker>>

\* cancel_analysis' commit: UPDATE ... SET status WHERE id waits for the row
\* lock and then overwrites whatever status the row has by now.
CancelWrite(c) ==
    /\ cancelling[c] # NoJob
    /\ Unlocked(cancelling[c])
    /\ status' = [status EXCEPT ![cancelling[c]] = "CANCELLED"]
    /\ cancelling' = [cancelling EXCEPT ![c] = NoJob]
    /\ UNCHANGED <<claim_token, locked_by, lease, recovery_count, rowlock,
                   children, worker>>

------------------------------------------------------------------------------
(* Claim authority (migration 031) as run_once calls it *)

\* Deviation: the NULL test of the claim query is inverted.
ClaimableInverted(j) == status[j] = "RECEIVED" /\ claim_token[j] # NULL

Claimable(j) ==
    /\ status[j] = "RECEIVED"
    /\ claim_token[j] = NULL
    /\ locked_by[j] = NoWorker
    /\ lease[j] = "NULL"

\* Deviations: recovery from every active status, and from a human-waiting one.
RecoverableAnyActive(j) ==
    /\ status[j] \in ActiveStatuses
    /\ claim_token[j] # NULL /\ lease[j] = "STALE" /\ recovery_count[j] = 0
RecoverableWaiting(j) ==
    /\ status[j] \in SafeStatuses \cup {"NEEDS_CLARIFICATION"}
    /\ claim_token[j] # NULL /\ lease[j] = "STALE" /\ recovery_count[j] = 0

Recoverable(j) ==
    /\ status[j] \in SafeStatuses
    /\ claim_token[j] # NULL
    /\ lease[j] = "STALE"
    /\ recovery_count[j] = 0

\* Both procedures hand the worker a fresh token and a 15 minute lease.
TakeOver(w, j) ==
    /\ status' = [status EXCEPT ![j] = "RECEIVED"]
    /\ locked_by' = [locked_by EXCEPT ![j] = w]
    /\ claim_token' = [claim_token EXCEPT ![j] = @ + 1]
    /\ lease' = [lease EXCEPT ![j] = "LIVE"]
    /\ pc' = [pc EXCEPT ![w] = "claimed"]
    /\ held' = [held EXCEPT ![w] = j]
    /\ tok' = [tok EXCEPT ![w] = claim_token[j] + 1]
    /\ UNCHANGED <<rowlock, clars, datasets, snapshots, outcomes, mem, att,
                   lost, cancelling>>

\* claim_next_analysis_job: FOR UPDATE SKIP LOCKED LIMIT 1.
Claim(w, j) ==
    /\ pc[w] = "idle"
    /\ Claimable(j)
    /\ Unlocked(j)
    /\ TakeOver(w, j)
    /\ UNCHANGED <<recovery_count, attempts>>

\* The claim transaction of run_once found no row.
PollEmpty(w) ==
    /\ pc[w] = "idle"
    /\ \A j \in Jobs : ~(Claimable(j) /\ Unlocked(j))
    /\ GoTo(w, "polled")
    /\ UNCHANGED <<row, rowlock, children, cancelling>>

\* recover_next_stale_analysis_job: attempts in status RUNNING are abandoned.
Recover(w, j) ==
    /\ pc[w] = "polled"
    /\ Recoverable(j)
    /\ Unlocked(j)
    /\ TakeOver(w, j)
    /\ recovery_count' = [recovery_count EXCEPT ![j] = @ + 1]
    /\ attempts' = [attempts EXCEPT ![j] =
            [n \in DOMAIN @ |-> IF @[n] = "RUNNING" THEN "ABANDONED" ELSE @[n]]]

\* Neither procedure returned a job: run_once returns False.
PollMiss(w) ==
    /\ pc[w] = "polled"
    /\ \A j \in Jobs : ~(Recoverable(j) /\ Unlocked(j))
    /\ GoTo(w, "idle")
    /\ UNCHANGED <<row, rowlock, children, cancelling>>

------------------------------------------------------------------------------
(* execute_job: from the first fence to the tool's commit *)

\* The first fence locks the row; attempt_number = len(attempts) + 1.
StartEngine(w) ==
    /\ pc[w] = "claimed"
    /\ Unlocked(held[w])
    /\ Fence(w)
    /\ rowlock' = [rowlock EXCEPT ![held[w]] = w]
    /\ pc' = [pc EXCEPT ![w] = "running"]
    /\ mem' = [mem EXCEPT ![w] = status[held[w]]]
    /\ att' = [att EXCEPT ![w] = Len(attempts[held[w]]) + 1]
    /\ UNCHANGED <<row, children, held, tok, lost, cancelling>>

\* One validate_transition and flush on the straight path: not committed.
Advance(w) ==
    /\ \/ pc[w] = "running" /\ mem[w] \in SafeStatuses
       \/ pc[w] = "recording" /\ mem[w] \in SideEffectStatuses \ {"QUALITY_GATE"}
    /\ MayTransition(mem[w], NextPhase[mem[w]])
    /\ mem' = [mem EXCEPT ![w] = NextPhase[@]]
    /\ UNCHANGED <<row, rowlock, children, pc, held, tok, att, lost, cancelling>>

\* The policy engine denies, before normalization or at POLICY_CHECK.
DenyByPolicy(w) ==
    /\ pc[w] = "running"
    /\ mem[w] \in {"UNDERSTANDING_REQUEST", "POLICY_CHECK"}
    /\ status' = [status EXCEPT ![held[w]] = "REJECTED_BY_POLICY"]
    /\ lease' = [lease EXCEPT ![held[w]] = "NULL"]
    /\ attempts' = [attempts EXCEPT ![held[w]] = Append(@, "REJECTED_BY_POLICY")]
    /\ outcomes' = [outcomes EXCEPT ![held[w]] = Append(@, "failed")]
    /\ Release(w)
    /\ GoIdle(w)
    /\ UNCHANGED <<claim_token, locked_by, recovery_count, clars, datasets,
                   snapshots, cancelling>>

Awaiting(c) == c.status = "AWAITING_CLARIFICATION"

\* require_clarification, which commits.  A second open clarification of the
\* job would violate the partial unique index and raise (see Fail).
RequireClarification(w) ==
    LET j == held[w] IN
    /\ pc[w] = "running"
    /\ MayTransition(mem[w], "NEEDS_CLARIFICATION")
    /\ mem[w] = "UNDERSTANDING_REQUEST"
    /\ \A n \in DOMAIN clars[j] : ~Awaiting(clars[j][n])
    /\ status' = [status EXCEPT ![j] = "NEEDS_CLARIFICATION"]
    /\ attempts' = [attempts EXCEPT ![j] = Append(@, "IN_PROGRESS")]
    /\ clars' = [clars EXCEPT ![j] =
            Append(@, [status |-> "AWAITING_CLARIFICATION",
                       attempt |-> att[w], due |-> FALSE])]
    /\ Release(w)
    /\ GoTo(w, "parked")
    /\ UNCHANGED <<claim_token, locked_by, lease, recovery_count, datasets,
                   snapshots, outcomes, cancelling>>

\* The engine's own commit after require_clarification: the attempt is marked
\* and the lease cleared, by primary key.  The tenant setting was local to the
\* transaction that has just been committed, and row security is forced on
\* every role, so the two UPDATEs match no row, and the flush raises.
ParkAttempt(w) ==
    /\ pc[w] = "parked"
    /\ GoTo(w, "failing")
    /\ UNCHANGED <<row, rowlock, children, cancelling>>

\* The tool call: execute_comparison commits its dataset on the engine's own
\* session, which publishes EXECUTING_TOOLS and drops the row lock.
RunTool(w) ==
    LET j == held[w] IN
    /\ pc[w] = "running"
    /\ mem[w] = "EXECUTING_TOOLS"
    /\ status' = [status EXCEPT ![j] = "EXECUTING_TOOLS"]
    /\ attempts' = [attempts EXCEPT ![j] = Append(@, "IN_PROGRESS")]
    /\ datasets' = [datasets EXCEPT ![j] = @ + 1]
    /\ Release(w)
    /\ GoTo(w, "tooled")
    /\ UNCHANGED <<claim_token, locked_by, lease, recovery_count, clars,
                   snapshots, outcomes, cancelling>>

------------------------------------------------------------------------------
(* execute_job: after the tool's commit *)

\* The fence after the tool call takes the row lock again.
Reassert(w) ==
    /\ pc[w] = "tooled"
    /\ Unlocked(held[w])
    /\ Fence(w)
    /\ rowlock' = [rowlock EXCEPT ![held[w]] = w]
    /\ GoTo(w, "recording")
    /\ UNCHANGED <<row, children, cancelling>>

\* The fenced COMPLETED update with its snapshot and event.
Complete(w) ==
    LET j == held[w] IN
    /\ pc[w] = "recording"
    /\ MayTransition(mem[w], "COMPLETED")
    /\ OwnsRow(w)
    /\ status' = [status EXCEPT ![j] = "COMPLETED"]
    /\ lease' = [lease EXCEPT ![j] = "NULL"]
    /\ attempts' = [attempts EXCEPT ![j][att[w]] = "COMPLETED"]
    /\ snapshots' = [snapshots EXCEPT ![j] = @ \cup {tok[w]}]
    /\ outcomes' = [outcomes EXCEPT ![j] = Append(@, "completed")]
    /\ Release(w)
    /\ GoIdle(w)
    /\ UNCHANGED <<claim_token, locked_by, recovery_count, clars, datasets,
                   cancelling>>

\* Any exception inside the try block: the transaction is rolled back.
Fail(w) ==
    /\ pc[w] \in {"running", "tooled", "recording"}
    /\ Release(w)
    /\ GoTo(w, "failing")
    /\ UNCHANGED <<row, children, cancelling>>

\* The failure transaction, under a new fence.  The attempt is marked only if
\* an earlier commit made it durable.
PersistFailure(w) ==
    LET j == held[w] IN
    /\ pc[w] = "failing"
    /\ Unlocked(j)
    /\ Fence(w)
    /\ status' = [status EXCEPT ![j] = "FAILED"]
    /\ lease' = [lease EXCEPT ![j] = "NULL"]
    /\ attempts' = [attempts EXCEPT ![j] =
            [n \in DOMAIN @ |-> IF n = att[w] THEN "FAILED" ELSE @[n]]]
    /\ outcomes' = [outcomes EXCEPT ![j] = Append(@, "failed")]
    /\ GoIdle(w)
    /\ UNCHANGED <<claim_token, locked_by, recovery_count, rowlock, clars,
                   datasets, snapshots, cancelling>>

\* A fence finds no row: ClaimOwnershipLostException, nothing is written.
LoseOwnership(w) ==
    /\ pc[w] \in {"claimed", "tooled", "failing"}
    /\ Unlocked(held[w])
    /\ ~Fence(w)
    /\ GoIdle(w)
    /\ UNCHANGED <<row, rowlock, children, cancelling>>

------------------------------------------------------------------------------
(* Heartbeat, time and crashes *)

\* renew_analysis_job_lease in the heartbeat's own session: its UPDATE waits
\* for the row lock and checks what the fence checks.
HeartbeatRenews(w) ==
    /\ pc[w] \in Engaged
    /\ ~lost[w]
    /\ Unlocked(held[w])
    /\ Fence(w)
    /\ lease' = [lease EXCEPT ![held[w]] = "LIVE"]
    /\ UNCHANGED <<status, claim_token, locked_by, recovery_count, rowlock,
                   children, worker, cancelling>>

\* The renewal matched no row, or its session raised.
HeartbeatFails(w) ==
    /\ pc[w] \in Engaged
    /\ ~lost[w]
    /\ lost' = [lost EXCEPT ![w] = TRUE]
    /\ UNCHANGED <<row, rowlock, children, pc, held, tok, mem, att, cancelling>>

\* engine_task.cancel(): CancelledError passes the engine's handlers, the
\* session is closed and its transaction rolled back.
HeartbeatCancels(w) ==
    /\ lost[w]
    /\ Release(w)
    /\ GoIdle(w)
    /\ UNCHANGED <<row, children, cancelling>>

\* The worker process dies; its connection, transaction and lock go with it.
Crash(w) ==
    /\ pc[w] # "idle"
    /\ Release(w)
    /\ GoIdle(w)
    /\ UNCHANGED <<row, children, cancelling>>

\* lease_expires_at < now() becomes true.
LeaseExpires(j) ==
    /\ lease[j] = "LIVE"
    /\ lease' = [lease EXCEPT ![j] = "STALE"]
    /\ UNCHANGED <<status, claim_token, locked_by, recovery_count, rowlock,
                   children, worker, cancelling>>

\* now > expires_at becomes true for an open clarification.
ClarificationDue(j, n) ==
    /\ n \in DOMAIN clars[j]
    /\ Awaiting(clars[j][n])
    /\ ~clars[j][n].due
    /\ clars' = [clars EXCEPT ![j][n].due = TRUE]
    /\ UNCHANGED <<row, rowlock, attempts, datasets, snapshots, outcomes,
                   worker, cancelling>>

------------------------------------------------------------------------------
(* ClarificationService; the job's row is locked first *)

\* respond within the window: a new attempt and UNDERSTANDING_REQUEST again.
\* Its attempt_number must be new (uq_job_attempt_number).
Respond(j, n) ==
    /\ Unlocked(j)
    /\ status[j] = "NEEDS_CLARIFICATION"
    /\ n \in DOMAIN clars[j]
    /\ Awaiting(clars[j][n])
    /\ ~clars[j][n].due
    /\ clars[j][n].attempt + 1 \notin DOMAIN attempts[j]
    /\ clars' = [clars EXCEPT ![j][n].status = "CLARIFICATION_RECEIVED"]
    /\ attempts' = [attempts EXCEPT ![j] = Append(@, "IN_PROGRESS")]
    /\ status' = [status EXCEPT ![j] = "UNDERSTANDING_REQUEST"]
    /\ UNCHANGED <<claim_token, locked_by, lease, recovery_count, rowlock,
                   datasets, snapshots, outcomes, worker, cancelling>>

\* respond after the window: the late answer expires both rows.
RespondTooLate(j, n) ==
    /\ Unlocked(j)
    /\ status[j] = "NEEDS_CLARIFICATION"
    /\ n \in DOMAIN clars[j]
    /\ Awaiting(clars[j][n])
    /\ clars[j][n].due
    /\ clars' = [clars EXCEPT ![j][n].status = "CLARIFICATION_EXPIRED"]
    /\ status' = [status EXCEPT ![j] = "EXPIRED"]
    /\ UNCHANGED <<claim_token, locked_by, lease, recovery_count, rowlock,
                   attempts, datasets, snapshots, outcomes, worker, cancelling>>

\* The trigger of migration 023: a closed clarification keeps its status.
Immutable(c, new) == ~Awaiting(c) /\ c.status # new

\* cancel: the handler does not look at the clarification's own status, but
\* the trigger raises for one that was answered or has expired.
CancelClarification(j, n) ==
    /\ Unlocked(j)
    /\ n \in DOMAIN clars[j]
    /\ ~Immutable(clars[j][n], "CLARIFICATION_CANCELLED")
    /\ MayTransition(status[j], "CANCELLED")
    /\ clars' = [clars EXCEPT ![j][n].status = "CLARIFICATION_CANCELLED"]
    /\ status' = [status EXCEPT ![j] = "CANCELLED"]
    /\ UNCHANGED <<claim_token, locked_by, lease, recovery_count, rowlock,
                   attempts, datasets, snapshots, outcomes, worker, cancelling>>

DueOn(j) == {n \in DOMAIN clars[j] : Awaiting(clars[j][n]) /\ clars[j][n].due}

\* expire_due_clarifications: one transaction over every due clarification.
\* validate_transition raises in the middle of the batch for a job that is
\* neither over nor waiting; ClarificationMatchesJob says there is none.
ExpireDueClarifications ==
    LET due == {j \in Jobs : DueOn(j) # {}}
        open == {j \in due : status[j] \notin TerminalStates}
    IN
    /\ due # {}
    /\ \A j \in due : Unlocked(j)
    /\ \A j \in open : MayTransition(status[j], "EXPIRED")
    /\ clars' = [j \in Jobs |-> [n \in DOMAIN clars[j] |->
            IF n \in DueOn(j)
            THEN [clars[j][n] EXCEPT !.status = "CLARIFICATION_EXPIRED"]
            ELSE clars[j][n]]]
    /\ status' = [j \in Jobs |-> IF j \in open THEN "EXPIRED" ELSE status[j]]
    /\ UNCHANGED <<claim_token, locked_by, lease, recovery_count, rowlock,
                   attempts, datasets, snapshots, outcomes, worker, cancelling>>

------------------------------------------------------------------------------
(* Specification *)

EngineStep(w) ==
    \/ StartEngine(w) \/ Advance(w) \/ DenyByPolicy(w)
    \/ RequireClarification(w) \/ ParkAttempt(w) \/ RunTool(w)
    \/ Reassert(w) \/ Complete(w)
    \/ PersistFailure(w) \/ LoseOwnership(w)

Poll(w) ==
    \/ PollEmpty(w) \/ PollMiss(w)
    \/ \E j \in Jobs : Claim(w, j) \/ Recover(w, j)

ClarificationStep ==
    \/ \E j \in Jobs : \E n \in DOMAIN clars[j] :
        \/ Respond(j, n) \/ RespondTooLate(j, n)
        \/ CancelClarification(j, n) \/ ClarificationDue(j, n)
    \/ ExpireDueClarifications

Next ==
    \/ \E j \in Jobs : CreateAnalysis(j) \/ LeaseExpires(j)
    \/ \E c \in Clients : CancelWrite(c) \/ \E j \in Jobs : CancelRead(c, j)
    \/ \E w \in Workers :
        \/ Poll(w) \/ EngineStep(w) \/ Fail(w) \/ Crash(w)
        \/ HeartbeatRenews(w) \/ HeartbeatFails(w) \/ HeartbeatCancels(w)
    \/ ClarificationStep

Spec == Init /\ [][Next]_vars

\* An idle worker keeps polling (run_worker_loop), a running engine keeps
\* running, a cancelled engine task ends, PostgreSQL grants a row lock that
\* stays free, and leases run out.  Nothing is assumed of clients, heartbeats
\* or crashes, nor of the expiry job, which nothing in the repository enqueues.
Fairness ==
    /\ \A w \in Workers :
        /\ WF_vars(Poll(w)) /\ WF_vars(EngineStep(w))
        /\ WF_vars(HeartbeatCancels(w))
    /\ \A c \in Clients : WF_vars(CancelWrite(c))
    /\ \A j \in Jobs : WF_vars(LeaseExpires(j))

LiveSpec == Spec /\ Fairness

------------------------------------------------------------------------------
(* Properties *)

\* While an engine's transaction holds the row lock of a job, the committed
\* row still carries that engine's token, its worker and an active status:
\* neither recovery (SKIP LOCKED) nor cancellation gets past the lock, so the
\* fences inside the transaction cannot start to fail half-way.
FenceHoldsUnderLock ==
    \A j \in Jobs : \A w \in Workers :
        rowlock[j] = w => held[w] = j /\ pc[w] \in Locking /\ Fence(w)

\* The tool's dataset, which is committed in the middle of a run, is
\* committed at most once for a job, however often workers die and others
\* take over: recovery ends where side effects begin.
ToolEffectOnce == \A j \in Jobs : datasets[j] <= 1

\* A final snapshot is written only under the job's current claim token, a
\* COMPLETED job has one, and a job with one is COMPLETED or was cancelled
\* over it: no late writer's result is ever served by get_analysis_result.
ResultIsOwners ==
    \A j \in Jobs :
        /\ snapshots[j] \subseteq {claim_token[j]}
        /\ status[j] = "COMPLETED" => snapshots[j] # {}
        /\ snapshots[j] # {} => status[j] \in {"COMPLETED", "CANCELLED"}

\* A job reports its outcome at most once, over all its runs, and the event
\* the client has seen agrees with the row unless the row was cancelled.
OutcomeReportedOnce ==
    \A j \in Jobs :
        /\ Len(outcomes[j]) <= 1
        /\ status[j] # "CANCELLED" =>
            /\ outcomes[j] = <<"completed">> <=> status[j] = "COMPLETED"
            /\ outcomes[j] = <<"failed">> <=>
                    status[j] \in {"FAILED", "REJECTED_BY_POLICY"}

\* An open clarification belongs to a job that waits for it or is over, a job
\* that waits has exactly one, and its attempt_number is the newest of the
\* job: so respond never collides with uq_job_attempt_number and
\* expire_due_clarifications never raises in the middle of a batch.
ClarificationMatchesJob ==
    \A j \in Jobs :
        LET open == {n \in DOMAIN clars[j] : Awaiting(clars[j][n])} IN
        /\ open # {} => status[j] \in TerminalStates \cup {"NEEDS_CLARIFICATION"}
        /\ status[j] = "NEEDS_CLARIFICATION" =>
            /\ Cardinality(open) = 1
            /\ \A n \in open : clars[j][n].attempt = Len(attempts[j])

\* A worker whose token has been replaced never again changes anything of its
\* job: neither its row nor attempts, clarifications, results or events.
FencedStep ==
    \A w \in Workers : \A j \in Jobs :
        (/\ held[w] = j /\ claim_token[j] # tok[w]
         /\ <<pc[w], mem[w]>>' # <<pc[w], mem[w]>>)
        => /\ UNCHANGED <<status[j], claim_token[j], locked_by[j], lease[j]>>
           /\ UNCHANGED <<attempts[j], clars[j], datasets[j], snapshots[j],
                          outcomes[j]>>
FencedWrites == [][FencedStep]_vars

\* No handler but the unlocked cancel ever takes a job out of a terminal
\* status; a cancelled job in particular stays cancelled.
TerminalStep ==
    \A j \in Jobs : status[j] \in TerminalStates =>
        status'[j] \in {status[j], "CANCELLED"}
TerminalOnlyToCancelled == [][TerminalStep]_vars

\* A job changes hands at most twice, the second time because the first lease
\* ran out, and only before it had any effect or outcome.
HandoverStep ==
    \A j \in Jobs : claim_token'[j] # claim_token[j] =>
        /\ claim_token[j] \in {0, 1}
        /\ claim_token[j] = 1 => lease[j] = "STALE"
        /\ datasets[j] = 0 /\ outcomes[j] = <<>> /\ snapshots[j] = {}
HandoverOnlyBeforeEffects == [][HandoverStep]_vars

\* A created job is eventually claimed by some worker or cancelled.
JobPickedUp ==
    \A j \in Jobs : status[j] = "RECEIVED" ~> claim_token[j] # NULL \/ status[j] = "CANCELLED"

\* A run always ends and gives its worker back, whatever it waits for.
RunEnds == \A w \in Workers : pc[w] \in Engaged ~> pc[w] = "idle"

\* A cancellation that was validated is always applied in the end, even when
\* it waits behind a running engine.
CancelLands ==
    \A j \in Jobs : (\E c \in Clients : cancelling[c] = j) ~> status[j] = "CANCELLED"

------------------------------------------------------------------------------
(* The abstract specification *)

\* What a client can tell of a status.
PhaseOf(s) ==
    CASE s = "NONE" -> "absent"
      [] s \in ActiveStatuses -> "open"
      [] s = "NEEDS_CLARIFICATION" -> "waiting"
      [] s = "COMPLETED" -> "succeeded"
      [] s = "EXPIRED" -> "expired"
      [] s = "CANCELLED" -> "cancelled"
      [] OTHER -> "failed"

\* The last event of a stream.
Told(events) == IF events = <<>> THEN "nothing" ELSE events[Len(events)]

Lifecycle ==
    INSTANCE AnalysisLifecycle WITH
        phase <- [j \in Jobs |-> PhaseOf(status[j])],
        dataset <- [j \in Jobs |-> datasets[j] > 0],
        result <- [j \in Jobs |-> snapshots[j] # {}],
        told <- [j \in Jobs |-> Told(outcomes[j])]

\* For the client the workers, claims, recoveries and locks behave like one
\* process that works on each analysis in steps of its own: every commit of
\* every handler is one step of the life cycle or invisible, so the status,
\* the dataset, the result and the announcement change together or not at all.
ImplementsLifecycle == Lifecycle!Spec

------------------------------------------------------------------------------
(* What the repository says and the code does not do *)

\* state_machine.py:116 "TERMINAL_STATE_MUTATION_PROHIBITED": a job never
\* leaves a terminal status.
TerminalIsFinal ==
    [][\A j \in Jobs : status[j] \in TerminalStates => status'[j] = status[j]]_vars

\* ADR-031 section 2 and 5.2: recovery marks the previous open attempt as
\* ABANDONED, so that a recovered job starts without open attempts.
RecoveryAbandonsOpenAttempt ==
    \A j \in Jobs : claim_token[j] = 2 /\ status[j] = "RECEIVED" =>
        \A n \in DOMAIN attempts[j] : attempts[j][n] # "IN_PROGRESS"

\* clarification_service.py:266 and :286 announce analysis.resumed and
\* ANALYSIS_RESUMED_AFTER_CLARIFICATION: an answered job is run again.
ResumedAnalysisRuns ==
    \A j \in Jobs : status[j] = "UNDERSTANDING_REQUEST" ~> status[j] # "UNDERSTANDING_REQUEST"

==============================================================================
