-------------------------- MODULE ClarificationLocks --------------------------
(***************************************************************************)
(* The row locks of ClarificationService.  respond and cancel lock the job *)
(* and then its clarification; expire_due_clarifications locks a batch of  *)
(* clarifications (SKIP LOCKED) and then their jobs one by one: the two    *)
(* orders cross, and PostgreSQL's deadlock detector has to break the ties. *)
(* AnalysisJobs takes both locks in one step; this module is about the     *)
(* steps in between.                                                       *)
(*                                                                         *)
(* The model starts where require_clarification has committed: every job   *)
(* waits and has its one open clarification (uq_active_clarification_per_job).   *)
(***************************************************************************)
EXTENDS JobStates, Naturals, FiniteSets

CONSTANTS
    Jobs,          \* jobs with their clarifications, both named by the job
    Responders,    \* requests to POST /analyses/{id}/clarification/respond
    Cancellers,    \* requests to POST /analyses/{id}/clarification/cancel
    Expirers,      \* maintenance workers
    BatchSize,     \* batch_size of expire_due_clarifications
    Nobody

Clients == Responders \cup Cancellers
Sessions == Clients \cup Expirers

ASSUME LocksAssumption ==
    /\ Nobody \notin Sessions \cup Jobs
    /\ Responders \cap Cancellers = {} /\ Clients \cap Expirers = {}
    /\ BatchSize \in Nat \ {0}

VARIABLES
    job, clar,         \* committed analysis_jobs.status, clarification status
    due,               \* jobs whose clarification's expires_at has passed
    cancelling,        \* jobs a cancel_analysis has read and not yet written
    joblock, clarlock, \* the session that holds the row lock, or Nobody
    pc,                \* where a session is
    target,            \* the row a session works on or waits for
    batch              \* what an expirer still has to lock

rows == <<job, clar, due, cancelling>>
locks == <<joblock, clarlock>>
session == <<pc, target, batch>>
vars == <<rows, locks, session>>

TypeOK ==
    /\ job \in [Jobs -> {"NEEDS_CLARIFICATION", "UNDERSTANDING_REQUEST",
                         "EXPIRED", "CANCELLED"}]
    /\ clar \in [Jobs -> {"AWAITING", "RECEIVED", "EXPIRED", "CANCELLED"}]
    /\ due \subseteq Jobs /\ cancelling \subseteq Jobs
    /\ joblock \in [Jobs -> Sessions \cup {Nobody}]
    /\ clarlock \in [Jobs -> Sessions \cup {Nobody}]
    /\ pc \in [Sessions -> {"idle", "wants_job", "wants_clar"}]
    /\ target \in [Sessions -> Jobs \cup {Nobody}]
    /\ batch \in [Expirers -> SUBSET Jobs]

Init ==
    /\ job = [j \in Jobs |-> "NEEDS_CLARIFICATION"]
    /\ clar = [j \in Jobs |-> "AWAITING"]
    /\ due = {} /\ cancelling = {}
    /\ joblock = [j \in Jobs |-> Nobody]
    /\ clarlock = [j \in Jobs |-> Nobody]
    /\ pc = [s \in Sessions |-> "idle"]
    /\ target = [s \in Sessions |-> Nobody]
    /\ batch = [e \in Expirers |-> {}]

------------------------------------------------------------------------------
(* Sessions *)

\* Deviation: rollback forgets the locks of the job rows.
EndKeepingJobLocks(s) ==
    /\ pc' = [pc EXCEPT ![s] = "idle"]
    /\ target' = [target EXCEPT ![s] = Nobody]
    /\ batch' = [e \in Expirers |-> IF e = s THEN {} ELSE batch[e]]
    /\ joblock' = [j \in Jobs |-> joblock[j]]
    /\ clarlock' = [j \in Jobs |-> IF clarlock[j] = s THEN Nobody ELSE clarlock[j]]

\* Commit or rollback: the session's locks go and it is idle again.
End(s) ==
    /\ pc' = [pc EXCEPT ![s] = "idle"]
    /\ target' = [target EXCEPT ![s] = Nobody]
    /\ batch' = [e \in Expirers |-> IF e = s THEN {} ELSE batch[e]]
    /\ joblock' = [j \in Jobs |-> IF joblock[j] = s THEN Nobody ELSE joblock[j]]
    /\ clarlock' = [j \in Jobs |-> IF clarlock[j] = s THEN Nobody ELSE clarlock[j]]

GoTo(s, p, j) ==
    /\ pc' = [pc EXCEPT ![s] = p]
    /\ target' = [target EXCEPT ![s] = j]

\* now() passes expires_at.
BecomesDue(j) ==
    /\ j \notin due
    /\ due' = due \cup {j}
    /\ UNCHANGED <<job, clar, cancelling, locks, session>>

------------------------------------------------------------------------------
(* respond and cancel *)

Request(c, j) ==
    /\ pc[c] = "idle"
    /\ GoTo(c, "wants_job", j)
    /\ UNCHANGED <<rows, locks, batch>>

\* Deviation: respond goes on with whatever job it has locked.
MayProceedAnyway(c) == TRUE

\* The job's row is locked; respond returns 400 for a job that does not wait.
MayProceed(c) ==
    c \in Responders => job[target[c]] = "NEEDS_CLARIFICATION"

LockJob(c) ==
    /\ pc[c] = "wants_job"
    /\ joblock[target[c]] = Nobody
    /\ MayProceed(c)
    /\ joblock' = [joblock EXCEPT ![target[c]] = c]
    /\ GoTo(c, "wants_clar", target[c])
    /\ UNCHANGED <<rows, clarlock, batch>>

Refuse(c) ==
    /\ pc[c] = "wants_job"
    /\ joblock[target[c]] = Nobody
    /\ ~MayProceed(c)
    /\ End(c)
    /\ UNCHANGED rows

\* With both rows locked the handler writes them and commits.
Settle(c, jobStatus, clarStatus) ==
    /\ job' = [job EXCEPT ![target[c]] = jobStatus]
    /\ clar' = [clar EXCEPT ![target[c]] = clarStatus]
    /\ End(c)
    /\ UNCHANGED <<due, cancelling>>

LockedClar(c) == pc[c] = "wants_clar" /\ clarlock[target[c]] = Nobody

\* respond: in time, too late, or to a clarification that is closed (409).
Respond(c) ==
    /\ LockedClar(c)
    /\ clar[target[c]] = "AWAITING"
    /\ IF target[c] \in due
       THEN Settle(c, "EXPIRED", "EXPIRED")
       ELSE Settle(c, "UNDERSTANDING_REQUEST", "RECEIVED")

\* cancel: the trigger refuses to rewrite an answered or expired row, and
\* validate_transition to cancel a job that is over.
Cancel(c) ==
    /\ LockedClar(c)
    /\ clar[target[c]] \in {"AWAITING", "CANCELLED"}
    /\ MayTransition(job[target[c]], "CANCELLED")
    /\ Settle(c, "CANCELLED", "CANCELLED")

CancelRefused(c) ==
    /\ LockedClar(c)
    /\ \/ clar[target[c]] \notin {"AWAITING", "CANCELLED"}
       \/ ~MayTransition(job[target[c]], "CANCELLED")
    /\ End(c)
    /\ UNCHANGED rows

\* cancel_analysis reads the job and validates the transition without a lock.
CancelRead(j) ==
    /\ MayTransition(job[j], "CANCELLED")
    /\ cancelling' = cancelling \cup {j}
    /\ UNCHANGED <<job, clar, due, locks, session>>

\* Its UPDATE waits for the row lock, takes no other, and overwrites whatever
\* status the job has by then.
CancelWrite(j) ==
    /\ j \in cancelling /\ joblock[j] = Nobody
    /\ job' = [job EXCEPT ![j] = "CANCELLED"]
    /\ cancelling' = cancelling \ {j}
    /\ UNCHANGED <<clar, due, locks, session>>

CancelDies(j) ==
    /\ j \in cancelling
    /\ cancelling' = cancelling \ {j}
    /\ UNCHANGED <<job, clar, due, locks, session>>

CancelAnalysis(j) == CancelRead(j) \/ CancelWrite(j) \/ CancelDies(j)

------------------------------------------------------------------------------
(* expire_due_clarifications *)

\* Deviation: the batch query has no lock.
DueLockedOrNot == {j \in due : clar[j] = "AWAITING"}

DueUnlocked == {j \in due : clar[j] = "AWAITING" /\ clarlock[j] = Nobody}

\* SELECT ... FOR UPDATE SKIP LOCKED LIMIT batch_size, and the first job.
SelectDue(e) ==
    /\ pc[e] = "idle"
    /\ \E b \in SUBSET DueUnlocked :
        /\ b # {}
        /\ Cardinality(b) <= BatchSize
        /\ Cardinality(b) < BatchSize => b = DueUnlocked
        /\ clarlock' = [j \in Jobs |-> IF j \in b THEN e ELSE clarlock[j]]
        /\ batch' = [batch EXCEPT ![e] = b]
        /\ \E j \in b : GoTo(e, "wants_job", j)
    /\ UNCHANGED <<rows, joblock>>

\* Deviation: only the last job of a batch is written.
ExpiringLast(e) == {}

\* The jobs a batch has decided to expire: those it has locked that are not
\* over.  Nothing is written before the commit.
Expiring(e) == {j \in Jobs : joblock[j] = e /\ job[j] \notin TerminalStates}

\* The next job of the batch, or the commit after the last one.
ExpireNext(e) ==
    LET j == target[e]
        left == batch[e] \ {j}
    IN
    /\ pc[e] = "wants_job"
    /\ joblock[j] = Nobody
    /\ job[j] \notin TerminalStates => MayTransition(job[j], "EXPIRED")
    /\ left # {}
    /\ joblock' = [joblock EXCEPT ![j] = e]
    /\ batch' = [batch EXCEPT ![e] = left]
    /\ \E k \in left : GoTo(e, "wants_job", k)
    /\ UNCHANGED <<rows, clarlock>>

CommitBatch(e) ==
    LET last == target[e]
        closed == {j \in Jobs : clarlock[j] = e}
    IN
    /\ pc[e] = "wants_job"
    /\ batch[e] = {last}
    /\ joblock[last] = Nobody
    /\ job[last] \notin TerminalStates => MayTransition(job[last], "EXPIRED")
    /\ job' = [j \in Jobs |->
            IF j \in Expiring(e) \/ (j = last /\ job[j] \notin TerminalStates)
            THEN "EXPIRED" ELSE job[j]]
    /\ clar' = [j \in Jobs |-> IF j \in closed THEN "EXPIRED" ELSE clar[j]]
    /\ End(e)
    /\ UNCHANGED <<due, cancelling>>

------------------------------------------------------------------------------
(* The database *)

\* The session that s waits for.
Blocker(s) ==
    CASE pc[s] = "wants_job" -> joblock[target[s]]
      [] pc[s] = "wants_clar" -> clarlock[target[s]]
      [] OTHER -> Nobody

\* Two sessions wait for each other.
Deadlocked(s) ==
    /\ Blocker(s) # Nobody
    /\ Blocker(Blocker(s)) = s

\* The detector aborts one of the two: the request fails with 500, the
\* maintenance job's transaction is rolled back and the worker polls again.
BreakDeadlock(e) ==
    /\ Deadlocked(e)
    /\ \E s \in {e, Blocker(e)} : End(s)
    /\ UNCHANGED rows

\* A client disconnects or a process dies.
Crash(s) ==
    /\ pc[s] # "idle"
    /\ End(s)
    /\ UNCHANGED rows

------------------------------------------------------------------------------

ClientStep(c) ==
    \/ LockJob(c) \/ Refuse(c)
    \/ c \in Responders /\ Respond(c)
    \/ c \in Cancellers /\ (Cancel(c) \/ CancelRefused(c))
ExpirerStep(e) == ExpireNext(e) \/ CommitBatch(e)

Next ==
    \/ \E j \in Jobs : BecomesDue(j) \/ CancelAnalysis(j)
    \/ \E c \in Clients : ClientStep(c) \/ \E j \in Jobs : Request(c, j)
    \/ \E e \in Expirers : SelectDue(e) \/ ExpirerStep(e) \/ BreakDeadlock(e)
    \/ \E s \in Sessions : Crash(s)

Spec == Init /\ [][Next]_vars

\* PostgreSQL queues the waiters of a row, so a lock that becomes free again
\* and again is granted, and it breaks every deadlock.  Nobody need ever ask
\* for anything, and expiry batches need never be started.
Fairness ==
    /\ \A c \in Clients : SF_vars(ClientStep(c))
    /\ \A e \in Expirers : SF_vars(ExpirerStep(e)) /\ WF_vars(BreakDeadlock(e))

LiveSpec == Spec /\ Fairness

------------------------------------------------------------------------------
(* Properties *)

\* A clarification and its job are closed together, by whichever of the
\* answer, the cancellation and the expiry gets both rows: no interleaving
\* leaves an answered clarification on an expired job, an expired one on a
\* resumed job or a waiting job without an open clarification.
ClosedTogether ==
    \A j \in Jobs :
        \/ job[j] = "CANCELLED"
        \/ <<job[j], clar[j]>> \in
            {<<"NEEDS_CLARIFICATION", "AWAITING">>,
             <<"UNDERSTANDING_REQUEST", "RECEIVED">>,
             <<"EXPIRED", "EXPIRED">>}

\* Sessions that all wait for one another include an expiry batch and a client
\* that wait for each other directly: the crossed lock orders are the only
\* source of deadlock, neither two batches nor two clients ever block each
\* other for good, and one abort is enough.
DeadlocksArePairs ==
    \A C \in (SUBSET Sessions) \ {{}} :
        (\A s \in C : Blocker(s) \in C) =>
            \E e \in C \cap Expirers : Deadlocked(e) /\ Blocker(e) \in Clients

\* What the rows say of the closing of a clarification is never rewritten,
\* also by sessions that had decided on their write before they waited.
ClosedStaysStep ==
    \A j \in Jobs : clar[j] # "AWAITING" => clar'[j] = clar[j]
ClosedStays == [][ClosedStaysStep]_vars

OneByOne == INSTANCE ClarificationSteps

\* Whatever locks the sessions wait for, lose to a deadlock or hold when they
\* crash, the rows change as if the handlers ran one at a time: what a session
\* has read of a job or a clarification before it waited for the other is
\* still so when it writes both.  Only cancel_analysis, which reads without a
\* lock, writes later than it reads, in the abstract specification too.
ImplementsSteps == OneByOne!Spec

\* Every request and every batch comes to an end, whatever it waits for.
SessionsEnd == \A s \in Sessions : pc[s] # "idle" ~> pc[s] = "idle"

==============================================================================
