-------------------------- MODULE ClarificationSteps --------------------------
(***************************************************************************)
(* The handlers of ClarificationService one at a time, without sessions,   *)
(* row locks, waiting, deadlocks or aborts: each sees a job and its        *)
(* clarification as they are and writes both at once, which is how         *)
(* AnalysisJobs takes them.  cancel_analysis, which is not one of them,    *)
(* reads in one step and writes in another.                                *)
(***************************************************************************)
EXTENDS JobStates

CONSTANT Jobs

VARIABLES
    job, clar, due,
    cancelling   \* jobs that will be cancelled beside their clarification

rows == <<job, clar, due, cancelling>>

Init ==
    /\ job = [j \in Jobs |-> "NEEDS_CLARIFICATION"]
    /\ clar = [j \in Jobs |-> "AWAITING"]
    /\ due = {} /\ cancelling = {}

BecomesDue(j) ==
    /\ due' = due \cup {j}
    /\ UNCHANGED <<job, clar, cancelling>>

Close(j, jobStatus, clarStatus) ==
    /\ clar[j] = "AWAITING"
    /\ job' = [job EXCEPT ![j] = jobStatus]
    /\ clar' = [clar EXCEPT ![j] = clarStatus]
    /\ UNCHANGED <<due, cancelling>>

\* The job goes on with the answer, unless that comes too late.
Respond(j) ==
    /\ job[j] = "NEEDS_CLARIFICATION"
    /\ IF j \in due THEN Close(j, "EXPIRED", "EXPIRED")
                    ELSE Close(j, "UNDERSTANDING_REQUEST", "RECEIVED")

Cancel(j) ==
    /\ MayTransition(job[j], "CANCELLED")
    /\ Close(j, "CANCELLED", "CANCELLED")

\* A job that is not over may be cancelled beside its clarification, now or
\* later, when it may be over.
Doom(j) ==
    /\ MayTransition(job[j], "CANCELLED")
    /\ cancelling' = cancelling \cup {j}
    /\ UNCHANGED <<job, clar, due>>

CancelAnalysis(j) ==
    /\ j \in cancelling
    /\ cancelling' = cancelling \ {j}
    /\ job' = [job EXCEPT ![j] = "CANCELLED"]
    /\ UNCHANGED <<clar, due>>

Spare(j) ==
    /\ j \in cancelling
    /\ cancelling' = cancelling \ {j}
    /\ UNCHANGED <<job, clar, due>>

\* A batch of open clarifications expires, each with its job if that waits.
Expire(batch) ==
    /\ \A j \in batch : j \in due /\ clar[j] = "AWAITING"
    /\ job' = [j \in Jobs |->
           IF j \in batch /\ job[j] = "NEEDS_CLARIFICATION"
           THEN "EXPIRED" ELSE job[j]]
    /\ clar' = [j \in Jobs |-> IF j \in batch THEN "EXPIRED" ELSE clar[j]]
    /\ UNCHANGED <<due, cancelling>>

Next ==
    \/ \E j \in Jobs :
          \/ BecomesDue(j) \/ Respond(j) \/ Cancel(j)
          \/ Doom(j) \/ CancelAnalysis(j) \/ Spare(j)
    \/ \E batch \in SUBSET Jobs : Expire(batch)

Spec == Init /\ [][Next]_rows

==============================================================================
