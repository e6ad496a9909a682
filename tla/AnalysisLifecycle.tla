--------------------------- MODULE AnalysisLifecycle ---------------------------
(***************************************************************************)
(* What the analysis plane promises the client of one analysis, without    *)
(* workers, claims, leases, locks or attempts: the request is worked on by *)
(* somebody, may ask a question and take an answer, commits at most one    *)
(* dataset while it is open, and ends with its result and its announcement *)
(* in one step.                                                            *)
(***************************************************************************)

CONSTANT Jobs

VARIABLES
    phase,     \* what GET /analyses/{id} amounts to
    dataset,   \* the comparison dataset is there
    result,    \* GET /analyses/{id}/result has something to serve
    told       \* what the event stream has announced

lifecycle == <<phase, dataset, result, told>>

Phases == {"absent", "open", "waiting", "succeeded", "failed", "expired",
           "cancelled"}

Init ==
    /\ phase = [j \in Jobs |-> "absent"]
    /\ dataset = [j \in Jobs |-> FALSE]
    /\ result = [j \in Jobs |-> FALSE]
    /\ told = [j \in Jobs |-> "nothing"]

Keeps(j) ==
    /\ dataset'[j] = dataset[j]
    /\ result'[j] = result[j]
    /\ told'[j] = told[j]

Submit(j) == phase[j] = "absent" /\ phase'[j] = "open" /\ Keeps(j)

\* A question is asked before anything was produced, and answered or left.
Ask(j) ==
    /\ phase[j] = "open" /\ ~dataset[j]
    /\ phase'[j] = "waiting"
    /\ Keeps(j)
Answer(j) == phase[j] = "waiting" /\ phase'[j] = "open" /\ Keeps(j)
Expire(j) == phase[j] = "waiting" /\ phase'[j] = "expired" /\ Keeps(j)

\* The one dataset of the analysis.
Produce(j) ==
    /\ phase[j] = "open" /\ ~dataset[j]
    /\ phase'[j] = "open"
    /\ dataset'[j] = TRUE
    /\ result'[j] = result[j]
    /\ told'[j] = told[j]

Succeed(j) ==
    /\ phase[j] = "open" /\ dataset[j] /\ told[j] = "nothing"
    /\ phase'[j] = "succeeded"
    /\ dataset'[j] = TRUE
    /\ result'[j] = TRUE
    /\ told'[j] = "completed"

Fail(j) ==
    /\ phase[j] = "open" /\ told[j] = "nothing"
    /\ phase'[j] = "failed"
    /\ dataset'[j] = dataset[j]
    /\ result'[j] = result[j]
    /\ told'[j] = "failed"

\* Cancellation may come at any time, also after the end (see TerminalIsFinal
\* of AnalysisJobs); what was produced and announced stays.
Cancel(j) == phase[j] # "absent" /\ phase'[j] = "cancelled" /\ Keeps(j)

Stay(j) == phase'[j] = phase[j] /\ Keeps(j)

Step(j) ==
    \/ Submit(j) \/ Ask(j) \/ Answer(j) \/ Expire(j) \/ Produce(j)
    \/ Succeed(j) \/ Fail(j) \/ Cancel(j) \/ Stay(j)

\* Jobs move independently; a batch job may move several at once.
Next == \A j \in Jobs : Step(j)

Spec == Init /\ [][Next]_lifecycle

==============================================================================
