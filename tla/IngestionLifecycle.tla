-------------------------- MODULE IngestionLifecycle --------------------------
(***************************************************************************)
(* What ingestion promises of an uploaded document version, without        *)
(* workers, polls, claims, leases, row locks, rollbacks or faults: it is   *)
(* queued once and attempted up to a limit, each attempt is recorded under *)
(* the next number together with what it does to the version, and the      *)
(* verdict, with the one extraction or after the last attempt, is final.   *)
(***************************************************************************)
EXTENDS Naturals

CONSTANTS Jobs, MaxAttempts, Verdicts

VARIABLES
    shown,       \* what the client sees of the version
    spent,       \* how many attempts were made
    recorded,    \* the attempts on record
    extractions  \* how often pages, chunks and candidates were written

lifecycle == <<shown, spent, recorded, extractions>>

Init ==
    /\ shown = [j \in Jobs |-> "NONE"]
    /\ spent = [j \in Jobs |-> 0]
    /\ recorded = [j \in Jobs |-> {}]
    /\ extractions = [j \in Jobs |-> 0]

Queue(j) ==
    /\ shown[j] = "NONE"
    /\ shown' = [shown EXCEPT ![j] = "QUEUED"]
    /\ UNCHANGED <<spent, recorded, extractions>>

\* The next attempt is made, with an outcome.
Record(j, outcome) ==
    /\ shown[j] = "QUEUED" /\ spent[j] < MaxAttempts
    /\ spent' = [spent EXCEPT ![j] = spent[j] + 1]
    /\ recorded' = [recorded EXCEPT ![j] =
           recorded[j] \cup {[number |-> spent[j] + 1, status |-> outcome]}]

\* The file is parsed, and what the parser says of it is the verdict.
Extract(j, verdict) ==
    /\ Record(j, verdict)
    /\ shown' = [shown EXCEPT ![j] = verdict]
    /\ extractions' = [extractions EXCEPT ![j] = 1]

\* Nothing comes of an attempt; that of the last one is the verdict.
Fail(j) ==
    /\ Record(j, "FAILED")
    /\ shown' = [shown EXCEPT ![j] =
           IF spent[j] + 1 < MaxAttempts THEN "QUEUED" ELSE "FAILED"]
    /\ UNCHANGED extractions

Next ==
    \E j \in Jobs :
        Queue(j) \/ Fail(j) \/ \E verdict \in Verdicts : Extract(j, verdict)

Spec == Init /\ [][Next]_lifecycle

==============================================================================
