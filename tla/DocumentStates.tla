---------------------------- MODULE DocumentStates ----------------------------
(***************************************************************************)
(* The transition tables of StateMachineService                            *)
(* (app/services/state_machine.py) for the rows of the ingestion plane.    *)
(* Each transition_* method reads the row FOR UPDATE and raises            *)
(* InvalidStateTransitionException unless the table allows the step.       *)
(***************************************************************************)

\* VALID_PARSER_STATUS_MAP: the verdicts a parser may return.
ParserStatus ==
    {"COMPLETED", "COMPLETED_WITH_WARNINGS", "AWAITING_REVIEW", "REJECTED",
     "FAILED"}

\* Where PARSING and EXTRACTED may lead, for a job and for a version alike.
Verdict == [PARSING |-> ParserStatus \cup {"EXTRACTED", "QUEUED"},
            EXTRACTED |-> ParserStatus]

VersionStatus ==
    {"PENDING_UPLOAD", "QUEUED", "PARSING", "EXTRACTED"} \cup ParserStatus

VersionTransitions ==
    [s \in VersionStatus |->
        CASE s = "PENDING_UPLOAD" -> {"QUEUED", "FAILED"}
          [] s = "QUEUED" -> {"PARSING", "FAILED"}
          [] s \in {"PARSING", "EXTRACTED"} -> Verdict[s]
          [] OTHER -> {}]

IngestionJobStatus ==
    VersionStatus
        \cup {"UPLOADED", "VALIDATING", "VALIDATED", "CANCELLED", "EXPIRED"}

\* Unlike a version, a FAILED job has a way back ("Allowed retry path").
JobTransitions ==
    [s \in IngestionJobStatus |->
        CASE s = "PENDING_UPLOAD" -> {"UPLOADED", "FAILED", "EXPIRED"}
          [] s = "UPLOADED" -> {"VALIDATING", "QUEUED", "FAILED", "CANCELLED"}
          [] s = "VALIDATING" -> {"VALIDATED", "REJECTED", "FAILED"}
          [] s = "VALIDATED" -> {"QUEUED", "FAILED"}
          [] s = "QUEUED" -> {"PARSING", "FAILED", "CANCELLED"}
          [] s \in {"PARSING", "EXTRACTED"} -> Verdict[s]
          [] s = "FAILED" -> {"QUEUED"}
          [] OTHER -> {}]

==============================================================================
