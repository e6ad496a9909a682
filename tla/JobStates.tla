------------------------------ MODULE JobStates ------------------------------
(***************************************************************************)
(* The status vocabulary of an analysis job and the transition table of    *)
(* AnalysisStateMachine (app/orchestration/state_machine.py), together     *)
(* with the two status lists that the claim authority of migration 031     *)
(* and the engine's fence are written with.                                *)
(***************************************************************************)

\* TERMINAL_STATES: validate_transition refuses to leave any of these.
TerminalStates ==
    {"COMPLETED", "REJECTED_BY_POLICY", "FAILED", "CANCELLED", "EXPIRED",
     "BUDGET_EXCEEDED"}

\* The statuses recover_next_stale_analysis_job accepts: nothing outside the
\* database has happened yet.
SafeStatuses ==
    {"RECEIVED", "UNDERSTANDING_REQUEST", "PLANNING", "POLICY_CHECK",
     "RETRIEVING_INTERNAL_SOURCES", "VALIDATING_SOURCES"}

\* From the first tool call on, a job is excluded from automatic recovery.
SideEffectStatuses ==
    {"EXECUTING_TOOLS", "RECONCILING_RESULTS", "GENERATING_STRUCTURED_RESULT",
     "QUALITY_GATE"}

\* The ten statuses under which the fence and the lease renewal hold.
ActiveStatuses == SafeStatuses \cup SideEffectStatuses

AnalysisJobStatus ==
    ActiveStatuses \cup TerminalStates
        \cup {"NEEDS_CLARIFICATION", "AWAITING_HUMAN_REVIEW"}

\* VALID_TRANSITIONS.  A terminal status has no entry in the table.
ValidTransitions ==
    [s \in AnalysisJobStatus |->
        CASE s = "RECEIVED" -> {"UNDERSTANDING_REQUEST", "CANCELLED"}
          [] s = "UNDERSTANDING_REQUEST" ->
                {"NEEDS_CLARIFICATION", "PLANNING", "REJECTED_BY_POLICY",
                 "FAILED", "CANCELLED"}
          [] s = "NEEDS_CLARIFICATION" ->
                {"UNDERSTANDING_REQUEST", "EXPIRED", "CANCELLED", "FAILED"}
          [] s = "PLANNING" -> {"POLICY_CHECK", "FAILED", "CANCELLED"}
          [] s = "POLICY_CHECK" ->
                {"RETRIEVING_INTERNAL_SOURCES", "REJECTED_BY_POLICY",
                 "FAILED", "CANCELLED"}
          [] s = "RETRIEVING_INTERNAL_SOURCES" ->
                {"VALIDATING_SOURCES", "FAILED", "BUDGET_EXCEEDED", "CANCELLED"}
          [] s = "VALIDATING_SOURCES" ->
                {"EXECUTING_TOOLS", "NEEDS_CLARIFICATION", "FAILED", "CANCELLED"}
          [] s = "EXECUTING_TOOLS" ->
                {"RECONCILING_RESULTS", "FAILED", "BUDGET_EXCEEDED", "CANCELLED"}
          [] s = "RECONCILING_RESULTS" ->
                {"GENERATING_STRUCTURED_RESULT", "FAILED", "CANCELLED"}
          [] s = "GENERATING_STRUCTURED_RESULT" ->
                {"QUALITY_GATE", "FAILED", "CANCELLED"}
          [] s = "QUALITY_GATE" ->
                {"COMPLETED", "AWAITING_HUMAN_REVIEW", "FAILED", "CANCELLED"}
          [] s = "AWAITING_HUMAN_REVIEW" ->
                {"COMPLETED", "REJECTED_BY_POLICY", "FAILED", "CANCELLED"}
          [] OTHER -> {}]

\* validate_transition(from, to) returns without raising.
MayTransition(from, to) ==
    /\ from \notin TerminalStates
    /\ from \in AnalysisJobStatus
    /\ to \in ValidTransitions[from]

==============================================================================
