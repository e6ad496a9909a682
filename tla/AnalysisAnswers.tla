---------------------------- MODULE AnalysisAnswers ----------------------------
(***************************************************************************)
(* How an analysis turns a prompt into a comparison and the comparison     *)
(* into a narrative: normalizer, plan, tool call, model, quality gate.     *)
(* AnalysisJobs has the statuses, the fences and the failures of the same  *)
(* run; here is what it asks and answers.  The request of Comparisons is   *)
(* either one made over HTTP or the tool call of one analysis.             *)
(*                                                                         *)
(* A prompt is what the matching can find in it, a narrative the numbers   *)
(* that it claims.                                                         *)
(***************************************************************************)
EXTENDS Comparisons

CONSTANTS
    Years,
    RecordKeys,    \* period_record_keys: of each stored period
    Offers,        \* SemanticMeasureRegistry: origins of each measure it has
    Monetary,      \* measures that are amounts of a currency
    Prompts,       \* that are submitted
    Claims         \* numbers a narrative may contain

Measures == DOMAIN Offers

\* A year with a quarter, or with none: 0.
PeriodKey == Years \X (0..4)
NoLine == "none"

\* names: institutions whose name occurs in the text; written: periods whose
\* label or comparison key does; quarters: the wordings that name a quarter;
\* years: every year that occurs; line: the line of the catalog it names, one
\* at most here.
Prompt == [blank : BOOLEAN, names : SUBSET Institutions,
           written : SUBSET Periods, quarters : SUBSET (Years \X (1..4)),
           years : SUBSET Years, line : STRING]

\* A number is a year, a page or the like; one up to ten; or a figure.  Its
\* digits may happen to occur in the id of the dataset.
Claim == [kind : {"excluded", "small", "figure"}, inId : BOOLEAN]

ASSUME AnswerAssumption ==
    /\ RecordKeys \in [Periods -> (SUBSET PeriodKey) \ {{}}]
    /\ \A measure \in Measures : Offers[measure] \subseteq Origins
    /\ "TOTAL_ASSETS" \in Measures
    /\ Prompts \subseteq Prompt /\ Prompts # {} /\ Claims \subseteq Claim
    /\ \A p \in Prompts : {k[1] : k \in p.quarters} \subseteq p.years

VARIABLES
    phase,     \* of the analysis; "http" when there is none
    prompt,
    asks,      \* clarification_code
    narrative

answer == <<phase, prompt, asks, narrative>>
allVars == <<vars, answer>>

AnswerTypeOK ==
    /\ TypeOK
    /\ phase \in {"http", "understanding", "executing", "gate", "waiting",
                  "completed", "failed"}
    /\ prompt \in Prompts
    /\ asks \in {"none", "UNSUPPORTED_REQUEST_SCOPE", "INSTITUTION_REQUIRED",
                 "REPORTING_PERIOD_REQUIRED"}
    /\ narrative \subseteq Claims

------------------------------------------------------------------------------
(* The request that the tool makes: its defaults and those of the DTO. *)

ToolQuery(insts, periods, measure) ==
    [institutions |-> insts, periods |-> periods, policy |-> "BOTH",
     offers |-> IF measure \in Measures THEN Offers[measure] ELSE {},
     monetary |-> measure \in Monetary,
     strictEvidence |-> FALSE, strictPeriods |-> FALSE,
     top |-> 0, scope |-> "PER_PERIOD", descending |-> TRUE]

Unplanned == ToolQuery({}, {}, NoLine)

StartAnalysis ==
    /\ Start /\ query = Unplanned
    /\ phase = "understanding" /\ prompt \in Prompts

StartHttp ==
    /\ Init
    /\ phase = "http" /\ prompt = CHOOSE p \in Prompts : TRUE

AnswerInit == (StartHttp \/ StartAnalysis) /\ asks = "none" /\ narrative = {}

------------------------------------------------------------------------------
(* Understanding. *)

\* Deviation: a bare year counts beside what is more specific.
ParseKeysAndYears(p) == p.quarters \cup {<<y, 0>> : y \in p.years}

\* parse_period_keys.
ParseKeys(p) ==
    IF p.quarters # {} THEN p.quarters ELSE {<<y, 0>> : y \in p.years}

\* A reference without a quarter is permissive, on either side.
Matches(a, b) ==
    /\ a[1] = b[1]
    /\ a[2] = 0 \/ b[2] = 0 \/ a[2] = b[2]

TextMatches(p, period) ==
    \E a \in ParseKeys(p), s \in RecordKeys[period] : Matches(a, s)

\* The wording is interpreted only where no label or key is quoted.
MatchedPeriods(p) ==
    IF p.written # {} THEN p.written
                      ELSE {period \in Periods : TextMatches(p, period)}

\* resolve_metric_codes, and the default for a prompt that names no line.
Measure(p) == IF p.line = NoLine THEN "TOTAL_ASSETS" ELSE p.line

\* What the prompt fails to say; the fast model is never reached (its transport
\* is the built-in one, whose text is not JSON), so it adds nothing.
Missing(p) ==
    IF p.blank THEN "UNSUPPORTED_REQUEST_SCOPE"
    ELSE IF p.names = {} THEN "INSTITUTION_REQUIRED"
    ELSE IF MatchedPeriods(p) = {} THEN "REPORTING_PERIOD_REQUIRED"
    ELSE "none"

Clarify ==
    /\ phase = "understanding" /\ Missing(prompt) # "none"
    /\ asks' = Missing(prompt)
    /\ phase' = "waiting"
    /\ UNCHANGED <<vars, prompt, narrative>>

\* The plan has one step; its arguments are the ids that were matched.
MakePlan ==
    /\ phase = "understanding" /\ Missing(prompt) = "none"
    /\ query' = ToolQuery(prompt.names, MatchedPeriods(prompt), Measure(prompt))
    /\ phase' = "executing"
    /\ UNCHANGED <<data, stage, facts, calcs, rows, charted, page, past,
                   prompt, asks, narrative>>

------------------------------------------------------------------------------
(* The tool call, and what is made of its result. *)

Reading ==
    Ask \/ ReadFacts \/ RefuseFacts \/ ReadCalculations \/ RefuseIncomplete

\* Over HTTP any page may be asked for, the tool asks for the first.
Compare ==
    /\ \/ phase \in {"http", "executing"} /\ Reading
       \/ phase \in {"http", "executing"} /\ Store(1)
       \/ \E n \in 2..Cardinality(Cells) : phase = "http" /\ Store(n)
       \/ \E n \in 1..Cardinality(Cells) : GetPage(n)
    /\ UNCHANGED answer

\* Whatever the comparison raises ends the analysis.
ToolFails ==
    /\ phase = "executing" /\ stage = "refused"
    /\ phase' = "failed"
    /\ UNCHANGED <<vars, prompt, asks, narrative>>

\* The model answers freely; without an answer there is a text without numbers.
Narrate ==
    /\ phase = "executing" /\ stage = "stored"
    /\ narrative' \in SUBSET Claims
    /\ phase' = "gate"
    /\ UNCHANGED <<vars, prompt, asks>>

\* verify_narrative_numeric_claims.  Its dataset is the id alone, without the
\* facts from which it would derive sums, differences and ratios.
Supported(claim) == claim.kind \in {"excluded", "small"} \/ claim.inId

\* run_all_gates: of its gates only that of the numbers can fail.
GatesPass == \A claim \in narrative : Supported(claim)

RunGates ==
    /\ phase = "gate"
    /\ phase' = IF GatesPass THEN "completed" ELSE "failed"
    /\ UNCHANGED <<vars, prompt, asks, narrative>>

\* get_analysis_result serves every stored row, whatever page the tool got.
ResultCells == {rows[i].cell : i \in DOMAIN rows}

Answered == phase \in {"waiting", "completed", "failed"} /\ UNCHANGED allVars
Refused == phase = "http" /\ Ended /\ UNCHANGED answer

DataChanges == DataChange /\ UNCHANGED answer

AnswerNext ==
    \/ DataChanges \/ Compare
    \/ Clarify \/ MakePlan \/ ToolFails \/ Narrate \/ RunGates
    \/ Answered \/ Refused

AnswerSpec == AnswerInit /\ [][AnswerNext]_allVars

------------------------------------------------------------------------------
(* Properties. *)

\* A completed analysis answers the question that was asked.  Its dataset has a
\* row for an institution and a period exactly if the prompt means both and there
\* was a figure of the line it names when the facts or the calculations were read,
\* at two moments since it asked.  Which periods are meant is said in terms of the
\* quarters of time that a wording and a stored period cover.  It is what the code
\* says it takes a question to mean and may be less than the words: a period that
\* is quoted silences every other wording, a quarter every bare year.
Covered(key) == IF key[2] = 0 THEN {key[1]} \X (1..4) ELSE {key}
Asked(p) == IF p.quarters # {} THEN p.quarters ELSE p.years \X (1..4)
Meant(p) ==
    {period \in Periods :
        IF p.written # {} THEN period \in p.written
        ELSE \E k \in RecordKeys[period] : Covered(k) \cap Asked(p) # {}}
AnswersTheQuestion ==
    phase = "completed" =>
        LET line == IF prompt.line = NoLine THEN "TOTAL_ASSETS" ELSE prompt.line IN
        \E U, V \in past :
            ResultCells =
                {c \in prompt.names \X Meant(prompt) :
                    \E o \in Offers[line] : \E f \in AtMoments(U, V)[o] : f.cell = c}

==============================================================================
