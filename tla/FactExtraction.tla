---------------------------- MODULE FactExtraction ----------------------------
(***************************************************************************)
(* What the ingestion worker extracts from a document version, beside the  *)
(* uploads that provide the institution and the period it refers to.       *)
(*                                                                         *)
(* One extraction is one step: it is part of the transaction that has the  *)
(* job FOR UPDATE (IngestionQueue!Publish), and candidates are written by  *)
(* nothing else.  A version is named by its session.  A chunk of a parsed  *)
(* document is a table or text; of its text only the figures matter that   *)
(* are written somewhere in it, as a number or inside of one.              *)
(***************************************************************************)
EXTENDS Uploads

CONSTANTS
    Labels, Figures, Metrics,
    Chunks,          \* of each content
    Aliases,         \* what a tenant may have: for each label, matching metrics
    DefinitionsOf,   \* definitions whose code or name matches it
    Active,          \* metrics with status ACTIVE
    Reading,         \* of a figure, by parse_financial_decimal
    BasisKnown,      \* sessions whose file name tells the reporting basis
    Replies,         \* sequences of figures a model may report
    MaxCandidates,   \* MAX_CANDIDATES_PER_VERSION
    MaxExtractions   \* bound: versions that are extracted

TableRow == [label : Labels, figure : Figures]
Chunk == [rows : Seq(TableRow), contains : SUBSET Figures]

\* A reported figure, the excerpt it is said to be from, and which period its
\* label or its hint names: none, the filing's alone, or another, be it by a
\* date, by two, or by words such as "opening balance".
Report == [label : Labels, figure : Figures, metric : Metrics,
           excerpt : Nat, period : {"none", "own", "other"}]

Methods == {"PARSER_TABLE", "LLM_ASSISTED"}
Candidate == [version : Sessions, chunk : Nat, label : Labels,
              figure : Figures, metric : Metrics, method : Methods,
              period : {"none", "own", "other"},  \* what a report names
              status : {"NORMALIZED", "NEEDS_REVIEW"}]

ASSUME ExtractionAssumption ==
    /\ Chunks \in [Contents -> Seq(Chunk)]
    /\ \A c \in Contents : \A i \in DOMAIN Chunks[c] :
           \A j \in DOMAIN Chunks[c][i].rows :
               LET figure == Chunks[c][i].rows[j].figure
               IN figure \in Chunks[c][i].contains /\ Reading[figure] # "none"
    /\ Aliases \subseteq [Labels -> SUBSET Metrics]
    /\ DefinitionsOf \in [Labels -> SUBSET Metrics]
    /\ Active \subseteq Metrics
    /\ Reading \in [Figures -> {"clear", "ambiguous", "none"}]
    /\ BasisKnown \subseteq Sessions
    /\ Replies \subseteq Seq(Report)
    /\ MaxCandidates \in Nat \ {0} /\ MaxExtractions \in Nat

VARIABLES
    extracted,     \* of a version: not yet, done, or failed for good
    candidates

extraction == <<extracted, candidates>>
allVars == <<vars, extraction>>

ExtractionTypeOK ==
    /\ TypeOK
    /\ extracted \in [Sessions -> {"no", "done", "failed"}]
    /\ candidates \subseteq Candidate

ExtractionInit ==
    /\ Init
    /\ extracted = [s \in Sessions |-> "no"]
    /\ candidates = {}

------------------------------------------------------------------------------
(* Matching and creating. *)

\* match_metric_alias: the tenant's aliases first, the catalog otherwise.
Matches(aliases, label) ==
    IF aliases[label] # {} THEN aliases[label] ELSE DefinitionsOf[label]

\* scalar_one_or_none raises on a label that matches several.
Ambiguous(aliases, label) == Cardinality(Matches(aliases, label)) > 1

Status(s, figure) ==
    IF Reading[figure] = "clear" /\ s \in BasisKnown
    THEN "NORMALIZED" ELSE "NEEDS_REVIEW"

\* create_candidate: the hash of version, label, value and place is looked up.
SameFigure(c, d) ==
    /\ c.version = d.version /\ c.chunk = d.chunk
    /\ c.label = d.label /\ c.figure = d.figure

\* What was found stands somewhere: in a row of a chunk, or in a reply.
Precedes(p, o) == p[1] < o[1] \/ (p[1] = o[1] /\ p[2] < o[2])

Before(places, p) == {o \in places : Precedes(o, p)}
FirstOf(places) == {p \in places : Cardinality(Before(places, p)) < MaxCandidates}

\* found: at each place the candidate to create, unless it is there already.
CreateAll(found) ==
    LET tried == FirstOf(DOMAIN found)
        created == {p \in tried :
                       /\ \A d \in candidates : ~SameFigure(d, found[p])
                       /\ \A o \in Before(tried, p) : ~SameFigure(found[o], found[p])}
    IN candidates \cup {found[p] : p \in created}

------------------------------------------------------------------------------
(* The tables. *)

\* A file whose name does not say institution and period is not read.
Readable(s) == IF Filing[s] = <<>> THEN <<>> ELSE Chunks[Content[s]]

\* The rows of all tables, each at the number of its chunk and of the row.
RowsOf(s) ==
    UNION {{i} \X DOMAIN Readable(s)[i].rows : i \in DOMAIN Readable(s)}
RowAt(s, p) == Readable(s)[p[1]].rows[p[2]]

Named == [s \in Sessions |-> [aliases \in Aliases |->
            {p \in RowsOf(s) : Matches(aliases, RowAt(s, p).label) # {}}]]

\* The reading stops where a row is met with the limit reached.
RowsRead == [s \in Sessions |-> [aliases \in Aliases |->
    {p \in RowsOf(s) : Cardinality(Before(Named[s][aliases], p)) < MaxCandidates}]]

FromTables == [s \in Sessions |-> [aliases \in Aliases |->
    [p \in RowsRead[s][aliases] \cap Named[s][aliases] |->
        LET row == RowAt(s, p) IN
        [version |-> s, chunk |-> p[1], label |-> row.label, figure |-> row.figure,
         metric |-> CHOOSE m \in Matches(aliases, row.label) : TRUE,
         method |-> "PARSER_TABLE", period |-> "none", status |-> Status(s, row.figure)]]]]

------------------------------------------------------------------------------
(* The model, for a document whose tables gave nothing. *)

\* states_a_conflicting_period and names_the_comparative_column: a date other
\* than the filing's, a second date, or the words for the prior period.
ConflictingPeriod(report) == report.period = "other"

\* Deviation: the period a report names is not compared with the filing's.
AcceptedOfAnyPeriod(s, report) ==
    /\ report.metric \in Active
    /\ report.excerpt \in DOMAIN Readable(s)
    /\ report.figure \in Readable(s)[report.excerpt].contains

\* verify_and_collect.
Accepted(s, report) ==
    /\ report.metric \in Active
    /\ report.excerpt \in DOMAIN Readable(s)
    /\ report.figure \in Readable(s)[report.excerpt].contains
    /\ ~ConflictingPeriod(report)

FromModel(s, reply) ==
    [p \in {0} \X {i \in DOMAIN reply : Accepted(s, reply[i])} |->
        LET fact == reply[p[2]] IN
        [version |-> s, chunk |-> fact.excerpt, label |-> fact.label,
         figure |-> fact.figure, metric |-> fact.metric,
         method |-> "LLM_ASSISTED", period |-> fact.period, status |-> Status(s, fact.figure)]]

------------------------------------------------------------------------------
(* Extracting a version. *)

Due(s) ==
    /\ session[s] = "FINALIZED" /\ extracted[s] = "no"
    /\ Cardinality({v \in Sessions : extracted[v] # "no"}) < MaxExtractions

\* find_institution and find_reporting_period find one row each.
Resolved(s) == \A i \in DOMAIN Filing[s] : Cardinality(rows[Filing[s][i]]) = 1

Done(s) == extracted' = [extracted EXCEPT ![s] = "done"] /\ UNCHANGED vars

ExtractTables(s, aliases) ==
    /\ Due(s) /\ Resolved(s) /\ Named[s][aliases] # {}
    /\ \A p \in RowsRead[s][aliases] : ~Ambiguous(aliases, RowAt(s, p).label)
    /\ candidates' = CreateAll(FromTables[s][aliases])
    /\ Done(s)

\* With no model configured the reply is empty.
ExtractWithModel(s, aliases, reply) ==
    /\ Due(s) /\ Resolved(s) /\ Named[s][aliases] = {}
    /\ candidates' = CreateAll(FromModel(s, reply))
    /\ Done(s)

\* A name with two rows (one was created by hand), or a label with two metrics:
\* every attempt raises.
GiveUp(s) ==
    /\ extracted' = [extracted EXCEPT ![s] = "failed"]
    /\ UNCHANGED <<vars, candidates>>

NameAmbiguous(s) ==
    /\ Due(s) /\ \E i \in DOMAIN Filing[s] : Cardinality(rows[Filing[s][i]]) > 1
    /\ GiveUp(s)

LabelAmbiguous(s, aliases) ==
    /\ Due(s) /\ Resolved(s)
    /\ \E p \in RowsRead[s][aliases] : Ambiguous(aliases, RowAt(s, p).label)
    /\ GiveUp(s)

Extract(s) ==
    \/ NameAmbiguous(s)
    \/ \E aliases \in Aliases :
          \/ ExtractTables(s, aliases) \/ LabelAmbiguous(s, aliases)
          \/ \E reply \in Replies : ExtractWithModel(s, aliases, reply)

ExtractionNext ==
    \/ Next /\ UNCHANGED extraction
    \/ \E s \in Sessions : Extract(s)

ExtractionSpec == ExtractionInit /\ [][ExtractionNext]_allVars

------------------------------------------------------------------------------
(* Properties. *)

\* What reaches the review queue can be pointed at: a candidate's figure is in
\* the chunk it cites, of a version that exists and whose institution and period
\* are known; a reported one is of an active metric, of no period but the
\* filing's, and only where the tables have none; and no two candidates of a
\* version are the same figure of the same line.
CandidatesAreSourced ==
    /\ \A c \in candidates :
          /\ extracted[c.version] = "done"
          /\ session[c.version] = "FINALIZED"
          /\ \A i \in DOMAIN Filing[c.version] : rows[Filing[c.version][i]] # {}
          /\ c.chunk \in DOMAIN Chunks[Content[c.version]]
          /\ c.figure \in Chunks[Content[c.version]][c.chunk].contains
          /\ c.method = "LLM_ASSISTED" =>
                 /\ c.metric \in Active /\ c.period # "other"
                 /\ \A d \in candidates :
                       d.version = c.version => d.method = "LLM_ASSISTED"
          /\ \A d \in candidates \ {c} : d.version = c.version =>
                 d.chunk # c.chunk \/ d.label # c.label \/ d.figure # c.figure
    /\ \A s \in Sessions :
          Cardinality({c \in candidates : c.version = s}) <= MaxCandidates

==============================================================================
