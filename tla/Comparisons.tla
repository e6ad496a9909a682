------------------------------ MODULE Comparisons ------------------------------
(***************************************************************************)
(* A comparison of one measure over institutions and periods: POST         *)
(* computes the dataset and stores it, GET pages through what was stored,  *)
(* while facts go on being approved and revised and ratios calculated.     *)
(*                                                                         *)
(* The facts and the calculations are read by two statements, each with a  *)
(* snapshot of its own.  A cell is an institution and a period.  Of the    *)
(* currencies only the one that is asked for is told from the others, of a *)
(* fact's evidence only whether one piece of it has usable coordinates.    *)
(* Institutions and periods are numbered in the order in which the service *)
(* lists them.                                                             *)
(***************************************************************************)
EXTENDS Integers, Sequences, FiniteSets, SequencesExt

CONSTANTS
    Institutions, Periods,
    Amounts,
    Candidates,   \* what may be approved, as the facts it would become
    Results,      \* figures that calculations may come to
    Ledgers,      \* facts and calculations there may be from the start
    Queries,      \* the requests that are made over HTTP
    MaxInstitutions, MaxPeriods,    \* of one comparison
    PageSize,
    MaxChanges    \* bound: approvals and calculations

Cells == Institutions \X Periods
Origins == {"reported", "derived"}
Policies == {"REPORTED_ONLY", "DERIVED_ONLY", "PREFER_REPORTED",
             "PREFER_DERIVED", "BOTH"}
Scopes == {"ROWS", "PER_PERIOD"}

Fact == [cell : Cells, foreign : BOOLEAN, amount : Amounts, cited : BOOLEAN]
Figure == [cell : Cells, amount : Amounts]

\* offers: the origins the registry knows for the measure, none when it does
\* not have the measure.  monetary: it is an amount of a currency, not a rate.
\* top: top_n, 0 for none.
Query == [institutions : SUBSET Institutions, periods : SUBSET Periods,
          policy : Policies, offers : SUBSET Origins, monetary : BOOLEAN,
          strictEvidence : BOOLEAN, strictPeriods : BOOLEAN,
          top : Nat, scope : Scopes, descending : BOOLEAN]

ASSUME ComparisonAssumption ==
    /\ Institutions \subseteq Nat /\ Periods \subseteq Nat
    /\ IsFiniteSet(Institutions) /\ IsFiniteSet(Periods)
    /\ Amounts \subseteq Int
    /\ Candidates \subseteq Fact /\ Results \subseteq Figure
    /\ Ledgers \subseteq [current : SUBSET Fact, completed : SUBSET Figure]
    /\ \A ledger \in Ledgers : \A f, g \in ledger.current :
           f.cell = g.cell /\ f.foreign = g.foreign => f = g
    /\ Queries \subseteq Query
    /\ {MaxInstitutions, MaxPeriods, PageSize} \subseteq Nat \ {0}
    /\ MaxChanges \in Nat

VARIABLES
    current,      \* facts that no later one has closed
    completed,    \* results of the calculations that have completed
    changes,
    \* the request
    stage, query,
    facts, calcs, \* facts_by_key and calcs_by_key: one figure of a cell
    rows,         \* rows_snapshot: the ranking that was stored
    charted,      \* the rows of chart_specs_snapshot
    page,         \* the last page served: its number and its rows, 0 for none
    \* history
    past          \* the usable figures there were, at each moment from the
                  \* request to its last read

data == <<current, completed, changes>>
vars == <<data, stage, query, facts, calcs, rows, charted, page, past>>

\* A row has the figure that was read of some origin for some of the series.
Row == [cell : Cells, shown : [{"reported", "derived", "either"} ->
                                   Origins \cup {"none"}]]

TypeOK ==
    /\ current \subseteq Fact /\ completed \subseteq Figure
    /\ changes \in 0..MaxChanges
    /\ stage \in {"idle", "asked", "half", "read", "stored", "refused"}
    /\ query \in Query
    /\ facts \subseteq Figure /\ calcs \subseteq Figure
    /\ rows \in Seq(Row) /\ charted \in Seq(Row)
    /\ page.number \in Nat /\ page.rows \in Seq(Row)
    /\ past \subseteq [reported : SUBSET Figure, derived : SUBSET Figure]

Start ==
    /\ \E ledger \in Ledgers : /\ current = ledger.current
                               /\ completed = ledger.completed
    /\ changes = 0
    /\ stage = "idle"
    /\ facts = {} /\ calcs = {}
    /\ rows = <<>> /\ charted = <<>>
    /\ page = [number |-> 0, rows |-> <<>>]
    /\ past = {}

Init == Start /\ query \in Queries

------------------------------------------------------------------------------
(* Approvals, revisions and calculations go on. *)

Wanted(q) == q.institutions \X q.periods

\* A fact counts when one piece of its evidence has valid coordinates.
Reported(q) ==
    {[cell |-> f.cell, amount |-> f.amount] :
         f \in {g \in current : g.cited /\ g.cell \in Wanted(q)}}

Book == [reported |-> Reported(query), derived |-> completed]

Change ==
    /\ changes < MaxChanges /\ changes' = changes + 1
    /\ UNCHANGED <<stage, query, facts, calcs, rows, charted, page>>
    /\ past' = IF stage \in {"asked", "half"} THEN past \cup {Book'} ELSE past

\* The first fact of its key.
ApproveFact(f) ==
    /\ ~\E g \in current : g.cell = f.cell /\ g.foreign = f.foreign
    /\ current' = current \cup {f}
    /\ UNCHANGED completed
    /\ Change

\* approve_candidate_as_revision closes one fact with another of the same key,
\* whose evidence may be of less use.
ReviseFact(g, f) ==
    /\ g.cell = f.cell /\ g.foreign = f.foreign /\ g.amount # f.amount
    /\ current' = (current \ {g}) \cup {f}
    /\ UNCHANGED completed
    /\ Change

\* Another calculation for a cell does not replace the one before it.
CompleteCalculation(k) ==
    /\ k \notin completed
    /\ completed' = completed \cup {k}
    /\ UNCHANGED current
    /\ Change

DataChange ==
    \/ \E f \in Candidates : ApproveFact(f) \/ \E g \in current : ReviseFact(g, f)
    \/ \E k \in Results : CompleteCalculation(k)

------------------------------------------------------------------------------
(* Reading. *)

\* Deviation: the fallback of PREFER_DERIVED is not fetched.
NeedsReportedPlain(q) ==
    /\ "reported" \in q.offers
    /\ q.policy \in {"REPORTED_ONLY", "PREFER_REPORTED", "BOTH"}

NeedsReported(q) ==
    /\ "reported" \in q.offers
    /\ q.policy \in {"REPORTED_ONLY", "PREFER_REPORTED", "BOTH",
                     "PREFER_DERIVED"}

NeedsDerived(q) ==
    /\ "derived" \in q.offers
    /\ q.policy \in {"DERIVED_ONLY", "PREFER_DERIVED", "BOTH",
                     "PREFER_REPORTED"}

\* The schema wants one of each at least, the service sets the limits, and the
\* registry must have the measure.
Acceptable(q) ==
    /\ Cardinality(q.institutions) \in 1..MaxInstitutions
    /\ Cardinality(q.periods) \in 1..MaxPeriods
    /\ q.offers # {}

Ask ==
    /\ stage = "idle"
    /\ stage' = IF Acceptable(query) THEN "asked" ELSE "refused"
    /\ past' = {Book}
    /\ UNCHANGED <<data, query, facts, calcs, rows, charted, page>>

\* CURRENCY_MISMATCH, and what strict evidence refuses.
Unreadable(q) ==
    /\ NeedsReported(q)
    /\ \E f \in current : /\ f.cell \in Wanted(q)
                          /\ \/ q.monetary /\ f.foreign
                             \/ q.strictEvidence /\ ~f.cited

\* The rows come in no order, and of those for one cell the last one stays.
LastRead(figures) ==
    {kept \in SUBSET figures :
        /\ \A f \in figures : \E k \in kept : k.cell = f.cell
        /\ \A k, l \in kept : k.cell = l.cell => k = l}

FactsIn(book, q) == LastRead(IF NeedsReported(q) THEN book.reported ELSE {})
CalculationsIn(book, q) ==
    LastRead(IF NeedsDerived(q)
             THEN {k \in book.derived : k.cell \in Wanted(q)} ELSE {})

ReadFacts ==
    /\ stage = "asked" /\ ~Unreadable(query)
    /\ facts' \in FactsIn(Book, query)
    /\ stage' = "half"
    /\ UNCHANGED <<data, query, calcs, rows, charted, page, past>>

RefuseFacts ==
    /\ stage = "asked" /\ Unreadable(query)
    /\ stage' = "refused"
    /\ UNCHANGED <<data, query, facts, calcs, rows, charted, page, past>>

ReadCalculations ==
    /\ stage = "half"
    /\ calcs' \in CalculationsIn(Book, query)
    /\ stage' = "read"
    /\ UNCHANGED <<data, query, facts, rows, charted, page, past>>

------------------------------------------------------------------------------
(* Assembling. *)

\* target_measures.
Series(q) ==
    CASE q.policy = "BOTH" -> q.offers
      [] q.policy = "REPORTED_ONLY" -> {"reported"} \cap q.offers
      [] q.policy = "DERIVED_ONLY" -> {"derived"} \cap q.offers
      [] OTHER -> {"either"}

\* The origins a cell of a series may have, the preferred first.
Preference(q, s) ==
    IF s # "either" THEN <<s>>
    ELSE IF q.policy = "PREFER_REPORTED" THEN <<"reported", "derived">>
                                         ELSE <<"derived", "reported">>

Figures(origin) == IF origin = "reported" THEN facts ELSE calcs
Is(c, x, origin) == [cell |-> c, amount |-> x] \in Figures(origin)
Has(c, origin) == \E x \in Amounts : Is(c, x, origin)
Amount(c, origin) == CHOOSE x \in Amounts : Is(c, x, origin)

Selected(q, c, s) ==
    LET preferred == Preference(q, s)
        usable == {i \in DOMAIN preferred : Has(c, preferred[i])}
    IN IF s \notin Series(q) \/ usable = {} THEN "none"
                                           ELSE preferred[Min(usable)]

RowOf(q, c) ==
    [cell |-> c,
     shown |-> [s \in {"reported", "derived", "either"} |-> Selected(q, c, s)]]

Populated(q) == {c \in Wanted(q) : \E s \in Series(q) : Selected(q, c, s) # "none"}
Complete(q) == \A c \in Wanted(q), s \in Series(q) : Selected(q, c, s) # "none"

\* Equal figures are listed by the text of institution and period; the model's
\* numbers stand for the order of that text.
Before(c, d) == c[1] < d[1] \/ (c[1] = d[1] /\ c[2] < d[2])

\* The first measure that was met ranks the rows.
SortSeries(q) ==
    LET first == CHOOSE c \in Populated(q) :
                     \A d \in Populated(q) \ {c} : Before(c, d)
    IN IF "either" \in Series(q) THEN "either"
       ELSE IF Selected(q, first, "reported") # "none" THEN "reported"
       ELSE "derived"

\* A row without a value for it counts as zero.
Weight(q, s, c) ==
    LET origin == Selected(q, c, s) IN
    IF origin = "none" THEN 0
    ELSE IF q.descending THEN -Amount(c, origin) ELSE Amount(c, origin)

Outranking(q) ==
    LET series == SortSeries(q)
        weight == [c \in Cells |-> Weight(q, series, c)]
    IN {e \in Cells \X Cells :
           \/ weight[e[1]] < weight[e[2]]
           \/ weight[e[1]] = weight[e[2]] /\ Before(e[1], e[2])}

\* The members of a set in the order of a relation: those that are related to
\* the i-th one are the i - 1 before it.
InOrder(S, R) ==
    [i \in 1..Cardinality(S) |->
        CHOOSE c \in S : Cardinality({d \in S : <<d, c>> \in R}) = i - 1]

\* Deviation: the first rows per period are taken as they were listed.
RankingUnsorted(q) ==
    InOrder(Populated(q), {e \in Cells \X Cells : Before(e[1], e[2])})

Ranking(q) == InOrder(Populated(q), Outranking(q))

\* Of the whole, or of each period.
TopOf(q, ranked) ==
    IF q.top = 0 THEN ranked
    ELSE IF q.scope = "ROWS"
         THEN SubSeq(ranked, 1, Min({q.top, Len(ranked)}))
    ELSE LET peers(i) == {j \in 1..(i - 1) : ranked[j][2] = ranked[i][2]}
             first == {i \in DOMAIN ranked : Cardinality(peers(i)) < q.top}
             kept == InOrder(first, {e \in first \X first : e[1] < e[2]})
         IN [k \in DOMAIN kept |-> ranked[kept[k]]]

Page(all, n) ==
    SubSeq(all, (n - 1) * PageSize + 1, Min({n * PageSize, Len(all)}))
TotalPages(all) == Max({1, (Len(all) + PageSize - 1) \div PageSize})

\* result_dataset: what was asked, the rows there are for it, and of each cell
\* whether it is populated (the data quality summary adds nothing to that).
Dataset(q) ==
    LET top == TopOf(q, Ranking(q)) IN [i \in DOMAIN top |-> RowOf(q, top[i])]

\* The dataset is stored whole, the charts as they are for the page asked for.
Store(n) ==
    LET all == Dataset(query)
    IN /\ stage = "read"
       /\ query.strictPeriods => Complete(query)
       /\ n \in 1..TotalPages(all)
       /\ rows' = all
       /\ page' = [number |-> n, rows |-> Page(all, n)]
       /\ charted' = Page(all, n)
       /\ stage' = "stored"
       /\ UNCHANGED <<data, query, facts, calcs, past>>

\* INCOMPLETE_COMMON_PERIOD.
RefuseIncomplete ==
    /\ stage = "read"
    /\ query.strictPeriods /\ ~Complete(query)
    /\ stage' = "refused"
    /\ UNCHANGED <<data, query, facts, calcs, rows, charted, page, past>>

\* get_persisted_comparison.
GetPage(n) ==
    /\ stage = "stored"
    /\ n \in 1..TotalPages(rows)
    /\ page' = [number |-> n, rows |-> Page(rows, n)]
    /\ UNCHANGED <<data, stage, query, facts, calcs, rows, charted, past>>

Ended == stage = "refused" /\ UNCHANGED vars

Next ==
    \/ DataChange
    \/ Ask \/ ReadFacts \/ RefuseFacts \/ ReadCalculations
    \/ RefuseIncomplete \/ Ended
    \/ \E n \in 1..Cardinality(Cells) : Store(n) \/ GetPage(n)

Spec == Init /\ [][Next]_vars

------------------------------------------------------------------------------
(* Properties. *)

\* A dataset is what there was at two moments since it was asked for, when its
\* facts and when its calculations were read, whatever is approved, revised or
\* calculated meanwhile: every figure was in force then, as a fact with usable
\* evidence or as the result of a calculation; and an origin that the policy
\* admits, fallbacks included, is passed over only where it had none.
Admitted(q, s) == IF s = "either" THEN q.offers ELSE {s}
PassedOver(q, s, origin) ==
    {o \in Admitted(q, s) :
        origin = "none" \/ (o # origin /\ o = Preference(q, s)[1])}
AtMoments(U, V) == [reported |-> U.reported, derived |-> V.derived]
FiguresTraceable ==
    stage \in {"read", "stored"} =>
        \E U, V \in past : \A c \in Wanted(query), s \in Series(query) :
            LET origin == Selected(query, c, s)
                book == AtMoments(U, V)
            IN /\ origin \in Admitted(query, s) \cup {"none"}
               /\ origin # "none" =>
                      [cell |-> c, amount |-> Amount(c, origin)] \in book[origin]
               /\ \A o \in PassedOver(query, s, origin) :
                      \A f \in book[o] : f.cell # c

\* The pages of a comparison, in whatever order they are asked for and whatever
\* is approved or calculated in between, are the pieces of one ranking: a row
\* of page n has exactly the rows of the pages before it and of its own page
\* before it.  The rows left out by top_n are those that the kept ones of their
\* scope outrank.
PagesAreOneRanking ==
    stage = "stored" =>
        LET outranking == Outranking(query) IN
        /\ \A i \in DOMAIN page.rows :
               Cardinality({j \in DOMAIN rows :
                   <<rows[j].cell, page.rows[i].cell>> \in outranking})
               = (page.number - 1) * PageSize + i - 1
        /\ \A c \in Populated(query) :
               c \notin {rows[j].cell : j \in DOMAIN rows} =>
                   LET peers == {j \in DOMAIN rows :
                                    query.scope = "ROWS"
                                    \/ rows[j].cell[2] = c[2]}
                   IN /\ Cardinality(peers) = query.top
                      /\ \A j \in peers : <<rows[j].cell, c>> \in outranking

==============================================================================
