----------------------------- MODULE MCComparisons -----------------------------
(* Two institutions in two periods, a quarter of one year and the whole of the *)
(* year before.  The derived figures rank the cells in another order than the  *)
(* reported ones, some figures are equal and one is negative, so that a row    *)
(* without a value does not rank last.                                         *)
EXTENDS AnalysisAnswers

MCAmounts == {-1, 2, 5}

Home(i, p, amount, cited) ==
    [cell |-> <<i, p>>, foreign |-> FALSE, amount |-> amount, cited |-> cited]
Abroad(i, p, amount) ==
    [cell |-> <<i, p>>, foreign |-> TRUE, amount |-> amount, cited |-> TRUE]
Result(i, p, amount) == [cell |-> <<i, p>>, amount |-> amount]

\* A fact for every cell; and a few.
MCLedgers ==
    {[current |-> {Home(1, 1, 2, TRUE), Home(1, 2, -1, TRUE),
                   Home(2, 1, 5, TRUE), Home(2, 2, 2, TRUE)},
      completed |-> {Result(1, 2, 5), Result(2, 2, 2), Result(2, 2, -1)}],
     [current |-> {Home(1, 1, 2, TRUE), Home(2, 1, 5, FALSE)},
      completed |-> {Result(2, 1, -1)}]}

MCCandidates == {Home(1, 1, 5, TRUE), Home(1, 1, -1, FALSE), Abroad(2, 1, 2)}
MCResults == {Result(1, 1, -1), Result(1, 2, 2)}

\* No limit, the best row of each period, the last two of all.
MCQueries ==
    {q \in [institutions : {Institutions}, periods : {Periods}, policy : Policies,
            offers : (SUBSET Origins) \ {{}}, monetary : BOOLEAN,
            strictEvidence : BOOLEAN, strictPeriods : BOOLEAN,
            top : 0..2, scope : Scopes, descending : BOOLEAN] :
        /\ q.monetary <=> q.offers = {"reported"}
        /\ q.offers # Origins => q.top = 0 /\ q.strictEvidence = q.monetary
        /\ q.strictEvidence \/ q.top # 0 \/ q.offers # Origins => ~q.strictPeriods
        /\ q.strictEvidence => q.top = 0
        /\ q.top = 0 => q.scope = "ROWS" /\ q.descending
        /\ q.top = 1 => q.scope = "PER_PERIOD" /\ q.descending
        /\ q.top = 2 => q.scope = "ROWS" /\ ~q.descending}

MCRecordKeys == [p \in Periods |-> IF p = 1 THEN {<<2026, 1>>} ELSE {<<2025, 0>>}]

\* A line of the catalog may have no measure.
MCOffers == [m \in {"TOTAL_ASSETS", "NPL_RATIO"} |->
                IF m = "TOTAL_ASSETS" THEN {"reported"} ELSE Origins]
MCMonetary == {"TOTAL_ASSETS"}

MCPrompts ==
    {p \in [blank : BOOLEAN, names : {{}, {1}, {1, 2}}, written : {{}, {2}},
            quarters : {{}, {<<2026, 1>>}, {<<2025, 3>>}}, years : SUBSET Years,
            line : {NoLine, "NPL_RATIO", "CASH_FLOW"}] :
        /\ {k[1] : k \in p.quarters} \subseteq p.years
        /\ p.written # {} => 2025 \in p.years
        /\ p.blank => p.names = {} /\ p.years = {} /\ p.line = NoLine
        /\ p.names = {} \/ p.years = {} => p.line = NoLine
        /\ p.line = "CASH_FLOW" => p.names = {1, 2} /\ p.written = {}
        /\ p.line = NoLine /\ p.names = {1, 2} => p.quarters = {}
        /\ p.line = "NPL_RATIO" /\ p.names = {1} => p.written = {2}}

\* A year; a figure whose digits are in the id, and one whose digits are not.
MCClaims == {c \in Claim : c.kind # "small" /\ (c.kind = "excluded" => ~c.inId)}
================================================================================
