---------------------------- MODULE Answers_proofs ----------------------------
(***************************************************************************)
(* What holds of AnalysisAnswers, and of the comparisons it makes, for     *)
(* every set of institutions, periods, prompts and requests.               *)
(***************************************************************************)
EXTENDS AnalysisAnswers, FiniteSetTheorems, SequenceTheorems, TLAPS

------------------------------------------------------------------------------
(* Lists in the order of a relation *)

Orders(R, S) ==
    /\ \A c \in S : <<c, c>> \notin R
    /\ \A c, d \in S : c # d => <<c, d>> \in R \/ <<d, c>> \in R
    /\ \A c, d, e \in S : <<c, d>> \in R /\ <<d, e>> \in R => <<c, e>> \in R

Ahead(S, R, c) == {d \in S : <<d, c>> \in R}

\* What stands before another has fewer before it.
LEMMA AheadGrows ==
    ASSUME NEW S, IsFiniteSet(S), NEW R, Orders(R, S)
    PROVE  /\ \A c \in S : Cardinality(Ahead(S, R, c)) \in 0..(Cardinality(S) - 1)
           /\ \A c, d \in S : <<c, d>> \in R =>
                  Cardinality(Ahead(S, R, c)) < Cardinality(Ahead(S, R, d))
<1>1. \A c \in S : IsFiniteSet(Ahead(S, R, c)) /\ Cardinality(Ahead(S, R, c)) \in Nat
    BY FS_Subset, FS_CardinalityType DEF Ahead
<1>2. ASSUME NEW c \in S
      PROVE  Cardinality(Ahead(S, R, c)) \in 0..(Cardinality(S) - 1)
    <2>1. Ahead(S, R, c) \in SUBSET S /\ Ahead(S, R, c) # S
        BY DEF Ahead, Orders
    <2>2. /\ Cardinality(Ahead(S, R, c)) <= Cardinality(S)
          /\ Cardinality(Ahead(S, R, c)) # Cardinality(S)
        BY <2>1, FS_Subset
    <2> QED
        BY <1>1, <2>2, FS_CardinalityType
<1>3. ASSUME NEW c \in S, NEW d \in S, <<c, d>> \in R
      PROVE  Cardinality(Ahead(S, R, c)) < Cardinality(Ahead(S, R, d))
    <2>1. /\ Ahead(S, R, c) \in SUBSET Ahead(S, R, d)
          /\ c \in Ahead(S, R, d) /\ c \notin Ahead(S, R, c)
        BY <1>3 DEF Ahead, Orders
    <2>2. /\ Cardinality(Ahead(S, R, c)) <= Cardinality(Ahead(S, R, d))
          /\ Cardinality(Ahead(S, R, c)) # Cardinality(Ahead(S, R, d))
        BY <1>1, <2>1, FS_Subset
    <2> QED
        BY <1>1, <2>2
<1> QED
    BY <1>2, <1>3

\* A list in the order of a total order has each member once, and in order:
\* the ones before a member are those that are related to it.
Lists(s, S, R) ==
    /\ s \in [1..Cardinality(S) -> S]
    /\ \A c \in S : \E i \in DOMAIN s : s[i] = c
    /\ \A i, j \in DOMAIN s : i < j <=> <<s[i], s[j]>> \in R
    /\ \A i \in DOMAIN s : Cardinality(Ahead(S, R, s[i])) = i - 1

THEOREM InOrderLists ==
    ASSUME NEW S, IsFiniteSet(S), NEW R, Orders(R, S)
    PROVE  Lists(InOrder(S, R), S, R)
<1> DEFINE n == Cardinality(S)
<1> DEFINE f == [c \in S |-> Cardinality(Ahead(S, R, c))]
<1> DEFINE s == InOrder(S, R)
<1>1. n \in Nat
    BY FS_CardinalityType
<1>2. f \in Injection(S, 0..(n - 1))
    <2>1. f \in [S -> 0..(n - 1)]
        BY AheadGrows
    <2>2. ASSUME NEW c \in S, NEW d \in S, c # d PROVE f[c] # f[d]
        <3>1. <<c, d>> \in R \/ <<d, c>> \in R
            BY <2>2 DEF Orders
        <3>2. Cardinality(Ahead(S, R, c)) \in Int /\ Cardinality(Ahead(S, R, d)) \in Int
            BY AheadGrows
        <3> QED
            BY <3>1, <3>2, AheadGrows
    <2> QED
        BY <2>1, <2>2 DEF Injection, IsInjective
<1>3. f \in Surjection(S, 0..(n - 1))
    <2>1. IsFiniteSet(0..(n - 1)) /\ Cardinality(0..(n - 1)) = n
        BY <1>1, FS_Interval, SMTT(30)
    <2> HIDE DEF f
    <2> QED
        BY <1>2, <2>1, FS_Injection
<1>4. s = [i \in 1..n |-> CHOOSE c \in S : Cardinality(Ahead(S, R, c)) = i - 1]
    BY DEF InOrder, Ahead
<1>5. ASSUME NEW i \in 1..n PROVE s[i] \in S /\ Cardinality(Ahead(S, R, s[i])) = i - 1
    <2>1. i - 1 \in 0..(n - 1)
        BY <1>1
    <2>2. \E c \in S : f[c] = i - 1
        BY <1>3, <2>1 DEF Surjection
    <2>3. \E c \in S : Cardinality(Ahead(S, R, c)) = i - 1
        BY <2>2
    <2>4. s[i] = CHOOSE c \in S : Cardinality(Ahead(S, R, c)) = i - 1
        BY <1>4
    <2> HIDE DEF s
    <2> QED
        BY <2>3, <2>4
<1> HIDE DEF s
<1>6. s \in [1..n -> S]
    BY <1>4, <1>5
<1>7. ASSUME NEW c \in S PROVE \E i \in DOMAIN s : s[i] = c
    <2> DEFINE i == Cardinality(Ahead(S, R, c)) + 1
    <2>1. i \in 1..n
        BY <1>1, AheadGrows
    <2>2. Cardinality(Ahead(S, R, s[i])) = Cardinality(Ahead(S, R, c)) /\ s[i] \in S
        BY <1>5, <2>1, AheadGrows
    <2>3. s[i] = c
        BY <1>2, <2>2 DEF Injection, IsInjective
    <2> QED
        BY <1>6, <2>1, <2>3
<1>8. ASSUME NEW i \in DOMAIN s, NEW j \in DOMAIN s
      PROVE  i < j <=> <<s[i], s[j]>> \in R
    <2>1. i \in 1..n /\ j \in 1..n
        BY <1>6
    <2>2. /\ s[i] \in S /\ Cardinality(Ahead(S, R, s[i])) = i - 1
          /\ s[j] \in S /\ Cardinality(Ahead(S, R, s[j])) = j - 1
        BY <1>5, <2>1
    <2>3. <<s[i], s[j]>> \in R => i - 1 < j - 1
        BY <2>2, AheadGrows
    <2>4. <<s[j], s[i]>> \in R => j - 1 < i - 1
        BY <2>2, AheadGrows
    <2>5. i # j => s[i] # s[j]
        BY <2>1, <2>2
    <2>6. i < j => <<s[i], s[j]>> \in R
        BY <2>1, <2>2, <2>4, <2>5 DEF Orders
    <2> QED
        BY <2>1, <2>3, <2>6
<1>9. Lists(s, S, R)
    BY <1>5, <1>6, <1>7, <1>8 DEF Lists
<1> QED
    BY <1>9 DEF s

------------------------------------------------------------------------------
(* The inductive invariant *)

\* What the request has read is what there was at a moment since it was made:
\* the facts of one, and the calculations of one.
SourcesHeld ==
    /\ stage \in {"asked", "half"} => Book \in past
    /\ stage \in {"half", "read", "stored"} =>
           \E U \in past : facts \in FactsIn(U, query)
    /\ stage \in {"read", "stored"} =>
           \E V \in past : calcs \in CalculationsIn(V, query)

\* The stored rows are the dataset of what was read, the page a piece of them.
StoredIsRead ==
    stage = "stored" =>
        /\ rows = Dataset(query)
        /\ page.number \in 1..TotalPages(rows)
        /\ page.rows = Page(rows, page.number)

\* An analysis compares what its prompt says, once it is understood, and only a
\* request that can be answered is.
Planned ==
    /\ stage \notin {"idle", "refused"} => query.offers # {}
    /\ phase \in {"understanding", "waiting"} => stage = "idle"
    /\ phase \in {"gate", "completed"} => stage = "stored"
    /\ phase \in {"executing", "gate", "completed"} =>
           query = ToolQuery(prompt.names, MatchedPeriods(prompt), Measure(prompt))

IInv ==
    /\ AnswerTypeOK
    /\ SourcesHeld /\ StoredIsRead /\ Planned

------------------------------------------------------------------------------
(* What a cell shows *)

Shown == {"reported", "derived", "either"}

LEMMA LeastOfTwo ==
    /\ Min({1}) = 1 /\ Min({2}) = 2 /\ Min({1, 2}) = 1
<1>1. ASSUME NEW S, NEW x \in S, S \subseteq Nat, \A y \in S : x <= y
      PROVE  Min(S) = x
    <2>1. \E z \in S : \A y \in S : z <= y
        BY <1>1
    <2>2. Min(S) \in S /\ \A y \in S : Min(S) <= y
        BY <2>1 DEF Min
    <2>3. Min(S) \in Nat /\ x \in Nat /\ Min(S) <= x /\ x <= Min(S)
        BY <1>1, <2>2
    <2> QED
        BY <2>3
<1> QED
    BY <1>1

\* A figure is shown of the preferred origin, of another only without it.
LEMMA SelectedIs ==
    ASSUME NEW q, NEW c, NEW s
    PROVE  /\ s \notin Series(q) => Selected(q, c, s) = "none"
           /\ s \in Series(q) /\ s # "either" =>
                  Selected(q, c, s) = IF Has(c, s) THEN s ELSE "none"
           /\ s \in Series(q) /\ s = "either" =>
                  LET p == Preference(q, s)
                  IN Selected(q, c, s) = IF Has(c, p[1]) THEN p[1]
                                         ELSE IF Has(c, p[2]) THEN p[2]
                                         ELSE "none"
<1> DEFINE p == Preference(q, s)
<1> DEFINE usable == {i \in DOMAIN p : Has(c, p[i])}
<1>1. Selected(q, c, s) = IF s \notin Series(q) \/ usable = {} THEN "none"
                                                            ELSE p[Min(usable)]
    BY DEF Selected
<1>2. CASE s \notin Series(q)
    BY <1>1, <1>2
<1>3. CASE s \in Series(q) /\ s # "either"
    <2>1. p = <<s>>
        BY <1>3 DEF Preference
    <2>2. DOMAIN p = {1} /\ p[1] = s
        BY <2>1
    <2>3. usable = IF Has(c, s) THEN {1} ELSE {}
        BY <2>2
    <2> HIDE DEF p, usable
    <2> QED
        BY <1>1, <1>3, <2>2, <2>3, LeastOfTwo
<1>4. CASE s \in Series(q) /\ s = "either"
    <2>1. p = <<"reported", "derived">> \/ p = <<"derived", "reported">>
        BY <1>4 DEF Preference
    <2>2. DOMAIN p = {1, 2}
        BY <2>1
    <2>3. usable = {i \in {1, 2} : Has(c, p[i])}
        BY <2>2
    <2> HIDE DEF p, usable
    <2>4. CASE Has(c, p[1]) /\ Has(c, p[2])
        <3>1. usable = {1, 2}
            BY <2>3, <2>4
        <3> QED
            BY <1>1, <1>4, <2>4, <3>1, LeastOfTwo DEF p
    <2>5. CASE Has(c, p[1]) /\ ~Has(c, p[2])
        <3>1. usable = {1}
            BY <2>3, <2>5
        <3> QED
            BY <1>1, <1>4, <2>5, <3>1, LeastOfTwo DEF p
    <2>6. CASE ~Has(c, p[1]) /\ Has(c, p[2])
        <3>1. usable = {2}
            BY <2>3, <2>6
        <3> QED
            BY <1>1, <1>4, <2>6, <3>1, LeastOfTwo DEF p
    <2>7. CASE ~Has(c, p[1]) /\ ~Has(c, p[2])
        <3>1. usable = {}
            BY <2>3, <2>7
        <3> QED
            BY <1>1, <1>4, <2>7, <3>1 DEF p
    <2> QED
        BY <2>4, <2>5, <2>6, <2>7
<1> QED
    BY <1>2, <1>3, <1>4

\* Whatever is shown has been read, and what was read is passed over only for an
\* origin that is preferred.
LEMMA SelectedWasRead ==
    ASSUME NEW q \in Query, NEW c, NEW s \in Shown
    PROVE  /\ Selected(q, c, s) \in Origins \cup {"none"}
           /\ Selected(q, c, s) # "none" =>
                  Has(c, Selected(q, c, s)) /\ s \in {Selected(q, c, s), "either"}
           /\ s \in Series(q) =>
                  \A o \in PassedOver(q, s, Selected(q, c, s)) : ~Has(c, o)
<1> DEFINE p == Preference(q, s)
<1>1. q.offers \subseteq Origins
    BY DEF Query
<1>2. CASE s \notin Series(q)
    BY <1>2, SelectedIs DEF Origins
<1>3. CASE s \in Series(q) /\ s # "either"
    <2>1. Selected(q, c, s) = IF Has(c, s) THEN s ELSE "none"
        BY <1>3, SelectedIs
    <2>2. s \in Origins /\ s # "none"
        BY <1>3 DEF Shown, Origins
    <2>3. ASSUME NEW o \in PassedOver(q, s, Selected(q, c, s)) PROVE ~Has(c, o)
        <3>1. o = s
            BY <1>3, <2>3 DEF PassedOver, Admitted
        <3>2. p[1] = s
            BY <1>3 DEF Preference
        <3>3. Selected(q, c, s) = "none"
            BY <2>1, <2>3, <3>1 DEF PassedOver
        <3> QED
            BY <2>1, <2>2, <3>1, <3>3
    <2> QED
        BY <2>1, <2>2, <2>3
<1>4. CASE s \in Series(q) /\ s = "either"
    <2>1. \/ p[1] = "reported" /\ p[2] = "derived"
          \/ p[1] = "derived" /\ p[2] = "reported"
        BY <1>4 DEF Preference
    <2>2. Selected(q, c, s) = IF Has(c, p[1]) THEN p[1]
                              ELSE IF Has(c, p[2]) THEN p[2] ELSE "none"
        BY <1>4, SelectedIs
    <2>3. \A o \in PassedOver(q, s, Selected(q, c, s)) :
              /\ o \in Origins
              /\ \/ Selected(q, c, s) = "none"
                 \/ o # Selected(q, c, s) /\ o = p[1]
        BY <1>1, <1>4 DEF PassedOver, Admitted
    <2> HIDE DEF p
    <2>4. \A o \in PassedOver(q, s, Selected(q, c, s)) : ~Has(c, o)
        BY <2>1, <2>2, <2>3 DEF Origins
    <2> QED
        BY <1>4, <2>1, <2>2, <2>4 DEF Origins
<1> QED
    BY <1>2, <1>3, <1>4

LEMMA SeriesKinds ==
    ASSUME NEW q \in Query
    PROVE  /\ Series(q) \subseteq Shown
           /\ "either" \in Series(q) =>
                  q.policy \in {"PREFER_REPORTED", "PREFER_DERIVED"}
           /\ "reported" \in Series(q) =>
                  q.policy \in {"BOTH", "REPORTED_ONLY"} /\ "reported" \in q.offers
           /\ "derived" \in Series(q) =>
                  q.policy \in {"BOTH", "DERIVED_ONLY"} /\ "derived" \in q.offers
<1>1. q.policy \in Policies /\ q.offers \subseteq Origins
    BY DEF Query
<1> QED
    BY <1>1 DEF Series, Shown, Policies, Origins

\* Of the figures that were read for a cell one was kept, and none but those.
LEMMA KeptOfRead ==
    ASSUME NEW figures, NEW kept \in LastRead(figures)
    PROVE  /\ kept \subseteq figures
           /\ \A f \in figures : \E k \in kept : k.cell = f.cell
BY DEF LastRead

\* A cell has a figure of an origin exactly if there was one at the moment it was
\* read, and it is one of those there were.
LEMMA FiguresAreOfMoments ==
    ASSUME TypeOK, NEW U \in past, NEW V \in past,
           facts \in FactsIn(U, query), calcs \in CalculationsIn(V, query),
           NEW c \in Wanted(query), NEW o \in Origins
    PROVE  /\ Has(c, o) => /\ [cell |-> c, amount |-> Amount(c, o)] \in AtMoments(U, V)[o]
                           /\ o = "reported" => NeedsReported(query)
                           /\ o = "derived" => NeedsDerived(query)
           /\ /\ o = "reported" => NeedsReported(query)
              /\ o = "derived" => NeedsDerived(query)
              /\ \E f \in AtMoments(U, V)[o] : f.cell = c
              => Has(c, o)
<1>1. /\ U.reported \subseteq Figure /\ V.derived \subseteq Figure
      /\ facts \subseteq Figure /\ calcs \subseteq Figure
    BY DEF TypeOK
<1>2. Has(c, o) => Amount(c, o) \in Amounts /\ Is(c, Amount(c, o), o)
    BY DEF Has, Amount
<1>3. ASSUME NEW f \in Figures(o), f.cell = c PROVE Has(c, o)
    <2>1. f \in Figure
        BY <1>1, <1>3 DEF Figures
    <2>2. f.amount \in Amounts /\ f = [cell |-> c, amount |-> f.amount]
        BY <1>3, <2>1 DEF Figure
    <2> QED
        BY <1>3, <2>2 DEF Has, Is
<1>4. CASE o = "reported"
    <2> DEFINE offered == IF NeedsReported(query) THEN U.reported ELSE {}
    <2>1. AtMoments(U, V)[o] = U.reported /\ Figures(o) = facts
        BY <1>4 DEF AtMoments, Figures
    <2>2. facts \in LastRead(offered)
        BY DEF FactsIn
    <2>3. facts \subseteq offered /\ \A f \in offered : \E k \in facts : k.cell = f.cell
        BY <2>2, KeptOfRead
    <2>4. Has(c, o) => [cell |-> c, amount |-> Amount(c, o)] \in offered
        BY <1>2, <2>1, <2>3 DEF Is
    <2>5. ASSUME NeedsReported(query), NEW f \in U.reported, f.cell = c
          PROVE  Has(c, o)
        BY <1>3, <2>1, <2>3, <2>5
    <2> QED
        BY <1>4, <2>1, <2>4, <2>5
<1>5. CASE o = "derived"
    <2> DEFINE offered == IF NeedsDerived(query)
                          THEN {k \in V.derived : k.cell \in Wanted(query)} ELSE {}
    <2>1. AtMoments(U, V)[o] = V.derived /\ Figures(o) = calcs
        BY <1>5 DEF AtMoments, Figures
    <2>2. calcs \in LastRead(offered)
        BY DEF CalculationsIn
    <2>3. calcs \subseteq offered /\ \A f \in offered : \E k \in calcs : k.cell = f.cell
        BY <2>2, KeptOfRead
    <2>4. Has(c, o) => [cell |-> c, amount |-> Amount(c, o)] \in offered
        BY <1>2, <2>1, <2>3 DEF Is
    <2>5. ASSUME NeedsDerived(query), NEW f \in V.derived, f.cell = c
          PROVE  Has(c, o)
        BY <1>3, <2>1, <2>3, <2>5
    <2> QED
        BY <1>5, <2>1, <2>4, <2>5
<1> QED
    BY <1>4, <1>5 DEF Origins

\* The traces of a dataset's figures, from what was read.
LEMMA Traceable ==
    ASSUME TypeOK, SourcesHeld
    PROVE  FiguresTraceable
<1> SUFFICES ASSUME stage \in {"read", "stored"}
             PROVE  \E U, V \in past :
                        \A c \in Wanted(query), s \in Series(query) :
                            LET origin == Selected(query, c, s)
                                book == AtMoments(U, V)
                            IN /\ origin \in Admitted(query, s) \cup {"none"}
                               /\ origin # "none" =>
                                      [cell |-> c, amount |-> Amount(c, origin)]
                                          \in book[origin]
                               /\ \A o \in PassedOver(query, s, origin) :
                                      \A f \in book[o] : f.cell # c
    BY DEF FiguresTraceable
<1>1. PICK U \in past : facts \in FactsIn(U, query)
    BY DEF SourcesHeld
<1>2. PICK V \in past : calcs \in CalculationsIn(V, query)
    BY DEF SourcesHeld
<1>3. query \in Query
    BY DEF TypeOK
<1>4. ASSUME NEW c \in Wanted(query), NEW s \in Series(query)
      PROVE  LET origin == Selected(query, c, s)
                 book == AtMoments(U, V)
             IN /\ origin \in Admitted(query, s) \cup {"none"}
                /\ origin # "none" =>
                       [cell |-> c, amount |-> Amount(c, origin)] \in book[origin]
                /\ \A o \in PassedOver(query, s, origin) :
                       \A f \in book[o] : f.cell # c
    <2> DEFINE origin == Selected(query, c, s)
    <2>1. s \in Shown
        BY <1>3, SeriesKinds
    <2>2. /\ origin \in Origins \cup {"none"}
          /\ origin # "none" => Has(c, origin) /\ s \in {origin, "either"}
          /\ \A o \in PassedOver(query, s, origin) : ~Has(c, o)
        BY <1>3, <2>1, SelectedWasRead
    <2> HIDE DEF origin
    <2>3. origin # "none" =>
              /\ [cell |-> c, amount |-> Amount(c, origin)] \in AtMoments(U, V)[origin]
              /\ origin \in query.offers
        BY <1>1, <1>2, <2>2, FiguresAreOfMoments
        DEF NeedsReported, NeedsDerived, Origins
    <2>4. origin \in Admitted(query, s) \cup {"none"}
        BY <2>2, <2>3 DEF Admitted
    <2>5. ASSUME NEW o \in PassedOver(query, s, origin),
                 NEW f \in AtMoments(U, V)[o], f.cell = c
          PROVE  FALSE
        <3>1. o \in Admitted(query, s)
            BY <2>5 DEF PassedOver
        <3>2. /\ o \in Origins /\ o \in query.offers
              /\ o = "reported" => s \in {"reported", "either"}
              /\ o = "derived" => s \in {"derived", "either"}
            BY <1>3, <2>1, <3>1, SeriesKinds DEF Admitted, Query, Shown, Origins
        <3>3. /\ o = "reported" => NeedsReported(query)
              /\ o = "derived" => NeedsDerived(query)
            BY <1>3, <3>2, SeriesKinds DEF NeedsReported, NeedsDerived
        <3>4. \E g \in AtMoments(U, V)[o] : g.cell = c
            BY <2>5
        <3>5. Has(c, o)
            BY ONLY TypeOK, <1>1, <1>2, <3>2, <3>3, <3>4, c \in Wanted(query),
               U \in past, V \in past, FiguresAreOfMoments
        <3> QED
            BY <2>2, <2>5, <3>5
    <2> QED
        BY <2>3, <2>4, <2>5 DEF origin
<1> QED
    BY <1>1, <1>2, <1>4

------------------------------------------------------------------------------
(* The ranking *)

LEMMA CellsAreFinite == IsFiniteSet(Cells)
BY ComparisonAssumption, FS_Product DEF Cells

LEMMA PopulatedCells ==
    ASSUME NEW q \in Query
    PROVE  /\ Populated(q) \in SUBSET Cells /\ IsFiniteSet(Populated(q))
           /\ Wanted(q) \in SUBSET Cells
<1>1. Wanted(q) \subseteq Cells
    BY DEF Wanted, Cells, Query
<1>2. Populated(q) \in SUBSET Cells
    BY <1>1 DEF Populated
<1> QED
    BY <1>1, <1>2, CellsAreFinite, FS_Subset

LEMMA BeforeOrders ==
    /\ \A c \in Cells : ~Before(c, c)
    /\ \A c, d \in Cells : c # d => Before(c, d) \/ Before(d, c)
    /\ \A c, d, e \in Cells : Before(c, d) /\ Before(d, e) => Before(c, e)
<1>1. (\A x \in Institutions : x \in Int) /\ (\A x \in Periods : x \in Int)
    BY ComparisonAssumption
<1>2. \A c \in Cells : c[1] \in Institutions /\ c[2] \in Periods
    BY DEF Cells
<1>3. \A c, d \in Cells : c[1] = d[1] /\ c[2] = d[2] => c = d
    BY DEF Cells
<1>4. \A c \in Cells : c[1] \in Int /\ c[2] \in Int
    BY <1>1, <1>2
<1>5. \A c \in Cells : ~Before(c, c)
    BY <1>4 DEF Before
<1>6. \A c, d \in Cells : c # d => Before(c, d) \/ Before(d, c)
    BY <1>3, <1>4 DEF Before
<1>7. \A c, d, e \in Cells : Before(c, d) /\ Before(d, e) => Before(c, e)
    BY <1>4 DEF Before
<1> QED
    BY <1>5, <1>6, <1>7

WeightOf(q, c) == Weight(q, SortSeries(q), c)

LEMMA WeightType ==
    ASSUME NEW q \in Query, NEW c \in Cells
    PROVE  WeightOf(q, c) \in Int
<1> DEFINE origin == Selected(q, c, SortSeries(q))
<1>1. SortSeries(q) \in Shown
    BY DEF SortSeries, Shown
<1>2. origin # "none" => Has(c, origin)
    BY <1>1, SelectedWasRead
<1>3. WeightOf(q, c) = IF origin = "none" THEN 0
                       ELSE IF q.descending THEN -Amount(c, origin)
                                            ELSE Amount(c, origin)
    BY DEF Weight, WeightOf
<1> HIDE DEF origin
<1>4. origin # "none" => Amount(c, origin) \in Amounts
    BY <1>2 DEF Has, Amount
<1>5. origin # "none" => Amount(c, origin) \in Int
    BY <1>4, ComparisonAssumption
<1> QED
    BY <1>3, <1>5

\* A cell ranks before another: its figure is less, or as much and it is listed
\* before.
Outranks(q, c, d) ==
    \/ WeightOf(q, c) < WeightOf(q, d)
    \/ WeightOf(q, c) = WeightOf(q, d) /\ Before(c, d)

LEMMA OutrankingIs ==
    ASSUME NEW q
    PROVE  \A c, d \in Cells : <<c, d>> \in Outranking(q) <=> Outranks(q, c, d)
<1> DEFINE weight == [c \in Cells |-> WeightOf(q, c)]
<1>1. Outranking(q) = {e \in Cells \X Cells :
                           \/ weight[e[1]] < weight[e[2]]
                           \/ weight[e[1]] = weight[e[2]] /\ Before(e[1], e[2])}
    BY DEF Outranking, WeightOf
<1>2. \A c \in Cells : weight[c] = WeightOf(q, c)
    OBVIOUS
<1> HIDE DEF weight
<1> QED
    BY <1>1, <1>2 DEF Outranks

\* The rows of a comparison are ranked: no two of them share a place.
LEMMA RanksAll ==
    ASSUME NEW q \in Query
    PROVE  Orders(Outranking(q), Cells)
<1>1. \A c, d \in Cells : <<c, d>> \in Outranking(q) <=> Outranks(q, c, d)
    BY OutrankingIs
<1>2. \A c \in Cells : ~Outranks(q, c, c)
    BY WeightType, BeforeOrders DEF Outranks
<1>3. \A c, d \in Cells : c # d => Outranks(q, c, d) \/ Outranks(q, d, c)
    BY WeightType, BeforeOrders DEF Outranks
<1>4. ASSUME NEW c \in Cells, NEW d \in Cells, NEW e \in Cells,
             Outranks(q, c, d), Outranks(q, d, e)
      PROVE  Outranks(q, c, e)
    <2>1. WeightOf(q, c) \in Int /\ WeightOf(q, d) \in Int /\ WeightOf(q, e) \in Int
        BY WeightType
    <2>2. Before(c, d) /\ Before(d, e) => Before(c, e)
        BY BeforeOrders
    <2> QED
        BY <1>4, <2>1, <2>2 DEF Outranks
<1> QED
    BY <1>1, <1>2, <1>3, <1>4 DEF Orders

\* The ranking has each populated row once, in that order.
LEMMA RankingLists ==
    ASSUME NEW q \in Query
    PROVE  Lists(Ranking(q), Populated(q), Outranking(q))
<1>1. Orders(Outranking(q), Populated(q))
    BY RanksAll, PopulatedCells DEF Orders
<1> QED
    BY <1>1, InOrderLists, PopulatedCells DEF Ranking

\* Rows in the order of the ranking, each once.
Kept(t, q) ==
    \E m \in Nat :
        /\ t \in [1..m -> Populated(q)]
        /\ \A i, j \in 1..m : i < j <=> Outranks(q, t[i], t[j])

\* What top_n leaves out of a list: rows that as many as it keeps outrank.
Omitted(t, q) ==
    \A c \in Populated(q) : c \notin {t[j] : j \in DOMAIN t} =>
        LET peers == {j \in DOMAIN t : q.scope = "ROWS" \/ t[j][2] = c[2]}
        IN /\ Cardinality(peers) = q.top
           /\ \A j \in peers : Outranks(q, t[j], c)

LEMMA RankingKept ==
    ASSUME NEW q \in Query
    PROVE  LET r == Ranking(q) IN
           /\ r \in [1..Cardinality(Populated(q)) -> Populated(q)]
           /\ Cardinality(Populated(q)) \in Nat
           /\ Len(r) = Cardinality(Populated(q))
           /\ \A c \in Populated(q) : \E i \in DOMAIN r : r[i] = c
           /\ \A i, j \in DOMAIN r : i < j <=> Outranks(q, r[i], r[j])
<1> DEFINE r == Ranking(q)
<1> DEFINE n == Cardinality(Populated(q))
<1>1. Lists(r, Populated(q), Outranking(q))
    BY RankingLists
<1> HIDE DEF r
<1>2. n \in Nat
    BY FS_CardinalityType, PopulatedCells
<1>3. r \in [1..n -> Populated(q)]
    BY <1>1 DEF Lists
<1>4. Len(r) = n
    BY <1>2, <1>3
<1>5. \A c \in Populated(q) : \E i \in DOMAIN r : r[i] = c
    BY <1>1 DEF Lists
<1>6. \A i \in DOMAIN r : r[i] \in Cells
    BY <1>3, PopulatedCells
<1>7. \A i, j \in DOMAIN r : i < j <=> Outranks(q, r[i], r[j])
    BY <1>1, <1>6, OutrankingIs DEF Lists
<1> QED
    BY <1>2, <1>3, <1>4, <1>5, <1>7 DEF r

\* Without top_n, and with it for the whole ranking.
LEMMA TopOfAll ==
    ASSUME NEW q \in Query, q.top = 0 \/ q.scope = "ROWS"
    PROVE  LET t == TopOf(q, Ranking(q)) IN
           /\ Kept(t, q) /\ Omitted(t, q)
           /\ q.top = 0 => \A c \in Populated(q) : \E i \in DOMAIN t : t[i] = c
<1> DEFINE r == Ranking(q)
<1> DEFINE t == TopOf(q, r)
<1> DEFINE n == Cardinality(Populated(q))
<1>1. /\ r \in [1..n -> Populated(q)] /\ n \in Nat /\ Len(r) = n
      /\ \A c \in Populated(q) : \E i \in DOMAIN r : r[i] = c
      /\ \A i, j \in DOMAIN r : i < j <=> Outranks(q, r[i], r[j])
    BY RankingKept
<1>2. q.top \in Nat
    BY DEF Query
<1>3. t = IF q.top = 0 THEN r ELSE SubSeq(r, 1, Min({q.top, Len(r)}))
    BY DEF TopOf
<1> HIDE DEF r, t, n
<1>4. CASE q.top = 0
    <2>1. t = r
        BY <1>3, <1>4
    <2>2. Kept(t, q)
        BY <1>1, <2>1 DEF Kept
    <2>3. \A c \in Populated(q) : \E i \in DOMAIN t : t[i] = c
        BY <1>1, <2>1
    <2>4. Omitted(t, q)
        BY <2>3 DEF Omitted
    <2> QED
        BY <2>2, <2>3, <2>4 DEF t, r
<1>5. CASE q.top # 0
    <2> DEFINE m == Min({q.top, n})
    <2>1. m \in Nat /\ m <= q.top /\ m <= n /\ (m = q.top \/ m = n)
        <3>1. \E x \in {q.top, n} : \A y \in {q.top, n} : x <= y
            BY <1>1, <1>2
        <3>2. m \in {q.top, n} /\ \A y \in {q.top, n} : m <= y
            BY <3>1 DEF Min
        <3> HIDE DEF m
        <3> QED
            BY <1>1, <1>2, <3>2
    <2> HIDE DEF m
    <2>2. t = SubSeq(r, 1, m)
        BY <1>1, <1>3, <1>5 DEF m
    <2>3. \A i \in 1..m : r[i] \in Populated(q)
        BY <1>1, <2>1
    <2>4. /\ t \in Seq(Populated(q)) /\ Len(t) = m
          /\ \A i \in 1..m : t[i] = r[i]
        <3>1. /\ SubSeq(r, 1, m) \in Seq(Populated(q))
              /\ Len(SubSeq(r, 1, m)) = IF 1 <= m THEN m - 1 + 1 ELSE 0
              /\ \A i \in 1..(m - 1 + 1) : SubSeq(r, 1, m)[i] = r[1 + i - 1]
            BY <2>1, <2>3, SubSeqProperties
        <3> QED
            BY <2>1, <2>2, <3>1
    <2>5. t \in [1..m -> Populated(q)]
        BY <2>4, LenProperties
    <2>6. \A i, j \in 1..m : i < j <=> Outranks(q, t[i], t[j])
        BY <1>1, <2>1, <2>4
    <2>7. Kept(t, q)
        BY <2>1, <2>5, <2>6 DEF Kept
    <2>8. ASSUME NEW c \in Populated(q), c \notin {t[j] : j \in DOMAIN t}
          PROVE  m = q.top /\ \A j \in DOMAIN t : Outranks(q, t[j], c)
        <3>1. PICK k \in 1..n : r[k] = c
            BY <1>1
        <3>2. k > m
            BY <1>1, <2>1, <2>4, <2>5, <2>8, <3>1
        <3>3. m = q.top
            BY <1>1, <2>1, <3>2
        <3>4. ASSUME NEW j \in DOMAIN t PROVE Outranks(q, t[j], c)
            <4>1. j \in 1..m /\ j \in 1..n /\ j < k
                BY <1>1, <2>1, <2>5, <3>2
            <4> QED
                BY <1>1, <2>4, <3>1, <4>1
        <3> QED
            BY <3>3, <3>4
    <2>9. Cardinality(DOMAIN t) = m
        BY <2>1, <2>5, FS_Interval
    <2>10. q.scope = "ROWS"
        BY <1>5
    <2>11. Omitted(t, q)
        <3> SUFFICES ASSUME NEW c \in Populated(q), c \notin {t[j] : j \in DOMAIN t}
                     PROVE  /\ Cardinality({j \in DOMAIN t : q.scope = "ROWS"
                                                    \/ t[j][2] = c[2]}) = q.top
                            /\ \A j \in DOMAIN t : Outranks(q, t[j], c)
            BY DEF Omitted
        <3>1. {j \in DOMAIN t : q.scope = "ROWS" \/ t[j][2] = c[2]} = DOMAIN t
            BY <2>10
        <3> QED
            BY <2>8, <2>9, <3>1
    <2> QED
        BY <1>5, <2>7, <2>11 DEF t, r
<1> QED
    BY <1>4, <1>5

\* The members that have less than k before them are k, where there are as many.
LEMMA FirstOfList ==
    ASSUME NEW S, IsFiniteSet(S), NEW R, Orders(R, S), NEW k \in Nat,
           NEW c \in S, Cardinality(Ahead(S, R, c)) >= k
    PROVE  LET first == {d \in S : Cardinality(Ahead(S, R, d)) < k} IN
           /\ IsFiniteSet(first) /\ Cardinality(first) = k
           /\ \A d \in first : <<d, c>> \in R
<1> DEFINE first == {d \in S : Cardinality(Ahead(S, R, d)) < k}
<1> DEFINE s == InOrder(S, R)
<1>1. Lists(s, S, R)
    BY InOrderLists
<1> HIDE DEF s
<1>2. Cardinality(S) \in Nat /\ \A d \in S : Cardinality(Ahead(S, R, d)) \in Nat
    BY AheadGrows, FS_CardinalityType
<1>3. k <= Cardinality(S)
    BY <1>2, AheadGrows
<1>4. /\ s \in [1..Cardinality(S) -> S]
      /\ \A i \in 1..Cardinality(S) : Cardinality(Ahead(S, R, s[i])) = i - 1
      /\ \A d \in S : \E i \in 1..Cardinality(S) : s[i] = d
    BY <1>1 DEF Lists
<1> DEFINE f == [i \in 1..k |-> s[i]]
<1>5. f \in Bijection(1..k, first)
    <2>1. ASSUME NEW i \in 1..k PROVE f[i] \in first
        <3>1. i \in 1..Cardinality(S) /\ f[i] = s[i]
            BY <1>2, <1>3
        <3>2. f[i] \in S /\ Cardinality(Ahead(S, R, f[i])) = i - 1
            BY <1>4, <3>1
        <3> HIDE DEF f
        <3> QED
            BY <3>2
    <2>2. \A i, j \in 1..k : f[i] = f[j] => i = j
        <3>1. \A i \in 1..k : Cardinality(Ahead(S, R, f[i])) = i - 1
            BY <1>2, <1>3, <1>4
        <3> HIDE DEF f
        <3> QED
            BY <3>1
    <2>3. \A d \in first : \E i \in 1..k : f[i] = d
        <3> SUFFICES ASSUME NEW d \in first PROVE \E i \in 1..k : f[i] = d
            OBVIOUS
        <3>1. PICK i \in 1..Cardinality(S) : s[i] = d
            BY <1>4
        <3>2. i - 1 < k
            BY <1>4, <3>1
        <3>3. i \in 1..k
            BY <1>2, <3>2
        <3> QED
            BY <3>1, <3>3
    <2>4. f \in [1..k -> first]
        BY <2>1
    <2> HIDE DEF f, first
    <2> QED
        BY <2>2, <2>3, <2>4 DEF Bijection, Injection, Surjection, IsInjective
<1>6. IsFiniteSet(first) /\ Cardinality(first) = k
    <2>1. IsFiniteSet(1..k) /\ Cardinality(1..k) = k
        BY FS_Interval
    <2>2. ExistsBijection(1..k, first)
        BY <1>5 DEF ExistsBijection
    <2> HIDE DEF first
    <2> QED
        BY <2>1, <2>2, FS_Bijection
<1>7. ASSUME NEW d \in first PROVE <<d, c>> \in R
    <2>1. /\ d \in S /\ Cardinality(Ahead(S, R, d)) \in Nat
          /\ Cardinality(Ahead(S, R, c)) \in Nat
          /\ Cardinality(Ahead(S, R, d)) < Cardinality(Ahead(S, R, c))
        BY <1>2
    <2>2. c # d /\ ~(<<c, d>> \in R)
        BY <2>1, AheadGrows
    <2> QED
        BY <2>1, <2>2 DEF Orders
<1> QED
    BY <1>6, <1>7

------------------------------------------------------------------------------
(* The first rows of each period *)

Rising(S) == {e \in S \X S : e[1] < e[2]}

LEMMA RisingOrders ==
    ASSUME NEW S \in SUBSET Nat
    PROVE  /\ Orders(Rising(S), S)
           /\ \A c, d \in S : <<c, d>> \in Rising(S) <=> c < d
<1>1. \A c, d \in S : <<c, d>> \in Rising(S) <=> c < d
    BY DEF Rising
<1>2. \A c \in S : c \in Nat
    OBVIOUS
<1> QED
    BY <1>1, <1>2 DEF Orders

LEMMA TopOfPeriods ==
    ASSUME NEW q \in Query, q.top # 0, q.scope # "ROWS"
    PROVE  LET t == TopOf(q, Ranking(q)) IN Kept(t, q) /\ Omitted(t, q)
<1> DEFINE r == Ranking(q)
<1> DEFINE t == TopOf(q, r)
<1> DEFINE n == Cardinality(Populated(q))
<1> DEFINE peers(i) == {j \in 1..(i - 1) : r[j][2] = r[i][2]}
<1> DEFINE first == {i \in DOMAIN r : Cardinality(peers(i)) < q.top}
<1> DEFINE kept == InOrder(first, Rising(first))
<1> DEFINE m == Cardinality(first)
<1>1. /\ r \in [1..n -> Populated(q)] /\ n \in Nat
      /\ \A c \in Populated(q) : \E i \in 1..n : r[i] = c
      /\ \A i, j \in 1..n : i < j <=> Outranks(q, r[i], r[j])
    BY RankingKept
<1>2. t = [k \in DOMAIN kept |-> r[kept[k]]]
    BY DEF TopOf, Rising
<1>3. first = {i \in 1..n : Cardinality(peers(i)) < q.top} /\ q.top \in Nat
    BY <1>1 DEF Query
<1> HIDE DEF r, t, n
<1>4. first \in SUBSET Nat /\ IsFiniteSet(first) /\ m \in Nat
    <2>1. IsFiniteSet(1..n)
        BY <1>1, FS_Interval
    <2>2. first \in SUBSET (1..n)
        BY <1>3
    <2> HIDE DEF first
    <2>3. IsFiniteSet(first)
        BY <2>1, <2>2, FS_Subset
    <2>4. m \in Nat
        BY <2>3, FS_CardinalityType
    <2> HIDE DEF m
    <2> QED
        BY <2>2, <2>3, <2>4
<1>5. /\ kept \in [1..m -> first]
      /\ \A k \in first : \E i \in 1..m : kept[i] = k
      /\ \A i, j \in 1..m : i < j <=> kept[i] < kept[j]
    <2> HIDE DEF first
    <2>1. Lists(kept, first, Rising(first))
        BY <1>4, RisingOrders, InOrderLists
    <2> HIDE DEF kept
    <2>2. kept \in [1..m -> first]
        BY <2>1 DEF Lists
    <2>3. \A k \in first : \E i \in 1..m : kept[i] = k
        BY <2>1, <2>2 DEF Lists
    <2>4. \A i, j \in 1..m : i < j <=> <<kept[i], kept[j]>> \in Rising(first)
        BY <2>1, <2>2 DEF Lists
    <2>5. \A i \in 1..m : kept[i] \in first
        BY <2>2
    <2>6. \A i, j \in 1..m : i < j <=> kept[i] < kept[j]
        BY <1>4, <2>4, <2>5, RisingOrders
    <2> QED
        BY <2>2, <2>3, <2>6
<1>6. \A i \in 1..m : kept[i] \in first /\ kept[i] \in 1..n /\ t[i] = r[kept[i]]
    <2> HIDE DEF kept, first, m
    <2>1. DOMAIN kept = 1..m
        BY <1>5
    <2>2. \A i \in 1..m : kept[i] \in first
        BY <1>5
    <2> QED
        BY <1>2, <1>3, <2>1, <2>2 DEF first
<1>7. t \in [1..m -> Populated(q)]
    <2> HIDE DEF kept, first, m
    <2> QED
        BY <1>1, <1>2, <1>5, <1>6
<1>8. Kept(t, q)
    <2> HIDE DEF kept, first, m
    <2>1. \A i, j \in 1..m : i < j <=> Outranks(q, t[i], t[j])
        BY <1>1, <1>5, <1>6
    <2> QED
        BY <1>4, <1>7, <2>1 DEF Kept, m
<1>9. Omitted(t, q)
    <2> SUFFICES ASSUME NEW c \in Populated(q), c \notin {t[j] : j \in DOMAIN t}
                 PROVE  LET theirs == {j \in DOMAIN t : q.scope = "ROWS"
                                                        \/ t[j][2] = c[2]}
                        IN /\ Cardinality(theirs) = q.top
                           /\ \A j \in theirs : Outranks(q, t[j], c)
        BY DEF Omitted
    <2> DEFINE theirs == {j \in DOMAIN t : q.scope = "ROWS" \/ t[j][2] = c[2]}
    <2> DEFINE P == {j \in 1..n : r[j][2] = c[2]}
    <2>1. theirs = {j \in 1..m : t[j][2] = c[2]}
        <3> HIDE DEF m
        <3> QED
            BY <1>7
    <2>2. PICK k \in 1..n : r[k] = c
        BY <1>1
    <2>3. k \notin first
        <3> HIDE DEF kept, first, m
        <3> QED
            BY <1>5, <1>6, <1>7, <2>2
    <2>4. P \in SUBSET Nat /\ IsFiniteSet(P) /\ k \in P
        <3>1. IsFiniteSet(1..n)
            BY <1>1, FS_Interval
        <3>2. P \in SUBSET (1..n)
            OBVIOUS
        <3> QED
            BY <1>1, <2>2, <3>1, <3>2, FS_Subset
    <2>5. \A j \in P : Ahead(P, Rising(P), j) = peers(j)
        <3> SUFFICES ASSUME NEW j \in P PROVE Ahead(P, Rising(P), j) = peers(j)
            OBVIOUS
        <3>1. Ahead(P, Rising(P), j) = {d \in P : d < j}
            <4> HIDE DEF P
            <4> QED
                BY <2>4, RisingOrders DEF Ahead
        <3>2. {d \in P : d < j} = peers(j)
            BY <1>1
        <3> QED
            BY <3>1, <3>2
    <2>6. \A j \in P : IsFiniteSet(peers(j)) /\ Cardinality(peers(j)) \in Nat
        <3> HIDE DEF P, peers
        <3>1. \A j \in P : Cardinality(Ahead(P, Rising(P), j)) \in Nat
            BY <2>4, RisingOrders, AheadGrows, FS_CardinalityType
        <3>2. \A j \in P : Ahead(P, Rising(P), j) \in SUBSET P
            BY DEF Ahead
        <3> QED
            BY <2>4, <2>5, <3>1, <3>2, FS_Subset
    <2>7. Cardinality(Ahead(P, Rising(P), k)) >= q.top
        <3>1. ~(Cardinality(peers(k)) < q.top)
            <4> HIDE DEF peers, P
            <4> QED
                BY <1>3, <2>2, <2>3
        <3> HIDE DEF P, peers
        <3> QED
            BY <1>3, <2>4, <2>5, <2>6, <3>1
    <2> DEFINE F == {d \in P : Cardinality(Ahead(P, Rising(P), d)) < q.top}
    <2>8. /\ IsFiniteSet(F) /\ Cardinality(F) = q.top
          /\ \A d \in F : <<d, k>> \in Rising(P)
        <3> HIDE DEF P
        <3>1. Orders(Rising(P), P)
            BY <2>4, RisingOrders
        <3> QED
            BY <1>3, <2>4, <2>7, <3>1, FirstOfList
    <2>9. F = {d \in first : r[d][2] = c[2]}
        <3>1. \A d \in P : d \in 1..n /\ r[d][2] = c[2]
            OBVIOUS
        <3>2. \A d \in 1..n : r[d][2] = c[2] => d \in P
            OBVIOUS
        <3> HIDE DEF P, peers
        <3> QED
            BY <1>3, <2>5, <3>1, <3>2
    <2> DEFINE f == [j \in theirs |-> kept[j]]
    <2>10. f \in Bijection(theirs, F)
        <3> HIDE DEF kept, first, m, P, F
        <3>1. \A j \in theirs : j \in 1..m /\ f[j] = kept[j] /\ f[j] \in F
            BY <1>6, <2>1, <2>9
        <3>2. \A i, j \in theirs : f[i] = f[j] => i = j
            <4>1. \A i, j \in theirs : f[i] = f[j] => ~(i < j) /\ ~(j < i)
                <5>1. \A i \in 1..m : kept[i] \in Nat
                    BY <1>4, <1>6
                <5> HIDE DEF theirs, f
                <5> QED
                    BY <1>5, <3>1, <5>1
            <4>2. \A i \in theirs : i \in Int
                BY <2>1
            <4> HIDE DEF theirs, f
            <4> QED
                BY <4>1, <4>2
        <3>3. \A d \in F : \E j \in theirs : f[j] = d
            <4> SUFFICES ASSUME NEW d \in F PROVE \E j \in theirs : f[j] = d
                OBVIOUS
            <4>1. d \in first /\ r[d][2] = c[2]
                BY <2>9
            <4>2. PICK j \in 1..m : kept[j] = d
                BY <1>5, <4>1
            <4>3. j \in theirs
                BY <1>6, <2>1, <4>1, <4>2
            <4> QED
                BY <4>2, <4>3
        <3>4. f \in [theirs -> F]
            BY <3>1
        <3> HIDE DEF f, theirs
        <3> QED
            BY <3>2, <3>3, <3>4 DEF Bijection, Injection, Surjection, IsInjective
    <2>11. Cardinality(theirs) = q.top
        <3> HIDE DEF F, f, theirs
        <3>1. f \in Injection(theirs, F) /\ f \in Surjection(theirs, F)
            BY <2>10 DEF Bijection
        <3> QED
            BY <2>8, <3>1, FS_Injection
    <2>12. ASSUME NEW j \in theirs PROVE Outranks(q, t[j], c)
        <3>1. j \in 1..m /\ f[j] = kept[j] /\ f[j] \in F
            <4> HIDE DEF kept, m, F
            <4> QED
                BY <2>1, <2>10 DEF Bijection, Injection
        <3>2. kept[j] < k
            <4> HIDE DEF kept, m, F, P
            <4> QED
                BY <2>8, <3>1 DEF Rising
        <3> HIDE DEF kept, first, m, F, P, theirs
        <3>3. kept[j] \in 1..n /\ t[j] = r[kept[j]]
            BY <1>6, <3>1
        <3> QED
            BY <1>1, <2>2, <3>2, <3>3
    <2> QED
        BY <2>11, <2>12
<1> QED
    BY <1>8, <1>9 DEF t, r

\* What top_n leaves of the ranking is ranked, and outranks what it leaves out.
LEMMA TopIsRanked ==
    ASSUME NEW q \in Query
    PROVE  LET t == TopOf(q, Ranking(q)) IN
           /\ Kept(t, q) /\ Omitted(t, q)
           /\ q.top = 0 => \A c \in Populated(q) : \E i \in DOMAIN t : t[i] = c
BY TopOfAll, TopOfPeriods

------------------------------------------------------------------------------
(* The pages *)

\* A dataset is a row for each cell of the list.
LEMMA DatasetRows ==
    ASSUME NEW q \in Query
    PROVE  LET t == TopOf(q, Ranking(q))
               all == Dataset(q)
           IN \E m \in Nat :
                  /\ t \in [1..m -> Populated(q)] /\ all \in Seq(Row) /\ Len(all) = m
                  /\ DOMAIN all = 1..m
                  /\ \A i \in 1..m : all[i] = RowOf(q, t[i]) /\ all[i].cell = t[i]
                  /\ \A i, j \in 1..m : i < j <=> Outranks(q, t[i], t[j])
<1> DEFINE t == TopOf(q, Ranking(q))
<1> DEFINE all == Dataset(q)
<1>1. PICK m \in Nat : /\ t \in [1..m -> Populated(q)]
                       /\ \A i, j \in 1..m : i < j <=> Outranks(q, t[i], t[j])
    BY TopIsRanked DEF Kept
<1>2. all = [i \in DOMAIN t |-> RowOf(q, t[i])]
    BY DEF Dataset
<1> HIDE DEF all, t
<1>3. \A c : RowOf(q, c).cell = c
    BY DEF RowOf
<1>4. \A c \in Cells : RowOf(q, c) \in Row
    BY SelectedWasRead DEF RowOf, Row, Shown
<1>5. \A i \in 1..m : t[i] \in Cells
    BY <1>1, PopulatedCells
<1>6. all \in [1..m -> Row]
    BY <1>1, <1>2, <1>4, <1>5
<1>7. all \in Seq(Row) /\ Len(all) = m /\ DOMAIN all = 1..m
    BY <1>6
<1>8. \A i \in 1..m : all[i] = RowOf(q, t[i]) /\ all[i].cell = t[i]
    BY <1>1, <1>2, <1>3
<1> QED
    BY <1>1, <1>7, <1>8 DEF t, all

\* A page is a piece of the rows.
PieceAfter(before, piece, all) ==
    /\ before \in Nat
    /\ \A i \in DOMAIN piece :
           /\ i \in Nat \ {0} /\ before + i \in 1..Len(all)
           /\ piece[i] = all[before + i]

LEMMA PageIsPiece ==
    ASSUME NEW S, NEW all \in Seq(S), NEW n \in Nat \ {0}
    PROVE  /\ Page(all, n) \in Seq(S)
           /\ PieceAfter((n - 1) * PageSize, Page(all, n), all)
<1> DEFINE before == (n - 1) * PageSize
<1> DEFINE last == Min({n * PageSize, Len(all)})
<1> DEFINE piece == SubSeq(all, before + 1, last)
<1>1. PageSize \in Nat \ {0}
    BY ComparisonAssumption
<1>2. before \in Nat /\ n * PageSize \in Nat
    BY <1>1
<1>3. Len(all) \in Nat /\ \A i \in 1..Len(all) : all[i] \in S
    BY ElementOfSeq, LenProperties
<1>4. last \in Nat /\ last <= Len(all)
    <2>1. \E x \in {n * PageSize, Len(all)} :
              \A y \in {n * PageSize, Len(all)} : x <= y
        BY <1>2, <1>3
    <2>2. /\ last \in {n * PageSize, Len(all)}
          /\ \A y \in {n * PageSize, Len(all)} : last <= y
        BY <2>1 DEF Min
    <2> HIDE DEF last
    <2> QED
        BY <1>2, <1>3, <2>2
<1> HIDE DEF before, last
<1>5. \A i \in (before + 1)..last : all[i] \in S
    BY <1>2, <1>3, <1>4
<1>6. before + 1 \in Int /\ last \in Int
    BY <1>2, <1>4
<1>7. /\ piece \in Seq(S)
      /\ Len(piece) = IF before + 1 <= last THEN last - (before + 1) + 1 ELSE 0
      /\ \A i \in 1..(last - (before + 1) + 1) : piece[i] = all[before + 1 + i - 1]
    BY <1>5, <1>6, SubSeqProperties
<1> HIDE DEF piece
<1>8. DOMAIN piece = 1..Len(piece)
    BY <1>7, LenProperties
<1>9. \A i \in DOMAIN piece : /\ i \in Nat \ {0} /\ before + i \in 1..Len(all)
                              /\ piece[i] = all[before + i]
    BY <1>2, <1>3, <1>4, <1>7, <1>8, SMTT(30)
<1>10. Page(all, n) = piece
    BY DEF Page, piece, before, last
<1>11. PieceAfter(before, piece, all)
    BY <1>2, <1>9 DEF PieceAfter
<1> QED
    BY <1>7, <1>10, <1>11 DEF before

\* The pages of what was stored are the pieces of one ranking.
LEMMA OneRanking ==
    ASSUME TypeOK, StoredIsRead
    PROVE  PagesAreOneRanking
<1> SUFFICES ASSUME stage = "stored"
             PROVE  /\ \A i \in DOMAIN page.rows :
                           Cardinality({j \in DOMAIN rows :
                               <<rows[j].cell, page.rows[i].cell>>
                                   \in Outranking(query)})
                           = (page.number - 1) * PageSize + i - 1
                    /\ \A c \in Populated(query) :
                           c \notin {rows[j].cell : j \in DOMAIN rows} =>
                               LET peers == {j \in DOMAIN rows :
                                                query.scope = "ROWS"
                                                \/ rows[j].cell[2] = c[2]}
                               IN /\ Cardinality(peers) = query.top
                                  /\ \A j \in peers :
                                         <<rows[j].cell, c>> \in Outranking(query)
    BY DEF PagesAreOneRanking
<1> DEFINE t == TopOf(query, Ranking(query))
<1>1. query \in Query /\ rows \in Seq(Row)
    BY DEF TypeOK
<1>2. PICK m \in Nat :
          /\ t \in [1..m -> Populated(query)] /\ Len(rows) = m /\ DOMAIN rows = 1..m
          /\ \A i \in 1..m : rows[i].cell = t[i]
          /\ \A i, j \in 1..m : i < j <=> Outranks(query, t[i], t[j])
    BY <1>1, DatasetRows DEF StoredIsRead
<1>3. Omitted(t, query)
    BY <1>1, TopIsRanked
<1> HIDE DEF t
<1>6. \A c, d \in Cells : <<c, d>> \in Outranking(query) <=> Outranks(query, c, d)
    BY OutrankingIs
<1>7. \A i \in 1..m : rows[i].cell \in Cells
    BY <1>1, <1>2, PopulatedCells
<1>4. ASSUME NEW i \in DOMAIN page.rows
      PROVE  Cardinality({j \in DOMAIN rows :
                 <<rows[j].cell, page.rows[i].cell>> \in Outranking(query)})
             = (page.number - 1) * PageSize + i - 1
    <2> DEFINE before == (page.number - 1) * PageSize
    <2>1. page.number \in Nat \ {0} /\ page.rows = Page(rows, page.number)
        BY DEF StoredIsRead
    <2>2. PieceAfter(before, page.rows, rows)
        BY <1>1, <2>1, PageIsPiece
    <2> HIDE DEF before
    <2>3. /\ i \in Nat \ {0} /\ before \in Nat /\ before + i \in 1..m
          /\ page.rows[i] = rows[before + i]
        BY <1>2, <1>4, <2>2 DEF PieceAfter
    <2>4. page.rows[i].cell = t[before + i]
        BY <1>2, <2>3
    <2>5. {j \in DOMAIN rows : <<rows[j].cell, page.rows[i].cell>>
                                   \in Outranking(query)}
          = {j \in 1..m : j < before + i}
        <3>1. page.rows[i].cell \in Cells
            BY <1>2, <1>7, <2>3, <2>4
        <3>2. \A j \in 1..m : <<rows[j].cell, page.rows[i].cell>> \in Outranking(query)
                              <=> j < before + i
            BY <1>2, <1>6, <1>7, <2>3, <2>4, <3>1
        <3> QED
            BY <1>2, <3>2
    <2>6. {j \in 1..m : j < before + i} = 1..(before + i - 1)
        BY <1>2, <2>3
    <2>7. Cardinality(1..(before + i - 1)) = before + i - 1
        <3>1. PICK k \in Nat : k = before + i - 1
            BY <2>3
        <3>2. Cardinality(1..k) = k
            BY FS_Interval
        <3> QED
            BY <3>1, <3>2
    <2> QED
        BY <2>5, <2>6, <2>7 DEF before
<1>5. ASSUME NEW c \in Populated(query), c \notin {rows[j].cell : j \in DOMAIN rows}
      PROVE  LET peers == {j \in DOMAIN rows : query.scope = "ROWS"
                                               \/ rows[j].cell[2] = c[2]}
             IN /\ Cardinality(peers) = query.top
                /\ \A j \in peers : <<rows[j].cell, c>> \in Outranking(query)
    <2> DEFINE peers == {j \in DOMAIN t : query.scope = "ROWS" \/ t[j][2] = c[2]}
    <2>1. DOMAIN t = 1..m
        BY <1>2
    <2>2. c \notin {t[j] : j \in DOMAIN t}
        BY <1>2, <1>5, <2>1
    <2>3. Cardinality(peers) = query.top /\ \A j \in peers : Outranks(query, t[j], c)
        BY <1>3, <2>2 DEF Omitted
    <2>4. peers = {j \in DOMAIN rows : query.scope = "ROWS"
                                       \/ rows[j].cell[2] = c[2]}
        BY <1>2, <2>1
    <2>5. \A j \in peers : rows[j].cell = t[j] /\ rows[j].cell \in Cells
        BY <1>2, <1>7, <2>1
    <2>6. c \in Cells
        BY <1>1, PopulatedCells
    <2> HIDE DEF peers
    <2>7. \A j \in peers : <<rows[j].cell, c>> \in Outranking(query)
        BY <1>6, <2>3, <2>5, <2>6
    <2> QED
        BY <2>3, <2>4, <2>7
<1> QED
    BY <1>4, <1>5

------------------------------------------------------------------------------
(* The answer *)

\* Two period keys match exactly if they have a quarter of time in common.
LEMMA MatchIsOverlap ==
    ASSUME NEW a \in PeriodKey, NEW b \in PeriodKey
    PROVE  Matches(a, b) <=> Covered(a) \cap Covered(b) # {}
<1> DEFINE Of(k) == IF k[2] = 0 THEN 1..4 ELSE {k[2]}
<1>1. /\ a = <<a[1], a[2]>> /\ a[2] \in 0..4
      /\ b = <<b[1], b[2]>> /\ b[2] \in 0..4
    BY DEF PeriodKey
<1>2. \A k \in {a, b} : Covered(k) = {k[1]} \X Of(k)
    BY <1>1 DEF Covered
<1>3. Covered(a) \cap Covered(b) # {}
      <=> a[1] = b[1] /\ \E x \in 1..4 : x \in Of(a) /\ x \in Of(b)
    <2>1. \A x : x \in Of(a) => x \in 1..4
        BY <1>1
    <2> HIDE DEF Of
    <2>2. ASSUME NEW t, t \in Covered(a), t \in Covered(b)
          PROVE  a[1] = b[1] /\ t[2] \in Of(a) /\ t[2] \in Of(b)
        BY <1>2, <2>2
    <2>3. ASSUME a[1] = b[1], NEW x, x \in Of(a), x \in Of(b)
          PROVE  <<a[1], x>> \in Covered(a) /\ <<a[1], x>> \in Covered(b)
        BY <1>2, <2>3
    <2> QED
        BY <2>1, <2>2, <2>3
<1>4. (\E x \in 1..4 : x \in Of(a) /\ x \in Of(b))
      <=> a[2] = 0 \/ b[2] = 0 \/ a[2] = b[2]
    BY <1>1
<1> QED
    BY <1>3, <1>4 DEF Matches

\* The periods that are compared are those that the prompt means.
LEMMA MatchedAreMeant ==
    ASSUME NEW p \in Prompts
    PROVE  MatchedPeriods(p) = Meant(p)
<1>1. p \in Prompt /\ p.written \subseteq Periods
    BY AnswerAssumption DEF Prompt
<1>2. CASE p.written # {}
    BY <1>1, <1>2 DEF MatchedPeriods, Meant
<1>3. CASE p.written = {}
    <2>1. ParseKeys(p) \subseteq PeriodKey
        BY <1>1 DEF ParseKeys, Prompt, PeriodKey
    <2>2. \A period \in Periods : RecordKeys[period] \subseteq PeriodKey
        BY AnswerAssumption
    <2>3. Asked(p) = UNION {Covered(a) : a \in ParseKeys(p)}
        <3>1. CASE p.quarters # {}
            <4>1. \A a \in p.quarters : Covered(a) = {a}
                BY <1>1 DEF Covered, Prompt
            <4>2. UNION {Covered(a) : a \in p.quarters} = p.quarters
                BY <4>1
            <4> QED
                BY <3>1, <4>2 DEF Asked, ParseKeys
        <3>2. CASE p.quarters = {}
            <4>1. \A y : Covered(<<y, 0>>) = {y} \X (1..4)
                BY DEF Covered
            <4>2. ParseKeys(p) = {<<y, 0>> : y \in p.years}
                BY <3>2 DEF ParseKeys
            <4>3. ASSUME NEW a \in ParseKeys(p), NEW z \in Covered(a)
                  PROVE  z \in p.years \X (1..4)
                <5>1. PICK y \in p.years : a = <<y, 0>>
                    BY <4>2
                <5>2. z \in {y} \X (1..4)
                    BY <4>1, <4>3, <5>1
                <5> QED
                    BY <5>2
            <4>4. ASSUME NEW z \in p.years \X (1..4)
                  PROVE  \E a \in ParseKeys(p) : z \in Covered(a)
                <5>1. z[1] \in p.years /\ z \in {z[1]} \X (1..4)
                    OBVIOUS
                <5>2. <<z[1], 0>> \in ParseKeys(p) /\ z \in Covered(<<z[1], 0>>)
                    BY <4>1, <4>2, <5>1
                <5> QED
                    BY <5>2
            <4>5. UNION {Covered(a) : a \in ParseKeys(p)} = p.years \X (1..4)
                BY <4>3, <4>4
            <4> QED
                BY <3>2, <4>5 DEF Asked
        <3> QED
            BY <3>1, <3>2
    <2>4. ASSUME NEW period \in Periods
          PROVE  TextMatches(p, period)
                 <=> \E k \in RecordKeys[period] : Covered(k) \cap Asked(p) # {}
        <3>1. ASSUME NEW a \in ParseKeys(p), NEW k \in RecordKeys[period]
              PROVE  Matches(a, k) <=> Covered(a) \cap Covered(k) # {}
            BY <2>1, <2>2, MatchIsOverlap
        <3>2. ASSUME NEW k \in RecordKeys[period]
              PROVE  Covered(k) \cap Asked(p) # {}
                     <=> \E a \in ParseKeys(p) : Covered(a) \cap Covered(k) # {}
            BY <2>3
        <3> QED
            BY <3>1, <3>2 DEF TextMatches
    <2> QED
        BY <1>3, <2>4 DEF MatchedPeriods, Meant
<1> QED
    BY <1>2, <1>3

\* The dataset of an analysis has a row for each cell that is populated.
LEMMA ResultIsPopulated ==
    ASSUME IInv, stage = "stored", query.top = 0
    PROVE  ResultCells = Populated(query)
<1> DEFINE t == TopOf(query, Ranking(query))
<1>1. query \in Query /\ rows = Dataset(query)
    BY DEF IInv, AnswerTypeOK, TypeOK, StoredIsRead
<1>2. PICK m \in Nat : /\ t \in [1..m -> Populated(query)]
                       /\ DOMAIN rows = 1..m
                       /\ \A i \in 1..m : rows[i].cell = t[i]
    BY <1>1, DatasetRows
<1>3. \A c \in Populated(query) : \E i \in DOMAIN t : t[i] = c
    BY <1>1, TopIsRanked
<1> HIDE DEF t
<1> QED
    BY <1>2, <1>3 DEF ResultCells

LEMMA Answers ==
    ASSUME IInv
    PROVE  AnswersTheQuestion
<1> DEFINE line == IF prompt.line = NoLine THEN "TOTAL_ASSETS" ELSE prompt.line
<1> SUFFICES ASSUME phase = "completed"
             PROVE  \E U, V \in past :
                        ResultCells =
                            {c \in prompt.names \X Meant(prompt) :
                                \E o \in Offers[line] :
                                    \E f \in AtMoments(U, V)[o] : f.cell = c}
    BY DEF AnswersTheQuestion
<1> HIDE DEF line
<1>1. /\ stage = "stored" /\ query.offers # {}
      /\ query = ToolQuery(prompt.names, MatchedPeriods(prompt), Measure(prompt))
      /\ prompt \in Prompts /\ query \in Query /\ TypeOK
    BY DEF IInv, Planned, AnswerTypeOK, TypeOK
<1>2. MatchedPeriods(prompt) = Meant(prompt) /\ Measure(prompt) = line
    BY <1>1, MatchedAreMeant DEF Measure, line
<1>3. /\ query.institutions = prompt.names /\ query.periods = Meant(prompt)
      /\ query.policy = "BOTH" /\ query.top = 0
      /\ query.offers = Offers[line] /\ query.offers \subseteq Origins
    <2>1. query.offers = IF line \in Measures THEN Offers[line] ELSE {}
        BY <1>1, <1>2 DEF ToolQuery
    <2> QED
        BY <1>1, <1>2, <2>1, AnswerAssumption DEF ToolQuery
<1>4. Series(query) = query.offers
    BY <1>3 DEF Series
<1>5. ResultCells = Populated(query)
    BY <1>1, <1>3, ResultIsPopulated
<1>6. Wanted(query) = prompt.names \X Meant(prompt)
    BY <1>3 DEF Wanted
<1>7. PICK U \in past : facts \in FactsIn(U, query)
    BY <1>1 DEF IInv, SourcesHeld
<1>8. PICK V \in past : calcs \in CalculationsIn(V, query)
    BY <1>1 DEF IInv, SourcesHeld
<1>9. ASSUME NEW c \in Wanted(query), NEW o \in query.offers
      PROVE  Selected(query, c, o) # "none"
             <=> \E f \in AtMoments(U, V)[o] : f.cell = c
    <2>1. o \in Origins /\ o # "either" /\ o # "none"
        BY <1>3 DEF Origins
    <2>2. Selected(query, c, o) = IF Has(c, o) THEN o ELSE "none"
        BY <1>4, <2>1, SelectedIs
    <2>3. /\ o = "reported" => NeedsReported(query)
          /\ o = "derived" => NeedsDerived(query)
        BY <1>3 DEF NeedsReported, NeedsDerived
    <2>4. Has(c, o) <=> \E f \in AtMoments(U, V)[o] : f.cell = c
        <3>1. ASSUME Has(c, o) PROVE \E f \in AtMoments(U, V)[o] : f.cell = c
            <4>1. [cell |-> c, amount |-> Amount(c, o)] \in AtMoments(U, V)[o]
                BY <1>1, <1>7, <1>8, <2>1, <3>1, FiguresAreOfMoments
            <4>2. [cell |-> c, amount |-> Amount(c, o)].cell = c
                OBVIOUS
            <4> QED
                BY <4>1, <4>2
        <3>2. ASSUME \E f \in AtMoments(U, V)[o] : f.cell = c PROVE Has(c, o)
            BY <1>1, <1>7, <1>8, <2>1, <2>3, <3>2, FiguresAreOfMoments
        <3> QED
            BY <3>1, <3>2
    <2> QED
        BY <2>1, <2>2, <2>4
<1>10. Populated(query) = {c \in Wanted(query) :
                              \E o \in Offers[line] :
                                  \E f \in AtMoments(U, V)[o] : f.cell = c}
    BY <1>3, <1>4, <1>9 DEF Populated
<1> QED
    BY <1>5, <1>6, <1>7, <1>8, <1>10

------------------------------------------------------------------------------
(* The steps *)

\* What was stored stays the dataset of what was read.
LEMMA DatasetKept ==
    ASSUME NEW q, UNCHANGED <<facts, calcs>>
    PROVE  Dataset(q)' = Dataset(q)
<1>1. \A c, o : /\ Has(c, o)' <=> Has(c, o)
                /\ Amount(c, o)' = Amount(c, o)
    BY DEF Has, Amount, Is, Figures
<1>2. \A c, s : Selected(q, c, s)' = Selected(q, c, s)
    BY DEF Selected, Has, Is, Figures
<1>3. Populated(q)' = Populated(q)
    BY <1>2 DEF Populated
<1>4. SortSeries(q)' = SortSeries(q)
    BY <1>2, <1>3 DEF SortSeries
<1>5. \A c : Weight(q, SortSeries(q), c)' = Weight(q, SortSeries(q), c)
    BY <1>1, <1>2, <1>4 DEF Weight
<1>7. Outranking(q)' = Outranking(q)
    BY <1>5 DEF Outranking
<1>8. Ranking(q)' = Ranking(q)
    BY <1>3, <1>7 DEF Ranking
<1>9. \A c : RowOf(q, c)' = RowOf(q, c)
    BY <1>2 DEF RowOf
<1>10. TopOf(q, Ranking(q))' = TopOf(q, Ranking(q))
    BY <1>8
<1> QED
    BY <1>9, <1>10 DEF Dataset

LEMMA StoredKept ==
    ASSUME StoredIsRead, UNCHANGED <<query, facts, calcs, rows, page>>,
           stage' = "stored" => stage = "stored"
    PROVE  StoredIsRead'
<1>1. \A q : Dataset(q)' = Dataset(q)
    BY DatasetKept
<1> QED
    BY <1>1 DEF StoredIsRead

\* What there is to read is the same where the facts, the calculations and the
\* question are.
LEMMA BookKept ==
    /\ UNCHANGED <<current, completed, query>> => Book' = Book
    /\ \A q, U : FactsIn(U, q)' = FactsIn(U, q)
    /\ \A q, V : CalculationsIn(V, q)' = CalculationsIn(V, q)
<1>1. UNCHANGED <<current, completed, query>> => Book' = Book
    BY DEF Book, Reported, Wanted
<1>2. \A q, U : FactsIn(U, q)' = FactsIn(U, q)
    BY DEF FactsIn, LastRead, NeedsReported
<1>3. \A q, V : CalculationsIn(V, q)' = CalculationsIn(V, q)
    BY DEF CalculationsIn, LastRead, NeedsDerived, Wanted
<1> QED
    BY <1>1, <1>2, <1>3

\* What was read is still of a moment where there are more of them, or the same.
LEMMA SourcesKept ==
    ASSUME SourcesHeld, past \subseteq past',
           UNCHANGED <<query, facts, calcs>>,
           stage' = stage,
           stage \in {"asked", "half"} => Book' \in past'
    PROVE  SourcesHeld'
<1>1. \A U \in past : facts \in FactsIn(U, query) => facts' \in FactsIn(U, query)'
    BY BookKept
<1>2. \A V \in past : calcs \in CalculationsIn(V, query) =>
                         calcs' \in CalculationsIn(V, query)'
    BY BookKept
<1> QED
    BY <1>1, <1>2, BookKept DEF SourcesHeld

\* A step that ends a request, or takes it on, without reading.
LEMMA SourcesGone ==
    ASSUME stage' = "refused" PROVE SourcesHeld'
BY DEF SourcesHeld

LEMMA BookType ==
    ASSUME TypeOK
    PROVE  Book \in [reported : SUBSET Figure, derived : SUBSET Figure]
<1>1. Reported(query) \subseteq Figure
    BY DEF TypeOK, Reported, Fact, Figure
<1> QED
    BY <1>1 DEF TypeOK, Book

\* What a request is when it is neither made nor read by a step.
LEMMA UntouchedKept ==
    ASSUME IInv, UNCHANGED vars
    PROVE  TypeOK' /\ SourcesHeld' /\ StoredIsRead'
<1>1. TypeOK'
    BY DEF IInv, AnswerTypeOK, TypeOK, vars, data
<1>2. SourcesHeld'
    BY SourcesKept, BookKept DEF IInv, SourcesHeld, vars, data
<1>3. StoredIsRead'
    BY StoredKept DEF IInv, vars, data
<1> QED
    BY <1>1, <1>2, <1>3

LEMMA DefaultsAreTyped ==
    /\ \A measure : \A i \in SUBSET Institutions, p \in SUBSET Periods :
           ToolQuery(i, p, measure) \in Query
    /\ Unplanned \in Query
<1>1. \A measure : \A i \in SUBSET Institutions, p \in SUBSET Periods :
          ToolQuery(i, p, measure) \in Query
    <2> SUFFICES ASSUME NEW i \in SUBSET Institutions, NEW p \in SUBSET Periods,
                        NEW measure
                 PROVE  ToolQuery(i, p, measure) \in Query
        OBVIOUS
    <2> DEFINE offered == IF measure \in Measures THEN Offers[measure] ELSE {}
    <2>1. offered \subseteq Origins
        BY AnswerAssumption
    <2>2. "BOTH" \in Policies /\ "PER_PERIOD" \in Scopes
        BY DEF Policies, Scopes
    <2> QED
        BY <2>1, <2>2 DEF ToolQuery, Query
<1> QED
    BY <1>1 DEF Unplanned

LEMMA MatchedArePeriods ==
    ASSUME NEW p \in Prompts
    PROVE  p.names \in SUBSET Institutions /\ MatchedPeriods(p) \in SUBSET Periods
<1>1. p \in Prompt
    BY AnswerAssumption
<1>2. p.names \subseteq Institutions /\ p.written \subseteq Periods
    BY <1>1 DEF Prompt
<1> QED
    BY <1>2 DEF MatchedPeriods

LEMMA InitInv ==
    ASSUME AnswerInit PROVE IInv
<1>1. query \in Query
    BY ComparisonAssumption, DefaultsAreTyped
    DEF AnswerInit, StartHttp, StartAnalysis, Init
<1>2. prompt \in Prompts
    <2>1. \E p \in Prompts : TRUE
        BY AnswerAssumption
    <2> QED
        BY <2>1 DEF AnswerInit, StartHttp, StartAnalysis
<1>3. /\ Start
      /\ phase \in {"http", "understanding"} /\ asks = "none" /\ narrative = {}
    BY DEF AnswerInit, StartHttp, StartAnalysis, Init
<1>4. <<>> \in Seq(Row) /\ MaxChanges \in Nat
    BY ComparisonAssumption
<1>5. current \subseteq Fact /\ completed \subseteq Figure
    BY <1>3, ComparisonAssumption DEF Start
<1>6. AnswerTypeOK
    BY <1>1, <1>2, <1>3, <1>4, <1>5 DEF Start, TypeOK, AnswerTypeOK
<1>7. SourcesHeld /\ StoredIsRead
    BY <1>3 DEF Start, SourcesHeld, StoredIsRead
<1>8. Planned
    BY <1>3 DEF Start, Planned
<1> QED
    BY <1>6, <1>7, <1>8 DEF IInv

\* Approvals, revisions and calculations leave what was read as it was.
LEMMA DataStep ==
    ASSUME IInv, DataChanges PROVE IInv'
<1>1. /\ UNCHANGED <<stage, query, facts, calcs, rows, charted, page>>
      /\ UNCHANGED answer
      /\ changes < MaxChanges /\ changes' = changes + 1
      /\ past' = IF stage \in {"asked", "half"} THEN past \cup {Book'} ELSE past
    BY DEF DataChanges, DataChange, ApproveFact, ReviseFact, CompleteCalculation,
           Change
<1>2. TypeOK
    BY DEF IInv, AnswerTypeOK
<1>3. current' \subseteq Fact /\ completed' \subseteq Figure
    BY <1>2, ComparisonAssumption
    DEF DataChanges, DataChange, ApproveFact, ReviseFact, CompleteCalculation, TypeOK
<1>4. Book' \in [reported : SUBSET Figure, derived : SUBSET Figure]
    <2>1. Reported(query)' \subseteq Figure
        BY <1>3 DEF Reported, Fact, Figure
    <2> QED
        BY <1>3, <2>1 DEF Book
<1>5. /\ past \subseteq past' /\ stage \in {"asked", "half"} => Book' \in past'
      /\ past' \subseteq [reported : SUBSET Figure, derived : SUBSET Figure]
    BY <1>1, <1>2, <1>4 DEF TypeOK
<1>6. changes' \in 0..MaxChanges
    BY <1>1, <1>2, ComparisonAssumption DEF TypeOK
<1>7. TypeOK'
    BY <1>1, <1>2, <1>3, <1>5, <1>6 DEF TypeOK
<1>8. AnswerTypeOK'
    BY <1>1, <1>7 DEF IInv, AnswerTypeOK, answer
<1>9. SourcesHeld'
    BY <1>1, <1>5, SourcesKept DEF IInv
<1>10. StoredIsRead'
    BY <1>1, StoredKept DEF IInv
<1>11. Planned'
    BY <1>1 DEF IInv, Planned, answer
<1> QED
    BY <1>8, <1>9, <1>10, <1>11 DEF IInv

LEMMA AskStep ==
    ASSUME IInv, Ask, phase \in {"http", "executing"}, UNCHANGED answer
    PROVE  IInv'
<1>1. /\ stage = "idle" /\ stage' \in {"asked", "refused"}
      /\ stage' = "asked" => query.offers # {}
      /\ past' = {Book}
      /\ UNCHANGED <<data, query, facts, calcs, rows, charted, page>>
    BY DEF Ask, Acceptable
<1>2. past' \subseteq [reported : SUBSET Figure, derived : SUBSET Figure]
    BY <1>1, BookType DEF IInv, AnswerTypeOK
<1>3. AnswerTypeOK'
    BY <1>1, <1>2 DEF IInv, AnswerTypeOK, TypeOK, data, answer
<1>4. Book' = Book
    BY <1>1, BookKept DEF data
<1>5. SourcesHeld'
    BY <1>1, <1>4 DEF SourcesHeld
<1>6. StoredIsRead'
    BY <1>1 DEF StoredIsRead
<1>7. Planned'
    BY <1>1 DEF IInv, Planned, answer
<1> QED
    BY <1>3, <1>5, <1>6, <1>7 DEF IInv

LEMMA ReadFactsStep ==
    ASSUME IInv, ReadFacts, phase \in {"http", "executing"}, UNCHANGED answer
    PROVE  IInv'
<1>1. /\ stage = "asked" /\ stage' = "half"
      /\ facts' \in FactsIn(Book, query)
      /\ UNCHANGED <<data, query, calcs, rows, charted, page, past>>
    BY DEF ReadFacts
<1>2. facts' \subseteq Figure
    <2>1. Book.reported \subseteq Figure
        BY BookType DEF IInv, AnswerTypeOK
    <2> QED
        BY <1>1, <2>1, KeptOfRead DEF FactsIn
<1>3. AnswerTypeOK'
    BY <1>1, <1>2 DEF IInv, AnswerTypeOK, TypeOK, data, answer
<1>4. SourcesHeld'
    <2>1. Book \in past /\ Book' = Book
        BY <1>1, BookKept DEF IInv, SourcesHeld, data
    <2>2. facts' \in FactsIn(Book, query)'
        BY <1>1, <2>1, BookKept DEF FactsIn, LastRead, NeedsReported
    <2>3. \E U \in past' : facts' \in FactsIn(U, query')
        BY <1>1, <2>1
    <2> QED
        BY <1>1, <2>1, <2>3, BookKept DEF SourcesHeld
<1>5. StoredIsRead'
    BY <1>1 DEF StoredIsRead
<1>6. Planned'
    BY <1>1 DEF IInv, Planned, answer
<1> QED
    BY <1>3, <1>4, <1>5, <1>6 DEF IInv

LEMMA ReadCalculationsStep ==
    ASSUME IInv, ReadCalculations, phase \in {"http", "executing"},
           UNCHANGED answer
    PROVE  IInv'
<1>1. /\ stage = "half" /\ stage' = "read"
      /\ calcs' \in CalculationsIn(Book, query)
      /\ UNCHANGED <<data, query, facts, rows, charted, page, past>>
    BY DEF ReadCalculations
<1>2. calcs' \subseteq Figure
    <2>1. Book.derived \subseteq Figure
        BY BookType DEF IInv, AnswerTypeOK
    <2> QED
        BY <1>1, <2>1, KeptOfRead DEF CalculationsIn
<1>3. AnswerTypeOK'
    BY <1>1, <1>2 DEF IInv, AnswerTypeOK, TypeOK, data, answer
<1>4. SourcesHeld'
    <2>1. Book \in past
        BY <1>1 DEF IInv, SourcesHeld
    <2>2. PICK U \in past : facts \in FactsIn(U, query)
        BY <1>1 DEF IInv, SourcesHeld
    <2>3. \E V \in past' : calcs' \in CalculationsIn(V, query')
        BY <1>1, <2>1
    <2>4. \E W \in past' : facts' \in FactsIn(W, query')
        BY <1>1, <2>2
    <2> QED
        BY <1>1, <2>3, <2>4, BookKept DEF SourcesHeld
<1>5. StoredIsRead'
    BY <1>1 DEF StoredIsRead
<1>6. Planned'
    BY <1>1 DEF IInv, Planned, answer
<1> QED
    BY <1>3, <1>4, <1>5, <1>6 DEF IInv

LEMMA RefuseStep ==
    ASSUME IInv, RefuseFacts \/ RefuseIncomplete, phase \in {"http", "executing"},
           UNCHANGED answer
    PROVE  IInv'
<1>1. /\ stage' = "refused"
      /\ UNCHANGED <<data, query, facts, calcs, rows, charted, page, past>>
    BY DEF RefuseFacts, RefuseIncomplete
<1>2. AnswerTypeOK'
    BY <1>1 DEF IInv, AnswerTypeOK, TypeOK, data, answer
<1>3. SourcesHeld' /\ StoredIsRead'
    BY <1>1, SourcesGone DEF StoredIsRead
<1>4. Planned'
    BY <1>1 DEF IInv, Planned, answer
<1> QED
    BY <1>2, <1>3, <1>4 DEF IInv

LEMMA StoreStep ==
    ASSUME IInv, NEW n, Store(n), phase \in {"http", "executing"},
           UNCHANGED answer
    PROVE  IInv'
<1> DEFINE all == Dataset(query)
<1>1. /\ stage = "read" /\ stage' = "stored"
      /\ n \in 1..TotalPages(all) /\ rows' = all
      /\ page' = [number |-> n, rows |-> Page(all, n)] /\ charted' = Page(all, n)
      /\ UNCHANGED <<data, query, facts, calcs, past>>
    BY DEF Store
<1>2. query \in Query
    BY DEF IInv, AnswerTypeOK, TypeOK
<1>3. all \in Seq(Row)
    BY <1>2, DatasetRows
<1>4. n \in Nat \ {0}
    BY <1>1
<1>5. Page(all, n) \in Seq(Row)
    BY <1>3, <1>4, PageIsPiece
<1>6. \A q : Dataset(q)' = Dataset(q)
    BY <1>1, DatasetKept
<1> HIDE DEF all
<1>7. AnswerTypeOK'
    BY <1>1, <1>3, <1>4, <1>5 DEF IInv, AnswerTypeOK, TypeOK, data, answer
<1>8. SourcesHeld'
    <2>1. PICK U \in past : facts \in FactsIn(U, query)
        BY <1>1 DEF IInv, SourcesHeld
    <2>2. PICK V \in past : calcs \in CalculationsIn(V, query)
        BY <1>1 DEF IInv, SourcesHeld
    <2>3. /\ \E W \in past' : facts' \in FactsIn(W, query')
          /\ \E W \in past' : calcs' \in CalculationsIn(W, query')
        BY <1>1, <2>1, <2>2
    <2> QED
        BY <1>1, <2>3, BookKept DEF SourcesHeld
<1>9. StoredIsRead'
    BY <1>1, <1>6 DEF StoredIsRead, all
<1>10. Planned'
    BY <1>1 DEF IInv, Planned, answer
<1> QED
    BY <1>7, <1>8, <1>9, <1>10 DEF IInv

LEMMA GetPageStep ==
    ASSUME IInv, NEW n, GetPage(n), UNCHANGED answer
    PROVE  IInv'
<1>1. /\ stage = "stored" /\ n \in 1..TotalPages(rows)
      /\ page' = [number |-> n, rows |-> Page(rows, n)]
      /\ UNCHANGED <<data, stage, query, facts, calcs, rows, charted, past>>
    BY DEF GetPage
<1>2. n \in Nat \ {0} /\ rows \in Seq(Row)
    BY <1>1 DEF IInv, AnswerTypeOK, TypeOK
<1>3. Page(rows, n) \in Seq(Row)
    BY <1>2, PageIsPiece
<1>4. \A q : Dataset(q)' = Dataset(q)
    BY <1>1, DatasetKept
<1>5. AnswerTypeOK'
    BY <1>1, <1>2, <1>3 DEF IInv, AnswerTypeOK, TypeOK, data, answer
<1>6. SourcesHeld'
    BY <1>1, SourcesKept DEF IInv
<1>7. StoredIsRead'
    BY <1>1, <1>4 DEF IInv, StoredIsRead
<1>8. Planned'
    BY <1>1 DEF IInv, Planned, answer
<1> QED
    BY <1>5, <1>6, <1>7, <1>8 DEF IInv

\* The analysis understands its prompt before anything has been asked.
LEMMA MakePlanStep ==
    ASSUME IInv, MakePlan PROVE IInv'
<1>1. /\ phase = "understanding" /\ phase' = "executing"
      /\ query' = ToolQuery(prompt.names, MatchedPeriods(prompt), Measure(prompt))
      /\ UNCHANGED <<data, stage, facts, calcs, rows, charted, page, past,
                     prompt, asks, narrative>>
    BY DEF MakePlan
<1>2. stage = "idle" /\ prompt \in Prompts
    BY <1>1 DEF IInv, Planned, AnswerTypeOK
<1>3. query' \in Query
    BY <1>1, <1>2, DefaultsAreTyped, MatchedArePeriods
<1>4. AnswerTypeOK'
    BY <1>1, <1>3 DEF IInv, AnswerTypeOK, TypeOK, data
<1>5. SourcesHeld' /\ StoredIsRead'
    BY <1>1, <1>2 DEF SourcesHeld, StoredIsRead
<1>6. Planned'
    BY <1>1, <1>2 DEF IInv, Planned
<1> QED
    BY <1>4, <1>5, <1>6 DEF IInv

\* The other steps of an analysis leave the request as it is.
LEMMA AnalysisStep ==
    ASSUME IInv, Clarify \/ ToolFails \/ Narrate \/ RunGates
    PROVE  IInv'
<1>1. UNCHANGED vars
    BY DEF Clarify, ToolFails, Narrate, RunGates
<1>2. TypeOK' /\ SourcesHeld' /\ StoredIsRead'
    BY <1>1, UntouchedKept
<1>3. /\ prompt' = prompt /\ narrative' \subseteq Claims
      /\ \/ asks' = asks
         \/ asks' = Missing(prompt)
      /\ \/ phase = "understanding" /\ phase' = "waiting"
         \/ phase' = "failed"
         \/ phase = "executing" /\ stage = "stored" /\ phase' = "gate"
         \/ phase = "gate" /\ phase' = "completed"
    BY DEF Clarify, ToolFails, Narrate, RunGates, IInv, AnswerTypeOK
<1>4. Missing(prompt) \in {"none", "UNSUPPORTED_REQUEST_SCOPE",
                           "INSTITUTION_REQUIRED", "REPORTING_PERIOD_REQUIRED"}
    BY DEF Missing
<1>5. AnswerTypeOK'
    BY <1>2, <1>3, <1>4 DEF IInv, AnswerTypeOK
<1>6. Planned'
    BY <1>1, <1>3 DEF IInv, Planned, vars
<1> QED
    BY <1>2, <1>5, <1>6 DEF IInv

LEMMA AnswerStep ==
    ASSUME IInv, [AnswerNext]_allVars PROVE IInv'
<1>1. CASE DataChanges
    BY <1>1, DataStep
<1>2. CASE Compare
    <2>1. UNCHANGED answer
        BY <1>2 DEF Compare
    <2>2. \/ phase \in {"http", "executing"} /\ Reading
          \/ \E n : phase \in {"http", "executing"} /\ Store(n)
          \/ \E n : GetPage(n)
        BY <1>2 DEF Compare
    <2> QED
        BY <2>1, <2>2, AskStep, ReadFactsStep, ReadCalculationsStep, RefuseStep,
           StoreStep, GetPageStep DEF Reading
<1>3. CASE MakePlan
    BY <1>3, MakePlanStep
<1>4. CASE Clarify \/ ToolFails \/ Narrate \/ RunGates
    BY <1>4, AnalysisStep
<1>5. CASE UNCHANGED allVars
    <2>1. UNCHANGED vars /\ UNCHANGED answer
        BY <1>5 DEF allVars
    <2>2. TypeOK' /\ SourcesHeld' /\ StoredIsRead'
        BY <2>1, UntouchedKept
    <2>3. AnswerTypeOK' /\ Planned'
        BY <2>1, <2>2
        DEF IInv, AnswerTypeOK, Planned, vars, answer
    <2> QED
        BY <2>2, <2>3 DEF IInv
<1> QED
    BY <1>1, <1>2, <1>3, <1>4, <1>5
    DEF AnswerNext, Answered, Refused, Ended, allVars

------------------------------------------------------------------------------
(* The theorems *)

\* The inductive invariant holds.
THEOREM Invariance == AnswerSpec => []IInv
<1>1. AnswerInit => IInv
    BY InitInv
<1>2. IInv /\ [AnswerNext]_allVars => IInv'
    BY AnswerStep
<1> QED
    BY <1>1, <1>2, PTL DEF AnswerSpec

\* Types are kept: what a request or a prompt turns into is a query, what is
\* stored are rows, and a page is a list of them.
THEOREM AnswersTyped == AnswerSpec => []AnswerTypeOK
<1>1. IInv => AnswerTypeOK
    BY DEF IInv
<1> QED
    BY <1>1, Invariance, PTL

\* A dataset is what there was at two moments since it was asked for, whatever is
\* approved, revised or calculated meanwhile: every figure was in force when its
\* origin was read, as a fact with usable evidence or a calculation, and an origin
\* that the policy admits is passed over only where it had none
\* (execute_comparison, approve_candidate_as_revision).
THEOREM FiguresAreTraced == AnswerSpec => []FiguresTraceable
<1>1. IInv => FiguresTraceable
    BY Traceable DEF IInv, AnswerTypeOK
<1> QED
    BY <1>1, Invariance, PTL

\* The pages of a comparison are the pieces of one ranking, in whatever order
\* and over whatever later data they are asked for, and top_n leaves out only
\* what the rows it keeps outrank (execute_comparison, get_persisted_comparison).
THEOREM PagesOfOneRanking == AnswerSpec => []PagesAreOneRanking
<1>1. IInv => PagesAreOneRanking
    BY OneRanking DEF IInv, AnswerTypeOK
<1> QED
    BY <1>1, Invariance, PTL

\* A completed analysis answers its prompt: it has a row for an institution and a
\* period exactly if the prompt means both, by the quarters of time its wording and
\* the stored period cover, and the line it names had a figure there when the facts
\* or the calculations were read (normalize_request, execute_job,
\* get_analysis_result).
THEOREM AnalysesAnswer == AnswerSpec => []AnswersTheQuestion
<1>1. IInv => AnswersTheQuestion
    BY Answers
<1> QED
    BY <1>1, Invariance, PTL

==============================================================================
