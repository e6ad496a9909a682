------------------------------- MODULE MCUploads -------------------------------
(* Three uploads, two of them with the same bytes, all of one filing.  The     *)
(* report has a table with a line twice, one that no metric is known for, and  *)
(* one more line than is read; the annex has text only.                        *)
EXTENDS FactExtraction, TLC

CONSTANTS s1, s2, s3, report, annex, bank, q1

MCContent == s1 :> report @@ s2 :> report @@ s3 :> annex
MCFiling == [s \in Sessions |-> <<bank, q1>>]

\* The bank again, in other letter case.
MCByHand == {<<bank, "other">>}

MCRow(l, f) == [label |-> l, figure |-> f]
MCChunks ==
    report :> <<[rows |-> <<>>, contains |-> {"x"}],
                [rows |-> <<MCRow("assets", "x"), MCRow("note", "y"),
                            MCRow("assets", "x"), MCRow("both", "y")>>,
                 contains |-> {"x", "y"}]>>
    @@ annex :> <<[rows |-> <<>>, contains |-> {"y"}]>>
MCAliases == {[l \in Labels |-> IF l = ambiguous THEN {"A", "B"} ELSE {}] :
                 ambiguous \in {"assets", "both"}}
MCDefinitions == [l \in Labels |-> IF l = "assets" THEN {"A"} ELSE {}]
MCReading == [f \in Figures |-> IF f = "x" THEN "clear" ELSE "ambiguous"]

MCReport(f, m, e, p) ==
    [label |-> "note", figure |-> f, metric |-> m, excerpt |-> e, period |-> p]
\* Nothing; a good report and one of the same figure as another metric; one of
\* the other period and one of a figure that is not there.
MCReplies == {<<>>, <<MCReport("y", "A", 1, "own"), MCReport("y", "C", 1, "none")>>,
              <<MCReport("y", "A", 1, "other"), MCReport("x", "A", 1, "none"),
                MCReport("y", "B", 1, "none"), MCReport("y", "A", 2, "own")>>}

Symmetry == Permutations(Requests) \cup Permutations({s1, s2})
================================================================================
