------------------------------- MODULE MCFigures -------------------------------
(* Loans of two quarters on the solo basis and of one on the consolidated:    *)
(* growth finds two facts for its current quarter once both are approved.     *)
(* Two candidates say the same of it: a reviewer may approve the first on     *)
(* either basis.  A third contradicts the first on the solo one.              *)
EXTENDS Calculations, TLC

CONSTANTS loans2, loans1, group2, c1, c2, c3, c4,
          implicit, explicit, opposed, growth, reverse, v1, v2

MCKeysOf == c1 :> {loans2, group2} @@ c2 :> {group2}
            @@ c3 :> {loans2} @@ c4 :> {loans1}
MCValueOf == c1 :> v1 @@ c2 :> v1 @@ c3 :> v2 @@ c4 :> v2
MCFormulaOf == implicit :> growth @@ explicit :> growth @@ opposed :> reverse
MCRolesOf == growth :> <<{loans2, group2}, {loans1}>>
             @@ reverse :> <<{loans1}, {loans2, group2}>>
MCComparable == [K \in SUBSET Keys |-> ~({group2, loans1} \subseteq K)]

\* The two requests for growth differ in nothing else.
Symmetry == Permutations(Reviewers) \cup Permutations(Calculators)
            \cup Permutations({implicit, explicit})
==============================================================================
