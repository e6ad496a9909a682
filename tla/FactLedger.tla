------------------------------ MODULE FactLedger ------------------------------
(***************************************************************************)
(* What review and calculation promise, without transactions, snapshots,   *)
(* row locks, indexes or attempts: a ledger of approved figures.  Each     *)
(* decision on a candidate is taken once and at once: it enters a figure,  *)
(* the first of its key or the successor of the one in force, or confirms  *)
(* the one in force, or rejects.  A calculation is made at once of figures *)
(* in force, and once.                                                     *)
(***************************************************************************)
EXTENDS Naturals, Sequences

CONSTANTS Keys, Candidates, KeysOf, ValueOf, Formulas, RolesOf, Comparable

VARIABLES
    ledger,     \* approved figures
    inForce,    \* of a key: the place of its figure in the ledger, 0 for none
    verdict,    \* on a candidate
    basis,      \* the place of the figure that a verdict rests on, 0 for none
    calcs       \* calculations in the order they were made

ledgerVars == <<ledger, inForce, verdict, basis, calcs>>

Init ==
    /\ ledger = <<>> /\ calcs = <<>>
    /\ inForce = [k \in Keys |-> 0]
    /\ verdict = [c \in Candidates |-> "PENDING"]
    /\ basis = [c \in Candidates |-> 0]

\* A candidate says of a key what the figure in force says.
Agrees(c, k) == inForce[k] # 0 /\ ledger[inForce[k]].value = ValueOf[c]

Approve(c, place) ==
    /\ verdict[c] = "PENDING"
    /\ verdict' = [verdict EXCEPT ![c] = "APPROVED"]
    /\ basis' = [basis EXCEPT ![c] = place]
    /\ UNCHANGED calcs

Enter(c, k) ==
    /\ Approve(c, Len(ledger) + 1)
    /\ ~Agrees(c, k)
    /\ ledger' = Append(ledger, [key |-> k, value |-> ValueOf[c], source |-> c])
    /\ inForce' = [inForce EXCEPT ![k] = Len(ledger) + 1]

Confirm(c, k) ==
    /\ Approve(c, inForce[k])
    /\ Agrees(c, k)
    /\ UNCHANGED <<ledger, inForce>>

Reject(c) ==
    /\ verdict[c] = "PENDING"
    /\ verdict' = [verdict EXCEPT ![c] = "REJECTED"]
    /\ UNCHANGED <<ledger, inForce, basis, calcs>>

\* Each role has a figure in force, and they can be compared with each other.
Calculate(formula, inputs) ==
    LET calculation == [formula |-> formula, inputs |-> inputs] IN
    /\ calcs' = Append(calcs, calculation)
    /\ \A n \in DOMAIN calcs : calcs[n] # calculation
    /\ \A i \in DOMAIN RolesOf[formula] :
           /\ inputs[i] # 0
           /\ \E k \in RolesOf[formula][i] : inputs[i] = inForce[k]
    /\ Comparable[{ledger[inputs[i]].key : i \in DOMAIN RolesOf[formula]}]
    /\ UNCHANGED <<ledger, inForce, verdict, basis>>

Next ==
    \/ \E c \in Candidates :
          Reject(c) \/ \E k \in KeysOf[c] : Enter(c, k) \/ Confirm(c, k)
    \/ \E formula \in Formulas :
          \E inputs \in [DOMAIN RolesOf[formula] -> DOMAIN ledger] :
              Calculate(formula, inputs)

Spec == Init /\ [][Next]_ledgerVars

==============================================================================
