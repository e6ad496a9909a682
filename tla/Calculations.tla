----------------------------- MODULE Calculations -----------------------------
(***************************************************************************)
(* CalculationService.run_calculation beside the reviews of the facts it   *)
(* reads.                                                                  *)
(*                                                                         *)
(* A run is one transaction.  It reads the fact of each role FOR UPDATE,   *)
(* role by role, checks that none is missing and that all have one basis   *)
(* and currency, locks the row of its request (by fingerprint, inserting   *)
(* it if need be), returns the calculation of the same inputs if there is  *)
(* one, and else commits a calculation and a completed attempt.  When      *)
(* anything raises, the transaction is rolled back and a second one locks  *)
(* the request again and records a failed attempt.                         *)
(*                                                                         *)
(* Two requests may ask for the same formula (the comparison period named  *)
(* in one and left to the policy in the other): they have two fingerprints *)
(* but one idempotency hash.  The hash stands for formula and inputs.      *)
(***************************************************************************)
EXTENDS FactReview, Functions

CONSTANTS
    Calculators,     \* concurrent runs
    Asks, NoAsk,     \* calculation requests, by fingerprint
    Formulas,
    FormulaOf,       \* of a request
    RolesOf,         \* a sequence of sets of keys for each formula, not empty
    Comparable,      \* of a set of keys: one basis, one currency
    MaxOpen,         \* bound: reviews and runs under way at a time
    MaxRuns          \* bound: runs started

ASSUME CalculationAssumption ==
    /\ Processes = Reviewers \cup Calculators
    /\ Reviewers \cap Calculators = {}
    /\ NoAsk \notin Asks
    /\ FormulaOf \in [Asks -> Formulas]
    /\ RolesOf \in [Formulas -> Seq(SUBSET Keys)]
    /\ \A formula \in Formulas : RolesOf[formula] # <<>>
    /\ Comparable \in [SUBSET Keys -> BOOLEAN]
    /\ MaxOpen \in Nat
    /\ MaxRuns \in Nat

VARIABLES
    calcs,      \* completed calculations in the order of their commits
    attempts,   \* calculation_attempts of each request
    reqlock,    \* who holds the row of a request
    \* a run
    run, ask,
    found,      \* the facts its statement found
    inputs,     \* the fact of each role read so far, 0 for none
    number,     \* attempt_number of this attempt
    runs

runVars == <<run, ask, found, inputs, number, runs>>
calcVars == <<calcs, attempts, reqlock, runVars>>
vars == <<factVars, calcVars>>

\* In a transaction, up to "reusing"; in the recovery block, after it.
RunStates == {"idle", "reading", "found", "requested", "reusing",
              "failing", "recording"}

Attempt == [number : Nat, status : {"COMPLETED", "FAILED"}]
Calculation == [formula : Formulas, inputs : Seq({0} \cup FactIds)]

TypeOK ==
    /\ FactTypeOK
    /\ calcs \in Seq(Calculation)
    /\ attempts \in [Asks -> Seq(Attempt)]
    /\ reqlock \in [Asks -> Calculators \cup {NoProcess}]
    /\ run \in [Calculators -> RunStates]
    /\ ask \in [Calculators -> Asks \cup {NoAsk}]
    /\ found \in [Calculators -> SUBSET FactIds]
    /\ inputs \in [Calculators -> Seq({0} \cup FactIds)]
    /\ number \in [Calculators -> Nat]
    /\ runs \in 0..MaxRuns

Init ==
    /\ FactInit
    /\ calcs = <<>>
    /\ attempts = [a \in Asks |-> <<>>]
    /\ reqlock = [a \in Asks |-> NoProcess]
    /\ run = [e \in Calculators |-> "idle"]
    /\ ask = [e \in Calculators |-> NoAsk]
    /\ found = [e \in Calculators |-> {}]
    /\ inputs = [e \in Calculators |-> <<>>]
    /\ number = [e \in Calculators |-> 0]
    /\ runs = 0

Roles(e) == RolesOf[FormulaOf[ask[e]]]

\* Nothing of the reviews changes except who holds which fact.
FactsKept == UNCHANGED <<committed, request, faults>>

Unlock(e) ==
    /\ FreeAll(e)
    /\ reqlock' = [a \in Asks |-> IF reqlock[a] = e THEN NoProcess
                                                   ELSE reqlock[a]]

Leave(e, state) ==
    /\ run' = [run EXCEPT ![e] = state]
    /\ ask' = [ask EXCEPT ![e] = IF state = "idle" THEN NoAsk ELSE @]
    /\ found' = [found EXCEPT ![e] = {}]
    /\ inputs' = [inputs EXCEPT ![e] = <<>>]
    /\ number' = [number EXCEPT ![e] = 0]
    /\ Unlock(e)
    /\ UNCHANGED runs

------------------------------------------------------------------------------
(* Reading the facts. *)

\* Formula, periods and annualization are resolved.
Start(e, a) ==
    /\ run[e] = "idle" /\ runs < MaxRuns
    /\ run' = [run EXCEPT ![e] = "reading"]
    /\ ask' = [ask EXCEPT ![e] = a]
    /\ runs' = runs + 1
    /\ FactsKept
    /\ UNCHANGED <<factlock, calcs, attempts, reqlock, found, inputs, number>>

\* The statement of the next role takes its snapshot ...
LookRole(e) ==
    /\ run[e] = "reading" /\ Len(inputs[e]) < Len(Roles(e))
    /\ found' = [found EXCEPT ![e] = Current(Roles(e)[Len(inputs[e]) + 1])]
    /\ run' = [run EXCEPT ![e] = "found"]
    /\ FactsKept
    /\ UNCHANGED <<factlock, calcs, attempts, reqlock, ask, inputs, number,
                   runs>>

\* ... and returns what it could lock and is still current, at most one row.
LockRole(e) ==
    LET left == Rechecked(found[e]) IN
    /\ run[e] = "found"
    /\ Cardinality(left) <= 1
    /\ LockRows(e, found[e])
    /\ inputs' = [inputs EXCEPT ![e] =
                     Append(@, IF left = {} THEN 0 ELSE CHOOSE f \in left : TRUE)]
    /\ found' = [found EXCEPT ![e] = {}]
    /\ run' = [run EXCEPT ![e] = "reading"]
    /\ FactsKept
    /\ UNCHANGED <<calcs, attempts, reqlock, ask, number, runs>>

\* scalar_one_or_none raises on more: facts of two bases, or of two metrics.
LockRoleAmbiguous(e) ==
    /\ run[e] = "found"
    /\ \A f \in found[e] : Free(f, e)
    /\ Cardinality(Rechecked(found[e])) > 1
    /\ Leave(e, "failing")
    /\ FactsKept /\ UNCHANGED <<calcs, attempts>>

AllRead(e) == run[e] = "reading" /\ Len(inputs[e]) = Len(Roles(e))

Usable(e) ==
    /\ 0 \notin Range(inputs[e])
    /\ Comparable[{facts[f].key : f \in Range(inputs[e])}]

\* INSUFFICIENT_INPUT_FACTS, REPORTING_BASIS_MISMATCH or CURRENCY_MISMATCH.
RefuseInputs(e) ==
    /\ AllRead(e) /\ ~Usable(e)
    /\ Leave(e, "failing")
    /\ FactsKept /\ UNCHANGED <<calcs, attempts>>

------------------------------------------------------------------------------
(* The request. *)

\* Deviation: the request is read without FOR UPDATE.
TakeRequestUnlocked(e, state) ==
    /\ reqlock' = [reqlock EXCEPT ![ask[e]] = e]
    /\ number' = [number EXCEPT ![e] = Len(attempts[ask[e]]) + 1]
    /\ run' = [run EXCEPT ![e] = state]

\* SELECT ... FOR UPDATE of the request, or its insert in a savepoint and, when
\* another transaction wins that, the SELECT again; the attempts it has are
\* counted under the lock.
TakeRequest(e, state) ==
    /\ reqlock[ask[e]] = NoProcess
    /\ reqlock' = [reqlock EXCEPT ![ask[e]] = e]
    /\ number' = [number EXCEPT ![e] = Len(attempts[ask[e]]) + 1]
    /\ run' = [run EXCEPT ![e] = state]

Computation(e) == [formula |-> FormulaOf[ask[e]], inputs |-> inputs[e]]

\* There is no completed calculation of the hash yet.
LockRequest(e) ==
    /\ AllRead(e) /\ Usable(e)
    /\ Computation(e) \notin Range(calcs)
    /\ TakeRequest(e, "requested")
    /\ FactsKept
    /\ UNCHANGED <<factlock, calcs, attempts, ask, found, inputs, runs>>

\* There is one ...
Reuse(e) ==
    /\ AllRead(e) /\ Usable(e)
    /\ Computation(e) \in Range(calcs)
    /\ TakeRequest(e, "reusing")
    /\ FactsKept
    /\ UNCHANGED <<factlock, calcs, attempts, ask, found, inputs, runs>>

\* ... and it is returned without a commit: the locks are kept until the caller
\* ends the transaction, a request when it closes its session and an analysis
\* with its own next commit.
Return(e) ==
    /\ run[e] = "reusing"
    /\ Leave(e, "idle")
    /\ FactsKept /\ UNCHANGED <<calcs, attempts>>

Record(e, status) ==
    attempts' = [attempts EXCEPT ![ask[e]] =
                    Append(@, [number |-> number[e], status |-> status])]

\* The unique index on the hash and the handler of its IntegrityError are left
\* out: CalculatedOnce shows that the locks leave them nothing to do.
Effects(e) ==
    /\ run[e] = "requested"
    /\ calcs' = Append(calcs, Computation(e))
    /\ Record(e, "COMPLETED")

Complete(e) ==
    /\ Effects(e)
    /\ Leave(e, "idle")
    /\ FactsKept

\* The commit takes effect and raises: the recovery block runs all the same.
CompleteUnacknowledged(e) ==
    /\ Effects(e)
    /\ Fault
    /\ Leave(e, "failing")
    /\ UNCHANGED <<committed, request>>

------------------------------------------------------------------------------
(* Failing. *)

\* Missing evidence, an arithmetic error, a failing statement.
Raise(e) ==
    /\ run[e] \in {"reading", "found", "requested", "reusing"}
    /\ Fault
    /\ Leave(e, "failing")
    /\ UNCHANGED <<committed, request, calcs, attempts>>

\* A run waits for the transactions that hold a row its statement found.
WaitsFor(e, d) == run[e] = "found" /\ \E f \in found[e] : factlock[f] = d

\* The database aborts one of the runs that wait for each other: each reads
\* its roles in an order of its own.
Victim(e) ==
    /\ \E S \in SUBSET Calculators :
          e \in S /\ \A d \in S : \E b \in S \ {d} : WaitsFor(d, b)
    /\ Leave(e, "failing")
    /\ FactsKept /\ UNCHANGED <<calcs, attempts>>

LockForFailure(e) ==
    /\ run[e] = "failing"
    /\ TakeRequest(e, "recording")
    /\ FactsKept
    /\ UNCHANGED <<factlock, calcs, attempts, ask, found, inputs, runs>>

RecordFailure(e) ==
    /\ run[e] = "recording"
    /\ Record(e, "FAILED")
    /\ Leave(e, "idle")
    /\ FactsKept /\ UNCHANGED calcs

\* CALCULATION_FAILURE_PERSISTENCE_FAILED, or the process dies.
GiveUp(e) ==
    /\ run[e] # "idle"
    /\ Fault
    /\ Leave(e, "idle")
    /\ UNCHANGED <<committed, request, calcs, attempts>>

\* What a run does of its own, once started.
RunStep(e) ==
    \/ LookRole(e) \/ LockRole(e) \/ LockRoleAmbiguous(e) \/ RefuseInputs(e)
    \/ LockRequest(e) \/ Complete(e) \/ Reuse(e) \/ Return(e)
    \/ Victim(e) \/ LockForFailure(e) \/ RecordFailure(e)

\* No further run is to be started.
Idle ==
    /\ runs = MaxRuns
    /\ \A e \in Calculators : run[e] = "idle"
    /\ UNCHANGED vars

Underway == Cardinality({r \in Reviewers : step[r] # "idle"})
            + Cardinality({e \in Calculators : run[e] # "idle"})

Next ==
    \/ FactNext /\ UNCHANGED calcVars /\ Underway' <= MaxOpen
    \/ \E e \in Calculators :
          \/ Underway < MaxOpen /\ \E a \in Asks : Start(e, a)
          \/ RunStep(e)
          \/ CompleteUnacknowledged(e) \/ Raise(e) \/ GiveUp(e)
    \/ Idle

Spec == Init /\ [][Next]_vars

------------------------------------------------------------------------------
(* Properties. *)

\* A calculation is committed from facts that are current at its commit and of
\* one basis and currency, one of the keys of each role, whatever is revised
\* while the run reads, waits and computes.
CalculatedStep ==
    Len(calcs') > Len(calcs) =>
        LET c == calcs'[Len(calcs')]
            used == Range(c.inputs)
        IN /\ Len(c.inputs) = Len(RolesOf[c.formula])
           /\ used \subseteq DOMAIN facts
           /\ \A f \in used : facts'[f].open
           /\ Comparable[{facts[f].key : f \in used}]
           /\ \A i \in DOMAIN c.inputs :
                  facts[c.inputs[i]].key \in RolesOf[c.formula][i]
InputsCurrentAtCommit == [][CalculatedStep]_vars

\* The calculations of a formula, and the attempts that record them.
CalculationsOf(formula) == {i \in DOMAIN calcs : calcs[i].formula = formula}
CompletedAttempts(formula) ==
    {x \in UNION {{a} \X DOMAIN attempts[a] : a \in Asks} :
        /\ FormulaOf[x[1]] = formula
        /\ attempts[x[1]][x[2]].status = "COMPLETED"}

\* The same inputs are calculated once, also when two requests with different
\* fingerprints ask for it at once, without a unique index on the hash: the
\* look-up of the hash is made under the locks of the facts.  Every calculation
\* has its completed attempt, and the attempts of a request are numbered
\* without a gap, although completed and failed ones are written by different
\* transactions of concurrent runs.
CalculatedOnce ==
    /\ \A a \in Asks : \A i \in DOMAIN attempts[a] : attempts[a][i].number = i
    /\ \A i, j \in DOMAIN calcs : calcs[i] = calcs[j] => i = j
    /\ \A formula \in Formulas :
          Cardinality(CalculationsOf(formula)) = Cardinality(CompletedAttempts(formula))

\* The transactions of reviews and runs, which wait for each other's rows and
\* read each other's commits in between, have the effects of operations on a
\* ledger that happen one at a time, each at its commit.
Entries ==
    [f \in DOMAIN facts |-> [key |-> facts[f].key, value |-> facts[f].value,
                             source |-> facts[f].source]]
InForce == [k \in Keys |-> CurrentOf(k)]
Ledger ==
    INSTANCE FactLedger WITH
        ledger <- Entries,
        inForce <- InForce,
        verdict <- review,
        basis <- decided
ImplementsLedger == Ledger!Spec

==============================================================================
