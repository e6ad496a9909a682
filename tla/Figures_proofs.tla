---------------------------- MODULE Figures_proofs ----------------------------
(* What decisions and calculations rest on, and the line of revisions of a   *)
(* fact, for any number of reviewers, calculations, candidates and formulas. *)
EXTENDS Calculations, FiniteSetTheorems, SequenceTheorems, TLAPS

(* A current fact of a key that a process has locked.                        *)
Held(p, f, k) ==
    /\ f \in DOMAIN facts
    /\ facts[f].open
    /\ facts[f].key = k
    /\ factlock[f] = p

(* What a review may rely on at each point.                                  *)
Reviewing(r) ==
    /\ step[r] # "idle" =>
           subject[r] \in Candidates /\ natural[r] \in KeysOf[subject[r]]
    /\ step[r] = "looked" /\ seen[r] # 0 =>
           seen[r] \in DOMAIN facts /\ facts[seen[r]].key = natural[r]
    /\ step[r] \in {"locked", "inserted"} /\ held[r] # 0 =>
           Held(r, held[r], natural[r])
    /\ step[r] = "inserted" /\ held[r] # 0 =>
           facts[held[r]].value # ValueOf[subject[r]]
    /\ step[r] = "inserted" => Current({natural[r]}) \subseteq {held[r]}

(* The unique index on current facts holds back a second insert of a key.    *)
OneInsert ==
    \A q, r \in Reviewers :
        q # r /\ step[q] = "inserted" /\ step[r] = "inserted" =>
            natural[q] # natural[r]

(* What a run may rely on: the facts it has read are locked.                 *)
Read(e, i) ==
    inputs[e][i] # 0 =>
        \E k \in Roles(e)[i] : Held(e, inputs[e][i], k)
Reading(e) ==
    /\ run[e] # "idle" => ask[e] \in Asks
    /\ run[e] \in {"idle", "failing", "recording"} => inputs[e] = <<>>
    /\ run[e] \in {"reading", "found", "requested"} =>
           /\ Len(inputs[e]) <= Len(Roles(e))
           /\ \A i \in 1..Len(inputs[e]) : Read(e, i)
    /\ run[e] = "found" =>
           /\ Len(inputs[e]) < Len(Roles(e))
           /\ \A f \in found[e] :
                  /\ f \in DOMAIN facts
                  /\ facts[f].key \in Roles(e)[Len(inputs[e]) + 1]
    /\ run[e] = "requested" => Len(inputs[e]) = Len(Roles(e)) /\ Usable(e)

(* The facts of a key are one line.                                          *)
Line ==
    /\ \A f, g \in DOMAIN facts :
           facts[f].key = facts[g].key /\ facts[f].open /\ facts[g].open => f = g
    /\ \A f \in DOMAIN facts : facts[f].supersedes < f
    /\ \A f \in DOMAIN facts : facts[f].open <=> Successors(f) = {}
    /\ \A f \in DOMAIN facts : \A g, h \in Successors(f) : g = h
    /\ \A f \in DOMAIN facts : \A g \in Successors(f) :
           facts[g].key = facts[f].key /\ facts[g].value # facts[f].value

(* There is room for the fact of each review under way.                      *)
Busy == {r \in Reviewers : step[r] # "idle"}
Room == Len(facts) + Cardinality(Busy) <= MaxFacts

Reviews == (\A r \in Reviewers : Reviewing(r)) /\ OneInsert
Readings == \A e \in Calculators : Reading(e)

IInv == TypeOK /\ Room /\ Reviews /\ Readings /\ Line

RunMove(e) ==
    \/ \E a \in Asks : Start(e, a)
    \/ RunStep(e)
    \/ CompleteUnacknowledged(e) \/ Raise(e) \/ GiveUp(e)

LEMMA NextSplits ==
    ASSUME [Next]_vars
    PROVE  \/ \E r \in Reviewers : ReviewStep(r) /\ UNCHANGED calcVars
           \/ \E c \in Candidates : Reject(c) /\ UNCHANGED calcVars
           \/ \E e \in Calculators : RunMove(e)
           \/ UNCHANGED vars
  BY Zenon DEF Next, FactNext, RunMove, Idle

-----------------------------------------------------------------------------
(* Constants and facts.                                                      *)

LEMMA Constants ==
    /\ Reviewers \subseteq Processes /\ Calculators \subseteq Processes
    /\ NoProcess \notin Processes /\ NoCandidate \notin Candidates
    /\ Reviewers \cap Calculators = {}
    /\ KeysOf \in [Candidates -> SUBSET Keys] /\ ValueOf \in [Candidates -> Values]
    /\ RolesOf \in [Formulas -> Seq(SUBSET Keys)] /\ FormulaOf \in [Asks -> Formulas]
    /\ MaxFacts \in Nat /\ MaxFaults \in Nat /\ MaxRuns \in Nat
    /\ IsFiniteSet(Reviewers)
<1>1. IsFiniteSet(Processes) /\ Reviewers \subseteq Processes
  BY FactAssumption DEF FactAssumption
<1>2. IsFiniteSet(Reviewers)
  BY <1>1, FS_Subset
<1> QED
  BY <1>2, FactAssumption, CalculationAssumption
     DEF FactAssumption, CalculationAssumption

LEMMA FactsTyped ==
    ASSUME FactTypeOK
    PROVE  /\ Len(facts) \in Nat /\ DOMAIN facts = 1..Len(facts)
           /\ DOMAIN facts \subseteq FactIds
           /\ \A f \in DOMAIN facts : facts[f] \in Fact
<1>1. facts \in Seq(Fact) /\ Len(facts) <= MaxFacts
  BY DEF FactTypeOK
<1>2. Len(facts) \in Nat /\ DOMAIN facts = 1..Len(facts) /\ facts \in [1..Len(facts) -> Fact]
  BY <1>1, LenProperties
<1>3. DOMAIN facts \subseteq FactIds
  BY <1>1, <1>2, Constants DEF FactIds
<1> QED
  BY <1>2, <1>3

LEMMA CurrentIsId ==
    ASSUME FactTypeOK, NEW k
    PROVE  /\ CurrentOf(k) \in {0} \cup FactIds
           /\ CurrentOf(k) # 0 =>
                  CurrentOf(k) \in DOMAIN facts /\ facts[CurrentOf(k)].key = k
<1>1. CASE Current({k}) = {}
  BY <1>1 DEF CurrentOf
<1>2. CASE Current({k}) # {}
  <2>1. CurrentOf(k) \in Current({k})
    BY <1>2 DEF CurrentOf
  <2> QED
    BY <2>1, FactsTyped DEF Current
<1> QED
  BY <1>1, <1>2

(* The commit of a review that inserts.                                      *)
LEMMA Committed ==
    ASSUME FactTypeOK, NEW r \in Reviewers, CommitFact(r), subject[r] \in Candidates,
           natural[r] \in KeysOf[subject[r]]
    PROVE  /\ facts' \in Seq(Fact)
           /\ Len(facts') = Len(facts) + 1
           /\ DOMAIN facts' = DOMAIN facts \cup {Len(facts) + 1}
           /\ facts'[Len(facts) + 1] = NewFact(r)
           /\ \A f \in DOMAIN facts :
                  /\ facts'[f].key = facts[f].key
                  /\ facts'[f].value = facts[f].value
                  /\ facts'[f].source = facts[f].source
                  /\ facts'[f].supersedes = facts[f].supersedes
                  /\ facts'[f].open <=> facts[f].open /\ f # held[r]
<1> DEFINE S == Superseded(r)
           n == Len(facts)
<1>1. n \in Nat /\ DOMAIN facts = 1..n /\ \A f \in 1..n : facts[f] \in Fact
  BY FactsTyped
<1>2. NewFact(r) \in Fact
  <2>1. natural[r] \in Keys /\ ValueOf[subject[r]] \in Values
    BY Constants
  <2>2. held[r] \in {0} \cup FactIds
    BY DEF FactTypeOK
  <2> QED
    BY <2>1, <2>2 DEF NewFact, Fact
<1>3. \A f \in 1..n : [facts[f] EXCEPT !.open = FALSE] \in Fact
  BY <1>1 DEF Fact
<1>4. S \in [1..n -> Fact]
  BY <1>1, <1>3 DEF Superseded
<1>5. S \in Seq(Fact) /\ Len(S) = n
  BY <1>1, <1>4
<1>6. facts' = Append(S, NewFact(r))
  BY DEF CommitFact
<1>7. /\ facts' \in Seq(Fact) /\ Len(facts') = n + 1
      /\ \A i \in 1..n : facts'[i] = S[i]
      /\ facts'[n + 1] = NewFact(r)
  BY <1>2, <1>5, <1>6, AppendProperties
<1>8. DOMAIN facts' = 1..(n + 1)
  BY <1>7, LenProperties
<1>9. ASSUME NEW f \in 1..n
      PROVE  /\ S[f].key = facts[f].key
             /\ S[f].value = facts[f].value
             /\ S[f].source = facts[f].source
             /\ S[f].supersedes = facts[f].supersedes
             /\ S[f].open <=> facts[f].open /\ f # held[r]
  <2>1. CASE f = held[r]
    <3>1. S[f] = [facts[f] EXCEPT !.open = FALSE]
      BY <1>1, <2>1 DEF Superseded
    <3> QED
      BY <1>1, <2>1, <3>1 DEF Fact
  <2>2. CASE f # held[r]
    BY <1>1, <2>2 DEF Superseded
  <2> QED
    BY <2>1, <2>2
<1> QED
  BY <1>1, <1>7, <1>8, <1>9

-----------------------------------------------------------------------------
(* Type correctness.                                                         *)

LEMMA FaultTypes == faults \in 0..MaxFaults /\ Fault => faults' \in 0..MaxFaults
  BY Constants DEF Fault

LEMMA FreeAllTypes ==
    ASSUME FactTypeOK, NEW p, FreeAll(p)
    PROVE  factlock' \in [FactIds -> Processes \cup {NoProcess}]
  BY DEF FactTypeOK, FreeAll

LEMMA LockRowsTypes ==
    ASSUME FactTypeOK, NEW p \in Processes, NEW S, LockRows(p, S)
    PROVE  factlock' \in [FactIds -> Processes \cup {NoProcess}]
  BY DEF FactTypeOK, LockRows

CloseTypesOf ==
    /\ factlock' \in [FactIds -> Processes \cup {NoProcess}]
    /\ step' \in [Reviewers -> Steps]
    /\ subject' \in [Reviewers -> Candidates \cup {NoCandidate}]
    /\ natural' \in [Reviewers -> Keys \cup {NoKey}]
    /\ target' \in [Reviewers -> {0} \cup FactIds]
    /\ seen' \in [Reviewers -> {0} \cup FactIds]
    /\ held' \in [Reviewers -> {0} \cup FactIds]

LEMMA CloseTypes ==
    ASSUME FactTypeOK, NEW r \in Reviewers, Close(r)
    PROVE  CloseTypesOf
<1>1. factlock' \in [FactIds -> Processes \cup {NoProcess}]
  BY FreeAllTypes DEF Close
<1> QED
  BY <1>1 DEF FactTypeOK, Close, Steps, CloseTypesOf

LEMMA ReviewTypes ==
    ASSUME FactTypeOK, Room, \A r \in Reviewers : Reviewing(r),
           NEW r \in Reviewers, ReviewStep(r)
    PROVE  FactTypeOK'
<1> USE DEF committed, request
<1>1. ASSUME NEW c \in Candidates, NEW k, NEW e \in {0} \cup FactIds,
             NEW f \in {0} \cup FactIds, Look(r, c, k, e, f)
      PROVE  FactTypeOK'
  <2>1. k \in Keys
    BY <1>1, Constants DEF Look
  <2> QED
    BY <1>1, <2>1 DEF FactTypeOK, Look, Steps
<1>2. ASSUME NEW c \in Candidates, Approve(r, c) PROVE FactTypeOK'
  <2>1. PICK k \in KeysOf[c] : Look(r, c, k, 0, CurrentOf(k))
    BY <1>2 DEF Approve
  <2> QED
    BY <1>1, <2>1, CurrentIsId
<1>3. ASSUME NEW c \in Candidates, NEW f \in DOMAIN facts, Revise(r, c, f)
      PROVE  FactTypeOK'
  BY <1>1, <1>3, FactsTyped DEF Revise
<1>4. CASE LockFact(r)
  <2>1. factlock' \in [FactIds -> Processes \cup {NoProcess}]
    BY <1>4, LockRowsTypes, Constants DEF LockFact
  <2> QED
    BY <1>4, <2>1 DEF FactTypeOK, LockFact, Steps
<1>5. CASE Corroborate(r)
  <2>1. CloseTypesOf
    BY <1>5, CloseTypes DEF Corroborate
  <2>2. review' \in [Candidates -> {"PENDING", "APPROVED", "REJECTED"}]
    BY <1>5 DEF FactTypeOK, Corroborate
  <2>3. decided' \in [Candidates -> {0} \cup FactIds]
    BY <1>5 DEF FactTypeOK, Corroborate
  <2> QED
    BY <1>5, <2>1, <2>2, <2>3 DEF FactTypeOK, Corroborate, CloseTypesOf
<1>6. CASE RecordConflict(r)
  <2>1. CloseTypesOf
    BY <1>6, CloseTypes DEF RecordConflict
  <2>2. conflict' \in [Candidates -> {0} \cup FactIds]
    BY <1>6 DEF FactTypeOK, RecordConflict
  <2> QED
    BY <1>6, <2>1, <2>2 DEF FactTypeOK, RecordConflict, CloseTypesOf
<1>7. CASE RefuseRevision(r) \/ InsertRefused(r)
  <2>1. CloseTypesOf
    BY <1>7, CloseTypes DEF RefuseRevision, InsertRefused
  <2> QED
    BY <1>7, <2>1 DEF FactTypeOK, RefuseRevision, InsertRefused, CloseTypesOf
<1>8. CASE Insert(r)
  BY <1>8 DEF FactTypeOK, Insert, Steps
<1>9. CASE CommitFact(r)
  <2>1. CloseTypesOf
    BY <1>9, CloseTypes DEF CommitFact
  <2>2. step[r] # "idle" /\ subject[r] \in Candidates /\ natural[r] \in KeysOf[subject[r]]
    BY <1>9 DEF CommitFact, Reviewing
  <2>3. facts' \in Seq(Fact) /\ Len(facts') = Len(facts) + 1
    BY <1>9, <2>2, Committed
  <2>4. Cardinality(Busy) \in Nat /\ Cardinality(Busy) # 0
    <3>1. Busy \subseteq Reviewers /\ r \in Busy /\ IsFiniteSet(Reviewers)
      BY <2>2, Constants DEF Busy
    <3>2. IsFiniteSet(Busy)
      BY <3>1, FS_Subset
    <3> QED
      BY <3>1, <3>2, FS_EmptySet, FS_CardinalityType
  <2>5. Len(facts) \in Nat
    BY FactsTyped
  <2>6. Len(facts') <= MaxFacts /\ Len(facts) + 1 \in FactIds
    BY <2>3, <2>4, <2>5, Constants DEF Room, FactIds
  <2>7. review' \in [Candidates -> {"PENDING", "APPROVED", "REJECTED"}]
    BY <1>9 DEF FactTypeOK, CommitFact
  <2>8. decided' \in [Candidates -> {0} \cup FactIds]
    BY <1>9, <2>6 DEF FactTypeOK, CommitFact
  <2> QED
    BY <1>9, <2>1, <2>3, <2>6, <2>7, <2>8 DEF FactTypeOK, CommitFact, CloseTypesOf
<1>10. CASE AbortReview(r)
  <2>1. CloseTypesOf
    BY <1>10, CloseTypes DEF AbortReview
  <2>2. faults' \in 0..MaxFaults
    BY <1>10, FaultTypes DEF FactTypeOK, AbortReview
  <2> QED
    BY <1>10, <2>1, <2>2 DEF FactTypeOK, AbortReview, CloseTypesOf
<1> QED
  BY <1>2, <1>3, <1>4, <1>5, <1>6, <1>7, <1>8, <1>9, <1>10
     DEF ReviewStep, DecideReview

LEMMA LeaveTypes ==
    ASSUME TypeOK, NEW e \in Calculators, NEW state \in RunStates, Leave(e, state)
    PROVE  /\ factlock' \in [FactIds -> Processes \cup {NoProcess}]
           /\ reqlock' \in [Asks -> Calculators \cup {NoProcess}]
           /\ run' \in [Calculators -> RunStates]
           /\ ask' \in [Calculators -> Asks \cup {NoAsk}]
           /\ found' \in [Calculators -> SUBSET FactIds]
           /\ inputs' \in [Calculators -> Seq({0} \cup FactIds)]
           /\ number' \in [Calculators -> Nat]
           /\ runs' = runs
<1>1. factlock' \in [FactIds -> Processes \cup {NoProcess}]
  BY FreeAllTypes DEF TypeOK, Leave, Unlock
<1>2. inputs' \in [Calculators -> Seq({0} \cup FactIds)]
  BY DEF TypeOK, Leave
<1>3. ask' \in [Calculators -> Asks \cup {NoAsk}]
  BY DEF TypeOK, Leave
<1>4. found' \in [Calculators -> SUBSET FactIds]
  BY DEF TypeOK, Leave
<1>5. reqlock' \in [Asks -> Calculators \cup {NoProcess}]
  BY DEF TypeOK, Leave, Unlock
<1>6. run' \in [Calculators -> RunStates]
  BY DEF TypeOK, Leave
<1>7. number' \in [Calculators -> Nat]
  BY DEF TypeOK, Leave
<1>8. runs' = runs
  BY DEF Leave
<1> QED
  BY <1>1, <1>2, <1>3, <1>4, <1>5, <1>6, <1>7, <1>8

LEMMA RecordTypes ==
    ASSUME TypeOK, NEW e \in Calculators, NEW s \in {"COMPLETED", "FAILED"}, Record(e, s)
    PROVE  attempts' \in [Asks -> Seq(Attempt)]
<1>1. [number |-> number[e], status |-> s] \in Attempt
  BY DEF TypeOK, Attempt
<1>2. CASE ask[e] \in Asks
  BY <1>1, <1>2 DEF TypeOK, Record
<1>3. CASE ask[e] \notin Asks
  BY <1>3 DEF TypeOK, Record
<1> QED
  BY <1>2, <1>3

LEMMA TakeTypes ==
    ASSUME TypeOK, NEW e \in Calculators, NEW state \in RunStates, ask[e] \in Asks,
           TakeRequest(e, state)
    PROVE  /\ reqlock' \in [Asks -> Calculators \cup {NoProcess}]
           /\ run' \in [Calculators -> RunStates]
           /\ number' \in [Calculators -> Nat]
<1>1. attempts[ask[e]] \in Seq(Attempt)
  BY DEF TypeOK
<1>2. Len(attempts[ask[e]]) + 1 \in Nat
  BY <1>1
<1> QED
  BY <1>2 DEF TypeOK, TakeRequest

LEMMA CurrentIsSet == ASSUME FactTypeOK, NEW K PROVE Current(K) \subseteq FactIds
  BY FactsTyped DEF Current

LEMMA RunTypes ==
    ASSUME TypeOK, Readings, NEW e \in Calculators, RunMove(e)
    PROVE  TypeOK'
<1> USE DEF committed, request, FactsKept, runVars
<1>0. /\ e \in Processes
      /\ run[e] # "idle" => ask[e] \in Asks
  BY Constants DEF Readings, Reading
<1>1. ASSUME NEW a \in Asks, Start(e, a) PROVE TypeOK'
  <2>1. runs' \in 0..MaxRuns
    BY <1>1, Constants DEF TypeOK, Start
  <2> QED
    BY <1>1, <2>1 DEF TypeOK, FactTypeOK, Start, RunStates
<1>2. CASE LookRole(e)
  <2>1. Current(Roles(e)[Len(inputs[e]) + 1]) \subseteq FactIds
    BY CurrentIsSet DEF TypeOK
  <2>2. found' \in [Calculators -> SUBSET FactIds]
    BY <1>2, <2>1 DEF TypeOK, LookRole
  <2> QED
    BY <1>2, <2>2 DEF TypeOK, FactTypeOK, LookRole, RunStates
<1>3. CASE LockRole(e)
  <2>1. factlock' \in [FactIds -> Processes \cup {NoProcess}]
    BY <1>0, <1>3, LockRowsTypes DEF LockRole, TypeOK
  <2>2. PICK x \in {0} \cup FactIds : inputs' = [inputs EXCEPT ![e] = Append(@, x)]
    <3> DEFINE left == Rechecked(found[e])
               x == IF left = {} THEN 0 ELSE CHOOSE f \in left : TRUE
    <3>1. left \subseteq FactIds
      BY DEF Rechecked, TypeOK
    <3>2. x \in {0} \cup FactIds
      BY <3>1
    <3>3. inputs' = [inputs EXCEPT ![e] = Append(@, x)]
      BY <1>3 DEF LockRole
    <3> QED
      BY <3>2, <3>3
  <2>3. inputs' \in [Calculators -> Seq({0} \cup FactIds)]
    BY <2>2 DEF TypeOK
  <2>4. found' \in [Calculators -> SUBSET FactIds] /\ run' \in [Calculators -> RunStates]
    BY <1>3 DEF TypeOK, LockRole, RunStates
  <2> QED
    BY <1>3, <2>1, <2>3, <2>4 DEF TypeOK, FactTypeOK, LockRole
<1>4. CASE LockRoleAmbiguous(e) \/ RefuseInputs(e) \/ Return(e) \/ Victim(e)
  <2>1. PICK state \in RunStates : Leave(e, state)
    BY <1>4 DEF LockRoleAmbiguous, RefuseInputs, Return, Victim, RunStates
  <2>2. FactsKept /\ UNCHANGED <<calcs, attempts>>
    BY <1>4 DEF LockRoleAmbiguous, RefuseInputs, Return, Victim
  <2> QED
    BY <2>1, <2>2, LeaveTypes DEF TypeOK, FactTypeOK
<1>5. CASE LockRequest(e) \/ Reuse(e) \/ LockForFailure(e)
  <2>1. PICK state \in RunStates : TakeRequest(e, state)
    BY <1>5 DEF LockRequest, Reuse, LockForFailure, RunStates
  <2>2. FactsKept /\ UNCHANGED <<factlock, calcs, attempts, ask, found, inputs, runs>>
    BY <1>5 DEF LockRequest, Reuse, LockForFailure
  <2>3. ask[e] \in Asks
    BY <1>0, <1>5 DEF LockRequest, Reuse, LockForFailure, AllRead
  <2> QED
    BY <2>1, <2>2, <2>3, TakeTypes DEF TypeOK, FactTypeOK
<1>6. CASE Complete(e) \/ CompleteUnacknowledged(e)
  <2>1. PICK state \in RunStates : Leave(e, state)
    BY <1>6 DEF Complete, CompleteUnacknowledged, RunStates
  <2>2. Effects(e) /\ UNCHANGED <<committed, request>>
    BY <1>6 DEF Complete, CompleteUnacknowledged
  <2>3. faults' \in 0..MaxFaults
    BY <1>6, FaultTypes DEF Complete, CompleteUnacknowledged, TypeOK, FactTypeOK
  <2>4. attempts' \in [Asks -> Seq(Attempt)]
    BY <2>2, RecordTypes DEF Effects
  <2>5. Computation(e) \in Calculation
    <3>1. ask[e] \in Asks
      BY <1>0, <2>2 DEF Effects
    <3>2. FormulaOf[ask[e]] \in Formulas
      BY <3>1, Constants
    <3>3. inputs[e] \in Seq({0} \cup FactIds)
      BY DEF TypeOK
    <3> QED
      BY <3>2, <3>3 DEF Computation, Calculation
  <2>6. calcs' \in Seq(Calculation)
    <3>1. calcs \in Seq(Calculation) /\ calcs' = Append(calcs, Computation(e))
      BY <2>2 DEF Effects, TypeOK
    <3> QED
      BY <2>5, <3>1, AppendProperties
  <2> QED
    BY <2>1, <2>2, <2>3, <2>4, <2>6, LeaveTypes DEF TypeOK, FactTypeOK
<1>7. CASE RecordFailure(e)
  <2>1. attempts' \in [Asks -> Seq(Attempt)]
    BY <1>7, RecordTypes DEF RecordFailure
  <2>2. Leave(e, "idle") /\ "idle" \in RunStates /\ FactsKept /\ UNCHANGED calcs
    BY <1>7 DEF RecordFailure, RunStates
  <2> QED
    BY <2>1, <2>2, LeaveTypes DEF TypeOK, FactTypeOK
<1>8. CASE Raise(e) \/ GiveUp(e)
  <2>1. PICK state \in RunStates : Leave(e, state)
    BY <1>8 DEF Raise, GiveUp, RunStates
  <2>2. UNCHANGED <<committed, request, calcs, attempts>>
    BY <1>8 DEF Raise, GiveUp
  <2>3. faults' \in 0..MaxFaults
    BY <1>8, FaultTypes DEF Raise, GiveUp, TypeOK, FactTypeOK
  <2> QED
    BY <2>1, <2>2, <2>3, LeaveTypes DEF TypeOK, FactTypeOK
<1> QED
  BY <1>1, <1>2, <1>3, <1>4, <1>5, <1>6, <1>7, <1>8 DEF RunMove, RunStep

LEMMA TypeStep == IInv /\ [Next]_vars => TypeOK'
<1> SUFFICES ASSUME IInv, [Next]_vars PROVE TypeOK'
  OBVIOUS
<1>1. ASSUME FactTypeOK', UNCHANGED calcVars PROVE TypeOK'
  BY <1>1 DEF IInv, TypeOK, calcVars, runVars
<1>2. ASSUME NEW r \in Reviewers, ReviewStep(r), UNCHANGED calcVars PROVE TypeOK'
  BY <1>1, <1>2, ReviewTypes DEF IInv, TypeOK, Reviews
<1>3. ASSUME NEW c \in Candidates, Reject(c), UNCHANGED calcVars PROVE TypeOK'
  <2>1. FactTypeOK'
    BY <1>3 DEF IInv, TypeOK, FactTypeOK, Reject, request
  <2> QED
    BY <1>1, <1>3, <2>1
<1>4. ASSUME NEW e \in Calculators, RunMove(e) PROVE TypeOK'
  BY <1>4, RunTypes DEF IInv
<1>5. CASE UNCHANGED vars
  <2>1. FactTypeOK'
    BY <1>5 DEF IInv, TypeOK, FactTypeOK, vars, factVars, committed, request
  <2> QED
    BY <1>1, <1>5, <2>1 DEF vars
<1> QED
  BY <1>2, <1>3, <1>4, <1>5, NextSplits

-----------------------------------------------------------------------------
(* The room for facts.                                                       *)

LEMMA BusyCounts ==
    /\ IsFiniteSet(Busy) /\ Cardinality(Busy) \in Nat
    /\ \A r \in Reviewers :
           /\ r \in Busy => Cardinality(Busy \ {r}) = Cardinality(Busy) - 1
           /\ r \notin Busy => Cardinality(Busy \cup {r}) = Cardinality(Busy) + 1
<1>1. Busy \subseteq Reviewers /\ IsFiniteSet(Reviewers)
  BY Constants DEF Busy
<1>2. IsFiniteSet(Busy)
  BY <1>1, FS_Subset
<1> QED
  BY <1>2, FS_CardinalityType, FS_AddElement, FS_RemoveElement

LEMMA RoomStep == IInv /\ [Next]_vars => Room'
<1> SUFFICES ASSUME IInv, [Next]_vars PROVE Room'
  OBVIOUS
<1>0. /\ Len(facts) \in Nat /\ MaxFacts \in Nat
      /\ Len(facts) + Cardinality(Busy) <= MaxFacts
  BY FactsTyped, Constants DEF IInv, TypeOK, Room
<1>1. ASSUME NEW r \in Reviewers, Close(r), step[r] # "idle",
             Len(facts') \in {Len(facts), Len(facts) + 1}
      PROVE  Room'
  <2>1. Busy' = Busy \ {r} /\ r \in Busy
    BY <1>1 DEF IInv, TypeOK, FactTypeOK, Close, Busy
  <2>2. Cardinality(Busy') = Cardinality(Busy) - 1
    BY <2>1, BusyCounts
  <2> QED
    BY <1>0, <1>1, <2>2, BusyCounts DEF Room
<1>2. ASSUME NEW r \in Reviewers, NEW c \in Candidates, NEW k, NEW x, NEW y,
             Look(r, c, k, x, y)
      PROVE  Room'
  <2>1. Busy' = Busy \cup {r} /\ r \notin Busy
    BY <1>2 DEF IInv, TypeOK, FactTypeOK, Look, Busy
  <2>2. Cardinality(Busy') = Cardinality(Busy) + 1
    BY <2>1, BusyCounts
  <2>3. Len(facts) + Cardinality(Busy) < MaxFacts /\ facts' = facts
    BY <1>2 DEF Look, Busy, committed
  <2> QED
    BY <1>0, <2>2, <2>3, BusyCounts DEF Room
<1>3. ASSUME UNCHANGED facts, \A q \in Reviewers : step'[q] = "idle" <=> step[q] = "idle"
      PROVE  Room'
  <2>1. Busy' = Busy
    BY <1>3 DEF Busy
  <2> QED
    BY <1>0, <1>3, <2>1 DEF Room
<1>4. ASSUME NEW r \in Reviewers, ReviewStep(r) PROVE Room'
  <2>1. ASSUME NEW c \in Candidates,
               Approve(r, c) \/ \E f \in DOMAIN facts : Revise(r, c, f)
        PROVE  Room'
    BY <1>2, <2>1 DEF Approve, Revise
  <2>2. CASE LockFact(r) \/ Insert(r)
    <3>1. facts' = facts /\ step[r] # "idle"
      BY <2>2 DEF LockFact, Insert, Inserts, committed
    <3>2. \A q \in Reviewers : step'[q] = "idle" <=> step[q] = "idle"
      BY <2>2 DEF LockFact, Insert, Inserts, IInv, TypeOK, FactTypeOK
    <3> QED
      BY <1>3, <3>1, <3>2
  <2>3. CASE Corroborate(r) \/ RecordConflict(r) \/ RefuseRevision(r)
             \/ InsertRefused(r) \/ AbortReview(r)
    <3>1. facts' = facts /\ step[r] # "idle" /\ Close(r)
      BY <2>3 DEF Corroborate, RecordConflict, RefuseRevision, InsertRefused,
                  Inserts, AbortReview, committed
    <3> QED
      BY <1>1, <3>1
  <2>4. CASE CommitFact(r)
    <3>1. /\ step[r] # "idle" /\ Close(r) /\ subject[r] \in Candidates
          /\ natural[r] \in KeysOf[subject[r]]
      BY <2>4 DEF CommitFact, IInv, Reviews, Reviewing
    <3>2. Len(facts') = Len(facts) + 1
      BY <2>4, <3>1, Committed DEF IInv, TypeOK
    <3> QED
      BY <1>1, <3>1, <3>2
  <2> QED
    BY <1>4, <2>1, <2>2, <2>3, <2>4 DEF ReviewStep, DecideReview
<1>5. ASSUME NEW c \in Candidates, Reject(c) PROVE Room'
  BY <1>3, <1>5 DEF Reject, request
<1>6. ASSUME NEW e \in Calculators, RunMove(e) PROVE Room'
  BY <1>3, <1>6
     DEF RunMove, RunStep, Start, LookRole, LockRole, LockRoleAmbiguous,
         RefuseInputs, LockRequest, Reuse, Return, Complete, Victim,
         LockForFailure, RecordFailure, CompleteUnacknowledged, Raise, GiveUp, FactsKept,
         committed, request
<1>7. CASE UNCHANGED vars
  BY <1>3, <1>7 DEF vars, factVars, committed, request
<1> QED
  BY <1>4, <1>5, <1>6, <1>7, NextSplits

-----------------------------------------------------------------------------
(* Who holds which fact.                                                     *)

(* What a step of p leaves to the others: their locks, the keys and values   *)
(* of all facts, and every current fact that p has not locked.               *)
Frame(p) ==
    /\ \A f \in FactIds, q \in Processes :
           q # p /\ factlock[f] = q => factlock'[f] = q
    /\ \A f \in DOMAIN facts :
           /\ f \in DOMAIN facts'
           /\ facts'[f].key = facts[f].key
           /\ facts'[f].value = facts[f].value
           /\ facts[f].open /\ factlock[f] # p => facts'[f].open

LEMMA FreeAllFrames ==
    ASSUME FactTypeOK, NEW p, FreeAll(p), UNCHANGED facts
    PROVE  Frame(p)
  BY DEF FactTypeOK, FreeAll, Frame

LEMMA LockRowsFrames ==
    ASSUME FactTypeOK, NEW p, NEW S, LockRows(p, S), UNCHANGED facts
    PROVE  Frame(p)
  BY Constants DEF FactTypeOK, LockRows, Free, Frame

LEMMA HeldKept ==
    ASSUME FactTypeOK, NEW p, Frame(p), NEW q \in Processes, q # p,
           NEW f, NEW k, Held(q, f, k)
    PROVE  Held(q, f, k)'
  BY FactsTyped DEF Held, Frame

LEMMA ReviewFrames ==
    ASSUME IInv, NEW r \in Reviewers, ReviewStep(r)
    PROVE  Frame(r)
<1> USE DEF committed
<1>0. FactTypeOK
  BY DEF IInv, TypeOK
<1>1. ASSUME UNCHANGED <<facts, factlock>> PROVE Frame(r)
  BY <1>1 DEF Frame
<1>2. ASSUME NEW c \in Candidates,
             Approve(r, c) \/ \E f \in DOMAIN facts : Revise(r, c, f)
      PROVE  Frame(r)
  BY <1>1, <1>2 DEF Approve, Revise, Look
<1>3. CASE Insert(r)
  BY <1>1, <1>3 DEF Insert
<1>4. CASE LockFact(r)
  BY <1>0, <1>4, LockRowsFrames DEF LockFact
<1>5. CASE Corroborate(r) \/ RecordConflict(r) \/ RefuseRevision(r)
           \/ InsertRefused(r) \/ AbortReview(r)
  BY <1>0, <1>5, FreeAllFrames
     DEF Corroborate, RecordConflict, RefuseRevision, InsertRefused,
         AbortReview, Close
<1>6. CASE CommitFact(r)
  <2>1. Reviewing(r) /\ step[r] = "inserted"
    BY <1>6 DEF IInv, Reviews, CommitFact
  <2>2. subject[r] \in Candidates /\ natural[r] \in KeysOf[subject[r]]
    BY <2>1 DEF Reviewing
  <2>3. /\ DOMAIN facts' = DOMAIN facts \cup {Len(facts) + 1}
        /\ \A f \in DOMAIN facts :
               /\ facts'[f].key = facts[f].key
               /\ facts'[f].value = facts[f].value
               /\ facts'[f].open <=> facts[f].open /\ f # held[r]
    BY <1>0, <1>6, <2>2, Committed, ZenonT(60)
  <2>4. \A f \in DOMAIN facts : f = held[r] => factlock[f] = r
    <3>1. 0 \notin DOMAIN facts
      BY <1>0, FactsTyped
    <3> QED
      BY <2>1, <3>1 DEF Reviewing, Held
  <2>5. \A f \in FactIds, q \in Processes : q # r /\ factlock[f] = q => factlock'[f] = q
    BY <1>6 DEF CommitFact, Close, FreeAll
  <2> QED
    BY <2>3, <2>4, <2>5 DEF Frame
<1> QED
  BY <1>2, <1>3, <1>4, <1>5, <1>6 DEF ReviewStep, DecideReview

LEMMA RunFrames ==
    ASSUME IInv, NEW e \in Calculators, RunMove(e)
    PROVE  Frame(e) /\ UNCHANGED <<committed, request>>
<1> USE DEF committed, request, FactsKept
<1>0. FactTypeOK
  BY DEF IInv, TypeOK
<1>1. CASE (\E a \in Asks : Start(e, a)) \/ LookRole(e) \/ LockRequest(e) \/ Reuse(e)
           \/ LockForFailure(e)
  <2>1. UNCHANGED <<facts, factlock, committed, request>>
    BY <1>1 DEF Start, LookRole, LockRequest, Reuse, LockForFailure
  <2> QED
    BY <2>1 DEF Frame
<1>2. CASE LockRole(e)
  BY <1>0, <1>2, LockRowsFrames DEF LockRole
<1>3. CASE LockRoleAmbiguous(e) \/ RefuseInputs(e) \/ Return(e) \/ Victim(e)
           \/ Complete(e) \/ RecordFailure(e) \/ CompleteUnacknowledged(e)
           \/ Raise(e) \/ GiveUp(e)
  <2>1. FreeAll(e) /\ UNCHANGED <<committed, request>>
    BY <1>3 DEF LockRoleAmbiguous, RefuseInputs, Return, Victim, Complete,
                RecordFailure, CompleteUnacknowledged, Raise, GiveUp, Leave, Unlock
  <2> QED
    BY <1>0, <2>1, FreeAllFrames
<1> QED
  BY <1>1, <1>2, <1>3 DEF RunMove, RunStep

-----------------------------------------------------------------------------
(* Reviews.                                                                  *)

(* A step of another process takes nothing away from a review.               *)
LEMMA ReviewingKept ==
    ASSUME IInv, NEW p, Frame(p), NEW q \in Reviewers, q # p,
           step'[q] = step[q], subject'[q] = subject[q],
           natural'[q] = natural[q], seen'[q] = seen[q], held'[q] = held[q],
           step[q] = "inserted" =>
               Current({natural[q]})' \subseteq Current({natural[q]})
    PROVE  Reviewing(q)'
<1>1. Reviewing(q) /\ FactTypeOK /\ q \in Processes
  BY Constants DEF IInv, TypeOK, Reviews
<1>2. step[q] \in {"locked", "inserted"} /\ held[q] # 0 =>
          Held(q, held[q], natural[q])'
  BY <1>1, HeldKept DEF Reviewing
<1>3. step[q] \in {"locked", "inserted"} /\ held[q] # 0 =>
          held[q] \in DOMAIN facts /\ facts'[held[q]].value = facts[held[q]].value
  BY <1>1 DEF Reviewing, Held, Frame
<1> QED
  BY <1>1, <1>2, <1>3 DEF Reviewing, Frame

LEMMA ReviewStepKeeps ==
    ASSUME IInv, NEW r \in Reviewers, ReviewStep(r)
    PROVE  Reviewing(r)' /\ OneInsert'
<1> USE DEF committed
<1>0. FactTypeOK /\ Reviewing(r) /\ OneInsert
  BY DEF IInv, TypeOK, Reviews
<1>1. ASSUME NEW c \in Candidates, NEW k, NEW e, NEW f, Look(r, c, k, e, f),
             f # 0 => f \in DOMAIN facts /\ facts[f].key = k
      PROVE  Reviewing(r)' /\ OneInsert'
  <2>1. /\ \A q \in Reviewers : step'[q] = IF q = r THEN "looked" ELSE step[q]
        /\ \A q \in Reviewers : subject'[q] = IF q = r THEN c ELSE subject[q]
        /\ \A q \in Reviewers : natural'[q] = IF q = r THEN k ELSE natural[q]
        /\ seen'[r] = f /\ facts' = facts /\ k \in KeysOf[c]
    BY <1>0, <1>1 DEF Look, FactTypeOK
  <2>2. Reviewing(r)'
    BY <1>1, <2>1 DEF Reviewing
  <2>3. OneInsert'
    BY <1>0, <2>1 DEF OneInsert
  <2> QED
    BY <2>2, <2>3
<1>2. ASSUME NEW c \in Candidates, Approve(r, c) PROVE Reviewing(r)' /\ OneInsert'
  <2>1. PICK k \in KeysOf[c] : Look(r, c, k, 0, CurrentOf(k))
    BY <1>2 DEF Approve
  <2> QED
    BY <1>0, <1>1, <2>1, CurrentIsId
<1>3. ASSUME NEW c \in Candidates, NEW f \in DOMAIN facts, Revise(r, c, f)
      PROVE  Reviewing(r)' /\ OneInsert'
  BY <1>1, <1>3 DEF Revise
<1>4. CASE LockFact(r)
  <2> DEFINE sought == {seen[r]} \ {0}
  <2>1. /\ \A q \in Reviewers : step'[q] = IF q = r THEN "locked" ELSE step[q]
        /\ UNCHANGED <<subject, natural, facts>>
        /\ held'[r] = IF Rechecked(sought) = {} THEN 0 ELSE seen[r]
        /\ step[r] = "looked" /\ seen[r] \in {0} \cup FactIds
    BY <1>0, <1>4 DEF LockFact, FactTypeOK
  <2>2. \A f \in FactIds : f \in sought /\ Open(f) => factlock'[f] = r
    BY <1>4 DEF LockFact, LockRows
  <2>3. held'[r] # 0 => seen[r] # 0 /\ Open(seen[r]) /\ held'[r] = seen[r]
    BY <2>1 DEF Rechecked
  <2>4. held'[r] # 0 => factlock'[seen[r]] = r
    BY <2>1, <2>2, <2>3
  <2>5. held'[r] # 0 => Held(r, held[r], natural[r])'
    BY <1>0, <2>1, <2>3, <2>4 DEF Reviewing, Held, Open
  <2>6. Reviewing(r)'
    BY <1>0, <2>1, <2>5 DEF Reviewing
  <2>7. OneInsert'
    BY <1>0, <2>1 DEF OneInsert
  <2> QED
    BY <2>6, <2>7
<1>5. CASE Insert(r)
  <2>1. /\ \A q \in Reviewers : step'[q] = IF q = r THEN "inserted" ELSE step[q]
        /\ UNCHANGED <<subject, natural, facts, held, factlock>>
        /\ Inserts(r) /\ ~Inserting(natural[r])
        /\ Current({natural[r]}) \subseteq {held[r]}
    BY <1>0, <1>5 DEF Insert, FactTypeOK
  <2>2. Held(r, held[r], natural[r]) => Held(r, held[r], natural[r])'
    BY <2>1 DEF Held
  <2>3. step[r] = "locked" /\ (held[r] # 0 => facts[held[r]].value # ValueOf[subject[r]])
    BY <2>1 DEF Inserts
  <2>4. Current({natural[r]})' = Current({natural[r]})
    BY <2>1 DEF Current
  <2>5. Reviewing(r)'
    BY <1>0, <2>1, <2>2, <2>3, <2>4 DEF Reviewing
  <2>6. OneInsert'
    BY <1>0, <2>1 DEF OneInsert, Inserting
  <2> QED
    BY <2>5, <2>6
<1>6. CASE Corroborate(r) \/ RecordConflict(r) \/ RefuseRevision(r)
           \/ InsertRefused(r) \/ AbortReview(r) \/ CommitFact(r)
  <2>1. Close(r)
    BY <1>6 DEF Corroborate, RecordConflict, RefuseRevision, InsertRefused,
                AbortReview, CommitFact
  <2>2. /\ \A q \in Reviewers : step'[q] = IF q = r THEN "idle" ELSE step[q]
        /\ \A q \in Reviewers : q # r => subject'[q] = subject[q] /\ natural'[q] = natural[q]
    BY <1>0, <2>1 DEF Close, FactTypeOK
  <2>3. Reviewing(r)'
    BY <2>2 DEF Reviewing
  <2>4. OneInsert'
    BY <1>0, <2>2 DEF OneInsert
  <2> QED
    BY <2>3, <2>4
<1> QED
  BY <1>2, <1>3, <1>4, <1>5, <1>6 DEF ReviewStep, DecideReview

LEMMA ReviewsStep == IInv /\ [Next]_vars => Reviews'
<1> SUFFICES ASSUME IInv, [Next]_vars PROVE Reviews'
  OBVIOUS
<1>1. ASSUME NEW r \in Reviewers, ReviewStep(r) PROVE Reviews'
  <2>1. Frame(r) /\ Reviewing(r)' /\ OneInsert'
    BY <1>1, ReviewFrames, ReviewStepKeeps
  <2>2. ASSUME NEW q \in Reviewers, q # r PROVE Reviewing(q)'
    <3>1. /\ step'[q] = step[q] /\ subject'[q] = subject[q]
          /\ natural'[q] = natural[q] /\ seen'[q] = seen[q] /\ held'[q] = held[q]
      <4>1. FactTypeOK
        BY DEF IInv, TypeOK
      <4>2. CASE \E c \in Candidates :
                     Approve(r, c) \/ \E f \in DOMAIN facts : Revise(r, c, f)
        BY <2>2, <4>1, <4>2 DEF Approve, Revise, Look, FactTypeOK
      <4>3. CASE LockFact(r) \/ Insert(r)
        BY <2>2, <4>1, <4>3 DEF LockFact, Insert, FactTypeOK
      <4>4. CASE Corroborate(r) \/ RecordConflict(r) \/ RefuseRevision(r)
                 \/ InsertRefused(r) \/ AbortReview(r) \/ CommitFact(r)
        <5>1. Close(r)
          BY <4>4 DEF Corroborate, RecordConflict, RefuseRevision, InsertRefused,
                      AbortReview, CommitFact
        <5> QED
          BY <2>2, <4>1, <5>1 DEF Close, FactTypeOK
      <4> QED
        BY <1>1, <4>2, <4>3, <4>4 DEF ReviewStep, DecideReview
    <3>2. step[q] = "inserted" =>
              Current({natural[q]})' \subseteq Current({natural[q]})
      <4>1. CASE facts' = facts
        BY <3>1, <4>1 DEF Current
      <4>2. CASE CommitFact(r) /\ step[q] = "inserted"
        <5>1. /\ FactTypeOK /\ step[r] = "inserted" /\ subject[r] \in Candidates
              /\ natural[r] \in KeysOf[subject[r]]
          BY <4>2 DEF CommitFact, IInv, TypeOK, Reviews, Reviewing
        <5>2. natural[q] # natural[r]
          BY <2>2, <4>2, <5>1 DEF IInv, Reviews, OneInsert
        <5>3. /\ DOMAIN facts' = DOMAIN facts \cup {Len(facts) + 1}
              /\ facts'[Len(facts) + 1] = NewFact(r)
              /\ \A f \in DOMAIN facts :
                     /\ facts'[f].key = facts[f].key
                     /\ facts'[f].open <=> facts[f].open /\ f # held[r]
          BY <4>2, <5>1, Committed, ZenonT(60)
        <5>4. facts'[Len(facts) + 1].key # natural[q]
          BY <5>2, <5>3 DEF NewFact
        <5> QED
          BY <3>1, <5>3, <5>4 DEF Current
      <4>3. CASE \E c \in Candidates :
                     Approve(r, c) \/ \E f \in DOMAIN facts : Revise(r, c, f)
        BY <4>1, <4>3 DEF Approve, Revise, Look, committed
      <4> QED
        BY <1>1, <4>1, <4>2, <4>3
           DEF ReviewStep, DecideReview, LockFact, Insert, Corroborate,
               RecordConflict, RefuseRevision, InsertRefused, AbortReview, committed
    <3> QED
      BY <2>1, <2>2, <3>1, <3>2, ReviewingKept
  <2> QED
    BY <2>1, <2>2 DEF Reviews
<1>2. ASSUME NEW e \in Calculators, RunMove(e) PROVE Reviews'
  <2>1. Frame(e) /\ UNCHANGED <<committed, request>>
    BY <1>2, RunFrames
  <2>2. e \notin Reviewers
    BY Constants
  <2>3. \A k : Current(k)' = Current(k)
    BY <2>1 DEF Current, committed
  <2>4. \A q \in Reviewers : Reviewing(q)'
    BY <2>1, <2>2, <2>3, ReviewingKept DEF request
  <2>5. OneInsert'
    BY <2>1 DEF IInv, Reviews, OneInsert, request
  <2> QED
    BY <2>4, <2>5 DEF Reviews
<1>3. ASSUME UNCHANGED <<facts, factlock, request>> PROVE Reviews'
  BY <1>3 DEF IInv, Reviews, Reviewing, OneInsert, Held, Current, request
<1>4. ASSUME NEW c \in Candidates, Reject(c) PROVE Reviews'
  BY <1>3, <1>4 DEF Reject
<1>5. CASE UNCHANGED vars
  BY <1>3, <1>5 DEF vars, factVars, committed
<1> QED
  BY <1>1, <1>2, <1>4, <1>5, NextSplits

-----------------------------------------------------------------------------
(* Runs.                                                                     *)

LEMMA InputsTyped ==
    ASSUME TypeOK, NEW e \in Calculators
    PROVE  /\ inputs[e] \in Seq({0} \cup FactIds) /\ Len(inputs[e]) \in Nat
           /\ DOMAIN inputs[e] = 1..Len(inputs[e])
           /\ Range(inputs[e]) = {inputs[e][i] : i \in 1..Len(inputs[e])}
<1>1. inputs[e] \in Seq({0} \cup FactIds)
  BY DEF TypeOK
<1>2. Len(inputs[e]) \in Nat /\ DOMAIN inputs[e] = 1..Len(inputs[e])
  BY <1>1, LenProperties
<1> QED
  BY <1>1, <1>2 DEF Range

(* A run reads the same of its facts until it commits, whatever others do.   *)
LEMMA ReadingKept ==
    ASSUME IInv, NEW p, Frame(p), NEW e \in Calculators, e # p,
           run'[e] = run[e], ask'[e] = ask[e], found'[e] = found[e],
           inputs'[e] = inputs[e]
    PROVE  Reading(e)'
<1>1. Reading(e) /\ TypeOK /\ FactTypeOK /\ e \in Processes
  BY Constants DEF IInv, TypeOK, Readings
<1>2. Roles(e)' = Roles(e)
  BY DEF Roles
<1>3. ASSUME NEW i \in 1..Len(inputs[e]), Read(e, i)
      PROVE  Read(e, i)'
  <2>1. \A k : Held(e, inputs[e][i], k) => Held(e, inputs[e][i], k)'
    BY <1>1, HeldKept
  <2> QED
    BY <1>2, <1>3, <2>1 DEF Read
<1>4. \A f \in found[e] : f \in DOMAIN facts =>
          f \in DOMAIN facts' /\ facts'[f].key = facts[f].key
  BY DEF Frame
<1>5. run[e] = "requested" => Usable(e)'
  <2> SUFFICES ASSUME run[e] = "requested" PROVE Usable(e)'
    OBVIOUS
  <2>1. Usable(e) /\ \A i \in 1..Len(inputs[e]) : Read(e, i)
    BY <1>1 DEF Reading
  <2>2. \A i \in 1..Len(inputs[e]) : inputs[e][i] # 0
    BY <1>1, <2>1, InputsTyped, ZenonT(60) DEF Usable
  <2>3. \A i \in 1..Len(inputs[e]) : inputs[e][i] \in DOMAIN facts
    BY <2>1, <2>2 DEF Read, Held
  <2>4. \A f \in Range(inputs[e]) : facts'[f].key = facts[f].key
    <3>1. Range(inputs[e]) = {inputs[e][i] : i \in 1..Len(inputs[e])}
      BY <1>1, InputsTyped
    <3>2. Range(inputs[e]) \subseteq DOMAIN facts
      BY <2>3, <3>1
    <3> QED
      BY <3>2 DEF Frame
  <2>5. {facts'[f].key : f \in Range(inputs[e])} = {facts[f].key : f \in Range(inputs[e])}
    BY <2>4
  <2> QED
    BY <2>1, <2>5 DEF Usable
<1> QED
  BY <1>1, <1>2, <1>3, <1>4, <1>5 DEF Reading

LEMMA LeaveReads ==
    ASSUME TypeOK, NEW e \in Calculators, NEW state \in {"idle", "failing"},
           Leave(e, state), run[e] # "idle" => ask[e] \in Asks, run[e] # "idle"
    PROVE  Reading(e)'
<1>1. run'[e] = state /\ inputs'[e] = <<>>
  BY DEF TypeOK, Leave
<1>2. state # "idle" => ask'[e] = ask[e]
  BY DEF TypeOK, Leave
<1> QED
  BY <1>1, <1>2 DEF Reading

LEMMA RunStepReads ==
    ASSUME IInv, NEW e \in Calculators, RunMove(e)
    PROVE  Reading(e)'
<1> USE DEF committed, request, FactsKept
<1>0. TypeOK /\ Reading(e)
  BY DEF IInv, Readings
<1>1. ASSUME NEW a \in Asks, Start(e, a) PROVE Reading(e)'
  <2>1. run'[e] = "reading" /\ ask'[e] = a /\ inputs'[e] = <<>>
    BY <1>0, <1>1 DEF Start, TypeOK, Reading
  <2>2. Len(RolesOf[FormulaOf[a]]) \in Nat
    BY Constants
  <2> QED
    BY <2>1, <2>2 DEF Reading, Roles
<1>2. CASE LookRole(e)
  <2>1. /\ run'[e] = "found" /\ run[e] = "reading"
        /\ found'[e] = Current(Roles(e)[Len(inputs[e]) + 1])
        /\ Len(inputs[e]) < Len(Roles(e))
        /\ UNCHANGED <<facts, factlock, ask, inputs>>
    BY <1>0, <1>2 DEF LookRole, TypeOK
  <2>2. Roles(e)' = Roles(e)
    BY <2>1 DEF Roles
  <2>3. \A i \in 1..Len(inputs[e]) : Read(e, i)'
    BY <1>0, <2>1, <2>2 DEF Reading, Read, Held
  <2>4. \A f \in found'[e] : /\ f \in DOMAIN facts
                             /\ facts[f].key \in Roles(e)[Len(inputs[e]) + 1]
    BY <2>1 DEF Current
  <2> QED
    BY <1>0, <2>1, <2>2, <2>3, <2>4 DEF Reading
<1>3. CASE LockRole(e)
  <2> DEFINE left == Rechecked(found[e])
  <2>0. PICK x, n : /\ x = IF left = {} THEN 0 ELSE CHOOSE f \in left : TRUE
                    /\ n = Len(inputs[e])
    OBVIOUS
  <2>1. /\ run'[e] = "reading" /\ run[e] = "found"
        /\ inputs'[e] = Append(inputs[e], x)
        /\ UNCHANGED <<facts, ask>>
    BY <1>0, <1>3, <2>0 DEF LockRole, TypeOK
  <2>2. n \in Nat /\ inputs[e] \in Seq({0} \cup FactIds) /\ found[e] \subseteq FactIds
    BY <1>0, <2>0, InputsTyped DEF TypeOK
  <2>3. left \subseteq found[e] /\ (x # 0 => x \in left)
    BY <2>0 DEF Rechecked
  <2>4. x \in {0} \cup FactIds
    BY <2>2, <2>3
  <2>5. /\ Len(inputs'[e]) = n + 1
        /\ \A i \in 1..n : inputs'[e][i] = inputs[e][i]
        /\ inputs'[e][n + 1] = x
    BY <2>0, <2>1, <2>2, <2>4, AppendProperties
  <2>6. Roles(e)' = Roles(e)
    BY <2>1 DEF Roles
  <2>7. /\ n < Len(Roles(e)) /\ n + 1 <= Len(Roles(e))
        /\ \A f \in found[e] : /\ f \in DOMAIN facts
                               /\ facts[f].key \in Roles(e)[n + 1]
    <3>1. /\ n < Len(Roles(e))
          /\ \A f \in found[e] : /\ f \in DOMAIN facts
                                 /\ facts[f].key \in Roles(e)[n + 1]
      BY <1>0, <2>0, <2>1 DEF Reading
    <3>2. Len(Roles(e)) \in Nat
      <4>1. ask[e] \in Asks
        BY <1>0, <2>1 DEF Reading
      <4>2. RolesOf[FormulaOf[ask[e]]] \in Seq(SUBSET Keys)
        BY <4>1, Constants
      <4> QED
        BY <4>2 DEF Roles
    <3> QED
      BY <2>2, <3>1, <3>2
  <2>8. \A f \in FactIds : /\ f \in found[e] /\ Open(f) => factlock'[f] = e
                           /\ factlock[f] = e => factlock'[f] = e
    BY <1>3 DEF LockRole, LockRows
  <2>9. ASSUME NEW i \in 1..n PROVE Read(e, i)'
    <3>1. Read(e, i)
      BY <1>0, <2>0, <2>1 DEF Reading
    <3>2. inputs[e][i] # 0 => inputs[e][i] \in FactIds
      BY <2>0, <2>2, ElementOfSeq
    <3> QED
      BY <2>1, <2>5, <2>6, <2>8, <3>1, <3>2 DEF Read, Held
  <2>10. Read(e, n + 1)'
    <3> SUFFICES ASSUME x # 0
                 PROVE  \E k \in Roles(e)[n + 1] : Held(e, x, k)'
      BY <2>5, <2>6 DEF Read, Held
    <3>1. x \in found[e] /\ Open(x) /\ x \in FactIds
      BY <2>2, <2>3 DEF Rechecked
    <3>2. factlock'[x] = e
      BY <2>8, <3>1
    <3>3. /\ x \in DOMAIN facts' /\ facts'[x].open
          /\ facts'[x].key \in Roles(e)[n + 1]
      BY <2>1, <2>7, <3>1 DEF Open
    <3> QED
      BY <3>2, <3>3 DEF Held
  <2>11. \A i \in 1..(n + 1) : Read(e, i)'
    <3>1. \A i \in 1..(n + 1) : i \in 1..n \/ i = n + 1
      BY <2>2
    <3> QED
      BY <2>9, <2>10, <3>1
  <2> QED
    BY <1>0, <2>1, <2>5, <2>6, <2>7, <2>11 DEF Reading
<1>4. CASE LockRoleAmbiguous(e) \/ RefuseInputs(e) \/ Return(e) \/ Victim(e)
           \/ Complete(e) \/ RecordFailure(e) \/ CompleteUnacknowledged(e)
           \/ Raise(e) \/ GiveUp(e)
  <2>1. PICK state \in {"idle", "failing"} : Leave(e, state)
    BY <1>4 DEF LockRoleAmbiguous, RefuseInputs, Return, Victim, Complete,
                RecordFailure, CompleteUnacknowledged, Raise, GiveUp
  <2>2. run[e] # "idle"
    <3>1. CASE Victim(e)
      BY <3>1 DEF Victim, WaitsFor
    <3> QED
      BY <1>4, <3>1
         DEF LockRoleAmbiguous, RefuseInputs, Return, AllRead, Complete, Effects,
             RecordFailure, CompleteUnacknowledged, Raise, GiveUp
  <2> QED
    BY <1>0, <2>1, <2>2, LeaveReads DEF Reading
<1>5. CASE LockRequest(e)
  <2>1. /\ run'[e] = "requested" /\ run[e] = "reading"
        /\ Len(inputs[e]) = Len(Roles(e)) /\ Usable(e)
        /\ UNCHANGED <<facts, factlock, ask, found, inputs>>
    BY <1>0, <1>5 DEF LockRequest, TakeRequest, AllRead, TypeOK
  <2>2. Roles(e)' = Roles(e) /\ Usable(e)'
    BY <2>1 DEF Roles, Usable
  <2>3. \A i \in 1..Len(inputs[e]) : Read(e, i)'
    BY <1>0, <2>1, <2>2 DEF Reading, Read, Held
  <2> QED
    BY <1>0, <2>1, <2>2, <2>3 DEF Reading
<1>6. CASE LockForFailure(e)
  <2>1. run'[e] = "recording" /\ run[e] = "failing" /\ UNCHANGED <<ask, inputs>>
    BY <1>0, <1>6 DEF LockForFailure, TakeRequest, TypeOK
  <2> QED
    BY <1>0, <2>1 DEF Reading
<1>7. CASE Reuse(e)
  <2>1. run'[e] = "reusing" /\ run[e] = "reading" /\ UNCHANGED ask
    BY <1>0, <1>7 DEF Reuse, TakeRequest, AllRead, TypeOK
  <2> QED
    BY <1>0, <2>1 DEF Reading
<1> QED
  BY <1>1, <1>2, <1>3, <1>4, <1>5, <1>6, <1>7 DEF RunMove, RunStep

LEMMA ReadingsStep == IInv /\ [Next]_vars => Readings'
<1> SUFFICES ASSUME IInv, [Next]_vars, NEW e \in Calculators PROVE Reading(e)'
  BY DEF Readings
<1>1. ASSUME NEW r \in Reviewers, ReviewStep(r), UNCHANGED calcVars PROVE Reading(e)'
  <2>1. e # r
    BY Constants
  <2>2. Frame(r)
    BY <1>1, ReviewFrames
  <2> QED
    BY <1>1, <2>1, <2>2, ReadingKept DEF calcVars, runVars
<1>2. ASSUME NEW d \in Calculators, RunMove(d), d # e PROVE Reading(e)'
  <2>1. /\ run'[e] = run[e] /\ ask'[e] = ask[e]
        /\ found'[e] = found[e] /\ inputs'[e] = inputs[e]
    <3>1. TypeOK
      BY DEF IInv
    <3>2. CASE \E a \in Asks : Start(d, a)
      BY <1>2, <3>1, <3>2 DEF Start, TypeOK
    <3>3. CASE LookRole(d) \/ LockRole(d)
      BY <1>2, <3>1, <3>3 DEF LookRole, LockRole, TypeOK
    <3>4. CASE LockRequest(d) \/ Reuse(d) \/ LockForFailure(d)
      BY <1>2, <3>1, <3>4 DEF LockRequest, Reuse, LockForFailure, TakeRequest, TypeOK
    <3>5. ASSUME NEW state, Leave(d, state)
          PROVE  /\ run'[e] = run[e] /\ ask'[e] = ask[e]
                 /\ found'[e] = found[e] /\ inputs'[e] = inputs[e]
      BY <1>2, <3>1, <3>5 DEF Leave, TypeOK
    <3> QED
      BY <1>2, <3>2, <3>3, <3>4, <3>5
         DEF RunMove, RunStep, LockRoleAmbiguous, RefuseInputs, Return, Victim,
             Complete, RecordFailure, CompleteUnacknowledged, Raise, GiveUp
  <2>2. Frame(d)
    BY <1>2, RunFrames
  <2> QED
    BY <1>2, <2>1, <2>2, ReadingKept
<1>3. ASSUME RunMove(e) PROVE Reading(e)'
  BY <1>3, RunStepReads
<1>4. ASSUME UNCHANGED <<facts, factlock, calcVars>> PROVE Reading(e)'
  <2>1. UNCHANGED <<facts, factlock, run, ask, found, inputs>>
    BY <1>4 DEF calcVars, runVars
  <2>2. Reading(e)
    BY DEF IInv, Readings
  <2>3. Roles(e)' = Roles(e) /\ Usable(e)' = Usable(e)
    BY <2>1 DEF Roles, Usable
  <2>4. \A i \in 1..Len(inputs[e]) : Read(e, i)' = Read(e, i)
    BY <2>1, <2>3 DEF Read, Held
  <2> QED
    BY <2>1, <2>2, <2>3, <2>4 DEF Reading
<1>5. ASSUME NEW c \in Candidates, Reject(c), UNCHANGED calcVars PROVE Reading(e)'
  BY <1>4, <1>5 DEF Reject
<1>6. CASE UNCHANGED vars
  BY <1>4, <1>6 DEF vars, factVars, committed
<1> QED
  BY <1>1, <1>2, <1>3, <1>5, <1>6, NextSplits

-----------------------------------------------------------------------------
(* The line of revisions.                                                    *)

LEMMA LineStep == IInv /\ [Next]_vars => Line'
<1> SUFFICES ASSUME IInv, [Next]_vars PROVE Line'
  OBVIOUS
<1>1. ASSUME UNCHANGED facts PROVE Line'
  BY <1>1 DEF IInv, Line, Successors
<1>2. ASSUME NEW r \in Reviewers, CommitFact(r) PROVE Line'
  <2>0. PICK n : n = Len(facts) + 1
    OBVIOUS
  <2>1. /\ Reviewing(r) /\ step[r] = "inserted" /\ subject[r] \in Candidates
        /\ natural[r] \in KeysOf[subject[r]]
        /\ FactTypeOK /\ Line
    BY <1>2 DEF IInv, TypeOK, Reviews, Reviewing, CommitFact
  <2>2. /\ DOMAIN facts' = DOMAIN facts \cup {n}
        /\ \A f \in DOMAIN facts :
               /\ facts'[f].key = facts[f].key
               /\ facts'[f].value = facts[f].value
               /\ facts'[f].supersedes = facts[f].supersedes
               /\ facts'[f].open <=> facts[f].open /\ f # held[r]
        /\ facts'[n] = NewFact(r)
    BY <1>2, <2>0, <2>1, Committed, ZenonT(60)
  <2>3. /\ facts'[n].key = natural[r] /\ facts'[n].value = ValueOf[subject[r]]
        /\ facts'[n].supersedes = held[r] /\ facts'[n].open
    BY <2>2 DEF NewFact
  <2>4. /\ n \in Nat \ {0} /\ DOMAIN facts = 1..(n - 1)
        /\ \A f \in DOMAIN facts : facts[f].supersedes \in Nat
    BY <2>0, <2>1, FactsTyped DEF Fact, FactIds
  <2>5. /\ held[r] # 0 => /\ held[r] \in DOMAIN facts
                          /\ facts[held[r]].open
                          /\ facts[held[r]].key = natural[r]
                          /\ facts[held[r]].value # ValueOf[subject[r]]
        /\ \A f \in DOMAIN facts :
               facts[f].open /\ facts[f].key = natural[r] => f = held[r]
    BY <2>1 DEF Reviewing, Held, Current
  <2>6. Successors(n)' = {}
    <3>1. held[r] # n
      <4>1. CASE held[r] = 0
        BY <2>4, <4>1
      <4>2. CASE held[r] \in 1..(n - 1)
        BY <2>4, <4>2
      <4> QED
        BY <2>4, <2>5, <4>1, <4>2
    <3>2. ASSUME NEW g \in DOMAIN facts PROVE facts[g].supersedes # n
      <4>1. facts[g].supersedes < g
        BY <2>1 DEF Line
      <4> QED
        BY <2>4, <4>1
    <3> QED
      BY <2>2, <2>3, <3>1, <3>2 DEF Successors
  <2>7. ASSUME NEW f \in DOMAIN facts
        PROVE  Successors(f)' = IF f = held[r] THEN {n} ELSE Successors(f)
    <3>1. f = held[r] => Successors(f) = {}
      <4>1. f # 0
        BY <2>4
      <4> QED
        BY <2>1, <2>5, <4>1 DEF Line
    <3>2. Successors(f)' = Successors(f) \cup (IF f = held[r] THEN {n} ELSE {})
      BY <2>2, <2>3 DEF Successors
    <3> QED
      BY <3>1, <3>2
  <2>8. \A f, g \in DOMAIN facts' :
            facts'[f].key = facts'[g].key /\ facts'[f].open /\ facts'[g].open => f = g
    BY <2>1, <2>2, <2>3, <2>5 DEF Line
  <2>9. \A f \in DOMAIN facts' : facts'[f].supersedes < f
    <3>1. held[r] < n
      <4>1. CASE held[r] = 0
        BY <2>4, <4>1
      <4>2. CASE held[r] \in 1..(n - 1)
        BY <2>4, <4>2
      <4> QED
        BY <2>4, <2>5, <4>1, <4>2
    <3> QED
      BY <2>1, <2>2, <2>3, <3>1 DEF Line
  <2>10. ASSUME NEW f \in DOMAIN facts'
         PROVE  /\ facts'[f].open <=> Successors(f)' = {}
                /\ \A g, h \in Successors(f)' : g = h
                /\ \A g \in Successors(f)' :
                       facts'[g].key = facts'[f].key /\ facts'[g].value # facts'[f].value
    <3>1. CASE f = n
      <4>1. Successors(f)' = {}
        BY <2>6, <3>1 DEF Successors
      <4> QED
        BY <2>3, <3>1, <4>1
    <3>2. CASE f = held[r] /\ f \in DOMAIN facts
      <4>1. Successors(f)' = {n} /\ ~facts'[f].open
        BY <2>2, <2>7, <3>2
      <4>2. f # 0
        BY <2>4, <3>2
      <4>3. facts'[n].key = facts'[f].key /\ facts'[n].value # facts'[f].value
        BY <2>2, <2>3, <2>5, <3>2, <4>2
      <4> QED
        BY <4>1, <4>3
    <3>3. CASE f # held[r] /\ f \in DOMAIN facts
      <4>1. Successors(f)' = Successors(f) /\ (facts'[f].open <=> facts[f].open)
        BY <2>2, <2>7, <3>3
      <4>2. Successors(f) \subseteq DOMAIN facts
        BY DEF Successors
      <4>3. \A g \in Successors(f) :
                facts'[g].key = facts'[f].key /\ facts'[g].value # facts'[f].value
        BY <2>1, <2>2, <3>3, <4>2 DEF Line
      <4> QED
        BY <2>1, <3>3, <4>1, <4>3 DEF Line
    <3> QED
      BY <2>2, <3>1, <3>2, <3>3
  <2> QED
    BY <2>8, <2>9, <2>10 DEF Line
<1>3. ASSUME NEW r \in Reviewers, ReviewStep(r) PROVE Line'
  <2>1. CASE \E c \in Candidates :
                 Approve(r, c) \/ \E f \in DOMAIN facts : Revise(r, c, f)
    BY <1>1, <2>1 DEF Approve, Revise, Look, committed
  <2> QED
    BY <1>1, <1>2, <1>3, <2>1
       DEF ReviewStep, DecideReview, LockFact, Insert, Corroborate, RecordConflict,
           RefuseRevision, InsertRefused, AbortReview, committed
<1>4. ASSUME NEW e \in Calculators, RunMove(e) PROVE Line'
  BY <1>1, <1>4, RunFrames DEF committed
<1>5. ASSUME NEW c \in Candidates, Reject(c) PROVE Line'
  BY <1>1, <1>5 DEF Reject
<1>6. CASE UNCHANGED vars
  BY <1>1, <1>6 DEF vars, factVars, committed
<1> QED
  BY <1>3, <1>4, <1>5, <1>6, NextSplits

-----------------------------------------------------------------------------
(* Calculations and attempts.                                                *)

(* Who records an attempt holds the row of the request, so that the number   *)
(* it has taken is still the next.                                           *)
Taking(e) == run[e] \in {"requested", "recording"} =>
    reqlock[ask[e]] = e /\ number[e] = Len(attempts[ask[e]]) + 1

(* What a run is about to commit has not been calculated yet: the facts it   *)
(* holds keep every other run of the same inputs from getting as far.        *)
Novel(e) == run[e] = "requested" => Computation(e) \notin Range(calcs)

Numbered == \A a \in Asks : \A i \in DOMAIN attempts[a] : attempts[a][i].number = i
Distinct == \A i, j \in DOMAIN calcs : calcs[i] = calcs[j] => i = j
Matched(formula) ==
    /\ IsFiniteSet(CompletedAttempts(formula))
    /\ IsFiniteSet(CalculationsOf(formula))
    /\ Cardinality(CalculationsOf(formula)) = Cardinality(CompletedAttempts(formula))

Once == /\ \A e \in Calculators : Taking(e) /\ Novel(e)
        /\ Numbered
        /\ Distinct
        /\ \A formula \in Formulas : Matched(formula)

(* The steps of a run by what they do to calculations and attempts.          *)
LEMMA RunKinds ==
    ASSUME NEW d \in Calculators, RunMove(d)
    PROVE  \/ UNCHANGED <<calcs, attempts>>
           \/ Effects(d) /\ \E state \in {"idle", "failing"} : Leave(d, state)
           \/ /\ run[d] = "recording" /\ Record(d, "FAILED")
              /\ Leave(d, "idle") /\ UNCHANGED calcs
  BY DEF RunMove, RunStep, Start, LookRole, LockRole, LockRoleAmbiguous,
         RefuseInputs, LockRequest, Reuse, Return, Complete, CompleteUnacknowledged,
         Victim, LockForFailure, RecordFailure, Raise, GiveUp

(* A run leaves the others and what they hold alone.                         *)
LEMMA RunsApart ==
    ASSUME TypeOK, NEW d \in Calculators, NEW e \in Calculators, e # d, RunMove(d)
    PROVE  /\ run'[e] = run[e] /\ ask'[e] = ask[e]
           /\ inputs'[e] = inputs[e] /\ number'[e] = number[e]
           /\ \A a \in Asks : reqlock[a] = e => reqlock'[a] = e
<1>0. NoProcess # e
  BY Constants
<1>1. CASE \E a \in Asks : Start(d, a)
  BY <1>1 DEF Start, TypeOK
<1>2. CASE LookRole(d) \/ LockRole(d)
  BY <1>2 DEF LookRole, LockRole, TypeOK
<1>3. CASE LockRequest(d) \/ Reuse(d) \/ LockForFailure(d)
  <2>1. PICK state \in RunStates : TakeRequest(d, state)
    BY <1>3 DEF LockRequest, Reuse, LockForFailure, RunStates
  <2>2. ask' = ask /\ inputs' = inputs
    BY <1>3 DEF LockRequest, Reuse, LockForFailure
  <2> QED
    BY <1>0, <2>1, <2>2 DEF TakeRequest, TypeOK
<1>4. ASSUME NEW state, Leave(d, state)
      PROVE  /\ run'[e] = run[e] /\ ask'[e] = ask[e]
             /\ inputs'[e] = inputs[e] /\ number'[e] = number[e]
             /\ \A a \in Asks : reqlock[a] = e => reqlock'[a] = e
  BY <1>4 DEF Leave, Unlock, TypeOK
<1> QED
  BY <1>1, <1>2, <1>3, <1>4
     DEF RunMove, RunStep, LockRoleAmbiguous, RefuseInputs, Return, Victim,
         Complete, RecordFailure, CompleteUnacknowledged, Raise, GiveUp

(* A run that gets to a request finds it and its hash as the guards say.     *)
LEMMA RunItself ==
    ASSUME IInv, Once, NEW d \in Calculators, RunMove(d)
    PROVE  Taking(d)' /\ Novel(d)'
<1>0. TypeOK /\ Reading(d)
  BY DEF IInv, Readings
<1>1. CASE \E a \in Asks : Start(d, a)
  BY <1>0, <1>1 DEF Start, TypeOK, Taking, Novel
<1>2. CASE LookRole(d) \/ LockRole(d)
  BY <1>0, <1>2 DEF LookRole, LockRole, TypeOK, Taking, Novel
<1>3. CASE LockRequest(d) \/ Reuse(d) \/ LockForFailure(d)
  <2>1. PICK state \in {"requested", "reusing", "recording"} :
            TakeRequest(d, state) /\ (state = "requested" => LockRequest(d))
    BY <1>3 DEF LockRequest, Reuse, LockForFailure
  <2>2. UNCHANGED <<calcs, attempts, ask, inputs>>
    BY <1>3 DEF LockRequest, Reuse, LockForFailure
  <2>3. ask[d] \in Asks
    BY <1>0, <1>3 DEF Reading, LockRequest, Reuse, AllRead, LockForFailure
  <2>4. Taking(d)'
    BY <1>0, <2>1, <2>2, <2>3 DEF TakeRequest, TypeOK, Taking
  <2>5. run'[d] = state
    BY <1>0, <2>1 DEF TakeRequest, TypeOK
  <2>6. Novel(d)'
    BY <2>1, <2>2, <2>5 DEF Novel, LockRequest, Computation
  <2> QED
    BY <2>4, <2>6
<1>4. ASSUME NEW state \in {"idle", "failing"}, Leave(d, state)
      PROVE  Taking(d)' /\ Novel(d)'
  BY <1>0, <1>4 DEF Leave, TypeOK, Taking, Novel
<1> QED
  BY <1>1, <1>2, <1>3, <1>4
     DEF RunMove, RunStep, LockRoleAmbiguous, RefuseInputs, Return, Victim,
         Complete, RecordFailure, CompleteUnacknowledged, Raise, GiveUp

(* An attempt is the next of its request, under the row lock of the request. *)
LEMMA Recorded ==
    ASSUME IInv, Once, NEW d \in Calculators, run[d] \in {"requested", "recording"},
           NEW s \in {"COMPLETED", "FAILED"}, Record(d, s)
    PROVE  /\ ask[d] \in Asks
           /\ Numbered'
           /\ \A a \in Asks : a # ask[d] => attempts'[a] = attempts[a]
           /\ \A formula \in Formulas :
                  LET new == <<ask[d], Len(attempts[ask[d]]) + 1>> IN
                  /\ new \notin CompletedAttempts(formula)
                  /\ CompletedAttempts(formula)' =
                         IF s = "COMPLETED" /\ FormulaOf[ask[d]] = formula
                         THEN CompletedAttempts(formula) \cup {new}
                         ELSE CompletedAttempts(formula)
<1>0. PICK b, n : b = ask[d] /\ n = Len(attempts[b])
  OBVIOUS
<1>1. TypeOK /\ b \in Asks /\ number[d] = n + 1
  BY <1>0 DEF IInv, Readings, Reading, Once, Taking
<1>2. \A a \in Asks : /\ attempts[a] \in Seq(Attempt) /\ Len(attempts[a]) \in Nat
                      /\ DOMAIN attempts[a] = 1..Len(attempts[a])
  <2> SUFFICES ASSUME NEW a \in Asks
               PROVE  /\ attempts[a] \in Seq(Attempt) /\ Len(attempts[a]) \in Nat
                      /\ DOMAIN attempts[a] = 1..Len(attempts[a])
    OBVIOUS
  <2>1. attempts[a] \in Seq(Attempt)
    BY <1>1 DEF TypeOK
  <2> QED
    BY <2>1, LenProperties
<1>3. PICK x : x = [number |-> n + 1, status |-> s]
  OBVIOUS
<1>4. x.number = n + 1 /\ x.status = s /\ x \in Attempt /\ n \in Nat
  BY <1>0, <1>1, <1>2, <1>3 DEF Attempt
<1>5. \A a \in Asks : attempts'[a] = IF a = b THEN Append(attempts[b], x) ELSE attempts[a]
  BY <1>0, <1>1, <1>3 DEF Record, TypeOK
<1>6. /\ DOMAIN attempts'[b] = 1..(n + 1)
      /\ \A i \in 1..n : attempts'[b][i] = attempts[b][i]
      /\ attempts'[b][n + 1] = x
  <2>1. attempts[b] \in Seq(Attempt) /\ Len(attempts[b]) = n /\ x \in Attempt
    BY <1>0, <1>1, <1>2, <1>4
  <2>2. attempts'[b] = Append(attempts[b], x)
    BY <1>1, <1>5
  <2> QED
    BY <2>1, <2>2, AppendProperties
<1>7. DOMAIN attempts[b] = 1..n /\ n + 1 \notin 1..n /\ 1..(n + 1) = 1..n \cup {n + 1}
  BY <1>0, <1>1, <1>2, <1>4
<1>8. Numbered'
  <2> SUFFICES ASSUME NEW a \in Asks, NEW i \in DOMAIN attempts'[a]
               PROVE  attempts'[a][i].number = i
    BY DEF Numbered
  <2>1. CASE a # b
    BY <1>5, <2>1 DEF Once, Numbered
  <2>2. CASE a = b
    BY <1>1, <1>4, <1>6, <1>7, <2>2 DEF Once, Numbered
  <2> QED
    BY <2>1, <2>2
<1>9. ASSUME NEW formula \in Formulas
      PROVE  /\ <<b, n + 1>> \notin CompletedAttempts(formula)
             /\ CompletedAttempts(formula)' =
                    IF s = "COMPLETED" /\ FormulaOf[b] = formula
                    THEN CompletedAttempts(formula) \cup {<<b, n + 1>>}
                    ELSE CompletedAttempts(formula)
  <2>1. \A a, i : <<a, i>> \in CompletedAttempts(formula) <=>
            /\ a \in Asks /\ i \in DOMAIN attempts[a]
            /\ FormulaOf[a] = formula /\ attempts[a][i].status = "COMPLETED"
    BY DEF CompletedAttempts
  <2>2. \A a, i : <<a, i>> \in CompletedAttempts(formula)' <=>
            /\ a \in Asks /\ i \in DOMAIN attempts'[a]
            /\ FormulaOf[a] = formula /\ attempts'[a][i].status = "COMPLETED"
    BY DEF CompletedAttempts
  <2>3. \A y \in CompletedAttempts(formula) \cup CompletedAttempts(formula)' :
            y = <<y[1], y[2]>>
    BY DEF CompletedAttempts
  <2>4. <<b, n + 1>> \notin CompletedAttempts(formula)
    BY <1>7, <2>1
  <2>5. \A a, i : <<a, i>> \in CompletedAttempts(formula)' <=>
            \/ <<a, i>> \in CompletedAttempts(formula)
            \/ a = b /\ i = n + 1 /\ s = "COMPLETED" /\ FormulaOf[b] = formula
    <3> SUFFICES ASSUME NEW a, NEW i
                 PROVE  <<a, i>> \in CompletedAttempts(formula)' <=>
                            \/ <<a, i>> \in CompletedAttempts(formula)
                            \/ a = b /\ i = n + 1 /\ s = "COMPLETED" /\ FormulaOf[b] = formula
      OBVIOUS
    <3>1. CASE a = b /\ i = n + 1
      BY <1>1, <1>4, <1>6, <1>7, <2>1, <2>2, <3>1
    <3>2. CASE a = b /\ i # n + 1
      <4>1. /\ i \in DOMAIN attempts'[b] <=> i \in DOMAIN attempts[b]
            /\ i \in DOMAIN attempts[b] => attempts'[b][i] = attempts[b][i]
        BY <1>6, <1>7, <3>2
      <4> QED
        BY <2>1, <2>2, <3>2, <4>1
    <3>3. CASE a # b
      BY <1>5, <2>1, <2>2, <3>3
    <3> QED
      BY <3>1, <3>2, <3>3
  <2>6. CASE s = "COMPLETED" /\ FormulaOf[b] = formula
    BY <2>3, <2>4, <2>5, <2>6
  <2>7. CASE ~(s = "COMPLETED" /\ FormulaOf[b] = formula)
    BY <2>3, <2>4, <2>5, <2>7
  <2> QED
    BY <2>4, <2>6, <2>7
<1> QED
  BY <1>0, <1>1, <1>5, <1>8, <1>9

(* Two runs that hold their inputs hold different ones: each has a role, and *)
(* the fact of the role is locked by the one that read it.                   *)
LEMMA InputsDiffer ==
    ASSUME IInv, NEW d \in Calculators, NEW e \in Calculators, d # e,
           run[d] = "requested", run[e] = "requested"
    PROVE  Computation(d) # Computation(e)
<1>1. ASSUME NEW q \in Calculators, run[q] = "requested"
      PROVE  /\ 1 \in 1..Len(inputs[q])
             /\ factlock[inputs[q][1]] = q
  <2>1. /\ TypeOK /\ ask[q] \in Asks /\ Len(inputs[q]) = Len(Roles(q)) /\ Usable(q)
        /\ \A i \in 1..Len(inputs[q]) : Read(q, i)
    BY <1>1 DEF IInv, Readings, Reading
  <2>2. Roles(q) \in Seq(SUBSET Keys) /\ Roles(q) # <<>>
    <3>1. FormulaOf[ask[q]] \in Formulas
      BY <2>1, Constants
    <3> QED
      BY <3>1, Constants, CalculationAssumption DEF Roles, CalculationAssumption
  <2>3. 1 \in 1..Len(inputs[q])
    BY <2>1, <2>2
  <2>4. inputs[q][1] # 0
    <3>1. inputs[q][1] \in Range(inputs[q])
      BY <2>1, <2>3, InputsTyped
    <3> QED
      BY <2>1, <3>1 DEF Usable
  <2> QED
    BY <2>1, <2>3, <2>4 DEF Read, Held
<1>2. Computation(d) = Computation(e) => inputs[d] = inputs[e]
  BY DEF Computation
<1> QED
  BY <1>1, <1>2

(* A calculation joins those of its formula.                                 *)
LEMMA Calculated ==
    ASSUME IInv, Once, NEW d \in Calculators, Effects(d)
    PROVE  /\ Range(calcs') = Range(calcs) \cup {Computation(d)}
           /\ Distinct'
           /\ \A formula \in Formulas :
                  /\ Len(calcs) + 1 \notin CalculationsOf(formula)
                  /\ CalculationsOf(formula)' =
                         IF FormulaOf[ask[d]] = formula
                         THEN CalculationsOf(formula) \cup {Len(calcs) + 1}
                         ELSE CalculationsOf(formula)
<1>0. PICK n, c : n = Len(calcs) /\ c = Computation(d)
  OBVIOUS
<1>1. calcs \in Seq(Calculation) /\ run[d] = "requested" /\ calcs' = Append(calcs, c)
  BY <1>0 DEF Effects, IInv, TypeOK
<1>2. n \in Nat /\ DOMAIN calcs = 1..n
  BY <1>0, <1>1, LenProperties
<1>3. c \in Calculation /\ c.formula = FormulaOf[ask[d]]
  <2>1. ask[d] \in Asks /\ inputs[d] \in Seq({0} \cup FactIds)
    BY <1>1 DEF IInv, TypeOK, Readings, Reading
  <2> QED
    BY <1>0, <2>1, Constants DEF Computation, Calculation
<1>4. /\ DOMAIN calcs' = 1..(n + 1)
      /\ \A i \in 1..n : calcs'[i] = calcs[i]
      /\ calcs'[n + 1] = c
  BY <1>0, <1>1, <1>2, <1>3, AppendProperties
<1>5. n + 1 \notin 1..n /\ 1..(n + 1) = 1..n \cup {n + 1}
  BY <1>2
<1>6. Range(calcs') = Range(calcs) \cup {c}
  BY <1>2, <1>4, <1>5 DEF Range
<1>7. \A i \in 1..n : calcs[i] # c
  BY <1>0, <1>1, <1>2 DEF Once, Novel, Range
<1>8. Distinct'
  BY <1>2, <1>4, <1>5, <1>7 DEF Once, Distinct
<1>9. ASSUME NEW formula \in Formulas
      PROVE  /\ n + 1 \notin CalculationsOf(formula)
             /\ CalculationsOf(formula)' =
                    IF FormulaOf[ask[d]] = formula
                    THEN CalculationsOf(formula) \cup {n + 1}
                    ELSE CalculationsOf(formula)
  BY <1>2, <1>3, <1>4, <1>5 DEF CalculationsOf
<1> QED
  BY <1>0, <1>6, <1>8, <1>9

LEMMA MatchedKept ==
    ASSUME Once, UNCHANGED <<calcs, attempts>>
    PROVE  Numbered' /\ Distinct' /\ \A formula \in Formulas : Matched(formula)'
<1>1. Numbered' /\ Distinct'
  BY DEF Once, Numbered, Distinct
<1>2. ASSUME NEW formula \in Formulas
      PROVE  Matched(formula)'
  <2>1. /\ CompletedAttempts(formula)' = CompletedAttempts(formula)
        /\ CalculationsOf(formula)' = CalculationsOf(formula)
    BY DEF CompletedAttempts, CalculationsOf
  <2> QED
    BY <2>1 DEF Once, Matched
<1> QED
  BY <1>1, <1>2

LEMMA OnceStep == IInv /\ Once /\ [Next]_vars => Once'
<1> SUFFICES ASSUME IInv, Once, [Next]_vars PROVE Once'
  OBVIOUS
<1>1. ASSUME UNCHANGED calcVars PROVE Once'
  <2>1. UNCHANGED <<calcs, attempts, reqlock, run, ask, inputs, number>>
    BY <1>1 DEF calcVars, runVars
  <2>2. ASSUME NEW e \in Calculators PROVE Taking(e)' /\ Novel(e)'
    BY <2>1 DEF Once, Taking, Novel, Computation
  <2> QED
    BY <2>1, <2>2, MatchedKept DEF Once
<1>2. ASSUME NEW d \in Calculators, RunMove(d) PROVE Once'
  <2>0. TypeOK
    BY DEF IInv
  <2>1. Taking(d)' /\ Novel(d)'
    BY <1>2, RunItself
  <2>2. ASSUME NEW e \in Calculators, e # d,
               run[e] \in {"requested", "recording"} =>
                   attempts'[ask[e]] = attempts[ask[e]],
               run[e] = "requested" =>
                   Computation(e) \notin Range(calcs')
        PROVE  Taking(e)' /\ Novel(e)'
    <3>1. /\ run'[e] = run[e] /\ ask'[e] = ask[e]
          /\ inputs'[e] = inputs[e] /\ number'[e] = number[e]
          /\ \A a \in Asks : reqlock[a] = e => reqlock'[a] = e
      BY <1>2, <2>0, <2>2, RunsApart
    <3>2. run[e] # "idle" => ask[e] \in Asks
      BY DEF IInv, Readings, Reading
    <3>3. Taking(e)'
      BY <2>2, <3>1, <3>2 DEF Once, Taking
    <3>4. Novel(e)'
      BY <2>2, <3>1 DEF Novel, Computation
    <3> QED
      BY <3>3, <3>4
  <2>3. CASE UNCHANGED <<calcs, attempts>>
    <3>1. \A e \in Calculators : Novel(e)
      BY DEF Once
    <3> QED
      BY <2>1, <2>2, <2>3, <3>1, MatchedKept DEF Once, Novel
  <2>4. ASSUME run[d] \in {"requested", "recording"},
               \A a \in Asks : a # ask[d] => attempts'[a] = attempts[a],
               NEW e \in Calculators, e # d, run[e] \in {"requested", "recording"}
        PROVE  attempts'[ask[e]] = attempts[ask[e]]
    <3>1. reqlock[ask[d]] = d /\ reqlock[ask[e]] = e /\ ask[e] \in Asks
      BY <2>4 DEF Once, Taking, IInv, Readings, Reading
    <3> QED
      BY <2>4, <3>1
  <2>5. CASE Effects(d)
    <3>1. run[d] = "requested" /\ Record(d, "COMPLETED")
      BY <2>5 DEF Effects
    <3>2. ASSUME NEW e \in Calculators, e # d, run[e] = "requested"
          PROVE  Computation(e) \notin Range(calcs')
      BY <2>5, <3>1, <3>2, InputsDiffer, Calculated DEF Once, Novel
    <3>3. \A a \in Asks : a # ask[d] => attempts'[a] = attempts[a]
      BY <3>1, Recorded
    <3>4. \A e \in Calculators : Taking(e)' /\ Novel(e)'
      BY <2>1, <2>2, <2>4, <3>1, <3>2, <3>3
    <3>5. Numbered' /\ Distinct'
      BY <2>5, <3>1, Recorded, Calculated
    <3>6. ASSUME NEW formula \in Formulas
          PROVE  Matched(formula)'
      <4>0. PICK new, n : new = <<ask[d], Len(attempts[ask[d]]) + 1>> /\ n = Len(calcs) + 1
        OBVIOUS
      <4>1. /\ new \notin CompletedAttempts(formula)
            /\ CompletedAttempts(formula)' =
                   IF FormulaOf[ask[d]] = formula
                   THEN CompletedAttempts(formula) \cup {new}
                   ELSE CompletedAttempts(formula)
        BY <3>1, <4>0, Recorded
      <4>2. /\ n \notin CalculationsOf(formula)
            /\ CalculationsOf(formula)' =
                   IF FormulaOf[ask[d]] = formula
                   THEN CalculationsOf(formula) \cup {n}
                   ELSE CalculationsOf(formula)
        BY <2>5, <4>0, Calculated
      <4>3. Matched(formula)
        BY DEF Once
      <4>4. CASE FormulaOf[ask[d]] = formula
        <5>1. /\ CompletedAttempts(formula)' = CompletedAttempts(formula) \cup {new}
              /\ CalculationsOf(formula)' = CalculationsOf(formula) \cup {n}
          BY <4>1, <4>2, <4>4
        <5>2. /\ IsFiniteSet(CompletedAttempts(formula)')
              /\ Cardinality(CompletedAttempts(formula)') =
                     Cardinality(CompletedAttempts(formula)) + 1
          BY <4>1, <4>3, <5>1, FS_AddElement DEF Matched
        <5>3. /\ IsFiniteSet(CalculationsOf(formula)')
              /\ Cardinality(CalculationsOf(formula)') =
                     Cardinality(CalculationsOf(formula)) + 1
          BY <4>2, <4>3, <5>1, FS_AddElement DEF Matched
        <5> QED
          BY <4>3, <5>2, <5>3 DEF Matched
      <4>5. CASE FormulaOf[ask[d]] # formula
        BY <4>1, <4>2, <4>3, <4>5 DEF Matched
      <4> QED
        BY <4>4, <4>5
    <3> QED
      BY <3>4, <3>5, <3>6 DEF Once
  <2>6. CASE run[d] = "recording" /\ Record(d, "FAILED") /\ UNCHANGED calcs
    <3>1. \A a \in Asks : a # ask[d] => attempts'[a] = attempts[a]
      BY <2>6, Recorded
    <3>2. \A e \in Calculators : Taking(e)' /\ Novel(e)'
      BY <2>1, <2>2, <2>4, <2>6, <3>1 DEF Once, Novel
    <3>3. Numbered' /\ Distinct'
      BY <2>6, Recorded DEF Once, Distinct
    <3>4. ASSUME NEW formula \in Formulas
          PROVE  Matched(formula)'
      <4>1. CompletedAttempts(formula)' = CompletedAttempts(formula)
        BY <2>6, Recorded
      <4>2. CalculationsOf(formula)' = CalculationsOf(formula)
        BY <2>6 DEF CalculationsOf
      <4> QED
        BY <4>1, <4>2 DEF Once, Matched
    <3> QED
      BY <3>2, <3>3, <3>4 DEF Once
  <2> QED
    BY <1>2, <2>3, <2>5, <2>6, RunKinds
<1>3. CASE UNCHANGED vars
  BY <1>1, <1>3 DEF vars
<1> QED
  BY <1>1, <1>2, <1>3, NextSplits

-----------------------------------------------------------------------------
(* Theorems.                                                                 *)

LEMMA InitHolds == Init => IInv
<1> SUFFICES ASSUME Init PROVE IInv
  OBVIOUS
<1>1. FactTypeOK
  <2>1. facts \in Seq(Fact) /\ Len(facts) = 0 /\ 0 <= MaxFacts
    BY EmptySeq, Constants DEF Init, FactInit
  <2>2. factlock \in [FactIds -> Processes \cup {NoProcess}]
    BY DEF Init, FactInit
  <2>3. faults \in 0..MaxFaults
    BY Constants DEF Init, FactInit
  <2> QED
    BY <2>1, <2>2, <2>3 DEF Init, FactInit, FactTypeOK, Steps
<1>2. TypeOK
  <2>1. calcs \in Seq(Calculation)
    BY EmptySeq DEF Init
  <2>2. attempts \in [Asks -> Seq(Attempt)]
    BY EmptySeq DEF Init
  <2>3. inputs \in [Calculators -> Seq({0} \cup FactIds)]
    BY EmptySeq DEF Init
  <2>4. runs \in 0..MaxRuns
    BY Constants DEF Init
  <2> QED
    BY <1>1, <2>1, <2>2, <2>3, <2>4 DEF Init, TypeOK, RunStates
<1>3. Room
  <2>1. Busy = {} /\ Len(facts) = 0
    BY DEF Init, FactInit, Busy
  <2> QED
    BY <2>1, FS_EmptySet, Constants DEF Room
<1>4. Reviews
  BY DEF Init, FactInit, Reviews, Reviewing, OneInsert
<1>5. Readings
  BY DEF Init, Readings, Reading
<1>6. Line
  <2>1. DOMAIN facts = {}
    BY DEF Init, FactInit
  <2> QED
    BY <2>1 DEF Line
<1> QED
  BY <1>2, <1>3, <1>4, <1>5, <1>6 DEF IInv

(* What reviews and calculations keep in every state.                        *)
THEOREM Invariance == Spec => []IInv
<1>1. IInv /\ [Next]_vars => IInv'
  BY TypeStep, RoomStep, ReviewsStep, ReadingsStep, LineStep DEF IInv
<1> QED
  BY InitHolds, <1>1, PTL DEF Spec

(* Facts, candidates, reviews, runs and attempts are of their types; no more *)
(* facts are inserted by approve_candidate than there is room for.           *)
THEOREM FiguresTyped == Spec => []TypeOK
  BY Invariance, PTL DEF IInv

(* The facts of a natural key are one line of revisions that ends in its one *)
(* current fact, whatever approve_candidate and approve_candidate_as_revision *)
(* do at once.                                                               *)
THEOREM OneLine == Spec => []RevisionsFormOneLine
<1>1. IInv => RevisionsFormOneLine
  <2> SUFFICES ASSUME IInv, NEW f \in DOMAIN facts
               PROVE  Cardinality(Successors(f)) <= 1
    BY DEF IInv, Line, RevisionsFormOneLine
  <2>1. \A g, h \in Successors(f) : g = h
    BY DEF IInv, Line
  <2>2. CASE Successors(f) = {}
    BY <2>2, FS_EmptySet
  <2>3. CASE Successors(f) # {}
    <3>1. PICK g : Successors(f) = {g}
      BY <2>1, <2>3
    <3> QED
      BY <3>1, FS_Singleton, SMTT(30)
  <2> QED
    BY <2>2, <2>3
<1> QED
  BY <1>1, Invariance, PTL

(* A decision of approve_candidate rests on a fact that is current when it   *)
(* commits.                                                                  *)
THEOREM ApprovalsAreCurrent == Spec => ApprovedByCurrentFact
<1>1. IInv /\ [Next]_vars => [ApprovedStep]_factVars
  <2> SUFFICES ASSUME IInv, [Next]_vars, NEW c \in Candidates,
                      review'[c] = "APPROVED", review[c] # "APPROVED"
               PROVE  LET f == decided'[c] IN
                      /\ f \in DOMAIN facts'
                      /\ facts'[f].open
                      /\ facts'[f].key \in KeysOf[c] /\ facts'[f].value = ValueOf[c]
    BY DEF ApprovedStep
  <2>0. FactTypeOK
    BY DEF IInv, TypeOK
  <2>1. ASSUME UNCHANGED review PROVE FALSE
    BY <2>1
  <2>2. ASSUME NEW d \in Candidates, Reject(d) PROVE FALSE
    BY <2>0, <2>2 DEF Reject, FactTypeOK
  <2>3. ASSUME NEW e \in Calculators, RunMove(e) PROVE FALSE
    BY <2>1, <2>3, RunFrames DEF committed
  <2>4. ASSUME NEW r \in Reviewers, ReviewStep(r)
        PROVE  (Corroborate(r) \/ CommitFact(r)) /\ subject[r] = c
    <3>1. CASE \E d \in Candidates :
                   Approve(r, d) \/ \E f \in DOMAIN facts : Revise(r, d, f)
      BY <2>1, <3>1 DEF Approve, Revise, Look, committed
    <3>2. Corroborate(r) \/ CommitFact(r)
      BY <2>1, <2>4, <3>1
         DEF ReviewStep, DecideReview, LockFact, Insert, RecordConflict,
             RefuseRevision, InsertRefused, AbortReview, committed
    <3>3. review' = [review EXCEPT ![subject[r]] = "APPROVED"]
      BY <3>2 DEF Corroborate, CommitFact
    <3> QED
      BY <2>0, <3>2, <3>3 DEF FactTypeOK
  <2>5. ASSUME NEW r \in Reviewers, Corroborate(r), subject[r] = c
        PROVE  /\ decided'[c] \in DOMAIN facts' /\ facts'[decided'[c]].open
               /\ facts'[decided'[c]].key \in KeysOf[c]
               /\ facts'[decided'[c]].value = ValueOf[c]
    <3>1. /\ decided'[c] = held[r] /\ facts' = facts
          /\ facts[held[r]].value = ValueOf[c] /\ held[r] # 0 /\ step[r] = "locked"
      BY <2>0, <2>5 DEF Corroborate, FactTypeOK
    <3>2. Held(r, held[r], natural[r]) /\ natural[r] \in KeysOf[c]
      BY <2>5, <3>1 DEF IInv, Reviews, Reviewing
    <3> QED
      BY <3>1, <3>2 DEF Held
  <2>6. ASSUME NEW r \in Reviewers, CommitFact(r), subject[r] = c
        PROVE  /\ decided'[c] \in DOMAIN facts' /\ facts'[decided'[c]].open
               /\ facts'[decided'[c]].key \in KeysOf[c]
               /\ facts'[decided'[c]].value = ValueOf[c]
    <3>1. decided'[c] = Len(facts) + 1
      BY <2>0, <2>6 DEF CommitFact, FactTypeOK
    <3>2. natural[r] \in KeysOf[c]
      BY <2>6 DEF CommitFact, IInv, Reviews, Reviewing
    <3>3. /\ DOMAIN facts' = DOMAIN facts \cup {Len(facts) + 1}
          /\ facts'[Len(facts) + 1] = NewFact(r)
      BY <2>0, <2>6, <3>2, Committed
    <3> QED
      BY <2>6, <3>1, <3>2, <3>3 DEF NewFact
  <2>7. CASE UNCHANGED vars
    BY <2>1, <2>7 DEF vars, factVars, committed
  <2> QED
    BY <2>2, <2>3, <2>4, <2>5, <2>6, <2>7, NextSplits
<1> QED
  BY <1>1, Invariance, PTL DEF Spec, ApprovedByCurrentFact

(* run_calculation commits from facts that are current together, comparable, *)
(* and of the keys its formula asks for, whatever is revised meanwhile.      *)
THEOREM InputsAreCurrent == Spec => InputsCurrentAtCommit
<1>1. IInv /\ [Next]_vars => [CalculatedStep]_vars
  <2> SUFFICES ASSUME IInv, [Next]_vars, Len(calcs') > Len(calcs)
               PROVE  CalculatedStep
    BY DEF CalculatedStep
  <2>0. TypeOK /\ FactTypeOK
    BY DEF IInv, TypeOK
  <2>1. ASSUME UNCHANGED calcs PROVE FALSE
    <3>1. Len(calcs) \in Nat
      BY <2>0, LenProperties DEF TypeOK
    <3> QED
      BY <2>1, <3>1
  <2>2. ASSUME NEW e \in Calculators, RunMove(e)
        PROVE  Effects(e) /\ facts' = facts
    <3>1. Complete(e) \/ CompleteUnacknowledged(e)
      BY <2>1, <2>2
         DEF RunMove, RunStep, Start, LookRole, LockRole, LockRoleAmbiguous,
             RefuseInputs, LockRequest, Reuse, Return, Victim, LockForFailure,
             RecordFailure, Raise, GiveUp
    <3> QED
      BY <3>1 DEF Complete, CompleteUnacknowledged, FactsKept, committed
  <2>3. ASSUME NEW e \in Calculators, Effects(e), facts' = facts
        PROVE  CalculatedStep
    <3>1. /\ run[e] = "requested" /\ calcs' = Append(calcs, Computation(e))
      BY <2>3 DEF Effects
    <3>2. /\ Len(inputs[e]) = Len(Roles(e)) /\ Usable(e)
          /\ \A i \in 1..Len(inputs[e]) : Read(e, i)
      BY <3>1 DEF IInv, Readings, Reading
    <3>3. calcs'[Len(calcs')] = Computation(e)
      BY <2>0, <3>1 DEF TypeOK
    <3>4. /\ DOMAIN inputs[e] = 1..Len(inputs[e])
          /\ Range(inputs[e]) = {inputs[e][i] : i \in 1..Len(inputs[e])}
      BY <2>0, InputsTyped
    <3>5. \A i \in 1..Len(inputs[e]) : inputs[e][i] # 0
      BY <3>2, <3>4 DEF Usable
    <3>6. \A i \in 1..Len(inputs[e]) :
              /\ inputs[e][i] \in DOMAIN facts /\ facts[inputs[e][i]].open
              /\ facts[inputs[e][i]].key \in Roles(e)[i]
      BY <3>2, <3>5 DEF Read, Held
    <3>7. \A f \in Range(inputs[e]) : f \in DOMAIN facts /\ facts[f].open
      BY <3>4, <3>6
    <3>8. Comparable[{facts[f].key : f \in Range(inputs[e])}]
      BY <3>2 DEF Usable
    <3>9. /\ Computation(e).inputs = inputs[e]
          /\ RolesOf[Computation(e).formula] = Roles(e)
      BY DEF Computation, Roles
    <3> QED
      BY <2>3, <3>2, <3>3, <3>4, <3>6, <3>7, <3>8, <3>9 DEF CalculatedStep
  <2>4. ASSUME UNCHANGED calcVars PROVE FALSE
    BY <2>1, <2>4 DEF calcVars
  <2>5. CASE UNCHANGED vars
    BY <2>4, <2>5 DEF vars
  <2> QED
    BY <2>2, <2>3, <2>4, <2>5, NextSplits
<1> QED
  BY <1>1, Invariance, PTL DEF Spec, InputsCurrentAtCommit

LEMMA OnceStarts == Init => Once
<1> SUFFICES ASSUME Init PROVE Once
  OBVIOUS
<1>1. DOMAIN calcs = {} /\ \A a \in Asks : DOMAIN attempts[a] = {}
  BY DEF Init
<1>2. \A formula \in Formulas :
          CompletedAttempts(formula) = {} /\ CalculationsOf(formula) = {}
  BY <1>1 DEF CompletedAttempts, CalculationsOf
<1>3. \A formula \in Formulas : Matched(formula)
  BY <1>2, FS_EmptySet DEF Matched
<1>4. \A e \in Calculators : Taking(e) /\ Novel(e)
  BY DEF Init, Taking, Novel
<1> QED
  BY <1>1, <1>3, <1>4 DEF Once, Numbered, Distinct

(* run_calculation calculates the same inputs once, with one completed       *)
(* attempt for each calculation and no gap in the numbers of the attempts.   *)
THEOREM OneCalculation == Spec => []CalculatedOnce
<1>1. Once => CalculatedOnce
  BY DEF Once, Numbered, Distinct, Matched, CalculatedOnce
<1> QED
  BY <1>1, OnceStarts, OnceStep, Invariance, PTL DEF Spec

-----------------------------------------------------------------------------
(* The ledger.                                                               *)

(* A review under way has its candidate, undecided, to itself.               *)
Undecided ==
    /\ \A r \in Reviewers : step[r] # "idle" => review[subject[r]] = "PENDING"
    /\ \A q, r \in Reviewers :
           q # r /\ step[q] # "idle" /\ step[r] # "idle" => subject[q] # subject[r]

LEMMA UndecidedStep == IInv /\ Undecided /\ [Next]_vars => Undecided'
<1> SUFFICES ASSUME IInv, Undecided, [Next]_vars PROVE Undecided'
  OBVIOUS
<1>0. /\ FactTypeOK
      /\ \A r \in Reviewers : step[r] # "idle" => subject[r] \in Candidates
  BY DEF IInv, TypeOK, Reviews, Reviewing
<1>1. ASSUME UNCHANGED <<review, request>> PROVE Undecided'
  BY <1>1 DEF Undecided, request
<1>2. ASSUME NEW r \in Reviewers, Close(r), step[r] # "idle",
             \A c \in Candidates : c # subject[r] => review'[c] = review[c]
      PROVE  Undecided'
  <2>1. /\ step' = [step EXCEPT ![r] = "idle"]
        /\ \A q \in Reviewers \ {r} : subject'[q] = subject[q]
    BY <1>0, <1>2 DEF Close, FactTypeOK
  <2>2. ASSUME NEW q \in Reviewers, step'[q] # "idle"
        PROVE  q # r /\ step[q] # "idle" /\ subject'[q] = subject[q]
    BY <1>0, <2>1, <2>2 DEF FactTypeOK
  <2> QED
    BY <1>0, <1>2, <2>2 DEF Undecided
<1>3. ASSUME NEW r \in Reviewers, ReviewStep(r) PROVE Undecided'
  <2>1. ASSUME NEW c \in Candidates, NEW k, NEW expected, NEW fact,
               Look(r, c, k, expected, fact)
        PROVE  Undecided'
    <3>1. /\ step' = [step EXCEPT ![r] = "looked"]
          /\ subject' = [subject EXCEPT ![r] = c]
          /\ review' = review /\ review[c] = "PENDING"
          /\ \A q \in Reviewers : subject[q] # c
      BY <2>1 DEF Look, committed, CandidateFree
    <3> QED
      BY <1>0, <3>1 DEF Undecided, FactTypeOK
  <2>2. CASE LockFact(r) \/ Insert(r)
    <3>1. /\ review' = review /\ subject' = subject
          /\ step[r] # "idle"
          /\ \E state : step' = [step EXCEPT ![r] = state]
      BY <2>2 DEF LockFact, Insert, Inserts, committed
    <3> QED
      BY <1>0, <3>1 DEF Undecided, FactTypeOK
  <2>3. CASE RecordConflict(r) \/ RefuseRevision(r) \/ InsertRefused(r) \/ AbortReview(r)
    BY <1>2, <2>3 DEF RecordConflict, RefuseRevision, InsertRefused, AbortReview,
                      Inserts, committed
  <2>4. CASE Corroborate(r) \/ CommitFact(r)
    <3>1. /\ Close(r) /\ step[r] # "idle"
          /\ review' = [review EXCEPT ![subject[r]] = "APPROVED"]
      BY <2>4 DEF Corroborate, CommitFact
    <3>2. \A c \in Candidates : c # subject[r] => review'[c] = review[c]
      BY <1>0, <3>1 DEF FactTypeOK
    <3> QED
      BY <1>2, <3>1, <3>2
  <2> QED
    BY <1>3, <2>1, <2>2, <2>3, <2>4 DEF ReviewStep, DecideReview, Approve, Revise
<1>4. ASSUME NEW c \in Candidates, Reject(c) PROVE Undecided'
  <2>1. /\ step' = step /\ subject' = subject
        /\ review' = [review EXCEPT ![c] = "REJECTED"]
        /\ \A q \in Reviewers : subject[q] # c
    BY <1>4 DEF Reject, request, CandidateFree
  <2> QED
    BY <1>0, <2>1 DEF Undecided, FactTypeOK
<1>5. ASSUME NEW e \in Calculators, RunMove(e) PROVE Undecided'
  BY <1>1, <1>5, RunFrames DEF committed
<1>6. CASE UNCHANGED vars
  BY <1>1, <1>6 DEF vars, factVars, committed
<1> QED
  BY <1>3, <1>4, <1>5, <1>6, NextSplits

(* The entries are the facts, without their place in the line of revisions.  *)
Figure == [key : Keys, value : Values, source : Candidates]

LEMMA EntriesAre ==
    ASSUME FactTypeOK
    PROVE  /\ Entries \in Seq(Figure) /\ Len(Entries) = Len(facts)
           /\ DOMAIN Entries = 1..Len(facts) /\ Len(facts) \in Nat
           /\ \A f \in DOMAIN facts :
                  Entries[f] = [key |-> facts[f].key, value |-> facts[f].value,
                                source |-> facts[f].source]
<1>1. /\ Len(facts) \in Nat /\ DOMAIN facts = 1..Len(facts)
      /\ \A f \in DOMAIN facts : facts[f] \in Fact
  BY FactsTyped
<1>2. \A f \in DOMAIN facts : Entries[f] \in Figure
  BY <1>1 DEF Entries, Fact, Figure
<1>3. Entries \in [1..Len(facts) -> Figure]
  BY <1>1, <1>2 DEF Entries
<1>4. Entries \in Seq(Figure) /\ Len(Entries) = Len(facts)
  BY <1>1, <1>3
<1> QED
  BY <1>1, <1>3, <1>4 DEF Entries

(* The figure in force of a key is its only current fact.                    *)
LEMMA OneInForce ==
    ASSUME FactTypeOK, Line, NEW f \in DOMAIN facts, facts[f].open
    PROVE  facts[f].key \in Keys /\ InForce[facts[f].key] = f
<1>1. facts[f].key \in Keys
  BY FactsTyped DEF Fact
<1>2. Current({facts[f].key}) = {f}
  BY DEF Line, Current
<1>3. CurrentOf(facts[f].key) = f
  BY <1>2 DEF CurrentOf
<1> QED
  BY <1>1, <1>3 DEF InForce

LEMMA SameChoice ==
    ASSUME NEW S, NEW T, S = T
    PROVE  (IF S = {} THEN 0 ELSE CHOOSE f \in S : TRUE)
               = (IF T = {} THEN 0 ELSE CHOOSE f \in T : TRUE)
  OBVIOUS

LEMMA EnterRefines ==
    ASSUME IInv, Undecided, NEW r \in Reviewers, CommitFact(r), UNCHANGED calcs
    PROVE  /\ subject[r] \in Candidates /\ natural[r] \in KeysOf[subject[r]]
           /\ Ledger!Enter(subject[r], natural[r])
<1>0. PICK n, c, k, x :
          /\ n = Len(facts) + 1 /\ c = subject[r] /\ k = natural[r]
          /\ x = [key |-> k, value |-> ValueOf[c], source |-> c]
  OBVIOUS
<1>1. /\ FactTypeOK /\ Line /\ Reviewing(r) /\ step[r] = "inserted"
  BY DEF IInv, TypeOK, Reviews, CommitFact
<1>2. c \in Candidates /\ k \in KeysOf[c] /\ k \in Keys /\ x \in Figure
  BY <1>0, <1>1, Constants DEF Reviewing, Figure
<1>3. /\ review[c] = "PENDING"
      /\ review' = [review EXCEPT ![c] = "APPROVED"]
      /\ decided' = [decided EXCEPT ![c] = n]
  BY <1>0, <1>1 DEF CommitFact, Undecided
<1>4. /\ facts' \in Seq(Fact)
      /\ DOMAIN facts' = DOMAIN facts \cup {n}
      /\ facts'[n] = NewFact(r)
      /\ \A f \in DOMAIN facts :
             /\ facts'[f].key = facts[f].key
             /\ facts'[f].value = facts[f].value
             /\ facts'[f].source = facts[f].source
             /\ facts'[f].open <=> facts[f].open /\ f # held[r]
  BY <1>0, <1>1, <1>2, Committed, ZenonT(60)
<1>5. facts'[n] = NewFact(r)
  BY <1>4
<1>6. /\ facts'[n].key = k /\ facts'[n].value = ValueOf[c]
      /\ facts'[n].source = c /\ facts'[n].open
  BY <1>0, <1>5 DEF NewFact
<1>7. /\ n \in Nat /\ DOMAIN facts = 1..(n - 1) /\ n \notin DOMAIN facts
      /\ 0 \notin DOMAIN facts /\ DOMAIN facts' = 1..n
  BY <1>0, <1>1, <1>4, FactsTyped
<1>8. /\ Entries \in Seq(Figure) /\ Len(Entries) = n - 1
      /\ \A f \in DOMAIN facts :
             Entries[f] = [key |-> facts[f].key, value |-> facts[f].value,
                           source |-> facts[f].source]
  BY <1>0, <1>1, <1>7, EntriesAre
<1>9. Entries' = Append(Entries, x)
  <2>1. Entries' = [f \in 1..n |-> [key |-> facts'[f].key, value |-> facts'[f].value,
                                    source |-> facts'[f].source]]
    BY <1>7 DEF Entries
  <2>2. Entries'[n] = x
    BY <1>0, <1>6, <1>7, <2>1
  <2>3. \A f \in 1..(n - 1) : Entries'[f] = Entries[f]
    BY <1>4, <1>7, <1>8, <2>1
  <2>4. /\ Append(Entries, x) \in Seq(Figure) /\ Len(Append(Entries, x)) = n
        /\ \A f \in 1..(n - 1) : Append(Entries, x)[f] = Entries[f]
        /\ Append(Entries, x)[n] = x
    BY <1>2, <1>7, <1>8, AppendProperties
  <2>5. \A f \in 1..n : Entries'[f] = Append(Entries, x)[f]
    BY <1>7, <2>2, <2>3, <2>4
  <2>6. Append(Entries, x) \in [1..n -> Figure]
    BY <2>4, LenProperties
  <2> QED
    BY <2>1, <2>5, <2>6
<1>10. Current({k}) \subseteq {held[r]}
  BY <1>0, <1>1 DEF Reviewing
<1>11. \A f \in DOMAIN facts : f = held[r] => facts[f].key = k
  BY <1>0, <1>1, <1>7 DEF Reviewing, Held
<1>12. Current({k})' = {n}
  BY <1>4, <1>6, <1>10 DEF Current
<1>13. ASSUME NEW l \in Keys, l # k PROVE Current({l})' = Current({l})
  BY <1>4, <1>6, <1>11, <1>13 DEF Current
<1>14. InForce' = [InForce EXCEPT ![k] = n]
  <2>1. CurrentOf(k)' = n
    BY <1>12 DEF CurrentOf
  <2>2. ASSUME NEW l \in Keys, l # k PROVE CurrentOf(l)' = CurrentOf(l)
    <3>1. Current({l})' = Current({l})
      BY <1>13, <2>2
    <3> QED
      BY <3>1, SameChoice DEF CurrentOf
  <2>3. InForce' = [l \in Keys |-> CurrentOf(l)'] /\ InForce = [l \in Keys |-> CurrentOf(l)]
    BY DEF InForce
  <2> QED
    BY <1>2, <2>1, <2>2, <2>3
<1>15. ~Ledger!Agrees(c, k)
  <2> SUFFICES ASSUME InForce[k] # 0, Entries[InForce[k]].value = ValueOf[c]
               PROVE  FALSE
    BY <1>0 DEF Ledger!Agrees
  <2>1. InForce[k] = CurrentOf(k)
    BY <1>2 DEF InForce
  <2>2. CurrentOf(k) \in Current({k})
    BY <2>1 DEF CurrentOf
  <2>3. held[r] = CurrentOf(k) /\ held[r] \in DOMAIN facts
    BY <1>10, <2>2 DEF Current
  <2>4. facts[held[r]].value # ValueOf[c]
    BY <1>0, <1>1, <1>7, <2>3 DEF Reviewing
  <2>5. Entries[held[r]].value = facts[held[r]].value
    BY <2>3 DEF Entries
  <2> QED
    BY <2>1, <2>3, <2>4, <2>5
<1>16. Ledger!Approve(c, n)
  BY <1>3 DEF Ledger!Approve
<1>17. n = Len(Entries) + 1
  BY <1>7, <1>8
<1>18. Ledger!Enter(c, k)
  BY <1>0, <1>9, <1>14, <1>15, <1>16, <1>17 DEF Ledger!Enter
<1> QED
  BY <1>0, <1>2, <1>18

LEMMA LedgerKept == UNCHANGED facts => UNCHANGED <<Entries, InForce>>
<1> SUFFICES ASSUME UNCHANGED facts PROVE UNCHANGED <<Entries, InForce>>
  OBVIOUS
<1>1. Entries' = Entries
  BY DEF Entries
<1>2. ASSUME NEW k \in Keys PROVE CurrentOf(k)' = CurrentOf(k)
  <2>1. Current({k})' = Current({k})
    BY DEF Current
  <2> QED
    BY <2>1, SameChoice DEF CurrentOf
<1>3. InForce' = [k \in Keys |-> CurrentOf(k)'] /\ InForce = [k \in Keys |-> CurrentOf(k)]
  BY DEF InForce
<1> QED
  BY <1>1, <1>2, <1>3

LEMMA ConfirmRefines ==
    ASSUME IInv, Undecided, NEW r \in Reviewers, Corroborate(r), UNCHANGED calcs
    PROVE  /\ subject[r] \in Candidates /\ natural[r] \in KeysOf[subject[r]]
           /\ Ledger!Confirm(subject[r], natural[r])
<1>0. PICK c, f, k : c = subject[r] /\ f = held[r] /\ k = natural[r]
  OBVIOUS
<1>1. /\ FactTypeOK /\ Line /\ Reviewing(r) /\ step[r] = "locked" /\ f # 0
      /\ facts[f].value = ValueOf[c]
  BY <1>0 DEF IInv, TypeOK, Reviews, Corroborate
<1>2. /\ c \in Candidates /\ k \in KeysOf[c]
      /\ f \in DOMAIN facts /\ facts[f].open /\ facts[f].key = k
  BY <1>0, <1>1 DEF Reviewing, Held
<1>3. InForce[k] = f
  BY <1>1, <1>2, OneInForce
<1>4. Entries[f].value = ValueOf[c]
  BY <1>1, <1>2 DEF Entries
<1>5. Ledger!Agrees(c, k)
  BY <1>1, <1>3, <1>4 DEF Ledger!Agrees
<1>6. Ledger!Approve(c, f)
  BY <1>0, <1>1 DEF Corroborate, Undecided, Ledger!Approve
<1>7. Ledger!Confirm(c, k)
  BY <1>3, <1>5, <1>6, LedgerKept DEF Ledger!Confirm, Corroborate
<1> QED
  BY <1>0, <1>2, <1>7

LEMMA CalculateRefines ==
    ASSUME IInv, Once, NEW e \in Calculators, Effects(e),
           UNCHANGED <<facts, review, decided>>
    PROVE  Ledger!Next
<1>0. PICK formula, roles, used :
          formula = FormulaOf[ask[e]] /\ roles = Roles(e) /\ used = inputs[e]
  OBVIOUS
<1>1. /\ TypeOK /\ FactTypeOK /\ Line /\ ask[e] \in Asks /\ Usable(e)
      /\ Len(used) = Len(roles)
      /\ \A i \in 1..Len(used) : Read(e, i)
      /\ calcs' = Append(calcs, Computation(e))
      /\ Computation(e) \notin Range(calcs)
  BY <1>0 DEF IInv, TypeOK, Readings, Reading, Effects, Once, Novel
<1>2. formula \in Formulas /\ roles = RolesOf[formula] /\ roles \in Seq(SUBSET Keys)
  BY <1>0, <1>1, Constants DEF Roles
<1>3. /\ DOMAIN roles = 1..Len(used) /\ used \in [1..Len(used) -> {0} \cup FactIds]
      /\ Range(used) = {used[i] : i \in 1..Len(used)}
  BY <1>0, <1>1, <1>2, InputsTyped, LenProperties
<1>4. ASSUME NEW i \in DOMAIN roles
      PROVE  /\ used[i] # 0 /\ used[i] \in DOMAIN facts
             /\ \E k \in roles[i] : used[i] = InForce[k]
  <2>1. used[i] # 0
    BY <1>0, <1>1, <1>3 DEF Usable
  <2>2. PICK k \in roles[i] : Held(e, used[i], k)
    BY <1>0, <1>1, <1>3, <2>1 DEF Read
  <2>3. used[i] \in DOMAIN facts /\ facts[used[i]].open /\ facts[used[i]].key = k
    BY <2>2 DEF Held
  <2>4. InForce[k] = used[i]
    BY <1>1, <2>3, OneInForce
  <2> QED
    BY <2>1, <2>3, <2>4
<1>5. Comparable[{Entries[used[i]].key : i \in DOMAIN roles}]
  <2>1. {Entries[used[i]].key : i \in DOMAIN roles}
            = {facts[f].key : f \in Range(used)}
    <3>1. \A i \in DOMAIN roles : Entries[used[i]].key = facts[used[i]].key
      BY <1>4 DEF Entries
    <3> QED
      BY <1>3, <3>1
  <2> QED
    BY <1>0, <1>1, <2>1 DEF Usable
<1>6. DOMAIN Entries = DOMAIN facts
  BY DEF Entries
<1>7. used \in [DOMAIN roles -> DOMAIN Entries]
  BY <1>3, <1>4, <1>6
<1>8. Computation(e) = [formula |-> formula, inputs |-> used]
  BY <1>0 DEF Computation
<1>9. \A n \in DOMAIN calcs : calcs[n] # [formula |-> formula, inputs |-> used]
  BY <1>1, <1>8 DEF Range
<1>10. Ledger!Calculate(formula, used)
  BY <1>1, <1>2, <1>4, <1>5, <1>8, <1>9, LedgerKept DEF Ledger!Calculate
<1> QED
  BY <1>2, <1>7, <1>10 DEF Ledger!Next

LEMMA LedgerStep == IInv /\ Undecided /\ Once /\ [Next]_vars => [Ledger!Next]_(Ledger!ledgerVars)
<1> SUFFICES ASSUME IInv, Undecided, Once, [Next]_vars
             PROVE  Ledger!Next \/ UNCHANGED Ledger!ledgerVars
  OBVIOUS
<1>1. ASSUME UNCHANGED <<facts, review, decided, calcs>>
      PROVE  UNCHANGED Ledger!ledgerVars
  BY <1>1, LedgerKept DEF Ledger!ledgerVars
<1>2. ASSUME NEW r \in Reviewers, ReviewStep(r), UNCHANGED calcVars
      PROVE  Ledger!Next \/ UNCHANGED Ledger!ledgerVars
  <2>0. calcs' = calcs
    BY <1>2 DEF calcVars
  <2>1. CASE Corroborate(r)
    BY <2>0, <2>1, ConfirmRefines DEF Ledger!Next
  <2>2. CASE CommitFact(r)
    BY <2>0, <2>2, EnterRefines DEF Ledger!Next
  <2>3. CASE \E c \in Candidates :
                 Approve(r, c) \/ \E f \in DOMAIN facts : Revise(r, c, f)
    BY <1>1, <2>0, <2>3 DEF Approve, Revise, Look, committed
  <2>4. CASE LockFact(r) \/ RecordConflict(r) \/ RefuseRevision(r)
             \/ Insert(r) \/ InsertRefused(r) \/ AbortReview(r)
    BY <1>1, <2>0, <2>4 DEF LockFact, RecordConflict, RefuseRevision, Insert,
                            InsertRefused, AbortReview, committed
  <2> QED
    BY <1>2, <2>1, <2>2, <2>3, <2>4 DEF ReviewStep, DecideReview
<1>3. ASSUME NEW c \in Candidates, Reject(c), UNCHANGED calcVars
      PROVE  Ledger!Next
  <2>1. Ledger!Reject(c)
    BY <1>3, LedgerKept DEF Reject, calcVars, Ledger!Reject
  <2> QED
    BY <2>1 DEF Ledger!Next
<1>4. ASSUME NEW e \in Calculators, RunMove(e)
      PROVE  Ledger!Next \/ UNCHANGED Ledger!ledgerVars
  <2>1. UNCHANGED <<facts, review, decided>>
    BY <1>4, RunFrames DEF committed
  <2>2. UNCHANGED calcs \/ Effects(e)
    BY <1>4, RunKinds
  <2> QED
    BY <1>1, <2>1, <2>2, CalculateRefines
<1>5. CASE UNCHANGED vars
  BY <1>1, <1>5 DEF vars, factVars, committed, calcVars
<1> QED
  BY <1>2, <1>3, <1>4, <1>5, NextSplits

LEMMA LedgerStarts == Init => Ledger!Init
<1> SUFFICES ASSUME Init PROVE Ledger!Init
  OBVIOUS
<1>1. facts = <<>> /\ DOMAIN facts = {}
  BY DEF Init, FactInit
<1>2. Entries = <<>>
  BY <1>1 DEF Entries
<1>3. ASSUME NEW k \in Keys PROVE CurrentOf(k) = 0
  BY <1>1 DEF CurrentOf, Current
<1>4. InForce = [k \in Keys |-> 0]
  BY <1>3 DEF InForce
<1> QED
  BY <1>2, <1>4 DEF Init, FactInit, Ledger!Init

(* Reviews and calculations, which look, wait, lock, test again, insert and  *)
(* commit in transactions of their own, do together what a ledger does that  *)
(* takes each decision and each calculation at once: every commit of         *)
(* review_candidate, create_revision and run_calculation is one entry,       *)
(* confirmation, rejection or calculation of figures in force at that        *)
(* moment, and no other step of theirs shows.                                *)
THEOREM LedgerIsImplemented == Spec => ImplementsLedger
<1>1. Init => Undecided
  BY DEF Init, FactInit, Undecided
<1>2. Init => Once
  BY OnceStarts
<1>3. Spec => [](Undecided /\ Once)
  BY <1>1, <1>2, UndecidedStep, OnceStep, Invariance, PTL DEF Spec
<1> QED
  BY <1>3, LedgerStarts, LedgerStep, Invariance, PTL
     DEF Spec, ImplementsLedger, Ledger!Spec
===============================================================================
