------------------------------ MODULE FactReview ------------------------------
(***************************************************************************)
(* The review of extracted candidates: approving one makes it a financial  *)
(* fact, or corroborates the fact that is there, or records a conflict;    *)
(* an explicit revision closes the current fact and supersedes it.         *)
(*                                                                         *)
(* Each operation is a transaction that locks its candidate, then reads    *)
(* the current fact FOR UPDATE.  At READ COMMITTED such a read finds its   *)
(* row in the snapshot of the statement, waits for whoever holds the row,  *)
(* and then tests the condition again: a fact that was superseded while    *)
(* the statement waited is dropped from the result, and the fact that      *)
(* superseded it is not found in its place.  Reading is therefore two      *)
(* steps, looking and locking.                                             *)
(*                                                                         *)
(* A key is a natural key: institution, period, metric, basis, currency    *)
(* and unit.  The reviewer may name the basis, whatever the extraction     *)
(* made of it, so that one candidate can become a fact of several keys.    *)
(* A fact is named by its place in the order of insertion.                 *)
(***************************************************************************)
EXTENDS Naturals, Sequences, FiniteSets

CONSTANTS
    Keys, NoKey, Values,
    Candidates,
    KeysOf,             \* of a candidate: a key for each basis it may have
    ValueOf,            \* of a candidate that has been normalized
    Reviewers,          \* concurrent review requests
    Processes,          \* all that lock facts, the reviewers among them
    NoCandidate, NoProcess,
    MaxFacts,           \* bound: facts, with those that may come of reviews
    MaxRejections,      \* bound: candidates rejected
    MaxFaults           \* bound: crashes, failing statements, lost answers

ASSUME FactAssumption ==
    /\ NoKey \notin Keys
    /\ KeysOf \in [Candidates -> SUBSET Keys]
    /\ ValueOf \in [Candidates -> Values]
    /\ IsFiniteSet(Candidates)
    /\ NoCandidate \notin Candidates
    /\ Reviewers \subseteq Processes
    /\ IsFiniteSet(Processes)
    /\ NoProcess \notin Processes
    /\ MaxFacts \in Nat
    /\ MaxRejections \in Nat
    /\ MaxFaults \in Nat

VARIABLES
    facts,        \* financial_facts in order of insertion
    factlock,     \* the process whose open transaction holds a fact
    review,       \* review_status of a candidate
    conflict,     \* conflicting_fact_id, 0 for none
    decided,      \* created_fact_id of the approving decision, 0 for none
    \* a review request
    step, subject,
    natural,      \* the key it approves its candidate on
    target,       \* expected_existing_fact_id of a revision, 0 for an approval
    seen,         \* the fact its statement found, 0 for none
    held,         \* the fact it has locked, 0 for none
    faults

committed == <<facts, review, conflict, decided>>
request == <<step, subject, natural, target, seen, held>>
factVars == <<committed, factlock, request, faults>>

FactIds == 1..MaxFacts

Fact == [key : Keys, value : Values, source : Candidates, open : BOOLEAN,
         supersedes : {0} \cup FactIds]

Steps == {"idle", "looked", "locked", "inserted"}

FactTypeOK ==
    /\ facts \in Seq(Fact) /\ Len(facts) <= MaxFacts
    /\ factlock \in [FactIds -> Processes \cup {NoProcess}]
    /\ review \in [Candidates -> {"PENDING", "APPROVED", "REJECTED"}]
    /\ conflict \in [Candidates -> {0} \cup FactIds]
    /\ decided \in [Candidates -> {0} \cup FactIds]
    /\ step \in [Reviewers -> Steps]
    /\ subject \in [Reviewers -> Candidates \cup {NoCandidate}]
    /\ natural \in [Reviewers -> Keys \cup {NoKey}]
    /\ target \in [Reviewers -> {0} \cup FactIds]
    /\ seen \in [Reviewers -> {0} \cup FactIds]
    /\ held \in [Reviewers -> {0} \cup FactIds]
    /\ faults \in 0..MaxFaults

\* Candidates come of the extraction, PENDING and without a conflict.
FactInit ==
    /\ facts = <<>>
    /\ factlock = [f \in FactIds |-> NoProcess]
    /\ review = [c \in Candidates |-> "PENDING"]
    /\ conflict = [c \in Candidates |-> 0]
    /\ decided = [c \in Candidates |-> 0]
    /\ step = [r \in Reviewers |-> "idle"]
    /\ subject = [r \in Reviewers |-> NoCandidate]
    /\ natural = [r \in Reviewers |-> NoKey]
    /\ target = [r \in Reviewers |-> 0]
    /\ seen = [r \in Reviewers |-> 0]
    /\ held = [r \in Reviewers |-> 0]
    /\ faults = 0

------------------------------------------------------------------------------
(* Reading FOR UPDATE, by whoever does it. *)

Open(f) == f \in DOMAIN facts /\ facts[f].open

\* The facts of a set of keys that are current.
Current(keys) == {f \in DOMAIN facts : facts[f].open /\ facts[f].key \in keys}

\* The fact a read of one key finds, 0 if there is none.
CurrentOf(k) == IF Current({k}) = {} THEN 0 ELSE CHOOSE f \in Current({k}) : TRUE

Free(f, p) == factlock[f] \in {NoProcess, p}

\* Deviation: the statement waits for nobody and locks nothing.
LockNone(p, found) == UNCHANGED factlock

\* The rows found are locked, when nobody else holds them ...
LockRows(p, found) ==
    /\ \A f \in found : Free(f, p)
    /\ factlock' = [f \in FactIds |->
                       IF f \in found /\ Open(f) THEN p ELSE factlock[f]]

\* ... and those that were superseded meanwhile are not returned.
Rechecked(found) == {f \in found : Open(f)}

\* The transaction ends, one way or the other.
FreeAll(p) ==
    factlock' = [f \in FactIds |->
                    IF factlock[f] = p THEN NoProcess ELSE factlock[f]]

Fault == faults < MaxFaults /\ faults' = faults + 1

------------------------------------------------------------------------------
(* Reviewing a candidate. *)

\* SELECT ... FOR UPDATE of the candidate.
CandidateFree(c) == \A r \in Reviewers : subject[r] # c

Close(r) ==
    /\ step' = [step EXCEPT ![r] = "idle"]
    /\ subject' = [subject EXCEPT ![r] = NoCandidate]
    /\ natural' = [natural EXCEPT ![r] = NoKey]
    /\ target' = [target EXCEPT ![r] = 0]
    /\ seen' = [seen EXCEPT ![r] = 0]
    /\ held' = [held EXCEPT ![r] = 0]
    /\ FreeAll(r)

\* The candidate is locked and has not been reviewed; its evidence is checked,
\* a basis is settled and with it the key, and the statement that reads the fact
\* takes its snapshot.
Look(r, c, k, expected, fact) ==
    /\ step[r] = "idle"
    /\ Len(facts) + Cardinality({q \in Reviewers : step[q] # "idle"}) < MaxFacts
    /\ CandidateFree(c)
    /\ review[c] = "PENDING"
    /\ k \in KeysOf[c]
    /\ step' = [step EXCEPT ![r] = "looked"]
    /\ subject' = [subject EXCEPT ![r] = c]
    /\ natural' = [natural EXCEPT ![r] = k]
    /\ target' = [target EXCEPT ![r] = expected]
    /\ seen' = [seen EXCEPT ![r] = fact]
    /\ UNCHANGED <<committed, factlock, held, faults>>

Approve(r, c) == \E k \in KeysOf[c] : Look(r, c, k, 0, CurrentOf(k))

\* A revision names the fact it supersedes.  It is refused when the candidate
\* is in conflict with another fact, and when the fact is not current or is
\* not one of the key.
Revise(r, c, f) ==
    /\ conflict[c] \in {0, f}
    /\ Open(f)
    /\ Look(r, c, facts[f].key, f, f)

\* The row is locked once it is free, if it is still current.
LockFact(r) ==
    LET found == {seen[r]} \ {0} IN
    /\ step[r] = "looked"
    /\ LockRows(r, found)
    /\ held' = [held EXCEPT ![r] = IF Rechecked(found) = {} THEN 0 ELSE seen[r]]
    /\ seen' = [seen EXCEPT ![r] = 0]
    /\ step' = [step EXCEPT ![r] = "locked"]
    /\ UNCHANGED <<committed, subject, natural, target, faults>>

\* Deviation: the values are not compared.
CorroborateAnyValue(r) ==
    LET c == subject[r] IN
    /\ step[r] = "locked" /\ target[r] = 0
    /\ held[r] # 0
    /\ review' = [review EXCEPT ![c] = "APPROVED"]
    /\ decided' = [decided EXCEPT ![c] = held[r]]
    /\ Close(r)
    /\ UNCHANGED <<facts, conflict, faults>>

\* The same value: the candidate is approved, the fact stays what it is.
Corroborate(r) ==
    LET c == subject[r] IN
    /\ step[r] = "locked" /\ target[r] = 0
    /\ held[r] # 0 /\ facts[held[r]].value = ValueOf[c]
    /\ review' = [review EXCEPT ![c] = "APPROVED"]
    /\ decided' = [decided EXCEPT ![c] = held[r]]
    /\ Close(r)
    /\ UNCHANGED <<facts, conflict, faults>>

\* Another value: the conflict is committed, the approval fails.
RecordConflict(r) ==
    LET c == subject[r] IN
    /\ step[r] = "locked" /\ target[r] = 0
    /\ held[r] # 0 /\ facts[held[r]].value # ValueOf[c]
    /\ conflict' = [conflict EXCEPT ![c] = held[r]]
    /\ Close(r)
    /\ UNCHANGED <<facts, review, decided, faults>>

\* REVISION_CONCURRENCY_CONFLICT or REVISION_VALUE_UNCHANGED.
RefuseRevision(r) ==
    /\ step[r] = "locked" /\ target[r] # 0
    /\ held[r] # 0 => facts[held[r]].value = ValueOf[subject[r]]
    /\ Close(r)
    /\ UNCHANGED <<committed, faults>>

\* An uncommitted row of a key is in the unique index.
Inserting(k) == \E r \in Reviewers : step[r] = "inserted" /\ natural[r] = k

\* What is to be inserted: a fact where there is none, or its successor.
Inserts(r) ==
    /\ step[r] = "locked"
    /\ IF target[r] = 0
       THEN held[r] = 0
       ELSE held[r] # 0 /\ facts[held[r]].value # ValueOf[subject[r]]

\* Deviation: there is no partial unique index on current facts.
InsertUnguarded(r) ==
    /\ Inserts(r)
    /\ step' = [step EXCEPT ![r] = "inserted"]
    /\ UNCHANGED <<committed, factlock, subject, natural, target, seen, held,
                   faults>>

\* The flush: uq_financial_facts_active_natural_key makes it wait for another
\* uncommitted fact of the key.
Insert(r) ==
    /\ Inserts(r)
    /\ ~Inserting(natural[r])
    /\ Current({natural[r]}) \ {held[r]} = {}
    /\ step' = [step EXCEPT ![r] = "inserted"]
    /\ UNCHANGED <<committed, factlock, subject, natural, target, seen, held,
                   faults>>

\* ... and raises IntegrityError when one is committed: nothing is kept.
InsertRefused(r) ==
    /\ Inserts(r)
    /\ ~Inserting(natural[r])
    /\ Current({natural[r]}) \ {held[r]} # {}
    /\ Close(r)
    /\ UNCHANGED <<committed, faults>>

NewFact(r) ==
    [key |-> natural[r], value |-> ValueOf[subject[r]],
     source |-> subject[r], open |-> TRUE, supersedes |-> held[r]]

Superseded(r) ==
    [f \in DOMAIN facts |->
        IF f = held[r] THEN [facts[f] EXCEPT !.open = FALSE] ELSE facts[f]]

\* The old fact is closed, the new one, the candidate and the decision appear.
CommitFact(r) ==
    LET c == subject[r]
    IN /\ step[r] = "inserted"
       /\ facts' = Append(Superseded(r), NewFact(r))
       /\ review' = [review EXCEPT ![c] = "APPROVED"]
       /\ decided' = [decided EXCEPT ![c] = Len(facts) + 1]
       /\ Close(r)
       /\ UNCHANGED <<conflict, faults>>

\* reject_candidate, in one transaction.
Reject(c) ==
    /\ CandidateFree(c)
    /\ review[c] = "PENDING"
    /\ Cardinality({d \in Candidates : review[d] = "REJECTED"}) < MaxRejections
    /\ review' = [review EXCEPT ![c] = "REJECTED"]
    /\ UNCHANGED <<facts, conflict, decided, factlock, request, faults>>

\* The process dies or a statement fails, and the transaction is rolled back.
AbortReview(r) ==
    /\ step[r] # "idle"
    /\ Fault
    /\ Close(r)
    /\ UNCHANGED committed

DecideReview(r) ==
    \/ Corroborate(r) \/ RecordConflict(r) \/ RefuseRevision(r)
    \/ Insert(r) \/ InsertRefused(r) \/ CommitFact(r)

ReviewStep(r) ==
    \/ \E c \in Candidates :
          Approve(r, c) \/ \E f \in DOMAIN facts : Revise(r, c, f)
    \/ LockFact(r) \/ DecideReview(r) \/ AbortReview(r)

FactNext ==
    \/ \E r \in Reviewers : ReviewStep(r)
    \/ \E c \in Candidates : Reject(c)

------------------------------------------------------------------------------
(* Properties. *)

\* The facts of a key are one line of revisions with one current fact at its
\* end, in whatever order approvals, revisions and rejections of its candidates
\* run and wait for each other: every closed fact has exactly one successor, of
\* the same key and with another value, and there are no two current facts.
Successors(f) == {g \in DOMAIN facts : facts[g].supersedes = f}
RevisionsFormOneLine ==
    /\ \A f, g \in DOMAIN facts :
           facts[f].key = facts[g].key /\ facts[f].open /\ facts[g].open => f = g
    /\ \A f \in DOMAIN facts :
           /\ facts[f].open <=> Successors(f) = {}
           /\ Cardinality(Successors(f)) <= 1
           /\ \A g \in Successors(f) :
                  facts[g].key = facts[f].key /\ facts[g].value # facts[f].value

\* A candidate is approved by a fact of a key it may have and of its value, which
\* is current when
\* the decision commits: no approval rests on a fact that a revision closed
\* between the read of the fact and the commit.
ApprovedStep ==
    \A c \in Candidates : review'[c] = "APPROVED" /\ review[c] # "APPROVED" =>
        LET f == decided'[c] IN
        /\ f \in DOMAIN facts'
        /\ facts'[f].open
        /\ facts'[f].key \in KeysOf[c] /\ facts'[f].value = ValueOf[c]
ApprovedByCurrentFact == [][ApprovedStep]_factVars

==============================================================================
