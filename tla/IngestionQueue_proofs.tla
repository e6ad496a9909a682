------------------------ MODULE IngestionQueue_proofs ------------------------
(***************************************************************************)
(* What holds of IngestionQueue for every set of jobs and workers, every   *)
(* attempt limit and any number of faults and slow parses.                 *)
(***************************************************************************)
EXTENDS IngestionQueue, SequenceTheorems, TLAPS

\* A worker has a job exactly while it is at work.
Linked == \A w \in Workers : pc[w] # "idle" <=> held[w] \in Jobs

\* A row lock is held exactly by the worker whose transaction is open on it.
LockMatchesWorker ==
    \A j \in Jobs, w \in Workers :
        rowlock[j] = w <=> pc[w] \in InTransaction /\ held[w] = j

\* What the committed rows of a job tell about one another.
OpenRow(j) ==
    status[j] \notin Ended =>
        /\ current_attempt[j] < MaxAttempts
        /\ results[j] = 0
        /\ \A i \in DOMAIN attempts[j] : attempts[j][i].status = "FAILED"
EndedRow(j) ==
    status[j] \in Ended =>
        /\ attempts[j] # <<>>
        /\ attempts[j][Len(attempts[j])].status = status[j]
        /\ results[j] <= 1
Numbered(j) ==
    {attempts[j][i].number : i \in DOMAIN attempts[j]} = 1..current_attempt[j]
EarlierFailed(j) ==
    \A i \in DOMAIN attempts[j] :
        attempts[j][i].number < current_attempt[j] =>
            attempts[j][i].status = "FAILED"
VersionShows(j) ==
    version[j] = IF status[j] = "PARSING" THEN "QUEUED" ELSE status[j]

Row(j) ==
    OpenRow(j) /\ EndedRow(j) /\ Numbered(j) /\ EarlierFailed(j)
        /\ VersionShows(j)
Rows == \A j \in Jobs : Row(j)

\* What a worker that has the last claim may take for granted.  After a failed
\* parse its number is the next one, unless its own verdict did get committed.
ClaimOf(w) ==
    LET j == held[w] IN
    /\ pc[w] = "claiming" => status[j] \in {"QUEUED", "PARSING"}
    /\ pc[w] = "claimed" /\ owner[j] = w => status[j] = "PARSING"
    /\ pc[w] = "parsing" =>
           /\ owner[j] = w /\ status[j] = "PARSING"
           /\ number[w] = current_attempt[j] + 1
    /\ pc[w] \in {"failed", "recording"} /\ owner[j] = w =>
           \/ status[j] = "PARSING" /\ number[w] = current_attempt[j] + 1
           \/ status[j] \in Ended /\ number[w] = current_attempt[j]
Claims == \A w \in Workers : ClaimOf(w)

IInv == TypeOK /\ Linked /\ LockMatchesWorker /\ Rows /\ Claims

------------------------------------------------------------------------------
(* Rows appended to the table of attempts *)

\* An attempt is recorded behind the others, and they keep their places.
LEMMA AttemptAppended ==
    ASSUME NEW s \in Seq(Attempt), NEW a \in Attempt
    PROVE  /\ Append(s, a) \in Seq(Attempt)
           /\ Append(s, a) # <<>>
           /\ Len(Append(s, a)) = Len(s) + 1
           /\ Append(s, a)[Len(Append(s, a))] = a
           /\ DOMAIN Append(s, a) = DOMAIN s \cup {Len(s) + 1}
           /\ \A i \in DOMAIN s : Append(s, a)[i] = s[i]
<1>1. /\ Append(s, a) \in Seq(Attempt)
      /\ Len(Append(s, a)) = Len(s) + 1
      /\ \A i \in 1..Len(s) : Append(s, a)[i] = s[i]
      /\ Append(s, a)[Len(s) + 1] = a
    BY AppendProperties
<1>2. DOMAIN s = 1..Len(s) /\ Len(s) \in Nat
    BY LenProperties
<1>3. DOMAIN Append(s, a) = 1..(Len(s) + 1)
    BY <1>1, LenProperties
<1>4. Append(s, a) # <<>>
    BY <1>1, <1>2, EmptySeq
<1> QED
    BY <1>1, <1>2, <1>3, <1>4

\* The numbers in use are the old ones and the new one.
LEMMA NumbersAppended ==
    ASSUME NEW s \in Seq(Attempt), NEW a \in Attempt
    PROVE  {Append(s, a)[i].number : i \in DOMAIN Append(s, a)} =
               {s[i].number : i \in DOMAIN s} \cup {a.number}
<1> DEFINE t == Append(s, a)
<1>1. /\ t[Len(t)] = a
      /\ Len(t) = Len(s) + 1
      /\ DOMAIN t = DOMAIN s \cup {Len(s) + 1}
      /\ \A i \in DOMAIN s : t[i] = s[i]
    BY AttemptAppended
<1> QED
    BY <1>1

------------------------------------------------------------------------------
(* The inductive invariant *)

LEMMA InitEstablishes == Init => IInv
<1> SUFFICES ASSUME Init PROVE IInv
    OBVIOUS
<1> USE IngestionAssumption DEF Init
<1>1. TypeOK
    BY EmptySeq DEF TypeOK, Ended, PC
<1>2. Linked /\ LockMatchesWorker
    BY DEF Linked, LockMatchesWorker, InTransaction
<1>3. Rows
  <2>1. DOMAIN <<>> = 1..0
    OBVIOUS
  <2>2. 1..0 = {}
    OBVIOUS
  <2>3. \A j \in Jobs : status[j] \notin Ended
    BY DEF Ended, ParserStatus
  <2> QED
    BY <2>1, <2>2, <2>3
    DEF Rows, Row, OpenRow, EndedRow, Numbered, EarlierFailed, VersionShows
<1>4. Claims
    BY DEF Claims, ClaimOf
<1> QED
    BY <1>1, <1>2, <1>3, <1>4 DEF IInv

\* A worker gets its job with the poll and gives it up when it polls again.
LEMMA LinkedStep ==
    ASSUME IInv, [Next]_vars
    PROVE  Linked'
<1> USE IngestionAssumption DEF IInv, TypeOK, Linked, PC, vars, row, children
<1>1. ASSUME NEW j \in Jobs, Finalize(j) PROVE Linked'
    BY <1>1 DEF Finalize
<1>2. ASSUME NEW j \in Jobs, Expire(j) PROVE Linked'
    BY <1>2 DEF Expire
<1>3. ASSUME NEW w \in Workers, NEW j \in Jobs, Poll(w, j) PROVE Linked'
    BY <1>3 DEF Poll, Becomes
<1>4. ASSUME NEW w \in Workers, Claim(w) PROVE Linked'
    BY <1>4 DEF Claim, Lock, Becomes
<1>5. ASSUME NEW w \in Workers, ClaimNothing(w) PROVE Linked'
    BY <1>5 DEF ClaimNothing, BackToPolling, Becomes
<1>6. ASSUME NEW w \in Workers, CommitClaim(w) PROVE Linked'
    BY <1>6 DEF CommitClaim, Unlock, Becomes
<1>7. ASSUME NEW w \in Workers, Begin(w) PROVE Linked'
    BY <1>7 DEF Begin, Lock, Becomes
<1>8. ASSUME NEW w \in Workers, BeginRefused(w) PROVE Linked'
    BY <1>8 DEF BeginRefused, BackToPolling, Becomes
<1>9. ASSUME NEW w \in Workers, NEW verdict \in Verdicts, Publish(w, verdict) PROVE Linked'
    BY <1>9 DEF Publish, CommitVerdict, Unlock, BackToPolling, Becomes
<1>10. ASSUME NEW w \in Workers, NEW verdict \in Verdicts, PublishUnacknowledged(w, verdict) PROVE Linked'
    BY <1>10 DEF PublishUnacknowledged, CommitVerdict, Unlock, Becomes
<1>11. ASSUME NEW w \in Workers, ParseFails(w) PROVE Linked'
    BY <1>11 DEF ParseFails, Unlock, Becomes
<1>12. ASSUME NEW w \in Workers, Relock(w) PROVE Linked'
    BY <1>12 DEF Relock, Lock, Becomes
<1>13. ASSUME NEW w \in Workers, RecordFailure(w) PROVE Linked'
    BY <1>13 DEF RecordFailure, Unlock, BackToPolling, Becomes
<1>14. ASSUME NEW w \in Workers, RecordRefused(w) PROVE Linked'
    BY <1>14 DEF RecordRefused, Unlock, BackToPolling, Becomes
<1>15. ASSUME NEW w \in Workers, Crash(w) PROVE Linked'
    BY <1>15 DEF Crash, Die, BackToPolling, Becomes
<1>16. ASSUME NEW w \in Workers, Killed(w) PROVE Linked'
    BY <1>16 DEF Killed, Die, BackToPolling, Becomes
<1>17. CASE Drained \/ UNCHANGED vars
    BY <1>17 DEF Drained
<1> QED
    BY <1>1, <1>2, <1>3, <1>4, <1>5, <1>6, <1>7, <1>8, <1>9, <1>10, <1>11, <1>12, <1>13, <1>14, <1>15, <1>16, <1>17 DEF Next, WorkerStep

\* The lock changes hands with the transactions, and one worker's death frees
\* no row of another's.
LEMMA LockStep ==
    ASSUME IInv, [Next]_vars
    PROVE  LockMatchesWorker'
<1> USE IngestionAssumption DEF IInv, TypeOK, Linked, LockMatchesWorker, InTransaction,
       Unlocked, PC, vars, row, children
<1>1. ASSUME NEW j \in Jobs, Finalize(j) PROVE LockMatchesWorker'
    BY <1>1 DEF Finalize
<1>2. ASSUME NEW j \in Jobs, Expire(j) PROVE LockMatchesWorker'
    BY <1>2 DEF Expire
<1>3. ASSUME NEW w \in Workers, NEW j \in Jobs, Poll(w, j) PROVE LockMatchesWorker'
    BY <1>3 DEF Poll, Becomes
<1>4. ASSUME NEW w \in Workers, Claim(w) PROVE LockMatchesWorker'
    BY <1>4 DEF Claim, Lock, Becomes
<1>5. ASSUME NEW w \in Workers, ClaimNothing(w) PROVE LockMatchesWorker'
    BY <1>5 DEF ClaimNothing, BackToPolling, Becomes
<1>6. ASSUME NEW w \in Workers, CommitClaim(w) PROVE LockMatchesWorker'
    BY <1>6 DEF CommitClaim, Unlock, Becomes
<1>7. ASSUME NEW w \in Workers, Begin(w) PROVE LockMatchesWorker'
    BY <1>7 DEF Begin, MayBegin, StillMine, Lock, Becomes
<1>8. ASSUME NEW w \in Workers, BeginRefused(w) PROVE LockMatchesWorker'
    BY <1>8 DEF BeginRefused, BackToPolling, Becomes
<1>9. ASSUME NEW w \in Workers, NEW verdict \in Verdicts, Publish(w, verdict) PROVE LockMatchesWorker'
    BY <1>9 DEF Publish, CommitVerdict, Unlock, BackToPolling, Becomes
<1>10. ASSUME NEW w \in Workers, NEW verdict \in Verdicts, PublishUnacknowledged(w, verdict) PROVE LockMatchesWorker'
    BY <1>10 DEF PublishUnacknowledged, CommitVerdict, Unlock, Becomes
<1>11. ASSUME NEW w \in Workers, ParseFails(w) PROVE LockMatchesWorker'
    BY <1>11 DEF ParseFails, Unlock, Becomes
<1>12. ASSUME NEW w \in Workers, Relock(w) PROVE LockMatchesWorker'
    BY <1>12 DEF Relock, Lock, Becomes
<1>13. ASSUME NEW w \in Workers, RecordFailure(w) PROVE LockMatchesWorker'
    BY <1>13 DEF RecordFailure, Unlock, BackToPolling, Becomes
<1>14. ASSUME NEW w \in Workers, RecordRefused(w) PROVE LockMatchesWorker'
    BY <1>14 DEF RecordRefused, Unlock, BackToPolling, Becomes
<1>15. ASSUME NEW w \in Workers, Crash(w) PROVE LockMatchesWorker'
    BY <1>15 DEF Crash, Die, BackToPolling, Becomes
<1>16. ASSUME NEW w \in Workers, Killed(w) PROVE LockMatchesWorker'
    BY <1>16 DEF Killed, Die, BackToPolling, Becomes
<1>17. CASE Drained \/ UNCHANGED vars
    BY <1>17 DEF Drained
<1> QED
    BY <1>1, <1>2, <1>3, <1>4, <1>5, <1>6, <1>7, <1>8, <1>9, <1>10, <1>11, <1>12, <1>13, <1>14, <1>15, <1>16, <1>17 DEF Next, WorkerStep

\* The number a worker records is one its job still has.
LEMMA NumberInRange ==
    ASSUME IInv, NEW w \in Workers,
           \/ pc[w] = "parsing"
           \/ pc[w] = "recording" /\ owner[held[w]] = w
    PROVE  held[w] \in Jobs /\ number[w] \in 1..MaxAttempts
<1> USE IngestionAssumption DEF IInv, TypeOK
<1>1. held[w] \in Jobs
    BY DEF Linked
<1>2. current_attempt[held[w]] \in 0..MaxAttempts
    BY <1>1
<1>3. OpenRow(held[w]) /\ EndedRow(held[w]) /\ Numbered(held[w])
    BY <1>1 DEF Rows, Row
<1>4. CASE status[held[w]] = "PARSING"
  <2>1. number[w] = current_attempt[held[w]] + 1
    BY <1>4 DEF Claims, ClaimOf, Ended, ParserStatus
  <2>2. current_attempt[held[w]] < MaxAttempts
    BY <1>3, <1>4 DEF OpenRow, Ended, ParserStatus
  <2> QED
    BY <1>1, <1>2, <2>1, <2>2
<1>5. CASE status[held[w]] # "PARSING"
  <2>1. number[w] = current_attempt[held[w]] /\ status[held[w]] \in Ended
    BY <1>5 DEF Claims, ClaimOf
  <2>2. attempts[held[w]] \in Seq(Attempt) /\ attempts[held[w]] # <<>>
    BY <1>1, <1>3, <2>1 DEF EndedRow
  <2>3. 1 \in DOMAIN attempts[held[w]]
    BY <2>2, LenProperties, EmptySeq
  <2>4. attempts[held[w]][1].number \in 1..current_attempt[held[w]]
    BY <1>3, <2>3 DEF Numbered
  <2> QED
    BY <1>1, <1>2, <2>1, <2>4
<1> QED
    BY <1>4, <1>5

\* Committing a verdict keeps the types of the rows it writes.
LEMMA VerdictTypes ==
    ASSUME IInv, NEW w \in Workers, NEW verdict \in Verdicts,
           CommitVerdict(w, verdict)
    PROVE  /\ status' \in [Jobs -> {"NONE", "QUEUED", "PARSING"} \cup Ended]
           /\ current_attempt' \in [Jobs -> 0..MaxAttempts]
           /\ rowlock' \in [Jobs -> Workers \cup {NoWorker}]
           /\ version' \in [Jobs -> {"NONE", "QUEUED"} \cup Ended]
           /\ attempts' \in [Jobs -> Seq(Attempt)]
           /\ results' \in [Jobs -> Nat]
<1> USE IngestionAssumption DEF IInv, TypeOK, CommitVerdict
<1>1. held[w] \in Jobs /\ number[w] \in 1..MaxAttempts
    BY NumberInRange
<1>2. verdict \in ParserStatus
    OBVIOUS
<1>3. [number |-> number[w], status |-> verdict] \in Attempt
    BY <1>1, <1>2 DEF Attempt
<1>4. Append(attempts[held[w]], [number |-> number[w], status |-> verdict])
          \in Seq(Attempt)
    BY <1>1, <1>3, AttemptAppended
<1>5. attempts' \in [Jobs -> Seq(Attempt)]
    BY <1>4
<1>6. /\ status' \in [Jobs -> {"NONE", "QUEUED", "PARSING"} \cup Ended]
      /\ version' \in [Jobs -> {"NONE", "QUEUED"} \cup Ended]
    BY <1>2 DEF Ended
<1>7. current_attempt' \in [Jobs -> 0..MaxAttempts]
    BY <1>1
<1>8. results' \in [Jobs -> Nat]
  <2>1. results[held[w]] \in Nat
    BY <1>1
  <2>2. results[held[w]] + 1 \in Nat
    BY <2>1
  <2>3. results' = [results EXCEPT ![held[w]] = results[held[w]] + 1]
    OBVIOUS
  <2> QED
    BY <1>1, <2>2, <2>3
<1>9. rowlock' \in [Jobs -> Workers \cup {NoWorker}]
    BY DEF Unlock
<1> QED
    BY <1>5, <1>6, <1>7, <1>8, <1>9

\* So do the two ways in which a worker may leave the commit of a verdict.
LEMMA PublishTypes ==
    ASSUME IInv, NEW w \in Workers, NEW verdict \in Verdicts,
           Publish(w, verdict)
    PROVE  TypeOK'
<1>1. CommitVerdict(w, verdict)
    BY DEF Publish
<1>2. /\ status' \in [Jobs -> {"NONE", "QUEUED", "PARSING"} \cup Ended]
      /\ current_attempt' \in [Jobs -> 0..MaxAttempts]
      /\ rowlock' \in [Jobs -> Workers \cup {NoWorker}]
      /\ version' \in [Jobs -> {"NONE", "QUEUED"} \cup Ended]
      /\ attempts' \in [Jobs -> Seq(Attempt)]
      /\ results' \in [Jobs -> Nat]
    BY <1>1, VerdictTypes
<1>3. owner' = owner /\ stale' = stale /\ slow' = slow
    BY <1>1 DEF CommitVerdict
<1>4. faults' = faults
    BY DEF Publish
<1>5. /\ owner \in [Jobs -> Workers \cup {NoWorker}]
      /\ stale \in [Jobs -> BOOLEAN]
      /\ slow \in 0..MaxSlow
      /\ faults \in 0..MaxFaults
    BY DEF IInv, TypeOK
<1>6. /\ pc' \in [Workers -> PC]
      /\ held' \in [Workers -> Jobs \cup {NoJob}]
      /\ number' \in [Workers -> Nat]
  <2>1. /\ pc \in [Workers -> PC]
        /\ held \in [Workers -> Jobs \cup {NoJob}]
        /\ number \in [Workers -> Nat]
      BY DEF IInv, TypeOK
  <2>2. BackToPolling(w)
      BY DEF Publish
  <2> QED
      BY <2>1, <2>2 DEF BackToPolling, Becomes, PC
<1> QED
    BY <1>2, <1>3, <1>4, <1>5, <1>6 DEF TypeOK

LEMMA UnacknowledgedTypes ==
    ASSUME IInv, NEW w \in Workers, NEW verdict \in Verdicts,
           PublishUnacknowledged(w, verdict)
    PROVE  TypeOK'
<1>1. CommitVerdict(w, verdict)
    BY DEF PublishUnacknowledged
<1>2. /\ status' \in [Jobs -> {"NONE", "QUEUED", "PARSING"} \cup Ended]
      /\ current_attempt' \in [Jobs -> 0..MaxAttempts]
      /\ rowlock' \in [Jobs -> Workers \cup {NoWorker}]
      /\ version' \in [Jobs -> {"NONE", "QUEUED"} \cup Ended]
      /\ attempts' \in [Jobs -> Seq(Attempt)]
      /\ results' \in [Jobs -> Nat]
    BY <1>1, VerdictTypes
<1>3. owner' = owner /\ stale' = stale /\ slow' = slow
    BY <1>1 DEF CommitVerdict
<1>4. held' = held /\ number' = number
    BY DEF PublishUnacknowledged
<1>5. /\ owner \in [Jobs -> Workers \cup {NoWorker}]
      /\ stale \in [Jobs -> BOOLEAN]
      /\ slow \in 0..MaxSlow
      /\ held \in [Workers -> Jobs \cup {NoJob}]
      /\ number \in [Workers -> Nat]
    BY DEF IInv, TypeOK
<1>6. faults' \in 0..MaxFaults
    BY IngestionAssumption DEF PublishUnacknowledged, IInv, TypeOK
<1>7. pc' \in [Workers -> PC]
    BY DEF PublishUnacknowledged, Becomes, PC, IInv, TypeOK
<1> QED
    BY <1>2, <1>3, <1>4, <1>5, <1>6, <1>7 DEF TypeOK

\* So does the transaction that records a failed attempt.
LEMMA RecordTypes ==
    ASSUME IInv, NEW w \in Workers, RecordFailure(w)
    PROVE  TypeOK'
<1> DEFINE failed == [number |-> number[w], status |-> "FAILED"]
<1>1. held[w] \in Jobs /\ number[w] \in 1..MaxAttempts
    BY NumberInRange DEF RecordFailure, MayRecord, IInv, Linked
<1>2. attempts' \in [Jobs -> Seq(Attempt)]
  <2>1. attempts \in [Jobs -> Seq(Attempt)]
      BY DEF IInv, TypeOK
  <2>2. failed \in Attempt
      BY <1>1 DEF Attempt, ParserStatus
  <2>3. Append(attempts[held[w]], failed) \in Seq(Attempt)
      BY <1>1, <2>1, <2>2, AttemptAppended
  <2>4. attempts' =
            [attempts EXCEPT ![held[w]] = Append(attempts[held[w]], failed)]
      BY DEF RecordFailure
  <2> QED
      BY <2>1, <2>3, <2>4
<1>3. NextStatus(w) \in {"QUEUED", "FAILED"}
    BY DEF NextStatus
<1>4. /\ status' \in [Jobs -> {"NONE", "QUEUED", "PARSING"} \cup Ended]
      /\ version' \in [Jobs -> {"NONE", "QUEUED"} \cup Ended]
    BY <1>1, <1>3 DEF RecordFailure, IInv, TypeOK, Ended, ParserStatus
<1>5. current_attempt' \in [Jobs -> 0..MaxAttempts]
    BY <1>1, IngestionAssumption DEF RecordFailure, IInv, TypeOK
<1>6. /\ rowlock' \in [Jobs -> Workers \cup {NoWorker}]
      /\ pc' \in [Workers -> PC]
      /\ held' \in [Workers -> Jobs \cup {NoJob}]
      /\ number' \in [Workers -> Nat]
    BY DEF RecordFailure, Unlock, BackToPolling, Becomes, PC, IInv, TypeOK
<1>7. UNCHANGED <<owner, stale, results, faults, slow>>
    BY DEF RecordFailure
<1>8. /\ owner \in [Jobs -> Workers \cup {NoWorker}]
      /\ stale \in [Jobs -> BOOLEAN]
      /\ results \in [Jobs -> Nat]
      /\ faults \in 0..MaxFaults
      /\ slow \in 0..MaxSlow
    BY DEF IInv, TypeOK
<1> QED
    BY <1>2, <1>4, <1>5, <1>6, <1>7, <1>8 DEF TypeOK

\* Every step keeps the types; the attempt limit bounds the count.
LEMMA TypeStep ==
    ASSUME IInv, [Next]_vars
    PROVE  TypeOK'
<1> USE IngestionAssumption DEF IInv, TypeOK, Ended, PC, vars, row, children
<1>1. ASSUME NEW j \in Jobs, Finalize(j) PROVE TypeOK'
    BY <1>1 DEF Finalize
<1>2. ASSUME NEW j \in Jobs, Expire(j) PROVE TypeOK'
  <2>1. stale' \in [Jobs -> BOOLEAN]
    BY <1>2 DEF Expire
  <2>2. slow' \in 0..MaxSlow
    BY <1>2 DEF Expire
  <2> QED
    BY <1>2, <2>1, <2>2 DEF Expire
<1>3. ASSUME NEW w \in Workers, NEW j \in Jobs, Poll(w, j) PROVE TypeOK'
    BY <1>3 DEF Poll, Becomes
<1>4. ASSUME NEW w \in Workers, Claim(w) PROVE TypeOK'
    BY <1>4 DEF Claim, Lock, Becomes, Linked
<1>5. ASSUME NEW w \in Workers, ClaimNothing(w) PROVE TypeOK'
    BY <1>5 DEF ClaimNothing, BackToPolling, Becomes
<1>6. ASSUME NEW w \in Workers, CommitClaim(w) PROVE TypeOK'
    BY <1>6 DEF CommitClaim, Unlock, Becomes, Linked
<1>7. ASSUME NEW w \in Workers, Begin(w) PROVE TypeOK'
  <2>1. held[w] \in Jobs
    BY <1>7 DEF Begin, Linked
  <2>2. number' \in [Workers -> Nat]
    <3>1. current_attempt[held[w]] \in 0..MaxAttempts
      BY <2>1
    <3>2. current_attempt[held[w]] + 1 \in Nat
      BY <3>1
    <3> QED
      BY <1>7, <2>1, <3>2 DEF Begin
  <2>3. rowlock' \in [Jobs -> Workers \cup {NoWorker}]
    BY <1>7 DEF Begin, Lock
  <2>4. pc' \in [Workers -> PC]
    BY <1>7 DEF Begin, Becomes
  <2> QED
    BY <1>7, <2>2, <2>3, <2>4 DEF Begin
<1>8. ASSUME NEW w \in Workers, BeginRefused(w) PROVE TypeOK'
    BY <1>8 DEF BeginRefused, BackToPolling, Becomes
<1>9. ASSUME NEW w \in Workers, NEW verdict \in Verdicts, Publish(w, verdict) PROVE TypeOK'
    BY ONLY IInv, <1>9, PublishTypes
<1>10. ASSUME NEW w \in Workers, NEW verdict \in Verdicts, PublishUnacknowledged(w, verdict) PROVE TypeOK'
    BY ONLY IInv, <1>10, UnacknowledgedTypes
<1>11. ASSUME NEW w \in Workers, ParseFails(w) PROVE TypeOK'
    BY <1>11 DEF ParseFails, Unlock, Becomes
<1>12. ASSUME NEW w \in Workers, Relock(w) PROVE TypeOK'
    BY <1>12 DEF Relock, Lock, Becomes, Linked
<1>13. ASSUME NEW w \in Workers, RecordFailure(w) PROVE TypeOK'
    BY ONLY IInv, <1>13, RecordTypes
<1>14. ASSUME NEW w \in Workers, RecordRefused(w) PROVE TypeOK'
    BY <1>14 DEF RecordRefused, Unlock, BackToPolling, Becomes
<1>15. ASSUME NEW w \in Workers, Crash(w) PROVE TypeOK'
    BY <1>15 DEF Crash, Die, BackToPolling, Becomes
<1>16. ASSUME NEW w \in Workers, Killed(w) PROVE TypeOK'
    BY <1>16 DEF Killed, Die, BackToPolling, Becomes
<1>17. CASE Drained \/ UNCHANGED vars
    BY <1>17 DEF Drained
<1> QED
    BY <1>1, <1>2, <1>3, <1>4, <1>5, <1>6, <1>7, <1>8, <1>9, <1>10, <1>11, <1>12, <1>13, <1>14, <1>15, <1>16, <1>17 DEF Next, WorkerStep

\* A job none of whose rows changes stays consistent.
LEMMA RowKept ==
    ASSUME NEW j \in Jobs, Row(j),
           status'[j] = status[j], current_attempt'[j] = current_attempt[j],
           version'[j] = version[j], attempts'[j] = attempts[j],
           results'[j] = results[j]
    PROVE  Row(j)'
BY DEF Row, OpenRow, EndedRow, Numbered, EarlierFailed, VersionShows

\* Recording an attempt under the next number, or once more under the last one
\* as FAILED where the job has ended so, keeps the numbering.
LEMMA NumberingKept ==
    ASSUME IInv, NEW j \in Jobs, NEW n \in 1..MaxAttempts,
           NEW verdict \in ParserStatus,
           \/ status[j] \notin Ended /\ n = current_attempt[j] + 1
           \/ n = current_attempt[j] /\ verdict = "FAILED",
           current_attempt'[j] = n,
           attempts'[j] =
               Append(attempts[j], [number |-> n, status |-> verdict])
    PROVE  Numbered(j)' /\ EarlierFailed(j)'
<1> DEFINE a == [number |-> n, status |-> verdict]
<1> USE IngestionAssumption
<1>1. /\ a \in Attempt /\ a.number = n /\ a.status = verdict
      /\ attempts[j] \in Seq(Attempt)
      /\ current_attempt[j] \in Nat
  <2>1. a \in Attempt /\ a.number = n /\ a.status = verdict
    BY DEF Attempt
  <2>2. attempts[j] \in Seq(Attempt)
    BY DEF IInv, TypeOK
  <2>3. current_attempt[j] \in Nat
    BY DEF IInv, TypeOK
  <2> QED
    BY <2>1, <2>2, <2>3
<1>2. Row(j)
    BY DEF IInv, Rows
<1>3. Numbered(j)'
  <2>1. {attempts'[j][i].number : i \in DOMAIN attempts'[j]} =
            {attempts[j][i].number : i \in DOMAIN attempts[j]} \cup {n}
    <3> HIDE DEF a
    <3>1. attempts'[j] = Append(attempts[j], a)
      BY DEF a
    <3>2. {Append(attempts[j], a)[i].number :
               i \in DOMAIN Append(attempts[j], a)} =
              {attempts[j][i].number : i \in DOMAIN attempts[j]}
                  \cup {a.number}
      BY <1>1, NumbersAppended
    <3>3. a.number = n
      BY <1>1
    <3> QED
      BY ONLY <3>1, <3>2, <3>3, Zenon
  <2>2. {attempts[j][i].number : i \in DOMAIN attempts[j]} =
            1..current_attempt[j]
    BY <1>2 DEF Row, Numbered
  <2>3. 1..n = 1..current_attempt[j] \cup {n}
    BY <1>1
  <2> QED
    BY <2>1, <2>2, <2>3 DEF Numbered
<1>4. EarlierFailed(j)'
  <2> SUFFICES ASSUME NEW i \in DOMAIN attempts'[j],
                      attempts'[j][i].number < n
               PROVE  attempts'[j][i].status = "FAILED"
    BY DEF EarlierFailed
  <2>1. i \in DOMAIN attempts[j] /\ attempts'[j][i] = attempts[j][i]
    BY <1>1, AttemptAppended
  <2>2. CASE status[j] \notin Ended
    BY <1>2, <2>1, <2>2 DEF Row, OpenRow
  <2>3. CASE n = current_attempt[j]
    BY <1>2, <2>1, <2>3 DEF Row, EarlierFailed
  <2> QED
    BY <2>2, <2>3
<1> QED
    BY <1>3, <1>4

\* A published verdict is the first and only one of its job.
LEMMA VerdictRow ==
    ASSUME IInv, NEW w \in Workers, NEW verdict \in Verdicts,
           CommitVerdict(w, verdict)
    PROVE  Rows'
<1> USE IngestionAssumption
<1>0. held[w] \in Jobs /\ number[w] \in 1..MaxAttempts
    BY NumberInRange DEF CommitVerdict
<1> PICK j \in Jobs : j = held[w]
    BY <1>0
<1>1. number[w] \in 1..MaxAttempts
    BY <1>0
<1>2. status[j] = "PARSING" /\ number[w] = current_attempt[j] + 1
    BY DEF CommitVerdict, IInv, Claims, ClaimOf
<1>3. /\ status'[j] = verdict /\ version'[j] = verdict
      /\ current_attempt'[j] = number[w]
      /\ attempts'[j] =
             Append(attempts[j], [number |-> number[w], status |-> verdict])
    BY <1>1 DEF CommitVerdict, IInv, TypeOK
<1>4. verdict \in ParserStatus /\ status[j] \notin Ended
    BY <1>2 DEF Ended, ParserStatus
<1>5. Row(j)'
  <2>1. Numbered(j)' /\ EarlierFailed(j)'
    BY <1>1, <1>2, <1>3, <1>4, NumberingKept
  <2>2. results'[j] = 1
    <3>1. results[j] = 0
      BY <1>1, <1>4 DEF IInv, Rows, Row, OpenRow
    <3> QED
      BY <1>1, <3>1 DEF CommitVerdict, IInv, TypeOK
  <2>3. /\ attempts'[j] # <<>>
        /\ attempts'[j][Len(attempts'[j])].status = verdict
    <3>1. [number |-> number[w], status |-> verdict] \in Attempt
      BY <1>1, <1>4 DEF Attempt
    <3>2. attempts[j] \in Seq(Attempt)
      BY <1>1 DEF IInv, TypeOK
    <3> QED
      BY <1>3, <3>1, <3>2, AttemptAppended
  <2>4. OpenRow(j)' /\ EndedRow(j)'
    BY <1>3, <1>4, <2>2, <2>3 DEF OpenRow, EndedRow, Ended
  <2>5. VersionShows(j)'
    BY <1>3, <1>4 DEF VersionShows, ParserStatus
  <2> QED
    BY <2>1, <2>4, <2>5 DEF Row
<1>6. ASSUME NEW k \in Jobs, k # j PROVE Row(k)'
  <2>1. /\ status'[k] = status[k] /\ current_attempt'[k] = current_attempt[k]
        /\ version'[k] = version[k] /\ attempts'[k] = attempts[k]
        /\ results'[k] = results[k]
    BY <1>1, <1>6 DEF CommitVerdict, IInv, TypeOK
  <2> QED
    BY <2>1, RowKept DEF IInv, Rows
<1> QED
    BY <1>5, <1>6 DEF Rows

\* What a worker that may record a failure finds in the row: an open parse, or
\* its own verdict FAILED, which it can only repeat.
LEMMA RecordableRow ==
    ASSUME IInv, NEW w \in Workers, pc[w] = "recording",
           MayRecord(w, held[w])
    PROVE  \/ /\ status[held[w]] = "PARSING"
              /\ number[w] = current_attempt[held[w]] + 1
           \/ /\ status[held[w]] = "FAILED" /\ NextStatus(w) = "FAILED"
              /\ version[held[w]] = "FAILED"
              /\ number[w] = current_attempt[held[w]]
<1> DEFINE j == held[w]
<1>1. j \in Jobs /\ owner[j] = w
    BY DEF MayRecord, IInv, Linked
<1>2. CASE status[j] = "PARSING"
    BY <1>1, <1>2 DEF IInv, Claims, ClaimOf, Ended, ParserStatus
<1>3. CASE status[j] # "PARSING"
  <2>1. status[j] \in Ended /\ number[w] = current_attempt[j]
    BY <1>1, <1>3 DEF IInv, Claims, ClaimOf
  <2>2. version[j] = status[j]
    BY <1>1, <1>3 DEF IInv, Rows, Row, VersionShows
  <2>3. VersionTransitions[version[j]] = {}
    BY <2>1, <2>2 DEF VersionTransitions, VersionStatus, Ended, ParserStatus
  <2>4. version[j] = NextStatus(w)
    BY <2>3 DEF MayRecord, Reaches
  <2>5. NextStatus(w) \in {"QUEUED", "FAILED"}
    BY DEF NextStatus
  <2> QED
    BY <2>1, <2>2, <2>4, <2>5 DEF Ended, ParserStatus
<1> QED
    BY <1>2, <1>3

\* A recorded failure requeues a job that has an attempt left and ends one that
\* has none.
LEMMA FailureRow ==
    ASSUME IInv, NEW w \in Workers, RecordFailure(w)
    PROVE  Rows'
<1> USE IngestionAssumption
<1>0. held[w] \in Jobs /\ number[w] \in 1..MaxAttempts
    BY NumberInRange DEF RecordFailure, MayRecord
<1> PICK j \in Jobs : j = held[w]
    BY <1>0
<1>1. number[w] \in 1..MaxAttempts
    BY <1>0
<1>2. \/ status[j] = "PARSING" /\ number[w] = current_attempt[j] + 1
      \/ /\ status[j] = "FAILED" /\ NextStatus(w) = "FAILED"
         /\ number[w] = current_attempt[j]
    BY RecordableRow DEF RecordFailure
<1>3. /\ status'[j] = NextStatus(w) /\ version'[j] = NextStatus(w)
      /\ current_attempt'[j] = number[w]
      /\ attempts'[j] =
             Append(attempts[j], [number |-> number[w], status |-> "FAILED"])
      /\ results'[j] = results[j]
    BY <1>1 DEF RecordFailure, IInv, TypeOK
<1>4. Row(j) /\ "FAILED" \in ParserStatus
    BY <1>1 DEF IInv, Rows, ParserStatus
<1>5. Row(j)'
  <2>1. Numbered(j)' /\ EarlierFailed(j)'
    <3>1. \/ status[j] \notin Ended /\ number[w] = current_attempt[j] + 1
          \/ number[w] = current_attempt[j]
      BY <1>2 DEF Ended, ParserStatus
    <3> QED
      BY <1>1, <1>3, <1>4, <3>1, NumberingKept
  <2>2. /\ attempts'[j] # <<>>
        /\ attempts'[j][Len(attempts'[j])].status = "FAILED"
        /\ DOMAIN attempts'[j] = DOMAIN attempts[j] \cup {Len(attempts[j]) + 1}
        /\ Len(attempts'[j]) = Len(attempts[j]) + 1
        /\ \A i \in DOMAIN attempts[j] : attempts'[j][i] = attempts[j][i]
    <3>1. [number |-> number[w], status |-> "FAILED"] \in Attempt
      BY <1>1, <1>4 DEF Attempt
    <3>2. attempts[j] \in Seq(Attempt)
      BY <1>1 DEF IInv, TypeOK
    <3> QED
      BY <1>3, <3>1, <3>2, AttemptAppended, SMTT(30)
  <2>3. CASE NextStatus(w) = "QUEUED"
    <3>1. number[w] < MaxAttempts
      BY <2>3 DEF NextStatus
    <3>2. status[j] = "PARSING" /\ status[j] \notin Ended
      BY <1>2, <2>3 DEF Ended, ParserStatus
    <3>3. results'[j] = 0
          /\ \A i \in DOMAIN attempts[j] : attempts[j][i].status = "FAILED"
      BY <1>3, <1>4, <3>2 DEF Row, OpenRow
    <3>4. \A i \in DOMAIN attempts'[j] : attempts'[j][i].status = "FAILED"
      BY <2>2, <3>3
    <3>5. OpenRow(j)' /\ EndedRow(j)'
      BY <1>3, <2>3, <3>1, <3>3, <3>4
      DEF OpenRow, EndedRow, Ended, ParserStatus
    <3>6. VersionShows(j)'
      BY <1>3, <2>3 DEF VersionShows
    <3> QED
      BY <2>1, <3>5, <3>6 DEF Row
  <2>4. CASE NextStatus(w) = "FAILED"
    <3>1. results'[j] <= 1
      BY <1>2, <1>3, <1>4 DEF Row, OpenRow, EndedRow, Ended, ParserStatus
    <3>2. OpenRow(j)' /\ EndedRow(j)'
      BY <1>3, <1>4, <2>2, <2>4, <3>1 DEF OpenRow, EndedRow, Ended
    <3>3. VersionShows(j)'
      BY <1>3, <2>4 DEF VersionShows
    <3> QED
      BY <2>1, <3>2, <3>3 DEF Row
  <2> QED
    BY <2>3, <2>4 DEF NextStatus
<1>6. ASSUME NEW k \in Jobs, k # j PROVE Row(k)'
  <2>1. /\ status'[k] = status[k] /\ current_attempt'[k] = current_attempt[k]
        /\ version'[k] = version[k] /\ attempts'[k] = attempts[k]
        /\ results'[k] = results[k]
    BY <1>1, <1>6 DEF RecordFailure, IInv, TypeOK
  <2> QED
    BY <2>1, RowKept DEF IInv, Rows
<1> QED
    BY <1>5, <1>6 DEF Rows

\* Every step leaves the rows of every job consistent.
LEMMA RowsStep ==
    ASSUME IInv, [Next]_vars
    PROVE  Rows'
<1> USE IngestionAssumption
<1>1. ASSUME NEW j \in Jobs, Finalize(j) PROVE Rows'
  <2> SUFFICES ASSUME NEW k \in Jobs PROVE Row(k)'
    BY DEF Rows
  <2>1. Row(k)
    BY DEF IInv, Rows
  <2>2. CASE k = j
    BY <1>1, <2>1, <2>2
    DEF Finalize, IInv, TypeOK, Row, OpenRow, EndedRow, Numbered, EarlierFailed, VersionShows,
        Ended, ParserStatus
  <2>3. CASE k # j
    BY <1>1, <2>1, <2>3, RowKept DEF Finalize, IInv, TypeOK
  <2> QED
    BY <2>2, <2>3
<1>2. ASSUME NEW j \in Jobs, Expire(j) PROVE Rows'
    BY <1>2, RowKept DEF Expire, children, IInv, Rows
<1>3. ASSUME NEW w \in Workers, NEW j \in Jobs, Poll(w, j) PROVE Rows'
    BY <1>3, RowKept DEF Poll, row, children, IInv, Rows
<1>4. ASSUME NEW w \in Workers, Claim(w) PROVE Rows'
    BY <1>4, RowKept DEF Claim, row, children, IInv, Rows
<1>5. ASSUME NEW w \in Workers, ClaimNothing(w) PROVE Rows'
    BY <1>5, RowKept DEF ClaimNothing, row, children, IInv, Rows
<1>6. ASSUME NEW w \in Workers, CommitClaim(w) PROVE Rows'
  <2> SUFFICES ASSUME NEW k \in Jobs PROVE Row(k)'
    BY DEF Rows
  <2>1. Row(k) /\ held[w] \in Jobs /\ status[held[w]] \in {"QUEUED", "PARSING"}
    BY <1>6 DEF CommitClaim, IInv, Rows, Linked, Claims, ClaimOf
  <2>2. CASE k = held[w]
    <3>1. /\ status'[k] = "PARSING" /\ current_attempt'[k] = current_attempt[k]
          /\ version'[k] = version[k] /\ attempts'[k] = attempts[k]
          /\ results'[k] = results[k]
      BY <1>6, <2>2 DEF CommitClaim, IInv, TypeOK, children
    <3>2. status[k] \in {"QUEUED", "PARSING"}
      BY <2>1, <2>2
    <3> QED
      BY <2>1, <3>1, <3>2
      DEF Row, OpenRow, EndedRow, Numbered, EarlierFailed, VersionShows, Ended,
          ParserStatus
  <2>3. CASE k # held[w]
    BY <1>6, <2>1, <2>3, RowKept DEF CommitClaim, IInv, TypeOK, children
  <2> QED
    BY <2>2, <2>3
<1>7. ASSUME NEW w \in Workers, Begin(w) PROVE Rows'
    BY <1>7, RowKept DEF Begin, row, children, IInv, Rows
<1>8. ASSUME NEW w \in Workers, BeginRefused(w) PROVE Rows'
    BY <1>8, RowKept DEF BeginRefused, row, children, IInv, Rows
<1>9. ASSUME NEW w \in Workers, NEW verdict \in Verdicts, Publish(w, verdict) PROVE Rows'
    BY <1>9, VerdictRow DEF Publish
<1>10. ASSUME NEW w \in Workers, NEW verdict \in Verdicts, PublishUnacknowledged(w, verdict) PROVE Rows'
    BY <1>10, VerdictRow DEF PublishUnacknowledged
<1>11. ASSUME NEW w \in Workers, ParseFails(w) PROVE Rows'
    BY <1>11, RowKept DEF ParseFails, row, children, IInv, Rows
<1>12. ASSUME NEW w \in Workers, Relock(w) PROVE Rows'
    BY <1>12, RowKept DEF Relock, row, children, IInv, Rows
<1>13. ASSUME NEW w \in Workers, RecordFailure(w) PROVE Rows'
    BY <1>13, FailureRow
<1>14. ASSUME NEW w \in Workers, RecordRefused(w) PROVE Rows'
    BY <1>14, RowKept DEF RecordRefused, row, children, IInv, Rows
<1>15. ASSUME NEW w \in Workers, Crash(w) PROVE Rows'
    BY <1>15, RowKept DEF Crash, Die, row, children, IInv, Rows
<1>16. ASSUME NEW w \in Workers, Killed(w) PROVE Rows'
    BY <1>16, RowKept DEF Killed, Die, row, children, IInv, Rows
<1>17. CASE Drained \/ UNCHANGED vars
    BY <1>17, RowKept DEF Drained, vars, row, children, IInv, Rows
<1> QED
    BY <1>1, <1>2, <1>3, <1>4, <1>5, <1>6, <1>7, <1>8, <1>9, <1>10, <1>11, <1>12, <1>13, <1>14, <1>15, <1>16, <1>17 DEF Next, WorkerStep

\* A worker that does not move, on a row that does not change, keeps its claim;
\* a worker between jobs claims nothing.
LEMMA ClaimKept ==
    ASSUME NEW v \in Workers, ClaimOf(v),
           pc'[v] = pc[v], held'[v] = held[v], number'[v] = number[v],
           status'[held[v]] = status[held[v]],
           owner'[held[v]] = owner[held[v]],
           current_attempt'[held[v]] = current_attempt[held[v]]
    PROVE  ClaimOf(v)'
BY DEF ClaimOf

LEMMA NoClaim ==
    ASSUME NEW v \in Workers, pc'[v] \in {"idle", "polled"}
    PROVE  ClaimOf(v)'
BY DEF ClaimOf

\* While w has the row of its job locked, another worker at the same job is
\* outside its transactions.
LEMMA OthersOutside ==
    ASSUME IInv, NEW w \in Workers, pc[w] \in InTransaction,
           NEW v \in Workers, v # w, held[v] = held[w]
    PROVE  pc[v] \notin InTransaction
<1>1. held[w] \in Jobs
    BY DEF IInv, Linked, InTransaction
<1> QED
    BY <1>1 DEF IInv, LockMatchesWorker

\* Once the last claim on its job is another worker's, a worker outside its
\* transactions has nothing left to rely on.
LEMMA LostClaim ==
    ASSUME NEW v \in Workers, pc'[v] \in PC,
           pc'[v] \notin {"claiming", "parsing"},
           owner'[held'[v]] # v
    PROVE  ClaimOf(v)'
BY DEF ClaimOf

\* No step takes away what a worker with the last claim may take for granted.
LEMMA ClaimsStep ==
    ASSUME IInv, [Next]_vars
    PROVE  Claims'
<1> USE IngestionAssumption
<1>1. ASSUME NEW j \in Jobs, Finalize(j) PROVE Claims'
  <2> SUFFICES ASSUME NEW v \in Workers PROVE ClaimOf(v)'
    BY DEF Claims
  <2>1. ClaimOf(v)
    BY DEF IInv, Claims
  <2>2. CASE held[v] # j
    BY <1>1, <2>1, <2>2, ClaimKept DEF Finalize, IInv, TypeOK
  <2>3. CASE held[v] = j
    BY <1>1, <2>1, <2>3 DEF Finalize, ClaimOf, Ended, ParserStatus
  <2> QED
    BY <2>2, <2>3
<1>2. ASSUME NEW j \in Jobs, Expire(j) PROVE Claims'
    BY <1>2, ClaimKept DEF Expire, IInv, Claims
<1>3. ASSUME NEW w \in Workers, NEW j \in Jobs, Poll(w, j) PROVE Claims'
  <2> SUFFICES ASSUME NEW v \in Workers PROVE ClaimOf(v)'
    BY DEF Claims
  <2>1. ClaimOf(v)
    BY DEF IInv, Claims
  <2>2. CASE v # w
    BY <1>3, <2>1, <2>2, ClaimKept DEF Poll, Becomes, IInv, TypeOK, row
  <2>3. CASE v = w
    BY <1>3, <2>3, NoClaim DEF Poll, Becomes, IInv, TypeOK
  <2> QED
    BY <2>2, <2>3
<1>4. ASSUME NEW w \in Workers, Claim(w) PROVE Claims'
  <2> SUFFICES ASSUME NEW v \in Workers PROVE ClaimOf(v)'
    BY DEF Claims
  <2>1. ClaimOf(v)
    BY DEF IInv, Claims
  <2>2. CASE v # w
    BY <1>4, <2>1, <2>2, ClaimKept DEF Claim, Lock, Becomes, IInv, TypeOK, row
  <2>3. CASE v = w
    <3>1. /\ pc'[w] = "claiming" /\ held'[w] = held[w]
          /\ status'[held[w]] = status[held[w]]
      BY <1>4 DEF Claim, Lock, Becomes, IInv, TypeOK, row
    <3>2. status[held[w]] \in {"QUEUED", "PARSING"}
      BY <1>4 DEF Claim, Claimable
    <3> QED
      BY <2>3, <3>1, <3>2 DEF ClaimOf
  <2> QED
    BY <2>2, <2>3
<1>5. ASSUME NEW w \in Workers, ClaimNothing(w) PROVE Claims'
  <2> SUFFICES ASSUME NEW v \in Workers PROVE ClaimOf(v)'
    BY DEF Claims
  <2>1. ClaimOf(v)
    BY DEF IInv, Claims
  <2>2. CASE v # w
    BY <1>5, <2>1, <2>2, ClaimKept DEF ClaimNothing, BackToPolling, Becomes, IInv, TypeOK, row
  <2>3. CASE v = w
    BY <1>5, <2>3, NoClaim DEF ClaimNothing, BackToPolling, Becomes, IInv, TypeOK
  <2> QED
    BY <2>2, <2>3
<1>6. ASSUME NEW w \in Workers, CommitClaim(w) PROVE Claims'
  <2> SUFFICES ASSUME NEW v \in Workers PROVE ClaimOf(v)'
    BY DEF Claims
  <2>1. ClaimOf(v)
    BY DEF IInv, Claims
  <2>0. /\ held[w] \in Jobs /\ pc[w] \in InTransaction
        /\ owner'[held[w]] = w
    <3>1. held[w] \in Jobs /\ pc[w] \in InTransaction
      BY <1>6 DEF CommitClaim, CommitVerdict, InTransaction, IInv, Linked
    <3>2. owner'[held[w]] = w
      BY <1>6, <3>1 DEF CommitClaim, CommitVerdict, MayRecord, IInv, TypeOK, Claims, ClaimOf
    <3> QED
      BY <3>1, <3>2
  <2>2. CASE v # w
    <3>1. pc'[v] = pc[v] /\ held'[v] = held[v] /\ number'[v] = number[v]
      BY <1>6, <2>2 DEF CommitClaim, Unlock, Becomes, IInv, TypeOK
    <3>2. CASE held[v] = held[w]
      <4>1. pc[v] \in PC /\ pc[v] \notin {"claiming", "parsing"}
        BY <2>0, <2>2, <3>2, OthersOutside DEF InTransaction, IInv, TypeOK
      <4> QED
        BY <2>0, <2>2, <3>1, <3>2, <4>1, LostClaim
    <3>3. CASE held[v] # held[w] /\ held[v] \in Jobs
      <4>1. /\ status'[held[v]] = status[held[v]]
            /\ owner'[held[v]] = owner[held[v]]
            /\ current_attempt'[held[v]] = current_attempt[held[v]]
        BY <1>6, <2>0, <3>3 DEF CommitClaim, Unlock, Becomes, IInv, TypeOK
      <4> QED
        BY <2>1, <3>1, <4>1, ClaimKept
    <3>4. CASE held[v] \notin Jobs
      <4>1. pc'[v] = "idle"
        BY <3>1, <3>4 DEF IInv, Linked
      <4> QED
        BY <4>1, NoClaim
    <3> QED
      BY <3>2, <3>3, <3>4
  <2>3. CASE v = w
    <3>1. pc'[w] = "claimed" /\ held'[w] = held[w] /\ status'[held[w]] = "PARSING"
      BY <1>6, <2>0 DEF CommitClaim, Unlock, Becomes, IInv, TypeOK
    <3> QED
      BY <2>3, <3>1 DEF ClaimOf
  <2> QED
    BY <2>2, <2>3
<1>7. ASSUME NEW w \in Workers, Begin(w) PROVE Claims'
  <2> SUFFICES ASSUME NEW v \in Workers PROVE ClaimOf(v)'
    BY DEF Claims
  <2>1. ClaimOf(v)
    BY DEF IInv, Claims
  <2>2. CASE v # w
    BY <1>7, <2>1, <2>2, ClaimKept DEF Begin, Lock, Becomes, IInv, TypeOK, row
  <2>3. CASE v = w
    <3>1. /\ pc'[w] = "parsing" /\ held'[w] = held[w]
          /\ number'[w] = current_attempt[held[w]] + 1
          /\ status'[held[w]] = status[held[w]]
          /\ owner'[held[w]] = owner[held[w]]
          /\ current_attempt'[held[w]] = current_attempt[held[w]]
      BY <1>7 DEF Begin, Lock, Becomes, IInv, TypeOK, row
    <3>2. owner[held[w]] = w /\ status[held[w]] = "PARSING"
      BY <1>7, <2>1, <2>3 DEF Begin, MayBegin, StillMine, ClaimOf
    <3> QED
      BY <2>3, <3>1, <3>2 DEF ClaimOf
  <2> QED
    BY <2>2, <2>3
<1>8. ASSUME NEW w \in Workers, BeginRefused(w) PROVE Claims'
  <2> SUFFICES ASSUME NEW v \in Workers PROVE ClaimOf(v)'
    BY DEF Claims
  <2>1. ClaimOf(v)
    BY DEF IInv, Claims
  <2>2. CASE v # w
    BY <1>8, <2>1, <2>2, ClaimKept DEF BeginRefused, BackToPolling, Becomes, IInv, TypeOK, row
  <2>3. CASE v = w
    BY <1>8, <2>3, NoClaim DEF BeginRefused, BackToPolling, Becomes, IInv, TypeOK
  <2> QED
    BY <2>2, <2>3
<1>9. ASSUME NEW w \in Workers, NEW verdict \in Verdicts, Publish(w, verdict) PROVE Claims'
  <2> SUFFICES ASSUME NEW v \in Workers PROVE ClaimOf(v)'
    BY DEF Claims
  <2>1. ClaimOf(v)
    BY DEF IInv, Claims
  <2>0. /\ held[w] \in Jobs /\ pc[w] \in InTransaction
        /\ owner'[held[w]] = w
    <3>1. held[w] \in Jobs /\ pc[w] \in InTransaction
      BY <1>9 DEF Publish, CommitVerdict, InTransaction, IInv, Linked
    <3>2. owner'[held[w]] = w
      BY <1>9, <3>1 DEF Publish, CommitVerdict, MayRecord, IInv, TypeOK, Claims, ClaimOf
    <3> QED
      BY <3>1, <3>2
  <2>2. CASE v # w
    <3>1. pc'[v] = pc[v] /\ held'[v] = held[v] /\ number'[v] = number[v]
      BY <1>9, <2>2 DEF Publish, CommitVerdict, Unlock, BackToPolling, Becomes, IInv, TypeOK
    <3>2. CASE held[v] = held[w]
      <4>1. pc[v] \in PC /\ pc[v] \notin {"claiming", "parsing"}
        BY <2>0, <2>2, <3>2, OthersOutside DEF InTransaction, IInv, TypeOK
      <4> QED
        BY <2>0, <2>2, <3>1, <3>2, <4>1, LostClaim
    <3>3. CASE held[v] # held[w] /\ held[v] \in Jobs
      <4>1. /\ status'[held[v]] = status[held[v]]
            /\ owner'[held[v]] = owner[held[v]]
            /\ current_attempt'[held[v]] = current_attempt[held[v]]
        BY <1>9, <2>0, <3>3 DEF Publish, CommitVerdict, Unlock, BackToPolling, Becomes, IInv, TypeOK
      <4> QED
        BY <2>1, <3>1, <4>1, ClaimKept
    <3>4. CASE held[v] \notin Jobs
      <4>1. pc'[v] = "idle"
        BY <3>1, <3>4 DEF IInv, Linked
      <4> QED
        BY <4>1, NoClaim
    <3> QED
      BY <3>2, <3>3, <3>4
  <2>3. CASE v = w
    BY <1>9, <2>3, NoClaim DEF Publish, CommitVerdict, Unlock, BackToPolling, Becomes, IInv, TypeOK
  <2> QED
    BY <2>2, <2>3
<1>10. ASSUME NEW w \in Workers, NEW verdict \in Verdicts, PublishUnacknowledged(w, verdict) PROVE Claims'
  <2> SUFFICES ASSUME NEW v \in Workers PROVE ClaimOf(v)'
    BY DEF Claims
  <2>1. ClaimOf(v)
    BY DEF IInv, Claims
  <2>0. /\ held[w] \in Jobs /\ pc[w] \in InTransaction
        /\ owner'[held[w]] = w
    <3>1. held[w] \in Jobs /\ pc[w] \in InTransaction
      BY <1>10 DEF PublishUnacknowledged, CommitVerdict, InTransaction, IInv, Linked
    <3>2. owner'[held[w]] = w
      BY <1>10, <3>1 DEF PublishUnacknowledged, CommitVerdict, MayRecord, IInv, TypeOK, Claims, ClaimOf
    <3> QED
      BY <3>1, <3>2
  <2>2. CASE v # w
    <3>1. pc'[v] = pc[v] /\ held'[v] = held[v] /\ number'[v] = number[v]
      BY <1>10, <2>2 DEF PublishUnacknowledged, CommitVerdict, Unlock, Becomes, IInv, TypeOK
    <3>2. CASE held[v] = held[w]
      <4>1. pc[v] \in PC /\ pc[v] \notin {"claiming", "parsing"}
        BY <2>0, <2>2, <3>2, OthersOutside DEF InTransaction, IInv, TypeOK
      <4> QED
        BY <2>0, <2>2, <3>1, <3>2, <4>1, LostClaim
    <3>3. CASE held[v] # held[w] /\ held[v] \in Jobs
      <4>1. /\ status'[held[v]] = status[held[v]]
            /\ owner'[held[v]] = owner[held[v]]
            /\ current_attempt'[held[v]] = current_attempt[held[v]]
        BY <1>10, <2>0, <3>3 DEF PublishUnacknowledged, CommitVerdict, Unlock, Becomes, IInv, TypeOK
      <4> QED
        BY <2>1, <3>1, <4>1, ClaimKept
    <3>4. CASE held[v] \notin Jobs
      <4>1. pc'[v] = "idle"
        BY <3>1, <3>4 DEF IInv, Linked
      <4> QED
        BY <4>1, NoClaim
    <3> QED
      BY <3>2, <3>3, <3>4
  <2>3. CASE v = w
    <3>1. /\ pc'[w] = "failed" /\ held'[w] = held[w] /\ number'[w] = number[w]
          /\ status'[held[w]] = verdict
          /\ current_attempt'[held[w]] = number[w]
      BY <1>10, <2>0 DEF PublishUnacknowledged, CommitVerdict, Unlock, Becomes, IInv, TypeOK
    <3>2. verdict \in Ended
      BY DEF Ended
    <3> QED
      BY <2>3, <3>1, <3>2 DEF ClaimOf
  <2> QED
    BY <2>2, <2>3
<1>11. ASSUME NEW w \in Workers, ParseFails(w) PROVE Claims'
  <2> SUFFICES ASSUME NEW v \in Workers PROVE ClaimOf(v)'
    BY DEF Claims
  <2>1. ClaimOf(v)
    BY DEF IInv, Claims
  <2>2. CASE v # w
    BY <1>11, <2>1, <2>2, ClaimKept DEF ParseFails, Unlock, Becomes, IInv, TypeOK, row
  <2>3. CASE v = w
    <3>1. /\ pc'[w] = "failed" /\ held'[w] = held[w] /\ number'[w] = number[w]
          /\ status'[held[w]] = status[held[w]]
          /\ owner'[held[w]] = owner[held[w]]
          /\ current_attempt'[held[w]] = current_attempt[held[w]]
      BY <1>11 DEF ParseFails, Unlock, Becomes, IInv, TypeOK, row
    <3>2. pc[w] \in {"parsing", "failed"}
      BY <1>11 DEF ParseFails
    <3> QED
      BY <2>1, <2>3, <3>1, <3>2 DEF ClaimOf
  <2> QED
    BY <2>2, <2>3
<1>12. ASSUME NEW w \in Workers, Relock(w) PROVE Claims'
  <2> SUFFICES ASSUME NEW v \in Workers PROVE ClaimOf(v)'
    BY DEF Claims
  <2>1. ClaimOf(v)
    BY DEF IInv, Claims
  <2>2. CASE v # w
    BY <1>12, <2>1, <2>2, ClaimKept DEF Relock, Lock, Becomes, IInv, TypeOK, row
  <2>3. CASE v = w
    <3>1. /\ pc'[w] = "recording" /\ held'[w] = held[w] /\ number'[w] = number[w]
          /\ status'[held[w]] = status[held[w]]
          /\ owner'[held[w]] = owner[held[w]]
          /\ current_attempt'[held[w]] = current_attempt[held[w]]
      BY <1>12 DEF Relock, Lock, Becomes, IInv, TypeOK, row
    <3>2. pc[w] \in {"parsing", "failed"}
      BY <1>12 DEF Relock
    <3> QED
      BY <2>1, <2>3, <3>1, <3>2 DEF ClaimOf
  <2> QED
    BY <2>2, <2>3
<1>13. ASSUME NEW w \in Workers, RecordFailure(w) PROVE Claims'
  <2> SUFFICES ASSUME NEW v \in Workers PROVE ClaimOf(v)'
    BY DEF Claims
  <2>1. ClaimOf(v)
    BY DEF IInv, Claims
  <2>0. /\ held[w] \in Jobs /\ pc[w] \in InTransaction
        /\ owner'[held[w]] = w
    <3>1. held[w] \in Jobs /\ pc[w] \in InTransaction
      BY <1>13 DEF RecordFailure, CommitVerdict, InTransaction, IInv, Linked
    <3>2. owner'[held[w]] = w
      BY <1>13, <3>1 DEF RecordFailure, CommitVerdict, MayRecord, IInv, TypeOK, Claims, ClaimOf
    <3> QED
      BY <3>1, <3>2
  <2>2. CASE v # w
    <3>1. pc'[v] = pc[v] /\ held'[v] = held[v] /\ number'[v] = number[v]
      BY <1>13, <2>2 DEF RecordFailure, Unlock, BackToPolling, Becomes, IInv, TypeOK
    <3>2. CASE held[v] = held[w]
      <4>1. pc[v] \in PC /\ pc[v] \notin {"claiming", "parsing"}
        BY <2>0, <2>2, <3>2, OthersOutside DEF InTransaction, IInv, TypeOK
      <4> QED
        BY <2>0, <2>2, <3>1, <3>2, <4>1, LostClaim
    <3>3. CASE held[v] # held[w] /\ held[v] \in Jobs
      <4>1. /\ status'[held[v]] = status[held[v]]
            /\ owner'[held[v]] = owner[held[v]]
            /\ current_attempt'[held[v]] = current_attempt[held[v]]
        BY <1>13, <2>0, <3>3 DEF RecordFailure, Unlock, BackToPolling, Becomes, IInv, TypeOK
      <4> QED
        BY <2>1, <3>1, <4>1, ClaimKept
    <3>4. CASE held[v] \notin Jobs
      <4>1. pc'[v] = "idle"
        BY <3>1, <3>4 DEF IInv, Linked
      <4> QED
        BY <4>1, NoClaim
    <3> QED
      BY <3>2, <3>3, <3>4
  <2>3. CASE v = w
    BY <1>13, <2>3, NoClaim DEF RecordFailure, Unlock, BackToPolling, Becomes, IInv, TypeOK
  <2> QED
    BY <2>2, <2>3
<1>14. ASSUME NEW w \in Workers, RecordRefused(w) PROVE Claims'
  <2> SUFFICES ASSUME NEW v \in Workers PROVE ClaimOf(v)'
    BY DEF Claims
  <2>1. ClaimOf(v)
    BY DEF IInv, Claims
  <2>2. CASE v # w
    BY <1>14, <2>1, <2>2, ClaimKept DEF RecordRefused, Unlock, BackToPolling, Becomes, IInv, TypeOK, row
  <2>3. CASE v = w
    BY <1>14, <2>3, NoClaim DEF RecordRefused, Unlock, BackToPolling, Becomes, IInv, TypeOK
  <2> QED
    BY <2>2, <2>3
<1>15. ASSUME NEW w \in Workers, Crash(w) PROVE Claims'
  <2> SUFFICES ASSUME NEW v \in Workers PROVE ClaimOf(v)'
    BY DEF Claims
  <2>1. ClaimOf(v)
    BY DEF IInv, Claims
  <2>2. CASE v # w
    BY <1>15, <2>1, <2>2, ClaimKept DEF Crash, Die, BackToPolling, Becomes, IInv, TypeOK, row
  <2>3. CASE v = w
    BY <1>15, <2>3, NoClaim DEF Crash, Die, BackToPolling, Becomes, IInv, TypeOK
  <2> QED
    BY <2>2, <2>3
<1>16. ASSUME NEW w \in Workers, Killed(w) PROVE Claims'
  <2> SUFFICES ASSUME NEW v \in Workers PROVE ClaimOf(v)'
    BY DEF Claims
  <2>1. ClaimOf(v)
    BY DEF IInv, Claims
  <2>2. CASE v # w
    BY <1>16, <2>1, <2>2, ClaimKept DEF Killed, Die, BackToPolling, Becomes, IInv, TypeOK, row
  <2>3. CASE v = w
    BY <1>16, <2>3, NoClaim DEF Killed, Die, BackToPolling, Becomes, IInv, TypeOK
  <2> QED
    BY <2>2, <2>3
<1>17. CASE Drained \/ UNCHANGED vars
    BY <1>17, ClaimKept DEF Drained, IInv, Claims, vars, row
<1> QED
    BY <1>1, <1>2, <1>3, <1>4, <1>5, <1>6, <1>7, <1>8, <1>9, <1>10, <1>11, <1>12, <1>13, <1>14, <1>15, <1>16, <1>17 DEF Next, WorkerStep

------------------------------------------------------------------------------
(* Action properties *)

\* A verdict is committed, and a failure recorded, under the lock of the owner.
LEMMA RecordedSteps ==
    ASSUME IInv, [Next]_vars
    PROVE  RecordedStep
<1> SUFFICES ASSUME NEW j \in Jobs, attempts'[j] # attempts[j]
             PROVE  owner[j] = rowlock[j]
    BY DEF RecordedStep
<1>1. ASSUME NEW w \in Workers, NEW verdict \in Verdicts,
             CommitVerdict(w, verdict)
      PROVE  owner[j] = rowlock[j]
  <2>1. j = held[w]
    BY <1>1 DEF CommitVerdict, IInv, TypeOK
  <2>2. rowlock[j] = w
    BY <1>1, <2>1 DEF CommitVerdict, IInv, LockMatchesWorker, InTransaction
  <2>3. owner[j] = w
    BY <1>1, <2>1 DEF CommitVerdict, IInv, Claims, ClaimOf
  <2> QED
    BY <2>2, <2>3
<1>2. ASSUME NEW w \in Workers, RecordFailure(w)
      PROVE  owner[j] = rowlock[j]
  <2>1. j = held[w]
    BY <1>2 DEF RecordFailure, IInv, TypeOK
  <2>2. rowlock[j] = w
    BY <1>2, <2>1 DEF RecordFailure, IInv, LockMatchesWorker, InTransaction
  <2>3. owner[j] = w
    BY <1>2, <2>1 DEF RecordFailure, MayRecord
  <2> QED
    BY <2>2, <2>3
<1>3. ASSUME UNCHANGED attempts PROVE FALSE
    BY <1>3
<1>4. \/ UNCHANGED attempts
      \/ \E w \in Workers : RecordFailure(w)
      \/ \E w \in Workers, verdict \in Verdicts : CommitVerdict(w, verdict)
    BY DEF Next, WorkerStep, Finalize, Expire, Poll, Claim, ClaimNothing,
           CommitClaim, Begin, BeginRefused, Publish, PublishUnacknowledged,
           ParseFails, Relock, RecordRefused, Crash, Killed, Die, Drained,
           vars, children
<1> QED
    BY <1>1, <1>2, <1>3, <1>4

\* The steps that write a status find the job open, or repeat what is there.
LEMMA VerdictSteps ==
    ASSUME IInv, [Next]_vars
    PROVE  VerdictStep
<1> SUFFICES ASSUME NEW j \in Jobs, status[j] \in Ended
             PROVE  status'[j] = status[j] /\ version'[j] = version[j]
    BY DEF VerdictStep
<1>1. ASSUME NEW k \in Jobs, Finalize(k)
      PROVE  status'[j] = status[j] /\ version'[j] = version[j]
    BY <1>1 DEF Finalize, IInv, TypeOK, Ended, ParserStatus
<1>2. ASSUME NEW w \in Workers, CommitClaim(w)
      PROVE  status'[j] = status[j] /\ version'[j] = version[j]
  <2>1. j # held[w]
    BY <1>2 DEF CommitClaim, IInv, Claims, ClaimOf, Ended, ParserStatus
  <2> QED
    BY <1>2, <2>1 DEF CommitClaim, IInv, TypeOK, children
<1>3. ASSUME NEW w \in Workers, NEW verdict \in Verdicts,
             CommitVerdict(w, verdict)
      PROVE  status'[j] = status[j] /\ version'[j] = version[j]
  <2>1. j # held[w]
    BY <1>3 DEF CommitVerdict, IInv, Claims, ClaimOf, Ended, ParserStatus
  <2> QED
    BY <1>3, <2>1 DEF CommitVerdict, IInv, TypeOK
<1>4. ASSUME NEW w \in Workers, RecordFailure(w)
      PROVE  status'[j] = status[j] /\ version'[j] = version[j]
  <2>1. CASE j # held[w]
    BY <1>4, <2>1 DEF RecordFailure, IInv, TypeOK
  <2>2. CASE j = held[w]
    <3>1. /\ status[j] = "FAILED" /\ version[j] = "FAILED"
          /\ NextStatus(w) = "FAILED"
      BY <1>4, <2>2, RecordableRow DEF RecordFailure, Ended, ParserStatus
    <3> QED
      BY <1>4, <2>2, <3>1 DEF RecordFailure, IInv, TypeOK
  <2> QED
    BY <2>1, <2>2
<1>5. \/ UNCHANGED <<status, version>>
      \/ \E k \in Jobs : Finalize(k)
      \/ \E w \in Workers : CommitClaim(w) \/ RecordFailure(w)
      \/ \E w \in Workers, verdict \in Verdicts : CommitVerdict(w, verdict)
    BY DEF Next, WorkerStep, Expire, Poll, Claim, ClaimNothing,
           Begin, BeginRefused, Publish, PublishUnacknowledged,
           ParseFails, Relock, RecordRefused, Crash, Killed, Die, Drained,
           vars, row, children
<1> QED
    BY <1>1, <1>2, <1>3, <1>4, <1>5

------------------------------------------------------------------------------
(* Theorems *)

\* The inductive invariant: locks, rows and claims fit together in every
\* reachable state.
THEOREM Invariance == Spec => []IInv
<1>1. Init => IInv
    BY InitEstablishes
<1>2. IInv /\ [Next]_vars => IInv'
    BY TypeStep, LinkedStep, LockStep, RowsStep, ClaimsStep DEF IInv
<1> QED
    BY <1>1, <1>2, PTL DEF Spec

\* Every column and every worker's memory keeps its type, and the count of
\* attempts never passes max_attempts.
THEOREM TypeCorrectness == Spec => []TypeOK
<1>1. IInv => TypeOK
    BY DEF IInv
<1> QED
    BY Invariance, <1>1, PTL

\* The attempts of _process_claimed_job are numbered 1..current_attempt and only
\* the last can be anything but FAILED, for any number of workers and faults.
THEOREM AttemptNumbering == Spec => []AttemptsNumbered
<1>1. IInv => AttemptsNumbered
    BY DEF IInv, Rows, Row, EndedRow, Numbered, EarlierFailed, AttemptsNumbered
<1> QED
    BY Invariance, <1>1, PTL

\* A document version and its ingestion job always tell the same story.
THEOREM VersionAgrees == Spec => []VersionFollowsJob
<1>1. IInv => VersionFollowsJob
    BY DEF IInv, Rows, Row, VersionShows, VersionFollowsJob
<1> QED
    BY Invariance, <1>1, PTL

\* The claim of migration 009 never refuses a job for want of attempts, so the
\* poll of migration 033, which does not count them, finds no job it refuses.
THEOREM AttemptLeft == Spec => []WaitingHasAttemptLeft
<1>1. IInv => WaitingHasAttemptLeft
    BY DEF IInv, Rows, Row, OpenRow, WaitingHasAttemptLeft, Ended, ParserStatus
<1> QED
    BY Invariance, <1>1, PTL

\* However often a job is taken over or its commit goes unacknowledged, its
\* version gets one extraction result at most, together with the verdict.
THEOREM SingleExtraction == Spec => []ExtractedOnce
<1>1. IInv => ExtractedOnce
  <2> SUFFICES ASSUME IInv, NEW j \in Jobs
               PROVE  /\ results[j] <= 1
                      /\ results[j] = 1 => status[j] \in Ended
    BY DEF ExtractedOnce
  <2>1. OpenRow(j) /\ EndedRow(j)
    BY DEF IInv, Rows, Row
  <2> QED
    BY <2>1 DEF OpenRow, EndedRow
<1> QED
    BY Invariance, <1>1, PTL

\* Only the worker of the last claim records attempts: the token test of the
\* worker holds up against every takeover.
THEOREM OwnerRecords == Spec => RecordedByOwner
<1>1. IInv /\ [Next]_vars => [RecordedStep]_vars
    BY RecordedSteps
<1> QED
    BY Invariance, <1>1, PTL DEF Spec, RecordedByOwner

\* No job leaves a verdict and no version changes one, although the job table
\* allows FAILED to be requeued.
THEOREM VerdictIsFinal == Spec => VerdictStands
<1>1. IInv /\ [Next]_vars => [VerdictStep]_vars
    BY VerdictSteps
<1> QED
    BY Invariance, <1>1, PTL DEF Spec, VerdictStands

------------------------------------------------------------------------------
(* The refinement of IngestionLifecycle *)

\* What stands under the last number of a job that has ended, possibly twice,
\* says how it has ended.
Agreed(j) ==
    status[j] \in Ended =>
        \A i \in DOMAIN attempts[j] :
            attempts[j][i].number = current_attempt[j] =>
                attempts[j][i].status = status[j]
LastAgrees == \A j \in Jobs : Agreed(j)

LEMMA AgreedKept ==
    ASSUME NEW j \in Jobs, Agreed(j), status'[j] = status[j],
           current_attempt'[j] = current_attempt[j],
           attempts'[j] = attempts[j]
    PROVE  Agreed(j)'
BY DEF Agreed

\* An open job has nothing under its next number yet, and an ended one gets
\* nothing but what is there already.
LEMMA AgreedAppended ==
    ASSUME IInv, NEW j \in Jobs, Agreed(j), NEW n \in 1..MaxAttempts,
           NEW outcome \in ParserStatus,
           \/ status[j] \notin Ended /\ n = current_attempt[j] + 1
           \/ status[j] = outcome /\ n = current_attempt[j],
           current_attempt'[j] = n,
           status'[j] \in Ended => status'[j] = outcome,
           attempts'[j] =
               Append(attempts[j], [number |-> n, status |-> outcome])
    PROVE  Agreed(j)'
<1> DEFINE a == [number |-> n, status |-> outcome]
<1> SUFFICES ASSUME status'[j] \in Ended, NEW i \in DOMAIN attempts'[j],
                    attempts'[j][i].number = n
             PROVE  attempts'[j][i].status = outcome
    BY DEF Agreed
<1>1. a \in Attempt /\ a.status = outcome
    BY DEF Attempt
<1>2. attempts[j] \in Seq(Attempt) /\ current_attempt[j] \in Nat
    BY IngestionAssumption DEF IInv, TypeOK
<1>3. /\ Len(attempts'[j]) = Len(attempts[j]) + 1
      /\ attempts'[j][Len(attempts'[j])] = a
      /\ DOMAIN attempts'[j] = DOMAIN attempts[j] \cup {Len(attempts[j]) + 1}
      /\ \A k \in DOMAIN attempts[j] : attempts'[j][k] = attempts[j][k]
    BY <1>1, <1>2, AttemptAppended
<1>4. CASE i = Len(attempts[j]) + 1
    BY <1>1, <1>3, <1>4
<1>5. CASE i \in DOMAIN attempts[j]
  <2>1. attempts[j][i].number = n
    BY <1>3, <1>5
  <2>2. attempts[j][i].number \in 1..current_attempt[j]
    BY <1>5 DEF IInv, Rows, Row, Numbered
  <2>3. n = current_attempt[j] /\ status[j] = outcome
    BY <1>2, <2>1, <2>2
  <2>4. status[j] \in Ended
    BY <2>3 DEF Ended
  <2>5. attempts[j][i].status = status[j]
    BY <1>5, <2>1, <2>3, <2>4 DEF Agreed
  <2> QED
    BY <1>3, <1>5, <2>3, <2>5
<1> QED
    BY <1>3, <1>4, <1>5

\* The set of the attempts on record grows by the one that is recorded.
LEMMA RecordsAppended ==
    ASSUME NEW s \in Seq(Attempt), NEW a \in Attempt
    PROVE  {Append(s, a)[i] : i \in DOMAIN Append(s, a)} =
               {s[i] : i \in DOMAIN s} \cup {a}
<1> DEFINE t == Append(s, a)
<1>1. /\ t[Len(t)] = a
      /\ Len(t) = Len(s) + 1
      /\ DOMAIN t = DOMAIN s \cup {Len(s) + 1}
      /\ \A i \in DOMAIN s : t[i] = s[i]
    BY AttemptAppended
<1> QED
    BY <1>1

\* So it does for one job, while the others' stay as they are.
LEMMA OnRecordStep ==
    ASSUME TypeOK, NEW j \in Jobs, NEW a \in Attempt,
           attempts' = [attempts EXCEPT ![j] = Append(attempts[j], a)]
    PROVE  OnRecord' = [OnRecord EXCEPT ![j] = OnRecord[j] \cup {a}]
<1>1. attempts \in [Jobs -> Seq(Attempt)]
    BY DEF TypeOK
<1>2. PICK s \in Seq(Attempt) : s = attempts[j]
  BY <1>1
<1>3. PICK t : t = Append(s, a)
  OBVIOUS
<1>4. {t[i] : i \in DOMAIN t} = {s[i] : i \in DOMAIN s} \cup {a}
  BY <1>3, RecordsAppended
<1>5. attempts'[j] = t /\ \A k \in Jobs : k # j => attempts'[k] = attempts[k]
  BY <1>1, <1>2, <1>3
<1>6. OnRecord[j] = {s[i] : i \in DOMAIN s}
  BY <1>2 DEF OnRecord
<1>7. OnRecord'[j] = {t[i] : i \in DOMAIN t}
  BY <1>5 DEF OnRecord
<1>8. ASSUME NEW k \in Jobs, k # j PROVE OnRecord'[k] = OnRecord[k]
  BY <1>5, <1>8 DEF OnRecord
<1>9. PICK R : R = OnRecord
  OBVIOUS
<1>10. PICK S : S = OnRecord'
  OBVIOUS
<1>11. R = [k \in Jobs |-> R[k]] /\ S = [k \in Jobs |-> S[k]]
  BY <1>9, <1>10 DEF OnRecord
<1>12. S[j] = R[j] \cup {a} /\ \A k \in Jobs : k # j => S[k] = R[k]
  BY <1>4, <1>6, <1>7, <1>8, <1>9, <1>10
<1>13. S = [R EXCEPT ![j] = R[j] \cup {a}]
  BY <1>11, <1>12
<1> QED
  BY <1>9, <1>10, <1>13

\* A step that leaves the rows the client sees alone is not seen.
LEMMA Unseen ==
    ASSUME UNCHANGED <<version, current_attempt, attempts, results>>
    PROVE  UNCHANGED Lifecycle!lifecycle
BY DEF Lifecycle!lifecycle, OnRecord

\* Committing a verdict is the extraction of the abstract life cycle.
LEMMA VerdictExtracts ==
    ASSUME IInv, LastAgrees, NEW w \in Workers, NEW verdict \in Verdicts,
           CommitVerdict(w, verdict)
    PROVE  LastAgrees' /\ Lifecycle!Next
<1> USE IngestionAssumption
<1>1. PICK j \in Jobs : j = held[w] /\ number[w] \in 1..MaxAttempts
  BY NumberInRange DEF CommitVerdict
<1>2. /\ status[j] = "PARSING" /\ status[j] \notin Ended
      /\ number[w] = current_attempt[j] + 1
  BY <1>1 DEF CommitVerdict, IInv, Claims, ClaimOf, Ended, ParserStatus
<1>3. version[j] = "QUEUED" /\ results[j] = 0 /\ current_attempt[j] < MaxAttempts
  BY <1>2 DEF IInv, Rows, Row, VersionShows, OpenRow
<1>4. PICK a \in Attempt :
          a = [number |-> current_attempt[j] + 1, status |-> verdict]
  <2>1. verdict \in ParserStatus /\ current_attempt[j] + 1 \in Nat
    BY <1>1, <1>2
  <2>2. [number |-> current_attempt[j] + 1, status |-> verdict] \in Attempt
    BY <2>1 DEF Attempt
  <2> QED
    BY <2>2
<1>5. /\ version' = [version EXCEPT ![j] = verdict]
      /\ status' = [status EXCEPT ![j] = verdict]
      /\ current_attempt' = [current_attempt EXCEPT ![j] = current_attempt[j] + 1]
      /\ attempts' = [attempts EXCEPT ![j] = Append(attempts[j], a)]
      /\ results' = [results EXCEPT ![j] = 1]
  <2>1. results' = [results EXCEPT ![j] = results[j] + 1]
    BY <1>1 DEF CommitVerdict
  <2> QED
    BY <1>1, <1>2, <1>3, <1>4, <2>1 DEF CommitVerdict
<1>6. OnRecord' = [OnRecord EXCEPT ![j] = OnRecord[j] \cup {a}]
  BY <1>4, <1>5, OnRecordStep DEF IInv
<1>7. Lifecycle!Extract(j, verdict)
  <2>1. Lifecycle!Record(j, verdict)
    BY <1>3, <1>4, <1>5, <1>6 DEF Lifecycle!Record
  <2> QED
    BY <1>5, <2>1 DEF Lifecycle!Extract
<1>8. LastAgrees'
  <2> SUFFICES ASSUME NEW k \in Jobs PROVE Agreed(k)'
    BY DEF LastAgrees
  <2>1. CASE k = j
    <3>1. /\ current_attempt'[j] = number[w] /\ status'[j] = verdict
          /\ attempts'[j] = Append(attempts[j],
                                 [number |-> number[w], status |-> verdict])
      BY <1>2, <1>4, <1>5 DEF IInv, TypeOK
    <3> QED
      BY <1>1, <1>2, <2>1, <3>1, AgreedAppended DEF LastAgrees
  <2>2. CASE k # j
    BY <1>5, <2>2, AgreedKept DEF LastAgrees, IInv, TypeOK
  <2> QED
    BY <2>1, <2>2
<1> QED
  BY <1>7, <1>8 DEF Lifecycle!Next

\* Recording a failure is one of the abstract life cycle, unless the verdict of
\* this very attempt is committed: then the record says nothing new.
LEMMA FailureFails ==
    ASSUME IInv, LastAgrees, NEW w \in Workers, RecordFailure(w)
    PROVE  LastAgrees' /\ [Lifecycle!Next]_(Lifecycle!lifecycle)
<1> USE IngestionAssumption
<1>1. PICK j \in Jobs : j = held[w] /\ number[w] \in 1..MaxAttempts
  BY NumberInRange DEF RecordFailure, MayRecord
<1>2. \/ /\ status[j] = "PARSING" /\ status[j] \notin Ended
         /\ number[w] = current_attempt[j] + 1
      \/ /\ status[j] = "FAILED" /\ NextStatus(w) = "FAILED"
         /\ version[j] = "FAILED"
         /\ number[w] = current_attempt[j]
  BY <1>1, RecordableRow DEF RecordFailure, Ended, ParserStatus
<1>3. PICK a \in Attempt : a = [number |-> number[w], status |-> "FAILED"]
  <2>1. "FAILED" \in ParserStatus /\ number[w] \in Nat
    BY <1>1 DEF ParserStatus
  <2>2. [number |-> number[w], status |-> "FAILED"] \in Attempt
    BY <2>1 DEF Attempt
  <2> QED
    BY <2>2
<1>4. /\ version' = [version EXCEPT ![j] = NextStatus(w)]
      /\ status' = [status EXCEPT ![j] = NextStatus(w)]
      /\ current_attempt' = [current_attempt EXCEPT ![j] = number[w]]
      /\ attempts' = [attempts EXCEPT ![j] = Append(attempts[j], a)]
      /\ results' = results
  BY <1>1, <1>3 DEF RecordFailure
<1>5. OnRecord' = [OnRecord EXCEPT ![j] = OnRecord[j] \cup {a}]
  BY <1>4, OnRecordStep DEF IInv
<1>6. LastAgrees'
  <2> SUFFICES ASSUME NEW k \in Jobs PROVE Agreed(k)'
    BY DEF LastAgrees
  <2>1. CASE k = j
    <3>1. /\ current_attempt'[j] = number[w] /\ status'[j] = NextStatus(w)
          /\ attempts'[j] = Append(attempts[j],
                                 [number |-> number[w], status |-> "FAILED"])
      BY <1>3, <1>4 DEF IInv, TypeOK
    <3>2. "FAILED" \in ParserStatus
          /\ (status'[j] \in Ended => status'[j] = "FAILED")
      BY <3>1 DEF NextStatus, Ended, ParserStatus
    <3>3. Agreed(j)
      BY DEF LastAgrees
    <3> QED
      BY <1>1, <1>2, <2>1, <3>1, <3>2, <3>3, AgreedAppended
  <2>2. CASE k # j
    BY <1>4, <2>2, AgreedKept DEF LastAgrees, IInv, TypeOK
  <2> QED
    BY <2>1, <2>2
<1>7. CASE status[j] = "PARSING"
  <2>1. number[w] = current_attempt[j] + 1
    BY <1>2, <1>7
  <2>2. version[j] = "QUEUED" /\ current_attempt[j] < MaxAttempts
    BY <1>7 DEF IInv, Rows, Row, VersionShows, OpenRow, Ended, ParserStatus
  <2>3. Lifecycle!Record(j, "FAILED")
    BY <1>3, <1>4, <1>5, <2>1, <2>2 DEF Lifecycle!Record
  <2>4. Lifecycle!Fail(j)
    BY <1>4, <2>1, <2>3 DEF Lifecycle!Fail, NextStatus
  <2> QED
    BY <1>6, <2>4 DEF Lifecycle!Next
<1>8. CASE status[j] # "PARSING"
  <2>1. /\ status[j] = "FAILED" /\ version[j] = "FAILED"
        /\ NextStatus(w) = "FAILED" /\ number[w] = current_attempt[j]
    BY <1>2, <1>8
  <2>2. PICK i \in DOMAIN attempts[j] : attempts[j][i].number = number[w]
    BY <1>1, <2>1 DEF IInv, Rows, Row, Numbered
  <2>3. attempts[j][i].status = "FAILED"
    BY <2>1, <2>2 DEF LastAgrees, Agreed, Ended, ParserStatus
  <2>4. attempts[j][i] = a
    <3>1. attempts[j] \in Seq(Attempt)
      BY DEF IInv, TypeOK
    <3>2. attempts[j][i] \in Attempt
      BY <2>2, <3>1
    <3> QED
      BY <1>3, <2>2, <2>3, <3>2 DEF Attempt
  <2>5. a \in OnRecord[j]
    BY <2>2, <2>4 DEF OnRecord
  <2>6. OnRecord' = OnRecord
    <3>1. PICK R : R = OnRecord
      OBVIOUS
    <3>2. R = [k \in Jobs |-> R[k]]
      BY <3>1 DEF OnRecord
    <3>3. R[j] \cup {a} = R[j]
      BY <2>5, <3>1
    <3>4. [R EXCEPT ![j] = R[j] \cup {a}] = R
      BY <3>2, <3>3
    <3> QED
      BY <1>5, <3>1, <3>4
  <2>7. version' = version /\ current_attempt' = current_attempt
    BY <1>4, <2>1 DEF IInv, TypeOK
  <2> QED
    BY <1>4, <1>6, <2>6, <2>7 DEF Lifecycle!lifecycle
<1> QED
  BY <1>6, <1>7, <1>8

\* An upload that is queued is queued in the abstract life cycle.
LEMMA FinalizeQueues ==
    ASSUME IInv, LastAgrees, NEW j \in Jobs, Finalize(j)
    PROVE  LastAgrees' /\ Lifecycle!Next
<1>1. version[j] = "NONE"
  BY DEF Finalize, IInv, Rows, Row, VersionShows
<1>2. Lifecycle!Queue(j)
  BY <1>1 DEF Finalize, Lifecycle!Queue, OnRecord
<1>3. LastAgrees'
  BY DEF LastAgrees, Agreed, Finalize, IInv, TypeOK, Ended, ParserStatus
<1> QED
  BY <1>2, <1>3 DEF Lifecycle!Next

\* Everything else goes unseen.
LEMMA RefinementStep ==
    ASSUME IInv, LastAgrees, [Next]_vars
    PROVE  LastAgrees' /\ [Lifecycle!Next]_(Lifecycle!lifecycle)
<1>1. ASSUME UNCHANGED <<status, version, current_attempt, attempts, results>>
      PROVE  LastAgrees' /\ [Lifecycle!Next]_(Lifecycle!lifecycle)
  BY <1>1, Unseen, AgreedKept DEF LastAgrees
<1>2. ASSUME NEW w \in Workers, CommitClaim(w)
      PROVE  LastAgrees' /\ [Lifecycle!Next]_(Lifecycle!lifecycle)
  <2>1. UNCHANGED <<version, current_attempt, attempts, results>>
    BY <1>2 DEF CommitClaim, children
  <2>2. \A j \in Jobs : status'[j] \in Ended => status'[j] = status[j]
    BY <1>2 DEF CommitClaim, IInv, TypeOK, Ended, ParserStatus
  <2>3. LastAgrees'
    BY <2>1, <2>2 DEF LastAgrees, Agreed
  <2> QED
    BY <2>1, <2>3, Unseen
<1>3. \/ UNCHANGED <<status, version, current_attempt, attempts, results>>
      \/ \E k \in Jobs : Finalize(k)
      \/ \E w \in Workers : CommitClaim(w) \/ RecordFailure(w)
      \/ \E w \in Workers, verdict \in Verdicts : CommitVerdict(w, verdict)
  BY DEF Next, WorkerStep, Expire, Poll, Claim, ClaimNothing,
         Begin, BeginRefused, Publish, PublishUnacknowledged,
         ParseFails, Relock, RecordRefused, Crash, Killed, Die, Drained,
         vars, row, children
<1> QED
  BY <1>1, <1>2, <1>3, FinalizeQueues, VerdictExtracts, FailureFails

\* The workers, their claims, leases, takeovers, rollbacks and repeated commits
\* behave like one worker that attempts each upload in steps of its own.
THEOREM Refinement == Spec => ImplementsIngestion
<1>1. Init => Lifecycle!Init /\ LastAgrees
  <2>1. Init => OnRecord = [j \in Jobs |-> {}]
    BY DEF Init, OnRecord
  <2> QED
    BY <2>1
    DEF Init, Lifecycle!Init, LastAgrees, Agreed, Ended, ParserStatus
<1>2. IInv /\ LastAgrees /\ [Next]_vars =>
          LastAgrees' /\ [Lifecycle!Next]_(Lifecycle!lifecycle)
  BY RefinementStep
<1> QED
  BY <1>1, <1>2, Invariance, PTL DEF Spec, ImplementsIngestion, Lifecycle!Spec

==============================================================================
