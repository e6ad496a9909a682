------------------------- MODULE AnalysisJobs_proofs -------------------------
(***************************************************************************)
(* What holds of AnalysisJobs for every set of jobs, workers and clients.  *)
(* The inductive invariant IInv says who may touch a row and why: the row  *)
(* lock belongs to a running engine, that engine's token is the current    *)
(* one, tokens are never reused, and a job that has had an effect cannot   *)
(* be handed to anyone again.                                              *)
(***************************************************************************)
EXTENDS AnalysisJobs, SequenceTheorems, FiniteSetTheorems, TLAPS

\* A worker has a job exactly while it is at work.
Linked == \A w \in Workers : pc[w] \in Engaged <=> held[w] \in Jobs

\* A row lock is held exactly by the engine whose transaction is open on it.
LockMatchesEngine ==
    \A j \in Jobs : \A w \in Workers :
        rowlock[j] = w <=> pc[w] \in Locking /\ held[w] = j

\* No worker has a token from the future, and only the worker named in the
\* row has the current one.
TokenNamesOwner ==
    \A w \in Workers : pc[w] \in Engaged =>
        /\ tok[w] <= claim_token[held[w]]
        /\ tok[w] = claim_token[held[w]] => locked_by[held[w]] = w

\* A job is claimed once and recovered once.
ClaimedThenRecovered ==
    \A j \in Jobs :
        \/ claim_token[j] = 0 /\ recovery_count[j] = 0
        \/ claim_token[j] = 1 /\ recovery_count[j] = 0
        \/ claim_token[j] = 2 /\ recovery_count[j] = 1

\* Once the tool's dataset is committed the job is beyond the statuses it can
\* be claimed, recovered or answered in, and no worker that has not run the
\* tool holds the current token.
EffectClosesJob ==
    \A j \in Jobs : datasets[j] > 0 =>
        /\ status[j] \notin SafeStatuses \cup {"NEEDS_CLARIFICATION", "NONE"}
        /\ \A w \in Workers : pc[w] \in {"claimed", "running"} /\ held[w] = j =>
                tok[w] # claim_token[j]

\* The events a client has seen are none, or one outcome of a job that is over.
OutcomeClosesJob ==
    \A j \in Jobs :
        /\ outcomes[j] \in {<<>>, <<"completed">>, <<"failed">>}
        /\ outcomes[j] # <<>> => status[j] \in TerminalStates

Ownership == Linked /\ LockMatchesEngine /\ FenceHoldsUnderLock /\ TokenNamesOwner
Effects == ClaimedThenRecovered /\ EffectClosesJob /\ ToolEffectOnce
Results == ResultIsOwners /\ OutcomeClosesJob /\ OutcomeReportedOnce

IInv == TypeOK /\ Ownership /\ Effects /\ Results

------------------------------------------------------------------------------
(* Sequences that stand for tables *)

\* A table of the same length whose rows all have the type has the type.
LEMMA SameShapeInSeq ==
    ASSUME NEW S, NEW s \in Seq(S), NEW t,
           t = [n \in DOMAIN s |-> t[n]], \A n \in DOMAIN s : t[n] \in S
    PROVE  t \in Seq(S)
<1>1. PICK k \in Nat : s \in [1 .. k -> S]
    BY SeqDef
<1>2. t \in [1 .. k -> S]
    BY <1>1
<1> QED
    BY <1>1, <1>2, SeqDef

\* Overwriting a row with a value of the same type keeps the table's type.
LEMMA UpdateInSeq ==
    ASSUME NEW S, NEW s \in Seq(S), NEW n, NEW v, n \in DOMAIN s => v \in S
    PROVE  [s EXCEPT ![n] = v] \in Seq(S)
<1> DEFINE t == [s EXCEPT ![n] = v]
<1>1. PICK k \in Nat : s \in [1 .. k -> S]
    BY SeqDef
<1>2. t \in [1 .. k -> S]
    BY <1>1
<1> QED
    BY <1>1, <1>2, SeqDef

------------------------------------------------------------------------------
(* Every step keeps the invariant *)

\* Every action writes values of the columns' types.
LEMMA TypeStep ==
    ASSUME TypeOK, Linked, [Next]_vars
    PROVE  TypeOK'
<1> USE AnalysisAssumption DEF vars, row, children, worker
<1>1. ASSUME NEW j \in Jobs, CreateAnalysis(j) PROVE TypeOK'
    BY <1>1 DEF CreateAnalysis, TypeOK, PC, Engaged, NULL,
           AnalysisJobStatus, ActiveStatuses, SafeStatuses,
           SideEffectStatuses, TerminalStates
<1>2. ASSUME NEW j \in Jobs, LeaseExpires(j) PROVE TypeOK'
    BY <1>2 DEF LeaseExpires, TypeOK, PC, Engaged, NULL, AnalysisJobStatus,
           ActiveStatuses, SafeStatuses, SideEffectStatuses, TerminalStates
<1>3. ASSUME NEW c \in Clients, NEW j \in Jobs, CancelRead(c, j) PROVE TypeOK'
    BY <1>3 DEF CancelRead, TypeOK, PC, Engaged, NULL, AnalysisJobStatus,
           ActiveStatuses, SafeStatuses, SideEffectStatuses, TerminalStates
<1>4. ASSUME NEW c \in Clients, CancelWrite(c) PROVE TypeOK'
    BY <1>4 DEF CancelWrite, Unlocked, TypeOK, PC, Engaged, NULL,
           AnalysisJobStatus, ActiveStatuses, SafeStatuses,
           SideEffectStatuses, TerminalStates
<1>5. ASSUME NEW w \in Workers, NEW j \in Jobs, Claim(w, j) PROVE TypeOK'
    BY <1>5 DEF Claim, TakeOver, Claimable, Unlocked, TypeOK, PC, Engaged,
           NULL, AnalysisJobStatus, ActiveStatuses, SafeStatuses,
           SideEffectStatuses, TerminalStates
<1>6. ASSUME NEW w \in Workers, NEW j \in Jobs, Recover(w, j) PROVE TypeOK'
  <2> DEFINE t == [n \in DOMAIN attempts[j] |->
                     IF attempts[j][n] = "RUNNING" THEN "ABANDONED"
                                                   ELSE attempts[j][n]]
  <2>1. attempts[j] \in Seq(AttemptStatus)
    BY DEF TypeOK
  <2>2. \A n \in DOMAIN t : t[n] \in AttemptStatus
    BY <2>1, ElementOfSeq, LenProperties DEF AttemptStatus
  <2>3. t \in Seq(AttemptStatus)
    BY <2>1, <2>2, SameShapeInSeq
  <2>4. attempts' = [attempts EXCEPT ![j] = t]
    BY <1>6 DEF Recover
  <2>5. attempts' \in [Jobs -> Seq(AttemptStatus)]
    BY <2>3, <2>4 DEF TypeOK
  <2> HIDE DEF t
  <2> QED
    BY <1>6, <2>5, SMTT(30) DEF Recover, TakeOver, Recoverable, TypeOK, PC, AnalysisJobStatus,
       ActiveStatuses, SafeStatuses
<1>7. ASSUME NEW w \in Workers, PollEmpty(w) PROVE TypeOK'
    BY <1>7 DEF PollEmpty, GoTo, TypeOK, PC, Engaged, NULL,
           AnalysisJobStatus, ActiveStatuses, SafeStatuses,
           SideEffectStatuses, TerminalStates
<1>8. ASSUME NEW w \in Workers, PollMiss(w) PROVE TypeOK'
    BY <1>8 DEF PollMiss, GoTo, TypeOK, PC, Engaged, NULL,
           AnalysisJobStatus, ActiveStatuses, SafeStatuses,
           SideEffectStatuses, TerminalStates
<1>9. ASSUME NEW w \in Workers, StartEngine(w) PROVE TypeOK'
  <2>1. held[w] \in Jobs
    BY <1>9 DEF StartEngine, Linked, Engaged, PC
  <2>2. att' \in [Workers -> Nat]
    BY <1>9, <2>1, LenProperties DEF StartEngine, TypeOK
  <2>3. mem' \in [Workers -> AnalysisJobStatus]
    BY <1>9 DEF StartEngine, Fence, TypeOK, AnalysisJobStatus
  <2> QED
    BY <1>9, <2>2, <2>3 DEF StartEngine, TypeOK, PC
<1>10. ASSUME NEW w \in Workers, Advance(w) PROVE TypeOK'
    BY <1>10 DEF Advance, NextPhase, TypeOK, PC, Engaged, NULL,
           AnalysisJobStatus, ActiveStatuses, SafeStatuses,
           SideEffectStatuses, TerminalStates
<1>11. ASSUME NEW w \in Workers, DenyByPolicy(w) PROVE TypeOK'
  <2>1. held[w] \in Jobs
    BY <1>11 DEF DenyByPolicy, Linked, Engaged, PC
  <2>2. attempts' \in [Jobs -> Seq(AttemptStatus)]
    BY <1>11, <2>1 DEF DenyByPolicy, TypeOK, AttemptStatus
  <2>3. outcomes' \in [Jobs -> Seq({"completed", "failed"})]
    BY <1>11, <2>1 DEF DenyByPolicy, TypeOK
  <2> QED
    BY <1>11, <2>1, <2>2, <2>3 DEF DenyByPolicy, Release, GoIdle, NULL, TypeOK, PC,
       AnalysisJobStatus, ActiveStatuses, SafeStatuses, SideEffectStatuses,
       TerminalStates
<1>12. ASSUME NEW w \in Workers, RequireClarification(w) PROVE TypeOK'
  <2>1. held[w] \in Jobs
    BY <1>12 DEF RequireClarification, Linked, Engaged, PC
  <2>2. attempts' \in [Jobs -> Seq(AttemptStatus)]
    BY <1>12, <2>1 DEF RequireClarification, TypeOK, AttemptStatus
  <2>3. clars' \in [Jobs -> Seq(Clarification)]
    BY <1>12, <2>1 DEF RequireClarification, TypeOK, Clarification
  <2> QED
    BY <1>12, <2>1, <2>2, <2>3 DEF RequireClarification, Release, GoTo, TypeOK, PC,
       AnalysisJobStatus, ActiveStatuses, SafeStatuses, SideEffectStatuses,
       TerminalStates
<1>13. ASSUME NEW w \in Workers, ParkAttempt(w) PROVE TypeOK'
    BY <1>13 DEF ParkAttempt, GoTo, TypeOK, PC
<1>14. ASSUME NEW w \in Workers, RunTool(w) PROVE TypeOK'
  <2>1. held[w] \in Jobs
    BY <1>14 DEF RunTool, Linked, Engaged, PC
  <2>2. attempts' \in [Jobs -> Seq(AttemptStatus)]
    BY <1>14, <2>1 DEF RunTool, TypeOK, AttemptStatus
  <2> QED
    BY <1>14, <2>1, <2>2, SMTT(30) DEF RunTool, Release, GoTo, TypeOK, PC,
       AnalysisJobStatus, ActiveStatuses, SafeStatuses, SideEffectStatuses,
       TerminalStates
<1>15. ASSUME NEW w \in Workers, Reassert(w) PROVE TypeOK'
    BY <1>15 DEF Reassert, Unlocked, GoTo, TypeOK, PC, Engaged, NULL,
           AnalysisJobStatus, ActiveStatuses, SafeStatuses,
           SideEffectStatuses, TerminalStates
<1>16. ASSUME NEW w \in Workers, Complete(w) PROVE TypeOK'
  <2>1. held[w] \in Jobs
    BY <1>16 DEF Complete, Linked, Engaged, PC
  <2>2. [attempts[held[w]] EXCEPT ![att[w]] = "COMPLETED"] \in Seq(AttemptStatus)
    BY <2>1, UpdateInSeq DEF TypeOK, AttemptStatus
  <2>3. attempts' \in [Jobs -> Seq(AttemptStatus)]
    BY <1>16, <2>1, <2>2 DEF Complete, TypeOK
  <2>4. outcomes' \in [Jobs -> Seq({"completed", "failed"})]
    BY <1>16, <2>1 DEF Complete, TypeOK
  <2> QED
    BY <1>16, <2>3, <2>4, SMTT(60) DEF Complete, Release, GoIdle, TypeOK, PC, NULL,
       AnalysisJobStatus, ActiveStatuses, SafeStatuses, TerminalStates
<1>17. ASSUME NEW w \in Workers, PersistFailure(w) PROVE TypeOK'
  <2> DEFINE j == held[w]
             t == [n \in DOMAIN attempts[j] |->
                     IF n = att[w] THEN "FAILED" ELSE attempts[j][n]]
  <2>1. j \in Jobs
    BY <1>17 DEF PersistFailure, Linked, Engaged, PC
  <2>2. attempts[j] \in Seq(AttemptStatus)
    BY <2>1 DEF TypeOK
  <2>3. \A n \in DOMAIN t : t[n] \in AttemptStatus
    BY <2>2, ElementOfSeq, LenProperties DEF AttemptStatus
  <2>4. t \in Seq(AttemptStatus)
    BY <2>2, <2>3, SameShapeInSeq
  <2>5. attempts' = [attempts EXCEPT ![j] = t]
    BY <1>17 DEF PersistFailure
  <2>6. attempts' \in [Jobs -> Seq(AttemptStatus)]
    BY <2>4, <2>5 DEF TypeOK
  <2>7. outcomes' \in [Jobs -> Seq({"completed", "failed"})]
    BY <1>17, <2>1 DEF PersistFailure, TypeOK
  <2> HIDE DEF t
  <2> QED
    BY <1>17, <2>6, <2>7 DEF PersistFailure, GoIdle, TypeOK, PC, NULL,
       AnalysisJobStatus, ActiveStatuses, SafeStatuses, TerminalStates
<1>18. ASSUME NEW w \in Workers, LoseOwnership(w) PROVE TypeOK'
    BY <1>18 DEF LoseOwnership, GoIdle, Unlocked, TypeOK, PC, Engaged, NULL,
           AnalysisJobStatus, ActiveStatuses, SafeStatuses,
           SideEffectStatuses, TerminalStates
<1>19. ASSUME NEW w \in Workers, Fail(w) PROVE TypeOK'
    BY <1>19 DEF Fail, Release, GoTo, TypeOK, PC, Engaged, NULL,
           AnalysisJobStatus, ActiveStatuses, SafeStatuses,
           SideEffectStatuses, TerminalStates
<1>20. ASSUME NEW w \in Workers, Crash(w) PROVE TypeOK'
    BY <1>20 DEF Crash, Release, GoIdle, TypeOK, PC, Engaged, NULL,
           AnalysisJobStatus, ActiveStatuses, SafeStatuses,
           SideEffectStatuses, TerminalStates
<1>21. ASSUME NEW w \in Workers, HeartbeatRenews(w) PROVE TypeOK'
    BY <1>21 DEF HeartbeatRenews, Unlocked, Fence, OwnsRow, TypeOK, PC,
           Engaged, NULL, AnalysisJobStatus, ActiveStatuses, SafeStatuses,
           SideEffectStatuses, TerminalStates
<1>22. ASSUME NEW w \in Workers, HeartbeatFails(w) PROVE TypeOK'
    BY <1>22 DEF HeartbeatFails, TypeOK, PC, Engaged, NULL,
           AnalysisJobStatus, ActiveStatuses, SafeStatuses,
           SideEffectStatuses, TerminalStates
<1>23. ASSUME NEW w \in Workers, HeartbeatCancels(w) PROVE TypeOK'
    BY <1>23 DEF HeartbeatCancels, Release, GoIdle, TypeOK, PC, Engaged,
           NULL, AnalysisJobStatus, ActiveStatuses, SafeStatuses,
           SideEffectStatuses, TerminalStates
<1>24. ASSUME NEW j \in Jobs, NEW n \in DOMAIN clars[j], Respond(j, n) PROVE TypeOK'
  <2> DEFINE c == [clars[j][n] EXCEPT !.status = "CLARIFICATION_RECEIVED"]
             t == [clars[j] EXCEPT ![n] = c]
  <2>1. clars[j] \in Seq(Clarification) /\ clars[j][n] \in Clarification
    BY ElementOfSeq, LenProperties DEF TypeOK
  <2>2. c \in Clarification
    BY <2>1 DEF Clarification
  <2>3. t \in Seq(Clarification)
    <3> HIDE DEF c
    <3> QED
      BY <2>1, <2>2, UpdateInSeq
  <2>4. clars' = [clars EXCEPT ![j] = t]
    BY <1>24 DEF Respond
  <2> HIDE DEF t
  <2>5. clars' \in [Jobs -> Seq(Clarification)]
    BY <2>3, <2>4 DEF TypeOK
  <2>6. attempts' \in [Jobs -> Seq(AttemptStatus)]
    BY <1>24 DEF Respond, TypeOK, AttemptStatus
  <2> QED
    BY <1>24, <2>5, <2>6 DEF Respond, TypeOK, AnalysisJobStatus, ActiveStatuses,
       SafeStatuses, TerminalStates
<1>25. ASSUME NEW j \in Jobs, NEW n \in DOMAIN clars[j], RespondTooLate(j, n) PROVE TypeOK'
  <2> DEFINE c == [clars[j][n] EXCEPT !.status = "CLARIFICATION_EXPIRED"]
             t == [clars[j] EXCEPT ![n] = c]
  <2>1. clars[j] \in Seq(Clarification) /\ clars[j][n] \in Clarification
    BY ElementOfSeq, LenProperties DEF TypeOK
  <2>2. c \in Clarification
    BY <2>1 DEF Clarification
  <2>3. t \in Seq(Clarification)
    <3> HIDE DEF c
    <3> QED
      BY <2>1, <2>2, UpdateInSeq
  <2>4. clars' = [clars EXCEPT ![j] = t]
    BY <1>25 DEF RespondTooLate
  <2> HIDE DEF t
  <2>5. clars' \in [Jobs -> Seq(Clarification)]
    BY <2>3, <2>4 DEF TypeOK
  <2> QED
    BY <1>25, <2>5 DEF RespondTooLate, TypeOK, AnalysisJobStatus, ActiveStatuses,
       SafeStatuses, TerminalStates
<1>26. ASSUME NEW j \in Jobs, NEW n \in DOMAIN clars[j], CancelClarification(j, n) PROVE TypeOK'
  <2> DEFINE c == [clars[j][n] EXCEPT !.status = "CLARIFICATION_CANCELLED"]
             t == [clars[j] EXCEPT ![n] = c]
  <2>1. clars[j] \in Seq(Clarification) /\ clars[j][n] \in Clarification
    BY ElementOfSeq, LenProperties DEF TypeOK
  <2>2. c \in Clarification
    BY <2>1 DEF Clarification
  <2>3. t \in Seq(Clarification)
    <3> HIDE DEF c
    <3> QED
      BY <2>1, <2>2, UpdateInSeq
  <2>4. clars' = [clars EXCEPT ![j] = t]
    BY <1>26 DEF CancelClarification
  <2> HIDE DEF t
  <2>5. clars' \in [Jobs -> Seq(Clarification)]
    BY <2>3, <2>4 DEF TypeOK
  <2> QED
    BY <1>26, <2>5 DEF CancelClarification, TypeOK, AnalysisJobStatus, ActiveStatuses,
       SafeStatuses, TerminalStates
<1>27. ASSUME NEW j \in Jobs, NEW n \in DOMAIN clars[j], ClarificationDue(j, n) PROVE TypeOK'
  <2> DEFINE c == [clars[j][n] EXCEPT !.due = TRUE]
             t == [clars[j] EXCEPT ![n] = c]
  <2>1. clars[j] \in Seq(Clarification) /\ clars[j][n] \in Clarification
    BY ElementOfSeq, LenProperties DEF TypeOK
  <2>2. c \in Clarification
    BY <2>1 DEF Clarification
  <2>3. t \in Seq(Clarification)
    <3> HIDE DEF c
    <3> QED
      BY <2>1, <2>2, UpdateInSeq
  <2>4. clars' = [clars EXCEPT ![j] = t]
    BY <1>27 DEF ClarificationDue
  <2> HIDE DEF t
  <2>5. clars' \in [Jobs -> Seq(Clarification)]
    BY <2>3, <2>4 DEF TypeOK
  <2> QED
    BY <1>27, <2>5 DEF ClarificationDue, TypeOK
<1>28. ASSUME ExpireDueClarifications PROVE TypeOK'
  <2> DEFINE t(j) == [n \in DOMAIN clars[j] |->
                        IF n \in DueOn(j)
                        THEN [clars[j][n] EXCEPT !.status = "CLARIFICATION_EXPIRED"]
                        ELSE clars[j][n]]
  <2>1. ASSUME NEW j \in Jobs PROVE t(j) \in Seq(Clarification)
    <3>1. clars[j] \in Seq(Clarification)
      BY DEF TypeOK
    <3>2. \A n \in DOMAIN clars[j] : clars[j][n] \in Clarification
      BY <3>1, ElementOfSeq, LenProperties
    <3>3. \A n \in DOMAIN clars[j] : t(j)[n] \in Clarification
      BY <3>2 DEF Clarification
    <3> QED
      BY <3>1, <3>3, SameShapeInSeq
  <2>2. clars' = [j \in Jobs |-> t(j)]
    BY <1>28 DEF ExpireDueClarifications
  <2>3. clars' \in [Jobs -> Seq(Clarification)]
    BY <2>1, <2>2
  <2> HIDE DEF t
  <2> QED
    BY <1>28, <2>3 DEF ExpireDueClarifications, TypeOK, AnalysisJobStatus, TerminalStates
<1>29. ASSUME UNCHANGED vars PROVE TypeOK'
    BY <1>29 DEF TypeOK, Engaged, NULL, AnalysisJobStatus, ActiveStatuses,
           SafeStatuses, SideEffectStatuses, TerminalStates
<1> QED
    BY <1>1, <1>2, <1>3, <1>4, <1>5, <1>6, <1>7, <1>8, <1>9, <1>10, <1>11,
           <1>12, <1>13, <1>14, <1>15, <1>16, <1>17, <1>18, <1>19, <1>20,
           <1>21, <1>22, <1>23, <1>24, <1>25, <1>26, <1>27, <1>28, <1>29
       DEF Next, Poll, EngineStep, ClarificationStep

\* Rows are locked only by running engines, and everybody else who writes a
\* status or a token waits for the lock: so a fence cannot fail under it.
LEMMA OwnershipStep ==
    ASSUME TypeOK, Ownership, [Next]_vars
    PROVE  Ownership'
<1> USE AnalysisAssumption DEF vars, row, children, worker
<1>1. ASSUME NEW j \in Jobs, CreateAnalysis(j) PROVE Ownership'
    BY <1>1 DEF CreateAnalysis, ActiveStatuses, SafeStatuses,
           SideEffectStatuses, Ownership, Linked, LockMatchesEngine,
           FenceHoldsUnderLock, TokenNamesOwner, Fence, OwnsRow, TypeOK, PC,
           Engaged, Locking
<1>2. ASSUME NEW j \in Jobs, LeaseExpires(j) PROVE Ownership'
    BY <1>2 DEF LeaseExpires, Ownership, Linked, LockMatchesEngine,
           FenceHoldsUnderLock, TokenNamesOwner, Fence, OwnsRow, TypeOK, PC,
           Engaged, Locking
<1>3. ASSUME NEW c \in Clients, NEW j \in Jobs, CancelRead(c, j) PROVE Ownership'
    BY <1>3 DEF CancelRead, Ownership, Linked, LockMatchesEngine,
           FenceHoldsUnderLock, TokenNamesOwner, Fence, OwnsRow, TypeOK, PC,
           Engaged, Locking
<1>4. ASSUME NEW c \in Clients, CancelWrite(c) PROVE Ownership'
    BY <1>4 DEF CancelWrite, Unlocked, Ownership, Linked, LockMatchesEngine,
           FenceHoldsUnderLock, TokenNamesOwner, Fence, OwnsRow, TypeOK, PC,
           Engaged, Locking
<1>5. ASSUME NEW w \in Workers, NEW j \in Jobs, Claim(w, j) PROVE Ownership'
    BY <1>5, SMTT(30) DEF Claim, TakeOver, Claimable, Unlocked, NULL, ActiveStatuses,
           SafeStatuses, SideEffectStatuses, Ownership, Linked,
           LockMatchesEngine, FenceHoldsUnderLock, TokenNamesOwner, Fence,
           OwnsRow, TypeOK, PC, Engaged, Locking
<1>6. ASSUME NEW w \in Workers, NEW j \in Jobs, Recover(w, j) PROVE Ownership'
    BY <1>6, SMTT(30) DEF Recover, TakeOver, Recoverable, Unlocked, Ownership, Linked,
           LockMatchesEngine, FenceHoldsUnderLock, TokenNamesOwner, Fence,
           OwnsRow, TypeOK, PC, Engaged, Locking
<1>7. ASSUME NEW w \in Workers, PollEmpty(w) PROVE Ownership'
    BY <1>7 DEF PollEmpty, GoTo, Ownership, Linked, LockMatchesEngine,
           FenceHoldsUnderLock, TokenNamesOwner, Fence, OwnsRow, TypeOK, PC,
           Engaged, Locking
<1>8. ASSUME NEW w \in Workers, PollMiss(w) PROVE Ownership'
    BY <1>8 DEF PollMiss, GoTo, Ownership, Linked, LockMatchesEngine,
           FenceHoldsUnderLock, TokenNamesOwner, Fence, OwnsRow, TypeOK, PC,
           Engaged, Locking
<1>9. ASSUME NEW w \in Workers, StartEngine(w) PROVE Ownership'
  <2> DEFINE j == held[w]
  <2>1. j \in Jobs /\ rowlock[j] = NoWorker /\ Fence(w) /\ pc[w] = "claimed"
    BY <1>9 DEF StartEngine, Unlocked, Ownership, Linked, PC, Engaged
  <2>2. /\ rowlock' = [rowlock EXCEPT ![j] = w]
        /\ pc' = [pc EXCEPT ![w] = "running"]
        /\ UNCHANGED <<status, claim_token, locked_by, held, tok>>
    BY <1>9 DEF StartEngine
  <2>3. Linked' /\ LockMatchesEngine'
    BY <2>1, <2>2, SMTT(30) DEF Ownership, Linked, LockMatchesEngine, TypeOK, PC, Engaged,
       Locking
  <2>4. FenceHoldsUnderLock'
    BY <2>1, <2>2, SMTT(30) DEF Ownership, FenceHoldsUnderLock, Fence, OwnsRow, TypeOK,
       Locking
  <2>5. TokenNamesOwner'
    BY <2>1, <2>2 DEF Ownership, TokenNamesOwner, TypeOK, PC, Engaged
  <2> QED
    BY <2>3, <2>4, <2>5 DEF Ownership
<1>10. ASSUME NEW w \in Workers, Advance(w) PROVE Ownership'
    BY <1>10 DEF Advance, Ownership, Linked, LockMatchesEngine,
           FenceHoldsUnderLock, TokenNamesOwner, Fence, OwnsRow, TypeOK, PC,
           Engaged, Locking
<1>11. ASSUME NEW w \in Workers, DenyByPolicy(w) PROVE Ownership'
  <2> DEFINE j == held[w]
  <2>1. j \in Jobs /\ rowlock[j] = w
    BY <1>11 DEF DenyByPolicy, Ownership, Linked, LockMatchesEngine, PC, Engaged, Locking
  <2>2. /\ status' = [status EXCEPT ![j] = "REJECTED_BY_POLICY"]
        /\ UNCHANGED <<claim_token, locked_by>>
    BY <1>11 DEF DenyByPolicy
  <2>3. Release(w) /\ GoIdle(w)
    BY <1>11 DEF DenyByPolicy
  <2>4. Linked' /\ LockMatchesEngine' /\ TokenNamesOwner'
    BY <2>1, <2>2, <2>3, SMTT(30) DEF Release, GoIdle, Ownership, Linked, LockMatchesEngine,
       TokenNamesOwner, TypeOK, PC, Engaged, Locking
  <2>5. FenceHoldsUnderLock'
    BY <2>1, <2>2, <2>3, SMTT(30) DEF Release, GoIdle, Ownership, FenceHoldsUnderLock, Fence,
       OwnsRow, TypeOK
  <2> QED
    BY <2>4, <2>5 DEF Ownership
<1>12. ASSUME NEW w \in Workers, RequireClarification(w) PROVE Ownership'
    BY <1>12, SMTT(30) DEF RequireClarification, Release, GoTo, Ownership, Linked,
           LockMatchesEngine, FenceHoldsUnderLock, TokenNamesOwner, Fence,
           OwnsRow, TypeOK, PC, Engaged, Locking
<1>13. ASSUME NEW w \in Workers, ParkAttempt(w) PROVE Ownership'
  <2>1. /\ GoTo(w, "failing") /\ pc[w] = "parked"
        /\ UNCHANGED <<status, claim_token, locked_by, rowlock>>
    BY <1>13 DEF ParkAttempt
  <2> QED
    BY <2>1 DEF GoTo, Ownership, Linked, LockMatchesEngine,
       FenceHoldsUnderLock, TokenNamesOwner, Fence, OwnsRow, TypeOK, PC,
       Engaged, Locking
<1>14. ASSUME NEW w \in Workers, RunTool(w) PROVE Ownership'
    BY <1>14, SMTT(30) DEF RunTool, Release, GoTo, Ownership, Linked,
           LockMatchesEngine, FenceHoldsUnderLock, TokenNamesOwner, Fence,
           OwnsRow, TypeOK, PC, Engaged, Locking
<1>15. ASSUME NEW w \in Workers, Reassert(w) PROVE Ownership'
  <2>1. held[w] \in Jobs /\ rowlock[held[w]] = NoWorker /\ pc[w] = "tooled"
    BY <1>15 DEF Reassert, Unlocked, Ownership, Linked, PC, Engaged
  <2>2. /\ rowlock' = [rowlock EXCEPT ![held[w]] = w]
        /\ GoTo(w, "recording") /\ Fence(w)
        /\ UNCHANGED <<status, claim_token, locked_by>>
    BY <1>15 DEF Reassert
  <2>3. Linked' /\ TokenNamesOwner'
    BY <2>1, <2>2, SMTT(30) DEF GoTo, Ownership, Linked, TokenNamesOwner, TypeOK, PC, Engaged
  <2>4. LockMatchesEngine'
    BY <2>1, <2>2, SMTT(30) DEF GoTo, Ownership, LockMatchesEngine, TypeOK, PC, Locking
  <2>5. FenceHoldsUnderLock'
    BY <2>1, <2>2, SMTT(30) DEF GoTo, Ownership, FenceHoldsUnderLock, Fence, OwnsRow, TypeOK,
       PC, Locking
  <2> QED
    BY <2>3, <2>4, <2>5 DEF Ownership
<1>16. ASSUME NEW w \in Workers, Complete(w) PROVE Ownership'
  <2> DEFINE j == held[w]
  <2>1. j \in Jobs /\ rowlock[j] = w
    BY <1>16 DEF Complete, Ownership, Linked, LockMatchesEngine, PC, Engaged, Locking
  <2>2. /\ status' = [status EXCEPT ![j] = "COMPLETED"]
        /\ UNCHANGED <<claim_token, locked_by>>
    BY <1>16 DEF Complete
  <2>3. Release(w) /\ GoIdle(w)
    BY <1>16 DEF Complete
  <2>4. Linked' /\ LockMatchesEngine' /\ TokenNamesOwner'
    BY <2>1, <2>2, <2>3, SMTT(30) DEF Release, GoIdle, Ownership, Linked, LockMatchesEngine,
       TokenNamesOwner, TypeOK, PC, Engaged, Locking
  <2>5. FenceHoldsUnderLock'
    BY <2>1, <2>2, <2>3, SMTT(30) DEF Release, GoIdle, Ownership, FenceHoldsUnderLock, Fence,
       OwnsRow, TypeOK
  <2> QED
    BY <2>4, <2>5 DEF Ownership
<1>17. ASSUME NEW w \in Workers, PersistFailure(w) PROVE Ownership'
    BY <1>17, SMTT(30) DEF PersistFailure, GoIdle, Unlocked, Fence, OwnsRow,
           Ownership, Linked, LockMatchesEngine, FenceHoldsUnderLock,
           TokenNamesOwner, TypeOK, PC, Engaged, Locking
<1>18. ASSUME NEW w \in Workers, LoseOwnership(w) PROVE Ownership'
    BY <1>18, SMTT(30) DEF LoseOwnership, GoIdle, Unlocked, Ownership, Linked,
           LockMatchesEngine, FenceHoldsUnderLock, TokenNamesOwner, Fence,
           OwnsRow, TypeOK, PC, Engaged, Locking
<1>19. ASSUME NEW w \in Workers, Fail(w) PROVE Ownership'
    BY <1>19 DEF Fail, Release, GoTo, Ownership, Linked, LockMatchesEngine,
           FenceHoldsUnderLock, TokenNamesOwner, Fence, OwnsRow, TypeOK, PC,
           Engaged, Locking
<1>20. ASSUME NEW w \in Workers, Crash(w) PROVE Ownership'
    BY <1>20, SMTT(30) DEF Crash, Release, GoIdle, Ownership, Linked,
           LockMatchesEngine, FenceHoldsUnderLock, TokenNamesOwner, Fence,
           OwnsRow, TypeOK, PC, Engaged, Locking
<1>21. ASSUME NEW w \in Workers, HeartbeatRenews(w) PROVE Ownership'
    BY <1>21 DEF HeartbeatRenews, Unlocked, Fence, OwnsRow, Ownership,
           Linked, LockMatchesEngine, FenceHoldsUnderLock, TokenNamesOwner,
           TypeOK, PC, Engaged, Locking
<1>22. ASSUME NEW w \in Workers, HeartbeatFails(w) PROVE Ownership'
    BY <1>22 DEF HeartbeatFails, Ownership, Linked, LockMatchesEngine,
           FenceHoldsUnderLock, TokenNamesOwner, Fence, OwnsRow, TypeOK, PC,
           Engaged, Locking
<1>23. ASSUME NEW w \in Workers, HeartbeatCancels(w) PROVE Ownership'
    BY <1>23, SMTT(60) DEF HeartbeatCancels, Release, GoIdle, Ownership, Linked,
           LockMatchesEngine, FenceHoldsUnderLock, TokenNamesOwner, Fence,
           OwnsRow, TypeOK, PC, Engaged, Locking
<1>24. ASSUME NEW j \in Jobs, NEW n \in DOMAIN clars[j], Respond(j, n) PROVE Ownership'
    BY <1>24 DEF Respond, Unlocked, Awaiting, Ownership, Linked,
           LockMatchesEngine, FenceHoldsUnderLock, TokenNamesOwner, Fence,
           OwnsRow, TypeOK, PC, Engaged, Locking
<1>25. ASSUME NEW j \in Jobs, NEW n \in DOMAIN clars[j], RespondTooLate(j, n) PROVE Ownership'
    BY <1>25 DEF RespondTooLate, Unlocked, Awaiting, Ownership, Linked,
           LockMatchesEngine, FenceHoldsUnderLock, TokenNamesOwner, Fence,
           OwnsRow, TypeOK, PC, Engaged, Locking
<1>26. ASSUME NEW j \in Jobs, NEW n \in DOMAIN clars[j], CancelClarification(j, n) PROVE Ownership'
    BY <1>26 DEF CancelClarification, Unlocked, Awaiting, Ownership, Linked,
           LockMatchesEngine, FenceHoldsUnderLock, TokenNamesOwner, Fence,
           OwnsRow, TypeOK, PC, Engaged, Locking
<1>27. ASSUME NEW j \in Jobs, NEW n \in DOMAIN clars[j], ClarificationDue(j, n) PROVE Ownership'
    BY <1>27, SMTT(30) DEF ClarificationDue, Ownership, Linked, LockMatchesEngine,
           FenceHoldsUnderLock, TokenNamesOwner, Fence, OwnsRow, TypeOK, PC,
           Engaged, Locking
<1>28. ASSUME ExpireDueClarifications PROVE Ownership'
  <2>1. ASSUME NEW j \in Jobs, NEW w \in Workers, rowlock[j] = w
        PROVE  status'[j] = status[j]
    BY <1>28, <2>1 DEF ExpireDueClarifications, Unlocked
  <2>2. UNCHANGED <<claim_token, locked_by, rowlock, pc, held, tok>>
    BY <1>28 DEF ExpireDueClarifications
  <2> QED
    BY <2>1, <2>2 DEF Ownership, Linked, LockMatchesEngine,
       FenceHoldsUnderLock, TokenNamesOwner, Fence, OwnsRow
<1>29. ASSUME UNCHANGED vars PROVE Ownership'
    BY <1>29 DEF Ownership, Linked, LockMatchesEngine, FenceHoldsUnderLock,
           TokenNamesOwner, Fence, OwnsRow, TypeOK, Engaged, Locking
<1> QED
    BY <1>1, <1>2, <1>3, <1>4, <1>5, <1>6, <1>7, <1>8, <1>9, <1>10, <1>11,
           <1>12, <1>13, <1>14, <1>15, <1>16, <1>17, <1>18, <1>19, <1>20,
           <1>21, <1>22, <1>23, <1>24, <1>25, <1>26, <1>27, <1>28, <1>29
       DEF Next, Poll, EngineStep, ClarificationStep

\* The tool runs only under the lock and the current token, and leaves a
\* status from which no token is handed out.
LEMMA EffectsStep ==
    ASSUME TypeOK, Ownership, Effects, [Next]_vars
    PROVE  Effects'
<1> USE AnalysisAssumption DEF vars, row, children, worker
<1>1. ASSUME NEW j \in Jobs, CreateAnalysis(j) PROVE Effects'
    BY <1>1 DEF CreateAnalysis, Ownership, Linked, LockMatchesEngine,
           FenceHoldsUnderLock, TokenNamesOwner, Fence, OwnsRow, Effects,
           ClaimedThenRecovered, EffectClosesJob, ToolEffectOnce, TypeOK,
           PC, Engaged, Locking, NULL, ActiveStatuses, SafeStatuses,
           SideEffectStatuses, TerminalStates
<1>2. ASSUME NEW j \in Jobs, LeaseExpires(j) PROVE Effects'
    BY <1>2 DEF LeaseExpires, Ownership, Linked, LockMatchesEngine,
           FenceHoldsUnderLock, TokenNamesOwner, Fence, OwnsRow, Effects,
           ClaimedThenRecovered, EffectClosesJob, ToolEffectOnce, TypeOK,
           PC, Engaged, Locking, NULL, ActiveStatuses, SafeStatuses,
           SideEffectStatuses, TerminalStates
<1>3. ASSUME NEW c \in Clients, NEW j \in Jobs, CancelRead(c, j) PROVE Effects'
    BY <1>3 DEF CancelRead, Ownership, Linked, LockMatchesEngine,
           FenceHoldsUnderLock, TokenNamesOwner, Fence, OwnsRow, Effects,
           ClaimedThenRecovered, EffectClosesJob, ToolEffectOnce, TypeOK,
           PC, Engaged, Locking, NULL, ActiveStatuses, SafeStatuses,
           SideEffectStatuses, TerminalStates
<1>4. ASSUME NEW c \in Clients, CancelWrite(c) PROVE Effects'
    BY <1>4 DEF CancelWrite, Unlocked, Ownership, Linked, LockMatchesEngine,
           FenceHoldsUnderLock, TokenNamesOwner, Fence, OwnsRow, Effects,
           ClaimedThenRecovered, EffectClosesJob, ToolEffectOnce, TypeOK,
           PC, Engaged, Locking, NULL, ActiveStatuses, SafeStatuses,
           SideEffectStatuses, TerminalStates
<1>5. ASSUME NEW w \in Workers, NEW j \in Jobs, Claim(w, j) PROVE Effects'
    BY <1>5, SMTT(30) DEF Claim, TakeOver, Claimable, Unlocked, Ownership, Linked,
           LockMatchesEngine, FenceHoldsUnderLock, TokenNamesOwner, Fence,
           OwnsRow, Effects, ClaimedThenRecovered, EffectClosesJob,
           ToolEffectOnce, TypeOK, PC, Engaged, Locking, NULL,
           ActiveStatuses, SafeStatuses, SideEffectStatuses, TerminalStates
<1>6. ASSUME NEW w \in Workers, NEW j \in Jobs, Recover(w, j) PROVE Effects'
    BY <1>6, SMTT(30) DEF Recover, TakeOver, Recoverable, Unlocked, Ownership, Linked,
           LockMatchesEngine, FenceHoldsUnderLock, TokenNamesOwner, Fence,
           OwnsRow, Effects, ClaimedThenRecovered, EffectClosesJob,
           ToolEffectOnce, TypeOK, PC, Engaged, Locking, NULL,
           ActiveStatuses, SafeStatuses, SideEffectStatuses, TerminalStates
<1>7. ASSUME NEW w \in Workers, PollEmpty(w) PROVE Effects'
    BY <1>7 DEF PollEmpty, GoTo, Ownership, Linked, LockMatchesEngine,
           FenceHoldsUnderLock, TokenNamesOwner, Fence, OwnsRow, Effects,
           ClaimedThenRecovered, EffectClosesJob, ToolEffectOnce, TypeOK,
           PC, Engaged, Locking, NULL, ActiveStatuses, SafeStatuses,
           SideEffectStatuses, TerminalStates
<1>8. ASSUME NEW w \in Workers, PollMiss(w) PROVE Effects'
    BY <1>8 DEF PollMiss, GoTo, Ownership, Linked, LockMatchesEngine,
           FenceHoldsUnderLock, TokenNamesOwner, Fence, OwnsRow, Effects,
           ClaimedThenRecovered, EffectClosesJob, ToolEffectOnce, TypeOK,
           PC, Engaged, Locking, NULL, ActiveStatuses, SafeStatuses,
           SideEffectStatuses, TerminalStates
<1>9. ASSUME NEW w \in Workers, StartEngine(w) PROVE Effects'
    BY <1>9 DEF StartEngine, Unlocked, Fence, OwnsRow, Ownership, Linked,
           LockMatchesEngine, FenceHoldsUnderLock, TokenNamesOwner, Effects,
           ClaimedThenRecovered, EffectClosesJob, ToolEffectOnce, TypeOK,
           PC, Engaged, Locking, NULL, ActiveStatuses, SafeStatuses,
           SideEffectStatuses, TerminalStates
<1>10. ASSUME NEW w \in Workers, Advance(w) PROVE Effects'
    BY <1>10 DEF Advance, Ownership, Linked, LockMatchesEngine,
           FenceHoldsUnderLock, TokenNamesOwner, Fence, OwnsRow, Effects,
           ClaimedThenRecovered, EffectClosesJob, ToolEffectOnce, TypeOK,
           PC, Engaged, Locking, NULL, ActiveStatuses, SafeStatuses,
           SideEffectStatuses, TerminalStates
<1>11. ASSUME NEW w \in Workers, DenyByPolicy(w) PROVE Effects'
    BY <1>11 DEF DenyByPolicy, GoIdle, Release, Ownership, Linked,
           LockMatchesEngine, FenceHoldsUnderLock, TokenNamesOwner, Fence,
           OwnsRow, Effects, ClaimedThenRecovered, EffectClosesJob,
           ToolEffectOnce, TypeOK, PC, Engaged, Locking, NULL,
           ActiveStatuses, SafeStatuses, SideEffectStatuses, TerminalStates
<1>12. ASSUME NEW w \in Workers, RequireClarification(w) PROVE Effects'
    BY <1>12 DEF RequireClarification, Release, GoTo, Ownership, Linked,
           LockMatchesEngine, FenceHoldsUnderLock, TokenNamesOwner, Fence,
           OwnsRow, Effects, ClaimedThenRecovered, EffectClosesJob,
           ToolEffectOnce, TypeOK, PC, Engaged, Locking, NULL,
           ActiveStatuses, SafeStatuses, SideEffectStatuses, TerminalStates
<1>13. ASSUME NEW w \in Workers, ParkAttempt(w) PROVE Effects'
    BY <1>13 DEF ParkAttempt, GoIdle, GoTo, Unlocked, Ownership, Linked,
           LockMatchesEngine, FenceHoldsUnderLock, TokenNamesOwner, Fence,
           OwnsRow, Effects, ClaimedThenRecovered, EffectClosesJob,
           ToolEffectOnce, TypeOK, PC, Engaged, Locking, NULL,
           ActiveStatuses, SafeStatuses, SideEffectStatuses, TerminalStates
<1>14. ASSUME NEW w \in Workers, RunTool(w) PROVE Effects'
  <2> DEFINE j == held[w]
  <2>1. /\ j \in Jobs
        /\ pc[w] = "running" /\ rowlock[j] = w
    BY <1>14 DEF RunTool, Ownership, Linked, LockMatchesEngine, PC, Engaged, Locking
  <2>2. claim_token[j] = tok[w] /\ locked_by[j] = w
    BY <2>1 DEF Ownership, FenceHoldsUnderLock, Fence, OwnsRow
  <2>3. datasets[j] = 0
    <3>1. datasets[j] \in Nat
      BY <2>1 DEF TypeOK
    <3>2. ~(datasets[j] > 0)
      BY <2>1, <2>2 DEF Effects, EffectClosesJob
    <3> QED
      BY <3>1, <3>2
  <2>4. ASSUME NEW v \in Workers, v # w, pc[v] \in {"claimed", "running"},
               held[v] = j
        PROVE  tok[v] # claim_token[j]
    BY <2>1, <2>2, <2>4 DEF Ownership, TokenNamesOwner, PC, Engaged
  <2>5. /\ pc' = [pc EXCEPT ![w] = "tooled"]
        /\ datasets' = [datasets EXCEPT ![j] = 1]
        /\ status' = [status EXCEPT ![j] = "EXECUTING_TOOLS"]
        /\ UNCHANGED <<claim_token, recovery_count, held, tok>>
    BY <1>14, <2>1, <2>3 DEF RunTool, GoTo, TypeOK
  <2>6. EffectClosesJob'
    BY <2>1, <2>3, <2>4, <2>5 DEF Effects, EffectClosesJob, TypeOK, SafeStatuses
  <2>7. ToolEffectOnce'
    BY <2>1, <2>3, <2>5 DEF Effects, ToolEffectOnce, TypeOK
  <2>8. ClaimedThenRecovered'
    BY <2>5 DEF Effects, ClaimedThenRecovered
  <2> QED
    BY <2>6, <2>7, <2>8 DEF Effects
<1>15. ASSUME NEW w \in Workers, Reassert(w) PROVE Effects'
    BY <1>15 DEF Reassert, Unlocked, GoTo, Ownership, Linked,
           LockMatchesEngine, FenceHoldsUnderLock, TokenNamesOwner, Fence,
           OwnsRow, Effects, ClaimedThenRecovered, EffectClosesJob,
           ToolEffectOnce, TypeOK, PC, Engaged, Locking, NULL,
           ActiveStatuses, SafeStatuses, SideEffectStatuses, TerminalStates
<1>16. ASSUME NEW w \in Workers, Complete(w) PROVE Effects'
    BY <1>16 DEF Complete, Release, GoIdle, OwnsRow, Ownership, Linked,
           LockMatchesEngine, FenceHoldsUnderLock, TokenNamesOwner, Fence,
           Effects, ClaimedThenRecovered, EffectClosesJob, ToolEffectOnce,
           TypeOK, PC, Engaged, Locking, NULL, ActiveStatuses, SafeStatuses,
           SideEffectStatuses, TerminalStates
<1>17. ASSUME NEW w \in Workers, PersistFailure(w) PROVE Effects'
    BY <1>17 DEF PersistFailure, GoIdle, Unlocked, Fence, OwnsRow,
           Ownership, Linked, LockMatchesEngine, FenceHoldsUnderLock,
           TokenNamesOwner, Effects, ClaimedThenRecovered, EffectClosesJob,
           ToolEffectOnce, TypeOK, PC, Engaged, Locking, NULL,
           ActiveStatuses, SafeStatuses, SideEffectStatuses, TerminalStates
<1>18. ASSUME NEW w \in Workers, LoseOwnership(w) PROVE Effects'
    BY <1>18 DEF LoseOwnership, GoIdle, Unlocked, Ownership, Linked,
           LockMatchesEngine, FenceHoldsUnderLock, TokenNamesOwner, Fence,
           OwnsRow, Effects, ClaimedThenRecovered, EffectClosesJob,
           ToolEffectOnce, TypeOK, PC, Engaged, Locking, NULL,
           ActiveStatuses, SafeStatuses, SideEffectStatuses, TerminalStates
<1>19. ASSUME NEW w \in Workers, Fail(w) PROVE Effects'
    BY <1>19 DEF Fail, Release, GoTo, Ownership, Linked, LockMatchesEngine,
           FenceHoldsUnderLock, TokenNamesOwner, Fence, OwnsRow, Effects,
           ClaimedThenRecovered, EffectClosesJob, ToolEffectOnce, TypeOK,
           PC, Engaged, Locking, NULL, ActiveStatuses, SafeStatuses,
           SideEffectStatuses, TerminalStates
<1>20. ASSUME NEW w \in Workers, Crash(w) PROVE Effects'
    BY <1>20 DEF Crash, Release, GoIdle, Ownership, Linked,
           LockMatchesEngine, FenceHoldsUnderLock, TokenNamesOwner, Fence,
           OwnsRow, Effects, ClaimedThenRecovered, EffectClosesJob,
           ToolEffectOnce, TypeOK, PC, Engaged, Locking, NULL,
           ActiveStatuses, SafeStatuses, SideEffectStatuses, TerminalStates
<1>21. ASSUME NEW w \in Workers, HeartbeatRenews(w) PROVE Effects'
    BY <1>21 DEF HeartbeatRenews, Unlocked, Fence, OwnsRow, Ownership,
           Linked, LockMatchesEngine, FenceHoldsUnderLock, TokenNamesOwner,
           Effects, ClaimedThenRecovered, EffectClosesJob, ToolEffectOnce,
           TypeOK, PC, Engaged, Locking, NULL, ActiveStatuses, SafeStatuses,
           SideEffectStatuses, TerminalStates
<1>22. ASSUME NEW w \in Workers, HeartbeatFails(w) PROVE Effects'
    BY <1>22 DEF HeartbeatFails, Ownership, Linked, LockMatchesEngine,
           FenceHoldsUnderLock, TokenNamesOwner, Fence, OwnsRow, Effects,
           ClaimedThenRecovered, EffectClosesJob, ToolEffectOnce, TypeOK,
           PC, Engaged, Locking, NULL, ActiveStatuses, SafeStatuses,
           SideEffectStatuses, TerminalStates
<1>23. ASSUME NEW w \in Workers, HeartbeatCancels(w) PROVE Effects'
    BY <1>23 DEF HeartbeatCancels, Release, GoIdle, Ownership, Linked,
           LockMatchesEngine, FenceHoldsUnderLock, TokenNamesOwner, Fence,
           OwnsRow, Effects, ClaimedThenRecovered, EffectClosesJob,
           ToolEffectOnce, TypeOK, PC, Engaged, Locking, NULL,
           ActiveStatuses, SafeStatuses, SideEffectStatuses, TerminalStates
<1>24. ASSUME NEW j \in Jobs, NEW n \in DOMAIN clars[j], Respond(j, n) PROVE Effects'
    BY <1>24 DEF Respond, Unlocked, Awaiting, Ownership, Linked,
           LockMatchesEngine, FenceHoldsUnderLock, TokenNamesOwner, Fence,
           OwnsRow, Effects, ClaimedThenRecovered, EffectClosesJob,
           ToolEffectOnce, TypeOK, PC, Engaged, Locking, NULL,
           ActiveStatuses, SafeStatuses, SideEffectStatuses, TerminalStates
<1>25. ASSUME NEW j \in Jobs, NEW n \in DOMAIN clars[j], RespondTooLate(j, n) PROVE Effects'
    BY <1>25 DEF RespondTooLate, Unlocked, Awaiting, Ownership, Linked,
           LockMatchesEngine, FenceHoldsUnderLock, TokenNamesOwner, Fence,
           OwnsRow, Effects, ClaimedThenRecovered, EffectClosesJob,
           ToolEffectOnce, TypeOK, PC, Engaged, Locking, NULL,
           ActiveStatuses, SafeStatuses, SideEffectStatuses, TerminalStates
<1>26. ASSUME NEW j \in Jobs, NEW n \in DOMAIN clars[j], CancelClarification(j, n) PROVE Effects'
    BY <1>26 DEF CancelClarification, Unlocked, Awaiting, Ownership, Linked,
           LockMatchesEngine, FenceHoldsUnderLock, TokenNamesOwner, Fence,
           OwnsRow, Effects, ClaimedThenRecovered, EffectClosesJob,
           ToolEffectOnce, TypeOK, PC, Engaged, Locking, NULL,
           ActiveStatuses, SafeStatuses, SideEffectStatuses, TerminalStates
<1>27. ASSUME NEW j \in Jobs, NEW n \in DOMAIN clars[j], ClarificationDue(j, n) PROVE Effects'
    BY <1>27 DEF ClarificationDue, Ownership, Linked, LockMatchesEngine,
           FenceHoldsUnderLock, TokenNamesOwner, Fence, OwnsRow, Effects,
           ClaimedThenRecovered, EffectClosesJob, ToolEffectOnce, TypeOK,
           PC, Engaged, Locking, NULL, ActiveStatuses, SafeStatuses,
           SideEffectStatuses, TerminalStates
<1>28. ASSUME ExpireDueClarifications PROVE Effects'
    BY <1>28 DEF ExpireDueClarifications, Unlocked, Awaiting, DueOn,
           Ownership, Linked, LockMatchesEngine, FenceHoldsUnderLock,
           TokenNamesOwner, Fence, OwnsRow, Effects, ClaimedThenRecovered,
           EffectClosesJob, ToolEffectOnce, TypeOK, PC, Engaged, Locking,
           NULL, ActiveStatuses, SafeStatuses, SideEffectStatuses,
           TerminalStates
<1>29. ASSUME UNCHANGED vars PROVE Effects'
    BY <1>29 DEF Ownership, Linked, LockMatchesEngine, FenceHoldsUnderLock,
           TokenNamesOwner, Fence, OwnsRow, Effects, ClaimedThenRecovered,
           EffectClosesJob, ToolEffectOnce, TypeOK, Engaged, Locking, NULL,
           ActiveStatuses, SafeStatuses, SideEffectStatuses, TerminalStates
<1> QED
    BY <1>1, <1>2, <1>3, <1>4, <1>5, <1>6, <1>7, <1>8, <1>9, <1>10, <1>11,
           <1>12, <1>13, <1>14, <1>15, <1>16, <1>17, <1>18, <1>19, <1>20,
           <1>21, <1>22, <1>23, <1>24, <1>25, <1>26, <1>27, <1>28, <1>29
       DEF Next, Poll, EngineStep, ClarificationStep

\* Outcomes and snapshots are written only under a fence, when there are none.
LEMMA ResultsStep ==
    ASSUME TypeOK, Ownership, Results, [Next]_vars
    PROVE  Results'
<1> USE AnalysisAssumption DEF vars, row, children, worker
<1>1. ASSUME NEW j \in Jobs, CreateAnalysis(j) PROVE Results'
    BY <1>1, SMTT(30) DEF CreateAnalysis, Ownership, Linked, LockMatchesEngine,
           FenceHoldsUnderLock, Fence, OwnsRow, Results, ResultIsOwners,
           OutcomeClosesJob, OutcomeReportedOnce, TypeOK, PC, Engaged,
           Locking, NULL, ActiveStatuses, SafeStatuses, SideEffectStatuses,
           TerminalStates
<1>2. ASSUME NEW j \in Jobs, LeaseExpires(j) PROVE Results'
    BY <1>2, SMTT(30) DEF LeaseExpires, Ownership, Linked, LockMatchesEngine,
           FenceHoldsUnderLock, Fence, OwnsRow, Results, ResultIsOwners,
           OutcomeClosesJob, OutcomeReportedOnce, TypeOK, PC, Engaged,
           Locking, NULL, ActiveStatuses, SafeStatuses, SideEffectStatuses,
           TerminalStates
<1>3. ASSUME NEW c \in Clients, NEW j \in Jobs, CancelRead(c, j) PROVE Results'
    BY <1>3 DEF CancelRead, Ownership, Linked, LockMatchesEngine,
           FenceHoldsUnderLock, Fence, OwnsRow, Results, ResultIsOwners,
           OutcomeClosesJob, OutcomeReportedOnce, TypeOK, PC, Engaged,
           Locking, NULL, ActiveStatuses, SafeStatuses, SideEffectStatuses,
           TerminalStates
<1>4. ASSUME NEW c \in Clients, CancelWrite(c) PROVE Results'
    BY <1>4 DEF CancelWrite, Unlocked, Ownership, Linked, LockMatchesEngine,
           FenceHoldsUnderLock, Fence, OwnsRow, Results, ResultIsOwners,
           OutcomeClosesJob, OutcomeReportedOnce, TypeOK, PC, Engaged,
           Locking, NULL, ActiveStatuses, SafeStatuses, SideEffectStatuses,
           TerminalStates
<1>5. ASSUME NEW w \in Workers, NEW j \in Jobs, Claim(w, j) PROVE Results'
    BY <1>5, SMTT(30) DEF Claim, TakeOver, Claimable, Unlocked, Ownership, Linked,
           LockMatchesEngine, FenceHoldsUnderLock, Fence, OwnsRow, Results,
           ResultIsOwners, OutcomeClosesJob, OutcomeReportedOnce, TypeOK,
           PC, Engaged, Locking, NULL, ActiveStatuses, SafeStatuses,
           SideEffectStatuses, TerminalStates
<1>6. ASSUME NEW w \in Workers, NEW j \in Jobs, Recover(w, j) PROVE Results'
    BY <1>6, SMTT(30) DEF Recover, TakeOver, Recoverable, Unlocked, Ownership, Linked,
           LockMatchesEngine, FenceHoldsUnderLock, Fence, OwnsRow, Results,
           ResultIsOwners, OutcomeClosesJob, OutcomeReportedOnce, TypeOK,
           PC, Engaged, Locking, NULL, ActiveStatuses, SafeStatuses,
           SideEffectStatuses, TerminalStates
<1>7. ASSUME NEW w \in Workers, PollEmpty(w) PROVE Results'
    BY <1>7 DEF PollEmpty, GoTo, Ownership, Linked, LockMatchesEngine,
           FenceHoldsUnderLock, Fence, OwnsRow, Results, ResultIsOwners,
           OutcomeClosesJob, OutcomeReportedOnce, TypeOK, PC, Engaged,
           Locking, NULL, ActiveStatuses, SafeStatuses, SideEffectStatuses,
           TerminalStates
<1>8. ASSUME NEW w \in Workers, PollMiss(w) PROVE Results'
    BY <1>8 DEF PollMiss, GoTo, Ownership, Linked, LockMatchesEngine,
           FenceHoldsUnderLock, Fence, OwnsRow, Results, ResultIsOwners,
           OutcomeClosesJob, OutcomeReportedOnce, TypeOK, PC, Engaged,
           Locking, NULL, ActiveStatuses, SafeStatuses, SideEffectStatuses,
           TerminalStates
<1>9. ASSUME NEW w \in Workers, StartEngine(w) PROVE Results'
    BY <1>9 DEF StartEngine, Unlocked, Fence, OwnsRow, Ownership, Linked,
           LockMatchesEngine, FenceHoldsUnderLock, Results, ResultIsOwners,
           OutcomeClosesJob, OutcomeReportedOnce, TypeOK, PC, Engaged,
           Locking, NULL, ActiveStatuses, SafeStatuses, SideEffectStatuses,
           TerminalStates
<1>10. ASSUME NEW w \in Workers, Advance(w) PROVE Results'
    BY <1>10 DEF Advance, Ownership, Linked, LockMatchesEngine,
           FenceHoldsUnderLock, Fence, OwnsRow, Results, ResultIsOwners,
           OutcomeClosesJob, OutcomeReportedOnce, TypeOK, PC, Engaged,
           Locking, NULL, ActiveStatuses, SafeStatuses, SideEffectStatuses,
           TerminalStates
<1>11. ASSUME NEW w \in Workers, DenyByPolicy(w) PROVE Results'
  <2> DEFINE j == held[w]
  <2>1. j \in Jobs /\ Fence(w)
    BY <1>11 DEF DenyByPolicy, Ownership, Linked, LockMatchesEngine, FenceHoldsUnderLock, PC,
       Engaged, Locking
  <2>2. outcomes[j] = <<>> /\ snapshots[j] = {}
    BY <2>1 DEF Results, ResultIsOwners, OutcomeClosesJob, Fence, ActiveStatuses,
       SafeStatuses, SideEffectStatuses, TerminalStates
  <2>3. /\ status' = [status EXCEPT ![j] = "REJECTED_BY_POLICY"]
        /\ outcomes' = [outcomes EXCEPT ![j] = <<"failed">>]
        /\ UNCHANGED <<claim_token, snapshots>>
    BY <1>11, <2>1, <2>2 DEF DenyByPolicy, TypeOK, Fence, OwnsRow
  <2>4. <<>> # <<"completed">> /\ <<>> # <<"failed">>
    OBVIOUS
  <2> HIDE DEF j
  <2>5. ResultIsOwners'
    BY <2>1, <2>2, <2>3 DEF Results, ResultIsOwners, TypeOK
  <2>6. OutcomeClosesJob'
    BY <2>1, <2>3 DEF Results, OutcomeClosesJob, TypeOK, TerminalStates
  <2>7. OutcomeReportedOnce'
    BY <2>1, <2>3, <2>4 DEF Results, OutcomeReportedOnce, TypeOK
  <2> QED
    BY <2>5, <2>6, <2>7 DEF Results
<1>12. ASSUME NEW w \in Workers, RequireClarification(w) PROVE Results'
  <2> DEFINE j == held[w]
  <2>1. j \in Jobs /\ Fence(w)
    BY <1>12 DEF RequireClarification, Ownership, Linked, LockMatchesEngine, FenceHoldsUnderLock, PC,
       Engaged, Locking
  <2>2. outcomes[j] = <<>> /\ snapshots[j] = {}
    BY <2>1 DEF Results, ResultIsOwners, OutcomeClosesJob, Fence, ActiveStatuses,
       SafeStatuses, SideEffectStatuses, TerminalStates
  <2>3. /\ status' = [status EXCEPT ![j] = "NEEDS_CLARIFICATION"]
        /\ UNCHANGED <<outcomes, claim_token, snapshots>>
    BY <1>12, <2>1, <2>2 DEF RequireClarification, TypeOK, Fence, OwnsRow
  <2>4. <<>> # <<"completed">> /\ <<>> # <<"failed">>
    OBVIOUS
  <2> HIDE DEF j
  <2>5. ResultIsOwners'
    BY <2>1, <2>2, <2>3 DEF Results, ResultIsOwners, TypeOK
  <2>6. OutcomeClosesJob'
    BY <2>1, <2>2, <2>3 DEF Results, OutcomeClosesJob, TypeOK, TerminalStates
  <2>7. OutcomeReportedOnce'
    BY <2>1, <2>2, <2>3, <2>4 DEF Results, OutcomeReportedOnce, TypeOK
  <2> QED
    BY <2>5, <2>6, <2>7 DEF Results
<1>13. ASSUME NEW w \in Workers, ParkAttempt(w) PROVE Results'
    BY <1>13 DEF ParkAttempt, GoIdle, GoTo, Unlocked, Ownership, Linked,
           LockMatchesEngine, FenceHoldsUnderLock, Fence, OwnsRow, Results,
           ResultIsOwners, OutcomeClosesJob, OutcomeReportedOnce, TypeOK,
           PC, Engaged, Locking, NULL, ActiveStatuses, SafeStatuses,
           SideEffectStatuses, TerminalStates
<1>14. ASSUME NEW w \in Workers, RunTool(w) PROVE Results'
  <2> DEFINE j == held[w]
  <2>1. j \in Jobs /\ Fence(w)
    BY <1>14 DEF RunTool, Ownership, Linked, LockMatchesEngine, FenceHoldsUnderLock, PC,
       Engaged, Locking
  <2>2. outcomes[j] = <<>> /\ snapshots[j] = {}
    BY <2>1 DEF Results, ResultIsOwners, OutcomeClosesJob, Fence, ActiveStatuses,
       SafeStatuses, SideEffectStatuses, TerminalStates
  <2>3. /\ status' = [status EXCEPT ![j] = "EXECUTING_TOOLS"]
        /\ UNCHANGED <<outcomes, claim_token, snapshots>>
    BY <1>14, <2>1, <2>2 DEF RunTool, TypeOK, Fence, OwnsRow
  <2>4. <<>> # <<"completed">> /\ <<>> # <<"failed">>
    OBVIOUS
  <2> HIDE DEF j
  <2>5. ResultIsOwners'
    BY <2>1, <2>2, <2>3 DEF Results, ResultIsOwners, TypeOK
  <2>6. OutcomeClosesJob'
    BY <2>1, <2>2, <2>3 DEF Results, OutcomeClosesJob, TypeOK, TerminalStates
  <2>7. OutcomeReportedOnce'
    BY <2>1, <2>2, <2>3, <2>4 DEF Results, OutcomeReportedOnce, TypeOK
  <2> QED
    BY <2>5, <2>6, <2>7 DEF Results
<1>15. ASSUME NEW w \in Workers, Reassert(w) PROVE Results'
    BY <1>15 DEF Reassert, Unlocked, GoTo, Ownership, Linked,
           LockMatchesEngine, FenceHoldsUnderLock, Fence, OwnsRow, Results,
           ResultIsOwners, OutcomeClosesJob, OutcomeReportedOnce, TypeOK,
           PC, Engaged, Locking, NULL, ActiveStatuses, SafeStatuses,
           SideEffectStatuses, TerminalStates
<1>16. ASSUME NEW w \in Workers, Complete(w) PROVE Results'
  <2> DEFINE j == held[w]
  <2>1. j \in Jobs /\ Fence(w)
    BY <1>16 DEF Complete, Ownership, Linked, LockMatchesEngine, FenceHoldsUnderLock, PC,
       Engaged, Locking
  <2>2. outcomes[j] = <<>> /\ snapshots[j] = {}
    BY <2>1 DEF Results, ResultIsOwners, OutcomeClosesJob, Fence, ActiveStatuses,
       SafeStatuses, SideEffectStatuses, TerminalStates
  <2>3. /\ status' = [status EXCEPT ![j] = "COMPLETED"]
        /\ outcomes' = [outcomes EXCEPT ![j] = <<"completed">>]
        /\ snapshots' = [snapshots EXCEPT ![j] = {claim_token[j]}]
        /\ UNCHANGED claim_token
    BY <1>16, <2>1, <2>2 DEF Complete, TypeOK, Fence, OwnsRow
  <2>4. <<>> # <<"completed">> /\ <<>> # <<"failed">>
    OBVIOUS
  <2> HIDE DEF j
  <2>5. ResultIsOwners'
    BY <2>1, <2>2, <2>3 DEF Results, ResultIsOwners, TypeOK
  <2>6. OutcomeClosesJob'
    BY <2>1, <2>3 DEF Results, OutcomeClosesJob, TypeOK, TerminalStates
  <2>7. OutcomeReportedOnce'
    BY <2>1, <2>3, <2>4 DEF Results, OutcomeReportedOnce, TypeOK
  <2> QED
    BY <2>5, <2>6, <2>7 DEF Results
<1>17. ASSUME NEW w \in Workers, PersistFailure(w) PROVE Results'
  <2> DEFINE j == held[w]
  <2>1. j \in Jobs /\ Fence(w)
    BY <1>17 DEF PersistFailure, Ownership, Linked, LockMatchesEngine, FenceHoldsUnderLock, PC,
       Engaged, Locking
  <2>2. outcomes[j] = <<>> /\ snapshots[j] = {}
    BY <2>1 DEF Results, ResultIsOwners, OutcomeClosesJob, Fence, ActiveStatuses,
       SafeStatuses, SideEffectStatuses, TerminalStates
  <2>3. /\ status' = [status EXCEPT ![j] = "FAILED"]
        /\ outcomes' = [outcomes EXCEPT ![j] = <<"failed">>]
        /\ UNCHANGED <<claim_token, snapshots>>
    BY <1>17, <2>1, <2>2 DEF PersistFailure, TypeOK, Fence, OwnsRow
  <2>4. <<>> # <<"completed">> /\ <<>> # <<"failed">>
    OBVIOUS
  <2> HIDE DEF j
  <2>5. ResultIsOwners'
    BY <2>1, <2>2, <2>3 DEF Results, ResultIsOwners, TypeOK
  <2>6. OutcomeClosesJob'
    BY <2>1, <2>3 DEF Results, OutcomeClosesJob, TypeOK, TerminalStates
  <2>7. OutcomeReportedOnce'
    BY <2>1, <2>3, <2>4 DEF Results, OutcomeReportedOnce, TypeOK
  <2> QED
    BY <2>5, <2>6, <2>7 DEF Results
<1>18. ASSUME NEW w \in Workers, LoseOwnership(w) PROVE Results'
    BY <1>18 DEF LoseOwnership, GoIdle, Unlocked, Ownership, Linked,
           LockMatchesEngine, FenceHoldsUnderLock, Fence, OwnsRow, Results,
           ResultIsOwners, OutcomeClosesJob, OutcomeReportedOnce, TypeOK,
           PC, Engaged, Locking, NULL, ActiveStatuses, SafeStatuses,
           SideEffectStatuses, TerminalStates
<1>19. ASSUME NEW w \in Workers, Fail(w) PROVE Results'
    BY <1>19 DEF Fail, Release, GoTo, Ownership, Linked, LockMatchesEngine,
           FenceHoldsUnderLock, Fence, OwnsRow, Results, ResultIsOwners,
           OutcomeClosesJob, OutcomeReportedOnce, TypeOK, PC, Engaged,
           Locking, NULL, ActiveStatuses, SafeStatuses, SideEffectStatuses,
           TerminalStates
<1>20. ASSUME NEW w \in Workers, Crash(w) PROVE Results'
    BY <1>20 DEF Crash, Release, GoIdle, Ownership, Linked,
           LockMatchesEngine, FenceHoldsUnderLock, Fence, OwnsRow, Results,
           ResultIsOwners, OutcomeClosesJob, OutcomeReportedOnce, TypeOK,
           PC, Engaged, Locking, NULL, ActiveStatuses, SafeStatuses,
           SideEffectStatuses, TerminalStates
<1>21. ASSUME NEW w \in Workers, HeartbeatRenews(w) PROVE Results'
    BY <1>21, SMTT(30) DEF HeartbeatRenews, Unlocked, Fence, OwnsRow, Ownership,
           Linked, LockMatchesEngine, FenceHoldsUnderLock, Results,
           ResultIsOwners, OutcomeClosesJob, OutcomeReportedOnce, TypeOK,
           PC, Engaged, Locking, NULL, ActiveStatuses, SafeStatuses,
           SideEffectStatuses, TerminalStates
<1>22. ASSUME NEW w \in Workers, HeartbeatFails(w) PROVE Results'
    BY <1>22 DEF HeartbeatFails, Ownership, Linked, LockMatchesEngine,
           FenceHoldsUnderLock, Fence, OwnsRow, Results, ResultIsOwners,
           OutcomeClosesJob, OutcomeReportedOnce, TypeOK, PC, Engaged,
           Locking, NULL, ActiveStatuses, SafeStatuses, SideEffectStatuses,
           TerminalStates
<1>23. ASSUME NEW w \in Workers, HeartbeatCancels(w) PROVE Results'
    BY <1>23 DEF HeartbeatCancels, Release, GoIdle, Ownership, Linked,
           LockMatchesEngine, FenceHoldsUnderLock, Fence, OwnsRow, Results,
           ResultIsOwners, OutcomeClosesJob, OutcomeReportedOnce, TypeOK,
           PC, Engaged, Locking, NULL, ActiveStatuses, SafeStatuses,
           SideEffectStatuses, TerminalStates
<1>24. ASSUME NEW j \in Jobs, NEW n \in DOMAIN clars[j], Respond(j, n) PROVE Results'
    BY <1>24, SMTT(30) DEF Respond, Unlocked, Awaiting, Ownership, Linked,
           LockMatchesEngine, FenceHoldsUnderLock, Fence, OwnsRow, Results,
           ResultIsOwners, OutcomeClosesJob, OutcomeReportedOnce, TypeOK,
           PC, Engaged, Locking, NULL, ActiveStatuses, SafeStatuses,
           SideEffectStatuses, TerminalStates
<1>25. ASSUME NEW j \in Jobs, NEW n \in DOMAIN clars[j], RespondTooLate(j, n) PROVE Results'
    BY <1>25, SMTT(30) DEF RespondTooLate, Unlocked, Awaiting, Ownership, Linked,
           LockMatchesEngine, FenceHoldsUnderLock, Fence, OwnsRow, Results,
           ResultIsOwners, OutcomeClosesJob, OutcomeReportedOnce, TypeOK,
           PC, Engaged, Locking, NULL, ActiveStatuses, SafeStatuses,
           SideEffectStatuses, TerminalStates
<1>26. ASSUME NEW j \in Jobs, NEW n \in DOMAIN clars[j], CancelClarification(j, n) PROVE Results'
    BY <1>26, SMTT(30) DEF CancelClarification, Unlocked, Awaiting, Ownership, Linked,
           LockMatchesEngine, FenceHoldsUnderLock, Fence, OwnsRow, Results,
           ResultIsOwners, OutcomeClosesJob, OutcomeReportedOnce, TypeOK,
           PC, Engaged, Locking, NULL, ActiveStatuses, SafeStatuses,
           SideEffectStatuses, TerminalStates
<1>27. ASSUME NEW j \in Jobs, NEW n \in DOMAIN clars[j], ClarificationDue(j, n) PROVE Results'
    BY <1>27 DEF ClarificationDue, Ownership, Linked, LockMatchesEngine,
           FenceHoldsUnderLock, Fence, OwnsRow, Results, ResultIsOwners,
           OutcomeClosesJob, OutcomeReportedOnce, TypeOK, PC, Engaged,
           Locking, NULL, ActiveStatuses, SafeStatuses, SideEffectStatuses,
           TerminalStates
<1>28. ASSUME ExpireDueClarifications PROVE Results'
    BY <1>28 DEF ExpireDueClarifications, Unlocked, Awaiting, DueOn,
           Ownership, Linked, LockMatchesEngine, FenceHoldsUnderLock, Fence,
           OwnsRow, Results, ResultIsOwners, OutcomeClosesJob,
           OutcomeReportedOnce, TypeOK, PC, Engaged, Locking, NULL,
           ActiveStatuses, SafeStatuses, SideEffectStatuses, TerminalStates
<1>29. ASSUME UNCHANGED vars PROVE Results'
    BY <1>29 DEF Ownership, Linked, LockMatchesEngine, FenceHoldsUnderLock,
           Fence, OwnsRow, Results, ResultIsOwners, OutcomeClosesJob,
           OutcomeReportedOnce, TypeOK, Engaged, Locking, NULL,
           ActiveStatuses, SafeStatuses, SideEffectStatuses, TerminalStates
<1> QED
    BY <1>1, <1>2, <1>3, <1>4, <1>5, <1>6, <1>7, <1>8, <1>9, <1>10, <1>11,
           <1>12, <1>13, <1>14, <1>15, <1>16, <1>17, <1>18, <1>19, <1>20,
           <1>21, <1>22, <1>23, <1>24, <1>25, <1>26, <1>27, <1>28, <1>29
       DEF Next, Poll, EngineStep, ClarificationStep

------------------------------------------------------------------------------
(* What no step does *)

\* Who writes a job's status holds its row lock under a fence or has just
\* seen a status that is not terminal.
LEMMA TerminalSteps ==
    ASSUME TypeOK, Ownership, [Next]_vars
    PROVE  TerminalStep
<1> USE AnalysisAssumption DEF vars, row, children, worker
<1>1. ASSUME NEW j \in Jobs, CreateAnalysis(j)
       PROVE  TerminalStep
    BY <1>1 DEF CreateAnalysis, TerminalStep, TerminalStates, TypeOK
<1>2. ASSUME NEW j \in Jobs, LeaseExpires(j)
       PROVE  TerminalStep
    BY <1>2 DEF LeaseExpires, TerminalStep
<1>3. ASSUME NEW c \in Clients, NEW j \in Jobs, CancelRead(c, j)
       PROVE  TerminalStep
    BY <1>3 DEF CancelRead, TerminalStep
<1>4. ASSUME NEW c \in Clients, CancelWrite(c)
       PROVE  TerminalStep
    BY <1>4 DEF CancelWrite, TerminalStep, TypeOK
<1>5. ASSUME NEW w \in Workers, NEW j \in Jobs,
               \/ Claim(w, j) \/ Recover(w, j)
       PROVE  TerminalStep
    BY <1>5 DEF Claim, TakeOver, Claimable, Recover, Recoverable,
           TerminalStep, TerminalStates, SafeStatuses, TypeOK
<1>6. ASSUME NEW w \in Workers,
               \/ PollEmpty(w) \/ PollMiss(w) \/ StartEngine(w)
               \/ Advance(w) \/ ParkAttempt(w) \/ Reassert(w)
               \/ LoseOwnership(w) \/ Fail(w) \/ Crash(w)
               \/ HeartbeatRenews(w) \/ HeartbeatFails(w)
               \/ HeartbeatCancels(w)
       PROVE  TerminalStep
    BY <1>6 DEF PollEmpty, GoTo, PollMiss, StartEngine, Advance,
           ParkAttempt, GoIdle, Reassert, LoseOwnership, Fail, Release,
           Crash, HeartbeatRenews, HeartbeatFails, HeartbeatCancels,
           TerminalStep
<1>7. ASSUME NEW w \in Workers, DenyByPolicy(w)
       PROVE  TerminalStep
  <2>1. held[w] \in Jobs /\ Fence(w)
    BY <1>7 DEF DenyByPolicy, Ownership, Linked, LockMatchesEngine,
       FenceHoldsUnderLock, PC, Engaged, Locking
  <2>2. status[held[w]] \notin TerminalStates
    BY <2>1 DEF Fence, ActiveStatuses, SafeStatuses, SideEffectStatuses,
       TerminalStates
  <2>3. \A j \in Jobs : j # held[w] => status'[j] = status[j]
    BY <1>7, <2>1 DEF DenyByPolicy, TypeOK
  <2> QED
    BY <2>2, <2>3 DEF TerminalStep
<1>8. ASSUME NEW w \in Workers, RequireClarification(w)
       PROVE  TerminalStep
  <2>1. held[w] \in Jobs /\ Fence(w)
    BY <1>8 DEF RequireClarification, Ownership, Linked, LockMatchesEngine,
       FenceHoldsUnderLock, PC, Engaged, Locking
  <2>2. status[held[w]] \notin TerminalStates
    BY <2>1 DEF Fence, ActiveStatuses, SafeStatuses, SideEffectStatuses,
       TerminalStates
  <2>3. \A j \in Jobs : j # held[w] => status'[j] = status[j]
    BY <1>8, <2>1 DEF RequireClarification, TypeOK
  <2> QED
    BY <2>2, <2>3 DEF TerminalStep
<1>9. ASSUME NEW w \in Workers, RunTool(w)
       PROVE  TerminalStep
  <2>1. held[w] \in Jobs /\ Fence(w)
    BY <1>9 DEF RunTool, Ownership, Linked, LockMatchesEngine,
       FenceHoldsUnderLock, PC, Engaged, Locking
  <2>2. status[held[w]] \notin TerminalStates
    BY <2>1 DEF Fence, ActiveStatuses, SafeStatuses, SideEffectStatuses,
       TerminalStates
  <2>3. \A j \in Jobs : j # held[w] => status'[j] = status[j]
    BY <1>9, <2>1 DEF RunTool, TypeOK
  <2> QED
    BY <2>2, <2>3 DEF TerminalStep
<1>10. ASSUME NEW w \in Workers, Complete(w)
       PROVE  TerminalStep
  <2>1. held[w] \in Jobs /\ Fence(w)
    BY <1>10 DEF Complete, Ownership, Linked, LockMatchesEngine,
       FenceHoldsUnderLock, PC, Engaged, Locking
  <2>2. status[held[w]] \notin TerminalStates
    BY <2>1 DEF Fence, ActiveStatuses, SafeStatuses, SideEffectStatuses,
       TerminalStates
  <2>3. \A j \in Jobs : j # held[w] => status'[j] = status[j]
    BY <1>10, <2>1 DEF Complete, TypeOK
  <2> QED
    BY <2>2, <2>3 DEF TerminalStep
<1>11. ASSUME NEW w \in Workers, PersistFailure(w)
       PROVE  TerminalStep
  <2>1. held[w] \in Jobs /\ Fence(w)
    BY <1>11 DEF PersistFailure, Ownership, Linked, LockMatchesEngine,
       FenceHoldsUnderLock, PC, Engaged, Locking
  <2>2. status[held[w]] \notin TerminalStates
    BY <2>1 DEF Fence, ActiveStatuses, SafeStatuses, SideEffectStatuses,
       TerminalStates
  <2>3. \A j \in Jobs : j # held[w] => status'[j] = status[j]
    BY <1>11, <2>1 DEF PersistFailure, TypeOK
  <2> QED
    BY <2>2, <2>3 DEF TerminalStep
<1>12. ASSUME NEW j \in Jobs, NEW n \in DOMAIN clars[j],
               \/ Respond(j, n) \/ RespondTooLate(j, n)
               \/ CancelClarification(j, n) \/ ClarificationDue(j, n)
       PROVE  TerminalStep
    BY <1>12 DEF Respond, RespondTooLate, CancelClarification,
           ClarificationDue, TerminalStep, TerminalStates, TypeOK
<1>13. ASSUME ExpireDueClarifications
       PROVE  TerminalStep
    BY <1>13 DEF ExpireDueClarifications, TerminalStep, TypeOK
<1>14. ASSUME UNCHANGED vars
       PROVE  TerminalStep
    BY <1>14 DEF TerminalStep
<1> QED
    BY <1>1, <1>2, <1>3, <1>4, <1>5, <1>6, <1>7, <1>8, <1>9, <1>10, <1>11,
           <1>12, <1>13, <1>14
       DEF Next, Poll, EngineStep, ClarificationStep

\* A worker without the current token cannot be inside a transaction, and at
\* every other point of execute_job the fence stops it.
LEMMA FencedSteps ==
    ASSUME TypeOK, Ownership, [Next]_vars
    PROVE  FencedStep
<1> USE AnalysisAssumption DEF vars, row, children, worker
<1>1. ASSUME NEW j \in Jobs,
               \/ CreateAnalysis(j) \/ LeaseExpires(j)
       PROVE  FencedStep
    BY <1>1 DEF CreateAnalysis, LeaseExpires, FencedStep
<1>2. ASSUME NEW c \in Clients, NEW j \in Jobs, CancelRead(c, j)
       PROVE  FencedStep
    BY <1>2 DEF CancelRead, FencedStep
<1>3. ASSUME NEW c \in Clients, CancelWrite(c)
       PROVE  FencedStep
    BY <1>3 DEF CancelWrite, FencedStep
<1>4. ASSUME NEW w \in Workers, NEW j \in Jobs,
               \/ Claim(w, j) \/ Recover(w, j)
       PROVE  FencedStep
  <2>1. pc[w] \notin Engaged
    BY <1>4 DEF Claim, Recover, Engaged, PC
  <2>2. held[w] # j /\ \A i \in Jobs : held[w] # i
    BY <2>1 DEF Ownership, Linked
  <2>3. \A v \in Workers : v # w => UNCHANGED <<pc[v], mem[v]>>
    BY <1>4 DEF Claim, Recover, TakeOver, TypeOK
  <2> QED
    BY <2>2, <2>3 DEF FencedStep
<1>5. ASSUME NEW w \in Workers,
               \/ PollEmpty(w) \/ PollMiss(w) \/ StartEngine(w)
               \/ Reassert(w) \/ LoseOwnership(w) \/ Fail(w) \/ Crash(w)
               \/ HeartbeatRenews(w) \/ HeartbeatFails(w)
               \/ HeartbeatCancels(w) \/ Advance(w)
       PROVE  FencedStep
    BY <1>5, SMTT(30) DEF PollEmpty, GoTo, PollMiss, StartEngine, Reassert,
           LoseOwnership, GoIdle, Fail, Release, Crash, HeartbeatRenews,
           HeartbeatFails, HeartbeatCancels, Advance, FencedStep, TypeOK
<1>6. ASSUME NEW w \in Workers, ParkAttempt(w)
       PROVE  FencedStep
    BY <1>6 DEF ParkAttempt, GoTo, FencedStep, TypeOK
<1>7. ASSUME NEW w \in Workers, DenyByPolicy(w)
       PROVE  FencedStep
  <2>1. Fence(w)
    BY <1>7 DEF DenyByPolicy, Ownership, Linked, LockMatchesEngine,
       FenceHoldsUnderLock, PC, Engaged, Locking
  <2>2. \A v \in Workers : v # w => UNCHANGED <<pc[v], mem[v]>>
    BY <1>7 DEF DenyByPolicy, GoIdle, TypeOK
  <2> QED
    BY <2>1, <2>2 DEF FencedStep, Fence, OwnsRow
<1>8. ASSUME NEW w \in Workers, RequireClarification(w)
       PROVE  FencedStep
  <2>1. Fence(w)
    BY <1>8 DEF RequireClarification, Ownership, Linked, LockMatchesEngine,
       FenceHoldsUnderLock, PC, Engaged, Locking
  <2>2. \A v \in Workers : v # w => UNCHANGED <<pc[v], mem[v]>>
    BY <1>8 DEF RequireClarification, GoTo, TypeOK
  <2> QED
    BY <2>1, <2>2 DEF FencedStep, Fence, OwnsRow
<1>9. ASSUME NEW w \in Workers, RunTool(w)
       PROVE  FencedStep
  <2>1. Fence(w)
    BY <1>9 DEF RunTool, Ownership, Linked, LockMatchesEngine,
       FenceHoldsUnderLock, PC, Engaged, Locking
  <2>2. \A v \in Workers : v # w => UNCHANGED <<pc[v], mem[v]>>
    BY <1>9 DEF RunTool, GoTo, TypeOK
  <2> QED
    BY <2>1, <2>2 DEF FencedStep, Fence, OwnsRow
<1>10. ASSUME NEW w \in Workers, Complete(w)
       PROVE  FencedStep
  <2>1. Fence(w)
    BY <1>10 DEF Complete, Ownership, Linked, LockMatchesEngine,
       FenceHoldsUnderLock, PC, Engaged, Locking
  <2>2. \A v \in Workers : v # w => UNCHANGED <<pc[v], mem[v]>>
    BY <1>10 DEF Complete, GoIdle, TypeOK
  <2> QED
    BY <2>1, <2>2 DEF FencedStep, Fence, OwnsRow
<1>11. ASSUME NEW w \in Workers, PersistFailure(w)
       PROVE  FencedStep
  <2>1. Fence(w)
    BY <1>11 DEF PersistFailure, Ownership, Linked, LockMatchesEngine,
       FenceHoldsUnderLock, PC, Engaged, Locking
  <2>2. \A v \in Workers : v # w => UNCHANGED <<pc[v], mem[v]>>
    BY <1>11 DEF PersistFailure, GoIdle, TypeOK
  <2> QED
    BY <2>1, <2>2 DEF FencedStep, Fence, OwnsRow
<1>12. ASSUME NEW j \in Jobs, NEW n \in DOMAIN clars[j],
               \/ Respond(j, n) \/ RespondTooLate(j, n)
               \/ CancelClarification(j, n) \/ ClarificationDue(j, n)
       PROVE  FencedStep
    BY <1>12 DEF Respond, RespondTooLate, CancelClarification,
           ClarificationDue, FencedStep
<1>13. ASSUME ExpireDueClarifications
       PROVE  FencedStep
    BY <1>13 DEF ExpireDueClarifications, FencedStep
<1>14. ASSUME UNCHANGED vars
       PROVE  FencedStep
    BY <1>14 DEF FencedStep
<1> QED
    BY <1>1, <1>2, <1>3, <1>4, <1>5, <1>6, <1>7, <1>8, <1>9, <1>10, <1>11,
           <1>12, <1>13, <1>14
       DEF Next, Poll, EngineStep, ClarificationStep

\* Only Claim and Recover change a token, and both require a status in which
\* nothing has happened yet.
LEMMA HandoverSteps ==
    ASSUME IInv, [Next]_vars
    PROVE  HandoverStep
<1> USE AnalysisAssumption DEF vars, row, children, worker
<1>1. ASSUME NEW j \in Jobs,
               \/ CreateAnalysis(j) \/ LeaseExpires(j)
       PROVE  HandoverStep
    BY <1>1 DEF CreateAnalysis, LeaseExpires, HandoverStep
<1>2. ASSUME NEW c \in Clients, NEW j \in Jobs, CancelRead(c, j)
       PROVE  HandoverStep
    BY <1>2 DEF CancelRead, HandoverStep
<1>3. ASSUME NEW c \in Clients, CancelWrite(c)
       PROVE  HandoverStep
    BY <1>3 DEF CancelWrite, HandoverStep
<1>4. ASSUME NEW w \in Workers, NEW j \in Jobs, Claim(w, j)
       PROVE  HandoverStep
  <2>1. status[j] \in SafeStatuses /\ claim_token[j] \in {0, 1}
    BY <1>4 DEF IInv, Effects, ClaimedThenRecovered, Claim, Claimable, SafeStatuses, NULL
  <2>2. claim_token[j] = 1 => lease[j] = "STALE"
    BY <1>4 DEF Claim, Claimable, NULL
  <2>3. datasets[j] = 0
    BY <2>1 DEF IInv, Effects, EffectClosesJob, TypeOK
  <2>4. outcomes[j] = <<>> /\ snapshots[j] = {}
    BY <2>1 DEF IInv, Results, OutcomeClosesJob, ResultIsOwners, SafeStatuses,
       TerminalStates
  <2>5. \A i \in Jobs : i # j => claim_token'[i] = claim_token[i]
    BY <1>4 DEF Claim, TakeOver, IInv, TypeOK
  <2> QED
    BY <2>1, <2>2, <2>3, <2>4, <2>5 DEF HandoverStep
<1>5. ASSUME NEW w \in Workers, NEW j \in Jobs, Recover(w, j)
       PROVE  HandoverStep
  <2>1. status[j] \in SafeStatuses /\ claim_token[j] \in {0, 1}
    BY <1>5 DEF IInv, Effects, ClaimedThenRecovered, Recover, Recoverable, SafeStatuses, NULL
  <2>2. claim_token[j] = 1 => lease[j] = "STALE"
    BY <1>5 DEF Recover, Recoverable, NULL
  <2>3. datasets[j] = 0
    BY <2>1 DEF IInv, Effects, EffectClosesJob, TypeOK
  <2>4. outcomes[j] = <<>> /\ snapshots[j] = {}
    BY <2>1 DEF IInv, Results, OutcomeClosesJob, ResultIsOwners, SafeStatuses,
       TerminalStates
  <2>5. \A i \in Jobs : i # j => claim_token'[i] = claim_token[i]
    BY <1>5, SMTT(30) DEF Recover, TakeOver, IInv, TypeOK
  <2> QED
    BY <2>1, <2>2, <2>3, <2>4, <2>5 DEF HandoverStep
<1>6. ASSUME NEW w \in Workers,
               \/ PollEmpty(w) \/ PollMiss(w) \/ StartEngine(w)
               \/ Advance(w) \/ ParkAttempt(w) \/ Reassert(w)
               \/ LoseOwnership(w) \/ Fail(w) \/ Crash(w)
               \/ HeartbeatRenews(w) \/ HeartbeatFails(w)
               \/ HeartbeatCancels(w) \/ DenyByPolicy(w)
               \/ RequireClarification(w) \/ RunTool(w) \/ Complete(w)
               \/ PersistFailure(w)
       PROVE  HandoverStep
    BY <1>6 DEF PollEmpty, PollMiss, StartEngine, Advance, ParkAttempt,
           Reassert, LoseOwnership, Fail, Crash, HeartbeatRenews,
           HeartbeatFails, HeartbeatCancels, DenyByPolicy,
           RequireClarification, RunTool, Complete, PersistFailure,
           HandoverStep
<1>7. ASSUME NEW j \in Jobs, NEW n \in DOMAIN clars[j],
               \/ Respond(j, n) \/ RespondTooLate(j, n)
               \/ CancelClarification(j, n) \/ ClarificationDue(j, n)
       PROVE  HandoverStep
    BY <1>7 DEF Respond, RespondTooLate, CancelClarification,
           ClarificationDue, HandoverStep
<1>8. ASSUME ExpireDueClarifications
       PROVE  HandoverStep
    BY <1>8 DEF ExpireDueClarifications, HandoverStep
<1>9. ASSUME UNCHANGED vars
       PROVE  HandoverStep
    BY <1>9 DEF HandoverStep
<1> QED
    BY <1>1, <1>2, <1>3, <1>4, <1>5, <1>6, <1>7, <1>8, <1>9
       DEF Next, Poll, EngineStep, ClarificationStep

------------------------------------------------------------------------------
(* Clarifications and the jobs that wait for them *)

Awaited(j) == {n \in DOMAIN clars[j] : Awaiting(clars[j][n])}

\* Only a job that waits, for exactly one answer to its newest attempt, or one
\* that is over has open clarifications.
WaitsForOne(j) ==
    /\ Awaited(j) # {} => status[j] \in TerminalStates \cup {"NEEDS_CLARIFICATION"}
    /\ status[j] = "NEEDS_CLARIFICATION" =>
        \E n \in DOMAIN clars[j] :
            Awaited(j) = {n} /\ clars[j][n].attempt = Len(attempts[j])

\* An engine that has not written its attempt yet will number it right: nobody
\* adds one while it holds the row.
NumbersNext ==
    \A w \in Workers : pc[w] = "running" => att[w] = Len(attempts[held[w]]) + 1

Clarified == NumbersNext /\ \A j \in Jobs : WaitsForOne(j)

\* The status of a job changes while nobody waits for it, or for good.
LEMMA StatusMoves ==
    ASSUME TypeOK, Clarified, NEW j \in Jobs, NEW x,
           status' = [status EXCEPT ![j] = x],
           x \in TerminalStates \/ (Awaited(j) = {} /\ x # "NEEDS_CLARIFICATION"),
           x # "NEEDS_CLARIFICATION",
           clars' = clars, \A i \in Jobs : i # j => attempts'[i] = attempts[i]
    PROVE  \A i \in Jobs : WaitsForOne(i)'
<1> SUFFICES ASSUME NEW i \in Jobs PROVE WaitsForOne(i)'
    OBVIOUS
<1>1. Awaited(i)' = Awaited(i)
    BY DEF Awaited
<1>2. CASE i = j
  <2>1. status'[i] = x
    BY <1>2 DEF TypeOK
  <2> QED
    BY <1>1, <1>2, <2>1 DEF WaitsForOne
<1>3. CASE i # j
  <2>1. status'[i] = status[i] /\ attempts'[i] = attempts[i]
    BY <1>3 DEF TypeOK
  <2> QED
    BY <1>1, <2>1 DEF WaitsForOne, Clarified
<1> QED
    BY <1>2, <1>3

\* Steps that leave statuses, clarifications and attempts alone.
LEMMA WaitsKept ==
    ASSUME Clarified, UNCHANGED <<status, clars, attempts>>
    PROVE  \A i \in Jobs : WaitsForOne(i)'
  BY DEF Clarified, WaitsForOne, Awaited

\* Closing clarifications of a job, which then no longer waits.
LEMMA ClarificationCloses ==
    ASSUME TypeOK, Clarified, NEW j \in Jobs, NEW n \in DOMAIN clars[j], NEW s, NEW x,
           s # "AWAITING_CLARIFICATION",
           clars' = [clars EXCEPT ![j][n].status = s],
           status' = [status EXCEPT ![j] = x],
           x \in TerminalStates \/ Awaited(j) = {n},
           x # "NEEDS_CLARIFICATION",
           \A i \in Jobs : i # j => attempts'[i] = attempts[i]
    PROVE  \A i \in Jobs : WaitsForOne(i)'
<1> SUFFICES ASSUME NEW i \in Jobs PROVE WaitsForOne(i)'
    OBVIOUS
<1>1. CASE i = j
  <2>1. status'[i] = x
    BY <1>1 DEF TypeOK
  <2>2. clars[j] \in Seq(Clarification) /\ clars[j][n] \in Clarification
    BY ElementOfSeq, LenProperties DEF TypeOK
  <2>3. Awaited(j)' \subseteq Awaited(j) \ {n}
    <3>1. clars'[j] = [clars[j] EXCEPT ![n] = [clars[j][n] EXCEPT !.status = s]]
      BY DEF TypeOK
    <3>2. DOMAIN clars'[j] = DOMAIN clars[j]
      BY <3>1
    <3>3. ~Awaiting(clars'[j][n])
      BY <2>2, <3>1 DEF Awaiting, Clarification
    <3>4. \A m \in DOMAIN clars[j] : m # n => clars'[j][m] = clars[j][m]
      BY <3>1
    <3> QED
      BY <3>2, <3>3, <3>4 DEF Awaited
  <2> QED
    BY <1>1, <2>1, <2>3 DEF WaitsForOne
<1>2. CASE i # j
  <2>1. status'[i] = status[i] /\ attempts'[i] = attempts[i] /\ clars'[i] = clars[i]
    BY <1>2 DEF TypeOK
  <2>2. Awaited(i)' = Awaited(i)
    BY <2>1 DEF Awaited
  <2> QED
    BY <2>1, <2>2 DEF WaitsForOne, Clarified
<1> QED
    BY <1>1, <1>2

\* require_clarification numbers the clarification after its attempt.
LEMMA RequireWaits ==
    ASSUME TypeOK, Clarified, NEW w \in Workers, RequireClarification(w), held[w] \in Jobs
    PROVE  \A i \in Jobs : WaitsForOne(i)'
<1>0. PICK j, c : /\ j = held[w]
                  /\ c = [status |-> "AWAITING_CLARIFICATION", attempt |-> att[w],
                          due |-> FALSE]
    OBVIOUS
<1> SUFFICES ASSUME NEW i \in Jobs PROVE WaitsForOne(i)'
    OBVIOUS
<1>1. c \in Clarification /\ c.attempt = att[w] /\ Awaiting(c)
    BY <1>0 DEF Clarification, TypeOK, Awaiting
<1>2. /\ \A k \in Jobs : clars'[k] = IF k = j THEN Append(clars[j], c) ELSE clars[k]
      /\ \A k \in Jobs : attempts'[k] =
             IF k = j THEN Append(attempts[j], "IN_PROGRESS") ELSE attempts[k]
      /\ \A k \in Jobs : k # j => status'[k] = status[k]
      /\ Awaited(j) = {}
    BY <1>0 DEF RequireClarification, TypeOK, Awaited
<1>3. CASE i = j
  <2>1. PICK n : n = Len(clars[j])
    OBVIOUS
  <2>2. clars[j] \in Seq(Clarification) /\ attempts[j] \in Seq(AttemptStatus)
    BY <1>0 DEF TypeOK
  <2>3. n \in Nat /\ DOMAIN clars[j] = 1 .. n /\ Len(attempts[j]) \in Nat
    BY <2>1, <2>2, LenProperties
  <2>4. clars'[j] = Append(clars[j], c)
    BY <1>2, <1>3
  <2>5. /\ DOMAIN clars'[j] = 1 .. n + 1
        /\ \A m \in 1 .. n : clars'[j][m] = clars[j][m]
        /\ clars'[j][n + 1] = c
    BY <1>1, <2>1, <2>2, <2>3, <2>4, AppendProperties
  <2>6. Awaited(j)' = {n + 1} /\ n + 1 \in DOMAIN clars'[j]
    BY <1>1, <1>2, <2>3, <2>5 DEF Awaited
  <2>7. Len(attempts'[j]) = att[w]
    <3>1. att[w] = Len(attempts[j]) + 1
      BY <1>0 DEF Clarified, NumbersNext, RequireClarification
    <3>2. attempts'[j] = Append(attempts[j], "IN_PROGRESS")
      BY <1>2, <1>3
    <3> QED
      BY <2>2, <3>1, <3>2
  <2>8. status'[j] = "NEEDS_CLARIFICATION"
    BY <1>0 DEF RequireClarification, TypeOK
  <2> QED
    BY <1>1, <1>3, <2>5, <2>6, <2>7, <2>8 DEF WaitsForOne
<1>4. CASE i # j
  <2>1. Awaited(i)' = Awaited(i)
    BY <1>2, <1>4 DEF Awaited
  <2> QED
    BY <1>2, <1>4, <2>1 DEF WaitsForOne, Clarified
<1> QED
    BY <1>3, <1>4

\* The expiry of one batch leaves a job as it was, or over.
LEMMA ExpiryWaits ==
    ASSUME TypeOK, Clarified, ExpireDueClarifications
    PROVE  \A i \in Jobs : WaitsForOne(i)'
<1> SUFFICES ASSUME NEW i \in Jobs PROVE WaitsForOne(i)'
    OBVIOUS
<1>1. /\ status'[i] = IF DueOn(i) # {} /\ status[i] \notin TerminalStates
                      THEN "EXPIRED" ELSE status[i]
      /\ attempts'[i] = attempts[i]
      /\ clars'[i] = [n \in DOMAIN clars[i] |->
             IF n \in DueOn(i) THEN [clars[i][n] EXCEPT !.status = "CLARIFICATION_EXPIRED"]
                               ELSE clars[i][n]]
    BY DEF ExpireDueClarifications
<1>2. CASE DueOn(i) = {}
  <2>1. /\ DOMAIN clars'[i] = DOMAIN clars[i] /\ status'[i] = status[i]
        /\ \A n \in DOMAIN clars[i] : clars'[i][n] = clars[i][n]
    BY <1>1, <1>2
  <2>2. Awaited(i)' = Awaited(i)
    BY <2>1 DEF Awaited
  <2> QED
    BY <1>1, <2>1, <2>2 DEF WaitsForOne, Clarified
<1>3. CASE DueOn(i) # {}
  <2>1. status'[i] \in TerminalStates
    BY <1>1, <1>3 DEF TerminalStates
  <2> QED
    BY <2>1 DEF WaitsForOne, TerminalStates
<1> QED
    BY <1>2, <1>3

\* The window of an open clarification ends.
LEMMA DueWaits ==
    ASSUME TypeOK, Clarified, NEW j \in Jobs, NEW n \in DOMAIN clars[j],
           ClarificationDue(j, n)
    PROVE  \A i \in Jobs : WaitsForOne(i)'
<1> SUFFICES ASSUME NEW i \in Jobs PROVE WaitsForOne(i)'
    OBVIOUS
<1>1. clars[j][n] \in Clarification
  <2>1. clars[j] \in Seq(Clarification)
    BY DEF TypeOK
  <2> QED
    BY <2>1, ElementOfSeq, LenProperties
<1>2. DOMAIN clars'[i] = DOMAIN clars[i]
    BY DEF ClarificationDue, TypeOK
<1>3. ASSUME NEW m \in DOMAIN clars[i]
      PROVE  clars'[i][m].status = clars[i][m].status
             /\ clars'[i][m].attempt = clars[i][m].attempt
    BY <1>1, <1>3 DEF ClarificationDue, TypeOK, Clarification
<1>4. Awaited(i)' = Awaited(i)
    BY <1>2, <1>3 DEF Awaited, Awaiting
<1>5. UNCHANGED <<status, attempts>>
    BY DEF ClarificationDue, row
<1> QED
    BY <1>2, <1>3, <1>4, <1>5 DEF WaitsForOne, Clarified

LEMMA WaitsStep ==
    ASSUME IInv, Clarified, [Next]_vars
    PROVE  \A i \in Jobs : WaitsForOne(i)'
<1>0. /\ TypeOK /\ Linked /\ LockMatchesEngine /\ FenceHoldsUnderLock
      /\ \A j \in Jobs : WaitsForOne(j)
    BY DEF IInv, Ownership, Clarified
<1>1. ASSUME UNCHANGED <<status, clars, attempts>>
      PROVE  \A i \in Jobs : WaitsForOne(i)'
    BY <1>1, WaitsKept
<1>2. ASSUME NEW j \in Jobs, CreateAnalysis(j)
      PROVE  \A i \in Jobs : WaitsForOne(i)'
  <2>1. Awaited(j) = {}
    BY <1>0, <1>2 DEF CreateAnalysis, WaitsForOne, TerminalStates
  <2> QED
    BY <1>0, <1>2, <2>1, StatusMoves DEF CreateAnalysis, children
<1>3. ASSUME NEW c \in Clients, CancelWrite(c)
      PROVE  \A i \in Jobs : WaitsForOne(i)'
  <2>1. cancelling[c] \in Jobs
    BY <1>0, <1>3 DEF CancelWrite, TypeOK
  <2>2. /\ status' = [status EXCEPT ![cancelling[c]] = "CANCELLED"]
        /\ UNCHANGED <<clars, attempts>> /\ "CANCELLED" \in TerminalStates
    BY <1>3 DEF CancelWrite, children, TerminalStates
  <2> QED
    BY <1>0, <2>1, <2>2, StatusMoves
<1>4. ASSUME NEW w \in Workers, NEW j \in Jobs, Claim(w, j) \/ Recover(w, j)
      PROVE  \A i \in Jobs : WaitsForOne(i)'
  <2>1. status[j] \in SafeStatuses /\ TakeOver(w, j)
        /\ \A i \in Jobs : i # j => attempts'[i] = attempts[i]
    BY <1>0, <1>4 DEF Claim, Recover, Claimable, Recoverable, SafeStatuses, TypeOK
  <2>2. Awaited(j) = {}
    BY <1>0, <2>1 DEF WaitsForOne, TerminalStates, SafeStatuses
  <2>3. status' = [status EXCEPT ![j] = "RECEIVED"] /\ clars' = clars
    BY <2>1 DEF TakeOver
  <2> QED
    BY <1>0, <2>1, <2>2, <2>3, StatusMoves
<1>5. ASSUME NEW w \in Workers, held[w] \in Jobs, NEW x \in TerminalStates,
             status' = [status EXCEPT ![held[w]] = x], clars' = clars,
             \A i \in Jobs : i # held[w] => attempts'[i] = attempts[i]
      PROVE  \A i \in Jobs : WaitsForOne(i)'
  <2>1. x # "NEEDS_CLARIFICATION"
    BY DEF TerminalStates
  <2> QED
    BY <1>0, <1>5, <2>1, StatusMoves
<1>6. ASSUME NEW w \in Workers,
             DenyByPolicy(w) \/ Complete(w) \/ PersistFailure(w)
      PROVE  \A i \in Jobs : WaitsForOne(i)'
  <2>1. held[w] \in Jobs
    BY <1>0, <1>6 DEF DenyByPolicy, Complete, PersistFailure, Linked, Engaged, PC
  <2>2. PICK x \in TerminalStates : status' = [status EXCEPT ![held[w]] = x]
    BY <1>6 DEF DenyByPolicy, Complete, PersistFailure, TerminalStates
  <2>3. clars' = clars /\ \A i \in Jobs : i # held[w] => attempts'[i] = attempts[i]
    BY <1>0, <1>6 DEF DenyByPolicy, Complete, PersistFailure, TypeOK
  <2> QED
    BY <1>5, <2>1, <2>2, <2>3
<1>7. ASSUME NEW w \in Workers, RunTool(w)
      PROVE  \A i \in Jobs : WaitsForOne(i)'
  <2>1. held[w] \in Jobs /\ pc[w] = "running"
    BY <1>0, <1>7 DEF RunTool, Linked, Engaged, PC
  <2>2. status[held[w]] \in ActiveStatuses
    BY <1>0, <2>1 DEF LockMatchesEngine, FenceHoldsUnderLock, Locking, Fence
  <2>3. Awaited(held[w]) = {}
    BY <1>0, <2>1, <2>2
       DEF WaitsForOne, TerminalStates, ActiveStatuses, SafeStatuses, SideEffectStatuses
  <2>4. /\ status' = [status EXCEPT ![held[w]] = "EXECUTING_TOOLS"] /\ clars' = clars
        /\ \A i \in Jobs : i # held[w] => attempts'[i] = attempts[i]
    BY <1>0, <1>7 DEF RunTool, TypeOK
  <2> QED
    BY <1>0, <2>1, <2>3, <2>4, StatusMoves
<1>8. ASSUME NEW w \in Workers, RequireClarification(w)
      PROVE  \A i \in Jobs : WaitsForOne(i)'
  <2>1. held[w] \in Jobs
    BY <1>0, <1>8 DEF RequireClarification, Linked, Engaged, PC
  <2> QED
    BY <1>0, <1>8, <2>1, RequireWaits
<1>9. ASSUME NEW j \in Jobs, NEW n \in DOMAIN clars[j], Respond(j, n)
      PROVE  \A i \in Jobs : WaitsForOne(i)'
  <2>1. Awaited(j) = {n}
    BY <1>0, <1>9 DEF Respond, WaitsForOne, Awaited
  <2>2. /\ clars' = [clars EXCEPT ![j][n].status = "CLARIFICATION_RECEIVED"]
        /\ status' = [status EXCEPT ![j] = "UNDERSTANDING_REQUEST"]
        /\ \A i \in Jobs : i # j => attempts'[i] = attempts[i]
    BY <1>0, <1>9 DEF Respond, TypeOK
  <2> QED
    BY <1>0, <2>1, <2>2, ClarificationCloses
<1>10. ASSUME NEW j \in Jobs, NEW n \in DOMAIN clars[j],
              RespondTooLate(j, n) \/ CancelClarification(j, n)
       PROVE  \A i \in Jobs : WaitsForOne(i)'
  <2>1. PICK s \in {"CLARIFICATION_EXPIRED", "CLARIFICATION_CANCELLED"},
             x \in {"EXPIRED", "CANCELLED"} :
            /\ clars' = [clars EXCEPT ![j][n].status = s]
            /\ status' = [status EXCEPT ![j] = x]
    BY <1>10 DEF RespondTooLate, CancelClarification
  <2>2. attempts' = attempts
    BY <1>10 DEF RespondTooLate, CancelClarification
  <2>3. x \in TerminalStates /\ s # "AWAITING_CLARIFICATION" /\ x # "NEEDS_CLARIFICATION"
    BY DEF TerminalStates
  <2> QED
    BY <1>0, <2>1, <2>2, <2>3, ClarificationCloses
<1>11. ASSUME NEW j \in Jobs, LeaseExpires(j)
       PROVE  \A i \in Jobs : WaitsForOne(i)'
    BY <1>1, <1>11 DEF LeaseExpires, children
<1>12. ASSUME NEW j \in Jobs, NEW c \in Clients, CancelRead(c, j)
       PROVE  \A i \in Jobs : WaitsForOne(i)'
    BY <1>1, <1>12 DEF CancelRead, row, children
<1>13. ASSUME NEW w \in Workers,
              \/ PollEmpty(w) \/ PollMiss(w) \/ StartEngine(w) \/ Advance(w)
              \/ ParkAttempt(w) \/ Reassert(w) \/ LoseOwnership(w) \/ Fail(w)
              \/ Crash(w) \/ HeartbeatRenews(w) \/ HeartbeatFails(w)
              \/ HeartbeatCancels(w)
       PROVE  \A i \in Jobs : WaitsForOne(i)'
  <2>1. UNCHANGED <<status, clars, attempts>>
    BY <1>13
       DEF row, children, PollEmpty, PollMiss, StartEngine, Advance, ParkAttempt,
           Reassert, LoseOwnership, Fail, Crash, HeartbeatRenews, HeartbeatFails,
           HeartbeatCancels
  <2> QED
    BY <1>1, <2>1
<1>14. CASE UNCHANGED vars
    BY <1>1, <1>14 DEF vars, row, children
<1> QED
    BY <1>0, <1>2, <1>3, <1>4, <1>6, <1>7, <1>8, <1>9, <1>10, <1>11, <1>12, <1>13,
       <1>14, ExpiryWaits, DueWaits
       DEF Next, Poll, EngineStep, ClarificationStep

LEMMA NumbersStep ==
    ASSUME IInv, Clarified, [Next]_vars
    PROVE  NumbersNext'
<1> SUFFICES ASSUME NEW v \in Workers, pc'[v] = "running"
             PROVE  att'[v] = Len(attempts'[held'[v]]) + 1
    BY DEF NumbersNext
<1>0. /\ TypeOK /\ Linked /\ LockMatchesEngine /\ v # NoWorker
      /\ \A w \in Workers : pc[w] = "running" => att[w] = Len(attempts[held[w]]) + 1
    BY AnalysisAssumption DEF IInv, Ownership, Clarified, NumbersNext
<1>1. ASSUME pc'[v] = pc[v], held'[v] = held[v], att'[v] = att[v],
             Len(attempts'[held[v]]) = Len(attempts[held[v]])
      PROVE  att'[v] = Len(attempts'[held'[v]]) + 1
    BY <1>0, <1>1
<1>2. ASSUME NEW w \in Workers, StartEngine(w)
      PROVE  att'[v] = Len(attempts'[held'[v]]) + 1
  <2>1. CASE v = w
    BY <1>0, <1>2, <2>1 DEF StartEngine, TypeOK, children
  <2>2. CASE v # w
    BY <1>0, <1>1, <1>2, <2>2 DEF StartEngine, TypeOK, children
  <2> QED
    BY <2>1, <2>2
<1>3. ASSUME UNCHANGED <<attempts, pc, held, att>>
      PROVE  att'[v] = Len(attempts'[held'[v]]) + 1
    BY <1>1, <1>3
<1>4. ASSUME NEW w \in Workers, v # w, attempts' = attempts,
             \/ \E p : GoTo(w, p)
             \/ GoIdle(w)
      PROVE  att'[v] = Len(attempts'[held'[v]]) + 1
    BY <1>0, <1>1, <1>4 DEF GoTo, GoIdle, TypeOK
<1>5. ASSUME NEW w \in Workers,
             \/ PollEmpty(w) \/ PollMiss(w) \/ ParkAttempt(w) \/ Reassert(w)
             \/ LoseOwnership(w) \/ Fail(w) \/ Crash(w) \/ HeartbeatCancels(w)
      PROVE  att'[v] = Len(attempts'[held'[v]]) + 1
  <2>1. /\ attempts' = attempts
        /\ GoIdle(w) \/ \E p \in {"polled", "idle", "failing", "recording"} : GoTo(w, p)
    BY <1>5 DEF PollEmpty, PollMiss, ParkAttempt, Reassert, LoseOwnership, Fail,
                Crash, HeartbeatCancels, children
  <2>2. v # w
    BY <1>0, <2>1 DEF GoIdle, GoTo, TypeOK
  <2> QED
    BY <1>4, <2>1, <2>2
<1>6. ASSUME NEW w \in Workers, Advance(w) \/ HeartbeatRenews(w) \/ HeartbeatFails(w)
      PROVE  att'[v] = Len(attempts'[held'[v]]) + 1
    BY <1>3, <1>6 DEF Advance, HeartbeatRenews, HeartbeatFails, children, worker
<1>7. ASSUME NEW w \in Workers, NEW j \in Jobs, Claim(w, j) \/ Recover(w, j)
      PROVE  att'[v] = Len(attempts'[held'[v]]) + 1
  <2>1. v # w /\ pc'[v] = pc[v] /\ held'[v] = held[v] /\ att'[v] = att[v]
    BY <1>0, <1>7 DEF Claim, Recover, TakeOver, TypeOK
  <2>2. rowlock[j] = NoWorker
    BY <1>7 DEF Claim, Recover, Unlocked
  <2>3. held[v] # j /\ held[v] \in Jobs
    BY <1>0, <2>1, <2>2 DEF LockMatchesEngine, Locking, Linked, Engaged, PC
  <2>4. attempts'[held[v]] = attempts[held[v]]
    <3>1. attempts' = attempts \/ \E t : attempts' = [attempts EXCEPT ![j] = t]
      BY <1>7 DEF Claim, Recover
    <3> QED
      BY <1>0, <2>3, <3>1 DEF TypeOK
  <2> QED
    BY <1>1, <2>1, <2>4
<1>8. ASSUME NEW w \in Workers,
             \/ DenyByPolicy(w) \/ RequireClarification(w) \/ RunTool(w) \/ Complete(w)
      PROVE  att'[v] = Len(attempts'[held'[v]]) + 1
  <2>1. GoIdle(w) \/ \E p \in {"parked", "tooled"} : GoTo(w, p)
    BY <1>8 DEF DenyByPolicy, RequireClarification, RunTool, Complete
  <2>2. v # w /\ pc'[v] = pc[v] /\ held'[v] = held[v] /\ att'[v] = att[v]
    BY <1>0, <2>1 DEF GoIdle, GoTo, TypeOK
  <2>3. pc[w] \in Locking /\ pc[v] \in Locking
    BY <1>8, <2>2
       DEF DenyByPolicy, RequireClarification, RunTool, Complete, Locking
  <2>4. held[w] \in Jobs
    BY <1>0, <2>3 DEF Linked, Locking, Engaged, PC
  <2>5. held[v] # held[w]
    BY <1>0, <2>2, <2>3, <2>4 DEF LockMatchesEngine
  <2>6. attempts'[held[v]] = attempts[held[v]]
    <3>1. \E t : attempts' = [attempts EXCEPT ![held[w]] = t]
      BY <1>8 DEF DenyByPolicy, RequireClarification, RunTool, Complete
    <3>2. held[v] \in Jobs
      BY <1>0, <2>3 DEF Linked, Locking, Engaged, PC
    <3> QED
      BY <1>0, <2>5, <3>1, <3>2 DEF TypeOK
  <2> QED
    BY <1>1, <2>2, <2>6
<1>9. ASSUME NEW w \in Workers, PersistFailure(w)
      PROVE  att'[v] = Len(attempts'[held'[v]]) + 1
  <2>1. v # w /\ pc'[v] = pc[v] /\ held'[v] = held[v] /\ att'[v] = att[v]
    BY <1>0, <1>9 DEF PersistFailure, GoIdle, TypeOK
  <2>2. rowlock[held[w]] = NoWorker /\ held[w] \in Jobs
    BY <1>0, <1>9 DEF PersistFailure, Unlocked, Linked, Engaged, PC
  <2>3. held[v] # held[w]
    BY <1>0, <2>1, <2>2 DEF LockMatchesEngine, Locking
  <2>4. attempts'[held[v]] = attempts[held[v]]
    BY <1>0, <1>9, <2>3 DEF PersistFailure, TypeOK
  <2> QED
    BY <1>1, <2>1, <2>4
<1>10. ASSUME NEW j \in Jobs, NEW n \in DOMAIN clars[j], Respond(j, n)
       PROVE  att'[v] = Len(attempts'[held'[v]]) + 1
  <2>1. pc' = pc /\ held' = held /\ att' = att /\ rowlock[j] = NoWorker
    BY <1>10 DEF Respond, Unlocked, worker
  <2>2. held[v] # j
    BY <1>0, <2>1 DEF LockMatchesEngine, Locking
  <2>3. attempts'[held[v]] = attempts[held[v]]
    BY <1>0, <1>10, <2>2 DEF Respond, TypeOK
  <2> QED
    BY <1>1, <2>1, <2>3
<1>11. ASSUME NEW j \in Jobs, NEW n \in DOMAIN clars[j],
              \/ RespondTooLate(j, n) \/ CancelClarification(j, n)
              \/ ClarificationDue(j, n)
       PROVE  att'[v] = Len(attempts'[held'[v]]) + 1
    BY <1>3, <1>11 DEF RespondTooLate, CancelClarification, ClarificationDue, worker
<1>12. CASE ExpireDueClarifications
    BY <1>3, <1>12 DEF ExpireDueClarifications, worker
<1>13. ASSUME NEW j \in Jobs, CreateAnalysis(j) \/ LeaseExpires(j)
       PROVE  att'[v] = Len(attempts'[held'[v]]) + 1
    BY <1>3, <1>13 DEF CreateAnalysis, LeaseExpires, children, worker
<1>14. ASSUME NEW c \in Clients, CancelWrite(c) \/ \E j \in Jobs : CancelRead(c, j)
       PROVE  att'[v] = Len(attempts'[held'[v]]) + 1
    BY <1>3, <1>14 DEF CancelWrite, CancelRead, children, worker
<1>15. CASE UNCHANGED vars
    BY <1>3, <1>15 DEF vars, children, worker
<1> QED
    BY <1>2, <1>5, <1>6, <1>7, <1>8, <1>9, <1>10, <1>11, <1>12, <1>13, <1>14, <1>15
       DEF Next, Poll, EngineStep, ClarificationStep

------------------------------------------------------------------------------
(* Theorems *)

\* The initial state: no job, no claim, no lock.
LEMMA InitInvariant == Init => IInv
<1> SUFFICES ASSUME Init PROVE IInv
    OBVIOUS
<1> USE AnalysisAssumption DEF Init
<1>1. TypeOK
    BY DEF TypeOK, PC, NULL, AnalysisJobStatus, ActiveStatuses, SafeStatuses
<1>2. Ownership
    BY DEF Ownership, Linked, LockMatchesEngine, FenceHoldsUnderLock,
       TokenNamesOwner, Engaged, Locking
<1>3. Effects
    BY DEF Effects, ClaimedThenRecovered, EffectClosesJob, ToolEffectOnce, NULL
<1>4. Results
    <2>1. <<>> # <<"completed">> /\ <<>> # <<"failed">>
      OBVIOUS
    <2>2. \A j \in Jobs : status[j] = "NONE" /\ outcomes[j] = <<>> /\ snapshots[j] = {}
      OBVIOUS
    <2> QED
      BY <2>1, <2>2 DEF Results, ResultIsOwners, OutcomeClosesJob,
         OutcomeReportedOnce
<1> QED
    BY <1>1, <1>2, <1>3, <1>4 DEF IInv

\* IInv is inductive.
THEOREM Invariance == Spec => []IInv
<1>1. IInv /\ [Next]_vars => IInv'
    BY TypeStep, OwnershipStep, EffectsStep, ResultsStep DEF IInv, Ownership
<1> QED
    BY InitInvariant, <1>1, PTL DEF Spec

\* Type correctness of every reachable state.
THEOREM TypeCorrect == Spec => []TypeOK
<1>1. IInv => TypeOK
    BY DEF IInv
<1> QED
    BY Invariance, <1>1, PTL

\* The row lock of execute_job protects its fence: as long as an engine's
\* transaction is open, its token, worker name and active status stay.
THEOREM LockProtectsFence == Spec => []FenceHoldsUnderLock
<1>1. IInv => FenceHoldsUnderLock
    BY DEF IInv, Ownership
<1> QED
    BY Invariance, <1>1, PTL

\* execute_comparison commits at most one dataset for a job, whatever crashes,
\* lease expiries and recoveries happen, for any number of workers.
THEOREM ToolRunsOnce == Spec => []ToolEffectOnce
<1>1. IInv => ToolEffectOnce
    BY DEF IInv, Effects
<1> QED
    BY Invariance, <1>1, PTL

\* The final snapshot is always the work of the job's last owner, and it is
\* there exactly when the job is COMPLETED or was cancelled over it.
THEOREM SnapshotOfOwner == Spec => []ResultIsOwners
<1>1. IInv => ResultIsOwners
    BY DEF IInv, Results
<1> QED
    BY Invariance, <1>1, PTL

\* A job reports one outcome at most, and the one its row says.
THEOREM OneOutcome == Spec => []OutcomeReportedOnce
<1>1. IInv => OutcomeReportedOnce
    BY DEF IInv, Results
<1> QED
    BY Invariance, <1>1, PTL

\* A terminal status is never left but for CANCELLED.
THEOREM TerminalStaysOrCancelled == Spec => TerminalOnlyToCancelled
<1>1. IInv /\ [Next]_vars => [TerminalStep]_vars
    BY TerminalSteps DEF IInv
<1> QED
    BY Invariance, <1>1, PTL DEF Spec, TerminalOnlyToCancelled

\* A job is handed over at most once, after a lapsed lease and before it had
\* any effect: the CR2 and RC2 models of ADR-031.
THEOREM HandoverIsSafe == Spec => HandoverOnlyBeforeEffects
<1>1. IInv /\ [Next]_vars => [HandoverStep]_vars
    BY HandoverSteps
<1> QED
    BY Invariance, <1>1, PTL DEF Spec, HandoverOnlyBeforeEffects

\* A worker that has lost its token writes nothing of the job any more (ADR-031 section 7).
THEOREM LateWriterIsFenced == Spec => FencedWrites
<1>1. IInv /\ [Next]_vars => [FencedStep]_vars
    BY FencedSteps DEF IInv
<1> QED
    BY Invariance, <1>1, PTL DEF Spec, FencedWrites

\* Open clarifications and jobs agree: what the handlers of the clarification
\* service and expire_due_clarifications take for granted.
THEOREM ClarificationsMatch == Spec => []ClarificationMatchesJob
<1>1. Init => Clarified
  <2> SUFFICES ASSUME Init PROVE Clarified
    OBVIOUS
  <2>1. \A j \in Jobs : DOMAIN clars[j] = {} /\ status[j] = "NONE"
    BY DEF Init
  <2> QED
    BY <2>1 DEF Init, Clarified, NumbersNext, WaitsForOne, Awaited
<1>2. IInv /\ Clarified /\ [Next]_vars => Clarified'
    BY WaitsStep, NumbersStep DEF Clarified
<1>3. Clarified => ClarificationMatchesJob
  <2> SUFFICES ASSUME Clarified, NEW j \in Jobs
               PROVE  /\ Awaited(j) # {} =>
                             status[j] \in TerminalStates \cup {"NEEDS_CLARIFICATION"}
                      /\ status[j] = "NEEDS_CLARIFICATION" =>
                             /\ Cardinality(Awaited(j)) = 1
                             /\ \A n \in Awaited(j) : clars[j][n].attempt = Len(attempts[j])
    BY DEF ClarificationMatchesJob, Awaited
  <2> QED
    BY FS_Singleton DEF Clarified, WaitsForOne
<1> QED
    BY <1>1, <1>2, <1>3, Invariance, PTL DEF Spec

------------------------------------------------------------------------------
(* The refinement: AnalysisJobs implements AnalysisLifecycle.  The mapped      *)
(* initial state is initial, and every step of a handler maps to one step of   *)
(* the life cycle of each job.                                                 *)

\* An engine is past the tool call only if the dataset is there.
Tooled ==
    \A w \in Workers : pc[w] \in {"tooled", "recording"} => datasets[held[w]] > 0

\* A cancellation under way is of a job that exists.
Validated ==
    \A c \in Clients : cancelling[c] # NoJob =>
        cancelling[c] \in Jobs /\ status[cancelling[c]] # "NONE"

------------------------------------------------------------------------------
(* The mapping *)

\* The phase of each status.
LEMMA PhaseTable ==
    /\ PhaseOf("NONE") = "absent"
    /\ \A s \in ActiveStatuses : PhaseOf(s) = "open"
    /\ PhaseOf("NEEDS_CLARIFICATION") = "waiting"
    /\ PhaseOf("COMPLETED") = "succeeded"
    /\ PhaseOf("EXPIRED") = "expired"
    /\ PhaseOf("CANCELLED") = "cancelled"
    /\ PhaseOf("FAILED") = "failed" /\ PhaseOf("REJECTED_BY_POLICY") = "failed"
    /\ \A s : s # "NONE" => PhaseOf(s) # "absent"
BY DEF PhaseOf, ActiveStatuses, SafeStatuses, SideEffectStatuses

\* What the client sees of a job when nothing it sees has changed.
LEMMA StayStep ==
    ASSUME NEW j \in Jobs, PhaseOf(status'[j]) = PhaseOf(status[j]),
           datasets'[j] = datasets[j], snapshots'[j] = snapshots[j],
           outcomes'[j] = outcomes[j]
    PROVE  Lifecycle!Step(j)
BY DEF Lifecycle!Step, Lifecycle!Stay, Lifecycle!Keeps

\* The announcement of a job that reports its first outcome.
LEMMA FirstTold ==
    ASSUME NEW e PROVE Told(<<>>) = "nothing" /\ Told(Append(<<>>, e)) = e
<1>1. Append(<<>>, e) = <<e>> /\ Len(<<e>>) = 1 /\ <<e>>[1] = e /\ <<e>> # <<>>
    OBVIOUS
<1> QED
    BY <1>1 DEF Told

\* The committed columns a client can see.
visible == <<status, datasets, snapshots, outcomes>>

\* A handler that leaves the visible columns alone is invisible.
LEMMA InvisibleStep ==
    ASSUME UNCHANGED visible PROVE \A i \in Jobs : Lifecycle!Step(i)
BY StayStep DEF visible

\* A handler that writes one job's status and nothing else the client sees.
LEMMA StatusOnlyStep ==
    ASSUME TypeOK, NEW j \in Jobs, NEW s,
           status' = [status EXCEPT ![j] = s],
           UNCHANGED <<datasets, snapshots, outcomes>>,
           \/ PhaseOf(status[j]) = "absent" /\ PhaseOf(s) = "open"
           \/ PhaseOf(status[j]) = "open" /\ datasets[j] = 0 /\ PhaseOf(s) = "waiting"
           \/ PhaseOf(status[j]) = "waiting" /\ PhaseOf(s) \in {"open", "expired"}
           \/ PhaseOf(status[j]) # "absent" /\ PhaseOf(s) = "cancelled"
           \/ PhaseOf(s) = PhaseOf(status[j])
    PROVE  \A i \in Jobs : Lifecycle!Step(i)
<1>1. status'[j] = s /\ \A i \in Jobs : i # j => status'[i] = status[i]
    BY DEF TypeOK
<1>2. \A i \in Jobs : i # j => Lifecycle!Step(i)
    BY <1>1, StayStep
<1>3. Lifecycle!Step(j)
  <2>1. Lifecycle!Keeps(j)
    BY DEF Lifecycle!Keeps
  <2>2. CASE PhaseOf(status[j]) = "absent" /\ PhaseOf(s) = "open"
    BY <1>1, <2>1, <2>2 DEF Lifecycle!Step, Lifecycle!Submit
  <2>3. CASE PhaseOf(status[j]) = "open" /\ datasets[j] = 0 /\ PhaseOf(s) = "waiting"
    <3>1. ~(datasets[j] > 0)
      BY <2>3
    <3>2. ~[i \in Jobs |-> datasets[i] > 0][j]
      BY <3>1, Zenon
    <3> QED
      BY <1>1, <2>1, <2>3, <3>2 DEF Lifecycle!Step, Lifecycle!Ask
  <2>4. CASE PhaseOf(status[j]) = "waiting" /\ PhaseOf(s) \in {"open", "expired"}
    BY <1>1, <2>1, <2>4 DEF Lifecycle!Step, Lifecycle!Answer, Lifecycle!Expire
  <2>5. CASE PhaseOf(status[j]) # "absent" /\ PhaseOf(s) = "cancelled"
    BY <1>1, <2>1, <2>5 DEF Lifecycle!Step, Lifecycle!Cancel
  <2>6. CASE PhaseOf(s) = PhaseOf(status[j])
    BY <1>1, <2>6, StayStep
  <2> QED
    BY <2>2, <2>3, <2>4, <2>5, <2>6
<1> QED
    BY <1>2, <1>3

\* A handler that records a job's failure with its announcement.
LEMMA FailureStep ==
    ASSUME IInv, NEW j \in Jobs, NEW s,
           PhaseOf(status[j]) = "open", PhaseOf(s) = "failed",
           status[j] \notin TerminalStates,
           status' = [status EXCEPT ![j] = s],
           outcomes' = [outcomes EXCEPT ![j] = Append(@, "failed")],
           UNCHANGED <<datasets, snapshots>>
    PROVE  \A i \in Jobs : Lifecycle!Step(i)
<1>1. outcomes[j] = <<>>
    BY DEF IInv, Results, OutcomeClosesJob
<1>2. /\ status'[j] = s /\ outcomes'[j] = Append(<<>>, "failed")
      /\ \A i \in Jobs : i # j => status'[i] = status[i] /\ outcomes'[i] = outcomes[i]
    BY <1>1 DEF IInv, TypeOK
<1>3. \A i \in Jobs : i # j => Lifecycle!Step(i)
    BY <1>2, StayStep
<1>4. Told(outcomes[j]) = "nothing" /\ Told(outcomes'[j]) = "failed"
    BY <1>1, <1>2, FirstTold
<1>5. Lifecycle!Fail(j)
    BY <1>2, <1>4 DEF Lifecycle!Fail
<1> QED
    BY <1>3, <1>5 DEF Lifecycle!Step

------------------------------------------------------------------------------
(* The handlers *)

\* The API's two handlers.
LEMMA CreateRefines ==
    ASSUME IInv, NEW j \in Jobs, CreateAnalysis(j)
    PROVE  \A i \in Jobs : Lifecycle!Step(i)
<1>1. PhaseOf(status[j]) = "absent" /\ PhaseOf("RECEIVED") = "open"
    BY PhaseTable DEF CreateAnalysis, ActiveStatuses, SafeStatuses
<1> QED
    BY <1>1, StatusOnlyStep DEF CreateAnalysis, children, IInv

LEMMA CancelRefines ==
    ASSUME IInv, Validated, NEW c \in Clients, CancelWrite(c)
    PROVE  \A i \in Jobs : Lifecycle!Step(i)
<1>1. cancelling[c] \in Jobs /\ status[cancelling[c]] # "NONE"
    BY DEF Validated, CancelWrite
<1>2. PhaseOf(status[cancelling[c]]) # "absent" /\ PhaseOf("CANCELLED") = "cancelled"
    BY <1>1, PhaseTable
<1> QED
    BY <1>1, <1>2, StatusOnlyStep DEF CancelWrite, children, IInv

\* Both procedures of the claim authority put an open job back to RECEIVED.
LEMMA TakeOverRefines ==
    ASSUME IInv, NEW w \in Workers, NEW j \in Jobs, Claim(w, j) \/ Recover(w, j)
    PROVE  \A i \in Jobs : Lifecycle!Step(i)
<1>1. PhaseOf(status[j]) = "open" /\ PhaseOf("RECEIVED") = "open"
    BY PhaseTable DEF Claim, Claimable, Recover, Recoverable, ActiveStatuses,
       SafeStatuses
<1>2. /\ status' = [status EXCEPT ![j] = "RECEIVED"]
      /\ UNCHANGED <<datasets, snapshots, outcomes>>
    BY DEF Claim, Recover, TakeOver
<1> QED
    BY <1>1, <1>2, StatusOnlyStep DEF IInv

\* What an engine knows of its job while its transaction is open.
LEMMA LockedFacts ==
    ASSUME IInv, NEW w \in Workers, pc[w] \in Locking
    PROVE  /\ held[w] \in Jobs
           /\ Fence(w)
           /\ PhaseOf(status[held[w]]) = "open"
           /\ status[held[w]] \notin TerminalStates
           /\ pc[w] = "running" => datasets[held[w]] = 0
<1>1. held[w] \in Jobs
    BY DEF IInv, Ownership, Linked, Locking, Engaged, PC
<1>2. Fence(w)
    BY <1>1 DEF IInv, Ownership, LockMatchesEngine, FenceHoldsUnderLock
<1>3. PhaseOf(status[held[w]]) = "open"
    BY <1>2, PhaseTable DEF Fence
<1>4. status[held[w]] \notin TerminalStates
    BY <1>2 DEF Fence, ActiveStatuses, SafeStatuses, SideEffectStatuses,
       TerminalStates
<1>5. ASSUME pc[w] = "running" PROVE datasets[held[w]] = 0
  <2>1. ~(datasets[held[w]] > 0)
    BY <1>1, <1>2, <1>5 DEF IInv, Effects, EffectClosesJob, Fence, OwnsRow
  <2>2. datasets[held[w]] \in Nat
    BY <1>1 DEF IInv, TypeOK
  <2> QED
    BY <2>1, <2>2
<1> QED
    BY <1>1, <1>2, <1>3, <1>4, <1>5

\* The engine's transactions before the tool call.
LEMMA DenyRefines ==
    ASSUME IInv, NEW w \in Workers, DenyByPolicy(w)
    PROVE  \A i \in Jobs : Lifecycle!Step(i)
<1>1. pc[w] \in Locking
    BY DEF DenyByPolicy, Locking
<1>2. /\ status' = [status EXCEPT ![held[w]] = "REJECTED_BY_POLICY"]
      /\ outcomes' = [outcomes EXCEPT ![held[w]] = Append(@, "failed")]
      /\ UNCHANGED <<datasets, snapshots>>
    BY DEF DenyByPolicy
<1> QED
    BY <1>1, <1>2, LockedFacts, PhaseTable, FailureStep

LEMMA AskRefines ==
    ASSUME IInv, NEW w \in Workers, RequireClarification(w)
    PROVE  \A i \in Jobs : Lifecycle!Step(i)
<1>1. pc[w] = "running" /\ pc[w] \in Locking
    BY DEF RequireClarification, Locking
<1>2. /\ status' = [status EXCEPT ![held[w]] = "NEEDS_CLARIFICATION"]
      /\ UNCHANGED <<datasets, snapshots, outcomes>>
    BY DEF RequireClarification
<1> QED
    BY <1>1, <1>2, LockedFacts, PhaseTable, StatusOnlyStep DEF IInv

\* The tool's commit is the one production of the job.
LEMMA ToolRefines ==
    ASSUME IInv, NEW w \in Workers, RunTool(w)
    PROVE  \A i \in Jobs : Lifecycle!Step(i)
<1>0. PICK j \in Jobs : j = held[w]
    BY LockedFacts DEF RunTool, Locking
<1>1. PhaseOf(status[j]) = "open" /\ datasets[j] = 0
    BY <1>0, LockedFacts DEF RunTool, Locking
<1>2. /\ status' = [status EXCEPT ![j] = "EXECUTING_TOOLS"]
      /\ datasets' = [datasets EXCEPT ![j] = @ + 1]
      /\ UNCHANGED <<snapshots, outcomes>>
    BY <1>0 DEF RunTool
<1>3. /\ status'[j] = "EXECUTING_TOOLS" /\ datasets'[j] = 1
      /\ \A i \in Jobs : i # j => status'[i] = status[i] /\ datasets'[i] = datasets[i]
    BY <1>1, <1>2 DEF IInv, TypeOK
<1>4. \A i \in Jobs : i # j => Lifecycle!Step(i)
    BY <1>2, <1>3, StayStep
<1>5. PhaseOf(status'[j]) = "open"
    BY <1>3, PhaseTable DEF ActiveStatuses, SideEffectStatuses
<1>6. Lifecycle!Produce(j)
  <2>1. ~(datasets[j] > 0) /\ datasets'[j] > 0
    BY <1>1, <1>3
  <2>2. ~[i \in Jobs |-> datasets[i] > 0][j] /\ [i \in Jobs |-> datasets'[i] > 0][j] = TRUE
    BY <1>1, <2>1, Zenon
  <2> QED
    BY <1>1, <1>2, <1>5, <2>2 DEF Lifecycle!Produce
<1>7. Lifecycle!Step(j)
    BY <1>6 DEF Lifecycle!Step
<1> QED
    BY <1>4, <1>7

\* The final transaction: status, snapshot and announcement together.
LEMMA CompleteRefines ==
    ASSUME IInv, Tooled, NEW w \in Workers, Complete(w)
    PROVE  \A i \in Jobs : Lifecycle!Step(i)
<1>0. PICK j \in Jobs : j = held[w]
    BY LockedFacts DEF Complete, Locking
<1>1. /\ PhaseOf(status[j]) = "open"
      /\ status[j] \notin TerminalStates /\ datasets[j] > 0
    BY <1>0, LockedFacts DEF Complete, Locking, Tooled
<1>2. outcomes[j] = <<>>
    BY <1>1 DEF IInv, Results, OutcomeClosesJob
<1>3. /\ status' = [status EXCEPT ![j] = "COMPLETED"]
      /\ snapshots' = [snapshots EXCEPT ![j] = @ \cup {tok[w]}]
      /\ outcomes' = [outcomes EXCEPT ![j] = Append(@, "completed")]
      /\ UNCHANGED datasets
    BY <1>0 DEF Complete
<1>4. /\ status'[j] = "COMPLETED" /\ snapshots'[j] # {}
      /\ outcomes'[j] = Append(<<>>, "completed")
      /\ \A i \in Jobs : i # j => /\ status'[i] = status[i]
                                  /\ snapshots'[i] = snapshots[i]
                                  /\ outcomes'[i] = outcomes[i]
    BY <1>1, <1>2, <1>3 DEF IInv, TypeOK
<1>5. \A i \in Jobs : i # j => Lifecycle!Step(i)
    BY <1>3, <1>4, StayStep
<1>6. PhaseOf(status'[j]) = "succeeded"
    BY <1>4, PhaseTable
<1>7. Told(outcomes[j]) = "nothing" /\ Told(outcomes'[j]) = "completed"
    BY <1>2, <1>4, FirstTold
<1>8. Lifecycle!Succeed(j)
  <2>1. datasets'[j] > 0
    BY <1>1, <1>3
  <2>2. /\ [i \in Jobs |-> datasets[i] > 0][j]
        /\ [i \in Jobs |-> datasets'[i] > 0][j] = TRUE
        /\ [i \in Jobs |-> snapshots'[i] # {}][j] = TRUE
    BY <1>1, <1>4, <2>1, Zenon
  <2> QED
    BY <1>1, <1>6, <1>7, <2>2 DEF Lifecycle!Succeed
<1>9. Lifecycle!Step(j)
    BY <1>8 DEF Lifecycle!Step
<1> QED
    BY <1>5, <1>9

LEMMA PersistFailureRefines ==
    ASSUME IInv, NEW w \in Workers, PersistFailure(w)
    PROVE  \A i \in Jobs : Lifecycle!Step(i)
<1>1. held[w] \in Jobs
    BY DEF PersistFailure, IInv, Ownership, Linked, Engaged, PC
<1>2. /\ PhaseOf(status[held[w]]) = "open"
      /\ status[held[w]] \notin TerminalStates
    BY PhaseTable DEF PersistFailure, Fence, ActiveStatuses, SafeStatuses,
       SideEffectStatuses, TerminalStates
<1>3. /\ status' = [status EXCEPT ![held[w]] = "FAILED"]
      /\ outcomes' = [outcomes EXCEPT ![held[w]] = Append(@, "failed")]
      /\ UNCHANGED <<datasets, snapshots>>
    BY DEF PersistFailure
<1> QED
    BY <1>1, <1>2, <1>3, PhaseTable, FailureStep

\* The clarification handlers that close one clarification.
LEMMA AnswerRefines ==
    ASSUME IInv, NEW j \in Jobs, NEW n,
           Respond(j, n) \/ RespondTooLate(j, n) \/ CancelClarification(j, n)
    PROVE  \A i \in Jobs : Lifecycle!Step(i)
<1>1. UNCHANGED <<datasets, snapshots, outcomes>>
    BY DEF Respond, RespondTooLate, CancelClarification
<1>2. CASE Respond(j, n)
  <2>1. PhaseOf(status[j]) = "waiting" /\ PhaseOf("UNDERSTANDING_REQUEST") = "open"
    BY <1>2, PhaseTable DEF Respond, ActiveStatuses, SafeStatuses
  <2>2. status' = [status EXCEPT ![j] = "UNDERSTANDING_REQUEST"]
    BY <1>2 DEF Respond
  <2> QED
    BY <1>1, <2>1, <2>2, StatusOnlyStep DEF IInv
<1>3. CASE RespondTooLate(j, n)
  <2>1. PhaseOf(status[j]) = "waiting" /\ PhaseOf("EXPIRED") = "expired"
    BY <1>3, PhaseTable DEF RespondTooLate
  <2>2. status' = [status EXCEPT ![j] = "EXPIRED"]
    BY <1>3 DEF RespondTooLate
  <2> QED
    BY <1>1, <2>1, <2>2, StatusOnlyStep DEF IInv
<1>4. CASE CancelClarification(j, n)
  <2>1. status[j] # "NONE"
    BY <1>4 DEF CancelClarification, MayTransition, AnalysisJobStatus,
       ActiveStatuses, SafeStatuses, SideEffectStatuses, TerminalStates
  <2>2. PhaseOf(status[j]) # "absent" /\ PhaseOf("CANCELLED") = "cancelled"
    BY <2>1, PhaseTable
  <2>3. status' = [status EXCEPT ![j] = "CANCELLED"]
    BY <1>4 DEF CancelClarification
  <2> QED
    BY <1>1, <2>2, <2>3, StatusOnlyStep DEF IInv
<1> QED
    BY <1>2, <1>3, <1>4

\* Only a waiting job may move to EXPIRED (VALID_TRANSITIONS).
LEMMA OnlyWaitingExpires ==
    ASSUME NEW s, MayTransition(s, "EXPIRED") PROVE s = "NEEDS_CLARIFICATION"
BY DEF MayTransition, ValidTransitions, AnalysisJobStatus, ActiveStatuses,
   SafeStatuses, SideEffectStatuses, TerminalStates

\* The expiry batch is one step of every job it touches.
LEMMA ExpiryRefines ==
    ASSUME IInv, ExpireDueClarifications
    PROVE  \A i \in Jobs : Lifecycle!Step(i)
<1> DEFINE open == {j \in Jobs : DueOn(j) # {} /\ status[j] \notin TerminalStates}
<1>1. /\ status' = [j \in Jobs |-> IF j \in open THEN "EXPIRED" ELSE status[j]]
      /\ \A j \in open : MayTransition(status[j], "EXPIRED")
      /\ UNCHANGED <<datasets, snapshots, outcomes>>
    BY DEF ExpireDueClarifications
<1> HIDE DEF open
<1> SUFFICES ASSUME NEW i \in Jobs PROVE Lifecycle!Step(i)
    OBVIOUS
<1>2. CASE i \notin open
    BY <1>1, <1>2, StayStep
<1>3. CASE i \in open
  <2>1. status[i] = "NEEDS_CLARIFICATION" /\ status'[i] = "EXPIRED"
    BY <1>1, <1>3, OnlyWaitingExpires
  <2>2. PhaseOf(status[i]) = "waiting" /\ PhaseOf(status'[i]) = "expired"
    BY <2>1, PhaseTable
  <2>3. Lifecycle!Expire(i)
    BY <1>1, <2>2 DEF Lifecycle!Expire, Lifecycle!Keeps
  <2> QED
    BY <2>3 DEF Lifecycle!Step
<1> QED
    BY <1>2, <1>3

\* Everything else a session does is invisible.
LEMMA OthersInvisible ==
    ASSUME \/ \E j \in Jobs : LeaseExpires(j)
           \/ \E c \in Clients : \E j \in Jobs : CancelRead(c, j)
           \/ \E j \in Jobs : \E n \in DOMAIN clars[j] : ClarificationDue(j, n)
           \/ \E w \in Workers :
                \/ PollEmpty(w) \/ PollMiss(w) \/ StartEngine(w) \/ Advance(w)
                \/ ParkAttempt(w) \/ Reassert(w) \/ LoseOwnership(w)
                \/ Fail(w) \/ Crash(w) \/ HeartbeatRenews(w)
                \/ HeartbeatFails(w) \/ HeartbeatCancels(w)
           \/ UNCHANGED vars
    PROVE  UNCHANGED visible
BY DEF LeaseExpires, CancelRead, ClarificationDue, PollEmpty, PollMiss,
   StartEngine, Advance, ParkAttempt, Reassert, LoseOwnership, Fail, Crash,
   HeartbeatRenews, HeartbeatFails, HeartbeatCancels, visible, vars, row,
   children

\* Every step of the system is a step of every job's life cycle.
LEMMA StepRefines ==
    ASSUME IInv, Tooled, Validated, [Next]_vars
    PROVE  \A i \in Jobs : Lifecycle!Step(i)
BY CreateRefines, CancelRefines, TakeOverRefines, DenyRefines, AskRefines,
   ToolRefines, CompleteRefines, PersistFailureRefines, AnswerRefines,
   ExpiryRefines, OthersInvisible, InvisibleStep
   DEF Next, Poll, EngineStep, ClarificationStep

------------------------------------------------------------------------------
(* The two facts about engines and cancellations are invariant *)

\* An engine gets past the tool call by RunTool only, and a dataset stays.
LEMMA TooledStep ==
    ASSUME IInv, Tooled, [Next]_vars
    PROVE  Tooled'
<1> USE DEF IInv, TypeOK, vars, row, children, worker
<1>1. ASSUME NEW w \in Workers, RunTool(w) PROVE Tooled'
  <2>1. held[w] \in Jobs
    BY <1>1, LockedFacts DEF RunTool, Locking
  <2>2. datasets'[held[w]] > 0 /\ \A i \in Jobs : datasets[i] > 0 => datasets'[i] > 0
    BY <1>1, <2>1 DEF RunTool
  <2>3. \A v \in Workers : pc[v] \in {"tooled", "recording"} => held[v] \in Jobs
    BY DEF Ownership, Linked, Engaged, PC
  <2>4. held' = held /\ \A v \in Workers : v # w => pc'[v] = pc[v]
    BY <1>1 DEF RunTool, GoTo
  <2>5. ASSUME NEW v \in Workers, pc'[v] \in {"tooled", "recording"}
        PROVE  datasets'[held'[v]] > 0
    <3>1. CASE v = w
      BY <2>2, <2>4, <3>1
    <3>2. CASE v # w
      BY <2>2, <2>3, <2>4, <2>5, <3>2 DEF Tooled
    <3> QED
      BY <3>1, <3>2
  <2> QED
    BY <2>5 DEF Tooled
<1>2. ASSUME NEW w \in Workers, Reassert(w) PROVE Tooled'
    BY <1>2 DEF Reassert, GoTo, Tooled
<1>3. ASSUME NEW w \in Workers, NEW j \in Jobs, Claim(w, j) \/ Recover(w, j)
      PROVE  Tooled'
  <2>1. /\ pc' = [pc EXCEPT ![w] = "claimed"] /\ held' = [held EXCEPT ![w] = j]
        /\ datasets' = datasets
    BY <1>3 DEF Claim, Recover, TakeOver
  <2> QED
    BY <2>1 DEF Tooled
<1>4. ASSUME NEW w \in Workers,
             \/ DenyByPolicy(w) \/ Complete(w) \/ PersistFailure(w)
             \/ LoseOwnership(w) \/ Crash(w) \/ HeartbeatCancels(w)
      PROVE  Tooled'
    BY <1>4, ZenonT(60) DEF DenyByPolicy, Complete, PersistFailure, LoseOwnership, Crash,
       HeartbeatCancels, GoIdle, Tooled
<1>5. ASSUME NEW w \in Workers,
             \/ PollEmpty(w) \/ PollMiss(w) \/ RequireClarification(w) \/ Fail(w)
      PROVE  Tooled'
    BY <1>5 DEF PollEmpty, PollMiss, RequireClarification, Fail, GoTo, Tooled
<1>6. ASSUME NEW w \in Workers, StartEngine(w) \/ Advance(w) PROVE Tooled'
    BY <1>6 DEF StartEngine, Advance, Tooled
<1>7. ASSUME NEW w \in Workers, ParkAttempt(w) PROVE Tooled'
    BY <1>7 DEF ParkAttempt, GoTo, GoIdle, Tooled
<1>8. ASSUME \/ \E w \in Workers : HeartbeatRenews(w) \/ HeartbeatFails(w)
             \/ \E j \in Jobs : CreateAnalysis(j) \/ LeaseExpires(j)
             \/ \E c \in Clients : CancelWrite(c) \/ \E j \in Jobs : CancelRead(c, j)
             \/ ClarificationStep
             \/ UNCHANGED vars
      PROVE  Tooled'
    BY <1>8 DEF HeartbeatRenews, HeartbeatFails, CreateAnalysis, LeaseExpires,
       CancelWrite, CancelRead, ClarificationStep, Respond, RespondTooLate,
       CancelClarification, ClarificationDue, ExpireDueClarifications, Tooled
<1> QED
    BY <1>1, <1>2, <1>3, <1>4, <1>5, <1>6, <1>7, <1>8
       DEF Next, Poll, EngineStep

\* No handler ever takes a job back to where it does not exist.
LEMMA CreatedStays ==
    ASSUME IInv, [Next]_vars, NEW j \in Jobs, status[j] # "NONE"
    PROVE  status'[j] # "NONE"
<1> USE DEF IInv, TypeOK, vars, row, children
<1>1. ASSUME \/ \E i \in Jobs : CreateAnalysis(i)
             \/ \E c \in Clients : CancelWrite(c)
      PROVE  status'[j] # "NONE"
    BY <1>1 DEF CreateAnalysis, CancelWrite
<1>2. ASSUME NEW w \in Workers,
             \/ \E i \in Jobs : Claim(w, i) \/ Recover(w, i)
             \/ DenyByPolicy(w) \/ RequireClarification(w) \/ RunTool(w)
             \/ Complete(w) \/ PersistFailure(w)
      PROVE  status'[j] # "NONE"
    BY <1>2, SMTT(30) DEF Claim, Recover, TakeOver, DenyByPolicy, RequireClarification,
       RunTool, Complete, PersistFailure
<1>3. ASSUME NEW i \in Jobs, NEW n \in DOMAIN clars[i],
             Respond(i, n) \/ RespondTooLate(i, n) \/ CancelClarification(i, n)
      PROVE  status'[j] # "NONE"
    BY <1>3, SMTT(30) DEF Respond, RespondTooLate, CancelClarification
<1>4. ASSUME ExpireDueClarifications PROVE status'[j] # "NONE"
    BY <1>4 DEF ExpireDueClarifications
<1>5. ASSUME UNCHANGED visible PROVE status'[j] # "NONE"
    BY <1>5 DEF visible
<1> QED
    BY <1>1, <1>2, <1>3, <1>4, <1>5, OthersInvisible, SMTT(30) DEF Next, Poll, EngineStep, ClarificationStep

\* cancel_analysis validates the status of a job that exists.
LEMMA ValidatedStep ==
    ASSUME IInv, Validated, [Next]_vars
    PROVE  Validated'
<1>1. ASSUME NEW c \in Clients, NEW j \in Jobs, CancelRead(c, j) PROVE Validated'
  <2>1. status[j] # "NONE"
    BY <1>1 DEF CancelRead, MayTransition, AnalysisJobStatus, ActiveStatuses,
       SafeStatuses, SideEffectStatuses, TerminalStates
  <2> QED
    BY <1>1, <2>1 DEF CancelRead, row, Validated, IInv, TypeOK
<1>2. ASSUME NEW c \in Clients, CancelWrite(c) PROVE Validated'
    BY <1>2, CreatedStays DEF CancelWrite, Validated, IInv, TypeOK
<1>3. ASSUME UNCHANGED cancelling PROVE Validated'
    BY <1>3, CreatedStays DEF Validated
<1>4. \/ \E c \in Clients : CancelWrite(c) \/ \E j \in Jobs : CancelRead(c, j)
      \/ UNCHANGED cancelling
  <2>1. ASSUME NEW w \in Workers, Poll(w) PROVE UNCHANGED cancelling
    BY <2>1, SMTT(30) DEF Poll, PollEmpty, PollMiss, Claim, Recover, TakeOver
  <2>2. ASSUME NEW w \in Workers, EngineStep(w) PROVE UNCHANGED cancelling
    BY <2>2 DEF EngineStep, StartEngine, Advance, DenyByPolicy,
       RequireClarification, ParkAttempt, RunTool, Reassert, Complete,
       PersistFailure, LoseOwnership
  <2>3. ASSUME NEW w \in Workers,
               \/ Fail(w) \/ Crash(w) \/ HeartbeatRenews(w)
               \/ HeartbeatFails(w) \/ HeartbeatCancels(w)
        PROVE  UNCHANGED cancelling
    BY <2>3 DEF Fail, Crash, HeartbeatRenews, HeartbeatFails, HeartbeatCancels
  <2>4. ASSUME \/ \E j \in Jobs : CreateAnalysis(j) \/ LeaseExpires(j)
               \/ ClarificationStep \/ UNCHANGED vars
        PROVE  UNCHANGED cancelling
    BY <2>4 DEF CreateAnalysis, LeaseExpires, ClarificationStep, Respond,
       RespondTooLate, CancelClarification, ClarificationDue,
       ExpireDueClarifications, vars
  <2> QED
    BY <2>1, <2>2, <2>3, <2>4 DEF Next
<1> QED
    BY <1>1, <1>2, <1>3, <1>4

------------------------------------------------------------------------------
(* Theorem *)

\* The mapped initial state: no job, nothing produced, nothing announced.
LEMMA InitRefines == Init => Lifecycle!Init
<1> SUFFICES ASSUME Init PROVE Lifecycle!Init
    OBVIOUS
<1>1. \A j \in Jobs : PhaseOf(status[j]) = "absent"
    BY PhaseTable DEF Init
<1>2. \A j \in Jobs : Told(outcomes[j]) = "nothing"
    BY FirstTold DEF Init
<1>3. \A j \in Jobs : ~(datasets[j] > 0)
    BY DEF Init
<1>4. \A j \in Jobs : snapshots[j] = {}
    BY DEF Init
<1>5. \A j \in Jobs : (datasets[j] > 0) = FALSE
    BY <1>3
<1>6. [j \in Jobs |-> datasets[j] > 0] = [j \in Jobs |-> FALSE]
    BY <1>5, Zenon
<1>7. [j \in Jobs |-> snapshots[j] # {}] = [j \in Jobs |-> FALSE]
  <2>1. \A j \in Jobs : (snapshots[j] # {}) = FALSE
    BY <1>4
  <2> QED
    BY <2>1, Zenon
<1> QED
    BY <1>1, <1>2, <1>6, <1>7 DEF Lifecycle!Init

\* AnalysisJobs implements AnalysisLifecycle.
THEOREM Refinement == Spec => ImplementsLifecycle
<1>1. Init => Tooled /\ Validated
    BY DEF Init, Tooled, Validated
<1>2. IInv /\ Tooled /\ Validated /\ [Next]_vars => Tooled' /\ Validated'
    BY TooledStep, ValidatedStep
<1>3. IInv /\ Tooled /\ Validated /\ [Next]_vars => [Lifecycle!Next]_(Lifecycle!lifecycle)
    BY StepRefines DEF Lifecycle!Next
<1> QED
    BY <1>1, <1>2, <1>3, InitRefines, Invariance, PTL
       DEF Spec, ImplementsLifecycle, Lifecycle!Spec

==============================================================================
