----------------------- MODULE ClarificationLocks_proofs -----------------------
(***************************************************************************)
(* A job and its clarification close together, a closed clarification      *)
(* stays as it is, and every deadlock is one of a batch with a client, for *)
(* any number of jobs, requests and expiry workers.                        *)
(***************************************************************************)
EXTENDS ClarificationLocks, TLAPS

\* Where a session is, and what it has to hold there.
Placed(s) ==
    /\ pc[s] # "idle" => target[s] \in Jobs
    /\ pc[s] = "wants_clar" => s \in Clients /\ joblock[target[s]] = s

\* The batch of an expirer: rows it has locked, while it is at work.
Batched(e) ==
    /\ pc[e] = "idle" => batch[e] = {}
    /\ pc[e] = "wants_job" => target[e] \in batch[e]
    /\ \A j \in batch[e] : clarlock[j] = e

\* Who can hold the lock of a job: a client that is at its clarification, or
\* an expirer that has the clarification's lock and is done with the job.
JobHeld(j) ==
    /\ joblock[j] \in Clients =>
           pc[joblock[j]] = "wants_clar" /\ target[joblock[j]] = j
    /\ joblock[j] \in Expirers =>
           clarlock[j] = joblock[j] /\ j \notin batch[joblock[j]]

\* Who can hold the lock of a clarification: an expirer, and it either has the
\* job's lock too or still has to get it.
ClarHeld(j) ==
    clarlock[j] # Nobody =>
        /\ clarlock[j] \in Expirers
        /\ j \in batch[clarlock[j]] \/ joblock[j] = clarlock[j]

Locking ==
    /\ \A s \in Sessions : Placed(s)
    /\ \A e \in Expirers : Batched(e)
    /\ \A j \in Jobs : JobHeld(j) /\ ClarHeld(j)

\* What a session has read under a lock is still so.
StillOpen(j) == clarlock[j] # Nobody => clar[j] = "AWAITING"
StillWaits(r) == pc[r] = "wants_clar" => job[target[r]] = "NEEDS_CLARIFICATION"

Reads ==
    /\ \A j \in Jobs : StillOpen(j)
    /\ \A r \in Responders : StillWaits(r)

IInv == TypeOK /\ Locking /\ Reads /\ ClosedTogether

LEMMA SessionSets ==
    /\ Clients \subseteq Sessions /\ Expirers \subseteq Sessions
    /\ Responders \subseteq Clients /\ Cancellers \subseteq Clients
    /\ Sessions = Clients \cup Expirers
    /\ Clients \cap Expirers = {}
    /\ Nobody \notin Sessions /\ Nobody \notin Jobs
  BY LocksAssumption DEF LocksAssumption, Sessions, Clients

------------------------------------------------------------------------------
(* Type correctness *)

LEMMA EndTypes ==
    ASSUME TypeOK, NEW s \in Sessions, End(s)
    PROVE  /\ joblock' \in [Jobs -> Sessions \cup {Nobody}]
           /\ clarlock' \in [Jobs -> Sessions \cup {Nobody}]
           /\ pc' \in [Sessions -> {"idle", "wants_job", "wants_clar"}]
           /\ target' \in [Sessions -> Jobs \cup {Nobody}]
           /\ batch' \in [Expirers -> SUBSET Jobs]
  BY DEF TypeOK, End

LEMMA SettleTypes ==
    ASSUME TypeOK, NEW c \in Sessions,
           NEW x \in {"UNDERSTANDING_REQUEST", "EXPIRED", "CANCELLED"},
           NEW y \in {"RECEIVED", "EXPIRED", "CANCELLED"},
           Settle(c, x, y)
    PROVE  TypeOK'
  <1>1. /\ job' \in [Jobs -> {"NEEDS_CLARIFICATION", "UNDERSTANDING_REQUEST",
                              "EXPIRED", "CANCELLED"}]
        /\ clar' \in [Jobs -> {"AWAITING", "RECEIVED", "EXPIRED", "CANCELLED"}]
        /\ due' \subseteq Jobs /\ cancelling' \subseteq Jobs
    BY DEF TypeOK, Settle
  <1>2. End(c)
    BY DEF Settle
  <1> QED
    BY <1>1, <1>2, EndTypes DEF TypeOK

LEMMA GoToTypes ==
    ASSUME TypeOK, NEW s \in Sessions, NEW p \in {"wants_job", "wants_clar"},
           NEW j \in Jobs \cup {Nobody}, GoTo(s, p, j)
    PROVE  /\ pc' \in [Sessions -> {"idle", "wants_job", "wants_clar"}]
           /\ target' \in [Sessions -> Jobs \cup {Nobody}]
  BY DEF TypeOK, GoTo

LEMMA BreakIsEnd ==
    ASSUME TypeOK, Locking, NEW e \in Expirers, BreakDeadlock(e)
    PROVE  UNCHANGED rows /\ \E s \in Sessions : End(s)
<1>1. Blocker(e) \in Sessions
  BY SessionSets DEF BreakDeadlock, Deadlocked, Blocker, TypeOK, Locking, Placed
<1> QED
  BY <1>1, SessionSets DEF BreakDeadlock

LEMMA TypeStep == TypeOK /\ Locking /\ [Next]_vars => TypeOK'
<1> SUFFICES ASSUME TypeOK, Locking, [Next]_vars PROVE TypeOK'
  OBVIOUS
<1> USE SessionSets
<1>1. ASSUME NEW j \in Jobs, BecomesDue(j) \/ CancelAnalysis(j) PROVE TypeOK'
  BY <1>1 DEF TypeOK, BecomesDue, CancelAnalysis, CancelRead, CancelWrite,
     CancelDies, locks, session
<1>2. ASSUME NEW c \in Clients, NEW j \in Jobs, Request(c, j) PROVE TypeOK'
  <2>1. /\ pc' \in [Sessions -> {"idle", "wants_job", "wants_clar"}]
        /\ target' \in [Sessions -> Jobs \cup {Nobody}]
    BY <1>2, GoToTypes DEF Request
  <2> QED
    BY <1>2, <2>1 DEF TypeOK, Request, rows, locks
<1>3. ASSUME NEW c \in Clients, LockJob(c) PROVE TypeOK'
  <2>1. target[c] \in Jobs \cup {Nobody}
    BY DEF TypeOK
  <2>2. /\ pc' \in [Sessions -> {"idle", "wants_job", "wants_clar"}]
        /\ target' \in [Sessions -> Jobs \cup {Nobody}]
    BY <1>3, <2>1, GoToTypes DEF LockJob
  <2>3. joblock' \in [Jobs -> Sessions \cup {Nobody}]
    BY <1>3 DEF TypeOK, LockJob
  <2> QED
    BY <1>3, <2>2, <2>3 DEF TypeOK, LockJob, rows
<1>4. ASSUME NEW s \in Sessions, End(s), UNCHANGED rows PROVE TypeOK'
  BY <1>4, EndTypes DEF TypeOK, rows
<1>5. ASSUME NEW c \in Clients, Respond(c) \/ Cancel(c) PROVE TypeOK'
  BY <1>5, SettleTypes DEF Respond, Cancel
<1>6. ASSUME NEW e \in Expirers, SelectDue(e) PROVE TypeOK'
  <2> PICK b \in SUBSET DueUnlocked :
        /\ clarlock' = [j \in Jobs |-> IF j \in b THEN e ELSE clarlock[j]]
        /\ batch' = [batch EXCEPT ![e] = b]
        /\ \E j \in b : GoTo(e, "wants_job", j)
    BY <1>6 DEF SelectDue
  <2>1. b \in SUBSET Jobs
    BY DEF DueUnlocked, TypeOK
  <2>2. /\ pc' \in [Sessions -> {"idle", "wants_job", "wants_clar"}]
        /\ target' \in [Sessions -> Jobs \cup {Nobody}]
    BY <2>1, GoToTypes
  <2> QED
    BY <1>6, <2>1, <2>2 DEF TypeOK, SelectDue, rows
<1>7. ASSUME NEW e \in Expirers, ExpireNext(e) PROVE TypeOK'
  <2>1. /\ pc' \in [Sessions -> {"idle", "wants_job", "wants_clar"}]
        /\ target' \in [Sessions -> Jobs \cup {Nobody}]
    BY <1>7, GoToTypes DEF ExpireNext, TypeOK
  <2>2. /\ joblock' \in [Jobs -> Sessions \cup {Nobody}]
        /\ batch' \in [Expirers -> SUBSET Jobs]
    BY <1>7 DEF TypeOK, ExpireNext
  <2> QED
    BY <1>7, <2>1, <2>2 DEF TypeOK, ExpireNext, rows
<1>8. ASSUME NEW e \in Expirers, CommitBatch(e) PROVE TypeOK'
  <2>1. /\ job' \in [Jobs -> {"NEEDS_CLARIFICATION", "UNDERSTANDING_REQUEST",
                              "EXPIRED", "CANCELLED"}]
        /\ clar' \in [Jobs -> {"AWAITING", "RECEIVED", "EXPIRED", "CANCELLED"}]
        /\ due' \subseteq Jobs /\ cancelling' \subseteq Jobs
    BY <1>8 DEF TypeOK, CommitBatch
  <2> QED
    BY <1>8, <2>1, EndTypes DEF TypeOK, CommitBatch
<1>9. ASSUME NEW c \in Clients, ClientStep(c) PROVE TypeOK'
  BY <1>9, <1>3, <1>4, <1>5 DEF ClientStep, Refuse, CancelRefused
<1>10. ASSUME NEW e \in Expirers, BreakDeadlock(e) PROVE TypeOK'
  BY <1>4, <1>10, BreakIsEnd
<1>11. ASSUME NEW s \in Sessions, Crash(s) PROVE TypeOK'
  BY <1>4, <1>11 DEF Crash
<1>12. CASE UNCHANGED vars
  BY <1>12 DEF TypeOK, vars, rows, locks, session
<1> QED
  BY <1>1, <1>2, <1>6, <1>7, <1>8, <1>9, <1>10, <1>11, <1>12 DEF Next, ExpirerStep

------------------------------------------------------------------------------
(* The locks *)

\* What a step does to the locks: nothing, all of a session's locks go, or one
\* of the four steps that take locks or ask for them.
LEMMA LockSteps ==
    ASSUME TypeOK, Locking, [Next]_vars
    PROVE  \/ UNCHANGED <<locks, session>>
           \/ \E s \in Sessions : End(s)
           \/ \E c \in Clients, j \in Jobs : Request(c, j)
           \/ \E c \in Clients : LockJob(c)
           \/ \E e \in Expirers : SelectDue(e) \/ ExpireNext(e)
<1> USE SessionSets
<1>1. ASSUME NEW j \in Jobs, BecomesDue(j) \/ CancelAnalysis(j)
      PROVE  UNCHANGED <<locks, session>>
  BY <1>1 DEF BecomesDue, CancelAnalysis, CancelRead, CancelWrite, CancelDies
<1>2. ASSUME NEW c \in Clients, ClientStep(c)
      PROVE  LockJob(c) \/ End(c)
  BY <1>2 DEF ClientStep, Refuse, Respond, Cancel, CancelRefused, Settle
<1>3. ASSUME NEW e \in Expirers, CommitBatch(e)
      PROVE  End(e)
  BY <1>3 DEF CommitBatch
<1>4. ASSUME NEW e \in Expirers, BreakDeadlock(e)
      PROVE  \E s \in Sessions : End(s)
  BY <1>4, BreakIsEnd
<1>5. ASSUME NEW s \in Sessions, Crash(s)
      PROVE  End(s)
  BY <1>5 DEF Crash
<1>6. CASE UNCHANGED vars
  BY <1>6 DEF vars
<1> QED
  BY <1>1, <1>2, <1>3, <1>4, <1>5, <1>6 DEF Next, ExpirerStep

\* A session that ends leaves the others with what they have.
LEMMA EndKeepsLocking ==
    ASSUME TypeOK, Locking, NEW s \in Sessions, End(s)
    PROVE  Locking'
<1> USE SessionSets
<1>1. ASSUME NEW q \in Sessions PROVE Placed(q)'
  BY <1>1 DEF TypeOK, Locking, Placed, End
<1>2. ASSUME NEW e \in Expirers PROVE Batched(e)'
  <2>1. Batched(e)
    BY DEF Locking
  <2>2. CASE e = s
    BY <2>2 DEF TypeOK, Batched, End
  <2>3. CASE e # s
    <3>1. pc'[e] = pc[e] /\ target'[e] = target[e] /\ batch'[e] = batch[e]
      BY <2>3 DEF TypeOK, End
    <3>2. \A j \in batch[e] : clarlock'[j] = e
      BY <2>1, <2>3 DEF TypeOK, Batched, End
    <3> QED
      BY <2>1, <3>1, <3>2 DEF Batched
  <2> QED
    BY <2>2, <2>3
<1>3. ASSUME NEW j \in Jobs PROVE JobHeld(j)'
  <2>1. JobHeld(j)
    BY DEF Locking
  <2>2. CASE joblock[j] = s
    BY <2>2 DEF End, JobHeld
  <2>3. CASE joblock[j] # s
    <3>1. joblock'[j] = joblock[j]
      BY <2>3 DEF End
    <3>2. ASSUME joblock[j] \in Clients
          PROVE  pc'[joblock[j]] = "wants_clar" /\ target'[joblock[j]] = j
      BY <2>1, <2>3, <3>2 DEF End, TypeOK, JobHeld
    <3>3. ASSUME joblock[j] \in Expirers
          PROVE  clarlock'[j] = joblock[j] /\ j \notin batch'[joblock[j]]
      BY <2>1, <2>3, <3>3 DEF End, TypeOK, JobHeld
    <3> QED
      BY <3>1, <3>2, <3>3 DEF JobHeld
  <2> QED
    BY <2>2, <2>3
<1>4. ASSUME NEW j \in Jobs PROVE ClarHeld(j)'
  <2>1. ClarHeld(j)
    BY DEF Locking
  <2>2. CASE clarlock[j] = s
    BY <2>2 DEF End, ClarHeld
  <2>3. CASE clarlock[j] # s /\ clarlock[j] # Nobody
    <3>1. clarlock'[j] = clarlock[j]
      BY <2>3 DEF End
    <3>2. clarlock[j] \in Expirers /\ batch'[clarlock[j]] = batch[clarlock[j]]
      BY <2>1, <2>3 DEF End, ClarHeld
    <3>3. joblock[j] = clarlock[j] => joblock'[j] = clarlock[j]
      BY <2>3 DEF End
    <3> QED
      BY <2>1, <2>3, <3>1, <3>2, <3>3 DEF ClarHeld
  <2>4. CASE clarlock[j] = Nobody
    BY <2>4 DEF End, ClarHeld
  <2> QED
    BY <2>2, <2>3, <2>4
<1> QED
  BY <1>1, <1>2, <1>3, <1>4 DEF Locking

LEMMA RequestKeepsLocking ==
    ASSUME TypeOK, Locking, NEW c \in Clients, NEW x \in Jobs, Request(c, x)
    PROVE  Locking'
<1> USE SessionSets
<1>1. pc' = [pc EXCEPT ![c] = "wants_job"] /\ target' = [target EXCEPT ![c] = x]
  BY DEF Request, GoTo
<1>2. pc[c] = "idle" /\ batch' = batch /\ joblock' = joblock /\ clarlock' = clarlock
  BY DEF Request, locks
<1>3. ASSUME NEW q \in Sessions PROVE Placed(q)'
  BY <1>1, <1>2, <1>3 DEF TypeOK, Locking, Placed
<1>4. ASSUME NEW e \in Expirers PROVE Batched(e)'
  <2>1. pc'[e] = pc[e] /\ target'[e] = target[e]
    BY <1>1, <1>4 DEF TypeOK
  <2> QED
    BY <1>2, <2>1 DEF Locking, Batched
<1>5. ASSUME NEW j \in Jobs PROVE JobHeld(j)' /\ ClarHeld(j)'
  <2>1. JobHeld(j) /\ ClarHeld(j)
    BY DEF Locking
  <2>2. joblock[j] \in Clients => joblock[j] # c
    BY <1>2, <2>1 DEF JobHeld
  <2> QED
    BY <1>1, <1>2, <2>1, <2>2 DEF TypeOK, JobHeld, ClarHeld
<1> QED
  BY <1>3, <1>4, <1>5 DEF Locking

LEMMA LockJobKeepsLocking ==
    ASSUME TypeOK, Locking, NEW c \in Clients, LockJob(c)
    PROVE  Locking'
<1> USE SessionSets
<1> DEFINE x == target[c]
<1>1. /\ pc[c] = "wants_job" /\ x \in Jobs /\ joblock[x] = Nobody
      /\ joblock' = [joblock EXCEPT ![x] = c]
      /\ pc' = [pc EXCEPT ![c] = "wants_clar"] /\ target' = target
      /\ batch' = batch /\ clarlock' = clarlock
  BY DEF LockJob, GoTo, Locking, Placed, TypeOK
<1> HIDE DEF x
<1>2. ASSUME NEW q \in Sessions PROVE Placed(q)'
  <2>1. Placed(q)
    BY DEF Locking
  <2>2. CASE q = c
    BY <1>1, <2>1, <2>2 DEF TypeOK, Placed, x
  <2>3. CASE q # c
    <3>1. pc'[q] = pc[q]
      BY <1>1, <2>3 DEF TypeOK
    <3>2. ASSUME pc[q] = "wants_clar" PROVE joblock'[target[q]] = q
      BY <1>1, <2>1, <3>2 DEF TypeOK, Placed
    <3> QED
      BY <1>1, <2>1, <3>1, <3>2 DEF Placed
  <2> QED
    BY <2>2, <2>3
<1>3. ASSUME NEW e \in Expirers PROVE Batched(e)'
  BY <1>1, <1>3 DEF TypeOK, Locking, Batched
<1>4. ASSUME NEW j \in Jobs PROVE JobHeld(j)'
  <2>1. JobHeld(j)
    BY DEF Locking
  <2>2. CASE j = x
    BY <1>1, <2>2 DEF TypeOK, JobHeld, x
  <2>3. CASE j # x
    <3>1. joblock'[j] = joblock[j]
      BY <1>1, <2>3 DEF TypeOK
    <3>2. ASSUME joblock[j] \in Clients PROVE pc'[joblock[j]] = "wants_clar"
      BY <1>1, <2>1, <3>2 DEF TypeOK, JobHeld
    <3> QED
      BY <1>1, <2>1, <3>1, <3>2 DEF JobHeld
  <2> QED
    BY <2>2, <2>3
<1>5. ASSUME NEW j \in Jobs PROVE ClarHeld(j)'
  <2>1. ClarHeld(j)
    BY DEF Locking
  <2>2. joblock[j] # Nobody => joblock'[j] = joblock[j]
    BY <1>1 DEF TypeOK
  <2> QED
    BY <1>1, <2>1, <2>2 DEF ClarHeld
<1> QED
  BY <1>2, <1>3, <1>4, <1>5 DEF Locking

LEMMA SelectKeepsLocking ==
    ASSUME TypeOK, Locking, NEW e \in Expirers, SelectDue(e)
    PROVE  Locking'
<1> USE SessionSets
<1> PICK b \in SUBSET DueUnlocked :
      /\ clarlock' = [j \in Jobs |-> IF j \in b THEN e ELSE clarlock[j]]
      /\ batch' = [batch EXCEPT ![e] = b]
      /\ \E j \in b : GoTo(e, "wants_job", j)
  BY DEF SelectDue
<1>1. b \subseteq Jobs /\ \A j \in b : clarlock[j] = Nobody
  BY DEF DueUnlocked, TypeOK
<1> PICK x \in b : GoTo(e, "wants_job", x)
  OBVIOUS
<1>2. /\ pc[e] = "idle" /\ joblock' = joblock
      /\ pc' = [pc EXCEPT ![e] = "wants_job"] /\ target' = [target EXCEPT ![e] = x]
  BY DEF SelectDue, GoTo
<1>3. ASSUME NEW q \in Sessions PROVE Placed(q)'
  BY <1>1, <1>2, <1>3 DEF TypeOK, Locking, Placed
<1>4. ASSUME NEW f \in Expirers PROVE Batched(f)'
  <2>1. Batched(f)
    BY DEF Locking
  <2>2. CASE f = e
    BY <1>1, <1>2, <2>2 DEF TypeOK, Batched
  <2>3. CASE f # e
    <3>1. pc'[f] = pc[f] /\ target'[f] = target[f] /\ batch'[f] = batch[f]
      BY <1>2, <1>4, <2>3 DEF TypeOK
    <3>2. \A j \in batch[f] : clarlock'[j] = f
      BY <1>1, <2>1 DEF TypeOK, Batched
    <3> QED
      BY <2>1, <3>1, <3>2 DEF Batched
  <2> QED
    BY <2>2, <2>3
<1>5. ASSUME NEW j \in Jobs PROVE JobHeld(j)'
  <2>1. JobHeld(j) /\ ClarHeld(j)
    BY DEF Locking
  <2>2. ASSUME joblock[j] \in Clients
        PROVE  pc'[joblock[j]] = "wants_clar" /\ target'[joblock[j]] = j
    BY <1>2, <2>1, <2>2 DEF TypeOK, JobHeld
  <2>3. ASSUME joblock[j] \in Expirers
        PROVE  clarlock'[j] = joblock[j] /\ j \notin batch'[joblock[j]]
    <3>1. clarlock[j] = joblock[j] /\ j \notin batch[joblock[j]] /\ j \notin b
      BY <1>1, <2>1, <2>3 DEF JobHeld
    <3> QED
      BY <2>3, <3>1 DEF TypeOK
  <2> QED
    BY <1>2, <2>2, <2>3 DEF JobHeld
<1>6. ASSUME NEW j \in Jobs PROVE ClarHeld(j)'
  <2>1. JobHeld(j) /\ ClarHeld(j)
    BY DEF Locking
  <2>2. CASE j \in b
    BY <2>2 DEF TypeOK, ClarHeld
  <2>3. CASE j \notin b
    <3>1. clarlock'[j] = clarlock[j]
      BY <2>3
    <3>2. ASSUME clarlock[j] = e PROVE joblock[j] = e
      BY <1>2, <2>1, <3>2 DEF ClarHeld, Locking, Batched
    <3>3. ASSUME clarlock[j] \in Expirers, clarlock[j] # e
          PROVE  batch'[clarlock[j]] = batch[clarlock[j]]
      BY <3>3 DEF TypeOK
    <3> QED
      BY <1>2, <2>1, <3>1, <3>2, <3>3 DEF ClarHeld
  <2> QED
    BY <2>2, <2>3
<1> QED
  BY <1>3, <1>4, <1>5, <1>6 DEF Locking

LEMMA ExpireNextKeepsLocking ==
    ASSUME TypeOK, Locking, NEW e \in Expirers, ExpireNext(e)
    PROVE  Locking'
<1> USE SessionSets
<1> DEFINE x == target[e]
           left == batch[e] \ {x}
<1> PICK k \in left : GoTo(e, "wants_job", k)
  BY DEF ExpireNext
<1>1. /\ pc[e] = "wants_job" /\ joblock[x] = Nobody
      /\ joblock' = [joblock EXCEPT ![x] = e]
      /\ batch' = [batch EXCEPT ![e] = left]
      /\ clarlock' = clarlock
      /\ pc' = [pc EXCEPT ![e] = "wants_job"] /\ target' = [target EXCEPT ![e] = k]
  BY DEF ExpireNext, GoTo
<1>2. x \in batch[e] /\ x \in Jobs /\ clarlock[x] = e /\ k \in Jobs /\ k \in batch[e]
  BY <1>1 DEF Locking, Batched, TypeOK
<1>3. x \notin left /\ left \subseteq batch[e] /\ k \in left
  OBVIOUS
<1>4. left \in SUBSET Jobs
  BY DEF TypeOK
<1>5. \A j \in batch[e] : j \in left \/ j = x
  OBVIOUS
<1> HIDE DEF x, left
<1>6. ASSUME NEW q \in Sessions PROVE Placed(q)'
  <2>1. Placed(q)
    BY DEF Locking
  <2>2. CASE q = e
    BY <1>1, <1>2, <2>2 DEF TypeOK, Placed
  <2>3. CASE q # e
    <3>1. pc'[q] = pc[q] /\ target'[q] = target[q]
      BY <1>1, <2>3 DEF TypeOK
    <3>2. ASSUME pc[q] = "wants_clar" PROVE joblock'[target[q]] = q
      BY <1>1, <2>1, <3>2 DEF TypeOK, Placed
    <3> QED
      BY <2>1, <3>1, <3>2 DEF Placed
  <2> QED
    BY <2>2, <2>3
<1>7. ASSUME NEW f \in Expirers PROVE Batched(f)'
  <2>1. Batched(f)
    BY DEF Locking
  <2>2. CASE f = e
    BY <1>1, <1>3, <2>1, <2>2 DEF TypeOK, Batched
  <2>3. CASE f # e
    BY <1>1, <2>1, <2>3 DEF TypeOK, Batched
  <2> QED
    BY <2>2, <2>3
<1>8. ASSUME NEW j \in Jobs PROVE JobHeld(j)'
  <2>1. JobHeld(j)
    BY DEF Locking
  <2>2. CASE j = x
    <3>1. joblock'[j] = e /\ batch'[e] = left
      BY <1>1, <1>2, <2>2 DEF TypeOK
    <3> QED
      BY <1>1, <1>2, <1>3, <2>2, <3>1 DEF JobHeld
  <2>3. CASE j # x
    <3>1. joblock'[j] = joblock[j]
      BY <1>1, <2>3 DEF TypeOK
    <3>2. ASSUME joblock[j] \in Clients
          PROVE  pc'[joblock[j]] = "wants_clar" /\ target'[joblock[j]] = j
      BY <1>1, <2>1, <3>2 DEF TypeOK, JobHeld
    <3>3. ASSUME joblock[j] \in Expirers
          PROVE  clarlock'[j] = joblock[j] /\ j \notin batch'[joblock[j]]
      <4>1. CASE joblock[j] = e
        BY <1>1, <1>3, <2>1, <3>3, <4>1 DEF TypeOK, JobHeld
      <4>2. CASE joblock[j] # e
        BY <1>1, <2>1, <3>3, <4>2 DEF TypeOK, JobHeld
      <4> QED
        BY <4>1, <4>2
    <3> QED
      BY <3>1, <3>2, <3>3 DEF JobHeld
  <2> QED
    BY <2>2, <2>3
<1>9. ASSUME NEW j \in Jobs PROVE ClarHeld(j)'
  <2>1. ClarHeld(j)
    BY DEF Locking
  <2>2. CASE clarlock[j] = e
    <3>1. batch'[e] = left
      BY <1>1 DEF TypeOK
    <3>2. joblock[j] = e => joblock'[j] = e
      BY <1>1 DEF TypeOK
    <3>3. joblock'[x] = e
      BY <1>1, <1>2 DEF TypeOK
    <3> QED
      BY <1>1, <1>5, <2>1, <2>2, <3>1, <3>2, <3>3 DEF ClarHeld
  <2>3. CASE clarlock[j] # e /\ clarlock[j] # Nobody
    <3>1. batch'[clarlock[j]] = batch[clarlock[j]]
      BY <1>1, <2>1, <2>3 DEF TypeOK, ClarHeld
    <3>2. joblock'[j] = joblock[j]
      BY <1>1, <1>2, <2>3 DEF TypeOK
    <3> QED
      BY <1>1, <2>1, <3>1, <3>2 DEF ClarHeld
  <2>4. CASE clarlock[j] = Nobody
    BY <1>1, <2>4 DEF ClarHeld
  <2> QED
    BY <2>2, <2>3, <2>4
<1> QED
  BY <1>6, <1>7, <1>8, <1>9 DEF Locking

LEMMA LockingStep == TypeOK /\ Locking /\ [Next]_vars => Locking'
<1> SUFFICES ASSUME TypeOK, Locking, [Next]_vars PROVE Locking'
  OBVIOUS
<1>1. CASE UNCHANGED <<locks, session>>
  BY <1>1 DEF Locking, Placed, Batched, JobHeld, ClarHeld, locks, session
<1> QED
  BY <1>1, LockSteps, EndKeepsLocking, RequestKeepsLocking, LockJobKeepsLocking,
     SelectKeepsLocking, ExpireNextKeepsLocking

------------------------------------------------------------------------------
(* The rows *)

\* A job that an expirer or a waiting client has locked is not written by
\* anybody else.
LEMMA HoldersAgree ==
    ASSUME TypeOK, Locking, Reads, NEW c \in Clients, LockedClar(c)
    PROVE  /\ target[c] \in Jobs
           /\ joblock[target[c]] = c
           /\ clarlock[target[c]] = Nobody
           /\ c \in Responders => job[target[c]] = "NEEDS_CLARIFICATION"
  BY SessionSets DEF LockedClar, Locking, Placed, Reads, StillWaits

\* No two responders have the lock of the same job.
LEMMA OneWaits ==
    ASSUME Locking, NEW q \in Clients, NEW r \in Clients, q # r,
           pc[q] = "wants_clar", pc[r] = "wants_clar"
    PROVE  target[q] # target[r]
  BY SessionSets DEF Locking, Placed

\* A client writes the job and the clarification it has locked.
LEMMA SettleKeepsRows ==
    ASSUME TypeOK, Locking, Reads, ClosedTogether,
           NEW c \in Clients, LockedClar(c), NEW x, NEW y, Settle(c, x, y),
           x = "CANCELLED" \/ <<x, y>> \in
               {<<"UNDERSTANDING_REQUEST", "RECEIVED">>, <<"EXPIRED", "EXPIRED">>}
    PROVE  Reads' /\ ClosedTogether'
<1> USE SessionSets
<1>1. /\ target[c] \in Jobs /\ joblock[target[c]] = c /\ clarlock[target[c]] = Nobody
      /\ pc[c] = "wants_clar"
  BY HoldersAgree DEF LockedClar
<1>2. End(c) /\ job' = [job EXCEPT ![target[c]] = x] /\ clar' = [clar EXCEPT ![target[c]] = y]
  BY DEF Settle
<1>3. ASSUME NEW j \in Jobs PROVE StillOpen(j)'
  <2>1. clarlock'[j] # Nobody => clarlock[j] # Nobody /\ j # target[c]
    BY <1>1, <1>2 DEF End
  <2>2. j # target[c] => clar'[j] = clar[j]
    BY <1>2 DEF TypeOK
  <2> QED
    BY <2>1, <2>2 DEF Reads, StillOpen
<1>4. ASSUME NEW r \in Responders, pc'[r] = "wants_clar"
      PROVE  job'[target'[r]] = "NEEDS_CLARIFICATION"
  <2>1. r # c /\ pc[r] = "wants_clar" /\ target'[r] = target[r]
    BY <1>2, <1>4 DEF End, TypeOK
  <2>2. target[r] # target[c] /\ target[r] \in Jobs
    BY <1>1, <2>1, OneWaits DEF Locking, Placed
  <2> QED
    BY <1>2, <2>1, <2>2 DEF TypeOK, Reads, StillWaits
<1>5. ASSUME NEW j \in Jobs
      PROVE  job'[j] = "CANCELLED" \/ <<job'[j], clar'[j]>> \in
               {<<"NEEDS_CLARIFICATION", "AWAITING">>,
                <<"UNDERSTANDING_REQUEST", "RECEIVED">>, <<"EXPIRED", "EXPIRED">>}
  <2>1. CASE j = target[c]
    BY <1>1, <1>2, <2>1 DEF TypeOK
  <2>2. CASE j # target[c]
    BY <1>2, <2>2 DEF TypeOK, ClosedTogether
  <2> QED
    BY <2>1, <2>2
<1> QED
  BY <1>3, <1>4, <1>5 DEF Reads, StillWaits, ClosedTogether

\* A batch writes the jobs and the clarifications it has locked.
LEMMA BatchKeepsRows ==
    ASSUME TypeOK, Locking, Reads, ClosedTogether,
           NEW e \in Expirers, CommitBatch(e)
    PROVE  Reads' /\ ClosedTogether'
<1> USE SessionSets
<1> DEFINE last == target[e]
           Ends(j) == j \in Expiring(e) \/ (j = last /\ job[j] \notin TerminalStates)
<1>1. /\ pc[e] = "wants_job" /\ batch[e] = {last} /\ joblock[last] = Nobody
      /\ \A j \in Jobs : job'[j] = IF Ends(j) THEN "EXPIRED" ELSE job[j]
      /\ \A j \in Jobs : clar'[j] = IF clarlock[j] = e THEN "EXPIRED" ELSE clar[j]
      /\ End(e)
  BY DEF CommitBatch
<1>2. last \in Jobs /\ clarlock[last] = e
  BY <1>1 DEF Locking, Batched, TypeOK
<1>3. ASSUME NEW j \in Jobs, clarlock[j] = e
      PROVE  joblock[j] = e \/ j = last
  BY <1>1, <1>3 DEF Locking, ClarHeld
<1>4. ASSUME NEW j \in Jobs, Ends(j)
      PROVE  clarlock[j] = e
  BY <1>2, <1>4 DEF Expiring, Locking, JobHeld
<1>5. ASSUME NEW j \in Jobs, Ends(j)
      PROVE  joblock[j] \notin Clients
  BY <1>1, <1>5 DEF Expiring
<1>6. ASSUME NEW j \in Jobs PROVE StillOpen(j)'
  <2>1. clarlock'[j] # Nobody => clarlock[j] # Nobody /\ clarlock[j] # e
    BY <1>1 DEF End
  <2> QED
    BY <1>1, <2>1 DEF Reads, StillOpen
<1>7. ASSUME NEW r \in Responders, pc'[r] = "wants_clar"
      PROVE  job'[target'[r]] = "NEEDS_CLARIFICATION"
  <2>1. r # e /\ pc[r] = "wants_clar" /\ target'[r] = target[r]
    BY <1>1, <1>7 DEF End, TypeOK
  <2>2. target[r] \in Jobs /\ joblock[target[r]] = r
    BY <2>1 DEF Locking, Placed
  <2>3. ~Ends(target[r])
    BY <1>5, <2>2
  <2> QED
    BY <1>1, <2>1, <2>2, <2>3 DEF Reads, StillWaits
<1>8. ASSUME NEW j \in Jobs
      PROVE  job'[j] = "CANCELLED" \/ <<job'[j], clar'[j]>> \in
               {<<"NEEDS_CLARIFICATION", "AWAITING">>,
                <<"UNDERSTANDING_REQUEST", "RECEIVED">>, <<"EXPIRED", "EXPIRED">>}
  <2>1. CASE clarlock[j] = e
    <3>1. clar[j] = "AWAITING"
      BY <2>1 DEF Reads, StillOpen
    <3>2. job[j] = "CANCELLED" \/ job[j] = "NEEDS_CLARIFICATION"
      BY <3>1 DEF ClosedTogether
    <3>3. job[j] = "NEEDS_CLARIFICATION" => Ends(j)
      BY <1>3, <2>1 DEF Expiring, TerminalStates
    <3> QED
      BY <1>1, <2>1, <3>2, <3>3
  <2>2. CASE clarlock[j] # e
    <3>1. ~Ends(j)
      BY <1>4, <2>2
    <3> QED
      BY <1>1, <2>2, <3>1 DEF ClosedTogether
  <2> QED
    BY <2>1, <2>2
<1> QED
  BY <1>6, <1>7, <1>8 DEF Reads, StillWaits, ClosedTogether

\* A session that ends without a write.
LEMMA EndKeepsRows ==
    ASSUME TypeOK, Reads, ClosedTogether, NEW s \in Sessions, End(s), UNCHANGED rows
    PROVE  Reads' /\ ClosedTogether'
<1>1. \A j \in Jobs : clarlock'[j] # Nobody => clarlock[j] # Nobody
  BY DEF End
<1>2. \A r \in Sessions : pc'[r] = "wants_clar" =>
          pc[r] = "wants_clar" /\ target'[r] = target[r]
  BY DEF End, TypeOK
<1> QED
  BY <1>1, <1>2, SessionSets DEF Reads, StillOpen, StillWaits, ClosedTogether, rows

LEMMA RowsStep == TypeOK /\ Locking /\ Reads /\ ClosedTogether /\ [Next]_vars
                      => Reads' /\ ClosedTogether'
<1> SUFFICES ASSUME TypeOK, Locking, Reads, ClosedTogether, [Next]_vars
             PROVE  Reads' /\ ClosedTogether'
  OBVIOUS
<1> USE SessionSets
<1>1. ASSUME NEW j \in Jobs, BecomesDue(j) PROVE Reads' /\ ClosedTogether'
  BY <1>1 DEF BecomesDue, Reads, StillOpen, StillWaits, ClosedTogether, locks, session
<1>2. ASSUME NEW j \in Jobs, CancelWrite(j) PROVE Reads' /\ ClosedTogether'
  <2>1. joblock[j] = Nobody /\ job' = [job EXCEPT ![j] = "CANCELLED"]
    BY <1>2 DEF CancelWrite
  <2>2. clar' = clar /\ clarlock' = clarlock /\ pc' = pc /\ target' = target
    BY <1>2 DEF CancelWrite, locks, session
  <2>3. ASSUME NEW r \in Responders, pc[r] = "wants_clar"
        PROVE  job'[target[r]] = "NEEDS_CLARIFICATION"
    <3>1. target[r] # j /\ target[r] \in Jobs
      BY <2>1, <2>3 DEF Locking, Placed
    <3> QED
      BY <2>1, <2>3, <3>1 DEF Reads, StillWaits, TypeOK
  <2>4. ClosedTogether'
    BY <2>1, <2>2 DEF ClosedTogether, TypeOK
  <2> QED
    BY <2>2, <2>3, <2>4 DEF Reads, StillOpen, StillWaits
<1>13. ASSUME NEW j \in Jobs, CancelRead(j) \/ CancelDies(j)
       PROVE  Reads' /\ ClosedTogether'
  BY <1>13 DEF CancelRead, CancelDies, Reads, StillOpen, StillWaits,
     ClosedTogether, locks, session
<1>3. ASSUME NEW c \in Clients, NEW j \in Jobs, Request(c, j)
      PROVE  Reads' /\ ClosedTogether'
  <2>1. UNCHANGED rows /\ clarlock' = clarlock
    BY <1>3 DEF Request, locks
  <2>2. \A r \in Sessions : pc'[r] = "wants_clar" =>
            pc[r] = "wants_clar" /\ target'[r] = target[r]
    BY <1>3 DEF Request, GoTo, TypeOK
  <2> QED
    BY <2>1, <2>2 DEF Reads, StillOpen, StillWaits, ClosedTogether, rows
<1>4. ASSUME NEW c \in Clients, LockJob(c) PROVE Reads' /\ ClosedTogether'
  <2>1. UNCHANGED rows /\ clarlock' = clarlock /\ target' = target
    BY <1>4 DEF LockJob, GoTo, TypeOK
  <2>2. ASSUME NEW r \in Responders, pc'[r] = "wants_clar"
        PROVE  job[target[r]] = "NEEDS_CLARIFICATION"
    <3>1. CASE r = c
      BY <1>4, <3>1 DEF LockJob, MayProceed
    <3>2. CASE r # c
      BY <1>4, <2>2, <3>2 DEF LockJob, GoTo, TypeOK, Reads, StillWaits
    <3> QED
      BY <3>1, <3>2
  <2> QED
    BY <2>1, <2>2 DEF Reads, StillOpen, StillWaits, ClosedTogether, rows
<1>5. ASSUME NEW c \in Clients, Respond(c) PROVE Reads' /\ ClosedTogether'
  BY <1>5, SettleKeepsRows DEF Respond
<1>6. ASSUME NEW c \in Clients, Cancel(c) PROVE Reads' /\ ClosedTogether'
  BY <1>6, SettleKeepsRows DEF Cancel
<1>7. ASSUME NEW c \in Clients, Refuse(c) \/ CancelRefused(c)
      PROVE  Reads' /\ ClosedTogether'
  BY <1>7, EndKeepsRows DEF Refuse, CancelRefused
<1>8. ASSUME NEW e \in Expirers, SelectDue(e) PROVE Reads' /\ ClosedTogether'
  <2> PICK b \in SUBSET DueUnlocked :
        /\ clarlock' = [j \in Jobs |-> IF j \in b THEN e ELSE clarlock[j]]
        /\ \E j \in b : GoTo(e, "wants_job", j)
    BY <1>8 DEF SelectDue
  <2>1. UNCHANGED rows
    BY <1>8 DEF SelectDue
  <2>2. \A j \in Jobs : j \in b => clar[j] = "AWAITING"
    BY DEF DueUnlocked
  <2>3. \A r \in Responders : pc'[r] = pc[r] /\ target'[r] = target[r]
    BY DEF GoTo, TypeOK
  <2> QED
    BY <2>1, <2>2, <2>3 DEF Reads, StillOpen, StillWaits, ClosedTogether, rows
<1>9. ASSUME NEW e \in Expirers, ExpireNext(e) PROVE Reads' /\ ClosedTogether'
  <2>1. UNCHANGED rows /\ clarlock' = clarlock
    BY <1>9 DEF ExpireNext
  <2>2. \A r \in Responders : pc'[r] = pc[r] /\ target'[r] = target[r]
    BY <1>9 DEF ExpireNext, GoTo, TypeOK
  <2> QED
    BY <2>1, <2>2 DEF Reads, StillOpen, StillWaits, ClosedTogether, rows
<1>10. ASSUME NEW e \in Expirers, BreakDeadlock(e) PROVE Reads' /\ ClosedTogether'
  BY <1>10, BreakIsEnd, EndKeepsRows
<1>11. ASSUME NEW s \in Sessions, Crash(s) PROVE Reads' /\ ClosedTogether'
  BY <1>11, EndKeepsRows DEF Crash
<1>12. CASE UNCHANGED vars
  BY <1>12 DEF Reads, StillOpen, StillWaits, ClosedTogether, vars, rows, locks, session
<1> QED
  BY <1>1, <1>2, <1>3, <1>4, <1>5, <1>6, <1>7, <1>8, <1>9, <1>10, <1>11, <1>12,
     <1>13, BatchKeepsRows DEF Next, ClientStep, ExpirerStep, CancelAnalysis

------------------------------------------------------------------------------
(* The theorems *)

LEMMA InitHolds == Init => IInv
  BY SessionSets DEF Init, IInv, TypeOK, Locking, Placed, Batched, JobHeld, ClarHeld,
     Reads, StillOpen, StillWaits, ClosedTogether

\* What the sessions of ClarificationService hold and have read in every state.
THEOREM Invariance == Spec => []IInv
<1>1. IInv /\ [Next]_vars => IInv'
  BY TypeStep, LockingStep, RowsStep DEF IInv
<1> QED
  BY InitHolds, <1>1, PTL DEF Spec

\* Type correctness of the rows, their locks and the sessions.
THEOREM LocksTyped == Spec => []TypeOK
  BY Invariance, PTL DEF IInv

\* respond, cancel and expire_due_clarifications close a clarification and its
\* job together, whichever gets both rows.
THEOREM CloseTogether == Spec => []ClosedTogether
  BY Invariance, PTL DEF IInv

\* No session rewrites the closing of a clarification, also if it decided on
\* its write before it waited for the row.
THEOREM ClosedIsFinal == Spec => ClosedStays
<1>1. IInv /\ [Next]_vars => [ClosedStaysStep]_vars
  <2> SUFFICES ASSUME IInv, Next, NEW j \in Jobs, clar[j] # "AWAITING"
               PROVE  clar'[j] = clar[j]
    BY DEF ClosedStaysStep
  <2> USE SessionSets
  <2>1. ASSUME NEW c \in Clients, Respond(c) PROVE clar'[j] = clar[j]
    BY <2>1 DEF Respond, Settle, IInv, TypeOK
  <2>2. ASSUME NEW c \in Clients, Cancel(c) PROVE clar'[j] = clar[j]
    BY <2>2 DEF Cancel, Settle, IInv, TypeOK
  <2>3. ASSUME NEW e \in Expirers, CommitBatch(e) PROVE clar'[j] = clar[j]
    <3>1. clarlock[j] # e
      BY DEF IInv, Reads, StillOpen
    <3> QED
      BY <2>3, <3>1 DEF CommitBatch
  <2>4. CASE UNCHANGED clar
    BY <2>4
  <2> QED
    BY <2>1, <2>2, <2>3, <2>4 DEF Next, ClientStep, ExpirerStep, BecomesDue,
       CancelAnalysis, CancelRead, CancelWrite, CancelDies,
       Request, LockJob, Refuse, CancelRefused, SelectDue, ExpireNext,
       BreakDeadlock, Crash, rows
<1> QED
  BY <1>1, Invariance, PTL DEF Spec, ClosedStays

\* An expirer that waits is blocked by a client that waits for it.
LEMMA ExpirerMeetsClient ==
    ASSUME IInv, NEW e \in Expirers, Blocker(e) # Nobody
    PROVE  Blocker(e) \in Clients /\ Deadlocked(e)
<1> USE SessionSets
<1> DEFINE t == target[e]
           c == joblock[t]
<1>1. pc[e] = "wants_job" /\ Blocker(e) = c
  <2>1. pc[e] # "wants_clar"
    BY DEF IInv, Locking, Placed
  <2> QED
    BY <2>1 DEF Blocker
<1>2. t \in Jobs /\ t \in batch[e] /\ clarlock[t] = e
  BY <1>1 DEF IInv, Locking, Placed, Batched
<1>3. c \in Sessions
  BY <1>1, <1>2 DEF IInv, TypeOK
<1>4. c \notin Expirers
  BY <1>2 DEF IInv, Locking, JobHeld
<1>5. c \in Clients /\ pc[c] = "wants_clar" /\ target[c] = t
  BY <1>2, <1>3, <1>4 DEF IInv, Locking, JobHeld
<1>6. Blocker(c) = e
  BY <1>2, <1>5 DEF Blocker
<1> QED
  BY <1>1, <1>5, <1>6 DEF Deadlocked

\* A client that waits for ever waits for an expirer, or for a client that does.
LEMMA ClientsLeadToExpirer ==
    ASSUME IInv, NEW C \in SUBSET Sessions, \A s \in C : Blocker(s) \in C,
           NEW c \in C
    PROVE  \E e \in C : e \in Expirers
<1> USE SessionSets
<1>1. ASSUME NEW s \in C, s \in Clients, pc[s] = "wants_clar"
      PROVE  Blocker(s) \in C /\ Blocker(s) \in Expirers
  <2>1. Blocker(s) = clarlock[target[s]] /\ Blocker(s) \in C
    BY <1>1 DEF Blocker
  <2>2. target[s] \in Jobs /\ clarlock[target[s]] # Nobody
    BY <1>1, <2>1 DEF IInv, Locking, Placed
  <2> QED
    BY <2>1, <2>2 DEF IInv, Locking, ClarHeld
<1>2. CASE c \in Expirers
  BY <1>2
<1>3. CASE c \in Clients /\ pc[c] = "wants_clar"
  BY <1>1, <1>3
<1>4. CASE c \in Clients /\ pc[c] = "wants_job"
  <2>1. Blocker(c) = joblock[target[c]] /\ Blocker(c) \in C /\ target[c] \in Jobs
    BY <1>4 DEF Blocker, IInv, Locking, Placed
  <2>2. Blocker(c) \in Clients => pc[Blocker(c)] = "wants_clar"
    BY <2>1 DEF IInv, Locking, JobHeld
  <2> QED
    BY <1>1, <2>1, <2>2
<1>5. pc[c] \in {"wants_job", "wants_clar"}
  <2>1. Blocker(c) # Nobody
    OBVIOUS
  <2> QED
    BY <2>1 DEF Blocker, IInv, TypeOK
<1> QED
  BY <1>2, <1>3, <1>4, <1>5

\* Sessions that wait for one another include a batch and a client that wait
\* for each other: one abort by the detector lets them go on.
THEOREM DeadlocksAreOfTwo == Spec => []DeadlocksArePairs
<1>1. IInv => DeadlocksArePairs
  <2> SUFFICES ASSUME IInv, NEW C \in SUBSET Sessions, C # {},
                      \A s \in C : Blocker(s) \in C
               PROVE  \E e \in C \cap Expirers : Deadlocked(e) /\ Blocker(e) \in Clients
    BY DEF DeadlocksArePairs
  <2> PICK c \in C : TRUE
    OBVIOUS
  <2> PICK e \in C : e \in Expirers
    BY ClientsLeadToExpirer
  <2>1. Blocker(e) # Nobody
    BY SessionSets
  <2> QED
    BY <2>1, ExpirerMeetsClient
<1> QED
  BY <1>1, Invariance, PTL

------------------------------------------------------------------------------
(* The refinement of ClarificationSteps *)

\* A clarification that a batch has locked is due, and stays so.
DueIfLocked == \A j \in Jobs : clarlock[j] # Nobody => j \in due

LEMMA SameTable ==
    ASSUME NEW from, NEW to
    PROVE  MayTransition(from, to) <=> OneByOne!MayTransition(from, to)
  BY DEF MayTransition, TerminalStates, AnalysisJobStatus, ValidTransitions,
     ActiveStatuses, SafeStatuses, SideEffectStatuses,
     OneByOne!MayTransition, OneByOne!TerminalStates,
     OneByOne!AnalysisJobStatus, OneByOne!ValidTransitions,
     OneByOne!ActiveStatuses, OneByOne!SafeStatuses,
     OneByOne!SideEffectStatuses

LEMMA DueStep ==
    ASSUME TypeOK, Locking, DueIfLocked, [Next]_vars
    PROVE  DueIfLocked'
<1> USE SessionSets DEF DueIfLocked
<1>1. CASE UNCHANGED <<clarlock, due>>
  BY <1>1
<1>2. ASSUME NEW j \in Jobs, BecomesDue(j) PROVE DueIfLocked'
  BY <1>2 DEF BecomesDue, locks
<1>3. ASSUME NEW s \in Sessions, End(s), UNCHANGED due PROVE DueIfLocked'
  BY <1>3 DEF End
<1>4. ASSUME NEW e \in Expirers, SelectDue(e) PROVE DueIfLocked'
  BY <1>4 DEF SelectDue, DueUnlocked, rows
<1>5. ASSUME NEW e \in Expirers, BreakDeadlock(e) PROVE DueIfLocked'
  BY <1>3, <1>5, BreakIsEnd DEF rows
<1> QED
  BY <1>1, <1>2, <1>3, <1>4, <1>5
  DEF Next, ClientStep, ExpirerStep, CancelAnalysis, CancelRead, CancelWrite,
      CancelDies, Request, LockJob, Refuse,
      CancelRefused, Respond, Cancel, Settle, ExpireNext, CommitBatch, Crash,
      rows, locks, session, vars

\* A client finds the two rows as one step would, however long it has waited
\* for the second.
LEMMA ClientRefines ==
    ASSUME IInv, NEW c \in Clients,
           \/ c \in Responders /\ Respond(c)
           \/ c \in Cancellers /\ Cancel(c)
    PROVE  OneByOne!Next
<1> USE SessionSets
<1>1. PICK j \in Jobs : j = target[c] /\ (c \in Responders => job[j] = "NEEDS_CLARIFICATION")
  BY HoldersAgree DEF Respond, Cancel, IInv
<1>2. CASE c \in Responders /\ Respond(c)
  <2>1. OneByOne!Respond(j)
    BY <1>1, <1>2 DEF Respond, Settle, OneByOne!Respond, OneByOne!Close
  <2> QED
    BY <2>1 DEF OneByOne!Next
<1>3. CASE c \in Cancellers /\ Cancel(c)
  <2>1. job[j] # "CANCELLED"
    BY <1>1, <1>3 DEF Cancel, MayTransition, TerminalStates
  <2>2. clar[j] = "AWAITING"
    BY <1>1, <1>3, <2>1 DEF Cancel, IInv, ClosedTogether
  <2>3. OneByOne!MayTransition(job[j], "CANCELLED")
    BY <1>1, <1>3, SameTable DEF Cancel
  <2>4. OneByOne!Cancel(j)
    BY <1>1, <1>3, <2>2, <2>3 DEF Cancel, Settle, OneByOne!Cancel, OneByOne!Close
  <2> QED
    BY <2>4 DEF OneByOne!Next
<1> QED
  BY <1>2, <1>3

\* So does a batch: what it has locked is still open and due when it commits.
LEMMA BatchRefines ==
    ASSUME IInv, DueIfLocked, NEW e \in Expirers, CommitBatch(e)
    PROVE  OneByOne!Next
<1> USE SessionSets
<1> DEFINE last == target[e]
           Ends(j) == j \in Expiring(e) \/ (j = last /\ job[j] \notin TerminalStates)
           closed == {j \in Jobs : clarlock[j] = e}
<1>1. /\ pc[e] = "wants_job" /\ batch[e] = {last}
      /\ due' = due /\ cancelling' = cancelling
      /\ job' = [j \in Jobs |-> IF Ends(j) THEN "EXPIRED" ELSE job[j]]
      /\ clar' = [j \in Jobs |-> IF j \in closed THEN "EXPIRED" ELSE clar[j]]
  BY DEF CommitBatch
<1>2. last \in Jobs /\ clarlock[last] = e
  BY <1>1 DEF IInv, Locking, Batched, TypeOK
<1>3. ASSUME NEW j \in Jobs, j \in closed
      PROVE  /\ j \in due /\ clar[j] = "AWAITING"
             /\ job[j] \in {"NEEDS_CLARIFICATION", "CANCELLED"}
             /\ joblock[j] = e \/ j = last
  BY <1>1, <1>3 DEF DueIfLocked, IInv, Reads, StillOpen, ClosedTogether, Locking, ClarHeld
<1>4. ASSUME NEW j \in Jobs
      PROVE  Ends(j) <=> j \in closed /\ job[j] = "NEEDS_CLARIFICATION"
  <2>1. Ends(j) => j \in closed
    BY <1>2 DEF Expiring, IInv, Locking, JobHeld
  <2>2. Ends(j) => job[j] # "CANCELLED"
    BY DEF Expiring, TerminalStates
  <2>3. j \in closed /\ job[j] = "NEEDS_CLARIFICATION" => Ends(j)
    BY <1>3 DEF Expiring, TerminalStates
  <2> QED
    BY <1>3, <2>1, <2>2, <2>3
<1>5. OneByOne!Expire(closed)
  <2>1. PICK b \in SUBSET Jobs : b = closed
    OBVIOUS
  <2>2. job' = [j \in Jobs |-> IF j \in b /\ job[j] = "NEEDS_CLARIFICATION"
                               THEN "EXPIRED" ELSE job[j]]
    BY <1>1, <1>4, <2>1
  <2>3. clar' = [j \in Jobs |-> IF j \in b THEN "EXPIRED" ELSE clar[j]]
    BY <1>1, <2>1
  <2>4. OneByOne!Expire(b)
    BY <1>1, <1>3, <2>1, <2>2, <2>3 DEF OneByOne!Expire
  <2> QED
    BY <2>1, <2>4
<1> QED
  BY <1>5 DEF OneByOne!Next

\* Every step of a session is one of the handlers' steps or changes no row.
LEMMA RefinementStep ==
    ASSUME IInv, DueIfLocked, [Next]_vars
    PROVE  [OneByOne!Next]_(OneByOne!rows)
<1> USE SessionSets
<1>1. CASE UNCHANGED rows
  BY <1>1 DEF rows, OneByOne!rows
<1>2. ASSUME NEW j \in Jobs, BecomesDue(j) PROVE OneByOne!Next
  BY <1>2 DEF BecomesDue, OneByOne!BecomesDue, OneByOne!Next
<1>3. ASSUME NEW j \in Jobs, CancelAnalysis(j) PROVE OneByOne!Next
  <2>1. CASE CancelRead(j)
    <3>1. OneByOne!Doom(j)
      BY <2>1, SameTable DEF CancelRead, OneByOne!Doom
    <3> QED
      BY <3>1 DEF OneByOne!Next
  <2>2. CASE CancelWrite(j)
    BY <2>2 DEF CancelWrite, OneByOne!CancelAnalysis, OneByOne!Next
  <2>3. CASE CancelDies(j)
    BY <2>3 DEF CancelDies, OneByOne!Spare, OneByOne!Next
  <2> QED
    BY <1>3, <2>1, <2>2, <2>3 DEF CancelAnalysis
<1>4. ASSUME NEW c \in Clients, ClientStep(c)
      PROVE  UNCHANGED rows \/ OneByOne!Next
  BY <1>4, ClientRefines DEF ClientStep, LockJob, Refuse, CancelRefused
<1>5. ASSUME NEW e \in Expirers, ExpirerStep(e)
      PROVE  UNCHANGED rows \/ OneByOne!Next
  BY <1>5, BatchRefines DEF ExpirerStep, ExpireNext
<1>6. ASSUME NEW e \in Expirers, SelectDue(e) \/ BreakDeadlock(e)
      PROVE  UNCHANGED rows
  BY <1>6 DEF SelectDue, BreakDeadlock
<1>7. ASSUME NEW c \in Clients, NEW j \in Jobs, Request(c, j)
      PROVE  UNCHANGED rows
  BY <1>7 DEF Request
<1>8. ASSUME NEW s \in Sessions, Crash(s) PROVE UNCHANGED rows
  BY <1>8 DEF Crash
<1>9. CASE UNCHANGED vars
  BY <1>1, <1>9 DEF vars
<1> QED
  BY <1>1, <1>2, <1>3, <1>4, <1>5, <1>6, <1>7, <1>8, <1>9 DEF Next

\* The handlers of ClarificationService, which lock the two rows one after the
\* other and in crossed orders, change them as if they ran one at a time.
THEOREM Refinement == Spec => ImplementsSteps
<1>1. Init => OneByOne!Init /\ DueIfLocked
  BY DEF Init, OneByOne!Init, DueIfLocked
<1>2. IInv /\ DueIfLocked /\ [Next]_vars =>
          DueIfLocked' /\ [OneByOne!Next]_(OneByOne!rows)
  BY DueStep, RefinementStep DEF IInv
<1> QED
  BY <1>1, <1>2, Invariance, PTL DEF Spec, ImplementsSteps, OneByOne!Spec

==============================================================================
