---------------------------- MODULE Uploads_proofs ----------------------------
(* The content of every finalized upload stays in the store, for any number  *)
(* of uploads, contents, concurrent requests, faults and reconciliations.    *)
EXTENDS FactExtraction, FiniteSetTheorems, SequenceTheorems, TLAPS

(* The object that stands for a content is that of a finalized session with  *)
(* this content, and only a compensation removes it.                         *)
Known(c) ==
    canonical[c] # NoSession =>
        /\ canonical[c] \in Sessions /\ Content[canonical[c]] = c
        /\ session[canonical[c]] = "FINALIZED"
        /\ canonical[c] \in stored \cup undone

(* A finalized session has made its content known.                           *)
Finalized(s) == session[s] = "FINALIZED" => canonical[Content[s]] # NoSession

(* What a request may rely on at each point, and what it deletes at the end  *)
(* is never what stands for the content.                                     *)
Holds(r) ==
    /\ pc[r] # "idle" => target[r] \in Sessions
    /\ pc[r] \in InTransaction =>
           session[target[r]] = "UPLOADED" /\ target[r] \in stored \cup undone
    /\ HasRow(r) => dup[r] = (canonical[Content[target[r]]] # NoSession)
    /\ pc[r] = "cleanup" =>
           /\ session[target[r]] = "FINALIZED"
           /\ canonical[Content[target[r]]] # target[r]

(* The row locks of the session and of the content.                          *)
Exclusive ==
    \A q, r \in Requests : q # r =>
        /\ pc[q] \in InTransaction /\ pc[r] \in InTransaction =>
               target[q] # target[r]
        /\ HasRow(q) /\ HasRow(r) => Content[target[q]] # Content[target[r]]

Kept == /\ \A c \in Contents : Known(c)
        /\ \A s \in Sessions : Finalized(s)
        /\ \A r \in Requests : Holds(r)
        /\ Exclusive

(* The count of references, and what a reconciliation has counted, are of    *)
(* versions that exist.                                                      *)
Counted(c) ==
    /\ canonical[c] # NoSession => 1 <= count[c]
    /\ count[c] <= Cardinality(Versions(c))
    /\ counted[c] <= Cardinality(Versions(c))
    /\ reconciles = 0 => count[c] = Cardinality(Versions(c)) /\ counted[c] = 0

Counts == \A c \in Contents : Counted(c)

IInv == TypeOK /\ Kept /\ Counts

LEMMA ContentOf == \A s \in Sessions : Content[s] \in Contents
  BY UploadAssumption DEF UploadAssumption

LEMMA FilingNames == \A s \in Sessions : Filing[s] \in Seq(Names)
<1> SUFFICES ASSUME NEW s \in Sessions PROVE Filing[s] \in Seq(Names)
  OBVIOUS
<1>1. Filing[s] \in {<<>>} \cup (Institutions \X Periods)
  BY UploadAssumption DEF UploadAssumption
<1>2. CASE Filing[s] = <<>>
  BY <1>2
<1>3. CASE Filing[s] \in Institutions \X Periods
  <2>1. PICK i \in Institutions, q \in Periods : Filing[s] = <<i, q>>
    BY <1>3
  <2>2. i \in Names /\ q \in Names
    BY DEF Names
  <2> HIDE DEF Names
  <2>3. <<i, q>> \in Seq(Names)
    BY <2>2
  <2> QED
    BY <2>1, <2>3
<1> QED
  BY <1>1, <1>2, <1>3

-----------------------------------------------------------------------------
(* Type correctness.                                                         *)

LEMMA FaultTypes == faults \in 0..MaxFaults /\ Fault => faults' \in 0..MaxFaults
  BY UploadAssumption DEF UploadAssumption, Fault

LEMMA VersionsCounted == \A c \in Contents : Cardinality(Versions(c)) \in Nat
<1> SUFFICES ASSUME NEW c \in Contents PROVE Cardinality(Versions(c)) \in Nat
  OBVIOUS
<1>1. Versions(c) \subseteq Sessions /\ IsFiniteSet(Sessions)
  BY UploadAssumption DEF Versions, UploadAssumption
<1> QED
  BY <1>1, FS_Subset, FS_CardinalityType

(* A step of a request leaves every other one as it is.                      *)
Same(q) == /\ pc'[q] = pc[q] /\ target'[q] = target[q] /\ dup'[q] = dup[q]
           /\ todo'[q] = todo[q] /\ inserted'[q] = inserted[q]

RequestTypes ==
    /\ pc \in [Requests -> PC]
    /\ target \in [Requests -> Sessions \cup {NoSession}]
    /\ dup \in [Requests -> BOOLEAN]
    /\ todo \in [Requests -> Seq(Names)]
    /\ inserted \in [Requests -> SUBSET Names]

(* A request that is done with, or that raises.                              *)
LEMMA Leaving ==
    ASSUME TypeOK, NEW r \in Requests, End(r) \/ Raise(r)
    PROVE  /\ \A q \in Requests \ {r} : Same(q)
           /\ pc'[r] \in {"idle", "failed"}
           /\ Raise(r) => pc'[r] = "failed"
           /\ End(r) => pc'[r] = "idle"
           /\ pc'[r] = "failed" => target'[r] = target[r] /\ dup'[r] = dup[r]
           /\ todo'[r] = <<>> /\ inserted'[r] = {}
           /\ RequestTypes'
<1> DEFINE none == <<>>
<1>0. none \in Seq(Names)
  OBVIOUS
<1> HIDE DEF none
<1>1. CASE End(r)
  <2>1. todo' = [todo EXCEPT ![r] = none]
    BY <1>1 DEF End, none
  <2>2. todo' \in [Requests -> Seq(Names)] /\ todo'[r] = none
    BY <1>0, <2>1 DEF TypeOK
  <2>3. \A q \in Requests \ {r} : todo'[q] = todo[q]
    BY <2>1 DEF TypeOK
  <2> QED
    BY <1>1, <2>2, <2>3 DEF TypeOK, End, Raise, Same, RequestTypes, PC, none
<1>2. CASE Raise(r)
  <2>1. todo' = [todo EXCEPT ![r] = none]
    BY <1>2 DEF Raise, none
  <2>2. todo' \in [Requests -> Seq(Names)] /\ todo'[r] = none
    BY <1>0, <2>1 DEF TypeOK
  <2>3. \A q \in Requests \ {r} : todo'[q] = todo[q]
    BY <2>1 DEF TypeOK
  <2> QED
    BY <1>2, <2>2, <2>3 DEF TypeOK, End, Raise, Same, RequestTypes, PC, none
<1> QED
  BY <1>1, <1>2

(* A look-up or an insert that goes well, and one that raises.               *)
Provides(r) == \E n \in Names : Find(r, n) \/ Miss(r, n) \/ Insert(r, n)
Refuses(r) == \E n \in Names : FindTwo(r, n) \/ InsertAgain(r, n)

LEMMA ResolveCases ==
    ASSUME NEW r \in Requests, Resolve(r) PROVE Provides(r) \/ Refuses(r)
  BY DEF Resolve, Provides, Refuses

LEMMA Providing ==
    ASSUME TypeOK, NEW r \in Requests, Provides(r)
    PROVE  /\ \A q \in Requests \ {r} : Same(q)
           /\ HasRow(r) /\ HasRow(r)'
           /\ target' = target /\ dup' = dup
           /\ RequestTypes'
           /\ UNCHANGED <<database, late, stored, recount, undone, faults>>
<1>1. PICK n \in Names : Find(r, n) \/ Miss(r, n) \/ Insert(r, n)
  BY DEF Provides
<1>2. UNCHANGED <<database, late, stored, target, dup, recount, undone, faults>>
  BY <1>1 DEF Find, Miss, Insert
<1>3. todo[r] \in Seq(Names) /\ todo[r] # <<>>
  BY <1>1 DEF TypeOK, Find, Miss, Insert, NextName
<1>4. Tail(todo[r]) \in Seq(Names)
  BY <1>3
<1>5. CASE Find(r, n)
  BY <1>2, <1>4, <1>5 DEF TypeOK, RequestTypes, Find, Same, HasRow
<1>6. CASE Miss(r, n)
  BY <1>2, <1>6 DEF TypeOK, RequestTypes, Miss, Same, HasRow, PC, InTransaction
<1>7. CASE Insert(r, n)
  <2>1. inserted' \in [Requests -> SUBSET Names]
    BY <1>7 DEF TypeOK, Insert
  <2> QED
    BY <1>2, <1>4, <1>7, <2>1
       DEF TypeOK, RequestTypes, Insert, Same, HasRow, PC, InTransaction
<1> QED
  BY <1>1, <1>5, <1>6, <1>7

LEMMA Refusing ==
    ASSUME NEW r \in Requests, Refuses(r)
    PROVE  /\ Raise(r) /\ pc[r] \in {"acquired", "missing"}
           /\ UNCHANGED <<database, late, stored, recount, undone, faults>>
  BY DEF Refuses, FindTwo, InsertAgain

(* The end of the transaction, whatever its caller learns of it.             *)
LEMMA Committing ==
    ASSUME TypeOK, NEW r \in Requests, Commit(r) \/ CommitUnacknowledged(r)
    PROVE  /\ Effects(r) /\ pc[r] = "acquired"
           /\ \A q \in Requests \ {r} : Same(q)
           /\ pc'[r] \in {"idle", "failed", "cleanup"}
           /\ pc'[r] # "idle" => target'[r] = target[r] /\ dup'[r] = dup[r]
           /\ pc'[r] = "cleanup" => dup[r]
           /\ Commit(r) => pc'[r] = (IF dup[r] THEN "cleanup" ELSE "idle")
           /\ inserted'[r] = {}
           /\ RequestTypes'
<1>1. Effects(r) /\ pc[r] = "acquired"
  BY DEF Commit, CommitUnacknowledged, Effects
<1>2. CASE Commit(r) /\ dup[r]
  <2>1. /\ pc' = [pc EXCEPT ![r] = "cleanup"]
        /\ inserted' = [inserted EXCEPT ![r] = {}]
        /\ UNCHANGED <<target, dup, todo>>
    BY <1>2 DEF Commit
  <2> QED
    BY <1>1, <1>2, <2>1 DEF TypeOK, RequestTypes, Same, PC
<1>3. CASE Commit(r) /\ ~dup[r]
  <2>1. End(r)
    BY <1>3 DEF Commit
  <2> QED
    BY <1>1, <1>3, <2>1, Leaving
<1>4. CASE CommitUnacknowledged(r)
  <2>1. Raise(r) /\ ~Commit(r)
    BY <1>4 DEF Commit, CommitUnacknowledged, Fault, TypeOK
  <2> QED
    BY <1>1, <1>4, <2>1, Leaving
<1> QED
  BY <1>2, <1>3, <1>4

LEMMA TypeStep == TypeOK /\ (\A r \in Requests : Holds(r)) /\ [Next]_vars => TypeOK'
<1> SUFFICES ASSUME TypeOK, \A r \in Requests : Holds(r), [Next]_vars
             PROVE  TypeOK'
  OBVIOUS
<1> USE DEF database, request, recount
<1>1. ASSUME NEW s \in Sessions,
             Stream(s) \/ OpenSession(s) \/ AbandonUpload(s) \/ Late(s) \/ Expire(s)
      PROVE  TypeOK'
  <2>1. CASE Stream(s)
    BY <2>1 DEF TypeOK, Stream, Put
  <2>2. CASE OpenSession(s)
    BY <2>2 DEF TypeOK, OpenSession, SessionStatus
  <2>3. CASE AbandonUpload(s)
    BY <2>3, FaultTypes DEF TypeOK, AbandonUpload, SessionStatus
  <2>4. CASE Late(s)
    BY <2>4 DEF TypeOK, Late
  <2>5. CASE Expire(s)
    BY <2>5 DEF TypeOK, Expire, SessionStatus
  <2> QED
    BY <1>1, <2>1, <2>2, <2>3, <2>4, <2>5
<1>2. ASSUME NEW r \in Requests, NEW s \in Sessions, Begin(r, s)
      PROVE  TypeOK'
  <2>1. Filing[s] \in Seq(Names)
    BY FilingNames
  <2> QED
    BY <1>2, <2>1 DEF TypeOK, Begin, PC, InTransaction
<1>3. ASSUME NEW r \in Requests, Acquire(r) PROVE TypeOK'
  BY <1>3 DEF TypeOK, Acquire, PC, InTransaction
<1>4. ASSUME NEW r \in Requests, Resolve(r) PROVE TypeOK'
  <2>1. CASE Provides(r)
    BY <2>1, Providing DEF TypeOK, RequestTypes
  <2>2. CASE Refuses(r)
    BY <2>2, Refusing, Leaving DEF TypeOK, RequestTypes
  <2> QED
    BY <1>4, <2>1, <2>2, ResolveCases
<1>5. ASSUME NEW n \in Names, NEW x \in Spellings, CreateByHand(n, x) PROVE TypeOK'
  <2>1. rows' \in [Names -> SUBSET Spellings]
    BY <1>5 DEF TypeOK, CreateByHand
  <2> QED
    BY <1>5, <2>1 DEF TypeOK, CreateByHand
<1>6. ASSUME NEW r \in Requests, Commit(r) \/ CommitUnacknowledged(r) PROVE TypeOK'
  <2>1. Effects(r) /\ pc[r] = "acquired" /\ RequestTypes'
    BY <1>6, Committing
  <2>2. session' \in [Sessions -> SessionStatus]
    BY <2>1 DEF TypeOK, Effects, SessionStatus
  <2>3. canonical' \in [Contents -> Sessions \cup {NoSession}]
    BY <2>1 DEF TypeOK, Effects, KeyOf
  <2>4. count' \in [Contents -> Nat]
    <3>1. Content[target[r]] \in Contents
      BY <2>1, ContentOf DEF Holds, InTransaction
    <3> QED
      BY <2>1, <3>1 DEF TypeOK, Effects
  <2>5. rows' \in [Names -> SUBSET Spellings]
    <3>1. \A n \in Names : rows[n] \cup (IF n \in inserted[r] THEN {"derived"} ELSE {})
                            \in SUBSET Spellings
      BY DEF TypeOK, Spellings
    <3> QED
      BY <2>1, <3>1 DEF Effects
  <2>6. /\ late' \subseteq Sessions
        /\ UNCHANGED <<stored, counted, reconciles, undone>>
    BY <2>1 DEF TypeOK, Effects
  <2>7. faults' \in 0..MaxFaults
    BY <1>6, FaultTypes DEF TypeOK, Commit, CommitUnacknowledged
  <2> QED
    BY <2>1, <2>2, <2>3, <2>4, <2>5, <2>6, <2>7 DEF TypeOK, RequestTypes
<1>7. ASSUME NEW r \in Requests, Fail(r) \/ CleanupFails(r) \/ Crash(r) PROVE TypeOK'
  <2>1. /\ Raise(r) \/ End(r)
        /\ UNCHANGED <<database, late, stored, recount, undone>>
    BY <1>7 DEF Fail, CleanupFails, Crash
  <2>2. RequestTypes'
    BY <2>1, Leaving
  <2>3. faults' \in 0..MaxFaults
    BY <1>7, FaultTypes DEF TypeOK, Fail, CleanupFails, Crash
  <2> QED
    BY <2>1, <2>2, <2>3 DEF TypeOK, RequestTypes
<1>8. ASSUME NEW r \in Requests, Compensate(r) \/ Cleanup(r) PROVE TypeOK'
  <2>1. target[r] \in Sessions
    BY <1>8 DEF Holds, Compensate, Cleanup
  <2>2. RequestTypes' /\ UNCHANGED <<database, late, recount, faults>>
    BY <1>8, Leaving DEF Compensate, Cleanup
  <2>3. stored' \subseteq Sessions /\ undone' \subseteq Sessions
    BY <1>8, <2>1 DEF TypeOK, Compensate, Cleanup, Delete
  <2> QED
    BY <2>2, <2>3 DEF TypeOK, RequestTypes
<1>9. ASSUME NEW c \in Contents, Recount(c) PROVE TypeOK'
  <2>1. reconciles' \in 0..MaxReconciles
    BY <1>9, UploadAssumption DEF TypeOK, Recount, UploadAssumption
  <2>2. counted' \in [Contents -> Nat]
    BY <1>9, VersionsCounted DEF TypeOK, Recount
  <2> QED
    BY <1>9, <2>1, <2>2 DEF TypeOK, Recount
<1>10. ASSUME NEW c \in Contents, Overwrite(c) PROVE TypeOK'
  BY <1>10 DEF TypeOK, Overwrite
<1>11. CASE UNCHANGED vars
  BY <1>11 DEF TypeOK, vars
<1>12. CASE Settled
  BY <1>11, <1>12 DEF Settled
<1> QED
  BY <1>1, <1>2, <1>3, <1>4, <1>5, <1>6, <1>7, <1>8, <1>9, <1>10, <1>11, <1>12
     DEF Next
-----------------------------------------------------------------------------
(* What stands for a content.                                                *)

(* A row lock keeps the session of an open transaction as it is.             *)
LEMMA SessionMoves ==
    ASSUME IInv, NEW s \in Sessions, NEW x \in SessionStatus \ {"FINALIZED"},
           session[s] # "FINALIZED", SessionFree(s),
           session' = [session EXCEPT ![s] = x],
           UNCHANGED <<canonical, stored, undone, pc, target, dup>>
    PROVE  Kept'
<1>1. \A u \in Sessions : session'[u] = IF u = s THEN x ELSE session[u]
  BY DEF IInv, TypeOK
<1>2. \A c \in Contents : Known(c)'
  BY <1>1 DEF IInv, Kept, Known
<1>3. \A u \in Sessions : Finalized(u)'
  BY <1>1 DEF IInv, Kept, Finalized
<1>4. ASSUME NEW r \in Requests PROVE Holds(r)'
  <2>1. Holds(r)
    BY DEF IInv, Kept
  <2>2. pc[r] \in InTransaction => target[r] # s
    BY DEF SessionFree
  <2>3. pc[r] = "cleanup" => target[r] # s
    BY <2>1 DEF Holds
  <2> QED
    BY <1>1, <2>1, <2>2, <2>3 DEF Holds, HasRow, InTransaction
<1>5. Exclusive'
  BY DEF IInv, Kept, Exclusive, HasRow
<1> QED
  BY <1>2, <1>3, <1>4, <1>5 DEF Kept

(* A request that is given up or done with leaves everything as it is.       *)
LEMMA RequestEnds ==
    ASSUME IInv, NEW r \in Requests, End(r) \/ (pc[r] # "idle" /\ Raise(r)),
           UNCHANGED <<session, canonical, stored, undone>>
    PROVE  Kept'
<1>1. /\ \A q \in Requests \ {r} : Same(q)
      /\ pc'[r] \in {"idle", "failed"}
      /\ pc'[r] = "failed" => pc[r] # "idle" /\ target'[r] = target[r]
  BY Leaving DEF IInv
<1>2. \A c \in Contents : Known(c)'
  BY DEF IInv, Kept, Known
<1>3. \A u \in Sessions : Finalized(u)'
  BY DEF IInv, Kept, Finalized
<1>4. ASSUME NEW q \in Requests PROVE Holds(q)'
  <2>1. Holds(q)
    BY DEF IInv, Kept
  <2> QED
    BY <1>1, <2>1 DEF Holds, HasRow, InTransaction, Same
<1>5. Exclusive'
  BY <1>1 DEF IInv, Kept, Exclusive, HasRow, InTransaction, Same
<1> QED
  BY <1>2, <1>3, <1>4, <1>5 DEF Kept

(* A deletion of what does not stand for a content, or that is remembered.   *)
LEMMA ObjectGoes ==
    ASSUME IInv, NEW r \in Requests, pc[r] \in {"cleanup", "failed"},
           End(r),
           Delete(target[r]),
           undone \subseteq undone',
           target[r] \in undone' \/ pc[r] = "cleanup",
           UNCHANGED <<session, canonical>>
    PROVE  Kept'
<1> DEFINE s == target[r]
<1>0. s \in Sessions
  BY DEF IInv, Kept, Holds
<1>1. (\A q \in Requests \ {r} : Same(q)) /\ pc'[r] = "idle"
  BY Leaving DEF IInv
<1>2. stored' = stored \ {s}
  BY DEF Delete
<1>3. ASSUME NEW c \in Contents PROVE Known(c)'
  <2>1. Known(c)
    BY DEF IInv, Kept
  <2>2. pc[r] = "cleanup" /\ canonical[c] # NoSession => canonical[c] # s
    BY <2>1 DEF IInv, Kept, Holds, Known
  <2> QED
    BY <1>2, <2>1, <2>2 DEF Known
<1>4. \A u \in Sessions : Finalized(u)'
  BY DEF IInv, Kept, Finalized
<1>5. ASSUME NEW q \in Requests PROVE Holds(q)'
  <2>1. Holds(q) /\ Holds(r)
    BY DEF IInv, Kept
  <2>2. q # r /\ pc[q] \in InTransaction /\ pc[r] = "cleanup" => target[q] # s
    BY <2>1 DEF Holds
  <2> QED
    BY <1>1, <1>2, <2>1, <2>2 DEF Holds, HasRow, InTransaction, Same
<1>6. Exclusive'
  BY <1>1 DEF IInv, Kept, Exclusive, HasRow, InTransaction, Same
<1> QED
  BY <1>3, <1>4, <1>5, <1>6 DEF Kept

LEMMA BeginKept ==
    ASSUME IInv, NEW r \in Requests, NEW s \in Sessions, Begin(r, s)
    PROVE  Kept'
<1>1. /\ \A q \in Requests : pc'[q] = IF q = r THEN "verified" ELSE pc[q]
      /\ \A q \in Requests : target'[q] = IF q = r THEN s ELSE target[q]
      /\ \A q \in Requests : q # r => dup'[q] = dup[q]
      /\ pc[r] = "idle" /\ session[s] = "UPLOADED" /\ s \in stored
      /\ UNCHANGED <<session, canonical, stored, undone>>
  BY DEF IInv, TypeOK, Begin, Hashable, database
<1>2. \A q \in Requests : pc[q] \in InTransaction => target[q] # s
  BY DEF Begin, SessionFree
<1>3. \A c \in Contents : Known(c)'
  BY <1>1 DEF IInv, Kept, Known
<1>4. \A u \in Sessions : Finalized(u)'
  BY <1>1 DEF IInv, Kept, Finalized
<1>5. ASSUME NEW q \in Requests PROVE Holds(q)'
  <2>1. Holds(q)
    BY DEF IInv, Kept
  <2> QED
    BY <1>1, <2>1 DEF Holds, HasRow, InTransaction
<1>6. Exclusive'
  BY <1>1, <1>2 DEF IInv, Kept, Exclusive, HasRow, InTransaction
<1> QED
  BY <1>3, <1>4, <1>5, <1>6 DEF Kept

(* The key that the upsert returns is the session's own only for new content. *)
LEMMA AcquireKept ==
    ASSUME IInv, NEW r \in Requests, Acquire(r)
    PROVE  Kept'
<1> DEFINE s == target[r]
           c == Content[s]
<1>0. /\ s \in Sessions /\ c \in Contents /\ session[s] = "UPLOADED"
      /\ pc[r] = "verified"
  BY ContentOf DEF IInv, Kept, Holds, Acquire, InTransaction
<1>1. /\ \A q \in Requests : pc'[q] = IF q = r THEN "acquired" ELSE pc[q]
      /\ \A q \in Requests :
             dup'[q] = IF q = r THEN canonical[c] \notin {NoSession, s} ELSE dup[q]
      /\ UNCHANGED <<session, canonical, stored, undone, target>>
  BY DEF IInv, TypeOK, Acquire, database
<1>2. \A q \in Requests : HasRow(q) => Content[target[q]] # c
  BY DEF Acquire, RowFree
<1>3. \A d \in Contents : Known(d)'
  BY <1>1 DEF IInv, Kept, Known
<1>4. \A u \in Sessions : Finalized(u)'
  BY <1>1 DEF IInv, Kept, Finalized
<1>5. ASSUME NEW q \in Requests PROVE Holds(q)'
  <2>1. Holds(q)
    BY DEF IInv, Kept
  <2>2. canonical[c] # s
    BY <1>0, UploadAssumption DEF IInv, Kept, Known, UploadAssumption
  <2> QED
    BY <1>0, <1>1, <2>1, <2>2 DEF Holds, HasRow, InTransaction
<1>6. Exclusive'
  BY <1>0, <1>1, <1>2 DEF IInv, Kept, Exclusive, HasRow, InTransaction
<1> QED
  BY <1>3, <1>4, <1>5, <1>6 DEF Kept

(* The commit of a finalize, whatever its caller learns of it.               *)
LEMMA CommitKept ==
    ASSUME IInv, NEW r \in Requests, Commit(r) \/ CommitUnacknowledged(r)
    PROVE  Kept'
<1> DEFINE s == target[r]
           c == Content[s]
<1> Effects(r) /\ pc[r] = "acquired"
  BY Committing DEF IInv
<1>0. /\ s \in Sessions /\ c \in Contents /\ session[s] = "UPLOADED"
      /\ s \in stored \cup undone /\ pc[r] = "acquired"
      /\ dup[r] = (canonical[c] # NoSession)
  BY ContentOf DEF IInv, Kept, Holds, Effects, HasRow, InTransaction
<1>1. /\ \A q \in Requests \ {r} : Same(q)
      /\ pc'[r] \in {"idle", "failed", "cleanup"}
      /\ pc'[r] # "idle" => target'[r] = s
      /\ pc'[r] = "cleanup" => dup[r]
      /\ \A u \in Sessions : session'[u] = IF u = s THEN "FINALIZED" ELSE session[u]
      /\ \A d \in Contents : canonical'[d] =
             IF d = c /\ canonical[c] = NoSession THEN s ELSE canonical[d]
      /\ UNCHANGED <<stored, undone>>
  <2>1. /\ session' = [session EXCEPT ![s] = "FINALIZED"]
        /\ canonical' = [canonical EXCEPT ![c] = KeyOf(c, s)]
        /\ UNCHANGED <<stored, undone>>
    BY DEF Effects
  <2>2. /\ \A u \in Sessions : session'[u] = IF u = s THEN "FINALIZED" ELSE session[u]
        /\ \A d \in Contents : canonical'[d] =
               IF d = c /\ canonical[c] = NoSession THEN s ELSE canonical[d]
    BY <1>0, <2>1 DEF IInv, TypeOK, KeyOf
  <2> QED
    BY <2>1, <2>2, Committing DEF IInv
<1>2. \A q \in Requests : q # r =>
          /\ pc[q] \in InTransaction => target[q] # s
          /\ HasRow(q) => Content[target[q]] # c
  BY <1>0 DEF IInv, Kept, Exclusive, HasRow, InTransaction
<1>3. s # NoSession
  BY <1>0, UploadAssumption DEF UploadAssumption
<1>4. ASSUME NEW d \in Contents PROVE Known(d)'
  <2>1. Known(d)
    BY DEF IInv, Kept
  <2>2. CASE d = c /\ canonical[c] = NoSession
    BY <1>0, <1>1, <2>2 DEF Known
  <2>3. CASE ~(d = c /\ canonical[c] = NoSession)
    BY <1>0, <1>1, <2>1, <2>3 DEF Known
  <2> QED
    BY <2>2, <2>3
<1>5. ASSUME NEW u \in Sessions PROVE Finalized(u)'
  <2>1. Finalized(u) /\ Content[u] \in Contents
    BY ContentOf DEF IInv, Kept
  <2> QED
    BY <1>1, <1>3, <2>1 DEF Finalized
<1>6. ASSUME NEW q \in Requests PROVE Holds(q)'
  <2>1. Holds(q)
    BY DEF IInv, Kept
  <2>2. CASE q = r
    <3>1. pc'[r] = "cleanup" => canonical'[c] # s
      BY <1>0, <1>1, ZenonT(60) DEF IInv, Kept, Known
    <3> QED
      BY <1>0, <1>1, <2>2, <3>1 DEF Holds, HasRow, InTransaction
  <2>3. CASE q # r
    <3>1. pc[q] # "idle" => target[q] \in Sessions /\ Content[target[q]] \in Contents
      BY <2>1, ContentOf DEF Holds
    <3>2. pc[q] \in InTransaction => session'[target[q]] = session[target[q]]
      BY <1>1, <1>2, <2>3, <3>1 DEF InTransaction
    <3>3. HasRow(q) => canonical'[Content[target[q]]] = canonical[Content[target[q]]]
      BY <1>1, <1>2, <2>3, <3>1 DEF HasRow
    <3>4. pc[q] = "cleanup" => /\ session'[target[q]] = "FINALIZED"
                               /\ canonical'[Content[target[q]]] # target[q]
      <4>1. pc[q] = "cleanup" => target[q] # s
        BY <1>0, <2>1 DEF Holds
      <4> QED
        BY <1>1, <2>1, <3>1, <4>1 DEF Holds
    <3> QED
      BY <1>1, <2>1, <2>3, <3>1, <3>2, <3>3, <3>4 DEF Holds, HasRow, InTransaction, Same
  <2> QED
    BY <2>2, <2>3
<1>7. Exclusive'
  BY <1>1 DEF IInv, Kept, Exclusive, HasRow, InTransaction, Same
<1> QED
  BY <1>4, <1>5, <1>6, <1>7 DEF Kept

LEMMA KeptStep == IInv /\ [Next]_vars => Kept'
<1> SUFFICES ASSUME IInv, [Next]_vars
             PROVE  Kept'
  OBVIOUS
<1> USE DEF database, request, recount
<1>1. ASSUME NEW s \in Sessions, Stream(s) PROVE Kept'
  <2>1. stored \subseteq stored' /\ UNCHANGED <<session, canonical, undone, pc, target, dup>>
    BY <1>1 DEF Stream, Put
  <2> QED
    BY <2>1 DEF IInv, Kept, Known, Finalized, Holds, Exclusive, HasRow
<1>2. ASSUME NEW s \in Sessions, OpenSession(s) \/ AbandonUpload(s) PROVE Kept'
  <2>1. SessionFree(s)
    BY <1>2 DEF IInv, Kept, Holds, SessionFree, OpenSession, AbandonUpload
  <2>2. CASE OpenSession(s)
    BY <2>1, <2>2, SessionMoves DEF OpenSession, SessionStatus
  <2>3. CASE AbandonUpload(s)
    BY <2>1, <2>3, SessionMoves DEF AbandonUpload, SessionStatus
  <2> QED
    BY <1>2, <2>2, <2>3
<1>3. ASSUME NEW s \in Sessions, Expire(s) PROVE Kept'
  BY <1>3, SessionMoves DEF Expire, SessionStatus
<1>4. ASSUME NEW r \in Requests, Commit(r) \/ CommitUnacknowledged(r) PROVE Kept'
  BY <1>4, CommitKept
<1>5. ASSUME NEW r \in Requests, Provides(r) PROVE Kept'
  <2>1. /\ \A q \in Requests \ {r} : Same(q)
        /\ HasRow(r) /\ HasRow(r)' /\ target' = target /\ dup' = dup
        /\ UNCHANGED <<session, canonical, stored, undone>>
    BY <1>5, Providing DEF IInv
  <2> QED
    BY <2>1 DEF IInv, Kept, Known, Finalized, Holds, Exclusive, HasRow, InTransaction, Same
<1>6. ASSUME NEW r \in Requests,
             Refuses(r) \/ Fail(r) \/ CleanupFails(r) \/ Crash(r)
      PROVE  Kept'
  <2>1. CASE Refuses(r)
    BY <2>1, Refusing, RequestEnds
  <2>2. CASE Fail(r)
    BY <2>2, RequestEnds DEF Fail, InTransaction
  <2>3. CASE CleanupFails(r)
    BY <2>3, RequestEnds DEF CleanupFails
  <2>4. CASE Crash(r)
    BY <2>4, RequestEnds DEF Crash
  <2> QED
    BY <1>6, <2>1, <2>2, <2>3, <2>4
<1>7. ASSUME NEW r \in Requests, Compensate(r) PROVE Kept'
  <2>1. CASE UNCHANGED <<stored, undone>>
    BY <1>7, <2>1, RequestEnds DEF Compensate
  <2>2. CASE Delete(target[r]) /\ undone' = undone \cup {target[r]}
    BY <1>7, <2>2, ObjectGoes DEF Compensate
  <2> QED
    BY <1>7, <2>1, <2>2 DEF Compensate
<1>8. ASSUME NEW r \in Requests, Cleanup(r) PROVE Kept'
  BY <1>8, ObjectGoes DEF Cleanup
<1>9. ASSUME UNCHANGED <<session, canonical, stored, undone, pc, target, dup>>
      PROVE  Kept'
  BY <1>9 DEF IInv, Kept, Known, Finalized, Holds, Exclusive, HasRow
<1>10. ASSUME NEW s \in Sessions, Late(s) PROVE Kept'
  BY <1>9, <1>10 DEF Late
<1>11. ASSUME NEW n \in Names, NEW x \in Spellings, CreateByHand(n, x) PROVE Kept'
  BY <1>9, <1>11 DEF CreateByHand
<1>12. ASSUME NEW c \in Contents, Recount(c) \/ Overwrite(c) PROVE Kept'
  BY <1>9, <1>12 DEF Recount, Overwrite
<1>13. CASE UNCHANGED vars
  BY <1>9, <1>13 DEF vars
<1>14. CASE Settled
  BY <1>13, <1>14 DEF Settled
<1> QED
  BY <1>1, <1>2, <1>3, <1>4, <1>5, <1>6, <1>7, <1>8, <1>10, <1>11, <1>12, <1>13,
     <1>14, BeginKept, AcquireKept, ResolveCases
     DEF Next

-----------------------------------------------------------------------------
(* Reference counts.                                                         *)

LEMMA SameVersions ==
    ASSUME \A s \in Sessions : session'[s] = "FINALIZED" <=> session[s] = "FINALIZED"
    PROVE  \A c : Versions(c)' = Versions(c)
  BY DEF Versions

(* A commit adds its session to the versions of its content.                 *)
LEMMA OneMoreVersion ==
    ASSUME IInv, NEW r \in Requests, Effects(r), NEW c \in Contents
    PROVE  Cardinality(Versions(c)') =
               Cardinality(Versions(c)) + (IF c = Content[target[r]] THEN 1 ELSE 0)
<1> DEFINE s == target[r]
<1>1. s \in Sessions /\ session[s] = "UPLOADED"
  BY DEF IInv, Kept, Holds, Effects, HasRow, InTransaction
<1>2. \A u \in Sessions : session'[u] = IF u = s THEN "FINALIZED" ELSE session[u]
  BY DEF IInv, TypeOK, Effects
<1>3. CASE c = Content[s]
  <2>1. Versions(c)' = Versions(c) \cup {s} /\ s \notin Versions(c)
    BY <1>1, <1>2, <1>3 DEF Versions
  <2>2. IsFiniteSet(Versions(c))
    <3>1. Versions(c) \subseteq Sessions /\ IsFiniteSet(Sessions)
      BY UploadAssumption DEF Versions, UploadAssumption
    <3> QED
      BY <3>1, FS_Subset
  <2>3. Cardinality(Versions(c) \cup {s}) = Cardinality(Versions(c)) + 1
    BY <2>1, <2>2, FS_AddElement
  <2> QED
    BY <1>3, <2>1, <2>3
<1>4. CASE c # Content[s]
  <2>1. Versions(c)' = Versions(c)
    BY <1>1, <1>2, <1>4 DEF Versions
  <2>2. Cardinality(Versions(c)) \in Nat
    BY VersionsCounted
  <2> QED
    BY <1>4, <2>1, <2>2
<1> QED
  BY <1>3, <1>4

LEMMA CountsStep == IInv /\ [Next]_vars => Counts'
<1> SUFFICES ASSUME IInv, [Next]_vars, NEW c \in Contents
             PROVE  Counted(c)'
  BY DEF Counts
<1>1. Counted(c) /\ Cardinality(Versions(c)) \in Nat
  BY VersionsCounted DEF IInv, Counts
<1>2. count[c] \in Nat /\ counted[c] \in Nat
  BY DEF IInv, TypeOK
<1>3. ASSUME \A s \in Sessions : session'[s] = "FINALIZED" <=> session[s] = "FINALIZED",
             UNCHANGED <<canonical, count, counted, reconciles>>
      PROVE  Counted(c)'
  BY <1>1, <1>3, SameVersions DEF Counted
<1>4. ASSUME NEW s \in Sessions,
             OpenSession(s) \/ AbandonUpload(s) \/ Expire(s)
      PROVE  Counted(c)'
  <2>1. PICK x \in {"UPLOADED", "ABANDONED", "EXPIRED"} :
            session' = [session EXCEPT ![s] = x]
    BY <1>4 DEF OpenSession, AbandonUpload, Expire
  <2>2. session[s] # "FINALIZED" /\ UNCHANGED <<canonical, count, counted, reconciles>>
    BY <1>4 DEF OpenSession, AbandonUpload, Expire, recount
  <2>3. \A u \in Sessions : session'[u] = "FINALIZED" <=> session[u] = "FINALIZED"
    BY <2>1, <2>2 DEF IInv, TypeOK
  <2> QED
    BY <1>3, <2>2, <2>3
<1>5. ASSUME NEW r \in Requests, Effects(r)
      PROVE  Counted(c)'
  <2>1. /\ count'[c] = count[c] + (IF c = Content[target[r]] THEN 1 ELSE 0)
        /\ c # Content[target[r]] => canonical'[c] = canonical[c]
        /\ UNCHANGED <<counted, reconciles>>
    BY <1>2, <1>5 DEF IInv, TypeOK, Effects, recount
  <2> QED
    BY <1>1, <1>2, <1>5, <2>1, OneMoreVersion DEF Counted
<1>6. ASSUME NEW d \in Contents, Recount(d)
      PROVE  Counted(c)'
  <2>1. /\ UNCHANGED <<session, canonical, count>> /\ reconciles' # 0
        /\ counted'[c] \in {counted[c], Cardinality(Versions(c))}
    BY <1>6 DEF IInv, TypeOK, Recount, database
  <2> QED
    BY <1>1, <1>2, <2>1, SameVersions DEF Counted
<1>7. ASSUME NEW d \in Contents, Overwrite(d)
      PROVE  Counted(c)'
  <2>1. UNCHANGED <<session, canonical, reconciles>>
    BY <1>7 DEF Overwrite
  <2>2. /\ count'[c] = IF c = d THEN counted[d] ELSE count[c]
        /\ counted'[c] = IF c = d THEN 0 ELSE counted[c]
        /\ counted[d] # 0 /\ counted[d] \in Nat
    BY <1>7 DEF IInv, TypeOK, Overwrite
  <2>3. reconciles # 0
    BY <2>2 DEF IInv, Counts, Counted
  <2> QED
    BY <1>1, <1>2, <2>1, <2>2, <2>3, SameVersions DEF Counted
<1>8. CASE UNCHANGED <<database, counted, reconciles>>
  BY <1>3, <1>8 DEF database
<1>9. ASSUME NEW r \in Requests, Commit(r) \/ CommitUnacknowledged(r)
      PROVE  Counted(c)'
  BY <1>5, <1>9 DEF Commit, CommitUnacknowledged
<1>10. ASSUME NEW s \in Sessions, Stream(s) \/ Late(s) PROVE Counted(c)'
  BY <1>8, <1>10 DEF Stream, Late, recount
<1>11. ASSUME NEW r \in Requests, NEW s \in Sessions, Begin(r, s) PROVE Counted(c)'
  BY <1>8, <1>11 DEF Begin, recount
<1>12. ASSUME NEW r \in Requests,
              \/ Acquire(r) \/ Resolve(r) \/ Fail(r)
              \/ Compensate(r) \/ Cleanup(r) \/ CleanupFails(r) \/ Crash(r)
       PROVE  Counted(c)'
  <2>1. CASE Resolve(r)
    BY <1>8, <2>1, ResolveCases, Providing, Refusing DEF IInv, recount
  <2>2. CASE ~Resolve(r)
    BY <1>8, <1>12, <2>2
       DEF Acquire, Fail, Compensate, Cleanup, CleanupFails, Crash, recount
  <2> QED
    BY <2>1, <2>2
<1>13. CASE Settled \/ UNCHANGED vars
  BY <1>8, <1>13 DEF Settled, vars, recount
<1>14. ASSUME NEW n \in Names, NEW x \in Spellings, CreateByHand(n, x)
       PROVE  Counted(c)'
  <2>1. UNCHANGED <<session, canonical, count, counted, reconciles>>
    BY <1>14 DEF CreateByHand, recount
  <2> QED
    BY <1>3, <2>1
<1> QED
  BY <1>4, <1>6, <1>7, <1>9, <1>10, <1>11, <1>12, <1>13, <1>14 DEF Next

-----------------------------------------------------------------------------
(* Who waits for whom.                                                       *)

(* The institution of a file name is resolved before its period: what a      *)
(* request still has to resolve comes after what it has inserted.            *)
InOrder(r) ==
    /\ \/ todo[r] = <<>>
       \/ \E p \in Periods : todo[r] = <<p>> /\ inserted[r] \subseteq Institutions
       \/ \E i \in Institutions, p \in Periods :
              todo[r] = <<i, p>> /\ inserted[r] = {}
    /\ inserted[r] # {} => HasRow(r)
    /\ pc[r] = "missing" => todo[r] # <<>>

Ordered == \A r \in Requests : InOrder(r)

LEMMA OthersInOrder ==
    ASSUME Ordered, NEW r \in Requests, \A q \in Requests \ {r} : Same(q), InOrder(r)'
    PROVE  Ordered'
<1> SUFFICES ASSUME NEW q \in Requests \ {r} PROVE InOrder(q)'
  BY DEF Ordered
<1>1. InOrder(q) /\ Same(q)
  BY DEF Ordered
<1> QED
  BY <1>1 DEF InOrder, HasRow, Same

LEMMA ProvidesInOrder ==
    ASSUME TypeOK, Ordered, NEW r \in Requests, Provides(r) PROVE Ordered'
<1>1. (\A q \in Requests \ {r} : Same(q)) /\ HasRow(r)'
  BY Providing
<1>2. PICK n \in Names : Find(r, n) \/ Miss(r, n) \/ Insert(r, n)
  BY DEF Provides
<1>3. todo[r] # <<>> /\ n = Head(todo[r])
  BY <1>2 DEF Find, Miss, Insert, NextName
<1>4. CASE Miss(r, n)
  <2>1. todo' = todo /\ inserted' = inserted
    BY <1>4 DEF Miss
  <2> QED
    BY <1>1, <1>3, <2>1, OthersInOrder DEF Ordered, InOrder
<1>5. CASE Find(r, n) \/ Insert(r, n)
  <2>1. /\ todo'[r] = Tail(todo[r]) /\ pc'[r] # "missing"
        /\ inserted'[r] \subseteq inserted[r] \cup {n}
    BY <1>5 DEF Find, Insert, TypeOK
  <2>2. CASE \E p \in Periods : todo[r] = <<p>>
    <3>1. Tail(todo[r]) = <<>>
      BY <2>2
    <3> QED
      BY <1>1, <2>1, <3>1, OthersInOrder DEF InOrder
  <2>3. ASSUME NEW i \in Institutions, NEW p \in Periods,
               todo[r] = <<i, p>>, inserted[r] = {}
        PROVE  Ordered'
    <3>1. Tail(todo[r]) = <<p>> /\ n = i
      BY <1>3, <2>3
    <3>2. inserted'[r] \subseteq Institutions
      BY <2>1, <2>3, <3>1
    <3>3. InOrder(r)'
      BY <1>1, <2>1, <3>1, <3>2 DEF InOrder
    <3> QED
      BY <1>1, <3>3, OthersInOrder
  <2> QED
    BY <1>3, <2>2, <2>3 DEF Ordered, InOrder
<1> QED
  BY <1>2, <1>4, <1>5

LEMMA OrderedStep == TypeOK /\ Ordered /\ [Next]_vars => Ordered'
<1> SUFFICES ASSUME TypeOK, Ordered, [Next]_vars PROVE Ordered'
  OBVIOUS
<1> USE DEF request
<1>1. CASE UNCHANGED request
  BY <1>1 DEF Ordered, InOrder, HasRow
<1>2. ASSUME NEW s \in Sessions,
             Stream(s) \/ OpenSession(s) \/ AbandonUpload(s) \/ Late(s) \/ Expire(s)
      PROVE  Ordered'
  BY <1>1, <1>2 DEF Stream, OpenSession, AbandonUpload, Late, Expire
<1>3. ASSUME NEW r \in Requests, NEW s \in Sessions, Begin(r, s) PROVE Ordered'
  <2>1. /\ pc[r] = "idle" /\ pc'[r] = "verified" /\ inserted' = inserted
        /\ todo'[r] = Filing[s] /\ \A q \in Requests \ {r} : Same(q)
    BY <1>3 DEF Begin, TypeOK, Same
  <2>2. inserted[r] = {}
    BY <2>1 DEF Ordered, InOrder, HasRow
  <2>3. \/ Filing[s] = <<>>
        \/ \E i \in Institutions, p \in Periods : Filing[s] = <<i, p>>
    BY UploadAssumption DEF UploadAssumption
  <2>4. InOrder(r)'
    BY <2>1, <2>2, <2>3 DEF InOrder
  <2> QED
    BY <2>1, <2>4, OthersInOrder
<1>4. ASSUME NEW r \in Requests, Acquire(r) PROVE Ordered'
  <2>1. /\ pc[r] = "verified" /\ pc'[r] = "acquired"
        /\ todo' = todo /\ inserted' = inserted
        /\ \A q \in Requests \ {r} : Same(q)
    BY <1>4 DEF Acquire, TypeOK, Same
  <2> QED
    BY <2>1, OthersInOrder DEF Ordered, InOrder, HasRow
<1>5. ASSUME NEW r \in Requests, End(r) \/ Raise(r) PROVE Ordered'
  <2>1. /\ \A q \in Requests \ {r} : Same(q)
        /\ pc'[r] \in {"idle", "failed"} /\ todo'[r] = <<>> /\ inserted'[r] = {}
    BY <1>5, Leaving
  <2> QED
    BY <2>1, OthersInOrder DEF InOrder
<1>6. ASSUME NEW r \in Requests, Resolve(r) PROVE Ordered'
  BY <1>5, <1>6, ResolveCases, ProvidesInOrder, Refusing
<1>7. ASSUME NEW r \in Requests, Commit(r) \/ CommitUnacknowledged(r) PROVE Ordered'
  <2>1. CASE Commit(r) /\ dup[r]
    <3>1. /\ todo' = todo /\ todo[r] = <<>> /\ pc'[r] = "cleanup" /\ inserted'[r] = {}
          /\ \A q \in Requests \ {r} : Same(q)
      BY <2>1, Committing DEF Commit, Effects
    <3> QED
      BY <3>1, OthersInOrder DEF InOrder
  <2>2. CASE ~(Commit(r) /\ dup[r])
    BY <1>5, <1>7, <2>2 DEF Commit, CommitUnacknowledged
  <2> QED
    BY <2>1, <2>2
<1>8. ASSUME NEW r \in Requests,
             \/ Fail(r) \/ Compensate(r) \/ Cleanup(r) \/ CleanupFails(r) \/ Crash(r)
      PROVE  Ordered'
  BY <1>5, <1>8 DEF Fail, Compensate, Cleanup, CleanupFails, Crash
<1>9. ASSUME NEW c \in Contents, Recount(c) \/ Overwrite(c) PROVE Ordered'
  BY <1>1, <1>9 DEF Recount, Overwrite
<1>10. ASSUME NEW n \in Names, NEW x \in Spellings, CreateByHand(n, x) PROVE Ordered'
  BY <1>1, <1>10 DEF CreateByHand
<1>11. CASE Settled \/ UNCHANGED vars
  BY <1>1, <1>11 DEF Settled, vars
<1> QED
  BY <1>2, <1>3, <1>4, <1>6, <1>7, <1>8, <1>9, <1>10, <1>11 DEF Next

(* From a request that waits the way leads to one that does not, over one    *)
(* that has an institution and one that has a period at most.                *)
LEMMA WaitsEnd ==
    ASSUME Ordered, NEW r \in Requests, Waits(r)
    PROVE  \E q \in Requests : pc[q] \in InTransaction /\ ~Waits(q)
<1> DEFINE Free == \E q \in Requests : pc[q] \in InTransaction /\ ~Waits(q)
<1>1. ASSUME NEW q \in Requests, pc[q] = "acquired" PROVE Free
  BY <1>1 DEF Waits, WaitsFor, InTransaction
<1>2. ASSUME NEW q \in Requests, pc[q] = "missing", Waits(q),
             NEW p \in Periods, todo[q] = <<p>>
      PROVE  Free
  <2>1. PICK h \in Requests : p \in inserted[h]
    BY <1>2 DEF Waits, WaitsFor
  <2>2. todo[h] = <<>> /\ HasRow(h)
    BY <2>1, UploadAssumption DEF Ordered, InOrder, UploadAssumption
  <2>3. pc[h] = "acquired"
    BY <2>2 DEF Ordered, InOrder, HasRow
  <2> QED
    BY <1>1, <2>3
<1>3. ASSUME NEW q \in Requests, pc[q] = "missing" PROVE Free
  <2>1. CASE \E p \in Periods : todo[q] = <<p>>
    <3>1. CASE Waits(q)
      BY <1>2, <1>3, <2>1, <3>1
    <3>2. CASE ~Waits(q)
      BY <1>3, <3>2 DEF InTransaction
    <3> QED
      BY <3>1, <3>2
  <2>2. CASE \E i \in Institutions, p \in Periods : todo[q] = <<i, p>>
    <3>1. CASE ~Waits(q)
      BY <1>3, <3>1 DEF InTransaction
    <3>2. CASE Waits(q)
      <4>1. PICK i \in Institutions, p \in Periods : todo[q] = <<i, p>>
        BY <2>2
      <4>2. PICK h \in Requests : i \in inserted[h]
        BY <1>3, <3>2, <4>1 DEF Waits, WaitsFor
      <4>3. HasRow(h) /\ (todo[h] = <<>> \/ \E o \in Periods : todo[h] = <<o>>)
        BY <4>2 DEF Ordered, InOrder
      <4>4. CASE pc[h] = "acquired"
        BY <1>1, <4>4
      <4>5. CASE pc[h] = "missing"
        <5>1. \E o \in Periods : todo[h] = <<o>>
          BY <4>3, <4>5 DEF Ordered, InOrder
        <5>2. CASE Waits(h)
          BY <1>2, <4>5, <5>1, <5>2
        <5>3. CASE ~Waits(h)
          BY <4>5, <5>3 DEF InTransaction
        <5> QED
          BY <5>2, <5>3
      <4> QED
        BY <4>3, <4>4, <4>5 DEF HasRow
    <3> QED
      BY <3>1, <3>2
  <2> QED
    BY <1>3, <2>1, <2>2 DEF Ordered, InOrder
<1>4. PICK q \in Requests : WaitsFor(r, q)
  BY DEF Waits
<1>5. CASE pc[r] = "missing"
  BY <1>3, <1>5
<1>6. CASE HasRow(q)
  BY <1>1, <1>3, <1>6 DEF HasRow
<1> QED
  BY <1>4, <1>5, <1>6 DEF WaitsFor

-----------------------------------------------------------------------------
(* Objects that nothing refers to.                                           *)

Orphans == {s \in stored : Unreachable(s)}

LEMMA OrphansCounted ==
    ASSUME IInv
    PROVE  IsFiniteSet(Orphans) /\ Cardinality(Orphans) \in Nat /\ faults \in Nat
<1>1. Orphans \subseteq Sessions /\ IsFiniteSet(Sessions)
  BY UploadAssumption DEF IInv, TypeOK, Orphans, UploadAssumption
<1> QED
  BY <1>1, UploadAssumption, FS_Subset, FS_CardinalityType
     DEF IInv, TypeOK, UploadAssumption

(* A step without a fault leaves no object behind.                           *)
LEMMA NoNewOrphan ==
    ASSUME IInv, OrphansAreFaults, Orphans' \subseteq Orphans, faults' = faults
    PROVE  OrphansAreFaults'
<1>1. Cardinality(Orphans') <= Cardinality(Orphans) /\ Cardinality(Orphans') \in Nat
  BY OrphansCounted, FS_Subset, FS_CardinalityType
<1> QED
  BY <1>1, OrphansCounted DEF OrphansAreFaults, Orphans

(* A fault leaves one behind at most.                                        *)
LEMMA OneNewOrphan ==
    ASSUME IInv, OrphansAreFaults, Fault, NEW s, Orphans' \subseteq Orphans \cup {s}
    PROVE  OrphansAreFaults'
<1>1. /\ IsFiniteSet(Orphans \cup {s})
      /\ Cardinality(Orphans \cup {s}) <= Cardinality(Orphans) + 1
      /\ Cardinality(Orphans \cup {s}) \in Nat
  <2>1. Cardinality(Orphans \cup {s}) =
            IF s \in Orphans THEN Cardinality(Orphans) ELSE Cardinality(Orphans) + 1
    BY OrphansCounted, FS_AddElement
  <2>2. IsFiniteSet(Orphans \cup {s})
    BY OrphansCounted, FS_AddElement
  <2> QED
    BY <2>1, <2>2, OrphansCounted, FS_CardinalityType
<1>2. Cardinality(Orphans') <= Cardinality(Orphans \cup {s}) /\ Cardinality(Orphans') \in Nat
  BY <1>1, FS_Subset, FS_CardinalityType
<1> QED
  BY <1>1, <1>2, OrphansCounted DEF OrphansAreFaults, Orphans, Fault

(* A request leaves its last point.                                          *)
LEMMA OrphansOfOne ==
    ASSUME IInv, NEW r \in Requests, \A q \in Requests \ {r} : Same(q),
           UNCHANGED <<session, canonical>>, stored' \subseteq stored
    PROVE  /\ Orphans' \subseteq Orphans \cup {target[r]}
           /\ pc[r] # "cleanup" => Orphans' \subseteq Orphans
           /\ target[r] \notin stored' => Orphans' \subseteq Orphans
<1>1. \A q \in Requests : q # r => pc'[q] = pc[q] /\ target'[q] = target[q]
  BY DEF Same
<1>2. ASSUME NEW s \in Orphans', s # target[r] \/ pc[r] # "cleanup"
      PROVE  s \in Orphans
  BY <1>1, <1>2 DEF Orphans, Unreachable
<1> QED
  BY <1>2 DEF Orphans

(* The object of a session that is not final yet does not count; with its    *)
(* commit it stands for the content or waits to be deleted.                  *)
LEMMA CommitOrphans ==
    ASSUME IInv, NEW r \in Requests, Commit(r) \/ CommitUnacknowledged(r)
    PROVE  /\ Orphans' \subseteq Orphans \cup {target[r]}
           /\ Commit(r) => Orphans' \subseteq Orphans
<1> DEFINE s == target[r]
           c == Content[s]
<1> Effects(r) /\ pc[r] = "acquired"
  BY Committing DEF IInv
<1>0. /\ s \in Sessions /\ c \in Contents /\ session[s] = "UPLOADED"
      /\ pc[r] = "acquired" /\ dup[r] = (canonical[c] # NoSession)
  BY ContentOf DEF IInv, Kept, Holds, Effects, HasRow, InTransaction
<1>1. /\ \A q \in Requests : q # r => pc'[q] = pc[q] /\ target'[q] = target[q]
      /\ pc'[r] # "idle" => target'[r] = s
      /\ Commit(r) => pc'[r] = (IF dup[r] THEN "cleanup" ELSE "idle")
      /\ \A u \in Sessions : session'[u] = IF u = s THEN "FINALIZED" ELSE session[u]
      /\ \A d \in Contents : canonical'[d] =
             IF d = c /\ canonical[c] = NoSession THEN s ELSE canonical[d]
      /\ stored' = stored
  <2>1. /\ session' = [session EXCEPT ![s] = "FINALIZED"]
        /\ canonical' = [canonical EXCEPT ![c] = KeyOf(c, s)]
        /\ stored' = stored
    BY DEF Effects
  <2>2. /\ \A u \in Sessions : session'[u] = IF u = s THEN "FINALIZED" ELSE session[u]
        /\ \A d \in Contents : canonical'[d] =
               IF d = c /\ canonical[c] = NoSession THEN s ELSE canonical[d]
    BY <1>0, <2>1 DEF IInv, TypeOK, KeyOf
  <2> QED
    BY <2>1, <2>2, Committing DEF IInv, Same
<1>2. ASSUME NEW u \in Orphans', u # s
      PROVE  u \in Orphans
  <2>1. u \in Sessions /\ u \in stored /\ Content[u] \in Contents /\ u # NoSession
    BY <1>1, ContentOf, UploadAssumption DEF Orphans, IInv, TypeOK, UploadAssumption
  <2>2. canonical'[Content[u]] # u => canonical[Content[u]] # u
    BY <1>1, <2>1
  <2>3. \A q \in Requests :
            pc[q] = "cleanup" => pc'[q] = "cleanup" /\ target'[q] = target[q]
    BY <1>0, <1>1
  <2> QED
    BY <1>1, <1>2, <2>1, <2>2, <2>3 DEF Orphans, Unreachable
<1>3. ASSUME Commit(r)
      PROVE  s \notin Orphans'
  <2>1. CASE dup[r]
    BY <1>1, <1>3, <2>1 DEF Orphans, Unreachable
  <2>2. CASE ~dup[r]
    BY <1>0, <1>1, <2>2 DEF Orphans, Unreachable
  <2> QED
    BY <2>1, <2>2
<1> QED
  BY <1>2, <1>3

LEMMA OrphansStep == IInv /\ OrphansAreFaults /\ [Next]_vars => OrphansAreFaults'
<1> SUFFICES ASSUME IInv, OrphansAreFaults, [Next]_vars
             PROVE  OrphansAreFaults'
  OBVIOUS
<1> USE DEF database, request
<1>1. CASE UNCHANGED <<session, stored, canonical, pc, target, faults>>
  <2>1. Orphans' \subseteq Orphans
    BY <1>1 DEF Orphans, Unreachable
  <2> QED
    BY <1>1, <2>1, NoNewOrphan
<1>2. ASSUME NEW s \in Sessions, Stream(s) PROVE OrphansAreFaults'
  <2>1. Orphans' \subseteq Orphans
    BY <1>2 DEF Stream, Put, Orphans, Unreachable
  <2> QED
    BY <1>2, <2>1, NoNewOrphan DEF Stream
<1>3. ASSUME NEW s \in Sessions, OpenSession(s) \/ Expire(s) PROVE OrphansAreFaults'
  <2>1. \A u \in Sessions : session'[u] \in {"FINALIZED", "ABANDONED"} => session'[u] = session[u]
    BY <1>3 DEF OpenSession, Expire, IInv, TypeOK
  <2>2. stored \subseteq Sessions /\ UNCHANGED <<stored, canonical, pc, target, faults>>
    BY <1>3 DEF OpenSession, Expire, IInv, TypeOK
  <2>3. Orphans' \subseteq Orphans
    BY <2>1, <2>2 DEF Orphans, Unreachable
  <2> QED
    BY <2>2, <2>3, NoNewOrphan
<1>4. ASSUME NEW s \in Sessions, AbandonUpload(s) PROVE OrphansAreFaults'
  <2>1. \A u \in Sessions : u # s => session'[u] = session[u]
    BY <1>4 DEF AbandonUpload, IInv, TypeOK
  <2>2. stored \subseteq Sessions /\ UNCHANGED <<stored, canonical, pc, target>>
    BY <1>4 DEF AbandonUpload, IInv, TypeOK
  <2>3. Orphans' \subseteq Orphans \cup {s}
    BY <2>1, <2>2 DEF Orphans, Unreachable
  <2> QED
    BY <1>4, <2>3, OneNewOrphan DEF AbandonUpload
<1>5. ASSUME NEW r \in Requests, NEW s \in Sessions, Begin(r, s) PROVE OrphansAreFaults'
  <2>1. /\ pc[r] = "idle" /\ UNCHANGED <<session, stored, canonical, faults>>
        /\ \A q \in Requests : q # r => pc'[q] = pc[q] /\ target'[q] = target[q]
    BY <1>5 DEF Begin, IInv, TypeOK
  <2>2. Orphans' \subseteq Orphans
    BY <2>1 DEF Orphans, Unreachable
  <2> QED
    BY <2>1, <2>2, NoNewOrphan
<1>6. ASSUME NEW r \in Requests, Acquire(r) \/ Provides(r) \/ Refuses(r)
      PROVE  OrphansAreFaults'
  <2>1. \A q \in Requests \ {r} : Same(q)
    BY <1>6, Providing, Refusing, Leaving DEF Acquire, IInv, TypeOK, Same
  <2>2. pc[r] # "cleanup" /\ UNCHANGED <<session, canonical, stored, faults>>
    BY <1>6, Providing, Refusing DEF Acquire, HasRow, IInv
  <2>3. Orphans' \subseteq Orphans
    BY <2>1, <2>2, OrphansOfOne
  <2> QED
    BY <2>2, <2>3, NoNewOrphan
<1>7. ASSUME NEW r \in Requests, Commit(r) PROVE OrphansAreFaults'
  <2>1. Orphans' \subseteq Orphans
    BY <1>7, CommitOrphans DEF Commit
  <2> QED
    BY <1>7, <2>1, NoNewOrphan DEF Commit
<1>8. ASSUME NEW r \in Requests, CommitUnacknowledged(r) PROVE OrphansAreFaults'
  <2>1. Orphans' \subseteq Orphans \cup {target[r]}
    BY <1>8, CommitOrphans DEF CommitUnacknowledged
  <2> QED
    BY <1>8, <2>1, OneNewOrphan DEF CommitUnacknowledged
<1>9. ASSUME NEW r \in Requests, Fail(r) \/ CleanupFails(r) \/ Crash(r) PROVE OrphansAreFaults'
  <2>1. \A q \in Requests \ {r} : Same(q)
    BY <1>9, Leaving DEF Fail, CleanupFails, Crash, IInv
  <2>2. Fault /\ UNCHANGED <<session, canonical, stored>>
    BY <1>9 DEF Fail, CleanupFails, Crash
  <2>3. Orphans' \subseteq Orphans \cup {target[r]}
    BY <2>1, <2>2, OrphansOfOne
  <2> QED
    BY <2>2, <2>3, OneNewOrphan
<1>10. ASSUME NEW r \in Requests, Compensate(r) PROVE OrphansAreFaults'
  <2>1. /\ pc[r] # "cleanup" /\ \A q \in Requests \ {r} : Same(q)
        /\ stored' \subseteq stored /\ UNCHANGED <<session, canonical, faults>>
    BY <1>10, Leaving DEF Compensate, Delete, IInv
  <2>2. Orphans' \subseteq Orphans
    BY <2>1, OrphansOfOne
  <2> QED
    BY <2>1, <2>2, NoNewOrphan
<1>11. ASSUME NEW r \in Requests, Cleanup(r) PROVE OrphansAreFaults'
  <2>1. /\ target[r] \notin stored' /\ \A q \in Requests \ {r} : Same(q)
        /\ stored' \subseteq stored /\ UNCHANGED <<session, canonical, faults>>
    BY <1>11, Leaving DEF Cleanup, Delete, IInv
  <2>2. Orphans' \subseteq Orphans
    BY <2>1, OrphansOfOne
  <2> QED
    BY <2>1, <2>2, NoNewOrphan
<1>12. ASSUME NEW s \in Sessions, Late(s) PROVE OrphansAreFaults'
  BY <1>1, <1>12 DEF Late
<1>13. ASSUME NEW n \in Names, NEW x \in Spellings, CreateByHand(n, x)
       PROVE  OrphansAreFaults'
  BY <1>1, <1>13 DEF CreateByHand
<1>14. ASSUME NEW c \in Contents, Recount(c) \/ Overwrite(c) PROVE OrphansAreFaults'
  BY <1>1, <1>14 DEF Recount, Overwrite
<1>15. CASE Settled \/ UNCHANGED vars
  BY <1>1, <1>15 DEF Settled, vars
<1> QED
  BY <1>2, <1>3, <1>4, <1>5, <1>6, <1>7, <1>8, <1>9, <1>10, <1>11, <1>12, <1>13,
     <1>14, <1>15, ResolveCases DEF Next

-----------------------------------------------------------------------------
(* Theorems.                                                                 *)

LEMMA InitHolds == Init => IInv
<1> SUFFICES ASSUME Init PROVE IInv
  OBVIOUS
<1>1. TypeOK
  BY UploadAssumption
     DEF Init, TypeOK, UploadAssumption, SessionStatus, PC, InTransaction
<1>2. Kept
  BY ContentOf
     DEF Init, Kept, Known, Finalized, Holds, HasRow, Exclusive, InTransaction
<1>3. Counts
  <2>1. \A c \in Contents : Versions(c) = {}
    BY DEF Init, Versions
  <2>2. \A c \in Contents : Cardinality(Versions(c)) = 0
    BY <2>1, FS_EmptySet
  <2>3. \A c \in Contents :
            canonical[c] = NoSession /\ count[c] = 0 /\ counted[c] = 0
    BY DEF Init
  <2> QED
    BY <2>2, <2>3 DEF Counts, Counted
<1> QED
  BY <1>1, <1>2, <1>3 DEF IInv

(* What documents.py and the database together keep in every state.          *)
THEOREM Invariance == Spec => []IInv
<1>1. IInv /\ [Next]_vars => IInv'
  BY TypeStep, KeptStep, CountsStep DEF IInv, Kept
<1> QED
  BY InitHolds, <1>1, PTL DEF Spec

(* The columns of sessions, stored objects and names, and the local state of *)
(* finalize_upload, are always of their types.                               *)
THEOREM UploadsTyped == Spec => []TypeOK
  BY Invariance, PTL DEF IInv

(* The bytes of a document version are in the store unless a compensation    *)
(* took them: the clean-up of duplicates in finalize_upload deletes none.    *)
THEOREM ContentIsKept == Spec => []ContentKept
<1>1. IInv => ContentKept
  <2> SUFFICES ASSUME IInv, NEW s \in Sessions, session[s] = "FINALIZED"
               PROVE  canonical[Content[s]] \in stored \cup undone
    BY DEF ContentKept
  <2>1. Content[s] \in Contents /\ canonical[Content[s]] # NoSession
    BY ContentOf DEF IInv, Kept, Finalized
  <2> QED
    BY <2>1 DEF IInv, Kept, Known
<1> QED
  BY <1>1, Invariance, PTL

(* A reference count never exceeds the versions and never drops to zero while *)
(* there are some, although reconcile counts before it locks.                *)
THEOREM CountsCover == Spec => []CountCoversVersions
<1>1. IInv => CountCoversVersions
  BY DEF IInv, Counts, Counted, CountCoversVersions
<1> QED
  BY <1>1, Invariance, PTL

(* Whatever overlaps, finalize requests do not wait for each other in a      *)
(* circle: the row of the content is taken before any name, the institution  *)
(* before the period.                                                        *)
THEOREM RequestsGoOn == Spec => []SomeRequestGoesOn
<1>1. Init => Ordered
  BY DEF Init, Ordered, InOrder
<1>2. Ordered => SomeRequestGoesOn
  BY WaitsEnd DEF SomeRequestGoesOn
<1> QED
  BY <1>1, <1>2, OrderedStep, UploadsTyped, PTL DEF Spec

(* Every object that finalize_upload, its compensation and its clean-up leave *)
(* unreferenced is the work of a fault, one object by each at most.          *)
THEOREM OrphansComeFromFaults == Spec => []OrphansAreFaults
<1>1. Init => OrphansAreFaults
  <2> SUFFICES ASSUME Init PROVE Cardinality(Orphans) <= faults
    BY DEF OrphansAreFaults, Orphans
  <2>1. Orphans = {} /\ faults = 0
    BY DEF Init, Orphans
  <2> QED
    BY <2>1, FS_EmptySet
<1> QED
  BY <1>1, OrphansStep, Invariance, PTL DEF Spec

-----------------------------------------------------------------------------
(* The refinement of ContentStore.                                           *)

(* What a request is at work on was uploaded.                                *)
Opened ==
    \A r \in Requests : pc[r] # "idle" =>
        session[target[r]] \in {"UPLOADED", "FINALIZED", "EXPIRED"}

(* A session that moves is not taken back.                                   *)
LEMMA OpenedKept ==
    ASSUME IInv, Opened, NEW s \in Sessions, NEW x \in SessionStatus,
           session' = [session EXCEPT ![s] = x],
           \/ session[s] = "NONE"
           \/ session[s] = "UPLOADED" /\ x \in {"FINALIZED", "EXPIRED"},
           \A r \in Requests :
               pc'[r] # "idle" => pc[r] # "idle" /\ target'[r] = target[r]
    PROVE  Opened'
<1> SUFFICES ASSUME NEW r \in Requests, pc'[r] # "idle"
             PROVE  session'[target'[r]] \in {"UPLOADED", "FINALIZED", "EXPIRED"}
  BY DEF Opened
<1>1. /\ target'[r] = target[r] /\ target[r] \in Sessions
      /\ session[target[r]] \in {"UPLOADED", "FINALIZED", "EXPIRED"}
  BY DEF Opened, IInv, Kept, Holds
<1> QED
  BY <1>1 DEF IInv, TypeOK

LEMMA OpenedStep == IInv /\ Opened /\ [Next]_vars => Opened'
<1> SUFFICES ASSUME IInv, Opened, [Next]_vars PROVE Opened'
  OBVIOUS
<1> USE DEF database, request, recount
<1>1. ASSUME UNCHANGED session,
             \A r \in Requests :
                 pc'[r] # "idle" => pc[r] # "idle" /\ target'[r] = target[r]
      PROVE  Opened'
  BY <1>1 DEF Opened
<1>2. ASSUME NEW s \in Sessions,
             OpenSession(s) \/ AbandonUpload(s) \/ Expire(s)
      PROVE  Opened'
  BY <1>2, OpenedKept DEF OpenSession, AbandonUpload, Expire, SessionStatus
<1>3. ASSUME NEW r \in Requests, Commit(r) \/ CommitUnacknowledged(r)
      PROVE  Opened'
  <2>1. /\ session' = [session EXCEPT ![target[r]] = "FINALIZED"]
        /\ \A q \in Requests \ {r} : Same(q)
        /\ pc'[r] # "idle" => target'[r] = target[r]
    BY <1>3, Committing DEF Effects, IInv
  <2>2. pc[r] = "acquired"
    BY <1>3, Committing DEF IInv
  <2>3. target[r] \in Sessions /\ session[target[r]] = "UPLOADED"
    BY <2>2 DEF IInv, Kept, Holds, InTransaction
  <2>4. \A q \in Requests : pc'[q] # "idle" => pc[q] # "idle" /\ target'[q] = target[q]
    BY <2>1, <2>2 DEF Same
  <2> QED
    BY <2>1, <2>3, <2>4, OpenedKept DEF SessionStatus
<1>4. ASSUME NEW r \in Requests, NEW s \in Sessions, Begin(r, s)
      PROVE  Opened'
  BY <1>4 DEF Begin, Opened, IInv, TypeOK
<1>5. ASSUME NEW r \in Requests,
             \/ Acquire(r) \/ Resolve(r) \/ Fail(r) \/ Compensate(r)
             \/ Cleanup(r) \/ CleanupFails(r) \/ Crash(r)
      PROVE  Opened'
  <2>1. CASE Acquire(r)
    BY <1>1, <2>1 DEF Acquire, IInv, TypeOK
  <2>2. CASE Provides(r)
    <3>1. /\ session' = session /\ target' = target /\ HasRow(r)
          /\ \A q \in Requests \ {r} : Same(q)
      BY <2>2, Providing DEF IInv
    <3> QED
      BY <1>1, <3>1 DEF Same, HasRow
  <2>3. CASE ~Acquire(r) /\ ~Provides(r)
    <3>1. /\ session' = session
          /\ End(r) \/ (pc[r] # "idle" /\ Raise(r))
      BY <1>5, <2>3, ResolveCases, Refusing
         DEF Fail, Compensate, Cleanup, CleanupFails, Crash, InTransaction
    <3>2. /\ \A q \in Requests \ {r} : Same(q)
          /\ pc'[r] # "idle" => pc[r] # "idle" /\ target'[r] = target[r]
      BY <3>1, Leaving DEF IInv
    <3> QED
      BY <1>1, <3>1, <3>2 DEF Same
  <2> QED
    BY <2>1, <2>2, <2>3
<1>6. ASSUME NEW s \in Sessions, Stream(s) \/ Late(s) PROVE Opened'
  BY <1>1, <1>6 DEF Stream, Late
<1>7. ASSUME NEW c \in Contents, Recount(c) \/ Overwrite(c) PROVE Opened'
  BY <1>1, <1>7 DEF Recount, Overwrite
<1>9. ASSUME NEW n \in Names, NEW x \in Spellings, CreateByHand(n, x) PROVE Opened'
  BY <1>1, <1>9 DEF CreateByHand
<1>8. CASE UNCHANGED vars \/ Settled
  BY <1>1, <1>8 DEF vars, Settled
<1> QED
  BY <1>2, <1>3, <1>4, <1>5, <1>6, <1>7, <1>8, <1>9 DEF Next

(* The commit of a finalize is the publication of its upload.                *)
LEMMA CommitPublishes ==
    ASSUME IInv, NEW r \in Requests, Effects(r)
    PROVE  Store!Next
<1>1. pc[r] = "acquired"
  BY DEF Effects
<1>2. PICK s \in Sessions :
          s = target[r] /\ session[s] = "UPLOADED" /\ s \in stored \cup undone
  BY <1>1 DEF IInv, Kept, Holds, InTransaction
<1>3. /\ session' = [session EXCEPT ![s] = "FINALIZED"]
      /\ canonical' = [canonical EXCEPT ![Content[s]] =
             IF canonical[Content[s]] = NoSession THEN s
                                                  ELSE canonical[Content[s]]]
      /\ count' = [count EXCEPT ![Content[s]] = count[Content[s]] + 1]
      /\ UNCHANGED <<stored, undone>>
  BY <1>2 DEF Effects, KeyOf
<1>4. Store!Publish(s)
  BY <1>2, <1>3 DEF Store!Publish, Store!Becomes
<1> QED
  BY <1>4 DEF Store!Next

(* Both modules count in the same way.                                       *)
LEMMA SameCardinality == \A S : Cardinality(S) = Store!Cardinality(S)
  BY DEF Cardinality, Store!Cardinality

(* An overwritten count is one that reconcile has counted earlier.           *)
LEMMA OverwriteRecounts ==
    ASSUME IInv, NEW c \in Contents, Overwrite(c)
    PROVE  Store!Next
<1>1. counted[c] \in Nat /\ counted[c] # 0
      /\ counted[c] <= Cardinality(Versions(c))
  BY DEF Overwrite, IInv, TypeOK, Counts, Counted
<1>2. counted[c] \in 1..Cardinality(Versions(c))
  BY <1>1, VersionsCounted
<1>3. Store!Recount(c)
  <2>1. counted[c] \in 1..Cardinality({s \in Sessions :
                              session[s] = "FINALIZED" /\ Content[s] = c})
    BY <1>2 DEF Versions
  <2>2. /\ count' = [count EXCEPT ![c] = counted[c]]
        /\ UNCHANGED <<session, stored, canonical, undone>>
    BY DEF Overwrite, request
  <2> QED
    BY <2>1, <2>2, SameCardinality, Zenon DEF Store!Recount
<1> QED
  BY <1>3 DEF Store!Next

(* Any other step writes or removes one object, turns one session, or is not *)
(* seen in the store.                                                        *)
LEMMA RefinementStep ==
    ASSUME IInv, Opened, [Next]_vars
    PROVE  [Store!Next]_(Store!storeVars)
<1> USE DEF database, request, recount
<1>1. ASSUME UNCHANGED <<session, stored, canonical, undone, count>>
      PROVE  UNCHANGED Store!storeVars
  BY <1>1 DEF Store!storeVars
<1>2. ASSUME NEW s \in Sessions, Stream(s) PROVE Store!Next
  <2>1. Store!Write(s)
    BY <1>2 DEF Stream, Put, Store!Write
  <2> QED
    BY <2>1 DEF Store!Next
<1>3. ASSUME NEW s \in Sessions,
             OpenSession(s) \/ AbandonUpload(s) \/ Expire(s)
      PROVE  Store!Next
  <2>1. Store!Turn(s)
    BY <1>3 DEF OpenSession, AbandonUpload, Expire, Store!Turn, Store!Becomes
  <2> QED
    BY <2>1 DEF Store!Next
<1>4. ASSUME NEW r \in Requests, Commit(r) \/ CommitUnacknowledged(r)
      PROVE  Store!Next
  BY <1>4, CommitPublishes, Committing DEF IInv
<1>5. ASSUME NEW r \in Requests, Compensate(r)
      PROVE  [Store!Next]_(Store!storeVars)
  <2>1. PICK s \in Sessions :
            s = target[r] /\ session[s] \notin {"NONE", "ABANDONED"}
    BY <1>5 DEF Compensate, Opened, IInv, Kept, Holds
  <2>2. CASE UNCHANGED <<stored, undone>>
    BY <1>1, <1>5, <2>2 DEF Compensate
  <2>3. CASE Delete(target[r]) /\ undone' = undone \cup {target[r]}
    <3>1. Store!Undo(s)
      BY <1>5, <2>1, <2>3 DEF Compensate, Delete, Store!Undo
    <3> QED
      BY <3>1 DEF Store!Next
  <2> QED
    BY <1>5, <2>2, <2>3 DEF Compensate
<1>6. ASSUME NEW r \in Requests, Cleanup(r) PROVE Store!Next
  <2>1. PICK s \in Sessions :
            /\ s = target[r] /\ session[s] = "FINALIZED"
            /\ canonical[Content[s]] # s
    BY <1>6 DEF Cleanup, IInv, Kept, Holds
  <2>2. Store!RemoveDuplicate(s)
    BY <1>6, <2>1 DEF Cleanup, Delete, Store!RemoveDuplicate
  <2> QED
    BY <2>2 DEF Store!Next
<1>7. ASSUME NEW c \in Contents, Overwrite(c) PROVE Store!Next
  BY <1>7, OverwriteRecounts
<1>8. ASSUME NEW r \in Requests,
             \/ Acquire(r) \/ Provides(r) \/ Refuses(r)
             \/ Fail(r) \/ CleanupFails(r) \/ Crash(r)
             \/ \E s \in Sessions : Begin(r, s)
      PROVE  UNCHANGED Store!storeVars
  BY <1>1, <1>8, Providing, Refusing DEF IInv, Acquire, Fail, CleanupFails,
                                         Crash, Begin
<1>9. ASSUME NEW s \in Sessions, Late(s) PROVE UNCHANGED Store!storeVars
  BY <1>1, <1>9 DEF Late
<1>10. ASSUME NEW c \in Contents, Recount(c) PROVE UNCHANGED Store!storeVars
  BY <1>1, <1>10 DEF Recount
<1>12. ASSUME NEW n \in Names, NEW x \in Spellings, CreateByHand(n, x)
       PROVE  UNCHANGED Store!storeVars
  BY <1>1, <1>12 DEF CreateByHand
<1>11. CASE UNCHANGED vars \/ Settled
  BY <1>1, <1>11 DEF vars, Settled
<1> QED
  BY <1>2, <1>3, <1>4, <1>5, <1>6, <1>7, <1>8, <1>9, <1>10, <1>11, <1>12,
     ResolveCases DEF Next

(* Overlapping finalize requests, the object store beside their transactions *)
(* and a reconciliation act on content in single steps, for any number of    *)
(* uploads, requests, faults and reconciliations.                            *)
THEOREM Refinement == Spec => ImplementsStore
<1>1. Init => Store!Init /\ Opened
  BY DEF Init, Store!Init, Opened
<1> QED
  BY <1>1, OpenedStep, RefinementStep, Invariance, PTL
     DEF Spec, ImplementsStore, Store!Spec

-----------------------------------------------------------------------------
(* Extraction.                                                               *)

(* An extraction leaves the uploads as they are.                             *)
THEOREM ExtractionKeepsUploads == ExtractionSpec => Spec
<1>1. ExtractionInit => Init
  BY DEF ExtractionInit
<1>2. [ExtractionNext]_allVars => [Next]_vars
  BY DEF ExtractionNext, allVars, Extract, ExtractTables, ExtractWithModel, Done,
         NameAmbiguous, LabelAmbiguous, GiveUp
<1> QED
  BY <1>1, <1>2, PTL DEF ExtractionSpec, Spec

(* What a finalize commits stays: its session, and the rows of names.        *)
Grown ==
    /\ \A s \in Sessions : session[s] = "FINALIZED" => session'[s] = "FINALIZED"
    /\ \A n \in Names : rows[n] \subseteq rows'[n]

LEMMA GrownStep ==
    ASSUME TypeOK, [Next]_vars PROVE Grown
<1> USE DEF database, request
<1>1. session \in [Sessions -> SessionStatus] /\ rows \in [Names -> SUBSET Spellings]
  BY DEF TypeOK
<1>2. CASE UNCHANGED <<session, rows>>
  BY <1>1, <1>2 DEF Grown
<1>3. ASSUME NEW s \in Sessions, OpenSession(s) \/ AbandonUpload(s) \/ Expire(s)
      PROVE  Grown
  <2>1. /\ rows' = rows /\ session[s] # "FINALIZED"
        /\ \E x : session' = [session EXCEPT ![s] = x]
    BY <1>3 DEF OpenSession, AbandonUpload, Expire
  <2> QED
    BY <1>1, <2>1 DEF Grown
<1>4. ASSUME NEW s \in Sessions,
             Stream(s) \/ Late(s) \/ \E r \in Requests : Begin(r, s)
      PROVE  Grown
  BY <1>2, <1>4 DEF Stream, Late, Begin
<1>5. ASSUME NEW r \in Requests, Commit(r) \/ CommitUnacknowledged(r)
      PROVE  Grown
  <2>1. /\ session' = [session EXCEPT ![target[r]] = "FINALIZED"]
        /\ \A n \in Names : rows[n] \subseteq rows'[n]
    BY <1>5 DEF Commit, CommitUnacknowledged, Effects
  <2> QED
    BY <1>1, <2>1 DEF Grown
<1>6. ASSUME NEW r \in Requests,
             \/ Acquire(r) \/ Provides(r) \/ Refuses(r) \/ Fail(r)
             \/ Compensate(r) \/ Cleanup(r) \/ CleanupFails(r) \/ Crash(r)
      PROVE  Grown
  BY <1>2, <1>6, Providing, Refusing DEF Acquire, Fail, Compensate, Cleanup,
                                         CleanupFails, Crash
<1>7. ASSUME NEW c \in Contents, Recount(c) \/ Overwrite(c)
      PROVE  Grown
  BY <1>2, <1>7 DEF Recount, Overwrite
<1>9. ASSUME NEW n \in Names, NEW x \in Spellings, CreateByHand(n, x) PROVE Grown
  BY <1>1, <1>9 DEF CreateByHand, Grown
<1>8. CASE Settled \/ UNCHANGED vars
  BY <1>2, <1>8 DEF Settled, vars
<1> QED
  BY <1>3, <1>4, <1>5, <1>6, <1>7, <1>8, <1>9, ResolveCases DEF Next

(* Places are in a total order, so that the first of them are few.           *)
Places == Nat \X Nat

LEMMA PlacesOrdered ==
    /\ \A p \in Places : ~Precedes(p, p)
    /\ \A p, o \in Places : p # o => Precedes(p, o) \/ Precedes(o, p)
    /\ \A p, o, q \in Places : Precedes(p, o) /\ Precedes(o, q) => Precedes(p, q)
<1>1. \A p \in Places : p[1] \in Nat /\ p[2] \in Nat
  BY DEF Places
<1>2. \A p, o \in Places : p[1] = o[1] /\ p[2] = o[2] => p = o
  BY DEF Places
<1>3. \A p \in Places : ~Precedes(p, p)
  BY <1>1 DEF Precedes
<1>4. \A p, o \in Places : p # o => Precedes(p, o) \/ Precedes(o, p)
  BY <1>1, <1>2 DEF Precedes
<1>5. \A p, o, q \in Places : Precedes(p, o) /\ Precedes(o, q) => Precedes(p, q)
  BY <1>1 DEF Precedes
<1> QED
  BY <1>3, <1>4, <1>5

LEMMA BeforeGrows ==
    ASSUME NEW P \in SUBSET Places, IsFiniteSet(P)
    PROVE  /\ \A p \in P : Cardinality(Before(P, p)) \in Nat
           /\ \A p, o \in P : Precedes(p, o) =>
                  Cardinality(Before(P, p)) < Cardinality(Before(P, o))
<1>1. \A p \in P : /\ Before(P, p) \in SUBSET P
                   /\ IsFiniteSet(Before(P, p))
                   /\ Cardinality(Before(P, p)) \in Nat
  BY FS_Subset, FS_CardinalityType DEF Before
<1>2. ASSUME NEW p \in P, NEW o \in P, Precedes(p, o)
      PROVE  Cardinality(Before(P, p)) < Cardinality(Before(P, o))
  <2>1. Before(P, p) \in SUBSET Before(P, o)
    BY <1>2, PlacesOrdered DEF Before
  <2>2. p \in Before(P, o) /\ p \notin Before(P, p)
    BY <1>2, PlacesOrdered DEF Before
  <2>3. /\ Cardinality(Before(P, p)) <= Cardinality(Before(P, o))
        /\ Cardinality(Before(P, p)) # Cardinality(Before(P, o))
    BY <1>1, <2>1, <2>2, FS_Subset
  <2> QED
    BY <1>1, <2>3
<1> QED
  BY <1>1, <1>2

LEMMA FirstAreFew ==
    ASSUME NEW P \in SUBSET Places, IsFiniteSet(P)
    PROVE  IsFiniteSet(FirstOf(P)) /\ Cardinality(FirstOf(P)) <= MaxCandidates
<1> DEFINE f == [p \in FirstOf(P) |-> Cardinality(Before(P, p))]
<1>1. MaxCandidates \in Nat \ {0}
  BY ExtractionAssumption
<1>2. FirstOf(P) \in SUBSET P
  BY DEF FirstOf
<1>3. f \in [FirstOf(P) -> 0..(MaxCandidates - 1)]
  BY <1>1, <1>2, BeforeGrows DEF FirstOf
<1>4. ASSUME NEW p \in FirstOf(P), NEW o \in FirstOf(P), p # o PROVE f[p] # f[o]
  <2>1. Precedes(p, o) \/ Precedes(o, p)
    BY <1>2, <1>4, PlacesOrdered
  <2>2. f[p] \in Int /\ f[o] \in Int /\ (f[p] < f[o] \/ f[o] < f[p])
    BY <1>2, <2>1, BeforeGrows
  <2> HIDE DEF f
  <2> QED
    BY <2>2
<1> HIDE DEF f
<1>5. f \in Injection(FirstOf(P), 0..(MaxCandidates - 1))
  BY <1>3, <1>4 DEF Injection, IsInjective
<1>6. /\ IsFiniteSet(0..(MaxCandidates - 1))
      /\ Cardinality(0..(MaxCandidates - 1)) = MaxCandidates
  BY <1>1, FS_Interval
<1> QED
  BY <1>5, <1>6, FS_Injection

(* A list of what was found: where it stands, and what is made of it.        *)
Sourced(c) ==
    /\ c.chunk \in DOMAIN Chunks[Content[c.version]]
    /\ c.figure \in Chunks[Content[c.version]][c.chunk].contains
    /\ c.method = "LLM_ASSISTED" => c.metric \in Active /\ c.period # "other"

Listed(found, s, method) ==
    /\ DOMAIN found \in SUBSET Places /\ IsFiniteSet(DOMAIN found)
    /\ \A p \in DOMAIN found :
           /\ found[p] \in Candidate
           /\ found[p].version = s /\ found[p].method = method
           /\ Sourced(found[p])

LEMMA StatusType == \A s, figure : Status(s, figure) \in {"NORMALIZED", "NEEDS_REVIEW"}
  BY DEF Status

LEMMA ChunkTypes ==
    ASSUME NEW s \in Sessions
    PROVE  /\ Readable(s) \in Seq(Chunk)
           /\ Filing[s] # <<>> => Readable(s) = Chunks[Content[s]]
           /\ \A i \in DOMAIN Readable(s) :
                  /\ i \in Nat
                  /\ Readable(s)[i].rows \in Seq(TableRow)
                  /\ Readable(s)[i] = Chunks[Content[s]][i]
                  /\ i \in DOMAIN Chunks[Content[s]]
<1>1. Chunks[Content[s]] \in Seq(Chunk)
  BY ExtractionAssumption, ContentOf
<1>2. Readable(s) = IF Filing[s] = <<>> THEN <<>> ELSE Chunks[Content[s]]
  BY DEF Readable
<1>3. Readable(s) \in Seq(Chunk)
  BY <1>1, <1>2
<1>4. \A i \in DOMAIN Readable(s) :
          Readable(s) = Chunks[Content[s]] /\ i \in DOMAIN Chunks[Content[s]]
  BY <1>2
<1>5. \A i \in DOMAIN Readable(s) : i \in 1..Len(Readable(s))
  BY <1>3, LenProperties
<1>6. \A i \in DOMAIN Readable(s) : i \in Nat /\ Readable(s)[i] \in Chunk
  BY <1>3, <1>5, ElementOfSeq, LenProperties
<1>7. \A chunk \in Chunk : chunk.rows \in Seq(TableRow)
  BY DEF Chunk
<1> QED
  BY <1>2, <1>3, <1>4, <1>6, <1>7

LEMMA RowsAreFinite ==
    ASSUME NEW s \in Sessions
    PROVE  /\ RowsOf(s) \in SUBSET Places /\ IsFiniteSet(RowsOf(s))
           /\ \A p \in RowsOf(s) :
                  /\ p[1] \in DOMAIN Readable(s)
                  /\ p[2] \in DOMAIN Readable(s)[p[1]].rows
                  /\ RowAt(s, p) \in TableRow
<1> DEFINE D == DOMAIN Readable(s)
<1> DEFINE f == [i \in D |-> {i} \X DOMAIN Readable(s)[i].rows]
<1> DEFINE R == {f[i] : i \in D}
<1>1. \A i \in D : /\ i \in Nat /\ Readable(s)[i].rows \in Seq(TableRow)
  BY ChunkTypes
<1>2. IsFiniteSet(D)
  <2>1. D = 1..Len(Readable(s)) /\ Len(Readable(s)) \in Nat
    BY ChunkTypes, LenProperties
  <2> QED
    BY <2>1, FS_Interval
<1>3. ASSUME NEW i \in D PROVE IsFiniteSet(f[i])
  <2>1. /\ DOMAIN Readable(s)[i].rows = 1..Len(Readable(s)[i].rows)
        /\ Len(Readable(s)[i].rows) \in Nat
    BY <1>1, LenProperties
  <2>2. IsFiniteSet(DOMAIN Readable(s)[i].rows)
    BY <2>1, FS_Interval
  <2>3. IsFiniteSet({i})
    BY FS_Singleton
  <2> QED
    BY <2>2, <2>3, FS_Product
<1>4. IsFiniteSet(R)
  <2>1. f \in Surjection(D, R)
    BY DEF Surjection
  <2> HIDE DEF f, R, D
  <2> QED
    BY <1>2, <2>1, FS_Surjection
<1>5. RowsOf(s) = UNION R
  BY DEF RowsOf
<1>6. IsFiniteSet(RowsOf(s))
  <2>1. \A T \in R : IsFiniteSet(T)
    <3> HIDE DEF f, D
    <3> QED
      BY <1>3
  <2> HIDE DEF R
  <2> QED
    BY <1>4, <1>5, <2>1, FS_UNION
<1>7. \A p \in RowsOf(s) : \E i \in D : p \in {i} \X DOMAIN Readable(s)[i].rows
  BY DEF RowsOf
<1>8. \A p \in RowsOf(s) :
          /\ p = <<p[1], p[2]>>
          /\ p[1] \in D /\ p[2] \in DOMAIN Readable(s)[p[1]].rows
  BY <1>7
<1>9. ASSUME NEW p \in RowsOf(s)
      PROVE  p \in Places /\ RowAt(s, p) \in TableRow
  <2>1. PICK i, j : i = p[1] /\ j = p[2] /\ p = <<i, j>> /\ i \in D
    BY <1>8
  <2>2. j \in 1..Len(Readable(s)[i].rows) /\ Len(Readable(s)[i].rows) \in Nat
    BY <1>1, <1>8, <2>1, LenProperties
  <2>3. Readable(s)[i].rows[j] \in TableRow
    BY <1>1, <2>1, <2>2, ElementOfSeq
  <2> QED
    BY <1>1, <2>1, <2>2, <2>3 DEF Places, RowAt
<1> QED
  BY <1>6, <1>8, <1>9

(* The rows of the tables are found where they stand.                        *)
LEMMA TablesListed ==
    ASSUME NEW s \in Sessions, NEW aliases \in Aliases
    PROVE  Listed(FromTables[s][aliases], s, "PARSER_TABLE")
<1> DEFINE found == FromTables[s][aliases]
<1> DEFINE D == RowsRead[s][aliases] \cap Named[s][aliases]
<1>1. DOMAIN found = D
  BY DEF FromTables
<1>2. D \in SUBSET {p \in RowsOf(s) : Matches(aliases, RowAt(s, p).label) # {}}
  BY DEF Named
<1>3. D \in SUBSET Places /\ IsFiniteSet(D)
  BY <1>2, RowsAreFinite, FS_Subset
<1>4. ASSUME NEW p \in D
      PROVE  /\ found[p] \in Candidate
             /\ found[p].version = s /\ found[p].method = "PARSER_TABLE"
             /\ Sourced(found[p])
  <2> DEFINE row == RowAt(s, p)
  <2> DEFINE metric == CHOOSE m \in Matches(aliases, row.label) : TRUE
  <2>1. found[p] = [version |-> s, chunk |-> p[1], label |-> row.label,
                    figure |-> row.figure, metric |-> metric,
                    method |-> "PARSER_TABLE", period |-> "none",
                    status |-> Status(s, row.figure)]
    BY DEF FromTables
  <2>2. /\ p[1] \in DOMAIN Readable(s) /\ p[2] \in DOMAIN Readable(s)[p[1]].rows
        /\ row \in TableRow
    BY <1>2, RowsAreFinite
  <2>3. row.label \in Labels /\ row.figure \in Figures
    BY <2>2 DEF TableRow
  <2>4. Matches(aliases, row.label) # {}
    BY <1>2
  <2>5. Matches(aliases, row.label) \subseteq Metrics
    <3>1. aliases \in [Labels -> SUBSET Metrics]
      BY ExtractionAssumption
    <3>2. DefinitionsOf \in [Labels -> SUBSET Metrics]
      BY ExtractionAssumption
    <3> HIDE DEF row
    <3> QED
      BY <2>3, <3>1, <3>2 DEF Matches
  <2>6. metric \in Metrics
    BY <2>4, <2>5
  <2>7. /\ p[1] \in Nat /\ p[1] \in DOMAIN Chunks[Content[s]]
        /\ Readable(s)[p[1]] = Chunks[Content[s]][p[1]]
    BY <2>2, ChunkTypes
  <2>8. row.figure \in Chunks[Content[s]][p[1]].contains
    <3>1. row = Chunks[Content[s]][p[1]].rows[p[2]]
      BY <2>7 DEF RowAt
    <3>2. p[2] \in DOMAIN Chunks[Content[s]][p[1]].rows
      BY <2>2, <2>7
    <3>3. Content[s] \in Contents
      BY ContentOf
    <3> HIDE DEF row
    <3> QED
      BY <2>7, <3>1, <3>2, <3>3, ExtractionAssumption
  <2>9. Status(s, row.figure) \in {"NORMALIZED", "NEEDS_REVIEW"}
    BY StatusType
  <2>10. "PARSER_TABLE" \in Methods
    BY DEF Methods
  <2> HIDE DEF row, metric, found, D
  <2>11. found[p] \in Candidate
    BY <2>1, <2>3, <2>6, <2>7, <2>9, <2>10 DEF Candidate
  <2> QED
    BY <2>1, <2>7, <2>8, <2>11 DEF Sourced
<1> HIDE DEF found, D
<1> QED
  BY <1>1, <1>3, <1>4 DEF Listed, found

(* A report is accepted where its figure stands.                             *)
LEMMA ReportsListed ==
    ASSUME NEW s \in Sessions, NEW reply \in Replies
    PROVE  Listed(FromModel(s, reply), s, "LLM_ASSISTED")
<1> DEFINE found == FromModel(s, reply)
<1> DEFINE kept == {i \in DOMAIN reply : Accepted(s, reply[i])}
<1> DEFINE D == {0} \X kept
<1>1. DOMAIN found = D
  BY DEF FromModel
<1>2. reply \in Seq(Report)
  BY ExtractionAssumption
<1>3. DOMAIN reply = 1..Len(reply) /\ Len(reply) \in Nat
  BY <1>2, LenProperties
<1>4. kept \in SUBSET (1..Len(reply)) /\ IsFiniteSet(kept)
  <2>1. kept \in SUBSET (1..Len(reply))
    BY <1>3
  <2>2. IsFiniteSet(1..Len(reply))
    BY <1>3, FS_Interval
  <2> HIDE DEF kept
  <2> QED
    BY <2>1, <2>2, FS_Subset
<1>5. D \in SUBSET Places /\ IsFiniteSet(D)
  <2>1. \A i \in kept : i \in Nat
    BY <1>3, <1>4
  <2>2. IsFiniteSet({0})
    BY FS_Singleton
  <2> HIDE DEF kept
  <2>3. D \in SUBSET Places
    BY <2>1 DEF Places
  <2> QED
    BY <1>4, <2>2, <2>3, FS_Product
<1>6. ASSUME NEW p \in D
      PROVE  /\ found[p] \in Candidate
             /\ found[p].version = s /\ found[p].method = "LLM_ASSISTED"
             /\ Sourced(found[p])
  <2> DEFINE report == reply[p[2]]
  <2>1. found[p] = [version |-> s, chunk |-> report.excerpt,
                    label |-> report.label, figure |-> report.figure,
                    metric |-> report.metric, method |-> "LLM_ASSISTED",
                    period |-> report.period,
                    status |-> Status(s, report.figure)]
    BY DEF FromModel
  <2>2. p[2] \in 1..Len(reply) /\ Accepted(s, report)
    BY <1>3
  <2>3. report \in Report
    BY <1>2, <2>2, ElementOfSeq
  <2>4. /\ report.label \in Labels /\ report.figure \in Figures
        /\ report.metric \in Metrics /\ report.excerpt \in Nat
        /\ report.period \in {"none", "own", "other"}
    BY <2>3 DEF Report
  <2>5. /\ report.metric \in Active /\ report.excerpt \in DOMAIN Readable(s)
        /\ report.figure \in Readable(s)[report.excerpt].contains
        /\ report.period # "other"
    BY <2>2 DEF Accepted, ConflictingPeriod
  <2>6. /\ report.excerpt \in DOMAIN Chunks[Content[s]]
        /\ report.figure \in Chunks[Content[s]][report.excerpt].contains
    BY <2>5, ChunkTypes
  <2>7. Status(s, report.figure) \in {"NORMALIZED", "NEEDS_REVIEW"}
    BY StatusType
  <2>8. "LLM_ASSISTED" \in Methods
    BY DEF Methods
  <2> HIDE DEF report, found, D
  <2>9. found[p] \in Candidate
    BY <2>1, <2>4, <2>7, <2>8 DEF Candidate
  <2> QED
    BY <2>1, <2>5, <2>6, <2>9 DEF Sourced
<1> HIDE DEF found, D
<1> QED
  BY <1>1, <1>5, <1>6 DEF Listed, found

(* What is created are different figures of one version, and not many.      *)
LEMMA CreatedOnce ==
    ASSUME NEW s \in Sessions, NEW method, NEW found, Listed(found, s, method),
           candidates' = CreateAll(found)
    PROVE  \E new :
              /\ candidates' = candidates \cup new
              /\ \A c \in new : /\ c \in Candidate /\ Sourced(c)
                                /\ c.version = s /\ c.method = method
              /\ \A c, d \in new : c # d => ~SameFigure(c, d)
              /\ IsFiniteSet(new) /\ Cardinality(new) <= MaxCandidates
<1> DEFINE tried == FirstOf(DOMAIN found)
<1> DEFINE created ==
        {p \in tried :
            /\ \A d \in candidates : ~SameFigure(d, found[p])
            /\ \A o \in Before(tried, p) : ~SameFigure(found[o], found[p])}
<1> DEFINE new == {found[p] : p \in created}
<1> DEFINE f == [p \in created |-> found[p]]
<1>1. candidates' = candidates \cup new
  BY DEF CreateAll
<1>2. DOMAIN found \in SUBSET Places /\ IsFiniteSet(DOMAIN found)
  BY DEF Listed
<1>3. tried \in SUBSET DOMAIN found
  BY DEF FirstOf
<1>4. IsFiniteSet(tried) /\ Cardinality(tried) <= MaxCandidates
  BY <1>2, FirstAreFew
<1>5. created \in SUBSET tried
  OBVIOUS
<1>6. \A c \in new : /\ c \in Candidate /\ Sourced(c)
                     /\ c.version = s /\ c.method = method
  BY <1>3, <1>5 DEF Listed
<1>7. ASSUME NEW p \in created, NEW o \in created, p # o
      PROVE  ~SameFigure(found[p], found[o])
  <2>1. Precedes(p, o) \/ Precedes(o, p)
    BY <1>2, <1>3, <1>5, <1>7, PlacesOrdered
  <2>2. CASE Precedes(p, o)
    <3>1. p \in Before(tried, o)
      BY <1>5, <2>2 DEF Before
    <3> QED
      BY <3>1
  <2>3. CASE Precedes(o, p)
    <3>1. o \in Before(tried, p)
      BY <1>5, <2>3 DEF Before
    <3>2. ~SameFigure(found[o], found[p])
      BY <3>1
    <3> QED
      BY <3>2 DEF SameFigure
  <2> QED
    BY <2>1, <2>2, <2>3
<1>8. IsFiniteSet(created) /\ Cardinality(created) <= MaxCandidates
  <2>1. /\ IsFiniteSet(created) /\ Cardinality(created) <= Cardinality(tried)
    BY <1>4, <1>5, FS_Subset
  <2>2. Cardinality(created) \in Nat /\ Cardinality(tried) \in Nat
    BY <1>4, <2>1, FS_CardinalityType
  <2>3. MaxCandidates \in Nat
    BY ExtractionAssumption
  <2> HIDE DEF created, tried
  <2> QED
    BY <1>4, <2>1, <2>2, <2>3
<1>9. IsFiniteSet(new) /\ Cardinality(new) <= MaxCandidates
  <2>1. f \in Surjection(created, new)
    BY DEF Surjection
  <2> HIDE DEF f, new, created
  <2>2. IsFiniteSet(new) /\ Cardinality(new) <= Cardinality(created)
    BY <1>8, <2>1, FS_Surjection
  <2>3. Cardinality(created) \in Nat /\ Cardinality(new) \in Nat
    BY <1>8, <2>2, FS_CardinalityType
  <2>4. MaxCandidates \in Nat
    BY ExtractionAssumption
  <2> QED
    BY <1>8, <2>2, <2>3, <2>4
<1>10. \A c, d \in new : c # d => ~SameFigure(c, d)
  BY <1>7
<1> HIDE DEF new
<1> QED
  BY <1>1, <1>6, <1>9, <1>10

(* An extraction of a version that had none is the source of all its lines.  *)
LEMMA CreateSourced ==
    ASSUME ExtractionTypeOK, CandidatesAreSourced,
           NEW s \in Sessions, session[s] = "FINALIZED", extracted[s] = "no",
           \A i \in DOMAIN Filing[s] : rows[Filing[s][i]] # {},
           NEW method, NEW found, Listed(found, s, method),
           candidates' = CreateAll(found),
           extracted' = [extracted EXCEPT ![s] = "done"], UNCHANGED vars
    PROVE  candidates' \subseteq Candidate /\ CandidatesAreSourced'
<1>1. PICK new :
         /\ candidates' = candidates \cup new
         /\ \A c \in new : /\ c \in Candidate /\ Sourced(c)
                           /\ c.version = s /\ c.method = method
         /\ \A c, d \in new : c # d => ~SameFigure(c, d)
         /\ IsFiniteSet(new) /\ Cardinality(new) <= MaxCandidates
  BY CreatedOnce
<1>2. /\ session' = session /\ rows' = rows
      /\ extracted \in [Sessions -> {"no", "done", "failed"}]
      /\ candidates \subseteq Candidate
  BY DEF vars, database, ExtractionTypeOK
<1>3. \A c \in candidates : /\ c.version \in Sessions /\ c.version # s
                            /\ extracted'[c.version] = "done"
  BY <1>2 DEF CandidatesAreSourced, Candidate
<1>4. extracted'[s] = "done"
  BY <1>2
<1>5. ASSUME NEW c \in candidates'
      PROVE  /\ extracted'[c.version] = "done"
             /\ session'[c.version] = "FINALIZED"
             /\ \A i \in DOMAIN Filing[c.version] : rows'[Filing[c.version][i]] # {}
             /\ c.chunk \in DOMAIN Chunks[Content[c.version]]
             /\ c.figure \in Chunks[Content[c.version]][c.chunk].contains
             /\ c.method = "LLM_ASSISTED" => c.metric \in Active /\ c.period # "other"
  <2>1. CASE c \in candidates
    BY <1>2, <1>3, <2>1 DEF CandidatesAreSourced
  <2>2. CASE c \in new
    BY <1>1, <1>2, <1>4, <2>2 DEF Sourced
  <2> QED
    BY <1>1, <2>1, <2>2
<1>6. ASSUME NEW c \in candidates', NEW d \in candidates', c.version = d.version
      PROVE  /\ c.method = "LLM_ASSISTED" => d.method = "LLM_ASSISTED"
             /\ c # d => d.chunk # c.chunk \/ d.label # c.label
                                           \/ d.figure # c.figure
  <2>1. CASE c \in candidates /\ d \in candidates
    BY <1>6, <2>1 DEF CandidatesAreSourced
  <2>2. CASE c \in new /\ d \in new
    BY <1>1, <1>6, <2>2 DEF SameFigure
  <2>3. c.version # d.version
        \/ (c \in candidates /\ d \in candidates) \/ (c \in new /\ d \in new)
    BY <1>1, <1>3
  <2> QED
    BY <1>6, <2>1, <2>2, <2>3
<1>7. ASSUME NEW t \in Sessions
      PROVE  Cardinality({c \in candidates' : c.version = t}) <= MaxCandidates
  <2>1. CASE t = s
    <3>1. {c \in candidates' : c.version = t} = new
      BY <1>1, <1>3, <2>1
    <3> QED
      BY <1>1, <3>1
  <2>2. CASE t # s
    <3>1. {c \in candidates' : c.version = t} = {c \in candidates : c.version = t}
      BY <1>1, <2>2
    <3> QED
      BY <3>1 DEF CandidatesAreSourced
  <2> QED
    BY <2>1, <2>2
<1>8. candidates' \subseteq Candidate
  BY <1>1, <1>2
<1>9. CandidatesAreSourced'
  BY ONLY <1>5, <1>6, <1>7 DEF CandidatesAreSourced
<1> QED
  BY <1>8, <1>9

LEMMA ExtractSourced ==
    ASSUME ExtractionTypeOK, CandidatesAreSourced,
           NEW s \in Sessions, Extract(s)
    PROVE  ExtractionTypeOK' /\ CandidatesAreSourced'
<1>1. /\ UNCHANGED vars /\ session[s] = "FINALIZED" /\ extracted[s] = "no"
  BY DEF Extract, ExtractTables, ExtractWithModel, Done, NameAmbiguous,
         LabelAmbiguous, GiveUp, Due
<1>2. TypeOK'
  BY <1>1 DEF ExtractionTypeOK, TypeOK, vars, database, request, recount
<1>3. /\ extracted \in [Sessions -> {"no", "done", "failed"}]
      /\ candidates \subseteq Candidate
  BY DEF ExtractionTypeOK
<1>4. ASSUME NEW method, NEW found, Listed(found, s, method), Resolved(s),
             candidates' = CreateAll(found), Done(s)
      PROVE  ExtractionTypeOK' /\ CandidatesAreSourced'
  <2>1. \A i \in DOMAIN Filing[s] : rows[Filing[s][i]] # {}
    <3>1. \A i \in DOMAIN Filing[s] : Cardinality(rows[Filing[s][i]]) = 1
      BY <1>4 DEF Resolved
    <3> QED
      BY <3>1, FS_EmptySet
  <2>2. extracted' = [extracted EXCEPT ![s] = "done"]
    BY <1>4 DEF Done
  <2>3. candidates' \subseteq Candidate /\ CandidatesAreSourced'
    BY <1>1, <1>4, <2>1, <2>2, CreateSourced
  <2>4. extracted' \in [Sessions -> {"no", "done", "failed"}]
    BY <1>3, <2>2
  <2> QED
    BY <1>2, <2>3, <2>4 DEF ExtractionTypeOK
<1>5. CASE GiveUp(s)
  <2>1. /\ extracted' = [extracted EXCEPT ![s] = "failed"]
        /\ candidates' = candidates /\ session' = session /\ rows' = rows
    BY <1>5 DEF GiveUp, vars, database
  <2>2. \A c \in candidates : extracted'[c.version] = "done"
    BY <1>1, <1>3, <2>1 DEF CandidatesAreSourced, Candidate
  <2>3. extracted' \in [Sessions -> {"no", "done", "failed"}]
    BY <1>3, <2>1
  <2>4. CandidatesAreSourced'
    BY <2>1, <2>2 DEF CandidatesAreSourced
  <2> QED
    BY <1>2, <1>3, <2>1, <2>3, <2>4 DEF ExtractionTypeOK
<1>6. ASSUME NEW aliases \in Aliases, ExtractTables(s, aliases)
      PROVE  ExtractionTypeOK' /\ CandidatesAreSourced'
  BY <1>4, <1>6, TablesListed DEF ExtractTables
<1>7. ASSUME NEW aliases \in Aliases, NEW reply \in Replies,
             ExtractWithModel(s, aliases, reply)
      PROVE  ExtractionTypeOK' /\ CandidatesAreSourced'
  BY <1>4, <1>7, ReportsListed DEF ExtractWithModel
<1> QED
  BY <1>5, <1>6, <1>7 DEF Extract, NameAmbiguous, LabelAmbiguous

(* Uploads that go on leave what was extracted with its source.             *)
LEMMA UploadsKeepSources ==
    ASSUME ExtractionTypeOK, CandidatesAreSourced, [Next]_vars, TypeOK',
           UNCHANGED extraction
    PROVE  ExtractionTypeOK' /\ CandidatesAreSourced'
<1>1. extracted' = extracted /\ candidates' = candidates
  BY DEF extraction
<1>2. Grown
  BY GrownStep DEF ExtractionTypeOK
<1>3. ExtractionTypeOK'
  BY <1>1 DEF ExtractionTypeOK
<1>4. ASSUME NEW c \in candidates
      PROVE  /\ session'[c.version] = "FINALIZED"
             /\ \A i \in DOMAIN Filing[c.version] : rows'[Filing[c.version][i]] # {}
  <2>1. c.version \in Sessions /\ session[c.version] = "FINALIZED"
    BY DEF ExtractionTypeOK, Candidate, CandidatesAreSourced
  <2>2. Filing[c.version] \in Seq(Names)
    BY <2>1, FilingNames
  <2>3. ASSUME NEW i \in DOMAIN Filing[c.version]
        PROVE  rows'[Filing[c.version][i]] # {}
    <3>1. i \in 1..Len(Filing[c.version])
      BY <2>2, LenProperties
    <3>2. Filing[c.version][i] \in Names
      BY <2>2, <3>1, ElementOfSeq
    <3>3. rows[Filing[c.version][i]] # {}
      BY DEF CandidatesAreSourced
    <3>4. rows[Filing[c.version][i]] \subseteq rows'[Filing[c.version][i]]
      BY <1>2, <3>2 DEF Grown
    <3> QED
      BY <3>3, <3>4
  <2> QED
    BY <1>2, <2>1, <2>3 DEF Grown
<1>5. CandidatesAreSourced'
  BY <1>1, <1>4 DEF CandidatesAreSourced
<1> QED
  BY <1>3, <1>5

(* The extraction keeps its types and its sources, beside uploads that do.   *)
THEOREM ExtractionInvariance ==
    ExtractionSpec => [](ExtractionTypeOK /\ CandidatesAreSourced)
<1>1. ExtractionInit /\ TypeOK => ExtractionTypeOK /\ CandidatesAreSourced
  <2> SUFFICES ASSUME ExtractionInit, TypeOK
               PROVE  ExtractionTypeOK /\ CandidatesAreSourced
    OBVIOUS
  <2>1. candidates = {} /\ extracted = [s \in Sessions |-> "no"]
    BY DEF ExtractionInit
  <2>2. \A s \in Sessions : {c \in candidates : c.version = s} = {}
    BY <2>1
  <2>3. MaxCandidates \in Nat
    BY ExtractionAssumption
  <2> QED
    BY <2>1, <2>2, <2>3, FS_EmptySet DEF ExtractionTypeOK, CandidatesAreSourced
<1>2. ASSUME ExtractionTypeOK, CandidatesAreSourced, TypeOK',
             [ExtractionNext]_allVars
      PROVE  ExtractionTypeOK' /\ CandidatesAreSourced'
  <2>1. CASE Next /\ UNCHANGED extraction
    BY <1>2, <2>1, UploadsKeepSources
  <2>2. CASE UNCHANGED allVars
    BY <1>2, <2>2, UploadsKeepSources DEF allVars
  <2>3. CASE \E s \in Sessions : Extract(s)
    BY <1>2, <2>3, ExtractSourced
  <2> QED
    BY <1>2, <2>1, <2>2, <2>3 DEF ExtractionNext
<1> QED
  BY <1>1, <1>2, ExtractionKeepsUploads, UploadsTyped, PTL DEF ExtractionSpec

(* The worker records of each version one outcome, and candidates whose       *)
(* metric, method and status are ones the tables admit.                      *)
THEOREM ExtractionTyped == ExtractionSpec => []ExtractionTypeOK
BY ExtractionInvariance, PTL

(* create_candidate, match_metric_alias and verify_and_collect put nothing in *)
(* the review queue that cannot be pointed at, whatever the finalizes of the  *)
(* other versions do meanwhile.                                              *)
THEOREM CandidatesHaveSource == ExtractionSpec => []CandidatesAreSourced
BY ExtractionInvariance, PTL

==============================================================================
