-------------------------------- MODULE Uploads --------------------------------
(***************************************************************************)
(* The upload and finalize endpoints, beside the object store and the      *)
(* reference counts of stored content.                                     *)
(*                                                                         *)
(* An upload streams its bytes into an object of its own and then commits  *)
(* an upload session.  Finalizing is one transaction: it locks the         *)
(* session, acquires the row of the content (whose row lock it keeps),     *)
(* inserts a document version, provisions the institution and the period   *)
(* the file name refers to, and commits.  The object store is not part of  *)
(* the transaction: the duplicate object of content that was there already *)
(* is deleted after the commit, and the object of a finalize that failed   *)
(* is deleted after the rollback, each as a step of its own.               *)
(*                                                                         *)
(* An object is named by the session that wrote it.  A session's version   *)
(* exists exactly when the session is FINALIZED: both are written by one   *)
(* commit, and nothing deletes versions.                                   *)
(***************************************************************************)
EXTENDS Naturals, FiniteSets, Sequences

CONSTANTS
    Sessions, NoSession,
    Contents,       \* what is hashed
    Content,        \* the content each session uploads
    Institutions, Periods,
    Filing,         \* <<institution, period>> of the file name, or <<>>
    Requests,       \* concurrent finalize requests
    MaxFaults,      \* bound: failing statements, commits, deletes; crashes
    MaxReconciles,  \* bound: runs of ReferenceService.reconcile
    ByHand          \* the rows of institutions and periods a reviewer may create

Names == Institutions \cup Periods

\* A look-up of a name matches the row that is derived from a file name and any
\* of another spelling: an institution's in other letter case, a period's of
\* another type.  The unique constraints tell the two apart.
Spellings == {"derived", "other"}

ASSUME UploadAssumption ==
    /\ IsFiniteSet(Sessions) /\ IsFiniteSet(Requests)
    /\ NoSession \notin Sessions
    /\ Content \in [Sessions -> Contents]
    /\ Institutions \cap Periods = {}
    /\ Filing \in [Sessions -> {<<>>} \cup (Institutions \X Periods)]
    /\ MaxFaults \in Nat /\ MaxReconciles \in Nat
    /\ ByHand \subseteq Names \X Spellings

VARIABLES
    session,      \* upload_sessions.status; NONE and ABANDONED have no row
    late,         \* UPLOADED sessions past expires_at
    stored,       \* objects in the store
    canonical,    \* stored_objects.opaque_object_key of a content
    count,        \* stored_objects.reference_count
    rows,         \* the committed rows of a name
    \* a finalize request
    pc, target,
    dup,          \* is_deduplicated
    todo,         \* names still to be resolved
    inserted,     \* names inserted and not yet committed
    \* a reconciliation
    counted,      \* the versions it counted, before it locks the row
    reconciles,
    \* history and budget
    undone,       \* objects that a compensation has deleted
    faults

database == <<session, canonical, count, rows>>
request == <<pc, target, dup, todo, inserted>>
recount == <<counted, reconciles>>
vars == <<database, late, stored, request, recount, undone, faults>>

SessionStatus == {"NONE", "UPLOADED", "FINALIZED", "EXPIRED", "ABANDONED"}
InTransaction == {"verified", "acquired", "missing"}
PC == InTransaction \cup {"idle", "failed", "cleanup"}

TypeOK ==
    /\ session \in [Sessions -> SessionStatus]
    /\ late \subseteq Sessions
    /\ stored \subseteq Sessions
    /\ canonical \in [Contents -> Sessions \cup {NoSession}]
    /\ count \in [Contents -> Nat]
    /\ rows \in [Names -> SUBSET Spellings]
    /\ pc \in [Requests -> PC]
    /\ target \in [Requests -> Sessions \cup {NoSession}]
    /\ dup \in [Requests -> BOOLEAN]
    /\ todo \in [Requests -> Seq(Names)]
    /\ inserted \in [Requests -> SUBSET Names]
    /\ counted \in [Contents -> Nat]
    /\ reconciles \in 0..MaxReconciles
    /\ undone \subseteq Sessions
    /\ faults \in 0..MaxFaults

\* The tables are empty: a session has no row, content no object and no count.
Init ==
    /\ session = [s \in Sessions |-> "NONE"]
    /\ late = {} /\ stored = {} /\ undone = {}
    /\ canonical = [c \in Contents |-> NoSession]
    /\ count = [c \in Contents |-> 0]
    /\ rows = [n \in Names |-> {}]
    /\ pc = [r \in Requests |-> "idle"]
    /\ target = [r \in Requests |-> NoSession]
    /\ dup = [r \in Requests |-> FALSE]
    /\ todo = [r \in Requests |-> <<>>]
    /\ inserted = [r \in Requests |-> {}]
    /\ counted = [c \in Contents |-> 0]
    /\ reconciles = 0
    /\ faults = 0

\* The document_versions of a content.
Versions(c) == {s \in Sessions : session[s] = "FINALIZED" /\ Content[s] = c}

Fault == faults < MaxFaults /\ faults' = faults + 1

\* The object store: chunks go to a temporary file, whose upload makes the
\* object appear whole; hashing reads the object; deleting one that is not
\* there does nothing.  The production store swallows the errors of a deletion
\* (as if the process died just before it), the local one raises them.
Put(s) == stored' = stored \cup {s}
Hashable(s) == s \in stored
Delete(s) == stored' = stored \ {s}

------------------------------------------------------------------------------
(* Uploading. *)

\* The last chunk is written and finalize_temporary_write puts the object in
\* place.  A refused or oversized file aborts before and leaves nothing.
Stream(s) ==
    /\ session[s] = "NONE" /\ s \notin stored
    /\ Put(s)
    /\ UNCHANGED <<database, late, request, recount, undone, faults>>

\* The session row is committed.
OpenSession(s) ==
    /\ session[s] = "NONE" /\ s \in stored
    /\ session' = [session EXCEPT ![s] = "UPLOADED"]
    /\ UNCHANGED <<canonical, count, rows, late, stored, request, recount,
                   undone, faults>>

\* The commit fails, or the process dies before it: the insert of the row is
\* outside the try block that removes what was written.
AbandonUpload(s) ==
    /\ session[s] = "NONE" /\ s \in stored
    /\ Fault
    /\ session' = [session EXCEPT ![s] = "ABANDONED"]
    /\ UNCHANGED <<canonical, count, rows, late, stored, request, recount,
                   undone>>

\* Twenty-four hours have passed.
Late(s) ==
    /\ session[s] = "UPLOADED" /\ s \notin late
    /\ late' = late \cup {s}
    /\ UNCHANGED <<database, stored, request, recount, undone, faults>>

------------------------------------------------------------------------------
(* Finalizing. *)

\* SELECT ... FOR UPDATE of the session row.
SessionFree(s) ==
    \A r \in Requests : ~(pc[r] \in InTransaction /\ target[r] = s)

\* The row of a content, or its uncommitted insert, is locked by the upsert.
HasRow(r) == pc[r] \in {"acquired", "missing"}
RowFree(c) == \A r \in Requests : ~(HasRow(r) /\ Content[target[r]] = c)

\* An expired session is closed, whatever became of its object.
Expire(s) ==
    /\ session[s] = "UPLOADED" /\ SessionFree(s)
    /\ s \in late
    /\ session' = [session EXCEPT ![s] = "EXPIRED"]
    /\ late' = late \ {s}
    /\ UNCHANGED <<canonical, count, rows, stored, request, recount, undone,
                   faults>>

\* What a request leaves behind: nothing, or an exception for its handler, after
\* a rollback of the names and locks it had.
End(r) ==
    /\ pc' = [pc EXCEPT ![r] = "idle"]
    /\ target' = [target EXCEPT ![r] = NoSession]
    /\ dup' = [dup EXCEPT ![r] = FALSE]
    /\ todo' = [todo EXCEPT ![r] = <<>>]
    /\ inserted' = [inserted EXCEPT ![r] = {}]

Raise(r) ==
    /\ pc' = [pc EXCEPT ![r] = "failed"]
    /\ todo' = [todo EXCEPT ![r] = <<>>]
    /\ inserted' = [inserted EXCEPT ![r] = {}]
    /\ UNCHANGED <<target, dup>>

\* Deviation: the session is read without FOR UPDATE.
BeginUnlocked(r, s) ==
    /\ pc[r] = "idle"
    /\ session[s] = "UPLOADED"
    /\ s \notin late
    /\ Hashable(s)
    /\ pc' = [pc EXCEPT ![r] = "verified"]
    /\ target' = [target EXCEPT ![r] = s]
    /\ dup' = [dup EXCEPT ![r] = FALSE]
    /\ todo' = [todo EXCEPT ![r] = Filing[s]]
    /\ UNCHANGED <<database, late, stored, inserted, recount, undone, faults>>

\* Deviation: institution and period are resolved in whichever order.
BeginInAnyOrder(r, s) ==
    /\ pc[r] = "idle"
    /\ session[s] = "UPLOADED" /\ SessionFree(s)
    /\ s \notin late
    /\ Hashable(s)
    /\ pc' = [pc EXCEPT ![r] = "verified"]
    /\ target' = [target EXCEPT ![r] = s]
    /\ dup' = [dup EXCEPT ![r] = FALSE]
    /\ \E order \in {Filing[s], <<Filing[s][2], Filing[s][1]>>} :
          todo' = [todo EXCEPT ![r] = order]
    /\ UNCHANGED <<database, late, stored, inserted, recount, undone, faults>>

\* The session is locked and UPLOADED, and the object is there to be hashed.
\* A request that finds it otherwise answers with an error and changes nothing.
Begin(r, s) ==
    /\ pc[r] = "idle"
    /\ session[s] = "UPLOADED" /\ SessionFree(s)
    /\ s \notin late
    /\ Hashable(s)
    /\ pc' = [pc EXCEPT ![r] = "verified"]
    /\ target' = [target EXCEPT ![r] = s]
    /\ dup' = [dup EXCEPT ![r] = FALSE]
    /\ todo' = [todo EXCEPT ![r] = Filing[s]]
    /\ UNCHANGED <<database, late, stored, inserted, recount, undone, faults>>

\* Deviation: the upsert does not wait for the row of an open transaction.
AcquireUnlocked(r) ==
    LET s == target[r]
        c == Content[s]
    IN /\ pc[r] = "verified"
       /\ dup' = [dup EXCEPT ![r] = canonical[c] \notin {NoSession, s}]
       /\ pc' = [pc EXCEPT ![r] = "acquired"]
       /\ UNCHANGED <<database, late, stored, target, todo, inserted, recount,
                      undone, faults>>

\* create_or_acquire: INSERT ... ON CONFLICT DO UPDATE waits for a transaction
\* that has the row, and the key it then reads tells new from known content.
Acquire(r) ==
    LET s == target[r]
        c == Content[s]
    IN /\ pc[r] = "verified"
       /\ RowFree(c)
       /\ dup' = [dup EXCEPT ![r] = canonical[c] \notin {NoSession, s}]
       /\ pc' = [pc EXCEPT ![r] = "acquired"]
       /\ UNCHANGED <<database, late, stored, target, todo, inserted, recount,
                      undone, faults>>

\* resolve_institution, then resolve_reporting_period: a name is looked up
\* among the committed rows, without a lock; the look-up raises on two.
NextName(r, n) == todo[r] # <<>> /\ n = Head(todo[r])

Find(r, n) ==
    /\ pc[r] = "acquired" /\ NextName(r, n)
    /\ Cardinality(rows[n]) = 1
    /\ todo' = [todo EXCEPT ![r] = Tail(@)]
    /\ UNCHANGED <<database, late, stored, pc, target, dup, inserted, recount,
                   undone, faults>>

Miss(r, n) ==
    /\ pc[r] = "acquired" /\ NextName(r, n)
    /\ rows[n] = {}
    /\ pc' = [pc EXCEPT ![r] = "missing"]
    /\ UNCHANGED <<database, late, stored, target, dup, todo, inserted, recount,
                   undone, faults>>

FindTwo(r, n) ==
    /\ pc[r] = "acquired" /\ NextName(r, n)
    /\ Cardinality(rows[n]) > 1
    /\ Raise(r)
    /\ UNCHANGED <<database, late, stored, recount, undone, faults>>

\* A row of the name is in an open transaction, whose end an insert of the same
\* name waits for (uq_institution_org_canonical_name, uq_reporting_period_org_key).
Inserting(n) == \E q \in Requests : n \in inserted[q]

Insert(r, n) ==
    /\ pc[r] = "missing" /\ NextName(r, n)
    /\ ~Inserting(n) /\ "derived" \notin rows[n]
    /\ inserted' = [inserted EXCEPT ![r] = @ \cup {n}]
    /\ todo' = [todo EXCEPT ![r] = Tail(@)]
    /\ pc' = [pc EXCEPT ![r] = "acquired"]
    /\ UNCHANGED <<database, late, stored, target, dup, recount, undone, faults>>

\* It was committed since the look-up: the insert violates the constraint.
InsertAgain(r, n) ==
    /\ pc[r] = "missing" /\ NextName(r, n)
    /\ "derived" \in rows[n]
    /\ Raise(r)
    /\ UNCHANGED <<database, late, stored, recount, undone, faults>>

Resolve(r) ==
    \E n \in Names : \/ Find(r, n) \/ Miss(r, n) \/ FindTwo(r, n)
                     \/ Insert(r, n) \/ InsertAgain(r, n)

\* A reviewer creates an institution or a period: a transaction of one insert.
CreateByHand(n, spelling) ==
    /\ <<n, spelling>> \in ByHand
    /\ spelling \notin rows[n]
    /\ spelling = "derived" => ~Inserting(n)
    /\ rows' = [rows EXCEPT ![n] = @ \cup {spelling}]
    /\ UNCHANGED <<session, canonical, count, late, stored, request, recount,
                   undone, faults>>

\* Deviation: ON CONFLICT DO UPDATE takes the key of the upload as well.
KeyOfLast(c, s) == s

\* Content that is known keeps the key it is stored under.
KeyOf(c, s) == IF canonical[c] = NoSession THEN s ELSE canonical[c]

\* The upsert, the version, its job, the session and the names, at once.
Effects(r) ==
    LET s == target[r]
        c == Content[s]
    IN /\ pc[r] = "acquired" /\ todo[r] = <<>>
       /\ session' = [session EXCEPT ![s] = "FINALIZED"]
       /\ canonical' = [canonical EXCEPT ![c] = KeyOf(c, s)]
       /\ count' = [count EXCEPT ![c] = @ + 1]
       /\ rows' = [n \in Names |->
                      rows[n] \cup (IF n \in inserted[r] THEN {"derived"} ELSE {})]
       /\ late' = late \ {s}
       /\ UNCHANGED <<stored, recount, undone>>

Commit(r) ==
    /\ Effects(r)
    /\ \/ /\ dup[r]
          /\ pc' = [pc EXCEPT ![r] = "cleanup"]
          /\ inserted' = [inserted EXCEPT ![r] = {}]
          /\ UNCHANGED <<target, dup, todo>>
       \/ ~dup[r] /\ End(r)
    /\ UNCHANGED faults

\* The commit takes effect and its acknowledgement is lost: commit() raises.
CommitUnacknowledged(r) ==
    /\ Effects(r)
    /\ Raise(r)
    /\ Fault

\* Any other exception of the try block.
Fail(r) ==
    /\ pc[r] \in InTransaction
    /\ Raise(r)
    /\ Fault
    /\ UNCHANGED <<database, late, stored, recount, undone>>

\* The handler, after the rollback has opened the locks: the object of content
\* that is not known from elsewhere is deleted.  A deletion that raises is
\* passed over, and the handler does not get that far when reading the session,
\* which the rollback has expired, raises first.
Compensate(r) ==
    /\ pc[r] = "failed"
    /\ \/ /\ ~dup[r]
          /\ Delete(target[r])
          /\ undone' = undone \cup {target[r]}
       \/ UNCHANGED <<stored, undone>>
    /\ End(r)
    /\ UNCHANGED <<database, late, recount, faults>>

\* After the commit, the duplicate goes.
Cleanup(r) ==
    /\ pc[r] = "cleanup"
    /\ Delete(target[r])
    /\ End(r)
    /\ UNCHANGED <<database, late, recount, undone, faults>>

\* The deletion raises: the handler has nothing to delete, the caller gets an
\* error for a finalize that has committed.
CleanupFails(r) ==
    /\ pc[r] = "cleanup"
    /\ Raise(r)
    /\ Fault
    /\ UNCHANGED <<database, late, stored, recount, undone>>

\* The process dies: what it has not committed is rolled back.
Crash(r) ==
    /\ pc[r] # "idle"
    /\ End(r)
    /\ Fault
    /\ UNCHANGED <<database, late, stored, recount, undone>>

------------------------------------------------------------------------------
(* ReferenceService.reconcile; zero stands for no reconciliation under way.  *)

Recount(c) ==
    /\ counted[c] = 0 /\ Versions(c) # {}
    /\ reconciles < MaxReconciles
    /\ reconciles' = reconciles + 1
    /\ counted' = [counted EXCEPT ![c] = Cardinality(Versions(c))]
    /\ UNCHANGED <<database, late, stored, request, undone, faults>>

\* The row is locked only now, and overwritten with the earlier count.
Overwrite(c) ==
    /\ counted[c] # 0
    /\ RowFree(c)
    /\ count' = [count EXCEPT ![c] = counted[c]]
    /\ counted' = [counted EXCEPT ![c] = 0]
    /\ UNCHANGED <<session, canonical, rows, late, stored, request, reconciles,
                   undone, faults>>

\* Nothing is left to finalize.
Settled ==
    /\ \A s \in Sessions : session[s] \notin {"NONE", "UPLOADED"}
    /\ \A r \in Requests : pc[r] = "idle"
    /\ UNCHANGED vars

------------------------------------------------------------------------------
Next ==
    \/ \E s \in Sessions :
          \/ Stream(s) \/ OpenSession(s) \/ AbandonUpload(s)
          \/ Late(s) \/ Expire(s)
          \/ \E r \in Requests : Begin(r, s)
    \/ \E r \in Requests :
          \/ Acquire(r) \/ Resolve(r)
          \/ Commit(r) \/ CommitUnacknowledged(r)
          \/ Fail(r) \/ Compensate(r)
          \/ Cleanup(r) \/ CleanupFails(r) \/ Crash(r)
    \/ \E c \in Contents : Recount(c) \/ Overwrite(c)
    \/ \E n \in Names, spelling \in Spellings : CreateByHand(n, spelling)
    \/ Settled

Spec == Init /\ [][Next]_vars

------------------------------------------------------------------------------
(* Properties. *)

\* The content of every document version is in the store, whatever fails and
\* whichever of two sessions with the same bytes commits first: removing what
\* is a duplicate never removes content, only the compensation of a failed
\* request can (its commit did take effect, or a retry got past its hash check
\* before the object was deleted).
ContentKept ==
    \A s \in Sessions : session[s] = "FINALIZED" =>
        canonical[Content[s]] \in stored \cup undone

Store ==
    INSTANCE ContentStore WITH
        objects <- stored, home <- canonical, references <- count

\* The transaction, the object store beside it and the requests that overlap
\* come to single steps on the content: an upload is published once, the object
\* that stands for its content never changes, what goes after a commit is a
\* duplicate, and a recount is a number of versions there were.
ImplementsStore == Store!Spec

\* An object that no session still to be finalized, no content and no pending
\* deletion refers to was left behind by a fault, one object by each at most.
\* (The object of a session that expires is never deleted.)
Unreachable(s) ==
    /\ session[s] \in {"FINALIZED", "ABANDONED"}
    /\ canonical[Content[s]] # s
    /\ \A r \in Requests : ~(target[r] = s /\ pc[r] = "cleanup")
OrphansAreFaults ==
    Cardinality({s \in stored : Unreachable(s)}) <= faults

\* The reference count of content that has versions is never zero, so that it
\* is never eligible for deletion, and never above their number; only a
\* reconciliation that counted before a finalize committed can make it smaller.
CountCoversVersions ==
    \A c \in Contents : canonical[c] # NoSession =>
        /\ 1 <= count[c] /\ count[c] <= Cardinality(Versions(c))
        /\ reconciles = 0 => count[c] = Cardinality(Versions(c))

\* Who waits: for the row of its content, or for a row of a name.
WaitsFor(r, q) ==
    \/ /\ pc[r] = "verified" /\ HasRow(q)
       /\ Content[target[r]] = Content[target[q]]
    \/ pc[r] = "missing" /\ Head(todo[r]) \in inserted[q]
Waits(r) == \E q \in Requests : WaitsFor(r, q)

\* Finalize requests keep the row of their content and the names they insert
\* until they end, and wait for those of others (documents.py, finalize_upload
\* and ensure_reference_data), yet never in a circle: when one waits, there is
\* one that waits for nobody.
SomeRequestGoesOn ==
    (\E r \in Requests : Waits(r)) =>
        \E q \in Requests : pc[q] \in InTransaction /\ ~Waits(q)

==============================================================================
