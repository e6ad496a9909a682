----------------------------- MODULE Migrations -----------------------------
(***************************************************************************)
(* The migration runner: the subcommands of migration_entrypoint.py run as *)
(* separate jobs against one PostgreSQL instance.  `provision-database`    *)
(* creates the roles and the database, `migrate` takes the schema to the   *)
(* head of its image in three phases under a session advisory lock,        *)
(* `reconcile-role-membership-attributes` repairs one membership and       *)
(* `verify` reads the result.                                              *)
(*                                                                         *)
(* A revision is a number.  Only the ones the runner compares with matter: *)
(* 023, 024 and 026, a stop below 023 and stops above 026; 0 is a database *)
(* without a version table.  An image carries the revisions up to its head *)
(* and refuses a database it does not know.                                *)
(*                                                                         *)
(* A transaction that commits in one place is one step.  The transaction   *)
(* of the privilege cleanup is not: its REVOKE is in force only when the   *)
(* runner next reads the revision, which commits, and a connection that    *)
(* leaves its `with` block before that rolls it back.  A process that dies *)
(* loses its open transaction and its advisory lock.                       *)
(***************************************************************************)
EXTENDS Integers, FiniteSets, Sequences

CONSTANTS
    Runners,        \* executions of `migrate`
    Provisioners,   \* executions of `provision-database`
    NoRunner,       \* the holder of a free advisory lock
    Images,         \* heads of the images in use
    Stops,          \* revisions an established database may be at
    Servers,        \* major versions of PostgreSQL in use
    OwnerRoles,     \* NOLOGIN roles, in the order they are created with SQL
    LoginRoles,     \* LOGIN roles, in the order the Admin API creates them
    MaxStarts,      \* bound: executions of the three subcommands
    MaxCrashes,     \* bound: processes that die
    MaxFailures     \* bound: statements refused by the database or the API

VARIABLES
    database,   \* whether the target database exists
    revision,   \* committed alembic_version
    artifacts,  \* the objects of revision 024 exist
    create,     \* db_bootstrap holds CREATE on schema public
    roles,      \* [role -> "absent", "elevated" or "plain"]
    owners,     \* members of db_owner: "postgres" by a GRANT, "creator" when it
                \* is a member because it created the role
    claim,      \* db_owner's membership in db_analysis_claim_owner
    lock,       \* holder of the session advisory lock
    runner,     \* [Runners -> what the execution knows and where it is]
    prov,       \* [Provisioners -> the same for provisioning]
    verifier,   \* what `verify` has still to read, or its verdict
    lapsed,     \* history: the membership of postgres was left to nobody
    starts, crashes, failures

schema == <<database, revision, artifacts, create>>
catalog == <<roles, owners, claim>>
counters == <<starts, crashes, failures>>
tales == <<verifier, lapsed>>
vars == <<schema, catalog, lock, runner, prov, tales, counters>>

MigrationsAssumption ==
    /\ Images \subseteq Nat \ {0}
    /\ \A h \in Images : h > 26
    /\ Stops \subseteq Nat /\ Servers \subseteq Nat
    /\ NoRunner \notin Runners
    /\ OwnerRoles \in Seq(STRING) /\ LoginRoles \in Seq(STRING)
    /\ \E i \in DOMAIN OwnerRoles : OwnerRoles[i] = "db_owner"

ASSUME MigrationsAssumption

AllRoles == OwnerRoles \o LoginRoles
RoleNames == {AllRoles[i] : i \in DOMAIN AllRoles}
LoginNames == {LoginRoles[i] : i \in DOMAIN LoginRoles}

IdleRunner == [at |-> "idle", image |-> 0, current |-> 0, before |-> FALSE,
               upgraded |-> FALSE]
NoVerdict == [at |-> "none", image |-> 0, since |-> {}]
IdleProv == [at |-> "idle", next |-> 1, joined |-> FALSE]

Places == {"idle", "waiting", "locked", "read", "phase1", "phase2", "check024",
           "grant", "phase3", "cleanup", "commit", "unlock"}
ProvPlaces == {"idle", "ensure", "make", "member", "join", "grants", "database",
               "schema", "harden", "revoke", "confirm"}
VerifierPlaces == {"none", "roles", "memberships", "rest", "passed"}
VerifierStates == [at : VerifierPlaces, image : Images \cup {0},
                   since : SUBSET {"upgraded", "joined"}]

(* What happens to what `verify` has read already, at the places after it. *)
Meanwhile(event, places) ==
    verifier' = IF verifier.at \in places
                THEN [verifier EXCEPT !.since = @ \cup {event}] ELSE verifier
Upgraded == Meanwhile("upgraded", VerifierPlaces \ {"none"})
JoinedMeanwhile == Meanwhile("joined", {"rest", "passed"})

RunnerStates == [at : Places, image : Images \cup {0}, current : Nat,
                 before : BOOLEAN, upgraded : BOOLEAN]
ProvStates == [at : ProvPlaces, next : Nat, joined : BOOLEAN]

(* The place and the knowledge of every execution, and the columns of the  *)
(* catalog the code reads.                                                 *)
TypeOK ==
    /\ database \in BOOLEAN /\ revision \in Nat
    /\ artifacts \in BOOLEAN /\ create \in BOOLEAN
    /\ roles \in [RoleNames -> {"absent", "elevated", "plain"}]
    /\ owners \subseteq {"postgres", "creator", "db_bootstrap"}
    /\ claim \in {"absent", "plain", "admin"}
    /\ lock \in Runners \cup {NoRunner}
    /\ runner \in [Runners -> RunnerStates]
    /\ prov \in [Provisioners -> ProvStates]
    /\ verifier \in VerifierStates /\ lapsed \in BOOLEAN
    /\ starts \in Nat /\ crashes \in Nat /\ failures \in Nat

(* From PostgreSQL 16 on CREATE ROLE makes a creator that is no superuser, *)
(* as postgres is not here, a member of the new role.                      *)
Creators(server) == IF server >= 16 THEN {"creator"} ELSE {}

(* A fresh instance, or one an earlier release provisioned and migrated.   *)
Init ==
    /\ \/ /\ database = FALSE /\ revision = 0
          /\ roles = [r \in RoleNames |-> "absent"]
          /\ owners = {} /\ claim = "absent"
       \/ /\ database = TRUE /\ revision \in Stops
          /\ roles = [r \in RoleNames |-> "plain"]
          /\ \E server \in Servers : owners = {"db_bootstrap"} \cup Creators(server)
          /\ claim \in {"plain", "admin"}
    /\ artifacts = (revision >= 24)
    /\ create = FALSE
    /\ lock = NoRunner
    /\ runner = [r \in Runners |-> IdleRunner]
    /\ prov = [p \in Provisioners |-> IdleProv]
    /\ verifier = NoVerdict /\ lapsed = FALSE
    /\ starts = 0 /\ crashes = 0 /\ failures = 0

-----------------------------------------------------------------------------
(* migrate                                                                 *)

At(r, place) == runner[r].at = place
Becomes(r, state) == runner' = [runner EXCEPT ![r] = state]
Goto(r, place) == Becomes(r, [runner[r] EXCEPT !.at = place])

(* Mutant of Close: the lock outlives the connection.                      *)
CloseKeepingLock(r) ==
    /\ Becomes(r, IdleRunner)
    /\ UNCHANGED lock

(* The connection closes and is disposed of: whatever it had not committed *)
(* is rolled back and its advisory lock goes with the backend.             *)
Close(r) ==
    /\ Becomes(r, IdleRunner)
    /\ lock' = IF lock = r THEN NoRunner ELSE lock

GiveUp(r) == Close(r) /\ UNCHANGED <<schema, catalog, prov, tales, counters>>

(* Mutant of Acquire: pg_try_advisory_lock with its answer ignored.        *)
AcquireAnyway(r) ==
    /\ At(r, "waiting")
    /\ lock' = IF lock = NoRunner THEN r ELSE lock
    /\ Goto(r, "read")
    /\ UNCHANGED <<schema, catalog, prov, tales, counters>>

(* Connect as db_bootstrap, SET ROLE db_owner, then ask for the lock.      *)
Connect(r, h) ==
    /\ At(r, "idle") /\ starts < MaxStarts
    /\ starts' = starts + 1
    /\ IF database /\ roles["db_bootstrap"] # "absent"
                   /\ "db_bootstrap" \in owners
       THEN Becomes(r, [runner[r] EXCEPT !.at = "waiting", !.image = h])
       ELSE UNCHANGED runner
    /\ UNCHANGED <<schema, catalog, lock, prov, tales, crashes,
                   failures>>

Acquire(r) ==
    /\ At(r, "waiting") /\ lock = NoRunner
    /\ lock' = r
    /\ Goto(r, "locked")
    /\ UNCHANGED <<schema, catalog, prov, tales, counters>>

(* The count over pg_locks does not ask for granted locks, so a session    *)
(* that waits for this one is counted too.                                 *)
LocksCounted == {r \in Runners : At(r, "waiting")} \cup ({lock} \ {NoRunner})

CheckLock(r) ==
    /\ At(r, "locked")
    /\ IF Cardinality(LocksCounted) = 1
       THEN /\ Goto(r, "read")
            /\ UNCHANGED <<schema, catalog, lock, prov, tales, counters>>
       ELSE GiveUp(r)

PhaseFrom(current) ==
    CASE current < 23 -> "phase1" [] current = 23 -> "phase2"
      [] OTHER -> "check024"

(* The revision is read once and decides the phases that follow.           *)
ReadRevision(r) ==
    /\ At(r, "read")
    /\ IF revision <= runner[r].image
       THEN /\ Becomes(r, [runner[r] EXCEPT !.current = revision,
                                        !.at = PhaseFrom(revision)])
            /\ UNCHANGED <<schema, catalog, lock, prov, tales, counters>>
       ELSE GiveUp(r)

Phase1(r) ==
    /\ At(r, "phase1")
    /\ revision' = 23
    /\ Becomes(r, [runner[r] EXCEPT !.current = 23, !.at = "phase2"])
    /\ Upgraded
    /\ UNCHANGED <<database, artifacts, create, catalog, lock, prov, lapsed,
                   counters>>

(* What the bridge demands before it writes anything.                      *)
BridgeAllowed(r) ==
    /\ revision = 23 /\ ~artifacts
    /\ lock = r
    /\ roles["db_maintenance_worker"] = "plain"
    /\ owners \cap {"postgres", "creator", "db_maintenance_worker"} = {}

(* The queue, its heartbeats, policies, grants and claim function, whose   *)
(* owner and grants it sets.                                               *)
ApplySafe024Ddl == artifacts' = TRUE

(* One transaction: preconditions, the objects of 024, their verification  *)
(* and the new version.                                                    *)
Phase2(r) ==
    /\ At(r, "phase2")
    /\ IF BridgeAllowed(r)
       THEN /\ ApplySafe024Ddl /\ revision' = 24 /\ Upgraded
            /\ Becomes(r, [runner[r] EXCEPT !.current = 24, !.at = "check024"])
            /\ UNCHANGED <<database, create, catalog, lock, prov, lapsed,
                           counters>>
       ELSE GiveUp(r)

Check024(r) ==
    /\ At(r, "check024")
    /\ IF artifacts
       THEN /\ Goto(r, IF runner[r].current = runner[r].image
                       THEN "unlock" ELSE "grant")
            /\ UNCHANGED <<schema, catalog, lock, prov, tales, counters>>
       ELSE GiveUp(r)

(* The temporary CREATE is granted and committed.                          *)
GrantCreate(r) ==
    /\ At(r, "grant")
    /\ create' = TRUE
    /\ Becomes(r, [runner[r] EXCEPT !.before = create, !.at = "phase3"])
    /\ UNCHANGED <<database, revision, artifacts, catalog, lock, prov,
                   tales, counters>>

Phase3(r) ==
    /\ At(r, "phase3")
    /\ revision' = runner[r].image
    /\ Becomes(r, [runner[r] EXCEPT !.at = "cleanup", !.upgraded = TRUE])
    /\ Upgraded
    /\ UNCHANGED <<database, artifacts, create, catalog, lock, prov, lapsed,
                   counters>>

(* After the REVOKE nobody holds CREATE; the audit compares that with what *)
(* db_bootstrap held before, unless this upgrade crossed revision 026.     *)
ExpectedCreate(r) ==
    ~(runner[r].current < 26 /\ runner[r].image >= 26) /\ runner[r].before

Cleanup(r) ==
    /\ At(r, "cleanup")
    /\ IF ExpectedCreate(r)
       THEN GiveUp(r)
       ELSE /\ Goto(r, "commit")
            /\ UNCHANGED <<schema, catalog, lock, prov, tales, counters>>

(* Mutant of CommitCleanup: the REVOKE is never committed.                 *)
CommitNothing(r) ==
    /\ At(r, "commit")
    /\ Goto(r, "unlock")
    /\ UNCHANGED <<schema, catalog, lock, prov, tales, counters>>

(* Reading the final revision commits the REVOKE.                          *)
CommitCleanup(r) ==
    /\ At(r, "commit")
    /\ create' = FALSE
    /\ Goto(r, "unlock")
    /\ UNCHANGED <<database, revision, artifacts, catalog, lock, prov,
                   tales, counters>>

Unlock(r) == At(r, "unlock") /\ GiveUp(r)

(* An upgrade that raises: the transaction rolls back, the finally block   *)
(* issues its REVOKE, and the exception closes the connection before       *)
(* anything commits it.                                                    *)
UpgradeRaises(r) ==
    /\ runner[r].at \in {"phase1", "phase2", "phase3"}
    /\ failures < MaxFailures
    /\ failures' = failures + 1
    /\ Close(r)
    /\ UNCHANGED <<schema, catalog, prov, tales, starts, crashes>>

RunnerDies(r) ==
    /\ ~At(r, "idle") /\ crashes < MaxCrashes
    /\ crashes' = crashes + 1
    /\ Close(r)
    /\ UNCHANGED <<schema, catalog, prov, tales, starts, failures>>

RunnerStep(r) ==
    \/ Acquire(r) \/ CheckLock(r) \/ ReadRevision(r) \/ Phase1(r)
    \/ Phase2(r) \/ Check024(r) \/ GrantCreate(r) \/ Phase3(r)
    \/ Cleanup(r) \/ CommitCleanup(r) \/ Unlock(r)

-----------------------------------------------------------------------------
(* provision-database: every statement commits by itself.                  *)

ProvAt(p, place) == prov[p].at = place
ProvBecomes(p, state) == prov' = [prov EXCEPT ![p] = state]
ProvGoto(p, place) == ProvBecomes(p, [prov[p] EXCEPT !.at = place])

(* Mutant of ProvFails: no finally block.                                  *)
ProvFailsAsIs(p) == ProvBecomes(p, IdleProv)

(* The finally block revokes the membership this execution added itself.   *)
(* What an execution reports at its end is left out: nobody reads it here. *)
ProvEnds(p) ==
    IF prov[p].joined THEN ProvGoto(p, "revoke") ELSE ProvBecomes(p, IdleProv)
ProvFails(p) == ProvEnds(p)

StartProvision(p) ==
    /\ ProvAt(p, "idle") /\ starts < MaxStarts
    /\ starts' = starts + 1
    /\ ProvGoto(p, "ensure")
    /\ UNCHANGED <<schema, catalog, lock, runner, tales, crashes,
                   failures>>

NextRole(p) ==
    ProvBecomes(p, [prov[p] EXCEPT !.next = @ + 1,
                        !.at = IF prov[p].next = Len(AllRoles)
                               THEN "member" ELSE "ensure"])

(* Look the role up, then create it if it was missing.                     *)
LookRole(p) ==
    /\ ProvAt(p, "ensure")
    /\ IF roles[AllRoles[prov[p].next]] = "absent"
       THEN ProvGoto(p, "make")
       ELSE NextRole(p)
    /\ UNCHANGED <<schema, catalog, lock, runner, tales, counters>>

(* Users of the Admin API come with CREATEROLE and CREATEDB; the other     *)
(* roles are created by postgres.                                          *)
Created(name) ==
    /\ roles' = [roles EXCEPT ![name] = IF name \in LoginNames
                                        THEN "elevated" ELSE "plain"]
    /\ IF name = "db_owner"
       THEN \E server \in Servers : owners' = owners \cup Creators(server)
       ELSE UNCHANGED owners

MakeRole(p) ==
    LET name == AllRoles[prov[p].next] IN
    /\ ProvAt(p, "make")
    /\ IF roles[name] = "absent"
       THEN Created(name) /\ NextRole(p)
       ELSE UNCHANGED <<roles, owners>> /\ ProvFails(p)
    /\ UNCHANGED <<schema, claim, lock, runner, tales, counters>>

(* The poll of the Admin operation gives up although the user is created.  *)
PollTimesOut(p) ==
    LET name == AllRoles[prov[p].next] IN
    /\ ProvAt(p, "make") /\ name \in LoginNames /\ roles[name] = "absent"
    /\ failures < MaxFailures
    /\ failures' = failures + 1
    /\ Created(name)
    /\ ProvFails(p)
    /\ UNCHANGED <<schema, claim, lock, runner, tales, starts,
                   crashes>>

(* The database refuses a statement after the membership was granted.      *)
StatementFails(p) ==
    /\ prov[p].at \in {"grants", "database", "schema", "harden"}
    /\ failures < MaxFailures
    /\ failures' = failures + 1
    /\ ProvFails(p)
    /\ UNCHANGED <<schema, catalog, lock, runner, tales, starts,
                   crashes>>

(* Looked up in pg_auth_members, whatever the membership is for.           *)
PostgresIsMember == owners \cap {"postgres", "creator"} # {}

CheckMembership(p) ==
    /\ ProvAt(p, "member")
    /\ ProvGoto(p, IF PostgresIsMember THEN "grants" ELSE "join")
    /\ UNCHANGED <<schema, catalog, lock, runner, tales, counters>>

(* Mutant of GrantMemberships: the grant carries the admin option.         *)
GrantWithAdmin(p) ==
    /\ ProvAt(p, "grants")
    /\ owners' = owners \cup {"db_bootstrap"}
    /\ claim' = "admin"
    /\ ProvGoto(p, "database")
    /\ UNCHANGED <<schema, roles, lock, runner, tales, counters>>

JoinOwners(p) ==
    /\ ProvAt(p, "join")
    /\ owners' = owners \cup {"postgres"}
    /\ ProvBecomes(p, [prov[p] EXCEPT !.joined = TRUE, !.at = "grants"])
    /\ JoinedMeanwhile
    /\ UNCHANGED <<schema, roles, claim, lock, runner, lapsed, counters>>

(* The GRANT raises, done or not: the execution does not know of it.       *)
JoinFails(p) ==
    /\ ProvAt(p, "join")
    /\ failures < MaxFailures
    /\ failures' = failures + 1
    /\ \/ owners' = owners \cup {"postgres"} /\ lapsed' = TRUE /\ JoinedMeanwhile
       \/ UNCHANGED <<owners, tales>>
    /\ ProvFails(p)
    /\ UNCHANGED <<schema, roles, claim, lock, runner, starts, crashes>>

GrantMemberships(p) ==
    /\ ProvAt(p, "grants")
    /\ owners' = owners \cup {"db_bootstrap"}
    /\ claim' = IF claim = "absent" THEN "plain" ELSE claim
    /\ ProvGoto(p, "database")
    /\ UNCHANGED <<schema, roles, lock, runner, tales, counters>>

(* Giving the database and its schema to db_owner takes membership in it.  *)
(* Whether a creator's membership is enough, the server's settings say.    *)
OwnDatabase(p) ==
    /\ ProvAt(p, "database")
    /\ \/ /\ PostgresIsMember
          /\ database' = TRUE /\ ProvGoto(p, "schema")
       \/ /\ "postgres" \notin owners
          /\ UNCHANGED database /\ ProvFails(p)
    /\ UNCHANGED <<revision, artifacts, create, catalog, lock, runner,
                   tales, counters>>

OwnSchema(p) ==
    /\ ProvAt(p, "schema")
    /\ \/ PostgresIsMember /\ ProvGoto(p, "harden")
       \/ "postgres" \notin owners /\ ProvFails(p)
    /\ UNCHANGED <<schema, catalog, lock, runner, tales, counters>>

(* One transaction over the four login roles.                              *)
Harden(p) ==
    /\ ProvAt(p, "harden")
    /\ IF /\ \A name \in LoginNames : roles[name] # "absent"
          /\ "db_bootstrap" \in owners
       THEN /\ roles' = [name \in RoleNames |->
                           IF name \in LoginNames THEN "plain" ELSE roles[name]]
            /\ ProvEnds(p)
       ELSE UNCHANGED roles /\ ProvFails(p)
    /\ UNCHANGED <<schema, owners, claim, lock, runner, tales, counters>>

Revoke(p) ==
    /\ ProvAt(p, "revoke")
    /\ owners' = owners \ {"postgres"}
    /\ lapsed' = FALSE
    /\ ProvGoto(p, "confirm")
    /\ UNCHANGED <<schema, roles, claim, lock, runner, verifier, counters>>

(* The REVOKE or the check after it raises: logged, and the execution      *)
(* fails.  A REVOKE that was not done leaves the membership.               *)
CleanupFails(p) ==
    /\ prov[p].at \in {"revoke", "confirm"}
    /\ failures < MaxFailures
    /\ failures' = failures + 1
    /\ \/ UNCHANGED owners /\ lapsed' = (lapsed \/ ProvAt(p, "revoke"))
       \/ owners' = owners \ {"postgres"} /\ lapsed' = FALSE /\ ProvAt(p, "revoke")
    /\ ProvBecomes(p, IdleProv)
    /\ UNCHANGED <<schema, roles, claim, lock, runner, verifier, starts, crashes>>

(* The look after the REVOKE: only what the execution reports hangs on it. *)
ConfirmRevoked(p) ==
    /\ ProvAt(p, "confirm")
    /\ ProvBecomes(p, IdleProv)
    /\ UNCHANGED <<schema, catalog, lock, runner, tales, counters>>

ProvisionerDies(p) ==
    /\ ~ProvAt(p, "idle") /\ crashes < MaxCrashes
    /\ crashes' = crashes + 1
    /\ ProvBecomes(p, IdleProv)
    /\ lapsed' = (lapsed \/ (prov[p].joined /\ ~ProvAt(p, "confirm")))
    /\ UNCHANGED <<schema, catalog, lock, runner, verifier, starts,
                   failures>>

ProvisionStep(p) ==
    \/ LookRole(p) \/ MakeRole(p) \/ CheckMembership(p) \/ JoinOwners(p)
    \/ GrantMemberships(p) \/ OwnDatabase(p) \/ OwnSchema(p) \/ Harden(p)
    \/ Revoke(p) \/ ConfirmRevoked(p)

ProvisionFails(p) ==
    PollTimesOut(p) \/ JoinFails(p) \/ StatementFails(p) \/ CleanupFails(p)

-----------------------------------------------------------------------------
(* reconcile-role-membership-attributes: one transaction that keeps the    *)
(* membership and takes its ADMIN OPTION away.                             *)
Reconcile ==
    /\ claim = "admin"
    /\ claim' = "plain"
    /\ UNCHANGED <<schema, roles, owners, lock, runner, prov, tales, counters>>

(* verify reads gate by gate: the version, the roles, their memberships    *)
(* and the rest.                                                           *)
Verdict(ok, place) ==
    /\ verifier' = IF ok THEN [verifier EXCEPT !.at = place] ELSE NoVerdict
    /\ UNCHANGED <<schema, catalog, lock, runner, prov, lapsed, counters>>

VerifyHead(h) ==
    /\ verifier.at \in {"none", "passed"} /\ starts < MaxStarts
    /\ starts' = starts + 1
    /\ database /\ roles["db_bootstrap"] # "absent"
    /\ verifier' = IF revision = h THEN [at |-> "roles", image |-> h, since |-> {}]
                   ELSE NoVerdict
    /\ UNCHANGED <<schema, catalog, lock, runner, prov, lapsed, crashes, failures>>

VerifyRoles ==
    /\ verifier.at = "roles"
    /\ Verdict(\A name \in LoginNames \cup {"db_owner"} : roles[name] = "plain",
               "memberships")

(* Mutant of VerifyMemberships: only the runtime roles are looked up.      *)
VerifyRuntimeOnly ==
    /\ verifier.at = "memberships"
    /\ Verdict(/\ "db_bootstrap" \in owners
               /\ owners \cap (LoginNames \ {"db_bootstrap"}) = {},
               "rest")

VerifyMemberships ==
    /\ verifier.at = "memberships"
    /\ Verdict(/\ "db_bootstrap" \in owners /\ ~PostgresIsMember
               /\ owners \cap (LoginNames \ {"db_bootstrap"}) = {},
               "rest")

(* Row security of the tables, PUBLIC, resolve_auth_context, permissions   *)
(* and roles, all of it the work of the migrations that the version names, *)
(* and the membership of db_owner.                                         *)
VerifyRest ==
    /\ verifier.at = "rest"
    /\ Verdict(artifacts /\ revision >= verifier.image /\ claim = "plain", "passed")

Verify == (\E h \in Images : VerifyHead(h)) \/ VerifyRoles \/ VerifyMemberships
              \/ VerifyRest

-----------------------------------------------------------------------------
(* No execution is left.                                                   *)
Ended ==
    /\ \A r \in Runners : At(r, "idle")
    /\ \A p \in Provisioners : ProvAt(p, "idle")
    /\ UNCHANGED vars

Next ==
    \/ \E r \in Runners :
          \/ \E h \in Images : Connect(r, h)
          \/ RunnerStep(r) \/ UpgradeRaises(r) \/ RunnerDies(r)
    \/ \E p \in Provisioners :
          StartProvision(p) \/ ProvisionStep(p) \/ ProvisionFails(p) \/ ProvisionerDies(p)
    \/ Reconcile
    \/ Verify
    \/ Ended

Spec == Init /\ [][Next]_vars

(* A started execution goes on until it ends: nothing in the code waits    *)
(* for a person.  Failures, deaths and new executions are not promised.    *)
LiveSpec == Spec /\ \A r \in Runners : WF_vars(RunnerStep(r))

-----------------------------------------------------------------------------
(* Properties                                                              *)

(* The revision a runner read before its phases is the database's revision *)
(* in every one of them, whatever other runners wait, fail or die          *)
(* (alembic_runner.run_alembic_migrations decides every phase from it).    *)
CachedRevisionTrue ==
    \A r \in Runners :
        runner[r].at \in {"phase1", "phase2", "check024", "grant", "phase3"} =>
            runner[r].current = revision

(* A runner that upgraded in phase 3 and got past its cleanup leaves no    *)
(* CREATE privilege to db_bootstrap, also when an earlier run that failed  *)
(* or died had left one (alembic_runner's privilege cleanup).              *)
UpgradeLeavesNoCreate ==
    \A r \in Runners :
        At(r, "unlock") /\ runner[r].upgraded => ~create

(* A membership that provisioning granted to postgres always has a running *)
(* execution that will take it back: two executions never leave it to each *)
(* other, and a failing one still revokes.  The exceptions are the three   *)
(* the code cannot help: an execution died, its REVOKE was refused, or its *)
(* GRANT was done and reported as failed.  They last until the next REVOKE *)
(* (provision_application_database's finally block).                       *)
MembershipIsTransient ==
    "postgres" \in owners =>
        lapsed \/ \E p \in Provisioners : prov[p].joined /\ ~ProvAt(p, "confirm")

(* What a passed `verify` is worth: every gate still holds, whatever ran   *)
(* between the gates and after them, but the version, which an upgrade may *)
(* have moved since to a later image, and the membership of postgres,      *)
(* which an execution of provisioning that joined after Gate 5 was read    *)
(* may hold again (run_security_verification).                             *)
VerifiedStaysTrue ==
    verifier.at = "passed" =>
        /\ revision >= verifier.image /\ artifacts
        /\ "upgraded" \notin verifier.since => revision = verifier.image
        /\ \A name \in LoginNames \cup {"db_owner"} : roles[name] = "plain"
        /\ "db_bootstrap" \in owners /\ "creator" \notin owners
        /\ "joined" \notin verifier.since => "postgres" \notin owners
        /\ claim = "plain"

(* A runner that asked for the advisory lock ends: it gets the lock or     *)
(* fails, and it never leaves the others waiting for it.                   *)
RunnersEnd == \A r \in Runners : At(r, "waiting") ~> At(r, "idle")
=============================================================================
