-------------------------- MODULE Migrations_proofs --------------------------
(* The safety of the migration runner, of provisioning and of `verify`, for *)
(* any number of executions, images and roles.                              *)
EXTENDS Migrations, TLAPS

(* Where a runner holds the advisory lock.                                 *)
Critical == Places \ {"idle", "waiting"}
Phases == {"phase1", "phase2", "check024", "grant", "phase3"}

LockMatchesPlace == \A r \in Runners : runner[r].at \in Critical <=> lock = r

(* What a runner knows at each place, and where the schema stands.         *)
Sound(r) ==
    /\ runner[r].at # "idle" => runner[r].image \in Images
    /\ runner[r].upgraded => runner[r].at \in {"cleanup", "commit", "unlock"}
    /\ runner[r].at \in Phases =>
           runner[r].current = revision /\ revision <= runner[r].image
    /\ runner[r].at = "phase1" => revision < 23
    /\ runner[r].at \in {"grant", "phase3"} => revision >= 24
    /\ runner[r].at = "unlock" /\ runner[r].upgraded => ~create

SchemaAgrees == artifacts <=> revision >= 24

Migrating == LockMatchesPlace /\ (\A r \in Runners : Sound(r)) /\ SchemaAgrees

(* A membership that was left to nobody is remembered; every other one has *)
(* an execution that will revoke it.                                       *)
Joined(p) == prov[p].joined /\ prov[p].at \in {"grants", "database", "schema",
                                               "harden", "revoke"}
Transient ==
    "postgres" \in owners => lapsed \/ \E p \in Provisioners : Joined(p)

(* What each gate of `verify` has read, and what may have happened since.  *)
PastRoles == {"memberships", "rest", "passed"}
PastMemberships == {"rest", "passed"}
GatesHold ==
    /\ verifier.at # "none" =>
           /\ verifier.image \in Images /\ revision >= verifier.image
           /\ "upgraded" \notin verifier.since => revision = verifier.image
    /\ verifier.at \in PastRoles =>
           \A name \in LoginNames \cup {"db_owner"} : roles[name] = "plain"
    /\ verifier.at \in PastMemberships =>
           /\ "db_bootstrap" \in owners /\ "creator" \notin owners
           /\ "joined" \notin verifier.since => "postgres" \notin owners
    /\ verifier.at = "passed" => claim = "plain"

IInv == TypeOK /\ Migrating /\ Transient /\ GatesHold

Migrate(r) == (\E h \in Images : Connect(r, h)) \/ RunnerStep(r)
                  \/ UpgradeRaises(r) \/ RunnerDies(r)
Provision(p) == StartProvision(p) \/ ProvisionStep(p) \/ ProvisionFails(p)
                    \/ ProvisionerDies(p)

LEMMA NextSplits ==
    ASSUME [Next]_vars
    PROVE  \/ \E r \in Runners : Migrate(r)
           \/ \E p \in Provisioners : Provision(p)
           \/ Reconcile \/ Verify \/ UNCHANGED vars
  BY Zenon DEF Next, Migrate, Provision, Ended

LEMMA OwnerIsRole == "db_owner" \in RoleNames
<1>1. PICK i \in DOMAIN OwnerRoles : OwnerRoles[i] = "db_owner"
  BY MigrationsAssumption DEF MigrationsAssumption
<1>2. OwnerRoles \in Seq(STRING) /\ LoginRoles \in Seq(STRING) /\ i \in 1..Len(OwnerRoles)
  BY <1>1, MigrationsAssumption DEF MigrationsAssumption
<1>3. i \in DOMAIN AllRoles /\ AllRoles[i] = OwnerRoles[i]
  BY <1>2, SMTT(30) DEF AllRoles
<1> QED
  BY <1>1, <1>3 DEF RoleNames

LEMMA LoginRolesAreRoles == LoginNames \subseteq RoleNames
<1> SUFFICES ASSUME NEW i \in DOMAIN LoginRoles
             PROVE  LoginRoles[i] \in RoleNames
  BY DEF LoginNames
<1>1. /\ LoginRoles \in Seq(STRING) /\ OwnerRoles \in Seq(STRING)
      /\ i \in 1..Len(LoginRoles)
  BY MigrationsAssumption DEF MigrationsAssumption
<1>2. Len(OwnerRoles) + i \in DOMAIN AllRoles
  BY <1>1 DEF AllRoles
<1>3. AllRoles[Len(OwnerRoles) + i] = LoginRoles[i]
  BY <1>1, SMTT(30) DEF AllRoles
<1> QED
  BY <1>2, <1>3 DEF RoleNames

-----------------------------------------------------------------------------
(* Type correctness.                                                       *)

LEMMA ConstantFacts == Images \subseteq Nat /\ Stops \subseteq Nat /\ NoRunner \notin Runners
  BY Zenon, MigrationsAssumption DEF MigrationsAssumption

LEMMA HeadsPassPhases == \A h \in Images : h > 26
  BY ZenonT(60), MigrationsAssumption DEF MigrationsAssumption

LEMMA RunnerUpdates ==
    ASSUME NEW s \in RunnerStates
    PROVE  /\ IdleRunner \in RunnerStates
           /\ \A place \in Places :
                 /\ [s EXCEPT !.at = place] \in RunnerStates
                 /\ \A h \in Images : [s EXCEPT !.at = place, !.image = h] \in RunnerStates
                 /\ \A n \in Nat : [s EXCEPT !.current = n, !.at = place] \in RunnerStates
                 /\ \A b \in BOOLEAN :
                       /\ [s EXCEPT !.before = b, !.at = place] \in RunnerStates
                       /\ [s EXCEPT !.at = place, !.upgraded = b] \in RunnerStates
<1>1. IdleRunner \in RunnerStates
  BY DEF RunnerStates, IdleRunner, Places
<1>2. ASSUME NEW place \in Places
      PROVE  [s EXCEPT !.at = place] \in RunnerStates
  BY <1>2 DEF RunnerStates
<1>3. ASSUME NEW place \in Places, NEW h \in Images
      PROVE  [s EXCEPT !.at = place, !.image = h] \in RunnerStates
  BY <1>3 DEF RunnerStates
<1>4. ASSUME NEW place \in Places, NEW n \in Nat
      PROVE  [s EXCEPT !.current = n, !.at = place] \in RunnerStates
  BY <1>4 DEF RunnerStates
<1>5. ASSUME NEW place \in Places, NEW b \in BOOLEAN
      PROVE  /\ [s EXCEPT !.before = b, !.at = place] \in RunnerStates
             /\ [s EXCEPT !.at = place, !.upgraded = b] \in RunnerStates
  BY <1>5 DEF RunnerStates
<1> QED
  BY <1>1, <1>2, <1>3, <1>4, <1>5

LEMMA ProvUpdates ==
    ASSUME NEW s \in ProvStates
    PROVE  /\ IdleProv \in ProvStates
           /\ \A place \in ProvPlaces :
                 /\ [s EXCEPT !.at = place] \in ProvStates
                 /\ \A n \in Nat : [s EXCEPT !.next = n, !.at = place] \in ProvStates
                 /\ \A b \in BOOLEAN : [s EXCEPT !.joined = b, !.at = place] \in ProvStates
<1>1. IdleProv \in ProvStates
  BY DEF ProvStates, IdleProv, ProvPlaces
<1>2. ASSUME NEW place \in ProvPlaces
      PROVE  [s EXCEPT !.at = place] \in ProvStates
  BY <1>2 DEF ProvStates
<1>3. ASSUME NEW place \in ProvPlaces, NEW n \in Nat
      PROVE  [s EXCEPT !.next = n, !.at = place] \in ProvStates
  BY <1>3 DEF ProvStates
<1>4. ASSUME NEW place \in ProvPlaces, NEW b \in BOOLEAN
      PROVE  [s EXCEPT !.joined = b, !.at = place] \in ProvStates
  BY <1>4 DEF ProvStates
<1> QED
  BY <1>1, <1>2, <1>3, <1>4

LEMMA InitTyped == Init => TypeOK
<1> SUFFICES ASSUME Init PROVE TypeOK
  OBVIOUS
<1>1. runner \in [Runners -> RunnerStates] /\ prov \in [Provisioners -> ProvStates]
  BY DEF Init, RunnerStates, ProvStates, IdleRunner, IdleProv, Places, ProvPlaces
<1>2. verifier \in VerifierStates /\ lapsed \in BOOLEAN
  BY DEF Init, NoVerdict, VerifierPlaces, VerifierStates
<1>3. /\ database \in BOOLEAN /\ create \in BOOLEAN
      /\ owners \subseteq {"postgres", "creator", "db_bootstrap"}
      /\ claim \in {"absent", "plain", "admin"}
      /\ lock \in Runners \cup {NoRunner}
  BY DEF Init, Creators
<1>6. starts \in Nat /\ crashes \in Nat /\ failures \in Nat
  BY DEF Init
<1>7. revision \in Nat
  <2>1. CASE revision = 0
    BY <2>1
  <2>2. CASE revision \in Stops
    BY <2>2, ConstantFacts
  <2> QED
    BY <2>1, <2>2 DEF Init
<1>4. roles \in [RoleNames -> {"absent", "elevated", "plain"}]
  BY DEF Init
<1>5. artifacts \in BOOLEAN
  BY DEF Init
<1> QED
  BY <1>1, <1>2, <1>3, <1>4, <1>5, <1>6, <1>7 DEF TypeOK

(* Where a step of `migrate` takes the runner.                             *)
LEMMA MigrateMoves ==
    ASSUME TypeOK, NEW r \in Runners, Migrate(r)
    PROVE  \/ UNCHANGED runner
           \/ Becomes(r, IdleRunner)
           \/ \E place \in Places :
                 \/ Goto(r, place)
                 \/ \E h \in Images : Becomes(r, [runner[r] EXCEPT !.at = place, !.image = h])
                 \/ \E n \in Nat : Becomes(r, [runner[r] EXCEPT !.current = n, !.at = place])
                 \/ \E b \in BOOLEAN :
                       \/ Becomes(r, [runner[r] EXCEPT !.before = b, !.at = place])
                       \/ Becomes(r, [runner[r] EXCEPT !.at = place, !.upgraded = b])
<1> USE DEF Goto, Places
<1>1. CASE \E h \in Images : Connect(r, h)
  BY <1>1, Zenon DEF Connect
<1>2. CASE Acquire(r) \/ CheckLock(r) \/ Cleanup(r) \/ CommitCleanup(r) \/ Unlock(r)
  BY <1>2, Zenon DEF Acquire, CheckLock, Cleanup, CommitCleanup, Unlock, GiveUp, Close
<1>3. CASE ReadRevision(r)
  BY <1>3, Zenon DEF ReadRevision, PhaseFrom, GiveUp, Close, TypeOK
<1>4. CASE Phase1(r) \/ Phase2(r)
  BY <1>4, Zenon DEF Phase1, Phase2, ApplySafe024Ddl, GiveUp, Close
<1>5. CASE Check024(r)
  BY <1>5, Zenon DEF Check024, GiveUp, Close
<1>6. CASE GrantCreate(r) \/ Phase3(r)
  BY <1>6, Zenon DEF GrantCreate, Phase3, TypeOK
<1>7. CASE UpgradeRaises(r) \/ RunnerDies(r)
  BY <1>7, Zenon DEF UpgradeRaises, RunnerDies, Close
<1> QED
  BY <1>1, <1>2, <1>3, <1>4, <1>5, <1>6, <1>7, Zenon DEF Migrate, RunnerStep

LEMMA EventsTyped ==
    ASSUME NEW event \in {"upgraded", "joined"}, NEW places, verifier \in VerifierStates,
           Meanwhile(event, places)
    PROVE  verifier' \in VerifierStates
<1>1. verifier.since \cup {event} \in SUBSET {"upgraded", "joined"}
  BY DEF VerifierStates
<1> QED
  BY <1>1 DEF Meanwhile, VerifierStates

LEMMA MigrateTyped ==
    ASSUME TypeOK, NEW r \in Runners, Migrate(r)
    PROVE  TypeOK'
<1>6. verifier' \in VerifierStates
  <2>1. UNCHANGED verifier \/ Upgraded
    BY Zenon DEF Migrate, Connect, RunnerStep, Acquire, CheckLock, ReadRevision,
       Phase1, Phase2, Check024, GrantCreate, Phase3, Cleanup, CommitCleanup, Unlock,
       UpgradeRaises, RunnerDies, GiveUp, tales
  <2>2. verifier \in VerifierStates
    BY DEF TypeOK
  <2> QED
    BY <2>1, <2>2, EventsTyped DEF Upgraded
<1>1. UNCHANGED <<database, roles, owners, claim, prov, lapsed>>
  BY DEF Migrate, Connect, RunnerStep, Acquire, CheckLock, ReadRevision,
     Phase1, Phase2, ApplySafe024Ddl, Check024, GrantCreate, Phase3, Cleanup, CommitCleanup, Unlock,
     UpgradeRaises, RunnerDies, GiveUp, schema, catalog, counters, tales
<1>2. /\ revision' \in Nat /\ artifacts' \in BOOLEAN /\ create' \in BOOLEAN
  <2>1. CASE Phase1(r) \/ Phase2(r) \/ Phase3(r)
    <3>1. runner[r].image \in Nat
      <4>1. runner[r] \in RunnerStates
        BY DEF TypeOK
      <4>2. runner[r].image \in Images \cup {0}
        BY <4>1 DEF RunnerStates
      <4>3. Images \cup {0} \subseteq Nat
        BY ConstantFacts
      <4> QED
        BY <4>2, <4>3
    <3>2. revision' \in {revision, 23, 24, runner[r].image}
      BY <2>1 DEF Phase1, Phase2, ApplySafe024Ddl, Phase3, GiveUp, schema
    <3>3. revision' \in Nat
      BY <3>1, <3>2 DEF TypeOK
    <3>4. artifacts' \in BOOLEAN /\ create' \in BOOLEAN
      BY <2>1 DEF Phase1, Phase2, ApplySafe024Ddl, Phase3, GiveUp, schema, TypeOK
    <3> QED
      BY <3>3, <3>4
  <2>2. CASE ~(Phase1(r) \/ Phase2(r) \/ Phase3(r))
    BY <2>2 DEF Migrate, Connect, RunnerStep, Acquire, CheckLock, ReadRevision,
     Phase1, Phase2, ApplySafe024Ddl, Check024, GrantCreate, Phase3, Cleanup, CommitCleanup, Unlock,
     UpgradeRaises, RunnerDies, GiveUp, schema, TypeOK
  <2> QED
    BY <2>1, <2>2
<1>3. starts' \in Nat /\ crashes' \in Nat /\ failures' \in Nat
  <2>1. CASE RunnerStep(r)
    <3>1. UNCHANGED counters
      BY <2>1 DEF RunnerStep, Acquire, CheckLock, ReadRevision, Phase1, Phase2, ApplySafe024Ddl,
         Check024, GrantCreate, Phase3, Cleanup, CommitCleanup, Unlock, GiveUp
    <3> QED
      BY <3>1 DEF counters, TypeOK
  <2>2. CASE ~RunnerStep(r)
    <3>1. /\ starts' \in {starts, starts + 1}
          /\ crashes' \in {crashes, crashes + 1} /\ failures' \in {failures, failures + 1}
      BY <2>2 DEF Migrate, Connect, UpgradeRaises, RunnerDies, counters
    <3> QED
      BY <3>1 DEF TypeOK
  <2> QED
    BY <2>1, <2>2
<1>4. lock' \in Runners \cup {NoRunner}
  BY ZenonT(60) DEF Migrate, Connect, RunnerStep, Acquire, CheckLock, ReadRevision,
     Phase1, Phase2, ApplySafe024Ddl, Check024, GrantCreate, Phase3, Cleanup, CommitCleanup, Unlock,
     UpgradeRaises, RunnerDies, GiveUp, Close, TypeOK
<1>5. runner' \in [Runners -> RunnerStates]
  <2>1. runner \in [Runners -> RunnerStates] /\ runner[r] \in RunnerStates
    BY DEF TypeOK
  <2>2. ASSUME NEW s \in RunnerStates, Becomes(r, s)
        PROVE  runner' \in [Runners -> RunnerStates]
    BY <2>1, <2>2 DEF Becomes
  <2> QED
    BY <2>1, <2>2, RunnerUpdates, MigrateMoves DEF Goto
<1> QED
  BY <1>1, <1>2, <1>3, <1>4, <1>5, <1>6 DEF TypeOK

LEMMA ProvisionMoves ==
    ASSUME TypeOK, NEW p \in Provisioners, Provision(p)
    PROVE  prov' \in [Provisioners -> ProvStates]
<1>1. prov \in [Provisioners -> ProvStates] /\ prov[p] \in ProvStates
  BY DEF TypeOK
<1>2. prov[p].next \in Nat
  BY <1>1 DEF ProvStates
<1>3. CASE ProvFails(p)
  BY <1>1, <1>3, ProvUpdates, Zenon DEF ProvFails, ProvEnds, ProvPlaces, ProvGoto, ProvBecomes
<1>4. CASE NextRole(p)
  <2>1. PICK place \in ProvPlaces :
           ProvBecomes(p, [prov[p] EXCEPT !.next = prov[p].next + 1, !.at = place])
    BY <1>4 DEF NextRole, ProvPlaces
  <2>2. [prov[p] EXCEPT !.next = prov[p].next + 1, !.at = place] \in ProvStates
    <3>1. prov[p].next + 1 \in Nat
      BY <1>2
    <3> QED
      BY <1>1, <3>1, ProvUpdates
  <2> QED
    BY <1>1, <2>1, <2>2 DEF ProvBecomes
<1>5. CASE \E place \in ProvPlaces : ProvGoto(p, place)
  BY <1>1, <1>5, ProvUpdates, Zenon DEF ProvGoto, ProvBecomes
<1>6. CASE ProvBecomes(p, IdleProv)
  BY <1>1, <1>6, ProvUpdates, Zenon DEF ProvBecomes
<1>8. CASE JoinOwners(p)
  BY <1>1, <1>8, ProvUpdates, Zenon DEF JoinOwners, ProvPlaces, ProvBecomes
<1>9. \/ ProvFails(p) \/ NextRole(p) \/ \E place \in ProvPlaces : ProvGoto(p, place)
      \/ ProvBecomes(p, IdleProv) \/ JoinOwners(p)
  BY DEF Provision, StartProvision, ProvisionStep, ProvisionFails, PollTimesOut, JoinFails,
     StatementFails, CleanupFails, ProvisionerDies,
     LookRole, MakeRole, CheckMembership, GrantMemberships, OwnDatabase,
     OwnSchema, Harden, Revoke, ConfirmRevoked, ProvFails, ProvPlaces
<1> QED
  BY <1>3, <1>4, <1>5, <1>6, <1>8, <1>9

LEMMA ProvisionTyped ==
    ASSUME TypeOK, NEW p \in Provisioners, Provision(p)
    PROVE  TypeOK'
<1>1. UNCHANGED <<revision, artifacts, create, lock, runner>>
  BY DEF Provision, StartProvision, ProvisionStep, ProvisionFails, PollTimesOut,
     JoinFails, StatementFails, CleanupFails, ProvisionerDies, LookRole, MakeRole,
     CheckMembership, JoinOwners, GrantMemberships, OwnDatabase, OwnSchema, Harden,
     Revoke, ConfirmRevoked, schema, catalog, counters
<1>2. database' \in BOOLEAN
  BY DEF Provision, StartProvision, ProvisionStep, ProvisionFails, PollTimesOut,
     JoinFails, StatementFails, CleanupFails, ProvisionerDies, LookRole, MakeRole,
     CheckMembership, JoinOwners, GrantMemberships, OwnDatabase, OwnSchema, Harden,
     Revoke, ConfirmRevoked, schema, TypeOK
<1>3. starts' \in Nat /\ crashes' \in Nat /\ failures' \in Nat
  BY DEF Provision, StartProvision, ProvisionStep, ProvisionFails, PollTimesOut,
     JoinFails, StatementFails, CleanupFails, ProvisionerDies, LookRole, MakeRole,
     CheckMembership, JoinOwners, GrantMemberships, OwnDatabase, OwnSchema, Harden,
     Revoke, ConfirmRevoked, counters, TypeOK
<1>4. claim' \in {"absent", "plain", "admin"}
  BY DEF Provision, StartProvision, ProvisionStep, ProvisionFails, PollTimesOut,
     JoinFails, StatementFails, CleanupFails, ProvisionerDies, LookRole, MakeRole,
     CheckMembership, JoinOwners, GrantMemberships, OwnDatabase, OwnSchema, Harden,
     Revoke, ConfirmRevoked, catalog, TypeOK
<1>5. roles' \in [RoleNames -> {"absent", "elevated", "plain"}]
  <2>1. CASE MakeRole(p) \/ PollTimesOut(p)
    BY <2>1 DEF MakeRole, PollTimesOut, Created, TypeOK
  <2>2. CASE Harden(p)
    BY <2>2 DEF Harden, TypeOK
  <2>3. CASE UNCHANGED roles
    BY <2>3 DEF TypeOK
  <2> QED
    BY <2>1, <2>2, <2>3 DEF Provision, StartProvision, ProvisionStep, ProvisionFails, PollTimesOut,
     JoinFails, StatementFails, CleanupFails, ProvisionerDies, LookRole, MakeRole,
     CheckMembership, JoinOwners, GrantMemberships, OwnDatabase, OwnSchema, Harden,
     Revoke, ConfirmRevoked, catalog
<1>6. owners' \subseteq {"postgres", "creator", "db_bootstrap"}
  <2>1. CASE MakeRole(p) \/ PollTimesOut(p)
    BY <2>1 DEF MakeRole, PollTimesOut, Created, Creators, TypeOK
  <2>2. CASE ~(MakeRole(p) \/ PollTimesOut(p))
    BY <2>2 DEF Provision, StartProvision, ProvisionStep, ProvisionFails, PollTimesOut,
     JoinFails, StatementFails, CleanupFails, ProvisionerDies, LookRole, MakeRole,
     CheckMembership, JoinOwners, GrantMemberships, OwnDatabase, OwnSchema, Harden,
     Revoke, ConfirmRevoked, catalog, TypeOK
  <2> QED
    BY <2>1, <2>2
<1>7. verifier' \in VerifierStates /\ lapsed' \in BOOLEAN
  <2>1. UNCHANGED verifier \/ JoinedMeanwhile
    BY Zenon DEF Provision, StartProvision, ProvisionStep, ProvisionFails, PollTimesOut,
     JoinFails, StatementFails, CleanupFails, ProvisionerDies, LookRole, MakeRole,
     CheckMembership, JoinOwners, GrantMemberships, OwnDatabase, OwnSchema, Harden,
     Revoke, ConfirmRevoked, tales
  <2>2. verifier \in VerifierStates /\ lapsed \in BOOLEAN
    BY DEF TypeOK
  <2>3. prov[p].joined \in BOOLEAN
    BY DEF TypeOK, ProvStates
  <2>4. lapsed' \in BOOLEAN
    BY <2>2, <2>3 DEF ProvAt, Provision, StartProvision, ProvisionStep, ProvisionFails, PollTimesOut,
     JoinFails, StatementFails, CleanupFails, ProvisionerDies, LookRole, MakeRole,
     CheckMembership, JoinOwners, GrantMemberships, OwnDatabase, OwnSchema, Harden,
     Revoke, ConfirmRevoked, tales
  <2> QED
    BY <2>1, <2>2, <2>4, EventsTyped DEF JoinedMeanwhile
<1> QED
  BY <1>1, <1>2, <1>3, <1>4, <1>5, <1>6, <1>7, ProvisionMoves DEF TypeOK

LEMMA RestTyped ==
    ASSUME TypeOK, Reconcile \/ Verify \/ UNCHANGED vars
    PROVE  TypeOK'
  BY SMTT(30) DEF Reconcile, Verify, VerifyHead, VerifyRoles, VerifyMemberships, VerifyRest,
     Verdict, NoVerdict, VerifierPlaces, VerifierStates, TypeOK, vars, schema, catalog, counters,
     tales

-----------------------------------------------------------------------------
(* The runner and the schema.                                              *)

(* Every step of `migrate` closes the connection, asks for the lock, gets  *)
(* it, or goes on under it.                                                *)
LEMMA LockSteps ==
    ASSUME TypeOK, NEW r \in Runners, Migrate(r)
    PROVE  \/ Close(r)
           \/ UNCHANGED <<runner, lock>>
           \/ /\ runner[r].at = "idle" /\ UNCHANGED lock
              /\ \E h \in Images : Becomes(r, [runner[r] EXCEPT !.at = "waiting", !.image = h])
           \/ Acquire(r)
           \/ /\ runner[r].at \in Critical /\ UNCHANGED lock
              /\ \E s \in RunnerStates : s.at \in Critical /\ Becomes(r, s)
<1>1. CASE \E h \in Images : Connect(r, h)
  BY <1>1 DEF Connect, At
<1>2. CASE UpgradeRaises(r) \/ RunnerDies(r) \/ Unlock(r)
  BY <1>2 DEF UpgradeRaises, RunnerDies, Unlock, GiveUp
<1>3. CASE Acquire(r)
  BY <1>3
<1>4. ASSUME NEW place \in Critical, Goto(r, place), runner[r].at \in Critical, UNCHANGED lock
      PROVE  \E s \in RunnerStates : s.at \in Critical /\ Becomes(r, s)
  <2>1. runner[r] \in RunnerStates /\ place \in Places
    BY DEF TypeOK, Critical
  <2>2. [runner[r] EXCEPT !.at = place] \in RunnerStates
    BY <2>1, RunnerUpdates
  <2>3. [runner[r] EXCEPT !.at = place].at = place
    BY <2>1 DEF RunnerStates
  <2> QED
    BY <1>4, <2>2, <2>3 DEF Goto
<1>5. CASE CheckLock(r) \/ Check024(r) \/ Cleanup(r) \/ CommitCleanup(r)
  BY <1>4, <1>5 DEF CheckLock, Check024, Cleanup, CommitCleanup, GiveUp, At, Critical, Places
<1>6. CASE ReadRevision(r) \/ Phase1(r) \/ Phase2(r)
  <2>1. CASE GiveUp(r)
    BY <2>1 DEF GiveUp
  <2>2. CASE ~GiveUp(r)
    <3>1. PICK n \in Nat, place \in Critical :
             Becomes(r, [runner[r] EXCEPT !.current = n, !.at = place])
      BY <1>6, <2>2, ZenonT(60) DEF ReadRevision, Phase1, Phase2, ApplySafe024Ddl, PhaseFrom, Critical, Places, TypeOK
    <3>2. runner[r].at \in Critical /\ UNCHANGED lock
      BY <1>6, <2>2 DEF ReadRevision, Phase1, Phase2, ApplySafe024Ddl, At, Critical, Places
    <3>3. runner[r] \in RunnerStates /\ place \in Places
      BY DEF TypeOK, Critical
    <3>4. [runner[r] EXCEPT !.current = n, !.at = place] \in RunnerStates
      BY <3>3, RunnerUpdates
    <3>5. [runner[r] EXCEPT !.current = n, !.at = place].at = place
      BY <3>3 DEF RunnerStates
    <3> QED
      BY <3>1, <3>2, <3>4, <3>5
  <2> QED
    BY <2>1, <2>2
<1>7. CASE GrantCreate(r) \/ Phase3(r)
  <2>1. PICK s : /\ Becomes(r, s) /\ UNCHANGED lock
                 /\ \/ s = [runner[r] EXCEPT !.before = create, !.at = "phase3"]
                    \/ s = [runner[r] EXCEPT !.at = "cleanup", !.upgraded = TRUE]
    BY <1>7 DEF GrantCreate, Phase3
  <2>2. runner[r] \in RunnerStates /\ create \in BOOLEAN
    BY DEF TypeOK
  <2>3. s \in RunnerStates
    BY <2>1, <2>2 DEF RunnerStates, Places
  <2>4. s.at \in {"phase3", "cleanup"}
    BY <2>1, <2>2 DEF RunnerStates
  <2>5. runner[r].at \in Critical /\ s.at \in Critical
    BY <1>7, <2>4 DEF GrantCreate, Phase3, At, Critical, Places
  <2> QED
    BY <2>1, <2>3, <2>5
<1> QED
  BY <1>1, <1>2, <1>3, <1>5, <1>6, <1>7 DEF Migrate, RunnerStep

LEMMA LockKept ==
    ASSUME TypeOK, LockMatchesPlace, NEW r \in Runners, Migrate(r)
    PROVE  LockMatchesPlace'
<1>1. runner \in [Runners -> RunnerStates] /\ NoRunner \notin Runners
  BY ConstantFacts DEF TypeOK
<1>2. CASE Close(r)
  BY <1>1, <1>2 DEF Close, Becomes, IdleRunner, LockMatchesPlace, Critical, Places
<1>3. CASE UNCHANGED <<runner, lock>>
  BY <1>3 DEF LockMatchesPlace
<1>4. CASE /\ runner[r].at = "idle" /\ UNCHANGED lock
           /\ \E h \in Images : Becomes(r, [runner[r] EXCEPT !.at = "waiting", !.image = h])
  <2>1. /\ runner'[r].at = "waiting"
        /\ \A q \in Runners \ {r} : runner'[q] = runner[q]
    BY <1>1, <1>4 DEF Becomes, RunnerStates
  <2> QED
    BY <1>4, <2>1 DEF LockMatchesPlace, Critical, Places
<1>5. CASE Acquire(r)
  <2>1. /\ runner'[r].at = "locked" /\ lock = NoRunner /\ lock' = r
        /\ \A q \in Runners \ {r} : runner'[q] = runner[q]
    BY <1>1, <1>5 DEF Acquire, Goto, Becomes, RunnerStates
  <2> QED
    BY <1>1, <2>1 DEF LockMatchesPlace, Critical, Places
<1>6. CASE /\ runner[r].at \in Critical /\ UNCHANGED lock
           /\ \E s \in RunnerStates : s.at \in Critical /\ Becomes(r, s)
  <2>1. /\ runner'[r].at \in Critical
        /\ \A q \in Runners \ {r} : runner'[q] = runner[q]
    BY <1>1, <1>6 DEF Becomes
  <2> QED
    BY <1>6, <2>1 DEF LockMatchesPlace
<1> QED
  BY <1>2, <1>3, <1>4, <1>5, <1>6, LockSteps

(* While one runner is under the lock, no step of another moves the schema. *)
LEMMA OthersWait ==
    ASSUME TypeOK, Migrating, NEW r \in Runners, Migrate(r), NEW q \in Runners \ {r}
    PROVE  Sound(q)'
<1>1. runner'[q] = runner[q]
  <2>1. UNCHANGED runner \/ \E s : Becomes(r, s)
    BY LockSteps DEF Close, Acquire, Goto
  <2> QED
    BY <2>1 DEF TypeOK, Becomes
<1>2. CASE runner[q].at \notin Critical
  <2>1. ~runner[q].upgraded /\ (runner[q].at # "idle" => runner[q].image \in Images)
    BY <1>2 DEF Migrating, Sound, Critical, Places
  <2> QED
    BY <1>1, <1>2, <2>1 DEF Sound, Critical, Phases, Places
<1>3. CASE runner[q].at \in Critical
  <2>1. runner[r].at \notin Critical
    BY <1>3 DEF Migrating, LockMatchesPlace
  <2>2. UNCHANGED <<revision, create>>
    BY <2>1 DEF Migrate, Connect, RunnerStep, Acquire, CheckLock, ReadRevision,
       Phase1, Phase2, ApplySafe024Ddl, Check024, GrantCreate, Phase3, Cleanup, CommitCleanup, Unlock,
       UpgradeRaises, RunnerDies, GiveUp, schema, At, Critical, Places
  <2> QED
    BY <1>1, <2>2 DEF Migrating, Sound
<1> QED
  BY <1>2, <1>3

LEMMA MigratingKept ==
    ASSUME TypeOK, Migrating, NEW r \in Runners, Migrate(r)
    PROVE  Migrating'
<1>1. /\ runner \in [Runners -> RunnerStates] /\ runner[r] \in RunnerStates
      /\ revision \in Nat /\ Sound(r)
  BY DEF TypeOK, Migrating
<1>2. SUFFICES Sound(r)' /\ SchemaAgrees'
  BY OthersWait, LockKept DEF Migrating
<1>3. ASSUME UNCHANGED <<revision, artifacts>> PROVE SchemaAgrees'
  BY <1>3 DEF Migrating, SchemaAgrees
<1>4. ASSUME Close(r) PROVE Sound(r)'
  <2>1. runner'[r] = IdleRunner
    BY <1>1, <1>4 DEF Close, Becomes
  <2> QED
    BY <2>1 DEF Sound, IdleRunner, Phases
<1>5. CASE \E h \in Images : Connect(r, h)
  <2>1. UNCHANGED <<revision, artifacts, create>>
    BY <1>5 DEF Connect, schema
  <2>2. CASE UNCHANGED runner
    BY <1>1, <1>3, <2>1, <2>2 DEF Sound
  <2>3. CASE ~UNCHANGED runner
    <3>1. PICK h \in Images : Becomes(r, [runner[r] EXCEPT !.at = "waiting", !.image = h])
      BY <1>5, <2>3 DEF Connect
    <3>2. /\ runner'[r].at = "waiting" /\ runner'[r].image \in Images
          /\ runner'[r].upgraded = runner[r].upgraded /\ runner[r].at = "idle"
      BY <1>1, <1>5, <3>1 DEF Becomes, RunnerStates, Connect, At
    <3> QED
      BY <1>1, <1>3, <2>1, <3>2 DEF Sound, Phases
  <2> QED
    BY <2>2, <2>3
<1>6. CASE UpgradeRaises(r) \/ RunnerDies(r) \/ Unlock(r) \/ GiveUp(r)
  BY <1>3, <1>4, <1>6 DEF UpgradeRaises, RunnerDies, Unlock, GiveUp, schema
(* A step that only goes on keeps what the runner knows. *)
<1>7. ASSUME NEW place \in Places, Goto(r, place),
             UNCHANGED <<revision, create>>,
             runner[r].at # "idle", place \in {"locked", "read", "unlock", "grant", "commit"},
             runner[r].upgraded => place \in {"commit", "unlock"},
             place = "grant" => runner[r].at = "check024" /\ revision >= 24,
             place = "unlock" => ~runner[r].upgraded
      PROVE  Sound(r)'
  <2>1. /\ runner'[r].at = place
        /\ runner'[r].image = runner[r].image /\ runner'[r].current = runner[r].current
        /\ runner'[r].upgraded = runner[r].upgraded
    BY <1>1, <1>7 DEF Goto, Becomes, RunnerStates
  <2> QED
    BY <1>1, <1>7, <2>1 DEF Sound, Phases
<1>8. CASE (Acquire(r) \/ CheckLock(r) \/ Check024(r) \/ Cleanup(r)) /\ ~GiveUp(r)
  <2>1. UNCHANGED <<revision, artifacts, create>>
    BY <1>8 DEF Acquire, CheckLock, Check024, Cleanup, schema
  <2>2. PICK place \in {"locked", "read", "unlock", "grant", "commit"} :
           /\ Goto(r, place)
           /\ \/ runner[r].at = "waiting" /\ place = "locked"
              \/ runner[r].at = "locked" /\ place = "read"
              \/ runner[r].at = "check024" /\ place \in {"unlock", "grant"} /\ artifacts
              \/ runner[r].at = "cleanup" /\ place = "commit"
    BY <1>8 DEF Acquire, CheckLock, Check024, Cleanup, At
  <2>3. place = "grant" => revision >= 24
    BY <2>2 DEF Migrating, SchemaAgrees
  <2> QED
    BY <1>1, <1>3, <1>7, <2>1, <2>2, <2>3 DEF Sound, Places
<1>9. CASE ReadRevision(r) /\ ~GiveUp(r)
  <2>1. /\ revision <= runner[r].image /\ runner[r].at = "read"
        /\ Becomes(r, [runner[r] EXCEPT !.current = revision, !.at = PhaseFrom(revision)])
        /\ UNCHANGED <<revision, artifacts, create>>
    BY <1>9 DEF ReadRevision, At, schema
  <2>2. /\ runner'[r].at = PhaseFrom(revision)
        /\ runner'[r].image = runner[r].image /\ runner'[r].current = revision
        /\ runner'[r].upgraded = runner[r].upgraded
    BY <1>1, <2>1 DEF Becomes, RunnerStates
  <2>3. /\ PhaseFrom(revision) \in {"phase1", "phase2", "check024"}
        /\ PhaseFrom(revision) = "phase1" => revision < 23
    BY <1>1 DEF PhaseFrom
  <2> QED
    BY <1>1, <1>3, <2>1, <2>2, <2>3 DEF Sound, Phases
<1>10. CASE Phase1(r)
  <2>1. /\ runner[r].at = "phase1" /\ revision' = 23 /\ UNCHANGED <<artifacts, create>>
        /\ Becomes(r, [runner[r] EXCEPT !.current = 23, !.at = "phase2"])
    BY <1>10 DEF Phase1, At
  <2>2. /\ runner'[r].at = "phase2" /\ runner'[r].current = 23
        /\ runner'[r].image = runner[r].image /\ runner'[r].upgraded = runner[r].upgraded
    BY <1>1, <2>1 DEF Becomes, RunnerStates
  <2>3. revision < 23 /\ runner[r].image \in Images /\ runner[r].image \in Nat
    BY <1>1, <2>1, ConstantFacts DEF Sound
  <2>4. runner[r].image > 26
    BY <2>3, HeadsPassPhases
  <2>5. SchemaAgrees'
    <3>1. ~artifacts
      BY <1>1, <2>3 DEF Migrating, SchemaAgrees
    <3>2. ~artifacts' /\ ~(revision' >= 24)
      BY <2>1, <3>1
    <3> QED
      BY <3>2 DEF SchemaAgrees
  <2> QED
    BY <1>1, <2>1, <2>2, <2>3, <2>4, <2>5 DEF Sound, Phases
<1>11. CASE Phase2(r) /\ ~GiveUp(r)
  <2>1. /\ runner[r].at = "phase2" /\ revision' = 24 /\ artifacts' = TRUE /\ UNCHANGED create
        /\ Becomes(r, [runner[r] EXCEPT !.current = 24, !.at = "check024"])
    BY <1>11 DEF Phase2, ApplySafe024Ddl, At
  <2>2. /\ runner'[r].at = "check024" /\ runner'[r].current = 24
        /\ runner'[r].image = runner[r].image /\ runner'[r].upgraded = runner[r].upgraded
    BY <1>1, <2>1 DEF Becomes, RunnerStates
  <2>3. runner[r].image \in Images /\ runner[r].image \in Nat
    BY <1>1, <2>1, ConstantFacts DEF Sound
  <2>4. runner[r].image > 26
    BY <2>3, HeadsPassPhases
  <2>5. SchemaAgrees'
    BY <2>1 DEF SchemaAgrees
  <2> QED
    BY <1>1, <2>1, <2>2, <2>3, <2>4, <2>5 DEF Sound, Phases
<1>12. CASE GrantCreate(r)
  <2>1. /\ runner[r].at = "grant" /\ UNCHANGED <<revision, artifacts>>
        /\ Becomes(r, [runner[r] EXCEPT !.before = create, !.at = "phase3"])
    BY <1>12 DEF GrantCreate, At
  <2>2. /\ runner'[r].at = "phase3" /\ runner'[r].current = runner[r].current
        /\ runner'[r].image = runner[r].image /\ runner'[r].upgraded = runner[r].upgraded
    BY <1>1, <2>1 DEF Becomes, RunnerStates
  <2> QED
    BY <1>1, <1>3, <2>1, <2>2 DEF Sound, Phases
<1>13. CASE Phase3(r)
  <2>1. /\ runner[r].at = "phase3" /\ revision' = runner[r].image
        /\ UNCHANGED <<artifacts, create>>
        /\ Becomes(r, [runner[r] EXCEPT !.at = "cleanup", !.upgraded = TRUE])
    BY <1>13 DEF Phase3, At
  <2>2. /\ runner'[r].at = "cleanup" /\ runner'[r].image = runner[r].image
    BY <1>1, <2>1 DEF Becomes, RunnerStates
  <2>3. runner[r].image \in Images /\ runner[r].image \in Nat /\ revision >= 24
    BY <1>1, <2>1, ConstantFacts DEF Sound
  <2>4. runner[r].image >= 24
    BY <2>3, HeadsPassPhases
  <2>5. SchemaAgrees'
    <3>1. artifacts
      BY <2>3 DEF Migrating, SchemaAgrees
    <3>2. artifacts' /\ revision' >= 24
      BY <2>1, <2>4, <3>1
    <3> QED
      BY <3>2 DEF SchemaAgrees
  <2> QED
    BY <2>2, <2>3, <2>5 DEF Sound, Phases
<1>14. CASE CommitCleanup(r)
  <2>1. /\ runner[r].at = "commit" /\ Goto(r, "unlock")
        /\ create' = FALSE /\ UNCHANGED <<revision, artifacts>>
    BY <1>14 DEF CommitCleanup, At
  <2>2. /\ runner'[r].at = "unlock" /\ runner'[r].image = runner[r].image
    BY <1>1, <2>1 DEF Goto, Becomes, RunnerStates
  <2> QED
    BY <1>1, <1>3, <2>1, <2>2 DEF Sound, Phases
<1> QED
  BY <1>5, <1>6, <1>8, <1>9, <1>10, <1>11, <1>12, <1>13, <1>14 DEF Migrate, RunnerStep

(* The other subcommands leave the runners and the schema alone.           *)
LEMMA RunnersAlone ==
    ASSUME Migrating, UNCHANGED <<revision, artifacts, create, lock, runner>>
    PROVE  Migrating'
<1>1. LockMatchesPlace'
  BY DEF Migrating, LockMatchesPlace
<1>2. \A r \in Runners : Sound(r)'
  BY DEF Migrating, Sound
<1>3. SchemaAgrees'
  BY DEF Migrating, SchemaAgrees
<1> QED
  BY <1>1, <1>2, <1>3 DEF Migrating

LEMMA ProvisionLeavesRunners ==
    ASSUME NEW p \in Provisioners, Provision(p)
    PROVE  UNCHANGED <<revision, artifacts, create, lock, runner>>
  BY DEF Provision, StartProvision, ProvisionStep, ProvisionFails, PollTimesOut,
     JoinFails, StatementFails, CleanupFails, ProvisionerDies, LookRole, MakeRole,
     CheckMembership, JoinOwners, GrantMemberships, OwnDatabase, OwnSchema, Harden,
     Revoke, ConfirmRevoked, schema, catalog, counters

LEMMA RestLeavesRunners ==
    ASSUME Reconcile \/ Verify \/ UNCHANGED vars
    PROVE  /\ UNCHANGED <<revision, artifacts, create, lock, runner>>
           /\ UNCHANGED <<owners, prov, lapsed, roles>>
  BY DEF Reconcile, Verify, VerifyHead, VerifyRoles, VerifyMemberships, VerifyRest,
     Verdict, vars, schema, catalog, counters, tales

-----------------------------------------------------------------------------
(* The membership of postgres.                                             *)

(* What a step of `provision-database` does to its own membership.         *)
LEMMA MembershipSteps ==
    ASSUME TypeOK, NEW p \in Provisioners, Provision(p)
    PROVE  \/ lapsed' \/ "postgres" \notin owners' \/ Joined(p)'
           \/ /\ owners' \subseteq owners \cup {"db_bootstrap", "creator"}
              /\ lapsed' = lapsed /\ ~Joined(p)
<1> DEFINE Goal == \/ lapsed' \/ "postgres" \notin owners' \/ Joined(p)'
                   \/ /\ owners' \subseteq owners \cup {"db_bootstrap", "creator"}
                      /\ lapsed' = lapsed /\ ~Joined(p)
<1>1. prov \in [Provisioners -> ProvStates] /\ prov[p] \in ProvStates /\ lapsed \in BOOLEAN
  BY DEF TypeOK
<1>2. CASE ProvisionerDies(p)
  BY <1>1, <1>2 DEF ProvisionerDies, ProvAt, Joined, ProvStates, catalog
<1>3. CASE JoinOwners(p)
  <2>1. ProvBecomes(p, [prov[p] EXCEPT !.joined = TRUE, !.at = "grants"])
    BY <1>3 DEF JoinOwners
  <2>2. prov'[p].joined = TRUE /\ prov'[p].at = "grants"
    BY <1>1, <2>1 DEF ProvBecomes, ProvStates
  <2> QED
    BY <2>2 DEF Joined
<1>4. CASE \/ StartProvision(p) \/ LookRole(p) \/ MakeRole(p) \/ PollTimesOut(p)
           \/ CheckMembership(p) \/ ConfirmRevoked(p)
  <2>1. ~Joined(p)
    BY <1>4 DEF StartProvision, LookRole, MakeRole, PollTimesOut, CheckMembership,
       ConfirmRevoked, ProvAt, Joined
  <2>2. owners' \subseteq owners \cup {"db_bootstrap", "creator"} /\ lapsed' = lapsed
    BY <1>4 DEF StartProvision, LookRole, MakeRole, PollTimesOut, CheckMembership,
       ConfirmRevoked, Created, Creators, catalog, tales
  <2> QED
    BY <2>1, <2>2
<1>5. CASE JoinFails(p)
  BY <1>5 DEF JoinFails, ProvAt, Joined, tales
<1>6. ASSUME \/ ProvFails(p)
             \/ \E place \in {"database", "schema", "harden"} : ProvGoto(p, place)
      PROVE  Joined(p) => Joined(p)'
  <2> SUFFICES ASSUME Joined(p) PROVE Joined(p)'
    OBVIOUS
  <2>1. PICK place \in {"database", "schema", "harden", "revoke"} : ProvGoto(p, place)
    BY <1>6 DEF ProvFails, ProvEnds, Joined
  <2>2. prov'[p].joined = prov[p].joined /\ prov'[p].at = place
    BY <1>1, <2>1 DEF ProvGoto, ProvBecomes, ProvStates
  <2> QED
    BY <2>2 DEF Joined
<1>7. CASE \/ StatementFails(p) \/ GrantMemberships(p) \/ OwnDatabase(p) \/ OwnSchema(p)
           \/ Harden(p)
  <2>1. owners' \subseteq owners \cup {"db_bootstrap", "creator"} /\ lapsed' = lapsed
    BY <1>7 DEF StatementFails, GrantMemberships, OwnDatabase, OwnSchema, Harden,
       catalog, tales
  <2>2. Joined(p) => Joined(p)'
    BY <1>6, <1>7 DEF StatementFails, GrantMemberships, OwnDatabase, OwnSchema, Harden,
       ProvFails
  <2> QED
    BY <2>1, <2>2
<1>8. CASE Revoke(p) \/ CleanupFails(p)
  BY <1>1, <1>8 DEF Revoke, CleanupFails, ProvAt, Joined
<1> QED
  BY <1>2, <1>3, <1>4, <1>5, <1>7, <1>8 DEF Provision, ProvisionStep, ProvisionFails

LEMMA TransientKept ==
    ASSUME TypeOK, Transient, NEW p \in Provisioners, Provision(p)
    PROVE  Transient'
<1> SUFFICES ASSUME "postgres" \in owners', ~lapsed', ~Joined(p)'
             PROVE  \E q \in Provisioners : Joined(q)'
  BY DEF Transient
<1>1. "postgres" \in owners /\ ~lapsed /\ ~Joined(p)
  BY MembershipSteps
<1>2. PICK q \in Provisioners : Joined(q)
  BY <1>1 DEF Transient
<1>3. \E s : ProvBecomes(p, s)
  BY DEF Provision, StartProvision, ProvisionStep, ProvisionFails, PollTimesOut,
     JoinFails, StatementFails, CleanupFails, ProvisionerDies, LookRole, MakeRole,
     CheckMembership, JoinOwners, GrantMemberships, OwnDatabase, OwnSchema, Harden,
     Revoke, ConfirmRevoked, ProvGoto, ProvFails, ProvEnds, NextRole
<1>4. prov'[q] = prov[q]
  BY <1>1, <1>2, <1>3 DEF ProvBecomes, TypeOK
<1> QED
  BY <1>2, <1>4 DEF Joined

-----------------------------------------------------------------------------
(* What `verify` has read.                                                 *)

(* No subcommand takes a revision, a role or a membership back, and nobody *)
(* creates db_owner again.                                                 *)
LEMMA CatalogGrows ==
    ASSUME TypeOK, Migrating, [Next]_vars
    PROVE  /\ revision <= revision'
           /\ \A name \in LoginNames \cup {"db_owner"} :
                 roles[name] = "plain" => roles'[name] = "plain"
           /\ "db_bootstrap" \in owners => "db_bootstrap" \in owners'
           /\ roles["db_owner"] = "plain" /\ "creator" \notin owners => "creator" \notin owners'
           /\ claim = "plain" => claim' = "plain"
<1>1. CASE \E r \in Runners : Migrate(r)
  <2>1. PICK r \in Runners : Migrate(r)
    BY <1>1
  <2>2. UNCHANGED <<roles, owners, claim>>
    BY <2>1 DEF Migrate, Connect, RunnerStep, Acquire, CheckLock, ReadRevision,
     Phase1, Phase2, ApplySafe024Ddl, Check024, GrantCreate, Phase3, Cleanup, CommitCleanup, Unlock,
     UpgradeRaises, RunnerDies, GiveUp, schema, catalog
  <2>3. revision <= revision'
    <3>1. revision \in Nat /\ Sound(r)
      BY DEF TypeOK, Migrating
    <3>2. CASE Phase1(r) \/ Phase3(r)
      BY <3>1, <3>2 DEF Phase1, Phase3, At, Sound, Phases
    <3>3. CASE Phase2(r)
      BY <3>1, <3>3 DEF Phase2, ApplySafe024Ddl, BridgeAllowed, GiveUp, schema
    <3>4. CASE ~(Phase1(r) \/ Phase2(r) \/ Phase3(r))
      <4>1. revision' = revision
        BY <2>1, <3>4 DEF Migrate, Connect, RunnerStep, Acquire, CheckLock, ReadRevision,
     Phase1, Phase2, ApplySafe024Ddl, Check024, GrantCreate, Phase3, Cleanup, CommitCleanup, Unlock,
     UpgradeRaises, RunnerDies, GiveUp, schema
      <4> QED
        BY <3>1, <4>1
    <3> QED
      BY <3>2, <3>3, <3>4
  <2> QED
    BY <2>2, <2>3
<1>2. CASE \E p \in Provisioners : Provision(p)
  <2>1. PICK p \in Provisioners : Provision(p)
    BY <1>2
  <2>2. revision <= revision'
    BY <2>1, ProvisionLeavesRunners DEF TypeOK
  <2>3. \A name \in LoginNames \cup {"db_owner"} :
           roles[name] = "plain" => roles'[name] = "plain"
    <3>1. CASE MakeRole(p) \/ PollTimesOut(p)
      BY <3>1, LoginRolesAreRoles, OwnerIsRole DEF MakeRole, PollTimesOut, Created, TypeOK
    <3>2. CASE Harden(p)
      BY <3>2, LoginRolesAreRoles, OwnerIsRole DEF Harden, TypeOK
    <3>3. CASE UNCHANGED roles
      BY <3>3
    <3> QED
      BY <2>1, <3>1, <3>2, <3>3 DEF Provision, StartProvision, ProvisionStep, ProvisionFails, PollTimesOut,
     JoinFails, StatementFails, CleanupFails, ProvisionerDies, LookRole, MakeRole,
     CheckMembership, JoinOwners, GrantMemberships, OwnDatabase, OwnSchema, Harden,
     Revoke, ConfirmRevoked, catalog
  <2>4. /\ "db_bootstrap" \in owners => "db_bootstrap" \in owners'
        /\ roles["db_owner"] = "plain" /\ "creator" \notin owners => "creator" \notin owners'
    <3>1. CASE MakeRole(p) \/ PollTimesOut(p)
      BY <3>1 DEF MakeRole, PollTimesOut, Created, Creators
    <3>2. CASE ~(MakeRole(p) \/ PollTimesOut(p))
      BY <2>1, <3>2 DEF Provision, StartProvision, ProvisionStep, ProvisionFails, PollTimesOut,
     JoinFails, StatementFails, CleanupFails, ProvisionerDies, LookRole, MakeRole,
     CheckMembership, JoinOwners, GrantMemberships, OwnDatabase, OwnSchema, Harden,
     Revoke, ConfirmRevoked, catalog
    <3> QED
      BY <3>1, <3>2
  <2>5. claim = "plain" => claim' = "plain"
    BY <2>1 DEF Provision, StartProvision, ProvisionStep, ProvisionFails, PollTimesOut,
     JoinFails, StatementFails, CleanupFails, ProvisionerDies, LookRole, MakeRole,
     CheckMembership, JoinOwners, GrantMemberships, OwnDatabase, OwnSchema, Harden,
     Revoke, ConfirmRevoked, catalog
  <2> QED
    BY <2>2, <2>3, <2>4, <2>5
<1>3. CASE Reconcile
  BY <1>3 DEF Reconcile, schema, TypeOK
<1>4. CASE Verify \/ UNCHANGED vars
  BY <1>4 DEF Verify, VerifyHead, VerifyRoles, VerifyMemberships, VerifyRest,
     Verdict, schema, catalog, vars, TypeOK
<1> QED
  BY <1>1, <1>2, <1>3, <1>4, NextSplits

LEMMA AllTyped ==
    ASSUME TypeOK, [Next]_vars
    PROVE  TypeOK'
  BY MigrateTyped, ProvisionTyped, RestTyped, NextSplits

(* While `verify` stands between two gates, an upgrade and a new membership *)
(* are remembered.                                                          *)
LEMMA EventsTold ==
    ASSUME TypeOK, [Next]_vars, ~Verify
    PROVE  /\ verifier'.at = verifier.at /\ verifier'.image = verifier.image
           /\ verifier.since \subseteq verifier'.since
           /\ \/ revision' = revision
              \/ verifier.at = "none" \/ "upgraded" \in verifier'.since
           /\ \/ "postgres" \notin owners' \/ "postgres" \in owners
              \/ verifier.at \notin PastMemberships \/ "joined" \in verifier'.since
<1>1. verifier \in VerifierStates
  BY DEF TypeOK
<1>2. ASSUME NEW event, NEW places, Meanwhile(event, places)
      PROVE  /\ verifier'.at = verifier.at /\ verifier'.image = verifier.image
             /\ verifier.since \subseteq verifier'.since
             /\ verifier.at \in places => event \in verifier'.since
  BY <1>1, <1>2 DEF Meanwhile, VerifierStates
<1>3. CASE \E r \in Runners : Migrate(r)
  <2>1. PICK r \in Runners : Migrate(r)
    BY <1>3
  <2>2. UNCHANGED owners
    BY <2>1 DEF Migrate, Connect, RunnerStep, Acquire, CheckLock, ReadRevision,
     Phase1, Phase2, ApplySafe024Ddl, Check024, GrantCreate, Phase3, Cleanup, CommitCleanup, Unlock,
     UpgradeRaises, RunnerDies, GiveUp, schema, catalog
  <2>3. Upgraded \/ UNCHANGED <<verifier, revision>>
    BY <2>1, Zenon DEF Migrate, Connect, RunnerStep, Acquire, CheckLock, ReadRevision,
     Phase1, Phase2, ApplySafe024Ddl, Check024, GrantCreate, Phase3, Cleanup, CommitCleanup, Unlock,
     UpgradeRaises, RunnerDies, GiveUp, schema, tales
  <2>4. verifier.at \in VerifierPlaces
    BY <1>1 DEF VerifierStates
  <2> QED
    BY <1>2, <2>2, <2>3, <2>4 DEF Upgraded
<1>4. CASE \E p \in Provisioners : Provision(p)
  <2>1. PICK p \in Provisioners : Provision(p)
    BY <1>4
  <2>2. UNCHANGED revision
    BY <2>1, ProvisionLeavesRunners
  <2>3. \/ JoinedMeanwhile
        \/ UNCHANGED verifier /\ ("postgres" \in owners' => "postgres" \in owners)
    <3>1. CASE MakeRole(p) \/ PollTimesOut(p)
      BY <3>1 DEF MakeRole, PollTimesOut, Created, Creators, tales
    <3>2. CASE ~(MakeRole(p) \/ PollTimesOut(p))
      BY <2>1, <3>2 DEF Provision, StartProvision, ProvisionStep, ProvisionFails, PollTimesOut,
     JoinFails, StatementFails, CleanupFails, ProvisionerDies, LookRole, MakeRole,
     CheckMembership, JoinOwners, GrantMemberships, OwnDatabase, OwnSchema, Harden,
     Revoke, ConfirmRevoked, catalog, tales
    <3> QED
      BY <3>1, <3>2
  <2> QED
    BY <1>2, <2>2, <2>3 DEF JoinedMeanwhile, PastMemberships
<1>5. CASE Reconcile \/ UNCHANGED vars
  BY <1>5 DEF Reconcile, vars, schema, catalog, tales
<1> QED
  BY <1>3, <1>4, <1>5, NextSplits

LEMMA GatesKept ==
    ASSUME TypeOK, Migrating, GatesHold, [Next]_vars
    PROVE  GatesHold'
<1>1. CASE ~Verify
  <2>1. /\ revision \in Nat /\ revision' \in Nat /\ revision <= revision'
    BY CatalogGrows, AllTyped DEF TypeOK
  <2>2. verifier.at # "none" => verifier.image \in Images /\ verifier.image \in Nat
    BY ConstantFacts DEF GatesHold
  <2>3. verifier.at # "none" =>
           /\ verifier'.image \in Images /\ revision' >= verifier'.image
           /\ "upgraded" \notin verifier'.since => revision' = verifier'.image
    BY <1>1, <2>1, <2>2, EventsTold DEF GatesHold
  <2>4. verifier.at \in PastRoles =>
           \A name \in LoginNames \cup {"db_owner"} : roles'[name] = "plain"
    BY CatalogGrows DEF GatesHold
  <2>5. verifier.at \in PastMemberships =>
           /\ "db_bootstrap" \in owners' /\ "creator" \notin owners'
           /\ "joined" \notin verifier'.since => "postgres" \notin owners'
    BY <1>1, CatalogGrows, EventsTold DEF GatesHold, PastMemberships, PastRoles
  <2>6. verifier.at = "passed" => claim' = "plain"
    BY CatalogGrows DEF GatesHold
  <2>7. verifier'.at = verifier.at
    BY <1>1, EventsTold
  <2> QED
    BY <2>3, <2>4, <2>5, <2>6, <2>7 DEF GatesHold
<1>2. CASE Verify
  <2>1. UNCHANGED <<revision, roles, owners, claim>>
    BY <1>2 DEF Verify, VerifyHead, VerifyRoles, VerifyMemberships, VerifyRest,
     Verdict, schema, catalog
  <2>2. CASE \E h \in Images : VerifyHead(h)
    <3>1. PICK h \in Images : VerifyHead(h)
      BY <2>2
    <3>2. /\ h \in Nat
          /\ \/ verifier' = NoVerdict
             \/ verifier' = [at |-> "roles", image |-> h, since |-> {}] /\ revision = h
      BY <3>1, ConstantFacts DEF VerifyHead
    <3> QED
      BY <2>1, <3>2 DEF GatesHold, NoVerdict, PastRoles, PastMemberships
  <2>3. CASE VerifyRoles \/ VerifyMemberships \/ VerifyRest
    <3>1. \/ verifier' = NoVerdict
          \/ /\ verifier' = [verifier EXCEPT !.at = "memberships"] /\ verifier.at = "roles"
             /\ \A name \in LoginNames \cup {"db_owner"} : roles[name] = "plain"
          \/ /\ verifier' = [verifier EXCEPT !.at = "rest"] /\ verifier.at = "memberships"
             /\ "db_bootstrap" \in owners /\ owners \cap {"postgres", "creator"} = {}
          \/ /\ verifier' = [verifier EXCEPT !.at = "passed"]
             /\ verifier.at = "rest" /\ claim = "plain"
      BY <2>3 DEF VerifyRoles, VerifyMemberships, VerifyRest, Verdict, PostgresIsMember
    <3>2. ASSUME NEW place, verifier' = [verifier EXCEPT !.at = place]
          PROVE  /\ verifier'.at = place /\ verifier'.image = verifier.image
                 /\ verifier'.since = verifier.since
      BY <3>2 DEF TypeOK, VerifierStates
    <3>3. CASE verifier' = NoVerdict
      BY <3>3 DEF GatesHold, NoVerdict, PastRoles, PastMemberships
    <3>4. CASE verifier' # NoVerdict
      BY <2>1, <3>1, <3>2, <3>4 DEF GatesHold, PastRoles, PastMemberships
    <3> QED
      BY <3>3, <3>4
  <2> QED
    BY <1>2, <2>2, <2>3 DEF Verify
<1> QED
  BY <1>1, <1>2

-----------------------------------------------------------------------------
(* Theorems.                                                               *)

LEMMA InitInvariant == Init => IInv
<1> SUFFICES ASSUME Init PROVE IInv
  OBVIOUS
<1>1. \A r \in Runners : runner[r] = IdleRunner
  BY DEF Init
<1>2. LockMatchesPlace /\ (\A r \in Runners : Sound(r))
  BY <1>1, ConstantFacts DEF Init, LockMatchesPlace, Sound, IdleRunner, Critical, Phases, Places
<1>3. SchemaAgrees
  BY DEF Init, SchemaAgrees
<1>4. Transient
  BY DEF Init, Transient, Creators
<1>5. GatesHold
  BY DEF Init, GatesHold, NoVerdict, PastRoles, PastMemberships
<1> QED
  BY <1>2, <1>3, <1>4, <1>5, InitTyped DEF IInv, Migrating

LEMMA StepInvariant == IInv /\ [Next]_vars => IInv'
<1> SUFFICES ASSUME IInv, [Next]_vars PROVE IInv'
  OBVIOUS
<1>1. TypeOK /\ Migrating /\ Transient /\ GatesHold
  BY DEF IInv
<1>2. GatesHold'
  BY <1>1, GatesKept
<1>3. CASE \E r \in Runners : Migrate(r)
  <2>1. PICK r \in Runners : Migrate(r)
    BY <1>3
  <2>2. UNCHANGED <<owners, prov, lapsed>>
    BY <2>1 DEF Migrate, Connect, RunnerStep, Acquire, CheckLock, ReadRevision,
     Phase1, Phase2, ApplySafe024Ddl, Check024, GrantCreate, Phase3, Cleanup, CommitCleanup, Unlock,
     UpgradeRaises, RunnerDies, GiveUp, schema, catalog, tales
  <2>3. Transient'
    BY <1>1, <2>2 DEF Transient, Joined
  <2> QED
    BY <1>1, <1>2, <2>1, <2>3, MigrateTyped, MigratingKept DEF IInv
<1>4. CASE \E p \in Provisioners : Provision(p)
  BY <1>1, <1>2, <1>4, ProvisionTyped, ProvisionLeavesRunners, RunnersAlone,
     TransientKept DEF IInv
<1>5. CASE Reconcile \/ Verify \/ UNCHANGED vars
  <2>1. Transient'
    BY <1>1, <1>5, RestLeavesRunners DEF Transient, Joined
  <2> QED
    BY <1>1, <1>2, <1>5, <2>1, RestTyped, RestLeavesRunners, RunnersAlone DEF IInv
<1> QED
  BY <1>3, <1>4, <1>5, NextSplits

THEOREM Invariance == Spec => []IInv
  BY InitInvariant, StepInvariant, PTL DEF Spec

(* The columns keep their types, and no execution is at an unknown place.  *)
THEOREM MigrationsTyped == Spec => []TypeOK
  BY Invariance, PTL DEF IInv

(* The revision a runner has read stays the database's revision until its  *)
(* phases are over: run_alembic_migrations decides by it under the lock.   *)
THEOREM RunnersReadTruth == Spec => []CachedRevisionTrue
<1>1. IInv => CachedRevisionTrue
  BY DEF IInv, Migrating, Sound, CachedRevisionTrue, Phases
<1> QED
  BY Invariance, <1>1, PTL

(* A runner past its cleanup leaves no CREATE privilege behind, whatever   *)
(* earlier runs left (the privilege cleanup of run_alembic_migrations).    *)
THEOREM CleanupIsComplete == Spec => []UpgradeLeavesNoCreate
<1>1. IInv => UpgradeLeavesNoCreate
  BY DEF IInv, Migrating, Sound, UpgradeLeavesNoCreate, At
<1> QED
  BY Invariance, <1>1, PTL

(* A membership of postgres in db_owner has an execution that will revoke  *)
(* it, or was left by one that died, whose REVOKE was refused or whose     *)
(* GRANT was reported as failed (provision_application_database).          *)
THEOREM MembershipEnds == Spec => []MembershipIsTransient
<1>1. IInv => MembershipIsTransient
  BY DEF IInv, Transient, Joined, MembershipIsTransient, ProvAt
<1> QED
  BY Invariance, <1>1, PTL

(* What the gates of `verify` have read stays true, but the version after  *)
(* an upgrade and the absence of postgres after a new provisioning         *)
(* (run_security_verification).                                            *)
THEOREM VerificationLasts == Spec => []VerifiedStaysTrue
<1>1. IInv => VerifiedStaysTrue
  <2> SUFFICES ASSUME IInv, verifier.at = "passed" PROVE VerifiedStaysTrue
    BY DEF VerifiedStaysTrue
  <2>1. /\ revision >= verifier.image /\ verifier.image \in Images /\ revision \in Nat
        /\ "upgraded" \notin verifier.since => revision = verifier.image
        /\ \A name \in LoginNames \cup {"db_owner"} : roles[name] = "plain"
        /\ "db_bootstrap" \in owners /\ "creator" \notin owners /\ claim = "plain"
        /\ "joined" \notin verifier.since => "postgres" \notin owners
    BY DEF IInv, GatesHold, TypeOK, PastRoles, PastMemberships
  <2>2. verifier.image > 26 /\ verifier.image \in Nat
    BY <2>1, HeadsPassPhases, ConstantFacts
  <2>3. artifacts
    BY <2>1, <2>2 DEF IInv, Migrating, SchemaAgrees
  <2> QED
    BY <2>1, <2>3 DEF VerifiedStaysTrue
<1> QED
  BY Invariance, <1>1, PTL

=============================================================================
