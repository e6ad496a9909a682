---------------------------- MODULE MCMigrations ----------------------------
(* Three executions, of `migrate`, `provision-database` or `verify`, of    *)
(* two images, on a fresh database, one before the bridge and one at the   *)
(* first image, which the second image takes to a head the first does not  *)
(* know; PostgreSQL 14 and 16.                                             *)
EXTENDS Migrations

MCImages == {30, 36}
MCStops == {23, 30}
MCServers == {14, 16}
MCOwnerRoles == <<"db_owner">>
MCLoginRoles == <<"db_bootstrap", "db_maintenance_worker">>
=============================================================================
