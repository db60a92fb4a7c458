------------------------------ MODULE Migrations ------------------------------
(***************************************************************************)
(* pkg/entityworkflows/storage/sqlite: NewSQLiteStorageAdapter and the     *)
(* migrations it runs.  Several adapters, also of several processes, open  *)
(* one database at the same time; every SQL statement is a transaction of  *)
(* its own, and nothing ties those of one opening together.  A process     *)
(* may die between any two of them.                                        *)
(***************************************************************************)
EXTENDS Naturals

CONSTANTS
  Adapter,      \* calls of NewSQLiteStorageAdapter
  TablePrefix,  \* Adapter -> prefixes: config.TablePrefix
  MaxFaults     \* bound: statements that fail at an opening, and crashes

ASSUME MigrationsAssumption == MaxFaults \in Nat

VARIABLES
  recorded,  \* the versions in schema_migrations
  tables,    \* prefixes whose records table exists
  indexes,   \* prefixes whose indexes exist
  phase,     \* where each opening is, or what became of the adapter: "reclosed" is
             \* closed by being registered again
  pending,   \* the migrations RunMigrations has not come past yet
  faults     \* faults so far

schema == <<recorded, tables, indexes>>
opening == <<phase, pending>>

Version == {1, 2}  \* 1 creates the table, 2 its indexes
Prefix == {TablePrefix[a] : a \in Adapter}

\* A new database, or one that an adapter has opened and used before.
InitMigrations ==
  /\ \/ recorded = {} /\ tables = {}
     \/ recorded = Version /\ \E x \in Prefix : tables = {x}
  /\ indexes = tables
  /\ phase = [a \in Adapter |-> "unopened"]
  /\ pending = [a \in Adapter |-> {}]
  /\ faults = 0

-------------------------------------------------------------------------------
\* Slip: one recorded version is taken for all of them.
ConnectOnceRecorded(a) ==
  /\ phase[a] = "unopened"
  /\ phase' = [phase EXCEPT ![a] = "migrating"]
  /\ pending' = [pending EXCEPT ![a] = IF recorded = {} THEN Version ELSE {}]
  /\ UNCHANGED <<schema, faults>>

\* The database is opened, schema_migrations created if it is not there, and
\* read: what others record from here on is not seen.
Connect(a) ==
  /\ phase[a] = "unopened"
  /\ phase' = [phase EXCEPT ![a] = "migrating"]
  /\ pending' = [pending EXCEPT ![a] = Version \ recorded]
  /\ UNCHANGED <<schema, faults>>

\* The version the loop is at.
NextVersion(a) == IF 1 \in pending[a] THEN 1 ELSE 2

\* Slip: CREATE TABLE without IF NOT EXISTS.
ApplicableOnce(a) ==
  IF NextVersion(a) = 1 THEN TablePrefix[a] \notin tables
  ELSE TablePrefix[a] \in tables

\* What either migration executes may be repeated; an index needs its table.
Applicable(a) == NextVersion(a) = 2 => TablePrefix[a] \in tables

ApplyMigration(a) ==
  /\ phase[a] = "migrating"
  /\ pending[a] # {}
  /\ Applicable(a)
  /\ phase' = [phase EXCEPT ![a] = "recording"]
  /\ IF NextVersion(a) = 1
     THEN tables' = tables \cup {TablePrefix[a]} /\ UNCHANGED indexes
     ELSE indexes' = indexes \cup {TablePrefix[a]} /\ UNCHANGED tables
  /\ UNCHANGED <<recorded, pending, faults>>

\* The version is the primary key of schema_migrations.
RecordMigration(a) ==
  /\ phase[a] = "recording"
  /\ NextVersion(a) \notin recorded
  /\ recorded' = recorded \cup {NextVersion(a)}
  /\ pending' = [pending EXCEPT ![a] = @ \ {NextVersion(a)}]
  /\ phase' = [phase EXCEPT ![a] = "migrating"]
  /\ UNCHANGED <<tables, indexes, faults>>

\* The insert statement cannot be prepared without its table.
PrepareStatements(a) ==
  /\ phase[a] = "migrating"
  /\ pending[a] = {}
  /\ TablePrefix[a] \in tables
  /\ phase' = [phase EXCEPT ![a] = "open"]
  /\ UNCHANGED <<schema, pending, faults>>

\* A statement of the opening that the database refuses, whoever repeats it:
\* a record another opening made first, indexes or statements without a table.
Refused(a) ==
  \/ phase[a] = "recording" /\ NextVersion(a) \in recorded
  \/ phase[a] = "migrating" /\ pending[a] # {} /\ ~Applicable(a)
  \/ phase[a] = "migrating" /\ pending[a] = {} /\ TablePrefix[a] \notin tables

\* Every error closes the connection and is returned; the caller may start over.
GiveUp(a) ==
  /\ phase' = [phase EXCEPT ![a] = "unopened"]
  /\ pending' = [pending EXCEPT ![a] = {}]
  /\ UNCHANGED schema

OpenRefused(a) == Refused(a) /\ GiveUp(a) /\ UNCHANGED faults

\* The database is locked by another writer; no statement of an opening is retried.
OpenFails(a) ==
  /\ phase[a] \in {"migrating", "recording"}
  /\ faults < MaxFaults
  /\ faults' = faults + 1
  /\ GiveUp(a)

OpenStep(a) ==
  \/ Connect(a)
  \/ ApplyMigration(a)
  \/ RecordMigration(a)
  \/ PrepareStatements(a)
  \/ OpenRefused(a)
===============================================================================
