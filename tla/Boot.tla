-------------------------------- MODULE Boot --------------------------------
(* How a gateway starts (cmd/api-gateway/main.go): it runs the migrations      *)
(* (internal/migrate/run.go), then Repository.Init (registry/sqlrepo.go), and  *)
(* serves. Every statement is a step, committed on its own; several gateways   *)
(* may start on one database, a statement may fail, which ends the process,    *)
(* and a process may die anywhere. Of the database is kept which of the        *)
(* gateway's objects exist.                                                    *)
EXTENDS Naturals

CONSTANTS
  Starters,  \* the gateway processes
  MaxFaults  \* bound: failing statements and dying processes in a run

ASSUME BootAssumption == MaxFaults \in Nat

VARIABLES
  db,      \* the database
  pc,      \* the statement each process is about to execute
  todo,    \* the migrations it found missing and has not run yet
  faults   \* how often something went wrong

vars == <<db, pc, todo, faults>>

(* The keys of migrations, and the first one of some of them in their order.   *)
Versions == {"000_schema.sql", "001_gateway_services.sql"}

First(some) ==
  IF "000_schema.sql" \in some THEN "000_schema.sql" ELSE "001_gateway_services.sql"

(* gateway_services as the migration creates it, and the columns Init adds.    *)
MigratedColumns == {"base"}

AllColumns == MigratedColumns \cup {"protocol", "grpc_target"}

(* schema and log are the schema and its table schema_migrations, recorded the *)
(* rows of the latter, columns those of gateway_services, none when there is   *)
(* no such table, and routes says whether gateway_routes exists.               *)
Database ==
  [schema : BOOLEAN, log : BOOLEAN, recorded : SUBSET Versions,
   columns : SUBSET AllColumns, routes : BOOLEAN]

NewDatabase ==
  [schema |-> FALSE, log |-> FALSE, recorded |-> {}, columns |-> {}, routes |-> FALSE]

(* The database of a gateway from before protocols and routes.                 *)
OldDatabase ==
  [schema |-> TRUE, log |-> TRUE, recorded |-> Versions,
   columns |-> MigratedColumns, routes |-> FALSE]

Init ==
  /\ db \in {NewDatabase, OldDatabase}
  /\ pc = [p \in Starters |-> "down"]
  /\ todo = [p \in Starters |-> {}]
  /\ faults = 0

-----------------------------------------------------------------------------

Goto(p, label) == pc' = [pc EXCEPT ![p] = label]

Fault == faults < MaxFaults /\ faults' = faults + 1

(* log.Fatalf, or the end of the process.                                      *)
Exit(p) == Goto(p, "down") /\ todo' = [todo EXCEPT ![p] = {}]

(* A statement turns the database into after, and the process goes on to label *)
(* with rest still to do. It fails if it is not possible, and it may fail by a *)
(* fault of the connection, before or after the commit; either ends the        *)
(* process.                                                                    *)
Exec(p, possible, after, label, rest) ==
  \/ /\ possible
     /\ db' = after
     /\ Goto(p, label)
     /\ todo' = [todo EXCEPT ![p] = rest]
     /\ UNCHANGED faults
  \/ ~possible /\ Exit(p) /\ UNCHANGED <<db, faults>>
  \/ Fault /\ Exit(p) /\ (db' = db \/ (possible /\ db' = after))

Start(p) ==
  /\ pc[p] = "down"
  /\ Goto(p, "schema")
  /\ UNCHANGED <<db, todo, faults>>

(* migrate.Run: the schema and the table of applied versions.                  *)
EnsureSchema(p) ==
  /\ pc[p] = "schema"
  /\ Exec(p, TRUE, [db EXCEPT !.schema = TRUE], "log", {})

EnsureLog(p) ==
  /\ pc[p] = "log"
  /\ Exec(p, db.schema, [db EXCEPT !.log = TRUE], "read", {})

(* What follows when rest is still to be migrated.                             *)
NextLabel(rest) == IF rest = {} THEN "init_schema" ELSE "apply"

(* The SELECT of the applied versions. Rows.Err is not looked at, so that a    *)
(* connection lost between two rows leaves a part of them.                     *)
ReadApplied(p) ==
  /\ pc[p] = "read"
  /\ \/ LET rest == Versions \ db.recorded
        IN  Exec(p, db.log, db, NextLabel(rest), rest)
     \/ \E part \in SUBSET db.recorded :
          LET rest == Versions \ part
          IN  /\ Fault
              /\ Goto(p, NextLabel(rest))
              /\ todo' = [todo EXCEPT ![p] = rest]
              /\ UNCHANGED db

(* Mutation of CanApply: CREATE TABLE without IF NOT EXISTS.                   *)
CanApplyOnce(v) ==
  v = "001_gateway_services.sql" => db.schema /\ db.columns = {}

(* A migration creates what does not exist yet, and leaves the rest alone.     *)
CanApply(v) == v = "001_gateway_services.sql" => db.schema

Applied(v) ==
  CASE v = "000_schema.sql" -> [db EXCEPT !.schema = TRUE, !.log = TRUE]
    [] v = "001_gateway_services.sql" ->
         IF db.columns = {} THEN [db EXCEPT !.columns = MigratedColumns] ELSE db

(* Mutation of Apply: the error of the statement is dropped.                   *)
ApplyUnchecked(p) ==
  /\ pc[p] = "apply"
  /\ \/ Exec(p, CanApply(First(todo[p])), Applied(First(todo[p])), "record", todo[p])
     \/ Fault /\ Goto(p, "record") /\ UNCHANGED <<db, todo>>

Apply(p) ==
  /\ pc[p] = "apply"
  /\ Exec(p, CanApply(First(todo[p])), Applied(First(todo[p])), "record", todo[p])

(* The version is recorded by a statement of its own; it is the primary key.   *)
Record(p) ==
  /\ pc[p] = "record"
  /\ Exec(p, db.log /\ First(todo[p]) \notin db.recorded,
          [db EXCEPT !.recorded = @ \cup {First(todo[p])}],
          NextLabel(todo[p] \ {First(todo[p])}), todo[p] \ {First(todo[p])})

-----------------------------------------------------------------------------
(* SQLRepository.Init.                                                         *)

InitSchema(p) ==
  /\ pc[p] = "init_schema"
  /\ Exec(p, TRUE, [db EXCEPT !.schema = TRUE], "init_table", {})

InitTable(p) ==
  /\ pc[p] = "init_table"
  /\ Exec(p, db.schema,
          [db EXCEPT !.columns = IF @ = {} THEN AllColumns ELSE @], "protocol", {})

(* Mutation of AddColumn: the columns are left to CREATE TABLE.                *)
AddNoColumn(p, column, label) ==
  /\ pc[p] = column
  /\ Exec(p, db.columns # {}, db, label, {})

(* "Ensure new columns exist on older tables": the two ALTER TABLE.            *)
AddColumn(p, column, label) ==
  /\ pc[p] = column
  /\ Exec(p, db.columns # {}, [db EXCEPT !.columns = @ \cup {column}], label, {})

InitRoutes(p) ==
  /\ pc[p] = "init_routes"
  /\ Exec(p, db.columns # {}, [db EXCEPT !.routes = TRUE], "load", {})

(* NewServer loads the registry, and serves even when that fails.              *)
Serve(p) ==
  /\ pc[p] = "load"
  /\ Goto(p, "serving")
  /\ UNCHANGED <<db, todo, faults>>

(* A process dies, starting or serving.                                        *)
Crash(p) ==
  /\ pc[p] # "down"
  /\ Fault
  /\ Exit(p)
  /\ UNCHANGED db

Proceed(p) ==
  \/ EnsureSchema(p) \/ EnsureLog(p) \/ ReadApplied(p) \/ Apply(p) \/ Record(p)
  \/ InitSchema(p) \/ InitTable(p)
  \/ AddColumn(p, "protocol", "grpc_target") \/ AddColumn(p, "grpc_target", "init_routes")
  \/ InitRoutes(p) \/ Serve(p)

Next == \E p \in Starters : Start(p) \/ Proceed(p) \/ Crash(p)

Spec == Init /\ [][Next]_vars

(* A process that was started goes on; nobody has to start it again.           *)
FairSpec == Spec /\ \A p \in Starters : WF_vars(Proceed(p))

-----------------------------------------------------------------------------

Labels ==
  {"down", "schema", "log", "read", "apply", "record", "init_schema", "init_table",
   "protocol", "grpc_target", "init_routes", "load", "serving"}

(* Types, and a process knows of missing migrations just while it runs them.   *)
TypeOK ==
  /\ db \in Database
  /\ pc \in [Starters -> Labels]
  /\ todo \in [Starters -> SUBSET Versions]
  /\ \A p \in Starters : pc[p] \in {"apply", "record"} <=> todo[p] # {}
  /\ faults \in 0..MaxFaults

(* A gateway serves on tables that have every column and table its statements  *)
(* name, however old the database was, whoever else was starting or died       *)
(* halfway (migrate.Run, SQLRepository.Init).                                  *)
ServingComplete ==
  (\E p \in Starters : pc[p] = "serving") => db.columns = AllColumns /\ db.routes

(* A recorded migration was applied, although the two are separate statements  *)
(* and a gateway may die between them or race another (migrate.Run).           *)
RecordedIsApplied ==
  /\ db.recorded # {} => db.schema /\ db.log
  /\ "001_gateway_services.sql" \in db.recorded => db.columns # {}

(* Whatever a gateway died of, and wherever: one that is started again and     *)
(* again serves at last. No leftover of an earlier start, and no statement of  *)
(* another one, is in its way for good.                                        *)
StartsAtLast ==
  \A p \in Starters : []<>(pc[p] # "down") => <>(pc[p] = "serving")

=============================================================================
