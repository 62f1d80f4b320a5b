----------------------------- MODULE BootProofs -----------------------------
(* Boot for any number of gateways starting, failing and dying.                *)
EXTENDS Boot, TLAPS

(* What the statements before a label have created.                            *)
AfterSchema == Labels \ {"down", "schema"}

AfterTable == {"protocol", "grpc_target", "init_routes", "load", "serving"}

Reached(label) ==
  /\ label \in AfterSchema => db.schema
  /\ label \in AfterSchema \ {"log"} => db.log
  /\ label \in AfterTable => db.columns # {}
  /\ label \in AfterTable \ {"protocol"} => "protocol" \in db.columns
  /\ label \in {"init_routes", "load", "serving"} => "grpc_target" \in db.columns
  /\ label \in {"load", "serving"} => db.routes

(* A process that is about to record a migration has seen it applied.          *)
Recordable(p) ==
  pc[p] = "record" /\ First(todo[p]) = "001_gateway_services.sql" => db.columns # {}

BootInv ==
  /\ TypeOK
  /\ RecordedIsApplied
  /\ db.columns # {} => MigratedColumns \subseteq db.columns
  /\ \A p \in Starters : Reached(pc[p]) /\ Recordable(p)

(* No statement removes anything.                                              *)
Grows(after) ==
  /\ after \in Database
  /\ db.schema => after.schema
  /\ db.log => after.log
  /\ db.recorded \subseteq after.recorded
  /\ db.columns \subseteq after.columns
  /\ db.routes => after.routes

(* What a statement has to do so that its process may go on to label.          *)
Prepares(after, label, rest) ==
  /\ label \in AfterSchema => after.schema
  /\ label \in AfterSchema \ {"log"} => after.log
  /\ label \in AfterTable => after.columns # {}
  /\ label \in AfterTable \ {"protocol"} => "protocol" \in after.columns
  /\ label \in {"init_routes", "load", "serving"} => "grpc_target" \in after.columns
  /\ label \in {"load", "serving"} => after.routes
  /\ label = "record" /\ First(rest) = "001_gateway_services.sql" => after.columns # {}

(* The tables stay what they have to be.                                       *)
Sound(d) ==
  /\ d.recorded # {} => d.schema /\ d.log
  /\ "001_gateway_services.sql" \in d.recorded => d.columns # {}
  /\ d.columns # {} => MigratedColumns \subseteq d.columns

(* A step of one process that makes the database grow and prepares its label   *)
(* keeps the invariant.                                                        *)
LEMMA StepInv ==
  ASSUME BootInv, NEW p \in Starters, NEW label \in Labels, NEW rest \in SUBSET Versions,
         Grows(db'), Sound(db'), Prepares(db', label, rest),
         label \in {"apply", "record"} <=> rest # {},
         Goto(p, label), todo' = [todo EXCEPT ![p] = rest],
         faults' \in 0..MaxFaults
  PROVE  BootInv'
<1>1. TypeOK'
  BY DEF BootInv, TypeOK, Goto, Grows
<1>2. RecordedIsApplied' /\ (db'.columns # {} => MigratedColumns \subseteq db'.columns)
  BY DEF Sound, RecordedIsApplied
<1>3. ASSUME NEW q \in Starters
      PROVE  (Reached(pc[q]) /\ Recordable(q))'
  <2>1. CASE q = p
    BY <2>1 DEF Goto, Prepares, Reached, Recordable, BootInv, TypeOK
  <2>2. CASE q # p
    <3>1. pc'[q] = pc[q] /\ todo'[q] = todo[q] /\ Reached(pc[q]) /\ Recordable(q)
      BY <2>2 DEF Goto, BootInv, TypeOK
    <3> QED BY <3>1 DEF Grows, Reached, Recordable
  <2> QED BY <2>1, <2>2
<1> QED BY <1>1, <1>2, <1>3 DEF BootInv

(* One that ends the process does, too,                                        *)
LEMMA ExitInv ==
  ASSUME BootInv, NEW p \in Starters, Grows(db'), Sound(db'), Exit(p),
         faults' \in 0..MaxFaults
  PROVE  BootInv'
<1>1. Prepares(db', "down", {}) /\ "down" \in Labels
  BY DEF Prepares, AfterSchema, AfterTable, Labels
<1>2. {} \in SUBSET Versions /\ ("down" \in {"apply", "record"} <=> {} # {})
  OBVIOUS
<1>3. Goto(p, "down") /\ todo' = [todo EXCEPT ![p] = {}]
  BY DEF Exit
<1> QED BY <1>1, <1>2, <1>3, StepInv

(* and so does a statement that prepares what follows it.                      *)
LEMMA ExecInv ==
  ASSUME BootInv, NEW p \in Starters, NEW possible \in BOOLEAN, NEW after,
         NEW label \in Labels, NEW rest \in SUBSET Versions,
         possible => Grows(after) /\ Sound(after) /\ Prepares(after, label, rest),
         label \in {"apply", "record"} <=> rest # {},
         Exec(p, possible, after, label, rest)
  PROVE  BootInv'
<1>1. Grows(db) /\ Sound(db) /\ faults \in 0..MaxFaults
  BY DEF BootInv, TypeOK, Grows, Sound, RecordedIsApplied
<1>2. CASE /\ possible /\ db' = after /\ Goto(p, label)
           /\ todo' = [todo EXCEPT ![p] = rest] /\ UNCHANGED faults
  <2>1. Grows(db') /\ Sound(db') /\ Prepares(db', label, rest)
    BY <1>2
  <2> QED BY <1>1, <1>2, <2>1, StepInv
<1>3. CASE ~possible /\ Exit(p) /\ UNCHANGED <<db, faults>>
  <2>1. Grows(db') /\ Sound(db')
    BY <1>1, <1>3
  <2> QED BY <1>1, <1>3, <2>1, ExitInv
<1>4. CASE Fault /\ Exit(p) /\ (db' = db \/ (possible /\ db' = after))
  <2>1. Grows(db') /\ Sound(db')
    BY <1>1, <1>4
  <2>2. faults' \in 0..MaxFaults
    BY <1>1, <1>4, BootAssumption DEF Fault
  <2> QED BY <1>4, <2>1, <2>2, ExitInv
<1> QED BY <1>2, <1>3, <1>4 DEF Exec

(* Most statements leave no migration to do.                                   *)
LEMMA PlainExecInv ==
  ASSUME BootInv, NEW p \in Starters, NEW possible \in BOOLEAN, NEW after,
         NEW label \in Labels \ {"apply", "record"},
         possible => Grows(after) /\ Sound(after) /\ Prepares(after, label, {}),
         Exec(p, possible, after, label, {})
  PROVE  BootInv'
<1>1. {} \in SUBSET Versions /\ label \in Labels
  OBVIOUS
<1>2. label \in {"apply", "record"} <=> {} # {}
  OBVIOUS
<1> QED BY <1>1, <1>2, ExecInv

(* The invariant holds at the start,                                           *)
LEMMA InitInv == Init => BootInv
<1> SUFFICES ASSUME Init PROVE BootInv
  OBVIOUS
<1>1. /\ db \in Database /\ RecordedIsApplied
      /\ db.columns # {} => MigratedColumns \subseteq db.columns
  <2>1. CASE db = NewDatabase
    <3>1. db \in Database
      BY <2>1 DEF NewDatabase, Database
    <3>2. db.recorded = {} /\ db.columns = {}
      BY <2>1 DEF NewDatabase
    <3> QED BY <3>1, <3>2 DEF RecordedIsApplied
  <2>2. CASE db = OldDatabase
    <3>1. MigratedColumns \in SUBSET AllColumns /\ MigratedColumns # {}
      BY DEF AllColumns, MigratedColumns
    <3>2. db \in Database
      BY <2>2, <3>1 DEF OldDatabase, Database
    <3>3. db.schema /\ db.log /\ db.columns = MigratedColumns
      BY <2>2 DEF OldDatabase
    <3> QED BY <3>1, <3>2, <3>3 DEF RecordedIsApplied
  <2> QED BY <2>1, <2>2 DEF Init
<1>2. /\ pc \in [Starters -> Labels] /\ todo \in [Starters -> SUBSET Versions]
      /\ \A p \in Starters : pc[p] = "down" /\ todo[p] = {}
      /\ faults \in 0..MaxFaults
  BY BootAssumption DEF Init, Labels
<1>3. \A p \in Starters : Reached(pc[p]) /\ Recordable(p)
  BY <1>2 DEF Reached, Recordable, Labels, AfterSchema, AfterTable
<1> QED BY <1>1, <1>2, <1>3 DEF BootInv, TypeOK

(* and every step of migrate.Run                                               *)
LEMMA RunInv ==
  ASSUME BootInv, NEW p \in Starters,
         EnsureSchema(p) \/ EnsureLog(p) \/ ReadApplied(p) \/ Apply(p) \/ Record(p)
  PROVE  BootInv'
<1> USE DEF Labels, AfterSchema, AfterTable
<1>1. /\ db \in Database /\ Sound(db) /\ Reached(pc[p]) /\ Recordable(p)
      /\ todo[p] \in SUBSET Versions
      /\ pc[p] \in {"apply", "record"} <=> todo[p] # {}
  BY DEF BootInv, TypeOK, Sound, RecordedIsApplied
<1>2. CASE EnsureSchema(p)
  <2>1. Grows([db EXCEPT !.schema = TRUE]) /\ Sound([db EXCEPT !.schema = TRUE])
    BY <1>1 DEF Grows, Sound, Database
  <2>2. Prepares([db EXCEPT !.schema = TRUE], "log", {})
    BY <1>1 DEF Prepares, Database
  <2>3. Exec(p, TRUE, [db EXCEPT !.schema = TRUE], "log", {})
    BY <1>2 DEF EnsureSchema
  <2> QED BY <2>1, <2>2, <2>3, PlainExecInv
<1>3. CASE EnsureLog(p)
  <2>1. Grows([db EXCEPT !.log = TRUE]) /\ Sound([db EXCEPT !.log = TRUE])
    BY <1>1 DEF Grows, Sound, Database
  <2>2. Prepares([db EXCEPT !.log = TRUE], "read", {}) /\ db.schema \in BOOLEAN
    BY <1>1, <1>3 DEF EnsureLog, Reached, Prepares, Database
  <2>3. Exec(p, db.schema, [db EXCEPT !.log = TRUE], "read", {})
    BY <1>3 DEF EnsureLog
  <2> QED BY <2>1, <2>2, <2>3, PlainExecInv
<1>4. CASE ReadApplied(p)
  <2>1. \A rest \in SUBSET Versions :
          /\ NextLabel(rest) \in Labels
          /\ Prepares(db, NextLabel(rest), rest)
          /\ NextLabel(rest) \in {"apply", "record"} <=> rest # {}
    BY <1>1, <1>4 DEF ReadApplied, Reached, NextLabel, Prepares
  <2>2. Grows(db) /\ db.log \in BOOLEAN
    BY <1>1 DEF Grows, Database
  <2>3. ASSUME NEW part \in SUBSET db.recorded, Fault,
               Goto(p, NextLabel(Versions \ part)),
               todo' = [todo EXCEPT ![p] = Versions \ part], UNCHANGED db
        PROVE  BootInv'
    <3>1. Grows(db') /\ Sound(db') /\ Prepares(db', NextLabel(Versions \ part), Versions \ part)
      BY <1>1, <2>1, <2>2, <2>3
    <3>2. faults' \in 0..MaxFaults
      BY <2>3, BootAssumption DEF Fault, BootInv, TypeOK
    <3>3. /\ Versions \ part \in SUBSET Versions
          /\ NextLabel(Versions \ part) \in Labels
          /\ NextLabel(Versions \ part) \in {"apply", "record"} <=> Versions \ part # {}
      BY <2>1
    <3> QED BY <2>3, <3>1, <3>2, <3>3, StepInv
  <2>4. ASSUME Exec(p, db.log, db, NextLabel(Versions \ db.recorded), Versions \ db.recorded)
        PROVE  BootInv'
    BY <1>1, <2>1, <2>2, <2>4, ExecInv
  <2> QED BY <1>4, <2>3, <2>4 DEF ReadApplied
<1>5. CASE Apply(p)
  <2> DEFINE v == First(todo[p])
  <2>1. v \in Versions /\ CanApply(v) \in BOOLEAN /\ todo[p] # {}
    BY <1>1, <1>5 DEF Apply, First, Versions, CanApply, Database
  <2>2. Grows(Applied(v)) /\ Sound(Applied(v)) /\ Applied(v).schema /\ Applied(v).log
    BY <1>1, <1>5, <2>1
       DEF Apply, Reached, Applied, Grows, Sound, Database, Versions, MigratedColumns, AllColumns
  <2>3. v = "001_gateway_services.sql" => Applied(v).columns # {}
    BY <1>1 DEF Applied, MigratedColumns, Database
  <2>4. Prepares(Applied(v), "record", todo[p])
    BY <2>2, <2>3 DEF Prepares
  <2> QED BY <1>1, <1>5, <2>1, <2>2, <2>4, ExecInv DEF Apply
<1>6. CASE Record(p)
  <2> DEFINE v == First(todo[p])
             after == [db EXCEPT !.recorded = @ \cup {v}]
             rest == todo[p] \ {v}
  <2>1. v \in Versions /\ rest \in SUBSET Versions
    BY <1>1 DEF First, Versions
  <2>2. db.schema /\ db.log
    BY <1>1, <1>6 DEF Record, Reached
  <2>3. Grows(after) /\ Sound(after)
    BY <1>1, <1>6, <2>1, <2>2 DEF Record, Recordable, Grows, Sound, Database
  <2>4. /\ NextLabel(rest) \in Labels
        /\ NextLabel(rest) \in {"apply", "record"} <=> rest # {}
        /\ Prepares(after, NextLabel(rest), rest)
    BY <1>1, <2>2 DEF NextLabel, Prepares, Database
  <2>5. Exec(p, db.log /\ v \notin db.recorded, after, NextLabel(rest), rest)
    BY <1>6 DEF Record
  <2> HIDE DEF after, rest
  <2> QED BY <2>1, <2>3, <2>4, <2>5, ExecInv
<1> QED BY <1>2, <1>3, <1>4, <1>5, <1>6

(* and of Init keeps it.                                                       *)
LEMMA InitStepInv ==
  ASSUME BootInv, NEW p \in Starters,
         \/ InitSchema(p) \/ InitTable(p)
         \/ AddColumn(p, "protocol", "grpc_target")
         \/ AddColumn(p, "grpc_target", "init_routes")
         \/ InitRoutes(p)
  PROVE  BootInv'
<1> USE DEF Labels, AfterSchema, AfterTable
<1>1. db \in Database /\ Sound(db) /\ Reached(pc[p])
  BY DEF BootInv, TypeOK, Sound, RecordedIsApplied
<1>2. db.schema \in BOOLEAN /\ (db.columns # {}) \in BOOLEAN
  BY <1>1 DEF Database
<1>3. CASE InitSchema(p)
  <2>1. Grows([db EXCEPT !.schema = TRUE]) /\ Sound([db EXCEPT !.schema = TRUE])
    BY <1>1 DEF Grows, Sound, Database
  <2>2. Prepares([db EXCEPT !.schema = TRUE], "init_table", {})
    BY <1>1, <1>3 DEF InitSchema, Reached, Prepares, Database
  <2>3. Exec(p, TRUE, [db EXCEPT !.schema = TRUE], "init_table", {})
    BY <1>3 DEF InitSchema
  <2> QED BY <2>1, <2>2, <2>3, PlainExecInv
<1>4. CASE InitTable(p)
  <2> DEFINE after == [db EXCEPT !.columns = IF @ = {} THEN AllColumns ELSE @]
  <2>1. Grows(after) /\ Sound(after)
    BY <1>1 DEF Grows, Sound, Database, AllColumns, MigratedColumns
  <2>2. Prepares(after, "protocol", {})
    BY <1>1, <1>4 DEF InitTable, Reached, Prepares, Database, AllColumns
  <2>3. Exec(p, db.schema, after, "protocol", {})
    BY <1>4 DEF InitTable
  <2> HIDE DEF after
  <2> QED BY <1>2, <2>1, <2>2, <2>3, PlainExecInv
<1>5. ASSUME NEW column \in {"protocol", "grpc_target"}, NEW label \in Labels,
             \/ column = "protocol" /\ label = "grpc_target"
             \/ column = "grpc_target" /\ label = "init_routes",
             AddColumn(p, column, label)
      PROVE  BootInv'
  <2> DEFINE after == [db EXCEPT !.columns = @ \cup {column}]
  <2>1. db.columns # {} => Grows(after) /\ Sound(after)
    BY <1>1 DEF Grows, Sound, Database, AllColumns
  <2>2. Prepares(after, label, {})
    BY <1>1, <1>5 DEF AddColumn, Reached, Prepares, Database
  <2>3. Exec(p, db.columns # {}, after, label, {})
    BY <1>5 DEF AddColumn
  <2> HIDE DEF after
  <2>4. label \in Labels \ {"apply", "record"}
    BY <1>5
  <2> QED BY <1>2, <2>1, <2>2, <2>3, <2>4, PlainExecInv
<1>6. CASE InitRoutes(p)
  <2>1. Grows([db EXCEPT !.routes = TRUE]) /\ Sound([db EXCEPT !.routes = TRUE])
    BY <1>1 DEF Grows, Sound, Database
  <2>2. Prepares([db EXCEPT !.routes = TRUE], "load", {})
    BY <1>1, <1>6 DEF InitRoutes, Reached, Prepares, Database
  <2>3. Exec(p, db.columns # {}, [db EXCEPT !.routes = TRUE], "load", {})
    BY <1>6 DEF InitRoutes
  <2> QED BY <1>2, <2>1, <2>2, <2>3, PlainExecInv
<1> QED BY <1>3, <1>4, <1>5, <1>6

(* Every step keeps it.                                                        *)
LEMMA NextInv == BootInv /\ [Next]_vars => BootInv'
<1> SUFFICES ASSUME BootInv, [Next]_vars PROVE BootInv'
  OBVIOUS
<1>1. Grows(db) /\ Sound(db) /\ faults \in 0..MaxFaults
  BY DEF BootInv, TypeOK, Grows, Sound, RecordedIsApplied
<1>2. ASSUME NEW p \in Starters, Start(p)
      PROVE  BootInv'
  <2>1. todo[p] = {} /\ todo' = [todo EXCEPT ![p] = {}]
    BY <1>2 DEF Start, BootInv, TypeOK
  <2>2. Prepares(db', "schema", {}) /\ "schema" \in Labels
    BY DEF Prepares, AfterSchema, AfterTable, Labels
  <2>3. Grows(db') /\ Sound(db') /\ faults' \in 0..MaxFaults
    BY <1>1, <1>2 DEF Start
  <2> QED BY <1>2, <2>1, <2>2, <2>3, StepInv DEF Start
<1>3. ASSUME NEW p \in Starters, Serve(p)
      PROVE  BootInv'
  <2>1. todo[p] = {} /\ todo' = [todo EXCEPT ![p] = {}]
    BY <1>3 DEF Serve, BootInv, TypeOK
  <2>2. Prepares(db', "serving", {}) /\ "serving" \in Labels
    BY <1>3 DEF Serve, Prepares, BootInv, Reached, AfterSchema, AfterTable, Labels
  <2>3. Grows(db') /\ Sound(db') /\ faults' \in 0..MaxFaults
    BY <1>1, <1>3 DEF Serve
  <2> QED BY <1>3, <2>1, <2>2, <2>3, StepInv DEF Serve
<1>4. ASSUME NEW p \in Starters, Crash(p)
      PROVE  BootInv'
  <2>1. Grows(db') /\ Sound(db') /\ faults' \in 0..MaxFaults
    BY <1>1, <1>4, BootAssumption DEF Crash, Fault
  <2> QED BY <1>4, <2>1, ExitInv DEF Crash
<1>5. CASE UNCHANGED vars
  BY <1>5 DEF vars, BootInv, TypeOK, RecordedIsApplied, Reached, Recordable
<1> QED BY <1>2, <1>3, <1>4, <1>5, RunInv, InitStepInv DEF Next, Proceed

(* Whatever the database was and whoever dies: a gateway serves on complete    *)
(* tables.                                                                     *)
THEOREM ServesComplete == Spec => []ServingComplete
<1>1. BootInv => ServingComplete
  BY DEF BootInv, TypeOK, Reached, ServingComplete, Database, AfterSchema, AfterTable,
         AllColumns, MigratedColumns
<1> QED BY <1>1, InitInv, NextInv, PTL DEF Spec

(* A recorded migration was applied.                                           *)
THEOREM RecordsAreTrue == Spec => []RecordedIsApplied
<1>1. BootInv => RecordedIsApplied
  BY DEF BootInv
<1> QED BY <1>1, InitInv, NextInv, PTL DEF Spec

(* The types hold.                                                             *)
THEOREM TypeCorrect == Spec => []TypeOK
<1>1. BootInv => TypeOK
  BY DEF BootInv
<1> QED BY <1>1, InitInv, NextInv, PTL DEF Spec

=============================================================================
