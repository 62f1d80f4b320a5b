--------------------------- MODULE GatewayProofs ---------------------------
(* What holds of Gateway for any numbers of handlers, services, prefixes and   *)
(* configurations, any budget, and with or without the cache.                  *)
EXTENDS Gateway, TLAPS

USE DEF IsTable, RowsOf, IdsIn

-----------------------------------------------------------------------------
(* The statements of the repository.                                           *)

(* INSERT keeps the keys of the table.                                         *)
LEMMA InsertIsTable ==
  ASSUME NEW table, IsTable(table), NEW s \in Service, CanInsert(table, s)
  PROVE  IsTable(Insert(table, s))
<1> DEFINE r == [s EXCEPT !.status = "none"]
<1>1. r \in Service /\ r.id = s.id /\ r.prefix = s.prefix
  BY DEF Service, Statuses
<1>2. \A t \in table : t.id # r.id /\ t.prefix # r.prefix
  BY <1>1 DEF CanInsert
<1> HIDE DEF r
<1>3. IsTable(table \cup {r})
  BY <1>1, <1>2
<1> QED BY <1>3 DEF Insert, r

(* So does UPDATE.                                                             *)
LEMMA UpdateIsTable ==
  ASSUME NEW table, IsTable(table), NEW s \in Service, CanUpdate(table, s)
  PROVE  IsTable(Update(table, s))
<1>1. \A t \in table : /\ Written(t, s) \in Service
                       /\ Written(t, s).id = s.id /\ Written(t, s).prefix = s.prefix
  BY DEF Written, Service
<1>2. Update(table, s) \subseteq Service
  BY <1>1 DEF Update
<1>3. ASSUME NEW u \in Update(table, s), NEW v \in Update(table, s),
             u.id = v.id \/ u.prefix = v.prefix
      PROVE  u = v
  <2> DEFINE old == {t \in table : t.id # s.id}
             new == {Written(t, s) : t \in {t \in table : t.id = s.id}}
  <2>1. u \in old \cup new /\ v \in old \cup new
    BY DEF Update
  <2>2. CASE u \in old /\ v \in old
    BY <1>3, <2>2
  <2>3. CASE u \in new /\ v \in new
    <3>1. PICK t1 \in table : t1.id = s.id /\ u = Written(t1, s)
      BY <2>3
    <3>2. PICK t2 \in table : t2.id = s.id /\ v = Written(t2, s)
      BY <2>3
    <3>3. t1 = t2
      BY <3>1, <3>2
    <3> QED BY <3>1, <3>2, <3>3
  <2>4. ASSUME NEW a \in old, NEW b \in new
        PROVE  a.id # b.id /\ a.prefix # b.prefix
    <3>1. PICK t \in table : t.id = s.id /\ b = Written(t, s)
      BY <2>4
    <3>2. \A x \in table : x.id # s.id => x.prefix # s.prefix
      BY <3>1 DEF CanUpdate
    <3> QED BY <1>1, <3>1, <3>2
  <2> QED BY <1>3, <2>1, <2>2, <2>3, <2>4
<1> QED BY <1>2, <1>3

(* So does DELETE.                                                             *)
LEMMA DeleteIsTable ==
  ASSUME NEW table, IsTable(table), NEW id
  PROVE  IsTable(Delete(table, id))
BY DEF Delete

(* An UPDATE or a DELETE brings no id into the table, an INSERT its own.       *)
LEMMA StatementIds ==
  ASSUME NEW table, IsTable(table), NEW s \in Service, NEW id
  PROVE  /\ IdsIn(Insert(table, s)) = IdsIn(table) \cup {s.id}
         /\ IdsIn(Update(table, s)) \subseteq IdsIn(table)
         /\ IdsIn(Delete(table, id)) \subseteq IdsIn(table)
<1>1. [s EXCEPT !.status = "none"].id = s.id
  BY DEF Service
<1>2. \A t \in table : Written(t, s).id = s.id
  BY DEF Written, Service
<1>3. IdsIn(Insert(table, s)) = IdsIn(table) \cup {s.id}
  <2> DEFINE r == [s EXCEPT !.status = "none"]
  <2>1. Insert(table, s) = table \cup {r}
    BY DEF Insert
  <2>2. r.id = s.id
    BY <1>1
  <2> HIDE DEF r
  <2> QED BY <2>1, <2>2
<1>4. IdsIn(Update(table, s)) \subseteq IdsIn(table)
  BY <1>2 DEF Update
<1>5. IdsIn(Delete(table, id)) \subseteq IdsIn(table)
  BY DEF Delete
<1> QED BY <1>3, <1>4, <1>5

(* A statement about one service leaves the others' rows as they are.          *)
LEMMA StatementRows ==
  ASSUME NEW table, IsTable(table), NEW s \in Service, NEW k, k # s.id
  PROVE  /\ RowsOf(Insert(table, s), k) = RowsOf(table, k)
         /\ RowsOf(Update(table, s), k) = RowsOf(table, k)
         /\ RowsOf(Delete(table, s.id), k) = RowsOf(table, k)
<1>1. [s EXCEPT !.status = "none"].id = s.id
  BY DEF Service
<1>2. \A t \in table : Written(t, s).id = s.id
  BY DEF Written, Service
<1>3. RowsOf(Insert(table, s), k) = RowsOf(table, k)
  <2> DEFINE r == [s EXCEPT !.status = "none"]
  <2>1. r.id # k
    BY <1>1
  <2> HIDE DEF r
  <2> QED BY <2>1 DEF Insert, r
<1>4. RowsOf(Update(table, s), k) = RowsOf(table, k)
  BY <1>2 DEF Update
<1>5. RowsOf(Delete(table, s.id), k) = RowsOf(table, k)
  BY DEF Delete
<1> QED BY <1>3, <1>4, <1>5

(* The queries return services.                                                *)
LEMMA ViewType ==
  ASSUME NEW table, table \subseteq Service, NEW key
  PROVE  View(key, table) \subseteq Service
<1>1. EnabledView(table) \subseteq Service
  BY DEF EnabledView, Service, Docs, Statuses
<1>2. ListView(table) \subseteq Service
  BY DEF ListView, Service, Docs
<1>3. GetView(table, key) \subseteq Service
  BY DEF GetView
<1> QED BY <1>1, <1>2, <1>3 DEF View

-----------------------------------------------------------------------------
(* Type correctness.                                                           *)

(* services is one of the committed tables.                                    *)
LEMMA ServicesIsTable ==
  ASSUME TypeOK
  PROVE  Len(history) \in DOMAIN history /\ IsTable(services)
BY DEF TypeOK, services

(* A write adds at most one table, at the end.                                 *)
LEMMA WriteType ==
  ASSUME TypeOK, NEW p \in Procs, NEW t \in Task, NEW table, IsTable(table),
         AfterWrite(p, t, table)
  PROVE  /\ history' \in Seq(SUBSET Service) /\ history' # <<>>
         /\ \A i \in DOMAIN history' : IsTable(history'[i])
         /\ task' \in [Procs -> Task]
<1>1. history' = history \/ history' = Append(history, table)
  BY DEF AfterWrite
<1>2. /\ history' \in Seq(SUBSET Service) /\ history' # <<>>
      /\ \A i \in DOMAIN history' : IsTable(history'[i])
  <2>1. CASE history' = history
    BY <2>1 DEF TypeOK
  <2>2. CASE history' = Append(history, table)
    BY <2>2 DEF TypeOK
  <2> QED BY <1>1, <2>1, <2>2
<1>3. [t EXCEPT !.wrote = Len(history')] \in Task
  BY <1>2 DEF Task
<1> QED BY <1>2, <1>3 DEF AfterWrite, TypeOK

(* The labels and tasks the actions name are labels and tasks.                 *)
LEMMA LabelTypes ==
  /\ ReadLabel \in Labels /\ AfterSelect \in Labels
  /\ \A op : AfterInvalidation(op) \in Labels /\ WrittenLabel(op) \in Labels
BY DEF ReadLabel, AfterSelect, AfterInvalidation, WrittenLabel, Labels

(* The initial tasks and the empty cache entry have their types.               *)
LEMMA TaskTypes ==
  /\ InitialTask \in Task /\ BootTask \in Task
  /\ \A id \in Ids : ReloadTask(id) \in Task
  /\ Absent \in Entry
BY DEF InitialTask, BootTask, ReloadTask, Task, Ops, Keys, Absent, Entry

(* Paying for an event keeps the budgets integers.                             *)
LEMMA SpendType ==
  ASSUME TypeOK, NEW kind \in Costs, Spend(kind)
  PROVE  budget' \in [Costs -> Int]
BY DEF TypeOK, Spend

(* A process that ends its request keeps the types.                            *)
LEMMA FinishType ==
  ASSUME TypeOK, NEW p \in Procs, Finish(p)
  PROVE  /\ pc' \in [Procs -> Labels] /\ task' \in [Procs -> Task]
         /\ val' \in [Procs -> Entry]
BY TaskTypes DEF TypeOK, Finish, Goto, Labels

(* A process that takes a result on keeps the types.                           *)
LEMMA ReadsType ==
  ASSUME TypeOK, NEW p \in Procs, NEW label \in Labels, NEW v \in Entry,
         Reads(p, label, v)
  PROVE  /\ pc' \in [Procs -> Labels] /\ task' \in [Procs -> Task]
         /\ val' \in [Procs -> Entry]
BY DEF TypeOK, Reads, Goto

(* The write of a handler keeps the types.                                     *)
LEMMA HandlerWritesType ==
  ASSUME TypeOK, NEW h \in Handlers, NEW id \in Ids, NEW table, IsTable(table),
         HandlerWrites(h, id, table)
  PROVE  TypeOK'
<1>1. h \in Procs
  BY DEF Procs
<1>2. /\ history' \in Seq(SUBSET Service) /\ history' # <<>>
      /\ \A i \in DOMAIN history' : IsTable(history'[i])
      /\ task' \in [Procs -> Task]
  BY <1>1, WriteType, TaskTypes DEF HandlerWrites
<1>3. pc' \in [Procs -> Labels] /\ val' \in [Procs -> Entry]
  BY <1>1, LabelTypes, TaskTypes DEF HandlerWrites, Goto, TypeOK
<1>4. budget' \in [Costs -> Int]
  BY SpendType DEF HandlerWrites, Costs
<1> QED BY <1>2, <1>3, <1>4 DEF HandlerWrites, AfterWrite, TypeOK

(* The start of a read keeps the types.                                        *)
LEMMA StartReadType ==
  ASSUME TypeOK, NEW p \in Procs, NEW op, NEW key, NEW id,
         [op |-> op, key |-> key, id |-> id, wrote |-> 0] \in Task,
         StartRead(p, op, key, id), budget' \in [Costs -> Int]
  PROVE  TypeOK'
BY LabelTypes, TaskTypes DEF StartRead, Goto, TypeOK

(* The table a write commits: a table, and no id in it was in use before except*)
(* those of the current one.                                                   *)
Successor(table) ==
  IsTable(table) /\ IdsIn(table) \cap UsedIds \subseteq IdsIn(services)

Writing(h) ==
  CreateService(h) \/ UpdateService(h) \/ DeleteService(h) \/ RefreshWriteBack(h)

(* What the four handlers that write have in common.                           *)
LEMMA WritingStep ==
  ASSUME TypeOK, NEW h \in Handlers, Writing(h)
  PROVE  \E id, table :
           /\ id \in Ids /\ Successor(table) /\ HandlerWrites(h, id, table)
           /\ \A k \in Ids \ {id} : RowsOf(table, k) = RowsOf(services, k)
<1>1. IsTable(services)
  BY ServicesIsTable
<1>2. CASE CreateService(h)
  <2>1. PICK id \in Ids \ UsedIds, b \in Bodies :
          LET conf == InferBase[b.conf]
              s == [id |-> id, prefix |-> NormalizePrefix[b.prefix], conf |-> conf,
                    enabled |-> b.enabled,
                    doc |-> IF b.conf \in HttpConfs THEN conf ELSE NoDoc,
                    status |-> "none"]
          IN CanInsert(services, s) /\ HandlerWrites(h, id, Insert(services, s))
    BY <1>2 DEF CreateService
  <2> DEFINE conf == InferBase[b.conf]
             s == [id |-> id, prefix |-> NormalizePrefix[b.prefix], conf |-> conf,
                   enabled |-> b.enabled,
                   doc |-> IF b.conf \in HttpConfs THEN conf ELSE NoDoc,
                   status |-> "none"]
  <2>2. s \in Service /\ s.id = id
    BY PrefixesAssumption, ConfsAssumption, GatewayAssumption
    DEF Service, Docs, Statuses
  <2> HIDE DEF s
  <2>3. IsTable(Insert(services, s))
    BY <1>1, <2>1, <2>2, InsertIsTable DEF s
  <2>4. IdsIn(Insert(services, s)) = IdsIn(services) \cup {id}
    BY <1>1, <2>2, StatementIds
  <2>5. Successor(Insert(services, s))
    BY <2>3, <2>4 DEF Successor
  <2>6. \A k \in Ids \ {id} : RowsOf(Insert(services, s), k) = RowsOf(services, k)
    BY <1>1, <2>2, StatementRows
  <2>7. HandlerWrites(h, id, Insert(services, s))
    BY <2>1 DEF s
  <2> QED BY <2>5, <2>6, <2>7
<1>3. CASE UpdateService(h)
  <2>1. PICK id \in Ids, b \in Bodies :
          LET s == [id |-> id, prefix |-> b.prefix, conf |-> b.conf,
                    enabled |-> b.enabled, doc |-> b.doc, status |-> "none"]
          IN CanUpdate(services, s) /\ HandlerWrites(h, id, Update(services, s))
    BY <1>3 DEF UpdateService
  <2> DEFINE s == [id |-> id, prefix |-> b.prefix, conf |-> b.conf,
                   enabled |-> b.enabled, doc |-> b.doc, status |-> "none"]
  <2>2. s \in Service /\ s.id = id
    BY GatewayAssumption DEF Service, Statuses
  <2>3. CanUpdate(services, s) /\ HandlerWrites(h, id, Update(services, s))
    BY <2>1
  <2> HIDE DEF s
  <2>4. Successor(Update(services, s))
    BY <1>1, <2>2, <2>3, UpdateIsTable, StatementIds DEF Successor
  <2>5. ASSUME NEW k \in Ids \ {id}
        PROVE  RowsOf(Update(services, s), k) = RowsOf(services, k)
    <3> HIDE DEF RowsOf
    <3> QED BY <1>1, <2>2, StatementRows
  <2> QED BY <2>3, <2>4, <2>5
<1>4. CASE DeleteService(h)
  <2>1. PICK id \in Ids : HandlerWrites(h, id, Delete(services, id))
    BY <1>4 DEF DeleteService
  <2>2. Successor(Delete(services, id))
    <3>1. IsTable(Delete(services, id))
      BY <1>1, DeleteIsTable
    <3>2. IdsIn(Delete(services, id)) \subseteq IdsIn(services)
      BY DEF Delete
    <3> QED BY <3>1, <3>2 DEF Successor
  <2>3. \A k \in Ids \ {id} : RowsOf(Delete(services, id), k) = RowsOf(services, k)
    BY DEF Delete
  <2> QED BY <2>1, <2>2, <2>3
<1>5. CASE RefreshWriteBack(h)
  <2>1. PICK s \in val[h].rows :
          LET conf == InferBase[s.conf]
              new == [s EXCEPT !.conf = conf, !.doc = conf]
          IN CanUpdate(services, new) /\ HandlerWrites(h, s.id, Update(services, new))
    BY <1>5 DEF RefreshWriteBack
  <2> DEFINE conf == InferBase[s.conf]
             new == [s EXCEPT !.conf = conf, !.doc = conf]
  <2>2. s \in Service
    BY DEF TypeOK, Entry, Procs
  <2>3. new \in Service /\ s.id \in Ids /\ new.id = s.id
    BY <2>2, ConfsAssumption DEF Service, Docs
  <2>4. CanUpdate(services, new) /\ HandlerWrites(h, s.id, Update(services, new))
    BY <2>1
  <2> HIDE DEF new
  <2>5. Successor(Update(services, new))
    BY <1>1, <2>3, <2>4, UpdateIsTable, StatementIds DEF Successor
  <2>6. ASSUME NEW k \in Ids \ {s.id}
        PROVE  RowsOf(Update(services, new), k) = RowsOf(services, k)
    <3> HIDE DEF RowsOf
    <3> QED BY <1>1, <2>3, StatementRows
  <2> QED BY <2>3, <2>4, <2>5, <2>6
<1> QED BY <1>2, <1>3, <1>4, <1>5 DEF Writing

(* A handler writes at once, when its request comes in after the boot, or at   *)
(* the end of a refresh.                                                       *)
LEMMA WritingFrom ==
  ASSUME NEW h \in Handlers, Writing(h)
  PROVE  (pc[h] = "idle" /\ ~Booting) \/ (pc[h] = "use" /\ task[h].op = "refresh")
BY DEF Writing, CreateService, UpdateService, DeleteService, RefreshWriteBack, Accepts

(* A probe writes the checker's copy of the row or, when its prefix was taken  *)
(* meanwhile, nothing.                                                         *)
LEMMA ProbeStep ==
  ASSUME TypeOK, NEW s \in todo, NEW outcome \in {"Healthy", "Unhealthy"},
         Probe(s, outcome)
  PROVE  \/ \E t, table :
               /\ t \in Task
               /\ t.op = task[Main].op /\ t.key = task[Main].key
               /\ Successor(table) /\ AfterWrite(Main, t, table)
               /\ Goto(Main, WrittenLabel("health"))
         \/ UNCHANGED <<history, cache, routed, routedAt, task, pc>>
<1> DEFINE new == [s EXCEPT !.status = outcome]
           t == [task[Main] EXCEPT !.id = s.id]
<1>1. new \in Service /\ s.id \in Ids
  BY DEF TypeOK, Service, Statuses
<1>2. t \in Task /\ t.op = task[Main].op /\ t.key = task[Main].key
  BY <1>1 DEF TypeOK, Task, Procs
<1>3. ASSUME CanUpdate(services, new)
      PROVE  Successor(Update(services, new))
  BY <1>1, <1>3, ServicesIsTable, UpdateIsTable, StatementIds DEF Successor
<1> HIDE DEF t
<1>4. \/ CanUpdate(services, new) /\ AfterWrite(Main, t, Update(services, new))
         /\ Goto(Main, WrittenLabel("health"))
      \/ UNCHANGED <<history, cache, routed, routedAt, task, pc>>
  BY DEF Probe, t
<1> QED BY <1>2, <1>3, <1>4

(* Every request of a handler keeps the types.                                 *)
LEMMA HandleType ==
  ASSUME TypeOK, NEW h \in Handlers, Handle(h)
  PROVE  TypeOK'
<1>1. h \in Procs
  BY DEF Procs
<1>2. CASE Writing(h)
  <2>1. PICK id, table : id \in Ids /\ Successor(table) /\ HandlerWrites(h, id, table)
    BY <1>2, WritingStep
  <2> QED BY <2>1, HandlerWritesType DEF Successor
<1>3. CASE GetService(h) \/ ListServices(h) \/ RefreshService(h)
  <2>1. /\ \A id \in Ids, op \in {"read", "refresh"} :
             [op |-> op, key |-> id, id |-> id, wrote |-> 0] \in Task
        /\ [op |-> "read", key |-> "list", id |-> "list", wrote |-> 0] \in Task
    BY DEF Task, Ops, Keys
  <2> QED BY <1>1, <1>3, <2>1, StartReadType
      DEF GetService, ListServices, RefreshService, TypeOK
<1>4. CASE RefreshGivesUp(h)
  BY <1>1, <1>4, FinishType DEF RefreshGivesUp, TypeOK
<1>5. CASE DelsCancelled(h)
  BY <1>1, <1>5, SpendType, LabelTypes DEF DelsCancelled, Costs, Goto, TypeOK
<1> QED BY <1>2, <1>3, <1>4, <1>5 DEF Handle, Writing

(* So does every step that follows one.                                        *)
LEMMA ProceedType ==
  ASSUME TypeOK, NEW p \in Procs, Proceed(p)
  PROVE  TypeOK'
<1>1. services \subseteq Service /\ Len(history) \in Nat
  BY ServicesIsTable DEF TypeOK
<1>2. \A rows : rows \subseteq View(task[p].key, services)
                  => [rows |-> rows, at |-> Len(history)] \in Entry
  BY <1>1, ViewType DEF Entry
<1>3. task[p] \in Task /\ task[p].key \in Keys /\ task[p].id \in Keys
  BY DEF TypeOK, Task, Keys
<1>4. CASE CacheHit(p)
  <2>1. cache[task[p].key] \in Entry
    BY <1>3 DEF TypeOK
  <2> QED BY <1>4, <2>1, ReadsType DEF CacheHit, Labels, TypeOK
<1>5. CASE CacheMiss(p)
  BY <1>5, ReadsType, SpendType, TaskTypes DEF CacheMiss, Labels, Costs, TypeOK
<1>6. CASE Select(p)
  <2>1. CASE Finish(p)
    BY <1>6, <2>1, FinishType DEF Select, TypeOK
  <2>2. CASE Reads(p, AfterSelect,
                   [rows |-> View(task[p].key, services), at |-> Len(history)])
    BY <1>2, <1>6, <2>2, ReadsType, LabelTypes DEF Select, TypeOK
  <2> QED BY <1>6, <2>1, <2>2 DEF Select
<1>7. CASE SelectTruncated(p)
  <2>1. PICK rows \in SUBSET View(task[p].key, services) :
          Reads(p, AfterSelect, [rows |-> rows, at |-> Len(history)])
    BY <1>7 DEF SelectTruncated
  <2>2. [rows |-> rows, at |-> Len(history)] \in Entry
    BY <1>2
  <2> QED BY <1>7, <2>1, <2>2, ReadsType, SpendType, LabelTypes
      DEF SelectTruncated, Costs, TypeOK
<1>8. CASE SelectFails(p)
  BY <1>8, FinishType, SpendType DEF SelectFails, Costs, TypeOK
<1>9. CASE Fill(p)
  <2>1. val[p] \in Entry
    BY DEF TypeOK
  <2>2. budget' \in [Costs -> Int] /\ cache' \in [Keys -> Entry]
    BY <1>3, <1>9, <2>1, SpendType DEF Fill, Costs, TypeOK
  <2> QED BY <1>9, <2>1, <2>2, ReadsType DEF Fill, Labels, TypeOK
<1>10. CASE InstallRegistry(p)
  <2>1. val[p].rows \subseteq Service /\ val[p].at \in Nat
    BY DEF TypeOK, Entry
  <2> QED BY <1>10, <2>1, FinishType DEF InstallRegistry, TypeOK
<1>11. CASE AnswerRead(p)
  BY <1>11, FinishType DEF AnswerRead, TypeOK
<1>12. ASSUME NEW label, NEW key \in Keys, NEW next \in Labels, Del(p, label, key, next)
       PROVE  TypeOK'
  <2>1. budget' \in [Costs -> Int] /\ cache' \in [Keys -> Entry]
    BY <1>12, SpendType, TaskTypes DEF Del, Costs, TypeOK
  <2> QED BY <1>12, <2>1 DEF Del, Goto, TypeOK
<1>13. CASE DelEnabled(p) \/ DelList(p) \/ DelItem(p)
  BY <1>3, <1>12, <1>13, LabelTypes DEF DelEnabled, DelList, DelItem, Keys, Labels
<1>14. CASE CommitUnanswered(p)
  BY <1>14, FinishType, ReadsType, SpendType, TaskTypes
  DEF CommitUnanswered, Costs, Labels, TypeOK
<1> QED BY <1>4, <1>5, <1>6, <1>7, <1>8, <1>9, <1>10, <1>11, <1>13, <1>14 DEF Proceed

(* The values a process boots with.                                            *)
LEMMA BootType ==
  /\ BootPc \in [Procs -> Labels] /\ BootTasks \in [Procs -> Task]
  /\ NothingRead \in [Procs -> Entry]
BY LabelTypes, TaskTypes DEF BootPc, BootTasks, NothingRead, Labels

(* A process that is started again has the types.                              *)
LEMMA RestartType ==
  ASSUME TypeOK, Restarted, budget' \in [Costs -> Int]
  PROVE  TypeOK'
BY BootType DEF Restarted, TypeOK

(* And every step of the checker.                                              *)
LEMMA CheckType ==
  ASSUME TypeOK, Check
  PROVE  TypeOK'
<1>1. Main \in Procs
  BY DEF Procs
<1>2. CASE Tick
  <2>1. [op |-> "health", key |-> "list", id |-> "list", wrote |-> 0] \in Task
    BY DEF Task, Ops, Keys
  <2> QED BY <1>1, <1>2, <2>1, StartReadType, SpendType DEF Tick, Costs
<1>3. CASE StartRound
  <2>1. val[Main].rows \subseteq Service
    BY <1>1 DEF TypeOK, Entry
  <2> QED BY <1>1, <1>3, <2>1, ReadsType, TaskTypes DEF StartRound, Labels, TypeOK
<1>4. CASE EndRound
  BY <1>1, <1>4, FinishType DEF EndRound, TypeOK
<1>5. ASSUME NEW s \in todo, NEW outcome \in {"Healthy", "Unhealthy"}, Probe(s, outcome)
      PROVE  TypeOK'
  <2>1. todo' \subseteq Service
    BY <1>5 DEF Probe, TypeOK
  <2>2. CASE UNCHANGED <<history, cache, routed, routedAt, task, pc>>
    BY <1>5, <2>1, <2>2 DEF Probe, TypeOK
  <2>3. ASSUME NEW t \in Task, NEW table, Successor(table), AfterWrite(Main, t, table),
               Goto(Main, WrittenLabel("health"))
        PROVE  TypeOK'
    <3>1. /\ history' \in Seq(SUBSET Service) /\ history' # <<>>
          /\ \A i \in DOMAIN history' : IsTable(history'[i])
          /\ task' \in [Procs -> Task]
      BY <1>1, <2>3, WriteType DEF Successor
    <3>2. pc' \in [Procs -> Labels]
      BY <1>1, <2>3, LabelTypes DEF Goto, TypeOK
    <3> QED BY <1>5, <2>1, <2>3, <3>1, <3>2 DEF Probe, AfterWrite, TypeOK
  <2> QED BY <1>5, <2>2, <2>3, ProbeStep
<1>6. ASSUME NEW s \in todo, ProbePanics(s)
      PROVE  TypeOK'
  BY <1>6, RestartType DEF ProbePanics, TypeOK
<1> QED BY <1>2, <1>3, <1>4, <1>5, <1>6 DEF Check

(* The types hold at the start,                                                *)
LEMMA InitType == Init => TypeOK
<1> SUFFICES ASSUME Init PROVE TypeOK
  OBVIOUS
<1>1. /\ history \in Seq(SUBSET Service) /\ history # <<>>
      /\ \A i \in DOMAIN history : IsTable(history[i])
  BY DEF Init
<1>2. cache \in [Keys -> Entry] /\ budget \in [Costs -> Int]
  BY TaskTypes, GatewayAssumption DEF Init
<1> QED BY <1>1, <1>2, BootType DEF Init, TypeOK

(* and every step keeps them.                                                  *)
LEMMA NextType == TypeOK /\ [Next]_vars => TypeOK'
<1> SUFFICES ASSUME TypeOK, [Next]_vars PROVE TypeOK'
  OBVIOUS
<1>1. CASE \E p \in Procs : Proceed(p)
  BY <1>1, ProceedType
<1>2. CASE \E h \in Handlers : Handle(h)
  BY <1>2, HandleType
<1>3. CASE Check
  BY <1>3, CheckType
<1>4. ASSUME NEW k \in Keys, Expire(k)
      PROVE  TypeOK'
  BY <1>4, TaskTypes DEF Expire, TypeOK
<1>5. CASE Crash
  BY <1>5, RestartType, SpendType DEF Crash, Costs
<1>6. CASE UNCHANGED vars
  BY <1>6 DEF vars, TypeOK
<1> QED BY <1>1, <1>2, <1>3, <1>4, <1>5, <1>6 DEF Next

(* Type correctness: among others, every table that is ever committed respects *)
(* the keys of gateway_services, whatever order requests, refreshes and probes *)
(* write in.                                                                   *)
THEOREM TypeCorrect == Spec => []TypeOK
<1>1. Init => TypeOK
  BY InitType
<1>2. TypeOK /\ [Next]_vars => TypeOK'
  BY NextType
<1> QED BY <1>1, <1>2, PTL DEF Spec

-----------------------------------------------------------------------------
(* Provenance.                                                                 *)

(* What a step may do to the history: nothing, or commit one more table, which *)
(* leaves the registry alone.                                                  *)
HistoryStep ==
  \/ UNCHANGED history
  \/ \E table : /\ Successor(table) /\ history' = Append(history, table)
                /\ UNCHANGED routed

(* A write extends the history by one table.                                   *)
LEMMA AfterWriteHistory ==
  ASSUME NEW p, NEW t, NEW table, Successor(table), AfterWrite(p, t, table)
  PROVE  HistoryStep
BY DEF AfterWrite, HistoryStep

(* Every step is of that form.                                                 *)
LEMMA NextHistory ==
  ASSUME TypeOK, [Next]_vars
  PROVE  HistoryStep
<1>1. ASSUME NEW p \in Procs, Proceed(p)
      PROVE  UNCHANGED history
  BY <1>1 DEF Proceed, CacheHit, CacheMiss, Select, SelectTruncated, SelectFails, Fill,
     InstallRegistry, AnswerRead, DelEnabled, DelList, DelItem, Del, CommitUnanswered
<1>2. ASSUME NEW h \in Handlers, Writing(h)
      PROVE  HistoryStep
  <2>1. PICK id, table : id \in Ids /\ Successor(table) /\ HandlerWrites(h, id, table)
    BY <1>2, WritingStep
  <2> QED BY <2>1, AfterWriteHistory DEF HandlerWrites
<1>3. ASSUME NEW h \in Handlers, Handle(h), ~Writing(h)
      PROVE  UNCHANGED history
  BY <1>3 DEF Handle, Writing, GetService, ListServices, RefreshService, StartRead,
     RefreshGivesUp, DelsCancelled
<1>4. ASSUME NEW s \in todo, NEW outcome \in {"Healthy", "Unhealthy"}, Probe(s, outcome)
      PROVE  HistoryStep
  BY <1>4, ProbeStep, AfterWriteHistory DEF HistoryStep
<1>5. CASE Check
  BY <1>4, <1>5
  DEF Check, Tick, StartRead, StartRound, EndRound, ProbePanics, Restarted, HistoryStep
<1>6. CASE (\E k \in Keys : Expire(k)) \/ Crash \/ UNCHANGED vars
  BY <1>6 DEF Expire, Crash, Restarted, vars, HistoryStep
<1> QED BY <1>1, <1>2, <1>3, <1>5, <1>6 DEF Next, HistoryStep

(* Versions stay what they are.                                                *)
LEMMA HistoryGrows ==
  ASSUME TypeOK, HistoryStep
  PROVE  /\ DOMAIN history \subseteq DOMAIN history'
         /\ \A i \in DOMAIN history : history'[i] = history[i]
<1>1. history \in Seq(SUBSET Service)
  BY DEF TypeOK
<1>2. CASE UNCHANGED history
  BY <1>2
<1>3. ASSUME NEW table, IsTable(table), history' = Append(history, table)
      PROVE  /\ DOMAIN history \subseteq DOMAIN history'
             /\ \A i \in DOMAIN history : history'[i] = history[i]
  <2>1. table \in SUBSET Service
    BY <1>3
  <2>2. /\ DOMAIN history = 1..Len(history) /\ Len(history) \in Nat
        /\ DOMAIN history' = 1..(Len(history) + 1)
    BY <1>1, <1>3, <2>1
  <2> QED BY <1>1, <1>3, <2>1, <2>2
<1> QED BY <1>2, <1>3 DEF HistoryStep, Successor

(* What was read of a version was read of it ever after.                       *)
LEMMA ReadOfStable ==
  ASSUME TypeOK, HistoryStep, NEW key, NEW rows, NEW at, ReadOf(key, rows, at)
  PROVE  at \in DOMAIN history' /\ rows \subseteq View(key, history'[at])
BY HistoryGrows DEF ReadOf

(* A step that at most empties entries of the cache keeps it so.               *)
LEMMA CachedStep ==
  ASSUME TypeOK, Provenance, HistoryStep,
         \A k \in Keys : cache'[k] = cache[k] \/ cache'[k] = Absent
  PROVE  CachedRead'
<1>1. ASSUME NEW k \in Keys, cache'[k] # Absent
      PROVE  /\ cache'[k].at \in DOMAIN history'
             /\ cache'[k].rows \subseteq View(k, history'[cache'[k].at])
  <2>1. cache'[k] = cache[k] /\ ReadOf(k, cache[k].rows, cache[k].at)
    BY <1>1 DEF Provenance, CachedRead
  <2>2. /\ cache[k].at \in DOMAIN history'
        /\ cache[k].rows \subseteq View(k, history'[cache[k].at])
    BY <2>1, ReadOfStable
  <2> QED BY <2>1, <2>2
<1> QED BY <1>1 DEF CachedRead, ReadOf

(* A step of p keeps it so if what p carries afterwards was read.              *)
LEMMA CarriedStep ==
  ASSUME TypeOK, Provenance, HistoryStep, NEW p \in Procs,
         \A q \in Procs \ {p} : pc'[q] = pc[q] /\ task'[q] = task[q] /\ val'[q] = val[q],
         pc'[p] \in {"fill", "use"} =>
           /\ val'[p].at \in DOMAIN history'
           /\ val'[p].rows \subseteq View(task'[p].key, history'[val'[p].at])
  PROVE  CarriedRead'
<1>1. ASSUME NEW q \in Procs \ {p}, pc'[q] \in {"fill", "use"}
      PROVE  /\ val'[q].at \in DOMAIN history'
             /\ val'[q].rows \subseteq View(task'[q].key, history'[val'[q].at])
  BY <1>1, ReadOfStable DEF Provenance, CarriedRead
<1> QED BY <1>1 DEF CarriedRead, ReadOf

(* The routed table stays one that was read while nothing loads another.       *)
LEMMA RoutedStep ==
  ASSUME TypeOK, Provenance, HistoryStep, UNCHANGED <<routed, routedAt>>
  PROVE  RoutedRead'
BY ReadOfStable DEF Provenance, RoutedRead, ReadOf

(* The checker's list stays rows of one table while it only shrinks.           *)
LEMMA TodoStep ==
  ASSUME TypeOK, Provenance, HistoryStep, todo' \subseteq todo
  PROVE  TodoRead'
BY HistoryGrows DEF Provenance, TodoRead

(* p is done or has rows; the others are where they were.                      *)
LEMMA FinishLocal ==
  ASSUME TypeOK, NEW p \in Procs, Finish(p)
  PROVE  /\ \A q \in Procs \ {p} : /\ pc'[q] = pc[q] /\ task'[q] = task[q]
                                   /\ val'[q] = val[q]
         /\ pc'[p] = "idle"
BY DEF TypeOK, Finish, Goto

(* Taking a result on leaves the other processes alone.                        *)
LEMMA ReadsLocal ==
  ASSUME TypeOK, NEW p \in Procs, NEW label, NEW v, Reads(p, label, v)
  PROVE  /\ \A q \in Procs \ {p} : /\ pc'[q] = pc[q] /\ task'[q] = task[q]
                                   /\ val'[q] = val[q]
         /\ pc'[p] = label /\ val'[p] = v /\ task'[p] = task[p]
BY DEF TypeOK, Reads, Goto

(* The requests.                                                               *)
LEMMA HandleProvenance ==
  ASSUME TypeOK, Provenance, HistoryStep, NEW h \in Handlers, Handle(h)
  PROVE  Provenance'
<1>1. h \in Procs
  BY DEF Procs
<1>2. \A op : ReadLabel \notin {"fill", "use"} /\ AfterInvalidation(op) \notin {"fill", "use"}
                /\ WrittenLabel(op) \notin {"fill", "use"}
  BY DEF ReadLabel, AfterInvalidation, WrittenLabel
<1>3. /\ \A q \in Procs \ {h} : /\ pc'[q] = pc[q] /\ task'[q] = task[q]
                                /\ val'[q] = val[q]
      /\ pc'[h] \notin {"fill", "use"}
      /\ UNCHANGED <<cache, routed, routedAt, todo>>
  <2>1. CASE Writing(h)
    <3>1. PICK id, table : id \in Ids /\ HandlerWrites(h, id, table)
      BY <2>1, WritingStep
    <3> QED BY <1>1, <1>2, <3>1 DEF HandlerWrites, AfterWrite, Goto, TypeOK
  <2>2. CASE GetService(h) \/ ListServices(h) \/ RefreshService(h)
    BY <1>1, <1>2, <2>2
    DEF GetService, ListServices, RefreshService, StartRead, Goto, TypeOK
  <2>3. CASE RefreshGivesUp(h)
    BY <1>1, <2>3, FinishLocal DEF RefreshGivesUp
  <2>4. CASE DelsCancelled(h)
    BY <1>1, <1>2, <2>4 DEF DelsCancelled, Goto, TypeOK
  <2> QED BY <2>1, <2>2, <2>3, <2>4 DEF Handle, Writing
<1>4. CachedRead' /\ RoutedRead' /\ TodoRead'
  BY <1>3, CachedStep, RoutedStep, TodoStep
<1>5. CarriedRead'
  BY <1>1, <1>3, CarriedStep
<1> QED BY <1>4, <1>5 DEF Provenance

(* The reads: rows come from the current table or from the cache, and Fill     *)
(* stores them under the key they were read for.                               *)
LEMMA ReadProvenance ==
  ASSUME TypeOK, Provenance, HistoryStep, NEW p \in Procs,
         \/ CacheHit(p) \/ CacheMiss(p) \/ Select(p) \/ SelectTruncated(p)
         \/ SelectFails(p) \/ Fill(p)
  PROVE  Provenance'
<1>1. UNCHANGED <<history, routed, routedAt, todo>>
  BY DEF CacheHit, CacheMiss, Select, SelectTruncated, SelectFails, Fill
<1>2. RoutedRead' /\ TodoRead'
  BY <1>1, RoutedStep, TodoStep
<1>3. task[p].key \in Keys /\ Len(history) \in DOMAIN history
  BY ServicesIsTable DEF TypeOK, Task
<1>4. CASE CacheHit(p)
  <2>1. ReadOf(task[p].key, cache[task[p].key].rows, cache[task[p].key].at)
    BY <1>3, <1>4 DEF CacheHit, Provenance, CachedRead
  <2>2. CarriedRead'
    BY <1>1, <1>4, <2>1, ReadsLocal, CarriedStep DEF CacheHit, ReadOf
  <2> QED BY <1>2, <1>4, <2>2, CachedStep DEF CacheHit, Provenance
<1>5. CASE CacheMiss(p)
  <2>1. CarriedRead'
    BY <1>5, ReadsLocal, CarriedStep DEF CacheMiss
  <2> QED BY <1>2, <1>5, <2>1, CachedStep DEF CacheMiss, Provenance
<1>6. ASSUME NEW rows, rows \subseteq View(task[p].key, services),
             Reads(p, AfterSelect, [rows |-> rows, at |-> Len(history)])
      PROVE  CarriedRead'
  <2>1. \A q \in Procs \ {p} : /\ pc'[q] = pc[q] /\ task'[q] = task[q]
                               /\ val'[q] = val[q]
    BY <1>6, ReadsLocal
  <2>2. val'[p].rows = rows /\ val'[p].at = Len(history) /\ task'[p] = task[p]
    BY <1>6, ReadsLocal
  <2> QED BY <1>1, <1>3, <1>6, <2>1, <2>2, CarriedStep DEF services
<1>7. CASE Select(p)
  <2>1. ASSUME Finish(p)
        PROVE  CarriedRead'
    BY <2>1, FinishLocal, CarriedStep
  <2>2. CarriedRead'
    BY <1>6, <1>7, <2>1 DEF Select
  <2> QED BY <1>2, <1>7, <2>2, CachedStep DEF Select, Provenance
<1>8. CASE SelectTruncated(p)
  BY <1>2, <1>6, <1>8, CachedStep DEF SelectTruncated, Provenance
<1>9. CASE SelectFails(p)
  BY <1>2, <1>9, FinishLocal, CarriedStep, CachedStep DEF SelectFails, Provenance
<1>10. CASE Fill(p)
  <2>1. ReadOf(task[p].key, val[p].rows, val[p].at)
    BY <1>10 DEF Fill, Provenance, CarriedRead
  <2>2. CarriedRead'
    BY <1>1, <1>10, <2>1, ReadsLocal, CarriedStep DEF Fill, ReadOf
  <2>3. CachedRead'
    <3>1. \A k \in Keys : cache'[k] = cache[k] \/ (k = task[p].key /\ cache'[k] = val[p])
      BY <1>3, <1>10 DEF Fill, TypeOK
    <3> QED BY <1>1, <2>1, <3>1 DEF Provenance, CachedRead, ReadOf
  <2> QED BY <1>2, <2>2, <2>3 DEF Provenance
<1> QED BY <1>4, <1>5, <1>7, <1>8, <1>9, <1>10

(* What is done with them.                                                     *)
LEMMA UseProvenance ==
  ASSUME TypeOK, Provenance, HistoryStep, NEW p \in Procs,
         \/ InstallRegistry(p) \/ AnswerRead(p) \/ CommitUnanswered(p)
         \/ DelEnabled(p) \/ DelList(p) \/ DelItem(p)
  PROVE  Provenance'
<1>1. CASE InstallRegistry(p)
  <2>1. task[p].key = "enabled"
    BY <1>1 DEF InstallRegistry, TypeOK, Task
  <2>2. ReadOf("enabled", val[p].rows, val[p].at)
    BY <1>1, <2>1 DEF InstallRegistry, Provenance, CarriedRead
  <2>3. RoutedRead'
    BY <1>1, <2>2 DEF InstallRegistry, RoutedRead, ReadOf
  <2>4. CarriedRead'
    BY <1>1, FinishLocal, CarriedStep DEF InstallRegistry
  <2> QED BY <1>1, <2>3, <2>4, CachedStep, TodoStep DEF InstallRegistry, Provenance
<1>2. CASE AnswerRead(p)
  BY <1>2, FinishLocal, CarriedStep, CachedStep, RoutedStep, TodoStep
  DEF AnswerRead, Provenance
<1>3. CASE CommitUnanswered(p)
  <2>1. CarriedRead'
    BY <1>3, FinishLocal, ReadsLocal, CarriedStep DEF CommitUnanswered
  <2> QED BY <1>3, <2>1, CachedStep, RoutedStep, TodoStep DEF CommitUnanswered, Provenance
<1>4. ASSUME NEW label, NEW key, NEW next, next \notin {"fill", "use"},
             Del(p, label, key, next)
      PROVE  Provenance'
  <2>1. \A k \in Keys : cache'[k] = cache[k] \/ cache'[k] = Absent
    BY <1>4 DEF Del, TypeOK
  <2>2. /\ \A q \in Procs \ {p} : /\ pc'[q] = pc[q] /\ task'[q] = task[q]
                                  /\ val'[q] = val[q]
        /\ pc'[p] = next
    BY <1>4 DEF Del, Goto, TypeOK
  <2>3. CarriedRead'
    BY <1>4, <2>2, CarriedStep
  <2> QED BY <1>4, <2>1, <2>3, CachedStep, RoutedStep, TodoStep DEF Del, Provenance
<1>5. CASE DelEnabled(p) \/ DelList(p) \/ DelItem(p)
  BY <1>4, <1>5 DEF DelEnabled, DelList, DelItem, AfterInvalidation, ReadLabel
<1> QED BY <1>1, <1>2, <1>3, <1>5

(* A process that is started again carries nothing.                            *)
LEMMA RestartProvenance ==
  ASSUME TypeOK, Provenance, HistoryStep, Restarted
  PROVE  Provenance'
<1>1. CarriedRead' /\ RoutedRead'
  BY DEF Restarted, BootPc, ReadLabel, CarriedRead, RoutedRead
<1>2. CachedRead' /\ TodoRead'
  BY CachedStep, TodoStep DEF Restarted
<1> QED BY <1>1, <1>2 DEF Provenance

(* The checker works on the list it read.                                      *)
LEMMA CheckProvenance ==
  ASSUME TypeOK, Provenance, HistoryStep, Check
  PROVE  Provenance'
<1>1. Main \in Procs
  BY DEF Procs
<1>2. CASE Tick
  <2>1. CarriedRead'
    BY <1>1, <1>2, CarriedStep DEF Tick, StartRead, Goto, ReadLabel, TypeOK
  <2> QED BY <1>2, <2>1, CachedStep, RoutedStep, TodoStep DEF Tick, StartRead, Provenance
<1>3. CASE StartRound
  <2>1. CarriedRead'
    BY <1>1, <1>3, ReadsLocal, CarriedStep DEF StartRound
  <2>2. ReadOf("list", val[Main].rows, val[Main].at)
    <3>1. task[Main].key = "list"
      BY <1>1, <1>3 DEF StartRound, TypeOK, Task
    <3> QED BY <1>1, <1>3, <3>1 DEF StartRound, Provenance, CarriedRead
  <2>3. TodoRead'
    BY <1>3, <2>2 DEF StartRound, TodoRead, ReadOf, View
  <2> QED BY <1>3, <2>1, <2>3, CachedStep, RoutedStep DEF StartRound, Provenance
<1>4. CASE EndRound
  <2>1. CarriedRead'
    BY <1>1, <1>4, FinishLocal, CarriedStep DEF EndRound
  <2> QED BY <1>4, <2>1, CachedStep, RoutedStep, TodoStep DEF EndRound, Provenance
<1>5. ASSUME NEW s \in todo, NEW outcome \in {"Healthy", "Unhealthy"}, Probe(s, outcome)
      PROVE  Provenance'
  <2>1. todo' \subseteq todo /\ val' = val
    BY <1>5 DEF Probe
  <2>2. UNCHANGED <<cache, routed, routedAt>>
    BY <1>5, ProbeStep DEF AfterWrite
  <2>3. CarriedRead'
    <3>1. CASE UNCHANGED <<history, cache, routed, routedAt, task, pc>>
      BY <2>1, <3>1 DEF Provenance, CarriedRead, ReadOf
    <3>2. ASSUME NEW t \in Task, NEW table, AfterWrite(Main, t, table),
                 Goto(Main, WrittenLabel("health"))
          PROVE  CarriedRead'
      <4>1. pc'[Main] \notin {"fill", "use"}
        BY <1>1, <3>2 DEF Goto, WrittenLabel, AfterInvalidation, ReadLabel, TypeOK
      <4>2. \A q \in Procs \ {Main} : /\ pc'[q] = pc[q] /\ task'[q] = task[q]
                                      /\ val'[q] = val[q]
        BY <1>1, <2>1, <3>2 DEF Goto, AfterWrite, TypeOK
      <4> QED BY <1>1, <4>1, <4>2, CarriedStep
    <3> QED BY <1>5, <3>1, <3>2, ProbeStep
  <2> QED BY <2>1, <2>2, <2>3, CachedStep, RoutedStep, TodoStep DEF Provenance
<1>6. ASSUME NEW s \in todo, ProbePanics(s)
      PROVE  Provenance'
  BY <1>6, RestartProvenance DEF ProbePanics
<1> QED BY <1>2, <1>3, <1>4, <1>5, <1>6 DEF Check

(* Provenance holds at the start,                                              *)
LEMMA InitProvenance == Init => Provenance
<1> SUFFICES ASSUME Init PROVE Provenance
  OBVIOUS
<1>1. CachedRead /\ RoutedRead /\ TodoRead
  BY DEF Init, CachedRead, RoutedRead, TodoRead
<1>2. CarriedRead
  BY DEF Init, BootPc, ReadLabel, CarriedRead
<1> QED BY <1>1, <1>2 DEF Provenance

(* and every step keeps it.                                                    *)
LEMMA NextProvenance ==
  ASSUME TypeOK, Provenance, [Next]_vars
  PROVE  Provenance'
<1>1. HistoryStep
  BY NextHistory
<1>2. CASE \E p \in Procs : Proceed(p)
  BY <1>1, <1>2, ReadProvenance, UseProvenance DEF Proceed
<1>3. CASE \E h \in Handlers : Handle(h)
  BY <1>1, <1>3, HandleProvenance
<1>4. CASE Check
  BY <1>1, <1>4, CheckProvenance
<1>5. ASSUME NEW k \in Keys, Expire(k)
      PROVE  Provenance'
  <2>1. CachedRead'
    BY <1>1, <1>5, CachedStep DEF Expire, TypeOK
  <2> QED BY <1>5, <2>1 DEF Expire, Provenance, CarriedRead, RoutedRead, TodoRead, ReadOf
<1>6. CASE Crash
  BY <1>1, <1>6, RestartProvenance DEF Crash
<1>7. CASE UNCHANGED vars
  BY <1>7 DEF vars, Provenance, CachedRead, CarriedRead, RoutedRead, TodoRead, ReadOf
<1> QED BY <1>2, <1>3, <1>4, <1>5, <1>6, <1>7 DEF Next

(* Provenance: cache entries, the rows processes carry, those the checker has  *)
(* yet to probe and the registry each come from one committed table, through   *)
(* every interleaving, fault, expiry and restart.                              *)
THEOREM ReadsHaveProvenance == Spec => []Provenance
<1>1. Init => TypeOK /\ Provenance
  BY InitType, InitProvenance
<1>2. TypeOK /\ Provenance /\ [Next]_vars => (TypeOK /\ Provenance)'
  BY NextType, NextProvenance
<1> QED BY <1>1, <1>2, PTL DEF Spec

(* byPrefix has one service per prefix, so that Registry.Set drops none.       *)
THEOREM RoutedPrefixesDistinct == Spec => []PrefixesDistinct
<1>1. TypeOK /\ Provenance => PrefixesDistinct
  <2> SUFFICES ASSUME TypeOK, Provenance, NEW s \in routed, NEW t \in routed,
                      s.prefix = t.prefix
               PROVE  s = t
    BY DEF PrefixesDistinct
  <2>1. routedAt \in DOMAIN history /\ routed \subseteq EnabledView(history[routedAt])
    BY DEF Provenance, RoutedRead, ReadOf, View
  <2>2. IsTable(history[routedAt])
    BY <2>1 DEF TypeOK
  <2>3. PICK u \in history[routedAt] : s = [u EXCEPT !.doc = NoDoc, !.status = "none"]
    BY <2>1 DEF EnabledView
  <2>4. PICK v \in history[routedAt] : t = [v EXCEPT !.doc = NoDoc, !.status = "none"]
    BY <2>1 DEF EnabledView
  <2>5. u.prefix = s.prefix /\ v.prefix = t.prefix
    BY <2>2, <2>3, <2>4 DEF Service
  <2>6. u = v
    BY <2>2, <2>5
  <2> QED BY <2>3, <2>4, <2>6
<1> QED BY <1>1, TypeCorrect, ReadsHaveProvenance, PTL

-----------------------------------------------------------------------------
(* Deleted services, refinement, and the reload after a write.                 *)

(* A deleted service never comes back: the one id an INSERT brings is new, and *)
(* the late UPDATE of a refresh or a probe finds no row to write.              *)
THEOREM DeletedStaysDeleted == Spec => []NoResurrection
<1>1. Init => NoResurrection
  BY DEF Init, NoResurrection
<1>2. TypeOK /\ NoResurrection /\ HistoryStep => NoResurrection'
  <2> SUFFICES ASSUME TypeOK, NoResurrection, HistoryStep,
                      NEW i \in DOMAIN history', NEW j \in DOMAIN history',
                      NEW k \in DOMAIN history', i < j, j < k,
                      NEW id \in IdsIn(history'[i]) \cap IdsIn(history'[k])
               PROVE  id \in IdsIn(history'[j])
    BY DEF NoResurrection
  <2>1. CASE UNCHANGED history
    BY <2>1 DEF NoResurrection
  <2>2. ASSUME NEW table, Successor(table), history' = Append(history, table)
        PROVE  id \in IdsIn(history'[j])
    <3>1. history \in Seq(SUBSET Service) /\ table \in SUBSET Service
      BY <2>2 DEF TypeOK, Successor
    <3>2. /\ Len(history) \in Nat /\ DOMAIN history = 1..Len(history)
          /\ DOMAIN history' = 1..(Len(history) + 1)
          /\ history'[Len(history) + 1] = table
          /\ \A n \in 1..Len(history) : history'[n] = history[n]
      BY <2>2, <3>1
    <3>3. i \in DOMAIN history /\ j \in DOMAIN history
      BY <3>2
    <3>4. CASE k \in DOMAIN history
      BY <3>2, <3>3, <3>4 DEF NoResurrection
    <3>5. CASE k = Len(history) + 1
      <4>1. id \in UsedIds
        BY <3>2, <3>3 DEF UsedIds
      <4>2. id \in IdsIn(services)
        BY <2>2, <3>2, <3>5, <4>1 DEF Successor
      <4>3. CASE j = Len(history)
        BY <3>2, <4>2, <4>3 DEF services
      <4>4. CASE j < Len(history)
        <5>1. Len(history) \in DOMAIN history
          BY <3>2, <3>3
        <5> QED BY <3>2, <3>3, <4>2, <4>4, <5>1 DEF NoResurrection, services
      <4> QED BY <3>2, <3>3, <4>3, <4>4
    <3> QED BY <3>2, <3>4, <3>5
  <2> QED BY <2>1, <2>2 DEF HistoryStep
<1>3. TypeOK /\ [Next]_vars => HistoryStep
  BY NextHistory
<1> QED BY <1>1, <1>2, <1>3, TypeCorrect, PTL DEF Spec

(* Every step maps to a commit, a load, a restart or a stutter.                *)
LEMMA NextRefines ==
  ASSUME TypeOK, Provenance, [Next]_vars
  PROVE  [Routing!Next]_<<history, routed>>
<1> USE DEF Routing!Next, Routing!Commit, Routing!Install, Routing!Restart
<1>1. HistoryStep
  BY NextHistory
<1>2. ASSUME NEW table, Successor(table), history' = Append(history, table), UNCHANGED routed
      PROVE  Routing!Commit
  <2>1. history \in Seq(SUBSET Service) /\ table \in SUBSET Service
    BY <1>2 DEF TypeOK, Successor
  <2>2. Len(history') = Len(history) + 1 /\ history'[Len(history')] = table
    BY <1>2, <2>1
  <2> QED BY <1>2, <2>2 DEF Successor, Routing!IsTable, Service, Routing!Service,
          Docs, Routing!Docs, Statuses, Routing!Statuses
<1>3. CASE UNCHANGED history
  <2>1. ASSUME NEW p \in Procs, InstallRegistry(p)
        PROVE  Routing!Install
    <3>1. task[p].key = "enabled"
      BY <2>1 DEF InstallRegistry, TypeOK, Task
    <3>2. ReadOf("enabled", val[p].rows, val[p].at)
      BY <2>1, <3>1 DEF InstallRegistry, Provenance, CarriedRead
    <3>3. val[p].at \in 1..Len(history) /\ routed' \subseteq EnabledView(history[val[p].at])
      BY <2>1, <3>2 DEF InstallRegistry, ReadOf, View, TypeOK
    <3> QED BY <1>3, <3>3 DEF EnabledView, Routing!EnabledView
  <2>2. ASSUME NEW p \in Procs, Proceed(p), ~InstallRegistry(p)
        PROVE  UNCHANGED routed
    BY <2>2 DEF Proceed, CacheHit, CacheMiss, Select, SelectTruncated, SelectFails, Fill,
       AnswerRead, DelEnabled, DelList, DelItem, Del, CommitUnanswered
  <2>3. ASSUME NEW h \in Handlers, Handle(h)
        PROVE  UNCHANGED routed
    BY <2>3, WritingStep DEF Handle, Writing, HandlerWrites, AfterWrite, GetService,
       ListServices, RefreshService, StartRead, RefreshGivesUp, DelsCancelled
  <2>4. ASSUME Restarted
        PROVE  Routing!Restart
    BY <1>3, <2>4 DEF Restarted
  <2>5. ASSUME Check
        PROVE  UNCHANGED routed \/ Restarted
    <3>1. ASSUME NEW s \in todo, NEW outcome \in {"Healthy", "Unhealthy"}, Probe(s, outcome)
          PROVE  UNCHANGED routed
      BY <3>1, ProbeStep DEF AfterWrite
    <3> QED BY <2>5, <3>1 DEF Check, Tick, StartRead, StartRound, EndRound, ProbePanics
  <2>6. CASE (\E k \in Keys : Expire(k)) \/ UNCHANGED vars
    BY <2>6 DEF Expire, vars
  <2> QED BY <1>3, <2>1, <2>2, <2>3, <2>4, <2>5, <2>6 DEF Next, Crash
<1> QED BY <1>1, <1>2, <1>3 DEF HistoryStep

(* The gateway implements the abstract routing: whatever handlers, checker,    *)
(* cache, faults and restarts do, the registry is only ever replaced by        *)
(* enabled rows of one committed table or forgotten.                           *)
THEOREM GatewayRefines == Spec => ImplementsSnapshotRouting
<1>1. Init => Routing!Init
  BY DEF Init, Routing!Init
<1>2. TypeOK /\ Provenance /\ [Next]_vars => [Routing!Next]_<<history, routed>>
  BY NextRefines
<1> QED BY <1>1, <1>2, TypeCorrect, ReadsHaveProvenance, PTL
    DEF Spec, ImplementsSnapshotRouting, Routing!Spec

-----------------------------------------------------------------------------
(* Without the cache a reload reads the database after the write it follows.   *)

(* No version is named that is not committed yet, no process is in a step of   *)
(* the cache, and rows in hand are no older than the write of the same task.   *)
Uncached ==
  /\ \A p \in Procs : task[p].wrote <= Len(history)
  /\ \A p \in Procs : pc[p] \in {"idle", "select", "use", "probe"}
  /\ \A p \in Procs : pc[p] = "use" => val[p].at >= task[p].wrote

(* Without a cache, a step of one process keeps what its reads promise,        *)
LEMMA UncachedStep ==
  ASSUME ~UseCache, TypeOK, HistoryStep, Uncached, NEW p \in Procs,
         \A q \in Procs \ {p} : pc'[q] = pc[q] /\ task'[q] = task[q] /\ val'[q] = val[q],
         task'[p].wrote <= Len(history'),
         \/ pc'[p] \in {"idle", "select", "probe"}
         \/ pc'[p] = "use" /\ val'[p].at >= task'[p].wrote
  PROVE  Uncached'
<1>1. Len(history) \in Nat /\ Len(history') \in Nat /\ Len(history) <= Len(history')
  <2>1. CASE UNCHANGED history
    BY <2>1 DEF TypeOK
  <2>2. ASSUME NEW table, Successor(table), history' = Append(history, table)
        PROVE  Len(history) \in Nat /\ Len(history') = Len(history) + 1
    BY <2>2 DEF TypeOK, Successor
  <2> QED BY <2>1, <2>2 DEF HistoryStep, TypeOK
<1>2. \A q \in Procs : task[q].wrote \in Nat
  BY DEF TypeOK, Task
<1> QED BY <1>1, <1>2 DEF Uncached

(* and so does every step of the gateway.                                      *)
LEMMA UncachedNext ==
  ASSUME ~UseCache, TypeOK, Uncached, [Next]_vars
  PROVE  Uncached'
<1>1. HistoryStep
  BY NextHistory
<1>2. /\ Len(history) \in Nat /\ Main \in Procs /\ Handlers \subseteq Procs
      /\ \A p \in Procs : task[p].wrote \in Nat /\ task[p].wrote <= Len(history)
  BY DEF TypeOK, Task, Uncached, Procs
<1>3. /\ InitialTask.wrote = 0 /\ BootTask.wrote = 0
      /\ ReadLabel = "select" /\ AfterSelect = "use"
      /\ WrittenLabel("reload") = "select" /\ WrittenLabel("health") = "probe"
  BY DEF InitialTask, BootTask, ReadLabel, AfterSelect, WrittenLabel, AfterInvalidation
<1>4. ASSUME NEW p \in Procs, Finish(p), UNCHANGED history
      PROVE  Uncached'
  <2>1. task'[p].wrote = 0
    BY <1>3, <1>4 DEF Finish, TypeOK
  <2> QED BY <1>1, <1>2, <1>4, <2>1, FinishLocal, UncachedStep
<1>5. ASSUME NEW p \in Procs, Proceed(p)
      PROVE  Uncached'
  <2>1. pc[p] \in {"idle", "select", "use", "probe"}
    BY DEF Uncached
  <2>2. CASE SelectFails(p) \/ InstallRegistry(p) \/ AnswerRead(p)
    BY <1>4, <2>2 DEF SelectFails, InstallRegistry, AnswerRead
  <2>3. ASSUME NEW rows, Reads(p, AfterSelect, [rows |-> rows, at |-> Len(history)]),
               UNCHANGED history
        PROVE  Uncached'
    <3>1. /\ pc'[p] = "use" /\ val'[p].at = Len(history) /\ task'[p] = task[p]
      BY <1>3, <2>3, ReadsLocal
    <3> QED BY <1>1, <1>2, <2>3, <3>1, ReadsLocal, UncachedStep
  <2>4. CASE Select(p)
    BY <1>4, <2>3, <2>4 DEF Select
  <2>5. CASE SelectTruncated(p)
    BY <2>3, <2>5 DEF SelectTruncated
  <2> QED BY <1>5, <2>1, <2>2, <2>4, <2>5
      DEF Proceed, CacheHit, CacheMiss, Fill, DelEnabled, DelList, DelItem, Del,
          CommitUnanswered
<1>6. ASSUME NEW p \in Procs, NEW t \in Task, NEW table, Successor(table),
             AfterWrite(p, t, table)
      PROVE  task'[p].wrote = Len(history')
  BY <1>6 DEF AfterWrite, TypeOK, Task
<1>7. ASSUME NEW h \in Handlers, Handle(h)
      PROVE  Uncached'
  <2>1. CASE Writing(h)
    <3>1. PICK id, table : id \in Ids /\ Successor(table) /\ HandlerWrites(h, id, table)
      BY <2>1, WritingStep
    <3>2. task'[h].wrote = Len(history') /\ Len(history') \in Nat
      <4>1. task'[h].wrote = Len(history')
        BY <1>2, <1>6, <3>1, TaskTypes DEF HandlerWrites
      <4>2. TypeOK'
        BY <1>7, HandleType
      <4> QED BY <4>1, <4>2 DEF TypeOK
    <3>3. /\ \A q \in Procs \ {h} : /\ pc'[q] = pc[q] /\ task'[q] = task[q]
                                    /\ val'[q] = val[q]
          /\ pc'[h] = "select"
      BY <1>2, <1>3, <3>1 DEF HandlerWrites, AfterWrite, Goto, TypeOK
    <3> QED BY <1>1, <1>2, <3>2, <3>3, UncachedStep
  <2>2. CASE GetService(h) \/ ListServices(h) \/ RefreshService(h)
    <3>1. /\ \A q \in Procs \ {h} : /\ pc'[q] = pc[q] /\ task'[q] = task[q]
                                    /\ val'[q] = val[q]
          /\ pc'[h] = "select" /\ task'[h].wrote = 0 /\ UNCHANGED history
      BY <1>2, <1>3, <2>2
      DEF GetService, ListServices, RefreshService, StartRead, Goto, TypeOK
    <3> QED BY <1>1, <1>2, <3>1, UncachedStep
  <2>3. CASE RefreshGivesUp(h)
    BY <1>2, <1>4, <2>3 DEF RefreshGivesUp
  <2>4. ~DelsCancelled(h)
    BY <1>2 DEF DelsCancelled, Uncached
  <2> QED BY <1>7, <2>1, <2>2, <2>3, <2>4 DEF Handle, Writing
<1>8. ASSUME Restarted
      PROVE  Uncached'
  BY <1>2, <1>3, <1>8 DEF Restarted, BootPc, BootTasks, NothingRead, Uncached
<1>9. CASE Check
  <2>1. CASE Tick
    <3>1. /\ \A q \in Procs \ {Main} : /\ pc'[q] = pc[q] /\ task'[q] = task[q]
                                       /\ val'[q] = val[q]
          /\ pc'[Main] = "select" /\ task'[Main].wrote = 0 /\ UNCHANGED history
      BY <1>2, <1>3, <2>1 DEF Tick, StartRead, Goto, TypeOK
    <3> QED BY <1>1, <1>2, <3>1, UncachedStep
  <2>2. CASE StartRound
    <3>1. Reads(Main, "probe", Absent) /\ UNCHANGED history
      BY <2>2 DEF StartRound
    <3>2. pc'[Main] = "probe" /\ task'[Main] = task[Main]
      BY <1>2, <3>1, ReadsLocal
    <3> QED BY <1>1, <1>2, <3>1, <3>2, ReadsLocal, UncachedStep
  <2>3. CASE EndRound
    BY <1>2, <1>4, <2>3 DEF EndRound
  <2>4. ASSUME NEW s \in todo, NEW outcome \in {"Healthy", "Unhealthy"}, Probe(s, outcome)
        PROVE  Uncached'
    <3>1. val' = val /\ pc[Main] = "probe"
      BY <2>4 DEF Probe
    <3>2. CASE UNCHANGED <<history, cache, routed, routedAt, task, pc>>
      BY <3>1, <3>2 DEF Uncached
    <3>3. ASSUME NEW t \in Task, NEW table, Successor(table), AfterWrite(Main, t, table),
                 Goto(Main, WrittenLabel("health"))
          PROVE  Uncached'
      <4>1. task'[Main].wrote = Len(history')
        BY <1>2, <1>6, <3>3
      <4>2. Len(history') \in Nat
        BY <1>9, CheckType DEF TypeOK
      <4>3. /\ \A q \in Procs \ {Main} : /\ pc'[q] = pc[q] /\ task'[q] = task[q]
                                         /\ val'[q] = val[q]
            /\ pc'[Main] = "probe"
        BY <1>2, <1>3, <3>1, <3>3 DEF AfterWrite, Goto, TypeOK
      <4> QED BY <1>1, <1>2, <4>1, <4>2, <4>3, UncachedStep
    <3> QED BY <2>4, <3>2, <3>3, ProbeStep
  <2>5. ASSUME NEW s \in todo, ProbePanics(s)
        PROVE  Uncached'
    BY <1>8, <2>5 DEF ProbePanics
  <2> QED BY <1>9, <2>1, <2>2, <2>3, <2>4, <2>5 DEF Check
<1>10. CASE (\E k \in Keys : Expire(k)) \/ UNCHANGED vars
  BY <1>10 DEF Expire, vars, Uncached
<1> QED BY <1>5, <1>7, <1>8, <1>9, <1>10 DEF Next, Crash

(* Without REDIS_ADDR, what a handler loads into the registry after its write  *)
(* is no older than that write, whatever the other processes and faults do.    *)
THEOREM UncachedOwnWriteLoaded ==
  ASSUME ~UseCache
  PROVE  Spec => [](\A h \in Handlers : LoadsOwnWrite(h))
<1>1. Init => Uncached
  BY DEF Init, BootPc, BootTasks, NothingRead, BootTask, InitialTask, ReadLabel, Uncached
<1>2. TypeOK /\ Uncached /\ [Next]_vars => Uncached'
  BY UncachedNext
<1>3. Uncached => \A h \in Handlers : LoadsOwnWrite(h)
  BY DEF Uncached, LoadsOwnWrite, Procs
<1> QED BY <1>1, <1>2, <1>3, TypeCorrect, PTL DEF Spec

-----------------------------------------------------------------------------
(* Requests that come one at a time.                                           *)

(* Requests that come one at a time: no two handlers are busy.                 *)
OneAtATime ==
  \A g, h \in Handlers : pc[g] # "idle" /\ pc[h] # "idle" => g = h

(* Ticks, faults and crashes are counted, so that Undisturbed says that there  *)
(* was none.                                                                   *)
DisturbancesCounted == \A kind \in Costs \ {"write"} : Budget[kind] >= 0

Counted == \A kind \in Costs \ {"write"} : budget[kind] \in 0..Budget[kind]

Fresh(k) == cache[k] # Absent => cache[k].rows = View(k, services)

DelLabels == {"del_enabled", "del_list", "del_item"}

(* The keys p has changed the table under and not deleted yet.                 *)
Pending(p) ==
  CASE pc[p] = "del_enabled" -> {"enabled", "list", task[p].id}
    [] pc[p] = "del_list" -> {"list", task[p].id}
    [] pc[p] = "del_item" -> {task[p].id}
    [] OTHER -> {}

(* A request followed call by call: only the reload after a write deletes keys,*)
(* and rows in hand are those of the current table.                            *)
Followed(p) ==
  /\ pc[p] # "probe" /\ task[p].op # "health"
  /\ pc[p] = "idle" => task[p].op = "read"
  /\ pc[p] \in DelLabels => task[p].op = "reload"
  /\ pc[p] \in {"fill", "use"} => val[p].rows = View(task[p].key, services)
  /\ ~UseCache => pc[p] \in {"idle", "select", "use"}

(* The boot goes on while no handler is busy; what no process has yet to delete*)
(* is fresh, and unless one is about to load it the registry is current.       *)
SerialInv ==
  /\ \A p \in Procs : Followed(p)
  /\ pc[Main] # "idle" => task[Main].op = "reload" /\ \A h \in Handlers : pc[h] = "idle"
  /\ \A k \in Keys : (\A p \in Procs : k \notin Pending(p)) => Fresh(k)
  /\ (\A p \in Procs : task[p].op # "reload") => routed = EnabledView(services)
  /\ ~UseCache => \A k \in Keys : cache[k] = Absent

UndisturbedInv == Undisturbed => SerialInv

(* What is spent of a budget is never given back.                              *)
LEMMA SpendCounted ==
  ASSUME TypeOK, DisturbancesCounted, Counted, NEW kind \in Costs,
         Spend(kind) \/ UNCHANGED budget
  PROVE  /\ Counted'
         /\ Undisturbed' => Undisturbed
         /\ Undisturbed' /\ kind # "write" => UNCHANGED budget
<1>1. /\ budget \in [Costs -> Int] /\ Budget \in [Costs -> Int]
      /\ \A k \in Costs \ {"write"} : budget[k] \in 0..Budget[k] /\ Budget[k] >= 0
  BY GatewayAssumption DEF TypeOK, DisturbancesCounted, Counted
<1>2. CASE UNCHANGED budget
  BY <1>2 DEF Counted, Undisturbed
<1>3. CASE Spend(kind)
  <2>1. \A k \in Costs \ {kind} : budget'[k] = budget[k]
    BY <1>1, <1>3 DEF Spend
  <2>2. CASE kind = "write"
    BY <1>1, <2>1, <2>2 DEF Counted, Undisturbed
  <2>3. CASE kind # "write"
    <3>1. budget[kind] > 0 /\ budget'[kind] = budget[kind] - 1
      BY <1>1, <1>3, <2>3 DEF Spend
    <3>2. ~Undisturbed'
      BY <1>1, <2>3, <3>1 DEF Undisturbed
    <3> QED BY <1>1, <2>1, <2>3, <3>1, <3>2 DEF Counted
  <2> QED BY <2>2, <2>3
<1> QED BY <1>2, <1>3

(* Every step but the writes of the handlers spends one of them or nothing.    *)
LEMMA NextSpends ==
  ASSUME TypeOK, [Next]_vars
  PROVE  \/ \E h \in Handlers : Writing(h) /\ Spend("write")
         \/ \E kind \in Costs \ {"write"} : Spend(kind) \/ UNCHANGED budget
<1> USE DEF Costs
<1>1. ASSUME NEW p \in Procs, Proceed(p)
      PROVE  Spend("fault") \/ UNCHANGED budget
  BY <1>1 DEF Proceed, CacheHit, CacheMiss, Select, SelectTruncated, SelectFails, Fill,
     InstallRegistry, AnswerRead, DelEnabled, DelList, DelItem, Del, CommitUnanswered
<1>2. ASSUME NEW h \in Handlers, Handle(h)
      PROVE  \/ Writing(h) /\ Spend("write")
             \/ Spend("fault") \/ UNCHANGED budget
  BY <1>2, WritingStep DEF Handle, Writing, HandlerWrites, GetService, ListServices,
     RefreshService, RefreshGivesUp, DelsCancelled
<1>3. Check => Spend("tick") \/ UNCHANGED budget
  BY DEF Check, Tick, StartRound, EndRound, Probe, ProbePanics
<1> QED BY <1>1, <1>2, <1>3 DEF Next, Crash, Expire, vars

(* A step of p that leaves the table alone.                                    *)
LEMMA FollowedStep ==
  ASSUME TypeOK, SerialInv, UNCHANGED history, NEW p \in Procs,
         \A q \in Procs \ {p} : pc'[q] = pc[q] /\ task'[q] = task[q] /\ val'[q] = val[q],
         Followed(p)',
         p = Main => pc'[p] = "idle" \/ (pc[p] # "idle" /\ task'[p] = task[p]),
         p \in Handlers => pc'[p] = "idle" \/ pc[p] # "idle" \/ pc[Main] = "idle",
         \A k \in Keys : \/ cache'[k] = cache[k]
                         \/ cache'[k] = Absent
                         \/ UseCache /\ cache'[k].rows = View(k, services),
         \A k \in Keys : k \in Pending(p) => k \in Pending(p)' \/ cache'[k] = Absent,
         task'[p].op # "reload" =>
           \/ routed' = EnabledView(services)
           \/ UNCHANGED routed /\ task[p].op # "reload"
  PROVE  SerialInv'
<1>1. UNCHANGED services
  BY DEF services
<1>2. \A q \in Procs : Followed(q)'
  BY <1>1 DEF SerialInv, Followed
<1>3. pc'[Main] # "idle" => task'[Main].op = "reload" /\ \A h \in Handlers : pc'[h] = "idle"
  BY GatewayAssumption DEF SerialInv, Procs
<1>4. ASSUME NEW k \in Keys, \A q \in Procs : k \notin Pending(q)'
      PROVE  Fresh(k)'
  <2>1. \A q \in Procs \ {p} : k \notin Pending(q)
    BY <1>4 DEF Pending
  <2>2. CASE k \in Pending(p)
    BY <1>4, <2>2 DEF Fresh
  <2>3. CASE k \notin Pending(p)
    BY <1>1, <2>1, <2>3 DEF SerialInv, Fresh
  <2> QED BY <2>2, <2>3
<1>5. (\A q \in Procs : task'[q].op # "reload") => routed' = EnabledView(services)
  BY DEF SerialInv
<1>6. ~UseCache => \A k \in Keys : cache'[k] = Absent
  BY DEF SerialInv
<1> QED BY <1>1, <1>2, <1>3, <1>4, <1>5, <1>6 DEF SerialInv

(* What a write changes: the views of lists and of its service, whose keys are *)
(* the first thing its handler deletes.                                        *)
LEMMA FollowedWrite ==
  ASSUME TypeOK, SerialInv, NEW h \in Handlers, Writing(h), OneAtATime'
  PROVE  SerialInv'
<1>1. PICK id, table :
        /\ id \in Ids /\ table \subseteq Service /\ HandlerWrites(h, id, table)
        /\ \A k \in Ids \ {id} : RowsOf(table, k) = RowsOf(services, k)
  BY WritingStep DEF Successor
<1>2. h \in Procs /\ h # Main /\ Main \in Procs
  BY GatewayAssumption DEF Procs
<1>3. pc[Main] = "idle"
  <2>1. (pc[h] = "idle" /\ ~Booting) \/ pc[h] = "use"
    BY WritingFrom
  <2> QED BY <2>1 DEF SerialInv, Booting
<1>4. services' = table
  <2>1. (history' = history /\ table = services) \/ history' = Append(history, table)
    BY <1>1 DEF HandlerWrites, AfterWrite
  <2>2. history \in Seq(SUBSET Service) /\ table \in SUBSET Service
    BY <1>1 DEF TypeOK
  <2> QED BY <2>1, <2>2 DEF services
<1>5. /\ pc' = [pc EXCEPT ![h] = WrittenLabel("reload")]
      /\ task'[h].op = "reload" /\ task'[h].id = id
      /\ \A q \in Procs \ {h} : task'[q] = task[q] /\ val'[q] = val[q]
      /\ UNCHANGED <<cache, routed>>
  BY <1>1, <1>2 DEF HandlerWrites, AfterWrite, Goto, ReloadTask, InitialTask, TypeOK
<1>6. /\ pc'[h] = IF UseCache THEN "del_enabled" ELSE "select"
      /\ \A q \in Procs \ {h} : pc'[q] = pc[q]
  BY <1>2, <1>5 DEF WrittenLabel, AfterInvalidation, ReadLabel, TypeOK
<1>7. \A q \in Procs \ {h} : pc'[q] = "idle" /\ pc[q] = "idle"
  BY <1>3, <1>6 DEF OneAtATime, Procs
<1>8. \A q \in Procs : Followed(q)'
  BY <1>5, <1>6, <1>7 DEF SerialInv, Followed, DelLabels
<1>9. ASSUME NEW k \in Keys, \A q \in Procs : k \notin Pending(q)'
      PROVE  Fresh(k)'
  <2>1. CASE UseCache
    <3>1. k \in Ids \ {id}
      BY <1>2, <1>5, <1>6, <1>9, <2>1 DEF Pending, Keys
    <3>2. View(k, services') = View(k, services)
      BY <1>1, <1>4, <3>1, GatewayAssumption DEF View, GetView
    <3>3. Fresh(k)
      <4>1. pc[h] \notin DelLabels
        BY WritingFrom DEF DelLabels
      <4>2. \A q \in Procs : k \notin Pending(q)
        BY <1>7, <4>1 DEF Pending, DelLabels
      <4> QED BY <4>2 DEF SerialInv
    <3> QED BY <1>5, <3>2, <3>3 DEF Fresh
  <2>2. CASE ~UseCache
    BY <1>5, <2>2 DEF SerialInv, Fresh
  <2> QED BY <2>1, <2>2
<1> QED BY <1>2, <1>3, <1>5, <1>6, <1>8, <1>9 DEF SerialInv

(* Without a tick, a failure or a crash nothing of the kind was spent.         *)
LEMMA NothingSpent ==
  ASSUME TypeOK, Counted, NEW kind \in Costs \ {"write"}, UNCHANGED budget
  PROVE  ~Spend(kind)
<1>1. budget[kind] \in 0..Budget[kind] /\ budget \in [Costs -> Int]
  BY DEF TypeOK, Counted
<1> QED BY <1>1, GatewayAssumption DEF Spend

(* The calls of a request or of the boot.                                      *)
LEMMA FollowedProceed ==
  ASSUME TypeOK, Counted, OneAtATime, SerialInv, UNCHANGED budget,
         NEW p \in Procs, Proceed(p)
  PROVE  SerialInv'
<1>1. ~Spend("fault")
  BY NothingSpent DEF Costs
<1>2. /\ Followed(p)
      /\ p = Main => pc[p] = "idle" \/ task[p].op = "reload"
  BY DEF SerialInv
<1>3. /\ task[p] \in Task /\ task[p].key \in Keys /\ pc[p] \in Labels
      /\ task \in [Procs -> Task] /\ cache \in [Keys -> Entry]
  BY DEF TypeOK, Task, Keys
<1>4. \A k \in Keys : k \in Pending(p) => pc[p] \in DelLabels
  BY DEF Pending, DelLabels
<1>5. /\ InitialTask.op = "read"
      /\ View("enabled", services) = EnabledView(services)
  BY DEF InitialTask, View
<1>6. ASSUME Finish(p), pc[p] # "idle", pc[p] \notin DelLabels, UNCHANGED <<history, cache>>,
             \/ routed' = EnabledView(services)
             \/ UNCHANGED routed /\ task[p].op # "reload"
      PROVE  SerialInv'
  <2>1. task'[p] = InitialTask /\ pc'[p] = "idle"
    BY <1>3, <1>6 DEF Finish, Goto, TypeOK
  <2>2. Followed(p)'
    BY <1>5, <2>1 DEF Followed, DelLabels
  <2> QED BY <1>4, <1>6, <2>1, <2>2, FinishLocal, FollowedStep
<1>7. ASSUME NEW label, NEW v, Reads(p, label, v), UNCHANGED <<history, routed>>,
             pc[p] # "idle", pc[p] \notin DelLabels,
             label \in {"select", "fill", "use"},
             label \in {"fill", "use"} => v.rows = View(task[p].key, services),
             ~UseCache => label # "fill",
             \A k \in Keys : \/ cache'[k] = cache[k]
                             \/ UseCache /\ cache'[k].rows = View(k, services)
      PROVE  SerialInv'
  <2>1. pc'[p] = label /\ val'[p] = v /\ task'[p] = task[p]
    BY <1>7, ReadsLocal
  <2>2. Followed(p)'
    <3>1. UNCHANGED services
      BY <1>7 DEF services
    <3> QED BY <1>2, <1>7, <2>1, <3>1 DEF Followed, DelLabels
  <2>3. task'[p].op # "reload" => UNCHANGED routed /\ task[p].op # "reload"
    BY <1>7, <2>1
  <2> QED BY <1>4, <1>7, <2>1, <2>2, <2>3, ReadsLocal, FollowedStep
<1>8. CASE CacheHit(p)
  <2>1. UseCache
    BY <1>2, <1>8 DEF CacheHit, Followed
  <2>2. \A q \in Procs : task[p].key \notin Pending(q)
    <3>1. \A q \in Procs \ {p} : pc[q] = "idle"
      BY <1>8 DEF CacheHit, OneAtATime, SerialInv, Procs
    <3> QED BY <1>8, <3>1 DEF CacheHit, Pending
  <2>3. cache[task[p].key].rows = View(task[p].key, services)
    BY <1>3, <1>8, <2>2 DEF CacheHit, SerialInv, Fresh
  <2> QED BY <1>7, <1>8, <2>3 DEF CacheHit, DelLabels
<1>9. CASE CacheMiss(p)
  <2> QED BY <1>1, <1>7, <1>9 DEF CacheMiss, DelLabels
<1>10. CASE Select(p)
  <2>1. pc[p] = "select" /\ UNCHANGED <<history, cache, routed>>
    BY <1>10 DEF Select
  <2>2. CASE Finish(p) /\ task[p].key \in Ids
    <3>1. task[p].op # "reload"
      BY <1>3, <2>2, GatewayAssumption DEF Task
    <3> QED BY <1>6, <2>1, <2>2, <3>1 DEF DelLabels
  <2>3. CASE Reads(p, AfterSelect,
                   [rows |-> View(task[p].key, services), at |-> Len(history)])
    BY <1>7, <2>1, <2>3 DEF AfterSelect, DelLabels
  <2> QED BY <1>10, <2>2, <2>3 DEF Select
<1>11. CASE Fill(p)
  <2>1. /\ pc[p] = "fill" /\ UNCHANGED <<history, routed>>
        /\ cache' = [cache EXCEPT ![task[p].key] = val[p]]
        /\ Reads(p, "use", val[p])
    BY <1>1, <1>11 DEF Fill
  <2>2. UseCache /\ val[p].rows = View(task[p].key, services)
    BY <1>2, <2>1 DEF Followed
  <2>3. \A k \in Keys : \/ cache'[k] = cache[k]
                        \/ UseCache /\ cache'[k].rows = View(k, services)
    BY <1>3, <2>1, <2>2
  <2> QED BY <1>7, <2>1, <2>2, <2>3 DEF DelLabels
<1>12. CASE InstallRegistry(p)
  <2>1. val[p].rows = EnabledView(services)
    BY <1>2, <1>3, <1>5, <1>12 DEF InstallRegistry, Followed, Task
  <2>2. \A s \in EnabledView(services) : s.enabled
    <3>1. services \subseteq Service
      BY ServicesIsTable
    <3> QED BY <3>1 DEF EnabledView, Service
  <2>3. routed' = EnabledView(services)
    BY <1>12, <2>1, <2>2 DEF InstallRegistry
  <2> QED BY <1>6, <1>12, <2>3 DEF InstallRegistry, DelLabels
<1>13. CASE AnswerRead(p)
  BY <1>6, <1>13 DEF AnswerRead, DelLabels
<1>14. ASSUME NEW key \in Keys, NEW next \in Labels, pc[p] \in DelLabels,
              Del(p, pc[p], key, next), next \notin {"idle", "fill", "use", "probe"},
              \A k \in Keys \ {key} : k \in Pending(p) => k \in Pending(p)'
       PROVE  SerialInv'
  <2>1. /\ cache' = [cache EXCEPT ![key] = Absent] /\ pc' = [pc EXCEPT ![p] = next]
        /\ UNCHANGED <<history, routed, task, val>>
    BY <1>1, <1>14 DEF Del, Goto
  <2>2. UseCache /\ pc[p] # "idle" /\ task[p].op = "reload"
    BY <1>2, <1>14 DEF Followed, DelLabels
  <2>3. pc'[p] = next /\ \A q \in Procs \ {p} : pc'[q] = pc[q]
    BY <2>1 DEF TypeOK
  <2>4. Followed(p)'
    BY <1>14, <2>1, <2>2, <2>3 DEF Followed
  <2> QED BY <1>3, <1>14, <2>1, <2>2, <2>3, <2>4, FollowedStep
<1>15. CASE DelEnabled(p) \/ DelList(p) \/ DelItem(p)
  <2>1. task[p].op = "reload"
    BY <1>2, <1>15 DEF DelEnabled, DelList, DelItem, Del, Followed, DelLabels
  <2>2. task' = task /\ AfterInvalidation(task[p].op) = ReadLabel /\ task[p].id \in Keys
    BY <1>3, <1>15, <2>1
    DEF DelEnabled, DelList, DelItem, Del, AfterInvalidation, Task, Keys
  <2>3. CASE DelEnabled(p)
    <3>1. pc'[p] = "del_list" /\ pc[p] = "del_enabled"
      BY <2>3 DEF DelEnabled, Del, Goto, TypeOK
    <3> QED BY <1>14, <2>2, <2>3, <3>1 DEF DelEnabled, Pending, Labels, Keys, DelLabels
  <2>4. CASE DelList(p)
    <3>1. pc'[p] = "del_item" /\ pc[p] = "del_list"
      BY <2>4 DEF DelList, Del, Goto, TypeOK
    <3> QED BY <1>14, <2>2, <2>4, <3>1 DEF DelList, Pending, Labels, Keys, DelLabels
  <2>5. CASE DelItem(p)
    <3>1. pc[p] = "del_item"
      BY <2>5 DEF DelItem, Del
    <3> QED BY <1>14, <2>2, <2>5, <3>1
        DEF DelItem, Pending, Labels, Keys, DelLabels, ReadLabel
  <2> QED BY <1>15, <2>3, <2>4, <2>5
<1> QED BY <1>1, <1>8, <1>9, <1>10, <1>11, <1>12, <1>13, <1>15
    DEF Proceed, SelectTruncated, SelectFails, CommitUnanswered

(* What a handler does besides writing.                                        *)
LEMMA FollowedHandle ==
  ASSUME TypeOK, Counted, SerialInv, UNCHANGED budget, NEW h \in Handlers, Handle(h),
         ~Writing(h)
  PROVE  SerialInv'
<1>1. h \in Procs /\ h # Main
  BY GatewayAssumption DEF Procs
<1>2. ~Spend("fault")
  BY NothingSpent DEF Costs
<1>3. ASSUME NEW op \in {"read", "refresh"}, NEW key, NEW id, StartRead(h, op, key, id),
             pc[h] = "idle", ~Booting
      PROVE  SerialInv'
  <2>1. pc[Main] = "idle"
    BY <1>3 DEF SerialInv, Booting
  <2>2. /\ \A q \in Procs \ {h} : pc'[q] = pc[q] /\ task'[q] = task[q] /\ val'[q] = val[q]
        /\ pc'[h] = ReadLabel /\ task'[h].op = op
        /\ UNCHANGED <<history, cache, routed>>
    BY <1>1, <1>3 DEF StartRead, Goto, TypeOK
  <2>3. Followed(h)'
    BY <1>3, <2>2 DEF Followed, ReadLabel, DelLabels
  <2>4. task[h].op # "reload" /\ Pending(h) = {}
    BY <1>1, <1>3 DEF SerialInv, Followed, Pending
  <2> QED BY <1>1, <1>3, <2>1, <2>2, <2>3, <2>4, FollowedStep
<1>4. CASE GetService(h) \/ ListServices(h) \/ RefreshService(h)
  BY <1>3, <1>4 DEF GetService, ListServices, RefreshService, Accepts
<1>5. CASE RefreshGivesUp(h)
  <2>1. /\ pc[h] = "use" /\ task[h].op = "refresh" /\ Finish(h)
        /\ UNCHANGED <<history, cache, routed>>
    BY <1>5 DEF RefreshGivesUp
  <2>2. task'[h] = InitialTask /\ pc'[h] = "idle"
    BY <1>1, <2>1 DEF Finish, Goto, TypeOK
  <2>3. Followed(h)' /\ Pending(h) = {}
    BY <2>1, <2>2 DEF Followed, DelLabels, InitialTask, Pending
  <2> QED BY <1>1, <2>1, <2>2, <2>3, FinishLocal, FollowedStep
<1> QED BY <1>2, <1>4, <1>5 DEF Handle, Writing, DelsCancelled

(* Every step.                                                                 *)
LEMMA UndisturbedNext ==
  ASSUME DisturbancesCounted, TypeOK, Counted, UndisturbedInv, OneAtATime, OneAtATime',
         [Next]_vars
  PROVE  Counted' /\ UndisturbedInv'
<1>1. /\ Counted'
      /\ Undisturbed' => Undisturbed
      /\ Undisturbed' => (\E h \in Handlers : Writing(h)) \/ UNCHANGED budget
  BY NextSpends, SpendCounted DEF Costs
<1> SUFFICES ASSUME Undisturbed' PROVE SerialInv'
  BY <1>1 DEF UndisturbedInv
<1>2. SerialInv /\ Main \in Procs
  BY <1>1 DEF UndisturbedInv, Procs
<1>3. ASSUME NEW h \in Handlers, Writing(h)
      PROVE  SerialInv'
  BY <1>2, <1>3, FollowedWrite
<1> SUFFICES ASSUME UNCHANGED budget, \A h \in Handlers : ~Writing(h)
             PROVE  SerialInv'
  BY <1>1, <1>3
<1>4. \A kind \in Costs \ {"write"} : ~Spend(kind)
  BY NothingSpent
<1>5. CASE \E p \in Procs : Proceed(p)
  BY <1>2, <1>5, FollowedProceed
<1>6. CASE \E h \in Handlers : Handle(h)
  BY <1>2, <1>6, FollowedHandle
<1>7. ~Check /\ ~Crash
  <2>1. pc[Main] # "probe" /\ task[Main].op # "health"
    BY <1>2 DEF SerialInv, Followed
  <2> QED BY <1>4, <2>1
      DEF Check, Crash, Tick, StartRound, EndRound, Probe, ProbePanics, Costs
<1>8. ASSUME NEW k \in Keys, Expire(k)
      PROVE  SerialInv'
  <2>1. /\ UNCHANGED <<history, routed, pc, task, val>>
        /\ \A j \in Keys : cache'[j] = cache[j] \/ cache'[j] = Absent
    BY <1>8 DEF Expire, TypeOK
  <2>2. Followed(Main)'
    BY <1>2, <2>1 DEF SerialInv, Followed, services
  <2>3. \A q \in Procs : Pending(q)' = Pending(q)
    BY <2>1 DEF Pending
  <2> QED BY <1>2, <2>1, <2>2, <2>3, FollowedStep DEF SerialInv
<1>9. CASE UNCHANGED vars
  <2> QED BY <1>2, <1>9 DEF SerialInv, Followed, Fresh, Pending, services, vars
<1> QED BY <1>5, <1>6, <1>7, <1>8, <1>9 DEF Next

(* The boot is followed, too.                                                  *)
LEMMA UndisturbedInit ==
  ASSUME DisturbancesCounted, Init
  PROVE  Counted /\ UndisturbedInv
<1>1. Counted
  BY GatewayAssumption DEF Init, DisturbancesCounted, Counted, Costs
<1>2. history = <<{}>> /\ services = {}
  BY DEF Init, services
<1>3. \A p \in Procs : Followed(p) /\ (p # Main => pc[p] = "idle")
  BY DEF Init, BootPc, BootTasks, BootTask, InitialTask, ReadLabel, Followed, DelLabels
<1>4. task[Main].op = "reload" /\ Main \in Procs
  BY DEF Init, BootTasks, BootTask, InitialTask, Procs
<1>5. \A k \in Keys : cache[k] = Absent
  BY DEF Init
<1> QED BY <1>1, <1>3, <1>4, <1>5, GatewayAssumption
    DEF UndisturbedInv, SerialInv, Fresh, Procs

(* While requests come one at a time, up to the first tick, failure or crash,  *)
(* the registry routes by the current table whenever nothing goes on.          *)
THEOREM SerialRoutingCurrent ==
  ASSUME DisturbancesCounted
  PROVE  Spec /\ []OneAtATime => []RoutingCurrent
<1>1. Init => Counted /\ UndisturbedInv
  BY UndisturbedInit
<1>2. TypeOK /\ Counted /\ UndisturbedInv /\ OneAtATime /\ OneAtATime' /\ [Next]_vars
        => Counted' /\ UndisturbedInv'
  BY UndisturbedNext
<1>3. UndisturbedInv => RoutingCurrent
  BY DEF UndisturbedInv, SerialInv, RoutingCurrent, Followed, Quiet
<1> QED BY <1>1, <1>2, <1>3, TypeCorrect, PTL DEF Spec

(* And what is cached then is what the database would answer.                  *)
THEOREM SerialCacheFresh ==
  ASSUME DisturbancesCounted
  PROVE  Spec /\ []OneAtATime => []CacheFresh
<1>1. Init => Counted /\ UndisturbedInv
  BY UndisturbedInit
<1>2. TypeOK /\ Counted /\ UndisturbedInv /\ OneAtATime /\ OneAtATime' /\ [Next]_vars
        => Counted' /\ UndisturbedInv'
  BY UndisturbedNext
<1>3. UndisturbedInv => CacheFresh
  BY DEF UndisturbedInv, SerialInv, CacheFresh, Pending, Fresh, Quiet
<1> QED BY <1>1, <1>2, <1>3, TypeCorrect, PTL DEF Spec

-----------------------------------------------------------------------------
(* A handler's own write and its reload, with the cache.                       *)

(* h finds no list in the cache, and has none in hand, that is older than its  *)
(* write, from its first DEL on.                                               *)
OwnWriteCarried(h) ==
  task[h].op = "reload" =>
    /\ pc[h] \in {"del_list", "del_item", "lookup"} =>
         (cache["enabled"] # Absent => cache["enabled"].at >= task[h].wrote)
    /\ pc[h] \in {"fill", "use"} => val[h].at >= task[h].wrote

(* Only reloads load the list of the enabled services, and while the boot does *)
(* no handler is busy.                                                         *)
LoadInv ==
  /\ \A p \in Procs : /\ task[p].wrote <= Len(history)
                      /\ task[p].key = "enabled" => task[p].op = "reload"
  /\ Booting => \A h \in Handlers : pc[h] = "idle"
  /\ \A h \in Handlers : OwnWriteCarried(h)

(* A step of p; the entry of the list is stored while no other handler is busy.*)
LEMMA LoadStep ==
  ASSUME TypeOK, LoadInv, HistoryStep, NEW p \in Procs,
         \A q \in Procs \ {p} : pc'[q] = pc[q] /\ task'[q] = task[q] /\ val'[q] = val[q],
         task'[p].wrote <= Len(history'),
         task'[p].key = "enabled" => task'[p].op = "reload",
         p = Main => pc'[p] = "idle" \/ task'[p].op # "reload" \/ Booting,
         p \in Handlers => pc'[p] = "idle" \/ pc[p] # "idle" \/ ~Booting,
         \/ cache'["enabled"] = cache["enabled"]
         \/ cache'["enabled"] = Absent
         \/ \A h \in Handlers \ {p} : pc[h] = "idle",
         p \in Handlers => OwnWriteCarried(p)'
  PROVE  LoadInv'
<1>1. Len(history) \in Nat /\ Len(history') \in Nat /\ Len(history) <= Len(history')
  <2>1. CASE UNCHANGED history
    BY <2>1 DEF TypeOK
  <2>2. ASSUME NEW table, Successor(table), history' = Append(history, table)
        PROVE  Len(history) \in Nat /\ Len(history') = Len(history) + 1
    BY <2>2 DEF TypeOK, Successor
  <2> QED BY <2>1, <2>2 DEF HistoryStep, TypeOK
<1>2. \A q \in Procs : task[q].wrote \in Nat
  BY DEF TypeOK, Task
<1>3. \A q \in Procs : /\ task'[q].wrote <= Len(history')
                       /\ task'[q].key = "enabled" => task'[q].op = "reload"
  BY <1>1, <1>2 DEF LoadInv
<1>4. Booting' => \A h \in Handlers : pc'[h] = "idle"
  <2>1. Main \in Procs /\ Handlers \subseteq Procs /\ Main \notin Handlers
    BY GatewayAssumption DEF Procs
  <2> QED BY <2>1 DEF LoadInv, Booting
<1>5. ASSUME NEW h \in Handlers
      PROVE  OwnWriteCarried(h)'
  <2>1. CASE h = p
    BY <2>1
  <2>2. CASE h # p
    <3>1. pc'[h] = pc[h] /\ task'[h] = task[h] /\ val'[h] = val[h]
      BY <2>2 DEF Procs
    <3> QED BY <2>2, <3>1 DEF LoadInv, OwnWriteCarried
  <2> QED BY <2>1, <2>2
<1> QED BY <1>3, <1>4, <1>5 DEF LoadInv

(* Every step keeps it but a call that fails.                                  *)
LEMMA LoadNext ==
  ASSUME TypeOK, LoadInv, OneAtATime, [Next]_vars, ~Spend("fault")
  PROVE  LoadInv'
<1>1. HistoryStep /\ ~Spend("fault")
  BY NextHistory
<1>2. /\ Len(history) \in Nat /\ Main \in Procs /\ Handlers \subseteq Procs
      /\ Main \notin Handlers
      /\ \A p \in Procs : /\ task[p] \in Task /\ task[p].wrote \in Nat
                          /\ task[p].wrote <= Len(history)
                          /\ task[p].key = "enabled" => task[p].op = "reload"
  BY GatewayAssumption DEF TypeOK, Task, LoadInv, Procs
<1>3. /\ InitialTask.wrote = 0 /\ InitialTask.op = "read" /\ InitialTask.key = "list"
      /\ BootTask.wrote = 0 /\ BootTask.op = "reload"
      /\ "enabled" \in Keys /\ "enabled" \notin Ids
  BY GatewayAssumption DEF InitialTask, BootTask, Keys
<1>4. \A h \in Handlers : OwnWriteCarried(h)
  BY DEF LoadInv
<1>5. ASSUME NEW p \in Procs, Finish(p), UNCHANGED <<history, cache, budget>>
      PROVE  LoadInv'
  <2>1. task'[p] = InitialTask /\ pc'[p] = "idle"
    BY <1>5 DEF Finish, Goto, TypeOK
  <2>2. p \in Handlers => OwnWriteCarried(p)'
    BY <1>3, <2>1 DEF OwnWriteCarried
  <2> QED BY <1>1, <1>2, <1>3, <1>5, <2>1, <2>2, FinishLocal, LoadStep
<1>6. ASSUME NEW p \in Procs, Proceed(p)
      PROVE  LoadInv'
  <2>1. ASSUME NEW label, NEW v, Reads(p, label, v), UNCHANGED <<history, budget>>,
               pc[p] # "idle",
               \/ cache'["enabled"] = cache["enabled"]
               \/ task[p].op = "reload",
               label \in {"fill", "use"} /\ task[p].op = "reload" /\ p \in Handlers
                  => v.at >= task[p].wrote,
               label \in {"select", "fill", "use"}
        PROVE  LoadInv'
    <3>1. pc'[p] = label /\ val'[p] = v /\ task'[p] = task[p]
      BY <2>1, ReadsLocal
    <3>2. \/ cache'["enabled"] = cache["enabled"]
          \/ \A h \in Handlers \ {p} : pc[h] = "idle"
      BY <1>2, <2>1 DEF OneAtATime, LoadInv, Booting, Procs
    <3>3. p \in Handlers => OwnWriteCarried(p)'
      BY <2>1, <3>1 DEF OwnWriteCarried
    <3>4. p = Main => pc'[p] = "idle" \/ task'[p].op # "reload" \/ Booting
      BY <2>1, <3>1 DEF Booting
    <3> QED BY <1>1, <1>2, <2>1, <3>1, <3>2, <3>3, <3>4, ReadsLocal, LoadStep
  <2>2. CASE CacheHit(p)
    <3>1. p \in Handlers /\ task[p].op = "reload" => task[p].key = "enabled"
      BY <1>2 DEF Task
    <3>2. p \in Handlers /\ task[p].op = "reload"
            => cache[task[p].key].at >= task[p].wrote
      BY <1>4, <2>2, <3>1 DEF CacheHit, OwnWriteCarried
    <3> QED BY <2>1, <2>2, <3>2 DEF CacheHit
  <2>3. CASE CacheMiss(p)
    BY <1>1, <2>1, <2>3 DEF CacheMiss
  <2>4. CASE Select(p)
    <3>1. CASE Finish(p)
      BY <1>5, <2>4, <3>1 DEF Select
    <3>2. CASE Reads(p, AfterSelect,
                     [rows |-> View(task[p].key, services), at |-> Len(history)])
      <4>1. task[p].wrote <= Len(history)
        BY <1>2
      <4> QED BY <2>1, <2>4, <3>2, <4>1 DEF Select, AfterSelect
    <3> QED BY <2>4, <3>1, <3>2 DEF Select
  <2>5. CASE Fill(p)
    <3>1. p \in Handlers /\ task[p].op = "reload" => val[p].at >= task[p].wrote
      BY <1>4, <2>5 DEF Fill, OwnWriteCarried
    <3>2. cache'["enabled"] = cache["enabled"] \/ task[p].op = "reload"
      <4>1. cache' = [cache EXCEPT ![task[p].key] = val[p]] \/ UNCHANGED cache
        BY <2>5 DEF Fill
      <4>2. CASE task[p].key = "enabled"
        BY <1>2, <4>2
      <4>3. CASE task[p].key # "enabled"
        BY <1>3, <4>1, <4>3 DEF TypeOK
      <4> QED BY <4>2, <4>3
    <3> QED BY <1>1, <2>1, <2>5, <3>1, <3>2 DEF Fill
  <2>6. CASE InstallRegistry(p) \/ AnswerRead(p)
    BY <1>5, <2>6 DEF InstallRegistry, AnswerRead
  <2>7. ASSUME NEW label \in {"del_enabled", "del_list", "del_item"}, NEW key,
               NEW next, Del(p, label, key, next),
               next = ReadLabel \/ next \in {"del_list", "del_item", "probe"},
               label = "del_enabled" => key = "enabled",
               next = ReadLabel => task[p].op # "health"
        PROVE  LoadInv'
    <3>1. /\ cache' = [cache EXCEPT ![key] = Absent] /\ pc' = [pc EXCEPT ![p] = next]
          /\ pc[p] = label /\ UNCHANGED <<history, task, val, budget>>
      BY <1>1, <2>7 DEF Del, Goto
    <3>2. /\ \A q \in Procs \ {p} : pc'[q] = pc[q] /\ task'[q] = task[q] /\ val'[q] = val[q]
          /\ pc'[p] = next /\ task'[p] = task[p]
      BY <3>1 DEF TypeOK
    <3>3. /\ cache'["enabled"] = cache["enabled"] \/ cache'["enabled"] = Absent
          /\ label = "del_enabled" => cache'["enabled"] = Absent
      BY <1>3, <2>7, <3>1 DEF TypeOK
    <3>4. p \in Handlers => OwnWriteCarried(p)'
      BY <1>4, <2>7, <3>1, <3>2, <3>3 DEF OwnWriteCarried, ReadLabel
    <3>5. p = Main => task'[p].op # "reload" \/ Booting
      BY <3>1 DEF Booting
    <3> QED BY <1>1, <1>2, <2>7, <3>1, <3>2, <3>3, <3>4, <3>5, LoadStep
  <2>8. CASE DelEnabled(p) \/ DelList(p) \/ DelItem(p)
    <3>1. CASE DelEnabled(p)
      BY <2>7, <3>1 DEF DelEnabled, ReadLabel
    <3>2. CASE DelList(p)
      BY <2>7, <3>2 DEF DelList, ReadLabel
    <3>3. CASE DelItem(p)
      <4>1. \/ AfterInvalidation(task[p].op) = "probe"
            \/ AfterInvalidation(task[p].op) = ReadLabel /\ task[p].op # "health"
        BY DEF AfterInvalidation
      <4>2. ReadLabel # "probe"
        BY DEF ReadLabel
      <4> QED BY <2>7, <3>3, <4>1, <4>2 DEF DelItem
    <3> QED BY <2>8, <3>1, <3>2, <3>3
  <2> QED BY <1>1, <1>6, <2>2, <2>3, <2>4, <2>5, <2>6, <2>8
      DEF Proceed, SelectTruncated, SelectFails, CommitUnanswered
<1>7. ASSUME NEW p \in Procs, NEW t \in Task, NEW table, Successor(table),
             AfterWrite(p, t, table), TypeOK'
      PROVE  /\ task'[p].wrote = Len(history') /\ Len(history') \in Nat
             /\ task'[p].op = t.op /\ task'[p].key = t.key
             /\ \A q \in Procs \ {p} : task'[q] = task[q]
             /\ UNCHANGED cache
  BY <1>7 DEF AfterWrite, TypeOK, Task
<1>8. ASSUME NEW h \in Handlers, Handle(h)
      PROVE  LoadInv'
  <2>1. CASE Writing(h)
    <3>1. PICK id, table : id \in Ids /\ Successor(table) /\ HandlerWrites(h, id, table)
      BY <2>1, WritingStep
    <3>2. TypeOK' /\ h \in Procs
      BY <1>2, <1>8, HandleType
    <3>3. /\ ReloadTask(id) \in Task /\ ReloadTask(id).op = "reload"
          /\ ReloadTask(id).key = "enabled"
      BY <3>1, TaskTypes DEF ReloadTask, InitialTask
    <3>4. /\ task'[h].wrote = Len(history') /\ Len(history') \in Nat
          /\ task'[h].op = "reload"
          /\ \A q \in Procs \ {h} : task'[q] = task[q]
          /\ UNCHANGED cache
      BY <1>7, <3>1, <3>2, <3>3 DEF HandlerWrites
    <3>5. /\ \A q \in Procs \ {h} : pc'[q] = pc[q] /\ val'[q] = val[q]
          /\ pc'[h] \in {"del_enabled", "select"} /\ Spend("write")
      BY <3>1, <3>2 DEF HandlerWrites, Goto, TypeOK, WrittenLabel, AfterInvalidation, ReadLabel
    <3>6. pc[h] # "idle" \/ ~Booting
      BY <2>1, WritingFrom
    <3>7. OwnWriteCarried(h)'
      BY <3>5 DEF OwnWriteCarried
    <3> QED BY <1>1, <1>2, <3>2, <3>4, <3>5, <3>6, <3>7, LoadStep
  <2>2. CASE GetService(h) \/ ListServices(h) \/ RefreshService(h)
    <3>1. /\ \A q \in Procs \ {h} : /\ pc'[q] = pc[q] /\ task'[q] = task[q]
                                    /\ val'[q] = val[q]
          /\ task'[h].wrote = 0 /\ task'[h].op # "reload" /\ task'[h].key # "enabled"
          /\ UNCHANGED <<history, cache, budget>> /\ ~Booting
      BY <1>2, <1>3, <2>2
      DEF GetService, ListServices, RefreshService, Accepts, StartRead, Goto, TypeOK
    <3>2. OwnWriteCarried(h)'
      BY <3>1 DEF OwnWriteCarried
    <3> QED BY <1>1, <1>2, <3>1, <3>2, LoadStep
  <2>3. CASE RefreshGivesUp(h)
    BY <1>2, <1>5, <2>3 DEF RefreshGivesUp
  <2> QED BY <1>1, <1>8, <2>1, <2>2, <2>3 DEF Handle, Writing, DelsCancelled
<1>9. ASSUME Restarted
      PROVE  LoadInv'
  <2>1. /\ \A h \in Handlers : pc'[h] = "idle" /\ task'[h].op = "read"
        /\ \A p \in Procs : task'[p].wrote = 0
        /\ \A p \in Procs : task'[p].key = "enabled" => task'[p].op = "reload"
        /\ UNCHANGED history
    BY <1>2, <1>3, <1>9 DEF Restarted, BootPc, BootTasks
  <2> QED BY <1>2, <1>9, <2>1 DEF LoadInv, OwnWriteCarried
<1>10. CASE Check
  <2>1. CASE Tick
    <3>1. /\ \A q \in Procs \ {Main} : /\ pc'[q] = pc[q] /\ task'[q] = task[q]
                                       /\ val'[q] = val[q]
          /\ task'[Main].wrote = 0 /\ task'[Main].op = "health"
          /\ task'[Main].key = "list"
          /\ UNCHANGED <<history, cache>> /\ Spend("tick")
      BY <1>2, <2>1 DEF Tick, StartRead, Goto, TypeOK
    <3> QED BY <1>1, <1>2, <3>1, LoadStep
  <2>2. CASE StartRound
    <3>1. /\ Reads(Main, "probe", Absent) /\ UNCHANGED <<history, cache, budget>>
          /\ task[Main].op = "health"
      BY <2>2 DEF StartRound
    <3>2. pc'[Main] = "probe" /\ task'[Main] = task[Main]
      BY <1>2, <3>1, ReadsLocal
    <3> QED BY <1>1, <1>2, <3>1, <3>2, ReadsLocal, LoadStep
  <2>3. CASE EndRound
    BY <1>2, <1>5, <2>3 DEF EndRound
  <2>4. ASSUME NEW s \in todo, NEW outcome \in {"Healthy", "Unhealthy"}, Probe(s, outcome)
        PROVE  LoadInv'
    <3>1. val' = val /\ pc[Main] = "probe" /\ UNCHANGED budget
      BY <2>4 DEF Probe
    <3>2. CASE UNCHANGED <<history, cache, routed, routedAt, task, pc>>
      BY <3>1, <3>2 DEF LoadInv, OwnWriteCarried, Booting
    <3>3. ASSUME NEW t \in Task, NEW table, Successor(table), AfterWrite(Main, t, table),
                 t.op = task[Main].op, t.key = task[Main].key,
                 Goto(Main, WrittenLabel("health"))
          PROVE  LoadInv'
      <4>1. TypeOK'
        BY <1>10, CheckType
      <4>2. /\ task'[Main].wrote = Len(history') /\ Len(history') \in Nat
            /\ task'[Main].op = task[Main].op /\ task'[Main].key = task[Main].key
            /\ UNCHANGED cache
            /\ \A q \in Procs \ {Main} : task'[q] = task[q]
        BY <1>2, <1>7, <3>3, <4>1
      <4>3. /\ \A q \in Procs \ {Main} : pc'[q] = pc[q] /\ val'[q] = val[q]
            /\ task[Main].op # "reload" \/ Booting
        BY <1>2, <3>1, <3>3 DEF Goto, TypeOK, Booting
      <4> QED BY <1>1, <1>2, <3>1, <4>2, <4>3, LoadStep
    <3> QED BY <2>4, <3>2, <3>3, ProbeStep
  <2>5. ASSUME NEW s \in todo, ProbePanics(s)
        PROVE  LoadInv'
    BY <1>9, <2>5 DEF ProbePanics
  <2> QED BY <1>10, <2>1, <2>2, <2>3, <2>4, <2>5 DEF Check
<1>11. ASSUME NEW k \in Keys, Expire(k)
       PROVE  LoadInv'
  <2>1. /\ UNCHANGED <<history, pc, task, val, budget>>
        /\ cache'["enabled"] = cache["enabled"] \/ cache'["enabled"] = Absent
    BY <1>3, <1>11 DEF Expire, TypeOK
  <2> QED BY <2>1 DEF LoadInv, OwnWriteCarried, Booting
<1>12. CASE Crash
  BY <1>9, <1>12 DEF Crash
<1>13. CASE UNCHANGED vars
  BY <1>13 DEF vars, LoadInv, OwnWriteCarried, Booting
<1> QED BY <1>6, <1>8, <1>10, <1>11, <1>12, <1>13 DEF Next

(* Up to the first call that failed.                                           *)
Unfailed == budget["fault"] = Budget["fault"]

FaultsCounted == budget["fault"] \in 0..Budget["fault"]

LEMMA UnfailedStep ==
  ASSUME TypeOK, FaultsCounted, [Next]_vars
  PROVE  FaultsCounted' /\ (Unfailed' => Unfailed /\ ~Spend("fault"))
<1>1. /\ budget \in [Costs -> Int] /\ Budget \in [Costs -> Int]
      /\ "fault" \in Costs
  BY GatewayAssumption DEF TypeOK, Costs
<1>2. CASE Spend("fault")
  BY <1>1, <1>2 DEF Spend, FaultsCounted, Unfailed
<1>3. ASSUME NEW kind \in Costs \ {"fault"}, Spend(kind) \/ UNCHANGED budget, ~Spend("fault")
      PROVE  FaultsCounted' /\ (Unfailed' => Unfailed /\ ~Spend("fault"))
  <2>1. budget'["fault"] = budget["fault"]
    BY <1>1, <1>3 DEF Spend
  <2> QED BY <1>3, <2>1 DEF FaultsCounted, Unfailed
<1> QED BY <1>2, <1>3, NextSpends DEF Costs

(* With the cache, what a handler loads into the registry after its write is   *)
(* no older than that write, up to the first call that fails, provided that no *)
(* other handler is busy meanwhile; the checker may write and delete meanwhile,*)
(* entries may expire and the process may die and start again.                 *)
THEOREM SerialOwnWriteLoaded ==
  ASSUME Budget["fault"] >= 0
  PROVE  Spec /\ []OneAtATime => []OwnWriteLoaded
<1>1. Init => FaultsCounted /\ LoadInv
  <2> SUFFICES ASSUME Init PROVE FaultsCounted /\ LoadInv
    OBVIOUS
  <2>1. \A h \in Handlers : pc[h] = "idle" /\ task[h].op = "read"
    BY GatewayAssumption DEF Init, BootPc, BootTasks, InitialTask, Procs
  <2>2. \A p \in Procs : /\ task[p].wrote = 0
                         /\ task[p].key = "enabled" => task[p].op = "reload"
    BY DEF Init, BootTasks, BootTask, InitialTask
  <2>3. Len(history) = 1
    BY DEF Init
  <2>4. FaultsCounted
    BY GatewayAssumption DEF Init, FaultsCounted, Costs
  <2> QED BY <2>1, <2>2, <2>3, <2>4 DEF Init, LoadInv, OwnWriteCarried
<1>2. /\ TypeOK /\ FaultsCounted /\ (Unfailed => LoadInv) /\ OneAtATime /\ [Next]_vars
      => FaultsCounted' /\ (Unfailed' => LoadInv')
  BY LoadNext, UnfailedStep
<1>3. (Unfailed => LoadInv) => OwnWriteLoaded
  BY DEF Unfailed, LoadInv, OwnWriteCarried, LoadsOwnWrite, OwnWriteLoaded
<1> QED BY <1>1, <1>2, <1>3, TypeCorrect, PTL DEF Spec

=============================================================================
