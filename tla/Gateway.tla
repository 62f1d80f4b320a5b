------------------------------ MODULE Gateway ------------------------------
(* The admin plane of one api-gateway process: the admin handlers              *)
(* (internal/admin/handlers.go), each in a goroutine of its own, the health    *)
(* checker (internal/health/checker.go) and the boot (internal/app/server.go), *)
(* over CachingRepository (internal/registry/cache_redis.go) or, with UseCache *)
(* FALSE, over SQLRepository alone, and the runtime registry they all load     *)
(* (internal/registry/registry.go).                                            *)
(*                                                                             *)
(* A step is one call that leaves the process: a Redis GET, SET or DEL or an   *)
(* SQL statement, each atomic where it is executed, or one call of             *)
(* Registry.Set, which holds the registry's lock. PostgreSQL and Redis outlive *)
(* the process.                                                                *)
EXTENDS SQLRepository, Integers, Sequences, FiniteSets

CONSTANTS
  Handlers,   \* the requests the process can serve at once
  Main,       \* the boot, then the goroutine of the health checker
  UseCache,   \* REDIS_ADDR is set
  AdminOps,   \* the requests clients send, a subset of AllOps
  Bodies,     \* the bodies of POST and PUT they send
  Malformed,  \* the configurations whose base_url http.NewRequest refuses
  Budget      \* how many writes, ticks, faults and crashes a run has

AllOps == {"create", "update", "delete", "refresh", "get", "list"}

(* What a run has a budget of; a negative budget is without bound.             *)
Costs == {"write", "tick", "fault", "crash"}

Procs == Handlers \cup {Main}

ASSUME GatewayAssumption ==
  /\ Main \notin Handlers
  /\ UseCache \in BOOLEAN
  /\ AdminOps \subseteq AllOps
  /\ Bodies \subseteq [prefix : Prefixes, conf : Confs, enabled : BOOLEAN, doc : Docs]
  /\ Malformed \subseteq BasedConfs
  /\ Budget \in [Costs -> Int]
  /\ {"enabled", "list"} \cap Ids = {}

VARIABLES
  history,    \* the tables committed so far; the last one is gateway_services
  cache,      \* Redis, by key
  routed,     \* the values of Registry.byPrefix; none share a prefix
  routedAt,   \* the version of the table they were read from, 0 if none
  pc,         \* where each process stands
  task,       \* what each process is doing
  val,        \* what each process has read
  todo,       \* rows of its list the health checker has yet to probe
  budget      \* what is left of Budget

vars == <<history, cache, routed, routedAt, pc, task, val, todo, budget>>

-----------------------------------------------------------------------------

services == history[Len(history)]

(* Every entry carries the version it was read from, which the code does not   *)
(* have: no guard reads it.                                                    *)
Keys == {"enabled", "list"} \cup Ids

Absent == [rows |-> {}, at |-> 0]

View(key, table) ==
  CASE key = "enabled" -> EnabledView(table)
    [] key = "list" -> ListView(table)
    [] OTHER -> GetView(table, key)

(* op says what becomes of the rows read: "reload" hands them to Registry.Set, *)
(* "refresh" writes them back with a new document, "health" probes them and    *)
(* "read" answers with them. key is the cache key of the read, id the service  *)
(* whose cache entry a write drops, and wrote the version it committed.        *)
Ops == {"reload", "refresh", "health", "read"}

Task ==
  {t \in [op : Ops, key : Keys, id : Ids \cup {"list"}, wrote : Nat] :
     /\ t.op = "reload" => t.key = "enabled"
     /\ t.op = "health" => t.key = "list"}

Labels == {"idle", "lookup", "select", "fill", "use", "probe",
           "del_enabled", "del_list", "del_item"}

Booting == task[Main].op = "reload" /\ pc[Main] # "idle"

Spend(kind) ==
  /\ budget[kind] # 0
  /\ budget' = [budget EXCEPT ![kind] = IF @ > 0 THEN @ - 1 ELSE @]

Goto(p, label) == pc' = [pc EXCEPT ![p] = label]

(* The first step of a read, and of the reload that follows a write.           *)
ReadLabel == IF UseCache THEN "lookup" ELSE "select"

InitialTask == [op |-> "read", key |-> "list", id |-> "list", wrote |-> 0]

BootTask == [InitialTask EXCEPT !.op = "reload", !.key = "enabled"]

(* A process that is done keeps nothing of what it did.                        *)
Finish(p) ==
  /\ Goto(p, "idle")
  /\ task' = [task EXCEPT ![p] = InitialTask]
  /\ val' = [val EXCEPT ![p] = Absent]

(* NewServer loads the registry before anything is served.                     *)
BootPc == [p \in Procs |-> IF p = Main THEN ReadLabel ELSE "idle"]

BootTasks == [p \in Procs |-> IF p = Main THEN BootTask ELSE InitialTask]

NothingRead == [p \in Procs |-> Absent]

Init ==
  /\ history = <<{}>>
  /\ cache = [k \in Keys |-> Absent]
  /\ routed = {} /\ routedAt = 0
  /\ pc = BootPc /\ task = BootTasks /\ val = NothingRead
  /\ todo = {}
  /\ budget = Budget

-----------------------------------------------------------------------------
(* A repository write: the statement is committed, then, with a cache, the     *)
(* keys are deleted one after another. A table that is left as it was is not   *)
(* a new version.                                                              *)

AfterWrite(p, t, table) ==
  /\ history' = IF table = services THEN history ELSE Append(history, table)
  /\ task' = [task EXCEPT ![p] = [t EXCEPT !.wrote = Len(history')]]
  /\ UNCHANGED <<cache, routed, routedAt>>

(* What follows a repository write: a handler reloads the registry, which asks *)
(* for the enabled services, and the checker goes on to its next service.      *)
AfterInvalidation(op) == IF op = "health" THEN "probe" ELSE ReadLabel

WrittenLabel(op) == IF UseCache THEN "del_enabled" ELSE AfterInvalidation(op)

ReloadTask(id) == [InitialTask EXCEPT !.op = "reload", !.key = "enabled", !.id = id]

(* A handler whose write is done goes on with registry.LoadEnabled.            *)
HandlerWrites(h, id, table) ==
  /\ AfterWrite(h, ReloadTask(id), table)
  /\ Goto(h, WrittenLabel("reload"))
  /\ val' = [val EXCEPT ![h] = Absent]
  /\ Spend("write")
  /\ UNCHANGED todo

Accepts(h, op) == op \in AdminOps /\ pc[h] = "idle" /\ ~Booting

UsedIds == UNION {IdsIn(history[i]) : i \in DOMAIN history}

(* POST: the prefix must not be empty and is normalized, an http service needs *)
(* a document and a base URL, given or inferred, which nobody parses, and the  *)
(* id is a new uuid. Requests it refuses, and those whose INSERT fails, are    *)
(* answered without a change.                                                  *)
CreateService(h) ==
  \E id \in Ids \ UsedIds, b \in Bodies :
    LET conf == InferBase[b.conf]
        s == [id |-> id, prefix |-> NormalizePrefix[b.prefix], conf |-> conf,
              enabled |-> b.enabled,
              doc |-> IF b.conf \in HttpConfs THEN conf ELSE NoDoc,
              status |-> "none"]
    IN /\ Accepts(h, "create")
       /\ b.prefix # ""
       /\ b.conf \in HttpConfs => conf \in BasedConfs
       /\ CanInsert(services, s)
       /\ HandlerWrites(h, id, Insert(services, s))

(* PUT: the body is written as it was decoded.                                 *)
UpdateService(h) ==
  \E id \in Ids, b \in Bodies :
    LET s == [id |-> id, prefix |-> b.prefix, conf |-> b.conf,
              enabled |-> b.enabled, doc |-> b.doc, status |-> "none"]
    IN /\ Accepts(h, "update")
       /\ CanUpdate(services, s)
       /\ HandlerWrites(h, id, Update(services, s))

DeleteService(h) ==
  \E id \in Ids :
    /\ Accepts(h, "delete")
    /\ HandlerWrites(h, id, Delete(services, id))

-----------------------------------------------------------------------------
(* A repository read: LoadEnabled, List and Get differ in their key and query. *)

StartRead(p, op, key, id) ==
  /\ task' = [task EXCEPT ![p] = [op |-> op, key |-> key, id |-> id, wrote |-> 0]]
  /\ val' = [val EXCEPT ![p] = Absent]
  /\ Goto(p, ReadLabel)
  /\ UNCHANGED <<history, cache, routed, routedAt, todo>>

GetService(h) ==
  \E id \in Ids :
    Accepts(h, "get") /\ StartRead(h, "read", id, id) /\ UNCHANGED budget

ListServices(h) ==
  Accepts(h, "list") /\ StartRead(h, "read", "list", "list") /\ UNCHANGED budget

RefreshService(h) ==
  \E id \in Ids :
    Accepts(h, "refresh") /\ StartRead(h, "refresh", id, id) /\ UNCHANGED budget

(* A tick of the checker; the ticker drops ticks while a round goes on.        *)
Tick ==
  /\ pc[Main] = "idle"
  /\ Spend("tick")
  /\ StartRead(Main, "health", "list", "list")

(* The process has its rows and goes to where they lead.                       *)
Reads(p, label, v) ==
  /\ Goto(p, label)
  /\ val' = [val EXCEPT ![p] = v]
  /\ UNCHANGED task

CacheHit(p) ==
  /\ pc[p] = "lookup"
  /\ cache[task[p].key] # Absent
  /\ Reads(p, "use", cache[task[p].key])
  /\ UNCHANGED <<history, cache, routed, routedAt, todo, budget>>

(* An error of Redis is a miss.                                                *)
CacheMiss(p) ==
  /\ pc[p] = "lookup"
  /\ IF cache[task[p].key] = Absent THEN UNCHANGED budget ELSE Spend("fault")
  /\ Reads(p, "select", Absent)
  /\ UNCHANGED <<history, cache, routed, routedAt, todo>>

AfterSelect == IF UseCache THEN "fill" ELSE "use"

(* Get of a row that is not there is an error, the two lists may be empty.     *)
Select(p) ==
  LET rows == View(task[p].key, services)
      missing == task[p].key \in Ids /\ rows = {}
  IN /\ pc[p] = "select"
     /\ IF missing THEN Finish(p)
                   ELSE Reads(p, AfterSelect, [rows |-> rows, at |-> Len(history)])
     /\ UNCHANGED <<history, cache, routed, routedAt, todo, budget>>

(* The connection breaks while rows are read. The loops over rows.Next do not  *)
(* ask rows.Err, so what was read until then is taken for the whole list.      *)
SelectTruncated(p) ==
  /\ pc[p] = "select"
  /\ task[p].key \notin Ids
  /\ Spend("fault")
  /\ \E rows \in SUBSET View(task[p].key, services) :
       Reads(p, AfterSelect, [rows |-> rows, at |-> Len(history)])
  /\ UNCHANGED <<history, cache, routed, routedAt, todo>>

(* A query that fails ends a read and a refresh with an error, a round of the  *)
(* checker until the next tick, and a reload silently: the handler answers 200 *)
(* with the registry as it was.                                                *)
SelectFails(p) ==
  /\ pc[p] = "select"
  /\ Spend("fault")
  /\ Finish(p)
  /\ UNCHANGED <<history, cache, routed, routedAt, todo>>

(* Mutation of Fill: LoadEnabled and List share one key.                       *)
FillSharedKey(p) ==
  LET key == IF task[p].key = "list" THEN "enabled" ELSE task[p].key
  IN /\ pc[p] = "fill"
     /\ cache' = [cache EXCEPT ![key] = val[p]]
     /\ Reads(p, "use", val[p])
     /\ UNCHANGED <<history, routed, routedAt, todo, budget>>

(* SET with the time to live; its error is ignored.                            *)
Fill(p) ==
  /\ pc[p] = "fill"
  /\ \/ cache' = [cache EXCEPT ![task[p].key] = val[p]] /\ UNCHANGED budget
     \/ UNCHANGED cache /\ Spend("fault")
  /\ Reads(p, "use", val[p])
  /\ UNCHANGED <<history, routed, routedAt, todo>>

(* Mutation of Expire: SET without a time to live.                              *)
NeverExpire(k) == k \notin Keys /\ UNCHANGED vars

(* The time to live ends, at any time.                                         *)
Expire(k) ==
  /\ cache[k] # Absent
  /\ cache' = [cache EXCEPT ![k] = Absent]
  /\ UNCHANGED <<history, routed, routedAt, pc, task, val, todo, budget>>

-----------------------------------------------------------------------------
(* What is done with the rows.                                                 *)

(* Mutation of InstallRegistry: Set adds to the map instead of building a new  *)
(* one.                                                                        *)
MergeRegistry(p) ==
  /\ pc[p] = "use" /\ task[p].op = "reload"
  /\ routed' = routed \cup {s \in val[p].rows : s.enabled}
  /\ routedAt' = val[p].at
  /\ Finish(p)
  /\ UNCHANGED <<history, cache, todo, budget>>

(* registry.LoadEnabled: Registry.Set builds a new map from the rows. The      *)
(* handler answers, the boot goes on to serve.                                 *)
InstallRegistry(p) ==
  /\ pc[p] = "use" /\ task[p].op = "reload"
  /\ routed' = {s \in val[p].rows : s.enabled}
  /\ routedAt' = val[p].at
  /\ Finish(p)
  /\ UNCHANGED <<history, cache, todo, budget>>

AnswerRead(p) ==
  /\ pc[p] = "use" /\ task[p].op = "read"
  /\ Finish(p)
  /\ UNCHANGED <<history, cache, routed, routedAt, todo, budget>>

(* A refresh is refused for grpc-json, and ends with an error when the document*)
(* cannot be fetched or the UPDATE fails.                                      *)
RefreshGivesUp(h) ==
  /\ pc[h] = "use" /\ task[h].op = "refresh"
  /\ Finish(h)
  /\ UNCHANGED <<history, cache, routed, routedAt, todo, budget>>

(* The document is fetched and every column is written back as it was read.    *)
RefreshWriteBack(h) ==
  \E s \in val[h].rows :
    LET conf == InferBase[s.conf]
        new == [s EXCEPT !.conf = conf, !.doc = conf]
    IN /\ pc[h] = "use" /\ task[h].op = "refresh"
       /\ s.conf \in HttpConfs
       /\ CanUpdate(services, new)
       /\ HandlerWrites(h, s.id, Update(services, new))

StartRound ==
  /\ pc[Main] = "use" /\ task[Main].op = "health"
  /\ todo' = {s \in val[Main].rows : s.enabled /\ s.conf \in BasedConfs}
  /\ Reads(Main, "probe", Absent)
  /\ UNCHANGED <<history, cache, routed, routedAt, budget>>

(* One service is probed and its row of the list is written back, with the     *)
(* outcome; an UPDATE the prefix keeps from succeeding is ignored. The order   *)
(* of the list is left open.                                                   *)
Probe(s, outcome) ==
  LET new == [s EXCEPT !.status = outcome]
  IN /\ pc[Main] = "probe" /\ s \in todo /\ s.conf \notin Malformed
     /\ todo' = todo \ {s}
     /\ IF CanUpdate(services, new)
        THEN /\ AfterWrite(Main, [task[Main] EXCEPT !.id = s.id], Update(services, new))
             /\ Goto(Main, WrittenLabel("health"))
        ELSE UNCHANGED <<history, cache, routed, routedAt, task, pc>>
     /\ UNCHANGED <<val, budget>>

(* What a process that ended finds when it is started again: Redis and         *)
(* PostgreSQL as it left them, and no more.                                    *)
Restarted ==
  /\ routed' = {} /\ routedAt' = 0
  /\ pc' = BootPc /\ task' = BootTasks /\ val' = NothingRead
  /\ todo' = {}
  /\ UNCHANGED <<history, cache>>

(* The error of http.NewRequest is ignored: without a request client.Do panics, *)
(* which nothing recovers from, and the process ends.                          *)
ProbePanics(s) ==
  /\ pc[Main] = "probe" /\ s \in todo /\ s.conf \in Malformed
  /\ Restarted
  /\ UNCHANGED budget

EndRound ==
  /\ pc[Main] = "probe" /\ todo = {}
  /\ Finish(Main)
  /\ UNCHANGED <<history, cache, routed, routedAt, todo, budget>>

-----------------------------------------------------------------------------
(* CachingRepository.invalidate: three DELs whose errors are ignored.          *)

Del(p, label, key, next) ==
  /\ pc[p] = label
  /\ \/ cache' = [cache EXCEPT ![key] = Absent] /\ UNCHANGED budget
     \/ UNCHANGED cache /\ Spend("fault")
  /\ Goto(p, next)
  /\ UNCHANGED <<history, routed, routedAt, task, val, todo>>

(* Mutation of DelEnabled: a key that no read uses.                            *)
DelOtherKey(p) ==
  /\ pc[p] = "del_enabled"
  /\ Goto(p, "del_list")
  /\ UNCHANGED <<history, cache, routed, routedAt, task, val, todo, budget>>

DelEnabled(p) == Del(p, "del_enabled", "enabled", "del_list")

DelList(p) == Del(p, "del_list", "list", "del_item")

(* Mutation of DelItem: the entry of the service is left alone.                *)
DelNoItem(p) == Del(p, "del_item", "list", AfterInvalidation(task[p].op))

DelItem(p) == Del(p, "del_item", task[p].id, AfterInvalidation(task[p].op))

(* The client goes away: its request context makes every remaining DEL fail,   *)
(* while the reload has a context of its own. The checker's has no deadline.   *)
DelsCancelled(h) ==
  /\ pc[h] \in {"del_enabled", "del_list", "del_item"}
  /\ Spend("fault")
  /\ Goto(h, AfterInvalidation(task[h].op))
  /\ UNCHANGED <<history, cache, routed, routedAt, task, val, todo>>

(* The statement is committed and its answer is lost: Update returns an error, *)
(* nothing is deleted from the cache and nothing is reloaded. Without a cache  *)
(* SelectFails leaves the same state behind.                                   *)
CommitUnanswered(p) ==
  /\ pc[p] = "del_enabled"
  /\ Spend("fault")
  /\ IF task[p].op = "health" THEN Reads(p, "probe", Absent) ELSE Finish(p)
  /\ UNCHANGED <<history, cache, routed, routedAt, todo>>

(* The process dies and is started again, at any moment.                       *)
Crash == Spend("crash") /\ Restarted

-----------------------------------------------------------------------------

(* The steps that follow a request, a tick or the boot.                        *)
Proceed(p) ==
  \/ CacheHit(p) \/ CacheMiss(p) \/ Select(p) \/ SelectTruncated(p)
  \/ SelectFails(p) \/ Fill(p) \/ InstallRegistry(p) \/ AnswerRead(p)
  \/ DelEnabled(p) \/ DelList(p) \/ DelItem(p) \/ CommitUnanswered(p)

Handle(h) ==
  \/ CreateService(h) \/ UpdateService(h) \/ DeleteService(h)
  \/ GetService(h) \/ ListServices(h) \/ RefreshService(h)
  \/ RefreshWriteBack(h) \/ RefreshGivesUp(h) \/ DelsCancelled(h)

Check ==
  \/ Tick \/ StartRound \/ EndRound
  \/ \E s \in todo, outcome \in {"Healthy", "Unhealthy"} : Probe(s, outcome)
  \/ \E s \in todo : ProbePanics(s)

Next ==
  \/ \E p \in Procs : Proceed(p)
  \/ \E h \in Handlers : Handle(h)
  \/ Check
  \/ \E k \in Keys : Expire(k)
  \/ Crash

Spec == Init /\ [][Next]_vars

-----------------------------------------------------------------------------
(* Invariants.                                                                 *)

Entry == [rows : SUBSET Service, at : Nat]

(* The variables hold what the code's do, and every committed table respects   *)
(* the keys of gateway_services.                                               *)
TypeOK ==
  /\ history \in Seq(SUBSET Service) /\ history # <<>>
  /\ \A i \in DOMAIN history : IsTable(history[i])
  /\ cache \in [Keys -> Entry]
  /\ routed \subseteq Service /\ routedAt \in Nat
  /\ pc \in [Procs -> Labels]
  /\ task \in [Procs -> Task]
  /\ val \in [Procs -> Entry]
  /\ todo \subseteq Service
  /\ budget \in [Costs -> Int]

(* rows were returned by the query behind key on one committed table.          *)
ReadOf(key, rows, at) ==
  at \in DOMAIN history /\ rows \subseteq View(key, history[at])

(* Whatever is cached, being carried from one call to the next, routed by or   *)
(* left to probe was read from one committed table: no entry is stored under   *)
(* another key, no list mixes two tables, and the registry never keeps a       *)
(* service of an earlier load beside those of a later one (Registry.Set,       *)
(* CachingRepository).                                                         *)
CachedRead ==
  \A k \in Keys : cache[k] # Absent => ReadOf(k, cache[k].rows, cache[k].at)

CarriedRead ==
  \A p \in Procs :
    pc[p] \in {"fill", "use"} => ReadOf(task[p].key, val[p].rows, val[p].at)

RoutedRead == routed # {} => ReadOf("enabled", routed, routedAt)

TodoRead == \E i \in DOMAIN history : todo \subseteq ListView(history[i])

Provenance == CachedRead /\ CarriedRead /\ RoutedRead /\ TodoRead

(* No two services are routed by under one prefix, so that byPrefix loses none *)
(* of them: UNIQUE (public_prefix) of each table carries over to the registry  *)
(* (Registry.Set keeps one service per prefix).                                *)
PrefixesDistinct == \A s, t \in routed : s.prefix = t.prefix => s = t

(* A service that was deleted never comes back to the table, although refreshes*)
(* and probes that read it earlier write all of its columns afterwards         *)
(* (UPDATE is no upsert, and ids are new uuids).                               *)
NoResurrection ==
  \A i, j, k \in DOMAIN history :
    i < j /\ j < k =>
      IdsIn(history[i]) \cap IdsIn(history[k]) \subseteq IdsIn(history[j])

LoadsOwnWrite(h) ==
  pc[h] = "use" /\ task[h].op = "reload" => val[h].at >= task[h].wrote

(* What a handler hands to Registry.Set after its own write is no older than   *)
(* that write, as long as no call failed. Without a cache this holds whatever  *)
(* else runs; with the cache it takes that no other handler loads the registry *)
(* meanwhile, but the checker may read, write and delete what it likes, entries*)
(* may expire, and the process may die and boot from what it finds.            *)
OwnWriteLoaded ==
  budget["fault"] = Budget["fault"] => \A h \in Handlers : LoadsOwnWrite(h)

Quiet == \A p \in Procs : pc[p] = "idle"

(* Up to now nothing failed, the process did not die and the checker is still  *)
(* waiting for its first tick.                                                 *)
Undisturbed == \A kind \in Costs \ {"write"} : budget[kind] = Budget[kind]

(* Between requests that come one at a time the registry routes by the current *)
(* table, until the first tick, failure or crash (registry.LoadEnabled after   *)
(* each write).                                                                *)
RoutingCurrent == Undisturbed /\ Quiet => routed = EnabledView(services)

(* "Invalidate on Create/Update/Delete": what is cached then is what the       *)
(* database would answer.                                                      *)
CacheFresh ==
  Undisturbed /\ Quiet =>
    \A k \in Keys : cache[k] # Absent => cache[k].rows = View(k, services)

-----------------------------------------------------------------------------
(* Action properties and refinement.                                           *)

Routing == INSTANCE SnapshotRouting WITH history <- history, routed <- routed

(* The gateway with its handlers, cache, checker and crashes implements the    *)
(* abstract routing.                                                           *)
ImplementsSnapshotRouting == Routing!Spec

Probing(id) ==
  \E s \in todo, outcome \in {"Healthy", "Unhealthy"} : s.id = id /\ Probe(s, outcome)

(* "updates service status periodically": a probe changes no column but the    *)
(* status ones.                                                                *)
ProbeWritesStatusOnly ==
  [][\A id \in Ids : Probing(id) =>
       \A s \in RowsOf(services, id) :
         \E t \in services' : t = [s EXCEPT !.status = t.status]]_vars

-----------------------------------------------------------------------------
(* Liveness. Redis and PostgreSQL answer, keys expire at the end of their time *)
(* to live, probes have a timeout of 3 seconds and the ticker keeps ticking.   *)
(* Nothing is assumed of clients, nor of the backend a refresh fetches from:   *)
(* that request has no timeout.                                                *)

Fairness ==
  /\ \A p \in Procs : WF_vars(Proceed(p))
  /\ WF_vars(Check)
  /\ \A k \in Keys : WF_vars(Expire(k))

FairSpec == Spec /\ Fairness

(* Old entries pass: what a handler's reload or the checker selected before a  *)
(* write and stored after the DELs of that write is gone in the end, although  *)
(* others read it, and the checker writes its rows back, meanwhile             *)
(* (cache_redis.go:61-67). Once nothing is written any more, Redis has what the*)
(* table has. The registry has what the last handler loaded, which may be one  *)
(* of those entries.                                                           *)
CacheConverges ==
  <>[](\A k \in Keys : cache[k] # Absent => cache[k].rows = View(k, services))

Probeable(id) == \E s \in RowsOf(services, id) : s.enabled /\ s.conf \in BasedConfs

Parsable == \A s \in services : s.enabled => s.conf \notin Malformed

(* A service that stays enabled and has a base URL is probed again and again,  *)
(* although rounds go by a cached list, which may lack it, or have one that is *)
(* gone, until the entry expires. Only a base URL that does not parse keeps    *)
(* the checker from it, as each round then ends the process (checker.go:36-37):*)
(* when it is put right, and the gateway started again, the rounds go on.      *)
ProbedAgain ==
  \A id \in Ids : <>[](Probeable(id) /\ Parsable) => []<><<Probing(id)>>_vars

=============================================================================
