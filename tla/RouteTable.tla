----------------------------- MODULE RouteTable -----------------------------
(* The table gateway_routes (internal/registry/sqlrepo.go), the handlers that  *)
(* edit it one statement at a time and the one that adds a route for every     *)
(* method of a gRPC upstream, which takes many (Routes, RouteByID and          *)
(* BulkAddDiscoveredRoutes in internal/admin/handlers.go). Routes are not      *)
(* cached (internal/registry/cache_redis.go).                                  *)
EXTENDS Naturals, Sequences, FiniteSets

CONSTANTS
  Handlers,    \* the requests the process can serve at once
  Services,    \* the grpc-json services with a target, by id
  Ids,         \* the uuids a run can hand out to routes
  Keys,        \* pairs of an HTTP method and a path pattern
  Rpcs,        \* full names of gRPC methods
  Discovered,  \* the methods reflection lists, for each service
  DefaultKey,  \* the method and path the heuristic gives to each of them
  Edits,       \* which single edits clients send
  Lossy        \* connections to the database and clients may go away

AllEdits == {"create", "update", "delete", "delete_service"}

ASSUME RoutesAssumption ==
  /\ Edits \subseteq AllEdits
  /\ Lossy \in BOOLEAN
  /\ Discovered \in [Services -> Seq(Rpcs)]
  /\ DefaultKey \in [Rpcs -> Keys]
  /\ Services # {} /\ Ids # {}

VARIABLES
  live,      \* ids in gateway_services
  routes,    \* the rows of gateway_routes
  used,      \* ids handed out
  pc,        \* where each bulk request stands
  bulk,      \* its service, the keys it found, the methods left, its count
  inserted,  \* rows bulk requests inserted
  answered,  \* the sum of the counts answered
  unseen,    \* rows whose INSERT was executed and taken for refused
  undone     \* services of which routes were moved, removed or not added

(* What the properties compare the rest with; no guard reads it.               *)
ghosts == <<inserted, answered, unseen, undone>>

vars == <<live, routes, used, pc, bulk, ghosts>>

Route == [id : Ids, service : Services, key : Keys, rpc : Rpcs]

Bulks ==
  [service : Services, exists : SUBSET Keys, left : Seq(Rpcs), created : Nat]

NoBulk(s) == [service |-> s, exists |-> {}, left |-> <<>>, created |-> 0]

Idle == NoBulk(CHOOSE s \in Services : TRUE)

Init ==
  /\ live = Services
  /\ routes = {} /\ used = {}
  /\ pc = [h \in Handlers |-> "idle"]
  /\ bulk = [h \in Handlers |-> Idle]
  /\ inserted = 0 /\ answered = 0 /\ unseen = 0
  /\ undone = {}

-----------------------------------------------------------------------------
(* The statements.                                                             *)

RoutesOf(s) == {r \in routes : r.service = s}

Taken(s, key) == \E r \in RoutesOf(s) : r.key = key

(* INSERT: the foreign key and UNIQUE (service_id, method, path_pattern) have  *)
(* to admit it.                                                                *)
CanInsert(r) == r.service \in live /\ ~Taken(r.service, r.key)

(* UPDATE ... WHERE id = $1 AND service_id = $2.                               *)
CanUpdate(r) == \A t \in RoutesOf(r.service) : t.key = r.key => t.id = r.id

Updated(r) ==
  {IF t.id = r.id /\ t.service = r.service THEN r ELSE t : t \in routes}

-----------------------------------------------------------------------------
Undo(s) ==
  /\ undone' = undone \cup {s}
  /\ UNCHANGED <<inserted, answered, unseen>>

(* Single edits: one statement each. What the database refuses is answered     *)
(* with 500 and changes nothing.                                               *)

CreateRoute(r) ==
  /\ "create" \in Edits
  /\ r.id \notin used /\ CanInsert(r)
  /\ routes' = routes \cup {r}
  /\ used' = used \cup {r.id}
  /\ UNCHANGED <<live, pc, bulk, ghosts>>

UpdateRoute(r) ==
  /\ "update" \in Edits
  /\ r.id \in used /\ CanUpdate(r)
  /\ routes' = Updated(r)
  /\ Undo(r.service)
  /\ UNCHANGED <<live, used, pc, bulk>>

DeleteRoute(s, id) ==
  /\ "delete" \in Edits
  /\ id \in used
  /\ routes' = {r \in routes : ~(r.id = id /\ r.service = s)}
  /\ Undo(s)
  /\ UNCHANGED <<live, used, pc, bulk>>

(* Mutation of DeleteService: the table without ON DELETE CASCADE.             *)
DeleteServiceOnly(s) ==
  /\ "delete_service" \in Edits
  /\ live' = live \ {s}
  /\ Undo(s)
  /\ UNCHANGED <<routes, used, pc, bulk>>

(* DELETE of a service takes its routes along, ON DELETE CASCADE.              *)
DeleteService(s) ==
  /\ "delete_service" \in Edits
  /\ live' = live \ {s}
  /\ routes' = routes \ RoutesOf(s)
  /\ Undo(s)
  /\ UNCHANGED <<used, pc, bulk>>

-----------------------------------------------------------------------------
(* BulkAddDiscoveredRoutes.                                                    *)

Goto(h, label, b) ==
  /\ pc' = [pc EXCEPT ![h] = label]
  /\ bulk' = [bulk EXCEPT ![h] = b]

(* The service is got, from the cache perhaps, in which one that was deleted   *)
(* may still be, and its methods are discovered. If either fails the request   *)
(* is answered with an error.                                                  *)
BulkDiscover(h, s) ==
  /\ pc[h] = "idle"
  /\ Goto(h, "list", [NoBulk(s) EXCEPT !.left = Discovered[s]])
  /\ UNCHANGED <<live, routes, used, ghosts>>

(* Mutation of BulkList: the query is not restricted to the service.           *)
BulkListAll(h) ==
  /\ pc[h] = "list"
  /\ Goto(h, "add", [bulk[h] EXCEPT !.exists = {r.key : r \in routes}])
  /\ UNCHANGED <<live, routes, used, ghosts>>

(* The existing routes. The error of the query is dropped and rows.Err is not  *)
(* asked, so that when the connection is lost those read until then are taken  *)
(* for all of them.                                                            *)
BulkList(h) ==
  LET listed == {r.key : r \in RoutesOf(bulk[h].service)}
  IN /\ pc[h] = "list"
     /\ \E keys \in (IF Lossy THEN SUBSET listed ELSE {listed}) :
          Goto(h, "add", [bulk[h] EXCEPT !.exists = keys])
     /\ UNCHANGED <<live, routes, used, ghosts>>

(* One round of the loop with INSERT's verdict ok. What existed when the loop  *)
(* began is skipped, and an INSERT that fails only means the route is not      *)
(* counted.                                                                    *)
NextRpc(h) == Head(bulk[h].left)

NextRoute(h, id) ==
  [id |-> id, service |-> bulk[h].service, key |-> DefaultKey[NextRpc(h)], rpc |-> NextRpc(h)]

Skips(h) == DefaultKey[NextRpc(h)] \in bulk[h].exists

Advance(h, count) ==
  Goto(h, "add", [bulk[h] EXCEPT !.left = Tail(@), !.created = @ + count])

BulkSkip(h) ==
  /\ pc[h] = "add" /\ bulk[h].left # <<>>
  /\ Skips(h)
  /\ Advance(h, 0)
  /\ UNCHANGED <<live, routes, used, ghosts>>

BulkInsert(h) ==
  \E id \in Ids \ used :
    /\ pc[h] = "add" /\ bulk[h].left # <<>>
    /\ ~Skips(h)
    /\ CanInsert(NextRoute(h, id))
    /\ routes' = routes \cup {NextRoute(h, id)}
    /\ used' = used \cup {id}
    /\ inserted' = inserted + 1
    /\ \/ Advance(h, 1) /\ UNCHANGED unseen
       \/ Lossy /\ Advance(h, 0) /\ unseen' = unseen + 1
    /\ UNCHANGED <<live, answered, undone>>

(* Mutation of BulkRefused: what could not be inserted is counted.             *)
BulkRefusedCounted(h) ==
  /\ pc[h] = "add" /\ bulk[h].left # <<>>
  /\ ~Skips(h)
  /\ \A id \in Ids : ~CanInsert(NextRoute(h, id))
  /\ Advance(h, 1)
  /\ UNCHANGED <<live, routes, used, ghosts>>

BulkRefused(h) ==
  /\ pc[h] = "add" /\ bulk[h].left # <<>>
  /\ ~Skips(h)
  /\ \/ (\A id \in Ids : ~CanInsert(NextRoute(h, id))) /\ UNCHANGED ghosts
     \/ Lossy /\ Undo(bulk[h].service)
  /\ Advance(h, 0)
  /\ UNCHANGED <<live, routes, used>>

BulkAnswer(h) ==
  /\ pc[h] = "add" /\ bulk[h].left = <<>>
  /\ answered' = answered + bulk[h].created
  /\ Goto(h, "idle", Idle)
  /\ UNCHANGED <<live, routes, used, inserted, unseen, undone>>

-----------------------------------------------------------------------------

Bulk(h) ==
  \/ \E s \in Services : BulkDiscover(h, s)
  \/ BulkList(h) \/ BulkSkip(h) \/ BulkInsert(h) \/ BulkRefused(h) \/ BulkAnswer(h)

Edit ==
  \/ \E r \in Route : CreateRoute(r) \/ UpdateRoute(r)
  \/ \E s \in Services : DeleteService(s) \/ \E id \in Ids : DeleteRoute(s, id)

Next == Edit \/ \E h \in Handlers : Bulk(h)

Spec == Init /\ [][Next]_vars

-----------------------------------------------------------------------------

(* Types, and what the keys of the table promise its readers: one route per    *)
(* id, one per service, method and path, and none without its service.         *)
TypeOK ==
  /\ live \subseteq Services
  /\ routes \subseteq Route
  /\ \A r \in routes : r.id \in used /\ r.service \in live
  /\ \A r, t \in routes :
       r.id = t.id \/ (r.service = t.service /\ r.key = t.key) => r = t
  /\ used \subseteq Ids
  /\ pc \in [Handlers -> {"idle", "list", "add"}]
  /\ bulk \in [Handlers -> Bulks]
  /\ {inserted, answered, unseen} \subseteq Nat
  /\ undone \subseteq Services

(* The rows that the requests under way have counted so far.                   *)
Counted == UNION {{h} \X (1..bulk[h].created) : h \in Handlers}

(* What bulk requests answer as "created" adds up to the rows they inserted,   *)
(* however they overlap with each other and with single edits, but for those   *)
(* whose INSERT lost its answer (BulkAddDiscoveredRoutes).                     *)
CountsAddUp == answered + Cardinality(Counted) + unseen = inserted

(* Each method a bulk request has dealt with has a route of the service at its *)
(* default method and path, put there by this request, by one that overlapped  *)
(* or before, unless the connection was lost or someone moved or removed       *)
(* routes of the service (BulkAddDiscoveredRoutes).                            *)
BulkCovers ==
  \A h \in Handlers :
    LET s == bulk[h].service
        done == Len(Discovered[s]) - Len(bulk[h].left)
    IN pc[h] = "add" /\ s \notin undone =>
         \A i \in 1..done : Taken(s, DefaultKey[Discovered[s][i]])

=============================================================================
