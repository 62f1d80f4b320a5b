-------------------------- MODULE RouteTableProofs --------------------------
(* RouteTable for any number of services, routes and bulk requests.            *)
EXTENDS RouteTable, FiniteSetTheorems, TLAPS

(* A route is only replaced by one of the same service.                        *)
LEMMA UpdatedRoutes ==
  ASSUME TypeOK, NEW r \in Route, NEW t \in Updated(r)
  PROVE  \/ t \in routes /\ ~(t.id = r.id /\ t.service = r.service)
         \/ /\ t = r
            /\ \E old \in routes : old.id = r.id /\ old.service = r.service
BY DEF Updated

(* The keys of the table hold after an edit.                                   *)
KeysHold(table) ==
  \A r, t \in table :
    r.id = t.id \/ (r.service = t.service /\ r.key = t.key) => r = t

LEMMA UpdateKeepsKeys ==
  ASSUME TypeOK, NEW r \in Route, CanUpdate(r)
  PROVE  /\ Updated(r) \subseteq Route
         /\ \A t \in Updated(r) : t.id \in used /\ t.service \in live
         /\ KeysHold(Updated(r))
<1>1. \A t \in Updated(r) : t \in routes \/ t = r
  BY DEF Updated
<1>2. KeysHold(Updated(r))
  <2> SUFFICES ASSUME NEW a \in Updated(r), NEW b \in Updated(r),
                      a.id = b.id \/ (a.service = b.service /\ a.key = b.key)
               PROVE  a = b
    BY DEF KeysHold
  <2> DEFINE Kept(t) == t \in routes /\ ~(t.id = r.id /\ t.service = r.service)
  <2>1. /\ Kept(a) \/ (a = r /\ \E old \in routes : old.id = r.id /\ old.service = r.service)
        /\ Kept(b) \/ (b = r /\ \E old \in routes : old.id = r.id /\ old.service = r.service)
    BY UpdatedRoutes
  <2>2. \A t \in routes :
          Kept(t) /\ (\E old \in routes : old.id = r.id /\ old.service = r.service) =>
            t.id # r.id /\ ~(t.service = r.service /\ t.key = r.key)
    BY DEF TypeOK, CanUpdate, RoutesOf
  <2> QED BY <2>1, <2>2 DEF TypeOK
<1>3. \A t \in Updated(r) : t.id \in used /\ t.service \in live
  BY UpdatedRoutes DEF TypeOK
<1> QED BY <1>1, <1>2, <1>3 DEF TypeOK

(* A row the table admits keeps its keys.                                      *)
LEMMA InsertKeepsKeys ==
  ASSUME TypeOK, NEW r \in Route, r.id \notin used, CanInsert(r)
  PROVE  KeysHold(routes \cup {r})
BY DEF TypeOK, KeysHold, CanInsert, Taken, RoutesOf

(* A round of the loop works on a row of the right type, and its verdict does  *)
(* not hang on the id.                                                         *)
LEMMA RoundType ==
  ASSUME TypeOK, NEW h \in Handlers, bulk[h].left # <<>>
  PROVE  /\ NextRpc(h) \in Rpcs
         /\ Tail(bulk[h].left) \in Seq(Rpcs)
         /\ \A id \in Ids : NextRoute(h, id) \in Route
         /\ \A id \in Ids :
              CanInsert(NextRoute(h, id)) <=>
                bulk[h].service \in live /\ ~Taken(bulk[h].service, DefaultKey[NextRpc(h)])
<1>1. NextRpc(h) \in Rpcs /\ Tail(bulk[h].left) \in Seq(Rpcs) /\ bulk[h].service \in Services
  BY DEF TypeOK, NextRpc, Bulks
<1>2. DefaultKey[NextRpc(h)] \in Keys
  BY <1>1, RoutesAssumption
<1> QED BY <1>1, <1>2 DEF NextRoute, Route, CanInsert

-----------------------------------------------------------------------------

LEMMA InitType == Init => TypeOK
<1> SUFFICES ASSUME Init PROVE TypeOK
  OBVIOUS
<1>1. Idle \in Bulks
  BY RoutesAssumption DEF Idle, NoBulk, Bulks
<1> QED BY <1>1 DEF Init, TypeOK

(* What a bulk request takes for the existing routes are some of them.         *)
LEMMA ListedKeys ==
  ASSUME NEW h, BulkList(h)
  PROVE  \E keys : /\ keys \subseteq {r.key : r \in RoutesOf(bulk[h].service)}
                   /\ Goto(h, "add", [bulk[h] EXCEPT !.exists = keys])
<1> DEFINE listed == {r.key : r \in RoutesOf(bulk[h].service)}
<1>1. PICK keys \in (IF Lossy THEN SUBSET listed ELSE {listed}) :
        Goto(h, "add", [bulk[h] EXCEPT !.exists = keys])
  BY DEF BulkList
<1>2. keys \subseteq listed
  <2> HIDE DEF listed
  <2> QED BY <1>1
<1> QED BY <1>1, <1>2

(* What the steps of a bulk request do to its own state.                       *)
LEMMA GotoType ==
  ASSUME TypeOK, NEW h \in Handlers, NEW label \in {"idle", "list", "add"}, NEW b \in Bulks,
         Goto(h, label, b)
  PROVE  /\ pc' \in [Handlers -> {"idle", "list", "add"}]
         /\ bulk' \in [Handlers -> Bulks]
BY DEF TypeOK, Goto

LEMMA AdvanceType ==
  ASSUME TypeOK, NEW h \in Handlers, bulk[h].left # <<>>, NEW count \in Nat, Advance(h, count)
  PROVE  /\ pc' \in [Handlers -> {"idle", "list", "add"}]
         /\ bulk' \in [Handlers -> Bulks]
<1>1. Tail(bulk[h].left) \in Seq(Rpcs)
  BY RoundType
<1>2. bulk[h] \in Bulks /\ bulk[h].created + count \in Nat
  BY DEF TypeOK, Bulks
<1>3. [bulk[h] EXCEPT !.left = Tail(@), !.created = @ + count] \in Bulks
  <2>1. \A b \in Bulks, rest \in Seq(Rpcs), n \in Nat :
          [b EXCEPT !.left = rest, !.created = n] \in Bulks
    BY DEF Bulks
  <2> QED BY <1>1, <1>2, <2>1
<1> QED BY <1>3, GotoType DEF Advance

LEMMA NextType == TypeOK /\ [Next]_vars => TypeOK'
<1> SUFFICES ASSUME TypeOK, [Next]_vars PROVE TypeOK'
  OBVIOUS
<1> DEFINE TableOK ==
      /\ live \subseteq Services /\ used \subseteq Ids
      /\ routes \subseteq Route
      /\ \A r \in routes : r.id \in used /\ r.service \in live
      /\ KeysHold(routes)
    RequestsOK ==
      pc \in [Handlers -> {"idle", "list", "add"}] /\ bulk \in [Handlers -> Bulks]
    GhostsOK == {inserted, answered, unseen} \subseteq Nat /\ undone \subseteq Services
<1> SUFFICES TableOK' /\ RequestsOK' /\ GhostsOK'
  BY DEF TypeOK, KeysHold
<1>0. TableOK /\ RequestsOK /\ GhostsOK
  BY DEF TypeOK, KeysHold
<1>1. ASSUME UNCHANGED <<live, routes, used>> PROVE TableOK'
  BY <1>0, <1>1 DEF KeysHold
<1>2. ASSUME UNCHANGED ghosts PROVE GhostsOK'
  BY <1>0, <1>2 DEF ghosts
<1>3. ASSUME NEW s \in Services, Undo(s) PROVE GhostsOK'
  BY <1>0, <1>3 DEF Undo
<1>4. ASSUME UNCHANGED <<pc, bulk>> PROVE RequestsOK'
  BY <1>0, <1>4
<1>5. ASSUME NEW r \in Route, CreateRoute(r) PROVE TableOK' /\ RequestsOK' /\ GhostsOK'
  <2>1. KeysHold(routes') /\ routes' = routes \cup {r} /\ used' = used \cup {r.id} /\ live' = live
    BY <1>5, InsertKeepsKeys DEF CreateRoute
  <2>2. r.id \in Ids /\ r.service \in live
    BY <1>5 DEF CreateRoute, CanInsert, Route
  <2> QED BY <1>0, <1>2, <1>4, <1>5, <2>1, <2>2 DEF CreateRoute, KeysHold
<1>6. ASSUME NEW r \in Route, UpdateRoute(r) PROVE TableOK' /\ RequestsOK' /\ GhostsOK'
  <2>1. /\ Updated(r) \subseteq Route
        /\ \A t \in Updated(r) : t.id \in used /\ t.service \in live
        /\ KeysHold(Updated(r))
    BY <1>6, UpdateKeepsKeys DEF UpdateRoute
  <2>2. r.service \in Services
    BY DEF Route
  <2> QED BY <1>0, <1>3, <1>4, <1>6, <2>1, <2>2 DEF UpdateRoute, KeysHold
<1>7. ASSUME NEW s \in Services, DeleteService(s) \/ \E id \in Ids : DeleteRoute(s, id)
      PROVE  TableOK' /\ RequestsOK' /\ GhostsOK'
  <2>1. /\ Undo(s) /\ UNCHANGED <<pc, bulk, used>>
        /\ routes' \subseteq routes /\ live' \subseteq live
        /\ \A r \in routes' : r.service \in live'
    BY <1>7, <1>0 DEF DeleteService, DeleteRoute, RoutesOf
  <2> QED BY <1>0, <1>3, <1>4, <2>1 DEF KeysHold
<1>8. ASSUME NEW h \in Handlers, Bulk(h) PROVE TableOK' /\ RequestsOK' /\ GhostsOK'
  <2>1. ASSUME NEW s \in Services, BulkDiscover(h, s) PROVE TableOK' /\ RequestsOK' /\ GhostsOK'
    <3>1. [NoBulk(s) EXCEPT !.left = Discovered[s]] \in Bulks
      BY RoutesAssumption DEF NoBulk, Bulks
    <3> QED BY <1>1, <1>2, <2>1, <3>1, GotoType DEF BulkDiscover
  <2>2. CASE BulkList(h)
    <3>1. PICK keys \in SUBSET Keys : Goto(h, "add", [bulk[h] EXCEPT !.exists = keys])
      BY <1>0, <2>2, ListedKeys DEF RoutesOf, Route
    <3>2. [bulk[h] EXCEPT !.exists = keys] \in Bulks
      BY <1>0 DEF Bulks
    <3> QED BY <1>1, <1>2, <2>2, <3>1, <3>2, GotoType DEF BulkList
  <2>3. CASE BulkSkip(h)
    BY <1>1, <1>2, <2>3, AdvanceType DEF BulkSkip
  <2>4. CASE BulkInsert(h)
    <3>1. PICK id \in Ids \ used :
            /\ bulk[h].left # <<>> /\ CanInsert(NextRoute(h, id))
            /\ routes' = routes \cup {NextRoute(h, id)}
            /\ used' = used \cup {id}
            /\ inserted' = inserted + 1
            /\ Advance(h, 1) \/ Advance(h, 0)
            /\ unseen' = unseen \/ unseen' = unseen + 1
            /\ UNCHANGED <<live, answered, undone>>
      BY <2>4 DEF BulkInsert
    <3> DEFINE r == NextRoute(h, id)
    <3>2. r \in Route /\ r.id = id
      BY <3>1, RoundType DEF NextRoute
    <3>3. RequestsOK'
      BY <3>1, AdvanceType
    <3>4. KeysHold(routes')
      BY <3>1, <3>2, InsertKeepsKeys
    <3>5. r.service \in live
      BY <3>1 DEF CanInsert
    <3>6. TableOK'
      BY <1>0, <3>1, <3>2, <3>4, <3>5 DEF KeysHold
    <3> QED BY <1>0, <3>1, <3>3, <3>6
  <2>5. CASE BulkRefused(h)
    BY <1>0, <1>1, <1>2, <1>3, <2>5, AdvanceType DEF BulkRefused, Bulks
  <2>6. CASE BulkAnswer(h)
    <3>1. Idle \in Bulks
      BY RoutesAssumption DEF Idle, NoBulk, Bulks
    <3>2. bulk[h].created \in Nat
      BY <1>0 DEF Bulks
    <3> QED BY <1>0, <1>1, <2>6, <3>1, <3>2, GotoType DEF BulkAnswer
  <2> QED BY <1>8, <2>1, <2>2, <2>3, <2>4, <2>5, <2>6 DEF Bulk
<1>9. CASE UNCHANGED vars
  BY <1>1, <1>2, <1>4, <1>9 DEF vars
<1> QED BY <1>5, <1>6, <1>7, <1>8, <1>9 DEF Next, Edit

(* The keys of gateway_routes hold whatever is edited at once: one route per   *)
(* id, one per service, method and path, and none without its service.         *)
THEOREM TypeCorrect == Spec => []TypeOK
<1> QED BY InitType, NextType, PTL DEF Spec

-----------------------------------------------------------------------------
(* What a bulk request has left is the end of its list, what it skips is       *)
(* there, and a service that is gone is one of which routes were removed.      *)

RestOfList ==
  \A h \in Handlers :
    LET all == Discovered[bulk[h].service]
        left == bulk[h].left
    IN  /\ pc[h] = "list" => left = all
        /\ pc[h] = "add" =>
             /\ Len(left) <= Len(all)
             /\ \A i \in 1..Len(left) : left[i] = all[Len(all) - Len(left) + i]

KnownThere ==
  \A h \in Handlers :
    pc[h] = "add" /\ bulk[h].service \notin undone =>
      \A key \in bulk[h].exists : Taken(bulk[h].service, key)

GoneUndone == Services \ live \subseteq undone

CoverInv == TypeOK /\ RestOfList /\ KnownThere /\ GoneUndone /\ BulkCovers

LEMMA InitCover == Init => CoverInv
<1> SUFFICES ASSUME Init PROVE CoverInv
  OBVIOUS
<1>1. \A h \in Handlers : pc[h] = "idle"
  BY DEF Init
<1> QED BY <1>1, InitType DEF Init, CoverInv, RestOfList, KnownThere, GoneUndone, BulkCovers

(* No step takes a method and path from a service but those that are noted.    *)
LEMMA TakenStays ==
  ASSUME TypeOK, [Next]_vars
  PROVE  /\ undone \subseteq undone'
         /\ GoneUndone => GoneUndone'
         /\ \A s \in Services \ undone' : \A key \in Keys : Taken(s, key) => Taken(s, key)'
<1> DEFINE Stays == \A s \in Services \ undone' : RoutesOf(s) \subseteq RoutesOf(s)'
<1> SUFFICES undone \subseteq undone' /\ (GoneUndone => GoneUndone') /\ Stays
  BY DEF Taken
<1>1. ASSUME routes \subseteq routes', undone \subseteq undone', live' = live
      PROVE  undone \subseteq undone' /\ (GoneUndone => GoneUndone') /\ Stays
  BY <1>1 DEF RoutesOf, GoneUndone
<1>2. CASE UNCHANGED vars
  BY <1>1, <1>2 DEF vars, ghosts
<1>3. ASSUME NEW r \in Route, CreateRoute(r) \/ UpdateRoute(r)
      PROVE  undone \subseteq undone' /\ (GoneUndone => GoneUndone') /\ Stays
  <2>1. CASE CreateRoute(r)
    BY <1>1, <2>1 DEF CreateRoute, ghosts
  <2>2. CASE UpdateRoute(r)
    <3>1. routes' = Updated(r) /\ undone' = undone \cup {r.service} /\ live' = live
      BY <2>2 DEF UpdateRoute, Undo
    <3>2. \A t \in routes : t.service # r.service => t \in Updated(r)
      BY DEF Updated
    <3> QED BY <3>1, <3>2 DEF RoutesOf, GoneUndone
  <2> QED BY <1>3, <2>1, <2>2
<1>4. ASSUME NEW s \in Services, DeleteService(s) \/ \E id \in Ids : DeleteRoute(s, id)
      PROVE  undone \subseteq undone' /\ (GoneUndone => GoneUndone') /\ Stays
  <2>1. /\ undone' = undone \cup {s} /\ live \subseteq live' \cup {s}
        /\ \A t \in routes : t.service # s => t \in routes'
    BY <1>4 DEF DeleteService, DeleteRoute, RoutesOf, Undo
  <2> QED BY <2>1 DEF RoutesOf, GoneUndone
<1>5. ASSUME NEW h \in Handlers, Bulk(h)
      PROVE  undone \subseteq undone' /\ (GoneUndone => GoneUndone') /\ Stays
  <2>1. routes \subseteq routes' /\ undone \subseteq undone' /\ live' = live
    BY <1>5 DEF Bulk, BulkDiscover, BulkList, BulkSkip, BulkInsert, BulkRefused, BulkAnswer, Undo, ghosts
  <2> QED BY <1>1, <2>1
<1> QED BY <1>2, <1>3, <1>4, <1>5 DEF Next, Edit

(* What other requests do leaves what is true of a request as it is.           *)
RequestInv(h) ==
  LET all == Discovered[bulk[h].service]
      left == bulk[h].left
  IN  /\ pc[h] = "list" => left = all
      /\ pc[h] = "add" =>
           /\ Len(left) <= Len(all)
           /\ \A i \in 1..Len(left) : left[i] = all[Len(all) - Len(left) + i]
           /\ bulk[h].service \notin undone =>
                /\ \A key \in bulk[h].exists : Taken(bulk[h].service, key)
                /\ \A i \in 1..(Len(all) - Len(left)) :
                     Taken(bulk[h].service, DefaultKey[all[i]])

LEMMA RequestByRequest ==
  RestOfList /\ KnownThere /\ BulkCovers <=> \A h \in Handlers : RequestInv(h)
BY DEF RestOfList, KnownThere, BulkCovers, RequestInv

LEMMA OthersKeep ==
  ASSUME TypeOK, [Next]_vars, NEW h \in Handlers, RequestInv(h),
         pc'[h] = pc[h], bulk'[h] = bulk[h]
  PROVE  RequestInv(h)'
<1>1. PICK b \in Bulks : b = bulk[h]
  BY DEF TypeOK
<1>2. PICK all \in Seq(Rpcs) : all = Discovered[b.service]
  BY RoutesAssumption DEF Bulks
<1>3. b.service \in Services /\ b.exists \subseteq Keys /\ b.left \in Seq(Rpcs)
  BY DEF Bulks
<1>4. \A i \in 1..(Len(all) - Len(b.left)) : i \in 1..Len(all)
  BY <1>3
<1>5. \A i \in 1..(Len(all) - Len(b.left)) : DefaultKey[all[i]] \in Keys
  BY <1>4, RoutesAssumption
<1>6. b.service \notin undone' =>
        b.service \notin undone /\ \A key \in Keys : Taken(b.service, key) => Taken(b.service, key)'
  BY <1>3, TakenStays
<1> QED BY <1>1, <1>2, <1>3, <1>5, <1>6 DEF RequestInv

(* A round of the loop of request h: the method it dealt with is covered.      *)
LEMMA RoundKeeps ==
  ASSUME TypeOK, [Next]_vars, NEW h \in Handlers, RequestInv(h), pc[h] = "add",
         bulk[h].left # <<>>, NEW count \in Nat, Advance(h, count),
         NEW s \in Services, s = bulk[h].service,
         NEW done \in Keys, done = DefaultKey[NextRpc(h)],
         s \notin undone' => Taken(s, done)'
  PROVE  RequestInv(h)'
<1>1. PICK b \in Bulks : b = bulk[h]
  BY DEF TypeOK
<1>2. PICK left \in Seq(Rpcs) : left = b.left /\ left # <<>>
  BY <1>1 DEF Bulks
<1>3. PICK rest \in Seq(Rpcs) : rest = Tail(left)
  BY <1>1, <1>2, RoundType
<1>4. PICK all \in Seq(Rpcs) : all = Discovered[s]
  BY RoutesAssumption
<1>5. /\ Len(left) \in Nat /\ Len(left) # 0 /\ Len(all) \in Nat
      /\ Len(rest) = Len(left) - 1
      /\ \A i \in 1..Len(rest) : rest[i] = left[i + 1]
      /\ Head(left) = left[1]
  BY <1>2, <1>3
<1>6. /\ Len(left) <= Len(all)
      /\ \A i \in 1..Len(left) : left[i] = all[Len(all) - Len(left) + i]
      /\ s \notin undone =>
           /\ \A key \in b.exists : Taken(s, key)
           /\ \A i \in 1..(Len(all) - Len(left)) : Taken(s, DefaultKey[all[i]])
  BY <1>1, <1>2, <1>4 DEF RequestInv
<1>7. PICK n \in Nat : n = Len(all) - Len(left)
  <2>1. \A i, j \in Nat : i <= j => j - i \in Nat
    OBVIOUS
  <2> QED BY <1>5, <1>6, <2>1
<1>8. /\ pc'[h] = "add" /\ bulk'[h].service = s /\ bulk'[h].left = rest
      /\ bulk'[h].exists = b.exists
  BY <1>1, <1>2, <1>3 DEF TypeOK, Bulks, Advance, Goto
<1>9. done = DefaultKey[all[n + 1]]
  <2>1. 1 \in 1..Len(left)
    BY <1>5
  <2> QED BY <1>1, <1>2, <1>5, <1>6, <1>7, <2>1 DEF NextRpc
<1>10. \A i \in 1..Len(rest) : rest[i] = all[n + 1 + i]
  <2> TAKE i \in 1..Len(rest)
  <2>1. i + 1 \in 1..Len(left) /\ n + (i + 1) = n + 1 + i
    BY <1>5, <1>7
  <2> QED BY <1>5, <1>6, <1>7, <2>1
<1>11. Len(rest) <= Len(all) /\ Len(all) - Len(rest) = n + 1
  BY <1>5, <1>6, <1>7
<1>12. ASSUME s \notin undone'
       PROVE  /\ \A key \in b.exists : Taken(s, key)'
              /\ \A i \in 1..(n + 1) : Taken(s, DefaultKey[all[i]])'
  <2>1. s \notin undone /\ \A key \in Keys : Taken(s, key) => Taken(s, key)'
    BY <1>12, TakenStays
  <2>2. \A i \in 1..n : i \in 1..Len(all)
    BY <1>5, <1>6, <1>7
  <2>3. \A i \in 1..n : DefaultKey[all[i]] \in Keys
    BY <2>2, RoutesAssumption
  <2>4. \A i \in 1..(n + 1) : i \in 1..n \/ i = n + 1
    BY <1>7
  <2>5. b.exists \subseteq Keys
    BY DEF Bulks
  <2>6. \A i \in 1..n : Taken(s, DefaultKey[all[i]])'
    BY <1>6, <1>7, <2>1, <2>3
  <2> QED BY <1>6, <1>9, <1>12, <2>1, <2>4, <2>5, <2>6
<1>13. \A i \in 1..Len(rest) : rest[i] = all[Len(all) - Len(rest) + i]
  BY <1>10, <1>11
<1>14. s \notin undone' =>
         \A i \in 1..(Len(all) - Len(rest)) : Taken(s, DefaultKey[all[i]])'
  BY <1>11, <1>12
<1> QED BY <1>4, <1>8, <1>11, <1>12, <1>13, <1>14 DEF RequestInv

(* Every step keeps the invariant: what is covered stays so, and a bulk        *)
(* request covers what it leaves behind.                                       *)
LEMMA NextCover == CoverInv /\ [Next]_vars => CoverInv'
<1> SUFFICES ASSUME CoverInv, [Next]_vars PROVE CoverInv'
  OBVIOUS
<1> USE DEF CoverInv
<1>1. TypeOK' /\ GoneUndone'
  BY NextType, TakenStays
<1>2. \A h \in Handlers : RequestInv(h)
  BY RequestByRequest
<1>3. ASSUME NEW h \in Handlers PROVE RequestInv(h)'
  <2>1. CASE pc'[h] = pc[h] /\ bulk'[h] = bulk[h]
    BY <1>2, <2>1, OthersKeep
  <2>2. CASE pc'[h] = "idle"
    BY <2>2 DEF RequestInv
  <2>3. ASSUME NEW s \in Services, BulkDiscover(h, s) PROVE RequestInv(h)'
    <3>1. pc'[h] = "list" /\ bulk'[h].service = s /\ bulk'[h].left = Discovered[s]
      BY <2>3 DEF BulkDiscover, Goto, TypeOK, NoBulk
    <3> QED BY <3>1 DEF RequestInv
  <2>4. CASE BulkList(h)
    <3>1. PICK keys \in SUBSET Keys :
            /\ Goto(h, "add", [bulk[h] EXCEPT !.exists = keys])
            /\ \A key \in keys : Taken(bulk[h].service, key)
      <4>1. PICK keys : /\ Goto(h, "add", [bulk[h] EXCEPT !.exists = keys])
                        /\ keys \subseteq {r.key : r \in RoutesOf(bulk[h].service)}
        BY <2>4, ListedKeys
      <4>2. keys \subseteq Keys /\ \A key \in keys : Taken(bulk[h].service, key)
        BY <4>1 DEF Taken, RoutesOf, Route, TypeOK
      <4> QED BY <4>1, <4>2
    <3>2. PICK b \in Bulks : b = bulk[h]
      BY DEF TypeOK
    <3>3. /\ pc'[h] = "add" /\ bulk'[h].service = b.service
          /\ bulk'[h].left = b.left /\ bulk'[h].exists = keys
      BY <3>1, <3>2 DEF Goto, TypeOK, Bulks
    <3>4. b.left = Discovered[b.service] /\ Len(b.left) \in Nat
      <4>1. b.left = Discovered[b.service]
        BY <1>2, <2>4, <3>2 DEF BulkList, RequestInv
      <4> QED BY <4>1 DEF Bulks
    <3>5. Len(b.left) - Len(b.left) = 0 /\ \A i \in 1..Len(b.left) : 0 + i = i
      BY <3>4
    <3>6. UNCHANGED <<routes, undone>>
      BY <2>4 DEF BulkList, ghosts
    <3>7. \A key \in keys : Taken(b.service, key)'
      BY <3>1, <3>2, <3>6 DEF Taken, RoutesOf
    <3> QED BY <3>3, <3>4, <3>5, <3>7 DEF RequestInv
  <2>5. CASE BulkSkip(h) \/ BulkInsert(h) \/ BulkRefused(h)
    <3>1. pc[h] = "add" /\ bulk[h].left # <<>> /\ (Advance(h, 0) \/ Advance(h, 1))
      BY <2>5 DEF BulkSkip, BulkInsert, BulkRefused
    <3>2. PICK s \in Services : s = bulk[h].service
      BY DEF TypeOK, Bulks
    <3>3. PICK done \in Keys : done = DefaultKey[NextRpc(h)]
      BY <3>1, RoundType, RoutesAssumption
    <3>4. s \notin undone' => Taken(s, done)'
      <4> SUFFICES ASSUME s \notin undone' PROVE Taken(s, done)'
        OBVIOUS
      <4>1. s \notin undone /\ s \in live /\ (Taken(s, done) => Taken(s, done)')
        BY TakenStays DEF GoneUndone
      <4>2. CASE BulkSkip(h)
        BY <1>2, <3>1, <3>2, <3>3, <4>1, <4>2 DEF BulkSkip, Skips, RequestInv
      <4>3. CASE BulkInsert(h)
        <5>1. PICK id \in Ids : routes' = routes \cup {NextRoute(h, id)}
          BY <4>3 DEF BulkInsert
        <5>2. NextRoute(h, id).service = s /\ NextRoute(h, id).key = done
          BY <3>2, <3>3 DEF NextRoute
        <5> QED BY <5>1, <5>2 DEF Taken, RoutesOf
      <4>4. CASE BulkRefused(h)
        <5>1. \A id \in Ids : ~CanInsert(NextRoute(h, id))
          BY <3>2, <4>4 DEF BulkRefused, Undo
        <5>2. Taken(s, done)
          BY <3>1, <3>2, <3>3, <4>1, <5>1, RoundType, RoutesAssumption
        <5> QED BY <4>1, <5>2
      <4> QED BY <2>5, <4>2, <4>3, <4>4
    <3> QED BY <1>2, <3>1, <3>2, <3>3, <3>4, RoundKeeps
  <2>6. ASSUME NEW g \in Handlers, Bulk(g) PROVE RequestInv(h)'
    <3>1. CASE g # h
      BY <2>1, <2>6, <3>1
         DEF Bulk, BulkDiscover, BulkList, BulkSkip, BulkInsert, BulkRefused, BulkAnswer, Advance,
             Goto, TypeOK
    <3>2. CASE BulkAnswer(h)
      BY <2>2, <3>2 DEF BulkAnswer, Goto, TypeOK
    <3> QED BY <2>3, <2>4, <2>5, <2>6, <3>1, <3>2 DEF Bulk
  <2>7. CASE Edit
    BY <2>1, <2>7 DEF Edit, CreateRoute, UpdateRoute, DeleteRoute, DeleteService
  <2>8. CASE UNCHANGED vars
    BY <2>1, <2>8 DEF vars
  <2> QED BY <2>6, <2>7, <2>8 DEF Next
<1>4. RestOfList' /\ KnownThere' /\ BulkCovers'
  BY <1>3 DEF RestOfList, KnownThere, BulkCovers, RequestInv
<1> QED BY <1>1, <1>4

(* Whatever bulk requests overlap with, each method one of them has dealt with *)
(* has a route at its default method and path, unless a connection was lost or *)
(* routes of the service were moved or removed (BulkAddDiscoveredRoutes).      *)
THEOREM DiscoveredCovered == Spec => []BulkCovers
<1>1. CoverInv => BulkCovers
  BY DEF CoverInv
<1> QED BY <1>1, InitCover, NextCover, PTL DEF Spec

-----------------------------------------------------------------------------
(* The counts.                                                                 *)

CountInv ==
  /\ TypeOK
  /\ IsFiniteSet(Counted)
  /\ CountsAddUp
  /\ \A h \in Handlers : pc[h] # "add" => bulk[h].created = 0

(* What is counted, row by row.                                                *)
LEMMA CountedRows ==
  ASSUME NEW row
  PROVE  row \in Counted <=>
           \E h \in Handlers : \E n \in 1..bulk[h].created : row = <<h, n>>
BY DEF Counted

(* Where no count changes nothing else is counted.                             *)
LEMMA SameCounts ==
  ASSUME \A h \in Handlers : bulk'[h].created = bulk[h].created
  PROVE  UNCHANGED Counted
BY DEF Counted

(* A request counts one more row.                                              *)
LEMMA CountOne ==
  ASSUME TypeOK, IsFiniteSet(Counted), NEW h \in Handlers,
         \A g \in Handlers \ {h} : bulk'[g].created = bulk[g].created,
         bulk'[h].created = bulk[h].created + 1
  PROVE  IsFiniteSet(Counted') /\ Cardinality(Counted') = Cardinality(Counted) + 1
<1>1. PICK c \in Nat : c = bulk[h].created
  BY DEF TypeOK, Bulks
<1>2. \A n : n \in 1..(c + 1) <=> n \in 1..c \/ n = c + 1
  BY <1>1
<1>3. \A row : row \in Counted' <=> row \in Counted \/ row = <<h, c + 1>>
  <2>1. \A row : row \in Counted' <=>
                   \E g \in Handlers : \E n \in 1..bulk'[g].created : row = <<g, n>>
    BY DEF Counted
  <2> QED BY <1>1, <1>2, <2>1, CountedRows
<1>4. Counted' = Counted \cup {<<h, c + 1>>}
  BY <1>3
<1>5. <<h, c + 1>> \notin Counted
  <2>1. c + 1 \notin 1..c
    BY <1>1
  <2> QED BY <1>1, <2>1, CountedRows
<1> QED BY <1>4, <1>5, FS_AddElement

(* A request that answers takes its rows out of the count.                     *)
LEMMA CountDone ==
  ASSUME TypeOK, IsFiniteSet(Counted), NEW h \in Handlers,
         \A g \in Handlers \ {h} : bulk'[g].created = bulk[g].created,
         bulk'[h].created = 0
  PROVE  /\ IsFiniteSet(Counted')
         /\ Cardinality(Counted') = Cardinality(Counted) - bulk[h].created
<1>1. PICK c \in Nat : c = bulk[h].created
  BY DEF TypeOK, Bulks
<1> DEFINE own == {h} \X (1..c)
<1>2. own \subseteq Counted
  BY <1>1 DEF Counted
<1>3. Counted' = Counted \ own
  <2>1. \A row : row \in Counted' <=>
                   \E g \in Handlers : \E n \in 1..bulk'[g].created : row = <<g, n>>
    BY DEF Counted
  <2>2. 1..0 = {}
    OBVIOUS
  <2>3. \A row : row \in Counted' <=> row \in Counted /\ row \notin own
    BY <1>1, <2>1, <2>2, CountedRows
  <2> QED BY <2>3
<1>4. IsFiniteSet(own) /\ Cardinality(own) = c
  <2>1. IsFiniteSet(1..c) /\ Cardinality(1..c) = c
    <3>1. /\ IsFiniteSet(1..c)
          /\ Cardinality(1..c) = IF 1 > c THEN 0 ELSE c - 1 + 1
      BY FS_Interval
    <3> QED BY <3>1
  <2>2. IsFiniteSet({h}) /\ Cardinality({h}) = 1
    BY FS_Singleton
  <2>3. IsFiniteSet(own) /\ Cardinality(own) = Cardinality({h}) * Cardinality(1..c)
    BY <2>1, <2>2, FS_Product
  <2> QED BY <2>1, <2>2, <2>3
<1> HIDE DEF own
<1>5. Counted \cap own = own
  BY <1>2
<1>6. /\ IsFiniteSet(Counted \ own)
      /\ Cardinality(Counted \ own) = Cardinality(Counted) - Cardinality(Counted \cap own)
  BY FS_Difference
<1> QED BY <1>1, <1>3, <1>4, <1>5, <1>6

(* Every step keeps the sum.                                                   *)
LEMMA NextCount == CountInv /\ [Next]_vars => CountInv'
<1> SUFFICES ASSUME CountInv, [Next]_vars PROVE CountInv'
  OBVIOUS
<1>1. /\ TypeOK /\ TypeOK' /\ IsFiniteSet(Counted) /\ CountsAddUp
      /\ \A h \in Handlers : pc[h] # "add" => bulk[h].created = 0
  BY NextType DEF CountInv
<1>2. /\ inserted \in Nat /\ answered \in Nat /\ unseen \in Nat
      /\ Cardinality(Counted) \in Nat
      /\ \A h \in Handlers : bulk[h].created \in Nat
  BY <1>1, FS_CardinalityType DEF TypeOK, Bulks
<1>3. ASSUME UNCHANGED <<inserted, answered, unseen>>,
             \A h \in Handlers : /\ bulk'[h].created = bulk[h].created
                                 /\ pc'[h] # "add" => bulk[h].created = 0
      PROVE  CountInv'
  BY <1>1, <1>3, SameCounts DEF CountInv, CountsAddUp
<1>4. CASE Edit
  BY <1>1, <1>3, <1>4
  DEF Edit, CreateRoute, UpdateRoute, DeleteService, DeleteRoute, Undo, ghosts
<1>5. ASSUME NEW h \in Handlers, NEW label, NEW b, Goto(h, label, b)
      PROVE  /\ pc'[h] = label /\ bulk'[h] = b
             /\ \A g \in Handlers \ {h} : pc'[g] = pc[g] /\ bulk'[g] = bulk[g]
  BY <1>1, <1>5 DEF Goto, TypeOK
<1>6. ASSUME NEW h \in Handlers, NEW count \in {0, 1}, Advance(h, count)
      PROVE  /\ pc'[h] = "add" /\ bulk'[h].created = bulk[h].created + count
             /\ \A g \in Handlers \ {h} : pc'[g] = pc[g] /\ bulk'[g] = bulk[g]
  <2>1. bulk[h] \in Bulks
    BY <1>1 DEF TypeOK
  <2>2. [bulk[h] EXCEPT !.left = Tail(@), !.created = @ + count].created
          = bulk[h].created + count
    BY <2>1 DEF Bulks
  <2> DEFINE b == [bulk[h] EXCEPT !.left = Tail(@), !.created = @ + count]
  <2>3. Goto(h, "add", b) /\ b.created = bulk[h].created + count
    BY <1>6, <2>2 DEF Advance
  <2> HIDE DEF b
  <2>4. /\ pc'[h] = "add" /\ bulk'[h] = b
        /\ \A g \in Handlers \ {h} : pc'[g] = pc[g] /\ bulk'[g] = bulk[g]
    BY <1>5, <2>3
  <2> QED BY <2>3, <2>4
<1>7. ASSUME NEW h \in Handlers, Bulk(h)
      PROVE  CountInv'
  <2>1. ASSUME NEW s \in Services, BulkDiscover(h, s)
        PROVE  CountInv'
    <3>1. [NoBulk(s) EXCEPT !.left = Discovered[s]].created = 0
      BY DEF NoBulk
    <3>2. /\ pc'[h] = "list" /\ bulk'[h].created = 0 /\ bulk[h].created = 0
          /\ \A g \in Handlers \ {h} : pc'[g] = pc[g] /\ bulk'[g] = bulk[g]
      BY <1>1, <1>5, <2>1, <3>1 DEF BulkDiscover
    <3> QED BY <1>1, <1>3, <2>1, <3>2 DEF BulkDiscover, ghosts
  <2>2. CASE BulkList(h)
    <3>1. PICK keys : Goto(h, "add", [bulk[h] EXCEPT !.exists = keys])
      BY <2>2 DEF BulkList
    <3>2. bulk[h] \in Bulks
      BY <1>1 DEF TypeOK
    <3>3. [bulk[h] EXCEPT !.exists = keys].created = bulk[h].created
      BY <3>2 DEF Bulks
    <3>4. /\ pc'[h] = "add" /\ bulk'[h].created = bulk[h].created
          /\ \A g \in Handlers \ {h} : pc'[g] = pc[g] /\ bulk'[g] = bulk[g]
      BY <1>5, <3>1, <3>3
    <3> QED BY <1>1, <1>3, <2>2, <3>4 DEF BulkList, ghosts
  <2>3. CASE BulkSkip(h) \/ BulkRefused(h)
    <3>1. Advance(h, 0) /\ UNCHANGED <<inserted, answered, unseen>>
      BY <2>3 DEF BulkSkip, BulkRefused, Undo, ghosts
    <3> QED BY <1>1, <1>2, <1>3, <1>6, <3>1
  <2>4. CASE BulkInsert(h)
    <3>1. /\ inserted' = inserted + 1 /\ UNCHANGED answered
          /\ \/ Advance(h, 1) /\ UNCHANGED unseen
             \/ Advance(h, 0) /\ unseen' = unseen + 1
      BY <2>4 DEF BulkInsert
    <3>2. CASE Advance(h, 1) /\ UNCHANGED unseen
      <4>1. IsFiniteSet(Counted') /\ Cardinality(Counted') = Cardinality(Counted) + 1
        BY <1>1, <1>6, <3>2, CountOne
      <4>2. CountsAddUp'
        BY <1>1, <1>2, <3>1, <3>2, <4>1 DEF CountsAddUp
      <4> QED BY <1>1, <1>6, <3>2, <4>1, <4>2 DEF CountInv
    <3>3. CASE Advance(h, 0) /\ unseen' = unseen + 1
      <4>1. UNCHANGED Counted
        BY <1>2, <1>6, <3>3, SameCounts
      <4>2. CountsAddUp'
        BY <1>1, <1>2, <3>1, <3>3, <4>1 DEF CountsAddUp
      <4> QED BY <1>1, <1>6, <3>3, <4>1, <4>2 DEF CountInv
    <3> QED BY <3>1, <3>2, <3>3
  <2>5. CASE BulkAnswer(h)
    <3>1. /\ answered' = answered + bulk[h].created /\ UNCHANGED <<inserted, unseen>>
          /\ Goto(h, "idle", Idle)
      BY <2>5 DEF BulkAnswer
    <3>2. Idle.created = 0
      BY DEF Idle, NoBulk
    <3>3. /\ IsFiniteSet(Counted')
          /\ Cardinality(Counted') = Cardinality(Counted) - bulk[h].created
      BY <1>1, <1>5, <3>1, <3>2, CountDone
    <3>4. CountsAddUp'
      BY <1>1, <1>2, <3>1, <3>3 DEF CountsAddUp
    <3> QED BY <1>1, <1>5, <3>1, <3>2, <3>3, <3>4 DEF CountInv
  <2> QED BY <1>7, <2>1, <2>2, <2>3, <2>4, <2>5 DEF Bulk
<1>8. CASE UNCHANGED vars
  BY <1>1, <1>3, <1>8 DEF vars, ghosts
<1> QED BY <1>4, <1>7, <1>8 DEF Next

(* The counts that bulk requests answer and have under way add up to the rows  *)
(* they inserted, but for those whose INSERT lost its answer, for any number   *)
(* of requests at once.                                                        *)
THEOREM CountsAreRows == Spec => []CountsAddUp
<1>1. Init => CountInv
  <2> SUFFICES ASSUME Init PROVE CountInv
    OBVIOUS
  <2>1. \A h \in Handlers : bulk[h].created = 0
    BY DEF Init, Idle, NoBulk
  <2>2. \A row : row \notin Counted
    BY <2>1, CountedRows
  <2>3. Counted = {}
    BY <2>2
  <2> QED BY <2>1, <2>3, InitType, FS_EmptySet DEF Init, CountInv, CountsAddUp
<1>2. CountInv => CountsAddUp
  BY DEF CountInv
<1> QED BY <1>1, <1>2, NextCount, PTL DEF Spec

=============================================================================
