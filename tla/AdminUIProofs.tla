---------------------------- MODULE AdminUIProofs ----------------------------
(* AdminUI for any number of services, requests under way and faults.          *)
EXTENDS AdminUI, FiniteSetTheorems, TLAPS

(* Requests, answers and pages taken by themselves.                            *)

LEMMA Follows ==
  /\ DOMAIN FollowUp = {"save", "probe", "write", "remove"}
  /\ FollowUp["save"] = "saved" /\ FollowUp["probe"] = "probed"
  /\ FollowUp["write"] = "written" /\ FollowUp["remove"] = "removed"
BY DEF FollowUp

LEMMA PageFacts ==
  ASSUME NEW p \in Pages
  PROVE  /\ p[1] \in {"home", "new"} \cup ServiceKinds
         /\ p[1] = "home" <=> p = <<"home">>
         /\ p[1] = "new" <=> p = <<"new">>
         /\ p[1] \in ServiceKinds => p[2] \in Ids
<1>1. CASE p = <<"home">>
  BY <1>1 DEF ServiceKinds
<1>2. CASE p = <<"new">>
  BY <1>2 DEF ServiceKinds
<1>3. CASE p \in ServiceKinds \X Ids
  BY <1>3 DEF ServiceKinds
<1> QED BY <1>1, <1>2, <1>3, UIAssumption DEF Pages

LEMMA RequestType ==
  ASSUME NEW op \in Reads \cup Changes, NEW p \in Pages, NEW floor \in Nat
  PROVE  /\ Request(op, p, floor) \in Call
         /\ Request(op, p, floor).op = op /\ Request(op, p, floor).page = p
         /\ Request(op, p, floor).step = "sent" /\ Request(op, p, floor).got = {}
         /\ Request(op, p, floor).floor = floor /\ Request(op, p, floor).here
BY DEF Request, Call

LEMMA NoCallType ==
  /\ NoCall \in Call /\ NoCall.op = "none" /\ NoCall.got = {}
BY DEF NoCall, Request, Call, Pages

LEMMA FailedType ==
  ASSUME NEW c \in Call
  PROVE  /\ Failed(c) \in Call
         /\ Failed(c).op = c.op /\ Failed(c).page = c.page /\ Failed(c).here = c.here
         /\ Failed(c).got = {} /\ Failed(c).floor = 0
BY DEF Failed, Call

LEMMA AnsweredType ==
  ASSUME NEW c \in Call, NEW step \in {"half", "ok"}
  PROVE  LET d == [c EXCEPT !.step = step]
         IN  /\ d \in Call /\ d.op = c.op /\ d.page = c.page /\ d.here = c.here
             /\ d.got = c.got /\ d.floor = c.floor
BY DEF Call

LEMMA ChangedType ==
  ASSUME NEW c \in Call, NEW floor \in Nat
  PROVE  LET d == [c EXCEPT !.step = "ok", !.floor = floor]
         IN  /\ d \in Call /\ d.op = c.op /\ d.page = c.page /\ d.here = c.here
             /\ d.got = c.got /\ d.floor = floor
BY DEF Call

-----------------------------------------------------------------------------
(* What is true of a request: where it belongs to, and what it has read,       *)
(* against what its handler has changed before.                                *)

(* Page p is open.                                                             *)
Fits(c, p) ==
  /\ c.op \in Reads => c.here
  /\ c.op # "none" /\ c.here => c.page[1] = p[1]
  /\ c.op = "create" => c.page[1] = "new"
  /\ c.op \in ListReads => c.page[1] = "home"
  /\ c.op \notin ListReads \cup {"create", "none"} => c.page[1] \in ServiceKinds
  /\ c.op = "get" => c.page = p

(* The routes are at the versions of rts, and no entry is older than lw.       *)
Backed(c, rts, lw) ==
  /\ c.op \in Reads \ ListReads => \A is \in c.got : is[1] = c.page[2]
  /\ c.op \in Rereads \cup Loads => \A is \in c.got : is[2] >= c.floor
  /\ c.op \in Rereads \cup {"save", "probe"} => c.floor <= lw[c.page[2]]
  /\ c.op \in Loads \cup {"write", "remove"} => c.floor <= rts[c.page[2]]

Good(c) == Fits(c, page) /\ Backed(c, routes, low)

Submission ==
  /\ \A s, t \in Slots : Submitting(s) /\ Submitting(t) => s = t
  /\ view.submitting <=> \E s \in Slots : Submitting(s)

LEMMA NoCallGood ==
  ASSUME NEW p, NEW rts, NEW lw
  PROVE  Fits(NoCall, p) /\ Backed(NoCall, rts, lw)
BY NoCallType DEF Fits, Backed, Reads, ListReads, Rereads, Loads

LEMMA ServiceOfCall ==
  ASSUME NEW c \in Call, NEW p, Fits(c, p), c.op \notin ListReads \cup {"create", "none"}
  PROVE  c.page[2] \in Ids
BY PageFacts DEF Fits, Call

LEMMA FailedGood ==
  ASSUME NEW c \in Call, NEW p, NEW rts \in [Ids -> Nat], NEW lw \in [Ids -> Nat], Fits(c, p)
  PROVE  Fits(Failed(c), p) /\ Backed(Failed(c), rts, lw)
<1>1. Fits(Failed(c), p)
  BY FailedType DEF Fits
<1>2. c.op \in Rereads \cup Loads \cup {"save", "probe", "write", "remove"} => c.page[2] \in Ids
  BY ServiceOfCall DEF ListReads, Rereads, Loads
<1>3. c.op \in Rereads \cup Loads \cup {"save", "probe", "write", "remove"} =>
        rts[c.page[2]] >= 0 /\ lw[c.page[2]] >= 0
  BY <1>2
<1> QED BY <1>1, <1>3, FailedType DEF Backed

(* Versions only grow.                                                         *)
LEMMA BackedGrows ==
  ASSUME NEW c \in Call, NEW p, Fits(c, p), NEW rts \in [Ids -> Nat], NEW lw \in [Ids -> Nat],
         NEW rtsNow \in [Ids -> Nat], NEW lwNow \in [Ids -> Nat],
         \A i \in Ids : rts[i] <= rtsNow[i] /\ lw[i] <= lwNow[i], Backed(c, rts, lw)
  PROVE  Backed(c, rtsNow, lwNow)
<1>1. c.op \in Rereads \cup Loads \cup {"save", "probe", "write", "remove"} => c.page[2] \in Ids
  BY ServiceOfCall DEF ListReads, Rereads, Loads
<1>2. c.floor \in Nat
  BY DEF Call
<1>3. c.op \in Rereads \cup {"save", "probe"} => c.floor <= lwNow[c.page[2]]
  BY <1>1, <1>2 DEF Backed
<1>4. c.op \in Loads \cup {"write", "remove"} => c.floor <= rtsNow[c.page[2]]
  BY <1>1, <1>2 DEF Backed
<1> QED BY <1>3, <1>4 DEF Backed

-----------------------------------------------------------------------------
(* Steps: the versions,                                                        *)

GatewayOK ==
  /\ server \in [Ids -> Nat] /\ \A i \in Ids : server[i] <= Gone(i)
  /\ routes \in [Ids -> Nat]
  /\ low \in [Ids -> Nat] /\ \A i \in Ids : low[i] <= server[i]

Grown == \A i \in Ids : server[i] <= server'[i] /\ routes[i] <= routes'[i] /\ low[i] <= low'[i]

(* A change of the table, after which the entries are dropped, or are not.     *)
LEMMA WriteGrows ==
  ASSUME GatewayOK, NEW i \in Ids, NEW v \in Nat, server[i] <= v, v <= Gone(i),
         server' = [server EXCEPT ![i] = v], routes' \in {routes, RoutesChanged(i)},
         low' \in {low, Invalidated(i)}
  PROVE  GatewayOK' /\ Grown
<1> USE UIAssumption DEF GatewayOK
<1>1. /\ server' \in [Ids -> Nat]
      /\ \A k \in Ids : server'[k] = IF k = i THEN v ELSE server[k]
  OBVIOUS
<1>2. /\ routes' \in [Ids -> Nat] /\ \A k \in Ids : routes[k] <= routes'[k]
  BY DEF RoutesChanged
<1>3. /\ low' \in [Ids -> Nat]
      /\ \A k \in Ids : low[k] <= low'[k] /\ low'[k] <= server'[k]
  <2>1. CASE low' = low
    BY <1>1, <2>1
  <2>2. CASE low' = [low EXCEPT ![i] = v]
    BY <1>1, <2>2
  <2> QED BY <1>1, <2>1, <2>2 DEF Invalidated
<1>4. \A k \in Ids : server[k] <= server'[k] /\ server'[k] <= Gone(k)
  BY <1>1
<1>5. (\A k \in Ids : server[k] <= Gone(k))'
  BY <1>4 DEF Gone
<1> QED BY <1>1, <1>2, <1>3, <1>4, <1>5 DEF Grown

LEMMA SameGrows ==
  ASSUME GatewayOK, UNCHANGED <<server, low>>,
         UNCHANGED routes \/ \E i \in Ids : routes' = RoutesChanged(i)
  PROVE  GatewayOK' /\ Grown
<1> USE UIAssumption DEF GatewayOK
<1>1. routes' \in [Ids -> Nat] /\ \A k \in Ids : routes[k] <= routes'[k]
  BY DEF RoutesChanged
<1> QED BY <1>1 DEF Grown, Gone

LEMMA VersionFacts ==
  ASSUME GatewayOK, NEW i \in Ids
  PROVE  /\ Gone(i) \in Nat /\ server[i] <= Gone(i)
         /\ NextVersion(i) \in Nat /\ server[i] <= NextVersion(i)
         /\ server[i] # Gone(i) => NextVersion(i) <= Gone(i)
         /\ i \in Existing => NextVersion(i) <= Gone(i)
         /\ 1 <= Gone(i)
BY UIAssumption DEF GatewayOK, Gone, NextVersion, Existing, ExistingIn

LEMMA WrittenLow ==
  ASSUME NEW s \in Slots, NEW i \in Ids, Written(s, i)
  PROVE  low' \in {low, Invalidated(i)}
BY DEF Written

LEMMA OtherGrows ==
  ASSUME GatewayOK, NEW i \in Ids, Other(i) \/ Expire(i)
  PROVE  GatewayOK' /\ Grown
<1>1. CASE OtherService(i)
  <2>1. PICK v \in {NextVersion(i), Gone(i)} :
          /\ server' = [server EXCEPT ![i] = v]
          /\ v = NextVersion(i) => server[i] # Gone(i) \/ v = Gone(i)
          /\ routes' \in {routes, RoutesChanged(i)}
    BY <1>1 DEF OtherService
  <2>2. v \in Nat /\ server[i] <= v /\ v <= Gone(i)
    BY <2>1, VersionFacts
  <2>3. low' \in {low, Invalidated(i)}
    BY <1>1 DEF OtherService
  <2> QED BY <2>1, <2>2, <2>3, WriteGrows
<1>2. CASE OtherRoute(i)
  BY <1>2, SameGrows DEF OtherRoute
<1>3. CASE Expire(i)
  BY <1>3 DEF Expire, GatewayOK, Grown, Gone
<1> QED BY <1>1, <1>2, <1>3 DEF Other

LEMMA ServeGrows ==
  ASSUME GatewayOK, NEW s \in Slots, ServeCreate(s) \/ ServeChange(s),
         ServeChange(s) => calls[s].page[2] \in Ids
  PROVE  GatewayOK' /\ Grown
<1>1. CASE ServeCreate(s)
  <2>1. CASE UNCHANGED <<server, low>>
    BY <1>1, <2>1, SameGrows DEF ServeCreate
  <2>2. ASSUME NEW i \in Ids, server[i] = 0, server' = [server EXCEPT ![i] = 1], Written(s, i)
        PROVE  GatewayOK' /\ Grown
    <3>1. server[i] <= 1 /\ 1 <= Gone(i)
      BY <2>2, VersionFacts
    <3>2. routes' \in {routes, RoutesChanged(i)}
      BY <1>1 DEF ServeCreate
    <3> QED BY <2>2, <3>1, <3>2, WrittenLow, WriteGrows
  <2> QED BY <1>1, <2>1, <2>2 DEF ServeCreate
<1>2. CASE ServeChange(s)
  <2>1. PICK i \in Ids : i = calls[s].page[2]
    BY <1>2
  <2>2. CASE ServeRoute(s, i)
    BY <2>1, <2>2, SameGrows DEF ServeRoute
  <2>3. CASE ServeService(s, i) /\ UNCHANGED gateway
    BY <2>3, SameGrows DEF gateway
  <2>4. CASE ServeService(s, i) /\ ~UNCHANGED gateway
    <3>1. PICK v \in {server[i], NextVersion(i), Gone(i)} :
            /\ server' = [server EXCEPT ![i] = v]
            /\ v = NextVersion(i) => i \in Existing \/ v \in {server[i], Gone(i)}
      <4>1. CASE i \notin Existing
        BY <2>4, <4>1 DEF ServeService, GatewayOK
      <4>2. CASE i \in Existing
        BY <2>4, <4>2 DEF ServeService
      <4> QED BY <4>1, <4>2
    <3>2. v \in Nat /\ server[i] <= v /\ v <= Gone(i)
      BY <3>1, VersionFacts DEF GatewayOK
    <3>3. routes' \in {routes, RoutesChanged(i)} /\ Written(s, i)
      BY <2>4 DEF ServeService
    <3> QED BY <3>1, <3>2, <3>3, WrittenLow, WriteGrows
  <2> QED BY <1>2, <2>1, <2>2, <2>3, <2>4 DEF ServeChange
<1> QED BY <1>1, <1>2

View == [shown : SUBSET Row, loading : BOOLEAN, submitting : BOOLEAN]

Kept == \* all of the invariant but the submissions
  /\ TypeOK
  /\ \A i \in Ids : low[i] <= server[i]
  /\ \A s \in Slots : Good(calls[s])

LEMMA Grows ==
  ASSUME Kept, [Next]_vars
  PROVE  GatewayOK' /\ Grown
<1>1. GatewayOK
  BY DEF Kept, TypeOK, GatewayOK
<1>2. CASE UNCHANGED gateway
  BY <1>1, <1>2, SameGrows DEF gateway
<1>3. ASSUME NEW s \in Slots, ServeCreate(s) \/ ServeChange(s)
      PROVE  GatewayOK' /\ Grown
  <2>1. ServeChange(s) => calls[s].page[2] \in Ids
    <3>1. calls[s] \in Call /\ Fits(calls[s], page)
      BY DEF Kept, TypeOK, Good
    <3>2. ServeChange(s) => calls[s].op \in {"delete", "save", "probe", "write", "remove"}
      BY Follows DEF ServeChange, Changes
    <3>3. ServeChange(s) => calls[s].op \notin ListReads \cup {"create", "none"}
      BY <3>2 DEF ListReads
    <3> QED BY <3>1, <3>3, ServiceOfCall
  <2> QED BY <1>1, <1>3, <2>1, ServeGrows
<1>4. ASSUME NEW s \in Slots, Act(s) \/ Poll(s) \/ Arrive(s) PROVE UNCHANGED gateway
  BY <1>4 DEF Act, Visit, Refetch, Create, Save, Probe, Delete, Write, Remove, Submit, SendCall,
              Poll, Arrive
<1>5. ASSUME NEW s \in Slots, ServeRead(s) \/ Lose(s) \/ Answer(s) PROVE UNCHANGED gateway
  BY <1>5 DEF ServeRead, Lose, Answer, ShowAnswer, ReadFails, ChangeDone, GoHome, ChangeFails
<1>6. CASE UNCHANGED vars
  BY <1>2, <1>6 DEF vars
<1> QED BY <1>1, <1>2, <1>3, <1>4, <1>5, <1>6, OtherGrows DEF Next, Serve

(* and the rest of the state, when one request changes and the page stays.     *)
LEMMA FitsHere ==
  ASSUME NEW c \in Call, NEW p, Fits(c, p), c.op # "none", c.here
  PROVE  c.page[1] = p[1]
BY DEF Fits

(* The requests after a step, taken together.                                  *)
LEMMA AllKept ==
  ASSUME Kept, [Next]_vars, page' \in Pages, view' \in View, leaving' \in BOOLEAN,
         calls' \in [Slots -> Call],
         \A t \in Slots : Fits(calls'[t], page') /\ Backed(calls'[t], routes', low')
  PROVE  Kept'
<1>1. GatewayOK'
  BY Grows
<1>2. \A t \in Slots : calls'[t].op # "none" /\ calls'[t].here => calls'[t].page[1] = page'[1]
  BY FitsHere
<1>3. TypeOK'
  BY <1>1, <1>2 DEF TypeOK, GatewayOK, View
<1>4. \A t \in Slots : Good(calls[t])'
  BY DEF Good, Fits, Backed
<1> QED BY <1>1, <1>3, <1>4 DEF Kept, GatewayOK

LEMMA StillBacked ==
  ASSUME Kept, [Next]_vars, NEW t \in Slots
  PROVE  /\ calls[t] \in Call /\ Fits(calls[t], page)
         /\ Backed(calls[t], routes, low) /\ Backed(calls[t], routes', low')
<1>1. GatewayOK' /\ Grown
  BY Grows
<1>2. calls[t] \in Call /\ Fits(calls[t], page) /\ Backed(calls[t], routes, low)
  BY DEF Kept, TypeOK, Good
<1>3. /\ routes \in [Ids -> Nat] /\ low \in [Ids -> Nat]
      /\ routes' \in [Ids -> Nat] /\ low' \in [Ids -> Nat]
  BY <1>1 DEF Kept, TypeOK, GatewayOK
<1> QED BY <1>1, <1>2, <1>3, BackedGrows DEF Grown

LEMMA OneCall ==
  ASSUME Kept, [Next]_vars, NEW s \in Slots, NEW c \in Call,
         calls' = [calls EXCEPT ![s] = c], page' = page, view' \in View, leaving' \in BOOLEAN,
         Fits(c, page), Backed(c, routes', low')
  PROVE  Kept'
<1>1. calls \in [Slots -> Call] /\ calls' \in [Slots -> Call] /\ page' \in Pages
  BY DEF Kept, TypeOK
<1>2. ASSUME NEW t \in Slots
      PROVE  Fits(calls'[t], page') /\ Backed(calls'[t], routes', low')
  <2>1. CASE t = s
    BY <1>1, <2>1
  <2>2. CASE t # s
    BY <1>1, <2>2, StillBacked
  <2> QED BY <2>1, <2>2
<1> QED BY <1>1, <1>2, AllKept

(* A request that was just sent has read nothing.                              *)
LEMMA SentGood ==
  ASSUME NEW op \in Reads \cup Changes, NEW p \in Pages, NEW floor \in Nat,
         NEW rts, NEW lw,
         op \in Rereads \cup {"save", "probe"} => floor <= lw[p[2]],
         op \in Loads \cup {"write", "remove"} => floor <= rts[p[2]]
  PROVE  Backed(Request(op, p, floor), rts, lw)
<1>1. PICK r \in Call :
        /\ r = Request(op, p, floor)
        /\ r.op = op /\ r.page = p /\ r.got = {} /\ r.floor = floor
  BY RequestType
<1>2. Backed(r, rts, lw)
  BY <1>1 DEF Backed
<1> QED BY <1>1, <1>2

(* One that follows nothing.                                                   *)
LEMMA FirstGood ==
  ASSUME NEW op \in Reads \cup Changes, NEW p \in Pages, NEW q, Fits(Request(op, p, 0), q),
         NEW rts \in [Ids -> Nat], NEW lw \in [Ids -> Nat]
  PROVE  Backed(Request(op, p, 0), rts, lw)
<1>1. PICK r \in Call : r = Request(op, p, 0) /\ r.op = op /\ r.page = p
  BY RequestType
<1>2. op \in Rereads \cup Loads \cup {"save", "probe", "write", "remove"} => p[2] \in Ids
  BY <1>1, ServiceOfCall DEF ListReads, Rereads, Loads
<1>3. op \in Rereads \cup Loads \cup {"save", "probe", "write", "remove"} =>
        0 <= rts[p[2]] /\ 0 <= lw[p[2]]
  BY <1>2
<1> QED BY <1>3, SentGood

(* A handler sends a request.                                                  *)
LEMMA SendKeeps ==
  ASSUME Kept, [Next]_vars, NEW s \in Slots, NEW op \in Reads \cup Changes, SendCall(op, s),
         view' \in View, Fits(Request(op, page, 0), page)
  PROVE  Kept'
<1>1. page \in Pages /\ leaving' \in BOOLEAN
  BY DEF Kept, TypeOK, SendCall
<1>2. routes' \in [Ids -> Nat] /\ low' \in [Ids -> Nat]
  BY Grows DEF GatewayOK
<1>3. Request(op, page, 0) \in Call /\ Backed(Request(op, page, 0), routes', low')
  BY <1>1, <1>2, RequestType, FirstGood
<1>4. calls' = [calls EXCEPT ![s] = Request(op, page, 0)] /\ page' = page
  BY DEF SendCall
<1> QED BY <1>1, <1>3, <1>4, OneCall

LEMMA ClicksKeep ==
  ASSUME Kept, [Next]_vars, NEW s \in Slots,
         \/ Poll(s) \/ Refetch(s) \/ Create(s) \/ Save(s)
         \/ Probe(s) \/ Delete(s) \/ Write(s) \/ Remove(s)
  PROVE  Kept'
<1> USE DEF Reads, ListReads, Rereads, Loads, Changes
<1>1. view \in View /\ page \in Pages
  BY DEF Kept, TypeOK, View
<1>2. PICK op \in Reads \cup Changes :
        /\ SendCall(op, s)
        /\ view' = [view EXCEPT !.loading = TRUE] \/ view' = [view EXCEPT !.submitting = TRUE]
           \/ view' = view
        /\ \/ op \in ListReads /\ page[1] = "home"
           \/ op = "create" /\ page[1] = "new"
           \/ op \in Changes \ {"create"} /\ page[1] \in ServiceKinds
  BY Follows
     DEF Poll, Refetch, Create, Save, Probe, Delete, Write, Remove, Submit, Buttons, ServiceKinds
<1>3. view' \in View
  BY <1>1, <1>2 DEF View
<1>4. Fits(Request(op, page, 0), page)
  <2>1. PICK r \in Call :
          /\ r = Request(op, page, 0)
          /\ r.op = op /\ r.page = page /\ r.here
    BY <1>1, RequestType
  <2>2. Fits(r, page)
    BY <1>2, <2>1, Follows DEF Fits, ServiceKinds
  <2> QED BY <2>1, <2>2
<1> QED BY <1>2, <1>3, <1>4, SendKeeps

(* The gateway works on a request.                                             *)
LEMMA WorkedKeeps ==
  ASSUME Kept, [Next]_vars, NEW s \in Slots, NEW c \in Call, UNCHANGED tab,
         calls' = [calls EXCEPT ![s] = c] \/ calls' = [calls EXCEPT ![s] = Failed(c)],
         c.op = calls[s].op, c.page = calls[s].page, c.here = calls[s].here,
         Backed(c, routes', low')
  PROVE  Kept'
<1>1. /\ view' \in View /\ page' = page /\ leaving' \in BOOLEAN
      /\ Fits(calls[s], page) /\ GatewayOK'
  BY Grows DEF Kept, TypeOK, View, Good, tab
<1>2. Fits(c, page)
  BY <1>1 DEF Fits
<1>3. Failed(c) \in Call /\ Fits(Failed(c), page) /\ Backed(Failed(c), routes', low')
  BY <1>1, <1>2, FailedType, FailedGood DEF GatewayOK
<1> QED BY <1>1, <1>2, <1>3, OneCall

LEMMA LostKeeps ==
  ASSUME Kept, [Next]_vars, NEW s \in Slots, UNCHANGED tab,
         calls' = [calls EXCEPT ![s] = Failed(calls[s])]
  PROVE  Kept'
BY StillBacked, WorkedKeeps

(* What the cache, or the table, can answer.                                   *)
LEMMA AnswerRows ==
  ASSUME GatewayOK
  PROVE  /\ \A rows \in Lists : rows \in SUBSET Row
         /\ \A i \in Ids : \A rows \in Services(i) : \A is \in rows :
              is \in Row /\ is[1] = i /\ is[2] \in Nat /\ low[i] <= is[2]
         /\ \A part \in SUBSET RowsOf(server) : part \in SUBSET Row
<1>1. ASSUME NEW srv PROVE RowsOf(srv) \in SUBSET Row
  <2>1. \A i \in ExistingIn(srv) : i \in Ids /\ srv[i] \in Nat
    BY UIAssumption DEF ExistingIn
  <2> QED BY <2>1 DEF RowsOf, Row
<1>2. ASSUME NEW i \in Ids, NEW rows \in Services(i), NEW is \in rows
      PROVE  is \in Row /\ is[1] = i /\ is[2] \in Nat /\ low[i] <= is[2]
  <2>1. PICK v \in Versions(i) : is = <<i, v>>
    BY DEF Services
  <2>2. v \in Nat /\ low[i] <= v
    BY DEF Versions, GatewayOK
  <2> QED BY <2>1, <2>2 DEF Row
<1> QED BY <1>1, <1>2 DEF Lists

(* A request of the page of a service, when its answer has been read.          *)
LEMMA ReadGood ==
  ASSUME Kept, [Next]_vars, NEW s \in Slots, UNCHANGED <<gateway, tab>>, NEW step \in {"half", "ok"},
         NEW c \in Call, c = calls[s], NEW got \in SUBSET Row,
         \/ calls' = [calls EXCEPT ![s] = [c EXCEPT !.step = step, !.got = got]]
         \/ calls' = [calls EXCEPT ![s] = Failed([c EXCEPT !.step = step, !.got = got])],
         c.op \notin ListReads => \A is \in got : is[1] = c.page[2],
         c.op \in Rereads \cup Loads => \A is \in got : is[2] >= c.floor
  PROVE  Kept'
<1>1. Backed(c, routes', low')
  BY StillBacked
<1>2. PICK d \in Call :
        /\ d = [c EXCEPT !.step = step, !.got = got]
        /\ d.op = c.op /\ d.page = c.page /\ d.here = c.here
        /\ d.got = got /\ d.floor = c.floor
  <2> DEFINE d == [c EXCEPT !.step = step, !.got = got]
  <2>1. /\ d \in Call /\ d.op = c.op /\ d.page = c.page /\ d.here = c.here
        /\ d.got = got /\ d.floor = c.floor
    BY DEF Call
  <2> QED BY <2>1
<1>3. Backed(d, routes', low')
  BY <1>1, <1>2 DEF Backed
<1> QED BY <1>2, <1>3, WorkedKeeps

LEMMA ServeReadKeeps ==
  ASSUME Kept, [Next]_vars, NEW s \in Slots, ServeRead(s)
  PROVE  Kept'
<1>1. PICK c \in Call : c = calls[s]
  BY DEF Kept, TypeOK
<1>2. UNCHANGED <<gateway, tab>> /\ c.op \in Reads
  BY <1>1 DEF ServeRead
<1>3. /\ GatewayOK /\ Fits(c, page) /\ Backed(c, routes, low) /\ c.floor \in Nat
  BY <1>1 DEF Kept, TypeOK, Good, GatewayOK, Call
<1>4. c.op \notin ListReads => c.page[2] \in Ids
  BY <1>2, <1>3, Follows, ServiceOfCall DEF Reads, ListReads, Rereads, Loads
<1>5. \A d : Reply(s, d) =>
        calls' = [calls EXCEPT ![s] = d] \/ calls' = [calls EXCEPT ![s] = Failed(d)]
  BY DEF Reply
<1>6. CASE c.op \in ListReads /\ (ServeGet(s, Lists) \/ ServeShortList(s))
  <2>1. c.op \notin Rereads \cup Loads
    BY <1>6 DEF ListReads, Rereads, Loads
  <2>2. CASE ServeShortList(s)
    <3>1. PICK part \in SUBSET RowsOf(server) :
            calls' = [calls EXCEPT ![s].step = "ok", ![s].got = part]
      BY <2>2 DEF ServeShortList
    <3>2. calls' = [calls EXCEPT ![s] = [calls[s] EXCEPT !.step = "ok", !.got = part]]
      BY <1>1, <3>1 DEF Kept, TypeOK, Call
    <3>3. part \in SUBSET Row
      BY <1>3, AnswerRows
    <3> QED BY <1>1, <1>2, <1>6, <2>1, <3>2, <3>3, ReadGood
  <2>3. CASE ServeGet(s, Lists)
    <3>1. PICK rows \in Lists : Reply(s, [calls[s] EXCEPT !.step = "ok", !.got = rows])
      BY <2>3 DEF ServeGet
    <3>2. rows \in SUBSET Row
      BY <1>3, AnswerRows
    <3>3. \/ calls' = [calls EXCEPT ![s] = [c EXCEPT !.step = "ok", !.got = rows]]
          \/ calls' = [calls EXCEPT ![s] = Failed([c EXCEPT !.step = "ok", !.got = rows])]
      BY <1>1, <1>5, <3>1
    <3> QED BY <1>1, <1>2, <1>6, <2>1, <3>2, <3>3, ReadGood
  <2> QED BY <1>6, <2>2, <2>3
<1>7. CASE c.op \in {"get"} \cup Rereads /\ ServeGet(s, Services(c.page[2]))
  <2>1. PICK rows \in Services(c.page[2]) :
          Reply(s, [calls[s] EXCEPT !.step = "ok", !.got = rows])
    BY <1>7 DEF ServeGet
  <2>2. c.page[2] \in Ids
    BY <1>4, <1>7 DEF ListReads, Rereads
  <2>3. /\ rows \in SUBSET Row
        /\ \A is \in rows : is[1] = c.page[2] /\ is[2] \in Nat /\ low[c.page[2]] <= is[2]
    BY <1>3, <2>2, AnswerRows
  <2>4. c.op \in Rereads \cup Loads => c.floor <= low[c.page[2]]
    BY <1>3, <1>7 DEF Backed, Rereads, Loads
  <2>5. low[c.page[2]] \in Nat
    BY <1>3, <2>2 DEF GatewayOK
  <2>6. c.op \in Rereads \cup Loads => \A is \in rows : is[2] >= c.floor
    BY <1>3, <2>3, <2>4, <2>5
  <2>7. \/ calls' = [calls EXCEPT ![s] = [c EXCEPT !.step = "ok", !.got = rows]]
        \/ calls' = [calls EXCEPT ![s] = Failed([c EXCEPT !.step = "ok", !.got = rows])]
    BY <1>1, <1>5, <2>1
  <2> QED BY <1>1, <1>2, <2>3, <2>6, <2>7, ReadGood
<1>8. CASE c.op \in Loads /\ ServeLoad(s, c.page[2])
  <2>1. c.page[2] \in Ids /\ routes[c.page[2]] \in Nat /\ c.floor <= routes[c.page[2]]
    BY <1>3, <1>4, <1>8 DEF Backed, ListReads, Loads, GatewayOK
  <2>2. PICK step \in {"half", "ok"} : step = IF c.step = "sent" THEN "half" ELSE "ok"
    OBVIOUS
  <2>3. CASE Reply(s, [c EXCEPT !.step = step])
    <3>1. PICK d \in Call :
            /\ d = [c EXCEPT !.step = step] /\ d.op = c.op /\ d.page = c.page /\ d.here = c.here
            /\ d.got = c.got /\ d.floor = c.floor
      BY AnsweredType
    <3>2. Backed(d, routes', low')
      BY <1>1, <3>1, StillBacked DEF Backed
    <3>3. UNCHANGED tab /\ (calls' = [calls EXCEPT ![s] = d] \/ calls' = [calls EXCEPT ![s] = Failed(d)])
      BY <1>2, <1>5, <2>3, <3>1
    <3> QED BY <1>1, <3>1, <3>2, <3>3, WorkedKeeps
  <2>4. CASE Reply(s, [[c EXCEPT !.step = step] EXCEPT !.got = {<<c.page[2], routes[c.page[2]]>>}])
    <3>1. PICK got \in SUBSET Row : got = {<<c.page[2], routes[c.page[2]]>>}
      <4>1. <<c.page[2], routes[c.page[2]]>> \in Row
        BY <2>1 DEF Row
      <4>2. {<<c.page[2], routes[c.page[2]]>>} \in SUBSET Row
        BY <4>1
      <4> QED BY <4>2
    <3>2. [[c EXCEPT !.step = step] EXCEPT !.got = got] = [c EXCEPT !.step = step, !.got = got]
      BY DEF Call
    <3>3. \A is \in got : is[1] = c.page[2] /\ is[2] >= c.floor
      BY <1>3, <2>1, <3>1
    <3>4. Reply(s, [c EXCEPT !.step = step, !.got = got])
      BY <2>4, <3>1, <3>2
    <3>5. \/ calls' = [calls EXCEPT ![s] = [c EXCEPT !.step = step, !.got = got]]
          \/ calls' = [calls EXCEPT ![s] = Failed([c EXCEPT !.step = step, !.got = got])]
      BY <1>5, <3>4
    <3>6. c.op \notin ListReads => \A is \in got : is[1] = c.page[2]
      BY <3>3
    <3>7. c.op \in Rereads \cup Loads => \A is \in got : is[2] >= c.floor
      BY <3>3
    <3> QED BY <1>1, <1>2, <2>2, <3>5, <3>6, <3>7, ReadGood
  <2> QED BY <1>1, <1>8, <2>2, <2>3, <2>4 DEF ServeLoad
<1>9. CASE Reply(s, Failed(c))
  <2>1. /\ Failed(c) \in Call
        /\ Failed(c).op = c.op /\ Failed(c).page = c.page /\ Failed(c).here = c.here
        /\ Backed(Failed(c), routes', low')
    BY <1>2, <1>3, FailedType, FailedGood DEF GatewayOK, gateway
  <2> QED BY <1>1, <1>2, <1>5, <1>9, <2>1, WorkedKeeps
<1> QED BY <1>1, <1>6, <1>7, <1>8, <1>9 DEF ServeRead

(* A change that was not answered yet knows no version; with its answer it     *)
(* knows the one it made, when no entry can be older.                          *)
LEMMA ChangeGood ==
  ASSUME Kept, [Next]_vars, NEW s \in Slots, UNCHANGED tab, calls[s].op \in Changes,
         NEW floor \in Nat, NEW d, d = [calls[s] EXCEPT !.step = "ok", !.floor = floor],
         calls' = [calls EXCEPT ![s] = d] \/ calls' = [calls EXCEPT ![s] = Failed(d)],
         calls[s].op \in {"save", "probe"} => floor <= low'[calls[s].page[2]],
         calls[s].op \in {"write", "remove"} => floor <= routes'[calls[s].page[2]]
  PROVE  Kept'
<1>1. calls[s] \in Call
  BY StillBacked
<1>2. /\ d \in Call /\ d.op = calls[s].op /\ d.page = calls[s].page /\ d.here = calls[s].here
      /\ d.got = calls[s].got /\ d.floor = floor
  BY <1>1, ChangedType
<1>3. d.op \notin Reads
  BY <1>2, Follows DEF Changes, Reads, ListReads, Rereads, Loads
<1>4. Backed(d, routes', low')
  BY <1>2, <1>3 DEF Backed, Reads
<1> QED BY <1>2, <1>4, WorkedKeeps

LEMMA FailedChange ==
  ASSUME Kept, [Next]_vars, NEW s \in Slots, UNCHANGED tab, Reply(s, Failed(calls[s]))
  PROVE  Kept'
<1>1. calls[s] \in Call /\ Fits(calls[s], page) /\ GatewayOK'
  BY StillBacked, Grows
<1>2. /\ Failed(calls[s]) \in Call
      /\ Failed(calls[s]).op = calls[s].op /\ Failed(calls[s]).page = calls[s].page
      /\ Failed(calls[s]).here = calls[s].here
      /\ Backed(Failed(calls[s]), routes', low')
  BY <1>1, FailedType, FailedGood DEF GatewayOK
<1> QED BY <1>2, WorkedKeeps DEF Reply

(* When the entries were dropped, none of them is older than the change.       *)
LEMMA WrittenKeeps ==
  ASSUME Kept, [Next]_vars, NEW s \in Slots, NEW i \in Ids, UNCHANGED tab, Written(s, i),
         calls[s].op \in {"create", "delete", "save", "probe"},
         calls[s].op \in {"save", "probe"} => calls[s].page[2] = i
  PROVE  Kept'
<1>1. PICK c \in Call : c = calls[s]
  BY DEF Kept, TypeOK
<1>2. GatewayOK' /\ Backed(c, routes', low') /\ c.op \in Changes
  BY <1>1, StillBacked, Grows DEF Changes, FollowUp
<1>3. CASE low' = Invalidated(i) /\ Reply(s, [[c EXCEPT !.step = "ok"] EXCEPT !.floor = server'[i]])
  <2>1. low'[i] = server'[i] /\ server'[i] \in Nat
    BY <1>2, <1>3 DEF Invalidated, GatewayOK, Kept, TypeOK
  <2>2. [[c EXCEPT !.step = "ok"] EXCEPT !.floor = server'[i]] = [c EXCEPT !.step = "ok", !.floor = server'[i]]
    BY DEF Call
  <2>3. PICK d : d = [c EXCEPT !.step = "ok", !.floor = server'[i]]
    OBVIOUS
  <2>4. calls' = [calls EXCEPT ![s] = d] \/ calls' = [calls EXCEPT ![s] = Failed(d)]
    BY <1>3, <2>2, <2>3 DEF Reply
  <2>5. server'[i] <= low'[i]
    BY <2>1
  <2>6. calls[s].op \in {"save", "probe"} => server'[i] <= low'[calls[s].page[2]]
    BY <2>5
  <2>7. calls[s].op \notin {"write", "remove"} /\ calls[s].op \in Changes
    BY <1>1, <1>2
  <2>8. d = [calls[s] EXCEPT !.step = "ok", !.floor = server'[i]]
    BY <1>1, <2>3
  <2> QED BY <2>1, <2>4, <2>6, <2>7, <2>8, ChangeGood
<1>4. CASE \E d \in {[c EXCEPT !.step = "ok"], Failed([c EXCEPT !.step = "ok"])} :
             calls' = [calls EXCEPT ![s] = d]
  <2>1. PICK d \in Call :
          /\ d = [c EXCEPT !.step = "ok"]
          /\ d.op = c.op /\ d.page = c.page /\ d.here = c.here /\ d.floor = c.floor /\ d.got = c.got
    BY AnsweredType
  <2>2. Backed(d, routes', low')
    BY <1>2, <2>1 DEF Backed
  <2> QED BY <1>1, <1>4, <2>1, <2>2, WorkedKeeps
<1> QED BY <1>1, <1>3, <1>4 DEF Written

LEMMA ServeChangeKeeps ==
  ASSUME Kept, [Next]_vars, NEW s \in Slots, ServeCreate(s) \/ ServeChange(s)
  PROVE  Kept'
<1>1. calls[s] \in Call /\ Fits(calls[s], page) /\ GatewayOK'
  BY StillBacked, Grows
<1>2. UNCHANGED tab
  BY DEF ServeCreate, ServeChange
<1>3. CASE Reply(s, Failed(calls[s]))
  BY <1>2, <1>3, FailedChange
<1>4. CASE ServeCreate(s)
  BY <1>2, <1>3, <1>4, WrittenKeeps DEF ServeCreate
<1>5. CASE ServeChange(s)
  <2>1. calls[s].op \in {"delete", "save", "probe", "write", "remove"}
    BY <1>5, Follows DEF ServeChange, Changes
  <2>2. PICK i \in Ids : i = calls[s].page[2]
    <3>1. calls[s].op \notin ListReads \cup {"create", "none"}
      BY <2>1 DEF ListReads
    <3> QED BY <1>1, <3>1, ServiceOfCall
  <2>3. CASE ServeService(s, i)
    BY <1>2, <1>3, <2>1, <2>2, <2>3, WrittenKeeps DEF ServeService
  <2>4. CASE ServeRoute(s, i)
    <3>1. calls[s].op \in Changes /\ calls[s].op \notin {"save", "probe"}
      BY <2>4, Follows DEF ServeRoute, Changes
    <3>2. routes'[i] \in Nat
      BY <1>1 DEF GatewayOK
    <3>3. CASE Reply(s, [calls[s] EXCEPT !.step = "ok", !.floor = routes'[i]])
      <4>1. PICK d : d = [calls[s] EXCEPT !.step = "ok", !.floor = routes'[i]]
        OBVIOUS
      <4>2. calls' = [calls EXCEPT ![s] = d] \/ calls' = [calls EXCEPT ![s] = Failed(d)]
        BY <3>3, <4>1 DEF Reply
      <4>3. routes'[i] <= routes'[i]
        BY <3>2
      <4> QED BY <1>2, <2>2, <3>1, <3>2, <4>1, <4>2, <4>3, ChangeGood
    <3> QED BY <1>3, <2>4, <3>3 DEF ServeRoute
  <2> QED BY <1>5, <2>2, <2>3, <2>4 DEF ServeChange
<1> QED BY <1>4, <1>5

(* What an answer does to the flags and the rows of the page.                  *)
LEMMA ClearedType ==
  ASSUME view \in View, NEW c, NEW shown \in SUBSET Row
  PROVE  /\ Cleared(c) \in View /\ Cleared(c).shown = view.shown
         /\ Cleared(c).submitting = IF c.op \in Submits THEN FALSE ELSE view.submitting
         /\ [Cleared(c) EXCEPT !.shown = shown] \in View
         /\ [Cleared(c) EXCEPT !.shown = shown].shown = shown
         /\ [Cleared(c) EXCEPT !.shown = shown].submitting = Cleared(c).submitting
BY DEF Cleared, View

(* A request ends.                                                             *)
LEMMA EndKeeps ==
  ASSUME Kept, [Next]_vars, NEW s \in Slots, calls' = [calls EXCEPT ![s] = NoCall],
         page' = page, view' \in View, leaving' \in BOOLEAN
  PROVE  Kept'
BY NoCallType, NoCallGood, OneCall

LEMMA EndsKeep ==
  ASSUME Kept, [Next]_vars, NEW s \in Slots,
         ShowAnswer(s) \/ ReadFails(s) \/ ChangeFails(s) \/ GoHome(s)
  PROVE  Kept'
<1>1. /\ view \in View /\ {} \in SUBSET Row /\ view.shown \in SUBSET Row
      /\ calls[s].got \in SUBSET Row
  BY DEF Kept, TypeOK, View, Call
<1>2. calls' = [calls EXCEPT ![s] = NoCall] /\ page' = page /\ leaving' \in BOOLEAN
  BY DEF ShowAnswer, ReadFails, ChangeFails, GoHome, Kept, TypeOK
<1>3. PICK shown \in {{}, view.shown, calls[s].got} :
        view' \in {[Cleared(calls[s]) EXCEPT !.shown = shown], Cleared(calls[s]), view}
  <2>1. Cleared(calls[s]).shown = view.shown
    BY <1>1, ClearedType
  <2> QED BY <2>1 DEF ShowAnswer, ReadFails, ChangeFails, GoHome
<1>4. shown \in SUBSET Row
  BY <1>1
<1>5. view' \in View
  <2>1. [Cleared(calls[s]) EXCEPT !.shown = shown] \in View /\ Cleared(calls[s]) \in View
    BY <1>1, <1>4, ClearedType
  <2> QED BY <1>1, <1>3, <2>1
<1> QED BY <1>2, <1>5, EndKeeps

(* A handler goes on to read what it changed.                                  *)
LEMMA DoneKeeps ==
  ASSUME Kept, [Next]_vars, NEW s \in Slots, ChangeDone(s)
  PROVE  Kept'
<1>1. PICK c \in Call : c = calls[s]
  BY DEF Kept, TypeOK
<1>2. /\ c.op \in DOMAIN FollowUp /\ page' = page /\ leaving' \in BOOLEAN
      /\ calls' = [calls EXCEPT ![s] =
                     IF c.here THEN Request(FollowUp[c.op], c.page, c.floor) ELSE NoCall]
      /\ view' = view \/ view' = [view EXCEPT !.loading = TRUE]
  BY <1>1 DEF ChangeDone, Kept, TypeOK
<1>3. view' \in View
  BY <1>2 DEF Kept, TypeOK, View
<1>4. CASE ~c.here
  BY <1>2, <1>3, <1>4, EndKeeps
<1>5. CASE c.here
  <2>1. /\ FollowUp[c.op] \in Rereads \cup Loads /\ FollowUp[c.op] # "get"
        /\ FollowUp[c.op] \in Reads /\ FollowUp[c.op] \notin ListReads \cup {"create", "none"}
        /\ FollowUp[c.op] \in Rereads <=> c.op \in {"save", "probe"}
        /\ FollowUp[c.op] \in Loads <=> c.op \in {"write", "remove"}
        /\ FollowUp[c.op] \notin {"save", "probe", "write", "remove"}
    BY <1>2, Follows DEF Rereads, Loads, Reads, ListReads
  <2>2. Fits(c, page) /\ c.page \in Pages /\ c.floor \in Nat /\ Backed(c, routes', low')
    BY <1>1, StillBacked DEF Call
  <2>3. c.page[1] = page[1] /\ c.page[1] \in ServiceKinds
    BY <1>2, <1>5, <2>2, Follows DEF Fits, ListReads
  <2>4. PICK r \in Call :
          /\ r = Request(FollowUp[c.op], c.page, c.floor)
          /\ r.op = FollowUp[c.op] /\ r.page = c.page /\ r.here
    BY <2>1, <2>2, RequestType
  <2>5. Fits(r, page)
    BY <2>1, <2>3, <2>4 DEF Fits
  <2>6. Backed(r, routes', low')
    <3>1. FollowUp[c.op] \in Rereads \cup {"save", "probe"} => c.floor <= low'[c.page[2]]
      BY <2>1, <2>2 DEF Backed
    <3>2. FollowUp[c.op] \in Loads \cup {"write", "remove"} => c.floor <= routes'[c.page[2]]
      BY <2>1, <2>2 DEF Backed
    <3> QED BY <2>1, <2>2, <2>4, <3>1, <3>2, SentGood
  <2> QED BY <1>2, <1>3, <1>5, <2>4, <2>5, <2>6, OneCall
<1> QED BY <1>4, <1>5

(* The tab goes to another page, or to the same one with another id.           *)
LEMMA OpenKeeps ==
  ASSUME Kept, [Next]_vars, NEW p \in Pages, p # page, NEW s \in Slots, Open(p, s)
  PROVE  Kept'
<1>1. /\ page \in Pages /\ view \in View /\ calls \in [Slots -> Call]
      /\ routes' \in [Ids -> Nat] /\ low' \in [Ids -> Nat]
  BY Grows DEF Kept, TypeOK, View, GatewayOK
<1>2. /\ page' = p /\ leaving' \in BOOLEAN
      /\ calls' = [t \in Slots |-> IF t = s THEN FirstRead(p) ELSE Left(calls[t], p)]
  BY DEF Open
<1>3. view' \in View
  BY <1>1 DEF Open, NewView, View
<1>4. ASSUME NEW t \in Slots
      PROVE  /\ calls'[t] \in Call /\ Fits(calls'[t], p) /\ Backed(calls'[t], routes', low')
  <2>1. CASE t = s
    <3>1. calls'[t] = FirstRead(p)
      BY <1>2, <2>1
    <3>2. CASE p[1] = "new"
      <4>1. FirstRead(p) = NoCall
        BY <3>2 DEF FirstRead
      <4> QED BY <3>1, <4>1, NoCallType, NoCallGood
    <3>3. ASSUME NEW op \in {"poll", "load", "get"}, FirstRead(p) = Request(op, p, 0),
                 op = "poll" <=> p[1] = "home", p[1] # "new"
          PROVE  calls'[t] \in Call /\ Fits(calls'[t], p) /\ Backed(calls'[t], routes', low')
      <4>1. op \in Reads
        BY DEF Reads, ListReads, Loads
      <4>2. PICK r \in Call : r = Request(op, p, 0) /\ r.op = op /\ r.page = p /\ r.here
        BY <4>1, RequestType
      <4>3. p[1] \in {"home"} \cup ServiceKinds
        BY <3>3, PageFacts
      <4>4. Fits(r, p)
        BY <3>3, <4>2, <4>3 DEF Fits, ListReads
      <4>5. Backed(r, routes', low')
        BY <1>1, <4>1, <4>2, <4>4, FirstGood
      <4> QED BY <3>1, <3>3, <4>2, <4>4, <4>5
    <3>4. p[1] \in {"home", "new", "detail", "explore", "routes"}
      BY PageFacts DEF ServiceKinds
    <3>5. p[1] # "new" => \E op \in {"poll", "load", "get"} :
                             FirstRead(p) = Request(op, p, 0) /\ (op = "poll" <=> p[1] = "home")
      BY <3>4 DEF FirstRead
    <3> QED BY <3>2, <3>3, <3>5
  <2>2. CASE t # s
    <3>1. PICK c \in Call : c = calls[t]
      BY <1>1
    <3>2. calls'[t] = Left(c, p)
      BY <1>2, <2>2, <3>1
    <3>3. Fits(c, page) /\ Backed(c, routes', low')
      BY <3>1, StillBacked
    <3>4. CASE Left(c, p) = NoCall
      BY <3>2, <3>4, NoCallType, NoCallGood
    <3>5. CASE c.op \in Changes /\ ~SameComponent(p) /\ Left(c, p) = [c EXCEPT !.here = FALSE]
      <4> DEFINE d == [c EXCEPT !.here = FALSE]
      <4>1. /\ d \in Call /\ d.op = c.op /\ d.page = c.page /\ d.got = c.got
            /\ d.floor = c.floor /\ ~d.here
        BY DEF Call
      <4> HIDE DEF d
      <4>2. c.op \notin Reads
        BY <3>5, Follows DEF Changes, Reads, ListReads, Rereads, Loads
      <4>3. Fits(d, p)
        BY <3>3, <4>1, <4>2 DEF Fits, Reads
      <4>4. Backed(d, routes', low')
        BY <3>3, <4>1 DEF Backed
      <4> QED BY <3>2, <3>5, <4>1, <4>3, <4>4 DEF d
    <3>6. CASE Left(c, p) = c /\ (c.op # "none" /\ c.here => SameComponent(p)) /\ c.op # "get"
      <4>1. Fits(c, p)
        BY <3>3, <3>6 DEF Fits, SameComponent
      <4> QED BY <3>2, <3>3, <3>6, <4>1
    <3>7. c.op \in Reads \cup Changes \cup {"none"}
      BY DEF Call
    <3>8. \/ Left(c, p) = NoCall
          \/ c.op \in Changes /\ ~SameComponent(p) /\ Left(c, p) = [c EXCEPT !.here = FALSE]
          \/ Left(c, p) = c /\ (c.op # "none" /\ c.here => SameComponent(p)) /\ c.op # "get"
      <4>1. CASE c.op \in Reads
        BY <4>1, Follows DEF Left, Changes, Reads, ListReads, Rereads, Loads
      <4>2. CASE c.op \in Changes
        BY <4>2, Follows DEF Left, Changes, Reads, ListReads, Rereads, Loads
      <4>3. CASE c.op = "none"
        BY <4>3, Follows DEF Left, Changes, Reads, ListReads, Rereads, Loads
      <4> QED BY <3>7, <4>1, <4>2, <4>3
    <3> QED BY <3>4, <3>5, <3>6, <3>8
  <2> QED BY <2>1, <2>2
<1>5. calls' \in [Slots -> Call]
  BY <1>2, <1>4
<1> QED BY <1>2, <1>3, <1>4, <1>5, AllKept

LEMMA NextKept == Kept /\ [Next]_vars => Kept'
<1> SUFFICES ASSUME Kept, [Next]_vars PROVE Kept'
  OBVIOUS
<1>1. ASSUME NEW s \in Slots, Act(s) \/ Poll(s) PROVE Kept'
  <2>1. ASSUME NEW p \in Pages, Visit(p, s) PROVE Kept'
    BY <2>1, OpenKeeps DEF Visit
  <2> QED BY <1>1, <2>1, ClicksKeep DEF Act
<1>2. ASSUME NEW s \in Slots, Serve(s) PROVE Kept'
  BY <1>2, ServeReadKeeps, ServeChangeKeeps DEF Serve
<1>3. ASSUME NEW s \in Slots, Lose(s) PROVE Kept'
  <2>1. calls' = [calls EXCEPT ![s] = Failed(calls[s])] /\ UNCHANGED tab
    BY <1>3 DEF Lose
  <2> QED BY <2>1, LostKeeps
<1>4. ASSUME NEW s \in Slots, Answer(s) PROVE Kept'
  BY <1>4, EndsKeep, DoneKeeps DEF Answer
<1>5. ASSUME UNCHANGED <<page, view, calls>>, leaving' \in BOOLEAN PROVE Kept'
  <2>1. /\ calls' \in [Slots -> Call] /\ page' \in Pages /\ view' \in View
        /\ calls' = calls /\ page' = page
    BY <1>5 DEF Kept, TypeOK, View
  <2>2. \A t \in Slots : Fits(calls'[t], page') /\ Backed(calls'[t], routes', low')
    BY <2>1, StillBacked
  <2> QED BY <1>5, <2>1, <2>2, AllKept
<1>6. leaving \in BOOLEAN
  BY DEF Kept, TypeOK
<1>7. ASSUME NEW s \in Slots, Arrive(s) PROVE Kept'
  <2>1. <<"home">> \in Pages
    BY DEF Pages
  <2> QED BY <1>5, <1>7, <2>1, OpenKeeps DEF Arrive
<1>8. ASSUME NEW i \in Ids, Other(i) \/ Expire(i) PROVE Kept'
  BY <1>5, <1>6, <1>8 DEF Other, OtherService, OtherRoute, Expire, tab
<1>9. CASE UNCHANGED vars
  BY <1>5, <1>6, <1>9 DEF vars, tab
<1> QED BY <1>1, <1>2, <1>3, <1>4, <1>7, <1>8, <1>9 DEF Next

-----------------------------------------------------------------------------
(* Submissions. A step leaves them as they are, or begins the only one, or     *)
(* ends it.                                                                    *)

Same ==
  /\ \A s \in Slots : Submitting(s)' <=> Submitting(s)
  /\ view'.submitting = view.submitting

None ==
  /\ \A s \in Slots : ~Submitting(s)'
  /\ view'.submitting = FALSE

LEMMA NoneSubmitting ==
  /\ ~(NoCall.op \in Submits)
  /\ \A op \in {"poll", "refetch", "get", "load", "probe", "delete", "remove", "probed", "removed"} :
       op \notin Submits
BY NoCallType DEF Submits

(* One request gives way to another.                                           *)
LEMMA SameButOne ==
  ASSUME Kept, NEW s \in Slots, NEW c, calls' = [calls EXCEPT ![s] = c],
         Submitting(s) <=> c.op \in Submits /\ c.here,
         view'.submitting = view.submitting
  PROVE  Same
BY DEF Same, Submitting, Kept, TypeOK

LEMMA ClicksSubmit ==
  ASSUME Kept, Submission, NEW s \in Slots,
         \/ Poll(s) \/ Refetch(s) \/ Create(s) \/ Save(s)
         \/ Probe(s) \/ Delete(s) \/ Write(s) \/ Remove(s)
  PROVE  Submission'
<1>1. view \in View /\ page \in Pages /\ calls \in [Slots -> Call]
  BY DEF Kept, TypeOK, View
<1>2. CASE \E op \in {"create", "save", "write"} : Submit(op, s)
  <2>1. PICK op \in {"create", "save", "write"} :
          /\ ~view.submitting /\ view'.submitting = TRUE
          /\ calls' = [calls EXCEPT ![s] = Request(op, page, 0)]
    BY <1>1, <1>2 DEF Submit, SendCall, View
  <2>2. op \in Reads \cup Changes /\ op \in Submits
    BY Follows DEF Changes, Submits
  <2>3. Request(op, page, 0).op = op /\ Request(op, page, 0).here
    BY <1>1, <2>2, RequestType
  <2>4. \A t \in Slots : Submitting(t)' <=> t = s
    BY <1>1, <2>1, <2>2, <2>3 DEF Submitting, Submission
  <2> QED BY <2>1, <2>4 DEF Submission
<1>3. CASE \E op \in {"poll", "refetch", "probe", "delete", "remove"} :
             /\ SendCall(op, s)
             /\ view' = view \/ view' = [view EXCEPT !.loading = TRUE]
  <2>1. PICK op \in {"poll", "refetch", "probe", "delete", "remove"} :
          /\ calls' = [calls EXCEPT ![s] = Request(op, page, 0)]
          /\ calls[s] = NoCall /\ view'.submitting = view.submitting
    BY <1>1, <1>3 DEF SendCall, Free, View
  <2>2. op \in Reads \cup Changes /\ op \notin Submits
    BY Follows DEF Changes, Submits, Reads, ListReads
  <2>3. Request(op, page, 0) \in Call /\ Request(op, page, 0).op = op
    BY <1>1, <2>2, RequestType
  <2>4. Same
    BY <2>1, <2>2, <2>3, NoneSubmitting, SameButOne DEF Submitting
  <2> QED BY <2>4 DEF Same, Submission
<1> QED BY <1>2, <1>3 DEF Poll, Refetch, Create, Save, Probe, Delete, Write, Remove

(* The gateway does not touch them,                                            *)
LEMMA ServeSubmits ==
  ASSUME Kept, NEW s \in Slots, Serve(s) \/ Lose(s)
  PROVE  Same
<1>1. PICK c \in Call : c = calls[s]
  BY DEF Kept, TypeOK
<1> DEFINE Kin(d) == d.op = c.op /\ d.here = c.here
<1>2. /\ \A d \in {[c EXCEPT !.step = "ok"], [c EXCEPT !.step = "half"]} : Kin(d) /\ Kin(Failed(d))
      /\ Kin(Failed(c)) /\ Kin(Failed(Failed(c)))
  BY DEF Call, Failed
<1>3. \A got : \A d \in {[c EXCEPT !.step = "ok", !.got = got],
                         [[c EXCEPT !.step = "ok"] EXCEPT !.got = got],
                         [[c EXCEPT !.step = "half"] EXCEPT !.got = got]} :
        Kin(d) /\ Kin(Failed(d))
  BY DEF Call, Failed
<1>4. \A floor : \A d \in {[c EXCEPT !.step = "ok", !.floor = floor],
                           [[c EXCEPT !.step = "ok"] EXCEPT !.floor = floor]} :
        Kin(d) /\ Kin(Failed(d))
  BY DEF Call, Failed
<1>5. UNCHANGED view
  BY DEF Serve, Lose, ServeRead, ServeCreate, ServeChange, tab
<1> HIDE DEF Kin
<1>6. ASSUME NEW d, Kin(d), calls' = [calls EXCEPT ![s] = d] PROVE Same
  BY <1>1, <1>5, <1>6, SameButOne DEF Submitting, Kin
<1>7. ASSUME NEW d, Kin(d), Kin(Failed(d)), Reply(s, d) PROVE Same
  BY <1>6, <1>7 DEF Reply
<1>8. CASE ServeRead(s)
  <2>1. ASSUME NEW answers, ServeGet(s, answers) PROVE Same
    BY <1>1, <1>3, <1>7, <2>1 DEF ServeGet
  <2>2. CASE ServeShortList(s)
    <3>1. PICK part : calls' = [calls EXCEPT ![s].step = "ok", ![s].got = part]
      BY <2>2 DEF ServeShortList
    <3>2. calls' = [calls EXCEPT ![s] = [c EXCEPT !.step = "ok", !.got = part]]
      BY <1>1, <3>1 DEF Kept, TypeOK, Call
    <3> QED BY <1>3, <1>6, <3>2
  <2>3. ASSUME NEW i, ServeLoad(s, i) PROVE Same
    BY <1>1, <1>2, <1>3, <1>7, <2>3 DEF ServeLoad
  <2> QED BY <1>1, <1>2, <1>7, <1>8, <2>1, <2>2, <2>3 DEF ServeRead
<1>9. ASSUME NEW i, Written(s, i) PROVE Same
  BY <1>1, <1>2, <1>4, <1>6, <1>7, <1>9 DEF Written
<1>10. CASE ServeCreate(s)
  BY <1>1, <1>2, <1>7, <1>9, <1>10 DEF ServeCreate
<1>11. CASE ServeChange(s)
  BY <1>1, <1>2, <1>4, <1>7, <1>9, <1>11 DEF ServeChange, ServeService, ServeRoute
<1>12. CASE Lose(s)
  BY <1>1, <1>2, <1>6, <1>12 DEF Lose
<1> QED BY <1>8, <1>10, <1>11, <1>12 DEF Serve

(* a change of page ends them or leaves them,                                  *)
LEMMA OpenSubmits ==
  ASSUME Kept, NEW p \in Pages, NEW s \in Slots, Open(p, s),
         ~Submitting(s)
  PROVE  Same \/ None
<1>1. /\ calls \in [Slots -> Call] /\ view \in View
      /\ calls' = [t \in Slots |-> IF t = s THEN FirstRead(p) ELSE Left(calls[t], p)]
  BY DEF Kept, TypeOK, View, Open
<1>2. ~Submitting(s)'
  <2>1. FirstRead(p) = NoCall \/ \E op \in {"poll", "load", "get"} : FirstRead(p) = Request(op, p, 0)
    <3>1. p[1] \in {"home", "new", "detail", "explore", "routes"}
      BY PageFacts DEF ServiceKinds
    <3> QED BY <3>1 DEF FirstRead
  <2>2. {"poll", "load", "get"} \subseteq Reads
    BY DEF Reads, ListReads, Loads
  <2>3. FirstRead(p).op \notin Submits
    <3>1. \A op \in {"poll", "load", "get"} : Request(op, p, 0).op = op
      BY <2>2, RequestType
    <3> QED BY <2>1, <3>1, NoneSubmitting
  <2> QED BY <1>1, <2>3 DEF Submitting
<1>3. CASE SameComponent(p)
  <2>1. view'.submitting = view.submitting
    BY <1>1, <1>3 DEF Open, View
  <2>2. ASSUME NEW t \in Slots, t # s PROVE Submitting(t)' <=> Submitting(t)
    <3>1. calls'[t] = calls[t] \/ (calls[t].op = "get" /\ calls'[t] = NoCall)
      BY <1>1, <1>3, <2>2 DEF Left
    <3> QED BY <3>1, NoneSubmitting DEF Submitting
  <2> QED BY <1>2, <1>3, <2>1, <2>2 DEF Same
<1>4. CASE ~SameComponent(p)
  <2>1. view'.submitting = FALSE
    BY <1>4 DEF Open, NewView
  <2>2. ASSUME NEW t \in Slots, t # s PROVE ~Submitting(t)'
    <3>1. PICK c \in Call : c = calls[t] /\ calls'[t] = Left(c, p)
      BY <1>1, <2>2
    <3>2. CASE c.op = "none"
      BY <1>4, <3>1, <3>2, NoCallType, NoneSubmitting DEF Left, Submitting, Submits
    <3>3. CASE c.op \in Reads
      BY <1>4, <3>1, <3>3, NoneSubmitting DEF Left, Submitting
    <3>4. CASE c.op \in Changes
      <4>1. c.op \notin Reads
        BY <3>4, Follows DEF Changes, Reads, ListReads, Rereads, Loads
      <4>2. Left(c, p) = [c EXCEPT !.here = FALSE]
        BY <1>4, <3>4, <4>1 DEF Left
      <4>3. ~[c EXCEPT !.here = FALSE].here
        BY DEF Call
      <4> QED BY <3>1, <4>2, <4>3 DEF Submitting
    <3> QED BY <3>2, <3>3, <3>4 DEF Call
  <2> QED BY <1>2, <2>1, <2>2 DEF None
<1> QED BY <1>3, <1>4

(* and an answer ends the one it is of.                                        *)
LEMMA AnswerSubmits ==
  ASSUME Kept, Submission, NEW s \in Slots, Answer(s)
  PROVE  Same \/ None
<1>1. PICK c \in Call : c = calls[s]
  BY DEF Kept, TypeOK
<1>2. view \in View /\ Fits(c, page) /\ calls \in [Slots -> Call]
  BY <1>1 DEF Kept, TypeOK, View, Good
<1>3. ASSUME calls' = [calls EXCEPT ![s] = NoCall],
             view'.submitting = IF c.op \in Submits THEN FALSE ELSE view.submitting,
             c.op \in Submits => c.here
      PROVE  Same \/ None
  <2>1. \A t \in Slots : Submitting(t)' <=> t # s /\ Submitting(t)
    BY <1>2, <1>3, NoneSubmitting DEF Submitting
  <2>2. CASE c.op \in Submits
    <3>1. Submitting(s)
      BY <1>1, <1>3, <2>2 DEF Submitting
    <3> QED BY <1>3, <2>1, <2>2, <3>1 DEF None, Submission
  <2>3. CASE c.op \notin Submits
    BY <1>1, <1>3, <2>1, <2>3 DEF Same, Submitting
  <2> QED BY <2>2, <2>3
<1>4. CASE ShowAnswer(s) \/ ReadFails(s) \/ ((ChangeFails(s) \/ GoHome(s)) /\ c.here)
  <2>1. calls' = [calls EXCEPT ![s] = NoCall]
    BY <1>4 DEF ShowAnswer, ReadFails, ChangeFails, GoHome
  <2>2. view'.submitting = IF c.op \in Submits THEN FALSE ELSE view.submitting
    <3>1. /\ Cleared(c).shown = view.shown
          /\ {} \in SUBSET Row /\ view.shown \in SUBSET Row /\ c.got \in SUBSET Row
      BY <1>2, ClearedType DEF View, Call
    <3>2. PICK shown \in {{}, view.shown, c.got} :
            view' \in {[Cleared(c) EXCEPT !.shown = shown], Cleared(c)}
      BY <1>1, <1>4, <3>1 DEF ShowAnswer, ReadFails, ChangeFails, GoHome
    <3>3. shown \in SUBSET Row
      BY <3>1
    <3>4. CASE view' = [Cleared(c) EXCEPT !.shown = shown]
      BY <1>2, <3>3, <3>4, ClearedType
    <3>5. CASE view' = Cleared(c)
      BY <1>2, <3>1, <3>5, ClearedType
    <3> QED BY <3>2, <3>4, <3>5
  <2>3. c.here
    BY <1>1, <1>2, <1>4 DEF ShowAnswer, ReadFails, Fits
  <2> QED BY <1>3, <2>1, <2>2, <2>3
<1>5. CASE (ChangeFails(s) \/ GoHome(s)) /\ ~c.here
  BY <1>1, <1>5, NoneSubmitting, SameButOne DEF ChangeFails, GoHome, Submitting
<1>6. CASE ChangeDone(s)
  <2>1. view'.submitting = view.submitting
    BY <1>2, <1>6 DEF ChangeDone, View
  <2>2. CASE ~c.here
    <3>1. calls' = [calls EXCEPT ![s] = NoCall]
      BY <1>1, <1>6, <2>2 DEF ChangeDone
    <3> QED BY <1>1, <2>1, <2>2, <3>1, NoneSubmitting, SameButOne DEF Submitting
  <2>3. CASE c.here
    <3>1. c.op \in DOMAIN FollowUp /\ FollowUp[c.op] \in Reads
          /\ (FollowUp[c.op] \in Submits <=> c.op \in Submits)
      BY <1>1, <1>6, Follows DEF ChangeDone, Reads, Rereads, Loads, Submits
    <3>2. PICK r : /\ r = Request(FollowUp[c.op], c.page, c.floor)
                   /\ r.op = FollowUp[c.op] /\ r.here
      BY <3>1, RequestType DEF Call
    <3>3. calls' = [calls EXCEPT ![s] = r]
      BY <1>1, <1>6, <2>3, <3>2 DEF ChangeDone
    <3> QED BY <1>1, <2>1, <2>3, <3>1, <3>2, <3>3, SameButOne DEF Submitting
  <2> QED BY <2>2, <2>3
<1> QED BY <1>4, <1>5, <1>6 DEF Answer

-----------------------------------------------------------------------------
(* The invariant.                                                              *)

UIInv == Kept /\ Submission

LEMMA InitUI == Init => UIInv
<1> SUFFICES ASSUME Init PROVE UIInv
  OBVIOUS
<1>1. /\ page = <<"home">> /\ page \in Pages /\ page[1] = "home"
      /\ view = NewView(page) /\ view \in View /\ view.submitting = FALSE /\ leaving \in BOOLEAN
  BY DEF Init, NewView, View, Pages
<1>2. /\ server \in [Ids -> Nat] /\ \A i \in Ids : server[i] <= Gone(i)
      /\ routes \in [Ids -> Nat]
      /\ low \in [Ids -> Nat] /\ \A i \in Ids : low[i] <= server[i]
  BY UIAssumption DEF Init, Gone
<1>3. PICK first \in Call :
        /\ first = Request("poll", page, 0)
        /\ first.op = "poll" /\ first.page = page /\ first.here
  <2>1. "poll" \in Reads
    BY DEF Reads, ListReads
  <2> QED BY <1>1, <2>1, RequestType
<1>4. calls = [s \in Slots |-> IF s = 1 THEN first ELSE NoCall]
  BY <1>3 DEF Init
<1>5. Fits(first, page) /\ Backed(first, routes, low)
  <2>1. Fits(first, page)
    BY <1>1, <1>3 DEF Fits, ListReads
  <2> QED BY <1>1, <1>2, <1>3, <2>1, FirstGood DEF Reads, ListReads
<1>6. \A s \in Slots : calls[s] \in Call /\ Good(calls[s])
  BY <1>4, <1>5, NoCallType, NoCallGood DEF Good
<1>7. TypeOK
  <2>1. \A s \in Slots : calls[s].op # "none" /\ calls[s].here => calls[s].page[1] = page[1]
    BY <1>1, <1>3, <1>4, NoCallType
  <2> QED BY <1>1, <1>2, <1>4, <1>6, <2>1, NoCallType DEF TypeOK, View
<1>8. \A s \in Slots : ~Submitting(s)
  BY <1>3, <1>4, NoneSubmitting DEF Submitting
<1> QED BY <1>1, <1>2, <1>6, <1>7, <1>8 DEF UIInv, Kept, Submission

LEMMA NextUI == UIInv /\ [Next]_vars => UIInv'
<1> SUFFICES ASSUME UIInv, [Next]_vars PROVE UIInv'
  OBVIOUS
<1>1. Kept /\ Submission /\ Kept'
  BY NextKept DEF UIInv
<1>2. CASE Same \/ None
  BY <1>1, <1>2 DEF Same, None, Submission, UIInv
<1>3. CASE UNCHANGED <<view, calls>>
  BY <1>2, <1>3 DEF Same, Submitting
<1>4. ASSUME NEW s \in Slots, NEW p \in Pages, Free(s), Open(p, s) PROVE UIInv'
  <2>1. ~Submitting(s)
    BY <1>4, NoneSubmitting DEF Free, Submitting
  <2> QED BY <1>1, <1>2, <1>4, <2>1, OpenSubmits
<1>5. ASSUME NEW s \in Slots, Act(s) \/ Poll(s) PROVE UIInv'
  <2>1. CASE \E p \in Pages : Visit(p, s)
    BY <1>4, <2>1 DEF Visit
  <2>2. CASE \/ Poll(s) \/ Refetch(s) \/ Create(s) \/ Save(s)
             \/ Probe(s) \/ Delete(s) \/ Write(s) \/ Remove(s)
    BY <1>1, <2>2, ClicksSubmit DEF UIInv
  <2> QED BY <1>5, <2>1, <2>2 DEF Act
<1>6. ASSUME NEW s \in Slots, Arrive(s) PROVE UIInv'
  <2>1. <<"home">> \in Pages
    BY DEF Pages
  <2> QED BY <1>3, <1>4, <1>6, <2>1 DEF Arrive
<1>7. ASSUME NEW s \in Slots, Serve(s) \/ Lose(s) \/ Answer(s) PROVE UIInv'
  BY <1>1, <1>2, <1>7, ServeSubmits, AnswerSubmits
<1>8. ASSUME NEW i \in Ids, Other(i) \/ Expire(i) PROVE UIInv'
  BY <1>3, <1>8 DEF Other, OtherService, OtherRoute, Expire, tab
<1>9. CASE UNCHANGED vars
  BY <1>3, <1>9 DEF vars, tab
<1> QED BY <1>5, <1>6, <1>7, <1>8, <1>9 DEF Next

LEMMA UIInvariant == Spec => []UIInv
BY InitUI, NextUI, PTL DEF Spec

-----------------------------------------------------------------------------

(* Types, and an answer only comes to the component that asked.                *)
THEOREM TypeCorrect == Spec => []TypeOK
<1>1. UIInv => TypeOK
  BY DEF UIInv, Kept
<1> QED BY <1>1, UIInvariant, PTL

(* At most one submission of the open page is under way, and its buttons are   *)
(* locked just as long, for any number of requests ([id].js, new.js,           *)
(* routes.js); before a push arrives the form can be sent again.               *)
THEOREM SubmittedOnce == Spec => []OneSubmission
<1>1. UIInv => OneSubmission
  <2> SUFFICES ASSUME UIInv PROVE OneSubmission
    OBVIOUS
  <2> DEFINE S == {s \in Slots : Submitting(s)}
  <2>1. Cardinality(S) <= 1
    <3>1. CASE S = {}
      BY <3>1, FS_EmptySet
    <3>2. CASE S # {}
      <4>1. PICK s \in Slots : S = {s}
        BY <3>2 DEF UIInv, Submission
      <4> QED BY <4>1, FS_Singleton
    <3> QED BY <3>1, <3>2
  <2> QED BY <2>1 DEF OneSubmission, UIInv, Submission
<1> QED BY <1>1, UIInvariant, PTL

(* What a handler reads after its change has the change in it, if the entries  *)
(* were dropped for it: whatever others do between the two requests, and       *)
(* whichever of their DELs fail, through CachingRepository too.                *)
THEOREM ChangesAreRead == Spec => []ReadsOwnChange
<1>1. UIInv => ReadsOwnChange
  BY DEF UIInv, Kept, Good, Backed, ReadsOwnChange
<1> QED BY <1>1, UIInvariant, PTL

(* Only an answer brings a page rows it did not show.                          *)
LEMMA ShownByAnswer ==
  ASSUME [Next]_vars, Kept, view'.shown # view.shown, view'.shown # {}
  PROVE  \E s \in Slots : ShowAnswer(s)
<1>1. view \in View
  BY DEF Kept, TypeOK, View
<1>2. view' # view
  OBVIOUS
<1>3. ASSUME NEW s \in Slots, Act(s) \/ Poll(s) \/ Arrive(s) PROVE FALSE
  BY <1>1, <1>3 DEF Act, Poll, Visit, Arrive, Open, NewView, Refetch, Create, Save, Probe, Delete,
                    Write, Remove, Submit, SendCall, View
<1>4. ASSUME NEW s \in Slots, Serve(s) \/ Lose(s) PROVE FALSE
  BY <1>2, <1>4 DEF Serve, ServeRead, ServeCreate, ServeChange, Lose, tab
<1>5. ASSUME NEW s \in Slots, ReadFails(s) \/ ChangeDone(s) \/ GoHome(s) \/ ChangeFails(s)
      PROVE  FALSE
  BY <1>1, <1>5 DEF ReadFails, ChangeDone, GoHome, ChangeFails, Cleared, View
<1>6. ASSUME NEW i \in Ids, Other(i) \/ Expire(i) PROVE FALSE
  BY <1>2, <1>6 DEF Other, OtherService, OtherRoute, Expire, tab
<1> QED BY <1>2, <1>3, <1>4, <1>5, <1>6 DEF Next, Answer, vars, tab

(* Only a navigation changes the page, and it brings no rows: it empties the   *)
(* page, or leaves what its component shows.                                   *)
LEMMA PageByOpen ==
  ASSUME [Next]_vars, Kept, page' # page
  PROVE  view'.shown = {} \/ (page'[1] = page[1] /\ view'.shown = view.shown)
<1>1. view \in View
  BY DEF Kept, TypeOK, View
<1>2. ASSUME NEW p, NEW s, Open(p, s)
      PROVE  view'.shown = {} \/ (page'[1] = page[1] /\ view'.shown = view.shown)
  BY <1>1, <1>2 DEF Open, NewView, SameComponent, View
<1>3. ASSUME NEW s \in Slots, Act(s) \/ Poll(s) \/ Arrive(s)
      PROVE  \E p : Open(p, s)
  BY <1>3 DEF Act, Poll, Visit, Arrive, Refetch, Create, Save, Probe, Delete, Write, Remove,
              Submit, SendCall
<1>4. ASSUME NEW s \in Slots, Serve(s) \/ Lose(s) \/ Answer(s) PROVE FALSE
  BY <1>4 DEF Serve, ServeRead, ServeCreate, ServeChange, Lose, tab, Answer, ShowAnswer, ReadFails,
              ChangeDone, GoHome, ChangeFails
<1>5. ASSUME NEW i \in Ids, Other(i) \/ Expire(i) PROVE FALSE
  BY <1>5 DEF Other, OtherService, OtherRoute, Expire, tab
<1> QED BY <1>2, <1>3, <1>4, <1>5 DEF Next, vars, tab

(* A page comes to show another service than its address names by a change of  *)
(* the address, which leaves what is shown, or by the answer to what a button  *)
(* or load() asked for under the address before; for any number of both.       *)
THEOREM ForeignInTwoWays == Spec => ForeignByAddressOrUnguarded
<1>1. UIInv /\ [Next]_vars =>
        [Foreign(page', view'.shown) /\ (page' # page \/ view'.shown # view.shown) =>
           \/ page' # page /\ page'[1] = page[1] /\ view'.shown = view.shown
           \/ \E s \in Slots :
                /\ calls[s].op \in Rereads \cup Loads
                /\ calls[s].page # page
                /\ calls'[s] = NoCall]_vars
  <2> SUFFICES ASSUME UIInv, [Next]_vars, Foreign(page', view'.shown),
                      page' # page \/ view'.shown # view.shown,
                      ~(page' # page /\ page'[1] = page[1] /\ view'.shown = view.shown)
               PROVE  \E s \in Slots :
                        /\ calls[s].op \in Rereads \cup Loads
                        /\ calls[s].page # page
                        /\ calls'[s] = NoCall
    OBVIOUS
  <2>1. PICK is \in view'.shown : is[1] # page'[2] /\ page'[1] \in ServiceKinds
    BY DEF Foreign
  <2>2. page' = page
    BY <2>1, PageByOpen DEF UIInv
  <2>3. PICK s \in Slots : ShowAnswer(s)
    BY <2>1, <2>2, ShownByAnswer DEF UIInv
  <2>4. calls'[s] = NoCall /\ view'.shown = calls[s].got /\ calls[s].op \in Reads
    BY <2>3 DEF ShowAnswer, UIInv, Kept, TypeOK, Cleared
  <2>5. Fits(calls[s], page) /\ Backed(calls[s], routes, low) /\ calls[s] \in Call
    BY DEF UIInv, Kept, Good, TypeOK
  <2>6. calls[s].op \notin ListReads
    BY <2>1, <2>2, <2>4, <2>5 DEF Fits, ServiceKinds, ListReads
  <2>7. is[1] = calls[s].page[2]
    BY <2>1, <2>4, <2>5, <2>6 DEF Backed
  <2>8. calls[s].page # page
    BY <2>1, <2>2, <2>7
  <2>9. calls[s].op \in Rereads \cup Loads
    BY <2>4, <2>5, <2>6, <2>8 DEF Reads, Fits
  <2> QED BY <2>4, <2>8, <2>9
<1> QED BY <1>1, UIInvariant, PTL DEF Spec, ForeignByAddressOrUnguarded

=============================================================================
