----------------------------- MODULE Discovery -----------------------------
(* A gRPC upstream (main.go and the generated *_grpc.pb.go of user-service,    *)
(* catalog-service and orders-service, which are alike) and the two requests   *)
(* of the gateway that ask it by reflection what it offers:                    *)
(* discoverGRPCMethods (internal/admin/discover.go), for the handlers          *)
(* DiscoverRoutes and BulkAddDiscoveredRoutes, and ServeWithParams             *)
(* (internal/grpcjson/transcoder.go). Each call of a request is a step, and    *)
(* the upstream may end and come back as another release between two of them.  *)
(* What is sent and answered is abstracted to the release that describes it.   *)
EXTENDS RouteKeys

CONSTANTS
  Handlers,  \* the requests under way at once
  Releases,  \* of the upstream
  Services,  \* the gRPC services of some release
  Offers,    \* of a release: the names of the methods of each of its services
  Lossy      \* a connection may break at any call

(* What reflection.Register registers itself as.                               *)
V1Alpha == "grpc.reflection.v1alpha.ServerReflection"
V1 == "grpc.reflection.v1.ServerReflection"

Word(w) == [letter |-> w, upper |-> TRUE]

Info == <<Word("server"), Word("reflection"), Word("info")>>

(* The ServiceDesc of each upstream in the repository: one unary method.       *)
UserService == [service |-> "my.user.v1.UserService", method |-> <<Word("list"), Word("users")>>]
CatalogService ==
  [service |-> "my.catalog.v1.CatalogService", method |-> <<Word("list"), Word("products")>>]
OrdersService == [service |-> "my.orders.v1.OrdersService", method |-> <<Word("list"), Word("orders")>>]

ASSUME DiscoveryAssumption ==
  /\ {V1Alpha, V1} \cap Services = {}
  /\ Offers \in [Releases -> [Services -> SUBSET Names]]
  /\ Info \in Names
  /\ Lossy \in BOOLEAN

VARIABLES
  grpc,     \* the gRPC side of the process: down, starting, bound or serving
  http,     \* its HTTP side, with /healthz and /readyz: down, starting or up
  release,  \* what the process was built from
  pc,       \* where each request stands
  todo,     \* the services it has still to resolve
  found,    \* the methods it has found
  target,   \* the method it is to call, and the release it described it by
  seen,     \* the releases that ran since it began
  missed    \* the services it left out because a call failed

process == <<grpc, http, release>>
ghosts == <<seen, missed>>
vars == <<process, pc, todo, found, target, ghosts>>

(* What a process registers: the services of its release, and reflection.      *)
MethodsOf(r, s) == IF s \in Services THEN Offers[r][s] ELSE {Info}

Registered(r) == {s \in Services : Offers[r][s] # {}} \cup {V1Alpha, V1}

MethodsIn(r, services) ==
  UNION {{<<s, m>> : m \in MethodsOf(r, s)} : s \in services \cap Registered(r)}

NoTarget == [service |-> V1, method |-> Info, built |-> {}]

Init ==
  /\ grpc = "down" /\ http = "down"
  /\ release \in Releases
  /\ pc = [h \in Handlers |-> "idle"]
  /\ todo = [h \in Handlers |-> {}] /\ found = [h \in Handlers |-> {}]
  /\ target = [h \in Handlers |-> NoTarget]
  /\ seen = [h \in Handlers |-> {}] /\ missed = [h \in Handlers |-> {}]

-----------------------------------------------------------------------------
(* The process of the upstream.                                                *)

Upstream == UNCHANGED <<pc, todo, found, target, missed>>

(* main: the HTTP server in a goroutine, the gRPC server after it.             *)
Start ==
  /\ grpc = "down"
  /\ release' \in Releases
  /\ grpc' = "starting" /\ http' = "starting"
  /\ seen' = [h \in Handlers |-> IF pc[h] = "idle" THEN {} ELSE seen[h] \cup {release'}]
  /\ Upstream

(* /healthz and /readyz are answered from here on, whatever the other side     *)
(* does; or the port is taken, which is logged and no more.                    *)
ListenHTTP ==
  /\ http = "starting"
  /\ http' \in {"up", "down"}
  /\ UNCHANGED <<grpc, release, seen>> /\ Upstream

ListenGRPC ==
  /\ grpc = "starting"
  /\ grpc' = "bound"
  /\ UNCHANGED <<http, release, seen>> /\ Upstream

Serve ==
  /\ grpc = "bound"
  /\ grpc' = "serving"
  /\ UNCHANGED <<http, release, seen>> /\ Upstream

(* Mutation of End: the error is logged, as that of the HTTP server is.        *)
EndGRPC ==
  /\ grpc # "down"
  /\ grpc' = "down"
  /\ UNCHANGED <<http, release, seen>> /\ Upstream

(* log.Fatalf of either gRPC error, or the process is stopped.                 *)
End ==
  /\ grpc # "down"
  /\ grpc' = "down" /\ http' = "down"
  /\ UNCHANGED <<release, seen>> /\ Upstream

-----------------------------------------------------------------------------
(* The requests. Dialling does not wait for the connection; a call waits while *)
(* the port is bound, and fails if nothing listens or the connection breaks.   *)

Serving == grpc = "serving"

CallFails == grpc \in {"down", "starting"} \/ Lossy

Goto(h, label) == pc' = [pc EXCEPT ![h] = label]

Begin(h) ==
  /\ pc[h] = "idle"
  /\ seen' = [seen EXCEPT ![h] = IF grpc = "down" THEN {} ELSE {release}]
  /\ UNCHANGED <<process, todo, found, missed>>

(* The request is over, and what it knew is gone.                              *)
Leave(h) ==
  /\ Goto(h, "idle")
  /\ todo' = [todo EXCEPT ![h] = {}] /\ found' = [found EXCEPT ![h] = {}]
  /\ target' = [target EXCEPT ![h] = NoTarget]
  /\ seen' = [seen EXCEPT ![h] = {}] /\ missed' = [missed EXCEPT ![h] = {}]
  /\ UNCHANGED process

(* DiscoverRoutes and BulkAddDiscoveredRoutes, of a grpc-json service with a   *)
(* target.                                                                     *)
Discover(h) == Begin(h) /\ Goto(h, "list") /\ UNCHANGED target

(* An error is answered with 502.                                              *)
ListServices(h) ==
  /\ pc[h] = "list"
  /\ \/ /\ Serving
        /\ todo' = [todo EXCEPT ![h] = Registered(release)]
        /\ Goto(h, "resolve")
        /\ UNCHANGED <<process, found, target, ghosts>>
     \/ CallFails /\ Leave(h)

(* "skip reflection service itself".                                           *)
Skipped(s) == s = V1Alpha

Skip(h, s) ==
  /\ pc[h] = "resolve" /\ s \in todo[h]
  /\ Skipped(s)
  /\ todo' = [todo EXCEPT ![h] = @ \ {s}]
  /\ UNCHANGED <<process, pc, found, target, ghosts>>

ResolveService(h, s) ==
  /\ pc[h] = "resolve" /\ s \in todo[h]
  /\ ~Skipped(s)
  /\ Serving /\ s \in Registered(release)
  /\ todo' = [todo EXCEPT ![h] = @ \ {s}]
  /\ found' = [found EXCEPT ![h] = @ \cup MethodsIn(release, {s})]
  /\ UNCHANGED <<process, pc, target, ghosts>>

(* Mutation of ResolveFails: the loop ends.                                    *)
ResolveBreaks(h, s) ==
  /\ pc[h] = "resolve" /\ s \in todo[h]
  /\ ~Skipped(s)
  /\ CallFails \/ (Serving /\ s \notin Registered(release))
  /\ todo' = [todo EXCEPT ![h] = {}]
  /\ missed' = [missed EXCEPT ![h] = @ \cup {s}]
  /\ UNCHANGED <<process, pc, found, target, seen>>

(* The error is dropped and the next service taken.                            *)
ResolveFails(h, s) ==
  /\ pc[h] = "resolve" /\ s \in todo[h]
  /\ ~Skipped(s)
  /\ CallFails \/ (Serving /\ s \notin Registered(release))
  /\ todo' = [todo EXCEPT ![h] = @ \ {s}]
  /\ missed' = [missed EXCEPT ![h] = @ \cup {s}]
  /\ UNCHANGED <<process, pc, found, target, seen>>

Listed(h) == pc[h] = "resolve" /\ todo[h] = {}

Answer(h) == Listed(h) /\ Leave(h)

(* ServeWithParams, for a method a route or a path names.                      *)
Transcode(h, s, m) ==
  /\ Begin(h)
  /\ Goto(h, "describe")
  /\ target' = [target EXCEPT ![h] = [service |-> s, method |-> m, built |-> {}]]

Knows(h) ==
  /\ Serving /\ target[h].service \in Registered(release)
  /\ target[h].method \in MethodsOf(release, target[h].service)

(* Mutation of Describe: from a description kept since some earlier request.   *)
DescribeCached(h) ==
  /\ pc[h] = "describe"
  /\ Goto(h, "invoke")
  /\ \E r \in Releases : target' = [target EXCEPT ![h].built = {r}]
  /\ UNCHANGED <<process, todo, found, ghosts>>

(* The message is built after the description of the method; if there is none, *)
(* the answer is 400.                                                          *)
Describe(h) ==
  /\ pc[h] = "describe"
  /\ \/ /\ Knows(h)
        /\ Goto(h, "invoke")
        /\ target' = [target EXCEPT ![h].built = {release}]
        /\ UNCHANGED <<process, todo, found, ghosts>>
     \/ (CallFails \/ (Serving /\ ~Knows(h))) /\ Leave(h)

(* The call. An error, Unimplemented for one, is answered with 502.            *)
Invoke(h) ==
  /\ pc[h] = "invoke"
  /\ \/ /\ Knows(h)
        /\ Goto(h, "reply")
        /\ UNCHANGED <<process, todo, found, target, ghosts>>
     \/ (CallFails \/ (Serving /\ ~Knows(h))) /\ Leave(h)

(* The method's response is decoded by the description of the request.         *)
Reply(h) == pc[h] = "reply" /\ Leave(h)

-----------------------------------------------------------------------------

Request(h) ==
  \/ Discover(h) \/ ListServices(h) \/ Answer(h)
  \/ \E s \in Services \cup {V1Alpha, V1} : Skip(h, s) \/ ResolveService(h, s) \/ ResolveFails(h, s)
  \/ \E s \in Services : \E m \in UNION {Offers[r][s] : r \in Releases} : Transcode(h, s, m)
  \/ Describe(h) \/ Invoke(h) \/ Reply(h)

Process == Start \/ ListenHTTP \/ ListenGRPC \/ Serve \/ End

Next == Process \/ \E h \in Handlers : Request(h)

(* The goroutines of a process go on.                                          *)
Spec ==
  /\ Init /\ [][Next]_vars
  /\ WF_vars(ListenHTTP) /\ WF_vars(ListenGRPC) /\ WF_vars(Serve)

-----------------------------------------------------------------------------

(* Types; a request knows something only while it is at work.                  *)
TypeOK ==
  /\ grpc \in {"down", "starting", "bound", "serving"}
  /\ http \in {"down", "starting", "up"}
  /\ release \in Releases
  /\ \A h \in Handlers :
       /\ pc[h] \in {"idle", "list", "resolve", "describe", "invoke", "reply"}
       /\ pc[h] # "resolve" => todo[h] = {} /\ found[h] = {} /\ missed[h] = {}
       /\ pc[h] \in {"invoke", "reply"} <=> target[h].built # {}
       /\ target[h].built \subseteq Releases
       /\ seen[h] \subseteq Releases
       /\ pc[h] # "idle" /\ grpc # "down" => release \in seen[h]

(* What is answered of an upstream that was not replaced meanwhile is all it   *)
(* offers, but for the services whose resolution failed; and of one that was,  *)
(* nothing that none of its releases offered (discoverGRPCMethods).            *)
AnswerComplete ==
  \A h \in Handlers : Listed(h) =>
    /\ found[h] \subseteq UNION {MethodsIn(r, Registered(r)) : r \in seen[h]}
    /\ \A r \in Releases :
         seen[h] = {r} => found[h] = MethodsIn(r, Registered(r) \ ({V1Alpha} \cup missed[h]))

(* The message a method takes was built after the description of the release   *)
(* that takes it, unless that came up only while the request was under way     *)
(* (ServeWithParams: ResolveService and Invoke are two calls).                 *)
SentAsDescribed ==
  \A h \in Handlers : pc[h] = "reply" =>
    target[h].built \subseteq seen[h]

(* Of the methods found in one service no two are given the same HTTP method   *)
(* and path, unless their names differ in the case of the first letter only:   *)
(* those get one route between them (toKebab).                                 *)
KeysApart ==
  \A h \in Handlers : \A f, g \in found[h] :
    f[1] = g[1] /\ DefaultKey(f[2]) = DefaultKey(g[2]) => SameButFirstCase(f[2], g[2])

(* A process that answers /healthz serves gRPC sooner or later, or is gone:    *)
(* none is left of which only the HTTP side runs (main).                       *)
HealthyServes == (http = "up") ~> (http # "up" \/ grpc = "serving")

=============================================================================
