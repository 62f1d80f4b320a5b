------------------------------- MODULE Proxy -------------------------------
(* A request under /api/ after Registry.Match: Dynamic                         *)
(* (internal/proxy/proxy.go) forwards it to an http service or looks up its    *)
(* route and has ServeWithParams (internal/grpcjson/transcoder.go) call the    *)
(* gRPC method. The routes are edited meanwhile (RouteTable); a request reads  *)
(* them once, in one statement.                                                *)
EXTENDS RouteMatch, FiniteSets

CONSTANTS
  Methods,    \* of HTTP
  Remainders, \* of request paths, after the prefix of the service
  Dotted,     \* the texts with a dot in them
  Patterns,   \* of routes, in the order of ORDER BY path_pattern
  Targets,    \* what routes call: a gRPC method and a query mapping
  Queries,    \* the query parameters of requests
  Bodies,     \* the objects in their bodies
  NoBody,     \* an empty body
  BadBody,    \* one that is no object
  Fields,     \* of the input message of each method of the upstream
  NonNumbers, \* the values of ParseFloat that JSON has no number for
  NoTarget,   \* there is no such route
  MaxRoutes   \* how many routes a run has at once

(* A name "pkg.Service/Method" is a sequence of segments as well.              *)
ASSUME ProxyAssumption ==
  /\ IsFiniteSet(Methods) /\ "" \notin Methods
  /\ Remainders \subseteq Seq(Texts)
  /\ Patterns \in Seq(Seq(Segments))
  /\ Dotted \subseteq Texts
  /\ \A t \in Targets : t.rpc \in Seq(Texts) /\ t.rpc # <<>>

VARIABLES
  routes,    \* gateway_routes of the service
  request,   \* the last request
  reply      \* its answer, with the message that was sent

proxyVars == <<routes, request, reply>>

NoRequest == [method |-> "", path |-> <<"">>, query |-> <<>>, body |-> NoBody]

NoReply == [status |-> "none", rpc |-> <<>>, params |-> <<>>, input |-> <<>>]

Requests ==
  [method : Methods, path : Remainders, query : Queries, body : Bodies \cup {NoBody, BadBody}]

ProxyInit ==
  /\ routes = [m \in Methods |-> [i \in DOMAIN Patterns |-> NoTarget]]
  /\ request = NoRequest
  /\ reply = NoReply

(* No request is being answered. Requests share nothing but the routes, which  *)
(* each of them reads in one statement, so one at a time shows all there is.   *)
Ready == request = NoRequest

RouteCount ==
  Cardinality({at \in Methods \X (DOMAIN Patterns) : routes[at[1]][at[2]] # NoTarget})

(* Routes, RouteByID and BulkAddDiscoveredRoutes: one row is put, changed or   *)
(* removed. UNIQUE (service_id, method, path_pattern).                         *)
EditRoutes ==
  /\ Ready
  /\ \E m \in Methods, i \in DOMAIN Patterns, t \in Targets \cup {NoTarget} :
       routes' = [routes EXCEPT ![m][i] = t]
  /\ RouteCount' <= MaxRoutes
  /\ UNCHANGED <<request, reply>>

(* ListRoutes: by path; the method decides nothing.                            *)
ListRoutes ==
  LET rows == [i \in DOMAIN Patterns |->
                 SetToSeq({[method |-> m, pattern |-> Patterns[i], target |-> routes[m][i]] :
                             m \in {n \in Methods : routes[n][i] # NoTarget}})]
  IN FlattenSeq(rows)

-----------------------------------------------------------------------------

(* "a direct gRPC method": a slash and a dot somewhere.                        *)
Direct(path) == Len(path) > 1 /\ \E i \in DOMAIN path : path[i] \in Dotted

NoParams == [k \in {} |-> ""]

(* Mutation of Lookup: the method of the request is not compared.              *)
LookupAnyMethod(req, rows) ==
  LET list == [i \in DOMAIN rows |-> [rows[i] EXCEPT !.method = req.method]]
      i == IF Direct(req.path) THEN NoRoute
           ELSE MatchTemplatedRoute(list, req.method, req.path)
  IN IF i = NoRoute THEN {[rpc |-> req.path, params |-> NoParams]}
     ELSE {[rpc |-> list[i].target.rpc, params |-> p] :
             p \in MergeQueryParams(Params(list[i].pattern, req.path),
                                    list[i].target.mapping, req.query)}

(* What is called, by the rows that were read, and the fields taken from path  *)
(* and query.                                                                  *)
Lookup(req, list) ==
  LET i == IF Direct(req.path) THEN NoRoute
           ELSE MatchTemplatedRoute(list, req.method, req.path)
  IN IF i = NoRoute THEN {[rpc |-> req.path, params |-> NoParams]}
     ELSE {[rpc |-> list[i].target.rpc, params |-> p] :
             p \in MergeQueryParams(Params(list[i].pattern, req.path),
                                    list[i].target.mapping, req.query)}

(* The message: the object in the body, an empty one if there is no body, is   *)
(* given the parameters it does not have. If json.Marshal cannot write the     *)
(* result, which it returns for NaN and the infinities, it is given none.      *)
Input(params, body) ==
  LET sent == IF body = NoBody THEN NoParams ELSE body
      merged == [k \in DOMAIN params \cup DOMAIN sent |->
                   IF k \in DOMAIN sent THEN sent[k] ELSE params[k]]
      written == \A k \in DOMAIN merged :
                   merged[k].type = "string" \/ merged[k].text \notin NonNumbers
  IN IF written THEN merged ELSE sent

(* TrimPrefix: grpc_method may begin with a slash.                             *)
FullName(rpc) == IF Len(rpc) > 1 /\ rpc[1] = "" THEN Tail(rpc) ELSE rpc

(* ServeWithParams: the name needs a service and a method, reflection has to   *)
(* know them, and the body has to be a message of that method. The call itself *)
(* may fail.                                                                   *)
Answers(call, body) ==
  LET rpc == FullName(call.rpc)
      all == [status |-> "called", rpc |-> rpc, params |-> call.params,
              input |-> IF body = BadBody THEN NoParams ELSE Input(call.params, body)]
  IN IF Len(rpc) < 2 \/ rpc \notin DOMAIN Fields \/ body = BadBody
     THEN {[NoReply EXCEPT !.status = "bad request"]}
     ELSE IF ~(DOMAIN all.input \subseteq Fields[rpc])
     THEN {[NoReply EXCEPT !.status = "bad request"]}
     ELSE {all, [NoReply EXCEPT !.status = "bad gateway"]}

(* A request for a grpc-json service.                                          *)
Transcode(req) ==
  /\ Ready
  /\ request' = req
  /\ \E call \in Lookup(req, ListRoutes) : reply' \in Answers(call, req.body)
  /\ UNCHANGED routes

(* The connection to the database is lost. The loop over rows.Next does not ask*)
(* rows.Err, so that the rows read until then are looked through, and the error*)
(* of a query that failed is dropped, as if there were no routes.              *)
TranscodeTruncated(req) ==
  /\ Ready
  /\ request' = req
  /\ \E n \in 0..Len(ListRoutes) - 1 :
       \E call \in Lookup(req, SubSeq(ListRoutes, 1, n)) : reply' \in Answers(call, req.body)
  /\ UNCHANGED routes

(* The answer has been written.                                                *)
Answered ==
  /\ ~Ready
  /\ request' = NoRequest /\ reply' = NoReply
  /\ UNCHANGED routes

ProxyNext ==
  \/ EditRoutes \/ Answered
  \/ \E req \in Requests : Transcode(req) \/ TranscodeTruncated(req)

ProxySpec == ProxyInit /\ [][ProxyNext]_proxyVars

-----------------------------------------------------------------------------

Candidates(list, method, path) ==
  {i \in DOMAIN list : list[i].method = method /\ Matches(list[i].pattern, path)}

(* "Prefer longer patterns": of the routes that match, one is taken whose      *)
(* pattern none exceeds in length, the first in path order if there are        *)
(* several, so that it does not depend on the order rows come in               *)
(* (matchTemplatedRoute).                                                      *)
LongestRoute ==
  Ready => \A m \in Methods, path \in Remainders :
    LET list == ListRoutes
        all == Candidates(list, m, path)
        best == MatchTemplatedRoute(list, m, path)
        size(i) == PatternLength(list[i].pattern)
    IN IF all = {} THEN best = NoRoute
       ELSE /\ best \in all
            /\ \A i \in all \ {best} : size(i) < size(best) \/ (size(i) = size(best) /\ best < i)

Distinct(pattern) ==
  \A i, j \in TemplatesOf(pattern) :
    TrimPattern(pattern)[i].text = TrimPattern(pattern)[j].text => i = j

(* Templates "match a single path segment and are returned in params": the     *)
(* chosen route has as many segments as the path, and each segment of the path *)
(* is either that of the pattern or one that the parameter of its template     *)
(* denotes, the text itself or the value of the template's type that strconv   *)
(* reads it as. How a number or a truth value was spelled is lost.             *)
ParamsDenotePath ==
  Ready => \A m \in Methods, path \in Remainders :
    LET list == ListRoutes
        best == MatchTemplatedRoute(list, m, path)
        pattern == list[best].pattern
        seg(i) == TrimPattern(pattern)[i]
        params == Params(pattern, path)
    IN best # NoRoute /\ Distinct(pattern) =>
         /\ Len(TrimPath(path)) = Len(TrimPattern(pattern))
         /\ \A i \in DOMAIN TrimPattern(pattern) :
              IF seg(i).template THEN /\ Denotes(TrimPath(path)[i], params[seg(i).text])
                                      /\ params[seg(i).text].type \in {seg(i).type, "string"}
                                 ELSE seg(i).text = TrimPath(path)[i]

(* A gRPC method is called only if the request named it or a route for the     *)
(* request's own HTTP method leads to it (Dynamic).                            *)
CalledByRoute ==
  reply.status = "called" =>
    \/ reply.rpc = FullName(request.path)
    \/ \E i \in DOMAIN Patterns :
         /\ routes[request.method][i] # NoTarget
         /\ FullName(routes[request.method][i].rpc) = reply.rpc
         /\ Matches(Patterns[i], request.path)

=============================================================================
