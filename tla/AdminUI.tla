------------------------------ MODULE AdminUI ------------------------------
(* The pages of apps/api-gateway-ui in one browser tab: what they request from *)
(* the Admin API, when, and what an answer does to the page that is open then. *)
(* The gateway answers through its cache, of which only matters here how old   *)
(* its answers can be (Gateway has all of it); other admins change the same    *)
(* services.                                                                   *)
EXTENDS Naturals, FiniteSets

CONSTANTS
  Ids,         \* ids of services, each given out once
  Present,     \* the services that are there from the start
  MaxVersion,  \* bound: for each of them, its changes told apart
  MaxRoutes,   \* bound: for each of them, the changes of its routes told apart
  Opened,      \* the pages of services the tab opens
  MaxCalls,    \* bound: requests of the tab under way at once
  MaxFaults    \* bound: requests, DELs and lists that fail, SETs that come late

ServiceKinds == {"detail", "explore", "routes"}

ASSUME UIAssumption ==
  /\ Present \subseteq Ids
  /\ Opened \subseteq ServiceKinds \X Ids
  /\ MaxVersion \in [Ids -> Nat \ {0}] /\ MaxRoutes \in [Ids -> Nat]
  /\ MaxCalls \in Nat \ {0} /\ MaxFaults \in Nat

VARIABLES
  server,   \* how often each service was changed: 0 is not created yet
  routes,   \* how often its routes were
  low,      \* no entry, and no GET about to SET one, has an older version
  page,     \* the page that is open
  view,     \* the state of its component
  leaving,  \* router.push('/') is on its way
  calls,    \* the requests of the tab, those of pages it has left included
  faults    \* how much has failed

gateway == <<server, routes, low>>

tab == <<page, view, leaving>>

vars == <<gateway, tab, calls, faults>>

Gone(i) == MaxVersion[i] + 1

ExistingIn(srv) == {i \in Ids : srv[i] \in 1..MaxVersion[i]}

Existing == ExistingIn(server)

RowsOf(srv) == {<<i, srv[i]>> : i \in ExistingIn(srv)}

(* What CachingRepository can answer: rows from the table, or from an entry.   *)
Versions(i) == low[i]..server[i]

Lists ==
  {RowsOf(srv) : srv \in {v \in [Ids -> UNION {Versions(i) : i \in Ids}] :
                            \A i \in Ids : v[i] \in Versions(i)}}

Services(i) == {{<<i, v>>} : v \in Versions(i) \cap (1..MaxVersion[i])}

Slots == 1..MaxCalls

Pages == {<<"home">>, <<"new">>} \cup Opened

(* Requests: reads of the list and of one service, and changes. Those in       *)
(* FollowUp are sent by the same handler when the change was answered.         *)
ListReads == {"poll", "refetch"}

Rereads == {"saved", "probed"}

Loads == {"load", "written", "removed"}

Reads == ListReads \cup {"get"} \cup Rereads \cup Loads

FollowUp ==
  [save |-> "saved", probe |-> "probed", write |-> "written", remove |-> "removed"]

Changes == {"create", "delete"} \cup DOMAIN FollowUp

(* The handlers that setSubmitting(true), with what they send after the change.*)
Submits == {"create", "save", "saved", "write", "written"}

(* A request: its page, how far it is, what was read (pairs of a service and   *)
(* the version of it, or of its routes for a load), the version its handler's  *)
(* change made, and whether the component that sent it is still there.         *)
Request(op, p, floor) ==
  [op |-> op, page |-> p, step |-> "sent", got |-> {}, floor |-> floor, here |-> TRUE]

NoCall == Request("none", <<"home">>, 0)

Free(s) == calls[s] = NoCall /\ \A t \in 1..(s - 1) : calls[t] # NoCall

(* useState of each page.                                                      *)
NewView(p) == [shown |-> {}, loading |-> p # <<"new">>, submitting |-> FALSE]

Init ==
  /\ server = [i \in Ids |-> IF i \in Present THEN 1 ELSE 0]
  /\ routes = [i \in Ids |-> 0]
  /\ low = server
  /\ page = <<"home">>
  /\ view = NewView(page)
  /\ leaving = FALSE
  /\ calls = [s \in Slots |-> IF s = 1 THEN Request("poll", page, 0) ELSE NoCall]
  /\ faults = 0

-----------------------------------------------------------------------------
(* Pages.                                                                      *)

SameComponent(p) == p[1] = page[1]

(* The request of a page's effect.                                             *)
FirstRead(p) ==
  CASE p[1] = "home" -> Request("poll", p, 0)
    [] p[1] = "routes" -> Request("load", p, 0)
    [] p[1] \in {"detail", "explore"} -> Request("get", p, 0)
    [] p[1] = "new" -> NoCall

(* Mutation of Left: the effects have no cleanup.                              *)
LeftUnguarded(c, p) ==
  IF c.op \in Reads /\ ~SameComponent(p) THEN NoCall
  ELSE IF c.op \in Changes /\ ~SameComponent(p) THEN [c EXCEPT !.here = FALSE]
  ELSE c

(* What is left of a request when the tab goes to page p. If the component is  *)
(* another one, no answer to a read can be seen. If it is the same one with    *)
(* another id, the cleanup of the effect (mounted = false) silences its GET.   *)
Left(c, p) ==
  IF c.op \in Reads /\ (c.op = "get" \/ ~SameComponent(p)) THEN NoCall
  ELSE IF c.op \in Changes /\ ~SameComponent(p) THEN [c EXCEPT !.here = FALSE]
  ELSE c

(* The tab goes to page p, whose effect runs; slot s is free for its request. A *)
(* push that was on its way is cancelled by another navigation.                *)
Open(p, s) ==
  /\ page' = p
  /\ leaving' = FALSE
  /\ view' = IF ~SameComponent(p) THEN NewView(p)
             ELSE IF p[1] = "routes" THEN [view EXCEPT !.loading = TRUE]
             ELSE view
  /\ calls' = [t \in Slots |-> IF t = s THEN FirstRead(p) ELSE Left(calls[t], p)]

(* A link, or the browser's history, which may skip pages.                     *)
Visit(p, s) ==
  /\ p # page
  /\ Free(s)
  /\ Open(p, s)
  /\ UNCHANGED <<gateway, faults>>

(* The pushed navigation has fetched the props of home.                        *)
Arrive(s) ==
  /\ leaving
  /\ \/ page = <<"home">> /\ leaving' = FALSE /\ UNCHANGED <<page, view, calls>>
     \/ page # <<"home">> /\ Free(s) /\ Open(<<"home">>, s)
  /\ UNCHANGED <<gateway, faults>>

(* A handler sends a request from the open page.                               *)
SendCall(op, s) ==
  /\ Free(s)
  /\ calls' = [calls EXCEPT ![s] = Request(op, page, 0)]
  /\ UNCHANGED <<gateway, page, leaving, faults>>

(* The interval of 30 s, and the Refresh button.                               *)
Poll(s) ==
  /\ page = <<"home">>
  /\ SendCall("poll", s)
  /\ view' = [view EXCEPT !.loading = TRUE]

Refetch(s) ==
  /\ page = <<"home">>
  /\ SendCall("refetch", s)
  /\ view' = [view EXCEPT !.loading = TRUE]

Submit(op, s) ==
  /\ ~view.submitting
  /\ SendCall(op, s)
  /\ view' = [view EXCEPT !.submitting = TRUE]

Create(s) == page = <<"new">> /\ Submit("create", s)

(* "Loading..." and "Not found" have no buttons.                               *)
Buttons(kind) == page[1] = kind /\ ~view.loading /\ view.shown # {}

Save(s) == Buttons("detail") /\ Submit("save", s)

(* The buttons that do not wait for a submission.                              *)
Probe(s) == Buttons("detail") /\ SendCall("probe", s) /\ UNCHANGED view

Delete(s) == Buttons("detail") /\ SendCall("delete", s) /\ UNCHANGED view

(* Create, update, add and add all of the routes page; its delete.             *)
Write(s) == Buttons("routes") /\ Submit("write", s)

Remove(s) == Buttons("routes") /\ SendCall("remove", s) /\ UNCHANGED view

-----------------------------------------------------------------------------
(* The gateway.                                                                *)

NextVersion(i) == IF server[i] < MaxVersion[i] THEN server[i] + 1 ELSE server[i]

RoutesChanged(i) ==
  [routes EXCEPT ![i] = IF routes[i] < MaxRoutes[i] THEN routes[i] + 1 ELSE routes[i]]

Fault == faults < MaxFaults /\ faults' = faults + 1

Failed(c) ==
  [c EXCEPT !.step = "failed", !.got = {}, !.floor = 0]

(* The request is on its way back, or its answer gets lost.                    *)
Reply(s, c) ==
  \/ calls' = [calls EXCEPT ![s] = c] /\ UNCHANGED faults
  \/ calls' = [calls EXCEPT ![s] = Failed(c)] /\ Fault

(* One service, or all of them.                                                *)
ServeGet(s, answers) ==
  \E rows \in answers : Reply(s, [calls[s] EXCEPT !.step = "ok", !.got = rows])

(* The connection breaks while List reads its rows, which nobody asks: the rows *)
(* read so far are the answer (and an entry, as long as it lives).             *)
ServeShortList(s) ==
  /\ Fault
  /\ \E part \in SUBSET RowsOf(server) :
       calls' = [calls EXCEPT ![s].step = "ok", ![s].got = part]

(* A load sends a GET of the service, which comes through the cache, and one of *)
(* its routes, which does not, at once.                                        *)
Asked(c) == c.step = "sent" \/ c.got # {}

ServeLoad(s, i) ==
  LET c == calls[s]
      onward == [c EXCEPT !.step = IF @ = "sent" THEN "half" ELSE "ok"]
  IN  \/ Asked(c) /\ Services(i) # {} /\ Reply(s, onward)
      \/ c.got = {} /\ Reply(s, [onward EXCEPT !.got = {<<i, routes[i]>>}])

ServeRead(s) ==
  LET c == calls[s]
      i == c.page[2]
  IN  /\ c.op \in Reads
      /\ c.step \in {"sent", "half"}
      /\ UNCHANGED <<gateway, tab>>
      /\ \/ c.op \in ListReads /\ (ServeGet(s, Lists) \/ ServeShortList(s))
         \/ c.op \in {"get"} \cup Rereads /\ ServeGet(s, Services(i))
         \/ c.op \in Loads /\ ServeLoad(s, i)
         \/ /\ c.op \notin ListReads
            /\ Asked(c) /\ i \notin Existing
            /\ Reply(s, Failed(c))

(* Mutation of Invalidated: the entry of the service itself stays.             *)
InvalidatedNot(i) == low

(* The DELs after a change of service i. Once they have worked, and no GET that *)
(* had selected before is about to SET, nothing older is left.                 *)
Invalidated(i) == [low EXCEPT ![i] = server'[i]]

(* The change of service i by PUT, DELETE or POST refresh is done. A DEL that  *)
(* fails (its error is ignored), the end of the process before it, or a SET    *)
(* still to come leaves older versions about.                                  *)
Written(s, i) ==
  LET done == [calls[s] EXCEPT !.step = "ok"]
  IN  \/ /\ low' = Invalidated(i)
         /\ Reply(s, [done EXCEPT !.floor = server'[i]])
      \/ /\ Fault
         /\ UNCHANGED low
         /\ \E d \in {done, Failed(done)} : calls' = [calls EXCEPT ![s] = d]

(* A service is created with an id of its own; none is left: the POST fails.   *)
ServeCreate(s) ==
  /\ calls[s].op = "create" /\ calls[s].step = "sent"
  /\ UNCHANGED <<routes, tab>>
  /\ \/ \E i \in Ids :
          /\ server[i] = 0
          /\ server' = [server EXCEPT ![i] = 1]
          /\ Written(s, i)
     \/ /\ \A i \in Ids : server[i] # 0
        /\ Reply(s, Failed(calls[s]))
        /\ UNCHANGED <<server, low>>

(* PUT and DELETE answer 200 when there is no such row; POST refresh looks for *)
(* it, and has it from an old entry too. The DELs come either way.             *)
ServeService(s, i) ==
  LET c == calls[s]
  IN  /\ c.op \in {"save", "probe", "delete"}
      /\ \/ /\ c.op = "probe" => Services(i) # {}
            /\ server' = IF i \notin Existing THEN server
                         ELSE [server EXCEPT ![i] = IF c.op = "delete" THEN Gone(i)
                                                    ELSE NextVersion(i)]
            /\ routes' = IF c.op = "delete" /\ i \in Existing THEN RoutesChanged(i) ELSE routes
            /\ Written(s, i)
         \/ /\ c.op = "probe" /\ i \notin Existing
            /\ Reply(s, Failed(c))
            /\ UNCHANGED gateway

(* POST of a route needs the service. A PUT or DELETE of a route that is not   *)
(* one of the service's changes nothing.                                       *)
ServeRoute(s, i) ==
  LET c == calls[s]
  IN  /\ c.op \in {"write", "remove"}
      /\ UNCHANGED <<server, low>>
      /\ \/ /\ i \in Existing
            /\ routes' = RoutesChanged(i)
            /\ Reply(s, [c EXCEPT !.step = "ok", !.floor = routes'[i]])
         \/ /\ Reply(s, [c EXCEPT !.step = "ok", !.floor = routes[i]])
            /\ UNCHANGED routes
         \/ /\ i \notin Existing /\ c.op = "write"
            /\ Reply(s, Failed(c))
            /\ UNCHANGED routes

ServeChange(s) ==
  LET i == calls[s].page[2]
  IN  /\ calls[s].op \in Changes \ {"create"} /\ calls[s].step = "sent"
      /\ UNCHANGED tab
      /\ ServeService(s, i) \/ ServeRoute(s, i)

(* A request that never arrives.                                               *)
Lose(s) ==
  /\ calls[s] # NoCall /\ calls[s].step \in {"sent", "half"}
  /\ Fault
  /\ calls' = [calls EXCEPT ![s] = Failed(@)]
  /\ UNCHANGED <<gateway, tab>>

(* Another admin creates, changes or deletes a service, or changes its routes. *)
OtherService(i) ==
  /\ \/ /\ server[i] # Gone(i)
        /\ server' = [server EXCEPT ![i] = NextVersion(i)]
        /\ UNCHANGED routes
     \/ /\ i \in Existing
        /\ server' = [server EXCEPT ![i] = Gone(i)]
        /\ routes' = RoutesChanged(i)
  /\ \/ low' = Invalidated(i) /\ UNCHANGED faults
     \/ UNCHANGED low /\ Fault
  /\ UNCHANGED <<tab, calls>>

OtherRoute(i) ==
  /\ i \in Existing
  /\ routes' = RoutesChanged(i)
  /\ UNCHANGED <<server, low, tab, calls, faults>>

Other(i) == OtherService(i) \/ OtherRoute(i)

(* Entries expire, and no GET is between its SELECT and its SET for ever.      *)
Expire(i) ==
  /\ low[i] # server[i]
  /\ low' = [low EXCEPT ![i] = server[i]]
  /\ UNCHANGED <<server, routes, tab, calls, faults>>

-----------------------------------------------------------------------------
(* Answers.                                                                    *)

(* The flags a handler clears, whichever way it ends.                          *)
Cleared(c) ==
  [view EXCEPT !.loading = IF c.op \in Rereads \cup Changes THEN @ ELSE FALSE,
               !.submitting = IF c.op \in Submits THEN FALSE ELSE @]

(* Mutation of ShowAnswer: the interval shows only what is new.                *)
ShowAnswerOnce(s) ==
  LET c == calls[s]
  IN  /\ c.op \in Reads /\ c.step = "ok"
      /\ view' = [Cleared(c) EXCEPT
                    !.shown = IF c.op = "poll" /\ @ # {} THEN @ ELSE c.got]
      /\ calls' = [calls EXCEPT ![s] = NoCall]
      /\ UNCHANGED <<gateway, page, leaving, faults>>

(* setServices, setSvc, setRoutes.                                             *)
ShowAnswer(s) ==
  LET c == calls[s]
  IN  /\ c.op \in Reads /\ c.step = "ok"
      /\ view' = [Cleared(c) EXCEPT !.shown = c.got]
      /\ calls' = [calls EXCEPT ![s] = NoCall]
      /\ UNCHANGED <<gateway, page, leaving, faults>>

(* A failed poll empties the list; the others leave what is shown.             *)
ReadFails(s) ==
  LET c == calls[s]
  IN  /\ c.op \in Reads /\ c.step = "failed"
      /\ view' = [Cleared(c) EXCEPT !.shown = IF c.op = "poll" THEN {} ELSE @]
      /\ calls' = [calls EXCEPT ![s] = NoCall]
      /\ UNCHANGED <<gateway, page, leaving, faults>>

(* Mutation of ChangeDone: submitting ends before the answer of the read.      *)
ChangeDoneEarly(s) ==
  LET c == calls[s]
  IN  /\ c.op \in DOMAIN FollowUp /\ c.step = "ok"
      /\ calls' = [calls EXCEPT ![s] =
                     IF c.here THEN Request(FollowUp[c.op], c.page, c.floor) ELSE NoCall]
      /\ view' = IF c.here
                 THEN [view EXCEPT !.loading = IF c.op \in {"write", "remove"} THEN TRUE ELSE @,
                                   !.submitting = FALSE]
                 ELSE view
      /\ UNCHANGED <<gateway, page, leaving, faults>>

(* The handler goes on to its GET, or to load(); nothing comes of it when its  *)
(* component is not there any more.                                            *)
ChangeDone(s) ==
  LET c == calls[s]
  IN  /\ c.op \in DOMAIN FollowUp /\ c.step = "ok"
      /\ calls' = [calls EXCEPT ![s] =
                     IF c.here THEN Request(FollowUp[c.op], c.page, c.floor) ELSE NoCall]
      /\ view' = IF c.here /\ c.op \in {"write", "remove"}
                 THEN [view EXCEPT !.loading = TRUE] ELSE view
      /\ UNCHANGED <<gateway, page, leaving, faults>>

(* router.push('/') is not awaited: the form is unlocked while the open page   *)
(* stays, wherever the tab is by now.                                          *)
GoHome(s) ==
  LET c == calls[s]
  IN  /\ c.op \in {"create", "delete"} /\ c.step = "ok"
      /\ view' = IF c.here THEN Cleared(c) ELSE view
      /\ leaving' = TRUE
      /\ calls' = [calls EXCEPT ![s] = NoCall]
      /\ UNCHANGED <<gateway, page, faults>>

(* alert(... failed).                                                          *)
ChangeFails(s) ==
  LET c == calls[s]
  IN  /\ c.op \in Changes /\ c.step = "failed"
      /\ view' = IF c.here THEN Cleared(c) ELSE view
      /\ calls' = [calls EXCEPT ![s] = NoCall]
      /\ UNCHANGED <<gateway, page, leaving, faults>>

-----------------------------------------------------------------------------

Act(s) ==
  \/ \E p \in Pages : Visit(p, s)
  \/ Refetch(s) \/ Create(s) \/ Save(s) \/ Probe(s) \/ Delete(s) \/ Write(s) \/ Remove(s)

Serve(s) == ServeRead(s) \/ ServeCreate(s) \/ ServeChange(s)

Answer(s) ==
  ShowAnswer(s) \/ ReadFails(s) \/ ChangeDone(s) \/ GoHome(s) \/ ChangeFails(s)

Next ==
  \/ \E s \in Slots : Act(s) \/ Poll(s) \/ Arrive(s) \/ Serve(s) \/ Lose(s) \/ Answer(s)
  \/ \E i \in Ids : Other(i) \/ Expire(i)

Spec == Init /\ [][Next]_vars

(* The interval fires, something is answered or fails as long as anything is   *)
(* asked for, and entries expire. Nobody has to click on anything.             *)
Fairness ==
  /\ WF_vars(\E s \in Slots : Poll(s))
  /\ WF_vars(\E s \in Slots : Serve(s) \/ Answer(s))
  /\ WF_vars(\E i \in Ids : Expire(i))

FairSpec == Spec /\ Fairness

-----------------------------------------------------------------------------

(* Types; a request that can still be seen is of the component that is open.   *)
Row == Ids \X Nat

Call ==
  [op : Reads \cup Changes \cup {"none"}, page : Pages, step : {"sent", "half", "ok", "failed"},
   got : SUBSET Row, floor : Nat, here : BOOLEAN]

TypeOK ==
  /\ server \in [Ids -> Nat] /\ \A i \in Ids : server[i] <= Gone(i)
  /\ routes \in [Ids -> Nat]
  /\ low \in [Ids -> Nat]
  /\ page \in Pages
  /\ view \in [shown : SUBSET Row, loading : BOOLEAN, submitting : BOOLEAN]
  /\ leaving \in BOOLEAN
  /\ calls \in [Slots -> Call]
  /\ \A s \in Slots :
       calls[s].op # "none" /\ calls[s].here => calls[s].page[1] = page[1]

Submitting(s) == calls[s].op \in Submits /\ calls[s].here

(* The Save button is locked exactly as long as one submission of this page is *)
(* under way, over both of its requests and whatever else the page does        *)
(* meanwhile (submitting in [id].js, new.js and routes.js): no second one is   *)
(* sent before the first is answered, and no form is locked for good. After    *)
(* the answer the form of new.js is open again until the push has arrived      *)
(* (new.js:17-22), and may create the same service once more.                  *)
OneSubmission ==
  /\ Cardinality({s \in Slots : Submitting(s)}) <= 1
  /\ view.submitting <=> \E s \in Slots : Submitting(s)

(* What a handler reads after its change has the change in it, or something    *)
(* newer: PUT, then GET ([id].js:31-42, 52-59; routes.js:80-122). Of routes,   *)
(* which are not cached, that is always so; of a service, if the DELs after    *)
(* the change worked and no GET was about to SET what it had selected before:  *)
(* then neither later GETs nor DELs of other changes that fail can bring the   *)
(* former row back (cache_redis.go:89-137).                                    *)
ReadsOwnChange ==
  \A s \in Slots :
    calls[s].op \in Rereads \cup Loads /\ calls[s].step = "ok" =>
      \A read \in calls[s].got : read[2] >= calls[s].floor

Foreign(p, shown) == p[1] \in ServiceKinds /\ \E is \in shown : is[1] # p[2]

(* The page of one service shows another one in two ways. The address changes  *)
(* from one service to the other: the component stays, and what it shows stays *)
(* until the new GET is answered (for good if that fails). Or the answer comes *)
(* to what a button, or load(), asked for before the address changed; the GETs *)
(* of the effects are silenced by then ([id].js:24-29, explore.js:15-20).      *)
ForeignByAddressOrUnguarded ==
  [][Foreign(page', view'.shown) /\ (page' # page \/ view'.shown # view.shown) =>
       \/ page' # page /\ page'[1] = page[1] /\ view'.shown = view.shown
       \/ \E s \in Slots :
            /\ calls[s].op \in Rereads \cup Loads
            /\ calls[s].page # page
            /\ calls'[s] = NoCall]_vars

(* A home page that stays open shows the services there are, once nobody       *)
(* changes them: no late answer, no failed poll, no old entry and no short     *)
(* list has the last word.                                                     *)
HomeConverges ==
  <>[](page = <<"home">>) =>
    <>[](view.shown = {<<i, server[i]>> : i \in Existing})

=============================================================================
