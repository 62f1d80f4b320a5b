-------------------------- MODULE DiscoveryProofs --------------------------
(* Discovery for any releases, any names and any number of requests.           *)
EXTENDS Discovery, TLAPS

(* Two names get one HTTP method and path just if they are the same but for    *)
(* the case of their first letter, for names of any length.                    *)
THEOREM DefaultKeysApart ==
  ASSUME NEW a \in Names, NEW b \in Names
  PROVE  DefaultKey(a) = DefaultKey(b) <=> SameButFirstCase(a, b)
<1> USE RouteKeysAssumption DEF Names
<1>1. ASSUME DefaultKey(a) = DefaultKey(b)
      PROVE  SameButFirstCase(a, b)
  <2>1. Kebab(a) = Kebab(b)
    BY <1>1 DEF DefaultKey
  <2>2. DOMAIN a = DOMAIN b
    BY <2>1 DEF Kebab
  <2>3. Len(a) = Len(b)
    BY <2>2
  <2>4. ASSUME NEW i \in DOMAIN a
        PROVE  a[i].letter = b[i].letter /\ (i > 1 => a[i].upper = b[i].upper)
    <3>1. Kebab(a)[i] = Kebab(b)[i]
      BY <2>1
    <3>2. /\ Kebab(a)[i].letter = a[i].letter /\ Kebab(b)[i].letter = b[i].letter
          /\ Kebab(a)[i].hyphen = (i > 1 /\ a[i].upper)
          /\ Kebab(b)[i].hyphen = (i > 1 /\ b[i].upper)
      BY <2>2 DEF Kebab
    <3>3. a[i] \in Char /\ b[i] \in Char
      BY <2>2, <2>3
    <3>4. a[i].upper \in BOOLEAN /\ b[i].upper \in BOOLEAN
      BY <3>3 DEF Char
    <3> QED BY <3>1, <3>2, <3>4
  <2> QED BY <2>3, <2>4 DEF SameButFirstCase
<1>2. ASSUME SameButFirstCase(a, b)
      PROVE  DefaultKey(a) = DefaultKey(b)
  <2>1. Len(a) = Len(b) /\ DOMAIN a = DOMAIN b
    BY <1>2 DEF SameButFirstCase
  <2>2. \A i \in DOMAIN a : a[i].letter = b[i].letter
    BY <1>2 DEF SameButFirstCase
  <2>3. Kebab(a) = Kebab(b)
    <3>1. \A i \in DOMAIN a : (i > 1 /\ a[i].upper) = (i > 1 /\ b[i].upper)
      BY <1>2 DEF SameButFirstCase
    <3> QED BY <2>1, <2>2, <3>1 DEF Kebab
  <2>4. ASSUME NEW verb \in Seq(Letters)
        PROVE  HasVerb(a, verb) = HasVerb(b, verb)
    <3>1. Len(verb) <= Len(a) => DOMAIN verb \subseteq DOMAIN a
      OBVIOUS
    <3> QED BY <2>1, <2>2, <3>1 DEF HasVerb
  <2>5. HTTPMethod(a) = HTTPMethod(b)
    <3>1. /\ HasVerb(a, Create) = HasVerb(b, Create)
          /\ HasVerb(a, Update) = HasVerb(b, Update)
          /\ HasVerb(a, Delete) = HasVerb(b, Delete)
      BY <2>4
    <3> QED BY <3>1 DEF HTTPMethod
  <2> QED BY <2>3, <2>5 DEF DefaultKey
<1> QED BY <1>1, <1>2

-----------------------------------------------------------------------------

AllServices == Services \cup {V1Alpha, V1}

(* The types of the variables that TypeOK leaves open.                         *)
Typed ==
  /\ pc \in [Handlers -> {"idle", "list", "resolve", "describe", "invoke", "reply"}]
  /\ todo \in [Handlers -> SUBSET AllServices]
  /\ found \in [Handlers -> SUBSET (AllServices \X Names)]
  /\ target \in [Handlers -> [service : AllServices, method : Names, built : SUBSET Releases]]
  /\ seen \in [Handlers -> SUBSET Releases]
  /\ missed \in [Handlers -> SUBSET AllServices]

(* While an unreplaced upstream is asked, what was found is all it offers but  *)
(* for what is still to be resolved or failed to be.                           *)
PartlyFound ==
  \A h \in Handlers : pc[h] = "resolve" =>
    /\ seen[h] # {} /\ todo[h] \cap missed[h] = {}
    /\ found[h] \subseteq UNION {MethodsIn(r, Registered(r)) : r \in seen[h]}
    /\ \A r \in Releases :
         seen[h] = {r} =>
           found[h] = MethodsIn(r, Registered(r) \ ({V1Alpha} \cup missed[h] \cup todo[h]))

BuiltSeen == \A h \in Handlers : target[h].built \subseteq seen[h]

Inv == Typed /\ TypeOK /\ PartlyFound /\ BuiltSeen

(* The methods of a release are named methods of services.                     *)
LEMMA MethodsTyped ==
  ASSUME NEW r \in Releases, NEW S
  PROVE  /\ MethodsIn(r, S) \subseteq AllServices \X Names
         /\ Registered(r) \subseteq AllServices
BY DiscoveryAssumption DEF MethodsIn, MethodsOf, Registered, AllServices

(* Nothing has begun.                                                          *)
LEMMA InitInv == Init => Inv
BY DiscoveryAssumption DEF Init, Inv, Typed, TypeOK, PartlyFound, BuiltSeen, NoTarget, AllServices

(* A request that leaves forgets all it knew.                                  *)
LEMMA LeaveInv ==
  ASSUME Inv, NEW h \in Handlers, Leave(h)
  PROVE  Inv'
<1> USE DiscoveryAssumption DEF Inv
<1>1. /\ \A g \in Handlers \ {h} :
           /\ pc'[g] = pc[g] /\ todo'[g] = todo[g] /\ found'[g] = found[g]
           /\ target'[g] = target[g] /\ seen'[g] = seen[g] /\ missed'[g] = missed[g]
      /\ pc'[h] = "idle" /\ todo'[h] = {} /\ found'[h] = {} /\ target'[h] = NoTarget
      /\ seen'[h] = {} /\ missed'[h] = {}
      /\ UNCHANGED <<grpc, http, release>>
  BY DEF Leave, Goto, Typed, process
<1>2. NoTarget.built = {} /\ NoTarget \in [service : AllServices, method : Names, built : SUBSET Releases]
  BY DEF NoTarget, AllServices
<1>3. Typed'
  BY <1>2 DEF Leave, Goto, Typed
<1>4. TypeOK'
  <2> DEFINE Fine(g) ==
        /\ pc[g] \in {"idle", "list", "resolve", "describe", "invoke", "reply"}
        /\ pc[g] # "resolve" => todo[g] = {} /\ found[g] = {} /\ missed[g] = {}
        /\ pc[g] \in {"invoke", "reply"} <=> target[g].built # {}
        /\ target[g].built \subseteq Releases
        /\ seen[g] \subseteq Releases
        /\ pc[g] # "idle" /\ grpc # "down" => release \in seen[g]
  <2>1. \A g \in Handlers : Fine(g)
    BY DEF TypeOK
  <2>2. \A g \in Handlers \ {h} : Fine(g)'
    BY <1>1, <2>1
  <2>3. Fine(h)'
    BY <1>1, <1>2
  <2> QED BY <1>1, <2>2, <2>3 DEF TypeOK
<1>5. PartlyFound' /\ BuiltSeen'
  BY <1>1, <1>2 DEF PartlyFound, BuiltSeen
<1> QED BY <1>3, <1>4, <1>5

(* The process may end and come back as another release at any time.           *)
LEMMA ProcessInv ==
  ASSUME Inv, Process
  PROVE  Inv'
<1> USE DiscoveryAssumption DEF Inv
<1>1. CASE Start
  <2>1. /\ release' \in Releases /\ grpc' = "starting" /\ http' = "starting"
        /\ UNCHANGED <<pc, todo, found, target, missed>>
        /\ seen' = [h \in Handlers |-> IF pc[h] = "idle" THEN {} ELSE seen[h] \cup {release'}]
    BY <1>1 DEF Start, Upstream
  <2>2. Typed'
    BY <2>1 DEF Typed
  <2>3. TypeOK'
    BY <2>1 DEF TypeOK, Typed
  <2>4. BuiltSeen'
    BY <2>1 DEF BuiltSeen, TypeOK, Typed
  <2>5. PartlyFound'
    <3> SUFFICES ASSUME NEW h \in Handlers, pc[h] = "resolve"
                 PROVE  /\ seen'[h] # {} /\ todo[h] \cap missed[h] = {}
                        /\ found[h] \subseteq UNION {MethodsIn(r, Registered(r)) : r \in seen'[h]}
                        /\ \A r \in Releases : seen'[h] = {r} =>
                             found[h] = MethodsIn(r, Registered(r) \ ({V1Alpha} \cup missed[h] \cup todo[h]))
      BY <2>1 DEF PartlyFound, MethodsIn, MethodsOf, Registered
    <3>1. seen'[h] = seen[h] \cup {release'} /\ seen[h] # {}
      BY <2>1 DEF PartlyFound
    <3>2. \A r \in Releases : seen'[h] = {r} => seen[h] = {r}
      BY <3>1
    <3> QED BY <3>1, <3>2 DEF PartlyFound
  <2> QED BY <2>2, <2>3, <2>4, <2>5
<1>2. CASE ListenHTTP \/ ListenGRPC \/ Serve \/ End
  <2>1. /\ UNCHANGED <<pc, todo, found, target, missed, seen, release>>
        /\ grpc' \in {"down", "bound", "serving", grpc} /\ (grpc = "down" => grpc' = "down")
        /\ http' \in {"up", "down", http}
    BY <1>2 DEF ListenHTTP, ListenGRPC, Serve, End, Upstream
  <2>2. Typed' /\ BuiltSeen'
    BY <2>1 DEF Typed, BuiltSeen
  <2>3. TypeOK'
    BY <2>1 DEF TypeOK
  <2>4. PartlyFound'
    BY <2>1 DEF PartlyFound, MethodsIn, MethodsOf, Registered
  <2> QED BY <2>2, <2>3, <2>4
<1> QED BY <1>1, <1>2 DEF Process

(* Every other step of a request is one of its own.                            *)
LEMMA RequestInv ==
  ASSUME Inv, NEW h \in Handlers, Request(h)
  PROVE  Inv'
<1> USE DiscoveryAssumption DEF Inv
<1> DEFINE Others ==
      \A g \in Handlers \ {h} :
        /\ pc'[g] = pc[g] /\ todo'[g] = todo[g] /\ found'[g] = found[g]
        /\ target'[g] = target[g] /\ seen'[g] = seen[g] /\ missed'[g] = missed[g]
<1>1. ASSUME Others, Typed', UNCHANGED process,
             pc'[h] # "resolve",
             todo'[h] = {} /\ found'[h] = {} /\ missed'[h] = {},
             pc'[h] \in {"invoke", "reply"} <=> target'[h].built # {},
             pc'[h] # "idle" /\ grpc # "down" => release \in seen'[h],
             target'[h].built \subseteq seen'[h]
      PROVE  Inv'
  <2>1. TypeOK'
    BY <1>1 DEF TypeOK, process, Typed
  <2>2. PartlyFound'
    BY <1>1 DEF PartlyFound, MethodsIn, MethodsOf, Registered
  <2>3. BuiltSeen'
    BY <1>1 DEF BuiltSeen
  <2> QED BY <1>1, <2>1, <2>2, <2>3
<1>2. ASSUME NEW s \in AllServices, pc[h] = "resolve",
             UNCHANGED <<process, pc, target, seen>>,
             s \in todo[h], todo' = [todo EXCEPT ![h] = @ \ {s}],
             \/ s = V1Alpha /\ UNCHANGED <<found, missed>>
             \/ s # V1Alpha /\ UNCHANGED found /\ missed' = [missed EXCEPT ![h] = @ \cup {s}]
             \/ /\ s # V1Alpha /\ Serving /\ UNCHANGED missed
                /\ found' = [found EXCEPT ![h] = @ \cup MethodsIn(release, {s})]
      PROVE  Inv'
  <2>1. release \in Releases /\ MethodsIn(release, {s}) \subseteq AllServices \X Names
    BY MethodsTyped DEF TypeOK
  <2>2. Typed'
    <3>1. todo' \in [Handlers -> SUBSET AllServices]
      BY <1>2 DEF Typed
    <3>2. found' \in [Handlers -> SUBSET (AllServices \X Names)]
      <4>1. found[h] \cup MethodsIn(release, {s}) \in SUBSET (AllServices \X Names)
        BY <2>1 DEF Typed
      <4> QED BY <1>2, <4>1 DEF Typed
    <3>3. missed' \in [Handlers -> SUBSET AllServices]
      BY <1>2 DEF Typed
    <3> QED BY <1>2, <3>1, <3>2, <3>3 DEF Typed
  <2>3. TypeOK' /\ BuiltSeen'
    BY <1>2 DEF TypeOK, Typed, BuiltSeen, process
  <2>4. ASSUME NEW g \in Handlers, g # h
        PROVE  todo'[g] = todo[g] /\ found'[g] = found[g] /\ missed'[g] = missed[g]
    BY <1>2, <2>4 DEF Typed
  <2>5. /\ todo'[h] = todo[h] \ {s}
        /\ missed'[h] \in {missed[h], missed[h] \cup {s}}
        /\ todo'[h] \cap missed'[h] = {}
    BY <1>2 DEF Typed, PartlyFound
  <2>6. found'[h] \subseteq UNION {MethodsIn(r, Registered(r)) : r \in seen[h]}
    <3>1. Serving => release \in seen[h]
      BY <1>2 DEF Serving, TypeOK
    <3>2. MethodsIn(release, {s}) \subseteq MethodsIn(release, Registered(release))
      BY DEF MethodsIn
    <3>3. found[h] \subseteq UNION {MethodsIn(r, Registered(r)) : r \in seen[h]}
      BY <1>2 DEF PartlyFound
    <3>4. Serving => MethodsIn(release, {s}) \subseteq UNION {MethodsIn(r, Registered(r)) : r \in seen[h]}
      BY <3>1, <3>2
    <3>5. found'[h] = found[h] \/ (Serving /\ found'[h] = found[h] \cup MethodsIn(release, {s}))
      BY <1>2 DEF Typed
    <3> QED BY <3>3, <3>4, <3>5
  <2>7. ASSUME NEW r \in Releases, seen[h] = {r}
        PROVE  found'[h] = MethodsIn(r, Registered(r) \ ({V1Alpha} \cup missed'[h] \cup todo'[h]))
    <3> DEFINE Rest == Registered(r) \ ({V1Alpha} \cup missed[h] \cup todo[h])
               Rest2 == Registered(r) \ ({V1Alpha} \cup missed'[h] \cup todo'[h])
    <3>1. found[h] = MethodsIn(r, Rest)
      BY <1>2, <2>7 DEF PartlyFound
    <3>2. CASE s = V1Alpha /\ UNCHANGED <<found, missed>>
      <4>1. Rest2 = Rest
        BY <2>5, <3>2
      <4> QED BY <3>1, <3>2, <4>1
    <3>3. CASE s # V1Alpha /\ UNCHANGED found /\ missed' = [missed EXCEPT ![h] = @ \cup {s}]
      <4>1. missed'[h] = missed[h] \cup {s}
        BY <3>3 DEF Typed
      <4>2. Rest2 = Rest
        BY <1>2, <2>5, <4>1
      <4> QED BY <3>1, <3>3, <4>2
    <3>4. CASE /\ s # V1Alpha /\ Serving /\ UNCHANGED missed
               /\ found' = [found EXCEPT ![h] = @ \cup MethodsIn(release, {s})]
      <4>1. release = r
        BY <1>2, <2>7, <3>4 DEF Serving, TypeOK
      <4>2. found'[h] = MethodsIn(r, Rest) \cup MethodsIn(r, {s})
        BY <3>1, <3>4, <4>1 DEF Typed
      <4>3. s \notin missed[h]
        BY <1>2 DEF PartlyFound
      <4>4. Rest2 = (Rest \cup {s}) \cap Registered(r)
        BY <2>5, <3>4, <4>3
      <4>5. MethodsIn(r, Rest2) = MethodsIn(r, Rest) \cup MethodsIn(r, {s})
        BY <4>4 DEF MethodsIn
      <4> QED BY <4>2, <4>5
    <3> QED BY <1>2, <3>2, <3>3, <3>4
  <2>8. PartlyFound'
    <3> SUFFICES ASSUME NEW g \in Handlers, pc[g] = "resolve"
                 PROVE  /\ seen[g] # {} /\ todo'[g] \cap missed'[g] = {}
                        /\ found'[g] \subseteq UNION {MethodsIn(r, Registered(r)) : r \in seen[g]}
                        /\ \A r \in Releases : seen[g] = {r} =>
                             found'[g] = MethodsIn(r, Registered(r) \ ({V1Alpha} \cup missed'[g] \cup todo'[g]))
      BY <1>2 DEF PartlyFound, MethodsIn, MethodsOf, Registered
    <3>1. CASE g = h
      BY <1>2, <2>5, <2>6, <2>7, <3>1 DEF PartlyFound
    <3>2. CASE g # h
      BY <2>4, <3>2 DEF PartlyFound
    <3> QED BY <3>1, <3>2
  <2> QED BY <2>2, <2>3, <2>8
<1>3. ASSUME Begin(h),
             \/ Goto(h, "list") /\ UNCHANGED target
             \/ \E s \in Services, m \in Names :
                  /\ Goto(h, "describe")
                  /\ target' = [target EXCEPT ![h] = [service |-> s, method |-> m, built |-> {}]]
      PROVE  Inv'
  <2>1. Others /\ Typed' /\ UNCHANGED process
    <3>1. /\ UNCHANGED <<process, todo, found, missed>>
          /\ \E label \in {"list", "describe"} : pc' = [pc EXCEPT ![h] = label]
          /\ seen' = [seen EXCEPT ![h] = IF grpc = "down" THEN {} ELSE {release}]
      BY <1>3 DEF Begin, Goto
    <3>2. \E t \in [service : AllServices, method : Names, built : SUBSET Releases] :
            target' = [target EXCEPT ![h] = t]
      <4>1. target' = [target EXCEPT ![h] = target[h]] \/ ~UNCHANGED target
        BY DEF Typed
      <4>2. ASSUME NEW s \in Services, NEW m \in Names
            PROVE  [service |-> s, method |-> m, built |-> {}] \in
                     [service : AllServices, method : Names, built : SUBSET Releases]
        BY DEF AllServices
      <4>3. target[h] \in [service : AllServices, method : Names, built : SUBSET Releases]
        BY DEF Typed
      <4> QED BY <1>3, <4>1, <4>2, <4>3
    <3>3. pc' \in [Handlers -> {"idle", "list", "resolve", "describe", "invoke", "reply"}]
      BY <3>1 DEF Typed
    <3>4. seen' \in [Handlers -> SUBSET Releases]
      BY <3>1 DEF Typed, TypeOK
    <3>5. target' \in [Handlers -> [service : AllServices, method : Names, built : SUBSET Releases]]
      BY <3>2 DEF Typed
    <3>6. Typed'
      BY <3>1, <3>3, <3>4, <3>5 DEF Typed
    <3> QED BY <3>1, <3>2, <3>6 DEF Typed, process
  <2>2. /\ pc'[h] \in {"list", "describe"} /\ target'[h].built = {}
        /\ todo'[h] = {} /\ found'[h] = {} /\ missed'[h] = {}
        /\ grpc # "down" => release \in seen'[h]
    <3>1. /\ pc[h] = "idle" /\ UNCHANGED <<todo, found, missed>>
          /\ grpc # "down" => release \in seen'[h]
      BY <1>3 DEF Begin, Typed
    <3>2. pc'[h] \in {"list", "describe"}
      BY <1>3 DEF Goto, Typed
    <3>3. target[h].built = {}
      BY <3>1 DEF TypeOK
    <3>4. target'[h].built = {}
      BY <1>3, <3>3 DEF Typed
    <3> QED BY <3>1, <3>2, <3>4 DEF TypeOK
  <2> QED BY <1>1, <2>1, <2>2
<1>4. CASE ListServices(h)
  <2>1. CASE Leave(h)
    BY <2>1, LeaveInv
  <2>2. CASE /\ Serving
             /\ todo' = [todo EXCEPT ![h] = Registered(release)]
             /\ Goto(h, "resolve")
             /\ UNCHANGED <<process, found, target, ghosts>>
    <3>1. release \in Releases /\ Registered(release) \subseteq AllServices /\ release \in seen[h]
      BY <1>4, <2>2, MethodsTyped DEF TypeOK, Serving, ListServices
    <3>2. Typed' /\ BuiltSeen'
      BY <2>2, <3>1 DEF Typed, BuiltSeen, Goto, ghosts
    <3>3. TypeOK'
      BY <1>4, <2>2 DEF TypeOK, Typed, Goto, ghosts, process, ListServices
    <3>4. /\ found'[h] = {} /\ missed'[h] = {} /\ todo'[h] = Registered(release)
          /\ seen' = seen
      BY <1>4, <2>2 DEF ListServices, TypeOK, Typed, ghosts
    <3>5. \A r \in Releases : MethodsIn(r, {}) = {}
      BY DEF MethodsIn
    <3>6. \A r \in Releases : seen[h] = {r} =>
            Registered(r) \ ({V1Alpha} \cup missed'[h] \cup todo'[h]) = {}
      BY <3>1, <3>4
    <3>7. \A g \in Handlers \ {h} :
            pc'[g] = pc[g] /\ todo'[g] = todo[g] /\ found'[g] = found[g] /\ missed'[g] = missed[g]
      BY <2>2 DEF Typed, Goto, ghosts
    <3>8. PartlyFound'
      <4> SUFFICES ASSUME NEW g \in Handlers, pc'[g] = "resolve"
                   PROVE  /\ seen[g] # {} /\ todo'[g] \cap missed'[g] = {}
                          /\ found'[g] \subseteq UNION {MethodsIn(r, Registered(r)) : r \in seen[g]}
                          /\ \A r \in Releases : seen[g] = {r} =>
                               found'[g] = MethodsIn(r, Registered(r) \ ({V1Alpha} \cup missed'[g] \cup todo'[g]))
        BY <3>4 DEF PartlyFound, MethodsIn, MethodsOf, Registered
      <4>1. CASE g = h
        <5>1. \A r \in Releases : seen[h] = {r} =>
                MethodsIn(r, Registered(r) \ ({V1Alpha} \cup missed'[h] \cup todo'[h])) = {}
          BY <3>5, <3>6
        <5> QED BY <3>1, <3>4, <4>1, <5>1
      <4>2. CASE g # h
        BY <3>7, <4>2 DEF PartlyFound
      <4> QED BY <4>1, <4>2
    <3> QED BY <3>2, <3>3, <3>8
  <2> QED BY <1>4, <2>1, <2>2 DEF ListServices
<1>5. ASSUME NEW s \in AllServices, Skip(h, s) \/ ResolveService(h, s) \/ ResolveFails(h, s)
      PROVE  Inv'
  BY <1>2, <1>5 DEF Skip, ResolveService, ResolveFails, Skipped, ghosts
<1>6. CASE Describe(h)
  <2>1. CASE Leave(h)
    BY <2>1, LeaveInv
  <2>2. CASE /\ Knows(h)
             /\ Goto(h, "invoke")
             /\ target' = [target EXCEPT ![h].built = {release}]
             /\ UNCHANGED <<process, todo, found, ghosts>>
    <3>1. release \in Releases /\ release \in seen[h] /\ pc[h] = "describe"
      BY <1>6, <2>2 DEF Describe, TypeOK, Knows, Serving
    <3>2. Others /\ Typed' /\ UNCHANGED process
      BY <2>2, <3>1 DEF Goto, Typed, ghosts
    <3>3. /\ pc'[h] = "invoke" /\ target'[h].built = {release} /\ seen'[h] = seen[h]
          /\ todo'[h] = {} /\ found'[h] = {} /\ missed'[h] = {}
      BY <2>2, <3>1 DEF Goto, Typed, TypeOK, ghosts
    <3> QED BY <1>1, <3>1, <3>2, <3>3
  <2> QED BY <1>6, <2>1, <2>2 DEF Describe
<1>7. CASE Invoke(h)
  <2>1. CASE Leave(h)
    BY <2>1, LeaveInv
  <2>2. CASE Goto(h, "reply") /\ UNCHANGED <<process, todo, found, target, ghosts>>
    <3>1. Others /\ Typed' /\ UNCHANGED process
      BY <2>2 DEF Goto, Typed, ghosts
    <3>2. /\ pc[h] = "invoke" /\ pc'[h] = "reply" /\ target'[h] = target[h] /\ seen'[h] = seen[h]
          /\ todo'[h] = {} /\ found'[h] = {} /\ missed'[h] = {}
      BY <1>7, <2>2 DEF Invoke, Goto, Typed, TypeOK, ghosts
    <3>3. /\ target[h].built # {} /\ target[h].built \subseteq seen[h] /\ (grpc # "down" => release \in seen[h])
      BY <3>2 DEF TypeOK, BuiltSeen
    <3> QED BY <1>1, <3>1, <3>2, <3>3
  <2> QED BY <1>7, <2>1, <2>2 DEF Invoke
<1>8. CASE Answer(h) \/ Reply(h)
  BY <1>8, LeaveInv DEF Answer, Reply
<1>9. \A s \in Services : UNION {Offers[r][s] : r \in Releases} \subseteq Names
  OBVIOUS
<1> QED BY <1>3, <1>4, <1>5, <1>6, <1>7, <1>8, <1>9 DEF Request, Discover, Transcode, AllServices

(* Every step keeps the invariant.                                             *)
LEMMA NextInv == Inv /\ [Next]_vars => Inv'
<1>1. ASSUME Inv, UNCHANGED vars
      PROVE  Inv'
  <2> USE <1>1 DEF vars, process, ghosts, Inv
  <2>1. Typed' /\ TypeOK' /\ BuiltSeen'
    BY DEF Typed, TypeOK, BuiltSeen
  <2>2. PartlyFound'
    BY DEF PartlyFound, MethodsIn, MethodsOf, Registered
  <2> QED BY <2>1, <2>2
<1> QED BY <1>1, ProcessInv, RequestInv DEF Next

LEMMA SpecInv == Spec => []Inv
BY InitInv, NextInv, PTL DEF Spec

(* A request knows something only while it is at work.                         *)
THEOREM TypeCorrect == Spec => []TypeOK
<1>1. Inv => TypeOK
  BY DEF Inv
<1> QED BY SpecInv, <1>1, PTL

(* Discovery answers all an unreplaced upstream offers, but for what failed,   *)
(* and nothing that was not offered while it ran.                              *)
THEOREM AnswersComplete == Spec => []AnswerComplete
<1>1. Inv => AnswerComplete
  BY DEF Inv, PartlyFound, AnswerComplete, Listed
<1> QED BY SpecInv, <1>1, PTL

(* A message is built after a release that ran while the request was made.     *)
THEOREM MessagesAsDescribed == Spec => []SentAsDescribed
<1>1. Inv => SentAsDescribed
  BY DEF Inv, BuiltSeen, SentAsDescribed
<1> QED BY SpecInv, <1>1, PTL

(* The default keys of one service's methods are apart, for names of any       *)
(* length.                                                                     *)
THEOREM FoundKeysApart == Spec => []KeysApart
<1>1. Inv => KeysApart
  <2> SUFFICES ASSUME Inv, NEW h \in Handlers, NEW f \in found[h], NEW g \in found[h],
                      DefaultKey(f[2]) = DefaultKey(g[2])
               PROVE  SameButFirstCase(f[2], g[2])
    BY DEF KeysApart
  <2>1. f[2] \in Names /\ g[2] \in Names
    BY DEF Inv, Typed
  <2> QED BY <2>1, DefaultKeysApart
<1> QED BY SpecInv, <1>1, PTL

=============================================================================
