--------------------------- MODULE DispatchProofs ---------------------------
(* The way of a request through the gateway: Registry for every alphabet, any  *)
(* lists of services and any paths, and Proxy for any routes, patterns and     *)
(* requests.                                                                   *)
EXTENDS Registry, Proxy, FiniteSetTheorems, SequenceTheorems, WellFoundedInduction, TLAPS

(* normalizePrefix leaves alone what it returned, which is what Gateway        *)
(* assumes of it.                                                              *)
THEOREM NormalizeIdempotent ==
  ASSUME NEW p \in Strings
  PROVE  /\ NormalizePrefix(p) \in Strings
         /\ NormalizePrefix(NormalizePrefix(p)) = NormalizePrefix(p)
<1> DEFINE q == WithSlash(p)
<1>1. Slash \in Characters
  BY RegistryAssumption
<1>2. q \in Strings /\ HasSlash(q)
  <2>1. CASE HasSlash(p)
    BY <2>1 DEF WithSlash
  <2>2. CASE ~HasSlash(p)
    BY <1>1, <2>2 DEF WithSlash, Strings, HasSlash
  <2> QED BY <2>1, <2>2
<1> HIDE DEF q
<1>3. ASSUME EndsWithSlash(q)
      PROVE  NormalizePrefix(p) = q
  BY <1>3 DEF NormalizePrefix, q
<1>4. ASSUME ~EndsWithSlash(q)
      PROVE  NormalizePrefix(p) = Append(q, Slash)
  BY <1>4 DEF NormalizePrefix, q
<1>5. ASSUME NEW s \in Strings, HasSlash(s), EndsWithSlash(s)
      PROVE  NormalizePrefix(s) = s
  BY <1>5 DEF NormalizePrefix, WithSlash
<1>6. LET r == Append(q, Slash) IN r \in Strings /\ HasSlash(r) /\ EndsWithSlash(r)
  BY <1>1, <1>2 DEF Strings, HasSlash, EndsWithSlash
<1> QED BY <1>2, <1>3, <1>4, <1>5, <1>6

(* Two prefixes of one path that are equally long are the same.                *)
LEMMA EqualPrefixes ==
  ASSUME NEW s \in Strings, NEW p \in Strings, NEW q \in Strings,
         HasPrefix(s, p), HasPrefix(s, q), Len(p) = Len(q)
  PROVE  p = q
<1>1. \A i \in 1..Len(p) : p[i] = q[i]
  BY DEF HasPrefix, Strings
<1> QED BY <1>1 DEF Strings

(* Cutting a prefix off a string and putting it back.                          *)
LEMMA CutAndJoin ==
  ASSUME NEW s \in Strings, NEW p \in Strings, HasPrefix(s, p)
  PROVE  TrimPrefix(s, p) \in Strings /\ p \o TrimPrefix(s, p) = s
<1>1. Len(p) \in Nat /\ Len(s) \in Nat /\ Len(p) <= Len(s)
  BY DEF HasPrefix, Strings
<1>2. /\ TrimPrefix(s, p) \in Strings
      /\ Len(TrimPrefix(s, p)) = Len(s) - Len(p)
      /\ \A i \in 1..(Len(s) - Len(p)) : TrimPrefix(s, p)[i] = s[Len(p) + i]
  BY <1>1 DEF TrimPrefix, Strings
<1> DEFINE t == TrimPrefix(s, p)
<1> HIDE DEF t
<1>3. t \in Strings /\ Len(t) = Len(s) - Len(p)
  BY <1>2 DEF t
<1>4. p \o t \in Strings /\ Len(p \o t) = Len(s)
  BY <1>1, <1>3 DEF Strings
<1>5. ASSUME NEW i \in 1..Len(s)
      PROVE  (p \o t)[i] = s[i]
  <2>1. CASE i <= Len(p)
    BY <1>1, <1>3, <2>1 DEF HasPrefix, Strings
  <2>2. CASE i > Len(p)
    <3>1. i - Len(p) \in 1..(Len(s) - Len(p))
      BY <1>1, <2>2
    <3>2. (p \o t)[i] = t[i - Len(p)]
      BY <1>1, <1>3, <2>2, <3>1 DEF Strings
    <3>3. t[i - Len(p)] = s[i]
      BY <1>1, <1>2, <3>1 DEF t
    <3> QED BY <3>2, <3>3
  <2>3. i <= Len(p) \/ i > Len(p)
    BY <1>1
  <2> QED BY <2>1, <2>2, <2>3
<1>6. \A i \in 1..Len(s) : (p \o t)[i] = s[i]
  BY <1>5
<1> DEFINE r == p \o t
<1> HIDE DEF r
<1>7. r = s
  <2>1. r \in Seq(Characters) /\ s \in Seq(Characters) /\ Len(r) = Len(s)
    BY <1>4 DEF Strings, r
  <2>2. \A i \in 1..Len(s) : r[i] = s[i]
    BY <1>6 DEF r
  <2> QED BY <2>1, <2>2
<1> QED BY <1>3, <1>7 DEF t, r

-----------------------------------------------------------------------------

(* A list has finitely many prefixes.                                          *)
LEMMA PrefixesFinite ==
  ASSUME NEW list \in Lists
  PROVE  /\ EnabledPrefixes(list) \subseteq Strings
         /\ IsFiniteSet(EnabledPrefixes(list))
<1> DEFINE S == {j \in DOMAIN list : list[j].enabled}
           T == EnabledPrefixes(list)
           f == [i \in S |-> list[i].prefix]
<1>1. T \subseteq Strings
  BY RegistryAssumption DEF EnabledPrefixes
<1>2. IsFiniteSet(1..Len(list)) /\ DOMAIN list = 1..Len(list)
  BY RegistryAssumption, FS_Interval
<1>3. IsFiniteSet(S)
  BY <1>2, FS_Subset
<1>4. f \in Surjection(S, T)
  BY DEF Surjection, EnabledPrefixes
<1>5. IsFiniteSet(T)
  <2> HIDE DEF S, T, f
  <2> QED BY <1>3, <1>4, FS_Surjection
<1> QED BY <1>1, <1>5

(* The types hold at the start,                                                *)
LEMMA InitType == Init => TypeOK
<1> SUFFICES ASSUME Init PROVE TypeOK
  OBVIOUS
<1>1. DOMAIN byPrefix = {}
  BY DEF Init
<1>2. IsFiniteSet({})
  BY FS_EmptySet
<1> QED BY <1>1, <1>2 DEF Init, TypeOK, Listing, Descending

(* and every step keeps them.                                                  *)
LEMMA NextType == TypeOK /\ [Next]_vars => TypeOK'
<1> SUFFICES ASSUME TypeOK, [Next]_vars PROVE TypeOK'
  OBVIOUS
<1>1. ASSUME NEW list \in Lists, SetMap(list)
      PROVE  TypeOK'
  <2>1. DOMAIN byPrefix' = EnabledPrefixes(list)
    BY <1>1 DEF SetMap, ByPrefix
  <2>2. loading' # <<>>
    BY <1>1 DEF SetMap
  <2> QED BY <1>1, <2>1, <2>2, PrefixesFinite DEF SetMap, TypeOK
<1>2. CASE SetOrder
  <2> DEFINE n == Cardinality(DOMAIN byPrefix)
  <2>1. /\ order' \in [1..n -> DOMAIN byPrefix]
        /\ Listing(order', DOMAIN byPrefix) /\ Descending(order')
    BY <1>2 DEF SetOrder, Orders
  <2>2. n \in Nat
    BY FS_CardinalityType DEF TypeOK
  <2> HIDE DEF n
  <2>3. order' \in Seq(Strings)
    BY <2>1, <2>2 DEF TypeOK
  <2> QED BY <1>2, <2>1, <2>3 DEF SetOrder, TypeOK
<1>3. ASSUME NEW path \in Paths, Match(path)
      PROVE  TypeOK'
  BY <1>3 DEF Match, Hit, Miss, TypeOK
<1>4. CASE UNCHANGED vars
  BY <1>4 DEF vars, TypeOK
<1> QED BY <1>1, <1>2, <1>3, <1>4 DEF Next

(* While no load is at work, order lists the keys of the map by length.        *)
THEOREM TypeCorrect == Spec => []TypeOK
<1>1. Init => TypeOK
  BY InitType
<1>2. TypeOK /\ [Next]_vars => TypeOK'
  BY NextType
<1> QED BY <1>1, <1>2, PTL DEF Spec

-----------------------------------------------------------------------------

(* The first hit in an order by length is the longest prefix, and no other key *)
(* is as long: of two equally long prefixes of one path each is the other.     *)
LEMMA FirstHitIsLongest ==
  ASSUME TypeOK, RLock, NEW path \in Paths, NEW i, FirstHit(path, i)
  PROVE  /\ order[i] \in Matching(path)
         /\ \A x \in Matching(path) \ {order[i]} : Len(x) < Len(order[i])
<1>1. order[i] \in DOMAIN byPrefix /\ order[i] \in Strings /\ path \in Strings
  BY RegistryAssumption DEF TypeOK, RLock, FirstHit
<1>2. ASSUME NEW x \in Matching(path) \ {order[i]}
      PROVE  Len(x) < Len(order[i])
  <2>1. x \in Strings /\ HasPrefix(path, x) /\ HasPrefix(path, order[i])
    BY DEF Matching, TypeOK, FirstHit
  <2>2. PICK j \in DOMAIN order : order[j] = x
    BY DEF Matching, TypeOK, RLock, Listing
  <2>3. i \in Int /\ j \in Int /\ i \in DOMAIN order
    BY DEF TypeOK, FirstHit
  <2>4. i < j
    BY <1>2, <2>1, <2>2, <2>3 DEF FirstHit
  <2>5. Len(x) <= Len(order[i])
    BY <2>2, <2>3, <2>4 DEF TypeOK, RLock, Descending
  <2>6. Len(x) # Len(order[i])
    BY <1>1, <1>2, <2>1, EqualPrefixes
  <2> QED BY <1>1, <2>1, <2>5, <2>6 DEF Strings
<1>3. order[i] \in Matching(path)
  BY <1>1 DEF Matching, FirstHit
<1> QED BY <1>2, <1>3

(* Match finds the service of the longest prefix of the path that is           *)
(* registered, or there is none; which order map and sort leave equally long   *)
(* keys in does not matter, and a load at work is never seen.                  *)
THEOREM MatchIsLongest == Spec => LongestMatch
<1> DEFINE P == \A path \in Paths :
                  /\ Hit(path) =>
                       /\ answer'.prefix \in Matching(path)
                       /\ answer'.service = byPrefix[answer'.prefix]
                       /\ \A x \in Matching(path) \ {answer'.prefix} :
                            Len(x) < Len(answer'.prefix)
                  /\ Miss(path) => Matching(path) = {}
<1>1. TypeOK /\ [Next]_vars => [P]_vars
  <2> SUFFICES ASSUME TypeOK, NEW path \in Paths
               PROVE  /\ Hit(path) =>
                           /\ answer'.prefix \in Matching(path)
                           /\ answer'.service = byPrefix[answer'.prefix]
                           /\ \A x \in Matching(path) \ {answer'.prefix} :
                                Len(x) < Len(answer'.prefix)
                      /\ Miss(path) => Matching(path) = {}
    OBVIOUS
  <2>1. ASSUME Hit(path)
        PROVE  /\ answer'.prefix \in Matching(path)
               /\ answer'.service = byPrefix[answer'.prefix]
               /\ \A x \in Matching(path) \ {answer'.prefix} :
                    Len(x) < Len(answer'.prefix)
    <3>1. PICK i \in DOMAIN order :
            /\ FirstHit(path, i)
            /\ answer' = [path |-> path, prefix |-> order[i],
                          service |-> IF order[i] \in DOMAIN byPrefix
                                        THEN byPrefix[order[i]] ELSE NoService,
                          remainder |-> Remainder(path, order[i])]
      BY <2>1 DEF Hit
    <3>2. /\ order[i] \in Matching(path)
          /\ \A x \in Matching(path) \ {order[i]} : Len(x) < Len(order[i])
      BY <2>1, <3>1, FirstHitIsLongest DEF Hit
    <3>3. answer'.prefix = order[i] /\ answer'.service = byPrefix[order[i]]
      BY <3>1, <3>2 DEF Matching
    <3> QED BY <3>2, <3>3
  <2>2. ASSUME Miss(path)
        PROVE  Matching(path) = {}
    BY <2>2 DEF Miss, Matching, TypeOK, RLock, Listing
  <2> QED BY <2>1, <2>2
<1> QED BY <1>1, TypeCorrect, PTL DEF Spec, LongestMatch

(* The remainder handed to the upstream loses nothing of the path.             *)
THEOREM NothingOfThePathIsLost == Spec => RemainderIsRest
<1> DEFINE P == \A path \in Paths : Hit(path) =>
                  /\ HasSlash(answer'.remainder)
                  /\ \/ answer'.prefix \o answer'.remainder = path
                     \/ answer'.prefix \o Tail(answer'.remainder) = path
<1>1. TypeOK /\ [Next]_vars => [P]_vars
  <2> SUFFICES ASSUME TypeOK, NEW path \in Paths, Hit(path)
               PROVE  /\ HasSlash(answer'.remainder)
                      /\ \/ answer'.prefix \o answer'.remainder = path
                         \/ answer'.prefix \o Tail(answer'.remainder) = path
    OBVIOUS
  <2>1. PICK i \in DOMAIN order :
          /\ HasPrefix(path, order[i]) /\ answer'.prefix = order[i]
          /\ answer'.remainder = WithSlash(TrimPrefix(path, order[i]))
    BY DEF Hit, FirstHit, Remainder
  <2> DEFINE t == TrimPrefix(path, order[i])
  <2>2. t \in Strings /\ order[i] \o t = path
    BY <2>1, CutAndJoin, RegistryAssumption DEF TypeOK
  <2> HIDE DEF t
  <2>3. CASE HasSlash(t)
    BY <2>1, <2>2, <2>3 DEF WithSlash, t
  <2>4. CASE ~HasSlash(t)
    <3>1. answer'.remainder = <<Slash>> \o t
      BY <2>1, <2>4 DEF WithSlash, t
    <3>2. HasSlash(<<Slash>> \o t) /\ Tail(<<Slash>> \o t) = t
      BY <2>2, RegistryAssumption DEF HasSlash, Strings
    <3> QED BY <2>1, <2>2, <3>1, <3>2
  <2> QED BY <2>3, <2>4
<1> QED BY <1>1, TypeCorrect, PTL DEF Spec, RemainderIsRest

-----------------------------------------------------------------------------
(* Loops over a list, which the model writes as recursive functions.           *)

Before == {ss \in Nat \X Nat : ss[1] < ss[2]}

(* A set of numbers that is not empty has a least one.                         *)
LEMMA LeastNumber ==
  ASSUME NEW T, T \subseteq Nat, T # {}
  PROVE  \E n \in T : \A m \in T : n <= m
<1>1. IsWellFoundedOn({ss \in Nat \X Nat : ss[1] < ss[2]}, Nat)
  BY NatLessThanWellFounded, Zenon DEF OpToRel
<1>2. PICK n \in T : \A m \in T : ~(<<m, n>> \in Before)
  BY <1>1, WFMin DEF Before
<1>3. \A m \in T : ~(m < n)
  BY <1>2 DEF Before
<1> QED BY <1>3

(* What holds of 0, and of each number if of the one before it, holds of all:  *)
(* T is the set of those it holds of.                                          *)
LEMMA UpTo ==
  ASSUME NEW N \in Nat, NEW T, 0 \in T,
         \A n \in 1..N : n - 1 \in T => n \in T
  PROVE  \A n \in 0..N : n \in T
<1> DEFINE U == {n \in 0..N : n \notin T}
<1> SUFFICES ASSUME U # {} PROVE FALSE
  OBVIOUS
<1>1. PICK n \in U : \A m \in U : n <= m
  <2>1. U \subseteq Nat
    OBVIOUS
  <2> HIDE DEF U
  <2> QED BY <2>1, LeastNumber
<1>2. n \in 1..N /\ n - 1 \in 0..N
  BY <1>1
<1>3. n - 1 \in T
  BY <1>1, <1>2
<1> QED BY <1>1, <1>2, <1>3

Runs(N, S, base, next) ==
  \E f \in [0..N -> S] :
    f = [n \in 0..N |-> IF n = 0 THEN base ELSE next[n][f[n - 1]]]

(* A loop of N rounds, of which each makes the next of the values S from its   *)
(* number and the last, computes something.                                    *)
LEMMA LoopRuns ==
  ASSUME NEW N \in Nat, NEW S, NEW base \in S,
         NEW next \in [1..N -> [S -> S]]
  PROVE  Runs(N, S, base, next)
<1> DEFINE T == {k \in Nat : Runs(k, S, base, next)}
<1>1. Runs(0, S, base, next)
  <2> DEFINE f == [n \in 0..0 |-> base]
  <2>1. f \in [0..0 -> S] /\ f = [n \in 0..0 |-> IF n = 0 THEN base ELSE next[n][f[n - 1]]]
    OBVIOUS
  <2> QED BY <2>1 DEF Runs
<1>2. ASSUME NEW k \in 1..N, Runs(k - 1, S, base, next)
      PROVE  Runs(k, S, base, next)
  <2>1. PICK f \in [0..(k - 1) -> S] :
          f = [n \in 0..(k - 1) |-> IF n = 0 THEN base ELSE next[n][f[n - 1]]]
    BY <1>2 DEF Runs
  <2> DEFINE g == [n \in 0..k |-> IF n = k THEN next[k][f[k - 1]] ELSE f[n]]
  <2>2. \A n \in 0..k : n # k => n \in 0..(k - 1) /\ (n # 0 => n - 1 \in 0..(k - 1) /\ n - 1 # k)
    OBVIOUS
  <2>3. g \in [0..k -> S]
    BY <2>2
  <2>4. ASSUME NEW n \in 0..k
        PROVE  g[n] = IF n = 0 THEN base ELSE next[n][g[n - 1]]
    <3>1. CASE n = k
      <4>1. k - 1 \in 0..k /\ k - 1 # k /\ k # 0
        OBVIOUS
      <4>2. g[k - 1] = f[k - 1] /\ g[k] = next[k][f[k - 1]]
        BY <4>1
      <4> QED BY <3>1, <4>1, <4>2
    <3>2. CASE n # k
      <4>1. g[n] = f[n] /\ f[n] = IF n = 0 THEN base ELSE next[n][f[n - 1]]
        BY <2>1, <2>2, <3>2
      <4>2. CASE n = 0
        BY <4>1, <4>2
      <4>3. CASE n # 0
        <5>1. g[n - 1] = f[n - 1]
          BY <2>2, <3>2, <4>3
        <5> QED BY <4>1, <4>3, <5>1
      <4> QED BY <4>2, <4>3
    <3> QED BY <3>1, <3>2
  <2>5. g = [n \in 0..k |-> IF n = 0 THEN base ELSE next[n][g[n - 1]]]
    <3>1. g = [n \in 0..k |-> g[n]]
      OBVIOUS
    <3> HIDE DEF g
    <3> QED BY <2>4, <3>1
  <2> QED BY <2>3, <2>5 DEF Runs
<1>3. 0 \in T
  BY <1>1
<1>4. \A k \in 1..N : k - 1 \in T => k \in T
  BY <1>2
<1> HIDE DEF T
<1>5. \A n \in 0..N : n \in T
  BY <1>3, <1>4, UpTo
<1>6. N \in T
  BY <1>5
<1> QED BY <1>6 DEF T

(* A set can be written as a list,                                             *)
LEMMA SetIsListed ==
  ASSUME NEW S, IsFiniteSet(S)
  PROVE  SetToSeq(S) \in Seq(S)
<1> DEFINE n == Cardinality(S)
<1>1. n \in Nat
  BY FS_CardinalityType
<1>2. PICK f \in [1..n -> S] : IsInjective(f)
  <2>1. \E f : f \in Bijection(1..n, S)
    <3>1. PICK m \in Nat : ExistsBijection(1..m, S)
      BY FS_NatBijection
    <3>2. n = m
      BY <3>1, FS_CountingElements
    <3> QED BY <3>1, <3>2 DEF ExistsBijection
  <2> QED BY <2>1, Zenon DEF Bijection, Injection, IsInjective
<1>3. SetToSeq(S) \in [1..n -> S]
  BY <1>2 DEF SetToSeq
<1> HIDE DEF n
<1> QED BY <1>1, <1>3

(* and lists joined.                                                           *)
LEMMA ListsAreJoined ==
  ASSUME NEW S, NEW seqs \in Seq(Seq(S))
  PROVE  FlattenSeq(seqs) \in Seq(S)
<1>0. PICK N \in Nat : N = Len(seqs)
  OBVIOUS
<1> DEFINE next == [n \in 1..N |-> [s \in Seq(S) |-> s \o seqs[n]]]
           Flat(f) == f = [i \in 1..N |-> IF i = 1 THEN seqs[i] ELSE f[i - 1] \o seqs[i]]
<1>1. CASE N = 0
  <2>1. FlattenSeq(seqs) = seqs
    BY <1>0, <1>1 DEF FlattenSeq
  <2> HIDE DEF next, Flat
  <2>2. seqs = <<>>
    BY <1>0, <1>1, EmptySeq
  <2> QED BY <2>1, <2>2
<1>2. CASE N # 0
  <2>1. N >= 1 /\ \A n \in 1..N : seqs[n] \in Seq(S)
    BY <1>0, <1>2
  <2>2. \A n \in 1..N, s \in Seq(S) : next[n][s] = s \o seqs[n] /\ next[n][s] \in Seq(S)
    BY <2>1
  <2>3. PICK base \in Seq(S) : base = <<>>
    <3>1. <<>> \in Seq(S)
      OBVIOUS
    <3> QED BY <3>1
  <2>4. \E f : Flat(f)
    <3>0. next \in [1..N -> [Seq(S) -> Seq(S)]]
      BY <2>1 DEF next
    <3> HIDE DEF next
    <3>1. PICK f \in [0..N -> Seq(S)] :
            f = [n \in 0..N |-> IF n = 0 THEN base ELSE next[n][f[n - 1]]]
      <4>1. Runs(N, Seq(S), base, next)
        BY <3>0, LoopRuns
      <4> QED BY <4>1 DEF Runs
    <3> DEFINE g == [n \in 1..N |-> f[n]]
    <3>2. ASSUME NEW n \in 1..N
          PROVE  g[n] = IF n = 1 THEN seqs[n] ELSE g[n - 1] \o seqs[n]
      <4>1. n \in 0..N /\ n - 1 \in 0..N /\ n # 0
        BY <2>1
      <4>2. f[n] = next[n][f[n - 1]] /\ f[n - 1] \in Seq(S)
        BY <3>1, <4>1
      <4>3. f[n] = f[n - 1] \o seqs[n]
        BY <2>2, <4>2
      <4>4. CASE n = 1
        <5>1. f[0] = <<>>
          BY <2>3, <3>1, <4>1, <4>4
        <5>2. f[n] = <<>> \o seqs[n] /\ seqs[n] \in Seq(S)
          <6>1. f[n] = f[0] \o seqs[n]
            BY <4>3, <4>4
          <6> QED BY <2>1, <5>1, <6>1
        <5>3. <<>> \o seqs[n] = seqs[n]
          BY <5>2
        <5> QED BY <4>4, <5>2, <5>3
      <4>5. CASE n # 1
        <5>1. n - 1 \in 1..N
          BY <2>1, <4>5
        <5> QED BY <4>3, <4>5, <5>1
      <4> QED BY <4>4, <4>5
    <3>3. g = [i \in 1..N |-> IF i = 1 THEN seqs[i] ELSE g[i - 1] \o seqs[i]]
      <4>1. g = [i \in 1..N |-> g[i]]
        OBVIOUS
      <4> HIDE DEF g
      <4> QED BY <3>2, <4>1
    <3> QED BY <3>3
  <2> DEFINE flat == CHOOSE f : Flat(f)
             T == {n \in 0..N : n # 0 => flat[n] \in Seq(S)}
  <2>5. Flat(flat)
    <3> HIDE DEF Flat
    <3> QED BY <2>4
  <2>6. FlattenSeq(seqs) = flat[N]
    BY <1>0, <1>2 DEF FlattenSeq
  <2> HIDE DEF flat
  <2>7. ASSUME NEW n \in 1..N, n - 1 \in T
        PROVE  n \in T
    <3>1. flat[n] = IF n = 1 THEN seqs[n] ELSE flat[n - 1] \o seqs[n]
      BY <2>5
    <3>2. CASE n = 1
      BY <2>1, <3>1, <3>2
    <3>3. CASE n # 1
      <4>1. flat[n - 1] \in Seq(S)
        BY <2>7, <3>3
      <4>2. flat[n] = flat[n - 1] \o seqs[n]
        BY <3>1, <3>3
      <4>3. flat[n] \in Seq(S)
        BY <2>1, <4>1, <4>2
      <4> QED BY <4>3
    <3> QED BY <3>2, <3>3
  <2>8. 0 \in T
    BY <2>1
  <2>9. N \in T
    <3>1. \A n \in 1..N : n - 1 \in T => n \in T
      BY <2>7
    <3> HIDE DEF T
    <3>2. \A n \in 0..N : n \in T
      BY <2>8, <3>1, UpTo
    <3> QED BY <3>2
  <2> QED BY <1>2, <2>6, <2>9 DEF T
<1> QED BY <1>1, <1>2

-----------------------------------------------------------------------------

(* The length of a pattern is a number.                                        *)
LEMMA LengthIsNat ==
  ASSUME NEW pattern \in Seq(Segments)
  PROVE  PatternLength(pattern) \in Nat
<1>1. PICK N \in Nat : N = Len(pattern)
  OBVIOUS
<1> DEFINE Sum(f) == f = [n \in 0..N |-> IF n = 0 THEN 0 ELSE f[n - 1] + pattern[n].size + 1]
           next == [n \in 1..N |-> [x \in Nat |-> x + pattern[n].size + 1]]
           sum == CHOOSE f : Sum(f)
           T == {n \in 0..N : sum[n] \in Nat}
<1>2. \A n \in 1..N : pattern[n].size \in Nat
  <2> HIDE DEF Sum, next, sum, T
  <2>1. \A n \in 1..N : pattern[n] \in Segments
    BY <1>1
  <2> QED BY <2>1 DEF Segments
<1>3. Runs(N, Nat, 0, next)
  <2>1. next \in [1..N -> [Nat -> Nat]]
    BY <1>2
  <2> HIDE DEF next
  <2> QED BY <2>1, LoopRuns
<1>4. \E f : Sum(f)
  <2>1. PICK f \in [0..N -> Nat] : f = [n \in 0..N |-> IF n = 0 THEN 0 ELSE next[n][f[n - 1]]]
    BY <1>3 DEF Runs
  <2>2. \A n \in 1..N : next[n][f[n - 1]] = f[n - 1] + pattern[n].size + 1
    <3>1. \A n \in 1..N : f[n - 1] \in Nat
      OBVIOUS
    <3> QED BY <3>1
  <2> HIDE DEF next
  <2>3. \A n \in 0..N : f[n] = IF n = 0 THEN 0 ELSE f[n - 1] + pattern[n].size + 1
    BY <2>1, <2>2
  <2>4. f = [n \in 0..N |-> f[n]]
    OBVIOUS
  <2>5. Sum(f)
    BY <2>3, <2>4
  <2> QED BY <2>5
<1>5. Sum(sum)
  <2> HIDE DEF Sum
  <2> QED BY <1>4
<1>6. PatternLength(pattern) = sum[N]
  BY <1>1 DEF PatternLength
<1> HIDE DEF sum
<1>7. 0 \in T
  BY <1>5
<1>8. \A n \in 1..N : n - 1 \in T => n \in T
  BY <1>2, <1>5
<1> HIDE DEF T
<1>9. \A n \in 0..N : n \in T
  BY <1>7, <1>8, UpTo
<1> QED BY <1>6, <1>9 DEF T

(* The rounds of the loop over the routes: best holds the best route after     *)
(* each of them.                                                               *)
Rounds(list, method, path, best) ==
  /\ best \in [0..Len(list) -> 0..Len(list)]
  /\ best[0] = NoRoute
  /\ \A n \in 1..Len(list) :
       best[n] = IF Takes(list, method, path, n, best[n - 1]) THEN n ELSE best[n - 1]

LEMMA LoopOverRoutes ==
  ASSUME NEW list, Len(list) \in Nat, NEW method, NEW path
  PROVE  \E best : /\ Rounds(list, method, path, best)
                   /\ MatchTemplatedRoute(list, method, path) = best[Len(list)]
<1>1. PICK N \in Nat : N = Len(list)
  OBVIOUS
<1> DEFINE Takes1(n, x) == Takes(list, method, path, n, x)
           Loop(f) == f = [n \in 0..N |-> IF n = 0 THEN NoRoute
                                          ELSE IF Takes1(n, f[n - 1]) THEN n ELSE f[n - 1]]
           next == [n \in 1..N |-> [x \in 0..N |-> IF Takes1(n, x) THEN n ELSE x]]
           best == CHOOSE f : Loop(f)
           T == {n \in 0..N : best[n] \in 0..N}
<1>2. Runs(N, 0..N, NoRoute, next)
  <2>1. next \in [1..N -> [0..N -> 0..N]]
    <3> HIDE DEF Takes1
    <3> QED OBVIOUS
  <2>2. NoRoute \in 0..N
    BY DEF NoRoute
  <2> HIDE DEF next
  <2> QED BY <2>1, <2>2, LoopRuns
<1>3. \E f : Loop(f)
  <2> HIDE DEF Takes1
  <2>1. PICK f \in [0..N -> 0..N] :
          f = [n \in 0..N |-> IF n = 0 THEN NoRoute ELSE next[n][f[n - 1]]]
    BY <1>2 DEF Runs
  <2>2. \A n \in 1..N : next[n][f[n - 1]] = IF Takes1(n, f[n - 1]) THEN n ELSE f[n - 1]
    <3>1. \A n \in 1..N : f[n - 1] \in 0..N
      OBVIOUS
    <3> QED BY <3>1
  <2> HIDE DEF next
  <2>3. \A n \in 0..N : f[n] = IF n = 0 THEN NoRoute
                               ELSE IF Takes1(n, f[n - 1]) THEN n ELSE f[n - 1]
    <3> HIDE DEF best, T, Loop
    <3>1. f[0] = NoRoute
      BY <2>1
    <3>2. ASSUME NEW n \in 1..N
          PROVE  f[n] = IF Takes1(n, f[n - 1]) THEN n ELSE f[n - 1]
      <4>1. f[n] = next[n][f[n - 1]]
        BY <2>1
      <4> QED BY <2>2, <4>1
    <3>3. ASSUME NEW n \in 0..N
          PROVE  f[n] = IF n = 0 THEN NoRoute
                        ELSE IF Takes1(n, f[n - 1]) THEN n ELSE f[n - 1]
      <4>1. CASE n = 0
        BY <3>1, <4>1
      <4>2. CASE n # 0
        <5>1. n \in 1..N
          BY <4>2
        <5> QED BY <3>2, <4>2, <5>1
      <4> QED BY <4>1, <4>2
    <3> QED BY <3>3
  <2>4. f = [n \in 0..N |-> f[n]]
    OBVIOUS
  <2>5. Loop(f)
    BY <2>3, <2>4
  <2> QED BY <2>5
<1>4. Loop(best)
  <2> HIDE DEF Loop
  <2> QED BY <1>3
<1>5. MatchTemplatedRoute(list, method, path) = best[N]
  BY <1>1 DEF MatchTemplatedRoute
<1> HIDE DEF best, Takes1
<1>6. 0 \in T
  BY <1>4 DEF NoRoute
<1>7. \A n \in 1..N : n - 1 \in T => n \in T
  BY <1>4
<1>8. \A n \in 0..N : n \in T
  <2> HIDE DEF T, Loop
  <2> QED BY <1>6, <1>7, UpTo
<1>9. best \in [0..N -> 0..N]
  BY <1>4, <1>8
<1>10. best[0] = NoRoute /\ \A n \in 1..N :
         best[n] = IF Takes1(n, best[n - 1]) THEN n ELSE best[n - 1]
  BY <1>4
<1>11. Rounds(list, method, path, best)
  BY <1>1, <1>9, <1>10 DEF Rounds, Takes1
<1> QED BY <1>1, <1>5, <1>11

(* What the loop returns: no route if none matches, else one that matches, and *)
(* none that matches is longer, or as long and before it in the list.          *)
LEMMA LongestIsReturned ==
  ASSUME NEW list, Len(list) \in Nat, DOMAIN list = 1..Len(list),
         \A i \in DOMAIN list : PatternLength(list[i].pattern) \in Nat,
         NEW method, NEW path
  PROVE  LET all == Candidates(list, method, path)
             best == MatchTemplatedRoute(list, method, path)
             size(i) == PatternLength(list[i].pattern)
         IN IF all = {} THEN best = NoRoute
            ELSE /\ best \in all
                 /\ \A i \in all \ {best} :
                      size(i) < size(best) \/ (size(i) = size(best) /\ best < i)
<1>1. PICK N \in Nat : N = Len(list)
  OBVIOUS
<1>2. PICK best : /\ Rounds(list, method, path, best)
                  /\ MatchTemplatedRoute(list, method, path) = best[N]
  BY <1>1, LoopOverRoutes
<1> DEFINE all == Candidates(list, method, path)
           size(i) == PatternLength(list[i].pattern)
           Behind(i, b) == size(i) < size(b) \/ (size(i) = size(b) /\ b < i)
           First(n, b) == IF b = 0 THEN \A i \in all : i > n
                          ELSE /\ b \in all /\ b <= n
                               /\ \A i \in all \ {b} : i > n \/ Behind(i, b)
           T == {n \in 0..N : First(n, best[n])}
<1>3. /\ best \in [0..N -> 0..N] /\ best[0] = 0
      /\ \A n \in 1..N :
           best[n] = IF Takes(list, method, path, n, best[n - 1]) THEN n ELSE best[n - 1]
  BY <1>1, <1>2 DEF Rounds, NoRoute
<1>4. all \subseteq 1..N /\ \A i \in 1..N : size(i) \in Nat
  BY <1>1 DEF Candidates
<1>5. ASSUME NEW n \in 1..N, NEW b
      PROVE  Takes(list, method, path, n, b) <=> n \in all /\ (b = 0 \/ size(n) > size(b))
  BY <1>1, <1>5 DEF Takes, Candidates, Better, NoRoute
<1> HIDE DEF all, size
<1>6. 0 \in T
  BY <1>3, <1>4
<1>7. ASSUME NEW n \in 1..N, n - 1 \in T
      PROVE  n \in T
  <2> DEFINE b == best[n - 1]
             c == best[n]
  <2>1. First(n - 1, b) /\ b \in 0..N
    BY <1>3, <1>7
  <2>2. CASE Takes(list, method, path, n, b)
    <3>1. c = n /\ n \in all /\ (b = 0 \/ size(n) > size(b))
      BY <1>3, <1>5, <2>2
    <3>2. ASSUME NEW i \in all, i # n
          PROVE  i > n \/ Behind(i, n)
      <4>1. CASE b = 0
        BY <1>4, <2>1, <3>2, <4>1
      <4>2. CASE b # 0
        <5>1. b \in all /\ size(n) > size(b) /\ (i = b \/ i > n - 1 \/ Behind(i, b))
          BY <2>1, <3>1, <4>2
        <5>2. CASE i = b
          BY <1>4, <5>1, <5>2
        <5>3. CASE i > n - 1
          BY <1>4, <3>2, <5>3
        <5>4. CASE Behind(i, b)
          <6>1. size(i) \in Nat /\ size(b) \in Nat /\ size(n) \in Nat
            BY <1>4, <5>1
          <6>2. size(i) <= size(b)
            BY <5>4, <6>1
          <6> QED BY <5>1, <6>1, <6>2
        <5> QED BY <5>1, <5>2, <5>3, <5>4
      <4> QED BY <4>1, <4>2
    <3> HIDE DEF Behind
    <3>3. First(n, c)
      BY <3>1, <3>2
    <3> QED BY <3>3
  <2>3. CASE ~Takes(list, method, path, n, b)
    <3>1. c = b /\ ~(n \in all /\ (b = 0 \/ size(n) > size(b)))
      BY <1>3, <1>5, <2>3
    <3>2. CASE b = 0
      <4>1. \A i \in all : i > n
        BY <1>4, <2>1, <3>1, <3>2
      <4> QED BY <3>1, <3>2, <4>1
    <3>3. CASE b # 0
      <4>1. /\ b \in all /\ b <= n - 1
            /\ \A i \in all \ {b} : i > n - 1 \/ Behind(i, b)
        BY <2>1, <3>3
      <4>2. ASSUME NEW i \in all \ {b}
            PROVE  i > n \/ Behind(i, b)
        <5>1. CASE i = n
          <6>1. size(b) \in Nat /\ size(n) \in Nat /\ b \in 1..N
            BY <1>4, <4>1
          <6>2. size(n) <= size(b)
            BY <3>1, <3>3, <5>1, <6>1
          <6>3. b < n
            BY <4>1, <6>1
          <6> QED BY <5>1, <6>1, <6>2, <6>3
        <5>2. CASE i # n
          BY <1>4, <4>1, <5>2
        <5> QED BY <5>1, <5>2
      <4>3. b <= n
        <5>1. b \in 1..N
          BY <1>4, <4>1
        <5> QED BY <4>1, <5>1
      <4> HIDE DEF Behind
      <4>4. First(n, b)
        BY <3>3, <4>1, <4>2, <4>3
      <4> QED BY <3>1, <4>4
    <3> QED BY <3>2, <3>3
  <2> QED BY <2>2, <2>3
<1>8. First(N, best[N])
  <2>1. \A n \in 1..N : n - 1 \in T => n \in T
    BY <1>7
  <2>2. \A n \in 0..N : n \in T
    <3> HIDE DEF T
    <3> QED BY <1>6, <2>1, UpTo
  <2> QED BY <2>2
<1>9. CASE best[N] = 0
  <2>1. all = {}
    BY <1>4, <1>8, <1>9
  <2> QED BY <1>2, <1>9, <2>1 DEF all, NoRoute
<1>10. CASE best[N] # 0
  <2>1. best[N] \in all /\ \A i \in all \ {best[N]} : Behind(i, best[N])
    BY <1>4, <1>8, <1>10
  <2> QED BY <1>2, <2>1 DEF all, size
<1> QED BY <1>9, <1>10

-----------------------------------------------------------------------------

(* The rows of gateway_routes: each pair of a method and a pattern has one or  *)
(* none.                                                                       *)
Rows ==
  UNION {{[method |-> m, pattern |-> Patterns[i], target |-> routes[m][i]] :
            m \in {n \in Methods : routes[n][i] # NoTarget}} : i \in DOMAIN Patterns}

(* ListRoutes returns a list of rows.                                          *)
LEMMA ListHasRows == ListRoutes \in Seq(Rows)
<1> DEFINE Of(i) == {[method |-> m, pattern |-> Patterns[i], target |-> routes[m][i]] :
                       m \in {n \in Methods : routes[n][i] # NoTarget}}
           rows == [i \in DOMAIN Patterns |-> SetToSeq(Of(i))]
<1>1. ASSUME NEW i \in DOMAIN Patterns
      PROVE  SetToSeq(Of(i)) \in Seq(Rows)
  <2> DEFINE M == {n \in Methods : routes[n][i] # NoTarget}
             f == [m \in M |-> [method |-> m, pattern |-> Patterns[i], target |-> routes[m][i]]]
  <2>1. IsFiniteSet(M)
    BY ProxyAssumption, FS_Subset
  <2>2. f \in Surjection(M, Of(i))
    BY DEF Surjection
  <2>3. IsFiniteSet(Of(i))
    <3> HIDE DEF M, f, Of
    <3> QED BY <2>1, <2>2, FS_Surjection
  <2>4. Of(i) \subseteq Rows
    BY DEF Rows
  <2>5. SetToSeq(Of(i)) \in Seq(Of(i))
    <3> HIDE DEF Of
    <3> QED BY <2>3, SetIsListed
  <2> HIDE DEF Of
  <2> QED BY <2>4, <2>5
<1>2. rows \in Seq(Seq(Rows))
  <2>1. Patterns \in Seq(Seq(Segments))
    BY ProxyAssumption
  <2> HIDE DEF Of
  <2> QED BY <1>1, <2>1
<1>3. ListRoutes = FlattenSeq(rows)
  BY DEF ListRoutes
<1> HIDE DEF rows
<1> QED BY <1>2, <1>3, ListsAreJoined

(* Their patterns are sequences of segments.                                   *)
LEMMA RowsAreProper == \A rt \in Rows : rt.pattern \in Seq(Segments)
<1>1. Patterns \in Seq(Seq(Segments))
  BY ProxyAssumption
<1>2. ASSUME NEW S, NEW s \in Seq(S)
      PROVE  \A i \in DOMAIN s : s[i] \in S
  OBVIOUS
<1>3. \A i \in DOMAIN Patterns : Patterns[i] \in Seq(Segments)
  BY <1>1, <1>2
<1> QED BY <1>3 DEF Rows

(* So the loop over a list of them is one that LongestIsReturned is about.     *)
LEMMA ListIsProper ==
  ASSUME NEW list \in Seq(Rows)
  PROVE  /\ Len(list) \in Nat /\ DOMAIN list = 1..Len(list)
         /\ \A i \in DOMAIN list :
              list[i] \in Rows /\ PatternLength(list[i].pattern) \in Nat
<1>1. Len(list) \in Nat /\ DOMAIN list = 1..Len(list) /\ \A i \in DOMAIN list : list[i] \in Rows
  OBVIOUS
<1>2. \A i \in DOMAIN list : PatternLength(list[i].pattern) \in Nat
  BY <1>1, RowsAreProper, LengthIsNat
<1> QED BY <1>1, <1>2

(* A position the loop returns is one of the list, with a row of the request's *)
(* method whose pattern matches.                                               *)
LEMMA ReturnedMatches ==
  ASSUME NEW list \in Seq(Rows), NEW method, NEW path,
         NEW best, best = MatchTemplatedRoute(list, method, path), best # NoRoute
  PROVE  /\ best \in DOMAIN list
         /\ list[best] \in Rows /\ list[best].method = method
         /\ Matches(list[best].pattern, path)
<1>1. /\ Len(list) \in Nat /\ DOMAIN list = 1..Len(list)
      /\ \A i \in DOMAIN list : list[i] \in Rows /\ PatternLength(list[i].pattern) \in Nat
  BY ListIsProper
<1>2. best \in Candidates(list, method, path)
  BY <1>1, LongestIsReturned
<1> QED BY <1>1, <1>2 DEF Candidates

(* So is what a lost connection leaves of it.                                  *)
LEMMA TruncatedHasRows ==
  ASSUME NEW n \in 0..Len(ListRoutes) - 1
  PROVE  SubSeq(ListRoutes, 1, n) \in Seq(Rows)
<1>1. PICK list \in Seq(Rows) : list = ListRoutes
  BY ListHasRows
<1>2. n \in 0..Len(list) - 1
  BY <1>1
<1>3. SubSeq(list, 1, n) \in Seq(Rows)
  BY <1>2
<1> QED BY <1>1, <1>3

(* Each segment of a path that matches is the pattern's, or denoted by the     *)
(* parameter of its template.                                                  *)
LEMMA MatchDenotes ==
  ASSUME NEW pattern \in Seq(Segments), NEW path \in Seq(Texts),
         Matches(pattern, path), Distinct(pattern)
  PROVE  /\ Len(TrimPath(path)) = Len(TrimPattern(pattern))
         /\ \A i \in DOMAIN TrimPattern(pattern) :
              LET seg == TrimPattern(pattern)[i]
                  value == Params(pattern, path)[seg.text]
              IN IF seg.template THEN /\ Denotes(TrimPath(path)[i], value)
                                      /\ value.type \in {seg.type, "string"}
                                 ELSE seg.text = TrimPath(path)[i]
<1> DEFINE ps == TrimPattern(pattern)
           us == TrimPath(path)
           t == TemplatesOf(pattern)
<1>1. ps \in Seq(Segments)
  <2>1. ASSUME NEW S, NEW s \in Seq(S), Len(s) > 1
        PROVE  Front(s) \in Seq(S)
    BY <2>1 DEF Front
  <2> QED BY <2>1, Zenon DEF TrimPattern
<1>2. /\ Len(ps) = Len(us)
      /\ \A i \in DOMAIN ps : IF ps[i].template THEN ps[i].text # "" ELSE ps[i].text = us[i]
  BY DEF Matches
<1>3. t = {i \in DOMAIN ps : ps[i].template}
  BY DEF TemplatesOf
<1>4. \A i, j \in t : ps[i].text = ps[j].text => i = j
  BY DEF Distinct
<1>5. ASSUME NEW i \in t
      PROVE  Params(pattern, path)[ps[i].text] = Coerce(us[i], ps[i].type)
  <2> DEFINE same == {j \in t : ps[j].text = ps[i].text}
  <2>1. ps[i].text \in KeysOf(pattern)
    BY DEF KeysOf
  <2>2. Params(pattern, path)[ps[i].text] = Coerce(us[LastOf(same)], ps[LastOf(same)].type)
    BY <2>1 DEF Params
  <2>3. same = {i}
    BY <1>4
  <2>4. LastOf({i}) = i
    <3>1. i \in Int
      BY <1>1, <1>3
    <3>2. \A k \in {i} : k = i
      OBVIOUS
    <3>3. \E k \in {i} : \A j \in {i} : j <= k
      BY <3>1
    <3> QED BY <3>2, <3>3, Zenon DEF LastOf
  <2> HIDE DEF same, ps, us
  <2> QED BY <2>2, <2>3, <2>4
<1> HIDE DEF ps, us, t
<1>6. ASSUME NEW text, NEW type
      PROVE  /\ Denotes(text, Coerce(text, type))
             /\ Coerce(text, type).type \in {type, "string"}
  BY DEF Denotes, Coerce
<1>7. ASSUME NEW i \in DOMAIN ps
      PROVE  LET value == Params(pattern, path)[ps[i].text]
             IN IF ps[i].template THEN /\ Denotes(us[i], value)
                                       /\ value.type \in {ps[i].type, "string"}
                                  ELSE ps[i].text = us[i]
  <2>1. CASE ps[i].template
    BY <1>3, <1>5, <1>6, <2>1
  <2>2. CASE ~ps[i].template
    BY <1>2, <2>2
  <2> QED BY <2>1, <2>2
<1> QED BY <1>2, <1>7 DEF ps, us

(* Whatever the routes are, the route a request gets is the longest one of its *)
(* method that matches, and of equally long ones the first by path: the order  *)
(* in which the database returns rows of one path does not matter.             *)
THEOREM LongestIsChosen == ProxySpec => []LongestRoute
<1>1. LongestRoute
  <2> SUFFICES ASSUME NEW m \in Methods, NEW path \in Remainders
               PROVE  LET list == ListRoutes
                          all == Candidates(list, m, path)
                          best == MatchTemplatedRoute(list, m, path)
                          size(i) == PatternLength(list[i].pattern)
                      IN IF all = {} THEN best = NoRoute
                         ELSE /\ best \in all
                              /\ \A i \in all \ {best} :
                                   size(i) < size(best) \/ (size(i) = size(best) /\ best < i)
    BY DEF LongestRoute
  <2>1. PICK list \in Seq(Rows) : list = ListRoutes
    BY ListHasRows
  <2> QED BY <2>1, ListIsProper, LongestIsReturned
<1> QED BY <1>1, PTL

(* Whatever the routes are, no segment of the path is lost or put in another's *)
(* place: each is the chosen pattern's own, or what its parameter denotes.     *)
THEOREM PathDenoted == ProxySpec => []ParamsDenotePath
<1>1. ParamsDenotePath
  <2> SUFFICES ASSUME NEW m \in Methods, NEW path \in Remainders,
                      NEW best, best = MatchTemplatedRoute(ListRoutes, m, path),
                      NEW pattern, pattern = ListRoutes[best].pattern,
                      best # NoRoute, Distinct(pattern)
               PROVE  /\ Len(TrimPath(path)) = Len(TrimPattern(pattern))
                      /\ \A i \in DOMAIN TrimPattern(pattern) :
                           LET seg == TrimPattern(pattern)[i]
                               value == Params(pattern, path)[seg.text]
                           IN IF seg.template THEN /\ Denotes(TrimPath(path)[i], value)
                                                   /\ value.type \in {seg.type, "string"}
                                              ELSE seg.text = TrimPath(path)[i]
    BY DEF ParamsDenotePath
  <2>1. Matches(pattern, path) /\ pattern \in Seq(Segments)
    <3>1. PICK list \in Seq(Rows) : list = ListRoutes
      BY ListHasRows
    <3>2. list[best] \in Rows /\ Matches(list[best].pattern, path)
      BY <3>1, ReturnedMatches
    <3> QED BY <3>1, <3>2, RowsAreProper
  <2>2. path \in Seq(Texts)
    BY ProxyAssumption
  <2> QED BY <2>1, <2>2, MatchDenotes
<1> QED BY <1>1, PTL

-----------------------------------------------------------------------------

(* While no request is being answered there is no reply, and a call that was   *)
(* made is one that the request or a route led to. The routes are a table, so  *)
(* that a row of the list is one of theirs.                                    *)
ProxyInv ==
  /\ Ready => reply = NoReply
  /\ CalledByRoute

LEMMA ProxyStarts == ProxyInit => ProxyInv
BY DEF ProxyInit, ProxyInv, CalledByRoute, NoReply

(* What Answers says was called is the method Lookup found.                    *)
LEMMA OnlyTheFoundIsCalled ==
  ASSUME NEW call, NEW body, NEW a \in Answers(call, body), a.status = "called"
  PROVE  a.rpc = FullName(call.rpc)
<1> DEFINE rpc == FullName(call.rpc)
           input == IF body = BadBody THEN NoParams ELSE Input(call.params, body)
           all == [status |-> "called", rpc |-> rpc, params |-> call.params, input |-> input]
           refused == [NoReply EXCEPT !.status = "bad request"]
           failed == [NoReply EXCEPT !.status = "bad gateway"]
<1> HIDE DEF input
<1>1. Answers(call, body) \subseteq {all, refused, failed}
  BY DEF Answers, input
<1>2. refused.status = "bad request" /\ failed.status = "bad gateway"
  BY DEF NoReply
<1>3. a = all
  <2> HIDE DEF all, refused, failed
  <2> QED BY <1>1, <1>2
<1> QED BY <1>3

(* A call that Lookup finds in a list of rows is the path or a route's.        *)
LEMMA FoundByRoute ==
  ASSUME NEW req \in Requests, NEW list \in Seq(Rows), NEW call \in Lookup(req, list)
  PROVE  \/ call.rpc = req.path
         \/ \E j \in DOMAIN Patterns :
              /\ routes[req.method][j] # NoTarget /\ call.rpc = routes[req.method][j].rpc
              /\ Matches(Patterns[j], req.path)
<1> DEFINE i == IF Direct(req.path) THEN NoRoute
                ELSE MatchTemplatedRoute(list, req.method, req.path)
<1>1. CASE i = NoRoute
  BY <1>1 DEF Lookup
<1>2. CASE i # NoRoute
  <2>1. /\ list[i] \in Rows /\ list[i].method = req.method
        /\ Matches(list[i].pattern, req.path)
    BY <1>2, ReturnedMatches
  <2>2. call.rpc = list[i].target.rpc
    <3> HIDE DEF i
    <3>1. Lookup(req, list) = {[rpc |-> list[i].target.rpc, params |-> p] :
                                 p \in MergeQueryParams(Params(list[i].pattern, req.path),
                                                       list[i].target.mapping, req.query)}
      BY <1>2 DEF Lookup, i
    <3> QED BY <3>1
  <2> HIDE DEF i
  <2>3. PICK j \in DOMAIN Patterns, m \in Methods :
          /\ routes[m][j] # NoTarget
          /\ list[i] = [method |-> m, pattern |-> Patterns[j], target |-> routes[m][j]]
    BY <2>1 DEF Rows
  <2> QED BY <2>1, <2>2, <2>3
<1> QED BY <1>1, <1>2

LEMMA ProxySteps == ProxyInv /\ [ProxyNext]_proxyVars => ProxyInv'
<1> SUFFICES ASSUME ProxyInv, [ProxyNext]_proxyVars PROVE ProxyInv'
  OBVIOUS
<1>1. ASSUME NEW req \in Requests
      PROVE  req # NoRequest
  <2>1. req.method \in Methods
    BY DEF Requests
  <2>2. NoRequest.method = ""
    BY DEF NoRequest
  <2> QED BY <2>1, <2>2, ProxyAssumption
<1>2. NoReply.status # "called"
  BY DEF NoReply
<1>3. CASE EditRoutes
  <2>1. Ready' /\ reply' = NoReply
    BY <1>3 DEF EditRoutes, ProxyInv, Ready
  <2> QED BY <1>2, <2>1 DEF ProxyInv, CalledByRoute
<1>4. ASSUME NEW req \in Requests, Transcode(req) \/ TranscodeTruncated(req)
      PROVE  ProxyInv'
  <2>1. request' = req /\ ~Ready' /\ routes' = routes
    BY <1>1, <1>4 DEF Transcode, TranscodeTruncated, Ready
  <2>2. PICK list \in Seq(Rows) :
          \E call \in Lookup(req, list) : reply' \in Answers(call, req.body)
    BY <1>4, ListHasRows, TruncatedHasRows DEF Transcode, TranscodeTruncated
  <2>3. PICK call \in Lookup(req, list) : reply' \in Answers(call, req.body)
    BY <2>2
  <2>4. ASSUME reply'.status = "called"
        PROVE  CalledByRoute'
    <3>1. reply'.rpc = FullName(call.rpc)
      BY <2>3, <2>4, OnlyTheFoundIsCalled
    <3>2. \/ call.rpc = req.path
          \/ \E j \in DOMAIN Patterns :
               /\ routes[req.method][j] # NoTarget /\ call.rpc = routes[req.method][j].rpc
               /\ Matches(Patterns[j], req.path)
      BY <2>3, FoundByRoute
    <3> QED BY <2>1, <3>1, <3>2 DEF CalledByRoute
  <2> QED BY <2>1, <2>4 DEF ProxyInv, CalledByRoute
<1>5. CASE Answered
  BY <1>2, <1>5 DEF Answered, ProxyInv, CalledByRoute
<1>6. CASE UNCHANGED proxyVars
  BY <1>6 DEF proxyVars, ProxyInv, CalledByRoute, Ready
<1> QED BY <1>3, <1>4, <1>5, <1>6 DEF ProxyNext

(* A gRPC method is called only for a request that names it or that a route of *)
(* its own HTTP method leads to it, whatever the routes, the table's order and *)
(* the edits between two requests.                                             *)
THEOREM OnlyRoutedCalls == ProxySpec => []CalledByRoute
<1>1. ProxyInv => CalledByRoute
  BY DEF ProxyInv
<1> QED BY <1>1, ProxyStarts, ProxySteps, PTL DEF ProxySpec

=============================================================================
