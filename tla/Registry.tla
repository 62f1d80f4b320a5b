------------------------------ MODULE Registry ------------------------------
(* The runtime registry of the gateway (internal/registry/registry.go), which  *)
(* every proxied request asks for its service, and the prefixes it holds       *)
(* (normalizePrefix in internal/admin/helpers.go). Prefixes and paths are      *)
(* sequences of characters, because matching is about their characters.        *)
(*                                                                             *)
(* Set assigns the map and then, after sorting, the order, both under the      *)
(* write lock; a Match holds the read lock from its first to its last step. So *)
(* Set is two steps here and Match, which waits for loading to end, is one.    *)
EXTENDS Integers, Sequences, FiniteSets

CONSTANTS
  Characters,  \* of which prefixes and paths consist
  Slash,       \* the one that separates segments
  Lists,       \* the lists of services a load hands to Set
  Paths,       \* the paths of requests
  NoService    \* the answer of Match when there is none

Strings == Seq(Characters)

ASSUME RegistryAssumption ==
  /\ Slash \in Characters
  /\ Paths \subseteq Strings
  /\ \A list \in Lists :
       /\ Len(list) \in Nat /\ DOMAIN list = 1..Len(list)
       /\ \A i \in DOMAIN list : list[i].prefix \in Strings /\ list[i].enabled \in BOOLEAN

VARIABLES
  byPrefix,   \* the map from prefix to service
  order,      \* its keys, by length descending
  loading,    \* the list Set works on, <<>> while the lock is free
  answer      \* what the last Match returned

vars == <<byPrefix, order, loading, answer>>

-----------------------------------------------------------------------------
(* Package strings.                                                            *)

HasPrefix(s, p) == Len(p) <= Len(s) /\ \A i \in 1..Len(p) : s[i] = p[i]

TrimPrefix(s, p) == SubSeq(s, Len(p) + 1, Len(s))

HasSlash(s) == Len(s) > 0 /\ s[1] = Slash

EndsWithSlash(s) == Len(s) > 0 /\ s[Len(s)] = Slash

(* normalizePrefix: a slash in front and a slash behind, unless there is one.  *)
WithSlash(s) == IF HasSlash(s) THEN s ELSE <<Slash>> \o s

NormalizePrefix(p) ==
  LET q == WithSlash(p) IN IF EndsWithSlash(q) THEN q ELSE Append(q, Slash)

-----------------------------------------------------------------------------

(* The map built in a loop over the list: of two enabled services with one     *)
(* prefix the later one stays.                                                 *)
Prefixed(list, x) == {i \in DOMAIN list : list[i].enabled /\ list[i].prefix = x}

Latest(positions) == CHOOSE i \in positions : \A j \in positions : j <= i

EnabledPrefixes(list) == {list[i].prefix : i \in {j \in DOMAIN list : list[j].enabled}}

ByPrefix(list) == [x \in EnabledPrefixes(list) |-> list[Latest(Prefixed(list, x))]]

(* A map is ranged over in any order and sort.Slice is not stable: any order   *)
(* of the keys that goes from long to short.                                   *)
Descending(keys) == \A i, j \in DOMAIN keys : i < j => Len(keys[i]) >= Len(keys[j])

Listing(keys, set) == \A x \in set : \E i \in DOMAIN keys : keys[i] = x

Orders(set) ==
  {keys \in [1..Cardinality(set) -> set] : Listing(keys, set) /\ Descending(keys)}

NoAnswer == [path |-> <<>>, service |-> NoService, prefix |-> <<>>, remainder |-> <<>>]

Init ==
  /\ byPrefix = [x \in {} |-> NoService]
  /\ order = <<>>
  /\ loading = <<>>
  /\ answer = NoAnswer

(* Set(services), from r.mu.Lock to the new map.                               *)
SetMap(list) ==
  /\ loading = <<>>
  /\ loading' = <<list>>
  /\ byPrefix' = ByPrefix(list)
  /\ UNCHANGED <<order, answer>>

(* The order, sorted, and r.mu.Unlock.                                         *)
SetOrder ==
  /\ loading # <<>>
  /\ loading' = <<>>
  /\ order' \in Orders(DOMAIN byPrefix)
  /\ UNCHANGED <<byPrefix, answer>>

(* The loop of Match returns at the first key of order that the path starts    *)
(* with.                                                                       *)
FirstHit(path, i) ==
  /\ i \in DOMAIN order
  /\ HasPrefix(path, order[i])
  /\ \A j \in DOMAIN order : j < i => ~HasPrefix(path, order[j])

(* Mutation of RLock: Match does not wait for the lock.                        *)
NoLock == TRUE

RLock == loading = <<>>

(* Mutation of Remainder: what is left of the path, as it is.                  *)
PlainRemainder(path, p) == TrimPrefix(path, p)

Remainder(path, p) == WithSlash(TrimPrefix(path, p))

Hit(path) ==
  /\ RLock
  /\ \E i \in DOMAIN order :
       /\ FirstHit(path, i)
       /\ answer' = [path |-> path, prefix |-> order[i],
                     service |-> IF order[i] \in DOMAIN byPrefix
                                   THEN byPrefix[order[i]] ELSE NoService,
                     remainder |-> Remainder(path, order[i])]
  /\ UNCHANGED <<byPrefix, order, loading>>

Miss(path) ==
  /\ RLock
  /\ \A i \in DOMAIN order : ~HasPrefix(path, order[i])
  /\ answer' = [NoAnswer EXCEPT !.path = path]
  /\ UNCHANGED <<byPrefix, order, loading>>

Match(path) == Hit(path) \/ Miss(path)

Next ==
  \/ \E list \in Lists : SetMap(list)
  \/ SetOrder
  \/ \E path \in Paths : Match(path)

Spec == Init /\ [][Next]_vars

-----------------------------------------------------------------------------

(* The keys are strings, and unless a load is at work order lists exactly the  *)
(* keys of the map, from long to short.                                        *)
TypeOK ==
  /\ DOMAIN byPrefix \subseteq Strings /\ IsFiniteSet(DOMAIN byPrefix)
  /\ order \in Seq(Strings)
  /\ loading = <<>> =>
       /\ \A i \in DOMAIN order : order[i] \in DOMAIN byPrefix
       /\ Listing(order, DOMAIN byPrefix)
       /\ Descending(order)

Matching(path) == {x \in DOMAIN byPrefix : HasPrefix(path, x)}

(* "Match finds the service by longest matching prefix": a hit returns the     *)
(* service registered under the longest prefix of the path, which is the only  *)
(* one of its length, so that the arbitrary order of equally long keys never   *)
(* shows; a path that starts with no key is a miss.                            *)
LongestMatch ==
  [][\A path \in Paths :
       /\ Hit(path) =>
            /\ answer'.prefix \in Matching(path)
            /\ answer'.service = byPrefix[answer'.prefix]
            /\ \A x \in Matching(path) \ {answer'.prefix} :
                 Len(x) < Len(answer'.prefix)
       /\ Miss(path) => Matching(path) = {}]_vars

(* Prefix and remainder together are the path, but for the slash put between   *)
(* them, and the upstream path begins with a slash.                            *)
RemainderIsRest ==
  [][\A path \in Paths : Hit(path) =>
       /\ HasSlash(answer'.remainder)
       /\ \/ answer'.prefix \o answer'.remainder = path
          \/ answer'.prefix \o Tail(answer'.remainder) = path]_vars

=============================================================================
