----------------------------- MODULE RouteKeys -----------------------------
(* The HTTP method and the path that BulkAddDiscoveredRoutes gives to a gRPC   *)
(* method (internal/admin/handlers.go), from its name alone. A name is made of *)
(* letters in upper or lower case; digits and underscores are letters without  *)
(* an upper case.                                                              *)
EXTENDS Naturals, Sequences

CONSTANTS
  Letters,
  Create, Update, Delete   \* the prefixes CREATE, UPDATE and DELETE

ASSUME RouteKeysAssumption == {Create, Update, Delete} \subseteq Seq(Letters)

Char == [letter : Letters, upper : BOOLEAN]

Names == Seq(Char)

(* Mutation of Kebab: strings.ToLower, without the hyphens.                    *)
Lower(name) == [i \in DOMAIN name |-> [letter |-> name[i].letter, hyphen |-> FALSE]]

(* toKebab: lower case, with a hyphen before each upper case letter but one at *)
(* the start. The hyphen is kept with its letter.                              *)
Kebab(name) ==
  [i \in DOMAIN name |-> [letter |-> name[i].letter, hyphen |-> i > 1 /\ name[i].upper]]

HasVerb(name, verb) ==
  Len(verb) <= Len(name) /\ \A i \in DOMAIN verb : name[i].letter = verb[i]

(* "POST for Create*, PUT for Update*, DELETE for Delete*, otherwise GET", in  *)
(* whatever case the prefix is written.                                        *)
HTTPMethod(name) ==
  CASE HasVerb(name, Create) -> "POST"
    [] HasVerb(name, Update) /\ ~HasVerb(name, Create) -> "PUT"
    [] HasVerb(name, Delete) /\ ~HasVerb(name, Create) /\ ~HasVerb(name, Update) -> "DELETE"
    [] OTHER -> "GET"

DefaultKey(name) == [method |-> HTTPMethod(name), path |-> Kebab(name)]

(* The names differ in nothing but the case of their first letter.             *)
SameButFirstCase(a, b) ==
  /\ Len(a) = Len(b)
  /\ \A i \in DOMAIN a : a[i].letter = b[i].letter /\ (i > 1 => a[i].upper = b[i].upper)

=============================================================================
