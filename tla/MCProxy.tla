------------------------------ MODULE MCProxy ------------------------------
(* Values for the constants of Proxy.                                          *)
EXTENDS Proxy, TLC

SomeTexts == {"", "users", "all", "7", "07", "inf", "a.b", "pkg.Users", "List", "Get"}

SomeTypes == {"string", "int", "float"}

(* What ParseInt and ParseFloat make of them.                                  *)
Seven == [t \in {"7", "07"} |-> "7"]

ReadsAs ==
  [t \in Types |->
     CASE t = "int" -> Seven
       [] t = "float" -> Seven @@ ("inf" :> "+Inf")
       [] OTHER -> [x \in Texts |-> x]]

Infinities == {"+Inf"}

DottedTexts == {"a.b", "pkg.Users"}

Users == Segment("users", 5)

(* Two patterns of one length, one with a slash behind, and one with the same  *)
(* key twice: in the order of their strings.                                   *)
SomePatterns ==
  << <<Users, Template("id", "int", 8)>>,
     <<Users, Template("no", "int", 8)>>,
     <<Users, Template("x", "float", 9), Segment("", 0)>>,
     <<Template("x", "string", 3), Template("x", "string", 3)>> >>

Verbs == {"GET", "PUT"}

SomePaths ==
  {<<"">>, <<"users">>, <<"users", "">>, <<"users", "all">>, <<"users", "07">>,
   <<"users", "inf">>, <<"users", "a.b">>, <<"pkg.Users", "List">>}

ListRpc == <<"pkg.Users", "List">>

GetRpc == <<"pkg.Users", "Get">>

NoMapping == [q \in {} |-> [field |-> "", type |-> "string"]]

PageMapping ==
  [q \in {"page", "p", "junk"} |->
     [field |-> IF q = "junk" THEN "" ELSE "id", type |-> "int"]]

SomeTargets ==
  {[rpc |-> ListRpc, mapping |-> NoMapping],
   [rpc |-> <<"">> \o GetRpc, mapping |-> PageMapping]}

NoQuery == [q \in {} |-> ""]

SomeQueries == {NoQuery, [q \in {"page", "p", "junk"} |-> IF q = "p" THEN "all" ELSE "7"]}

SomeBodies ==
  {[k \in {} |-> ""], [k \in {"id"} |-> Coerce("all", "string")], [k \in {"q"} |-> Coerce("7", "string")]}

UpstreamFields ==
  [r \in {ListRpc, GetRpc} |-> IF r = ListRpc THEN {"id", "no", "x", "name"} ELSE {"id", "name"}]

=============================================================================
