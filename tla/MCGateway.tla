----------------------------- MODULE MCGateway -----------------------------
(* Values for the constants of Gateway. Prefixes are the strings clients send; *)
(* the two of PlainPrefixes are normalized, "/api/a" is not.                   *)
EXTENDS Gateway, TLC

PlainPrefixes == {"/api/a/", "/api/b/"}

SlashPrefixes == PlainPrefixes \cup {"/api/a"}

NormalizeStrings == [x \in Prefixes |-> IF x = "/api/a" THEN "/api/a/" ELSE x]

(* "bare" is an http service without base URL, for which its document names    *)
(* the one "http" has; "grpc" has neither document nor base URL.               *)
OneConf == {"http"}

(* An http service with a base URL that does not parse.                        *)
BadConf == {"http", "bad"}

BadOnes == Confs \cap {"bad"}

AllConfs == {"http", "bare", "grpc"}

HttpOnes == Confs \cap {"http", "bare", "bad"}

BasedOnes == Confs \cap {"http", "bad"}

InferFromDocument == [c \in Confs |-> IF c = "bare" THEN "http" ELSE c]

Body(x, c, e) == [prefix |-> x, conf |-> c, enabled |-> e, doc |-> "nodoc"]

(* One service that is switched on and off.                                    *)
SwitchBodies == {Body("/api/a/", "http", TRUE), Body("/api/a/", "http", FALSE)}

(* A service that is all right, and one with a base URL that does not parse,   *)
(* until a PUT puts it right.                                                  *)
BadBodies == {Body("/api/a/", "http", TRUE), Body("/api/b/", "bad", TRUE)}

(* Services of each kind, at colliding prefixes; POST and PUT send the one     *)
(* without a slash behind as well.                                             *)
ProtocolBodies ==
  {Body("/api/a", "bare", TRUE), Body("/api/b/", "grpc", TRUE),
   Body("/api/b/", "http", FALSE)}

Admin == AllOps

Edits == {"create", "update", "delete"}

Symmetry == Permutations(Handlers) \cup Permutations(Ids)

Budgets(w, t, f, c) ==
  [k \in Costs |-> CASE k = "write" -> w [] k = "tick" -> t [] k = "fault" -> f [] OTHER -> c]

EverythingOnce == Budgets(2, 1, 1, 1)
TicksForever == Budgets(2, 0-1, 0, 0)
TwoWritesOneTick == Budgets(2, 1, 0, 0)

=============================================================================
