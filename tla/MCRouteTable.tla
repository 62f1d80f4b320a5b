---------------------------- MODULE MCRouteTable ----------------------------
(* Values for the constants of RouteTable: upstreams with a method in common.  *)
EXTENDS RouteTable, TLC

CatalogRpcs == {"Catalog/ListProducts", "Catalog/CreateProduct"}

CatalogKeys == {"GET /list-products", "POST /create-product"}

CatalogKey ==
  [m \in Rpcs |-> IF m = "Catalog/ListProducts" THEN "GET /list-products"
                                                ELSE "POST /create-product"]

(* One upstream with both methods, one with the second only.                   *)
CatalogMethods ==
  [s \in Services |-> IF s = CHOOSE t \in Services : TRUE
                      THEN <<"Catalog/CreateProduct", "Catalog/ListProducts">>
                      ELSE <<"Catalog/ListProducts">>]

Anything == AllEdits

Symmetry == Permutations(Handlers) \cup Permutations(Ids)

=============================================================================
