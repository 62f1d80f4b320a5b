---------------------------- MODULE MCDiscovery ----------------------------
(* Values for the constants of Discovery: two releases of one upstream, which  *)
(* offer different services of those in the repository, and names that collide *)
(* but for a case or a hyphen.                                                 *)
EXTENDS Discovery, TLC

Words == {"list", "users", "products", "orders", "create", "update", "delete",
          "server", "reflection", "info"}

ListUsers == UserService.method

Listusers == <<Word("list"), [letter |-> "users", upper |-> FALSE]>>

listUsers == <<[letter |-> "list", upper |-> FALSE], Word("users")>>

CreateOrders == <<Word("create"), Word("orders")>>

AllServices == {UserService.service, CatalogService.service, OrdersService.service}

TwoReleases == {"first", "second"}

Growing ==
  [r \in TwoReleases |-> [s \in AllServices |->
     CASE s = UserService.service ->
            IF r = "first" THEN {ListUsers} ELSE {ListUsers, Listusers, listUsers}
       [] s = CatalogService.service ->
            IF r = "first" THEN {CatalogService.method} ELSE {}
       [] s = OrdersService.service ->
            IF r = "first" THEN {} ELSE {OrdersService.method, CreateOrders}]]

CreateWord == <<"create">>
UpdateWord == <<"update">>
DeleteWord == <<"delete">>

=============================================================================
