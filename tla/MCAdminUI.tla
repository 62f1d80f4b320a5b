------------------------------ MODULE MCAdminUI ------------------------------
(* Values for the constants of AdminUI: one service that is edited, and one    *)
(* that only comes and goes. Changes of routes are not told apart.             *)
EXTENDS AdminUI

TwoServices == {"edited", "other"}

OneService == {"edited"}

ServiceVersions == [i \in TwoServices |-> IF i = "edited" THEN 2 ELSE 1]

RouteVersions == [i \in TwoServices |-> 0]

SomePages == {<<"detail", "edited">>, <<"detail", "other">>, <<"routes", "edited">>}

=============================================================================
