--------------------------- MODULE MCRealmDocument ---------------------------
(* RealmDocument with two flow bindings. *)
EXTENDS RealmDocument

CONSTANTS browser, registration
MCFlows == {browser, registration}
=============================================================================
