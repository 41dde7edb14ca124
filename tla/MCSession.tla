------------------------------ MODULE MCSession ------------------------------
(***************************************************************************)
(* KeycloakSession with up to three operations as model values.            *)
(***************************************************************************)
EXTENDS KeycloakSession

CONSTANTS o1, o2, o3
=============================================================================
