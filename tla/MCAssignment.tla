----------------------------- MODULE MCAssignment -----------------------------
(***************************************************************************)
(* AssignmentReconcile with one or two resources and items of up to three  *)
(* containers: a realm role and a role of each of two clients, or groups,  *)
(* which have no container (the module does not look at it then).          *)
(***************************************************************************)
EXTENDS AssignmentReconcile

CONSTANTS r1, r2, a, b, c, client1, client2

MCContainer == [i \in Items |-> IF i = a THEN Realm ELSE IF i = b THEN client1 ELSE client2]
=============================================================================
