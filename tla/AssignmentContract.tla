-------------------------- MODULE AssignmentContract --------------------------
(***************************************************************************)
(* What keycloak_user_roles, keycloak_group_roles and keycloak_user_groups *)
(* promise about one owner (a user or a group) and the set "remote" of     *)
(* items (roles or groups) Keycloak has assigned to it.                    *)
(*                                                                         *)
(* While it applies a change from the items it owned, "old", to the        *)
(* configured items "new", a resource only grants items of new and only    *)
(* revokes items outside new; unless it is exhaustive it revokes nothing   *)
(* but items of old.  While it is destroyed it only revokes items of old.  *)
(* It comes to own an item by being configured with it, or all that are    *)
(* assigned by being exhaustive or imported; in no other way.              *)
(* Every other change of the assignments is counted by "manual".           *)
(***************************************************************************)
EXTENDS Naturals

CONSTANTS Items, Resources

VARIABLES
  remote, manual,
  phase,       \* what each resource is doing ...
  old, new,    \* ... the change it applies ...
  exhaustive,  \* ... and whether all the rest is to go
  owned,       \* the items it may revoke
  authority    \* does it own whatever it finds

vars == <<remote, manual, phase, old, new, exhaustive, owned, authority>>

Init ==
  /\ remote \subseteq Items
  /\ manual = 0
  /\ phase = [r \in Resources |-> "idle"]
  /\ old = [r \in Resources |-> {}]
  /\ new = [r \in Resources |-> {}]
  /\ exhaustive = [r \in Resources |-> FALSE]
  /\ owned = [r \in Resources |-> {}]
  /\ authority = [r \in Resources |-> FALSE]

Begin(r) ==
  /\ phase[r] = "idle"
  /\ \E n \in SUBSET Items, e \in BOOLEAN :
       /\ \/ phase' = [phase EXCEPT ![r] = "apply"]
          \/ n = {} /\ ~e /\ phase' = [phase EXCEPT ![r] = "destroy"]
       /\ old' = [old EXCEPT ![r] = owned[r]] /\ new' = [new EXCEPT ![r] = n]
       /\ exhaustive' = [exhaustive EXCEPT ![r] = e]
  /\ UNCHANGED <<remote, manual, owned, authority>>

\* The end of the operations of R; what was applied is owned, or part of it.
Stop(R) ==
  /\ phase' = [r \in Resources |-> IF r \in R THEN "idle" ELSE phase[r]]
  /\ old' = [r \in Resources |-> IF r \in R THEN {} ELSE old[r]]
  /\ new' = [r \in Resources |-> IF r \in R THEN {} ELSE new[r]]
  /\ exhaustive' = [r \in Resources |-> IF r \in R THEN FALSE ELSE exhaustive[r]]
  /\ \A r \in R :
       /\ owned'[r] \subseteq owned[r] \cup new[r] \cup (IF exhaustive[r] THEN remote ELSE {})
       /\ authority'[r] => authority[r] \/ exhaustive[r]
  /\ \A r \in Resources \ R : owned'[r] = owned[r] /\ authority'[r] = authority[r]

Grants(r) ==
  /\ phase[r] = "apply"
  /\ \E S \in SUBSET new[r] : remote' = remote \cup S

Revokes(r) ==
  /\ phase[r] # "idle"
  /\ \E S \in SUBSET Items :
       /\ S \cap new[r] = {}
       /\ S \subseteq old[r] \/ (exhaustive[r] /\ phase[r] = "apply")
       /\ remote' = remote \ S

\* A call that changes the assignments may at once be the resource's last one:
\* its answer is lost, and the apply fails.
Change(r) ==
  /\ Grants(r) \/ Revokes(r)
  /\ Stop({r}) \/ UNCHANGED <<phase, old, new, exhaustive, owned, authority>>
  /\ UNCHANGED manual

End == \E R \in SUBSET Resources : Stop(R) /\ UNCHANGED <<remote, manual>>

\* A resource looks at what is assigned; one that owns nothing may be imported.
Look(r) ==
  /\ phase[r] = "idle"
  /\ authority'[r] => authority[r] \/ owned[r] = {}
  /\ owned'[r] \subseteq (IF authority'[r] THEN remote ELSE owned[r])
  /\ \A p \in Resources \ {r} : owned'[p] = owned[p] /\ authority'[p] = authority[p]
  /\ UNCHANGED <<remote, manual, phase, old, new, exhaustive>>

Manual ==
  /\ manual' = manual + 1
  /\ remote' \in SUBSET Items
  /\ UNCHANGED <<phase, old, new, exhaustive, owned, authority>>

Next == (\E r \in Resources : Begin(r) \/ Change(r) \/ Look(r)) \/ End \/ Manual

Spec == Init /\ [][Next]_vars
=============================================================================
