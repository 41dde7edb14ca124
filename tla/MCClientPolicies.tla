--------------------------- MODULE MCClientPolicies ---------------------------
(***************************************************************************)
(* ClientPolicies with two resources: r2 has a name of the first realm, r1 *)
(* a name that is possible in both (p in the first, away in the second).   *)
(* At first there is no entry away and nothing is configured with w, which *)
(* differs from v in nothing (and no step compares two entries' values).   *)
(***************************************************************************)
EXTENDS ClientPolicies

CONSTANTS r1, r2, p, q, away, v, w, first, second

MCRealmOf == [n \in Places |-> IF n = away THEN second ELSE first]
MCHomes == [r \in Resources |-> IF r = r1 THEN {p, away} ELSE {q}]

MCInit == Init /\ doc[away] = Absent /\ \A r \in Resources : conf[r].val # w
MCSpec == MCInit /\ [][Next]_vars
MCFairSpec == MCSpec /\ \A r \in Resources : WF_vars(Run(r))
=============================================================================
