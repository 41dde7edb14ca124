-------------------------- MODULE AssignmentReconcile --------------------------
(***************************************************************************)
(* keycloak_user_roles, keycloak_group_roles and keycloak_user_groups:     *)
(* resources that assign a set of items (role ids, group ids) to one owner *)
(* (a user, a group).  Create and Update are one Reconcile of several API  *)
(* calls; Terraform runs the resources concurrently, from one or several   *)
(* configurations, while administrators change the same assignments; any   *)
(* call may fail, with or without having had its effect.                   *)
(*                                                                         *)
(* Each resource goes round "terraform apply": Refresh (Read), Plan, and   *)
(* Create, Update or Delete as planned.                                    *)
(***************************************************************************)
EXTENDS Naturals

CONSTANTS
  Kinds,       \* which of the three resource types there may be
  Items,       \* the role (group) ids
  Container,   \* of each role: the client it belongs to, or Realm
  Realm,
  Resources,   \* the resources that manage this owner
  Exhaustive,  \* those with exhaustive = true at first
  MaxFaults,   \* failing calls (bound)
  MaxManual,   \* changes made outside Terraform (bound)
  MaxEdits     \* edits of the configuration, and imports (bound)

ASSUME ConstantsAssumption ==
  /\ Kinds \subseteq {"user_roles", "group_roles", "user_groups"}
  /\ Exhaustive \subseteq Resources
  /\ MaxFaults \in Nat /\ MaxManual \in Nat /\ MaxEdits \in Nat

VARIABLES
  owner,       \* does the user (group) exist
  exists,      \* the items that exist: an id that is deleted never returns
  remote,      \* the items assigned to the owner
  kind,        \* configuration: the type of the resources
  want,        \* ... is the resource there ...
  conf,        \* ... its role_ids ...
  confExhaustive,  \* ... and exhaustive
  recorded,    \* state: is the resource there (data.Id() is not "") ...
  tainted,     \* ... to be replaced ...
  state,       \* ... its role_ids ...
  stateExhaustive,  \* ... and exhaustive
  pc,          \* per resource: step of the run
  old, new,    \* the planned change of role_ids
  exhaustive,  \* the planned value of exhaustive
  desired,     \* role_ids that resolved to existing roles
  pending,     \* items the current loop has still to add or remove
  surplus,     \* items to remove after the additions
  faults, manual, edits,
  dirty        \* did anyone else change what Keycloak holds since Plan

keycloak == <<owner, exists, remote>>
config == <<kind, want, conf, confExhaustive>>
tfstate == <<recorded, tainted, state, stateExhaustive>>
planned == <<old, new, exhaustive>>
local == <<planned, desired, pending, surplus>>
counters == <<faults, manual, edits>>
vars == <<keycloak, config, tfstate, pc, local, counters, dirty>>

-----------------------------------------------------------------------------
(* The operators of role_mapping_helpers.go.  user_groups has none of this: *)
(* it takes plain differences of id lists and one call per group.           *)

InRealm(S) == {i \in S : Container[i] = Realm}
Clients(S) == {Container[i] : i \in S} \ {Realm}
OfClient(S, c) == {i \in S : Container[i] = c}

\* getExtendedRoleMapping: a role that is gone (404) is skipped.
Resolve(S) == IF kind = "user_groups" THEN S ELSE S \cap exists

\* calculateRoleMappingUpdates, client by client.
ToAdd(requested, existing) ==
  IF kind = "user_groups" THEN requested \ existing
  ELSE (InRealm(requested) \ InRealm(existing))
         \cup (UNION {OfClient(requested, c) \ OfClient(existing, c) : c \in Clients(requested)})

\* Mutant: without the second loop, clients no role is requested of keep theirs.
ToRemoveOfRequestedClients(requested, existing) ==
  (InRealm(existing) \ InRealm(requested))
    \cup (UNION {OfClient(existing, c) \ OfClient(requested, c) : c \in Clients(requested)})

ToRemove(requested, existing) ==
  IF kind = "user_groups" THEN existing \ requested
  ELSE (InRealm(existing) \ InRealm(requested))
         \cup (UNION {OfClient(existing, c) \ OfClient(requested, c) : c \in Clients(requested)})
         \cup (UNION {OfClient(existing, c) : c \in Clients(existing) \ Clients(requested)})

\* The items of the next API call of a loop: all realm roles first, then the
\* roles of one client after the other in Go's map order; groups one by one.
Batches(S) ==
  IF kind = "user_groups" THEN {{i} : i \in S}
  ELSE IF InRealm(S) # {} THEN {InRealm(S)}
  ELSE {OfClient(S, c) : c \in Clients(S)}

-----------------------------------------------------------------------------
Init ==
  /\ kind \in Kinds
  /\ owner = TRUE /\ exists = Items
  /\ remote \in SUBSET Items
  /\ want = [r \in Resources |-> TRUE]
  /\ conf \in [Resources -> SUBSET Items]
  /\ confExhaustive = [r \in Resources |-> r \in Exhaustive]
  /\ recorded = [r \in Resources |-> FALSE]
  /\ tainted = [r \in Resources |-> FALSE]
  /\ state = [r \in Resources |-> {}]
  /\ stateExhaustive = [r \in Resources |-> FALSE]
  /\ pc = [r \in Resources |-> "idle"]
  /\ old = [r \in Resources |-> {}] /\ new = [r \in Resources |-> {}]
  /\ exhaustive = [r \in Resources |-> FALSE]
  /\ desired = [r \in Resources |-> {}]
  /\ pending = [r \in Resources |-> {}] /\ surplus = [r \in Resources |-> {}]
  /\ faults = 0 /\ manual = 0 /\ edits = 0
  /\ dirty = [r \in Resources |-> FALSE]

Goto(r, l) == pc' = [pc EXCEPT ![r] = l]

Clear(R) ==
  /\ pc' = [r \in Resources |-> IF r \in R THEN "idle" ELSE pc[r]]
  /\ old' = [r \in Resources |-> IF r \in R THEN {} ELSE old[r]]
  /\ new' = [r \in Resources |-> IF r \in R THEN {} ELSE new[r]]
  /\ exhaustive' = [r \in Resources |-> IF r \in R THEN FALSE ELSE exhaustive[r]]
  /\ desired' = [r \in Resources |-> IF r \in R THEN {} ELSE desired[r]]
  /\ pending' = [r \in Resources |-> IF r \in R THEN {} ELSE pending[r]]
  /\ surplus' = [r \in Resources |-> IF r \in R THEN {} ELSE surplus[r]]

Fault == faults < MaxFaults /\ faults' = faults + 1
NoFault == UNCHANGED faults

\* An error returned by Create leaves no state before SetId; one returned by
\* Update leaves the planned values in the state (no resource calls d.Partial);
\* one returned by Delete leaves the state as it was.
Fail(r) ==
  /\ Clear({r})
  /\ IF pc[r] \in {"delete", "unassign"} \/ ~recorded[r]
       THEN UNCHANGED <<state, stateExhaustive>>
       ELSE /\ state' = [state EXCEPT ![r] = new[r]]
            /\ stateExhaustive' = [stateExhaustive EXCEPT ![r] = exhaustive[r]]
  /\ UNCHANGED <<recorded, tainted>>

\* A nil dereference: the provider process dies, with every operation it runs,
\* and Terraform keeps the state it had.
Panic == Clear(Resources) /\ UNCHANGED tfstate

-----------------------------------------------------------------------------
(* Read: also the first step of a run and the last of Create and Update.   *)

Reading(r, items, all) ==
  /\ recorded' = [recorded EXCEPT ![r] = owner]
  /\ tainted' = [tainted EXCEPT ![r] = owner /\ @]
  /\ state' = [state EXCEPT ![r] = IF owner THEN items ELSE {}]
  /\ stateExhaustive' = [stateExhaustive EXCEPT ![r] = owner /\ all]

\* Mutants: only items already in the state are read back, exhaustive or not; the
\* planned role_ids are kept as they are; all are read back.
RecordReadOfKnown(r, items, all) == Reading(r, remote \cap items, all)
RecordPlanned(r, items, all) == Reading(r, items, all)
RecordReadOfAll(r, items, all) == Reading(r, remote, all)

RecordRead(r, items, all) == Reading(r, IF all THEN remote ELSE remote \cap items, all)

Refresh(r) ==
  /\ pc[r] = "idle"
  /\ \/ recorded[r] /\ RecordRead(r, state[r], stateExhaustive[r])
     \/ ~recorded[r] /\ UNCHANGED tfstate
  /\ Goto(r, "plan")
  /\ UNCHANGED <<keycloak, config, local, counters, dirty>>

RefreshFails(r) ==
  /\ pc[r] = "idle" /\ recorded[r]
  /\ Fault
  /\ UNCHANGED <<keycloak, config, tfstate, pc, local, manual, edits, dirty>>

Plan(r, l, o, n, e) ==
  /\ pc[r] = "plan"
  /\ Goto(r, l)
  /\ old' = [old EXCEPT ![r] = o] /\ new' = [new EXCEPT ![r] = n]
  /\ exhaustive' = [exhaustive EXCEPT ![r] = e]
  /\ dirty' = [dirty EXCEPT ![r] = FALSE]
  /\ UNCHANGED <<keycloak, config, tfstate, desired, pending, surplus, counters>>

Agrees(r) == state[r] = conf[r] /\ stateExhaustive[r] = confExhaustive[r]

PlanCreate(r) == want[r] /\ ~recorded[r] /\ Plan(r, "reconcile", {}, conf[r], confExhaustive[r])
PlanUpdate(r) ==
  /\ want[r] /\ recorded[r] /\ ~tainted[r] /\ ~Agrees(r)
  /\ Plan(r, "reconcile", state[r], conf[r], confExhaustive[r])
PlanDelete(r) == recorded[r] /\ (~want[r] \/ tainted[r]) /\ Plan(r, "delete", state[r], {}, FALSE)
PlanNothing(r) ==
  /\ IF want[r] THEN recorded[r] /\ ~tainted[r] /\ Agrees(r) ELSE ~recorded[r]
  /\ Plan(r, "idle", {}, {}, FALSE)

-----------------------------------------------------------------------------
(* One write call for the items B.  Keycloak answers 404, changing nothing, *)
(* when the owner or one of the items is gone.                              *)

Accepts(B) == owner /\ B \subseteq exists

Changed(r, rem) ==
  /\ remote' = rem
  /\ dirty' = [p \in Resources |-> dirty[p] \/ (p # r /\ rem # remote)]
  /\ UNCHANGED <<owner, exists, config, manual, edits>>

WriteSucceeds(r, B, rem) ==
  /\ Accepts(B)
  /\ Changed(r, rem)
  /\ pending' = [pending EXCEPT ![r] = @ \ B]
  /\ NoFault
  /\ UNCHANGED <<tfstate, pc, planned, desired, surplus>>

WriteFails(r, B, rem) ==
  /\ \/ ~Accepts(B) /\ NoFault /\ Changed(r, remote)
     \/ Fault /\ Changed(r, remote)
     \/ Accepts(B) /\ Fault /\ Changed(r, rem)
  /\ Fail(r)

Grant(r) ==
  /\ pc[r] = "add"
  /\ \E B \in Batches(pending[r]) :
       WriteSucceeds(r, B, remote \cup B) \/ WriteFails(r, B, remote \cup B)

Revoke(r) ==
  /\ pc[r] \in {"drop", "prune", "unassign"}
  /\ \E B \in Batches(pending[r]) :
       WriteSucceeds(r, B, remote \ B) \/ WriteFails(r, B, remote \ B)

-----------------------------------------------------------------------------
(* Reconcile                                                               *)

LooksUpOwner == kind # "user_groups"
ReadFails(r) == (Fault \/ (~owner /\ NoFault)) /\ Fail(r)
OthersUnchanged == UNCHANGED <<keycloak, config, manual, edits, dirty>>

\* Mutants: everything recorded is dropped and granted anew; the difference is
\* taken the other way round.
DroppedAll(r) == old[r]
DroppedSwapped(r) == new[r] \ old[r]

\* What the change of role_ids drops (HasChange and GetChange).
Dropped(r) == old[r] \ new[r]

Reconcile(r) ==
  /\ pc[r] = "reconcile"
  /\ \/ /\ LooksUpOwner => owner
        /\ Goto(r, "drop")
        /\ pending' = [pending EXCEPT ![r] = Resolve(Dropped(r))]
        /\ NoFault
        /\ UNCHANGED <<tfstate, planned, desired, surplus>>
     \/ LooksUpOwner /\ ReadFails(r)
  /\ OthersUnchanged

ResolveDesired(r) ==
  /\ pc[r] = "drop" /\ pending[r] = {}
  /\ \/ /\ Goto(r, "compare")
        /\ desired' = [desired EXCEPT ![r] = Resolve(new[r])]
        /\ NoFault
        /\ UNCHANGED <<tfstate, planned, pending, surplus>>
     \/ kind # "user_groups" /\ new[r] # {} /\ Fault /\ Fail(r)
  /\ OthersUnchanged

\* The error of GetUserRoleMappings (GetGroupRoleMappings) is dropped, and the
\* nil mapping dereferenced; that of GetUserGroups is returned.
Compare(r) ==
  /\ pc[r] = "compare"
  /\ \/ /\ owner
        /\ Goto(r, "add")
        /\ pending' = [pending EXCEPT ![r] = ToAdd(desired[r], remote)]
        /\ surplus' = [surplus EXCEPT ![r] = ToRemove(desired[r], remote)]
        /\ NoFault
        /\ UNCHANGED <<tfstate, planned, desired>>
     \/ kind = "user_groups" /\ ReadFails(r)
     \/ kind # "user_groups" /\ (Fault \/ (~owner /\ NoFault)) /\ Panic
  /\ OthersUnchanged

\* Mutant: the roles to remove are those of the state before, not of the mapping.
AddsDoneThenOld(r) ==
  /\ pc[r] = "add" /\ pending[r] = {}
  /\ Goto(r, "prune")
  /\ pending' = [pending EXCEPT ![r] = IF exhaustive[r] THEN Resolve(old[r]) ELSE {}]
  /\ UNCHANGED <<keycloak, config, tfstate, planned, desired, surplus, counters, dirty>>

AddsDone(r) ==
  /\ pc[r] = "add" /\ pending[r] = {}
  /\ Goto(r, "prune")
  /\ pending' = [pending EXCEPT ![r] = IF exhaustive[r] THEN surplus[r] ELSE {}]
  /\ UNCHANGED <<keycloak, config, tfstate, planned, desired, surplus, counters, dirty>>

\* SetId, then Read.  When Read fails the id is set already: Create leaves a
\* tainted resource, Update the planned values.
ReconcileReturns(r) ==
  /\ pc[r] = "prune" /\ pending[r] = {}
  /\ \/ RecordRead(r, new[r], exhaustive[r]) /\ NoFault
     \/ /\ Fault
        /\ recorded' = [recorded EXCEPT ![r] = TRUE]
        /\ tainted' = [tainted EXCEPT ![r] = ~recorded[r]]
        /\ state' = [state EXCEPT ![r] = new[r]]
        /\ stateExhaustive' = [stateExhaustive EXCEPT ![r] = exhaustive[r]]
  /\ Clear({r})
  /\ OthersUnchanged

-----------------------------------------------------------------------------
(* Delete.  The roles resources drop the error of GetUser (GetGroup) and    *)
(* dereference the nil owner if there is anything to remove.                *)

Forget(r) ==
  /\ recorded' = [recorded EXCEPT ![r] = FALSE]
  /\ tainted' = [tainted EXCEPT ![r] = FALSE]
  /\ state' = [state EXCEPT ![r] = {}]
  /\ stateExhaustive' = [stateExhaustive EXCEPT ![r] = FALSE]

\* Mutant: Delete removes the planned role_ids, of which there are none.
DeletePlanned(r) ==
  /\ pc[r] = "delete" /\ (LooksUpOwner => owner)
  /\ Goto(r, "unassign")
  /\ pending' = [pending EXCEPT ![r] = Resolve(new[r])]
  /\ NoFault
  /\ UNCHANGED <<tfstate, planned, desired, surplus>>
  /\ OthersUnchanged

Delete(r) ==
  /\ pc[r] = "delete"
  /\ \/ /\ LooksUpOwner => owner
        /\ Goto(r, "unassign")
        /\ pending' = [pending EXCEPT ![r] = Resolve(state[r])]
        /\ NoFault
        /\ UNCHANGED <<tfstate, planned, desired, surplus>>
     \/ LooksUpOwner /\ state[r] # {} /\ Fault /\ Fail(r)
     \/ /\ LooksUpOwner
        /\ Fault \/ (~owner /\ NoFault)
        /\ IF Resolve(state[r]) = {} THEN Forget(r) /\ Clear({r}) ELSE Panic
  /\ OthersUnchanged

DeleteReturns(r) ==
  /\ pc[r] = "unassign" /\ pending[r] = {}
  /\ Forget(r)
  /\ Clear({r})
  /\ NoFault
  /\ OthersUnchanged

-----------------------------------------------------------------------------
(* Everyone else                                                           *)

Author(r) ==
  /\ pc[r] = "idle" /\ edits < MaxEdits
  /\ edits' = edits + 1
  /\ UNCHANGED <<keycloak, pc, local, faults, manual, dirty>>

Edit(r) ==
  /\ Author(r)
  /\ \/ /\ want' = [want EXCEPT ![r] = TRUE]
        /\ \/ conf' \in {[conf EXCEPT ![r] = S] : S \in SUBSET Items} /\ UNCHANGED confExhaustive
           \/ confExhaustive' = [confExhaustive EXCEPT ![r] = ~@] /\ UNCHANGED conf
     \/ want' = [want EXCEPT ![r] = FALSE] /\ UNCHANGED <<conf, confExhaustive>>
  /\ UNCHANGED <<kind, tfstate>>

\* The importer knows nothing of the configuration: it is exhaustive, so that Read
\* records everything that is assigned.
Import(r) ==
  /\ Author(r)
  /\ want[r] /\ ~recorded[r] /\ owner
  /\ RecordRead(r, {}, TRUE)
  /\ UNCHANGED config

Outside ==
  /\ manual < MaxManual
  /\ manual' = manual + 1
  /\ dirty' = [r \in Resources |-> TRUE]
  /\ UNCHANGED <<config, tfstate, pc, local, faults, edits>>

ManualChange ==
  /\ Outside /\ owner
  /\ \E i \in exists : remote' = remote \cup {i} \/ remote' = remote \ {i}
  /\ UNCHANGED <<owner, exists>>

ItemDeleted ==
  /\ Outside
  /\ \E i \in exists : exists' = exists \ {i} /\ remote' = remote \ {i}
  /\ UNCHANGED owner

OwnerDeleted ==
  /\ Outside /\ owner
  /\ owner' = FALSE /\ remote' = {}
  /\ UNCHANGED exists

-----------------------------------------------------------------------------
Run(r) ==
  \/ Refresh(r) \/ RefreshFails(r)
  \/ PlanCreate(r) \/ PlanUpdate(r) \/ PlanDelete(r) \/ PlanNothing(r)
  \/ Reconcile(r) \/ ResolveDesired(r) \/ Compare(r) \/ Grant(r) \/ AddsDone(r)
  \/ Revoke(r) \/ ReconcileReturns(r)
  \/ Delete(r) \/ DeleteReturns(r)

Next ==
  \/ \E r \in Resources : Run(r) \/ Edit(r) \/ Import(r)
  \/ ManualChange \/ ItemDeleted \/ OwnerDeleted

Spec == Init /\ [][Next]_vars

\* Someone runs terraform apply again and again, and a started run goes on.
FairSpec == Spec /\ \A r \in Resources : WF_vars(Run(r))
-----------------------------------------------------------------------------
Steps == {"idle", "plan", "reconcile", "drop", "compare", "add", "prune", "delete", "unassign"}

\* Only what exists is assigned, and only to an owner; what is not recorded has no
\* role_ids.
TypeOK ==
  /\ kind \in Kinds
  /\ owner \in BOOLEAN /\ exists \subseteq Items
  /\ remote \subseteq exists /\ (~owner => remote = {})
  /\ want \in [Resources -> BOOLEAN] /\ conf \in [Resources -> SUBSET Items]
  /\ confExhaustive \in [Resources -> BOOLEAN]
  /\ recorded \in [Resources -> BOOLEAN] /\ tainted \in [Resources -> BOOLEAN]
  /\ state \in [Resources -> SUBSET Items] /\ stateExhaustive \in [Resources -> BOOLEAN]
  /\ \A r \in Resources : ~recorded[r] => state[r] = {}
  /\ pc \in [Resources -> Steps]
  /\ old \in [Resources -> SUBSET Items] /\ new \in [Resources -> SUBSET Items]
  /\ exhaustive \in [Resources -> BOOLEAN]
  /\ desired \in [Resources -> SUBSET Items]
  /\ pending \in [Resources -> SUBSET Items] /\ surplus \in [Resources -> SUBSET Items]
  /\ faults \in Nat /\ manual \in Nat /\ edits \in Nat
  /\ dirty \in [Resources -> BOOLEAN]

\* When all the calls of a Reconcile have succeeded and nobody else changed the
\* assignments meanwhile, Keycloak holds what was planned: every configured item
\* that exists, nothing the change dropped, and, if exhaustive, nothing else.
ApplyEffect ==
  \A r \in Resources : pc[r] = "prune" /\ pending[r] = {} /\ ~dirty[r] =>
    /\ new[r] \cap exists \subseteq remote
    /\ Dropped(r) \cap remote = {}
    /\ exhaustive[r] => remote = new[r] \cap exists

\* Likewise a Delete leaves none of the items the state named.
DestroyEffect ==
  \A r \in Resources : pc[r] = "unassign" /\ pending[r] = {} /\ ~dirty[r] =>
    state[r] \cap remote = {}

\* Why these hold: at each step, what the loops still have to handle is within
\* what the plan lets them touch ...
StepOf(r) ==
  /\ pc[r] \in {"idle", "plan"} => old[r] = {} /\ new[r] = {} /\ ~exhaustive[r]
  /\ pc[r] \in {"delete", "unassign"} => new[r] = {} /\ ~exhaustive[r]
  /\ pc[r] \notin {"idle", "plan"} => old[r] = state[r]
  /\ pc[r] = "drop" => pending[r] \subseteq Dropped(r)
  /\ pc[r] = "compare" => desired[r] \subseteq new[r] /\ new[r] \cap exists \subseteq desired[r]
  /\ pc[r] = "add" => pending[r] \subseteq new[r] /\ surplus[r] \cap new[r] = {}
  /\ pc[r] = "prune" => pending[r] \cap new[r] = {} /\ (~exhaustive[r] => pending[r] = {})
  /\ pc[r] = "unassign" => pending[r] \subseteq old[r]

StepInv == \A r \in Resources : StepOf(r)

\* ... and, undisturbed, it adds up to the plan with what Keycloak holds.
EffectOf(r) ==
  ~dirty[r] =>
    /\ pc[r] = "drop" => Dropped(r) \cap remote \subseteq pending[r]
    /\ pc[r] \in {"compare", "add", "prune"} => Dropped(r) \cap remote = {}
    /\ pc[r] = "add" => /\ new[r] \cap exists \subseteq remote \cup pending[r]
                        /\ remote \ surplus[r] \subseteq new[r]
    /\ pc[r] = "prune" => /\ new[r] \cap exists \subseteq remote
                          /\ exhaustive[r] => remote \ pending[r] \subseteq new[r]
    /\ pc[r] = "unassign" => state[r] \cap remote \subseteq pending[r]

EffectInv == \A r \in Resources : EffectOf(r)

\* The resources keep the contract: whatever interleaves, fails or dies, a call
\* of theirs never revokes a configured item, not even to grant it again, and a
\* non-exhaustive resource never revokes an item it does not own; it owns what was
\* configured, or found by an exhaustive apply or an import, and nothing else.
Phase(l) ==
  CASE l \in {"idle", "plan"} -> "idle"
    [] l \in {"delete", "unassign"} -> "destroy"
    [] OTHER -> "apply"

Contract == INSTANCE AssignmentContract WITH
  phase <- [r \in Resources |-> Phase(pc[r])], owned <- state, authority <- stateExhaustive
RefinesContract == Contract!Spec

\* Docs of the three resources: what was changed by hand is put right "upon the
\* next run of terraform apply".  Once failures, edits and manual changes end,
\* repeated runs reach the configuration and keep it.  (A group id that no longer
\* exists makes keycloak_user_groups fail every time, so it is excepted, and so is
\* a second resource for the owner of an exhaustive one.)
Rival(r) == \E p \in Resources \ {r} : want[p] /\ (confExhaustive[p] \/ confExhaustive[r])

Settled(r) ==
  IF want[r]
    THEN owner /\ ~Rival(r) /\ (kind = "user_groups" => conf[r] \subseteq exists) =>
           /\ conf[r] \cap exists \subseteq remote
           /\ confExhaustive[r] => remote = conf[r] \cap exists
           /\ recorded[r] /\ state[r] = conf[r] \cap exists /\ stateExhaustive[r] = confExhaustive[r]
    ELSE ~recorded[r]

Converges == \A r \in Resources : <>[]Settled(r)
=============================================================================
