----------------------- MODULE AssignmentReconcile_proofs -----------------------
(***************************************************************************)
(* What TLC checks of AssignmentReconcile on small instances, proved for   *)
(* every kind, every set of items, containers and resources, and every     *)
(* number of failures, manual changes and edits.                           *)
(***************************************************************************)
EXTENDS AssignmentReconcile, TLAPS

-----------------------------------------------------------------------------
(* The operators of role_mapping_helpers.go                                *)

\* calculateRoleMappingUpdates, for all its bookkeeping per client, adds exactly
\* the requested roles that are not assigned ...
LEMMA ToAddIsDifference ==
  ASSUME NEW req \in SUBSET Items, NEW ex \in SUBSET Items
  PROVE  ToAdd(req, ex) = req \ ex
<1>1. CASE kind = "user_groups"
  BY <1>1 DEF ToAdd
<1>2. CASE kind # "user_groups"
  <2>1. ASSUME NEW i \in ToAdd(req, ex) PROVE i \in req \ ex
    BY <1>2, <2>1 DEF ToAdd, InRealm, Clients, OfClient
  <2>2. ASSUME NEW i \in req \ ex PROVE i \in ToAdd(req, ex)
    <3>1. CASE Container[i] = Realm
      BY <1>2, <2>2, <3>1 DEF ToAdd, InRealm
    <3>2. CASE Container[i] # Realm
      <4>1. Container[i] \in Clients(req)
        BY <2>2, <3>2 DEF Clients
      <4>2. i \in OfClient(req, Container[i]) \ OfClient(ex, Container[i])
        BY <2>2 DEF OfClient
      <4> QED BY <1>2, <4>1, <4>2 DEF ToAdd
    <3> QED BY <3>1, <3>2
  <2> QED BY <2>1, <2>2
<1> QED BY <1>1, <1>2

\* ... and removes exactly the assigned roles that are not requested.
LEMMA ToRemoveIsDifference ==
  ASSUME NEW req \in SUBSET Items, NEW ex \in SUBSET Items
  PROVE  ToRemove(req, ex) = ex \ req
<1>1. CASE kind = "user_groups"
  BY <1>1 DEF ToRemove
<1>2. CASE kind # "user_groups"
  <2>1. ASSUME NEW i \in ToRemove(req, ex) PROVE i \in ex \ req
    BY <1>2, <2>1 DEF ToRemove, InRealm, Clients, OfClient
  <2>2. ASSUME NEW i \in ex \ req PROVE i \in ToRemove(req, ex)
    <3>1. CASE Container[i] = Realm
      BY <1>2, <2>2, <3>1 DEF ToRemove, InRealm
    <3>2. CASE Container[i] # Realm
      <4>1. Container[i] \in Clients(ex) /\ i \in OfClient(ex, Container[i])
        BY <2>2, <3>2 DEF Clients, OfClient
      <4>2. i \notin OfClient(req, Container[i])
        BY <2>2 DEF OfClient
      <4> QED BY <1>2, <4>1, <4>2 DEF ToRemove
    <3> QED BY <3>1, <3>2
  <2> QED BY <2>1, <2>2
<1> QED BY <1>1, <1>2

\* A call takes its items from those the loop still has to handle.
LEMMA BatchIsPending ==
  ASSUME NEW S \in SUBSET Items, NEW B \in Batches(S)
  PROVE  B \subseteq S
BY DEF Batches, InRealm, OfClient, Clients

LEMMA ResolveBounds ==
  ASSUME NEW S \in SUBSET Items
  PROVE  Resolve(S) \subseteq S /\ S \cap exists \subseteq Resolve(S)
BY DEF Resolve

-----------------------------------------------------------------------------
(* Types                                                                   *)

LEMMA TypeInit == Init => TypeOK
BY DEF Init, TypeOK, Steps

\* The part of TypeOK that is Terraform's state.
StateTyped ==
  /\ recorded \in [Resources -> BOOLEAN] /\ tainted \in [Resources -> BOOLEAN]
  /\ state \in [Resources -> SUBSET Items] /\ stateExhaustive \in [Resources -> BOOLEAN]
  /\ \A r \in Resources : ~recorded[r] => state[r] = {}

\* ... and the part that is what the operations keep to themselves.
LocalTyped ==
  /\ pc \in [Resources -> Steps]
  /\ old \in [Resources -> SUBSET Items] /\ new \in [Resources -> SUBSET Items]
  /\ exhaustive \in [Resources -> BOOLEAN]
  /\ desired \in [Resources -> SUBSET Items]
  /\ pending \in [Resources -> SUBSET Items] /\ surplus \in [Resources -> SUBSET Items]

LEMMA ClearedLocal ==
  ASSUME TypeOK, NEW R \in SUBSET Resources, Clear(R)
  PROVE  LocalTyped'
<1>1. exhaustive' \in [Resources -> BOOLEAN]
  BY DEF TypeOK, Clear
<1>2. /\ pc' \in [Resources -> Steps]
      /\ old' \in [Resources -> SUBSET Items] /\ new' \in [Resources -> SUBSET Items]
      /\ desired' \in [Resources -> SUBSET Items]
      /\ pending' \in [Resources -> SUBSET Items] /\ surplus' \in [Resources -> SUBSET Items]
  BY DEF TypeOK, Clear, Steps
<1> QED BY <1>1, <1>2 DEF LocalTyped

LEMMA FailedState ==
  ASSUME TypeOK, NEW r \in Resources, Fail(r)
  PROVE  StateTyped'
<1>1. CASE UNCHANGED <<state, stateExhaustive>>
  BY <1>1 DEF TypeOK, Fail, StateTyped
<1>2. CASE /\ recorded[r] /\ state' = [state EXCEPT ![r] = new[r]]
           /\ stateExhaustive' = [stateExhaustive EXCEPT ![r] = exhaustive[r]]
  <2>1. state' \in [Resources -> SUBSET Items] /\ UNCHANGED <<recorded, tainted>>
    BY <1>2 DEF TypeOK, Fail
  <2>2. stateExhaustive' \in [Resources -> BOOLEAN]
    BY <1>2 DEF TypeOK
  <2>3. \A p \in Resources : ~recorded'[p] => state'[p] = {}
    BY <1>2, <2>1 DEF TypeOK
  <2> QED BY <2>1, <2>2, <2>3 DEF TypeOK, StateTyped
<1> QED BY <1>1, <1>2 DEF Fail

LEMMA ReadState ==
  ASSUME TypeOK, NEW r \in Resources, NEW items \in SUBSET Items, NEW all \in BOOLEAN,
         RecordRead(r, items, all)
  PROVE  StateTyped'
<1>1. recorded' \in [Resources -> BOOLEAN]
  BY DEF TypeOK, RecordRead, Reading
<1>2. tainted' \in [Resources -> BOOLEAN]
  BY DEF TypeOK, RecordRead, Reading
<1>3. remote \subseteq Items
  BY DEF TypeOK
<1>4. state' \in [Resources -> SUBSET Items]
  BY <1>3 DEF TypeOK, RecordRead, Reading
<1>5. stateExhaustive' \in [Resources -> BOOLEAN]
  BY DEF TypeOK, RecordRead, Reading
<1>6. \A p \in Resources : ~recorded'[p] => state'[p] = {}
  BY DEF TypeOK, RecordRead, Reading
<1> QED BY <1>1, <1>2, <1>4, <1>5, <1>6 DEF StateTyped

LEMMA ForgottenState ==
  ASSUME TypeOK, NEW r \in Resources, Forget(r)
  PROVE  StateTyped'
BY DEF TypeOK, Forget, StateTyped

\* One call of the writing loops, whatever becomes of it.
LEMMA TypeWrite ==
  ASSUME TypeOK, NEW r \in Resources, NEW B \in Batches(pending[r]), NEW rem \in SUBSET Items,
         Accepts(B) => rem \subseteq exists,
         WriteSucceeds(r, B, rem) \/ WriteFails(r, B, rem)
  PROVE  TypeOK'
<1>1. CASE WriteSucceeds(r, B, rem)
  BY <1>1 DEF TypeOK, WriteSucceeds, Changed, NoFault, Accepts, config, tfstate, planned, Steps
<1>2. CASE WriteFails(r, B, rem)
  <2>1. /\ faults' \in Nat /\ remote' \subseteq exists /\ (~owner => remote' = {})
        /\ dirty' \in [Resources -> BOOLEAN]
        /\ UNCHANGED <<owner, exists, config, manual, edits>>
    BY <1>2 DEF TypeOK, WriteFails, Changed, Fault, NoFault, Accepts
  <2>2. LocalTyped'
    BY <1>2, ClearedLocal DEF WriteFails, Fail
  <2>3. StateTyped'
    BY <1>2, FailedState DEF WriteFails
  <2> QED BY <2>1, <2>2, <2>3 DEF TypeOK, StateTyped, LocalTyped, config
<1> QED BY <1>1, <1>2

LEMMA TypeNext == TypeOK /\ [Next]_vars => TypeOK'
<1> SUFFICES ASSUME TypeOK, [Next]_vars PROVE TypeOK'
  OBVIOUS
<1>1. ASSUME NEW r \in Resources, Run(r) PROVE TypeOK'
  <2>1. CASE Refresh(r)
    <3>1. StateTyped'
      <4>1. CASE RecordRead(r, state[r], stateExhaustive[r])
        BY <4>1, ReadState DEF TypeOK
      <4> QED BY <2>1, <4>1 DEF TypeOK, Refresh, StateTyped, tfstate
    <3>2. pc' \in [Resources -> Steps]
      BY <2>1 DEF TypeOK, Refresh, Goto, Steps
    <3> QED BY <2>1, <3>1, <3>2 DEF TypeOK, Refresh, StateTyped,
              keycloak, config, local, planned, counters
  <2>2. CASE RefreshFails(r)
    BY <2>2 DEF TypeOK, RefreshFails, Fault, keycloak, config, tfstate, local, planned
  <2>3. CASE PlanCreate(r) \/ PlanUpdate(r) \/ PlanDelete(r) \/ PlanNothing(r)
    <3>1. PICK l \in Steps, o \in SUBSET Items, n \in SUBSET Items, e \in BOOLEAN : Plan(r, l, o, n, e)
      <4>1. /\ conf[r] \in SUBSET Items /\ state[r] \in SUBSET Items /\ {} \in SUBSET Items
            /\ confExhaustive[r] \in BOOLEAN /\ FALSE \in BOOLEAN
            /\ "reconcile" \in Steps /\ "delete" \in Steps /\ "idle" \in Steps
        BY DEF TypeOK, Steps
      <4> QED BY <2>3, <4>1 DEF PlanCreate, PlanUpdate, PlanDelete, PlanNothing
    <3>2. /\ pc' \in [Resources -> Steps] /\ old' \in [Resources -> SUBSET Items]
          /\ new' \in [Resources -> SUBSET Items]
      BY <3>1 DEF TypeOK, Plan, Goto
    <3>3. exhaustive' \in [Resources -> BOOLEAN] /\ dirty' \in [Resources -> BOOLEAN]
      BY <3>1 DEF TypeOK, Plan
    <3> QED BY <3>1, <3>2, <3>3 DEF TypeOK, Plan, keycloak, config, tfstate, counters
  <2>4. CASE Reconcile(r) \/ ResolveDesired(r) \/ Compare(r)
    <3>1. /\ faults' \in Nat
          /\ UNCHANGED <<kind, owner, exists, remote, want, conf, confExhaustive, manual, edits, dirty>>
      BY <2>4 DEF TypeOK, Reconcile, ResolveDesired, Compare, OthersUnchanged, Fault, NoFault,
           ReadFails, keycloak, config
    <3>2. LocalTyped'
      <4>1. CASE Clear({r}) \/ Clear(Resources)
        BY <4>1, ClearedLocal
      <4>2. ASSUME NEW l \in Steps, Goto(r, l), UNCHANGED planned,
                   NEW D \in SUBSET Items, desired' = [desired EXCEPT ![r] = D] \/ UNCHANGED desired,
                   NEW P \in SUBSET Items, pending' = [pending EXCEPT ![r] = P] \/ UNCHANGED pending,
                   NEW S \in SUBSET Items, surplus' = [surplus EXCEPT ![r] = S] \/ UNCHANGED surplus
            PROVE  LocalTyped'
        BY <4>2 DEF TypeOK, LocalTyped, Goto, planned
      <4>3. /\ Resolve(Dropped(r)) \in SUBSET Items /\ Resolve(new[r]) \in SUBSET Items
            /\ ToAdd(desired[r], remote) \in SUBSET Items
            /\ ToRemove(desired[r], remote) \in SUBSET Items
        BY ToAddIsDifference, ToRemoveIsDifference, ResolveBounds DEF TypeOK, Dropped
      <4>4. CASE Reconcile(r)
        BY <4>1, <4>2, <4>3, <4>4 DEF Reconcile, ReadFails, Fail, Steps
      <4>5. CASE ResolveDesired(r)
        BY <4>1, <4>2, <4>3, <4>5 DEF ResolveDesired, Fail, Steps
      <4>6. CASE Compare(r)
        BY <4>1, <4>2, <4>3, <4>6 DEF Compare, ReadFails, Fail, Panic, Steps
      <4> QED BY <2>4, <4>4, <4>5, <4>6
    <3>3. StateTyped'
      <4>1. CASE Fail(r)
        BY <4>1, FailedState
      <4>2. CASE UNCHANGED tfstate
        BY <4>2 DEF TypeOK, StateTyped, tfstate
      <4> QED BY <2>4, <4>1, <4>2 DEF Reconcile, ResolveDesired, Compare, ReadFails, Panic, tfstate
    <3> QED BY <3>1, <3>2, <3>3 DEF TypeOK, StateTyped, LocalTyped
  <2>5. CASE Grant(r)
    <3>1. PICK B \in Batches(pending[r]) :
            WriteSucceeds(r, B, remote \cup B) \/ WriteFails(r, B, remote \cup B)
      BY <2>5 DEF Grant
    <3>2. B \subseteq pending[r]
      BY BatchIsPending DEF TypeOK
    <3> QED BY <3>1, <3>2, TypeWrite DEF TypeOK, Accepts
  <2>6. CASE Revoke(r)
    <3>1. PICK B \in Batches(pending[r]) :
            WriteSucceeds(r, B, remote \ B) \/ WriteFails(r, B, remote \ B)
      BY <2>6 DEF Revoke
    <3> QED BY <3>1, TypeWrite DEF TypeOK
  <2>7. CASE AddsDone(r)
    BY <2>7 DEF TypeOK, AddsDone, Goto, Steps, keycloak, config, tfstate, planned, counters
  <2>8. CASE ReconcileReturns(r) \/ DeleteReturns(r)
    <3>1. /\ faults' \in Nat
          /\ UNCHANGED <<kind, owner, exists, remote, want, conf, confExhaustive, manual, edits, dirty>>
      BY <2>8 DEF TypeOK, ReconcileReturns, DeleteReturns, OthersUnchanged, Fault, NoFault,
           keycloak, config
    <3>2. Clear({r})
      BY <2>8 DEF ReconcileReturns, DeleteReturns
    <3>3. LocalTyped'
      BY <3>2, ClearedLocal
    <3>4. StateTyped'
      <4>1. new[r] \in SUBSET Items /\ exhaustive[r] \in BOOLEAN
        BY DEF TypeOK
      <4>2. CASE RecordRead(r, new[r], exhaustive[r])
        BY <4>1, <4>2, ReadState
      <4>3. CASE Forget(r)
        BY <4>3, ForgottenState
      <4>4. CASE /\ recorded' = [recorded EXCEPT ![r] = TRUE]
                 /\ tainted' = [tainted EXCEPT ![r] = ~recorded[r]]
                 /\ state' = [state EXCEPT ![r] = new[r]]
                 /\ stateExhaustive' = [stateExhaustive EXCEPT ![r] = exhaustive[r]]
        <5>1. recorded' \in [Resources -> BOOLEAN] /\ tainted' \in [Resources -> BOOLEAN]
          BY <4>4 DEF TypeOK
        <5>2. state' \in [Resources -> SUBSET Items]
          BY <4>1, <4>4 DEF TypeOK
        <5>3. stateExhaustive' \in [Resources -> BOOLEAN]
          BY <4>4 DEF TypeOK
        <5>4. \A p \in Resources : ~recorded'[p] => state'[p] = {}
          BY <4>4 DEF TypeOK
        <5> QED BY <5>1, <5>2, <5>3, <5>4 DEF StateTyped
      <4> QED BY <2>8, <4>2, <4>3, <4>4 DEF ReconcileReturns, DeleteReturns
    <3> QED BY <3>1, <3>3, <3>4 DEF TypeOK, StateTyped, LocalTyped
  <2>9. CASE Delete(r)
    <3>1. Resolve(state[r]) \in SUBSET Items
      BY ResolveBounds DEF TypeOK
    <3>2. /\ faults' \in Nat
          /\ UNCHANGED <<kind, owner, exists, remote, want, conf, confExhaustive, manual, edits, dirty>>
      BY <2>9 DEF TypeOK, Delete, ReadFails, OthersUnchanged, Fault, NoFault, keycloak, config
    <3>3. CASE /\ Goto(r, "unassign")
               /\ pending' = [pending EXCEPT ![r] = Resolve(state[r])]
               /\ UNCHANGED <<tfstate, planned, desired, surplus>>
      BY <3>1, <3>2, <3>3 DEF TypeOK, Goto, Steps, tfstate, planned
    <3>4. ASSUME Clear({r}) \/ Clear(Resources), StateTyped' PROVE TypeOK'
      <4>1. LocalTyped'
        BY <3>4, ClearedLocal
      <4> QED BY <3>2, <3>4, <4>1 DEF TypeOK, StateTyped, LocalTyped
    <3>5. CASE Fail(r)
      BY <3>4, <3>5, FailedState DEF Fail
    <3>6. CASE Panic
      <4>1. StateTyped'
        BY <3>6 DEF TypeOK, StateTyped, Panic, tfstate
      <4> QED BY <3>4, <3>6, <4>1 DEF Panic
    <3>7. CASE Forget(r) /\ Clear({r})
      BY <3>4, <3>7, ForgottenState
    <3> QED BY <2>9, <3>3, <3>5, <3>6, <3>7 DEF Delete
  <2> QED BY <1>1, <2>1, <2>2, <2>3, <2>4, <2>5, <2>6, <2>7, <2>8, <2>9 DEF Run
<1>2. ASSUME NEW r \in Resources, Edit(r) \/ Import(r) PROVE TypeOK'
  <2>1. Author(r) /\ edits \in Nat
    BY <1>2 DEF TypeOK, Edit, Import
  <2>2. /\ kind' = kind /\ want' \in [Resources -> BOOLEAN] /\ conf' \in [Resources -> SUBSET Items]
        /\ confExhaustive' \in [Resources -> BOOLEAN]
    <3>1. CASE Import(r)
      BY <3>1 DEF TypeOK, Import, config
    <3>2. CASE Edit(r)
      <4>1. want' \in [Resources -> BOOLEAN]
        BY <3>2 DEF TypeOK, Edit
      <4>2. conf' \in [Resources -> SUBSET Items]
        BY <3>2 DEF TypeOK, Edit
      <4>3. confExhaustive' \in [Resources -> BOOLEAN]
        BY <3>2 DEF TypeOK, Edit
      <4> QED BY <3>2, <4>1, <4>2, <4>3 DEF Edit
    <3> QED BY <1>2, <3>1, <3>2
  <2>3. StateTyped'
    <3>1. CASE Import(r)
      BY <3>1, ReadState DEF Import
    <3>2. CASE Edit(r)
      BY <3>2 DEF TypeOK, Edit, StateTyped, tfstate
    <3> QED BY <1>2, <3>1, <3>2
  <2>4. edits' \in Nat /\ UNCHANGED <<keycloak, pc, local, faults, manual, dirty>>
    BY <2>1 DEF Author
  <2> QED BY <2>2, <2>3, <2>4 DEF TypeOK, StateTyped, keycloak, local, planned
<1>3. CASE ManualChange \/ ItemDeleted \/ OwnerDeleted
  <2>1. manual' \in Nat
    BY <1>3 DEF TypeOK, ManualChange, ItemDeleted, OwnerDeleted, Outside
  <2>2. dirty' \in [Resources -> BOOLEAN]
    BY <1>3 DEF TypeOK, ManualChange, ItemDeleted, OwnerDeleted, Outside
  <2>3. UNCHANGED <<kind, want, conf, confExhaustive, recorded, tainted, state, stateExhaustive, pc,
                    old, new, exhaustive, desired, pending, surplus, faults, edits>>
    BY <1>3 DEF ManualChange, ItemDeleted, OwnerDeleted, Outside, config, tfstate, local, planned
  <2>4. /\ owner' \in BOOLEAN /\ exists' \subseteq Items
        /\ remote' \subseteq exists' /\ (~owner' => remote' = {})
    BY <1>3 DEF TypeOK, ManualChange, ItemDeleted, OwnerDeleted
  <2> QED BY <2>1, <2>2, <2>3, <2>4 DEF TypeOK
<1>4. CASE UNCHANGED vars
  BY <1>4 DEF TypeOK, vars, keycloak, config, tfstate, local, planned, counters
<1> QED BY <1>1, <1>2, <1>3, <1>4 DEF Next

\* Every reachable state is well typed: in particular nothing is assigned that
\* does not exist, and nothing to an owner that does not.
THEOREM TypeCorrect == Spec => []TypeOK
BY TypeInit, TypeNext, PTL DEF Spec

-----------------------------------------------------------------------------
(* The inductive invariant, one resource at a time                          *)

LEMMA Cleared ==
  ASSUME NEW R \in SUBSET Resources, NEW p \in R, Clear(R)
  PROVE  StepOf(p)' /\ EffectOf(p)' /\ pc'[p] = "idle" /\ old'[p] = {} /\ new'[p] = {}
<1>1. pc'[p] = "idle" /\ old'[p] = {} /\ new'[p] = {} /\ ~exhaustive'[p]
  BY DEF Clear
<1> QED BY <1>1 DEF StepOf, EffectOf

\* What of a resource p a step may concern.
Locals(p) == <<pc[p], old[p], new[p], exhaustive[p], desired[p], pending[p], surplus[p]>>

\* A step of r leaves every other resource where it is, unless the provider dies,
\* and marks it when it changes what Keycloak holds.
LEMMA Others ==
  ASSUME TypeOK, NEW r \in Resources, Run(r), NEW p \in Resources, p # r
  PROVE  /\ exists' = exists /\ state'[p] = state[p]
         /\ ~dirty'[p] => ~dirty[p] /\ remote' = remote
         /\ Clear(Resources) \/ UNCHANGED Locals(p)
<1>1. Clear({r}) => UNCHANGED Locals(p)
  BY DEF Clear, Locals
<1>2. ASSUME NEW B, NEW rem, WriteSucceeds(r, B, rem) \/ WriteFails(r, B, rem)
      PROVE  /\ exists' = exists /\ state'[p] = state[p]
             /\ ~dirty'[p] => ~dirty[p] /\ remote' = remote
             /\ UNCHANGED Locals(p)
  <2>1. exists' = exists /\ (~dirty'[p] => ~dirty[p] /\ remote' = remote)
    BY <1>2 DEF WriteSucceeds, WriteFails, Changed
  <2>2. CASE WriteSucceeds(r, B, rem)
    BY <2>1, <2>2 DEF TypeOK, WriteSucceeds, tfstate, planned, Locals
  <2>3. CASE WriteFails(r, B, rem)
    BY <1>1, <2>1, <2>3 DEF TypeOK, WriteFails, Fail
  <2> QED BY <1>2, <2>2, <2>3
<1>3. CASE Grant(r) \/ Revoke(r)
  BY <1>2, <1>3 DEF Grant, Revoke
<1>4. CASE \/ Refresh(r) \/ RefreshFails(r) \/ AddsDone(r)
           \/ PlanCreate(r) \/ PlanUpdate(r) \/ PlanDelete(r) \/ PlanNothing(r)
  <2>1. exists' = exists /\ (~dirty'[p] => ~dirty[p] /\ remote' = remote)
    BY <1>4 DEF TypeOK, Refresh, RefreshFails, AddsDone, PlanCreate, PlanUpdate, PlanDelete,
         PlanNothing, Plan, keycloak
  <2>2. state'[p] = state[p]
    BY <1>4 DEF TypeOK, Refresh, RefreshFails, AddsDone, PlanCreate, PlanUpdate, PlanDelete,
         PlanNothing, Plan, RecordRead, Reading, tfstate
  <2>3. UNCHANGED Locals(p)
    BY <1>4 DEF TypeOK, Refresh, RefreshFails, AddsDone, PlanCreate, PlanUpdate, PlanDelete,
         PlanNothing, Plan, Goto, local, planned, Locals
  <2> QED BY <2>1, <2>2, <2>3
<1>5. CASE \/ Reconcile(r) \/ ResolveDesired(r) \/ Compare(r) \/ Delete(r)
           \/ ReconcileReturns(r) \/ DeleteReturns(r)
  <2>1. exists' = exists /\ (~dirty'[p] => ~dirty[p] /\ remote' = remote)
    BY <1>5 DEF Reconcile, ResolveDesired, Compare, Delete, ReconcileReturns, DeleteReturns,
         OthersUnchanged, keycloak
  <2>2. state'[p] = state[p]
    BY <1>5 DEF TypeOK, Reconcile, ResolveDesired, Compare, Delete, ReconcileReturns,
         DeleteReturns, ReadFails, Fail, Panic, Forget, RecordRead, Reading, tfstate
  <2>3. Clear(Resources) \/ UNCHANGED Locals(p)
    <3>1. CASE Clear({r}) \/ Clear(Resources)
      BY <1>1, <3>1
    <3>2. CASE /\ \E l : Goto(r, l)
               /\ UNCHANGED planned
               /\ UNCHANGED desired \/ \E S : desired' = [desired EXCEPT ![r] = S]
               /\ UNCHANGED pending \/ \E S : pending' = [pending EXCEPT ![r] = S]
               /\ UNCHANGED surplus \/ \E S : surplus' = [surplus EXCEPT ![r] = S]
      BY <3>2 DEF TypeOK, Goto, planned, Locals
    <3> QED BY <1>5, <3>1, <3>2 DEF Reconcile, ResolveDesired, Compare, Delete,
              ReconcileReturns, DeleteReturns, ReadFails, Fail, Panic
  <2> QED BY <2>1, <2>2, <2>3
<1> QED BY <1>3, <1>4, <1>5 DEF Run

\* A resource that is left where it is stays within its plan, and its effect
\* stands, if Keycloak's state is the same or the resource is marked.
LEMMA Frame ==
  ASSUME NEW p \in Resources, UNCHANGED Locals(p), state'[p] = state[p],
         exists' \subseteq exists,
         ~dirty'[p] => ~dirty[p] /\ exists' = exists /\ remote' = remote,
         StepOf(p), EffectOf(p)
  PROVE  StepOf(p)' /\ EffectOf(p)'
<1>1. StepOf(p)'
  BY DEF StepOf, Locals, Dropped
<1>2. EffectOf(p)'
  BY DEF EffectOf, Locals, Dropped
<1> QED BY <1>1, <1>2

\* The step of the resource itself, action by action.
LEMMA Own ==
  ASSUME TypeOK, NEW r \in Resources, Run(r), StepOf(r), EffectOf(r)
  PROVE  StepOf(r)' /\ EffectOf(r)'
<1>1. CASE Clear({r}) \/ Clear(Resources)
  BY <1>1, Cleared
<1>2. CASE Refresh(r)
  <2>1. pc[r] = "idle" /\ pc'[r] = "plan" /\ UNCHANGED planned
    BY <1>2 DEF TypeOK, Refresh, Goto, local
  <2> QED BY <2>1 DEF StepOf, EffectOf, planned
<1>3. CASE RefreshFails(r)
  BY <1>3, Frame DEF RefreshFails, keycloak, tfstate, local, planned, Locals
<1>4. CASE PlanCreate(r) \/ PlanUpdate(r) \/ PlanDelete(r) \/ PlanNothing(r)
  <2>1. /\ pc'[r] \in {"reconcile", "delete", "idle"} /\ state' = state
        /\ pc'[r] = "idle" => old'[r] = {} /\ new'[r] = {} /\ ~exhaustive'[r]
        /\ pc'[r] = "delete" => new'[r] = {} /\ ~exhaustive'[r]
        /\ pc'[r] # "idle" => old'[r] = state[r]
    <3>1. CASE PlanCreate(r)
      BY <3>1 DEF TypeOK, PlanCreate, Plan, Goto, tfstate
    <3>2. CASE PlanUpdate(r)
      BY <3>2 DEF TypeOK, PlanUpdate, Plan, Goto, tfstate
    <3>3. CASE PlanDelete(r)
      BY <3>3 DEF TypeOK, PlanDelete, Plan, Goto, tfstate
    <3>4. CASE PlanNothing(r)
      BY <3>4 DEF TypeOK, PlanNothing, Plan, Goto, tfstate
    <3> QED BY <1>4, <3>1, <3>2, <3>3, <3>4
  <2> QED BY <2>1 DEF StepOf, EffectOf
<1>5. CASE Grant(r) \/ Revoke(r)
  <2>1. CASE Grant(r)
    <3>1. PICK B \in Batches(pending[r]) :
            WriteSucceeds(r, B, remote \cup B) \/ WriteFails(r, B, remote \cup B)
      BY <2>1 DEF Grant
    <3>2. B \subseteq pending[r]
      BY BatchIsPending DEF TypeOK
    <3>3. CASE WriteFails(r, B, remote \cup B)
      BY <1>1, <3>3 DEF WriteFails, Fail
    <3>4. CASE WriteSucceeds(r, B, remote \cup B)
      <4>1. /\ pc[r] = "add" /\ pc' = pc /\ old' = old /\ new' = new /\ surplus' = surplus
            /\ exists' = exists /\ remote' = remote \cup B /\ pending'[r] = pending[r] \ B
            /\ state' = state /\ exhaustive' = exhaustive /\ (~dirty'[r] => ~dirty[r])
        BY <2>1, <3>4 DEF TypeOK, Grant, WriteSucceeds, Changed, tfstate, planned
      <4> QED BY <3>2, <4>1 DEF StepOf, EffectOf, Dropped
    <3> QED BY <3>1, <3>3, <3>4
  <2>2. CASE Revoke(r)
    <3>1. PICK B \in Batches(pending[r]) :
            WriteSucceeds(r, B, remote \ B) \/ WriteFails(r, B, remote \ B)
      BY <2>2 DEF Revoke
    <3>2. B \subseteq pending[r]
      BY BatchIsPending DEF TypeOK
    <3>3. CASE WriteFails(r, B, remote \ B)
      BY <1>1, <3>3 DEF WriteFails, Fail
    <3>4. CASE WriteSucceeds(r, B, remote \ B)
      <4>1. /\ pc[r] \in {"drop", "prune", "unassign"} /\ pc' = pc /\ old' = old /\ new' = new
            /\ exists' = exists /\ remote' = remote \ B /\ pending'[r] = pending[r] \ B
            /\ state' = state /\ exhaustive' = exhaustive /\ (~dirty'[r] => ~dirty[r])
        BY <2>2, <3>4 DEF TypeOK, Revoke, WriteSucceeds, Changed, tfstate, planned
      <4>2. StepOf(r)'
        BY <3>2, <4>1 DEF StepOf, Dropped
      <4>3. EffectOf(r)'
        BY <3>2, <4>1 DEF StepOf, EffectOf, Dropped
      <4> QED BY <4>2, <4>3
    <3> QED BY <3>1, <3>3, <3>4
  <2> QED BY <1>5, <2>1, <2>2
<1>6. CASE Reconcile(r)
  <2>1. CASE /\ Goto(r, "drop") /\ pending' = [pending EXCEPT ![r] = Resolve(Dropped(r))]
             /\ UNCHANGED <<tfstate, planned>>
    <3>1. /\ pc[r] = "reconcile" /\ pc'[r] = "drop" /\ pending'[r] = Resolve(Dropped(r))
          /\ exists' = exists /\ remote' = remote
          /\ old' = old /\ new' = new /\ exhaustive' = exhaustive /\ state' = state
      BY <1>6, <2>1 DEF TypeOK, Reconcile, Goto, OthersUnchanged, keycloak, tfstate, planned
    <3>2. Dropped(r) \in SUBSET Items /\ remote \subseteq exists
      BY DEF TypeOK, Dropped
    <3>3. Resolve(Dropped(r)) \subseteq Dropped(r)
            /\ Dropped(r) \cap exists \subseteq Resolve(Dropped(r))
      BY <3>2, ResolveBounds
    <3> QED BY <3>1, <3>2, <3>3 DEF StepOf, EffectOf, Dropped
  <2> QED BY <1>1, <1>6, <2>1 DEF Reconcile, ReadFails, Fail
<1>7. CASE ResolveDesired(r)
  <2>1. CASE /\ Goto(r, "compare") /\ desired' = [desired EXCEPT ![r] = Resolve(new[r])]
             /\ UNCHANGED <<tfstate, planned>>
    <3>1. /\ pc[r] = "drop" /\ pending[r] = {}
          /\ pc'[r] = "compare" /\ desired'[r] = Resolve(new[r])
          /\ exists' = exists /\ remote' = remote /\ dirty' = dirty
      BY <1>7, <2>1 DEF TypeOK, ResolveDesired, Goto, OthersUnchanged, keycloak
    <3>2. old' = old /\ new' = new /\ exhaustive' = exhaustive /\ state' = state
      BY <2>1 DEF tfstate, planned
    <3>3. Resolve(new[r]) \subseteq new[r] /\ new[r] \cap exists \subseteq Resolve(new[r])
      BY ResolveBounds DEF TypeOK
    <3> QED BY <3>1, <3>2, <3>3 DEF StepOf, EffectOf, Dropped
  <2> QED BY <1>1, <1>7, <2>1 DEF ResolveDesired, Fail
<1>8. CASE Compare(r)
  <2>1. CASE /\ Goto(r, "add")
             /\ pending' = [pending EXCEPT ![r] = ToAdd(desired[r], remote)]
             /\ surplus' = [surplus EXCEPT ![r] = ToRemove(desired[r], remote)]
             /\ UNCHANGED <<tfstate, planned>>
    <3>1. remote \subseteq exists /\ remote \in SUBSET Items /\ desired[r] \in SUBSET Items
      BY DEF TypeOK
    <3>2. /\ pc[r] = "compare" /\ pc'[r] = "add"
          /\ pending'[r] = desired[r] \ remote /\ surplus'[r] = remote \ desired[r]
          /\ exists' = exists /\ remote' = remote /\ dirty' = dirty
          /\ old' = old /\ new' = new /\ exhaustive' = exhaustive /\ state' = state
      BY <1>8, <2>1, <3>1, ToAddIsDifference, ToRemoveIsDifference
         DEF TypeOK, Compare, Goto, OthersUnchanged, keycloak, tfstate, planned
    <3> QED BY <3>1, <3>2 DEF StepOf, EffectOf, Dropped
  <2> QED BY <1>1, <1>8, <2>1 DEF Compare, ReadFails, Fail, Panic
<1>9. CASE AddsDone(r)
  <2>1. /\ pc[r] = "add" /\ pending[r] = {} /\ pc'[r] = "prune"
        /\ pending'[r] = IF exhaustive[r] THEN surplus[r] ELSE {}
        /\ exists' = exists /\ remote' = remote /\ dirty' = dirty
        /\ old' = old /\ new' = new /\ exhaustive' = exhaustive /\ state' = state
    BY <1>9 DEF TypeOK, AddsDone, Goto, keycloak, tfstate, planned
  <2> QED BY <2>1 DEF StepOf, EffectOf, Dropped
<1>10. CASE ReconcileReturns(r) \/ DeleteReturns(r)
  BY <1>1, <1>10 DEF ReconcileReturns, DeleteReturns
<1>11. CASE Delete(r)
  <2>1. CASE /\ Goto(r, "unassign")
             /\ pending' = [pending EXCEPT ![r] = Resolve(state[r])]
             /\ UNCHANGED <<tfstate, planned>>
    <3>1. /\ pc[r] = "delete" /\ pc'[r] = "unassign" /\ pending'[r] = Resolve(state[r])
          /\ remote' = remote /\ old' = old /\ new' = new /\ exhaustive' = exhaustive /\ state' = state
      BY <1>11, <2>1 DEF TypeOK, Delete, Goto, OthersUnchanged, keycloak, tfstate, planned
    <3>2. remote \subseteq exists /\ Resolve(state[r]) \subseteq state[r]
            /\ state[r] \cap exists \subseteq Resolve(state[r])
      BY ResolveBounds DEF TypeOK
    <3> QED BY <3>1, <3>2 DEF StepOf, EffectOf
  <2> QED BY <1>1, <1>11, <2>1 DEF Delete, Fail, Panic
<1> QED BY <1>2, <1>3, <1>4, <1>5, <1>6, <1>7, <1>8, <1>9, <1>10, <1>11 DEF Run

IInv == TypeOK /\ StepInv /\ EffectInv

LEMMA InvInit == Init => IInv
<1> SUFFICES ASSUME Init PROVE StepInv /\ EffectInv
  BY TypeInit DEF IInv
<1>1. ASSUME NEW r \in Resources PROVE pc[r] = "idle" /\ old[r] = {} /\ new[r] = {} /\ ~exhaustive[r]
  BY DEF Init
<1> QED BY <1>1 DEF StepInv, StepOf, EffectInv, EffectOf

LEMMA InvNext == IInv /\ [Next]_vars => IInv'
<1> SUFFICES ASSUME TypeOK, StepInv, EffectInv, [Next]_vars,
                    NEW p \in Resources
             PROVE  StepOf(p)' /\ EffectOf(p)'
  BY TypeNext DEF IInv, StepInv, EffectInv
<1>1. StepOf(p) /\ EffectOf(p)
  BY DEF StepInv, EffectInv
<1>2. ASSUME NEW r \in Resources, Run(r) PROVE StepOf(p)' /\ EffectOf(p)'
  <2>1. CASE p = r
    BY <1>1, <1>2, <2>1, Own
  <2>2. CASE p # r /\ Clear(Resources)
    BY <2>2, Cleared
  <2>3. CASE p # r /\ ~Clear(Resources)
    BY <1>1, <1>2, <2>3, Others, Frame
  <2> QED BY <2>1, <2>2, <2>3
<1>3. ASSUME UNCHANGED <<tfstate, pc, local>>, exists' \subseteq exists,
             ~dirty'[p] => ~dirty[p] /\ exists' = exists /\ remote' = remote
      PROVE  StepOf(p)' /\ EffectOf(p)'
  BY <1>1, <1>3, Frame DEF tfstate, local, planned, Locals
<1>4. ASSUME NEW r \in Resources, Edit(r) PROVE StepOf(p)' /\ EffectOf(p)'
  BY <1>3, <1>4 DEF Edit, Author, keycloak
<1>5. ASSUME NEW r \in Resources, Import(r) PROVE StepOf(p)' /\ EffectOf(p)'
  <2>1. /\ pc[r] = "idle" /\ UNCHANGED <<keycloak, pc, local, dirty>>
        /\ p # r => state'[p] = state[p]
    BY <1>5 DEF Import, Author, RecordRead, Reading, TypeOK
  <2>2. CASE p = r
    BY <1>1, <2>1, <2>2 DEF StepOf, EffectOf, local, planned
  <2>3. CASE p # r
    BY <1>1, <2>1, <2>3, Frame DEF keycloak, local, planned, Locals
  <2> QED BY <2>2, <2>3
<1>6. CASE ManualChange \/ ItemDeleted \/ OwnerDeleted
  BY <1>3, <1>6 DEF ManualChange, ItemDeleted, OwnerDeleted, Outside
<1>7. CASE UNCHANGED vars
  BY <1>3, <1>7 DEF vars, keycloak
<1> QED BY <1>2, <1>4, <1>5, <1>6, <1>7 DEF Next

LEMMA Invariant == Spec => []IInv
BY InvInit, InvNext, PTL DEF Spec

\* At every moment of a Reconcile or Delete what is left to be called stays within
\* the plan: no loop ever holds an item it has no business with.
THEOREM StepsWithinPlan == Spec => []StepInv
<1>1. IInv => StepInv
  BY DEF IInv
<1> QED BY <1>1, Invariant, PTL

\* ... and, if nobody else has touched the owner since the plan, it adds up to the
\* plan with what Keycloak holds.
THEOREM EffectsAddUp == Spec => []EffectInv
<1>1. IInv => EffectInv
  BY DEF IInv
<1> QED BY <1>1, Invariant, PTL

\* A Reconcile whose calls all succeeded, undisturbed, has put Keycloak into the
\* planned state: role by role, across the realm and any number of clients.
THEOREM ApplyCorrect == Spec => []ApplyEffect
<1>1. IInv => ApplyEffect
  BY DEF IInv, TypeOK, StepInv, StepOf, EffectInv, EffectOf, ApplyEffect
<1> QED BY <1>1, Invariant, PTL

\* A Delete whose calls all succeeded, undisturbed, leaves no recorded item.
THEOREM DestroyCorrect == Spec => []DestroyEffect
<1>1. IInv => DestroyEffect
  BY DEF IInv, EffectInv, EffectOf, DestroyEffect
<1> QED BY <1>1, Invariant, PTL

-----------------------------------------------------------------------------
(* The resources implement AssignmentContract                              *)

PhaseMap == [r \in Resources |-> Phase(pc[r])]

LEMMA Phases ==
  /\ Phase("idle") = "idle" /\ Phase("plan") = "idle"
  /\ Phase("delete") = "destroy" /\ Phase("unassign") = "destroy"
  /\ \A l \in {"reconcile", "drop", "compare", "add", "prune"} : Phase(l) = "apply"
BY DEF Phase

LEMMA RefineInit == Init => Contract!Init
BY Phases DEF Init, Contract!Init

\* What Terraform records when operations of the resources R end is what they
\* owned, what was planned and, if exhaustive, what is assigned.
Keeps(R) ==
  /\ \A r \in R :
       /\ state'[r] \subseteq state[r] \cup new[r] \cup (IF exhaustive[r] THEN remote ELSE {})
       /\ stateExhaustive'[r] => stateExhaustive[r] \/ exhaustive[r]
  /\ \A r \in Resources \ R : state'[r] = state[r] /\ stateExhaustive'[r] = stateExhaustive[r]

\* The end of an operation of the resources R, for whatever reason.
LEMMA RefineClear ==
  ASSUME TypeOK, NEW R \in SUBSET Resources, Clear(R), Keeps(R)
  PROVE  Contract!Stop(R)
<1>1. PhaseMap' = [r \in Resources |-> IF r \in R THEN "idle" ELSE PhaseMap[r]]
  BY Phases DEF Clear, PhaseMap
<1> QED BY <1>1 DEF Clear, Keeps, Contract!Stop, PhaseMap

LEMMA FailKeeps ==
  ASSUME TypeOK, NEW r \in Resources, Fail(r)
  PROVE  Keeps({r})
BY DEF TypeOK, Fail, Keeps

LEMMA ReturnKeeps ==
  ASSUME TypeOK, NEW r \in Resources, ReconcileReturns(r) \/ Forget(r)
  PROVE  Keeps({r})
<1>1. CASE Forget(r)
  BY <1>1 DEF TypeOK, Forget, Keeps
<1>2. CASE RecordRead(r, new[r], exhaustive[r])
  BY <1>2 DEF TypeOK, RecordRead, Reading, Keeps
<1>3. CASE /\ state' = [state EXCEPT ![r] = new[r]]
           /\ stateExhaustive' = [stateExhaustive EXCEPT ![r] = exhaustive[r]]
  BY <1>3 DEF TypeOK, Keeps
<1> QED BY <1>1, <1>2, <1>3 DEF ReconcileReturns

\* A call that only grants planned items, or only revokes what it may.
LEMMA RefineWrite ==
  ASSUME IInv, NEW r \in Resources, Grant(r) \/ Revoke(r)
  PROVE  Contract!Change(r) \/ Contract!End \/ UNCHANGED Contract!vars
<1>1. PICK B \in Batches(pending[r]), rem \in SUBSET Items :
        /\ WriteSucceeds(r, B, rem) \/ WriteFails(r, B, rem)
        /\ \/ pc[r] = "add" /\ rem = remote \cup B
           \/ pc[r] \in {"drop", "prune", "unassign"} /\ rem = remote \ B
  <2>1. \A B \in Batches(pending[r]) : remote \cup B \in SUBSET Items /\ remote \ B \in SUBSET Items
    BY BatchIsPending DEF IInv, TypeOK
  <2> QED BY <2>1 DEF Grant, Revoke
<1>2. B \subseteq pending[r] /\ pending[r] \in SUBSET Items
  BY BatchIsPending DEF IInv, TypeOK
<1>3. remote' = remote \/ remote' = rem
  BY <1>1 DEF WriteSucceeds, WriteFails, Changed
<1>4. manual' = manual
  BY <1>1 DEF WriteSucceeds, WriteFails, Changed
<1>5. \/ UNCHANGED <<pc, planned, state, stateExhaustive>>
      \/ Fail(r) /\ Clear({r})
  BY <1>1 DEF WriteSucceeds, WriteFails, Fail, tfstate
<1>6. \/ UNCHANGED <<PhaseMap, old, new, exhaustive, state, stateExhaustive>>
      \/ Contract!Stop({r})
  BY <1>5, RefineClear, FailKeeps DEF IInv, PhaseMap, planned
<1>7. CASE remote' = remote
  BY <1>4, <1>6, <1>7 DEF Contract!End, Contract!vars, PhaseMap
<1>8. CASE remote' = rem
  <2>1. CASE pc[r] = "add" /\ rem = remote \cup B
    <3>1. B \subseteq new[r]
      BY <1>2, <2>1 DEF IInv, StepInv, StepOf
    <3>2. Contract!Grants(r)
      BY <1>8, <2>1, <3>1, Phases DEF Contract!Grants
    <3> QED BY <1>4, <1>6, <3>2 DEF Contract!Change, PhaseMap
  <2>2. CASE pc[r] \in {"drop", "prune", "unassign"} /\ rem = remote \ B
    <3>1. B \cap new[r] = {}
      BY <1>2, <2>2 DEF IInv, StepInv, StepOf, Dropped
    <3>2. B \subseteq old[r] \/ (exhaustive[r] /\ pc[r] = "prune")
      BY <1>2, <2>2 DEF IInv, StepInv, StepOf, Dropped
    <3>3. Contract!Revokes(r)
      BY <1>2, <1>8, <2>2, <3>1, <3>2, Phases DEF Contract!Revokes
    <3> QED BY <1>4, <1>6, <3>3 DEF Contract!Change, PhaseMap
  <2> QED BY <1>1, <2>1, <2>2
<1> QED BY <1>3, <1>7, <1>8

LEMMA RefinePlan ==
  ASSUME IInv, NEW r \in Resources,
         PlanCreate(r) \/ PlanUpdate(r) \/ PlanDelete(r) \/ PlanNothing(r)
  PROVE  Contract!Begin(r) \/ UNCHANGED Contract!vars
<1>1. /\ pc[r] = "plan" /\ old[r] = {} /\ new[r] = {} /\ ~exhaustive[r]
      /\ UNCHANGED <<remote, manual, state, stateExhaustive>>
  BY DEF PlanCreate, PlanUpdate, PlanDelete, PlanNothing, Plan, keycloak, counters, tfstate,
       IInv, StepInv, StepOf
<1>2. CASE PlanNothing(r)
  <2>1. pc' = [pc EXCEPT ![r] = "idle"] /\ old' = old /\ new' = new
    BY <1>1, <1>2 DEF PlanNothing, Plan, Goto, IInv, TypeOK
  <2>2. exhaustive' = exhaustive
    BY <1>1, <1>2 DEF PlanNothing, Plan, IInv, TypeOK
  <2>3. PhaseMap' = PhaseMap
    BY <1>1, <2>1, Phases DEF PhaseMap, IInv, TypeOK
  <2> QED BY <1>1, <2>1, <2>2, <2>3 DEF Contract!vars, PhaseMap
<1>3. CASE PlanCreate(r) \/ PlanUpdate(r)
  <2>1. Plan(r, "reconcile", state[r], conf[r], confExhaustive[r])
    BY <1>3 DEF PlanCreate, PlanUpdate, IInv, TypeOK
  <2>2. PhaseMap' = [PhaseMap EXCEPT ![r] = "apply"]
    BY <2>1, Phases DEF Plan, Goto, PhaseMap, IInv, TypeOK
  <2>3. conf[r] \in SUBSET Items /\ confExhaustive[r] \in BOOLEAN
    BY DEF IInv, TypeOK
  <2>4. PhaseMap[r] = "idle"
    BY <1>1, Phases DEF PhaseMap
  <2> QED BY <1>1, <2>1, <2>2, <2>3, <2>4 DEF Plan, Contract!Begin, PhaseMap
<1>4. CASE PlanDelete(r)
  <2>1. Plan(r, "delete", state[r], {}, FALSE)
    BY <1>4 DEF PlanDelete
  <2>2. PhaseMap' = [PhaseMap EXCEPT ![r] = "destroy"]
    BY <2>1, Phases DEF Plan, Goto, PhaseMap, IInv, TypeOK
  <2>3. PhaseMap[r] = "idle" /\ {} \in SUBSET Items /\ FALSE \in BOOLEAN
    BY <1>1, Phases DEF PhaseMap
  <2> QED BY <1>1, <2>1, <2>2, <2>3 DEF Plan, Contract!Begin, PhaseMap
<1> QED BY <1>2, <1>3, <1>4

\* A refresh, or an import.
LEMMA RefineRead ==
  ASSUME IInv, NEW r \in Resources, Refresh(r) \/ Import(r)
  PROVE  Contract!Look(r) \/ UNCHANGED Contract!vars
<1>1. /\ pc[r] = "idle" /\ pc' \in {pc, [pc EXCEPT ![r] = "plan"]}
      /\ UNCHANGED <<remote, manual, old, new, exhaustive>>
  BY DEF Refresh, Import, Author, Goto, keycloak, local, planned, counters
<1>2. PhaseMap' = PhaseMap /\ PhaseMap[r] = "idle"
  BY <1>1, Phases DEF PhaseMap, IInv, TypeOK
<1>3. CASE UNCHANGED tfstate
  BY <1>1, <1>2, <1>3 DEF Contract!vars, PhaseMap, tfstate
<1>4. ASSUME NEW items \in SUBSET Items, NEW all \in BOOLEAN, RecordRead(r, items, all),
             all => stateExhaustive[r] \/ state[r] = {}, ~all => items \subseteq state[r]
      PROVE  Contract!Look(r)
  <2>1. /\ state'[r] = IF owner THEN (IF all THEN remote ELSE remote \cap items) ELSE {}
        /\ stateExhaustive'[r] = (owner /\ all)
        /\ \A p \in Resources \ {r} : state'[p] = state[p] /\ stateExhaustive'[p] = stateExhaustive[p]
    BY <1>4 DEF RecordRead, Reading, IInv, TypeOK
  <2>2. stateExhaustive'[r] => stateExhaustive[r] \/ state[r] = {}
    BY <1>4, <2>1
  <2>3. state'[r] \subseteq (IF stateExhaustive'[r] THEN remote ELSE state[r])
    BY <1>4, <2>1
  <2> QED BY <1>1, <1>2, <2>1, <2>2, <2>3 DEF Contract!Look, PhaseMap
<1>5. CASE Import(r)
  <2>1. RecordRead(r, {}, TRUE) /\ state[r] = {}
    BY <1>5 DEF Import, IInv, TypeOK
  <2> QED BY <1>4, <2>1
<1>6. CASE Refresh(r)
  <2>1. state[r] \in SUBSET Items /\ stateExhaustive[r] \in BOOLEAN
    BY DEF IInv, TypeOK
  <2> QED BY <1>3, <1>4, <1>6, <2>1 DEF Refresh
<1> QED BY <1>5, <1>6

LEMMA RefineNext == IInv /\ [Next]_vars => [Contract!Next]_(Contract!vars)
<1> SUFFICES ASSUME IInv, [Next]_vars PROVE [Contract!Next]_(Contract!vars)
  OBVIOUS
<1>1. ASSUME NEW R \in SUBSET Resources, Clear(R), Keeps(R), UNCHANGED <<remote, manual>>
      PROVE  Contract!Next
  BY <1>1, RefineClear DEF Contract!Next, Contract!End, IInv
<1>2. ASSUME UNCHANGED <<remote, manual, planned, tfstate, PhaseMap>> PROVE UNCHANGED Contract!vars
  BY <1>2 DEF Contract!vars, PhaseMap, planned, tfstate
<1>3. ASSUME NEW r \in Resources, Run(r) PROVE [Contract!Next]_(Contract!vars)
  <2>1. CASE Grant(r) \/ Revoke(r)
    BY <2>1, RefineWrite DEF Contract!Next
  <2>2. CASE PlanCreate(r) \/ PlanUpdate(r) \/ PlanDelete(r) \/ PlanNothing(r)
    BY <2>2, RefinePlan DEF Contract!Next
  <2>3. CASE Refresh(r)
    BY <2>3, RefineRead DEF Contract!Next
  <2>4. CASE RefreshFails(r) \/ AddsDone(r)
    <3>1. UNCHANGED <<remote, manual, planned, tfstate>>
      BY <2>4 DEF RefreshFails, AddsDone, keycloak, local, counters
    <3>2. PhaseMap' = PhaseMap
      BY <2>4, Phases DEF RefreshFails, AddsDone, Goto, PhaseMap, IInv, TypeOK
    <3> QED BY <1>2, <3>1, <3>2
  <2>5. CASE \/ Reconcile(r) \/ ResolveDesired(r) \/ Compare(r) \/ Delete(r)
             \/ ReconcileReturns(r) \/ DeleteReturns(r)
    <3>1. UNCHANGED <<remote, manual>>
      BY <2>5 DEF Reconcile, ResolveDesired, Compare, Delete, ReconcileReturns, DeleteReturns,
           OthersUnchanged, keycloak
    <3>2. CASE Fail(r)
      BY <1>1, <3>1, <3>2, FailKeeps DEF Fail, IInv
    <3>3. CASE Panic
      <4>1. Keeps(Resources)
        BY <3>3 DEF Panic, Keeps, tfstate
      <4> QED BY <1>1, <3>1, <3>3, <4>1 DEF Panic
    <3>4. CASE Clear({r}) /\ (ReconcileReturns(r) \/ Forget(r))
      BY <1>1, <3>1, <3>4, ReturnKeeps DEF IInv
    <3>5. CASE /\ UNCHANGED <<planned, tfstate>>
               /\ \/ pc[r] = "reconcile" /\ Goto(r, "drop")
                  \/ pc[r] = "drop" /\ Goto(r, "compare")
                  \/ pc[r] = "compare" /\ Goto(r, "add")
                  \/ pc[r] = "delete" /\ Goto(r, "unassign")
      <4>1. PhaseMap' = PhaseMap
        BY <3>5, Phases DEF Goto, PhaseMap, IInv, TypeOK
      <4> QED BY <1>2, <3>1, <3>5, <4>1
    <3>6. ReconcileReturns(r) => Clear({r})
      BY DEF ReconcileReturns
    <3> QED BY <2>5, <3>2, <3>3, <3>4, <3>5, <3>6 DEF Reconcile, ResolveDesired, Compare, Delete,
              DeleteReturns, ReadFails
  <2> QED BY <1>3, <2>1, <2>2, <2>3, <2>4, <2>5 DEF Run
<1>4. ASSUME NEW r \in Resources, Edit(r) PROVE UNCHANGED Contract!vars
  BY <1>2, <1>4 DEF Edit, Author, keycloak, local, PhaseMap
<1>5. ASSUME NEW r \in Resources, Import(r) PROVE [Contract!Next]_(Contract!vars)
  BY <1>5, RefineRead DEF Contract!Next
<1>6. CASE ManualChange \/ ItemDeleted \/ OwnerDeleted
  <2>1. manual' = manual + 1 /\ UNCHANGED <<pc, planned, tfstate>>
    BY <1>6 DEF ManualChange, ItemDeleted, OwnerDeleted, Outside, local
  <2>2. remote' \in SUBSET Items
    BY <1>6, TypeNext DEF IInv, TypeOK
  <2> QED BY <2>1, <2>2 DEF Contract!Next, Contract!Manual, planned, tfstate
<1>7. CASE UNCHANGED vars
  BY <1>2, <1>7 DEF vars, keycloak, local, counters, PhaseMap
<1> QED BY <1>3, <1>4, <1>5, <1>6, <1>7 DEF Next

\* Whatever interleaves, fails or dies, every step of the three resources is a
\* step the contract allows: also after an import, or an edit of exhaustive.
THEOREM Refinement == Spec => RefinesContract
BY RefineInit, RefineNext, Invariant, PTL DEF Spec, RefinesContract, Contract!Spec
=============================================================================
