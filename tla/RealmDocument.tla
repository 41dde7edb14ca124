---------------------------- MODULE RealmDocument ----------------------------
(***************************************************************************)
(* keycloak_realm and keycloak_authentication_bindings on one realm.  The  *)
(* realm is one document: Update of the first writes it whole from its     *)
(* plan; every operation of the second reads it, sets the flow bindings    *)
(* and writes it whole.  Both know the flows, as optional and computed     *)
(* attributes; their configuration is in one of the two, as the docs ask.  *)
(*                                                                         *)
(* A run refreshes both, plans both, and applies what differs, the         *)
(* bindings after the realm if they refer to it (ordered).  Creation and   *)
(* deletion of the realm itself are in ResourceLifecycle.                  *)
(***************************************************************************)
EXTENDS Naturals, Sequences

CONSTANTS
  Flows,      \* the flow bindings
  MaxEvents   \* failing calls, edits and changes by administrators (bound)

ASSUME BoundsAssumption == MaxEvents \in Nat

VARIABLES
  ordered,    \* do the bindings refer to the realm resource
  doc,        \* the realm in Keycloak: a setting, and the flows (0: built in)
  conf,       \* the setting, the flows configured, and in which resource
  realm,      \* state of keycloak_realm
  bindings,   \* state of keycloak_authentication_bindings; known: is it there
  copy,       \* the document the bindings have read
  phase,      \* is the run refreshing or applying
  todo,       \* what each resource has left to do
  op,         \* what the run does, or did, with each
  outcome,    \* "calm" while nothing but the run has touched the realm, "applied" after
  settled,    \* the flows that were as configured when the run was planned
  events      \* failing calls, edits and changes by administrators so far

states == <<realm, bindings>>
vars == <<ordered, doc, conf, states, copy, phase, todo, op, outcome, settled, events>>
-----------------------------------------------------------------------------
Unset == 2    \* not a value: nothing is configured
BuiltIn == [f \in Flows |-> 0]
Documents == [setting : {0, 1}, flow : [Flows -> {0, 1}]]

Configured(at) == {f \in Flows : conf.at = at /\ conf.flow[f] # Unset}

\* What a plan shows for the flows: a computed attribute keeps its value.
PlannedFlows(at, known) == [f \in Flows |-> IF f \in Configured(at) THEN conf.flow[f] ELSE known[f]]

\* Mutant: the plan shows the default for a flow the realm does not configure.
PlannedDefaults == [setting |-> conf.setting, flow |-> PlannedFlows("realm", BuiltIn)]

PlannedRealm == [setting |-> conf.setting, flow |-> PlannedFlows("realm", realm.flow)]

Blank == [setting |-> 0, flow |-> BuiltIn]
NoOp == [realm |-> "none", bindings |-> "none"]
Idle == [r \in {"realm", "bindings"} |-> <<"refresh">>]

Init ==
  /\ ordered \in BOOLEAN
  /\ doc = Blank
  /\ conf \in [setting : {0, 1}, flow : [Flows -> {Unset, 1}], at : {"realm", "bindings"}]
  /\ realm = doc
  /\ bindings = [known |-> FALSE, flow |-> BuiltIn]
  /\ copy = Blank
  /\ phase = "refresh" /\ todo = Idle /\ op = NoOp
  /\ outcome = "calm" /\ settled = {} /\ events = 0

Event == events < MaxEvents /\ events' = events + 1
Fault == Event /\ outcome' = "none"
NoFault == UNCHANGED <<events, outcome>>

At(r, i) == todo[r] # <<>> /\ Head(todo[r]) = i
Advance(r) == todo' = [todo EXCEPT ![r] = Tail(@)]
Stop(r) == todo' = [todo EXCEPT ![r] = <<>>]
-----------------------------------------------------------------------------
(* Read and the plan                                                       *)

RefreshRealm == At("realm", "refresh") /\ realm' = doc /\ Advance("realm") /\ UNCHANGED bindings

\* Mutant: Read sets the flows of bindings that are not there.
RefreshAnyBindings ==
  /\ At("bindings", "refresh")
  /\ bindings' = [bindings EXCEPT !.flow = doc.flow]
  /\ Advance("bindings") /\ UNCHANGED realm

\* Mutant: Read leaves the flows as they were set.
RefreshNoBindings == At("bindings", "refresh") /\ Advance("bindings") /\ UNCHANGED states

\* setAuthenticationBindingsData
RefreshBindings ==
  /\ At("bindings", "refresh")
  /\ bindings' = IF bindings.known THEN [bindings EXCEPT !.flow = doc.flow] ELSE bindings
  /\ Advance("bindings") /\ UNCHANGED realm

Refresh ==
  /\ RefreshRealm \/ RefreshBindings
  /\ NoFault /\ UNCHANGED <<ordered, doc, conf, copy, phase, op, settled>>

\* An error of either ends the run before there is a plan.
RefreshFails ==
  /\ phase = "refresh" /\ Fault /\ todo' = Idle
  /\ UNCHANGED <<ordered, doc, conf, states, copy, phase, op, settled>>

RealmOp == IF PlannedRealm # realm THEN "update" ELSE "none"
BindingsOp ==
  CASE conf.at = "bindings" /\ ~bindings.known -> "create"
    [] conf.at = "bindings" /\ bindings.known /\ PlannedFlows("bindings", bindings.flow) # bindings.flow -> "update"
    [] conf.at # "bindings" /\ bindings.known -> "delete"
    [] OTHER -> "none"

\* Mutant: Update writes the flows alone.
ProgramOfFlows == [
  none |-> <<>>,
  create |-> <<"get", "put", "get", "record", "read">>,
  update |-> <<"put", "read">>,
  delete |-> <<"get", "put">>]

Program == [
  none |-> <<>>,
  create |-> <<"get", "put", "get", "record", "read">>,
  update |-> <<"get", "put", "read">>,
  delete |-> <<"get", "put">>]

Plan ==
  /\ phase = "refresh" /\ todo["realm"] = <<>> /\ todo["bindings"] = <<>>
  /\ phase' = "apply"
  /\ op' = [realm |-> RealmOp, bindings |-> BindingsOp]
  /\ todo' = [realm |-> IF RealmOp = "update" THEN <<"check", "put">> ELSE <<>>, bindings |-> Program[BindingsOp]]
  /\ realm' = PlannedRealm
  /\ bindings' = IF BindingsOp = "update" THEN [bindings EXCEPT !.flow = PlannedFlows("bindings", @)] ELSE bindings
  /\ settled' = {f \in Configured("realm") \cup Configured("bindings") : doc.flow[f] = conf.flow[f]}
  /\ NoFault /\ UNCHANGED <<ordered, doc, conf, copy>>
-----------------------------------------------------------------------------
(* keycloak_realm: ValidateRealm asks the server for its themes, then the  *)
(* document is written.                                                    *)

RealmFails ==
  /\ Fault
  /\ todo' = [realm |-> <<>>, bindings |-> IF ordered /\ op.bindings # "delete" THEN <<>> ELSE todo["bindings"]]

UpdateRealm ==
  /\ phase = "apply"
  /\ \/ At("realm", "check") /\ UNCHANGED doc /\ Advance("realm") /\ NoFault
     \/ At("realm", "put") /\ doc' = realm /\ Advance("realm") /\ NoFault
     \/ At("realm", "check") /\ UNCHANGED doc /\ RealmFails
     \/ At("realm", "put") /\ doc' \in {doc, realm} /\ RealmFails
  /\ UNCHANGED <<ordered, conf, states, copy, phase, op, settled>>
-----------------------------------------------------------------------------
(* keycloak_authentication_bindings                                        *)

\* Mutant: Delete writes the flows it knows.
BoundAlways == IF op.bindings = "create" THEN PlannedFlows("bindings", BuiltIn) ELSE bindings.flow

\* setRealmFlowBindings: Create knows no value for what is not configured.
\* resetAuthenticationBindingsForRealm
BoundFlows ==
  CASE op.bindings = "create" -> PlannedFlows("bindings", BuiltIn)
    [] op.bindings = "delete" -> BuiltIn
    [] OTHER -> bindings.flow

Written == [copy EXCEPT !.flow = BoundFlows]

Turn == phase = "apply" /\ (ordered /\ op.bindings # "delete" => todo["realm"] = <<>>)

GetRealm ==
  /\ Turn /\ At("bindings", "get")
  /\ \/ copy' = doc /\ Advance("bindings") /\ NoFault
     \/ Fault /\ Stop("bindings") /\ UNCHANGED copy
  /\ UNCHANGED <<ordered, doc, conf, states, phase, op, settled>>

\* The last call of Delete takes the bindings from the state.
PutRealm ==
  /\ Turn /\ At("bindings", "put")
  /\ \/ /\ doc' = Written /\ Advance("bindings") /\ NoFault
        /\ bindings' = IF op.bindings = "delete" THEN [known |-> FALSE, flow |-> BuiltIn] ELSE bindings
     \/ doc' \in {doc, Written} /\ Fault /\ Stop("bindings") /\ UNCHANGED bindings
  /\ UNCHANGED <<ordered, conf, realm, copy, phase, op, settled>>

Record ==
  /\ Turn /\ At("bindings", "record")
  /\ bindings' = [known |-> TRUE, flow |-> copy.flow]
  /\ Advance("bindings") /\ NoFault
  /\ UNCHANGED <<ordered, doc, conf, realm, copy, phase, op, settled>>

ReadBindings ==
  /\ Turn /\ At("bindings", "read")
  /\ \/ bindings' = [bindings EXCEPT !.flow = doc.flow] /\ Advance("bindings") /\ NoFault
     \/ Fault /\ Stop("bindings") /\ UNCHANGED bindings
  /\ UNCHANGED <<ordered, doc, conf, realm, copy, phase, op, settled>>

Finish ==
  /\ phase = "apply" /\ todo["realm"] = <<>> /\ todo["bindings"] = <<>>
  /\ phase' = "finished"
  /\ outcome' = IF outcome = "calm" THEN "applied" ELSE "none"
  /\ UNCHANGED <<ordered, doc, conf, states, copy, todo, op, settled, events>>

Again ==
  /\ phase = "finished"
  /\ phase' = "refresh" /\ todo' = Idle /\ outcome' = "calm"
  /\ copy' = Blank /\ op' = NoOp /\ settled' = {}
  /\ UNCHANGED <<ordered, doc, conf, states, events>>
-----------------------------------------------------------------------------
(* Everyone else; an edit takes effect with the next run.                  *)

Edit ==
  /\ phase = "finished" /\ Event
  /\ conf' \in [setting : {0, 1}, flow : [Flows -> {Unset, 0, 1}], at : {"realm", "bindings"}]
  /\ outcome' = "none"
  /\ UNCHANGED <<ordered, doc, states, copy, phase, todo, op, settled>>

AdminChanges ==
  /\ Fault
  /\ doc' \in {[doc EXCEPT !.setting = 1 - @]} \cup {[doc EXCEPT !.flow[f] = 1 - @] : f \in Flows}
  /\ UNCHANGED <<ordered, conf, states, copy, phase, todo, op, settled>>

Terraform ==
  \/ Refresh \/ Plan \/ UpdateRealm
  \/ GetRealm \/ PutRealm \/ Record \/ ReadBindings
  \/ Finish \/ Again

Next == Terraform \/ RefreshFails \/ Edit \/ AdminChanges

Spec == Init /\ [][Next]_vars

\* terraform apply is run again and again, and a started run goes on.
FairSpec == Spec /\ WF_vars(Terraform)
-----------------------------------------------------------------------------
\* Bindings that are not in the state have no flows there.
TypeOK ==
  /\ ordered \in BOOLEAN
  /\ doc \in Documents /\ realm \in Documents /\ copy \in Documents
  /\ conf \in [setting : {0, 1}, flow : [Flows -> {Unset, 0, 1}], at : {"realm", "bindings"}]
  /\ bindings \in [known : BOOLEAN, flow : [Flows -> {0, 1}]] /\ (bindings.known \/ bindings.flow = BuiltIn)
  /\ phase \in {"refresh", "apply", "finished"}
  /\ op \in [{"realm", "bindings"} -> {"none", "create", "update", "delete"}]
  /\ \A r \in DOMAIN todo : \A i \in DOMAIN todo[r] :
       todo[r][i] \in {"refresh", "check", "get", "put", "record", "read"}
  /\ outcome \in {"calm", "applied", "none"} /\ (outcome = "applied" => phase = "finished")
  /\ settled \subseteq Flows
  /\ events \in 0 .. MaxEvents

Agrees == doc.setting = conf.setting /\ \A f \in Configured("realm") \cup Configured("bindings") : doc.flow[f] = conf.flow[f]

\* Only one of the two wrote in this run, or they wrote in order.
Alone == op.realm = "none" \/ op.bindings = "none" \/ (ordered /\ op.bindings # "delete")

\* A run that ends without an error, and with nobody else at the realm, leaves it
\* as configured if the bindings wait for the realm; but a run that also destroys
\* the bindings (their flows moved to the realm, say) promises the setting only.
AppliedAgrees ==
  outcome = "applied" /\ Alone =>
    /\ doc.setting = conf.setting
    /\ op.bindings # "delete" => Agrees

\* Destroyed bindings leave the built in flows behind, unless the realm is updated
\* in the same run: it writes back the flows it read before.
DestroyedFlowsAreBuiltIn ==
  outcome = "applied" /\ op.bindings = "delete" /\ op.realm = "none" => doc.flow = BuiltIn

\* The plan of a run that nothing but the run has disturbed is made.
Undisturbed == outcome = "applied" \/ (outcome = "calm" /\ phase = "apply")

\* Whichever of the two writes first, and whichever of them configures the flow, a run
\* that does not destroy the bindings never takes away a flow that was as configured
\* when it was planned.
SettledFlowsKept ==
  Undisturbed /\ op.bindings # "delete" => \A f \in settled : doc.flow[f] = conf.flow[f]

\* What docs/resources/realm.md:211-217 says of every flow: "Defaults to `browser`" and
\* so on.  The attributes are computed as well: a flow taken out of the configuration
\* is planned with the value it has.
UnconfiguredFlowsAreDefaults ==
  outcome = "applied" /\ conf.at = "realm" /\ op.bindings = "none" =>
    \A f \in Flows : conf.flow[f] = Unset => doc.flow[f] = BuiltIn[f]

\* However the two overwrite each other, runs repeated after the last failure and
\* the last change by others bring the realm to the configuration and keep it so.
Converges == <>[]Agrees
=============================================================================
