--------------------------- MODULE SetAttachments ---------------------------
(***************************************************************************)
(* The resources that own a whole set Keycloak keeps for something else:   *)
(* the members of a group, the default groups and default roles of a       *)
(* realm, the default and optional scopes of a client or of a realm.  They *)
(* list what is there, detach what is not configured and attach what is    *)
(* missing, one call for each item, in an order of their own.              *)
(*                                                                         *)
(* Two resources are there: the second is the other list of scopes of the  *)
(* same client or realm, or is not used.  The group, client or realm       *)
(* itself stays; an item of the sets may be deleted.                       *)
(***************************************************************************)
EXTENDS Naturals, Sequences, FiniteSets

CONSTANTS
  Items,      \* what may be in the sets (numbers, in the order Keycloak lists them)
  PageSize,   \* how many members one page holds (50 in the code)
  MaxEvents   \* failing calls, edits and changes by administrators (bound)

ASSUME ItemsAssumption == Items \subseteq Nat \ {0} /\ IsFiniteSet(Items)
ASSUME BoundsAssumption == PageSize \in Nat \ {0} /\ MaxEvents \in Nat

VARIABLES
  kinds,      \* what the two resources are
  existing,   \* the items that exist
  attached,   \* what Keycloak has in each set
  conf,       \* configuration
  state,      \* Terraform state: is the resource there, tainted, its items
  op,         \* what the provider is doing with each
  todo,       \* ... and the rest of it
  seen,       \* the items listed by it, as far as they are not dealt with
  page,       \* how many members the pages so far have held
  others,     \* what the other list had when it was looked at
  outcome,    \* how the last run went, if nothing has disturbed it
  events      \* failing calls, edits and changes by administrators so far

local == <<op, todo, seen, page, others>>
vars == <<kinds, existing, attached, conf, state, local, outcome, events>>
-----------------------------------------------------------------------------
(* The resource types.  skips: names that match no scope are passed over.  *)
(* batch: all items go in one call.                                        *)

Reconcile == <<"list", "detach", "attach", "claim", "read">>

Attachment == [
  create |-> Reconcile, update |-> Reconcile, delete |-> <<"detach">>,
  skips |-> FALSE, batch |-> FALSE, paged |-> FALSE, importable |-> FALSE]

Unused == [Attachment EXCEPT !.create = <<>>, !.update = <<>>, !.delete = <<>>]

\* Create adds the members to those the group has; each name is looked up when
\* its turn comes.
GroupMemberships == [Attachment EXCEPT !.create = <<"attach", "claim", "read">>, !.paged = TRUE]

DefaultGroups == [Attachment EXCEPT !.create = <<"attach", "claim">>, !.importable = TRUE]

\* SetId comes first, additions before removals; Delete removes every default
\* role, the built in ones too.
DefaultRoles == [Attachment EXCEPT
  !.create = <<"claim", "list", "compare", "attach", "detach", "read">>,
  !.update = <<"claim", "list", "compare", "attach", "detach", "read">>,
  !.delete = <<"list", "detach">>,
  !.batch = TRUE, !.importable = TRUE]

\* Scopes have names; the ids are asked for before the first call of each loop.
Scopes == [Attachment EXCEPT
  !.create = <<"list", "resolveSurplus", "detach", "resolveMissing", "attach", "claim", "read">>,
  !.update = <<"list", "resolveSurplus", "detach", "resolveMissing", "attach", "claim", "read">>,
  !.delete = <<"resolveSurplus", "detach">>]

\* Mutant: missing scopes are attached before others are detached.
AttachFirst == [Scopes EXCEPT
  !.create = <<"list", "resolveMissing", "verify", "attach", "resolveSurplus", "detach", "claim", "read">>,
  !.update = <<"list", "resolveMissing", "verify", "attach", "resolveSurplus", "detach", "claim", "read">>,
  !.skips = TRUE]

\* Default and optional scopes of a client: the other list is looked at before
\* anything is attached.
ClientScopes == [Scopes EXCEPT
  !.create = <<"list", "resolveSurplus", "detach", "resolveMissing", "verify", "attach", "claim", "read">>,
  !.update = <<"list", "resolveSurplus", "detach", "resolveMissing", "verify", "attach", "claim", "read">>,
  !.skips = TRUE]

\* Keycloak adds a scope to new clients that the configuration may not list.
SamlClientDefaultScopes == [Scopes EXCEPT
  !.create = <<"resolveMissing", "attach", "claim", "try", "organization", "read">>,
  !.skips = TRUE]

RealmClientScopes == Scopes

Kinds == {
  <<GroupMemberships, Unused>>, <<DefaultGroups, Unused>>, <<DefaultRoles, Unused>>,
  <<ClientScopes, ClientScopes>>, <<SamlClientDefaultScopes, Unused>>,
  <<RealmClientScopes, RealmClientScopes>>}
-----------------------------------------------------------------------------
Resources == {1, 2}
Other(r) == 3 - r
Used(r) == kinds[r].create # <<>>

\* What the running operation wants the set to be.
Wanted(r) == IF op[r] = "create" THEN conf[r].items ELSE IF op[r] = "update" THEN state[r].items ELSE {}
Surplus(r) == seen[r] \ Wanted(r)
Missing(r) == Wanted(r) \ seen[r]
Organization == CHOOSE i \in Items : \A j \in Items : j <= i

None == [known |-> FALSE, tainted |-> FALSE, items |-> {}]
Configurations == [want : BOOLEAN, items : SUBSET Items]
Disjoint(c) == c[1].items \cap c[2].items = {}

Init ==
  /\ kinds \in Kinds
  /\ existing = Items
  /\ attached \in {a \in [Resources -> SUBSET Items] : a[1] \cap a[2] = {} /\ (Used(2) \/ a[2] = {})
       /\ Cardinality(a[2]) <= Cardinality(a[1])}
  /\ conf \in {c \in [Resources -> Configurations] :
       /\ Disjoint(c) /\ c[2].want = Used(2) /\ (Used(2) \/ c[2].items = {})
       /\ c[1].want \/ (c[1].items = {} /\ ~Used(2))}
  /\ state \in {[r \in Resources |-> None],
       [r \in Resources |-> [known |-> Used(r), tainted |-> FALSE, items |-> attached[r]]]}
  /\ op = [r \in Resources |-> "idle"] /\ todo = [r \in Resources |-> <<>>]
  /\ seen = [r \in Resources |-> {}] /\ others = [r \in Resources |-> {}]
  /\ page = [r \in Resources |-> 0]
  /\ outcome = [r \in Resources |-> "none"]
  /\ events = 0

Set(f, r, x) == f' = [f EXCEPT ![r] = x]
Event == events < MaxEvents /\ events' = events + 1
Fault(r) == Event /\ Set(outcome, r, "none")
NoFault == UNCHANGED <<events, outcome>>
Quiet == UNCHANGED <<kinds, existing, conf>>

At(r, i) == todo[r] # <<>> /\ Head(todo[r]) = i
Advance(r) == Set(todo, r, Tail(todo[r])) /\ UNCHANGED op
Enter(r, o, program) == Set(op, r, o) /\ Set(todo, r, program)

\* The state an error leaves: nothing or a tainted resource after Create, the plan
\* after Update, what there was after Delete.
Stops(r) ==
  /\ Enter(r, "idle", <<>>)
  /\ Set(seen, r, {}) /\ Set(others, r, {}) /\ Set(page, r, 0)
  /\ Set(state, r, [state[r] EXCEPT !.tainted = @ \/ (op[r] = "create" /\ state[r].known)])
-----------------------------------------------------------------------------
(* Listing: at once, or page by page until a page is empty.  A page is a   *)
(* range of positions: who leaves between two pages moves the others up.   *)

Rank(S, i) == Cardinality({j \in S : j < i})
Page(S, first) == {i \in S : first <= Rank(S, i) /\ Rank(S, i) < first + PageSize}
Before(r) == IF page[r] = 0 THEN {} ELSE seen[r]

\* What a listing finds is what the operation goes on with, or, in Read, what the
\* state knows.
Found(r, items) ==
  /\ Set(page, r, 0) /\ Set(todo, r, Tail(todo[r]))
  /\ IF Head(todo[r]) = "read"
       THEN Set(seen, r, {}) /\ Set(state, r, [state[r] EXCEPT !.items = items])
       ELSE Set(seen, r, items) /\ UNCHANGED state

\* Mutant: the first page is taken for all.
FirstPageListed(r) ==
  Found(r, IF kinds[r].paged THEN Page(attached[r], 0) ELSE attached[r])

Listed(r) ==
  IF kinds[r].paged /\ Page(attached[r], page[r]) # {}
    THEN /\ Set(seen, r, Before(r) \cup Page(attached[r], page[r]))
         /\ Set(page, r, page[r] + PageSize) /\ UNCHANGED <<todo, state>>
    ELSE Found(r, IF kinds[r].paged THEN Before(r) ELSE attached[r])

List(r) ==
  /\ At(r, "list") \/ At(r, "read")
  /\ \/ Listed(r) /\ NoFault /\ UNCHANGED <<op, others>>
     \/ Fault(r) /\ Stops(r)
  /\ UNCHANGED attached /\ Quiet

\* The look at a new SAML client: if it fails, Create goes on.
Try(r) ==
  /\ At(r, "try")
  /\ \/ Set(seen, r, attached[r]) /\ Set(state, r, [state[r] EXCEPT !.items = attached[r]]) /\ NoFault
     \/ Fault(r) /\ Set(seen, r, Wanted(r)) /\ UNCHANGED state
  /\ Advance(r) /\ UNCHANGED <<attached, others, page>> /\ Quiet

\* SetId
Claim(r) ==
  /\ At(r, "claim")
  /\ Set(state, r, [known |-> TRUE, tainted |-> FALSE, items |-> Wanted(r)])
  /\ Advance(r) /\ NoFault
  /\ UNCHANGED <<attached, seen, others, page>> /\ Quiet
-----------------------------------------------------------------------------
(* Writing                                                                 *)

\* One call, with some items; the answer may be an error before or after the
\* effect.
Write(r, after, handled) ==
  \/ Set(attached, r, after) /\ Set(seen, r, handled) /\ NoFault /\ UNCHANGED <<todo, op, state, others, page>>
  \/ attached' \in {attached, [attached EXCEPT ![r] = after]} /\ Fault(r) /\ Stops(r)

\* The items a call may be about: any one that is left, or all of them.
Calls(r, items) == IF kinds[r].batch THEN {items} ELSE {{i} : i \in items}

\* An item that is no longer there when its turn comes.
Refuse(r, items) ==
  /\ items \ existing # {}
  /\ Stops(r) /\ Set(outcome, r, "none") /\ UNCHANGED <<attached, events>>

\* Mutant: one name that matches no scope ends the loop.
UnmatchedAll(items) == IF items \subseteq existing THEN {} ELSE items

\* The names that match no scope.
Unmatched(items) == items \ existing

\* The ids of some scopes are asked for; the rest of the operation takes what is
\* not there for done, or does not take place.
Lookup(r, items, handled) ==
  \/ /\ kinds[r].skips \/ Unmatched(items) = {}
     /\ Set(seen, r, handled) /\ Advance(r) /\ NoFault /\ UNCHANGED <<state, others, page>>
  \/ ~kinds[r].skips /\ Refuse(r, items)
  \/ Fault(r) /\ Stops(r)

Resolve(r) ==
  /\ \/ At(r, "resolveSurplus") /\ Lookup(r, Surplus(r), seen[r] \ Unmatched(Surplus(r)))
     \/ At(r, "resolveMissing") /\ Lookup(r, Missing(r), seen[r] \cup Unmatched(Missing(r)))
  /\ UNCHANGED attached /\ Quiet

Detach(r) ==
  /\ At(r, "detach")
  /\ \/ Surplus(r) = {} /\ Advance(r) /\ NoFault /\ UNCHANGED <<attached, state, seen, others, page>>
     \/ \E call \in Calls(r, Surplus(r)) :
          call # {} /\ call \subseteq existing /\ Write(r, attached[r] \ call, seen[r] \ call)
     \/ Refuse(r, Surplus(r))
  /\ Quiet

\* The other list of the same client.
Verify(r) ==
  /\ At(r, "verify")
  /\ \/ Set(others, r, attached[Other(r)]) /\ Advance(r) /\ NoFault /\ UNCHANGED <<seen, page, state>>
     \/ Fault(r) /\ Stops(r)
  /\ UNCHANGED attached /\ Quiet

\* Keycloak has a scope in one list at most: an attempt to put it in the second is
\* passed over, or refused by the realm.
Attached(r, call) == attached[r] \cup (call \ attached[Other(r)])
Taken(r) == others[r] \cup (IF kinds[r] = RealmClientScopes THEN attached[Other(r)] ELSE {})

Attach(r) ==
  /\ At(r, "attach")
  /\ \/ Missing(r) = {} /\ Advance(r) /\ NoFault /\ UNCHANGED <<attached, state, seen, others, page>>
     \/ \E call \in Calls(r, Missing(r) \ others[r]) :
          call # {} /\ call \subseteq existing /\ Write(r, Attached(r, call), seen[r] \cup call)
     \/ Refuse(r, Missing(r) \ others[r])
     \/ /\ Missing(r) \cap Taken(r) # {}
        /\ Stops(r) /\ UNCHANGED <<attached, events>>
        /\ Set(outcome, r, IF outcome[r] = "calm" THEN "refused" ELSE "none")
  /\ Quiet

\* Nothing more to do if the roles are those configured, and listed in the order in
\* which the configuration has them; otherwise each is looked up first.
Compare(r) ==
  /\ At(r, "compare")
  /\ \/ seen[r] = Wanted(r) /\ Set(todo, r, <<>>) /\ Set(seen, r, {}) /\ NoFault /\ UNCHANGED <<op, others, page, state>>
     \/ Advance(r) /\ NoFault /\ UNCHANGED <<seen, others, page, state>>
     \/ Fault(r) /\ Stops(r)
  /\ UNCHANGED attached /\ Quiet

\* The scope Keycloak has added, if it is not configured.
DetachOrganization(r) ==
  /\ At(r, "organization")
  /\ \/ /\ Organization \in Surplus(r)
        /\ \/ /\ Set(attached, r, attached[r] \ {Organization}) /\ NoFault
              /\ Advance(r) /\ UNCHANGED <<state, seen, others, page>>
           \/ attached' \in {attached, [attached EXCEPT ![r] = @ \ {Organization}]} /\ Fault(r) /\ Stops(r)
     \/ Refuse(r, Surplus(r) \cap {Organization})
     \/ Organization \notin Surplus(r) /\ Advance(r) /\ NoFault /\ UNCHANGED <<attached, state, seen, others, page>>
  /\ Quiet
-----------------------------------------------------------------------------
(* Terraform                                                               *)

Begin(r, o, program, listed) ==
  /\ Enter(r, o, program) /\ Set(seen, r, listed) /\ Set(others, r, {})
  /\ UNCHANGED <<attached, events, page>> /\ Quiet

\* A run starts with Read.
Refresh(r) ==
  /\ op[r] = "idle" /\ Used(r)
  /\ Begin(r, "refresh", IF state[r].known THEN <<"read">> ELSE <<>>, {})
  /\ Set(outcome, r, "calm") /\ UNCHANGED state

Plan(r, o, program, listed) == op[r] = "refresh" /\ todo[r] = <<>> /\ Begin(r, o, program, listed)

PlanCreate(r) ==
  /\ conf[r].want /\ ~state[r].known
  /\ Plan(r, "create", kinds[r].create, {}) /\ UNCHANGED <<state, outcome>>
PlanUpdate(r) ==
  /\ conf[r].want /\ state[r].known /\ ~state[r].tainted /\ conf[r].items # state[r].items
  /\ Set(state, r, [state[r] EXCEPT !.items = conf[r].items])
  /\ Plan(r, "update", kinds[r].update, {}) /\ UNCHANGED outcome
\* (A tainted resource is destroyed; the next run creates it.)
PlanDelete(r) ==
  /\ state[r].known /\ (~conf[r].want \/ state[r].tainted)
  /\ Plan(r, "delete", kinds[r].delete, state[r].items) /\ UNCHANGED <<state, outcome>>
PlanNothing(r) ==
  /\ IF conf[r].want THEN state[r].known /\ ~state[r].tainted /\ conf[r].items = state[r].items ELSE ~state[r].known
  /\ Plan(r, "idle", <<>>, {}) /\ Set(outcome, r, "none") /\ UNCHANGED state

Applied(r) ==
  /\ op[r] \in {"create", "update", "delete"} /\ todo[r] = <<>>
  /\ Begin(r, "idle", <<>>, {})
  /\ Set(state, r, IF op[r] = "delete" THEN None ELSE state[r])
  /\ Set(outcome, r, IF outcome[r] = "calm" THEN op[r] ELSE "none")

Step(r) ==
  \/ Refresh(r) \/ PlanCreate(r) \/ PlanUpdate(r) \/ PlanDelete(r) \/ PlanNothing(r)
  \/ List(r) \/ Try(r) \/ Claim(r) \/ Resolve(r) \/ Detach(r) \/ Verify(r) \/ Attach(r)
  \/ Compare(r) \/ DetachOrganization(r) \/ Applied(r)
-----------------------------------------------------------------------------
(* Everyone else                                                           *)

Disturbs == Event /\ outcome' = [r \in Resources |-> "none"]

Edit ==
  /\ Disturbs
  /\ \E r \in Resources : Used(r) /\ op[r] = "idle" /\ conf' \in {[conf EXCEPT ![r] = c] : c \in Configurations}
  /\ Disjoint(conf')
  /\ UNCHANGED <<kinds, existing, attached, state, local>>

Import(r) ==
  /\ Disturbs /\ kinds[r].importable /\ op[r] = "idle" /\ conf[r].want /\ ~state[r].known
  /\ Set(state, r, [None EXCEPT !.known = TRUE])
  /\ UNCHANGED <<kinds, existing, attached, conf, local>>

AdminAttaches ==
  /\ Disturbs
  /\ \E r \in Resources, i \in existing :
       Used(r) /\ i \notin attached[Other(r)]
         /\ attached' \in {[attached EXCEPT ![r] = @ \cup {i}], [attached EXCEPT ![r] = @ \ {i}]}
  /\ UNCHANGED <<kinds, existing, conf, state, local>>

\* (A deleted user moves the members on the next pages up: one of them may be missed.)
ItemDeleted ==
  /\ Event /\ outcome' = [r \in Resources |-> IF kinds[r].paged THEN "none" ELSE outcome[r]]
  /\ \E i \in existing :
       existing' = existing \ {i} /\ attached' = [r \in Resources |-> attached[r] \ {i}]
  /\ UNCHANGED <<kinds, conf, state, local>>

Next == (\E r \in Resources : Step(r) \/ Import(r)) \/ Edit \/ AdminAttaches \/ ItemDeleted

Spec == Init /\ [][Next]_vars

\* Each resource is applied again and again, and a started operation goes on.
FairSpec == Spec /\ \A r \in Resources : WF_vars(Step(r))
-----------------------------------------------------------------------------
\* An item is in one of the two lists at most; what is tainted is in the state.
TypeOK ==
  /\ kinds \in Kinds /\ existing \subseteq Items
  /\ attached \in [Resources -> SUBSET existing] /\ attached[1] \cap attached[2] = {}
  /\ conf \in [Resources -> Configurations]
  /\ state \in [Resources -> [known : BOOLEAN, tainted : BOOLEAN, items : SUBSET Items]]
  /\ op \in [Resources -> {"idle", "refresh", "create", "update", "delete"}]
  /\ seen \in [Resources -> SUBSET Items] /\ others \in [Resources -> SUBSET Items]
  /\ page \in [Resources -> Nat]
  /\ outcome \in [Resources -> {"none", "calm", "refused", "create", "update", "delete"}]
  /\ events \in 0 .. MaxEvents
  /\ \A r \in Resources : state[r].tainted => state[r].known

\* A run that nobody disturbed leaves at least the configured set, and nothing else
\* if it is an update, or a Create of default roles, which looks at what is there.  A
\* scope of the realm that was in the other list is passed over.
AppliedExact ==
  \A r \in Resources : outcome[r] \in {"create", "update"} /\ kinds[r] # RealmClientScopes =>
    /\ conf[r].items \cap existing \subseteq attached[r]
    /\ outcome[r] = "update" \/ kinds[r] = DefaultRoles => attached[r] = conf[r].items \cap existing

\* What docs/resources/openid_client_default_scopes.md:16-18 says of the scopes that
\* Keycloak gives a client and the configuration does not list: after the resource has
\* been created "a following run of `terraform plan` will result in changes", that is
\* Create leaves them attached.
CreateLeavesOthersAttached ==
  [][\A r \in Resources :
       kinds[r] = ClientScopes /\ op[r] = "create" /\ outcome[r] = "calm" /\ events' = events
         => attached[r] \subseteq attached'[r]]_vars

\* A destroyed resource leaves nothing attached that it knew of, and no default role
\* at all.
DestroyedIsDetached ==
  [][\A r \in Resources : outcome'[r] = "delete" /\ outcome[r] # "delete" =>
       attached'[r] \cap (IF kinds[r] = DefaultRoles THEN Items ELSE state[r].items) = {}]_vars

\* Two lists of scopes that exchange scopes in one run: a client refuses an item
\* that is still in its other list, but never both exchanges.
NotBothRefused == ~(outcome[1] = "refused" /\ outcome[2] = "refused")

\* Runs repeated after the last failure and the last change by others bring every
\* set to its configuration and keep it there, if the items exist and none is in an
\* other list that is no longer managed.
Settled(r) == IF conf[r].want THEN state[r].known /\ ~state[r].tainted /\ attached[r] = conf[r].items ELSE ~state[r].known
Blocked(r) ==
  \/ ~(conf[r].items \subseteq existing)
  \/ ~conf[Other(r)].want /\ conf[r].items \cap attached[Other(r)] # {}
Converges == <>[](\A r \in Resources : Used(r) => Settled(r) \/ Blocked(r))
=============================================================================
