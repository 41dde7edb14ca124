# terraform-provider-keycloak: models, checks and proofs

Terraform runs the provider as one process. It asks the provider to Read, Create,
Update and Delete the resources of a configuration, up to ten at a time
(`-parallelism`), and the provider turns each of these operations into a
sequence of HTTP calls to the admin API of a Keycloak server, over one session
that all operations share. There is no lock in `provider/` or `keycloak/`, no
transaction on the server, and the only memory between two runs is the Terraform
state. What can go wrong is what happens *between* two calls: another operation,
an administrator, an expired token, a lost answer, a failed call.

## 1. Inventory

| component | state | operations | hard behaviour | what makes it correct |
|---|---|---|---|---|
| `KeycloakClient` session (`keycloak/keycloak_client.go`, `version.go`, `error.go`) | access token, `initialLogin`, server version; shared, unlocked | `sendRequest`, `login`, `Refresh`, `Version`, `newHttpClient` | concurrent callers; procedures that call each other; expiry; lost answers; a retry policy | outcomes belong to the caller's own request; nothing is carried out twice; a call recovers from what others left; it ends |
| provider configuration (`provider/provider.go`) | the one client | `ConfigureContextFunc` | none (runs once) | - |
| role mappings and groups of a user or group (`resource_keycloak_{user_roles,group_roles,user_groups}.go`, `role_mapping_helpers.go`) | none but the state's id list and `exhaustive` | Reconcile (Create and Update), Read, Delete, Import | several calls per operation, partial failure, drift, overlapping resources, ignored errors, an import that claims everything | planned effect when undisturbed; touches only what it may; converges |
| client policy profiles and policies (`resource_keycloak_realm_client_policy_*.go`) | none | Create, Read, Update, Delete | every operation rewrites the realm's one list; the realm of an entry may be edited | lost updates: which happen, which are repaired; no created entry is forgotten |
| realm and authentication bindings | none | CRUD; bindings = read and rewrite of the realm | two resources write the whole realm document | which flows an apply leaves; repeated applies agree |
| members of a group, default groups, default roles, scopes of clients and realms | none | list, detach, attach, item by item | pages that shift, items deleted meanwhile, two lists that exclude each other, Deletes that remove what others attached | the exact set after an undisturbed apply; converges |
| every other resource: realms, events, keystores, user profile, localization, required actions, organizations; users, groups, roles; clients, scopes, role mappers, service accounts; protocol mappers; identity providers and mappers; LDAP and custom federation and mappers; flows, subflows, executions; authorization objects and permissions | none | Create, Read, Update, Delete, Import, each a fixed sequence of calls | failure between two calls; lost answers; a DELETE sent again; a Read that takes an error for absence; adoption of existing objects; attributes with calls of their own | applied means agreed; a plan with nothing to do is true; nothing is orphaned, forgotten, or created twice but for the reasons listed; converges |
| helpers (durations, `extra_config`, attribute maps) | none | pure | boundaries | agreement with the unit tests |
| data sources | none | single reads | none | - |

The resources interact through the session (each call is a `sendRequest`),
through the objects they share in Keycloak, and through Terraform, which decides
from the result of Read what to run. `PROJECT.json` lists every component with
its files and every hazard with its line.

## 2. Modules

| module | models |
|---|---|
| `KeycloakSession` | the session: `sendRequest`, `login`, `Refresh`, `Version`, `newHttpClient` |
| `KeycloakSession_proofs` | its invariant and its safety properties, proved |
| `AssignmentContract` | abstract: what a resource may do to the items assigned to one owner |
| `AssignmentReconcile` | `keycloak_user_roles`, `keycloak_group_roles`, `keycloak_user_groups`: detailed, refines the contract |
| `AssignmentReconcile_proofs` | its invariant, its refinement, proved |
| `ClientPolicies` | `keycloak_realm_client_policy_profile` and `..._profile_policy` |
| `ClientPolicies_proofs` | its invariants and its action property, proved |
| `RealmDocument` | `keycloak_realm` and `keycloak_authentication_bindings` rewriting one realm |
| `RealmDocument_proofs` | its invariant and its safety properties, proved |
| `SetAttachments` | `keycloak_group_memberships`, `keycloak_default_groups`, `keycloak_default_roles`, `keycloak_openid_client_{default,optional}_scopes`, `keycloak_saml_client_default_scopes`, `keycloak_realm_{default,optional}_client_scopes` |
| `SetAttachments_proofs` | its invariant and its safety properties, proved |
| `ResourceKind` | how a resource type is described: what becomes of each attribute, which calls each operation makes |
| `ResourceLifecycle` | one resource of any type, under failures, edits, imports and administrators |
| `ResourceLifecycle_proofs` | its invariant and its safety properties, proved for any set of types |
| `AppliedAgrees_proofs` | one more, `AppliedAgrees`, with the invariant it needs |
| `RealmKinds`, `DirectoryKinds`, `ClientKinds`, `ProtocolMapperKinds`, `IdentityProviderKinds`, `FederationKinds`, `AuthenticationKinds`, `AuthorizationKinds` | the 79 resource types, one record each |
| `MCSession`, `MCAssignment`, `MCClientPolicies`, `MCRealmDocument`, `MCAttachments`, `MCLifecycle` | instances for TLC |

`KeycloakSession` and the resource modules are not composed: a resource module
sees a call as one step that succeeds, fails without effect, or fails after its
effect, and `KeycloakSession` shows that this is what `sendRequest` offers
(`OutcomeTruthful`, `AppliedAtMostOnce`, `Terminates`).

What all resource modules share is the Terraform plugin SDK, modelled from its use:
a run refreshes, plans, applies; an error of Create before `SetId` leaves no state,
after it a tainted one, which the next run destroys and creates again; an error of
Update leaves the planned values; an error of Delete leaves the state as it was; an
error of Read ends the run. A call whose answer is lost has had its effect.

### KeycloakSession

An operation is a goroutine. Because the Go procedures call each other
(`sendRequest -> login -> GetServerInfo -> sendRequest -> Refresh -> login`), each
operation has a stack of frames and a last returned value; an action is the code
between two points at which another goroutine can be seen or can see something: an
HTTP exchange, an access to the shared fields. So the test of `initialLogin`
(`TestInitialLogin`) and its setting (`DelayedLogin`) are two, and two operations may
both log in. `accessToken` is a pair because a
Go string is two words and is written without synchronisation: a reader may see
the pointer of one token with the length of another. What such a torn string
does is a choice: `Transmit` sends junk, `LocalError` has net/http refuse the
header, `Crash` (possible only with a nil pointer, that is, next to an empty token)
ends the process. `TokenType` and `RefreshToken` are left out: the first is stored
and read next to the access token, the second is never read.

Answers are abstracted to what the code tells apart (see the comment above
`Status`). `RetryPolicy` and `newHttpClient` are modelled as written: the policy
is configured on a client whose transport is then replaced, so `Resends` is never
true, and finding 1 and the mutant of `AppliedAtMostOnce` turn on that. The
environment issues, expires and refuses tokens, answers, fails and loses answers.
An answer that is lost because of `httpClient.Timeout` may belong to a request the
server carries out later; the model decides at once whether it was carried out.

`disturbed` is a history variable: an operation is disturbed when a fault of the
environment meets it, when it reads a torn token, or when another operation
stores a dead token while it runs. `CallRecovers` speaks of the others.

### AssignmentReconcile and AssignmentContract

One owner (a user or a group), the set `remote` of items Keycloak has assigned to
it, and several resources that manage that owner, each going round
"terraform apply": `Refresh` (Read), `Plan*`, then `Reconcile` or `Delete`; `Import`
may put it in the state. `kind`, one of `Kinds` in each behaviour, selects the resource type
where the code differs:

| step (`pc`) | code |
|---|---|
| `reconcile` | owner looked up, dropped items (`old \ new`) resolved; `user_groups` does neither |
| `drop` | calls that remove the dropped items, one batch at a time |
| `compare` | configured roles resolved; assigned items read; differences computed (`ToAdd`, `ToRemove`) |
| `add`, `prune` | calls that add, and, if exhaustive, remove the rest |
| `delete`, `unassign` | Delete: recorded items resolved, and removed |

A batch is what one HTTP call handles: all realm roles, then the roles of one
client after the other in Go's map order; one group at a time. The ignored errors of
`GetUserRoleMappings` and of `GetUser` in Delete lead to `Panic`: the process dies
with all running operations, and the state stays as it was. `exhaustive` is an
attribute like the items: it is configured, edited, planned and recorded. Import
sets it to true, whatever is configured, and Read then records all that is assigned;
so the first apply of a non-exhaustive configuration sees the rest as dropped and
revokes it. Simplifications: the GETs of one `getExtendedRoleMapping` are one step, and
so are the two of Read; `want = FALSE` followed by `want = TRUE` stands for a
replacement.

`AssignmentContract` says which items a resource may grant and revoke, from what it
owns. It comes to own an item by being configured with it, or all that is assigned by
an exhaustive apply or an import (`authority`), and in no other way. The refinement
maps `pc` to the phase (`Phase`), the recorded items to `owned`, the recorded
`exhaustive` to `authority` and everything else to itself.

### ClientPolicies

The lists of all realms are one function from places (a realm and a name) to
contents (`Absent` for no entry); a resource has one name and may be moved to another
realm, for `realm_id` is not a reason to replace it. `GetAll` copies the list of the
planned realm, `PutAll` writes the edited copy back. Create appends, and Keycloak refuses a
name that is there twice (`Refused`); Update replaces the entry if it is there, and
otherwise writes the list as it is; Delete filters the entry out. Read takes the
value of an entry it finds and notices nothing if there is none. `Policies` are the
resources that are policies: a change of their `profiles` replaces them (`Revalued`), a
change of anything else is an Update, and the one value a content stands for may be
either. So a resource whose
realm is edited leaves its entry in the old realm, has none in the new one, and no plan
says so. Create sets the id first, so a failed Create leaves a tainted resource. A
replacement is a delete in one run and a create in the next. That Keycloak checks the
profiles a policy names is a call that fails.

History variables: `rival` (the list changed between an operation's read and its
write), `strayed` (places whose entry someone else created or removed), `authored`
(places whose entry the resource created), `moved` (resources whose realm was edited).

### RealmDocument

The realm in Keycloak (`doc`) is a setting and the flow bindings. Update of
`keycloak_realm` writes the document from its plan; Create, Update and Delete of
`keycloak_authentication_bindings` read it (`GetRealm`), set or reset the flows, and
write it (`PutRealm`). Both resources have the flows as optional, computed attributes: what
is not configured keeps, in the plan, the value that Read found (finding 4). The configuration of
the flows is in one of the two, as the docs ask, and an edit may move it. `ordered`
says whether the bindings refer to the realm resource, so that Terraform runs one after
the other; otherwise the steps interleave. `settled` is history: the flows that were as
configured when the run was planned. Creation and deletion of the realm are in
`ResourceLifecycle`.

### SetAttachments

Two resources run concurrently; the second is the other list of scopes of the same
client or realm, or is not used. A resource type is a record: the steps of its Create,
Update and Delete, whether a name that matches nothing is passed over (`skips`), whether
all items go in one call (`batch`), whether the list is read by pages (`paged`). The
steps are listing (`List`, page by page of `PageSize` members), `Resolve` (the ids of all
the scopes a loop is about, asked for once, before it), `Detach`, `Verify` (the
other list of a client), `Attach`, `Compare`, `Claim` (SetId) and `Try` and
`DetachOrganization` of the SAML scopes. Each item is one call, in any order; one that is
deleted between `Resolve` and its call ends the operation with an error (`Refuse`).
`Compare` of the default roles compares lists: the same roles in another order are not
the same, and the operation goes on, with nothing to add or to remove.
What the module brings out: Create of client scopes detaches at once what Keycloak gave the
client (finding 5); Create of memberships, default groups and SAML scopes only
adds; Delete of the default roles removes all of them; a user deleted between two
pages moves the others up, so that a member that should go is missed until the next
run; a scope that the other list still has is refused by the client's check, passed
over by Keycloak if it arrives after the check, and refused by the realm.

### ResourceKind, ResourceLifecycle and the Kinds

Most resource files are the same kind of program, so the types are data and the
lifecycle is written once. A record of `ResourceKind` puts each attribute in a class
(is it part of the URL, sent by POST, by PUT, by a call of its own, read, read only if it
is in the state, ...), says which attributes are optional and computed (`computed`: taken out
of the configuration they plan no change, `Told`), and gives Create, Update, Delete and the adopting Create
(`import = true`) as sequences of instructions in the order of the code: `check`,
`guard`, `post`, `record` (SetId), `put`, `part`, `read`, `delete`, `again`, ... It also says what Read
does when the object, or an object it looks up, is gone. `IsResource` is what every
record must satisfy: Read is a program's last call, one call at most gives Create
its object, `SetId` comes after it and the look for a namesake before it (`IsProgram`,
`IsCreate`, `IsUpdate`, `IsDelete`), and of each class of attribute some call brings the
value that is configured to Keycloak, with none after it that takes it away (`IsComplete`). The Kinds modules were written
from each file's schema, its mapping functions and its four operations: an attribute
that the mapping function forgets, a `SetId` that comes late or early, a dropped error are
visible in the record.

`ResourceLifecycle` watches one attribute with two values, 0 (absent, or Keycloak's
default) and 1, of one resource; `Shape` keeps of a type what matters then, so TLC
explores 117 different shapes instead of one per attribute. `Call` is one API call:
carried out and answered, refused, failed before or after its effect. `Glance`, `Wipe`,
`Delete`/`Again` and `Misreads` are the calls whose errors the code handles in its own way.
`objects` holds what Keycloak has under the resource's name, by id, also objects
of others (`mine` is history); `peer` is an object that it refers to. `unique` says
whether Keycloak refuses a second object of the name. `outcome` is history: how the last
run went if nothing disturbed it. So is `lost`: the answer to a creating call was lost, or a
call failed that the type makes between it and `SetId` (`Slips`), so that an object may be left
behind.

## 3. Runs

| run | instance | shows |
|---|---|---|
| `session_calls` | a request beside one that is always forbidden, or beside `Version()`, which logs in outside `sendRequest`; 1 fault | type invariant; no request is carried out twice; the outcome is that of the caller's request; an undisturbed call succeeds; every call ends |
| `assignment_exhaustive` | `keycloak_user_roles` or `keycloak_user_groups`, 1 resource, exhaustive at first, 3 items (for roles: of the realm and of two clients), 2 failures, 1 manual change, 2 edits or imports | effect of apply and destroy, the two inductive invariants of the proofs, contract, convergence |
| `group_roles_shared` | 2 resources on one group, non-exhaustive at first, 2 roles, 1 failure, 1 edit or import | the same with overlapping resources; initial configurations may overlap or not |
| `client_policies` | 2 resources, one with a name that is possible in two realms, 2 contents, 2 events (failures, edits, manual changes) | no created entry gets out of sight but by a move; other entries are harmed only by a rollback; rolled-back values are repaired |
| `realm_document` | 2 flows, configured in either resource, ordered or not, 2 events | an apply leaves what is configured unless the two write at once; destroyed bindings leave the built in flows; a flow that was as configured is never taken away on the way; convergence |
| `set_attachments` | all 6 pairs of types, 2 items, pages of 1, 1 event | an undisturbed apply leaves at least the configured set, and exactly it after an update; destroyed is detached; two lists that exchange scopes never both refuse; convergence |
| `resource_lifecycle` | all 79 types (3 of them once more with `import = true`), every class of attribute, 2 events | `AppliedAgrees`, `EmptyPlanTruthful`, `OrphansExplained`, `NoSecondCopy`, `NeverForgetsExisting`, `ImportKeeps`, convergence |
| `session_server_error`, `session_refresh_refused`, `client_policies_lost_create`, `realm_flow_defaults`, `client_scopes_create` | small | the five findings: TLC finds the violation |

The type invariant is a property of two runs only, those in which a plausible fault of the
code breaks it; the others are proved (section 5) and not listed.

**Bounds.** `MaxFaults`, `MaxManual`, `MaxEdits` and `MaxEvents` bound the
environment, not the program; `MaxTokens = 9` is never reached (`TokenIssued` would
be disabled, and `Terminates` would fail); `Ids = 1 .. 6` is enough for every object
two events can leave behind (a creating call waits for a free id, so running out of
them would be a deadlock, which TLC looks for). Two operations
suffice for the session because all they share are the fields of one client and every
interference is pairwise; likewise two resources for a list or a document. Two
failures let a second one meet the recovery from the first. Three items
in three containers are the least that distinguish the two loops of
`calculateRoleMappingUpdates` (a realm role, a client of which a role is requested,
another of which none is). Two items and pages of one are the least at which a page
shifts; an exchange of scopes needs two. Larger instances that were
checked once: `resource_lifecycle` and `realm_document` with 3 events (598 thousand and 1.1
million states), `client_policies` with 3 (3.0 million), the safety of `set_attachments` with 2
events (2.7 million) and of `session_calls` with 2 faults (2.8 million). For safety
the bounds do not matter: it is proved (section 5).

**Symmetry by hand.** `MCInit` of `MCClientPolicies` starts with nothing configured as the second of the two
contents, which no step tells apart, and with no entry in the second realm;
`SetAttachments` starts with the second list no longer than the first.

**Fairness.** `KeycloakSession`: weak fairness of each operation, server answer
included, because a goroutine is never stopped by the provider and
`httpClient.Timeout` (`client_timeout`, 15 seconds by default) turns silence into an
error, which is one of the answers. `AssignmentReconcile`, `ClientPolicies` and
`SetAttachments`: weak fairness of each resource's steps; `RealmDocument` and
`ResourceLifecycle`: weak fairness of the run as a whole. That is, someone runs
`terraform apply` again and again and a started run goes on, which the docs' promises
("upon the next run of `terraform apply`") presuppose. Failures, edits, imports and manual changes are never
fair. Deadlock is checked in every run.

**What convergence leaves out.** Each exception is a conjunct or disjunct with a name, and
without it TLC finds a counterexample.

- `AssignmentReconcile`: a deleted owner, a group id that no longer exists
  (`keycloak_user_groups` then fails each time, as Keycloak answers 404), and a second
  resource for the owner of an exhaustive one (`Rival`): the two undo each other for ever.
- `ClientPolicies`: entries that an operation of another resource or an administrator
  created or removed (finding 3), or that a Delete removed whose answer was lost, since Read
  does not notice it, and a resource whose realm was edited.
- `SetAttachments` (`Blocked`): an item that does not exist, and a scope that another list has
  which no resource manages any more.
- `ResourceLifecycle` (`Blocked`): the object referred to is gone; the name is taken by
  another object; there is nothing to write to, for a type that never creates; the value to
  take back is not sent when it is empty (`omitted`); a Read that fails instead of
  noticing that the object is gone. Otherwise a configured resource comes to be recorded,
  untainted and in Keycloak, whatever became of it before, with the configured value of each
  attribute Read compares, unless it is computed and not configured.

`OrphansExplained` lists how an object the provider created gets out of the state: the
answer to the creating call was lost, a call between it and `SetId` failed (users with
federated identities, roles, executions, subflows, OpenID clients with an authorization
resource, LDAP federations, realms whose token refresh fails), an update moved the URL
(an alias or a realm that is not a reason to replace), Read took an error or another missing
object for its absence (the generic role mappers), or the type does not delete.

## 4. Findings

1. `session_server_error`: the retry policy is never in force
   (`keycloak_client.go:554`).
2. `session_refresh_refused`: `Refresh` stores the body of an error as credentials
   (`keycloak_client.go:248`).
3. `client_policies_lost_create`: two profiles created in one apply, one of them lost
   for good (`resource_keycloak_realm_client_policy_profile.go:114`, `133`).
4. `realm_flow_defaults`: `docs/resources/realm.md:211-217` gives each flow of
   `keycloak_realm` a default; the code has none (optional and computed,
   `resource_keycloak_realm.go:586`), so a flow nobody configures keeps what it has.
5. `client_scopes_create`: `docs/resources/openid_client_default_scopes.md:16-18` says that
   the scopes Keycloak has given a new client are removed after a following plan; Create
   is Reconcile (`resource_keycloak_openid_client_default_scopes.go:14`) and detaches them at once.

## 5. Proofs

Each component that changes state has a module of proofs. A safety property that a run
checks is a theorem here, for any number of operations, resources, items, ids and
failures. The invariants were checked by TLC before they were proved.

`KeycloakSession_proofs` (1416 obligations) assumes `OpsAssumption` of
`KeycloakSession`: any set of operations, any number of tokens and faults.

- `SessionTypes`: `Spec => []TypeOK`, with the tokens on the wire among those issued.
- `NeverAppliedTwice`, `OutcomesTruthful`, `UndisturbedCallsSucceed`: `AppliedAtMostOnce`,
  `OutcomeTruthful`, `CallRecovers`. What a call returns has to be carried through procedures
  that call each other. The invariant is `TypeInv /\ SessionInv`, and `SessionInv` says of each
  operation what its stack looks like (`Shape`: the frames below the top wait for a call, only the bottom one
  is the caller's request), which exchanges its top frame can have (`Fits`), that the request
  has been carried out only if its last answer says so or was lost (`Carried`), and that an
  operation nobody disturbed goes on after a login or a refresh only with a live token stored
  (`Sound`). Two facts are worth knowing. The second word of the shared token is
  live whenever such an operation relies on it, so a torn header counts as a disturbance of the
  one who reads it. And only a refusal leads to a second sending, for the retry policy is never in force:
  that is why nothing is carried out twice.

`AssignmentReconcile_proofs` (873 obligations) assumes only `ConstantsAssumption` of the
module (the kinds are among the three, `Exhaustive` is a subset of `Resources`, the bounds are
naturals): any sets of items, clients and resources.

- `TypeCorrect`: `Spec => []TypeOK`. Besides the types: only existing items are
  assigned, and none to an owner that is gone.
- `ApplyCorrect`, `DestroyCorrect`: `Spec => []ApplyEffect`, `Spec => []DestroyEffect`.
  Neither is inductive, since they speak of the moment the last call has returned.
  The invariant is `IInv == TypeOK /\ StepInv /\ EffectInv`. `StepInv` bounds what each
  loop still has to do by the plan (what is pending in `drop` is dropped, in `add` is
  configured, what is surplus is not configured, and so on); it holds whatever
  interferes. `EffectInv` says, for a resource nobody disturbed since Plan, that what
  Keycloak holds and what is pending add up to the plan. One lemma per kind of step
  (`Own` for the resource that moves, `Others` and `Frame` for the rest) makes the
  invariant's preservation a case per action. The helper lemmas `ToAddIsDifference`
  and `ToRemoveIsDifference` show that the client-by-client loops compute a plain
  difference, and `BatchIsPending` that a call handles only what is pending.
- `StepsWithinPlan`, `EffectsAddUp`: `Spec => []StepInv`, `Spec => []EffectInv`.
- `Refinement`: `Spec => RefinesContract`, every step mapped to a step of the contract
  or a stutter, from `StepInv`; what ends up recorded is within what the contract lets
  a resource own.

`ClientPolicies_proofs` (822 obligations) assumes `ConstantsAssumption` of `ClientPolicies`: no two resources share
a place.

- `TypeCorrect`: `Spec => []TypeOK`.
- `RollbackOnly`: `Spec => OthersOnlyRolledBack`, from the invariant that the copy of
  an operation about to write is the list itself unless `rival` says otherwise (`CopyInv`).
- `CreatedEntriesKnown`: `Spec => []EntriesKnown`. `SightInv` strengthens it: an
  operation of a resource that was not moved works on the place in its state, and a
  Create runs only when nothing is recorded, so that no step adds an entry at another
  place of its own, and a failed Create records what it may have created.

`RealmDocument_proofs` (940 obligations) assumes `BoundsAssumption` of `RealmDocument`
(the bound is a natural): any set of flows.

- `TypeCorrect`: `Spec => []TypeOK`, with `LeftInv`: what `todo` holds is a rest of the
  program of the operation in `op`, and bindings that are updated or read are in the state.
- `AppliedCorrect`, `DestroyCorrect`, `SettledCorrect`: `AppliedAgrees`,
  `DestroyedFlowsAreBuiltIn`, `SettledFlowsKept`. They speak of the end of a run or of the document only, so
  they are not inductive. `RunInv` says, as long as nobody disturbs the run, what each part knows of the document:
  Read's result is the document (`ReadInv`); a plan differs from it only in what is
  configured, and every plan has the flows that were settled when it was made (`PlanInv`, with `FlowsPlanned` and
  `SettledInv`); if the two do not
  write at once, the bindings copy a document the realm has been written to, and what is
  written stays (`AloneInv`); Delete of the bindings has reset the flows (`ResetInv`). A step that
  fails, and everyone else's, ends `Undisturbed`, so one lemma for each step that succeeds remains.

`SetAttachments_proofs` (2513 obligations) assumes `ItemsAssumption` and
`BoundsAssumption` of `SetAttachments`: any finite set of items, any page size from one.

- `TypeCorrect`: `Spec => []TypeOK`.
- `AppliedCorrect`, `DestroyedCorrect`: `AppliedExact` and `DestroyedIsDetached`. The
  invariant has a part for each resource: `ProgramOf` (the order of the steps still ahead) and
  `SetOf`, which says for an operation nobody disturbed what it knows of the set: the pages read so far
  hold what comes before the next one (`Lists`), the listing is the set (`Knows`), what has been
  attached and detached makes up what is configured when the step is behind (`Works`, `Removes`, `Ended`).
  A name that matched nothing when it was looked up still matches nothing (`LookedUpKept`).
  That the pages cover the set is a lemma of its own (`LastPage`): if the page at a place
  is empty, every item comes before it.
- `NeverBothRefused`: `NotBothRefused`, strengthened to: at no time have both been refused or are
  going to be (`Refused`). One that saw the other still hold an item it wants had detached its own
  before it looked, so that the other sees none in its way.

`ResourceLifecycle_proofs` (2630 obligations) assumes `KindsAssumption` and `BoundsAssumption`
of `ResourceLifecycle`: any set of types that satisfy `IsResource`. TLC evaluates
`KindsAssumption` on all types of the Kinds modules, so that the theorems hold of each of them, and
of a new one whose record satisfies it.

- `TypeCorrect`: `Spec => []TypeOK`.
- `EmptyPlanCorrect`: `EmptyPlanTruthful`, from `PlanInv`: after a Refresh nobody disturbed, a resource
  that is in the state has an object in Keycloak, and what Read compares is in the state; a plan
  with nothing to do finds it recorded, untainted and as configured.
- `OneOfAName`: `NoSecondCopy`, from `SingleInv`: once the look for a namesake is behind and the
  creating call ahead, there is none (or it appeared under another's hand, and is not ours).
- `NoOrphans`: `OrphansExplained`, from `OrphanInv`: an object of ours is in the state, or is the one
  in Create's hand with `SetId` ahead (`Known`, `Recorded`); a call that fails in between sets `lost`.
- `ForgottenIsGone`, `ImportedIsKept`: the action properties `NeverForgetsExisting` and `ImportKeeps`.

The programs are data, so no case distinction over types is possible. `Progress` takes its place:
what is ahead in the program tells what has been done (if the creating call is not
ahead any more, Create has an id; if `SetId` is not, the state has one). Each call is
summarised by one of four actions: it writes or checks (`Plain`), obtains the object
(`Obtains`), removes it (`Removes`), or is someone else's doing (`Disturbs`); the parts
of the invariant are proved of these four instead of thirty instructions.

`AppliedAgrees_proofs` (957 obligations), on the same assumptions:

- `AppliedCorrect`: `Spec => []AppliedAgrees`. The property speaks of the end of a run, where nothing is left
  to look at. `RunInv` says the same of every moment of an undisturbed Create or Update in terms of the calls still
  ahead: the object is there, unless a call that ends without an error only if it is, is ahead (`ReachInv`); it
  has the configured value, unless a call that brings it is ahead with none after it that spoils it
  (`ValueInv`); `SetId` is ahead, or the state has the id and the value (`StateInv`); what Read
  looks up is there, or a look at it is ahead (`PeerInv`). At the end nothing is ahead. That a program
  starts that way is `IsComplete`; Create that merges (`import = true` of
  clients, users and roles) is not, and is left out of the property as it is of the code's promise.

Model-checked only: liveness (`Terminates`, `Converges`, `LostUpdatesHeal`), which is
out of the prover's reach.

## 6. Not modelled

- Data sources: they keep and change nothing.
- The schema and the registry of resources, formatting, logging, `SensitiveValue` and diff
  suppression but where a class of attribute stands for it.
- Pure conversions: durations, attribute maps, `extra_config`, policy strings, the search for a
  group's parent in the tree. They are covered by unit tests of the repository. (One oddity:
  `getSecondsFromDurationString` cuts fractions of a second off, `suppressDurationStringDiff`
  compares what is not cut.)
- GETs that precede an operation and decide nothing (the server's version where both versions do the
  same, a realm that is only read to be there); validations on the client's side that depend on
  the configuration alone, other than as a call that may refuse.
- The regeneration of a client secret when a watched map changes; the order of the
  executions of a flow; loops over texts and over the values of one attribute, which
  are one call.
- Two resources of `ResourceLifecycle` at once: types that share a document or a set have
  modules of their own.

## 7. Plan

Every safety property the passing runs check is proved. Hazards no property covers, since the
code does what they say and nothing in the repository promises otherwise: the roles that a
failed update has dropped but not revoked (`resource_keycloak_user_roles.go:106`), which a
non-exhaustive resource does not own any more; the entry of a client policy whose realm was
edited; and the object that is left under its name when a call fails between creation and
`SetId`. Of the last, `OrphansExplained` shows that nothing else leaves an object behind, and
`Converges` that applies recover from it when Keycloak allows a second object of the name.
