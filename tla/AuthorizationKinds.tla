-------------------------- MODULE AuthorizationKinds --------------------------
(*****************************************************************************)
(* Authorization services of a client: policies, permissions, resources,     *)
(* scopes, and the fine grained permissions Keycloak keeps with them.        *)
(*****************************************************************************)
EXTENDS ResourceKind

\* Policies: realm_id and resource_server_id are part of the URL, but their
\* schemas do not ask for a new policy when they change.
AuthorizationPolicy == [Resource EXCEPT
  !.movable = {"realm_id", "resource_server_id"}, !.update = <<"put">>]

OpenidClientAuthorizationAggregatePolicy == [AuthorizationPolicy EXCEPT
  !.synced = {"name", "decision_strategy", "logic", "policies", "description"}]

OpenidClientAuthorizationClientPolicy == [AuthorizationPolicy EXCEPT
  !.synced = {"name", "decision_strategy", "logic", "description", "clients"}]

OpenidClientAuthorizationClientScopePolicy == [AuthorizationPolicy EXCEPT
  !.synced = {"name", "decision_strategy", "logic", "description", "scope"}]

\* What is set from an answer includes the path of every group, one lookup
\* each.
OpenidClientAuthorizationGroupPolicy == [AuthorizationPolicy EXCEPT
  !.synced = {"name", "decision_strategy", "logic", "description", "groups_claim",
    "groups"},
  !.create = <<"post", "record", "check", "read">>,
  !.update = <<"put", "check">>,
  !.lookup = "fails"]

OpenidClientAuthorizationJsPolicy == [AuthorizationPolicy EXCEPT
  !.synced = {"name", "decision_strategy", "logic", "description", "code"},
  !.inert = {"type"}]

OpenidClientAuthorizationRolePolicy == [AuthorizationPolicy EXCEPT
  !.synced = {"name", "decision_strategy", "logic", "description", "role"},
  !.omitted = {"fetch_roles"},
  !.observed = {"type"}]

OpenidClientAuthorizationTimePolicy == [AuthorizationPolicy EXCEPT
  !.synced = {"name", "decision_strategy", "logic", "description", "not_before",
    "not_on_or_after", "day_month", "day_month_end", "month", "month_end", "year",
    "year_end", "hour", "hour_end", "minute", "minute_end"}]

OpenidClientAuthorizationUserPolicy == [AuthorizationPolicy EXCEPT
  !.synced = {"name", "decision_strategy", "logic", "description", "users"}]

\* Permissions, resources and scopes are replaced when either changes.
AuthorizationObject == [Resource EXCEPT
  !.address = {"realm_id", "resource_server_id"}, !.update = <<"put">>]

OpenidClientAuthorizationPermission == [AuthorizationObject EXCEPT
  !.synced = {"name", "description", "decision_strategy", "policies", "resources",
    "resource_type", "scopes", "type"}]

OpenidClientAuthorizationResource == [AuthorizationObject EXCEPT
  !.synced = {"name", "display_name", "uris", "icon_uri", "owner_managed_access",
    "scopes", "type", "attributes"}]

OpenidClientAuthorizationScope == [AuthorizationObject EXCEPT
  !.synced = {"name", "display_name", "icon_uri"}]

\* Fine grained permissions of users, a group or a client: Create and Update
\* both enable them and then write the scopes that are configured; a scope that
\* is configured no more keeps its policies.  Delete disables them, enabled or not.
Permissions == [Resource EXCEPT !.named = TRUE,
  !.create = <<"enable", "extra", "add", "extra", "record", "read">>,
  !.update = <<"enable", "extra", "add", "read">>,
  !.delete = <<"remove">>]

UsersPermissions == [Permissions EXCEPT
  !.address = {"realm_id"},
  !.sticky = {"view_scope", "manage_scope", "map_roles_scope",
    "manage_group_membership_scope", "impersonate_scope", "user_impersonated_scope"}]

\* Read of permissions that are disabled asserts that an absent scope is a
\* string.
GroupPermissions == [Permissions EXCEPT
  !.address = {"realm_id", "group_id"},
  !.sticky = {"view_scope", "manage_scope", "view_members_scope",
    "manage_members_scope", "manage_membership_scope"},
  !.gone = "fails"]

OpenidClientPermissions == [Permissions EXCEPT
  !.address = {"realm_id", "client_id"},
  !.sticky = {"view_scope", "manage_scope", "configure_scope", "map_roles_scope",
    "map_roles_client_scope_scope", "map_roles_composite_scope",
    "token_exchange_scope"}]

\* The one policy of this permission is made by the provider, and goes with it;
\* SetId is inside Read, where an answer came.
IdentityProviderTokenExchangeScopePermission == [Permissions EXCEPT
  !.address = {"realm_id", "provider_alias"},
  !.late = {"clients"},
  !.inert = {"policy_type"},
  !.create = <<"enable", "extra", "part", "extra", "record", "read">>,
  !.update = <<"enable", "extra", "part", "read">>,
  !.delete = <<"extra", "wipe", "remove">>]

AuthorizationObjects == {
  OpenidClientAuthorizationAggregatePolicy, OpenidClientAuthorizationClientPolicy,
  OpenidClientAuthorizationClientScopePolicy, OpenidClientAuthorizationGroupPolicy,
  OpenidClientAuthorizationJsPolicy, OpenidClientAuthorizationRolePolicy,
  OpenidClientAuthorizationTimePolicy, OpenidClientAuthorizationUserPolicy,
  OpenidClientAuthorizationPermission, OpenidClientAuthorizationResource,
  OpenidClientAuthorizationScope, UsersPermissions, GroupPermissions,
  OpenidClientPermissions, IdentityProviderTokenExchangeScopePermission}
=============================================================================
