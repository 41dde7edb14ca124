--------------------------- MODULE FederationKinds ---------------------------
(*****************************************************************************)
(* User federation: LDAP and custom providers, and the mappers of LDAP       *)
(* (provider/resource_keycloak_ldap_*.go and two others).                    *)
(*****************************************************************************)
EXTENDS ResourceKind

\* Mappers are components below a federation; most are written without a look at
\* anything else.  ...Config is what the component's configuration carries.
LdapMapper == [Resource EXCEPT
  !.address = {"realm_id", "ldap_user_federation_id"}, !.update = <<"put">>]

HardcodedAttributeMapperConfig == {"attribute_name", "attribute_value"}
HardcodedAttributeMapper == [LdapMapper EXCEPT
  !.fixed = HardcodedAttributeMapperConfig,
  !.synced = {"name"}]

LdapHardcodedAttributeMapperConfig == {"attribute_name", "attribute_value"}
LdapHardcodedAttributeMapper == [LdapMapper EXCEPT
  !.fixed = LdapHardcodedAttributeMapperConfig,
  !.synced = {"name"}]

LdapHardcodedGroupMapperConfig == {"group"}
LdapHardcodedGroupMapper == [LdapMapper EXCEPT
  !.fixed = LdapHardcodedGroupMapperConfig,
  !.synced = {"name"}]

LdapHardcodedRoleMapperConfig == {"role"}
LdapHardcodedRoleMapper == [LdapMapper EXCEPT
  !.fixed = LdapHardcodedRoleMapperConfig,
  !.synced = {"name"}]

\* (A key that is taken out of config is no more sent, and stays.)
LdapCustomMapperConfig == {"config"}
LdapCustomMapper == [LdapMapper EXCEPT
  !.fixed = {"provider_id", "provider_type"},
  !.synced = {"name"},
  !.omitted = LdapCustomMapperConfig]

\* The federation is read before each write: only a writable one has mappers
\* that write only.
LdapFullNameMapperConfig == {"ldap_full_name_attribute", "read_only", "write_only"}
LdapFullNameMapper == [LdapMapper EXCEPT
  !.synced = {"name"} \cup LdapFullNameMapperConfig,
  !.create = <<"check", "post", "record", "read">>,
  !.update = <<"check", "put">>]

LdapGroupMapperConfig == {
  "ldap_groups_dn", "group_name_ldap_attribute", "group_object_classes",
  "preserve_group_inheritance", "ignore_missing_groups",
  "membership_ldap_attribute", "membership_attribute_type",
  "membership_user_ldap_attribute", "mode", "user_roles_retrieve_strategy",
  "memberof_ldap_attribute", "mapped_group_attributes",
  "drop_non_existing_groups_during_sync", "groups_path"}
LdapGroupMapper == [LdapMapper EXCEPT
  !.synced = {"name"} \cup LdapGroupMapperConfig,
  !.omitted = {"groups_ldap_filter"},
  !.computed = {"groups_path"}]

LdapRoleMapperConfig == {
  "ldap_roles_dn", "role_name_ldap_attribute", "role_object_classes",
  "membership_ldap_attribute", "membership_attribute_type",
  "membership_user_ldap_attribute", "mode", "user_roles_retrieve_strategy",
  "memberof_ldap_attribute", "use_realm_roles_mapping"}
LdapRoleMapper == [LdapMapper EXCEPT
  !.synced = {"name"} \cup LdapRoleMapperConfig,
  !.omitted = {"roles_ldap_filter", "client_id"}]

LdapMsadUserAccountControlMapperConfig == {"ldap_password_policy_hints_enabled"}
LdapMsadUserAccountControlMapper == [LdapMapper EXCEPT
  !.synced = {"name"} \cup LdapMsadUserAccountControlMapperConfig]

LdapMsadLdsUserAccountControlMapper == [LdapMapper EXCEPT !.synced = {"name"}]

LdapUserAttributeMapperConfig == {
  "user_model_attribute", "ldap_attribute", "read_only",
  "always_read_value_from_ldap", "is_mandatory_in_ldap",
  "attribute_force_default", "attribute_default_value", "is_binary_attribute"}
LdapUserAttributeMapper == [LdapMapper EXCEPT
  !.synced = {"name"} \cup LdapUserAttributeMapperConfig]

CustomUserFederationConfig == {
  "enabled", "priority", "cache_policy", "full_sync_period", "changed_sync_period"}
CustomUserFederation == [Resource EXCEPT
  !.address = {"realm_id"},
  !.fixed = {"parent_id", "provider_id"},
  !.synced = {"name"} \cup CustomUserFederationConfig,
  !.omitted = {"config"},
  !.computed = {"parent_id"},
  !.create = <<"check", "post", "record", "read">>,
  !.update = <<"check", "put">>]

\* The default mappers Keycloak adds are deleted, if that is configured,
\* between POST and SetId.
LdapUserFederationConfig == {
  "enabled", "priority", "import_enabled", "edit_mode", "sync_registrations",
  "vendor", "username_ldap_attribute", "rdn_ldap_attribute",
  "uuid_ldap_attribute", "user_object_classes", "connection_url", "users_dn",
  "search_scope", "start_tls", "use_password_modify_extended_op",
  "validate_password_policy", "trust_email", "use_truststore_spi",
  "connection_timeout", "read_timeout", "pagination", "batch_size_for_sync",
  "full_sync_period", "changed_sync_period", "kerberos"}
LdapUserFederation == [Resource EXCEPT
  !.address = {"realm_id"},
  !.synced = {"name"} \cup LdapUserFederationConfig,
  !.omitted = {"bind_dn", "custom_user_search_filter"},
  !.blind = {"bind_credential"},
  !.echoed = {"cache"},
  !.steering = {"delete_default_mappers"},
  !.create = <<"check", "post", "extra", "record", "read">>,
  !.update = <<"check", "put">>]

FederationObjects == {
  HardcodedAttributeMapper, LdapHardcodedAttributeMapper, LdapHardcodedGroupMapper,
  LdapHardcodedRoleMapper, LdapCustomMapper, LdapFullNameMapper, LdapGroupMapper,
  LdapRoleMapper, LdapMsadUserAccountControlMapper,
  LdapMsadLdsUserAccountControlMapper, LdapUserAttributeMapper, CustomUserFederation,
  LdapUserFederation}
=============================================================================
