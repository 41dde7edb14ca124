------------------------- MODULE ProtocolMapperKinds -------------------------
(*****************************************************************************)
(* The protocol mappers of OpenID and SAML clients and client scopes         *)
(* (provider/resource_keycloak_*_protocol_mapper.go).                        *)
(*****************************************************************************)
EXTENDS ResourceKind

\* A mapper's name is its own within a client or a client scope: Create looks
\* for a namesake first, and so do most updates.  ...Config is what the mapper
\* keeps in its generic configuration, written and parsed alike.
ProtocolMapper == [Resource EXCEPT
  !.address = {"realm_id", "client_id", "client_scope_id"},
  !.create = <<"guard", "post", "record", "read">>,
  !.update = <<"guard", "put", "read">>]

OpenidFullNameProtocolMapperConfig == {
  "add_to_id_token", "add_to_access_token", "add_to_userinfo"}
OpenidFullNameProtocolMapper == [ProtocolMapper EXCEPT
  !.fixed = {"name"},
  !.synced = OpenidFullNameProtocolMapperConfig]

OpenidGroupMembershipProtocolMapperConfig == {
  "claim_name", "full_path", "add_to_id_token", "add_to_access_token",
  "add_to_userinfo"}
OpenidGroupMembershipProtocolMapper == [ProtocolMapper EXCEPT
  !.fixed = {"name"},
  !.synced = OpenidGroupMembershipProtocolMapperConfig]

OpenidHardcodedClaimProtocolMapperConfig == {
  "add_to_id_token", "add_to_access_token", "add_to_userinfo", "claim_name",
  "claim_value", "claim_value_type"}
OpenidHardcodedClaimProtocolMapper == [ProtocolMapper EXCEPT
  !.synced = {"name"} \cup OpenidHardcodedClaimProtocolMapperConfig]

OpenidUserAttributeProtocolMapperConfig == {
  "add_to_id_token", "add_to_access_token", "add_to_userinfo", "multivalued",
  "user_attribute", "claim_name", "claim_value_type", "aggregate_attributes"}
OpenidUserAttributeProtocolMapper == [ProtocolMapper EXCEPT
  !.synced = {"name"} \cup OpenidUserAttributeProtocolMapperConfig]

OpenidUserClientRoleProtocolMapperConfig == {
  "add_to_id_token", "add_to_access_token", "add_to_userinfo", "claim_name",
  "claim_value_type", "multivalued", "client_id_for_role_mappings",
  "client_role_prefix"}
OpenidUserClientRoleProtocolMapper == [ProtocolMapper EXCEPT
  !.synced = {"name"} \cup OpenidUserClientRoleProtocolMapperConfig]

OpenidUserRealmRoleProtocolMapperConfig == {
  "add_to_id_token", "add_to_access_token", "add_to_userinfo",
  "add_to_token_introspection", "claim_name", "claim_value_type", "multivalued",
  "realm_role_prefix"}
OpenidUserRealmRoleProtocolMapper == [ProtocolMapper EXCEPT
  !.synced = {"name"} \cup OpenidUserRealmRoleProtocolMapperConfig]

OpenidUserSessionNoteProtocolMapperConfig == {
  "add_to_id_token", "add_to_access_token", "claim_name", "claim_value_type",
  "session_note"}
OpenidUserSessionNoteProtocolMapper == [ProtocolMapper EXCEPT
  !.synced = {"name"} \cup OpenidUserSessionNoteProtocolMapperConfig]

OpenidScriptProtocolMapperConfig == {
  "add_to_id_token", "add_to_access_token", "add_to_userinfo", "multivalued",
  "script", "claim_name", "claim_value_type"}
OpenidScriptProtocolMapper == [ProtocolMapper EXCEPT
  !.synced = {"name"} \cup OpenidScriptProtocolMapperConfig]

SamlScriptProtocolMapperConfig == {
  "single_value_attribute", "script", "friendly_name", "saml_attribute_name",
  "saml_attribute_name_format"}
SamlScriptProtocolMapper == [ProtocolMapper EXCEPT
  !.synced = {"name"} \cup SamlScriptProtocolMapperConfig]

SamlUserAttributeProtocolMapperConfig == {
  "user_attribute", "friendly_name", "saml_attribute_name",
  "saml_attribute_name_format", "aggregate_attributes"}
SamlUserAttributeProtocolMapper == [ProtocolMapper EXCEPT
  !.synced = {"name"} \cup SamlUserAttributeProtocolMapperConfig]

SamlUserPropertyProtocolMapperConfig == {
  "user_property", "friendly_name", "saml_attribute_name",
  "saml_attribute_name_format"}
SamlUserPropertyProtocolMapper == [ProtocolMapper EXCEPT
  !.synced = {"name"} \cup SamlUserPropertyProtocolMapperConfig]

\* The included client is looked up as part of the validation.
OpenidAudienceProtocolMapperConfig == {
  "included_custom_audience", "add_to_id_token", "add_to_access_token"}
OpenidAudienceProtocolMapper == [ProtocolMapper EXCEPT
  !.synced = {"name"} \cup OpenidAudienceProtocolMapperConfig,
  !.kept = {"included_client_audience"},
  !.create = <<"guard", "check", "post", "record", "read">>,
  !.update = <<"guard", "check", "put", "read">>]

\* Every attribute is part of the address or replaces the mapper: nothing is
\* left to update.
OpenidAudienceResolveProtocolMapper == [ProtocolMapper EXCEPT
  !.fixed = {"name"},
  !.update = <<>>]

\* Its validation knows no id, so only Create can ask for it.
OpenidUserPropertyProtocolMapperConfig == {
  "add_to_id_token", "add_to_access_token", "add_to_userinfo", "user_property",
  "claim_name", "claim_value_type"}
OpenidUserPropertyProtocolMapper == [ProtocolMapper EXCEPT
  !.synced = {"name"} \cup OpenidUserPropertyProtocolMapperConfig,
  !.update = <<"put", "read">>]

\* The mapper names its role; Read looks the role up, and when the role is gone
\* the 404 passes for one of the mapper.
OpenidHardcodedRoleProtocolMapperConfig == {"role_id"}
OpenidHardcodedRoleProtocolMapper == [ProtocolMapper EXCEPT
  !.fixed = {"name"},
  !.synced = OpenidHardcodedRoleProtocolMapperConfig,
  !.create = <<"guard", "check", "post", "record", "read">>,
  !.update = <<"guard", "check", "put", "read">>,
  !.lookup = "forgets"]

GenericProtocolMapper == [ProtocolMapper EXCEPT
  !.fixed = {"name", "protocol", "protocol_mapper"},
  !.synced = {"config"},
  !.update = <<"put">>]

GenericClientProtocolMapper == [ProtocolMapper EXCEPT
  !.fixed = {"name", "protocol", "protocol_mapper"},
  !.synced = {"config"},
  !.update = <<"put">>]

ProtocolMappers == {
  OpenidFullNameProtocolMapper, OpenidGroupMembershipProtocolMapper,
  OpenidHardcodedClaimProtocolMapper, OpenidUserAttributeProtocolMapper,
  OpenidUserClientRoleProtocolMapper, OpenidUserRealmRoleProtocolMapper,
  OpenidUserSessionNoteProtocolMapper, OpenidScriptProtocolMapper,
  SamlScriptProtocolMapper, SamlUserAttributeProtocolMapper,
  SamlUserPropertyProtocolMapper, OpenidAudienceProtocolMapper,
  OpenidAudienceResolveProtocolMapper, OpenidUserPropertyProtocolMapper,
  OpenidHardcodedRoleProtocolMapper, GenericProtocolMapper,
  GenericClientProtocolMapper}
=============================================================================
