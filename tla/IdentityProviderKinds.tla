------------------------ MODULE IdentityProviderKinds ------------------------
(*****************************************************************************)
(* Identity providers and their mappers.                                     *)
(*****************************************************************************)
EXTENDS ResourceKind

\* What every identity provider has.
IdentityProviderSettings == {
  "display_name", "enabled", "store_token", "authenticate_by_default",
  "link_only", "trust_email", "first_broker_login_flow_alias",
  "post_broker_login_flow_alias", "gui_order", "sync_mode", "org_domain",
  "org_redirect_mode_email_matches", "extra_config"}

\* It is linked with its organization after the POST, and then written again.
IdentityProvider(settings) == [Resource EXCEPT
  !.address = {"realm", "alias"},
  !.fixed = {"add_read_token_role_on_create"},
  !.synced = IdentityProviderSettings \cup settings,
  !.late = {"organization_id"},
  !.named = TRUE,
  !.create = <<"post", "record", "add", "put", "read">>,
  !.update = <<"extra", "clear", "add", "put">>]

OidcIdentityProvider == [IdentityProvider({"backchannel_supported", "validate_signature",
    "authorization_url", "client_id", "user_info_url", "jwks_url", "hide_on_login_page",
    "token_url", "logout_url", "login_hint", "ui_locales", "disable_user_info", "issuer",
    "disable_type_claim_check"}) EXCEPT
  !.computed = {"display_name"},
  !.blind = {"provider_id", "client_secret", "client_secret_wo", "default_scopes",
    "accepts_prompt_none_forward_from_client"},
  !.inert = {"client_secret_wo_version"}]

\* Its schema of alias, unlike the others', does not ask for a new resource.
OidcGoogleIdentityProvider == [IdentityProvider({"provider_id", "client_id", "hosted_domain",
    "use_user_ip_param", "request_refresh_token", "default_scopes", "disable_user_info",
    "accepts_prompt_none_forward_from_client", "hide_on_login_page"}) EXCEPT
  !.address = {"realm"}, !.movable = {"alias"}, !.computed = {"alias", "display_name"},
  !.blind = {"client_secret"}]

SamlIdentityProvider == [IdentityProvider({"backchannel_supported", "validate_signature",
    "hide_on_login_page", "name_id_policy_format", "single_logout_service_url",
    "entity_id", "single_sign_on_service_url", "signing_certificate",
    "signature_algorithm", "xml_sign_key_info_key_name_transformer",
    "post_binding_authn_request", "post_binding_response", "post_binding_logout",
    "force_authn", "login_hint", "want_assertions_signed", "want_assertions_encrypted",
    "principal_type", "principal_attribute", "authn_context_class_refs",
    "authn_context_decl_refs", "authn_context_comparison_type"}) EXCEPT
  !.blind = {"provider_id"}]

\* What every mapper of an identity provider has.
IdentityProviderMapper == [Resource EXCEPT
  !.address = {"realm", "identity_provider_alias"},
  !.fixed = {"name"},
  !.synced = {"extra_config"},
  !.update = <<"put">>]

\* These look at the identity provider first: its kind decides what they send.
AttributeImporterIdentityProviderMapper == [IdentityProviderMapper EXCEPT
  !.synced = {"extra_config", "user_attribute", "attribute_name",
    "attribute_friendly_name", "claim_name"},
  !.create = <<"check", "post", "record", "read">>,
  !.update = <<"check", "put">>]

AttributeToRoleIdentityProviderMapper == [IdentityProviderMapper EXCEPT
  !.synced = {"extra_config", "attribute_name", "attribute_value", "claim_name",
    "claim_value", "role", "attribute_friendly_name"},
  !.create = <<"check", "post", "record", "read">>,
  !.update = <<"check", "put">>]

UserTemplateImporterIdentityProviderMapper == [IdentityProviderMapper EXCEPT
  !.synced = {"extra_config", "template"},
  !.create = <<"check", "post", "record", "read">>,
  !.update = <<"check", "put">>]

HardcodedAttributeIdentityProviderMapper == [IdentityProviderMapper EXCEPT
  !.fixed = {"name", "user_session"},
  !.synced = {"extra_config", "attribute_name", "attribute_value"}]

HardcodedGroupIdentityProviderMapper == [IdentityProviderMapper EXCEPT
  !.synced = {"extra_config", "group"}]

HardcodedRoleIdentityProviderMapper == [IdentityProviderMapper EXCEPT
  !.synced = {"extra_config", "role"}]

CustomIdentityProviderMapper == [IdentityProviderMapper EXCEPT
  !.synced = {"extra_config", "identity_provider_mapper"}]

IdentityProviders == {
  OidcIdentityProvider, OidcGoogleIdentityProvider, SamlIdentityProvider,
  AttributeImporterIdentityProviderMapper, AttributeToRoleIdentityProviderMapper,
  UserTemplateImporterIdentityProviderMapper,
  HardcodedAttributeIdentityProviderMapper, HardcodedGroupIdentityProviderMapper,
  HardcodedRoleIdentityProviderMapper, CustomIdentityProviderMapper}
=============================================================================
