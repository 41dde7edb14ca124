----------------------------- MODULE ClientKinds -----------------------------
(*****************************************************************************)
(* Clients, client scopes, and the roles in their scopes and of their        *)
(* service accounts.                                                         *)
(*****************************************************************************)
EXTENDS ResourceKind

\* What a client keeps in its attributes; a zero value is sent as an empty one.
OpenidClientAttributes == {
  "pkce_code_challenge_method", "exclude_session_state_from_auth_response",
  "exclude_issuer_from_auth_response", "access_token_lifespan", "login_theme",
  "client_offline_session_idle_timeout", "display_on_consent_screen",
  "consent_screen_text", "client_offline_session_max_lifespan",
  "client_session_idle_timeout", "client_session_max_lifespan",
  "use_refresh_tokens", "use_refresh_tokens_client_credentials",
  "backchannel_logout_url", "frontchannel_logout_url",
  "backchannel_logout_revoke_offline_sessions",
  "backchannel_logout_session_required",
  "oauth2_device_authorization_grant_enabled", "oauth2_device_code_lifespan",
  "oauth2_device_polling_interval", "valid_post_logout_redirect_uris",
  "standard_token_exchange_enabled",
  "allow_refresh_token_in_standard_token_exchange", "extra_config"}

OpenidClientSettings == {
  "client_id", "name", "enabled", "description", "access_type", "client_secret",
  "client_authenticator_type", "standard_flow_enabled", "implicit_flow_enabled",
  "direct_access_grants_enabled", "service_accounts_enabled",
  "frontchannel_logout_enabled", "valid_redirect_uris", "web_origins", "root_url",
  "admin_url", "base_url", "full_scope_allowed", "consent_required",
  "authentication_flow_binding_overrides", "always_display_in_console",
  "authorization"}

\* Read sets all the others.
OpenidClientUnread == {
  "pkce_code_challenge_method", "exclude_session_state_from_auth_response",
  "exclude_issuer_from_auth_response", "authorization"}

OpenidClientComputed == {
  "name", "description", "client_secret", "standard_flow_enabled", "implicit_flow_enabled",
  "direct_access_grants_enabled", "service_accounts_enabled", "frontchannel_logout_enabled",
  "valid_redirect_uris", "valid_post_logout_redirect_uris", "web_origins", "root_url",
  "admin_url", "base_url", "access_token_lifespan", "client_offline_session_idle_timeout",
  "client_offline_session_max_lifespan", "client_session_idle_timeout",
  "client_session_max_lifespan", "exclude_session_state_from_auth_response",
  "exclude_issuer_from_auth_response", "consent_required", "display_on_consent_screen",
  "consent_screen_text"}

\* After the POST the secret is read, and the user of the service account,
\* before SetId.  Update may make Keycloak generate a new secret first.
OpenidClient == [Resource EXCEPT
  !.address = {"realm_id"},
  !.synced = (OpenidClientSettings \cup OpenidClientAttributes) \ OpenidClientUnread,
  !.blind = OpenidClientUnread \cup {"client_secret_wo"},
  !.inert = {"client_secret_wo_version", "client_secret_regenerate_when_changed"},
  !.computed = OpenidClientComputed,
  !.steering = {"import"},
  !.create = <<"check", "post", "extra", "extra", "record", "read">>,
  !.adopting = <<"check", "find", "merge", "extra", "record", "read">>,
  !.update = <<"check", "extra", "put", "extra">>]

SamlClientAttributes == {
  "include_authn_statement", "force_name_id_format", "sign_documents",
  "sign_assertions", "encrypt_assertions", "client_signature_required",
  "force_post_binding", "signature_algorithm", "signature_key_name",
  "name_id_format", "encryption_certificate", "signing_certificate",
  "signing_private_key", "idp_initiated_sso_url_name",
  "idp_initiated_sso_relay_state", "assertion_consumer_post_url",
  "assertion_consumer_redirect_url", "logout_service_post_binding_url",
  "logout_service_redirect_binding_url", "login_theme", "extra_config"}

\* A canonicalization method the provider has no name for leaves the state as
\* it is.
SamlClient == [Resource EXCEPT
  !.address = {"realm_id"},
  !.synced = SamlClientAttributes \cup {"client_id", "name", "enabled", "description",
    "front_channel_logout", "root_url", "valid_redirect_uris", "base_url",
    "master_saml_processing_url", "full_scope_allowed", "consent_required",
    "authentication_flow_binding_overrides", "always_display_in_console"},
  !.kept = {"canonicalization_method"},
  !.computed = {"consent_required", "name_id_format", "encryption_certificate",
    "signing_certificate", "signing_private_key"},
  !.update = <<"put">>]

OpenidClientScope == [Resource EXCEPT
  !.address = {"realm_id"},
  !.synced = {"name", "description", "include_in_token_scope"},
  !.kept = {"consent_screen_text", "gui_order"},
  !.update = <<"put">>]

SamlClientScope == [Resource EXCEPT
  !.address = {"realm_id"},
  !.synced = {"name", "description"},
  !.kept = {"consent_screen_text", "gui_order"},
  !.update = <<"put">>]

\* A role in the scope of a client or a client scope.  Read drops the error of
\* the call that lists the mappings.
GenericRoleMapper == [Resource EXCEPT
  !.address = {"realm_id", "client_id", "client_scope_id", "role_id"},
  !.create = <<"check", "enable", "record", "read">>,
  !.update = <<>>,
  !.delete = <<"check", "remove">>,
  !.lookup = "forgets",
  !.failure = "forgets",
  !.named = TRUE]

\* The same under its former name.
GenericClientRoleMapper == GenericRoleMapper

\* A role of a service account.  Read of one that is not there answers an empty
\* record, whose realm and names are empty too.
OpenidClientServiceAccountRole == [Resource EXCEPT
  !.address = {"service_account_user_id", "realm_id", "client_id", "role"},
  !.create = <<"check", "enable", "record", "read">>,
  !.update = <<>>,
  !.delete = <<"remove">>,
  !.gone = "blanks",
  !.named = TRUE]

OpenidClientServiceAccountRealmRole == [Resource EXCEPT
  !.address = {"service_account_user_id", "realm_id", "role"},
  !.create = <<"check", "enable", "record", "read">>,
  !.update = <<>>,
  !.delete = <<"remove">>,
  !.gone = "blanks",
  !.named = TRUE]

ClientObjects == {
  OpenidClient, SamlClient, OpenidClientScope, SamlClientScope, GenericRoleMapper,
  OpenidClientServiceAccountRole, OpenidClientServiceAccountRealmRole}
=============================================================================
