------------------------------ MODULE RealmKinds ------------------------------
(*****************************************************************************)
(* The realm, and what belongs to it alone: keystores, events, user          *)
(* profile, texts, required actions, organizations.                          *)
(*****************************************************************************)
EXTENDS ResourceKind

\* The realm is one document, sent whole by POST and PUT.
RealmLogin == {
  "enabled", "display_name", "display_name_html", "user_managed_access",
  "registration_allowed", "registration_email_as_username",
  "edit_username_allowed", "reset_password_allowed", "remember_me",
  "verify_email", "login_with_email_allowed", "duplicate_emails_allowed",
  "ssl_required", "internationalization", "smtp_server"}

RealmTokens == {
  "default_signature_algorithm", "revoke_refresh_token",
  "refresh_token_max_reuse", "sso_session_idle_timeout",
  "sso_session_idle_timeout_remember_me", "sso_session_max_lifespan",
  "sso_session_max_lifespan_remember_me", "offline_session_idle_timeout",
  "offline_session_max_lifespan", "client_session_idle_timeout",
  "client_session_max_lifespan", "access_token_lifespan",
  "access_token_lifespan_for_implicit_flow", "access_code_lifespan",
  "access_code_lifespan_login", "access_code_lifespan_user_action",
  "action_token_generated_by_user_lifespan",
  "action_token_generated_by_admin_lifespan", "oauth2_device_code_lifespan",
  "oauth2_device_polling_interval"}

RealmPolicies == {
  "password_policy", "otp_policy", "web_authn_policy",
  "web_authn_passwordless_policy"}

\* Bound to the flow configured or to the built in one.
RealmFlows == {
  "browser_flow", "registration_flow", "direct_grant_flow",
  "reset_credentials_flow", "client_authentication_flow",
  "docker_authentication_flow", "first_broker_login_flow"}

\* Left out of the document when they are empty.
RealmOmitted == {
  "login_theme", "account_theme", "admin_theme", "email_theme",
  "organizations_enabled", "offline_session_max_lifespan_enabled",
  "default_default_client_scopes", "default_optional_client_scopes"}

\* Of the attributes, and of the defenses, Read looks at what the state has.
RealmEchoed == {"attributes", "security_defenses"}

\* Answered with asterisks.
RealmMasked == {"smtp_server.auth.password"}

\* The settings that are optional and computed: most of the login tab, all
\* lifespans, the policies and the flows.
RealmComputed == {
  "internal_id", "registration_allowed", "registration_email_as_username",
  "edit_username_allowed", "reset_password_allowed", "remember_me", "verify_email",
  "login_with_email_allowed", "duplicate_emails_allowed", "otp_policy",
  "web_authn_policy", "web_authn_passwordless_policy"}
  \cup RealmFlows
  \cup (RealmTokens \ {"default_signature_algorithm", "revoke_refresh_token", "refresh_token_max_reuse"})

\* Create renews the session between POST and SetId: the token knows no new
\* realm.
Realm == [Resource EXCEPT
  !.address = {"realm", "internal_id"},
  !.synced = RealmLogin \cup RealmTokens \cup RealmPolicies \cup RealmFlows,
  !.omitted = RealmOmitted,
  !.blind = RealmMasked,
  !.echoed = RealmEchoed,
  !.computed = RealmComputed,
  !.named = TRUE,
  !.create = <<"check", "post", "extra", "record", "read">>,
  !.update = <<"check", "put">>,
  !.delete = <<"delete", "again">>]

\* Keystores are components of the realm; a private key is never answered.
Keystore == [Resource EXCEPT !.update = <<"put">>]

RealmKeystoreAesGeneratedConfig == {"active", "enabled", "priority", "secret_size"}
RealmKeystoreAesGenerated == [Keystore EXCEPT
  !.address = {"realm_id"},
  !.synced = {"name"} \cup RealmKeystoreAesGeneratedConfig]

RealmKeystoreEcdsaGeneratedConfig == {
  "active", "enabled", "priority", "elliptic_curve_key"}
RealmKeystoreEcdsaGenerated == [Keystore EXCEPT
  !.address = {"realm_id"},
  !.synced = {"name"} \cup RealmKeystoreEcdsaGeneratedConfig]

RealmKeystoreHmacGeneratedConfig == {
  "active", "enabled", "priority", "algorithm", "secret_size"}
RealmKeystoreHmacGenerated == [Keystore EXCEPT
  !.address = {"realm_id"},
  !.synced = {"name"} \cup RealmKeystoreHmacGeneratedConfig]

RealmKeystoreRsaGeneratedConfig == {
  "active", "enabled", "priority", "algorithm", "key_size"}
RealmKeystoreRsaGenerated == [Keystore EXCEPT
  !.address = {"realm_id"},
  !.synced = {"name"} \cup RealmKeystoreRsaGeneratedConfig]

RealmKeystoreRsaConfig == {"active", "enabled", "priority", "algorithm"}
RealmKeystoreRsa == [Keystore EXCEPT
  !.address = {"realm_id"},
  !.fixed = {"provider_id"},
  !.synced = {"name"} \cup RealmKeystoreRsaConfig,
  !.blind = {"private_key", "certificate"}]

RealmKeystoreJavaKeystoreConfig == {
  "active", "enabled", "priority", "keystore", "key_alias"}
RealmKeystoreJavaKeystore == [Keystore EXCEPT
  !.address = {"realm_id"},
  !.synced = {"name"} \cup RealmKeystoreJavaKeystoreConfig,
  !.blind = {"keystore_password", "key_password"},
  !.inert = {"algorithm"}]

\* Settings of a realm that is there: Create claims them before it writes them,
\* Delete writes the defaults back.
RealmEvents == [Resource EXCEPT
  !.address = {"realm_id"},
  !.synced = {"admin_events_details_enabled", "admin_events_enabled",
    "events_enabled", "events_expiration", "events_listeners"},
  !.echoed = {"enabled_event_types"},
  !.create = <<"record", "put", "read">>,
  !.update = <<"put">>,
  !.delete = <<"reset">>,
  !.named = TRUE,
  !.importable = FALSE]

UserProfileAttribute == {
  "name", "display_name", "multi_valued", "group", "enabled_when_scope",
  "required_for_roles", "required_for_scopes", "permissions", "validator",
  "annotation"}

UserProfileGroup == {"name", "display_header", "display_description", "annotation"}

\* Each operation asks first whether the realm has user profiles enabled.
RealmUserProfile == [Resource EXCEPT
  !.address = {"realm_id"},
  !.synced = {"unmanaged_attribute_policy"} \cup UserProfileAttribute
    \cup UserProfileGroup,
  !.named = TRUE, !.importable = FALSE,
  !.create = <<"check", "record", "put", "read">>,
  !.update = <<"check", "put">>,
  !.delete = <<"check", "reset">>]

\* Texts are written and removed one by one, unless the look at those there
\* failed.
RealmLocalization == [Resource EXCEPT
  !.address = {"realm_id", "locale"},
  !.late = {"texts"},
  !.create = <<"glance", "clear", "add", "record", "read">>,
  !.update = <<"glance", "clear", "add", "record", "read">>,
  !.delete = <<"reset">>,
  !.gone = "fails",
  !.named = TRUE,
  !.importable = FALSE]

RequiredAction == [Resource EXCEPT
  !.movable = {"realm_id", "alias"},
  !.synced = {"name", "enabled", "default_action", "priority", "config"},
  !.computed = {"priority"},
  !.create = <<"check", "enable", "check", "put", "record", "read">>,
  !.update = <<"check", "put">>,
  !.delete = <<"delete", "again">>,
  !.named = TRUE]

Organization == [Resource EXCEPT
  !.address = {"realm"},
  !.fixed = {"name"},
  !.synced = {"alias", "enabled", "description", "redirect_url", "domain",
    "attributes"},
  !.computed = {"alias", "attributes"},
  !.update = <<"put">>]

RealmObjects == {
  Realm, RealmKeystoreAesGenerated, RealmKeystoreEcdsaGenerated,
  RealmKeystoreHmacGenerated, RealmKeystoreRsaGenerated, RealmKeystoreRsa,
  RealmKeystoreJavaKeystore, RealmEvents, RealmUserProfile, RealmLocalization,
  RequiredAction, Organization}
=============================================================================
