---------------------------- MODULE DirectoryKinds ----------------------------
(*****************************************************************************)
(* Users, roles and groups.                                                  *)
(*****************************************************************************)
EXTENDS ResourceKind

UserSettings == {
  "email", "email_verified", "first_name", "last_name", "attributes",
  "required_actions", "enabled"}

\* Federated identities have calls of their own: Update removes all there are,
\* looking at no answer, and adds those configured.
User == [Resource EXCEPT
  !.address = {"realm_id"},
  !.fixed = {"username"},
  !.synced = UserSettings,
  !.late = {"federated_identity"},
  !.once = {"initial_password"},
  !.steering = {"import"},
  !.create = <<"post", "add", "once", "record", "read">>,
  !.adopting = <<"find", "merge", "extra", "wipe", "add", "record", "read">>,
  !.update = <<"put", "extra", "wipe", "add">>]

\* A new role is read back for its id, written again with its attributes, and
\* given its composites, before SetId.  One that is taken over loses all its
\* composites before it is given those configured.
Role == [Resource EXCEPT
  !.address = {"realm_id", "client_id"},
  !.synced = {"name", "description", "attributes"},
  !.lingering = {"composite_roles"},
  !.steering = {"import"},
  !.computed = {"description", "composite_roles", "attributes"},
  !.create = <<"check", "post", "extra", "put", "add", "record", "read">>,
  !.adopting = <<"check", "find", "merge", "extra", "strip", "add", "record", "read">>,
  !.update = <<"put", "extra", "clear", "check", "add", "read">>,
  !.delete = <<"delete", "again">>]

Group == [Resource EXCEPT
  !.address = {"realm_id"},
  !.fixed = {"parent_id"},
  !.synced = {"name", "attributes"},
  !.update = <<"put">>]

DirectoryObjects == {
  User, Role, Group}
=============================================================================
