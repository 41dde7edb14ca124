------------------------- MODULE AuthenticationKinds -------------------------
(*****************************************************************************)
(* Authentication flows, subflows, executions and their configurations.      *)
(*****************************************************************************)
EXTENDS ResourceKind

AuthenticationFlow == [Resource EXCEPT
  !.address = {"realm_id"},
  !.synced = {"alias", "provider_id", "description"},
  !.update = <<"put">>,
  !.delete = <<"delete", "again">>]

\* The POST adds an execution to a flow; its requirement and priority take a
\* PUT of their own.
AuthenticationExecution == [Resource EXCEPT
  !.address = {"realm_id", "parent_flow_alias"},
  !.fixed = {"authenticator"},
  !.late = {"requirement", "priority"},
  !.create = <<"post", "part", "record", "read">>,
  !.update = <<"part">>,
  !.delete = <<"delete", "again">>]

\* Create runs the whole of Update, flow and execution, before SetId.
AuthenticationSubflow == [Resource EXCEPT
  !.address = {"realm_id", "parent_flow_alias"},
  !.fixed = {"authenticator"},
  !.synced = {"alias", "provider_id", "description"},
  !.late = {"requirement", "priority"},
  !.create = <<"post", "put", "extra", "part", "record", "read">>,
  !.update = <<"put", "extra", "part">>,
  !.delete = <<"extra", "delete", "again">>]

AuthenticationExecutionConfig == [Resource EXCEPT
  !.address = {"realm_id", "execution_id"},
  !.fixed = {"alias"},
  !.synced = {"config"}]

AuthenticationObjects == {
  AuthenticationFlow, AuthenticationExecution, AuthenticationSubflow,
  AuthenticationExecutionConfig}
=============================================================================
