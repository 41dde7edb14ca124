----------------------------- MODULE MCLifecycle -----------------------------
(* ResourceLifecycle for every resource type of the provider, with one name. *)
EXTENDS ResourceLifecycle, ProtocolMapperKinds, AuthorizationKinds, FederationKinds, RealmKinds,
  ClientKinds, IdentityProviderKinds, AuthenticationKinds, DirectoryKinds

AllKinds ==
  UNION {ProtocolMappers, AuthorizationObjects, FederationObjects, RealmObjects,
         ClientObjects, IdentityProviders, AuthenticationObjects, DirectoryObjects}

\* Also as they are with import = true.
MCKinds == AllKinds \cup {Adopted(k) : k \in {kind \in AllKinds : kind.adopting # <<>>}}

MCIds == 1 .. 6
=============================================================================
