----------------------------- MODULE Authorization -----------------------------
(***************************************************************************)
(* pkg/entityworkflows/auth: who an entity belongs to, and who may update  *)
(* it.  A request context and the metadata of an entity name the same five *)
(* things; the entity's id, type and creation time, which the workflow     *)
(* itself supplies, are left out.                                          *)
(***************************************************************************)
CONSTANTS
  Name,       \* the non-empty values of the fields below
  Empty,      \* the empty string
  NoContext,  \* the nil RequestContext
  NoMetadata  \* the nil EntityMetadata

IdentityField == {"orgId", "teamId", "userId", "tenant", "environment"}

\* Team and user are optional.
RequiredField == {"orgId", "tenant", "environment"}

Identity == [IdentityField -> Name \cup {Empty}]

ASSUME AuthorizationAssumption ==
  /\ Empty \notin Name
  /\ NoContext \notin Identity
  /\ NoMetadata \notin Identity

RequestContext == Identity \cup {NoContext}

\* What ValidateMetadata lets an entity belong to.
EntityMetadata ==
  {metadata \in Identity : \A f \in RequiredField : metadata[f] # Empty}

ValidateRequestContext(requestCtx) ==
  /\ requestCtx # NoContext
  /\ \A f \in RequiredField : requestCtx[f] # Empty

\* The metadata of an entity that its first request claims, or none: an error.
InitializeFromRequest(requestCtx) ==
  IF ValidateRequestContext(requestCtx)
  THEN [f \in IdentityField |-> requestCtx[f]]
  ELSE NoMetadata

\* Slip: the team, like the user, is taken to be optional.
AuthorizeRequiredOnly(requestCtx, metadata) ==
  /\ requestCtx # NoContext
  /\ metadata # NoMetadata
  /\ \A f \in RequiredField : requestCtx[f] = metadata[f]

\* All five must match, the optional ones too.
AuthorizeRequest(requestCtx, metadata) ==
  /\ requestCtx # NoContext
  /\ metadata # NoMetadata
  /\ \A f \in IdentityField : requestCtx[f] = metadata[f]
===============================================================================
