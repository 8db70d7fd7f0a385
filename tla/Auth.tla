--------------------------------- MODULE Auth ---------------------------------
(***************************************************************************)
(* Who a request speaks for and what it may do (service/auth.py).          *)
(*                                                                         *)
(* A deployment's settings are read once, when the service starts.  The    *)
(* strings they hold are kept as far as build_authenticator looks at them: *)
(* a key is "none", "weak" (too short, or a published example) or          *)
(* "strong"; a URL is "missing", "malformed", "http" or "https".  PyJWT's  *)
(* verdict on a bearer token is "none", "refused" or "verified".           *)
(***************************************************************************)
EXTENDS FiniteSets

CONSTANT Production     \* production_mode()

ASSUME ProductionAssumption == Production \in BOOLEAN

READ_PERMISSION == "smartvalve.read"
DIAGNOSE_PERMISSION == "smartvalve.diagnose"
AUDIT_PERMISSION == "smartvalve.audit"
ADMIN_PERMISSION == "smartvalve.admin"

ALL_PERMISSIONS ==
    {READ_PERMISSION, DIAGNOSE_PERMISSION, AUDIT_PERMISSION, ADMIN_PERMISSION}

RolePermissions ==
    [viewer   |-> {READ_PERMISSION},
     operator |-> {READ_PERMISSION, DIAGNOSE_PERMISSION, AUDIT_PERMISSION},
     auditor  |-> {READ_PERMISSION, AUDIT_PERMISSION},
     admin    |-> ALL_PERMISSIONS]

-----------------------------------------------------------------------------
\* Settings under which build_authenticator returns.

AsymmetricAlgorithms == {"RS256", "ES256"}

KeyAccepted(settings) == Production => settings.key = "strong"

JwksUrlAccepted(settings) ==
    \/ settings.jwks_url = "https"
    \/ settings.jwks_url = "http" /\ ~ Production /\ settings.allow_insecure_jwks

IssuerAccepted(settings) ==
    \/ settings.issuer = "https"
    \/ settings.issuer = "http" /\ ~ Production

OidcAccepted(settings) ==
    /\ JwksUrlAccepted(settings)
    /\ IssuerAccepted(settings)
    /\ settings.algorithms # {} /\ settings.algorithms \subseteq AsymmetricAlgorithms
    /\ settings.complete    \* audience, token types, claim names, bounded numbers

Accepted(settings) ==
    \/ settings.mode = "api_key" /\ KeyAccepted(settings)
    \/ settings.mode = "oidc" /\ OidcAccepted(settings)

-----------------------------------------------------------------------------
\* authenticate(): the operator and the permissions of a principal, or none.

Principal(operator_id, permissions) ==
    [operator_id |-> operator_id, permissions |-> permissions]

NoPrincipal == Principal("none", {})

\* A slip: the operator is asked for, the key is not compared.
ApiKeyPrincipalUnchecked(settings, caller) ==
    IF caller.operator \in {"absent", "malformed"}
    THEN NoPrincipal
    ELSE Principal(IF caller.operator = "empty" THEN "local-demo" ELSE caller.operator,
                   ALL_PERMISSIONS)

\* An absent operator is a local demo's, except in production; an empty one
\* is a local demo's everywhere.
ApiKeyPrincipal(settings, caller) ==
    IF \/ settings.key # "none" /\ caller.key # "right"
       \/ Production /\ caller.operator = "absent"
       \/ caller.operator = "malformed"
    THEN NoPrincipal
    ELSE Principal(IF caller.operator \in {"absent", "empty"} THEN "local-demo"
                                                             ELSE caller.operator,
                   ALL_PERMISSIONS)

\* An unusable username claim is replaced by a name made from the subject.
OidcPrincipal(caller) ==
    IF caller.token # "verified"
    THEN NoPrincipal
    ELSE Principal(IF caller.username = "unusable" THEN caller.subject ELSE caller.username,
                   (caller.scopes \intersect ALL_PERMISSIONS)
                     \union UNION {RolePermissions[role] :
                                     role \in caller.roles \intersect DOMAIN RolePermissions})

Authenticate(settings, caller) ==
    IF settings.mode = "oidc" THEN OidcPrincipal(caller) ELSE ApiKeyPrincipal(settings, caller)

\* What may raise something that is no AuthenticationError: comparing a key that
\* is not ASCII, reading the answer of the server that has the signing keys.
MayRaise(settings, caller) ==
    IF settings.mode = "oidc" THEN caller.token # "none"
                              ELSE settings.key # "none" /\ caller.key # "absent"

Can(principal, permission) ==
    permission \in principal.permissions \/ ADMIN_PERMISSION \in principal.permissions
=============================================================================
