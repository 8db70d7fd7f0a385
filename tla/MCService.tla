------------------------------ MODULE MCService ------------------------------
(***************************************************************************)
(* A small instance of the API process for TLC: four requests that differ  *)
(* in endpoint, caller and upload, from two remote addresses.              *)
(***************************************************************************)
EXTENDS Service

CONSTANTS r1, r2, r3, r4, here, there

Frame(missing, duplicates) ==
    [incomplete |-> FALSE, missing |-> missing, duplicates |-> duplicates, others |-> 0]

Clean == Frame(0, 0)

\* 99.8 points less one violation: still above 90, and not flawless.
OneDuplicate == Frame(0, 1)

NoUpload == [form |-> 200, baseline |-> Clean, current |-> Clean]

Caller(key, token, token_role, username) ==
    [key |-> key, operator |-> "ada", token |-> token, username |-> username,
     subject |-> "oidc:1", scopes |-> {"smartvalve.read"}, roles |-> {token_role}]

\* The key lets this caller do everything, the token lets it read.
Viewer == Caller("right", "verified", "viewer", "unusable")

\* Each of these two is known in one way of authentication and not in the other.
TokenHolder == Caller("wrong", "verified", "operator", "ada")
KeyHolder == Caller("right", "refused", "operator", "ada")

Nobody == Caller("absent", "none", "viewer", "ada")

Request(endpoint, remote, caller, upload) ==
    [endpoint |-> endpoint, remote |-> remote, caller |-> caller, upload |-> upload]

MCAsk ==
    [r \in {r1, r2, r3, r4} |->
        CASE r = r1 -> Request("simulation", here, Viewer, NoUpload)
          [] r = r2 -> Request("csv", here, TokenHolder,
                               [form |-> 200, baseline |-> OneDuplicate, current |-> Clean])
          [] r = r3 -> Request("csv", here, KeyHolder, NoUpload)
          [] r = r4 -> Request("metrics", there, Nobody, NoUpload)]

Key(key) ==
    [mode |-> "api_key", key |-> key, jwks_url |-> "missing", issuer |-> "missing",
     allow_insecure_jwks |-> FALSE, algorithms |-> {}, complete |-> FALSE]

Oidc(jwks_url, algorithms) ==
    [mode |-> "oidc", key |-> "none", jwks_url |-> jwks_url, issuer |-> "https",
     allow_insecure_jwks |-> TRUE, algorithms |-> algorithms, complete |-> TRUE]

MCSettings ==
    {Key("none"), Key("weak"), Key("strong"),
     Oidc("https", {"RS256"}), Oidc("http", {"RS256"}), Oidc("https", {"HS256"})}
=============================================================================
