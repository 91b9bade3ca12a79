------------------------------- MODULE Tokens -------------------------------
(***************************************************************************)
(* BearerTokenAuthBackend.authenticate: who sends a request.  A bearer     *)
(* token is validated with the identity provider:                          *)
(*                                                                         *)
(*   Arrive -> FetchConfig -> FetchKey                                     *)
(*                                                                         *)
(* The provider's configuration names the URI of its signing keys and is   *)
(* cached for Ttl; the keys are fetched for every request.  The provider   *)
(* changes the URI and the keys when it likes.                             *)
(***************************************************************************)
EXTENDS Integers

CONSTANTS
    Calls,         \* the requests; one that is answered may come again
    Credentials,   \* what their headers may say of the sender
    SigningKeys,   \* the keys tokens are signed with
    Uris,          \* jwks_uri
    FirstUri,      \* the one named at the start
    FirstKeys,     \* the keys published at the start
    Ttl,           \* ttl of the TTLCache (3600 s)
    LocalAuth,     \* TRUE iff ENABLE_LOCAL_AUTH_FROM_IP_RANGE is set
    Clients,       \* the values of azp
    TestUser,      \* a username that ends in -test-user
    Anonymous,     \* no user
    MaxTime        \* bound: the clock

Users == Clients \cup {TestUser, Anonymous}

(* fault stands for a claim that is wrong, or "absent" for one of aud and  *)
(* iss that is not there.  A token that is not one has a key that nobody   *)
(* publishes.                                                              *)
Token ==
    [key : SigningKeys, exp : Nat, client : Clients,
     fault : {"none", "absent", "audience", "issuer", "azp", "roles"}]

(* test-username, whether the sender's address is in the local range, and  *)
(* the header Authorization; an empty token counts as a wrong scheme.      *)
Credential ==
    [name : {"none", "test", "other"}, inRange : BOOLEAN,
     scheme : {"none", "bearer", "wrong"}, token : Token]

ASSUME TokensAssumption ==
    /\ Credentials \subseteq Credential /\ Credentials # {}
    /\ FirstUri \in Uris
    /\ FirstKeys \in [Uris -> SUBSET SigningKeys]
    /\ Ttl \in Nat \ {0} /\ MaxTime \in Nat
    /\ LocalAuth \in BOOLEAN

VARIABLES
    clock,         \* time.monotonic
    namedUri,      \* the jwks_uri the provider names
    leftAt,        \* history: when the provider last named each other URI
    jwks,          \* the keys published at each URI
    cachedUri,     \* the cache of fetch_oidc_config: its jwks_uri ...
    cachedAt,      \* ... and when it was fetched, or NotCached
    creds,         \* the credentials of each request
    stage,         \* where each request is
    uri,           \* its jwks_uri
    user,          \* request.user
    status,        \* the status code of the answer, 0 before
    cameAt         \* history: when the request came

providerVars == <<clock, namedUri, leftAt, jwks>>
cacheVars == <<cachedUri, cachedAt>>
callVars == <<creds, stage, uri, user, status, cameAt>>
tokenVars == <<providerVars, cacheVars, callVars>>

NotCached == -1

Stage == {"idle", "config", "key", "authenticated", "admitted", "done"}

TokenTypeOK ==
    /\ clock \in 0..MaxTime
    /\ namedUri \in Uris
    /\ leftAt \in [Uris -> Int]
    /\ jwks \in [Uris -> SUBSET SigningKeys]
    /\ cachedUri \in Uris
    /\ cachedAt \in Nat \cup {NotCached}
    /\ creds \in [Calls -> Credentials]
    /\ stage \in [Calls -> Stage]
    /\ uri \in [Calls -> Uris]
    /\ user \in [Calls -> Users]
    /\ status \in [Calls -> {0, 200, 400, 401, 403, 500}]
    /\ cameAt \in [Calls -> Nat]

TokenInit ==
    /\ clock = 0
    /\ namedUri = FirstUri
    /\ leftAt = [u \in Uris |-> -Ttl]
    /\ jwks = FirstKeys
    /\ cachedUri = FirstUri /\ cachedAt = NotCached
    /\ creds = [r \in Calls |-> CHOOSE c \in Credentials : TRUE]
    /\ stage = [r \in Calls |-> "idle"]
    /\ uri = [r \in Calls |-> FirstUri]
    /\ user = [r \in Calls |-> Anonymous]
    /\ status = [r \in Calls |-> 0]
    /\ cameAt = [r \in Calls |-> 0]

-----------------------------------------------------------------------------
Answered(r, code) ==
    /\ status' = [status EXCEPT ![r] = code]
    /\ stage' = [stage EXCEPT ![r] = "done"]
    /\ UNCHANGED user

Authenticated(r, u) ==
    /\ user' = [user EXCEPT ![r] = u]
    /\ stage' = [stage EXCEPT ![r] = "authenticated"]
    /\ status' = [status EXCEPT ![r] = 0]

(* authenticate awaits nothing, and neither does the first enforce: the    *)
(* event loop is for one request until it is admitted or answered.         *)
HasLoop(r) ==
    \A q \in Calls \ {r} : stage[q] \notin {"config", "key", "authenticated"}

(* A test username counts only from the local range, and only if it ends   *)
(* in -test-user; no Authorization header at all makes an anonymous user.  *)
Arrive(r) ==
    /\ stage[r] \in {"idle", "done"} /\ HasLoop(r)
    /\ \E c \in Credentials :
         LET bypass == LocalAuth /\ c.inRange /\ c.name # "none"
         IN /\ creds' = [creds EXCEPT ![r] = c]
            /\ \/ bypass /\ c.name = "test" /\ Authenticated(r, TestUser)
               \/ bypass /\ c.name = "other" /\ Answered(r, 403)
               \/ ~bypass /\ c.scheme = "none" /\ Authenticated(r, Anonymous)
               \/ ~bypass /\ c.scheme = "wrong" /\ Answered(r, 401)
               \/ /\ ~bypass /\ c.scheme = "bearer"
                  /\ stage' = [stage EXCEPT ![r] = "config"]
                  /\ status' = [status EXCEPT ![r] = 0]
                  /\ UNCHANGED user
    /\ cameAt' = [cameAt EXCEPT ![r] = clock]
    /\ UNCHANGED <<providerVars, cacheVars, uri>>

(* Mutant: an entry is kept for ever. *)
OnceCached == cachedAt # NotCached

Cached == cachedAt # NotCached /\ clock < cachedAt + Ttl

(* fetch_oidc_config: from the cache or from the provider, whose reply is  *)
(* cached; a failure is not.                                               *)
FetchConfig(r) ==
    /\ stage[r] = "config"
    /\ \/ /\ Cached
          /\ uri' = [uri EXCEPT ![r] = cachedUri]
          /\ UNCHANGED cacheVars
       \/ /\ ~Cached
          /\ uri' = [uri EXCEPT ![r] = namedUri]
          /\ cachedUri' = namedUri /\ cachedAt' = clock
    /\ stage' = [stage EXCEPT ![r] = "key"]
    /\ UNCHANGED <<providerVars, creds, user, status, cameAt>>

FailFetchConfig(r) ==
    /\ stage[r] = "config" /\ ~Cached
    /\ Answered(r, 401)
    /\ UNCHANGED <<providerVars, cacheVars, creds, uri, cameAt>>

(* get_signing_key and jwt_decode; then azp and the roles. *)
FetchKey(r) ==
    LET token == creds[r].token
        valid == /\ token.key \in jwks[uri[r]] /\ clock < token.exp
                 /\ token.fault # "absent"
    IN /\ stage[r] = "key"
       /\ \/ ~valid /\ Answered(r, 401)
          \/ valid /\ token.fault # "none" /\ Answered(r, 403)
          \/ valid /\ token.fault = "none" /\ Authenticated(r, token.client)
       /\ UNCHANGED <<providerVars, cacheVars, creds, uri, cameAt>>

FailFetchKey(r) ==
    /\ stage[r] = "key"
    /\ Answered(r, 401)
    /\ UNCHANGED <<providerVars, cacheVars, creds, uri, cameAt>>

Validate(r) ==
    \/ FetchConfig(r) \/ FailFetchConfig(r)
    \/ FetchKey(r) \/ FailFetchKey(r)

-----------------------------------------------------------------------------
(* The provider and the clock. *)
MoveKeys ==
    /\ \E u \in Uris \ {namedUri} : namedUri' = u
    /\ leftAt' = [leftAt EXCEPT ![namedUri] = clock]
    /\ UNCHANGED <<clock, jwks>>

ReplaceKeys(u) ==
    /\ \E keys \in SUBSET SigningKeys :
         keys # jwks[u] /\ jwks' = [jwks EXCEPT ![u] = keys]
    /\ UNCHANGED <<clock, namedUri, leftAt>>

Tick ==
    /\ clock < MaxTime
    /\ clock' = clock + 1
    /\ UNCHANGED <<namedUri, leftAt, jwks>>

ProviderStep == MoveKeys \/ Tick \/ \E u \in Uris : ReplaceKeys(u)

LastNamed(u) == IF u = namedUri THEN clock ELSE leftAt[u]

(* A token counts only while its key is published, by the provider's word  *)
(* of at most Ttl before the request came: a withdrawn key is refused at   *)
(* once, one left at an abandoned URI when the cached configuration        *)
(* expires (TTLCache around fetch_oidc_config, PyJWKClient per request).   *)
KeyIsCurrent ==
    [][\A r \in Calls :
         stage[r] = "key" /\ stage'[r] = "authenticated" =>
           \E u \in Uris :
             /\ creds[r].token.key \in jwks[u]
             /\ LastNamed(u) + Ttl > cameAt[r]]_tokenVars
=============================================================================
