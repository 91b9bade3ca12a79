---------------------------- MODULE AccessProofs ----------------------------
(***************************************************************************)
(* Theorems about Access and the two modules it composes, for any          *)
(* requests, policy files, rules, keys, caching time and any number of     *)
(* changes by the environment.                                             *)
(***************************************************************************)
EXTENDS Access, TLAPS

-----------------------------------------------------------------------------
(***************************************************************************)
(* The policy files and the policy in force (Policies).                    *)
(***************************************************************************)
(* The contents a file may have, or that it is not there. *)
Content == Contents \cup {Missing}

(* Nothing is read of a file that is not there. *)
LEMMA MissingGrantsNothing == Readable(Missing) = {}
<1>1. DOMAIN Missing = 1..2 /\ Missing[1] = Bad
  BY DEF Missing
<1>2. \A i \in DOMAIN Missing : 1 \in 1..i
  BY <1>1
<1> QED
  BY <1>1, <1>2 DEF Readable

(* What is read of a file are rules. *)
LEMMA ReadableRules ==
  ASSUME NEW content \in Content
  PROVE  Readable(content) \subseteq Rules
<1>1. CASE content = Missing
  BY <1>1, MissingGrantsNothing
<1>2. CASE content \in Contents
  <2>1. content \in Seq(Rules \cup {Bad})
    BY <1>2, ContentsAssumption
  <2>2. \A i \in DOMAIN content : i \in 1..i /\ content[i] \in Rules \cup {Bad}
    BY <2>1
  <2> QED
    BY <2>2 DEF Readable
<1> QED
  BY <1>1, <1>2 DEF Content

(* What all files grant are rules, file by file. *)
LEMMA GrantsTypeOK ==
  ASSUME policyFiles \in [Paths -> Content]
  PROVE  AllReadable \subseteq Rules /\ Grants \subseteq Paths \X Rules
BY ReadableRules DEF AllReadable, Grants

-----------------------------------------------------------------------------
LEMMA PolicyInitTypeOK == PolicyInit => PolicyTypeOK
BY DEF PolicyInit, PolicyTypeOK

(* Every step of a load keeps the types. *)
LEMMA LoadStepTypeOK ==
  ASSUME PolicyTypeOK, LoadStep
  PROVE  PolicyTypeOK'
<1> USE DEF PolicyTypeOK, forceVars
<1>1. policyFiles \in [Paths -> Content]
  BY DEF Content
<1>2. CASE StartLoad
  BY <1>1, <1>2, GrantsTypeOK DEF StartLoad
<1>3. CASE EndLoad
  BY <1>3 DEF EndLoad, InForce
<1>4. ASSUME NEW p \in Paths, LoadFile(p)
      PROVE  PolicyTypeOK'
  <2>1. Readable(policyFiles[p]) \subseteq Rules
    BY <1>1, ReadableRules
  <2> QED
    BY <1>4, <2>1 DEF LoadFile, UnreadAfter
<1> QED
  BY <1>2, <1>3, <1>4 DEF LoadStep

(* So does an edit. *)
LEMMA EditPolicyTypeOK ==
  ASSUME PolicyTypeOK, NEW p \in Paths, NEW content \in Content,
         EditPolicy(p, content)
  PROVE  PolicyTypeOK'
<1>1. Readable(content) \subseteq Rules
  BY ReadableRules
<1>2. policyFiles' \in [Paths -> Contents \cup {Missing}]
  BY DEF EditPolicy, PolicyTypeOK, Content
<1> QED
  BY <1>1, <1>2 DEF EditPolicy, PolicyTypeOK, loadVars, forceVars

-----------------------------------------------------------------------------
(* While a load goes on, what was read of a file stays seen; what every    *)
(* file granted all along is read already or in a file yet to be read.     *)
LoadInv ==
    /\ loaded \subseteq seenLoading
    /\ ~loading => loaded = {}
    /\ loading => AllReadable \subseteq seenLoading
    /\ heldLoading \subseteq Grants
    /\ loading => \A h \in heldLoading : h[1] \in unread \/ h[2] \in loaded

PolicyInv ==
    /\ PolicyTypeOK
    /\ LoadInv
    /\ RevokedIsGone
    /\ GrantedIsKept

LEMMA PolicyInitInv == PolicyInit => PolicyInv
BY PolicyInitTypeOK
DEF PolicyInit, PolicyInv, LoadInv, RevokedIsGone, GrantedIsKept

(* A load starts: a file that grants something is there and will be read. *)
LEMMA StartLoadInv ==
  ASSUME PolicyInv, StartLoad
  PROVE  PolicyInv'
<1>1. PolicyTypeOK'
  BY LoadStepTypeOK DEF PolicyInv, LoadStep
<1>2. policyFiles' = policyFiles
  BY DEF StartLoad
<1>3. AllReadable' = AllReadable /\ Grants' = Grants
  BY <1>2 DEF AllReadable, Grants
<1>4. \A h \in Grants : h[1] \in unread'
  BY MissingGrantsNothing DEF StartLoad, Grants
<1>5. LoadInv'
  BY <1>3, <1>4 DEF StartLoad, LoadInv
<1>6. RevokedIsGone' /\ GrantedIsKept'
  BY DEF PolicyInv, StartLoad, forceVars, RevokedIsGone, GrantedIsKept
<1> QED
  BY <1>1, <1>5, <1>6 DEF PolicyInv

(* A file is read: what it grants was seen, and all of it is loaded. *)
LEMMA LoadFileInv ==
  ASSUME PolicyInv, NEW p \in Paths, LoadFile(p)
  PROVE  PolicyInv'
<1>1. PolicyTypeOK'
  BY LoadStepTypeOK DEF PolicyInv, LoadStep
<1>2. AllReadable' = AllReadable /\ Grants' = Grants
  BY DEF LoadFile, AllReadable, Grants
<1>3. Readable(policyFiles[p]) \subseteq seenLoading
  BY DEF PolicyInv, LoadInv, LoadFile, AllReadable
<1>4. \A h \in heldLoading : h[1] = p => h[2] \in Readable(policyFiles[p])
  BY DEF PolicyInv, LoadInv, Grants
<1>5. LoadInv'
  BY <1>2, <1>3, <1>4 DEF PolicyInv, LoadInv, LoadFile, UnreadAfter
<1>6. RevokedIsGone' /\ GrantedIsKept'
  BY DEF PolicyInv, LoadFile, forceVars, RevokedIsGone, GrantedIsKept
<1> QED
  BY <1>1, <1>5, <1>6 DEF PolicyInv

(* A load ends: no file is left, so what was held is loaded. *)
LEMMA EndLoadInv ==
  ASSUME PolicyInv, EndLoad
  PROVE  PolicyInv'
<1>1. PolicyTypeOK'
  BY LoadStepTypeOK DEF PolicyInv, LoadStep
<1>2. LoadInv'
  BY DEF EndLoad, LoadInv
<1>3. RevokedIsGone' /\ GrantedIsKept'
  BY DEF PolicyInv, LoadInv, EndLoad, InForce, RevokedIsGone, GrantedIsKept
<1> QED
  BY <1>1, <1>2, <1>3 DEF PolicyInv

(* A file is edited: its new rules are seen, its lost ones no longer held. *)
LEMMA EditPolicyInv ==
  ASSUME PolicyInv, NEW p \in Paths, NEW content \in Content,
         EditPolicy(p, content)
  PROVE  PolicyInv'
<1>1. PolicyTypeOK'
  BY EditPolicyTypeOK DEF PolicyInv
<1>2. /\ policyFiles \in [Paths -> Contents \cup {Missing}]
      /\ policyFiles' = [policyFiles EXCEPT ![p] = content]
  BY DEF PolicyInv, PolicyTypeOK, EditPolicy
<1>3. AllReadable' \subseteq AllReadable \cup Readable(content)
  BY <1>2 DEF AllReadable
<1>4. heldLoading' \subseteq Grants'
  BY <1>2 DEF PolicyInv, LoadInv, EditPolicy, Grants
<1>5. loaded' \subseteq seenLoading'
  BY DEF PolicyInv, LoadInv, EditPolicy
<1>6. LoadInv'
  BY <1>3, <1>4, <1>5 DEF PolicyInv, LoadInv, EditPolicy
<1>7. RevokedIsGone' /\ GrantedIsKept'
  BY DEF PolicyInv, EditPolicy, forceVars, RevokedIsGone, GrantedIsKept
<1> QED
  BY <1>1, <1>6, <1>7 DEF PolicyInv

(* A step that leaves the policy alone. *)
LEMMA PolicyStutterInv ==
  ASSUME PolicyInv, UNCHANGED policyVars
  PROVE  PolicyInv'
BY DEF policyVars, loadVars, forceVars, PolicyInv, PolicyTypeOK, LoadInv,
       AllReadable, Grants, RevokedIsGone, GrantedIsKept

LEMMA LoadStepInv == PolicyInv /\ LoadStep => PolicyInv'
BY StartLoadInv, LoadFileInv, EndLoadInv DEF LoadStep

-----------------------------------------------------------------------------
(***************************************************************************)
(* The tokens and the cached keys (Tokens).                                *)
(***************************************************************************)
(* The token of a request has a type. *)
LEMMA CredsType ==
  ASSUME TokenTypeOK, NEW r \in Calls
  PROVE  creds[r] \in Credential /\ creds[r].token \in Token
BY TokensAssumption DEF TokenTypeOK, Credential

LEMMA TokenInitTypeOK == TokenInit => TokenTypeOK
BY TokensAssumption
DEF TokenInit, TokenTypeOK, NotCached, Stage, Users

(* The steps of authenticate keep the types. *)
LEMMA ArriveTypeOK ==
  ASSUME TokenTypeOK, NEW r \in Calls, Arrive(r)
  PROVE  TokenTypeOK'
<1>1. UNCHANGED <<providerVars, cacheVars, uri>>
  BY DEF Arrive
<1>2. PICK c \in Credentials : creds' = [creds EXCEPT ![r] = c]
  BY DEF Arrive
<1>3. /\ status' \in [Calls -> {0, 200, 400, 401, 403, 500}]
      /\ stage' \in [Calls -> Stage]
      /\ user' \in [Calls -> Users]
  BY DEF Arrive, Answered, Authenticated, TokenTypeOK, Stage, Users
<1>4. cameAt' \in [Calls -> Nat]
  BY TokensAssumption DEF Arrive, TokenTypeOK
<1> QED
  BY <1>1, <1>2, <1>3, <1>4 DEF TokenTypeOK, providerVars, cacheVars

LEMMA ValidateTypeOK ==
  ASSUME TokenTypeOK, NEW r \in Calls, Validate(r)
  PROVE  TokenTypeOK'
<1> USE DEF TokenTypeOK, providerVars, cacheVars
<1>1. CASE FetchConfig(r)
  <2>1. clock \in Nat
    BY TokensAssumption
  <2> QED
    BY <1>1, <2>1 DEF FetchConfig, Stage
<1>2. CASE FailFetchConfig(r)
  BY <1>2 DEF FailFetchConfig, Answered, Stage
<1>3. CASE FetchKey(r)
  <2>1. creds[r].token.client \in Users
    BY CredsType DEF Token, Users
  <2> QED
    BY <1>3, <2>1 DEF FetchKey, Answered, Authenticated, Stage
<1>4. CASE FailFetchKey(r)
  BY <1>4 DEF FailFetchKey, Answered, Stage
<1> QED
  BY <1>1, <1>2, <1>3, <1>4 DEF Validate

(* So do the steps of the provider. *)
LEMMA ProviderStepTypeOK ==
  ASSUME TokenTypeOK, ProviderStep, UNCHANGED <<cacheVars, callVars>>
  PROVE  TokenTypeOK'
<1> USE DEF TokenTypeOK, cacheVars, callVars
<1>1. CASE MoveKeys
  BY <1>1, TokensAssumption DEF MoveKeys
<1>2. CASE Tick
  BY <1>2, TokensAssumption DEF Tick
<1>3. ASSUME NEW u \in Uris, ReplaceKeys(u)
      PROVE  TokenTypeOK'
  BY <1>3 DEF ReplaceKeys
<1> QED
  BY <1>1, <1>2, <1>3 DEF ProviderStep

-----------------------------------------------------------------------------
(* The provider named the cached URI when it was cached, or later; and the *)
(* one a request uses less than Ttl before the request came.               *)
CacheInv ==
    /\ \A u \in Uris : leftAt[u] <= clock
    /\ \A r \in Calls : cameAt[r] <= clock
    /\ cachedAt # NotCached => LastNamed(cachedUri) >= cachedAt
    /\ \A r \in Calls : stage[r] = "key" => LastNamed(uri[r]) + Ttl > cameAt[r]

TokenInv == TokenTypeOK /\ CacheInv

(* Times are integers. *)
LEMMA Times ==
  ASSUME TokenTypeOK
  PROVE  /\ clock \in Nat /\ Ttl \in Nat \ {0}
         /\ cachedAt \in Int
         /\ \A u \in Uris : leftAt[u] \in Int /\ LastNamed(u) \in Int
         /\ \A r \in Calls : cameAt[r] \in Nat
BY TokensAssumption DEF TokenTypeOK, NotCached, LastNamed

LEMMA TokenInitInv == TokenInit => TokenInv
BY TokenInitTypeOK, TokensAssumption DEF TokenInit, TokenInv, CacheInv

(* A request comes: it is not yet at the keys. *)
LEMMA ArriveInv ==
  ASSUME TokenInv, NEW r \in Calls, Arrive(r)
  PROVE  TokenInv'
<1>1. TokenTypeOK'
  BY ArriveTypeOK DEF TokenInv
<1>2. stage'[r] # "key" /\ \A q \in Calls \ {r} : stage'[q] = stage[q]
  BY DEF TokenInv, TokenTypeOK, Arrive, Answered, Authenticated
<1>3. cameAt' = [cameAt EXCEPT ![r] = clock]
  BY DEF Arrive
<1>4. UNCHANGED <<clock, namedUri, leftAt, cachedUri, cachedAt, uri>>
  BY DEF Arrive, providerVars, cacheVars
<1>5. \A u \in Uris : LastNamed(u)' = LastNamed(u)
  BY <1>4 DEF LastNamed
<1> QED
  BY <1>1, <1>2, <1>3, <1>4, <1>5, Times DEF TokenInv, CacheInv, TokenTypeOK

(* A request goes on.  What it reads of the cache is at most Ttl old. *)
LEMMA ValidateInv ==
  ASSUME TokenInv, NEW r \in Calls, Validate(r)
  PROVE  TokenInv'
<1>1. TokenTypeOK'
  BY ValidateTypeOK DEF TokenInv
<1>2. UNCHANGED <<clock, namedUri, leftAt, cameAt>>
  BY DEF Validate, FetchConfig, FailFetchConfig, FetchKey, FailFetchKey,
         providerVars
<1>3. \A u : LastNamed(u)' = LastNamed(u)
  BY <1>2 DEF LastNamed
<1>4. CASE FetchConfig(r)
  <2>1. LastNamed(namedUri) = clock
    BY DEF LastNamed
  <2>2. /\ cachedAt' # NotCached => LastNamed(cachedUri') >= cachedAt'
        /\ LastNamed(uri'[r]) + Ttl > cameAt[r]
    <3>1. CASE Cached /\ uri' = [uri EXCEPT ![r] = cachedUri] /\ UNCHANGED cacheVars
      BY <3>1, Times DEF TokenInv, CacheInv, Cached, cacheVars, TokenTypeOK
    <3>2. CASE /\ uri' = [uri EXCEPT ![r] = namedUri]
               /\ cachedUri' = namedUri /\ cachedAt' = clock
      BY <2>1, <3>2, Times DEF TokenInv, CacheInv, TokenTypeOK
    <3> QED
      BY <1>4, <3>1, <3>2 DEF FetchConfig
  <2>3. \A q \in Calls \ {r} : stage'[q] = stage[q] /\ uri'[q] = uri[q]
    BY <1>4 DEF FetchConfig, TokenInv, TokenTypeOK
  <2> QED
    BY <1>1, <1>2, <1>3, <2>2, <2>3 DEF TokenInv, CacheInv, TokenTypeOK
<1>5. CASE FailFetchConfig(r) \/ FetchKey(r) \/ FailFetchKey(r)
  <2>1. UNCHANGED <<cachedUri, cachedAt, uri>>
    BY <1>5 DEF FailFetchConfig, FetchKey, FailFetchKey, cacheVars
  <2>2. stage'[r] # "key" /\ \A q \in Calls \ {r} : stage'[q] = stage[q]
    BY <1>5 DEF FailFetchConfig, FetchKey, FailFetchKey, Answered,
                Authenticated, TokenInv, TokenTypeOK
  <2> QED
    BY <1>1, <1>2, <1>3, <2>1, <2>2 DEF TokenInv, CacheInv, TokenTypeOK
<1> QED
  BY <1>4, <1>5 DEF Validate

(* The provider moves on: no URI was named for less long than before. *)
LEMMA ProviderStepInv ==
  ASSUME TokenInv, ProviderStep, UNCHANGED <<cacheVars, callVars>>
  PROVE  TokenInv'
<1>1. TokenTypeOK'
  BY ProviderStepTypeOK DEF TokenInv
<1>2. UNCHANGED <<cachedUri, cachedAt, stage, uri, cameAt>>
  BY DEF cacheVars, callVars
<1>3. /\ clock' >= clock
      /\ \A u \in Uris : leftAt'[u] <= clock' /\ LastNamed(u)' >= LastNamed(u)
  <2>1. CASE MoveKeys
    BY <2>1, Times DEF MoveKeys, LastNamed, TokenInv, CacheInv, TokenTypeOK
  <2>2. CASE Tick
    BY <2>2, Times DEF Tick, LastNamed, TokenInv, CacheInv
  <2>3. ASSUME NEW u \in Uris, ReplaceKeys(u)
        PROVE  UNCHANGED <<clock, namedUri, leftAt>>
    BY <2>3 DEF ReplaceKeys
  <2>4. CASE UNCHANGED <<clock, namedUri, leftAt>>
    BY <2>4, Times DEF LastNamed, TokenInv, CacheInv
  <2> QED
    BY <2>1, <2>2, <2>3, <2>4 DEF ProviderStep
<1>4. /\ cachedUri \in Uris
      /\ \A r \in Calls : uri[r] \in Uris
  BY DEF TokenInv, TokenTypeOK
<1>5. \A u \in Uris : LastNamed(u) \in Int /\ LastNamed(u)' \in Int
  BY <1>1, Times, TokensAssumption DEF TokenInv, TokenTypeOK, LastNamed
<1>6. clock' \in Nat
  BY <1>1, TokensAssumption DEF TokenTypeOK
<1>7. cachedAt # NotCached => LastNamed(cachedUri)' >= cachedAt
  BY <1>2, <1>3, <1>4, <1>5, Times DEF TokenInv, CacheInv
<1>8. \A r \in Calls : stage[r] = "key" => LastNamed(uri[r])' + Ttl > cameAt[r]
  BY <1>2, <1>3, <1>4, <1>5, Times DEF TokenInv, CacheInv
<1> QED
  BY <1>1, <1>2, <1>3, <1>6, <1>7, <1>8, Times DEF TokenInv, CacheInv, LastNamed

(* The status codes of answers, and 0 before one. *)
Codes == {0, 200, 400, 401, 403, 500}

(* A request that is authenticated goes on or is answered. *)
LEMMA MovedOnInv ==
  ASSUME TokenInv, NEW r \in Calls, NEW s \in Stage \ {"key"},
         NEW code \in Codes,
         stage' = [stage EXCEPT ![r] = s],
         status' = [status EXCEPT ![r] = code],
         UNCHANGED <<providerVars, cacheVars, creds, uri, user, cameAt>>
  PROVE  TokenInv'
<1> USE DEF providerVars, cacheVars
<1>1. TokenTypeOK'
  BY DEF TokenInv, TokenTypeOK, Codes
<1>2. \A u \in Uris : LastNamed(u)' = LastNamed(u)
  BY DEF LastNamed
<1>3. \A q \in Calls : stage'[q] = "key" => stage[q] = "key"
  BY DEF TokenInv, TokenTypeOK
<1> QED
  BY <1>1, <1>2, <1>3 DEF TokenInv, CacheInv, TokenTypeOK

LEMMA TokenStutterInv ==
  ASSUME TokenInv, UNCHANGED tokenVars
  PROVE  TokenInv'
BY DEF tokenVars, providerVars, cacheVars, callVars, TokenInv, TokenTypeOK,
       CacheInv, LastNamed

-----------------------------------------------------------------------------
(* Only FetchKey authenticates by a token, with a key published at the URI *)
(* of the request, which CacheInv bounds.                                  *)
LEMMA FetchKeyCurrent ==
  ASSUME TokenInv, NEW r \in Calls, FetchKey(r), stage'[r] = "authenticated"
  PROVE  \E u \in Uris :
           /\ creds[r].token.key \in jwks[u]
           /\ LastNamed(u) + Ttl > cameAt[r]
<1>1. stage[r] = "key"
  BY DEF FetchKey
<1>2. creds[r].token.key \in jwks[uri[r]]
  BY DEF FetchKey, Answered, TokenInv, TokenTypeOK
<1>3. uri[r] \in Uris /\ LastNamed(uri[r]) + Ttl > cameAt[r]
  BY <1>1 DEF TokenInv, TokenTypeOK, CacheInv
<1> QED
  BY <1>2, <1>3

(* So no step of authenticate accepts another token. *)
LEMMA ValidateCurrent ==
  ASSUME TokenInv, NEW r \in Calls, Validate(r)
  PROVE  \A q \in Calls :
           stage[q] = "key" /\ stage'[q] = "authenticated" =>
             \E u \in Uris :
               /\ creds[q].token.key \in jwks[u]
               /\ LastNamed(u) + Ttl > cameAt[q]
<1>1. \A q \in Calls \ {r} : stage'[q] = stage[q]
  BY DEF Validate, FetchConfig, FailFetchConfig, FetchKey, FailFetchKey,
         Answered, Authenticated, TokenInv, TokenTypeOK
<1>2. stage'[r] = "authenticated" => FetchKey(r)
  BY DEF Validate, FetchConfig, FailFetchConfig, FailFetchKey,
         Answered, TokenInv, TokenTypeOK
<1>3. stage'[r] = "authenticated" =>
        \E u \in Uris :
          /\ creds[r].token.key \in jwks[u]
          /\ LastNamed(u) + Ttl > cameAt[r]
  BY <1>2, FetchKeyCurrent
<1> QED
  BY <1>1, <1>3

-----------------------------------------------------------------------------
(***************************************************************************)
(* Both together, and the requests they let in (Access).                   *)
(***************************************************************************)
(* What a served request needed was allowed. *)
Allowed(r) ==
    /\ WasAllowed(r, user[r], route[r])
    /\ route[r] = DeleteRoute =>
         config[r] # None /\ WasAllowed(r, config[r].id, config[r].bucket)

(* A request is answered 200 last, and what it asks for was allowed first. *)
ServedInv ==
    /\ \A r \in Calls : status[r] = 200 => stage[r] = "done" /\ Allowed(r)
    /\ \A r \in Calls :
         stage[r] = "admitted" => WasAllowed(r, user[r], route[r])

AccessInv ==
    /\ AccessTypeOK
    /\ PolicyInv
    /\ TokenInv
    /\ ServedInv

LEMMA AccessInitInv == AccessInit => AccessInv
<1> SUFFICES ASSUME AccessInit PROVE AccessInv
  OBVIOUS
<1>1. PolicyInv /\ TokenInv
  BY PolicyInitInv, TokenInitInv DEF AccessInit
<1>2. AccessTypeOK
  BY <1>1, AccessAssumption
  DEF AccessInit, AccessTypeOK, PolicyInv, TokenInv
<1>3. ServedInv
  BY DEF AccessInit, TokenInit, ServedInv
<1> QED
  BY <1>1, <1>2, <1>3 DEF AccessInv

(* A step of one request: what holds of the others still does. *)
LEMMA OthersServed ==
  ASSUME ServedInv, NEW r \in Calls,
         \A q \in Calls \ {r} :
           /\ status'[q] = status[q] /\ stage'[q] = stage[q]
           /\ user'[q] = user[q] /\ route'[q] = route[q]
           /\ config'[q] = config[q] /\ allowed'[q] = allowed[q],
         status'[r] = 200 => stage'[r] = "done" /\ Allowed(r)',
         stage'[r] = "admitted" => WasAllowed(r, user[r], route[r])'
  PROVE  ServedInv'
<1>1. \A q \in Calls \ {r} :
        /\ WasAllowed(q, user[q], route[q])' <=> WasAllowed(q, user[q], route[q])
        /\ Allowed(q)' <=> Allowed(q)
  BY DEF WasAllowed, Allowed
<1> QED
  BY <1>1 DEF ServedInv

(* A step that answers nobody and asks for nothing. *)
LEMMA StutterServed ==
  ASSUME ServedInv, UNCHANGED <<status, stage, user, route, config, allowed>>
  PROVE  ServedInv'
<1>1. \A r \in Calls :
        /\ WasAllowed(r, user[r], route[r])' <=> WasAllowed(r, user[r], route[r])
        /\ Allowed(r)' <=> Allowed(r)
  BY DEF WasAllowed, Allowed
<1> QED
  BY <1>1 DEF ServedInv

-----------------------------------------------------------------------------
(* A request comes: it is not answered 200 and not admitted. *)
LEMMA RequestInv ==
  ASSUME AccessInv, NEW r \in Calls, Request(r)
  PROVE  AccessInv'
<1>1. PolicyInv'
  BY PolicyStutterInv DEF AccessInv, Request
<1>2. TokenInv'
  BY ArriveInv DEF AccessInv, Request
<1>3. AccessTypeOK'
  BY <1>1, <1>2 DEF AccessInv, AccessTypeOK, Request, PolicyInv, TokenInv
<1>4. status'[r] # 200 /\ stage'[r] # "admitted"
  BY DEF AccessInv, TokenInv, TokenTypeOK, Request, Arrive, Answered,
         Authenticated
<1>5. \A q \in Calls \ {r} :
        /\ status'[q] = status[q] /\ stage'[q] = stage[q]
        /\ user'[q] = user[q] /\ route'[q] = route[q]
        /\ config'[q] = config[q] /\ allowed'[q] = allowed[q]
  BY DEF AccessInv, AccessTypeOK, TokenInv, TokenTypeOK, Request, Arrive,
         Answered, Authenticated
<1>6. ServedInv'
  BY <1>4, <1>5, OthersServed DEF AccessInv
<1> QED
  BY <1>1, <1>2, <1>3, <1>6 DEF AccessInv

(* Authentication does not admit, and answers with a refusal only. *)
LEMMA AuthenticateInv ==
  ASSUME AccessInv, NEW r \in Calls, Authenticate(r)
  PROVE  AccessInv'
<1>1. PolicyInv'
  BY PolicyStutterInv DEF AccessInv, Authenticate
<1>2. TokenInv'
  BY ValidateInv DEF AccessInv, Authenticate
<1>3. AccessTypeOK'
  BY <1>1, <1>2 DEF AccessInv, AccessTypeOK, Authenticate, PolicyInv, TokenInv
<1>4. status'[r] # 200 /\ stage'[r] # "admitted"
  <2>1. stage[r] \in {"config", "key"}
    BY DEF Authenticate, Validate, FetchConfig, FailFetchConfig, FetchKey,
           FailFetchKey
  <2>2. status[r] # 200
    BY <2>1 DEF AccessInv, ServedInv
  <2> QED
    BY <2>2 DEF AccessInv, TokenInv, TokenTypeOK, Authenticate, Validate,
         FetchConfig, FailFetchConfig, FetchKey, FailFetchKey, Answered,
         Authenticated
<1>5. \A q \in Calls \ {r} :
        /\ status'[q] = status[q] /\ stage'[q] = stage[q]
        /\ user'[q] = user[q] /\ route'[q] = route[q]
        /\ config'[q] = config[q] /\ allowed'[q] = allowed[q]
  BY DEF AccessInv, TokenInv, TokenTypeOK, Authenticate, Validate,
         FetchConfig, FailFetchConfig, FetchKey, FailFetchKey, Answered,
         Authenticated
<1>6. ServedInv'
  BY <1>4, <1>5, OthersServed DEF AccessInv
<1> QED
  BY <1>1, <1>2, <1>3, <1>6 DEF AccessInv

(* enforce allows what a rule in force grants, which was seen. *)
LEMMA EnforceAllows ==
  ASSUME AccessInv, NEW r \in Calls, NEW subject \in Users,
         NEW obj \in Routes \cup Buckets, NEW granted \in {"admitted", "done"},
         Enforce(r, subject, obj, granted)
  PROVE  /\ PolicyInv' /\ TokenInv'
         /\ allowed' \in [Calls -> SUBSET [rule : Users \X (Routes \cup Buckets),
                                            seen : SUBSET Rules]]
         /\ UNCHANGED <<user, route, changes>>
         /\ \A q \in Calls \ {r} :
              /\ status'[q] = status[q] /\ stage'[q] = stage[q]
              /\ allowed'[q] = allowed[q]
         /\ allowed[r] \subseteq allowed'[r]
         /\ \/ /\ status'[r] = IF granted = "done" THEN 200 ELSE 0
               /\ stage'[r] = granted
               /\ WasAllowed(r, subject, obj)'
            \/ status'[r] # 200 /\ stage'[r] # "admitted"
<1> DEFINE rule == <<subject, obj>>
<1>1. PolicyInv'
  BY PolicyStutterInv DEF AccessInv, Enforce, requestVars
<1>2. UNCHANGED <<policyVars, providerVars, cacheVars, creds, uri, cameAt, route, changes>>
  BY DEF Enforce, requestVars
<1>3. seen \subseteq Rules /\ policy \subseteq seen
  BY DEF AccessInv, PolicyInv, PolicyTypeOK, RevokedIsGone
<1>4. /\ allowed \in [Calls -> SUBSET [rule : Users \X (Routes \cup Buckets),
                                         seen : SUBSET Rules]]
      /\ stage \in [Calls -> Stage]
      /\ status \in [Calls -> {0, 200, 400, 401, 403, 500}]
  BY DEF AccessInv, AccessTypeOK, TokenTypeOK
<1>5. CASE /\ rule \in policy
           /\ stage' = [stage EXCEPT ![r] = granted]
           /\ allowed' = [allowed EXCEPT ![r] = @ \cup {[rule |-> rule, seen |-> seen]}]
           /\ status' = [status EXCEPT ![r] = IF granted = "done" THEN 200 ELSE 0]
           /\ UNCHANGED user
  <2>1. TokenInv'
    <3>1. granted \in Stage \ {"key"}
      BY DEF Stage
    <3>2. CASE granted = "done"
      <4>1. status' = [status EXCEPT ![r] = 200] /\ 200 \in Codes
        BY <1>5, <3>2 DEF Codes
      <4> QED
        BY <1>2, <1>5, <3>1, <4>1, MovedOnInv DEF AccessInv
    <3>3. CASE granted # "done"
      <4>1. status' = [status EXCEPT ![r] = 0] /\ 0 \in Codes
        BY <1>5, <3>3 DEF Codes
      <4> QED
        BY <1>2, <1>5, <3>1, <4>1, MovedOnInv DEF AccessInv
    <3> QED
      BY <3>2, <3>3
  <2>2. [rule |-> rule, seen |-> seen] \in
          [rule : Users \X (Routes \cup Buckets), seen : SUBSET Rules]
    BY <1>3
  <2>3. /\ allowed'[r] = allowed[r] \cup {[rule |-> rule, seen |-> seen]}
        /\ allowed' \in [Calls -> SUBSET [rule : Users \X (Routes \cup Buckets),
                                          seen : SUBSET Rules]]
        /\ \A q \in Calls \ {r} : allowed'[q] = allowed[q]
    <3> HIDE DEF rule
    <3> QED
      BY <1>4, <1>5, <2>2
  <2>4. WasAllowed(r, subject, obj)'
    <3> DEFINE a == [rule |-> rule, seen |-> seen]
    <3>1. a.rule = <<subject, obj>> /\ a.seen = seen
      OBVIOUS
    <3>2. a \in allowed'[r]
      BY <2>3
    <3>3. <<subject, obj>> \in seen
      BY <1>3, <1>5
    <3> HIDE DEF a, rule
    <3> QED
      BY <3>1, <3>2, <3>3 DEF WasAllowed
  <2>5. /\ status'[r] = IF granted = "done" THEN 200 ELSE 0
        /\ stage'[r] = granted
        /\ \A q \in Calls \ {r} : status'[q] = status[q] /\ stage'[q] = stage[q]
    BY <1>4, <1>5
  <2>6. allowed[r] \subseteq allowed'[r]
    BY <2>3
  <2> QED
    BY <1>1, <1>2, <1>5, <2>1, <2>3, <2>4, <2>5, <2>6
<1>6. ASSUME NEW code \in {403, 500}, Answered(r, code), UNCHANGED allowed
      PROVE  /\ TokenInv' /\ UNCHANGED user
             /\ status'[r] # 200 /\ stage'[r] # "admitted"
             /\ \A q \in Calls \ {r} : status'[q] = status[q] /\ stage'[q] = stage[q]
  <2>1. TokenInv'
    <3>1. "done" \in Stage \ {"key"} /\ code \in Codes
      BY DEF Stage, Codes
    <3> QED
      BY <1>2, <1>6, <3>1, MovedOnInv DEF AccessInv, Answered
  <2> QED
    BY <1>4, <1>6, <2>1 DEF Answered
<1>7. CASE UNCHANGED allowed /\ \E code \in {403, 500} : Answered(r, code)
  BY <1>1, <1>2, <1>4, <1>6, <1>7
<1> QED
  BY <1>5, <1>7 DEF Enforce

LEMMA AuthorizeInv ==
  ASSUME AccessInv, NEW r \in Calls, Authorize(r)
  PROVE  AccessInv'
<1>1. user[r] \in Users /\ route[r] \in Routes
  BY DEF AccessInv, AccessTypeOK, TokenTypeOK
<1>2. Enforce(r, user[r], route[r], "admitted") /\ config' = config
  BY DEF Authorize, Subject
<1>3. /\ PolicyInv' /\ TokenInv'
      /\ allowed' \in [Calls -> SUBSET [rule : Users \X (Routes \cup Buckets),
                                         seen : SUBSET Rules]]
      /\ UNCHANGED <<user, route, changes>>
      /\ \A q \in Calls \ {r} :
           /\ status'[q] = status[q] /\ stage'[q] = stage[q]
           /\ allowed'[q] = allowed[q]
      /\ \/ status'[r] # 200 /\ WasAllowed(r, user[r], route[r])'
         \/ status'[r] # 200 /\ stage'[r] # "admitted"
  BY <1>1, <1>2, EnforceAllows
<1>4. AccessTypeOK'
  BY <1>2, <1>3 DEF AccessInv, AccessTypeOK, PolicyInv, TokenInv
<1>5. ServedInv'
  BY <1>2, <1>3, OthersServed DEF AccessInv
<1> QED
  BY <1>3, <1>4, <1>5 DEF AccessInv

LEMMA AuthorizeDeleteInv ==
  ASSUME AccessInv, NEW r \in Calls, AuthorizeDelete(r)
  PROVE  AccessInv'
<1>1. stage[r] = "admitted" /\ WasAllowed(r, user[r], route[r])
  BY DEF AccessInv, ServedInv, AuthorizeDelete
<1>2. CASE /\ \E code \in {400, 403} : Answered(r, code)
           /\ UNCHANGED <<requestVars, config, allowed>>
  <2>1. PICK code \in {400, 403} : Answered(r, code)
    BY <1>2
  <2>2. PolicyInv' /\ TokenInv'
    <3>1. "done" \in Stage \ {"key"} /\ code \in Codes
      BY DEF Stage, Codes
    <3>2. TokenInv'
      BY <1>2, <2>1, <3>1, MovedOnInv DEF AccessInv, Answered, requestVars
    <3> QED
      BY <1>2, <3>2, PolicyStutterInv DEF AccessInv, requestVars
  <2>3. AccessTypeOK'
    BY <1>2, <2>2 DEF AccessInv, AccessTypeOK, PolicyInv, TokenInv, requestVars
  <2>4. /\ UNCHANGED <<user, route>>
        /\ status'[r] # 200 /\ stage'[r] # "admitted"
        /\ \A q \in Calls \ {r} : status'[q] = status[q] /\ stage'[q] = stage[q]
    BY <1>2, <2>1 DEF AccessInv, TokenInv, TokenTypeOK, Answered, requestVars
  <2>5. ServedInv'
    BY <1>2, <2>4, OthersServed DEF AccessInv
  <2> QED
    BY <2>2, <2>3, <2>5 DEF AccessInv
<1>3. ASSUME NEW cfg \in Configurations, config' = [config EXCEPT ![r] = cfg],
             Enforce(r, cfg.id, cfg.bucket, "done")
      PROVE  AccessInv'
  <2>1. cfg.id \in Users /\ cfg.bucket \in Buckets /\ cfg # None
    BY AccessAssumption
  <2>2. /\ PolicyInv' /\ TokenInv'
        /\ allowed' \in [Calls -> SUBSET [rule : Users \X (Routes \cup Buckets),
                                           seen : SUBSET Rules]]
        /\ UNCHANGED <<user, route, changes>>
        /\ \A q \in Calls \ {r} :
             /\ status'[q] = status[q] /\ stage'[q] = stage[q]
             /\ allowed'[q] = allowed[q]
        /\ allowed[r] \subseteq allowed'[r]
        /\ \/ stage'[r] = "done" /\ WasAllowed(r, cfg.id, cfg.bucket)'
           \/ status'[r] # 200 /\ stage'[r] # "admitted"
    BY <1>3, <2>1, EnforceAllows
  <2>3. /\ config' \in [Calls -> Configurations \cup {None}]
        /\ config'[r] = cfg
        /\ \A q \in Calls \ {r} : config'[q] = config[q]
    BY <1>3 DEF AccessInv, AccessTypeOK
  <2>4. AccessTypeOK'
    BY <2>2, <2>3 DEF AccessInv, AccessTypeOK, PolicyInv, TokenInv
  <2>5. WasAllowed(r, user[r], route[r])'
    BY <1>1, <2>2 DEF WasAllowed
  <2>6. status'[r] = 200 => stage'[r] = "done" /\ Allowed(r)'
    BY <2>1, <2>2, <2>3, <2>5 DEF Allowed
  <2>7. ServedInv'
    BY <2>2, <2>3, <2>5, <2>6, OthersServed DEF AccessInv
  <2> QED
    BY <2>2, <2>4, <2>7 DEF AccessInv
<1> QED
  BY <1>2, <1>3 DEF AuthorizeDelete

(* A request that was admitted is served. *)
LEMMA ServeInv ==
  ASSUME AccessInv, NEW r \in Calls, Serve(r)
  PROVE  AccessInv'
<1> USE DEF requestVars
<1>1. PolicyInv'
  BY PolicyStutterInv DEF AccessInv, Serve
<1>2. TokenInv'
  <2>1. "done" \in Stage \ {"key"} /\ 200 \in Codes
    BY DEF Stage, Codes
  <2> QED
    BY <2>1, MovedOnInv DEF AccessInv, Serve, Answered
<1>3. AccessTypeOK'
  BY <1>1, <1>2 DEF AccessInv, AccessTypeOK, Serve, PolicyInv, TokenInv
<1>4. /\ UNCHANGED <<user, route, config, allowed>>
      /\ stage'[r] = "done" /\ route[r] # DeleteRoute
      /\ \A q \in Calls \ {r} : status'[q] = status[q] /\ stage'[q] = stage[q]
  BY DEF AccessInv, TokenInv, TokenTypeOK, Serve, Answered
<1>5. WasAllowed(r, user[r], route[r])'
  BY <1>4 DEF AccessInv, ServedInv, Serve, WasAllowed
<1>6. Allowed(r)'
  BY <1>4, <1>5 DEF Allowed
<1>7. ServedInv'
  BY <1>4, <1>6, OthersServed DEF AccessInv
<1> QED
  BY <1>1, <1>2, <1>3, <1>7 DEF AccessInv

(* A reload, and a change by the environment, answer nobody. *)
LEMMA ReloadInv ==
  ASSUME AccessInv, Reload
  PROVE  AccessInv'
<1>1. PolicyInv' /\ TokenInv'
  BY LoadStepInv, TokenStutterInv DEF AccessInv, Reload
<1>2. AccessTypeOK'
  BY <1>1 DEF AccessInv, AccessTypeOK, Reload, PolicyInv, TokenInv
<1>3. ServedInv'
  BY StutterServed DEF AccessInv, Reload, tokenVars, callVars
<1> QED
  BY <1>1, <1>2, <1>3 DEF AccessInv

LEMMA ChangeInv ==
  ASSUME AccessInv, Change
  PROVE  AccessInv'
<1>1. PolicyInv' /\ TokenInv'
  <2>1. CASE ProviderStep /\ UNCHANGED <<policyVars, cacheVars, callVars>>
    BY <2>1, ProviderStepInv, PolicyStutterInv DEF AccessInv
  <2>2. CASE /\ \E p \in Paths : \E content \in Contents \cup {Missing} :
                  EditPolicy(p, content)
             /\ UNCHANGED tokenVars
    BY <2>2, EditPolicyInv, TokenStutterInv DEF AccessInv, Content
  <2> QED
    BY <2>1, <2>2 DEF Change
<1>2. UNCHANGED <<status, stage, user, route, config, allowed>>
  BY DEF Change, tokenVars, callVars
<1>3. AccessTypeOK'
  BY <1>1, <1>2, AccessAssumption
  DEF AccessInv, AccessTypeOK, Change, PolicyInv, TokenInv
<1>4. ServedInv'
  BY <1>2, StutterServed DEF AccessInv
<1> QED
  BY <1>1, <1>3, <1>4 DEF AccessInv

LEMMA AccessStepInv == AccessInv /\ [AccessNext]_accessVars => AccessInv'
<1> SUFFICES ASSUME AccessInv, [AccessNext]_accessVars
             PROVE  AccessInv'
  OBVIOUS
<1>1. CASE UNCHANGED accessVars
  <2>1. PolicyInv' /\ TokenInv'
    BY <1>1, PolicyStutterInv, TokenStutterInv DEF AccessInv, accessVars
  <2>2. ServedInv'
    BY <1>1, StutterServed DEF AccessInv, accessVars, tokenVars, callVars
  <2>3. AccessTypeOK'
    BY <1>1, <2>1 DEF AccessInv, AccessTypeOK, accessVars, PolicyInv, TokenInv
  <2> QED
    BY <2>1, <2>2, <2>3 DEF AccessInv
<1> QED
  BY <1>1, RequestInv, AuthenticateInv, AuthorizeInv, AuthorizeDeleteInv,
     ServeInv, ReloadInv, ChangeInv
  DEF AccessNext

LEMMA AccessInvariant == AccessSpec => []AccessInv
BY AccessInitInv, AccessStepInv, PTL DEF AccessSpec

-----------------------------------------------------------------------------
(* Every variable keeps its type. *)
THEOREM AccessTypes == AccessSpec => []AccessTypeOK
<1>1. AccessInv => AccessTypeOK
  BY DEF AccessInv
<1> QED
  BY <1>1, AccessInvariant, PTL

(* No rule is in force that no file granted during its load: what is taken *)
(* out of the files is gone with the next load that starts (load_policy).  *)
THEOREM RevokedNotInForce == AccessSpec => []RevokedIsGone
<1>1. AccessInv => RevokedIsGone
  BY DEF AccessInv, PolicyInv
<1> QED
  BY <1>1, AccessInvariant, PTL

(* A rule that stays readable in its file while the policy is loaded is in *)
(* force after it, whatever happens to the other files                     *)
(* (_load_policy_file).                                                    *)
THEOREM GrantedInForce == AccessSpec => []GrantedIsKept
<1>1. AccessInv => GrantedIsKept
  BY DEF AccessInv, PolicyInv
<1> QED
  BY <1>1, AccessInvariant, PTL

(* No request is served that was not allowed its route, as the user        *)
(* authenticate made of it, and no delete for whose azure_client_id the    *)
(* configured bucket was not allowed too (the middlewares,                 *)
(* enforce_or_error in delete_files).                                      *)
THEOREM OnlyAllowedServed == AccessSpec => []ServedWasAllowed
<1>1. AccessInv => ServedWasAllowed
  BY DEF AccessInv, ServedInv, Allowed, ServedWasAllowed
<1> QED
  BY <1>1, AccessInvariant, PTL

(* No token is accepted on a key that the provider stopped publishing or   *)
(* named more than Ttl before the request (BearerTokenAuthBackend).        *)
THEOREM OnlyCurrentKeys == AccessSpec => KeyIsCurrent
<1> DEFINE Current == \A r \in Calls :
             stage[r] = "key" /\ stage'[r] = "authenticated" =>
               \E u \in Uris :
                 /\ creds[r].token.key \in jwks[u]
                 /\ LastNamed(u) + Ttl > cameAt[r]
<1>1. ASSUME AccessInv, [AccessNext]_accessVars
      PROVE  [Current]_tokenVars
  <2>1. ASSUME NEW r \in Calls, Request(r)
        PROVE  Current
    <3>1. \A q \in Calls : stage[q] = "key" => stage'[q] # "authenticated"
      BY <1>1, <2>1 DEF AccessInv, TokenInv, TokenTypeOK, Request, Arrive,
                        Answered, Authenticated
    <3> QED
      BY <3>1
  <2>2. ASSUME NEW r \in Calls, Authenticate(r)
        PROVE  Current
    BY <1>1, <2>2, ValidateCurrent DEF AccessInv, Authenticate
  <2>3. ASSUME NEW r \in Calls, Authorize(r) \/ AuthorizeDelete(r) \/ Serve(r)
        PROVE  Current
    <3>1. \/ UNCHANGED stage
          \/ \E s \in {"admitted", "done"} : stage' = [stage EXCEPT ![r] = s]
      BY <2>3 DEF Authorize, AuthorizeDelete, Serve, Enforce, Answered
    <3>2. \A q \in Calls : stage[q] = "key" => stage'[q] # "authenticated"
      BY <1>1, <3>1 DEF AccessInv, TokenInv, TokenTypeOK
    <3> QED
      BY <3>2
  <2>4. CASE Reload \/ Change \/ UNCHANGED accessVars
    <3>1. stage' = stage
      BY <2>4 DEF Reload, Change, accessVars, tokenVars, callVars
    <3> QED
      BY <3>1
  <2> QED
    BY <1>1, <2>1, <2>2, <2>3, <2>4 DEF AccessNext
<1> QED
  BY <1>1, AccessInvariant, PTL DEF AccessSpec, KeyIsCurrent
=============================================================================
