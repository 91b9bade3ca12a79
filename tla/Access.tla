------------------------------- MODULE Access -------------------------------
(***************************************************************************)
(* Who gets through: every request is authenticated (BearerTokenMiddleware *)
(* is outside of CasbinMiddleware), then the policy is asked for its user  *)
(* and route, and delete_files asks once more, for the azure_client_id and *)
(* the bucket of the configuration the request was given (ClientConfigs    *)
(* has where that comes from, and that neither need be the user's own).    *)
(* The policy is reloaded by a thread of its own, so also in between;      *)
(* SyncedEnforcer's lock keeps enforce and load_policy apart.              *)
(***************************************************************************)
EXTENDS Policies, Tokens

CONSTANTS
    Routes,        \* method and path
    DeleteRoute,   \* DELETE /delete_files
    Buckets,       \* DELETE on each bucket
    Configurations, \* the configurations client_config_middleware may give
    None,          \* no configuration
    Misfit,        \* a policy line that has too few or too many fields
    MaxChanges     \* bound: steps of the environment

ASSUME AccessAssumption ==
    /\ DeleteRoute \in Routes
    /\ Rules \subseteq (Users \X (Routes \cup Buckets)) \cup {Misfit}
    /\ Misfit \notin Users \X (Routes \cup Buckets)
    /\ Configurations \subseteq [id : Users, bucket : Buckets]
    /\ None \notin Configurations
    /\ MaxChanges \in Nat

VARIABLES
    route,         \* what each request asks for
    config,        \* client_config of each delete that names files
    allowed,       \* history: what it was allowed, by the rules of when
    changes        \* the steps of the environment so far

accessVars == <<policyVars, tokenVars, route, config, allowed, changes>>

AccessTypeOK ==
    /\ PolicyTypeOK /\ TokenTypeOK
    /\ route \in [Calls -> Routes]
    /\ config \in [Calls -> Configurations \cup {None}]
    /\ allowed \in [Calls -> SUBSET [rule : Users \X (Routes \cup Buckets),
                                     seen : SUBSET Rules]]
    /\ changes \in 0..MaxChanges

AccessInit ==
    /\ PolicyInit /\ TokenInit
    /\ route = [r \in Calls |-> DeleteRoute]
    /\ config = [r \in Calls |-> None]
    /\ allowed = [r \in Calls |-> {}]
    /\ changes = 0

(* The application serves once the enforcer is made. *)
Request(r) ==
    /\ serving
    /\ Arrive(r)
    /\ \E path \in Routes : route' = [route EXCEPT ![r] = path]
    /\ config' = [config EXCEPT ![r] = None]
    /\ allowed' = [allowed EXCEPT ![r] = {}]
    /\ UNCHANGED <<policyVars, changes>>

Authenticate(r) ==
    /\ Validate(r)
    /\ UNCHANGED <<policyVars, route, config, allowed, changes>>

(* Mutant: the user is the one before authentication. *)
NobodyYet(r) == Anonymous

Subject(r) == user[r]

requestVars == <<policyVars, providerVars, cacheVars, creds, uri, cameAt,
                 route, changes>>

(* enforce, in the middleware or in the endpoint: some rule that allows it *)
(* ends the search.  A Misfit that is met before raises, for everybody.    *)
Enforce(r, subject, obj, granted) ==
    LET rule == <<subject, obj>>
    IN /\ ~loading
       /\ \/ /\ rule \in policy
             /\ stage' = [stage EXCEPT ![r] = granted]
             /\ allowed' = [allowed EXCEPT ![r] = @ \cup {[rule |-> rule, seen |-> seen]}]
             /\ status' = [status EXCEPT ![r] = IF granted = "done" THEN 200 ELSE 0]
             /\ UNCHANGED user
          \/ /\ rule \notin policy /\ Misfit \notin policy
             /\ Answered(r, 403)
             /\ UNCHANGED allowed
          \/ /\ Misfit \in policy
             /\ Answered(r, 500)
             /\ UNCHANGED allowed
       /\ UNCHANGED requestVars

Authorize(r) ==
    /\ stage[r] = "authenticated"
    /\ Enforce(r, Subject(r), route[r], "admitted")
    /\ UNCHANGED config

(* A delete: 403 without a configuration, 400 without file_keys; else the  *)
(* configuration's azure_client_id is asked for, not the user.             *)
AuthorizeDelete(r) ==
    /\ stage[r] = "admitted" /\ route[r] = DeleteRoute /\ HasLoop(r)
    /\ \/ /\ \E code \in {400, 403} : Answered(r, code)
          /\ UNCHANGED <<requestVars, config, allowed>>
       \/ \E cfg \in Configurations :
             /\ config' = [config EXCEPT ![r] = cfg]
             /\ Enforce(r, cfg.id, cfg.bucket, "done")

Serve(r) ==
    /\ stage[r] = "admitted" /\ route[r] # DeleteRoute
    /\ Answered(r, 200)
    /\ UNCHANGED <<requestVars, config, allowed>>

Reload ==
    /\ LoadStep
    /\ UNCHANGED <<tokenVars, route, config, allowed, changes>>

Change ==
    /\ changes < MaxChanges
    /\ changes' = changes + 1
    /\ \/ /\ ProviderStep
          /\ UNCHANGED <<policyVars, cacheVars, callVars>>
       \/ /\ \E p \in Paths : \E content \in Contents \cup {Missing} :
               EditPolicy(p, content)
          /\ UNCHANGED tokenVars
    /\ UNCHANGED <<route, config, allowed>>

AccessNext ==
    \/ \E r \in Calls :
         \/ Request(r) \/ Authenticate(r)
         \/ Authorize(r) \/ AuthorizeDelete(r) \/ Serve(r)
    \/ Reload
    \/ Change

AccessSpec == AccessInit /\ [][AccessNext]_accessVars

-----------------------------------------------------------------------------
WasAllowed(r, subject, obj) ==
    \E a \in allowed[r] : a.rule = <<subject, obj>> /\ a.rule \in a.seen

(* Whoever is served was allowed it: the user the request proved to be may *)
(* ask for the route, and for a delete the azure_client_id of the          *)
(* configuration the request got may DELETE in its bucket.  Each of the    *)
(* two rules was readable in some file during the load its check used,     *)
(* which may be two loads (order of the middlewares, enforce_or_error in   *)
(* delete_files).  That the configuration is the user's, or the bucket the *)
(* one the deletion then uses, is not claimed: see ClientConfigs.          *)
ServedWasAllowed ==
    \A r \in Calls :
      status[r] = 200 =>
        /\ WasAllowed(r, user[r], route[r])
        /\ route[r] = DeleteRoute =>
             config[r] # None /\ WasAllowed(r, config[r].id, config[r].bucket)
=============================================================================
