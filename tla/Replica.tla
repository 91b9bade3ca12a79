------------------------------ MODULE Replica ------------------------------
(***************************************************************************)
(* One replica: uvicorn runs every call on one event loop, and the calls   *)
(* that the endpoints make to other services are synchronous, so a call    *)
(* keeps the loop until it awaits something or is answered.  Every service *)
(* ends a call within a timeout, in an answer or an exception; clamd,      *)
(* which is called with timeout=None, may stay silent.  /health runs every *)
(* StatusReporter, of the services and of what the replica itself is given *)
(* (settings, policy, configurations), and answers 200 if none failed.     *)
(***************************************************************************)
EXTENDS Integers, Sequences, SequencesExt

CONSTANTS
    Calls,         \* the calls
    Kinds,         \* the endpoints they are for
    None,          \* nobody
    Ttl,           \* how long the OIDC configuration is cached
    MaxTime,       \* bound: the clock
    MaxChanges     \* bound: services that stop or start

Services == {"authentication", "audit", "storage", "antivirus"}

(* What a report asks about: the services, and of the replica itself       *)
(* AUDIENCE and TENANT_ID, that CASBIN_POLICY is set and led to more than  *)
(* one file when AuthzService was made, and that CONFIG_DIR has a .json    *)
(* file.  The first two stay as they are while the replica runs.           *)
Parts == Services \cup {"settings", "authorisation", "configuration"}

ASSUME ReplicaAssumption ==
    /\ None \notin Calls
    /\ Kinds \subseteq {"upload", "health", "ping"}
    /\ Ttl \in Nat \ {0} /\ MaxTime \in Nat /\ MaxChanges \in Nat

VARIABLES
    kind,          \* the endpoint of each call
    infected,      \* whether its file has a virus
    ready,         \* the calls that wait for the loop
    running,       \* the call that has it
    todo,          \* what each call has still to do
    code,          \* its answer, 0 before
    failures,      \* the parts that its status report says failed
    verdict,       \* what it was told of its file
    socket,        \* whose command the clamd connection carries
    cachedAt,      \* when the OIDC configuration was fetched, or -1
    state,         \* each part: "up", "down", or "silent"
    clock, changes,
    upDuring,      \* history: the parts that were up during each health call
    downDuring,    \* history: and those that were not
    cameAt,        \* history: when each health call came
    oidcUpAt       \* history: when the identity provider was last up

callVars == <<kind, infected, ready, running, todo, code, failures, verdict>>
historyVars == <<upDuring, downDuring, cameAt, oidcUpAt>>
replicaVars == <<callVars, socket, cachedAt, state, clock, changes, historyVars>>

(* The steps of a call.  Of an upload, that is allowed and has a           *)
(* configuration: the token, whose aud is checked with the settings, the   *)
(* await of the uploaded file, the scan, the save.  A report: the          *)
(* StatusReporter.__subclasses__ in the order of their imports; version    *)
(* and ping of clamd are one exchange here.                                *)
Steps(k) ==
    CASE k = "upload" -> <<"authentication", "settings", "read", "send", "receive",
                           "storage", "audit", "answer">>
      [] k = "health" -> <<"settings", "authentication", "authorisation",
                           "configuration", "audit", "storage", "send", "receive",
                           "answer">>
      [] k = "ping" -> <<"answer">>

(* What may be left of them. *)
Rest(k) == {SubSeq(Steps(k), n, Len(Steps(k))) : n \in 1..(Len(Steps(k)) + 1)}

ReplicaTypeOK ==
    /\ kind \in [Calls -> Kinds]
    /\ infected \in [Calls -> BOOLEAN]
    /\ ToSet(ready) \subseteq Calls /\ IsInjective(ready)
    /\ running \in Calls \cup {None}
    /\ running \notin ToSet(ready)
    /\ DOMAIN todo = Calls /\ \A c \in Calls : todo[c] \in Rest(kind[c])
    /\ code \in [Calls -> {0, 200, 201, 400, 401, 403, 500, 503}]
    /\ failures \in [Calls -> SUBSET Parts]
    /\ verdict \in [Calls -> {"none", "clean", "infected"}]
    /\ socket \in Calls \cup {None}
    /\ cachedAt \in -1..MaxTime
    /\ state \in [Parts -> {"up", "down", "silent"}]
    /\ clock \in 0..MaxTime /\ changes \in 0..MaxChanges
    /\ upDuring \in [Calls -> SUBSET Parts]
    /\ downDuring \in [Calls -> SUBSET Parts]
    /\ cameAt \in [Calls -> 0..MaxTime]
    /\ oidcUpAt \in 0..MaxTime

ReplicaInit ==
    /\ kind \in [Calls -> Kinds]
    /\ infected \in [Calls -> BOOLEAN]
    /\ ready = <<>> /\ running = None
    /\ todo = [c \in Calls |-> <<>>]
    /\ code = [c \in Calls |-> 0]
    /\ failures = [c \in Calls |-> {}]
    /\ verdict = [c \in Calls |-> "none"]
    /\ socket = None /\ cachedAt = -1
    /\ state \in [Parts -> {"up", "down"}]
    /\ \A s \in Services : state[s] = "up"
    /\ clock = 0 /\ changes = 0
    /\ upDuring = [c \in Calls |-> {}]
    /\ downDuring = [c \in Calls |-> {}]
    /\ cameAt = [c \in Calls |-> 0]
    /\ oidcUpAt = 0

-----------------------------------------------------------------------------
Up == {s \in Parts : state[s] = "up"}

(* The call comes in and waits for its turn. *)
Arrive(c) ==
    /\ code[c] = 0 /\ todo[c] = <<>>
    /\ todo' = [todo EXCEPT ![c] = Steps(kind[c])]
    /\ ready' = Append(ready, c)
    /\ IF kind[c] = "health"
       THEN /\ upDuring' = [upDuring EXCEPT ![c] = Up]
            /\ downDuring' = [downDuring EXCEPT ![c] = Parts \ Up]
            /\ cameAt' = [cameAt EXCEPT ![c] = clock]
       ELSE UNCHANGED <<upDuring, downDuring, cameAt>>
    /\ UNCHANGED <<kind, infected, running, code, failures, verdict, socket,
                   cachedAt, state, clock, changes, oidcUpAt>>

(* The loop takes the call that has waited longest. *)
Resume ==
    /\ running = None /\ ready # <<>>
    /\ running' = Head(ready) /\ ready' = Tail(ready)
    /\ UNCHANGED <<kind, infected, todo, code, failures, verdict, socket,
                   cachedAt, state, clock, changes, historyVars>>

(* Mutant: the scan is awaited. *)
AwaitedScan == {"read", "send"}

(* Where a call gives the loop away. *)
Awaits == {"read"}

(* The running call goes on and keeps the loop; where it awaits, a small   *)
(* file is there already, a large one is read by another thread.           *)
GoOn(c) ==
    /\ todo' = [todo EXCEPT ![c] = Tail(@)]
    /\ \/ UNCHANGED running
       \/ Head(todo[c]) \in Awaits /\ running' = None
    /\ UNCHANGED <<kind, infected, ready, code, state, clock, changes, historyVars>>

(* The other thread is done. *)
Wake(c) ==
    /\ todo[c] # <<>> /\ c # running /\ c \notin ToSet(ready)
    /\ ready' = Append(ready, c)
    /\ UNCHANGED <<kind, infected, running, todo, code, failures, verdict, socket,
                   cachedAt, state, clock, changes, historyVars>>

Answer(c, status) ==
    /\ todo' = [todo EXCEPT ![c] = <<>>]
    /\ code' = [code EXCEPT ![c] = status]
    /\ running' = None
    /\ UNCHANGED <<kind, infected, ready, state, clock, changes, historyVars>>

(* A reporter's observations are failures until they succeed. *)
Noted(c, s) == [failures EXCEPT ![c] = @ \cup {s}]

(* Mutant: the call is tried again. *)
RetryForever(c, s) ==
    UNCHANGED <<kind, infected, ready, running, todo, code, failures, state,
                clock, changes, historyVars>>

(* An exception is an observation of /health.  It ends an upload; what an  *)
(* upload does before is in Uploads.                                       *)
Except(c, s) ==
    IF kind[c] = "health"
    THEN GoOn(c) /\ failures' = Noted(c, s)
    ELSE /\ Answer(c, CASE s = "authentication" -> 401
                        [] s = "settings" -> 403
                        [] OTHER -> 500)
         /\ UNCHANGED failures

At(c, step) == running = c /\ todo[c] # <<>> /\ Head(todo[c]) = step

(* Mutant: the configuration is kept for ever. *)
OnceCached == cachedAt # -1

Cached == cachedAt # -1 /\ clock < cachedAt + Ttl

(* Mutant: the time of expiry is taken for the time of the fetch. *)
ExpiryTime == clock + Ttl

FetchTime == clock

(* fetch_oidc_config, behind its cache. *)
Oidc(c) ==
    /\ At(c, "authentication")
    /\ \/ Cached /\ GoOn(c) /\ UNCHANGED <<failures, cachedAt>>
       \/ /\ ~Cached /\ state["authentication"] = "up"
          /\ GoOn(c) /\ cachedAt' = FetchTime /\ UNCHANGED failures
       \/ /\ ~Cached /\ state["authentication"] # "up"
          /\ Except(c, "authentication") /\ UNCHANGED cachedAt
    /\ UNCHANGED <<verdict, socket>>

(* An infected file is not saved, but the upload is recorded. *)
Skipped(c, s) == s = "storage" /\ verdict[c] = "infected"

(* boto3: head_bucket or put_object, table_status or put_item; and what    *)
(* the replica finds at home.                                              *)
Ask(c, s) ==
    /\ At(c, s)
    /\ IF state[s] = "up" \/ Skipped(c, s)
       THEN GoOn(c) /\ UNCHANGED failures
       ELSE Except(c, s)
    /\ UNCHANGED <<verdict, socket, cachedAt>>

Read(c) ==
    /\ At(c, "read") /\ GoOn(c)
    /\ UNCHANGED <<failures, verdict, socket, cachedAt>>

(* The command goes out on the connection that the one ClamdNetworkSocket  *)
(* has, which replaces the one before; ...                                 *)
Send(c) ==
    /\ At(c, "send") /\ GoOn(c)
    /\ socket' = c
    /\ UNCHANGED <<failures, verdict, cachedAt>>

(* ... and the reply is read from it.  Nothing limits the wait. *)
Receive(c) ==
    /\ At(c, "receive") /\ state["antivirus"] # "silent"
    /\ \/ /\ state["antivirus"] = "up" /\ GoOn(c)
          /\ verdict' = [verdict EXCEPT ![c] =
                           IF socket # None /\ infected[socket] /\ kind[socket] = "upload"
                           THEN "infected" ELSE "clean"]
          /\ UNCHANGED failures
       \/ state["antivirus"] = "down" /\ Except(c, "antivirus") /\ UNCHANGED verdict
    /\ socket' = None
    /\ UNCHANGED cachedAt

(* Mutant: some reporters are enough. *)
AllFailed(c) == failures[c] = Parts

HasFailures(c) == failures[c] # {}

End(c) ==
    /\ At(c, "answer")
    /\ Answer(c, CASE kind[c] = "ping" -> 200
                   [] kind[c] = "health" -> IF HasFailures(c) THEN 503 ELSE 200
                   [] kind[c] = "upload" ->
                        IF verdict[c] = "infected" THEN 400 ELSE 201)
    /\ UNCHANGED <<failures, verdict, socket, cachedAt>>

Step(c) ==
    \/ Oidc(c)
    \/ \E s \in Parts \ {"authentication", "antivirus"} : Ask(c, s)
    \/ Read(c) \/ Send(c) \/ Receive(c)
    \/ End(c)

(* The calls that the history of the services is kept for. *)
Reports(c) == kind[c] = "health" /\ todo[c] # <<>>

(* A service stops, starts, or, clamd, leaves the connection open; the     *)
(* configurations go or come.                                              *)
Change(s) ==
    /\ changes < MaxChanges /\ changes' = changes + 1
    /\ \E now \in {"up", "down"} \cup (IF s = "antivirus" THEN {"silent"} ELSE {}) :
         /\ now # state[s]
         /\ state' = [state EXCEPT ![s] = now]
         /\ upDuring' = [c \in Calls |->
              upDuring[c] \cup (IF Reports(c) /\ now = "up" THEN {s} ELSE {})]
         /\ downDuring' = [c \in Calls |->
              downDuring[c] \cup (IF Reports(c) /\ now # "up" THEN {s} ELSE {})]
    /\ oidcUpAt' = IF s = "authentication" THEN clock ELSE oidcUpAt
    /\ UNCHANGED <<callVars, socket, cachedAt, clock, cameAt>>

Tick ==
    /\ clock < MaxTime /\ clock' = clock + 1
    /\ oidcUpAt' = IF state["authentication"] = "up" THEN clock' ELSE oidcUpAt
    /\ UNCHANGED <<callVars, socket, cachedAt, state, changes, upDuring, downDuring,
                   cameAt>>

ReplicaNext ==
    \/ \E c \in Calls : Arrive(c) \/ Wake(c) \/ Step(c)
    \/ Resume
    \/ \E s \in Services \cup {"configuration"} : Change(s)
    \/ Tick

ReplicaSpec == ReplicaInit /\ [][ReplicaNext]_replicaVars

(* The loop takes ready calls, and every call to a service but clamd ends. *)
ReplicaFairness ==
    /\ WF_replicaVars(Resume)
    /\ \A c \in Calls : WF_replicaVars(Wake(c)) /\ WF_replicaVars(Step(c))

FairReplicaSpec == ReplicaSpec /\ ReplicaFairness

-----------------------------------------------------------------------------
(* A scan answers for its own file: all calls share one ClamdNetworkSocket *)
(* with one connection, and only because the loop is not given away        *)
(* between command and reply does nobody get another file's verdict        *)
(* (ClamAVService.check has no await).                                     *)
VerdictIsOwn ==
    \A c \in Calls :
      kind[c] = "upload" /\ verdict[c] # "none" =>
        (verdict[c] = "infected") = infected[c]

(* /health is true to every part: 200 means that each service was up, and  *)
(* settings, policy and configurations were there, at some time while the  *)
(* report was made, the identity provider within Ttl before as its         *)
(* configuration is cached; 503 means that one of them was not, at some    *)
(* time meanwhile (get_status, has_failures).  A replica that was started  *)
(* with a single policy file is one of those: it answers 503 for ever.     *)
HealthIsTrue ==
    \A c \in Calls :
      kind[c] = "health" =>
        /\ code[c] = 200 =>
             /\ Parts \ {"authentication"} \subseteq upDuring[c]
             /\ "authentication" \in upDuring[c] \/ oidcUpAt + Ttl > cameAt[c]
        /\ code[c] = 503 => downDuring[c] # {}

(* Whoever has come is answered, or clamd is silent for ever and the loop  *)
(* waits for it: one scan that never ends is the only way to lose a call,  *)
(* and then loses every call of the replica, /health and /ping included.   *)
BlockedByScan ==
    running # None /\ At(running, "receive") /\ state["antivirus"] = "silent"

AllAnswered ==
    \A c \in Calls : todo[c] # <<>> ~> (code[c] # 0 \/ []BlockedByScan)
=============================================================================
