--------------------------- MODULE ClientConfigs ---------------------------
(***************************************************************************)
(* Where a request of a client goes: ClientConfigService reads the         *)
(* client's configuration from a file or the environment and keeps it for  *)
(* CONFIG_TTL, S3Service keeps what it was first given.  One replica: its  *)
(* caches are its own.  Each lookup is one step, the event loop runs       *)
(* nothing else meanwhile, but a request looks its configuration up when   *)
(* it comes in and uses S3Service later, after other requests may have     *)
(* run.  Of a configuration the model keeps azure_client_id, which nothing *)
(* compares with the name of the file or the client, and bucket_name.      *)
(***************************************************************************)
EXTENDS Integers, FiniteSets

CONSTANTS
    Users,         \* usernames, the subjects of tokens
    Anonymous,     \* the username 'anonymous'
    Ids,           \* values of azure_client_id
    Buckets,       \* bucket names
    Configurations, \* bound: what valid files hold
    FilesBefore,   \* bound: the files there may be at the start
    Dirs,          \* directories under CONFIG_DIR
    Invalid,       \* the content of a file that is no configuration
    None,          \* no configuration
    Sources,       \* CONFIG_SOURCES
    EnvUser,       \* LOCAL_CONFIG_AZURE_CLIENT_ID
    EnvBucket,     \* LOCAL_CONFIG_BUCKET_NAME
    Ttl,           \* CONFIG_TTL in ticks
    Calls,         \* the requests that get past authentication
    MaxTime,       \* bound: ticks of the clock
    MaxEdits       \* bound: edits of configuration files

(* The parts of a ClientConfig the model keeps. *)
ClientConfig == [id : Ids, bucket : Buckets]

Content == Configurations \cup {Invalid}

(* The files {username}.json a user may have: directory -> content. *)
FileSets == UNION {[D -> Content] : D \in SUBSET Dirs}

ASSUME ConfigAssumption ==
    /\ Ttl \in Nat /\ MaxTime \in Nat /\ MaxEdits \in Nat
    /\ Sources \subseteq {"file", "env"}
    /\ Configurations \subseteq ClientConfig
    /\ EnvUser \in Ids /\ EnvBucket \in Buckets \cup {Invalid}
    /\ Invalid \notin ClientConfig /\ None \notin ClientConfig
    /\ Invalid \notin Buckets /\ None \notin Buckets
    /\ FilesBefore \subseteq [Users -> FileSets]

VARIABLES
    files,         \* per user, the files {username}.json
    edits,         \* how often they were edited
    clock,
    cache,         \* per user, _configs and _config_ttls
    s3,            \* per azure_client_id, the bucket of its S3Service instance
    user,          \* whose request each call is
    phase,
    config,        \* client_config of each call
    configuredAt,  \* history: when each call looked its configuration up
    bucket,        \* the bucket each call used
    current        \* history: per user, the configurations of each tick

vars == <<files, edits, clock, cache, s3, user, phase, config, configuredAt,
          bucket, current>>

NotCached == [config |-> None, expires |-> -1]

ConfigTypeOK ==
    /\ \A u \in Users : DOMAIN files[u] \subseteq Dirs
                          /\ \A d \in DOMAIN files[u] : files[u][d] \in Content
    /\ edits \in 0..MaxEdits
    /\ clock \in 0..MaxTime
    /\ cache \in [Users -> [config : ClientConfig \cup {None}, expires : -1..(MaxTime + Ttl)]]
    /\ s3 \in [Ids -> Buckets \cup {None}]
    /\ user \in [Calls -> Users]
    /\ phase \in [Calls -> {"idle", "configured", "done", "refused", "lost"}]
    /\ config \in [Calls -> ClientConfig \cup {None}]
    /\ configuredAt \in [Calls -> 0..MaxTime]
    /\ bucket \in [Calls -> Buckets \cup {None}]
    /\ current \in [Users -> [0..MaxTime -> SUBSET (ClientConfig \cup {None})]]

-----------------------------------------------------------------------------
(* Mutant: the file is not validated. *)
LoadUnchecked(fs) ==
    IF \E d \in DOMAIN fs : DOMAIN fs = {d}
    THEN fs[CHOOSE d \in DOMAIN fs : TRUE] ELSE None

(* load_from_file: exactly one file, and a valid one. *)
LoadFromFile(fs) ==
    IF \E d \in DOMAIN fs : DOMAIN fs = {d} /\ fs[d] # Invalid
    THEN fs[CHOOSE d \in DOMAIN fs : TRUE] ELSE None

(* load_from_env: for one user only. *)
LoadFromEnv(u) ==
    IF u = EnvUser /\ EnvBucket # Invalid
    THEN [id |-> EnvUser, bucket |-> EnvBucket] ELSE None

(* load: nothing for 'anonymous'; the file comes first, and the environment *)
(* counts only beside another source.                                      *)
Load(fs, u) ==
    LET fromFile == IF "file" \in Sources THEN LoadFromFile(fs) ELSE None
        fromEnv == IF "env" \in Sources /\ Cardinality(Sources) > 1
                   THEN LoadFromEnv(u) ELSE None
    IN IF u = Anonymous THEN None
       ELSE IF fromFile = None THEN fromEnv ELSE fromFile

(* Mutant: an entry is dropped one tick late. *)
ExpiredLate(entry) == entry # NotCached /\ clock > entry.expires + 1

Expired(entry) == entry # NotCached /\ clock > entry.expires

(* Mutant: None is cached like any configuration. *)
LookupCachingNone(u) ==
    IF cache[u] = NotCached \/ Expired(cache[u])
    THEN [config |-> Load(files[u], u), expires |-> clock + Ttl] ELSE cache[u]

(* get_instance(u).config: an expired entry is dropped, a missing one made *)
(* with a new expiry time, and a configuration of None loaded again.       *)
Lookup(u) ==
    LET entry == IF cache[u] = NotCached \/ Expired(cache[u])
                 THEN [config |-> None, expires |-> clock + Ttl] ELSE cache[u]
    IN IF entry.config = None
       THEN [entry EXCEPT !.config = Load(files[u], u)] ELSE entry

ConfigInit ==
    /\ files \in FilesBefore
    /\ edits = 0
    /\ clock = 0
    /\ cache = [u \in Users |-> NotCached]
    /\ s3 = [i \in Ids |-> None]
    /\ user \in [Calls -> Users]
    /\ phase = [c \in Calls |-> "idle"]
    /\ config = [c \in Calls |-> None]
    /\ configuredAt = [c \in Calls |-> 0]
    /\ bucket = [c \in Calls |-> None]
    /\ current = [u \in Users |-> [t \in 0..MaxTime |->
                     IF t = 0 THEN {Load(files[u], u)} ELSE {}]]

(* client_config_middleware: 403 if the user has no configuration. *)
Configure(c) ==
    LET entry == Lookup(user[c])
    IN /\ phase[c] = "idle"
       /\ cache' = [cache EXCEPT ![user[c]] = entry]
       /\ config' = [config EXCEPT ![c] = entry.config]
       /\ configuredAt' = [configuredAt EXCEPT ![c] = clock]
       /\ phase' = [phase EXCEPT ![c] =
                      IF entry.config = None THEN "refused" ELSE "configured"]
       /\ UNCHANGED <<files, edits, clock, s3, user, bucket, current>>

(* Mutants: no instance is kept; one instance for everybody. *)
NewInstance(cfg) == cfg.bucket
SharedInstance(cfg) ==
    IF \E i \in Ids : s3[i] # None
    THEN s3[CHOOSE i \in Ids : s3[i] # None] ELSE cfg.bucket

(* The instance S3Service.get_instance returns, by its bucket: the one it  *)
(* has for the azure_client_id of the configuration, or a new one.         *)
S3Instance(cfg) == IF s3[cfg.id] = None THEN cfg.bucket ELSE s3[cfg.id]

(* The calls a request makes to S3 all go through that instance. *)
UseStorage(c) ==
    LET b == S3Instance(config[c])
    IN /\ phase[c] = "configured"
       /\ s3' = [s3 EXCEPT ![config[c].id] = b]
       /\ bucket' = [bucket EXCEPT ![c] = b]
       /\ phase' = [phase EXCEPT ![c] = "done"]
       /\ UNCHANGED <<files, edits, clock, cache, user, config, configuredAt, current>>

(* Somebody adds, changes, breaks or removes configuration files. *)
EditFiles(u) ==
    /\ edits < MaxEdits
    /\ \E fs \in FileSets \ {files[u]} :
         /\ files' = [files EXCEPT ![u] = fs]
         /\ current' = [current EXCEPT ![u][clock] = @ \cup {Load(fs, u)}]
    /\ edits' = edits + 1
    /\ UNCHANGED <<clock, cache, s3, user, phase, config, configuredAt, bucket>>

Tick ==
    /\ clock < MaxTime
    /\ clock' = clock + 1
    /\ current' = [u \in Users |->
                     [current[u] EXCEPT ![clock + 1] = {Load(files[u], u)}]]
    /\ UNCHANGED <<files, edits, cache, s3, user, phase, config, configuredAt, bucket>>

(* The container restarts: the caches are empty, requests under way lost. *)
Restart ==
    /\ \E u \in Users : cache[u] # NotCached
    /\ cache' = [u \in Users |-> NotCached]
    /\ s3' = [i \in Ids |-> None]
    /\ phase' = [c \in Calls |-> IF phase[c] = "idle" THEN "idle" ELSE "lost"]
    /\ UNCHANGED <<files, edits, clock, user, config, configuredAt, bucket, current>>

ConfigNext ==
    \/ \E c \in Calls : Configure(c) \/ UseStorage(c)
    \/ \E u \in Users : EditFiles(u)
    \/ Tick
    \/ Restart

ConfigSpec == ConfigInit /\ [][ConfigNext]_vars

-----------------------------------------------------------------------------
(* The configurations a user had at some time in from..to. *)
CurrentIn(u, from, to) ==
    UNION {current[u][t] : t \in {i \in 0..MaxTime : from <= i /\ i <= to}}

(* A request never runs with a configuration that was replaced more than   *)
(* CONFIG_TTL ago, although an entry is stamped when it is made and may be *)
(* loaded later (get_instance against the property config).                *)
ConfigIsFresh ==
    \A c \in Calls :
      phase[c] \in {"configured", "done"} =>
        config[c] \in CurrentIn(user[c], configuredAt[c] - Ttl, configuredAt[c])

(* A 403 is never stale: a client whose configuration was added a moment   *)
(* ago is let in at once, even if it was refused a moment before.  This is *)
(* what `config` does, which loads again while it holds None, and what no  *)
(* document says: docs/client_configurations.md:46-47 has the result, "a   *)
(* `ClientConfig` or `None`", cached, and the comment at                   *)
(* client_config_service.py:38 speaks of "cached 'None' values".  Cached,  *)
(* as the mutant does it, a refusal would be up to CONFIG_TTL old.         *)
RefusalIsCurrent ==
    \A c \in Calls :
      phase[c] = "refused" =>
        None \in CurrentIn(user[c], configuredAt[c], configuredAt[c])

(* Until the container restarts all requests with one azure_client_id use  *)
(* one bucket, also those of other users or those that were looked up      *)
(* under different configurations.  An edit of the bucket cannot split the *)
(* files of a client over two buckets; an edit of the azure_client_id can. *)
OneBucketPerClientId ==
    \A c, e \in Calls :
      phase[c] = "done" /\ phase[e] = "done" /\ config[c].id = config[e].id
        => bucket[c] = bucket[e]

(* The bucket a request uses stood in some configuration, up to the time   *)
(* it was used, with the azure_client_id of its own: another client's      *)
(* bucket is used only if both configurations carry one azure_client_id,   *)
(* and then it is, if that client came first.                              *)
BucketWasConfigured ==
    \A c \in Calls :
      phase[c] = "done" =>
        \E u \in Users : [id |-> config[c].id, bucket |-> bucket[c]]
                             \in CurrentIn(u, 0, clock)
=============================================================================
