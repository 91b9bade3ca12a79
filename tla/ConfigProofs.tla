---------------------------- MODULE ConfigProofs ----------------------------
(***************************************************************************)
(* Theorems about ClientConfigs, for any clients, buckets, requests and    *)
(* CONFIG_TTL.                                                             *)
(***************************************************************************)
EXTENDS ClientConfigs, TLAPS

Configured(u, from, to, b) ==
    \E t \in 0..MaxTime : from <= t /\ t <= to /\ b \in current[u][t]

(* What a cache holds was configured at most Ttl before it expires. *)
CacheInv ==
    \A u \in Users :
      LET entry == cache[u]
      IN /\ entry.expires <= clock + Ttl
         /\ entry = NotCached \/ entry.expires \in 0..(MaxTime + Ttl)
         /\ entry.config # None =>
              Configured(u, entry.expires - Ttl, clock, entry.config)

(* What a request was configured with, or refused for. *)
CallsInv ==
    \A c \in Calls :
      /\ configuredAt[c] <= clock
      /\ phase[c] \in {"configured", "done"} =>
           /\ config[c] # None
           /\ Configured(user[c], configuredAt[c] - Ttl, configuredAt[c], config[c])
      /\ phase[c] = "refused" =>
           Configured(user[c], configuredAt[c], configuredAt[c], None)

(* Somebody has had a configuration of this azure_client_id and bucket. *)
WasConfigured(i, b) ==
    \E u \in Users : Configured(u, 0, clock, [id |-> i, bucket |-> b])

(* The bucket of a request is that of its instance, and was configured     *)
(* with its azure_client_id.                                               *)
BucketInv ==
    /\ \A i \in Ids : s3[i] # None => WasConfigured(i, s3[i])
    /\ \A c \in Calls :
         phase[c] = "done" => bucket[c] # None /\ bucket[c] = s3[config[c].id]

ConfigInv ==
    /\ ConfigTypeOK
    /\ files \in [Users -> FileSets]
    /\ \A u \in Users : Load(files[u], u) \in current[u][clock]
    /\ CacheInv /\ CallsInv /\ BucketInv

LEMMA ClientConfigType ==
  ASSUME NEW cfg \in ClientConfig
  PROVE  /\ cfg.id \in Ids /\ cfg.bucket \in Buckets
         /\ cfg = [id |-> cfg.id, bucket |-> cfg.bucket]
BY DEF ClientConfig

(* What is loaded is a configuration or nothing. *)
LEMMA LoadType ==
  ASSUME NEW u \in Users, NEW fs \in FileSets
  PROVE  Load(fs, u) \in ClientConfig \cup {None}
<1>1. PICK D \in SUBSET Dirs : fs \in [D -> Content]
  BY DEF FileSets
<1>2. LoadFromFile(fs) \in ClientConfig \cup {None}
  <2>1. ASSUME NEW d \in D, D = {d}, fs[d] # Invalid
        PROVE  fs[CHOOSE x \in D : TRUE] \in ClientConfig
    <3>1. (CHOOSE x \in D : TRUE) = d
      BY <2>1
    <3>2. fs[d] \in Configurations /\ Configurations \subseteq ClientConfig
      BY <1>1, <2>1, ConfigAssumption DEF Content
    <3> QED
      BY <3>1, <3>2
  <2>2. DOMAIN fs = D
    BY <1>1
  <2> QED
    BY <2>1, <2>2 DEF LoadFromFile
<1>3. LoadFromEnv(u) \in ClientConfig \cup {None}
  BY ConfigAssumption DEF LoadFromEnv, ClientConfig
<1> QED
  BY <1>2, <1>3 DEF Load

LEMMA FileSetsType ==
  ASSUME NEW fs \in FileSets
  PROVE  DOMAIN fs \subseteq Dirs /\ \A d \in DOMAIN fs : fs[d] \in Content
BY DEF FileSets

LEMMA ConfigInitInv == ConfigInit => ConfigInv
<1> SUFFICES ASSUME ConfigInit PROVE ConfigInv
  OBVIOUS
<1> USE ConfigAssumption
<1>1. \A u \in Users : files[u] \in FileSets
  BY DEF ConfigInit
<1>2. \A u \in Users : Load(files[u], u) \in ClientConfig \cup {None}
  BY <1>1, LoadType
<1>3. current \in [Users -> [0..MaxTime -> SUBSET (ClientConfig \cup {None})]]
  BY <1>2 DEF ConfigInit
<1>4. cache \in [Users -> [config : ClientConfig \cup {None}, expires : -1..(MaxTime + Ttl)]]
  BY DEF ConfigInit, NotCached
<1>5. ConfigTypeOK
  BY <1>1, <1>3, <1>4, FileSetsType DEF ConfigInit, ConfigTypeOK
<1>6. \A u \in Users : Load(files[u], u) \in current[u][clock]
  BY DEF ConfigInit
<1>7. CacheInv
  BY DEF ConfigInit, CacheInv, NotCached
<1>8. CallsInv /\ BucketInv
  BY DEF ConfigInit, CallsInv, BucketInv
<1> QED
  BY <1>5, <1>6, <1>7, <1>8 DEF ConfigInv, ConfigInit

-----------------------------------------------------------------------------
(* A lookup answers what is configured, or was within Ttl. *)
LEMMA LookupFresh ==
  ASSUME ConfigInv, NEW u \in Users
  PROVE  LET entry == Lookup(u)
         IN /\ entry \in [config : ClientConfig \cup {None}, expires : 0..(MaxTime + Ttl)]
            /\ clock <= entry.expires /\ entry.expires <= clock + Ttl
            /\ entry.config # None =>
                 Configured(u, entry.expires - Ttl, clock, entry.config)
            /\ entry.config = None => Configured(u, clock, clock, None)
<1> USE ConfigAssumption
<1> DEFINE kept == IF cache[u] = NotCached \/ Expired(cache[u])
                   THEN [config |-> None, expires |-> clock + Ttl] ELSE cache[u]
           now == Load(files[u], u)
<1>1. clock \in 0..MaxTime /\ now \in current[u][clock]
  BY DEF ConfigInv, ConfigTypeOK
<1>2. now \in ClientConfig \cup {None}
  BY LoadType DEF ConfigInv
<1>3. /\ kept \in [config : ClientConfig \cup {None}, expires : 0..(MaxTime + Ttl)]
      /\ clock <= kept.expires /\ kept.expires <= clock + Ttl
      /\ kept.config # None => Configured(u, kept.expires - Ttl, clock, kept.config)
  <2>1. CASE cache[u] = NotCached \/ Expired(cache[u])
    BY <1>1, <2>1
  <2>2. CASE ~(cache[u] = NotCached \/ Expired(cache[u]))
    <3>1. cache[u] \in [config : ClientConfig \cup {None}, expires : -1..(MaxTime + Ttl)]
      BY DEF ConfigInv, ConfigTypeOK
    <3>2. cache[u].expires \in 0..(MaxTime + Ttl) /\ clock <= cache[u].expires
      BY <1>1, <2>2, <3>1 DEF ConfigInv, CacheInv, Expired
    <3>3. kept = cache[u]
      BY <2>2
    <3>4. /\ cache[u].expires <= clock + Ttl
          /\ cache[u].config # None =>
               Configured(u, cache[u].expires - Ttl, clock, cache[u].config)
      BY DEF ConfigInv, CacheInv
    <3> HIDE DEF kept
    <3> QED
      BY <3>1, <3>2, <3>3, <3>4
  <2> QED
    BY <2>1, <2>2
<1>4. Configured(u, clock, clock, now)
  BY <1>1 DEF Configured
<1>5. Configured(u, kept.expires - Ttl, clock, now)
  BY <1>1, <1>3 DEF Configured
<1>6. Lookup(u) = IF kept.config = None THEN [kept EXCEPT !.config = now] ELSE kept
  BY DEF Lookup
<1> HIDE DEF kept, now
<1>7. CASE kept.config = None
  <2>1. /\ Lookup(u).config = now /\ Lookup(u).expires = kept.expires
        /\ Lookup(u) \in [config : ClientConfig \cup {None}, expires : 0..(MaxTime + Ttl)]
    BY <1>2, <1>3, <1>6, <1>7
  <2> QED
    BY <1>3, <1>4, <1>5, <2>1
<1>8. CASE kept.config # None
  BY <1>3, <1>6, <1>8
<1> QED
  BY <1>7, <1>8

(* A step that leaves the clock and forgets no configuration. *)
LEMMA StillConfigured ==
  ASSUME NEW u \in Users, NEW from, NEW to, NEW later, NEW b,
         \A t \in 0..MaxTime : current[u][t] \subseteq current'[u][t],
         \A t \in 0..MaxTime : t <= to => t <= later,
         Configured(u, from, to, b)
  PROVE  \E t \in 0..MaxTime : from <= t /\ t <= later /\ b \in current'[u][t]
BY DEF Configured

LEMMA ConfigureInv ==
  ASSUME ConfigInv, NEW c \in Calls, Configure(c)
  PROVE  ConfigInv'
<1> USE ConfigAssumption
<1> DEFINE entry == Lookup(user[c])
<1>1. user[c] \in Users /\ clock \in 0..MaxTime
  BY DEF ConfigInv, ConfigTypeOK
<1>2. /\ entry \in [config : ClientConfig \cup {None}, expires : 0..(MaxTime + Ttl)]
      /\ clock <= entry.expires /\ entry.expires <= clock + Ttl
      /\ entry.config # None =>
           Configured(user[c], entry.expires - Ttl, clock, entry.config)
      /\ entry.config = None => Configured(user[c], clock, clock, None)
  BY <1>1, LookupFresh
<1>3. /\ cache' = [cache EXCEPT ![user[c]] = entry]
      /\ config' = [config EXCEPT ![c] = entry.config]
      /\ configuredAt' = [configuredAt EXCEPT ![c] = clock]
      /\ phase' = [phase EXCEPT ![c] =
                     IF entry.config = None THEN "refused" ELSE "configured"]
      /\ UNCHANGED <<files, edits, clock, s3, user, bucket, current>>
      /\ phase[c] = "idle"
  BY DEF Configure
<1> HIDE DEF entry
<1>4. ConfigTypeOK'
  BY <1>1, <1>2, <1>3 DEF ConfigInv, ConfigTypeOK
<1>5. CacheInv'
  BY <1>1, <1>2, <1>3 DEF ConfigInv, ConfigTypeOK, CacheInv, Configured, NotCached
<1>6. CallsInv'
  <2>1. entry.config # None =>
          Configured(user[c], clock - Ttl, clock, entry.config)
    BY <1>1, <1>2 DEF Configured
  <2>2. ASSUME NEW e \in Calls, e # c
        PROVE  /\ configuredAt'[e] = configuredAt[e] /\ phase'[e] = phase[e]
               /\ config'[e] = config[e]
    BY <1>3, <2>2 DEF ConfigInv, ConfigTypeOK
  <2>3. /\ configuredAt'[c] = clock /\ config'[c] = entry.config
        /\ phase'[c] = IF entry.config = None THEN "refused" ELSE "configured"
    BY <1>3 DEF ConfigInv, ConfigTypeOK
  <2>4. \A u, from, to, b : Configured(u, from, to, b)' <=> Configured(u, from, to, b)
    BY <1>3 DEF Configured
  <2> QED
    BY <1>1, <1>2, <1>3, <2>1, <2>2, <2>3 DEF ConfigInv, CallsInv, Configured
<1>7. BucketInv'
  <2>1. \A k, v : WasConfigured(k, v)' <=> WasConfigured(k, v)
    BY <1>3 DEF WasConfigured, Configured
  <2>2. ASSUME NEW e \in Calls, phase'[e] = "done"
        PROVE  e # c /\ phase[e] = "done" /\ config'[e] = config[e]
    BY <1>3, <2>2 DEF ConfigInv, ConfigTypeOK
  <2> QED
    BY <1>3, <2>1, <2>2 DEF ConfigInv, BucketInv
<1> QED
  BY <1>3, <1>4, <1>5, <1>6, <1>7 DEF ConfigInv, Load, LoadFromFile, LoadFromEnv

LEMMA UseStorageInv ==
  ASSUME ConfigInv, NEW c \in Calls, UseStorage(c)
  PROVE  ConfigInv'
<1> USE ConfigAssumption
<1> DEFINE b == S3Instance(config[c])
           i == config[c].id
<1>1. /\ user[c] \in Users /\ config[c] \in ClientConfig
      /\ clock \in 0..MaxTime /\ s3 \in [Ids -> Buckets \cup {None}]
  BY DEF ConfigInv, ConfigTypeOK, CallsInv, UseStorage
<1>2. i \in Ids /\ config[c].bucket \in Buckets
      /\ config[c] = [id |-> i, bucket |-> config[c].bucket]
  BY <1>1, ClientConfigType
<1>3. b \in Buckets /\ (s3[i] # None => b = s3[i])
  BY <1>1, <1>2 DEF S3Instance
<1>4. WasConfigured(i, b)
  <2>1. CASE s3[i] # None
    BY <1>2, <1>3, <2>1 DEF ConfigInv, BucketInv
  <2>2. CASE s3[i] = None
    <3>1. Configured(user[c], configuredAt[c] - Ttl, configuredAt[c], config[c])
      BY DEF ConfigInv, CallsInv, UseStorage
    <3>2. configuredAt[c] \in 0..MaxTime /\ configuredAt[c] <= clock
      BY DEF ConfigInv, ConfigTypeOK, CallsInv
    <3>3. Configured(user[c], 0, clock, config[c])
      BY <1>1, <3>1, <3>2 DEF Configured
    <3>4. b = config[c].bucket
      BY <2>2 DEF S3Instance
    <3> QED
      BY <1>1, <1>2, <3>3, <3>4 DEF WasConfigured
  <2> QED
    BY <2>1, <2>2
<1>5. /\ s3' = [s3 EXCEPT ![i] = b]
      /\ bucket' = [bucket EXCEPT ![c] = b]
      /\ phase' = [phase EXCEPT ![c] = "done"]
      /\ UNCHANGED <<files, edits, clock, cache, user, config, configuredAt, current>>
      /\ phase[c] = "configured"
  BY DEF UseStorage
<1> HIDE DEF b
<1>6. ConfigTypeOK'
  BY <1>1, <1>2, <1>3, <1>5 DEF ConfigInv, ConfigTypeOK
<1>7. CacheInv' /\ CallsInv'
  BY <1>5 DEF ConfigInv, ConfigTypeOK, CacheInv, CallsInv, Configured
<1>8. BucketInv'
  <2>1. ASSUME NEW k \in Ids, s3'[k] # None
        PROVE  WasConfigured(k, s3'[k])
    BY <1>1, <1>2, <1>4, <1>5, <2>1 DEF ConfigInv, BucketInv
  <2>2. ASSUME NEW e \in Calls, phase'[e] = "done"
        PROVE  bucket'[e] # None /\ bucket'[e] = s3'[config[e].id]
    <3>1. CASE e = c
      <4>1. bucket'[c] = b
        BY <1>5 DEF ConfigInv, ConfigTypeOK
      <4>2. s3'[i] = b
        BY <1>1, <1>2, <1>5
      <4> QED
        BY <1>3, <3>1, <4>1, <4>2
    <3>2. CASE e # c
      <4>1. phase[e] = "done" /\ bucket'[e] = bucket[e]
        BY <1>5, <2>2, <3>2 DEF ConfigInv, ConfigTypeOK
      <4>2. bucket[e] # None /\ bucket[e] = s3[config[e].id] /\ config[e] \in ClientConfig
        BY <4>1 DEF ConfigInv, ConfigTypeOK, BucketInv, CallsInv
      <4>3. config[e].id \in Ids
        BY <4>2, ClientConfigType
      <4>4. s3'[config[e].id] = s3[config[e].id]
        BY <1>1, <1>2, <1>3, <1>5, <4>2, <4>3
      <4> QED
        BY <4>1, <4>2, <4>4
    <3> QED
      BY <3>1, <3>2
  <2>3. \A k, v : WasConfigured(k, v)' <=> WasConfigured(k, v)
    BY <1>5 DEF WasConfigured, Configured
  <2> QED
    BY <1>5, <2>1, <2>2, <2>3 DEF BucketInv
<1> QED
  BY <1>5, <1>6, <1>7, <1>8 DEF ConfigInv, Load, LoadFromFile, LoadFromEnv

(* Configurations are edited or time goes by: what was configured, was. *)
LEMMA HistoryGrows ==
  ASSUME ConfigInv,
         UNCHANGED <<cache, s3, user, phase, config, configuredAt, bucket>>,
         clock' \in Nat, clock <= clock',
         \A u \in Users : \A t \in 0..clock : current[u][t] \subseteq current'[u][t]
  PROVE  CacheInv' /\ CallsInv' /\ BucketInv'
<1> USE ConfigAssumption
<1>1. clock \in 0..MaxTime
  BY DEF ConfigInv, ConfigTypeOK
<1>2. ASSUME NEW u \in Users, NEW from \in Int, NEW to \in Int, NEW later \in Int, NEW b,
             to <= clock, to <= later, Configured(u, from, to, b)
      PROVE  Configured(u, from, later, b)'
  <2>1. PICK t \in 0..MaxTime : from <= t /\ t <= to /\ b \in current[u][t]
    BY <1>2 DEF Configured
  <2>2. t \in 0..clock /\ t <= later
    BY <1>1, <1>2, <2>1
  <2> QED
    BY <2>1, <2>2 DEF Configured
<1>3. CacheInv'
  <2> SUFFICES ASSUME NEW u \in Users
               PROVE  /\ cache[u].expires <= clock' + Ttl
                      /\ cache[u] = NotCached \/ cache[u].expires \in 0..(MaxTime + Ttl)
                      /\ cache[u].config # None =>
                           Configured(u, cache[u].expires - Ttl, clock, cache[u].config)'
    BY DEF CacheInv, NotCached
  <2>1. cache[u].expires \in Int
    BY DEF ConfigInv, ConfigTypeOK
  <2> QED
    BY <1>1, <1>2, <2>1 DEF ConfigInv, CacheInv
<1>4. CallsInv'
  <2> SUFFICES ASSUME NEW c \in Calls
               PROVE  /\ configuredAt[c] <= clock'
                      /\ phase[c] \in {"configured", "done"} =>
                           /\ config[c] # None
                           /\ Configured(user[c], configuredAt[c] - Ttl,
                                         configuredAt[c], config[c])'
                      /\ phase[c] = "refused" =>
                           Configured(user[c], configuredAt[c], configuredAt[c], None)'
    BY DEF CallsInv
  <2>1. configuredAt[c] \in 0..MaxTime /\ user[c] \in Users
    BY DEF ConfigInv, ConfigTypeOK
  <2> QED
    BY <1>1, <1>2, <2>1 DEF ConfigInv, CallsInv
<1>5. BucketInv'
  <2>1. ASSUME NEW i \in Ids, s3[i] # None
        PROVE  WasConfigured(i, s3[i])'
    <3>1. PICK u \in Users : Configured(u, 0, clock, [id |-> i, bucket |-> s3[i]])
      BY <2>1 DEF ConfigInv, BucketInv, WasConfigured
    <3>2. PICK t \in 0..MaxTime :
            0 <= t /\ t <= clock /\ [id |-> i, bucket |-> s3[i]] \in current[u][t]
      BY <3>1 DEF Configured
    <3>3. [id |-> i, bucket |-> s3'[i]] \in current'[u][t] /\ t <= clock'
      BY <1>1, <3>2
    <3> QED
      BY <3>2, <3>3 DEF WasConfigured, Configured
  <2> QED
    BY <2>1 DEF ConfigInv, BucketInv
<1> QED
  BY <1>3, <1>4, <1>5

LEMMA EditFilesInv ==
  ASSUME ConfigInv, NEW u \in Users, EditFiles(u)
  PROVE  ConfigInv'
<1> USE ConfigAssumption
<1>1. PICK fs \in FileSets :
        /\ files' = [files EXCEPT ![u] = fs]
        /\ current' = [current EXCEPT ![u][clock] = @ \cup {Load(fs, u)}]
  BY DEF EditFiles
<1>2. Load(fs, u) \in ClientConfig \cup {None}
  BY LoadType
<1>3. clock \in 0..MaxTime /\ clock' = clock /\ edits' \in 0..MaxEdits
  BY DEF ConfigInv, ConfigTypeOK, EditFiles
<1>4. files' \in [Users -> FileSets]
  BY <1>1 DEF ConfigInv
<1>5. current' \in [Users -> [0..MaxTime -> SUBSET (ClientConfig \cup {None})]]
  BY <1>1, <1>2, <1>3 DEF ConfigInv, ConfigTypeOK
<1>6. ConfigTypeOK'
  BY <1>3, <1>4, <1>5, FileSetsType DEF ConfigInv, ConfigTypeOK, EditFiles
<1>7. ASSUME NEW v \in Users, NEW t \in 0..MaxTime
      PROVE  current[v][t] \subseteq current'[v][t]
  BY <1>1, <1>3 DEF ConfigInv, ConfigTypeOK
<1>8. ASSUME NEW v \in Users
      PROVE  Load(files[v], v)' \in current'[v][clock]
  <2>1. CASE v = u
    <3>1. files'[v] = fs
      BY <1>1, <2>1 DEF ConfigInv
    <3>2. Load(files[v], v)' = Load(fs, u)
      BY <2>1, <3>1 DEF Load, LoadFromFile, LoadFromEnv
    <3>3. Load(fs, u) \in current'[u][clock]
      BY <1>1, <1>3 DEF ConfigInv, ConfigTypeOK
    <3> QED
      BY <1>3, <2>1, <3>2, <3>3
  <2>2. CASE v # u
    <3>1. files'[v] = files[v]
      BY <1>1, <2>2 DEF ConfigInv
    <3>2. Load(files[v], v)' = Load(files[v], v)
      BY <3>1 DEF Load, LoadFromFile, LoadFromEnv
    <3> QED
      BY <1>3, <1>7, <3>2 DEF ConfigInv
  <2> QED
    BY <2>1, <2>2
<1>9. CacheInv' /\ CallsInv' /\ BucketInv'
  BY <1>3, <1>7, HistoryGrows DEF EditFiles
<1> QED
  BY <1>3, <1>4, <1>6, <1>8, <1>9 DEF ConfigInv

LEMMA TickInv ==
  ASSUME ConfigInv, Tick
  PROVE  ConfigInv'
<1> USE ConfigAssumption
<1>1. /\ clock \in 0..MaxTime /\ clock' = clock + 1 /\ clock' \in 0..MaxTime
      /\ files' = files
  BY DEF ConfigInv, ConfigTypeOK, Tick
<1>2. \A u \in Users : Load(files[u], u) \in ClientConfig \cup {None}
  BY LoadType DEF ConfigInv
<1>3. \A u \in Users : \A t \in 0..MaxTime :
        current'[u][t] = IF t = clock + 1 THEN {Load(files[u], u)} ELSE current[u][t]
  BY <1>1 DEF ConfigInv, ConfigTypeOK, Tick
<1>4. current' \in [Users -> [0..MaxTime -> SUBSET (ClientConfig \cup {None})]]
  BY <1>1, <1>2 DEF ConfigInv, ConfigTypeOK, Tick
<1>5. ConfigTypeOK'
  BY <1>1, <1>4 DEF ConfigInv, ConfigTypeOK, Tick
<1>6. ASSUME NEW u \in Users
      PROVE  Load(files[u], u)' \in current'[u][clock']
  <2>1. Load(files[u], u)' = Load(files[u], u)
    BY <1>1 DEF Load, LoadFromFile, LoadFromEnv
  <2> QED
    BY <1>1, <1>3, <2>1
<1>7. CacheInv' /\ CallsInv' /\ BucketInv'
  <2>1. ASSUME NEW u \in Users, NEW t \in 0..clock
        PROVE  current[u][t] \subseteq current'[u][t]
    <3>1. t \in 0..MaxTime /\ t # clock + 1
      BY <1>1
    <3> QED
      BY <1>3, <3>1
  <2> QED
    BY <1>1, <2>1, HistoryGrows DEF Tick
<1> QED
  BY <1>1, <1>5, <1>6, <1>7 DEF ConfigInv

LEMMA RestartInv ==
  ASSUME ConfigInv, Restart
  PROVE  ConfigInv'
<1> USE ConfigAssumption
<1>1. /\ phase' = [c \in Calls |-> IF phase[c] = "idle" THEN "idle" ELSE "lost"]
      /\ cache' = [u \in Users |-> NotCached] /\ s3' = [i \in Ids |-> None]
      /\ UNCHANGED <<files, edits, clock, user, config, configuredAt, bucket, current>>
  BY DEF Restart
<1>2. ConfigTypeOK'
  BY <1>1 DEF ConfigInv, ConfigTypeOK, NotCached
<1>3. CacheInv'
  BY <1>1 DEF ConfigInv, ConfigTypeOK, CacheInv, NotCached
<1>4. CallsInv' /\ BucketInv'
  BY <1>1 DEF ConfigInv, CallsInv, BucketInv, Configured
<1> QED
  BY <1>1, <1>2, <1>3, <1>4 DEF ConfigInv, Load, LoadFromFile, LoadFromEnv

LEMMA ConfigNextInv == ConfigInv /\ [ConfigNext]_vars => ConfigInv'
<1> SUFFICES ASSUME ConfigInv, [ConfigNext]_vars PROVE ConfigInv'
  OBVIOUS
<1>1. CASE UNCHANGED vars
  BY <1>1 DEF vars, ConfigInv, ConfigTypeOK, CacheInv, CallsInv, BucketInv,
              WasConfigured, Configured, Load, LoadFromFile, LoadFromEnv
<1>2. CASE ConfigNext
  BY <1>2, ConfigureInv, UseStorageInv, EditFilesInv, TickInv, RestartInv
  DEF ConfigNext
<1> QED
  BY <1>1, <1>2

-----------------------------------------------------------------------------
(* The cache, the requests and the instances agree with the history of the *)
(* configuration files (ClientConfigService and S3Service).                *)
THEOREM ConfigInvariant == ConfigSpec => []ConfigInv
<1> QED
  BY ConfigInitInv, ConfigNextInv, PTL DEF ConfigSpec

(* The state of caches, requests and files is always of its type           *)
(* (client_config_service.py, s3_service.py).                              *)
THEOREM ConfigTypes == ConfigSpec => []ConfigTypeOK
<1>1. ConfigInv => ConfigTypeOK
  BY DEF ConfigInv
<1> QED
  BY <1>1, ConfigInvariant, PTL

(* A request runs with a configuration that was current at most CONFIG_TTL *)
(* before it came, however old the cache entry is (get_instance).          *)
THEOREM ConfigIsFreshAlways == ConfigSpec => []ConfigIsFresh
<1>1. ConfigInv => ConfigIsFresh
  BY DEF ConfigInv, CallsInv, Configured, ConfigIsFresh, CurrentIn
<1> QED
  BY <1>1, ConfigInvariant, PTL

(* A client is refused only if it has no configuration at that moment:     *)
(* `config` loads again while it holds None, against what                  *)
(* docs/client_configurations.md:46 says of caching None.                  *)
THEOREM RefusalIsCurrentAlways == ConfigSpec => []RefusalIsCurrent
<1>1. ConfigInv => RefusalIsCurrent
  BY DEF ConfigInv, CallsInv, Configured, RefusalIsCurrent, CurrentIn
<1> QED
  BY <1>1, ConfigInvariant, PTL

(* Between restarts the requests with one azure_client_id use one bucket   *)
(* (S3Service.get_instance).                                               *)
THEOREM OneBucketPerClientIdAlways == ConfigSpec => []OneBucketPerClientId
<1>1. ConfigInv => OneBucketPerClientId
  BY DEF ConfigInv, BucketInv, OneBucketPerClientId
<1> QED
  BY <1>1, ConfigInvariant, PTL

(* No request uses a bucket that was never configured together with the    *)
(* azure_client_id it runs under (get_instance, S3Service.get_instance).   *)
THEOREM BucketWasConfiguredAlways == ConfigSpec => []BucketWasConfigured
<1>1. ASSUME ConfigInv, NEW c \in Calls, phase[c] = "done"
      PROVE  \E u \in Users : [id |-> config[c].id, bucket |-> bucket[c]]
                                \in CurrentIn(u, 0, clock)
  <2>1. config[c] \in ClientConfig
    BY <1>1 DEF ConfigInv, ConfigTypeOK, CallsInv
  <2>2. config[c].id \in Ids
    BY <2>1, ClientConfigType
  <2>3. WasConfigured(config[c].id, bucket[c])
    BY <1>1, <2>2 DEF ConfigInv, BucketInv
  <2> QED
    BY <2>3 DEF WasConfigured, Configured, CurrentIn
<1>2. ConfigInv => BucketWasConfigured
  BY <1>1 DEF BucketWasConfigured
<1> QED
  BY <1>2, ConfigInvariant, PTL
=============================================================================
