# Verification of the LAA Secure Document Storage API

TLA+ models of the service in `src/` and of its configuration tool, the TLC
runs that check them, and TLAPS proofs of every safety property that the runs
check. `PROJECT.json` maps
every definition to the lines it stands for and lists the runs, hazards,
findings and theorems.

    tlc -workers 2 -config UploadsRace.cfg MCUploads     # a run
    tlapm UploadsProofs.tla                              # the proofs

## 1. The system

A FastAPI service that stores clients' files in S3. It keeps no files itself:
its shared state is one S3 bucket per client and one DynamoDB audit table. The
deployment runs several replicas (`deployments/kubernetes/deployment.yml`).
Inside a replica everything runs on one asyncio thread and boto3 is called
synchronously; between replicas, anything interleaves at every call.

| Part | State | Operations | What must hold |
|---|---|---|---|
| S3 service (`s3_service.py`) | objects and versions in S3; an instance per `azure_client_id` | `file_exists`, `save`, `list_file_versions`, `delete_file_version`, `generate_file_url` | only what was asked for changes; one bucket per `azure_client_id` |
| Audit service (`audit_service.py`) | rows keyed by (x-request-id, filename position) | `add_record` | a row never claims what did not happen; no row is lost but by a reused id |
| Upload handler (`file_upload_handler.py`, `save_file`, `save_or_update_file`, `bulk_upload`) | locals of a request: `error_status`, `file_existed` | checks, existence check, save, audit, per file | success codes, rejections and rows agree with the bucket |
| Delete (`delete_files.py`) | locals: `error_status`, `outcomes` | list and delete versions per key, audit | no 204 over a failed deletion, what is reported per key holds for every time it was named; nothing else disappears |
| Reads (`retrieve_file.py`, `file_details.py`) | none | link, version history, audit | a history hides nothing that was there |
| File validation (`validation/`, `checksum_service.py`) | the position of the uploaded stream; the failures found | header, mandatory, configured validators, checksum | what is saved is whole and was checked whole; failures are all reported |
| Client configuration (`client_config_service.py`, middleware) | two caches per replica: configurations with an expiry, S3 instances without | lookup, load from file and environment | bounded staleness; no stale refusal; requests under one `azure_client_id` share a bucket that was configured for it |
| Authentication (`middleware/auth.py`) | the OIDC configuration, cached for an hour | `authenticate`: local bypass or a token, checked against the published keys | a token counts only on a key that is published, at a place that was named within the hour |
| Authorization (`authz_service.py`, `multifileadapter.py`) | the policy, replaced by a thread | `load_policy` file by file, `enforce` | revoked rules go and granted ones stay, whichever file fails; whoever is served was allowed it |
| Health and status (`routers/health.py`, `status.py`, `ping.py`, `status_reporter.py`) | the event loop; the one connection to clamd | reporters, one after the other | a report is true to every part it asks about; a scan answers for its own file |
| Config builder (`configbuilder.py`) | a configuration and a permission list per client, on disk | add, edit (get, list and find read only) | nothing is overwritten or lost, whenever the tool stops |
| Retention parser | none | pure function that nothing calls | not modelled |
| Catalogue endpoints, body parsing, logging | none | constants and parsing | not modelled |

How they interact: a request passes correlation id, authentication and
authorization middleware, gets its `ClientConfig` by dependency injection, and
then its router calls S3 and DynamoDB one call after another. No call is
transactional with another, so the hard behaviours are:

- check-then-act between replicas: existence check and put, list and delete;
- one step of several failing: audit write after a put, one deletion of many,
  one file of a bulk upload;
- lost replies: S3 applied a put and boto3 repeats it, or the save raises;
- a replica dying between two calls;
- reused `x-request-id`s: `CorrelationIdMiddleware` keeps a valid one the
  client sends, and the audit table is keyed by it;
- listing by prefix, one page at a time;
- the two caches of configuration with different lifetimes;
- a policy that is replaced by another thread while requests are under way,
  from files that come, go and break;
- keys that the identity provider moves while their place is cached;
- a tool that may be interrupted between any two of its file operations;
- one stream read by several validators, not all of which rewind it;
- a virus scan without a timeout.

`PROJECT.json` lists these hazards with their lines and properties.

## 2. Modules

    Storage  <--- Uploads  <---+                      implements
             <--- Deletes  <---+--- DocumentApi  - - - - - - - -> AuditedStore
             <--- Reads    <---+

    Policies <---+--- Access        FileChecks   ClientConfigs   Replica
    Tokens   <---+                  ConfigBuilder

    UploadsProofs <---+--- ApiProofs     AccessProofs   ChecksProofs   ConfigProofs
    DeleteProofs  <---+                  ReplicaProofs  BundleProofs
    MC*: instances for TLC

**Storage**: bucket (`store`, a set of versions), the next VersionId and
`auditTable`, with one operator per call. `by` and `pos` of a version and `by`
of a row name the request; no action reads them, only properties do. `vid`
orders puts; without versioning the code reads "Versioning not enabled" where
the model keeps a number. `ListPages` gives the pages S3 may return for a
prefix: a key precedes the keys it is a prefix of and newest versions come
first; the order of the other keys is left open.

**Uploads**: a process per request, one action per call and per way it ends
(`Save`, `SaveAgain`, `FailSave`, ...); `phase` is where
`handle_file_upload_logic` is, `at` the loop of `bulk_upload`, whose
`filename_position` is one less. `error` is the code of `error_status`, 400
standing for every 4xx of the checks. What a request asks for is chosen
initially; when it comes is free. `ask` holds the full filename, folder and
name joined.

**Deletes**: `delete_files` with both loops; `todo` is the rest of the listed
versions, `delError` the `error_status` that survives the inner loop. Not
modelled: the branch for a version without a VersionId and the
`FileNotFoundError` branch, which `list_file_versions` cannot lead to.
`delOutcomes` has a code per position; the client gets the dictionary
`outcomes`, one code per key, so of a key named twice it reads the code of the
last position, and nothing if the replica dies (`Reported`). `DeleteAuditIsTrue`
ties rows to what is gone and to the codes that are read, `ReportIsTrue` the
codes that are read to all positions of their key.

**Reads**: `get_file` and `get_file_details`; `atArrival` is a history
variable.

**DocumentApi**: uploads, deletes and reads over one bucket and one table;
each keeps its own steps. `Wants`, `store`, `auditTable` and `Answers` are the
refinement mapping to `AuditedStore`.

**AuditedStore**: what clients and auditors may rely on, without saying how: a
file is put before its answer and never after a rejection, answers come in
order and once, and a row appears only in one step with the answer it tells
of. `Fail`, the internal error, promises little, as the code does: the row may
be lost or be that of a success.

**Policies**: the files (`EditPolicy`: added, changed, broken, removed), the
thread that loads them one by one (`StartLoad`, `LoadFile`, `EndLoad`) and the
policy in force. A file is a sequence of lines; `Readable` is what the adapter
takes of it, up to a line it cannot decode. `seen` is a history of what was
readable during a load. `enforce` waits while a policy is loaded
(`SyncedEnforcer`). Patterns of paths and methods are resolved before: a rule
is a user and a route.

**Tokens**: `authenticate` from the request to the user it stands for, with
its two calls to the provider (for the OIDC configuration and for the keys), the
local bypass, and a provider that moves and replaces keys. What makes a token
unacceptable besides its key and expiry is one `fault`.

**Access**: the two in the order `main.py` puts them, and the second
enforcement of `delete_files`. The first asks for the user who was
authenticated, the second for `azure_client_id` and `bucket_name` of the
configuration that the request was given (`config`), any of `Configurations`:
that it may be old or name somebody else is the subject of `ClientConfigs`. So
`ServedWasAllowed` is about each check as the code makes it; it does not say
that the user himself may delete in that bucket, nor that the deletion uses
that bucket, as `S3Service` may keep an older one. A policy line with too few
or too many fields (`Misfit`) loads, and enforcing raises when the search meets
it before a line that allows: 500 for anybody. `GrantedIsKept` is about loading
only. Authentication and the first enforcement are
synchronous, so they keep the event loop (`HasLoop`); the thread that reloads
the policy and the provider do not care, and between the two enforcements of a
delete other requests run as well.

**FileChecks**: the checks of one file, refining what `Uploads` shows as
`PassChecks`, `FailChecks` and `RaiseChecks`. The stream is a sequence of rows
with a position; a row is the set of what scans would find in it. What the
validators of name, type and size say is an input (`codes`); what a content
scan reads, says and leaves of the stream is modelled. Within a replica no
other request touches the stream, so the module needs one file.

**Replica**: the event loop of one replica, first come first served, and the
calls it makes to other services. A call keeps the loop except where it awaits
(`Awaits`: an uploaded file that a thread reads). `/health` runs all six
reporters in the order of their imports (`Steps`). `state` is how it stands
with each part they ask about: the services, which are up, down or, clamd
only, silent, and what the replica has at home: `AUDIENCE` and `TENANT_ID`
("settings"), `CASBIN_POLICY` and more than one policy file read at the start
("authorisation"), a `.json` file below `CONFIG_DIR` ("configuration"). The
first two do not change while a replica runs. An infected upload skips the
save and is recorded (`Skipped`).

**ConfigBuilder**: add and edit, one action per file operation, with files
that were edited by hand, interruptions anywhere and commands run again on
what is left. An id may be the start of another (`StartsWith`), since the tool
looks files up by fragments of their names. Of a configuration only
`bucket_name` is kept, of a permission list the resources it names. An
interruption leaves of a configuration nothing and of a permission list the
lines written so far. A list made by hand that has lines but no permission
among them is left out: the tool loads it as an empty one, and accepting it
empties the file.

**ClientConfigs**: one replica's caches, the files they come from, a clock.
Lookup and use are two steps because other requests run in between. Of a
configuration `azure_client_id` and `bucket_name` are kept. A configuration is
found by the name of its file and cached by username, but `S3Service` keeps its
instances by the `azure_client_id` in the file, which nothing compares with
either: two files may carry one id, and then share the instance and bucket of
whichever comes first, and an edit of the id gives a client a second instance.
`OneBucketPerClientId` and `BucketWasConfigured` say what remains true. Nothing
is loaded for 'anonymous'. The sources are those of `CONFIG_SOURCES`, the
variable the code reads.

## 3. Runs

Bounds are constants in the `.cfg` files. `CHECK_DEADLOCK FALSE` throughout:
a finite set of requests ends.

| Run | Bounds | Shows |
|---|---|---|
| `UploadsRace` | 2 requests of any type, bulks of up to 2 files, 1 key, 2 request ids, 2 put attempts | success codes, rejections and rows agree with the bucket; a POST overwrites nothing older than its check |
| `FileChecksWhole` | files of 0-2 rows, lists of 0-3 validators, two rules, three kinds of scan entry | what is saved is whole and was checked whole; a rejection reports all failures under the right code |
| `DeletesPair` | 2 delete requests of 1-2 keys, 2 versions each of 2 keys, one a prefix of the other | no 204 over a failed deletion; only listed versions of the key itself go |
| `ApiMixed` | 1 upload of a file, 1 delete that names a key twice, 1 read, 2 keys, one a prefix of the other, 1 request id for all, pages of 1 | `DocumentApi` implements `AuditedStore`; a confirmed upload survives a delete that listed before it; histories hide nothing but what a page of newer versions cuts off; what a delete reports holds for both times its key was named |
| `ApiAnswered` | 1 upload and 1 delete of up to 2 files, no versioning, fair | loops end, requests are answered, without versioning too |
| `ClientConfigsCached` | 2 users and 'anonymous', 3 configurations of 2 ids and 2 buckets (one user's file may carry the other's id), 2 directories, file and environment, 2 calls, TTL 1, 2 ticks, 1 edit | configurations at most `CONFIG_TTL` old, refusals never stale, one bucket per id and container life, and one that was configured with it |
| `AccessGranted` | 1 request at a time, 2 policy files, 3 contents (one breaks off at a line, one has a misfit), configurations with the client's own id and with another, 7 kinds of credentials, 2 keys at 2 places, TTL 1, 1 tick, 2 changes around it | revoked rules go, granted ones stay, keys are current, nobody is served what he was not allowed |
| `ReplicaAnswers` | an infected upload, a `/ping`, and a clean upload or a `/health`, the latter with and without settings and policy files, 2 changes of services, TTL 1, 1 tick, fair | verdicts are not mixed up, health is true, everybody is answered unless clamd is silent |
| `BundlesWritten` | 2 ids, one the start of the other, 2 directories, 2 buckets, 2 commands, 1 edit by hand | add overwrites nothing, no permission without a configuration, a finished command wrote what was asked, what is broken was broken by an interruption or by hand |

Why these bounds are enough: the properties relate one request to one other
(a racer, a reused id, a delete) or one file to the next of its request, so
two requests with two positions show every pair of roles. One key in
`UploadsRace` makes every pair of requests collide; `ApiMixed` and
`DeletesPair` have the prefix pair. In `DeletesPair` two versions of each key
are listed, so that deletions fail in the middle. In `ApiMixed` the bucket
begins with one version of a key and the upload may put another: with pages of
one the list is then cut off, so the exception for a full page in
`DetailsHideNothing` and `ReportIsTrue` is needed (without it TLC refutes both).
Its requests all carry one `x-request-id`, so that their rows collide wherever
they can; distinct ids are in `UploadsRace`, and the refinement is proved for
any. `MaxAttempts = 2` gives one
repeated put; two rows let a scan stop before, at and after a finding; three
validators let a failure come before, between and after others. TTL 1 with
two ticks puts a lookup before, at and after expiry. In `AccessGranted` a
request may be followed by another one, two policy files let one fail while
the other is read, and two changes revoke a rule and grant one, or move the
keys and let the old place live on. In `ReplicaAnswers` two changes stop a
service and start it or another one during a report; three calls let two wait
while one runs. In `BundlesWritten` the second command runs on what an
interrupted first one, or a hand, has left. The properties that are proved
(section 5) do not rest on bounds at all.

Three runs check a statement of the documentation that the code does not keep:

| Run | Statement | What happens |
|---|---|---|
| `SaveFileUnsaved` | `save_file`: any code other than 201 means not saved | the audit write fails after the put, or the put's reply is lost: 500, and the file is there |
| `DeleteFindsOthers` | `delete_files`: 404 if file not found | the versions of a key that starts with this one are found; 204 |
| `SecondScan` | configurations doc: saved only if all validators pass | a second content scan starts at the end of the stream and finds nothing |

Divergences that modelling showed and no run checks: `delete_files` reports
204 while versions beyond the first page of the list remain, and when its
audit row is lost; `get_file_details` answers versions of keys that start with
`file_key` (same cause as `DeleteFindsOthers`); `get_file` answers 404 when S3
does not answer, as `generate_file_url` returns `None` for an exception that
is no `ClientError`; the documentation calls `CONFIG_SOURCES` `CONFIG_STORES`.

The documentation has the result of looking a configuration up, "(a
`ClientConfig` or `None`)", cached for `CONFIG_TTL`
(`docs/client_configurations.md:46-47`), and a comment speaks of "cached
'None' values" (`client_config_service.py:38`). The code caches an entry but
loads again while it holds `None`: a missing configuration is looked for on
every request. `RefusalIsCurrent` states what the code does and contradicts
both texts on purpose; its mutant is the behaviour they describe, and shows
what that would cost: a client refused a moment before its file came is refused
for `CONFIG_TTL` more.

Two POSTs of one file that both find none both answer 201, and the later one
overwrites, although `save_file` says that no existing file is overwritten;
`PostOverwritesOnlyRacers` bounds it. `S3Service` keeps the first bucket of an
`azure_client_id` until the restart, although a configuration is cached for
`CONFIG_TTL`; `OneBucketPerClientId` is the good side of it. The other side:
`delete_files` asks for the permission to delete in the bucket that is
configured, and the deletion then runs in the one that is kept. Without
versioning a delete takes whatever the key holds when its call arrives, also a
confirmed newer upload. Of a key named twice in one delete the client reads the
last code only: a deletion that failed the first time and finds what is left
the second is a 204, while the row of the first position says it failed; and
one that succeeded at once is reported 404.

In authentication and authorization: a request without credentials is
anonymous and ends in a 403 of the policy, where the troubleshooting document
speaks of a 401; a policy line of the wrong size makes enforcing raise for
everybody, where a line that cannot be decoded costs only the rest of its file;
`populated` in the status of authorisation is judged by the
files counted at the start, and needs more than one, so a replica with a single
policy file answers `/health` with 503. In the replica: `/ping`
is not always answered, a scan that clamd leaves open blocks it too. In the
config builder: an id that another one starts with cannot be edited by
itself, nor listed; two files of one id in two directories make a client's
requests 403; `edit` drops comments and lines of other subjects from the
permission list, carries a new bucket name not over to the list, and aborts
if the bucket name is deleted; the default permission line of a new client
lets it create and read only, so `delete_files` refuses it.

## 4. Fairness

`UploadFairness` and `DeleteFairness` are weak fairness of every call to S3 or
DynamoDB, in the form "it returns or it raises": boto3 has connect and read
timeouts. There is none for the arrival of requests, for crashes, or for the
checks: clamd is called with `timeout=None`, so `EventuallyAnswered` lets a
request stay in its checks for ever. A crash takes one request at a time,
which is more than a dying pod can do to the others' order. A client that
disconnects does not stop its handler. A delete that boto3 repeats has no
further effect and is not an action of its own.

`ReplicaFairness` is weak fairness of the loop taking the next call, of the
thread that reads an upload, and of every step of a running call: boto3 and
requests have timeouts, so a service that is down raises in the end. For clamd
the step is not enabled while it is silent, which is all that `AllAnswered`
excuses (`BlockedByScan`). The other modules state safety only.

## 5. Proofs

Every invariant and every action property of the passing runs, and the
refinement of `AuditedStore`, is a theorem of its specification, for all values
of the constants that satisfy the named `ASSUME`s of the modules:

| Module | Theorems |
|---|---|
| `UploadsProofs` | `UploadInvariant`, `UploadTypeCorrect`, `ConfirmedIsStoredAlways`, `RejectedIsNotStoredAlways`, `ConfirmedIsAuditedAlways`, `AuditIsTrueAlways`, `UpdateHasEarlierVersionAlways`, `PostOverwritesOnlyRacersAlways` |
| `DeleteProofs` | `DeleteInvariant`, `DeleteTypeCorrect`, `DeletedIsGoneAlways`, `DeleteAuditIsTrueAlways`, `DeletesOnlyListedAlways` |
| `ApiProofs` | `ApiInvariant`, `ApiTypeCorrect`, `ConfirmedSurvivesAlways`, `DetailsHideNothingAlways`, `ApiRejectedIsNotStored`, `ApiDeletedIsGone`, `ApiDeleteAuditIsTrue`, `ApiReportIsTrue`, `ApiDeletesOnlyListed`, `ApiPostOverwritesOnlyRacers`, `ApiImplementsAuditedStore` |
| `ChecksProofs` | `ChecksTypes`, `SavedIsWholeAlways`, `StoredPassedChecksAlways`, `ReportIsCompleteAlways` |
| `ConfigProofs` | `ConfigTypes`, `ConfigIsFreshAlways`, `RefusalIsCurrentAlways`, `OneBucketPerClientIdAlways`, `BucketWasConfiguredAlways` |
| `AccessProofs` | `AccessTypes`, `RevokedNotInForce`, `GrantedInForce`, `OnlyAllowedServed`, `OnlyCurrentKeys` |
| `ReplicaProofs` | `ReplicaInvariant`, `ReplicaTypeCorrect`, `VerdictIsOwnAlways`, `HealthIsTrueAlways` |
| `BundleProofs` | `BundleInvariant`, `BundleTypeCorrect`, `DoneIsWrittenAlways`, `BrokenByWriterAlways`, `AddOverwritesNothingAlways`, `GrantNeedsConfigAlways` |

The assumptions say what the code relies on without saying so: the initial
bucket holds finitely many versions with distinct VersionIds below `FirstVid`
that the requests themselves did not put; requests of different kinds are
different requests; bounds are naturals, a page and an attempt at least one;
only bulk uploads have several files; the config builder has finitely many
directories and clients, at least one of each, and a file that is absent is
neither a readable one nor a broken one. Each module has one invariant, one
lemma per action or per conjunct that shows it preserved, and temporal
theorems that only combine them.

**Uploads.** The properties speak of answers, so they are not inductive: an
answer is given in the step after the audit write, when the save is two calls
ago. `UploadInv` adds what a request knows in between: answers come in order
of positions (`AnsweredInOrder`), a save has no error (`SavesWithoutError`),
nothing is put before the save or after a rejection (`PutsInOrder`), after a
save without error the version is in the bucket or a newer one replaced it
(`SavedIsStored`), confirmed VersionIds are in the past (`AnsweredIsOld`), a
POST's key holds nothing older than its check (`PostFoundNothing`), and a file
found at the check stays older than what is put (`UpdatesSomething`). The
proof first reduces the thirteen actions to what they do to the bucket, the
table and the answers (`StepOnStore`, `StepOnVersions`, `StepOnPuts`,
`StepOnTable`, `StepOnAnswers`). The module starts with the lemmas about
`PutObject` and `PutItem`. `HandlerInv` is the part of `UploadInv` that holds
whoever else writes to the bucket; it is what the composition takes over.

**Deletes.** `DeleteInv` adds that VersionIds are unique (`BucketInv`), that
what is listed, not in `todo` and deleted without an error is gone
(`LoopInv`), and that outcomes are noted once and in order (`OutcomesInv`), so
that neither a list nor an outcome of an answered key is ever replaced.
`DeleteStepInv` shows it kept by a step of a delete, `DeleteKept` by anything
that brings only new versions into the bucket and no DELETE row into the
table.

**The composition.** `DocumentApi` interleaves three handlers over one bucket
and one table, and none of the theorems about one alone carries over: an
upload's invariant says that nobody deletes, a delete's that nobody puts.
`HandlersInv` is `HandlerInv`, `DeleteInv` and `ReadsInv`, each shown to be
kept by the steps of the other two kinds (`HandlersStepInv`). On top of it
`ApiInv` follows single versions: with versioning a version that was put stays
or was listed by a delete request for its key (`SavedSurvives` before the
answer, `ConfirmedSurvives` after it; the step is `SurvivesStep`), so does
every version that a reader could see when it came (`LooksForAll`), and a page
of the list that leaves out a version is full of newer ones
(`PageHidesNothing`, where the bucket must be finite), which is
`DetailsHideNothing`. `RelistedInv` follows a key that a delete names more than
once: what an earlier position listed and is still there, a later list has too
or a full page of newer versions hides it, from which `ReportIsTrue`
(`ReportOfAll`). `Backed` says, with and without versioning, that the
file of a save without error is there when its row is written, or that a
request exists which may have taken it.

**The refinement.** `ApiImplementsAuditedStore` proves
`ApiSpec => Abstract!Spec`. `InitImplements` maps the initial states;
`UploadImplements`, `DeleteImplements` and `ReadImplements` map each step of
each kind of request to one of `Put`, `Confirm`, `Reject`, `Fail`, `Erase`,
`AnswerDelete`, `AnswerRead` or to a stutter. An upload's step is first reduced
to three effects (`Stores`, `Succeeds`, `Breaks`), and the answer it gives to
one position of one request (`AnswerAt`). That it is the position whose turn
it is (`UploadTurn`, `DeleteTurn`) comes from `HandlersInv`, that a confirmed
file was put and a rejected one was not from `Backed` and
`RejectedIsNotStored`: the abstract specification is implemented only by the
reachable states.

**File checks.** `LoopInv` is the loop of `validate_file`: the stream is at its
start until a scan has run; the failures so far are those of the positions so
far; after a failed scan nothing more is to be reported.

**Client configurations.** `CacheInv` says that a cached configuration was
current at most `Ttl` before it expires, also if it was loaded after the entry
was stamped; `BucketInv` that every instance has a bucket that was configured
with its `azure_client_id`, and that a finished request used the bucket of the
instance that is still there.

**Access.** The invariant of the policy: what is loaded was seen during the
load, and what was held during it is loaded or still unread. That of the
tokens: the cached place of the keys was named when it was fetched, and a
request that waits for its keys has such a place. That of both (`ServedInv`): an
admitted request was allowed its route, and a served delete what its
configuration names.

**Replica.** `VerdictIsOwn` needs that who waits for a reply has the loop and
that the connection is its own (`ScanInv`), which holds because a call that
is at `receive` came there from `send` without giving the loop away
(`StepAfter`, a fact about the steps of the two endpoints), and that the queue
of the loop holds nobody twice and not the running call (`QueueInv`).
`HealthIsTrue` needs what a report knows of each part it has asked about,
by how many steps it has left (`ReportInv`), that parts which are up now have
been up during every open report, that nobody but an upload is told that a file
is infected (`FileInv`), and that the cached configuration of the identity
provider is no newer than its last sign of life (`ClockInv`). The invariant
was first checked by TLC on the instance of `ReplicaAnswers`.

**Config builder.** `BundleInv` adds what a command has written at each of its
stages (`WrittenSoFar`), that an edit has found the only configuration of its
client (`OnlyConfig`, from `Cardinality(Candidates(fragment)) = 1`), and that
a permission list that was loaded has a line until it is opened for writing
(`ListsHaveLines`).

Only model-checked: liveness (`EventuallyAnswered`, `DeleteEventuallyAnswered`,
`AllAnswered`), as the prover reasons neither about `ENABLED` nor about
fairness.

## 6. Not modelled, and the plan

Left out for good: S3 and DynamoDB internals, presigned links after they were
sent, log output, constant answers, the text patterns of the content scan, the
unused `read_file_from_s3_bucket`, the retention parser, which nothing calls,
and the parsing of request bodies, whose refusals are in `Refuse`. What an
attempt leaves when an exception escapes before the audit write (no row) is in
the model; no document promises a row for it. Of the collection validators
only the refusal is modelled: they are sums and counts over the names and
sizes of one request. The half-initialised singletons of `AuditService` and
`AuthzService` need a deployment without its environment variables.

Done since the plan was first written: `AuditedStore` and the refinement,
`Policies`, `Tokens`, `Access`, `Replica`, `ConfigBuilder`, and the proofs of
all safety properties and of the refinement. What the plan has left:

1. what `AuditedStore` promises as invariants of its own, proved of it and so
   of every implementation;
2. that `FileChecks` implements the checks that `Uploads` shows in one step;
3. several replicas with policies and caches of different age.
