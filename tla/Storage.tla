------------------------------ MODULE Storage ------------------------------
(***************************************************************************)
(* The two AWS services behind the API, as the code in src/ uses them: one *)
(* S3 bucket (s3_service.py) and the DynamoDB audit table                  *)
(* (audit_service.py).  Every replica of the service talks to the same     *)
(* bucket and the same table, so both are shared state.  The operators     *)
(* below are the effect of ONE call on that state; the modules that EXTEND *)
(* this one decide when a request makes the call and what it does with the *)
(* answer, an exception included.                                          *)
(***************************************************************************)
EXTENDS Integers, FiniteSets

CONSTANTS
    Keys,          \* object keys
    StartsWith,    \* the pairs <<l, k>> such that key l starts with key k
    PageSize,      \* the number of versions S3 returns per list call (1000)
    Versioned,     \* TRUE iff the bucket keeps old versions
    NoFile,        \* file_id "None": the request named no file
    Requests,      \* HTTP requests, and the writers of StoredBefore
    RequestIds,    \* values of the header x-request-id
    StoredBefore,  \* the versions in the bucket at the start
    FirstVid,      \* the VersionId of the first put after the start
    MaxFiles       \* bound: files in one request

(***************************************************************************)
(* A version of an object.  vid stands for the VersionId, in the order of  *)
(* the puts.  by and pos name the request and the position in it that put  *)
(* the version; no code reads them, the properties do.                     *)
(***************************************************************************)
Version == [key : Keys, vid : Nat \ {0}, by : Requests, pos : Nat]

ASSUME StartsWithAssumption ==
    /\ StartsWith \subseteq Keys \X Keys
    /\ \A k \in Keys : <<k, k>> \in StartsWith

ASSUME PageSizeAssumption == PageSize \in Nat \ {0}

ASSUME VersionedAssumption == Versioned \in BOOLEAN

ASSUME MaxFilesAssumption == MaxFiles \in Nat

ASSUME StoredBeforeAssumption ==
    /\ StoredBefore \subseteq Version /\ IsFiniteSet(StoredBefore)
    /\ FirstVid \in Nat \ {0}
    /\ \A v \in StoredBefore : v.vid < FirstVid
    /\ \A v, w \in StoredBefore :
         (v.vid = w.vid \/ (~Versioned /\ v.key = w.key)) => v = w

(* Where a file is in its request; the code's filename_position is one less. *)
Positions == 1..MaxFiles

FileLists == UNION {[1..n -> Keys] : n \in Positions}

(* Mutant: the loop runs past the last file. *)
OnePastLast(i, n) == i + 1

(* The loops of bulk_upload and delete_files: the position after i of n.   *)
NextPosition(i, n) == IF i = n THEN i ELSE i + 1

VARIABLES
    store,         \* the versions in the bucket
    nextVid,       \* the VersionId of the next put
    auditTable     \* the rows of the audit table

storageVars == <<store, nextVid, auditTable>>

OperationType == {"CREATE", "READ", "UPDATE", "DELETE", "INFO", "FAILED"}

(***************************************************************************)
(* An audit row.  rid and pos are the hash key and the range key; by names *)
(* the request that wrote the row and is read by the properties only.      *)
(***************************************************************************)
AuditRecord ==
    [rid : RequestIds, pos : Nat, file : Keys \cup {NoFile},
     op : OperationType, by : Requests]

StorageTypeOK ==
    /\ store \subseteq Version
    /\ nextVid \in Nat \ {0}
    /\ \A v \in store : v.vid < nextVid
    /\ auditTable \subseteq AuditRecord

StorageInit ==
    /\ store = StoredBefore
    /\ nextVid = FirstVid
    /\ auditTable = {}

VersionsOf(k) == {v \in store : v.key = k}

(* S3Service.file_exists_in_bucket: head_object answers for this very key. *)
FileExists(k) == VersionsOf(k) # {}

(* put_object.  Without versioning the put replaces what the key held. *)
PutObject(k, r, i) ==
    /\ store' = (IF Versioned THEN store ELSE store \ VersionsOf(k))
                    \cup {[key |-> k, vid |-> nextVid, by |-> r, pos |-> i]}
    /\ nextVid' = nextVid + 1

(* What list_object_versions looks for: Prefix=file_key, so the versions   *)
(* of every key that starts with file_key.                                 *)
Listable(k) == {v \in store : <<v.key, k>> \in StartsWith}

(***************************************************************************)
(* The pages list_object_versions may return for k: the first PageSize     *)
(* versions in the order of S3, which lists by key and newest first.  k    *)
(* itself precedes every key it is a proper prefix of; the order of those  *)
(* other keys is left open.                                                *)
(***************************************************************************)
ListPages(k) ==
    LET all == Listable(k)
        size == IF Cardinality(all) < PageSize THEN Cardinality(all) ELSE PageSize
    IN {page \in SUBSET all :
          /\ Cardinality(page) = size
          /\ \A v \in page, w \in all \ page :
               w.key = k => v.key = k /\ v.vid > w.vid}

(* A full page of newer versions of its key hides v from a list. *)
Hidden(v, page) ==
    Cardinality({w \in page : w.key = v.key /\ w.vid > v.vid}) = PageSize

(* Mutant: the key is taken from the listed version. *)
DeleteAsListed(k, v) == store' = store \ {v}

(***************************************************************************)
(* delete_object(Key=k, VersionId=v.vid).  Deleting a version the key does *)
(* not have succeeds and changes nothing.  Without versioning every object *)
(* is listed with the VersionId "null", and "null" names whatever the key  *)
(* holds when the call arrives.                                            *)
(***************************************************************************)
DeleteVersion(k, v) ==
    store' = store \ {w \in VersionsOf(k) : Versioned => w.vid = v.vid}

(* put_item: a row with the same hash and range key is replaced. *)
PutItem(row) ==
    auditTable' =
        {x \in auditTable : <<x.rid, x.pos>> # <<row.rid, row.pos>>} \cup {row}
=============================================================================
