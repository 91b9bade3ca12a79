------------------------------- MODULE Reads -------------------------------
(***************************************************************************)
(* The two endpoints that look a file up: GET /get_file (retrieve_file),   *)
(* which answers a link to the file, and GET /get_file_details, which      *)
(* answers its versions:                                                   *)
(*                                                                         *)
(*   look -> audit -> the answer                                           *)
(***************************************************************************)
EXTENDS Storage

CONSTANTS Readers      \* the read requests

ReadAsk == [op : {"READ", "INFO"}, rid : RequestIds, file : Keys \cup {NoFile}]

ASSUME ReadersAssumption == Readers \subseteq Requests /\ NoFile \notin Keys

VARIABLES
    readAsk,       \* what each request asks for
    readPhase,     \* where each request is
    readError,     \* the code of error_status, 0 if ()
    versions,      \* file_versions of get_file_details
    readCode,      \* the status code of the answer, 0 before
    atArrival      \* history: the versions of the file when the request came

readerVars ==
    <<readAsk, readPhase, readError, versions, readCode, atArrival>>
readVars == <<storageVars, readerVars>>

ReadPhase == {"idle", "look", "audit", "done", "refused", "crashed"}

ReadTypeOK ==
    /\ StorageTypeOK
    /\ readAsk \in [Readers -> ReadAsk]
    /\ readPhase \in [Readers -> ReadPhase]
    /\ readError \in [Readers -> {0, 400, 404, 500}]
    /\ readCode \in [Readers -> {0, 200, 400, 404, 500}]
    /\ versions \in [Readers -> SUBSET Version]
    /\ atArrival \in [Readers -> SUBSET Version]

ReaderInit ==
    /\ readAsk \in [Readers -> ReadAsk]
    /\ readPhase = [r \in Readers |-> "idle"]
    /\ readError = [r \in Readers |-> 0]
    /\ readCode = [r \in Readers |-> 0]
    /\ versions = [r \in Readers |-> {}]
    /\ atArrival = [r \in Readers |-> {}]

ReadInit == StorageInit /\ ReaderInit

-----------------------------------------------------------------------------
Sought(r) == readAsk[r].file

ReadGoto(r, p) == readPhase' = [readPhase EXCEPT ![r] = p]

(* A request without file_key is a 400, which is audited too. *)
AcceptRead(r) ==
    /\ readPhase[r] = "idle"
    /\ atArrival' = [atArrival EXCEPT ![r] = VersionsOf(Sought(r))]
    /\ readError' = [readError EXCEPT ![r] = IF Sought(r) = NoFile THEN 400 ELSE 0]
    /\ ReadGoto(r, IF Sought(r) = NoFile THEN "audit" ELSE "look")
    /\ UNCHANGED <<storageVars, readAsk, versions, readCode>>

(* No valid token, no permission, no client configuration. *)
RefuseRead(r) ==
    /\ readPhase[r] = "idle"
    /\ ReadGoto(r, "refused")
    /\ UNCHANGED <<storageVars, readAsk, readError, versions, readCode, atArrival>>

Looked(r, page, err) ==
    /\ versions' = [versions EXCEPT ![r] = page]
    /\ readError' = [readError EXCEPT ![r] = err]
    /\ ReadGoto(r, "audit")
    /\ UNCHANGED <<storageVars, readAsk, readCode, atArrival>>

(* generate_file_url: head_object, then a link that is computed locally.   *)
(* 404 is how S3 says that the file is not there.                          *)
GetUrl(r) ==
    /\ readPhase[r] = "look" /\ readAsk[r].op = "READ"
    /\ Looked(r, {}, IF FileExists(Sought(r)) THEN 0 ELSE 404)

(* An error answer of S3 is a 500.  When S3 does not answer, the exception *)
(* is no ClientError: generate_file_url logs it and returns None, and      *)
(* retrieve_file takes None for a missing file.                            *)
FailGetUrl(r) ==
    /\ readPhase[r] = "look" /\ readAsk[r].op = "READ"
    /\ \E code \in {500, 404} : Looked(r, {}, code)

(* list_file_versions answers; an empty list is a 404. *)
GetVersions(r) ==
    /\ readPhase[r] = "look" /\ readAsk[r].op = "INFO"
    /\ \E page \in ListPages(Sought(r)) :
         Looked(r, page, IF page = {} THEN 404 ELSE 0)

ReadAnswer(r, code) ==
    /\ readCode' = [readCode EXCEPT ![r] = code]
    /\ ReadGoto(r, "done")
    /\ UNCHANGED <<store, nextVid, readAsk, readError, versions, atArrival>>

(* Mutant: an error is taken for an empty list. *)
ErrorIsEmpty(r) ==
    /\ readPhase[r] = "look" /\ readAsk[r].op = "INFO"
    /\ Looked(r, {}, 404)

(* list_file_versions raises: get_file_details catches nothing. *)
RaiseVersions(r) ==
    /\ readPhase[r] = "look" /\ readAsk[r].op = "INFO"
    /\ ReadAnswer(r, 500)
    /\ UNCHANGED auditTable

ReadRow(r) ==
    [rid |-> readAsk[r].rid, pos |-> 1, file |-> Sought(r),
     op |-> IF readError[r] # 0 THEN "FAILED" ELSE readAsk[r].op, by |-> r]

ReadStatus(err) == IF err # 0 THEN err ELSE 200

AuditRead(r) ==
    /\ readPhase[r] = "audit"
    /\ PutItem(ReadRow(r))
    /\ ReadAnswer(r, ReadStatus(readError[r]))

(* add_record raises, the row written or not: caught by retrieve_file,     *)
(* uncaught in get_file_details, a 500 from both.                          *)
FailAuditRead(r) ==
    /\ readPhase[r] = "audit"
    /\ PutItem(ReadRow(r)) \/ UNCHANGED auditTable
    /\ ReadAnswer(r, 500)

(* The replica that handles the request dies. *)
CrashRead(r) ==
    /\ readPhase[r] \in {"look", "audit"}
    /\ ReadGoto(r, "crashed")
    /\ UNCHANGED <<storageVars, readAsk, readError, versions, readCode, atArrival>>

ReadStep(r) ==
    \/ AcceptRead(r) \/ RefuseRead(r)
    \/ GetUrl(r) \/ FailGetUrl(r) \/ GetVersions(r) \/ RaiseVersions(r)
    \/ AuditRead(r) \/ FailAuditRead(r)
    \/ CrashRead(r)

ReadNext == \E r \in Readers : ReadStep(r)

ReadSpec == ReadInit /\ [][ReadNext]_readVars
=============================================================================
