------------------------------ MODULE Uploads ------------------------------
(***************************************************************************)
(* The three endpoints that store files: POST /save_file, PUT              *)
(* /save_or_update_file and PUT /bulk_upload.  All three go through        *)
(* handle_file_upload_logic, once per file:                                *)
(*                                                                         *)
(*   checks -> exists -> save -> audit -> the answer, or the next file     *)
(*                                                                         *)
(* The service runs as several replicas over one bucket and one table, so  *)
(* requests interleave at every call to S3 and DynamoDB: one action per    *)
(* call.  boto3 repeats a put whose reply is lost.  A replica may die at   *)
(* any time.                                                               *)
(***************************************************************************)
EXTENDS Storage, Sequences

CONSTANTS
    Uploaders,     \* the upload requests
    Asks,          \* what an upload request may ask for
    MaxAttempts    \* attempts boto3 makes at one put

(* The endpoint, the header x-request-id and the full_filename of each     *)
(* file: folder and filename joined.                                       *)
RequestType == {"POST", "PUT", "BULK"}

Ask ==
    {a \in [type : RequestType, rid : RequestIds, files : FileLists] :
       a.type # "BULK" => Len(a.files) = 1}

ASSUME UploadersAssumption ==
    /\ Uploaders \subseteq Requests
    /\ \A v \in StoredBefore : v.by \notin Uploaders

ASSUME AsksAssumption ==
    /\ MaxAttempts \in Nat \ {0}
    /\ Asks \subseteq Ask

VARIABLES
    ask,           \* what each request asks for
    phase,         \* where each request is
    at,            \* the position of the file it handles
    existed,       \* file_existed
    error,         \* the code of error_status, 0 if ()
    saved,         \* the vid put for this file, 0 before
    attempt,       \* attempts at this put that boto3 knows to have failed
    outcomes,      \* the answer per position: status code and vid
    checkedAt      \* history: nextVid when a POST had file_exists answered

handlerVars == <<existed, error, saved, attempt>>
requestVars == <<ask, phase, at, outcomes, checkedAt>>
uploaderVars == <<handlerVars, requestVars>>
uploadVars == <<storageVars, uploaderVars>>

Phase == {"idle", "checks", "exists", "save", "audit",
          "done", "refused", "crashed"}

Unanswered == [code |-> 0, vid |-> 0]

UploadTypeOK ==
    /\ StorageTypeOK
    /\ ask \in [Uploaders -> Asks]
    /\ phase \in [Uploaders -> Phase]
    /\ at \in [Uploaders -> Positions]
    /\ \A r \in Uploaders : at[r] <= Len(ask[r].files)
    /\ existed \in [Uploaders -> BOOLEAN]
    /\ error \in [Uploaders -> {0, 400, 409, 500}]
    /\ saved \in [Uploaders -> Nat]
    /\ attempt \in [Uploaders -> 0..(MaxAttempts - 1)]
    /\ outcomes \in [Uploaders -> [Positions ->
           [code : {0, 200, 201, 400, 409, 500}, vid : Nat]]]
    /\ checkedAt \in [Uploaders -> Nat]

(* The local variables of handle_file_upload_logic when it is called. *)
NewCall ==
    /\ existed = [r \in Uploaders |-> FALSE]
    /\ error = [r \in Uploaders |-> 0]
    /\ saved = [r \in Uploaders |-> 0]
    /\ attempt = [r \in Uploaders |-> 0]

UploadInit ==
    /\ StorageInit
    /\ ask \in [Uploaders -> Asks]
    /\ phase = [r \in Uploaders |-> "idle"]
    /\ at = [r \in Uploaders |-> 1]
    /\ NewCall
    /\ outcomes = [r \in Uploaders |-> [i \in Positions |-> Unanswered]]
    /\ checkedAt = [r \in Uploaders |-> 0]

-----------------------------------------------------------------------------
File(r) == ask[r].files[at[r]]

(* Mutant: the error is not looked at. *)
OperationRegardless(err, ex) == IF ex THEN "UPDATE" ELSE "CREATE"

(* The operation type of the audit row: add_record turns it into FAILED    *)
(* when there is an error_status.                                          *)
AuditOperation(err, ex) ==
    IF err # 0 THEN "FAILED" ELSE IF ex THEN "UPDATE" ELSE "CREATE"

(* Mutant: the exception is logged and no more. *)
ErrorKept(err) == err

(* An exception from s3_service.save sets the error_status. *)
AfterSaveFailure(err) == 500

(* A failed write to the audit table replaces the error_status, if any. *)
AfterAuditFailure(err) == 500

(* Mutant: every request may overwrite. *)
NoConflict(type, ex) == FALSE

(* POST refuses to overwrite, PUT and bulk do not. *)
Conflict(type, ex) == type = "POST" /\ ex

(* Mutants: the save does not look at error_status; a conflict is retried. *)
SaveAnyway(conflict) == "save"
RetryConflict(conflict) == IF conflict THEN "checks" ELSE "save"

(* A conflict skips the save, not the audit. *)
AfterExists(conflict) == IF conflict THEN "audit" ELSE "save"

(* Mutant: created and updated are mixed up. *)
SwappedStatus(err, ex) == IF err # 0 THEN err ELSE IF ex THEN 201 ELSE 200

(* The status code of a file that was handled. *)
StatusCode(err, ex) == IF err # 0 THEN err ELSE IF ex THEN 200 ELSE 201

(* The handler returns or raises: the endpoint answers, or the loop of     *)
(* bulk_upload notes the outcome and goes on to the next file.             *)
Return(r, code, vid) ==
    LET last == at[r] = Len(ask[r].files)
    IN /\ outcomes' = [outcomes EXCEPT ![r][at[r]] = [code |-> code, vid |-> vid]]
       /\ phase' = [phase EXCEPT ![r] = IF last THEN "done" ELSE "checks"]
       /\ at' = [at EXCEPT ![r] = NextPosition(@, Len(ask[r].files))]
       /\ existed' = [existed EXCEPT ![r] = FALSE]
       /\ error' = [error EXCEPT ![r] = 0]
       /\ saved' = [saved EXCEPT ![r] = 0]
       /\ attempt' = [attempt EXCEPT ![r] = 0]
       /\ UNCHANGED <<ask, checkedAt>>

(* An exception leaves the handler before the audit table is written. *)
Raise(r) == Return(r, 500, 0) /\ UNCHANGED storageVars

-----------------------------------------------------------------------------
(* save_file, save_or_update_file and bulk_upload call the handler ...     *)
Accept(r) ==
    /\ phase[r] = "idle"
    /\ phase' = [phase EXCEPT ![r] = "checks"]
    /\ UNCHANGED <<storageVars, handlerVars, ask, at, outcomes, checkedAt>>

(* ... or answer before they do: no valid token, no permission, no client  *)
(* configuration, a replacement_filename equal to the filename, or a       *)
(* file-collection validator of bulk_upload.                               *)
Refuse(r) ==
    /\ phase[r] = "idle"
    /\ phase' = [phase EXCEPT ![r] = "refused"]
    /\ UNCHANGED <<storageVars, handlerVars, ask, at, outcomes, checkedAt>>

(* run_initial_file_checks finds nothing wrong, ... *)
PassChecks(r) ==
    /\ phase[r] = "checks"
    /\ phase' = [phase EXCEPT ![r] = "exists"]
    /\ UNCHANGED <<storageVars, handlerVars, ask, at, outcomes, checkedAt>>

(* ... returns an error_status (400 stands for every 4xx), ... *)
FailChecks(r) ==
    /\ phase[r] = "checks"
    /\ \E code \in {400, 500} : error' = [error EXCEPT ![r] = code]
    /\ phase' = [phase EXCEPT ![r] = "audit"]
    /\ UNCHANGED <<storageVars, existed, saved, attempt, ask, at, outcomes, checkedAt>>

(* ... or raises: clamd does not answer, a validator is misconfigured. *)
RaiseChecks(r) == phase[r] = "checks" /\ Raise(r)

(* s3_service.file_exists answers; a POST of a file that exists is a 409. *)
CheckExists(r) ==
    LET ex == FileExists(File(r))
        conflict == Conflict(ask[r].type, ex)
    IN /\ phase[r] = "exists"
       /\ existed' = [existed EXCEPT ![r] = ex]
       /\ error' = [error EXCEPT ![r] = IF conflict THEN 409 ELSE 0]
       /\ phase' = [phase EXCEPT ![r] = AfterExists(conflict)]
       /\ checkedAt' = [checkedAt EXCEPT ![r] =
                         IF ask[r].type = "POST" THEN nextVid ELSE 0]
       /\ UNCHANGED <<storageVars, saved, attempt, ask, at, outcomes>>

(* head_object fails: the handler catches nothing here. *)
RaiseExists(r) == phase[r] = "exists" /\ Raise(r)

(* s3_service.save returns. *)
Save(r) ==
    /\ phase[r] = "save"
    /\ PutObject(File(r), r, at[r])
    /\ saved' = [saved EXCEPT ![r] = nextVid]
    /\ phase' = [phase EXCEPT ![r] = "audit"]
    /\ UNCHANGED <<auditTable, existed, error, attempt, ask, at, outcomes, checkedAt>>

(* S3 applies the put but the reply is lost, and boto3 tries again. *)
SaveAgain(r) ==
    /\ phase[r] = "save"
    /\ attempt[r] + 1 < MaxAttempts
    /\ PutObject(File(r), r, at[r])
    /\ attempt' = [attempt EXCEPT ![r] = @ + 1]
    /\ UNCHANGED <<auditTable, existed, error, saved, requestVars>>

(* s3_service.save raises; the put was applied or not. *)
FailSave(r) ==
    /\ phase[r] = "save"
    /\ PutObject(File(r), r, at[r]) \/ UNCHANGED <<store, nextVid>>
    /\ error' = [error EXCEPT ![r] = AfterSaveFailure(@)]
    /\ phase' = [phase EXCEPT ![r] = "audit"]
    /\ UNCHANGED <<auditTable, existed, saved, attempt, ask, at, outcomes, checkedAt>>

UploadRow(r) ==
    [rid |-> ask[r].rid, pos |-> at[r], file |-> File(r),
     op |-> AuditOperation(error[r], existed[r]), by |-> r]

(* audit_service.add_record returns. *)
Audit(r) ==
    /\ phase[r] = "audit"
    /\ PutItem(UploadRow(r))
    /\ Return(r, StatusCode(error[r], existed[r]), saved[r])
    /\ UNCHANGED <<store, nextVid>>

(* audit_service.add_record raises; the row was written or not. *)
FailAudit(r) ==
    /\ phase[r] = "audit"
    /\ PutItem(UploadRow(r)) \/ UNCHANGED auditTable
    /\ Return(r, StatusCode(AfterAuditFailure(error[r]), existed[r]), 0)
    /\ UNCHANGED <<store, nextVid>>

(* The replica that handles the request dies. *)
Crash(r) ==
    /\ phase[r] \notin {"idle", "done", "refused", "crashed"}
    /\ phase' = [phase EXCEPT ![r] = "crashed"]
    /\ UNCHANGED <<storageVars, handlerVars, ask, at, outcomes, checkedAt>>

UploadStep(r) ==
    \/ Accept(r) \/ Refuse(r)
    \/ PassChecks(r) \/ FailChecks(r) \/ RaiseChecks(r)
    \/ CheckExists(r) \/ RaiseExists(r)
    \/ Save(r) \/ SaveAgain(r) \/ FailSave(r)
    \/ Audit(r) \/ FailAudit(r)
    \/ Crash(r)

UploadNext == \E r \in Uploaders : UploadStep(r)

UploadSpec == UploadInit /\ [][UploadNext]_uploadVars

(* Every call to S3 and DynamoDB ends, in an answer or an exception: boto3 *)
(* has timeouts.  The checks call clamd without a timeout, clients send    *)
(* requests when they like and replicas need not die: no fairness for      *)
(* those.                                                                  *)
UploadFairness ==
    \A r \in Uploaders :
      /\ WF_uploadVars(CheckExists(r) \/ RaiseExists(r))
      /\ WF_uploadVars(Save(r) \/ SaveAgain(r) \/ FailSave(r))
      /\ WF_uploadVars(Audit(r) \/ FailAudit(r))
-----------------------------------------------------------------------------
Confirmed(r, i) == outcomes[r][i].code \in {200, 201}

Rejected(r, i) == outcomes[r][i].code \in {400, 409}

PutBy(r, i) == {v \in store : v.by = r /\ v.pos = i}

(* The file of a success code is in the bucket: the very version that put  *)
(* it, or without versioning whatever later replaced it.  No failed audit  *)
(* write, lost reply, crash or other upload may break this (return of      *)
(* handle_file_upload_logic against s3_service.save).                      *)
ConfirmedIsStored ==
    \A r \in Uploaders : \A i \in Positions :
      Confirmed(r, i) =>
        \E v \in VersionsOf(ask[r].files[i]) :
          IF Versioned THEN v \in PutBy(r, i) /\ v.vid = outcomes[r][i].vid
                       ELSE v.vid >= outcomes[r][i].vid

(* A file that the checks or the conflict test rejected never reaches the  *)
(* bucket, not even in a bulk upload whose other files do: 4xx means that  *)
(* nothing of that position was put (error_status guards the save).        *)
RejectedIsNotStored ==
    \A r \in Uploaders : \A i \in Positions :
      Rejected(r, i) => PutBy(r, i) = {}

(* A file reported as saved or updated has its audit row, which says so;   *)
(* only another request that carries the same x-request-id can have        *)
(* replaced that row (add_record before the success return).               *)
ConfirmedIsAudited ==
    \A r \in Uploaders : \A i \in Positions :
      Confirmed(r, i) =>
        \/ \E row \in auditTable :
             /\ row.rid = ask[r].rid /\ row.pos = i /\ row.by = r
             /\ row.file = ask[r].files[i]
             /\ row.op = IF outcomes[r][i].code = 200 THEN "UPDATE" ELSE "CREATE"
        \/ \E q \in Uploaders \ {r} : ask[q].rid = ask[r].rid /\ phase[q] # "idle"

(* The audit table never claims a save that did not happen: behind every   *)
(* CREATE or UPDATE row is a version of that file, put by the request that *)
(* wrote the row (the row is written after the put, FAILED if it failed).  *)
AuditIsTrue ==
    \A row \in auditTable :
      row.op \in {"CREATE", "UPDATE"} =>
        \E v \in VersionsOf(row.file) :
          Versioned => v.by = row.by /\ v.pos = row.pos

(* What POST really ensures about overwriting: the file of a 201 from      *)
(* save_file replaced nothing but files put after its own existence check. *)
PostOverwritesOnlyRacers ==
    \A r \in Uploaders :
      ask[r].type = "POST" /\ Confirmed(r, 1) =>
        \A v \in VersionsOf(ask[r].files[1]) :
          v.vid < outcomes[r][1].vid => v.vid >= checkedAt[r]

(* 200 says the file replaced an earlier version: with versioning, that    *)
(* earlier version is there (file_existed).  Holds while nothing deletes.  *)
UpdateHasEarlierVersion ==
    \A r \in Uploaders : \A i \in Positions :
      Versioned /\ outcomes[r][i].code = 200 =>
        \E v \in VersionsOf(ask[r].files[i]) : v.vid < outcomes[r][i].vid

(* A request that enters the handler is answered, or its replica dies, or  *)
(* it sits in the checks for ever: clamd is called without a timeout       *)
(* (clam_av_service), nothing else can hold a request.                     *)
EventuallyAnswered ==
    \A r \in Uploaders :
      phase[r] = "checks" ~>
        (phase[r] \in {"done", "crashed"} \/ [](phase[r] = "checks"))

(* save_file's doc: any code other than 201 means the file has not been    *)
(* saved.  Fails: the save may have happened when its reply or the audit   *)
(* write is lost.                                                          *)
NotCreatedMeansNotSaved ==
    \A r \in Uploaders :
      ask[r].type = "POST" /\ phase[r] = "done" /\ outcomes[r][1].code # 201
        => PutBy(r, 1) = {}
=============================================================================
