------------------------------ MODULE Deletes ------------------------------
(***************************************************************************)
(* DELETE /delete_files: for each key of the request in turn,              *)
(* delete_all_file_versions lists the versions of the key and deletes them *)
(* one by one, then the outcome is noted and audited:                      *)
(*                                                                         *)
(*   list -> delete ... delete -> audit -> the next key, or the answer     *)
(*                                                                         *)
(* Each of these is a call to S3 or DynamoDB, so other requests, deletes   *)
(* of the same key among them, come in between.                            *)
(***************************************************************************)
EXTENDS Storage, Sequences

CONSTANTS
    Deleters,      \* the delete requests
    DeleteAsks     \* what a delete request may ask for

DeleteAsk == [rid : RequestIds, keys : FileLists]

ASSUME DeletersAssumption ==
    Deleters \subseteq Requests /\ DeleteAsks \subseteq DeleteAsk

VARIABLES
    delAsk,        \* what each request asks for
    delPhase,      \* where each request is
    delAt,         \* the position of the key it handles
    todo,          \* the listed versions still to be deleted
    delError,      \* the code of error_status, 0 if ()
    delOutcomes,   \* the code noted per position
    listed         \* history: the versions listed per position

deleterVars == <<delAsk, delPhase, delAt, todo, delError, delOutcomes, listed>>
deleteVars == <<storageVars, deleterVars>>

DeletePhase == {"idle", "list", "delete", "audit", "done", "refused", "crashed"}

DeleteTypeOK ==
    /\ StorageTypeOK
    /\ delAsk \in [Deleters -> DeleteAsks]
    /\ delPhase \in [Deleters -> DeletePhase]
    /\ delAt \in [Deleters -> Positions]
    /\ \A r \in Deleters : delAt[r] <= Len(delAsk[r].keys)
    /\ todo \in [Deleters -> SUBSET Version]
    /\ delError \in [Deleters -> {0, 404, 500}]
    /\ delOutcomes \in [Deleters -> [Positions -> {0, 204, 404, 500}]]
    /\ listed \in [Deleters -> [Positions -> SUBSET Version]]

DeleteInit ==
    /\ StorageInit
    /\ delAsk \in [Deleters -> DeleteAsks]
    /\ delPhase = [r \in Deleters |-> "idle"]
    /\ delAt = [r \in Deleters |-> 1]
    /\ todo = [r \in Deleters |-> {}]
    /\ delError = [r \in Deleters |-> 0]
    /\ delOutcomes = [r \in Deleters |-> [i \in Positions |-> 0]]
    /\ listed = [r \in Deleters |-> [i \in Positions |-> {}]]

-----------------------------------------------------------------------------
Key(r) == delAsk[r].keys[delAt[r]]

Goto(r, p) == delPhase' = [delPhase EXCEPT ![r] = p]

(* Mutant: versions of other keys are left in the loop. *)
OwnNextVersions(r) ==
    {v \in todo[r] : v.key = Key(r) /\ \A w \in todo[r] \ {v} :
       w.key = Key(r) => v.vid > w.vid}

(* The loop goes through the list as S3 ordered it: the versions of the    *)
(* key itself, newest first, then those of the keys that start with it.    *)
NextVersions(r) ==
    {v \in todo[r] : \A w \in todo[r] \ {v} :
       w.key = Key(r) => v.key = Key(r) /\ v.vid > w.vid}

(* delete_files looks for keys (400 if there are none) and asks            *)
(* authz_service for the permission DELETE on the bucket (403).            *)
AcceptDelete(r) ==
    /\ delPhase[r] = "idle"
    /\ Goto(r, "list")
    /\ UNCHANGED <<storageVars, delAsk, delAt, todo, delError, delOutcomes, listed>>

RefuseDelete(r) ==
    /\ delPhase[r] = "idle"
    /\ Goto(r, "refused")
    /\ UNCHANGED <<storageVars, delAsk, delAt, todo, delError, delOutcomes, listed>>

(* list_file_versions answers; an empty list is a 404. *)
ListVersions(r) ==
    /\ delPhase[r] = "list"
    /\ \E page \in ListPages(Key(r)) :
         /\ todo' = [todo EXCEPT ![r] = page]
         /\ listed' = [listed EXCEPT ![r][delAt[r]] = page]
         /\ delError' = [delError EXCEPT ![r] = IF page = {} THEN 404 ELSE 0]
         /\ Goto(r, IF page = {} THEN "audit" ELSE "delete")
    /\ UNCHANGED <<storageVars, delAsk, delAt, delOutcomes>>

(* list_file_versions raises. *)
FailList(r) ==
    /\ delPhase[r] = "list"
    /\ delError' = [delError EXCEPT ![r] = 500]
    /\ Goto(r, "audit")
    /\ UNCHANGED <<storageVars, delAsk, delAt, todo, delOutcomes, listed>>

(* The loop moves on from version v, to the audit after the last one. *)
Deleted(r, v) ==
    /\ todo' = [todo EXCEPT ![r] = @ \ {v}]
    /\ Goto(r, IF todo[r] = {v} THEN "audit" ELSE "delete")
    /\ UNCHANGED <<nextVid, auditTable, delAsk, delAt, delOutcomes, listed>>

(* Mutant: the error lasts until the next deletion. *)
ErrorForgotten(err, failed) == IF failed THEN 500 ELSE 0

(* An error in one deletion is kept through the rest of the loop. *)
AfterDelete(err, failed) == IF failed THEN 500 ELSE err

(* delete_file_version returns. *)
DeleteOne(r) ==
    /\ delPhase[r] = "delete"
    /\ \E v \in NextVersions(r) : DeleteVersion(Key(r), v) /\ Deleted(r, v)
    /\ delError' = [delError EXCEPT ![r] = AfterDelete(@, FALSE)]

(* delete_file_version raises, applied or not; the loop goes on. *)
FailDeleteOne(r) ==
    /\ delPhase[r] = "delete"
    /\ \E v \in NextVersions(r) :
         /\ DeleteVersion(Key(r), v) \/ UNCHANGED store
         /\ Deleted(r, v)
    /\ delError' = [delError EXCEPT ![r] = AfterDelete(@, TRUE)]

(* Mutant: the row is written without the error_status. *)
DeleteRegardless(err) == "DELETE"

DeleteOperation(err) == IF err # 0 THEN "FAILED" ELSE "DELETE"

DeleteRow(r) ==
    [rid |-> delAsk[r].rid, pos |-> delAt[r], file |-> Key(r),
     op |-> DeleteOperation(delError[r]), by |-> r]

DeleteCode(err) == IF err # 0 THEN err ELSE 204

(* The outcome is noted first; then add_record writes the row, or raises   *)
(* with the row written or not, which changes nothing for the client.      *)
AuditDelete(r) ==
    LET last == delAt[r] = Len(delAsk[r].keys)
    IN /\ delPhase[r] = "audit"
       /\ PutItem(DeleteRow(r)) \/ UNCHANGED auditTable
       /\ delOutcomes' = [delOutcomes EXCEPT ![r][delAt[r]] = DeleteCode(delError[r])]
       /\ delError' = [delError EXCEPT ![r] = 0]
       /\ delAt' = [delAt EXCEPT ![r] = NextPosition(@, Len(delAsk[r].keys))]
       /\ Goto(r, IF last THEN "done" ELSE "list")
       /\ UNCHANGED <<store, nextVid, delAsk, todo, listed>>

(* The replica that handles the request dies. *)
CrashDelete(r) ==
    /\ delPhase[r] \in {"list", "delete", "audit"}
    /\ Goto(r, "crashed")
    /\ UNCHANGED <<storageVars, delAsk, delAt, todo, delError, delOutcomes, listed>>

DeleteStep(r) ==
    \/ AcceptDelete(r) \/ RefuseDelete(r)
    \/ ListVersions(r) \/ FailList(r)
    \/ DeleteOne(r) \/ FailDeleteOne(r)
    \/ AuditDelete(r)
    \/ CrashDelete(r)

DeleteNext == \E r \in Deleters : DeleteStep(r)

DeleteSpec == DeleteInit /\ [][DeleteNext]_deleteVars

(* boto3 has timeouts: every call to S3 and DynamoDB ends. *)
DeleteFairness ==
    \A r \in Deleters :
      /\ WF_deleteVars(ListVersions(r) \/ FailList(r))
      /\ WF_deleteVars(DeleteOne(r) \/ FailDeleteOne(r))
      /\ WF_deleteVars(AuditDelete(r))

-----------------------------------------------------------------------------
(* Mutant: the first code noted for a key is the one reported. *)
FirstReported(r) ==
    {i \in 1..Len(delAsk[r].keys) :
       /\ delPhase[r] = "done"
       /\ \A j \in 1..(i - 1) : delAsk[r].keys[j] # delAsk[r].keys[i]}

(* The positions whose codes a client reads.  outcomes is a dictionary, so *)
(* of those that name one key the last counts; a client whose request is   *)
(* lost with its replica reads nothing.                                    *)
Reported(r) ==
    {i \in 1..Len(delAsk[r].keys) :
       /\ delPhase[r] = "done"
       /\ \A j \in (i + 1)..Len(delAsk[r].keys) : delAsk[r].keys[j] # delAsk[r].keys[i]}

OwnListed(r, i) == {v \in listed[r][i] : v.key = delAsk[r].keys[i]}

(* 204 is never reported over a deletion that failed: every version of the *)
(* key that the list named is gone, whichever of the deletions in the      *)
(* middle of the loop went wrong (error_status is never reset).            *)
DeletedIsGone ==
    \A r \in Deleters : \A i \in Positions :
      delOutcomes[r][i] = 204 => OwnListed(r, i) \cap store = {}

(* A DELETE row tells the truth: every version of the file that was listed *)
(* at its position is gone, and a client that reads the code of that       *)
(* position reads 204.  Where the same request names the file again, or    *)
(* its replica dies after the audit, the client does not read that code.   *)
DeleteAuditIsTrue ==
    \A row \in auditTable :
      row.op = "DELETE" =>
        /\ OwnListed(row.by, row.pos) \cap store = {}
        /\ row.pos \in Reported(row.by) => delOutcomes[row.by][row.pos] = 204

(* What a client reads for a file is true of every position that named it: *)
(* after a 204 or 404 no version that any of them listed is left, even one *)
(* whose deletion failed at an earlier position, unless a full page of     *)
(* newer ones, put since, hid it from the last list (outcomes[file_key]).  *)
ReportIsTrue ==
    \A r \in Deleters : \A j \in Reported(r) : \A i \in 1..Len(delAsk[r].keys) :
      delOutcomes[r][j] \in {204, 404} /\ delAsk[r].keys[i] = delAsk[r].keys[j] =>
        \A v \in OwnListed(r, i) \cap store : Hidden(v, listed[r][j])

(* With versioning, nothing leaves the bucket but versions of the very key *)
(* that a request deletes, and only those it found in its list: not the    *)
(* keys that start with it, which the list names too, and no version put   *)
(* since.                                                                  *)
DeletesOnlyListed ==
    [][Versioned =>
         \A v \in store \ store' :
           \E r \in Deleters :
             delPhase[r] = "delete" /\ v \in OwnListed(r, delAt[r])]_deleteVars

(* An accepted delete request is answered, or its replica dies: no call it *)
(* makes lasts for ever and its loops end.                                 *)
DeleteEventuallyAnswered ==
    \A r \in Deleters : delPhase[r] = "list" ~> delPhase[r] \in {"done", "crashed"}

(* delete_files' doc: 404 if the file is not found.  Fails: the versions   *)
(* of a key that starts with this one are found instead, and 204 is        *)
(* reported.                                                               *)
MissingFileIsNotFound ==
    \A r \in Deleters : \A i \in Reported(r) :
      delOutcomes[r][i] = 204 => \E v \in StoredBefore : v.key = delAsk[r].keys[i]
=============================================================================
