--------------------------- MODULE UploadsProofs ---------------------------
(***************************************************************************)
(* Theorems about Uploads, for any number of requests, files and keys.     *)
(***************************************************************************)
EXTENDS Uploads, SequenceTheorems, TLAPS

-----------------------------------------------------------------------------
(***************************************************************************)
(* The calls of Storage, whoever makes them.                               *)
(***************************************************************************)
(* What is in the bucket and the table before the first request is typed. *)
LEMMA StorageInitTypeOK == StorageInit => StorageTypeOK
  BY StoredBeforeAssumption DEF StorageInit, StorageTypeOK

(* A put of a request keeps the bucket typed and hands out a new VersionId *)
(* that every later put exceeds (S3Service.save).                          *)
LEMMA PutObjectTypeOK ==
  ASSUME StorageTypeOK, NEW k \in Keys, NEW r \in Requests, NEW i \in Positions,
         PutObject(k, r, i), UNCHANGED auditTable
  PROVE  /\ StorageTypeOK'
         /\ nextVid' = nextVid + 1
         /\ [key |-> k, vid |-> nextVid, by |-> r, pos |-> i] \in store'
         /\ \A v \in store' :
              v \in store \/ v = [key |-> k, vid |-> nextVid, by |-> r, pos |-> i]
         /\ \A v \in store : v \in store' \/ (~Versioned /\ v.key = k)
  BY MaxFilesAssumption
  DEF StorageTypeOK, PutObject, Version, VersionsOf, Positions

(* A put_item of a request keeps the table typed, adds its row and loses   *)
(* no row but those with the same keys (audit_service.add_record).         *)
LEMMA PutItemTypeOK ==
  ASSUME StorageTypeOK, NEW row \in AuditRecord,
         PutItem(row), UNCHANGED <<store, nextVid>>
  PROVE  /\ StorageTypeOK'
         /\ row \in auditTable'
         /\ \A x \in auditTable' : x \in auditTable \/ x = row
         /\ \A x \in auditTable :
              x \in auditTable' \/ (x.rid = row.rid /\ x.pos = row.pos)
  BY DEF StorageTypeOK, PutItem

-----------------------------------------------------------------------------
(***************************************************************************)
(* Types.                                                                  *)
(***************************************************************************)
(* What a request asks for: a list of at least one file, as the code sees  *)
(* it, and the position the handler is at lies in it.                      *)
LEMMA AskedFiles ==
  ASSUME UploadTypeOK, NEW r \in Uploaders
  PROVE  /\ r \in Requests
         /\ ask[r].type \in RequestType /\ ask[r].rid \in RequestIds
         /\ Len(ask[r].files) \in Positions /\ Len(ask[r].files) \in Nat
         /\ at[r] \in Positions /\ at[r] \in Nat
         /\ ask[r].type # "BULK" => Len(ask[r].files) = 1
         /\ \A i \in 1..Len(ask[r].files) : ask[r].files[i] \in Keys
         /\ at[r] \in 1..Len(ask[r].files)
         /\ File(r) \in Keys
<1>1. ask[r] \in Ask
  BY AsksAssumption DEF UploadTypeOK
<1>2. PICK n \in Positions : ask[r].files \in [1..n -> Keys]
  BY <1>1 DEF Ask, FileLists
<1>3. n \in Nat /\ ask[r].files \in Seq(Keys)
  BY <1>2, MaxFilesAssumption, SeqDef DEF Positions
<1>4. Len(ask[r].files) = n
  <2>1. DOMAIN ask[r].files = 1..n /\ DOMAIN ask[r].files = 1..Len(ask[r].files)
    BY <1>2, <1>3, LenProperties
  <2>2. Len(ask[r].files) \in Nat
    BY <1>3, LenProperties
  <2> QED
    BY <1>3, <2>1, <2>2
<1>5. at[r] \in 1..n
  BY <1>4, MaxFilesAssumption DEF UploadTypeOK, Positions
<1>6. at[r] \in Positions /\ at[r] \in Nat
  BY MaxFilesAssumption DEF UploadTypeOK, Positions
<1> QED
  BY <1>1, <1>2, <1>3, <1>4, <1>5, <1>6, UploadersAssumption DEF Ask, File

(* Before the first request everything is of its type. *)
LEMMA UploadInitTypeOK == UploadInit => UploadTypeOK
<1> SUFFICES ASSUME UploadInit PROVE UploadTypeOK
  OBVIOUS
<1>1. StorageTypeOK
  BY StorageInitTypeOK DEF UploadInit
<1>2. \A r \in Uploaders : 1 \in Positions /\ 1 <= Len(ask[r].files)
  <2> TAKE r \in Uploaders
  <2>1. ask[r] \in Ask
    BY AsksAssumption DEF UploadInit
  <2>2. PICK n \in Positions : ask[r].files \in [1..n -> Keys]
    BY <2>1 DEF Ask, FileLists
  <2>3. n \in Nat \ {0} /\ n <= MaxFiles /\ ask[r].files \in Seq(Keys)
    BY <2>2, MaxFilesAssumption, SeqDef DEF Positions
  <2>4. DOMAIN ask[r].files = 1..n /\ DOMAIN ask[r].files = 1..Len(ask[r].files)
    BY <2>2, <2>3, LenProperties
  <2>5. Len(ask[r].files) \in Nat
    BY <2>3, LenProperties
  <2> QED
    BY <2>3, <2>4, <2>5, MaxFilesAssumption DEF Positions
<1>3. 0 \in 0..(MaxAttempts - 1)
  BY AsksAssumption
<1> QED
  BY <1>1, <1>2, <1>3 DEF UploadInit, UploadTypeOK, NewCall, Phase, Unanswered

(* When the handler returns, its variables and the answers stay typed.     *)
LEMMA ReturnTypeOK ==
  ASSUME UploadTypeOK, StorageTypeOK', NEW r \in Uploaders,
         NEW code \in {0, 200, 201, 400, 409, 500}, NEW vid \in Nat,
         Return(r, code, vid)
  PROVE  UploadTypeOK'
<1>1. at[r] \in 1..Len(ask[r].files) /\ Len(ask[r].files) \in Positions
  BY AskedFiles
<1>2. NextPosition(at[r], Len(ask[r].files)) \in 1..Len(ask[r].files)
  BY <1>1, MaxFilesAssumption DEF NextPosition, Positions
<1>3. /\ at' \in [Uploaders -> Positions]
      /\ \A q \in Uploaders : at'[q] <= Len(ask'[q].files)
  <2> DEFINE next == NextPosition(at[r], Len(ask[r].files))
  <2> HIDE DEF next
  <2>1. at' = [at EXCEPT ![r] = next] /\ ask' = ask
    BY DEF Return, next
  <2>2. next \in Positions /\ next <= Len(ask[r].files)
    BY <1>1, <1>2, MaxFilesAssumption DEF Positions, next
  <2>3. /\ at \in [Uploaders -> Positions]
        /\ \A q \in Uploaders : at[q] <= Len(ask[q].files)
    BY DEF UploadTypeOK
  <2> QED
    BY <2>1, <2>2, <2>3
<1>4. outcomes' \in [Uploaders -> [Positions ->
           [code : {0, 200, 201, 400, 409, 500}, vid : Nat]]]
  BY DEF Return, UploadTypeOK
<1>5. 0 \in 0..(MaxAttempts - 1)
  BY AsksAssumption
<1> QED
  BY <1>3, <1>4, <1>5 DEF Return, UploadTypeOK, Phase

(* The codes of an answer. *)
LEMMA StatusCodes ==
  ASSUME UploadTypeOK, NEW r \in Uploaders
  PROVE  /\ StatusCode(error[r], existed[r]) \in {200, 201, 400, 409, 500}
         /\ StatusCode(error[r], existed[r]) \in {200, 201} => error[r] = 0
         /\ StatusCode(error[r], existed[r]) = 200 => existed[r]
         /\ StatusCode(error[r], existed[r]) = 201 => ~existed[r]
         /\ StatusCode(error[r], existed[r]) \in {400, 409}
              => error[r] \in {400, 409}
         /\ StatusCode(AfterAuditFailure(error[r]), existed[r]) = 500
  BY DEF UploadTypeOK, StatusCode, AfterAuditFailure

(* The row a request writes is an audit record. *)
LEMMA UploadRowType ==
  ASSUME UploadTypeOK, NEW r \in Uploaders
  PROVE  UploadRow(r) \in AuditRecord
<1>1. AuditOperation(error[r], existed[r]) \in OperationType
  BY DEF AuditOperation, OperationType
<1> QED
  BY <1>1, AskedFiles DEF UploadRow, AuditRecord

(* Every step of a request keeps the types. *)
LEMMA UploadStepTypeOK ==
  ASSUME UploadTypeOK, NEW r \in Uploaders, UploadStep(r)
  PROVE  UploadTypeOK'
<1> USE DEF storageVars, handlerVars, requestVars
<1>1. CASE Accept(r) \/ Refuse(r) \/ PassChecks(r) \/ Crash(r)
  <2>1. /\ \E p \in Phase : phase' = [phase EXCEPT ![r] = p]
        /\ UNCHANGED <<storageVars, handlerVars, ask, at, outcomes, checkedAt>>
    BY <1>1, Zenon DEF Accept, Refuse, PassChecks, Crash, Phase
  <2> QED
    BY <2>1 DEF UploadTypeOK, StorageTypeOK
<1>2. CASE FailChecks(r)
  BY <1>2 DEF FailChecks, UploadTypeOK, StorageTypeOK, Phase
<1>3. CASE RaiseChecks(r) \/ RaiseExists(r)
  <2>1. StorageTypeOK' /\ Return(r, 500, 0)
    BY <1>3 DEF RaiseChecks, RaiseExists, Raise, UploadTypeOK, StorageTypeOK
  <2> QED
    BY <2>1, ReturnTypeOK
<1>4. CASE CheckExists(r)
  BY <1>4
  DEF CheckExists, FileExists, AfterExists, UploadTypeOK, StorageTypeOK, Phase
<1>5. CASE Save(r)
  <2>1. StorageTypeOK' /\ nextVid \in Nat
    BY <1>5, AskedFiles, PutObjectTypeOK DEF Save, UploadTypeOK, StorageTypeOK
  <2> QED
    BY <1>5, <2>1 DEF Save, UploadTypeOK, Phase
<1>6. CASE SaveAgain(r)
  <2>1. StorageTypeOK'
    BY <1>6, AskedFiles, PutObjectTypeOK DEF SaveAgain, UploadTypeOK
  <2>2. attempt' \in [Uploaders -> 0..(MaxAttempts - 1)]
    BY <1>6, AsksAssumption DEF SaveAgain, UploadTypeOK
  <2> QED
    BY <1>6, <2>1, <2>2 DEF SaveAgain, UploadTypeOK
<1>7. CASE FailSave(r)
  <2>1. StorageTypeOK'
    <3> StorageTypeOK /\ UNCHANGED auditTable
      BY <1>7 DEF FailSave, UploadTypeOK
    <3>1. CASE PutObject(File(r), r, at[r])
      BY <3>1, AskedFiles, PutObjectTypeOK
    <3>2. CASE UNCHANGED <<store, nextVid>>
      BY <3>2 DEF StorageTypeOK
    <3> QED
      BY <1>7, <3>1, <3>2 DEF FailSave
  <2> QED
    BY <1>7, <2>1 DEF FailSave, AfterSaveFailure, UploadTypeOK, Phase
<1>8. CASE Audit(r)
  <2>1. StorageTypeOK'
    BY <1>8, UploadRowType, PutItemTypeOK DEF Audit, UploadTypeOK
  <2>2. saved[r] \in Nat
    BY DEF UploadTypeOK
  <2> QED
    BY <1>8, <2>1, <2>2, StatusCodes, ReturnTypeOK DEF Audit
<1>9. CASE FailAudit(r)
  <2>1. StorageTypeOK'
    <3>1. CASE PutItem(UploadRow(r))
      BY <1>9, <3>1, UploadRowType, PutItemTypeOK DEF FailAudit, UploadTypeOK
    <3>2. CASE UNCHANGED auditTable
      BY <1>9, <3>2 DEF FailAudit, UploadTypeOK, StorageTypeOK
    <3> QED
      BY <1>9, <3>1, <3>2 DEF FailAudit
  <2> QED
    BY <1>9, <2>1, StatusCodes, ReturnTypeOK DEF FailAudit
<1> QED
  BY <1>1, <1>2, <1>3, <1>4, <1>5, <1>6, <1>7, <1>8, <1>9 DEF UploadStep

(* So does a step of the rest of the system. *)
LEMMA UploadStutterTypeOK ==
  ASSUME UploadTypeOK, UNCHANGED uploadVars
  PROVE  UploadTypeOK'
  BY DEF uploadVars, uploaderVars, storageVars, handlerVars, requestVars,
         UploadTypeOK, StorageTypeOK

(* The state of every upload request, of the bucket and of the audit table *)
(* is of its type, whatever the requests do.                               *)
THEOREM UploadTypeCorrect == UploadSpec => []UploadTypeOK
<1>1. UploadTypeOK /\ [UploadNext]_uploadVars => UploadTypeOK'
  BY UploadStepTypeOK, UploadStutterTypeOK DEF UploadNext
<1> QED
  BY <1>1, UploadInitTypeOK, PTL DEF UploadSpec

-----------------------------------------------------------------------------
(***************************************************************************)
(* The inductive invariant.  The properties of Uploads speak of answers;   *)
(* what makes them true is what a request knows before it answers, at the  *)
(* calls in between.                                                       *)
(***************************************************************************)
(* A request answers its files in order. *)
AnsweredInOrder ==
    \A r \in Uploaders : \A i \in Positions :
      outcomes[r][i].code # 0 =>
        i < at[r] \/ (i = at[r] /\ phase[r] = "done")

NoneIsSkipped ==
    \A r \in Uploaders : \A i \in Positions :
      i < at[r] => outcomes[r][i].code # 0

(* The save is reached without an error only. *)
SavesWithoutError == \A r \in Uploaders : phase[r] = "save" => error[r] = 0

(* Nothing is put for a file before its save, nor after its rejection.     *)
NotYetPut(r) ==
    \/ phase[r] \in {"idle", "refused", "checks", "exists"}
    \/ phase[r] = "audit" /\ error[r] \in {400, 409}

PutsInOrder ==
    \A r \in Uploaders : \A i \in Positions :
      (i > at[r] \/ (i = at[r] /\ NotYetPut(r))) => PutBy(r, i) = {}

(* What ConfirmedIsStored says of position i of request r and the put vid. *)
StoredAs(r, i, vid) ==
    \E v \in VersionsOf(ask[r].files[i]) :
      IF Versioned THEN v \in PutBy(r, i) /\ v.vid = vid ELSE v.vid >= vid

SavedAtAudit(r) == phase[r] = "audit" /\ error[r] = 0

SavedIsStored ==
    \A r \in Uploaders : SavedAtAudit(r) => StoredAs(r, at[r], saved[r])

SavedIsOld == \A r \in Uploaders : SavedAtAudit(r) => saved[r] < nextVid

AnsweredIsOld ==
    \A r \in Uploaders : \A i \in Positions :
      Confirmed(r, i) => outcomes[r][i].vid < nextVid

(* From its existence check on, a POST finds nothing older at its key. *)
FoundNothing(r) ==
    \A v \in VersionsOf(ask[r].files[1]) : v.vid >= checkedAt[r]

PostFoundNothing ==
    \A r \in Uploaders :
      /\ checkedAt[r] <= nextVid
      /\ ask[r].type = "POST"
           /\ (phase[r] = "save" \/ SavedAtAudit(r) \/ Confirmed(r, 1))
         => FoundNothing(r)

(* A file that existed when it was checked has an earlier version. *)
UpdatesSomething ==
    \A r \in Uploaders :
      Versioned /\ existed[r] =>
        /\ phase[r] = "save" =>
             \E v \in VersionsOf(File(r)) : v.vid < nextVid
        /\ SavedAtAudit(r) =>
             \E v \in VersionsOf(File(r)) : v.vid < saved[r]

(* What a request knows of itself: this part stays true whatever other     *)
(* requests do to the bucket, also if they delete from it, ...             *)
HandlerInv ==
    /\ UploadTypeOK
    /\ AnsweredInOrder
    /\ NoneIsSkipped
    /\ SavesWithoutError
    /\ PutsInOrder
    /\ SavedIsOld
    /\ AnsweredIsOld
    /\ PostFoundNothing
    /\ RejectedIsNotStored

(* ... and what is true of the bucket and the table while nothing deletes. *)
UploadInv ==
    /\ HandlerInv
    /\ SavedIsStored
    /\ UpdatesSomething
    /\ ConfirmedIsStored
    /\ ConfirmedIsAudited
    /\ AuditIsTrue
    /\ UpdateHasEarlierVersion

-----------------------------------------------------------------------------
(***************************************************************************)
(* What any step of a request does, as far as the invariant is concerned.  *)
(***************************************************************************)
(* A step of r leaves the other requests alone. *)
LEMMA StepIsOwn ==
  ASSUME UploadTypeOK, NEW r \in Uploaders, UploadStep(r)
  PROVE  /\ ask' = ask
         /\ \A q \in Uploaders \ {r} :
              /\ phase'[q] = phase[q] /\ at'[q] = at[q]
              /\ existed'[q] = existed[q] /\ error'[q] = error[q]
              /\ saved'[q] = saved[q] /\ outcomes'[q] = outcomes[q]
              /\ checkedAt'[q] = checkedAt[q]
<1> USE DEF UploadTypeOK, storageVars, handlerVars, requestVars
<1>1. CASE Accept(r) \/ Refuse(r) \/ PassChecks(r) \/ FailChecks(r) \/ Crash(r)
  BY <1>1 DEF Accept, Refuse, PassChecks, FailChecks, Crash
<1>2. CASE \E code, vid : Return(r, code, vid)
  BY <1>2 DEF Return
<1>3. CASE CheckExists(r)
  BY <1>3 DEF CheckExists
<1>4. CASE Save(r) \/ SaveAgain(r) \/ FailSave(r)
  BY <1>4 DEF Save, SaveAgain, FailSave
<1> QED
  BY <1>1, <1>2, <1>3, <1>4
  DEF UploadStep, RaiseChecks, RaiseExists, Raise, Audit, FailAudit

(* The bucket changes by a put in the phase "save" only. *)
LEMMA StepOnStore ==
  ASSUME UploadTypeOK, NEW r \in Uploaders, UploadStep(r)
  PROVE  \/ UNCHANGED <<store, nextVid>>
         \/ /\ phase[r] = "save" /\ PutObject(File(r), r, at[r])
            /\ UNCHANGED auditTable
  BY Zenon
  DEF UploadStep, Accept, Refuse, PassChecks, FailChecks, RaiseChecks, CheckExists,
      RaiseExists, Raise, Save, SaveAgain, FailSave, Audit, FailAudit, Crash,
      storageVars

(* The version a save puts. *)
NewVersion(r) == [key |-> File(r), vid |-> nextVid, by |-> r, pos |-> at[r]]

(* VersionIds only grow, and a put takes the next one. *)
LEMMA StepOnVersions ==
  ASSUME UploadTypeOK, NEW r \in Uploaders, UploadStep(r)
  PROVE  /\ nextVid \in Nat /\ nextVid' \in Nat /\ nextVid <= nextVid'
         /\ \A v \in store' :
              v \in store
                \/ (phase[r] = "save" /\ v = NewVersion(r) /\ nextVid' = nextVid + 1)
         /\ \A v \in store :
              v \in store'
                \/ (~Versioned /\ v.key = File(r) /\ NewVersion(r) \in store')
<1>0. StorageTypeOK /\ nextVid \in Nat
  BY DEF UploadTypeOK, StorageTypeOK
<1>1. CASE UNCHANGED <<store, nextVid>>
  BY <1>0, <1>1
<1>2. CASE phase[r] = "save" /\ PutObject(File(r), r, at[r]) /\ UNCHANGED auditTable
  BY <1>0, <1>2, AskedFiles, PutObjectTypeOK DEF NewVersion
<1> QED
  BY <1>1, <1>2, StepOnStore

(* The same, for what one position of one request has put. *)
LEMMA StepOnPuts ==
  ASSUME UploadTypeOK, NEW r \in Uploaders, UploadStep(r),
         NEW q, NEW i, NEW v \in PutBy(q, i)'
  PROVE  v \in PutBy(q, i) \/ (q = r /\ i = at[r] /\ phase[r] = "save")
<1>1. v \in store' /\ v.by = q /\ v.pos = i
  BY DEF PutBy
<1>2. v \in store \/ (phase[r] = "save" /\ v = NewVersion(r))
  BY <1>1, StepOnVersions
<1> QED
  BY <1>1, <1>2 DEF PutBy, NewVersion

(* The table changes by the row of the request in the phase "audit" only.  *)
LEMMA StepOnTable ==
  ASSUME UploadTypeOK, NEW r \in Uploaders, UploadStep(r)
  PROVE  \/ UNCHANGED auditTable
         \/ /\ phase[r] = "audit" /\ PutItem(UploadRow(r))
            /\ UNCHANGED <<store, nextVid>>
  BY Zenon
  DEF UploadStep, Accept, Refuse, PassChecks, FailChecks, RaiseChecks, CheckExists,
      RaiseExists, Raise, Save, SaveAgain, FailSave, Audit, FailAudit, Crash,
      storageVars

(* A step answers nothing, or it answers the file the handler is at: with  *)
(* success only after the put and with the row in the table, with a        *)
(* rejection only for the error of the checks or the conflict.             *)
Silent(r) ==
    /\ UNCHANGED <<at, outcomes>>
    /\ phase[r] # "done" /\ phase'[r] # "done"

Answering(r, code, vid) ==
    /\ Return(r, code, vid)
    /\ phase[r] \in {"checks", "exists", "audit"}
    /\ code \in {200, 201, 400, 409, 500} /\ vid \in Nat
    /\ code \in {200, 201} =>
         /\ SavedAtAudit(r) /\ vid = saved[r]
         /\ code = IF existed[r] THEN 200 ELSE 201
         /\ PutItem(UploadRow(r))
    /\ code \in {400, 409} => phase[r] = "audit" /\ error[r] \in {400, 409}

(* A step answers nothing, or the file the request is at. *)
LEMMA StepOnAnswers ==
  ASSUME UploadTypeOK, NEW r \in Uploaders, UploadStep(r)
  PROVE  Silent(r) \/ \E code, vid : Answering(r, code, vid)
<1> USE DEF requestVars, handlerVars
<1>1. CASE Accept(r) \/ Refuse(r) \/ PassChecks(r) \/ FailChecks(r) \/ Crash(r)
  BY <1>1 DEF Silent, Accept, Refuse, PassChecks, FailChecks, Crash, UploadTypeOK
<1>2. CASE CheckExists(r)
  BY <1>2 DEF Silent, CheckExists, AfterExists, UploadTypeOK
<1>3. CASE Save(r) \/ SaveAgain(r) \/ FailSave(r)
  BY <1>3 DEF Silent, Save, SaveAgain, FailSave, UploadTypeOK
<1>4. CASE RaiseChecks(r) \/ RaiseExists(r)
  BY <1>4 DEF Answering, RaiseChecks, RaiseExists, Raise
<1>5. CASE Audit(r)
  <2>1. saved[r] \in Nat /\ existed[r] \in BOOLEAN
    BY DEF UploadTypeOK
  <2>2. Answering(r, StatusCode(error[r], existed[r]), saved[r])
    BY <1>5, <2>1, StatusCodes DEF Answering, Audit, SavedAtAudit
  <2> QED
    BY <2>2
<1>6. CASE FailAudit(r)
  BY <1>6, StatusCodes DEF Answering, FailAudit
<1> QED
  BY <1>1, <1>2, <1>3, <1>4, <1>5, <1>6 DEF UploadStep

(* No request returns to the state before it came. *)
LEMMA StepLeavesIdle ==
  ASSUME UploadTypeOK, NEW r \in Uploaders, UploadStep(r)
  PROVE  phase'[r] # "idle"
<1> USE DEF UploadTypeOK, handlerVars, requestVars
<1>1. CASE Accept(r) \/ Refuse(r) \/ PassChecks(r) \/ FailChecks(r) \/ Crash(r)
  BY <1>1 DEF Accept, Refuse, PassChecks, FailChecks, Crash
<1>2. CASE \E code, vid : Return(r, code, vid)
  BY <1>2 DEF Return
<1>3. CASE CheckExists(r) \/ Save(r) \/ SaveAgain(r) \/ FailSave(r)
  BY <1>3 DEF CheckExists, AfterExists, Save, SaveAgain, FailSave
<1> QED
  BY <1>1, <1>2, <1>3
  DEF UploadStep, RaiseChecks, RaiseExists, Raise, Audit, FailAudit

(* The answer a handler gives is noted at its position, where none was. *)
LEMMA AnswerIsNoted ==
  ASSUME UploadTypeOK, NEW r \in Uploaders, NEW code, NEW vid, Answering(r, code, vid)
  PROVE  /\ outcomes'[r][at[r]].code = code /\ outcomes'[r][at[r]].vid = vid
         /\ \A i \in Positions \ {at[r]} : outcomes'[r][i] = outcomes[r][i]
         /\ \/ at'[r] = at[r] /\ phase'[r] = "done"
            \/ at'[r] = at[r] + 1 /\ phase'[r] = "checks"
         /\ existed'[r] = FALSE /\ saved'[r] = 0 /\ checkedAt' = checkedAt
<1>1. at[r] \in Positions /\ Return(r, code, vid)
  BY AskedFiles DEF Answering
<1> QED
  BY <1>1 DEF Return, UploadTypeOK, NextPosition

-----------------------------------------------------------------------------
(* The parts of the invariant, one by one. *)
LEMMA AnsweredInOrderStep ==
  ASSUME HandlerInv, NEW r \in Uploaders, UploadStep(r)
  PROVE  AnsweredInOrder'
<1> UploadTypeOK /\ AnsweredInOrder
  BY DEF HandlerInv
<1> SUFFICES ASSUME NEW q \in Uploaders, NEW i \in Positions,
                    (outcomes[q][i].code # 0)'
             PROVE  (i < at[q] \/ (i = at[q] /\ phase[q] = "done"))'
  BY DEF AnsweredInOrder
<1>0. at[r] \in Nat /\ i \in Nat
  BY AskedFiles, MaxFilesAssumption DEF Positions
<1>1. CASE q # r
  BY <1>1, StepIsOwn DEF AnsweredInOrder
<1>2. CASE q = r /\ Silent(r)
  BY <1>2 DEF Silent, AnsweredInOrder
<1>3. CASE q = r /\ \E code, vid : Answering(r, code, vid)
  <2>1. PICK code, vid : Answering(r, code, vid)
    BY <1>3
  <2>2. phase[r] # "done"
    BY <2>1 DEF Answering
  <2>3. /\ \A j \in Positions \ {at[r]} : outcomes'[r][j] = outcomes[r][j]
        /\ \/ at'[r] = at[r] /\ phase'[r] = "done"
           \/ at'[r] = at[r] + 1 /\ phase'[r] = "checks"
    BY <2>1, AnswerIsNoted
  <2>4. i = at[r] \/ i < at[r]
    BY <1>3, <2>2, <2>3 DEF AnsweredInOrder
  <2> QED
    BY <1>0, <1>3, <2>3, <2>4
<1> QED
  BY <1>1, <1>2, <1>3, StepOnAnswers

(* The handler is called for the next file when it has returned for this. *)
LEMMA NoneIsSkippedStep ==
  ASSUME HandlerInv, NEW r \in Uploaders, UploadStep(r)
  PROVE  NoneIsSkipped'
<1> UploadTypeOK /\ NoneIsSkipped
  BY DEF HandlerInv
<1> SUFFICES ASSUME NEW q \in Uploaders, NEW i \in Positions, i < at'[q]
             PROVE  outcomes'[q][i].code # 0
  BY DEF NoneIsSkipped
<1>0. at[r] \in Nat /\ i \in Nat
  BY AskedFiles, MaxFilesAssumption DEF Positions
<1>1. CASE q # r \/ Silent(r)
  BY <1>1, StepIsOwn DEF Silent, NoneIsSkipped
<1>2. CASE q = r /\ \E code, vid : Answering(r, code, vid)
  <2>1. PICK code, vid : Answering(r, code, vid)
    BY <1>2
  <2>2. code # 0
    BY <2>1 DEF Answering
  <2>3. /\ outcomes'[r][at[r]].code = code
        /\ \A j \in Positions \ {at[r]} : outcomes'[r][j] = outcomes[r][j]
        /\ at'[r] = at[r] \/ at'[r] = at[r] + 1
    BY <2>1, AnswerIsNoted
  <2>4. i < at[r] \/ i = at[r]
    BY <1>0, <1>2, <2>3
  <2> QED
    BY <1>0, <1>2, <2>2, <2>3, <2>4 DEF NoneIsSkipped
<1> QED
  BY <1>1, <1>2, StepOnAnswers

(* Only CheckExists leads to the save, and only without a conflict. *)
LEMMA SavesWithoutErrorStep ==
  ASSUME HandlerInv, NEW r \in Uploaders, UploadStep(r)
  PROVE  SavesWithoutError'
<1> UploadTypeOK /\ SavesWithoutError
  BY DEF HandlerInv
<1> SUFFICES ASSUME NEW q \in Uploaders, (phase[q] = "save")'
             PROVE  (error[q] = 0)'
  BY DEF SavesWithoutError
<1> USE DEF UploadTypeOK, handlerVars, requestVars
<1>1. CASE q # r
  BY <1>1, StepIsOwn DEF SavesWithoutError
<1>2. CASE q = r /\ (Accept(r) \/ Refuse(r) \/ PassChecks(r) \/ FailChecks(r) \/ Crash(r))
  BY <1>2 DEF Accept, Refuse, PassChecks, FailChecks, Crash
<1>3. CASE q = r /\ \E code, vid : Return(r, code, vid)
  BY <1>3 DEF Return
<1>4. CASE q = r /\ CheckExists(r)
  BY <1>4 DEF CheckExists, AfterExists
<1>5. CASE q = r /\ (Save(r) \/ SaveAgain(r) \/ FailSave(r))
  BY <1>5 DEF Save, SaveAgain, FailSave, SavesWithoutError
<1> QED
  BY <1>1, <1>2, <1>3, <1>4, <1>5
  DEF UploadStep, RaiseChecks, RaiseExists, Raise, Audit, FailAudit

(* A handler that has put nothing yet had put nothing before the step. *)
LEMMA NotYetPutBefore ==
  ASSUME HandlerInv, NEW r \in Uploaders, UploadStep(r),
         at'[r] = at[r], NotYetPut(r)'
  PROVE  NotYetPut(r)
<1> UploadTypeOK /\ SavesWithoutError
  BY DEF HandlerInv
<1>1. ~ \E code, vid : Answering(r, code, vid)
  <2> SUFFICES ASSUME NEW code, NEW vid, Answering(r, code, vid) PROVE FALSE
    OBVIOUS
  <2>1. at[r] \in Nat /\ at[r] + 1 # at[r]
    BY AskedFiles
  <2>2. phase'[r] = "done"
    BY <2>1, AnswerIsNoted
  <2> QED
    BY <2>2 DEF NotYetPut
<1>2. Silent(r)
  BY <1>1, StepOnAnswers
<1> USE DEF UploadTypeOK, NotYetPut, handlerVars, requestVars
<1>3. CASE Accept(r) \/ Refuse(r) \/ PassChecks(r) \/ FailChecks(r) \/ Crash(r)
  BY <1>3 DEF Accept, Refuse, PassChecks, FailChecks, Crash
<1>4. CASE CheckExists(r)
  BY <1>4 DEF CheckExists
<1>5. CASE Save(r) \/ SaveAgain(r) \/ FailSave(r)
  BY <1>5 DEF Save, SaveAgain, FailSave, AfterSaveFailure, SavesWithoutError
<1>6. CASE RaiseChecks(r) \/ RaiseExists(r)
  BY <1>6 DEF RaiseChecks, RaiseExists
<1>7. CASE Audit(r) \/ FailAudit(r)
  <2>1. phase[r] = "audit" /\ \E code, vid : Return(r, code, vid)
    BY <1>7 DEF Audit, FailAudit
  <2>2. phase'[r] \in {"done", "checks"}
    BY <2>1 DEF Return
  <2>3. phase'[r] = "checks" => at'[r] # at[r]
    BY <2>1, AskedFiles DEF Return, NextPosition
  <2> QED
    BY <1>2, <2>2, <2>3 DEF Silent
<1> QED
  BY <1>3, <1>4, <1>5, <1>6, <1>7 DEF UploadStep

(* A step puts nothing but the file of the save it makes. *)
LEMMA PutsInOrderStep ==
  ASSUME HandlerInv, NEW r \in Uploaders, UploadStep(r)
  PROVE  PutsInOrder'
<1> UploadTypeOK /\ PutsInOrder
  BY DEF HandlerInv
<1> SUFFICES ASSUME NEW q \in Uploaders, NEW i \in Positions,
                    (i > at[q] \/ (i = at[q] /\ NotYetPut(q)))',
                    NEW v \in PutBy(q, i)'
             PROVE  FALSE
  BY DEF PutsInOrder
<1>0. at[r] \in Nat /\ i \in Nat
  BY AskedFiles, MaxFilesAssumption DEF Positions
<1>1. v \in PutBy(q, i) \/ (q = r /\ i = at[r] /\ phase[r] = "save")
  BY StepOnPuts
<1>2. CASE q # r
  BY <1>1, <1>2, StepIsOwn DEF PutsInOrder, NotYetPut
<1>3. CASE q = r
  <2>1. at'[r] = at[r] \/ (at'[r] = at[r] + 1 /\ phase[r] # "save")
    <3>1. CASE Silent(r)
      BY <3>1 DEF Silent
    <3>2. ASSUME NEW code, NEW vid, Answering(r, code, vid)
          PROVE  at'[r] = at[r] \/ (at'[r] = at[r] + 1 /\ phase[r] # "save")
      <4>1. phase[r] # "save"
        BY <3>2 DEF Answering
      <4> QED
        BY <3>2, <4>1, AnswerIsNoted
    <3> QED
      BY <3>1, <3>2, StepOnAnswers
  <2>2. i > at[r] \/ (i = at[r] /\ NotYetPut(r))
    BY <1>0, <1>3, <2>1, NotYetPutBefore
  <2> QED
    BY <1>0, <1>1, <1>3, <2>2 DEF PutsInOrder, NotYetPut
<1> QED
  BY <1>2, <1>3

(* A version that is stored stays stored, or is replaced by a newer one.   *)
LEMMA StoredAsKept ==
  ASSUME UploadTypeOK, NEW r \in Uploaders, UploadStep(r),
         NEW q \in Uploaders, NEW i, NEW vid \in Nat, vid < nextVid,
         StoredAs(q, i, vid)
  PROVE  StoredAs(q, i, vid)'
<1>1. PICK v \in VersionsOf(ask[q].files[i]) :
        IF Versioned THEN v \in PutBy(q, i) /\ v.vid = vid ELSE v.vid >= vid
  BY DEF StoredAs
<1>2. ask' = ask /\ v \in store /\ v.key = ask[q].files[i] /\ nextVid \in Nat
  BY <1>1, StepIsOwn, StepOnVersions DEF VersionsOf
<1>3. CASE v \in store'
  <2>1. v \in VersionsOf(ask[q].files[i])' /\ (Versioned => v \in PutBy(q, i)')
    BY <1>1, <1>2, <1>3 DEF VersionsOf, PutBy
  <2> QED
    BY <1>1, <2>1 DEF StoredAs
<1>4. CASE ~Versioned /\ v.key = File(r) /\ NewVersion(r) \in store'
  <2>1. NewVersion(r) \in VersionsOf(ask[q].files[i])' /\ NewVersion(r).vid >= vid
    BY <1>2, <1>4 DEF NewVersion, VersionsOf
  <2> QED
    BY <1>4, <2>1 DEF StoredAs
<1> QED
  BY <1>2, <1>3, <1>4, StepOnVersions

(* Only a save that returned leads to the audit without an error. *)
LEMMA SavedByStep ==
  ASSUME UploadTypeOK, NEW r \in Uploaders, UploadStep(r), SavedAtAudit(r)'
  PROVE  Save(r)
<1> USE DEF UploadTypeOK, SavedAtAudit, handlerVars, requestVars
<1>1. CASE Accept(r) \/ Refuse(r) \/ PassChecks(r) \/ FailChecks(r) \/ Crash(r)
  BY <1>1 DEF Accept, Refuse, PassChecks, FailChecks, Crash
<1>2. CASE CheckExists(r)
  BY <1>2 DEF CheckExists, AfterExists
<1>3. CASE SaveAgain(r) \/ FailSave(r)
  BY <1>3 DEF SaveAgain, FailSave, AfterSaveFailure
<1>4. CASE \E code, vid : Return(r, code, vid)
  BY <1>4 DEF Return
<1> QED
  BY <1>1, <1>2, <1>3, <1>4
  DEF UploadStep, RaiseChecks, RaiseExists, Raise, Audit, FailAudit

(* The version a save returns is in the bucket. *)
LEMMA SaveStores ==
  ASSUME UploadTypeOK, NEW r \in Uploaders, Save(r)
  PROVE  /\ phase[r] = "save" /\ at' = at /\ ask' = ask /\ saved'[r] = nextVid
         /\ nextVid \in Nat /\ nextVid' = nextVid + 1
         /\ existed' = existed /\ error' = error /\ checkedAt' = checkedAt
         /\ NewVersion(r) \in store'
<1>1. StorageTypeOK /\ nextVid \in Nat
  BY DEF UploadTypeOK, StorageTypeOK
<1>2. PutObject(File(r), r, at[r]) /\ UNCHANGED auditTable
  BY DEF Save
<1>3. nextVid' = nextVid + 1 /\ NewVersion(r) \in store'
  BY <1>1, <1>2, AskedFiles, PutObjectTypeOK DEF NewVersion
<1> QED
  BY <1>1, <1>3 DEF Save, UploadTypeOK

(* A save returns the VersionId that the put took. *)
LEMMA SavedIsOldStep ==
  ASSUME HandlerInv, NEW r \in Uploaders, UploadStep(r)
  PROVE  SavedIsOld'
<1> UploadTypeOK /\ SavedIsOld
  BY DEF HandlerInv
<1> SUFFICES ASSUME NEW q \in Uploaders, SavedAtAudit(q)'
             PROVE  saved'[q] < nextVid'
  BY DEF SavedIsOld
<1>1. CASE q # r
  <2>1. saved'[q] = saved[q] /\ SavedAtAudit(q)
    BY <1>1, StepIsOwn DEF SavedAtAudit
  <2>2. saved[q] \in Nat /\ saved[q] < nextVid
    BY <2>1 DEF SavedIsOld, UploadTypeOK
  <2>3. nextVid \in Nat /\ nextVid' \in Nat /\ nextVid <= nextVid'
    BY StepOnVersions
  <2> QED
    BY <2>1, <2>2, <2>3
<1>2. CASE q = r
  BY <1>2, SavedByStep, SaveStores
<1> QED
  BY <1>1, <1>2

(* Until the row is written, the saved version stays in the bucket. *)
LEMMA SavedIsStoredStep ==
  ASSUME UploadInv, NEW r \in Uploaders, UploadStep(r)
  PROVE  SavedIsStored'
<1> UploadTypeOK /\ SavedIsStored /\ SavedIsOld
  BY DEF UploadInv, HandlerInv
<1> SUFFICES ASSUME NEW q \in Uploaders, SavedAtAudit(q)'
             PROVE  StoredAs(q, at[q], saved[q])'
  BY DEF SavedIsStored
<1>1. CASE q # r
  <2>1. saved'[q] = saved[q] /\ at'[q] = at[q] /\ SavedAtAudit(q)
    BY <1>1, StepIsOwn DEF SavedAtAudit
  <2>2. saved[q] \in Nat /\ saved[q] < nextVid /\ StoredAs(q, at[q], saved[q])
    BY <2>1 DEF SavedIsStored, SavedIsOld, UploadTypeOK
  <2>3. ASSUME NEW i, NEW vid, i = at[q], vid = saved[q]
        PROVE  StoredAs(q, i, vid)'
    BY <2>2, <2>3, StoredAsKept
  <2> QED
    BY <2>1, <2>3 DEF StoredAs, PutBy, VersionsOf
<1>2. CASE q = r
  <2>1. Save(r)
    BY <1>2, SavedByStep
  <2>2. /\ NewVersion(r) \in VersionsOf(ask[r].files[at[r]])'
        /\ NewVersion(r) \in PutBy(r, at[r])'
        /\ NewVersion(r).vid = saved'[r]
    BY <2>1, SaveStores DEF NewVersion, VersionsOf, PutBy, File
  <2>3. StoredAs(r, at[r], saved[r])'
    BY <2>1, <2>2, SaveStores DEF StoredAs
  <2> QED
    BY <1>2, <2>1, <2>3, SaveStores
<1> QED
  BY <1>1, <1>2

(* A confirmed answer was there before the step, or is that of a save. *)
LEMMA ConfirmedBefore ==
  ASSUME UploadTypeOK, NEW r \in Uploaders, UploadStep(r),
         NEW q \in Uploaders, NEW i \in Positions, Confirmed(q, i)'
  PROVE  \/ Confirmed(q, i) /\ outcomes'[q][i] = outcomes[q][i]
         \/ /\ q = r /\ i = at[r] /\ SavedAtAudit(r)
            /\ outcomes'[q][i].vid = saved[r]
            /\ outcomes'[q][i].code = IF existed[r] THEN 200 ELSE 201
            /\ PutItem(UploadRow(r)) /\ UNCHANGED <<store, nextVid, checkedAt>>
<1>1. CASE q # r \/ Silent(r)
  BY <1>1, StepIsOwn DEF Silent, Confirmed
<1>2. ASSUME q = r, NEW code, NEW vid, Answering(r, code, vid)
      PROVE  \/ Confirmed(q, i) /\ outcomes'[q][i] = outcomes[q][i]
             \/ /\ q = r /\ i = at[r] /\ SavedAtAudit(r)
                /\ outcomes'[q][i].vid = saved[r]
                /\ outcomes'[q][i].code = IF existed[r] THEN 200 ELSE 201
                /\ PutItem(UploadRow(r)) /\ UNCHANGED <<store, nextVid, checkedAt>>
  <2>0. /\ outcomes'[r][at[r]].code = code /\ outcomes'[r][at[r]].vid = vid
        /\ \A j \in Positions \ {at[r]} : outcomes'[r][j] = outcomes[r][j]
        /\ checkedAt' = checkedAt
    <3>1. Answering(r, code, vid)
      BY <1>2
    <3> QED
      BY <3>1, AnswerIsNoted
  <2>1. CASE i # at[r]
    BY <1>2, <2>0, <2>1 DEF Confirmed
  <2>2. CASE i = at[r]
    <3>1. outcomes'[q][i].code = code /\ outcomes'[q][i].vid = vid /\ checkedAt' = checkedAt
      BY <1>2, <2>0, <2>2
    <3>2. code \in {200, 201}
      BY <3>1 DEF Confirmed
    <3>3. /\ SavedAtAudit(r) /\ vid = saved[r] /\ PutItem(UploadRow(r))
          /\ code = IF existed[r] THEN 200 ELSE 201
      BY <1>2, <3>2 DEF Answering
    <3>4. UNCHANGED <<store, nextVid>>
      BY <3>3, StepOnStore DEF SavedAtAudit
    <3> QED
      BY <1>2, <2>2, <3>1, <3>3, <3>4
  <2> QED
    BY <2>1, <2>2
<1> QED
  BY <1>1, <1>2, StepOnAnswers

(* The version of an answer was put before. *)
LEMMA AnsweredIsOldStep ==
  ASSUME HandlerInv, NEW r \in Uploaders, UploadStep(r)
  PROVE  AnsweredIsOld'
<1> UploadTypeOK /\ AnsweredIsOld /\ SavedIsOld
  BY DEF HandlerInv
<1> SUFFICES ASSUME NEW q \in Uploaders, NEW i \in Positions, Confirmed(q, i)'
             PROVE  (outcomes[q][i].vid < nextVid)'
  BY DEF AnsweredIsOld
<1>1. /\ nextVid \in Nat /\ nextVid' \in Nat /\ nextVid <= nextVid'
      /\ saved[r] \in Nat /\ outcomes[q][i].vid \in Nat
  BY StepOnVersions DEF UploadTypeOK
<1>2. CASE Confirmed(q, i) /\ outcomes'[q][i] = outcomes[q][i]
  BY <1>1, <1>2 DEF AnsweredIsOld
<1>3. CASE SavedAtAudit(r) /\ outcomes'[q][i].vid = saved[r]
  BY <1>1, <1>3 DEF SavedIsOld
<1> QED
  BY <1>2, <1>3, ConfirmedBefore

(* What a POST found at its key when it looked it only gets newer. *)
LEMMA FoundNothingKept ==
  ASSUME HandlerInv, NEW r \in Uploaders, UploadStep(r), NEW q \in Uploaders,
         FoundNothing(q), checkedAt'[q] = checkedAt[q]
  PROVE  FoundNothing(q)'
<1> UploadTypeOK
  BY DEF HandlerInv
<1>1. checkedAt[q] <= nextVid
  BY DEF HandlerInv, PostFoundNothing
<1> SUFFICES ASSUME NEW v \in VersionsOf(ask[q].files[1])'
             PROVE  v.vid >= checkedAt[q]
  BY DEF FoundNothing
<1>2. ask' = ask /\ v \in store' /\ v.key = ask[q].files[1]
  BY StepIsOwn DEF VersionsOf
<1>3. nextVid \in Nat /\ checkedAt[q] \in Nat
  BY StepOnVersions DEF UploadTypeOK
<1>4. CASE v \in store
  BY <1>2, <1>4 DEF FoundNothing, VersionsOf
<1>5. CASE v = NewVersion(r)
  BY <1>1, <1>3, <1>5 DEF NewVersion
<1> QED
  BY <1>2, <1>4, <1>5, StepOnVersions

(* No later put of another request is older than the check of a POST. *)
LEMMA PostFoundNothingStep ==
  ASSUME HandlerInv, NEW r \in Uploaders, UploadStep(r)
  PROVE  PostFoundNothing'
<1> UploadTypeOK /\ PostFoundNothing
  BY DEF HandlerInv
<1> DEFINE Bound(q) == phase[q] = "save" \/ SavedAtAudit(q) \/ Confirmed(q, 1)
<1> SUFFICES ASSUME NEW q \in Uploaders
             PROVE  /\ (checkedAt[q] <= nextVid)'
                    /\ (ask[q].type = "POST" /\ Bound(q))' => FoundNothing(q)'
  BY DEF PostFoundNothing
<1>0. /\ nextVid \in Nat /\ nextVid' \in Nat /\ nextVid <= nextVid'
      /\ checkedAt[q] \in Nat /\ checkedAt[q] <= nextVid /\ ask' = ask
  BY StepOnVersions, StepIsOwn DEF UploadTypeOK, PostFoundNothing
<1>1. CASE checkedAt'[q] = checkedAt[q] /\ (Bound(q)' => Bound(q))
  BY <1>0, <1>1, FoundNothingKept DEF PostFoundNothing
<1>2. CASE q # r
  BY <1>1, <1>2, StepIsOwn DEF SavedAtAudit, Confirmed
<1>3. CASE q = r /\ CheckExists(r)
  <2>1. (checkedAt[q] <= nextVid)'
    BY <1>0, <1>3 DEF CheckExists, UploadTypeOK, storageVars
  <2>2. ASSUME ask[r].type = "POST", Bound(r)' PROVE FoundNothing(r)'
    <3>1. at[r] = 1 /\ 1 \in Positions
      BY <2>2, AskedFiles
    <3>2. ~ Confirmed(r, 1) /\ outcomes' = outcomes
      BY <1>3, <3>1 DEF CheckExists, HandlerInv, AnsweredInOrder, Confirmed
    <3>3. phase'[r] = "save"
      BY <1>3, <2>2, <3>2, SavedByStep DEF Confirmed, CheckExists, Save
    <3>4. ~ FileExists(File(r)) /\ store' = store
      BY <1>3, <2>2, <3>3
      DEF CheckExists, AfterExists, Conflict, UploadTypeOK, storageVars
    <3> QED
      BY <1>0, <3>1, <3>4 DEF FoundNothing, FileExists, VersionsOf, File
  <2> QED
    BY <1>0, <1>3, <2>1, <2>2
<1>4. CASE q = r /\ ~ CheckExists(r)
  <2>1. checkedAt' = checkedAt
    BY <1>4 DEF UploadStep, Accept, Refuse, PassChecks, FailChecks, RaiseChecks,
      RaiseExists, Raise, Return, Save, SaveAgain, FailSave, Audit, FailAudit, Crash,
      requestVars
  <2>2. phase'[r] = "save" => phase[r] = "save"
    <3>1. CASE \E code, vid : Answering(r, code, vid)
      BY <3>1, AnswerIsNoted
    <3>2. CASE Silent(r) /\ phase'[r] = "save"
      BY <1>4, <3>2 DEF Silent, UploadStep, Accept, Refuse, PassChecks, FailChecks,
        RaiseChecks, RaiseExists, Raise, Return, Save, SaveAgain, FailSave, Audit,
        FailAudit, Crash, requestVars, handlerVars, UploadTypeOK
    <3> QED
      BY <3>1, <3>2, StepOnAnswers
  <2>3. SavedAtAudit(r)' => phase[r] = "save"
    BY SavedByStep DEF Save
  <2>4. 1 \in Positions
    BY MaxFilesAssumption, AskedFiles DEF Positions
  <2>5. Confirmed(r, 1)' => Confirmed(r, 1) \/ SavedAtAudit(r)
    BY <2>4, ConfirmedBefore
  <2> QED
    BY <1>1, <1>4, <2>1, <2>2, <2>3, <2>5
<1> QED
  BY <1>2, <1>3, <1>4

(* What a request found at its key is older than what it puts there. *)
LEMMA UpdatesSomethingStep ==
  ASSUME UploadInv, NEW r \in Uploaders, UploadStep(r)
  PROVE  UpdatesSomething'
<1> UploadTypeOK /\ UpdatesSomething
  BY DEF UploadInv, HandlerInv
<1> SUFFICES ASSUME NEW q \in Uploaders, Versioned, existed'[q]
             PROVE  /\ (phase[q] = "save" =>
                          \E v \in VersionsOf(File(q)) : v.vid < nextVid)'
                    /\ (SavedAtAudit(q) =>
                          \E v \in VersionsOf(File(q)) : v.vid < saved[q])'
  BY DEF UpdatesSomething
<1>0. /\ ask' = ask /\ store \subseteq store'
      /\ nextVid \in Nat /\ nextVid' \in Nat /\ nextVid <= nextVid'
      /\ \A v \in store : v.vid \in Nat /\ v.vid < nextVid
  <2>1. /\ nextVid \in Nat /\ nextVid' \in Nat /\ nextVid <= nextVid'
        /\ store \subseteq store'
    BY StepOnVersions
  <2>2. ask' = ask
    BY StepIsOwn
  <2>3. \A v \in store : v.vid \in Nat /\ v.vid < nextVid
    BY DEF UploadTypeOK, StorageTypeOK, Version
  <2> QED
    BY <2>1, <2>2, <2>3
<1>1. CASE q # r
  BY <1>0, <1>1, StepIsOwn
  DEF UpdatesSomething, SavedAtAudit, File, VersionsOf
<1>2. CASE q = r /\ CheckExists(r)
  <2>1. ~ SavedAtAudit(r)'
    BY <1>2, SavedByStep DEF CheckExists, Save
  <2>2. FileExists(File(r)) /\ at' = at
    BY <1>2 DEF CheckExists, UploadTypeOK
  <2> QED
    BY <1>0, <1>2, <2>1, <2>2 DEF FileExists, VersionsOf, File
<1>3. CASE q = r /\ SavedAtAudit(r)'
  <2>1. Save(r)
    BY <1>3, SavedByStep
  <2>2. \E v \in VersionsOf(File(r)) : v.vid < nextVid
    BY <1>3, <2>1, SaveStores DEF UpdatesSomething
  <2>3. phase'[r] # "save"
    BY <1>3 DEF SavedAtAudit
  <2> QED
    BY <1>0, <1>3, <2>1, <2>2, <2>3, SaveStores DEF File, VersionsOf
<1>4. CASE q = r /\ phase'[r] = "save" /\ ~ CheckExists(r)
  <2>1. SaveAgain(r)
    <3>1. CASE \E code, vid : Answering(r, code, vid)
      BY <1>4, <3>1, AnswerIsNoted
    <3>2. CASE Silent(r)
      BY <1>4, <3>2 DEF Silent, UploadStep, Accept, Refuse, PassChecks, FailChecks,
        RaiseChecks, RaiseExists, Raise, Return, Save, FailSave, Audit,
        FailAudit, Crash, requestVars, handlerVars, UploadTypeOK
    <3> QED
      BY <3>1, <3>2, StepOnAnswers
  <2>2. phase[r] = "save" /\ at' = at /\ existed' = existed /\ phase' = phase
    BY <2>1 DEF SaveAgain, requestVars
  <2> QED
    BY <1>0, <1>4, <2>2 DEF UpdatesSomething, SavedAtAudit, File, VersionsOf
<1> QED
  BY <1>1, <1>2, <1>3, <1>4

(* An answer 4xx comes from an audit without a save before it. *)
LEMMA RejectedIsNotStoredStep ==
  ASSUME HandlerInv, NEW r \in Uploaders, UploadStep(r)
  PROVE  RejectedIsNotStored'
<1> UploadTypeOK /\ RejectedIsNotStored /\ AnsweredInOrder /\ PutsInOrder
  BY DEF HandlerInv
<1> SUFFICES ASSUME NEW q \in Uploaders, NEW i \in Positions, Rejected(q, i)'
             PROVE  PutBy(q, i)' = {}
  BY DEF RejectedIsNotStored
<1>1. PutBy(q, i)' \subseteq PutBy(q, i)
        \/ (q = r /\ i = at[r] /\ phase[r] = "save")
  BY StepOnPuts
<1>2. CASE Rejected(q, i) /\ (q # r \/ Silent(r) \/ i # at[r])
  <2>1. PutBy(q, i) = {}
    BY <1>2 DEF RejectedIsNotStored
  <2>2. ~ (q = r /\ i = at[r] /\ phase[r] = "save")
    BY <1>2, AskedFiles DEF AnsweredInOrder, Rejected
  <2> QED
    BY <1>1, <2>1, <2>2
<1>3. CASE q # r \/ Silent(r)
  BY <1>2, <1>3, StepIsOwn DEF Silent, Rejected
<1>4. ASSUME q = r, NEW code, NEW vid, Answering(r, code, vid)
      PROVE  PutBy(q, i)' = {}
  <2>0. /\ outcomes'[r][at[r]].code = code /\ outcomes'[r][at[r]].vid = vid
        /\ \A j \in Positions \ {at[r]} : outcomes'[r][j] = outcomes[r][j]
    <3>1. Answering(r, code, vid)
      BY <1>4
    <3> QED
      BY <3>1, AnswerIsNoted
  <2>1. CASE i # at[r]
    BY <1>2, <1>4, <2>0, <2>1 DEF Rejected
  <2>2. CASE i = at[r]
    <3>1. code \in {400, 409}
      BY <1>4, <2>0, <2>2 DEF Rejected
    <3>2. NotYetPut(r) /\ phase[r] # "save"
      BY <1>4, <3>1 DEF Answering, NotYetPut
    <3>3. PutBy(q, i) = {}
      BY <1>4, <2>2, <3>2 DEF PutsInOrder
    <3> QED
      BY <1>1, <3>2, <3>3
  <2> QED
    BY <2>1, <2>2
<1> QED
  BY <1>3, <1>4, StepOnAnswers

(* An answer 200 or 201 comes from an audit after a save that returned. *)
LEMMA ConfirmedIsStoredStep ==
  ASSUME UploadInv, NEW r \in Uploaders, UploadStep(r)
  PROVE  ConfirmedIsStored'
<1> UploadTypeOK /\ ConfirmedIsStored /\ AnsweredIsOld /\ SavedIsStored /\ SavedIsOld
  BY DEF UploadInv, HandlerInv
<1> SUFFICES ASSUME NEW q \in Uploaders, NEW i \in Positions, Confirmed(q, i)'
             PROVE  StoredAs(q, i, outcomes[q][i].vid)'
  BY DEF ConfirmedIsStored, StoredAs
<1>1. PICK vid \in Nat : /\ vid = outcomes'[q][i].vid /\ vid < nextVid
                         /\ StoredAs(q, i, vid)
  <2>1. CASE Confirmed(q, i) /\ outcomes'[q][i] = outcomes[q][i]
    <3>1. outcomes[q][i].vid \in Nat
      BY DEF UploadTypeOK
    <3>2. StoredAs(q, i, outcomes[q][i].vid) /\ outcomes[q][i].vid < nextVid
      BY <2>1 DEF ConfirmedIsStored, StoredAs, AnsweredIsOld
    <3> QED
      BY <2>1, <3>1, <3>2
  <2>2. CASE /\ q = r /\ i = at[r] /\ SavedAtAudit(r)
             /\ outcomes'[q][i].vid = saved[r]
    BY <2>2 DEF SavedIsStored, SavedIsOld, UploadTypeOK
  <2> QED
    BY <2>1, <2>2, ConfirmedBefore
<1>2. StoredAs(q, i, vid)'
  BY <1>1, StoredAsKept
<1> QED
  BY <1>1, <1>2 DEF StoredAs

(* An answer 200 comes from a request that found a file. *)
LEMMA UpdateHasEarlierVersionStep ==
  ASSUME UploadInv, NEW r \in Uploaders, UploadStep(r)
  PROVE  UpdateHasEarlierVersion'
<1> UploadTypeOK /\ UpdateHasEarlierVersion /\ UpdatesSomething
  BY DEF UploadInv, HandlerInv
<1> SUFFICES ASSUME NEW q \in Uploaders, NEW i \in Positions, Versioned,
                    outcomes'[q][i].code = 200
             PROVE  (\E v \in VersionsOf(ask[q].files[i]) :
                       v.vid < outcomes[q][i].vid)'
  BY DEF UpdateHasEarlierVersion
<1>0. ask' = ask /\ store \subseteq store'
  BY StepIsOwn, StepOnVersions
<1>1. Confirmed(q, i)'
  BY DEF Confirmed
<1>2. CASE Confirmed(q, i) /\ outcomes'[q][i] = outcomes[q][i]
  BY <1>0, <1>2 DEF UpdateHasEarlierVersion, VersionsOf
<1>3. CASE /\ q = r /\ i = at[r] /\ SavedAtAudit(r)
           /\ outcomes'[q][i].vid = saved[r]
           /\ outcomes'[q][i].code = IF existed[r] THEN 200 ELSE 201
  <2>1. existed[r]
    BY <1>3
  <2>2. \E v \in VersionsOf(File(r)) : v.vid < saved[r]
    BY <1>3, <2>1 DEF UpdatesSomething
  <2> QED
    BY <1>0, <1>3, <2>2 DEF VersionsOf, File
<1> QED
  BY <1>1, <1>2, <1>3, ConfirmedBefore

(* A row that is in the table after a step was there, or is the own row.   *)
LEMMA StepOnRows ==
  ASSUME UploadTypeOK, NEW r \in Uploaders, UploadStep(r)
  PROVE  /\ \A row \in auditTable' :
              row \in auditTable
                \/ (row = UploadRow(r) /\ phase[r] = "audit" /\ UNCHANGED store)
         /\ \A row \in auditTable :
              row \in auditTable'
                \/ (phase[r] = "audit" /\ row.rid = ask[r].rid /\ row.pos = at[r])
<1>1. CASE UNCHANGED auditTable
  BY <1>1
<1>2. CASE /\ phase[r] = "audit" /\ PutItem(UploadRow(r))
           /\ UNCHANGED <<store, nextVid>>
  <2>1. UploadRow(r).rid = ask[r].rid /\ UploadRow(r).pos = at[r]
    BY DEF UploadRow
  <2>2. StorageTypeOK /\ UploadRow(r) \in AuditRecord
    BY UploadRowType DEF UploadTypeOK
  <2> QED
    BY <1>2, <2>1, <2>2, PutItemTypeOK
<1> QED
  BY <1>1, <1>2, StepOnTable

(* A CREATE or UPDATE row is written after a save that returned. *)
LEMMA AuditIsTrueStep ==
  ASSUME UploadInv, NEW r \in Uploaders, UploadStep(r)
  PROVE  AuditIsTrue'
<1> UploadTypeOK /\ AuditIsTrue /\ SavedIsStored
  BY DEF UploadInv, HandlerInv
<1> SUFFICES ASSUME NEW row \in auditTable', row.op \in {"CREATE", "UPDATE"}
             PROVE  \E v \in VersionsOf(row.file)' :
                      Versioned => v.by = row.by /\ v.pos = row.pos
  BY DEF AuditIsTrue
<1>1. CASE row \in auditTable
  <2>1. PICK v \in VersionsOf(row.file) :
          Versioned => v.by = row.by /\ v.pos = row.pos
    BY <1>1 DEF AuditIsTrue
  <2>2. CASE v \in store'
    BY <2>1, <2>2 DEF VersionsOf
  <2>3. CASE ~Versioned /\ v.key = File(r) /\ NewVersion(r) \in store'
    <3>1. NewVersion(r) \in VersionsOf(row.file)'
      BY <2>1, <2>3 DEF VersionsOf, NewVersion
    <3> QED
      BY <2>3, <3>1
  <2> QED
    BY <2>1, <2>2, <2>3, StepOnVersions DEF VersionsOf
<1>2. CASE row = UploadRow(r) /\ phase[r] = "audit" /\ UNCHANGED store
  <2>1. error[r] = 0 /\ row.file = ask[r].files[at[r]] /\ row.by = r /\ row.pos = at[r]
    BY <1>2 DEF UploadRow, AuditOperation, File
  <2>2. StoredAs(r, at[r], saved[r])
    BY <1>2, <2>1 DEF SavedIsStored, SavedAtAudit
  <2> QED
    BY <1>2, <2>1, <2>2 DEF StoredAs, VersionsOf, PutBy
<1> QED
  BY <1>1, <1>2, StepOnRows

(* The row of a confirmed file is replaced under its own id only. *)
LEMMA ConfirmedIsAuditedStep ==
  ASSUME UploadInv, NEW r \in Uploaders, UploadStep(r)
  PROVE  ConfirmedIsAudited'
<1> UploadTypeOK /\ ConfirmedIsAudited /\ AnsweredInOrder
  BY DEF UploadInv, HandlerInv
<1> DEFINE Row(q, i, row) ==
      /\ row.rid = ask[q].rid /\ row.pos = i /\ row.by = q
      /\ row.file = ask[q].files[i]
      /\ row.op = IF outcomes[q][i].code = 200 THEN "UPDATE" ELSE "CREATE"
    Shared(q) == \E p \in Uploaders \ {q} : ask[p].rid = ask[q].rid /\ phase[p] # "idle"
<1> SUFFICES ASSUME NEW q \in Uploaders, NEW i \in Positions, Confirmed(q, i)'
             PROVE  (\E row \in auditTable' : Row(q, i, row)') \/ Shared(q)'
  BY DEF ConfirmedIsAudited
<1>0. ask' = ask /\ at[r] \in Nat /\ i \in Nat
  BY StepIsOwn, AskedFiles, MaxFilesAssumption DEF Positions
<1>1. CASE Confirmed(q, i) /\ outcomes'[q][i] = outcomes[q][i]
  <2>1. CASE Shared(q)
    BY <1>0, <2>1, StepIsOwn, StepLeavesIdle
  <2>2. CASE \E row \in auditTable : Row(q, i, row)
    <3>1. PICK row \in auditTable : Row(q, i, row)
      BY <2>2
    <3>2. Row(q, i, row)'
      BY <1>0, <1>1, <3>1
    <3>3. CASE row \in auditTable'
      BY <3>2, <3>3
    <3>4. CASE phase[r] = "audit" /\ row.rid = ask[r].rid /\ row.pos = at[r]
      <4>1. q # r
        BY <1>0, <1>1, <3>1, <3>4 DEF AnsweredInOrder, Confirmed
      <4> QED
        BY <1>0, <3>1, <3>4, <4>1, StepLeavesIdle
    <3> QED
      BY <3>3, <3>4, StepOnRows
  <2> QED
    BY <1>1, <2>1, <2>2 DEF ConfirmedIsAudited
<1>2. CASE /\ q = r /\ i = at[r] /\ SavedAtAudit(r) /\ PutItem(UploadRow(r))
           /\ outcomes'[q][i].code = IF existed[r] THEN 200 ELSE 201
  <2>1. PICK row \in auditTable' : row = UploadRow(r)
    BY <1>2 DEF PutItem
  <2>2. Row(r, i, row)'
    BY <1>0, <1>2, <2>1 DEF UploadRow, AuditOperation, SavedAtAudit, File
  <2> QED
    BY <1>2, <2>1, <2>2
<1> QED
  BY <1>1, <1>2, ConfirmedBefore

-----------------------------------------------------------------------------
(* The inductive invariant holds before the first request, ... *)
LEMMA HandlerInitInv == UploadInit => HandlerInv
<1> SUFFICES ASSUME UploadInit PROVE HandlerInv
  OBVIOUS
<1>1. UploadTypeOK
  BY UploadInitTypeOK
<1>2. \A r \in Uploaders : \A i \in Positions : PutBy(r, i) = {}
  BY UploadersAssumption DEF UploadInit, StorageInit, PutBy
<1>3. \A r \in Uploaders : /\ phase[r] = "idle" /\ checkedAt[r] = 0 /\ at[r] = 1
                           /\ \A i \in Positions : outcomes[r][i].code = 0
  BY DEF UploadInit, Unanswered
<1>4. nextVid \in Nat
  BY <1>1 DEF UploadTypeOK, StorageTypeOK
<1>5. \A r \in Uploaders : ask[r].type = "POST" => 1 \in Positions
  BY <1>1, AskedFiles
<1>6. AnsweredInOrder /\ SavesWithoutError /\ PutsInOrder
  BY <1>2, <1>3 DEF AnsweredInOrder, SavesWithoutError, PutsInOrder
<1>7. NoneIsSkipped
  BY <1>3, MaxFilesAssumption DEF NoneIsSkipped, Positions
<1>8. SavedIsOld /\ AnsweredIsOld /\ RejectedIsNotStored
  BY <1>3 DEF SavedIsOld, SavedAtAudit, AnsweredIsOld, Confirmed,
              RejectedIsNotStored, Rejected
<1>9. PostFoundNothing
  BY <1>3, <1>4, <1>5 DEF PostFoundNothing, SavedAtAudit, Confirmed
<1> QED
  BY <1>1, <1>6, <1>7, <1>8, <1>9 DEF HandlerInv

LEMMA UploadInitInv == UploadInit => UploadInv
<1> SUFFICES ASSUME UploadInit PROVE UploadInv
  OBVIOUS
<1>1. HandlerInv
  BY HandlerInitInv
<1>2. \A r \in Uploaders : /\ phase[r] = "idle" /\ existed[r] = FALSE
                           /\ \A i \in Positions : outcomes[r][i].code = 0
  BY DEF UploadInit, NewCall, Unanswered
<1>3. auditTable = {}
  BY DEF UploadInit, StorageInit
<1>4. SavedIsStored /\ UpdatesSomething
  BY <1>2 DEF SavedIsStored, SavedAtAudit, UpdatesSomething
<1>5. ConfirmedIsStored /\ ConfirmedIsAudited
  BY <1>2 DEF ConfirmedIsStored, ConfirmedIsAudited, Confirmed
<1>6. AuditIsTrue /\ UpdateHasEarlierVersion
  BY <1>2, <1>3 DEF AuditIsTrue, UpdateHasEarlierVersion
<1> QED
  BY <1>1, <1>4, <1>5, <1>6 DEF UploadInv

(* ... every step of a request keeps it, ... *)
LEMMA HandlerStepInv ==
  ASSUME HandlerInv, NEW r \in Uploaders, UploadStep(r)
  PROVE  HandlerInv'
<1>1. UploadTypeOK'
  BY UploadStepTypeOK DEF HandlerInv
<1>2. /\ AnsweredInOrder' /\ NoneIsSkipped' /\ SavesWithoutError' /\ PutsInOrder'
      /\ SavedIsOld' /\ AnsweredIsOld' /\ PostFoundNothing' /\ RejectedIsNotStored'
  BY AnsweredInOrderStep, NoneIsSkippedStep, SavesWithoutErrorStep, PutsInOrderStep,
     SavedIsOldStep, AnsweredIsOldStep, PostFoundNothingStep, RejectedIsNotStoredStep
<1> QED
  BY <1>1, <1>2 DEF HandlerInv

LEMMA UploadStepInv ==
  ASSUME UploadInv, NEW r \in Uploaders, UploadStep(r)
  PROVE  UploadInv'
<1>1. HandlerInv'
  BY HandlerStepInv DEF UploadInv
<1>2. /\ SavedIsStored' /\ UpdatesSomething' /\ ConfirmedIsStored'
      /\ ConfirmedIsAudited' /\ AuditIsTrue' /\ UpdateHasEarlierVersion'
  BY SavedIsStoredStep, UpdatesSomethingStep, ConfirmedIsStoredStep,
     ConfirmedIsAuditedStep, AuditIsTrueStep, UpdateHasEarlierVersionStep
<1> QED
  BY <1>1, <1>2 DEF UploadInv

(* ... and so does a step of the rest of the system, which for HandlerInv  *)
(* may take files away.                                                    *)
LEMMA HandlerKept ==
  ASSUME HandlerInv, UNCHANGED uploaderVars,
         StorageTypeOK', nextVid' = nextVid, store' \subseteq store
  PROVE  HandlerInv'
<1> USE DEF uploaderVars, handlerVars, requestVars, HandlerInv
<1>1. UploadTypeOK'
  BY DEF UploadTypeOK
<1>2. /\ AnsweredInOrder' /\ NoneIsSkipped' /\ SavesWithoutError'
      /\ SavedIsOld' /\ AnsweredIsOld'
  BY DEF AnsweredInOrder, NoneIsSkipped, SavesWithoutError, SavedIsOld, SavedAtAudit,
         AnsweredIsOld, Confirmed
<1>3. PutsInOrder' /\ RejectedIsNotStored'
  <2>1. \A r, i : PutBy(r, i)' \subseteq PutBy(r, i)
    BY DEF PutBy
  <2>2. \A r \in Uploaders : NotYetPut(r)' <=> NotYetPut(r)
    BY DEF NotYetPut
  <2> QED
    BY <2>1, <2>2 DEF PutsInOrder, RejectedIsNotStored, Rejected
<1>4. PostFoundNothing'
  BY DEF PostFoundNothing, FoundNothing, SavedAtAudit, Confirmed, VersionsOf
<1> QED
  BY <1>1, <1>2, <1>3, <1>4

LEMMA UploadStutterInv ==
  ASSUME UploadInv, UNCHANGED uploadVars
  PROVE  UploadInv'
<1> USE DEF uploadVars, uploaderVars, storageVars, handlerVars, requestVars,
            UploadInv
<1>1. HandlerInv'
  <2>1. StorageTypeOK'
    BY DEF HandlerInv, UploadTypeOK, StorageTypeOK
  <2> QED
    BY <2>1, HandlerKept
<1>2. SavedIsStored' /\ ConfirmedIsStored' /\ AuditIsTrue'
  BY DEF SavedIsStored, SavedAtAudit, StoredAs, PutBy, VersionsOf, ConfirmedIsStored,
         Confirmed, AuditIsTrue
<1>3. UpdatesSomething' /\ UpdateHasEarlierVersion'
  BY DEF SavedAtAudit, VersionsOf, UpdatesSomething, File, UpdateHasEarlierVersion
<1>4. ConfirmedIsAudited'
  BY DEF ConfirmedIsAudited, Confirmed
<1> QED
  BY <1>1, <1>2, <1>3, <1>4

(* The invariant holds, for any number of requests, files and attempts,    *)
(* with and without versioning.                                            *)
THEOREM UploadInvariant == UploadSpec => []UploadInv
<1>1. UploadInv /\ [UploadNext]_uploadVars => UploadInv'
  BY UploadStepInv, UploadStutterInv DEF UploadNext
<1> QED
  BY <1>1, UploadInitInv, PTL DEF UploadSpec

(* A file whose code is 200 or 201 is in the bucket, however requests,     *)
(* lost replies, failed audit writes and crashes interleave.               *)
THEOREM ConfirmedIsStoredAlways == UploadSpec => []ConfirmedIsStored
<1>1. UploadInv => ConfirmedIsStored
  BY DEF UploadInv
<1> QED
  BY <1>1, UploadInvariant, PTL

(* A file whose code is 400 or 409 was never put, at any position of a     *)
(* bulk upload.                                                            *)
THEOREM RejectedIsNotStoredAlways == UploadSpec => []RejectedIsNotStored
<1>1. UploadInv => RejectedIsNotStored
  BY DEF UploadInv, HandlerInv
<1> QED
  BY <1>1, UploadInvariant, PTL

(* A file whose code is 200 or 201 has its audit row, unless a request     *)
(* with the same x-request-id came too.                                    *)
THEOREM ConfirmedIsAuditedAlways == UploadSpec => []ConfirmedIsAudited
<1>1. UploadInv => ConfirmedIsAudited
  BY DEF UploadInv
<1> QED
  BY <1>1, UploadInvariant, PTL

(* Every CREATE or UPDATE row tells of a put that happened. *)
THEOREM AuditIsTrueAlways == UploadSpec => []AuditIsTrue
<1>1. UploadInv => AuditIsTrue
  BY DEF UploadInv
<1> QED
  BY <1>1, UploadInvariant, PTL

(* A file whose code is 200 replaced an earlier version. *)
THEOREM UpdateHasEarlierVersionAlways == UploadSpec => []UpdateHasEarlierVersion
<1>1. UploadInv => UpdateHasEarlierVersion
  BY DEF UploadInv
<1> QED
  BY <1>1, UploadInvariant, PTL

(* What a POST with code 201 overwrote was put after its existence check. *)
THEOREM PostOverwritesOnlyRacersAlways == UploadSpec => []PostOverwritesOnlyRacers
<1>1. UploadInv => PostOverwritesOnlyRacers
  <2> SUFFICES ASSUME UploadInv, NEW r \in Uploaders, ask[r].type = "POST",
                      Confirmed(r, 1), NEW v \in VersionsOf(ask[r].files[1])
               PROVE  v.vid >= checkedAt[r]
    BY DEF PostOverwritesOnlyRacers
  <2>1. FoundNothing(r)
    BY DEF UploadInv, HandlerInv, PostFoundNothing
  <2> QED
    BY <2>1 DEF FoundNothing
<1> QED
  BY <1>1, UploadInvariant, PTL
=============================================================================
