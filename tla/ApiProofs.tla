----------------------------- MODULE ApiProofs -----------------------------
(***************************************************************************)
(* Theorems about DocumentApi: what uploads, deletes and reads ensure when *)
(* their steps interleave, for any requests, files, keys and page size,    *)
(* with and without versioning, and that all of it implements              *)
(* AuditedStore.                                                           *)
(***************************************************************************)
EXTENDS DocumentApi, UploadsProofs, DeleteProofs, FiniteSetTheorems

-----------------------------------------------------------------------------
(***************************************************************************)
(* Reads.                                                                  *)
(***************************************************************************)
ReadsInv ==
    /\ ReadTypeOK
    /\ \A r \in Readers : readPhase[r] \in {"idle", "look", "audit"} => readCode[r] = 0

LEMMA ReaderInitInv ==
  ASSUME StorageTypeOK, ReaderInit
  PROVE  ReadsInv
BY DEF ReaderInit, ReadsInv, ReadTypeOK, ReadPhase

LEMMA ReadRowType ==
  ASSUME ReadTypeOK, NEW r \in Readers
  PROVE  /\ ReadRow(r) \in AuditRecord
         /\ ReadRow(r).op \in {"READ", "INFO", "FAILED"}
<1>1. /\ readAsk[r].op \in {"READ", "INFO"} /\ readAsk[r].rid \in RequestIds
      /\ readAsk[r].file \in Keys \cup {NoFile} /\ r \in Requests
  BY ReadersAssumption DEF ReadTypeOK, ReadAsk
<1> QED
  BY <1>1 DEF ReadRow, Sought, AuditRecord, OperationType

(* A read writes its row or nothing. *)
LEMMA ReadOnStorage ==
  ASSUME NEW r \in Readers, ReadStep(r)
  PROVE  /\ UNCHANGED <<store, nextVid>>
         /\ UNCHANGED auditTable \/ PutItem(ReadRow(r))
BY DEF ReadStep, AcceptRead, RefuseRead, GetUrl, FailGetUrl, GetVersions, Looked,
       RaiseVersions, AuditRead, FailAuditRead, ReadAnswer, CrashRead, storageVars

LEMMA ReadKeepsStorage ==
  ASSUME ReadTypeOK, NEW r \in Readers, ReadStep(r)
  PROVE  /\ StorageTypeOK' /\ UNCHANGED <<store, nextVid>>
         /\ \A row \in auditTable' : row \in auditTable \/ row.op # "DELETE"
<1>1. StorageTypeOK /\ ReadRow(r) \in AuditRecord /\ ReadRow(r).op # "DELETE"
  BY ReadRowType DEF ReadTypeOK
<1>2. UNCHANGED <<store, nextVid>>
  BY ReadOnStorage
<1>3. CASE UNCHANGED auditTable
  BY <1>1, <1>2, <1>3 DEF StorageTypeOK
<1>4. CASE PutItem(ReadRow(r))
  BY <1>1, <1>2, <1>4, PutItemTypeOK
<1> QED
  BY <1>2, <1>3, <1>4, ReadOnStorage

(* A request that looks a file up answers once. *)
LEMMA ReadStepInv ==
  ASSUME ReadsInv, NEW r \in Readers, ReadStep(r)
  PROVE  ReadsInv'
<1>0. StorageTypeOK'
  BY ReadKeepsStorage DEF ReadsInv
<1> USE DEF ReadsInv, ReadTypeOK, ReadPhase, ReadGoto
<1>1. CASE AcceptRead(r)
  <2>1. VersionsOf(Sought(r)) \subseteq Version
    BY DEF VersionsOf, StorageTypeOK
  <2> QED
    BY <1>0, <1>1, <2>1 DEF AcceptRead
<1>2. CASE RefuseRead(r) \/ CrashRead(r)
  BY <1>0, <1>2 DEF RefuseRead, CrashRead
<1>3. CASE GetUrl(r) \/ FailGetUrl(r)
  BY <1>0, <1>3 DEF GetUrl, FailGetUrl, Looked
<1>4. CASE GetVersions(r)
  <2>1. \A page \in ListPages(Sought(r)) : page \subseteq Version
    BY DEF ListPages, Listable, StorageTypeOK
  <2> QED
    BY <1>0, <1>4, <2>1 DEF GetVersions, Looked
<1>5. CASE RaiseVersions(r) \/ AuditRead(r) \/ FailAuditRead(r)
  <2>1. ReadStatus(readError[r]) \in {0, 200, 400, 404, 500}
    BY DEF ReadStatus
  <2> QED
    BY <1>0, <1>5, <2>1 DEF RaiseVersions, AuditRead, FailAuditRead, ReadAnswer
<1> QED
  BY <1>1, <1>2, <1>3, <1>4, <1>5 DEF ReadStep

LEMMA ReadsKept ==
  ASSUME ReadsInv, StorageTypeOK', UNCHANGED readerVars
  PROVE  ReadsInv'
BY DEF ReadsInv, ReadTypeOK, readerVars

-----------------------------------------------------------------------------
(***************************************************************************)
(* What a step of one request does to the others.                          *)
(***************************************************************************)

(* Deletions leave nextVid alone and add nothing to the bucket. *)
LEMMA DeleteOnStorage ==
  ASSUME DeleteTypeOK, NEW r \in Deleters, DeleteStep(r)
  PROVE  /\ nextVid' = nextVid /\ store' \subseteq store /\ delAsk' = delAsk
         /\ \/ UNCHANGED store
            \/ delPhase[r] = "delete" /\ \E x : DeleteVersion(Key(r), x)
         /\ UNCHANGED store \/ UNCHANGED auditTable
<1>1. CASE DeleteOne(r) \/ FailDeleteOne(r)
  <2>1. \E x : DeleteVersion(Key(r), x) \/ UNCHANGED store
    BY <1>1 DEF DeleteOne, FailDeleteOne
  <2>2. delPhase[r] = "delete" /\ UNCHANGED <<nextVid, auditTable, delAsk>>
    BY <1>1 DEF DeleteOne, FailDeleteOne, Deleted
  <2> QED
    BY <2>1, <2>2 DEF DeleteVersion
<1>2. CASE AcceptDelete(r) \/ RefuseDelete(r) \/ ListVersions(r) \/ FailList(r)
             \/ AuditDelete(r) \/ CrashDelete(r)
  BY <1>2 DEF AcceptDelete, RefuseDelete, ListVersions, FailList, AuditDelete,
              CrashDelete, storageVars
<1> QED
  BY <1>1, <1>2 DEF DeleteStep

(* What is listed for a position stays listed. *)
LEMMA ListedStays ==
  ASSUME DeleteInv, NEW r \in Deleters, DeleteStep(r),
         NEW q \in Deleters, NEW i \in Positions
  PROVE  listed[q][i] \subseteq listed'[q][i]
<1>1. CASE ListVersions(r)
  <2>1. PICK page : listed' = [listed EXCEPT ![r][delAt[r]] = page]
    BY <1>1 DEF ListVersions
  <2>2. listed[r][delAt[r]] = {}
    BY <1>1 DEF ListVersions, DeleteInv, DeleteTypeOK, OutcomesInv
  <2> QED
    BY <2>1, <2>2 DEF DeleteInv, DeleteTypeOK
<1>2. CASE ~ListVersions(r)
  <2>1. listed' = listed
    BY <1>2 DEF DeleteStep, AcceptDelete, RefuseDelete, FailList, DeleteOne,
                FailDeleteOne, Deleted, AuditDelete, CrashDelete
  <2> QED
    BY <2>1
<1> QED
  BY <1>1, <1>2

(* A version in the bucket, or one that a delete request has listed. *)
Survives(v) == v \in store \/ Condemned(v)

LEMMA AsksStay ==
  ASSUME UploadTypeOK, DeleteTypeOK, ApiNext
  PROVE  ask' = ask /\ delAsk' = delAsk /\ readAsk' = readAsk
<1>1. ASSUME NEW r \in Uploaders, Upload(r)
      PROVE  ask' = ask /\ delAsk' = delAsk /\ readAsk' = readAsk
  BY <1>1, StepIsOwn DEF Upload, deleterVars, readerVars
<1>2. ASSUME NEW r \in Deleters, Delete(r)
      PROVE  ask' = ask /\ delAsk' = delAsk /\ readAsk' = readAsk
  BY <1>2, DeleteOnStorage DEF Delete, uploaderVars, requestVars, readerVars
<1>3. ASSUME NEW r \in Readers, Read(r)
      PROVE  ask' = ask /\ delAsk' = delAsk /\ readAsk' = readAsk
  BY <1>3
  DEF Read, uploaderVars, requestVars, deleterVars, ReadStep, AcceptRead, RefuseRead,
      GetUrl, FailGetUrl, GetVersions, Looked, RaiseVersions, AuditRead,
      FailAuditRead, ReadAnswer, CrashRead
<1> QED
  BY <1>1, <1>2, <1>3 DEF ApiNext

LEMMA CondemnedKept ==
  ASSUME HandlerInv, DeleteInv, ApiNext, NEW v, Condemned(v)
  PROVE  Condemned(v)'
<1>1. PICK r \in Deleters, i \in Positions : v \in OwnListed(r, i)
  BY DEF Condemned
<1>2. delAsk' = delAsk
  BY AsksStay DEF HandlerInv, DeleteInv
<1>3. listed[r][i] \subseteq listed'[r][i]
  <2>1. CASE UNCHANGED listed
    BY <2>1
  <2>2. ASSUME NEW q \in Deleters, Delete(q)
        PROVE  listed[r][i] \subseteq listed'[r][i]
    BY <2>2, ListedStays DEF Delete
  <2> QED
    BY <2>1, <2>2 DEF ApiNext, Upload, Read, deleterVars
<1> QED
  BY <1>1, <1>2, <1>3 DEF Condemned, OwnListed

(* With versioning nothing is lost but what somebody condemned. *)
LEMMA SurvivesStep ==
  ASSUME HandlerInv, DeleteInv, Versioned, ApiNext, NEW v, Survives(v)
  PROVE  Survives(v)'
<1>1. CASE Condemned(v)
  BY <1>1, CondemnedKept DEF Survives
<1>2. CASE v \in store
  <2>1. ASSUME NEW r \in Uploaders, Upload(r) PROVE v \in store'
    BY <1>2, <2>1, StepOnVersions DEF Upload, HandlerInv
  <2>2. ASSUME NEW r \in Readers, Read(r) PROVE v \in store'
    BY <1>2, <2>2, ReadOnStorage DEF Read
  <2>3. ASSUME NEW r \in Deleters, Delete(r), v \notin store' PROVE Condemned(v)
    <3>1. v \in OwnListed(r, delAt[r])
      BY <1>2, <2>3, TakesListedOnly DEF Delete
    <3> QED
      BY <3>1 DEF Condemned, DeleteInv, DeleteTypeOK
  <2> QED
    BY <2>1, <2>2, <2>3, CondemnedKept DEF Survives, ApiNext
<1> QED
  BY <1>1, <1>2 DEF Survives

(* A put keeps a VersionId for one version, and the bucket finite. *)
LEMMA PutKeepsUnique ==
  ASSUME HandlerInv, VersionsAreUnique, NEW r \in Uploaders, UploadStep(r)
  PROVE  VersionsAreUnique'
<1>1. \A v \in store : v.vid \in Nat /\ v.vid < nextVid
  BY DEF HandlerInv, UploadTypeOK, StorageTypeOK, Version
<1>2. CASE UNCHANGED <<store, nextVid>>
  BY <1>2 DEF VersionsAreUnique
<1>3. CASE PutObject(File(r), r, at[r])
  <2>1. store' = (IF Versioned THEN store ELSE store \ VersionsOf(File(r)))
                   \cup {NewVersion(r)}
    BY <1>3 DEF PutObject, NewVersion
  <2>2. nextVid \in Nat /\ NewVersion(r).vid = nextVid /\ NewVersion(r).key = File(r)
    BY DEF NewVersion, HandlerInv, UploadTypeOK, StorageTypeOK
  <2>3. \A v \in store : v.vid # nextVid
    BY <1>1, <2>2
  <2> QED
    BY <2>1, <2>2, <2>3 DEF VersionsAreUnique, VersionsOf
<1> QED
  BY <1>2, <1>3, StepOnStore DEF HandlerInv

LEMMA StoreStaysFinite ==
  ASSUME HandlerInv, DeleteInv, IsFiniteSet(store), ApiNext
  PROVE  IsFiniteSet(store')
<1>1. ASSUME NEW r \in Uploaders, Upload(r) PROVE IsFiniteSet(store')
  <2>1. store' \subseteq store \cup {NewVersion(r)}
    BY <1>1, StepOnVersions DEF Upload, HandlerInv
  <2>2. IsFiniteSet(store \cup {NewVersion(r)})
    BY FS_AddElement
  <2> QED
    BY <2>1, <2>2, FS_Subset
<1>2. ASSUME NEW r \in Deleters, Delete(r) PROVE IsFiniteSet(store')
  BY <1>2, DeleteOnStorage, FS_Subset DEF Delete, DeleteInv
<1>3. ASSUME NEW r \in Readers, Read(r) PROVE IsFiniteSet(store')
  BY <1>3, ReadOnStorage DEF Read
<1> QED
  BY <1>1, <1>2, <1>3 DEF ApiNext

(***************************************************************************)
(* Each kind of request keeps the invariants of its own handler whatever   *)
(* the other two kinds do to the bucket and the table.                     *)
(***************************************************************************)
HandlersInv == HandlerInv /\ DeleteInv /\ ReadsInv

LEMMA HandlersInitInv == ApiInit => HandlersInv
<1> SUFFICES ASSUME ApiInit PROVE HandlersInv
  OBVIOUS
<1>1. HandlerInv /\ DeleteInv
  BY HandlerInitInv, DeleteInitInv DEF ApiInit
<1>2. ReadsInv
  BY <1>1, ReaderInitInv DEF ApiInit, DeleteInv, DeleteTypeOK
<1> QED
  BY <1>1, <1>2 DEF HandlersInv

LEMMA HandlersStepInv ==
  ASSUME HandlersInv, ApiNext
  PROVE  HandlersInv'
<1> USE DEF HandlersInv
<1>1. ASSUME NEW r \in Uploaders, Upload(r) PROVE HandlersInv'
  <2>1. UploadStep(r) /\ UNCHANGED <<deleterVars, readerVars>> /\ UploadTypeOK
    BY <1>1 DEF Upload, HandlerInv
  <2>2. HandlerInv'
    BY <2>1, HandlerStepInv
  <2>3. StorageTypeOK'
    BY <2>2 DEF HandlerInv, UploadTypeOK
  <2>4. ReadsInv'
    BY <2>1, <2>3, ReadsKept
  <2>5. VersionsAreUnique'
    BY <2>1, PutKeepsUnique DEF DeleteInv, BucketInv
  <2>6. \A row \in auditTable' : row \in auditTable \/ row.op # "DELETE"
    <3>1. UploadRow(r).op # "DELETE"
      BY DEF UploadRow, AuditOperation
    <3> QED
      BY <2>1, <3>1, StepOnRows
  <2>7. nextVid <= nextVid' /\ \A v \in store' : v \in store \/ v.vid = nextVid
    <3>1. /\ nextVid <= nextVid'
          /\ \A v \in store' : v \in store \/ v = NewVersion(r)
      BY <2>1, StepOnVersions
    <3>2. NewVersion(r).vid = nextVid
      BY DEF NewVersion
    <3> QED
      BY <3>1, <3>2
  <2>8. DeleteInv'
    BY <2>1, <2>3, <2>5, <2>6, <2>7, DeleteKept
  <2> QED
    BY <2>2, <2>4, <2>8
<1>2. ASSUME NEW r \in Deleters, Delete(r) PROVE HandlersInv'
  <2>1. DeleteStep(r) /\ UNCHANGED <<uploaderVars, readerVars>> /\ DeleteTypeOK
    BY <1>2 DEF Delete, DeleteInv
  <2>2. DeleteInv'
    BY <2>1, DeleteStepInv
  <2>3. StorageTypeOK'
    BY <2>2 DEF DeleteInv, DeleteTypeOK
  <2> QED
    BY <2>1, <2>2, <2>3, ReadsKept, HandlerKept, DeleteOnStorage
<1>3. ASSUME NEW r \in Readers, Read(r) PROVE HandlersInv'
  <2>1. ReadStep(r) /\ UNCHANGED <<uploaderVars, deleterVars>> /\ ReadTypeOK
    BY <1>3 DEF Read, ReadsInv
  <2>2. ReadsInv'
    BY <2>1, ReadStepInv
  <2>3. /\ StorageTypeOK' /\ UNCHANGED <<store, nextVid>>
        /\ \A row \in auditTable' : row \in auditTable \/ row.op # "DELETE"
    BY <2>1, ReadKeepsStorage
  <2>4. HandlerInv'
    BY <2>1, <2>3, HandlerKept
  <2>5. VersionsAreUnique' /\ nextVid <= nextVid'
    BY <2>3 DEF DeleteInv, BucketInv, VersionsAreUnique, DeleteTypeOK, StorageTypeOK
  <2>6. DeleteInv'
    BY <2>1, <2>3, <2>5, DeleteKept
  <2> QED
    BY <2>2, <2>4, <2>6
<1> QED
  BY <1>1, <1>2, <1>3 DEF ApiNext

-----------------------------------------------------------------------------
(***************************************************************************)
(* What becomes of a file that was saved, before its answer and after.     *)
(***************************************************************************)

(* The version that the request has just put. *)
SavedVersion(r) == [key |-> File(r), vid |-> saved[r], by |-> r, pos |-> at[r]]

SavedSurvives ==
    \A r \in Uploaders :
      Versioned /\ SavedAtAudit(r) => Survives(SavedVersion(r))

(* Somebody may take the file away: a request that deletes its key or,     *)
(* without versioning, another save of the same file.                      *)
Taken(r, i) ==
    \/ \E q \in Deleters : \E j \in 1..Len(delAsk[q].keys) :
         delAsk[q].keys[j] = ask[r].files[i]
    \/ /\ ~Versioned
       /\ \E q \in Uploaders : \E j \in 1..Len(ask[q].files) :
            ask[q].files[j] = ask[r].files[i] /\ <<q, j>> # <<r, i>>

Backed ==
    \A r \in Uploaders :
      SavedAtAudit(r) =>
        (\E v \in PutBy(r, at[r]) : v.key = File(r)) \/ Taken(r, at[r])

(* What the answer of get_file_details says of one version. *)
Shown(r, v) ==
    \/ v \in versions[r]
    \/ Condemned(v)
    \/ Hidden(v, versions[r])

LooksForAll ==
    \A r \in Readers : \A v \in atArrival[r] :
      /\ v.key = Sought(r)
      /\ Versioned /\ readPhase[r] = "look" => Survives(v)
      /\ Versioned /\ readPhase[r] = "audit" /\ readAsk[r].op = "INFO" => Shown(r, v)

(* The request has the list of position j, and no error but the 404 of an  *)
(* empty one since, or goes on to delete.                                  *)
Found(r, j) ==
    \/ delOutcomes[r][j] \in {204, 404}
    \/ /\ delAt[r] = j
       /\ delPhase[r] = "delete" \/ (delPhase[r] = "audit" /\ delError[r] # 500)

(* What an earlier list has of a key that is asked for again, the later    *)
(* list has too, or it is gone or hidden; a 404 stands for an empty list.  *)
RelistedInv ==
    \A r \in Deleters :
      /\ \A i, j \in Positions :
           /\ i < j /\ j <= Len(delAsk[r].keys)
           /\ delAsk[r].keys[i] = delAsk[r].keys[j] /\ Found(r, j)
           => \A v \in OwnListed(r, i) \cap store :
                v \in listed[r][j] \/ Hidden(v, listed[r][j])
      /\ delPhase[r] = "delete" => delError[r] # 404
      /\ delPhase[r] = "audit" /\ delError[r] = 404 => listed[r][delAt[r]] = {}
      /\ \A j \in Positions : delOutcomes[r][j] = 404 => listed[r][j] = {}

ApiInv ==
    /\ HandlersInv
    /\ IsFiniteSet(store)
    /\ SavedSurvives
    /\ ConfirmedSurvives
    /\ Backed
    /\ LooksForAll
    /\ DetailsHideNothing
    /\ RelistedInv

LEMMA SavedSurvivesStep ==
  ASSUME ApiInv, ApiNext
  PROVE  SavedSurvives'
<1> SUFFICES ASSUME NEW q \in Uploaders, Versioned, SavedAtAudit(q)'
             PROVE  Survives(SavedVersion(q))'
  BY DEF SavedSurvives
<1>0. HandlerInv /\ DeleteInv /\ UploadTypeOK
  BY DEF ApiInv, HandlersInv, HandlerInv
<1>1. ASSUME SavedAtAudit(q), SavedVersion(q)' = SavedVersion(q)
      PROVE  Survives(SavedVersion(q))'
  <2>1. Survives(SavedVersion(q))
    BY <1>1 DEF ApiInv, SavedSurvives
  <2> QED
    BY <1>0, <1>1, <2>1, SurvivesStep
<1>2. CASE UNCHANGED uploaderVars
  BY <1>1, <1>2
  DEF uploaderVars, handlerVars, requestVars, SavedAtAudit, SavedVersion, File
<1>3. ASSUME NEW r \in Uploaders, Upload(r)
      PROVE  Survives(SavedVersion(q))'
  <2>1. CASE q = r
    <3>1. Save(r)
      BY <1>0, <1>3, <2>1, SavedByStep DEF Upload
    <3>2. SavedVersion(q)' = NewVersion(r)
      BY <1>0, <2>1, <3>1, SaveStores DEF SavedVersion, NewVersion, File
    <3> QED
      BY <1>0, <3>1, <3>2, SaveStores DEF Survives
  <2>2. CASE q # r
    BY <1>0, <1>1, <1>3, <2>2, StepIsOwn DEF Upload, SavedAtAudit, SavedVersion, File
  <2> QED
    BY <2>1, <2>2
<1> QED
  BY <1>2, <1>3 DEF ApiNext, Delete, Read

LEMMA ConfirmedSurvivesStep ==
  ASSUME ApiInv, ApiNext
  PROVE  ConfirmedSurvives'
<1> DEFINE Kept(q, i) == [key |-> ask[q].files[i], vid |-> outcomes[q][i].vid,
                          by |-> q, pos |-> i]
<1>0. HandlerInv /\ DeleteInv /\ UploadTypeOK /\ ask' = ask
  BY AsksStay DEF ApiInv, HandlersInv, HandlerInv, DeleteInv
<1> SUFFICES ASSUME NEW q \in Uploaders, NEW i \in Positions,
                    Versioned, Confirmed(q, i)'
             PROVE  Survives(Kept(q, i))'
  BY DEF ConfirmedSurvives, Survives
<1>1. ASSUME Confirmed(q, i), outcomes'[q][i] = outcomes[q][i]
      PROVE  Survives(Kept(q, i))'
  <2>1. Survives(Kept(q, i))
    BY <1>1 DEF ApiInv, ConfirmedSurvives, Survives
  <2>2. Kept(q, i)' = Kept(q, i)
    BY <1>0, <1>1
  <2> QED
    BY <1>0, <2>1, <2>2, SurvivesStep
<1>2. CASE UNCHANGED uploaderVars
  BY <1>1, <1>2 DEF uploaderVars, requestVars, Confirmed
<1>3. ASSUME NEW r \in Uploaders, Upload(r), i = at[r], q = r, SavedAtAudit(r),
             outcomes'[q][i].vid = saved[r]
      PROVE  Survives(Kept(q, i))'
  <2>1. Survives(SavedVersion(r))
    BY <1>3 DEF ApiInv, SavedSurvives
  <2>2. Kept(q, i)' = SavedVersion(r)
    BY <1>0, <1>3 DEF SavedVersion, File
  <2> QED
    BY <1>0, <2>1, <2>2, SurvivesStep
<1>4. ASSUME NEW r \in Uploaders, Upload(r)
      PROVE  Survives(Kept(q, i))'
  BY <1>0, <1>1, <1>3, <1>4, ConfirmedBefore DEF Upload
<1> QED
  BY <1>2, <1>4 DEF ApiNext, Delete, Read

LEMMA BackedStep ==
  ASSUME ApiInv, ApiNext
  PROVE  Backed'
<1>0. /\ HandlerInv /\ DeleteInv /\ UploadTypeOK /\ DeleteTypeOK
      /\ ask' = ask /\ delAsk' = delAsk
  BY AsksStay DEF ApiInv, HandlersInv, HandlerInv, DeleteInv
<1> SUFFICES ASSUME NEW q \in Uploaders, SavedAtAudit(q)'
             PROVE  (\E v \in PutBy(q, at[q])' : v.key = File(q)') \/ Taken(q, at[q])'
  BY DEF Backed
<1>1. ASSUME SavedAtAudit(q), at'[q] = at[q],
             \A v \in store : v \in store' \/ v.key # File(q) \/ Taken(q, at[q])
      PROVE  (\E v \in PutBy(q, at[q])' : v.key = File(q)') \/ Taken(q, at[q])'
  <2>1. File(q)' = File(q) /\ (Taken(q, at[q]) => Taken(q, at[q])')
    BY <1>0, <1>1 DEF File, Taken
  <2>2. CASE Taken(q, at[q])
    BY <2>1, <2>2
  <2>3. CASE ~Taken(q, at[q])
    <3>1. PICK v \in PutBy(q, at[q]) : v.key = File(q)
      BY <1>1, <2>3 DEF ApiInv, Backed
    <3>2. v \in store'
      BY <1>1, <2>3, <3>1 DEF PutBy
    <3>3. v \in PutBy(q, at[q])'
      BY <1>1, <3>1, <3>2 DEF PutBy
    <3> QED
      BY <2>1, <3>1, <3>3
  <2> QED
    BY <2>2, <2>3
<1>2. ASSUME NEW r \in Uploaders, Upload(r)
      PROVE  (\E v \in PutBy(q, at[q])' : v.key = File(q)') \/ Taken(q, at[q])'
  <2>1. CASE q = r
    <3>1. Save(r)
      BY <1>0, <1>2, <2>1, SavedByStep DEF Upload
    <3>2. NewVersion(r) \in store' /\ at' = at
      BY <1>0, <3>1, SaveStores
    <3>3. NewVersion(r) \in PutBy(q, at[q])' /\ NewVersion(r).key = File(q)'
      BY <1>0, <2>1, <3>2 DEF NewVersion, PutBy, File
    <3> QED
      BY <3>3
  <2>2. CASE q # r
    <3>1. SavedAtAudit(q) /\ at'[q] = at[q]
      BY <1>0, <1>2, <2>2, StepIsOwn DEF Upload, SavedAtAudit
    <3>2. ASSUME NEW v \in store, v \notin store', v.key = File(q)
          PROVE  Taken(q, at[q])
      <4>1. ~Versioned /\ v.key = File(r)
        BY <1>0, <1>2, <3>2, StepOnVersions DEF Upload
      <4>2. at[r] \in 1..Len(ask[r].files)
        BY <1>0, AskedFiles
      <4> QED
        BY <2>2, <3>2, <4>1, <4>2 DEF Taken, File
    <3> QED
      BY <1>1, <3>1, <3>2
  <2> QED
    BY <2>1, <2>2
<1>3. ASSUME NEW r \in Deleters, Delete(r)
      PROVE  (\E v \in PutBy(q, at[q])' : v.key = File(q)') \/ Taken(q, at[q])'
  <2>1. SavedAtAudit(q) /\ at'[q] = at[q]
    BY <1>3 DEF Delete, uploaderVars, handlerVars, requestVars, SavedAtAudit
  <2>2. ASSUME NEW v \in store, v \notin store', v.key = File(q)
        PROVE  Taken(q, at[q])
    <3>1. PICK x : DeleteVersion(Key(r), x)
      BY <1>0, <1>3, <2>2, DeleteOnStorage DEF Delete
    <3>2. v.key = Key(r)
      BY <2>2, <3>1 DEF DeleteVersion, VersionsOf
    <3>3. delAt[r] \in 1..Len(delAsk[r].keys)
      BY <1>0, Positioned
    <3> QED
      BY <2>2, <3>2, <3>3 DEF Taken, File, Key
  <2> QED
    BY <1>1, <2>1, <2>2
<1>4. ASSUME NEW r \in Readers, Read(r)
      PROVE  (\E v \in PutBy(q, at[q])' : v.key = File(q)') \/ Taken(q, at[q])'
  <2>1. SavedAtAudit(q) /\ at'[q] = at[q]
    BY <1>4 DEF Read, uploaderVars, handlerVars, requestVars, SavedAtAudit
  <2>2. store' = store
    BY <1>4, ReadOnStorage DEF Read
  <2> QED
    BY <1>1, <2>1, <2>2
<1> QED
  BY <1>2, <1>3, <1>4 DEF ApiNext

-----------------------------------------------------------------------------
(***************************************************************************)
(* What a reader is shown.                                                 *)
(***************************************************************************)

(* A page has every version of the key, or is full of newer ones. *)
LEMMA PageHidesNothing ==
  ASSUME StorageTypeOK, IsFiniteSet(store), NEW k \in Keys,
         NEW page \in ListPages(k), NEW v \in store, v.key = k, v \notin page
  PROVE  Hidden(v, page)
<1> DEFINE all == Listable(k)
<1>1. IsFiniteSet(all) /\ Cardinality(all) \in Nat
  BY FS_Subset, FS_CardinalityType DEF Listable
<1>2. v \in all \ page
  BY StartsWithAssumption DEF Listable
<1>3. page \in SUBSET all
  BY DEF ListPages
<1>4. Cardinality(page) # Cardinality(all)
  BY <1>1, <1>2, <1>3, FS_Subset
<1>5. Cardinality(page) = PageSize
  BY <1>4 DEF ListPages
<1>6. \A w \in page : w.key = v.key /\ w.vid > v.vid
  BY <1>2 DEF ListPages
<1>7. {w \in page : w.key = v.key /\ w.vid > v.vid} = page
  BY <1>6
<1> QED
  BY <1>5, <1>7 DEF Hidden

LEMMA ShownKept ==
  ASSUME HandlersInv, ApiNext, NEW r, NEW v, Shown(r, v), versions'[r] = versions[r]
  PROVE  Shown(r, v)'
BY CondemnedKept DEF HandlersInv, Shown, Hidden

(* What a step of another request, or of this one, does to a read. *)
LEMMA ReadMoves ==
  ASSUME ReadTypeOK, NEW r \in Readers, ReadStep(r)
  PROVE  /\ \A q \in Readers \ {r} :
              /\ readPhase'[q] = readPhase[q] /\ readCode'[q] = readCode[q]
              /\ versions'[q] = versions[q] /\ atArrival'[q] = atArrival[q]
         /\ AcceptRead(r) \/ atArrival' = atArrival
         /\ readPhase'[r] = "look" => AcceptRead(r)
         /\ readPhase'[r] = "audit" /\ readAsk[r].op = "INFO"
              => AcceptRead(r) \/ GetVersions(r)
         /\ readCode'[r] = readCode[r] \/ readCode'[r] = 500
              \/ (readPhase[r] = "audit" /\ versions'[r] = versions[r])
<1> USE DEF ReadTypeOK, ReadPhase, ReadGoto
<1>1. CASE AcceptRead(r) \/ RefuseRead(r) \/ CrashRead(r)
  BY <1>1 DEF AcceptRead, RefuseRead, CrashRead
<1>2. CASE GetUrl(r) \/ FailGetUrl(r) \/ GetVersions(r)
  BY <1>2 DEF GetUrl, FailGetUrl, GetVersions, Looked
<1>3. CASE RaiseVersions(r) \/ AuditRead(r) \/ FailAuditRead(r)
  BY <1>3 DEF RaiseVersions, AuditRead, FailAuditRead, ReadAnswer
<1> QED
  BY <1>1, <1>2, <1>3 DEF ReadStep

LEMMA LooksForAllStep ==
  ASSUME ApiInv, ApiNext
  PROVE  LooksForAll'
<1>0. /\ HandlersInv /\ HandlerInv /\ DeleteInv /\ ReadTypeOK
      /\ readAsk' = readAsk
  BY AsksStay
  DEF ApiInv, HandlersInv, HandlerInv, DeleteInv, ReadsInv
<1> DEFINE Sound(q, v) ==
      /\ v.key = Sought(q)
      /\ Versioned /\ readPhase[q] = "look" => Survives(v)
      /\ Versioned /\ readPhase[q] = "audit" /\ readAsk[q].op = "INFO" => Shown(q, v)
<1> SUFFICES ASSUME NEW q \in Readers, NEW v \in atArrival'[q] PROVE Sound(q, v)'
  BY DEF LooksForAll
<1>1. ASSUME v \in atArrival[q], versions'[q] = versions[q],
             readPhase'[q] = readPhase[q]
      PROVE  Sound(q, v)'
  <2>1. Sound(q, v)
    BY <1>1 DEF ApiInv, LooksForAll
  <2> QED
    BY <1>0, <1>1, <2>1, SurvivesStep, ShownKept DEF Sought
<1>2. CASE UNCHANGED readerVars
  BY <1>1, <1>2 DEF readerVars
<1>3. ASSUME NEW r \in Readers, Read(r) PROVE Sound(q, v)'
  <2>0. ReadStep(r)
    BY <1>3 DEF Read
  <2>1. CASE q # r
    BY <1>0, <1>1, <2>0, <2>1, ReadMoves
  <2>2. CASE q = r /\ AcceptRead(r)
    <3>1. /\ v \in VersionsOf(Sought(q)) /\ v \in store'
          /\ readPhase'[q] = IF Sought(q) = NoFile THEN "audit" ELSE "look"
      BY <1>0, <2>2
      DEF AcceptRead, ReadGoto, ReadTypeOK, storageVars, VersionsOf
    <3>2. v.key = Sought(q)' /\ v.key \in Keys
      BY <1>0, <3>1 DEF VersionsOf, Sought, ReadTypeOK, StorageTypeOK, Version
    <3>3. readPhase'[q] = "look"
      BY <3>1, <3>2, <1>0, ReadersAssumption DEF Sought
    <3> QED
      BY <3>1, <3>2, <3>3 DEF Survives
  <2>3. CASE q = r /\ GetVersions(r)
    <3>1. PICK page \in ListPages(Sought(r)) : Looked(r, page, IF page = {} THEN 404 ELSE 0)
      BY <2>3 DEF GetVersions
    <3>2. /\ versions'[r] = page /\ readPhase[r] = "look" /\ readPhase'[r] = "audit"
          /\ v \in atArrival[r] /\ UNCHANGED storageVars
      BY <1>0, <2>3, <3>1 DEF GetVersions, Looked, ReadGoto, ReadTypeOK
    <3>3. v.key = Sought(r) /\ Sought(r)' = Sought(r) /\ v \in Version
      BY <1>0, <2>3, <3>2 DEF ApiInv, LooksForAll, Sought, ReadTypeOK
    <3>4. ASSUME Versioned, ~Condemned(v) PROVE Shown(r, v)'
      <4>1. v \in store
        BY <2>3, <3>2, <3>4 DEF ApiInv, LooksForAll, Survives
      <4>2. v.key \in Keys /\ IsFiniteSet(store) /\ StorageTypeOK
        BY <1>0, <3>3 DEF Version, ApiInv, ReadTypeOK
      <4>3. v \in page \/ Hidden(v, page)
        BY <3>1, <3>3, <4>1, <4>2, PageHidesNothing
      <4> QED
        BY <3>2, <4>3 DEF Shown, Hidden
    <3>5. ASSUME Condemned(v) PROVE Shown(r, v)'
      BY <1>0, <3>5, CondemnedKept DEF Shown
    <3> QED
      BY <2>3, <3>2, <3>3, <3>4, <3>5
  <2>4. CASE q = r /\ ~AcceptRead(r) /\ ~GetVersions(r)
    <3>1. v \in atArrival[q]
      BY <1>0, <2>0, <2>4, ReadMoves
    <3>2. v.key = Sought(q)
      BY <3>1 DEF ApiInv, LooksForAll
    <3>3. /\ readPhase'[q] # "look"
          /\ ~(readPhase'[q] = "audit" /\ readAsk[q].op = "INFO")
      BY <1>0, <2>0, <2>4, ReadMoves
    <3> QED
      BY <1>0, <3>2, <3>3 DEF Sought
  <2> QED
    BY <2>1, <2>2, <2>3, <2>4
<1> QED
  BY <1>2, <1>3 DEF ApiNext, Upload, Delete

LEMMA DetailsHideNothingStep ==
  ASSUME ApiInv, ApiNext
  PROVE  DetailsHideNothing'
<1>0. HandlersInv /\ ReadsInv /\ ReadTypeOK /\ readAsk' = readAsk
  BY AsksStay
  DEF ApiInv, HandlersInv, HandlerInv, DeleteInv, ReadsInv
<1> SUFFICES ASSUME NEW q \in Readers, Versioned, readAsk[q].op = "INFO",
                    readCode'[q] \in {200, 404}, NEW v \in atArrival'[q]
             PROVE  Shown(q, v)'
  BY <1>0 DEF DetailsHideNothing, Shown
<1>1. ASSUME readCode'[q] = readCode[q], versions'[q] = versions[q],
             atArrival'[q] = atArrival[q]
      PROVE  Shown(q, v)'
  <2>1. Shown(q, v)
    BY <1>1 DEF ApiInv, DetailsHideNothing, Shown
  <2> QED
    BY <1>0, <1>1, <2>1, ShownKept
<1>2. CASE UNCHANGED readerVars
  BY <1>1, <1>2 DEF readerVars
<1>3. ASSUME NEW r \in Readers, Read(r) PROVE Shown(q, v)'
  <2>0. ReadStep(r)
    BY <1>3 DEF Read
  <2>1. CASE q # r
    BY <1>0, <1>1, <2>0, <2>1, ReadMoves
  <2>2. CASE q = r /\ readCode'[q] # readCode[q]
    <3>1. readPhase[r] = "audit" /\ versions'[r] = versions[r]
      BY <1>0, <2>0, <2>2, ReadMoves
    <3>2. v \in atArrival[r]
      BY <1>0, <2>0, <2>2, <3>1, ReadMoves DEF AcceptRead
    <3>3. Shown(r, v)
      BY <2>2, <3>1, <3>2 DEF ApiInv, LooksForAll
    <3> QED
      BY <1>0, <2>2, <3>1, <3>3, ShownKept
  <2>3. CASE q = r /\ readCode'[q] = readCode[q]
    <3>1. readPhase[r] \notin {"idle", "look", "audit"}
      BY <1>0, <2>3 DEF ReadsInv
    <3> QED
      BY <2>0, <3>1
      DEF ReadStep, AcceptRead, RefuseRead, GetUrl, FailGetUrl, GetVersions,
          RaiseVersions, AuditRead, FailAuditRead, CrashRead
  <2> QED
    BY <2>1, <2>2, <2>3
<1> QED
  BY <1>2, <1>3 DEF ApiNext, Upload, Delete

-----------------------------------------------------------------------------
(***************************************************************************)
(* What a delete request lists again.                                      *)
(***************************************************************************)

(* RelistedInv of one request. *)
Relisted(r) ==
    /\ \A i, j \in Positions :
         /\ i < j /\ j <= Len(delAsk[r].keys)
         /\ delAsk[r].keys[i] = delAsk[r].keys[j] /\ Found(r, j)
         => \A v \in OwnListed(r, i) \cap store :
              v \in listed[r][j] \/ Hidden(v, listed[r][j])
    /\ delPhase[r] = "delete" => delError[r] # 404
    /\ delPhase[r] = "audit" /\ delError[r] = 404 => listed[r][delAt[r]] = {}
    /\ \A j \in Positions : delOutcomes[r][j] = 404 => listed[r][j] = {}

(* Nobody puts a version that is in a list already. *)
LEMMA ListedOnlyLeaves ==
  ASSUME ApiInv, ApiNext, NEW r \in Deleters, NEW i \in Positions
  PROVE  listed[r][i] \cap store' \subseteq store
<1>1. \A w \in listed[r][i] : w.vid \in Nat /\ w.vid < nextVid
  BY DEF ApiInv, HandlersInv, DeleteInv, DeleteTypeOK, BucketInv, Version
<1>2. nextVid \in Nat /\ UploadTypeOK
  BY DEF ApiInv, HandlersInv, HandlerInv, DeleteInv, DeleteTypeOK, StorageTypeOK
<1>3. ASSUME NEW q \in Uploaders, Upload(q)
      PROVE  listed[r][i] \cap store' \subseteq store
  <2>1. \A v \in store' : v \in store \/ v = NewVersion(q)
    BY <1>2, <1>3, StepOnVersions DEF Upload
  <2>2. NewVersion(q).vid = nextVid
    BY DEF NewVersion
  <2> QED
    BY <1>1, <1>2, <2>1, <2>2
<1>4. ASSUME NEW q \in Deleters, Delete(q)
      PROVE  listed[r][i] \cap store' \subseteq store
  BY <1>4, DeleteOnStorage DEF Delete, ApiInv, HandlersInv, DeleteInv
<1>5. ASSUME NEW q \in Readers, Read(q)
      PROVE  listed[r][i] \cap store' \subseteq store
  BY <1>5, ReadOnStorage DEF Read
<1> QED
  BY <1>3, <1>4, <1>5 DEF ApiNext

(* What leaves the request's own state alone keeps what it has listed. *)
LEMMA OthersRelist ==
  ASSUME ApiInv, ApiNext, NEW r \in Deleters,
         delAsk' = delAsk, listed'[r] = listed[r], delOutcomes'[r] = delOutcomes[r],
         delAt'[r] = delAt[r], delPhase'[r] = delPhase[r], delError'[r] = delError[r]
  PROVE  Relisted(r)'
<1>1. Relisted(r)
  BY DEF ApiInv, RelistedInv, Relisted
<1>2. \A i \in Positions : OwnListed(r, i)' \cap store' \subseteq OwnListed(r, i) \cap store
  BY ListedOnlyLeaves DEF OwnListed
<1>3. \A j \in Positions : Found(r, j)' => Found(r, j)
  BY DEF Found
<1> QED
  BY <1>1, <1>2, <1>3 DEF Relisted, Hidden

LEMMA RelistedStep ==
  ASSUME ApiInv, ApiNext
  PROVE  RelistedInv'
<1>0. DeleteInv /\ DeleteTypeOK /\ delAsk' = delAsk
  BY AsksStay DEF ApiInv, HandlersInv, HandlerInv, DeleteInv
<1> SUFFICES ASSUME NEW r \in Deleters PROVE Relisted(r)'
  BY DEF RelistedInv, Relisted
<1>1. CASE UNCHANGED deleterVars
  BY <1>0, <1>1, OthersRelist DEF deleterVars
<1>2. ASSUME NEW q \in Deleters, Delete(q), q # r PROVE Relisted(r)'
  <2>1. /\ listed'[r] = listed[r] /\ delOutcomes'[r] = delOutcomes[r]
        /\ delAt'[r] = delAt[r] /\ delPhase'[r] = delPhase[r]
        /\ delError'[r] = delError[r]
    <3> USE <1>0, <1>2 DEF DeleteTypeOK, Goto
    <3>1. CASE AcceptDelete(q) \/ RefuseDelete(q) \/ CrashDelete(q)
      BY <3>1 DEF AcceptDelete, RefuseDelete, CrashDelete
    <3>2. CASE ListVersions(q)
      BY <3>2 DEF ListVersions
    <3>3. CASE FailList(q)
      BY <3>3 DEF FailList
    <3>4. CASE DeleteOne(q) \/ FailDeleteOne(q)
      <4>1. PICK v : Deleted(q, v)
        BY <3>4 DEF DeleteOne, FailDeleteOne
      <4>2. PICK failed \in BOOLEAN :
              delError' = [delError EXCEPT ![q] = AfterDelete(@, failed)]
        BY <3>4 DEF DeleteOne, FailDeleteOne
      <4> QED
        BY <4>1, <4>2 DEF Deleted
    <3>5. CASE AuditDelete(q)
      BY <3>5 DEF AuditDelete
    <3> QED
      BY <3>1, <3>2, <3>3, <3>4, <3>5 DEF Delete, DeleteStep
  <2> QED
    BY <1>0, <2>1, OthersRelist
<1>3. ASSUME Delete(r) PROVE Relisted(r)'
  <2>0. DeleteStep(r)
    BY <1>3 DEF Delete
  <2>1. Relisted(r)
    BY DEF ApiInv, RelistedInv, Relisted
  <2>2. \A i \in Positions : listed[r][i] \cap store' \subseteq store
    BY ListedOnlyLeaves
  <2>3. /\ delAt[r] \in Positions /\ delAt[r] \in Nat /\ Key(r) \in Keys
        /\ \A i \in Positions : i \in Nat
    BY <1>0, Positioned, MaxFilesAssumption DEF Positions
  <2>4. CASE ListVersions(r)
    <3>1. PICK page \in ListPages(Key(r)) :
            /\ listed' = [listed EXCEPT ![r][delAt[r]] = page]
            /\ delError' = [delError EXCEPT ![r] = IF page = {} THEN 404 ELSE 0]
            /\ delPhase' = [delPhase EXCEPT ![r] =
                              IF page = {} THEN "audit" ELSE "delete"]
      BY <2>4 DEF ListVersions, Goto
    <3>2. /\ UNCHANGED <<store, delAsk, delAt, delOutcomes>> /\ delPhase[r] = "list"
      BY <2>4 DEF ListVersions, storageVars
    <3>3. /\ listed'[r][delAt[r]] = page
          /\ delError'[r] = (IF page = {} THEN 404 ELSE 0)
          /\ delPhase'[r] = (IF page = {} THEN "audit" ELSE "delete")
          /\ \A i \in Positions : i # delAt[r] => listed'[r][i] = listed[r][i]
      BY <1>0, <2>3, <3>1 DEF DeleteTypeOK
    <3>4. \A j \in Positions : delAt[r] <= j => delOutcomes[r][j] = 0
      BY <1>0, <3>2 DEF DeleteInv, OutcomesInv, Working
    <3>5. ASSUME NEW i \in Positions, NEW j \in Positions, i < j,
                 j <= Len(delAsk[r].keys),
                 delAsk[r].keys[i] = delAsk[r].keys[j], Found(r, j)',
                 NEW v \in OwnListed(r, i)' \cap store'
          PROVE  v \in listed'[r][j] \/ Hidden(v, listed'[r][j])
      <4>1. j <= delAt[r]
        BY <2>3, <3>2, <3>4, <3>5 DEF Found
      <4>2. listed'[r][i] = listed[r][i] /\ v \in OwnListed(r, i) \cap store
        BY <2>3, <3>2, <3>3, <3>5, <4>1 DEF OwnListed
      <4>3. CASE j # delAt[r]
        <5>1. Found(r, j) /\ listed'[r][j] = listed[r][j]
          BY <3>2, <3>3, <3>5, <4>3 DEF Found
        <5> QED
          BY <2>1, <3>5, <4>2, <5>1 DEF Relisted
      <4>4. CASE j = delAt[r]
        <5>1. v.key = Key(r)
          BY <3>5, <4>2, <4>4 DEF OwnListed, Key
        <5>2. StorageTypeOK /\ IsFiniteSet(store)
          BY <1>0 DEF ApiInv, DeleteTypeOK
        <5>3. v \in page \/ Hidden(v, page)
          BY <2>3, <4>2, <5>1, <5>2, PageHidesNothing
        <5> QED
          BY <3>3, <4>4, <5>3
      <4> QED
        BY <4>3, <4>4
    <3>6. \A j \in Positions : delOutcomes'[r][j] = 404 => listed'[r][j] = {}
      BY <2>1, <2>3, <3>2, <3>3, <3>4 DEF Relisted
    <3> QED
      BY <3>2, <3>3, <3>5, <3>6 DEF Relisted
  <2>5. CASE AuditDelete(r)
    <3>1. /\ delPhase[r] = "audit" /\ UNCHANGED <<store, delAsk, listed>>
          /\ delOutcomes' = [delOutcomes EXCEPT ![r][delAt[r]] = DeleteCode(delError[r])]
          /\ delPhase' = [delPhase EXCEPT ![r] =
                            IF delAt[r] = Len(delAsk[r].keys) THEN "done" ELSE "list"]
      BY <2>5 DEF AuditDelete, Goto
    <3>2. /\ delPhase'[r] \in {"done", "list"}
          /\ delOutcomes'[r][delAt[r]] = DeleteCode(delError[r])
          /\ \A j \in Positions : j # delAt[r] => delOutcomes'[r][j] = delOutcomes[r][j]
      BY <1>0, <2>3, <3>1 DEF DeleteTypeOK
    <3>3. \A j \in Positions : Found(r, j)' => Found(r, j)
      BY <3>1, <3>2 DEF Found, DeleteCode
    <3>4. \A j \in Positions : delOutcomes'[r][j] = 404 => listed'[r][j] = {}
      BY <2>1, <2>3, <3>1, <3>2 DEF Relisted, DeleteCode
    <3> QED
      BY <2>1, <3>1, <3>2, <3>3, <3>4 DEF Relisted, OwnListed, Hidden
  <2>6. CASE FailList(r)
    <3>1. /\ delError'[r] = 500 /\ delPhase'[r] = "audit"
          /\ UNCHANGED <<store, delAsk, delAt, delOutcomes, listed>>
      BY <1>0, <2>6 DEF FailList, Goto, DeleteTypeOK, storageVars
    <3>2. \A j \in Positions : Found(r, j)' => Found(r, j)
      BY <3>1 DEF Found
    <3> QED
      BY <2>1, <3>1, <3>2 DEF Relisted, OwnListed, Hidden
  <2>7. CASE DeleteOne(r) \/ FailDeleteOne(r)
    <3>1. PICK failed \in BOOLEAN :
            delError' = [delError EXCEPT ![r] = AfterDelete(@, failed)]
      BY <2>7 DEF DeleteOne, FailDeleteOne
    <3>2. PICK v : Deleted(r, v)
      BY <2>7 DEF DeleteOne, FailDeleteOne
    <3>3. /\ delPhase[r] = "delete" /\ UNCHANGED <<delAsk, delAt, delOutcomes, listed>>
          /\ delPhase'[r] \in {"delete", "audit"}
          /\ delError'[r] \in {delError[r], 500}
      BY <1>0, <2>7, <3>1, <3>2
      DEF DeleteOne, FailDeleteOne, Deleted, Goto, DeleteTypeOK, AfterDelete
    <3>4. delError'[r] # 404
      BY <2>1, <3>3 DEF Relisted
    <3>5. \A j \in Positions : Found(r, j)' => Found(r, j)
      BY <3>3 DEF Found
    <3>6. \A i \in Positions :
            OwnListed(r, i)' \cap store' \subseteq OwnListed(r, i) \cap store
      BY <2>2, <3>3 DEF OwnListed
    <3> QED
      BY <2>1, <3>3, <3>4, <3>5, <3>6 DEF Relisted, Hidden
  <2>8. CASE AcceptDelete(r) \/ RefuseDelete(r) \/ CrashDelete(r)
    <3>1. /\ delPhase'[r] \in {"list", "refused", "crashed"}
          /\ UNCHANGED <<store, delAsk, delAt, delOutcomes, listed>>
      BY <1>0, <2>8
      DEF AcceptDelete, RefuseDelete, CrashDelete, Goto, DeleteTypeOK, storageVars
    <3>2. \A j \in Positions : Found(r, j)' => Found(r, j)
      BY <3>1 DEF Found
    <3> QED
      BY <2>1, <3>1, <3>2 DEF Relisted, OwnListed, Hidden
  <2> QED
    BY <2>0, <2>4, <2>5, <2>6, <2>7, <2>8 DEF DeleteStep
<1> QED
  BY <1>1, <1>2, <1>3 DEF ApiNext, Upload, Read

(* What the client reads for a key then speaks of every position. *)
LEMMA ReportOfAll ==
  ASSUME ApiInv
  PROVE  ReportIsTrue
<1> SUFFICES ASSUME NEW r \in Deleters, NEW j \in Reported(r),
                    NEW i \in 1..Len(delAsk[r].keys),
                    delOutcomes[r][j] \in {204, 404},
                    delAsk[r].keys[i] = delAsk[r].keys[j],
                    NEW v \in OwnListed(r, i) \cap store
             PROVE  Hidden(v, listed[r][j])
  BY DEF ReportIsTrue
<1>1. /\ DeletedIsGone /\ Relisted(r) /\ DeleteTypeOK
  BY DEF ApiInv, HandlersInv, DeleteInv, RelistedInv, Relisted
<1>2. Len(delAsk[r].keys) \in Positions
  BY <1>1, Positioned
<1>3. j \in 1..Len(delAsk[r].keys) /\ i <= j
  BY <1>2, MaxFilesAssumption DEF Reported, Positions
<1>4. i \in Positions /\ j \in Positions /\ i \in Nat /\ j \in Nat
  BY <1>2, <1>3, MaxFilesAssumption DEF Positions
<1>5. v \notin listed[r][j]
  <2>1. v \in listed[r][j] => v \in OwnListed(r, j)
    BY DEF OwnListed
  <2> QED
    BY <1>1, <1>4, <2>1 DEF DeletedIsGone, Relisted
<1>6. i # j
  BY <1>5 DEF OwnListed
<1> QED
  BY <1>1, <1>3, <1>4, <1>5, <1>6 DEF Relisted, Found

-----------------------------------------------------------------------------
LEMMA ApiInitInv == ApiInit => ApiInv
<1> SUFFICES ASSUME ApiInit PROVE ApiInv
  OBVIOUS
<1>1. HandlersInv
  BY HandlersInitInv
<1>2. IsFiniteSet(store)
  BY StoredBeforeAssumption DEF ApiInit, UploadInit, StorageInit
<1>3. SavedSurvives /\ Backed /\ ConfirmedSurvives
  BY DEF ApiInit, UploadInit, SavedSurvives, Backed, ConfirmedSurvives, SavedAtAudit,
         Confirmed, Unanswered
<1>4. LooksForAll /\ DetailsHideNothing
  BY DEF ApiInit, ReaderInit, LooksForAll, DetailsHideNothing
<1>5. RelistedInv
  BY DEF ApiInit, DeleteInit, RelistedInv, Found
<1> QED
  BY <1>1, <1>2, <1>3, <1>4, <1>5 DEF ApiInv

LEMMA ApiStepInv ==
  ASSUME ApiInv, ApiNext
  PROVE  ApiInv'
<1>1. HandlersInv'
  BY HandlersStepInv DEF ApiInv
<1>2. IsFiniteSet(store')
  BY StoreStaysFinite DEF ApiInv, HandlersInv
<1> QED
  BY <1>1, <1>2, SavedSurvivesStep, ConfirmedSurvivesStep, BackedStep, LooksForAllStep,
     DetailsHideNothingStep, RelistedStep
  DEF ApiInv

LEMMA ApiStutterInv ==
  ASSUME ApiInv, UNCHANGED apiVars
  PROVE  ApiInv'
<1> USE DEF apiVars, storageVars
<1>1. HandlersInv'
  <2>1. StorageTypeOK'
    BY DEF ApiInv, HandlersInv, ReadsInv, ReadTypeOK, StorageTypeOK
  <2>2. VersionsAreUnique'
    BY DEF ApiInv, HandlersInv, DeleteInv, BucketInv, VersionsAreUnique
  <2>3. nextVid <= nextVid'
    BY DEF ApiInv, HandlersInv, ReadsInv, ReadTypeOK, StorageTypeOK
  <2> QED
    BY <2>1, <2>2, <2>3, HandlerKept, DeleteKept, ReadsKept DEF ApiInv, HandlersInv
<1>2. UNCHANGED <<uploaderVars, deleterVars, readerVars>>
  OBVIOUS
<1>3. \A v : Condemned(v) => Condemned(v)'
  BY <1>2 DEF deleterVars, Condemned, OwnListed
<1>4. SavedSurvives' /\ ConfirmedSurvives'
  BY <1>2, <1>3
  DEF ApiInv, SavedSurvives, ConfirmedSurvives, Survives, SavedAtAudit, SavedVersion,
      File, Confirmed, uploaderVars, handlerVars, requestVars
<1>5. Backed'
  BY <1>2
  DEF ApiInv, Backed, SavedAtAudit, PutBy, File, Taken, uploaderVars, handlerVars,
      requestVars, deleterVars
<1>6. \A r, v : Shown(r, v) => Shown(r, v)'
  BY <1>2, <1>3 DEF Shown, Hidden, readerVars
<1>7. LooksForAll' /\ DetailsHideNothing'
  <2>1. LooksForAll'
    BY <1>2, <1>3, <1>6 DEF ApiInv, LooksForAll, Survives, Sought, readerVars
  <2>2. \A r \in Readers :
          Versioned /\ readAsk[r].op = "INFO" /\ readCode[r] \in {200, 404}
            => \A v \in atArrival[r] : Shown(r, v)
    BY DEF ApiInv, DetailsHideNothing, Shown
  <2>3. \A r \in Readers :
          Versioned /\ readAsk'[r].op = "INFO" /\ readCode'[r] \in {200, 404}
            => \A v \in atArrival'[r] : Shown(r, v)'
    BY <1>2, <1>6, <2>2 DEF readerVars
  <2> QED
    BY <2>1, <2>3 DEF DetailsHideNothing, Shown
<1>8. RelistedInv'
  BY <1>2 DEF ApiInv, RelistedInv, Found, Hidden, OwnListed, deleterVars
<1> QED
  BY <1>1, <1>4, <1>5, <1>7, <1>8 DEF ApiInv

-----------------------------------------------------------------------------
(* What uploads, deletes and reads keep between them: the invariant of     *)
(* each handler, and what becomes of saved files and of listed versions    *)
(* (DocumentApi).                                                          *)
THEOREM ApiInvariant == ApiSpec => []ApiInv
<1>1. ApiInv /\ [ApiNext]_apiVars => ApiInv'
  BY ApiStepInv, ApiStutterInv
<1> QED
  BY <1>1, ApiInitInv, PTL DEF ApiSpec

(* The state of all the requests, the bucket and the table is always of    *)
(* its type, when all three kinds run together.                            *)
THEOREM ApiTypeCorrect == ApiSpec => []ApiTypeOK
<1>1. ApiInv => ApiTypeOK
  BY DEF ApiInv, HandlersInv, HandlerInv, DeleteInv, ReadsInv, ApiTypeOK
<1> QED
  BY <1>1, ApiInvariant, PTL

(* A version answered with 200 or 201 is in the bucket until a delete      *)
(* request for its key has listed it (s3_service.save against              *)
(* delete_all_file_versions, with versioning).                             *)
THEOREM ConfirmedSurvivesAlways == ApiSpec => []ConfirmedSurvives
<1>1. ApiInv => ConfirmedSurvives
  BY DEF ApiInv
<1> QED
  BY <1>1, ApiInvariant, PTL

(* get_file_details hides no version that was there when it was asked, but *)
(* for the limit of the page and for what deletes have listed              *)
(* (list_file_versions).                                                   *)
THEOREM DetailsHideNothingAlways == ApiSpec => []DetailsHideNothing
<1>1. ApiInv => DetailsHideNothing
  BY DEF ApiInv
<1> QED
  BY <1>1, ApiInvariant, PTL

(* Nothing of a rejected file is in the bucket, deletes and reads running  *)
(* at the same time (the error_status of handle_file_upload_logic).        *)
THEOREM ApiRejectedIsNotStored == ApiSpec => []RejectedIsNotStored
<1>1. ApiInv => RejectedIsNotStored
  BY DEF ApiInv, HandlersInv, HandlerInv
<1> QED
  BY <1>1, ApiInvariant, PTL

(* No 204 over a listed version that is still there, uploads and reads     *)
(* running at the same time, with and without versioning.                  *)
THEOREM ApiDeletedIsGone == ApiSpec => []DeletedIsGone
<1>1. ApiInv => DeletedIsGone
  BY DEF ApiInv, HandlersInv, DeleteInv
<1> QED
  BY <1>1, ApiInvariant, PTL

(* Over every DELETE row the listed versions are gone and the code that a  *)
(* client reads of its position is 204, whatever rows the other requests   *)
(* write and replace.                                                      *)
THEOREM ApiDeleteAuditIsTrue == ApiSpec => []DeleteAuditIsTrue
<1>1. ApiInv => DeleteAuditIsTrue
  BY DEF ApiInv, HandlersInv, DeleteInv, RowsInv, DeletedIsGone, DeleteAuditIsTrue
<1> QED
  BY <1>1, ApiInvariant, PTL

(* What a client reads for a file that its delete request names more than  *)
(* once is true of all the lists, but for the limit of the last one's page *)
(* (outcomes[file_key] in delete_files).                                   *)
THEOREM ApiReportIsTrue == ApiSpec => []ReportIsTrue
<1>1. ApiInv => ReportIsTrue
  BY ReportOfAll
<1> QED
  BY <1>1, ApiInvariant, PTL

(* With versioning only the loop of a delete request takes versions out of *)
(* the bucket, and only those it listed under its own key: no put and no   *)
(* read does.                                                              *)
THEOREM ApiDeletesOnlyListed == ApiSpec => DeletesOnlyListed
<1> DEFINE Allowed ==
      Versioned =>
        \A v \in store \ store' :
          \E r \in Deleters : delPhase[r] = "delete" /\ v \in OwnListed(r, delAt[r])
<1>1. ASSUME ApiInv, [ApiNext]_apiVars
      PROVE  [Allowed]_deleteVars
  <2>1. HandlersInv /\ UploadTypeOK
    BY <1>1 DEF ApiInv, HandlersInv, HandlerInv
  <2>2. CASE UNCHANGED apiVars
    BY <2>2 DEF apiVars, deleteVars
  <2>3. ASSUME NEW r \in Uploaders, Upload(r) PROVE Allowed
    BY <2>1, <2>3, StepOnVersions DEF Upload
  <2>4. ASSUME NEW r \in Deleters, Delete(r) PROVE Allowed
    BY <2>1, <2>4, TakesListedOnly DEF Delete, HandlersInv
  <2>5. ASSUME NEW r \in Readers, Read(r) PROVE Allowed
    BY <2>5, ReadOnStorage DEF Read
  <2> QED
    BY <1>1, <2>2, <2>3, <2>4, <2>5 DEF ApiNext
<1> QED
  BY <1>1, ApiInvariant, PTL DEF ApiSpec, DeletesOnlyListed

(* What a POST with code 201 overwrote was put after its existence check,  *)
(* deletes or not.                                                         *)
THEOREM ApiPostOverwritesOnlyRacers == ApiSpec => []PostOverwritesOnlyRacers
<1>1. ApiInv => PostOverwritesOnlyRacers
  <2> SUFFICES ASSUME ApiInv, NEW r \in Uploaders, ask[r].type = "POST",
                      Confirmed(r, 1), NEW v \in VersionsOf(ask[r].files[1])
               PROVE  v.vid >= checkedAt[r]
    BY DEF PostOverwritesOnlyRacers
  <2>1. FoundNothing(r)
    BY DEF ApiInv, HandlersInv, HandlerInv, PostFoundNothing
  <2> QED
    BY <2>1 DEF FoundNothing
<1> QED
  BY <1>1, ApiInvariant, PTL

-----------------------------------------------------------------------------
(***************************************************************************)
(* The refinement.  First how the variables of AuditedStore read in those  *)
(* of DocumentApi, then each step.                                         *)
(***************************************************************************)
View ==
    /\ Wants = [r \in Requests |-> Wants[r]]
    /\ Answers = [r \in Requests |-> Answers[r]]
    /\ \A r \in Uploaders :
         /\ Wants[r] = [i \in DOMAIN ask[r].files |->
                          Want("SAVE", ask[r].rid, ask[r].files[i])]
         /\ Answers[r] = [i \in DOMAIN ask[r].files |-> outcomes[r][i].code]
    /\ \A r \in Deleters :
         /\ Wants[r] = [i \in DOMAIN delAsk[r].keys |->
                          Want("DELETE", delAsk[r].rid, delAsk[r].keys[i])]
         /\ Answers[r] = [i \in DOMAIN delAsk[r].keys |-> delOutcomes[r][i]]
    /\ \A r \in Readers :
         /\ Wants[r] = <<Want(readAsk[r].op, readAsk[r].rid, Sought(r))>>
         /\ Answers[r] = <<readCode[r]>>
    /\ \A r \in Requests \ (Uploaders \cup Deleters \cup Readers) :
         Wants[r] = <<>> /\ Answers[r] = <<>>

LEMMA ViewOK == View
<1> USE RequestsAssumption, UploadersAssumption, DeletersAssumption, ReadersAssumption
<1>1. ASSUME NEW r \in Uploaders
      PROVE  /\ Wants[r] = [i \in DOMAIN ask[r].files |->
                              Want("SAVE", ask[r].rid, ask[r].files[i])]
             /\ Answers[r] = [i \in DOMAIN ask[r].files |-> outcomes[r][i].code]
  BY DEF Wants, Answers
<1>2. ASSUME NEW r \in Deleters
      PROVE  /\ Wants[r] = [i \in DOMAIN delAsk[r].keys |->
                              Want("DELETE", delAsk[r].rid, delAsk[r].keys[i])]
             /\ Answers[r] = [i \in DOMAIN delAsk[r].keys |-> delOutcomes[r][i]]
  <2>1. r \in Requests /\ r \notin Uploaders
    OBVIOUS
  <2> QED
    BY <2>1 DEF Wants, Answers
<1>3. ASSUME NEW r \in Readers
      PROVE  /\ Wants[r] = <<Want(readAsk[r].op, readAsk[r].rid, Sought(r))>>
             /\ Answers[r] = <<readCode[r]>>
  <2>1. r \in Requests /\ r \notin Uploaders /\ r \notin Deleters
    OBVIOUS
  <2> QED
    BY <2>1 DEF Wants, Answers
<1>4. ASSUME NEW r \in Requests \ (Uploaders \cup Deleters \cup Readers)
      PROVE  Wants[r] = <<>> /\ Answers[r] = <<>>
  BY DEF Wants, Answers
<1>5. /\ Wants = [r \in Requests |-> Wants[r]]
      /\ Answers = [r \in Requests |-> Answers[r]]
  BY DEF Wants, Answers
<1> QED
  BY <1>1, <1>2, <1>3, <1>4, <1>5 DEF View

(* The files and the keys of a request are numbered from 1. *)
LEMMA Numbered ==
  ASSUME UploadTypeOK, DeleteTypeOK
  PROVE  /\ \A r \in Uploaders : DOMAIN ask[r].files = 1..Len(ask[r].files)
         /\ \A r \in Deleters : DOMAIN delAsk[r].keys = 1..Len(delAsk[r].keys)
<1>1. ASSUME NEW s \in FileLists PROVE DOMAIN s = 1..Len(s)
  <2>1. PICK n \in Positions : s \in [1..n -> Keys]
    BY DEF FileLists
  <2>2. n \in Nat /\ s \in Seq(Keys)
    BY <2>1, MaxFilesAssumption, SeqDef DEF Positions
  <2> QED
    BY <2>2, LenProperties
<1> QED
  BY <1>1, AsksAssumption, DeletersAssumption
  DEF UploadTypeOK, DeleteTypeOK, Ask, DeleteAsk

LEMMA WantsStay ==
  ASSUME UploadTypeOK, DeleteTypeOK, ApiNext
  PROVE  Wants' = Wants
<1>1. ask' = ask /\ delAsk' = delAsk /\ readAsk' = readAsk
  BY AsksStay
<1> QED
  BY <1>1 DEF Wants, Sought

LEMMA AnswerAt ==
  ASSUME View, View', NEW r \in Requests, NEW i \in DOMAIN Answers[r], NEW code,
         \A q \in Requests \ {r} : Answers'[q] = Answers[q],
         Answers'[r] = [Answers[r] EXCEPT ![i] = code],
         Wants' = Wants, UNCHANGED store
  PROVE  Abstract!Answer(r, i, code)
<1>1. Answers'[r][i] = code
  OBVIOUS
<1>2. /\ Answers = [q \in Requests |-> Answers[q]]
      /\ Answers' = [q \in Requests |-> Answers'[q]]
  BY DEF View
<1>3. Answers' = [Answers EXCEPT ![r][i] = code]
  BY <1>2
<1> QED
  BY <1>1, <1>3 DEF Abstract!Answer

(* The effect of one step of an upload on the bucket, the table and the    *)
(* answers.                                                                *)
Stores(r) ==
    /\ phase[r] = "save" /\ PutObject(File(r), r, at[r])
    /\ UNCHANGED <<auditTable, outcomes>>

Succeeds(r) ==
    /\ phase[r] = "audit" /\ PutItem(UploadRow(r)) /\ UNCHANGED store
    /\ Return(r, StatusCode(error[r], existed[r]), saved[r])

Breaks(r) ==
    /\ phase[r] \in {"checks", "exists", "audit"}
    /\ Return(r, 500, 0) /\ UNCHANGED store
    /\ UNCHANGED auditTable \/ (phase[r] = "audit" /\ PutItem(UploadRow(r)))

LEMMA UploadEffects ==
  ASSUME NEW r \in Uploaders, UploadStep(r)
  PROVE  UNCHANGED <<store, auditTable, outcomes>>
           \/ Stores(r) \/ Succeeds(r) \/ Breaks(r)
<1>1. CASE Accept(r) \/ Refuse(r) \/ PassChecks(r) \/ FailChecks(r) \/ CheckExists(r)
             \/ Crash(r)
  BY <1>1 DEF Accept, Refuse, PassChecks, FailChecks, CheckExists, Crash, storageVars
<1>2. CASE RaiseChecks(r) \/ RaiseExists(r)
  BY <1>2 DEF RaiseChecks, RaiseExists, Raise, Breaks, storageVars
<1>3. CASE Save(r) \/ SaveAgain(r) \/ FailSave(r)
  BY <1>3 DEF Save, SaveAgain, FailSave, Stores, requestVars
<1>4. CASE Audit(r) \/ FailAudit(r)
  BY <1>4 DEF Audit, FailAudit, StatusCode, AfterAuditFailure, Succeeds, Breaks
<1> QED
  BY <1>1, <1>2, <1>3, <1>4 DEF UploadStep

(* The file whose turn it is, as AuditedStore sees it. *)
LEMMA UploadTurn ==
  ASSUME ApiInv, View, NEW r \in Uploaders, phase[r] \notin {"done", "idle"}
  PROVE  /\ r \in Requests /\ at[r] \in DOMAIN Wants[r] /\ at[r] \in DOMAIN Answers[r]
         /\ at[r] \in Positions
         /\ Wants[r][at[r]] = Want("SAVE", ask[r].rid, File(r))
         /\ Abstract!Open(r, at[r])
         /\ Abstract!Own(r, at[r]) = PutBy(r, at[r])
         /\ Abstract!Wanted(r, at[r], "SAVE")
<1>1. UploadTypeOK /\ DeleteTypeOK /\ AnsweredInOrder /\ NoneIsSkipped
  BY DEF ApiInv, HandlersInv, HandlerInv, DeleteInv
<1>2. /\ r \in Requests /\ at[r] \in Positions /\ at[r] \in Nat
      /\ at[r] \in 1..Len(ask[r].files) /\ Len(ask[r].files) \in Positions
      /\ DOMAIN ask[r].files = 1..Len(ask[r].files)
  BY <1>1, AskedFiles, Numbered
<1>3. /\ Wants[r] = [i \in DOMAIN ask[r].files |->
                       Want("SAVE", ask[r].rid, ask[r].files[i])]
      /\ Answers[r] = [i \in DOMAIN ask[r].files |-> outcomes[r][i].code]
  BY DEF View
<1>4. Wants[r][at[r]] = Want("SAVE", ask[r].rid, File(r))
  BY <1>2, <1>3 DEF File
<1>5. outcomes[r][at[r]].code = 0
  BY <1>1, <1>2 DEF AnsweredInOrder
<1>6. \A j \in 1..(at[r] - 1) :
        j \in DOMAIN ask[r].files /\ j \in Positions /\ j < at[r]
  BY <1>2, MaxFilesAssumption DEF Positions
<1>7. Abstract!Open(r, at[r])
  BY <1>1, <1>2, <1>3, <1>5, <1>6 DEF Abstract!Open, NoneIsSkipped
<1> QED
  BY <1>2, <1>3, <1>4, <1>7 DEF Abstract!Own, PutBy, Abstract!Wanted, Want

(* The row of an upload, as AuditedStore sees it. *)
LEMMA UploadRecorded ==
  ASSUME NEW r, Wants[r][at[r]] = Want("SAVE", ask[r].rid, File(r)),
         PutItem(UploadRow(r))
  PROVE  Abstract!Record(r, at[r], AuditOperation(error[r], existed[r]))
BY DEF PutItem, UploadRow, Want, Abstract!Record

(* The answer of an upload, as AuditedStore sees it. *)
LEMMA UploadAnswered ==
  ASSUME ApiInv, ApiInv', View, View', Wants' = Wants, UNCHANGED store,
         NEW r \in Uploaders, phase[r] \notin {"done", "idle"},
         NEW code, NEW vid, Return(r, code, vid),
         UNCHANGED <<deleterVars, readerVars>>
  PROVE  Abstract!Answer(r, at[r], code)
<1>1. /\ outcomes' = [outcomes EXCEPT ![r][at[r]] = [code |-> code, vid |-> vid]]
      /\ ask' = ask
  BY DEF Return
<1>2. /\ r \in Requests /\ at[r] \in DOMAIN Answers[r] /\ at[r] \in Positions
      /\ UploadTypeOK /\ DeleteTypeOK
  BY UploadTurn DEF ApiInv, HandlersInv, HandlerInv, DeleteInv
<1>3. ASSUME NEW q \in Requests \ {r} PROVE Answers'[q] = Answers[q]
  <2>1. CASE q \in Uploaders
    <3>1. outcomes'[q] = outcomes[q]
      BY <1>1, <1>2, <2>1 DEF UploadTypeOK
    <3>2. Answers[q] = [i \in DOMAIN ask[q].files |-> outcomes[q][i].code]
      BY <2>1 DEF View
    <3>3. Answers'[q] = [i \in DOMAIN ask'[q].files |-> outcomes'[q][i].code]
      BY <2>1 DEF View
    <3> QED
      BY <1>1, <3>1, <3>2, <3>3
  <2>2. CASE q \in Deleters
    <3>1. Answers[q] = [i \in DOMAIN delAsk[q].keys |-> delOutcomes[q][i]]
      BY <2>2 DEF View
    <3>2. Answers'[q] = [i \in DOMAIN delAsk'[q].keys |-> delOutcomes'[q][i]]
      BY <2>2 DEF View
    <3> QED
      BY <3>1, <3>2 DEF deleterVars
  <2>3. CASE q \in Readers
    BY <2>3 DEF View, readerVars
  <2>4. CASE q \notin Uploaders \cup Deleters \cup Readers
    BY <2>4 DEF View
  <2> QED
    BY <2>1, <2>2, <2>3, <2>4
<1>4. Answers'[r] = [Answers[r] EXCEPT ![at[r]] = code]
  <2>1. /\ Answers[r] = [i \in DOMAIN ask[r].files |-> outcomes[r][i].code]
        /\ Answers'[r] = [i \in DOMAIN ask[r].files |-> outcomes'[r][i].code]
    BY <1>1 DEF View
  <2>2. /\ outcomes'[r][at[r]].code = code
        /\ \A i \in Positions \ {at[r]} : outcomes'[r][i] = outcomes[r][i]
    BY <1>1, <1>2 DEF UploadTypeOK
  <2>3. DOMAIN ask[r].files \subseteq Positions
    BY <1>2, Numbered, AskedFiles, MaxFilesAssumption DEF Positions
  <2> QED
    BY <1>2, <2>1, <2>2, <2>3
<1> QED
  BY <1>2, <1>3, <1>4, AnswerAt

(* A save that has not been answered yet is there, or somebody may have    *)
(* taken it.                                                               *)
LEMMA SavedIsThere ==
  ASSUME ApiInv, View, NEW r \in Uploaders, SavedAtAudit(r)
  PROVE  Abstract!Own(r, at[r]) # {} \/ Abstract!Contested(r, at[r])
<1>1. /\ at[r] \in DOMAIN Wants[r] /\ r \in Requests
      /\ Wants[r][at[r]] = Want("SAVE", ask[r].rid, File(r))
      /\ Abstract!Own(r, at[r]) = PutBy(r, at[r])
  BY UploadTurn DEF SavedAtAudit
<1>2. CASE PutBy(r, at[r]) # {}
  BY <1>1, <1>2
<1>3. CASE PutBy(r, at[r]) = {}
  <2>0. UploadTypeOK /\ DeleteTypeOK
    BY DEF ApiInv, HandlersInv, HandlerInv, DeleteInv
  <2>1. Taken(r, at[r])
    BY <1>3 DEF ApiInv, Backed
  <2>2. ASSUME NEW q \in Deleters, NEW j \in 1..Len(delAsk[q].keys),
               delAsk[q].keys[j] = File(r)
        PROVE  Abstract!Contested(r, at[r])
    <3>1. /\ Wants[q] = [i \in DOMAIN delAsk[q].keys |->
                         Want("DELETE", delAsk[q].rid, delAsk[q].keys[i])]
          /\ j \in DOMAIN delAsk[q].keys
      BY <2>0, Numbered DEF View
    <3>2. /\ j \in DOMAIN Wants[q] /\ q \in Requests
          /\ Wants[q][j] = Want("DELETE", delAsk[q].rid, File(r))
      BY <2>2, <3>1, DeletersAssumption
    <3> QED
      BY <1>1, <3>2 DEF Abstract!Contested, Want
  <2>3. ASSUME NEW q \in Uploaders, NEW j \in 1..Len(ask[q].files), ~Versioned,
               ask[q].files[j] = File(r), <<q, j>> # <<r, at[r]>>
        PROVE  Abstract!Contested(r, at[r])
    <3>1. /\ Wants[q] = [i \in DOMAIN ask[q].files |->
                         Want("SAVE", ask[q].rid, ask[q].files[i])]
          /\ j \in DOMAIN ask[q].files
      BY <2>0, Numbered DEF View
    <3>2. /\ j \in DOMAIN Wants[q] /\ q \in Requests
          /\ Wants[q][j] = Want("SAVE", ask[q].rid, File(r))
      BY <2>3, <3>1, UploadersAssumption
    <3> QED
      BY <1>1, <2>3, <3>2 DEF Abstract!Contested, Want
  <2> QED
    BY <2>1, <2>2, <2>3 DEF Taken, File
<1> QED
  BY <1>2, <1>3

(* A put is a Put, an answer is Confirm, Reject or Fail; all else is not   *)
(* seen.                                                                   *)
LEMMA UploadImplements ==
  ASSUME ApiInv, ApiInv', View, View', ApiNext, NEW r \in Uploaders, Upload(r)
  PROVE  [Abstract!Next]_Abstract!storeVars
<1> DEFINE i == at[r]
<1>0. /\ UploadStep(r) /\ UNCHANGED <<deleterVars, readerVars>>
      /\ UploadTypeOK /\ DeleteTypeOK /\ StorageTypeOK /\ PutsInOrder
      /\ Wants' = Wants /\ ask' = ask
  BY WantsStay, AsksStay
  DEF Upload, ApiInv, HandlersInv, HandlerInv, DeleteInv, UploadTypeOK
<1>1. CASE UNCHANGED <<store, auditTable, outcomes>>
  <2>1. Answers' = Answers
    BY <1>0, <1>1 DEF Answers, deleterVars, readerVars
  <2> QED
    BY <1>0, <1>1, <2>1 DEF Abstract!storeVars
<1>2. ASSUME phase[r] \notin {"done", "idle"},
             \/ Abstract!Put(r, i) \/ Abstract!Confirm(r, i)
             \/ Abstract!Reject(r, i) \/ Abstract!Fail(r, i)
      PROVE  Abstract!Next
  BY <1>2, UploadTurn DEF Abstract!Next
<1>3. CASE Stores(r)
  <2>1. phase[r] \notin {"done", "idle"}
    BY <1>3 DEF Stores
  <2>2. /\ Abstract!Wanted(r, i, "SAVE")
        /\ Wants[r][i] = Want("SAVE", ask[r].rid, File(r))
    BY <2>1, UploadTurn
  <2>3. /\ NewVersion(r) \in store'
        /\ NewVersion(r).key = File(r) /\ NewVersion(r).by = r /\ NewVersion(r).pos = i
        /\ NewVersion(r).vid = nextVid
        /\ store' = {w \in store : Versioned \/ w.key # NewVersion(r).key}
                      \cup {NewVersion(r)}
    BY <1>3 DEF Stores, PutObject, NewVersion, VersionsOf
  <2>4. \A w \in store : w.vid < NewVersion(r).vid
    BY <1>0, <2>3 DEF StorageTypeOK
  <2>5. Answers' = Answers
    BY <1>0, <1>3 DEF Stores, Answers, deleterVars, readerVars
  <2>6. Abstract!Put(r, i)
    BY <1>0, <1>3, <2>2, <2>3, <2>4, <2>5 DEF Stores, Abstract!Put, Want
  <2> QED
    BY <1>2, <2>1, <2>6
<1>4. CASE Succeeds(r)
  <2>1. phase[r] \notin {"done", "idle"} /\ phase[r] = "audit"
    BY <1>4 DEF Succeeds
  <2>2. /\ Abstract!Wanted(r, i, "SAVE")
        /\ Wants[r][i] = Want("SAVE", ask[r].rid, File(r))
        /\ Abstract!Own(r, i) = PutBy(r, i) /\ i \in Positions
    BY <2>1, UploadTurn
  <2>3. Abstract!Answer(r, i, StatusCode(error[r], existed[r]))
    BY <1>0, <1>4, <2>1, UploadAnswered DEF Succeeds
  <2>4. Abstract!Record(r, i, AuditOperation(error[r], existed[r]))
    BY <1>4, <2>2, UploadRecorded DEF Succeeds
  <2>5. CASE error[r] = 0
    <3>1. Abstract!Own(r, i) # {} \/ Abstract!Contested(r, i)
      BY <2>1, <2>5, SavedIsThere DEF SavedAtAudit
    <3>2. \/ Abstract!Answer(r, i, 201) /\ Abstract!Record(r, i, "CREATE")
          \/ Abstract!Answer(r, i, 200) /\ Abstract!Record(r, i, "UPDATE")
      BY <2>3, <2>4, <2>5 DEF StatusCode, AuditOperation
    <3> QED
      BY <1>2, <2>1, <2>2, <3>1, <3>2 DEF Abstract!Confirm
  <2>6. CASE error[r] \in {400, 409}
    <3>1. PutBy(r, i) = {}
      BY <1>0, <2>1, <2>2, <2>6 DEF PutsInOrder, NotYetPut
    <3>2. /\ Abstract!Answer(r, i, error[r])
          /\ Abstract!Record(r, i, "FAILED")
      BY <2>3, <2>4, <2>6 DEF StatusCode, AuditOperation
    <3> QED
      BY <1>2, <2>1, <2>2, <2>6, <3>1, <3>2 DEF Abstract!Reject
  <2>7. CASE error[r] = 500
    <3>1. /\ Abstract!Answer(r, i, 500)
          /\ Abstract!Record(r, i, "FAILED")
      BY <2>3, <2>4, <2>7 DEF StatusCode, AuditOperation
    <3> QED
      BY <1>2, <2>1, <3>1 DEF Abstract!Fail
  <2> QED
    BY <1>0, <2>5, <2>6, <2>7 DEF UploadTypeOK
<1>5. CASE Breaks(r)
  <2>1. phase[r] \notin {"done", "idle"}
    BY <1>5 DEF Breaks
  <2>2. Wants[r][i] = Want("SAVE", ask[r].rid, File(r))
    BY <2>1, UploadTurn
  <2>3. Abstract!Answer(r, i, 500)
    BY <1>0, <1>5, <2>1, UploadAnswered DEF Breaks
  <2>4. CASE UNCHANGED auditTable
    BY <1>2, <2>1, <2>3, <2>4 DEF Abstract!Fail
  <2>5. CASE phase[r] = "audit" /\ PutItem(UploadRow(r))
    <3>1. Abstract!Record(r, i, AuditOperation(error[r], existed[r]))
      BY <2>2, <2>5, UploadRecorded
    <3>2. CASE error[r] = 0
      <4>1. Abstract!Own(r, i) # {} \/ Abstract!Contested(r, i)
        BY <2>5, <3>2, SavedIsThere DEF SavedAtAudit
      <4>2. Abstract!Record(r, i, "CREATE") \/ Abstract!Record(r, i, "UPDATE")
        BY <3>1, <3>2 DEF AuditOperation
      <4>3. Wants[r][i].op = "SAVE"
        BY <2>2 DEF Want
      <4> QED
        BY <1>2, <2>1, <2>3, <4>1, <4>2, <4>3 DEF Abstract!Fail
    <3>3. CASE error[r] # 0
      <4>1. Abstract!Record(r, i, "FAILED")
        BY <3>1, <3>3 DEF AuditOperation
      <4> QED
        BY <1>2, <2>1, <2>3, <4>1 DEF Abstract!Fail
    <3> QED
      BY <3>2, <3>3
  <2> QED
    BY <1>5, <2>4, <2>5 DEF Breaks
<1> QED
  BY <1>0, <1>1, <1>3, <1>4, <1>5, UploadEffects

(* The key whose turn it is, as AuditedStore sees it. *)
LEMMA DeleteTurn ==
  ASSUME ApiInv, View, NEW r \in Deleters, delPhase[r] \in {"delete", "audit"}
  PROVE  /\ r \in Requests /\ delAt[r] \in DOMAIN Wants[r]
         /\ delAt[r] \in DOMAIN Answers[r] /\ delAt[r] \in Positions
         /\ Wants[r][delAt[r]] = Want("DELETE", delAsk[r].rid, Key(r))
         /\ Abstract!Open(r, delAt[r])
<1>1. UploadTypeOK /\ DeleteTypeOK /\ OutcomesInv
  BY DEF ApiInv, HandlersInv, HandlerInv, DeleteInv
<1>2. /\ r \in Requests /\ delAt[r] \in Positions /\ delAt[r] \in Nat
      /\ delAt[r] \in 1..Len(delAsk[r].keys) /\ Len(delAsk[r].keys) \in Positions
      /\ DOMAIN delAsk[r].keys = 1..Len(delAsk[r].keys)
  BY <1>1, Positioned, Numbered
<1>3. /\ Wants[r] = [i \in DOMAIN delAsk[r].keys |->
                       Want("DELETE", delAsk[r].rid, delAsk[r].keys[i])]
      /\ Answers[r] = [i \in DOMAIN delAsk[r].keys |-> delOutcomes[r][i]]
  BY DEF View
<1>4. Wants[r][delAt[r]] = Want("DELETE", delAsk[r].rid, Key(r))
  BY <1>2, <1>3 DEF Key
<1>5. delOutcomes[r][delAt[r]] = 0
  BY <1>1, <1>2 DEF OutcomesInv, Working
<1>6. \A j \in 1..(delAt[r] - 1) :
        j \in DOMAIN delAsk[r].keys /\ j \in Positions /\ j < delAt[r]
  BY <1>2, MaxFilesAssumption DEF Positions
<1>7. Abstract!Open(r, delAt[r])
  BY <1>1, <1>2, <1>3, <1>5, <1>6 DEF Abstract!Open, OutcomesInv
<1> QED
  BY <1>2, <1>3, <1>4, <1>7

LEMMA DeleteAnswered ==
  ASSUME ApiInv, View, View', Wants' = Wants, UNCHANGED store,
         NEW r \in Deleters, AuditDelete(r), UNCHANGED <<uploaderVars, readerVars>>
  PROVE  Abstract!Answer(r, delAt[r], DeleteCode(delError[r]))
<1> DEFINE code == DeleteCode(delError[r])
<1>1. /\ delOutcomes' = [delOutcomes EXCEPT ![r][delAt[r]] = code]
      /\ delAsk' = delAsk /\ delPhase[r] = "audit"
  BY DEF AuditDelete
<1>2. /\ r \in Requests /\ delAt[r] \in DOMAIN Answers[r] /\ delAt[r] \in Positions
      /\ UploadTypeOK /\ DeleteTypeOK
  BY <1>1, DeleteTurn DEF ApiInv, HandlersInv, HandlerInv, DeleteInv
<1>3. ASSUME NEW q \in Requests \ {r} PROVE Answers'[q] = Answers[q]
  <2>1. CASE q \in Deleters
    <3>1. delOutcomes'[q] = delOutcomes[q]
      BY <1>1, <1>2, <2>1 DEF DeleteTypeOK
    <3>2. Answers[q] = [i \in DOMAIN delAsk[q].keys |-> delOutcomes[q][i]]
      BY <2>1 DEF View
    <3>3. Answers'[q] = [i \in DOMAIN delAsk'[q].keys |-> delOutcomes'[q][i]]
      BY <2>1 DEF View
    <3> QED
      BY <1>1, <3>1, <3>2, <3>3
  <2>2. CASE q \in Uploaders
    <3>1. Answers[q] = [i \in DOMAIN ask[q].files |-> outcomes[q][i].code]
      BY <2>2 DEF View
    <3>2. Answers'[q] = [i \in DOMAIN ask'[q].files |-> outcomes'[q][i].code]
      BY <2>2 DEF View
    <3> QED
      BY <3>1, <3>2 DEF uploaderVars, requestVars
  <2>3. CASE q \in Readers
    BY <2>3 DEF View, readerVars
  <2>4. CASE q \notin Uploaders \cup Deleters \cup Readers
    BY <2>4 DEF View
  <2> QED
    BY <2>1, <2>2, <2>3, <2>4
<1>4. Answers'[r] = [Answers[r] EXCEPT ![delAt[r]] = code]
  <2>1. /\ Answers[r] = [i \in DOMAIN delAsk[r].keys |-> delOutcomes[r][i]]
        /\ Answers'[r] = [i \in DOMAIN delAsk[r].keys |-> delOutcomes'[r][i]]
    BY <1>1 DEF View
  <2>2. /\ delOutcomes'[r][delAt[r]] = code
        /\ \A i \in Positions \ {delAt[r]} : delOutcomes'[r][i] = delOutcomes[r][i]
    BY <1>1, <1>2 DEF DeleteTypeOK
  <2>3. DOMAIN delAsk[r].keys \subseteq Positions
    BY <1>2, Numbered, Positioned, MaxFilesAssumption DEF Positions
  <2> QED
    BY <1>2, <2>1, <2>2, <2>3
<1> QED
  BY <1>2, <1>3, <1>4, AnswerAt

(* One deletion takes at most one version away. *)
LEMMA OneIsErased ==
  ASSUME VersionsAreUnique, NEW k, NEW x, DeleteVersion(k, x)
  PROVE  \/ UNCHANGED store
         \/ \E v \in store : v.key = k /\ store' = store \ {v}
<1> DEFINE gone == {w \in VersionsOf(k) : Versioned => w.vid = x.vid}
<1>1. store' = store \ gone
  BY DEF DeleteVersion
<1>2. CASE gone = {}
  BY <1>1, <1>2
<1>3. CASE gone # {}
  <2>1. PICK v \in gone : TRUE
    BY <1>3
  <2>2. v \in store /\ v.key = k
    BY DEF VersionsOf
  <2>3. \A w \in gone : w = v
    BY VersionedAssumption DEF VersionsAreUnique, VersionsOf
  <2> QED
    BY <1>1, <2>2, <2>3
<1> QED
  BY <1>2, <1>3

(* A deletion erases one version or none, an audit write is the answer.    *)
LEMMA DeleteImplements ==
  ASSUME ApiInv, View, View', ApiNext, NEW r \in Deleters, Delete(r)
  PROVE  [Abstract!Next]_Abstract!storeVars
<1> DEFINE i == delAt[r]
<1>0. /\ DeleteStep(r) /\ UNCHANGED <<uploaderVars, readerVars>>
      /\ DeleteTypeOK /\ VersionsAreUnique /\ Wants' = Wants /\ delAsk' = delAsk
  BY WantsStay, AsksStay
  DEF Delete, ApiInv, HandlersInv, HandlerInv, DeleteInv, BucketInv
<1>1. CASE UNCHANGED <<store, auditTable, delOutcomes>>
  <2>1. Answers' = Answers
    BY <1>0, <1>1 DEF Answers, uploaderVars, requestVars, readerVars
  <2> QED
    BY <1>0, <1>1, <2>1 DEF Abstract!storeVars
<1>2. CASE AcceptDelete(r) \/ RefuseDelete(r) \/ ListVersions(r) \/ FailList(r)
             \/ CrashDelete(r)
  BY <1>1, <1>2
  DEF AcceptDelete, RefuseDelete, ListVersions, FailList, CrashDelete, storageVars
<1>3. CASE DeleteOne(r) \/ FailDeleteOne(r)
  <2>1. /\ UNCHANGED <<auditTable, delOutcomes>> /\ delPhase[r] = "delete"
        /\ UNCHANGED store \/ \E x : DeleteVersion(Key(r), x)
    BY <1>3 DEF DeleteOne, FailDeleteOne, Deleted
  <2>2. CASE UNCHANGED store
    BY <1>1, <2>1, <2>2
  <2>3. CASE store' # store
    <3>1. PICK v \in store : v.key = Key(r) /\ store' = store \ {v}
      BY <1>0, <2>1, <2>3, OneIsErased
    <3>2. Answers' = Answers
      BY <1>0, <2>1 DEF Answers, uploaderVars, requestVars, readerVars
    <3>3. Abstract!Erase(r, i)
      <4>1. Wants[r][i] = Want("DELETE", delAsk[r].rid, Key(r))
        BY <2>1, DeleteTurn
      <4>2. Wants[r][i].op = "DELETE" /\ Wants[r][i].file = Key(r)
        BY <4>1 DEF Want
      <4> QED
        BY <1>0, <2>1, <3>1, <3>2, <4>2 DEF Abstract!Erase, Abstract!Wanted
    <3> QED
      BY <2>1, <3>3, DeleteTurn DEF Abstract!Next
  <2> QED
    BY <2>2, <2>3
<1>4. CASE AuditDelete(r)
  <2>1. /\ delPhase[r] = "audit" /\ UNCHANGED store
        /\ UNCHANGED auditTable \/ PutItem(DeleteRow(r))
    BY <1>4 DEF AuditDelete
  <2>2. Wants[r][i] = Want("DELETE", delAsk[r].rid, Key(r))
    BY <2>1, DeleteTurn
  <2>3. Abstract!Answer(r, i, DeleteCode(delError[r]))
    BY <1>0, <1>4, <2>1, DeleteAnswered
  <2>4. \/ UNCHANGED auditTable
        \/ Abstract!Record(r, i, DeleteOperation(delError[r]))
    BY <2>1, <2>2 DEF PutItem, DeleteRow, Want, Abstract!Record
  <2>5. CASE delError[r] \in {0, 404}
    <3>1. Abstract!AnswerDelete(r, i)
      BY <2>2, <2>3, <2>4, <2>5
      DEF Abstract!AnswerDelete, Abstract!Wanted, Want, DeleteCode, DeleteOperation
    <3> QED
      BY <2>1, <3>1, DeleteTurn DEF Abstract!Next
  <2>6. CASE delError[r] = 500
    <3>1. Abstract!Fail(r, i)
      BY <2>3, <2>4, <2>6 DEF Abstract!Fail, DeleteCode, DeleteOperation
    <3> QED
      BY <2>1, <3>1, DeleteTurn DEF Abstract!Next
  <2> QED
    BY <1>0, <2>5, <2>6 DEF DeleteTypeOK
<1> QED
  BY <1>0, <1>2, <1>3, <1>4 DEF DeleteStep

(* The answer to a read, as AuditedStore sees it. *)
LEMMA ReadAnswered ==
  ASSUME ApiInv, View, View', Wants' = Wants, UNCHANGED store,
         NEW r \in Readers, NEW code, ReadAnswer(r, code),
         UNCHANGED <<uploaderVars, deleterVars>>
  PROVE  Abstract!Answer(r, 1, code)
<1>1. readCode' = [readCode EXCEPT ![r] = code]
  BY DEF ReadAnswer
<1>2. r \in Requests /\ ReadTypeOK
  BY ReadersAssumption DEF ApiInv, HandlersInv, ReadsInv
<1>3. ASSUME NEW q \in Requests \ {r} PROVE Answers'[q] = Answers[q]
  <2>1. CASE q \in Readers
    <3>1. readCode'[q] = readCode[q]
      BY <1>1, <1>2, <2>1 DEF ReadTypeOK
    <3>2. Answers[q] = <<readCode[q]>> /\ Answers'[q] = <<readCode'[q]>>
      BY <2>1 DEF View
    <3> QED
      BY <3>1, <3>2
  <2>2. CASE q \in Uploaders
    <3>1. Answers[q] = [i \in DOMAIN ask[q].files |-> outcomes[q][i].code]
      BY <2>2 DEF View
    <3>2. Answers'[q] = [i \in DOMAIN ask'[q].files |-> outcomes'[q][i].code]
      BY <2>2 DEF View
    <3> QED
      BY <3>1, <3>2 DEF uploaderVars, requestVars
  <2>3. CASE q \in Deleters
    <3>1. Answers[q] = [i \in DOMAIN delAsk[q].keys |-> delOutcomes[q][i]]
      BY <2>3 DEF View
    <3>2. Answers'[q] = [i \in DOMAIN delAsk'[q].keys |-> delOutcomes'[q][i]]
      BY <2>3 DEF View
    <3> QED
      BY <3>1, <3>2 DEF deleterVars
  <2>4. CASE q \notin Uploaders \cup Deleters \cup Readers
    BY <2>4 DEF View
  <2> QED
    BY <2>1, <2>2, <2>3, <2>4
<1>4. Answers[r] = <<readCode[r]>> /\ Answers'[r] = <<code>>
  BY <1>1, <1>2 DEF View, ReadTypeOK
<1>5. 1 \in DOMAIN Answers[r] /\ Answers'[r] = [Answers[r] EXCEPT ![1] = code]
  BY <1>4
<1> QED
  BY <1>2, <1>3, <1>5, AnswerAt

(* A read is seen by its answer alone. *)
LEMMA ReadImplements ==
  ASSUME ApiInv, View, View', ApiNext, NEW r \in Readers, Read(r)
  PROVE  [Abstract!Next]_Abstract!storeVars
<1>0. /\ ReadStep(r) /\ UNCHANGED <<uploaderVars, deleterVars>>
      /\ UploadTypeOK /\ DeleteTypeOK /\ ReadsInv /\ ReadTypeOK
      /\ r \in Requests /\ readAsk[r].op \in {"READ", "INFO"}
      /\ Wants' = Wants /\ readAsk' = readAsk /\ UNCHANGED store
  BY WantsStay, AsksStay, ReadOnStorage, ReadersAssumption
  DEF Read, ApiInv, HandlersInv, HandlerInv, DeleteInv, ReadsInv, ReadTypeOK, ReadAsk
<1>1. /\ Wants[r] = <<Want(readAsk[r].op, readAsk[r].rid, Sought(r))>>
      /\ Answers[r] = <<readCode[r]>>
  BY DEF View
<1>2. /\ 1 \in DOMAIN Wants[r] /\ Wants[r][1].op = readAsk[r].op
      /\ Wants[r][1].rid = readAsk[r].rid /\ Wants[r][1].file = Sought(r)
  BY <1>1 DEF Want
<1>3. ASSUME readPhase[r] \in {"look", "audit"},
             Abstract!AnswerRead(r, 1) \/ Abstract!Fail(r, 1)
      PROVE  Abstract!Next
  <2>1. Answers[r][1] = 0
    BY <1>0, <1>1, <1>3 DEF ReadsInv
  <2>2. Abstract!Open(r, 1)
    BY <2>1 DEF Abstract!Open
  <2> QED
    BY <1>0, <1>2, <1>3, <2>2 DEF Abstract!Next
<1>4. CASE AcceptRead(r) \/ RefuseRead(r) \/ GetUrl(r) \/ FailGetUrl(r) \/ GetVersions(r)
             \/ CrashRead(r)
  <2>1. UNCHANGED <<auditTable, readCode>>
    BY <1>4
    DEF AcceptRead, RefuseRead, GetUrl, FailGetUrl, GetVersions, Looked, CrashRead,
        storageVars
  <2>2. Answers' = Answers
    BY <1>0, <2>1 DEF Answers, uploaderVars, requestVars, deleterVars
  <2> QED
    BY <1>0, <2>1, <2>2 DEF Abstract!storeVars
<1>5. CASE RaiseVersions(r)
  <2>1. readPhase[r] = "look" /\ ReadAnswer(r, 500) /\ UNCHANGED auditTable
    BY <1>5 DEF RaiseVersions
  <2>2. Abstract!Answer(r, 1, 500)
    BY <1>0, <2>1, ReadAnswered
  <2> QED
    BY <1>3, <2>1, <2>2 DEF Abstract!Fail
<1>6. ASSUME PutItem(ReadRow(r))
      PROVE  Abstract!Record(r, 1, IF readError[r] # 0 THEN "FAILED" ELSE Wants[r][1].op)
  BY <1>2, <1>6 DEF PutItem, ReadRow, Abstract!Record
<1>7. CASE AuditRead(r)
  <2>1. /\ readPhase[r] = "audit" /\ PutItem(ReadRow(r))
        /\ ReadAnswer(r, ReadStatus(readError[r]))
    BY <1>7 DEF AuditRead
  <2>2. Abstract!Answer(r, 1, ReadStatus(readError[r]))
    BY <1>0, <2>1, ReadAnswered
  <2>3. CASE readError[r] = 0
    <3>1. Abstract!AnswerRead(r, 1)
      BY <1>0, <1>2, <1>6, <2>1, <2>2, <2>3 DEF Abstract!AnswerRead, ReadStatus
    <3> QED
      BY <1>3, <2>1, <3>1
  <2>4. CASE readError[r] \in {400, 404}
    <3>1. Abstract!AnswerRead(r, 1)
      BY <1>0, <1>2, <1>6, <2>1, <2>2, <2>4 DEF Abstract!AnswerRead, ReadStatus
    <3> QED
      BY <1>3, <2>1, <3>1
  <2>5. CASE readError[r] = 500
    <3>1. Abstract!Fail(r, 1)
      BY <1>6, <2>1, <2>2, <2>5 DEF Abstract!Fail, ReadStatus
    <3> QED
      BY <1>3, <2>1, <3>1
  <2> QED
    BY <1>0, <2>3, <2>4, <2>5 DEF ReadTypeOK
<1>8. CASE FailAuditRead(r)
  <2>1. /\ readPhase[r] = "audit" /\ ReadAnswer(r, 500)
        /\ PutItem(ReadRow(r)) \/ UNCHANGED auditTable
    BY <1>8 DEF FailAuditRead
  <2>2. Abstract!Answer(r, 1, 500)
    BY <1>0, <2>1, ReadAnswered
  <2>3. Abstract!Fail(r, 1)
    BY <1>0, <1>2, <1>6, <2>1, <2>2 DEF Abstract!Fail
  <2> QED
    BY <1>3, <2>1, <2>3
<1> QED
  BY <1>0, <1>4, <1>5, <1>7, <1>8 DEF ReadStep

LEMMA InitImplements ==
  ASSUME ApiInit, View
  PROVE  Abstract!Init
<1>1. HandlersInv /\ store = StoredBefore /\ auditTable = {}
  BY HandlersInitInv DEF ApiInit, UploadInit, StorageInit
<1>2. UploadTypeOK /\ DeleteTypeOK
  BY <1>1 DEF HandlersInv, HandlerInv, DeleteInv
<1>3. ASSUME NEW r \in Requests, NEW i \in DOMAIN Answers[r] PROVE Answers[r][i] = 0
  <2>1. CASE r \in Uploaders
    <3>1. Answers[r] = [j \in DOMAIN ask[r].files |-> outcomes[r][j].code]
      BY <2>1 DEF View
    <3>2. DOMAIN ask[r].files \subseteq Positions
      <4>1. /\ DOMAIN ask[r].files = 1..Len(ask[r].files)
            /\ Len(ask[r].files) \in Positions
        BY <1>2, <2>1, Numbered, AskedFiles
      <4> QED
        BY <4>1, MaxFilesAssumption DEF Positions
    <3> QED
      BY <2>1, <3>1, <3>2 DEF ApiInit, UploadInit, Unanswered
  <2>2. CASE r \in Deleters
    <3>1. Answers[r] = [j \in DOMAIN delAsk[r].keys |-> delOutcomes[r][j]]
      BY <2>2 DEF View
    <3>2. DOMAIN delAsk[r].keys \subseteq Positions
      <4>1. /\ DOMAIN delAsk[r].keys = 1..Len(delAsk[r].keys)
            /\ Len(delAsk[r].keys) \in Positions
        BY <1>2, <2>2, Numbered, Positioned
      <4> QED
        BY <4>1, MaxFilesAssumption DEF Positions
    <3> QED
      BY <2>2, <3>1, <3>2 DEF ApiInit, DeleteInit
  <2>3. CASE r \in Readers
    <3>1. Answers[r] = <<readCode[r]>> /\ readCode[r] = 0
      BY <2>3 DEF View, ApiInit, ReaderInit
    <3> QED
      BY <3>1
  <2>4. CASE r \notin Uploaders \cup Deleters \cup Readers
    BY <2>4 DEF View
  <2> QED
    BY <2>1, <2>2, <2>3, <2>4
<1>4. ASSUME NEW v \in store, NEW r \in Requests, Wants[r] # <<>> PROVE v.by # r
  <2>1. r \in Uploaders \cup Deleters \cup Readers
    BY <1>4 DEF View
  <2> QED
    BY <1>1, <2>1, RequestsAssumption, UploadersAssumption
<1> QED
  BY <1>1, <1>3, <1>4 DEF Abstract!Init

-----------------------------------------------------------------------------
(* The refinement: what clients and auditors see of uploads, deletes and   *)
(* reads at once, with exceptions, lost replies and crashes, is a          *)
(* behaviour of AuditedStore, for any number of requests and files.        *)
THEOREM ApiImplementsAuditedStore == ApiSpec => ImplementsAuditedStore
<1>1. View /\ View'
  BY ViewOK, PTL
<1>2. ApiInit => Abstract!Init
  BY <1>1, InitImplements
<1>3. ASSUME ApiInv, ApiInv', [ApiNext]_apiVars
      PROVE  [Abstract!Next]_Abstract!storeVars
  <2>1. CASE UNCHANGED apiVars
    <3>1. Wants' = Wants /\ Answers' = Answers
      BY <2>1
      DEF apiVars, uploaderVars, requestVars, deleterVars, readerVars, Wants, Answers,
          Sought
    <3> QED
      BY <2>1, <3>1 DEF apiVars, storageVars, Abstract!storeVars
  <2>2. CASE ApiNext
    BY <1>1, <1>3, <2>2, UploadImplements, DeleteImplements, ReadImplements DEF ApiNext
  <2> QED
    BY <1>3, <2>1, <2>2
<1> QED
  BY <1>2, <1>3, ApiInvariant, PTL DEF ApiSpec, ImplementsAuditedStore, Abstract!Spec
=============================================================================
