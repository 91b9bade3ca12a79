---------------------------- MODULE DeleteProofs ----------------------------
(***************************************************************************)
(* Theorems about Deletes, for any delete requests, keys, versions and     *)
(* page size, with and without versioning.                                 *)
(***************************************************************************)
EXTENDS Deletes, SequenceTheorems, TLAPS

Working == {"idle", "list", "delete", "audit"}

(* A VersionId names one version for ever, and without versioning a key    *)
(* has one version.                                                        *)
VersionsAreUnique ==
    \A v, w \in store : (v.vid = w.vid \/ (~Versioned /\ v.key = w.key)) => v = w

BucketInv ==
    /\ VersionsAreUnique
    /\ \A r \in Deleters : \A i \in Positions : \A w \in listed[r][i] :
         w.vid < nextVid /\ \A v \in store : v.vid = w.vid => v = w

(* What a request has deleted of the list it works on. *)
LoopInv ==
    \A r \in Deleters :
      /\ delPhase[r] = "delete" =>
           /\ todo[r] \subseteq listed[r][delAt[r]]
           /\ delError[r] = 0 =>
                OwnListed(r, delAt[r]) \cap store \subseteq todo[r]
      /\ delPhase[r] = "audit" /\ delError[r] = 0 =>
           OwnListed(r, delAt[r]) \cap store = {}

(* Outcomes are noted once, in the order of the keys, and what is listed   *)
(* for a key is listed once.                                               *)
OutcomesInv ==
    \A r \in Deleters : \A j \in Positions :
      /\ delPhase[r] \in Working /\ delAt[r] <= j => delOutcomes[r][j] = 0
      /\ j < delAt[r] => delOutcomes[r][j] # 0
      /\ delAt[r] < j \/ (delAt[r] = j /\ delPhase[r] \in {"idle", "list"})
           => listed[r][j] = {}

RowsInv ==
    \A row \in auditTable :
      row.op = "DELETE" =>
        /\ row.by \in Deleters /\ row.pos \in Positions
        /\ delOutcomes[row.by][row.pos] = 204

DeleteInv ==
    /\ DeleteTypeOK
    /\ BucketInv /\ LoopInv /\ OutcomesInv /\ RowsInv
    /\ DeletedIsGone

-----------------------------------------------------------------------------
(* The keys of a request and the position in them (the loop of             *)
(* delete_files).                                                          *)
LEMMA AskOfKeys ==
  ASSUME NEW a \in DeleteAsk
  PROVE  /\ a.rid \in RequestIds
         /\ Len(a.keys) \in Positions
         /\ \A i \in 1..Len(a.keys) : a.keys[i] \in Keys
<1>1. PICK n \in Positions : a.keys \in [1..n -> Keys]
  BY DEF DeleteAsk, FileLists
<1>2. n \in Nat /\ a.keys \in Seq(Keys)
  BY <1>1, MaxFilesAssumption, SeqDef DEF Positions
<1>3. /\ Len(a.keys) \in Nat
      /\ DOMAIN a.keys = 1..n /\ DOMAIN a.keys = 1..Len(a.keys)
  BY <1>1, <1>2, LenProperties
<1>4. Len(a.keys) = n
  BY <1>2, <1>3
<1> QED
  BY <1>1, <1>4 DEF DeleteAsk

LEMMA Positioned ==
  ASSUME DeleteTypeOK, NEW r \in Deleters
  PROVE  /\ r \in Requests
         /\ delAt[r] \in Positions /\ delAt[r] \in Nat /\ delAt[r] \in 1..Len(delAsk[r].keys)
         /\ Len(delAsk[r].keys) \in Positions
         /\ delAsk[r].rid \in RequestIds /\ Key(r) \in Keys
         /\ NextPosition(delAt[r], Len(delAsk[r].keys)) \in Positions
         /\ NextPosition(delAt[r], Len(delAsk[r].keys)) <= Len(delAsk[r].keys)
         /\ delAt[r] # Len(delAsk[r].keys) =>
              NextPosition(delAt[r], Len(delAsk[r].keys)) = delAt[r] + 1
<1>1. delAsk[r] \in DeleteAsk
  BY DeletersAssumption DEF DeleteTypeOK
<1>2. /\ delAsk[r].rid \in RequestIds
      /\ Len(delAsk[r].keys) \in Positions
      /\ \A i \in 1..Len(delAsk[r].keys) : delAsk[r].keys[i] \in Keys
  BY <1>1, AskOfKeys
<1>3. delAt[r] \in Positions /\ delAt[r] <= Len(delAsk[r].keys)
  BY DEF DeleteTypeOK
<1> QED
  BY <1>2, <1>3, MaxFilesAssumption, DeletersAssumption
  DEF Positions, Key, NextPosition

LEMMA PageListed ==
  ASSUME DeleteTypeOK, NEW k, NEW page \in ListPages(k)
  PROVE  page \subseteq store /\ page \subseteq Version
BY DEF ListPages, Listable, DeleteTypeOK, StorageTypeOK

LEMMA DeleteInitInv == DeleteInit => DeleteInv
<1> SUFFICES ASSUME DeleteInit PROVE DeleteInv
  OBVIOUS
<1>1. StorageTypeOK
  BY StoredBeforeAssumption DEF DeleteInit, StorageInit, StorageTypeOK
<1>2. ASSUME NEW r \in Deleters
      PROVE  delAt[r] \in Positions /\ delAt[r] <= Len(delAsk[r].keys)
  <2>1. delAsk[r] \in DeleteAsk /\ delAt[r] = 1
    BY DeletersAssumption DEF DeleteInit
  <2>2. Len(delAsk[r].keys) \in Positions
    BY <2>1, AskOfKeys
  <2> QED
    BY <2>1, <2>2, MaxFilesAssumption DEF Positions
<1>3. DeleteTypeOK
  BY <1>1, <1>2 DEF DeleteInit, DeleteTypeOK, DeletePhase
<1>4. BucketInv /\ LoopInv /\ RowsInv /\ DeletedIsGone
  BY StoredBeforeAssumption
  DEF DeleteInit, StorageInit, BucketInv, VersionsAreUnique, LoopInv, RowsInv,
      DeletedIsGone
<1>5. OutcomesInv
  BY MaxFilesAssumption DEF DeleteInit, OutcomesInv, Positions
<1> QED
  BY <1>3, <1>4, <1>5 DEF DeleteInv

-----------------------------------------------------------------------------
(* The parts of the invariant that speak of the other requests stay true:  *)
(* nothing of theirs changes, and the bucket only shrinks.                 *)
LEMMA OthersLoop ==
  ASSUME DeleteInv, NEW r \in Deleters, store' \subseteq store,
         NEW q \in Deleters, q # r,
         delAsk' = delAsk,
         delPhase'[q] = delPhase[q], delAt'[q] = delAt[q], todo'[q] = todo[q],
         delError'[q] = delError[q], delOutcomes'[q] = delOutcomes[q],
         listed'[q] = listed[q]
  PROVE  /\ delPhase'[q] = "delete" =>
              /\ todo'[q] \subseteq listed'[q][delAt'[q]]
              /\ delError'[q] = 0 =>
                   OwnListed(q, delAt[q])' \cap store' \subseteq todo'[q]
         /\ delPhase'[q] = "audit" /\ delError'[q] = 0 =>
              OwnListed(q, delAt[q])' \cap store' = {}
         /\ \A j \in Positions :
              /\ delPhase'[q] \in Working /\ delAt'[q] <= j => delOutcomes'[q][j] = 0
              /\ j < delAt'[q] => delOutcomes'[q][j] # 0
              /\ delAt'[q] < j \/ (delAt'[q] = j /\ delPhase'[q] \in {"idle", "list"})
                   => listed'[q][j] = {}
         /\ \A i \in Positions :
              delOutcomes'[q][i] = 204 => OwnListed(q, i)' \cap store' = {}
BY DEF DeleteInv, LoopInv, OutcomesInv, DeletedIsGone, OwnListed

(* A request is accepted, refused or lost with its replica. *)
LEMMA MoveInv ==
  ASSUME DeleteInv, NEW r \in Deleters, NEW p \in {"list", "refused", "crashed"},
         delPhase[r] \in Working, p = "list" => delPhase[r] = "idle", Goto(r, p),
         UNCHANGED <<storageVars, delAsk, delAt, todo, delError, delOutcomes, listed>>
  PROVE  DeleteInv'
<1> USE DEF Goto, storageVars
<1>1. DeleteTypeOK'
  BY DEF DeleteInv, DeleteTypeOK, DeletePhase, StorageTypeOK
<1>2. BucketInv' /\ RowsInv' /\ DeletedIsGone'
  BY DEF DeleteInv, BucketInv, VersionsAreUnique, RowsInv, DeletedIsGone, OwnListed
<1>3. LoopInv' /\ OutcomesInv'
  BY DEF DeleteInv, DeleteTypeOK, LoopInv, OutcomesInv, OwnListed, Working
<1> QED
  BY <1>1, <1>2, <1>3 DEF DeleteInv

LEMMA ListVersionsInv ==
  ASSUME DeleteInv, NEW r \in Deleters, ListVersions(r)
  PROVE  DeleteInv'
<1>1. PICK page \in ListPages(Key(r)) :
        /\ todo' = [todo EXCEPT ![r] = page]
        /\ listed' = [listed EXCEPT ![r][delAt[r]] = page]
        /\ delError' = [delError EXCEPT ![r] = IF page = {} THEN 404 ELSE 0]
        /\ delPhase' = [delPhase EXCEPT ![r] =
                          IF page = {} THEN "audit" ELSE "delete"]
  BY DEF ListVersions, Goto
<1>2. /\ UNCHANGED <<store, nextVid, auditTable, delAsk, delAt, delOutcomes>>
      /\ delPhase[r] = "list"
  BY DEF ListVersions, storageVars
<1>3. page \subseteq store /\ page \subseteq Version
  BY PageListed DEF DeleteInv
<1>4. delAt[r] \in Positions /\ delAt[r] \in Nat
  BY Positioned DEF DeleteInv
<1>5. DeleteTypeOK'
  BY <1>1, <1>2, <1>3, <1>4
  DEF DeleteInv, DeleteTypeOK, DeletePhase, StorageTypeOK
<1>6. RowsInv'
  BY <1>2 DEF DeleteInv, RowsInv
<1>7. /\ todo'[r] = page /\ listed'[r][delAt[r]] = page
      /\ delError'[r] = (IF page = {} THEN 404 ELSE 0)
      /\ delPhase'[r] = (IF page = {} THEN "audit" ELSE "delete")
      /\ \A i \in Positions : i # delAt[r] => listed'[r][i] = listed[r][i]
  BY <1>1, <1>4 DEF DeleteInv, DeleteTypeOK
<1>8. ASSUME NEW q \in Deleters, q # r
      PROVE  /\ delPhase'[q] = delPhase[q] /\ todo'[q] = todo[q]
             /\ delError'[q] = delError[q] /\ listed'[q] = listed[q]
  BY <1>1, <1>8 DEF DeleteInv, DeleteTypeOK
<1>9. \A j \in Positions : delAt[r] <= j => delOutcomes[r][j] = 0
  BY <1>2 DEF DeleteInv, OutcomesInv, Working
<1>10. BucketInv'
  <2>1. \A w \in page : w.vid < nextVid /\ \A v \in store : v.vid = w.vid => v = w
    BY <1>3 DEF DeleteInv, DeleteTypeOK, StorageTypeOK, BucketInv, VersionsAreUnique
  <2> QED
    BY <1>2, <1>7, <1>8, <2>1 DEF DeleteInv, BucketInv, VersionsAreUnique
<1>11. LoopInv'
  <2>1. OwnListed(r, delAt[r])' \subseteq page
    BY <1>2, <1>7 DEF OwnListed
  <2> QED
    BY <1>2, <1>7, <1>8, <2>1, OthersLoop DEF LoopInv
<1>12. OutcomesInv'
  BY <1>2, <1>4, <1>7, <1>8, <1>9 DEF DeleteInv, OutcomesInv
<1>13. DeletedIsGone'
  <2>1. ASSUME NEW i \in Positions, delOutcomes[r][i] = 204
        PROVE  OwnListed(r, i)' \cap store' = {}
    <3>1. i # delAt[r]
      BY <1>4, <1>9, <2>1
    <3> QED
      BY <1>2, <1>7, <2>1, <3>1 DEF DeleteInv, DeletedIsGone, OwnListed
  <2> QED
    BY <1>2, <1>8, <2>1, OthersLoop DEF DeletedIsGone
<1> QED
  BY <1>5, <1>6, <1>10, <1>11, <1>12, <1>13 DEF DeleteInv

LEMMA FailListInv ==
  ASSUME DeleteInv, NEW r \in Deleters, FailList(r)
  PROVE  DeleteInv'
<1> USE DEF FailList, Goto, storageVars
<1>1. DeleteTypeOK'
  BY DEF DeleteInv, DeleteTypeOK, DeletePhase, StorageTypeOK
<1>2. BucketInv' /\ RowsInv' /\ DeletedIsGone'
  BY DEF DeleteInv, BucketInv, VersionsAreUnique, RowsInv, DeletedIsGone, OwnListed
<1>3. delError'[r] = 500 /\ delPhase'[r] = "audit"
  BY DEF DeleteInv, DeleteTypeOK
<1>4. LoopInv' /\ OutcomesInv'
  BY <1>3 DEF DeleteInv, DeleteTypeOK, LoopInv, OutcomesInv, OwnListed, Working
<1> QED
  BY <1>1, <1>2, <1>4 DEF DeleteInv

(* One turn of the loop over the versions, whether S3 applied the deletion *)
(* or an exception hides that it did or did not.                           *)
LEMMA TurnInv ==
  ASSUME DeleteInv, NEW r \in Deleters, delPhase[r] = "delete",
         NEW v \in NextVersions(r), NEW failed \in BOOLEAN,
         DeleteVersion(Key(r), v) \/ (failed /\ UNCHANGED store),
         Deleted(r, v),
         delError' = [delError EXCEPT ![r] = AfterDelete(@, failed)]
  PROVE  DeleteInv'
<1>1. /\ todo' = [todo EXCEPT ![r] = @ \ {v}]
      /\ delPhase' = [delPhase EXCEPT ![r] =
                        IF todo[r] = {v} THEN "audit" ELSE "delete"]
      /\ UNCHANGED <<nextVid, auditTable, delAsk, delAt, delOutcomes, listed>>
  BY DEF Deleted, Goto
<1>2. v \in todo[r] /\ store' \subseteq store
  BY DEF NextVersions, DeleteVersion
<1>3. /\ todo'[r] = todo[r] \ {v}
      /\ delPhase'[r] = (IF todo[r] = {v} THEN "audit" ELSE "delete")
      /\ delError'[r] = (IF failed THEN 500 ELSE delError[r])
  BY <1>1 DEF DeleteInv, DeleteTypeOK, AfterDelete
<1>4. ASSUME NEW q \in Deleters, q # r
      PROVE  /\ delPhase'[q] = delPhase[q] /\ todo'[q] = todo[q]
             /\ delError'[q] = delError[q]
  BY <1>1, <1>4 DEF DeleteInv, DeleteTypeOK
<1>5. StorageTypeOK'
  BY <1>1, <1>2 DEF DeleteInv, DeleteTypeOK, StorageTypeOK
<1>6. DeleteTypeOK'
  BY <1>1, <1>5 DEF DeleteInv, DeleteTypeOK, DeletePhase, AfterDelete
<1>7. BucketInv' /\ RowsInv'
  BY <1>1, <1>2 DEF DeleteInv, BucketInv, VersionsAreUnique, RowsInv
<1>8. OutcomesInv'
  BY <1>1, <1>3, <1>4 DEF DeleteInv, OutcomesInv, Working
<1>9. DeletedIsGone'
  BY <1>1, <1>2 DEF DeleteInv, DeletedIsGone, OwnListed
<1>10. ASSUME ~failed
       PROVE  v.key = Key(r) => v \notin store'
  BY <1>10 DEF DeleteVersion, VersionsOf
<1>11. ASSUME delError'[r] = 0
       PROVE  OwnListed(r, delAt[r])' \cap store' \subseteq todo[r] \ {v}
  <2>1. ~failed /\ delError[r] = 0
    BY <1>3, <1>11
  <2>2. OwnListed(r, delAt[r]) \cap store \subseteq todo[r]
    BY <2>1 DEF DeleteInv, LoopInv
  <2>3. OwnListed(r, delAt[r])' = OwnListed(r, delAt[r])
    BY <1>1 DEF OwnListed
  <2>4. \A w \in OwnListed(r, delAt[r]) : w.key = Key(r)
    BY DEF OwnListed, Key
  <2> QED
    BY <1>2, <1>10, <2>1, <2>2, <2>3, <2>4
<1>12. todo'[r] \subseteq listed'[r][delAt[r]]
  BY <1>1, <1>3 DEF DeleteInv, LoopInv
<1>13. ASSUME NEW q \in Deleters
       PROVE  /\ delPhase'[q] = "delete" =>
                   /\ todo'[q] \subseteq listed'[q][delAt'[q]]
                   /\ delError'[q] = 0 =>
                        OwnListed(q, delAt[q])' \cap store' \subseteq todo'[q]
              /\ delPhase'[q] = "audit" /\ delError'[q] = 0 =>
                   OwnListed(q, delAt[q])' \cap store' = {}
  <2>1. CASE q = r
    BY <1>1, <1>3, <1>11, <1>12, <2>1
  <2>2. CASE q # r
    BY <1>1, <1>2, <1>4, <2>2, OthersLoop
  <2> QED
    BY <2>1, <2>2
<1>14. LoopInv'
  BY <1>13 DEF LoopInv
<1> QED
  BY <1>6, <1>7, <1>8, <1>9, <1>14 DEF DeleteInv

(* The outcome of a key and its row. *)
LEMMA AuditDeleteInv ==
  ASSUME DeleteInv, NEW r \in Deleters, AuditDelete(r)
  PROVE  DeleteInv'
<1> DEFINE n == Len(delAsk[r].keys)
           outcome == DeleteCode(delError[r])
<1>1. /\ delPhase[r] = "audit"
      /\ PutItem(DeleteRow(r)) \/ UNCHANGED auditTable
      /\ delOutcomes' = [delOutcomes EXCEPT ![r][delAt[r]] = outcome]
      /\ delError' = [delError EXCEPT ![r] = 0]
      /\ delAt' = [delAt EXCEPT ![r] = NextPosition(@, n)]
      /\ delPhase' = [delPhase EXCEPT ![r] = IF delAt[r] = n THEN "done" ELSE "list"]
      /\ UNCHANGED <<store, nextVid, delAsk, todo, listed>>
  BY DEF AuditDelete, Goto
<1>2. /\ r \in Requests /\ delAt[r] \in Positions /\ delAt[r] \in Nat
      /\ delAsk[r].rid \in RequestIds /\ Key(r) \in Keys
      /\ NextPosition(delAt[r], n) \in Positions /\ NextPosition(delAt[r], n) <= n
      /\ delAt[r] # n => NextPosition(delAt[r], n) = delAt[r] + 1
  BY Positioned DEF DeleteInv
<1>3. outcome \in {204, 404, 500} /\ (outcome = 204 <=> delError[r] = 0)
  BY DEF DeleteInv, DeleteTypeOK, DeleteCode
<1>4. DeleteRow(r) \in AuditRecord
  BY <1>2 DEF DeleteRow, DeleteOperation, AuditRecord, OperationType
<1>5. StorageTypeOK' /\ \A x \in auditTable' : x \in auditTable \/ x = DeleteRow(r)
  <2>1. CASE PutItem(DeleteRow(r))
    BY <1>1, <1>4, <2>1 DEF DeleteInv, DeleteTypeOK, StorageTypeOK, PutItem
  <2>2. CASE UNCHANGED auditTable
    BY <1>1, <2>2 DEF DeleteInv, DeleteTypeOK, StorageTypeOK
  <2> QED
    BY <1>1, <2>1, <2>2
<1>6. /\ delPhase'[r] = (IF delAt[r] = n THEN "done" ELSE "list")
      /\ delAt'[r] = NextPosition(delAt[r], n)
      /\ delOutcomes'[r][delAt[r]] = outcome
      /\ \A i \in Positions : i # delAt[r] => delOutcomes'[r][i] = delOutcomes[r][i]
  BY <1>1, <1>2 DEF DeleteInv, DeleteTypeOK
<1>7. ASSUME NEW q \in Deleters, q # r
      PROVE  /\ delPhase'[q] = delPhase[q] /\ delError'[q] = delError[q]
             /\ delAt'[q] = delAt[q] /\ delOutcomes'[q] = delOutcomes[q]
  BY <1>1, <1>7 DEF DeleteInv, DeleteTypeOK
<1>8. \A j \in Positions : delAt[r] <= j => delOutcomes[r][j] = 0
  BY <1>1 DEF DeleteInv, OutcomesInv, Working
<1> HIDE DEF n, outcome
<1>9. DeleteTypeOK'
  <2>1. ASSUME NEW q \in Deleters
        PROVE  delAt'[q] \in Positions /\ delAt'[q] <= Len(delAsk'[q].keys)
    <3>1. CASE q = r
      BY <1>1, <1>2, <1>6, <3>1 DEF n
    <3>2. CASE q # r
      BY <1>1, <1>7, <3>2 DEF DeleteInv, DeleteTypeOK
    <3> QED
      BY <3>1, <3>2
  <2>2. delOutcomes' \in [Deleters -> [Positions -> {0, 204, 404, 500}]]
    BY <1>1, <1>2, <1>3 DEF DeleteInv, DeleteTypeOK
  <2>3. delAt' \in [Deleters -> Positions]
    BY <1>1, <1>2 DEF DeleteInv, DeleteTypeOK
  <2> QED
    BY <1>1, <1>5, <2>1, <2>2, <2>3 DEF DeleteInv, DeleteTypeOK, DeletePhase
<1>10. BucketInv'
  BY <1>1 DEF DeleteInv, BucketInv, VersionsAreUnique
<1>11. LoopInv'
  <2>1. delPhase'[r] \notin {"delete", "audit"}
    BY <1>6
  <2> QED
    BY <1>1, <1>7, <2>1 DEF DeleteInv, LoopInv, OwnListed
<1>12. OutcomesInv'
  <2> SUFFICES ASSUME NEW q \in Deleters, NEW j \in Positions
               PROVE  /\ delPhase'[q] \in Working /\ delAt'[q] <= j
                           => delOutcomes'[q][j] = 0
                      /\ j < delAt'[q] => delOutcomes'[q][j] # 0
                      /\ delAt'[q] < j
                           \/ (delAt'[q] = j /\ delPhase'[q] \in {"idle", "list"})
                           => listed'[q][j] = {}
    BY DEF OutcomesInv
  <2>0. j \in Nat
    BY MaxFilesAssumption DEF Positions
  <2>1. CASE q # r
    BY <1>1, <1>7, <2>1 DEF DeleteInv, OutcomesInv
  <2>2. CASE q = r /\ delAt[r] # n
    <3>1. delAt'[r] = delAt[r] + 1
      BY <1>2, <1>6, <2>2
    <3>2. /\ delAt'[r] <= j => delAt[r] < j
          /\ j < delAt'[r] => j < delAt[r] \/ j = delAt[r]
      BY <1>2, <2>0, <3>1
    <3> QED
      BY <1>1, <1>2, <1>3, <1>6, <1>8, <2>0, <2>2, <3>2 DEF DeleteInv, OutcomesInv
  <2>3. CASE q = r /\ delAt[r] = n
    <3>1. delAt'[r] = delAt[r] /\ delPhase'[r] = "done"
      BY <1>6, <2>3 DEF NextPosition
    <3> QED
      BY <1>1, <1>2, <1>6, <2>0, <2>3, <3>1 DEF DeleteInv, OutcomesInv, Working
  <2> QED
    BY <2>1, <2>2, <2>3
<1>13. RowsInv'
  <2> SUFFICES ASSUME NEW row \in auditTable', row.op = "DELETE"
               PROVE  /\ row.by \in Deleters /\ row.pos \in Positions
                      /\ delOutcomes'[row.by][row.pos] = 204
    BY DEF RowsInv
  <2>1. CASE row \in auditTable
    <3>1. /\ row.by \in Deleters /\ row.pos \in Positions
          /\ delOutcomes[row.by][row.pos] = 204
      BY <2>1 DEF DeleteInv, RowsInv
    <3>2. row.by # r \/ row.pos # delAt[r]
      BY <1>2, <1>8, <3>1
    <3> QED
      BY <1>6, <1>7, <3>1, <3>2
  <2>2. CASE row = DeleteRow(r)
    <3>1. row.by = r /\ row.pos = delAt[r] /\ delError[r] = 0
      BY <2>2 DEF DeleteRow, DeleteOperation
    <3> QED
      BY <1>2, <1>3, <1>6, <3>1
  <2> QED
    BY <1>5, <2>1, <2>2
<1>14. DeletedIsGone'
  <2>1. \A q \in Deleters : \A i \in Positions :
          OwnListed(q, i)' = OwnListed(q, i) /\ store' = store
    BY <1>1 DEF OwnListed
  <2>2. delError[r] = 0 => OwnListed(r, delAt[r]) \cap store = {}
    BY <1>1 DEF DeleteInv, LoopInv
  <2> QED
    BY <1>2, <1>3, <1>6, <1>7, <2>1, <2>2 DEF DeleteInv, DeletedIsGone
<1> QED
  BY <1>9, <1>10, <1>11, <1>12, <1>13, <1>14 DEF DeleteInv

LEMMA DeleteStepInv ==
  ASSUME DeleteInv, NEW r \in Deleters, DeleteStep(r)
  PROVE  DeleteInv'
<1>1. CASE AcceptDelete(r)
  BY <1>1, MoveInv DEF AcceptDelete, Working
<1>2. CASE RefuseDelete(r)
  BY <1>2, MoveInv DEF RefuseDelete, Working
<1>3. CASE ListVersions(r)
  BY <1>3, ListVersionsInv
<1>4. CASE FailList(r)
  BY <1>4, FailListInv
<1>5. CASE DeleteOne(r)
  BY <1>5, TurnInv DEF DeleteOne
<1>6. CASE FailDeleteOne(r)
  BY <1>6, TurnInv DEF FailDeleteOne
<1>7. CASE AuditDelete(r)
  BY <1>7, AuditDeleteInv
<1>8. CASE CrashDelete(r)
  BY <1>8, MoveInv DEF CrashDelete, Working
<1> QED
  BY <1>1, <1>2, <1>3, <1>4, <1>5, <1>6, <1>7, <1>8 DEF DeleteStep

(* A step of other requests, which may put versions with new ids and write *)
(* rows of their own.                                                      *)
LEMMA DeleteKept ==
  ASSUME DeleteInv, UNCHANGED deleterVars, StorageTypeOK', VersionsAreUnique',
         nextVid <= nextVid',
         \A v \in store' : v \in store \/ v.vid = nextVid,
         \A row \in auditTable' : row \in auditTable \/ row.op # "DELETE"
  PROVE  DeleteInv'
<1> USE DEF deleterVars
<1>1. DeleteTypeOK'
  BY DEF DeleteInv, DeleteTypeOK
<1>2. nextVid \in Nat /\ nextVid' \in Nat
  BY DEF DeleteInv, DeleteTypeOK, StorageTypeOK
<1>3. \A r \in Deleters : \A i \in Positions : \A w \in listed[r][i] :
        w.vid \in Nat /\ w.vid < nextVid
  BY DEF DeleteInv, DeleteTypeOK, BucketInv, Version
<1>4. \A r \in Deleters : \A i \in Positions :
        listed[r][i] \cap store' \subseteq listed[r][i] \cap store
  BY <1>2, <1>3
<1>5. BucketInv'
  BY <1>2, <1>3 DEF DeleteInv, BucketInv
<1>6. LoopInv'
  <2>1. \A r \in Deleters : delAt[r] \in Positions
    BY DEF DeleteInv, DeleteTypeOK
  <2>2. \A r \in Deleters : \A i \in Positions :
          OwnListed(r, i)' = OwnListed(r, i) /\ OwnListed(r, i) \subseteq listed[r][i]
    BY DEF OwnListed
  <2> QED
    BY <1>4, <2>1, <2>2 DEF DeleteInv, LoopInv
<1>7. OutcomesInv' /\ RowsInv'
  BY DEF DeleteInv, OutcomesInv, RowsInv
<1>8. DeletedIsGone'
  BY <1>4 DEF DeleteInv, DeletedIsGone, OwnListed
<1> QED
  BY <1>1, <1>5, <1>6, <1>7, <1>8 DEF DeleteInv

LEMMA DeleteNextInv == DeleteInv /\ [DeleteNext]_deleteVars => DeleteInv'
<1> SUFFICES ASSUME DeleteInv, [DeleteNext]_deleteVars PROVE DeleteInv'
  OBVIOUS
<1>1. CASE UNCHANGED deleteVars
  BY <1>1 DEF deleteVars, storageVars, deleterVars, DeleteInv, DeleteTypeOK,
              StorageTypeOK, BucketInv, VersionsAreUnique, LoopInv, OutcomesInv,
              RowsInv, DeletedIsGone, OwnListed
<1> QED
  BY <1>1, DeleteStepInv DEF DeleteNext

(* With versioning a deletion takes away what the request has listed.      *)
LEMMA TakesListedOnly ==
  ASSUME DeleteInv, Versioned, NEW r \in Deleters, DeleteStep(r),
         NEW v \in store, v \notin store'
  PROVE  delPhase[r] = "delete" /\ v \in OwnListed(r, delAt[r])
<1>1. DeleteOne(r) \/ FailDeleteOne(r)
  BY DEF storageVars, DeleteStep, AcceptDelete, RefuseDelete, ListVersions, FailList,
         AuditDelete, CrashDelete
<1>2. PICK x \in NextVersions(r) :
        delPhase[r] = "delete" /\ DeleteVersion(Key(r), x)
  BY <1>1 DEF DeleteOne, FailDeleteOne
<1>3. v.vid = x.vid /\ v.key = Key(r)
  BY <1>2 DEF DeleteVersion, VersionsOf
<1>4. x \in listed[r][delAt[r]] /\ delAt[r] \in Positions
  BY <1>2 DEF NextVersions, DeleteInv, DeleteTypeOK, LoopInv
<1>5. v = x
  BY <1>3, <1>4 DEF DeleteInv, BucketInv
<1> QED
  BY <1>2, <1>3, <1>4, <1>5 DEF OwnListed, Key

-----------------------------------------------------------------------------
(* What is noted, what is left to delete and what is in the bucket agree   *)
(* (delete_files and delete_all_file_versions).                            *)
THEOREM DeleteInvariant == DeleteSpec => []DeleteInv
<1> QED
  BY DeleteInitInv, DeleteNextInv, PTL DEF DeleteSpec

(* The state of the delete requests, the bucket and the table is always of *)
(* its type (delete_files.py).                                             *)
THEOREM DeleteTypeCorrect == DeleteSpec => []DeleteTypeOK
<1>1. DeleteInv => DeleteTypeOK
  BY DEF DeleteInv
<1> QED
  BY <1>1, DeleteInvariant, PTL

(* No 204 over a version of the key that was listed and is still there     *)
(* (the error_status of delete_all_file_versions).                         *)
THEOREM DeletedIsGoneAlways == DeleteSpec => []DeletedIsGone
<1>1. DeleteInv => DeletedIsGone
  BY DEF DeleteInv
<1> QED
  BY <1>1, DeleteInvariant, PTL

(* Over every DELETE row the versions listed at its position are gone, and *)
(* a client that reads the code of that position reads 204                 *)
(* (AuditService.add_record in delete_files).                              *)
THEOREM DeleteAuditIsTrueAlways == DeleteSpec => []DeleteAuditIsTrue
<1>1. DeleteInv => DeleteAuditIsTrue
  BY DEF DeleteInv, RowsInv, DeletedIsGone, DeleteAuditIsTrue
<1> QED
  BY <1>1, DeleteInvariant, PTL

(* With versioning a version leaves the bucket only in the loop of a       *)
(* request that deletes its key and has listed it                          *)
(* (delete_file_version takes the key of the request).                     *)
THEOREM DeletesOnlyListedAlways == DeleteSpec => DeletesOnlyListed
<1> DEFINE Allowed ==
      Versioned =>
        \A v \in store \ store' :
          \E r \in Deleters : delPhase[r] = "delete" /\ v \in OwnListed(r, delAt[r])
<1>1. ASSUME DeleteInv, [DeleteNext]_deleteVars
      PROVE  [Allowed]_deleteVars
  BY <1>1, TakesListedOnly DEF DeleteNext, deleteVars, storageVars
<1> QED
  BY <1>1, DeleteInvariant, PTL DEF DeleteSpec, DeletesOnlyListed
=============================================================================
