---------------------------- MODULE DocumentApi ----------------------------
(***************************************************************************)
(* The whole API over one bucket and one audit table: upload, delete and   *)
(* read requests, each at its own step, in any order.  The steps are those *)
(* of Uploads, Deletes and Reads; what is new is that they interleave.     *)
(***************************************************************************)
EXTENDS Uploads, Deletes, Reads

ASSUME RequestsAssumption ==
    /\ Uploaders \cap Deleters = {}
    /\ Uploaders \cap Readers = {}
    /\ Deleters \cap Readers = {}
    /\ \A v \in StoredBefore : v.by \notin Deleters \cup Readers

apiVars == <<storageVars, uploaderVars, deleterVars, readerVars>>

ApiTypeOK == UploadTypeOK /\ DeleteTypeOK /\ ReadTypeOK

ApiInit == UploadInit /\ DeleteInit /\ ReaderInit

Upload(r) == UploadStep(r) /\ UNCHANGED <<deleterVars, readerVars>>
Delete(r) == DeleteStep(r) /\ UNCHANGED <<uploaderVars, readerVars>>
Read(r)   == ReadStep(r)   /\ UNCHANGED <<uploaderVars, deleterVars>>

ApiNext ==
    \/ \E r \in Uploaders : Upload(r)
    \/ \E r \in Deleters : Delete(r)
    \/ \E r \in Readers : Read(r)

ApiSpec == ApiInit /\ [][ApiNext]_apiVars

(* The calls of uploads and deletes end, whatever the other requests do. *)
FairApiSpec == ApiSpec /\ UploadFairness /\ DeleteFairness

-----------------------------------------------------------------------------
(* Some delete request found this version in its list for its own key. *)
Condemned(v) ==
    \E r \in Deleters : \E i \in Positions : v \in OwnListed(r, i)

(* A confirmed upload stays until somebody deletes it: with versioning,    *)
(* the version of a 200 or 201 is in the bucket, or a delete request for   *)
(* that key listed it.  A delete that runs at the same time but listed     *)
(* before the put spares it.                                               *)
ConfirmedSurvives ==
    \A r \in Uploaders : \A i \in Positions :
      Versioned /\ Confirmed(r, i) =>
        LET v == [key |-> ask[r].files[i], vid |-> outcomes[r][i].vid,
                  by |-> r, pos |-> i]
        IN v \in store \/ Condemned(v)

(* Clients read what they wrote: the version list answered for a file has  *)
(* every version that was there when the request came, unless a delete     *)
(* request listed that version, or a full page of newer versions hides it; *)
(* "no details found" is answered only if all of them were condemned.      *)
DetailsHideNothing ==
    \A r \in Readers :
      Versioned /\ readAsk[r].op = "INFO" /\ readCode[r] \in {200, 404} =>
        \A v \in atArrival[r] :
          \/ v \in versions[r]
          \/ Condemned(v)
          \/ Hidden(v, versions[r])

-----------------------------------------------------------------------------
(***************************************************************************)
(* What DocumentApi is for: the client's and the auditor's view of it is a *)
(* behaviour of AuditedStore.  Each request asks for one thing per file.   *)
(***************************************************************************)
Want(op, rid, file) == [op |-> op, rid |-> rid, file |-> file]

Wants ==
    [r \in Requests |->
       CASE r \in Uploaders ->
              [i \in DOMAIN ask[r].files |->
                 Want("SAVE", ask[r].rid, ask[r].files[i])]
         [] r \in Deleters ->
              [i \in DOMAIN delAsk[r].keys |->
                 Want("DELETE", delAsk[r].rid, delAsk[r].keys[i])]
         [] r \in Readers ->
              <<Want(readAsk[r].op, readAsk[r].rid, Sought(r))>>
         [] OTHER -> <<>>]

Answers ==
    [r \in Requests |->
       CASE r \in Uploaders ->
              [i \in DOMAIN ask[r].files |-> outcomes[r][i].code]
         [] r \in Deleters ->
              [i \in DOMAIN delAsk[r].keys |-> delOutcomes[r][i]]
         [] r \in Readers -> <<readCode[r]>>
         [] OTHER -> <<>>]

Abstract ==
    INSTANCE AuditedStore
    WITH wants <- Wants, files <- store, rows <- auditTable, answers <- Answers

(* Every step of every request, an exception, a lost reply or a crash      *)
(* among them, is one of AuditedStore or changes nothing that a client or  *)
(* an auditor sees: answers come in the order of the files and only once,  *)
(* a row appears only together with the answer it tells of, files appear   *)
(* only before their answer and never after a 4xx.                         *)
ImplementsAuditedStore == Abstract!Spec
=============================================================================
