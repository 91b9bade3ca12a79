---------------------------- MODULE AuditedStore ----------------------------
(***************************************************************************)
(* What the API promises to its clients and to an auditor, without saying  *)
(* how: a store of files, an audit table, and per request and position at  *)
(* most one answer, given in the order of the positions.  A file is put    *)
(* before its answer and never after a rejection; the answer and the row   *)
(* that tells of it appear together.  Checks, listings, error variables,   *)
(* attempts and crashes are not seen here.  DocumentApi implements it.     *)
(***************************************************************************)
EXTENDS Naturals, Sequences

CONSTANTS Versioned, Requests

VARIABLES
    wants,         \* per request, what it asks for at each position
    files,         \* the versions in the bucket
    rows,          \* the audit table
    answers        \* per request, the code of each position, 0 if none

storeVars == <<wants, files, rows, answers>>

Init ==
    /\ rows = {}
    /\ \A r \in Requests : \A i \in DOMAIN answers[r] : answers[r][i] = 0
    /\ \A v \in files : ~\E r \in Requests : wants[r] # <<>> /\ v.by = r

(* The position whose turn it is: earlier ones are answered. *)
Open(r, i) ==
    /\ answers[r][i] = 0
    /\ \A j \in 1..(i - 1) : answers[r][j] # 0

Wanted(r, i, op) == wants[r][i].op = op

Own(r, i) == {v \in files : v.by = r /\ v.pos = i}

(* Others may have taken the file of r away: a delete request for it or,   *)
(* without versioning, a save of the same file.                            *)
Contested(r, i) ==
    \E q \in Requests : \E j \in DOMAIN wants[q] :
      /\ wants[q][j].file = wants[r][i].file
      /\ \/ wants[q][j].op = "DELETE"
         \/ ~Versioned /\ wants[q][j].op = "SAVE" /\ <<q, j>> # <<r, i>>

Answer(r, i, code) ==
    /\ answers'[r][i] = code
    /\ answers' = [answers EXCEPT ![r][i] = code]
    /\ UNCHANGED <<wants, files>>

Record(r, i, op) ==
    LET row == [rid |-> wants[r][i].rid, pos |-> i,
                file |-> wants[r][i].file, op |-> op, by |-> r]
    IN rows' = {x \in rows : <<x.rid, x.pos>> # <<row.rid, row.pos>>} \cup {row}

(* A new version of the file that is asked for; an attempt may be repeated. *)
Put(r, i) ==
    /\ Wanted(r, i, "SAVE")
    /\ \E v \in files' :
         /\ v.key = wants[r][i].file /\ v.by = r /\ v.pos = i
         /\ \A w \in files : w.vid < v.vid
         /\ files' = {w \in files : Versioned \/ w.key # v.key} \cup {v}
    /\ UNCHANGED <<wants, rows, answers>>

(* The file is there, its row says so, and so does the answer. *)
Confirm(r, i) ==
    /\ Wanted(r, i, "SAVE")
    /\ Own(r, i) # {} \/ Contested(r, i)
    /\ \/ Answer(r, i, 201) /\ Record(r, i, "CREATE")
       \/ Answer(r, i, 200) /\ Record(r, i, "UPDATE")

(* Refused with a reason: nothing was put, and the row says FAILED. *)
Reject(r, i) ==
    /\ Wanted(r, i, "SAVE")
    /\ Own(r, i) = {}
    /\ \E code \in {400, 409} : Answer(r, i, code)
    /\ Record(r, i, "FAILED")

(* An internal error promises little: the row may be lost, or it may be    *)
(* the row of a success that could not be confirmed.                       *)
Fail(r, i) ==
    /\ Answer(r, i, 500)
    /\ \/ UNCHANGED rows
       \/ Record(r, i, "FAILED")
       \/ /\ wants[r][i].op = "SAVE" /\ (Own(r, i) # {} \/ Contested(r, i))
          /\ Record(r, i, "CREATE") \/ Record(r, i, "UPDATE")
       \/ wants[r][i].op \in {"READ", "INFO"} /\ Record(r, i, wants[r][i].op)

(* One version of the file to delete goes. *)
Erase(r, i) ==
    /\ Wanted(r, i, "DELETE")
    /\ \E v \in files : v.key = wants[r][i].file /\ files' = files \ {v}
    /\ UNCHANGED <<wants, rows, answers>>

(* The row of a delete may be lost. *)
AnswerDelete(r, i) ==
    /\ Wanted(r, i, "DELETE")
    /\ \/ Answer(r, i, 204) /\ (Record(r, i, "DELETE") \/ UNCHANGED rows)
       \/ Answer(r, i, 404) /\ (Record(r, i, "FAILED") \/ UNCHANGED rows)

(* What a reader is shown, or told to be missing, is audited first. *)
AnswerRead(r, i) ==
    /\ wants[r][i].op \in {"READ", "INFO"}
    /\ \/ Answer(r, i, 200) /\ Record(r, i, wants[r][i].op)
       \/ \E code \in {400, 404} : Answer(r, i, code) /\ Record(r, i, "FAILED")

Next ==
    \E r \in Requests : \E i \in DOMAIN wants[r] :
      /\ Open(r, i)
      /\ \/ Put(r, i) \/ Confirm(r, i) \/ Reject(r, i) \/ Fail(r, i)
         \/ Erase(r, i) \/ AnswerDelete(r, i) \/ AnswerRead(r, i)

Spec == Init /\ [][Next]_storeVars
=============================================================================
