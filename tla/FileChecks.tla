----------------------------- MODULE FileChecks -----------------------------
(***************************************************************************)
(* What happens to one uploaded file before and in its save:               *)
(*                                                                         *)
(*   run_initial_file_checks  header -> virus -> name -> validate          *)
(*                              -> checksum                                *)
(*   upload_file_obj          save                                         *)
(*                                                                         *)
(* All of them share file.file, a stream with a position.  Whoever reads   *)
(* it leaves it somewhere and the next one starts there: that is the state *)
(* this module is about.  The stream is a sequence of rows; a row is the   *)
(* set of what the content scans would find in it.                         *)
(***************************************************************************)
EXTENDS Integers, Sequences, FiniteSets

CONSTANTS
    Rules,         \* configured validators of the name, type or size
    Scans,         \* what ScanForSuspiciousContent can look for: scan_types
    Undecodable,   \* found in a row that is no UTF-8 or no CSV
    Files,         \* the files uploaded
    Configs        \* the file_validators of the clients

(* What a rule answers; an exception it raises is a 500.                   *)
RuleCodes == {200, 400, 413, 415, 500}

(* named: it has a filename; virus: what clamd answers; clean: the name    *)
(* has no URL, path, volume or unacceptable character in it.               *)
File == [rows : Seq(SUBSET (Scans \cup {Undecodable})), named : BOOLEAN,
         virus : {"OK", "FOUND", "ERROR"}, clean : BOOLEAN,
         codes : [Rules -> RuleCodes]]

(* The entries of file_validators.  types is what the scan looks for, its  *)
(* default included; setup is what it answers before it reads: 400 for an  *)
(* unknown scan type, 500 for a delimiter csv.reader does not take.        *)
RuleSpec == [name : {"rule"}, rule : Rules]
ScanSpec == [name : {"scan"}, types : SUBSET Scans, setup : {200, 400, 500}]
UnknownSpec == [name : {"unknown"}]

ASSUME FilesAssumption == Files \subseteq File
ASSUME ConfigsAssumption ==
    Configs \subseteq Seq(RuleSpec \cup ScanSpec \cup UnknownSpec)

VARIABLES
    file, specs,   \* the file and the file_validators of its client
    phase,
    position,      \* of file.file: the rows that were read
    next,          \* the index of the validator to run
    errorsFound,   \* the failures: which validator, which code
    error,         \* the code of error_status, 0 if ()
    digest,        \* the rows the checksum is of
    stored         \* the rows in the bucket

vars == <<file, specs, phase, position, next, errorsFound, error, digest, stored>>

Phases == {"header", "virus", "name", "validate", "checksum", "save",
           "rejected", "raised", "refused", "stored"}

ChecksTypeOK ==
    /\ file \in Files /\ specs \in Configs
    /\ phase \in Phases
    /\ position \in 0..Len(file.rows)
    /\ next \in 1..(Len(specs) + 1)
    /\ errorsFound \subseteq [at : 1..Len(specs), code : RuleCodes \ {200}]
    /\ error \in {0, 400, 411, 413, 415, 422, 500}
    /\ digest \in {<<>>, file.rows}
    /\ stored \in {<<>>, file.rows}

ChecksInit ==
    /\ file \in Files /\ specs \in Configs
    /\ phase = "header"
    /\ position = 0 /\ next = 1
    /\ errorsFound = {} /\ error = 0
    /\ digest = <<>> /\ stored = <<>>

-----------------------------------------------------------------------------
(* What a reader finds who starts at position p. *)
Rest(p) == SubSeq(file.rows, p + 1, Len(file.rows))

(* An error_status ends the checks; the file is not saved. *)
Verdict(code, otherwise) ==
    /\ error' = IF code = 200 THEN 0 ELSE code
    /\ phase' = IF code = 200 THEN otherwise ELSE "rejected"

(* HaveContentLengthInHeaders, then HaveFile. *)
CheckHeader ==
    /\ phase = "header"
    /\ \E code \in {IF file.named THEN 200 ELSE 400, 411} : Verdict(code, "virus")
    /\ UNCHANGED <<file, specs, position, next, errorsFound, digest, stored>>

(* Mutant: the stream is left where the reader left it. *)
LeftAtEnd(n) == n

(* NoVirusFoundInFile reads the n rows of the file and seeks 0. *)
AfterVirusScan(n) == 0

ScanForVirus ==
    /\ phase = "virus"
    /\ Verdict(CASE file.virus = "OK" -> 200 [] file.virus = "FOUND" -> 400
                 [] OTHER -> 500, "name")
    /\ position' = AfterVirusScan(Len(file.rows))
    /\ UNCHANGED <<file, specs, next, errorsFound, digest, stored>>

(* clamd does not answer: nothing catches the exception. *)
RaiseVirusScan ==
    /\ phase = "virus"
    /\ phase' = "raised"
    /\ position' = Len(file.rows)
    /\ UNCHANGED <<file, specs, next, errorsFound, error, digest, stored>>

(* The validators of the filename run after the virus scan. *)
CheckName ==
    /\ phase = "name"
    /\ Verdict(IF file.clean THEN 200 ELSE 400, "validate")
    /\ UNCHANGED <<file, specs, position, next, errorsFound, digest, stored>>

-----------------------------------------------------------------------------
(* The index, from the position on, of the rows in which a scan finds what *)
(* it looks for, or which it cannot read.                                  *)
Found(spec, p) ==
    {i \in (p + 1)..Len(file.rows) :
       file.rows[i] \cap (spec.types \cup {Undecodable}) # {}}

(* validator.validate: a status code and what it leaves of the stream.     *)
(* ScanForSuspiciousContent reads on from where the stream is, up to the   *)
(* first row it objects to, and does not seek.                             *)
Code(spec, p) ==
    IF spec.name = "rule" THEN file.codes[spec.rule]
    ELSE IF spec.setup # 200 THEN spec.setup
    ELSE IF Found(spec, p) = {} THEN 200 ELSE 400

LeavesAt(spec, p) ==
    IF spec.name = "rule" \/ spec.setup # 200 THEN p
    ELSE IF Found(spec, p) = {} THEN Len(file.rows)
    ELSE CHOOSE i \in Found(spec, p) : \A j \in Found(spec, p) : i <= j

(* Mutant: the first failure ends the list. *)
NeverContinues(spec) == FALSE

(* continue_to_next_validator_on_fail *)
ContinuesOnFail(spec) == spec.name = "rule"

(* Mutant: the loop ends after the end. *)
PastEnd(n) == n + 2

(* break *)
EndOfList(n) == n + 1

Validate ==
    /\ phase = "validate" /\ next <= Len(specs) /\ specs[next].name # "unknown"
    /\ LET spec == specs[next]
           code == Code(spec, position)
       IN /\ position' = LeavesAt(spec, position)
          /\ errorsFound' = errorsFound \cup
               {e \in {[at |-> next, code |-> code]} : e.code # 200}
          /\ next' = IF code = 200 \/ ContinuesOnFail(spec)
                     THEN next + 1 ELSE EndOfList(Len(specs))
    /\ UNCHANGED <<file, specs, phase, error, digest, stored>>

(* get_validator raises ValidatorNotFoundError outside of the try. *)
RaiseNotFound ==
    /\ phase = "validate" /\ next <= Len(specs) /\ specs[next].name = "unknown"
    /\ phase' = "raised"
    /\ UNCHANGED <<file, specs, position, next, errorsFound, error, digest, stored>>

(* get_status_code_for_response: one code for all. *)
StatusCodeFor(codes) ==
    IF Cardinality(codes) = 1 THEN CHOOSE c \in codes : TRUE
    ELSE IF 500 \in codes THEN 500 ELSE 422

EndValidate ==
    /\ phase = "validate" /\ next > Len(specs)
    /\ Verdict(IF errorsFound = {} THEN 200
               ELSE StatusCodeFor({e.code : e \in errorsFound}), "checksum")
    /\ UNCHANGED <<file, specs, position, next, errorsFound, digest, stored>>

-----------------------------------------------------------------------------
(* get_file_checksum seeks 0 before and after. *)
AfterDigest(n) == 0

Checksum ==
    /\ phase = "checksum"
    /\ digest' = Rest(0)
    /\ position' = AfterDigest(Len(file.rows))
    /\ phase' = "save"
    /\ UNCHANGED <<file, specs, next, errorsFound, error, stored>>

(* The digest raises: get_file_checksum returns an error_message. *)
FailChecksum ==
    /\ phase = "checksum"
    /\ Verdict(500, "save")
    /\ position' = AfterDigest(Len(file.rows))
    /\ UNCHANGED <<file, specs, next, errorsFound, digest, stored>>

(* put_object(Body=file.read(), ChecksumSHA256=...): S3 refuses a body     *)
(* whose checksum is another one.                                          *)
SaveBody ==
    /\ phase = "save"
    /\ position' = Len(file.rows)
    /\ IF Rest(position) = digest
       THEN stored' = digest /\ phase' = "stored"
       ELSE UNCHANGED stored /\ phase' = "refused"
    /\ UNCHANGED <<file, specs, next, errorsFound, error, digest>>

ChecksNext ==
    \/ CheckHeader \/ ScanForVirus \/ RaiseVirusScan \/ CheckName
    \/ Validate \/ RaiseNotFound \/ EndValidate
    \/ Checksum \/ FailChecksum \/ SaveBody

ChecksSpec == ChecksInit /\ [][ChecksNext]_vars

-----------------------------------------------------------------------------
(* The scans read the stream and none of them seeks: still, S3 gets the    *)
(* file whole and with the checksum of the whole file, whichever           *)
(* validators ran (get_file_checksum against upload_file_obj).             *)
SavedIsWhole ==
    phase \in {"stored", "refused"} => phase = "stored" /\ stored = file.rows

(* What validator i says of the whole file, not of the rest of a stream.   *)
Passes(i) == specs[i].name # "unknown" /\ Code(specs[i], 0) = 200

IsSecondScan(i) ==
    specs[i].name = "scan" /\ \E j \in 1..(i - 1) : specs[j].name = "scan"

(* A file in the bucket passed every check on all of its content: clamd,   *)
(* the filename, every rule and the first scan of the list, although the   *)
(* virus scan has read the stream before that one.                         *)
StoredPassedChecks ==
    phase = "stored" =>
      /\ file.named /\ file.clean /\ file.virus = "OK"
      /\ \A i \in 1..Len(specs) : IsSecondScan(i) \/ Passes(i)

(* A rejected client reads all that is wrong with its file: every rule     *)
(* that fails is reported, up to a scan that fails, and nothing else; the  *)
(* code is the common one, else 500 if there is a 500, else 422 (the docs  *)
(* of validate_file and get_status_code_for_response).                     *)
ReportIsComplete ==
    LET failed == {i \in 1..Len(specs) : ~Passes(i)}
        reached == {i \in failed : \A j \in failed : j < i => specs[j].name = "rule"}
        codes == {Code(specs[i], 0) : i \in reached}
    IN /\ phase = "rejected" /\ errorsFound # {}
       /\ \A i \in 1..Len(specs) : ~IsSecondScan(i)
       => /\ {e.at : e \in errorsFound} = reached
          /\ error = CASE 500 \in codes -> 500
                       [] \E c \in codes : codes = {c} -> CHOOSE c \in codes : TRUE
                       [] OTHER -> 422

(* docs/client_configurations.md: the file is only saved if all validators *)
(* pass.  Fails for the second scan of a list: it starts where the first   *)
(* stopped, at the end, and finds nothing.                                 *)
StoredPassedEveryScan ==
    phase = "stored" => \A i \in 1..Len(specs) : Passes(i)
=============================================================================
