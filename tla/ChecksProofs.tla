---------------------------- MODULE ChecksProofs ----------------------------
(***************************************************************************)
(* Theorems about FileChecks, for any file, any rules and any list of      *)
(* validators.                                                             *)
(***************************************************************************)
EXTENDS FileChecks, SequenceTheorems, FiniteSetTheorems, WellFoundedInduction, TLAPS

Failed(i) == ~Passes(i)

Failures == {i \in 1..Len(specs) : ~Passes(i)}

(* The validators that a report must name. *)
Reached == {i \in Failures : \A j \in Failures : j < i => specs[j].name = "rule"}

OneScan == \A i \in 1..Len(specs) : ~IsSecondScan(i)

(* What is known of the file once it got past a check, and of the stream   *)
(* once it was rewound.                                                    *)
PassedInv ==
    /\ phase \notin {"header", "rejected", "raised"} => file.named
    /\ phase \notin {"header", "virus", "rejected", "raised"} => file.virus = "OK"
    /\ phase \notin {"header", "virus", "name", "rejected", "raised"} => file.clean
    /\ phase \in {"header", "virus", "name"} => next = 1 /\ errorsFound = {}
    /\ phase = "name" => position = 0
    /\ phase \in {"checksum", "save", "stored"} =>
         /\ errorsFound = {}
         /\ \A i \in 1..Len(specs) : IsSecondScan(i) \/ Passes(i)
    /\ phase = "save" => position = 0 /\ digest = file.rows
    /\ phase = "stored" => stored = file.rows
    /\ phase # "refused"

(* The loop over the validators: the stream is at its start until a scan   *)
(* has run; no failure means that all so far passed; the failures are      *)
(* those that must be reported, and after a scan that failed there are no  *)
(* more of them.                                                           *)
LoopInv ==
    phase = "validate" =>
      /\ (\A j \in 1..(next - 1) : specs[j].name # "scan") => position = 0
      /\ errorsFound = {} =>
           \A i \in 1..(next - 1) : IsSecondScan(i) \/ Passes(i)
      /\ OneScan =>
           /\ errorsFound = {[at |-> i, code |-> Code(specs[i], 0)] :
                                i \in {j \in Reached : j < next}}
           /\ \/ next = Len(specs) + 1 /\ Reached \subseteq 1..Len(specs)
              \/ \A i \in 1..(next - 1) : Failed(i) => specs[i].name = "rule"

ReportInv ==
    phase = "rejected" /\ errorsFound # {} /\ OneScan =>
      /\ errorsFound = {[at |-> i, code |-> Code(specs[i], 0)] : i \in Reached}
      /\ error = StatusCodeFor({e.code : e \in errorsFound})

ChecksInv ==
    ChecksTypeOK /\ PassedInv /\ LoopInv /\ ReportInv

-----------------------------------------------------------------------------
(* A file and its validators, as the code sees them. *)
LEMMA Inputs ==
  ASSUME file \in Files, specs \in Configs
  PROVE  /\ Len(file.rows) \in Nat /\ Len(specs) \in Nat
         /\ Rest(0) = file.rows
         /\ \A i \in 1..Len(specs) :
              \/ specs[i].name = "rule" /\ specs[i].rule \in Rules
              \/ specs[i].name = "scan" /\ specs[i].setup \in {200, 400, 500}
              \/ specs[i].name = "unknown"
<1>1. file \in File
  BY FilesAssumption
<1>2. file.rows \in Seq(SUBSET (Scans \cup {Undecodable}))
  BY <1>1 DEF File
<1>3. Len(file.rows) \in Nat /\ Rest(0) = file.rows
  BY <1>2, LenProperties, SubSeqFull DEF Rest
<1>4. specs \in Seq(RuleSpec \cup ScanSpec \cup UnknownSpec)
  BY ConfigsAssumption
<1>5. Len(specs) \in Nat
        /\ \A i \in 1..Len(specs) : specs[i] \in RuleSpec \cup ScanSpec \cup UnknownSpec
  BY <1>4, LenProperties, ElementOfSeq
<1> QED
  BY <1>3, <1>5 DEF RuleSpec, ScanSpec, UnknownSpec

LEMMA CodeType ==
  ASSUME file \in Files, specs \in Configs, NEW i \in 1..Len(specs), NEW p,
         specs[i].name # "unknown"
  PROVE  Code(specs[i], p) \in RuleCodes
<1>1. file.codes \in [Rules -> RuleCodes]
  BY FilesAssumption DEF File
<1> QED
  BY <1>1, Inputs DEF Code, RuleCodes

(* The first row that a scan objects to is in the file. *)
LEMMA LeavesInside ==
  ASSUME file \in Files, specs \in Configs, NEW i \in 1..Len(specs),
         NEW p \in 0..Len(file.rows)
  PROVE  LeavesAt(specs[i], p) \in 0..Len(file.rows)
<1> DEFINE found == Found(specs[i], p)
<1>1. Len(file.rows) \in Nat
  BY Inputs
<1>2. found \subseteq (p + 1)..Len(file.rows)
  BY DEF Found
<1>3. ASSUME found # {}
      PROVE  \E n \in found : \A j \in found : n <= j
  <2>1. found \subseteq Nat
    BY <1>1, <1>2
  <2>2. PICK n \in found : \A j \in found : ~(<<j, n>> \in OpToRel(<, Nat))
    BY <1>3, <2>1, WFMin, NatLessThanWellFounded
  <2>3. ASSUME NEW j \in found
        PROVE  n <= j
    <3>1. ~(j < n)
      BY <2>1, <2>2, <2>3 DEF OpToRel
    <3> QED
      BY <2>1, <3>1
  <2> QED
    BY <2>3
<1>4. \/ LeavesAt(specs[i], p) \in {p, Len(file.rows)}
      \/ /\ found # {}
         /\ LeavesAt(specs[i], p) = CHOOSE n \in found : \A j \in found : n <= j
  BY DEF LeavesAt
<1> HIDE DEF found
<1>5. found # {} => (CHOOSE n \in found : \A j \in found : n <= j) \in found
  BY <1>3
<1>6. LeavesAt(specs[i], p) \in {p, Len(file.rows)} \/ LeavesAt(specs[i], p) \in found
  BY <1>4, <1>5
<1>7. \A n \in found : n \in 0..Len(file.rows)
  BY <1>1, <1>2
<1> QED
  BY <1>1, <1>6, <1>7

(* Four things at most are a finite set. *)
LEMMA FewAreFinite ==
  ASSUME NEW a, NEW b, NEW c, NEW d, NEW S, S \subseteq {a, b, c, d}
  PROVE  IsFiniteSet(S)
<1>1. IsFiniteSet(((({} \cup {a}) \cup {b}) \cup {c}) \cup {d})
  BY FS_EmptySet, FS_AddElement
<1>2. (((({} \cup {a}) \cup {b}) \cup {c}) \cup {d}) = {a, b, c, d}
  OBVIOUS
<1> QED
  BY <1>1, <1>2, FS_Subset

(* One code for all failures: that of the only one, else 500, else 422. *)
LEMMA StatusCodeIs ==
  ASSUME NEW codes \in SUBSET (RuleCodes \ {200}), codes # {}
  PROVE  /\ StatusCodeFor(codes) \in {400, 413, 415, 422, 500}
         /\ StatusCodeFor(codes) =
              CASE 500 \in codes -> 500
                [] \E c \in codes : codes = {c} -> CHOOSE c \in codes : TRUE
                [] OTHER -> 422
<1>1. IsFiniteSet(codes)
  <2>1. PICK a, b, c, d : a = 400 /\ b = 413 /\ c = 415 /\ d = 500
    OBVIOUS
  <2>2. codes \subseteq {a, b, c, d}
    BY <2>1 DEF RuleCodes
  <2> QED
    BY <2>2, FewAreFinite
<1>2. Cardinality(codes) = 1 <=> \E c : codes = {c}
  BY <1>1, FS_Singleton
<1>3. (CHOOSE c \in codes : TRUE) \in codes
  OBVIOUS
<1>4. CASE Cardinality(codes) = 1
  <2>1. PICK c : codes = {c}
    BY <1>2, <1>4
  <2>2. (CHOOSE d \in codes : TRUE) = c
    BY <1>3, <2>1
  <2>3. StatusCodeFor(codes) = c /\ c \in codes
    BY <1>4, <2>1, <2>2 DEF StatusCodeFor
  <2>4. c \in {400, 413, 415, 500}
    BY <2>1 DEF RuleCodes
  <2>5. CASE c = 500
    BY <2>3, <2>5
  <2>6. CASE c # 500
    BY <2>1, <2>2, <2>3, <2>4, <2>6
  <2> QED
    BY <2>5, <2>6
<1>5. CASE Cardinality(codes) # 1
  <2>1. ~\E c \in codes : codes = {c}
    BY <1>2, <1>5
  <2>2. StatusCodeFor(codes) = IF 500 \in codes THEN 500 ELSE 422
    BY <1>5 DEF StatusCodeFor
  <2> QED
    BY <2>1, <2>2
<1> QED
  BY <1>4, <1>5

LEMMA ChecksInitInv == ChecksInit => ChecksInv
<1> SUFFICES ASSUME ChecksInit PROVE ChecksInv
  OBVIOUS
<1>1. Len(file.rows) \in Nat /\ Len(specs) \in Nat
  BY Inputs DEF ChecksInit
<1>2. ChecksTypeOK
  BY <1>1 DEF ChecksInit, ChecksTypeOK, Phases
<1> QED
  BY <1>2 DEF ChecksInit, ChecksInv, PassedInv, LoopInv, ReportInv

-----------------------------------------------------------------------------
(* The checks before the validators. *)
LEMMA EarlyChecksInv ==
  ASSUME ChecksInv, CheckHeader \/ ScanForVirus \/ RaiseVirusScan \/ CheckName
  PROVE  ChecksInv'
<1> USE DEF Verdict
<1>1. Len(file.rows) \in Nat /\ Len(specs) \in Nat
  BY Inputs DEF ChecksInv, ChecksTypeOK
<1>2. file.virus \in {"OK", "FOUND", "ERROR"}
  BY FilesAssumption DEF ChecksInv, ChecksTypeOK, File
<1>3. /\ UNCHANGED <<file, specs, next, errorsFound, digest, stored>>
      /\ phase \in {"header", "virus", "name"}
      /\ phase' \in {"virus", "name", "validate", "rejected", "raised"}
  BY <1>2 DEF CheckHeader, ScanForVirus, RaiseVirusScan, CheckName
<1>4. next = 1 /\ errorsFound = {}
  BY <1>3 DEF ChecksInv, PassedInv
<1>5. ChecksTypeOK'
  <2>1. position' \in 0..Len(file.rows)
    BY <1>1 DEF ChecksInv, ChecksTypeOK, CheckHeader, ScanForVirus, RaiseVirusScan,
                CheckName, AfterVirusScan
  <2>2. error' \in {0, 400, 411, 413, 415, 422, 500}
    BY <1>2 DEF ChecksInv, ChecksTypeOK, CheckHeader, ScanForVirus, RaiseVirusScan,
                CheckName
  <2> QED
    BY <1>3, <2>1, <2>2 DEF ChecksInv, ChecksTypeOK, Phases
<1>6. PassedInv'
  <2>1. CASE CheckHeader
    BY <1>3, <1>4, <2>1 DEF ChecksInv, PassedInv, CheckHeader
  <2>2. CASE ScanForVirus
    BY <1>2, <1>3, <1>4, <2>2 DEF ChecksInv, PassedInv, ScanForVirus, AfterVirusScan
  <2>3. CASE RaiseVirusScan
    BY <1>3, <1>4, <2>3 DEF ChecksInv, PassedInv, RaiseVirusScan
  <2>4. CASE CheckName
    BY <1>3, <1>4, <2>4 DEF ChecksInv, PassedInv, CheckName
  <2> QED
    BY <2>1, <2>2, <2>3, <2>4
<1>7. LoopInv'
  <2> SUFFICES ASSUME phase' = "validate" PROVE LoopInv'
    BY DEF LoopInv
  <2>1. CheckName /\ phase = "name"
    BY <1>2 DEF CheckHeader, ScanForVirus, RaiseVirusScan, CheckName
  <2>2. position' = 0 /\ next' = 1 /\ errorsFound' = {}
    BY <1>3, <1>4, <2>1 DEF ChecksInv, PassedInv, CheckName
  <2>3. {j \in Reached' : j < next'} = {}
    <3>1. \A j \in Reached' : j \in Nat \ {0}
      BY <1>1, <1>3 DEF Reached, Failures
    <3> QED
      BY <2>2, <3>1
  <2> QED
    BY <2>2, <2>3 DEF LoopInv
<1>8. ReportInv'
  BY <1>3, <1>4 DEF ReportInv
<1> QED
  BY <1>5, <1>6, <1>7, <1>8 DEF ChecksInv

(* One validator of the list. *)
LEMMA ValidateInv ==
  ASSUME ChecksInv, Validate
  PROVE  ChecksInv'
<1> DEFINE spec == specs[next]
           code == Code(spec, position)
           ends == code # 200 /\ spec.name = "scan"
<1>1. /\ phase = "validate" /\ next \in 1..Len(specs) /\ next \in Nat
      /\ Len(specs) \in Nat /\ Len(file.rows) \in Nat
      /\ spec.name \in {"rule", "scan"}
  BY Inputs DEF ChecksInv, ChecksTypeOK, Validate
<1>2. /\ position' = LeavesAt(spec, position)
      /\ errorsFound' = errorsFound \cup
           (IF code = 200 THEN {} ELSE {[at |-> next, code |-> code]})
      /\ next' = (IF ends THEN Len(specs) + 1 ELSE next + 1)
      /\ UNCHANGED <<file, specs, phase, error, digest, stored>>
  BY <1>1 DEF Validate, ContinuesOnFail, EndOfList
<1>3. code \in RuleCodes
  BY <1>1, CodeType DEF ChecksInv, ChecksTypeOK
<1>4. position' \in 0..Len(file.rows)
  BY <1>1, <1>2, LeavesInside DEF ChecksInv, ChecksTypeOK
<1>5. ~IsSecondScan(next) => code = Code(spec, 0)
  <2>1. CASE spec.name = "rule"
    BY <2>1 DEF Code
  <2>2. CASE spec.name = "scan" /\ ~IsSecondScan(next)
    BY <1>1, <2>2 DEF ChecksInv, LoopInv, IsSecondScan
  <2> QED
    BY <1>1, <2>1, <2>2
<1>6. ~IsSecondScan(next) => (Failed(next) <=> code # 200)
  BY <1>1, <1>5 DEF Failed, Passes
<1>7. ~ends => \A i \in 1..next : i < next \/ i = next
  BY <1>1
<1>8. ChecksTypeOK'
  <2>1. next' \in 1..(Len(specs) + 1)
    BY <1>1, <1>2
  <2>2. errorsFound' \subseteq [at : 1..Len(specs), code : RuleCodes \ {200}]
    BY <1>1, <1>2, <1>3 DEF ChecksInv, ChecksTypeOK
  <2> QED
    BY <1>2, <1>4, <2>1, <2>2 DEF ChecksInv, ChecksTypeOK
<1>9. PassedInv'
  BY <1>1, <1>2 DEF ChecksInv, PassedInv
<1>10. ReportInv'
  BY <1>1, <1>2 DEF ReportInv
<1>11. ASSUME \A j \in 1..(next' - 1) : specs[j].name # "scan"
       PROVE  position' = 0
  <2>1. next \in 1..(next' - 1) /\ \A j \in 1..(next - 1) : j \in 1..(next' - 1)
    BY <1>1, <1>2
  <2>2. spec.name = "rule" /\ position = 0
    BY <1>1, <1>11, <2>1 DEF ChecksInv, LoopInv
  <2> QED
    BY <1>2, <2>2 DEF LeavesAt
<1>12. ASSUME errorsFound' = {}, NEW i \in 1..(next' - 1)
       PROVE  IsSecondScan(i) \/ Passes(i)
  <2>1. code = 200 /\ errorsFound = {}
    <3> HIDE DEF code
    <3>1. code # 200 => [at |-> next, code |-> code] \in errorsFound'
      BY <1>2
    <3>2. errorsFound \subseteq errorsFound'
      BY <1>2
    <3> QED
      BY <1>12, <3>1, <3>2
  <2>4. next' = next + 1
    BY <1>2, <2>1
  <2>2. CASE i = next
    BY <1>6, <2>1, <2>2 DEF Failed
  <2>3. CASE i # next
    BY <1>1, <1>12, <2>1, <2>4, <2>3 DEF ChecksInv, LoopInv
  <2> QED
    BY <2>2, <2>3
<1>13. ASSUME OneScan
       PROVE  /\ errorsFound' = {[at |-> i, code |-> Code(specs[i], 0)] :
                                    i \in {j \in Reached : j < next'}}
              /\ \/ next' = Len(specs) + 1 /\ Reached \subseteq 1..Len(specs)
                 \/ \A i \in 1..(next' - 1) : Failed(i) => specs[i].name = "rule"
  <2>1. /\ ~IsSecondScan(next) /\ code = Code(spec, 0)
        /\ Failed(next) <=> code # 200
    BY <1>1, <1>5, <1>6, <1>13 DEF OneScan
  <2>2. /\ errorsFound = {[at |-> i, code |-> Code(specs[i], 0)] :
                             i \in {j \in Reached : j < next}}
        /\ \A i \in 1..(next - 1) : Failed(i) => specs[i].name = "rule"
    BY <1>1, <1>13 DEF ChecksInv, LoopInv
  <2>3. next \in Reached <=> code # 200
    BY <1>1, <2>1, <2>2 DEF Reached, Failures, Failed
  <2>4. ASSUME ends, NEW j \in Reached
        PROVE  j <= next
    <3>1. Failed(next) /\ spec.name # "rule"
      BY <2>1, <2>4
    <3>2. ~(next < j)
      BY <1>1, <2>4, <3>1 DEF Reached, Failures, Failed
    <3> QED
      BY <1>1, <3>2 DEF Reached, Failures, Failed
  <2>5. {j \in Reached : j < next'} =
          {j \in Reached : j < next} \cup (IF code = 200 THEN {} ELSE {next})
    <3>1. CASE ends
      BY <1>1, <1>2, <2>3, <2>4, <3>1 DEF Reached, Failures, Failed
    <3>2. CASE ~ends
      BY <1>1, <1>2, <2>3, <3>2 DEF Reached, Failures, Failed
    <3> QED
      BY <3>1, <3>2
  <2>6. errorsFound' = {[at |-> i, code |-> Code(specs[i], 0)] :
                           i \in {j \in Reached : j < next'}}
    <3> HIDE DEF code, spec
    <3> QED
      BY <1>2, <2>1, <2>2, <2>5 DEF spec
  <2>7. CASE ends
    BY <1>2, <2>6, <2>7 DEF Reached, Failures, Failed
  <2>8. CASE ~ends
    <3>1. \A i \in 1..(next' - 1) : i \in 1..(next - 1) \/ i = next
      BY <1>1, <1>2, <2>8
    <3>2. Failed(next) => spec.name = "rule"
      BY <1>1, <2>1, <2>8
    <3> QED
      BY <2>2, <2>6, <3>1, <3>2
  <2> QED
    BY <2>7, <2>8
<1>14. LoopInv'
  <2>1. /\ OneScan' <=> OneScan
        /\ Reached' = Reached
        /\ \A i : /\ IsSecondScan(i)' <=> IsSecondScan(i)
                  /\ Passes(i)' <=> Passes(i)
                  /\ Failed(i)' <=> Failed(i)
                  /\ Code(specs[i], 0)' = Code(specs[i], 0)
    BY <1>2 DEF OneScan, Reached, Failures, Failed, IsSecondScan, Passes, Code, Found
  <2> HIDE DEF code, spec, ends
  <2> QED
    BY <1>2, <1>11, <1>12, <1>13, <2>1 DEF LoopInv
<1> QED
  BY <1>8, <1>9, <1>10, <1>14 DEF ChecksInv

(* The end of the list: the file goes on or is rejected with a report. *)
LEMMA EndValidateInv ==
  ASSUME ChecksInv, EndValidate
  PROVE  ChecksInv'
<1> DEFINE codes == {e.code : e \in errorsFound}
<1>1. /\ phase = "validate" /\ next = Len(specs) + 1 /\ Len(specs) \in Nat
      /\ UNCHANGED <<file, specs, position, next, errorsFound, digest, stored>>
  BY Inputs DEF ChecksInv, ChecksTypeOK, EndValidate
<1>2. codes \in SUBSET (RuleCodes \ {200}) /\ (errorsFound # {} => codes # {})
  BY DEF ChecksInv, ChecksTypeOK
<1>3. errorsFound = {} => error' = 0 /\ phase' = "checksum"
  BY DEF EndValidate, Verdict
<1>4. errorsFound # {} =>
        /\ error' = StatusCodeFor(codes) /\ phase' = "rejected"
        /\ error' \in {400, 413, 415, 422, 500}
  <2>1. SUFFICES ASSUME errorsFound # {}
                 PROVE  /\ error' = StatusCodeFor(codes) /\ phase' = "rejected"
                        /\ error' \in {400, 413, 415, 422, 500}
    OBVIOUS
  <2>2. StatusCodeFor(codes) \in {400, 413, 415, 422, 500}
    BY <1>2, <2>1, StatusCodeIs
  <2>3. Verdict(StatusCodeFor(codes), "checksum")
    BY <2>1 DEF EndValidate
  <2> HIDE DEF codes
  <2> QED
    BY <2>2, <2>3 DEF Verdict
<1>5. ChecksTypeOK'
  BY <1>1, <1>3, <1>4 DEF ChecksInv, ChecksTypeOK, Phases
<1>6. /\ OneScan' <=> OneScan
      /\ Reached' = Reached
      /\ \A i : /\ IsSecondScan(i)' <=> IsSecondScan(i)
                /\ Passes(i)' <=> Passes(i)
                /\ Code(specs[i], 0)' = Code(specs[i], 0)
  BY <1>1 DEF OneScan, Reached, Failures, Failed, IsSecondScan, Passes, Code, Found
<1>7. PassedInv'
  <2>1. errorsFound = {} => \A i \in 1..Len(specs) : IsSecondScan(i) \/ Passes(i)
    BY <1>1 DEF ChecksInv, LoopInv
  <2> QED
    BY <1>1, <1>3, <1>4, <1>6, <2>1 DEF ChecksInv, PassedInv
<1>8. LoopInv'
  BY <1>3, <1>4 DEF LoopInv
<1>9. ReportInv'
  <2>1. {j \in Reached : j < next} = Reached
    BY <1>1 DEF Reached, Failures, Failed
  <2>2. OneScan => errorsFound = {[at |-> i, code |-> Code(specs[i], 0)] : i \in Reached}
    BY <1>1, <2>1 DEF ChecksInv, LoopInv
  <2> QED
    BY <1>1, <1>3, <1>4, <1>6, <2>2 DEF ReportInv
<1> QED
  BY <1>5, <1>7, <1>8, <1>9 DEF ChecksInv

(* The steps after the validators, and the exception in their list. *)
LEMMA LateStepsInv ==
  ASSUME ChecksInv, RaiseNotFound \/ Checksum \/ FailChecksum \/ SaveBody
  PROVE  ChecksInv'
<1>1. /\ Len(file.rows) \in Nat /\ Rest(0) = file.rows
  BY Inputs DEF ChecksInv, ChecksTypeOK
<1>2. /\ UNCHANGED <<file, specs, next, errorsFound>>
      /\ phase' \in {"raised", "save", "rejected", "stored"}
  <2>1. CASE SaveBody
    <3>1. Rest(position) = digest
      BY <1>1, <2>1 DEF ChecksInv, PassedInv, SaveBody
    <3> QED
      BY <2>1, <3>1 DEF SaveBody
  <2> QED
    BY <2>1 DEF RaiseNotFound, Checksum, FailChecksum, Verdict
<1>3. \A i : (IsSecondScan(i)' <=> IsSecondScan(i)) /\ (Passes(i)' <=> Passes(i))
  BY <1>2 DEF IsSecondScan, Passes, Code, Found
<1>4. CASE RaiseNotFound
  <2>1. ChecksTypeOK'
    BY <1>4 DEF ChecksInv, ChecksTypeOK, Phases, RaiseNotFound
  <2> QED
    BY <1>4, <2>1 DEF ChecksInv, PassedInv, LoopInv, ReportInv, RaiseNotFound
<1>5. CASE Checksum
  <2>1. ChecksTypeOK'
    BY <1>1, <1>5 DEF ChecksInv, ChecksTypeOK, Phases, Checksum, AfterDigest
  <2>2. PassedInv'
    BY <1>1, <1>3, <1>5 DEF ChecksInv, PassedInv, Checksum, AfterDigest
  <2> QED
    BY <1>5, <2>1, <2>2 DEF ChecksInv, LoopInv, ReportInv, Checksum
<1>6. CASE FailChecksum
  <2>1. ChecksTypeOK'
    BY <1>1, <1>6 DEF ChecksInv, ChecksTypeOK, Phases, FailChecksum, AfterDigest, Verdict
  <2>2. phase' = "rejected" /\ errorsFound' = {}
    BY <1>6 DEF ChecksInv, PassedInv, FailChecksum, Verdict
  <2> QED
    BY <2>1, <2>2 DEF ChecksInv, PassedInv, LoopInv, ReportInv
<1>7. CASE SaveBody
  <2>1. /\ position = 0 /\ digest = file.rows /\ phase = "save"
    BY <1>7 DEF ChecksInv, PassedInv, SaveBody
  <2>2. stored' = file.rows /\ phase' = "stored" /\ position' = Len(file.rows)
    BY <1>1, <1>7, <2>1 DEF SaveBody
  <2>3. ChecksTypeOK'
    BY <1>1, <1>7, <2>2 DEF ChecksInv, ChecksTypeOK, Phases, SaveBody
  <2>4. PassedInv'
    BY <1>2, <1>3, <2>1, <2>2 DEF ChecksInv, PassedInv
  <2> QED
    BY <2>2, <2>3, <2>4 DEF ChecksInv, LoopInv, ReportInv
<1> QED
  BY <1>4, <1>5, <1>6, <1>7

LEMMA ChecksNextInv == ChecksInv /\ [ChecksNext]_vars => ChecksInv'
<1> SUFFICES ASSUME ChecksInv, [ChecksNext]_vars PROVE ChecksInv'
  OBVIOUS
<1>1. CASE UNCHANGED vars
  <2>1. UNCHANGED <<file, specs, phase, position, next, errorsFound, error, digest, stored>>
    BY <1>1 DEF vars
  <2>2. /\ OneScan' <=> OneScan
        /\ Reached' = Reached
        /\ \A i : /\ IsSecondScan(i)' <=> IsSecondScan(i)
                  /\ Passes(i)' <=> Passes(i)
                  /\ Failed(i)' <=> Failed(i)
                  /\ Code(specs[i], 0)' = Code(specs[i], 0)
    BY <2>1 DEF OneScan, Reached, Failures, Failed, IsSecondScan, Passes, Code, Found
  <2>3. ChecksTypeOK' /\ PassedInv'
    BY <2>1, <2>2 DEF ChecksInv, ChecksTypeOK, PassedInv
  <2>4. LoopInv' /\ ReportInv'
    BY <2>1, <2>2 DEF ChecksInv, LoopInv, ReportInv
  <2> QED
    BY <2>3, <2>4 DEF ChecksInv
<1>2. CASE ChecksNext
  BY <1>2, EarlyChecksInv, ValidateInv, EndValidateInv, LateStepsInv DEF ChecksNext
<1> QED
  BY <1>1, <1>2

-----------------------------------------------------------------------------
(* What is known of the file, the stream and the failures at each check    *)
(* (run_initial_file_checks and validate_file).                            *)
THEOREM ChecksInvariant == ChecksSpec => []ChecksInv
<1> QED
  BY ChecksInitInv, ChecksNextInv, PTL DEF ChecksSpec

(* The state of a file's checks is always of its type.                     *)
THEOREM ChecksTypes == ChecksSpec => []ChecksTypeOK
<1>1. ChecksInv => ChecksTypeOK
  BY DEF ChecksInv
<1> QED
  BY <1>1, ChecksInvariant, PTL

(* The file reaches the bucket whole, whatever its validators left of the  *)
(* stream (get_file_checksum, upload_file_obj).                            *)
THEOREM SavedIsWholeAlways == ChecksSpec => []SavedIsWhole
<1>1. ChecksInv => SavedIsWhole
  BY DEF ChecksInv, PassedInv, SavedIsWhole
<1> QED
  BY <1>1, ChecksInvariant, PTL

(* Only a file that passed every check but second scans is stored          *)
(* (handle_file_upload_logic, validate_file).                              *)
THEOREM StoredPassedChecksAlways == ChecksSpec => []StoredPassedChecks
<1>1. ChecksInv => StoredPassedChecks
  BY DEF ChecksInv, PassedInv, StoredPassedChecks
<1> QED
  BY <1>1, ChecksInvariant, PTL

(* A report names all failures that count, under the right code            *)
(* (validate_file, get_status_code_for_response).                          *)
THEOREM ReportIsCompleteAlways == ChecksSpec => []ReportIsComplete
<1>1. ASSUME ChecksInv, phase = "rejected", errorsFound # {}, OneScan
      PROVE  LET codes == {Code(specs[i], 0) : i \in Reached}
             IN /\ {e.at : e \in errorsFound} = Reached
                /\ error = CASE 500 \in codes -> 500
                             [] \E c \in codes : codes = {c} -> CHOOSE c \in codes : TRUE
                             [] OTHER -> 422
  <2> DEFINE codes == {Code(specs[i], 0) : i \in Reached}
  <2>1. /\ errorsFound = {[at |-> i, code |-> Code(specs[i], 0)] : i \in Reached}
        /\ error = StatusCodeFor({e.code : e \in errorsFound})
    BY <1>1 DEF ChecksInv, ReportInv
  <2>2. /\ \A e \in errorsFound :
             e.at \in Reached /\ e.code = Code(specs[e.at], 0)
        /\ \A i \in Reached :
             \E e \in errorsFound : e.at = i /\ e.code = Code(specs[i], 0)
    <3>1. ASSUME NEW i \in Reached
          PROVE  \E e \in errorsFound : e.at = i /\ e.code = Code(specs[i], 0)
      <4>1. [at |-> i, code |-> Code(specs[i], 0)] \in errorsFound
        BY <2>1
      <4> QED
        BY <4>1
    <3>2. ASSUME NEW e \in errorsFound
          PROVE  e.at \in Reached /\ e.code = Code(specs[e.at], 0)
      <4>1. PICK i \in Reached : e = [at |-> i, code |-> Code(specs[i], 0)]
        BY <2>1
      <4> QED
        BY <4>1
    <3> QED
      BY <3>1, <3>2
  <2>3. codes = {e.code : e \in errorsFound} /\ {e.at : e \in errorsFound} = Reached
    BY <2>2
  <2>5. codes \in SUBSET (RuleCodes \ {200}) /\ codes # {}
    <3>1. \A e \in errorsFound : e.code \in RuleCodes \ {200}
      BY <1>1 DEF ChecksInv, ChecksTypeOK
    <3> HIDE DEF codes
    <3> QED
      BY <1>1, <2>3, <3>1
  <2> HIDE DEF codes
  <2>6. error = StatusCodeFor(codes)
    BY <2>1, <2>3
  <2>4. error = CASE 500 \in codes -> 500
                  [] \E c \in codes : codes = {c} -> CHOOSE c \in codes : TRUE
                  [] OTHER -> 422
    BY <2>5, <2>6, StatusCodeIs
  <2> QED
    BY <2>3, <2>4 DEF codes
<1>2. ChecksInv => ReportIsComplete
  BY <1>1, Zenon DEF ReportIsComplete, OneScan, Reached, Failures
<1> QED
  BY <1>2, ChecksInvariant, PTL
=============================================================================
