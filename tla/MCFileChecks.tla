---------------------------- MODULE MCFileChecks ----------------------------
(***************************************************************************)
(* Instances of FileChecks for TLC: files of up to two rows with a problem *)
(* of one kind in each, and lists of up to three validators.               *)
(***************************************************************************)
EXTENDS FileChecks

CONSTANTS size, type, sql, tag

MCRows == UNION {[1..n -> {{}, {sql}, {tag}, {Undecodable}}] : n \in 0..2}

MCCodes == {c \in [Rules -> {200, 413, 415, 500}] : c[size] # 415 /\ c[type] # 413}

(* The name or clamd objects, or the rules. *)
MCFiles ==
    {f \in [rows : MCRows, named : BOOLEAN, virus : {"OK", "FOUND", "ERROR"},
            clean : BOOLEAN, codes : MCCodes] :
       \/ f.named /\ f.clean /\ f.virus = "OK"
       \/ f.codes = [r \in Rules |-> 200]}

MCSpecs ==
    RuleSpec \cup UnknownSpec
      \cup [name : {"scan"}, types : {{sql}, {sql, tag}}, setup : {200}]
      \cup [name : {"scan"}, types : {{sql}}, setup : {500}]

MCConfigs == UNION {[1..n -> MCSpecs] : n \in 0..3}
=============================================================================
