------------------------------ MODULE MCAccess ------------------------------
(***************************************************************************)
(* Access for TLC: two policy files, rules for the client c1 to delete and *)
(* for everybody to get, tokens good, expiring, faulty and signed with     *)
(* another key, two places for the keys.                                   *)
(***************************************************************************)
EXTENDS Access, TLC

CONSTANTS c1, get, del, bucket, misfit, key1, key2, uri1, uri2

MCFirstKeys == [u \in Uris |-> IF u = uri1 THEN {key1} ELSE {key2}]

MCSymmetry == Permutations(Paths)

MCRules == {<<c1, del>>, <<c1, bucket>>, <<Anonymous, get>>, misfit}

(* c1's file may carry another azure_client_id. *)
MCConfigurations == [id : {c1, TestUser}, bucket : {bucket}]

MCContents ==
    {<<<<c1, del>>, <<c1, bucket>>>>, <<<<c1, del>>, Bad, <<c1, bucket>>>>,
     <<<<Anonymous, get>>, misfit>>}

Bearer(key, exp, fault) ==
    [name |-> "none", inRange |-> TRUE, scheme |-> "bearer",
     token |-> [key |-> key, exp |-> exp, client |-> c1, fault |-> fault]]

MCCredentials ==
    {Bearer(key1, MaxTime + 1, "none"), Bearer(key2, 1, "none"),
     Bearer(key1, MaxTime + 1, "roles"),
     [Bearer(key1, 1, "none") EXCEPT !.scheme = "wrong"],
     [Bearer(key1, 1, "none") EXCEPT !.name = "test"],
     [Bearer(key1, 1, "none") EXCEPT !.name = "other"],
     [Bearer(key1, 1, "none") EXCEPT !.name = "test", !.inRange = FALSE,
                                     !.scheme = "none"]}
=============================================================================
