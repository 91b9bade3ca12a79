-------------------------- MODULE MCClientConfigs --------------------------
(* Instances of ClientConfigs for TLC. *)
EXTENDS ClientConfigs, TLC

CONSTANTS c1, c2, alice, bob, anonymous, b1, b2, x, y

MCSymmetry == Permutations(Calls)

(* bob's file may carry alice's azure_client_id. *)
MCConfigurations ==
    {[id |-> alice, bucket |-> b1], [id |-> alice, bucket |-> b2],
     [id |-> bob, bucket |-> b1]}

(* alice has any files, bob one or none, anonymous.json is there. *)
MCFilesBefore ==
    {[u \in {alice, bob, anonymous} |->
        CASE u = alice -> fa [] u = bob -> fb
          [] OTHER -> [d \in {x} |-> [id |-> bob, bucket |-> b1]]] :
       fa \in FileSets,
       fb \in {<<>>} \cup [{x} -> MCConfigurations \ {[id |-> alice, bucket |-> b1]}]}
=============================================================================
