-------------------------- MODULE MCConfigBuilder --------------------------
(***************************************************************************)
(* ConfigBuilder for TLC: two directories and two clients, the id of one   *)
(* starting with the id of the other.                                      *)
(***************************************************************************)
EXTENDS ConfigBuilder, TLC

CONSTANTS short, long

MCStartsWith == {<<id, id>> : id \in Ids} \cup {<<long, short>>}

MCSymmetry == Permutations(Dirs) \cup Permutations(Buckets)
=============================================================================
