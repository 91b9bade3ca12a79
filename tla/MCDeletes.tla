----------------------------- MODULE MCDeletes -----------------------------
(***************************************************************************)
(* Instances of Deletes for TLC: a bucket in which k1 has two versions,    *)
(* k2, which starts with k1, has two, and k3, which also starts with k1,   *)
(* none.  w put them all before the delete requests came.                  *)
(***************************************************************************)
EXTENDS Deletes, TLC

CONSTANTS d1, d2, w, k1, k2, k3, i1

MCStartsWith == {<<k, k>> : k \in Keys} \cup ({k2, k3} \X {k1})

Put(k, i) == [key |-> k, vid |-> i, by |-> w, pos |-> i]

MCStoredBefore ==
    IF Versioned THEN {Put(k1, 1), Put(k2, 2), Put(k1, 3), Put(k2, 4)}
                 ELSE {Put(k1, 1), Put(k2, 2)}

(* The same bucket without k1: only keys that start with it. *)
MCOthersStoredBefore == {Put(k2, 2), Put(k2, 4)}

MCFirstVid == 5

(* Every request, and those that name the two keys of the bucket. *)
MCDeleteAsks == DeleteAsk

MCDeleteK1K2 == {a \in DeleteAsk : \A i \in DOMAIN a.keys : a.keys[i] # k3}

MCSymmetry == Permutations(Deleters) \cup Permutations(RequestIds)
=============================================================================
