--------------------------- MODULE MCDocumentApi ---------------------------
(***************************************************************************)
(* Instances of DocumentApi for TLC: a bucket in which k1 has one version, *)
(* put by w, and k2, which starts with k1, none.                           *)
(***************************************************************************)
EXTENDS DocumentApi, TLC

CONSTANTS u1, u2, d1, g1, w, k1, k2, i1, i2

MCStartsWith == {<<k, k>> : k \in Keys} \cup {<<k2, k1>>}

MCStoredBefore == {[key |-> k1, vid |-> 1, by |-> w, pos |-> 1]}

MCFirstVid == 2

MCAsks == Ask

(* One file per request; a PUT of k2, which is new, goes as a POST does. *)
MCFewAsks == {a \in Ask : a.type = "POST" \/ (a.type = "PUT" /\ a.files = <<k1>>)}

MCDeleteAsks == DeleteAsk

(* Deletes that name k1 twice; its list names k2 too. *)
MCTwiceDeletes == {d \in DeleteAsk : d.keys = <<k1, k1>>}

MCSymmetry == Permutations(Uploaders) \cup Permutations(Deleters)
                \cup Permutations(Readers) \cup Permutations(RequestIds)
=============================================================================
