----------------------------- MODULE MCUploads -----------------------------
(* Instances of Uploads for TLC: an empty bucket and no listing. *)
EXTENDS Uploads, TLC

CONSTANTS r1, r2, r3, k1, k2, i1, i2

MCStartsWith == {<<k, k>> : k \in Keys}

MCStoredBefore == {}

MCFirstVid == 1

(* Requests of every type, with up to MaxFiles files and any id. *)
MCAsks == Ask

(* save_file and save_or_update_file only. *)
MCSingleAsks == {a \in Ask : a.type # "BULK"}

MCSymmetry == Permutations(Uploaders) \cup Permutations(RequestIds)
                \cup Permutations(Keys)
=============================================================================
