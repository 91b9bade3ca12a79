----------------------------- MODULE MCReplica -----------------------------
(***************************************************************************)
(* Replica for TLC: the upload of an infected file, a /ping, and the       *)
(* upload of a clean file or a call of /health, of a replica where         *)
(* settings and policy are as they should be or, for /health, missing.     *)
(***************************************************************************)
EXTENDS Replica

CONSTANTS c1, c2, c3

MCInit ==
    /\ ReplicaInit
    /\ kind[c1] = "upload" /\ infected[c1]
    /\ kind[c2] = "ping" /\ ~infected[c2]
    /\ kind[c3] # "ping" /\ ~infected[c3]
    /\ Parts \ Up \in {{}, {"settings", "authorisation"}}
    /\ kind[c3] = "upload" => Up = Parts

MCSpec == MCInit /\ [][ReplicaNext]_replicaVars /\ ReplicaFairness
=============================================================================
