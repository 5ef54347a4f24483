-------------------------------- MODULE MCMce -------------------------------
(* Small instances of the MCE clusters for TLC. *)
EXTENDS Mce, TLC

\* The clusters are alike.
ClusterSymmetry == Permutations(Clusters)

\* One cluster is made: a second request comes when the first has its
\* ManagedCluster, and meets the limit, which the cache of the last mceSync
\* counts, or is followed no further than its check.
OneIsMade ==
    \E n \in Clusters : \A m \in Clusters \ {n} :
       /\ managed[m] = "none"
       /\ create[m] = "none" \/ (create[m] = "ended" /\ managed[n] # "none")
=============================================================================
