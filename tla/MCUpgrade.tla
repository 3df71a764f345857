----------------------------- MODULE MCUpgrade -----------------------------
(* The controller of ManagedClustersUpgrade with interchangeable clusters. *)
EXTENDS ManagedClustersUpgrade, TLC

\* Every constant treats the clusters alike; used for safety only.
AnyCluster == Permutations(Cluster)

=============================================================================
