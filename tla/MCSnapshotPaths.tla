-------------------------- MODULE MCSnapshotPaths --------------------------
(* The small instances of SnapshotPaths that TLC explores.                 *)
EXTENDS SnapshotPaths, TLC

Symm == Permutations(Replicas) \union Permutations(Tasks) \union Permutations(Machines)
=============================================================================
