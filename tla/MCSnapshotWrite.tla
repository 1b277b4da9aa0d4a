-------------------------- MODULE MCSnapshotWrite --------------------------
(* The small instance of SnapshotWrite that TLC explores.                  *)
EXTENDS SnapshotWrite, TLC

Symm == Permutations(Replicas) \union Permutations(Tasks)
=============================================================================
