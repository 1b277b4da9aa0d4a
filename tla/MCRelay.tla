------------------------------ MODULE MCRelay ------------------------------
(* Two bundles for one session, both emitted on r1: their dispatches compete
   for the lease, and the session's tasks run on either replica. *)
EXTENDS Relay
CONSTANTS r1, r2, s1, b1, b2
MCBundles == [b \in {b1, b2} |-> [from |-> r1, to |-> s1]]
MCScenes == {[homes |-> {r1}, tasks |-> 2, faults |-> 1],
             [homes |-> {r2}, tasks |-> 1, faults |-> 1],
             [homes |-> {r1, r2}, tasks |-> 2, faults |-> 0]}
============================================================================
