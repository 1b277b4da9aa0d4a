------------------------- MODULE MCStreamReplicas -------------------------
(* One event of the session task at the first replica, with a client at either. *)
EXTENDS SessionStream
CONSTANTS r1, r2, c1, c2
TwoReplicas ==
    {[script |-> <<[on |-> r1, how |-> "task", kind |-> "open"]>>, hosts |-> {r1, r2},
      sockets |-> {c1, c2}, leavers |-> {}, readers |-> {}, watchers |-> {}, kills |-> 0,
      filter |-> <<>>]}
===========================================================================
