--------------------------- MODULE SessionLedger ---------------------------
(***************************************************************************)
(* What the write path of a session promises, with no task, lock, hub or   *)
(* transaction in sight: an append-only log, durable snapshots each of     *)
(* which is the fold of a prefix of the log, the newest of which reflects  *)
(* the whole log, and per replica a view that is either empty or the fold  *)
(* of a prefix that ends in a committed event.                             *)
(***************************************************************************)
EXTENDS Integers

CONSTANTS Replicas, MaxSeq, None

VARIABLES log,    \* the seqs of the committed events
          rows,   \* durable snapshots
          view    \* what each replica serves

Prefix(l, n) ==
  [seq |-> n, state |-> [k \in 1..MaxSeq |-> IF k <= n /\ k \in l THEN 1 ELSE 0]]

Init == /\ log = {1}
        /\ rows = {Prefix({1}, 1)}
        /\ view = [r \in Replicas |-> None]

\* One event becomes durable together with the snapshot that includes it.
Append == \E n \in 1..MaxSeq :
            /\ \A k \in log : k < n
            /\ log' = log \union {n}
            /\ rows' = rows \union {Prefix(log', n)}
            /\ UNCHANGED view

\* Old snapshots may go; one that reflects the whole log stays.
Forget == /\ rows' \subseteq rows
          /\ \E x \in rows' : \A k \in log : k <= x.seq
          /\ UNCHANGED <<log, view>>

\* A replica may serve any committed prefix, or nothing.
Show(r) == /\ \E s \in {None} \union {Prefix(log, n) : n \in log} :
                view' = [view EXCEPT ![r] = s]
           /\ UNCHANGED <<log, rows>>

Next == Append \/ Forget \/ \E r \in Replicas : Show(r)

Spec == Init /\ [][Next]_<<log, rows, view>>
=============================================================================
