------------------------- MODULE SnapshotWriteProofs -------------------------
(***************************************************************************)
(* For every number of replicas and tasks and every bound on the seqs, the *)
(* write path keeps both projections exact and implements SessionLedger;   *)
(* and with every other writer at work (SnapshotPaths) neither projection  *)
(* runs ahead of the log, nor the log of the snapshots.                    *)
(***************************************************************************)
EXTENDS SnapshotPaths, FiniteSetTheorems, TLAPS

-----------------------------------------------------------------------------
(* The inductive invariant.  RowsExact and LiveExact say nothing of what a *)
(* task carries from its read to its commit and from its commit to its     *)
(* store; the strengthening does.                                          *)

\* No row lies at or beyond the counter.
LogBelowCounter == \A n \in Seqs : rowKind[n] # "none" => n < nextSeq

\* s is the fold of a prefix of the log rk that ends in a committed event
\* below the counter ns.
PrefixOf(s, rk, ns) ==
  /\ s.seq \in Seqs /\ s.seq < ns /\ rk[s.seq] = "ws"
  /\ s.state = [k \in Seqs |-> IF k <= s.seq /\ rk[k] = "ws" THEN 1 ELSE 0]

Committed(s) == PrefixOf(s, rowKind, nextSeq)

RowsCommitted == \A x \in snaps : x.kind = "clean" /\ Committed(x)

LiveCommitted == \A r \in Replicas : live[r] # None => Committed(live[r])

\* A base may be old, never wrong.
BaseCommitted ==
  \A t \in Tasks : pc[t] \in {"loaded", "based"} => base[t] # None /\ Committed(base[t])

\* The open transaction holds the lock and the next seq; its snapshot is the
\* fold of the log with its own event added.
StampedFold ==
  \A t \in Tasks :
    /\ pc[t] = "stamped" <=> lock = t
    /\ pc[t] = "stamped" =>
         /\ seq[t] = nextSeq /\ nextSeq <= MaxSeq
         /\ next[t] = [k \in Seqs |-> IF k = nextSeq \/ rowKind[k] = "ws" THEN 1 ELSE 0]

\* After the commit the task's snapshot is the row it wrote.
StoredCommitted ==
  \A t \in Tasks : pc[t] = "committed" => Committed([seq |-> seq[t], state |-> next[t]])

\* Some row reflects the whole log.
Newest(x) == /\ \A y \in snaps : y.seq <= x.seq
             /\ \A n \in Seqs : rowKind[n] = "ws" => n <= x.seq

NewestKept == \E x \in snaps : Newest(x)

IInv ==
  /\ TypeOK
  /\ LogBelowCounter
  /\ RowsCommitted
  /\ LiveCommitted
  /\ BaseCommitted
  /\ StampedFold
  /\ StoredCommitted
  /\ NewestKept

-----------------------------------------------------------------------------
(* Lemmas.                                                                 *)

\* What is a committed prefix stays one when the log grows at or above the
\* counter and the counter does not go back.
LEMMA PrefixStable ==
  ASSUME NEW s, NEW rk, NEW rk2, NEW ns \in Nat, NEW ns2 \in Nat, ns <= ns2,
         \A k \in Seqs : k < ns => rk2[k] = rk[k],
         PrefixOf(s, rk, ns)
  PROVE  PrefixOf(s, rk2, ns2)
<1>1. s.seq \in Seqs /\ s.seq < ns
  BY DEF PrefixOf
<1>2. s.seq < ns2 /\ rk2[s.seq] = "ws"
  BY <1>1, SnapshotAssumption DEF PrefixOf, Seqs
<1>3. \A k \in Seqs : k <= s.seq => rk2[k] = rk[k]
  BY <1>1, SnapshotAssumption DEF Seqs
<1>4. s.state = [k \in Seqs |-> IF k <= s.seq /\ rk2[k] = "ws" THEN 1 ELSE 0]
  BY <1>3 DEF PrefixOf
<1> QED
  BY <1>1, <1>2, <1>4 DEF PrefixOf

\* Catching a committed base up to n, just above the log, and applying n is
\* the fold of the whole log with n added: nothing is missed, nothing twice.
LEMMA CatchUpExact ==
  ASSUME TypeOK, LogBelowCounter, nextSeq <= MaxSeq,
         NEW b \in Snapshot, Committed(b)
  PROVE  apply_event(catch_up_base(b, nextSeq), nextSeq)
           = [k \in Seqs |-> IF k = nextSeq \/ rowKind[k] = "ws" THEN 1 ELSE 0]
<1> DEFINE c == catch_up_base(b, nextSeq)
           f == [k \in Seqs |-> IF k = nextSeq \/ rowKind[k] = "ws" THEN 1 ELSE 0]
<1>1. nextSeq \in Seqs /\ b.seq \in Seqs /\ b.seq < nextSeq
  BY SnapshotAssumption DEF TypeOK, Seqs, Committed, PrefixOf
<1>2. \A k \in Seqs : b.state[k] = IF k <= b.seq /\ rowKind[k] = "ws" THEN 1 ELSE 0
  BY DEF Committed, PrefixOf
<1>3. \A k \in Seqs : k >= nextSeq => rowKind[k] # "ws"
  BY SnapshotAssumption DEF LogBelowCounter, TypeOK, Seqs
<1>4. \A k \in Seqs : c[k] = IF rowKind[k] = "ws" THEN 1 ELSE 0
  <2> TAKE k \in Seqs
  <2>1. c[k] = IF b.seq < k /\ k < nextSeq /\ rowKind[k] = "ws"
               THEN b.state[k] + 1 ELSE b.state[k]
    BY DEF catch_up_base
  <2>2. b.state[k] = IF k <= b.seq /\ rowKind[k] = "ws" THEN 1 ELSE 0
    BY <1>2
  <2>3. k \in Nat /\ b.seq \in Nat /\ nextSeq \in Nat
    BY <1>1, SnapshotAssumption DEF Seqs
  <2> QED
    BY <1>1, <1>3, <2>1, <2>2, <2>3
<1>5. c = [k \in Seqs |-> c[k]]
  BY DEF catch_up_base
<1>6. apply_event(c, nextSeq) = [k \in Seqs |-> IF k = nextSeq THEN c[k] + 1 ELSE c[k]]
  BY <1>1, <1>5 DEF apply_event
<1>7. \A k \in Seqs : (IF k = nextSeq THEN c[k] + 1 ELSE c[k])
                        = IF k = nextSeq \/ rowKind[k] = "ws" THEN 1 ELSE 0
  BY <1>1, <1>3, <1>4, SnapshotAssumption DEF Seqs, TypeOK
<1> QED
  BY <1>6, <1>7

\* When handlers return, the locals of the others are untouched.
LEMMA ReturnKeeps ==
  ASSUME TypeOK, NEW ts, ReturnAll(ts)
  PROVE  /\ pc' \in [Tasks -> {"idle", "cold", "loaded", "based", "stamped", "committed"}]
         /\ at' \in [Tasks -> Replicas \union {None}]
         /\ held' \in [Tasks -> BOOLEAN]
         /\ base' \in [Tasks -> Snapshot \union {None}]
         /\ seq' \in [Tasks -> 0..MaxSeq]
         /\ next' \in [Tasks -> States]
         /\ \A t \in ts \intersect Tasks : pc'[t] = "idle"
         /\ \A t \in Tasks \ ts : /\ pc'[t] = pc[t] /\ at'[t] = at[t]
                                /\ base'[t] = base[t] /\ seq'[t] = seq[t]
                                /\ next'[t] = next[t]
<1>1. held' \in [Tasks -> BOOLEAN]
  BY Zenon DEF ReturnAll
<1>2. Blank \in States
  BY DEF Blank, States
<1>3. 0 \in 0..MaxSeq
  BY SnapshotAssumption
<1>4. next' \in [Tasks -> States]
  BY <1>2 DEF TypeOK, ReturnAll
<1> QED
  BY <1>1, <1>3, <1>4 DEF TypeOK, ReturnAll

-----------------------------------------------------------------------------
(* The invariant is inductive.                                             *)

LEMMA InitInv == ASSUME Init PROVE IInv
<1> USE SnapshotAssumption DEF Init
<1>1. 1 \in Seqs /\ Blank \in States /\ [n \in Seqs |-> IF n = 1 THEN 1 ELSE 0] \in States
  BY DEF Seqs, States, Blank
<1>2. TypeOK
  BY <1>1 DEF TypeOK, Row, Seqs
<1>3. LogBelowCounter
  BY DEF LogBelowCounter, Seqs
<1>4. RowsCommitted
  <2>1. [n \in Seqs |-> IF n = 1 THEN 1 ELSE 0]
          = [k \in Seqs |-> IF k <= 1 /\ rowKind[k] = "ws" THEN 1 ELSE 0]
    BY DEF Seqs
  <2> QED
    BY <1>1, <2>1 DEF RowsCommitted, Committed, PrefixOf
<1>5. LiveCommitted /\ BaseCommitted /\ StoredCommitted
  BY DEF LiveCommitted, BaseCommitted, StoredCommitted
<1>6. StampedFold
  BY DEF StampedFold
<1>7. NewestKept
  BY <1>1 DEF NewestKept, Newest, Seqs
<1> QED
  BY <1>2, <1>3, <1>4, <1>5, <1>6, <1>7 DEF IInv

\* Steps that leave Postgres alone: hubs come and go, tasks read a base or
\* store a snapshot they hold.
LEMMA HubStep ==
  ASSUME IInv, NEW r \in Replicas, get_or_create_hub(r) \/ DropHub(r)
  PROVE  IInv'
<1>1. TypeOK'
  BY DEF IInv, TypeOK, get_or_create_hub, DropHub, dbVars, taskVars
<1>2. LiveCommitted'
  BY DEF IInv, TypeOK, LiveCommitted, Committed, get_or_create_hub, DropHub, dbVars
<1>3. LogBelowCounter' /\ RowsCommitted' /\ BaseCommitted' /\ StampedFold'
        /\ StoredCommitted' /\ NewestKept'
  BY DEF IInv, LogBelowCounter, RowsCommitted, BaseCommitted, StampedFold,
         StoredCommitted, NewestKept, Newest, Committed, get_or_create_hub,
         DropHub, dbVars, taskVars
<1> QED
  BY <1>1, <1>2, <1>3 DEF IInv

LEMMA ReadStep ==
  ASSUME IInv, NEW t \in Tasks, NEW r \in Replicas,
         WarmHit(t, r) \/ WarmMiss(t, r) \/ EmitNoHub(t, r)
  PROVE  IInv'
<1>1. PICK b \in Snapshot \union {None}, h \in BOOLEAN, step \in {"cold", "based"} :
        /\ step = "based" => b # None /\ Committed(b)
        /\ Start(t, r, h, b, step)
  <2>1. CASE WarmHit(t, r)
    BY <2>1 DEF IInv, TypeOK, LiveCommitted, WarmHit
  <2>2. CASE WarmMiss(t, r) \/ EmitNoHub(t, r)
    BY <2>2 DEF WarmMiss, EmitNoHub
  <2> QED
    BY <2>1, <2>2
<1>2. TypeOK'
  BY <1>1 DEF IInv, TypeOK, Start, dbVars, hubVars
<1>3. BaseCommitted'
  BY <1>1 DEF IInv, TypeOK, BaseCommitted, Committed, Start, dbVars
<1>4. StampedFold' /\ StoredCommitted'
  BY <1>1 DEF IInv, TypeOK, StampedFold, StoredCommitted, Committed, Start, dbVars
<1>5. LogBelowCounter' /\ RowsCommitted' /\ LiveCommitted' /\ NewestKept'
  BY <1>1 DEF IInv, LogBelowCounter, RowsCommitted, LiveCommitted, NewestKept,
              Newest, Committed, Start, dbVars, hubVars
<1> QED
  BY <1>2, <1>3, <1>4, <1>5 DEF IInv

LEMMA LoadStep ==
  ASSUME IInv, NEW t \in Tasks, load_snapshot_from_db(t)
  PROVE  IInv'
<1> USE DEF dbVars, hubVars
<1>1. PICK x \in snaps : base' = [base EXCEPT ![t] = [seq |-> x.seq, state |-> x.state]]
  BY DEF load_snapshot_from_db, get_latest
<1> DEFINE b == [seq |-> x.seq, state |-> x.state]
<1>2. b \in Snapshot /\ b # None
  BY SnapshotAssumption DEF IInv, TypeOK, Row, Snapshot
<1>3. Committed(b)
  BY DEF IInv, RowsCommitted, Committed, PrefixOf
<1>4. TypeOK'
  BY <1>1, <1>2 DEF IInv, TypeOK, load_snapshot_from_db
<1>5. BaseCommitted'
  BY <1>1, <1>2, <1>3 DEF IInv, TypeOK, BaseCommitted, Committed, load_snapshot_from_db
<1>6. StampedFold' /\ StoredCommitted'
  BY DEF IInv, TypeOK, StampedFold, StoredCommitted, Committed, load_snapshot_from_db
<1>7. LogBelowCounter' /\ RowsCommitted' /\ LiveCommitted' /\ NewestKept'
  BY DEF IInv, LogBelowCounter, RowsCommitted, LiveCommitted, NewestKept,
         Newest, Committed, load_snapshot_from_db
<1> QED
  BY <1>4, <1>5, <1>6, <1>7 DEF IInv

LEMMA StoreStep ==
  ASSUME IInv, NEW t \in Tasks, StoreLoaded(t) \/ store_and_broadcast(t)
  PROVE  IInv'
<1> USE DEF dbVars
<1>1. PICK s \in Snapshot :
        /\ Committed(s)
        /\ \/ live' = live
           \/ live' = [live EXCEPT ![at[t]] = s]
           \/ live' = [live EXCEPT ![at[t]] = rcu(@, s)]
  <2>1. CASE StoreLoaded(t)
    BY <2>1 DEF IInv, TypeOK, BaseCommitted, StoreLoaded
  <2>2. CASE store_and_broadcast(t)
    <3> DEFINE s == [seq |-> seq[t], state |-> next[t]]
    <3>1. s \in Snapshot /\ Committed(s)
      BY <2>2 DEF IInv, TypeOK, Snapshot, StoredCommitted, store_and_broadcast
    <3> QED
      BY <2>2, <3>1 DEF store_and_broadcast
  <2> QED
    BY <2>1, <2>2
<1>2. at[t] \in Replicas /\ live \in [Replicas -> Snapshot \union {None}]
  BY DEF IInv, TypeOK, StoreLoaded, store_and_broadcast
<1>3. live' \in [Replicas -> Snapshot \union {None}]
  BY <1>1, <1>2 DEF rcu
<1>4. \A r \in Replicas : live'[r] # None => Committed(live'[r])
  BY <1>1, <1>2 DEF IInv, LiveCommitted, rcu
<1>5. rowKind' = rowKind /\ nextSeq' = nextSeq
  BY DEF StoreLoaded, store_and_broadcast
<1>6. LiveCommitted'
  BY <1>4, <1>5 DEF LiveCommitted, Committed
<1>7. TypeOK'
  <2>1. CASE StoreLoaded(t)
    BY <1>3, <2>1 DEF IInv, TypeOK, StoreLoaded
  <2>2. CASE store_and_broadcast(t)
    BY <1>3, <2>2, ReturnKeeps DEF IInv, TypeOK, store_and_broadcast, Return
  <2> QED
    BY <2>1, <2>2
<1>8. BaseCommitted' /\ StampedFold' /\ StoredCommitted'
  <2> USE DEF IInv, TypeOK, BaseCommitted, StampedFold, StoredCommitted, Committed
  <2>1. CASE StoreLoaded(t)
    BY <2>1 DEF StoreLoaded
  <2>2. CASE store_and_broadcast(t)
    BY <2>2, ReturnKeeps DEF store_and_broadcast, Return
  <2> QED
    BY <2>1, <2>2
<1>9. LogBelowCounter' /\ RowsCommitted' /\ NewestKept'
  BY DEF IInv, LogBelowCounter, RowsCommitted, NewestKept, Newest, Committed,
         StoreLoaded, store_and_broadcast
<1> QED
  BY <1>6, <1>7, <1>8, <1>9 DEF IInv

LEMMA StampStep ==
  ASSUME IInv, NEW t \in Tasks, stamp_append_snapshot(t)
  PROVE  IInv'
<1> DEFINE f == [k \in Seqs |-> IF k = nextSeq \/ rowKind[k] = "ws" THEN 1 ELSE 0]
<1>1. base[t] \in Snapshot /\ base[t] # None /\ Committed(base[t])
  BY DEF IInv, TypeOK, BaseCommitted, stamp_append_snapshot
<1>2. apply_event(catch_up_base(base[t], nextSeq), nextSeq) = f
  BY <1>1, CatchUpExact DEF IInv, stamp_append_snapshot
<1>3. next' = [next EXCEPT ![t] = f]
  BY <1>1, <1>2 DEF stamp_append_snapshot
<1>4. f \in States /\ nextSeq \in 0..MaxSeq
  BY SnapshotAssumption DEF States, IInv, TypeOK, stamp_append_snapshot
<1>5. TypeOK'
  BY <1>3, <1>4 DEF IInv, TypeOK, stamp_append_snapshot, hubVars
<1>6. StampedFold'
  BY <1>3, SnapshotAssumption DEF IInv, TypeOK, StampedFold, stamp_append_snapshot
<1>7. StoredCommitted' /\ BaseCommitted'
  BY <1>3 DEF IInv, TypeOK, StoredCommitted, BaseCommitted, Committed, stamp_append_snapshot
<1>8. LogBelowCounter' /\ RowsCommitted' /\ LiveCommitted' /\ NewestKept'
  BY DEF IInv, LogBelowCounter, RowsCommitted, LiveCommitted, NewestKept,
         Newest, Committed, stamp_append_snapshot, hubVars
<1> QED
  BY <1>5, <1>6, <1>7, <1>8 DEF IInv

LEMMA CommitStep ==
  ASSUME IInv, NEW t \in Tasks, Commit(t)
  PROVE  IInv'
<1> USE SnapshotAssumption
<1> DEFINE n == seq[t]
           new == [seq |-> n, state |-> next[t]]
<1>1. n = nextSeq /\ n \in Seqs /\ lock = t
  BY DEF IInv, TypeOK, StampedFold, Commit, Seqs
<1>2. nextSeq' = nextSeq + 1 /\ nextSeq \in Nat
  BY <1>1 DEF Commit, Seqs
<1>3. \A k \in Seqs : k < nextSeq => rowKind'[k] = rowKind[k]
  BY <1>1 DEF Commit, IInv, TypeOK
<1>4. rowKind'[n] = "ws" /\ \A k \in Seqs : k > n => rowKind'[k] = "none"
  BY <1>1 DEF Commit, IInv, TypeOK, LogBelowCounter, Seqs
<1>5. \A s : Committed(s) => PrefixOf(s, rowKind', nextSeq')
  BY <1>2, <1>3, PrefixStable DEF Committed
<1>6. PrefixOf(new, rowKind', nextSeq')
  <2>1. next[t] = [k \in Seqs |-> IF k = nextSeq \/ rowKind[k] = "ws" THEN 1 ELSE 0]
    BY DEF IInv, StampedFold, Commit
  <2>2. \A k \in Seqs : (k = nextSeq \/ rowKind[k] = "ws") <=> (k <= n /\ rowKind'[k] = "ws")
    BY <1>1, <1>3, <1>4 DEF IInv, TypeOK, LogBelowCounter, Seqs
  <2>3. next[t] = [k \in Seqs |-> IF k <= n /\ rowKind'[k] = "ws" THEN 1 ELSE 0]
    BY <2>1, <2>2
  <2> QED
    BY <1>1, <1>2, <1>4, <2>3 DEF PrefixOf
<1>7. TypeOK'
  BY <1>1, <1>2 DEF IInv, TypeOK, Commit, Row, Seqs, hubVars
<1>8. LogBelowCounter'
  BY <1>1, <1>2, <1>3, <1>4 DEF IInv, LogBelowCounter, Seqs, TypeOK
<1>9. RowsCommitted'
  <2> DEFINE x == [seq |-> n, state |-> next[t], kind |-> "clean"]
  <2>1. snaps' = snaps \union {x}
    BY DEF Commit
  <2>2. \A y \in snaps : y.kind = "clean" /\ PrefixOf(y, rowKind', nextSeq')
    BY <1>5 DEF IInv, RowsCommitted
  <2>3. x.kind = "clean" /\ x.seq = new.seq /\ x.state = new.state
    OBVIOUS
  <2>4. PrefixOf(x, rowKind', nextSeq')
    BY <1>6, <2>3 DEF PrefixOf
  <2> QED
    BY <2>1, <2>2, <2>3, <2>4 DEF RowsCommitted, Committed
<1>10. LiveCommitted'
  BY <1>5 DEF IInv, LiveCommitted, Committed, Commit, hubVars
<1>11. BaseCommitted' /\ StoredCommitted'
  <2>1. BaseCommitted'
    BY <1>5 DEF IInv, TypeOK, BaseCommitted, Committed, Commit
  <2>2. StoredCommitted'
    BY <1>5, <1>6 DEF IInv, TypeOK, StoredCommitted, Committed, Commit
  <2> QED BY <2>1, <2>2
<1>12. StampedFold'
  BY <1>1 DEF IInv, TypeOK, StampedFold, Commit
<1>13. NewestKept'
  <2> DEFINE x == [seq |-> n, state |-> next[t], kind |-> "clean"]
  <2>1. x \in snaps' /\ snaps' = snaps \union {x}
    BY DEF Commit
  <2>2. \A y \in snaps : y.seq < n /\ y.seq \in Nat
    <3>1. \A y \in snaps : y.seq \in Seqs /\ y.seq < nextSeq
      BY DEF IInv, RowsCommitted, Committed, PrefixOf
    <3> QED
      BY <1>1, <3>1 DEF Seqs
  <2>3. \A y \in snaps' : y.seq <= x.seq
    BY <1>1, <2>1, <2>2 DEF Seqs
  <2>4. \A k \in Seqs : rowKind'[k] = "ws" => k <= x.seq
    BY <1>1, <1>4 DEF Seqs
  <2> QED
    BY <2>1, <2>3, <2>4 DEF NewestKept, Newest
<1> QED
  BY <1>7, <1>8, <1>9, <1>10, <1>11, <1>12, <1>13 DEF IInv

LEMMA AbandonStep ==
  ASSUME IInv, NEW t \in Tasks, Abandon(t)
  PROVE  IInv'
<1>1. TypeOK'
  BY ReturnKeeps DEF IInv, TypeOK, Abandon, Return, hubVars
<1>2. StampedFold'
  BY SnapshotAssumption, ReturnKeeps DEF IInv, TypeOK, StampedFold, Abandon, Return
<1>3. BaseCommitted' /\ StoredCommitted'
  BY ReturnKeeps DEF IInv, TypeOK, BaseCommitted, StoredCommitted, Committed, Abandon, Return
<1>4. LogBelowCounter' /\ RowsCommitted' /\ LiveCommitted' /\ NewestKept'
  BY DEF IInv, LogBelowCounter, RowsCommitted, LiveCommitted, NewestKept,
         Newest, Committed, Abandon, hubVars
<1> QED
  BY <1>1, <1>2, <1>3, <1>4 DEF IInv

LEMMA CrashStep ==
  ASSUME IInv, NEW r \in Replicas, Crash(r)
  PROVE  IInv'
<1> DEFINE dead == {t \in Tasks : at[t] = r}
<1>1. /\ ReturnAll(dead)
      /\ live' = [live EXCEPT ![r] = None]
      /\ hubUp' = hubUp \ {r}
      /\ lock' = IF lock \in dead THEN NoTask ELSE lock
      /\ UNCHANGED <<nextSeq, rowKind, snaps>>
  BY DEF Crash
<1> HIDE DEF dead
<1>2. TypeOK'
  BY <1>1, ReturnKeeps DEF IInv, TypeOK
<1>3. StampedFold'
  <2>1. dead \subseteq Tasks
    BY DEF dead
  <2> QED
    BY <1>1, <2>1, SnapshotAssumption, ReturnKeeps DEF IInv, TypeOK, StampedFold
<1>4. BaseCommitted' /\ StoredCommitted' /\ LiveCommitted'
  BY <1>1, ReturnKeeps
  DEF IInv, TypeOK, BaseCommitted, StoredCommitted, LiveCommitted, Committed
<1>5. LogBelowCounter' /\ RowsCommitted' /\ NewestKept'
  BY <1>1 DEF IInv, LogBelowCounter, RowsCommitted, NewestKept, Newest, Committed
<1> QED
  BY <1>2, <1>3, <1>4, <1>5 DEF IInv

LEMMA AllocStep ==
  ASSUME IInv, alloc_seq
  PROVE  IInv'
<1> USE SnapshotAssumption DEF hubVars, taskVars
<1>1. nextSeq \in Nat /\ nextSeq' = nextSeq + 1 /\ rowKind' = rowKind /\ lock = NoTask
  BY DEF IInv, TypeOK, alloc_seq
<1>2. \A s : Committed(s) => PrefixOf(s, rowKind', nextSeq')
  BY <1>1, PrefixStable DEF Committed
<1>3. TypeOK'
  BY <1>1 DEF IInv, TypeOK, alloc_seq
<1>4. LogBelowCounter'
  BY <1>1 DEF IInv, LogBelowCounter, Seqs
<1>5. RowsCommitted' /\ LiveCommitted' /\ BaseCommitted' /\ StoredCommitted'
  <2>1. UNCHANGED <<snaps, live, pc, base, seq, next>>
    BY DEF alloc_seq
  <2> QED
    BY <1>2, <2>1 DEF IInv, RowsCommitted, LiveCommitted, BaseCommitted,
                      StoredCommitted, Committed
<1>6. StampedFold'
  BY <1>1 DEF IInv, StampedFold, alloc_seq
<1>7. NewestKept'
  BY DEF IInv, NewestKept, Newest, alloc_seq
<1> QED
  BY <1>3, <1>4, <1>5, <1>6, <1>7 DEF IInv

LEMMA CompactStep ==
  ASSUME IInv, compact_all
  PROVE  IInv'
<1> USE SnapshotAssumption DEF hubVars, taskVars
<1> DEFINE ranked == {x \in snaps : x.kind # "dirty"}
<1>1. PICK keep \in SUBSET ranked :
        /\ Cardinality(keep) = KeepN
        /\ \A x \in keep, y \in ranked \ keep : y.seq <= x.seq
        /\ snaps' = (snaps \ ranked) \union keep
  BY DEF compact_all
<1>2. UNCHANGED <<nextSeq, rowKind, lock, hubUp, live, pc, at, held, base, seq, next>>
  BY DEF compact_all
<1>3. snaps' \subseteq snaps /\ keep \subseteq snaps'
  BY <1>1
<1>4. NewestKept'
  <2>1. PICK x \in snaps : Newest(x)
    BY DEF IInv, NewestKept
  <2>2. x \in ranked
    BY <2>1 DEF IInv, RowsCommitted
  <2>3. keep # {}
    BY <1>1, FS_EmptySet
  <2>4. PICK y \in keep : x \in keep \/ x.seq <= y.seq
    BY <1>1, <2>2, <2>3
  <2>5. \A z \in snaps : z.seq \in Nat
    BY DEF IInv, TypeOK, Row
  <2>6. y \in snaps /\ (x \in keep \/ Newest(y))
    BY <1>1, <2>1, <2>4, <2>5 DEF Newest, Seqs
  <2> QED
    BY <1>2, <1>3, <2>1, <2>6 DEF NewestKept, Newest
<1>5. TypeOK'
  BY <1>2, <1>3 DEF IInv, TypeOK
<1>6. RowsCommitted'
  BY <1>2, <1>3 DEF IInv, RowsCommitted, Committed
<1>7. LogBelowCounter' /\ LiveCommitted' /\ BaseCommitted' /\ StampedFold' /\ StoredCommitted'
  BY <1>2 DEF IInv, LogBelowCounter, LiveCommitted, BaseCommitted, StampedFold,
              StoredCommitted, Committed
<1> QED
  BY <1>4, <1>5, <1>6, <1>7 DEF IInv

LEMMA StutterStep ==
  ASSUME IInv, UNCHANGED vars
  PROVE  IInv'
BY DEF IInv, TypeOK, LogBelowCounter, RowsCommitted, LiveCommitted, BaseCommitted,
       StampedFold, StoredCommitted, NewestKept, Newest, Committed, vars

LEMMA NextInv == ASSUME IInv, [Next]_vars PROVE IInv'
<1>1. CASE Environment
  BY <1>1, HubStep, CrashStep, AllocStep, CompactStep DEF Environment
<1>2. ASSUME NEW t \in Tasks, TaskStep(t) PROVE IInv'
  BY <1>2, ReadStep, LoadStep, StoreStep, StampStep, CommitStep, AbandonStep DEF TaskStep
<1>3. CASE UNCHANGED vars
  BY <1>3, StutterStep
<1> QED
  BY <1>1, <1>2, <1>3 DEF Next

-----------------------------------------------------------------------------
(* Theorems.                                                               *)

\* Every behaviour of the write path satisfies the inductive invariant.
THEOREM Invariance == Spec => []IInv
<1>1. Init => IInv
  BY InitInv
<1>2. IInv /\ [Next]_vars => IInv'
  BY NextInv
<1> QED
  BY <1>1, <1>2, PTL DEF Spec

\* The variables of the write path keep their types.
THEOREM TypeCorrect == Spec => []TypeOK
<1>1. IInv => TypeOK
  BY DEF IInv
<1> QED
  BY <1>1, Invariance, PTL

\* For any number of concurrent writers on any number of replicas, every row
\* of session_snapshots is the exact fold of the log: stamp_append_snapshot
\* loses no concurrent writer's event and applies none twice.
THEOREM RowsAlwaysExact == Spec => []RowsExact
<1>1. IInv => RowsExact
  BY DEF IInv, RowsCommitted, RowsExact, Committed, PrefixOf, Exact, FoldTo
<1> QED
  BY <1>1, Invariance, PTL

\* The seq and the state of every hub's LiveSnapshot always agree with what
\* Postgres has committed.
THEOREM LiveAlwaysExact == Spec => []LiveExact
<1>1. IInv => LiveExact
  BY DEF IInv, LiveCommitted, LiveExact, Committed, PrefixOf, Exact, FoldTo
<1> QED
  BY <1>1, Invariance, PTL

\* A cold load always finds a row, and the row it finds reflects every
\* committed event, whatever crashed and whatever was compacted before.
THEOREM ColdLoadCurrent == Spec => []LatestRowCurrent
<1>1. IInv => LatestRowCurrent
  <2> SUFFICES ASSUME IInv PROVE LatestRowCurrent
    OBVIOUS
  <2>1. PICK x \in snaps : Newest(x)
    BY DEF IInv, NewestKept
  <2>2. \A y \in snaps : y.seq \in Nat
    BY SnapshotAssumption DEF IInv, TypeOK, Row
  <2>3. \A y \in get_latest : y.seq = x.seq
    BY <2>1, <2>2 DEF get_latest, Newest
  <2> QED
    BY <2>1, <2>3 DEF LatestRowCurrent, Newest
<1> QED
  BY <1>1, Invariance, PTL

-----------------------------------------------------------------------------
(* Refinement.                                                             *)

absLog  == {n \in Seqs : rowKind[n] = "ws"}
absRows == {[seq |-> x.seq, state |-> x.state] : x \in snaps}

\* A committed snapshot is an abstract prefix.
LEMMA CommittedIsPrefix ==
  ASSUME NEW s \in Snapshot, Committed(s)
  PROVE  s.seq \in absLog /\ s = Ledger!Prefix(absLog, s.seq)
<1>1. s.seq \in absLog
  BY DEF Committed, PrefixOf, absLog
<1>2. s = [seq |-> s.seq, state |-> s.state]
  BY DEF Snapshot
<1>3. s.state = [k \in 1..MaxSeq |-> IF k <= s.seq /\ k \in absLog THEN 1 ELSE 0]
  BY DEF Committed, PrefixOf, absLog, Seqs
<1> QED
  BY <1>1, <1>2, <1>3 DEF Ledger!Prefix

\* A step that changes at most one hub, to a committed snapshot or to an
\* empty one, is an abstract Show.
LEMMA ShowStep ==
  ASSUME TypeOK, NEW r \in Replicas,
         UNCHANGED <<rowKind, snaps>>,
         live' \in [Replicas -> Snapshot \union {None}],
         \A q \in Replicas : q # r => live'[q] = live[q],
         live'[r] # None => Committed(live'[r])
  PROVE  Ledger!Show(r)
<1>1. live' = [live EXCEPT ![r] = live'[r]]
  BY DEF TypeOK
<1>2. live'[r] \in {None} \union {Ledger!Prefix(absLog, n) : n \in absLog}
  BY CommittedIsPrefix
<1>3. absLog' = absLog /\ absRows' = absRows
  BY DEF absLog, absRows
<1> QED
  BY <1>1, <1>2, <1>3 DEF Ledger!Show, absLog, absRows

\* The write path implements the ledger: the seq lock, the catch-up and the
\* order of commit and store make every step an abstract step or a stutter.
THEOREM ImplementsLedger == Spec => LedgerSpec
<1>1. Init => Ledger!Init
  <2> SUFFICES ASSUME Init PROVE Ledger!Init
    OBVIOUS
  <2>1. absLog = {1}
    BY SnapshotAssumption DEF Init, absLog, Seqs
  <2>2. [n \in Seqs |-> IF n = 1 THEN 1 ELSE 0]
          = [k \in 1..MaxSeq |-> IF k <= 1 /\ k \in {1} THEN 1 ELSE 0]
    BY DEF Seqs
  <2>3. absRows = {Ledger!Prefix({1}, 1)}
    <3> DEFINE F == [n \in Seqs |-> IF n = 1 THEN 1 ELSE 0]
               x == [seq |-> 1, state |-> F, kind |-> "clean"]
    <3>1. snaps = {x}
      BY DEF Init
    <3>2. [seq |-> 1, state |-> F] = Ledger!Prefix({1}, 1)
      BY <2>2 DEF Ledger!Prefix
    <3>3. x.seq = 1 /\ x.state = F
      OBVIOUS
    <3> HIDE DEF x, F
    <3>4. absRows = {[seq |-> x.seq, state |-> x.state]}
      BY <3>1 DEF absRows
    <3> QED
      BY <3>2, <3>3, <3>4
  <2> QED
    BY <2>1, <2>3 DEF Ledger!Init, Init, absLog, absRows
<1>2. IInv /\ IInv' /\ [Next]_vars => [Ledger!Next]_<<absLog, absRows, live>>
  <2> SUFFICES ASSUME IInv, IInv', [Next]_vars
               PROVE  Ledger!Next \/ UNCHANGED <<absLog, absRows, live>>
    OBVIOUS
  <2>1. TypeOK /\ TypeOK' /\ LiveCommitted'
    BY DEF IInv
  <2>2. ASSUME NEW r \in Replicas, get_or_create_hub(r) \/ DropHub(r) \/ Crash(r)
        PROVE  Ledger!Next
    <3>1. UNCHANGED <<rowKind, snaps>> /\ live' = [live EXCEPT ![r] = None]
      BY <2>2 DEF get_or_create_hub, DropHub, Crash, dbVars
    <3>2. /\ live' \in [Replicas -> Snapshot \union {None}]
          /\ \A q \in Replicas : q # r => live'[q] = live[q]
          /\ live'[r] = None
      BY <2>1, <3>1 DEF TypeOK
    <3> QED
      BY <2>1, <3>1, <3>2, ShowStep DEF Ledger!Next
  <2>3. ASSUME NEW t \in Tasks, StoreLoaded(t) \/ store_and_broadcast(t)
        PROVE  Ledger!Next
    <3>1. UNCHANGED <<rowKind, nextSeq, snaps>> /\ at[t] \in Replicas
      BY <2>1, <2>3 DEF StoreLoaded, store_and_broadcast, dbVars, TypeOK
    <3>2. \A q \in Replicas : q # at[t] => live'[q] = live[q]
      BY <2>1, <2>3 DEF StoreLoaded, store_and_broadcast, TypeOK
    <3>3. live'[at[t]] # None => Committed(live'[at[t]])
      BY <2>1, <3>1 DEF LiveCommitted, Committed
    <3>4. live' \in [Replicas -> Snapshot \union {None}]
      BY <2>1 DEF TypeOK
    <3> QED
      BY <2>1, <3>1, <3>2, <3>3, <3>4, ShowStep DEF Ledger!Next
  <2>4. ASSUME NEW t \in Tasks, Commit(t)
        PROVE  Ledger!Next
    <3> DEFINE n == seq[t]
               x == [seq |-> n, state |-> next[t]]
    <3>1. n = nextSeq /\ n \in Seqs
      BY <2>4, SnapshotAssumption DEF IInv, TypeOK, StampedFold, Commit, Seqs
    <3>2. \A k \in absLog : k < n
      BY <3>1, SnapshotAssumption DEF IInv, LogBelowCounter, absLog
    <3>3. absLog' = absLog \union {n}
      BY <2>1, <2>4, <3>1 DEF absLog, Commit, TypeOK
    <3>4. absRows' = absRows \union {x}
      <4> DEFINE y == [seq |-> n, state |-> next[t], kind |-> "clean"]
      <4>1. snaps' = snaps \union {y} /\ y.seq = n /\ y.state = next[t]
        BY <2>4 DEF Commit
      <4> HIDE DEF y
      <4>2. absRows' = absRows \union {[seq |-> y.seq, state |-> y.state]}
        BY <4>1 DEF absRows
      <4> QED
        BY <4>1, <4>2
    <3>5. x.state = [k \in 1..MaxSeq |-> IF k <= n /\ k \in absLog' THEN 1 ELSE 0]
      <4>1. pc'[t] = "committed" /\ seq' = seq /\ next' = next
        BY <2>1, <2>4 DEF Commit, TypeOK
      <4>2. PrefixOf(x, rowKind', nextSeq')
        BY <4>1 DEF IInv, StoredCommitted, Committed
      <4> QED
        BY <4>2 DEF PrefixOf, absLog, Seqs
    <3>6. x = Ledger!Prefix(absLog', n)
      BY <3>5 DEF Ledger!Prefix
    <3>7. live' = live
      BY <2>4 DEF Commit, hubVars
    <3>8. n \in 1..MaxSeq
      BY <3>1 DEF Seqs
    <3> QED
      BY <3>2, <3>3, <3>4, <3>6, <3>7, <3>8
      DEF Ledger!Next, Ledger!Append, absLog, absRows
  <2>5. ASSUME compact_all
        PROVE  Ledger!Next
    <3>1. UNCHANGED <<rowKind, live>> /\ snaps' \subseteq snaps
      BY <2>5 DEF compact_all, hubVars
    <3>2. absLog' = absLog /\ absRows' \subseteq absRows
      BY <3>1 DEF absLog, absRows
    <3>3. PICK x \in snaps' : Newest(x)'
      BY DEF IInv, NewestKept
    <3>4. [seq |-> x.seq, state |-> x.state] \in absRows'
      BY <3>3 DEF absRows
    <3>5. \A k \in absLog : k <= x.seq
      BY <3>1, <3>3 DEF absLog, Newest
    <3>6. \E y \in absRows' : \A k \in absLog : k <= y.seq
      BY <3>4, <3>5
    <3> QED
      BY <3>1, <3>2, <3>6 DEF Ledger!Next, Ledger!Forget, absLog, absRows
  <2>6. ASSUME NEW t \in Tasks, NEW r \in Replicas,
               WarmHit(t, r) \/ WarmMiss(t, r) \/ EmitNoHub(t, r)
        PROVE  UNCHANGED <<absLog, absRows, live>>
    BY <2>6 DEF WarmHit, WarmMiss, EmitNoHub, Start, absLog, absRows, dbVars, hubVars
  <2>7. ASSUME NEW t \in Tasks,
               load_snapshot_from_db(t) \/ stamp_append_snapshot(t) \/ Abandon(t)
        PROVE  UNCHANGED <<absLog, absRows, live>>
    BY <2>7 DEF load_snapshot_from_db, stamp_append_snapshot, Abandon, absLog, absRows,
                dbVars, hubVars
  <2>8. CASE alloc_seq \/ UNCHANGED vars
    BY <2>8 DEF alloc_seq, vars, absLog, absRows, hubVars
  <2> QED
    BY <2>2, <2>3, <2>4, <2>5, <2>6, <2>7, <2>8 DEF Next, Environment, TaskStep
<1> QED
  BY <1>1, <1>2, Invariance, PTL DEF Spec, LedgerSpec, Ledger!Spec, absLog, absRows

-----------------------------------------------------------------------------
(* The other writers: the inductive invariant.  Whatever is on its way to  *)
(* a projection shows committed events only.                               *)

Steps == {"idle", "cold", "loaded", "based", "stamped", "committed",
          "presence", "building", "revoking", "marked", "advanced"}
Task  == [on : Replicas \union {None}, cur : BOOLEAN, hub : States \union {None},
          pc : {"idle", "persisted"}, mem : States, mail : SUBSET Seqs, seq : 0..MaxSeq]
Spool == [on : Replicas, seq : 0..MaxSeq, state : States]
Note  == [to : Replicas, seq : Seqs]

Shows(s, rk)      == \A k \in Seqs : s[k] > 0 => rk[k] = "ws"
Behind(s, rk, ns) == s.seq < ns /\ Shows(s.state, rk)

LogInv ==
  /\ nextSeq \in 1..(MaxSeq + 1) /\ rowKind \in [Seqs -> {"none", "ws", "machine"}]
  /\ \A n \in Seqs : rowKind[n] # "none" => n < nextSeq

\* A seed row covers nothing.
RowInv ==
  /\ snaps \subseteq Row
  /\ \A x \in snaps : Behind(x, rowKind, nextSeq) /\ (x.kind = "seed" => x.seq = 0)
  /\ LogCovered

LiveInv ==
  /\ live \in [Replicas -> Snapshot \union {None}]
  /\ \A r \in Replicas : live[r] # None => Behind(live[r], rowKind, nextSeq)

TasksTyped ==
  /\ lock \in Tasks \union {NoTask}
  /\ pc \in [Tasks -> Steps] /\ at \in [Tasks -> Replicas \union {None}]
  /\ base \in [Tasks -> Snapshot \union {None}] /\ seq \in [Tasks -> 0..MaxSeq]
  /\ next \in [Tasks -> States] /\ job \in [Tasks -> {"write", "deliver"}]

\* What a handler or a listener carries from one await to the next.
Carries(t) ==
  /\ pc[t] # "idle" => at[t] \in Replicas
  /\ base[t] # None => Behind(base[t], rowKind, nextSeq)
  /\ pc[t] \in {"loaded", "building"} => base[t] # None
  /\ pc[t] = "stamped" <=> lock = t
  /\ pc[t] = "stamped" => /\ seq[t] = nextSeq /\ nextSeq <= MaxSeq
                          /\ \A k \in Seqs : next[t][k] > 0 => rowKind[k] = "ws" \/ k = nextSeq
  /\ pc[t] = "committed" => seq[t] \in Seqs /\ rowKind[seq[t]] = "ws" /\ Shows(next[t], rowKind)
  /\ job[t] = "deliver" => /\ pc[t] \in {"cold", "loaded", "building", "based", "committed"}
                           /\ seq[t] \in Seqs /\ rowKind[seq[t]] = "ws"
                           /\ pc[t] = "based" => base[t] # None
  /\ pc[t] = "revoking" => seq[t] < nextSeq

TaskInv == TasksTyped /\ \A t \in Tasks : Carries(t)

\* A session task has folded, and has in its mailbox, committed events only.
Remembers(m) ==
  /\ Shows(mach[m].mem, rowKind)
  /\ mach[m].hub # None => Shows(mach[m].hub, rowKind)
  /\ \A n \in mach[m].mail : rowKind[n] = "ws"
  /\ mach[m].pc = "persisted" => mach[m].on \in Replicas /\ mach[m].seq < nextSeq

MachInv == mach \in [Machines -> Task] /\ \A m \in Machines : Remembers(m)

PostInv ==
  /\ spool \subseteq Spool /\ \A x \in spool : Behind(x, rowKind, nextSeq)
  /\ notes \subseteq Note /\ \A x \in notes : rowKind[x.seq] = "ws"

PathInv == LogInv /\ RowInv /\ LiveInv /\ TaskInv /\ MachInv /\ PostInv

-----------------------------------------------------------------------------
(* The other writers: what the steps have in common.                       *)

\* The counter and the log do not go back.
Grows == /\ nextSeq' \in Nat /\ nextSeq <= nextSeq'
         /\ \A k \in Seqs : rowKind[k] = "ws" => rowKind'[k] = "ws"

LEMMA SeqsNat == MaxSeq \in Nat /\ Seqs \subseteq Nat /\ Blank \in States /\ \A k \in Seqs : Blank[k] = 0
BY SnapshotAssumption DEF Seqs, Blank, States

LEMMA Still ==
  ASSUME LogInv, UNCHANGED <<nextSeq, rowKind>>
  PROVE  Grows /\ LogInv'
BY SnapshotAssumption DEF LogInv, Grows

LEMMA ShowsKept ==
  ASSUME Grows
  PROVE  \A s : Shows(s, rowKind) => Shows(s, rowKind')
BY DEF Grows, Shows

LEMMA BehindKept ==
  ASSUME LogInv, Grows, NEW s, s.seq \in Nat, Behind(s, rowKind, nextSeq)
  PROVE  Behind(s, rowKind', nextSeq')
<1>1. s.seq < nextSeq'
  BY SnapshotAssumption DEF Behind, Grows, LogInv
<1>2. QED
  BY <1>1, ShowsKept DEF Behind

LEMMA RowsKept ==
  ASSUME LogInv, RowInv, Grows, UNCHANGED snaps, \A n \in Seqs : rowKind'[n] = "ws" => rowKind[n] = "ws"
  PROVE  RowInv'
<1>1. \A x \in snaps : x.seq \in Nat
  BY SeqsNat DEF RowInv, Row
<1>2. \A x \in snaps : Behind(x, rowKind', nextSeq')
  BY <1>1, BehindKept DEF RowInv
<1>3. QED
  BY <1>2 DEF RowInv, LogCovered

LEMMA LiveKept ==
  ASSUME LogInv, LiveInv, Grows, live' \in [Replicas -> Snapshot \union {None}],
         \A r \in Replicas : \/ live'[r] \in {live[r], None}
                             \/ Behind(live'[r], rowKind', nextSeq')
  PROVE  LiveInv'
<1>1. ASSUME NEW r \in Replicas, live[r] # None PROVE Behind(live[r], rowKind', nextSeq')
  <2>1. live[r].seq \in Nat
    BY <1>1, SeqsNat DEF LiveInv, Snapshot
  <2>2. QED
    BY <1>1, <2>1, BehindKept DEF LiveInv
<1>2. QED
  BY <1>1 DEF LiveInv

Same(t) == /\ pc'[t] = pc[t] /\ at'[t] = at[t] /\ base'[t] = base[t] /\ seq'[t] = seq[t]
           /\ next'[t] = next[t] /\ job'[t] = job[t] /\ (lock' = t <=> lock = t)

LEMMA CarriesKept ==
  ASSUME LogInv, TaskInv, Grows, NEW t \in Tasks, Same(t), pc[t] = "stamped" => UNCHANGED <<nextSeq, rowKind>>
  PROVE  Carries(t)'
<1>1. Carries(t) /\ seq[t] \in Nat
  BY SeqsNat DEF TaskInv, TasksTyped
<1>2. base[t] # None => Behind(base[t], rowKind', nextSeq')
  <2>1. base[t] # None => base[t].seq \in Nat
    BY SeqsNat DEF TaskInv, TasksTyped, Snapshot
  <2>2. QED
    BY <1>1, <2>1, BehindKept DEF Carries
<1>3. Shows(next[t], rowKind) => Shows(next[t], rowKind')
  BY ShowsKept
<1>4. pc[t] = "revoking" => seq[t] < nextSeq'
  BY <1>1, SnapshotAssumption DEF Carries, Grows, LogInv
<1>5. pc[t] = "stamped" => Carries(t)'
  BY <1>1, <1>2, <1>3, <1>4 DEF Same, Carries
<1>6. pc[t] # "stamped" => Carries(t)'
  BY <1>1, <1>2, <1>3, <1>4 DEF Same, Carries, Grows
<1>7. QED
  BY <1>5, <1>6

LEMMA RemembersKept ==
  ASSUME LogInv, MachInv, Grows, NEW m \in Machines, mach'[m] = mach[m]
  PROVE  Remembers(m)'
<1>1. Remembers(m) /\ mach[m].seq \in Nat /\ mach[m].mail \subseteq Seqs
  BY SeqsNat DEF MachInv, Task
<1>2. mach[m].pc = "persisted" => mach[m].seq < nextSeq'
  BY <1>1, SnapshotAssumption DEF Remembers, Grows, LogInv
<1>3. QED
  BY <1>1, <1>2, ShowsKept DEF Remembers, Grows

LEMMA MachKept ==
  ASSUME LogInv, MachInv, Grows, UNCHANGED mach
  PROVE  MachInv'
BY RemembersKept DEF MachInv

LEMMA PostKept ==
  ASSUME LogInv, PostInv, Grows, spool' \subseteq spool, notes' \subseteq notes
  PROVE  PostInv'
<1>1. \A x \in spool : x.seq \in Nat
  BY SeqsNat DEF PostInv, Spool
<1>2. \A x \in spool : Behind(x, rowKind', nextSeq')
  BY <1>1, BehindKept DEF PostInv
<1>3. \A x \in notes : rowKind'[x.seq] = "ws"
  BY DEF PostInv, Note, Grows
<1>4. QED
  BY <1>2, <1>3 DEF PostInv

\* The others keep what they carry.
LEMMA OthersKept ==
  ASSUME LogInv, TaskInv, Grows, NEW ts \in SUBSET Tasks, TasksTyped',
         \A u \in Tasks \ ts : Same(u) /\ (pc[u] = "stamped" => UNCHANGED <<nextSeq, rowKind>>),
         \A u \in ts : Carries(u)'
  PROVE  TaskInv'
BY CarriesKept DEF TaskInv

\* A step of one task that only changes what it carries.
LEMMA TaskOnly ==
  ASSUME PathInv, NEW t \in Tasks, TasksTyped', Carries(t)', \A u \in Tasks \ {t} : Same(u),
         UNCHANGED <<nextSeq, rowKind, snaps, live, mach, spool>>, notes' \subseteq notes
  PROVE  PathInv'
<1>1. Grows /\ LogInv'
  BY Still DEF PathInv
<1>2. RowInv' /\ LiveInv' /\ MachInv' /\ PostInv'
  <2>1. RowInv'
    BY <1>1, RowsKept DEF PathInv
  <2>2. LiveInv'
    BY <1>1, LiveKept DEF PathInv, LiveInv
  <2>3. QED
    BY <1>1, <2>1, <2>2, MachKept, PostKept DEF PathInv
<1>3. TaskInv'
  <2>1. \A u \in Tasks \ {t} : Same(u) /\ (pc[u] = "stamped" => UNCHANGED <<nextSeq, rowKind>>)
    OBVIOUS
  <2>2. {t} \in SUBSET Tasks /\ \A u \in {t} : Carries(u)'
    OBVIOUS
  <2>3. LogInv /\ TaskInv
    BY DEF PathInv
  <2>4. QED
    BY <1>1, <2>1, <2>2, <2>3, OthersKept
<1>4. QED
  BY <1>1, <1>2, <1>3 DEF PathInv
-----------------------------------------------------------------------------
(* The steps of handlers and listeners.                                    *)

LEMMA Kind ==
  ASSUME TaskInv, NEW t \in Tasks
  PROVE  /\ pc[t] \in Steps /\ at[t] \in Replicas \union {None} /\ base[t] \in Snapshot \union {None}
         /\ seq[t] \in 0..MaxSeq /\ next[t] \in States /\ job[t] \in {"write", "deliver"}
         /\ Carries(t)
BY DEF TaskInv, TasksTyped

LEMMA StartStep ==
  ASSUME PathInv, NEW t \in Tasks, NEW r \in Replicas, NEW h, NEW b \in Snapshot \union {None},
         b # None => Behind(b, rowKind, nextSeq),
         NEW step \in {"based", "cold", "presence"}, Start(t, r, h, b, step),
         UNCHANGED <<mach, spool, notes, job>>
  PROVE  PathInv'
<1>1. /\ pc[t] = "idle" /\ pc' = [pc EXCEPT ![t] = step] /\ at' = [at EXCEPT ![t] = r]
      /\ base' = [base EXCEPT ![t] = b] /\ UNCHANGED <<nextSeq, rowKind, snaps, lock, live, seq, next>>
  BY DEF Start, dbVars, hubVars
<1>2. Carries(t) /\ TasksTyped
  BY DEF PathInv, TaskInv
<1>3. TasksTyped' /\ \A u \in Tasks \ {t} : Same(u)
  BY <1>1, <1>2 DEF TasksTyped, Steps, Same
<1>4. Carries(t)'
  BY <1>1, <1>2 DEF Carries, TasksTyped
<1>5. QED
  BY <1>1, <1>3, <1>4, TaskOnly

LEMMA HandleStep ==
  ASSUME PathInv, NEW t \in Tasks, NEW r \in Replicas,
         Handle(t, r) \/ emit_to_session(t, r) \/ PresenceLoad(t, r) \/ EmitColdHub(t, r)
  PROVE  PathInv'
<1>1. UNCHANGED <<mach, spool, notes, job>>
  BY DEF Handle, emit_to_session, PresenceLoad, EmitColdHub, extraVars
<1>2. live[r] \in Snapshot \union {None} /\ (live[r] # None => Behind(live[r], rowKind, nextSeq))
  BY DEF PathInv, LiveInv
<1>3. CASE WarmHit(t, r)
  BY <1>1, <1>2, <1>3, StartStep DEF WarmHit
<1>4. CASE WarmMiss(t, r)
  BY <1>1, <1>4, StartStep DEF WarmMiss
<1>5. CASE EmitNoHub(t, r)
  BY <1>1, <1>5, StartStep DEF EmitNoHub
<1>6. CASE PresenceLoad(t, r)
  BY <1>1, <1>2, <1>6, StartStep DEF PresenceLoad
<1>7. CASE EmitColdHub(t, r)
  BY <1>1, <1>7, StartStep DEF EmitColdHub
<1>8. QED
  BY <1>3, <1>4, <1>5, <1>6, <1>7 DEF Handle, emit_to_session

\* A read of a row, of the tables or of the counter, or a load that fails.
LEMMA LoadingStep ==
  ASSUME PathInv, NEW t \in Tasks,
         \/ load_snapshot_from_db(t) /\ UNCHANGED extraVars
         \/ LoadFails(t) \/ BuildStart(t) \/ BuildRead(t)
  PROVE  PathInv'
<1>1. Carries(t) /\ TasksTyped /\ base[t] \in Snapshot \union {None} /\ pc[t] \in {"cold", "building"}
  BY Kind DEF PathInv, TaskInv, load_snapshot_from_db, LoadFails, BuildStart, BuildRead
<1>2. \E b \in Snapshot \union {None}, step \in {"loaded", "based", "building"} :
        /\ base' = [base EXCEPT ![t] = b] /\ pc' = [pc EXCEPT ![t] = step]
        /\ b # None => Behind(b, rowKind, nextSeq)
        /\ b = None => step = "based" /\ job[t] = "write"
  <2>1. CASE load_snapshot_from_db(t)
    <3>1. PICK x \in snaps : base' = [base EXCEPT ![t] = [seq |-> x.seq, state |-> x.state]]
      BY <2>1 DEF load_snapshot_from_db, get_latest
    <3>2. x \in Row /\ Behind(x, rowKind, nextSeq)
      BY DEF PathInv, RowInv
    <3>3. [seq |-> x.seq, state |-> x.state] \in Snapshot /\ Behind([seq |-> x.seq, state |-> x.state], rowKind, nextSeq)
      BY <3>2 DEF Row, Snapshot, Behind
    <3>4. QED
      BY <2>1, <3>1, <3>3, SnapshotAssumption DEF load_snapshot_from_db
  <2>2. CASE LoadFails(t)
    <3>1. base' = [base EXCEPT ![t] = base[t]] /\ pc' = [pc EXCEPT ![t] = "based"] /\ job[t] = "write"
      BY <1>1, <2>2 DEF LoadFails, TasksTyped
    <3>2. QED
      BY <1>1, <3>1 DEF Carries
  <2>3. CASE BuildStart(t)
    <3>1. [seq |-> 0, state |-> Blank] \in Snapshot /\ Behind([seq |-> 0, state |-> Blank], rowKind, nextSeq)
      BY SeqsNat DEF Snapshot, Behind, Shows, PathInv, LogInv
    <3>2. QED
      BY <2>3, <3>1, SnapshotAssumption DEF BuildStart
  <2>4. CASE BuildRead(t)
    <3>1. base[t] \in Snapshot /\ Behind(base[t], rowKind, nextSeq) /\ pc[t] = "building"
      BY <1>1, <2>4 DEF Carries, BuildRead
    <3>2. pc' = [pc EXCEPT ![t] = "building"]
      BY <1>1, <2>4, <3>1 DEF BuildRead, TasksTyped
    <3>3. FoldTo(MaxSeq) \in States /\ Shows(FoldTo(MaxSeq), rowKind)
      BY DEF FoldTo, States, Shows
    <3>4. nextSeq - 1 \in 0..MaxSeq /\ nextSeq - 1 < nextSeq
      BY SeqsNat DEF PathInv, LogInv
    <3>5. \/ base' = [base EXCEPT ![t] = [base[t] EXCEPT !.state = FoldTo(MaxSeq)]]
          \/ base' = [base EXCEPT ![t] = [base[t] EXCEPT !.seq = nextSeq - 1]]
      BY <2>4 DEF BuildRead
    <3>6. /\ [base[t] EXCEPT !.state = FoldTo(MaxSeq)] \in Snapshot
          /\ [base[t] EXCEPT !.seq = nextSeq - 1] \in Snapshot
          /\ Behind([base[t] EXCEPT !.state = FoldTo(MaxSeq)], rowKind, nextSeq)
          /\ Behind([base[t] EXCEPT !.seq = nextSeq - 1], rowKind, nextSeq)
      BY <3>1, <3>3, <3>4 DEF Snapshot, Behind
    <3>7. QED
      BY <3>2, <3>5, <3>6, SnapshotAssumption
  <2>5. QED
    BY <2>1, <2>2, <2>3, <2>4
<1>3. UNCHANGED <<nextSeq, rowKind, snaps, lock, live, at, seq, next, mach, spool, notes, job>>
  BY DEF load_snapshot_from_db, LoadFails, BuildStart, BuildRead, dbVars, hubVars, extraVars
<1>4. TasksTyped' /\ \A u \in Tasks \ {t} : Same(u)
  BY <1>1, <1>2, <1>3 DEF TasksTyped, Steps, Same
<1>5. Carries(t)'
  BY <1>1, <1>2, <1>3 DEF Carries, TasksTyped
<1>6. QED
  BY <1>3, <1>4, <1>5, TaskOnly
\* The notifier picks a notification up and applies its event; a handler sends one.
LEMMA DeliverStep ==
  ASSUME PathInv, NEW t \in Tasks, NEW r \in Replicas, Deliver(t, r)
  PROVE  PathInv'
<1>1. PICK m \in notes : notes' = notes \ {m} /\ seq' = [seq EXCEPT ![t] = m.seq]
  BY DEF Deliver
<1>2. m.seq \in Seqs /\ rowKind[m.seq] = "ws" /\ m.seq \in 0..MaxSeq
  BY SeqsNat DEF PathInv, PostInv, Note, Seqs
<1>3. /\ pc[t] = "idle" /\ pc' = [pc EXCEPT ![t] = IF live[r] = None THEN "cold" ELSE "based"]
      /\ base' = [base EXCEPT ![t] = live[r]] /\ at' = [at EXCEPT ![t] = r] /\ job' = [job EXCEPT ![t] = "deliver"]
      /\ UNCHANGED <<nextSeq, rowKind, snaps, lock, live, next, mach, spool>>
  BY DEF Deliver, dbVars, hubVars
<1>4. live[r] \in Snapshot \union {None} /\ (live[r] # None => Behind(live[r], rowKind, nextSeq))
  BY DEF PathInv, LiveInv
<1>5. Carries(t) /\ TasksTyped
  BY DEF PathInv, TaskInv
<1>6. TasksTyped' /\ \A u \in Tasks \ {t} : Same(u)
  BY <1>1, <1>2, <1>3, <1>4, <1>5 DEF TasksTyped, Steps, Same
<1>7. Carries(t)'
  BY <1>1, <1>2, <1>3, <1>4, <1>5 DEF Carries, TasksTyped
<1>8. QED
  BY <1>1, <1>3, <1>6, <1>7, TaskOnly

LEMMA ApplyStep ==
  ASSUME PathInv, NEW t \in Tasks, DeliverApply(t)
  PROVE  PathInv'
<1> DEFINE s == base[t].state
           n == seq[t]
<1>1. /\ job[t] = "deliver" /\ pc[t] = "based" /\ next' = [next EXCEPT ![t] = apply_event(s, n)]
      /\ pc' = [pc EXCEPT ![t] = "committed"]
      /\ UNCHANGED <<nextSeq, rowKind, snaps, lock, live, at, base, seq, mach, spool, notes, job>>
  BY DEF DeliverApply, dbVars, hubVars, extraVars
<1>2. Carries(t) /\ TasksTyped
  BY DEF PathInv, TaskInv
<1>3. s \in States /\ Shows(s, rowKind) /\ n \in Seqs /\ rowKind[n] = "ws"
  BY <1>1, <1>2 DEF Carries, TasksTyped, Snapshot, Behind
<1>4. apply_event(s, n) \in States /\ Shows(apply_event(s, n), rowKind)
  BY <1>3 DEF apply_event, States, Shows
<1>5. TasksTyped' /\ \A u \in Tasks \ {t} : Same(u)
  BY <1>1, <1>2, <1>4 DEF TasksTyped, Steps, Same
<1>6. Carries(t)'
  BY <1>1, <1>2, <1>3, <1>4 DEF Carries, TasksTyped
<1>7. QED
  BY <1>1, <1>5, <1>6, TaskOnly

LEMMA NotifyStep ==
  ASSUME PathInv, NEW t \in Tasks, notify_session(t)
  PROVE  PathInv'
<1>1. /\ pc[t] = "committed" /\ notes' = notes \union {[to |-> r, seq |-> seq[t]] : r \in Replicas \ {at[t]}}
      /\ UNCHANGED <<nextSeq, rowKind, snaps, lock, live, pc, at, base, seq, next, mach, spool, job>>
  BY DEF notify_session, vars
<1>2. seq[t] \in Seqs /\ rowKind[seq[t]] = "ws"
  BY <1>1 DEF PathInv, TaskInv, Carries
<1>3. Grows /\ LogInv' /\ RowInv' /\ MachInv'
  <2>1. Grows /\ LogInv'
    BY <1>1, Still DEF PathInv
  <2>2. QED
    BY <1>1, <2>1, RowsKept, MachKept DEF PathInv
<1>4. LiveInv' /\ TaskInv'
  BY <1>1 DEF PathInv, LiveInv, TaskInv, TasksTyped, Carries
<1>5. PostInv'
  BY <1>1, <1>2 DEF PathInv, PostInv, Note
<1>6. QED
  BY <1>3, <1>4, <1>5 DEF PathInv

\* The transaction takes its seq.
LEMMA StampingStep ==
  ASSUME PathInv, NEW t \in Tasks, job[t] = "write", stamp_append_snapshot(t), UNCHANGED extraVars
  PROVE  PathInv'
<1> DEFINE b == base[t]
           f == IF b = None THEN Blank ELSE apply_event(catch_up_base(b, nextSeq), nextSeq)
<1>1. /\ pc[t] = "based" /\ lock = NoTask /\ nextSeq <= MaxSeq /\ lock' = t /\ pc' = [pc EXCEPT ![t] = "stamped"]
      /\ seq' = [seq EXCEPT ![t] = nextSeq] /\ next' = [next EXCEPT ![t] = f]
      /\ UNCHANGED <<nextSeq, rowKind, snaps, live, at, base, mach, spool, notes, job>>
  BY DEF stamp_append_snapshot, hubVars, extraVars
<1>2. Carries(t) /\ TasksTyped /\ nextSeq \in Seqs /\ nextSeq \in 0..MaxSeq
  BY <1>1, SeqsNat DEF PathInv, TaskInv, LogInv, Seqs
<1>3. f \in States /\ \A k \in Seqs : f[k] > 0 => rowKind[k] = "ws" \/ k = nextSeq
  <2>1. CASE b = None
    BY <2>1, SeqsNat
  <2>2. CASE b # None
    <3> DEFINE c == catch_up_base(b, nextSeq)
    <3>1. b.state \in States /\ Shows(b.state, rowKind)
      BY <1>2, <2>2 DEF Carries, TasksTyped, Snapshot, Behind
    <3>2. c \in States /\ Shows(c, rowKind)
      BY <3>1 DEF catch_up_base, States, Shows
    <3> HIDE DEF c
    <3>3. apply_event(c, nextSeq) \in States
          /\ \A k \in Seqs : apply_event(c, nextSeq)[k] > 0 => rowKind[k] = "ws" \/ k = nextSeq
      BY <1>2, <3>2 DEF apply_event, States, Shows
    <3>4. QED
      BY <2>2, <3>3 DEF c
  <2>3. QED
    BY <2>1, <2>2
<1> HIDE DEF f, b
<1>4. TasksTyped'
  BY <1>1, <1>2, <1>3 DEF TasksTyped, Steps
<1>5. \A u \in Tasks \ {t} : Same(u)
  BY <1>1, <1>2, SnapshotAssumption DEF Same, TasksTyped
<1>6. Carries(t)'
  BY <1>1, <1>2, <1>3 DEF Carries, TasksTyped, b
<1>7. QED
  BY <1>1, <1>4, <1>5, <1>6, TaskOnly

\* The revoke endpoint reads the last row, or turns to its announcement.
LEMMA RevokingStep ==
  ASSUME PathInv, NEW t \in Tasks, EmitEpochAdvanced(t) \/ \E r \in Replicas : RevokeRead(t, r)
  PROVE  PathInv'
<1>1. Carries(t) /\ TasksTyped
  BY DEF PathInv, TaskInv
<1>2. UNCHANGED <<nextSeq, rowKind, snaps, lock, live, next, mach, spool, notes, job>>
  BY DEF EmitEpochAdvanced, RevokeRead, dbVars, hubVars
<1>3. CASE EmitEpochAdvanced(t)
  <2> DEFINE b == live[at[t]]
             step == IF at[t] \in hubUp THEN "based" ELSE "cold"
  <2>1. /\ pc[t] = "advanced" /\ base' = [base EXCEPT ![t] = b] /\ pc' = [pc EXCEPT ![t] = step]
        /\ UNCHANGED <<at, seq>>
    BY <1>3 DEF EmitEpochAdvanced
  <2>2. step \in {"based", "cold"}
    OBVIOUS
  <2>3. b \in Snapshot \union {None} /\ (b # None => Behind(b, rowKind, nextSeq)) /\ job[t] = "write"
    BY <1>1, <2>1 DEF PathInv, LiveInv, Carries, TasksTyped
  <2> HIDE DEF b, step
  <2>4. TasksTyped' /\ \A u \in Tasks \ {t} : Same(u)
    BY <1>1, <1>2, <2>1, <2>2, <2>3 DEF TasksTyped, Steps, Same
  <2>5. Carries(t)'
    BY <1>1, <1>2, <2>1, <2>2, <2>3 DEF Carries, TasksTyped
  <2>6. QED
    BY <1>2, <2>4, <2>5, TaskOnly
<1>4. ASSUME NEW r \in Replicas, RevokeRead(t, r) PROVE PathInv'
  <2>1. PICK n \in 0..MaxSeq : LastRow(n) /\ seq' = [seq EXCEPT ![t] = n]
    BY <1>4 DEF RevokeRead
  <2>2. n < nextSeq
    <3>1. n = 0 \/ n \in Seqs
      BY SeqsNat DEF Seqs
    <3>2. QED
      BY <2>1, <3>1, SnapshotAssumption DEF LastRow, PathInv, LogInv
  <2>3. /\ pc[t] = "idle" /\ pc' = [pc EXCEPT ![t] = "revoking"] /\ at' = [at EXCEPT ![t] = r] /\ UNCHANGED base
    BY <1>4 DEF RevokeRead
  <2>4. TasksTyped' /\ \A u \in Tasks \ {t} : Same(u)
    BY <1>1, <1>2, <2>1, <2>3 DEF TasksTyped, Steps, Same
  <2>5. Carries(t)'
    BY <1>1, <1>2, <2>1, <2>2, <2>3 DEF Carries, TasksTyped
  <2>6. QED
    BY <1>2, <2>4, <2>5, TaskOnly
<1>5. QED
  BY <1>3, <1>4

-----------------------------------------------------------------------------
(* The steps that touch the projections.                                   *)

\* A step that leaves the log alone.
LEMMA Unlogged ==
  ASSUME PathInv, UNCHANGED <<nextSeq, rowKind>>, RowInv', TaskInv', MachInv', PostInv',
         live' \in [Replicas -> Snapshot \union {None}],
         \A r \in Replicas : live'[r] \in {live[r], None} \/ Behind(live'[r], rowKind, nextSeq)
  PROVE  PathInv'
<1>1. Grows /\ LogInv'
  BY Still DEF PathInv
<1>2. LogInv /\ LiveInv /\ \A r \in Replicas : live'[r] \in {live[r], None} \/ Behind(live'[r], rowKind', nextSeq')
  BY DEF PathInv
<1>3. LiveInv'
  BY <1>1, <1>2, LiveKept
<1>4. QED
  BY <1>1, <1>3 DEF PathInv

\* Tasks that step aside, when the log stays as it is.
LEMMA TasksMove ==
  ASSUME PathInv, UNCHANGED <<nextSeq, rowKind>>, NEW ts \in SUBSET Tasks, TasksTyped',
         \A u \in Tasks \ ts : Same(u), \A u \in ts : Carries(u)'
  PROVE  TaskInv'
<1>1. Grows /\ LogInv /\ TaskInv
  BY Still DEF PathInv
<1>2. \A u \in Tasks \ ts : Same(u) /\ (pc[u] = "stamped" => UNCHANGED <<nextSeq, rowKind>>)
  OBVIOUS
<1>3. QED
  BY <1>1, <1>2, OthersKept

LEMMA TasksStill ==
  ASSUME PathInv, UNCHANGED <<nextSeq, rowKind>>, TasksTyped', \A u \in Tasks : Same(u)
  PROVE  TaskInv'
<1>1. {} \in SUBSET Tasks /\ (\A u \in {} : Carries(u)') /\ \A u \in Tasks \ {} : Same(u)
  OBVIOUS
<1>2. QED
  BY <1>1, TasksMove

\* Rows, session tasks and post, when nothing of theirs changes.
LEMMA RestKept ==
  ASSUME PathInv, UNCHANGED <<nextSeq, rowKind>>
  PROVE  /\ UNCHANGED snaps => RowInv'
         /\ UNCHANGED mach => MachInv'
         /\ spool' \subseteq spool /\ notes' \subseteq notes => PostInv'
<1>1. Grows
  BY Still DEF PathInv
<1>2. QED
  BY <1>1, RowsKept, MachKept, PostKept DEF PathInv

\* Handlers that return have nothing left to carry.
LEMMA Returned ==
  ASSUME PathInv, UNCHANGED <<nextSeq, rowKind>>, NEW ts \in SUBSET Tasks, ReturnAll(ts),
         job' = [t \in Tasks |-> IF t \in ts THEN "write" ELSE job[t]],
         lock' = IF lock \in ts THEN NoTask ELSE lock
  PROVE  TaskInv'
<1>1. TasksTyped /\ Blank \in States /\ 0 \in 0..MaxSeq
  BY SnapshotAssumption, SeqsNat DEF PathInv, TaskInv
<1>2. TasksTyped'
  <2>1. /\ pc' \in [Tasks -> Steps] /\ at' \in [Tasks -> Replicas \union {None}]
        /\ base' \in [Tasks -> Snapshot \union {None}]
    BY <1>1 DEF TasksTyped, ReturnAll, Steps
  <2>2. next' \in [Tasks -> States]
    BY <1>1 DEF TasksTyped, ReturnAll
  <2>3. seq' \in [Tasks -> 0..MaxSeq] /\ job' \in [Tasks -> {"write", "deliver"}]
    BY <1>1 DEF TasksTyped, ReturnAll
  <2>4. lock' \in Tasks \union {NoTask}
    BY <1>1 DEF TasksTyped
  <2>5. QED
    BY <2>1, <2>2, <2>3, <2>4 DEF TasksTyped
<1>3. \A u \in Tasks \ ts : Same(u)
  BY <1>1, SnapshotAssumption DEF TasksTyped, ReturnAll, Same
<1>4. \A u \in ts : Carries(u)'
  BY <1>1, SnapshotAssumption DEF TasksTyped, ReturnAll, Carries
<1>5. QED
  BY <1>2, <1>3, <1>4, TasksMove

\* A row under a seq below the counter that shows committed events.
LEMMA RowAdded ==
  ASSUME PathInv, UNCHANGED <<nextSeq, rowKind>>, NEW x \in Row, x.kind # "seed",
         Behind(x, rowKind, nextSeq), snaps' = snaps \union {x}
  PROVE  RowInv'
<1>1. RowInv
  BY DEF PathInv
<1>2. LogCovered'
  BY <1>1 DEF RowInv, LogCovered
<1>3. QED
  BY <1>1, <1>2 DEF RowInv

\* Rows that go without uncovering the log.
LEMMA RowsGone ==
  ASSUME PathInv, UNCHANGED <<nextSeq, rowKind>>, snaps' \subseteq snaps, LogCovered'
  PROVE  RowInv'
BY DEF PathInv, RowInv

LEMMA StoreLoadedStep ==
  ASSUME PathInv, NEW t \in Tasks, StoreLoaded(t), UNCHANGED extraVars
  PROVE  PathInv'
<1>1. /\ pc[t] = "loaded" /\ pc' = [pc EXCEPT ![t] = "based"]
      /\ live' = IF held[t] THEN [live EXCEPT ![at[t]] = base[t]] ELSE live
      /\ UNCHANGED <<nextSeq, rowKind, snaps, lock, at, base, seq, next, mach, spool, notes, job>>
  BY DEF StoreLoaded, dbVars, extraVars
<1>2. Carries(t) /\ TasksTyped /\ live \in [Replicas -> Snapshot \union {None}]
  BY DEF PathInv, TaskInv, LiveInv
<1>3. at[t] \in Replicas /\ base[t] \in Snapshot /\ Behind(base[t], rowKind, nextSeq)
  BY <1>1, <1>2 DEF Carries, TasksTyped
<1>4. TasksTyped' /\ \A u \in Tasks \ {t} : Same(u)
  BY <1>1, <1>2 DEF TasksTyped, Steps, Same
<1>5. Carries(t)'
  BY <1>1, <1>2, <1>3 DEF Carries, TasksTyped
<1>6. TaskInv' /\ RowInv' /\ MachInv' /\ PostInv'
  <2>1. {t} \in SUBSET Tasks /\ \A u \in {t} : Carries(u)'
    BY <1>5
  <2>2. TaskInv'
    BY <1>1, <1>4, <2>1, TasksMove
  <2>3. QED
    BY <1>1, <2>2, RestKept
<1>7. /\ live' \in [Replicas -> Snapshot \union {None}]
      /\ \A r \in Replicas : live'[r] \in {live[r], None} \/ Behind(live'[r], rowKind, nextSeq)
  BY <1>1, <1>2, <1>3
<1>8. QED
  BY <1>1, <1>6, <1>7, Unlogged

LEMMA PathsAbandonStep ==
  ASSUME PathInv, NEW t \in Tasks, Abandon(t), Forget({t}), UNCHANGED <<mach, spool, notes>>
  PROVE  PathInv'
<1>1. /\ UNCHANGED <<nextSeq, rowKind, snaps, live>> /\ ReturnAll({t})
      /\ lock' = IF lock \in {t} THEN NoTask ELSE lock
      /\ job' = [u \in Tasks |-> IF u \in {t} THEN "write" ELSE job[u]]
  BY DEF Abandon, Return, Forget, hubVars
<1>2. {t} \in SUBSET Tasks
  OBVIOUS
<1>3. TaskInv' /\ RowInv' /\ MachInv' /\ PostInv'
  BY <1>1, <1>2, Returned, RestKept
<1>4. live' \in [Replicas -> Snapshot \union {None}]
  BY <1>1 DEF PathInv, LiveInv
<1>5. QED
  BY <1>1, <1>3, <1>4, Unlogged

\* The session task is fed the seq of a committed event.
LEMMA StoreAndFeedStep ==
  ASSUME PathInv, NEW t \in Tasks, StoreAndFeed(t)
  PROVE  PathInv'
<1> DEFINE new == [seq |-> seq[t], state |-> next[t]]
<1>1. /\ pc[t] = "committed" /\ ReturnAll({t}) /\ UNCHANGED <<nextSeq, rowKind, snaps, lock, spool, notes>>
      /\ live' = IF held[t] THEN [live EXCEPT ![at[t]] = rcu(@, new)] ELSE live
      /\ job' = [u \in Tasks |-> IF u \in {t} THEN "write" ELSE job[u]]
  BY DEF StoreAndFeed, store_and_broadcast, Return, Forget, dbVars
<1>2. Carries(t) /\ TasksTyped /\ LogInv /\ live \in [Replicas -> Snapshot \union {None}]
  BY DEF PathInv, TaskInv, LiveInv
<1>3. at[t] \in Replicas /\ lock # t /\ seq[t] \in Seqs /\ rowKind[seq[t]] = "ws" /\ Shows(next[t], rowKind)
  BY <1>1, <1>2 DEF Carries
<1>4. new \in Snapshot /\ Behind(new, rowKind, nextSeq)
  BY <1>2, <1>3 DEF TasksTyped, Snapshot, Behind, LogInv
<1> HIDE DEF new
<1>5. /\ live' \in [Replicas -> Snapshot \union {None}]
      /\ \A r \in Replicas : live'[r] \in {live[r], None} \/ Behind(live'[r], rowKind, nextSeq)
  BY <1>1, <1>2, <1>3, <1>4 DEF rcu
<1>6. MachInv'
  <2>1. CASE mach' = mach
    BY <1>1, <2>1, RestKept
  <2>2. ASSUME NEW m \in Machines, mach' = [mach EXCEPT ![m].mail = @ \union {seq[t]}]
        PROVE  MachInv'
    <3>1. MachInv /\ Grows
      BY <1>1, Still DEF PathInv
    <3>2. mach[m].mail \union {seq[t]} \in SUBSET Seqs
      BY <1>3, <3>1 DEF MachInv, Task
    <3>3. mach' \in [Machines -> Task]
      BY <2>2, <3>1, <3>2 DEF MachInv, Task
    <3>4. Remembers(m)'
      BY <1>1, <1>3, <2>2, <3>1 DEF MachInv, Task, Remembers
    <3>5. ASSUME NEW o \in Machines, o # m PROVE Remembers(o)'
      <4>1. mach'[o] = mach[o]
        BY <2>2, <3>1, <3>5 DEF MachInv
      <4>2. QED
        BY <1>2, <3>1, <4>1, RemembersKept
    <3>6. QED
      BY <3>3, <3>4, <3>5 DEF MachInv
  <2>3. QED
    BY <2>1, <2>2 DEF StoreAndFeed, Registered
<1>7. TaskInv'
  <2>1. {t} \in SUBSET Tasks /\ lock' = IF lock \in {t} THEN NoTask ELSE lock
    BY <1>1, <1>3
  <2>2. QED
    BY <1>1, <2>1, Returned
<1>8. RowInv' /\ PostInv'
  BY <1>1, RestKept
<1>9. QED
  BY <1>1, <1>5, <1>6, <1>7, <1>8, Unlogged

\* The presence patch is stored under the seq it was read with.
LEMMA PresenceStoreStep ==
  ASSUME PathInv, NEW t \in Tasks, PresenceStore(t)
  PROVE  PathInv'
<1>1. /\ pc[t] = "presence" /\ live' = IF held[t] THEN [live EXCEPT ![at[t]] = base[t]] ELSE live
      /\ ReturnAll({t}) /\ UNCHANGED <<nextSeq, rowKind, snaps, lock, mach, spool, notes, job>>
  BY DEF PresenceStore, Return, dbVars, extraVars
<1>2. Carries(t) /\ TasksTyped /\ live \in [Replicas -> Snapshot \union {None}]
  BY DEF PathInv, TaskInv, LiveInv
<1>3. at[t] \in Replicas /\ lock # t /\ job[t] = "write" /\ (base[t] # None => Behind(base[t], rowKind, nextSeq))
  BY <1>1, <1>2 DEF Carries, TasksTyped
<1>4. /\ live' \in [Replicas -> Snapshot \union {None}]
      /\ \A r \in Replicas : live'[r] \in {live[r], None} \/ Behind(live'[r], rowKind, nextSeq)
  BY <1>1, <1>2, <1>3 DEF TasksTyped
<1>5. TaskInv'
  <2>1. {t} \in SUBSET Tasks /\ lock' = IF lock \in {t} THEN NoTask ELSE lock
    BY <1>1, <1>3
  <2>2. job' = [u \in Tasks |-> IF u \in {t} THEN "write" ELSE job[u]]
    BY <1>1, <1>2, <1>3 DEF TasksTyped
  <2>3. QED
    BY <1>1, <2>1, <2>2, Returned
<1>6. QED
  BY <1>1, <1>4, <1>5, RestKept, Unlogged

\* The revoke endpoint: the sentinel under the seq it has read, then the
\* empty ArcSwap.
LEMMA MarkStep ==
  ASSUME PathInv, NEW t \in Tasks, mark_dirty(t) \/ Invalidate(t)
  PROVE  PathInv'
<1>1. Carries(t) /\ TasksTyped /\ live \in [Replicas -> Snapshot \union {None}] /\ Blank \in States
  BY SeqsNat DEF PathInv, TaskInv, LiveInv
<1>2. UNCHANGED <<nextSeq, rowKind, lock, at, base, seq, next, mach, spool, notes, job>>
  BY DEF mark_dirty, Invalidate, dbVars, hubVars, extraVars
<1>3. /\ pc[t] \in {"revoking", "marked"}
      /\ \E step \in {"marked", "advanced"} : pc' = [pc EXCEPT ![t] = step]
  BY DEF mark_dirty, Invalidate
<1>4. TaskInv'
  <2>1. TasksTyped' /\ \A u \in Tasks \ {t} : Same(u)
    BY <1>1, <1>2, <1>3 DEF TasksTyped, Steps, Same
  <2>2. Carries(t)'
    BY <1>1, <1>2, <1>3 DEF Carries, TasksTyped
  <2>3. {t} \in SUBSET Tasks /\ \A u \in {t} : Carries(u)'
    BY <2>2
  <2>4. QED
    BY <1>2, <2>1, <2>3, TasksMove
<1>5. /\ live' \in [Replicas -> Snapshot \union {None}]
      /\ \A r \in Replicas : live'[r] \in {live[r], None}
  BY <1>1, <1>2 DEF mark_dirty, Invalidate, hubVars
<1>6. RowInv'
  <2>1. CASE mark_dirty(t)
    <3> DEFINE s == IF live[at[t]] # None THEN live[at[t]].state ELSE Blank
               x == [seq |-> seq[t], state |-> s, kind |-> "dirty"]
    <3>1. snaps' = snaps \union {x} /\ at[t] \in Replicas /\ seq[t] < nextSeq /\ seq[t] \in 0..MaxSeq
      BY <1>1, <2>1 DEF mark_dirty, Carries, TasksTyped
    <3>2. s \in States /\ Shows(s, rowKind)
      <4>1. Shows(Blank, rowKind)
        BY SeqsNat DEF Shows
      <4>2. live[at[t]] # None => live[at[t]] \in Snapshot /\ Behind(live[at[t]], rowKind, nextSeq)
        BY <1>1, <3>1 DEF PathInv, LiveInv
      <4>3. QED
        BY <1>1, <4>1, <4>2 DEF Snapshot, Behind
    <3> HIDE DEF s
    <3>3. x \in Row /\ x.kind # "seed" /\ Behind(x, rowKind, nextSeq)
      BY <3>1, <3>2 DEF Row, Behind
    <3> HIDE DEF x
    <3>4. QED
      BY <1>2, <3>1, <3>3, RowAdded
  <2>2. CASE Invalidate(t)
    BY <1>2, <2>2, RestKept DEF Invalidate, dbVars
  <2>3. QED
    BY <2>1, <2>2
<1>7. QED
  BY <1>2, <1>4, <1>5, <1>6, RestKept, Unlogged

\* A dirty row is superseded by what the rebuild has read.
LEMMA BuildDoneStep ==
  ASSUME PathInv, NEW t \in Tasks, BuildDone(t)
  PROVE  PathInv'
<1> DEFINE x == [seq |-> base[t].seq, state |-> base[t].state, kind |-> "clean"]
<1>1. /\ pc[t] = "building" /\ snaps' \in {snaps, snaps \union {x}} /\ pc' = [pc EXCEPT ![t] = "loaded"]
      /\ UNCHANGED <<nextSeq, rowKind, lock, live, at, base, seq, next, mach, spool, notes, job>>
  BY DEF BuildDone, hubVars
<1>2. Carries(t) /\ TasksTyped
  BY DEF PathInv, TaskInv
<1>3. base[t] \in Snapshot /\ Behind(base[t], rowKind, nextSeq)
  BY <1>1, <1>2 DEF Carries, TasksTyped
<1>4. x \in Row /\ x.kind # "seed" /\ Behind(x, rowKind, nextSeq)
  BY <1>3 DEF Snapshot, Row, Behind
<1> HIDE DEF x
<1>5. RowInv'
  BY <1>1, <1>4, RowAdded, RestKept
<1>6. TaskInv'
  <2>1. TasksTyped' /\ \A u \in Tasks \ {t} : Same(u)
    BY <1>1, <1>2 DEF TasksTyped, Steps, Same
  <2>2. Carries(t)'
    BY <1>1, <1>2, <1>3 DEF Carries, TasksTyped
  <2>3. {t} \in SUBSET Tasks /\ \A u \in {t} : Carries(u)'
    BY <2>2
  <2>4. QED
    BY <1>1, <2>1, <2>3, TasksMove
<1>7. live' \in [Replicas -> Snapshot \union {None}]
  BY <1>1 DEF PathInv, LiveInv
<1>8. QED
  BY <1>1, <1>5, <1>6, <1>7, RestKept, Unlogged

LEMMA IdleTask ==
  /\ NoMachine \in Task /\ NoMachine.mem = Blank /\ NoMachine.hub = None
  /\ NoMachine.mail = {} /\ NoMachine.pc = "idle"
<1>1. Blank \in States /\ 0 \in 0..MaxSeq
  BY SeqsNat, SnapshotAssumption
<1>2. QED
  BY <1>1 DEF NoMachine, Task

\* A hub is made, is dropped with its task left behind, or dies with its
\* replica, its handlers and their transactions.
LEMMA PathsHubStep ==
  ASSUME PathInv, NEW r \in Replicas, HubLifecycle(r)
  PROVE  PathInv'
<1>1. /\ LogInv /\ TaskInv /\ TasksTyped /\ MachInv /\ PostInv /\ live \in [Replicas -> Snapshot \union {None}]
      /\ \A o \in Replicas : live[o] # None => Behind(live[o], rowKind, nextSeq)
  BY DEF PathInv, TaskInv, LiveInv
<1>2. UNCHANGED <<nextSeq, rowKind, snaps, notes>> /\ live' = [live EXCEPT ![r] = None] /\ spool' \subseteq spool
  BY DEF HubLifecycle, get_or_create_hub, DropHub, Crash, dbVars, extraVars
<1>3. /\ live' \in [Replicas -> Snapshot \union {None}]
      /\ \A o \in Replicas : live'[o] \in {live[o], None}
  BY <1>1, <1>2
<1>4. Grows /\ RowInv' /\ PostInv'
  BY <1>2, Still, RestKept DEF PathInv
<1>5. TaskInv' /\ MachInv'
  <2>1. CASE get_or_create_hub(r) /\ UNCHANGED extraVars
    <3>1. UNCHANGED <<nextSeq, rowKind, mach, lock, pc, at, base, seq, next, job>>
      BY <2>1 DEF get_or_create_hub, dbVars, taskVars, extraVars
    <3>2. TasksTyped' /\ \A u \in Tasks : Same(u)
      BY <1>1, <3>1 DEF TasksTyped, Same
    <3>3. QED
      BY <3>1, <3>2, TasksStill, RestKept
  <2>2. CASE DropHub(r) /\ UNCHANGED <<spool, notes, owes, job, got, revs>>
               /\ mach' = [m \in Machines |-> IF mach[m].on # r \/ ~mach[m].cur THEN mach[m]
                              ELSE [mach[m] EXCEPT !.cur = FALSE, !.hub = StateOf(live[r])]]
    <3>1. UNCHANGED <<nextSeq, rowKind, lock, pc, at, base, seq, next, job>>
      BY <2>2 DEF DropHub, dbVars
    <3>2. TasksTyped' /\ \A u \in Tasks : Same(u)
      BY <1>1, <3>1 DEF TasksTyped, Same
    <3>3. StateOf(live[r]) \in States \union {None} /\ (StateOf(live[r]) # None => Shows(StateOf(live[r]), rowKind))
      BY <1>1 DEF StateOf, Snapshot, Behind
    <3> DEFINE left(m) == [mach[m] EXCEPT !.cur = FALSE, !.hub = StateOf(live[r])]
    <3>4. ASSUME NEW m \in Machines PROVE mach'[m] \in Task /\ Remembers(m)'
      <4>1. mach[m] \in Task /\ Remembers(m)
        BY <1>1 DEF MachInv
      <4>2. CASE mach'[m] = mach[m]
        BY <1>1, <1>4, <4>1, <4>2, RemembersKept
      <4>3. CASE mach'[m] = left(m)
        <5>1. left(m) \in Task /\ left(m).mem = mach[m].mem /\ left(m).mail = mach[m].mail /\ left(m).on = mach[m].on
              /\ left(m).pc = mach[m].pc /\ left(m).seq = mach[m].seq /\ left(m).hub = StateOf(live[r])
          BY <3>3, <4>1 DEF Task
        <5> HIDE DEF left
        <5>2. QED
          BY <3>1, <3>3, <4>1, <4>3, <5>1 DEF Remembers
      <4>4. QED
        BY <2>2, <4>2, <4>3
    <3>5. MachInv'
      BY <2>2, <3>4 DEF MachInv
    <3>6. QED
      BY <3>1, <3>2, <3>5, TasksStill
  <2>3. CASE Crash(r) /\ Forget({t \in Tasks : at[t] = r})
               /\ mach' = [m \in Machines |-> IF mach[m].on = r THEN NoMachine ELSE mach[m]]
    <3> DEFINE dead == {t \in Tasks : at[t] = r}
    <3>1. /\ dead \in SUBSET Tasks /\ ReturnAll(dead) /\ lock' = IF lock \in dead THEN NoTask ELSE lock
          /\ job' = [t \in Tasks |-> IF t \in dead THEN "write" ELSE job[t]]
      BY <2>3 DEF Crash, Forget
    <3> HIDE DEF dead
    <3>2. TaskInv'
      BY <1>2, <3>1, Returned
    <3>3. ASSUME NEW m \in Machines PROVE mach'[m] \in Task /\ Remembers(m)'
      <4>1. CASE mach'[m] = mach[m]
        BY <1>1, <1>4, <4>1, RemembersKept DEF MachInv
      <4>2. CASE mach'[m] = NoMachine
        BY <4>2, IdleTask, SeqsNat DEF Remembers, Shows
      <4>3. QED
        BY <2>3, <4>1, <4>2
    <3>4. MachInv'
      BY <2>3, <3>3 DEF MachInv
    <3>5. QED
      BY <3>2, <3>4
  <2>4. QED
    BY <2>1, <2>2, <2>3 DEF HubLifecycle
<1>6. QED
  BY <1>2, <1>3, <1>4, <1>5, Unlogged

\* A step of the maintenance jobs and of the post: handlers, hubs and session
\* tasks stay as they are.
LEMMA RowsOnly ==
  ASSUME PathInv, UNCHANGED <<nextSeq, rowKind, lock, hubVars, taskVars, mach, job>>,
         RowInv', spool' \subseteq spool, notes' \subseteq notes
  PROVE  PathInv'
<1>1. UNCHANGED <<live, pc, at, base, seq, next>>
  BY DEF hubVars, taskVars
<1>2. TasksTyped' /\ \A u \in Tasks : Same(u)
  BY <1>1 DEF PathInv, TaskInv, TasksTyped, Same
<1>3. TaskInv'
  BY <1>2, TasksStill
<1>4. live' \in [Replicas -> Snapshot \union {None}]
  BY <1>1 DEF PathInv, LiveInv
<1>5. QED
  BY <1>1, <1>3, <1>4, RestKept, Unlogged

\* The KeepN rows that stay are the highest that are not dirty: among them is
\* one that covers whatever a row that goes had covered.
LEMMA PathsCompactStep ==
  ASSUME PathInv, Compact \/ compact_dirty_sentinels
  PROVE  PathInv'
<1>1. /\ UNCHANGED <<nextSeq, rowKind, lock, hubVars, taskVars, mach, job, spool, notes>>
  BY DEF Compact, compact_all, compact_dirty_sentinels, extraVars
<1>2. RowInv /\ LogCovered
  BY DEF PathInv, RowInv
<1>3. CASE compact_dirty_sentinels
  <2>1. snaps' \subseteq snaps /\ LogCovered'
    BY <1>1, <1>2, <1>3 DEF compact_dirty_sentinels, LogCovered
  <2>2. QED
    BY <1>1, <2>1, RowsGone, RowsOnly
<1>4. CASE Compact
  <2> DEFINE ranked == {x \in snaps : x.kind # "dirty"}
  <2>1. PICK keep \in SUBSET ranked :
          /\ Cardinality(keep) = KeepN
          /\ \A x \in keep, y \in ranked \ keep : y.seq <= x.seq
          /\ snaps' = (snaps \ ranked) \union keep
    BY <1>4 DEF Compact, compact_all
  <2>2. PICK z : z \in keep
    BY <2>1, FS_EmptySet, SnapshotAssumption
  <2>3. ASSUME NEW n \in Seqs, rowKind'[n] = "ws" PROVE \E x \in snaps' : x.seq >= n /\ x.kind = "clean"
    <3>1. PICK x \in snaps : x.seq >= n /\ x.kind = "clean"
      BY <1>1, <1>2, <2>3 DEF LogCovered
    <3>2. CASE x \in keep
      BY <2>1, <3>1, <3>2
    <3>3. CASE x \notin keep
      <4>1. x \in ranked \ keep
        BY <3>1, <3>3
      <4>2. x.seq <= z.seq /\ z \in snaps /\ z \in Row /\ x \in Row /\ z.kind # "dirty"
        BY <1>2, <2>1, <2>2, <4>1 DEF RowInv
      <4>3. z.seq >= n /\ z.seq # 0
        BY <3>1, <4>2, SnapshotAssumption DEF Row, Seqs
      <4>4. z.kind = "clean"
        BY <1>2, <4>2, <4>3 DEF RowInv, Row
      <4>5. QED
        BY <2>1, <2>2, <4>3, <4>4
    <3>4. QED
      BY <3>2, <3>3
  <2>4. snaps' \subseteq snaps
    BY <2>1
  <2>5. QED
    BY <1>1, <2>3, <2>4, RowsGone, RowsOnly DEF LogCovered
<1>5. QED
  BY <1>3, <1>4

\* A spawned write lands; a notification is lost.
LEMMA PostStep ==
  ASSUME PathInv, write_async \/ DropNote
  PROVE  PathInv'
<1>1. CASE write_async
  <2>1. PICK x \in spool : /\ snaps' = snaps \union {[seq |-> x.seq, state |-> x.state, kind |-> "clean"]}
                           /\ spool' = spool \ {x}
    BY <1>1 DEF write_async
  <2> DEFINE y == [seq |-> x.seq, state |-> x.state, kind |-> "clean"]
  <2>2. y \in Row /\ y.kind # "seed" /\ Behind(y, rowKind, nextSeq)
    BY DEF PathInv, PostInv, Spool, Row, Behind
  <2>3. snaps' = snaps \union {y}
    BY <2>1
  <2> HIDE DEF y
  <2>4. UNCHANGED <<nextSeq, rowKind, lock, hubVars, taskVars, mach, job, notes>>
    BY <1>1 DEF write_async
  <2>5. RowInv'
    BY <2>2, <2>3, <2>4, RowAdded
  <2>6. QED
    BY <2>1, <2>4, <2>5, RowsOnly
<1>2. CASE DropNote
  <2>1. notes' \subseteq notes /\ UNCHANGED <<vars, mach, spool, job>>
    BY <1>2 DEF DropNote
  <2>2. UNCHANGED <<nextSeq, rowKind, lock, hubVars, taskVars, mach, job, spool, snaps>>
    BY <2>1 DEF vars, hubVars, taskVars
  <2>3. QED
    BY <2>1, <2>2, RestKept, RowsOnly
<1>3. QED
  BY <1>1, <1>2

-----------------------------------------------------------------------------
(* The steps that move the counter.                                        *)

\* The log grows above everything that is on its way.
LEMMA Logged ==
  ASSUME PathInv, nextSeq <= MaxSeq, nextSeq' = nextSeq + 1, NEW kind \in {"none", "ws", "machine"},
         rowKind' = [rowKind EXCEPT ![nextSeq] = kind]
  PROVE  /\ Grows /\ LogInv' /\ nextSeq \in Seqs /\ rowKind[nextSeq] = "none"
         /\ UNCHANGED live => LiveInv'
         /\ spool' \subseteq spool /\ notes' \subseteq notes => PostInv'
<1>1. nextSeq \in Seqs /\ LogInv
  BY SnapshotAssumption DEF PathInv, LogInv, Seqs
<1>2. rowKind[nextSeq] = "none"
  BY <1>1, SnapshotAssumption DEF LogInv, Seqs
<1>3. Grows
  BY <1>1, <1>2, SnapshotAssumption DEF Grows, LogInv, Seqs
<1>4. LogInv'
  BY <1>1, SnapshotAssumption DEF LogInv, Seqs
<1>5. UNCHANGED live => LiveInv'
  BY <1>1, <1>3, LiveKept DEF PathInv, LiveInv
<1>6. QED
  BY <1>1, <1>2, <1>3, <1>4, <1>5, PostKept DEF PathInv

LEMMA PathsCommitStep ==
  ASSUME PathInv, NEW t \in Tasks, Commit(t), UNCHANGED extraVars
  PROVE  PathInv'
<1> DEFINE x == [seq |-> seq[t], state |-> next[t], kind |-> "clean"]
<1>1. /\ pc[t] = "stamped" /\ rowKind' = [rowKind EXCEPT ![seq[t]] = "ws"] /\ snaps' = snaps \union {x}
      /\ nextSeq' = seq[t] + 1 /\ lock' = NoTask /\ pc' = [pc EXCEPT ![t] = "committed"]
      /\ UNCHANGED <<live, at, base, seq, next, mach, spool, notes, job>>
  BY DEF Commit, hubVars, extraVars
<1>2. Carries(t) /\ TasksTyped /\ LogInv /\ TaskInv /\ MachInv /\ RowInv
  BY DEF PathInv, TaskInv
<1>3. lock = t /\ seq[t] = nextSeq /\ nextSeq <= MaxSeq /\ at[t] \in Replicas /\ job[t] = "write"
  BY <1>1, <1>2 DEF Carries, TasksTyped
<1>4. Grows /\ LogInv' /\ LiveInv' /\ PostInv' /\ nextSeq \in Seqs /\ MachInv'
  <2>1. nextSeq' = nextSeq + 1 /\ rowKind' = [rowKind EXCEPT ![nextSeq] = "ws"] /\ nextSeq <= MaxSeq
    BY <1>1, <1>3
  <2>2. Grows /\ LogInv' /\ LiveInv' /\ PostInv' /\ nextSeq \in Seqs
    BY <1>1, <2>1, Logged
  <2>3. QED
    BY <1>1, <1>2, <2>2, MachKept
<1>5. Shows(next[t], rowKind') /\ rowKind'[seq[t]] = "ws" /\ next[t] \in States
  BY <1>1, <1>2, <1>3, <1>4 DEF Shows, Carries, Grows, LogInv, TasksTyped
<1>6. x \in Row /\ Behind(x, rowKind', nextSeq') /\ x.kind = "clean" /\ x.seq = nextSeq
  BY <1>1, <1>3, <1>4, <1>5, SnapshotAssumption DEF Row, Behind, Seqs
<1> HIDE DEF x
<1>7. RowInv'
  <2>1. \A y \in snaps : Behind(y, rowKind', nextSeq')
    <3>1. \A y \in snaps : y.seq \in Nat
      BY <1>2, SeqsNat DEF RowInv, Row
    <3>2. QED
      BY <1>2, <1>4, <3>1, BehindKept DEF RowInv
  <2>2. LogCovered'
    <3> SUFFICES ASSUME NEW n \in Seqs, rowKind'[n] = "ws"
                 PROVE  \E y \in snaps' : y.seq >= n /\ y.kind = "clean"
      BY DEF LogCovered
    <3>1. CASE n = nextSeq
      BY <1>1, <1>6, <3>1, SnapshotAssumption DEF Seqs
    <3>2. CASE n # nextSeq
      BY <1>1, <1>2, <1>3, <3>2 DEF RowInv, LogCovered, LogInv
    <3>3. QED
      BY <3>1, <3>2
  <2>3. QED
    BY <1>1, <1>2, <1>6, <2>1, <2>2 DEF RowInv
<1>8. TaskInv'
  <2>1. TasksTyped' /\ \A u \in Tasks \ {t} : Same(u) /\ (pc[u] = "stamped" => UNCHANGED <<nextSeq, rowKind>>)
    <3>1. TasksTyped'
      BY <1>1, <1>2 DEF TasksTyped, Steps
    <3>2. ASSUME NEW u \in Tasks \ {t} PROVE Same(u) /\ pc[u] # "stamped"
      BY <1>1, <1>2, <1>3, SnapshotAssumption DEF TasksTyped, Same, TaskInv, Carries
    <3>3. QED
      BY <3>1, <3>2
  <2>2. Carries(t)'
    <3>1. base[t] # None => Behind(base[t], rowKind', nextSeq')
      <4>1. base[t] # None => base[t].seq \in Nat
        BY <1>2, SeqsNat DEF TasksTyped, Snapshot
      <4>2. QED
        BY <1>2, <1>4, <4>1, BehindKept DEF Carries
    <3>2. QED
      BY <1>1, <1>2, <1>3, <1>4, <1>5, <3>1, SnapshotAssumption DEF Carries, TasksTyped
  <2>3. {t} \in SUBSET Tasks /\ \A u \in {t} : Carries(u)'
    BY <2>2
  <2>4. QED
    BY <1>2, <1>4, <2>1, <2>3, OthersKept
<1>9. QED
  BY <1>4, <1>7, <1>8 DEF PathInv

\* The session task draws a seq for its memory, or commits a row of its own.
LEMMA MachineLogs ==
  ASSUME PathInv, NEW m \in Machines, shadow_persist(m) \/ PersistPlan(m)
  PROVE  PathInv'
<1>1. /\ lock = NoTask /\ nextSeq <= MaxSeq /\ nextSeq' = nextSeq + 1
      /\ UNCHANGED <<snaps, lock, live, pc, at, base, seq, next, spool, notes, job>>
      /\ \E kind \in {"none", "machine"} : rowKind' = [rowKind EXCEPT ![nextSeq] = kind]
  <2>1. CASE shadow_persist(m)
    <3>1. rowKind' = [rowKind EXCEPT ![nextSeq] = "none"]
      <4>1. rowKind[nextSeq] = "none" /\ nextSeq \in Seqs /\ rowKind \in [Seqs -> {"none", "ws", "machine"}]
        BY <2>1, SnapshotAssumption DEF shadow_persist, alloc_seq, PathInv, LogInv, Seqs
      <4>2. rowKind' = rowKind
        BY <2>1 DEF shadow_persist, alloc_seq
      <4>3. QED
        BY <4>1, <4>2
    <3>2. QED
      BY <2>1, <3>1 DEF shadow_persist, alloc_seq, hubVars, taskVars
  <2>2. CASE PersistPlan(m)
    BY <2>2 DEF PersistPlan, hubVars, taskVars
  <2>3. QED
    BY <2>1, <2>2
<1>2. Grows /\ LogInv' /\ LiveInv' /\ PostInv' /\ nextSeq \in Seqs /\ rowKind[nextSeq] = "none"
  BY <1>1, Logged
<1>3. LogInv /\ RowInv /\ TaskInv /\ TasksTyped /\ MachInv /\ Remembers(m) /\ mach[m] \in Task
  BY DEF PathInv, TaskInv, MachInv
<1>4. RowInv'
  BY <1>1, <1>2, <1>3, RowsKept DEF LogInv
<1>5. TaskInv'
  <2>1. TasksTyped'
    BY <1>1, <1>3 DEF TasksTyped
  <2>2. \A u \in Tasks \ {} : Same(u) /\ (pc[u] = "stamped" => UNCHANGED <<nextSeq, rowKind>>)
    BY <1>1, <1>3, SnapshotAssumption DEF Same, TaskInv, Carries
  <2>3. {} \in SUBSET Tasks /\ \A u \in {} : Carries(u)'
    OBVIOUS
  <2>4. QED
    BY <1>2, <1>3, <2>1, <2>2, <2>3, OthersKept
<1>6. \E new \in Task : /\ mach' = [mach EXCEPT ![m] = new] /\ new.hub = mach[m].hub /\ new.mail \subseteq mach[m].mail
                        /\ Shows(new.mem, rowKind)
                        /\ new.pc = "persisted" => new.on \in Replicas /\ new.seq < nextSeq'
  <2>1. CASE shadow_persist(m)
    <3>1. PICK n \in mach[m].mail :
            mach' = [mach EXCEPT ![m] = [mach[m] EXCEPT !.mem = apply_event(mach[m].mem, n), !.mail = mach[m].mail \ {n}]]
      BY <1>3, <2>1 DEF shadow_persist, MachInv
    <3>2. mach[m].pc = "idle" /\ n \in Seqs /\ rowKind[n] = "ws" /\ mach[m].mem \in States /\ Shows(mach[m].mem, rowKind)
      BY <1>3, <2>1 DEF shadow_persist, Remembers, Task
    <3>3. apply_event(mach[m].mem, n) \in States /\ Shows(apply_event(mach[m].mem, n), rowKind)
      BY <3>2 DEF apply_event, States, Shows
    <3> DEFINE mem == apply_event(mach[m].mem, n)
               new == [mach[m] EXCEPT !.mem = mem, !.mail = mach[m].mail \ {n}]
    <3>4. mem \in States /\ mach[m].mail \ {n} \in SUBSET Seqs
      BY <1>3, <3>3 DEF Task
    <3> HIDE DEF mem
    <3>5. /\ new \in Task /\ new.hub = mach[m].hub /\ new.mail \subseteq mach[m].mail
          /\ new.mem = mem /\ new.pc = "idle"
      BY <1>3, <3>2, <3>4 DEF Task
    <3>6. Shows(new.mem, rowKind) /\ mach' = [mach EXCEPT ![m] = new]
      BY <3>1, <3>3, <3>5 DEF mem
    <3> HIDE DEF new
    <3>7. QED
      BY <3>5, <3>6
  <2>2. CASE PersistPlan(m)
    <3>1. mach' = [mach EXCEPT ![m] = [mach[m] EXCEPT !.pc = "persisted", !.seq = nextSeq]]
      BY <1>3, <2>2 DEF PersistPlan, MachInv
    <3>2. mach[m].on \in Replicas /\ nextSeq \in 0..MaxSeq /\ nextSeq < nextSeq + 1
      BY <1>2, <1>3, <2>2, SnapshotAssumption DEF PersistPlan, Task, Seqs
    <3> DEFINE new == [mach[m] EXCEPT !.pc = "persisted", !.seq = nextSeq]
    <3>3. /\ new \in Task /\ new.hub = mach[m].hub /\ new.mail = mach[m].mail /\ new.mem = mach[m].mem
          /\ new.on \in Replicas /\ new.seq < nextSeq'
      BY <1>1, <1>3, <3>2 DEF Task
    <3>4. Shows(new.mem, rowKind)
      BY <1>3, <3>3 DEF Remembers
    <3> HIDE DEF new
    <3>5. mach' = [mach EXCEPT ![m] = new]
      BY <3>1 DEF new
    <3>6. QED
      BY <3>3, <3>4, <3>5
  <2>3. QED
    BY <2>1, <2>2
<1>7. MachInv'
  <2>1. PICK new \in Task : /\ mach' = [mach EXCEPT ![m] = new] /\ new.hub = mach[m].hub /\ new.mail \subseteq mach[m].mail
                            /\ Shows(new.mem, rowKind)
                            /\ new.pc = "persisted" => new.on \in Replicas /\ new.seq < nextSeq'
    BY <1>6
  <2>2. mach' \in [Machines -> Task] /\ mach'[m] = new
    BY <1>3, <2>1 DEF MachInv
  <2>3. Remembers(m)'
    <3>1. mach[m].mail \subseteq Seqs
      BY <1>3 DEF Task
    <3>2. QED
      BY <1>2, <1>3, <2>1, <2>2, <3>1, ShowsKept DEF Remembers, Grows
  <2>4. ASSUME NEW o \in Machines, o # m PROVE Remembers(o)'
    <3>1. mach'[o] = mach[o]
      BY <1>3, <2>1, <2>4 DEF MachInv
    <3>2. QED
      BY <1>2, <1>3, <3>1, RemembersKept
  <2>5. QED
    BY <2>2, <2>3, <2>4 DEF MachInv
<1>8. QED
  BY <1>2, <1>4, <1>5, <1>7 DEF PathInv

LEMMA MachineStoreStep ==
  ASSUME PathInv, NEW m \in Machines, MachineStore(m)
  PROVE  PathInv'
<1> DEFINE r   == mach[m].on
           hub == IF mach[m].cur THEN StateOf(live[r]) ELSE mach[m].hub
<1>1. PICK s \in {mach[m].mem, hub} \ {None} :
        /\ live' = IF mach[m].cur THEN [live EXCEPT ![r] = [seq |-> mach[m].seq, state |-> s]] ELSE live
        /\ spool' = spool \union {[on |-> r, seq |-> mach[m].seq, state |-> s]}
        /\ mach' = [mach EXCEPT ![m].pc = "idle", ![m].seq = 0,
                                ![m].hub = IF mach[m].cur THEN None ELSE s]
  BY DEF MachineStore
<1>2. /\ mach[m].pc = "persisted"
      /\ UNCHANGED <<nextSeq, rowKind, snaps, lock, pc, at, base, seq, next, notes, job>>
  BY DEF MachineStore, dbVars, taskVars
<1>3. /\ LiveInv /\ TaskInv /\ TasksTyped /\ MachInv /\ PostInv /\ Remembers(m) /\ mach[m] \in Task
      /\ live \in [Replicas -> Snapshot \union {None}] /\ Grows
  BY <1>2, Still DEF PathInv, TaskInv, MachInv, LiveInv
<1>4. r \in Replicas /\ mach[m].seq < nextSeq /\ mach[m].seq \in 0..MaxSeq /\ Shows(mach[m].mem, rowKind)
  BY <1>2, <1>3 DEF Remembers, Task
<1>5. s \in States /\ Shows(s, rowKind)
  <2>1. CASE s = mach[m].mem
    BY <1>3, <1>4, <2>1 DEF Task
  <2>2. CASE s = hub /\ mach[m].cur
    BY <1>1, <1>3, <1>4, <2>2 DEF StateOf, Snapshot, LiveInv, Behind
  <2>3. CASE s = hub /\ ~mach[m].cur
    BY <1>1, <1>3, <2>3 DEF Remembers, Task
  <2>4. QED
    BY <2>1, <2>2, <2>3
<1> DEFINE new == [seq |-> mach[m].seq, state |-> s]
           put == [on |-> r, seq |-> mach[m].seq, state |-> s]
           h   == IF mach[m].cur THEN None ELSE s
           aft == [mach[m] EXCEPT !.pc = "idle", !.seq = 0, !.hub = h]
<1>6. new \in Snapshot /\ Behind(new, rowKind, nextSeq) /\ put \in Spool /\ Behind(put, rowKind, nextSeq)
  BY <1>4, <1>5 DEF Snapshot, Spool, Behind
<1>7. /\ live' \in [Replicas -> Snapshot \union {None}]
      /\ \A o \in Replicas : live'[o] \in {live[o], None} \/ Behind(live'[o], rowKind, nextSeq)
  <2>1. live' = IF mach[m].cur THEN [live EXCEPT ![r] = new] ELSE live
    BY <1>1
  <2> HIDE DEF new
  <2>2. QED
    BY <1>3, <1>4, <1>6, <2>1
<1>8. PostInv'
  <2>1. spool' = spool \union {put}
    BY <1>1
  <2> HIDE DEF put
  <2>2. QED
    BY <1>2, <1>3, <1>6, <2>1 DEF PostInv
<1>9. MachInv'
  <2>1. mach' = [mach EXCEPT ![m] = aft]
    BY <1>1, <1>3 DEF MachInv
  <2>2. h \in States \union {None} /\ (h # None => Shows(h, rowKind))
    BY <1>5
  <2> HIDE DEF h
  <2>3. aft \in Task /\ aft.hub = h /\ aft.mem = mach[m].mem /\ aft.mail = mach[m].mail /\ aft.pc = "idle"
    <3>1. 0 \in 0..MaxSeq
      BY SnapshotAssumption
    <3>2. QED
      BY <1>3, <2>2, <3>1 DEF Task
  <2> HIDE DEF aft
  <2>4. mach' \in [Machines -> Task] /\ mach'[m] = aft
    BY <1>3, <2>1, <2>3 DEF MachInv
  <2>5. Remembers(m)'
    BY <1>2, <1>3, <2>2, <2>3, <2>4 DEF Remembers
  <2>6. ASSUME NEW o \in Machines, o # m PROVE Remembers(o)'
    <3>1. mach'[o] = mach[o] /\ LogInv
      BY <1>3, <2>1, <2>6 DEF MachInv, PathInv
    <3>2. QED
      BY <1>3, <3>1, RemembersKept
  <2>7. QED
    BY <2>4, <2>5, <2>6 DEF MachInv
<1>10. TaskInv' /\ RowInv'
  <2>1. TasksTyped' /\ \A u \in Tasks : Same(u)
    BY <1>2, <1>3 DEF TasksTyped, Same
  <2>2. QED
    BY <1>2, <2>1, TasksStill, RestKept
<1>11. QED
  BY <1>2, <1>7, <1>8, <1>9, <1>10, Unlogged

LEMMA SpawnStep ==
  ASSUME PathInv, NEW m \in Machines, NEW r \in Replicas, spawn_session_task(m, r)
  PROVE  PathInv'
<1> DEFINE new == [NoMachine EXCEPT !.on = r, !.cur = TRUE]
<1>1. /\ mach' = [mach EXCEPT ![m] = new]
      /\ UNCHANGED <<nextSeq, rowKind, snaps, lock, live, pc, at, base, seq, next, spool, notes, job>>
  BY DEF spawn_session_task, vars
<1>2. /\ LogInv /\ TasksTyped /\ MachInv /\ live \in [Replicas -> Snapshot \union {None}] /\ Grows
  BY <1>1, Still DEF PathInv, TaskInv, LiveInv
<1>3. new \in Task /\ new.hub = None /\ new.mem = Blank /\ new.mail = {} /\ new.pc = "idle"
  <2>1. NoMachine \in Task /\ NoMachine.hub = None /\ NoMachine.mem = Blank /\ NoMachine.mail = {} /\ NoMachine.pc = "idle"
    BY IdleTask
  <2>2. QED
    BY <2>1 DEF Task
<1> HIDE DEF new
<1>4. mach' \in [Machines -> Task] /\ Remembers(m)'
  BY <1>1, <1>2, <1>3, SeqsNat DEF MachInv, Remembers, Shows
<1>5. ASSUME NEW o \in Machines, o # m PROVE Remembers(o)'
  <2>1. mach'[o] = mach[o]
    BY <1>1, <1>2, <1>5 DEF MachInv
  <2>2. QED
    BY <1>2, <2>1, RemembersKept
<1>6. MachInv'
  BY <1>4, <1>5 DEF MachInv
<1>7. TasksTyped' /\ \A u \in Tasks : Same(u)
  BY <1>1, <1>2 DEF TasksTyped, Same
<1>8. live' \in [Replicas -> Snapshot \union {None}]
  BY <1>1, <1>2
<1>9. QED
  BY <1>1, <1>6, <1>7, <1>8, TasksStill, RestKept, Unlogged

-----------------------------------------------------------------------------
(* The other writers: theorems.                                            *)

LEMMA SeedStart == ASSUME SeedInit PROVE PathInv
<1>1. Blank \in States /\ (\A k \in Seqs : Blank[k] = 0) /\ Seqs \subseteq Nat /\ MaxSeq \in Nat /\ MaxSeq > 0 /\ 0 \in 0..MaxSeq
  BY SeqsNat, SnapshotAssumption
<1>2. LogInv
  BY <1>1 DEF SeedInit, LogInv
<1>3. RowInv
  BY <1>1 DEF SeedInit, RowInv, Row, Behind, Shows, LogCovered
<1>4. LiveInv
  BY DEF SeedInit, LiveInv
<1>5. TaskInv
  <2>1. TasksTyped
    BY <1>1 DEF SeedInit, PathsInit, TasksTyped, Steps
  <2>2. \A t \in Tasks : Carries(t)
    BY SnapshotAssumption DEF SeedInit, PathsInit, Carries
  <2>3. QED
    BY <2>1, <2>2 DEF TaskInv
<1>6. MachInv
  BY IdleTask, SeqsNat DEF SeedInit, PathsInit, MachInv, Remembers, Shows
<1>7. PostInv
  BY DEF SeedInit, PathsInit, PostInv
<1>8. QED
  BY <1>2, <1>3, <1>4, <1>5, <1>6, <1>7 DEF PathInv

PathsNext == \/ WritePath \/ Presence \/ ColdEmit \/ Rebuild \/ Notifier
             \/ (~Tasked /\ Revoke) \/ (revs = 0 /\ Machine) \/ \E t \in Tasks : LoadFails(t)

LEMMA PathsStep == ASSUME PathInv, [PathsNext]_allVars PROVE PathInv'
<1>1. CASE WritePath
  <2>1. ASSUME NEW t \in Tasks, WriteStep(t) PROVE PathInv'
    BY <2>1, LoadingStep, StoreLoadedStep, StampingStep, PathsCommitStep, PathsAbandonStep DEF WriteStep
  <2>2. QED
    BY <1>1, <2>1, HandleStep, NotifyStep, StoreAndFeedStep, PathsHubStep, PathsCompactStep DEF WritePath
<1>2. CASE Presence \/ ColdEmit
  BY <1>2, PresenceStoreStep, HandleStep DEF Presence, ColdEmit
<1>3. CASE Rebuild \/ \E t \in Tasks : LoadFails(t)
  BY <1>3, LoadingStep, BuildDoneStep DEF Rebuild
<1>4. CASE Notifier
  BY <1>4, DeliverStep, ApplyStep, PostStep DEF Notifier
<1>5. CASE Revoke
  BY <1>5, MarkStep, RevokingStep, PathsCompactStep DEF Revoke
<1>6. CASE Machine
  BY <1>6, MachineLogs, MachineStoreStep, SpawnStep, PostStep DEF Machine
<1>7. CASE UNCHANGED allVars
  BY <1>7, RestKept, RowsOnly DEF allVars, vars, extraVars, hubVars, taskVars
<1>8. QED
  BY <1>1, <1>2, <1>3, <1>4, <1>5, <1>6, <1>7 DEF PathsNext

\* The invariant holds with every writer of the projections at work: the write
\* path, the session tasks, the notifier, presence, the rebuild and revocation.
THEOREM PathsInvariance == PathsSpec => []PathInv
<1>1. SeedInit => PathInv
  BY SeedStart
<1>2. PathInv /\ [PathsNext]_allVars => PathInv'
  BY PathsStep
<1>3. QED
  BY <1>1, <1>2, PTL DEF PathsSpec, PathsNext

\* Whichever writer stored it, neither a snapshot row nor an ArcSwap shows an
\* event that is not committed, or carries a seq not handed out (ws.rs,
\* session_task.rs, notifier.rs, routes/epoch.rs, db/src/snapshots.rs).
THEOREM NeverShownAhead == PathsSpec => []NeverAhead
<1>1. PathInv => NeverAhead
  BY DEF PathInv, RowInv, LiveInv, Behind, Shows, NeverAhead
<1>2. QED
  BY <1>1, PathsInvariance, PTL

\* No revocation, rebuild or compaction leaves a committed WsMessage row
\* without a clean snapshot row of at least its seq (gc.rs compact_all).
THEOREM LogStaysCovered == PathsSpec => []LogCovered
<1>1. PathInv => LogCovered
  BY DEF PathInv, RowInv
<1>2. QED
  BY <1>1, PathsInvariance, PTL
=============================================================================
