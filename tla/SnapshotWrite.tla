--------------------------- MODULE SnapshotWrite ---------------------------
(***************************************************************************)
(* The transactional write path of one session (crates/server/src/ws.rs):  *)
(* WebSocket handlers and REST handlers, on any number of server replicas, *)
(* append events to the session's log in Postgres and maintain two         *)
(* projections of it, the rows of session_snapshots and the ArcSwap        *)
(* snapshot of each replica's hub.                                         *)
(*                                                                         *)
(* An event is its seq.  A SessionSnapshot is abstracted to the number of  *)
(* times each event has been applied to it: apply_event is not idempotent  *)
(* (ContextEntryAdded pushes), so a lost event is a 0 and an event folded  *)
(* twice is a 2.                                                           *)
(*                                                                         *)
(* A task is one activation of a handler.  It reads a base snapshot, opens *)
(* a transaction, takes the row lock of session_sequences by allocating a  *)
(* seq, appends, commits, and only then stores into the hub; every arrow   *)
(* is an await, so every step below interleaves with the other tasks.      *)
(***************************************************************************)
EXTENDS Integers, FiniteSets

CONSTANTS Replicas,   \* server processes
          Tasks,      \* handler activations that may be in flight
          MaxSeq,     \* bound: seqs the session_sequences counter may hand out
          KeepN,      \* clean snapshot rows kept by compact_all (50 in gc.rs)
          None,       \* an empty ArcSwap, a hub that is not there
          NoTask      \* nobody holds the session_sequences row lock

Seqs     == 1..MaxSeq
States   == [Seqs -> Nat]
Blank    == [n \in Seqs |-> 0]
Snapshot == [seq : 0..MaxSeq, state : States]
Row      == [seq : 0..MaxSeq, state : States, kind : {"seed", "clean", "dirty"}]

ASSUME SnapshotAssumption ==
  /\ MaxSeq \in Nat \ {0}
  /\ KeepN \in Nat \ {0}
  /\ None \notin Snapshot
  /\ NoTask \notin Tasks

VARIABLES
  nextSeq,   \* session_sequences.next_seq
  rowKind,   \* events: "ws" a WsMessage row, "machine" a SessionEvent row, "none" no row
  snaps,     \* session_snapshots
  lock,      \* the task whose open transaction holds the session_sequences row
  hubUp,     \* replicas whose AppState.hubs has this session
  live,      \* hub.snapshot of each replica (None: empty, or no hub)
  pc,        \* where each task is
  at,        \* the replica a task runs on
  held,      \* the hub Arc the task holds is still the registered hub
  base,      \* the LiveSnapshot the task read before its transaction
  seq,       \* the seq the task allocated
  next       \* the SessionSnapshot it computed

dbVars   == <<nextSeq, rowKind, snaps, lock>>
hubVars  == <<hubUp, live>>
taskVars == <<pc, at, held, base, seq, next>>
vars     == <<nextSeq, rowKind, snaps, lock, hubUp, live, pc, at, held, base, seq, next>>

-----------------------------------------------------------------------------
(* Snapshots.                                                              *)

apply_event(state, n) == [state EXCEPT ![n] = @ + 1]

\* Mutant: the event is applied to the base as it was read.
catch_up_base_stale(b, n) == b.state

\* The range (base.seq, n) of WsMessage-shaped rows is folded onto the base;
\* seqs without a row and rows of the session machine are skipped.
catch_up_base(b, n) ==
  [k \in Seqs |-> IF b.seq < k /\ k < n /\ rowKind[k] = "ws"
                  THEN b.state[k] + 1 ELSE b.state[k]]

\* The state the log up to n describes.
FoldTo(n) == [k \in Seqs |-> IF k <= n /\ rowKind[k] = "ws" THEN 1 ELSE 0]

Exact(s) == s.state = FoldTo(s.seq)

\* ORDER BY seq DESC LIMIT 1: with equal seqs any of them may come first.
get_latest == {x \in snaps : \A y \in snaps : y.seq <= x.seq}

\* The monotonic store of store_and_broadcast.
rcu(cur, new) == IF cur # None /\ cur.seq > new.seq THEN cur ELSE new

-----------------------------------------------------------------------------
(* Hubs.                                                                   *)

get_or_create_hub(r) ==
  /\ r \notin hubUp
  /\ hubUp' = hubUp \union {r}
  /\ live' = [live EXCEPT ![r] = None]
  /\ UNCHANGED <<dbVars, taskVars>>

\* The last actor disconnects: the hub leaves the map, tasks that still hold
\* its Arc go on with an orphan nobody reads.
DropHub(r) ==
  /\ r \in hubUp
  /\ hubUp' = hubUp \ {r}
  /\ live' = [live EXCEPT ![r] = None]
  /\ held' = [t \in Tasks |-> held[t] /\ at[t] # r]
  /\ UNCHANGED <<dbVars, pc, at, base, seq, next>>

-----------------------------------------------------------------------------
(* Reading the base.                                                       *)

\* The handlers of ts return, or die: their locals are gone.
ReturnAll(ts) ==
  /\ pc' = [t \in Tasks |-> IF t \in ts THEN "idle" ELSE pc[t]]
  /\ at' = [t \in Tasks |-> IF t \in ts THEN None ELSE at[t]]
  /\ held' = [t \in Tasks |-> held[t] /\ t \notin ts]
  /\ base' = [t \in Tasks |-> IF t \in ts THEN None ELSE base[t]]
  /\ seq' = [t \in Tasks |-> IF t \in ts THEN 0 ELSE seq[t]]
  /\ next' = [t \in Tasks |-> IF t \in ts THEN Blank ELSE next[t]]

Return(t) == ReturnAll({t})

Start(t, r, hub, b, step) ==
  /\ pc[t] = "idle"
  /\ pc' = [pc EXCEPT ![t] = step]
  /\ at' = [at EXCEPT ![t] = r]
  /\ held' = [held EXCEPT ![t] = hub]
  /\ base' = [base EXCEPT ![t] = b]
  /\ UNCHANGED <<dbVars, hubVars, seq, next>>

\* warm_snap, the ArcSwap is warm (every WS handler; a hot attach).
WarmHit(t, r) ==
  /\ r \in hubUp /\ live[r] # None
  /\ Start(t, r, TRUE, live[r], "based")

\* warm_snap or a cold attach finds the ArcSwap empty ...
WarmMiss(t, r) ==
  /\ r \in hubUp /\ live[r] = None
  /\ Start(t, r, TRUE, None, "cold")

\* ... or emit_to_session / create_approval_for_session finds no hub here.
EmitNoHub(t, r) ==
  /\ r \notin hubUp
  /\ Start(t, r, FALSE, None, "cold")

\* One row is read, an await later.
load_snapshot_from_db(t) ==
  /\ pc[t] = "cold"
  /\ \E x \in get_latest :
       /\ x.kind = "clean"
       /\ base' = [base EXCEPT ![t] = [seq |-> x.seq, state |-> x.state]]
  /\ pc' = [pc EXCEPT ![t] = "loaded"]
  /\ UNCHANGED <<dbVars, hubVars, at, held, seq, next>>

\* What was loaded goes into the hub, if there is one, with a plain store.
StoreLoaded(t) ==
  /\ pc[t] = "loaded"
  /\ pc' = [pc EXCEPT ![t] = "based"]
  /\ live' = IF held[t] THEN [live EXCEPT ![at[t]] = base[t]] ELSE live
  /\ UNCHANGED <<dbVars, hubUp, at, held, base, seq, next>>

-----------------------------------------------------------------------------
(* The transaction.                                                        *)

\* Mutant: the hub is updated before the commit.
stamp_and_store(t) ==
  LET new == apply_event(catch_up_base(base[t], nextSeq), nextSeq)
  IN  /\ pc[t] = "based" /\ base[t] # None /\ lock = NoTask /\ nextSeq <= MaxSeq
      /\ lock' = t
      /\ pc' = [pc EXCEPT ![t] = "stamped"]
      /\ seq' = [seq EXCEPT ![t] = nextSeq]
      /\ next' = [next EXCEPT ![t] = new]
      /\ live' = IF held[t] THEN [live EXCEPT ![at[t]] = [seq |-> nextSeq, state |-> new]]
                            ELSE live
      /\ UNCHANGED <<nextSeq, rowKind, snaps, hubUp, at, held, base>>

\* alloc_seq_block_in_tx blocks on the row lock; the event row and the new
\* snapshot row stay invisible to other transactions until the commit.
stamp_append_snapshot(t) ==
  /\ pc[t] = "based" /\ lock = NoTask /\ nextSeq <= MaxSeq
  /\ lock' = t
  /\ pc' = [pc EXCEPT ![t] = "stamped"]
  /\ seq' = [seq EXCEPT ![t] = nextSeq]
  /\ next' = [next EXCEPT ![t] =
                IF base[t] = None THEN Blank
                ELSE apply_event(catch_up_base(base[t], nextSeq), nextSeq)]
  /\ UNCHANGED <<nextSeq, rowKind, snaps, hubVars, at, held, base>>

\* Mutant: the snapshot is upserted, not inserted as a new version.
CommitUpsert(t) ==
  /\ pc[t] = "stamped"
  /\ nextSeq' = seq[t] + 1
  /\ rowKind' = [rowKind EXCEPT ![seq[t]] = "ws"]
  /\ snaps' = {[seq |-> seq[t], state |-> next[t], kind |-> "clean"]}
  /\ lock' = NoTask
  /\ pc' = [pc EXCEPT ![t] = "committed"]
  /\ UNCHANGED <<hubVars, at, held, base, seq, next>>

Commit(t) ==
  /\ pc[t] = "stamped"
  /\ nextSeq' = seq[t] + 1
  /\ rowKind' = [rowKind EXCEPT ![seq[t]] = "ws"]
  /\ snaps' = snaps \union {[seq |-> seq[t], state |-> next[t], kind |-> "clean"]}
  /\ lock' = NoTask
  /\ pc' = [pc EXCEPT ![t] = "committed"]
  /\ UNCHANGED <<hubVars, at, held, base, seq, next>>

\* A handler that reads and does not write, or whose transaction fails: the
\* rollback also returns the seq.
Abandon(t) ==
  /\ pc[t] \in {"cold", "loaded", "based", "stamped"}
  /\ lock' = IF lock = t THEN NoTask ELSE lock
  /\ Return(t)
  /\ UNCHANGED <<nextSeq, rowKind, snaps, hubVars>>

store_and_broadcast(t) ==
  /\ pc[t] = "committed"
  /\ live' = IF held[t]
             THEN [live EXCEPT ![at[t]] = rcu(@, [seq |-> seq[t], state |-> next[t]])]
             ELSE live
  /\ Return(t)
  /\ UNCHANGED <<dbVars, hubUp>>

-----------------------------------------------------------------------------
(* The environment of the write path.                                      *)

\* shadow_persist draws a seq for which no row is ever written.
alloc_seq ==
  /\ lock = NoTask /\ nextSeq <= MaxSeq
  /\ nextSeq' = nextSeq + 1
  /\ UNCHANGED <<rowKind, snaps, lock, hubVars, taskVars>>

\* Mutant: ORDER BY seq, the oldest rows survive.
compact_all_oldest ==
  LET ranked == {x \in snaps : x.kind # "dirty"}
  IN  /\ Cardinality(ranked) > KeepN
      /\ \E keep \in SUBSET ranked :
           /\ Cardinality(keep) = KeepN
           /\ \A x \in keep, y \in ranked \ keep : y.seq >= x.seq
           /\ snaps' = (snaps \ ranked) \union keep
      /\ UNCHANGED <<nextSeq, rowKind, lock, hubVars, taskVars>>

\* Mutant: without WHERE dirty = FALSE a sentinel takes a clean row's place.
compact_all_any ==
  /\ Cardinality(snaps) > KeepN
  /\ \E keep \in SUBSET snaps :
       /\ Cardinality(keep) = KeepN
       /\ \A x \in keep, y \in snaps \ keep : y.seq <= x.seq
       /\ snaps' = keep
  /\ UNCHANGED <<nextSeq, rowKind, lock, hubVars, taskVars>>

\* ROW_NUMBER() OVER (ORDER BY seq DESC) over the rows that are not dirty,
\* the seed included; rows of equal seq are numbered in any order.
compact_all ==
  LET ranked == {x \in snaps : x.kind # "dirty"}
  IN  /\ Cardinality(ranked) > KeepN
      /\ \E keep \in SUBSET ranked :
           /\ Cardinality(keep) = KeepN
           /\ \A x \in keep, y \in ranked \ keep : y.seq <= x.seq
           /\ snaps' = (snaps \ ranked) \union keep
      /\ UNCHANGED <<nextSeq, rowKind, lock, hubVars, taskVars>>

\* A replica dies: its memory is gone and Postgres rolls its transactions back.
Crash(r) ==
  LET dead == {t \in Tasks : at[t] = r}
  IN  /\ hubUp' = hubUp \ {r}
      /\ live' = [live EXCEPT ![r] = None]
      /\ ReturnAll(dead)
      /\ lock' = IF lock \in dead THEN NoTask ELSE lock
      /\ UNCHANGED <<nextSeq, rowKind, snaps>>

-----------------------------------------------------------------------------
(* A session whose first event has been committed.                         *)

Init ==
  /\ nextSeq = 2
  /\ rowKind = [n \in Seqs |-> IF n = 1 THEN "ws" ELSE "none"]
  /\ snaps = {[seq |-> 1, state |-> [n \in Seqs |-> IF n = 1 THEN 1 ELSE 0],
               kind |-> "clean"]}
  /\ lock = NoTask
  /\ hubUp = {}
  /\ live = [r \in Replicas |-> None]
  /\ pc = [t \in Tasks |-> "idle"]
  /\ at = [t \in Tasks |-> None]
  /\ held = [t \in Tasks |-> FALSE]
  /\ base = [t \in Tasks |-> None]
  /\ seq = [t \in Tasks |-> 0]
  /\ next = [t \in Tasks |-> Blank]

TaskStep(t) ==
  \/ \E r \in Replicas : WarmHit(t, r) \/ WarmMiss(t, r) \/ EmitNoHub(t, r)
  \/ load_snapshot_from_db(t)
  \/ StoreLoaded(t)
  \/ stamp_append_snapshot(t)
  \/ Commit(t)
  \/ Abandon(t)
  \/ store_and_broadcast(t)

Environment ==
  \/ \E r \in Replicas : get_or_create_hub(r) \/ DropHub(r) \/ Crash(r)
  \/ alloc_seq
  \/ compact_all

Next == Environment \/ \E t \in Tasks : TaskStep(t)

Spec == Init /\ [][Next]_vars

-----------------------------------------------------------------------------
(* Properties.                                                             *)

TypeOK ==
  /\ nextSeq \in 1..(MaxSeq + 1)
  /\ rowKind \in [Seqs -> {"none", "ws", "machine"}]
  /\ snaps \subseteq Row
  /\ lock \in Tasks \union {NoTask}
  /\ hubUp \subseteq Replicas
  /\ live \in [Replicas -> Snapshot \union {None}]
  /\ pc \in [Tasks -> {"idle", "cold", "loaded", "based", "stamped", "committed"}]
  /\ at \in [Tasks -> Replicas \union {None}]
  /\ \A t \in Tasks : pc[t] # "idle" => at[t] \in Replicas
  /\ held \in [Tasks -> BOOLEAN]
  /\ base \in [Tasks -> Snapshot \union {None}]
  /\ seq \in [Tasks -> 0..MaxSeq]
  /\ next \in [Tasks -> States]

\* Every row of session_snapshots holds exactly the fold of the event log up
\* to the row's seq: no event of a concurrent writer is lost or applied twice,
\* whichever base each writer read before it got the seq lock.
RowsExact == \A x \in snaps : Exact(x)

\* The two fields of a LiveSnapshot agree on what Postgres has committed: what
\* a hot attach, a vote's policy read and the next writer's base take from the
\* ArcSwap is the fold of the committed log up to the seq it carries.
LiveExact == \A r \in Replicas : live[r] # None => Exact(live[r]) /\ live[r].seq < nextSeq

\* A cold attach never goes back in time: whatever row ORDER BY seq DESC
\* LIMIT 1 returns, after any crash and any compaction, reflects every event
\* that has been committed.
LatestRowCurrent ==
  /\ snaps # {}
  /\ \A x \in get_latest : \A n \in Seqs : rowKind[n] = "ws" => n <= x.seq

\* The write path implements the abstract ledger: the events table is the
\* log, session_snapshots the durable snapshots, the ArcSwap the view.
Ledger == INSTANCE SessionLedger WITH
            log  <- {n \in Seqs : rowKind[n] = "ws"},
            rows <- {[seq |-> x.seq, state |-> x.state] : x \in snaps},
            view <- live

LedgerSpec == Ledger!Spec
=============================================================================
