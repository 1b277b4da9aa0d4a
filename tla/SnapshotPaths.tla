--------------------------- MODULE SnapshotPaths ---------------------------
(***************************************************************************)
(* Everything else that writes the projections SnapshotWrite maintains:    *)
(*   - session tasks (session_task.rs), each a machine with a memory of    *)
(*     its own that persists its own events and stores its own snapshot;   *)
(*   - the LISTEN/NOTIFY subscriber (notifier.rs), which replays another   *)
(*     replica's events onto this replica's hub;                           *)
(*   - presence patches (broadcast_presence);                              *)
(*   - REST emitters that find a hub whose ArcSwap is still empty;         *)
(*   - the rebuild from fact tables behind a seed or dirty row;            *)
(*   - epoch revocation (routes/epoch.rs), which marks the snapshot dirty  *)
(*     and empties the ArcSwap.                                            *)
(* Each is a family of actions; the specifications at the end say which    *)
(* families run together.                                                  *)
(***************************************************************************)
EXTENDS SnapshotWrite

CONSTANTS Machines,  \* bound: session tasks that may be spawned
          MaxRevokes \* bound: calls of the revoke endpoint

VARIABLES
  mach,   \* the session tasks
  spool,  \* spawned snapshot writes (write_async) still to run
  notes,  \* pg_notify messages still to be received: [to, seq]
  owes,   \* the task will call notify_session after its commit
  job,    \* "write", or "deliver" for the notifier's task
  got,    \* what a rebuild has read so far, and whether it is for a dirty row
  revs    \* revoke calls so far

extraVars == <<mach, spool, notes, owes, job, got, revs>>
allVars   == <<vars, extraVars>>

\* on: its replica; cur: its hub and its handle are the registered ones; hub:
\* the state of its hub when they no longer are; mem: how often each ws event
\* has been folded into its memory; mail: seqs of ws events bridged to its
\* mailbox; seq: the row it has persisted.
NoMachine == [on |-> None, cur |-> FALSE, hub |-> None, pc |-> "idle",
              mem |-> Blank, mail |-> {}, seq |-> 0]

PathsInit ==
  /\ mach = [m \in Machines |-> NoMachine]
  /\ spool = {}
  /\ notes = {}
  /\ owes = [t \in Tasks |-> FALSE]
  /\ job = [t \in Tasks |-> "write"]
  /\ got = [t \in Tasks |-> {}]
  /\ revs = 0

\* sessions::create: the counter at 1, an empty seed row, no event yet.
SeedInit ==
  /\ nextSeq = 1
  /\ rowKind = [n \in Seqs |-> "none"]
  /\ snaps = {[seq |-> 0, state |-> Blank, kind |-> "seed"]}
  /\ lock = NoTask
  /\ hubUp = {}
  /\ live = [r \in Replicas |-> None]
  /\ pc = [t \in Tasks |-> "idle"]
  /\ at = [t \in Tasks |-> None]
  /\ held = [t \in Tasks |-> FALSE]
  /\ base = [t \in Tasks |-> None]
  /\ seq = [t \in Tasks |-> 0]
  /\ next = [t \in Tasks |-> Blank]
  /\ PathsInit

\* AppState.sessions of replica r.
Registered(r) == {m \in Machines : mach[m].on = r /\ mach[m].cur}

StateOf(s) == IF s = None THEN None ELSE s.state

Forget(ts) ==
  /\ owes' = [t \in Tasks |-> owes[t] /\ t \notin ts]
  /\ job' = [t \in Tasks |-> IF t \in ts THEN "write" ELSE job[t]]
  /\ got' = [t \in Tasks |-> IF t \in ts THEN {} ELSE got[t]]

-----------------------------------------------------------------------------
(* The write path of SnapshotWrite, with what it means for the others.     *)

Handle(t, r) ==
  /\ WarmHit(t, r) \/ WarmMiss(t, r)
  /\ UNCHANGED extraVars

\* emit_to_session and emit_via_task announce their event to other replicas,
\* where there are any: a replica ignores its own notifications.
emit_to_session(t, r) ==
  /\ WarmHit(t, r) \/ EmitNoHub(t, r)
  /\ owes' = [owes EXCEPT ![t] = Replicas # {r}]
  /\ UNCHANGED <<mach, spool, notes, job, got, revs>>

WriteStep(t) ==
  \/ load_snapshot_from_db(t) /\ UNCHANGED extraVars
  \/ StoreLoaded(t) /\ UNCHANGED extraVars
  \/ job[t] = "write" /\ stamp_append_snapshot(t) /\ UNCHANGED extraVars
  \/ Commit(t) /\ UNCHANGED extraVars
  \/ Abandon(t) /\ Forget({t}) /\ UNCHANGED <<mach, spool, notes, revs>>

notify_session(t) ==
  /\ pc[t] = "committed" /\ owes[t]
  /\ notes' = notes \union {[to |-> r, seq |-> seq[t]] : r \in Replicas \ {at[t]}}
  /\ owes' = [owes EXCEPT ![t] = FALSE]
  /\ UNCHANGED <<vars, mach, spool, job, got, revs>>

\* The store, then (for the event kinds that are bridged, if a task is
\* registered) a message to the session task.
StoreAndFeed(t) ==
  /\ ~owes[t]
  /\ store_and_broadcast(t)
  /\ \/ mach' = mach
     \/ /\ job[t] = "write"
        /\ \E m \in Registered(at[t]) : mach' = [mach EXCEPT ![m].mail = @ \union {seq[t]}]
  /\ Forget({t})
  /\ UNCHANGED <<spool, notes, revs>>

\* Dropping the hub and the task's handle does not end the task: it holds a
\* sender of its own mailbox (self_tx), so its recv() never returns None.
HubLifecycle(r) ==
  \/ get_or_create_hub(r) /\ UNCHANGED extraVars
  \/ /\ DropHub(r)
     /\ mach' = [m \in Machines |-> IF mach[m].on # r \/ ~mach[m].cur THEN mach[m]
                              ELSE [mach[m] EXCEPT !.cur = FALSE, !.hub = StateOf(live[r])]]
     /\ UNCHANGED <<spool, notes, owes, job, got, revs>>
  \/ /\ Crash(r)
     /\ mach' = [m \in Machines |-> IF mach[m].on = r THEN NoMachine ELSE mach[m]]
     /\ spool' = {x \in spool : x.on # r}
     /\ Forget({t \in Tasks : at[t] = r})
     /\ UNCHANGED <<notes, revs>>

Compact == compact_all /\ UNCHANGED extraVars

-----------------------------------------------------------------------------
(* Session tasks.                                                          *)

\* get_or_create_session_task: replay_history folds the rows that parse as
\* SessionEvents and skips every WsMessage row.
spawn_session_task(m, r) ==
  /\ r \in hubUp /\ Registered(r) = {} /\ mach[m].on = None
  /\ mach' = [mach EXCEPT ![m] = [NoMachine EXCEPT !.on = r, !.cur = TRUE]]
  /\ UNCHANGED <<vars, spool, notes, owes, job, got, revs>>

shadow_persist(m) ==
  /\ mach[m].pc = "idle"
  /\ \E n \in mach[m].mail :
       /\ alloc_seq
       /\ mach' = [mach EXCEPT ![m].mem = apply_event(@, n), ![m].mail = @ \ {n}]
  /\ UNCHANGED <<spool, notes, owes, job, got, revs>>

\* real_persist, the PersistPlan: seq, row and commit in one transaction.  Its
\* notify has no replica id and every notifier drops it as malformed.
PersistPlan(m) ==
  /\ mach[m].on # None /\ mach[m].pc = "idle"
  /\ lock = NoTask /\ nextSeq <= MaxSeq
  /\ rowKind' = [rowKind EXCEPT ![nextSeq] = "machine"]
  /\ nextSeq' = nextSeq + 1
  /\ mach' = [mach EXCEPT ![m].pc = "persisted", ![m].seq = nextSeq]
  /\ UNCHANGED <<snaps, lock, hubVars, taskVars, spool, notes, owes, job, got, revs>>

\* ... then a plain store: of the machine's own projection when the event's
\* algebra is in SNAPSHOT_DEPENDS_ON, else of its hub's state under a new seq;
\* and a snapshot write that is spawned and not awaited.  A task whose hub was
\* dropped goes on with that hub.
MachineStore(m) ==
  LET r   == mach[m].on
      hub == IF mach[m].cur THEN StateOf(live[r]) ELSE mach[m].hub
  IN  /\ mach[m].pc = "persisted"
      /\ \E s \in {mach[m].mem, hub} \ {None} :
           /\ live' = IF mach[m].cur
                      THEN [live EXCEPT ![r] = [seq |-> mach[m].seq, state |-> s]] ELSE live
           /\ spool' = spool \union {[on |-> r, seq |-> mach[m].seq, state |-> s]}
           /\ mach' = [mach EXCEPT ![m].pc = "idle", ![m].seq = 0,
                                   ![m].hub = IF mach[m].cur THEN None ELSE s]
      /\ UNCHANGED <<dbVars, hubUp, taskVars, notes, owes, job, got, revs>>

write_async ==
  /\ \E x \in spool :
       /\ snaps' = snaps \union {[seq |-> x.seq, state |-> x.state, kind |-> "clean"]}
       /\ spool' = spool \ {x}
  /\ UNCHANGED <<nextSeq, rowKind, lock, hubVars, taskVars, mach, notes, owes, job, got, revs>>

-----------------------------------------------------------------------------
(* The notifier: one listener per replica, events replayed one by one onto *)
(* whatever the hub holds.                                                 *)

Deliver(t, r) ==
  /\ \A u \in Tasks : job[u] = "deliver" => at[u] # r
  /\ \E m \in notes :
       /\ m.to = r
       /\ notes' = notes \ {m}
       /\ seq' = [seq EXCEPT ![t] = m.seq]
  /\ r \in hubUp /\ pc[t] = "idle"
  /\ pc' = [pc EXCEPT ![t] = IF live[r] = None THEN "cold" ELSE "based"]
  /\ base' = [base EXCEPT ![t] = live[r]]
  /\ at' = [at EXCEPT ![t] = r]
  /\ held' = [held EXCEPT ![t] = TRUE]
  /\ job' = [job EXCEPT ![t] = "deliver"]
  /\ UNCHANGED <<dbVars, hubVars, next, mach, spool, owes, got, revs>>

\* After warm_snap, apply_event onto the state it returned; the store that
\* follows is StoreAndFeed.
DeliverApply(t) ==
  /\ job[t] = "deliver" /\ pc[t] = "based"
  /\ next' = [next EXCEPT ![t] = apply_event(base[t].state, seq[t])]
  /\ pc' = [pc EXCEPT ![t] = "committed"]
  /\ UNCHANGED <<dbVars, hubVars, at, held, base, seq, extraVars>>

\* Dropped: no hub here, the row could not be fetched, or the listener was
\* reconnecting.
DropNote ==
  /\ \E m \in notes : notes' = notes \ {m}
  /\ UNCHANGED <<vars, mach, spool, owes, job, got, revs>>

-----------------------------------------------------------------------------
(* Presence: load, patch a member's attached flag, plain store of the same *)
(* seq.                                                                    *)

PresenceLoad(t, r) ==
  /\ r \in hubUp /\ live[r] # None
  /\ Start(t, r, TRUE, live[r], "presence")
  /\ UNCHANGED extraVars

PresenceStore(t) ==
  /\ pc[t] = "presence"
  /\ live' = IF held[t] THEN [live EXCEPT ![at[t]] = base[t]] ELSE live
  /\ Return(t)
  /\ UNCHANGED <<dbVars, hubUp, extraVars>>

-----------------------------------------------------------------------------
(* A base of None: a REST emitter or emit_via_task that finds a registered *)
(* hub with an empty ArcSwap, or a load that fails.  stamp_append_snapshot *)
(* then fabricates a blank snapshot.                                       *)

EmitColdHub(t, r) ==
  /\ r \in hubUp /\ live[r] = None
  /\ Start(t, r, TRUE, None, "based")
  /\ owes' = [owes EXCEPT ![t] = Replicas # {r}]
  /\ UNCHANGED <<mach, spool, notes, job, got, revs>>

LoadFails(t) ==
  /\ pc[t] = "cold" /\ job[t] = "write"
  /\ pc' = [pc EXCEPT ![t] = "based"]
  /\ UNCHANGED <<dbVars, hubVars, at, held, base, seq, next, extraVars>>

-----------------------------------------------------------------------------
(* build_snapshot_from_tables: the fact tables and the counter are read by *)
(* concurrent statements outside any transaction, in either order.         *)

BuildStart(t) ==
  /\ pc[t] = "cold"
  /\ \E x \in get_latest :
       /\ x.kind # "clean"
       /\ got' = [got EXCEPT ![t] = {x.kind}]
  /\ base' = [base EXCEPT ![t] = [seq |-> 0, state |-> Blank]]
  /\ pc' = [pc EXCEPT ![t] = "building"]
  /\ UNCHANGED <<dbVars, hubVars, at, held, seq, next, mach, spool, notes, owes, job, revs>>

\* Mutant: next_seq is taken for the last seq.
BuildReadNext(t) ==
  /\ pc[t] = "building"
  /\ base' = [base EXCEPT ![t].state = FoldTo(MaxSeq), ![t].seq = nextSeq]
  /\ got' = [got EXCEPT ![t] = @ \union {"tables", "counter"}]
  /\ UNCHANGED <<dbVars, hubVars, pc, at, held, seq, next, mach, spool, notes, owes, job, revs>>

BuildRead(t) ==
  /\ pc[t] = "building"
  /\ \/ /\ "tables" \notin got[t]
        /\ base' = [base EXCEPT ![t].state = FoldTo(MaxSeq)]
        /\ got' = [got EXCEPT ![t] = @ \union {"tables"}]
     \/ /\ "counter" \notin got[t]
        /\ base' = [base EXCEPT ![t].seq = nextSeq - 1]
        /\ got' = [got EXCEPT ![t] = @ \union {"counter"}]
  /\ UNCHANGED <<dbVars, hubVars, pc, at, held, seq, next, mach, spool, notes, owes, job, revs>>

\* A dirty row is superseded by insert_clean; a seed row is left as it is.
BuildDone(t) ==
  /\ pc[t] = "building" /\ {"tables", "counter"} \subseteq got[t]
  /\ snaps' = IF "dirty" \in got[t]
              THEN snaps \union {[seq |-> base[t].seq, state |-> base[t].state, kind |-> "clean"]}
              ELSE snaps
  /\ pc' = [pc EXCEPT ![t] = "loaded"]
  /\ got' = [got EXCEPT ![t] = {}]
  /\ UNCHANGED <<nextSeq, rowKind, lock, hubVars, at, held, base, seq, next>>
  /\ UNCHANGED <<mach, spool, notes, owes, job, revs>>

-----------------------------------------------------------------------------
(* routes/epoch.rs::revoke, the part that touches the projections.  The    *)
(* hub is looked up again at every step.                                   *)

\* db::events::current_seq
LastRow(n) == /\ n > 0 => rowKind[n] # "none"
              /\ \A k \in Seqs : rowKind[k] # "none" => k <= n

\* drain_seq is read first ...
RevokeRead(t, r) ==
  /\ pc[t] = "idle" /\ revs < MaxRevokes
  /\ revs' = revs + 1
  /\ pc' = [pc EXCEPT ![t] = "revoking"]
  /\ at' = [at EXCEPT ![t] = r]
  /\ \E n \in 0..MaxSeq : LastRow(n) /\ seq' = [seq EXCEPT ![t] = n]
  /\ UNCHANGED <<dbVars, hubVars, held, base, next, mach, spool, notes, owes, job, got>>

\* ... caps are revoked and the epoch advances, then a dirty sentinel goes in ...
mark_dirty(t) ==
  /\ pc[t] = "revoking"
  /\ LET s == IF live[at[t]] # None THEN live[at[t]].state ELSE Blank
     IN  snaps' = snaps \union {[seq |-> seq[t], state |-> s, kind |-> "dirty"]}
  /\ pc' = [pc EXCEPT ![t] = "marked"]
  /\ UNCHANGED <<nextSeq, rowKind, lock, hubVars, at, held, base, seq, next, extraVars>>

\* ... and this replica's ArcSwap is emptied.
Invalidate(t) ==
  /\ pc[t] = "marked"
  /\ live' = [live EXCEPT ![at[t]] = None]
  /\ pc' = [pc EXCEPT ![t] = "advanced"]
  /\ UNCHANGED <<dbVars, hubUp, at, held, base, seq, next, extraVars>>

\* emit_to_session(EpochAdvanced): with a hub, current_live of the ArcSwap
\* just emptied; without one, the load from the table.
EmitEpochAdvanced(t) ==
  /\ pc[t] = "advanced"
  /\ base' = [base EXCEPT ![t] = live[at[t]]]
  /\ pc' = [pc EXCEPT ![t] = IF at[t] \in hubUp THEN "based" ELSE "cold"]
  /\ held' = [held EXCEPT ![t] = at[t] \in hubUp]
  /\ owes' = [owes EXCEPT ![t] = Replicas # {at[t]}]
  /\ UNCHANGED <<dbVars, hubVars, at, seq, next, mach, spool, notes, job, got, revs>>

\* The sentinel outlives its retention.
compact_dirty_sentinels ==
  /\ \E x \in snaps : x.kind = "dirty" /\ snaps' = snaps \ {x}
  /\ UNCHANGED <<nextSeq, rowKind, lock, hubVars, taskVars, extraVars>>

-----------------------------------------------------------------------------
(* Families and specifications.                                            *)

WritePath ==
  \/ \E t \in Tasks, r \in Replicas : Handle(t, r) \/ emit_to_session(t, r)
  \/ \E t \in Tasks : WriteStep(t) \/ notify_session(t) \/ StoreAndFeed(t)
  \/ \E r \in Replicas : HubLifecycle(r)
  \/ Compact

Machine  == \/ \E m \in Machines : \/ shadow_persist(m) \/ PersistPlan(m) \/ MachineStore(m)
                                  \/ \E r \in Replicas : spawn_session_task(m, r)
            \/ write_async
Notifier == \/ \E t \in Tasks, r \in Replicas : Deliver(t, r)
            \/ \E t \in Tasks : DeliverApply(t)
            \/ DropNote
Presence == \E t \in Tasks : PresenceStore(t) \/ \E r \in Replicas : PresenceLoad(t, r)
ColdEmit == \E t \in Tasks, r \in Replicas : EmitColdHub(t, r)
Rebuild  == \E t \in Tasks : BuildStart(t) \/ BuildRead(t) \/ BuildDone(t)
Revoke   == \/ \E t \in Tasks : \/ mark_dirty(t) \/ Invalidate(t) \/ EmitEpochAdvanced(t)
                                \/ \E r \in Replicas : RevokeRead(t, r)
            \/ compact_dirty_sentinels

\* Every way in and out of the ArcSwap, from a session just created.  Bound: a
\* revocation and a session task do not meet in one behaviour.
Tasked == \E m \in Machines : mach[m] # NoMachine
PathsSpec == SeedInit /\
  [][WritePath \/ Presence \/ ColdEmit \/ Rebuild \/ Notifier
       \/ (~Tasked /\ Revoke) \/ (revs = 0 /\ Machine)
       \/ \E t \in Tasks : LoadFails(t)]_allVars

-----------------------------------------------------------------------------
(* Properties.                                                             *)

PathsTypeOK ==
  /\ nextSeq \in 1..(MaxSeq + 1)
  /\ rowKind \in [Seqs -> {"none", "ws", "machine"}]
  /\ snaps \subseteq Row
  /\ lock \in Tasks \union {NoTask}
  /\ live \in [Replicas -> Snapshot \union {None}]
  /\ pc \in [Tasks -> {"idle", "cold", "loaded", "based", "stamped", "committed",
                       "presence", "building", "revoking", "marked", "advanced"}]
  /\ base \in [Tasks -> Snapshot \union {None}]
  /\ mach \in [Machines -> [on : Replicas \union {None}, cur : BOOLEAN,
                            hub : States \union {None}, pc : {"idle", "persisted"}, mem : States,
                            mail : SUBSET Seqs, seq : 0..MaxSeq]]
  /\ notes \subseteq [to : Replicas, seq : Seqs]
  /\ job \in [Tasks -> {"write", "deliver"}]
  /\ revs \in 0..MaxRevokes

\* The snapshot is never ahead of the event log: whichever of the writers
\* stored it, a snapshot row or an ArcSwap shows only events that are
\* committed, under a seq the counter has handed out.
NeverAhead ==
  /\ \A x \in snaps : x.seq < nextSeq /\ \A k \in Seqs : x.state[k] > 0 => rowKind[k] = "ws"
  /\ \A r \in Replicas : live[r] # None =>
       live[r].seq < nextSeq /\ \A k \in Seqs : live[r].state[k] > 0 => rowKind[k] = "ws"

\* Every WsMessage row stays covered by a snapshot row of at least its seq,
\* whoever marks the snapshot dirty, recomputes it or compacts it.
LogCovered ==
  \A n \in Seqs : rowKind[n] = "ws" => \E x \in snaps : x.seq >= n /\ x.kind = "clean"

=============================================================================
