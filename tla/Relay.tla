------------------------------- MODULE Relay -------------------------------
(***************************************************************************)
(* Cross-session bundles on their way from the session that emits them to  *)
(* the task of the session they are for: the lease-gated dispatch into the *)
(* replica's in-memory reflector log, the durable hand-over to the replica *)
(* that owns the target session, online delivery, and the backlog a task   *)
(* drains when it starts, from a watermark kept in Postgres.               *)
(*                                                                         *)
(* Every session task and every dispatch is a process of its own; a step   *)
(* ends where the code awaits the database or another thread can run.      *)
(* A task outlives its handle: handle_ws drops the entry of the topology   *)
(* map, the receive loop keeps its own sender and goes on.                 *)
(***************************************************************************)
EXTENDS Integers, Sequences, FiniteSets

CONSTANTS
    Replicas, Sessions,
    Bundles,        \* bundle -> [from: replica that emits it, to: session]
    None,           \* no replica
    MaxAttempts,    \* MAX_DISPATCH_ATTEMPTS
    Scenes          \* bounds of a behaviour: the replicas clients connect to, how many
                    \* tasks are ever spawned, how many faults happen together

ASSUME RelayAssumption == /\ None \notin Replicas
                          /\ \A b \in DOMAIN Bundles : Bundles[b].from \in Replicas /\ Bundles[b].to \in Sessions
                          /\ MaxAttempts \in Nat \ {0}
                          /\ Scenes \subseteq [homes: SUBSET Replicas, tasks: Nat, faults: Nat]

BundleIds == DOMAIN Bundles
MaxTasks  == CHOOSE n \in {c.tasks : c \in Scenes} : \A c \in Scenes : c.tasks <= n

VARIABLES
    log,       \* replica -> sequence of [seq, b]: LocalReflector.log
    nextSeq,   \* replica -> next_seq
    epoch,     \* replica -> epoch, advanced by compact()
    lease,     \* replica -> session -> the Session class is leased
    disp,      \* bundle -> [pc, tries, guard, at, dest]: route_bundle in progress
    rows,      \* reflector_forwarded_bundles not consumed: set of [b, owner]
    hand,      \* replica -> rows claimed by the listener and not yet appended
    place,     \* session_placements: session -> [owner, fresh]; nothing reads the fencing token
    cursor,    \* session_reflector_cursors: session -> [seq, epoch]
    handle,    \* replica -> sessions in the topology map
    tasks,     \* sequence of task instances [r, s, pc, from, high]
    given,     \* bundle -> times put in a mailbox of its session's tasks
    homes,     \* session -> replicas that ever ran a task for it
    pruned,    \* bundles removed by compact()
    expired,   \* bundles past their ttl_ms
    doubled,   \* bundles whose row was written although the INSERT reported an error
    dropped,   \* bundles whose rows were claimed by an UPDATE whose answer was lost
    faults, crashed,
    scene      \* the member of Scenes that bounds this behaviour

vars == <<log, nextSeq, epoch, lease, disp, rows, hand, place, cursor, handle, tasks, given,
          homes, pruned, expired, doubled, dropped, faults, crashed, scene>>
reflector == <<log, nextSeq, epoch>>
durable   == <<rows, place, cursor>>
unheard   == <<doubled, dropped>>
history   == <<homes, pruned, expired, unheard, faults, crashed, scene>>

Zero == [seq |-> 0, epoch |-> 0]   \* ReflectorCursor::zero
Idle == [pc |-> "idle", tries |-> 0, guard |-> FALSE, at |-> None, dest |-> None]

Init ==
    /\ log = [r \in Replicas |-> <<>>]
    /\ nextSeq = [r \in Replicas |-> 1]
    /\ epoch = [r \in Replicas |-> 0]
    /\ lease = [r \in Replicas |-> [s \in Sessions |-> FALSE]]
    /\ disp = [b \in BundleIds |-> Idle]
    /\ rows = {} /\ hand = [r \in Replicas |-> {}]
    /\ place = [s \in Sessions |-> [owner |-> None, fresh |-> FALSE]]
    /\ cursor = [s \in Sessions |-> Zero]
    /\ handle = [r \in Replicas |-> {}]
    /\ tasks = <<>>
    /\ given = [b \in BundleIds |-> 0]
    /\ homes = [s \in Sessions |-> {}]
    /\ pruned = {} /\ expired = {} /\ doubled = {} /\ dropped = {} /\ faults = 0 /\ crashed = {}
    /\ scene \in Scenes

----------------------------------------------------------------------------
(* Reflector. *)

Append1(r, b) ==
    /\ log' = [log EXCEPT ![r] = Append(@, [seq |-> nextSeq[r], b |-> b])]
    /\ nextSeq' = [nextSeq EXCEPT ![r] = @ + 1]
    /\ UNCHANGED epoch

(* What is replayed after a watermark, as positions of the log.  A watermark
   of another epoch starts over; bundles past their TTL stay behind. *)
ReplayFrom(r, from) ==
    LET floor == IF from.epoch = epoch[r] THEN from.seq ELSE 0
    IN  {i \in DOMAIN log[r] : log[r][i].seq > floor /\ log[r][i].b \notin expired}

(* Age-based reclamation takes a prefix and starts a new epoch. *)
Compact(r) ==
    /\ faults < scene.faults /\ log[r] # <<>>
    /\ \E n \in 1..Len(log[r]) :
         /\ log' = [log EXCEPT ![r] = SubSeq(@, n + 1, Len(@))]
         /\ pruned' = pruned \cup {log[r][i].b : i \in 1..n}
    /\ epoch' = [epoch EXCEPT ![r] = @ + 1]
    /\ faults' = faults + 1
    /\ UNCHANGED <<nextSeq, lease, disp, hand, durable, handle, tasks, given, homes, expired, unheard, crashed, scene>>

(* The clock passes a bundle's ttl_ms. *)
Expire(b) ==
    /\ faults < scene.faults /\ disp[b] # Idle /\ b \notin expired
    /\ expired' = expired \cup {b} /\ faults' = faults + 1
    /\ UNCHANGED <<reflector, lease, disp, hand, durable, handle, tasks, given, homes, pruned, unheard, crashed, scene>>

----------------------------------------------------------------------------
(* Dispatch: Effect::Bundle -> route_bundle -> Reflector::dispatch. *)

Go(b, pc) == disp' = [disp EXCEPT ![b].pc = pc]

Emit(b) ==
    /\ disp[b] = Idle
    /\ disp' = [disp EXCEPT ![b] = [@ EXCEPT !.pc = "check", !.at = Bundles[b].from]]
    /\ UNCHANGED <<reflector, lease, durable, hand, handle, tasks, given, history>>

Owner(s) == IF place[s].fresh THEN place[s].owner ELSE None

Elsewhere(b) == Owner(Bundles[b].to) \notin {None, disp[b].at}

(* LeaseManager::plan looks for a holder, and the only one a replica ever sees
   is itself. *)
PlanLocal(b) == Go(b, IF lease[disp[b].at][Bundles[b].to] THEN "append" ELSE "acquire")

(* durable_session_owner_conflict: a fresh placement elsewhere settles it. *)
CheckOwner(b) ==
    /\ disp[b].pc = "check"
    /\ IF Elsewhere(b)
       THEN disp' = [disp EXCEPT ![b].pc = "forward", ![b].dest = Owner(Bundles[b].to)]
       ELSE PlanLocal(b)
    /\ UNCHANGED <<reflector, lease, durable, hand, handle, tasks, given, history>>

(* A lookup that fails is logged and taken for no owner. *)
OwnerUnknown(b) ==
    /\ disp[b].pc = "check" /\ Elsewhere(b) /\ faults < scene.faults
    /\ PlanLocal(b)
    /\ faults' = faults + 1
    /\ UNCHANGED <<reflector, lease, durable, hand, handle, tasks, given, homes, pruned, expired, unheard, crashed, scene>>

(* The bundle goes to the owner's rows, ... *)
InsertRow(b) ==
    /\ rows' = rows \cup {[b |-> b, owner |-> disp[b].dest]}
    /\ UNCHANGED <<reflector, unheard, faults>>

(* Mutant: an INSERT that fails is logged, and that is all. *)
InsertFailsDropping(b) ==
    /\ faults < scene.faults /\ faults' = faults + 1
    /\ UNCHANGED <<reflector, rows, unheard>>

(* ... or, when the INSERT fails, to this replica's own log.  A connection that
   fails after the row was written reports the same error. *)
InsertFails(b) ==
    /\ faults < scene.faults /\ faults' = faults + 1
    /\ Append1(disp[b].at, b)
    /\ \/ UNCHANGED <<rows, unheard>>
       \/ /\ rows' = rows \cup {[b |-> b, owner |-> disp[b].dest]}
          /\ doubled' = doubled \cup {b} /\ UNCHANGED dropped

(* forward() answers Forwarded either way, and route_bundle delivers nothing. *)
Forward(b) ==
    /\ disp[b].pc = "forward"
    /\ InsertRow(b) \/ InsertFails(b)
    /\ disp' = [disp EXCEPT ![b] = [Idle EXCEPT !.pc = "done", !.at = disp[b].at]]
    /\ UNCHANGED <<lease, place, cursor, hand, handle, tasks, given, homes, pruned, expired, crashed, scene>>

(* A lost race is retried from the start, MaxAttempts times in all; after
   that the bundle is appended without a lease rather than dropped. *)
TryAcquire(b) ==
    LET r == disp[b].at  s == Bundles[b].to IN
    /\ disp[b].pc = "acquire"
    /\ IF ~lease[r][s]
       THEN /\ lease' = [lease EXCEPT ![r][s] = TRUE]
            /\ disp' = [disp EXCEPT ![b].pc = "append", ![b].guard = TRUE]
       ELSE /\ UNCHANGED lease
            /\ disp' = [disp EXCEPT ![b].tries = @ + 1,
                                    ![b].pc = IF disp[b].tries + 1 < MaxAttempts THEN "check" ELSE "append"]
    /\ UNCHANGED <<reflector, durable, hand, handle, tasks, given, history>>

(* The guard is dropped after the append, and with it whatever lease the
   class has by then. *)
DispatchAppend(b) ==
    /\ disp[b].pc = "append"
    /\ Append1(disp[b].at, b)
    /\ lease' = IF disp[b].guard THEN [lease EXCEPT ![disp[b].at][Bundles[b].to] = FALSE] ELSE lease
    /\ disp' = [disp EXCEPT ![b].pc = "deliver", ![b].guard = FALSE, ![b].tries = 0]
    /\ UNCHANGED <<durable, hand, handle, tasks, given, history>>

LeaseExpires(r, s) ==
    /\ lease[r][s] /\ faults < scene.faults
    /\ lease' = [lease EXCEPT ![r][s] = FALSE]
    /\ faults' = faults + 1
    /\ UNCHANGED <<reflector, disp, durable, hand, handle, tasks, given, homes, pruned, expired, unheard, crashed, scene>>

(* Mutant: online delivery is left to tasks that have finished starting. *)
DeliverOrQueueLate(r, b) ==
    given' = IF \E i \in DOMAIN tasks : tasks[i].r = r /\ tasks[i].s = Bundles[b].to /\ tasks[i].pc = "up"
             THEN [given EXCEPT ![b] = @ + 1] ELSE given

(* deliver_or_queue: a registered task gets it now, else it stays in the log. *)
DeliverOrQueue(r, b) ==
    given' = IF Bundles[b].to \in handle[r] THEN [given EXCEPT ![b] = @ + 1] ELSE given

Deliver(b) ==
    /\ disp[b].pc = "deliver"
    /\ DeliverOrQueue(disp[b].at, b)
    /\ Go(b, "done")
    /\ UNCHANGED <<reflector, lease, durable, hand, handle, tasks, history>>

----------------------------------------------------------------------------
(* The owner's listener: one UPDATE claims every pending row, then each
   bundle is appended and delivered. *)

ClaimPending(r) ==
    /\ hand' = [hand EXCEPT ![r] = @ \cup {x.b : x \in {y \in rows : y.owner = r}}]
    /\ rows' = {y \in rows : y.owner # r}

ListenerClaims(r) ==
    /\ hand[r] = {} /\ \E y \in rows : y.owner = r
    /\ ClaimPending(r)
    /\ UNCHANGED <<reflector, lease, disp, place, cursor, handle, tasks, given, history>>

(* The UPDATE commits and its answer is lost: claim_pending fails, the listener
   logs it, and the rows are consumed for good. *)
ClaimUnheard(r) ==
    /\ hand[r] = {} /\ (\E y \in rows : y.owner = r) /\ faults < scene.faults
    /\ dropped' = dropped \cup {x.b : x \in {y \in rows : y.owner = r}}
    /\ rows' = {y \in rows : y.owner # r}
    /\ faults' = faults + 1
    /\ UNCHANGED <<reflector, lease, disp, hand, place, cursor, handle, tasks, given, homes, pruned, expired,
                   doubled, crashed, scene>>

ListenerDelivers(r, b) ==
    /\ b \in hand[r]
    /\ hand' = [hand EXCEPT ![r] = @ \ {b}]
    /\ Append1(r, b)
    /\ DeliverOrQueue(r, b)
    /\ UNCHANGED <<lease, disp, durable, handle, tasks, history>>

----------------------------------------------------------------------------
(* Session tasks. *)

Spawn(r, s) ==
    /\ s \notin handle[r] /\ r \in scene.homes /\ Len(tasks) < scene.tasks
    /\ handle' = [handle EXCEPT ![r] = @ \cup {s}]
    /\ tasks' = Append(tasks, [r |-> r, s |-> s, pc |-> "boot", from |-> Zero, high |-> Zero])
    /\ homes' = [homes EXCEPT ![s] = @ \cup {r}]
    /\ UNCHANGED <<reflector, lease, disp, durable, hand, given, pruned, expired, unheard, faults, crashed, scene>>

(* The last client leaves: the map entry goes, the task stays. *)
DropHandle(r, s) ==
    /\ s \in handle[r]
    /\ handle' = [handle EXCEPT ![r] = @ \ {s}]
    /\ UNCHANGED <<reflector, lease, disp, durable, hand, tasks, given, history>>

(* drain_reflector_backlog: read the watermark, ... *)
ReadCursor(i) ==
    /\ tasks[i].pc = "boot"
    /\ tasks' = [tasks EXCEPT ![i].pc = "drain", ![i].from = cursor[tasks[i].s]]
    /\ UNCHANGED <<reflector, lease, disp, durable, hand, handle, given, history>>

(* ... put every bundle after it that is for this session in the mailbox, ... *)
DrainBacklog(i) ==
    LET t == tasks[i]
        backlog == ReplayFrom(t.r, t.from)
    IN
    /\ t.pc = "drain"
    /\ given' = [b \in BundleIds |->
          given[b] + Cardinality({n \in backlog : log[t.r][n].b = b /\ Bundles[b].to = t.s})]
    /\ \/ /\ backlog = {}
          /\ tasks' = [tasks EXCEPT ![i].pc = "claim", ![i].from = Zero]
       \/ \E last \in backlog :
            /\ \A n \in backlog : n <= last
            /\ tasks' = [tasks EXCEPT ![i].pc = "save", ![i].from = Zero,
                                      ![i].high = [seq |-> log[t.r][last].seq, epoch |-> epoch[t.r]]]
    /\ UNCHANGED <<reflector, lease, disp, durable, hand, handle, history>>

(* Mutant: the watermark is moved to the end of the log as it is now. *)
UpsertLatest(i) ==
    cursor' = [cursor EXCEPT ![tasks[i].s] = [seq |-> nextSeq[tasks[i].r] - 1, epoch |-> epoch[tasks[i].r]]]

Upsert(i) ==
    LET t == tasks[i] IN
    cursor' = [cursor EXCEPT ![t.s] = [seq   |-> IF @.seq > t.high.seq THEN @.seq ELSE t.high.seq,
                                       epoch |-> t.high.epoch]]

(* ... and save how far it got. *)
SaveCursor(i) ==
    /\ tasks[i].pc = "save"
    /\ Upsert(i)
    /\ tasks' = [tasks EXCEPT ![i].pc = "claim", ![i].high = Zero]
    /\ UNCHANGED <<reflector, lease, disp, rows, place, hand, handle, given, history>>

(* session_placements::claim: a renewal, or a take-over of a stale claim. *)
Claim(s, r) ==
    place' = IF place[s].owner = r \/ ~place[s].fresh
             THEN [place EXCEPT ![s] = [owner |-> r, fresh |-> TRUE]] ELSE place

ClaimPlacement(i) ==
    /\ tasks[i].pc = "claim"
    /\ Claim(tasks[i].s, tasks[i].r)
    /\ tasks' = [tasks EXCEPT ![i].pc = "up"]
    /\ UNCHANGED <<reflector, lease, disp, rows, cursor, hand, handle, given, history>>

(* The heartbeat renews a claim that lapsed. *)
Heartbeat(r, s) ==
    /\ s \in handle[r] /\ ~place[s].fresh
    /\ Claim(s, r)
    /\ UNCHANGED <<reflector, lease, disp, rows, cursor, hand, handle, tasks, given, history>>

(* Heartbeats stop arriving for longer than the TTL. *)
Lapse(s) ==
    /\ place[s].fresh /\ faults < scene.faults
    /\ place' = [place EXCEPT ![s].fresh = FALSE]
    /\ faults' = faults + 1
    /\ UNCHANGED <<reflector, lease, disp, rows, cursor, hand, handle, tasks, given, homes, pruned, expired, unheard, crashed, scene>>

(* A replica restarts with an empty log that counts from one again. *)
Crash(r) ==
    /\ faults < scene.faults
    /\ faults' = faults + 1 /\ crashed' = crashed \cup {r}
    /\ log' = [log EXCEPT ![r] = <<>>]
    /\ nextSeq' = [nextSeq EXCEPT ![r] = 1]
    /\ epoch' = [epoch EXCEPT ![r] = 0]
    /\ lease' = [lease EXCEPT ![r] = [s \in Sessions |-> FALSE]]
    /\ hand' = [hand EXCEPT ![r] = {}]
    /\ handle' = [handle EXCEPT ![r] = {}]
    /\ tasks' = [i \in DOMAIN tasks |-> IF tasks[i].r = r THEN [tasks[i] EXCEPT !.pc = "dead", !.from = Zero, !.high = Zero] ELSE tasks[i]]
    /\ disp' = [b \in BundleIds |->
          IF disp[b].at = r /\ disp[b].pc # "idle" THEN [disp[b] EXCEPT !.pc = "done", !.dest = None] ELSE disp[b]]
    /\ UNCHANGED <<durable, given, homes, pruned, expired, unheard, scene>>

----------------------------------------------------------------------------
Dispatch(b) == CheckOwner(b) \/ Forward(b) \/ TryAcquire(b) \/ DispatchAppend(b) \/ Deliver(b)
TaskStep(i) == ReadCursor(i) \/ DrainBacklog(i) \/ SaveCursor(i) \/ ClaimPlacement(i)

Next ==
    \/ \E b \in BundleIds : Emit(b) \/ CheckOwner(b) \/ OwnerUnknown(b) \/ Forward(b)
                            \/ TryAcquire(b) \/ DispatchAppend(b) \/ Deliver(b) \/ Expire(b)
    \/ \E i \in DOMAIN tasks : ReadCursor(i) \/ DrainBacklog(i) \/ SaveCursor(i) \/ ClaimPlacement(i)
    \/ \E r \in Replicas : \/ ListenerClaims(r) \/ ClaimUnheard(r) \/ Compact(r) \/ Crash(r)
                           \/ \E b \in BundleIds : ListenerDelivers(r, b)
                           \/ \E s \in Sessions : Spawn(r, s) \/ DropHandle(r, s) \/ Heartbeat(r, s) \/ LeaseExpires(r, s)
    \/ \E s \in Sessions : Lapse(s)

Spec == Init /\ [][Next]_vars

(* Spawned tasks and dispatches run on Tokio workers and are polled; the
   listener polls every 15 s even when a notification is lost. *)
FairSpec ==
    /\ Spec
    /\ \A b \in BundleIds : WF_vars(Dispatch(b))
    /\ \A i \in 1..MaxTasks : WF_vars(i \in DOMAIN tasks /\ TaskStep(i))
    /\ \A r \in Replicas : WF_vars(ListenerClaims(r)) /\ \A b \in BundleIds : WF_vars(ListenerDelivers(r, b))

----------------------------------------------------------------------------
(* Where a bundle is.  A log keeps it until compact() or the end of the
   replica; delivery only reads it. *)
Filed(b) == UNION {{<<r, i>> : i \in {j \in DOMAIN log[r] : log[r][j].b = b}} : r \in Replicas}

Copies(b) ==
    Cardinality(Filed(b))
    + Cardinality({y \in rows : y.b = b})
    + Cardinality({r \in Replicas : b \in hand[r]})
    + (IF disp[b].pc \in {"check", "forward", "acquire", "append"} THEN 1 ELSE 0)
    + (IF b \in pruned THEN 1 ELSE 0)

Somewhere(b) ==
    \/ Filed(b) # {} \/ b \in pruned
    \/ \E y \in rows : y.b = b
    \/ \E r \in Replicas : b \in hand[r]
    \/ disp[b].pc \in {"check", "forward", "acquire", "append"}

RelayTypeOK ==
    /\ \A r \in Replicas : /\ hand[r] \subseteq BundleIds /\ handle[r] \subseteq Sessions
                           /\ \A i \in DOMAIN log[r] : log[r][i].seq < nextSeq[r]
    /\ \A b \in BundleIds : disp[b].tries <= MaxAttempts /\ given[b] \in Nat
    /\ \A s \in Sessions : cursor[s].seq \in Nat /\ place[s].owner \in Replicas \cup {None}

(* A bundle that was emitted is in exactly one place, whatever leases expire,
   placements lapse, owner lookups and INSERTs fail or tasks come and go:
   dispatch files it here or at the owner, and the listener claims it once.
   Two answers of the database leave the code guessing: an INSERT that wrote the
   row and reported an error puts the bundle here and there, and a claim whose
   answer was lost puts it nowhere.  A replica that crashes loses what it held
   in memory and nothing is duplicated by it. *)
Conserved ==
    \A b \in BundleIds : disp[b] # Idle =>
        /\ b \notin doubled => Copies(b) <= 1
        /\ crashed = {} /\ b \notin dropped => Somewhere(b)

Hides(s, e, r) ==
    e.seq <= cursor[s].seq /\ cursor[s].epoch = epoch[r] /\ Bundles[e.b].to = s

(* The saved watermark covers only bundles that reached a mailbox of the
   session: what a drain skips was delivered by an earlier one or online.
   Holds while one replica, that has not restarted, runs the session's tasks. *)
WatermarkCovers ==
    \A s \in Sessions : \A r \in Replicas \ crashed : homes[s] \subseteq {r} =>
        \A i \in DOMAIN log[r] :
            LET e == log[r][i] IN Hides(s, e, r) => given[e.b] >= 1 \/ e.b \in expired

(* drain_reflector_backlog says the watermark "is harmless across an actual
   server restart too", because replaying it "against a fresh, empty log just
   returns nothing": it would never hide a bundle nobody was given. *)
WatermarkHarmless ==
    \A s \in Sessions : \A r \in Replicas : homes[s] \subseteq {r} =>
        \A i \in DOMAIN log[r] :
            LET e == log[r][i] IN Hides(s, e, r) => given[e.b] >= 1 \/ e.b \in expired

(* A bundle in the log of a replica that has a registered task for its
   session reaches that task: the task registered before it drains, so what
   the drain did not see is delivered online.  A bundle appended after the
   drain and before the registration would be stranded. *)
Arrives ==
    \A b \in BundleIds : \A r \in Replicas :
        LET s == Bundles[b].to IN
        (s \in handle[r] /\ \E i \in DOMAIN log[r] : log[r][i].b = b)
        ~> \/ given[b] >= 1 \/ b \in pruned \cup expired
           \/ r \in crashed \/ s \notin handle[r] \/ homes[s] # {r}

============================================================================
