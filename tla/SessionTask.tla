---------------------------- MODULE SessionTask ----------------------------
(***************************************************************************)
(* The runtime of one session's actor task (server/src/session_task.rs)    *)
(* around the pure machine of SessionTransition.  The task takes one       *)
(* inbound event at a time, computes the transition and executes its       *)
(* effects in order; a Persist writes the event log (only for the events   *)
(* the machine owns), applies the event to memory and executes the effects *)
(* of that replay before it goes on.  In an outage of the database the row *)
(* is not written and the task goes on in shadow mode all the same.  Timers run beside the task and post  *)
(* into its mailbox, so a timer that is cancelled may already be queued.   *)
(* A crash loses memory, timers and mailbox and keeps the log, the sent    *)
(* bundles and the approval row; the restarted task folds the log.         *)
(***************************************************************************)
EXTENDS SessionTransition

CONSTANTS
    Scenes,         \* [rows: the log a task starts from, inputs: what its surroundings do]
    MaxRows,        \* bound: length of the log at which people stop coming and going
    MaxArrivals,    \* bound: times one bundle is handed to the session
    MaxRestarts,    \* bound: crashes followed by a cold start
    MaxMissed       \* bound: rows of one saga that one life of the task fails to write

(* A scene starts before its first saga and its first bundle; a log that has
   them is reached by Restart. *)
ASSUME ScenesAssumption ==
    \A scene \in Scenes :
        /\ scene.rows \in Seq(Range(scene.rows))
        /\ \A n \in DOMAIN scene.rows :
               scene.rows[n].k \notin SagaAlgebra \cup (PolicyAlgebra \ {"PolicySet"})

VARIABLES
    mem,        \* SessionMemory and SessionState
    todo,       \* effects of the current transition still to execute
    log,        \* event rows that parse as SessionEvent
    timers,     \* armed timers
    inbox,      \* what the task and its timers posted to its own mailbox
    running,    \* the task's receive loop is alive
    sent,       \* per saga, the bundles handed to the reflector, in order
    arrivals,   \* per bundle, times the reflector handed it over
    deliveries, \* per bundle, times the saga machine was given it
    row,        \* approval_requests rows that delegations refer to
    restarts,
    missed,     \* per saga, the events that moved memory and have no row, since the task started
    behind,     \* history: the sagas a dead task left further on than the log has them
    inputs      \* the kinds of input of the scene being played; never changes

vars == <<mem, todo, log, timers, inbox, running, sent, arrivals, deliveries, row, restarts,
          missed, behind, inputs>>
world == <<sent, arrivals, deliveries, row, inputs>>
logged == <<log, missed, behind>>

Sources == {Sagas[s].source : s \in SagaIds} \ {NoApproval}

(* Mutant: the end of a saga is left to the hub to write. *)
AutonomousForgetful(e) == e.k \in (SagaAlgebra \ {"SagaTerminated"}) \cup PolicyAlgebra

(* is_machine_autonomous: the events this task writes to the log itself. *)
Autonomous(e) ==
    \/ e.k \in {"ApprovalExpired", "ApprovalInterrupted", "AgentAttached", "AgentDetached"}
    \/ e.k \in SagaAlgebra \cup PolicyAlgebra

(* replay_history folds the rows; of the effects only timers survive, since
   rows of granted approvals are not the machine's. *)
ReplayRow(acc, e) ==
    LET r == ApplyLogged(acc.m, e)
    IN  [m  |-> r.m,
         ts |-> (acc.ts \cup {r.fx[n].t : n \in {x \in DOMAIN r.fx : r.fx[x].k = "arm"}})
                \ {r.fx[n].t : n \in {x \in DOMAIN r.fx : r.fx[x].k = "cancel"}}]

Replay(rows) ==
    LET after[n \in 0..Len(rows)] ==
          IF n = 0 THEN [m |-> NewMemory, ts |-> {}] ELSE ReplayRow(after[n - 1], rows[n])
    IN  after[Len(rows)]

Start(rows) ==
    /\ mem = Replay(rows).m
    /\ timers = Replay(rows).ts
    /\ log = rows

Init ==
    /\ \E scene \in Scenes : Start(scene.rows) /\ inputs = scene.inputs
    /\ todo = <<>> /\ inbox = <<>> /\ running = TRUE
    /\ sent = [s \in SagaIds |-> <<>>]
    /\ arrivals = [b \in BundleIds |-> 0]
    /\ deliveries = [b \in BundleIds |-> 0]
    /\ row = [p \in Sources |-> "Pending"]
    /\ restarts = 0
    /\ missed = [s \in SagaIds |-> 0]
    /\ behind = {}

----------------------------------------------------------------------------
(* One live event at a time; an archived session ignores its input. *)
Listening == running /\ todo = <<>>

Handle(r) ==
    /\ Listening
    /\ mem.state # "Archived"
    /\ mem' = r.m
    /\ todo' = r.fx
    /\ UNCHANGED <<logged, timers, running, restarts>>

(* What clients, routes and other tasks post through the task_* helpers. *)
Presence ==
    /\ "presence" \in inputs /\ Len(log) < MaxRows
    /\ \E a \in Actors :
           /\ \/ Handle(LiveConnected(mem, a))
              \/ Handle(LiveReconnected(mem, a))
              \/ Handle(LiveDisconnected(mem, a))
              \/ Handle(LiveDetach(mem, a))
              \/ \E c \in CapIds : Handle(LiveAttach(mem, a, c))
           /\ UNCHANGED <<inbox, world>>

Admin ==
    /\ "admin" \in inputs
    /\ \/ Handle(LivePause(mem))
       \/ Handle(LiveResume(mem))
       \/ Handle(LiveArchive(mem))
       \/ \E a, b \in Actors : a # b /\ Handle(LiveTransfer(mem, a, b))
    /\ UNCHANGED <<inbox, world>>

(* Messages, context, artifacts and what other sessions forward. *)
Post ==
    /\ "admin" \in inputs
    /\ Handle(LivePost(mem)) \/ Handle(LiveForwarded(mem))
    /\ UNCHANGED <<inbox, world>>

(* A new approval has a new id. *)
Approval ==
    /\ "approval" \in inputs
    /\ \E p \in Approvals :
           /\ \/ /\ mem.appr[p].st = "none"
                 /\ \E a \in Actors, timed \in BOOLEAN : Handle(LiveCreate(mem, p, a, timed))
              \/ \E a \in Actors, d \in {"approve", "deny"} : Handle(LiveVote(mem, p, a, d))
           /\ UNCHANGED <<inbox, world>>

Settle ==
    /\ "approval" \in inputs
    /\ \E p \in Approvals : Handle(LiveClaim(mem, p)) \/ Handle(LiveCancel(mem, p))
    /\ UNCHANGED <<inbox, world>>

(* A new saga has a new id; one that answers for an approval is a delegation. *)
BeginSaga ==
    \E s \in SagaIds :
        /\ mem.sagas[s].st = "none" /\ sent[s] = <<>>
        /\ \/ Sagas[s].source = NoApproval /\ "saga" \in inputs /\ Handle(LiveSagaBegin(mem, s))
           \/ Sagas[s].source # NoApproval /\ "delegate" \in inputs /\ Handle(LiveDelegate(mem, s))
        /\ UNCHANGED <<inbox, world>>

(* A participant answers a step it was sent: any time later, and more than once. *)
AckSaga ==
    \E s \in SagaIds, out \in {"Committed", "Rejected"} :
        \E n \in DOMAIN sent[s] :
            /\ sent[s][n][1] = "step"
            /\ Handle(LiveSagaAck(mem, s, sent[s][n][2], out))
            /\ UNCHANGED <<inbox, world>>

(* A participant acknowledges a step it was sent. *)
Answerable(b) ==
    Bundles[b].kind = "ack" => \E n \in DOMAIN sent[Bundles[b].saga] : sent[Bundles[b].saga][n] = <<"step", Bundles[b].step>>

(* The reflector hands over a bundle, perhaps again, perhaps past its TTL. *)
Intercept ==
    \E b \in BundleIds, fresh \in BOOLEAN :
        /\ Bundles[b].kind \in inputs
        /\ arrivals[b] < MaxArrivals /\ Answerable(b)
        /\ Handle(LiveIntercepted(mem, b, fresh))
        /\ arrivals' = [arrivals EXCEPT ![b] = @ + 1]
        /\ UNCHANGED <<inbox, sent, deliveries, row, inputs>>

(* The task's own mailbox posts: fired timers and bundles let through. *)
Receive ==
    /\ inbox # <<>>
    /\ inbox' = Tail(inbox)
    /\ \E fresh \in BOOLEAN :
         LET x == Head(inbox) IN
         IF x.k = "timer"
         THEN Handle(LiveTimer(mem, x.t, fresh)) /\ UNCHANGED deliveries
         ELSE /\ Handle(LiveReceived(mem, x.b, fresh))
              /\ deliveries' = [deliveries EXCEPT ![x.b] = @ + 1]
    /\ UNCHANGED <<sent, arrivals, row, inputs>>

----------------------------------------------------------------------------
(* run_effects, one effect at a time. *)

(* Mutant: the answer is applied without looking. *)
ResolveSourceBlind(e) == row' = IF e.k = "DelegationResolved" THEN [row EXCEPT ![e.p] = e.d] ELSE row

(* The delegating session revalidates before it applies the answer:
   resolve_if_pending_in_tx changes a row that is still Pending, only. *)
ResolveSource(e) ==
    row' = IF e.k = "DelegationResolved" /\ row[e.p] = "Pending" THEN [row EXCEPT ![e.p] = e.d] ELSE row

(* transition() on the Replayed event, and its effects ahead of the rest;
   handle_cross_session_side_effects went before. *)
Replayed(e) ==
    /\ LET r == ApplyLogged(mem, e)
       IN  /\ mem' = r.m
           /\ todo' = r.fx \o Tail(todo)
    /\ ResolveSource(e)
    /\ UNCHANGED <<timers, inbox, running, sent, arrivals, deliveries, restarts, behind, inputs>>

Persisting == running /\ todo # <<>> /\ Head(todo).k = "persist"

(* real_persist for the machine's own events, shadow_persist for the hub's. *)
RunPersist ==
    /\ Persisting
    /\ LET e == Head(todo).e
       IN  /\ log' = IF Autonomous(e) THEN Append(log, e) ELSE log
           /\ Replayed(e)
    /\ UNCHANGED missed

(* real_persist failed before its commit: the caller falls back to shadow
   mode, so memory and the effects go on and the log has no row. *)
RunFallback ==
    /\ Persisting
    /\ "outage" \in inputs
    /\ LET e == Head(todo).e
       IN  /\ Autonomous(e)
           /\ e.k \in SagaAlgebra => missed[e.s] < MaxMissed
           /\ missed' = IF e.k \in SagaAlgebra THEN [missed EXCEPT ![e.s] = @ + 1] ELSE missed
           /\ Replayed(e)
    /\ UNCHANGED log

RunTimer ==
    /\ running /\ todo # <<>> /\ Head(todo).k \in {"arm", "cancel"}
    /\ timers' = IF Head(todo).k = "arm" THEN timers \cup {Head(todo).t} ELSE timers \ {Head(todo).t}
    /\ todo' = Tail(todo)
    /\ UNCHANGED <<mem, logged, inbox, running, world, restarts>>

RunSend ==
    /\ running /\ todo # <<>> /\ Head(todo).k \in {"bundle", "deliver", "close"}
    /\ LET f == Head(todo) IN
       /\ sent' = IF f.k = "bundle" THEN [sent EXCEPT ![f.s] = Append(@, <<f.what, f.i>>)] ELSE sent
       /\ inbox' = IF f.k = "deliver" THEN Append(inbox, [k |-> "bundle", b |-> f.b]) ELSE inbox
    /\ todo' = Tail(todo)
    /\ UNCHANGED <<mem, logged, timers, running, arrivals, deliveries, row, restarts, inputs>>

(* arm_timer's task forgets its handle, then posts. *)
Fire(t) ==
    /\ running /\ t \in timers
    /\ timers' = timers \ {t}
    /\ inbox' = Append(inbox, [k |-> "timer", t |-> t])
    /\ UNCHANGED <<mem, todo, logged, running, world, restarts>>

(* Archived is terminal: drain the mailbox, abort the timers, end. *)
Stop ==
    /\ Listening /\ mem.state = "Archived"
    /\ running' = FALSE /\ inbox' = <<>> /\ timers' = {}
    /\ UNCHANGED <<mem, todo, logged, world, restarts>>

Crash ==
    /\ running /\ restarts < MaxRestarts
    /\ running' = FALSE /\ todo' = <<>> /\ inbox' = <<>> /\ timers' = {} /\ mem' = NewMemory
    /\ restarts' = restarts + 1
    /\ behind' = behind \cup {s \in SagaIds : Replay(log).m.sagas[s] # mem.sagas[s]}
    /\ missed' = [s \in SagaIds |-> 0]
    /\ UNCHANGED <<log, world>>

Restart ==
    /\ ~running /\ restarts > 0 /\ mem = NewMemory
    /\ running' = TRUE
    /\ mem' = Replay(log).m
    /\ timers' = Replay(log).ts
    /\ UNCHANGED <<todo, logged, inbox, world, restarts>>

(* The source approval may be decided by a direct vote meanwhile. *)
HubDecides ==
    /\ "delegate" \in inputs
    /\ \E p \in Sources, d \in {"Granted", "Denied"} :
           /\ row[p] = "Pending"
           /\ row' = [row EXCEPT ![p] = d]
           /\ UNCHANGED <<mem, todo, logged, timers, inbox, running, sent, arrivals, deliveries, restarts, inputs>>

RunEffects == RunPersist \/ RunFallback \/ RunTimer \/ RunSend

Next ==
    \/ Presence \/ Admin \/ Post \/ Approval \/ Settle \/ BeginSaga \/ AckSaga \/ Intercept
    \/ Receive \/ RunPersist \/ RunFallback \/ RunTimer \/ RunSend
    \/ \E t \in timers : Fire(t)
    \/ Stop \/ Crash \/ Restart \/ HubDecides

Spec == Init /\ [][Next]_vars

SagaTimers == UNION {{SagaTimer(s, i) : i \in 0..(Sagas[s].steps - 1)} : s \in SagaIds}

(* Tokio polls a runnable task and lets every sleep elapse; the mailbox is
   first in first out, so what is posted to it is received although other
   senders keep posting. *)
FairSpec ==
    /\ Spec
    /\ WF_vars(RunEffects)
    /\ SF_vars(Receive)
    /\ \A t \in SagaTimers : WF_vars(Fire(t))

----------------------------------------------------------------------------
(* Properties. *)

(* Memory, mailbox and bookkeeping stay within their domains. *)
TaskTypeOK ==
    /\ mem.state \in {"Active", "Suspended", "Draining", "Archived"}
    /\ mem.eligible \in 0..Cardinality(Actors)
    /\ \A p \in Approvals : mem.appr[p].st \in {"none", "Pending", "Claimed", "Granted", "Denied", "Expired", "Interrupted"}
    /\ \A s \in SagaIds : mem.sagas[s].st \in {"none", "Running", "Waiting", "Compensating", "Completed", "Aborted"}
    /\ \A p \in Sources : row[p] \in {"Pending", "Granted", "Denied"}
    /\ restarts \in 0..MaxRestarts
    /\ missed \in [SagaIds -> 0..MaxMissed]

(* The bundles of a saga that sent its first steps and compensated, the last
   one first, the steps before the failed one. *)
Trace(steps, comps) ==
    [n \in 1..(steps + comps) |-> IF n <= steps THEN <<"step", n - 1>> ELSE <<"comp", 2 * steps - 1 - n>>]

(* live_saga_ack: a saga that ends sent its steps once each and in order; one
   that completed compensated nothing, one that aborted compensated exactly
   the steps before the failed one, last first - whatever late and repeated
   acknowledgements, timeouts, unwritten rows and restarts happened on the
   way, unless a restart found the saga set back (handle_persist's fallback). *)
CompensatedExactly ==
    \A s \in SagaIds \ behind :
        /\ mem.sagas[s].st = "Completed" => sent[s] = Trace(Sagas[s].steps, 0)
        /\ mem.sagas[s].st = "Aborted" => \E k \in 1..Sagas[s].steps : sent[s] = Trace(k, k - 1)

(* handle_persist, replay_history: at every point of the effect list a task
   that died now would find a saga again as memory has it, if each of its
   events since the task started was written; no event of another saga, no
   outage of an earlier life and no half executed list makes a difference. *)
SagaRecoverable ==
    running => \A s \in SagaIds : missed[s] = 0 => Replay(log).m.sagas[s] = mem.sagas[s]

(* "Persist the full spec so cold replay can reconstruct the SagaRecord"
   (transition.rs, live_saga_begin): a task that starts finds every saga as
   the task before it had it. *)
ReplayReconstructs == behind = {}

(* A gate set while this task lives keeps its bundle: the replay of the gate
   event never replaces the entry the handler made. *)
GateHolds ==
    \A b \in BundleIds : running /\ restarts = 0 /\ mem.gates[b].kind # "none" => mem.gates[b].held

(* However gates, defer timers and repeated arrivals interleave, the saga
   machine is given a bundle at most as often as the reflector handed it over. *)
DeliveredOnce == \A b \in BundleIds : deliveries[b] <= arrivals[b]

(* "Transitions are monotone - once terminal, cannot revert" (memory.rs,
   ApprovalStatus), for as long as the task's memory lives. *)
MonotoneApproval ==
    [][\A p \in Approvals : running' /\ Terminal(mem.appr[p].st) => mem'.appr[p].st = mem.appr[p].st]_vars

(* "A stale/late Ack must not overwrite an approval A already resolved"
   (session_task.rs, CrossSessionDelegationResolved). *)
SourceDecidedOnce == [][\A p \in Sources : row[p] # "Pending" => row'[p] = row[p]]_vars

(* A saga that waits for a participant ends - by its acknowledgement or by
   the step timer - unless the process restarts or the session is archived. *)
SagaEnds ==
    \A s \in SagaIds :
        mem.sagas[s].st = "Waiting" ~> (SagaOver(mem.sagas[s].st) \/ restarts > 0 \/ mem.state = "Archived")

============================================================================
