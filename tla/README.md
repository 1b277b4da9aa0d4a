# Solarplex: TLA+ models, model checks and proofs

Solarplex is a session server: humans and agents share a session, everything
that happens in it is an event, agents ask permission for tool calls, and
authority is carried by capabilities. The server (Axum, Postgres, one or more
replicas) is about 20 000 lines of Rust, with some 40 000 around it (database
crate, session machine, agent shim, guardian, CLI). This directory models the
parts whose correctness depends on the order of steps: who reads what before
whose commit, and what a crash, a lost message or a timeout leaves behind.

Contents: [inventory](#inventory), [modules and the code](#modules-and-the-code),
[runs](#runs), [proofs](#proofs), [findings](#findings),
[limits](#what-is-only-model-checked-and-what-is-not-modelled), [plan](#plan).

## Inventory

Paths are below `src/crates/` unless they say otherwise.

| component | state | operations | modelled in |
|---|---|---|---|
| Event write path (`server/src/ws.rs`, `db/src/events.rs`, `db/src/snapshots.rs`) | `events`, `session_sequences`, `session_snapshots`; per replica a hub with an ArcSwap'd `LiveSnapshot` | handlers stamp, append, fold and commit an event, then store and broadcast; attach, detach, compaction | `SnapshotWrite` (proved), `SessionLedger` (its promise) |
| Other writers of the projection (`server/src/session_task.rs`, `notifier.rs`, `routes/epoch.rs`, `db/src/persist_plan.rs`) | a session task's memory, its mailbox, pending notifications, dirty rows | task persists and stores, notifier replays, presence patches, rebuild from fact tables, revocation invalidates | `SnapshotPaths` |
| Hub and event stream (`ws.rs`, `state.rs`, `notifier.rs`, `event_visibility.rs`, `cli/src/tui`, `cli/src/cmd/watch.rs`) | senders and receivers of a hub, notifications in flight, a dashboard's lists, a cursor file | attach, snapshot, forward, close; store then send; gate and redact; notify other replicas; refetch; poll | `SessionStream` |
| Approvals (`db/src/approvals.rs`, `ws.rs`, `routes/approvals.rs`, `shim/src`) | `approval_requests` rows, votes, the snapshot's pending list, the shim's wait | request, claim, vote, cancel, expire, announce, poll | `Approvals` (proved), `ApprovalGate` (its promise) |
| Capabilities (`db/src/tokens.rs`, `epochs.rs`, `routes/epoch.rs`, `agent_caps.rs`) | `session_tokens` as a tree, `session_epochs` | mint, delegate, revoke (three strategies, with or without reroot), transfer of the root, collection | `CapAuthority` (proved) |
| Object request broker (`routes/invoke.rs`, `db/src/receipts.rs`) | `execution_receipts` | check the cap, ask or auto-approve, issue, consume, collect | `OrbInvoke` (proved), over `CapAuthority` and `ApprovalGate` |
| Session machine (`session/src`) | `SessionState`, `SessionMemory` | `apply_logged`, `apply_live`: participation, approvals, sagas, interception, timers | `SessionTransition` (proved with the task) |
| Session task (`server/src/session_task.rs`) | mailbox, timers, event rows it owns | take an event, run its effects in order, replay what it persisted, restart | `SessionTask` (proved), over `SessionTransition` |
| Reflector, leases, forwarding (`server/src/reflector.rs`, `lease.rs`, `db/src/reflector_*.rs`, `session_placements.rs`) | bundle log, leases, persisted cursors, forwarded bundles, placements | append, dispatch, hand over, claim, drain, compact, heartbeat | `Relay` |
| Cross-session delegation (`session_task.rs`, `routes/approvals.rs`, `db/src/cross_session_delegations.rs`) | two sessions' approvals, the row that joins them | ask, copy, decide, tell, resolve, time out; notes | `Delegation` |
| Ownership, membership, invites, links (`routes/sessions.rs`, `routes/invites.rs`, `routes/session_links.rs`, `ws.rs` sweeper) | `session_memberships`, invites, attach tokens, links, scheduled-transfer artifacts | create, grant, join, redeem, revoke, link, visit, transfer, schedule, sweep | `Membership` |
| Artifacts, proposals, attestations, imports, remotes (`routes/proposals.rs`, `routes/sessions.rs`, `db/src/proposals.rs`, `artifacts.rs`, `session_remotes.rs`, `gc.rs`) | artifacts and hashes, proposals, receipts, attestations, import rows, watermarks | PUT, propose, commit by compare-and-swap, reject, attest, collect, import, fetch | `Content` |
| Signing in and the mailbox (`auth.rs`, `db/src/human_sessions.rs`, `mailbox.rs`) | pending OIDC states, actors, sp_tokens, mailbox routes | start, callback, resolve, backfill, issue, logout; route an invite | `Identity` |
| Agent host (`sidecar/src/proxy.rs`, `shim/src`, `guardian/src`) | the adapter's pending maps, the shim's tasks, the supervised process and its completion queue | intercept, propose, poll, consume, run, supervise, answer | `AgentHost` |
| Agent presence (`proxy.rs`, `shim/src/main.rs`, `routes/sessions.rs`, `ws.rs`) | streams, heartbeats, the actor's attachment | announce, attach, beat, sweep | `AgentPresence` |
| Rate limits (`server/src/rate_limit.rs`, `session/src/rate_limit.rs`) | fixed-window buckets | read the clock, check, sweep | `RateLimit` |
| Secrets CLI (`secrets-*`) | state and bundle files, the decrypted environment | init, encrypt, decrypt, rotate, each dying between writes | `SecretsRotation` |
| Search, reputation, descriptors, intent compiler, web client, deployment | | | not modelled |

`PROJECT.json` has the full list with what each part leaves out and why.

How the parts meet:

- Every WebSocket handler and REST emitter goes through the write path. The
  `session_sequences` row lock is the only thing that orders writers of one
  session, across replicas too.
- A hub exists while somebody is attached. Its snapshot is a cache of
  `session_snapshots`, which is a projection of `events`. Approvals are decided
  with data read from that cache, and written to their own table in the same
  transaction as the event. A client gets the cache once and then what the hub
  sends.
- A session task runs beside the handlers of its replica. It is fed a copy of
  some events, keeps its own memory and writes the same cache and, for the
  events the machine owns, the same log.
- Tasks of linked sessions speak through the reflector: bundles are filed at
  the replica that owns the target session and drained from a saved watermark.
- Replicas tell each other of commits by `pg_notify`, which may be lost.
- `/invoke` checks a cap, opens an approval, and binds a receipt to both.
  Revocation reaches a receipt through the cap's row and the session's epoch, at
  the moment the receipt is consumed. The shim consumes it before the call runs,
  upstream or under the guardian.

What is hard here: bases read before a lock is granted; a hub dropped and
created again under a running handler; a revocation made of separate
statements; a sweeper against the deciding vote; answers, timers and
acknowledgements that are already queued when they are overtaken; checks made in
one statement and used in another at READ COMMITTED; a lease that ends under its
holder; a process that dies between two writes. `PROJECT.json` lists these
hazards at their lines, with the property that would catch each.

What makes each part correct:

- write path: every snapshot, durable or cached, is the fold of a prefix of the
  log; a cold load gets the newest one; nothing committed is lost or applied
  twice;
- stream: who attaches misses nothing that is sent from then on; a poller
  passes over nothing, whenever it is killed;
- approvals: one verdict, final, justified by the session's policy, the same in
  the row and the log, told truthfully to the agent, and reached eventually;
- capabilities: the tree stays a tree, a closed epoch stays closed, a dead cap
  stays dead;
- broker and agent host: an action runs at most once, only if it was approved or
  needed no approval, only while its cap is usable, and never after its client
  was told that it was denied;
- sagas: steps in order and once each, an aborted saga compensates exactly what
  it had done, last first, and a restarted task knows every saga it knew
  and could write down;
- relay: a bundle is in one place at a time unless the database leaves the answer to an
  INSERT or a claim unknown, the watermark hides nothing that was not delivered, and
  what is filed for a running task arrives;
- delegation: the verdict on the source is the one the target's members gave;
- membership: an invite admits one, a session has one owner unless a handler
  acted on a stale reading, a due transfer is settled;
- content: a patch replaces only what its proposer saw, and has its effect
  exactly once; a remote's reader skips nothing;
- limits and secrets: the window's quota holds on both sides; no bundle is in use
  whose epoch is recorded nowhere.

## Modules and the code

**SnapshotWrite** follows one handler activation (a task) through
`warm_snap`/`current_live` (`Start`, `WarmHit`, `WarmMiss`, `EmitNoHub`), the
cold load (`load_snapshot_from_db`, `StoreLoaded`), the transaction
(`stamp_append_snapshot` with `catch_up_base`, `Commit`, or `Abandon` on an
error) and `store_and_broadcast`. `pc` is the place between two awaits:
`idle`, `cold`, `loaded`, `based`, `stamped`, `committed`. `lock` is the row lock
on `session_sequences`. A snapshot's `state` is a count per seq of how often the
event has been folded in, so that loss (0) and duplication (2) differ; the
payload of an event is left out. `DropHub` and `get_or_create_hub` are the
lifecycle in `handle_ws`; `held` is false for a task whose hub was dropped under
it. `alloc_seq` burns seqs and `compact_all` collects rows. `Crash` ends a
replica's tasks and hub and rolls back its transactions.

**SessionLedger** is the abstract specification: an append-only log, durable
snapshots that are folds of its prefixes, the newest complete, and per replica a
view that is empty or a committed prefix. `Ledger` in SnapshotWrite is the
refinement mapping.

**SnapshotPaths** extends SnapshotWrite with the other writers, as families of
actions: `Machine` (`spawn_session_task`, `shadow_persist`, `PersistPlan`,
`MachineStore`, `write_async`), `Notifier` (`Deliver`, `DeliverApply`,
`DropNote`), `Presence`, `ColdEmit`, `Rebuild` (the fact tables are read one by
one), `Revoke` (`RevokeRead`, `mark_dirty`, `Invalidate`, `EmitEpochAdvanced`,
`compact_dirty_sentinels`) and `LoadFails`. `PathsSpec` runs all of them, with
one bound: a revocation and a session task do not meet in one behaviour. The
exactness that holds of the write path alone does not hold here (see
[limits](#what-is-only-model-checked-and-what-is-not-modelled)); what does hold is
that no projection shows an event that is not committed, and that no committed
event is ever without a clean row of at least its seq. A task's memory is reduced
to the ws events folded into it. A hub that has been replaced only receives the
stores of its own task. The task's fallback after a failed `PersistPlan` is not
modelled, nor is the `PersistSnapshot` effect, which nothing emits.

**Approvals** is one session with its rows, one hub, handlers, the sweeper and
the shim. A handler takes the row lock with its guarded UPDATE (`TakeLock`, step
`locked`) and then commits or rolls back; a vote reads policy and eligible count
from the cached snapshot first (step `read`). `evaluate` is
`ApprovalPolicy::evaluate`, `apply_event` the fold's effect on the pending list.
`members` are the committed memberships and `seen` the ones the snapshot has
heard of. `Attach`, `Detach` and `Invalidate` move the hub between `warm`,
`none` and `cold`. `expire_timed_out` is the sweeper's UPDATE; `Announce` or
`AnnounceSkipped` is what it does for each expired row. `poll_approval`,
`poll_resolution` and `PollFails` are the shim, with `fail_open` as a constant.
The seq lock is folded into `Commit`, as SnapshotWrite is about it. The server's
resolution poll re-reads the row twice a second, so its `pg_notify` is only a
shortcut and is left out.

**ApprovalGate** is the promise to the agent: a request is decided at most
once and for ever, and the answer is "granted" only for a granted request or
from a shim configured to fail open.

**CapAuthority** is `session_tokens` of one session: `st`, `parent`, `born` (the
epoch column), `stratum`, `lapsed`, `moved` (`transferred_to`), and the epoch
row. The revoke endpoint is one action for each SQL statement, because it is not
a transaction: `RevokeRead`, `reroot_caps`, `RevokeCaps`, `advance`, and
`HandlerEnds` for the answer, an error or a crash at any point. The transfer is
a transaction with a read that others can overtake: `find_root_cap_in_tx`,
`transfer_root_in_tx`. Two transfers of one root queue on the owner's membership
row. `compact_revoked` is one DELETE that the foreign keys may refuse. `Lapse`
stands for `expires_at`. An insert reads the epoch in its own statement; one
whose commit comes late is the same as one placed between `RevokeCaps` and
`advance`.

**OrbInvoke** composes CapAuthority and ApprovalGate with calls: `get_cap`,
`AutoApprove` or `create_approval_for_session`, `issue`, the poll, and
`consume`, whose answer may be lost or whose request may be delivered again.
`deny` is any failure on the way. A cap's deletion cascades to its receipts.
Permissions, method registration and standing policies only decide which branch
is taken, so both are always possible.

**SessionTransition** is `transition()` as operators without state: `ApplyLogged`
takes an event row, `ApplyLive` a live event, and both return a memory and the
sequence of effects the runtime executes. It is split as the code is split, one
operator for each `live_*` function and each algebra of events; the three typed
reducers are `Reduce`, interception by policy is `Disposition` and `Dispose`.
Message bodies, names and times are left out; proposals, context and artifacts in
memory change nothing else there and pass as `Content`.

**SessionTask** is the receive loop around it. `mem` is `SessionMemory`, `todo` the effects
still to run: `RunPersist` appends to `log` only what `is_machine_autonomous` names, folds the
event into memory at once and puts the effects of that replay in front. `RunFallback` is the
same handler after a failed `real_persist`: memory and effects go on and the log has no row.
`missed` counts, per saga, the rows this life of the task did not write, and `behind`
remembers the sagas a restart set back for it. `RunTimer`, `RunSend` and the rest follow in
order. Timers (`Fire`) post to `inbox`, so a cancelled one may already be queued.
`ResolveSource` is the conditional UPDATE of `handle_cross_session_side_effects`, and
`HubDecides` a vote in the hub on the same row. `Crash` loses memory, timers and mailbox and
keeps log, sent bundles and rows; `Restart` replays the log.

**Relay** carries bundles. `Emit`, `CheckOwner`, `TryAcquire`, `DispatchAppend` and
`DeliverOrQueue` are `route_bundle` and `Reflector::dispatch` between their
awaits, with retries; the guard's drop is part of the step that ends its scope. A
bundle whose target is owned elsewhere becomes a row, which the owner's listener
claims (`ClaimPending`) and appends. The error arms are steps too: an owner lookup that
fails counts as no owner (`OwnerUnknown`); `Forward` writes the row (`InsertRow`) or, on an
error, appends locally (`InsertFails`), and such an error may come after the row was
written (`doubled`); the answer of a claim may be lost with the rows it took
(`ClaimUnheard`, `dropped`). A task that spawns drains what lies above the
saved watermark (`ReadCursor`, `DrainBacklog`, `SaveCursor`) and claims the
placement. Handles are dropped while their task goes on, leases and placements
lapse, `compact` starts an epoch, a replica crashes.

**Membership** has the role table, the invites, links, attach tokens and scheduled
transfers, the sockets with the role they read, and handlers in flight as records
in `req`. A transaction of several statements is several steps where READ COMMITTED
lets another one in between (`Demote`, then `Grant`). `sweep` is what each replica's
sweeper has listed and read. `contested` remembers the sessions where an owner was
set by a handler whose reading was out of date.

**Content** has artifacts (`ref` is the content; sha256 is taken to be injective),
proposals, receipts, attestations, import rows and bundles, and the remotes. The
commit takes its two row locks in the code's order (`LockProposal`,
`LockArtifact`), compares, and writes in one transaction or rolls back and records
the rejection by a second statement (`RejectAfterRollback`). A dropped handler is
`Abandon`. Rows age past their limits, and the collectors run.

**Identity** is the OIDC round trip from the state parameter to the token, with
callbacks repeated and abandoned between awaits, beside `create_invite`, which
inserts the invite and then looks for who has the address. Either half of the mailbox may
fail without failing its request; an actor without an e-mail has the empty one, and no
backfill.

**SessionStream** follows each event of a script from its commit over the hub's
snapshot and broadcast to the sockets (`Subscribe`, `ReadSnapshot`, `Forward`), to
the other replica (`Notify`, `Deliver`), to the terminal dashboard, which refetches
on each frame (`RefreshDetail`, `Mount`), and to the pollers, which print a page
and then save the cursor (`Page`, `PrintRow`, `SaveCursor`, `Kill`). Several hubs of
one session may exist, one registered.

**Delegation** is one session asking another: the saga's step arrives any number
of times, the target's task inserts a copy of the approval and then links it, the
target's members decide, the deciding handler looks up whom to tell, and the
source's task resolves its own row if it is still pending and marks the mapping.
Everybody's death, the 24-hour timer and a member's own decision come in between.

**AgentHost** follows a call: `Ask` sorts it by kind; a gated one is proposed to the
shim, which invokes, polls, consumes the receipt and queues at the guardian or
sends it back to be forwarded upstream, with the client's JSON-RPC id as key of
the waiter. The guardian verifies with the server, spawns the sandbox (`Launch`),
whose child sets itself up and starts the command (`EnterSandbox`) while the guardian
waits for its listener (`TakeOver`) or lets it go unsupervised (`LetGo`); it then
supervises (`Trap`, `Exits`, `DeadlineFires` fill a batch; `Collect`, `Dispatch`,
`Rearm`, `Finish` are the loop) and answers. Where the environment allows it, a command
runs without a sandbox or without its listener, and nothing times it (stage `bare`,
`BareExits`). `NotificationHandled` opens the command's path in the supervisor, which may
not come back from it (stage `stuck`) or end in an error, as the wait may (`WaitFails`); and
any of the shim's HTTP exchanges may hang (`Hangs`). Either process dies at any time.
**AgentPresence** is its second half: how streams
and `initialize` make the server record an attached agent, and how the sweeper
finds a lapsed heartbeat.

**RateLimit** is one key: a check reads the clock and later takes the entry's lock;
the sweeper visits with a reading older than the buckets. **SecretsRotation** has
the files as whole, empty or absent, and a command as the list of writes it has
still to do; two rotations may run at once, and each may die between and within its
writes.

**MC\*** modules give starting points ("scenes": which handlers take part, what the
rows are), a symmetry set, or a composition. `MCEdges` runs the five small parts
`Identity`, `SessionStream`, `Delegation`, `RateLimit` and `SecretsRotation`; they
share no state, so a behaviour is of one part and leaves the others as they began.
`MCApprovals` adds `calm`, which is true as long as no announcement was skipped or
repeated, no cached snapshot lost and no handler crashed. Operators commented as
mutants (`catch_up_base_stale`, `consume_again`, ...) are plausible wrong versions of
the definition beside them; no specification uses them, and replacing the
definition by one makes TLC report the property named in `PROJECT.json`.

## Runs

| run | instance | distinct states | checks |
|---|---|---|---|
| `write_path` | 2 replicas, 2 tasks, 4 seqs, 1 clean row kept | 71 769 | `RowsExact`, `LiveExact`, `LatestRowCurrent`, `LedgerSpec` |
| `paths` | 2 replicas, 1 handler, 1 session task, 2 seqs, 1 revocation | 1 599 551 | `NeverAhead`, `LogCovered` under every writer |
| `approvals` | 1 approval, 3 voters of which 2 founders, 2 handlers | 276 636 | `OneVerdict`, `ApprovalGateSpec`; `CalmDecided`, `CalmView` while nothing fails |
| `approvals_fair` | 1 approval, 1 voter, 2 handlers, no symmetry | 28 083 | liveness: `Expires`, `Answered` |
| `orb` | 2 caps, 1 revoking handler, 1 call, 1 epoch, fail-open shim | 698 264 | `ReleasedOnce`, `RunsApproved`, `ReleasedWhileUsable` |
| `session_task` | 12 scenes; a two-step saga, a delegation, 2 inbound bundles, 1 restart, 2 rows of a saga not written | 548 792 | `CompensatedExactly`, `SagaRecoverable`, `GateHolds`, `SourceDecidedOnce`; liveness: `SagaEnds` |
| `relay` | 3 scenes; 2 replicas, 2 bundles, 2 tasks, 2 attempts, 1 fault | 253 601 | `Conserved`, `WatermarkCovers`; liveness: `Arrives` |
| `membership` | 6 scenes; 3 sessions, 3 actors, 2 handlers, 2 sweepers, up to 4 requests | 19 585 | `GrantedOnce`, `OneOwnerUnlessStale`; liveness: `PlansSettle` |
| `content` | 6 scenes; 2 sessions, 2 contents, 2 proposals, 2 handlers, up to 5 requests | 371 788 | `PatchOverExpected`, `EffectExactlyOnce`, `RemoteNoGap`; liveness: `OverdueSettles` |
| `agent_host` | 8 scenes; 2 calls with equal or different ids; 2 clients' streams | 253 948 | `UnderReceipt`, `DeniedNeverRan`; liveness: `Served`, `DeadDetached` |
| `edges` | 9 + 3 + 3 + 2 settings of stream, delegation, limit and secrets; 2 identities, 3 logins | 1 999 922 | `MailboxReached`, `HandedOver`, `NothingSkipped`, `DelegatedVerdict`, `QuotaKept`, `RotationSafe` |
| `stream_replicas` | 2 replicas, 1 event of the session task, 2 clients | | violates `NotifiedAcross`: see [findings](#findings) |

Why these bounds are enough to be interesting. Two tasks and one lock give every order of two
writers; four seqs let one writer be two commits behind while a third number is burned;
keeping one row makes compaction bite at once. Two caps and a revocation let the cap die
between any two steps of a call. One voter in the fair run is enough to meet the sweeper. A
two-step saga is the least that can compensate; its first step may be acknowledged late,
twice, or after its timer. Two of its events without a row (the acknowledgement of step 0 and
the sending of step 1) are what a restart needs to send a step again. Two bundles and two
replicas let a bundle overtake another, and one fault (a lapsed lease, a compaction, a failed
or unheard statement, a crash) is met at every step. Two handlers in flight meet at every
await, and the number of requests bounds only how many start after. Two calls are what it
takes to collide in an id or queue at the guardian; the third would repeat the second. A page
of two rows and a dashboard of three are exceeded by three events and so cut. A window, its
successor and a stall of one tick show the bucket at each boundary; three epochs are what two
overlapping rotations can make of one (`MaxEpochs` counts the advances). Two revoking handlers
at once, and any number of everything in the write path, the approvals and the caps, are
covered by the proofs, not the runs.

Runs that end: a session whose caps are used up, whose requests are all made or whose
saga is over really stops, so these runs switch deadlock checking off. All counters
are bounded by named constants (`MaxSeq`, `MaxRevokes`, `MaxEpoch`, `MaxRows`,
`MaxArrivals`, `MaxRestarts`, `MaxMissed`, `MaxAttempts`, `MaxCallbacks`, `MaxDeliveries`,
`MaxClock`, ...) or by the scene (`budget`, `faults`, `kills`). Two cuts are of
combinations: in `paths` a revocation and a session task do not meet, in `approvals` a
member who joins late and a fault do not.

**Fairness**, and why the code justifies it:

- `approvals_fair`: weak fairness of a handler's commit or rollback, of the vote's
  second half, of announcing an expired row and of the resolution poll, all
  straight-line code in tasks the runtime keeps polling. Strong fairness of the
  sweeper's UPDATE: it waits in Postgres' row-lock queue, which is served in order,
  so later handlers cannot overtake it for ever. Voters, claims, requests and
  crashes have none.
- `session_task`: weak fairness of running effects and of each armed step timer
  (Tokio lets every sleep elapse); strong fairness of receiving, as the mailbox is
  first in first out. No participant has to acknowledge.
- `relay`: weak fairness of each dispatch, each spawned task and the listener, which
  polls every 15 s even when its notification is lost. Nobody has to spawn a task.
- `membership`, `content`: weak fairness of the sweepers' and the collector's loops
  and of a commit under way. No request has to be made.
- `agent_host`: weak fairness of the loops of adapter, shim and guardian, of the
  sandbox's setup (a finite run of system calls that nothing times), of the
  deadline, of heartbeats and the stale-agent sweep. A request of the shim may hang
  instead of ending (`Hangs`), no command has to exit, with a supervisor or without, and
  an open by the supervisor need not return. `Served` excuses a call for exactly these
  (`Held`): its own request hangs, or the guardian is at an unsupervised command or in
  such an open. Nobody has to vote and nothing has to die.

## Proofs

`tlapm` checks eight modules. Each proves its theorems for every value of the constants, under
the assumptions named in the module that declares them. These say three kinds of things.
Bounds are naturals. Null values are not real ones (`None` is no replica, role, artifact or
e-mail; `"none"` and `"member"`, which say in a row that no saga resolved it, are no saga
ids). And starting points are states the program can be in: the rows of a scene hold what
their columns allow (`ScenesAssumption` of Content and of Membership), a session starts with
one owner at most, which `create_session` makes so, a bundle is between a replica and a
session that exist (`RelayAssumption`), an acknowledgement names a saga of the session
(`SagasAssumption`), and the log a session task is first started on has no sagas and bundles
yet (`ScenesAssumption` of SessionTask: a log that has them was written by such a task, and is
reached by `Restart`). An identity without an e-mail is one whose e-mail is `NoEmail`. TLC
evaluates all of them on the runs.

**SnapshotWriteProofs** (`Invariance`, then `TypeCorrect`, `RowsAlwaysExact`,
`LiveAlwaysExact`, `ColdLoadCurrent`, `ImplementsLedger`). None of the three
safety invariants is inductive, because nothing in them speaks of a task in the
middle of its work. `IInv` adds: no row at or above the counter
(`LogBelowCounter`); every row, cache, loaded base and stored result is the
exact fold at a *committed* seq (`RowsCommitted`, `LiveCommitted`,
`BaseCommitted`, `StoredCommitted`); what the lock holder has stamped is the fold
of the whole log plus its own event (`StampedFold`), which is what `catch_up_base`
establishes (`CatchUpExact`); and some row covers the log (`NewestKept`).
`PrefixStable` is the key lemma: committing a seq above the counter changes no
earlier prefix, so every other task's base stays exact. Every step of the code
is then a step or a stutter of SessionLedger.

The same module proves `NeverShownAhead` and `LogStaysCovered` (from `PathsInvariance`):
`NeverAhead` and `LogCovered` of `PathsSpec`, where session tasks, the notifier, presence,
cold emits, rebuilds and revocation write too. Exactness is lost there, so `PathInv` claims
less and of more: every row, ArcSwap, base, spawned write and dropped hub, and the memory of
every session task, is `Behind` the log: it shows committed events only, under a seq handed
out. A mailbox, a notification and a handler about to store name committed events
(`Remembers`, `PostInv`, `Carries`); the transaction that holds the lock is the only one
whose event is not committed yet. A row of kind `seed` has seq 0, which is why the rows
`compact_all` keeps cover what the ones it removes covered (`PathsCompactStep`).

**ApprovalsProofs** (`Invariance`, `TypeCorrect`, `ResolvedOnce`,
`TerminalAlwaysStable`, `ImplementsGate`). `IInv` adds what a handler that holds
the row lock is about to write (`LockedSound`: its new row follows from the
committed one, which is still open), that an open row has no verdict in the log
(`Unresolved`), and that a row waiting for its announcement is Expired and has
none either (`Unannounced`). The row lock makes it inductive: no one else moves
the row between the guarded UPDATE and the commit.

The module extends MCApprovals for its history variable `calm` and proves
`AlwaysDecided` and `AlwaysViewOfLog` (from `CalmInvariance`), the two promises that hold
while somebody stays attached and nothing fails. `CalmInv` says that the hub is never cold
then, that a handler which has read the ballots has the session's policy and a number of
members between the founders' and today's (`ReadSound`), and that one which holds the lock
is about to write a verdict its ballots carry, with an event that says the same
(`WriteSound`). `EvaluateCarries` is the fact about the tally; `StaysDecided` keeps it as
members join.

**SessionProofs** has two parts. *Caps and broker* (from `CapsSpec`: `CapInvariance`,
`TreeGrounded`, `EpochsNested`, `RevocationCloses`, `DeadNeverRevive`; from `OrbSpec`:
`OrbKeepsCaps`, `OrbInvariance`, `TypeCorrect`, `ReceiptReleasedOnce`, `OnlyApprovedRun`,
`ReleasedOnlyWhileUsable`). `CapInv` strengthens the tree properties with what a revoke
handler remembers between its statements (`JobSound`: the epoch it will close is not in the
future, and the grandparent it read was above its target, in stratum and epoch, when it read
it) and with unused ids being blank. `Mono` collects what no capability step undoes; with it,
facts a handler or a call learned earlier survive everybody else's steps, so the argument does
not grow with the number of handlers. `OrbKeepsCaps` shows that composing the broker adds
nothing to what caps can do, so the cap theorems carry over. `CallSound` ties a receipt's
state to the number of releases and to the approval's verdict.

*The session task* (`TaskSound`, `SagasCompensateExactly`, `SagasComeBack`,
`GatesHoldBundles`, `SourcesDecidedOnce`), for any actors, sagas, numbers of steps, bundles,
arrivals and restarts. `TaskInv` is about the middle of an effect list, where no property of
the finished handler holds. `MemKept`: a saga in memory is what a replay of the log gives,
unless an event of it went without a row since the task started (`missed`). `View` is the
memory of a running task and what the log gives of a dead one (`Lost`). Nothing is claimed of
the bundles of a saga that a restart set back (`behind`, `Told`). `Sound` says what `todo` may
be, read against the sagas in `View` and the bundles sent: effects that move no saga
(`Plain`); the event of a gate that is already in memory (`Gating`); or the rest of one saga's
effects, from the very point memory and bundles have reached (`SagaWork`: a step to be
persisted, then sent, then timed; an acknowledgement to be persisted, then the next step or
the end; or compensations, an event and a bundle for each, the last step first, `Undoing`).
`SagaSound` is what remains of this when a crash loses the rest of the list: a saga in
`Waiting` may or may not have sent its step, and one that has ended sent what
`CompensatedExactly` says. `HeldSound` and `MailSound` say that a held bundle, an armed timer
and a letter in the mailbox of an acknowledgement or timeout are about a step that was sent,
so a late one can never end a saga that has not begun. A crash in the middle of compensations
leaves the saga in `Compensating` for good: a restarted task does not resume it, and what is
claimed is only what an ended saga did.

What a replay computes is recursive over the log. `ReplayGrows` (one row more is one more
`ReplayRow`) and `ReplaySane` are inductions on its length, by the least counterexample
(`LeastNat`, from the library's `WFMin`), as the induction rules with an operator parameter
cannot be used. The lemmas named `Applies...` say of each algebra of events which sagas and
gates its fold moves and which effects it echoes; `AckOK`, `DisposeOK` and the others named
so, what each live handler may return.

**RelayProofs** (`Invariance`, `TypeCorrect`, `BundlesConserved`,
`WatermarkAlwaysCovers`). `Conserved` counts copies; the invariant says instead
*where* a bundle is. `Alone` lists its places (a log entry, a forwarding row, a
listener's hand, a dispatch that has not ended, pruned) and says that no two hold it and
there is one of its kind, unless an INSERT reported as failed wrote its row (`doubled`),
and that one holds it as long as nothing has crashed and no claim of it was lost (`dropped`).
Each step moves it from one place to the next, and the count follows at the end.
For the watermark, `Stays` says that a session has run on one replica only, which has
not crashed; then all of that replica's log up to the watermark, up to a task's starting
point and up to its high mark was given to a task of the session or is past its TTL, and
all three are below the next number, so what is appended later lies above them. The
proof does not need the epochs to agree: a watermark of an earlier epoch of a
log that was only compacted is as good, so the epoch matters to restarts alone.

**MembershipProofs** (`Invariance`, `TypeCorrect`, `InviteGrantsOnce`,
`StaleReadingsOnly`, `LinksGrantReading`). The conditional UPDATE of `redeem` makes its
handler the only one to grant for an invite (`RedeemerSound`), until it has, when the
invite's `granted` is no longer empty (`InviteSound`). `OneOwner` follows the reading
each handler acts on: an owner is set over an owner the handler did not read only where
`contested` remembers it. `LinksSound` adds that who is about to be granted a standing
by a link is a member of a session that was linked (`everLinked`, not linked still: the
link may be muted or removed before the insert).

**ContentProofs** (`Invariance`, `TypeCorrect`, `PatchedOverExpected`, `EffectOnce`,
`FetchesSkipNothing`, `MismatchAlwaysKept`). `LockedOnce` says that one transaction
holds a proposal's row, which is pending while it does, and `Compared` that one
holds the artifact's, which keeps the compared content until the commit. For the
remotes, `FetchSound` says that a fetch under way began at or below the watermark, unless
its row was deleted and written anew, when the row's id differs, and that it lists a run of
events without a hole; so the watermark it sets covers what it and others before it
received. `MismatchAlwaysKept` is an action property: no collector takes a
mismatch or its receipt.

**AgentHostProofs** (`Invariance`, `TypeCorrect`, `RunsUnderReceipt`, `DeniedNeverRuns`).
`TaskSound`, `CallSound`, `LineSound` and `ExecSound` say of every place a call can be in,
between adapter, shim, the guardian's line and the guardian, whether it may have run and
what the server has released; a call is in the line once, and what the guardian works on is
in nobody else's hands. `DeniedSound` says that a call its client was told is denied is
nowhere. The client's own id is not used in the argument, as two calls may share it.

**EdgesProofs** proves the five parts MCEdges composes. *Identity* (`IdentityInvariance`,
`MailboxAlwaysReached`, `StateAlwaysUsedOnce`, `TokensKeepIdentity`): a state parameter is
pending, in flight or spent (`StateSpent`), and an actor in a login's hands was created for
the login's subject (`Signing`, `Sweeping`); in each order of `create_invite` and a first
login, the second of them sees the first. *Delegation* (`DelegationInvariance`,
`DelegatesDecideOnly`): every message in the mailbox is grounded in something that happened
(`MailGrounded`: an answer means that a copy was decided so), a saga begins once however often
its step arrives (`BeginsOnce`), what a deciding handler holds was voted (`VotesCast`), and a
verdict on its way to the source's row is of a saga that ended so (`VerdictGiven`).
*SecretsRotation* (`SecretsInvariance`, `RotationAlwaysSafe`): `WritesOK` is the order of a
command's writes, a state file before the bundle of its epoch; `SparedOne` finds, for the
operator who rotates one at a time to another file, a readable state file that no command is
going to write. *SessionStream* (`StreamInvariance`, `AlwaysHandedOver`, `SkipsNothing`):
nothing stored, sent, queued or read is ahead of the log; what a hub was sent, the session
task's events apart, is at most the highest seq ever stored in it (`SentSound`), as a writer
stores first. A client's receiver exists before it reads its snapshot, so what was sent before
is in a snapshot that is not set back, and what is sent later is in its queue (`Has`). A
dashboard's rows hold what the frames it has taken were about (`Holds`), and below any row a
reader has still to print each event is on its page or dealt with (`PageSound`). *RateLimit*
(`LimitInvariance`, `QuotaAlwaysKept`): of the admissions a property looks at, some belong to
the bucket there is and some to the one before (`Shares`), at most the maximum each, and the
rest are older than any window less the stall; a swept bucket leaves one such share
(`Leftover`), because the idle TTL exceeds the window by the stall. While a denial is possible
the bucket's share is as large as its count.

Proving changed some definitions of the models, none of them in what it means on the runs.
Two CASEs of Membership had arms that overlapped and agreed; they are IFs now.
`Recipients` in SecretsRotation had its parentheses where the provers could not read them.
`ReplayFrom` in Relay is the set of the log's positions to be replayed rather than a filtered
sequence, as order is only needed for the last of them. `Copies` counts rows and hands by
sets, where it had a bound of its own. A reader's page in SessionStream is the set of the
rows still to print, of which the least is next, where it was a sorted sequence. `Replay` in
SessionTask is a recursive function over `ReplayRow`, where it was a fold.
`CompensatedExactly` says of the whole sequence of sent bundles what it said of two filtered
ones, and so also that every step comes before every compensation. `admitted` in RateLimit is
a set of admissions, numbered within a tick, where it was a sequence of times.
SessionTransition's `CapIds`, SessionTask's `Listening` and OrbInvoke's `OrbSpec` have names
of their own, as one module proves about them all.


## Findings

`stream_replicas` (`db/src/persist_plan.rs:154`): the session task's `PersistPlan`
notifies the other replicas with a payload of two parts, although a comment says it
must match `db::events::notify_session` exactly. That function sends three parts, and
`notifier.rs` discards a payload without the third. An event the session task writes
never reaches the clients attached to another replica: `NotifiedAcross` fails.

Other places where the code and what is written about it differ, or where a
guarantee has an edge a reader should know. They are visible in the models as actions
or as conditions of a property, and no run is spent on them.

*Projections.*
`real_persist` (`session_task.rs:1307`) replaces the hub's snapshot by the machine's own
fold, which lacks every event only the WebSocket path wrote, although line 291 says
that the two match by construction; the next commit of the write path repairs it. A
revocation (`routes/epoch.rs:365`) marks the snapshot dirty, empties the cache, and
then emits an event onto the empty state, saving a blank clean row above the sentinel,
so no cold attach sees the sentinel. Presence and cold attach store
unconditionally and can set a hub's snapshot back.

*Streams.* `real_persist` broadcasts before it stores (`session_task.rs:1273`), so who
attaches in between misses the event: `HandedOver` names the exception. A receiver that
lags by 256 messages ends its forwarding silently. `hubs.remove` removes whichever hub is
registered, so a hub may be orphaned. An attach whose cold load fails returns without
removing its sender; a second tab of one actor overwrites the first one's sender. Gated
events can be overtaken by ungated ones. Clients' own commits are never notified to
other replicas, although `notifier.rs:24` calls the two indistinguishable. `sp watch` of an
observer stalls when 100 consecutive rows are withheld from it; `list_events` returns the
oldest rows, so a dashboard never shows a message beyond the 500th event.

*Approvals.* One that expires while nobody is attached changes its row and not the log
(`ws.rs:2515`), although `docs/architecture.md:840` calls the table a view of the log. A
vote that finds an emptied cache is tallied as a single vote of one (`ws.rs:785`). `CalmView`
and `CalmDecided` say what holds apart from these two.

*Task and machine.* `eligible_approvers` of the machine's memory is recounted when members
join, leave or hand over the ownership, and not when one is attached or detached as an agent
(`memory.rs:386`). A denied approval leaves the gate of its bundle for ever.
When `real_persist` fails, `handle_persist` falls back to `shadow_persist`
(`session_task.rs:705`): memory and the effects that follow move on and the log has no row.
A comment at `transition.rs:1916` says of the event that begins a saga "Persist the full spec
so cold replay can reconstruct the SagaRecord"; a saga begun while the database fails is
unknown to the task that starts after a crash (`ReplayReconstructs`, in no configuration, is
violated in a few steps). What holds is stated with that exception: `SagaRecoverable` of a
saga whose events of this life were all written, `CompensatedExactly` of one no restart set
back. After an outage that swallows an acknowledgement of step 0 and the sending of step 1, and a
restart, a repeated acknowledgement of step 0 sends step 1 again. A commit that is reported
as failed but was done is a row like any other; what `real_persist` does after its commit may
fail too (serialising the snapshot) and is not modelled.
An approval saga with a majority policy and more than one eligible voter stays pending
until its timer. A restarted task does not arm step timers again, so `SagaEnds` excepts
restarts. Nothing arms the `drain:` timer that `live_timer_fired` handles. The task holds
a clone of its own sender, so a dropped handle does not end it as `ws.rs:457` expects.

*Relay.* The watermark is saved and the log is not: after a restart, seqs start again in the
same epoch, and a session with a high watermark skips new bundles (`reflector_cursors.rs:34`,
against the comment at `session_task.rs:400`); nor is the watermark per replica.
`WatermarkCovers` says where it is safe. Online delivery never advances it, so drains repeat
bundles. `claim_pending` consumes before the append, so a claim whose answer is lost loses its
rows for good (`dropped`), and a row that does not deserialise is consumed and skipped. An
INSERT that wrote its row and reported an error leaves the bundle in two logs (`doubled`,
`reflector.rs:465`), and a bundle that this fallback or a failed owner lookup appends at a
replica which does not run the target's task waits there: `Arrives` speaks of the replica that
does. A guard's drop removes the lease whoever holds it (`lease.rs:246`); this delays nobody
for long and files nothing twice (`Conserved`). A backlog above the mailbox's 256 blocks its
own task.

*Delegation.* `delegate_cross_session` looks at neither the approval's state nor at an
earlier delegation, so several sagas may ask for one approval (line 750 of
`session_task.rs` speaks of no mechanism for many targets); the first answer wins. Expiry or
cancellation of the target's copy tells nobody. A repeated step makes a second copy and
moves the link to it, and the vote on the first is lost; so is a vote between the insert and
the link. A Claimed source approval is left alone. Notes land again when a bundle repeats.

*Membership.* Two overlapping grants of ownership leave two owners, although
`db/src/sessions.rs:391` says that granting can never do so; a socket's transfer acts on
the role of its attach; a transfer to someone who is not a member leaves no owner; a
failure after an invite was redeemed uses it up; two replicas' sweepers may fire one plan
twice; a plan cancelled between listing and firing still fires. Linked access grants a
permanent membership (`ws.rs:245` calls it transient) and may replace a granted role.

*Content.* `file_write_attestations.receipt_id` lets one attested receipt make a whole
collection of receipts fail; the commit never consumes its receipt, though migration 014
says so; a crash between the import's row and its announcement loses the announcement.

*Identity.* A login that dies after creating its actor leaves an actor without a token;
two first logins of one identity may create two actors.

*Agent host.* `post_message` and `add_context` report success when the server's call failed;
two concurrent `write_whiteboard` calls, or a failed listing, make a second board. The adapter
gives up after 90 s, the guardian's deadline is 300 s and commands queue: a client told of a
timeout may yet have its command run. The stream's end is never reported (`proxy.rs:956`), so
detaching rests on the sweeper, and an agent without a heartbeat since a restart is never
swept. An exit and a deadline in one batch lose the result. A command without a sandbox has no
deadline (`executor.rs:37`, 339), and where the environment opts out of the listener the
guardian waits in `recv_fd` for the end of a socket the command has inherited
(`sandbox_entry.rs:104`): either keeps the guardian, and its line, for as long as the command
likes. The supervisor opens a path for the command synchronously (`notify.rs:323`); on a FIFO
without a second end that stops loop, deadline and guardian. The shim's HTTP client has no
timeout (`session.rs:24`) and only the poll sets one, for the request and not for the body of
the answer, so a call may hang without a decision. `Served` holds apart from these three
(`Held`). A guardian without a pidfd or an io_uring answers with an error and leaves the
command it has started running, and so does a supervision whose wait or listener fails, though
`executor.rs` speaks of supervision "for the exec's whole lifetime".

*Limits and secrets.* A bucket admits up to twice its quota in any window, and a clock
read before the lock shifts a window by the stall. `cmd_rotate` always advances with fresh
entropy, so a retry does not re-derive the same bundle as the comment before its two writes
says. `write_new_file` truncates in place: with state-in and state-out one path, which the
command's documentation allows, a death between truncation and write loses the ratchet;
`Recoverable` is stated for two paths.

## What is only model-checked, and what is not modelled

Liveness (`Expires`, `Answered`, `SagaEnds`, `Arrives`, `PlansSettle`, `OverdueSettles`,
`Served`, `DeadDetached`) rests on fairness and `ENABLED`, which the prover does not handle,
and stays with TLC. So does the run that finds `NotifiedAcross` violated. Every other
property of the runs, safety invariants and action properties alike, is proved. The
library's induction theorems take an operator as a parameter, which no installed prover can
instantiate; where a proof needs induction, over the rows of a log, it takes the least
counterexample instead.

Some invariants are stated beside the models and are in no configuration: the type invariants
(`PathsTypeOK`, `TaskTypeOK`, `IdentityTypeOK`, and the ones proved as `TypeCorrect`), and
smaller facts (`DeliveredOnce`, `MonotoneApproval`, `FiredOncePerSweeper`, `AnnouncedOnce`,
`NeverStranded`). They hold on the runs' instances. Two do not, and record what a comment
claims: Relay's `WatermarkHarmless` (`session_task.rs:400`), once a crash is among the steps,
and SessionTask's `ReplayReconstructs` (`transition.rs:1916`), once a row was not written.
`TypeOK` and `TerminalStable`, and the caps' `Grounded`, `WithinParentsEpoch`, `ClosedForGood`
and `DeadStaysDead`, are proved as theorems.

Not modelled inside the modelled parts: event payloads, escalation order, permission sets (so
nothing is said of attenuation), token exchange, the audit rows of a revocation, a failing
`mark_dirty`, sessions' status outside the machine, an invite's cap grant, the listener's
reconnection, a second tab, the scouts, the attestation hooks after a command, agents' status
updates, the path without a capability, HTTP upstreams, the sandbox's own set-up (assumed to
end or fail), a command of several processes or threads (so neither several notifications in
one completion nor what outlives a killed bwrap), a relay without a database, encrypt-bytes
and decrypt-bytes. A replica ignores its own notifications, as in the code.

Not modelled at all, with the reason in `PROJECT.json`: search, reputation, descriptors,
single-row registration routes, the intent compiler and the IR, the web client, schema,
health and deployment.

## Plan

1. *Refinements worth stating*: Delegation's saga against SessionTask's, Relay against a
   channel.
2. *Invariants beside the models*: `MonotoneApproval`, `AnnouncedOnce` and the others named
   above, as theorems.

To run: `tlc -config SnapshotWrite.cfg MCSnapshotWrite` and so on (`PROJECT.json`
pairs modules and configurations); `tlapm SnapshotWriteProofs.tla`,
`tlapm ApprovalsProofs.tla`, and so on for the other modules named `...Proofs`.
