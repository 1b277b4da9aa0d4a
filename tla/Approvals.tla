----------------------------- MODULE Approvals -----------------------------
(***************************************************************************)
(* The approval lifecycle of one session: rows of approval_requests        *)
(* (crates/db/src/approvals.rs), the WebSocket and REST handlers that      *)
(* request, claim, vote on and cancel them (crates/server/src/ws.rs), the  *)
(* timeout sweeper, and the shim that polls for the decision before it     *)
(* lets a tool call run.                                                   *)
(*                                                                         *)
(* A handler opens a transaction, takes the row lock of its approval with  *)
(* a guarded UPDATE, appends one event and commits; a vote has read the    *)
(* policy and the number of eligible members from the hub's cached         *)
(* snapshot before that.  The snapshot projection is the one SnapshotWrite *)
(* is about; here it is abstracted to the entry it holds for each approval *)
(* in pending_approvals.                                                   *)
(***************************************************************************)
EXTENDS Integers, FiniteSets, Sequences

CONSTANTS Ids,        \* approval ids
          Voters,     \* actors that may become owner or collaborator
          Founders,   \* the members the session starts with
          Handlers,   \* handler activations that may be in flight
          FailOpen,   \* the shim's --fail-open option
          NoOne       \* nobody holds a row lock

Policies == {"single_vote", "majority", "unanimous"}
OpenStates == {"Pending", "Claimed", "Contested"}
Terminal == {"Approved", "Denied", "Expired"}
Ballots == {"none", "approve", "deny"}
Verdicts == {"granted", "denied", "cancelled", "timed_out"}
Events == Verdicts \union {"requested", "claimed", "contested", "none"}

Row == [state : OpenStates \union Terminal \union {"none"}, votes : [Voters -> Ballots]]

NoVotes == [v \in Voters |-> "none"]
NoRow == [state |-> "none", votes |-> NoVotes]

ASSUME ApprovalAssumption ==
  /\ IsFiniteSet(Voters)
  /\ Founders \subseteq Voters /\ Founders # {}
  /\ FailOpen \in BOOLEAN
  /\ NoOne \notin Handlers

VARIABLES
  policy,    \* sessions.approval_policy, fixed when the session is created
  members,   \* session_memberships: actors whose role is owner or collaborator
  seen,      \* the ones among them the snapshot's member list has
  hub,       \* the hub: "none", "cold" (empty ArcSwap) or "warm"
  row,       \* approval_requests, as committed
  due,       \* approvals whose timeout_at has passed
  lock,      \* the handler whose open transaction holds the approval's row
  job,       \* what each handler is doing
  entry,     \* pending_approvals of the newest snapshot: a state, or "absent"
  verdicts,  \* per approval, the resolution events of the session's log in order
  sweep,     \* approvals the sweeper has expired and not yet announced
  poll       \* the shim's wait: "no", "waiting", or the decision it returned

vars == <<policy, members, seen, hub, row, due, lock, job, entry, verdicts, sweep, poll>>

Idle == [step |-> "idle"]
Reading == [step : {"read"}, id : Ids, who : Voters, ballot : {"approve", "deny"},
            policy : Policies, eligible : Nat]
Writing == [step : {"locked"}, id : Ids, new : Row, event : Events]
Job == {Idle} \union Reading \union Writing

-----------------------------------------------------------------------------
(* The policy.                                                             *)

Count(votes, b) == Cardinality({v \in Voters : votes[v] = b})

\* Mutant: half of the eligible members is enough.
evaluate_half(p, votes, n) ==
  IF p = "majority" /\ 2 * Count(votes, "approve") >= n THEN "Approved" ELSE "Pending"

evaluate(p, votes, n) ==
  LET approve == Count(votes, "approve")
      deny == Count(votes, "deny")
  IN CASE p = "single_vote" ->
            IF deny = 0 THEN IF approve > 0 THEN "Approved" ELSE "Pending"
            ELSE IF approve = 0 THEN "Denied" ELSE "Contested"
       [] p = "majority" ->
            IF approve >= n \div 2 + 1 THEN "Approved"
            ELSE IF deny >= n \div 2 + 1 THEN "Denied"
            ELSE IF approve > 0 /\ deny > 0 THEN "Contested" ELSE "Pending"
       [] p = "unanimous" ->
            IF approve = n THEN "Approved" ELSE IF deny > 0 THEN "Denied" ELSE "Pending"

EventOf(outcome) ==
  CASE outcome = "Approved" -> "granted"
    [] outcome = "Denied" -> "denied"
    [] outcome = "Contested" -> "contested"
    [] OTHER -> "none"

\* Mutant: a cancelled approval stays in pending_approvals.
apply_event_keeps(e, ev) ==
  IF ev \in {"granted", "denied", "timed_out"} THEN "absent"
  ELSE IF ev = "requested" /\ e = "absent" THEN "Pending"
  ELSE IF ev = "claimed" /\ e # "absent" THEN "Claimed"
  ELSE IF ev = "contested" /\ e # "absent" THEN "Contested" ELSE e

\* What an event does to the approval's entry in pending_approvals.
apply_event(e, ev) ==
  CASE ev \in Verdicts -> "absent"
    [] ev = "requested" -> IF e = "absent" THEN "Pending" ELSE e
    [] ev = "claimed" -> IF e = "absent" THEN e ELSE "Claimed"
    [] ev = "contested" -> IF e = "absent" THEN e ELSE "Contested"
    [] OTHER -> e

-----------------------------------------------------------------------------
(* The session around the approvals.                                       *)

\* A member is added, or promoted, while approvals are open.
add_member(v) ==
  /\ members' = members \union {v}
  /\ UNCHANGED <<policy, seen, hub, row, due, lock, job, entry, verdicts, sweep, poll>>

\* Its ActorJoined event is committed later, and the snapshot lists it.
ActorJoined(v) ==
  /\ v \in members
  /\ seen' = seen \union {v}
  /\ UNCHANGED <<policy, members, hub, row, due, lock, job, entry, verdicts, sweep, poll>>

SetHub(h) ==
  /\ hub' = h
  /\ UNCHANGED <<policy, members, seen, row, due, lock, job, entry, verdicts, sweep, poll>>

\* A client attaches, or vote_on_approval primes the hub: the snapshot is
\* loaded if the ArcSwap is empty.
Attach == hub # "warm" /\ SetHub("warm")

\* The last actor disconnects and the hub leaves the map.
Detach == hub # "none" /\ SetHub("none")

\* routes/epoch.rs empties the ArcSwap of a live hub.
Invalidate == hub = "warm" /\ SetHub("cold")

-----------------------------------------------------------------------------
(* Handlers.                                                               *)

\* A guarded UPDATE: it waits for the row lock and then evaluates its WHERE
\* clause on the committed row, which the transaction keeps locked.
TakeLock(h, a, new, ev) ==
  /\ lock[a] = NoOne
  /\ lock' = [lock EXCEPT ![a] = h]
  /\ job' = [job EXCEPT ![h] = [step |-> "locked", id |-> a, new |-> new, event |-> ev]]
  /\ UNCHANGED <<policy, members, seen, hub, row, due, entry, verdicts, sweep, poll>>

handle_approval_request(h, a) ==
  /\ job[h] = Idle
  /\ row[a].state = "none"
  /\ TakeLock(h, a, [state |-> "Pending", votes |-> NoVotes], "requested")

\* A request that names an approval again: ON CONFLICT (id) DO NOTHING leaves
\* the row as it is, the event is appended all the same.
RequestAgain(h, a) ==
  /\ job[h] = Idle
  /\ row[a].state # "none"
  /\ TakeLock(h, a, row[a], "requested")

handle_approval_claim(h, a) ==
  /\ job[h] = Idle
  /\ row[a].state = "Pending"
  /\ TakeLock(h, a, [row[a] EXCEPT !.state = "Claimed"], "claimed")

\* Mutant: set_state_in_tx without the open-state guard.
cancel_any(h, a) ==
  /\ job[h] = Idle
  /\ row[a].state # "none"
  /\ TakeLock(h, a, [row[a] EXCEPT !.state = "Expired"], "cancelled")

handle_approval_cancel(h, a) ==
  /\ job[h] = Idle
  /\ row[a].state \in OpenStates
  /\ TakeLock(h, a, [row[a] EXCEPT !.state = "Expired"], "cancelled")

\* handle_vote admits a member of the table, but reads the policy and counts
\* the eligible members in the hub's snapshot.  An empty ArcSwap reads as a
\* single vote; warm_snap fills it right after.
handle_vote(h, a, v, b) ==
  /\ job[h] = Idle
  /\ v \in members
  /\ hub # "none"
  /\ job' = [job EXCEPT ![h] =
       [step |-> "read", id |-> a, who |-> v, ballot |-> b,
        policy |-> IF hub = "warm" THEN policy ELSE "single_vote",
        eligible |-> IF hub = "warm" THEN Cardinality(seen) ELSE 1]]
  /\ hub' = "warm"
  /\ UNCHANGED <<policy, members, seen, row, due, lock, entry, verdicts, sweep, poll>>

Voted(h) == [row[job[h].id].votes EXCEPT ![job[h].who] = job[h].ballot]

Outcome(h) == evaluate(job[h].policy, Voted(h), job[h].eligible)

\* record_vote_in_tx, the evaluation of the policy on the votes it returns,
\* and resolve_in_tx or set_state_in_tx, all under the row lock.
record_vote_in_tx(h) ==
  /\ job[h].step = "read"
  /\ row[job[h].id].state \in OpenStates
  /\ TakeLock(h, job[h].id,
       [state |-> IF Outcome(h) = "Pending" THEN row[job[h].id].state ELSE Outcome(h),
        votes |-> Voted(h)], EventOf(Outcome(h)))

\* The approval is closed, or the vote failed before its transaction: the
\* voter gets Rejected or Failed and nothing was recorded.
VoteRejected(h) ==
  /\ job[h].step = "read"
  /\ job' = [job EXCEPT ![h] = Idle]
  /\ UNCHANGED <<policy, members, seen, hub, row, due, lock, entry, verdicts, sweep, poll>>

\* Commit: the row, the event and the snapshot become visible together.
Commit(h) ==
  LET a == job[h].id
      ev == job[h].event IN
  /\ job[h].step = "locked"
  /\ row' = [row EXCEPT ![a] = job[h].new]
  /\ entry' = [entry EXCEPT ![a] = apply_event(@, ev)]
  /\ verdicts' = [verdicts EXCEPT ![a] = IF ev \in Verdicts THEN Append(@, ev) ELSE @]
  /\ lock' = [lock EXCEPT ![a] = NoOne]
  /\ job' = [job EXCEPT ![h] = Idle]
  /\ UNCHANGED <<policy, members, seen, hub, due, sweep, poll>>

\* A database error: the transaction is dropped and rolled back.
Rollback(h) ==
  /\ job[h].step = "locked"
  /\ lock' = [lock EXCEPT ![job[h].id] = NoOne]
  /\ job' = [job EXCEPT ![h] = Idle]
  /\ UNCHANGED <<policy, members, seen, hub, row, due, entry, verdicts, sweep, poll>>

-----------------------------------------------------------------------------
(* The timeout sweeper.                                                    *)

TimeoutPasses(a) ==
  /\ row[a].state # "none"
  /\ a \notin due
  /\ due' = due \union {a}
  /\ UNCHANGED <<policy, members, seen, hub, row, lock, job, entry, verdicts, sweep, poll>>

Expirable == {a \in due : row[a].state \in OpenStates}

\* Mutant: approvals under review are not expired.
expire_unclaimed ==
  LET E == {a \in due : row[a].state = "Pending"} IN
  /\ sweep = {} /\ E # {}
  /\ \A a \in E : lock[a] = NoOne
  /\ row' = [a \in Ids |-> IF a \in E THEN [row[a] EXCEPT !.state = "Expired"] ELSE row[a]]
  /\ sweep' = E
  /\ UNCHANGED <<policy, members, seen, hub, due, lock, job, entry, verdicts, poll>>

\* One UPDATE over every open approval that is due.
expire_timed_out ==
  /\ sweep = {} /\ Expirable # {}
  /\ \A a \in Expirable : lock[a] = NoOne
  /\ row' = [a \in Ids |-> IF a \in Expirable THEN [row[a] EXCEPT !.state = "Expired"]
                           ELSE row[a]]
  /\ sweep' = Expirable
  /\ UNCHANGED <<policy, members, seen, hub, due, lock, job, entry, verdicts, poll>>

\* The sweeper commits ApprovalTimedOut for an approval it expired.
Announce(a) ==
  /\ a \in sweep
  /\ hub # "none"
  /\ entry' = [entry EXCEPT ![a] = apply_event(@, "timed_out")]
  /\ verdicts' = [verdicts EXCEPT ![a] = Append(@, "timed_out")]
  /\ sweep' = sweep \ {a}
  /\ UNCHANGED <<policy, members, seen, hub, row, due, lock, job, poll>>

\* It has no hub for the session, or the commit fails: no event.
AnnounceSkipped(a) ==
  /\ a \in sweep
  /\ sweep' = sweep \ {a}
  /\ UNCHANGED <<policy, members, seen, hub, row, due, lock, job, entry, verdicts, poll>>

-----------------------------------------------------------------------------
(* The shim.                                                               *)

Answer(a, d) ==
  /\ poll[a] = "waiting"
  /\ poll' = [poll EXCEPT ![a] = d]
  /\ UNCHANGED <<policy, members, seen, hub, row, due, lock, job, entry, verdicts, sweep>>

poll_approval(a) ==
  /\ poll[a] = "no"
  /\ row[a].state # "none"
  /\ poll' = [poll EXCEPT ![a] = "waiting"]
  /\ UNCHANGED <<policy, members, seen, hub, row, due, lock, job, entry, verdicts, sweep>>

\* Mutant: an approval that is being reviewed counts as granted.
decision_loose(s) ==
  CASE s \in {"Approved", "Claimed"} -> "granted" [] s = "Denied" -> "denied"
    [] OTHER -> "timed_out"

decision(s) ==
  CASE s = "Approved" -> "granted" [] s = "Denied" -> "denied" [] OTHER -> "timed_out"

\* Mutant: the endpoint waits for a resolution without a deadline.
poll_until_resolved(a) == row[a].state \in Terminal /\ Answer(a, decision(row[a].state))

\* The endpoint reads the row every 500 ms; at the deadline it answers
\* timed_out for whatever is still open.
poll_resolution(a) == Answer(a, decision(row[a].state))

fallback_decision == IF FailOpen THEN "granted" ELSE "denied"

\* The request or the parsing of its answer fails, or the client's own
\* timeout fires first.
PollFails(a) == \E d \in {fallback_decision, "timed_out"} : Answer(a, d)

\* The server dies: transactions roll back, the hub and the sweeper's list go.
Crash ==
  /\ lock' = [a \in Ids |-> NoOne]
  /\ job' = [h \in Handlers |-> Idle]
  /\ hub' = "none"
  /\ sweep' = {}
  /\ UNCHANGED <<policy, members, seen, row, due, entry, verdicts, poll>>

-----------------------------------------------------------------------------

Init ==
  /\ policy \in Policies
  /\ members = Founders /\ seen = Founders
  /\ hub = "none"
  /\ row = [a \in Ids |-> NoRow]
  /\ due = {}
  /\ lock = [a \in Ids |-> NoOne]
  /\ job = [h \in Handlers |-> Idle]
  /\ entry = [a \in Ids |-> "absent"]
  /\ verdicts = [a \in Ids |-> << >>]
  /\ sweep = {}
  /\ poll = [a \in Ids |-> "no"]

Handle(h) ==
  \/ \E a \in Ids :
       \/ handle_approval_request(h, a)
       \/ handle_approval_claim(h, a)
       \/ handle_approval_cancel(h, a)
       \/ \E v \in Voters, b \in {"approve", "deny"} : handle_vote(h, a, v, b)
  \/ record_vote_in_tx(h) \/ VoteRejected(h)
  \/ Commit(h) \/ Rollback(h)

Shim(a) == poll_approval(a) \/ poll_resolution(a) \/ PollFails(a)

Session == Attach \/ Detach \/ \E v \in Voters : add_member(v) \/ ActorJoined(v)

Sweeper == expire_timed_out \/ \E a \in Ids : TimeoutPasses(a) \/ Announce(a)

\* What happens while somebody is attached and nothing fails.
Attended ==
  \/ \E h \in Handlers : Handle(h)
  \/ \E a \in Ids : Shim(a)
  \/ Session
  \/ Sweeper

Skips == \E a \in Ids : AnnounceSkipped(a)
Repeats == \E h \in Handlers, a \in Ids : RequestAgain(h, a)

Next == Attended \/ Skips \/ Repeats \/ Invalidate \/ Crash

Spec == Init /\ [][Next]_vars

\* Handlers run to completion, the sweeper's loop and the polling endpoint's
\* loop keep running.  The sweeper's UPDATE waits in the row locks' queues, so
\* it is not overtaken for ever by later handlers: strong fairness.
FairSpec ==
  /\ Spec
  /\ \A h \in Handlers : WF_vars(Commit(h) \/ Rollback(h))
  /\ \A h \in Handlers : WF_vars(record_vote_in_tx(h) \/ VoteRejected(h))
  /\ SF_vars(expire_timed_out)
  /\ \A a \in Ids : WF_vars(Announce(a) \/ AnnounceSkipped(a))
  /\ \A a \in Ids : WF_vars(poll_resolution(a))

-----------------------------------------------------------------------------
(* Properties.                                                             *)

TypeOK ==
  /\ policy \in Policies
  /\ members \subseteq Voters /\ Founders \subseteq seen /\ seen \subseteq members
  /\ hub \in {"none", "cold", "warm"}
  /\ row \in [Ids -> Row]
  /\ due \subseteq Ids
  /\ lock \in [Ids -> Handlers \union {NoOne}]
  /\ job \in [Handlers -> Job]
  /\ entry \in [Ids -> OpenStates \union {"absent"}]
  /\ verdicts \in [Ids -> Seq(Verdicts)]
  /\ sweep \subseteq Ids
  /\ poll \in [Ids -> {"no", "waiting", "granted", "denied", "timed_out"}]

StateOf(verdict) ==
  CASE verdict = "granted" -> "Approved" [] verdict = "denied" -> "Denied"
    [] OTHER -> "Expired"

\* The session's log resolves an approval at most once, and the way the
\* approval_requests row says: racing votes, cancellations and sweeps never
\* append two resolutions or one that lost.
OneVerdict ==
  \A a \in Ids :
    /\ Len(verdicts[a]) <= 1
    /\ \A i \in 1..Len(verdicts[a]) : row[a].state = StateOf(verdicts[a][i])

\* A terminal row is never written again, its votes included (the guards of
\* the *_in_tx helpers against handlers that were admitted before).
TerminalStable ==
  [][\A a \in Ids : row[a].state \in Terminal => row'[a] = row[a]]_vars

\* A vote resolves an approval only when the votes on the row carry it under
\* the session's policy, for a number of eligible members between the ones
\* the session started with and the ones it has: members join, and the cached
\* snapshot hears of them, while votes are under way.
Carries(votes, n, state) ==
  LET approve == Count(votes, "approve")
      deny == Count(votes, "deny") IN
  CASE policy = "single_vote" -> IF state = "Approved" THEN approve > 0 /\ deny = 0
                                 ELSE deny > 0 /\ approve = 0
    [] policy = "majority" -> 2 * (IF state = "Approved" THEN approve ELSE deny) > n
    [] policy = "unanimous" -> IF state = "Approved" THEN approve = n ELSE deny > 0

Decided ==
  \A a \in Ids :
    row[a].state \in {"Approved", "Denied"} =>
      \E n \in Cardinality(Founders)..Cardinality(members) :
        Carries(row[a].votes, n, row[a].state)

\* approval_requests is a view of the event log: what the events say of an
\* approval is what its row says, except for an expiry the sweeper is about
\* to announce.
ViewOfLog ==
  \A a \in Ids \ sweep :
    entry[a] = IF row[a].state \in OpenStates THEN row[a].state ELSE "absent"

\* An approval whose timeout has passed is resolved: by a vote or a
\* cancellation that is still in time, else by sweep_expired_approvals.
Expires ==
  \A a \in Ids :
    (a \in due /\ row[a].state \in OpenStates) ~> (row[a].state \in Terminal)

\* A shim that polls is answered, whatever happens to the approval.
Answered ==
  \A a \in Ids : (poll[a] = "waiting") ~> (poll[a] \in {"granted", "denied", "timed_out"})

\* The promise to the agent, as a refinement.
GateOf(state) ==
  CASE state = "none" -> "none" [] state \in OpenStates -> "open"
    [] state = "Approved" -> "granted" [] OTHER -> "refused"

AnswerOf(p) == IF p \in {"denied", "timed_out"} THEN "blocked" ELSE p

absGate == [a \in Ids |-> GateOf(row[a].state)]
absAnswer == [a \in Ids |-> AnswerOf(poll[a])]

Gate == INSTANCE ApprovalGate WITH gate <- absGate, answer <- absAnswer

\* Every step of handlers, sweeper and shim is a step of ApprovalGate: one
\* decision per approval, final, and "granted" only for an approved one.
ApprovalGateSpec == Gate!GateSpec
=============================================================================
