-------------------------- MODULE ApprovalsProofs --------------------------
(***************************************************************************)
(* For any number of approvals, members and concurrent handlers: an        *)
(* approval is resolved once and for good, the log agrees, and the agent   *)
(* is told the truth; and while nothing fails, decisions are the voters'.  *)
(***************************************************************************)
EXTENDS MCApprovals, FiniteSetTheorems, TLAPS

-----------------------------------------------------------------------------
(* The inductive invariant.  OneVerdict says nothing of what a handler     *)
(* carries between its guarded UPDATE and its commit, nor of what the      *)
(* sweeper has yet to announce; the strengthening does.                    *)

\* A row s may replace the row r.
Follows(r, s) ==
  \/ s = r /\ s.state # "none"
  \/ r.state = "none" /\ s.state = "Pending"
  \/ r.state \in OpenStates /\ s.state \in OpenStates \union Terminal

\* What the guarded UPDATE checked stays true while the lock is held.
LockedSound ==
  \A h \in Handlers : job[h].step = "locked" =>
    /\ lock[job[h].id] = h
    /\ Follows(row[job[h].id], job[h].new)
    /\ job[h].event \in Verdicts =>
         /\ row[job[h].id].state \in OpenStates
         /\ job[h].new.state = StateOf(job[h].event)
    /\ job[h].event \notin Verdicts /\ job[h].new.state \in Terminal =>
         job[h].new = row[job[h].id]

\* The log has no resolution of an approval that is not resolved.
Unresolved == \A a \in Ids : row[a].state \notin Terminal => verdicts[a] = << >>

\* Nor of one the sweeper has still to announce.
Unannounced == \A a \in sweep : row[a].state = "Expired" /\ verdicts[a] = << >>

IInv == TypeOK /\ LockedSound /\ Unresolved /\ Unannounced /\ OneVerdict

-----------------------------------------------------------------------------
(* Lemmas.                                                                 *)

LEMMA JobCases ==
  ASSUME NEW j \in Job
  PROVE  /\ j.step = "locked" => j \in Writing
         /\ j.step = "read" => j \in Reading
         /\ j.step \in {"idle", "read", "locked"}
BY DEF Job, Idle, Reading, Writing

LEMMA NoVotesType == NoVotes \in [Voters -> Ballots]
BY DEF NoVotes, Ballots

LEMMA EvaluateType ==
  ASSUME NEW p \in Policies, NEW votes, NEW n
  PROVE  evaluate(p, votes, n) \in {"Approved", "Denied", "Contested", "Pending"}
BY DEF evaluate, Policies

\* The outcome of a vote and its event belong together.
LEMMA OutcomeEvent ==
  ASSUME NEW o \in {"Approved", "Denied", "Contested", "Pending"}
  PROVE  /\ EventOf(o) \in Events
         /\ EventOf(o) \in Verdicts <=> o \in Terminal
         /\ o \in Terminal => StateOf(EventOf(o)) = o
BY DEF EventOf, Events, Verdicts, Terminal, StateOf

LEMMA ApplyEventType ==
  ASSUME NEW e \in OpenStates \union {"absent"}, NEW ev \in Events
  PROVE  apply_event(e, ev) \in OpenStates \union {"absent"}
BY DEF apply_event, OpenStates, Events, Verdicts

\* A step that leaves rows, locks, resolutions and the sweeper's list alone,
\* and puts no handler into its transaction, keeps the invariant.
LEMMA QuietStep ==
  ASSUME IInv, TypeOK', UNCHANGED <<row, lock, verdicts, sweep>>,
         \A h \in Handlers : job'[h] = job[h] \/ job'[h].step # "locked"
  PROVE  IInv'
<1>1. LockedSound'
  BY DEF IInv, LockedSound
<1>2. Unresolved' /\ Unannounced' /\ OneVerdict'
  BY DEF IInv, Unresolved, Unannounced, OneVerdict
<1> QED
  BY <1>1, <1>2 DEF IInv

\* A guarded UPDATE that writes a row that may follow the committed one.
LEMMA LockStep ==
  ASSUME IInv, NEW h \in Handlers, NEW a \in Ids, NEW new \in Row, NEW ev \in Events,
         TakeLock(h, a, new, ev),
         job[h].step # "locked",
         Follows(row[a], new),
         ev \in Verdicts => row[a].state \in OpenStates /\ new.state = StateOf(ev),
         ev \notin Verdicts /\ new.state \in Terminal => new = row[a]
  PROVE  IInv'
<1> DEFINE j == [step |-> "locked", id |-> a, new |-> new, event |-> ev]
<1>1. j \in Job /\ j.id = a /\ j.new = new /\ j.event = ev
  BY DEF Job, Writing
<1>2. /\ lock' = [lock EXCEPT ![a] = h] /\ lock[a] = NoOne
      /\ job' = [job EXCEPT ![h] = j]
      /\ UNCHANGED <<policy, members, seen, hub, row, due, entry, verdicts, sweep, poll>>
  BY DEF TakeLock
<1> HIDE DEF j
<1>3. TypeOK
  BY DEF IInv
<1>4. job' \in [Handlers -> Job] /\ lock' \in [Ids -> Handlers \union {NoOne}]
  BY <1>1, <1>2, <1>3 DEF TypeOK
<1>5. TypeOK'
  BY <1>2, <1>3, <1>4 DEF TypeOK
<1>6. LockedSound'
  <2> SUFFICES ASSUME NEW g \in Handlers, job'[g].step = "locked"
               PROVE  /\ lock'[job'[g].id] = g
                      /\ Follows(row'[job'[g].id], job'[g].new)
                      /\ job'[g].event \in Verdicts =>
                           /\ row'[job'[g].id].state \in OpenStates
                           /\ job'[g].new.state = StateOf(job'[g].event)
                      /\ job'[g].event \notin Verdicts /\ job'[g].new.state \in Terminal =>
                           job'[g].new = row'[job'[g].id]
    BY DEF LockedSound
  <2>1. CASE g = h
    <3>1. job'[g] = j /\ lock'[a] = g
      BY <1>2, <1>3, <2>1 DEF TypeOK
    <3> QED
      BY <1>1, <1>2, <3>1
  <2>2. CASE g # h
    <3>1. job'[g] = job[g]
      BY <1>2, <1>3, <2>2 DEF TypeOK
    <3>2. lock[job[g].id] = g
      BY <3>1 DEF IInv, LockedSound
    <3>3. job[g].id # a
      BY <1>2, <3>2, ApprovalAssumption
    <3>4. job[g] \in Writing
      BY <1>3, <3>1, JobCases DEF TypeOK
    <3>5. job[g].id \in Ids
      BY <3>4 DEF Writing
    <3>6. lock'[job[g].id] = g
      BY <1>2, <1>3, <3>2, <3>3, <3>5 DEF TypeOK
    <3> QED
      BY <1>2, <3>1, <3>6 DEF IInv, LockedSound
  <2> QED
    BY <2>1, <2>2
<1>7. Unresolved' /\ Unannounced' /\ OneVerdict'
  BY <1>2 DEF IInv, Unresolved, Unannounced, OneVerdict
<1> QED
  BY <1>5, <1>6, <1>7 DEF IInv

-----------------------------------------------------------------------------
(* One lemma per group of actions.                                         *)

LEMMA SessionKeeps ==
  ASSUME IInv, Session \/ Invalidate
  PROVE  IInv'
<1>1. TypeOK'
  BY DEF IInv, TypeOK, Session, Invalidate, Attach, Detach, SetHub, add_member, ActorJoined
<1>2. UNCHANGED <<row, lock, verdicts, sweep, job>>
  BY DEF Session, Invalidate, Attach, Detach, SetHub, add_member, ActorJoined
<1> QED
  BY <1>1, <1>2, QuietStep

LEMMA ShimKeeps ==
  ASSUME IInv, NEW a \in Ids, Shim(a) \/ TimeoutPasses(a)
  PROVE  IInv'
<1>1. UNCHANGED <<policy, members, seen, hub, row, lock, job, entry, verdicts, sweep>>
  BY DEF Shim, TimeoutPasses, poll_approval, poll_resolution, PollFails, Answer
<1>2. \A s : decision(s) \in {"granted", "denied", "timed_out"}
  BY DEF decision
<1>3. poll' \in [Ids -> {"no", "waiting", "granted", "denied", "timed_out"}]
  <2>1. CASE TimeoutPasses(a)
    BY <2>1 DEF IInv, TypeOK, TimeoutPasses
  <2>2. CASE poll_approval(a)
    BY <2>2 DEF IInv, TypeOK, poll_approval
  <2>3. ASSUME NEW d \in {"granted", "denied", "timed_out"}, Answer(a, d)
        PROVE  poll' \in [Ids -> {"no", "waiting", "granted", "denied", "timed_out"}]
    BY <2>3 DEF IInv, TypeOK, Answer
  <2>4. CASE poll_resolution(a)
    BY <1>2, <2>3, <2>4 DEF poll_resolution
  <2>5. CASE PollFails(a)
    <3>1. fallback_decision \in {"granted", "denied", "timed_out"}
      BY DEF fallback_decision
    <3> QED
      BY <2>3, <2>5, <3>1 DEF PollFails
  <2> QED
    BY <2>1, <2>2, <2>4, <2>5 DEF Shim
<1>4. due' \subseteq Ids
  BY DEF IInv, TypeOK, Shim, TimeoutPasses, poll_approval, poll_resolution, PollFails, Answer
<1>5. TypeOK'
  BY <1>1, <1>3, <1>4 DEF IInv, TypeOK
<1> QED
  BY <1>1, <1>5, QuietStep

\* Requests, claims and cancellations.
LEMMA UpdateKeeps ==
  ASSUME IInv, NEW h \in Handlers, NEW a \in Ids,
         \/ handle_approval_request(h, a) \/ RequestAgain(h, a)
         \/ handle_approval_claim(h, a) \/ handle_approval_cancel(h, a)
  PROVE  IInv'
<1>1. row[a] \in Row /\ job[h] = Idle /\ Idle.step # "locked"
  BY DEF IInv, TypeOK, Idle, handle_approval_request, RequestAgain, handle_approval_claim,
         handle_approval_cancel
<1>2. CASE handle_approval_request(h, a)
  <2> DEFINE new == [state |-> "Pending", votes |-> NoVotes]
  <2>1. new \in Row /\ new.state = "Pending"
    BY NoVotesType DEF Row, OpenStates
  <2>2. TakeLock(h, a, new, "requested") /\ row[a].state = "none"
    BY <1>2 DEF handle_approval_request
  <2>3. Follows(row[a], new) /\ new.state \notin Terminal
    BY <2>1, <2>2 DEF Follows, Terminal
  <2>4. "requested" \in Events /\ "requested" \notin Verdicts
    BY DEF Events, Verdicts
  <2> QED
    BY <1>1, <2>1, <2>2, <2>3, <2>4, LockStep
<1>3. CASE RequestAgain(h, a)
  <2>1. TakeLock(h, a, row[a], "requested") /\ Follows(row[a], row[a])
    BY <1>3 DEF RequestAgain, Follows
  <2>2. "requested" \in Events /\ "requested" \notin Verdicts
    BY DEF Events, Verdicts
  <2> QED
    BY <1>1, <2>1, <2>2, LockStep
<1>4. CASE handle_approval_claim(h, a)
  <2> DEFINE new == [row[a] EXCEPT !.state = "Claimed"]
  <2>1. new \in Row /\ new.state = "Claimed"
    BY <1>1 DEF Row, OpenStates
  <2>2. TakeLock(h, a, new, "claimed") /\ row[a].state = "Pending"
    BY <1>4 DEF handle_approval_claim
  <2>3. Follows(row[a], new) /\ new.state \notin Terminal
    BY <2>1, <2>2 DEF Follows, Terminal, OpenStates
  <2>4. "claimed" \in Events /\ "claimed" \notin Verdicts
    BY DEF Events, Verdicts
  <2> QED
    BY <1>1, <2>1, <2>2, <2>3, <2>4, LockStep
<1>5. CASE handle_approval_cancel(h, a)
  <2> DEFINE new == [row[a] EXCEPT !.state = "Expired"]
  <2>1. new \in Row /\ new.state = "Expired"
    BY <1>1 DEF Row, Terminal
  <2>2. TakeLock(h, a, new, "cancelled") /\ row[a].state \in OpenStates
    BY <1>5 DEF handle_approval_cancel
  <2>3. Follows(row[a], new)
    BY <2>1, <2>2 DEF Follows, Terminal
  <2>4. "cancelled" \in Events /\ "cancelled" \in Verdicts /\ new.state = StateOf("cancelled")
    BY <2>1 DEF Events, Verdicts, StateOf
  <2> QED
    BY <1>1, <2>1, <2>2, <2>3, <2>4, LockStep
<1> QED
  BY <1>2, <1>3, <1>4, <1>5

LEMMA VoteReadKeeps ==
  ASSUME IInv, NEW h \in Handlers, NEW a \in Ids, NEW v \in Voters,
         NEW b \in {"approve", "deny"}, handle_vote(h, a, v, b)
  PROVE  IInv'
<1> DEFINE j == [step |-> "read", id |-> a, who |-> v, ballot |-> b,
                 policy |-> IF hub = "warm" THEN policy ELSE "single_vote",
                 eligible |-> IF hub = "warm" THEN Cardinality(seen) ELSE 1]
<1>1. IsFiniteSet(seen) /\ Cardinality(seen) \in Nat
  BY ApprovalAssumption, FS_Subset, FS_CardinalityType DEF IInv, TypeOK
<1>2. j \in Reading
  BY <1>1 DEF Reading, IInv, TypeOK, Policies
<1>3. job' = [job EXCEPT ![h] = j]
  BY DEF handle_vote
<1>4. j.step # "locked" /\ j \in Job
  BY <1>2 DEF Job
<1> HIDE DEF j
<1>5. TypeOK'
  BY <1>3, <1>4 DEF IInv, TypeOK, handle_vote
<1>6. \A g \in Handlers : job'[g] = job[g] \/ job'[g].step # "locked"
  BY <1>3, <1>4 DEF IInv, TypeOK
<1> QED
  BY <1>5, <1>6, QuietStep DEF handle_vote

LEMMA RecordVoteKeeps ==
  ASSUME IInv, NEW h \in Handlers, record_vote_in_tx(h)
  PROVE  IInv'
<1> DEFINE a == job[h].id
           o == Outcome(h)
           new == [state |-> IF o = "Pending" THEN row[a].state ELSE o, votes |-> Voted(h)]
<1>1. job[h] \in Reading /\ job[h].step # "locked"
  BY JobCases DEF record_vote_in_tx, IInv, TypeOK
<1>2. a \in Ids /\ row[a] \in Row /\ job[h].policy \in Policies
  BY <1>1 DEF Reading, IInv, TypeOK
<1>3. o \in {"Approved", "Denied", "Contested", "Pending"}
  BY <1>2, EvaluateType DEF Outcome
<1>4. row[a].state \in OpenStates /\ TakeLock(h, a, new, EventOf(o))
  BY DEF record_vote_in_tx
<1>5. Voted(h) \in [Voters -> Ballots]
  <2>1. row[a].votes \in [Voters -> Ballots] /\ job[h].ballot \in Ballots
    BY <1>1, <1>2 DEF Row, Reading, Ballots
  <2> QED
    BY <2>1 DEF Voted
<1>6. /\ EventOf(o) \in Events
      /\ EventOf(o) \in Verdicts <=> o \in Terminal
      /\ o \in Terminal => StateOf(EventOf(o)) = o
  BY <1>3, OutcomeEvent
<1>7. new.state = IF o = "Pending" THEN row[a].state ELSE o
  OBVIOUS
<1>8. new.state \in OpenStates \union Terminal
  BY <1>3, <1>4, <1>7 DEF OpenStates, Terminal
<1>9. new \in Row
  BY <1>5, <1>8 DEF Row
<1>10. Follows(row[a], new)
  BY <1>4, <1>8 DEF Follows
<1>11. new.state \in Terminal => o \in Terminal /\ new.state = o
  BY <1>4, <1>7 DEF OpenStates, Terminal
<1>12. o \in Terminal => new.state = o
  BY <1>7 DEF Terminal
<1> HIDE DEF a, o, new
<1> QED
  BY <1>1, <1>2, <1>4, <1>6, <1>9, <1>10, <1>11, <1>12, LockStep

LEMMA VoteRejectedKeeps ==
  ASSUME IInv, NEW h \in Handlers, VoteRejected(h)
  PROVE  IInv'
<1>1. Idle \in Job /\ Idle.step # "locked"
  BY DEF Job, Idle
<1>2. TypeOK'
  BY <1>1 DEF VoteRejected, IInv, TypeOK
<1>3. \A g \in Handlers : job'[g] = job[g] \/ job'[g].step # "locked"
  BY <1>1 DEF VoteRejected, IInv, TypeOK
<1> QED
  BY <1>2, <1>3, QuietStep DEF VoteRejected

\* The other handlers work on other rows.
LEMMA OtherRows ==
  ASSUME IInv, NEW h \in Handlers, job[h].step = "locked",
         NEW g \in Handlers, g # h, job[g].step = "locked"
  PROVE  job[g].id # job[h].id /\ job[g].id \in Ids
<1>1. job[g].id \in Ids
  BY JobCases DEF IInv, TypeOK, Writing
<1> QED
  BY <1>1 DEF IInv, LockedSound

LEMMA CommitKeeps ==
  ASSUME IInv, NEW h \in Handlers, Commit(h)
  PROVE  IInv'
<1> DEFINE a == job[h].id
           new == job[h].new
           ev == job[h].event
<1>1. job[h] \in Writing /\ job[h].step = "locked"
  BY JobCases DEF Commit, IInv, TypeOK
<1>2. a \in Ids /\ new \in Row /\ ev \in Events
  BY <1>1 DEF Writing
<1>3. /\ row' = [row EXCEPT ![a] = new]
      /\ entry' = [entry EXCEPT ![a] = apply_event(entry[a], ev)]
      /\ verdicts' = [verdicts EXCEPT ![a] = IF ev \in Verdicts THEN Append(verdicts[a], ev)
                                             ELSE verdicts[a]]
      /\ lock' = [lock EXCEPT ![a] = NoOne]
      /\ job' = [job EXCEPT ![h] = Idle]
      /\ UNCHANGED <<policy, members, seen, hub, due, sweep, poll>>
  BY DEF Commit
<1>4. /\ lock[a] = h
      /\ Follows(row[a], new)
      /\ ev \in Verdicts => row[a].state \in OpenStates /\ new.state = StateOf(ev)
      /\ ev \notin Verdicts /\ new.state \in Terminal => new = row[a]
  BY <1>1 DEF IInv, LockedSound
<1>5. TypeOK
  BY DEF IInv
<1>6. apply_event(entry[a], ev) \in OpenStates \union {"absent"}
  BY <1>2, <1>5, ApplyEventType DEF TypeOK
<1>7. ev \in Verdicts => Append(verdicts[a], ev) \in Seq(Verdicts)
  BY <1>2, <1>5 DEF TypeOK
<1>8. Idle \in Job /\ Idle.step # "locked"
  BY DEF Job, Idle
<1> HIDE DEF a, new, ev
<1>9. TypeOK'
  <2>1. row' \in [Ids -> Row] /\ lock' \in [Ids -> Handlers \union {NoOne}]
    BY <1>2, <1>3, <1>5 DEF TypeOK
  <2>2. job' \in [Handlers -> Job]
    BY <1>3, <1>5, <1>8 DEF TypeOK
  <2>3. entry' \in [Ids -> OpenStates \union {"absent"}]
    BY <1>3, <1>5, <1>6 DEF TypeOK
  <2>4. verdicts' \in [Ids -> Seq(Verdicts)]
    BY <1>2, <1>3, <1>5, <1>7 DEF TypeOK
  <2> QED
    BY <1>3, <1>5, <2>1, <2>2, <2>3, <2>4 DEF TypeOK
<1>10. \A x \in Ids : x # a => row'[x] = row[x] /\ lock'[x] = lock[x] /\ verdicts'[x] = verdicts[x]
  BY <1>3, <1>5 DEF TypeOK
<1>11. row'[a] = new
  BY <1>2, <1>3, <1>5 DEF TypeOK
<1>12. verdicts'[a] = IF ev \in Verdicts THEN Append(verdicts[a], ev) ELSE verdicts[a]
  BY <1>2, <1>3, <1>5 DEF TypeOK
<1>13. LockedSound'
  <2> SUFFICES ASSUME NEW g \in Handlers, job'[g].step = "locked"
               PROVE  /\ lock'[job'[g].id] = g
                      /\ Follows(row'[job'[g].id], job'[g].new)
                      /\ job'[g].event \in Verdicts =>
                           /\ row'[job'[g].id].state \in OpenStates
                           /\ job'[g].new.state = StateOf(job'[g].event)
                      /\ job'[g].event \notin Verdicts /\ job'[g].new.state \in Terminal =>
                           job'[g].new = row'[job'[g].id]
    BY DEF LockedSound
  <2>1. g # h /\ job'[g] = job[g]
    BY <1>3, <1>5, <1>8 DEF TypeOK
  <2>2. job[g].id # a /\ job[g].id \in Ids
    BY <1>1, <2>1, OtherRows DEF a
  <2> QED
    BY <1>10, <2>1, <2>2 DEF IInv, LockedSound
<1>14. Unresolved'
  <2> SUFFICES ASSUME NEW x \in Ids, row'[x].state \notin Terminal
               PROVE  verdicts'[x] = << >>
    BY DEF Unresolved
  <2>1. CASE x # a
    BY <1>10, <2>1 DEF IInv, Unresolved
  <2>2. CASE x = a
    <3>1. ev \notin Verdicts
      BY <1>4, <1>11, <2>2 DEF StateOf, Terminal
    <3>2. row[a].state \notin Terminal
      BY <1>4, <1>11, <2>2 DEF Follows, Terminal, OpenStates
    <3> QED
      BY <1>12, <2>2, <3>1, <3>2 DEF IInv, Unresolved
  <2> QED
    BY <2>1, <2>2
<1>15. Unannounced'
  <2> SUFFICES ASSUME NEW x \in sweep
               PROVE  row'[x].state = "Expired" /\ verdicts'[x] = << >>
    BY <1>3 DEF Unannounced
  <2>1. x \in Ids /\ row[x].state = "Expired" /\ verdicts[x] = << >>
    BY <1>5 DEF IInv, TypeOK, Unannounced
  <2>2. CASE x # a
    BY <1>10, <2>1, <2>2
  <2>3. CASE x = a
    <3>1. ev \notin Verdicts
      BY <1>4, <2>1, <2>3 DEF OpenStates
    <3>2. new.state = "Expired"
      BY <1>4, <2>1, <2>3 DEF Follows, OpenStates
    <3> QED
      BY <1>11, <1>12, <2>1, <2>3, <3>1, <3>2
  <2> QED
    BY <2>2, <2>3
<1>16. OneVerdict'
  <2> SUFFICES ASSUME NEW x \in Ids
               PROVE  /\ Len(verdicts'[x]) <= 1
                      /\ \A i \in 1..Len(verdicts'[x]) : row'[x].state = StateOf(verdicts'[x][i])
    BY DEF OneVerdict
  <2>1. CASE x # a
    BY <1>10, <2>1 DEF IInv, OneVerdict
  <2>2. CASE x = a /\ ev \in Verdicts
    <3>1. row[a].state \notin Terminal /\ new.state = StateOf(ev)
      BY <1>4, <2>2 DEF OpenStates, Terminal
    <3>2. verdicts[a] = << >>
      BY <1>2, <3>1 DEF IInv, Unresolved
    <3>3. verdicts'[a] = <<ev>>
      BY <1>12, <2>2, <3>2
    <3> QED
      BY <1>11, <2>2, <3>1, <3>3
  <2>3. CASE x = a /\ ev \notin Verdicts
    <3>1. verdicts'[a] = verdicts[a]
      BY <1>12, <2>3
    <3>2. CASE row[a].state \in Terminal
      <4>1. row'[a] = row[a]
        BY <1>4, <1>11, <3>2 DEF Follows, OpenStates, Terminal
      <4> QED
        BY <2>3, <3>1, <4>1 DEF IInv, OneVerdict
    <3>3. CASE row[a].state \notin Terminal
      BY <2>3, <3>1, <3>3 DEF IInv, Unresolved
    <3> QED
      BY <3>2, <3>3
  <2> QED
    BY <2>1, <2>2, <2>3
<1> QED
  BY <1>9, <1>13, <1>14, <1>15, <1>16 DEF IInv

LEMMA RollbackKeeps ==
  ASSUME IInv, NEW h \in Handlers, Rollback(h)
  PROVE  IInv'
<1> DEFINE a == job[h].id
<1>1. Idle \in Job /\ Idle.step # "locked"
  BY DEF Job, Idle
<1>2. /\ lock' = [lock EXCEPT ![a] = NoOne] /\ job' = [job EXCEPT ![h] = Idle]
      /\ UNCHANGED <<policy, members, seen, hub, row, due, entry, verdicts, sweep, poll>>
      /\ job[h].step = "locked"
  BY DEF Rollback
<1>3. TypeOK
  BY DEF IInv
<1>4. TypeOK'
  BY <1>1, <1>2, <1>3 DEF TypeOK
<1>5. LockedSound'
  <2> SUFFICES ASSUME NEW g \in Handlers, job'[g].step = "locked"
               PROVE  /\ g # h /\ job'[g] = job[g]
                      /\ lock'[job[g].id] = lock[job[g].id]
    BY <1>2 DEF IInv, LockedSound
  <2>1. g # h /\ job'[g] = job[g]
    BY <1>1, <1>2, <1>3 DEF TypeOK
  <2>2. job[g].id # a /\ job[g].id \in Ids
    BY <1>2, <2>1, OtherRows
  <2> QED
    BY <1>2, <1>3, <2>1, <2>2 DEF TypeOK
<1>6. Unresolved' /\ Unannounced' /\ OneVerdict'
  BY <1>2 DEF IInv, Unresolved, Unannounced, OneVerdict
<1> QED
  BY <1>4, <1>5, <1>6 DEF IInv

\* The sweeper's UPDATE waits for the locks, so no open transaction works on
\* a row it expires.
LEMMA ExpireKeeps ==
  ASSUME IInv, expire_timed_out
  PROVE  IInv'
<1>1. TypeOK
  BY DEF IInv
<1>2. /\ \A x \in Expirable : lock[x] = NoOne
      /\ row' = [x \in Ids |-> IF x \in Expirable THEN [row[x] EXCEPT !.state = "Expired"]
                               ELSE row[x]]
      /\ sweep' = Expirable
      /\ UNCHANGED <<policy, members, seen, hub, due, lock, job, entry, verdicts, poll>>
  BY DEF expire_timed_out
<1>3. /\ Expirable \subseteq Ids
      /\ \A x \in Expirable : row[x].state \in OpenStates
  BY <1>1 DEF Expirable, TypeOK
<1>4. \A x \in Ids : /\ row'[x] \in Row
                     /\ x \in Expirable => row'[x].state = "Expired"
                     /\ x \notin Expirable => row'[x] = row[x]
  BY <1>1, <1>2 DEF TypeOK, Row, Terminal
<1>5. \A x \in Expirable : verdicts[x] = << >>
  BY <1>3 DEF IInv, Unresolved, OpenStates, Terminal
<1>6. row' \in [Ids -> Row]
  BY <1>2, <1>4
<1> HIDE DEF Expirable
<1>7. TypeOK'
  BY <1>1, <1>2, <1>3, <1>6 DEF TypeOK
<1>8. LockedSound'
  <2> SUFFICES ASSUME NEW g \in Handlers, job[g].step = "locked"
               PROVE  row'[job[g].id] = row[job[g].id]
    BY ZenonT(60), <1>2 DEF IInv, LockedSound
  <2>1. job[g].id \in Ids
    BY <1>1, JobCases DEF TypeOK, Writing
  <2>2. lock[job[g].id] = g
    BY DEF IInv, LockedSound
  <2> QED
    BY <1>2, <1>4, <2>1, <2>2, ApprovalAssumption
<1>9. Unresolved'
  BY <1>2, <1>4, <1>5 DEF IInv, Unresolved
<1>10. Unannounced'
  BY <1>2, <1>3, <1>4, <1>5 DEF Unannounced
<1>11. OneVerdict'
  <2> SUFFICES ASSUME NEW x \in Ids
               PROVE  /\ Len(verdicts[x]) <= 1
                      /\ \A i \in 1..Len(verdicts[x]) : row'[x].state = StateOf(verdicts[x][i])
    BY <1>2 DEF OneVerdict
  <2>1. CASE x \in Expirable
    <3>1. Len(verdicts[x]) = 0
      BY <1>5, <2>1
    <3> QED
      BY <3>1
  <2>2. CASE x \notin Expirable
    BY <1>4, <2>2 DEF IInv, OneVerdict
  <2> QED
    BY <2>1, <2>2
<1> QED
  BY <1>7, <1>8, <1>9, <1>10, <1>11 DEF IInv

LEMMA AnnounceKeeps ==
  ASSUME IInv, NEW a \in Ids, Announce(a)
  PROVE  IInv'
<1>1. TypeOK
  BY DEF IInv
<1>2. /\ a \in sweep /\ sweep' = sweep \ {a}
      /\ entry' = [entry EXCEPT ![a] = apply_event(entry[a], "timed_out")]
      /\ verdicts' = [verdicts EXCEPT ![a] = Append(verdicts[a], "timed_out")]
      /\ UNCHANGED <<policy, members, seen, hub, row, due, lock, job, poll>>
  BY DEF Announce
<1>3. row[a].state = "Expired" /\ verdicts[a] = << >>
  BY <1>2 DEF IInv, Unannounced
<1>4. verdicts'[a] = <<"timed_out">> /\ \A x \in Ids : x # a => verdicts'[x] = verdicts[x]
  BY <1>1, <1>2, <1>3 DEF TypeOK
<1>5. TypeOK'
  <2>1. "timed_out" \in Events /\ "timed_out" \in Verdicts
    BY DEF Events, Verdicts
  <2>2. entry' \in [Ids -> OpenStates \union {"absent"}]
    BY <1>1, <1>2, <2>1, ApplyEventType DEF TypeOK
  <2>3. <<"timed_out">> \in Seq(Verdicts)
    BY <2>1
  <2>4. verdicts' \in [Ids -> Seq(Verdicts)]
    BY <1>1, <1>2, <1>4, <2>3 DEF TypeOK
  <2> QED
    BY <1>1, <1>2, <2>2, <2>4 DEF TypeOK
<1>6. LockedSound'
  BY <1>2 DEF IInv, LockedSound
<1>7. Unresolved'
  BY <1>2, <1>3, <1>4 DEF IInv, Unresolved, Terminal
<1>8. Unannounced'
  BY <1>1, <1>2, <1>4 DEF IInv, Unannounced, TypeOK
<1>9. OneVerdict'
  <2> SUFFICES ASSUME NEW x \in Ids
               PROVE  /\ Len(verdicts'[x]) <= 1
                      /\ \A i \in 1..Len(verdicts'[x]) : row[x].state = StateOf(verdicts'[x][i])
    BY <1>2 DEF OneVerdict
  <2>1. CASE x = a
    <3>1. verdicts'[x] = <<"timed_out">> /\ row[x].state = "Expired"
      BY <1>3, <1>4, <2>1
    <3>2. StateOf("timed_out") = "Expired"
      BY DEF StateOf
    <3> QED
      BY <3>1, <3>2
  <2>2. CASE x # a
    BY <1>4, <2>2 DEF IInv, OneVerdict
  <2> QED
    BY <2>1, <2>2
<1> QED
  BY <1>5, <1>6, <1>7, <1>8, <1>9 DEF IInv

\* What a crash or a skipped announcement loses was never in the log.
LEMMA LossKeeps ==
  ASSUME IInv, Crash \/ \E a \in Ids : AnnounceSkipped(a)
  PROVE  IInv'
<1>1. Idle \in Job /\ Idle.step # "locked"
  BY DEF Job, Idle
<1>2. UNCHANGED <<policy, members, seen, row, due, entry, verdicts, poll>> /\ sweep' \subseteq sweep
  BY DEF Crash, AnnounceSkipped
<1>3. TypeOK'
  BY <1>1 DEF IInv, TypeOK, Crash, AnnounceSkipped
<1>4. LockedSound'
  BY <1>1 DEF IInv, LockedSound, Crash, AnnounceSkipped
<1>5. Unresolved' /\ Unannounced' /\ OneVerdict'
  BY <1>2 DEF IInv, Unresolved, Unannounced, OneVerdict
<1> QED
  BY <1>3, <1>4, <1>5 DEF IInv

-----------------------------------------------------------------------------
(* Theorems.                                                               *)

LEMMA InvStart == ASSUME Init PROVE IInv
<1>1. NoRow \in Row /\ NoRow.state = "none"
  BY NoVotesType DEF NoRow, Row
<1>2. Idle \in Job /\ Idle.step # "locked"
  BY DEF Job, Idle
<1>3. TypeOK
  BY <1>1, <1>2, ApprovalAssumption DEF Init, TypeOK
<1>4. LockedSound
  BY <1>2 DEF Init, LockedSound
<1>5. Unresolved /\ Unannounced /\ OneVerdict
  BY DEF Init, Unresolved, Unannounced, OneVerdict
<1> QED
  BY <1>3, <1>4, <1>5 DEF IInv

LEMMA InvStep == ASSUME IInv, [Next]_vars PROVE IInv'
<1>1. CASE UNCHANGED vars
  BY <1>1 DEF vars, IInv, TypeOK, LockedSound, Unresolved, Unannounced, OneVerdict
<1>2. ASSUME NEW h \in Handlers, Handle(h) PROVE IInv'
  BY <1>2, UpdateKeeps, VoteReadKeeps, RecordVoteKeeps, VoteRejectedKeeps, CommitKeeps,
     RollbackKeeps DEF Handle
<1>3. CASE Attended
  BY <1>2, <1>3, ShimKeeps, SessionKeeps, ExpireKeeps, AnnounceKeeps DEF Attended, Sweeper
<1>4. CASE Skips \/ Repeats \/ Invalidate \/ Crash
  BY <1>4, LossKeeps, UpdateKeeps, SessionKeeps DEF Skips, Repeats
<1> QED
  BY <1>1, <1>3, <1>4 DEF Next

\* The inductive invariant holds of every behaviour, failures included.
THEOREM Invariance == Spec => []IInv
<1>1. Init => IInv
  BY InvStart
<1>2. IInv /\ [Next]_vars => IInv'
  BY InvStep
<1> QED
  BY <1>1, <1>2, PTL DEF Spec

\* The types hold for any number of approvals, members and handlers.
THEOREM TypeCorrect == Spec => []TypeOK
<1>1. IInv => TypeOK
  BY DEF IInv
<1> QED
  BY <1>1, Invariance, PTL

\* The log resolves an approval at most once and as its row says, however
\* votes, cancellations, sweeps, failures and crashes interleave.
THEOREM ResolvedOnce == Spec => []OneVerdict
<1>1. IInv => OneVerdict
  BY DEF IInv
<1> QED
  BY <1>1, Invariance, PTL

-----------------------------------------------------------------------------
(* Rows change in two places only.                                         *)

LEMMA RowWriters ==
  ASSUME [Next]_vars
  PROVE  \/ UNCHANGED row
         \/ (\E h \in Handlers : Commit(h)) /\ UNCHANGED poll
         \/ expire_timed_out
<1>1. ASSUME NEW h \in Handlers, Handle(h)
      PROVE  UNCHANGED row \/ (Commit(h) /\ UNCHANGED poll)
  BY <1>1 DEF Handle, handle_approval_request, handle_approval_claim, handle_approval_cancel,
              handle_vote, record_vote_in_tx, TakeLock, VoteRejected, Commit, Rollback
<1>2. ASSUME NEW a \in Ids, Shim(a) PROVE UNCHANGED row
  BY <1>2 DEF Shim, poll_approval, poll_resolution, PollFails, Answer
<1>3. Session \/ Invalidate => UNCHANGED row
  BY DEF Session, Invalidate, Attach, Detach, SetHub, add_member, ActorJoined
<1>4. Sweeper => UNCHANGED row \/ expire_timed_out
  BY DEF Sweeper, TimeoutPasses, Announce
<1>5. Skips \/ Repeats \/ Crash \/ UNCHANGED vars => UNCHANGED row
  BY DEF Skips, Repeats, Crash, vars, AnnounceSkipped, RequestAgain, TakeLock
<1> QED
  BY <1>1, <1>2, <1>3, <1>4, <1>5 DEF Next, Attended

\* What a commit does to the rows.
LEMMA CommitRow ==
  ASSUME IInv, NEW h \in Handlers, Commit(h)
  PROVE  \E a \in Ids, new \in Row : Follows(row[a], new) /\ row' = [row EXCEPT ![a] = new]
<1>1. job[h] \in Writing /\ job[h].step = "locked"
  BY JobCases DEF Commit, IInv, TypeOK
<1>2. job[h].id \in Ids /\ job[h].new \in Row
  BY <1>1 DEF Writing
<1>3. Follows(row[job[h].id], job[h].new)
  BY <1>1 DEF IInv, LockedSound
<1> QED
  BY <1>2, <1>3 DEF Commit

\* A row in a terminal state keeps that state and its votes: no late vote,
\* cancellation or sweep rewrites a decision.
THEOREM TerminalAlwaysStable == Spec => TerminalStable
<1>1. IInv /\ [Next]_vars => [\A a \in Ids : row[a].state \in Terminal => row'[a] = row[a]]_vars
  <2> SUFFICES ASSUME IInv, [Next]_vars, NEW x \in Ids, row[x].state \in Terminal
               PROVE  row'[x] = row[x]
    OBVIOUS
  <2>1. ASSUME NEW h \in Handlers, Commit(h) PROVE row'[x] = row[x]
    <3>1. PICK a \in Ids, new \in Row : Follows(row[a], new) /\ row' = [row EXCEPT ![a] = new]
      BY <2>1, CommitRow
    <3>2. x = a => new = row[x]
      BY <3>1 DEF Follows, OpenStates, Terminal
    <3> QED
      BY <3>1, <3>2 DEF IInv, TypeOK
  <2>2. expire_timed_out => row'[x] = row[x]
    BY DEF expire_timed_out, Expirable, OpenStates, Terminal
  <2> QED
    BY <2>1, <2>2, RowWriters
<1> QED
  BY <1>1, Invariance, PTL DEF Spec, TerminalStable

-----------------------------------------------------------------------------
(* The refinement.                                                         *)

\* A committed row is a request opened, granted or refused, or no change.
LEMMA CommitRefines ==
  ASSUME IInv, NEW h \in Handlers, Commit(h), UNCHANGED poll
  PROVE  Gate!GateNext \/ UNCHANGED <<absGate, absAnswer>>
<1>1. PICK a \in Ids, new \in Row : Follows(row[a], new) /\ row' = [row EXCEPT ![a] = new]
  BY CommitRow
<1>2. UNCHANGED absAnswer
  BY DEF absAnswer
<1>3. absGate' = [absGate EXCEPT ![a] = GateOf(new.state)]
  BY <1>1 DEF absGate, IInv, TypeOK
<1>4. absGate[a] = GateOf(row[a].state)
  BY DEF absGate
<1>5. CASE new.state = row[a].state \/ (row[a].state \in OpenStates /\ new.state \in OpenStates)
  <2>1. GateOf(new.state) = absGate[a]
    BY <1>4, <1>5 DEF GateOf, OpenStates
  <2> QED
    BY <1>2, <1>3, <2>1 DEF absGate
<1>6. CASE row[a].state = "none" /\ new.state = "Pending"
  BY <1>2, <1>3, <1>4, <1>6 DEF GateOf, OpenStates, Gate!GateNext, Gate!Open
<1>7. CASE row[a].state \in OpenStates /\ new.state = "Approved"
  BY <1>2, <1>3, <1>4, <1>7 DEF GateOf, OpenStates, Gate!GateNext, Gate!Grant
<1>8. CASE row[a].state \in OpenStates /\ new.state \in {"Denied", "Expired"}
  <2>1. absGate[a] = "open" /\ GateOf(new.state) = "refused"
    BY <1>4, <1>8 DEF GateOf, OpenStates
  <2>2. absGate' = [x \in Ids |-> IF x \in {a} THEN "refused" ELSE absGate[x]]
    BY <1>3, <2>1 DEF absGate
  <2>3. Gate!Refuse({a})
    BY <1>2, <2>1, <2>2 DEF Gate!Refuse
  <2> QED
    BY <2>3 DEF Gate!GateNext
<1> QED
  BY <1>1, <1>5, <1>6, <1>7, <1>8 DEF Follows, Terminal

LEMMA SweepRefines ==
  ASSUME IInv, expire_timed_out
  PROVE  Gate!GateNext
<1>1. UNCHANGED absAnswer
  BY DEF absAnswer, expire_timed_out
<1>2. Expirable \in SUBSET Ids
  BY DEF Expirable, IInv, TypeOK
<1>3. \A a \in Expirable : absGate[a] = "open"
  BY <1>2 DEF Expirable, absGate, GateOf, OpenStates
<1>4. ASSUME NEW a \in Ids
      PROVE  GateOf(row'[a].state) = IF a \in Expirable THEN "refused" ELSE absGate[a]
  <2>1. CASE a \in Expirable
    <3>1. row'[a].state = "Expired"
      BY <2>1 DEF expire_timed_out, IInv, TypeOK, Row
    <3> QED
      BY <2>1, <3>1 DEF GateOf, OpenStates
  <2>2. CASE a \notin Expirable
    BY <2>2 DEF expire_timed_out, absGate
  <2> QED
    BY <2>1, <2>2
<1>5. absGate' = [a \in Ids |-> IF a \in Expirable THEN "refused" ELSE absGate[a]]
  BY <1>4 DEF absGate
<1> QED
  BY <1>1, <1>2, <1>3, <1>5 DEF Gate!GateNext, Gate!Refuse

\* Polling is asking; an answer of "granted" is backed by an approved row.
LEMMA ShimRefines ==
  ASSUME IInv, NEW a \in Ids, Shim(a)
  PROVE  Gate!GateNext
<1>1. UNCHANGED absGate
  BY DEF absGate, Shim, poll_approval, poll_resolution, PollFails, Answer
<1>2. CASE poll_approval(a)
  <2>1. absAnswer[a] = "no" /\ absGate[a] # "none"
    BY <1>2 DEF poll_approval, absAnswer, AnswerOf, absGate, GateOf, OpenStates
  <2>2. absAnswer' = [absAnswer EXCEPT ![a] = "waiting"]
    BY <1>2 DEF poll_approval, absAnswer, AnswerOf, IInv, TypeOK
  <2> QED
    BY <1>1, <2>1, <2>2 DEF Gate!GateNext, Gate!Ask
<1>3. ASSUME NEW d \in {"granted", "denied", "timed_out"}, Answer(a, d),
             d = "granted" => row[a].state = "Approved" \/ FailOpen
      PROVE  Gate!GateNext
  <2>1. absAnswer[a] = "waiting"
    BY <1>3 DEF Answer, absAnswer, AnswerOf
  <2>2. absAnswer' = [absAnswer EXCEPT ![a] = AnswerOf(d)]
    BY <1>3 DEF Answer, absAnswer, IInv, TypeOK
  <2>3. AnswerOf(d) \in {"granted", "blocked"}
    BY <1>3 DEF AnswerOf
  <2>4. AnswerOf(d) = "granted" => absGate[a] = "granted" \/ FailOpen
    BY <1>3 DEF AnswerOf, absGate, GateOf, OpenStates
  <2>5. Gate!Tell(a, AnswerOf(d))
    BY <1>1, <2>1, <2>2, <2>4 DEF Gate!Tell
  <2> QED
    BY <2>3, <2>5 DEF Gate!GateNext
<1>4. CASE poll_resolution(a)
  <2>1. /\ decision(row[a].state) \in {"granted", "denied", "timed_out"}
        /\ decision(row[a].state) = "granted" => row[a].state = "Approved"
    BY DEF decision
  <2> QED
    BY <1>3, <1>4, <2>1 DEF poll_resolution
<1>5. CASE PollFails(a)
  <2>1. PICK d \in {fallback_decision, "timed_out"} : Answer(a, d)
    BY <1>5 DEF PollFails
  <2>2. d \in {"granted", "denied", "timed_out"} /\ (d = "granted" => FailOpen)
    BY <2>1 DEF fallback_decision
  <2> QED
    BY <1>3, <2>1, <2>2
<1> QED
  BY <1>2, <1>4, <1>5 DEF Shim

\* Handlers, sweeper and shim implement the gate the agent relies on.
THEOREM ImplementsGate == Spec => ApprovalGateSpec
<1>1. Init => Gate!GateInit
  <2>1. GateOf("none") = "none" /\ AnswerOf("no") = "no" /\ NoRow.state = "none"
    BY DEF GateOf, OpenStates, AnswerOf, NoRow
  <2> QED
    BY <2>1 DEF Init, Gate!GateInit, absGate, absAnswer
<1>2. IInv /\ [Next]_vars => [Gate!GateNext]_<<absGate, absAnswer>>
  <2> SUFFICES ASSUME IInv, [Next]_vars
               PROVE  Gate!GateNext \/ UNCHANGED <<absGate, absAnswer>>
    OBVIOUS
  <2>1. CASE \E a \in Ids : Shim(a)
    BY <2>1, ShimRefines
  <2>2. CASE expire_timed_out
    BY <2>2, SweepRefines
  <2>3. CASE \E h \in Handlers : Commit(h)
    BY <2>3, CommitRefines DEF Commit
  <2>4. CASE UNCHANGED <<row, poll>>
    BY <2>4 DEF absGate, absAnswer
  <2>5. UNCHANGED poll \/ \E a \in Ids : Shim(a)
    BY DEF Next, Attended, Handle, handle_approval_request, handle_approval_claim,
           handle_approval_cancel, handle_vote, record_vote_in_tx, TakeLock, VoteRejected,
           Commit, Rollback, Session, Invalidate, Attach, Detach, SetHub, add_member, ActorJoined, Sweeper,
           TimeoutPasses, Announce, expire_timed_out, Skips, Repeats, Crash, vars,
           AnnounceSkipped, RequestAgain
  <2> QED
    BY <2>1, <2>2, <2>3, <2>4, <2>5, RowWriters
<1> QED
  BY <1>1, <1>2, Invariance, PTL DEF Spec, ApprovalGateSpec, Gate!GateSpec, Gate!gateVars

-----------------------------------------------------------------------------
(* The decisions while the session is calm: no announcement was skipped or *)
(* repeated, no snapshot was lost, nobody crashed.                         *)

View(s) == IF s \in OpenStates THEN s ELSE "absent"

\* The votes carry the decision s under policy p, for lo to hi members.
CarriedBy(p, votes, n, s) ==
  LET approve == Count(votes, "approve")
      deny == Count(votes, "deny") IN
  CASE p = "single_vote" -> IF s = "Approved" THEN approve > 0 /\ deny = 0 ELSE deny > 0 /\ approve = 0
    [] p = "majority" -> 2 * (IF s = "Approved" THEN approve ELSE deny) > n
    [] p = "unanimous" -> IF s = "Approved" THEN approve = n ELSE deny > 0

DecidedBy(p, lo, hi, r) ==
  r.state \in {"Approved", "Denied"} => \E n \in lo..hi : CarriedBy(p, r.votes, n, r.state)

\* A handler knows the session's policy, and a number of members it has had.
ReadSound(j) ==
  j.step = "read" => j.policy = policy /\ j.eligible \in Cardinality(Founders)..Cardinality(members)

\* What it is about to write is decided, and its event says what the row will.
WriteSound(j) ==
  j.step = "locked" =>
    /\ DecidedBy(policy, Cardinality(Founders), Cardinality(members), j.new)
    /\ apply_event(View(row[j.id].state), j.event) = View(j.new.state)

RowsDecided == \A a \in Ids : DecidedBy(policy, Cardinality(Founders), Cardinality(members), row[a])

Viewed == \A a \in Ids \ sweep : entry[a] = View(row[a].state)

CalmInv ==
  /\ hub # "cold"
  /\ \A h \in Handlers : ReadSound(job[h]) /\ WriteSound(job[h])
  /\ RowsDecided /\ Viewed

\* Counting votes, and members who join.
LEMMA CountType == \A votes, b : Count(votes, b) \in Nat
<1> SUFFICES ASSUME NEW votes, NEW b PROVE Count(votes, b) \in Nat
  OBVIOUS
<1>1. IsFiniteSet({v \in Voters : votes[v] = b})
  BY FS_Subset, ApprovalAssumption
<1>2. QED
  BY <1>1, FS_CardinalityType DEF Count

LEMMA MembersCounted ==
  ASSUME TypeOK
  PROVE  /\ Cardinality(Founders) \in Nat /\ Cardinality(seen) \in Nat /\ Cardinality(members) \in Nat
         /\ Cardinality(Founders) <= Cardinality(seen) /\ Cardinality(seen) <= Cardinality(members)
<1>1. IsFiniteSet(members)
  BY ApprovalAssumption, FS_Subset DEF TypeOK
<1>2. IsFiniteSet(seen) /\ Cardinality(seen) <= Cardinality(members)
  BY <1>1, FS_Subset DEF TypeOK
<1>3. IsFiniteSet(Founders) /\ Cardinality(Founders) <= Cardinality(seen)
  BY <1>2, FS_Subset DEF TypeOK
<1>4. QED
  BY <1>1, <1>2, <1>3, FS_CardinalityType

LEMMA MembersGrow ==
  ASSUME TypeOK, TypeOK', members \subseteq members'
  PROVE  Cardinality(members) \in Nat /\ Cardinality(members') \in Nat /\ Cardinality(members) <= Cardinality(members')
<1>1. IsFiniteSet(members')
  BY ApprovalAssumption, FS_Subset DEF TypeOK
<1>2. QED
  BY <1>1, FS_Subset, FS_CardinalityType

\* What some number of members carries, the session still carries as it grows.
LEMMA StaysDecided ==
  ASSUME NEW p, NEW r, NEW lo \in Nat, NEW hi \in Nat, NEW hi2 \in Nat, hi <= hi2, DecidedBy(p, lo, hi, r)
  PROVE  DecidedBy(p, lo, hi2, r)
<1>1. \A n \in lo..hi : n \in lo..hi2
  OBVIOUS
<1>2. QED
  BY <1>1 DEF DecidedBy

\* evaluate decides only what the votes carry.
LEMMA EvaluateCarries ==
  ASSUME NEW p \in Policies, NEW votes, NEW n \in Nat,
         evaluate(p, votes, n) \in {"Approved", "Denied"}
  PROVE  CarriedBy(p, votes, n, evaluate(p, votes, n))
<1> DEFINE approve == Count(votes, "approve")
           deny == Count(votes, "deny")
<1>1. approve \in Nat /\ deny \in Nat
  BY CountType
<1>2. CASE p = "single_vote"
  <2>1. evaluate(p, votes, n) = IF deny = 0 THEN IF approve > 0 THEN "Approved" ELSE "Pending"
                                ELSE IF approve = 0 THEN "Denied" ELSE "Contested"
    BY <1>2 DEF evaluate
  <2>2. \A s : CarriedBy(p, votes, n, s) <=> IF s = "Approved" THEN approve > 0 /\ deny = 0 ELSE deny > 0 /\ approve = 0
    BY <1>2 DEF CarriedBy
  <2> HIDE DEF approve, deny
  <2>3. QED
    BY <1>1, <2>1, <2>2
<1>3. CASE p = "majority"
  <2>1. evaluate(p, votes, n) = IF approve >= n \div 2 + 1 THEN "Approved" ELSE IF deny >= n \div 2 + 1 THEN "Denied"
                                ELSE IF approve > 0 /\ deny > 0 THEN "Contested" ELSE "Pending"
    BY <1>3 DEF evaluate
  <2>2. \A s : CarriedBy(p, votes, n, s) <=> 2 * (IF s = "Approved" THEN approve ELSE deny) > n
    BY <1>3 DEF CarriedBy
  <2>3. \A k \in Nat : k >= n \div 2 + 1 => 2 * k > n
    OBVIOUS
  <2> HIDE DEF approve, deny
  <2>4. QED
    BY <1>1, <2>1, <2>2, <2>3
<1>4. CASE p = "unanimous"
  <2>1. evaluate(p, votes, n) = IF approve = n THEN "Approved" ELSE IF deny > 0 THEN "Denied" ELSE "Pending"
    BY <1>4 DEF evaluate
  <2>2. \A s : CarriedBy(p, votes, n, s) <=> IF s = "Approved" THEN approve = n ELSE deny > 0
    BY <1>4 DEF CarriedBy
  <2> HIDE DEF approve, deny
  <2>3. QED
    BY <1>1, <2>1, <2>2
<1>5. QED
  BY <1>2, <1>3, <1>4 DEF Policies

\* A handler that does not move stays sound while the members grow.
LEMMA JobStays ==
  ASSUME TypeOK, TypeOK', CalmInv, UNCHANGED policy, members \subseteq members',
         NEW g \in Handlers, job'[g] = job[g],
         job[g].step = "locked" => row'[job[g].id] = row[job[g].id]
  PROVE  (ReadSound(job[g]) /\ WriteSound(job[g]))'
<1>1. /\ Cardinality(Founders) \in Nat /\ Cardinality(members) \in Nat /\ Cardinality(members') \in Nat
      /\ Cardinality(members) <= Cardinality(members')
  BY MembersCounted, MembersGrow
<1>2. ReadSound(job[g]) /\ WriteSound(job[g])
  BY DEF CalmInv
<1>3. ReadSound(job[g])'
  BY <1>1, <1>2 DEF ReadSound
<1>4. WriteSound(job[g])'
  <2> SUFFICES ASSUME job[g].step = "locked" PROVE WriteSound(job[g])'
    BY DEF WriteSound
  <2>1. DecidedBy(policy, Cardinality(Founders), Cardinality(members'), job[g].new)
    BY <1>1, <1>2, StaysDecided DEF WriteSound
  <2>2. QED
    BY <1>2, <2>1 DEF WriteSound
<1>5. QED
  BY <1>3, <1>4

LEMMA RowsStay ==
  ASSUME TypeOK, TypeOK', CalmInv, UNCHANGED <<policy, row>>, members \subseteq members'
  PROVE  RowsDecided'
<1>1. /\ Cardinality(Founders) \in Nat /\ Cardinality(members) \in Nat /\ Cardinality(members') \in Nat
      /\ Cardinality(members) <= Cardinality(members')
  BY MembersCounted, MembersGrow
<1>2. \A a \in Ids : DecidedBy(policy, Cardinality(Founders), Cardinality(members'), row[a])
  BY <1>1, StaysDecided DEF CalmInv, RowsDecided
<1>3. QED
  BY <1>2 DEF RowsDecided

\* A step that writes no row and tells no snapshot.
LEMMA CalmQuiet ==
  ASSUME TypeOK, TypeOK', CalmInv, UNCHANGED <<policy, row, entry, sweep>>,
         members \subseteq members', hub' # "cold",
         \A g \in Handlers : job'[g] = job[g] \/ (ReadSound(job[g]) /\ WriteSound(job[g]))'
  PROVE  CalmInv'
<1>1. \A g \in Handlers : (ReadSound(job[g]) /\ WriteSound(job[g]))'
  BY JobStays
<1>2. RowsDecided'
  BY RowsStay
<1>3. Viewed'
  BY DEF CalmInv, Viewed
<1>4. QED
  BY <1>1, <1>2, <1>3 DEF CalmInv

LEMMA CalmSession ==
  ASSUME TypeOK, TypeOK', CalmInv, Session \/ \E a \in Ids : Shim(a) \/ TimeoutPasses(a)
  PROVE  CalmInv'
<1>1. /\ UNCHANGED <<policy, row, entry, sweep, job>> /\ members \subseteq members'
      /\ hub' \in {hub, "warm", "none"}
  BY DEF Session, Attach, Detach, SetHub, add_member, ActorJoined, Shim, TimeoutPasses,
         poll_approval, poll_resolution, PollFails, Answer
<1>2. hub' # "cold" /\ \A g \in Handlers : job'[g] = job[g]
  BY <1>1 DEF CalmInv
<1>3. QED
  BY <1>1, <1>2, CalmQuiet

\* A handler that goes back to rest.
LEMMA CalmRest ==
  ASSUME TypeOK, TypeOK', CalmInv, NEW h \in Handlers, VoteRejected(h) \/ Rollback(h)
  PROVE  CalmInv'
<1>1. UNCHANGED <<policy, members, hub, row, entry, sweep>> /\ job' = [job EXCEPT ![h] = Idle]
  BY DEF VoteRejected, Rollback
<1>2. Idle.step # "read" /\ Idle.step # "locked"
  BY DEF Idle
<1>3. job'[h] = Idle /\ \A g \in Handlers : g # h => job'[g] = job[g]
  BY <1>1 DEF TypeOK
<1>4. (ReadSound(job[h]) /\ WriteSound(job[h]))'
  BY <1>2, <1>3 DEF ReadSound, WriteSound
<1>5. hub' # "cold" /\ members \subseteq members'
  BY <1>1 DEF CalmInv
<1>6. \A g \in Handlers : job'[g] = job[g] \/ (ReadSound(job[g]) /\ WriteSound(job[g]))'
  BY <1>3, <1>4
<1>7. QED
  BY <1>1, <1>5, <1>6, CalmQuiet

\* The snapshot is warm while the session is calm, so the vote reads the
\* session's own policy and a number of members it has had.
LEMMA CalmVote ==
  ASSUME TypeOK, TypeOK', CalmInv, NEW h \in Handlers, NEW a \in Ids, NEW v \in Voters,
         NEW b \in {"approve", "deny"}, handle_vote(h, a, v, b)
  PROVE  CalmInv'
<1> DEFINE j == [step |-> "read", id |-> a, who |-> v, ballot |-> b,
                 policy |-> IF hub = "warm" THEN policy ELSE "single_vote",
                 eligible |-> IF hub = "warm" THEN Cardinality(seen) ELSE 1]
<1>1. /\ UNCHANGED <<policy, members, row, entry, sweep>> /\ job' = [job EXCEPT ![h] = j] /\ hub' = "warm"
      /\ hub # "none"
  BY DEF handle_vote
<1>2. hub = "warm"
  BY <1>1 DEF TypeOK, CalmInv
<1>3. Cardinality(seen) \in Cardinality(Founders)..Cardinality(members)
  BY MembersCounted
<1>4. j.step = "read" /\ j.policy = policy /\ j.eligible \in Cardinality(Founders)..Cardinality(members)
  BY <1>2, <1>3
<1> HIDE DEF j
<1>5. job'[h] = j /\ \A g \in Handlers : g # h => job'[g] = job[g]
  BY <1>1 DEF TypeOK
<1>6. (ReadSound(job[h]) /\ WriteSound(job[h]))'
  BY <1>1, <1>4, <1>5 DEF ReadSound, WriteSound
<1>7. hub' # "cold" /\ members \subseteq members'
  BY <1>1
<1>8. \A g \in Handlers : job'[g] = job[g] \/ (ReadSound(job[g]) /\ WriteSound(job[g]))'
  BY <1>5, <1>6
<1>9. QED
  BY <1>1, <1>7, <1>8, CalmQuiet

\* A guarded UPDATE whose row is decided and whose event says what it will be.
LEMMA CalmLock ==
  ASSUME TypeOK, TypeOK', CalmInv, NEW h \in Handlers, NEW a \in Ids, NEW new, NEW ev, TakeLock(h, a, new, ev),
         DecidedBy(policy, Cardinality(Founders), Cardinality(members), new),
         apply_event(View(row[a].state), ev) = View(new.state)
  PROVE  CalmInv'
<1> DEFINE j == [step |-> "locked", id |-> a, new |-> new, event |-> ev]
<1>1. UNCHANGED <<policy, members, hub, row, entry, sweep>> /\ job' = [job EXCEPT ![h] = j]
  BY DEF TakeLock
<1>2. j.step = "locked" /\ j.id = a /\ j.new = new /\ j.event = ev
  OBVIOUS
<1> HIDE DEF j
<1>3. job'[h] = j /\ \A g \in Handlers : g # h => job'[g] = job[g]
  BY <1>1 DEF TypeOK
<1>4. (ReadSound(job[h]) /\ WriteSound(job[h]))'
  BY <1>1, <1>2, <1>3 DEF ReadSound, WriteSound
<1>5. hub' # "cold" /\ members \subseteq members'
  BY <1>1 DEF CalmInv
<1>6. \A g \in Handlers : job'[g] = job[g] \/ (ReadSound(job[g]) /\ WriteSound(job[g]))'
  BY <1>3, <1>4
<1>7. QED
  BY <1>1, <1>5, <1>6, CalmQuiet

LEMMA CalmUpdate ==
  ASSUME TypeOK, TypeOK', CalmInv, NEW h \in Handlers, NEW a \in Ids,
         \/ handle_approval_request(h, a) \/ handle_approval_claim(h, a) \/ handle_approval_cancel(h, a)
  PROVE  CalmInv'
<1>1. row[a] \in Row
  BY DEF TypeOK
<1>2. CASE handle_approval_request(h, a)
  <2> DEFINE new == [state |-> "Pending", votes |-> NoVotes]
  <2>1. TakeLock(h, a, new, "requested") /\ row[a].state = "none"
    BY <1>2 DEF handle_approval_request
  <2>2. DecidedBy(policy, Cardinality(Founders), Cardinality(members), new)
    BY DEF DecidedBy
  <2>3. apply_event(View(row[a].state), "requested") = View(new.state)
    BY <2>1 DEF View, apply_event, OpenStates, Verdicts
  <2> QED
    BY <2>1, <2>2, <2>3, CalmLock
<1>3. CASE handle_approval_claim(h, a)
  <2> DEFINE new == [row[a] EXCEPT !.state = "Claimed"]
  <2>1. TakeLock(h, a, new, "claimed") /\ row[a].state = "Pending" /\ new.state = "Claimed"
    BY <1>1, <1>3 DEF handle_approval_claim, Row
  <2>2. DecidedBy(policy, Cardinality(Founders), Cardinality(members), new)
    BY <2>1 DEF DecidedBy
  <2>3. apply_event(View(row[a].state), "claimed") = View(new.state)
    BY <2>1 DEF View, apply_event, OpenStates, Verdicts
  <2> QED
    BY <2>1, <2>2, <2>3, CalmLock
<1>4. CASE handle_approval_cancel(h, a)
  <2> DEFINE new == [row[a] EXCEPT !.state = "Expired"]
  <2>1. TakeLock(h, a, new, "cancelled") /\ row[a].state \in OpenStates /\ new.state = "Expired"
    BY <1>1, <1>4 DEF handle_approval_cancel, Row
  <2>2. DecidedBy(policy, Cardinality(Founders), Cardinality(members), new)
    BY <2>1 DEF DecidedBy
  <2>3. apply_event(View(row[a].state), "cancelled") = View(new.state)
    BY <2>1 DEF View, apply_event, OpenStates, Verdicts
  <2> QED
    BY <2>1, <2>2, <2>3, CalmLock
<1> QED
  BY <1>2, <1>3, <1>4

LEMMA CalmRecord ==
  ASSUME TypeOK, TypeOK', CalmInv, NEW h \in Handlers, record_vote_in_tx(h)
  PROVE  CalmInv'
<1> DEFINE a == job[h].id
           o == Outcome(h)
           new == [state |-> IF o = "Pending" THEN row[a].state ELSE o, votes |-> Voted(h)]
<1>1. job[h] \in Reading /\ job[h].step = "read"
  BY JobCases DEF record_vote_in_tx, TypeOK
<1>2. /\ a \in Ids /\ job[h].policy = policy /\ policy \in Policies
      /\ job[h].eligible \in Cardinality(Founders)..Cardinality(members) /\ job[h].eligible \in Nat
  BY <1>1 DEF Reading, TypeOK, CalmInv, ReadSound
<1>3. o = evaluate(policy, Voted(h), job[h].eligible) /\ o \in {"Approved", "Denied", "Contested", "Pending"}
  BY <1>2, EvaluateType DEF Outcome
<1>4. row[a].state \in OpenStates /\ TakeLock(h, a, new, EventOf(o))
  BY DEF record_vote_in_tx
<1>5. new.state = (IF o = "Pending" THEN row[a].state ELSE o) /\ new.votes = Voted(h)
  OBVIOUS
<1>6. o \in {"Approved", "Denied"} => CarriedBy(policy, Voted(h), job[h].eligible, o)
  BY <1>2, <1>3, EvaluateCarries
<1> HIDE DEF o, new, a
<1>7. DecidedBy(policy, Cardinality(Founders), Cardinality(members), new)
  BY <1>2, <1>4, <1>5, <1>6 DEF DecidedBy, OpenStates
<1>8. apply_event(View(row[a].state), EventOf(o)) = View(new.state)
  BY <1>3, <1>4, <1>5 DEF View, apply_event, EventOf, OpenStates, Verdicts
<1>9. QED
  BY <1>2, <1>4, <1>7, <1>8, CalmLock

LEMMA CalmCommit ==
  ASSUME IInv, TypeOK', CalmInv, NEW h \in Handlers, Commit(h)
  PROVE  CalmInv'
<1> DEFINE a == job[h].id
           new == job[h].new
           ev == job[h].event
<1>1. TypeOK /\ job[h] \in Writing /\ job[h].step = "locked" /\ a \in Ids
  BY JobCases DEF Commit, IInv, TypeOK, Writing
<1>2. /\ row' = [row EXCEPT ![a] = new] /\ entry' = [entry EXCEPT ![a] = apply_event(entry[a], ev)]
      /\ job' = [job EXCEPT ![h] = Idle] /\ UNCHANGED <<policy, members, hub, sweep>>
  BY DEF Commit
<1>3. /\ DecidedBy(policy, Cardinality(Founders), Cardinality(members), new)
      /\ apply_event(View(row[a].state), ev) = View(new.state)
  BY <1>1 DEF CalmInv, WriteSound
<1> HIDE DEF new, ev
<1>4. row'[a] = new /\ entry'[a] = apply_event(entry[a], ev) /\ job'[h] = Idle
  BY <1>1, <1>2 DEF TypeOK
<1>5. /\ \A x \in Ids : x # a => row'[x] = row[x] /\ entry'[x] = entry[x]
      /\ \A g \in Handlers : g # h => job'[g] = job[g]
  BY <1>1, <1>2 DEF TypeOK
<1>6. \A g \in Handlers : (ReadSound(job[g]) /\ WriteSound(job[g]))'
  <2>1. (ReadSound(job[h]) /\ WriteSound(job[h]))'
    BY <1>4 DEF ReadSound, WriteSound, Idle
  <2>2. ASSUME NEW g \in Handlers, g # h PROVE (ReadSound(job[g]) /\ WriteSound(job[g]))'
    <3>1. job[g].step = "locked" => row'[job[g].id] = row[job[g].id]
      BY <1>1, <1>5, <2>2, OtherRows
    <3>2. UNCHANGED policy /\ members \subseteq members' /\ job'[g] = job[g]
      BY <1>2, <1>5, <2>2
    <3>3. QED
      BY <1>1, <3>1, <3>2, JobStays
  <2>3. QED
    BY <2>1, <2>2
<1>7. RowsDecided'
  BY <1>2, <1>3, <1>4, <1>5 DEF CalmInv, RowsDecided
<1>8. Viewed'
  <2> SUFFICES ASSUME NEW x \in Ids \ sweep PROVE entry'[x] = View(row'[x].state)
    BY <1>2 DEF Viewed
  <2>1. entry[x] = View(row[x].state)
    BY DEF CalmInv, Viewed
  <2>2. QED
    BY <1>3, <1>4, <1>5, <2>1
<1>9. hub' # "cold"
  BY <1>2 DEF CalmInv
<1>10. QED
  BY <1>6, <1>7, <1>8, <1>9 DEF CalmInv

\* An expiry is on the sweeper's list until it is announced.
LEMMA CalmExpire ==
  ASSUME IInv, TypeOK', CalmInv, expire_timed_out
  PROVE  CalmInv'
<1>1. TypeOK
  BY DEF IInv
<1>2. /\ \A x \in Expirable : lock[x] = NoOne
      /\ row' = [x \in Ids |-> IF x \in Expirable THEN [row[x] EXCEPT !.state = "Expired"] ELSE row[x]]
      /\ sweep = {} /\ sweep' = Expirable
      /\ UNCHANGED <<policy, members, hub, job, entry>>
  BY DEF expire_timed_out
<1>3. \A x \in Ids : /\ x \in Expirable => row'[x].state = "Expired"
                     /\ x \notin Expirable => row'[x] = row[x]
  BY <1>1, <1>2 DEF TypeOK, Row
<1>4. \A g \in Handlers : (ReadSound(job[g]) /\ WriteSound(job[g]))'
  <2> TAKE g \in Handlers
  <2>1. ASSUME job[g].step = "locked" PROVE row'[job[g].id] = row[job[g].id]
    <3>1. job[g].id \in Ids /\ lock[job[g].id] = g
      BY <1>1, <2>1, JobCases DEF TypeOK, Writing, IInv, LockedSound
    <3>2. QED
      BY <1>2, <1>3, <3>1, ApprovalAssumption
  <2>2. UNCHANGED policy /\ members \subseteq members' /\ job'[g] = job[g]
    BY <1>2
  <2>3. QED
    BY <1>1, <2>1, <2>2, JobStays
<1>5. RowsDecided'
  BY <1>2, <1>3 DEF CalmInv, RowsDecided, DecidedBy
<1>6. Viewed'
  BY <1>2, <1>3 DEF CalmInv, Viewed
<1>7. hub' # "cold"
  BY <1>2 DEF CalmInv
<1>8. QED
  BY <1>4, <1>5, <1>6, <1>7 DEF CalmInv

LEMMA CalmAnnounce ==
  ASSUME IInv, TypeOK', CalmInv, NEW a \in Ids, Announce(a)
  PROVE  CalmInv'
<1>1. TypeOK /\ row[a].state = "Expired"
  BY DEF IInv, Unannounced, Announce
<1>2. /\ entry' = [entry EXCEPT ![a] = apply_event(entry[a], "timed_out")] /\ sweep' = sweep \ {a}
      /\ UNCHANGED <<policy, members, hub, job, row>>
  BY DEF Announce
<1>3. entry'[a] = "absent" /\ \A x \in Ids : x # a => entry'[x] = entry[x]
  BY <1>1, <1>2 DEF TypeOK, apply_event, Verdicts
<1>4. Viewed'
  BY <1>1, <1>2, <1>3 DEF CalmInv, Viewed, View, OpenStates
<1>5. members \subseteq members' /\ hub' # "cold" /\ \A g \in Handlers : job'[g] = job[g]
  BY <1>2 DEF CalmInv
<1>6. \A g \in Handlers : (ReadSound(job[g]) /\ WriteSound(job[g]))'
  BY <1>1, <1>2, <1>5, JobStays
<1>7. RowsDecided'
  BY <1>1, <1>2, <1>5, RowsStay
<1>8. QED
  BY <1>4, <1>5, <1>6, <1>7 DEF CalmInv

LEMMA CalmStep ==
  ASSUME IInv, IInv', CalmInv, Attended
  PROVE  CalmInv'
<1>1. TypeOK /\ TypeOK'
  BY DEF IInv
<1>2. ASSUME NEW h \in Handlers, Handle(h) PROVE CalmInv'
  BY <1>1, <1>2, CalmUpdate, CalmVote, CalmRecord, CalmRest, CalmCommit DEF Handle
<1>3. QED
  BY <1>1, <1>2, CalmSession, CalmExpire, CalmAnnounce DEF Attended, Sweeper

\* While the session is calm the rows are decided and the log tells them.
THEOREM CalmInvariance == MCSpec => [](IInv /\ (calm => CalmInv))
<1>1. MCInit => IInv /\ CalmInv
  <2> SUFFICES ASSUME MCInit PROVE IInv /\ CalmInv
    OBVIOUS
  <2>1. IInv /\ Idle.step # "read" /\ Idle.step # "locked"
    BY InvStart DEF MCInit, Idle
  <2>2. \A h \in Handlers : ReadSound(job[h]) /\ WriteSound(job[h])
    BY <2>1 DEF MCInit, Init, ReadSound, WriteSound
  <2>3. hub # "cold" /\ RowsDecided /\ Viewed
    BY DEF MCInit, Init, RowsDecided, DecidedBy, Viewed, View, OpenStates, NoRow
  <2>4. QED
    BY <2>1, <2>2, <2>3 DEF CalmInv
<1>2. IInv /\ (calm => CalmInv) /\ [MCNext]_<<vars, calm>> => (IInv /\ (calm => CalmInv))'
  <2> SUFFICES ASSUME IInv, calm => CalmInv, [MCNext]_<<vars, calm>> PROVE (IInv /\ (calm => CalmInv))'
    OBVIOUS
  <2>1. [Next]_vars
    BY DEF MCNext, Next
  <2>2. IInv'
    BY <2>1, InvStep
  <2>3. CASE Attended /\ UNCHANGED calm
    BY <2>2, <2>3, CalmStep
  <2>4. CASE calm' = FALSE
    BY <2>2, <2>4
  <2>5. CASE UNCHANGED <<vars, calm>>
    <3>1. CalmInv => CalmInv'
      BY <2>5 DEF vars, CalmInv, ReadSound, WriteSound, RowsDecided, Viewed
    <3>2. QED
      BY <2>2, <2>5, <3>1
  <2>6. QED
    BY <2>3, <2>4, <2>5 DEF MCNext
<1>3. QED
  BY <1>1, <1>2, PTL DEF MCSpec

\* While nobody misses an announcement, a vote resolves an approval only when
\* its votes carry it under the session's policy, for a number of members the
\* session has had (ws.rs handle_vote, approvals.rs evaluate).
THEOREM AlwaysDecided == MCSpec => []CalmDecided
<1>1. CalmInv => Decided
  BY DEF CalmInv, RowsDecided, DecidedBy, CarriedBy, Decided, Carries
<1>2. IInv /\ (calm => CalmInv) => CalmDecided
  BY <1>1 DEF CalmDecided
<1>3. QED
  BY <1>2, CalmInvariance, PTL

\* ... and approval_requests is what the event log says, but for an expiry
\* still to be announced.
THEOREM AlwaysViewOfLog == MCSpec => []CalmView
<1>1. CalmInv => ViewOfLog
  BY DEF CalmInv, Viewed, View, ViewOfLog
<1>2. IInv /\ (calm => CalmInv) => CalmView
  BY <1>1 DEF CalmView
<1>3. QED
  BY <1>2, CalmInvariance, PTL
=============================================================================
