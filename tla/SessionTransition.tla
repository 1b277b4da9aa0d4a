------------------------- MODULE SessionTransition -------------------------
(***************************************************************************)
(* The pure state machine of crates/session: transition() takes the        *)
(* memory of one session and one inbound event and returns the new memory  *)
(* and a list of effects the runtime executes in order.  A logged event    *)
(* (ApplyLogged) changes memory and never asks for a Persist; a live event *)
(* (ApplyLive) decides which events to persist.                            *)
(*                                                                         *)
(* Abstracted: names, times, reasons and contents.  Messages, context      *)
(* entries, artifacts and proposals are content: they pass through as      *)
(* events that leave every field kept here alone.  Broadcast effects are   *)
(* screen refreshes and are left out.                                      *)
(***************************************************************************)
EXTENDS Integers, FiniteSets, SequencesExt

CONSTANTS
    Actors,        \* actor ids
    CapIds,        \* capability ids
    Approvals,     \* approval ids
    Bundles,       \* bundles addressed to this session: id -> [kind, cap, saga, step, out]
    Sagas,         \* sagas this session coordinates: id -> [steps, type, eligible, source]
    NoApproval     \* the source of a saga that is not a delegation

SagaIds   == DOMAIN Sagas
BundleIds == DOMAIN Bundles

ASSUME NoApprovalAssumption == NoApproval \notin Approvals

(* u32 step counts; an acknowledgement names a saga of this session, as the
   bundle of a saga unknown here is dropped on arrival. *)
ASSUME SagasAssumption ==
    /\ \A s \in SagaIds : Sagas[s].steps \in Nat
    /\ \A b \in BundleIds : Bundles[b].kind = "ack" => Bundles[b].saga \in SagaIds
    /\ IsFiniteSet(BundleIds) /\ IsFiniteSet(Approvals)

(* memory.rs: the fields of SessionMemory that decide anything. *)
Absent == [role |-> "none", det |-> FALSE, conn |-> FALSE]

NewMemory ==
    [state    |-> "Active",
     policy   |-> "single_vote",
     eligible |-> 0,
     epoch    |-> 0,
     members  |-> [a \in Actors |-> Absent],
     caps     |-> [c \in CapIds |-> [st |-> "none", actor |-> "", epoch |-> 0]],
     appr     |-> [p \in Approvals |-> [st |-> "none", by |-> "", votes |-> [a \in Actors |-> "none"]]],
     sagas    |-> [s \in SagaIds |-> [st |-> "none", i |-> 0]],
     gates    |-> [b \in BundleIds |-> [kind |-> "none", held |-> FALSE]],
     rules    |-> [t \in {"step", "comp", "ack", "all"} |-> "none"]]

CanApprove(m)  == m.role \in {"owner", "collaborator"}
Terminal(st)   == st \in {"Granted", "Denied", "Expired", "Interrupted"}
Open(st)       == st \in {"Pending", "Claimed"}
SagaOver(st)   == st \in {"Completed", "Aborted"}
CapActive(m, c) == m.caps[c].st = "live" /\ m.caps[c].epoch = m.epoch

RecountEligible(m) ==
    [m EXCEPT !.eligible = Cardinality({a \in Actors : CanApprove(m.members[a]) /\ ~m.members[a].det})]

(* effects.rs: the output alphabet. *)
Persist(e)   == [k |-> "persist", e |-> e]
SetTimer(t)  == [k |-> "arm", t |-> t]
Cancel(t)    == [k |-> "cancel", t |-> t]
Send(w, s, i) == [k |-> "bundle", what |-> w, s |-> s, i |-> i]
Deliver(b)   == [k |-> "deliver", b |-> b]
Close(a, c)  == [k |-> "close", a |-> a, code |-> c]

ApprovalTimer(p) == <<"approval", p>>
SagaTimer(s, i)  == <<"saga", s, i>>
DeferTimer(b)    == <<"defer", b>>

Result(m, fx) == [m |-> m, fx |-> fx]

----------------------------------------------------------------------------
(* Replay: a logged event advances memory. *)

ApplyLifecycle(m, e) ==
    CASE e.k = "SessionCreated" ->
           Result(RecountEligible([m EXCEPT !.policy = e.policy,
               !.members[e.a] = IF @.role = "none" THEN [Absent EXCEPT !.role = "owner"] ELSE @]), <<>>)
      [] e.k = "SessionPaused"   -> Result([m EXCEPT !.state = "Suspended"], <<>>)
      [] e.k = "SessionResumed"  -> Result([m EXCEPT !.state = "Active"], <<>>)
      [] e.k = "SessionArchived" -> Result([m EXCEPT !.state = "Archived"], <<>>)

ApplyParticipation(m, e) ==
    CASE e.k = "ParticipantJoined" ->
           Result(RecountEligible([m EXCEPT
               !.members[e.a] = IF @.role = "none" THEN [Absent EXCEPT !.role = e.role] ELSE @]), <<>>)
      [] e.k = "ParticipantLeft" ->
           Result(RecountEligible([m EXCEPT
               !.members[e.a] = IF @.role = "none" THEN @ ELSE [@ EXCEPT !.det = TRUE, !.conn = FALSE]]), <<>>)
      [] e.k = "OwnershipTransferred" ->
           Result(RecountEligible([m EXCEPT !.members = [a \in Actors |->
               LET r == @[a] IN
               IF r.role = "none" THEN r
               ELSE IF a = e.to THEN [r EXCEPT !.role = "owner"]
               ELSE IF a = e.from THEN [r EXCEPT !.role = "collaborator"] ELSE r]]), <<>>)
      [] e.k = "AgentAttached" ->
           Result([m EXCEPT !.members[e.a] =
               IF @.role = "none" THEN [Absent EXCEPT !.role = "agent"] ELSE [@ EXCEPT !.det = FALSE]], <<>>)
      [] e.k = "AgentDetached" ->
           Result([m EXCEPT !.members[e.a] =
               IF @.role = "none" THEN @ ELSE [@ EXCEPT !.det = TRUE, !.conn = FALSE]], <<>>)

(* cap_subtree walks the children index; revocation by a strategy other
   than "subtree" marks the one capability. *)
ApplyCap(m, e) ==
    CASE e.k = "CapDelegated" ->
           Result([m EXCEPT !.caps[e.c] = [st |-> "live", actor |-> e.a, epoch |-> e.epoch]], <<>>)
      [] e.k = "CapRevoked" ->
           Result([m EXCEPT !.caps = [c \in CapIds |->
               IF c \in e.subtree /\ @[c].st # "none" THEN [@[c] EXCEPT !.st = "revoked"] ELSE @[c]]], <<>>)
      [] e.k = "EpochAdvanced" ->
           Result([m EXCEPT !.epoch = e.epoch,
               !.caps = [c \in CapIds |->
                   IF @[c].st # "none" /\ @[c].epoch < e.epoch THEN [@[c] EXCEPT !.st = "revoked"] ELSE @[c]],
               !.state = IF e.fenced = {} THEN @ ELSE "Draining"], <<>>)

GatedBy(m, p) == {b \in BundleIds : m.gates[b].kind = "approval" /\ Bundles[b].gate = p}

(* Only the gates whose bundle is still in memory deliver it. *)
LiftGates(m, p) ==
    LET up    == GatedBy(m, p)
        order == SetToSeq({b \in up : m.gates[b].held})
    IN  Result([m EXCEPT !.gates = [b \in BundleIds |->
                    IF b \in up THEN [kind |-> "none", held |-> FALSE] ELSE @[b]]],
               [n \in DOMAIN order |-> Deliver(order[n])])

ApplyApproval(m, e) ==
    LET close(st, force) ==
          [m EXCEPT !.appr[e.p].st = IF @ = "none" \/ (Terminal(@) /\ ~force) THEN @ ELSE st]
    IN
    CASE e.k = "ApprovalRequested" ->
           Result([m EXCEPT !.appr[e.p] = [st |-> "Pending", by |-> e.a, votes |-> [a \in Actors |-> "none"]]], <<>>)
      [] e.k = "ApprovalClaimed" -> Result(close("Claimed", FALSE), <<>>)
      [] e.k = "ApprovalVoted" ->
           Result([m EXCEPT !.appr[e.p].votes[e.a] = IF m.appr[e.p].st = "none" THEN @ ELSE e.d], <<>>)
      [] e.k = "ApprovalGranted" ->
           LET lifted == LiftGates(close("Granted", TRUE), e.p)
           IN  Result(lifted.m, <<Cancel(ApprovalTimer(e.p))>> \o lifted.fx)
      [] e.k = "ApprovalDenied" -> Result(close("Denied", TRUE), <<Cancel(ApprovalTimer(e.p))>>)
      [] e.k \in {"ApprovalExpired", "ApprovalCancelled"} ->
           Result(close("Expired", FALSE), <<Cancel(ApprovalTimer(e.p))>>)
      [] e.k = "ApprovalInterrupted" ->
           Result(close("Interrupted", FALSE), <<Cancel(ApprovalTimer(e.p))>>)

ApplySaga(m, e) ==
    CASE e.k = "SagaBegun" -> Result([m EXCEPT !.sagas[e.s] = [st |-> "Running", i |-> 0]], <<>>)
      [] e.k = "SagaStepSent" ->
           Result([m EXCEPT !.sagas[e.s] = IF @.st = "none" THEN @ ELSE [st |-> "Waiting", i |-> e.i]], <<>>)
      [] e.k = "SagaStepAcked" ->
           Result([m EXCEPT !.sagas[e.s] =
               IF @ # [st |-> "Waiting", i |-> e.i] THEN @
               ELSE [st |-> IF e.out = "Committed" THEN "Running" ELSE "Compensating", i |-> e.i]],
               <<Cancel(SagaTimer(e.s, e.i))>>)
      [] e.k = "SagaCompensated" -> Result(m, <<>>)
      [] e.k = "SagaTerminated" ->
           Result([m EXCEPT !.sagas[e.s].st = IF @ = "none" THEN @ ELSE e.out], <<>>)

(* Mutant: the replayed gate replaces the one that holds the bundle. *)
ApplyBundleReplacing(m, e) ==
    CASE e.k = "BundleDeferred" -> Result([m EXCEPT !.gates[e.b] = [kind |-> "defer", held |-> FALSE]], <<>>)
      [] e.k = "PolicySet"      -> Result([m EXCEPT !.rules[e.t] = e.rule], <<>>)
      [] OTHER                  -> Result(m, <<>>)

(* A replayed gate has no bundle: the reflector's log died with the process. *)
ApplyBundle(m, e) ==
    LET gate(kind) == [m EXCEPT !.gates[e.b] = IF @.kind = "none" THEN [kind |-> kind, held |-> FALSE] ELSE @]
    IN
    CASE e.k = "BundleAnnotated"     -> Result(m, <<>>)
      [] e.k = "BundleDeferred"      -> Result(gate("defer"), <<SetTimer(DeferTimer(e.b))>>)
      [] e.k = "BundleRejected"      -> Result([m EXCEPT !.gates[e.b] = [kind |-> "none", held |-> FALSE]], <<>>)
      [] e.k = "BundleApprovalGated" -> Result(gate("approval"), <<>>)
      [] e.k = "PolicySet"           -> Result([m EXCEPT !.rules[e.t] = e.rule], <<>>)

Lifecycle     == {"SessionCreated", "SessionPaused", "SessionResumed", "SessionArchived"}
Participation == {"ParticipantJoined", "ParticipantLeft", "OwnershipTransferred", "AgentAttached", "AgentDetached"}
CapAlgebra    == {"CapDelegated", "CapRevoked", "EpochAdvanced"}
ApprovalAlgebra == {"ApprovalRequested", "ApprovalClaimed", "ApprovalVoted", "ApprovalGranted",
                    "ApprovalDenied", "ApprovalExpired", "ApprovalCancelled", "ApprovalInterrupted"}
SagaAlgebra   == {"SagaBegun", "SagaStepSent", "SagaStepAcked", "SagaCompensated", "SagaTerminated"}
PolicyAlgebra == {"BundleAnnotated", "BundleDeferred", "BundleRejected", "BundleApprovalGated", "PolicySet"}

(* Content, delegation markers and cross-session arrivals leave memory alone. *)
ApplyLogged(m, e) ==
    CASE e.k \in Lifecycle       -> ApplyLifecycle(m, e)
      [] e.k \in Participation   -> ApplyParticipation(m, e)
      [] e.k \in CapAlgebra      -> ApplyCap(m, e)
      [] e.k \in ApprovalAlgebra -> ApplyApproval(m, e)
      [] e.k \in SagaAlgebra     -> ApplySaga(m, e)
      [] e.k \in PolicyAlgebra   -> ApplyBundle(m, e)
      [] OTHER                   -> Result(m, <<>>)

----------------------------------------------------------------------------
(* Live handlers: what an input asks to be persisted, sent or armed. *)

Nothing(m) == Result(m, <<>>)

(* A capability of an older epoch fences its actor while the session drains. *)
Fenced(m, a) == \E c \in CapIds : m.caps[c].actor = a /\ m.caps[c].st = "revoked" /\ m.caps[c].epoch < m.epoch

Attend(m, a) ==
    Result([m EXCEPT !.members[a] = IF @.role = "none" THEN @ ELSE [@ EXCEPT !.conn = TRUE, !.det = FALSE]], <<>>)

LiveConnected(m, a) ==
    IF m.state = "Draining" /\ Fenced(m, a) THEN Result(m, <<Close(a, 4003)>>) ELSE Attend(m, a)

LiveReconnected(m, a) == Attend(m, a)

LiveDisconnected(m, a) ==
    LET cut == SetToSeq({p \in Approvals : m.appr[p].by = a /\ Open(m.appr[p].st)})
    IN  Result([m EXCEPT !.members[a].conn = FALSE],
               [n \in DOMAIN cut |-> Persist([k |-> "ApprovalInterrupted", p |-> cut[n]])])

Tally(votes, d) == Cardinality({a \in Actors : votes[a] = d})

(* evaluate_policy: the verdict of the votes cast so far. *)
EvaluatePolicy(policy, votes, eligible) ==
    LET yes == Tally(votes, "approve")
        no  == Tally(votes, "deny")
    IN
    CASE policy = "majority"  -> IF yes >= eligible \div 2 + 1 THEN "grant"
                                 ELSE IF no >= eligible \div 2 + 1 THEN "deny" ELSE "pending"
      [] policy = "unanimous" -> IF eligible > 0 /\ yes = eligible THEN "grant"
                                 ELSE IF no > 0 THEN "deny" ELSE "pending"
      [] policy = "single_vote" -> IF yes > 0 THEN "grant" ELSE IF no > 0 THEN "deny" ELSE "pending"
      [] OTHER                  -> IF yes > 0 THEN "grant" ELSE "pending"

LiveVote(m, p, a, d) ==
    IF ~CanApprove(m.members[a]) \/ m.members[a].det \/ ~Open(m.appr[p].st) THEN Nothing(m)
    ELSE LET verdict == EvaluatePolicy(m.policy, [m.appr[p].votes EXCEPT ![a] = d], m.eligible)
             voted   == <<Persist([k |-> "ApprovalVoted", p |-> p, a |-> a, d |-> d])>>
         IN  Result(m,
               CASE verdict = "grant" -> voted \o <<Persist([k |-> "ApprovalGranted", p |-> p]), Cancel(ApprovalTimer(p))>>
                 [] verdict = "deny"  -> voted \o <<Persist([k |-> "ApprovalDenied", p |-> p]), Cancel(ApprovalTimer(p))>>
                 [] OTHER             -> voted)

LiveTransfer(m, from, to) == Result(m, <<Persist([k |-> "OwnershipTransferred", from |-> from, to |-> to])>>)

LiveClaim(m, p) ==
    IF m.appr[p].st # "Pending" THEN Nothing(m)
    ELSE Result(m, <<Persist([k |-> "ApprovalClaimed", p |-> p])>>)

LiveCancel(m, p) == Result(m, <<Persist([k |-> "ApprovalCancelled", p |-> p])>>)

(* Messages, context, artifacts, delegation and dispute notes: one event each. *)
LivePost(m) == Result(m, <<Persist([k |-> "Content"])>>)

LiveCreate(m, p, a, timed) ==
    IF m.members[a].role = "none" \/ m.members[a].det THEN Nothing(m)
    ELSE Result(m, <<Persist([k |-> "ApprovalRequested", p |-> p, a |-> a])>>
                   \o (IF timed THEN <<SetTimer(ApprovalTimer(p))>> ELSE <<>>))

LivePause(m)   == IF m.state = "Active" THEN Result(m, <<Persist([k |-> "SessionPaused"])>>) ELSE Nothing(m)
LiveResume(m)  == IF m.state = "Suspended" THEN Result(m, <<Persist([k |-> "SessionResumed"])>>) ELSE Nothing(m)
LiveArchive(m) == Result(m, <<Persist([k |-> "SessionArchived"])>>)

LiveAttach(m, a, c) ==
    IF ~CapActive(m, c) THEN Result(m, <<Close(a, 4001)>>)
    ELSE IF m.caps[c].actor # a THEN Result(m, <<Close(a, 4002)>>)
    ELSE Result(m, <<Persist([k |-> "AgentAttached", a |-> a])>>)

LiveDetach(m, a) == Result(m, <<Persist([k |-> "AgentDetached", a |-> a])>>)

----------------------------------------------------------------------------
(* Sagas. *)

FirstAck(out) == IF out = "Committed" THEN "advance" ELSE "abort"

(* The reducer of an approval saga sees one acknowledgement, never the ones before it. *)
ApprovalAck(policy, eligible, out) ==
    CASE policy = "majority"  -> IF eligible \div 2 + 1 > 1 THEN "pending" ELSE FirstAck(out)
      [] policy = "unanimous" -> IF out = "Committed" /\ eligible # 1 THEN "pending" ELSE FirstAck(out)
      [] OTHER                -> FirstAck(out)

(* build_session_saga: the type picks the reducer, first-ack for all but approvals. *)
Reduce(s, out) ==
    IF Sagas[s].type \in {"majority", "unanimous"}
    THEN ApprovalAck(Sagas[s].type, Sagas[s].eligible, out) ELSE FirstAck(out)

(* Mutant: the step timer is not armed. *)
SendStepUntimed(s, i) == <<Persist([k |-> "SagaStepSent", s |-> s, i |-> i]), Send("step", s, i)>>

SendStep(s, i) ==
    <<Persist([k |-> "SagaStepSent", s |-> s, i |-> i]), Send("step", s, i), SetTimer(SagaTimer(s, i))>>

LiveSagaBegin(m, s) ==
    IF Sagas[s].steps = 0 THEN Nothing(m)
    ELSE Result(m, <<Persist([k |-> "SagaBegun", s |-> s])>> \o SendStep(s, 0))

LiveDelegate(m, s) ==
    LET begun == LiveSagaBegin(m, s)
    IN  Result(begun.m, <<Persist([k |-> "DelegationRequested", s |-> s])>> \o begun.fx)

Terminate(s, how) ==
    <<Persist([k |-> "SagaTerminated", s |-> s, out |-> how])>>
    \o (IF Sagas[s].source = NoApproval THEN <<>>
        ELSE <<Persist([k |-> "DelegationResolved", s |-> s, p |-> Sagas[s].source,
                        d |-> IF how = "Completed" THEN "Granted" ELSE "Denied"])>>)

(* Mutant: the failed step is compensated too. *)
CompensationsInclusive(s, failed) == [n \in 1..(failed + 1) |-> Send("comp", s, failed + 1 - n)]

(* Every committed step is compensated, the last one first. *)
Compensations(s, failed) ==
    [n \in 1..(2 * failed) |->
        LET i == failed - 1 - ((n - 1) \div 2)
        IN  IF n % 2 = 1 THEN Persist([k |-> "SagaCompensated", s |-> s, i |-> i]) ELSE Send("comp", s, i)]

Acked(s, i, out) == Persist([k |-> "SagaStepAcked", s |-> s, i |-> i, out |-> out])

Advance(s, i) ==
    <<Acked(s, i, "Committed")>>
    \o (IF i + 1 < Sagas[s].steps THEN SendStep(s, i + 1) ELSE Terminate(s, "Completed"))

Abort(s, i, out) == <<Acked(s, i, out)>> \o Compensations(s, i) \o Terminate(s, "Aborted")

LiveSagaAck(m, s, i, out) ==
    IF m.sagas[s] # [st |-> "Waiting", i |-> i] THEN Nothing(m)
    ELSE Result(m, <<Cancel(SagaTimer(s, i))>> \o
           CASE Reduce(s, out) = "pending" -> <<>>
             [] Reduce(s, out) = "advance" -> Advance(s, i)
             [] Reduce(s, out) = "abort"   -> Abort(s, i, out))

----------------------------------------------------------------------------
(* Bundles that arrive from the reflector. *)

(* Most specific rule first, then the rule for all bundles. *)
Disposition(m, b) ==
    LET own == m.rules[Bundles[b].kind] IN IF own # "none" THEN own ELSE m.rules["all"]

(* A held bundle enters memory before its gate is persisted, so that the
   replay of the gate event keeps it. *)
Dispose(m, b) ==
    LET hold(kind) == [m EXCEPT !.gates[b] = [kind |-> kind, held |-> TRUE]]
        d == Disposition(m, b)
    IN
    CASE d = "annotate" -> Result(m, <<Persist([k |-> "BundleAnnotated", b |-> b]), Deliver(b)>>)
      [] d = "reject"   -> Result(m, <<Persist([k |-> "BundleRejected", b |-> b])>>)
      [] d = "defer"    -> Result(hold("defer"), <<Persist([k |-> "BundleDeferred", b |-> b]), SetTimer(DeferTimer(b))>>)
      [] d = "approval" -> Result(hold("approval"), <<Persist([k |-> "BundleApprovalGated", b |-> b])>>)
      [] OTHER          -> Result(m, <<Deliver(b)>>)

LiveIntercepted(m, b, fresh) == IF fresh THEN Dispose(m, b) ELSE Nothing(m)

(* An acknowledgement needs a capability that is known and not revoked. *)
AckReceived(m, ack) ==
    IF m.caps[ack.cap].st # "live" THEN Nothing(m) ELSE LiveSagaAck(m, ack.saga, ack.step, ack.out)

(* A step asks for a local record of what arrived: a delegation, an import, a note. *)
StepReceived(m, b) == Result(m, <<Persist([k |-> "Received", b |-> b])>>)

LiveReceived(m, b, fresh) ==
    CASE fresh /\ Bundles[b].kind = "ack"  -> AckReceived(m, Bundles[b])
      [] fresh /\ Bundles[b].kind = "step" -> StepReceived(m, b)
      [] OTHER -> Nothing(m)

LiveForwarded(m) == Nothing(m)

LiveTimer(m, t, fresh) ==
    CASE t[1] = "approval" ->
           IF m.appr[t[2]].st # "none" /\ ~Terminal(m.appr[t[2]].st)
           THEN Result(m, <<Persist([k |-> "ApprovalExpired", p |-> t[2]])>>) ELSE Nothing(m)
      [] t[1] = "defer" ->
           Result([m EXCEPT !.gates[t[2]] = [kind |-> "none", held |-> FALSE]],
                  IF m.gates[t[2]].held /\ fresh THEN <<Deliver(t[2])>> ELSE <<>>)
      [] t[1] = "saga" -> LiveSagaAck(m, t[2], t[3], "Rejected")

============================================================================
