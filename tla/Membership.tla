----------------------------- MODULE Membership -----------------------------
(***************************************************************************)
(* Who belongs to a session and in which role: creation, direct grants,   *)
(* invites, join tokens, attach tokens, session links with their lazily   *)
(* granted observers, ownership transfers over REST and over an open       *)
(* WebSocket, and the sweeper that fires scheduled transfers.              *)
(*                                                                         *)
(* A request is a handler that awaits between its check and its            *)
(* transaction, so every handler that writes later than it reads holds a   *)
(* slot of `req' in between.  The role table is Postgres at READ           *)
(* COMMITTED: a statement sees what is committed when it starts, and       *)
(* re-reads only the rows it had picked.                                   *)
(***************************************************************************)
EXTENDS Naturals, FiniteSets

CONSTANTS Sessions, Actors, Requests, Invites, Plans, Sweepers, None,
          Scenes    \* starting points: [roles, ops, budget, sweepers]

VARIABLES
  scene,      \* the starting point of this behaviour
  role,       \* session_memberships: [Sessions -> [Actors -> role]]
  invite,     \* session_invites
  link,       \* session_links: unordered pairs with their visibility
  token,      \* session_link_invites: the sessions with an open link invite
  plan,       \* artifacts of type scheduled_transfer
  req,        \* the handlers in flight
  conn,       \* the role each open WebSocket read when it attached
  sweep,      \* what each replica's sweeper is doing
  left,       \* requests this behaviour may still start (a bound)
  granted,    \* history: whom each invite made a member
  viaLink,    \* history: rows last written by linked access
  everLinked, \* history: pairs of sessions that were linked once
  fired,      \* history: how often each plan moved the ownership
  contested   \* history: sessions where an owner was set on a stale reading

vars == <<scene, role, invite, link, token, plan, req, conn, sweep, left,
          granted, viaLink, everLinked, fired, contested>>

Ranks == [owner |-> 3, collaborator |-> 2, observer |-> 1, agent |-> 0]
Roles == DOMAIN Ranks
Humans == Roles \ {"agent"}
Entries == {"add", "attach", "join", "link"}   \* what else than an invite asks for a grant

ASSUME NamesAssumption == None \notin Roles \cup {"full", "muted"} /\ Invites \cap Entries = {}

\* A behaviour starts with one owner a session at most.
ASSUME ScenesAssumption ==
  \A c \in Scenes :
    /\ c.roles \in [Sessions -> [Actors -> Roles \cup {None}]]
    /\ \A s \in Sessions : \A a, b \in Actors :
         c.roles[s][a] = "owner" /\ c.roles[s][b] = "owner" => a = b
    /\ c.budget \in Nat /\ c.sweepers \subseteq Sweepers

Member(s, a) == role[s][a] # None
\* MemberRole::satisfies, on the membership row
Satisfies(s, a, r) == Member(s, a) /\ Ranks[role[s][a]] >= Ranks[r]
Owners(s) == {a \in Actors : role[s][a] = "owner"}
Pair(s, t) == {s, t}
Quiet == [stage |-> "free"]
NoInvite == [st |-> "unused"]
Allowed(op) == op \in scene.ops

Init ==
  /\ scene \in Scenes
  /\ role = scene.roles
  /\ invite = [i \in Invites |-> NoInvite]
  /\ link = [p \in {Pair(s, t) : s, t \in Sessions} |-> None]
  /\ token = {}
  /\ plan = [p \in Plans |-> Quiet]
  /\ req = [r \in Requests |-> Quiet]
  /\ conn = [s \in Sessions |-> [a \in Actors |-> None]]
  /\ sweep = [w \in Sweepers |-> Quiet]
  /\ left = scene.budget
  /\ granted = [i \in Invites |-> {}]
  /\ viaLink = [s \in Sessions |-> {}]
  /\ everLinked = {}
  /\ fired = [p \in Plans |-> 0]
  /\ contested = {}

---------------------------------------------------------------------------
(* The two transactions that write roles. *)

\* Mutant: the previous owner is not demoted.
TransferTxKeeping(s, from, to) ==
  [role EXCEPT ![s] = [a \in Actors |->
     IF a = to /\ role[s][a] # None THEN "owner" ELSE role[s][a]]]

\* transfer_ownership_in_tx: both updates are unconditional, and an actor
\* without a row stays without one.
TransferTx(s, from, to) ==
  [role EXCEPT ![s] = [a \in Actors |->
     IF role[s][a] = None \/ a \notin {from, to} THEN role[s][a]
     ELSE IF a = to THEN "owner" ELSE "collaborator"]]

\* add_member: the owners its first statement picked and that are owners
\* still become collaborators; the row of `a' is inserted or overwritten.
AddMemberTx(s, a, ro, seen) ==
  [role EXCEPT ![s] = [b \in Actors |->
     IF b = a THEN ro
     ELSE IF b \in seen /\ role[s][b] = "owner" THEN "collaborator" ELSE role[s][b]]]

\* An owner is set although someone else is owner and is not being demoted.
Contest(s, to, demoted) ==
  IF Owners(s) \ (demoted \cup {to}) # {} THEN contested \cup {s} ELSE contested

Start(op, r) == /\ Allowed(op) /\ left > 0 /\ req[r].stage = "free"
                /\ left' = left - 1

Granting(s, a, ro, cause) ==
  [stage |-> "grant", s |-> s, a |-> a, role |-> ro, cause |-> cause]

Rows == <<role, granted, viaLink>>
Catalogue == <<invite, link, token, plan, everLinked>>
Background == <<scene, conn, sweep, fired>>

---------------------------------------------------------------------------
(* Handlers that end in add_member: the check, then the grant. *)

\* POST /sessions: nobody is a member yet.
CreateSession(s, a) ==
  /\ Allowed("create") /\ left > 0 /\ left' = left - 1
  /\ \A b \in Actors : ~Member(s, b)
  /\ role' = [role EXCEPT ![s][a] = "owner"]
  /\ UNCHANGED <<req, granted, viaLink, contested, Catalogue, Background>>

\* POST /sessions/{id}/members, owners only.
AddMember(r, s, caller, a, ro) ==
  /\ Start("add", r)
  /\ Satisfies(s, caller, "owner")
  /\ req' = [req EXCEPT ![r] = Granting(s, a, ro, "add")]
  /\ UNCHANGED <<Rows, contested, Catalogue, Background>>

\* POST /sessions/{id}/attach-token: collaborators and owners seat an actor,
\* an agent unless the body names another role.
IssueAttachToken(r, s, caller, a, ro) ==
  /\ Start("attach", r)
  /\ Satisfies(s, caller, "collaborator")
  /\ req' = [req EXCEPT ![r] = Granting(s, a, ro, "attach")]
  /\ UNCHANGED <<Rows, contested, Catalogue, Background>>

\* The WebSocket upgrade with a join token: a newcomer becomes a collaborator.
JoinByToken(r, s, a) ==
  /\ Start("join", r)
  /\ ~Member(s, a)
  /\ req' = [req EXCEPT ![r] = Granting(s, a, "collaborator", "join")]
  /\ UNCHANGED <<Rows, contested, Catalogue, Background>>

\* Mutant: the join with session_memberships is forgotten.
HasLinkedAccessAnyone(a, s) ==
  \E t \in Sessions \ {s} : link[Pair(s, t)] = "full"

\* actor_has_linked_access
HasLinkedAccess(a, s) ==
  \E t \in Sessions \ {s} : link[Pair(s, t)] = "full" /\ Member(t, a)

\* require_membership_or_linked_access for a stranger to the session.
LinkedAccess(r, s, a) ==
  /\ Start("visit", r)
  /\ ~Member(s, a)
  /\ HasLinkedAccess(a, s)
  /\ req' = [req EXCEPT ![r] = Granting(s, a, "observer", "link")]
  /\ UNCHANGED <<Rows, contested, Catalogue, Background>>

\* POST /sessions/{id}/invites: no role above the caller's own; `to' is the
\* addressee, None for an anonymous link.
CreateInvite(i, s, caller, ro, to) ==
  /\ Allowed("invite") /\ left > 0 /\ left' = left - 1
  /\ invite[i].st = "unused"
  /\ Satisfies(s, caller, "observer") /\ Satisfies(s, caller, ro)
  /\ invite' = [invite EXCEPT ![i] =
       [st |-> "open", s |-> s, by |-> caller, role |-> ro, to |-> to]]
  /\ UNCHANGED <<Rows, link, token, plan, everLinked, req, contested, Background>>

\* Mutant: the update forgets `redeemed_at IS NULL'.
RedeemableTwice(i, a) == /\ invite[i].st \in {"open", "redeemed"}
                         /\ invite[i].to \in {None, a}

\* invites::redeem: one UPDATE decides, and the grant follows it.
Redeemable(i, a) == /\ invite[i].st = "open"
                    /\ invite[i].to \in {None, a}

RedeemInvite(r, i, a) ==
  /\ Start("redeem", r)
  /\ Redeemable(i, a)
  /\ invite' = [invite EXCEPT ![i].st = "redeemed"]
  /\ req' = [req EXCEPT ![r] = Granting(invite[i].s, a, invite[i].role, i)]
  /\ UNCHANGED <<Rows, link, token, plan, everLinked, contested, Background>>

\* routes/invites.rs revoke: the inviter, or a collaborator of the session.
RevokeInvite(i, a) ==
  /\ invite[i].st = "open"
  /\ a = invite[i].by \/ Satisfies(invite[i].s, a, "collaborator")
  /\ invite' = [invite EXCEPT ![i].st = "revoked"]
  /\ UNCHANGED <<Rows, link, token, plan, everLinked, req, left, contested, Background>>

ExpireInvite(i) ==
  /\ invite[i].st = "open"
  /\ invite' = [invite EXCEPT ![i].st = "expired"]
  /\ UNCHANGED <<Rows, link, token, plan, everLinked, req, left, contested, Background>>

\* add_member's first statement, sent only for an owner grant.
Demote(r) ==
  /\ req[r].stage = "grant" /\ req[r].role = "owner"
  /\ req' = [req EXCEPT ![r] = [stage |-> "demoted", s |-> req[r].s, a |-> req[r].a,
       role |-> "owner", cause |-> req[r].cause, seen |-> Owners(req[r].s) \ {req[r].a}]]
  /\ UNCHANGED <<Rows, left, contested, Catalogue, Background>>

\* add_member's second statement and its commit.
Grant(r) ==
  LET q == req[r]
      seen == IF q.stage = "demoted" THEN q.seen ELSE {} IN
  /\ \/ q.stage = "grant" /\ q.role # "owner"
     \/ q.stage = "demoted"
  /\ role' = AddMemberTx(q.s, q.a, q.role, seen)
  /\ granted' = IF q.cause \in Invites
                THEN [granted EXCEPT ![q.cause] = @ \cup {q.a}] ELSE granted
  /\ viaLink' = [viaLink EXCEPT ![q.s] =
       IF q.cause = "link" THEN @ \cup {q.a} ELSE @ \ {q.a}]
  /\ contested' = IF q.role = "owner" THEN Contest(q.s, q.a, seen) ELSE contested
  /\ req' = [req EXCEPT ![r] = Quiet]
  /\ UNCHANGED <<left, Catalogue, Background>>

\* The server stops, or the pool fails, between the check and the commit.
Abandon(r) ==
  /\ Allowed("abandon")
  /\ req[r].stage # "free"
  /\ req' = [req EXCEPT ![r] = Quiet]
  /\ UNCHANGED <<Rows, left, contested, Catalogue, Background>>

---------------------------------------------------------------------------
(* Ownership transfer. *)

\* POST /sessions/{id}/transfer: the caller is the owner when checked.
Transfer(r, s, from, to) ==
  /\ Start("transfer", r)
  /\ Satisfies(s, from, "owner")
  /\ req' = [req EXCEPT ![r] = [stage |-> "transfer", s |-> s, a |-> from, to |-> to]]
  /\ UNCHANGED <<Rows, contested, Catalogue, Background>>

Moved(s, from, to) ==
  /\ role' = TransferTx(s, from, to)
  /\ viaLink' = [viaLink EXCEPT ![s] = @ \ {from, to}]
  /\ contested' = IF Member(s, to) THEN Contest(s, to, {from}) ELSE contested
  /\ UNCHANGED granted

CommitTransfer(r) ==
  /\ req[r].stage = "transfer"
  /\ Moved(req[r].s, req[r].a, req[r].to)
  /\ req' = [req EXCEPT ![r] = Quiet]
  /\ UNCHANGED <<left, Catalogue, Background>>

\* The WebSocket keeps the role it read at attach for as long as it is open.
Connect(s, a) ==
  /\ Allowed("socket") /\ Member(s, a) /\ conn[s][a] = None
  /\ conn' = [conn EXCEPT ![s][a] = role[s][a]]
  /\ UNCHANGED <<Rows, left, req, contested, Catalogue, scene, sweep, fired>>

Disconnect(s, a) ==
  /\ conn[s][a] # None
  /\ conn' = [conn EXCEPT ![s][a] = None]
  /\ UNCHANGED <<Rows, left, req, contested, Catalogue, scene, sweep, fired>>

\* dispatch OwnershipTransfer: decided by the role the socket remembers; the
\* client names itself as `from'.
SocketTransfer(s, a, to) ==
  /\ left > 0 /\ left' = left - 1
  /\ conn[s][a] = "owner"
  /\ Moved(s, a, to)
  /\ UNCHANGED <<req, Catalogue, Background>>

---------------------------------------------------------------------------
(* Scheduled transfers: an artifact, and every replica's sweeper. *)

Schedule(p, s, caller, to) ==
  /\ Allowed("plan") /\ left > 0 /\ left' = left - 1
  /\ plan[p].stage = "free" /\ fired[p] = 0
  /\ Satisfies(s, caller, "collaborator")
  /\ plan' = [plan EXCEPT ![p] = [stage |-> "due", s |-> s, to |-> to]]
  /\ UNCHANGED <<Rows, invite, link, token, everLinked, req, contested, Background>>

CancelPlan(p, caller) ==
  /\ plan[p].stage = "due"
  /\ Satisfies(plan[p].s, caller, "collaborator")
  /\ plan' = [plan EXCEPT ![p] = [stage |-> "deleted"]]
  /\ UNCHANGED <<Rows, left, invite, link, token, everLinked, req, contested, Background>>

\* list_overdue_scheduled_transfers
SweepList(w, p) ==
  /\ w \in scene.sweepers
  /\ sweep[w].stage = "free" /\ plan[p].stage = "due"
  /\ sweep' = [sweep EXCEPT ![w] =
       [stage |-> "listed", p |-> p, s |-> plan[p].s, to |-> plan[p].to]]
  /\ UNCHANGED <<Rows, left, req, contested, Catalogue, scene, conn, fired>>

Deleted(p) == [plan EXCEPT ![p] = [stage |-> "deleted"]]

\* Mutant: a session without an owner is skipped and its plan kept.
SweepReadSkipping(w) ==
  LET q == sweep[w] IN
  /\ q.stage = "listed"
  /\ IF \E from \in Owners(q.s) : from # q.to
     THEN \E from \in Owners(q.s) \ {q.to} : sweep' = [sweep EXCEPT ![w] =
            [stage |-> "firing", p |-> q.p, s |-> q.s, to |-> q.to, from |-> from]]
     ELSE sweep' = [sweep EXCEPT ![w] = Quiet]
  /\ UNCHANGED <<Rows, left, req, contested, Catalogue, scene, conn, fired>>

\* fire_scheduled_transfer up to its transaction: no owner, or the target
\* owns the session already: the artifact is only removed.
SweepRead(w) ==
  LET q == sweep[w] IN
  /\ q.stage = "listed"
  /\ \/ /\ Owners(q.s) = {} \/ q.to \in Owners(q.s)
        /\ plan' = Deleted(q.p)
        /\ sweep' = [sweep EXCEPT ![w] = Quiet]
     \/ \E from \in Owners(q.s) \ {q.to} :
          /\ sweep' = [sweep EXCEPT ![w] =
               [stage |-> "firing", p |-> q.p, s |-> q.s, to |-> q.to, from |-> from]]
          /\ UNCHANGED plan
  /\ UNCHANGED <<Rows, left, req, contested, invite, link, token, everLinked,
                 scene, conn, fired>>

\* Its transaction: the roles move and the artifact goes, together.
SweepFire(w) ==
  LET q == sweep[w] IN
  /\ q.stage = "firing"
  /\ Moved(q.s, q.from, q.to)
  /\ plan' = Deleted(q.p)
  /\ fired' = [fired EXCEPT ![q.p] = @ + 1]
  /\ sweep' = [sweep EXCEPT ![w] = Quiet]
  /\ UNCHANGED <<left, req, invite, link, token, everLinked, scene, conn>>

---------------------------------------------------------------------------
(* Session links. *)

\* insert_link_in_tx: a new pair, or a muted one revived.
Linked(s, t) == /\ link' = [link EXCEPT ![Pair(s, t)] = "full"]
                /\ everLinked' = everLinked \cup {Pair(s, t)}

MintLinkInvite(s, a) ==
  /\ Allowed("link") /\ left > 0 /\ left' = left - 1
  /\ Satisfies(s, a, "collaborator")
  /\ token' = token \cup {s}
  /\ UNCHANGED <<Rows, invite, link, plan, everLinked, req, contested, Background>>

\* redeem_invite: consuming and linking are one transaction, and a link of a
\* session to itself rolls both back.
RedeemLinkInvite(s, t, a) ==
  /\ s \in token /\ s # t
  /\ Satisfies(t, a, "collaborator")
  /\ token' = token \ {s}
  /\ Linked(s, t)
  /\ UNCHANGED <<Rows, left, invite, plan, req, contested, Background>>

DirectLink(s, t, a) ==
  /\ Allowed("link") /\ left > 0 /\ left' = left - 1
  /\ s # t
  /\ Satisfies(s, a, "collaborator") /\ Satisfies(t, a, "collaborator")
  /\ Linked(s, t)
  /\ UNCHANGED <<Rows, invite, token, plan, req, contested, Background>>

\* mute_link and delete_link: an admin of either side.
AdjustLink(s, t, a, v) ==
  /\ s # t /\ link[Pair(s, t)] # None /\ link[Pair(s, t)] # v
  /\ Satisfies(s, a, "collaborator") \/ Satisfies(t, a, "collaborator")
  /\ link' = [link EXCEPT ![Pair(s, t)] = v]
  /\ UNCHANGED <<Rows, left, invite, token, plan, everLinked, req, contested, Background>>

---------------------------------------------------------------------------
Grants ==
  \E r \in Requests, s \in Sessions, a \in Actors :
    \/ \E c \in Actors, ro \in Roles : AddMember(r, s, c, a, ro)
    \/ \E c \in Actors, ro \in Roles : IssueAttachToken(r, s, c, a, ro)
    \/ JoinByToken(r, s, a)
    \/ LinkedAccess(r, s, a)
    \/ \E to \in Actors \ {a} : Transfer(r, s, a, to)

InvitesStep ==
  \E i \in Invites, a \in Actors :
    \/ \E s \in Sessions, ro \in Humans, to \in Actors \cup {None} :
         CreateInvite(i, s, a, ro, to)
    \/ \E r \in Requests : RedeemInvite(r, i, a)
    \/ RevokeInvite(i, a)
    \/ ExpireInvite(i)

Finish == \E r \in Requests : Demote(r) \/ Grant(r) \/ CommitTransfer(r)

Links ==
  \E s, t \in Sessions, a \in Actors :
    \/ MintLinkInvite(s, a)
    \/ RedeemLinkInvite(s, t, a)
    \/ DirectLink(s, t, a)
    \/ \E v \in {"full", "muted", None} : AdjustLink(s, t, a, v)

Sockets ==
  \E s \in Sessions, a \in Actors :
    \/ CreateSession(s, a)
    \/ Connect(s, a)
    \/ Disconnect(s, a)
    \/ \E to \in Actors \ {a} : SocketTransfer(s, a, to)

Sweeping(w) == \/ \E p \in Plans : SweepList(w, p)
               \/ SweepRead(w)
               \/ SweepFire(w)

Planning == \E p \in Plans, a \in Actors :
  \/ \E s \in Sessions, to \in Actors : Schedule(p, s, a, to)
  \/ CancelPlan(p, a)

Next == \/ Grants \/ InvitesStep \/ Finish \/ Links \/ Sockets \/ Planning
        \/ \E r \in Requests : Abandon(r)
        \/ \E w \in Sweepers : Sweeping(w)

Spec == Init /\ [][Next]_vars

\* A sweeper is a loop on an interval timer.
FairSpec == Spec /\ \A w \in Sweepers : WF_vars(Sweeping(w))

---------------------------------------------------------------------------
(* Every row holds a role the code knows, and every handler in flight was
   started by one of the entry points. *)
MembershipTypeOK ==
  /\ role \in [Sessions -> [Actors -> Roles \cup {None}]]
  /\ \A i \in Invites : invite[i].st \in
       {"unused", "open", "redeemed", "revoked", "expired"}
  /\ \A r \in Requests : req[r].stage \in {"free", "grant", "demoted", "transfer"}
  /\ \A p \in Plans : plan[p].stage \in {"free", "due", "deleted"}
  /\ left \in Nat

(* An invite makes at most one actor a member, only the one it is addressed
   to, and none once it was revoked or has expired, however redemptions and
   revocations overlap (invites::redeem's single UPDATE). *)
GrantedOnce ==
  \A i \in Invites :
    /\ Cardinality(granted[i]) <= 1
    /\ granted[i] # {} => invite[i].st = "redeemed"
                          /\ \A a \in granted[i] : invite[i].to \in {None, a}

(* A session has two owners only where some owner was set by a handler whose
   reading of the present owner was out of date: handlers that do not
   overlap keep one owner (add_member's demotion, transfer_ownership_in_tx). *)
OneOwnerUnlessStale ==
  \A s \in Sessions \ contested : Cardinality(Owners(s)) <= 1

(* Standing that comes from a link is an observer's, and its holder stands
   in a session that was linked to this one: links pass on no more than
   read access and reach nobody else. *)
LinkedStandingOnly ==
  \A s \in Sessions : \A a \in viaLink[s] :
    /\ role[s][a] = "observer"
    /\ \E t \in Sessions \ {s} : Pair(s, t) \in everLinked /\ Member(t, a)

(* Each sweeper fires a scheduled transfer at most once: the artifact leaves
   in the transaction that moves the roles. *)
FiredOncePerSweeper ==
  \A p \in Plans : fired[p] <= Cardinality(scene.sweepers)

(* A transfer that is due is fired, found settled or cancelled in the end. *)
PlansSettle ==
  \A p \in Plans : (plan[p].stage = "due") ~> (plan[p].stage = "deleted")

=============================================================================
