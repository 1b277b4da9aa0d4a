-------------------------- MODULE MembershipProofs --------------------------
(***************************************************************************)
(* For any sessions, actors, invites and handlers: an invite makes one     *)
(* member at most, a session has two owners only where one was set on a    *)
(* stale reading, and standing that came through a link is an observer's   *)
(* of a session that was linked.                                           *)
(***************************************************************************)
EXTENDS Membership, FiniteSetTheorems, TLAPS

-----------------------------------------------------------------------------
(* The inductive invariant.                                                 *)

Granter  == [stage: {"grant"}, s: Sessions, a: Actors, role: Roles, cause: Invites \cup Entries]
Demoter  == [stage: {"demoted"}, s: Sessions, a: Actors, role: {"owner"},
             cause: Invites \cup Entries, seen: SUBSET Actors]
Mover    == [stage: {"transfer"}, s: Sessions, a: Actors, to: Actors]
Handler  == {Quiet} \cup Granter \cup Demoter \cup Mover

Invite   == [st: {"open", "redeemed", "revoked", "expired"}, s: Sessions, by: Actors,
             role: Humans, to: Actors \cup {None}]
Plan     == {Quiet} \cup [stage: {"due"}, s: Sessions, to: Actors] \cup [stage: {"deleted"}]
Sweep    == {Quiet} \cup [stage: {"listed"}, p: Plans, s: Sessions, to: Actors]
            \cup [stage: {"firing"}, p: Plans, s: Sessions, to: Actors, from: Actors]
Pairs    == {Pair(s, t) : s, t \in Sessions}

TypeInv ==
  /\ role \in [Sessions -> [Actors -> Roles \cup {None}]]
  /\ invite \in [Invites -> Invite \cup {NoInvite}]
  /\ link \in [Pairs -> {"full", "muted", None}]
  /\ plan \in [Plans -> Plan]
  /\ req \in [Requests -> Handler]
  /\ sweep \in [Sweepers -> Sweep]
  /\ left \in Nat
  /\ granted \in [Invites -> SUBSET Actors]
  /\ viaLink \in [Sessions -> SUBSET Actors]
  /\ contested \subseteq Sessions

\* An invite makes members only once it is redeemed, and only its addressee.
InviteSound(i) ==
  /\ granted[i] # {} => invite[i].st = "redeemed"
  /\ \A a \in granted[i] : invite[i].to \in {None, a}
  /\ \A a, b \in granted[i] : a = b

\* Whoever redeemed it is alone in that, and no one was made a member yet.
Granting1(r) == req[r].stage \in {"grant", "demoted"}
RedeemerSound(r) ==
  Granting1(r) /\ req[r].cause \in Invites =>
    LET i == req[r].cause IN
    /\ invite[i].st = "redeemed" /\ granted[i] = {}
    /\ invite[i].to \in {None, req[r].a}
    /\ \A q \in Requests : Granting1(q) /\ req[q].cause = i => q = r

OneOwner(s) == s \notin contested => \A a, b \in Owners(s) : a = b

\* Who may stand in a session through a link.
Neighbour(s, a) == \E t \in Sessions \ {s} : Pair(s, t) \in everLinked /\ Member(t, a)
LinksSound ==
  /\ \A s, t \in Sessions : link[Pair(s, t)] # None => Pair(s, t) \in everLinked
  /\ \A r \in Requests : Granting1(r) /\ req[r].cause = "link" =>
       req[r].role = "observer" /\ Neighbour(req[r].s, req[r].a)
  /\ LinkedStandingOnly

IInv ==
  /\ TypeInv /\ LinksSound
  /\ \A i \in Invites : InviteSound(i)
  /\ \A r \in Requests : RedeemerSound(r)
  /\ \A s \in Sessions : OneOwner(s)

-----------------------------------------------------------------------------
(* Shapes of handlers, and what a step leaves true that is about others.    *)

LEMMA HandlerShape ==
  ASSUME NEW h \in Handler
  PROVE  /\ h.stage = "grant" => h \in Granter
         /\ h.stage = "demoted" => h \in Demoter
         /\ h.stage = "transfer" => h \in Mover
<1>1. CASE h = Quiet
  BY <1>1 DEF Quiet
<1>2. CASE h \in Granter
  BY <1>2 DEF Granter
<1>3. CASE h \in Demoter
  BY <1>3 DEF Demoter
<1>4. CASE h \in Mover
  BY <1>4 DEF Mover
<1>5. QED
  BY <1>1, <1>2, <1>3, <1>4 DEF Handler

LEMMA SweepShape ==
  ASSUME NEW w \in Sweep
  PROVE  /\ w.stage = "listed" => w.p \in Plans /\ w.s \in Sessions /\ w.to \in Actors
         /\ w.stage = "firing" => w.p \in Plans /\ w.s \in Sessions /\ w.to \in Actors /\ w.from \in Actors
BY DEF Sweep, Quiet

LEMMA PlanShape ==
  ASSUME NEW p \in Plan
  PROVE  p.stage = "due" => p.s \in Sessions /\ p.to \in Actors
BY DEF Plan, Quiet

GrantsInv == (\A i \in Invites : InviteSound(i)) /\ \A r \in Requests : RedeemerSound(r)
OwnersInv == \A s \in Sessions : OneOwner(s)

\* A handler that is about to grant was about to, to the same actor and for
\* the same reason.
Goes(r) == Granting1(r)' => /\ Granting1(r)
                            /\ req'[r].s = req[r].s /\ req'[r].a = req[r].a
                            /\ req'[r].role = req[r].role /\ req'[r].cause = req[r].cause

LEMMA GrantsKept ==
  ASSUME TypeInv, GrantsInv, UNCHANGED granted, \A r \in Requests : Goes(r),
         \A i \in Invites : invite[i].st = "redeemed" => invite'[i] = invite[i],
         \A i \in Invites : granted[i] # {} => invite[i].st = "redeemed"
  PROVE  GrantsInv'
BY DEF GrantsInv, InviteSound, RedeemerSound, Goes, Granting1

LEMMA OwnersKept ==
  ASSUME OwnersInv, UNCHANGED <<role, contested>>
  PROVE  OwnersInv'
BY DEF OwnersInv, OneOwner, Owners

LEMMA LinksKept ==
  ASSUME TypeInv, LinksSound, UNCHANGED <<link, everLinked>>, \A r \in Requests : Goes(r),
         \A s \in Sessions, a \in Actors : Member(s, a) => role'[s][a] # None,
         \A s \in Sessions : viaLink'[s] \subseteq viaLink[s],
         \A s \in Sessions : \A a \in viaLink'[s] : role'[s][a] = role[s][a]
  PROVE  LinksSound'
<1>1. \A s \in Sessions, a \in Actors : Neighbour(s, a) => Neighbour(s, a)'
  BY DEF Neighbour, Member
<1>2. \A r \in Requests : Granting1(r) => req[r].s \in Sessions /\ req[r].a \in Actors
  BY HandlerShape DEF Granting1, TypeInv, Granter, Demoter
<1>3. LinkedStandingOnly'
  <2>1. \A s \in Sessions : \A a \in viaLink'[s] : a \in viaLink[s] /\ a \in Actors
    BY DEF TypeInv
  <2>2. \A s \in Sessions : \A a \in viaLink[s] : role[s][a] = "observer" /\ Neighbour(s, a)
    BY DEF LinksSound, LinkedStandingOnly, Neighbour
  <2>3. \A s \in Sessions : \A a \in viaLink'[s] : role'[s][a] = "observer" /\ Neighbour(s, a)'
    BY <1>1, <2>1, <2>2
  <2>4. QED
    BY <2>3 DEF LinkedStandingOnly, Neighbour
<1>4. \A r \in Requests : Granting1(r)' /\ req'[r].cause = "link" =>
        req'[r].role = "observer" /\ Neighbour(req[r].s, req[r].a)' /\ req'[r].s = req[r].s /\ req'[r].a = req[r].a
  BY <1>1, <1>2 DEF LinksSound, Goes
<1>5. QED
  BY <1>3, <1>4 DEF LinksSound, Neighbour, Member

\* The three together, for a step that writes no role.
LEMMA NoRoleWritten ==
  ASSUME IInv, UNCHANGED <<Rows, link, everLinked, contested>>, \A r \in Requests : Goes(r),
         \A i \in Invites : invite[i].st = "redeemed" => invite'[i] = invite[i], TypeInv'
  PROVE  IInv'
<1> USE DEF Rows
<1>1. GrantsInv'
  BY GrantsKept DEF IInv, GrantsInv, InviteSound
<1>2. OwnersInv'
  BY OwnersKept DEF IInv, OwnersInv
<1>3. LinksSound'
  BY LinksKept DEF IInv, Member
<1>4. QED
  BY <1>1, <1>2, <1>3 DEF IInv, GrantsInv, OwnersInv

-----------------------------------------------------------------------------
(* Handlers that start.                                                     *)

\* A handler that starts for no invite and no link.
LEMMA StartKeeps ==
  ASSUME IInv, NEW r \in Requests, NEW h \in Handler, req[r].stage = "free",
         h.stage = "grant" => h.cause \notin Invites \cup {"link"}, h.stage # "demoted",
         req' = [req EXCEPT ![r] = h], left > 0, left' = left - 1,
         UNCHANGED <<Rows, contested, Catalogue, Background>>
  PROVE  IInv'
<1> USE DEF Rows, Catalogue, Background
<1>1. TypeInv'
  BY DEF IInv, TypeInv
<1>2. req'[r] = h /\ \A q \in Requests \ {r} : req'[q] = req[q]
  BY DEF IInv, TypeInv
<1>3. ASSUME NEW q \in Requests PROVE RedeemerSound(q)'
  BY SMTT(40), <1>2 DEF IInv, RedeemerSound, Granting1
<1>4. \A i \in Invites : InviteSound(i)'
  BY DEF IInv, InviteSound
<1>5. \A s \in Sessions : OneOwner(s)'
  BY DEF IInv, OneOwner, Owners
<1>6. LinksSound'
  BY <1>2 DEF IInv, LinksSound, Granting1, Neighbour, Member, LinkedStandingOnly
<1>7. QED
  BY <1>1, <1>3, <1>4, <1>5, <1>6 DEF IInv

LEMMA StartStep ==
  ASSUME IInv, NEW r \in Requests, NEW s \in Sessions, NEW a \in Actors, NEW c \in Actors,
         NEW ro \in Roles, NEW to \in Actors,
         AddMember(r, s, c, a, ro) \/ IssueAttachToken(r, s, c, a, ro) \/ JoinByToken(r, s, a)
           \/ Transfer(r, s, a, to)
  PROVE  IInv'
<1> DEFINE G(x, cause) == [stage |-> "grant", s |-> s, a |-> a, role |-> x, cause |-> cause]
           T == [stage |-> "transfer", s |-> s, a |-> a, to |-> to]
<1>1. \A x \in Roles, e \in {"add", "attach", "join"} :
        G(x, e) \in Handler /\ G(x, e).stage = "grant" /\ G(x, e).cause \notin Invites \cup {"link"}
  BY NamesAssumption DEF Handler, Granter, Entries
<1>2. T \in Handler /\ T.stage = "transfer"
  BY DEF Handler, Mover
<1>3. "collaborator" \in Roles
  BY DEF Roles, Ranks
<1>4. /\ req[r].stage = "free" /\ left > 0 /\ left' = left - 1
      /\ UNCHANGED <<Rows, contested, Catalogue, Background>>
  BY DEF AddMember, IssueAttachToken, JoinByToken, Transfer, Start
<1>5. \/ \E x \in Roles, e \in {"add", "attach", "join"} : req' = [req EXCEPT ![r] = G(x, e)]
      \/ req' = [req EXCEPT ![r] = T]
  BY <1>3 DEF AddMember, IssueAttachToken, JoinByToken, Transfer, Granting
<1>6. QED
  BY <1>1, <1>2, <1>4, <1>5, StartKeeps

LEMMA LinkedAccessStep ==
  ASSUME IInv, NEW r \in Requests, NEW s \in Sessions, NEW a \in Actors, LinkedAccess(r, s, a)
  PROVE  IInv'
<1> DEFINE h == [stage |-> "grant", s |-> s, a |-> a, role |-> "observer", cause |-> "link"]
<1> USE DEF Rows, Catalogue, Background
<1>1. /\ req[r].stage = "free" /\ left > 0 /\ left' = left - 1
      /\ req' = [req EXCEPT ![r] = h]
      /\ UNCHANGED <<Rows, contested, Catalogue, Background>>
  BY DEF LinkedAccess, Start, Granting
<1>2. h \in Handler
  BY DEF Handler, Granter, Entries, Roles, Ranks
<1>3. TypeInv'
  BY <1>1, <1>2 DEF IInv, TypeInv
<1>4. req'[r] = h /\ \A q \in Requests \ {r} : req'[q] = req[q]
  BY <1>1 DEF IInv, TypeInv
<1>5. "link" \notin Invites
  BY NamesAssumption DEF Entries
<1>6. ASSUME NEW q \in Requests PROVE RedeemerSound(q)'
  BY <1>1, <1>4, <1>5 DEF IInv, RedeemerSound, Granting1
<1>7. \A i \in Invites : InviteSound(i)'
  BY <1>1 DEF IInv, InviteSound
<1>8. \A t \in Sessions : OneOwner(t)'
  BY <1>1 DEF IInv, OneOwner, Owners
<1>9. Neighbour(s, a)
  <2>1. PICK t \in Sessions \ {s} : link[Pair(s, t)] = "full" /\ Member(t, a)
    BY DEF LinkedAccess, HasLinkedAccess
  <2>2. Pair(s, t) \in everLinked
    BY <2>1, NamesAssumption DEF IInv, LinksSound
  <2>3. QED
    BY <2>1, <2>2 DEF Neighbour
<1>10. LinksSound'
  BY <1>1, <1>4, <1>9 DEF IInv, LinksSound, Granting1, Neighbour, Member, LinkedStandingOnly
<1>11. QED
  BY <1>3, <1>6, <1>7, <1>8, <1>10 DEF IInv

-----------------------------------------------------------------------------
(* Invites.                                                                 *)

Created(i, a) == \E s \in Sessions, ro \in Humans, to \in Actors \cup {None} :
                   CreateInvite(i, s, a, ro, to)

LEMMA InviteStep ==
  ASSUME IInv, NEW i \in Invites, NEW a \in Actors, Created(i, a) \/ RevokeInvite(i, a) \/ ExpireInvite(i)
  PROVE  IInv'
<1> USE DEF Rows, Background
<1>1. /\ invite[i].st \in {"unused", "open"}
      /\ UNCHANGED <<Rows, link, token, plan, everLinked, req, contested, Background>>
  BY DEF Created, CreateInvite, RevokeInvite, ExpireInvite
<1>2. left' \in Nat /\ invite' \in [Invites -> Invite \cup {NoInvite}]
  <2>1. CASE Created(i, a)
    BY <2>1 DEF Created, CreateInvite, IInv, TypeInv, Invite
  <2>2. CASE RevokeInvite(i, a) \/ ExpireInvite(i)
    <3>1. invite[i] \in Invite
      BY <2>2 DEF RevokeInvite, ExpireInvite, IInv, TypeInv, NoInvite
    <3>2. \A st \in {"revoked", "expired"} : [invite[i] EXCEPT !.st = st] \in Invite
      BY <3>1 DEF Invite
    <3>3. QED
      BY <2>2, <3>2 DEF RevokeInvite, ExpireInvite, IInv, TypeInv
  <2>3. QED
    BY <2>1, <2>2
<1>3. \A j \in Invites \ {i} : invite'[j] = invite[j]
  BY DEF Created, CreateInvite, RevokeInvite, ExpireInvite, IInv, TypeInv
<1>4. TypeInv'
  BY <1>1, <1>2 DEF IInv, TypeInv
<1>5. \A r \in Requests : Goes(r)
  BY <1>1 DEF Goes, Granting1
<1>6. QED
  BY <1>1, <1>3, <1>4, <1>5, NoRoleWritten

LEMMA RedeemStep ==
  ASSUME IInv, NEW r \in Requests, NEW i \in Invites, NEW a \in Actors, RedeemInvite(r, i, a)
  PROVE  IInv'
<1> DEFINE h == [stage |-> "grant", s |-> invite[i].s, a |-> a, role |-> invite[i].role, cause |-> i]
<1> USE DEF Rows, Background
<1>1. /\ req[r].stage = "free" /\ left > 0 /\ left' = left - 1
      /\ invite[i].st = "open" /\ invite[i].to \in {None, a} /\ invite[i] \in Invite
      /\ req' = [req EXCEPT ![r] = h]
      /\ invite' = [invite EXCEPT ![i] = [invite[i] EXCEPT !.st = "redeemed"]]
      /\ UNCHANGED <<Rows, link, token, plan, everLinked, contested, Background>>
  BY DEF RedeemInvite, Start, Granting, Redeemable, IInv, TypeInv, NoInvite
<1>2. h \in Handler
  BY <1>1 DEF Handler, Granter, Invite, Humans
<1>3. LET new == [invite[i] EXCEPT !.st = "redeemed"] IN
      new \in Invite /\ new.st = "redeemed" /\ new.to = invite[i].to
  BY <1>1 DEF Invite
<1>4. TypeInv'
  BY <1>1, <1>2, <1>3 DEF IInv, TypeInv
<1>5. req'[r] = h /\ \A q \in Requests \ {r} : req'[q] = req[q]
  BY <1>1 DEF IInv, TypeInv
<1>6. /\ invite'[i].st = "redeemed" /\ invite'[i].to = invite[i].to
      /\ \A j \in Invites \ {i} : invite'[j] = invite[j]
  BY <1>1, <1>3 DEF IInv, TypeInv
<1>7. granted[i] = {} /\ \A q \in Requests : Granting1(q) => req[q].cause # i
  BY <1>1 DEF IInv, InviteSound, RedeemerSound
<1>8. ASSUME NEW q \in Requests PROVE RedeemerSound(q)'
  <2>1. CASE q = r
    BY <1>1, <1>5, <1>6, <1>7, <2>1 DEF RedeemerSound, Granting1
  <2>2. CASE q # r
    BY <1>1, <1>5, <1>6, <1>7, <2>2 DEF IInv, RedeemerSound, Granting1
  <2>3. QED
    BY <2>1, <2>2
<1>9. \A j \in Invites : InviteSound(j)'
  BY <1>1, <1>6 DEF IInv, InviteSound
<1>10. \A t \in Sessions : OneOwner(t)'
  BY <1>1 DEF IInv, OneOwner, Owners
<1>11. LinksSound'
  <2>1. i # "link"
    BY NamesAssumption DEF Entries
  <2>2. QED
    BY <1>1, <1>5, <2>1 DEF IInv, LinksSound, Granting1, Neighbour, Member, LinkedStandingOnly
<1>12. QED
  BY <1>4, <1>8, <1>9, <1>10, <1>11 DEF IInv

-----------------------------------------------------------------------------
(* Handlers that end.                                                       *)

\* A handler that dies or ends without a grant.
LEMMA AbandonStep ==
  ASSUME IInv, NEW r \in Requests, Abandon(r)
  PROVE  IInv'
<1> USE DEF Rows, Catalogue, Background
<1>1. req' = [req EXCEPT ![r] = Quiet] /\ UNCHANGED <<Rows, left, contested, Catalogue, Background>>
  BY DEF Abandon
<1>2. TypeInv'
  BY <1>1 DEF IInv, TypeInv, Handler
<1>3. \A q \in Requests : Goes(q)
  BY <1>1 DEF Goes, Granting1, IInv, TypeInv, Quiet
<1>4. QED
  BY <1>1, <1>2, <1>3, NoRoleWritten

LEMMA DemoteStep ==
  ASSUME IInv, NEW r \in Requests, Demote(r)
  PROVE  IInv'
<1> DEFINE h == [stage |-> "demoted", s |-> req[r].s, a |-> req[r].a, role |-> "owner",
                 cause |-> req[r].cause, seen |-> Owners(req[r].s) \ {req[r].a}]
<1> USE DEF Rows, Catalogue, Background
<1>1. /\ req[r].stage = "grant" /\ req[r].role = "owner" /\ req[r] \in Granter
      /\ req' = [req EXCEPT ![r] = h]
      /\ UNCHANGED <<Rows, left, contested, Catalogue, Background>>
  BY HandlerShape DEF Demote, IInv, TypeInv
<1>2. h \in Handler
  BY <1>1 DEF Handler, Demoter, Granter, Owners
<1>3. TypeInv'
  BY <1>1, <1>2 DEF IInv, TypeInv
<1>4. \A q \in Requests : Goes(q)
  BY <1>1 DEF Goes, Granting1, IInv, TypeInv
<1>5. QED
  BY <1>1, <1>3, <1>4, NoRoleWritten

\* A contested session stays contested, and one that is not has no owner
\* besides the demoted and the new one.
LEMMA ContestSound ==
  ASSUME NEW s \in Sessions, NEW to, NEW demoted, contested' = Contest(s, to, demoted)
  PROVE  /\ contested \subseteq contested'
         /\ s \notin contested' => Owners(s) \subseteq demoted \cup {to}
BY DEF Contest

LEMMA GrantStep ==
  ASSUME IInv, NEW r \in Requests, Grant(r)
  PROVE  IInv'
<1> DEFINE q == req[r]
           seen == IF q.stage = "demoted" THEN q.seen ELSE {}
<1> USE DEF Catalogue, Background
<1>1. /\ q.stage = "grant" \/ (q.stage = "demoted" /\ q.role = "owner")
      /\ q.s \in Sessions /\ q.a \in Actors /\ q.role \in Roles /\ q.cause \in Invites \cup Entries
      /\ seen \subseteq Actors
  <2>1. q.stage = "grant" => q \in Granter
    BY HandlerShape DEF IInv, TypeInv
  <2>2. q.stage = "demoted" => q \in Demoter
    BY HandlerShape DEF IInv, TypeInv
  <2>3. q.stage \in {"grant", "demoted"}
    BY DEF Grant
  <2>4. "owner" \in Roles
    BY DEF Roles, Ranks
  <2>5. QED
    BY <2>1, <2>2, <2>3, <2>4 DEF Granter, Demoter
<1>2. /\ role' = AddMemberTx(q.s, q.a, q.role, seen)
      /\ granted' = IF q.cause \in Invites THEN [granted EXCEPT ![q.cause] = @ \cup {q.a}] ELSE granted
      /\ viaLink' = [viaLink EXCEPT ![q.s] = IF q.cause = "link" THEN @ \cup {q.a} ELSE @ \ {q.a}]
      /\ contested' = IF q.role = "owner" THEN Contest(q.s, q.a, seen) ELSE contested
      /\ req' = [req EXCEPT ![r] = Quiet]
      /\ UNCHANGED <<left, Catalogue, Background>>
  BY DEF Grant
<1>3. /\ \A s \in Sessions \ {q.s} : role'[s] = role[s]
      /\ role'[q.s] = [b \in Actors |->
           IF b = q.a THEN q.role
           ELSE IF b \in seen /\ role[q.s][b] = "owner" THEN "collaborator" ELSE role[q.s][b]]
  BY <1>1, <1>2 DEF AddMemberTx, IInv, TypeInv
<1>4. /\ role'[q.s][q.a] = q.role
      /\ \A b \in Actors \ {q.a} : b \in seen /\ role[q.s][b] = "owner" => role'[q.s][b] = "collaborator"
      /\ \A b \in Actors \ {q.a} : ~(b \in seen /\ role[q.s][b] = "owner") => role'[q.s][b] = role[q.s][b]
  BY <1>1, <1>3
<1>5. TypeInv'
  <2>1. "collaborator" \in Roles
    BY DEF Roles, Ranks
  <2>2. role' \in [Sessions -> [Actors -> Roles \cup {None}]]
    <3>1. \A b \in Actors : role'[q.s][b] \in Roles \cup {None}
      BY <1>1, <1>4, <2>1 DEF IInv, TypeInv
    <3>2. role'[q.s] \in [Actors -> Roles \cup {None}]
      BY <1>3, <3>1
    <3>3. QED
      BY <1>1, <1>2, <1>3, <3>2 DEF AddMemberTx, IInv, TypeInv
  <2>3. granted' \in [Invites -> SUBSET Actors] /\ viaLink' \in [Sessions -> SUBSET Actors]
    BY <1>1, <1>2 DEF IInv, TypeInv
  <2>4. contested' \subseteq Sessions
    BY <1>1, <1>2 DEF Contest, IInv, TypeInv
  <2>5. QED
    BY <1>2, <2>2, <2>3, <2>4 DEF IInv, TypeInv, Handler
<1>6. /\ \A p \in Requests \ {r} : req'[p] = req[p]
      /\ ~Granting1(r)' /\ Granting1(r)
  BY <1>1, <1>2 DEF IInv, TypeInv, Quiet, Granting1
<1>7. \A s \in Sessions, a \in Actors : Member(s, a) => Member(s, a)'
  BY <1>1, <1>3, <1>4, NamesAssumption DEF Member, Roles, Ranks
<1>8. ASSUME NEW p \in Requests PROVE RedeemerSound(p)'
  <2>1. CASE p = r
    BY <1>6, <2>1 DEF RedeemerSound
  <2>2. CASE p # r /\ Granting1(p)' /\ req[p].cause \in Invites
    <3>1. Granting1(p) /\ req'[p] = req[p] /\ RedeemerSound(p)
      BY <1>6, <2>2 DEF Granting1, IInv
    <3>2. req[p].cause # q.cause
      BY <1>6, <2>2, <3>1 DEF RedeemerSound
    <3>3. granted'[req[p].cause] = granted[req[p].cause]
      BY <1>2, <2>2, <3>2 DEF IInv, TypeInv
    <3>4. \A o \in Requests : Granting1(o)' => Granting1(o) /\ req'[o] = req[o]
      BY <1>6 DEF Granting1
    <3>5. QED
      BY <1>2, <3>1, <3>3, <3>4 DEF RedeemerSound
  <2>3. CASE p # r /\ ~(Granting1(p)' /\ req[p].cause \in Invites)
    BY <1>6, <2>3 DEF RedeemerSound
  <2>4. QED
    BY <2>1, <2>2, <2>3
<1>9. ASSUME NEW i \in Invites PROVE InviteSound(i)'
  <2>1. InviteSound(i) /\ invite' = invite
    BY <1>2 DEF IInv
  <2>2. CASE q.cause = i
    <3>1. granted[i] = {} /\ invite[i].st = "redeemed" /\ invite[i].to \in {None, q.a}
      BY <1>6, <2>2 DEF IInv, RedeemerSound
    <3>2. granted'[i] = {q.a}
      BY <1>2, <2>2, <3>1 DEF IInv, TypeInv
    <3>3. QED
      BY <2>1, <3>1, <3>2 DEF InviteSound
  <2>3. CASE q.cause # i
    <3>1. granted'[i] = granted[i]
      BY <1>2, <2>3 DEF IInv, TypeInv
    <3>2. QED
      BY <2>1, <3>1 DEF InviteSound
  <2>4. QED
    BY <2>2, <2>3
<1>10. ASSUME NEW s \in Sessions PROVE OneOwner(s)'
  <2>1. OneOwner(s) /\ contested \subseteq contested'
    BY <1>1, <1>2, ContestSound DEF IInv
  <2>2. CASE s # q.s
    BY <1>3, <2>1, <2>2 DEF OneOwner, Owners
  <2>3. CASE s = q.s /\ q.role # "owner"
    <3>1. Owners(s)' \subseteq Owners(s)
      BY <1>4, <2>3 DEF Owners
    <3>2. QED
      BY <2>1, <3>1 DEF OneOwner
  <2>4. CASE s = q.s /\ q.role = "owner"
    <3>1. s \notin contested' => Owners(s) \subseteq seen \cup {q.a}
      BY <1>1, <1>2, <2>4, ContestSound
    <3>2. s \notin contested' => Owners(s)' \subseteq {q.a}
      BY <1>4, <2>4, <3>1 DEF Owners
    <3>3. QED
      BY <3>2 DEF OneOwner
  <2>5. QED
    BY <2>2, <2>3, <2>4
<1>11. LinksSound'
  <2>1. \A s \in Sessions, a \in Actors : Neighbour(s, a) => Neighbour(s, a)'
    BY <1>2, <1>7 DEF Neighbour
  <2>2. \A s \in Sessions : \A a \in viaLink[s] : a \in Actors /\ role[s][a] = "observer" /\ Neighbour(s, a)
    BY DEF IInv, TypeInv, LinksSound, LinkedStandingOnly, Neighbour
  <2>3. q.cause = "link" => q.role = "observer" /\ Neighbour(q.s, q.a)
    BY <1>6 DEF IInv, LinksSound
  <2>4. ASSUME NEW s \in Sessions, NEW a \in viaLink'[s]
        PROVE  role'[s][a] = "observer" /\ Neighbour(s, a)'
    <3>1. CASE s # q.s
      BY <1>1, <1>2, <1>3, <2>1, <2>2, <2>4, <3>1 DEF IInv, TypeInv
    <3>2. CASE s = q.s /\ a # q.a
      <4>1. a \in viaLink[s]
        BY <1>1, <1>2, <2>4, <3>2 DEF IInv, TypeInv
      <4>2. QED
        BY <1>4, <2>1, <2>2, <3>2, <4>1
    <3>3. CASE s = q.s /\ a = q.a
      <4>1. q.cause = "link"
        BY <1>1, <1>2, <2>4, <3>3 DEF IInv, TypeInv
      <4>2. QED
        BY <1>1, <1>4, <2>1, <2>3, <3>3, <4>1
    <3>4. QED
      BY <3>1, <3>2, <3>3
  <2>5. LinkedStandingOnly'
    BY <2>4 DEF LinkedStandingOnly, Neighbour
  <2>6. ASSUME NEW p \in Requests, Granting1(p)', req'[p].cause = "link"
        PROVE  req'[p].role = "observer" /\ Neighbour(req[p].s, req[p].a)' /\ req'[p] = req[p]
    <3>1. p # r /\ req'[p] = req[p] /\ Granting1(p)
      BY <1>6, <2>6 DEF Granting1
    <3>2. req[p].s \in Sessions /\ req[p].a \in Actors
      BY <3>1, HandlerShape DEF Granting1, IInv, TypeInv, Granter, Demoter
    <3>3. QED
      BY <2>1, <2>6, <3>1, <3>2 DEF IInv, LinksSound
  <2>7. QED
    BY <1>2, <2>5, <2>6 DEF LinksSound, IInv, Neighbour, Member
<1>12. QED
  BY <1>5, <1>8, <1>9, <1>10, <1>11 DEF IInv

-----------------------------------------------------------------------------
(* Ownership transfers, wherever they come from.                            *)

\* What moving the ownership does to roles, standing and owners.
LEMMA MovedKeeps ==
  ASSUME IInv, NEW s \in Sessions, NEW from \in Actors, NEW to \in Actors, Moved(s, from, to),
         \A r \in Requests : Goes(r), UNCHANGED <<invite, link, everLinked>>
  PROVE  /\ role' \in [Sessions -> [Actors -> Roles \cup {None}]]
         /\ viaLink' \in [Sessions -> SUBSET Actors]
         /\ contested' \subseteq Sessions
         /\ granted' = granted
         /\ GrantsInv' /\ OwnersInv' /\ LinksSound'
<1>1. /\ role' = [role EXCEPT ![s] = [a \in Actors |->
           IF role[s][a] = None \/ a \notin {from, to} THEN role[s][a]
           ELSE IF a = to THEN "owner" ELSE "collaborator"]]
      /\ viaLink' = [viaLink EXCEPT ![s] = @ \ {from, to}]
      /\ contested' = IF Member(s, to) THEN Contest(s, to, {from}) ELSE contested
      /\ granted' = granted
  BY DEF Moved, TransferTx
<1>2. \A t \in Sessions \ {s} : role'[t] = role[t] /\ viaLink'[t] = viaLink[t]
  BY <1>1 DEF IInv, TypeInv
<1>3. /\ \A a \in Actors : role[s][a] = None \/ a \notin {from, to} => role'[s][a] = role[s][a]
      /\ \A a \in Actors : role[s][a] # None /\ a = to => role'[s][a] = "owner"
      /\ \A a \in Actors : role[s][a] # None /\ a = from /\ a # to => role'[s][a] = "collaborator"
      /\ viaLink'[s] = viaLink[s] \ {from, to}
  BY <1>1 DEF IInv, TypeInv
<1>4. "owner" \in Roles /\ "collaborator" \in Roles /\ None \notin Roles
  BY NamesAssumption DEF Roles, Ranks
<1>5. role' \in [Sessions -> [Actors -> Roles \cup {None}]]
  <2>1. \A a \in Actors : role[s][a] \in Roles \cup {None}
    BY DEF IInv, TypeInv
  <2>2. [a \in Actors |-> IF role[s][a] = None \/ a \notin {from, to} THEN role[s][a]
                          ELSE IF a = to THEN "owner" ELSE "collaborator"]
          \in [Actors -> Roles \cup {None}]
    BY <1>4, <2>1
  <2>3. QED
    BY <1>1, <2>2 DEF IInv, TypeInv
<1>6. viaLink' \in [Sessions -> SUBSET Actors] /\ contested' \subseteq Sessions
  BY <1>1 DEF Contest, IInv, TypeInv
<1>7. GrantsInv'
  BY <1>1, GrantsKept DEF IInv, GrantsInv, InviteSound
<1>8. OwnersInv'
  <2>1. contested \subseteq contested'
    BY <1>1, ContestSound
  <2>2. ASSUME NEW t \in Sessions PROVE OneOwner(t)'
    <3>1. CASE t # s
      BY <1>2, <2>1, <3>1 DEF IInv, OneOwner, Owners
    <3>2. CASE t = s /\ ~Member(s, to)
      <4>1. Owners(s)' \subseteq Owners(s)
        BY <1>3, <3>2 DEF Owners, Member
      <4>2. QED
        BY <2>1, <3>2, <4>1 DEF IInv, OneOwner
    <3>3. CASE t = s /\ Member(s, to)
      <4>1. s \notin contested' => Owners(s) \subseteq {from, to}
        BY <1>1, <3>3, ContestSound
      <4>2. s \notin contested' => Owners(s)' \subseteq {to}
        BY <1>3, <1>4, <4>1 DEF Owners
      <4>3. QED
        BY <3>3, <4>2 DEF OneOwner
    <3>4. QED
      BY <3>1, <3>2, <3>3
  <2>3. QED
    BY <2>2 DEF OwnersInv
<1>9. LinksSound'
  <2>1. \A t \in Sessions, a \in Actors : Member(t, a) => role'[t][a] # None
    BY <1>2, <1>3, <1>4 DEF Member
  <2>2. \A t \in Sessions : viaLink'[t] \subseteq viaLink[t]
    BY <1>2, <1>3
  <2>3. \A t \in Sessions : \A a \in viaLink'[t] : role'[t][a] = role[t][a]
    BY <1>2, <1>3 DEF IInv, TypeInv
  <2>4. QED
    BY <2>1, <2>2, <2>3, LinksKept DEF IInv
<1>10. QED
  BY <1>1, <1>5, <1>6, <1>7, <1>8, <1>9

LEMMA CommitTransferStep ==
  ASSUME IInv, NEW r \in Requests, CommitTransfer(r)
  PROVE  IInv'
<1> USE DEF Catalogue, Background
<1>1. /\ req[r] \in Mover /\ Moved(req[r].s, req[r].a, req[r].to)
      /\ req' = [req EXCEPT ![r] = Quiet]
      /\ UNCHANGED <<left, Catalogue, Background>>
  BY HandlerShape DEF CommitTransfer, IInv, TypeInv
<1>2. \A q \in Requests : Goes(q)
  BY <1>1 DEF Goes, Granting1, IInv, TypeInv, Quiet
<1>3. req[r].s \in Sessions /\ req[r].a \in Actors /\ req[r].to \in Actors
  BY <1>1 DEF Mover
<1>4. req' \in [Requests -> Handler]
  BY <1>1 DEF IInv, TypeInv, Handler
<1>5. UNCHANGED <<invite, link, everLinked>>
  BY <1>1
<1>6. /\ role' \in [Sessions -> [Actors -> Roles \cup {None}]]
      /\ viaLink' \in [Sessions -> SUBSET Actors]
      /\ contested' \subseteq Sessions
      /\ granted' = granted
      /\ GrantsInv' /\ OwnersInv' /\ LinksSound'
  BY <1>1, <1>2, <1>3, <1>5, MovedKeeps
<1>7. QED
  BY <1>1, <1>4, <1>6 DEF IInv, TypeInv, GrantsInv, OwnersInv

LEMMA SocketTransferStep ==
  ASSUME IInv, NEW s \in Sessions, NEW a \in Actors, NEW to \in Actors, SocketTransfer(s, a, to)
  PROVE  IInv'
<1> USE DEF Catalogue, Background
<1>1. /\ Moved(s, a, to) /\ left > 0 /\ left' = left - 1
      /\ UNCHANGED <<req, Catalogue, Background>>
  BY DEF SocketTransfer
<1>2. \A q \in Requests : Goes(q)
  BY <1>1 DEF Goes, Granting1
<1>3. UNCHANGED <<invite, link, everLinked>>
  BY <1>1
<1>4. /\ role' \in [Sessions -> [Actors -> Roles \cup {None}]]
      /\ viaLink' \in [Sessions -> SUBSET Actors]
      /\ contested' \subseteq Sessions
      /\ granted' = granted
      /\ GrantsInv' /\ OwnersInv' /\ LinksSound'
  BY <1>1, <1>2, <1>3, MovedKeeps
<1>5. QED
  BY <1>1, <1>4 DEF IInv, TypeInv, GrantsInv, OwnersInv

LEMMA SweepFireStep ==
  ASSUME IInv, NEW w \in Sweepers, SweepFire(w)
  PROVE  IInv'
<1>1. /\ Moved(sweep[w].s, sweep[w].from, sweep[w].to)
      /\ sweep[w].stage = "firing"
      /\ plan' = Deleted(sweep[w].p)
      /\ sweep' = [sweep EXCEPT ![w] = Quiet]
      /\ UNCHANGED <<left, req, invite, link, token, everLinked, scene, conn>>
  BY DEF SweepFire
<1>2. sweep[w].p \in Plans /\ sweep[w].s \in Sessions /\ sweep[w].to \in Actors /\ sweep[w].from \in Actors
  BY <1>1, SweepShape DEF IInv, TypeInv
<1>3. \A q \in Requests : Goes(q)
  BY <1>1 DEF Goes, Granting1
<1>4. plan' \in [Plans -> Plan] /\ sweep' \in [Sweepers -> Sweep]
  BY <1>1 DEF Deleted, Plan, Sweep, IInv, TypeInv
<1>5. /\ role' \in [Sessions -> [Actors -> Roles \cup {None}]]
      /\ viaLink' \in [Sessions -> SUBSET Actors]
      /\ contested' \subseteq Sessions
      /\ granted' = granted
      /\ GrantsInv' /\ OwnersInv' /\ LinksSound'
  BY <1>1, <1>2, <1>3, MovedKeeps
<1>6. QED
  BY <1>1, <1>4, <1>5 DEF IInv, TypeInv, GrantsInv, OwnersInv

-----------------------------------------------------------------------------
(* Sessions, sockets, plans and links.                                      *)

LEMMA CreateSessionStep ==
  ASSUME IInv, NEW s \in Sessions, NEW a \in Actors, CreateSession(s, a)
  PROVE  IInv'
<1> USE DEF Catalogue, Background
<1>1. /\ \A b \in Actors : role[s][b] = None
      /\ role' = [role EXCEPT ![s][a] = "owner"] /\ left > 0 /\ left' = left - 1
      /\ UNCHANGED <<req, granted, viaLink, contested, Catalogue, Background>>
  BY DEF CreateSession, Member
<1>2. /\ \A t \in Sessions \ {s} : role'[t] = role[t]
      /\ role'[s][a] = "owner" /\ \A b \in Actors \ {a} : role'[s][b] = None
  BY <1>1 DEF IInv, TypeInv
<1>3. TypeInv'
  BY <1>1 DEF IInv, TypeInv, Roles, Ranks
<1>4. \A q \in Requests : Goes(q)
  BY <1>1 DEF Goes, Granting1
<1>5. GrantsInv'
  BY <1>1, <1>4, GrantsKept DEF IInv, GrantsInv, InviteSound
<1>6. \A t \in Sessions : OneOwner(t)'
  BY <1>1, <1>2, NamesAssumption DEF IInv, OneOwner, Owners, Roles, Ranks
<1>7. LinksSound'
  <2>1. viaLink[s] = {}
    BY <1>1, NamesAssumption DEF IInv, TypeInv, LinksSound, LinkedStandingOnly, Roles, Ranks
  <2>2. \A t \in Sessions, b \in Actors : Member(t, b) => role'[t][b] # None
    BY <1>1, <1>2 DEF Member
  <2>3. \A t \in Sessions : \A b \in viaLink'[t] : role'[t][b] = role[t][b]
    BY <1>1, <1>2, <2>1
  <2>4. QED
    BY <1>1, <1>4, <2>2, <2>3, LinksKept DEF IInv
<1>8. QED
  BY <1>3, <1>5, <1>6, <1>7 DEF IInv, GrantsInv

LEMMA QuietEnd ==
  ASSUME IInv, UNCHANGED <<Rows, req, contested, invite, link, token, everLinked, scene>>,
         left' \in Nat, plan' \in [Plans -> Plan], sweep' \in [Sweepers -> Sweep]
  PROVE  IInv'
<1>1. TypeInv'
  BY DEF IInv, TypeInv, Rows
<1>2. \A q \in Requests : Goes(q)
  BY DEF Goes, Granting1
<1>3. QED
  BY <1>1, <1>2, NoRoleWritten

\* Sockets, schedules and what a sweeper reads write no role.
LEMMA QuietStep ==
  ASSUME IInv,
         \/ \E s \in Sessions, a \in Actors : Connect(s, a) \/ Disconnect(s, a)
         \/ Planning
         \/ \E w \in Sweepers : SweepRead(w) \/ \E p \in Plans : SweepList(w, p)
  PROVE  IInv'
<1>1. UNCHANGED <<Rows, req, contested, invite, link, token, everLinked, scene>>
  BY DEF Connect, Disconnect, Planning, Schedule, CancelPlan, SweepList, SweepRead, Rows, Catalogue,
         Background
<1>2. left' \in Nat
  BY DEF Connect, Disconnect, Planning, Schedule, CancelPlan, SweepList, SweepRead, IInv, TypeInv
<1>3. CASE Planning
  <2>1. UNCHANGED sweep
    BY <1>3 DEF Planning, Schedule, CancelPlan, Background
  <2>2. plan' \in [Plans -> Plan]
    <3>1. \A s \in Sessions, to \in Actors : [stage |-> "due", s |-> s, to |-> to] \in Plan
      BY DEF Plan
    <3>2. [stage |-> "deleted"] \in Plan
      BY DEF Plan
    <3>3. PICK p \in Plans, x \in Plan : plan' = [plan EXCEPT ![p] = x]
      BY <1>3, <3>1, <3>2 DEF Planning, Schedule, CancelPlan
    <3>4. QED
      BY <3>3 DEF IInv, TypeInv
  <2>3. QED
    BY <1>1, <1>2, <2>1, <2>2, QuietEnd DEF IInv, TypeInv
<1>4. ASSUME NEW w \in Sweepers, NEW p \in Plans, SweepList(w, p) PROVE IInv'
  <2>1. plan[p].s \in Sessions /\ plan[p].to \in Actors
    BY <1>4, PlanShape DEF SweepList, IInv, TypeInv
  <2>2. sweep' \in [Sweepers -> Sweep]
    BY <1>4, <2>1 DEF SweepList, Sweep, IInv, TypeInv
  <2>3. plan' = plan
    BY <1>4 DEF SweepList, Catalogue
  <2>4. QED
    BY <1>1, <1>2, <2>2, <2>3, QuietEnd DEF IInv, TypeInv
<1>5. ASSUME NEW w \in Sweepers, SweepRead(w) PROVE IInv'
  <2>1. sweep[w].p \in Plans /\ sweep[w].s \in Sessions /\ sweep[w].to \in Actors
    BY <1>5, SweepShape DEF SweepRead, IInv, TypeInv
  <2>2. \A from \in Owners(sweep[w].s) : from \in Actors
    BY DEF Owners
  <2>3. sweep' \in [Sweepers -> Sweep]
    BY SMTT(40), <1>5, <2>1, <2>2 DEF SweepRead, Sweep, IInv, TypeInv
  <2>4. plan' \in [Plans -> Plan]
    BY <1>5, <2>1 DEF SweepRead, Deleted, Plan, IInv, TypeInv
  <2>5. QED
    BY <1>1, <1>2, <2>3, <2>4, QuietEnd
<1>6. CASE \E s \in Sessions, a \in Actors : Connect(s, a) \/ Disconnect(s, a)
  <2>1. UNCHANGED <<plan, sweep>>
    BY <1>6 DEF Connect, Disconnect, Catalogue
  <2>2. QED
    BY <1>1, <1>2, <2>1, QuietEnd DEF IInv, TypeInv
<1>7. QED
  BY <1>3, <1>4, <1>5, <1>6

\* A link that is there was made once: everLinked is kept by every step.
LEMMA LinkStep ==
  ASSUME IInv, NEW s \in Sessions, NEW t \in Sessions, NEW a \in Actors,
         NEW v \in {"full", "muted", None},
         MintLinkInvite(s, a) \/ RedeemLinkInvite(s, t, a) \/ DirectLink(s, t, a) \/ AdjustLink(s, t, a, v)
  PROVE  IInv'
<1> USE DEF Rows, Background
<1>1. UNCHANGED <<Rows, invite, plan, req, contested, Background>> /\ left' \in Nat
  BY DEF MintLinkInvite, RedeemLinkInvite, DirectLink, AdjustLink, IInv, TypeInv
<1>2. \/ UNCHANGED <<link, everLinked>>
      \/ link' = [link EXCEPT ![Pair(s, t)] = "full"] /\ everLinked' = everLinked \cup {Pair(s, t)}
      \/ link' = [link EXCEPT ![Pair(s, t)] = v] /\ everLinked' = everLinked /\ link[Pair(s, t)] # None
  BY DEF MintLinkInvite, RedeemLinkInvite, DirectLink, AdjustLink, Linked
<1>3. Pair(s, t) \in Pairs
  BY DEF Pairs
<1>4. /\ link' \in [Pairs -> {"full", "muted", None}]
      /\ \A x \in Pairs \ {Pair(s, t)} : link'[x] = link[x]
      /\ everLinked \subseteq everLinked'
      /\ link'[Pair(s, t)] # None => Pair(s, t) \in everLinked'
  BY <1>2, <1>3 DEF IInv, TypeInv, LinksSound
<1>5. TypeInv'
  BY <1>1, <1>4 DEF IInv, TypeInv
<1>6. \A q \in Requests : Goes(q)
  BY <1>1 DEF Goes, Granting1
<1>7. GrantsInv'
  BY <1>1, <1>6, GrantsKept DEF IInv, GrantsInv, InviteSound
<1>8. OwnersInv'
  BY <1>1, OwnersKept DEF IInv, OwnersInv
<1>9. LinksSound'
  <2>1. \A x \in Sessions, y \in Sessions : link'[Pair(x, y)] # None => Pair(x, y) \in everLinked'
    <3>1. \A x \in Sessions, y \in Sessions : Pair(x, y) \in Pairs /\ (link[Pair(x, y)] # None => Pair(x, y) \in everLinked)
      BY DEF Pairs, IInv, LinksSound
    <3>2. QED
      BY <1>4, <3>1
  <2>2. \A x \in Sessions, b \in Actors : Neighbour(x, b) => Neighbour(x, b)'
    BY <1>1, <1>4 DEF Neighbour, Member
  <2>3. \A r \in Requests : Granting1(r) => req[r].s \in Sessions /\ req[r].a \in Actors
    BY HandlerShape DEF Granting1, IInv, TypeInv, Granter, Demoter
  <2>4. \A r \in Requests : (Granting1(r) /\ req[r].cause = "link")' =>
          req'[r].role = "observer" /\ Neighbour(req[r].s, req[r].a)' /\ req' = req
    BY <1>1, <2>2, <2>3 DEF Granting1, IInv, LinksSound
  <2>5. \A x \in Sessions : \A b \in viaLink[x] : b \in Actors /\ role[x][b] = "observer" /\ Neighbour(x, b)
    BY DEF IInv, TypeInv, LinksSound, LinkedStandingOnly, Neighbour
  <2>6. LinkedStandingOnly'
    BY <1>1, <2>2, <2>5 DEF LinkedStandingOnly, Neighbour
  <2>7. QED
    BY <2>1, <2>4, <2>6 DEF LinksSound, Neighbour, Member
<1>10. QED
  BY <1>5, <1>7, <1>8, <1>9 DEF IInv, GrantsInv, OwnersInv

-----------------------------------------------------------------------------
(* Every start and every step.                                              *)

LEMMA InitSound == Init => IInv
<1> SUFFICES ASSUME Init PROVE IInv
  OBVIOUS
<1>1. /\ scene.roles \in [Sessions -> [Actors -> Roles \cup {None}]]
      /\ \A s \in Sessions : \A a, b \in Actors :
           scene.roles[s][a] = "owner" /\ scene.roles[s][b] = "owner" => a = b
      /\ scene.budget \in Nat
  BY ScenesAssumption DEF Init
<1>2. TypeInv
  <2>1. link \in [Pairs -> {"full", "muted", None}]
    BY DEF Init, Pairs
  <2>2. QED
    BY <1>1, <2>1 DEF Init, TypeInv, Plan, Handler, Sweep
<1>3. \A i \in Invites : InviteSound(i)
  BY DEF Init, InviteSound
<1>4. \A r \in Requests : ~Granting1(r)
  BY DEF Init, Granting1, Quiet
<1>5. \A s \in Sessions : OneOwner(s)
  BY <1>1 DEF Init, OneOwner, Owners
<1>6. LinksSound
  <2>1. \A s, t \in Sessions : link[Pair(s, t)] = None
    BY DEF Init
  <2>2. QED
    BY <1>4, <2>1 DEF Init, LinksSound, LinkedStandingOnly
<1>7. QED
  BY <1>2, <1>3, <1>4, <1>5, <1>6 DEF IInv, RedeemerSound

LEMMA StepSound == IInv /\ [Next]_vars => IInv'
<1> SUFFICES ASSUME IInv, [Next]_vars PROVE IInv'
  OBVIOUS
<1>1. CASE Grants
  BY <1>1, StartStep, LinkedAccessStep DEF Grants, Roles, Ranks
<1>2. CASE InvitesStep
  BY <1>2, InviteStep, RedeemStep DEF InvitesStep, Created
<1>3. CASE Finish
  BY <1>3, DemoteStep, GrantStep, CommitTransferStep DEF Finish
<1>4. CASE Links
  BY <1>4, LinkStep DEF Links
<1>5. CASE Sockets
  BY <1>5, CreateSessionStep, QuietStep, SocketTransferStep DEF Sockets
<1>6. CASE Planning
  BY <1>6, QuietStep
<1>7. CASE \E r \in Requests : Abandon(r)
  BY <1>7, AbandonStep
<1>8. CASE \E w \in Sweepers : Sweeping(w)
  BY <1>8, QuietStep, SweepFireStep DEF Sweeping
<1>9. CASE UNCHANGED vars
  BY <1>9 DEF vars, IInv, TypeInv, InviteSound, RedeemerSound, Granting1, OneOwner, Owners, LinksSound,
     LinkedStandingOnly, Neighbour, Member
<1>10. QED
  BY <1>1, <1>2, <1>3, <1>4, <1>5, <1>6, <1>7, <1>8, <1>9 DEF Next

\* IInv holds throughout: the inductive invariant of the role table and of
\* everything in flight towards it.
THEOREM Invariance == Spec => []IInv
<1>1. QED
  BY InitSound, StepSound, PTL DEF Spec

\* Every row holds a role the code knows, every handler came from an entry
\* point, and the budget of requests is a number.
THEOREM TypeCorrect == Spec => []MembershipTypeOK
<1>1. IInv => MembershipTypeOK
  <2> SUFFICES ASSUME IInv PROVE MembershipTypeOK
    OBVIOUS
  <2>1. \A i \in Invites : invite[i].st \in {"unused", "open", "redeemed", "revoked", "expired"}
    BY DEF IInv, TypeInv, Invite, NoInvite
  <2>2. \A r \in Requests : req[r].stage \in {"free", "grant", "demoted", "transfer"}
    BY DEF IInv, TypeInv, Handler, Granter, Demoter, Mover, Quiet
  <2>3. \A p \in Plans : plan[p].stage \in {"free", "due", "deleted"}
    BY DEF IInv, TypeInv, Plan, Quiet
  <2>4. QED
    BY <2>1, <2>2, <2>3 DEF IInv, TypeInv, MembershipTypeOK
<1>2. QED
  BY <1>1, Invariance, PTL

\* A set whose members are all equal has one at most.
LEMMA AtMostOne ==
  ASSUME NEW S, \A a, b \in S : a = b
  PROVE  Cardinality(S) <= 1
<1>1. CASE S = {}
  BY <1>1, FS_EmptySet
<1>2. CASE S # {}
  <2>1. PICK a \in S : S = {a}
    BY <1>2
  <2>2. Cardinality({a}) = 1
    BY FS_Singleton
  <2>3. QED
    BY <2>1, <2>2
<1>3. QED
  BY <1>1, <1>2

\* invites::redeem decides by one UPDATE: however redemptions, revocations
\* and grants overlap, an invite makes one actor a member at most, the one it
\* is addressed to, and only once it is redeemed.
THEOREM InviteGrantsOnce == Spec => []GrantedOnce
<1>1. IInv => GrantedOnce
  <2> SUFFICES ASSUME IInv, NEW i \in Invites
               PROVE  /\ Cardinality(granted[i]) <= 1
                      /\ granted[i] # {} => invite[i].st = "redeemed"
                                            /\ \A a \in granted[i] : invite[i].to \in {None, a}
    BY DEF GrantedOnce
  <2>1. InviteSound(i)
    BY DEF IInv
  <2>2. QED
    BY <2>1, AtMostOne DEF InviteSound
<1>2. QED
  BY <1>1, Invariance, PTL

\* add_member demotes the owners it read and a transfer demotes the one it
\* names: a session where nobody was made owner over an unread owner keeps
\* one owner at most.
THEOREM StaleReadingsOnly == Spec => []OneOwnerUnlessStale
<1>1. IInv => OneOwnerUnlessStale
  BY AtMostOne DEF IInv, OneOwner, OneOwnerUnlessStale
<1>2. QED
  BY <1>1, Invariance, PTL

\* require_membership_or_linked_access grants an observer's row only to a
\* member of a linked session, and whatever rewrites the row otherwise ends
\* the standing.
THEOREM LinksGrantReading == Spec => []LinkedStandingOnly
<1>1. IInv => LinkedStandingOnly
  BY DEF IInv, LinksSound
<1>2. QED
  BY <1>1, Invariance, PTL

=============================================================================
