----------------------------- MODULE EdgesProofs -----------------------------
(***************************************************************************)
(* For any people, sessions and files: what surrounds a session keeps its  *)
(* promises - secrets rotated are recorded and can be gone on from, an     *)
(* invite reaches its addressee's mailbox and a token speaks for its own   *)
(* subject, a delegated approval is decided the way the target's members   *)
(* decided it, who looks at a session is shown all of it, and a quota      *)
(* bounds those who ask too often and nobody else.  The parts share no     *)
(* state; each has an inductive invariant of its own.                      *)
(***************************************************************************)
EXTENDS Identity, SessionStream, Delegation, RateLimit, SecretsRotation, FiniteSetTheorems, TLAPS

-----------------------------------------------------------------------------
(* Signing in: the inductive invariant.                                     *)

Emails   == {id.email : id \in Identities}
Login    == {Idle} \cup [stage: {"resolve", "create"}, id: Identities]
            \cup [stage: {"backfill", "issue"}, id: Identities, actor: Actors]
Token    == [flow: Flows, n: Nat, actor: Actors, id: Identities]
Mailed   == {[st |-> "unused"]} \cup [st: {"open", "closed"}, email: Emails]

IdentityType ==
  /\ pending \subseteq Flows
  /\ flow \in [Flows -> Login] /\ calls \in [Flows -> Nat] /\ issued \in [Flows -> Nat]
  /\ actor \in [Actors -> Emails \cup {None}] /\ maker \in [Actors -> Identities \cup {None}]
  /\ tokens \subseteq Token /\ swept \subseteq Actors
  /\ invite \in [Invites -> Mailed] /\ writer \in [Invites -> {"idle", "route", "done", "failed"}]
  /\ routes \subseteq Actors \X Invites

\* A state parameter is pending before its only callback; that one issues.
StateSpent(f) ==
  /\ calls[f] = 0 => flow[f].stage = "idle" /\ issued[f] = 0
  /\ f \in pending => calls[f] = 0
  /\ flow[f].stage # "idle" => issued[f] = 0
  /\ issued[f] <= 1

\* An actor speaks for an identity of the subject it was created for.
Speaks(x, id) == maker[x] # None /\ maker[x].sub = id.sub /\ maker[x].provider = id.provider
Signing(f) == flow[f].stage \in {"backfill", "issue"} => Speaks(flow[f].actor, flow[f].id)
Sweeping(f) == flow[f].stage = "backfill" => actor[flow[f].actor] = flow[f].id.email

SweptBorn == \A x \in swept : maker[x] # None

IdentityInv ==
  /\ IdentityType
  /\ \A f \in Flows : StateSpent(f) /\ Signing(f) /\ Sweeping(f)
  /\ \A t \in tokens : Speaks(t.actor, t.id)
  /\ \A x \in Unborn : actor[x] = None
  /\ SweptBorn /\ MailboxReached

-----------------------------------------------------------------------------
(* Signing in: the steps.                                                   *)

LEMMA LoginShape ==
  ASSUME NEW q \in Login
  PROVE  /\ q.stage \in {"idle", "resolve", "create", "backfill", "issue"}
         /\ q.stage # "idle" => q.id \in Identities
         /\ q.stage \in {"backfill", "issue"} => q.actor \in Actors
BY DEF Login, Idle

\* A login that moves on or dies keeps the rest as it was.
LEMMA LoginMoves ==
  ASSUME IdentityInv, NEW f \in Flows, NEW q \in Login, flow' = [flow EXCEPT ![f] = q],
         flow[f].stage # "idle", UNCHANGED <<pending, calls, actor, tokens, issued, maker, swept, Mail>>,
         q.stage \in {"backfill", "issue"} => Speaks(q.actor, q.id),
         q.stage = "backfill" => actor[q.actor] = q.id.email
  PROVE  IdentityInv'
<1> USE DEF Mail
<1>1. flow'[f] = q /\ \A g \in Flows \ {f} : flow'[g] = flow[g]
  BY DEF IdentityInv, IdentityType
<1>2. IdentityType'
  BY DEF IdentityInv, IdentityType
<1>3. \A g \in Flows : StateSpent(g)' /\ Signing(g)' /\ Sweeping(g)'
  BY <1>1 DEF IdentityInv, StateSpent, Signing, Sweeping, Speaks
<1>4. \A t \in tokens' : Speaks(t.actor, t.id)'
  BY DEF IdentityInv, Speaks
<1>5. (\A x \in Unborn : actor[x] = None)' /\ MailboxReached'
  BY DEF IdentityInv, Unborn, MailboxReached, Holders
<1>6. SweptBorn'
  BY DEF IdentityInv, SweptBorn
<1>7. QED
  BY <1>2, <1>3, <1>4, <1>5, <1>6 DEF IdentityInv

\* What a step that touches neither actors nor logins keeps.
LEMMA StrangersKept ==
  ASSUME IdentityInv, IdentityType', UNCHANGED <<flow, actor, maker, issued, swept>>, tokens' \subseteq tokens,
         \A f \in Flows : StateSpent(f)', MailboxReached'
  PROVE  IdentityInv'
BY DEF IdentityInv, Signing, Sweeping, Speaks, Unborn, SweptBorn

LEMMA OidcStartSound ==
  ASSUME IdentityInv, OidcStart
  PROVE  IdentityInv'
<1> USE DEF Mail
<1>1. PICK f \in Unused : pending' = pending \cup {f}
  BY DEF OidcStart
<1>2. UNCHANGED <<flow, calls, actor, tokens, issued, maker, swept, invite, writer, routes>>
  BY DEF OidcStart
<1>3. f \in Flows /\ calls[f] = 0
  BY DEF Unused
<1>4. IdentityType'
  BY <1>1, <1>2, <1>3 DEF IdentityInv, IdentityType
<1>5. \A g \in Flows : StateSpent(g)'
  BY <1>1, <1>2, <1>3 DEF IdentityInv, StateSpent
<1>6. MailboxReached'
  BY <1>2 DEF IdentityInv, MailboxReached, Holders
<1>7. QED
  BY <1>2, <1>4, <1>5, <1>6, StrangersKept

LEMMA SweepLogoutSound ==
  ASSUME IdentityInv, (\E f \in Flows : SweepPending(f)) \/ \E t \in tokens : Logout(t)
  PROVE  IdentityInv'
<1> USE DEF Mail
<1>1. /\ pending' \subseteq pending /\ tokens' \subseteq tokens
      /\ UNCHANGED <<flow, calls, actor, issued, maker, swept, invite, writer, routes>>
  BY DEF SweepPending, Logout
<1>2. IdentityType'
  BY <1>1 DEF IdentityInv, IdentityType
<1>3. \A g \in Flows : StateSpent(g)'
  BY <1>1 DEF IdentityInv, StateSpent
<1>4. MailboxReached'
  BY <1>1 DEF IdentityInv, MailboxReached, Holders
<1>5. QED
  BY <1>1, <1>2, <1>3, <1>4, StrangersKept

LEMMA CallbackSound ==
  ASSUME IdentityInv, NEW f \in Flows, NEW id \in Identities, OidcCallback(f, id)
  PROVE  IdentityInv'
<1> DEFINE q == [stage |-> "resolve", id |-> id]
<1> USE DEF Mail
<1>1. /\ f \in pending /\ calls' = [calls EXCEPT ![f] = @ + 1] /\ pending' = pending \ {f}
      /\ flow' = [flow EXCEPT ![f] = q]
      /\ UNCHANGED <<actor, tokens, issued, maker, swept, invite, writer, routes>>
  BY DEF OidcCallback
<1>2. q \in Login
  BY DEF Login
<1>3. /\ flow'[f] = q /\ calls'[f] = calls[f] + 1 /\ calls[f] \in Nat
      /\ \A g \in Flows \ {f} : flow'[g] = flow[g] /\ calls'[g] = calls[g]
  BY <1>1 DEF IdentityInv, IdentityType
<1>4. IdentityType'
  <2>1. calls' \in [Flows -> Nat]
    BY <1>1, <1>3 DEF IdentityInv, IdentityType
  <2>2. QED
    BY <1>1, <1>2, <2>1 DEF IdentityInv, IdentityType
<1>5. calls[f] = 0 /\ issued[f] = 0
  BY <1>1 DEF IdentityInv, StateSpent
<1>6. \A g \in Flows : StateSpent(g)'
  <2>1. StateSpent(f)'
    BY <1>1, <1>3, <1>5 DEF StateSpent
  <2>2. \A g \in Flows \ {f} : StateSpent(g)'
    BY <1>1, <1>3 DEF IdentityInv, StateSpent
  <2>3. QED
    BY <2>1, <2>2
<1>7. \A g \in Flows : Signing(g)' /\ Sweeping(g)'
  BY <1>1, <1>3 DEF IdentityInv, Signing, Sweeping, Speaks
<1>8. (\A t \in tokens : Speaks(t.actor, t.id))' /\ (\A x \in Unborn : actor[x] = None)' /\ MailboxReached' /\ SweptBorn'
  BY <1>1 DEF IdentityInv, Speaks, Unborn, MailboxReached, Holders, SweptBorn
<1>9. QED
  BY <1>4, <1>6, <1>7, <1>8 DEF IdentityInv

LEMMA LoginSound ==
  ASSUME IdentityInv, NEW f \in Flows, Resolve(f) \/ AbandonLogin(f)
  PROVE  IdentityInv'
<1> DEFINE id == flow[f].id
<1>1. flow[f] \in Login /\ flow[f].stage # "idle"
  BY DEF Resolve, AbandonLogin, IdentityInv, IdentityType
<1>2. Idle \in Login /\ Idle.stage = "idle"
  BY DEF Login, Idle
<1>3. UNCHANGED <<pending, calls, actor, tokens, issued, maker, swept, Mail>>
  BY DEF Resolve, AbandonLogin
<1>4. id \in Identities
  BY <1>1, LoginShape
<1>5. [stage |-> "create", id |-> id] \in Login
  BY <1>4 DEF Login
<1>6. ASSUME NEW x \in KnownAs(id), flow' = [flow EXCEPT ![f] = [stage |-> "issue", id |-> id, actor |-> x]]
      PROVE  IdentityInv'
  <2>1. x \in Actors /\ Speaks(x, id)
    BY DEF KnownAs, Speaks, IdentityInv, IdentityType, Token
  <2>2. [stage |-> "issue", id |-> id, actor |-> x] \in Login
    BY <1>4, <2>1 DEF Login
  <2>3. QED
    BY <1>1, <1>3, <1>6, <2>1, <2>2, LoginMoves
<1>7. CASE flow' = [flow EXCEPT ![f] = [stage |-> "create", id |-> id]]
  BY <1>1, <1>3, <1>5, <1>7, LoginMoves
<1>8. CASE flow' = [flow EXCEPT ![f] = Idle]
  BY <1>1, <1>2, <1>3, <1>8, LoginMoves
<1>9. QED
  BY <1>6, <1>7, <1>8 DEF Resolve, AbandonLogin

LEMMA CreateHumanSound ==
  ASSUME IdentityInv, NEW f \in Flows, CreateHuman(f)
  PROVE  IdentityInv'
<1> DEFINE id == flow[f].id
<1> USE DEF Mail
<1>1. PICK x \in Unborn : /\ actor' = [actor EXCEPT ![x] = id.email]
                          /\ maker' = [maker EXCEPT ![x] = id]
                          /\ flow' = [flow EXCEPT ![f] = [stage |-> "backfill", id |-> id, actor |-> x]]
  BY DEF CreateHuman
<1>2. /\ flow[f].stage = "create" /\ flow[f] \in Login
      /\ UNCHANGED <<pending, calls, tokens, issued, swept, invite, writer, routes>>
  BY DEF CreateHuman, IdentityInv, IdentityType
<1>3. id \in Identities /\ id.email \in Emails /\ id # None /\ id.email # None
  BY <1>2, LoginShape, IdentitiesAssumption DEF Emails
<1> HIDE DEF id
<1>4. x \in Actors /\ maker[x] = None /\ actor[x] = None
  BY DEF Unborn, IdentityInv
<1> DEFINE q == [stage |-> "backfill", id |-> id, actor |-> x]
<1>5. q \in Login /\ q.stage = "backfill" /\ q.actor = x /\ q.id = id
  BY <1>3, <1>4 DEF Login
<1>6. /\ flow'[f] = q /\ (\A g \in Flows \ {f} : flow'[g] = flow[g])
      /\ actor'[x] = id.email /\ maker'[x] = id
      /\ \A y \in Actors \ {x} : actor'[y] = actor[y] /\ maker'[y] = maker[y]
  BY <1>1, <1>4 DEF IdentityInv, IdentityType
<1> HIDE DEF q
<1>7. IdentityType'
  <2>1. flow' \in [Flows -> Login]
    BY <1>1, <1>5 DEF IdentityInv, IdentityType, q
  <2>2. QED
    BY <1>1, <1>2, <1>3, <1>4, <2>1 DEF IdentityInv, IdentityType
<1>8. \A y, i : y # x => (Speaks(y, i) /\ y \in Actors => Speaks(y, i)')
  BY <1>6 DEF Speaks
<1>9. \A g \in Flows : StateSpent(g)'
  BY <1>2, <1>5, <1>6 DEF IdentityInv, StateSpent
<1>10. ASSUME NEW g \in Flows PROVE Signing(g)' /\ Sweeping(g)'
  <2>1. CASE g = f
    BY <1>5, <1>6, <1>3, <2>1 DEF Signing, Sweeping, Speaks
  <2>2. CASE g # f
    <3>1. flow[g] \in Login /\ flow'[g] = flow[g] /\ Signing(g) /\ Sweeping(g)
      BY <1>6, <2>2 DEF IdentityInv, IdentityType
    <3>2. flow[g].stage \in {"backfill", "issue"} => flow[g].actor \in Actors /\ flow[g].actor # x
      BY <1>4, <3>1, LoginShape DEF Signing, Speaks
    <3>3. QED
      BY <1>6, <3>1, <3>2 DEF Signing, Sweeping, Speaks
  <2>3. QED
    BY <2>1, <2>2
<1>11. \A t \in tokens' : Speaks(t.actor, t.id)'
  <2>1. \A t \in tokens : t.actor \in Actors /\ Speaks(t.actor, t.id) /\ t.actor # x
    BY <1>4 DEF IdentityInv, IdentityType, Token, Speaks
  <2>2. QED
    BY <1>2, <1>6, <2>1 DEF Speaks
<1>12. \A y \in Unborn' : actor'[y] = None
  BY <1>3, <1>6 DEF Unborn, IdentityInv
<1>13. MailboxReached'
  <2>1. ASSUME NEW i \in Invites, invite[i].st = "open", writer[i] = "done",
               NEW y \in Holders(invite[i].email)', y \in swept
        PROVE  \E z \in Holders(invite[i].email)' : <<z, i>> \in routes
    <3>1. invite[i].email \in Emails /\ invite[i].email # None
      BY <2>1, IdentitiesAssumption DEF IdentityInv, IdentityType, Mailed, Emails
    <3>2. \A z \in Holders(invite[i].email) : z # x /\ z \in Holders(invite[i].email)'
      BY <1>2, <1>4, <1>6, <3>1 DEF Holders
    <3>3. CASE y # x
      <4>1. y \in Holders(invite[i].email)
        BY <1>2, <1>6, <3>3 DEF Holders
      <4>2. QED
        BY <2>1, <3>2, <4>1 DEF IdentityInv, MailboxReached
    <3>4. CASE y = x
      BY <1>4, <2>1, <3>4 DEF IdentityInv, SweptBorn
    <3>5. QED
      BY <3>3, <3>4
  <2>2. QED
    BY <1>2, <2>1 DEF MailboxReached
<1>14. SweptBorn'
  BY <1>2, <1>3, <1>6 DEF IdentityInv, IdentityType, SweptBorn
<1>15. QED
  BY <1>7, <1>9, <1>10, <1>11, <1>12, <1>13, <1>14 DEF IdentityInv

LEMMA BackfillSound ==
  ASSUME IdentityInv, NEW f \in Flows, Backfill(f)
  PROVE  IdentityInv'
<1> DEFINE q == flow[f]
           n == [stage |-> "issue", id |-> q.id, actor |-> q.actor]
<1>1. /\ q.stage = "backfill"
      /\ routes \subseteq routes' /\ routes' \subseteq routes \cup ({q.actor} \X Invites)
      /\ swept \subseteq swept' /\ swept' \subseteq swept \cup {q.actor}
      /\ swept' = swept \/ \A i \in Addressed(q.id.email) : <<q.actor, i>> \in routes'
      /\ flow' = [flow EXCEPT ![f] = n]
      /\ UNCHANGED <<pending, calls, actor, tokens, issued, maker, invite, writer>>
  BY DEF Backfill, Addressed
<1>2. q \in Login /\ q.id \in Identities /\ q.actor \in Actors /\ Speaks(q.actor, q.id) /\ actor[q.actor] = q.id.email
  BY <1>1, LoginShape DEF IdentityInv, IdentityType, Signing, Sweeping
<1>3. n \in Login /\ n.stage = "issue" /\ n.actor = q.actor /\ n.id = q.id
  BY <1>2 DEF Login
<1>4. flow'[f] = n /\ \A g \in Flows \ {f} : flow'[g] = flow[g]
  BY <1>1 DEF IdentityInv, IdentityType
<1>5. IdentityType'
  <2>1. routes' \subseteq Actors \X Invites
    BY <1>1, <1>2 DEF IdentityInv, IdentityType
  <2>2. flow' \in [Flows -> Login]
    BY <1>1, <1>3 DEF IdentityInv, IdentityType
  <2>3. QED
    BY <1>1, <1>2, <2>1, <2>2 DEF IdentityInv, IdentityType
<1>6. \A g \in Flows : StateSpent(g)' /\ Signing(g)' /\ Sweeping(g)'
  <2>1. StateSpent(f)' /\ Signing(f)' /\ Sweeping(f)'
    BY <1>1, <1>2, <1>3, <1>4 DEF IdentityInv, StateSpent, Signing, Sweeping, Speaks
  <2>2. \A g \in Flows \ {f} : StateSpent(g)' /\ Signing(g)' /\ Sweeping(g)'
    BY <1>1, <1>4 DEF IdentityInv, StateSpent, Signing, Sweeping, Speaks
  <2>3. QED
    BY <2>1, <2>2
<1>7. (\A t \in tokens : Speaks(t.actor, t.id))' /\ (\A x \in Unborn : actor[x] = None)'
  BY <1>1 DEF IdentityInv, Speaks, Unborn
<1>8. (\A x \in swept : maker[x] # None)'
  BY <1>1, <1>2 DEF IdentityInv, SweptBorn, Speaks
<1>9. MailboxReached'
  <2>1. ASSUME NEW i \in Invites, invite[i].st = "open", writer[i] = "done",
               NEW y \in Holders(invite[i].email), y \in swept'
        PROVE  \E z \in Holders(invite[i].email) : <<z, i>> \in routes'
    <3>1. CASE y \in swept
      BY <1>1, <2>1, <3>1 DEF IdentityInv, MailboxReached
    <3>2. CASE y = q.actor /\ y \notin swept
      <4>1. invite[i].email = q.id.email
        BY <1>2, <2>1, <3>2 DEF Holders
      <4>2. <<q.actor, i>> \in routes'
        BY <1>1, <2>1, <3>2, <4>1 DEF Addressed
      <4>3. QED
        BY <2>1, <3>2, <4>2
    <3>3. QED
      BY <1>1, <2>1, <3>1, <3>2
  <2>2. QED
    BY <1>1, <2>1 DEF MailboxReached, Holders
<1>10. QED
  BY <1>5, <1>6, <1>7, <1>8, <1>9 DEF IdentityInv, SweptBorn

LEMMA IssueTokenSound ==
  ASSUME IdentityInv, NEW f \in Flows, IssueToken(f)
  PROVE  IdentityInv'
<1> DEFINE q == flow[f]
           t == [flow |-> f, n |-> issued[f], actor |-> q.actor, id |-> q.id]
<1> USE DEF Mail
<1>1. /\ q.stage = "issue" /\ tokens' = tokens \cup {t} /\ issued' = [issued EXCEPT ![f] = @ + 1]
      /\ flow' = [flow EXCEPT ![f] = Idle]
      /\ UNCHANGED <<pending, calls, actor, maker, swept, invite, writer, routes>>
  BY DEF IssueToken
<1>2. q \in Login /\ q.id \in Identities /\ q.actor \in Actors /\ Speaks(q.actor, q.id) /\ issued[f] = 0
  BY <1>1, LoginShape DEF IdentityInv, IdentityType, Signing, StateSpent
<1>3. Idle \in Login /\ Idle.stage = "idle"
  BY DEF Login, Idle
<1>4. /\ flow'[f] = Idle /\ issued'[f] = 1
      /\ \A g \in Flows \ {f} : flow'[g] = flow[g] /\ issued'[g] = issued[g]
  BY <1>1, <1>2 DEF IdentityInv, IdentityType
<1>5. t \in Token /\ t.actor = q.actor /\ t.id = q.id
  BY <1>2 DEF Token
<1>6. IdentityType'
  <2>1. issued' \in [Flows -> Nat]
    BY <1>1, <1>2 DEF IdentityInv, IdentityType
  <2>2. flow' \in [Flows -> Login]
    BY <1>1, <1>3 DEF IdentityInv, IdentityType
  <2> HIDE DEF t
  <2>3. QED
    BY <1>1, <1>5, <2>1, <2>2 DEF IdentityInv, IdentityType
<1>7. \A g \in Flows : StateSpent(g)' /\ Signing(g)' /\ Sweeping(g)'
  <2>1. StateSpent(f)' /\ Signing(f)' /\ Sweeping(f)'
    BY <1>1, <1>3, <1>4 DEF IdentityInv, StateSpent, Signing, Sweeping
  <2>2. \A g \in Flows \ {f} : StateSpent(g)' /\ Signing(g)' /\ Sweeping(g)'
    BY <1>1, <1>4 DEF IdentityInv, StateSpent, Signing, Sweeping, Speaks
  <2>3. QED
    BY <2>1, <2>2
<1>8. \A u \in tokens' : Speaks(u.actor, u.id)'
  <2>1. \A u \in tokens : Speaks(u.actor, u.id)'
    BY <1>1 DEF IdentityInv, Speaks
  <2>2. \E v : v = t /\ v.actor = q.actor /\ v.id = q.id /\ tokens' = tokens \cup {v}
    BY <1>1, <1>5
  <2>3. PICK v : v = t /\ v.actor = q.actor /\ v.id = q.id /\ tokens' = tokens \cup {v}
    BY <2>2
  <2>4. maker' = maker
    BY <1>1
  <2>5. Speaks(v.actor, v.id)'
    BY <1>2, <2>3, <2>4 DEF Speaks
  <2>6. QED
    BY <2>1, <2>3, <2>5
<1>9. (\A x \in Unborn : actor[x] = None)' /\ MailboxReached' /\ (\A x \in swept : maker[x] # None)'
  BY <1>1 DEF IdentityInv, Unborn, MailboxReached, Holders, SweptBorn
<1>10. QED
  BY <1>6, <1>7, <1>8, <1>9 DEF IdentityInv, SweptBorn

\* Invites on their way to a mailbox.
LEMMA InviteSound ==
  ASSUME IdentityInv, NEW i \in Invites,
         (\E id \in Identities : WriteInvite(i, id.email)) \/ RouteInvite(i) \/ CloseInvite(i)
  PROVE  IdentityInv'
<1>1. /\ UNCHANGED <<pending, flow, calls, actor, tokens, issued, maker, swept>>
      /\ routes \subseteq routes'
      /\ \A j \in Invites \ {i} : invite'[j] = invite[j] /\ writer'[j] = writer[j]
  BY DEF WriteInvite, RouteInvite, CloseInvite, IdentityInv, IdentityType
<1>2. IdentityType'
  <2>1. CASE \E id \in Identities : WriteInvite(i, id.email)
    BY <2>1 DEF WriteInvite, IdentityInv, IdentityType, Mailed, Emails
  <2>2. CASE RouteInvite(i)
    BY <2>2 DEF RouteInvite, IdentityInv, IdentityType, Holders
  <2>3. CASE CloseInvite(i)
    <3>1. invite[i] \in [st: {"open", "closed"}, email: Emails]
      BY <2>3 DEF CloseInvite, IdentityInv, IdentityType, Mailed
    <3>2. [invite[i] EXCEPT !.st = "closed"] \in Mailed
      BY <3>1 DEF Mailed
    <3>3. QED
      BY <2>3, <3>2 DEF CloseInvite, IdentityInv, IdentityType
  <2>4. QED
    BY <2>1, <2>2, <2>3
<1>3. \A g \in Flows : StateSpent(g)'
  BY <1>1 DEF IdentityInv, StateSpent
<1>4. MailboxReached'
  <2>1. (invite'[i].st = "open" /\ writer'[i] = "done" /\ \E x \in Holders(invite'[i].email) : x \in swept)
        => \E x \in Holders(invite'[i].email) : <<x, i>> \in routes'
    <3>1. CASE \E id \in Identities : WriteInvite(i, id.email)
      BY <3>1 DEF WriteInvite, IdentityInv, IdentityType
    <3>2. CASE RouteInvite(i)
      <4>1. invite' = invite /\ (writer'[i] = "done" \/ writer'[i] = "failed")
        BY <3>2 DEF RouteInvite, IdentityInv, IdentityType
      <4>2. writer'[i] = "done" =>
               Holders(invite[i].email) = {} \/ \E x \in Holders(invite[i].email) : <<x, i>> \in routes'
        BY <3>2 DEF RouteInvite, IdentityInv, IdentityType
      <4>3. QED
        BY <4>1, <4>2
    <3>3. CASE CloseInvite(i)
      <4>1. invite[i] \in [st: {"open", "closed"}, email: Emails]
        BY <3>3 DEF CloseInvite, IdentityInv, IdentityType, Mailed
      <4>2. invite'[i].st = "closed"
        BY <3>3, <4>1 DEF CloseInvite, IdentityInv, IdentityType
      <4>3. QED
        BY <4>2
    <3>4. QED
      BY <3>1, <3>2, <3>3
  <2>2. \A j \in Invites \ {i} :
          (invite'[j].st = "open" /\ writer'[j] = "done" /\ \E x \in Holders(invite'[j].email) : x \in swept)
          => \E x \in Holders(invite'[j].email) : <<x, j>> \in routes'
    BY <1>1 DEF IdentityInv, MailboxReached
  <2>3. \A j \in Invites :
          (invite'[j].st = "open" /\ writer'[j] = "done" /\ \E x \in Holders(invite'[j].email) : x \in swept)
          => \E x \in Holders(invite'[j].email) : <<x, j>> \in routes'
    BY <2>1, <2>2
  <2>4. actor' = actor /\ swept' = swept
    BY <1>1
  <2>5. QED
    BY <2>3, <2>4 DEF MailboxReached, Holders
<1>5. QED
  BY <1>1, <1>2, <1>3, <1>4, StrangersKept

\* IdentityInv holds of every start and is kept by every step.
THEOREM IdentityInvariance == Spec => []IdentityInv
<1>1. Init => IdentityInv
  <2> SUFFICES ASSUME Init PROVE IdentityInv
    OBVIOUS
  <2>1. IdentityType
    BY DEF Init, IdentityType, Login, Mailed
  <2>2. \A f \in Flows : StateSpent(f) /\ Signing(f) /\ Sweeping(f)
    BY DEF Init, StateSpent, Signing, Sweeping, Idle
  <2>3. QED
    BY <2>1, <2>2 DEF Init, IdentityInv, Unborn, MailboxReached, SweptBorn
<1>2. IdentityInv /\ [Next]_vars => IdentityInv'
  <2> SUFFICES ASSUME IdentityInv, [Next]_vars PROVE IdentityInv'
    OBVIOUS
  <2>1. CASE UNCHANGED vars
    BY <2>1 DEF vars, IdentityInv, IdentityType, StateSpent, Signing, Sweeping, Speaks, Unborn,
       MailboxReached, Holders, SweptBorn
  <2>2. CASE Next
    BY <2>2, OidcStartSound, SweepLogoutSound, CallbackSound, LoginSound, CreateHumanSound, BackfillSound,
       IssueTokenSound, InviteSound DEF Next
  <2>3. QED
    BY <2>1, <2>2
<1>3. QED
  BY <1>1, <1>2, PTL DEF Spec

\* The invite is inserted before its addressee is looked up, and the actor
\* before its backfill reads the invites: an open invite is in the mailbox of
\* some actor with its e-mail, whichever of the two comes second and whichever
\* logins die half-way.
THEOREM MailboxAlwaysReached == Spec => []MailboxReached
<1>1. IdentityInv => MailboxReached
  BY DEF IdentityInv
<1>2. QED
  BY <1>1, IdentityInvariance, PTL

\* oidc_callback removes the state parameter before its first await, so a
\* parameter yields one sp_token at most.
THEOREM StateAlwaysUsedOnce == Spec => []StateUsedOnce
<1>1. IdentityInv => StateUsedOnce
  BY DEF IdentityInv, StateSpent, StateUsedOnce
<1>2. QED
  BY <1>1, IdentityInvariance, PTL

\* find_actor_by_sub looks a subject up together with its provider: a token
\* speaks for an actor created for the same subject at the same provider.
THEOREM TokensKeepIdentity == Spec => []TokenOfItsIdentity
<1>1. IdentityInv => TokenOfItsIdentity
  BY DEF IdentityInv, Speaks, TokenOfItsIdentity
<1>2. QED
  BY <1>1, IdentityInvariance, PTL

-----------------------------------------------------------------------------
(* Delegation: the inductive invariant.                                     *)

Deciders == {"Approved", "Denied"}
Copy     == {"Pending", "Approved", "Denied", "Expired"}
Post     == [s: Asks, what: {"begin", "granted", "denied"}]
Row      == [st: {"Pending", "Claimed", "Approved", "Denied", "Expired"}, by: Asks \cup {"none", "member"}]
Saga     == [st: {"none", "Waiting", "Completed", "Aborted"}, of: Sources \cup {CHOOSE p \in Sources : TRUE}]
Verdict  == {Idling} \cup [s: Asks, out: Deciders, stage: {"resolve", "mark"}]

DelegationType ==
  /\ source \in [Sources -> Row] /\ ask \in [Asks -> Saga]
  /\ mapping \in [Asks -> [status: {"none", "pending", "resolved"}, target: Nat]]
  /\ copies \in [Asks -> Seq(Copy)] /\ linking \in Asks \cup {NoCopy}
  /\ mailbox \in Seq(Post) /\ verdict \in Verdict

\* The target's members decided so, or a day went by.
Just(s, out) ==
  \/ \E k \in DOMAIN copies[s] : copies[s][k] = out
  \/ out = "Denied" /\ s \in overdue

\* The saga is over, that way.
Ended(s, out) == ask[s].st = (IF out = "Approved" THEN "Completed" ELSE "Aborted")

Grounded(m) ==
  /\ m.what = "begin"   => ask[m.s].st = "none" /\ mapping[m.s].status # "none"
  /\ m.what = "granted" => Just(m.s, "Approved")
  /\ m.what = "denied"  => Just(m.s, "Denied")

MailGrounded == \A i \in DOMAIN mailbox : Grounded(mailbox[i])

BeginsOnce ==
  \A i, j \in DOMAIN mailbox :
     mailbox[i].what = "begin" /\ mailbox[j].what = "begin" /\ mailbox[i].s = mailbox[j].s => i = j

VotesCast ==
  \A v \in deciding : \E s \in Asks : \E k \in DOMAIN copies[s] : v = <<s, k>> /\ copies[s][k] \in Deciders

Mapped  == \A s \in Asks : ask[s].st # "none" => mapping[s].status # "none"
VerdictGiven == verdict # Idling => Ended(verdict.s, verdict.out) /\ Just(verdict.s, verdict.out)

Resolved(p) ==
  source[p].by \in Asks =>
    LET s == source[p].by  out == source[p].st IN
    out \in Deciders /\ ask[s].of = p /\ Ended(s, out) /\ Just(s, out)

DelegationInv ==
  /\ DelegationType
  /\ MailGrounded /\ BeginsOnce /\ VotesCast /\ Mapped /\ VerdictGiven
  /\ \A p \in Sources : Resolved(p)

-----------------------------------------------------------------------------
(* Delegation: the steps.                                                   *)

LEMMA Posted ==
  ASSUME NEW M, NEW q \in Seq(M), NEW m \in M
  PROVE  /\ Append(q, m) \in Seq(M) /\ DOMAIN Append(q, m) = DOMAIN q \cup {Len(q) + 1}
         /\ Append(q, m)[Len(q) + 1] = m /\ Len(q) + 1 \notin DOMAIN q
         /\ \A i \in DOMAIN q : Append(q, m)[i] = q[i]
OBVIOUS

LEMMA TakenUp ==
  ASSUME NEW M, NEW q \in Seq(M), q # <<>>
  PROVE  /\ Tail(q) \in Seq(M) /\ Head(q) = q[1] /\ 1 \in DOMAIN q /\ q[1] \in M
         /\ \A i \in DOMAIN Tail(q) : i + 1 \in DOMAIN q /\ i + 1 # 1 /\ Tail(q)[i] = q[i + 1] /\ i \in Nat
OBVIOUS

LEMMA RowShape ==
  ASSUME NEW x \in Row PROVE x.by \in Asks \cup {"none", "member"}
BY DEF Row

LEMMA VerdictShape ==
  ASSUME NEW v \in Verdict
  PROVE  /\ v.stage \in {"none", "resolve", "mark"}
         /\ (v.stage = "none" \/ v = Idling) => v = Idling /\ v.stage = "none"
         /\ v # Idling => v.s \in Asks /\ v.out \in Deciders /\ v \in [s: Asks, out: Deciders, stage: {"resolve", "mark"}]
BY DEF Verdict, Idling

\* Copies are only added, and those decided stay as they are.
Settled == \A s \in Asks : \A k \in DOMAIN copies[s] :
              k \in DOMAIN copies'[s] /\ (copies[s][k] \in Deciders => copies'[s][k] = copies[s][k])

LEMMA JustKept ==
  ASSUME Settled, overdue \subseteq overdue', NEW s \in Asks, NEW out \in Deciders, Just(s, out)
  PROVE  Just(s, out)'
BY DEF Settled, Just

LEMMA VotesKept ==
  ASSUME Settled, VotesCast, deciding' \subseteq deciding
  PROVE  VotesCast'
<1> SUFFICES ASSUME NEW v \in deciding
             PROVE  \E s \in Asks : \E k \in DOMAIN copies'[s] : v = <<s, k>> /\ copies'[s][k] \in Deciders
  BY DEF VotesCast
<1>1. PICK s \in Asks : \E k \in DOMAIN copies[s] : v = <<s, k>> /\ copies[s][k] \in Deciders
  BY DEF VotesCast
<1>2. PICK k \in DOMAIN copies[s] : v = <<s, k>> /\ copies[s][k] \in Deciders
  BY <1>1
<1>3. k \in DOMAIN copies'[s] /\ copies'[s][k] \in Deciders
  BY <1>2 DEF Settled
<1>4. QED
  BY <1>2, <1>3

LEMMA GroundedKept ==
  ASSUME NEW m \in Post, Grounded(m), Settled, overdue \subseteq overdue',
         m.what = "begin" => ask'[m.s].st = ask[m.s].st,
         mapping[m.s].status # "none" => mapping'[m.s].status # "none"
  PROVE  Grounded(m)'
<1>1. m.s \in Asks /\ "Approved" \in Deciders /\ "Denied" \in Deciders
  BY DEF Post, Deciders
<1>2. QED
  BY <1>1, JustKept DEF Grounded

\* A step of the target, or of the clock: what was grounded stays so.
LEMMA TargetKept ==
  ASSUME DelegationInv, DelegationType', Settled, overdue \subseteq overdue', VotesCast',
         UNCHANGED <<source, ask, mailbox, verdict>>,
         \A s \in Asks : mapping[s].status # "none" => mapping'[s].status # "none"
  PROVE  DelegationInv'
<1>1. \A i \in DOMAIN mailbox : mailbox[i] \in Post
  BY DEF DelegationInv, DelegationType
<1>2. MailGrounded'
  <2> SUFFICES ASSUME NEW i \in DOMAIN mailbox PROVE Grounded(mailbox[i])'
    BY DEF MailGrounded
  <2>1. Grounded(mailbox[i]) /\ mailbox[i].s \in Asks
    BY <1>1 DEF DelegationInv, MailGrounded, Post
  <2>2. QED
    BY <1>1, <2>1, GroundedKept DEF Grounded
<1>3. BeginsOnce' /\ Mapped'
  BY DEF DelegationInv, BeginsOnce, Mapped
<1>4. VerdictGiven'
  BY VerdictShape, JustKept DEF DelegationInv, DelegationType, VerdictGiven, Ended
<1>5. ASSUME NEW p \in Sources PROVE Resolved(p)'
  BY JustKept DEF DelegationInv, Resolved, Ended
<1>6. QED
  BY <1>2, <1>3, <1>4, <1>5 DEF DelegationInv

\* A message more in the mailbox, of one who may say so.
LEMMA MailKept ==
  ASSUME DelegationInv, NEW m \in Post, mailbox' = Append(mailbox, m), Grounded(m)',
         Settled, overdue' = overdue, \A s \in Asks : ask'[s].st = ask[s].st,
         \A s \in Asks : mapping[s].status # "none" => mapping'[s].status # "none",
         m.what = "begin" => mapping[m.s].status = "none"
  PROVE  /\ mailbox' \in Seq(Post) /\ BeginsOnce'
         /\ MailGrounded'
<1>1. mailbox \in Seq(Post) /\ \A i \in DOMAIN mailbox : mailbox[i] \in Post
  BY DEF DelegationInv, DelegationType
<1>2. /\ mailbox' \in Seq(Post) /\ DOMAIN mailbox' = DOMAIN mailbox \cup {Len(mailbox) + 1}
      /\ mailbox'[Len(mailbox) + 1] = m /\ \A i \in DOMAIN mailbox : mailbox'[i] = mailbox[i]
  BY <1>1, Posted
<1>3. \A n \in Post : Grounded(n) => Grounded(n)'
  BY GroundedKept DEF Post
<1>4. \A i \in DOMAIN mailbox : mailbox[i].what = "begin" => mapping[mailbox[i].s].status # "none"
  BY DEF DelegationInv, MailGrounded, Grounded
<1>5. BeginsOnce'
  BY <1>2, <1>4 DEF DelegationInv, BeginsOnce
<1>6. MailGrounded'
  <2>1. \A i \in DOMAIN mailbox : Grounded(mailbox[i])
    BY DEF DelegationInv, MailGrounded
  <2>2. \A i \in DOMAIN mailbox' : mailbox'[i] = m \/ \E k \in DOMAIN mailbox : mailbox'[i] = mailbox[k]
    BY <1>2
  <2>3. QED
    BY SMTT(40), <1>1, <1>3, <2>1, <2>2 DEF MailGrounded, Grounded
<1>7. QED
  BY <1>2, <1>5, <1>6

LEMMA DelegateSound ==
  ASSUME DelegationInv, NEW s \in Asks, NEW p \in Sources, delegate_cross_session(s, p)
  PROVE  DelegationInv'
<1> DEFINE m == [s |-> s, what |-> "begin"]
<1>1. /\ mapping[s].status = "none" /\ mapping' = [mapping EXCEPT ![s] = [status |-> "pending", target |-> 0]]
      /\ ask' = [ask EXCEPT ![s].of = p] /\ mailbox' = Append(mailbox, m)
      /\ UNCHANGED <<source, copies, linking, deciding, verdict, overdue>>
  BY DEF delegate_cross_session, targets
<1>2. ask[s].st = "none"
  BY <1>1 DEF DelegationInv, Mapped
<1>3. /\ mapping'[s].status = "pending" /\ \A t \in Asks \ {s} : mapping'[t] = mapping[t] /\ ask'[t] = ask[t]
      /\ ask'[s].st = "none"
  BY <1>1, <1>2 DEF DelegationInv, DelegationType, Saga
<1>4. \A t \in Asks : ask'[t].st = ask[t].st /\ (t # s => ask'[t].of = ask[t].of)
  BY <1>2, <1>3
<1>5. Settled /\ m \in Post /\ Grounded(m)'
  BY <1>1, <1>3 DEF Settled, Post, Grounded
<1>6. mailbox' \in Seq(Post) /\ BeginsOnce' /\ MailGrounded'
  BY <1>1, <1>3, <1>4, <1>5, MailKept
<1>7. DelegationType'
  <2>1. ask' \in [Asks -> Saga]
    BY ZenonT(60), <1>1 DEF DelegationInv, DelegationType, Saga
  <2>2. mapping' \in [Asks -> [status: {"none", "pending", "resolved"}, target: Nat]]
    BY <1>1 DEF DelegationInv, DelegationType
  <2>3. QED
    BY <1>1, <1>6, <2>1, <2>2 DEF DelegationInv, DelegationType
<1>8. VotesCast' /\ Mapped'
  BY <1>1, <1>3, <1>4 DEF DelegationInv, VotesCast, Mapped
<1>9. VerdictGiven'
  BY <1>1, <1>4, VerdictShape DEF DelegationInv, DelegationType, VerdictGiven, Ended, Just
<1>10. ASSUME NEW q \in Sources PROVE Resolved(q)'
  <2> SUFFICES ASSUME source[q].by \in Asks
               PROVE  /\ source[q].st \in Deciders /\ ask'[source[q].by].of = q
                      /\ Ended(source[q].by, source[q].st)' /\ Just(source[q].by, source[q].st)'
    BY <1>1 DEF Resolved
  <2>1. /\ source[q].st \in Deciders /\ ask[source[q].by].of = q
        /\ Ended(source[q].by, source[q].st) /\ Just(source[q].by, source[q].st)
    BY DEF DelegationInv, Resolved
  <2>2. source[q].by # s
    BY <1>2, <2>1 DEF Ended
  <2>3. QED
    BY <1>1, <1>4, <2>1, <2>2 DEF Ended, Just
<1>11. QED
  BY <1>6, <1>7, <1>8, <1>9, <1>10 DEF DelegationInv

LEMMA MembersSound ==
  ASSUME DelegationInv, NEW p \in Sources, NEW st \in {"Claimed", "Approved", "Denied", "Expired"}, Members(p, st)
  PROVE  DelegationInv'
<1> DEFINE row == [st |-> st, by |-> IF st = "Claimed" THEN "none" ELSE "member"]
<1>1. /\ source' = [source EXCEPT ![p] = row]
      /\ UNCHANGED <<ask, mapping, copies, linking, deciding, mailbox, verdict, overdue>>
  BY DEF Members, targets, askers, outside
<1>2. row \in Row /\ row.by \notin Asks
  BY DelegationAssumption DEF Row
<1>3. source' \in [Sources -> Row] /\ source'[p] = row /\ \A q \in Sources \ {p} : source'[q] = source[q]
  BY <1>1, <1>2 DEF DelegationInv, DelegationType
<1>4. DelegationType' /\ BeginsOnce' /\ VotesCast' /\ Mapped' /\ VerdictGiven'
  BY <1>1, <1>3 DEF DelegationInv, DelegationType, BeginsOnce, VotesCast, Mapped, VerdictGiven, Ended, Just
<1>5. MailGrounded'
  BY <1>1 DEF DelegationInv, MailGrounded, Grounded, Just
<1>6. \A q \in Sources : Resolved(q)'
  BY <1>1, <1>2, <1>3 DEF DelegationInv, Resolved, Ended, Just
<1>7. QED
  BY <1>4, <1>5, <1>6 DEF DelegationInv

\* A message is taken up: what is left was there before.
LEMMA TakenKept ==
  ASSUME DelegationInv, mailbox # <<>>, mailbox' = Tail(mailbox), UNCHANGED <<mapping, copies, overdue>>,
         \A t \in Asks : ask'[t].st = ask[t].st \/ t = Head(mailbox).s,
         Head(mailbox).what = "begin" \/ ask[Head(mailbox).s].st # "none"
  PROVE  /\ mailbox' \in Seq(Post) /\ Head(mailbox) \in Post /\ Grounded(Head(mailbox)) /\ BeginsOnce'
         /\ MailGrounded'
<1>1. mailbox \in Seq(Post) /\ \A i \in DOMAIN mailbox : mailbox[i] \in Post
  BY DEF DelegationInv, DelegationType
<1>2. /\ mailbox' \in Seq(Post) /\ Head(mailbox) = mailbox[1] /\ 1 \in DOMAIN mailbox /\ mailbox[1] \in Post
      /\ \A i \in DOMAIN mailbox' : i + 1 \in DOMAIN mailbox /\ i + 1 # 1 /\ mailbox'[i] = mailbox[i + 1] /\ i \in Nat
  BY <1>1, TakenUp
<1>3. Grounded(Head(mailbox))
  BY <1>2 DEF DelegationInv, MailGrounded
<1>4. BeginsOnce'
  <2> SUFFICES ASSUME NEW i \in DOMAIN mailbox', NEW j \in DOMAIN mailbox',
                      mailbox'[i].what = "begin", mailbox'[j].what = "begin", mailbox'[i].s = mailbox'[j].s
               PROVE  i = j
    BY DEF BeginsOnce
  <2>1. i + 1 = j + 1
    BY <1>2 DEF DelegationInv, BeginsOnce
  <2>2. QED
    BY <1>2, <2>1
<1>5. MailGrounded'
  <2> SUFFICES ASSUME NEW i \in DOMAIN mailbox', NEW m, m = mailbox[i + 1] PROVE Grounded(m)'
    BY <1>2 DEF MailGrounded, Grounded
  <2>1. i + 1 \in DOMAIN mailbox /\ i + 1 # 1 /\ Grounded(m) /\ m \in Post
    BY <1>1, <1>2 DEF DelegationInv, MailGrounded, Grounded
  <2>2. m.what = "begin" => m.s # Head(mailbox).s
    BY <1>2, <1>3, <2>1 DEF DelegationInv, BeginsOnce, Grounded
  <2>3. m.s \in Asks /\ Settled
    BY <2>1 DEF Post, Settled
  <2>4. QED
    BY <2>1, <2>2, <2>3, GroundedKept
<1>6. QED
  BY <1>2, <1>3, <1>4, <1>5

LEMMA BeginAskSound ==
  ASSUME DelegationInv, BeginAsk
  PROVE  DelegationInv'
<1> DEFINE s == Head(mailbox).s
<1>1. /\ mailbox # <<>> /\ mailbox' = Tail(mailbox) /\ Head(mailbox).what = "begin"
      /\ ask' = [ask EXCEPT ![s].st = "Waiting"]
      /\ UNCHANGED <<source, mapping, copies, linking, deciding, verdict, overdue>>
  BY DEF BeginAsk, TakesUp, targets, outside
<1>2. \A t \in Asks \ {s} : ask'[t] = ask[t]
  BY <1>1 DEF DelegationInv, DelegationType
<1>3. /\ mailbox' \in Seq(Post) /\ Head(mailbox) \in Post /\ Grounded(Head(mailbox)) /\ BeginsOnce'
      /\ MailGrounded'
  BY <1>1, <1>2, TakenKept
<1>4. s \in Asks /\ ask[s].st = "none" /\ mapping[s].status # "none"
  BY <1>1, <1>3 DEF Post, Grounded
<1>5. ask' \in [Asks -> Saga]
  <2>1. ask[s] \in Saga /\ ask \in [Asks -> Saga]
    BY <1>4 DEF DelegationInv, DelegationType
  <2>2. [ask[s] EXCEPT !.st = "Waiting"] \in Saga
    BY <2>1 DEF Saga
  <2>3. QED
    BY <1>1, <1>4, <2>1, <2>2
<1>6. DelegationType' /\ VotesCast' /\ Mapped'
  BY <1>1, <1>2, <1>3, <1>4, <1>5 DEF DelegationInv, DelegationType, VotesCast, Mapped
<1>7. VerdictGiven'
  BY <1>1, <1>2, <1>4, VerdictShape DEF DelegationInv, DelegationType, VerdictGiven, Ended, Just
<1>8. \A q \in Sources : Resolved(q)'
  BY <1>1, <1>2, <1>4 DEF DelegationInv, Resolved, Ended, Just
<1>9. QED
  BY <1>3, <1>6, <1>7, <1>8 DEF DelegationInv

LEMMA AnsweredSound ==
  ASSUME DelegationInv, Answered
  PROVE  DelegationInv'
<1> DEFINE m == Head(mailbox)
           s == m.s
           out == IF m.what = "granted" THEN "Approved" ELSE "Denied"
<1>1. /\ mailbox # <<>> /\ mailbox' = Tail(mailbox) /\ m.what \in {"granted", "denied"} /\ verdict = Idling
      /\ UNCHANGED <<source, mapping, copies, linking, deciding, overdue>>
  BY DEF Answered, TakesUp, targets, outside
<1>2. CASE ask[s].st # "Waiting"
  <2>1. UNCHANGED <<ask, verdict>>
    BY <1>2 DEF Answered
  <2>2. MailGrounded'
    <3>1. mailbox \in Seq(Post) /\ MailGrounded
      BY DEF DelegationInv, DelegationType
    <3>2. \A i \in DOMAIN mailbox' : i + 1 \in DOMAIN mailbox /\ mailbox'[i] = mailbox[i + 1]
      BY <1>1, <3>1, TakenUp
    <3> SUFFICES ASSUME NEW i \in DOMAIN mailbox', NEW n, n = mailbox[i + 1] PROVE Grounded(n)'
      BY <3>2 DEF MailGrounded, Grounded
    <3>3. i + 1 \in DOMAIN mailbox /\ n \in Post
      BY <3>1, <3>2
    <3>4. Grounded(n)
      BY <3>1, <3>3 DEF MailGrounded, Grounded
    <3>5. Settled
      BY <1>1 DEF Settled
    <3>6. QED
      BY <1>1, <2>1, <3>3, <3>4, <3>5, GroundedKept
  <2>3. mailbox' \in Seq(Post) /\ BeginsOnce'
    <3>1. mailbox \in Seq(Post)
      BY DEF DelegationInv, DelegationType
    <3>2. /\ mailbox' \in Seq(Post)
          /\ \A i \in DOMAIN mailbox' : i + 1 \in DOMAIN mailbox /\ mailbox'[i] = mailbox[i + 1] /\ i \in Nat
      BY <1>1, <3>1, TakenUp
    <3> SUFFICES ASSUME NEW i \in DOMAIN mailbox', NEW j \in DOMAIN mailbox',
                        mailbox'[i].what = "begin", mailbox'[j].what = "begin", mailbox'[i].s = mailbox'[j].s
                 PROVE  i = j
      BY <3>2 DEF BeginsOnce
    <3>3. i + 1 = j + 1
      BY <3>2 DEF DelegationInv, BeginsOnce
    <3>4. QED
      BY <3>2, <3>3
  <2>4. DelegationType' /\ VotesCast' /\ Mapped' /\ VerdictGiven'
    BY <1>1, <2>1, <2>3 DEF DelegationInv, DelegationType, VotesCast, Mapped, VerdictGiven, Ended, Just
  <2>5. \A q \in Sources : Resolved(q)'
    BY <1>1, <2>1 DEF DelegationInv, Resolved, Ended, Just
  <2>6. QED
    BY <2>2, <2>3, <2>4, <2>5 DEF DelegationInv
<1>3. CASE ask[s].st = "Waiting"
  <2> DEFINE v == [s |-> s, out |-> out, stage |-> "resolve"]
  <2>1. /\ ask' = [ask EXCEPT ![s].st = IF m.what = "granted" THEN "Completed" ELSE "Aborted"]
        /\ verdict' = v
    BY <1>3 DEF Answered
  <2>2. \A t \in Asks \ {s} : ask'[t] = ask[t]
    BY <2>1 DEF DelegationInv, DelegationType
  <2>3. /\ mailbox' \in Seq(Post) /\ m \in Post /\ Grounded(m) /\ BeginsOnce'
        /\ MailGrounded'
    BY <1>1, <1>3, <2>2, TakenKept
  <2>4. s \in Asks /\ Just(s, out) /\ mapping[s].status # "none"
    BY <1>1, <1>3, <2>3 DEF Post, Grounded, DelegationInv, Mapped
  <2>5. ask' \in [Asks -> Saga] /\ ask'[s].st = (IF out = "Approved" THEN "Completed" ELSE "Aborted")
    BY ZenonT(60), <2>1, <2>4 DEF DelegationInv, DelegationType, Saga
  <2>6. v \in Verdict
    BY <2>4 DEF Verdict, Deciders
  <2>7. DelegationType' /\ VotesCast' /\ Mapped'
    BY <1>1, <2>1, <2>2, <2>3, <2>4, <2>5, <2>6 DEF DelegationInv, DelegationType, VotesCast, Mapped
  <2>8. VerdictGiven'
    BY <1>1, <2>1, <2>4, <2>5 DEF VerdictGiven, Ended, Just
  <2>9. \A q \in Sources : Resolved(q)'
    BY <1>1, <1>3, <2>2 DEF DelegationInv, Resolved, Ended, Just
  <2>10. QED
    BY <2>3, <2>7, <2>8, <2>9 DEF DelegationInv
<1>4. QED
  BY <1>2, <1>3

LEMMA ResolveIfPendingSound ==
  ASSUME DelegationInv, ResolveIfPending
  PROVE  DelegationInv'
<1> DEFINE s == verdict.s
           p == ask[s].of
           row == [st |-> verdict.out, by |-> s]
           v == [verdict EXCEPT !.stage = "mark"]
<1>1. /\ verdict.stage = "resolve" /\ verdict' = v
      /\ source' = IF source[p].st = "Pending" THEN [source EXCEPT ![p] = row] ELSE source
      /\ UNCHANGED <<ask, mapping, copies, linking, deciding, mailbox, overdue>>
  BY DEF ResolveIfPending, targets, outside
<1>2. /\ verdict # Idling /\ s \in Asks /\ verdict.out \in Deciders
      /\ verdict \in [s: Asks, out: Deciders, stage: {"resolve", "mark"}]
  BY <1>1, VerdictShape DEF DelegationInv, DelegationType, Idling
<1>3. Ended(s, verdict.out) /\ Just(s, verdict.out)
  BY <1>2 DEF DelegationInv, VerdictGiven
<1>4. v \in Verdict /\ v.s = s /\ v.out = verdict.out /\ row \in Row
  BY <1>2 DEF Verdict, Row, Deciders
<1> HIDE DEF v
<1>5. source' \in [Sources -> Row] /\ \A q \in Sources : source'[q] = source[q] \/ (source'[q] = row /\ q = p)
  BY <1>1, <1>4 DEF DelegationInv, DelegationType
<1>6. DelegationType' /\ MailGrounded' /\ BeginsOnce' /\ VotesCast' /\ Mapped'
  BY <1>1, <1>4, <1>5 DEF DelegationInv, DelegationType, MailGrounded, Grounded, BeginsOnce, VotesCast, Mapped, Just
<1>7. VerdictGiven'
  BY <1>1, <1>3, <1>4 DEF VerdictGiven, Ended, Just
<1>8. ASSUME NEW q \in Sources PROVE Resolved(q)'
  <2>1. CASE source'[q] = source[q]
    BY <1>1, <2>1 DEF DelegationInv, Resolved, Ended, Just
  <2>2. CASE source'[q] = row /\ q = p
    <3>1. source'[q].by = s /\ source'[q].st = verdict.out /\ ask'[s].of = q
      BY <1>1, <2>2
    <3>2. QED
      BY <1>1, <1>2, <1>3, <3>1 DEF Resolved, Ended, Just
  <2>3. QED
    BY SMTT(40), <1>5, <2>1, <2>2
<1>9. QED
  BY <1>6, <1>7, <1>8 DEF DelegationInv

LEMMA MarkSound ==
  ASSUME DelegationInv, mark_resolved
  PROVE  DelegationInv'
<1>1. /\ verdict.stage = "mark" /\ mapping' = [mapping EXCEPT ![verdict.s].status = "resolved"] /\ verdict' = Idling
      /\ UNCHANGED <<source, ask, copies, linking, deciding, mailbox, overdue>>
  BY DEF mark_resolved, targets, outside
<1>2. mapping' \in [Asks -> [status: {"none", "pending", "resolved"}, target: Nat]]
  BY <1>1 DEF DelegationInv, DelegationType
<1>3. \A t \in Asks : mapping[t].status # "none" => mapping'[t].status # "none"
  BY <1>1 DEF DelegationInv, DelegationType
<1>4. Idling \in Verdict
  BY DEF Verdict
<1>5. DelegationType' /\ BeginsOnce' /\ VotesCast' /\ Mapped' /\ VerdictGiven'
  BY <1>1, <1>2, <1>3, <1>4 DEF DelegationInv, DelegationType, BeginsOnce, VotesCast, Mapped, VerdictGiven
<1>6. \A i \in DOMAIN mailbox : mailbox[i].s \in Asks
  <2>1. \A i \in DOMAIN mailbox : mailbox[i] \in Post
    BY DEF DelegationInv, DelegationType
  <2>2. QED
    BY <2>1 DEF Post
<1>7. MailGrounded'
  BY <1>1, <1>3, <1>6 DEF DelegationInv, MailGrounded, Grounded, Just
<1>8. \A q \in Sources : Resolved(q)'
  BY <1>1 DEF DelegationInv, Resolved, Ended, Just
<1>9. QED
  BY <1>5, <1>7, <1>8 DEF DelegationInv

\* A step that only posts an answer.
LEMMA PostSound ==
  ASSUME DelegationInv, NEW s \in Asks, NEW what \in {"granted", "denied"},
         mailbox' = Append(mailbox, [s |-> s, what |-> what]),
         what = "granted" => Just(s, "Approved"), what = "denied" => Just(s, "Denied"),
         VotesCast', UNCHANGED <<source, ask, mapping, copies, linking, verdict, overdue>>
  PROVE  DelegationInv'
<1> DEFINE m == [s |-> s, what |-> what]
<1>1. m \in Post /\ m.what = what /\ m.s = s /\ Settled
  BY DEF Post, Settled
<1>2. Grounded(m)'
  BY <1>1 DEF Grounded, Just
<1> HIDE DEF m
<1>3. mailbox' \in Seq(Post) /\ BeginsOnce' /\ MailGrounded'
  BY <1>1, <1>2, MailKept DEF m
<1>4. DelegationType' /\ Mapped' /\ VerdictGiven'
  BY <1>3 DEF DelegationInv, DelegationType, Mapped, VerdictGiven, Ended, Just
<1>5. \A q \in Sources : Resolved(q)'
  BY DEF DelegationInv, Resolved, Ended, Just
<1>6. QED
  BY <1>3, <1>4, <1>5 DEF DelegationInv

LEMMA TimeOutSound ==
  ASSUME DelegationInv, NEW s \in Asks, TimeOut(s)
  PROVE  DelegationInv'
<1>1. /\ s \in overdue /\ mailbox' = Append(mailbox, [s |-> s, what |-> "denied"])
      /\ UNCHANGED <<source, ask, mapping, copies, linking, deciding, verdict, overdue>>
  BY DEF TimeOut, targets, outside
<1>2. VotesCast' /\ Just(s, "Denied")
  BY <1>1 DEF DelegationInv, VotesCast, Just
<1>3. QED
  BY <1>1, <1>2, PostSound

LEMMA TellSourceSound ==
  ASSUME DelegationInv, NEW s \in Asks, NEW k \in DOMAIN copies[s], TellSource(s, k)
  PROVE  DelegationInv'
<1> DEFINE what == IF copies[s][k] = "Approved" THEN "granted" ELSE "denied"
<1>1. /\ <<s, k>> \in deciding /\ deciding' \subseteq deciding
      /\ mailbox' = Append(mailbox, [s |-> s, what |-> what]) \/ mailbox' = mailbox
      /\ UNCHANGED <<source, ask, mapping, copies, linking, verdict, overdue>>
  BY DEF TellSource, targets, outside
<1>2. Settled /\ VotesCast'
  BY <1>1, VotesKept DEF DelegationInv, Settled
<1>3. copies[s][k] \in Deciders
  BY <1>1 DEF DelegationInv, VotesCast
<1>4. (what = "granted" => Just(s, "Approved")) /\ (what = "denied" => Just(s, "Denied"))
  BY <1>3 DEF Just, Deciders
<1>5. what \in {"granted", "denied"}
  OBVIOUS
<1> HIDE DEF what
<1>6. CASE mailbox' = Append(mailbox, [s |-> s, what |-> what])
  BY <1>1, <1>2, <1>4, <1>5, <1>6, PostSound
<1>7. CASE mailbox' = mailbox
  <2>1. DelegationType'
    BY <1>1, <1>7 DEF DelegationInv, DelegationType
  <2>2. QED
    BY <1>1, <1>2, <1>7, <2>1, TargetKept
<1>8. QED
  BY <1>1, <1>6, <1>7

LEMMA ReceivedSound ==
  ASSUME DelegationInv, NEW s \in Asks, Received(s)
  PROVE  DelegationInv'
<1>1. /\ copies' = [copies EXCEPT ![s] = Append(@, "Pending")] /\ linking' = s
      /\ UNCHANGED <<source, ask, mapping, deciding, mailbox, verdict, overdue>>
  BY DEF Received, askers, outside
<1>2. copies \in [Asks -> Seq(Copy)] /\ "Pending" \in Copy
  BY DEF DelegationInv, DelegationType, Copy
<1>3. /\ Append(copies[s], "Pending") \in Seq(Copy)
      /\ \A k \in DOMAIN copies[s] : k \in DOMAIN Append(copies[s], "Pending") /\ Append(copies[s], "Pending")[k] = copies[s][k]
  BY <1>2, Posted
<1>4. Settled /\ copies' \in [Asks -> Seq(Copy)]
  BY <1>1, <1>2, <1>3 DEF Settled
<1>5. VotesCast'
  BY <1>1, <1>4, VotesKept DEF DelegationInv
<1>6. DelegationType'
  BY <1>1, <1>4 DEF DelegationInv, DelegationType
<1>7. QED
  BY <1>1, <1>4, <1>5, <1>6, TargetKept

LEMMA SetTargetSound ==
  ASSUME DelegationInv, NEW ok \in BOOLEAN, set_target_approval_id(ok)
  PROVE  DelegationInv'
<1>1. /\ linking # NoCopy /\ linking' = NoCopy
      /\ mapping' = IF ok THEN [mapping EXCEPT ![linking].target = Len(copies[linking])] ELSE mapping
      /\ UNCHANGED <<source, ask, copies, deciding, mailbox, verdict, overdue>>
  BY DEF set_target_approval_id, askers, outside
<1>2. linking \in Asks /\ Len(copies[linking]) \in Nat
  BY <1>1 DEF DelegationInv, DelegationType
<1>3. /\ mapping' \in [Asks -> [status: {"none", "pending", "resolved"}, target: Nat]]
      /\ \A t \in Asks : mapping'[t].status = mapping[t].status
  BY <1>1, <1>2 DEF DelegationInv, DelegationType
<1>4. Settled
  BY <1>1 DEF Settled
<1>5. VotesCast'
  BY <1>1, <1>4, VotesKept DEF DelegationInv
<1>6. DelegationType'
  BY <1>1, <1>3 DEF DelegationInv, DelegationType
<1>7. QED
  BY <1>1, <1>3, <1>4, <1>5, <1>6, TargetKept

LEMMA DecidedSound ==
  ASSUME DelegationInv, NEW s \in Asks, NEW k \in DOMAIN copies[s],
         NEW st \in {"Approved", "Denied", "Expired"}, Decided(s, k, st)
  PROVE  DelegationInv'
<1>1. /\ copies[s][k] = "Pending" /\ copies' = [copies EXCEPT ![s][k] = st]
      /\ deciding' = IF st = "Expired" THEN deciding ELSE deciding \cup {<<s, k>>}
      /\ UNCHANGED <<source, ask, mapping, linking, mailbox, verdict, overdue>>
  BY DEF Decided, askers, outside
<1> DEFINE q == [copies[s] EXCEPT ![k] = st]
<1>2. copies \in [Asks -> Seq(Copy)] /\ st \in Copy
  BY DEF DelegationInv, DelegationType, Copy
<1>3. q \in Seq(Copy) /\ DOMAIN q = DOMAIN copies[s] /\ q[k] = st /\ \A j \in DOMAIN q \ {k} : q[j] = copies[s][j]
  BY <1>2
<1>4. copies' = [copies EXCEPT ![s] = q]
  BY <1>1
<1> HIDE DEF q
<1>5. copies' \in [Asks -> Seq(Copy)] /\ copies'[s] = q /\ \A t \in Asks \ {s} : copies'[t] = copies[t]
  BY <1>2, <1>3, <1>4
<1>6. Settled
  BY <1>1, <1>3, <1>5 DEF Settled, Deciders
<1>7. VotesCast'
  <2>1. ASSUME NEW v \in deciding PROVE \E t \in Asks : \E j \in DOMAIN copies'[t] : v = <<t, j>> /\ copies'[t][j] \in Deciders
    <3>1. PICK t \in Asks : \E j \in DOMAIN copies[t] : v = <<t, j>> /\ copies[t][j] \in Deciders
      BY DEF DelegationInv, VotesCast
    <3>2. PICK j \in DOMAIN copies[t] : v = <<t, j>> /\ copies[t][j] \in Deciders
      BY <3>1
    <3>3. j \in DOMAIN copies'[t] /\ copies'[t][j] \in Deciders
      BY <1>6, <3>2 DEF Settled
    <3>4. QED
      BY <3>2, <3>3
  <2>2. st # "Expired" => k \in DOMAIN copies'[s] /\ copies'[s][k] \in Deciders
    BY <1>3, <1>5 DEF Deciders
  <2>3. QED
    BY <1>1, <2>1, <2>2 DEF VotesCast
<1>8. DelegationType'
  BY <1>1, <1>5 DEF DelegationInv, DelegationType
<1>9. QED
  BY <1>1, <1>6, <1>7, <1>8, TargetKept

\* The notes, the clock, and the tasks that come back.
LEMMA AsideSound ==
  ASSUME DelegationInv, NEW n, send_note(n) \/ NoteReceived(n) \/ DayPasses(n) \/ TasksRespawn
  PROVE  DelegationInv'
<1>1. /\ UNCHANGED <<source, ask, mapping, copies, linking, deciding, mailbox, verdict>> /\ overdue \subseteq overdue'
  BY DEF send_note, NoteReceived, DayPasses, TasksRespawn, targets, askers, outside
<1>2. Settled /\ DelegationType'
  BY <1>1 DEF Settled, DelegationInv, DelegationType
<1>3. VotesCast'
  BY <1>1, <1>2, VotesKept DEF DelegationInv
<1>4. QED
  BY <1>1, <1>2, <1>3, TargetKept

LEMMA DeathSound ==
  ASSUME DelegationInv, ProcessDies
  PROVE  DelegationInv'
<1>1. /\ mailbox' = <<>> /\ verdict' = Idling /\ deciding' = {} /\ linking' = NoCopy
      /\ UNCHANGED <<source, ask, mapping, copies, overdue>>
  BY DEF ProcessDies
<1>2. <<>> \in Seq(Post) /\ Idling \in Verdict /\ DOMAIN mailbox' = {}
  BY <1>1 DEF Verdict
<1>3. DelegationType' /\ MailGrounded' /\ BeginsOnce' /\ VotesCast' /\ Mapped' /\ VerdictGiven'
  BY <1>1, <1>2 DEF DelegationInv, DelegationType, MailGrounded, BeginsOnce, VotesCast, Mapped, VerdictGiven
<1>4. \A p \in Sources : Resolved(p)'
  BY <1>1 DEF DelegationInv, Resolved, Ended, Just
<1>5. QED
  BY <1>3, <1>4 DEF DelegationInv

\* DelegationInv holds of every start and is kept by every step.
THEOREM DelegationInvariance == DelegationSpec => []DelegationInv
<1>1. DelegationInit => DelegationInv
  <2> SUFFICES ASSUME DelegationInit PROVE DelegationInv
    OBVIOUS
  <2>1. <<>> \in Seq(Post) /\ <<>> \in Seq(Copy) /\ DOMAIN mailbox = {} /\ \A s \in Asks : DOMAIN copies[s] = {}
    BY DEF DelegationInit
  <2>2. \A p \in Sources : source[p].by = "none"
    BY DEF DelegationInit
  <2>3. DelegationType
    BY <2>1 DEF DelegationInit, DelegationType, Row, Saga, Verdict
  <2>4. MailGrounded /\ BeginsOnce /\ VotesCast /\ Mapped /\ VerdictGiven
    BY <2>1 DEF DelegationInit, MailGrounded, BeginsOnce, VotesCast, Mapped, VerdictGiven
  <2>5. \A p \in Sources : Resolved(p)
    BY <2>2, DelegationAssumption DEF Resolved
  <2>6. QED
    BY <2>3, <2>4, <2>5 DEF DelegationInv
<1>2. DelegationInv /\ [DelegationNext]_delegationVars => DelegationInv'
  <2> SUFFICES ASSUME DelegationInv, [DelegationNext]_delegationVars PROVE DelegationInv'
    OBVIOUS
  <2>1. CASE UNCHANGED delegationVars
    BY <2>1 DEF delegationVars, DelegationInv, DelegationType, MailGrounded, Grounded, BeginsOnce, VotesCast,
       Mapped, VerdictGiven, Resolved, Ended, Just
  <2>2. QED
    BY <2>1, DelegateSound, MembersSound, BeginAskSound, AnsweredSound, ResolveIfPendingSound, MarkSound,
       TimeOutSound, TellSourceSound, ReceivedSound, SetTargetSound, DecidedSound, AsideSound, DeathSound
       DEF DelegationNext
<1>3. QED
  BY <1>1, <1>2, PTL DEF DelegationSpec

\* cross_session.rs: the target "can request a decision, it can never directly
\* overwrite A's row".  However steps are handed over again, answers come late
\* and processes die, an approval resolved for a saga was delegated by it, the
\* saga is over that way, and its target's members decided so or a day passed.
THEOREM DelegatesDecideOnly == DelegationSpec => []DelegatedVerdict
<1>1. DelegationInv => DelegatedVerdict
  BY DEF DelegationInv, Resolved, Ended, Just, Deciders, DelegatedVerdict
<1>2. QED
  BY <1>1, DelegationInvariance, PTL

-----------------------------------------------------------------------------
(* Rotation of secrets: the inductive invariant.                            *)

Content == [whole: BOOLEAN, epoch: Nat, for: SUBSET AgeKeys]
Write   == [open: BOOLEAN, path: Paths, content: Content]

Readable(content) == content.whole /\ \E id \in AgeKeys : id \in content.for

\* What a command still has to write, when the epochs of `seen' are recorded:
\* a state file's contents can be read again, and a bundle's epoch is recorded
\* or is the one of the state file written just before it.
WritesOK(q, seen) ==
  /\ Len(q) <= 2
  /\ Len(q) = 2 => /\ q[1].path \in StateFiles
                   /\ q[2].path = Bundle /\ q[2].content = q[1].content
  /\ Len(q) = 1 /\ q[1].path \in {Bundle, Env} => q[1].content.epoch \in seen \cup {ByHand}
  /\ Len(q) >= 1 /\ q[1].path \in StateFiles => Readable(q[1].content)

Spared(p) == \A c \in Commands : \A i \in DOMAIN cmd[c] : cmd[c][i].path # p

\* Before anything is recorded no state file is there and one command makes one.
Starting ==
  recorded = {} => /\ \A p \in StateFiles : ~disk[p].whole
                   /\ \A c, d \in Rotating : c = d

\* The careful operator always has a readable state file no command is going
\* to write: the one the rotation under way started from, or the last one made.
Careful == practice.atonce = 1 /\ practice.apart /\ practice.keep
SparedOne ==
  Careful /\ recorded # {} =>
    \E id \in AgeKeys, p \in StateFiles : Opens(id, p) /\ Spared(p)

SecretsType ==
  /\ disk \in [Paths -> Content]
  /\ cmd \in [Commands -> Seq(Write)]
  /\ epochs \in Nat /\ recorded \subseteq Nat
  /\ practice \in Practices

SecretsInv ==
  /\ SecretsType
  /\ \A c \in Commands : WritesOK(cmd[c], recorded)
  /\ BundleRecorded /\ Starting /\ SparedOne

-----------------------------------------------------------------------------
(* What the steps do to a command's writes.                                 *)

LEMMA PathsApart == Bundle # Env /\ Bundle \notin StateFiles /\ Env \notin StateFiles
                    /\ Bundle \in Paths /\ Env \in Paths /\ StateFiles \subseteq Paths
BY SecretsAssumption DEF Paths

LEMMA NoWrites == <<>> \in Seq(Write) /\ \A seen : WritesOK(<<>>, seen)
BY DEF WritesOK

LEMMA OneWrite ==
  ASSUME NEW p \in Paths, NEW x \in Content, NEW seen,
         p \in StateFiles => Readable(x), p \notin StateFiles => x.epoch \in seen \cup {ByHand}
  PROVE  /\ <<Put(p, x)>> \in Seq(Write) /\ WritesOK(<<Put(p, x)>>, seen)
         /\ \A i \in DOMAIN <<Put(p, x)>> : <<Put(p, x)>>[i].path = p
<1>1. Put(p, x) \in Write /\ Put(p, x).path = p /\ Put(p, x).content = x
  BY DEF Put, Write
<1>2. <<Put(p, x)>> \in Seq(Write)
  BY <1>1
<1>3. WritesOK(<<Put(p, x)>>, seen)
  BY <1>1, PathsApart DEF WritesOK
<1>4. QED
  BY <1>1, <1>2, <1>3

LEMMA TwoWrites ==
  ASSUME NEW p \in StateFiles, NEW x \in Content, NEW seen, Readable(x)
  PROVE  /\ Rotation(p, x) \in Seq(Write) /\ WritesOK(Rotation(p, x), seen)
         /\ \A i \in DOMAIN Rotation(p, x) : Rotation(p, x)[i].path \in {p, Bundle}
<1> DEFINE a == Put(p, x)
           b == Put(Bundle, x)
<1>1. /\ a \in Write /\ a.path = p /\ a.content = x
      /\ b \in Write /\ b.path = Bundle /\ b.content = x
  BY PathsApart DEF Put, Write
<1> HIDE DEF a, b
<1>2. /\ <<a, b>> \in Seq(Write) /\ Len(<<a, b>>) = 2
      /\ <<a, b>>[1] = a /\ <<a, b>>[2] = b /\ DOMAIN <<a, b>> = 1..2
  BY <1>1
<1>3. WritesOK(<<a, b>>, seen)
  BY <1>1, <1>2 DEF WritesOK
<1>4. \A i \in DOMAIN <<a, b>> : <<a, b>>[i].path \in {p, Bundle}
  BY <1>1, <1>2
<1>5. Rotation(p, x) = <<a, b>>
  BY DEF Rotation, a, b
<1>6. QED
  BY <1>2, <1>3, <1>4, <1>5

LEMMA OpenedWrite ==
  ASSUME NEW q \in Seq(Write), q # <<>>, NEW seen, WritesOK(q, seen)
  PROVE  LET o == [q EXCEPT ![1].open = TRUE] IN
         /\ o \in Seq(Write) /\ WritesOK(o, seen) /\ DOMAIN o = DOMAIN q
         /\ \A i \in DOMAIN q : o[i].path = q[i].path
<1> DEFINE o == [q EXCEPT ![1].open = TRUE]
<1>1. /\ Len(q) \in Nat /\ Len(q) >= 1 /\ DOMAIN q = 1..Len(q) /\ q[1] \in Write
  OBVIOUS
<1>2. LET w == [q[1] EXCEPT !.open = TRUE] IN
      w \in Write /\ w.path = q[1].path /\ w.content = q[1].content
  BY <1>1 DEF Write
<1>3. /\ o \in Seq(Write) /\ Len(o) = Len(q) /\ o[1] = [q[1] EXCEPT !.open = TRUE]
      /\ \A i \in 2..Len(q) : o[i] = q[i]
  BY <1>1, <1>2
<1>4. WritesOK(o, seen)
  BY <1>1, <1>2, <1>3 DEF WritesOK
<1>5. \A i \in DOMAIN q : o[i].path = q[i].path
  <2>1. \A i \in 1..Len(q) : i = 1 \/ i \in 2..Len(q)
    BY <1>1
  <2>2. QED
    BY <1>1, <1>2, <1>3, <2>1
<1>6. QED
  BY <1>1, <1>3, <1>4, <1>5

LEMMA NothingLeft ==
  ASSUME NEW q, NEW seen, Len(q) = 0
  PROVE  WritesOK(q, seen)
BY DEF WritesOK

LEMMA OneOrTwo ==
  ASSUME NEW n \in Nat, n >= 1, n <= 2
  PROVE  n = 1 \/ n = 2
OBVIOUS

LEMMA FirstWrite ==
  ASSUME NEW q \in Seq(Write), q # <<>>
  PROVE  /\ Len(q) \in Nat /\ Len(q) >= 1 /\ DOMAIN q = 1..Len(q) /\ 1 \in DOMAIN q
         /\ Head(q) = q[1] /\ q[1] \in Write
         /\ q[1].path \in Paths /\ q[1].content \in Content /\ q[1].content.epoch \in Nat
<1>1. /\ Len(q) \in Nat /\ Len(q) >= 1 /\ DOMAIN q = 1..Len(q) /\ Head(q) = q[1] /\ q[1] \in Write
  OBVIOUS
<1>2. q[1].path \in Paths /\ q[1].content \in Content
  BY <1>1 DEF Write
<1>3. q[1].content.epoch \in Nat
  BY <1>2 DEF Content
<1>4. QED
  BY <1>1, <1>2, <1>3

LEMMA FilledWrite ==
  ASSUME NEW q \in Seq(Write), q # <<>>, NEW seen, NEW then, WritesOK(q, seen),
         seen \subseteq then, q[1].path \in StateFiles => q[1].content.epoch \in then
  PROVE  /\ Tail(q) \in Seq(Write) /\ WritesOK(Tail(q), then)
         /\ \A i \in DOMAIN Tail(q) : Tail(q)[i].path = Bundle
         /\ Head(q) = q[1] /\ q[1] \in Write /\ 1 \in DOMAIN q
<1>1. /\ Len(q) \in {1, 2} /\ DOMAIN q = 1..Len(q) /\ q[1] \in Write /\ Head(q) = q[1] /\ 1 \in DOMAIN q
  <2>1. /\ Len(q) \in Nat /\ Len(q) >= 1 /\ DOMAIN q = 1..Len(q) /\ q[1] \in Write
        /\ Head(q) = q[1] /\ 1 \in DOMAIN q
    BY FirstWrite
  <2>2. Len(q) <= 2
    BY DEF WritesOK
  <2>3. Len(q) \in {1, 2}
    BY <2>1, <2>2
  <2>4. QED
    BY <2>1, <2>3
<1>2. Tail(q) \in Seq(Write) /\ Len(Tail(q)) = Len(q) - 1 /\ DOMAIN Tail(q) = 1..Len(Tail(q))
  OBVIOUS
<1>3. CASE Len(q) = 1
  <2>1. Len(Tail(q)) = 0
    BY <1>2, <1>3
  <2>2. WritesOK(Tail(q), then)
    BY <2>1, NothingLeft
  <2>3. QED
    BY <1>1, <1>2, <2>1, <2>2
<1>4. CASE Len(q) = 2
  <2>1. Len(Tail(q)) = 1 /\ DOMAIN Tail(q) = {1} /\ Tail(q)[1] = q[2]
    BY SMTT(40), <1>1, <1>2, <1>4
  <2>2. q[2].path = Bundle /\ q[2].content.epoch \in then
    BY <1>4 DEF WritesOK
  <2>3. WritesOK(Tail(q), then)
    <3>1. q[2].path \notin StateFiles
      BY <2>2, PathsApart
    <3>2. /\ Len(Tail(q)) <= 2 /\ Len(Tail(q)) # 2
          /\ Tail(q)[1].content.epoch \in then \cup {ByHand}
          /\ Tail(q)[1].path \notin StateFiles
      BY SMTT(40), <2>1, <2>2, <3>1
    <3>3. QED
      BY <3>2 DEF WritesOK
  <2>4. QED
    BY <1>1, <1>2, <2>1, <2>2, <2>3
<1>5. QED
  BY <1>1, <1>3, <1>4

-----------------------------------------------------------------------------
(* The steps.                                                               *)

\* A command that begins: nothing on disk changes, and what is recorded stays.
LEMMA RunSound ==
  ASSUME SecretsInv, NEW c \in Commands, NEW q \in Seq(Write), WritesOK(q, recorded),
         Run(c, q), epochs' \in Nat, UNCHANGED <<disk, recorded, practice>>, cmd[c] = <<>>,
         \/ \A i \in DOMAIN q : q[i].path \notin StateFiles
         \/ Rotating = {} /\ recorded = {}
         \/ /\ recorded # {}
            /\ Careful => /\ Rotating = {}
                          /\ \E id \in AgeKeys, p \in StateFiles :
                               Opens(id, p) /\ \A i \in DOMAIN q : q[i].path # p
  PROVE  SecretsInv'
<1>1. cmd' = [cmd EXCEPT ![c] = q] /\ cmd'[c] = q /\ \A d \in Commands \ {c} : cmd'[d] = cmd[d]
  BY DEF Run, SecretsInv, SecretsType
<1>2. SecretsType'
  BY <1>1 DEF SecretsInv, SecretsType
<1>3. \A d \in Commands : WritesOK(cmd'[d], recorded')
  BY <1>1 DEF SecretsInv
<1>4. BundleRecorded'
  BY DEF SecretsInv, BundleRecorded
<1>5. CASE \A i \in DOMAIN q : q[i].path \notin StateFiles
  <2>1. Rotating' = Rotating
    BY <1>1, <1>5 DEF Rotating
  <2>2. \A p \in StateFiles : Spared(p) => Spared(p)'
    BY <1>1, <1>5 DEF Spared
  <2>3. Starting' /\ SparedOne'
    BY <2>1, <2>2 DEF SecretsInv, Starting, SparedOne, Careful, Opens
  <2>4. QED
    BY <1>2, <1>3, <1>4, <2>3 DEF SecretsInv
<1>6. CASE Rotating = {} /\ recorded = {}
  <2>1. Rotating' \subseteq {c}
    BY <1>1, <1>6 DEF Rotating
  <2>2. Starting' /\ SparedOne'
    BY <1>6, <2>1 DEF SecretsInv, Starting, SparedOne
  <2>3. QED
    BY <1>2, <1>3, <1>4, <2>2 DEF SecretsInv
<1>7. CASE /\ recorded # {}
           /\ Careful => /\ Rotating = {}
                         /\ \E id \in AgeKeys, p \in StateFiles :
                              Opens(id, p) /\ \A i \in DOMAIN q : q[i].path # p
  <2>1. ASSUME Careful PROVE SparedOne'
    <3>1. PICK id \in AgeKeys, p \in StateFiles : Opens(id, p) /\ \A i \in DOMAIN q : q[i].path # p
      BY <1>7, <2>1
    <3>2. Spared(p)'
      BY <1>1, <1>7, <2>1, <3>1 DEF Spared, Rotating
    <3>3. QED
      BY <3>1, <3>2 DEF SparedOne, Opens
  <2>2. SparedOne'
    BY <2>1 DEF SparedOne, Careful
  <2>3. Starting'
    BY <1>7 DEF Starting
  <2>4. QED
    BY <1>2, <1>3, <1>4, <2>2, <2>3 DEF SecretsInv
<1>8. QED
  BY <1>5, <1>6, <1>7

LEMMA RecipientsHeld ==
  ASSUME SecretsInv, NEW for \in Recipients
  PROVE  for \in SUBSET AgeKeys /\ \E id \in AgeKeys : id \in for
<1>1. practice.holders \subseteq AgeKeys
  BY SecretsAssumption DEF SecretsInv, SecretsType
<1>2. for \subseteq practice.holders /\ for # {}
  BY DEF Recipients
<1>3. QED
  BY <1>1, <1>2

LEMMA BeginSound ==
  ASSUME SecretsInv, NEW c \in Commands, NEW for \in Recipients,
         Encrypt(c, for) \/ \E to \in StateFiles : InitState(c, to, for)
  PROVE  SecretsInv'
<1>1. for \in SUBSET AgeKeys /\ \E id \in AgeKeys : id \in for
  BY RecipientsHeld
<1>2. CASE Encrypt(c, for)
  <2> DEFINE x == Whole(ByHand, for)
  <2>1. x \in Content /\ x.epoch = ByHand
    BY <1>1 DEF Whole, Content, ByHand
  <2>2. /\ <<Put(Bundle, x)>> \in Seq(Write) /\ WritesOK(<<Put(Bundle, x)>>, recorded)
        /\ \A i \in DOMAIN <<Put(Bundle, x)>> : <<Put(Bundle, x)>>[i].path = Bundle
    BY <2>1, PathsApart, OneWrite
  <2>3. Run(c, <<Put(Bundle, x)>>) /\ cmd[c] = <<>> /\ UNCHANGED <<disk, epochs, recorded, practice>>
    BY <1>2 DEF Encrypt, Ready
  <2>4. epochs' \in Nat
    BY <2>3 DEF SecretsInv, SecretsType
  <2>5. QED
    BY <2>2, <2>3, <2>4, PathsApart, RunSound
<1>3. ASSUME NEW to \in StateFiles, InitState(c, to, for) PROVE SecretsInv'
  <2> DEFINE x == Whole(NextEpoch, for)
  <2>1. x \in Content /\ Readable(x) /\ NextEpoch \in Nat
    BY <1>1 DEF Whole, Content, Readable, NextEpoch, SecretsInv, SecretsType
  <2>2. <<Put(to, x)>> \in Seq(Write) /\ WritesOK(<<Put(to, x)>>, recorded)
    BY <2>1, PathsApart, OneWrite
  <2>3. /\ Run(c, <<Put(to, x)>>) /\ cmd[c] = <<>> /\ epochs' = NextEpoch
        /\ UNCHANGED <<disk, recorded, practice>> /\ Rotating = {} /\ recorded = {}
    BY <1>3 DEF InitState, Ready
  <2>4. QED
    BY <2>1, <2>2, <2>3, RunSound
<1>4. QED
  BY <1>2, <1>3

LEMMA RotateSound ==
  ASSUME SecretsInv, NEW c \in Commands, NEW for \in Recipients, NEW id \in AgeKeys,
         NEW from \in StateFiles, NEW to \in StateFiles, Rotate(c, id, from, to, for)
  PROVE  SecretsInv'
<1> DEFINE x == Whole(NextEpoch, for)
<1>1. for \in SUBSET AgeKeys /\ \E k \in AgeKeys : k \in for
  BY RecipientsHeld
<1>2. x \in Content /\ Readable(x) /\ NextEpoch \in Nat
  BY <1>1 DEF Whole, Content, Readable, NextEpoch, SecretsInv, SecretsType
<1>3. /\ Run(c, Rotation(to, x)) /\ cmd[c] = <<>> /\ epochs' = NextEpoch /\ Opens(id, from)
      /\ UNCHANGED <<disk, recorded, practice>>
      /\ Careful => Rotating = {} /\ from # to
  BY DEF Rotate, Ready, Careful
<1>4. /\ Rotation(to, x) \in Seq(Write) /\ WritesOK(Rotation(to, x), recorded)
      /\ \A i \in DOMAIN Rotation(to, x) : Rotation(to, x)[i].path \in {to, Bundle}
  BY <1>2, TwoWrites
<1>5. recorded # {}
  BY <1>3 DEF SecretsInv, Starting, Opens
<1>6. Careful => \A i \in DOMAIN Rotation(to, x) : Rotation(to, x)[i].path # from
  BY <1>3, <1>4, PathsApart
<1> HIDE DEF x
<1>7. QED
  BY <1>2, <1>3, <1>4, <1>5, <1>6, RunSound

LEMMA DecryptSound ==
  ASSUME SecretsInv, NEW c \in Commands, NEW id \in AgeKeys, Decrypt(c, id)
  PROVE  SecretsInv'
<1> DEFINE x == Whole(disk[Bundle].epoch, AgeKeys)
<1>1. disk[Bundle] \in Content /\ disk[Bundle].epoch \in recorded \cup {ByHand}
  BY PathsApart DEF Decrypt, Opens, SecretsInv, SecretsType, BundleRecorded
<1>2. x \in Content /\ x.epoch \in recorded \cup {ByHand}
  BY <1>1 DEF Whole, Content
<1>3. /\ <<Put(Env, x)>> \in Seq(Write) /\ WritesOK(<<Put(Env, x)>>, recorded)
      /\ \A i \in DOMAIN <<Put(Env, x)>> : <<Put(Env, x)>>[i].path = Env
  BY <1>2, PathsApart, OneWrite
<1>4. Run(c, <<Put(Env, x)>>) /\ cmd[c] = <<>> /\ UNCHANGED <<disk, epochs, recorded, practice>>
  BY DEF Decrypt, Ready
<1>5. epochs' \in Nat
  BY <1>4 DEF SecretsInv, SecretsType
<1>6. QED
  BY <1>3, <1>4, <1>5, PathsApart, RunSound

\* A write that truncates its file: it was not the spared one.
LEMMA TruncateSound ==
  ASSUME SecretsInv, NEW c \in Commands, Truncate(c)
  PROVE  SecretsInv'
<1> DEFINE q == cmd[c]
           o == [q EXCEPT ![1].open = TRUE]
<1>1. /\ q # <<>> /\ disk' = [disk EXCEPT ![Head(q).path] = Absent]
      /\ cmd' = [cmd EXCEPT ![c] = o] /\ UNCHANGED <<epochs, recorded, practice>>
  BY DEF Truncate, Ready
<1>2. q \in Seq(Write) /\ WritesOK(q, recorded)
  BY DEF SecretsInv, SecretsType
<1>3. o \in Seq(Write) /\ WritesOK(o, recorded) /\ DOMAIN o = DOMAIN q /\ \A i \in DOMAIN q : o[i].path = q[i].path
  BY <1>1, <1>2, OpenedWrite
<1>4. Head(q) = q[1] /\ q[1] \in Write /\ 1 \in DOMAIN q /\ q[1].path \in Paths
  BY <1>1, <1>2, FirstWrite
<1> HIDE DEF o
<1>5. cmd'[c] = o /\ \A d \in Commands \ {c} : cmd'[d] = cmd[d]
  BY <1>1, <1>3 DEF SecretsInv, SecretsType
<1>6. Absent \in Content /\ Absent.whole = FALSE
  BY DEF Absent, Content
<1>7. SecretsType'
  BY <1>1, <1>3, <1>4, <1>6 DEF SecretsInv, SecretsType
<1>8. \A d \in Commands : WritesOK(cmd'[d], recorded')
  BY <1>1, <1>3, <1>5 DEF SecretsInv
<1>9. \A p \in Paths : disk'[p] = disk[p] \/ (p = q[1].path /\ ~disk'[p].whole)
  BY <1>1, <1>4, <1>6 DEF SecretsInv, SecretsType
<1>10. BundleRecorded'
  BY <1>1, <1>9, PathsApart DEF SecretsInv, BundleRecorded
<1>11. Rotating' = Rotating /\ \A p : Spared(p) => Spared(p)'
  BY <1>3, <1>5 DEF Rotating, Spared
<1>12. Starting'
  BY <1>1, <1>9, <1>11, PathsApart DEF SecretsInv, Starting
<1>13. SparedOne'
  <2>1. \A p \in StateFiles : Spared(p) => disk'[p] = disk[p]
    BY <1>4, <1>9, PathsApart DEF Spared
  <2>2. QED
    BY <1>1, <1>11, <2>1 DEF SecretsInv, SparedOne, Careful, Opens
<1>14. QED
  BY <1>7, <1>8, <1>10, <1>12, <1>13 DEF SecretsInv

LEMMA FillSound ==
  ASSUME SecretsInv, NEW c \in Commands, Fill(c), NEW q, q = cmd[c], NEW w, w = q[1]
  PROVE  SecretsInv'
<1>1. /\ q # <<>> /\ disk' = [disk EXCEPT ![Head(q).path] = Head(q).content]
      /\ recorded' = IF Head(q).path \in StateFiles THEN recorded \cup {Head(q).content.epoch} ELSE recorded
      /\ cmd' = [cmd EXCEPT ![c] = Tail(q)] /\ UNCHANGED <<epochs, practice>>
  BY DEF Fill, Ready, Run
<1>2. q \in Seq(Write) /\ WritesOK(q, recorded)
  BY DEF SecretsInv, SecretsType
<1>3. Head(q) = w /\ w \in Write /\ w.path \in Paths /\ w.content \in Content /\ w.content.epoch \in Nat
  BY <1>1, <1>2, FirstWrite
<1>4. recorded \subseteq recorded' /\ (w.path \in StateFiles => w.content.epoch \in recorded')
  BY <1>1, <1>3
<1>5. /\ Tail(q) \in Seq(Write) /\ WritesOK(Tail(q), recorded')
      /\ \A i \in DOMAIN Tail(q) : Tail(q)[i].path = Bundle
      /\ 1 \in DOMAIN q
  BY <1>1, <1>2, <1>4, FilledWrite
<1>6. cmd'[c] = Tail(q) /\ \A d \in Commands \ {c} : cmd'[d] = cmd[d]
  BY <1>1, <1>5 DEF SecretsInv, SecretsType
<1>7. SecretsType'
  BY <1>1, <1>3, <1>5 DEF SecretsInv, SecretsType
<1>8. \A d \in Commands : WritesOK(cmd'[d], recorded')
  <2>1. \A d \in Commands \ {c} : WritesOK(cmd[d], recorded) => WritesOK(cmd[d], recorded')
    BY <1>4 DEF WritesOK
  <2>2. QED
    BY <1>5, <1>6, <2>1 DEF SecretsInv
<1>9. disk'[w.path] = w.content /\ \A p \in Paths \ {w.path} : disk'[p] = disk[p]
  BY <1>1, <1>3 DEF SecretsInv, SecretsType
<1>10. BundleRecorded'
  <2>1. w.path \in {Bundle, Env} => w.content.epoch \in recorded \cup {ByHand}
    <3>1. Len(q) = 1 \/ (Len(q) = 2 /\ w.path \in StateFiles)
      <4>1. Len(q) \in Nat /\ Len(q) >= 1
        BY <1>1, <1>2, FirstWrite
      <4>2. Len(q) <= 2 /\ (Len(q) = 2 => w.path \in StateFiles)
        BY <1>2 DEF WritesOK
      <4>3. Len(q) = 1 \/ Len(q) = 2
        BY <4>1, <4>2, OneOrTwo
      <4>4. QED
        BY <4>2, <4>3
    <3>2. QED
      BY <1>2, <3>1, PathsApart DEF WritesOK
  <2>2. QED
    BY <1>4, <1>9, <2>1, PathsApart DEF SecretsInv, BundleRecorded
<1>11. /\ Rotating' \subseteq Rotating
       /\ \A p \in StateFiles : Spared(p) => Spared(p)'
  BY ZenonT(60), <1>5, <1>6, PathsApart DEF Rotating, Spared
<1>12. Starting'
  <2>1. recorded' = {} => w.path \notin StateFiles /\ recorded = {}
    BY <1>4
  <2>2. QED
    BY <1>9, <1>11, <2>1, PathsApart DEF SecretsInv, Starting
<1>13. SparedOne'
  <2>1. CASE recorded # {}
    <3>1. \A p \in StateFiles : Spared(p) => disk'[p] = disk[p]
      BY <1>5, <1>9, PathsApart DEF Spared
    <3>2. QED
      BY <1>1, <1>11, <2>1, <3>1 DEF SecretsInv, SparedOne, Careful, Opens
  <2>2. CASE recorded = {} /\ w.path \in StateFiles
    <3>1. c \in Rotating /\ Rotating = {c}
      BY <1>5, <2>2 DEF Rotating, SecretsInv, Starting
    <3>2. Spared(w.path)'
      <4>1. \A i \in DOMAIN cmd'[c] : cmd'[c][i].path # w.path
        BY <1>5, <1>6, <2>2, PathsApart
      <4>2. ASSUME NEW d \in Commands \ {c}, NEW i \in DOMAIN cmd'[d] PROVE cmd'[d][i].path # w.path
        <5>1. cmd'[d] = cmd[d] /\ d \notin Rotating
          BY <1>6, <3>1
        <5>2. QED
          BY <2>2, <5>1 DEF Rotating
      <4>3. QED
        BY <4>1, <4>2 DEF Spared
    <3>3. Readable(w.content)
      <4>1. Len(q) \in Nat /\ Len(q) >= 1
        BY <1>1, <1>2, FirstWrite
      <4>2. QED
        BY <1>2, <2>2, <4>1 DEF WritesOK
    <3>4. PICK id \in AgeKeys : w.content.whole /\ id \in w.content.for
      BY <3>3 DEF Readable
    <3>5. Opens(id, w.path)'
      BY <1>9, <3>4 DEF Opens
    <3>6. QED
      BY <2>2, <3>2, <3>5 DEF SparedOne
  <2>3. CASE recorded = {} /\ w.path \notin StateFiles
    BY <1>1, <1>3, <2>3 DEF SparedOne
  <2>4. QED
    BY <2>1, <2>2, <2>3
<1>14. QED
  BY <1>7, <1>8, <1>10, <1>12, <1>13 DEF SecretsInv

LEMMA DieSound ==
  ASSUME SecretsInv, NEW c \in Commands, Die(c)
  PROVE  SecretsInv'
<1>1. cmd' = [cmd EXCEPT ![c] = <<>>] /\ UNCHANGED <<disk, epochs, recorded, practice>>
  BY DEF Die, Run
<1>2. cmd'[c] = <<>> /\ (\A d \in Commands \ {c} : cmd'[d] = cmd[d]) /\ SecretsType'
  BY <1>1, NoWrites DEF SecretsInv, SecretsType
<1>3. Rotating' \subseteq Rotating /\ \A p : Spared(p) => Spared(p)'
  BY <1>2 DEF Rotating, Spared
<1>4. \A d \in Commands : WritesOK(cmd'[d], recorded')
  BY <1>1, <1>2, NoWrites DEF SecretsInv
<1>5. BundleRecorded' /\ Starting' /\ SparedOne'
  BY <1>1, <1>3 DEF SecretsInv, BundleRecorded, Starting, SparedOne, Careful, Opens
<1>6. QED
  BY <1>2, <1>4, <1>5 DEF SecretsInv

\* SecretsInv holds of every start and is kept by every step.
THEOREM SecretsInvariance == SecretsSpec => []SecretsInv
<1>1. SecretsInit => SecretsInv
  <2> SUFFICES ASSUME SecretsInit PROVE SecretsInv
    OBVIOUS
  <2>1. Absent \in Content /\ ~Absent.whole
    BY DEF Absent, Content
  <2>2. SecretsType
    BY <2>1, NoWrites DEF SecretsInit, SecretsType
  <2>3. \A c \in Commands : cmd[c] = <<>>
    BY DEF SecretsInit
  <2>4. BundleRecorded /\ Starting /\ SparedOne
    BY <2>1, <2>3, PathsApart DEF SecretsInit, BundleRecorded, Starting, SparedOne, Rotating
  <2>5. QED
    BY <2>2, <2>3, <2>4, NoWrites DEF SecretsInv
<1>2. SecretsInv /\ [SecretsNext]_secretsVars => SecretsInv'
  <2> SUFFICES ASSUME SecretsInv, [SecretsNext]_secretsVars PROVE SecretsInv'
    OBVIOUS
  <2>1. CASE UNCHANGED secretsVars
    BY <2>1 DEF secretsVars, SecretsInv, SecretsType, BundleRecorded, Starting, SparedOne, Rotating,
       Spared, Careful, Opens
  <2>2. QED
    BY <2>1, BeginSound, RotateSound, DecryptSound, TruncateSound, FillSound, DieSound DEF SecretsNext
<1>3. QED
  BY <1>1, <1>2, PTL DEF SecretsSpec

\* cmd_rotate writes the state before the bundle, and each to its own file: no
\* bundle or environment in use is of an epoch that was not recorded, wherever
\* rotations die and mix, and whoever rotates one at a time to another file can
\* always read some state file again.
THEOREM RotationAlwaysSafe == SecretsSpec => []RotationSafe
<1>1. SecretsInv => RotationSafe
  BY DEF SecretsInv, SparedOne, Careful, RotationSafe, Recoverable
<1>2. QED
  BY <1>1, SecretsInvariance, PTL


-----------------------------------------------------------------------------
(* The streams to those who look at a session: the inductive invariant.      *)

Connections == [pc: {"off", "hub", "sub", "cold", "held", "on", "bye", "last", "gone"},
                at: Hosts \cup {Off.at}, hub: Nat, base: Int, stale: BOOLEAN, held: Int,
                ring: Seq(Nat), lost: BOOLEAN, got: Seq(Nat)]
HubRows == [live: Int, high: Int, senders: SUBSET Sockets]
Writers == [pc: {"rest", "commit", "notify", "store", "send", "tell", "keep", "warm", "done"},
            n: Nat, hub: Nat, base: Int]

StreamType ==
  /\ elog \in Seq(Items \cup Hosts) /\ ann \in [Items \cup Hosts -> Writers]
  /\ inbox \in [Hosts -> Seq(Nat)]
  /\ hubs \in Seq(HubRows)
  /\ reg \in [Hosts -> Nat] /\ sock \in [Sockets -> Connections] /\ setting \in Settings

Known(n) == n \in 1..Len(elog)

\* What a writer or a listener is about to store or send is committed, and
\* stored before it is sent - unless it is the session task's.
WriterSound(i) ==
  /\ ann[i].base <= Len(elog)
  /\ ann[i].pc \in {"notify", "store", "send", "tell", "keep", "warm"} => Known(ann[i].n)
  /\ ann[i].pc \in {"notify", "tell"} => elog[ann[i].n] = i
  /\ ann[i].pc = "tell" => setting.script[i].how = "task"
  /\ ann[i].pc \in {"commit", "notify"} => ann[i].hub <= Len(hubs)
  /\ ann[i].pc = "commit" /\ setting.script[i].how = "ws" => ann[i].hub > 0
  /\ ann[i].pc \in {"store", "send", "warm"} => ann[i].hub \in 1..Len(hubs)
  /\ ann[i].pc = "send" => ann[i].n <= hubs[ann[i].hub].high

HubSound(h) == hubs[h].live <= hubs[h].high /\ hubs[h].high <= Len(elog)

SentSound ==
  \A n, h : <<n, h>> \in sent =>
    Known(n) /\ (HowOf(n) # "task" => h \in 1..Len(hubs) /\ n <= hubs[h].high)

\* From the reading of its snapshot on a client has what its hub was sent.
Has(c) ==
  \A n : n > sock[c].base /\ <<n, sock[c].hub>> \in sent /\ KindOf(n) = "open" /\ HowOf(n) # "task"
    => n \in Reached(c)
SockSound(c) ==
  /\ sock[c].pc # "off" => sock[c].hub \in 1..Len(hubs)
  /\ sock[c].base <= Len(elog) /\ sock[c].held <= Len(elog)
  /\ \A n \in Reached(c) : Known(n)
  /\ sock[c].pc \in {"cold", "held", "on"} /\ ~sock[c].stale => Has(c)

NoticeSound(r) == reg[r] <= Len(hubs) /\ \A k \in DOMAIN inbox[r] : Known(inbox[r][k])

StreamInv ==
  /\ StreamType /\ SentSound
  /\ \A i \in Items \cup Hosts : WriterSound(i)
  /\ \A h \in 1..Len(hubs) : HubSound(h)
  /\ \A c \in Sockets : SockSound(c)
  /\ \A r \in Hosts : NoticeSound(r)

-----------------------------------------------------------------------------
(* The streams: what every step keeps. *)

LEMMA AppendContents ==
  ASSUME NEW S, NEW s \in Seq(S), NEW x \in S
  PROVE  Contents(Append(s, x)) = Contents(s) \cup {x}
<1>0. DOMAIN s = 1..Len(s) /\ DOMAIN Append(s, x) = 1..(Len(s) + 1) /\ Len(s) \in Nat
  OBVIOUS
<1>1. \A i \in DOMAIN Append(s, x) : i # Len(s) + 1 => i \in DOMAIN s
  BY <1>0
<1>2. \A i \in DOMAIN s : i \in DOMAIN Append(s, x) /\ Append(s, x)[i] = s[i]
  OBVIOUS
<1>3. Len(s) + 1 \in DOMAIN Append(s, x) /\ Append(s, x)[Len(s) + 1] = x
  OBVIOUS
<1>4. Contents(Append(s, x)) \subseteq Contents(s) \cup {x}
  BY <1>1, <1>2, <1>3 DEF Contents
<1>5. Contents(s) \cup {x} \subseteq Contents(Append(s, x))
  BY <1>2, <1>3 DEF Contents
<1>6. QED
  BY <1>4, <1>5

LEMMA AppendSeq == \A s \in Seq(Nat), n \in Nat : Contents(Append(s, n)) = Contents(s) \cup {n}
BY AppendContents

LEMMA TailContents ==
  ASSUME NEW S, NEW s \in Seq(S), s # <<>>
  PROVE  /\ Contents(Tail(s)) \cup {Head(s)} = Contents(s) /\ Head(s) \in S /\ Tail(s) \in Seq(S)
<1>0. Len(Tail(s)) = Len(s) - 1 /\ DOMAIN Tail(s) = 1..(Len(s) - 1) /\ DOMAIN s = 1..Len(s) /\ Len(s) \in Nat
  OBVIOUS
<1>1. \A i \in DOMAIN Tail(s) : i + 1 \in DOMAIN s /\ Tail(s)[i] = s[i + 1]
  BY <1>0
<1>2. \A i \in DOMAIN s : i # 1 => i - 1 \in DOMAIN Tail(s) /\ (i - 1) + 1 = i
  BY <1>0
<1>3. Head(s) = s[1] /\ 1 \in DOMAIN s
  OBVIOUS
<1>4. QED
  BY <1>1, <1>2, <1>3 DEF Contents

\* The log and the hubs of a session only grow.
Grows ==
  /\ setting' = setting
  /\ Len(elog) \in Nat /\ Len(elog') \in Nat /\ Len(elog) <= Len(elog')
  /\ \A n \in 1..Len(elog) : elog'[n] = elog[n]
  /\ Len(hubs) \in Nat /\ Len(hubs') \in Nat /\ Len(hubs) <= Len(hubs')
  /\ \A h \in 1..Len(hubs) : hubs[h].high \in Int /\ hubs'[h].high \in Int /\ hubs[h].high <= hubs'[h].high

LEMMA StillKnown ==
  ASSUME Grows, NEW n, Known(n)
  PROVE  Known(n)' /\ elog'[n] = elog[n] /\ KindOf(n)' = KindOf(n) /\ HowOf(n)' = HowOf(n)
BY DEF Grows, Known, KindOf, HowOf

LEMMA WriterKeeps ==
  ASSUME StreamType, Grows, NEW i \in Items \cup Hosts, WriterSound(i), ann'[i] = ann[i]
  PROVE  WriterSound(i)'
<1>1. ann[i] \in Writers
  BY DEF StreamType
<1>2. Known(ann[i].n) => Known(ann[i].n)' /\ elog'[ann[i].n] = elog[ann[i].n]
  BY StillKnown
<1>3. QED
  BY SMTT(40), <1>1, <1>2 DEF WriterSound, Writers, Grows

LEMMA SentKeeps ==
  ASSUME Grows, SentSound, UNCHANGED sent
  PROVE  SentSound'
<1> SUFFICES ASSUME NEW n, NEW h, <<n, h>> \in sent
             PROVE  Known(n)' /\ (HowOf(n)' # "task" => h \in 1..Len(hubs)' /\ n <= hubs[h].high')
  BY DEF SentSound
<1>1. Known(n) /\ (HowOf(n) # "task" => h \in 1..Len(hubs) /\ n <= hubs[h].high)
  BY DEF SentSound
<1>2. Known(n)' /\ HowOf(n)' = HowOf(n)
  BY <1>1, StillKnown
<1>3. QED
  BY <1>1, <1>2 DEF Grows, Known

\* A client that does not lose anything, and is not sent anything, stays sound.
LEMMA SockKeeps ==
  ASSUME StreamType, Grows, SentSound, NEW c \in Sockets, SockSound(c), UNCHANGED sent,
         sock'[c].hub = sock[c].hub, sock'[c].base = sock[c].base, sock'[c].stale = sock[c].stale,
         sock'[c].held = sock[c].held \/ sock'[c].held <= Len(elog'),
         Reached(c)' = Reached(c),
         sock[c].pc # "off",
         sock'[c].pc \in {"cold", "held", "on"} => sock[c].pc \in {"cold", "held", "on"}
  PROVE  SockSound(c)'
<1>1. sock[c] \in Connections
  BY DEF StreamType
<1>2. \A n \in Reached(c) : Known(n)'
  BY StillKnown DEF SockSound
<1>3. sock[c].hub \in 1..Len(hubs) /\ sock[c].base <= Len(elog) /\ sock[c].held <= Len(elog)
  BY DEF SockSound
<1>4. Has(c) => Has(c)'
  <2> SUFFICES ASSUME Has(c), NEW n, n > sock[c].base, <<n, sock[c].hub>> \in sent,
                      KindOf(n)' = "open", HowOf(n)' # "task"
               PROVE  n \in Reached(c)
    BY DEF Has
  <2>1. Known(n)
    BY DEF SentSound
  <2>2. QED
    BY <2>1, StillKnown DEF Has
<1>5. QED
  BY <1>1, <1>2, <1>3, <1>4 DEF SockSound, Connections, Grows

LEMMA SockStill ==
  ASSUME StreamType, Grows, SentSound, NEW c \in Sockets, SockSound(c), UNCHANGED sent, sock'[c] = sock[c]
  PROVE  SockSound(c)'
<1>1. CASE sock[c].pc # "off"
  BY <1>1, SockKeeps DEF Reached
<1>2. CASE sock[c].pc = "off"
  <2>1. sock[c] \in Connections /\ Reached(c)' = Reached(c)
    BY DEF StreamType, Reached
  <2>2. \A n \in Reached(c) : Known(n)'
    BY StillKnown DEF SockSound
  <2>3. QED
    BY SMTT(40), <1>2, <2>1, <2>2 DEF SockSound, Connections, Grows
<1>3. QED
  BY <1>1, <1>2

LEMMA NoticeKeeps ==
  ASSUME StreamType, Grows, NEW r \in Hosts, NoticeSound(r), inbox'[r] = inbox[r], reg'[r] = reg[r]
  PROVE  NoticeSound(r)'
<1>1. \A k \in DOMAIN inbox[r] : Known(inbox[r][k])'
  BY StillKnown DEF NoticeSound
<1>2. reg[r] \in Nat
  BY DEF StreamType
<1>3. QED
  BY <1>1, <1>2 DEF NoticeSound, Grows

LEMMA HubRow ==
  ASSUME StreamType
  PROVE  \A h \in 1..Len(hubs) : hubs[h] \in HubRows /\ hubs[h].live \in Int /\ hubs[h].high \in Int
<1> SUFFICES ASSUME NEW h \in 1..Len(hubs)
             PROVE  hubs[h] \in HubRows /\ hubs[h].live \in Int /\ hubs[h].high \in Int
  OBVIOUS
<1>1. hubs[h] \in HubRows
  BY DEF StreamType
<1>2. QED
  BY <1>1 DEF HubRows

\* With the log and the hubs as they were.
LEMMA GrowsStill ==
  ASSUME StreamType, UNCHANGED <<elog, hubs, setting>>
  PROVE  Grows
<1>1. Len(elog) \in Nat /\ Len(hubs) \in Nat
  BY DEF StreamType
<1>2. QED
  BY <1>1, HubRow DEF Grows

LEMMA HubsStill ==
  ASSUME StreamType, Grows, UNCHANGED hubs, \A h \in 1..Len(hubs) : HubSound(h)
  PROVE  \A h \in 1..Len(hubs') : HubSound(h)'
BY HubRow DEF HubSound, Grows

\* ArcSwap::store of a snapshot that is not ahead.
LEMMA StoreSound ==
  ASSUME StreamType, NEW h, NEW seq \in Int, seq <= Len(elog), Store(h, seq), UNCHANGED <<elog, setting>>,
         \A g \in 1..Len(hubs) : HubSound(g)
  PROVE  /\ hubs' \in Seq(HubRows)
         /\ Grows /\ \A g \in 1..Len(hubs') : HubSound(g)'
         /\ Len(hubs') = Len(hubs)
         /\ h \in 1..Len(hubs) => seq <= hubs'[h].high
         /\ \A g \in 1..Len(hubs) : hubs'[g].senders = hubs[g].senders
<1>1. hubs \in Seq(HubRows) /\ Len(elog) \in Nat
  BY DEF StreamType
<1>2. CASE h \in 1..Len(hubs)
  <2> DEFINE q == [hubs[h] EXCEPT !.live = seq, !.high = IF seq > @ THEN seq ELSE @]
  <2>1. hubs' = [hubs EXCEPT ![h] = q]
    BY DEF Store
  <2>2. hubs[h] \in HubRows
    BY <1>2, HubRow
  <2>3. q \in HubRows /\ q.live = seq /\ q.high \in Int /\ hubs[h].high \in Int
        /\ q.high = (IF seq > hubs[h].high THEN seq ELSE hubs[h].high) /\ q.senders = hubs[h].senders
    BY <2>2 DEF HubRows
  <2> HIDE DEF q
  <2>4. hubs' \in Seq(HubRows) /\ Len(hubs') = Len(hubs) /\ hubs'[h] = q
        /\ \A g \in 1..Len(hubs) : g # h => hubs'[g] = hubs[g]
    BY <1>1, <1>2, <2>1, <2>3
  <2>5. \A g \in 1..Len(hubs) : hubs[g].high \in Int /\ hubs[g].live \in Int
    BY HubRow
  <2>6. seq <= q.high /\ hubs[h].high <= q.high /\ q.high <= Len(elog) /\ q.live <= q.high
    BY <1>1, <1>2, <2>3 DEF HubSound
  <2>7. \A g \in 1..Len(hubs) : hubs'[g].high \in Int /\ hubs[g].high <= hubs'[g].high /\ HubSound(g)'
    BY <1>1, <2>3, <2>4, <2>5, <2>6 DEF HubSound
  <2>8. Grows
    BY <1>1, <2>4, <2>5, <2>7 DEF Grows
  <2>9. QED
    BY <2>3, <2>4, <2>6, <2>7, <2>8
<1>3. CASE h \notin 1..Len(hubs)
  <2>1. hubs' = hubs
    BY <1>1, <1>3 DEF Store
  <2>2. Grows
    BY <2>1, GrowsStill
  <2>3. QED
    BY <1>1, <1>3, <2>1, <2>2, HubsStill
<1>4. QED
  BY <1>2, <1>3

\* What a client has been shown stays: its snapshot once read, its queue but for its end.
GotGrows(c) ==
  sock[c].pc \notin {"off", "hub", "sub", "cold"} =>
    /\ sock'[c].pc \notin {"off", "hub", "sub", "cold"} /\ sock'[c].base = sock[c].base
    /\ Len(sock[c].got) <= Len(sock'[c].got)
    /\ \A k \in 1..Len(sock[c].got) : sock'[c].got[k] = sock[c].got[k]

LEMMA GotStill ==
  ASSUME StreamType, NEW c \in Sockets, sock'[c].pc = sock[c].pc \/ sock'[c].pc \notin {"off", "hub", "sub", "cold"},
         sock'[c].base = sock[c].base, sock'[c].got = sock[c].got
  PROVE  GotGrows(c)
<1>1. Len(sock[c].got) \in Nat
  BY DEF StreamType, Connections
<1>2. QED
  BY <1>1 DEF GotGrows

\* The writers, when one of them moves.
LEMMA WriterMoves ==
  ASSUME StreamInv, Grows, NEW i \in Items \cup Hosts, NEW q \in Writers, ann' = [ann EXCEPT ![i] = q],
         WriterSound(i)'
  PROVE  /\ ann' \in [Items \cup Hosts -> Writers]
         /\ \A j \in Items \cup Hosts : WriterSound(j)'
<1>1. ann \in [Items \cup Hosts -> Writers]
  BY DEF StreamInv, StreamType
<1>2. \A j \in Items \cup Hosts : j # i => ann'[j] = ann[j]
  BY <1>1
<1>3. \A j \in Items \cup Hosts : j # i => WriterSound(j)'
  BY <1>2, WriterKeeps DEF StreamInv
<1>4. QED
  BY <1>1, <1>3

LEMMA OthersKeep ==
  ASSUME StreamInv, Grows, UNCHANGED <<sent, sock>>
  PROVE  /\ SentSound' /\ \A c \in Sockets : SockSound(c)' /\ GotGrows(c)
BY SentKeeps, SockStill, GotStill DEF StreamInv

LEMMA NoticesKeep ==
  ASSUME StreamInv, Grows, UNCHANGED <<inbox, reg>>
  PROVE  \A r \in Hosts : NoticeSound(r)'
BY NoticeKeeps DEF StreamInv

LEMMA StillKeeps ==
  ASSUME StreamInv, UNCHANGED <<elog, ann, sent, inbox, hubs, reg, sock, setting>>
  PROVE  StreamInv' /\ \A c \in Sockets : GotGrows(c)
<1>1. Grows
  BY GrowsStill DEF StreamInv
<1>2. StreamType'
  BY DEF StreamInv, StreamType
<1>3. \A h \in 1..Len(hubs') : HubSound(h)'
  BY <1>1, HubsStill DEF StreamInv
<1>4. \A i \in Items \cup Hosts : WriterSound(i)'
  BY <1>1, WriterKeeps DEF StreamInv
<1>5. QED
  BY <1>1, <1>2, <1>3, <1>4, OthersKeep, NoticesKeep DEF StreamInv

\* A step of a writer alone.
LEMMA WriterStep ==
  ASSUME StreamInv, NEW i \in Items \cup Hosts, NEW q \in Writers, ann' = [ann EXCEPT ![i] = q],
         UNCHANGED <<elog, sent, inbox, hubs, reg, sock, setting>>, WriterSound(i)'
  PROVE  StreamInv' /\ \A c \in Sockets : GotGrows(c)
<1>1. Grows
  BY GrowsStill DEF StreamInv
<1>2. ann' \in [Items \cup Hosts -> Writers] /\ \A j \in Items \cup Hosts : WriterSound(j)'
  BY <1>1, WriterMoves
<1>3. \A h \in 1..Len(hubs') : HubSound(h)'
  BY <1>1, HubsStill DEF StreamInv
<1>4. StreamType'
  BY <1>2 DEF StreamInv, StreamType
<1>5. QED
  BY <1>1, <1>2, <1>3, <1>4, OthersKeep, NoticesKeep DEF StreamInv

LEMMA WriterIs ==
  ASSUME StreamInv, NEW i \in Items \cup Hosts
  PROVE  /\ ann[i] \in Writers /\ ann[i].n \in Nat /\ ann[i].hub \in Nat /\ ann[i].base \in Int
         /\ WriterSound(i) /\ Len(elog) \in Nat /\ Len(hubs) \in Nat /\ ann \in [Items \cup Hosts -> Writers]
<1>1. ann \in [Items \cup Hosts -> Writers] /\ Len(elog) \in Nat /\ Len(hubs) \in Nat
  BY DEF StreamInv, StreamType
<1>2. QED
  BY <1>1 DEF Writers, StreamInv

LEMMA TakeKeeps ==
  ASSUME StreamInv, NEW k \in DOMAIN setting.script, Take(k)
  PROVE  StreamInv' /\ \A c \in Sockets : GotGrows(c)
<1>1. PICK h \in 0..Len(hubs) :
        /\ setting.script[k].how = "ws" => \E c \in Sockets : sock[c].pc = "on" /\ sock[c].hub = h
        /\ ann' = [ann EXCEPT ![k].hub = h, ![k].pc = "commit"]
  BY DEF Take
<1>2. CASE k \in Items \cup Hosts
  <2> DEFINE q == [ann[k] EXCEPT !.hub = h, !.pc = "commit"]
  <2>1. ann[k] \in Writers /\ ann[k].base \in Int /\ ann[k].base <= Len(elog) /\ Len(hubs) \in Nat
        /\ ann \in [Items \cup Hosts -> Writers]
    BY <1>2, WriterIs DEF WriterSound
  <2>0. h \in Nat
    BY <2>1
  <2>2. q \in Writers /\ q.pc = "commit" /\ q.hub = h /\ q.base = ann[k].base
    BY <2>0, <2>1 DEF Writers
  <2>3. ann' = [ann EXCEPT ![k] = q]
    BY <1>1, <2>1
  <2> HIDE DEF q
  <2>4. ann'[k] = q
    BY <1>2, <2>1, <2>3
  <2>5. setting.script[k].how = "ws" => h > 0
    BY <1>1 DEF StreamInv, SockSound
  <2>6. UNCHANGED <<elog, sent, inbox, hubs, reg, sock, setting>>
    BY DEF Take
  <2>7. WriterSound(k)'
    BY <1>1, <2>1, <2>2, <2>4, <2>5, <2>6 DEF WriterSound
  <2>8. QED
    BY <1>2, <2>2, <2>3, <2>6, <2>7, WriterStep
<1>3. CASE k \notin Items \cup Hosts
  <2>1. ann' = ann
    BY <1>1, <1>3 DEF StreamInv, StreamType
  <2>2. UNCHANGED <<elog, ann, sent, inbox, hubs, reg, sock, setting>>
    BY <2>1 DEF Take
  <2>3. QED
    BY <2>2, StillKeeps
<1>4. QED
  BY <1>2, <1>3

LEMMA CommittedKeeps ==
  ASSUME StreamInv, NEW i \in Items \cup Hosts, Committed(i)
  PROVE  StreamInv' /\ \A c \in Sockets : GotGrows(c)
<1> DEFINE pc == IF setting.script[i].how = "ws" THEN "store" ELSE "notify"
           q == [ann[i] EXCEPT !.n = Len(elog) + 1, !.pc = pc]
<1>1. /\ ann[i] \in Writers /\ ann[i].base \in Int /\ ann[i].hub \in Nat /\ WriterSound(i)
      /\ Len(elog) \in Nat /\ Len(hubs) \in Nat /\ ann \in [Items \cup Hosts -> Writers]
  BY WriterIs
<1>0. pc \in {"store", "notify"} /\ Len(elog) + 1 \in Nat
  BY <1>1
<1>2. q \in Writers /\ q.pc = pc /\ q.n = Len(elog) + 1 /\ q.hub = ann[i].hub /\ q.base = ann[i].base
  <2> HIDE DEF pc
  <2>1. QED
    BY <1>0, <1>1 DEF Writers
<1>3. ann' = [ann EXCEPT ![i] = q]
  BY <1>1 DEF Committed
<1>4. UNCHANGED <<sent, inbox, hubs, reg, sock, setting>> /\ elog' = Append(elog, i) /\ ann[i].pc = "commit"
  BY DEF Committed
<1>5. elog' \in Seq(Items \cup Hosts) /\ Len(elog') = Len(elog) + 1 /\ elog'[Len(elog) + 1] = i
      /\ \A n \in 1..Len(elog) : elog'[n] = elog[n]
  BY <1>4 DEF StreamInv, StreamType
<1>6. Grows
  BY <1>1, <1>4, <1>5, HubRow DEF Grows, StreamInv
<1>7. pc \in {"store", "notify"} /\ (pc = "store" <=> setting.script[i].how = "ws")
  OBVIOUS
<1> HIDE DEF q, pc
<1>8. WriterSound(i)'
  <2>1. ann'[i] = q
    BY <1>1, <1>3
  <2>2. q.n \in 1..Len(elog')
    BY <1>1, <1>2, <1>5
  <2>3. QED
    BY <1>1, <1>2, <1>4, <1>5, <1>7, <2>1, <2>2 DEF WriterSound, Known
<1>9. ann' \in [Items \cup Hosts -> Writers] /\ \A j \in Items \cup Hosts : WriterSound(j)'
  BY <1>2, <1>3, <1>6, <1>8, WriterMoves
<1>10. \A h \in 1..Len(hubs') : HubSound(h)'
  BY <1>4, <1>6, HubsStill DEF StreamInv
<1>11. StreamType'
  BY <1>4, <1>5, <1>9 DEF StreamInv, StreamType
<1>12. QED
  BY <1>4, <1>6, <1>9, <1>10, <1>11, OthersKeep, NoticesKeep DEF StreamInv

LEMMA NotifyKeeps ==
  ASSUME StreamInv, NEW i \in Items \cup Hosts, Notify(i)
  PROVE  StreamInv' /\ \A c \in Sockets : GotGrows(c)
<1> DEFINE pc == IF ann[i].hub = 0 THEN "done" ELSE "store"
           q == [ann[i] EXCEPT !.pc = pc]
<1>1. /\ ann[i] \in Writers /\ ann[i].base \in Int /\ ann[i].hub \in Nat /\ ann[i].n \in Nat /\ WriterSound(i)
      /\ Len(elog) \in Nat /\ Len(hubs) \in Nat /\ ann \in [Items \cup Hosts -> Writers]
  BY WriterIs
<1>2. q \in Writers /\ q.pc = pc /\ q.n = ann[i].n /\ q.hub = ann[i].hub /\ q.base = ann[i].base
  BY <1>1 DEF Writers
<1>3. ann' = [ann EXCEPT ![i] = q]
  BY <1>1 DEF Notify, Step
<1>4. /\ UNCHANGED <<elog, sent, hubs, reg, sock, setting>> /\ ann[i].pc = "notify"
      /\ inbox' = [r \in Hosts |-> IF r = Home(i) THEN inbox[r] ELSE Append(inbox[r], ann[i].n)]
  BY DEF Notify
<1>5. Known(ann[i].n) /\ ann[i].hub <= Len(hubs)
  BY <1>1, <1>4 DEF WriterSound
<1>6. Grows
  BY <1>4, GrowsStill DEF StreamInv
<1>7. pc \in {"done", "store"} /\ (pc = "store" => ann[i].hub \in 1..Len(hubs))
  BY <1>1, <1>5
<1> HIDE DEF q, pc
<1>8. WriterSound(i)'
  <2>1. ann'[i] = q /\ q.n \in 1..Len(elog')
    BY <1>1, <1>2, <1>3, <1>4, <1>5 DEF Known
  <2>2. QED
    BY <1>1, <1>2, <1>4, <1>7, <2>1 DEF WriterSound, Known
<1>9. ann' \in [Items \cup Hosts -> Writers] /\ \A j \in Items \cup Hosts : WriterSound(j)'
  BY <1>2, <1>3, <1>6, <1>8, WriterMoves
<1>10. \A h \in 1..Len(hubs') : HubSound(h)'
  BY <1>4, <1>6, HubsStill DEF StreamInv
<1>11. inbox' \in [Hosts -> Seq(Nat)]
  BY <1>1, <1>4 DEF StreamInv, StreamType
<1>12. StreamType'
  BY <1>4, <1>9, <1>11 DEF StreamInv, StreamType
<1>13. \A r \in Hosts : NoticeSound(r)'
  <2> TAKE r \in Hosts
  <2>1. NoticeSound(r) /\ inbox[r] \in Seq(Nat)
    BY DEF StreamInv, StreamType
  <2>2. inbox'[r] = inbox[r] \/ inbox'[r] = Append(inbox[r], ann[i].n)
    BY <1>4
  <2>0. Contents(inbox'[r]) \subseteq Contents(inbox[r]) \cup {ann[i].n}
    <3>1. Contents(Append(inbox[r], ann[i].n)) = Contents(inbox[r]) \cup {ann[i].n}
      BY <1>1, <2>1, AppendContents
    <3>2. QED
      BY <2>2, <3>1
  <2>3. \A k \in DOMAIN inbox'[r] : Known(inbox'[r][k])
    BY <1>5, <2>0, <2>1 DEF NoticeSound, Contents
  <2>4. QED
    BY <1>4, <2>1, <2>3 DEF NoticeSound, Known
<1>14. QED
  BY <1>4, <1>6, <1>9, <1>10, <1>12, <1>13, OthersKeep DEF StreamInv

LEMMA NotifyPlanKeeps ==
  ASSUME StreamInv, NEW i \in Items \cup Hosts, NotifyPlan(i)
  PROVE  StreamInv' /\ \A c \in Sockets : GotGrows(c)
<1> DEFINE q == [ann[i] EXCEPT !.pc = "tell"]
<1>1. /\ ann[i] \in Writers /\ WriterSound(i) /\ ann \in [Items \cup Hosts -> Writers]
  BY WriterIs
<1>2. q \in Writers /\ q.pc = "tell" /\ q.n = ann[i].n /\ q.hub = ann[i].hub /\ q.base = ann[i].base
  BY <1>1 DEF Writers
<1>3. ann' = [ann EXCEPT ![i] = q]
  BY <1>1 DEF NotifyPlan, Step
<1>4. /\ UNCHANGED <<elog, sent, inbox, hubs, reg, sock, setting>> /\ ann[i].pc = "notify"
      /\ setting.script[i].how = "task"
  BY DEF NotifyPlan
<1> HIDE DEF q
<1>5. WriterSound(i)'
  <2>1. ann'[i] = q
    BY <1>1, <1>3
  <2>2. QED
    BY <1>1, <1>2, <1>4, <2>1 DEF WriterSound, Known
<1>6. QED
  BY <1>2, <1>3, <1>4, <1>5, WriterStep

\* A snapshot that is stored, by a writer or a listener.
LEMMA StoreStep ==
  ASSUME StreamInv, NEW i \in Items \cup Hosts, NEW q \in Writers, ann' = [ann EXCEPT ![i] = q], WriterSound(i)',
         NEW h, NEW seq \in Int, seq <= Len(elog), Store(h, seq), UNCHANGED <<elog, sent, inbox, reg, sock, setting>>
  PROVE  StreamInv' /\ \A c \in Sockets : GotGrows(c)
<1>1. Grows /\ hubs' \in Seq(HubRows) /\ \A g \in 1..Len(hubs') : HubSound(g)'
  BY StoreSound DEF StreamInv
<1>2. ann' \in [Items \cup Hosts -> Writers] /\ \A j \in Items \cup Hosts : WriterSound(j)'
  BY <1>1, WriterMoves
<1>3. StreamType'
  BY <1>1, <1>2 DEF StreamInv, StreamType
<1>4. QED
  BY <1>1, <1>2, <1>3, OthersKeep, NoticesKeep DEF StreamInv

LEMMA StoreSnapKeeps ==
  ASSUME StreamInv, NEW i \in Items \cup Hosts, StoreSnap(i)
  PROVE  StreamInv' /\ \A c \in Sockets : GotGrows(c)
<1> DEFINE q == [ann[i] EXCEPT !.pc = "send"]
<1>1. /\ ann[i] \in Writers /\ ann[i].hub \in Nat /\ ann[i].n \in Nat /\ WriterSound(i)
      /\ Len(elog) \in Nat /\ Len(hubs) \in Nat /\ ann \in [Items \cup Hosts -> Writers]
  BY WriterIs
<1>2. q \in Writers /\ q.pc = "send" /\ q.n = ann[i].n /\ q.hub = ann[i].hub /\ q.base = ann[i].base
  BY <1>1 DEF Writers
<1>3. ann' = [ann EXCEPT ![i] = q]
  BY <1>1 DEF StoreSnap, Step
<1>4. UNCHANGED <<elog, sent, inbox, reg, sock, setting>> /\ ann[i].pc = "store" /\ StoreMonotone(ann[i].hub, ann[i].n)
  BY DEF StoreSnap
<1>5. ann'[i] = q
  BY <1>1, <1>3
<1>6. Known(ann[i].n) /\ ann[i].hub \in 1..Len(hubs) /\ ann[i].n <= Len(elog)
  BY <1>1, <1>4 DEF WriterSound, Known
<1> HIDE DEF q
<1>7. CASE hubs[ann[i].hub].live > ann[i].n
  <2>1. UNCHANGED hubs
    BY <1>4, <1>7 DEF StoreMonotone
  <2>2. hubs[ann[i].hub].live \in Int /\ hubs[ann[i].hub].high \in Int /\ HubSound(ann[i].hub)
    BY <1>6, HubRow DEF StreamInv
  <2>3. ann[i].n <= hubs[ann[i].hub].high
    BY <1>1, <1>7, <2>2 DEF HubSound
  <2>4. WriterSound(i)'
    BY <1>1, <1>2, <1>4, <1>5, <1>6, <2>1, <2>3 DEF WriterSound, Known
  <2>5. QED
    BY <1>2, <1>3, <1>4, <2>1, <2>4, WriterStep
<1>8. CASE ~(hubs[ann[i].hub].live > ann[i].n)
  <2>1. Store(ann[i].hub, ann[i].n)
    BY <1>4, <1>8 DEF StoreMonotone
  <2>2. Len(hubs') = Len(hubs) /\ ann[i].n <= hubs'[ann[i].hub].high
    BY <1>1, <1>4, <1>6, <2>1, StoreSound DEF StreamInv
  <2>3. WriterSound(i)'
    BY <1>1, <1>2, <1>4, <1>5, <1>6, <2>2 DEF WriterSound, Known
  <2>4. ann[i].n \in Int
    BY <1>1
  <2>5. QED
    BY <1>2, <1>3, <1>4, <1>6, <2>1, <2>3, <2>4, StoreStep
<1>9. QED
  BY <1>7, <1>8

LEMMA KeepKeeps ==
  ASSUME StreamInv, NEW i \in Items \cup Hosts, Keep(i)
  PROVE  StreamInv' /\ \A c \in Sockets : GotGrows(c)
<1> DEFINE q == [ann[i] EXCEPT !.pc = "done"]
<1>1. /\ ann[i] \in Writers /\ ann[i].n \in Nat /\ WriterSound(i) /\ Len(elog) \in Nat
      /\ ann \in [Items \cup Hosts -> Writers]
  BY WriterIs
<1>2. q \in Writers /\ q.pc = "done" /\ q.base = ann[i].base
  BY <1>1 DEF Writers
<1>3. ann' = [ann EXCEPT ![i] = q]
  BY <1>1 DEF Keep, Step
<1>4. UNCHANGED <<elog, sent, inbox, reg, sock, setting>> /\ ann[i].pc = "keep" /\ Store(ann[i].hub, ann[i].n)
  BY DEF Keep
<1> HIDE DEF q
<1>5. ann'[i] = q
  BY <1>1, <1>3
<1>6. ann[i].n \in Int /\ ann[i].n <= Len(elog)
  BY <1>1, <1>4 DEF WriterSound, Known
<1>7. WriterSound(i)'
  BY <1>1, <1>2, <1>4, <1>5 DEF WriterSound
<1>8. QED
  BY <1>2, <1>3, <1>4, <1>6, <1>7, StoreStep

LEMMA WarmSnapKeeps ==
  ASSUME StreamInv, NEW i \in Items \cup Hosts, WarmSnap(i)
  PROVE  StreamInv' /\ \A c \in Sockets : GotGrows(c)
<1> DEFINE q == [ann[i] EXCEPT !.pc = "store"]
<1>1. /\ ann[i] \in Writers /\ ann[i].base \in Int /\ WriterSound(i) /\ Len(elog) \in Nat
      /\ ann \in [Items \cup Hosts -> Writers]
  BY WriterIs
<1>2. q \in Writers /\ q.pc = "store" /\ q.base = ann[i].base /\ q.n = ann[i].n /\ q.hub = ann[i].hub
  BY <1>1 DEF Writers
<1>3. ann' = [ann EXCEPT ![i] = q]
  BY <1>1 DEF WarmSnap, Step
<1>4. UNCHANGED <<elog, sent, inbox, reg, sock, setting>> /\ ann[i].pc = "warm" /\ Store(ann[i].hub, ann[i].base)
  BY DEF WarmSnap
<1> HIDE DEF q
<1>5. ann'[i] = q
  BY <1>1, <1>3
<1>6. ann[i].base <= Len(elog)
  BY <1>1 DEF WriterSound
<1>7. Len(hubs') = Len(hubs)
  BY <1>1, <1>4, <1>6, StoreSound DEF StreamInv
<1>8. WriterSound(i)'
  BY <1>1, <1>2, <1>4, <1>5, <1>7 DEF WriterSound, Known
<1>9. QED
  BY <1>1, <1>2, <1>3, <1>4, <1>6, <1>8, StoreStep

LEMMA DeliverKeeps ==
  ASSUME StreamInv, NEW r \in Hosts, Deliver(r)
  PROVE  StreamInv' /\ \A c \in Sockets : GotGrows(c)
<1> DEFINE n == Head(inbox[r])
           q == IF reg[r] = 0 THEN ann[r]
                ELSE [n |-> n, hub |-> reg[r], base |-> LoadFromDb, pc |-> IF Fresh(reg[r]) THEN "store" ELSE "warm"]
<1>1. /\ ann[r] \in Writers /\ WriterSound(r) /\ Len(elog) \in Nat /\ Len(hubs) \in Nat
      /\ ann \in [Items \cup Hosts -> Writers]
  BY WriterIs
<1>2. /\ inbox \in [Hosts -> Seq(Nat)] /\ inbox[r] \in Seq(Nat) /\ inbox[r] # <<>> /\ reg[r] \in Nat /\ NoticeSound(r)
      /\ UNCHANGED <<elog, sent, hubs, reg, sock, setting>>
      /\ inbox' = [inbox EXCEPT ![r] = Tail(inbox[r])]
  BY DEF Deliver, StreamInv, StreamType
<1>3. n \in Nat /\ n = inbox[r][1] /\ 1 \in DOMAIN inbox[r] /\ Known(n) /\ reg[r] <= Len(hubs)
  BY <1>2 DEF NoticeSound
<1>4. q \in Writers
  BY <1>1, <1>2, <1>3 DEF Writers, LoadFromDb
<1>5. ann' = [ann EXCEPT ![r] = q]
  BY <1>1 DEF Deliver
<1>6. Grows
  BY <1>2, GrowsStill DEF StreamInv
<1>7. reg[r] # 0 => q.pc \in {"store", "warm"} /\ q.n = n /\ q.hub = reg[r] /\ q.base = Len(elog)
  BY DEF LoadFromDb
<1>8. reg[r] = 0 => q = ann[r]
  OBVIOUS
<1> HIDE DEF q, n
<1>9. WriterSound(r)'
  <2>1. ann'[r] = q
    BY <1>1, <1>5
  <2>2. CASE reg[r] = 0
    BY <1>1, <1>6, <1>8, <2>1, <2>2, WriterKeeps DEF StreamInv
  <2>3. CASE reg[r] # 0
    <3>1. n \in 1..Len(elog') /\ reg[r] \in 1..Len(hubs') /\ Len(elog') = Len(elog)
      BY <1>1, <1>2, <1>3, <2>3 DEF Known
    <3>2. QED
      BY <1>1, <1>7, <2>1, <2>3, <3>1 DEF WriterSound, Known
  <2>4. QED
    BY <2>2, <2>3
<1>10. ann' \in [Items \cup Hosts -> Writers] /\ \A j \in Items \cup Hosts : WriterSound(j)'
  BY <1>4, <1>5, <1>6, <1>9, WriterMoves
<1>11. \A h \in 1..Len(hubs') : HubSound(h)'
  BY <1>2, <1>6, HubsStill DEF StreamInv
<1>12. \A g \in Hosts : inbox'[g] = inbox[g] \/ (inbox'[g] = Tail(inbox[g]) /\ inbox[g] # <<>>)
  <2>1. \A g \in Hosts : g # r => inbox'[g] = inbox[g]
    BY <1>2
  <2>2. inbox'[r] = Tail(inbox[r])
    BY <1>2
  <2>3. inbox[r] # <<>>
    BY <1>2
  <2>4. QED
    BY <2>1, <2>2, <2>3
<1>13. \A g \in Hosts : inbox[g] # <<>> => Tail(inbox[g]) \in Seq(Nat) /\ Contents(Tail(inbox[g])) \subseteq Contents(inbox[g])
  BY <1>2, TailContents
<1>14. inbox' \in [Hosts -> Seq(Nat)]
  BY <1>2, <1>12, <1>13
<1>15. StreamType'
  BY <1>2, <1>10, <1>14 DEF StreamInv, StreamType
<1>16. \A g \in Hosts : NoticeSound(g)'
  <2> TAKE g \in Hosts
  <2>1. NoticeSound(g)
    BY DEF StreamInv
  <2>2. Contents(inbox'[g]) \subseteq Contents(inbox[g])
    BY <1>12, <1>13
  <2>3. \A k \in DOMAIN inbox'[g] : Known(inbox'[g][k])
    BY <2>1, <2>2 DEF NoticeSound, Contents
  <2>4. QED
    BY <1>2, <2>1, <2>3 DEF NoticeSound, Known
<1>17. QED
  BY <1>2, <1>6, <1>10, <1>11, <1>15, <1>16, OthersKeep DEF StreamInv

\* What is sent reaches who is subscribed, and is not ahead of the hub's snapshots.
LEMMA SentMore ==
  ASSUME StreamInv, UNCHANGED <<elog, inbox, hubs, reg, setting>>,
         NEW i \in Items \cup Hosts, NEW q \in Writers, ann' = [ann EXCEPT ![i] = q], WriterSound(i)',
         NEW n \in Nat, NEW h, Known(n), sent' = sent \cup {<<n, h>>},
         HowOf(n) # "task" => h \in 1..Len(hubs) /\ n <= hubs[h].high,
         sock' \in [Sockets -> Connections],
         \A c \in Sockets : \/ sock'[c] = sock[c]
                            \/ sock'[c] = [sock[c] EXCEPT !.ring = Append(@, n)]
                            \/ sock'[c] = [sock[c] EXCEPT !.got = Append(@, n)],
         \A c \in Sockets : KindOf(n) = "open" /\ HowOf(n) # "task" /\ Subscribed(c, h)
                             => sock'[c] = [sock[c] EXCEPT !.ring = Append(@, n)]
  PROVE  StreamInv' /\ \A c \in Sockets : GotGrows(c)
<1>1. Grows
  BY GrowsStill DEF StreamInv
<1>2. ann' \in [Items \cup Hosts -> Writers] /\ \A j \in Items \cup Hosts : WriterSound(j)'
  BY <1>1, WriterMoves
<1>3. \A g \in 1..Len(hubs') : HubSound(g)'
  BY <1>1, HubsStill DEF StreamInv
<1>4. StreamType'
  BY <1>2 DEF StreamInv, StreamType
<1>5. SentSound'
  <2> SUFFICES ASSUME NEW m, NEW g, <<m, g>> \in sent'
               PROVE  Known(m)' /\ (HowOf(m)' # "task" => g \in 1..Len(hubs') /\ m <= hubs'[g].high)
    BY DEF SentSound
  <2>1. Known(m) /\ (HowOf(m) # "task" => g \in 1..Len(hubs) /\ m <= hubs[g].high)
    BY DEF StreamInv, SentSound
  <2>2. QED
    BY <2>1 DEF Known, HowOf
<1>6. ASSUME NEW c \in Sockets
      PROVE  SockSound(c)' /\ GotGrows(c)
  <2>1. /\ sock[c] \in Connections /\ sock[c].ring \in Seq(Nat) /\ sock[c].got \in Seq(Nat) /\ SockSound(c)
        /\ sock[c].base \in Int
    BY DEF StreamInv, StreamType, Connections
  <2>2. /\ sock'[c].pc = sock[c].pc /\ sock'[c].hub = sock[c].hub /\ sock'[c].base = sock[c].base
        /\ sock'[c].stale = sock[c].stale /\ sock'[c].held = sock[c].held
        /\ sock'[c].got = sock[c].got \/ sock'[c].got = Append(sock[c].got, n)
        /\ sock'[c].ring = sock[c].ring \/ sock'[c].ring = Append(sock[c].ring, n)
    BY <2>1 DEF Connections
  <2>3. /\ Contents(Append(sock[c].ring, n)) = Contents(sock[c].ring) \cup {n}
        /\ Contents(Append(sock[c].got, n)) = Contents(sock[c].got) \cup {n}
    BY <2>1, AppendSeq
  <2>4. Reached(c) \subseteq Reached(c)' /\ Reached(c)' \subseteq Reached(c) \cup {n}
    BY <2>2, <2>3 DEF Reached
  <2>5. \A m \in Reached(c)' : Known(m)'
    BY <2>1, <2>4 DEF SockSound, Known
  <2>6. ASSUME sock[c].pc \in {"cold", "held", "on"}, ~sock[c].stale
        PROVE  Has(c)'
    <3> SUFFICES ASSUME NEW m, m > sock[c].base, <<m, sock[c].hub>> \in sent', KindOf(m)' = "open", HowOf(m)' # "task"
                 PROVE  m \in Reached(c)'
      BY <2>2 DEF Has
    <3>1. KindOf(m) = "open" /\ HowOf(m) # "task"
      BY DEF KindOf, HowOf
    <3>2. CASE <<m, sock[c].hub>> \in sent
      BY <2>1, <2>4, <2>6, <3>1, <3>2 DEF SockSound, Has
    <3>3. CASE m = n /\ sock[c].hub = h
      <4>1. Subscribed(c, h)
        BY <2>6, <3>3 DEF Subscribed
      <4>2. sock'[c].ring = Append(sock[c].ring, n)
        BY <2>1, <3>1, <3>3, <4>1 DEF Connections
      <4>3. QED
        BY <2>3, <3>3, <4>2 DEF Reached
    <3>4. QED
      BY <3>2, <3>3
  <2>7. GotGrows(c)
    BY <2>1, <2>2 DEF GotGrows
  <2>8. SockSound(c)'
    BY <2>1, <2>2, <2>5, <2>6 DEF SockSound
  <2>9. QED
    BY <2>7, <2>8
<1>7. QED
  BY <1>1, <1>2, <1>3, <1>4, <1>5, <1>6, NoticesKeep DEF StreamInv

LEMMA SockAppend ==
  ASSUME StreamInv, NEW c \in Sockets, NEW n \in Nat
  PROVE  [sock[c] EXCEPT !.ring = Append(@, n)] \in Connections /\ [sock[c] EXCEPT !.got = Append(@, n)] \in Connections
         /\ sock[c] \in Connections
<1>1. sock[c] \in Connections
  BY DEF StreamInv, StreamType
<1>2. Append(sock[c].ring, n) \in Seq(Nat) /\ Append(sock[c].got, n) \in Seq(Nat)
  BY <1>1 DEF Connections
<1>3. QED
  BY <1>1, <1>2 DEF Connections

LEMMA SendKeeps ==
  ASSUME StreamInv, NEW i \in Items \cup Hosts, Send(i)
  PROVE  StreamInv' /\ \A c \in Sockets : GotGrows(c)
<1> DEFINE n == ann[i].n
           h == ann[i].hub
           q == IF i \in Hosts THEN Rest ELSE [ann[i] EXCEPT !.pc = "done"]
<1>1. /\ ann[i] \in Writers /\ n \in Nat /\ h \in Nat /\ WriterSound(i) /\ Len(elog) \in Nat
      /\ ann \in [Items \cup Hosts -> Writers] /\ ann[i].pc = "send"
  BY WriterIs DEF Send
<1>2. q \in Writers /\ q.pc \in {"rest", "done"} /\ q.base <= Len(elog)
  <2>1. CASE i \in Hosts
    BY <1>1, <2>1 DEF Rest, Cold, Writers
  <2>2. CASE i \notin Hosts
    BY <1>1, <2>2 DEF Writers, WriterSound
  <2>3. QED
    BY <2>1, <2>2
<1>3. ann' = [ann EXCEPT ![i] = q]
  BY <1>1 DEF Send, Step
<1>4. UNCHANGED <<elog, inbox, hubs, reg, setting>> /\ sent' = sent \cup {<<n, h>>}
  BY DEF Send
<1>5. sock' = [c \in Sockets |->
         IF KindOf(n) = "open" /\ Subscribed(c, h)
         THEN [sock[c] EXCEPT !.ring = Append(@, n)]
         ELSE IF KindOf(n) # "open" /\ c \in hubs[h].senders /\ Sees(c, n)
              THEN [sock[c] EXCEPT !.got = Append(@, n)]
              ELSE sock[c]]
  BY DEF Send
<1>6. Known(n) /\ h \in 1..Len(hubs) /\ n <= hubs[h].high
  BY <1>1 DEF WriterSound
<1>7. WriterSound(i)'
  <2>1. ann'[i] = q
    BY <1>1, <1>3
  <2> HIDE DEF q
  <2>2. QED
    BY <1>2, <1>4, <2>1 DEF WriterSound
<1> HIDE DEF q, n, h
<1>8. \A c \in Sockets : \/ sock'[c] = sock[c]
                         \/ sock'[c] = [sock[c] EXCEPT !.ring = Append(@, n)]
                         \/ sock'[c] = [sock[c] EXCEPT !.got = Append(@, n)]
  BY <1>5
<1>9. \A c \in Sockets : KindOf(n) = "open" /\ HowOf(n) # "task" /\ Subscribed(c, h)
                          => sock'[c] = [sock[c] EXCEPT !.ring = Append(@, n)]
  BY <1>5
<1>10. sock' \in [Sockets -> Connections]
  BY <1>1, <1>5, <1>8, SockAppend
<1>11. QED
  BY <1>1, <1>2, <1>3, <1>4, <1>6, <1>7, <1>8, <1>9, <1>10, SentMore

LEMMA TellKeeps ==
  ASSUME StreamInv, NEW i \in Items \cup Hosts, Tell(i)
  PROVE  StreamInv' /\ \A c \in Sockets : GotGrows(c)
<1> DEFINE n == ann[i].n
           h == ann[i].hub
           q == [ann[i] EXCEPT !.pc = "keep"]
<1>1. /\ ann[i] \in Writers /\ n \in Nat /\ h \in Nat /\ WriterSound(i) /\ Len(elog) \in Nat
      /\ ann \in [Items \cup Hosts -> Writers] /\ ann[i].pc = "tell"
  BY WriterIs DEF Tell
<1>2. q \in Writers /\ q.pc = "keep" /\ q.n = n /\ q.base = ann[i].base
  BY <1>1 DEF Writers
<1>3. ann' = [ann EXCEPT ![i] = q]
  BY <1>1 DEF Tell, Step
<1>4. UNCHANGED <<elog, inbox, hubs, reg, setting>> /\ sent' = sent \cup {<<n, h>>}
  BY DEF Tell
<1>5. sock' = [c \in Sockets |-> IF HasMessage(n) /\ Subscribed(c, h)
                                 THEN [sock[c] EXCEPT !.ring = Append(@, n)] ELSE sock[c]]
  BY DEF Tell
<1>6. Known(n) /\ HowOf(n) = "task"
  BY <1>1 DEF WriterSound, HowOf
<1>7. WriterSound(i)'
  <2>1. ann'[i] = q
    BY <1>1, <1>3
  <2> HIDE DEF q
  <2>2. q.n \in 1..Len(elog')
    BY <1>2, <1>4, <1>6 DEF Known
  <2>3. QED
    BY <1>1, <1>2, <1>4, <2>1, <2>2 DEF WriterSound, Known
<1> HIDE DEF q, n, h
<1>8. \A c \in Sockets : \/ sock'[c] = sock[c]
                         \/ sock'[c] = [sock[c] EXCEPT !.ring = Append(@, n)]
                         \/ sock'[c] = [sock[c] EXCEPT !.got = Append(@, n)]
  BY <1>5
<1>9. \A c \in Sockets : KindOf(n) = "open" /\ HowOf(n) # "task" /\ Subscribed(c, h)
                          => sock'[c] = [sock[c] EXCEPT !.ring = Append(@, n)]
  BY <1>6
<1>10. sock' \in [Sockets -> Connections]
  BY <1>1, <1>5, <1>8, SockAppend
<1>11. QED
  BY <1>1, <1>2, <1>3, <1>4, <1>6, <1>7, <1>8, <1>9, <1>10, SentMore

-----------------------------------------------------------------------------
(* The streams: a client. *)

LEMMA SockIs ==
  ASSUME StreamInv, NEW c \in Sockets
  PROVE  /\ sock \in [Sockets -> Connections] /\ sock[c] \in Connections /\ SockSound(c)
         /\ sock[c].hub \in Nat /\ sock[c].base \in Int /\ sock[c].held \in Int /\ sock[c].stale \in BOOLEAN
         /\ sock[c].ring \in Seq(Nat) /\ sock[c].got \in Seq(Nat)
         /\ Len(elog) \in Nat /\ Len(hubs) \in Nat
<1>1. sock \in [Sockets -> Connections] /\ Len(elog) \in Nat /\ Len(hubs) \in Nat
  BY DEF StreamInv, StreamType
<1>2. QED
  BY <1>1 DEF StreamInv, Connections

\* A step of one client, which may have changed the hubs.
LEMMA SockMoves ==
  ASSUME StreamInv, Grows, NEW c \in Sockets, NEW q \in Connections, sock' = [sock EXCEPT ![c] = q],
         UNCHANGED <<elog, ann, sent, inbox, setting>>,
         hubs' \in Seq(HubRows), \A h \in 1..Len(hubs') : HubSound(h)',
         reg' \in [Hosts -> Nat], \A r \in Hosts : reg'[r] = reg[r] \/ reg'[r] <= Len(hubs'),
         SockSound(c)', GotGrows(c)
  PROVE  StreamInv' /\ \A d \in Sockets : GotGrows(d)
<1>1. sock' \in [Sockets -> Connections] /\ \A d \in Sockets : d # c => sock'[d] = sock[d]
  BY SockIs
<1>2. \A d \in Sockets : SockSound(d)' /\ GotGrows(d)
  <2>1. \A d \in Sockets : d # c => SockSound(d)' /\ GotGrows(d)
    BY <1>1, SockStill, GotStill DEF StreamInv
  <2>2. QED
    BY <2>1
<1>3. StreamType'
  BY <1>1 DEF StreamInv, StreamType
<1>4. \A i \in Items \cup Hosts : WriterSound(i)'
  BY WriterKeeps DEF StreamInv
<1>5. SentSound'
  BY SentKeeps DEF StreamInv
<1>6. \A r \in Hosts : NoticeSound(r)'
  <2> TAKE r \in Hosts
  <2>1. NoticeSound(r) /\ reg[r] \in Nat /\ reg'[r] \in Nat
    BY DEF StreamInv, StreamType
  <2>2. reg'[r] <= Len(hubs')
    BY <2>1 DEF NoticeSound, Grows
  <2>3. \A k \in DOMAIN inbox[r] : inbox[r][k] \in 1..Len(elog)
    BY <2>1 DEF NoticeSound, Known
  <2>4. QED
    BY <2>2, <2>3 DEF NoticeSound, Known
<1>7. QED
  BY <1>2, <1>3, <1>4, <1>5, <1>6 DEF StreamInv

\* A step of one client that leaves the hubs alone.
LEMMA SockStep ==
  ASSUME StreamInv, NEW c \in Sockets, NEW q \in Connections, sock' = [sock EXCEPT ![c] = q],
         UNCHANGED <<elog, ann, sent, inbox, hubs, reg, setting>>, SockSound(c)', GotGrows(c)
  PROVE  StreamInv' /\ \A d \in Sockets : GotGrows(d)
<1>1. Grows
  BY GrowsStill DEF StreamInv
<1>2. \A h \in 1..Len(hubs') : HubSound(h)'
  BY <1>1, HubsStill DEF StreamInv
<1>3. hubs' \in Seq(HubRows) /\ reg' \in [Hosts -> Nat]
  BY DEF StreamInv, StreamType
<1>4. QED
  BY <1>1, <1>2, <1>3, SockMoves

\* The hubs with other senders.
LEMMA SendersChange ==
  ASSUME StreamInv, NEW h \in 1..Len(hubs), NEW S \in SUBSET Sockets, hubs' = [hubs EXCEPT ![h].senders = S],
         UNCHANGED <<elog, setting>>
  PROVE  Grows /\ hubs' \in Seq(HubRows) /\ Len(hubs') = Len(hubs) /\ \A g \in 1..Len(hubs') : HubSound(g)'
<1> DEFINE q == [hubs[h] EXCEPT !.senders = S]
<1>1. hubs \in Seq(HubRows) /\ Len(hubs) \in Nat /\ Len(elog) \in Nat /\ StreamType
  BY DEF StreamInv, StreamType
<1>2. hubs[h] \in HubRows
  BY <1>1, HubRow
<1>3. q \in HubRows /\ q.live = hubs[h].live /\ q.high = hubs[h].high
  BY <1>2 DEF HubRows
<1>4. hubs' = [hubs EXCEPT ![h] = q]
  OBVIOUS
<1> HIDE DEF q
<1>5. hubs' \in Seq(HubRows) /\ Len(hubs') = Len(hubs) /\ \A g \in 1..Len(hubs) : g # h => hubs'[g] = hubs[g]
      /\ hubs'[h] = q
  BY <1>1, <1>3, <1>4
<1>6. \A g \in 1..Len(hubs) : hubs'[g].live = hubs[g].live /\ hubs'[g].high = hubs[g].high
  BY <1>3, <1>5
<1>7. \A g \in 1..Len(hubs) : hubs[g].live \in Int /\ hubs[g].high \in Int /\ HubSound(g)
  BY <1>1, HubRow DEF StreamInv
<1>8. QED
  BY <1>1, <1>5, <1>6, <1>7 DEF Grows, HubSound

LEMMA GetHubKeeps ==
  ASSUME StreamInv, NEW c \in Sockets, NEW r \in Hosts, GetHub(c, r)
  PROVE  StreamInv' /\ \A d \in Sockets : GotGrows(d)
<1> DEFINE q == [sock[c] EXCEPT !.pc = "hub", !.at = r, !.hub = reg'[r]]
<1>1. /\ sock \in [Sockets -> Connections] /\ sock[c] \in Connections /\ SockSound(c)
      /\ Len(elog) \in Nat /\ Len(hubs) \in Nat
  BY SockIs
<1>2. /\ sock[c].pc = "off" /\ UNCHANGED <<elog, ann, sent, inbox, setting>> /\ sock' = [sock EXCEPT ![c] = q]
      /\ reg \in [Hosts -> Nat] /\ hubs \in Seq(HubRows)
  BY DEF GetHub, Conn, StreamInv, StreamType
<1>3. /\ Grows /\ hubs' \in Seq(HubRows) /\ reg' \in [Hosts -> Nat] /\ reg'[r] \in 1..Len(hubs')
      /\ \A h \in 1..Len(hubs') : HubSound(h)'
      /\ \A g \in Hosts : reg'[g] = reg[g] \/ reg'[g] <= Len(hubs')
  <2>1. CASE reg[r] = 0
    <3> DEFINE new == [live |-> Cold, high |-> -1, senders |-> {}]
    <3>1. new \in HubRows /\ new.live = -1 /\ new.high = -1
      BY DEF HubRows, Cold
    <3>2. hubs' = Append(hubs, new) /\ reg' = [reg EXCEPT ![r] = Len(hubs) + 1]
      BY <2>1 DEF GetHub
    <3> HIDE DEF new
    <3>3. /\ hubs' \in Seq(HubRows) /\ Len(hubs') = Len(hubs) + 1 /\ hubs'[Len(hubs) + 1] = new
          /\ \A h \in 1..Len(hubs) : hubs'[h] = hubs[h]
      BY <1>2, <3>1, <3>2
    <3>4. \A h \in 1..Len(hubs) : hubs[h].live \in Int /\ hubs[h].high \in Int /\ HubSound(h)
      BY HubRow DEF StreamInv
    <3>5. \A h \in 1..Len(hubs') : HubSound(h)'
      BY <1>1, <1>2, <3>1, <3>3, <3>4 DEF HubSound
    <3>6. Grows
      BY <1>1, <1>2, <3>3, <3>4 DEF Grows
    <3>7. QED
      BY <1>1, <1>2, <3>2, <3>3, <3>5, <3>6
  <2>2. CASE reg[r] # 0
    <3>1. UNCHANGED <<hubs, reg>>
      BY <2>2 DEF GetHub
    <3>2. Grows
      BY <1>2, <3>1, GrowsStill DEF StreamInv
    <3>3. NoticeSound(r)
      BY DEF StreamInv
    <3>4. QED
      BY <1>1, <1>2, <2>2, <3>1, <3>2, <3>3, HubsStill DEF StreamInv, NoticeSound
  <2>3. QED
    BY <2>1, <2>2
<1>4. /\ q \in Connections /\ q.pc = "hub" /\ q.hub = reg'[r] /\ q.base = sock[c].base /\ q.held = sock[c].held
      /\ q.ring = sock[c].ring /\ q.got = sock[c].got
  <2>1. reg'[r] \in Nat
    BY <1>3
  <2>2. QED
    BY <1>1, <2>1 DEF Connections
<1> HIDE DEF q
<1>5. sock'[c] = q
  BY <1>1, <1>2
<1>6. SockSound(c)'
  <2>1. Reached(c)' = Reached(c)
    BY <1>4, <1>5 DEF Reached
  <2>2. QED
    BY <1>1, <1>2, <1>3, <1>4, <1>5, <2>1 DEF SockSound, Known
<1>7. GotGrows(c)
  BY <1>2 DEF GotGrows
<1>8. QED
  BY <1>2, <1>3, <1>4, <1>6, <1>7, SockMoves

LEMMA SubscribeKeeps ==
  ASSUME StreamInv, NEW c \in Sockets, Subscribe(c)
  PROVE  StreamInv' /\ \A d \in Sockets : GotGrows(d)
<1> DEFINE q == [sock[c] EXCEPT !.pc = "sub"]
           S == hubs[sock[c].hub].senders \cup {c}
<1>1. /\ sock \in [Sockets -> Connections] /\ sock[c] \in Connections /\ SockSound(c)
  BY SockIs
<1>2. /\ sock[c].pc = "hub" /\ UNCHANGED <<elog, ann, sent, inbox, reg, setting>> /\ sock' = [sock EXCEPT ![c] = q]
      /\ hubs' = [hubs EXCEPT ![sock[c].hub].senders = S]
  BY DEF Subscribe, Conn
<1>3. sock[c].hub \in 1..Len(hubs)
  BY <1>1, <1>2 DEF SockSound
<1>4. S \in SUBSET Sockets
  BY <1>3, HubRow DEF StreamInv, HubRows
<1> HIDE DEF S
<1>5. Grows /\ hubs' \in Seq(HubRows) /\ Len(hubs') = Len(hubs) /\ \A g \in 1..Len(hubs') : HubSound(g)'
  BY <1>2, <1>3, <1>4, SendersChange
<1>6. /\ q \in Connections /\ q.pc = "sub" /\ q.hub = sock[c].hub /\ q.base = sock[c].base /\ q.held = sock[c].held
      /\ q.ring = sock[c].ring /\ q.got = sock[c].got
  BY <1>1 DEF Connections
<1> HIDE DEF q
<1>7. sock'[c] = q
  BY <1>1, <1>2
<1>8. SockSound(c)'
  <2>1. Reached(c)' = Reached(c)
    BY <1>6, <1>7 DEF Reached
  <2>2. QED
    BY <1>1, <1>2, <1>3, <1>5, <1>6, <1>7, <2>1 DEF SockSound, Known
<1>9. GotGrows(c)
  BY <1>2 DEF GotGrows
<1>10. reg' \in [Hosts -> Nat]
  BY <1>2 DEF StreamInv, StreamType
<1>11. QED
  BY <1>2, <1>5, <1>6, <1>8, <1>9, <1>10, SockMoves

\* Hot or cold, nothing sent so far is above what the client is given.
LEMMA ReadSnapshotKeeps ==
  ASSUME StreamInv, NEW c \in Sockets, ReadSnapshot(c)
  PROVE  StreamInv' /\ \A d \in Sockets : GotGrows(d)
<1> DEFINE h == sock[c].hub
           stale == hubs[h].live < hubs[h].high
           q == IF Fresh(h) THEN [sock[c] EXCEPT !.pc = "held", !.base = hubs[h].live, !.stale = stale]
                ELSE [sock[c] EXCEPT !.pc = "cold", !.base = LoadFromDb]
<1>1. /\ sock \in [Sockets -> Connections] /\ sock[c] \in Connections /\ SockSound(c) /\ Len(elog) \in Nat
  BY SockIs
<1>2. /\ sock[c].pc = "sub" /\ UNCHANGED <<elog, ann, sent, inbox, hubs, reg, setting>> /\ sock' = [sock EXCEPT ![c] = q]
  BY DEF ReadSnapshot, Conn, server
<1>3. h \in 1..Len(hubs)
  BY <1>1, <1>2 DEF SockSound
<1>4. hubs[h].live \in Int /\ hubs[h].high \in Int /\ HubSound(h)
  BY <1>3, HubRow DEF StreamInv
<1>5. /\ q \in Connections /\ q.pc \in {"held", "cold"} /\ q.hub = h /\ q.base <= Len(elog) /\ q.held = sock[c].held
      /\ q.ring = sock[c].ring /\ q.got = sock[c].got
      /\ ~q.stale => q.base = Len(elog) \/ q.base >= hubs[h].high
  <2>1. CASE Fresh(h)
    <3>1. q = [sock[c] EXCEPT !.pc = "held", !.base = hubs[h].live, !.stale = stale]
      BY <2>1
    <3>2. stale \in BOOLEAN /\ (stale <=> hubs[h].live < hubs[h].high)
      OBVIOUS
    <3> HIDE DEF q, stale, h
    <3>3. q \in Connections /\ q.pc = "held" /\ q.base = hubs[h].live /\ q.stale = stale /\ q.held = sock[c].held
          /\ q.ring = sock[c].ring /\ q.got = sock[c].got /\ q.hub = sock[c].hub
      BY <1>1, <1>4, <3>1, <3>2 DEF Connections
    <3>4. QED
      BY <1>1, <1>4, <3>2, <3>3 DEF HubSound, h
  <2>2. CASE ~Fresh(h)
    <3>0. LoadFromDb \in Int /\ LoadFromDb = Len(elog)
      BY <1>1 DEF LoadFromDb
    <3>1. q = [sock[c] EXCEPT !.pc = "cold", !.base = LoadFromDb]
      BY <2>2
    <3> HIDE DEF q, h, stale
    <3>2. /\ q \in Connections /\ q.pc = "cold" /\ q.hub = sock[c].hub /\ q.base = LoadFromDb
          /\ q.held = sock[c].held /\ q.ring = sock[c].ring /\ q.got = sock[c].got
      BY <1>1, <3>0, <3>1 DEF Connections
    <3>3. QED
      BY <1>1, <3>0, <3>2 DEF h
  <2>3. QED
    BY <2>1, <2>2
<1> HIDE DEF q
<1>6. sock'[c] = q
  BY <1>1, <1>2
<1>7. Reached(c)' = Reached(c)
  BY <1>5, <1>6 DEF Reached
<1>8. ~q.stale => Has(c)'
  <2> SUFFICES ASSUME ~q.stale, NEW n, n > q.base, <<n, h>> \in sent, HowOf(n)' # "task"
               PROVE  FALSE
    BY <1>2, <1>5, <1>6 DEF Has
  <2>1. Known(n) /\ n <= hubs[h].high
    BY <1>2 DEF StreamInv, SentSound, HowOf
  <2>2. n \in Int /\ n <= Len(elog) /\ q.base \in Int
    BY <1>1, <1>5, <2>1 DEF Known, Connections
  <2>3. QED
    BY <1>1, <1>4, <1>5, <2>1, <2>2
<1>9. SockSound(c)'
  BY <1>1, <1>2, <1>3, <1>5, <1>6, <1>7, <1>8 DEF SockSound, Known
<1>10. GotGrows(c)
  BY <1>2 DEF GotGrows
<1>11. QED
  BY <1>2, <1>5, <1>9, <1>10, SockStep

\* A client's own store leaves what it was shown as it was.
LEMMA StoreColdKeeps ==
  ASSUME StreamInv, NEW c \in Sockets, StoreCold(c)
  PROVE  StreamInv' /\ \A d \in Sockets : GotGrows(d)
<1> DEFINE q == [sock[c] EXCEPT !.pc = "held"]
<1>1. /\ sock \in [Sockets -> Connections] /\ sock[c] \in Connections /\ SockSound(c) /\ sock[c].base \in Int
  BY SockIs
<1>2. /\ sock[c].pc = "cold" /\ UNCHANGED <<elog, ann, sent, inbox, reg, setting>> /\ sock' = [sock EXCEPT ![c] = q]
      /\ Store(sock[c].hub, sock[c].base)
  BY DEF StoreCold, Conn
<1>3. sock[c].base <= Len(elog)
  BY <1>1 DEF SockSound
<1>4. Grows /\ hubs' \in Seq(HubRows) /\ \A g \in 1..Len(hubs') : HubSound(g)'
  BY <1>1, <1>2, <1>3, StoreSound DEF StreamInv
<1>5. /\ q \in Connections /\ q.pc = "held" /\ q.hub = sock[c].hub /\ q.base = sock[c].base /\ q.held = sock[c].held
      /\ q.stale = sock[c].stale /\ q.ring = sock[c].ring /\ q.got = sock[c].got
  BY <1>1 DEF Connections
<1> HIDE DEF q
<1>6. sock'[c] = q
  BY <1>1, <1>2
<1>7. Reached(c)' = Reached(c)
  BY <1>5, <1>6 DEF Reached
<1>8. SockSound(c)'
  BY <1>1, <1>2, <1>4, <1>5, <1>6, <1>7, SockKeeps DEF StreamInv
<1>9. GotGrows(c)
  BY <1>2 DEF GotGrows
<1>10. reg' \in [Hosts -> Nat]
  BY <1>2 DEF StreamInv, StreamType
<1>11. QED
  BY <1>2, <1>4, <1>5, <1>8, <1>9, <1>10, SockMoves

LEMMA PresenceReadKeeps ==
  ASSUME StreamInv, NEW c \in Sockets, PresenceRead(c)
  PROVE  StreamInv' /\ \A d \in Sockets : GotGrows(d)
<1> DEFINE live == hubs[sock[c].hub].live
           q == [sock[c] EXCEPT !.held = live]
<1>1. /\ sock \in [Sockets -> Connections] /\ sock[c] \in Connections /\ SockSound(c) /\ Len(elog) \in Nat
  BY SockIs
<1>2. /\ sock[c].pc \in {"held", "bye"} /\ UNCHANGED <<elog, ann, sent, inbox, hubs, reg, setting>>
      /\ sock' = [sock EXCEPT ![c] = q]
  BY DEF PresenceRead, Conn, server
<1>3. sock[c].hub \in 1..Len(hubs)
  BY <1>1, <1>2 DEF SockSound
<1>4. live \in Int /\ live <= Len(elog)
  <2>1. hubs[sock[c].hub].live \in Int /\ hubs[sock[c].hub].high \in Int /\ HubSound(sock[c].hub)
    BY <1>3, HubRow DEF StreamInv
  <2>2. QED
    BY <1>1, <2>1 DEF HubSound
<1> HIDE DEF live
<1>5. /\ q \in Connections /\ q.pc = sock[c].pc /\ q.hub = sock[c].hub /\ q.base = sock[c].base /\ q.held = live
      /\ q.stale = sock[c].stale /\ q.ring = sock[c].ring /\ q.got = sock[c].got
  BY <1>1, <1>4 DEF Connections
<1> HIDE DEF q
<1>6. sock'[c] = q
  BY <1>1, <1>2
<1>7. Reached(c)' = Reached(c)
  BY <1>5, <1>6 DEF Reached
<1>8. Grows
  BY <1>2, GrowsStill DEF StreamInv
<1>9. SockSound(c)'
  BY <1>1, <1>2, <1>4, <1>5, <1>6, <1>7, <1>8, SockKeeps DEF StreamInv
<1>10. GotGrows(c)
  BY <1>5, <1>6, GotStill DEF StreamInv
<1>11. QED
  BY <1>2, <1>5, <1>9, <1>10, SockStep

LEMMA PresenceStoreKeeps ==
  ASSUME StreamInv, NEW c \in Sockets, PresenceStore(c)
  PROVE  StreamInv' /\ \A d \in Sockets : GotGrows(d)
<1> DEFINE pc == IF sock[c].pc = "held" THEN "on" ELSE "last"
           q == [sock[c] EXCEPT !.held = Cold, !.pc = pc]
<1>1. /\ sock \in [Sockets -> Connections] /\ sock[c] \in Connections /\ SockSound(c) /\ sock[c].held \in Int
      /\ Len(elog) \in Nat
  BY SockIs
<1>2. /\ sock[c].pc \in {"held", "bye"} /\ UNCHANGED <<elog, ann, sent, inbox, reg, setting>>
      /\ sock' = [sock EXCEPT ![c] = q] /\ Store(sock[c].hub, sock[c].held)
  BY DEF PresenceStore, Conn
<1>3. sock[c].held <= Len(elog)
  BY <1>1 DEF SockSound
<1>4. Grows /\ hubs' \in Seq(HubRows) /\ \A g \in 1..Len(hubs') : HubSound(g)'
  BY <1>1, <1>2, <1>3, StoreSound DEF StreamInv
<1>5. pc \in {"on", "last"} /\ (pc = "on" => sock[c].pc = "held") /\ Cold = -1 /\ Cold \in Int
  BY DEF Cold
<1> HIDE DEF pc
<1>6. /\ q \in Connections /\ q.pc = pc /\ q.hub = sock[c].hub /\ q.base = sock[c].base /\ q.held = Cold
      /\ q.stale = sock[c].stale /\ q.ring = sock[c].ring /\ q.got = sock[c].got
  BY <1>1, <1>5 DEF Connections
<1> HIDE DEF q
<1>7. sock'[c] = q
  BY <1>1, <1>2
<1>8. Reached(c)' = Reached(c)
  BY <1>6, <1>7 DEF Reached
<1>9. q.held <= Len(elog')
  BY <1>1, <1>2, <1>5, <1>6
<1>10. SockSound(c)'
  BY <1>1, <1>2, <1>4, <1>5, <1>6, <1>7, <1>8, <1>9, SockKeeps DEF StreamInv
<1>11. GotGrows(c)
  BY <1>5, <1>6, <1>7, GotStill DEF StreamInv
<1>12. reg' \in [Hosts -> Nat]
  BY <1>2 DEF StreamInv, StreamType
<1>13. QED
  BY <1>2, <1>4, <1>6, <1>10, <1>11, <1>12, SockMoves

LEMMA ForwardKeeps ==
  ASSUME StreamInv, NEW c \in Sockets, Forward(c)
  PROVE  StreamInv' /\ \A d \in Sockets : GotGrows(d)
<1> DEFINE q == IF Len(sock[c].ring) > BroadcastCap THEN [sock[c] EXCEPT !.lost = TRUE]
                ELSE [sock[c] EXCEPT !.ring = Tail(@), !.got = Append(@, Head(sock[c].ring))]
<1>1. /\ sock \in [Sockets -> Connections] /\ sock[c] \in Connections /\ SockSound(c)
      /\ sock[c].ring \in Seq(Nat) /\ sock[c].got \in Seq(Nat)
  BY SockIs
<1>2. /\ sock[c].pc \in {"held", "on"} /\ sock[c].ring # <<>>
      /\ UNCHANGED <<elog, ann, sent, inbox, hubs, reg, setting>> /\ sock' = [sock EXCEPT ![c] = q]
  BY DEF Forward, Conn, server
<1>3. /\ Contents(Tail(sock[c].ring)) \cup {Head(sock[c].ring)} = Contents(sock[c].ring)
      /\ Head(sock[c].ring) \in Nat /\ Tail(sock[c].ring) \in Seq(Nat)
  BY <1>1, <1>2, TailContents
<1>4. /\ Contents(Append(sock[c].got, Head(sock[c].ring))) = Contents(sock[c].got) \cup {Head(sock[c].ring)}
      /\ Append(sock[c].got, Head(sock[c].ring)) \in Seq(Nat)
  BY <1>1, <1>3, AppendSeq
<1>5. /\ q \in Connections /\ q.pc = sock[c].pc /\ q.hub = sock[c].hub /\ q.base = sock[c].base /\ q.held = sock[c].held
      /\ q.stale = sock[c].stale
      /\ \/ q.ring = sock[c].ring /\ q.got = sock[c].got
         \/ q.ring = Tail(sock[c].ring) /\ q.got = Append(sock[c].got, Head(sock[c].ring))
  <2>1. CASE Len(sock[c].ring) > BroadcastCap
    BY <1>1, <2>1 DEF Connections
  <2>2. CASE ~(Len(sock[c].ring) > BroadcastCap)
    <3>1. q = [sock[c] EXCEPT !.ring = Tail(@), !.got = Append(@, Head(sock[c].ring))]
      BY <2>2
    <3> HIDE DEF q
    <3>2. QED
      BY <1>1, <1>3, <1>4, <3>1 DEF Connections
  <2>3. QED
    BY <2>1, <2>2
<1> HIDE DEF q
<1>6. sock'[c] = q
  BY <1>1, <1>2
<1>7. Reached(c)' = Reached(c)
  BY <1>3, <1>4, <1>5, <1>6 DEF Reached
<1>8. Grows
  BY <1>2, GrowsStill DEF StreamInv
<1>9. SockSound(c)'
  BY <1>1, <1>2, <1>5, <1>6, <1>7, <1>8, SockKeeps DEF StreamInv
<1>10. GotGrows(c)
  <2>1. /\ Len(sock[c].got) \in Nat /\ Len(Append(sock[c].got, Head(sock[c].ring))) = Len(sock[c].got) + 1
        /\ \A k \in 1..Len(sock[c].got) : Append(sock[c].got, Head(sock[c].ring))[k] = sock[c].got[k]
    BY <1>1, <1>3
  <2>2. QED
    BY <1>2, <1>5, <1>6, <2>1 DEF GotGrows
<1>11. QED
  BY <1>2, <1>5, <1>9, <1>10, SockStep

LEMMA CloseKeeps ==
  ASSUME StreamInv, NEW c \in Sockets, Close(c)
  PROVE  StreamInv' /\ \A d \in Sockets : GotGrows(d)
<1> DEFINE q == [sock[c] EXCEPT !.pc = "bye", !.ring = <<>>]
           S == hubs[sock[c].hub].senders \ {c}
<1>1. /\ sock \in [Sockets -> Connections] /\ sock[c] \in Connections /\ SockSound(c)
  BY SockIs
<1>2. /\ sock[c].pc = "on" /\ UNCHANGED <<elog, ann, sent, inbox, reg, setting>> /\ sock' = [sock EXCEPT ![c] = q]
      /\ hubs' = [hubs EXCEPT ![sock[c].hub].senders = S]
  BY DEF Close, Conn
<1>3. sock[c].hub \in 1..Len(hubs)
  BY <1>1, <1>2 DEF SockSound
<1>4. S \in SUBSET Sockets
  BY <1>3, HubRow DEF StreamInv, HubRows
<1> HIDE DEF S
<1>5. Grows /\ hubs' \in Seq(HubRows) /\ Len(hubs') = Len(hubs) /\ \A g \in 1..Len(hubs') : HubSound(g)'
  BY <1>2, <1>3, <1>4, SendersChange
<1>6. /\ q \in Connections /\ q.pc = "bye" /\ q.hub = sock[c].hub /\ q.base = sock[c].base /\ q.held = sock[c].held
      /\ q.ring = <<>> /\ q.got = sock[c].got
  <2>1. <<>> \in Seq(Nat)
    OBVIOUS
  <2>2. QED
    BY <1>1, <2>1 DEF Connections
<1> HIDE DEF q
<1>7. sock'[c] = q
  BY <1>1, <1>2
<1>8. SockSound(c)'
  <2>1. Reached(c)' \subseteq Reached(c)
    BY <1>6, <1>7 DEF Reached, Contents
  <2>2. QED
    BY <1>1, <1>2, <1>3, <1>5, <1>6, <1>7, <2>1 DEF SockSound, Known
<1>9. GotGrows(c)
  BY <1>6, <1>7, GotStill DEF StreamInv
<1>10. reg' \in [Hosts -> Nat]
  BY <1>2 DEF StreamInv, StreamType
<1>11. QED
  BY <1>2, <1>5, <1>6, <1>8, <1>9, <1>10, SockMoves

LEMMA DropHubKeeps ==
  ASSUME StreamInv, NEW c \in Sockets, DropHub(c)
  PROVE  StreamInv' /\ \A d \in Sockets : GotGrows(d)
<1> DEFINE q == [sock[c] EXCEPT !.pc = "gone"]
<1>1. /\ sock \in [Sockets -> Connections] /\ sock[c] \in Connections /\ SockSound(c)
  BY SockIs
<1>2. /\ sock[c].pc = "last" /\ UNCHANGED <<elog, ann, sent, inbox, hubs, setting>> /\ sock' = [sock EXCEPT ![c] = q]
      /\ reg' = IF hubs[sock[c].hub].senders = {} THEN [reg EXCEPT ![sock[c].at] = 0] ELSE reg
      /\ reg \in [Hosts -> Nat] /\ hubs \in Seq(HubRows) /\ Len(hubs) \in Nat
  BY DEF DropHub, Conn, StreamInv, StreamType
<1>3. reg' \in [Hosts -> Nat] /\ \A r \in Hosts : reg'[r] = reg[r] \/ reg'[r] <= Len(hubs')
  <2>1. reg' = reg \/ reg' = [reg EXCEPT ![sock[c].at] = 0]
    BY <1>2
  <2>2. \A r \in Hosts : reg'[r] = reg[r] \/ reg'[r] = 0
    BY <1>2, <2>1
  <2>3. reg' \in [Hosts -> Nat]
    BY <1>2, <2>1
  <2>4. QED
    BY <1>2, <2>2, <2>3
<1>4. /\ q \in Connections /\ q.pc = "gone" /\ q.hub = sock[c].hub /\ q.base = sock[c].base /\ q.held = sock[c].held
      /\ q.stale = sock[c].stale /\ q.ring = sock[c].ring /\ q.got = sock[c].got
  BY <1>1 DEF Connections
<1> HIDE DEF q
<1>5. sock'[c] = q
  BY <1>1, <1>2
<1>6. Reached(c)' = Reached(c)
  BY <1>4, <1>5 DEF Reached
<1>7. Grows
  BY <1>2, GrowsStill DEF StreamInv
<1>8. SockSound(c)'
  BY <1>1, <1>2, <1>4, <1>5, <1>6, <1>7, SockKeeps DEF StreamInv
<1>9. GotGrows(c)
  BY <1>4, <1>5, GotStill DEF StreamInv
<1>10. \A h \in 1..Len(hubs') : HubSound(h)'
  BY <1>2, <1>7, HubsStill DEF StreamInv
<1>11. QED
  BY <1>2, <1>3, <1>4, <1>7, <1>8, <1>9, <1>10, SockMoves

LEMMA StreamStarts ==
  ASSUME StreamInit PROVE StreamInv
<1>1. Rest \in Writers /\ Rest.pc = "rest" /\ Rest.base = -1
  BY DEF Rest, Writers, Cold
<1>2. Off \in Connections /\ Off.pc = "off" /\ Off.base = -1 /\ Off.held = -1 /\ Off.ring = <<>> /\ Off.got = <<>>
  BY DEF Off, Connections, Cold
<1>3. /\ elog = <<>> /\ hubs = <<>> /\ sent = {} /\ ann = [i \in Items \cup Hosts |-> Rest]
      /\ inbox = [r \in Hosts |-> <<>>] /\ reg = [r \in Hosts |-> 0] /\ sock = [c \in Sockets |-> Off]
      /\ setting \in Settings
  BY DEF StreamInit
<1>4. StreamType
  BY <1>1, <1>2, <1>3 DEF StreamType
<1>5. SentSound
  BY <1>3 DEF SentSound
<1>6. \A i \in Items \cup Hosts : WriterSound(i)
  BY <1>1, <1>3 DEF WriterSound
<1>7. \A h \in 1..Len(hubs) : HubSound(h)
  BY <1>3
<1>8. \A c \in Sockets : SockSound(c)
  <2> TAKE c \in Sockets
  <2>1. sock[c] = Off /\ Reached(c) = {} /\ Len(elog) = 0
    BY <1>2, <1>3 DEF Reached, Contents
  <2>2. QED
    BY <1>2, <2>1 DEF SockSound
<1>9. \A r \in Hosts : NoticeSound(r)
  BY <1>3 DEF NoticeSound
<1>10. QED
  BY <1>4, <1>5, <1>6, <1>7, <1>8, <1>9 DEF StreamInv

LEMMA StreamSteps ==
  ASSUME StreamInv, [StreamNext]_streamVars
  PROVE  StreamInv' /\ \A c \in Sockets : GotGrows(c)
<1>1. ASSUME NEW k \in DOMAIN setting.script, Take(k)
      PROVE  StreamInv' /\ \A c \in Sockets : GotGrows(c)
  BY <1>1, TakeKeeps
<1>2. ASSUME NEW i \in DOMAIN ann,
             Committed(i) \/ StoreSnap(i) \/ Send(i) \/ Tell(i) \/ Keep(i) \/ Notify(i) \/ NotifyPlan(i) \/ WarmSnap(i)
      PROVE  StreamInv' /\ \A c \in Sockets : GotGrows(c)
  <2>1. i \in Items \cup Hosts
    BY DEF StreamInv, StreamType
  <2>2. QED
    BY <1>2, <2>1, CommittedKeeps, StoreSnapKeeps, SendKeeps, TellKeeps, KeepKeeps, NotifyKeeps, NotifyPlanKeeps, WarmSnapKeeps
<1>3. ASSUME NEW c \in Sockets, \E r \in Hosts : GetHub(c, r)
      PROVE  StreamInv' /\ \A d \in Sockets : GotGrows(d)
  BY <1>3, GetHubKeeps
<1>4. ASSUME NEW c \in Sockets,
             \/ Subscribe(c) \/ ReadSnapshot(c) \/ StoreCold(c) \/ PresenceRead(c) \/ PresenceStore(c)
             \/ Forward(c) \/ Close(c) \/ DropHub(c)
      PROVE  StreamInv' /\ \A d \in Sockets : GotGrows(d)
  BY <1>4, SubscribeKeeps, ReadSnapshotKeeps, StoreColdKeeps, PresenceReadKeeps, PresenceStoreKeeps,
     ForwardKeeps, CloseKeeps, DropHubKeeps
<1>5. CASE Dashboard
  <2>1. UNCHANGED <<server, sock, setting>>
    BY SMTT(40), <1>5 DEF Dashboard, EnterSession, RefreshDetail, Mount, PollLive
  <2>2. QED
    BY <2>1, StillKeeps DEF server
<1>6. CASE Reading
  <2>1. UNCHANGED <<server, sock, setting>>
    BY <1>6 DEF Reading, Begin, Poll, PrintRow, SaveCursor, Quit, Kill
  <2>2. QED
    BY <2>1, StillKeeps DEF server
<1>7. CASE UNCHANGED streamVars
  BY <1>7, StillKeeps DEF streamVars
<1>8. QED
  BY <1>1, <1>2, <1>3, <1>4, <1>5, <1>6, <1>7, DeliverKeeps DEF StreamNext, Writing, Attaching

\* Nothing shown, stored or sent is ahead of the log, and what a hub was sent is not
\* ahead of the hub (Spec => []Inv).
THEOREM StreamInvariance == StreamSpec => []StreamInv
<1>1. StreamInit => StreamInv
  BY StreamStarts
<1>2. StreamInv /\ [StreamNext]_streamVars => StreamInv'
  BY StreamSteps
<1>3. QED
  BY <1>1, <1>2, PTL DEF StreamSpec

\* For any hubs, clients and events: from its snapshot on a socket misses nothing that
\* was broadcast through its own hub (ws.rs: the receiver exists before the snapshot is
\* read, and commit_event stores before it sends), but for the three breaches HandedOver names.
THEOREM AlwaysHandedOver == StreamSpec => []HandedOver
<1>1. StreamInv => HandedOver
  <2> SUFFICES ASSUME StreamInv, NEW c \in Sockets, Attached(c), NEW n \in sock[c].base + 1..Len(elog),
                      <<n, sock[c].hub>> \in sent /\ KindOf(n) = "open" /\ HowOf(n) # "task"
               PROVE  n \in Reached(c)
    BY DEF HandedOver
  <2>1. n > sock[c].base
    BY SockIs
  <2>2. Has(c)
    BY SockIs DEF SockSound, Attached
  <2>3. QED
    BY <2>1, <2>2 DEF Has
<1>2. QED
  BY <1>1, StreamInvariance, PTL

-----------------------------------------------------------------------------
(* The streams: the dashboard and the polling readers. *)

Panes == [pc: {"list", "fetch", "mount", "idle"}, seen: Nat, rows: SUBSET Nat, shown: SUBSET Nat]

\* The rows hold what the frames taken so far were about.
Holds(c, rows) ==
  pane[c].seen > 0 =>
    \A n \in 1..sock[c].base \cup {sock[c].got[k] : k \in 1..(pane[c].seen - 1)} :
      n <= TailLimit /\ Sees(c, n) => n \in rows
PaneSound(c) ==
  /\ pane[c].seen <= Frames(c)
  /\ pane[c].pc = "mount" => Holds(c, pane[c].rows)
  /\ pane[c].pc = "idle" => Holds(c, pane[c].shown)
PaneInv == pane \in [Dashboards -> Panes] /\ \A c \in Dashboards : PaneSound(c)

\* Below any row still to print every event is on the page, too, or dealt with.
Polls == [pc: {"off", "sleep", "print", "save"}, cursor: Nat, page: SUBSET Nat]
Covered(n) == 1..n \subseteq printed \cup passedBy
PageSound(w) == \A m \in reader[w].page : reader[w].cursor + 1..m \subseteq reader[w].page \cup printed \cup passedBy
ReadersInv ==
  /\ reader \in [Readers -> Polls] /\ file \in Nat /\ Covered(file)
  /\ \A w \in Readers : Covered(reader[w].cursor) /\ PageSound(w)

LEMMA LogOnlyGrows ==
  ASSUME StreamInv, [StreamNext]_streamVars, NEW n, Known(n)
  PROVE  Known(n)' /\ elog'[n] = elog[n] /\ setting' = setting
<1>1. setting' = setting /\ (elog' = elog \/ \E i \in DOMAIN ann : elog' = Append(elog, i))
  <2>1. CASE Writing
    BY ZenonT(60), <2>1 DEF Writing, Take, Committed, StoreSnap, Send, Tell, Keep, Notify, NotifyPlan, WarmSnap, Deliver
  <2>2. CASE Attaching
    BY ZenonT(60), <2>2 DEF Attaching, GetHub, Subscribe, ReadSnapshot, StoreCold, PresenceRead, PresenceStore, Forward,
                Close, DropHub, server
  <2>3. CASE Dashboard
    BY <2>3 DEF Dashboard, EnterSession, RefreshDetail, Mount, PollLive, server
  <2>4. CASE Reading
    BY <2>4 DEF Reading, Begin, Poll, PrintRow, SaveCursor, Quit, Kill, server
  <2>5. CASE UNCHANGED streamVars
    BY <2>5 DEF streamVars
  <2>6. QED
    BY SMTT(40), <2>1, <2>2, <2>3, <2>4, <2>5 DEF StreamNext
<1>2. elog \in Seq(Items \cup Hosts) /\ DOMAIN ann = Items \cup Hosts
  BY DEF StreamInv, StreamType
<1>3. CASE elog' = elog
  BY <1>1, <1>3 DEF Known
<1>4. CASE \E i \in DOMAIN ann : elog' = Append(elog, i)
  <2>1. Len(elog') = Len(elog) + 1 /\ Len(elog) \in Nat /\ \A k \in 1..Len(elog) : elog'[k] = elog[k]
    BY <1>2, <1>4
  <2>2. QED
    BY <1>1, <2>1 DEF Known
<1>5. QED
  BY <1>1, <1>3, <1>4

LEMMA PaneIs ==
  ASSUME StreamInv, PaneInv, NEW c \in Dashboards
  PROVE  /\ c \in Sockets /\ sock[c].base \in Int /\ sock[c].base <= Len(elog) /\ Len(sock[c].got) \in Nat
         /\ pane[c].seen \in Nat /\ pane[c] \in Panes /\ PaneSound(c)
         /\ pane[c].seen > 0 => sock[c].pc \notin {"off", "hub", "sub", "cold"} /\ pane[c].seen - 1 <= Len(sock[c].got)
         /\ \A k \in 1..Len(sock[c].got) : Known(sock[c].got[k])
<1>1. c \in Sockets
  BY StreamAssumption
<1>2. /\ sock[c].base \in Int /\ sock[c].base <= Len(elog) /\ sock[c].got \in Seq(Nat)
      /\ \A n \in Contents(sock[c].got) : Known(n)
  BY <1>1, SockIs DEF SockSound, Reached
<1>3. pane[c].seen \in Nat /\ pane[c] \in Panes /\ PaneSound(c)
  BY DEF PaneInv, Panes
<1>4. Len(sock[c].got) \in Nat /\ \A k \in 1..Len(sock[c].got) : Known(sock[c].got[k])
  BY <1>2 DEF Contents
<1>5. pane[c].seen > 0 => sock[c].pc \notin {"off", "hub", "sub", "cold"} /\ pane[c].seen - 1 <= Len(sock[c].got)
  BY <1>3, <1>4 DEF PaneSound, Frames
<1>6. QED
  BY <1>1, <1>2, <1>3, <1>4, <1>5

\* Everything a taken frame was about is in the log.
LEMMA FramesKnown ==
  ASSUME StreamInv, PaneInv, NEW c \in Dashboards, pane[c].seen > 0,
         NEW n \in 1..sock[c].base \cup {sock[c].got[k] : k \in 1..(pane[c].seen - 1)}
  PROVE  Known(n)
<1>1. CASE n \in 1..sock[c].base
  <2>1. sock[c].base \in Int /\ sock[c].base <= Len(elog) /\ Len(elog) \in Nat
    BY PaneIs DEF StreamInv, StreamType
  <2>2. QED
    BY <1>1, <2>1 DEF Known
<1>2. CASE n \in {sock[c].got[k] : k \in 1..(pane[c].seen - 1)}
  <2>1. PICK k \in 1..(pane[c].seen - 1) : n = sock[c].got[k]
    BY <1>2
  <2>2. k \in 1..Len(sock[c].got)
    BY PaneIs
  <2>3. QED
    BY <2>1, <2>2, PaneIs
<1>3. QED
  BY <1>1, <1>2

\* A dashboard that takes no step keeps what it shows.
LEMMA PaneKeeps ==
  ASSUME StreamInv, PaneInv, [StreamNext]_streamVars, NEW c \in Dashboards, pane'[c] = pane[c]
  PROVE  PaneSound(c)'
<1>1. /\ c \in Sockets /\ sock[c].base \in Int /\ Len(sock[c].got) \in Nat /\ pane[c].seen \in Nat
      /\ PaneSound(c)
      /\ pane[c].seen > 0 => sock[c].pc \notin {"off", "hub", "sub", "cold"} /\ pane[c].seen - 1 <= Len(sock[c].got)
  BY PaneIs
<1>2. GotGrows(c) /\ StreamInv'
  BY <1>1, StreamSteps
<1>3. Len(sock'[c].got) \in Nat
  BY SMTT(40), <1>1, <1>2 DEF StreamInv, StreamType, Connections
<1>4. pane'[c].seen <= Frames(c)'
  <2>1. CASE pane[c].seen = 0
    BY <1>3, <2>1 DEF Frames
  <2>2. CASE pane[c].seen > 0
    BY SMTT(40), <1>1, <1>2, <1>3, <2>2 DEF Frames, GotGrows
  <2>3. QED
    BY <1>1, <2>1, <2>2
<1>5. ASSUME NEW rows, Holds(c, rows), pane[c].seen > 0,
             NEW n \in 1..sock'[c].base \cup {sock'[c].got[k] : k \in 1..(pane[c].seen - 1)},
             n <= TailLimit, Sees(c, n)'
      PROVE  n \in rows
  <2>1. sock'[c].base = sock[c].base /\ \A k \in 1..(pane[c].seen - 1) : sock'[c].got[k] = sock[c].got[k]
    BY <1>1, <1>2, <1>5 DEF GotGrows
  <2>2. n \in 1..sock[c].base \cup {sock[c].got[k] : k \in 1..(pane[c].seen - 1)}
    BY <1>5, <2>1
  <2>3. Known(n)
    BY <1>5, <2>2, FramesKnown
  <2>4. Sees(c, n)
    BY <1>5, <2>3, LogOnlyGrows DEF Sees, KindOf
  <2>5. QED
    BY <1>5, <2>2, <2>4 DEF Holds
<1>6. \A rows : Holds(c, rows) => Holds(c, rows)'
  BY <1>5 DEF Holds
<1>7. QED
  BY <1>1, <1>4, <1>6 DEF PaneSound

\* A step of one dashboard.
LEMMA PaneMoves ==
  ASSUME StreamInv, PaneInv, [StreamNext]_streamVars, NEW c \in Dashboards, NEW q \in Panes,
         pane' = [pane EXCEPT ![c] = q], PaneSound(c)'
  PROVE  PaneInv'
<1>1. pane \in [Dashboards -> Panes]
  BY DEF PaneInv
<1>2. \A d \in Dashboards : d # c => pane'[d] = pane[d]
  BY <1>1
<1>3. \A d \in Dashboards : PaneSound(d)'
  BY <1>2, PaneKeeps
<1>4. QED
  BY <1>1, <1>3 DEF PaneInv

LEMMA PaneSteps ==
  ASSUME StreamInv, PaneInv, [StreamNext]_streamVars
  PROVE  PaneInv'
<1>1. CASE Writing \/ Attaching \/ Reading \/ UNCHANGED streamVars
  <2>1. pane' = pane
    BY ZenonT(60), <1>1 DEF Writing, Take, Committed, StoreSnap, Send, Tell, Keep, Notify, NotifyPlan, WarmSnap, Deliver,
                Attaching, GetHub, Subscribe, ReadSnapshot, StoreCold, PresenceRead, PresenceStore, Forward, Close, DropHub,
                Reading, Begin, Poll, PrintRow, SaveCursor, Quit, Kill, streamVars
  <2>2. QED
    BY <2>1, PaneKeeps DEF PaneInv
<1>2. ASSUME NEW c \in Dashboards, EnterSession(c) \/ RefreshDetail(c) \/ Mount(c) \/ PollLive(c)
      PROVE  PaneInv'
  <2>1. /\ pane[c] \in Panes /\ pane[c].seen \in Nat /\ PaneSound(c) /\ pane \in [Dashboards -> Panes]
        /\ UNCHANGED <<elog, sock, setting>>
    BY <1>2, PaneIs DEF PaneInv, EnterSession, RefreshDetail, Mount, PollLive, server
  <2>2. CASE EnterSession(c)
    <3> DEFINE q == [pane[c] EXCEPT !.pc = "fetch"]
    <3>1. pane' = [pane EXCEPT ![c] = q]
      BY <2>2 DEF EnterSession, Pane
    <3>2. q \in Panes /\ q.pc = "fetch" /\ q.seen = pane[c].seen
      BY <2>1 DEF Panes
    <3> HIDE DEF q
    <3>3. pane'[c] = q
      BY <2>1, <3>1
    <3>4. PaneSound(c)'
      BY <2>1, <3>2, <3>3 DEF PaneSound, Frames
    <3>5. QED
      BY <3>1, <3>2, <3>4, PaneMoves
  <2>3. CASE RefreshDetail(c)
    <3> DEFINE rows == {n \in DOMAIN elog : n <= TailLimit /\ Sees(c, n)}
               q == [pane[c] EXCEPT !.pc = "mount", !.rows = rows]
    <3>1. pane' = [pane EXCEPT ![c] = q]
      BY <2>3 DEF RefreshDetail, Pane
    <3>2. DOMAIN elog = 1..Len(elog) /\ rows \in SUBSET Nat
      BY DEF StreamInv, StreamType
    <3>3. Holds(c, rows)
      BY <3>2, FramesKnown DEF Holds, Known
    <3> HIDE DEF rows
    <3>4. q \in Panes /\ q.pc = "mount" /\ q.seen = pane[c].seen /\ q.rows = rows
      BY <2>1, <3>2 DEF Panes
    <3> HIDE DEF q
    <3>5. pane'[c] = q
      BY <2>1, <3>1
    <3>6. PaneSound(c)'
      BY <2>1, <3>3, <3>4, <3>5 DEF PaneSound, Frames, Holds, Sees, KindOf
    <3>7. QED
      BY <3>1, <3>4, <3>6, PaneMoves
  <2>4. CASE Mount(c)
    <3> DEFINE q == [pane[c] EXCEPT !.pc = "idle", !.shown = pane[c].rows]
    <3>1. pane' = [pane EXCEPT ![c] = q] /\ pane[c].pc = "mount"
      BY <2>4 DEF Mount, Pane
    <3>2. q \in Panes /\ q.pc = "idle" /\ q.seen = pane[c].seen /\ q.shown = pane[c].rows
      BY <2>1 DEF Panes
    <3> HIDE DEF q
    <3>3. pane'[c] = q
      BY <2>1, <3>1
    <3>4. PaneSound(c)'
      BY <2>1, <3>1, <3>2, <3>3 DEF PaneSound, Frames, Holds, Sees, KindOf
    <3>5. QED
      BY <3>1, <3>2, <3>4, PaneMoves
  <2>5. CASE PollLive(c)
    <3> DEFINE q == [pane[c] EXCEPT !.pc = "fetch", !.seen = @ + 1]
    <3>1. pane' = [pane EXCEPT ![c] = q] /\ pane[c].seen < Frames(c)
      BY <2>5 DEF PollLive, Pane
    <3>2. pane[c].seen + 1 \in Nat
      BY <2>1
    <3>3. q \in Panes /\ q.pc = "fetch" /\ q.seen = pane[c].seen + 1
      BY <2>1, <3>2 DEF Panes
    <3> HIDE DEF q
    <3>4. pane'[c] = q
      BY <2>1, <3>1
    <3>5. Frames(c) \in Nat /\ Frames(c)' = Frames(c)
      BY <2>1, PaneIs DEF Frames
    <3>6. PaneSound(c)'
      BY <2>1, <3>1, <3>3, <3>4, <3>5 DEF PaneSound
    <3>7. QED
      BY <3>1, <3>3, <3>6, PaneMoves
  <2>6. QED
    BY <1>2, <2>2, <2>3, <2>4, <2>5
<1>3. QED
  BY <1>1, <1>2 DEF StreamNext, Dashboard

\* A step of one reader that forgets nothing that was printed or passed by.
LEMMA ReaderMoves ==
  ASSUME ReadersInv, NEW w \in Readers, NEW q \in Polls, reader' = [reader EXCEPT ![w] = q],
         printed \cup passedBy \subseteq printed' \cup passedBy',
         file' \in Nat, file' = file \/ file' = q.cursor, 1..q.cursor \subseteq printed' \cup passedBy',
         \A m \in q.page : q.cursor + 1..m \subseteq q.page \cup printed' \cup passedBy'
  PROVE  ReadersInv'
<1>1. reader \in [Readers -> Polls] /\ Covered(file) /\ \A v \in Readers : Covered(reader[v].cursor) /\ PageSound(v)
  BY DEF ReadersInv
<1>2. reader' \in [Readers -> Polls] /\ reader'[w] = q /\ \A v \in Readers : v # w => reader'[v] = reader[v]
  BY <1>1
<1>3. Covered(file)'
  BY <1>1 DEF Covered
<1>4. \A v \in Readers : Covered(reader[v].cursor)' /\ PageSound(v)'
  BY <1>1, <1>2 DEF Covered, PageSound
<1>5. QED
  BY <1>2, <1>3, <1>4 DEF ReadersInv

LEMMA ReaderSteps ==
  ASSUME StreamInv, ReadersInv, [StreamNext]_streamVars
  PROVE  ReadersInv'
<1>1. CASE Writing \/ Attaching \/ Dashboard \/ UNCHANGED streamVars
  <2>1. UNCHANGED <<reader, file, printed, passedBy>>
    BY ZenonT(60), <1>1 DEF Writing, Take, Committed, StoreSnap, Send, Tell, Keep, Notify, NotifyPlan, WarmSnap, Deliver,
                Attaching, GetHub, Subscribe, ReadSnapshot, StoreCold, PresenceRead, PresenceStore, Forward, Close, DropHub,
                Dashboard, EnterSession, RefreshDetail, Mount, PollLive, streamVars, polling
  <2>2. QED
    BY SMTT(40), <2>1 DEF ReadersInv, Covered, PageSound
<1>2. ASSUME NEW w \in Readers, Begin(w) \/ Poll(w) \/ PrintRow(w) \/ SaveCursor(w) \/ Quit(w) \/ Kill(w)
      PROVE  ReadersInv'
  <2>1. /\ reader \in [Readers -> Polls] /\ reader[w] \in Polls /\ reader[w].cursor \in Nat /\ reader[w].page \in SUBSET Nat
        /\ file \in Nat /\ Covered(file) /\ Covered(reader[w].cursor) /\ PageSound(w)
    BY DEF ReadersInv, Polls
  <2>2. CASE Begin(w)
    <3> DEFINE q == [pc |-> "sleep", page |-> {}, cursor |-> IF Saves(w) THEN file ELSE 0]
    <3>1. reader' = [reader EXCEPT ![w] = q] /\ UNCHANGED <<file, printed, passedBy>>
      BY <2>2 DEF Begin
    <3>2. q \in Polls /\ q.page = {} /\ (q.cursor = file \/ q.cursor = 0)
      BY <2>1 DEF Polls
    <3> HIDE DEF q
    <3>3. 1..q.cursor \subseteq printed' \cup passedBy'
      BY <2>1, <3>1, <3>2 DEF Covered
    <3>4. QED
      BY <2>1, <3>1, <3>2, <3>3, ReaderMoves
  <2>3. CASE Poll(w)
    <3> DEFINE page == Page(w, reader[w].cursor)
               q == [reader[w] EXCEPT !.pc = "print", !.page = page]
    <3>1. /\ reader' = [reader EXCEPT ![w] = q] /\ UNCHANGED <<file, printed>>
          /\ passedBy' = passedBy \cup {n \in Rows(reader[w].cursor) : ~Sees(w, n)}
      BY <2>1, <2>3 DEF Poll
    <3>2. DOMAIN elog = 1..Len(elog) /\ Len(elog) \in Nat /\ PageLimit \in Nat
      BY StreamAssumption DEF StreamInv, StreamType
    <3>3. page \in SUBSET Nat
      BY <3>2 DEF Page, Rows
    <3>4. \A m \in page : reader[w].cursor + 1..m \subseteq page \cup passedBy'
      <4> SUFFICES ASSUME NEW m \in page, NEW k \in reader[w].cursor + 1..m
                   PROVE  k \in page \cup passedBy'
        OBVIOUS
      <4>1. m \in Rows(reader[w].cursor)
        BY DEF Page
      <4>2. k \in Rows(reader[w].cursor)
        BY <2>1, <3>2, <4>1 DEF Rows
      <4>3. QED
        BY <3>1, <4>2 DEF Page
    <3> HIDE DEF page
    <3>5. q \in Polls /\ q.page = page /\ q.cursor = reader[w].cursor
      BY <2>1, <3>3 DEF Polls
    <3> HIDE DEF q
    <3>6. 1..q.cursor \subseteq printed' \cup passedBy'
      BY <2>1, <3>1, <3>5 DEF Covered
    <3>7. \A m \in q.page : q.cursor + 1..m \subseteq q.page \cup printed' \cup passedBy'
      BY <3>4, <3>5
    <3>8. printed \cup passedBy \subseteq printed' \cup passedBy'
      BY <3>1
    <3>9. QED
      BY <2>1, <3>1, <3>5, <3>6, <3>7, <3>8, ReaderMoves
  <2>4. CASE PrintRow(w)
    <3>1. PICK n \in reader[w].page :
            /\ \A m \in reader[w].page : n <= m
            /\ IF KindOf(n) \in setting.filter[w]
               THEN printed' = printed \cup {n} /\ UNCHANGED passedBy
               ELSE passedBy' = passedBy \cup {n} /\ UNCHANGED printed
            /\ reader' = [reader EXCEPT ![w].cursor = IF n > @ THEN n ELSE @, ![w].page = @ \ {n},
                                        ![w].pc = IF reader[w].page # {n} THEN @
                                                  ELSE IF Saves(w) THEN "save" ELSE "sleep"]
      BY <2>4 DEF PrintRow
    <3> DEFINE pc == IF reader[w].page # {n} THEN reader[w].pc ELSE IF Saves(w) THEN "save" ELSE "sleep"
               cur == IF n > reader[w].cursor THEN n ELSE reader[w].cursor
               q == [reader[w] EXCEPT !.cursor = cur, !.page = @ \ {n}, !.pc = pc]
    <3>2. reader' = [reader EXCEPT ![w] = q] /\ UNCHANGED file
      BY ZenonT(60), <2>1, <2>4, <3>1 DEF PrintRow
    <3>3. n \in Nat /\ cur \in Nat /\ cur >= n /\ cur >= reader[w].cursor /\ (cur = n \/ cur = reader[w].cursor)
      BY <2>1
    <3>4. pc \in {"off", "sleep", "print", "save"}
      BY <2>1 DEF Polls
    <3> HIDE DEF pc, cur
    <3>5. q \in Polls /\ q.cursor = cur /\ q.page = reader[w].page \ {n}
      BY <2>1, <3>3, <3>4 DEF Polls
    <3> HIDE DEF q
    <3>6. printed' \cup passedBy' = printed \cup passedBy \cup {n}
      BY <3>1
    <3>7. reader[w].cursor + 1..n \subseteq reader[w].page \cup printed \cup passedBy
      BY <2>1 DEF PageSound
    <3>8. 1..cur \subseteq printed' \cup passedBy'
      <4> SUFFICES ASSUME NEW k \in 1..cur PROVE k \in printed' \cup passedBy'
        OBVIOUS
      <4>1. CASE k <= reader[w].cursor
        BY <2>1, <3>3, <3>6, <4>1 DEF Covered
      <4>2. CASE k > reader[w].cursor
        <5>1. k \in reader[w].cursor + 1..n /\ k <= n
          BY <2>1, <3>3, <4>2
        <5>2. k \in reader[w].page => k = n
          BY <3>1, <3>3, <5>1
        <5>3. QED
          BY <3>6, <3>7, <5>1, <5>2
      <4>3. QED
        BY <2>1, <3>3, <4>1, <4>2
    <3>9. \A m \in q.page : q.cursor + 1..m \subseteq q.page \cup printed' \cup passedBy'
      <4> SUFFICES ASSUME NEW m \in q.page, NEW k \in q.cursor + 1..m
                   PROVE  k \in q.page \cup printed' \cup passedBy'
        OBVIOUS
      <4>1. m \in reader[w].page /\ m \in Nat
        BY <2>1, <3>5
      <4>2. k \in reader[w].cursor + 1..m
        BY <2>1, <3>3, <3>5, <4>1
      <4>3. k \in reader[w].page \cup printed \cup passedBy
        BY <2>1, <4>1, <4>2 DEF PageSound
      <4>4. QED
        BY <3>5, <3>6, <4>3
    <3>10. QED
      BY <2>1, <3>2, <3>5, <3>6, <3>8, <3>9, ReaderMoves DEF Covered
  <2>5. CASE SaveCursor(w) \/ Quit(w) \/ Kill(w)
    <3>1. PICK p \in {"sleep", "off"}, page \in {reader[w].page, {}} :
            reader' = [reader EXCEPT ![w] = [reader[w] EXCEPT !.pc = p, !.page = page]]
      <4>1. SaveCursor(w) => reader' = [reader EXCEPT ![w] = [reader[w] EXCEPT !.pc = "sleep", !.page = reader[w].page]]
        BY <2>1 DEF SaveCursor, Polls
      <4>2. Quit(w) => reader' = [reader EXCEPT ![w] = [reader[w] EXCEPT !.pc = "off", !.page = reader[w].page]]
        BY <2>1 DEF Quit, Polls
      <4>3. Kill(w) => reader' = [reader EXCEPT ![w] = [reader[w] EXCEPT !.pc = "off", !.page = {}]]
        BY <2>1 DEF Kill, Polls
      <4>4. QED
        BY <2>5, <4>1, <4>2, <4>3
    <3> DEFINE q == [reader[w] EXCEPT !.pc = p, !.page = page]
    <3>2. UNCHANGED <<printed, passedBy>> /\ (file' = file \/ file' = reader[w].cursor)
      BY <2>5 DEF SaveCursor, Quit, Kill
    <3>3. q \in Polls /\ q.cursor = reader[w].cursor /\ q.page = page
      BY <2>1 DEF Polls
    <3>4. reader' = [reader EXCEPT ![w] = q]
      BY <3>1
    <3> HIDE DEF q
    <3>5. \A m \in q.page : q.cursor + 1..m \subseteq q.page \cup printed' \cup passedBy'
      BY <2>1, <3>2, <3>3 DEF PageSound
    <3>6. 1..q.cursor \subseteq printed' \cup passedBy' /\ file' \in Nat /\ (file' = file \/ file' = q.cursor)
      BY <2>1, <3>2, <3>3 DEF Covered
    <3>7. QED
      BY <3>2, <3>3, <3>4, <3>5, <3>6, ReaderMoves
  <2>6. QED
    BY <1>2, <2>2, <2>3, <2>4, <2>5
<1>3. QED
  BY <1>1, <1>2 DEF StreamNext, Reading

\* Whatever frames come during a fetch and whenever a reader is killed, the dashboard and
\* the polling readers pass over no event (tui/app.rs, session.rs, watch.rs).
THEOREM SkipsNothing == StreamSpec => []NothingSkipped
<1>1. StreamInit => StreamInv /\ PaneInv /\ ReadersInv
  <2> SUFFICES ASSUME StreamInit PROVE StreamInv /\ PaneInv /\ ReadersInv
    OBVIOUS
  <2>1. StreamInv
    BY StreamStarts
  <2>2. PaneInv
    <3>1. pane = [c \in Dashboards |-> [pc |-> "list", seen |-> 0, rows |-> {}, shown |-> {}]]
      BY DEF StreamInit
    <3>2. pane \in [Dashboards -> Panes]
      BY <3>1 DEF Panes
    <3>3. \A c \in Dashboards : sock[c].pc = "off"
      BY StreamAssumption DEF StreamInit, Off
    <3>4. QED
      BY <3>1, <3>2, <3>3 DEF PaneInv, PaneSound, Frames
  <2>3. ReadersInv
    BY DEF StreamInit, ReadersInv, Polls, Covered, PageSound
  <2>4. QED
    BY <2>1, <2>2, <2>3
<1>2. StreamInv /\ PaneInv /\ ReadersInv /\ [StreamNext]_streamVars => (StreamInv /\ PaneInv /\ ReadersInv)'
  BY StreamSteps, PaneSteps, ReaderSteps
<1>3. StreamInv /\ PaneInv => PaneCurrent
  <2> SUFFICES ASSUME StreamInv, PaneInv, NEW c \in Dashboards, pane[c].pc = "idle", pane[c].seen > 0,
                      NEW n \in 1..sock[c].base \cup Contents(SubSeq(sock[c].got, 1, pane[c].seen - 1)),
                      n <= TailLimit /\ Sees(c, n)
               PROVE  n \in pane[c].shown
    BY DEF PaneCurrent
  <2>1. /\ pane[c].seen - 1 \in 0..Len(sock[c].got) /\ sock[c].got \in Seq(Nat) /\ PaneSound(c)
    BY PaneIs, SockIs
  <2>2. Contents(SubSeq(sock[c].got, 1, pane[c].seen - 1)) = {sock[c].got[k] : k \in 1..(pane[c].seen - 1)}
    <3> DEFINE t == SubSeq(sock[c].got, 1, pane[c].seen - 1)
    <3>1. DOMAIN t = 1..(pane[c].seen - 1) /\ \A k \in 1..(pane[c].seen - 1) : t[k] = sock[c].got[k]
      BY <2>1
    <3> HIDE DEF t
    <3>2. Contents(t) = {sock[c].got[k] : k \in 1..(pane[c].seen - 1)}
      BY <3>1 DEF Contents
    <3>3. QED
      BY <3>2 DEF t
  <2>3. QED
    BY <2>1, <2>2 DEF PaneSound, Holds
<1>4. ReadersInv => CursorCovered
  BY DEF ReadersInv, CursorCovered, Covered
<1>5. QED
  BY <1>1, <1>2, <1>3, <1>4, PTL DEF StreamSpec, NothingSkipped

-----------------------------------------------------------------------------
(* Rate limits: the inductive invariant.                                    *)

\* What a check or a sweep has read of the clock is not too old.
ReadLately(now) == now \in Nat /\ now <= clock /\ clock <= now + MaxStall

LimitType ==
  /\ policy \in Policies /\ clock \in Nat
  /\ bucket = NoBucket \/ /\ bucket \in [count: 1..policy.max, start: Nat]
                          /\ bucket.start <= clock
  /\ caller \in [Callers -> Nat \cup {Out}]
  /\ \A c \in Callers : caller[c] # Out => ReadLately(caller[c])
  /\ sweeper # Out => ReadLately(sweeper)

\* An admission is told from the others of its tick.
AdmittedSound ==
  /\ IsFiniteSet(admitted)
  /\ \A a \in admitted : /\ a = [at |-> a.at, nth |-> a.nth]
                         /\ a.at \in Nat /\ a.nth \in Nat /\ a.at <= clock
                         /\ a.nth < Cardinality(AdmittedAt(a.at))

\* P was admitted by the bucket before, C by this one: C is what it has
\* counted until nothing depends on it, and the rest is out of any window.
Shares(P, C) ==
  /\ P \in SUBSET admitted /\ C \in SUBSET admitted
  /\ Cardinality(P) <= policy.max /\ Cardinality(C) <= bucket.count
  /\ clock < bucket.start + policy.window + MaxStall => Cardinality(C) = bucket.count
  /\ \A a \in C : bucket.start <= a.at
  /\ \A a \in admitted \ C : a.at <= bucket.start + MaxStall
  /\ \A a \in admitted \ (P \cup C) : a.at + policy.window <= bucket.start + MaxStall

\* P was admitted by the bucket that was swept; the rest is out of the window
\* of whoever opens the next one.
Leftover(P) ==
  /\ P \in SUBSET admitted /\ Cardinality(P) <= policy.max
  /\ \A a \in admitted \ P :
       /\ a.at + policy.window <= clock
       /\ \A c \in Callers : caller[c] # Out => a.at + policy.window <= caller[c] + MaxStall

LimitInv ==
  /\ LimitType /\ AdmittedSound
  /\ bucket # NoBucket => \E P, C : Shares(P, C)
  /\ bucket = NoBucket => \E P : Leftover(P)
  /\ denied # Out => denied \in Nat /\ policy.max <= denied

-----------------------------------------------------------------------------
(* Rate limits: the steps.                                                  *)

LEMMA PolicyShape ==
  ASSUME LimitType
  PROVE  /\ policy.max \in Nat \ {0} /\ policy.window \in Nat \ {0}
         /\ IdleTTL \in Nat /\ MaxStall \in Nat /\ IdleTTL >= policy.window + MaxStall
BY LimitAssumption DEF LimitType

LEMMA Smaller ==
  ASSUME NEW S, IsFiniteSet(S), NEW T \in SUBSET S
  PROVE  /\ IsFiniteSet(T) /\ Cardinality(T) \in Nat /\ Cardinality(S) \in Nat
         /\ Cardinality(T) <= Cardinality(S)
BY FS_Subset, FS_CardinalityType

\* An admission is a new one.
NewOne == [at |-> clock, nth |-> Cardinality(AdmittedAt(clock))]

LEMMA Admission ==
  ASSUME LimitType, AdmittedSound, clock' = clock, admitted' = admitted \cup {NewOne}
  PROVE  NewOne \notin admitted /\ NewOne.at = clock /\ AdmittedSound'
<1> DEFINE x == NewOne
<1>1. x.at = clock /\ x.nth = Cardinality(AdmittedAt(clock)) /\ x = [at |-> x.at, nth |-> x.nth]
  BY DEF NewOne
<1>2. IsFiniteSet(admitted) /\ clock \in Nat
  BY DEF AdmittedSound, LimitType
<1>3. AdmittedAt(clock) \in SUBSET admitted
  BY DEF AdmittedAt
<1>4. x.nth \in Nat
  BY <1>1, <1>2, <1>3, Smaller
<1>5. x \notin admitted
  <2>1. SUFFICES ASSUME x \in admitted PROVE FALSE
    OBVIOUS
  <2>2. x.nth < Cardinality(AdmittedAt(x.at))
    BY <2>1 DEF AdmittedSound
  <2>3. QED
    BY <1>1, <1>4, <2>2
<1> HIDE DEF x
<1>6. admitted' = admitted \cup {x}
  BY DEF x
<1>7. IsFiniteSet(admitted')
  BY <1>2, <1>6, FS_AddElement
<1>8. ASSUME NEW a \in admitted'
      PROVE  /\ a = [at |-> a.at, nth |-> a.nth]
             /\ a.at \in Nat /\ a.nth \in Nat /\ a.at <= clock
             /\ a.nth < Cardinality(AdmittedAt(a.at)')
  <2>1. AdmittedAt(clock)' = AdmittedAt(clock) \cup {x}
    BY <1>1, <1>6 DEF AdmittedAt
  <2>2. Cardinality(AdmittedAt(clock) \cup {x}) = Cardinality(AdmittedAt(clock)) + 1
    <3>1. IsFiniteSet(AdmittedAt(clock)) /\ x \notin AdmittedAt(clock)
      BY <1>2, <1>3, <1>5, Smaller
    <3>2. QED
      BY <3>1, FS_AddElement
  <2>3. Cardinality(AdmittedAt(clock)') = x.nth + 1
    BY <1>1, <2>1, <2>2
  <2>4. CASE a = x
    BY <1>1, <1>2, <1>4, <2>3, <2>4
  <2>5. CASE a # x
    <3>1. a \in admitted
      BY <1>6, <2>5
    <3>2. a = [at |-> a.at, nth |-> a.nth] /\ a.at \in Nat /\ a.nth \in Nat /\ a.at <= clock
          /\ a.nth < Cardinality(AdmittedAt(a.at))
      BY <3>1 DEF AdmittedSound
    <3>3. CASE a.at = clock
      BY <1>1, <1>4, <2>3, <3>2, <3>3
    <3>4. CASE a.at # clock
      <4>1. AdmittedAt(a.at)' = AdmittedAt(a.at)
        BY <1>1, <1>6, <3>4 DEF AdmittedAt
      <4>2. QED
        BY <3>2, <4>1
    <3>5. QED
      BY <3>3, <3>4
  <2>6. QED
    BY <2>4, <2>5
<1>9. AdmittedSound'
  <2>1. \A a \in admitted' : /\ a = [at |-> a.at, nth |-> a.nth]
                             /\ a.at \in Nat /\ a.nth \in Nat /\ a.at <= clock'
                             /\ a.nth < Cardinality(AdmittedAt(a.at)')
    BY <1>8
  <2>2. QED
    BY <1>7, <2>1 DEF AdmittedSound, AdmittedAt
<1>10. QED
  BY <1>1, <1>5, <1>9 DEF x

Counted == admitted' = admitted \cup {NewOne} /\ denied' = denied

\* check_and_consume opens a bucket, counts in it, or denies.
OpensBucket(now) ==
  /\ bucket = NoBucket \/ bucket.start + policy.window <= now
  /\ bucket' = [count |-> 1, start |-> now] /\ Counted
CountsIn(now) ==
  /\ bucket # NoBucket /\ now < bucket.start + policy.window /\ bucket.count < policy.max
  /\ bucket' = [count |-> bucket.count + 1, start |-> bucket.start] /\ Counted
DeniesKey(now) ==
  /\ bucket # NoBucket /\ now < bucket.start + policy.window /\ bucket.count = policy.max
  /\ bucket' = bucket /\ admitted' = admitted /\ denied' = Cardinality(admitted)

LEMMA AdmitCases ==
  ASSUME LimitType, NEW now \in Nat, Admit(now)
  PROVE  OpensBucket(now) \/ CountsIn(now) \/ DeniesKey(now)
<1> DEFINE b == IF bucket = NoBucket THEN fresh(now) ELSE bucket
           cur == IF SaturatingSince(now, b.start) >= policy.window THEN fresh(now) ELSE b
           r == check_and_consume(b, now)
<1>1. policy.max \in Nat \ {0} /\ policy.window \in Nat \ {0}
  BY PolicyShape
<1>2. bucket' = r.then /\ IF r.ok THEN Counted ELSE denied' = Cardinality(admitted) /\ admitted' = admitted
  BY DEF Admit, Counted, NewOne
<1>3. r = IF cur.count < policy.max THEN [ok |-> TRUE, then |-> [cur EXCEPT !.count = @ + 1]]
          ELSE [ok |-> FALSE, then |-> cur]
  BY DEF check_and_consume
<1>4. fresh(now) = [count |-> 0, start |-> now] /\ fresh(now).start = now /\ fresh(now).count = 0
  BY DEF fresh
<1>5. ~(SaturatingSince(now, now) >= policy.window)
  BY <1>1 DEF SaturatingSince
<1>6. CASE cur = fresh(now) /\ (bucket = NoBucket \/ bucket.start + policy.window <= now)
  <2>1. [cur EXCEPT !.count = @ + 1] = [count |-> 1, start |-> now]
    BY <1>4, <1>6
  <2>2. cur.count < policy.max
    BY <1>1, <1>4, <1>6
  <2> HIDE DEF cur
  <2>3. r.ok = TRUE /\ r.then = [count |-> 1, start |-> now]
    BY <1>3, <2>1, <2>2
  <2> HIDE DEF r
  <2>4. QED
    BY <1>2, <1>6, <2>3 DEF OpensBucket
<1>7. CASE bucket # NoBucket /\ now < bucket.start + policy.window /\ cur = bucket
  <2>1. bucket \in [count: 1..policy.max, start: Nat]
    BY <1>7 DEF LimitType
  <2>2. [cur EXCEPT !.count = @ + 1] = [count |-> bucket.count + 1, start |-> bucket.start]
    BY <1>7, <2>1
  <2> HIDE DEF cur
  <2>3. CASE cur.count < policy.max
    <3>1. r.ok = TRUE /\ r.then = [count |-> bucket.count + 1, start |-> bucket.start]
      BY <1>3, <2>2, <2>3
    <3> HIDE DEF r
    <3>2. QED
      BY <1>2, <1>7, <2>3, <3>1 DEF CountsIn
  <2>4. CASE ~(cur.count < policy.max)
    <3>1. r.ok = FALSE /\ r.then = bucket
      BY <1>3, <1>7, <2>4
    <3>2. bucket.count = policy.max
      BY <1>1, <1>7, <2>1, <2>4
    <3> HIDE DEF r
    <3>3. QED
      BY <1>2, <1>7, <3>1, <3>2 DEF DeniesKey
  <2>5. QED
    BY <2>3, <2>4
<1>8. bucket = NoBucket => cur = fresh(now)
  BY <1>4, <1>5
<1>9. bucket # NoBucket => bucket.start \in Nat
  BY DEF LimitType
<1>10. CASE bucket # NoBucket /\ bucket.start + policy.window <= now
  <2>1. SaturatingSince(now, bucket.start) >= policy.window
    BY <1>1, <1>9, <1>10 DEF SaturatingSince
  <2>2. cur = fresh(now)
    BY <1>10, <2>1
  <2>3. QED
    BY <1>6, <1>10, <2>2
<1>11. CASE bucket # NoBucket /\ now < bucket.start + policy.window
  <2>1. ~(SaturatingSince(now, bucket.start) >= policy.window)
    BY <1>1, <1>9, <1>11 DEF SaturatingSince
  <2>2. cur = bucket
    BY <1>11, <2>1
  <2>3. QED
    BY <1>7, <1>11, <2>2
<1>12. QED
  BY <1>1, <1>6, <1>8, <1>9, <1>10, <1>11

\* now is the clock or what a check has read.
TheirReading(now) == now = clock \/ \E c \in Callers : caller[c] = now

LEMMA AdmitOpens ==
  ASSUME LimitInv, NEW now, ReadLately(now), TheirReading(now), OpensBucket(now), clock' = clock, policy' = policy
  PROVE  \E P, C : Shares(P, C)'
<1>1. /\ policy.max \in Nat \ {0} /\ policy.window \in Nat \ {0} /\ MaxStall \in Nat
      /\ clock \in Nat /\ now \in Nat /\ now <= clock /\ clock <= now + MaxStall
  BY PolicyShape DEF LimitInv, LimitType, ReadLately
<1>2. PICK x :
      /\ x \notin admitted /\ x.at = clock
      /\ admitted' = admitted \cup {x} /\ bucket'.start = now /\ bucket'.count = 1
      /\ \A a \in admitted : a.at \in Nat /\ a.at <= clock
  BY Admission DEF LimitInv, OpensBucket, Counted, AdmittedSound
<1>3. PICK P \in SUBSET admitted :
        /\ Cardinality(P) <= policy.max
        /\ \A a \in admitted \ P : a.at + policy.window <= now + MaxStall
  <2>1. CASE bucket = NoBucket
    <3>1. PICK P : Leftover(P)
      BY <2>1 DEF LimitInv
    <3>2. ASSUME NEW a \in admitted \ P PROVE a.at + policy.window <= now + MaxStall
      <4>1. CASE now = clock
        BY <1>1, <1>2, <3>1, <4>1 DEF Leftover
      <4>2. CASE \E c \in Callers : caller[c] = now
        <5>1. now # Out
          BY <1>1 DEF Out
        <5>2. QED
          BY <3>1, <4>2, <5>1 DEF Leftover
      <4>3. QED
        BY <4>1, <4>2 DEF TheirReading
    <3>3. QED
      BY <3>1, <3>2 DEF Leftover
  <2>2. CASE bucket # NoBucket
    <3>1. PICK P, C : Shares(P, C)
      BY <2>2 DEF LimitInv
    <3>2. bucket.start \in Nat /\ bucket.count \in 1..policy.max /\ bucket.start + policy.window <= now
      BY <2>2 DEF LimitInv, LimitType, OpensBucket
    <3>3. Cardinality(C) \in Nat
      BY <3>1, Smaller DEF LimitInv, AdmittedSound, Shares
    <3>4. Cardinality(C) <= policy.max
      BY <1>1, <3>1, <3>2, <3>3 DEF Shares
    <3>5. \A a \in admitted \ C : a.at + policy.window <= now + MaxStall
      BY <1>1, <1>2, <3>1, <3>2 DEF Shares
    <3>6. QED
      BY <3>1, <3>4, <3>5 DEF Shares
  <2>3. QED
    BY <2>1, <2>2
<1>4. Cardinality({x}) = 1
  BY FS_Singleton
<1>5. Shares(P, {x})'
  <2>1. /\ P \in SUBSET admitted' /\ {x} \in SUBSET admitted'
        /\ admitted' \ {x} = admitted /\ admitted' \ (P \cup {x}) = admitted \ P
    BY <1>2
  <2>2. /\ \A a \in {x} : now <= a.at
        /\ \A a \in admitted : a.at <= now + MaxStall
    BY <1>1, <1>2
  <2>3. QED
    BY <1>2, <1>3, <1>4, <2>1, <2>2 DEF Shares
<1>6. QED
  BY <1>5

LEMMA AdmitCounts ==
  ASSUME LimitInv, NEW now, ReadLately(now), CountsIn(now), clock' = clock, policy' = policy
  PROVE  \E P, C : Shares(P, C)'
<1>1. /\ policy.max \in Nat \ {0} /\ policy.window \in Nat \ {0} /\ MaxStall \in Nat /\ clock \in Nat
      /\ bucket.start \in Nat /\ bucket.start <= clock /\ bucket.count \in Nat
  BY PolicyShape DEF LimitInv, LimitType, CountsIn
<1>2. PICK x :
      /\ x \notin admitted /\ x.at = clock
      /\ admitted' = admitted \cup {x}
      /\ bucket'.start = bucket.start /\ bucket'.count = bucket.count + 1
  BY Admission DEF LimitInv, CountsIn, Counted
<1>3. PICK P, C : Shares(P, C)
  BY DEF LimitInv, CountsIn
<1> DEFINE D == C \cup {x}
<1>4. Cardinality(D) = Cardinality(C) + 1 /\ Cardinality(C) \in Nat
  <2>1. IsFiniteSet(C) /\ Cardinality(C) \in Nat
    BY <1>3, Smaller DEF Shares, LimitInv, AdmittedSound
  <2>2. x \notin C
    BY <1>2, <1>3 DEF Shares
  <2>3. QED
    BY <2>1, <2>2, FS_AddElement
<1>5. /\ P \in SUBSET admitted' /\ D \in SUBSET admitted'
      /\ admitted' \ D = admitted \ C /\ admitted' \ (P \cup D) = admitted \ (P \cup C)
  BY <1>2, <1>3 DEF Shares
<1>6. \A a \in D : bucket.start <= a.at
  BY <1>1, <1>2, <1>3 DEF Shares
<1> HIDE DEF D
<1>7. Shares(P, D)'
  BY <1>1, <1>2, <1>3, <1>4, <1>5, <1>6 DEF Shares
<1>8. QED
  BY <1>7

\* A denied key had its maximum of this bucket, and none of it is forgotten.
LEMMA AdmitDenies ==
  ASSUME LimitInv, NEW now, ReadLately(now), DeniesKey(now), clock' = clock, policy' = policy
  PROVE  /\ \E P, C : Shares(P, C)'
         /\ denied' \in Nat /\ policy.max <= denied'
<1>1. PICK P, C : Shares(P, C)
  BY DEF LimitInv, DeniesKey
<1>2. Shares(P, C)'
  BY <1>1 DEF Shares, DeniesKey
<1>3. clock < bucket.start + policy.window + MaxStall
  <2>1. /\ policy.window \in Nat /\ MaxStall \in Nat /\ clock \in Nat /\ bucket.start \in Nat
        /\ now \in Nat /\ clock <= now + MaxStall /\ now < bucket.start + policy.window
    BY PolicyShape DEF LimitInv, LimitType, ReadLately, DeniesKey
  <2>2. QED
    BY <2>1
<1>4. Cardinality(C) = policy.max
  BY <1>1, <1>3 DEF Shares, DeniesKey
<1>5. Cardinality(C) <= Cardinality(admitted) /\ Cardinality(admitted) \in Nat
  BY <1>1, Smaller DEF Shares, LimitInv, AdmittedSound
<1>6. QED
  BY <1>2, <1>4, <1>5 DEF DeniesKey

LEMMA AdmitKeeps ==
  ASSUME LimitInv, NEW now, ReadLately(now), TheirReading(now), Admit(now),
         clock' = clock, policy' = policy, sweeper' = sweeper,
         caller' = caller \/ \E c \in Callers : caller' = [caller EXCEPT ![c] = Out]
  PROVE  LimitInv'
<1>1. OpensBucket(now) \/ CountsIn(now) \/ DeniesKey(now)
  BY AdmitCases DEF LimitInv, ReadLately
<1>2. /\ policy.max \in Nat \ {0} /\ MaxStall \in Nat /\ clock \in Nat
      /\ now \in Nat /\ now <= clock
  BY PolicyShape DEF LimitInv, LimitType, ReadLately
<1>3. /\ caller' \in [Callers -> Nat \cup {Out}]
      /\ \A c \in Callers : caller'[c] # Out => caller'[c] = caller[c]
  BY DEF LimitInv, LimitType, Out
<1>4. bucket' \in [count: 1..policy.max, start: Nat] /\ bucket'.start <= clock /\ bucket' # NoBucket
  <2>1. CASE OpensBucket(now)
    BY <1>2, <2>1 DEF OpensBucket, NoBucket, Out
  <2>2. CASE CountsIn(now)
    <3>1. bucket.count \in 1..policy.max /\ bucket.start \in Nat /\ bucket.start <= clock /\ bucket.count < policy.max
      BY <2>2 DEF CountsIn, LimitInv, LimitType
    <3>2. QED
      BY <1>2, <2>2, <3>1 DEF CountsIn, NoBucket, Out
  <2>3. CASE DeniesKey(now)
    BY <2>3 DEF DeniesKey, LimitInv, LimitType
  <2>4. QED
    BY <1>1, <2>1, <2>2, <2>3
<1>5. LimitType'
  BY <1>3, <1>4 DEF LimitInv, LimitType, ReadLately
<1>6. AdmittedSound'
  <2>1. CASE Counted
    BY <2>1, Admission DEF LimitInv, Counted
  <2>2. CASE DeniesKey(now)
    BY <2>2 DEF DeniesKey, LimitInv, AdmittedSound, AdmittedAt
  <2>3. QED
    BY <1>1, <2>1, <2>2 DEF OpensBucket, CountsIn
<1>7. \E P, C : Shares(P, C)'
  BY <1>1, AdmitOpens, AdmitCounts, AdmitDenies
<1>8. denied' # Out => denied' \in Nat /\ policy.max <= denied'
  BY <1>1, AdmitDenies DEF OpensBucket, CountsIn, Counted, LimitInv
<1>9. QED
  BY <1>4, <1>5, <1>6, <1>7, <1>8 DEF LimitInv

LEMMA TickKeeps == LimitInv /\ Tick => LimitInv'
<1> SUFFICES ASSUME LimitInv, Tick PROVE LimitInv'
  OBVIOUS
<1>1. /\ policy.max \in Nat \ {0} /\ policy.window \in Nat \ {0} /\ MaxStall \in Nat /\ clock \in Nat
  BY PolicyShape DEF LimitInv, LimitType
<1>2. /\ clock' = clock + 1 /\ UNCHANGED <<policy, bucket, caller, sweeper, denied>>
      /\ admitted' = {a \in admitted : a.at > clock' - policy.window - MaxStall}
  BY DEF Tick
<1>3. LimitType'
  <2>1. \A now \in {caller[c] : c \in Callers} \cup {sweeper} : now # Out => clock - now < MaxStall
    BY DEF Tick
  <2>2. ASSUME NEW c \in Callers, caller[c] # Out
        PROVE  /\ caller[c] \in Nat /\ caller[c] <= clock + 1 /\ clock + 1 <= caller[c] + MaxStall
    <3>1. caller[c] \in Nat /\ caller[c] <= clock
      BY <2>2 DEF LimitInv, LimitType, ReadLately
    <3>2. clock - caller[c] < MaxStall
      BY <2>1, <2>2
    <3>3. QED
      BY <1>1, <3>1, <3>2
  <2>3. \A c \in Callers : caller'[c] # Out => ReadLately(caller[c])'
    BY <1>2, <2>2 DEF ReadLately
  <2>4. sweeper' # Out => ReadLately(sweeper)'
    <3>1. sweeper # Out => sweeper \in Nat /\ sweeper <= clock /\ clock - sweeper < MaxStall
      BY <2>1 DEF LimitInv, LimitType, ReadLately
    <3>2. sweeper # Out => sweeper <= clock + 1 /\ clock + 1 <= sweeper + MaxStall
      BY <1>1, <3>1
    <3>3. QED
      BY <1>2, <3>1, <3>2 DEF ReadLately
  <2>5. QED
    BY <1>1, <1>2, <2>3, <2>4 DEF LimitInv, LimitType, ReadLately
<1>4. IsFiniteSet(admitted) /\ admitted' \in SUBSET admitted /\ IsFiniteSet(admitted')
  BY <1>2, Smaller DEF LimitInv, AdmittedSound
<1>5. \A a \in admitted : a.at \in Nat /\ a.at <= clock
  BY DEF LimitInv, AdmittedSound
<1>6. AdmittedSound'
  <2>1. ASSUME NEW a \in admitted' PROVE AdmittedAt(a.at)' = AdmittedAt(a.at)
    BY <1>2, <2>1 DEF AdmittedAt
  <2>2. ASSUME NEW a \in admitted'
        PROVE  /\ a = [at |-> a.at, nth |-> a.nth]
               /\ a.at \in Nat /\ a.nth \in Nat /\ a.at <= clock'
               /\ a.nth < Cardinality(AdmittedAt(a.at)')
    <3>1. a \in admitted
      BY <1>4
    <3>2. a = [at |-> a.at, nth |-> a.nth] /\ a.at \in Nat /\ a.nth \in Nat /\ a.at <= clock
          /\ a.nth < Cardinality(AdmittedAt(a.at))
      BY <3>1 DEF LimitInv, AdmittedSound
    <3>3. QED
      BY <1>1, <1>2, <2>1, <3>2
  <2>3. QED
    BY <1>4, <2>2 DEF AdmittedSound, AdmittedAt
<1>7. ASSUME NEW S \in SUBSET admitted
      PROVE  /\ S \cap admitted' \in SUBSET admitted' /\ Cardinality(S \cap admitted') \in Nat
             /\ Cardinality(S \cap admitted') <= Cardinality(S) /\ Cardinality(S) \in Nat
  <2>1. IsFiniteSet(S)
    BY <1>4, Smaller
  <2>2. QED
    BY <2>1, Smaller
<1>8. ASSUME bucket # NoBucket PROVE \E P, C : Shares(P, C)'
  <2>1. PICK P, C : Shares(P, C)
    BY <1>8 DEF LimitInv
  <2>2. bucket.start \in Nat /\ bucket.count \in Nat
    BY <1>1, <1>8 DEF LimitInv, LimitType
  <2>8. PICK Q, D : Q = P \cap admitted' /\ D = C \cap admitted'
    OBVIOUS
  <2>3. /\ Q \in SUBSET admitted' /\ Cardinality(Q) <= policy.max
        /\ D \in SUBSET admitted' /\ Cardinality(D) <= bucket.count
    BY <1>1, <1>7, <2>1, <2>2, <2>8 DEF Shares
  <2>4. ASSUME clock' < bucket.start + policy.window + MaxStall PROVE Cardinality(D) = bucket.count
    <3>1. \A a \in C : a \in admitted'
      BY <1>1, <1>2, <1>5, <2>1, <2>2, <2>4 DEF Shares
    <3>2. D = C
      BY <2>8, <3>1
    <3>3. clock < bucket.start + policy.window + MaxStall
      BY <1>1, <1>2, <2>2, <2>4
    <3>4. QED
      BY <2>1, <3>2, <3>3 DEF Shares
  <2>5. /\ \A a \in D : bucket.start <= a.at
        /\ \A a \in admitted' \ D : a.at <= bucket.start + MaxStall
        /\ \A a \in admitted' \ (Q \cup D) : a.at + policy.window <= bucket.start + MaxStall
    BY <1>4, <2>1, <2>8 DEF Shares
  <2>6. Shares(Q, D)'
    BY <1>2, <2>3, <2>4, <2>5 DEF Shares
  <2>7. QED
    BY <2>6
<1>9. ASSUME bucket = NoBucket PROVE \E P : Leftover(P)'
  <2>1. PICK P : Leftover(P)
    BY <1>9 DEF LimitInv
  <2>6. PICK Q : Q = P \cap admitted'
    OBVIOUS
  <2>2. Q \in SUBSET admitted' /\ Cardinality(Q) <= policy.max
    BY <1>1, <1>7, <2>1, <2>6 DEF Leftover
  <2>3. \A a \in admitted' \ Q :
          /\ a.at + policy.window <= clock'
          /\ \A c \in Callers : caller[c] # Out => a.at + policy.window <= caller[c] + MaxStall
    BY <1>1, <1>2, <1>4, <1>5, <2>1, <2>6 DEF Leftover
  <2>4. Leftover(Q)'
    BY <1>2, <2>2, <2>3 DEF Leftover
  <2>5. QED
    BY <2>4
<1>10. QED
  BY <1>2, <1>3, <1>6, <1>8, <1>9 DEF LimitInv

\* Neither reading the clock nor dropping a reading disturbs the rest.
LEMMA ReadKeeps ==
  ASSUME LimitInv, UNCHANGED <<policy, clock, bucket, admitted, denied>>,
         caller' \in [Callers -> Nat \cup {Out}],
         \A c \in Callers : caller'[c] \in {caller[c], clock, Out},
         sweeper' \in {sweeper, clock, Out}
  PROVE  LimitInv'
<1>1. clock \in Nat /\ MaxStall \in Nat /\ policy.window \in Nat
  BY PolicyShape DEF LimitInv, LimitType
<1>2. ReadLately(clock)
  BY <1>1 DEF ReadLately
<1>3. LimitType'
  BY <1>2 DEF LimitInv, LimitType, ReadLately
<1>4. AdmittedSound'
  BY DEF LimitInv, AdmittedSound, AdmittedAt
<1>5. \A P, C : Shares(P, C) => Shares(P, C)'
  BY DEF Shares
<1>6. ASSUME NEW P, Leftover(P) PROVE Leftover(P)'
  <2>1. \A a \in admitted : a.at \in Nat
    BY DEF LimitInv, AdmittedSound
  <2>2. ASSUME NEW a \in admitted \ P, NEW c \in Callers, caller'[c] # Out
        PROVE  a.at + policy.window <= caller'[c] + MaxStall
    <3>1. CASE caller'[c] = clock
      BY <1>1, <1>6, <2>1, <3>1 DEF Leftover
    <3>2. CASE caller'[c] = caller[c]
      BY <1>6, <2>2, <3>2 DEF Leftover
    <3>3. QED
      BY <2>2, <3>1, <3>2
  <2>3. QED
    BY <1>6, <2>2 DEF Leftover
<1>7. QED
  BY <1>3, <1>4, <1>5, <1>6 DEF LimitInv

LEMMA SweepKeeps == LimitInv /\ SweepEntry => LimitInv'
<1> SUFFICES ASSUME LimitInv, SweepEntry PROVE LimitInv'
  OBVIOUS
<1>1. CASE bucket' = bucket
  BY <1>1, ReadKeeps DEF SweepEntry, LimitInv, LimitType
<1>2. CASE bucket # NoBucket /\ is_idle(bucket, sweeper) /\ bucket' = NoBucket
  <2>1. /\ policy.max \in Nat /\ policy.window \in Nat \ {0} /\ MaxStall \in Nat /\ IdleTTL \in Nat
        /\ IdleTTL >= policy.window + MaxStall
        /\ clock \in Nat /\ bucket.start \in Nat /\ bucket.count \in 1..policy.max
        /\ sweeper \in Nat /\ sweeper <= clock
    BY <1>2, PolicyShape DEF LimitInv, LimitType, ReadLately, SweepEntry
  <2>2. bucket.start + policy.window + MaxStall <= sweeper
    BY <1>2, <2>1 DEF is_idle, SaturatingSince
  <2>3. UNCHANGED <<policy, clock, caller, admitted, denied>> /\ sweeper' = Out
    BY DEF SweepEntry
  <2>4. LimitType' /\ AdmittedSound'
    BY <1>2, <2>3 DEF LimitInv, LimitType, AdmittedSound, AdmittedAt, ReadLately
  <2>5. PICK P, C : Shares(P, C)
    BY <1>2 DEF LimitInv
  <2>6. Cardinality(C) <= policy.max
    <3>1. Cardinality(C) \in Nat
      BY <2>5, Smaller DEF LimitInv, AdmittedSound, Shares
    <3>2. QED
      BY <2>1, <2>5, <3>1 DEF Shares
  <2>7. ASSUME NEW a \in admitted \ C
        PROVE  /\ a.at + policy.window <= clock
               /\ \A c \in Callers : caller[c] # Out => a.at + policy.window <= caller[c] + MaxStall
    <3>1. a.at \in Nat /\ a.at <= bucket.start + MaxStall
      BY <2>5 DEF LimitInv, AdmittedSound, Shares
    <3>2. a.at + policy.window <= clock
      BY <2>1, <2>2, <3>1
    <3>3. ASSUME NEW c \in Callers, caller[c] # Out PROVE a.at + policy.window <= caller[c] + MaxStall
      <4>1. caller[c] \in Nat /\ clock <= caller[c] + MaxStall
        BY <3>3 DEF LimitInv, LimitType, ReadLately
      <4>2. QED
        BY <2>1, <3>1, <3>2, <4>1
    <3>4. QED
      BY <3>2, <3>3
  <2>8. Leftover(C)'
    BY <2>3, <2>5, <2>6, <2>7 DEF Leftover, Shares
  <2>9. QED
    BY <1>2, <2>3, <2>4, <2>8 DEF LimitInv
<1>3. QED
  BY <1>1, <1>2 DEF SweepEntry

LEMMA LimitStep == LimitInv /\ [LimitNext]_limitVars => LimitInv'
<1> SUFFICES ASSUME LimitInv, [LimitNext]_limitVars PROVE LimitInv'
  OBVIOUS
<1>1. clock \in Nat /\ MaxStall \in Nat /\ caller \in [Callers -> Nat \cup {Out}] /\ ReadLately(clock)
  BY PolicyShape DEF LimitInv, LimitType, ReadLately
<1>2. ASSUME NEW c \in Callers, ReadClock(c) PROVE LimitInv'
  <2>1. caller' = [caller EXCEPT ![c] = clock]
    BY <1>2 DEF ReadClock
  <2>2. caller' \in [Callers -> Nat \cup {Out}] /\ \A d \in Callers : caller'[d] \in {caller[d], clock, Out}
    BY <1>1, <2>1
  <2>3. QED
    BY <1>2, <2>2, ReadKeeps DEF ReadClock
<1>3. ASSUME NEW c \in Callers, Check(c) PROVE LimitInv'
  <2>1. ReadLately(caller[c]) /\ TheirReading(caller[c])
    BY <1>3 DEF Check, LimitInv, LimitType, TheirReading
  <2>2. QED
    BY <1>3, <2>1, AdmitKeeps DEF Check
<1>4. CASE CheckCap
  BY <1>1, <1>4, AdmitKeeps DEF CheckCap, TheirReading
<1>5. CASE SweepStart
  BY <1>1, <1>5, ReadKeeps DEF SweepStart
<1>6. CASE UNCHANGED limitVars
  BY <1>1, <1>6, ReadKeeps DEF limitVars
<1>7. QED
  BY <1>2, <1>3, <1>4, <1>5, <1>6, TickKeeps, SweepKeeps DEF LimitNext

LEMMA LimitStarts == LimitInit => LimitInv
<1> SUFFICES ASSUME LimitInit PROVE LimitInv
  OBVIOUS
<1>1. LimitType
  BY DEF LimitInit, LimitType, Out
<1>2. AdmittedSound
  BY FS_EmptySet DEF LimitInit, AdmittedSound
<1>3. Leftover({})
  BY <1>1, FS_EmptySet, PolicyShape DEF LimitInit, Leftover
<1>4. QED
  BY <1>1, <1>2, <1>3 DEF LimitInv, LimitInit

(* The bucket, what was admitted under it and the readings still in use agree,
   for any policies, callers and clock (check_and_consume, sweep_idle). *)
THEOREM LimitInvariance == LimitSpec => []LimitInv
BY LimitStarts, LimitStep, PTL DEF LimitSpec

LEMMA InvTwice == LimitInv => AtMostTwice
<1> SUFFICES ASSUME LimitInv PROVE AtMostTwice
  OBVIOUS
<1> DEFINE recent == {a \in admitted : a.at > clock - policy.window + MaxStall}
<1>1. /\ policy.max \in Nat /\ policy.window \in Nat /\ MaxStall \in Nat /\ clock \in Nat
      /\ IsFiniteSet(admitted) /\ \A a \in admitted : a.at \in Nat
  BY PolicyShape DEF LimitInv, LimitType, AdmittedSound
<1>2. ASSUME NEW P \in SUBSET admitted, NEW C \in SUBSET admitted,
             Cardinality(P) <= policy.max, Cardinality(C) <= policy.max, recent \subseteq P \cup C
      PROVE  Cardinality(recent) <= 2 * policy.max
  <2>1. IsFiniteSet(P) /\ IsFiniteSet(C) /\ Cardinality(P) \in Nat /\ Cardinality(C) \in Nat
    BY <1>1, Smaller
  <2>2. IsFiniteSet(P \cup C) /\ Cardinality(P \cup C) <= Cardinality(P) + Cardinality(C)
    <3>1. /\ IsFiniteSet(P \cup C) /\ IsFiniteSet(P \cap C)
          /\ Cardinality(P \cup C) = Cardinality(P) + Cardinality(C) - Cardinality(P \cap C)
      BY <2>1, FS_Union, FS_Subset
    <3>2. Cardinality(P \cap C) \in Nat
      BY <3>1, FS_CardinalityType
    <3>3. QED
      BY <2>1, <3>1, <3>2
  <2>3. Cardinality(recent) \in Nat /\ Cardinality(recent) <= Cardinality(P \cup C) /\ Cardinality(P \cup C) \in Nat
    BY <1>2, <2>2, Smaller
  <2> HIDE DEF recent
  <2>4. QED
    BY <1>1, <1>2, <2>1, <2>2, <2>3
<1>3. CASE bucket = NoBucket
  <2>1. PICK P : Leftover(P)
    BY <1>3 DEF LimitInv
  <2>2. recent \subseteq P \cup P
    BY <1>1, <2>1 DEF Leftover
  <2>3. QED
    BY <1>2, <2>1, <2>2 DEF Leftover, AtMostTwice
<1>4. CASE bucket # NoBucket
  <2>1. PICK P, C : Shares(P, C)
    BY <1>4 DEF LimitInv
  <2>2. bucket.start \in Nat /\ bucket.start <= clock /\ bucket.count \in 1..policy.max
    BY <1>4 DEF LimitInv, LimitType
  <2>3. recent \subseteq P \cup C
    BY <1>1, <2>1, <2>2 DEF Shares
  <2>4. Cardinality(C) <= policy.max
    <3>1. Cardinality(C) \in Nat
      BY <1>1, <2>1, Smaller DEF Shares
    <3>2. QED
      BY <1>1, <2>1, <2>2, <3>1 DEF Shares
  <2>5. QED
    BY <1>2, <2>1, <2>3, <2>4 DEF Shares, AtMostTwice
<1>5. QED
  BY <1>3, <1>4

\* rate_limit.rs: for any policies, callers and clock readings, a key is
\* admitted at most twice its maximum in a window less the stall, and denied
\* only when it has used the quota, though readings reach the bucket out of
\* order and the sweeper decides by an old one.
THEOREM QuotaAlwaysKept == LimitSpec => []QuotaKept
<1>1. LimitInv => QuotaKept
  BY InvTwice DEF LimitInv, QuotaKept, DeniedOnlyOverQuota
<1>2. QED
  BY <1>1, LimitInvariance, PTL
=============================================================================
