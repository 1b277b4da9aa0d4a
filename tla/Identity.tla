------------------------------ MODULE Identity ------------------------------
(***************************************************************************)
(* Signing in: the OIDC round trip, the actor an identity resolves to, the *)
(* sp_tokens it is given, and the mailbox that must show an invite         *)
(* addressed to an e-mail whether its reader had an account before the     *)
(* invite was written or got one later.                                    *)
(*                                                                         *)
(* An identity is a subject at a provider; several may share a subject or  *)
(* an e-mail.  Every callback and every create_invite awaits the database  *)
(* between its steps, so both are handlers in flight.                      *)
(***************************************************************************)
EXTENDS Naturals, FiniteSets

CONSTANTS Identities,  \* [sub, provider, email] records
          NoEmail,     \* the empty string an actor gets whose claims have no e-mail
          Flows,       \* state parameters of login attempts
          Actors,      \* ids create_human may hand out
          Invites, None,
          MaxCallbacks \* how often a browser may replay a callback

\* None is what a row not yet written holds; claims without an e-mail have NoEmail.
ASSUME IdentitiesAssumption ==
  None \notin Identities /\ \A id \in Identities : id.email # None

VARIABLES
  pending,   \* OidcState.pending: state parameters not yet used
  flow,      \* callbacks in flight
  calls,     \* callbacks received per state parameter (a bound)
  actor,     \* the actors table: the e-mail of each actor
  tokens,    \* human_sessions
  invite,    \* session_invites, as the mailbox sees them
  writer,    \* create_invite handlers in flight
  routes,    \* mailbox_routes: <<actor, invite>>
  issued,    \* history: sp_tokens issued per state parameter
  maker,     \* history: the identity each actor was created for
  swept      \* history: actors whose first login got past its backfill

vars == <<pending, flow, calls, actor, tokens, invite, writer, routes, issued, maker, swept>>

Idle == [stage |-> "idle"]

Init ==
  /\ pending = {}
  /\ flow = [f \in Flows |-> Idle]
  /\ calls = [f \in Flows |-> 0]
  /\ actor = [x \in Actors |-> None]
  /\ tokens = {}
  /\ invite = [i \in Invites |-> [st |-> "unused"]]
  /\ writer = [i \in Invites |-> "idle"]
  /\ routes = {}
  /\ issued = [f \in Flows |-> 0]
  /\ maker = [x \in Actors |-> None]
  /\ swept = {}

Mail == <<invite, writer, routes>>

---------------------------------------------------------------------------
(* Login. *)

\* oidc_start: a fresh state parameter; which of the unused ones is immaterial.
Unused == {f \in Flows : calls[f] = 0 /\ f \notin pending}

OidcStart ==
  /\ Unused # {}
  /\ pending' = pending \cup {CHOOSE f \in Unused : TRUE}
  /\ UNCHANGED <<flow, calls, actor, tokens, issued, maker, swept, Mail>>

\* sweep_pending, or an entry the callback finds past its ten minutes.
SweepPending(f) ==
  /\ f \in pending
  /\ pending' = pending \ {f}
  /\ UNCHANGED <<flow, calls, actor, tokens, issued, maker, swept, Mail>>

\* oidc_callback up to the verified claims: the state parameter is removed
\* before anything else is looked at.
OidcCallback(f, id) ==
  /\ calls[f] < MaxCallbacks /\ flow[f].stage = "idle" /\ f \in pending
  /\ calls' = [calls EXCEPT ![f] = @ + 1]
  /\ pending' = pending \ {f}
  /\ flow' = [flow EXCEPT ![f] = [stage |-> "resolve", id |-> id]]
  /\ UNCHANGED <<actor, tokens, issued, maker, swept, Mail>>

\* Mutant: the provider is left out of the key.
KnownAsSubOnly(id) == {t.actor : t \in {u \in tokens : u.id.sub = id.sub}}

\* find_actor_by_sub: read from the tokens, expired ones included.
KnownAs(id) == {t.actor : t \in {u \in tokens : u.id.sub = id.sub
                                                /\ u.id.provider = id.provider}}

\* sub_to_actor_id, its first query; a first login may be refused by the
\* ActorCreate limit.
Resolve(f) ==
  LET id == flow[f].id IN
  /\ flow[f].stage = "resolve"
  /\ \/ \E x \in KnownAs(id) :
          flow' = [flow EXCEPT ![f] = [stage |-> "issue", id |-> id, actor |-> x]]
     \/ /\ KnownAs(id) = {}
        /\ flow' = [flow EXCEPT ![f] = [stage |-> "create", id |-> id]]
     \/ /\ KnownAs(id) = {}
        /\ flow' = [flow EXCEPT ![f] = Idle]
  /\ UNCHANGED <<pending, calls, actor, tokens, issued, maker, swept, Mail>>

\* create_human: a fresh ulid.
Unborn == {x \in Actors : maker[x] = None}

CreateHuman(f) ==
  LET id == flow[f].id IN
  /\ flow[f].stage = "create" /\ Unborn # {}
  /\ LET x == CHOOSE x \in Unborn : TRUE IN
       /\ actor' = [actor EXCEPT ![x] = id.email]
       /\ maker' = [maker EXCEPT ![x] = id]
       /\ flow' = [flow EXCEPT ![f] = [stage |-> "backfill", id |-> id, actor |-> x]]
  /\ UNCHANGED <<pending, calls, tokens, issued, swept, Mail>>

\* backfill_for_email: routes for the open invites addressed to the e-mail, if
\* there is one.  A failure leaves some out and does not end the login.
Addressed(email) == {i \in Invites : invite[i].st = "open" /\ invite[i].email = email}

Backfill(f) ==
  LET q == flow[f] IN
  /\ q.stage = "backfill"
  /\ IF q.id.email = NoEmail THEN UNCHANGED <<routes, swept>>
     ELSE \E some \in SUBSET Addressed(q.id.email) :
            /\ routes' = routes \cup {<<q.actor, i>> : i \in some}
            /\ swept' = IF some = Addressed(q.id.email) THEN swept \cup {q.actor} ELSE swept
  /\ flow' = [flow EXCEPT ![f] = [stage |-> "issue", id |-> q.id, actor |-> q.actor]]
  /\ UNCHANGED <<pending, calls, actor, tokens, issued, maker, invite, writer>>

\* human_sessions::create and the redirect that carries the token.
IssueToken(f) ==
  LET q == flow[f] IN
  /\ q.stage = "issue"
  /\ tokens' = tokens \cup {[flow |-> f, n |-> issued[f], actor |-> q.actor, id |-> q.id]}
  /\ issued' = [issued EXCEPT ![f] = @ + 1]
  /\ flow' = [flow EXCEPT ![f] = Idle]
  /\ UNCHANGED <<pending, calls, actor, maker, swept, Mail>>

\* The request dies between two of its queries, perhaps with an actor made
\* and neither a backfill nor a token.
AbandonLogin(f) ==
  /\ flow[f].stage \in {"create", "backfill", "issue"}
  /\ flow' = [flow EXCEPT ![f] = Idle]
  /\ UNCHANGED <<pending, calls, actor, tokens, issued, maker, swept, Mail>>

\* oidc_logout and revoke_session delete the row.
Logout(t) ==
  /\ t \in tokens
  /\ tokens' = tokens \ {t}
  /\ UNCHANGED <<pending, flow, calls, actor, issued, maker, swept, Mail>>

---------------------------------------------------------------------------
(* Invites on their way to a mailbox. *)

\* create_invite inserts the row ...
WriteInvite(i, email) ==
  /\ invite[i].st = "unused"
  /\ invite' = [invite EXCEPT ![i] = [st |-> "open", email |-> email]]
  /\ writer' = [writer EXCEPT ![i] = "route"]
  /\ UNCHANGED <<pending, flow, calls, actor, tokens, issued, maker, swept, routes>>

Holders(email) == {x \in Actors : actor[x] = email}

\* Mutant: only an addressee who is signed in is found.
RouteInviteSignedIn(i) ==
  LET found == Holders(invite[i].email) \cap {t.actor : t \in tokens} IN
  /\ writer[i] = "route"
  /\ IF found = {} THEN UNCHANGED routes
     ELSE \E x \in found : routes' = routes \cup {<<x, i>>}
  /\ writer' = [writer EXCEPT ![i] = "done"]
  /\ UNCHANGED <<pending, flow, calls, actor, tokens, issued, maker, swept, invite>>

\* ... and then looks the addressee up and routes to one actor, if any; a
\* failure of either is answered with delivery_failed.
RouteInvite(i) ==
  /\ writer[i] = "route"
  /\ \/ /\ IF Holders(invite[i].email) = {} THEN UNCHANGED routes
           ELSE \E x \in Holders(invite[i].email) : routes' = routes \cup {<<x, i>>}
        /\ writer' = [writer EXCEPT ![i] = "done"]
     \/ UNCHANGED routes /\ writer' = [writer EXCEPT ![i] = "failed"]
  /\ UNCHANGED <<pending, flow, calls, actor, tokens, issued, maker, swept, invite>>

\* Redeemed, revoked or expired.
CloseInvite(i) ==
  /\ invite[i].st = "open"
  /\ invite' = [invite EXCEPT ![i].st = "closed"]
  /\ UNCHANGED <<pending, flow, calls, actor, tokens, issued, maker, swept, writer, routes>>

---------------------------------------------------------------------------
Next ==
  \/ OidcStart
  \/ \E f \in Flows :
       \/ SweepPending(f)
       \/ \E id \in Identities : OidcCallback(f, id)
       \/ Resolve(f) \/ CreateHuman(f) \/ Backfill(f) \/ IssueToken(f)
       \/ AbandonLogin(f)
  \/ \E t \in tokens : Logout(t)
  \/ \E i \in Invites :
       \/ \E id \in Identities : WriteInvite(i, id.email)
       \/ RouteInvite(i) \/ CloseInvite(i)

Spec == Init /\ [][Next]_vars

---------------------------------------------------------------------------
(* Tokens name actors that exist, for the identity they were created for or
   another of the same subject, and handlers are where the code awaits. *)
IdentityTypeOK ==
  /\ \A f \in Flows : flow[f].stage \in {"idle", "resolve", "create", "backfill", "issue"}
  /\ \A t \in tokens : t.actor \in Actors /\ maker[t.actor] # None
  /\ routes \subseteq Actors \X Invites
  /\ pending \subseteq Flows

(* A state parameter yields one token at most: the callback removes it
   before its first await, so a replayed redirect finds nothing. *)
StateUsedOnce == \A f \in Flows : issued[f] <= 1

(* A token speaks for an actor that was created for its own subject at its
   own provider, through any number of logouts and overlapping logins. *)
TokenOfItsIdentity ==
  \A t \in tokens : maker[t.actor].sub = t.id.sub
                    /\ maker[t.actor].provider = t.id.provider

(* An open invite whose handler answered "delivered" or "pending_first_login"
   is in the mailbox of an actor with its e-mail, once the first login of one
   of them is past a backfill that did not fail: the
   invite is inserted before the lookup and the actor before the backfill,
   so whichever comes second sees the other - even beside an actor whose
   login died before it had either a backfill or a token. *)
MailboxReached ==
  \A i \in Invites :
    (invite[i].st = "open" /\ writer[i] = "done"
       /\ \E x \in Holders(invite[i].email) : x \in swept)
    => \E x \in Holders(invite[i].email) : <<x, i>> \in routes

=============================================================================
