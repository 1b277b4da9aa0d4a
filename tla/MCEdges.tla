------------------------------ MODULE MCEdges ------------------------------
(* What surrounds a session: signing in, the streams to those who look at it,
   what it asks of a linked session, rate limits and the rotation of secrets.
   They share no state, so a behaviour is of one part and leaves the others as
   they began. *)
EXTENDS Identity, SessionStream, Delegation, RateLimit, SecretsRotation
CONSTANTS f1, f2, f3, x1, x2, x3, i1, google, github, e1, r1, r2, c1, c2, t1, w1, w2, a1, a2, p1, p2, k1, k2, d1, d2, q1, n1

VARIABLE part

edgesVars == <<part, vars, streamVars, delegationVars, limitVars, secretsVars>>

EdgesInit ==
    /\ part \in {"identity", "stream", "delegation", "limit", "secrets"}
    /\ Init /\ StreamInit /\ DelegationInit /\ LimitInit /\ SecretsInit
    /\ part # "stream" => setting = CHOOSE s \in Settings : TRUE
    /\ part # "delegation" => load = CHOOSE l \in Loads : TRUE
    /\ part # "limit" => policy = CHOOSE p \in Policies : TRUE
    /\ part # "secrets" => practice = CHOOSE p \in Practices : TRUE

EdgesNext ==
    \/ part = "identity" /\ Next /\ UNCHANGED <<part, streamVars, delegationVars, limitVars, secretsVars>>
    \/ part = "stream" /\ StreamNext /\ UNCHANGED <<part, vars, delegationVars, limitVars, secretsVars>>
    \/ part = "delegation" /\ DelegationNext /\ UNCHANGED <<part, vars, streamVars, limitVars, secretsVars>>
    \/ part = "limit" /\ LimitNext /\ UNCHANGED <<part, vars, streamVars, delegationVars, secretsVars>>
    \/ part = "secrets" /\ SecretsNext /\ UNCHANGED <<part, vars, streamVars, delegationVars, limitVars>>

EdgesSpec == EdgesInit /\ [][EdgesNext]_edgesVars

(* Two people with one subject string at two providers, the first of whom
   signs in from two browsers, while the second has no e-mail; invites
   addressed to the first or to the empty string, which nothing rejects. *)
MCIdentities == {[sub |-> "alice", provider |-> google, email |-> e1],
                 [sub |-> "alice", provider |-> github, email |-> NoEmail]}

Ev(r, how, kind) == [on |-> r, how |-> how, kind |-> kind]
All == {"open", "redacted", "withheld"}
Clients(script, ss, leavers) ==
    [script |-> script, hosts |-> {script[i].on : i \in DOMAIN script}, sockets |-> ss,
     leavers |-> leavers, readers |-> {}, watchers |-> {}, kills |-> 0, filter |-> [w \in Readers |-> All]]
Pollers(script, rs, ws, n) ==
    [Clients(script, {}, {}) EXCEPT !.readers = rs, !.watchers = ws, !.kills = n,
                                    !.filter[w1] = {"open"}]
MCSettings ==
    {\* a client's event and the server's own, with two clients attaching
     Clients(<<Ev(r1, "ws", "open"), Ev(r1, "emit", "open")>>, {c1, c2}, {}),
     \* the session task beside the server's own
     Clients(<<Ev(r1, "task", "open"), Ev(r1, "emit", "open")>>, {c1, c2}, {}),
     Clients(<<Ev(r1, "task", "silent")>>, {c1}, {c1}),
     \* gated events, one of the clients below the bar
     Clients(<<Ev(r1, "emit", "redacted"), Ev(r1, "emit", "withheld")>>, {c1, c2}, {}),
     \* clients that leave while others come
     Clients(<<Ev(r1, "emit", "open")>>, {c1, c2}, {c1, c2}),
     \* the dashboard
     Clients(<<Ev(r1, "emit", "open"), Ev(r1, "emit", "open")>>, {t1}, {}),
     \* two replicas
     Clients(<<Ev(r1, "emit", "open"), Ev(r2, "emit", "open")>>, {c1}, {c1}),
     \* two watchers of one user, which share the file; a watcher beside a feed
     Pollers(<<Ev(r1, "emit", "open"), Ev(r1, "emit", "withheld"), Ev(r1, "emit", "redacted")>>, {w1, w2}, {w1, w2}, 1),
     Pollers(<<Ev(r1, "emit", "open"), Ev(r1, "emit", "open"), Ev(r1, "emit", "withheld")>>, {w1, w2}, {w1}, 1)}

(* Two hand-overs of one delegation; two delegations of one approval; one beside a note. *)
Load(used, n) == [x \in Asks \cup Notes |-> IF x \in used THEN n ELSE 0]
MCLoads == {Load({d1}, 2), Load({d1, d2}, 1), Load({d1, n1}, 1)}

MCPolicies == {[max |-> 1, window |-> 3, cap |-> FALSE],
               [max |-> 2, window |-> 2, cap |-> FALSE],
               [max |-> 2, window |-> 2, cap |-> TRUE]}

(* One careful operator with two keys; two rotations at once with one. *)
MCPractices == {[atonce |-> 1, apart |-> TRUE, keep |-> TRUE, holders |-> {k1, k2}],
                [atonce |-> 2, apart |-> FALSE, keep |-> FALSE, holders |-> {k1}]}
============================================================================
