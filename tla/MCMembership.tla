---------------------------- MODULE MCMembership ----------------------------
(* Starting points: one session whose ownership is fought over by grants and
   transfers; the same with sockets and scheduled transfers; three sessions
   joined by links; and invites that race their revocation. *)
EXTENDS Membership
CONSTANTS s1, s2, s3, a, b, c, q1, q2, i1, p1, w1, w2

Nobody == [x \in Actors |-> None]
Solo == [s \in Sessions |-> IF s = s1 THEN [Nobody EXCEPT ![a] = "owner", ![b] = "collaborator"]
                            ELSE Nobody]
Apart == [s \in Sessions |-> CASE s = s1 -> [Nobody EXCEPT ![a] = "owner"]
                               [] s = s2 -> [Nobody EXCEPT ![b] = "owner"]
                               [] OTHER  -> [Nobody EXCEPT ![b] = "collaborator"]]

Scene(r, ops, n, ws) == [roles |-> r, ops |-> ops, budget |-> n, sweepers |-> ws]

MCScenes ==
  {Scene(Solo, {"add", "transfer", "abandon"}, 3, {}),
   Scene(Solo, {"transfer", "plan"}, 3, {w1}),
   Scene(Solo, {"socket", "plan"}, 3, {w1, w2}),
   Scene(Apart, {"link", "visit"}, 4, {}),
   Scene(Solo, {"attach", "join"}, 2, {}),
   Scene(Solo, {"invite", "redeem", "create"}, 4, {})}

=============================================================================
