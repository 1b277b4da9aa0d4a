------------------------------ MODULE MCContent ------------------------------
(* Starting points: two proposals on one artifact with PUTs between their
   steps; the same receipts under attestations and collectors; imports of one
   content from two sources with deletions; and remote fetches of a log. *)
EXTENDS Content
CONSTANTS s1, s2, x, y, r1, r2, q1, q2

Edit(k, b, c, claim) ==
  [kind |-> k, art |-> 1, at |-> s1, before |-> b, content |-> c, claimed |-> claim]
MCBodies == {Edit("patch", x, y, y), Edit("patch", x, y, x),
             Edit("context", x, y, y), Edit("malformed", x, y, y)}

Row(s, c) == [in |-> s, ref |-> c]
Scene(rows, bodies, ops, n) == [rows |-> rows, bodies |-> bodies, ops |-> ops, budget |-> n]
Entry == {Edit("context", x, y, y)}

MCScenes ==
  {Scene(<<Row(s1, x)>>, MCBodies, {"propose", "commit", "put", "abandon"}, 5),
   Scene(<<Row(s1, x)>>, MCBodies, {"propose", "commit", "delete"}, 4),
   Scene(<<Row(s1, x)>>, Entry, {"propose", "commit", "gc"}, 4),
   Scene(<<Row(s1, x)>>, Entry, {"propose", "attest", "gc"}, 3),
   Scene(<<Row(s1, x), Row(s1, x)>>, {}, {"import", "delete", "abandon"}, 4),
   Scene(<<Row(s1, x)>>, {}, {"create", "remote", "abandon"}, 5)}
=============================================================================
