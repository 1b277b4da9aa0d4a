----------------------------- MODULE MCAgentHost -----------------------------
(* Starting points: two commands that share the guardian, with bwrap or,
   as the environment allows it, without; a sandboxed command beside a forwarded call; two clients whose calls
   carry the same id; the kinds that never reach the guardian, the adapter's own
   tools among them; and the presence of an agent with two clients. *)
EXTENDS AgentHost
CONSTANTS c1, c2, i1, i2, k1, k2

Kinds(k, l) == [c \in Calls |-> IF c = c1 THEN k ELSE l]
Scene(k, l, i, j, open) ==
  [about |-> "calls", kinds |-> Kinds(k, l), failOpen |-> open, unsandboxed |-> FALSE,
   ids |-> [c \in Calls |-> IF c = c1 THEN i ELSE j]]

CallScenes ==
  {[Scene("exec", "exec", i1, i2, TRUE) EXCEPT !.unsandboxed = TRUE],
   Scene("exec", "tool", i1, i2, TRUE),
   Scene("tool", "tool", i1, i1, FALSE), Scene("plain", "tool", i1, i1, TRUE),
   Scene("meta", "forbidden", i1, i2, TRUE), Scene("local", "meta", i1, i2, FALSE),
   Scene("note", "board", i1, i2, FALSE)}
PresenceScene == [Scene("local", "local", i1, i2, FALSE) EXCEPT !.about = "presence"]

HostScenes == CallScenes \cup {PresenceScene}
=============================================================================
