---------------------------- MODULE AgentPresence ----------------------------
(* How the session server learns that an agent is attached.  An MCP client
   opens a stream on the adapter (crates/sidecar/src/proxy.rs) or initializes
   over plain POSTs; the adapter tells the shim once per process, the shim
   (crates/shim/src/main.rs, session.rs) posts agent-attach from a task of its
   own and beats every few seconds, and the server (routes/sessions.rs, ws.rs)
   sweeps agents whose heartbeat has lapsed.

   The route agent-detach has no caller here: the shim posts it when the
   adapter reports that a stream ended, the adapter reports it when the
   stream's channel has lost its last sender, and that sender sits in
   sse_streams until the very report removes it (the variable mapped).        *)
EXTENDS Naturals, FiniteSets

CONSTANTS Clients     \* MCP clients of this adapter

VARIABLES
  up,         \* the shim process runs
  beating,    \* its heartbeat loop still runs
  announced,  \* ProxyState.announced_once
  streams,    \* client -> "none", "open", "closed": its GET /sse
  mapped,     \* sse_streams: the clients whose sender is registered
  posts,      \* agent-attach requests on their way to the server
  usable,     \* the agent's capability is live at the server
  logged,     \* attached, as the event log and the stored snapshot say
  live,       \* attached, as the hub's live snapshot says
  beat,       \* hub.agent_heartbeats: "none", "fresh" or "stale"
  verdict,    \* dead_heartbeat_caps holds the capability
  restarted   \* the server has restarted

presence == <<up, beating, announced, streams, mapped, posts, usable, logged,
              live, beat, verdict, restarted>>

FlagsOK ==
  /\ up \in BOOLEAN /\ beating \in BOOLEAN /\ announced \in BOOLEAN /\ usable \in BOOLEAN
  /\ logged \in BOOLEAN /\ live \in BOOLEAN /\ verdict \in BOOLEAN /\ restarted \in BOOLEAN

PresenceTypeOK ==
  /\ FlagsOK
  /\ streams \in [Clients -> {"none", "open", "closed"}]
  /\ mapped \subseteq Clients
  /\ posts \in 0..1
  /\ beat \in {"none", "fresh", "stale"}

PresenceInit ==
  /\ up = TRUE /\ beating = TRUE /\ announced = FALSE
  /\ streams = [k \in Clients |-> "none"] /\ mapped = {}
  /\ posts = 0 /\ usable = TRUE
  /\ logged = FALSE /\ live = FALSE
  /\ beat = "none" /\ verdict = FALSE /\ restarted = FALSE

(* compare_exchange on announced_once, then notify_connected: the shim's reader
   spawns the task that posts agent-attach; nobody reads the channel of a shim
   that is gone. *)
Announce ==
  /\ announced' = TRUE
  /\ posts' = IF ~announced /\ up THEN posts + 1 ELSE posts

OpenStream(k) ==
  /\ streams[k] # "open"
  /\ streams' = [streams EXCEPT ![k] = "open"]
  /\ mapped' = mapped \cup {k}
  /\ Announce
  /\ UNCHANGED <<up, beating, usable, logged, live, beat, verdict, restarted>>

(* An initialize the upstream answered, over either transport. *)
Initialize ==
  /\ Announce
  /\ UNCHANGED <<up, beating, streams, mapped, usable, logged, live, beat, verdict,
                 restarted>>

(* The client goes: the response body is dropped with the receiving end. *)
CloseStream(k) ==
  /\ streams[k] = "open"
  /\ streams' = [streams EXCEPT ![k] = "closed"]
  /\ UNCHANGED <<up, beating, announced, mapped, posts, usable, logged, live, beat,
                 verdict, restarted>>

(* agent_attach: authorized by the capability, rate limited, then ActorJoined is
   committed, which also renews the live snapshot.  The request may fail. *)
Attach(ok) ==
  /\ posts > 0
  /\ posts' = posts - 1
  /\ logged' = (logged \/ (ok /\ usable))
  /\ live' = (live \/ (ok /\ usable))
  /\ UNCHANGED <<up, beating, announced, streams, mapped, usable, beat, verdict, restarted>>

(* agent_heartbeat: a dead capability's verdict is kept, a refusal ends the
   shim's loop, anything else renews the entry of this hub. *)
HeartbeatRefused == verdict \/ ~usable
Heartbeat ==
  /\ up /\ beating
  /\ verdict' = HeartbeatRefused
  /\ beating' = ~HeartbeatRefused
  /\ beat' = IF HeartbeatRefused THEN beat ELSE "fresh"
  /\ UNCHANGED <<up, announced, streams, mapped, posts, usable, logged, live, restarted>>

(* AGENT_STALE_THRESHOLD_SECS pass without a beat.  A request on its way takes
   far less than the threshold. *)
Lapse ==
  /\ beat = "fresh" /\ posts = 0
  /\ beat' = "stale"
  /\ UNCHANGED <<up, beating, announced, streams, mapped, posts, usable, logged, live,
                 verdict, restarted>>

\* Mutant: the sweeper forgets the entry and tells nobody.
SweepSilently ==
  /\ beat = "stale"
  /\ beat' = "none"
  /\ UNCHANGED <<up, beating, announced, streams, mapped, posts, usable, logged, live,
                 verdict, restarted>>

(* sweep_stale_agents: broadcast_presence changes the live snapshot; no event is
   committed. *)
Sweep ==
  /\ beat = "stale"
  /\ beat' = "none"
  /\ live' = FALSE
  /\ UNCHANGED <<up, beating, announced, streams, mapped, posts, usable, logged,
                 verdict, restarted>>

CapDies ==
  /\ usable
  /\ usable' = FALSE
  /\ UNCHANGED <<up, beating, announced, streams, mapped, posts, logged, live, beat,
                 verdict, restarted>>

(* The server restarts: hubs, heartbeats and verdicts are memory; the snapshot
   is loaded from its row again. *)
ServerRestart ==
  /\ ~restarted
  /\ restarted' = TRUE
  /\ live' = logged
  /\ beat' = "none"
  /\ verdict' = FALSE
  /\ UNCHANGED <<up, beating, announced, streams, mapped, posts, usable, logged>>

PresenceStep ==
  \/ \E k \in Clients : OpenStream(k) \/ CloseStream(k)
  \/ Initialize
  \/ \E ok \in BOOLEAN : Attach(ok)
  \/ Heartbeat \/ Lapse \/ Sweep \/ CapDies \/ ServerRestart

(* An agent whose shim died after a heartbeat was recorded does not stay
   attached for good: the sweeper finds the lapsed entry.  (A server restart
   drops the entries, and with them the sweeper's knowledge.) *)
DeadDetached == (~up /\ live /\ beat # "none") ~> (~live \/ restarted)
=============================================================================
