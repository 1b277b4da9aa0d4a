--------------------------- MODULE MCSessionTask ---------------------------
(* A session with an owner and an agent, one approval, a two-step saga, a
   delegation, and two inbound bundles: a step that policy may gate on the
   approval and an acknowledgement of the saga's first step.  The histories
   are the event rows a task may find: they set the members, the capability,
   the interception rules and an epoch that fences the agent; in some the
   database fails now and then. *)
EXTENDS SessionTask

CONSTANTS o, g, c1, p1, s1, d1, b1, b2, none

MCSagas ==
    [s \in {s1, d1} |->
        IF s = s1 THEN [steps |-> 2, type |-> "custom", eligible |-> 1, source |-> none]
                  ELSE [steps |-> 1, type |-> "custom", eligible |-> 1, source |-> p1]]

MCBundles ==
    [b \in {b1, b2} |->
        IF b = b1 THEN [kind |-> "step", cap |-> c1, saga |-> s1, step |-> 0, out |-> "Committed", gate |-> p1]
                  ELSE [kind |-> "ack", cap |-> c1, saga |-> s1, step |-> 0, out |-> "Committed", gate |-> none]]

Members(policy) ==
    <<[k |-> "SessionCreated", a |-> o, policy |-> policy],
      [k |-> "ParticipantJoined", a |-> g, role |-> "collaborator"],
      [k |-> "CapDelegated", c |-> c1, a |-> g, epoch |-> 0]>>

Rule(t, r) == [k |-> "PolicySet", t |-> t, rule |-> r]

MCScenes ==
    {[rows |-> Members("single_vote"), inputs |-> {"saga", "ack", "admin"}],
     [rows |-> Members("single_vote"), inputs |-> {"saga", "ack", "outage"}],
     [rows |-> Members("single_vote"), inputs |-> {"delegate", "outage"}],
     [rows |-> Members("single_vote") \o <<Rule("step", "defer")>>, inputs |-> {"step", "presence", "outage"}],
     [rows |-> Members("single_vote"), inputs |-> {"delegate"}],
     [rows |-> Members("majority") \o <<Rule("step", "approval")>>,
      inputs |-> {"approval", "step"}],
     [rows |-> Members("single_vote") \o <<Rule("step", "defer")>>, inputs |-> {"step", "admin"}],
     [rows |-> Members("single_vote") \o <<Rule("all", "annotate")>>, inputs |-> {"step"}],
     [rows |-> Members("single_vote") \o <<Rule("all", "reject")>>, inputs |-> {"step"}],
     [rows |-> Members("unanimous"), inputs |-> {"presence", "approval"}],
     [rows |-> Members("single_vote") \o <<[k |-> "CapRevoked", subtree |-> {c1}],
                                          [k |-> "ParticipantLeft", a |-> g]>>,
      inputs |-> {"presence", "admin"}],
     [rows |-> Members("majority") \o <<[k |-> "EpochAdvanced", epoch |-> 1, fenced |-> {g}]>>,
      inputs |-> {"presence", "admin"}]}
============================================================================
