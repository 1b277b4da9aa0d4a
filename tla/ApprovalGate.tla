--------------------------- MODULE ApprovalGate ---------------------------
(***************************************************************************)
(* What the approval subsystem promises an agent that asked permission for *)
(* a tool call: a request is decided at most once, the decision is never   *)
(* taken back, and the agent is told "granted" only if the request was in  *)
(* fact approved (or the operator configured the shim to fail open).       *)
(***************************************************************************)
CONSTANTS Ids, FailOpen

VARIABLES gate,     \* "none", "open", then "granted" or "refused" for ever
          answer    \* what the shim was told: "no", "waiting", "granted", "blocked"

gateVars == <<gate, answer>>

GateInit ==
  /\ gate = [a \in Ids |-> "none"]
  /\ answer = [a \in Ids |-> "no"]

Open(a) ==
  /\ gate[a] = "none"
  /\ gate' = [gate EXCEPT ![a] = "open"]
  /\ UNCHANGED answer

Grant(a) ==
  /\ gate[a] = "open"
  /\ gate' = [gate EXCEPT ![a] = "granted"]
  /\ UNCHANGED answer

\* A deny, a cancellation, or one round of the timeout sweeper.
Refuse(S) ==
  /\ \A a \in S : gate[a] = "open"
  /\ gate' = [a \in Ids |-> IF a \in S THEN "refused" ELSE gate[a]]
  /\ UNCHANGED answer

Ask(a) ==
  /\ answer[a] = "no"
  /\ gate[a] # "none"
  /\ answer' = [answer EXCEPT ![a] = "waiting"]
  /\ UNCHANGED gate

Tell(a, d) ==
  /\ answer[a] = "waiting"
  /\ d = "granted" => gate[a] = "granted" \/ FailOpen
  /\ answer' = [answer EXCEPT ![a] = d]
  /\ UNCHANGED gate

GateNext ==
  \/ \E a \in Ids : Open(a) \/ Grant(a) \/ Ask(a)
  \/ \E S \in SUBSET Ids : Refuse(S)
  \/ \E a \in Ids, d \in {"granted", "blocked"} : Tell(a, d)

GateSpec == GateInit /\ [][GateNext]_gateVars
=============================================================================
