----------------------------- MODULE OrbInvoke -----------------------------
(***************************************************************************)
(* Tool calls through the object request broker: the shim asks /invoke,    *)
(* the server validates the cap, may ask for a human approval, and issues  *)
(* a receipt; the shim waits for the approval and consumes the receipt,    *)
(* which releases the arguments, once, if the cap and the approval still   *)
(* stand. Caps and epochs change all the while (CapAuthority); approvals   *)
(* are the abstract gate that Approvals implements.                        *)
(*                                                                         *)
(* Which way the registered method and the standing policies send a call   *)
(* (straight on, to a human, or refused) is an input. Every refusal, error *)
(* or lost message ends in the shim's deny().                              *)
(***************************************************************************)
EXTENDS CapAuthority

CONSTANTS Calls,    \* tool calls; each has an approval and a receipt of its own
          FailOpen  \* the shim answers "granted" when it cannot reach the server

ASSUME FailOpenBool == FailOpen \in BOOLEAN

VARIABLES
  cpc,      \* where each call is
  using,    \* the cap it was made with
  receipt,  \* "none", "fresh", "lapsed", "used", "gone"
  bound,    \* its receipt names an approval
  released, \* how often consume has handed out its arguments
  gate,     \* its approval, as ApprovalGate has it
  answer    \* what the poll told the shim

callVars == <<cpc, using, receipt, bound, released>>
orbVars  == <<authVars, callVars, gate, answer>>

Gate == INSTANCE ApprovalGate WITH Ids <- Calls

CallStates == {"idle", "seen", "auto", "requested", "polling", "consuming", "run", "denied"}

TypeOK ==
  /\ CapsTypeOK
  /\ cpc \in [Calls -> CallStates]
  /\ using \in [Calls -> Caps \union {None}]
  /\ receipt \in [Calls -> {"none", "fresh", "lapsed", "used", "gone"}]
  /\ bound \in [Calls -> BOOLEAN]
  /\ released \in [Calls -> Nat]
  /\ gate \in [Calls -> {"none", "open", "granted", "refused"}]
  /\ answer \in [Calls -> {"no", "waiting", "granted", "blocked"}]

OrbInit ==
  /\ CapsInit
  /\ cpc = [s \in Calls |-> "idle"]
  /\ using = [s \in Calls |-> None]
  /\ receipt = [s \in Calls |-> "none"]
  /\ bound = [s \in Calls |-> FALSE]
  /\ released = [s \in Calls |-> 0]
  /\ Gate!GateInit

Goto(s, p) == cpc' = [cpc EXCEPT ![s] = p]

-----------------------------------------------------------------------------
(* POST /invoke.                                                           *)

get_cap(s, c) ==
  /\ cpc[s] = "idle"
  /\ st[c] = "live" /\ ~lapsed[c]
  /\ using' = [using EXCEPT ![s] = c]
  /\ Goto(s, "seen")
  /\ UNCHANGED <<authVars, receipt, bound, released, gate, answer>>

\* The epoch is read after the cap; then the method, its address among the
\* cap's permissions, and the standing policies decide.
AutoApprove(s) ==
  /\ cpc[s] = "seen" /\ born[using[s]] = epoch
  /\ Goto(s, "auto")
  /\ UNCHANGED <<authVars, using, receipt, bound, released, gate, answer>>

create_approval_for_session(s) ==
  /\ cpc[s] = "seen" /\ born[using[s]] = epoch
  /\ Gate!Open(s)
  /\ Goto(s, "requested")
  /\ UNCHANGED <<authVars, using, receipt, bound, released>>

\* The receipt's foreign key needs the cap's row.
issue(s) ==
  /\ cpc[s] \in {"auto", "requested"} /\ using[s] \in Rows
  /\ receipt' = [receipt EXCEPT ![s] = "fresh"]
  /\ bound' = [bound EXCEPT ![s] = cpc[s] = "requested"]
  /\ Goto(s, IF cpc[s] = "auto" THEN "consuming" ELSE "polling")
  /\ UNCHANGED <<authVars, using, released, gate, answer>>

-----------------------------------------------------------------------------
(* The shim, the humans and the clock.                                     *)

poll_approval(s) ==
  /\ cpc[s] = "polling"
  /\ Gate!Ask(s)
  /\ UNCHANGED <<authVars, callVars>>

\* "granted" for an approved request; or from a fail-open shim that gave up.
Polled(s, d) ==
  /\ cpc[s] = "polling"
  /\ Gate!Tell(s, d)
  /\ Goto(s, IF d = "granted" THEN "consuming" ELSE "denied")
  /\ UNCHANGED <<authVars, using, receipt, bound, released>>

Decision(s) ==
  /\ Gate!Grant(s) \/ Gate!Refuse({s})
  /\ UNCHANGED <<authVars, callVars>>

deny(s) ==
  /\ cpc[s] \notin {"idle", "run", "denied"}
  /\ Goto(s, "denied")
  /\ UNCHANGED <<authVars, using, receipt, bound, released, gate, answer>>

ReceiptLapses(s) ==
  /\ receipt[s] = "fresh"
  /\ receipt' = [receipt EXCEPT ![s] = "lapsed"]
  /\ UNCHANGED <<authVars, cpc, using, bound, released, gate, answer>>

\* Receipt gc: the two DELETEs.
compact_receipt(s) ==
  /\ receipt[s] \in {"lapsed", "used"}
  /\ receipt' = [receipt EXCEPT ![s] = "gone"]
  /\ UNCHANGED <<authVars, cpc, using, bound, released, gate, answer>>

-----------------------------------------------------------------------------
(* POST /consume-receipt.                                                  *)

Release(s) ==
  /\ cpc[s] = "consuming"
  /\ receipt' = [receipt EXCEPT ![s] = "used"]
  /\ released' = [released EXCEPT ![s] = @ + 1]
  /\ \E p \in {"run", "denied", "consuming"} : Goto(s, p)
  /\ UNCHANGED <<authVars, using, bound, gate, answer>>

\* Mutants: used_at, the cap, or the approval is not looked at again.
consume_again(s) ==
  /\ receipt[s] \in {"fresh", "used"}
  /\ Usable(using[s])
  /\ bound[s] => gate[s] = "granted"
  /\ Release(s)

consume_any_cap(s) ==
  /\ receipt[s] = "fresh"
  /\ bound[s] => gate[s] = "granted"
  /\ Release(s)

consume_any_verdict(s) ==
  /\ receipt[s] = "fresh"
  /\ Usable(using[s])
  /\ Release(s)

\* One UPDATE; its answer reaches the shim, or is lost, or the request is
\* delivered a second time before one arrives.
consume(s) ==
  /\ receipt[s] = "fresh"
  /\ Usable(using[s])
  /\ bound[s] => gate[s] = "granted"
  /\ Release(s)

-----------------------------------------------------------------------------
\* A deleted cap takes its receipts with it (ON DELETE CASCADE).
CompactCaps(S) ==
  /\ compact_revoked(S)
  /\ receipt' = [s \in Calls |-> IF using[s] \in S /\ receipt[s] # "none"
                                 THEN "gone" ELSE receipt[s]]
  /\ UNCHANGED <<cpc, using, bound, released, gate, answer>>

Call(s) ==
  \/ \E c \in Caps : get_cap(s, c)
  \/ AutoApprove(s) \/ create_approval_for_session(s) \/ issue(s)
  \/ poll_approval(s) \/ \E d \in {"granted", "blocked"} : Polled(s, d)
  \/ Decision(s) \/ deny(s) \/ consume(s)
  \/ ReceiptLapses(s) \/ compact_receipt(s)

OrbNext ==
  \/ CapStep /\ UNCHANGED <<callVars, gate, answer>>
  \/ \E S \in SUBSET Caps : CompactCaps(S)
  \/ \E s \in Calls : Call(s)

OrbSpec == OrbInit /\ [][OrbNext]_orbVars

-----------------------------------------------------------------------------
(* Properties.                                                             *)

\* consume hands out a receipt's arguments at most once, however often it is
\* asked and whatever the collectors delete, and a call that runs has them.
ReleasedOnce ==
  \A s \in Calls :
    /\ released[s] <= 1
    /\ cpc[s] = "run" => released[s] = 1

\* A call that was sent to a human runs only if the human approved it, even
\* when the shim fails open.
RunsApproved ==
  \A s \in Calls : cpc[s] = "run" /\ gate[s] # "none" => gate[s] = "granted"

\* Arguments are released only while the cap stands: none for a cap revoked, or
\* of an epoch a revocation has closed, after /invoke accepted it.
ReleasedWhileUsable ==
  [][\A s \in Calls : released'[s] # released[s] =>
       /\ Usable(using[s])
       /\ \A h \in Handlers : hpc[h] = "advanced" => born[using[s]] > job[h].closed]_orbVars
=============================================================================
