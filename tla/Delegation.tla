------------------------------ MODULE Delegation ------------------------------
(***************************************************************************)
(* What one session asks of a linked one: to decide an approval in its     *)
(* place, or to take over a note.  The asking session's task runs a saga   *)
(* of one step; the step reaches the target through the reflector, which   *)
(* Relay models and which may hand it over more than once; the target      *)
(* makes an approval of its own, its members decide it, and the handler of *)
(* the deciding vote looks up whom to tell.  SessionTask has the saga in   *)
(* full; here it is begun, waiting or over.                                *)
(***************************************************************************)
EXTENDS Integers, Sequences

CONSTANTS
    Asks,         \* delegations: saga ids
    Sources,      \* approvals of the asking session
    Notes,        \* context entries and annotations sent to the target
    NoCopy,       \* the target's task is between two events
    Loads,        \* bounds on the hand-overs of each step and note, none for one never sent
    MaxRestarts   \* bound on the deaths of the process

\* "none" and "member" say in a row that no saga resolved it.
ASSUME DelegationAssumption == /\ Loads \subseteq [Asks \cup Notes -> Nat] /\ MaxRestarts \in Nat
                               /\ {NoCopy, "none", "member"} \cap Asks = {}

VARIABLES
    source,     \* approval -> its row: [st, by], by being a saga, "member" or "none"
    ask,        \* saga -> [st, of]: what the asking task knows of it
    mapping,    \* saga -> row of cross_session_delegations: [status, target]
    copies,     \* saga -> states of the approvals the target made for it
    linking,    \* the copy the target's task has inserted and not yet put in the mapping
    deciding,   \* <<saga, copy>>: decided, the handler has not looked the mapping up
    mailbox,    \* the asking task's
    verdict,    \* the asking task's: the resolution it is about to write, or its mark
    held,       \* steps and notes the reflector's log has
    armed, overdue,  \* sagas whose timer is armed; whose 24 hours have passed
    landed,     \* note -> entries it became in the target
    tasks, deaths,
    load        \* the member of Loads that bounds this behaviour

delegationVars == <<source, ask, mapping, copies, linking, deciding, mailbox, verdict,
                    held, armed, overdue, landed, tasks, deaths, load>>
askers  == <<ask, mailbox, verdict, armed>>
targets == <<copies, linking, landed>>
outside   == <<overdue, deaths, tasks, load>>

Idling == [s |-> NoCopy, out |-> "none", stage |-> "none"]

DelegationInit ==
    /\ load \in Loads
    /\ source = [p \in Sources |-> [st |-> "Pending", by |-> "none"]]
    /\ ask = [s \in Asks |-> [st |-> "none", of |-> CHOOSE p \in Sources : TRUE]]
    /\ mapping = [s \in Asks |-> [status |-> "none", target |-> 0]]
    /\ copies = [s \in Asks |-> <<>>] /\ landed = [n \in Notes |-> 0]
    /\ linking = NoCopy /\ deciding = {} /\ mailbox = <<>> /\ verdict = Idling
    /\ held = {} /\ armed = {} /\ overdue = {} /\ tasks = TRUE /\ deaths = 0

----------------------------------------------------------------------------
(* The asking session. *)

\* Nothing looks at the approval's state, nor for an earlier delegation of it.
\* A task that does not run is spawned by the request.
delegate_cross_session(s, p) ==
    /\ mapping[s].status = "none" /\ load[s] > 0
    /\ mapping' = [mapping EXCEPT ![s] = [status |-> "pending", target |-> 0]]
    /\ ask' = [ask EXCEPT ![s].of = p]
    /\ mailbox' = Append(mailbox, [s |-> s, what |-> "begin"])
    /\ tasks' = TRUE
    /\ UNCHANGED <<source, targets, deciding, verdict, held, armed, overdue, deaths, load>>

send_note(n) ==
    /\ landed[n] = 0 /\ load[n] > 0
    /\ held' = held \cup {n}
    /\ UNCHANGED <<source, mapping, targets, deciding, askers, outside>>

Members(p, st) ==
    /\ source[p].st \in {"Pending", "Claimed"}
    /\ st = "Claimed" => source[p].st = "Pending"
    /\ source' = [source EXCEPT ![p] = [st |-> st, by |-> IF st = "Claimed" THEN "none" ELSE "member"]]
    /\ UNCHANGED <<mapping, targets, deciding, askers, held, outside>>

TakesUp(what) ==
    /\ tasks /\ verdict = Idling
    /\ mailbox # <<>> /\ Head(mailbox).what \in what
    /\ mailbox' = Tail(mailbox)

\* live_cross_session_delegate: the step goes to the reflector, the timer is armed.
BeginAsk ==
    /\ TakesUp({"begin"})
    /\ LET s == Head(mailbox).s IN
       /\ ask' = [ask EXCEPT ![s].st = "Waiting"]
       /\ held' = held \cup {s}
       /\ armed' = armed \cup {s}
    /\ UNCHANGED <<source, mapping, targets, deciding, verdict, outside>>

\* live_saga_ack: the first answer ends the saga, any later one is ignored; the
\* end is persisted before the approval is looked at.
Answered ==
    /\ TakesUp({"granted", "denied"})
    /\ LET m == Head(mailbox) IN
       IF ask[m.s].st # "Waiting" THEN UNCHANGED <<ask, armed, verdict>>
       ELSE /\ ask' = [ask EXCEPT ![m.s].st = IF m.what = "granted" THEN "Completed" ELSE "Aborted"]
            /\ armed' = armed \ {m.s}
            /\ verdict' = [s |-> m.s, out |-> IF m.what = "granted" THEN "Approved" ELSE "Denied",
                           stage |-> "resolve"]
    /\ UNCHANGED <<source, mapping, targets, deciding, held, outside>>

\* resolve_if_pending_in_tx: an approval that is claimed or decided is left alone.
ResolveIfPending ==
    /\ tasks /\ verdict.stage = "resolve"
    /\ LET p == ask[verdict.s].of IN
       source' = IF source[p].st = "Pending"
                 THEN [source EXCEPT ![p] = [st |-> verdict.out, by |-> verdict.s]] ELSE source
    /\ verdict' = [verdict EXCEPT !.stage = "mark"]
    /\ UNCHANGED <<mapping, targets, deciding, ask, mailbox, held, armed, outside>>

mark_resolved ==
    /\ tasks /\ verdict.stage = "mark"
    /\ mapping' = [mapping EXCEPT ![verdict.s].status = "resolved"]
    /\ verdict' = Idling
    /\ UNCHANGED <<source, targets, deciding, ask, mailbox, held, armed, outside>>

\* The step's timer posts a rejection.
TimeOut(s) ==
    /\ tasks /\ s \in armed /\ s \in overdue
    /\ armed' = armed \ {s}
    /\ mailbox' = Append(mailbox, [s |-> s, what |-> "denied"])
    /\ UNCHANGED <<source, mapping, targets, deciding, ask, verdict, held, outside>>

----------------------------------------------------------------------------
(* The target session. *)

\* CrossSessionDelegationReceived: an approval of its own is committed, then put
\* in the mapping.  A step past its TTL is dropped.
Received(s) ==
    /\ tasks /\ linking = NoCopy
    /\ s \in held \cap Asks /\ s \notin overdue /\ Len(copies[s]) < load[s]
    /\ copies' = [copies EXCEPT ![s] = Append(@, "Pending")]
    /\ linking' = s
    /\ UNCHANGED <<source, mapping, deciding, askers, held, landed, outside>>

\* The newest copy is the one that counts; an error is logged and no more.
set_target_approval_id(ok) ==
    /\ tasks /\ linking # NoCopy
    /\ mapping' = IF ok THEN [mapping EXCEPT ![linking].target = Len(copies[linking])] ELSE mapping
    /\ linking' = NoCopy
    /\ UNCHANGED <<source, copies, landed, deciding, askers, held, outside>>

\* A note becomes an event of the target each time it is handed over.
NoteReceived(n) ==
    /\ tasks /\ linking = NoCopy
    /\ n \in held \cap Notes /\ landed[n] < load[n]
    /\ landed' = [landed EXCEPT ![n] = @ + 1]
    /\ UNCHANGED <<source, mapping, copies, linking, deciding, askers, held, outside>>

\* Its members decide under its own policy (Approvals); only a vote leads to a look-up.
Decided(s, k, st) ==
    /\ copies[s][k] = "Pending"
    /\ copies' = [copies EXCEPT ![s][k] = st]
    /\ deciding' = IF st = "Expired" THEN deciding ELSE deciding \cup {<<s, k>>}
    /\ UNCHANGED <<source, mapping, linking, landed, askers, held, outside>>

\* Mutant: the source is told of the approval, whichever way the vote went.
TellSourceOfAny(s, k) ==
    /\ <<s, k>> \in deciding
    /\ deciding' = deciding \ {<<s, k>>}
    /\ mailbox' = IF mapping[s] = [status |-> "pending", target |-> k] /\ tasks
                  THEN Append(mailbox, [s |-> s, what |-> "granted"]) ELSE mailbox
    /\ UNCHANGED <<source, mapping, targets, ask, verdict, armed, held, outside>>

\* handle_vote's last part: without a mapping to this copy, or a task, nobody is told.
TellSource(s, k) ==
    /\ <<s, k>> \in deciding
    /\ deciding' = deciding \ {<<s, k>>}
    /\ mailbox' = IF mapping[s] = [status |-> "pending", target |-> k] /\ tasks
                  THEN Append(mailbox, [s |-> s, what |-> IF copies[s][k] = "Approved" THEN "granted" ELSE "denied"])
                  ELSE mailbox
    /\ UNCHANGED <<source, mapping, targets, ask, verdict, armed, held, outside>>

----------------------------------------------------------------------------

DayPasses(s) ==
    /\ ask[s].st # "none" /\ s \notin overdue
    /\ overdue' = overdue \cup {s}
    /\ UNCHANGED <<source, mapping, targets, deciding, askers, held, deaths, tasks, load>>

\* Rows and the sagas in the log survive; mailboxes, timers and the reflector do not.
ProcessDies ==
    /\ tasks /\ deaths < MaxRestarts
    /\ tasks' = FALSE /\ deaths' = deaths + 1
    /\ mailbox' = <<>> /\ verdict' = Idling /\ armed' = {} /\ held' = {}
    /\ deciding' = {} /\ linking' = NoCopy
    /\ UNCHANGED <<source, ask, mapping, copies, landed, overdue, load>>

TasksRespawn ==
    /\ ~tasks
    /\ tasks' = TRUE
    /\ UNCHANGED <<source, mapping, targets, deciding, askers, held, overdue, deaths, load>>

DelegationNext ==
    \/ \E s \in Asks, p \in Sources : delegate_cross_session(s, p)
    \/ \E p \in Sources, st \in {"Claimed", "Approved", "Denied", "Expired"} : Members(p, st)
    \/ \E n \in Notes : send_note(n) \/ NoteReceived(n)
    \/ BeginAsk \/ Answered \/ ResolveIfPending \/ mark_resolved
    \/ \E s \in Asks : TimeOut(s) \/ Received(s) \/ DayPasses(s)
    \/ \E ok \in BOOLEAN : set_target_approval_id(ok)
    \/ \E s \in Asks : \E k \in DOMAIN copies[s] :
         TellSource(s, k) \/ \E st \in {"Approved", "Denied", "Expired"} : Decided(s, k, st)
    \/ ProcessDies \/ TasksRespawn

DelegationSpec == DelegationInit /\ [][DelegationNext]_delegationVars

----------------------------------------------------------------------------
\* "B can request a decision, it can never directly overwrite A's row": an
\* approval resolved for the target was delegated by that very saga and decided
\* that way by the target's members, or refused because a day had passed, and
\* the saga is over; copies made by repeated steps and answers that are late or
\* lost change nothing of that.
DelegatedVerdict ==
    \A p \in Sources : source[p].by \in Asks =>
      LET s == source[p].by  ways == {copies[s][k] : k \in DOMAIN copies[s]} IN
      /\ ask[s].of = p /\ ask[s].st = (IF source[p].st = "Approved" THEN "Completed" ELSE "Aborted")
      /\ source[p].st \in ways \/ (source[p].st = "Denied" /\ s \in overdue)
=============================================================================
