------------------------------ MODULE AgentHost ------------------------------
(* One agent's host: the adapter that takes MCP calls (crates/sidecar), the shim
   that has them approved and holds the capability (crates/shim), and the
   guardian that runs approved commands under supervision (crates/guardian).
   The session server appears as the approval and the execution receipt of each
   call, which OrbInvoke models in full.

   A gated call is proposed by the adapter, which waits 90 s; the shim runs a
   task per proposal (invoke, poll, consume the receipt, then the guardian for
   a command), and its decision is dropped when the adapter has given up.  The
   guardian serves one request at a time and supervises it with an event loop
   whose completions arrive in batches. *)
EXTENDS AgentPresence, Sequences

CONSTANTS Calls, Ids, None, Scenes
  \* A scene: kinds (call -> kind), ids (call -> JSON-RPC id), failOpen,
  \* unsandboxed (SOLARPLEX_ALLOW_UNSANDBOXED is set), and whether it is about
  \* calls or about presence.

VARIABLES
  scene,
  at,        \* adapter: "new", "waiting", "forward", "meta", "board",
             \* "upstream", "answered"
  answer,    \* what the client was told: "none", "local", "denied", "timeout",
             \* "error", "result"
  waiter,    \* StdioUpstream.pending: JSON-RPC id -> the call waiting for it
  inbox,     \* requests written to the upstream's stdin and not answered
  task,      \* shim: "none", "sent", "polling", "releasing", "queued", "running",
             \* "deny", "go", "result", "done", "hung"
  approval,  \* server: "none", "auto", "pending", "granted", "denied"
  receipt,   \* server: "none", "live", "dead", "consumed"
  line,      \* the tasks waiting for the guardian's socket, in order
  exec,      \* the guardian's request, None between requests
  guardian,  \* the guardian process runs
  ran        \* how often the call was run, by the guardian or the upstream

calls == <<at, answer, waiter, inbox, task, approval, receipt, line, exec, guardian, ran>>
vars == <<presence, scene, calls>>

Kind(c) == scene.kinds[c]
Id(c) == scene.ids[c]
Meta(c) == Kind(c) \in {"meta", "note", "board"}
Gated(c) == Kind(c) \in {"exec", "tool", "forbidden"} \/ Meta(c)

Completions == {"notify", "exit", "deadline"}
Exec == [call : Calls,
         stage : {"verify", "launch", "bare", "sandbox", "entered", "gone", "run", "stuck",
                  "failed"},
         proc : {"running", "blocked", "zombie", "reaped"},
         armed : BOOLEAN, rearm : BOOLEAN, fired : BOOLEAN,
         cq : Seq(Completions), batch : Seq(Completions)]

(* Every variable has its type. *)
HostTypeOK ==
  /\ PresenceTypeOK
  /\ at \in [Calls -> {"new", "waiting", "forward", "meta", "board", "upstream", "answered"}]
  /\ answer \in [Calls -> {"none", "local", "denied", "timeout", "error", "result"}]
  /\ waiter \in [Ids -> Calls \cup {None}]
  /\ inbox \subseteq Calls
  /\ task \in [Calls -> {"none", "sent", "polling", "releasing", "queued", "running",
                         "deny", "go", "result", "done", "hung"}]
  /\ approval \in [Calls -> {"none", "auto", "pending", "granted", "denied"}]
  /\ receipt \in [Calls -> {"none", "live", "dead", "consumed"}]
  /\ line \in Seq(Calls)
  /\ exec \in Exec \cup {None}
  /\ guardian \in BOOLEAN
  /\ ran \in [Calls -> 0..2]

Init ==
  /\ PresenceInit
  /\ scene \in Scenes
  /\ at = [c \in Calls |-> "new"] /\ answer = [c \in Calls |-> "none"]
  /\ waiter = [i \in Ids |-> None] /\ inbox = {}
  /\ task = [c \in Calls |-> "none"]
  /\ approval = [c \in Calls |-> "none"] /\ receipt = [c \in Calls |-> "none"]
  /\ line = <<>> /\ exec = None /\ guardian = TRUE
  /\ ran = [c \in Calls |-> 0]

(**************************** the adapter ****************************)
Tell(c, what) ==
  /\ at' = [at EXCEPT ![c] = "answered"]
  /\ answer' = [answer EXCEPT ![c] = what]

(* intercept: two read-only tools are answered from memory, a request that is no
   tool call is forwarded ungated, any other tool call is proposed to the shim;
   a closed channel is answered at once. *)
Ask(c) ==
  /\ at[c] = "new"
  /\ \/ /\ Kind(c) = "local"
        /\ Tell(c, "local")
        /\ UNCHANGED task
     \/ /\ Kind(c) = "plain"
        /\ at' = [at EXCEPT ![c] = "forward"]
        /\ UNCHANGED <<answer, task>>
     \/ /\ Gated(c) /\ up
        /\ at' = [at EXCEPT ![c] = "waiting"]
        /\ task' = [task EXCEPT ![c] = "sent"]
        /\ UNCHANGED answer
     \/ /\ Gated(c) /\ ~up
        /\ Tell(c, "denied")
        /\ UNCHANGED task
  /\ UNCHANGED <<waiter, inbox, approval, receipt, line, exec, guardian, ran>>

(* ShimClient::propose gives up after 90 s and forgets the proposal. *)
ProposeTimeout(c) ==
  /\ at[c] = "waiting"
  /\ Tell(c, "timeout")
  /\ UNCHANGED <<waiter, inbox, task, approval, receipt, line, exec, guardian, ran>>

(* A refusal is an error, a guardian's result is the answer, and a granted call
   goes on to the meta tools or the upstream. *)
Heed(c) ==
  \/ task[c] = "deny" /\ Tell(c, "denied")
  \/ task[c] = "result" /\ Tell(c, "result")
  \/ /\ task[c] = "go"
     /\ at' = [at EXCEPT ![c] = IF Meta(c) THEN "meta" ELSE "forward"]
     /\ UNCHANGED answer

(* The shim's decision arrives: the reader hands it to the call that waits. *)
Decision(c) ==
  /\ up /\ task[c] \in {"deny", "go", "result"}
  /\ task' = [task EXCEPT ![c] = "done"]
  /\ IF at[c] = "waiting" THEN Heed(c) ELSE UNCHANGED <<at, answer>>
  /\ UNCHANGED <<waiter, inbox, approval, receipt, line, exec, guardian, ran>>

(* handle_meta_tool: one call of the server through the shim, given 30 s; a shim
   that is gone or an answer that is late is an error, though the server may
   have acted. *)
ServerCall(c, told) ==
  /\ \/ up /\ ran' = [ran EXCEPT ![c] = @ + 1] /\ Tell(c, "result")
     \/ up /\ ran' = [ran EXCEPT ![c] = @ + 1] /\ Tell(c, told)
     \/ ran' = ran /\ Tell(c, told)
  /\ UNCHANGED <<waiter, inbox, task, approval, receipt, line, exec, guardian>>

ArtifactTool(c) == at[c] = "meta" /\ Kind(c) = "meta" /\ ServerCall(c, "error")

(* The feed, the context and the whiteboard are read, and nothing is written. *)
ReadTool(c) ==
  /\ at[c] = "meta" /\ Kind(c) = "meta"
  /\ Tell(c, "result") \/ Tell(c, "error")
  /\ UNCHANGED <<waiter, inbox, task, approval, receipt, line, exec, guardian, ran>>

(* A message or a context entry that failed is logged, and reported as posted. *)
NoteTool(c) == at[c] = "meta" /\ Kind(c) = "note" /\ ServerCall(c, "result")

(* The artifacts are listed first; a list that failed is one without a whiteboard. *)
ListBoards(c) ==
  /\ at[c] = "meta" /\ Kind(c) = "board"
  /\ at' = [at EXCEPT ![c] = "board"]
  /\ UNCHANGED <<answer, waiter, inbox, task, approval, receipt, line, exec, guardian, ran>>
WriteBoard(c) == at[c] = "board" /\ ServerCall(c, "error")

(* StdioUpstream::call: the entry of this id is replaced, whoever it was for. *)
Forward(c) ==
  /\ at[c] = "forward"
  /\ at' = [at EXCEPT ![c] = "upstream"]
  /\ waiter' = [waiter EXCEPT ![Id(c)] = c]
  /\ inbox' = inbox \cup {c}
  /\ ran' = [ran EXCEPT ![c] = @ + 1]
  /\ UNCHANGED <<answer, task, approval, receipt, line, exec, guardian>>

(* The upstream answers request c; the reader hands it to whoever waits for the
   id.  An initialize that was answered announces the agent (Initialize). *)
UpstreamAnswers(c) ==
  /\ c \in inbox
  /\ inbox' = inbox \ {c}
  /\ waiter' = [waiter EXCEPT ![Id(c)] = None]
  /\ IF waiter[Id(c)] = None THEN UNCHANGED <<at, answer>> ELSE Tell(waiter[Id(c)], "result")
  /\ UNCHANGED <<task, approval, receipt, line, exec, guardian, ran>>

(* 30 s pass, or the entry was replaced and its sender dropped: the call fails
   and removes whatever entry its id has now. *)
UpstreamFails(c) ==
  /\ at[c] = "upstream"
  /\ waiter' = [waiter EXCEPT ![Id(c)] = None]
  /\ Tell(c, "error")
  /\ UNCHANGED <<inbox, task, approval, receipt, line, exec, guardian, ran>>

(***************************** the shim ******************************)
ShimStep(c, from, to) ==
  /\ up /\ task[c] = from
  /\ task' = [task EXCEPT ![c] = to]
  /\ UNCHANGED <<at, answer, waiter, inbox, exec, guardian, ran>>

(* handle_proposal and orb_path up to the answer of invoke: the capability's
   permissions, then the server approves at once, leaves the call pending, or
   refuses.  An answer that is lost leaves a receipt nobody will consume. *)
Propose(c) ==
  \/ /\ Kind(c) = "forbidden"
     /\ ShimStep(c, "sent", "deny")
     /\ UNCHANGED <<approval, receipt, line>>
  \/ /\ Kind(c) # "forbidden"
     /\ ShimStep(c, "sent", "deny")
     /\ UNCHANGED <<approval, receipt, line>>
  \/ /\ Kind(c) # "forbidden"
     /\ \E a \in {"auto", "pending"}, heard \in BOOLEAN :
          /\ ShimStep(c, "sent", CASE ~heard -> "deny"
                                   [] heard /\ a = "auto" -> "releasing"
                                   [] heard /\ a = "pending" -> "polling")
          /\ approval' = [approval EXCEPT ![c] = a]
          /\ receipt' = [receipt EXCEPT ![c] = "live"]
     /\ UNCHANGED line

(* poll_approval: the verdict, 25 s without one, or a transport error, which a
   shim configured to fail open takes for a grant. *)
Poll(c) ==
  /\ \/ approval[c] = "granted" /\ ShimStep(c, "polling", "releasing")
     \/ ShimStep(c, "polling", "deny")
     \/ scene.failOpen /\ ShimStep(c, "polling", "releasing")
  /\ UNCHANGED <<approval, receipt, line>>

(* invoke, consume and update_status, which precedes every decision, have no
   timeout, and poll_approval times its request but not the body of the answer:
   an exchange that neither ends nor fails keeps its task for good. *)
Hangs(c) ==
  /\ \E stage \in {"sent", "polling", "releasing", "deny", "go", "result"} :
       ShimStep(c, stage, "hung")
  /\ UNCHANGED <<approval, receipt, line>>

(* The server's condition for handing a receipt over, once. *)
Consumable(c) == receipt[c] = "live" /\ approval[c] \in {"auto", "granted"}

\* Mutant: a shim that fails open runs the call when the server refuses the receipt.
ConsumeAndPatchOpen(c) ==
  /\ \/ /\ Consumable(c) \/ scene.failOpen
        /\ receipt' = [receipt EXCEPT ![c] = IF @ = "live" THEN "consumed" ELSE @]
        /\ IF Kind(c) = "exec" /\ approval[c] # "auto"
             THEN ShimStep(c, "releasing", "queued") /\ line' = Append(line, c)
             ELSE ShimStep(c, "releasing", "go") /\ line' = line
     \/ /\ ~Consumable(c)
        /\ receipt' = receipt
        /\ ShimStep(c, "releasing", "deny") /\ line' = line
  /\ UNCHANGED approval

(* consume_and_patch: nothing runs unless the server released the receipt and
   its reply arrived; then a command waits for the guardian, and any other call
   (a command approved without a vote included) goes back to the adapter. *)
ConsumeAndPatch(c) ==
  /\ \/ /\ Consumable(c)
        /\ receipt' = [receipt EXCEPT ![c] = "consumed"]
        /\ IF Kind(c) = "exec" /\ approval[c] # "auto"
             THEN ShimStep(c, "releasing", "queued") /\ line' = Append(line, c)
             ELSE ShimStep(c, "releasing", "go") /\ line' = line
     \/ /\ Consumable(c)
        /\ receipt' = [receipt EXCEPT ![c] = "consumed"]
        /\ ShimStep(c, "releasing", "deny") /\ line' = line
     \/ /\ ~Consumable(c)
        /\ receipt' = receipt
        /\ ShimStep(c, "releasing", "deny") /\ line' = line
  /\ UNCHANGED approval

(* A vote or the expiry sweeper decides; a receipt expires or its capability is
   revoked. *)
Decide(c) ==
  /\ approval[c] = "pending"
  /\ \E d \in {"granted", "denied"} : approval' = [approval EXCEPT ![c] = d]
  /\ UNCHANGED <<at, answer, waiter, inbox, task, receipt, line, exec, guardian, ran>>

ReceiptDies(c) ==
  /\ receipt[c] = "live"
  /\ receipt' = [receipt EXCEPT ![c] = "dead"]
  /\ UNCHANGED <<at, answer, waiter, inbox, task, approval, line, exec, guardian, ran>>

(*************************** the guardian ****************************)
NewExec(c) ==
  [call |-> c, stage |-> "verify", proc |-> "running", armed |-> TRUE, rearm |-> FALSE,
   fired |-> FALSE, cq |-> <<>>, batch |-> <<>>]

(* run_via_guardian: the socket's lock is granted in order and kept until the
   response is read.  A guardian that is gone answers with an error. *)
Submit ==
  /\ up /\ line # <<>> /\ exec = None
  /\ line' = Tail(line)
  /\ IF guardian
       THEN /\ exec' = NewExec(Head(line))
            /\ task' = [task EXCEPT ![Head(line)] = "running"]
       ELSE /\ exec' = exec
            /\ task' = [task EXCEPT ![Head(line)] = "result"]
  /\ UNCHANGED <<at, answer, waiter, inbox, approval, receipt, guardian, ran>>

\* Mutant: a supervision that failed is reported as a refusal.
RespondDenying ==
  /\ exec' = None
  /\ task' = IF up THEN [task EXCEPT ![exec.call] = IF exec.stage = "failed" THEN "deny"
                                                   ELSE "result"] ELSE task
  /\ guardian' = up

(* The response is written and read; a shim that is gone ends the loop. *)
Respond ==
  /\ exec' = None
  /\ task' = IF up THEN [task EXCEPT ![exec.call] = "result"] ELSE task
  /\ guardian' = up

(* get_for_guardian: a member asks for the approval, and it is granted. *)
Mandated(c) == approval[c] = "granted"

(* A response that starts nothing. *)
Refuse == Respond /\ ran' = ran

(* handle_request takes one command through its stages. *)
AtStage(s) ==
  /\ exec # None /\ exec.stage = s
  /\ UNCHANGED <<at, answer, waiter, inbox, approval, receipt, line>>
NextStage(s) == exec' = [exec EXCEPT !.stage = s] /\ UNCHANGED <<task, guardian>>
Runs == ran' = [ran EXCEPT ![exec.call] = @ + 1]

(* verify_and_fetch: the server's own record of the command, or an error when it
   was not granted or the server does not answer within 3 s. *)
Verify ==
  /\ AtStage("verify")
  /\ \/ Mandated(exec.call) /\ NextStage("launch") /\ ran' = ran
     \/ Refuse

(* ring2_exec up to the spawn.  Without bwrap the command is refused, or, where
   the environment allows it, run as it is; without a socket pair or a process
   nothing runs. *)
Launch ==
  /\ AtStage("launch")
  /\ \/ NextStage("sandbox") /\ ran' = ran
     \/ scene.unsandboxed /\ NextStage("bare") /\ Runs
     \/ Refuse

(* exec_unsandboxed awaits the output of the command, and recv_fd a descriptor or
   the end of a socket that the command has inherited: neither has a deadline. *)
BareExits == AtStage("bare") /\ Refuse

(* require_full_sandbox_or_opt_out: no command without every layer ... *)
SetupFails == NextStage("gone") /\ ran' = ran

(* sandbox_entry::run in the child: limits, landlock, the two filters and the
   listener's descriptor on its way to the guardian, then the command.  (... or,
   where the environment allows it, one without the listener.) *)
EnterSandbox ==
  /\ AtStage("sandbox")
  /\ \/ NextStage("entered") /\ Runs
     \/ scene.unsandboxed /\ NextStage("bare") /\ Runs
     \/ SetupFails

(* The guardian's half: no descriptor for the child, or no ring, is an error
   response and the child is let go, whatever it has done or will do. *)
LetGo ==
  \/ AtStage("sandbox") /\ Respond /\ (Runs \/ ran' = ran)
  \/ (AtStage("entered") \/ AtStage("gone")) /\ Refuse

(* recv_fd: the listener of a child that entered starts the supervision, and a
   child that is gone was killed and reaped by the time the error is sent. *)
TakeOver ==
  \/ AtStage("entered") /\ NextStage("run") /\ ran' = ran
  \/ AtStage("gone") /\ Refuse
  \/ LetGo

Supervising == exec # None /\ exec.stage = "run"
ExecStep(e) ==
  /\ exec' = e
  /\ UNCHANGED <<at, answer, waiter, inbox, task, approval, receipt, line, guardian, ran>>

(* The kernel: a trapped open is a notification, seen by an armed poll, which
   the kernel may end with this completion. *)
Notified(e) == {[e EXCEPT !.cq = Append(@, "notify"), !.armed = more] : more \in BOOLEAN}
Trap ==
  /\ Supervising /\ exec.proc = "running"
  /\ \E e \in IF exec.armed THEN Notified([exec EXCEPT !.proc = "blocked"])
                            ELSE {[exec EXCEPT !.proc = "blocked"]} : ExecStep(e)

Exits ==
  /\ Supervising /\ exec.proc \in {"running", "blocked"}
  /\ ExecStep([exec EXCEPT !.proc = "zombie", !.cq = Append(@, "exit")])

DeadlineFires ==
  /\ Supervising /\ ~exec.fired
  /\ ExecStep([exec EXCEPT !.fired = TRUE, !.cq = Append(@, "deadline")])

(* The loop's head: completions are collected unless the process was reaped. *)
Collect ==
  /\ Supervising /\ exec.batch = <<>> /\ ~exec.rearm /\ exec.cq # <<>>
  /\ exec.proc # "reaped"
  /\ ExecStep([exec EXCEPT !.batch = exec.cq, !.cq = <<>>])

(* submit_and_wait returns an error (a signal): the supervision ends and leaves
   the command as it is. *)
WaitFails ==
  /\ Supervising /\ exec.batch = <<>> /\ ~exec.rearm /\ exec.proc # "reaped"
  /\ ExecStep([exec EXCEPT !.stage = "failed"])

(* handle_notification: the open is answered and its poll armed again if the
   kernel ended it; or the listener fails, and that ends the supervision with the
   command left as it is; or the supervisor, which opens the path for the command,
   does not come back from the open (a FIFO without a second end). *)
NotificationHandled(e) ==
  {[e EXCEPT !.proc = IF @ = "blocked" THEN "running" ELSE @, !.rearm = ~e.armed],
   [e EXCEPT !.stage = "failed"]}
  \cup {f \in {[e EXCEPT !.stage = "stuck"]} : e.proc = "blocked"}

(* waitid, after the kill when the deadline is up: a second reaping fails, and
   that ends the supervision too. *)
Reaped(e) ==
  IF e.proc = "reaped" THEN [e EXCEPT !.stage = "failed"] ELSE [e EXCEPT !.proc = "reaped"]

\* Mutant: the deadline is logged and the process left alone.
DispatchPatient ==
  /\ Supervising /\ exec.batch # <<>> /\ ~exec.rearm
  /\ LET rest == [exec EXCEPT !.batch = Tail(@)] IN
       \E e \in CASE Head(exec.batch) = "notify" -> NotificationHandled(rest)
                   [] Head(exec.batch) = "exit" -> {Reaped(rest)}
                   [] Head(exec.batch) = "deadline" -> {rest} : ExecStep(e)

(* One completion of the batch: a notification is handled, an exit is reaped, the
   deadline kills and reaps. *)
Dispatch ==
  /\ Supervising /\ exec.batch # <<>> /\ ~exec.rearm
  /\ LET rest == [exec EXCEPT !.batch = Tail(@)] IN
       \E e \in IF Head(exec.batch) = "notify" THEN NotificationHandled(rest)
                                                ELSE {Reaped(rest)} : ExecStep(e)

(* submit_multishot_poll on a descriptor that is ready completes at once. *)
Rearm ==
  /\ Supervising /\ exec.rearm
  /\ LET e == [exec EXCEPT !.rearm = FALSE, !.armed = TRUE] IN
       \E f \in IF exec.proc = "blocked" THEN Notified(e) ELSE {e} : ExecStep(f)

Finish ==
  /\ exec # None
  /\ \/ exec.stage = "failed"
     \/ exec.stage = "run" /\ exec.proc = "reaped" /\ exec.batch = <<>> /\ ~exec.rearm
  /\ Respond
  /\ UNCHANGED <<at, answer, waiter, inbox, approval, receipt, line, ran>>

(****************************** failures *****************************)
(* The guardian process dies: the shim reads the end of its socket. *)
GuardianDies ==
  /\ guardian
  /\ guardian' = FALSE /\ exec' = None
  /\ task' = IF exec # None /\ up THEN [task EXCEPT ![exec.call] = "result"] ELSE task
  /\ UNCHANGED <<at, answer, waiter, inbox, approval, receipt, line, ran>>

(* The shim process dies: its tasks and its heartbeat loop with it. *)
ShimDies ==
  /\ up
  /\ up' = FALSE /\ beating' = FALSE
  /\ task' = [c \in Calls |-> IF task[c] = "none" THEN "none" ELSE "done"]
  /\ line' = <<>>
  /\ UNCHANGED <<announced, streams, mapped, posts, usable, logged, live, beat, verdict,
                 restarted, scene, at, answer, waiter, inbox, approval, receipt, exec,
                 guardian, ran>>

CallStep ==
  \/ \E c \in Calls :
       \/ Ask(c) \/ ProposeTimeout(c) \/ Decision(c) \/ ArtifactTool(c) \/ ReadTool(c)
       \/ NoteTool(c) \/ ListBoards(c) \/ WriteBoard(c)
       \/ Forward(c) \/ UpstreamAnswers(c) \/ UpstreamFails(c)
       \/ Propose(c) \/ Poll(c) \/ ConsumeAndPatch(c) \/ Hangs(c)
       \/ Decide(c) \/ ReceiptDies(c)
  \/ Submit \/ Verify \/ Launch \/ BareExits \/ EnterSandbox \/ TakeOver
  \/ Trap \/ Exits \/ DeadlineFires \/ Collect \/ WaitFails \/ Dispatch \/ Rearm \/ Finish
  \/ GuardianDies

Next ==
  \/ scene.about = "calls" /\ CallStep /\ UNCHANGED <<presence, scene>>
  \/ scene.about = "presence" /\ PresenceStep /\ UNCHANGED <<scene, calls>>
  \/ ShimDies

(* Tasks and processes that can go on do, a sandbox is set up or fails, and the
   deadline comes.  An HTTP exchange may hang instead of ending, and nobody has to
   vote.  A command does not have to exit, with the supervisor or without one, and
   an open does not have to return. *)
CallFairness ==
  /\ \A c \in Calls : /\ WF_calls(Propose(c)) /\ WF_calls(Poll(c))
                      /\ WF_calls(ConsumeAndPatch(c)) /\ WF_calls(Decision(c))
  /\ WF_calls(Submit) /\ WF_calls(Verify) /\ WF_calls(Launch)
  /\ WF_calls(EnterSandbox) /\ WF_calls(TakeOver) /\ WF_calls(DeadlineFires)
  /\ WF_calls(Collect) /\ WF_calls(Dispatch) /\ WF_calls(Rearm) /\ WF_calls(Finish)

(* The shim's and the sweeper's intervals tick, requests on their way arrive,
   and time passes for an agent that stopped beating. *)
Presence(A) == scene.about = "presence" /\ A
PresenceFairness ==
  /\ WF_presence(Presence(Heartbeat)) /\ WF_presence(Presence(Sweep))
  /\ WF_presence(Presence(\E ok \in BOOLEAN : Attach(ok)))
  /\ WF_presence(Presence(Lapse /\ ~(up /\ beating)))

Spec == Init /\ [][Next]_vars
FairSpec == Spec /\ PresenceFairness /\ CallFairness

(***************************** properties ****************************)
(* Whatever the shim is configured to do when the server is away, a gated call
   runs at most once, and only after the server released its own receipt under
   an approval it recorded. *)
UnderReceipt ==
  \A c \in Calls : Gated(c) =>
    /\ ran[c] <= 1
    /\ ran[c] = 1 => receipt[c] = "consumed" /\ approval[c] \in {"auto", "granted"}

(* A client told that its call was denied can rely on it: the call has not run
   and never will.  (A client told of a timeout cannot: its command may still be
   waiting for the guardian.) *)
DeniedNeverRan == \A c \in Calls : answer[c] = "denied" => ran[c] = 0

(* A command that waits for the supervisor to answer its open is never forgotten:
   the completion that wakes the loop is queued, or the poll is about to be
   armed again. *)
NeverStranded ==
  Supervising /\ exec.proc = "blocked" =>
    exec.rearm \/ \E q \in {exec.cq, exec.batch} : \E i \in DOMAIN q : q[i] = "notify"

(* What nothing in the code bounds: a task's HTTP exchange, a command without a
   supervisor and an open by the supervisor.  The last two keep the guardian, and
   with it every task in its line. *)
Held(c) ==
  \/ task[c] = "hung"
  \/ /\ task[c] \in {"queued", "running"}
     /\ exec # None /\ exec.stage \in {"bare", "stuck"}

(* Every proposal is decided, unless the shim waits for good for one of these
   three: a sandboxed command holds the guardian no longer than its deadline,
   whatever it does, and no task waits for the socket behind anything else. *)
Served ==
  \A c \in Calls : (task[c] # "none") ~> (task[c] = "done" \/ []Held(c))
=============================================================================
