--------------------------- MODULE AgentHostProofs ---------------------------
(***************************************************************************)
(* For any number of calls, whatever their kinds and ids, and whichever    *)
(* process dies when: a gated call runs at most once and under a receipt   *)
(* the server released, and a call its client was told is denied never     *)
(* runs.                                                                   *)
(***************************************************************************)
EXTENDS AgentHost, TLAPS

-----------------------------------------------------------------------------
(* The inductive invariant.  A call passes from the adapter to the shim, to *)
(* the guardian's line, to the guardian and back; at each place it is known *)
(* whether it has run yet, and no two places hold it at once.               *)

Released(c) == receipt[c] = "consumed" /\ approval[c] \in {"auto", "granted"}

\* The attach request is posted once, by the announcement.
PostedOnce == ~announced => posts = 0

\* The line holds each call that waits for the guardian once.
LineSound ==
  /\ \A i \in DOMAIN line : task[line[i]] = "queued"
  /\ \A i, j \in DOMAIN line : line[i] = line[j] => i = j

\* What the shim and the adapter may think of a call the guardian works on,
\* and whether the command has been started.
Unstarted == {"verify", "launch", "sandbox", "gone"}
ExecSound ==
  exec # None =>
    /\ task[exec.call] = "running" \/ (task[exec.call] = "done" /\ ~up)
    /\ at[exec.call] \in {"waiting", "answered"}
    /\ Released(exec.call)
    /\ exec.stage \in Unstarted => ran[exec.call] = 0

\* Where the shim's task of a call is.
TaskSound(c) ==
  /\ task[c] \notin {"none", "done"} => up /\ at[c] \in {"waiting", "answered"}
  /\ task[c] = "none" => at[c] \notin {"waiting", "meta", "board"}
  /\ task[c] \notin {"none", "done", "running", "result", "hung"} => ran[c] = 0
  /\ task[c] \in {"queued", "running", "go"} => Released(c)

\* Where the adapter is with it: no call is forwarded before it was released.
CallSound(c) ==
  /\ at[c] \in {"new", "forward", "meta", "board"} => ran[c] = 0
  /\ at[c] = "new" => task[c] = "none"
  /\ Gated(c) /\ at[c] \in {"forward", "meta", "board", "upstream"} =>
       task[c] = "done" /\ Released(c)
  /\ ~Gated(c) => task[c] = "none"
  /\ Gated(c) /\ ran[c] = 1 => Released(c)
  /\ ran[c] <= 1

\* A call its client was told is denied is nowhere.
DeniedSound(c) ==
  answer[c] = "denied" =>
    /\ at[c] = "answered" /\ ran[c] = 0
    /\ task[c] \in {"none", "done"}
    /\ exec # None => exec.call # c

IInv ==
  /\ HostTypeOK /\ PostedOnce /\ LineSound /\ ExecSound
  /\ \A c \in Calls : TaskSound(c) /\ CallSound(c) /\ DeniedSound(c)

-----------------------------------------------------------------------------
(* Types.                                                                   *)

LEMMA InitTyped == Init => HostTypeOK
<1> SUFFICES ASSUME Init PROVE HostTypeOK
  OBVIOUS
<1>1. FlagsOK
  BY Zenon DEF Init, PresenceInit, FlagsOK
<1>2. PresenceTypeOK
  BY <1>1 DEF Init, PresenceInit, PresenceTypeOK
<1>3. line \in Seq(Calls) /\ exec \in Exec \cup {None}
  BY DEF Init
<1>4. QED
  BY <1>2, <1>3 DEF Init, HostTypeOK

LEMMA PresenceTyped ==
  ASSUME PresenceTypeOK, PostedOnce, PresenceStep
  PROVE  PresenceTypeOK' /\ PostedOnce' /\ up' = up
<1> USE DEF PresenceTypeOK, PostedOnce, Announce
<1>1. ASSUME NEW k \in Clients, OpenStream(k) \/ CloseStream(k)
      PROVE  PresenceTypeOK' /\ PostedOnce' /\ up' = up
  <2>1. FlagsOK' /\ up' = up
    BY <1>1, Zenon DEF OpenStream, CloseStream, FlagsOK
  <2>2. QED
    BY <1>1, <2>1 DEF OpenStream, CloseStream
<1>2. CASE Initialize
  <2>1. FlagsOK' /\ up' = up
    BY <1>2, Zenon DEF Initialize, FlagsOK
  <2>2. QED
    BY <1>2, <2>1 DEF Initialize
<1>3. ASSUME NEW ok \in BOOLEAN, Attach(ok)
      PROVE  PresenceTypeOK' /\ PostedOnce' /\ up' = up
  <2>1. FlagsOK' /\ up' = up
    BY <1>3, Zenon DEF Attach, FlagsOK
  <2>2. QED
    BY <1>3, <2>1 DEF Attach
<1>4. CASE Heartbeat
  <2>1. FlagsOK' /\ up' = up
    BY <1>4, Zenon DEF Heartbeat, HeartbeatRefused, FlagsOK
  <2>2. QED
    BY <1>4, <2>1 DEF Heartbeat
<1>5. CASE Lapse \/ Sweep \/ CapDies \/ ServerRestart
  <2>1. FlagsOK' /\ up' = up
    BY <1>5, Zenon DEF Lapse, Sweep, CapDies, ServerRestart, FlagsOK
  <2>2. QED
    BY <1>5, <2>1 DEF Lapse, Sweep, CapDies, ServerRestart
<1>6. QED
  BY <1>1, <1>2, <1>3, <1>4, <1>5 DEF PresenceStep

\* A step of a call leaves the presence of the agent as it is.
LEMMA PresenceKept ==
  ASSUME PresenceTypeOK, PostedOnce, UNCHANGED presence
  PROVE  PresenceTypeOK' /\ PostedOnce' /\ up' = up
BY DEF PresenceTypeOK, FlagsOK, PostedOnce, presence

\* The guardian's line and its request when a step is about another call.
LEMMA LineKept ==
  ASSUME HostTypeOK, LineSound, line' = line,
         \A d \in Calls : task[d] = "queued" => task'[d] = "queued"
  PROVE  LineSound'
<1>1. \A i \in DOMAIN line : line[i] \in Calls
  BY DEF HostTypeOK
<1>2. QED
  BY <1>1 DEF LineSound

Steady(d) ==
  /\ at'[d] \in {at[d], "answered"} /\ task'[d] = task[d]
  /\ approval'[d] = approval[d] /\ receipt'[d] = receipt[d] /\ ran'[d] = ran[d]

LEMMA ExecKept ==
  ASSUME ExecSound, exec' = exec, up' = up, exec # None => Steady(exec.call)
  PROVE  ExecSound'
BY DEF ExecSound, Steady, Released

LEMMA ExecCall ==
  ASSUME HostTypeOK, exec # None
  PROVE  exec.call \in Calls
BY DEF HostTypeOK, Exec

-----------------------------------------------------------------------------
(* The adapter.                                                             *)

LEMMA AskStep ==
  ASSUME IInv, NEW c \in Calls, Ask(c), UNCHANGED <<presence, scene>>
  PROVE  IInv'
<1> USE DEF IInv, Ask, Tell, presence
<1>1. HostTypeOK' /\ PostedOnce' /\ up' = up
  BY ZenonT(60), PresenceKept DEF HostTypeOK, CallSound
<1>2. LineSound'
  BY LineKept DEF HostTypeOK, CallSound, TaskSound
<1>3. ExecSound'
  BY <1>1, ExecKept, ExecCall DEF HostTypeOK, ExecSound, CallSound, Steady,
                                    Released
<1>4. ASSUME NEW d \in Calls PROVE (TaskSound(d) /\ CallSound(d) /\ DeniedSound(d))'
  BY <1>1 DEF HostTypeOK, TaskSound, CallSound, DeniedSound, ExecSound,
         LineSound, Released, Gated, Meta, Kind
<1>5. QED
  BY <1>1, <1>2, <1>3, <1>4

LEMMA DecidedStep ==
  ASSUME IInv, NEW c \in Calls, ProposeTimeout(c) \/ Decision(c), UNCHANGED <<presence, scene>>
  PROVE  IInv'
<1> USE DEF IInv, ProposeTimeout, Decision, Heed, Tell, presence
<1>1. HostTypeOK' /\ PostedOnce' /\ up' = up
  BY PresenceKept DEF HostTypeOK, CallSound
<1>2. LineSound'
  BY LineKept DEF HostTypeOK, CallSound, TaskSound
<1>3. ExecSound'
  BY <1>1, ExecKept, ExecCall DEF HostTypeOK, ExecSound, CallSound, Steady,
                                    Released
<1>4. ASSUME NEW d \in Calls PROVE (TaskSound(d) /\ CallSound(d) /\ DeniedSound(d))'
  BY <1>1 DEF HostTypeOK, TaskSound, CallSound, DeniedSound, ExecSound,
         LineSound, Released, Gated, Meta, Kind
<1>5. QED
  BY <1>1, <1>2, <1>3, <1>4

LEMMA MetaToolStep ==
  ASSUME IInv, NEW c \in Calls,
         ArtifactTool(c) \/ ReadTool(c) \/ NoteTool(c) \/ ListBoards(c) \/ WriteBoard(c), UNCHANGED <<presence, scene>>
  PROVE  IInv'
<1> USE DEF IInv, ArtifactTool, ReadTool, NoteTool, ListBoards, WriteBoard,
           ServerCall, Tell, presence
<1>1. HostTypeOK' /\ PostedOnce' /\ up' = up
  <2>1. PresenceTypeOK' /\ PostedOnce' /\ up' = up
    BY PresenceKept DEF HostTypeOK
  <2>2. /\ at' \in [Calls -> {"new", "waiting", "forward", "meta", "board", "upstream", "answered"}]
        /\ answer' \in [Calls -> {"none", "local", "denied", "timeout", "error", "result"}]
    BY SMTT(40) DEF HostTypeOK
  <2>3. ran' \in [Calls -> 0..2]
    BY SMTT(40) DEF HostTypeOK, CallSound
  <2>4. UNCHANGED <<waiter, inbox, task, approval, receipt, line, exec, guardian>>
    BY Zenon
  <2> HIDE DEF ArtifactTool, ReadTool, NoteTool, ListBoards, WriteBoard
  <2>5. QED
    BY <2>1, <2>2, <2>3, <2>4 DEF HostTypeOK
<1>2. LineSound'
  BY LineKept DEF HostTypeOK, CallSound, TaskSound
<1>3. ExecSound'
  BY <1>1, ExecKept, ExecCall DEF HostTypeOK, ExecSound, CallSound, Steady,
                                    Released
<1>4. ASSUME NEW d \in Calls PROVE (TaskSound(d) /\ CallSound(d) /\ DeniedSound(d))'
  BY <1>1 DEF HostTypeOK, TaskSound, CallSound, DeniedSound, ExecSound,
         LineSound, Released, Gated, Meta, Kind
<1>5. QED
  BY <1>1, <1>2, <1>3, <1>4

LEMMA ForwardedStep ==
  ASSUME IInv, NEW c \in Calls, Forward(c), UNCHANGED <<presence, scene>>
  PROVE  IInv'
<1> USE DEF IInv, Forward, presence
<1>1. HostTypeOK' /\ PostedOnce' /\ up' = up
  <2>1. PresenceTypeOK' /\ PostedOnce' /\ up' = up
    BY PresenceKept DEF HostTypeOK
  <2>2. ran' \in [Calls -> 0..2]
    BY DEF HostTypeOK, CallSound
  <2>3. QED
    BY <2>1, <2>2 DEF HostTypeOK
<1>2. LineSound'
  BY LineKept DEF HostTypeOK, CallSound, TaskSound
<1>3. ExecSound'
  BY <1>1, ExecKept, ExecCall DEF HostTypeOK, ExecSound, CallSound, Steady,
                                    Released
<1>4. ASSUME NEW d \in Calls PROVE (TaskSound(d) /\ CallSound(d) /\ DeniedSound(d))'
  BY <1>1 DEF HostTypeOK, TaskSound, CallSound, DeniedSound, ExecSound,
         LineSound, Released, Gated, Meta, Kind
<1>5. QED
  BY <1>1, <1>2, <1>3, <1>4

LEMMA UpstreamStep ==
  ASSUME IInv, NEW c \in Calls, UpstreamAnswers(c) \/ UpstreamFails(c), UNCHANGED <<presence, scene>>
  PROVE  IInv'
<1> USE DEF IInv, UpstreamAnswers, UpstreamFails, Tell, presence
<1>1. HostTypeOK' /\ PostedOnce' /\ up' = up
  <2>1. PresenceTypeOK' /\ PostedOnce' /\ up' = up
    BY PresenceKept DEF HostTypeOK
  <2>2. /\ at' \in [Calls -> {"new", "waiting", "forward", "meta", "board", "upstream", "answered"}]
        /\ answer' \in [Calls -> {"none", "local", "denied", "timeout", "error", "result"}]
    BY SMTT(40) DEF HostTypeOK
  <2>3. /\ waiter' \in [Ids -> Calls \cup {None}] /\ inbox' \subseteq Calls
        /\ UNCHANGED <<task, approval, receipt, line, exec, guardian, ran>>
    BY DEF HostTypeOK
  <2> HIDE DEF UpstreamAnswers, UpstreamFails
  <2>4. QED
    BY <2>1, <2>2, <2>3 DEF HostTypeOK
<1>2. LineSound'
  BY LineKept DEF HostTypeOK, CallSound, TaskSound
<1>3. ExecSound'
  BY <1>1, ExecKept, ExecCall DEF HostTypeOK, ExecSound, CallSound, Steady,
                                    Released
<1>4. ASSUME NEW d \in Calls PROVE (TaskSound(d) /\ CallSound(d) /\ DeniedSound(d))'
  BY <1>1 DEF HostTypeOK, TaskSound, CallSound, DeniedSound, ExecSound,
         LineSound, Released, Gated, Meta, Kind
<1>5. QED
  BY <1>1, <1>2, <1>3, <1>4

-----------------------------------------------------------------------------
(* The shim and the server.                                                 *)

LEMMA ProposedStep ==
  ASSUME IInv, NEW c \in Calls, Propose(c) \/ Poll(c) \/ Hangs(c), UNCHANGED <<presence, scene>>
  PROVE  IInv'
<1> USE DEF IInv, Propose, Poll, Hangs, ShimStep, presence
<1>1. HostTypeOK' /\ PostedOnce' /\ up' = up
  <2>1. PresenceTypeOK' /\ PostedOnce' /\ up' = up
    BY PresenceKept DEF HostTypeOK
  <2>2. \E to \in {"deny", "releasing", "polling", "hung"} : task' = [task EXCEPT ![c] = to]
    BY Zenon
  <2>3. /\ UNCHANGED <<at, answer, waiter, inbox, exec, guardian, ran, line>>
        /\ \E a \in {"auto", "pending"} : approval' \in {approval, [approval EXCEPT ![c] = a]}
        /\ receipt' \in {receipt, [receipt EXCEPT ![c] = "live"]}
    BY Zenon
  <2>4. task' \in [Calls -> {"none", "sent", "polling", "releasing", "queued", "running",
                            "deny", "go", "result", "done", "hung"}]
    BY <2>2 DEF HostTypeOK
  <2>5. /\ approval' \in [Calls -> {"none", "auto", "pending", "granted", "denied"}]
        /\ receipt' \in [Calls -> {"none", "live", "dead", "consumed"}]
    BY SMTT(40), <2>3 DEF HostTypeOK
  <2> HIDE DEF Propose, Poll, Hangs, ShimStep
  <2>6. QED
    BY <2>1, <2>3, <2>4, <2>5 DEF HostTypeOK
<1>2. LineSound'
  BY LineKept DEF HostTypeOK, CallSound, TaskSound
<1>3. ExecSound'
  BY <1>1, ExecKept, ExecCall DEF HostTypeOK, ExecSound, CallSound, Steady,
                                    Released
<1>4. ASSUME NEW d \in Calls PROVE (TaskSound(d) /\ CallSound(d) /\ DeniedSound(d))'
  BY <1>1 DEF HostTypeOK, TaskSound, CallSound, DeniedSound, ExecSound,
         LineSound, Released, Gated, Meta, Kind
<1>5. QED
  BY <1>1, <1>2, <1>3, <1>4

LEMMA ServerDecidesStep ==
  ASSUME IInv, NEW c \in Calls, Decide(c) \/ ReceiptDies(c), UNCHANGED <<presence, scene>>
  PROVE  IInv'
<1> USE DEF IInv, Decide, ReceiptDies, presence
<1>1. HostTypeOK' /\ PostedOnce' /\ up' = up
  BY SMTT(40), PresenceKept DEF HostTypeOK, CallSound
<1>2. LineSound'
  BY LineKept DEF HostTypeOK, CallSound, TaskSound
<1>3. ExecSound'
  BY <1>1, ExecKept, ExecCall DEF HostTypeOK, ExecSound, CallSound, Steady,
                                    Released
<1>4. ASSUME NEW d \in Calls PROVE (TaskSound(d) /\ CallSound(d) /\ DeniedSound(d))'
  BY <1>1 DEF HostTypeOK, TaskSound, CallSound, DeniedSound, ExecSound,
         LineSound, Released, Gated, Meta, Kind
<1>5. QED
  BY <1>1, <1>2, <1>3, <1>4

LEMMA ConsumeStep ==
  ASSUME IInv, NEW c \in Calls, ConsumeAndPatch(c), UNCHANGED <<presence, scene>>
  PROVE  IInv'
<1> USE DEF IInv
<1>1. /\ up /\ task[c] = "releasing"
      /\ UNCHANGED <<at, answer, waiter, inbox, exec, guardian, ran, approval>>
      /\ \/ /\ Consumable(c) /\ receipt' = [receipt EXCEPT ![c] = "consumed"]
            /\ \/ /\ task' = [task EXCEPT ![c] = "queued"] /\ line' = Append(line, c)
               \/ task' = [task EXCEPT ![c] = "go"] /\ line' = line
               \/ task' = [task EXCEPT ![c] = "deny"] /\ line' = line
         \/ receipt' = receipt /\ task' = [task EXCEPT ![c] = "deny"] /\ line' = line
  BY DEF ConsumeAndPatch, ShimStep
<1>2. HostTypeOK' /\ PostedOnce' /\ up' = up
  <2>1. PresenceTypeOK' /\ PostedOnce' /\ up' = up
    BY PresenceKept DEF HostTypeOK
  <2>2. line' \in Seq(Calls)
    BY <1>1 DEF HostTypeOK
  <2>3. task' \in [Calls -> {"none", "sent", "polling", "releasing", "queued", "running",
                            "deny", "go", "result", "done", "hung"}]
    BY <1>1 DEF HostTypeOK
  <2>4. QED
    BY <1>1, <2>1, <2>2, <2>3 DEF HostTypeOK
<1>3. LineSound'
  <2>1. CASE line' = line
    BY <1>1, <2>1, LineKept DEF HostTypeOK
  <2>2. CASE line' = Append(line, c) /\ task' = [task EXCEPT ![c] = "queued"]
    <3>1. /\ line \in Seq(Calls) /\ DOMAIN line' = 1..(Len(line) + 1)
          /\ \A i \in 1..Len(line) : line'[i] = line[i] /\ line[i] # c /\ line[i] \in Calls
          /\ line'[Len(line) + 1] = c
      BY <1>1, <2>2 DEF HostTypeOK, LineSound
    <3>2. \A i, j \in 1..Len(line) : line[i] = line[j] => i = j
      BY <3>1 DEF LineSound
    <3>3. \A i \in 1..Len(line) : task[line[i]] = "queued"
      BY <3>1 DEF LineSound
    <3>4. Len(line) \in Nat
      BY <3>1
    <3>5. QED
      BY <2>2, <3>1, <3>2, <3>3, <3>4 DEF LineSound, HostTypeOK
  <2>3. QED
    BY <1>1, <2>1, <2>2
<1>4. ExecSound'
  BY <1>1, <1>2, ExecKept, ExecCall DEF HostTypeOK, ExecSound, Steady, Released, Consumable
<1>5. ASSUME NEW d \in Calls PROVE (TaskSound(d) /\ CallSound(d) /\ DeniedSound(d))'
  BY <1>1, <1>2 DEF HostTypeOK, TaskSound, CallSound, DeniedSound, ExecSound,
                    Released, Consumable, Gated, Meta, Kind
<1>6. QED
  BY <1>2, <1>3, <1>4, <1>5

LEMMA SubmitStep ==
  ASSUME IInv, Submit, UNCHANGED <<presence, scene>>
  PROVE  IInv'
<1> DEFINE c == Head(line)
<1> USE DEF IInv
<1>1. /\ line \in Seq(Calls) /\ line # << >> /\ c \in Calls /\ c = line[1]
      /\ task[c] = "queued" /\ line' = Tail(line)
  BY DEF Submit, HostTypeOK, LineSound
<1>2. /\ up /\ exec = None
      /\ UNCHANGED <<at, answer, waiter, inbox, approval, receipt, guardian, ran>>
      /\ \/ exec' = NewExec(c) /\ task' = [task EXCEPT ![c] = "running"]
         \/ exec' = exec /\ task' = [task EXCEPT ![c] = "result"]
  BY Zenon DEF Submit
<1> HIDE DEF c
<1>3. HostTypeOK' /\ PostedOnce' /\ up' = up
  <2>1. PresenceTypeOK' /\ PostedOnce' /\ up' = up
    BY PresenceKept DEF HostTypeOK
  <2>2. NewExec(c) \in Exec
    <3>1. << >> \in Seq(Completions)
      OBVIOUS
    <3>2. QED
      BY <1>1, <3>1 DEF NewExec, Exec
  <2>3. task' \in [Calls -> {"none", "sent", "polling", "releasing", "queued", "running",
                            "deny", "go", "result", "done", "hung"}]
    BY <1>1, <1>2 DEF HostTypeOK
  <2>4. line' \in Seq(Calls)
    BY <1>1
  <2>5. QED
    BY <1>2, <2>1, <2>2, <2>3, <2>4 DEF HostTypeOK
<1>4. LineSound'
  <2>1. /\ DOMAIN line' = 1..(Len(line) - 1)
        /\ \A i \in 1..(Len(line) - 1) : line'[i] = line[i + 1]
    BY <1>1
  <2>2. /\ Len(line) \in Nat /\ 1 \in DOMAIN line
        /\ \A i \in 1..(Len(line) - 1) : i + 1 \in DOMAIN line /\ i + 1 # 1
    BY <1>1
  <2>3. \A i, j \in 1..(Len(line) - 1) : line'[i] = line'[j] => i = j
    BY <2>1, <2>2 DEF LineSound
  <2>4. \A i \in 1..(Len(line) - 1) :
          line'[i] # c /\ line'[i] \in Calls /\ task[line'[i]] = "queued"
    BY <1>1, <2>1, <2>2 DEF LineSound
  <2>5. \A d \in Calls : d # c /\ task[d] = "queued" => task'[d] = "queued"
    BY <1>1, <1>2 DEF HostTypeOK
  <2>6. QED
    BY <2>1, <2>3, <2>4, <2>5 DEF LineSound
<1>5. ExecSound'
  <2>1. CASE exec' = exec
    BY <1>2, <2>1 DEF ExecSound
  <2>2. CASE exec' = NewExec(c) /\ task' = [task EXCEPT ![c] = "running"]
    <3>1. exec'.call = c /\ task'[c] = "running"
      BY <1>1, <2>2 DEF NewExec, HostTypeOK
    <3>2. at[c] \in {"waiting", "answered"} /\ Released(c) /\ ran[c] = 0
      BY <1>1, SMTT(40) DEF TaskSound
    <3>3. QED
      BY <1>2, <3>1, <3>2 DEF ExecSound, Released
  <2>3. QED
    BY <1>2, <2>1, <2>2
<1>6. ASSUME NEW d \in Calls PROVE (TaskSound(d) /\ CallSound(d) /\ DeniedSound(d))'
  BY <1>1, <1>2, <1>3 DEF HostTypeOK, TaskSound, CallSound, DeniedSound, NewExec,
                          Released, Gated, Meta, Kind
<1>7. QED
  BY <1>3, <1>4, <1>5, <1>6

-----------------------------------------------------------------------------
(* The guardian: a step works on the request, or ends it.                   *)

Around == <<presence, scene, at, answer, waiter, inbox, approval, receipt, line>>

LEMMA WorkStep ==
  ASSUME IInv, exec # None, UNCHANGED <<Around, task, guardian>>,
         exec' \in Exec, exec'.call = exec.call,
         \/ ran' = ran /\ (exec'.stage \in Unstarted => exec.stage \in Unstarted)
         \/ Runs /\ exec.stage \in Unstarted /\ exec'.stage \notin Unstarted
  PROVE  IInv'
<1> USE DEF IInv, Around, Runs
<1>1. exec.call \in Calls
  BY ExecCall
<1>2. HostTypeOK' /\ PostedOnce' /\ up' = up
  <2>1. PresenceTypeOK' /\ PostedOnce' /\ up' = up
    BY PresenceKept DEF HostTypeOK
  <2>2. ran' \in [Calls -> 0..2]
    BY <1>1 DEF HostTypeOK, ExecSound
  <2>3. QED
    BY <2>1, <2>2 DEF HostTypeOK
<1>3. LineSound'
  BY LineKept
<1>4. ExecSound'
  BY <1>1, <1>2 DEF ExecSound, Released, HostTypeOK
<1>5. ASSUME NEW d \in Calls PROVE (TaskSound(d) /\ CallSound(d) /\ DeniedSound(d))'
  BY <1>1, <1>2 DEF HostTypeOK, TaskSound, CallSound, DeniedSound, ExecSound, Released,
                    Gated, Meta, Kind
<1>6. QED
  BY <1>2, <1>3, <1>4, <1>5

LEMMA EndStep ==
  ASSUME IInv, exec # None, UNCHANGED Around, exec' = None, guardian' \in BOOLEAN,
         task' = IF up THEN [task EXCEPT ![exec.call] = "result"] ELSE task,
         ran' = ran \/ (Runs /\ exec.stage \in Unstarted)
  PROVE  IInv'
<1> USE DEF IInv, Around, Runs
<1>1. exec.call \in Calls
  BY ExecCall
<1>2. HostTypeOK' /\ PostedOnce' /\ up' = up
  <2>1. PresenceTypeOK' /\ PostedOnce' /\ up' = up
    BY PresenceKept DEF HostTypeOK
  <2>2. ran' \in [Calls -> 0..2]
    BY <1>1 DEF HostTypeOK, ExecSound
  <2>3. task' \in [Calls -> {"none", "sent", "polling", "releasing", "queued", "running",
                            "deny", "go", "result", "done", "hung"}]
    BY DEF HostTypeOK
  <2>4. QED
    BY <2>1, <2>2, <2>3 DEF HostTypeOK
<1>3. LineSound'
  BY <1>1, LineKept DEF ExecSound, HostTypeOK
<1>4. ExecSound'
  BY DEF ExecSound
<1>5. ASSUME NEW d \in Calls PROVE (TaskSound(d) /\ CallSound(d) /\ DeniedSound(d))'
  BY <1>1, <1>2 DEF HostTypeOK, TaskSound, CallSound, DeniedSound, ExecSound, Released,
                    Gated, Meta, Kind
<1>6. QED
  BY <1>2, <1>3, <1>4, <1>5

LEMMA ExecType ==
  ASSUME IInv, exec # None
  PROVE  exec \in Exec
BY DEF IInv, HostTypeOK

\* From the verification to the hand-over of the child.
LEMMA StartStep ==
  ASSUME IInv, Verify \/ Launch \/ BareExits \/ EnterSandbox \/ TakeOver,
         UNCHANGED <<presence, scene>>
  PROVE  IInv'
<1> USE DEF Around
<1>1. /\ exec # None /\ exec \in Exec /\ UNCHANGED Around
      /\ exec.stage \in Unstarted \cup {"entered", "bare"}
      /\ \/ \E s \in {"launch", "sandbox", "gone"} :
              NextStage(s) /\ ran' = ran /\ exec.stage \in Unstarted
         \/ \E s \in {"entered", "bare"} : NextStage(s) /\ Runs /\ exec.stage \in Unstarted
         \/ NextStage("run") /\ ran' = ran
         \/ Respond /\ (ran' = ran \/ (Runs /\ exec.stage \in Unstarted))
  BY ExecType DEF Verify, Launch, BareExits, EnterSandbox, TakeOver, LetGo, Refuse, SetupFails,
                  AtStage, Unstarted
<1>2. ASSUME NEW s \in {"launch", "sandbox", "gone", "entered", "bare", "run"}, NextStage(s),
             \/ ran' = ran /\ (s \in Unstarted => exec.stage \in Unstarted)
             \/ Runs /\ exec.stage \in Unstarted /\ s \notin Unstarted
      PROVE  IInv'
  <2>1. exec' \in Exec /\ exec'.call = exec.call /\ exec'.stage = s
    BY <1>1, <1>2 DEF NextStage, Exec
  <2>2. QED
    BY <1>1, <1>2, <2>1, WorkStep DEF NextStage
<1>3. ASSUME Respond, ran' = ran \/ (Runs /\ exec.stage \in Unstarted)
      PROVE  IInv'
  <2>1. guardian' \in BOOLEAN
    BY <1>3, Zenon DEF Respond, IInv, HostTypeOK, PresenceTypeOK, FlagsOK
  <2>2. exec' = None /\ task' = IF up THEN [task EXCEPT ![exec.call] = "result"] ELSE task
    BY <1>3 DEF Respond
  <2>3. QED
    BY <1>1, <1>3, <2>1, <2>2, EndStep
<1>4. QED
  BY <1>1, <1>2, <1>3 DEF Unstarted

\* A step of the supervision keeps to its command, which has been started.
LEMMA SupervisionStep ==
  ASSUME IInv, Supervising, NEW e \in Exec, ExecStep(e), e.call = exec.call,
         e.stage \in {"run", "stuck", "failed"}, UNCHANGED <<presence, scene>>
  PROVE  IInv'
<1>1. /\ exec # None /\ exec' = e /\ ran' = ran
      /\ UNCHANGED <<Around, task, guardian>>
  BY DEF Supervising, ExecStep, Around
<1>2. QED
  BY <1>1, WorkStep DEF Unstarted

\* A queue that grew by one completion, and a request with another queue.
LEMMA Queued ==
  ASSUME NEW q \in Seq(Completions), NEW x \in Completions
  PROVE  Append(q, x) \in Seq(Completions)
OBVIOUS

LEMMA ExecFields ==
  ASSUME NEW e \in Exec
  PROVE  /\ e.cq \in Seq(Completions) /\ e.batch \in Seq(Completions)
         /\ e.proc \in {"running", "blocked", "zombie", "reaped"}
BY DEF Exec

LEMMA ExecUpdates ==
  ASSUME NEW e \in Exec, NEW q \in Seq(Completions), NEW more \in BOOLEAN
  PROVE  /\ [e EXCEPT !.cq = q, !.armed = more] \in Exec
         /\ [e EXCEPT !.proc = "zombie", !.cq = q] \in Exec
         /\ [e EXCEPT !.fired = TRUE, !.cq = q] \in Exec
         /\ [e EXCEPT !.batch = q] \in Exec
         /\ [e EXCEPT !.batch = e.cq, !.cq = <<>>] \in Exec
<1>1. [e EXCEPT !.cq = q, !.armed = more] \in Exec
  BY DEF Exec
<1>2. [e EXCEPT !.proc = "zombie", !.cq = q] \in Exec
  BY DEF Exec
<1>3. [e EXCEPT !.fired = TRUE, !.cq = q] \in Exec
  BY DEF Exec
<1>4. [e EXCEPT !.batch = q] \in Exec
  BY DEF Exec
<1>5. [e EXCEPT !.batch = e.cq, !.cq = <<>>] \in Exec
  <2>1. <<>> \in Seq(Completions)
    OBVIOUS
  <2>2. QED
    BY <2>1 DEF Exec
<1>6. QED
  BY <1>1, <1>2, <1>3, <1>4, <1>5

Supervises ==
  Trap \/ Exits \/ DeadlineFires \/ Collect \/ WaitFails \/ Dispatch \/ Rearm

LEMMA SupervisesStep ==
  ASSUME IInv, Supervises, UNCHANGED <<presence, scene>>
  PROVE  IInv'
<1> DEFINE Continues(e) == e \in Exec /\ e.call = exec.call /\ e.stage \in {"run", "stuck", "failed"}
<1>1. Supervising
  BY DEF Supervises, Trap, Exits, DeadlineFires, Collect, WaitFails, Dispatch, Rearm
<1>2. exec \in Exec /\ Continues(exec)
  BY <1>1, ExecType DEF Supervising
<1>3. ASSUME NEW e, Continues(e), NEW f \in Notified(e)
      PROVE  Continues(f)
  <2>1. PICK more \in BOOLEAN : f = [e EXCEPT !.cq = Append(@, "notify"), !.armed = more]
    BY <1>3 DEF Notified
  <2>2. Append(e.cq, "notify") \in Seq(Completions)
    BY SMTT(40), <1>3, ExecFields, Queued DEF Completions
  <2>3. f \in Exec
    BY <1>3, <2>1, <2>2, ExecUpdates
  <2>4. QED
    BY <1>3, <2>1, <2>3 DEF Exec
<1>4. \E e : ExecStep(e) /\ Continues(e)
  <2>1. CASE Trap
    <3>1. Continues([exec EXCEPT !.proc = "blocked"])
      BY <1>2 DEF Exec
    <3>2. \/ \E e \in Notified([exec EXCEPT !.proc = "blocked"]) : ExecStep(e)
          \/ ExecStep([exec EXCEPT !.proc = "blocked"])
      BY <2>1 DEF Trap
    <3>3. QED
      BY <1>3, <3>1, <3>2
  <2>2. CASE Exits
    <3> DEFINE e == [exec EXCEPT !.proc = "zombie", !.cq = Append(@, "exit")]
    <3>1. Continues(e)
      <4>1. Append(exec.cq, "exit") \in Seq(Completions)
        BY <1>2, ExecFields, Queued DEF Completions
      <4>2. e \in Exec
        BY <1>2, <4>1, ExecUpdates
      <4>3. QED
        BY <1>2, <4>2 DEF Exec
    <3>2. QED
      BY <2>2, <3>1 DEF Exits
  <2>3. CASE DeadlineFires
    <3> DEFINE e == [exec EXCEPT !.fired = TRUE, !.cq = Append(@, "deadline")]
    <3>1. Continues(e)
      <4>1. Append(exec.cq, "deadline") \in Seq(Completions)
        BY <1>2, ExecFields, Queued DEF Completions
      <4>2. e \in Exec
        BY <1>2, <4>1, ExecUpdates
      <4>3. QED
        BY <1>2, <4>2 DEF Exec
    <3>2. QED
      BY <2>3, <3>1 DEF DeadlineFires
  <2>4. CASE Collect
    <3> DEFINE e == [exec EXCEPT !.batch = exec.cq, !.cq = <<>>]
    <3>1. Continues(e)
      <4>1. e \in Exec
        BY <1>2, ExecFields, ExecUpdates
      <4>2. QED
        BY <1>2, <4>1 DEF Exec
    <3>2. QED
      BY <2>4, <3>1 DEF Collect
  <2>5. CASE Dispatch
    <3> DEFINE rest == [exec EXCEPT !.batch = Tail(@)]
    <3>1. Continues(rest)
      <4>1. Tail(exec.batch) \in Seq(Completions)
        BY SMTT(40), <1>2, <2>5, ExecFields DEF Dispatch
      <4>2. rest \in Exec
        BY <1>2, <4>1, ExecUpdates
      <4>3. QED
        BY <1>2, <4>2 DEF Exec
    <3>2. /\ \A p \in {"running", "blocked", "zombie", "reaped"}, more \in BOOLEAN :
               Continues([rest EXCEPT !.proc = p, !.rearm = more])
          /\ \A stage \in {"stuck", "failed"} : Continues([rest EXCEPT !.stage = stage])
          /\ Continues([rest EXCEPT !.proc = "reaped"])
      BY ZenonT(60), <3>1 DEF Exec
    <3>3. ASSUME NEW e \in NotificationHandled(rest) PROVE Continues(e)
      <4> DEFINE p == IF rest.proc = "blocked" THEN "running" ELSE rest.proc
      <4>1. p \in {"running", "blocked", "zombie", "reaped"} /\ (~rest.armed) \in BOOLEAN
        BY <3>1, ExecFields
      <4>2. \/ e = [rest EXCEPT !.proc = p, !.rearm = ~rest.armed]
            \/ e = [rest EXCEPT !.stage = "failed"]
            \/ e = [rest EXCEPT !.stage = "stuck"]
        BY <3>3 DEF NotificationHandled
      <4> HIDE DEF p, rest, Continues
      <4>3. QED
        BY <3>2, <4>1, <4>2
    <3>4. Continues(Reaped(rest))
      BY <3>2 DEF Reaped
    <3>5. \E e \in IF Head(exec.batch) = "notify" THEN NotificationHandled(rest)
                                               ELSE {Reaped(rest)} : ExecStep(e)
      BY <2>5, Zenon DEF Dispatch
    <3>6. QED
      <4> HIDE DEF rest, Continues
      <4>1. QED
        BY <3>3, <3>4, <3>5
  <2>6. CASE Rearm
    <3> DEFINE e == [exec EXCEPT !.rearm = FALSE, !.armed = TRUE]
    <3>1. Continues(e)
      BY <1>2 DEF Exec
    <3>2. ExecStep(e) \/ \E f \in Notified(e) : ExecStep(f)
      BY <2>6 DEF Rearm
    <3>3. QED
      BY <1>3, <3>1, <3>2
  <2>7. CASE WaitFails
    <3>1. Continues([exec EXCEPT !.stage = "failed"])
      BY <1>2 DEF Exec
    <3>2. QED
      BY <2>7, <3>1 DEF WaitFails
  <2>8. QED
    BY <2>1, <2>2, <2>3, <2>4, <2>5, <2>6, <2>7 DEF Supervises
<1>5. QED
  BY <1>1, <1>4, SupervisionStep

LEMMA FinishStep ==
  ASSUME IInv, Finish, UNCHANGED <<presence, scene>>
  PROVE  IInv'
<1>1. /\ exec # None /\ UNCHANGED Around /\ ran' = ran /\ exec' = None
      /\ task' = IF up THEN [task EXCEPT ![exec.call] = "result"] ELSE task
  BY DEF Finish, Respond, Around
<1>2. guardian' \in BOOLEAN
  BY Zenon DEF Finish, Respond, IInv, HostTypeOK, PresenceTypeOK, FlagsOK
<1>3. QED
  BY <1>1, <1>2, EndStep

-----------------------------------------------------------------------------
(* Failures.                                                                *)

LEMMA GuardianDiesStep ==
  ASSUME IInv, GuardianDies, UNCHANGED <<presence, scene>>
  PROVE  IInv'
<1>1. /\ guardian' = FALSE /\ exec' = None /\ UNCHANGED Around /\ ran' = ran
      /\ task' = IF exec # None /\ up THEN [task EXCEPT ![exec.call] = "result"] ELSE task
  BY DEF GuardianDies, Around
<1>2. CASE exec # None
  BY <1>1, <1>2, EndStep
<1>3. CASE exec = None
  <2> USE <1>1, <1>3 DEF IInv, Around
  <2>1. HostTypeOK' /\ PostedOnce' /\ up' = up
    BY PresenceKept DEF HostTypeOK
  <2>2. LineSound' /\ ExecSound'
    BY LineKept DEF ExecSound
  <2>3. ASSUME NEW d \in Calls PROVE (TaskSound(d) /\ CallSound(d) /\ DeniedSound(d))'
    BY <2>1 DEF TaskSound, CallSound, DeniedSound, Released, Gated, Meta, Kind
  <2>4. QED
    BY <2>1, <2>2, <2>3
<1>4. QED
  BY <1>2, <1>3

LEMMA ShimDiesStep ==
  ASSUME IInv, ShimDies
  PROVE  IInv'
<1> USE DEF IInv
<1>1. /\ up' = FALSE /\ beating' = FALSE /\ line' = <<>>
      /\ task' = [c \in Calls |-> IF task[c] = "none" THEN "none" ELSE "done"]
      /\ UNCHANGED <<announced, streams, mapped, posts, usable, logged, live, beat, verdict,
                     restarted, scene, at, answer, waiter, inbox, approval, receipt, exec,
                     guardian, ran>>
  BY DEF ShimDies
<1>2. HostTypeOK' /\ PostedOnce'
  <2>1. FlagsOK'
    BY <1>1, Zenon DEF HostTypeOK, PresenceTypeOK, FlagsOK
  <2>2. line' \in Seq(Calls)
    BY <1>1
  <2>3. QED
    BY <1>1, <2>1, <2>2 DEF HostTypeOK, PresenceTypeOK, PostedOnce
<1>3. LineSound' /\ ExecSound'
  BY <1>1, ExecCall DEF HostTypeOK, LineSound, ExecSound, Released
<1>4. ASSUME NEW d \in Calls PROVE (TaskSound(d) /\ CallSound(d) /\ DeniedSound(d))'
  BY <1>1 DEF HostTypeOK, TaskSound, CallSound, DeniedSound, Released, Gated, Meta, Kind
<1>5. QED
  BY <1>2, <1>3, <1>4

LEMMA PresenceKeepsCalls ==
  ASSUME IInv, PresenceStep, UNCHANGED <<scene, calls>>
  PROVE  IInv'
<1> USE DEF IInv, calls
<1>1. HostTypeOK' /\ PostedOnce' /\ up' = up
  BY PresenceTyped DEF HostTypeOK
<1>2. LineSound' /\ ExecSound'
  BY <1>1 DEF LineSound, ExecSound, Released
<1>3. ASSUME NEW d \in Calls PROVE (TaskSound(d) /\ CallSound(d) /\ DeniedSound(d))'
  BY <1>1 DEF TaskSound, CallSound, DeniedSound, Released, Gated, Meta, Kind
<1>4. QED
  BY <1>1, <1>2, <1>3

-----------------------------------------------------------------------------
(* The theorems.                                                            *)

(* IInv is an invariant: it holds at the start and every step of adapter,   *)
(* shim, guardian, server and failure keeps it.                             *)
THEOREM Invariance == Spec => []IInv
<1>1. Init => IInv
  <2> SUFFICES ASSUME Init PROVE IInv
    OBVIOUS
  <2>1. HostTypeOK
    BY InitTyped
  <2>2. PostedOnce /\ LineSound /\ ExecSound
    BY DEF Init, PresenceInit, PostedOnce, LineSound, ExecSound
  <2>3. ASSUME NEW c \in Calls PROVE TaskSound(c) /\ CallSound(c) /\ DeniedSound(c)
    BY DEF Init, TaskSound, CallSound, DeniedSound
  <2>4. QED
    BY <2>1, <2>2, <2>3 DEF IInv
<1>2. IInv /\ [Next]_vars => IInv'
  <2> SUFFICES ASSUME IInv, [Next]_vars PROVE IInv'
    OBVIOUS
  <2>1. CASE CallStep /\ UNCHANGED <<presence, scene>>
    BY <2>1, AskStep, DecidedStep, MetaToolStep, ForwardedStep, UpstreamStep, ProposedStep,
       ConsumeStep, ServerDecidesStep, SubmitStep, StartStep, SupervisesStep, FinishStep,
       GuardianDiesStep
       DEF CallStep, Supervises
  <2>2. CASE PresenceStep /\ UNCHANGED <<scene, calls>>
    BY <2>2, PresenceKeepsCalls
  <2>3. CASE ShimDies
    BY <2>3, ShimDiesStep
  <2>4. CASE UNCHANGED vars
    BY <2>4 DEF vars, presence, calls, IInv, HostTypeOK, PresenceTypeOK, FlagsOK, PostedOnce,
                LineSound, ExecSound, TaskSound, CallSound, DeniedSound, Released, Gated,
                Meta, Kind
  <2>5. QED
    BY <2>1, <2>2, <2>3, <2>4 DEF Next
<1>3. QED
  BY <1>1, <1>2, PTL DEF Spec

(* Every variable of the host keeps its type; no counter of runs passes its *)
(* bound although no guard of the model mentions it.                        *)
THEOREM TypeCorrect == Spec => []HostTypeOK
<1>1. IInv => HostTypeOK
  BY DEF IInv
<1>2. QED
  BY <1>1, Invariance, PTL

(* consume_and_patch is the only way to a run: whatever fails and whether   *)
(* the shim is configured to fail open, a gated call runs at most once,     *)
(* under its own released receipt and an approval the server recorded.      *)
THEOREM RunsUnderReceipt == Spec => []UnderReceipt
<1>1. IInv => UnderReceipt
  BY DEF IInv, UnderReceipt, CallSound, Released
<1>2. QED
  BY <1>1, Invariance, PTL

(* A client told by the adapter that its call was denied can rely on it,    *)
(* now and later.                                                           *)
THEOREM DeniedNeverRuns == Spec => []DeniedNeverRan
<1>1. IInv => DeniedNeverRan
  BY DEF IInv, DeniedNeverRan, DeniedSound
<1>2. QED
  BY <1>1, Invariance, PTL
=============================================================================
