------------------------------ MODULE RelayProofs ------------------------------
(***************************************************************************)
(* For any replicas, sessions and bundles: a bundle that was emitted is in  *)
(* one place, and the saved watermark of a session that stays on a replica  *)
(* covers only what its tasks were given.                                   *)
(***************************************************************************)
EXTENDS Relay, FiniteSetTheorems, SequenceTheorems, TLAPS

-----------------------------------------------------------------------------
(* The inductive invariant.                                                 *)

Entry  == [seq: Nat \ {0}, b: BundleIds]
Mark   == [seq: Nat, epoch: Nat]
Waits  == {"check", "forward", "acquire", "append"}
Route  == [pc: {"idle", "deliver", "done"} \cup Waits, tries: Nat, guard: BOOLEAN,
           at: Replicas \cup {None}, dest: Replicas \cup {None}]
Task   == [r: Replicas, s: Sessions, pc: {"boot", "drain", "save", "claim", "up", "dead"}, from: Mark, high: Mark]

Reflecting ==
  /\ log \in [Replicas -> Seq(Entry)] /\ nextSeq \in [Replicas -> Nat \ {0}] /\ epoch \in [Replicas -> Nat]
  /\ lease \in [Replicas -> [Sessions -> BOOLEAN]]

Routing ==
  /\ disp \in [BundleIds -> Route] /\ rows \subseteq [b: BundleIds, owner: Replicas]
  /\ hand \in [Replicas -> SUBSET BundleIds]
  /\ pruned \subseteq BundleIds /\ doubled \subseteq BundleIds /\ dropped \subseteq BundleIds

Placing ==
  /\ place \in [Sessions -> [owner: Replicas \cup {None}, fresh: BOOLEAN]]
  /\ cursor \in [Sessions -> Mark] /\ handle \in [Replicas -> SUBSET Sessions]

Running ==
  /\ tasks \in Seq(Task) /\ given \in [BundleIds -> Nat] /\ homes \in [Sessions -> SUBSET Replicas]
  /\ scene \in Scenes

RelayType == Reflecting /\ Routing /\ Placing /\ Running

\* A dispatch is at a replica once begun, stops trying in time, and forwards to a replica.
Dispatching(b) ==
  /\ disp[b].pc = "idle" => disp[b] = Idle
  /\ disp[b].pc # "idle" => disp[b].at \in Replicas
  /\ disp[b].tries <= MaxAttempts
  /\ disp[b].pc \in {"check", "acquire"} => disp[b].tries < MaxAttempts
  /\ disp[b].pc = "forward" => disp[b].dest \in Replicas

Numbered(r) == \A i \in DOMAIN log[r] : log[r][i].seq < nextSeq[r]

\* The places a bundle can be in, and that it is in one place of each kind.
Logged(b)  == \E r \in Replicas : \E i \in DOMAIN log[r] : log[r][i].b = b
Rowed(b)   == \E y \in rows : y.b = b
Handed(b)  == \E r \in Replicas : b \in hand[r]
Waiting(b) == disp[b].pc \in Waits

OneEntry(b) == \A r, q \in Replicas : \A i \in DOMAIN log[r], j \in DOMAIN log[q] :
                 log[r][i].b = b /\ log[q][j].b = b => r = q /\ i = j
OneRow(b)   == \A y, z \in rows : y.b = b /\ z.b = b => y = z
OneHand(b)  == \A r, q \in Replicas : b \in hand[r] /\ b \in hand[q] => r = q

Ones(b) == OneEntry(b) /\ OneRow(b) /\ OneHand(b)

\* At most one of the places, and one once.
Single(b) ==
  /\ Ones(b)
  /\ Logged(b)  => ~Rowed(b) /\ ~Handed(b) /\ ~Waiting(b) /\ b \notin pruned
  /\ Rowed(b)   => ~Handed(b) /\ ~Waiting(b) /\ b \notin pruned
  /\ Handed(b)  => ~Waiting(b) /\ b \notin pruned
  /\ Waiting(b) => b \notin pruned
  /\ disp[b].pc = "idle" => ~Logged(b) /\ ~Rowed(b) /\ ~Handed(b) /\ b \notin pruned

Placed(b) == Logged(b) \/ Rowed(b) \/ Handed(b) \/ Waiting(b) \/ b \in pruned

\* In one place, unless an INSERT that was reported failed wrote its row, a claim
\* was not heard of, or a replica crashed.
Alone(b) ==
  /\ b \in doubled => ~Waiting(b) /\ disp[b].pc # "idle"
  /\ b \notin doubled => Single(b)
  /\ disp[b].pc # "idle" /\ crashed = {} /\ b \notin dropped => Placed(b)

\* Whatever of r's log is for s, up to n, was given to a task or is too old;
\* what comes later has higher numbers.
Sound(s, r, n) ==
  /\ n < nextSeq[r]
  /\ \A i \in DOMAIN log[r] : Bundles[log[r][i].b].to = s /\ log[r][i].seq <= n
       => given[log[r][i].b] >= 1 \/ log[r][i].b \in expired

\* A session that stays on r, which goes on.
Stays(s, r) == r \notin crashed /\ homes[s] \subseteq {r}

\* The epoch need not agree: a watermark of an earlier epoch of this log is as good.
SoundMarks ==
  \A s \in Sessions, r \in Replicas : Stays(s, r) => Sound(s, r, cursor[s].seq)
SoundTasks ==
  \A i \in DOMAIN tasks : \A r \in Replicas : Stays(tasks[i].s, r) =>
     Sound(tasks[i].s, r, tasks[i].from.seq) /\ Sound(tasks[i].s, r, tasks[i].high.seq)

AtHome == \A i \in DOMAIN tasks : tasks[i].r \in homes[tasks[i].s]

Watermarks == SoundMarks /\ SoundTasks /\ AtHome
Filing     == \A b \in BundleIds : Dispatching(b) /\ Alone(b)
Numbering  == \A r \in Replicas : Numbered(r)

RelayInv == RelayType /\ Numbering /\ Filing /\ Watermarks

-----------------------------------------------------------------------------
(* What the steps have in common.                                           *)

LEMMA RouteShape ==
  ASSUME NEW d \in Route
  PROVE  /\ d.pc \in {"idle", "deliver", "done"} \cup Waits /\ d.tries \in Nat /\ d.guard \in BOOLEAN
         /\ d.at \in Replicas \cup {None} /\ d.dest \in Replicas \cup {None}
BY DEF Route

LEMMA IdleRoute == Idle \in Route /\ Idle.pc = "idle"
BY DEF Idle, Route

LEMMA ZeroMark == Zero \in Mark /\ Zero.seq = 0
BY DEF Zero, Mark

\* An entry more in a log.
LEMMA Appended ==
  ASSUME RelayInv, NEW r \in Replicas, NEW b \in BundleIds, Append1(r, b)
  PROVE  /\ log' \in [Replicas -> Seq(Entry)] /\ nextSeq' \in [Replicas -> Nat \ {0}] /\ epoch' = epoch
         /\ \A q \in Replicas \ {r} : log'[q] = log[q] /\ nextSeq'[q] = nextSeq[q]
         /\ nextSeq'[r] = nextSeq[r] + 1 /\ Len(log[r]) + 1 \notin DOMAIN log[r]
         /\ DOMAIN log'[r] = DOMAIN log[r] \cup {Len(log[r]) + 1}
         /\ \A i \in DOMAIN log[r] : log'[r][i] = log[r][i]
         /\ log'[r][Len(log[r]) + 1] = [seq |-> nextSeq[r], b |-> b]
<1> DEFINE e == [seq |-> nextSeq[r], b |-> b]
<1>1. log \in [Replicas -> Seq(Entry)] /\ nextSeq \in [Replicas -> Nat \ {0}]
  BY DEF RelayInv, RelayType, Reflecting
<1>2. e \in Entry
  BY <1>1 DEF Entry
<1>3. log' = [log EXCEPT ![r] = Append(log[r], e)] /\ nextSeq' = [nextSeq EXCEPT ![r] = nextSeq[r] + 1] /\ epoch' = epoch
  BY DEF Append1
<1> HIDE DEF e
<1>4. /\ Append(log[r], e) \in Seq(Entry) /\ DOMAIN Append(log[r], e) = DOMAIN log[r] \cup {Len(log[r]) + 1}
      /\ Append(log[r], e)[Len(log[r]) + 1] = e /\ Len(log[r]) + 1 \notin DOMAIN log[r]
      /\ \A i \in DOMAIN log[r] : Append(log[r], e)[i] = log[r][i]
  BY <1>1, <1>2
<1>5. QED
  BY <1>1, <1>3, <1>4 DEF e

\* Nothing is renumbered: what is new in r's log has new numbers.
Grows(r) ==
  /\ nextSeq'[r] \in Nat /\ nextSeq[r] <= nextSeq'[r]
  /\ \A i \in DOMAIN log'[r] : log'[r][i].seq \in Nat
       /\ ((\E j \in DOMAIN log[r] : log'[r][i] = log[r][j]) \/ log'[r][i].seq >= nextSeq[r])

Spreads ==
  /\ \A b \in BundleIds : given'[b] >= given[b] /\ given'[b] \in Nat
  /\ expired \subseteq expired' /\ crashed \subseteq crashed'

LEMMA StillNumbered ==
  ASSUME RelayInv, UNCHANGED <<log, nextSeq>>
  PROVE  Numbering' /\ \A r \in Replicas : Grows(r)
<1>1. \A r \in Replicas : log[r] \in Seq(Entry) /\ nextSeq[r] \in Nat
  BY DEF RelayInv, RelayType, Reflecting
<1>2. \A r \in Replicas : \A i \in DOMAIN log[r] : log[r][i] \in Entry
  BY <1>1
<1>3. QED
  BY <1>1, <1>2 DEF RelayInv, Numbering, Numbered, Grows, Entry

LEMMA AppendedNumbered ==
  ASSUME RelayInv, NEW r \in Replicas, NEW b \in BundleIds, Append1(r, b)
  PROVE  Numbering' /\ \A q \in Replicas : Grows(q)
<1>1. \A q \in Replicas : log[q] \in Seq(Entry) /\ nextSeq[q] \in Nat /\ Numbered(q)
  BY DEF RelayInv, RelayType, Reflecting, Numbering
<1>2. \A q \in Replicas : \A i \in DOMAIN log[q] : log[q][i] \in Entry /\ log[q][i].seq \in Nat
  <2>1. \A q \in Replicas : \A i \in DOMAIN log[q] : log[q][i] \in Entry
    BY <1>1
  <2>2. QED
    BY <2>1 DEF Entry
<1>3. ASSUME NEW q \in Replicas PROVE Numbered(q)' /\ Grows(q)
  <2>1. CASE q # r
    <3>1. log'[q] = log[q] /\ nextSeq'[q] = nextSeq[q]
      BY ZenonT(60), <2>1, Appended
    <3>2. QED
      BY <1>1, <1>2, <3>1 DEF Numbered, Grows
  <2>2. CASE q = r
    <3>1. /\ nextSeq'[r] = nextSeq[r] + 1 /\ DOMAIN log'[r] = DOMAIN log[r] \cup {Len(log[r]) + 1}
          /\ \A i \in DOMAIN log[r] : log'[r][i] = log[r][i]
          /\ log'[r][Len(log[r]) + 1] = [seq |-> nextSeq[r], b |-> b]
      BY Appended
    <3>2. nextSeq[r] \in Nat /\ \A i \in DOMAIN log[r] : log[r][i].seq \in Nat /\ log[r][i].seq < nextSeq[r]
      BY <1>1, <1>2 DEF Numbered
    <3>3. Numbered(r)'
      BY <3>1, <3>2 DEF Numbered
    <3>4. Grows(r)
      BY <3>1, <3>2 DEF Grows
    <3>5. QED
      BY <2>2, <3>3, <3>4
  <2>3. QED
    BY <2>1, <2>2
<1>4. QED
  BY <1>3 DEF Numbering

\* Sound watermarks of a log that only grows stay sound.
LEMMA SoundKept ==
  ASSUME RelayInv, NEW r \in Replicas, NEW s, NEW n \in Nat, Grows(r), Spreads, Sound(s, r, n)
  PROVE  Sound(s, r, n)'
<1>1. nextSeq[r] \in Nat /\ log[r] \in Seq(Entry) /\ given \in [BundleIds -> Nat]
  BY DEF RelayInv, RelayType, Reflecting, Running
<1>2. n < nextSeq'[r]
  BY <1>1 DEF Sound, Grows
<1>3. ASSUME NEW i \in DOMAIN log'[r], Bundles[log'[r][i].b].to = s, log'[r][i].seq <= n
      PROVE  given'[log'[r][i].b] >= 1 \/ log'[r][i].b \in expired'
  <2>1. log'[r][i].seq \in Nat /\ ~(log'[r][i].seq >= nextSeq[r])
    BY <1>1, <1>3 DEF Sound, Grows
  <2>2. PICK j \in DOMAIN log[r] : log'[r][i] = log[r][j]
    BY <2>1 DEF Grows
  <2>3. log[r][j] \in Entry
    BY <1>1
  <2>4. log[r][j].b \in BundleIds
    BY <2>3 DEF Entry
  <2>5. given[log[r][j].b] >= 1 \/ log[r][j].b \in expired
    BY <1>3, <2>2 DEF Sound
  <2>6. QED
    BY <1>1, <2>2, <2>4, <2>5 DEF Spreads
<1>4. QED
  BY <1>2, <1>3 DEF Sound

LEMMA TaskShape ==
  ASSUME NEW t \in Task
  PROVE  t.r \in Replicas /\ t.s \in Sessions /\ t.from \in Mark /\ t.high \in Mark /\ t.from.seq \in Nat /\ t.high.seq \in Nat
BY DEF Task, Mark

LEMMA MarksTyped ==
  ASSUME RelayInv
  PROVE  /\ \A s \in Sessions : cursor[s] \in Mark /\ cursor[s].seq \in Nat
         /\ \A i \in DOMAIN tasks : tasks[i] \in Task
<1>1. \A s \in Sessions : cursor[s] \in Mark
  BY DEF RelayInv, RelayType, Placing
<1>2. QED
  BY <1>1 DEF RelayInv, RelayType, Running, Mark

LEMMA WatermarksKept ==
  ASSUME RelayInv, UNCHANGED <<cursor, tasks, homes>>, Spreads, \A r \in Replicas \ crashed' : Grows(r)
  PROVE  Watermarks'
<1>1. \A s, r : Stays(s, r)' => Stays(s, r) /\ r \notin crashed'
  BY DEF Stays, Spreads
<1>2. SoundMarks'
  BY <1>1, SoundKept, MarksTyped DEF RelayInv, Watermarks, SoundMarks
<1>3. SoundTasks'
  <2> SUFFICES ASSUME NEW i \in DOMAIN tasks, NEW r \in Replicas, Stays(tasks[i].s, r)'
               PROVE  Sound(tasks[i].s, r, tasks[i].from.seq)' /\ Sound(tasks[i].s, r, tasks[i].high.seq)'
    BY DEF SoundTasks
  <2>1. /\ tasks[i].from.seq \in Nat /\ tasks[i].high.seq \in Nat /\ Grows(r)
        /\ Sound(tasks[i].s, r, tasks[i].from.seq) /\ Sound(tasks[i].s, r, tasks[i].high.seq)
    BY <1>1, MarksTyped, TaskShape DEF RelayInv, Watermarks, SoundTasks, Stays
  <2>2. QED
    BY <2>1, SoundKept DEF Sound
<1>4. QED
  BY <1>2, <1>3 DEF RelayInv, Watermarks, AtHome

\* A bundle whose places a step does not change.
Unmoved(b) ==
  /\ b \notin doubled => Ones(b)'
  /\ Logged(b)' <=> Logged(b)
  /\ Rowed(b)' <=> Rowed(b)
  /\ Handed(b)' <=> Handed(b)
  /\ b \in pruned' <=> b \in pruned
  /\ b \in doubled' <=> b \in doubled
  /\ b \in dropped' <=> b \in dropped

LEMMA AloneKept ==
  ASSUME NEW b \in BundleIds, Alone(b), Unmoved(b), Waiting(b)' <=> Waiting(b),
         disp'[b].pc = "idle" <=> disp[b].pc = "idle", crashed' = crashed
  PROVE  Alone(b)'
<1>1. (b \in doubled => ~Waiting(b) /\ disp[b].pc # "idle")'
  BY DEF Alone, Unmoved
<1>2. (b \notin doubled => Single(b))'
  BY DEF Alone, Unmoved, Single
<1>3. (disp[b].pc # "idle" /\ crashed = {} /\ b \notin dropped => Placed(b))'
  BY DEF Alone, Unmoved, Placed
<1>4. QED
  BY <1>1, <1>2, <1>3 DEF Alone

\* What of a bundle a step that leaves these as they are does not change.
LEMMA SameFile ==
  ASSUME RelayInv, UNCHANGED <<log, rows, hand, pruned, doubled, dropped>>, NEW a \in BundleIds
  PROVE  Unmoved(a)
<1>1. a \notin doubled => Ones(a)
  BY DEF RelayInv, Filing, Alone, Single
<1>2. Ones(a)' <=> Ones(a)
  BY DEF Ones, OneEntry, OneRow, OneHand
<1>3. /\ Logged(a)' <=> Logged(a)
      /\ Rowed(a)' <=> Rowed(a)
      /\ Handed(a)' <=> Handed(a)
  BY DEF Logged, Rowed, Handed
<1>4. QED
  BY <1>1, <1>2, <1>3 DEF Unmoved

\* A step that only moves dispatches that keep waiting, or do not start to.
LEMMA FilingKept ==
  ASSUME RelayInv, UNCHANGED <<log, rows, hand, pruned, doubled, dropped, crashed>>,
         \A b \in BundleIds : /\ Dispatching(b)' /\ (disp'[b].pc = "idle" <=> disp[b].pc = "idle")
                              /\ Waiting(b)' <=> Waiting(b)
  PROVE  Filing'
<1> SUFFICES ASSUME NEW b \in BundleIds PROVE Alone(b)'
  BY DEF Filing
<1>1. Alone(b) /\ (disp'[b].pc = "idle" <=> disp[b].pc = "idle") /\ (Waiting(b)' <=> Waiting(b))
  BY DEF RelayInv, Filing
<1>2. QED
  BY <1>1, SameFile, AloneKept

-----------------------------------------------------------------------------
(* Dispatch.                                                                *)

\* A step that concerns one bundle.
LEMMA OthersFiled ==
  ASSUME RelayInv, NEW b \in BundleIds, Dispatching(b)', Alone(b)', crashed' = crashed,
         \A a \in BundleIds \ {b} : disp'[a] = disp[a] /\ Unmoved(a)
  PROVE  Filing'
<1>1. ASSUME NEW a \in BundleIds \ {b} PROVE Dispatching(a)' /\ Alone(a)'
  <2>1. Dispatching(a) /\ Alone(a) /\ disp'[a] = disp[a]
    BY DEF RelayInv, Filing
  <2>2. Waiting(a)' <=> Waiting(a)
    BY <2>1 DEF Waiting
  <2>3. Dispatching(a)'
    BY <2>1 DEF Dispatching
  <2>4. QED
    BY <2>1, <2>2, <2>3, AloneKept
<1>2. QED
  BY <1>1 DEF Filing

LEMMA Begun ==
  ASSUME RelayInv, NEW b \in BundleIds
  PROVE  /\ disp \in [BundleIds -> Route] /\ disp[b] \in Route /\ Dispatching(b) /\ Alone(b)
         /\ Bundles[b].from \in Replicas /\ Bundles[b].to \in Sessions /\ None \notin Replicas
         /\ MaxAttempts \in Nat \ {0}
BY RelayAssumption DEF RelayInv, RelayType, Routing, Filing, BundleIds

LEMMA Spreading ==
  ASSUME RelayInv, given' = given, expired \subseteq expired', crashed \subseteq crashed'
  PROVE  Spreads
BY DEF RelayInv, RelayType, Running, Spreads

LEMMA EmitSound ==
  ASSUME RelayInv, NEW b \in BundleIds, Emit(b)
  PROVE  RelayInv'
<1> DEFINE d == [Idle EXCEPT !.pc = "check", !.at = Bundles[b].from]
<1> USE DEF reflector, durable, history, unheard
<1>1. /\ disp[b] = Idle /\ disp' = [disp EXCEPT ![b] = d]
      /\ UNCHANGED <<log, nextSeq, epoch, lease, rows, place, cursor, hand, handle, tasks, given, homes,
                     pruned, expired, doubled, dropped, crashed, scene>>
  BY DEF Emit
<1>2. d \in Route /\ d.pc = "check" /\ d.at \in Replicas /\ d.tries = 0
  BY Begun DEF Idle, Route, Waits
<1> HIDE DEF d
<1>3. disp'[b] = d /\ disp' \in [BundleIds -> Route] /\ \A a \in BundleIds \ {b} : disp'[a] = disp[a]
  BY <1>1, <1>2, Begun
<1>4. RelayType'
  BY <1>1, <1>3 DEF RelayInv, RelayType, Reflecting, Routing, Placing, Running
<1>5. Numbering' /\ Watermarks'
  BY <1>1, StillNumbered, Spreading, WatermarksKept
<1>6. Dispatching(b)'
  BY <1>2, <1>3, Begun DEF Dispatching
<1>7. disp[b].pc = "idle" /\ disp'[b].pc # "idle" /\ Waiting(b)'
  BY <1>1, <1>2, <1>3, IdleRoute DEF Waiting, Waits
<1>8. Alone(b)'
  BY <1>1, <1>7, SameFile, Begun DEF Alone, Single, Placed, Unmoved
<1>9. Filing'
  BY <1>1, <1>3, <1>6, <1>8, SameFile, OthersFiled
<1>10. QED
  BY <1>4, <1>5, <1>9 DEF RelayInv

\* A step of a dispatch that leaves the bundle where it is.
LEMMA RouteSound ==
  ASSUME RelayInv, NEW b \in BundleIds, NEW d \in Route, disp' = [disp EXCEPT ![b] = d],
         disp[b].pc # "idle", d.pc # "idle", d.at = disp[b].at, disp[b].pc \in Waits <=> d.pc \in Waits,
         d.tries <= MaxAttempts, d.pc \in {"check", "acquire"} => d.tries < MaxAttempts,
         d.pc = "forward" => d.dest \in Replicas,
         lease' \in [Replicas -> [Sessions -> BOOLEAN]], given' \in [BundleIds -> Nat],
         \A a \in BundleIds : given'[a] >= given[a],
         UNCHANGED <<log, nextSeq, epoch, rows, place, cursor, hand, handle, tasks, homes,
                     pruned, expired, doubled, dropped, crashed, scene>>
  PROVE  RelayInv'
<1>1. disp'[b] = d /\ disp' \in [BundleIds -> Route] /\ \A a \in BundleIds \ {b} : disp'[a] = disp[a]
  BY Begun
<1>2. RelayType'
  BY <1>1 DEF RelayInv, RelayType, Reflecting, Routing, Placing, Running
<1>3. Spreads
  BY DEF Spreads
<1>4. Numbering' /\ Watermarks'
  BY <1>3, StillNumbered, WatermarksKept
<1>5. Dispatching(b)'
  BY <1>1, Begun DEF Dispatching
<1>6. Waiting(b)' <=> Waiting(b)
  BY <1>1 DEF Waiting
<1>7. Alone(b)'
  BY <1>1, <1>6, SameFile, Begun, AloneKept
<1>8. Filing'
  BY <1>1, <1>5, <1>7, SameFile, OthersFiled
<1>9. QED
  BY <1>2, <1>4, <1>8 DEF RelayInv

\* What a dispatch that goes no further than the plan leaves alone.
Planned ==
  UNCHANGED <<log, nextSeq, epoch, lease, rows, place, cursor, hand, handle, tasks, given, homes,
              pruned, expired, doubled, dropped, crashed, scene>>

LEMMA PlanLocalSound ==
  ASSUME RelayInv, NEW b \in BundleIds, disp[b].pc = "check", PlanLocal(b), Planned
  PROVE  RelayInv'
<1> DEFINE r == disp[b].at
           d == [disp[b] EXCEPT !.pc = IF lease[r][Bundles[b].to] THEN "append" ELSE "acquire"]
<1> USE DEF Planned
<1>1. disp[b] \in Route /\ r \in Replicas /\ disp[b].pc # "idle" /\ disp[b].tries < MaxAttempts
  BY Begun DEF Dispatching
<1>2. disp' = [disp EXCEPT ![b] = d]
  BY Begun DEF PlanLocal, Go
<1>3. d \in Route /\ d.pc \in {"append", "acquire"} /\ d.at = r /\ d.tries = disp[b].tries
  BY <1>1 DEF Route, Waits
<1> HIDE DEF d
<1>4. d.pc # "idle" /\ d.pc \in Waits /\ disp[b].pc \in Waits /\ d.tries <= MaxAttempts /\ d.pc # "forward"
  BY <1>1, <1>3, RouteShape, Begun DEF Waits
<1>5. /\ lease' \in [Replicas -> [Sessions -> BOOLEAN]] /\ given' \in [BundleIds -> Nat]
      /\ \A a \in BundleIds : given'[a] >= given[a]
  BY DEF RelayInv, RelayType, Reflecting, Running
<1>6. QED
  BY <1>1, <1>2, <1>3, <1>4, <1>5, RouteSound

LEMMA CheckOwnerSound ==
  ASSUME RelayInv, NEW b \in BundleIds, CheckOwner(b)
  PROVE  RelayInv'
<1> DEFINE o == Owner(Bundles[b].to)
           r == disp[b].at
<1>1. disp[b].pc = "check" /\ Planned
  BY DEF CheckOwner, Planned, reflector, durable, history, unheard
<1>2. disp[b] \in Route /\ r \in Replicas /\ disp[b].pc # "idle" /\ disp[b].tries < MaxAttempts
  BY <1>1, Begun DEF Dispatching
<1>3. CASE Elsewhere(b)
  <2> DEFINE d == [disp[b] EXCEPT !.pc = "forward", !.dest = o]
  <2>1. disp' = [disp EXCEPT ![b] = d]
    BY <1>3, Begun DEF CheckOwner
  <2>2. o \in Replicas
    BY <1>3, Begun DEF Elsewhere, Owner, RelayInv, RelayType, Placing
  <2>3. d \in Route /\ d.pc = "forward" /\ d.dest = o /\ d.at = r /\ d.tries = disp[b].tries
    BY <1>2, <2>2 DEF Route, Waits
  <2> HIDE DEF d, o
  <2>4. d.pc # "idle" /\ d.pc \in Waits /\ disp[b].pc \in Waits /\ d.tries <= MaxAttempts
    BY <1>1, <1>2, <2>3, RouteShape, Begun DEF Waits
  <2>5. /\ lease' \in [Replicas -> [Sessions -> BOOLEAN]] /\ given' \in [BundleIds -> Nat]
        /\ \A a \in BundleIds : given'[a] >= given[a]
    BY <1>1 DEF Planned, RelayInv, RelayType, Reflecting, Running
  <2>6. QED
    BY <1>1, <1>2, <2>1, <2>2, <2>3, <2>4, <2>5, RouteSound DEF Planned
<1>4. CASE ~Elsewhere(b)
  <2>1. PlanLocal(b)
    BY <1>4 DEF CheckOwner
  <2>2. QED
    BY <1>1, <2>1, PlanLocalSound
<1>5. QED
  BY <1>3, <1>4

LEMMA OwnerUnknownSound ==
  ASSUME RelayInv, NEW b \in BundleIds, OwnerUnknown(b)
  PROVE  RelayInv'
<1>1. disp[b].pc = "check" /\ PlanLocal(b) /\ Planned
  BY DEF OwnerUnknown, Planned, reflector, durable, unheard
<1>2. QED
  BY <1>1, PlanLocalSound

LEMMA TryAcquireSound ==
  ASSUME RelayInv, NEW b \in BundleIds, TryAcquire(b)
  PROVE  RelayInv'
<1> DEFINE r == disp[b].at
           s == Bundles[b].to
           n == disp[b].tries + 1
           pc == IF n < MaxAttempts THEN "check" ELSE "append"
           got == [disp[b] EXCEPT !.pc = "append", !.guard = TRUE]
           lost == [disp[b] EXCEPT !.tries = n, !.pc = pc]
<1> USE DEF reflector, durable, history, unheard
<1>1. /\ disp[b].pc = "acquire"
      /\ UNCHANGED <<log, nextSeq, epoch, rows, place, cursor, hand, handle, tasks, given, homes,
                     pruned, expired, doubled, dropped, crashed, scene>>
  BY DEF TryAcquire
<1>2. disp[b] \in Route /\ r \in Replicas /\ disp[b].tries \in Nat /\ disp[b].tries < MaxAttempts /\ MaxAttempts \in Nat
  BY <1>1, Begun, RouteShape DEF Dispatching
<1>3. given' \in [BundleIds -> Nat] /\ \A a \in BundleIds : given'[a] >= given[a]
  BY <1>1 DEF RelayInv, RelayType, Running
<1>4. disp[b].pc # "idle" /\ disp[b].pc \in Waits
  BY <1>1 DEF Waits
<1>5. CASE ~lease[r][s]
  <2>1. lease' = [lease EXCEPT ![r][s] = TRUE] /\ disp' = [disp EXCEPT ![b] = got]
    BY <1>5, Begun DEF TryAcquire
  <2>2. lease' \in [Replicas -> [Sessions -> BOOLEAN]]
    BY <2>1 DEF RelayInv, RelayType, Reflecting
  <2>3. got \in Route /\ got.pc = "append" /\ got.at = r /\ got.tries = disp[b].tries
    BY <1>2 DEF Route, Waits
  <2> HIDE DEF got
  <2>4. /\ got.pc # "idle" /\ got.pc \in Waits /\ got.tries <= MaxAttempts
        /\ got.pc \notin {"check", "acquire", "forward"}
    BY <1>2, <2>3 DEF Waits
  <2>5. QED
    BY <1>1, <1>3, <1>4, <2>1, <2>2, <2>3, <2>4, RouteSound
<1>6. CASE lease[r][s]
  <2>1. UNCHANGED lease /\ disp' = [disp EXCEPT ![b] = lost]
    BY <1>6, Begun DEF TryAcquire
  <2>2. lease' \in [Replicas -> [Sessions -> BOOLEAN]]
    BY <2>1 DEF RelayInv, RelayType, Reflecting
  <2>3. n \in Nat /\ n <= MaxAttempts /\ pc \in {"check", "append"} /\ (pc = "check" => n < MaxAttempts)
    BY <1>2
  <2> HIDE DEF n, pc
  <2>4. lost \in Route /\ lost.pc = pc /\ lost.at = r /\ lost.tries = n
    BY <1>2, <2>3 DEF Route, Waits
  <2> HIDE DEF lost
  <2>5. lost.pc # "idle" /\ lost.pc \in Waits /\ lost.pc # "forward" /\ (lost.pc \in {"check", "acquire"} => n < MaxAttempts)
    BY <2>3, <2>4 DEF Waits
  <2>6. QED
    BY <1>1, <1>3, <1>4, <2>1, <2>2, <2>3, <2>4, <2>5, RouteSound
<1>7. QED
  BY <1>5, <1>6

\* deliver_or_queue gives the bundle once more or not at all.
LEMMA Given ==
  ASSUME RelayInv, NEW r \in Replicas, NEW b \in BundleIds, DeliverOrQueue(r, b)
  PROVE  given' \in [BundleIds -> Nat] /\ \A a \in BundleIds : given'[a] >= given[a]
<1>1. given \in [BundleIds -> Nat]
  BY DEF RelayInv, RelayType, Running
<1>2. QED
  BY <1>1 DEF DeliverOrQueue

LEMMA DeliverSound ==
  ASSUME RelayInv, NEW b \in BundleIds, Deliver(b)
  PROVE  RelayInv'
<1> DEFINE d == [disp[b] EXCEPT !.pc = "done"]
<1> USE DEF reflector, durable, history, unheard
<1>1. /\ disp[b].pc = "deliver" /\ DeliverOrQueue(disp[b].at, b) /\ disp' = [disp EXCEPT ![b] = d]
      /\ UNCHANGED <<log, nextSeq, epoch, lease, rows, place, cursor, hand, handle, tasks, homes,
                     pruned, expired, doubled, dropped, crashed, scene>>
  BY Begun DEF Deliver, Go
<1>2. disp[b] \in Route /\ disp[b].at \in Replicas /\ disp[b].tries <= MaxAttempts
  BY <1>1, Begun DEF Dispatching
<1>3. d \in Route /\ d.pc = "done" /\ d.at = disp[b].at /\ d.tries = disp[b].tries
  BY <1>2 DEF Route
<1> HIDE DEF d
<1>4. lease' \in [Replicas -> [Sessions -> BOOLEAN]]
  BY <1>1 DEF RelayInv, RelayType, Reflecting
<1>5. QED
  BY <1>1, <1>2, <1>3, <1>4, Given, RouteSound DEF Waits

-----------------------------------------------------------------------------
(* Appending, and the owner's listener.                                     *)

\* An entry of the new log is an old one or the one appended.
LEMMA AppendedFiled ==
  ASSUME RelayInv, NEW r \in Replicas, NEW b \in BundleIds, Append1(r, b)
  PROVE  /\ Logged(b)' /\ (~Logged(b) => OneEntry(b)')
         /\ \A a \in BundleIds \ {b} : (a \notin doubled => OneEntry(a)') /\ (Logged(a)' <=> Logged(a))
<1> DEFINE l == Len(log[r]) + 1
<1>1. /\ \A q \in Replicas \ {r} : log'[q] = log[q]
      /\ DOMAIN log'[r] = DOMAIN log[r] \cup {l} /\ l \notin DOMAIN log[r]
      /\ \A i \in DOMAIN log[r] : log'[r][i] = log[r][i]
      /\ log'[r][l].b = b
  <2>1. log'[r][l] = [seq |-> nextSeq[r], b |-> b]
    BY Appended
  <2>2. QED
    BY <2>1, Appended
<1> HIDE DEF l
<1>2. \A q \in Replicas : \A i \in DOMAIN log'[q] :
         (i \in DOMAIN log[q] /\ log'[q][i] = log[q][i]) \/ (q = r /\ i = l)
  BY <1>1
<1>3. \A q \in Replicas : \A i \in DOMAIN log[q] : i \in DOMAIN log'[q] /\ log'[q][i] = log[q][i]
  BY <1>1
<1>4. Logged(b)'
  <2>1. l \in DOMAIN log'[r] /\ log'[r][l].b = b
    BY <1>1
  <2>2. QED
    BY <2>1 DEF Logged
<1>5. ASSUME ~Logged(b) PROVE OneEntry(b)'
  <2>1. \A q \in Replicas : \A i \in DOMAIN log'[q] : log'[q][i].b = b => q = r /\ i = l
    BY <1>2, <1>5 DEF Logged
  <2>2. QED
    BY <2>1 DEF OneEntry
<1>6. ASSUME NEW a \in BundleIds \ {b} PROVE (a \notin doubled => OneEntry(a)') /\ (Logged(a)' <=> Logged(a))
  <2>1. \A q \in Replicas : \A i \in DOMAIN log'[q] : log'[q][i].b = a => i \in DOMAIN log[q] /\ log[q][i].b = a
    BY <1>1, <1>2
  <2>2. a \notin doubled => OneEntry(a)
    BY DEF RelayInv, Filing, Alone, Single, Ones
  <2>3. OneEntry(a) => OneEntry(a)'
    BY <2>1 DEF OneEntry
  <2>4. Logged(a)' <=> Logged(a)
    BY <1>3, <2>1 DEF Logged
  <2>5. QED
    BY <2>2, <2>3, <2>4
<1>7. QED
  BY <1>4, <1>5, <1>6

\* Appending to a log leaves the other places of every bundle.
LEMMA RestFiled ==
  ASSUME RelayInv, NEW a \in BundleIds
  PROVE  /\ UNCHANGED rows => (a \notin doubled => OneRow(a)') /\ (Rowed(a)' <=> Rowed(a))
         /\ UNCHANGED hand => (a \notin doubled => OneHand(a)') /\ (Handed(a)' <=> Handed(a))
         /\ UNCHANGED log => (a \notin doubled => OneEntry(a)') /\ (Logged(a)' <=> Logged(a))
<1>1. a \notin doubled => OneRow(a) /\ OneHand(a) /\ OneEntry(a)
  BY DEF RelayInv, Filing, Alone, Single, Ones
<1>2. ASSUME UNCHANGED rows PROVE (OneRow(a) => OneRow(a)') /\ (Rowed(a)' <=> Rowed(a))
  BY <1>2 DEF OneRow, Rowed
<1>3. ASSUME UNCHANGED hand PROVE (OneHand(a) => OneHand(a)') /\ (Handed(a)' <=> Handed(a))
  BY <1>3 DEF OneHand, Handed
<1>4. ASSUME UNCHANGED log PROVE (OneEntry(a) => OneEntry(a)') /\ (Logged(a)' <=> Logged(a))
  BY <1>4 DEF OneEntry, Logged
<1>5. QED
  BY <1>1, <1>2, <1>3, <1>4

LEMMA DispatchAppendSound ==
  ASSUME RelayInv, NEW b \in BundleIds, DispatchAppend(b)
  PROVE  RelayInv'
<1> DEFINE r == disp[b].at
           d == [disp[b] EXCEPT !.pc = "deliver", !.guard = FALSE, !.tries = 0]
<1> USE DEF reflector, durable, history, unheard
<1>1. /\ disp[b].pc = "append" /\ Append1(r, b) /\ disp' = [disp EXCEPT ![b] = d]
      /\ lease' = IF disp[b].guard THEN [lease EXCEPT ![r][Bundles[b].to] = FALSE] ELSE lease
      /\ UNCHANGED <<rows, place, cursor, hand, handle, tasks, given, homes, pruned, expired, doubled, dropped, crashed, scene>>
  BY Begun DEF DispatchAppend
<1>2. disp[b] \in Route /\ r \in Replicas
  BY <1>1, Begun DEF Dispatching
<1>3. d \in Route /\ d.pc = "deliver" /\ d.at = r /\ d.tries = 0
  BY <1>2 DEF Route
<1> HIDE DEF d
<1>4. disp'[b] = d /\ disp' \in [BundleIds -> Route] /\ \A a \in BundleIds \ {b} : disp'[a] = disp[a]
  BY <1>1, <1>3, Begun
<1>5. lease' \in [Replicas -> [Sessions -> BOOLEAN]]
  BY <1>1 DEF RelayInv, RelayType, Reflecting
<1>6. RelayType'
  BY <1>1, <1>2, <1>4, <1>5, Appended DEF RelayInv, RelayType, Reflecting, Routing, Placing, Running
<1>7. Numbering' /\ Watermarks'
  BY <1>1, <1>2, AppendedNumbered, Spreading, WatermarksKept
<1>8. Dispatching(b)'
  BY <1>2, <1>3, <1>4, Begun DEF Dispatching
<1>9. Waiting(b) /\ ~Waiting(b)' /\ disp'[b].pc = "deliver"
  BY <1>1, <1>3, <1>4 DEF Waiting, Waits
<1>10. b \notin doubled /\ ~Logged(b) /\ ~Rowed(b) /\ ~Handed(b) /\ b \notin pruned
  BY <1>9, Begun DEF Alone, Single
<1>11. /\ Logged(b)' /\ OneEntry(b)'
       /\ \A a \in BundleIds \ {b} : (a \notin doubled => OneEntry(a)') /\ (Logged(a)' <=> Logged(a))
  BY <1>1, <1>2, <1>10, AppendedFiled
<1>12. \A a \in BundleIds : /\ a \notin doubled => OneRow(a)' /\ OneHand(a)'
                            /\ Rowed(a)' <=> Rowed(a)
                            /\ Handed(a)' <=> Handed(a)
  BY <1>1, RestFiled
<1>13. Alone(b)'
  <2>1. Single(b)'
    BY <1>1, <1>9, <1>10, <1>11, <1>12 DEF Single, Ones
  <2>2. QED
    BY <1>1, <1>9, <1>10, <1>11, <2>1 DEF Alone, Placed
<1>14. \A a \in BundleIds \ {b} : Unmoved(a)
  BY <1>1, <1>11, <1>12 DEF Unmoved, Ones
<1>15. Filing'
  BY <1>1, <1>4, <1>8, <1>13, <1>14, OthersFiled
<1>16. QED
  BY <1>6, <1>7, <1>15 DEF RelayInv

\* A row more, or none.
LEMMA RowFiled ==
  ASSUME RelayInv, NEW b \in BundleIds, NEW o, rows' = rows \cup {[b |-> b, owner |-> o]}
  PROVE  /\ Rowed(b)' /\ (~Rowed(b) => OneRow(b)')
         /\ \A a \in BundleIds \ {b} : (a \notin doubled => OneRow(a)') /\ (Rowed(a)' <=> Rowed(a))
<1> DEFINE y == [b |-> b, owner |-> o]
<1>1. y \in rows' /\ y.b = b /\ \A z \in rows' : z \in rows \/ z = y
  OBVIOUS
<1>2. rows \subseteq rows'
  OBVIOUS
<1> HIDE DEF y
<1>3. Rowed(b)' /\ (~Rowed(b) => OneRow(b)')
  BY <1>1 DEF Rowed, OneRow
<1>4. ASSUME NEW a \in BundleIds \ {b} PROVE (a \notin doubled => OneRow(a)') /\ (Rowed(a)' <=> Rowed(a))
  <2>1. a \notin doubled => OneRow(a)
    BY DEF RelayInv, Filing, Alone, Single, Ones
  <2>2. (OneRow(a) => OneRow(a)') /\ (Rowed(a)' <=> Rowed(a))
    BY <1>1, <1>2 DEF OneRow, Rowed
  <2>3. QED
    BY <2>1, <2>2
<1>5. QED
  BY <1>3, <1>4

LEMMA ForwardSound ==
  ASSUME RelayInv, NEW b \in BundleIds, Forward(b)
  PROVE  RelayInv'
<1> SUFFICES ASSUME NEW r, r = disp[b].at, NEW o, o = disp[b].dest,
                    NEW d, d = [Idle EXCEPT !.pc = "done", !.at = r]
             PROVE  RelayInv'
  OBVIOUS
<1>1. /\ disp[b].pc = "forward" /\ disp' = [disp EXCEPT ![b] = d] /\ (InsertRow(b) \/ InsertFails(b))
      /\ UNCHANGED <<lease, place, cursor, hand, handle, tasks, given, homes, pruned, expired, crashed, scene>>
  BY DEF Forward
<1>2. r \in Replicas /\ o \in Replicas
  BY <1>1, Begun DEF Dispatching
<1>3. d \in Route /\ d.pc = "done" /\ d.at = r /\ d.tries = 0
  BY <1>2 DEF Idle, Route
<1>4. disp'[b] = d /\ disp' \in [BundleIds -> Route] /\ \A a \in BundleIds \ {b} : disp'[a] = disp[a]
  BY <1>1, <1>3, Begun
<1>5. Dispatching(b)'
  BY <1>2, <1>3, <1>4, Begun DEF Dispatching
<1>6. Waiting(b) /\ ~Waiting(b)' /\ disp'[b].pc = "done"
  BY <1>1, <1>3, <1>4 DEF Waiting, Waits
<1>7. b \notin doubled /\ ~Logged(b) /\ ~Rowed(b) /\ ~Handed(b) /\ b \notin pruned
  BY <1>6, Begun DEF Alone, Single
<1>8. \/ InsertRow(b) /\ rows' = rows \cup {[b |-> b, owner |-> o]}
      \/ InsertFails(b) /\ (rows' = rows \/ rows' = rows \cup {[b |-> b, owner |-> o]})
  BY <1>1 DEF InsertRow, InsertFails, unheard
<1>9. rows' \subseteq [b: BundleIds, owner: Replicas]
  BY <1>2, <1>8 DEF RelayInv, RelayType, Routing
<1>10. doubled' \in {doubled, doubled \cup {b}} /\ dropped' = dropped
  BY <1>1 DEF InsertRow, InsertFails, unheard
<1>11. UNCHANGED <<log, nextSeq, epoch>> \/ Append1(r, b)
  BY <1>1 DEF InsertRow, InsertFails, reflector
<1>12. Reflecting'
  BY <1>1, <1>2, <1>11, Appended DEF RelayInv, RelayType, Reflecting
<1>13. Routing'
  BY <1>1, <1>4, <1>9, <1>10 DEF RelayInv, RelayType, Routing
<1>14. RelayType'
  BY <1>1, <1>12, <1>13 DEF RelayInv, RelayType, Placing, Running
<1>15. Numbering' /\ \A q \in Replicas : Grows(q)
  BY <1>2, <1>11, StillNumbered, AppendedNumbered
<1>16. Watermarks'
  BY <1>1, <1>15, Spreading, WatermarksKept
<1>17. ASSUME NEW a \in BundleIds \ {b} PROVE Unmoved(a)
  <2>1. (a \notin doubled => OneHand(a)') /\ (Handed(a)' <=> Handed(a))
    BY <1>1, RestFiled
  <2>2. (a \notin doubled => OneRow(a)') /\ (Rowed(a)' <=> Rowed(a))
    BY <1>8, RestFiled, RowFiled
  <2>3. (a \notin doubled => OneEntry(a)') /\ (Logged(a)' <=> Logged(a))
    BY <1>2, <1>11, RestFiled, AppendedFiled
  <2>4. QED
    BY <1>1, <1>10, <2>1, <2>2, <2>3 DEF Unmoved, Ones
<1>18. OneHand(b)' /\ ~Handed(b)' /\ b \notin pruned'
  BY <1>1, <1>7, RestFiled
<1>19. Alone(b)'
  <2>1. CASE InsertRow(b)
    <3>1. Rowed(b)' /\ OneRow(b)'
      BY <1>7, <1>8, <2>1, RowFiled DEF InsertRow
    <3>2. OneEntry(b)' /\ ~Logged(b)'
      BY <1>7, <2>1, RestFiled DEF InsertRow, reflector
    <3>3. Single(b)'
      BY <1>6, <1>18, <3>1, <3>2 DEF Single, Ones
    <3>4. QED
      BY <1>6, <3>1, <3>3 DEF Alone, Placed
  <2>2. CASE InsertFails(b) /\ UNCHANGED <<rows, doubled>>
    <3>1. Logged(b)' /\ OneEntry(b)'
      BY <1>2, <1>7, <2>2, AppendedFiled DEF InsertFails
    <3>2. OneRow(b)' /\ ~Rowed(b)'
      BY <1>7, <2>2, RestFiled
    <3>3. Single(b)'
      BY <1>6, <1>18, <3>1, <3>2 DEF Single, Ones
    <3>4. QED
      BY <1>6, <3>1, <3>3 DEF Alone, Placed
  <2>3. CASE InsertFails(b) /\ b \in doubled'
    <3>1. Logged(b)'
      BY <1>2, <2>3, AppendedFiled DEF InsertFails
    <3>2. QED
      BY <1>6, <2>3, <3>1 DEF Alone, Placed
  <2>4. QED
    BY <1>1, <2>1, <2>2, <2>3 DEF InsertFails, unheard
<1>20. Filing'
  BY <1>1, <1>4, <1>5, <1>17, <1>19, OthersFiled
<1>21. QED
  BY <1>14, <1>15, <1>16, <1>20 DEF RelayInv

LEMMA ListenerDeliversSound ==
  ASSUME RelayInv, NEW r \in Replicas, NEW b \in BundleIds, ListenerDelivers(r, b)
  PROVE  RelayInv'
<1> USE DEF durable, history, unheard
<1>1. /\ b \in hand[r] /\ hand' = [hand EXCEPT ![r] = @ \ {b}] /\ Append1(r, b) /\ DeliverOrQueue(r, b)
      /\ UNCHANGED <<lease, disp, rows, place, cursor, handle, tasks, homes, pruned, expired, doubled, dropped, crashed, scene>>
  BY DEF ListenerDelivers
<1>2. hand' \in [Replicas -> SUBSET BundleIds] /\ hand'[r] = hand[r] \ {b} /\ \A q \in Replicas \ {r} : hand'[q] = hand[q]
  BY <1>1 DEF RelayInv, RelayType, Routing
<1>3. RelayType'
  BY <1>1, <1>2, Appended, Given DEF RelayInv, RelayType, Reflecting, Routing, Placing, Running
<1>4. Spreads
  BY <1>1, Given DEF Spreads
<1>5. Numbering' /\ Watermarks'
  BY <1>1, <1>4, AppendedNumbered, WatermarksKept
<1>6. Handed(b) /\ Alone(b) /\ Dispatching(b)
  BY <1>1, Begun DEF Handed
<1>7. /\ b \notin doubled => ~Logged(b) /\ ~Rowed(b) /\ b \notin pruned /\ OneHand(b)
      /\ ~Waiting(b) /\ disp[b].pc # "idle"
  BY <1>6 DEF Alone, Single, Ones
<1>8. /\ Logged(b)' /\ (~Logged(b) => OneEntry(b)')
      /\ \A a \in BundleIds \ {b} : (a \notin doubled => OneEntry(a)') /\ (Logged(a)' <=> Logged(a))
  BY <1>1, AppendedFiled
<1>9. b \notin doubled => ~Handed(b)' /\ OneHand(b)'
  BY <1>1, <1>2, <1>7 DEF OneHand, Handed
<1>10. \A a \in BundleIds : (a \notin doubled => OneRow(a)') /\ (Rowed(a)' <=> Rowed(a))
  BY <1>1, RestFiled
<1>11. ASSUME NEW a \in BundleIds \ {b} PROVE (a \notin doubled => OneHand(a)') /\ (Handed(a)' <=> Handed(a))
  <2>1. \A q \in Replicas : a \in hand'[q] <=> a \in hand[q]
    BY <1>2
  <2>2. a \notin doubled => OneHand(a)
    BY DEF RelayInv, Filing, Alone, Single, Ones
  <2>3. QED
    BY <2>1, <2>2 DEF OneHand, Handed
<1>12. ~Waiting(b)' /\ Dispatching(b)' /\ disp'[b].pc # "idle"
  BY <1>1, <1>6, <1>7 DEF Waiting, Dispatching
<1>13. Alone(b)'
  <2>1. b \notin doubled => Single(b)'
    BY <1>1, <1>7, <1>8, <1>9, <1>10, <1>12 DEF Single, Ones
  <2>2. QED
    BY <1>1, <1>8, <1>12, <2>1 DEF Alone, Placed
<1>14. \A a \in BundleIds \ {b} : Unmoved(a)
  BY <1>1, <1>8, <1>10, <1>11 DEF Unmoved, Ones
<1>15. Filing'
  BY <1>1, <1>12, <1>13, <1>14, OthersFiled
<1>16. QED
  BY <1>3, <1>5, <1>15 DEF RelayInv

LEMMA ListenerClaimsSound ==
  ASSUME RelayInv, NEW r \in Replicas, ListenerClaims(r)
  PROVE  RelayInv'
<1> DEFINE claimed == {x.b : x \in {y \in rows : y.owner = r}}
<1> USE DEF reflector, history, unheard
<1>1. /\ hand[r] = {} /\ hand' = [hand EXCEPT ![r] = @ \cup claimed] /\ rows' = {y \in rows : y.owner # r}
      /\ UNCHANGED <<log, nextSeq, epoch, lease, disp, place, cursor, handle, tasks, given, homes,
                     pruned, expired, doubled, dropped, crashed, scene>>
  BY DEF ListenerClaims, ClaimPending
<1>2. rows \subseteq [b: BundleIds, owner: Replicas] /\ hand \in [Replicas -> SUBSET BundleIds]
  BY DEF RelayInv, RelayType, Routing
<1>3. claimed \subseteq BundleIds
  BY <1>2
<1>4. \A a : a \in claimed <=> \E y \in rows : y.owner = r /\ y.b = a
  OBVIOUS
<1> HIDE DEF claimed
<1>5. /\ hand' \in [Replicas -> SUBSET BundleIds] /\ hand'[r] = claimed
      /\ \A q \in Replicas \ {r} : hand'[q] = hand[q]
  BY <1>1, <1>2, <1>3
<1>6. RelayType'
  BY <1>1, <1>2, <1>5 DEF RelayInv, RelayType, Reflecting, Routing, Placing, Running
<1>7. Numbering' /\ Watermarks'
  BY <1>1, StillNumbered, Spreading, WatermarksKept
<1>8. ASSUME NEW a \in BundleIds PROVE Dispatching(a)' /\ Alone(a)'
  <2>1. Dispatching(a) /\ Alone(a)
    BY DEF RelayInv, Filing
  <2>2. Dispatching(a)' /\ (Logged(a)' <=> Logged(a)) /\ (Waiting(a)' <=> Waiting(a))
    BY <1>1, <2>1 DEF Dispatching, Logged, Waiting
  <2>3. a \notin doubled => OneEntry(a)' /\ OneRow(a)'
    BY <1>1, <2>1 DEF Alone, Single, Ones, OneRow, OneEntry
  <2>4. CASE a \in claimed /\ a \notin doubled
    <3>1. PICK y \in rows : y.owner = r /\ y.b = a
      BY <1>4, <2>4
    <3>2. Rowed(a) /\ \A z \in rows : z.b = a => z = y
      BY <2>1, <2>4, <3>1 DEF Alone, Single, Ones, Rowed, OneRow
    <3>3. ~Rowed(a)'
      BY <1>1, <3>1, <3>2 DEF Rowed
    <3>4. ~Handed(a) /\ ~Logged(a) /\ ~Waiting(a) /\ a \notin pruned /\ disp[a].pc # "idle"
      BY <2>1, <2>4, <3>2 DEF Alone, Single
    <3>5. Handed(a)' /\ OneHand(a)'
      <4>1. \A q \in Replicas : a \in hand'[q] <=> q = r
        BY <1>5, <2>4, <3>4 DEF Handed
      <4>2. QED
        BY <4>1 DEF Handed, OneHand
    <3>6. Single(a)'
      BY <1>1, <2>2, <2>3, <2>4, <3>3, <3>4, <3>5 DEF Single, Ones
    <3>7. QED
      BY <1>1, <2>2, <2>4, <3>4, <3>5, <3>6 DEF Alone, Placed
  <2>5. CASE a \notin claimed
    <3>1. Rowed(a)' <=> Rowed(a)
      BY <1>1, <1>4, <2>5 DEF Rowed
    <3>2. \A q \in Replicas : a \in hand'[q] <=> a \in hand[q]
      BY <1>1, <1>5, <2>5
    <3>3. (a \notin doubled => OneHand(a)') /\ (Handed(a)' <=> Handed(a))
      BY <2>1, <3>2 DEF Alone, Single, Ones, OneHand, Handed
    <3>4. Unmoved(a)
      BY <1>1, <2>2, <2>3, <3>1, <3>3 DEF Unmoved, Ones
    <3>5. QED
      BY <1>1, <2>1, <2>2, <3>4, AloneKept
  <2>6. CASE a \in claimed /\ a \in doubled
    <3>1. Handed(a)'
      BY <1>5, <2>6 DEF Handed
    <3>2. QED
      BY <1>1, <2>1, <2>2, <2>6, <3>1 DEF Alone, Placed
  <2>7. QED
    BY <2>2, <2>4, <2>5, <2>6
<1>9. QED
  BY <1>6, <1>7, <1>8 DEF RelayInv, Filing

\* Rows that are consumed unheard of are nowhere, and nothing is twice for it.
LEMMA ClaimUnheardSound ==
  ASSUME RelayInv, NEW r \in Replicas, ClaimUnheard(r)
  PROVE  RelayInv'
<1> DEFINE claimed == {x.b : x \in {y \in rows : y.owner = r}}
<1> USE DEF reflector
<1>1. /\ rows' = {y \in rows : y.owner # r} /\ dropped' = dropped \cup claimed
      /\ UNCHANGED <<log, nextSeq, epoch, lease, disp, hand, place, cursor, handle, tasks, given, homes,
                     pruned, expired, doubled, crashed, scene>>
  BY DEF ClaimUnheard
<1>2. rows \subseteq [b: BundleIds, owner: Replicas]
  BY DEF RelayInv, RelayType, Routing
<1>3. claimed \subseteq BundleIds
  BY <1>2
<1>4. \A a : a \in claimed <=> \E y \in rows : y.owner = r /\ y.b = a
  OBVIOUS
<1> HIDE DEF claimed
<1>5. RelayType'
  BY <1>1, <1>2, <1>3 DEF RelayInv, RelayType, Reflecting, Routing, Placing, Running
<1>6. Numbering' /\ Watermarks'
  BY <1>1, StillNumbered, Spreading, WatermarksKept
<1>7. ASSUME NEW a \in BundleIds PROVE Dispatching(a)' /\ Alone(a)'
  <2>1. Dispatching(a) /\ Alone(a)
    BY DEF RelayInv, Filing
  <2>2. Dispatching(a)' /\ (Waiting(a)' <=> Waiting(a))
    BY <1>1, <2>1 DEF Dispatching, Waiting
  <2>3. /\ Logged(a)' <=> Logged(a)
        /\ Handed(a)' <=> Handed(a)
        /\ a \notin doubled => OneEntry(a)' /\ OneHand(a)'
    BY <1>1, RestFiled
  <2>4. Rowed(a)' => Rowed(a)
    BY <1>1 DEF Rowed
  <2>5. a \notin dropped' => (Rowed(a) => Rowed(a)')
    BY <1>1, <1>4 DEF Rowed
  <2>6. a \notin doubled => Single(a)'
    <3>1. a \notin doubled => OneRow(a)'
      BY <1>1, <2>1 DEF Alone, Single, Ones, OneRow
    <3>2. QED
      BY <1>1, <2>1, <2>2, <2>3, <2>4, <3>1 DEF Alone, Single, Ones
  <2>7. disp[a].pc # "idle" /\ crashed = {} /\ a \notin dropped' => Placed(a)'
    BY <1>1, <2>1, <2>2, <2>3, <2>5 DEF Alone, Placed
  <2>8. QED
    BY <1>1, <2>1, <2>2, <2>6, <2>7 DEF Alone
<1>8. QED
  BY <1>5, <1>6, <1>7 DEF RelayInv, Filing

-----------------------------------------------------------------------------
(* Leases, placements and tasks.                                            *)

LEMMA PlacesKept ==
  ASSUME RelayInv, UNCHANGED <<log, nextSeq, epoch, disp, rows, hand, pruned, doubled, dropped, crashed, cursor, tasks, given, homes, scene>>,
         lease' \in [Replicas -> [Sessions -> BOOLEAN]], handle' \in [Replicas -> SUBSET Sessions],
         place' \in [Sessions -> [owner: Replicas \cup {None}, fresh: BOOLEAN]], expired \subseteq expired'
  PROVE  RelayInv'
<1>1. RelayType'
  BY DEF RelayInv, RelayType, Reflecting, Routing, Placing, Running
<1>2. Numbering' /\ Watermarks'
  BY StillNumbered, Spreading, WatermarksKept
<1>3. \A b \in BundleIds : Dispatching(b)' /\ (Waiting(b)' <=> Waiting(b))
  BY DEF RelayInv, Filing, Dispatching, Waiting
<1>4. Filing'
  BY <1>3, FilingKept
<1>5. QED
  BY <1>1, <1>2, <1>4 DEF RelayInv

LEMMA PlacesSound ==
  ASSUME RelayInv,
         \/ \E r \in Replicas, s \in Sessions : DropHandle(r, s) \/ Heartbeat(r, s) \/ LeaseExpires(r, s)
         \/ \E s \in Sessions : Lapse(s)
         \/ \E b \in BundleIds : Expire(b)
  PROVE  RelayInv'
<1> USE DEF reflector, durable, history, unheard
<1>1. UNCHANGED <<log, nextSeq, epoch, disp, rows, hand, pruned, doubled, dropped, crashed, cursor, tasks, given, homes, scene>>
  BY DEF DropHandle, Heartbeat, LeaseExpires, Lapse, Expire
<1>2. /\ lease \in [Replicas -> [Sessions -> BOOLEAN]] /\ handle \in [Replicas -> SUBSET Sessions]
      /\ place \in [Sessions -> [owner: Replicas \cup {None}, fresh: BOOLEAN]]
  BY DEF RelayInv, RelayType, Reflecting, Placing
<1>3. lease' \in [Replicas -> [Sessions -> BOOLEAN]]
  <2>1. lease' = lease \/ \E r \in Replicas, s \in Sessions : lease' = [lease EXCEPT ![r][s] = FALSE]
    BY DEF DropHandle, Heartbeat, LeaseExpires, Lapse, Expire
  <2>2. ASSUME NEW r \in Replicas, NEW s \in Sessions, lease' = [lease EXCEPT ![r][s] = FALSE]
        PROVE  lease' \in [Replicas -> [Sessions -> BOOLEAN]]
    BY <1>2, <2>2
  <2>3. QED
    BY <1>2, <2>1, <2>2
<1>4. handle' \in [Replicas -> SUBSET Sessions]
  <2>1. handle' = handle \/ \E r \in Replicas, s \in Sessions : handle' = [handle EXCEPT ![r] = @ \ {s}]
    BY DEF DropHandle, Heartbeat, LeaseExpires, Lapse, Expire
  <2>2. ASSUME NEW r \in Replicas, NEW s \in Sessions, handle' = [handle EXCEPT ![r] = @ \ {s}]
        PROVE  handle' \in [Replicas -> SUBSET Sessions]
    BY <1>2, <2>2
  <2>3. QED
    BY <1>2, <2>1, <2>2
<1>5. place' \in [Sessions -> [owner: Replicas \cup {None}, fresh: BOOLEAN]]
  <2>1. \/ place' = place
        \/ \E r \in Replicas, s \in Sessions : place' = [place EXCEPT ![s] = [owner |-> r, fresh |-> TRUE]]
        \/ \E s \in Sessions : place' = [place EXCEPT ![s].fresh = FALSE]
    BY DEF DropHandle, Heartbeat, LeaseExpires, Lapse, Expire, Claim
  <2>2. ASSUME NEW r \in Replicas, NEW s \in Sessions, place' = [place EXCEPT ![s] = [owner |-> r, fresh |-> TRUE]]
        PROVE  place' \in [Sessions -> [owner: Replicas \cup {None}, fresh: BOOLEAN]]
    BY <1>2, <2>2
  <2>3. ASSUME NEW s \in Sessions, place' = [place EXCEPT ![s].fresh = FALSE]
        PROVE  place' \in [Sessions -> [owner: Replicas \cup {None}, fresh: BOOLEAN]]
    <3>1. [place[s] EXCEPT !.fresh = FALSE] \in [owner: Replicas \cup {None}, fresh: BOOLEAN]
      BY <1>2
    <3>2. QED
      BY <1>2, <2>3, <3>1
  <2>4. QED
    BY <1>2, <2>1, <2>2, <2>3
<1>6. expired \subseteq expired'
  BY DEF DropHandle, Heartbeat, LeaseExpires, Lapse, Expire
<1>7. QED
  BY <1>1, <1>3, <1>4, <1>5, <1>6, PlacesKept

LEMMA SoundZero ==
  ASSUME RelayInv, NEW r \in Replicas, NEW s
  PROVE  Sound(s, r, 0)
<1>1. log[r] \in Seq(Entry) /\ nextSeq[r] \in Nat \ {0}
  BY DEF RelayInv, RelayType, Reflecting
<1>2. \A i \in DOMAIN log[r] : log[r][i] \in Entry
  BY <1>1
<1>3. QED
  BY <1>1, <1>2 DEF Sound, Entry

\* A step of a task, which may save its watermark.
TaskGoes(i, t, c) ==
  /\ t \in Task /\ t.r = tasks[i].r /\ t.s = tasks[i].s /\ tasks' = [tasks EXCEPT ![i] = t]
  /\ c \in Mark /\ cursor' = [cursor EXCEPT ![t.s] = c]
  /\ UNCHANGED <<log, nextSeq, epoch, lease, disp, rows, hand, handle, homes, pruned, expired, doubled, dropped, crashed, scene>>
  /\ given' \in [BundleIds -> Nat] /\ \A b \in BundleIds : given'[b] >= given[b]
  /\ place' \in [Sessions -> [owner: Replicas \cup {None}, fresh: BOOLEAN]]

Upheld(t, c) ==
  \A r \in Replicas : Stays(t.s, r) =>
     Sound(t.s, r, t.from.seq)' /\ Sound(t.s, r, t.high.seq)' /\ Sound(t.s, r, c.seq)'

LEMMA TaskMoves ==
  ASSUME RelayInv, NEW i \in DOMAIN tasks, NEW t, NEW c, TaskGoes(i, t, c), Upheld(t, c)
  PROVE  RelayInv'
<1> USE DEF TaskGoes, Upheld
<1>1. tasks \in Seq(Task) /\ cursor \in [Sessions -> Mark] /\ t.s \in Sessions
  BY TaskShape DEF RelayInv, RelayType, Placing, Running
<1>2. /\ tasks' \in Seq(Task) /\ DOMAIN tasks' = DOMAIN tasks /\ tasks'[i] = t
      /\ \A j \in DOMAIN tasks \ {i} : tasks'[j] = tasks[j]
  BY <1>1
<1>3. cursor' \in [Sessions -> Mark] /\ cursor'[t.s] = c /\ \A s \in Sessions \ {t.s} : cursor'[s] = cursor[s]
  BY <1>1
<1>4. RelayType'
  BY <1>2, <1>3 DEF RelayInv, RelayType, Reflecting, Routing, Placing, Running
<1>5. Numbering' /\ Spreads /\ \A r \in Replicas : Grows(r)
  BY StillNumbered DEF Spreads
<1>6. \A b \in BundleIds : Dispatching(b)' /\ (Waiting(b)' <=> Waiting(b))
  BY DEF RelayInv, Filing, Dispatching, Waiting
<1>7. Filing'
  BY <1>6, FilingKept
<1>8. \A s, r : Stays(s, r)' <=> Stays(s, r)
  BY DEF Stays
<1>9. SoundMarks'
  <2> SUFFICES ASSUME NEW s \in Sessions, NEW r \in Replicas, Stays(s, r), NEW n, n = cursor'[s].seq
               PROVE  Sound(s, r, n)'
    BY <1>8 DEF SoundMarks, Sound
  <2>1. CASE s = t.s
    BY <1>3, <2>1
  <2>2. CASE s # t.s
    <3>1. n = cursor[s].seq /\ n \in Nat /\ Sound(s, r, n)
      BY <1>3, <2>2, MarksTyped DEF RelayInv, Watermarks, SoundMarks
    <3>2. QED
      BY <1>5, <3>1, SoundKept
  <2>3. QED
    BY <2>1, <2>2
<1>10. SoundTasks'
  <2> SUFFICES ASSUME NEW j \in DOMAIN tasks', NEW r \in Replicas, Stays(tasks[j].s, r)'
               PROVE  Sound(tasks[j].s, r, tasks[j].from.seq)' /\ Sound(tasks[j].s, r, tasks[j].high.seq)'
    BY DEF SoundTasks
  <2> SUFFICES ASSUME NEW u, u = tasks'[j], Stays(u.s, r)
               PROVE  Sound(u.s, r, u.from.seq)' /\ Sound(u.s, r, u.high.seq)'
    BY DEF Sound, Stays
  <2>1. CASE j = i
    BY <1>2, <2>1
  <2>2. CASE j # i
    <3>1. /\ u = tasks[j] /\ u \in Task /\ u.from.seq \in Nat /\ u.high.seq \in Nat
          /\ Sound(u.s, r, u.from.seq) /\ Sound(u.s, r, u.high.seq)
      BY <1>2, <2>2, MarksTyped, TaskShape DEF RelayInv, Watermarks, SoundTasks
    <3>2. QED
      BY <1>5, <3>1, SoundKept
  <2>3. QED
    BY <2>1, <2>2
<1>11. AtHome'
  BY <1>2 DEF RelayInv, Watermarks, AtHome
<1>12. QED
  BY <1>4, <1>5, <1>7, <1>9, <1>10, <1>11 DEF RelayInv, Watermarks

\* What a task and its session's watermark stand for before the step.
LEMMA TaskSound ==
  ASSUME RelayInv, NEW i \in DOMAIN tasks, NEW r \in Replicas, Stays(tasks[i].s, r)
  PROVE  /\ Sound(tasks[i].s, r, cursor[tasks[i].s].seq)
         /\ Sound(tasks[i].s, r, tasks[i].from.seq) /\ Sound(tasks[i].s, r, tasks[i].high.seq)
         /\ r = tasks[i].r
<1>1. tasks[i] \in Task
  BY MarksTyped
<1>2. tasks[i].s \in Sessions /\ tasks[i].r \in homes[tasks[i].s]
  BY <1>1, TaskShape DEF RelayInv, Watermarks, AtHome
<1>3. QED
  BY <1>2 DEF RelayInv, Watermarks, SoundMarks, SoundTasks, Stays

\* Without a word given, what was sound is sound.
LEMMA SoundSame ==
  ASSUME UNCHANGED <<log, nextSeq, given, expired>>, NEW s, NEW r, NEW n, Sound(s, r, n)
  PROVE  Sound(s, r, n)'
BY DEF Sound

LEMMA ReadCursorSound ==
  ASSUME RelayInv, NEW i \in DOMAIN tasks, ReadCursor(i)
  PROVE  RelayInv'
<1> SUFFICES ASSUME NEW s, s = tasks[i].s, NEW c, c = cursor[s],
                    NEW t, t = [tasks[i] EXCEPT !.pc = "drain", !.from = c]
             PROVE  RelayInv'
  OBVIOUS
<1> USE DEF reflector, durable, history, unheard
<1>1. /\ tasks' = [tasks EXCEPT ![i] = t]
      /\ UNCHANGED <<log, nextSeq, epoch, lease, disp, rows, place, cursor, hand, handle, given, homes,
                     pruned, expired, doubled, dropped, crashed, scene>>
  BY DEF ReadCursor
<1>2. tasks[i] \in Task /\ s \in Sessions /\ c \in Mark /\ cursor \in [Sessions -> Mark]
  BY MarksTyped, TaskShape DEF RelayInv, RelayType, Placing
<1>3. t \in Task /\ t.r = tasks[i].r /\ t.s = s /\ t.from = c /\ t.high = tasks[i].high
  BY <1>2 DEF Task
<1>4. cursor' = [cursor EXCEPT ![t.s] = c]
  BY <1>1, <1>2, <1>3
<1>5. ASSUME NEW r \in Replicas, Stays(s, r)
      PROVE  Sound(s, r, t.from.seq)' /\ Sound(s, r, t.high.seq)' /\ Sound(s, r, c.seq)'
  <2>1. Sound(s, r, t.from.seq) /\ Sound(s, r, t.high.seq) /\ Sound(s, r, c.seq)
    BY <1>3, <1>5, TaskSound
  <2>2. QED
    BY <1>1, <2>1, SoundSame
<1>6. given' \in [BundleIds -> Nat] /\ \A b \in BundleIds : given'[b] >= given[b]
  BY <1>1 DEF RelayInv, RelayType, Running
<1>7. place' \in [Sessions -> [owner: Replicas \cup {None}, fresh: BOOLEAN]]
  BY <1>1 DEF RelayInv, RelayType, Placing
<1>8. TaskGoes(i, t, c)
  BY <1>1, <1>2, <1>3, <1>4, <1>6, <1>7 DEF TaskGoes
<1>9. Upheld(t, c)
  BY <1>3, <1>5 DEF Upheld
<1>10. QED
  BY <1>8, <1>9, TaskMoves

LEMMA SaveCursorSound ==
  ASSUME RelayInv, NEW i \in DOMAIN tasks, SaveCursor(i)
  PROVE  RelayInv'
<1> SUFFICES ASSUME NEW s, s = tasks[i].s, NEW old, old = cursor[s], NEW high, high = tasks[i].high,
                    NEW t, t = [tasks[i] EXCEPT !.pc = "claim", !.high = Zero],
                    NEW c, c = [seq |-> IF old.seq > high.seq THEN old.seq ELSE high.seq, epoch |-> high.epoch]
             PROVE  RelayInv'
  OBVIOUS
<1> USE DEF reflector, history, unheard
<1>1. /\ tasks' = [tasks EXCEPT ![i] = t] /\ cursor' = [cursor EXCEPT ![s] = c]
      /\ UNCHANGED <<log, nextSeq, epoch, lease, disp, rows, place, hand, handle, given, homes,
                     pruned, expired, doubled, dropped, crashed, scene>>
  BY DEF SaveCursor, Upsert
<1>2. tasks[i] \in Task /\ s \in Sessions /\ old \in Mark /\ high \in Mark
  BY MarksTyped, TaskShape
<1>3. t \in Task /\ t.r = tasks[i].r /\ t.s = s /\ t.from = tasks[i].from /\ t.high = Zero
  BY <1>2, ZeroMark DEF Task
<1>4. c \in Mark /\ c.seq \in {old.seq, high.seq}
  BY <1>2 DEF Mark
<1>5. ASSUME NEW r \in Replicas, Stays(s, r)
      PROVE  Sound(s, r, t.from.seq)' /\ Sound(s, r, t.high.seq)' /\ Sound(s, r, c.seq)'
  <2>1. Sound(s, r, t.from.seq) /\ Sound(s, r, high.seq) /\ Sound(s, r, old.seq) /\ Sound(s, r, 0)
    BY <1>3, <1>5, TaskSound, SoundZero
  <2>2. Sound(s, r, t.high.seq) /\ Sound(s, r, c.seq)
    BY <1>3, <1>4, <2>1, ZeroMark
  <2>3. QED
    BY <1>1, <2>1, <2>2, SoundSame
<1>6. given' \in [BundleIds -> Nat] /\ \A b \in BundleIds : given'[b] >= given[b]
  BY <1>1 DEF RelayInv, RelayType, Running
<1>7. place' \in [Sessions -> [owner: Replicas \cup {None}, fresh: BOOLEAN]]
  BY <1>1 DEF RelayInv, RelayType, Placing
<1>8. cursor' = [cursor EXCEPT ![t.s] = c]
  BY <1>1, <1>3
<1>9. TaskGoes(i, t, c)
  BY <1>1, <1>3, <1>4, <1>6, <1>7, <1>8 DEF TaskGoes
<1>10. Upheld(t, c)
  BY <1>3, <1>5 DEF Upheld
<1>11. QED
  BY <1>9, <1>10, TaskMoves

LEMMA ClaimPlacementSound ==
  ASSUME RelayInv, NEW i \in DOMAIN tasks, ClaimPlacement(i)
  PROVE  RelayInv'
<1> SUFFICES ASSUME NEW s, s = tasks[i].s, NEW c, c = cursor[s], NEW t, t = [tasks[i] EXCEPT !.pc = "up"]
             PROVE  RelayInv'
  OBVIOUS
<1> USE DEF reflector, history, unheard
<1>1. /\ tasks' = [tasks EXCEPT ![i] = t] /\ Claim(s, tasks[i].r)
      /\ UNCHANGED <<log, nextSeq, epoch, lease, disp, rows, cursor, hand, handle, given, homes,
                     pruned, expired, doubled, dropped, crashed, scene>>
  BY DEF ClaimPlacement
<1>2. tasks[i] \in Task /\ tasks[i].r \in Replicas /\ s \in Sessions /\ c \in Mark /\ cursor \in [Sessions -> Mark]
  BY MarksTyped, TaskShape DEF RelayInv, RelayType, Placing
<1>3. t \in Task /\ t.r = tasks[i].r /\ t.s = s /\ t.from = tasks[i].from /\ t.high = tasks[i].high
  BY <1>2 DEF Task
<1>4. cursor' = [cursor EXCEPT ![t.s] = c]
  BY <1>1, <1>2, <1>3
<1>5. ASSUME NEW r \in Replicas, Stays(s, r)
      PROVE  Sound(s, r, t.from.seq)' /\ Sound(s, r, t.high.seq)' /\ Sound(s, r, c.seq)'
  <2>1. Sound(s, r, t.from.seq) /\ Sound(s, r, t.high.seq) /\ Sound(s, r, c.seq)
    BY <1>3, <1>5, TaskSound
  <2>2. QED
    BY <1>1, <2>1, SoundSame
<1>6. given' \in [BundleIds -> Nat] /\ \A b \in BundleIds : given'[b] >= given[b]
  BY <1>1 DEF RelayInv, RelayType, Running
<1>7. place' \in [Sessions -> [owner: Replicas \cup {None}, fresh: BOOLEAN]]
  <2>1. place \in [Sessions -> [owner: Replicas \cup {None}, fresh: BOOLEAN]]
    BY DEF RelayInv, RelayType, Placing
  <2>2. place' = place \/ place' = [place EXCEPT ![s] = [owner |-> tasks[i].r, fresh |-> TRUE]]
    BY <1>1 DEF Claim
  <2>3. CASE place' = place
    BY <2>1, <2>3
  <2>4. CASE place' = [place EXCEPT ![s] = [owner |-> tasks[i].r, fresh |-> TRUE]]
    BY <1>2, <2>1, <2>4
  <2>5. QED
    BY <2>2, <2>3, <2>4
<1>8. TaskGoes(i, t, c)
  BY <1>1, <1>2, <1>3, <1>4, <1>6, <1>7 DEF TaskGoes
<1>9. Upheld(t, c)
  BY <1>3, <1>5 DEF Upheld
<1>10. QED
  BY <1>8, <1>9, TaskMoves

\* A drain counts each bundle it hands over.
HandedOver(r, s, backlog) ==
  [b \in BundleIds |-> given[b] + Cardinality({n \in backlog : log[r][n].b = b /\ Bundles[b].to = s})]

LEMMA Drained ==
  ASSUME RelayInv, NEW r \in Replicas, NEW s, NEW backlog \in SUBSET (DOMAIN log[r]),
         given' = HandedOver(r, s, backlog)
  PROVE  /\ given' \in [BundleIds -> Nat] /\ \A b \in BundleIds : given'[b] >= given[b]
         /\ \A n \in backlog : Bundles[log[r][n].b].to = s => given'[log[r][n].b] >= 1
<1>1. log[r] \in Seq(Entry) /\ given \in [BundleIds -> Nat]
  BY DEF RelayInv, RelayType, Reflecting, Running
<1>2. IsFiniteSet(backlog)
  <2>1. DOMAIN log[r] = 1..Len(log[r]) /\ Len(log[r]) \in Nat
    BY <1>1
  <2>2. IsFiniteSet(1..Len(log[r]))
    BY <2>1, FS_Interval
  <2>3. QED
    BY <2>1, <2>2, FS_Subset
<1> DEFINE of(b) == {n \in backlog : log[r][n].b = b /\ Bundles[b].to = s}
<1>3. \A b : of(b) \subseteq backlog
  OBVIOUS
<1>4. ASSUME NEW b \in BundleIds
      PROVE  /\ given'[b] = given[b] + Cardinality(of(b)) /\ Cardinality(of(b)) \in Nat
             /\ of(b) # {} => Cardinality(of(b)) >= 1
  <2>1. IsFiniteSet(of(b))
    BY <1>2, <1>3, FS_Subset
  <2>2. given'[b] = given[b] + Cardinality(of(b))
    BY DEF HandedOver
  <2> HIDE DEF of
  <2>3. Cardinality(of(b)) \in Nat /\ (Cardinality(of(b)) = 0 <=> of(b) = {})
    BY <2>1, FS_CardinalityType, FS_EmptySet
  <2>4. QED
    BY <2>2, <2>3
<1>5. \A n \in backlog : log[r][n].b \in BundleIds /\ (Bundles[log[r][n].b].to = s => n \in of(log[r][n].b))
  <2>1. \A n \in backlog : log[r][n] \in Entry
    BY <1>1
  <2>2. QED
    BY <2>1 DEF Entry
<1> HIDE DEF of
<1>6. \A b \in BundleIds : given'[b] \in Nat /\ given'[b] >= given[b] /\ (of(b) # {} => given'[b] >= 1)
  <2>1. \A b \in BundleIds : given[b] \in Nat
    BY <1>1
  <2>2. QED
    BY <1>4, <2>1
<1>7. given' \in [BundleIds -> Nat]
  <2>1. DOMAIN given' = BundleIds /\ given' = [b \in BundleIds |-> given'[b]]
    BY DEF HandedOver
  <2>2. QED
    BY <1>6, <2>1
<1>8. \A n \in backlog : Bundles[log[r][n].b].to = s => given'[log[r][n].b] >= 1
  BY <1>5, <1>6
<1>9. QED
  BY <1>6, <1>7, <1>8

LEMMA DrainBacklogSound ==
  ASSUME RelayInv, NEW i \in DOMAIN tasks, DrainBacklog(i)
  PROVE  RelayInv'
<1> SUFFICES ASSUME NEW s, s = tasks[i].s, NEW c, c = cursor[s], NEW q, q = tasks[i].r, NEW from, from = tasks[i].from,
                    NEW backlog, backlog = ReplayFrom(q, from)
             PROVE  RelayInv'
  OBVIOUS
<1> DEFINE floor == IF from.epoch = epoch[q] THEN from.seq ELSE 0
<1> USE DEF reflector, durable, history, unheard
<1>1. /\ given' = HandedOver(q, s, backlog)
      /\ UNCHANGED <<log, nextSeq, epoch, lease, disp, rows, place, cursor, hand, handle, homes,
                     pruned, expired, doubled, dropped, crashed, scene>>
  BY DEF DrainBacklog, HandedOver
<1>2. /\ tasks[i] \in Task /\ q \in Replicas /\ s \in Sessions /\ c \in Mark /\ cursor \in [Sessions -> Mark]
      /\ from \in Mark /\ from.seq \in Nat
  BY MarksTyped, TaskShape DEF RelayInv, RelayType, Placing
<1>3. backlog = {n \in DOMAIN log[q] : log[q][n].seq > floor /\ log[q][n].b \notin expired}
  BY DEF ReplayFrom
<1>4. backlog \in SUBSET (DOMAIN log[q])
  BY <1>3
<1>5. /\ given' \in [BundleIds -> Nat] /\ \A b \in BundleIds : given'[b] >= given[b]
      /\ \A n \in backlog : Bundles[log[q][n].b].to = s => given'[log[q][n].b] >= 1
  BY <1>1, <1>2, <1>4, Drained
<1>6. cursor' = [cursor EXCEPT ![s] = c]
  BY <1>1, <1>2
<1>7. place' \in [Sessions -> [owner: Replicas \cup {None}, fresh: BOOLEAN]]
  BY <1>1 DEF RelayInv, RelayType, Placing
<1>8. Spreads /\ \A r \in Replicas : Grows(r)
  BY <1>1, <1>5, StillNumbered DEF Spreads
<1>9. ASSUME NEW r \in Replicas, Stays(s, r), NEW n \in Nat, Sound(s, r, n) PROVE Sound(s, r, n)'
  BY <1>8, <1>9, SoundKept
<1>10. c.seq \in Nat /\ tasks[i].high.seq \in Nat
  BY <1>2, TaskShape DEF Mark
<1>11. CASE backlog = {} /\ tasks' = [tasks EXCEPT ![i].pc = "claim", ![i].from = Zero]
  <2> SUFFICES ASSUME NEW t, t = [tasks[i] EXCEPT !.pc = "claim", !.from = Zero] PROVE RelayInv'
    OBVIOUS
  <2>1. tasks' = [tasks EXCEPT ![i] = t]
    BY <1>11
  <2>2. t \in Task /\ t.r = q /\ t.s = s /\ t.from = Zero /\ t.high = tasks[i].high
    BY <1>2, ZeroMark DEF Task
  <2>3. ASSUME NEW r \in Replicas, Stays(s, r)
        PROVE  Sound(s, r, t.from.seq)' /\ Sound(s, r, t.high.seq)' /\ Sound(s, r, c.seq)'
    <3>1. Sound(s, r, 0) /\ Sound(s, r, t.high.seq) /\ Sound(s, r, c.seq)
      BY <2>2, <2>3, TaskSound, SoundZero
    <3>2. t.from.seq = 0 /\ t.high.seq \in Nat
      BY <1>10, <2>2, ZeroMark
    <3>3. QED
      BY <1>9, <1>10, <2>3, <3>1, <3>2
  <2>4. cursor' = [cursor EXCEPT ![t.s] = c]
    BY <1>6, <2>2
  <2>5. TaskGoes(i, t, c)
    BY <1>1, <1>2, <1>5, <1>7, <2>1, <2>2, <2>4 DEF TaskGoes
  <2>6. Upheld(t, c)
    BY <2>2, <2>3 DEF Upheld
  <2>7. QED
    BY <2>5, <2>6, TaskMoves
<1>12. ASSUME NEW last \in backlog,
              tasks' = [tasks EXCEPT ![i].pc = "save", ![i].from = Zero,
                                     ![i].high = [seq |-> log[q][last].seq, epoch |-> epoch[q]]]
       PROVE  RelayInv'
  <2> SUFFICES ASSUME NEW high, high = [seq |-> log[q][last].seq, epoch |-> epoch[q]],
                      NEW t, t = [tasks[i] EXCEPT !.pc = "save", !.from = Zero, !.high = high]
               PROVE  RelayInv'
    OBVIOUS
  <2>1. tasks' = [tasks EXCEPT ![i] = t]
    BY <1>12
  <2>2. log[q] \in Seq(Entry) /\ epoch[q] \in Nat /\ nextSeq[q] \in Nat /\ Numbered(q) /\ last \in DOMAIN log[q]
    BY <1>2, <1>4 DEF RelayInv, RelayType, Reflecting, Numbering
  <2>3. log[q][last] \in Entry
    BY <2>2
  <2>4. high \in Mark /\ high.seq \in Nat /\ high.seq < nextSeq[q]
    BY <2>2, <2>3 DEF Mark, Entry, Numbered
  <2>5. t \in Task /\ t.r = q /\ t.s = s /\ t.from = Zero /\ t.high = high
    BY <1>2, <2>4, ZeroMark DEF Task
  <2>6. ASSUME NEW r \in Replicas, Stays(s, r)
        PROVE  Sound(s, r, t.from.seq)' /\ Sound(s, r, t.high.seq)' /\ Sound(s, r, c.seq)'
    <3>1. Sound(s, r, 0) /\ Sound(s, r, c.seq) /\ Sound(s, r, from.seq) /\ r = q
      BY SMTT(40), <2>6, TaskSound, SoundZero
    <3>2. Sound(s, r, high.seq)'
      <4>1. ASSUME NEW n \in DOMAIN log[q], Bundles[log[q][n].b].to = s
            PROVE  given'[log[q][n].b] >= 1 \/ log[q][n].b \in expired
        <5>1. log[q][n] \in Entry
          BY <2>2
        <5>2. log[q][n].b \in BundleIds /\ log[q][n].seq \in Nat \ {0}
          BY <5>1 DEF Entry
        <5>3. CASE n \in backlog
          BY <1>5, <4>1, <5>3
        <5>4. CASE n \notin backlog /\ log[q][n].b \notin expired
          <6>1. log[q][n].seq <= from.seq
            BY SMTT(40), <1>2, <1>3, <5>2, <5>4
          <6>2. given[log[q][n].b] >= 1
            BY <3>1, <4>1, <5>4, <6>1 DEF Sound
          <6>3. given[log[q][n].b] \in Nat /\ given'[log[q][n].b] \in Nat
            BY <1>5, <5>2 DEF RelayInv, RelayType, Running
          <6>4. QED
            BY <1>5, <5>2, <6>2, <6>3
        <5>5. QED
          BY <5>3, <5>4
      <4>2. QED
        BY <1>1, <2>4, <3>1, <4>1 DEF Sound
    <3>3. t.from.seq = 0 /\ t.high = high
      BY <2>5, ZeroMark
    <3>4. QED
      BY <1>9, <1>10, <2>6, <3>1, <3>2, <3>3
  <2>7. cursor' = [cursor EXCEPT ![t.s] = c]
    BY SMTT(40), <1>6, <2>5
  <2>8. TaskGoes(i, t, c)
    BY <1>1, <1>2, <1>5, <1>7, <2>1, <2>5, <2>7 DEF TaskGoes
  <2>9. Upheld(t, c)
    BY <2>5, <2>6 DEF Upheld
  <2>10. QED
    BY <2>8, <2>9, TaskMoves
<1>13. QED
  BY <1>11, <1>12 DEF DrainBacklog

LEMMA SpawnSound ==
  ASSUME RelayInv, NEW r \in Replicas, NEW s \in Sessions, Spawn(r, s)
  PROVE  RelayInv'
<1> DEFINE t == [r |-> r, s |-> s, pc |-> "boot", from |-> Zero, high |-> Zero]
           l == Len(tasks) + 1
<1> USE DEF reflector, durable, unheard
<1>1. /\ handle' = [handle EXCEPT ![r] = @ \cup {s}] /\ tasks' = Append(tasks, t)
      /\ homes' = [homes EXCEPT ![s] = @ \cup {r}]
      /\ UNCHANGED <<log, nextSeq, epoch, lease, disp, rows, place, cursor, hand, given, pruned, expired, doubled, dropped, crashed, scene>>
  BY DEF Spawn
<1>2. t \in Task /\ t.r = r /\ t.s = s /\ t.from = Zero /\ t.high = Zero
  BY ZeroMark DEF Task
<1> HIDE DEF t
<1>3. tasks \in Seq(Task) /\ homes \in [Sessions -> SUBSET Replicas] /\ handle \in [Replicas -> SUBSET Sessions]
  BY DEF RelayInv, RelayType, Placing, Running
<1>4. /\ tasks' \in Seq(Task) /\ DOMAIN tasks' = DOMAIN tasks \cup {l} /\ tasks'[l] = t /\ l \notin DOMAIN tasks
      /\ \A i \in DOMAIN tasks : tasks'[i] = tasks[i]
  BY <1>1, <1>2, <1>3
<1> HIDE DEF l
<1>5. /\ homes' \in [Sessions -> SUBSET Replicas] /\ r \in homes'[s] /\ \A x \in Sessions : homes[x] \subseteq homes'[x]
      /\ handle' \in [Replicas -> SUBSET Sessions]
  BY <1>1, <1>3
<1>6. RelayType'
  BY <1>1, <1>4, <1>5 DEF RelayInv, RelayType, Reflecting, Routing, Placing, Running
<1>7. Numbering' /\ Spreads /\ \A q \in Replicas : Grows(q)
  BY <1>1, StillNumbered, Spreading
<1>8. \A b \in BundleIds : Dispatching(b)' /\ (Waiting(b)' <=> Waiting(b))
  BY <1>1 DEF RelayInv, Filing, Dispatching, Waiting
<1>9. Filing'
  BY <1>1, <1>8, FilingKept
<1>10. \A x \in Sessions, q \in Replicas : Stays(x, q)' => Stays(x, q)
  BY <1>1, <1>5 DEF Stays
<1>11. SoundMarks'
  <2> SUFFICES ASSUME NEW x \in Sessions, NEW q \in Replicas, Stays(x, q), NEW n, n = cursor[x].seq PROVE Sound(x, q, n)'
    BY <1>1, <1>10 DEF SoundMarks, Sound
  <2>1. n \in Nat /\ Sound(x, q, n)
    BY MarksTyped DEF RelayInv, Watermarks, SoundMarks
  <2>2. QED
    BY <1>7, <2>1, SoundKept
<1>12. SoundTasks'
  <2> SUFFICES ASSUME NEW j \in DOMAIN tasks', NEW q \in Replicas, Stays(tasks[j].s, q)'
               PROVE  Sound(tasks[j].s, q, tasks[j].from.seq)' /\ Sound(tasks[j].s, q, tasks[j].high.seq)'
    BY DEF SoundTasks
  <2> SUFFICES ASSUME NEW u, u = tasks'[j], Stays(u.s, q)'
               PROVE  Sound(u.s, q, u.from.seq)' /\ Sound(u.s, q, u.high.seq)'
    BY DEF Sound, Stays
  <2>1. CASE j = l
    <3>1. u.from.seq = 0 /\ u.high.seq = 0 /\ u.s = s
      BY <1>2, <1>4, <2>1, ZeroMark
    <3>2. Sound(s, q, 0)'
      BY <1>7, SoundZero, SoundKept
    <3>3. QED
      BY <3>1, <3>2
  <2>2. CASE j # l
    <3>1. j \in DOMAIN tasks /\ u = tasks[j]
      BY <1>4, <2>2
    <3>2. u \in Task /\ u.s \in Sessions /\ u.from.seq \in Nat /\ u.high.seq \in Nat /\ Stays(u.s, q)
      BY <1>10, <3>1, MarksTyped, TaskShape
    <3>3. Sound(u.s, q, u.from.seq) /\ Sound(u.s, q, u.high.seq)
      BY <3>1, <3>2 DEF RelayInv, Watermarks, SoundTasks
    <3>4. QED
      BY <1>7, <3>2, <3>3, SoundKept
  <2>3. QED
    BY <2>1, <2>2
<1>13. AtHome'
  <2>1. \A i \in DOMAIN tasks : tasks[i].s \in Sessions /\ tasks[i].r \in homes[tasks[i].s]
    BY MarksTyped, TaskShape DEF RelayInv, Watermarks, AtHome
  <2>2. QED
    BY <1>2, <1>4, <1>5, <2>1 DEF AtHome
<1>14. QED
  BY <1>6, <1>7, <1>9, <1>11, <1>12, <1>13 DEF RelayInv, Watermarks

-----------------------------------------------------------------------------
(* Reclamation and restarts.                                                *)

LEMMA Counting ==
  ASSUME NEW m \in Nat, NEW l \in Nat, m <= l
  PROVE  (~(m + 1 <= l) => m = l /\ l - m = 0) /\ l - (m + 1) + 1 = l - m
OBVIOUS

\* What is left of a log that loses its first n entries.
LEMMA Cut ==
  ASSUME NEW M, NEW q \in Seq(M), NEW n \in 1..Len(q), NEW p, p = SubSeq(q, n + 1, Len(q))
  PROVE  /\ p \in Seq(M) /\ \A j \in DOMAIN p : j \in Nat /\ j + n \in DOMAIN q /\ p[j] = q[j + n]
         /\ \A i \in DOMAIN q : i <= n \/ (i - n \in DOMAIN p /\ p[i - n] = q[i])
<1>1. Len(q) \in Nat /\ DOMAIN q = 1..Len(q) /\ n \in Nat /\ 1 <= n /\ n <= Len(q)
  OBVIOUS
<1>2. n + 1 \in Int /\ Len(q) \in Int /\ \A i \in (n + 1)..Len(q) : q[i] \in M
  BY <1>1
<1>3. /\ p \in Seq(M) /\ Len(p) = IF n + 1 <= Len(q) THEN Len(q) - (n + 1) + 1 ELSE 0
      /\ \A j \in 1..Len(q) - (n + 1) + 1 : p[j] = q[(n + 1) + j - 1]
  BY SMTT(40), <1>2, SubSeqProperties
<1>4. DOMAIN p = 1..(Len(q) - n)
  <2>1. Len(p) = Len(q) - n
    <3>1. Len(p) = IF n + 1 <= Len(q) THEN Len(q) - (n + 1) + 1 ELSE 0
      BY SMTT(40), <1>3
    <3>2. CASE n + 1 <= Len(q)
      <4>1. Len(p) = Len(q) - (n + 1) + 1
        BY SMTT(40), <3>1, <3>2
      <4>2. QED
        BY <1>1, <4>1, Counting
    <3>3. CASE ~(n + 1 <= Len(q))
      <4>1. Len(p) = 0
        BY <3>1, <3>3
      <4>2. QED
        BY <1>1, <3>3, <4>1, Counting
    <3>4. QED
      BY <3>2, <3>3
  <2>2. DOMAIN p = 1..Len(p)
    BY <1>3
  <2>3. QED
    BY <2>1, <2>2
<1>5. ASSUME NEW j \in 1..(Len(q) - n) PROVE p[j] = q[j + n]
  <2>1. j \in 1..Len(q) - (n + 1) + 1 /\ (n + 1) + j - 1 = j + n
    BY <1>1
  <2>2. QED
    BY <1>3, <2>1
<1>6. \A j \in DOMAIN p : j \in Nat /\ j + n \in DOMAIN q /\ p[j] = q[j + n]
  BY <1>1, <1>4, <1>5
<1>7. ASSUME NEW i \in DOMAIN q, ~(i <= n) PROVE i - n \in DOMAIN p /\ p[i - n] = q[i]
  <2>1. i - n \in 1..(Len(q) - n) /\ (i - n) + n = i
    BY <1>1, <1>7
  <2>2. QED
    BY <1>4, <1>5, <2>1
<1>8. QED
  BY <1>3, <1>6, <1>7

LEMMA CompactSound ==
  ASSUME RelayInv, NEW r \in Replicas, Compact(r)
  PROVE  RelayInv'
<1> USE DEF durable, unheard
<1>1. PICK n \in 1..Len(log[r]) : /\ log' = [log EXCEPT ![r] = SubSeq(log[r], n + 1, Len(log[r]))]
                                  /\ pruned' = pruned \cup {log[r][i].b : i \in 1..n}
  BY DEF Compact
<1>2. /\ epoch' = [epoch EXCEPT ![r] = @ + 1]
      /\ UNCHANGED <<nextSeq, lease, disp, hand, rows, place, cursor, handle, tasks, given, homes, expired, doubled, dropped, crashed, scene>>
  BY DEF Compact
<1>3. log \in [Replicas -> Seq(Entry)] /\ log[r] \in Seq(Entry)
  BY DEF RelayInv, RelayType, Reflecting
<1> SUFFICES ASSUME NEW p, p = SubSeq(log[r], n + 1, Len(log[r])) PROVE RelayInv'
  OBVIOUS
<1>4. /\ p \in Seq(Entry) /\ \A j \in DOMAIN p : j \in Nat /\ j + n \in DOMAIN log[r] /\ p[j] = log[r][j + n]
      /\ \A i \in DOMAIN log[r] : i <= n \/ (i - n \in DOMAIN p /\ p[i - n] = log[r][i])
  BY <1>3, Cut
<1>5. log' = [log EXCEPT ![r] = p]
  BY <1>1
<1>6. log' \in [Replicas -> Seq(Entry)] /\ log'[r] = p /\ \A q \in Replicas \ {r} : log'[q] = log[q]
  BY <1>3, <1>4, <1>5
<1>7. DOMAIN log[r] = 1..Len(log[r]) /\ Len(log[r]) \in Nat /\ n \in Nat /\ 1..n \subseteq DOMAIN log[r]
  BY <1>3
<1>8. \A i \in DOMAIN log[r] : log[r][i] \in Entry
  BY <1>3
<1>9. pruned' \subseteq BundleIds
  BY <1>1, <1>7, <1>8 DEF RelayInv, RelayType, Routing, Entry
<1>10. epoch' \in [Replicas -> Nat]
  BY <1>2 DEF RelayInv, RelayType, Reflecting
<1>11. RelayType'
  BY <1>2, <1>6, <1>9, <1>10 DEF RelayInv, RelayType, Reflecting, Routing, Placing, Running
<1>12. Spreads
  BY <1>2, Spreading
<1>13. ASSUME NEW q \in Replicas PROVE Numbered(q)' /\ Grows(q)
  <2>1. /\ nextSeq[q] \in Nat /\ Numbered(q) /\ nextSeq' = nextSeq
        /\ \A i \in DOMAIN log[q] : log[q][i] \in Entry
    <3>1. log[q] \in Seq(Entry)
      BY <1>3
    <3>2. QED
      BY <1>2, <3>1 DEF RelayInv, RelayType, Reflecting, Numbering
  <2>2. \A i \in DOMAIN log'[q] : \E j \in DOMAIN log[q] : log'[q][i] = log[q][j]
    <3>1. CASE q = r
      BY SMTT(40), <1>4, <1>6, <3>1
    <3>2. CASE q # r
      BY <1>6, <3>2
    <3>3. QED
      BY <3>1, <3>2
  <2>3. \A j \in DOMAIN log[q] : log[q][j].seq \in Nat /\ log[q][j].seq < nextSeq[q]
    BY <2>1 DEF Numbered, Entry
  <2>4. Numbered(q)'
    BY <2>1, <2>2, <2>3 DEF Numbered
  <2>5. Grows(q)
    BY <2>1, <2>2, <2>3 DEF Grows
  <2>6. QED
    BY <2>4, <2>5
<1>14. Watermarks'
  BY <1>2, <1>12, <1>13, WatermarksKept
<1>15. ASSUME NEW a \in BundleIds PROVE Dispatching(a)' /\ Alone(a)'
  <2>1. Dispatching(a) /\ Alone(a)
    BY DEF RelayInv, Filing
  <2>2. Dispatching(a)' /\ (disp'[a].pc = "idle" <=> disp[a].pc = "idle") /\ crashed' = crashed
    BY <1>2, <2>1 DEF Dispatching
  <2>3. /\ Rowed(a)' <=> Rowed(a)
        /\ Handed(a)' <=> Handed(a)
        /\ Waiting(a)' <=> Waiting(a)
    BY <1>2 DEF Rowed, Handed, Waiting
  <2>4. ASSUME a \notin doubled PROVE OneEntry(a) /\ OneEntry(a)' /\ OneRow(a)' /\ OneHand(a)'
    <3>0. OneEntry(a) /\ OneRow(a)' /\ OneHand(a)'
      BY <1>2, <2>1, <2>4, RestFiled DEF Alone, Single, Ones
    <3> SUFFICES ASSUME NEW q1 \in Replicas, NEW q2 \in Replicas, NEW i \in DOMAIN log'[q1], NEW j \in DOMAIN log'[q2],
                        log'[q1][i].b = a, log'[q2][j].b = a
                 PROVE  q1 = q2 /\ i = j
      BY <3>0 DEF OneEntry
    <3>1. ASSUME NEW q \in Replicas, NEW k \in DOMAIN log'[q], log'[q][k].b = a
          PROVE  \/ q = r /\ k \in Nat /\ k + n \in DOMAIN log[r] /\ log[r][k + n].b = a
                 \/ q # r /\ k \in DOMAIN log[q] /\ log[q][k].b = a
      <4>1. CASE q = r
        <5>1. log'[q] = p
          BY <1>6, <4>1
        <5>2. k \in DOMAIN p /\ p[k].b = a
          BY <3>1, <5>1
        <5>3. QED
          BY <1>4, <4>1, <5>2
      <4>2. CASE q # r
        BY <1>6, <3>1, <4>2
      <4>3. QED
        BY <4>1, <4>2
    <3>2. \/ q1 = r /\ i \in Nat /\ i + n \in DOMAIN log[r] /\ log[r][i + n].b = a
          \/ q1 # r /\ i \in DOMAIN log[q1] /\ log[q1][i].b = a
      BY <3>1
    <3>3. \/ q2 = r /\ j \in Nat /\ j + n \in DOMAIN log[r] /\ log[r][j + n].b = a
          \/ q2 # r /\ j \in DOMAIN log[q2] /\ log[q2][j].b = a
      BY <3>1
    <3>4. CASE q1 = r /\ q2 = r
      <4>1. i + n = j + n
        BY <3>0, <3>2, <3>3, <3>4 DEF OneEntry
      <4>2. QED
        BY <1>7, <3>2, <3>3, <3>4, <4>1
    <3>5. CASE q1 # r \/ q2 # r
      BY <3>0, <3>2, <3>3, <3>5 DEF OneEntry
    <3>6. QED
      BY <3>4, <3>5
  <2>5. Logged(a) => Logged(a)' \/ a \in pruned'
    <3> SUFFICES ASSUME NEW q \in Replicas, NEW j \in DOMAIN log[q], log[q][j].b = a
                 PROVE  Logged(a)' \/ a \in pruned'
      BY DEF Logged
    <3>1. CASE q = r /\ j <= n
      <4>1. j \in 1..n
        BY <1>7, <3>1
      <4>2. QED
        BY <1>1, <3>1, <4>1
    <3>2. CASE q = r /\ ~(j <= n)
      <4>1. j - n \in DOMAIN log'[r] /\ log'[r][j - n].b = a
        BY <1>4, <1>6, <3>2
      <4>2. QED
        BY <4>1 DEF Logged
    <3>3. CASE q # r
      BY <1>6, <3>3 DEF Logged
    <3>4. QED
      BY <3>1, <3>2, <3>3
  <2>6. disp[a].pc # "idle" /\ crashed = {} /\ a \notin dropped => Placed(a)'
    BY <1>1, <2>1, <2>3, <2>5 DEF Alone, Placed
  <2>7. CASE a \in doubled
    BY <1>2, <2>1, <2>2, <2>3, <2>6, <2>7 DEF Alone
  <2>8. CASE a \notin doubled /\ \E i \in 1..n : log[r][i].b = a
    <3>1. PICK i \in 1..n : log[r][i].b = a
      BY <2>8
    <3>2. i \in DOMAIN log[r] /\ Logged(a) /\ a \in pruned'
      BY <1>1, <1>7, <3>1 DEF Logged
    <3>3. ~Rowed(a) /\ ~Handed(a) /\ ~Waiting(a) /\ disp[a].pc # "idle"
      BY <2>1, <2>8, <3>2 DEF Alone, Single
    <3>4. ~Logged(a)'
      <4> SUFFICES ASSUME NEW q \in Replicas, NEW j \in DOMAIN log'[q], log'[q][j].b = a PROVE FALSE
        BY DEF Logged
      <4>1. CASE q = r
        <5>1. j \in Nat /\ j + n \in DOMAIN log[r] /\ log[r][j + n].b = a /\ j >= 1
          <6>1. j \in DOMAIN p /\ p \in Seq(Entry)
            BY <1>4, <1>6, <4>1
          <6>2. j >= 1
            BY <6>1
          <6>3. QED
            BY <1>4, <1>6, <4>1, <6>1, <6>2
        <5>2. i = j + n
          BY <2>4, <2>8, <3>1, <3>2, <5>1 DEF OneEntry
        <5>3. QED
          BY <1>7, <5>1, <5>2
      <4>2. CASE q # r
        BY <1>6, <2>4, <2>8, <3>1, <3>2, <4>2 DEF OneEntry
      <4>3. QED
        BY <4>1, <4>2
    <3>5. Single(a)'
      BY <1>2, <2>3, <2>4, <2>8, <3>3, <3>4 DEF Single, Ones
    <3>6. QED
      BY <1>2, <2>2, <2>6, <2>8, <3>3, <3>5 DEF Alone
  <2>9. CASE a \notin doubled /\ ~\E i \in 1..n : log[r][i].b = a
    <3>1. a \in pruned' <=> a \in pruned
      BY <1>1, <2>9
    <3>2. Logged(a)' => Logged(a)
      <4> SUFFICES ASSUME NEW q \in Replicas, NEW j \in DOMAIN log'[q], log'[q][j].b = a PROVE Logged(a)
        BY DEF Logged
      <4>1. CASE q = r
        BY ZenonT(60), <1>4, <1>6, <4>1 DEF Logged
      <4>2. CASE q # r
        BY <1>6, <4>2 DEF Logged
      <4>3. QED
        BY <4>1, <4>2
    <3>3. Logged(a) => Logged(a)'
      <4> SUFFICES ASSUME NEW q \in Replicas, NEW j \in DOMAIN log[q], log[q][j].b = a PROVE Logged(a)'
        BY DEF Logged
      <4>1. CASE q = r
        <5>1. j \in DOMAIN log[r] /\ ~(j <= n)
          BY <1>7, <2>9, <4>1
        <5>2. j - n \in DOMAIN log'[r] /\ log'[r][j - n].b = a
          BY <1>4, <1>6, <4>1, <5>1
        <5>3. QED
          BY <5>2 DEF Logged
      <4>2. CASE q # r
        BY <1>6, <4>2 DEF Logged
      <4>3. QED
        BY <4>1, <4>2
    <3>4. Unmoved(a)
      BY <1>2, <2>3, <2>4, <2>9, <3>1, <3>2, <3>3 DEF Unmoved, Ones
    <3>5. QED
      BY <2>1, <2>2, <2>3, <3>4, AloneKept
  <2>10. QED
    BY <2>2, <2>7, <2>8, <2>9
<1>16. QED
  BY <1>11, <1>13, <1>14, <1>15 DEF RelayInv, Filing, Numbering

LEMMA CrashSound ==
  ASSUME RelayInv, NEW r \in Replicas, Crash(r)
  PROVE  RelayInv'
<1> USE DEF durable, unheard
<1>1. /\ crashed' = crashed \cup {r} /\ log' = [log EXCEPT ![r] = <<>>] /\ nextSeq' = [nextSeq EXCEPT ![r] = 1]
      /\ epoch' = [epoch EXCEPT ![r] = 0] /\ lease' = [lease EXCEPT ![r] = [s \in Sessions |-> FALSE]]
      /\ hand' = [hand EXCEPT ![r] = {}] /\ handle' = [handle EXCEPT ![r] = {}]
      /\ tasks' = [i \in DOMAIN tasks |-> IF tasks[i].r = r
                     THEN [tasks[i] EXCEPT !.pc = "dead", !.from = Zero, !.high = Zero] ELSE tasks[i]]
      /\ disp' = [b \in BundleIds |->
                     IF disp[b].at = r /\ disp[b].pc # "idle" THEN [disp[b] EXCEPT !.pc = "done", !.dest = None]
                     ELSE disp[b]]
      /\ UNCHANGED <<rows, place, cursor, given, homes, pruned, expired, doubled, dropped, scene>>
  BY DEF Crash
<1>2. /\ log' \in [Replicas -> Seq(Entry)] /\ log'[r] = <<>> /\ DOMAIN log'[r] = {}
      /\ \A q \in Replicas \ {r} : log'[q] = log[q] /\ nextSeq'[q] = nextSeq[q] /\ hand'[q] = hand[q]
      /\ nextSeq' \in [Replicas -> Nat \ {0}] /\ hand' \in [Replicas -> SUBSET BundleIds] /\ hand'[r] = {}
  <2>1. log \in [Replicas -> Seq(Entry)] /\ <<>> \in Seq(Entry) /\ DOMAIN <<>> = {}
    BY DEF RelayInv, RelayType, Reflecting
  <2>2. /\ log' \in [Replicas -> Seq(Entry)] /\ log'[r] = <<>> /\ DOMAIN log'[r] = {}
        /\ \A q \in Replicas \ {r} : log'[q] = log[q]
    BY <1>1, <2>1
  <2>3. nextSeq' \in [Replicas -> Nat \ {0}] /\ \A q \in Replicas \ {r} : nextSeq'[q] = nextSeq[q]
    <3>1. nextSeq \in [Replicas -> Nat \ {0}] /\ 1 \in Nat \ {0}
      BY DEF RelayInv, RelayType, Reflecting
    <3>2. QED
      BY <1>1, <3>1
  <2>4. /\ hand' \in [Replicas -> SUBSET BundleIds] /\ hand'[r] = {}
        /\ \A q \in Replicas \ {r} : hand'[q] = hand[q]
    BY <1>1 DEF RelayInv, RelayType, Routing
  <2>5. QED
    BY <2>2, <2>3, <2>4
<1>3. epoch' \in [Replicas -> Nat] /\ lease' \in [Replicas -> [Sessions -> BOOLEAN]] /\ handle' \in [Replicas -> SUBSET Sessions]
  BY <1>1 DEF RelayInv, RelayType, Reflecting, Placing
<1>4. /\ DOMAIN tasks' = DOMAIN tasks /\ tasks' \in Seq(Task)
      /\ \A i \in DOMAIN tasks : /\ tasks'[i].r = tasks[i].r /\ tasks'[i].s = tasks[i].s
                                 /\ tasks'[i] = tasks[i] \/ tasks[i].r = r
  <2>1. tasks \in Seq(Task)
    BY DEF RelayInv, RelayType, Running
  <2>2. ASSUME NEW t \in Task, NEW u, u = [t EXCEPT !.pc = "dead", !.from = Zero, !.high = Zero]
        PROVE  u \in Task /\ u.r = t.r /\ u.s = t.s
    BY <2>2, ZeroMark DEF Task
  <2>3. ASSUME NEW i \in DOMAIN tasks
        PROVE  /\ tasks'[i] \in Task /\ tasks'[i].r = tasks[i].r /\ tasks'[i].s = tasks[i].s
               /\ tasks'[i] = tasks[i] \/ tasks[i].r = r
    BY <1>1, <2>2, MarksTyped
  <2>4. DOMAIN tasks' = DOMAIN tasks
    BY <1>1
  <2>5. tasks' \in Seq(Task)
    <3>1. DOMAIN tasks = 1..Len(tasks) /\ Len(tasks) \in Nat
      BY <2>1
    <3> DEFINE after == [i \in DOMAIN tasks |-> tasks'[i]]
    <3>0. tasks' = after
      BY <1>1
    <3>2. \A i \in 1..Len(tasks) : tasks'[i] \in Task
      BY <2>1, <2>3
    <3>3. after \in [1..Len(tasks) -> Task]
      BY <3>1, <3>2
    <3> HIDE DEF after
    <3>4. after \in Seq(Task)
      BY <3>1, <3>3
    <3>5. QED
      BY <3>0, <3>4
  <2>6. QED
    BY <2>3, <2>4, <2>5
<1>5. ASSUME NEW b \in BundleIds
      PROVE  /\ disp'[b] \in Route /\ Dispatching(b)'
             /\ disp'[b].pc = "idle" <=> disp[b].pc = "idle"
             /\ disp'[b].pc \in Waits => disp[b].pc \in Waits
  <2>1. disp[b] \in Route /\ Dispatching(b) /\ MaxAttempts \in Nat
    BY Begun
  <2>2. CASE disp'[b] = disp[b]
    BY <2>1, <2>2 DEF Dispatching
  <2>3. CASE disp[b].pc # "idle" /\ disp'[b] = [disp[b] EXCEPT !.pc = "done", !.dest = None]
    <3>1. /\ disp'[b] \in Route /\ disp'[b].pc = "done" /\ disp'[b].at = disp[b].at /\ disp'[b].tries = disp[b].tries
      BY <2>1, <2>3 DEF Route
    <3>2. QED
      BY <2>1, <2>3, <3>1 DEF Dispatching, Waits
  <2>4. QED
    BY <1>1, <2>2, <2>3
<1>6. disp' \in [BundleIds -> Route]
  BY <1>1, <1>5
<1>7. RelayType'
  BY <1>1, <1>2, <1>3, <1>4, <1>6 DEF RelayInv, RelayType, Reflecting, Routing, Placing, Running
<1>8. ASSUME NEW q \in Replicas \ {r} PROVE Numbered(q) /\ Grows(q)
  <2>1. log[q] \in Seq(Entry) /\ nextSeq[q] \in Nat
    BY DEF RelayInv, RelayType, Reflecting
  <2>2. \A i \in DOMAIN log[q] : log[q][i] \in Entry
    BY <2>1
  <2>3. QED
    BY <1>2, <2>1, <2>2 DEF RelayInv, Numbering, Grows, Entry
<1>9. Numbering'
  BY <1>2, <1>8 DEF Numbering, Numbered
<1>10. Spreads
  BY <1>1, Spreading
<1>11. \A s, q : Stays(s, q)' => Stays(s, q) /\ q # r
  BY <1>1 DEF Stays
<1>12. SoundMarks'
  <2> SUFFICES ASSUME NEW x \in Sessions, NEW q \in Replicas, Stays(x, q)', NEW n, n = cursor[x].seq PROVE Sound(x, q, n)'
    BY <1>1 DEF SoundMarks, Sound
  <2>1. n \in Nat /\ Sound(x, q, n) /\ q # r
    BY <1>11, MarksTyped DEF RelayInv, Watermarks, SoundMarks
  <2>2. QED
    BY <1>8, <1>10, <2>1, SoundKept
<1>13. SoundTasks'
  <2> SUFFICES ASSUME NEW j \in DOMAIN tasks', NEW q \in Replicas, Stays(tasks[j].s, q)'
               PROVE  Sound(tasks[j].s, q, tasks[j].from.seq)' /\ Sound(tasks[j].s, q, tasks[j].high.seq)'
    BY DEF SoundTasks
  <2>1. j \in DOMAIN tasks /\ tasks'[j].s = tasks[j].s /\ tasks'[j].r = tasks[j].r
    BY <1>4
  <2>2. q # r /\ homes[tasks[j].s] \subseteq {q}
    BY <1>1, <2>1 DEF Stays
  <2>3. Stays(tasks[j].s, q)
    BY <1>1, <2>1 DEF Stays
  <2>4. tasks[j].r = q
    BY <2>1, <2>3, TaskSound
  <2>5. tasks'[j] = tasks[j]
    BY <1>4, <2>1, <2>2, <2>4
  <2> SUFFICES ASSUME NEW u, u = tasks[j]
               PROVE  Sound(u.s, q, u.from.seq)' /\ Sound(u.s, q, u.high.seq)'
    BY <2>5 DEF Sound
  <2>6. u.from.seq \in Nat /\ u.high.seq \in Nat /\ Sound(u.s, q, u.from.seq) /\ Sound(u.s, q, u.high.seq)
    BY <2>1, <2>3, MarksTyped, TaskShape, TaskSound
  <2>7. QED
    BY <1>8, <1>10, <2>2, <2>6, SoundKept
<1>14. AtHome'
  BY <1>1, <1>4 DEF RelayInv, Watermarks, AtHome
<1>15. ASSUME NEW a \in BundleIds PROVE Alone(a)'
  <2>1. Alone(a)
    BY DEF RelayInv, Filing
  <2>2. \A q \in Replicas : \A i \in DOMAIN log'[q] : i \in DOMAIN log[q] /\ log'[q][i] = log[q][i]
    BY <1>2
  <2>3. \A q \in Replicas : a \in hand'[q] => a \in hand[q]
    BY <1>2
  <2>4. (OneEntry(a) => OneEntry(a)') /\ (Logged(a)' => Logged(a))
    BY <2>2 DEF OneEntry, Logged
  <2>5. (OneHand(a) => OneHand(a)') /\ (Handed(a)' => Handed(a))
    BY <2>3 DEF OneHand, Handed
  <2>6. (OneRow(a) => OneRow(a)') /\ (Rowed(a)' => Rowed(a))
    BY <1>1 DEF OneRow, Rowed
  <2>7. Waiting(a)' => Waiting(a)
    BY <1>5 DEF Waiting
  <2>8. /\ a \in pruned' <=> a \in pruned
        /\ a \in doubled' <=> a \in doubled
        /\ crashed' # {} /\ (disp'[a].pc = "idle" <=> disp[a].pc = "idle")
    BY <1>1, <1>5
  <2>9. a \notin doubled => Single(a)'
    BY <2>1, <2>4, <2>5, <2>6, <2>7, <2>8 DEF Alone, Single, Ones
  <2>10. QED
    BY <2>1, <2>7, <2>8, <2>9 DEF Alone
<1>16. QED
  BY <1>5, <1>7, <1>9, <1>12, <1>13, <1>14, <1>15 DEF RelayInv, Filing, Watermarks

-----------------------------------------------------------------------------
(* The theorems.                                                            *)

\* RelayInv holds of every start and is kept by every step.
THEOREM Invariance == Spec => []RelayInv
<1>1. Init => RelayInv
  <2> SUFFICES ASSUME Init PROVE RelayInv
    OBVIOUS
  <2>1. /\ \A r \in Replicas : log[r] = <<>> /\ DOMAIN log[r] = {} /\ nextSeq[r] = 1 /\ hand[r] = {}
        /\ \A b \in BundleIds : disp[b] = Idle
        /\ tasks = <<>> /\ DOMAIN tasks = {} /\ rows = {} /\ pruned = {} /\ doubled = {} /\ dropped = {}
    BY DEF Init
  <2>2. <<>> \in Seq(Entry) /\ <<>> \in Seq(Task) /\ Idle \in Route /\ Idle.pc = "idle" /\ Idle.tries = 0
    BY IdleRoute DEF Idle
  <2>3. RelayType
    BY <2>2, ZeroMark DEF Init, RelayType, Reflecting, Routing, Placing, Running
  <2>4. Numbering
    BY <2>1 DEF Numbering, Numbered
  <2>5. ASSUME NEW b \in BundleIds PROVE Dispatching(b) /\ Alone(b)
    <3>1. Dispatching(b)
      BY <2>1, <2>2, Begun, RelayAssumption DEF Dispatching
    <3>2. ~Logged(b) /\ ~Rowed(b) /\ ~Handed(b) /\ ~Waiting(b) /\ OneEntry(b) /\ OneRow(b) /\ OneHand(b)
      BY <2>1, <2>2 DEF Logged, Rowed, Handed, Waiting, Waits, OneEntry, OneRow, OneHand
    <3>3. QED
      BY <2>1, <2>2, <3>1, <3>2 DEF Alone, Single, Ones
  <2>6. Watermarks
    <3>1. \A s \in Sessions, r \in Replicas : Sound(s, r, cursor[s].seq)
      BY <2>1, ZeroMark DEF Init, Sound
    <3>2. QED
      BY <2>1, <3>1 DEF Watermarks, SoundMarks, SoundTasks, AtHome
  <2>7. QED
    BY <2>3, <2>4, <2>5, <2>6 DEF RelayInv, Filing
<1>2. RelayInv /\ [Next]_vars => RelayInv'
  <2> SUFFICES ASSUME RelayInv, [Next]_vars PROVE RelayInv'
    OBVIOUS
  <2>1. ASSUME NEW b \in BundleIds, \/ Emit(b) \/ CheckOwner(b) \/ OwnerUnknown(b) \/ Forward(b)
                                     \/ TryAcquire(b) \/ DispatchAppend(b) \/ Deliver(b)
        PROVE  RelayInv'
    BY <2>1, EmitSound, CheckOwnerSound, OwnerUnknownSound, ForwardSound, TryAcquireSound, DispatchAppendSound,
       DeliverSound
  <2>2. ASSUME NEW b \in BundleIds, Expire(b) PROVE RelayInv'
    BY <2>2, PlacesSound
  <2>3. ASSUME NEW i \in DOMAIN tasks, ReadCursor(i) \/ DrainBacklog(i) \/ SaveCursor(i) \/ ClaimPlacement(i)
        PROVE  RelayInv'
    BY <2>3, ReadCursorSound, DrainBacklogSound, SaveCursorSound, ClaimPlacementSound
  <2>4. ASSUME NEW r \in Replicas, \/ ListenerClaims(r) \/ ClaimUnheard(r) \/ Compact(r) \/ Crash(r)
                                    \/ \E b \in BundleIds : ListenerDelivers(r, b)
        PROVE  RelayInv'
    BY <2>4, ListenerClaimsSound, ClaimUnheardSound, ListenerDeliversSound, CompactSound, CrashSound
  <2>5. ASSUME NEW r \in Replicas, NEW s \in Sessions, Spawn(r, s) \/ DropHandle(r, s) \/ Heartbeat(r, s) \/ LeaseExpires(r, s)
        PROVE  RelayInv'
    BY <2>5, SpawnSound, PlacesSound
  <2>6. ASSUME NEW s \in Sessions, Lapse(s) PROVE RelayInv'
    BY <2>6, PlacesSound
  <2>7. CASE UNCHANGED vars
    <3>1. UNCHANGED <<log, nextSeq, epoch, disp, rows, hand, pruned, doubled, dropped, crashed, cursor, tasks, given, homes, scene,
                      lease, handle, place, expired>>
      BY <2>7 DEF vars
    <3>2. /\ lease' \in [Replicas -> [Sessions -> BOOLEAN]] /\ handle' \in [Replicas -> SUBSET Sessions]
          /\ place' \in [Sessions -> [owner: Replicas \cup {None}, fresh: BOOLEAN]]
      BY <3>1 DEF RelayInv, RelayType, Reflecting, Placing
    <3>3. QED
      BY <3>1, <3>2, PlacesKept
  <2>8. QED
    BY <2>1, <2>2, <2>3, <2>4, <2>5, <2>6, <2>7 DEF Next
<1>3. QED
  BY <1>1, <1>2, PTL DEF Spec

\* Ids, numbers and marks stay what the code's types say, dispatch gives up in
\* time, and no log entry has the number of a later one.
THEOREM TypeCorrect == Spec => []RelayTypeOK
<1>1. RelayInv => RelayTypeOK
  <2> SUFFICES ASSUME RelayInv PROVE RelayTypeOK
    OBVIOUS
  <2>1. \A r \in Replicas : hand[r] \subseteq BundleIds /\ handle[r] \subseteq Sessions
    BY DEF RelayInv, RelayType, Routing, Placing
  <2>2. \A r \in Replicas : \A i \in DOMAIN log[r] : log[r][i].seq < nextSeq[r]
    BY DEF RelayInv, Numbering, Numbered
  <2>3. \A b \in BundleIds : disp[b].tries <= MaxAttempts /\ given[b] \in Nat
    BY DEF RelayInv, Filing, Dispatching, RelayType, Running
  <2>4. \A s \in Sessions : cursor[s].seq \in Nat /\ place[s].owner \in Replicas \cup {None}
    BY MarksTyped DEF RelayInv, RelayType, Placing
  <2>5. QED
    BY <2>1, <2>2, <2>3, <2>4 DEF RelayTypeOK
<1>2. QED
  BY <1>1, Invariance, PTL

\* A set without two different members.
LEMMA AtMostOne ==
  ASSUME NEW S, \A x, y \in S : x = y
  PROVE  Cardinality(S) = IF S = {} THEN 0 ELSE 1
<1>1. CASE S = {}
  BY <1>1, FS_EmptySet
<1>2. CASE S # {}
  <2>1. PICK x : S = {x}
    BY <1>2
  <2>2. QED
    BY <1>2, <2>1, FS_Singleton
<1>3. QED
  BY <1>1, <1>2

LEMMA Located ==
  ASSUME RelayInv, NEW b \in BundleIds, b \notin doubled
  PROVE  /\ Cardinality(Filed(b)) = IF Logged(b) THEN 1 ELSE 0
         /\ Cardinality({y \in rows : y.b = b}) = IF Rowed(b) THEN 1 ELSE 0
         /\ Cardinality({r \in Replicas : b \in hand[r]}) = IF Handed(b) THEN 1 ELSE 0
<1>1. OneEntry(b) /\ OneRow(b) /\ OneHand(b)
  BY DEF RelayInv, Filing, Alone, Single, Ones
<1>2. \A x : x \in Filed(b) <=> \E r \in Replicas : \E i \in DOMAIN log[r] : log[r][i].b = b /\ x = <<r, i>>
  BY DEF Filed
<1>3. (\A x, y \in Filed(b) : x = y) /\ (Filed(b) = {} <=> ~Logged(b))
  <2>1. \A x, y \in Filed(b) : x = y
    BY <1>1, <1>2 DEF OneEntry
  <2>2. Logged(b) => Filed(b) # {}
    BY <1>2 DEF Logged
  <2>3. Filed(b) # {} => Logged(b)
    BY <1>2 DEF Logged
  <2>4. QED
    BY <2>1, <2>2, <2>3
<1>4. Cardinality(Filed(b)) = IF Logged(b) THEN 1 ELSE 0
  BY <1>3, AtMostOne
<1> DEFINE R == {y \in rows : y.b = b}
           H == {r \in Replicas : b \in hand[r]}
<1>5. (\A x, y \in R : x = y) /\ (R = {} <=> ~Rowed(b))
  BY <1>1 DEF OneRow, Rowed
<1>6. (\A x, y \in H : x = y) /\ (H = {} <=> ~Handed(b))
  BY <1>1 DEF OneHand, Handed
<1> HIDE DEF R, H
<1>7. Cardinality(R) = (IF Rowed(b) THEN 1 ELSE 0) /\ Cardinality(H) = IF Handed(b) THEN 1 ELSE 0
  BY <1>5, <1>6, AtMostOne
<1>8. QED
  BY <1>4, <1>7 DEF R, H

\* A bundle that was emitted is in one place: route_bundle files it here or with
\* the owner, an INSERT that fails files it here, one UPDATE claims a row for one
\* listener, and compact() is the only thing that takes it from a log, whatever
\* leases expire, placements lapse, lookups fail and tasks come and go.  It is in
\* two only if an INSERT that wrote its row was reported failed, and in none only
\* if a claim that took its row was, or a replica crashed.
THEOREM BundlesConserved == Spec => []Conserved
<1>1. RelayInv => Conserved
  <2> SUFFICES ASSUME RelayInv, NEW b \in BundleIds, disp[b] # Idle
               PROVE  /\ b \notin doubled => Copies(b) <= 1
                      /\ crashed = {} /\ b \notin dropped => Somewhere(b)
    BY DEF Conserved
  <2>1. Alone(b) /\ disp[b].pc # "idle"
    BY DEF RelayInv, Filing, Dispatching
  <2>2. ASSUME b \notin doubled PROVE Copies(b) <= 1
    <3> DEFINE L == IF Logged(b) THEN 1 ELSE 0
               R == IF Rowed(b) THEN 1 ELSE 0
               H == IF Handed(b) THEN 1 ELSE 0
               W == IF Waiting(b) THEN 1 ELSE 0
               P == IF b \in pruned THEN 1 ELSE 0
    <3>1. Copies(b) = L + R + H + W + P
      BY <2>2, Located DEF Copies, Waiting, Waits
    <3>2. /\ Logged(b)  => ~Rowed(b) /\ ~Handed(b) /\ ~Waiting(b) /\ b \notin pruned
          /\ Rowed(b)   => ~Handed(b) /\ ~Waiting(b) /\ b \notin pruned
          /\ Handed(b)  => ~Waiting(b) /\ b \notin pruned
          /\ Waiting(b) => b \notin pruned
      BY <2>1, <2>2 DEF Alone, Single
    <3>3. L + R + H + W + P <= 1
      BY <3>2
    <3>4. QED
      BY <3>1, <3>3
  <2>3. ASSUME Placed(b) PROVE Somewhere(b)
    <3>0. \A r \in Replicas : \A i \in DOMAIN log[r] : log[r][i].b = b => <<r, i>> \in Filed(b)
      BY DEF Filed
    <3>1. Logged(b) => Filed(b) # {}
      BY <3>0 DEF Logged
    <3>2. QED
      BY <2>3, <3>1 DEF Placed, Somewhere, Rowed, Handed, Waiting, Waits
  <2>4. QED
    BY <2>1, <2>2, <2>3 DEF Alone
<1>2. QED
  BY <1>1, Invariance, PTL

\* drain_reflector_backlog skips what lies under the saved watermark: while one
\* replica that has not restarted runs the session's tasks, all of that was put
\* in a mailbox of the session or is past its TTL.
THEOREM WatermarkAlwaysCovers == Spec => []WatermarkCovers
<1>1. RelayInv => WatermarkCovers
  <2> SUFFICES ASSUME RelayInv, NEW s \in Sessions, NEW r \in Replicas \ crashed, homes[s] \subseteq {r},
                      NEW i \in DOMAIN log[r], Hides(s, log[r][i], r)
               PROVE  given[log[r][i].b] >= 1 \/ log[r][i].b \in expired
    BY DEF WatermarkCovers
  <2>1. Sound(s, r, cursor[s].seq)
    BY DEF RelayInv, Watermarks, SoundMarks, Stays
  <2>2. QED
    BY <2>1 DEF Sound, Hides
<1>2. QED
  BY <1>1, Invariance, PTL

================================================================================
