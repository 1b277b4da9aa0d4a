--------------------------- MODULE SessionStream ---------------------------
(***************************************************************************)
(* How committed events reach those who look at a session: the hub each    *)
(* replica keeps for it, the WebSocket clients that attach to the hub, the *)
(* LISTEN/NOTIFY hand-over to the other replicas, the terminal dashboard   *)
(* that refetches on every frame, and the polling readers (`sp watch`,     *)
(* `sp session feed`) with the cursor file that survives them.             *)
(*                                                                         *)
(* A writer commits, then stores its snapshot in the hub, then broadcasts; *)
(* a client inserts its sender, subscribes, then reads the snapshot it is  *)
(* sent.  Between any two of these other threads run.                      *)
(***************************************************************************)
EXTENDS Integers, Sequences, FiniteSets
LOCAL INSTANCE FiniteSetsExt

CONSTANTS
    Hosts,          \* replicas
    Sockets,        \* WebSocket clients, each connects once
    Dashboards,     \* those of them that are the `sp shell` TUI
    Below,          \* those whose role is below event_visibility's bar
    Readers,        \* polling readers
    BroadcastCap,   \* capacity of a hub's broadcast channel
    PageLimit,      \* events in one poll of a reader
    TailLimit,      \* events in one refetch of the TUI
    Settings        \* bounds of a behaviour: the events to come, who takes part

ASSUME StreamAssumption ==
    /\ Dashboards \subseteq Sockets /\ Below \subseteq Sockets \cup Readers
    /\ {BroadcastCap, PageLimit, TailLimit} \subseteq Nat \ {0}
    /\ \A s \in Settings :
         /\ s.hosts \subseteq Hosts /\ s.sockets \subseteq Sockets /\ s.readers \subseteq Readers
         /\ \A i \in DOMAIN s.script :
              s.script[i] \in [on: Hosts, how: {"ws", "emit", "task"},
                                kind: {"open", "redacted", "withheld", "silent"}]

VARIABLES
    elog,      \* events rows of the session in seq order: indices of the script
    ann,       \* what the writer of each item of the script, or a replica's listener, is doing
    sent,      \* history: <<seq, hub>> broadcast
    inbox,     \* replica -> seqs notified and not yet picked up by its listener
    hubs,      \* every hub there ever was: [live, high, senders]
    reg,       \* replica -> index in hubs of the one in AppState::hubs, 0 for none
    sock,      \* socket -> its connection
    pane,      \* TUI socket -> what its detail view shows
    reader,    \* reader -> its cursor and what of the page is still to print
    file,      \* the saved cursor of the session, shared by the watchers of a user
    printed, passedBy,  \* history: events printed; events filtered out or withheld
    kills,     \* readers killed (a bound)
    setting    \* the member of Settings that bounds this behaviour

streamVars == <<elog, ann, sent, inbox, hubs, reg, sock, pane, reader, file, printed, passedBy, kills, setting>>
server  == <<elog, ann, sent, inbox, hubs, reg>>
polling == <<reader, file, printed, passedBy, kills>>

\* A snapshot is the seq it reflects: what it holds is the subject of SnapshotWrite.
Cold == -1                        \* an ArcSwap that holds None
LoadFromDb == Len(elog)           \* load_snapshot_from_db: the newest row's seq
KindOf(n) == setting.script[elog[n]].kind
HowOf(n) == setting.script[elog[n]].how
Sees(x, n) == KindOf(n) # "withheld" \/ x \notin Below

Items == 1..Max({Len(s.script) : s \in Settings})
Rest == [pc |-> "rest", n |-> 0, hub |-> 0, base |-> Cold]
Off == [pc |-> "off", at |-> CHOOSE r \in Hosts : TRUE, hub |-> 0, base |-> Cold, stale |-> FALSE,
        held |-> Cold, ring |-> <<>>, lost |-> FALSE, got |-> <<>>]

StreamInit ==
    /\ setting \in Settings
    /\ elog = <<>> /\ hubs = <<>> /\ sent = {}
    /\ ann = [i \in Items \cup Hosts |-> Rest]
    /\ inbox = [r \in Hosts |-> <<>>]
    /\ reg = [r \in Hosts |-> 0]
    /\ sock = [c \in Sockets |-> Off]
    /\ pane = [c \in Dashboards |-> [pc |-> "list", seen |-> 0, rows |-> {}, shown |-> {}]]
    /\ reader = [w \in Readers |-> [pc |-> "off", cursor |-> 0, page |-> {}]]
    /\ file = 0 /\ printed = {} /\ passedBy = {} /\ kills = 0

----------------------------------------------------------------------------
(* Hubs. *)

\* ArcSwap::store, and the rcu of store_and_broadcast that refuses to go back.
Store(h, seq) ==
    hubs' = [hubs EXCEPT ![h].live = seq, ![h].high = IF seq > @ THEN seq ELSE @]
StoreMonotone(h, seq) == IF hubs[h].live > seq THEN UNCHANGED hubs ELSE Store(h, seq)

Fresh(h) == hubs[h].live # Cold

----------------------------------------------------------------------------
(* Writers: commit_event, emit_to_session, emit_via_task, real_persist; and the notifier. *)

Home(i) == IF i \in Hosts THEN i ELSE setting.script[i].on
Step(i, pc) == ann' = [ann EXCEPT ![i].pc = pc]

\* commit_event writes for a client and uses that client's hub; emit_to_session
\* clones whatever hub the map holds, before its transaction; a session task has
\* the hub of the client whose attach made it.
Take(k) ==
    LET e == setting.script[k] IN
    /\ ann[k] = Rest
    /\ \E h \in 0..Len(hubs) :
         /\ e.how = "ws" => \E c \in Sockets : sock[c].pc = "on" /\ sock[c].at = e.on /\ sock[c].hub = h
         /\ e.how = "emit" => h = reg[e.on]
         /\ e.how = "task" => \E c \in Sockets : sock[c].pc \in {"on", "bye", "last", "gone"}
                                                 /\ sock[c].at = e.on /\ sock[c].hub = h
         /\ ann' = [ann EXCEPT ![k].hub = h, ![k].pc = "commit"]
    /\ UNCHANGED <<elog, sent, inbox, hubs, reg, sock, pane, polling, setting>>

Committed(i) ==
    /\ ann[i].pc = "commit"
    /\ elog' = Append(elog, i)
    /\ ann' = [ann EXCEPT ![i].n = Len(elog) + 1,
                          ![i].pc = IF setting.script[i].how = "ws" THEN "store" ELSE "notify"]
    /\ UNCHANGED <<sent, inbox, hubs, reg, sock, pane, polling, setting>>

\* notify_session reaches every other listener that is connected, in this order.
Notify(i) ==
    /\ ann[i].pc = "notify" /\ setting.script[i].how = "emit"
    /\ inbox' = [r \in Hosts |-> IF r = Home(i) THEN inbox[r] ELSE Append(inbox[r], ann[i].n)]
    /\ Step(i, IF ann[i].hub = 0 THEN "done" ELSE "store")
    /\ UNCHANGED <<elog, sent, hubs, reg, sock, pane, polling, setting>>

\* PersistPlan's payload names no replica, and a listener drops it as malformed.
NotifyPlan(i) ==
    /\ ann[i].pc = "notify" /\ setting.script[i].how = "task"
    /\ Step(i, "tell")
    /\ UNCHANGED <<elog, sent, inbox, hubs, reg, sock, pane, polling, setting>>

StoreSnap(i) ==
    /\ ann[i].pc = "store"
    /\ StoreMonotone(ann[i].hub, ann[i].n)
    /\ Step(i, "send")
    /\ UNCHANGED <<elog, sent, inbox, reg, sock, pane, polling, setting>>

\* An open event goes through the broadcast channel to every subscriber of the
\* hub; a gated one, after a look at the roles, straight to the senders' queues.
\* Mutant: the receiver is created when the snapshot has been read.
SubscribedLate(c, h) == sock[c].hub = h /\ sock[c].pc \in {"held", "on"}

Subscribed(c, h) == sock[c].hub = h /\ sock[c].pc \in {"sub", "cold", "held", "on"}

Send(i) ==
    LET n == ann[i].n  h == ann[i].hub IN
    /\ ann[i].pc = "send"
    /\ sock' = [c \in Sockets |->
         IF KindOf(n) = "open" /\ Subscribed(c, h)
         THEN [sock[c] EXCEPT !.ring = Append(@, n)]
         ELSE IF KindOf(n) # "open" /\ c \in hubs[h].senders /\ Sees(c, n)
              THEN [sock[c] EXCEPT !.got = Append(@, n)]
              ELSE sock[c]]
    /\ sent' = sent \cup {<<n, h>>}
    /\ IF i \in Hosts THEN ann' = [ann EXCEPT ![i] = Rest] ELSE Step(i, "done")
    /\ UNCHANGED <<elog, inbox, hubs, reg, pane, polling, setting>>

\* to_ws_payload knows no message for some of the task's events.
HasMessage(n) == KindOf(n) # "silent"

\* real_persist: to every subscriber of the hub, and only then into its snapshot,
\* whatever was stored there meanwhile.
Tell(i) ==
    LET n == ann[i].n  h == ann[i].hub IN
    /\ ann[i].pc = "tell"
    /\ sock' = [c \in Sockets |-> IF HasMessage(n) /\ Subscribed(c, h)
                                  THEN [sock[c] EXCEPT !.ring = Append(@, n)] ELSE sock[c]]
    /\ sent' = sent \cup {<<n, h>>}
    /\ Step(i, "keep")
    /\ UNCHANGED <<elog, inbox, hubs, reg, pane, polling, setting>>

Keep(i) ==
    /\ ann[i].pc = "keep"
    /\ Store(ann[i].hub, ann[i].n)
    /\ Step(i, "done")
    /\ UNCHANGED <<elog, sent, inbox, reg, sock, pane, polling, setting>>

\* One listener per replica, one notification at a time; without a hub the
\* notification is dropped, with a cold one warm_snap loads and stores first.
Deliver(r) ==
    /\ inbox[r] # <<>> /\ ann[r] = Rest
    /\ inbox' = [inbox EXCEPT ![r] = Tail(@)]
    /\ LET n == Head(inbox[r])  h == reg[r] IN
       IF h = 0 THEN UNCHANGED ann
       ELSE ann' = [ann EXCEPT ![r] = [n |-> n, hub |-> h, base |-> LoadFromDb,
                                         pc |-> IF Fresh(h) THEN "store" ELSE "warm"]]
    /\ UNCHANGED <<elog, sent, hubs, reg, sock, pane, polling, setting>>

WarmSnap(i) ==
    /\ ann[i].pc = "warm"
    /\ Store(ann[i].hub, ann[i].base) /\ Step(i, "store")
    /\ UNCHANGED <<elog, sent, inbox, reg, sock, pane, polling, setting>>

----------------------------------------------------------------------------
(* A WebSocket client: handle_ws. *)

Conn(c, f) == sock' = [sock EXCEPT ![c] = f]
Spawned(c) == c \in Dashboards => pane[c].pc # "list"

GetHub(c, r) ==
    /\ sock[c].pc = "off" /\ c \in setting.sockets /\ Spawned(c)
    /\ r \in setting.hosts
    /\ IF reg[r] = 0
       THEN /\ hubs' = Append(hubs, [live |-> Cold, high |-> -1, senders |-> {}])
            /\ reg' = [reg EXCEPT ![r] = Len(hubs) + 1]
       ELSE UNCHANGED <<hubs, reg>>
    /\ Conn(c, [sock[c] EXCEPT !.pc = "hub", !.at = r, !.hub = reg'[r]])
    /\ UNCHANGED <<elog, ann, sent, inbox, pane, polling, setting>>

\* The sender and the broadcast receiver are in place before the snapshot is read.
Subscribe(c) ==
    /\ sock[c].pc = "hub"
    /\ hubs' = [hubs EXCEPT ![sock[c].hub].senders = @ \cup {c}]
    /\ Conn(c, [sock[c] EXCEPT !.pc = "sub"])
    /\ UNCHANGED <<elog, ann, sent, inbox, reg, pane, polling, setting>>

\* Hot: what the ArcSwap holds.  Cold: one row, read now and stored later.
ReadSnapshot(c) ==
    LET h == sock[c].hub IN
    /\ sock[c].pc = "sub"
    /\ Conn(c, IF Fresh(h) THEN [sock[c] EXCEPT !.pc = "held", !.base = hubs[h].live,
                                                !.stale = hubs[h].live < hubs[h].high]
               ELSE [sock[c] EXCEPT !.pc = "cold", !.base = LoadFromDb])
    /\ UNCHANGED <<server, pane, polling, setting>>

StoreCold(c) ==
    /\ sock[c].pc = "cold"
    /\ Store(sock[c].hub, sock[c].base)
    /\ Conn(c, [sock[c] EXCEPT !.pc = "held"])
    /\ UNCHANGED <<elog, ann, sent, inbox, reg, pane, polling, setting>>

\* broadcast_presence: the snapshot is read, a member is changed, the result is
\* stored whatever was stored in between.
PresenceRead(c) ==
    /\ sock[c].pc \in {"held", "bye"} /\ sock[c].held = Cold /\ Fresh(sock[c].hub)
    /\ Conn(c, [sock[c] EXCEPT !.held = hubs[sock[c].hub].live])
    /\ UNCHANGED <<server, pane, polling, setting>>

PresenceStore(c) ==
    /\ sock[c].pc \in {"held", "bye"} /\ sock[c].held # Cold
    /\ Store(sock[c].hub, sock[c].held)
    /\ Conn(c, [sock[c] EXCEPT !.held = Cold, !.pc = IF @ = "held" THEN "on" ELSE "last"])
    /\ UNCHANGED <<elog, ann, sent, inbox, reg, pane, polling, setting>>

\* bcast_task: a receiver that fell behind gets Lagged, and the loop ends.
Forward(c) ==
    /\ sock[c].pc \in {"held", "on"} /\ sock[c].ring # <<>> /\ ~sock[c].lost
    /\ Conn(c, IF Len(sock[c].ring) > BroadcastCap THEN [sock[c] EXCEPT !.lost = TRUE]
               ELSE [sock[c] EXCEPT !.ring = Tail(@), !.got = Append(@, Head(sock[c].ring))])
    /\ UNCHANGED <<server, pane, polling, setting>>

Close(c) ==
    /\ sock[c].pc = "on" /\ c \in setting.leavers
    /\ hubs' = [hubs EXCEPT ![sock[c].hub].senders = @ \ {c}]
    /\ Conn(c, [sock[c] EXCEPT !.pc = "bye", !.ring = <<>>])
    /\ UNCHANGED <<elog, ann, sent, inbox, reg, pane, polling, setting>>

\* The last sender gone takes the session's hub, whichever it is by now, out of the map.
DropHub(c) ==
    /\ sock[c].pc = "last"
    /\ reg' = IF hubs[sock[c].hub].senders = {} THEN [reg EXCEPT ![sock[c].at] = 0] ELSE reg
    /\ Conn(c, [sock[c] EXCEPT !.pc = "gone"])
    /\ UNCHANGED <<elog, ann, sent, inbox, hubs, pane, polling, setting>>

----------------------------------------------------------------------------
(* The TUI's detail view: any frame makes it fetch the session again. *)

Frames(c) == IF sock[c].pc \in {"off", "hub", "sub", "cold"} THEN 0 ELSE 1 + Len(sock[c].got)
Pane(c, f) == pane' = [pane EXCEPT ![c] = f]

\* EnterSession: the connection is spawned, then the first fetch.
EnterSession(c) ==
    /\ pane[c].pc = "list" /\ c \in setting.sockets
    /\ Pane(c, [pane[c] EXCEPT !.pc = "fetch"])
    /\ UNCHANGED <<server, sock, polling, setting>>

\* list_events without a cursor: the oldest TailLimit rows.
RefreshDetail(c) ==
    /\ pane[c].pc = "fetch"
    /\ Pane(c, [pane[c] EXCEPT !.pc = "mount",
                  !.rows = {n \in DOMAIN elog : n <= TailLimit /\ Sees(c, n)}])
    /\ UNCHANGED <<server, sock, polling, setting>>

\* Mutant: the frames that came in during the fetch are thrown away with it.
MountDraining(c) ==
    /\ pane[c].pc = "mount"
    /\ Pane(c, [pane[c] EXCEPT !.pc = "idle", !.shown = pane[c].rows, !.seen = Frames(c)])
    /\ UNCHANGED <<server, sock, polling, setting>>

Mount(c) ==
    /\ pane[c].pc = "mount"
    /\ Pane(c, [pane[c] EXCEPT !.pc = "idle", !.shown = pane[c].rows])
    /\ UNCHANGED <<server, sock, polling, setting>>

PollLive(c) ==
    /\ pane[c].pc = "idle" /\ pane[c].seen < Frames(c)
    /\ Pane(c, [pane[c] EXCEPT !.pc = "fetch", !.seen = @ + 1])
    /\ UNCHANGED <<server, sock, polling, setting>>

----------------------------------------------------------------------------
(* Polling readers. *)

Saves(w) == w \in setting.watchers   \* `sp watch`; a feed keeps its position in memory

Begin(w) ==
    /\ reader[w].pc = "off" /\ w \in setting.readers
    /\ reader' = [reader EXCEPT ![w] = [pc |-> "sleep", page |-> {}, cursor |-> IF Saves(w) THEN file ELSE 0]]
    /\ UNCHANGED <<server, sock, pane, file, printed, passedBy, kills, setting>>

\* list_events: PageLimit rows after the cursor, then those the role may not see removed.
Rows(cur)  == {n \in DOMAIN elog : n > cur /\ n <= cur + PageLimit}
Page(w, cur) == {n \in Rows(cur) : Sees(w, n)}

Poll(w) ==
    /\ reader[w].pc = "sleep"
    /\ LET page == Page(w, reader[w].cursor) IN
       /\ page # {}
       /\ reader' = [reader EXCEPT ![w].pc = "print", ![w].page = page]
    /\ passedBy' = passedBy \cup {n \in Rows(reader[w].cursor) : ~Sees(w, n)}
    /\ UNCHANGED <<server, sock, pane, file, printed, kills, setting>>

\* In order of seq.  A row the filter rejects moves the cursor like one that is printed.
PrintRow(w) ==
    /\ reader[w].pc = "print"
    /\ \E n \in reader[w].page :
         /\ \A m \in reader[w].page : n <= m
         /\ IF KindOf(n) \in setting.filter[w]
            THEN printed' = printed \cup {n} /\ UNCHANGED passedBy
            ELSE passedBy' = passedBy \cup {n} /\ UNCHANGED printed
         /\ reader' = [reader EXCEPT ![w].cursor = IF n > @ THEN n ELSE @, ![w].page = @ \ {n},
                                     ![w].pc = IF reader[w].page # {n} THEN @
                                               ELSE IF Saves(w) THEN "save" ELSE "sleep"]
    /\ UNCHANGED <<server, sock, pane, file, kills, setting>>

\* Mutant: the newest seq of the session is saved, not the last one printed.
SaveCursorHead(w) ==
    /\ reader[w].pc = "save"
    /\ file' = Len(elog)
    /\ reader' = [reader EXCEPT ![w].pc = "sleep"]
    /\ UNCHANGED <<server, sock, pane, printed, passedBy, kills, setting>>

\* save_cursor: a temporary file renamed over the old one.
SaveCursor(w) ==
    /\ reader[w].pc = "save"
    /\ file' = reader[w].cursor
    /\ reader' = [reader EXCEPT ![w].pc = "sleep"]
    /\ UNCHANGED <<server, sock, pane, printed, passedBy, kills, setting>>

\* Ctrl-C is only looked at between two polls.
Quit(w) ==
    /\ reader[w].pc = "sleep" /\ kills < setting.kills
    /\ file' = IF Saves(w) THEN reader[w].cursor ELSE file
    /\ reader' = [reader EXCEPT ![w].pc = "off"] /\ kills' = kills + 1
    /\ UNCHANGED <<server, sock, pane, printed, passedBy, setting>>

Kill(w) ==
    /\ reader[w].pc # "off" /\ kills < setting.kills
    /\ reader' = [reader EXCEPT ![w].pc = "off", ![w].page = {}] /\ kills' = kills + 1
    /\ UNCHANGED <<server, sock, pane, file, printed, passedBy, setting>>

----------------------------------------------------------------------------

Writing == \/ \E k \in DOMAIN setting.script : Take(k)
           \/ \E i \in DOMAIN ann : Committed(i) \/ StoreSnap(i) \/ Send(i) \/ Tell(i) \/ Keep(i)
                                  \/ Notify(i) \/ NotifyPlan(i) \/ WarmSnap(i)
           \/ \E r \in Hosts : Deliver(r)
Attaching == \E c \in Sockets :
               \/ \E r \in Hosts : GetHub(c, r)
               \/ Subscribe(c) \/ ReadSnapshot(c) \/ StoreCold(c) \/ PresenceRead(c) \/ PresenceStore(c)
               \/ Forward(c) \/ Close(c) \/ DropHub(c)
Dashboard == \E c \in Dashboards : EnterSession(c) \/ RefreshDetail(c) \/ Mount(c) \/ PollLive(c)
Reading == \E w \in Readers : Begin(w) \/ Poll(w) \/ PrintRow(w) \/ SaveCursor(w) \/ Quit(w) \/ Kill(w)

StreamNext == Writing \/ Attaching \/ Dashboard \/ Reading
StreamSpec == StreamInit /\ [][StreamNext]_streamVars

----------------------------------------------------------------------------
(* Properties. *)

Contents(s) == {s[i] : i \in DOMAIN s}
Reached(c) == Contents(sock[c].ring) \cup Contents(sock[c].got)
Attached(c) == sock[c].pc \in {"held", "on"} /\ ~sock[c].lost /\ ~sock[c].stale

\* From its snapshot on a socket misses nothing that was broadcast through its
\* own hub, whenever it attached: the receiver exists before the snapshot is
\* read, and a writer stores before it sends.  What breaks it in the code is
\* named: a receiver that lagged, a snapshot that an unconditional store had
\* set back when it was read, and the session task, which sends and then stores.
HandedOver ==
    \A c \in Sockets : Attached(c) =>
      \A n \in sock[c].base + 1..Len(elog) :
        <<n, sock[c].hub>> \in sent /\ KindOf(n) = "open" /\ HowOf(n) # "task" => n \in Reached(c)

\* The dashboard's lists are never older than the frames it has taken: a frame
\* taken while a fetch is under way is followed by another fetch.
PaneCurrent ==
    \A c \in Dashboards : pane[c].pc = "idle" /\ pane[c].seen > 0 =>
      LET frames == 1..sock[c].base \cup Contents(SubSeq(sock[c].got, 1, pane[c].seen - 1)) IN
      \A n \in frames : n <= TailLimit /\ Sees(c, n) => n \in pane[c].shown

\* Every event up to a reader's position, and up to the saved cursor, was
\* printed, or dropped by a filter or a role: a reader killed between two
\* prints and started again skips nothing.
CursorCovered ==
    \A cur \in {file} \cup {reader[w].cursor : w \in Readers} : 1..cur \subseteq printed \cup passedBy

\* Neither the dashboard nor a polling reader passes over an event.
NothingSkipped == PaneCurrent /\ CursorCovered

\* "Must match db::events::notify_session exactly" (persist_plan.rs): an event
\* whose writer notifies reaches the clients attached to the other replicas, once
\* the writers and the listeners have come to rest.
NotifiedAcross ==
    (\A i \in DOMAIN ann : ann[i].pc \in {"rest", "done"}) /\ (\A r \in Hosts : inbox[r] = <<>>) =>
      \A c \in Sockets : Attached(c) /\ sock[c].pc = "on" /\ reg[sock[c].at] = sock[c].hub =>
        \A n \in sock[c].base + 1..Len(elog) :
          KindOf(n) = "open" /\ HowOf(n) # "ws" /\ setting.script[elog[n]].on # sock[c].at => n \in Reached(c)
=============================================================================
