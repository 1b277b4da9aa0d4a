------------------------------ MODULE Content ------------------------------
(***************************************************************************)
(* What a session's artifacts hold and who may change it: the REST         *)
(* writers, the write proposals with their compare-and-swap commit, the    *)
(* file attestations, the copies imported from other sessions, the remote  *)
(* watermarks that read the resulting events, and the collectors that      *)
(* reclaim receipts, proposals and attestations.                           *)
(*                                                                         *)
(* Postgres runs at READ COMMITTED.  A handler is a slot of `req' between  *)
(* two of its awaits; the rows its open transaction has locked follow from *)
(* its stage.  A statement that needs a locked row waits, so it is not     *)
(* enabled; a dropped handler rolls its transaction back.  Hashes are      *)
(* sha256, taken to be injective: comparing contents is comparing hashes.  *)
(***************************************************************************)
EXTENDS Naturals, FiniteSets

CONSTANTS
  Sessions, Contents, Receipts, Requests, None,
  MaxArtifacts,  \* artifact rows a behaviour may create
  FetchLimit,    \* events one remote fetch returns at most (500 in the code)
  MaxDeliveries, \* deliveries of one bundle: the reflector may repeat one
  Scenes         \* starting points: [rows, bodies, ops, budget], a body
                 \* being [kind, art, at, before, content, claimed]

ASSUME BoundsAssumption ==
  MaxArtifacts \in Nat /\ FetchLimit \in Nat \ {0} /\ MaxDeliveries \in Nat

Artifact == [in: Sessions, ref: Contents]
Body == [kind: {"patch", "context", "malformed"}, art: Nat, at: Sessions,
         before: Contents, content: Contents, claimed: Contents]
Attestation == [mismatch: BOOLEAN, old: BOOLEAN]

ASSUME NoneAssumption == None \notin Artifact \cup Attestation

ASSUME ScenesAssumption ==
  \A c \in Scenes :
    /\ \E n \in 0..MaxArtifacts : c.rows \in [1..n -> Artifact]
    /\ c.bodies \subseteq Body
    /\ c.budget \in Nat

VARIABLES
  scene,    \* the starting point of this behaviour
  art,      \* artifacts: [in, ref] by id, None before and after its life
  born,     \* ids handed out
  receipt,  \* execution_receipts: live, used, or past the collector's limit
  prop,     \* write_proposals, by the receipt each is bound to
  attest,   \* file_write_attestations, by receipt
  imported, \* artifact_imports: [to, src, copy, ref]
  bundle,   \* artifact_import bundles: [to, src, ref, left]
  log,      \* length of each session's event log
  remote,   \* session_remotes of one local session: watermark per session
  req,      \* handlers and session tasks in flight
  left,     \* requests this behaviour may still start (a bound)
  clobbered,\* history: patches written over a content they did not expect
  told,     \* history: announcements of an import, by target and content
  removed,  \* history: import rows that cascaded away, likewise
  got,      \* history: events each remote's readers received
  lost      \* history: events whose response never arrived

vars == <<scene, art, born, receipt, prop, attest, imported, bundle, log,
          remote, req, left, clobbered, told, removed, got, lost>>

Ids == 1..MaxArtifacts
Quiet == [stage |-> "free"]
NoProposal == [st |-> "none"]
Pending(r) == prop[r].st = "pending"
Resolved(r) == prop[r].st \in {"committed", "rejected"}
Exists(a) == a \in Ids /\ art[a] # None

\* Rows held FOR UPDATE by open transactions.
PropLock(r) == \E q \in Requests : req[q].stage \in {"locked", "patching"} /\ req[q].r = r
\* Mutant: commit_artifact_patch reads the artifact without FOR UPDATE.
ArtLockNone(a) == FALSE
ArtLock(a) == \E q \in Requests : req[q].stage = "patching" /\ prop[req[q].r].body.art = a

Allowed(op) == op \in scene.ops
Start(op, q) == /\ Allowed(op) /\ left > 0 /\ req[q].stage = "free"
                /\ left' = left - 1

Init ==
  /\ scene \in Scenes
  /\ art = [a \in Ids |-> IF a \in DOMAIN scene.rows THEN scene.rows[a] ELSE None]
  /\ born = Cardinality(DOMAIN scene.rows)
  /\ receipt = [r \in Receipts |-> "live"]
  /\ prop = [r \in Receipts |-> NoProposal]
  /\ attest = [r \in Receipts |-> None]
  /\ imported = {} /\ bundle = {}
  /\ log = [s \in Sessions |-> 0]
  /\ remote = [s \in Sessions |-> None]
  /\ req = [q \in Requests |-> Quiet]
  /\ left = scene.budget
  /\ clobbered = {}
  /\ told = [s \in Sessions |-> [c \in Contents |-> 0]]
  /\ removed = [s \in Sessions |-> [c \in Contents |-> 0]]
  /\ got = [s \in Sessions |-> {}]
  /\ lost = [s \in Sessions |-> {}]

Ledger == <<receipt, prop, attest, clobbered>>
Copies == <<imported, bundle, told, removed>>
Remotes == <<remote, got, lost>>
Append1(s) == log' = [log EXCEPT ![s] = @ + 1]

---------------------------------------------------------------------------
(* REST writers: one statement each, then their event. *)

CreateArtifact(s, c) ==
  /\ Allowed("create") /\ left > 0 /\ left' = left - 1
  /\ born < MaxArtifacts
  /\ born' = born + 1
  /\ art' = [art EXCEPT ![born + 1] = [in |-> s, ref |-> c]]
  /\ Append1(s)
  /\ UNCHANGED <<scene, req, Ledger, Copies, Remotes>>

\* PUT: an unconditional UPDATE, after the patch that holds the row.
UpdateArtifact(a, c) ==
  /\ Allowed("put") /\ left > 0 /\ left' = left - 1
  /\ Exists(a) /\ ~ArtLock(a)
  /\ art' = [art EXCEPT ![a].ref = c]
  /\ Append1(art[a].in)
  /\ UNCHANGED <<scene, born, req, Ledger, Copies, Remotes>>

\* DELETE, with the import rows of which it is either end.
Cascaded(a) == {i \in imported : i.src = a \/ i.copy = a}
DeleteArtifact(a) ==
  /\ Allowed("delete") /\ left > 0 /\ left' = left - 1
  /\ Exists(a) /\ ~ArtLock(a)
  /\ art' = [art EXCEPT ![a] = None]
  /\ imported' = imported \ Cascaded(a)
  /\ removed' = [s \in Sessions |-> [c \in Contents |->
       removed[s][c] + Cardinality({i \in Cascaded(a) : i.to = s /\ i.ref = c})]]
  /\ Append1(art[a].in)
  /\ UNCHANGED <<scene, born, bundle, told, req, Ledger, Remotes>>

---------------------------------------------------------------------------
(* Write proposals. *)

\* propose: the receipt exists, and one proposal per receipt.  Neither its
\* expiry nor its use is looked at.
Propose(r, b) ==
  /\ Allowed("propose") /\ left > 0 /\ left' = left - 1
  /\ receipt[r] # "gone"
  /\ prop[r] = NoProposal
  /\ prop' = [prop EXCEPT ![r] = [st |-> "pending", id |-> left, body |-> b, late |-> FALSE, n |-> 0]]
  /\ UNCHANGED <<scene, art, born, receipt, attest, clobbered, req, log, Copies, Remotes>>

Reject(r) == prop' = [prop EXCEPT ![r].st = "rejected", ![r].late = FALSE]

\* commit_handler, up to the dispatch on the effect: the row is locked, a
\* resolved proposal refused and an expired one rejected in this transaction.
LockProposal(q, r) ==
  /\ Start("commit", q)
  /\ prop[r] # NoProposal
  /\ ~PropLock(r)
  /\ CASE Resolved(r)                    -> UNCHANGED <<prop, req>>
       [] Pending(r) /\ prop[r].late     -> Reject(r) /\ UNCHANGED req
       [] Pending(r) /\ ~prop[r].late    ->
            /\ req' = [req EXCEPT ![q] = [stage |-> "locked", r |-> r, id |-> prop[r].id]]
            /\ UNCHANGED prop
  /\ UNCHANGED <<scene, art, born, receipt, attest, clobbered, log, Copies, Remotes>>

\* The checks of commit_artifact_patch on the row it has just locked.
Matches(b) ==
  /\ Exists(b.art)
  /\ art[b.art].ref = b.before
  /\ b.content = b.claimed

\* SELECT ... FOR UPDATE on the artifact, H_before and H_after; a mismatch
\* (or a payload without its fields) rolls the transaction back.
LockArtifact(q) ==
  LET r == req[q].r  b == prop[r].body IN
  /\ req[q].stage = "locked"
  /\ b.kind = "patch" => ~ArtLock(b.art)
  /\ b.kind \in {"patch", "malformed"}
  /\ req' = [req EXCEPT ![q].stage =
       IF b.kind = "patch" /\ Matches(b) THEN "patching" ELSE "mismatch"]
  /\ UNCHANGED <<scene, art, born, left, log, Ledger, Copies, Remotes>>

\* Mutant: the mark is left out of the transaction.
MarkCommittedLater(r) ==
  prop' = [prop EXCEPT ![r].n = @ + 1]

\* mark_committed; under the row lock it always finds the proposal pending.
MarkCommitted(r) ==
  prop' = [prop EXCEPT ![r].st = "committed", ![r].late = FALSE, ![r].n = @ + 1]

\* The effect, its event and the mark, in the one transaction.
CommitTx(q) ==
  LET r == req[q].r  b == prop[r].body IN
  /\ \/ req[q].stage = "patching"
     \/ req[q].stage = "locked" /\ b.kind = "context"
  /\ art' = IF b.kind = "patch" /\ Exists(b.art)
            THEN [art EXCEPT ![b.art].ref = b.content] ELSE art
  /\ clobbered' = IF b.kind = "patch" /\ (~Exists(b.art) \/ art[b.art].ref # b.before)
                  THEN clobbered \cup {r} ELSE clobbered
  /\ log' = [log EXCEPT ![b.at] = @ + 1]
  /\ MarkCommitted(r)
  /\ req' = [req EXCEPT ![q] = Quiet]
  /\ UNCHANGED <<scene, born, left, receipt, attest, Copies, Remotes>>

\* The second, separate statement of a mismatch: the rejection, unless the
\* proposal was resolved since the rollback.
RejectAfterRollback(q) ==
  LET r == req[q].r IN
  /\ req[q].stage = "mismatch" /\ ~PropLock(r)
  /\ IF Pending(r) /\ prop[r].id = req[q].id THEN Reject(r) ELSE UNCHANGED prop
  /\ req' = [req EXCEPT ![q] = Quiet]
  /\ UNCHANGED <<scene, art, born, left, log, receipt, attest, clobbered, Copies, Remotes>>

\* attest: the receipt exists; the mismatch column is computed by Postgres.
Attest(r, mismatch) ==
  /\ Allowed("attest") /\ left > 0 /\ left' = left - 1
  /\ receipt[r] # "gone" /\ attest[r] = None
  /\ attest' = [attest EXCEPT ![r] = [mismatch |-> mismatch, old |-> FALSE]]
  /\ UNCHANGED <<scene, art, born, receipt, prop, clobbered, log, req, Copies, Remotes>>

\* The invocation that owns the receipt uses it.
Consume(r) ==
  /\ Allowed("attest") /\ receipt[r] = "live"
  /\ receipt' = [receipt EXCEPT ![r] = "used"]
  /\ UNCHANGED <<scene, art, born, prop, attest, clobbered, left, log, req, Copies, Remotes>>

---------------------------------------------------------------------------
(* Time, and the collectors.  receipt_gc and proposal_gc are two loops of
   single statements; each statement is an action. *)

\* A proposal's TTL passes, or its retention once it is resolved; a receipt
\* outlives the grace after its expiry, or its retention once used; an
\* attestation outlives its retention.
ProposalAges(r) ==
  /\ prop[r] # NoProposal /\ ~prop[r].late
  /\ prop' = [prop EXCEPT ![r].late = TRUE]
  /\ UNCHANGED <<scene, art, born, receipt, attest, clobbered, left, log, req, Copies, Remotes>>
ReceiptAges(r) ==
  /\ Allowed("gc")
  /\ receipt[r] \in {"live", "used"}
  /\ receipt' = [receipt EXCEPT ![r] = IF @ = "live" THEN "lapsed" ELSE "retired"]
  /\ UNCHANGED <<scene, art, born, prop, attest, clobbered, left, log, req, Copies, Remotes>>
AttestationAges(r) ==
  /\ Allowed("gc")
  /\ attest[r] # None /\ ~attest[r].old
  /\ attest' = [attest EXCEPT ![r].old = TRUE]
  /\ UNCHANGED <<scene, art, born, receipt, prop, clobbered, left, log, req, Copies, Remotes>>

Overdue == {r \in Receipts : Pending(r) /\ prop[r].late}

\* Mutant: the comparison with NOW() is the wrong way round.
CompactExpiredEarly ==
  LET fresh == {r \in Receipts : Pending(r) /\ ~prop[r].late} IN
  /\ fresh # {}
  /\ \A r \in fresh : ~PropLock(r)
  /\ prop' = [r \in Receipts |-> IF r \in fresh
                THEN [prop[r] EXCEPT !.st = "rejected"] ELSE prop[r]]
  /\ UNCHANGED <<scene, art, born, receipt, attest, clobbered, left, log, req, Copies, Remotes>>

\* proposals::compact_expired
CompactExpired ==
  /\ Overdue # {}
  /\ \A r \in Overdue : ~PropLock(r)
  /\ prop' = [r \in Receipts |-> IF r \in Overdue
                THEN [prop[r] EXCEPT !.st = "rejected", !.late = FALSE] ELSE prop[r]]
  /\ UNCHANGED <<scene, art, born, receipt, attest, clobbered, left, log, req, Copies, Remotes>>

\* proposals::compact_resolved
CompactResolved ==
  LET old == {r \in Receipts : Resolved(r) /\ prop[r].late} IN
  /\ Allowed("gc") /\ old # {}
  /\ \A r \in old : ~PropLock(r)
  /\ prop' = [r \in Receipts |-> IF r \in old THEN NoProposal ELSE prop[r]]
  /\ UNCHANGED <<scene, art, born, receipt, attest, clobbered, left, log, req, Copies, Remotes>>

\* compact_attestations: mismatches stay.
CompactAttestations ==
  LET old == {r \in Receipts : attest[r] # None /\ attest[r].old /\ ~attest[r].mismatch} IN
  /\ old # {}
  /\ attest' = [r \in Receipts |-> IF r \in old THEN None ELSE attest[r]]
  /\ UNCHANGED <<scene, art, born, receipt, prop, clobbered, left, log, req, Copies, Remotes>>

\* receipts::compact_expired (victims "lapsed") and compact_consumed
\* ("retired"): one DELETE that takes the proposals with it, and that fails
\* whole while an attestation refers to one of its receipts.
CompactReceipts(which) ==
  LET old == {r \in Receipts : receipt[r] = which} IN
  /\ old # {}
  /\ \A r \in old : attest[r] = None /\ ~PropLock(r)
  /\ receipt' = [r \in Receipts |-> IF r \in old THEN "gone" ELSE receipt[r]]
  /\ prop' = [r \in Receipts |-> IF r \in old THEN NoProposal ELSE prop[r]]
  /\ UNCHANGED <<scene, art, born, attest, clobbered, left, log, req, Copies, Remotes>>

---------------------------------------------------------------------------
(* Imports. *)

\* import_artifact, up to the awaits after it read the source.
ImportRead(q, a, t) ==
  /\ Start("import", q)
  /\ Exists(a) /\ art[a].in # t
  /\ req' = [req EXCEPT ![q] = [stage |-> "source", src |-> a, to |-> t, ref |-> art[a].ref]]
  /\ UNCHANGED <<scene, art, born, log, Ledger, Copies, Remotes>>

\* The scan of the target's artifacts, and the bundle unless one has the
\* content already.
ImportDispatch(q) ==
  LET i == req[q] IN
  /\ i.stage = "source"
  /\ bundle' = IF \E a \in Ids : art[a] = [in |-> i.to, ref |-> i.ref] THEN bundle
               ELSE bundle \cup {[to |-> i.to, src |-> i.src, ref |-> i.ref,
                                  by |-> q, left |-> MaxDeliveries]}
  /\ req' = [req EXCEPT ![q] = Quiet]
  /\ UNCHANGED <<scene, art, born, left, log, imported, told, removed, Ledger, Remotes>>

\* CrossSessionArtifactImportReceived in a task of the target: the copy first.
\* The reflector delivers at least once, and two replicas may run a task.
CopyArtifact(q, b) ==
  /\ req[q].stage = "free"
  /\ b.left > 0 /\ born < MaxArtifacts
  /\ bundle' = (bundle \ {b}) \cup {[b EXCEPT !.left = @ - 1]}
  /\ born' = born + 1
  /\ art' = [art EXCEPT ![born + 1] = [in |-> b.to, ref |-> b.ref]]
  /\ req' = [req EXCEPT ![q] = [stage |-> "copied", copy |-> born + 1,
                                src |-> b.src, to |-> b.to, ref |-> b.ref]]
  /\ UNCHANGED <<scene, left, log, imported, told, removed, Ledger, Remotes>>

\* artifact_imports::insert: both ends must exist, and the target must not
\* have an import of this content; otherwise the copy stays, unannounced.
RecordImport(q) ==
  LET i == req[q]
      fits == /\ Exists(i.src) /\ Exists(i.copy)
              /\ ~\E j \in imported : j.to = i.to /\ j.ref = i.ref IN
  /\ i.stage = "copied"
  /\ imported' = IF fits THEN imported \cup {[to |-> i.to, src |-> i.src,
                                              copy |-> i.copy, ref |-> i.ref]}
                 ELSE imported
  /\ req' = [req EXCEPT ![q] = IF fits THEN [i EXCEPT !.stage = "recorded"] ELSE Quiet]
  /\ UNCHANGED <<scene, art, born, left, log, bundle, told, removed, Ledger, Remotes>>

\* ArtifactCreated and the audit note.
AnnounceImport(q) ==
  LET i == req[q] IN
  /\ i.stage = "recorded"
  /\ told' = [told EXCEPT ![i.to][i.ref] = @ + 1]
  /\ log' = [log EXCEPT ![i.to] = @ + 2]
  /\ req' = [req EXCEPT ![q] = Quiet]
  /\ UNCHANGED <<scene, art, born, left, imported, bundle, removed, Ledger, Remotes>>

---------------------------------------------------------------------------
(* Session remotes. *)

\* add_remote is idempotent per pair; remove_remote drops the watermark.
AddRemote(s) ==
  /\ Allowed("remote") /\ left > 0 /\ left' = left - 1
  /\ remote[s] = None
  /\ remote' = [remote EXCEPT ![s] = [id |-> left, seq |-> 0]]
  /\ UNCHANGED <<scene, art, born, req, log, got, lost, Ledger, Copies>>
RemoveRemote(s) ==
  /\ Allowed("remote") /\ left > 0 /\ left' = left - 1
  /\ remote[s] # None
  /\ remote' = [remote EXCEPT ![s] = None]
  /\ got' = [got EXCEPT ![s] = {}] /\ lost' = [lost EXCEPT ![s] = {}]
  /\ UNCHANGED <<scene, art, born, req, log, Ledger, Copies>>

\* fetch_remote reads the row, then the events after its watermark.
FetchRemote(q, s) ==
  /\ Start("remote", q)
  /\ remote[s] # None
  /\ req' = [req EXCEPT ![q] = [stage |-> "row", s |-> s, id |-> remote[s].id,
                                from |-> remote[s].seq]]
  /\ UNCHANGED <<scene, art, born, log, Ledger, Copies, Remotes>>
ListEvents(q) ==
  LET f == req[q] IN
  /\ f.stage = "row"
  /\ req' = [req EXCEPT ![q] = [stage |-> "listed", s |-> f.s, id |-> f.id,
       events |-> {e \in (f.from + 1)..log[f.s] : e <= f.from + FetchLimit}]]
  /\ UNCHANGED <<scene, art, born, left, log, Ledger, Copies, Remotes>>

Highest(S) == CHOOSE e \in S : \A d \in S : d <= e

\* Mutant: the watermark jumps to the head of the log.
AdvancedToHead(s, events) == log[s]

\* GREATEST(last_fetched_seq, max of the events listed)
Advanced(s, events) == Highest(events \cup {remote[s].seq})

\* advance_watermark, when there were events.  A row removed since is an
\* error and nothing is returned.
AdvanceWatermark(q) ==
  LET f == req[q] IN
  /\ f.stage = "listed"
  /\ IF f.events = {} \/ remote[f.s] = None \/ remote[f.s].id # f.id
     THEN req' = [req EXCEPT ![q] = Quiet] /\ UNCHANGED remote
     ELSE /\ req' = [req EXCEPT ![q].stage = "advanced"]
          /\ remote' = [remote EXCEPT ![f.s].seq = Advanced(f.s, f.events)]
  /\ UNCHANGED <<scene, art, born, left, log, got, lost, Ledger, Copies>>

\* The response reaches the client.
Respond(q) ==
  LET f == req[q] IN
  /\ f.stage = "advanced"
  /\ got' = [got EXCEPT ![f.s] = @ \cup f.events]
  /\ req' = [req EXCEPT ![q] = Quiet]
  /\ UNCHANGED <<scene, art, born, left, log, remote, lost, Ledger, Copies>>

\* A handler or task dies: its transaction rolls back, its response is lost.
Abandon(q) ==
  LET f == req[q] IN
  /\ Allowed("abandon") /\ f.stage # "free"
  /\ lost' = IF f.stage = "advanced" THEN [lost EXCEPT ![f.s] = @ \cup f.events] ELSE lost
  /\ req' = [req EXCEPT ![q] = Quiet]
  /\ UNCHANGED <<scene, art, born, left, log, remote, got, Ledger, Copies>>

---------------------------------------------------------------------------
Writers == \/ \E s \in Sessions, c \in Contents : CreateArtifact(s, c)
           \/ \E a \in Ids, c \in Contents : UpdateArtifact(a, c)
           \/ \E a \in Ids : DeleteArtifact(a)
Proposing == \/ \E r \in Receipts, b \in scene.bodies : Propose(r, b)
             \/ \E r \in Receipts, m \in BOOLEAN : Attest(r, m)
             \/ \E r \in Receipts : Consume(r)
             \/ \E q \in Requests, r \in Receipts : LockProposal(q, r)
Committing(q) == LockArtifact(q) \/ CommitTx(q) \/ RejectAfterRollback(q)
Aging == \E r \in Receipts : ProposalAges(r) \/ ReceiptAges(r) \/ AttestationAges(r)
Collecting == \/ CompactResolved \/ CompactAttestations
              \/ \E w \in {"lapsed", "retired"} : CompactReceipts(w)
Importing(q) == \/ \E a \in Ids, t \in Sessions : ImportRead(q, a, t)
                \/ \E b \in bundle : CopyArtifact(q, b)
                \/ ImportDispatch(q) \/ RecordImport(q) \/ AnnounceImport(q)
Fetching(q) == \/ \E s \in Sessions : FetchRemote(q, s)
               \/ ListEvents(q) \/ AdvanceWatermark(q) \/ Respond(q)

Next == \/ Writers \/ Proposing \/ Aging \/ CompactExpired \/ Collecting
        \/ \E s \in Sessions : AddRemote(s) \/ RemoveRemote(s)
        \/ \E q \in Requests : Committing(q) \/ Importing(q) \/ Fetching(q) \/ Abandon(q)

Spec == Init /\ [][Next]_vars

\* Handlers run, and the hourly collector comes round.
FairSpec == /\ Spec
            /\ WF_vars(CompactExpired)
            /\ \A q \in Requests : WF_vars(Committing(q))

---------------------------------------------------------------------------
\* Type correctness, the references between the tables included: proposals
\* and attestations only of receipts that exist, import rows only between
\* artifacts that exist, one per target and content.
ContentTypeOK ==
  /\ \A a \in Ids : art[a] = None \/ (art[a].in \in Sessions /\ art[a].ref \in Contents /\ a <= born)
  /\ \A r \in Receipts : receipt[r] = "gone" => prop[r] = NoProposal /\ attest[r] = None
  /\ \A i, j \in imported : /\ Exists(i.src) /\ Exists(i.copy)
                            /\ i # j => <<i.to, i.ref>> # <<j.to, j.ref>>
  /\ \A q \in Requests : req[q].stage \in {"locked", "patching"} =>
       Pending(req[q].r) /\ prop[req[q].r].id = req[q].id
  /\ \A q, p \in Requests : req[q].stage = "patching" /\ req[p].stage = "patching" /\ p # q =>
       prop[req[q].r].body.art # prop[req[p].r].body.art

\* commit_artifact_patch: a patch is only ever written over the very content
\* its proposer had seen, whatever PUTs, deletions and other commits run
\* between the comparison and the commit.
PatchOverExpected == clobbered = {}

\* get_for_commit, mark_committed and the rejection outside the transaction:
\* a proposal has its effect exactly once if it is committed and never
\* otherwise, with any number of commit requests, crashes and collectors.
EffectExactlyOnce ==
  \A r \in Receipts : prop[r] # NoProposal =>
     prop[r].n = IF prop[r].st = "committed" THEN 1 ELSE 0

\* gc.rs: mismatch rows are never deleted, and neither is their receipt.
MismatchKept ==
  [][\A r \in Receipts : attest[r] # None /\ attest[r].mismatch =>
       attest'[r] # None /\ attest'[r].mismatch /\ receipt'[r] # "gone"]_vars

\* artifact_imports: however often a bundle is delivered and however many
\* imports race, a target announces a content once, and once more only for
\* each time a deletion took the import row away.
AnnouncedOnce ==
  \A s \in Sessions, c \in Contents : told[s][c] <= 1 + removed[s][c]

\* fetch_remote: racing fetches repeat events but never skip one; an event
\* below the watermark was received, is on its way, or its response was lost.
RemoteNoGap ==
  \A s \in Sessions : remote[s] # None =>
    \A e \in 1..remote[s].seq :
      \/ e \in got[s] \cup lost[s]
      \/ \E q \in Requests : req[q].stage = "advanced" /\ req[q].s = s /\ e \in req[q].events

\* compact_expired: a proposal whose TTL has passed does not stay pending.
OverdueSettles == \A r \in Receipts : (r \in Overdue) ~> (r \notin Overdue)

=============================================================================
