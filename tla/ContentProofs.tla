---------------------------- MODULE ContentProofs ----------------------------
(***************************************************************************)
(* For any artifacts, proposals, handlers and remotes: a patch is written  *)
(* only over the content its proposer saw, a proposal has its effect once  *)
(* if it is committed and never otherwise, a fetch of a remote skips no    *)
(* event, and a mismatch that was attested is kept.                        *)
(***************************************************************************)
EXTENDS Content, FiniteSetTheorems, TLAPS

-----------------------------------------------------------------------------
(* The inductive invariant.                                                 *)

Proposal == [st: {"pending", "committed", "rejected"}, id: Nat, body: Body,
             late: BOOLEAN, n: {0, 1}]
Import == [to: Sessions, src: Ids, copy: Ids, ref: Contents]
Bundle == [to: Sessions, src: Ids, ref: Contents, by: Requests, left: Nat]
Remote == [id: Nat, seq: Nat]

Locking  == [stage: {"locked", "mismatch", "patching"}, r: Receipts, id: Nat]
Reading  == [stage: {"source"}, src: Ids, to: Sessions, ref: Contents]
Copying  == [stage: {"copied", "recorded"}, copy: Ids, src: Ids, to: Sessions, ref: Contents]
Asking   == [stage: {"row"}, s: Sessions, id: Nat, from: Nat]
Listing  == [stage: {"listed", "advanced"}, s: Sessions, id: Nat, events: SUBSET Nat]
Handler  == {Quiet} \cup Locking \cup Reading \cup Copying \cup Asking \cup Listing

RowsOK ==
  /\ scene \in Scenes /\ left \in Nat /\ born \in Nat
  /\ art \in [Ids -> Artifact \cup {None}]
  /\ \A a \in Ids : art[a] # None => a <= born
  /\ imported \subseteq Import
  /\ bundle \subseteq Bundle
  /\ log \in [Sessions -> Nat]
LedgerOK ==
  /\ receipt \in [Receipts -> {"live", "used", "lapsed", "retired", "gone"}]
  /\ prop \in [Receipts -> Proposal \cup {NoProposal}]
  /\ attest \in [Receipts -> Attestation \cup {None}]
RemotesOK ==
  /\ remote \in [Sessions -> Remote \cup {None}]
  /\ got \in [Sessions -> SUBSET Nat]
  /\ lost \in [Sessions -> SUBSET Nat]
HandlersOK == req \in [Requests -> Handler]

TypeInv == RowsOK /\ LedgerOK /\ RemotesOK /\ HandlersOK

\* A receipt is collected with its proposal, and never before its attestation.
CollectedWhole == \A r \in Receipts : receipt[r] = "gone" => prop[r] = NoProposal /\ attest[r] = None

\* A proposal's row is locked by one transaction, and is pending while it is.
Holds(q, r) == req[q].stage \in {"locked", "patching"} /\ req[q].r = r
LockedOnce ==
  \A q \in Requests : req[q].stage \in {"locked", "patching"} =>
    /\ Pending(req[q].r) /\ prop[req[q].r].id = req[q].id
    /\ \A p \in Requests : Holds(p, req[q].r) => p = q

\* Between the comparison and the commit the artifact's row is locked by one
\* transaction, and holds what was compared.
Compared ==
  \A q \in Requests : req[q].stage = "patching" =>
    LET b == prop[req[q].r].body IN
    /\ b.kind = "patch" /\ Exists(b.art) /\ art[b.art].ref = b.before
    /\ \A p \in Requests : req[p].stage = "patching" /\ prop[req[p].r].body.art = b.art => p = q

\* A fetch that began from a row begins at or below its watermark, as long as
\* the row is there, and lists a run of events.
Same(q) == remote[req[q].s] # None /\ remote[req[q].s].id = req[q].id
FetchSound(q) ==
  /\ req[q].stage \in {"row", "listed"} => req[q].id > left
  /\ req[q].stage = "row" /\ Same(q) => req[q].from <= remote[req[q].s].seq
  /\ req[q].stage = "listed" => \E k, m \in 0..log[req[q].s] :
       /\ req[q].events = (k + 1)..m
       /\ Same(q) => k <= remote[req[q].s].seq
Fetches ==
  /\ \A s \in Sessions : remote[s] # None => remote[s].id > left
  /\ \A q \in Requests : FetchSound(q)

\* Import rows are between artifacts that exist, one per target and content.
ImportsSound ==
  \A i, j \in imported : /\ Exists(i.src) /\ Exists(i.copy)
                         /\ i # j => <<i.to, i.ref>> # <<j.to, j.ref>>

LedgerInv == CollectedWhole /\ LockedOnce /\ Compared /\ PatchOverExpected /\ EffectExactlyOnce
RemoteInv == Fetches /\ RemoteNoGap

IInv == TypeInv /\ LedgerInv /\ RemoteInv /\ ImportsSound

-----------------------------------------------------------------------------
(* What a step that does not touch a part leaves true.                      *)

Fetcher(h) == h.stage \in {"row", "listed", "advanced"}

LEMMA HandlerShape ==
  ASSUME NEW h \in Handler
  PROVE  /\ h.stage \in {"locked", "mismatch", "patching"} => h \in Locking
         /\ h.stage = "source" => h \in Reading
         /\ h.stage \in {"copied", "recorded"} => h \in Copying
         /\ h.stage = "row" => h \in Asking
         /\ h.stage \in {"listed", "advanced"} => h \in Listing
<1>1. CASE h = Quiet
  BY <1>1 DEF Quiet
<1>2. CASE h \in Locking
  BY <1>2 DEF Locking
<1>3. CASE h \in Reading
  BY <1>3 DEF Reading
<1>4. CASE h \in Copying
  BY <1>4 DEF Copying
<1>5. CASE h \in Asking
  BY <1>5 DEF Asking
<1>6. CASE h \in Listing
  BY <1>6 DEF Listing
<1>7. QED
  BY <1>1, <1>2, <1>3, <1>4, <1>5, <1>6 DEF Handler

\* The locks, when no handler takes one and no locked artifact changes.
LEMMA LedgerKept ==
  ASSUME TypeInv, LedgerInv, UNCHANGED Ledger,
         \A a \in Ids : Exists(a) => art'[a] = art[a],
         \A q \in Requests : req'[q].stage \in {"locked", "patching"} => req'[q] = req[q]
  PROVE  LedgerInv'
<1> USE DEF Ledger, LedgerInv
<1>1. CollectedWhole' /\ PatchOverExpected' /\ EffectExactlyOnce'
  BY DEF CollectedWhole, PatchOverExpected, EffectExactlyOnce
<1>2. LockedOnce'
  BY DEF LockedOnce, Holds, Pending
<1>3. Compared'
  BY DEF Compared, Exists
<1>4. QED
  BY <1>1, <1>2, <1>3

\* The fetches, when the step is not one of theirs.
LEMMA FetchesKept ==
  ASSUME TypeInv, RemoteInv, UNCHANGED Remotes,
         left' \in Nat, left' <= left,
         \A s \in Sessions : log'[s] \in Nat /\ log'[s] >= log[s],
         \A q \in Requests : Fetcher(req[q]) \/ Fetcher(req'[q]) => req'[q] = req[q]
  PROVE  RemoteInv'
<1> USE DEF Remotes, RemoteInv
<1>1. RemoteNoGap'
  BY DEF RemoteNoGap, Fetcher
<1>2. ASSUME NEW q \in Requests PROVE FetchSound(q)'
  <2>1. CASE req'[q].stage \in {"row", "listed"}
    <3>1. req'[q] = req[q] /\ req[q].s \in Sessions /\ req[q].id \in Nat
      BY <2>1, HandlerShape DEF TypeInv, HandlersOK, Asking, Listing, Fetcher
    <3>2. FetchSound(q)
      BY DEF Fetches
    <3>3. log[req[q].s] \in Nat
      BY <3>1 DEF TypeInv, RowsOK
    <3>4. 0..log[req[q].s] \subseteq 0..log'[req[q].s]
      BY <3>1, <3>3
    <3>5. Same(q)' <=> Same(q)
      BY <3>1 DEF Same
    <3>6. req[q].id > left'
      BY <2>1, <3>1, <3>2 DEF FetchSound, TypeInv, RowsOK
    <3>7. QED
      BY <2>1, <3>1, <3>2, <3>4, <3>5, <3>6 DEF FetchSound
  <2>2. CASE req'[q].stage \notin {"row", "listed"}
    BY <2>2 DEF FetchSound
  <2>3. QED
    BY <2>1, <2>2
<1>3. ASSUME NEW s \in Sessions, remote'[s] # None PROVE remote'[s].id > left'
  BY <1>3 DEF Fetches, TypeInv, RowsOK, RemotesOK, Remote
<1>4. QED
  BY <1>1, <1>2, <1>3 DEF Fetches

\* The import rows, when no artifact goes.
LEMMA ImportsKept ==
  ASSUME TypeInv, ImportsSound, imported' \subseteq imported,
         \A i \in imported' : \A a \in {i.src, i.copy} : Exists(a) => art'[a] # None
  PROVE  ImportsSound'
BY DEF ImportsSound, Exists

-----------------------------------------------------------------------------
(* The REST writers.                                                        *)

LEMMA CreateStep ==
  ASSUME IInv, NEW s \in Sessions, NEW c \in Contents, CreateArtifact(s, c)
  PROVE  IInv'
<1> USE DEF IInv, CreateArtifact, Append1, Ledger, Copies, Remotes
<1>1. TypeInv'
  BY BoundsAssumption DEF TypeInv, RowsOK, LedgerOK, RemotesOK, HandlersOK, Artifact, Ids
<1>2. LedgerInv'
  BY LedgerKept DEF TypeInv, RowsOK, HandlersOK, Exists, Ids, Ledger
<1>3. RemoteInv'
  BY FetchesKept DEF TypeInv, RowsOK, HandlersOK, Fetcher, Remotes
<1>4. ImportsSound'
  BY ImportsKept DEF TypeInv, RowsOK, Import, Exists, Copies, Ids
<1>5. QED
  BY <1>1, <1>2, <1>3, <1>4

LEMMA UpdateStep ==
  ASSUME IInv, NEW a \in Ids, NEW c \in Contents, UpdateArtifact(a, c)
  PROVE  IInv'
<1> USE DEF IInv, UpdateArtifact, Append1, Ledger, Copies, Remotes
<1>1. TypeInv'
  BY DEF TypeInv, RowsOK, LedgerOK, RemotesOK, HandlersOK, Artifact, Exists
<1>2. LedgerInv'
  <2>1. CollectedWhole' /\ PatchOverExpected' /\ EffectExactlyOnce'
    BY DEF LedgerInv, CollectedWhole, PatchOverExpected, EffectExactlyOnce
  <2>2. LockedOnce'
    BY SMTT(40) DEF LedgerInv, LockedOnce, Holds, Pending
  <2>3. Compared'
    BY DEF LedgerInv, Compared, Exists, ArtLock, TypeInv, RowsOK
  <2>4. QED
    BY <2>1, <2>2, <2>3 DEF LedgerInv
<1>3. RemoteInv'
  BY FetchesKept DEF TypeInv, RowsOK, HandlersOK, Fetcher, Remotes, Exists, Artifact
<1>4. ImportsSound'
  BY NoneAssumption, ImportsKept DEF Exists, TypeInv, RowsOK, Artifact, Import
<1>5. QED
  BY <1>1, <1>2, <1>3, <1>4

LEMMA DeleteStep ==
  ASSUME IInv, NEW a \in Ids, DeleteArtifact(a)
  PROVE  IInv'
<1> USE DEF IInv, DeleteArtifact, Append1, Ledger, Copies, Remotes
<1>1. TypeInv'
  BY DEF TypeInv, RowsOK, LedgerOK, RemotesOK, HandlersOK, Artifact, Exists
<1>2. LedgerInv'
  <2>1. CollectedWhole' /\ PatchOverExpected' /\ EffectExactlyOnce'
    BY DEF LedgerInv, CollectedWhole, PatchOverExpected, EffectExactlyOnce
  <2>2. LockedOnce'
    BY SMTT(40) DEF LedgerInv, LockedOnce, Holds, Pending
  <2>3. Compared'
    BY DEF LedgerInv, Compared, Exists, ArtLock, TypeInv, RowsOK
  <2>4. QED
    BY <2>1, <2>2, <2>3 DEF LedgerInv
<1>3. RemoteInv'
  BY FetchesKept DEF TypeInv, RowsOK, HandlersOK, Fetcher, Remotes, Exists, Artifact
<1>4. ImportsSound'
  BY ImportsKept DEF TypeInv, RowsOK, Import, Exists, Cascaded
<1>5. QED
  BY <1>1, <1>2, <1>3, <1>4


-----------------------------------------------------------------------------
(* The proposals.                                                           *)

Aged(p) == [p EXCEPT !.late = TRUE]
Settled(p) == [p EXCEPT !.st = "rejected", !.late = FALSE]

LEMMA NewProposal ==
  ASSUME NEW b \in Body, NEW n \in Nat
  PROVE  [st |-> "pending", id |-> n, body |-> b, late |-> FALSE, n |-> 0] \in Proposal
BY DEF Proposal

LEMMA ProposalUpdates ==
  ASSUME NEW p \in Proposal
  PROVE  /\ p # NoProposal
         /\ Aged(p) \in Proposal /\ Settled(p) \in Proposal
         /\ Aged(p).st = p.st /\ Aged(p).id = p.id /\ Aged(p).body = p.body /\ Aged(p).n = p.n
         /\ Settled(p).st = "rejected" /\ Settled(p).n = p.n
<1>1. p # NoProposal
  BY DEF Proposal, NoProposal
<1>2. Aged(p) \in Proposal /\ Settled(p) \in Proposal
  BY DEF Proposal, Aged, Settled
<1>3. Aged(p).st = p.st /\ Aged(p).id = p.id /\ Aged(p).body = p.body /\ Aged(p).n = p.n
  BY DEF Proposal, Aged
<1>4. Settled(p).st = "rejected" /\ Settled(p).n = p.n
  BY DEF Proposal, Settled
<1>5. QED
  BY <1>1, <1>2, <1>3, <1>4

\* What may become of a proposal without a commit: it ages, and while no
\* transaction holds it, it goes, is settled, or is new.
Uncommitted(r) ==
  \/ prop'[r] = prop[r]
  \/ prop[r] \in Proposal /\ prop'[r] = Aged(prop[r])
  \/ /\ ~PropLock(r)
     /\ \/ prop'[r] = NoProposal
        \/ prop[r] \in Proposal /\ Pending(r) /\ prop'[r] = Settled(prop[r])
        \/ prop'[r] \in Proposal /\ prop'[r].st = "pending" /\ prop'[r].n = 0

LEMMA LockedPending ==
  ASSUME TypeInv, LedgerInv, NEW r \in Receipts, PropLock(r)
  PROVE  prop[r] \in Proposal /\ Pending(r)
<1>1. Pending(r)
  BY DEF LedgerInv, LockedOnce, PropLock
<1>2. QED
  BY <1>1 DEF TypeInv, LedgerOK, Pending, NoProposal

LEMMA ProposalsKept ==
  ASSUME TypeInv, LedgerInv, UNCHANGED <<art, clobbered>>,
         \A q \in Requests : req'[q].stage \in {"locked", "patching"} => req'[q] = req[q],
         \A r \in Receipts : Uncommitted(r), CollectedWhole'
  PROVE  LedgerInv'
<1>1. ASSUME NEW r \in Receipts, PropLock(r)
      PROVE  prop'[r].st = prop[r].st /\ prop'[r].id = prop[r].id /\ prop'[r].body = prop[r].body
  BY <1>1, ProposalUpdates DEF Uncommitted
<1>2. ASSUME NEW q \in Requests, req[q].stage \in {"locked", "patching"}
      PROVE  req[q].r \in Receipts /\ PropLock(req[q].r)
  BY <1>2, HandlerShape DEF TypeInv, HandlersOK, Locking, PropLock
<1>3. LockedOnce'
  BY <1>1, <1>2 DEF LedgerInv, LockedOnce, Holds, Pending
<1>4. Compared'
  BY SMTT(40), <1>1, <1>2 DEF LedgerInv, Compared, Exists
<1>5. PatchOverExpected'
  BY DEF LedgerInv, PatchOverExpected
<1>6. EffectExactlyOnce'
  <2> SUFFICES ASSUME NEW r \in Receipts, prop'[r] # NoProposal
               PROVE  prop'[r].n = IF prop'[r].st = "committed" THEN 1 ELSE 0
    BY DEF EffectExactlyOnce
  <2>1. prop[r] \in Proposal => prop[r].n = IF prop[r].st = "committed" THEN 1 ELSE 0
    BY ProposalUpdates DEF LedgerInv, EffectExactlyOnce
  <2>2. prop[r] \in Proposal \cup {NoProposal}
    BY DEF TypeInv, LedgerOK
  <2>3. QED
    BY <2>1, <2>2, ProposalUpdates DEF Uncommitted, Pending
<1>7. QED
  BY <1>3, <1>4, <1>5, <1>6 DEF LedgerInv

LEMMA ProposeStep ==
  ASSUME IInv, NEW r \in Receipts, NEW b \in scene.bodies, Propose(r, b)
  PROVE  IInv'
<1> USE DEF IInv, Ledger, Copies, Remotes, Propose
<1>1. ASSUME NEW x \in Receipts PROVE Uncommitted(x)
  <2>1. CASE x = r
    <3>1. ~PropLock(r)
      BY LockedPending DEF Pending, NoProposal
    <3>2. prop'[r] = [st |-> "pending", id |-> left, body |-> b, late |-> FALSE, n |-> 0]
      BY DEF TypeInv, LedgerOK
    <3>3. b \in Body
      BY ScenesAssumption DEF TypeInv, RowsOK
    <3>4. prop'[r] \in Proposal /\ prop'[r].st = "pending" /\ prop'[r].n = 0
      BY <3>2, <3>3, NewProposal DEF TypeInv, RowsOK
    <3>5. QED
      BY <2>1, <3>1, <3>4 DEF Uncommitted
  <2>2. CASE x # r
    BY <2>2 DEF Uncommitted, TypeInv, LedgerOK
  <2>3. QED
    BY <2>1, <2>2
<1>2. prop' \in [Receipts -> Proposal \cup {NoProposal}]
  <2>1. ASSUME NEW x \in Receipts PROVE prop'[x] \in Proposal \cup {NoProposal}
    BY ZenonT(60), <1>1, ProposalUpdates DEF Uncommitted, TypeInv, LedgerOK
  <2>2. QED
    BY <2>1 DEF TypeInv, LedgerOK, Reject
<1>3. TypeInv'
  BY <1>2 DEF TypeInv, RowsOK, LedgerOK, RemotesOK, HandlersOK, Attestation, Proposal, NoProposal, PropLock
<1>4. CollectedWhole'
  BY ProposalUpdates DEF LedgerInv, CollectedWhole, TypeInv, LedgerOK, Overdue, Resolved, Pending, Proposal, NoProposal, PropLock
<1>5. LedgerInv'
  BY <1>1, <1>4, ProposalsKept
<1>6. RemoteInv'
  BY FetchesKept DEF TypeInv, RowsOK, HandlersOK, Fetcher, Remotes
<1>7. ImportsSound'
  BY ImportsKept DEF TypeInv, RowsOK, Import, Copies, Exists
<1>8. QED
  BY <1>3, <1>5, <1>6, <1>7

LEMMA AttestStep ==
  ASSUME IInv, NEW r \in Receipts, NEW m \in BOOLEAN, Attest(r, m)
  PROVE  IInv'
<1> USE DEF IInv, Ledger, Copies, Remotes, Attest
<1>1. ASSUME NEW x \in Receipts PROVE Uncommitted(x)
  BY ProposalUpdates DEF Uncommitted, Aged, Settled, TypeInv, RowsOK, LedgerOK, Pending, Resolved, NoProposal
<1>2. prop' \in [Receipts -> Proposal \cup {NoProposal}]
  <2>1. ASSUME NEW x \in Receipts PROVE prop'[x] \in Proposal \cup {NoProposal}
    BY <1>1, ProposalUpdates DEF Uncommitted, TypeInv, LedgerOK
  <2>2. QED
    BY <2>1 DEF TypeInv, LedgerOK, Reject
<1>3. TypeInv'
  BY <1>2 DEF TypeInv, RowsOK, LedgerOK, RemotesOK, HandlersOK, Attestation, NoProposal
<1>4. CollectedWhole'
  BY ProposalUpdates DEF LedgerInv, CollectedWhole, TypeInv, LedgerOK, Overdue, Resolved, Pending, NoProposal
<1>5. LedgerInv'
  BY <1>1, <1>4, ProposalsKept
<1>6. RemoteInv'
  BY FetchesKept DEF TypeInv, RowsOK, HandlersOK, Fetcher, Remotes
<1>7. ImportsSound'
  BY ImportsKept DEF TypeInv, RowsOK, Import, Copies, Exists
<1>8. QED
  BY <1>3, <1>5, <1>6, <1>7

LEMMA ConsumeStep ==
  ASSUME IInv, NEW r \in Receipts, Consume(r)
  PROVE  IInv'
<1> USE DEF IInv, Ledger, Copies, Remotes, Consume
<1>1. ASSUME NEW x \in Receipts PROVE Uncommitted(x)
  BY ProposalUpdates DEF Uncommitted, Aged, Settled, TypeInv, RowsOK, LedgerOK, Pending, Resolved, NoProposal
<1>2. prop' \in [Receipts -> Proposal \cup {NoProposal}]
  <2>1. ASSUME NEW x \in Receipts PROVE prop'[x] \in Proposal \cup {NoProposal}
    BY <1>1, ProposalUpdates DEF Uncommitted, TypeInv, LedgerOK
  <2>2. QED
    BY <2>1 DEF TypeInv, LedgerOK, Reject
<1>3. TypeInv'
  BY <1>2 DEF TypeInv, RowsOK, LedgerOK, RemotesOK, HandlersOK, Attestation, NoProposal
<1>4. CollectedWhole'
  BY ProposalUpdates DEF LedgerInv, CollectedWhole, TypeInv, LedgerOK, Overdue, Resolved, Pending, NoProposal
<1>5. LedgerInv'
  BY <1>1, <1>4, ProposalsKept
<1>6. RemoteInv'
  BY FetchesKept DEF TypeInv, RowsOK, HandlersOK, Fetcher, Remotes
<1>7. ImportsSound'
  BY ImportsKept DEF TypeInv, RowsOK, Import, Copies, Exists
<1>8. QED
  BY <1>3, <1>5, <1>6, <1>7

LEMMA ProposalAgesStep ==
  ASSUME IInv, NEW r \in Receipts, ProposalAges(r)
  PROVE  IInv'
<1> USE DEF IInv, Ledger, Copies, Remotes
<1>0. /\ prop[r] # NoProposal /\ prop' = [prop EXCEPT ![r] = Aged(prop[r])]
      /\ UNCHANGED <<scene, art, born, receipt, attest, clobbered, left, log, req, Copies, Remotes>>
  BY DEF ProposalAges, Aged
<1>1. ASSUME NEW x \in Receipts PROVE Uncommitted(x)
  BY <1>0 DEF Uncommitted, TypeInv, LedgerOK
<1>2. prop' \in [Receipts -> Proposal \cup {NoProposal}]
  <2>1. ASSUME NEW x \in Receipts PROVE prop'[x] \in Proposal \cup {NoProposal}
    BY <1>1, ProposalUpdates DEF Uncommitted, TypeInv, LedgerOK
  <2>2. QED
    BY <1>0, <2>1 DEF TypeInv, LedgerOK, Reject
<1>3. TypeInv'
  BY <1>0, <1>2 DEF TypeInv, RowsOK, LedgerOK, RemotesOK, HandlersOK, Attestation, NoProposal
<1>4. CollectedWhole'
  BY <1>0, ProposalUpdates DEF LedgerInv, CollectedWhole, TypeInv, LedgerOK, Overdue, Resolved, Pending, NoProposal
<1>5. LedgerInv'
  BY <1>0, <1>1, <1>4, ProposalsKept
<1>6. RemoteInv'
  BY <1>0, FetchesKept DEF TypeInv, RowsOK, HandlersOK, Fetcher, Remotes
<1>7. ImportsSound'
  BY <1>0, ImportsKept DEF TypeInv, RowsOK, Import, Copies, Exists
<1>8. QED
  BY <1>3, <1>5, <1>6, <1>7

LEMMA ReceiptAgesStep ==
  ASSUME IInv, NEW r \in Receipts, ReceiptAges(r) \/ AttestationAges(r)
  PROVE  IInv'
<1> USE DEF IInv, Ledger, Copies, Remotes, ReceiptAges, AttestationAges
<1>1. ASSUME NEW x \in Receipts PROVE Uncommitted(x)
  BY ProposalUpdates DEF Uncommitted, Aged, Settled, TypeInv, RowsOK, LedgerOK, Pending, Resolved, NoProposal
<1>2. prop' \in [Receipts -> Proposal \cup {NoProposal}]
  <2>1. ASSUME NEW x \in Receipts PROVE prop'[x] \in Proposal \cup {NoProposal}
    BY <1>1, ProposalUpdates DEF Uncommitted, TypeInv, LedgerOK
  <2>2. QED
    BY <2>1 DEF TypeInv, LedgerOK, Reject
<1>3. TypeInv'
  BY ZenonT(60), <1>2 DEF TypeInv, RowsOK, LedgerOK, RemotesOK, HandlersOK, Attestation, NoProposal
<1>4. CollectedWhole'
  BY ProposalUpdates DEF LedgerInv, CollectedWhole, TypeInv, LedgerOK, Overdue, Resolved, Pending, NoProposal
<1>5. LedgerInv'
  BY <1>1, <1>4, ProposalsKept
<1>6. RemoteInv'
  BY FetchesKept DEF TypeInv, RowsOK, HandlersOK, Fetcher, Remotes
<1>7. ImportsSound'
  BY ImportsKept DEF TypeInv, RowsOK, Import, Copies, Exists
<1>8. QED
  BY <1>3, <1>5, <1>6, <1>7

LEMMA CompactExpiredStep ==
  ASSUME IInv, CompactExpired
  PROVE  IInv'
<1> USE DEF IInv, Ledger, Copies, Remotes
<1>0. /\ \A r \in Overdue : ~PropLock(r)
      /\ prop' = [r \in Receipts |-> IF r \in Overdue THEN Settled(prop[r]) ELSE prop[r]]
      /\ UNCHANGED <<scene, art, born, receipt, attest, clobbered, left, log, req, Copies, Remotes>>
  BY Zenon DEF CompactExpired, Settled
<1>1. ASSUME NEW x \in Receipts PROVE Uncommitted(x)
  BY <1>0 DEF Uncommitted, Overdue, Pending, NoProposal, TypeInv, LedgerOK
<1>2. prop' \in [Receipts -> Proposal \cup {NoProposal}]
  <2>1. ASSUME NEW x \in Receipts PROVE prop'[x] \in Proposal \cup {NoProposal}
    BY <1>1, ProposalUpdates DEF Uncommitted, TypeInv, LedgerOK
  <2>2. QED
    BY <1>0, <2>1 DEF TypeInv, LedgerOK, Reject
<1>3. TypeInv'
  BY <1>0, <1>2 DEF TypeInv, RowsOK, LedgerOK, RemotesOK, HandlersOK, Attestation, Overdue, NoProposal
<1>4. CollectedWhole'
  BY <1>0, ProposalUpdates DEF LedgerInv, CollectedWhole, TypeInv, LedgerOK, Overdue, Resolved, Pending, Overdue, NoProposal
<1>5. LedgerInv'
  BY <1>0, <1>1, <1>4, ProposalsKept
<1>6. RemoteInv'
  BY <1>0, FetchesKept DEF TypeInv, RowsOK, HandlersOK, Fetcher, Remotes
<1>7. ImportsSound'
  BY <1>0, ImportsKept DEF TypeInv, RowsOK, Import, Copies, Exists
<1>8. QED
  BY <1>3, <1>5, <1>6, <1>7

LEMMA CompactResolvedStep ==
  ASSUME IInv, CompactResolved
  PROVE  IInv'
<1> USE DEF IInv, Ledger, Copies, Remotes, CompactResolved
<1>1. ASSUME NEW x \in Receipts PROVE Uncommitted(x)
  BY ProposalUpdates DEF Uncommitted, Aged, Settled, TypeInv, RowsOK, LedgerOK, Pending, Resolved, Overdue
<1>2. prop' \in [Receipts -> Proposal \cup {NoProposal}]
  <2>1. ASSUME NEW x \in Receipts PROVE prop'[x] \in Proposal \cup {NoProposal}
    BY <1>1, ProposalUpdates DEF Uncommitted, TypeInv, LedgerOK
  <2>2. QED
    BY <2>1 DEF TypeInv, LedgerOK, Reject
<1>3. TypeInv'
  BY <1>2 DEF TypeInv, RowsOK, LedgerOK, RemotesOK, HandlersOK, Attestation, Overdue
<1>4. CollectedWhole'
  BY ProposalUpdates DEF LedgerInv, CollectedWhole, TypeInv, LedgerOK, Overdue, Resolved, Pending, Overdue
<1>5. LedgerInv'
  BY <1>1, <1>4, ProposalsKept
<1>6. RemoteInv'
  BY FetchesKept DEF TypeInv, RowsOK, HandlersOK, Fetcher, Remotes
<1>7. ImportsSound'
  BY ImportsKept DEF TypeInv, RowsOK, Import, Copies, Exists
<1>8. QED
  BY <1>3, <1>5, <1>6, <1>7

LEMMA CompactAttestationsStep ==
  ASSUME IInv, CompactAttestations
  PROVE  IInv'
<1> USE DEF IInv, Ledger, Copies, Remotes, CompactAttestations
<1>1. ASSUME NEW x \in Receipts PROVE Uncommitted(x)
  BY ProposalUpdates DEF Uncommitted, Aged, Settled, TypeInv, RowsOK, LedgerOK, Pending, Resolved, Overdue
<1>2. prop' \in [Receipts -> Proposal \cup {NoProposal}]
  <2>1. ASSUME NEW x \in Receipts PROVE prop'[x] \in Proposal \cup {NoProposal}
    BY <1>1, ProposalUpdates DEF Uncommitted, TypeInv, LedgerOK
  <2>2. QED
    BY <2>1 DEF TypeInv, LedgerOK, Reject
<1>3. TypeInv'
  BY <1>2 DEF TypeInv, RowsOK, LedgerOK, RemotesOK, HandlersOK, Attestation, Overdue
<1>4. CollectedWhole'
  BY ProposalUpdates DEF LedgerInv, CollectedWhole, TypeInv, LedgerOK, Overdue, Resolved, Pending, Overdue
<1>5. LedgerInv'
  BY <1>1, <1>4, ProposalsKept
<1>6. RemoteInv'
  BY FetchesKept DEF TypeInv, RowsOK, HandlersOK, Fetcher, Remotes
<1>7. ImportsSound'
  BY ImportsKept DEF TypeInv, RowsOK, Import, Copies, Exists
<1>8. QED
  BY <1>3, <1>5, <1>6, <1>7

LEMMA CollectStep ==
  ASSUME IInv, NEW w \in {"lapsed", "retired"}, CompactReceipts(w)
  PROVE  IInv'
<1> USE DEF IInv, Ledger, Copies, Remotes, CompactReceipts
<1>1. ASSUME NEW x \in Receipts PROVE Uncommitted(x)
  BY ProposalUpdates DEF Uncommitted, Aged, Settled, TypeInv, RowsOK, LedgerOK, Pending, Resolved, NoProposal
<1>2. prop' \in [Receipts -> Proposal \cup {NoProposal}]
  <2>1. ASSUME NEW x \in Receipts PROVE prop'[x] \in Proposal \cup {NoProposal}
    BY <1>1, ProposalUpdates DEF Uncommitted, TypeInv, LedgerOK
  <2>2. QED
    BY <2>1 DEF TypeInv, LedgerOK, Reject
<1>3. TypeInv'
  BY <1>2 DEF TypeInv, RowsOK, LedgerOK, RemotesOK, HandlersOK, Attestation, NoProposal
<1>4. CollectedWhole'
  BY ProposalUpdates DEF LedgerInv, CollectedWhole, TypeInv, LedgerOK, Overdue, Resolved, Pending, NoProposal
<1>5. LedgerInv'
  BY <1>1, <1>4, ProposalsKept
<1>6. RemoteInv'
  BY FetchesKept DEF TypeInv, RowsOK, HandlersOK, Fetcher, Remotes
<1>7. ImportsSound'
  BY ImportsKept DEF TypeInv, RowsOK, Import, Copies, Exists
<1>8. QED
  BY <1>3, <1>5, <1>6, <1>7

-----------------------------------------------------------------------------
(* The commit requests.                                                     *)

LEMMA HandlerUpdates ==
  ASSUME NEW h \in Handler
  PROVE  /\ \A st \in {"patching", "mismatch"} : h.stage = "locked" =>
              LET g == [h EXCEPT !.stage = st] IN
              g \in Handler /\ g.stage = st /\ g.r = h.r /\ g.id = h.id
         /\ h.stage = "copied" => [h EXCEPT !.stage = "recorded"] \in Handler
                                  /\ [h EXCEPT !.stage = "recorded"].stage = "recorded"
         /\ h.stage = "listed" => LET g == [h EXCEPT !.stage = "advanced"] IN
              g \in Handler /\ g.stage = "advanced" /\ g.s = h.s /\ g.events = h.events
<1>1. h.stage = "locked" => h \in Locking
  BY HandlerShape
<1>2. h.stage = "copied" => h \in Copying
  BY HandlerShape
<1>3. h.stage = "listed" => h \in Listing
  BY HandlerShape
<1>4. QED
  BY <1>1, <1>2, <1>3 DEF Locking, Copying, Listing, Handler

\* The rest of an invariant step in which only the ledger and the handlers of
\* commits move.
LEMMA CommitFrame ==
  ASSUME IInv, NEW q \in Requests, ~Fetcher(req[q]), ~Fetcher(req'[q]),
         \A p \in Requests \ {q} : req'[p] = req[p],
         left' \in Nat, left' <= left,
         \A s \in Sessions : log'[s] \in Nat /\ log'[s] >= log[s],
         \A a \in Ids : Exists(a) => art'[a] # None,
         UNCHANGED <<Copies, Remotes>>
  PROVE  RemoteInv' /\ ImportsSound'
<1>1. RemoteInv'
  BY FetchesKept DEF IInv
<1>2. ImportsSound'
  BY ImportsKept DEF IInv, Copies, Exists, TypeInv, RowsOK, Import
<1>3. QED
  BY <1>1, <1>2

LEMMA LockProposalStep ==
  ASSUME IInv, NEW q \in Requests, NEW r \in Receipts, LockProposal(q, r)
  PROVE  IInv'
<1> USE DEF IInv, Ledger, Copies, Remotes
<1>0. /\ left' = left - 1 /\ left > 0 /\ req[q].stage = "free"
      /\ prop[r] \in Proposal /\ ~PropLock(r)
      /\ UNCHANGED <<scene, art, born, receipt, attest, clobbered, log, Copies, Remotes>>
  BY DEF LockProposal, Start, TypeInv, LedgerOK
<1>1. CASE UNCHANGED prop /\ req' = [req EXCEPT ![q] = [stage |-> "locked", r |-> r, id |-> prop[r].id]]
           /\ Pending(r)
  <2>1. TypeInv'
    BY <1>0, <1>1 DEF TypeInv, RowsOK, LedgerOK, RemotesOK, HandlersOK, Handler, Locking, Proposal
  <2>2. \A p \in Requests : req'[p].stage = "patching" => req'[p] = req[p] /\ p # q
    BY <1>0, <1>1 DEF TypeInv, HandlersOK
  <2>3. LockedOnce'
    BY <1>0, <1>1 DEF LedgerInv, LockedOnce, Holds, Pending, PropLock, TypeInv, HandlersOK
  <2>4. Compared'
    BY <1>0, <1>1, <2>2 DEF LedgerInv, Compared, Exists
  <2>5. LedgerInv'
    BY <1>0, <1>1, <2>3, <2>4 DEF LedgerInv, CollectedWhole, PatchOverExpected, EffectExactlyOnce
  <2>6. QED
    BY <1>0, <1>1, <2>1, <2>5, CommitFrame DEF TypeInv, RowsOK, HandlersOK, Fetcher, Exists
<1>2. CASE UNCHANGED req /\ (UNCHANGED prop \/ (Pending(r) /\ prop' = [prop EXCEPT ![r] = Settled(prop[r])]))
  <2>1. \A x \in Receipts : Uncommitted(x)
    BY <1>0, <1>2 DEF Uncommitted, TypeInv, LedgerOK
  <2>2. TypeInv'
    BY <1>0, <1>2, ProposalUpdates DEF TypeInv, RowsOK, LedgerOK, RemotesOK, HandlersOK
  <2>3. CollectedWhole'
    BY <1>0, <1>2, ProposalUpdates DEF LedgerInv, CollectedWhole, TypeInv, LedgerOK
  <2>4. LedgerInv'
    BY <1>0, <1>2, <2>1, <2>3, ProposalsKept
  <2>5. QED
    BY <1>0, <1>2, <2>2, <2>4, CommitFrame DEF TypeInv, RowsOK, HandlersOK, Fetcher, Exists
<1>3. QED
  <2>1. Reject(r) => prop' = [prop EXCEPT ![r] = Settled(prop[r])]
    BY DEF Reject, Settled, TypeInv, LedgerOK
  <2>2. prop[r].late \in BOOLEAN
    BY <1>0 DEF Proposal
  <2>3. Resolved(r) \/ Pending(r)
    BY <1>0 DEF Proposal, Resolved, Pending
  <2>4. QED
    BY <1>1, <1>2, <2>1, <2>2, <2>3 DEF LockProposal

LEMMA LockArtifactStep ==
  ASSUME IInv, NEW q \in Requests, LockArtifact(q)
  PROVE  IInv'
<1> DEFINE b == prop[req[q].r].body
<1> USE DEF IInv, Ledger, Copies, Remotes
<1>0. /\ req[q].stage = "locked" /\ req[q].r \in Receipts
      /\ b.kind = "patch" => ~ArtLock(b.art)
      /\ UNCHANGED <<scene, art, born, left, log, Ledger, Copies, Remotes>>
  BY HandlerShape DEF LockArtifact, TypeInv, HandlersOK, Locking
<1>1. PICK st \in {"patching", "mismatch"} :
        /\ req' = [req EXCEPT ![q] = [req[q] EXCEPT !.stage = st]]
        /\ st = "patching" => b.kind = "patch" /\ Matches(b)
  BY DEF LockArtifact
<1>2. /\ req'[q] \in Handler /\ req'[q].stage = st /\ req'[q].r = req[q].r /\ req'[q].id = req[q].id
      /\ \A p \in Requests \ {q} : req'[p] = req[p]
  BY ZenonT(60), <1>0, <1>1, HandlerUpdates DEF TypeInv, HandlersOK
<1>3. TypeInv'
  BY <1>0, <1>1, <1>2 DEF TypeInv, RowsOK, LedgerOK, RemotesOK, HandlersOK
<1>4. LockedOnce'
  BY <1>0, <1>2 DEF LedgerInv, LockedOnce, Holds, Pending
<1>5. Compared'
  <2>1. ASSUME NEW p \in Requests, req'[p].stage = "patching"
        PROVE  prop[req'[p].r].body.kind = "patch" /\ Exists(prop[req'[p].r].body.art)
               /\ art[prop[req'[p].r].body.art].ref = prop[req'[p].r].body.before
    BY <2>1, <1>1, <1>2 DEF LedgerInv, Compared, Matches
  <2>2. ASSUME NEW p \in Requests, req'[p].stage = "patching", NEW o \in Requests,
               req'[o].stage = "patching", prop[req'[p].r].body.art = prop[req'[o].r].body.art
        PROVE  o = p
    BY <2>2, <1>0, <1>1, <1>2 DEF LedgerInv, Compared, ArtLock
  <2>3. QED
    BY <1>0, <2>1, <2>2 DEF Compared, Exists
<1>6. LedgerInv'
  BY <1>0, <1>4, <1>5 DEF LedgerInv, CollectedWhole, PatchOverExpected, EffectExactlyOnce
<1>7. QED
  BY <1>0, <1>2, <1>3, <1>6, CommitFrame DEF TypeInv, RowsOK, HandlersOK, Fetcher, Exists

Done(p) == [p EXCEPT !.st = "committed", !.late = FALSE, !.n = p.n + 1]

\* A log never shrinks.
LEMMA LogGrows ==
  ASSUME NEW f \in [Sessions -> Nat], NEW x
  PROVE  /\ [f EXCEPT ![x] = @ + 1] \in [Sessions -> Nat]
         /\ \A s \in Sessions : [f EXCEPT ![x] = @ + 1][s] >= f[s]
<1>1. CASE x \in Sessions
  <2>1. f[x] + 1 \in Nat /\ f[x] + 1 >= f[x] /\ \A s \in Sessions : f[s] >= f[s]
    BY <1>1
  <2>2. QED
    BY <1>1, <2>1
<1>2. CASE x \notin Sessions
  <2>1. [f EXCEPT ![x] = @ + 1] = f /\ \A s \in Sessions : f[s] >= f[s]
    BY <1>2
  <2>2. QED
    BY <2>1
<1>3. QED
  BY <1>1, <1>2

LEMMA DoneOnce ==
  ASSUME NEW p \in Proposal, p.n = 0
  PROVE  Done(p) \in Proposal /\ Done(p) # NoProposal /\ Done(p).st = "committed" /\ Done(p).n = 1
<1>1. Done(p).n = 1 /\ Done(p).st = "committed"
  BY DEF Proposal, Done
<1>2. Done(p) \in Proposal
  <2>1. [p EXCEPT !.st = "committed"] \in Proposal
    BY DEF Proposal
  <2>2. [p EXCEPT !.st = "committed", !.late = FALSE] \in Proposal
    BY <2>1 DEF Proposal
  <2>3. p.n + 1 = 1
    OBVIOUS
  <2>4. QED
    BY <2>2, <2>3 DEF Proposal, Done
<1>3. QED
  BY <1>1, <1>2, ProposalUpdates

LEMMA CommitTxStep ==
  ASSUME IInv, NEW q \in Requests, CommitTx(q)
  PROVE  IInv'
<1> DEFINE r == req[q].r
           b == prop[r].body
<1> USE DEF IInv, Ledger, Copies, Remotes
<1>0. /\ req[q].stage \in {"locked", "patching"} /\ r \in Receipts
      /\ req[q].stage = "patching" \/ b.kind = "context"
  BY HandlerShape DEF CommitTx, TypeInv, HandlersOK, Locking
<1>1. Pending(r) /\ prop[r] \in Proposal /\ b \in Body /\ prop[r].n = 0
  BY SMTT(40), <1>0, ProposalUpdates DEF LedgerInv, LockedOnce, Pending, TypeInv, LedgerOK, NoProposal,
       Proposal, EffectExactlyOnce
<1>2. /\ art' = IF b.kind = "patch" /\ Exists(b.art) THEN [art EXCEPT ![b.art].ref = b.content] ELSE art
      /\ log' = [log EXCEPT ![b.at] = @ + 1]
      /\ req' = [req EXCEPT ![q] = Quiet]
      /\ UNCHANGED <<scene, born, left, receipt, attest, Copies, Remotes>>
  BY SMTT(40) DEF CommitTx
<1>3. prop' = [prop EXCEPT ![r] = Done(prop[r])]
  BY ZenonT(60), <1>0 DEF CommitTx, MarkCommitted, Done, TypeInv, LedgerOK
<1>4. clobbered' = {}
  BY <1>0 DEF CommitTx, LedgerInv, Compared, PatchOverExpected, Body
<1>5. Done(prop[r]) \in Proposal /\ Done(prop[r]).n = 1 /\ Done(prop[r]).st = "committed"
  BY SMTT(40), <1>1, DoneOnce
<1>6. /\ art' \in [Ids -> Artifact \cup {None}]
      /\ \A a \in Ids : art[a] # None <=> art'[a] # None
  BY ZenonT(60), <1>1, <1>2, NoneAssumption DEF TypeInv, RowsOK, Artifact, Exists, Body
<1>7. log' \in [Sessions -> Nat] /\ \A s \in Sessions : log'[s] >= log[s]
  <2>1. log \in [Sessions -> Nat] /\ log' = [log EXCEPT ![b.at] = @ + 1]
    BY <1>2 DEF TypeInv, RowsOK
  <2> HIDE DEF b
  <2>2. QED
    BY <2>1, LogGrows
<1>8. TypeInv'
  BY ZenonT(60), <1>0, <1>2, <1>3, <1>5, <1>6, <1>7 DEF TypeInv, RowsOK, LedgerOK, RemotesOK, HandlersOK, Handler
<1>9. CollectedWhole'
  BY <1>0, <1>1, <1>2, <1>3, ProposalUpdates DEF LedgerInv, CollectedWhole, TypeInv, LedgerOK
<1>10. ASSUME NEW p \in Requests, req'[p].stage \in {"locked", "patching"}
       PROVE  p # q /\ req'[p] = req[p] /\ req[p].r \in Receipts /\ req[p].r # r /\ prop'[req[p].r] = prop[req[p].r]
  <2>1. p # q /\ req'[p] = req[p]
    BY <1>2, <1>10 DEF TypeInv, HandlersOK, Quiet
  <2>2. req[p].r \in Receipts /\ req[p].r # r
    BY <1>0, <1>10, <2>1, HandlerShape DEF LedgerInv, LockedOnce, Holds, TypeInv, HandlersOK, Locking
  <2>3. QED
    BY <1>3, <2>1, <2>2 DEF TypeInv, LedgerOK
<1>11. LockedOnce'
  BY SMTT(40), <1>10 DEF LedgerInv, LockedOnce, Holds, Pending
<1>12. Compared'
  <2>1. ASSUME NEW p \in Requests, req'[p].stage = "patching"
        PROVE  /\ req[p].stage = "patching" /\ req'[p].r = req[p].r
               /\ prop'[req[p].r].body = prop[req[p].r].body
               /\ Exists(prop[req[p].r].body.art)
               /\ art'[prop[req[p].r].body.art] = art[prop[req[p].r].body.art]
    <3>1. p # q /\ req'[p] = req[p] /\ prop'[req[p].r] = prop[req[p].r]
      BY <1>10, <2>1
    <3>2. Exists(prop[req[p].r].body.art)
      BY <3>1, <2>1 DEF LedgerInv, Compared
    <3>3. b.kind = "patch" => prop[req[p].r].body.art # b.art
      BY <1>0, <3>1, <2>1 DEF LedgerInv, Compared
    <3>4. QED
      BY <1>2, <2>1, <3>1, <3>2, <3>3 DEF Exists, TypeInv, RowsOK
  <2> SUFFICES ASSUME NEW p \in Requests, req'[p].stage = "patching"
               PROVE  LET c == prop'[req'[p].r].body IN
                      /\ c.kind = "patch" /\ c.art \in Ids /\ art'[c.art] # None
                      /\ art'[c.art].ref = c.before
                      /\ \A o \in Requests : req'[o].stage = "patching" /\ prop'[req'[o].r].body.art = c.art => o = p
    BY Zenon DEF Compared, Exists, Ids
  <2>2. /\ prop[req[p].r].body.kind = "patch"
        /\ art[prop[req[p].r].body.art].ref = prop[req[p].r].body.before
        /\ \A o \in Requests : req[o].stage = "patching" /\ prop[req[o].r].body.art = prop[req[p].r].body.art => o = p
    BY <2>1 DEF LedgerInv, Compared
  <2>3. \A o \in Requests : req'[o].stage = "patching" =>
          req[o].stage = "patching" /\ prop'[req'[o].r].body = prop[req[o].r].body
    BY <2>1
  <2>4. prop[req[p].r].body.art \in Ids /\ art'[prop[req[p].r].body.art] # None
    BY <1>6, <2>1 DEF Exists
  <2>5. QED
    BY ZenonT(60), <2>1, <2>2, <2>3, <2>4
<1>13. EffectExactlyOnce'
  BY <1>0, <1>3, <1>5 DEF LedgerInv, EffectExactlyOnce, TypeInv, LedgerOK
<1>14. LedgerInv'
  BY <1>4, <1>9, <1>11, <1>12, <1>13 DEF LedgerInv, PatchOverExpected
<1>15. RemoteInv' /\ ImportsSound'
  <2>1. ~Fetcher(req[q]) /\ ~Fetcher(req'[q]) /\ \A p \in Requests \ {q} : req'[p] = req[p]
    BY <1>0, <1>2 DEF TypeInv, HandlersOK, Fetcher, Quiet
  <2>2. left' \in Nat /\ left' <= left /\ \A s \in Sessions : log'[s] \in Nat /\ log'[s] >= log[s]
    <3>1. left' = left /\ left \in Nat
      BY <1>2 DEF TypeInv, RowsOK
    <3>2. QED
      BY SMTT(40), <3>1, <1>7
  <2>3. \A a \in Ids : Exists(a) => art'[a] # None
    BY SMTT(40), <1>6 DEF Exists
  <2>4. UNCHANGED <<Copies, Remotes>>
    BY <1>2
  <2>5. QED
    BY <2>1, <2>2, <2>3, <2>4, CommitFrame
<1>16. QED
  BY SMTT(40), <1>8, <1>14, <1>15

LEMMA RejectStep ==
  ASSUME IInv, NEW q \in Requests, RejectAfterRollback(q)
  PROVE  IInv'
<1> DEFINE r == req[q].r
<1> USE DEF IInv, Ledger, Copies, Remotes
<1>0. /\ req[q].stage = "mismatch" /\ r \in Receipts /\ ~PropLock(r)
      /\ req' = [req EXCEPT ![q] = Quiet]
      /\ UNCHANGED <<scene, art, born, left, log, receipt, attest, clobbered, Copies, Remotes>>
  BY HandlerShape DEF RejectAfterRollback, TypeInv, HandlersOK, Locking
<1>1. UNCHANGED prop \/ (Pending(r) /\ prop[r] \in Proposal /\ prop' = [prop EXCEPT ![r] = Settled(prop[r])])
  <2>1. Pending(r) => prop[r] \in Proposal
    BY <1>0 DEF Pending, TypeInv, LedgerOK, NoProposal
  <2>2. Reject(r) => prop' = [prop EXCEPT ![r] = Settled(prop[r])]
    BY <1>0 DEF Reject, Settled, TypeInv, LedgerOK
  <2>3. QED
    BY <2>1, <2>2 DEF RejectAfterRollback
<1>2. \A x \in Receipts : Uncommitted(x)
  BY <1>0, <1>1 DEF Uncommitted, TypeInv, LedgerOK
<1>3. TypeInv'
  BY <1>0, <1>1, ProposalUpdates DEF TypeInv, RowsOK, LedgerOK, RemotesOK, HandlersOK, Handler
<1>4. CollectedWhole'
  BY <1>0, <1>1, ProposalUpdates DEF LedgerInv, CollectedWhole, TypeInv, LedgerOK
<1>5. LedgerInv'
  BY <1>0, <1>2, <1>4, ProposalsKept DEF TypeInv, HandlersOK, Quiet
<1>6. QED
  BY <1>0, <1>3, <1>5, CommitFrame DEF TypeInv, RowsOK, HandlersOK, Fetcher, Exists, Quiet

-----------------------------------------------------------------------------
(* Imports.                                                                 *)

\* A step of an import leaves the locks and the fetches as they are.
LEMMA ImportFrame ==
  ASSUME IInv, NEW q \in Requests, UNCHANGED <<Ledger, Remotes>>,
         req[q].stage \notin {"locked", "patching", "row", "listed", "advanced"},
         req'[q].stage \notin {"locked", "patching", "row", "listed", "advanced"},
         \A p \in Requests \ {q} : req'[p] = req[p],
         left' \in Nat, left' <= left,
         \A s \in Sessions : log'[s] \in Nat /\ log'[s] >= log[s],
         \A a \in Ids : Exists(a) => art'[a] = art[a]
  PROVE  LedgerInv' /\ RemoteInv'
<1>1. LedgerInv'
  BY LedgerKept DEF IInv
<1>2. RemoteInv'
  BY FetchesKept DEF IInv, Fetcher
<1>3. QED
  BY <1>1, <1>2

LEMMA ImportReadStep ==
  ASSUME IInv, NEW q \in Requests, NEW a \in Ids, NEW t \in Sessions, ImportRead(q, a, t)
  PROVE  IInv'
<1> USE DEF IInv, Ledger, Copies, Remotes
<1>1. /\ req[q].stage = "free" /\ left > 0 /\ left' = left - 1 /\ art[a] \in Artifact
      /\ req' = [req EXCEPT ![q] = [stage |-> "source", src |-> a, to |-> t, ref |-> art[a].ref]]
      /\ UNCHANGED <<scene, art, born, log, Ledger, Copies, Remotes>>
  BY DEF ImportRead, Start, Exists, TypeInv, RowsOK
<1>2. TypeInv'
  BY <1>1 DEF TypeInv, RowsOK, LedgerOK, RemotesOK, HandlersOK, Handler, Reading, Artifact
<1>3. LedgerInv' /\ RemoteInv'
  BY <1>1, ImportFrame DEF TypeInv, RowsOK, HandlersOK
<1>4. ImportsSound'
  BY <1>1 DEF ImportsSound, Exists
<1>5. QED
  BY <1>2, <1>3, <1>4

LEMMA ImportDispatchStep ==
  ASSUME IInv, NEW q \in Requests, ImportDispatch(q)
  PROVE  IInv'
<1> USE DEF IInv, Ledger, Copies, Remotes
<1>1. /\ req[q].stage = "source" /\ req[q] \in Reading /\ req' = [req EXCEPT ![q] = Quiet]
      /\ UNCHANGED <<scene, art, born, left, log, imported, Ledger, Remotes>>
  BY HandlerShape DEF ImportDispatch, TypeInv, HandlersOK
<1>2. bundle' \subseteq bundle \cup {[to |-> req[q].to, src |-> req[q].src, ref |-> req[q].ref,
                                       by |-> q, left |-> MaxDeliveries]}
  BY DEF ImportDispatch
<1>3. bundle' \subseteq Bundle
  BY <1>1, <1>2, BoundsAssumption DEF TypeInv, RowsOK, Bundle, Reading
<1>4. TypeInv'
  BY <1>1, <1>3 DEF TypeInv, RowsOK, LedgerOK, RemotesOK, HandlersOK, Handler
<1>5. LedgerInv' /\ RemoteInv'
  BY <1>1, ImportFrame DEF TypeInv, RowsOK, HandlersOK, Quiet
<1>6. ImportsSound'
  BY <1>1 DEF ImportsSound, Exists
<1>7. QED
  BY <1>4, <1>5, <1>6

LEMMA CopyStep ==
  ASSUME IInv, NEW q \in Requests, NEW b \in bundle, CopyArtifact(q, b)
  PROVE  IInv'
<1> USE DEF IInv, Ledger, Copies, Remotes
<1>1. /\ req[q].stage = "free" /\ b \in Bundle /\ b.left > 0 /\ born < MaxArtifacts
      /\ bundle' = (bundle \ {b}) \cup {[b EXCEPT !.left = @ - 1]}
      /\ born' = born + 1
      /\ art' = [art EXCEPT ![born + 1] = [in |-> b.to, ref |-> b.ref]]
      /\ req' = [req EXCEPT ![q] = [stage |-> "copied", copy |-> born + 1,
                                    src |-> b.src, to |-> b.to, ref |-> b.ref]]
      /\ UNCHANGED <<scene, left, log, imported, Ledger, Remotes>>
  BY DEF CopyArtifact, TypeInv, RowsOK
<1>2. born + 1 \in Ids /\ ~Exists(born + 1)
  BY <1>1, BoundsAssumption DEF TypeInv, RowsOK, Ids, Exists
<1>3. [b EXCEPT !.left = @ - 1] \in Bundle
  BY <1>1 DEF Bundle
<1>4. RowsOK'
  <2>1. [in |-> b.to, ref |-> b.ref] \in Artifact
    BY <1>1 DEF Bundle, Artifact
  <2>2. art' \in [Ids -> Artifact \cup {None}] /\ \A a \in Ids : art'[a] # None => a <= born'
    BY <1>1, <1>2, <2>1 DEF TypeInv, RowsOK, Ids
  <2>3. bundle' \subseteq Bundle
    BY <1>1, <1>3 DEF TypeInv, RowsOK
  <2>4. QED
    BY <1>1, <2>2, <2>3 DEF TypeInv, RowsOK
<1>5. TypeInv'
  BY <1>1, <1>2, <1>4 DEF TypeInv, LedgerOK, RemotesOK, HandlersOK, Handler, Copying, Bundle
<1>6. LedgerInv' /\ RemoteInv'
  BY <1>1, <1>2, ImportFrame DEF TypeInv, RowsOK, HandlersOK, Exists
<1>7. ImportsSound'
  BY <1>1, <1>2, ImportsKept DEF TypeInv, RowsOK, Import, Exists
<1>8. QED
  BY <1>5, <1>6, <1>7

LEMMA RecordStep ==
  ASSUME IInv, NEW q \in Requests, RecordImport(q)
  PROVE  IInv'
<1> DEFINE i == req[q]
           row == [to |-> i.to, src |-> i.src, copy |-> i.copy, ref |-> i.ref]
<1> USE DEF IInv, Ledger, Copies, Remotes
<1>1. /\ i.stage = "copied" /\ i \in Copying
      /\ UNCHANGED <<scene, art, born, left, log, bundle, Ledger, Remotes>>
  BY HandlerShape DEF RecordImport, TypeInv, HandlersOK
<1>2. row \in Import
  BY <1>1 DEF Copying, Import
<1>3. \/ /\ Exists(i.src) /\ Exists(i.copy)
         /\ \A j \in imported : ~(j.to = i.to /\ j.ref = i.ref)
         /\ imported' = imported \cup {row}
         /\ req' = [req EXCEPT ![q] = [i EXCEPT !.stage = "recorded"]]
      \/ imported' = imported /\ req' = [req EXCEPT ![q] = Quiet]
  BY DEF RecordImport
<1>4. /\ req'[q] \in Handler /\ req'[q].stage \in {"recorded", "free"}
      /\ \A p \in Requests \ {q} : req'[p] = req[p]
      /\ req' \in [Requests -> Handler]
  <2>1. /\ [i EXCEPT !.stage = "recorded"] \in Handler /\ [i EXCEPT !.stage = "recorded"].stage = "recorded"
        /\ Quiet \in Handler /\ Quiet.stage = "free"
    BY <1>1, HandlerUpdates DEF TypeInv, HandlersOK, Handler, Quiet
  <2>2. QED
    BY <1>3, <2>1 DEF TypeInv, HandlersOK
<1>5. TypeInv'
  BY <1>1, <1>2, <1>3, <1>4 DEF TypeInv, RowsOK, LedgerOK, RemotesOK, HandlersOK
<1>6. LedgerInv' /\ RemoteInv'
  BY <1>1, <1>4, ImportFrame DEF TypeInv, RowsOK
<1>7. ImportsSound'
  BY <1>1, <1>3 DEF ImportsSound, Exists
<1>8. QED
  BY <1>5, <1>6, <1>7

LEMMA AnnounceStep ==
  ASSUME IInv, NEW q \in Requests, AnnounceImport(q)
  PROVE  IInv'
<1> USE DEF IInv, Ledger, Copies, Remotes
<1>1. /\ req[q].stage = "recorded" /\ req[q].to \in Sessions
      /\ req' = [req EXCEPT ![q] = Quiet]
      /\ log' = [log EXCEPT ![req[q].to] = @ + 2]
      /\ UNCHANGED <<scene, art, born, left, imported, bundle, Ledger, Remotes>>
  BY HandlerShape DEF AnnounceImport, TypeInv, HandlersOK, Copying
<1>2. TypeInv'
  BY <1>1 DEF TypeInv, RowsOK, LedgerOK, RemotesOK, HandlersOK, Handler
<1>3. LedgerInv' /\ RemoteInv'
  BY <1>1, ImportFrame DEF TypeInv, RowsOK, HandlersOK, Quiet
<1>4. ImportsSound'
  BY <1>1 DEF ImportsSound, Exists
<1>5. QED
  BY <1>2, <1>3, <1>4

-----------------------------------------------------------------------------
(* Remotes.                                                                 *)

\* A step of a fetch leaves the ledger and the imports as they are.
LEMMA FetchFrame ==
  ASSUME IInv, UNCHANGED <<art, Ledger, Copies>>,
         \A q \in Requests : req'[q].stage \in {"locked", "patching"} => req'[q] = req[q]
  PROVE  LedgerInv' /\ ImportsSound'
<1>1. LedgerInv'
  BY LedgerKept DEF IInv
<1>2. ImportsSound'
  BY DEF IInv, Copies, ImportsSound, Exists
<1>3. QED
  BY <1>1, <1>2

LEMMA AddRemoteStep ==
  ASSUME IInv, NEW s \in Sessions, AddRemote(s)
  PROVE  IInv'
<1> USE DEF IInv, Ledger, Copies, Remotes, AddRemote
<1>1. TypeInv'
  BY DEF TypeInv, RowsOK, LedgerOK, RemotesOK, HandlersOK, Remote
<1>2. LedgerInv' /\ ImportsSound'
  BY FetchFrame
<1>3. ASSUME NEW q \in Requests PROVE FetchSound(q)'
  <2>1. FetchSound(q) /\ left' < left /\ left \in Nat /\ left' \in Nat
    BY DEF RemoteInv, Fetches, TypeInv, RowsOK
  <2>2. req[q].stage \in {"row", "listed"} => req[q].s \in Sessions /\ req[q].id \in Nat
    BY HandlerShape DEF TypeInv, HandlersOK, Asking, Listing
  <2>3. req[q].stage \in {"row", "listed"} /\ Same(q)' => Same(q) /\ remote'[req[q].s] = remote[req[q].s]
    BY <2>1, <2>2 DEF FetchSound, Same, TypeInv, RemotesOK
  <2>4. QED
    BY <2>1, <2>2, <2>3 DEF FetchSound
<1>4. \A t \in Sessions : remote'[t] # None => remote'[t].id > left'
  BY DEF RemoteInv, Fetches, TypeInv, RowsOK, RemotesOK, Remote
<1>5. RemoteNoGap'
  BY DEF RemoteInv, RemoteNoGap, TypeInv, RemotesOK, Remote
<1>6. QED
  BY <1>1, <1>2, <1>3, <1>4, <1>5 DEF RemoteInv, Fetches

LEMMA RemoveRemoteStep ==
  ASSUME IInv, NEW s \in Sessions, RemoveRemote(s)
  PROVE  IInv'
<1> USE DEF IInv, Ledger, Copies, Remotes, RemoveRemote
<1>1. TypeInv'
  BY DEF TypeInv, RowsOK, LedgerOK, RemotesOK, HandlersOK, Remote
<1>2. LedgerInv' /\ ImportsSound'
  BY FetchFrame
<1>3. ASSUME NEW q \in Requests PROVE FetchSound(q)'
  <2>1. FetchSound(q) /\ left' < left /\ left \in Nat /\ left' \in Nat
    BY DEF RemoteInv, Fetches, TypeInv, RowsOK
  <2>2. req[q].stage \in {"row", "listed"} => req[q].s \in Sessions /\ req[q].id \in Nat
    BY HandlerShape DEF TypeInv, HandlersOK, Asking, Listing
  <2>3. req[q].stage \in {"row", "listed"} /\ Same(q)' => Same(q) /\ remote'[req[q].s] = remote[req[q].s]
    BY <2>1, <2>2 DEF FetchSound, Same, TypeInv, RemotesOK
  <2>4. QED
    BY <2>1, <2>2, <2>3 DEF FetchSound
<1>4. \A t \in Sessions : remote'[t] # None => remote'[t].id > left'
  BY DEF RemoteInv, Fetches, TypeInv, RowsOK, RemotesOK, Remote
<1>5. RemoteNoGap'
  BY DEF RemoteInv, RemoteNoGap, TypeInv, RemotesOK, Remote
<1>6. QED
  BY <1>1, <1>2, <1>3, <1>4, <1>5 DEF RemoteInv, Fetches

LEMMA FetchStep ==
  ASSUME IInv, NEW q \in Requests, NEW s \in Sessions, FetchRemote(q, s)
  PROVE  IInv'
<1> USE DEF IInv, Ledger, Copies, Remotes
<1>1. /\ req[q].stage = "free" /\ left > 0 /\ left' = left - 1 /\ remote[s] \in Remote
      /\ remote[s].id > left
      /\ req' = [req EXCEPT ![q] = [stage |-> "row", s |-> s, id |-> remote[s].id,
                                    from |-> remote[s].seq]]
      /\ UNCHANGED <<scene, art, born, log, Ledger, Copies, Remotes>>
  BY DEF FetchRemote, Start, TypeInv, RemotesOK, RemoteInv, Fetches
<1>2. TypeInv'
  BY <1>1 DEF TypeInv, RowsOK, LedgerOK, RemotesOK, HandlersOK, Handler, Asking, Remote
<1>3. LedgerInv' /\ ImportsSound'
  BY <1>1, FetchFrame DEF TypeInv, HandlersOK
<1>4. ASSUME NEW p \in Requests PROVE FetchSound(p)'
  <2>1. FetchSound(p) /\ left' < left /\ left \in Nat /\ left' \in Nat
    BY <1>1 DEF RemoteInv, Fetches, TypeInv, RowsOK
  <2>2. req[p].stage \in {"row", "listed"} => req[p].s \in Sessions /\ req[p].id \in Nat
    BY HandlerShape DEF TypeInv, HandlersOK, Asking, Listing
  <2>3. CASE p = q
    BY <1>1, <2>1, <2>3 DEF FetchSound, Same, TypeInv, HandlersOK, Remote
  <2>4. CASE p # q
    BY <1>1, <2>1, <2>2, <2>4 DEF FetchSound, Same, TypeInv, HandlersOK
  <2>5. QED
    BY <2>3, <2>4
<1>5. \A t \in Sessions : remote'[t] # None => remote'[t].id > left'
  BY <1>1 DEF RemoteInv, Fetches, TypeInv, RowsOK, RemotesOK, Remote
<1>6. RemoteNoGap'
  BY <1>1 DEF RemoteInv, RemoteNoGap, TypeInv, HandlersOK
<1>7. QED
  BY <1>2, <1>3, <1>4, <1>5, <1>6 DEF RemoteInv, Fetches

\* What list_events returns is a run of the log after `from'.
LEMMA RunListed ==
  ASSUME NEW from \in Nat, NEW len \in Nat
  PROVE  \E k, m \in 0..len :
           /\ {e \in (from + 1)..len : e <= from + FetchLimit} = (k + 1)..m
           /\ k <= from
<1>1. CASE from >= len
  <2>1. {e \in (from + 1)..len : e <= from + FetchLimit} = (0 + 1)..0
    BY <1>1
  <2>2. QED
    BY <2>1
<1>2. CASE from < len /\ from + FetchLimit <= len
  <2>1. {e \in (from + 1)..len : e <= from + FetchLimit} = (from + 1)..(from + FetchLimit)
    BY <1>2, BoundsAssumption
  <2>2. from + FetchLimit \in 0..len /\ from \in 0..len
    BY <1>2, BoundsAssumption
  <2>3. QED
    BY <2>1, <2>2
<1>3. CASE from < len /\ len < from + FetchLimit
  <2>1. {e \in (from + 1)..len : e <= from + FetchLimit} = (from + 1)..len
    BY <1>3, BoundsAssumption
  <2>2. QED
    BY <1>3, <2>1
<1>4. QED
  BY <1>1, <1>2, <1>3, BoundsAssumption

LEMMA ListStep ==
  ASSUME IInv, NEW q \in Requests, ListEvents(q)
  PROVE  IInv'
<1> DEFINE f == req[q]
           events == {e \in (f.from + 1)..log[f.s] : e <= f.from + FetchLimit}
<1> USE DEF IInv, Ledger, Copies, Remotes
<1>1. /\ f.stage = "row" /\ f.s \in Sessions /\ f.id \in Nat /\ f.from \in Nat /\ log[f.s] \in Nat
      /\ req' = [req EXCEPT ![q] = [stage |-> "listed", s |-> f.s, id |-> f.id, events |-> events]]
      /\ UNCHANGED <<scene, art, born, left, log, Ledger, Copies, Remotes>>
  BY HandlerShape DEF ListEvents, TypeInv, HandlersOK, RowsOK, Asking
<1>2. PICK k, m \in 0..log[f.s] : events = (k + 1)..m /\ k <= f.from
  BY <1>1, RunListed
<1>3. TypeInv'
  <2>1. events \subseteq Nat
    BY <1>1
  <2>2. req'[q] \in Listing
    BY <1>1, <2>1 DEF Listing, TypeInv, HandlersOK
  <2>3. QED
    BY <1>1, <2>2 DEF TypeInv, RowsOK, LedgerOK, RemotesOK, HandlersOK, Handler
<1>4. LedgerInv' /\ ImportsSound'
  BY <1>1, FetchFrame DEF TypeInv, HandlersOK
<1>5. ASSUME NEW p \in Requests PROVE FetchSound(p)'
  <2>1. FetchSound(p)
    BY DEF RemoteInv, Fetches
  <2>2. CASE p = q
    <3>1. /\ req'[q].stage = "listed" /\ req'[q].s = f.s /\ req'[q].id = f.id
          /\ req'[q].events = events
      BY <1>1 DEF TypeInv, HandlersOK
    <3>2. Same(q)' => k <= remote[f.s].seq
      BY <1>1, <1>2, <2>1, <2>2, <3>1 DEF FetchSound, Same, TypeInv, RemotesOK, Remote
    <3>3. QED
      BY <1>1, <1>2, <2>1, <2>2, <3>1, <3>2 DEF FetchSound
  <2>3. CASE p # q
    BY <1>1, <2>1, <2>3 DEF FetchSound, Same, TypeInv, HandlersOK
  <2>4. QED
    BY <2>2, <2>3
<1>6. \A t \in Sessions : remote'[t] # None => remote'[t].id > left'
  BY <1>1 DEF RemoteInv, Fetches
<1>7. RemoteNoGap'
  BY <1>1 DEF RemoteInv, RemoteNoGap, TypeInv, HandlersOK
<1>8. QED
  BY <1>3, <1>4, <1>5, <1>6, <1>7 DEF RemoteInv, Fetches

\* A watermark moves to the end of the run it listed, or stays.
LEMMA HighestOfRun ==
  ASSUME NEW k \in Nat, NEW m \in Nat, NEW n \in Nat
  PROVE  Highest(((k + 1)..m) \cup {n}) = IF k < m /\ n < m THEN m ELSE n
<1> DEFINE S == ((k + 1)..m) \cup {n}
           top == IF k < m /\ n < m THEN m ELSE n
<1>1. top \in S /\ \A d \in S : d <= top
  OBVIOUS
<1>2. Highest(S) \in S /\ \A d \in S : d <= Highest(S)
  BY <1>1 DEF Highest
<1>3. Highest(S) \in Nat /\ top \in Nat /\ Highest(S) <= top /\ top <= Highest(S)
  BY <1>1, <1>2
<1>4. QED
  BY <1>3

LEMMA AdvanceStep ==
  ASSUME IInv, NEW q \in Requests, AdvanceWatermark(q)
  PROVE  IInv'
<1> DEFINE f == req[q]
<1> USE DEF IInv, Ledger, Copies, Remotes
<1>1. /\ f.stage = "listed" /\ f.s \in Sessions /\ f.id \in Nat /\ f.events \subseteq Nat
      /\ UNCHANGED <<scene, art, born, left, log, got, lost, Ledger, Copies>>
  BY HandlerShape DEF AdvanceWatermark, TypeInv, HandlersOK, Listing
<1>2. CASE req' = [req EXCEPT ![q] = Quiet] /\ UNCHANGED remote
  <2>1. TypeInv'
    BY <1>1, <1>2 DEF TypeInv, RowsOK, LedgerOK, RemotesOK, HandlersOK, Handler
  <2>2. LedgerInv' /\ ImportsSound'
    BY <1>1, <1>2, FetchFrame DEF TypeInv, HandlersOK, Quiet
  <2>3. ASSUME NEW p \in Requests PROVE FetchSound(p)'
    BY <1>1, <1>2 DEF RemoteInv, Fetches, FetchSound, Same, TypeInv, HandlersOK, Quiet
  <2>4. \A t \in Sessions : remote'[t] # None => remote'[t].id > left'
    BY <1>1, <1>2 DEF RemoteInv, Fetches
  <2>5. RemoteNoGap'
    BY <1>1, <1>2 DEF RemoteInv, RemoteNoGap, TypeInv, HandlersOK
  <2>6. QED
    BY <2>1, <2>2, <2>3, <2>4, <2>5 DEF RemoteInv, Fetches
<1>3. CASE /\ remote[f.s] # None /\ remote[f.s].id = f.id
           /\ req' = [req EXCEPT ![q] = [f EXCEPT !.stage = "advanced"]]
           /\ remote' = [remote EXCEPT ![f.s].seq = Advanced(f.s, f.events)]
  <2>1. PICK k, m \in 0..log[f.s] : f.events = (k + 1)..m /\ k <= remote[f.s].seq
    BY <1>1, <1>3 DEF RemoteInv, Fetches, FetchSound, Same
  <2> DEFINE n == remote[f.s].seq
             top == IF k < m /\ n < m THEN m ELSE n
  <2>2. k \in Nat /\ m \in Nat /\ n \in Nat /\ remote[f.s] \in Remote
    BY <1>1, <1>3, <2>1 DEF TypeInv, RemotesOK, RowsOK, Remote
  <2>3. Advanced(f.s, f.events) = top /\ top \in Nat
    BY SMTT(40), <2>1, <2>2, HighestOfRun DEF Advanced
  <2>4. /\ remote'[f.s].id = remote[f.s].id /\ remote'[f.s].seq = top
        /\ remote'[f.s] \in Remote
        /\ \A t \in Sessions \ {f.s} : remote'[t] = remote[t]
        /\ remote' \in [Sessions -> Remote \cup {None}]
    BY <1>1, <1>3, <2>2, <2>3 DEF TypeInv, RemotesOK, Remote
  <2>5. /\ req'[q] \in Handler /\ req'[q].stage = "advanced" /\ req'[q].s = f.s
        /\ req'[q].events = f.events
        /\ \A p \in Requests \ {q} : req'[p] = req[p]
        /\ req' \in [Requests -> Handler]
    BY <1>1, <1>3, HandlerUpdates DEF TypeInv, HandlersOK
  <2>6. TypeInv'
    BY <1>1, <2>4, <2>5 DEF TypeInv, RowsOK, LedgerOK, RemotesOK, HandlersOK
  <2>7. LedgerInv' /\ ImportsSound'
    BY <1>1, <2>5, FetchFrame
  <2>8. ASSUME NEW p \in Requests PROVE FetchSound(p)'
    <3>1. CASE p = q
      BY <2>5, <3>1 DEF FetchSound
    <3>2. CASE p # q
      <4>1. FetchSound(p) /\ req'[p] = req[p]
        BY SMTT(40), <2>5, <3>2 DEF RemoteInv, Fetches
      <4>2. req[p].stage \in {"row", "listed"} =>
              /\ req[p].s \in Sessions /\ (Same(p)' => Same(p))
              /\ (Same(p) => remote[req[p].s].seq \in Nat /\ remote'[req[p].s].seq \in Nat
                               /\ remote'[req[p].s].seq >= remote[req[p].s].seq)
        <5>1. req[p].stage \in {"row", "listed"} => req[p].s \in Sessions
          BY HandlerShape DEF TypeInv, HandlersOK, Asking, Listing
        <5>2. top >= n
          BY <2>2
        <5>3. QED
          BY <1>3, <2>2, <2>3, <2>4, <4>1, <5>1, <5>2 DEF Same, TypeInv, RemotesOK, Remote
      <4>3. req[p].stage = "row" => req[p].from \in Nat
        BY HandlerShape DEF TypeInv, HandlersOK, Asking
      <4>4. req[p].stage = "row" /\ Same(p)' => req[p].from <= remote'[req[p].s].seq
        BY <4>1, <4>2, <4>3 DEF FetchSound
      <4>5. ASSUME req[p].stage = "listed"
            PROVE  \E i, j \in 0..log[req[p].s] :
                     req[p].events = (i + 1)..j /\ (Same(p)' => i <= remote'[req[p].s].seq)
        <5>1. PICK i, j \in 0..log[req[p].s] :
                req[p].events = (i + 1)..j /\ (Same(p) => i <= remote[req[p].s].seq)
          BY <4>1, <4>5 DEF FetchSound
        <5>2. log[req[p].s] \in Nat
          BY <4>2, <4>5 DEF TypeInv, RowsOK
        <5>3. Same(p)' => i <= remote'[req[p].s].seq
          BY <4>2, <4>5, <5>1, <5>2
        <5>4. QED
          BY <5>1, <5>3
      <4>6. QED
        BY <1>1, <4>1, <4>4, <4>5 DEF FetchSound
    <3>3. QED
      BY <3>1, <3>2
  <2>9. \A t \in Sessions : remote'[t] # None => remote'[t].id > left'
    BY <1>1, <1>3, <2>4 DEF RemoteInv, Fetches
  <2>10. RemoteNoGap'
    <3> SUFFICES ASSUME NEW t \in Sessions, remote'[t] # None, NEW e \in 1..remote'[t].seq
                 PROVE  \/ e \in got[t] \cup lost[t]
                        \/ \E p \in Requests : req'[p].stage = "advanced" /\ req'[p].s = t /\ e \in req'[p].events
      BY <1>1 DEF RemoteNoGap
    <3>1. CASE remote[t] # None /\ e \in 1..remote[t].seq
      <4>1. \/ e \in got[t] \cup lost[t]
            \/ \E p \in Requests : req[p].stage = "advanced" /\ req[p].s = t /\ e \in req[p].events
        BY <3>1 DEF RemoteInv, RemoteNoGap
      <4>2. \A p \in Requests : req[p].stage = "advanced" => req'[p] = req[p]
        BY <1>1, <2>5
      <4>3. QED
        BY <4>1, <4>2
    <3>2. CASE ~(remote[t] # None /\ e \in 1..remote[t].seq)
      <4>1. t = f.s /\ e > n /\ e <= top
        BY <1>3, <2>2, <2>3, <2>4, <3>2
      <4>2. e \in f.events
        BY <2>1, <2>2, <4>1
      <4>3. QED
        BY <2>5, <4>1, <4>2
    <3>3. QED
      BY <3>1, <3>2
  <2>11. QED
    BY <2>6, <2>7, <2>8, <2>9, <2>10 DEF RemoteInv, Fetches
<1>4. QED
  BY <1>2, <1>3 DEF AdvanceWatermark

\* A response, or a handler that dies: what had been listed is received or lost.
LEMMA EndStep ==
  ASSUME IInv, NEW q \in Requests, Respond(q) \/ Abandon(q)
  PROVE  IInv'
<1> DEFINE f == req[q]
<1> USE DEF IInv, Ledger, Copies, Remotes
<1>1. /\ req' = [req EXCEPT ![q] = Quiet]
      /\ UNCHANGED <<scene, art, born, left, log, remote, Ledger, Copies>>
  BY DEF Respond, Abandon
<1>2. f.stage = "advanced" => f.s \in Sessions /\ f.events \subseteq Nat
  BY HandlerShape DEF TypeInv, HandlersOK, Listing
<1>3. /\ got' \in [Sessions -> SUBSET Nat] /\ lost' \in [Sessions -> SUBSET Nat]
      /\ \A s \in Sessions : got[s] \subseteq got'[s] /\ lost[s] \subseteq lost'[s]
      /\ f.stage = "advanced" => f.events \subseteq got'[f.s] \cup lost'[f.s]
  BY <1>2 DEF Respond, Abandon, TypeInv, RemotesOK
<1>4. TypeInv'
  BY <1>1, <1>3 DEF TypeInv, RowsOK, LedgerOK, RemotesOK, HandlersOK, Handler
<1>5. LedgerInv' /\ ImportsSound'
  BY <1>1, FetchFrame DEF TypeInv, HandlersOK, Quiet
<1>6. ASSUME NEW p \in Requests PROVE FetchSound(p)'
  BY <1>1 DEF RemoteInv, Fetches, FetchSound, Same, TypeInv, HandlersOK, Quiet
<1>7. \A t \in Sessions : remote'[t] # None => remote'[t].id > left'
  BY <1>1 DEF RemoteInv, Fetches
<1>8. RemoteNoGap'
  <2> SUFFICES ASSUME NEW t \in Sessions, remote[t] # None, NEW e \in 1..remote[t].seq
               PROVE  \/ e \in got'[t] \cup lost'[t]
                      \/ \E p \in Requests : req'[p].stage = "advanced" /\ req'[p].s = t /\ e \in req'[p].events
    BY <1>1 DEF RemoteNoGap
  <2>1. \/ e \in got[t] \cup lost[t]
        \/ \E p \in Requests : req[p].stage = "advanced" /\ req[p].s = t /\ e \in req[p].events
    BY DEF RemoteInv, RemoteNoGap
  <2>2. \A p \in Requests \ {q} : req'[p] = req[p]
    BY <1>1 DEF TypeInv, HandlersOK
  <2>3. QED
    BY <1>3, <2>1, <2>2
<1>9. QED
  BY <1>4, <1>5, <1>6, <1>7, <1>8 DEF RemoteInv, Fetches

-----------------------------------------------------------------------------
(* The invariant holds.                                                     *)

LEMMA InitSound == Init => IInv
<1> SUFFICES ASSUME Init PROVE IInv
  OBVIOUS
<1>1. PICK n \in 0..MaxArtifacts : scene.rows \in [1..n -> Artifact]
  BY ScenesAssumption DEF Init
<1>2. n \in Nat /\ born = n /\ DOMAIN scene.rows = 1..n
  <2>1. n \in Nat /\ DOMAIN scene.rows = 1..n
    BY <1>1, BoundsAssumption
  <2>2. Cardinality(1..n) = n
    BY <2>1, FS_Interval
  <2>3. QED
    BY <2>1, <2>2 DEF Init
<1>3. RowsOK
  <2>1. scene.budget \in Nat
    BY ScenesAssumption DEF Init
  <2>2. art \in [Ids -> Artifact \cup {None}] /\ \A a \in Ids : art[a] # None => a <= born
    BY <1>1, <1>2 DEF Init, Ids
  <2>3. QED
    BY <1>2, <2>1, <2>2 DEF Init, RowsOK
<1>4. TypeInv
  BY <1>3 DEF Init, TypeInv, LedgerOK, RemotesOK, HandlersOK, Handler
<1>5. LedgerInv
  BY DEF Init, LedgerInv, CollectedWhole, LockedOnce, Compared, PatchOverExpected,
         EffectExactlyOnce, Quiet
<1>6. RemoteInv
  BY DEF Init, RemoteInv, Fetches, FetchSound, RemoteNoGap, Quiet
<1>7. ImportsSound
  BY DEF Init, ImportsSound
<1>8. QED
  BY <1>4, <1>5, <1>6, <1>7 DEF IInv

LEMMA StepSound == IInv /\ [Next]_vars => IInv'
<1> SUFFICES ASSUME IInv, [Next]_vars PROVE IInv'
  OBVIOUS
<1>1. CASE UNCHANGED vars
  <2>1. TypeInv'
    BY <1>1 DEF vars, IInv, TypeInv, RowsOK, LedgerOK, RemotesOK, HandlersOK
  <2>2. LedgerInv' /\ ImportsSound'
    BY <1>1, FetchFrame DEF vars, Ledger, Copies
  <2>3. RemoteInv'
    BY <1>1 DEF vars, IInv, RemoteInv, Fetches, FetchSound, Same, RemoteNoGap
  <2>4. QED
    BY <2>1, <2>2, <2>3 DEF IInv
<1>2. CASE Writers
  BY <1>2, CreateStep, UpdateStep, DeleteStep DEF Writers
<1>3. CASE Proposing
  BY <1>3, ProposeStep, AttestStep, ConsumeStep, LockProposalStep DEF Proposing
<1>4. CASE Aging
  BY <1>4, ProposalAgesStep, ReceiptAgesStep DEF Aging
<1>5. CASE CompactExpired \/ Collecting
  BY <1>5, CompactExpiredStep, CompactResolvedStep, CompactAttestationsStep, CollectStep
     DEF Collecting
<1>6. ASSUME NEW s \in Sessions, AddRemote(s) \/ RemoveRemote(s) PROVE IInv'
  BY <1>6, AddRemoteStep, RemoveRemoteStep
<1>7. ASSUME NEW q \in Requests, Committing(q) \/ Abandon(q) PROVE IInv'
  BY <1>7, LockArtifactStep, CommitTxStep, RejectStep, EndStep DEF Committing
<1>8. ASSUME NEW q \in Requests, Importing(q) PROVE IInv'
  BY <1>8, ImportReadStep, ImportDispatchStep, CopyStep, RecordStep, AnnounceStep DEF Importing
<1>9. ASSUME NEW q \in Requests, Fetching(q) PROVE IInv'
  BY <1>9, FetchStep, ListStep, AdvanceStep, EndStep DEF Fetching
<1>10. QED
  BY <1>1, <1>2, <1>3, <1>4, <1>5, <1>6, <1>7, <1>8, <1>9 DEF Next

THEOREM Invariance == Spec => []IInv
<1>1. Init => IInv
  BY InitSound
<1>2. IInv /\ [Next]_vars => IInv'
  BY StepSound
<1>3. QED
  BY <1>1, <1>2, PTL DEF Spec

-----------------------------------------------------------------------------
(* What follows.                                                            *)

\* Rows hold what their columns allow, proposals and attestations belong to
\* receipts that exist and import rows to artifacts that exist, and the locks
\* of the commit transactions exclude one another.
THEOREM TypeCorrect == Spec => []ContentTypeOK
<1>1. IInv => ContentTypeOK
  <2> SUFFICES ASSUME IInv PROVE ContentTypeOK
    OBVIOUS
  <2>1. \A a \in Ids : art[a] = None \/ (art[a].in \in Sessions /\ art[a].ref \in Contents /\ a <= born)
    BY DEF IInv, TypeInv, RowsOK, Artifact
  <2>2. \A q \in Requests : req[q].stage \in {"locked", "patching"} =>
          Pending(req[q].r) /\ prop[req[q].r].id = req[q].id
    BY DEF IInv, LedgerInv, LockedOnce
  <2>3. \A q, p \in Requests : req[q].stage = "patching" /\ req[p].stage = "patching" /\ p # q =>
          prop[req[q].r].body.art # prop[req[p].r].body.art
    BY DEF IInv, LedgerInv, Compared
  <2>4. QED
    BY <2>1, <2>2, <2>3 DEF ContentTypeOK, IInv, LedgerInv, CollectedWhole, ImportsSound
<1>2. QED
  BY <1>1, Invariance, PTL

\* commit_artifact_patch never writes over a content its proposer did not see:
\* the row it compared stays locked until it commits.
THEOREM PatchedOverExpected == Spec => []PatchOverExpected
<1>1. IInv => PatchOverExpected
  BY DEF IInv, LedgerInv
<1>2. QED
  BY <1>1, Invariance, PTL

\* A proposal has its effect once if it is committed and never otherwise,
\* whatever commits race, die or come after a collector.
THEOREM EffectOnce == Spec => []EffectExactlyOnce
<1>1. IInv => EffectExactlyOnce
  BY DEF IInv, LedgerInv
<1>2. QED
  BY <1>1, Invariance, PTL

\* Racing fetches of one remote, whose pages are FetchLimit long, leave no event
\* below the watermark that nobody received or lost.
THEOREM FetchesSkipNothing == Spec => []RemoteNoGap
<1>1. IInv => RemoteNoGap
  BY DEF IInv, RemoteInv
<1>2. QED
  BY <1>1, Invariance, PTL

\* An attested mismatch outlives every collector, and so does its receipt.
THEOREM MismatchAlwaysKept == Spec => MismatchKept
<1> DEFINE Kept == \A r \in Receipts : attest[r] # None /\ attest[r].mismatch =>
                     attest'[r] # None /\ attest'[r].mismatch /\ receipt'[r] # "gone"
<1>1. IInv /\ [Next]_vars => [Kept]_vars
  <2> SUFFICES ASSUME IInv, Next, NEW r \in Receipts, attest[r] # None, attest[r].mismatch
               PROVE  attest'[r] # None /\ attest'[r].mismatch /\ receipt'[r] # "gone"
    OBVIOUS
  <2> USE DEF Ledger, Copies, Remotes
  <2>1. /\ receipt[r] # "gone" /\ attest[r] \in Attestation
        /\ attest \in [Receipts -> Attestation \cup {None}]
        /\ receipt \in [Receipts -> {"live", "used", "lapsed", "retired", "gone"}]
    BY DEF IInv, LedgerInv, CollectedWhole, TypeInv, LedgerOK
  <2>2. CASE Writers
    BY <2>1, <2>2 DEF Writers, CreateArtifact, UpdateArtifact, DeleteArtifact
  <2>3. CASE Proposing
    BY <2>1, <2>3 DEF Proposing, Propose, Attest, Consume, LockProposal
  <2>4. CASE Aging
    <3>1. PICK x \in Receipts : ProposalAges(x) \/ ReceiptAges(x) \/ AttestationAges(x)
      BY <2>4 DEF Aging
    <3>2. CASE ProposalAges(x) \/ ReceiptAges(x)
      BY <2>1, <3>2 DEF ProposalAges, ReceiptAges
    <3>3. CASE AttestationAges(x)
      BY <2>1, <3>3, NoneAssumption DEF AttestationAges, Attestation
    <3>4. QED
      BY <3>1, <3>2, <3>3
  <2>5. CASE CompactExpired \/ Collecting
    BY ZenonT(60), <2>1, <2>5 DEF CompactExpired, Collecting, CompactResolved, CompactAttestations, CompactReceipts
  <2>6. ASSUME NEW s \in Sessions, AddRemote(s) \/ RemoveRemote(s)
        PROVE  attest' = attest /\ receipt' = receipt
    BY <2>6 DEF AddRemote, RemoveRemote
  <2>7. ASSUME NEW q \in Requests, Committing(q) \/ Importing(q) \/ Fetching(q) \/ Abandon(q)
        PROVE  attest' = attest /\ receipt' = receipt
    <3>1. CASE Committing(q) \/ Abandon(q)
      BY <3>1 DEF Committing, LockArtifact, CommitTx, RejectAfterRollback, Abandon
    <3>2. CASE Importing(q)
      BY <3>2 DEF Importing, ImportRead, ImportDispatch, CopyArtifact, RecordImport, AnnounceImport
    <3>3. CASE Fetching(q)
      BY <3>3 DEF Fetching, FetchRemote, ListEvents, AdvanceWatermark, Respond
    <3>4. QED
      BY <2>7, <3>1, <3>2, <3>3
  <2>8. QED
    BY <2>1, <2>2, <2>3, <2>4, <2>5, <2>6, <2>7 DEF Next
<1>2. QED
  BY <1>1, Invariance, PTL DEF Spec, MismatchKept

=============================================================================
