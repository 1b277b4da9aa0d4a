--------------------------- MODULE CapAuthority ---------------------------
(***************************************************************************)
(* The capability tree of one session and its epoch register: minting and  *)
(* delegation, the three revocation strategies of the revoke endpoint with *)
(* optional rerooting, the owner's revocation of a root cap, cooperative   *)
(* transfer of a root, and the collection of revoked rows.                 *)
(*                                                                         *)
(* A statement of Postgres is one step; the revoke endpoint runs its       *)
(* statements outside any transaction, so each is a step of its own and    *)
(* the handler can fail or crash between two of them.                      *)
(***************************************************************************)
EXTENDS Naturals, FiniteSets

CONSTANTS Caps,      \* ids of session_tokens rows
          Handlers,  \* concurrent revoke and transfer requests
          MaxEpoch,  \* bound: epoch advances
          MaxLapses, \* bound: caps that expire
          None       \* SQL's NULL

ASSUME MaxEpochNat == MaxEpoch \in Nat
ASSUME MaxLapsesNat == MaxLapses \in Nat
ASSUME NoneIsNoCap == None \notin Caps

VARIABLES
  st,       \* of each id: "free", "live", "revoked" (revoked_at set), "gone" (deleted)
  parent,   \* parent_cap
  born,     \* the epoch the cap was issued in
  stratum,  \* its delegation depth when issued
  lapsed,   \* expires_at has passed
  moved,    \* transferred_to
  epoch,    \* session_epochs.epoch
  hpc,      \* where each request is
  job       \* what it asks for, and what it has read

capVars  == <<st, parent, born, stratum, lapsed, moved>>
authVars == <<capVars, epoch, hpc, job>>

Strategies == {"cap", "reroot", "stratum", "epoch", "transfer"}

\* target: target_cap_id, or the root a transfer found; depth: target_stratum;
\* closed: closed_epoch; grand: the target's parent as read.
Job  == [what : Strategies, target : Caps \union {None}, depth : Nat,
         closed : 0 .. MaxEpoch, grand : Caps \union {None}]
Idle == [what |-> "epoch", target |-> None, depth |-> 0, closed |-> 0, grand |-> None]

CapsTypeOK ==
  /\ st \in [Caps -> {"free", "live", "revoked", "gone"}]
  /\ parent \in [Caps -> Caps \union {None}]
  /\ born \in [Caps -> 0 .. MaxEpoch]
  /\ stratum \in [Caps -> Nat]
  /\ lapsed \in [Caps -> BOOLEAN]
  /\ moved \in [Caps -> Caps \union {None}]
  /\ epoch \in 0 .. MaxEpoch
  /\ hpc \in [Handlers -> {"idle", "read", "placed", "revoked", "advanced", "found"}]
  /\ job \in [Handlers -> Job]

CapsInit ==
  /\ st = [c \in Caps |-> "free"]
  /\ parent = [c \in Caps |-> None]
  /\ born = [c \in Caps |-> 0]
  /\ stratum = [c \in Caps |-> 0]
  /\ lapsed = [c \in Caps |-> FALSE]
  /\ moved = [c \in Caps |-> None]
  /\ epoch = 0
  /\ hpc = [h \in Handlers |-> "idle"]
  /\ job = [h \in Handlers |-> Idle]

Rows == {c \in Caps : st[c] \in {"live", "revoked"}}

\* What invoke and consume ask of a cap.
Usable(c) == st[c] = "live" /\ ~lapsed[c] /\ born[c] = epoch

LiveChildren(c) == {d \in Caps : st[d] = "live" /\ parent[d] = c}

\* The recursive CTE: c, and from any member on through its live children.
Subtree(c) ==
  {d \in Caps : \A S \in SUBSET Caps :
     c \in S /\ (\A e \in S : LiveChildren(e) \subseteq S) => d \in S}

-----------------------------------------------------------------------------
(* Minting.                                                                *)

\* Mutant: an id that is taken by a revoked row is reused.
insert_upsert(c, p, n) ==
  /\ st[c] \in {"free", "revoked"}
  /\ st' = [st EXCEPT ![c] = "live"]
  /\ parent' = [parent EXCEPT ![c] = p]
  /\ born' = [born EXCEPT ![c] = epoch]
  /\ stratum' = [stratum EXCEPT ![c] = n]
  /\ UNCHANGED <<lapsed, moved, epoch, hpc, job>>

Insert(c, p, n) ==
  /\ st[c] = "free"
  /\ st' = [st EXCEPT ![c] = "live"]
  /\ parent' = [parent EXCEPT ![c] = p]
  /\ born' = [born EXCEPT ![c] = epoch]
  /\ stratum' = [stratum EXCEPT ![c] = n]
  /\ UNCHANGED <<lapsed, moved, epoch, hpc, job>>

\* An attach token, or the cap an invite grants.
insert_root(c) == Insert(c, None, 0)

\* A child of p. The trigger refuses a parent that is missing or of another
\* epoch; neither it nor the statement looks at the parent's revoked_at.
delegate(c, p) ==
  /\ p \in Rows
  /\ born[p] = epoch
  /\ Insert(c, p, stratum[p] + 1)

Lapse(c) ==
  /\ c \in Rows /\ ~lapsed[c]
  /\ Cardinality({d \in Caps : lapsed[d]}) < MaxLapses
  /\ lapsed' = [lapsed EXCEPT ![c] = TRUE]
  /\ UNCHANGED <<st, parent, born, stratum, moved, epoch, hpc, job>>

-----------------------------------------------------------------------------
(* The revoke endpoint.                                                    *)

Revoke(S) == st' = [c \in Caps |-> IF c \in S /\ st[c] = "live" THEN "revoked" ELSE st[c]]

\* Each strategy with the argument it needs; only thresholds that tell two caps
\* apart are worth asking for.
Requests ==
  [what : {"cap", "reroot"}, target : {c \in Caps : st[c] # "free"}, depth : {0}]
    \union [what : {"stratum"}, target : {None}, depth : {stratum[c] : c \in Rows}]
    \union {[what |-> "epoch", target |-> None, depth |-> 0]}

ParentId(c) == IF c \in Rows THEN parent[c] ELSE None

\* Validated; closed_epoch is read. For "cap" with reroot the target's parent
\* is read next, and nothing between the two reads matters to either.
RevokeRead(h, q) ==
  /\ hpc[h] = "idle"
  /\ job' = [job EXCEPT ![h] = [what |-> q.what, target |-> q.target, depth |-> q.depth,
                                closed |-> epoch, grand |-> ParentId(q.target)]]
  /\ hpc' = [hpc EXCEPT ![h] = "read"]
  /\ UNCHANGED <<capVars, epoch>>

\* The update fails on its foreign key, and is only logged, if the row it
\* wants to point at has been deleted since; or for any other reason.
reroot_caps(h) ==
  LET t == job[h].target IN
  /\ hpc[h] = "read" /\ job[h].what = "reroot"
  /\ \/ /\ job[h].grand \in Rows \union {None}
        /\ parent' = [c \in Caps |-> IF c \in LiveChildren(t) THEN job[h].grand ELSE parent[c]]
     \/ parent' = parent
  /\ hpc' = [hpc EXCEPT ![h] = "placed"]
  /\ UNCHANGED <<st, born, stratum, lapsed, moved, epoch, job>>

Doomed(j) ==
  CASE j.what \in {"cap", "reroot"} -> IF j.target \in Rows THEN Subtree(j.target) ELSE {}
    [] j.what = "stratum" -> {c \in Caps : born[c] = j.closed /\ stratum[c] >= j.depth}
    [] OTHER -> {c \in Caps : born[c] = j.closed}

RevokeCaps(h) ==
  /\ hpc[h] = IF job[h].what = "reroot" THEN "placed" ELSE "read"
  /\ job[h].what # "transfer"
  /\ Revoke(Doomed(job[h]))
  /\ hpc' = [hpc EXCEPT ![h] = "revoked"]
  /\ UNCHANGED <<parent, born, stratum, lapsed, moved, epoch, job>>

\* Mutant: no advance while nothing is revoked.
advance_if_any(h) ==
  /\ hpc[h] = "revoked"
  /\ epoch < MaxEpoch
  /\ epoch' = IF \E c \in Caps : st[c] = "revoked" THEN epoch + 1 ELSE epoch
  /\ hpc' = [hpc EXCEPT ![h] = "advanced"]
  /\ UNCHANGED <<capVars, job>>

advance(h) ==
  /\ hpc[h] = "revoked"
  /\ epoch < MaxEpoch
  /\ epoch' = epoch + 1
  /\ hpc' = [hpc EXCEPT ![h] = "advanced"]
  /\ UNCHANGED <<capVars, job>>

\* The answer; or an error or a crash, with whatever has been done so far.
HandlerEnds(h) ==
  /\ hpc[h] # "idle"
  /\ hpc' = [hpc EXCEPT ![h] = "idle"]
  /\ job' = [job EXCEPT ![h] = Idle]
  /\ UNCHANGED <<capVars, epoch>>

-----------------------------------------------------------------------------
(* The other ways a cap ends.                                              *)

\* The owner's list of agents: a root and its subtree, in the same epoch.
revoke_owned_root_cap(c) ==
  /\ c \in Rows /\ stratum[c] = 0
  /\ Revoke(Subtree(c))
  /\ UNCHANGED <<parent, born, stratum, lapsed, moved, epoch, hpc, job>>

\* Two transfers from one owner queue on that owner's membership row, which a
\* transfer updates before it looks for the root.
find_root_cap_in_tx(h, c) ==
  /\ hpc[h] = "idle"
  /\ \A k \in Handlers : hpc[k] = "found" => job[k].target # c
  /\ st[c] = "live" /\ ~lapsed[c] /\ stratum[c] = 0
  /\ job' = [job EXCEPT ![h] = [what |-> "transfer", target |-> c, depth |-> 0,
                                closed |-> epoch, grand |-> None]]
  /\ hpc' = [hpc EXCEPT ![h] = "found"]
  /\ UNCHANGED <<capVars, epoch>>

\* The rest of the transaction. The root it retires may have been revoked since
\* it was found; its row is still there, for collection waits seven days.
transfer_root_in_tx(h, n) ==
  LET old == job[h].target IN
  /\ hpc[h] = "found"
  /\ st[n] = "free" /\ old \in Rows
  /\ st' = [st EXCEPT ![n] = "live", ![old] = "revoked"]
  /\ parent' = [c \in Caps |-> IF c \in LiveChildren(old) THEN n ELSE parent[c]]
  /\ born' = [born EXCEPT ![n] = epoch]
  /\ stratum' = [stratum EXCEPT ![n] = 0]
  /\ moved' = [moved EXCEPT ![old] = n]
  /\ hpc' = [hpc EXCEPT ![h] = "idle"]
  /\ job' = [job EXCEPT ![h] = Idle]
  /\ UNCHANGED <<lapsed, epoch>>

\* One DELETE of the rows revoked long enough ago; the foreign keys of the rows
\* that stay refuse it as a whole.
compact_revoked(S) ==
  /\ S # {} /\ \A c \in S : st[c] = "revoked"
  /\ \A d \in Rows \ S : parent[d] \notin S /\ moved[d] \notin S
  /\ st' = [c \in Caps |-> IF c \in S THEN "gone" ELSE st[c]]
  /\ UNCHANGED <<parent, born, stratum, lapsed, moved, epoch, hpc, job>>

CapStep ==
  \/ \E c \in Caps : insert_root(c) \/ Lapse(c) \/ revoke_owned_root_cap(c)
  \/ \E c \in Caps, p \in Caps : delegate(c, p)
  \/ \E h \in Handlers : \E q \in Requests : RevokeRead(h, q)
  \/ \E h \in Handlers : reroot_caps(h) \/ RevokeCaps(h) \/ advance(h) \/ HandlerEnds(h)
  \/ \E h \in Handlers, c \in Caps : find_root_cap_in_tx(h, c) \/ transfer_root_in_tx(h, c)

CapsNext == CapStep \/ \E S \in SUBSET Caps : compact_revoked(S)

CapsSpec == CapsInit /\ [][CapsNext]_authVars

-----------------------------------------------------------------------------
(* Properties.                                                             *)

\* The tree is well founded: the row a parent_cap names exists and has a
\* smaller stratum, through rerooting, transfer and collection. The recursive
\* CTEs of tokens.rs (revoke_cap_subtree, lineage) use UNION ALL and would not
\* terminate on a cycle.
Grounded ==
  \A c \in Rows : parent[c] # None =>
    /\ parent[c] \in Rows
    /\ stratum[parent[c]] < stratum[c]

\* docs/threat-model.md, section 4.5: a child cannot outlive its parent's epoch
\* boundary. Rerooting and transfer may hang a cap below one of a later epoch,
\* never below one of an earlier epoch.
WithinParentsEpoch ==
  \A c \in Rows : parent[c] # None => born[c] <= born[parent[c]]

\* When the revoke endpoint answers, no cap of the epoch it closed can be used:
\* not those its UPDATE missed because they were minted after it, nor those its
\* strategy spared.
ClosedForGood ==
  \A h \in Handlers : hpc[h] = "advanced" =>
    \A c \in Caps : born[c] <= job[h].closed => ~Usable(c)

\* A cap that has stopped being usable never becomes usable again, whatever is
\* rerooted, transferred or collected around it.
DeadStaysDead ==
  [][\A c \in Caps : st[c] # "free" /\ ~Usable(c) => ~Usable(c)']_authVars
=============================================================================
