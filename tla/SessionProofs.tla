--------------------------- MODULE SessionProofs ---------------------------
(***************************************************************************)
(* Proofs about what serves one session: the caps and the broker's tool    *)
(* calls (CapAuthority, OrbInvoke), for any number of caps, concurrent     *)
(* handlers, tool calls and epochs; and the session task (SessionTask over *)
(* SessionTransition), for any number of actors, sagas, steps, bundles and *)
(* restarts and any log a task may start from.                             *)
(***************************************************************************)
EXTENDS OrbInvoke, SessionTask, FiniteSetTheorems, SequenceTheorems, WellFoundedInduction, TLAPS

-----------------------------------------------------------------------------
(* The inductive invariant of the caps.                                    *)

\* An id that was never minted is nobody's row and points nowhere.
FreeBlank == \A c \in Caps : st[c] = "free" => parent[c] = None

\* No cap is from the future.
BornPast == \A c \in Caps : born[c] <= epoch

\* The epoch a handler read is not ahead of the register, and behind it once
\* the handler has advanced it; the grandparent it read is above its target.
Grand(j) ==
  /\ j.target \in Caps
  /\ st[j.target] # "free" /\ st[j.grand] # "free"
  /\ stratum[j.grand] < stratum[j.target]
  /\ born[j.target] <= born[j.grand]

JobSound ==
  \A h \in Handlers :
    /\ hpc[h] \in {"read", "placed", "revoked"} => job[h].closed <= epoch
    /\ hpc[h] = "advanced" => job[h].closed < epoch
    /\ hpc[h] = "read" /\ job[h].grand # None => Grand(job[h])
    /\ hpc[h] = "found" => job[h].target \in Caps

CapInv ==
  /\ CapsTypeOK
  /\ FreeBlank
  /\ BornPast
  /\ JobSound
  /\ Grounded
  /\ WithinParentsEpoch

\* What no step on the caps undoes.
Mono ==
  /\ epoch <= epoch'
  /\ \A c \in Caps : st[c] # "free" =>
       /\ st'[c] # "free"
       /\ st'[c] = "live" => st[c] = "live"
       /\ lapsed[c] => lapsed'[c]
       /\ born'[c] = born[c]
       /\ stratum'[c] = stratum[c]

USE DEF Rows

LEMMA InsertMono ==
  ASSUME CapsTypeOK, NEW c \in Caps, NEW p, NEW n, Insert(c, p, n)
  PROVE  Mono
BY MaxEpochNat DEF Mono, Insert, CapsTypeOK

LEMMA RevokeTypes ==
  ASSUME CapsTypeOK, NEW S, Revoke(S)
  PROVE  /\ st' \in [Caps -> {"free", "live", "revoked", "gone"}]
         /\ \A c \in Caps : st'[c] # st[c] => st[c] = "live" /\ st'[c] = "revoked"
BY DEF Revoke, CapsTypeOK

\* Every step of CapAuthority keeps what it may never undo.
LEMMA StepMono ==
  ASSUME CapsTypeOK, CapsNext
  PROVE  Mono
<1> USE MaxEpochNat
<1>1. ASSUME NEW c \in Caps, insert_root(c) PROVE Mono
  BY <1>1, InsertMono DEF insert_root
<1>2. ASSUME NEW c \in Caps, NEW p \in Caps, delegate(c, p) PROVE Mono
  BY <1>2, InsertMono DEF delegate
<1>3. ASSUME NEW c \in Caps, Lapse(c) PROVE Mono
  BY <1>3 DEF Lapse, Mono, CapsTypeOK
<1>4. ASSUME NEW c \in Caps, revoke_owned_root_cap(c) PROVE Mono
  BY <1>4, RevokeTypes DEF revoke_owned_root_cap, Mono, CapsTypeOK
<1>5. ASSUME NEW h \in Handlers, NEW q, RevokeRead(h, q) PROVE Mono
  BY <1>5 DEF RevokeRead, Mono, CapsTypeOK, capVars
<1>6. ASSUME NEW h \in Handlers, reroot_caps(h) PROVE Mono
  BY <1>6 DEF reroot_caps, Mono, CapsTypeOK
<1>7. ASSUME NEW h \in Handlers, RevokeCaps(h) PROVE Mono
  BY <1>7, RevokeTypes DEF RevokeCaps, Mono, CapsTypeOK
<1>8. ASSUME NEW h \in Handlers, advance(h) PROVE Mono
  BY <1>8 DEF advance, Mono, CapsTypeOK, capVars
<1>9. ASSUME NEW h \in Handlers, HandlerEnds(h) PROVE Mono
  BY <1>9 DEF HandlerEnds, Mono, CapsTypeOK, capVars
<1>10. ASSUME NEW h \in Handlers, NEW c \in Caps, find_root_cap_in_tx(h, c) PROVE Mono
  BY <1>10 DEF find_root_cap_in_tx, Mono, CapsTypeOK, capVars
<1>11. ASSUME NEW h \in Handlers, NEW c \in Caps, transfer_root_in_tx(h, c) PROVE Mono
  BY <1>11 DEF transfer_root_in_tx, Mono, CapsTypeOK
<1>12. ASSUME NEW S \in SUBSET Caps, compact_revoked(S) PROVE Mono
  BY <1>12 DEF compact_revoked, Mono, CapsTypeOK
<1> QED
  BY <1>1, <1>2, <1>3, <1>4, <1>5, <1>6, <1>7, <1>8, <1>9, <1>10, <1>11, <1>12
     DEF CapsNext, CapStep

\* The invariant holds of a new session.
LEMMA CapInit ==
  ASSUME CapsInit
  PROVE  CapInv
<1> USE MaxEpochNat, NoneIsNoCap DEF CapsInit
<1>1. CapsTypeOK
  BY DEF CapsTypeOK, Job, Idle, Strategies
<1> QED
  BY <1>1 DEF CapInv, FreeBlank, BornPast, JobSound, Grounded, WithinParentsEpoch

\* A step that touches no cap and no register keeps the tree.
LEMMA SameTree ==
  ASSUME CapInv, UNCHANGED capVars, epoch <= epoch', epoch' \in 0 .. MaxEpoch
  PROVE  FreeBlank' /\ BornPast' /\ Grounded' /\ WithinParentsEpoch'
<1> USE MaxEpochNat
<1>1. BornPast'
  BY DEF CapInv, BornPast, CapsTypeOK, capVars
<1> QED
  BY <1>1 DEF CapInv, FreeBlank, Grounded, WithinParentsEpoch, capVars

\* Handlers that do not move stay sound whatever the others do.
LEMMA OthersSound ==
  ASSUME CapInv, Mono, epoch' \in 0 .. MaxEpoch, NEW h \in Handlers,
         hpc'[h] = hpc[h], job'[h] = job[h]
  PROVE  /\ hpc'[h] \in {"read", "placed", "revoked"} => job'[h].closed <= epoch'
         /\ hpc'[h] = "advanced" => job'[h].closed < epoch'
         /\ hpc'[h] = "read" /\ job'[h].grand # None => Grand(job[h])'
         /\ hpc'[h] = "found" => job'[h].target \in Caps
<1> USE MaxEpochNat, NoneIsNoCap
<1>1. job[h].closed \in Nat /\ epoch \in Nat /\ epoch' \in Nat /\ job[h].grand \in Caps \union {None}
  BY DEF CapInv, CapsTypeOK, Job
<1>2. epoch <= epoch'
  BY DEF Mono
<1>3. ASSUME hpc[h] = "read", job[h].grand # None PROVE Grand(job[h])'
  <2>1. Grand(job[h]) /\ job[h].grand \in Caps
    BY <1>1, <1>3 DEF CapInv, JobSound
  <2> QED
    BY <2>1 DEF Grand, Mono
<1> QED
  BY <1>1, <1>2, <1>3 DEF CapInv, JobSound

\* Rows only grow by an insert, whose parent is a row of smaller stratum.
LEMMA InsertStep ==
  ASSUME CapInv, NEW c \in Caps, NEW p \in Caps \union {None}, NEW n \in Nat, Insert(c, p, n),
         p # None => p \in Rows /\ stratum[p] < n /\ born[p] = epoch
  PROVE  CapInv'
<1> USE MaxEpochNat, NoneIsNoCap
<1>1. CapsTypeOK'
  BY DEF CapInv, CapsTypeOK, Insert
<1>2. Mono
  BY InsertMono DEF CapInv
<1>3. JobSound'
  BY <1>1, <1>2, OthersSound DEF CapInv, CapsTypeOK, JobSound, Insert
<1>4. FreeBlank' /\ BornPast'
  BY DEF CapInv, CapsTypeOK, FreeBlank, BornPast, Insert
<1>5. ASSUME NEW d \in Caps, st'[d] \in {"live", "revoked"}, parent'[d] # None
      PROVE  /\ parent'[d] \in Rows'
             /\ stratum'[parent'[d]] < stratum'[d]
             /\ born'[d] <= born'[parent'[d]]
  <2>1. CASE d = c
    BY <1>5, <2>1 DEF Insert, CapInv, CapsTypeOK
  <2>2. CASE d # c
    <3>1. st[d] \in {"live", "revoked"} /\ parent[d] # None /\ parent'[d] = parent[d]
      BY <1>5, <2>2 DEF Insert, CapInv, CapsTypeOK
    <3>2. /\ parent[d] \in Rows /\ stratum[parent[d]] < stratum[d]
          /\ born[d] <= born[parent[d]] /\ parent[d] # c
      BY <3>1 DEF Insert, CapInv, Grounded, WithinParentsEpoch
    <3> QED
      BY <2>2, <3>1, <3>2 DEF Insert, CapInv, CapsTypeOK
  <2> QED
    BY <2>1, <2>2
<1>6. Grounded' /\ WithinParentsEpoch'
  BY <1>5 DEF Grounded, WithinParentsEpoch
<1> QED
  BY <1>1, <1>3, <1>4, <1>6 DEF CapInv

\* Revoking and expiring rows leaves the tree standing.
LEMMA RevokeStep ==
  ASSUME CapInv, Mono, CapsTypeOK', UNCHANGED <<parent, born, stratum, epoch>>,
         {c \in Caps : st'[c] \in {"live", "revoked"}} = Rows,
         \A c \in Caps : st'[c] = "free" => st[c] = "free"
  PROVE  FreeBlank' /\ BornPast' /\ Grounded' /\ WithinParentsEpoch'
BY DEF CapInv, FreeBlank, BornPast, Grounded, WithinParentsEpoch

\* A request that starts, moves on or ends, when no cap and no epoch changes.
LEMMA HandlerStep ==
  ASSUME CapInv, UNCHANGED <<capVars, epoch>>, CapsTypeOK', JobSound'
  PROVE  CapInv'
<1>1. epoch <= epoch' /\ epoch' \in 0 .. MaxEpoch
  BY MaxEpochNat DEF CapInv, CapsTypeOK
<1> QED
  BY <1>1, SameTree DEF CapInv

\* Rerooting: the live children of the target go to its parent as read.
LEMMA RerootStep ==
  ASSUME CapInv, NEW h \in Handlers, reroot_caps(h)
  PROVE  CapInv'
<1> DEFINE t == job[h].target
           g == job[h].grand
<1> USE MaxEpochNat, NoneIsNoCap
<1>1. t \in Caps \union {None} /\ g \in Caps \union {None}
  BY DEF CapInv, CapsTypeOK, Job
<1>2. CapsTypeOK'
  BY <1>1 DEF CapInv, CapsTypeOK, reroot_caps
<1>3. Mono /\ epoch' \in 0 .. MaxEpoch
  BY StepMono, <1>2 DEF CapInv, CapsNext, CapStep, CapsTypeOK
<1>4. JobSound'
  <2>1. ASSUME NEW k \in Handlers, k # h PROVE hpc'[k] = hpc[k] /\ job'[k] = job[k]
    BY <2>1 DEF reroot_caps, CapInv, CapsTypeOK
  <2>2. hpc'[h] = "placed" /\ job'[h] = job[h] /\ epoch' = epoch /\ hpc[h] = "read"
    BY DEF reroot_caps, CapInv, CapsTypeOK
  <2> QED
    BY <2>1, <2>2, <1>3, OthersSound DEF JobSound, CapInv
<1>5. UNCHANGED <<st, born, stratum, epoch>>
  BY DEF reroot_caps
<1>6. FreeBlank' /\ BornPast'
  BY <1>5 DEF CapInv, FreeBlank, BornPast, reroot_caps, LiveChildren
<1>7. ASSUME NEW d \in Rows, parent'[d] # None
      PROVE  /\ parent'[d] \in Rows
             /\ stratum[parent'[d]] < stratum[d]
             /\ born[d] <= born[parent'[d]]
  <2>1. CASE parent'[d] = parent[d]
    BY <1>7, <2>1 DEF CapInv, Grounded, WithinParentsEpoch
  <2>2. CASE parent'[d] # parent[d]
    <3>1. g \in Rows \union {None} /\ d \in LiveChildren(t) /\ parent'[d] = g
      BY <2>2 DEF reroot_caps
    <3>2. g \in Rows /\ parent[d] = t /\ parent[d] # None
      BY <3>1, <1>7, <1>1 DEF LiveChildren, CapInv, JobSound, reroot_caps, Grand
    <3>3. Grand(job[h])
      BY <3>2 DEF CapInv, JobSound, reroot_caps
    <3>4. t \in Rows /\ stratum[t] < stratum[d] /\ born[d] <= born[t]
      BY <3>2 DEF CapInv, Grounded, WithinParentsEpoch
    <3>5. /\ stratum[g] \in Nat /\ stratum[t] \in Nat /\ stratum[d] \in Nat
          /\ born[g] \in Nat /\ born[t] \in Nat /\ born[d] \in Nat
      BY <3>2, <3>4 DEF CapInv, CapsTypeOK
    <3> QED
      BY <3>1, <3>2, <3>3, <3>4, <3>5 DEF Grand
  <2> QED
    BY <2>1, <2>2
<1>8. Grounded' /\ WithinParentsEpoch'
  BY <1>5, <1>7 DEF Grounded, WithinParentsEpoch
<1> QED
  BY <1>2, <1>4, <1>6, <1>8 DEF CapInv

\* Transfer: a new root of the current epoch takes the old one's live children.
LEMMA TransferStep ==
  ASSUME CapInv, NEW h \in Handlers, NEW n \in Caps, transfer_root_in_tx(h, n)
  PROVE  CapInv'
<1> DEFINE old == job[h].target
<1> USE MaxEpochNat, NoneIsNoCap
<1>1. old \in Caps /\ old # n /\ st[n] = "free" /\ old \in Rows
  BY DEF transfer_root_in_tx, CapInv, JobSound
<1>2. CapsTypeOK'
  <2>1. Idle \in Job
    BY DEF Idle, Job, Strategies
  <2> QED
    BY <1>1, <2>1 DEF CapInv, CapsTypeOK, transfer_root_in_tx
<1>3. Mono /\ epoch' \in 0 .. MaxEpoch
  BY StepMono, <1>2 DEF CapInv, CapsNext, CapStep, CapsTypeOK
<1>4. JobSound'
  <2>1. ASSUME NEW k \in Handlers, k # h PROVE hpc'[k] = hpc[k] /\ job'[k] = job[k]
    BY <2>1 DEF transfer_root_in_tx, CapInv, CapsTypeOK
  <2>2. hpc'[h] = "idle"
    BY DEF transfer_root_in_tx, CapInv, CapsTypeOK
  <2> QED
    BY <2>1, <2>2, <1>3, OthersSound DEF JobSound
<1>5. parent[n] = None
  BY <1>1 DEF CapInv, FreeBlank
<1>6. /\ \A c \in Caps : st'[c] = IF c = n THEN "live" ELSE IF c = old THEN "revoked" ELSE st[c]
      /\ \A c \in Caps : parent'[c] = IF st[c] = "live" /\ parent[c] = old THEN n ELSE parent[c]
      /\ \A c \in Caps : born'[c] = IF c = n THEN epoch ELSE born[c]
      /\ \A c \in Caps : stratum'[c] = IF c = n THEN 0 ELSE stratum[c]
      /\ epoch' = epoch
  BY <1>1 DEF transfer_root_in_tx, CapInv, CapsTypeOK, LiveChildren
<1>7. FreeBlank' /\ BornPast'
  BY <1>1, <1>5, <1>6 DEF CapInv, CapsTypeOK, FreeBlank, BornPast
<1>8. ASSUME NEW d \in Caps, st'[d] \in {"live", "revoked"}, parent'[d] # None
      PROVE  /\ parent'[d] \in Rows'
             /\ stratum'[parent'[d]] < stratum'[d]
             /\ born'[d] <= born'[parent'[d]]
  <2>1. d # n /\ d \in Rows
    BY <1>1, <1>5, <1>6, <1>8
  <2>2. CASE st[d] = "live" /\ parent[d] = old
    <3>1. stratum[old] < stratum[d]
      BY <1>1, <2>1, <2>2 DEF CapInv, Grounded
    <3>2. stratum[old] \in Nat /\ stratum[d] \in Nat /\ born[d] <= epoch
      BY <1>1, <2>1 DEF CapInv, CapsTypeOK, BornPast
    <3> QED
      BY <1>1, <1>6, <2>1, <2>2, <3>1, <3>2
  <2>3. CASE ~(st[d] = "live" /\ parent[d] = old)
    <3>1. parent'[d] = parent[d] /\ parent[d] # None
      BY <1>6, <1>8, <2>3
    <3>2. parent[d] \in Rows /\ stratum[parent[d]] < stratum[d] /\ born[d] <= born[parent[d]]
      BY <2>1, <3>1 DEF CapInv, Grounded, WithinParentsEpoch
    <3>3. parent[d] # n
      BY <1>1, <3>2
    <3> QED
      BY <1>1, <1>6, <2>1, <3>1, <3>2, <3>3
  <2> QED
    BY <2>2, <2>3
<1>9. Grounded' /\ WithinParentsEpoch'
  BY <1>8 DEF Grounded, WithinParentsEpoch
<1> QED
  BY <1>2, <1>4, <1>7, <1>9 DEF CapInv

\* Collection deletes only rows no remaining row points at.
LEMMA CompactStep ==
  ASSUME CapInv, NEW S \in SUBSET Caps, compact_revoked(S)
  PROVE  CapInv'
<1> USE MaxEpochNat, NoneIsNoCap
<1>1. CapsTypeOK'
  BY DEF CapInv, CapsTypeOK, compact_revoked
<1>2. Mono /\ epoch' \in 0 .. MaxEpoch
  BY StepMono, <1>1 DEF CapInv, CapsNext, CapsTypeOK
<1>3. JobSound'
  BY <1>2, OthersSound DEF JobSound, compact_revoked
<1>4. FreeBlank' /\ BornPast'
  BY DEF CapInv, CapsTypeOK, FreeBlank, BornPast, compact_revoked
<1>5. Rows' = Rows \ S
  BY DEF compact_revoked
<1>6. Grounded' /\ WithinParentsEpoch'
  BY <1>5 DEF CapInv, Grounded, WithinParentsEpoch, compact_revoked
<1> QED
  BY <1>1, <1>3, <1>4, <1>6 DEF CapInv

\* Revoking a set of caps, by a handler or by the owner.
LEMMA RevokeSetStep ==
  ASSUME CapInv, NEW S, Revoke(S), Mono, CapsTypeOK', JobSound',
         UNCHANGED <<parent, born, stratum, epoch>>
  PROVE  CapInv'
<1>1. \A c \in Caps : st'[c] # st[c] => st[c] = "live" /\ st'[c] = "revoked"
  BY RevokeTypes DEF CapInv
<1>2. /\ {c \in Caps : st'[c] \in {"live", "revoked"}} = Rows
      /\ \A c \in Caps : st'[c] = "free" => st[c] = "free"
  BY <1>1
<1> QED
  BY <1>2, RevokeStep DEF CapInv

\* Every step of CapAuthority preserves the invariant.
LEMMA CapStepInv ==
  ASSUME CapInv, CapsNext
  PROVE  CapInv'
<1> USE MaxEpochNat, NoneIsNoCap
<1>0. Mono /\ CapsTypeOK
  BY StepMono DEF CapInv
<1>a. Idle \in Job
  BY DEF Idle, Job, Strategies
<1>1. ASSUME NEW c \in Caps, insert_root(c) PROVE CapInv'
  BY <1>1, InsertStep DEF insert_root
<1>2. ASSUME NEW c \in Caps, NEW p \in Caps, delegate(c, p) PROVE CapInv'
  <2>1. stratum[p] \in Nat /\ stratum[p] + 1 \in Nat /\ stratum[p] < stratum[p] + 1
    BY <1>0 DEF CapsTypeOK
  <2> QED
    BY <1>2, <2>1, InsertStep DEF delegate
<1>3. ASSUME NEW c \in Caps, Lapse(c) PROVE CapInv'
  <2>1. CapsTypeOK'
    BY <1>0, <1>3 DEF CapsTypeOK, Lapse
  <2>2. JobSound'
    BY <1>0, <1>3, <2>1, OthersSound DEF JobSound, Lapse, CapsTypeOK
  <2> QED
    BY <1>0, <1>3, <2>1, <2>2, RevokeStep DEF CapInv, Lapse
<1>4. ASSUME NEW c \in Caps, revoke_owned_root_cap(c) PROVE CapInv'
  <2>1. CapsTypeOK'
    BY <1>0, <1>4, RevokeTypes DEF CapsTypeOK, revoke_owned_root_cap
  <2>2. JobSound'
    BY <1>0, <1>4, <2>1, OthersSound DEF JobSound, revoke_owned_root_cap, CapsTypeOK
  <2> QED
    BY <1>0, <1>4, <2>1, <2>2, RevokeSetStep DEF revoke_owned_root_cap
<1>5. ASSUME NEW h \in Handlers, NEW q \in Requests, RevokeRead(h, q) PROVE CapInv'
  <2> DEFINE j == [what |-> q.what, target |-> q.target, depth |-> q.depth,
                   closed |-> epoch, grand |-> ParentId(q.target)]
  <2>1. /\ q.what \in Strategies /\ q.target \in Caps \union {None} /\ q.depth \in Nat
        /\ q.target # None => q.target \in Caps
    BY <1>0 DEF Requests, Strategies, CapsTypeOK
  <2>2. j \in Job
    BY <1>0, <2>1 DEF Job, ParentId, CapsTypeOK
  <2>3. /\ hpc' = [hpc EXCEPT ![h] = "read"] /\ job' = [job EXCEPT ![h] = j]
        /\ UNCHANGED <<capVars, epoch>>
    BY <1>5 DEF RevokeRead
  <2>4. CapsTypeOK'
    BY <1>0, <2>2, <2>3 DEF CapsTypeOK, capVars
  <2>5. hpc'[h] = "read" /\ job'[h] = j
    BY <1>0, <2>3 DEF CapsTypeOK
  <2>6. j.grand # None => Grand(j)
    <3>1. ASSUME ParentId(q.target) # None
          PROVE  /\ q.target \in Rows /\ ParentId(q.target) = parent[q.target]
                 /\ parent[q.target] \in Rows
                 /\ stratum[parent[q.target]] < stratum[q.target]
                 /\ born[q.target] <= born[parent[q.target]]
      BY <3>1 DEF ParentId, CapInv, Grounded, WithinParentsEpoch
    <3> QED
      BY <3>1 DEF Grand
  <2>7. Grand(j)' <=> Grand(j)
    BY <2>3 DEF Grand, capVars, ParentId
  <2>8. JobSound'
    <3>1. ASSUME NEW k \in Handlers, k # h PROVE hpc'[k] = hpc[k] /\ job'[k] = job[k]
      BY <3>1, <2>3, <1>0 DEF CapsTypeOK
    <3>2. epoch' = epoch /\ epoch \in Nat /\ epoch' \in 0 .. MaxEpoch
      BY <2>3, <1>0 DEF CapsTypeOK
    <3>3. job'[h].grand # None => Grand(job[h])'
      <4>1. job'[h].grand # None => Grand(j)
        BY <2>5, <2>6
      <4> QED
        BY <4>1, <2>3, <2>5 DEF Grand, capVars
    <3> QED
      BY <3>1, <3>2, <3>3, <2>5, <1>0, OthersSound DEF JobSound
  <2> QED
    BY <2>3, <2>4, <2>8, HandlerStep
<1>6. ASSUME NEW h \in Handlers, reroot_caps(h) PROVE CapInv'
  BY <1>6, RerootStep
<1>7. ASSUME NEW h \in Handlers, RevokeCaps(h) PROVE CapInv'
  <2>1. CapsTypeOK'
    BY <1>0, <1>7, RevokeTypes DEF CapsTypeOK, RevokeCaps
  <2>2. /\ hpc'[h] = "revoked" /\ job'[h] = job[h] /\ epoch' = epoch
        /\ hpc[h] \in {"read", "placed"}
    BY <1>0, <1>7 DEF CapsTypeOK, RevokeCaps
  <2>3. JobSound'
    <3>1. ASSUME NEW k \in Handlers, k # h PROVE hpc'[k] = hpc[k] /\ job'[k] = job[k]
      BY <3>1, <1>7, <1>0 DEF CapsTypeOK, RevokeCaps
    <3> QED
      BY <3>1, <2>1, <2>2, <1>0, OthersSound DEF JobSound, CapsTypeOK, CapInv
  <2> QED
    BY <1>0, <1>7, <2>1, <2>3, RevokeSetStep DEF RevokeCaps
<1>8. ASSUME NEW h \in Handlers, advance(h) PROVE CapInv'
  <2>1. CapsTypeOK' /\ epoch <= epoch' /\ epoch' \in 0 .. MaxEpoch
    BY <1>0, <1>8 DEF CapsTypeOK, advance, capVars
  <2>2. /\ hpc'[h] = "advanced" /\ job'[h] = job[h] /\ job[h].closed < epoch'
    BY <1>0, <1>8 DEF CapsTypeOK, advance, CapInv, JobSound, Job
  <2>3. JobSound'
    <3>1. ASSUME NEW k \in Handlers, k # h PROVE hpc'[k] = hpc[k] /\ job'[k] = job[k]
      BY <3>1, <1>8, <1>0 DEF CapsTypeOK, advance
    <3> QED
      BY <3>1, <2>1, <2>2, <1>0, OthersSound DEF JobSound
  <2> QED
    BY <2>1, <2>3, <1>8, SameTree DEF CapInv, advance
<1>9. ASSUME NEW h \in Handlers, HandlerEnds(h) PROVE CapInv'
  <2>1. CapsTypeOK' /\ epoch' \in 0 .. MaxEpoch
    BY <1>0, <1>9, <1>a DEF CapsTypeOK, HandlerEnds, capVars
  <2>2. JobSound'
    <3>1. ASSUME NEW k \in Handlers, k # h PROVE hpc'[k] = hpc[k] /\ job'[k] = job[k]
      BY <3>1, <1>9, <1>0 DEF CapsTypeOK, HandlerEnds
    <3>2. hpc'[h] = "idle"
      BY <1>9, <1>0 DEF CapsTypeOK, HandlerEnds
    <3> QED
      BY <3>1, <3>2, <2>1, <1>0, OthersSound DEF JobSound
  <2> QED
    BY <2>1, <2>2, <1>9, HandlerStep DEF HandlerEnds
<1>10. ASSUME NEW h \in Handlers, NEW c \in Caps, find_root_cap_in_tx(h, c) PROVE CapInv'
  <2>1. CapsTypeOK' /\ epoch' \in 0 .. MaxEpoch
    BY <1>0, <1>10 DEF CapsTypeOK, find_root_cap_in_tx, capVars, Job, Strategies
  <2>2. JobSound'
    <3>1. ASSUME NEW k \in Handlers, k # h PROVE hpc'[k] = hpc[k] /\ job'[k] = job[k]
      BY <3>1, <1>10, <1>0 DEF CapsTypeOK, find_root_cap_in_tx
    <3>2. hpc'[h] = "found" /\ job'[h].target = c
      BY <1>10, <1>0 DEF CapsTypeOK, find_root_cap_in_tx
    <3> QED
      BY <3>1, <3>2, <2>1, <1>0, OthersSound DEF JobSound
  <2> QED
    BY <2>1, <2>2, <1>10, HandlerStep DEF find_root_cap_in_tx
<1>11. ASSUME NEW h \in Handlers, NEW c \in Caps, transfer_root_in_tx(h, c) PROVE CapInv'
  BY <1>11, TransferStep
<1>12. ASSUME NEW S \in SUBSET Caps, compact_revoked(S) PROVE CapInv'
  BY <1>12, CompactStep
<1> QED
  BY <1>1, <1>2, <1>3, <1>4, <1>5, <1>6, <1>7, <1>8, <1>9, <1>10, <1>11, <1>12
     DEF CapsNext, CapStep

\* A step that leaves the caps alone.
LEMMA CapStutter ==
  ASSUME CapInv, UNCHANGED authVars
  PROVE  CapInv'
BY DEF CapInv, CapsTypeOK, FreeBlank, BornPast, JobSound, Grand, Grounded,
       WithinParentsEpoch, authVars, capVars

\* What the invariant means when the revoke endpoint answers.
LEMMA InvClosed ==
  ASSUME CapInv
  PROVE  ClosedForGood
BY MaxEpochNat DEF CapInv, JobSound, ClosedForGood, Usable, CapsTypeOK, Job

-----------------------------------------------------------------------------
(* The caps on their own.                                                  *)

\* The invariant holds throughout the life of a session's caps.
THEOREM CapInvariance == CapsSpec => []CapInv
<1>1. CapInv /\ [CapsNext]_authVars => CapInv'
  BY CapStepInv, CapStutter
<1> QED
  BY <1>1, CapInit, PTL DEF CapsSpec

\* parent_cap always leads to an existing row of smaller stratum, so the
\* recursive CTEs of tokens.rs end, for any interleaving of delegation,
\* rerooting, transfer and collection.
THEOREM TreeGrounded == CapsSpec => []Grounded
<1>1. CapInv => Grounded
  BY DEF CapInv
<1> QED
  BY <1>1, CapInvariance, PTL

\* No cap hangs below one of an earlier epoch: the trigger of migration 015
\* checks inserts only, and the UPDATEs that move caps keep what it checked.
THEOREM EpochsNested == CapsSpec => []WithinParentsEpoch
<1>1. CapInv => WithinParentsEpoch
  BY DEF CapInv
<1> QED
  BY <1>1, CapInvariance, PTL

\* A revoke request that has advanced the epoch has closed the one it read, for
\* any number of concurrent requests, though its statements share no transaction.
THEOREM RevocationCloses == CapsSpec => []ClosedForGood
BY InvClosed, CapInvariance, PTL

\* No step makes a cap usable that had stopped being so.
LEMMA StepDead ==
  ASSUME CapInv, CapsNext, NEW c \in Caps, st[c] # "free", Usable(c)'
  PROVE  Usable(c)
<1>1. Mono /\ CapInv'
  BY StepMono, CapStepInv DEF CapInv
<1>2. st[c] = "live" /\ ~lapsed[c] /\ born'[c] = born[c] /\ born'[c] = epoch' /\ epoch <= epoch'
  BY <1>1 DEF Mono, Usable, CapInv, CapsTypeOK
<1>3. born[c] <= epoch /\ born[c] \in Nat /\ epoch \in Nat /\ epoch' \in Nat
  BY <1>1, MaxEpochNat DEF CapInv, BornPast, CapsTypeOK
<1> QED
  BY <1>2, <1>3 DEF Usable

\* Revocation, expiry and epoch advance are final for a cap, whatever is
\* rerooted, transferred or collected around it.
THEOREM DeadNeverRevive == CapsSpec => DeadStaysDead
<1>1. CapInv /\ [CapsNext]_authVars =>
        [\A c \in Caps : st[c] # "free" /\ ~Usable(c) => ~Usable(c)']_authVars
  BY StepDead
<1> QED
  BY <1>1, CapInvariance, PTL DEF CapsSpec, DeadStaysDead

-----------------------------------------------------------------------------
(* Tool calls.                                                             *)

\* Every step of the broker is a step of the caps or leaves them alone.
LEMMA OrbCapStep ==
  ASSUME OrbNext \/ UNCHANGED orbVars
  PROVE  CapsNext \/ UNCHANGED authVars
BY DEF OrbNext, CapsNext, CompactCaps, Call, get_cap, AutoApprove, create_approval_for_session,
       issue, poll_approval, Polled, Decision, deny, ReceiptLapses, compact_receipt, consume,
       Release, orbVars

\* Invoking and consuming touch no cap: whatever is proved of CapsSpec holds
\* beneath the broker.
THEOREM OrbKeepsCaps == OrbSpec => CapsSpec
<1>1. OrbInit => CapsInit
  BY DEF OrbInit
<1>2. [OrbNext]_orbVars => [CapsNext]_authVars
  BY OrbCapStep
<1> QED
  BY <1>1, <1>2, PTL DEF OrbSpec, CapsSpec

\* What is true of one call: nothing is released before its receipt exists, a
\* receipt that can still be consumed has released nothing, and a call that
\* runs has consumed its receipt with its approval granted.
CallSound(s) ==
  /\ cpc[s] # "idle" => using[s] \in Caps
  /\ cpc[s] \in {"idle", "seen", "auto"} => gate[s] = "none"
  /\ cpc[s] \in {"idle", "seen", "auto", "requested"} => receipt[s] = "none"
  /\ receipt[s] \in {"none", "fresh"} => released[s] = 0
  /\ released[s] <= 1
  /\ cpc[s] \in {"polling", "consuming", "run"} /\ gate[s] # "none" => bound[s]
  /\ cpc[s] = "run" => released[s] = 1 /\ (bound[s] => gate[s] = "granted")

OrbInv == TypeOK /\ CapInv /\ \A s \in Calls : CallSound(s)

\* The invariant holds before the first call.
LEMMA OrbStarts ==
  ASSUME OrbInit
  PROVE  OrbInv
<1>1. CapInv
  BY CapInit DEF OrbInit
<1>2. TypeOK
  BY <1>1 DEF TypeOK, OrbInit, CapInv, Gate!GateInit, CallStates
<1> QED
  BY <1>1, <1>2 DEF OrbInv, CallSound, OrbInit, Gate!GateInit

\* A step of the broker keeps the caps' invariant.
LEMMA OrbCapInv ==
  ASSUME OrbInv, OrbNext \/ UNCHANGED orbVars
  PROVE  CapInv' /\ CapsTypeOK'
<1>1. CapInv'
  BY OrbCapStep, CapStepInv, CapStutter DEF OrbInv
<1> QED
  BY <1>1 DEF CapInv

\* A step that changes one call leaves the others as they were.
LEMMA OneCall ==
  ASSUME OrbInv, NEW s \in Calls,
         TypeOK', CapInv', CallSound(s)',
         \A o \in Calls \ {s} :
           /\ cpc'[o] = cpc[o] /\ using'[o] = using[o] /\ receipt'[o] = receipt[o]
           /\ bound'[o] = bound[o] /\ released'[o] = released[o] /\ gate'[o] = gate[o]
  PROVE  OrbInv'
BY DEF OrbInv, CallSound

\* Every action of a call preserves the invariant.
LEMMA CallStep ==
  ASSUME OrbInv, NEW s \in Calls, Call(s)
  PROVE  OrbInv'
<1>0. CapInv' /\ CapsTypeOK'
  BY OrbCapInv DEF OrbNext
<1>t. TypeOK /\ CallSound(s)
  BY DEF OrbInv
<1> USE <1>t DEF Goto, callVars
<1>1. ASSUME NEW c \in Caps, get_cap(s, c) PROVE OrbInv'
  <2>1. TypeOK'
    BY <1>0, <1>1 DEF get_cap, TypeOK, CallStates
  <2>2. CallSound(s)'
    BY <1>1 DEF get_cap, TypeOK, CallSound
  <2> QED
    BY <1>0, <1>1, <2>1, <2>2, OneCall DEF get_cap, TypeOK
<1>2. CASE AutoApprove(s)
  <2>1. TypeOK'
    BY <1>0, <1>2 DEF AutoApprove, TypeOK, CallStates
  <2>2. CallSound(s)'
    BY <1>2 DEF AutoApprove, TypeOK, CallSound
  <2> QED
    BY <1>0, <1>2, <2>1, <2>2, OneCall DEF AutoApprove, TypeOK
<1>3. CASE create_approval_for_session(s)
  <2>1. TypeOK'
    BY <1>0, <1>3 DEF create_approval_for_session, Gate!Open, TypeOK, CallStates
  <2>2. CallSound(s)'
    BY <1>3 DEF create_approval_for_session, Gate!Open, TypeOK, CallSound
  <2> QED
    BY <1>0, <1>3, <2>1, <2>2, OneCall DEF create_approval_for_session, Gate!Open, TypeOK
<1>4. CASE issue(s)
  <2>1. TypeOK'
    BY <1>0, <1>4 DEF issue, TypeOK, CallStates
  <2>2. CallSound(s)'
    BY <1>4 DEF issue, TypeOK, CallSound
  <2> QED
    BY <1>0, <1>4, <2>1, <2>2, OneCall DEF issue, TypeOK
<1>5. CASE poll_approval(s)
  <2>1. TypeOK'
    BY <1>0, <1>5 DEF poll_approval, Gate!Ask, TypeOK
  <2>2. CallSound(s)'
    BY <1>5 DEF poll_approval, Gate!Ask, TypeOK, CallSound
  <2> QED
    BY <1>0, <1>5, <2>1, <2>2, OneCall DEF poll_approval, Gate!Ask, TypeOK
<1>6. ASSUME NEW d \in {"granted", "blocked"}, Polled(s, d) PROVE OrbInv'
  <2>1. TypeOK'
    BY <1>0, <1>6 DEF Polled, Gate!Tell, TypeOK, CallStates
  <2>2. CallSound(s)'
    BY <1>6 DEF Polled, Gate!Tell, TypeOK, CallSound
  <2> QED
    BY <1>0, <1>6, <2>1, <2>2, OneCall DEF Polled, Gate!Tell, TypeOK
<1>7. CASE Decision(s)
  <2>1. /\ gate' \in [Calls -> {"none", "open", "granted", "refused"}]
        /\ gate[s] = "open" /\ gate'[s] # "none" /\ answer' = answer
        /\ \A o \in Calls \ {s} : gate'[o] = gate[o]
    BY <1>7 DEF Decision, Gate!Grant, Gate!Refuse, TypeOK
  <2>2. TypeOK'
    BY <1>0, <1>7, <2>1 DEF Decision, TypeOK
  <2>3. CallSound(s)'
    BY <1>7, <2>1 DEF Decision, TypeOK, CallSound
  <2> QED
    BY <1>0, <1>7, <2>1, <2>2, <2>3, OneCall DEF Decision
<1>8. CASE deny(s)
  <2>1. TypeOK'
    BY <1>0, <1>8 DEF deny, TypeOK, CallStates
  <2>2. CallSound(s)'
    BY <1>8 DEF deny, TypeOK, CallSound, CallStates
  <2> QED
    BY <1>0, <1>8, <2>1, <2>2, OneCall DEF deny, TypeOK
<1>9. CASE consume(s)
  <2>1. PICK p \in {"run", "denied", "consuming"} : cpc' = [cpc EXCEPT ![s] = p]
    BY <1>9 DEF consume, Release
  <2>2. TypeOK'
    BY <1>0, <1>9, <2>1 DEF consume, Release, TypeOK, CallStates
  <2>3. released[s] = 0 /\ released'[s] = 1 /\ receipt'[s] = "used" /\ cpc'[s] = p
    BY <1>9, <2>1 DEF consume, Release, TypeOK, CallSound
  <2>4. CallSound(s)'
    BY <1>9, <2>1, <2>3 DEF consume, Release, TypeOK, CallSound
  <2> QED
    BY <1>0, <1>9, <2>1, <2>2, <2>4, OneCall DEF consume, Release, TypeOK
<1>10. CASE ReceiptLapses(s)
  <2>1. TypeOK'
    BY <1>0, <1>10 DEF ReceiptLapses, TypeOK
  <2>2. CallSound(s)'
    BY <1>10 DEF ReceiptLapses, TypeOK, CallSound
  <2> QED
    BY <1>0, <1>10, <2>1, <2>2, OneCall DEF ReceiptLapses, TypeOK
<1>11. CASE compact_receipt(s)
  <2>1. TypeOK'
    BY <1>0, <1>11 DEF compact_receipt, TypeOK
  <2>2. CallSound(s)'
    BY <1>11 DEF compact_receipt, TypeOK, CallSound
  <2> QED
    BY <1>0, <1>11, <2>1, <2>2, OneCall DEF compact_receipt, TypeOK
<1> QED
  BY <1>1, <1>2, <1>3, <1>4, <1>5, <1>6, <1>7, <1>8, <1>9, <1>10, <1>11 DEF Call

\* Every step of the broker preserves the invariant.
LEMMA OrbStep ==
  ASSUME OrbInv, [OrbNext]_orbVars
  PROVE  OrbInv'
<1>0. CapInv' /\ CapsTypeOK'
  BY OrbCapInv
<1>1. CASE UNCHANGED <<callVars, gate, answer>>
  BY <1>0, <1>1 DEF OrbInv, TypeOK, CallSound, callVars
<1>2. ASSUME NEW S \in SUBSET Caps, CompactCaps(S) PROVE OrbInv'
  <2>1. TypeOK'
    BY <1>0, <1>2 DEF OrbInv, TypeOK, CompactCaps
  <2>2. \A o \in Calls : receipt'[o] = receipt[o] \/ (receipt[o] # "none" /\ receipt'[o] = "gone")
    BY <1>2 DEF CompactCaps
  <2>3. \A o \in Calls : CallSound(o)'
    BY <1>2, <2>2 DEF OrbInv, CompactCaps, CallSound
  <2> QED
    BY <1>0, <2>1, <2>3 DEF OrbInv
<1> QED
  BY <1>1, <1>2, CallStep DEF OrbNext, orbVars

\* The invariant holds throughout.
THEOREM OrbInvariance == OrbSpec => []OrbInv
BY OrbStarts, OrbStep, PTL DEF OrbSpec

\* Caps, calls, receipts and approvals keep their types; in particular the
\* epoch register never passes its bound.
THEOREM TypeCorrect == OrbSpec => []TypeOK
<1>1. OrbInv => TypeOK
  BY DEF OrbInv
<1> QED
  BY <1>1, OrbInvariance, PTL

\* consume releases the arguments of a receipt at most once, under repeated
\* delivery and whatever the collectors do.
THEOREM ReceiptReleasedOnce == OrbSpec => []ReleasedOnce
<1>1. OrbInv => ReleasedOnce
  BY DEF OrbInv, CallSound, ReleasedOnce
<1> QED
  BY <1>1, OrbInvariance, PTL

\* A call that was put to a human runs only with the approval granted, even
\* behind a shim that fails open: consume looks at the approval again.
THEOREM OnlyApprovedRun == OrbSpec => []RunsApproved
<1>1. OrbInv => RunsApproved
  BY DEF OrbInv, CallSound, RunsApproved
<1> QED
  BY <1>1, OrbInvariance, PTL

\* The step that releases arguments finds the cap usable, hence of no epoch a
\* revocation has closed.
LEMMA StepReleases ==
  ASSUME OrbInv, OrbNext, NEW s \in Calls, released'[s] # released[s]
  PROVE  /\ Usable(using[s])
         /\ \A h \in Handlers : hpc[h] = "advanced" => born[using[s]] > job[h].closed
<1>1. consume(s)
  BY ZenonT(60) DEF OrbNext, CapStep, CompactCaps, Call, get_cap, AutoApprove, create_approval_for_session,
         issue, poll_approval, Polled, Decision, deny, ReceiptLapses, compact_receipt, consume,
         Release, callVars, OrbInv, TypeOK
<1>2. Usable(using[s]) /\ using[s] \in Caps
  BY <1>1 DEF consume, Release, OrbInv, CallSound
<1>3. ClosedForGood
  BY InvClosed DEF OrbInv
<1>4. /\ born[using[s]] \in Nat
      /\ \A h \in Handlers : job[h].closed \in Nat
  BY <1>2, MaxEpochNat DEF OrbInv, CapInv, CapsTypeOK, Job
<1> QED
  BY <1>2, <1>3, <1>4 DEF ClosedForGood

\* Between /invoke and consume the cap may be revoked and its epoch closed; the
\* arguments are then never released.
THEOREM ReleasedOnlyWhileUsable == OrbSpec => ReleasedWhileUsable
<1>1. OrbInv /\ [OrbNext]_orbVars =>
        [\A s \in Calls : released'[s] # released[s] =>
           /\ Usable(using[s])
           /\ \A h \in Handlers : hpc[h] = "advanced" => born[using[s]] > job[h].closed]_orbVars
  BY StepReleases
<1> QED
  BY <1>1, OrbInvariance, PTL DEF OrbSpec, ReleasedWhileUsable

-----------------------------------------------------------------------------
(* The session task.  Sequences of whatever elements, and least numbers.   *)

IsSeq(q) == q \in Seq(Range(q))

LEMMA SeqIsSeq ==
  ASSUME NEW S, NEW q \in Seq(S)
  PROVE  /\ IsSeq(q) /\ Len(q) \in Nat /\ DOMAIN q = 1..Len(q)
         /\ \A n \in 1..Len(q) : q[n] \in S
<1>1. Len(q) \in Nat /\ q \in [1..Len(q) -> S] /\ DOMAIN q = 1..Len(q)
  BY LenProperties
<1>2. q \in [1..Len(q) -> Range(q)]
  BY <1>1 DEF Range
<1>3. q \in Seq(Range(q))
  BY <1>1, <1>2, SeqDef
<1>4. QED
  BY <1>1, <1>3 DEF IsSeq

LEMMA SeqShape ==
  ASSUME NEW q, IsSeq(q)
  PROVE  Len(q) \in Nat /\ DOMAIN q = 1..Len(q) /\ (q = <<>> <=> Len(q) = 0)
BY LenProperties, EmptySeq DEF IsSeq

LEMMA Cat ==
  ASSUME NEW p, NEW q, IsSeq(p), IsSeq(q)
  PROVE  /\ IsSeq(p \o q) /\ Len(p \o q) = Len(p) + Len(q)
         /\ \A n \in 1..Len(p) : (p \o q)[n] = p[n]
         /\ \A n \in 1..Len(q) : (p \o q)[Len(p) + n] = q[n]
<1> DEFINE S == Range(p) \cup Range(q)
<1>1. p \in Seq(S) /\ q \in Seq(S)
  BY SeqMonotonic DEF IsSeq
<1>2. Len(p) \in Nat /\ Len(q) \in Nat
  BY SeqShape
<1>3. /\ p \o q \in Seq(S) /\ Len(p \o q) = Len(p) + Len(q)
      /\ \A i \in 1..Len(p) + Len(q) : (p \o q)[i] = IF i <= Len(p) THEN p[i] ELSE q[i - Len(p)]
  BY <1>1, ConcatProperties
<1>4. IsSeq(p \o q)
  BY <1>3, SeqIsSeq
<1>5. QED
  BY <1>2, <1>3, <1>4

LEMMA OneSeq ==
  ASSUME NEW a
  PROVE  IsSeq(<<a>>) /\ Len(<<a>>) = 1 /\ <<a>>[1] = a
<1>1. <<a>> \in Seq({a})
  OBVIOUS
<1>2. QED
  BY <1>1, SeqIsSeq

LEMMA NoSeq == IsSeq(<<>>) /\ Len(<<>>) = 0
<1>1. <<>> \in Seq({})
  OBVIOUS
<1>2. QED
  BY <1>1, SeqIsSeq

LEMMA AddOne ==
  ASSUME NEW q, IsSeq(q), NEW a
  PROVE  /\ IsSeq(Append(q, a)) /\ Len(Append(q, a)) = Len(q) + 1
         /\ \A n \in 1..Len(q) : Append(q, a)[n] = q[n]
         /\ Append(q, a)[Len(q) + 1] = a
<1> DEFINE S == Range(q) \cup {a}
<1>1. q \in Seq(S)
  BY SeqMonotonic DEF IsSeq
<1>2. Len(q) \in Nat /\ Append(q, a) \in Seq(S) /\ Len(Append(q, a)) = Len(q) + 1
  BY <1>1
<1>3. /\ \A n \in 1..Len(q) : Append(q, a)[n] = q[n]
      /\ Append(q, a)[Len(q) + 1] = a
  BY <1>1
<1>4. QED
  BY <1>2, <1>3, SeqIsSeq

LEMMA Rest ==
  ASSUME NEW q, IsSeq(q), q # <<>>
  PROVE  /\ IsSeq(Tail(q)) /\ Len(Tail(q)) = Len(q) - 1 /\ Head(q) = q[1]
         /\ Len(q) \in Nat \ {0}
         /\ \A n \in 1..(Len(q) - 1) : Tail(q)[n] = q[n + 1]
<1>1. Tail(q) \in Seq(Range(q)) /\ Len(Tail(q)) = Len(q) - 1
      /\ \A n \in 1..Len(Tail(q)) : Tail(q)[n] = q[n + 1]
  BY HeadTailProperties DEF IsSeq
<1>2. Head(q) = q[1]
  BY DEF IsSeq
<1>3. Len(q) \in Nat \ {0}
  BY EmptySeq DEF IsSeq
<1>4. QED
  BY <1>1, <1>2, <1>3, SeqIsSeq

LEMMA Listed ==
  ASSUME NEW S, IsFiniteSet(S)
  PROVE  SetToSeq(S) \in Seq(S)
<1>1. Cardinality(S) \in Nat /\ ExistsBijection(1..Cardinality(S), S)
  BY FS_CardinalityType
<1>2. PICK f \in [1..Cardinality(S) -> S] : IsInjective(f)
  BY <1>1 DEF ExistsBijection, Bijection, Injection, IsInjective
<1>3. SetToSeq(S) \in [1..Cardinality(S) -> S]
  BY <1>2 DEF SetToSeq
<1>4. QED
  BY <1>1, <1>3, SeqDef

LEMMA LessOnNat == IsWellFoundedOn({ss \in Nat \X Nat : ss[1] < ss[2]}, Nat)
BY NatLessThanWellFounded DEF OpToRel

\* What a proof by induction needs: a set of numbers has a least one.
LEMMA LeastNat ==
  ASSUME NEW T, T \subseteq Nat, T # {}
  PROVE  \E x \in T : \A y \in T : x <= y
<1> DEFINE R == {ss \in Nat \X Nat : ss[1] < ss[2]}
<1>1. IsWellFoundedOn(R, Nat)
  BY LessOnNat
<1>2. \A a, b \in Nat : a < b => <<a, b>> \in R
  OBVIOUS
<1> HIDE DEF R
<1>3. PICK x \in T : \A y \in T : ~(<<y, x>> \in R)
  BY <1>1, WFMin
<1>4. \A y \in T : x <= y
  <2> TAKE y \in T
  <2>1. x \in Nat /\ y \in Nat /\ ~(y < x)
    BY <1>2, <1>3
  <2>2. QED
    BY <2>1
<1>5. QED
  BY <1>4

-----------------------------------------------------------------------------
(* Replaying a log one row longer is one more step.                        *)

Blank == [m |-> NewMemory, ts |-> {}]

\* f is the run of a replay over the first k rows.
Replays(f, rows, k) ==
  /\ f = [n \in 0..k |-> f[n]]
  /\ f[0] = Blank
  /\ \A n \in 1..k : f[n] = ReplayRow(f[n - 1], rows[n])

Same(r, q, k) == \A n \in 1..k : r[n] = q[n]

LEMMA ReplaysAgree ==
  ASSUME NEW k \in Nat, NEW r, NEW q, Same(r, q, k),
         NEW i \in Nat, NEW j \in Nat, k <= i, k <= j,
         NEW f, NEW g, Replays(f, r, i), Replays(g, q, j)
  PROVE  \A n \in 0..k : f[n] = g[n]
<1> DEFINE Bad == {n \in 0..k : f[n] # g[n]}
<1>1. SUFFICES ASSUME Bad # {} PROVE FALSE
  OBVIOUS
<1>2. PICK x \in Bad : \A y \in Bad : x <= y
  <2>1. Bad \subseteq Nat
    OBVIOUS
  <2> HIDE DEF Bad
  <2>2. QED
    BY <1>1, <2>1, LeastNat
<1>3. x # 0
  BY DEF Replays
<1>4. x - 1 \in 0..k /\ x - 1 \notin Bad
  BY <1>2, <1>3
<1>5. f[x - 1] = g[x - 1] /\ r[x] = q[x] /\ x \in 1..i /\ x \in 1..j
  BY <1>3, <1>4 DEF Same
<1>6. f[x] = g[x]
  BY <1>5 DEF Replays
<1>7. QED
  BY <1>6

LEMMA ReplaysExist ==
  ASSUME NEW rows, NEW k \in Nat
  PROVE  \E f : Replays(f, rows, k)
<1> DEFINE Bad == {n \in Nat : ~\E f : Replays(f, rows, n)}
<1>1. SUFFICES ASSUME Bad # {} PROVE FALSE
  OBVIOUS
<1>2. PICK x \in Bad : \A y \in Bad : x <= y
  BY <1>1, LeastNat
<1>3. Replays([n \in 0..0 |-> Blank], rows, 0)
  BY DEF Replays
<1>4. x # 0
  BY <1>3
<1>5. x - 1 \in Nat /\ x - 1 \notin Bad
  BY <1>2, <1>4
<1>6. PICK g : Replays(g, rows, x - 1)
  BY <1>5
<1> DEFINE h == [n \in 0..x |-> IF n = x THEN ReplayRow(g[x - 1], rows[x]) ELSE g[n]]
<1>7. h = [n \in 0..x |-> h[n]] /\ h[0] = Blank
  BY <1>4, <1>6 DEF Replays
<1>8. ASSUME NEW n \in 1..x PROVE h[n] = ReplayRow(h[n - 1], rows[n])
  <2>1. CASE n = x
    <3>1. h[x] = ReplayRow(g[x - 1], rows[x]) /\ h[x - 1] = g[x - 1]
      BY <1>4
    <3>2. QED
      BY <2>1, <3>1
  <2>2. CASE n # x
    <3>1. n \in 1..(x - 1) /\ h[n] = g[n] /\ h[n - 1] = g[n - 1]
      BY <1>4, <2>2
    <3>2. QED
      BY <1>6, <3>1 DEF Replays
  <2>3. QED
    BY <2>1, <2>2
<1>9. Replays(h, rows, x)
  <2> HIDE DEF h
  <2>1. QED
    BY <1>7, <1>8 DEF Replays
<1>10. QED
  BY <1>9

LEMMA ReplayIsRun ==
  ASSUME NEW rows, IsSeq(rows)
  PROVE  \E f : Replays(f, rows, Len(rows)) /\ Replay(rows) = f[Len(rows)]
<1> DEFINE L == Len(rows)
           D(f) == f = [n \in 0..L |-> IF n = 0 THEN Blank ELSE ReplayRow(f[n - 1], rows[n])]
           after == CHOOSE f : D(f)
<1>1. L \in Nat
  BY SeqShape
<1>2. Replay(rows) = after[L]
  BY DEF Replay, Blank
<1>3. PICK g : Replays(g, rows, L)
  BY <1>1, ReplaysExist
<1>4. D(g)
  <2>1. \A n \in 0..L : g[n] = IF n = 0 THEN Blank ELSE ReplayRow(g[n - 1], rows[n])
    BY <1>1, <1>3 DEF Replays
  <2>2. g = [n \in 0..L |-> g[n]]
    BY <1>3 DEF Replays
  <2>3. QED
    BY <2>1, <2>2
<1>5. D(after)
  BY <1>4
<1> HIDE DEF after
<1>6. Replays(after, rows, L)
  <2>1. after = [n \in 0..L |-> after[n]]
    BY <1>5
  <2>2. after[0] = Blank
    BY <1>1, <1>5
  <2>3. ASSUME NEW n \in 1..L PROVE after[n] = ReplayRow(after[n - 1], rows[n])
    <3>1. n \in 0..L /\ n # 0
      BY <1>1
    <3>2. QED
      BY <1>5, <3>1
  <2>4. QED
    BY <2>1, <2>2, <2>3 DEF Replays
<1>7. QED
  BY <1>2, <1>6

LEMMA ReplayGrows ==
  ASSUME NEW rows, IsSeq(rows), NEW e
  PROVE  Replay(Append(rows, e)) = ReplayRow(Replay(rows), e)
<1> DEFINE L == Len(rows)
           more == Append(rows, e)
<1>1. /\ L \in Nat /\ IsSeq(more) /\ Len(more) = L + 1
      /\ \A n \in 1..L : more[n] = rows[n]
      /\ more[L + 1] = e
  BY SeqShape, AddOne
<1> HIDE DEF more
<1>2. PICK f : Replays(f, rows, L) /\ Replay(rows) = f[L]
  BY ReplayIsRun
<1>3. PICK g : Replays(g, more, L + 1) /\ Replay(more) = g[L + 1]
  BY <1>1, ReplayIsRun
<1>4. g[L + 1] = ReplayRow(g[L], more[L + 1])
  <2>1. L + 1 \in 1..(L + 1) /\ (L + 1) - 1 = L
    BY <1>1
  <2>2. QED
    BY <1>3, <2>1 DEF Replays
<1>5. \A n \in 0..L : f[n] = g[n]
  <2>1. Same(rows, more, L)
    BY <1>1 DEF Same
  <2>2. L + 1 \in Nat /\ L <= L + 1 /\ L <= L
    BY <1>1
  <2>3. Replays(f, rows, L) /\ Replays(g, more, L + 1)
    BY <1>2, <1>3
  <2>4. L \in Nat
    BY <1>1
  <2> HIDE DEF L
  <2>5. QED
    BY <2>1, <2>2, <2>3, <2>4, ReplaysAgree
<1>6. f[L] = g[L]
  BY <1>1, <1>5
<1>7. QED
  BY <1>1, <1>2, <1>3, <1>4, <1>6 DEF more

-----------------------------------------------------------------------------
(* What a replayed event does to a task's memory.                          *)

Fields == {"state", "policy", "eligible", "epoch", "members", "caps", "appr", "sagas", "gates", "rules"}

SagaRec == [st : {"none", "Running", "Waiting", "Compensating", "Completed", "Aborted"}, i : Nat]

GateRec == [kind : {"none", "defer", "approval"}, held : BOOLEAN]

Shaped(m) ==
  /\ DOMAIN m = Fields
  /\ m.sagas \in [SagaIds -> SagaRec]
  /\ m.gates \in [BundleIds -> GateRec]

GateEvents == {"BundleDeferred", "BundleApprovalGated"}

\* What a row of the log is known to name.
EventOK(e) ==
  /\ e.k = "SagaTerminated" => e.out \in {"Completed", "Aborted"}
  /\ e.k = "SagaStepSent" => e.i \in Nat /\ e.i < Sagas[e.s].steps
  /\ e.k \in GateEvents => e.b \in BundleIds

\* The effects a replayed event has.
Echo(m, e, f) ==
  \/ f.k = "cancel"
  \/ f.k = "deliver" /\ f.b \in BundleIds /\ m.gates[f.b].held
  \/ f.k = "arm" /\ e.k = "BundleDeferred" /\ f.t = DeferTimer(e.b)

\* A replayed event holds no bundle, and makes a gate that holds none only
\* where there was no gate.
GatesFollow(m, e, r) ==
  \A b \in BundleIds :
    /\ r.m.gates[b].held => m.gates[b].held
    /\ r.m.gates[b].kind # "none" /\ ~r.m.gates[b].held =>
         \/ m.gates[b].kind # "none" /\ ~m.gates[b].held
         \/ m.gates[b].kind = "none" /\ e.k \in GateEvents /\ e.b = b

Applied(m, e, r) ==
  /\ DOMAIN r.m = Fields
  /\ r.m.gates \in [BundleIds -> GateRec]
  /\ IsSeq(r.fx)
  /\ \A n \in 1..Len(r.fx) : Echo(m, e, r.fx[n])
  /\ GatesFollow(m, e, r)

LEMMA OneEcho ==
  ASSUME NEW m, NEW e, NEW fx, fx = <<>> \/ \E f : fx = <<f>> /\ Echo(m, e, f)
  PROVE  IsSeq(fx) /\ \A n \in 1..Len(fx) : Echo(m, e, fx[n])
<1>1. CASE fx = <<>>
  BY <1>1, NoSeq
<1>2. CASE \E f : fx = <<f>> /\ Echo(m, e, f)
  <2>1. PICK f : fx = <<f>> /\ Echo(m, e, f)
    BY <1>2
  <2>2. IsSeq(fx) /\ Len(fx) = 1 /\ fx[1] = f
    BY <2>1, OneSeq
  <2>3. QED
    BY <2>1, <2>2
<1>3. QED
  BY <1>1, <1>2

LEMMA AppliesLifecycle ==
  ASSUME NEW m, Shaped(m), NEW e, e.k \in Lifecycle
  PROVE  Applied(m, e, ApplyLogged(m, e)) /\ ApplyLogged(m, e).m.sagas = m.sagas
<1> DEFINE r == ApplyLogged(m, e)
<1>1. r = ApplyLifecycle(m, e)
  BY DEF ApplyLogged, Lifecycle, Participation, CapAlgebra, ApprovalAlgebra, SagaAlgebra, PolicyAlgebra
<1>2. DOMAIN r.m = Fields /\ r.m.gates = m.gates /\ r.m.sagas = m.sagas /\ r.fx = <<>>
  BY <1>1 DEF Shaped, Fields, ApplyLifecycle, RecountEligible, Result, Lifecycle
<1>3. QED
  BY <1>2, NoSeq DEF Applied, Shaped, GatesFollow

LEMMA AppliesParticipation ==
  ASSUME NEW m, Shaped(m), NEW e, e.k \in Participation
  PROVE  Applied(m, e, ApplyLogged(m, e)) /\ ApplyLogged(m, e).m.sagas = m.sagas
<1> DEFINE r == ApplyLogged(m, e)
<1>1. r = ApplyParticipation(m, e)
  BY SMTT(40) DEF ApplyLogged, Lifecycle, Participation, CapAlgebra, ApprovalAlgebra, SagaAlgebra, PolicyAlgebra
<1>2. DOMAIN r.m = Fields /\ r.m.gates = m.gates /\ r.m.sagas = m.sagas /\ r.fx = <<>>
  BY <1>1 DEF Shaped, Fields, ApplyParticipation, RecountEligible, Result, Participation
<1>3. QED
  BY <1>2, NoSeq DEF Applied, Shaped, GatesFollow

LEMMA AppliesCap ==
  ASSUME NEW m, Shaped(m), NEW e, e.k \in CapAlgebra
  PROVE  Applied(m, e, ApplyLogged(m, e)) /\ ApplyLogged(m, e).m.sagas = m.sagas
<1> DEFINE r == ApplyLogged(m, e)
<1>1. r = ApplyCap(m, e)
  BY DEF ApplyLogged, Lifecycle, Participation, CapAlgebra, ApprovalAlgebra, SagaAlgebra, PolicyAlgebra
<1>2. DOMAIN r.m = Fields /\ r.m.gates = m.gates /\ r.m.sagas = m.sagas /\ r.fx = <<>>
  BY <1>1 DEF Shaped, Fields, ApplyCap, Result, CapAlgebra
<1>3. QED
  BY <1>2, NoSeq DEF Applied, Shaped, GatesFollow

LEMMA AppliesPolicy ==
  ASSUME NEW m, Shaped(m), NEW e, e.k \in PolicyAlgebra
  PROVE  Applied(m, e, ApplyLogged(m, e)) /\ ApplyLogged(m, e).m.sagas = m.sagas
<1> DEFINE r == ApplyLogged(m, e)
<1>1. r = ApplyBundle(m, e)
  BY DEF ApplyLogged, Lifecycle, Participation, CapAlgebra, ApprovalAlgebra, SagaAlgebra, PolicyAlgebra
<1>2. DOMAIN r.m = Fields /\ r.m.sagas = m.sagas
  BY <1>1 DEF Shaped, Fields, ApplyBundle, Result, PolicyAlgebra
<1>3. r.fx = <<>> \/ (e.k = "BundleDeferred" /\ r.fx = <<SetTimer(DeferTimer(e.b))>>)
  <2>1. CASE e.k = "BundleDeferred"
    BY <1>1, <2>1 DEF ApplyBundle, Result
  <2>2. CASE e.k # "BundleDeferred"
    BY <1>1, <2>2 DEF ApplyBundle, Result, PolicyAlgebra
  <2>3. QED
    BY <2>1, <2>2
<1>4. r.m.gates \in [BundleIds -> GateRec] /\ GatesFollow(m, e, r)
  <2>1. CASE e.k \in {"BundleAnnotated", "PolicySet"}
    <3>1. r.m.gates = m.gates
      BY <1>1, <2>1 DEF Shaped, Fields, ApplyBundle, Result
    <3>2. QED
      BY <3>1 DEF Shaped, GatesFollow
  <2>2. CASE e.k = "BundleRejected"
    <3>1. r.m.gates = [m.gates EXCEPT ![e.b] = [kind |-> "none", held |-> FALSE]]
      BY <1>1, <2>2 DEF Shaped, Fields, ApplyBundle, Result
    <3>2. r.m.gates \in [BundleIds -> GateRec]
      <4>1. [kind |-> "none", held |-> FALSE] \in GateRec
        BY DEF GateRec
      <4>2. QED
        BY <3>1, <4>1 DEF Shaped
    <3>3. \A b \in BundleIds : r.m.gates[b] = m.gates[b] \/ r.m.gates[b] = [kind |-> "none", held |-> FALSE]
      BY <3>1 DEF Shaped
    <3> HIDE DEF r
    <3>4. QED
      BY <3>2, <3>3 DEF Shaped, GatesFollow, GateRec
  <2>3. CASE e.k \in GateEvents
    <3>1. PICK kind \in {"defer", "approval"} :
            r.m.gates = [m.gates EXCEPT ![e.b] = IF @.kind = "none" THEN [kind |-> kind, held |-> FALSE] ELSE @]
      BY <1>1, <2>3 DEF Shaped, Fields, ApplyBundle, Result, GateEvents
    <3>2. r.m.gates \in [BundleIds -> GateRec]
      <4>1. [kind |-> kind, held |-> FALSE] \in GateRec
        BY DEF GateRec
      <4>2. QED
        BY <3>1, <4>1 DEF Shaped
    <3>3. \A b \in BundleIds :
            \/ r.m.gates[b] = m.gates[b]
            \/ b = e.b /\ m.gates[b].kind = "none" /\ r.m.gates[b] = [kind |-> kind, held |-> FALSE]
      BY <3>1 DEF Shaped
    <3> HIDE DEF r
    <3>4. QED
      BY <2>3, <3>2, <3>3 DEF Shaped, GatesFollow, GateRec
  <2>4. QED
    BY <2>1, <2>2, <2>3 DEF PolicyAlgebra, GateEvents
<1>5. IsSeq(r.fx) /\ \A n \in 1..Len(r.fx) : Echo(m, e, r.fx[n])
  <2>1. e.k = "BundleDeferred" => Echo(m, e, SetTimer(DeferTimer(e.b)))
    BY DEF Echo, SetTimer
  <2> HIDE DEF r
  <2>2. QED
    BY <1>3, <2>1, OneEcho
<1>6. QED
  BY <1>2, <1>4, <1>5 DEF Applied

LEMMA AppliesApproval ==
  ASSUME NEW m, Shaped(m), NEW e, e.k \in ApprovalAlgebra
  PROVE  Applied(m, e, ApplyLogged(m, e)) /\ ApplyLogged(m, e).m.sagas = m.sagas
<1> DEFINE r == ApplyLogged(m, e)
<1>1. r = ApplyApproval(m, e)
  BY DEF ApplyLogged, Lifecycle, Participation, CapAlgebra, ApprovalAlgebra, SagaAlgebra, PolicyAlgebra
<1>2. CASE e.k # "ApprovalGranted"
  <2>1. DOMAIN r.m = Fields /\ r.m.sagas = m.sagas /\ r.m.gates = m.gates
    <3>1. CASE e.k = "ApprovalRequested"
      BY <1>1, <3>1 DEF Shaped, Fields, ApplyApproval, Result
    <3>2. CASE e.k = "ApprovalClaimed"
      BY <1>1, <3>2 DEF Shaped, Fields, ApplyApproval, Result
    <3>3. CASE e.k = "ApprovalVoted"
      BY <1>1, <3>3 DEF Shaped, Fields, ApplyApproval, Result
    <3>4. CASE e.k = "ApprovalDenied"
      BY <1>1, <3>4 DEF Shaped, Fields, ApplyApproval, Result
    <3>5. CASE e.k \in {"ApprovalExpired", "ApprovalCancelled"}
      BY <1>1, <3>5 DEF Shaped, Fields, ApplyApproval, Result
    <3>6. CASE e.k = "ApprovalInterrupted"
      BY SMTT(40), <1>1, <3>6 DEF Shaped, Fields, ApplyApproval, Result
    <3>7. QED
      BY <1>2, <3>1, <3>2, <3>3, <3>4, <3>5, <3>6 DEF ApprovalAlgebra
  <2>2. r.fx = <<>> \/ r.fx = <<Cancel(ApprovalTimer(e.p))>>
    BY <1>1, <1>2 DEF ApplyApproval, Result, ApprovalAlgebra
  <2>3. IsSeq(r.fx) /\ \A n \in 1..Len(r.fx) : Echo(m, e, r.fx[n])
    <3>1. Echo(m, e, Cancel(ApprovalTimer(e.p)))
      BY DEF Echo, Cancel
    <3> HIDE DEF r
    <3>2. QED
      BY <2>2, <3>1, OneEcho
  <2>4. QED
    BY <2>1, <2>3 DEF Applied, Shaped, GatesFollow
<1>3. CASE e.k = "ApprovalGranted"
  <2> DEFINE close == [m EXCEPT !.appr[e.p].st = IF @ = "none" \/ (Terminal(@) /\ ~TRUE) THEN @ ELSE "Granted"]
             up    == GatedBy(close, e.p)
             order == SetToSeq({b \in up : close.gates[b].held})
             fx    == [n \in DOMAIN order |-> Deliver(order[n])]
  <2>1. DOMAIN close = Fields /\ close.sagas = m.sagas /\ close.gates = m.gates
    BY DEF Shaped, Fields
  <2>2. r = Result(LiftGates(close, e.p).m, <<Cancel(ApprovalTimer(e.p))>> \o LiftGates(close, e.p).fx)
    BY <1>1, <1>3 DEF ApplyApproval, ApprovalAlgebra
  <2>3. LiftGates(close, e.p).fx = fx
    BY DEF LiftGates, Result
  <2>4. DOMAIN r.m = Fields /\ r.m.sagas = m.sagas
        /\ r.m.gates = [b \in BundleIds |-> IF b \in up THEN [kind |-> "none", held |-> FALSE] ELSE m.gates[b]]
    <3> HIDE DEF close
    <3>1. r.m = LiftGates(close, e.p).m
      BY <2>2 DEF Result
    <3>2. LiftGates(close, e.p).m =
            [close EXCEPT !.gates = [b \in BundleIds |-> IF b \in up THEN [kind |-> "none", held |-> FALSE] ELSE @[b]]]
      BY DEF LiftGates, Result
    <3> HIDE DEF r, up
    <3>3. QED
      BY <2>1, <3>1, <3>2 DEF Fields
  <2>5. order \in Seq({b \in up : close.gates[b].held})
    <3>1. {b \in up : close.gates[b].held} \subseteq BundleIds
      BY DEF GatedBy
    <3>2. IsFiniteSet({b \in up : close.gates[b].held})
      BY <3>1, FS_Subset, SagasAssumption
    <3>3. QED
      BY <3>2, Listed
  <2>6. /\ IsSeq(fx)
        /\ \A n \in 1..Len(fx) : Echo(m, e, fx[n])
    <3> DEFINE S == {b \in up : close.gates[b].held}
               W == {Deliver(b) : b \in S}
    <3>1. \A b \in S : b \in BundleIds /\ m.gates[b].held
      BY SMTT(40), <2>1 DEF GatedBy
    <3>2. Len(order) \in Nat /\ DOMAIN order = 1..Len(order) /\ \A n \in 1..Len(order) : order[n] \in S
      BY <2>5, SeqIsSeq
    <3> HIDE DEF order, S
    <3>3. fx \in [1..Len(order) -> W]
      BY <3>2
    <3>4. fx \in Seq(W)
      BY <3>2, <3>3, SeqDef
    <3>5. \A f \in W : Echo(m, e, f)
      BY <3>1 DEF Echo, Deliver
    <3>6. IsSeq(fx) /\ \A n \in 1..Len(fx) : fx[n] \in W
      BY <3>4, SeqIsSeq
    <3>7. QED
      BY <3>5, <3>6
  <2> HIDE DEF close, fx, up
  <2>7. IsSeq(r.fx) /\ \A n \in 1..Len(r.fx) : Echo(m, e, r.fx[n])
    <3> DEFINE c == <<Cancel(ApprovalTimer(e.p))>>
    <3>1. r.fx = c \o fx
      BY <2>2, <2>3 DEF Result
    <3>2. IsSeq(c) /\ Len(c) = 1 /\ Echo(m, e, c[1])
      BY OneSeq DEF Echo, Cancel
    <3> HIDE DEF c
    <3>3. Len(fx) \in Nat
      BY <2>6, SeqShape
    <3> HIDE DEF r
    <3>4. IsSeq(r.fx) /\ Len(r.fx) = 1 + Len(fx) /\ r.fx[1] = c[1] /\ \A n \in 1..Len(fx) : r.fx[1 + n] = fx[n]
      <4>1. IsSeq(fx)
        BY <2>6
      <4>2. IsSeq(c)
        BY <3>2
      <4>3. /\ IsSeq(c \o fx) /\ Len(c \o fx) = Len(c) + Len(fx)
            /\ \A n \in 1..Len(c) : (c \o fx)[n] = c[n]
            /\ \A n \in 1..Len(fx) : (c \o fx)[Len(c) + n] = fx[n]
        BY <4>1, <4>2, Cat
      <4>4. QED
        BY <3>1, <3>2, <4>3
    <3>5. ASSUME NEW n \in 1..Len(r.fx) PROVE Echo(m, e, r.fx[n])
      <4>1. n = 1 \/ (n - 1 \in 1..Len(fx) /\ r.fx[n] = fx[n - 1])
        BY <3>3, <3>4
      <4>2. QED
        BY <2>6, <3>2, <3>4, <4>1
    <3>6. QED
      BY <3>4, <3>5
  <2>8. r.m.gates \in [BundleIds -> GateRec] /\ GatesFollow(m, e, r)
    BY <2>4 DEF Shaped, GatesFollow, GateRec
  <2>9. QED
    BY <2>4, <2>7, <2>8 DEF Applied
<1>4. QED
  BY <1>2, <1>3

LEMMA AppliesSaga ==
  ASSUME NEW m, Shaped(m), NEW e, e.k \in SagaAlgebra
  PROVE  Applied(m, e, ApplyLogged(m, e)) /\ ApplyLogged(m, e).m.gates = m.gates
         /\ ApplyLogged(m, e) = ApplySaga(m, e)
<1> DEFINE r == ApplyLogged(m, e)
<1>1. r = ApplySaga(m, e)
  BY DEF ApplyLogged, Lifecycle, Participation, CapAlgebra, ApprovalAlgebra, SagaAlgebra, PolicyAlgebra
<1>2. DOMAIN r.m = Fields /\ r.m.gates = m.gates
  BY <1>1 DEF Shaped, Fields, ApplySaga, Result, SagaAlgebra
<1>3. r.fx = <<>> \/ r.fx = <<Cancel(SagaTimer(e.s, e.i))>>
  BY <1>1 DEF ApplySaga, Result, SagaAlgebra
<1>4. IsSeq(r.fx) /\ \A n \in 1..Len(r.fx) : Echo(m, e, r.fx[n])
  <2>1. Echo(m, e, Cancel(SagaTimer(e.s, e.i)))
    BY DEF Echo, Cancel
  <2> HIDE DEF r
  <2>2. QED
    BY <1>3, <2>1, OneEcho
<1>5. QED
  BY <1>1, <1>2, <1>4 DEF Applied, Shaped, GatesFollow

LEMMA AppliesOther ==
  ASSUME NEW m, Shaped(m), NEW e,
         e.k \notin Lifecycle \cup Participation \cup CapAlgebra \cup ApprovalAlgebra \cup SagaAlgebra \cup PolicyAlgebra
  PROVE  Applied(m, e, ApplyLogged(m, e)) /\ ApplyLogged(m, e) = Result(m, <<>>) /\ ApplyLogged(m, e).m = m
<1>1. ApplyLogged(m, e) = Result(m, <<>>)
  BY DEF ApplyLogged
<1>2. QED
  BY <1>1, NoSeq DEF Applied, Result, Shaped, GatesFollow

\* What a replayed event does to the sagas depends on the sagas alone.
SagasAfter(g, e) ==
  CASE e.k = "SagaBegun"      -> [g EXCEPT ![e.s] = [st |-> "Running", i |-> 0]]
    [] e.k = "SagaStepSent"   -> [g EXCEPT ![e.s] = IF @.st = "none" THEN @ ELSE [st |-> "Waiting", i |-> e.i]]
    [] e.k = "SagaStepAcked"  ->
         [g EXCEPT ![e.s] =
            IF @ # [st |-> "Waiting", i |-> e.i] THEN @
            ELSE [st |-> IF e.out = "Committed" THEN "Running" ELSE "Compensating", i |-> e.i]]
    [] e.k = "SagaTerminated" -> [g EXCEPT ![e.s].st = IF @ = "none" THEN @ ELSE e.out]
    [] OTHER                  -> g

LEMMA SagasFollow ==
  ASSUME NEW m, Shaped(m), NEW e
  PROVE  ApplyLogged(m, e).m.sagas = SagasAfter(m.sagas, e)
<1>1. CASE e.k \in SagaAlgebra
  <2>1. ApplyLogged(m, e) = ApplySaga(m, e)
    BY <1>1, AppliesSaga
  <2>2. QED
    BY <1>1, <2>1 DEF ApplySaga, Result, SagasAfter, SagaAlgebra, Shaped, Fields
<1>2. CASE e.k \notin SagaAlgebra
  <2>1. ApplyLogged(m, e).m.sagas = m.sagas
    BY <1>2, AppliesLifecycle, AppliesParticipation, AppliesCap, AppliesApproval, AppliesPolicy, AppliesOther
  <2>2. QED
    BY <1>2, <2>1 DEF SagasAfter, SagaAlgebra
<1>3. QED
  BY <1>1, <1>2

LEMMA SagasStay ==
  ASSUME NEW g \in [SagaIds -> SagaRec], NEW e, EventOK(e)
  PROVE  SagasAfter(g, e) \in [SagaIds -> SagaRec]
<1>1. CASE e.k = "SagaBegun"
  BY <1>1 DEF SagasAfter, SagaRec
<1>2. CASE e.k = "SagaStepSent"
  BY <1>2 DEF SagasAfter, EventOK, SagaRec
<1>3. CASE e.k = "SagaStepAcked"
  <2> DEFINE h == SagasAfter(g, e)
  <2>1. h = [g EXCEPT ![e.s] = IF @ # [st |-> "Waiting", i |-> e.i] THEN @
              ELSE [st |-> IF e.out = "Committed" THEN "Running" ELSE "Compensating", i |-> e.i]]
    BY <1>3 DEF SagasAfter
  <2>2. ASSUME e.s \in SagaIds, g[e.s] = [st |-> "Waiting", i |-> e.i]
        PROVE  e.i \in Nat
    BY <2>2 DEF SagaRec
  <2>3. e.s \in SagaIds /\ g[e.s] = [st |-> "Waiting", i |-> e.i] =>
          [st |-> IF e.out = "Committed" THEN "Running" ELSE "Compensating", i |-> e.i] \in SagaRec
    BY <2>2 DEF SagaRec
  <2> HIDE DEF h
  <2>4. h \in [SagaIds -> SagaRec]
    BY <2>1, <2>3
  <2>5. QED
    BY <2>4 DEF h
<1>4. CASE e.k = "SagaTerminated"
  BY ZenonT(60), <1>4 DEF SagasAfter, EventOK, SagaRec
<1>5. CASE e.k \notin {"SagaBegun", "SagaStepSent", "SagaStepAcked", "SagaTerminated"}
  BY <1>5 DEF SagasAfter
<1>6. QED
  BY <1>1, <1>2, <1>3, <1>4, <1>5

\* A saga waits for one of its steps.
InRange(g) == \A s \in SagaIds : g[s].st = "Waiting" => g[s].i < Sagas[s].steps

\* A saga after an event: what it was before decides, and no other saga.
LEMMA SagasLocal ==
  ASSUME NEW g \in [SagaIds -> SagaRec], NEW h \in [SagaIds -> SagaRec], NEW e, NEW s \in SagaIds
  PROVE  /\ g[s] = h[s] => SagasAfter(g, e)[s] = SagasAfter(h, e)[s]
         /\ s # e.s => SagasAfter(g, e)[s] = g[s]
<1>1. CASE e.k = "SagaBegun"
  BY <1>1 DEF SagasAfter
<1>2. CASE e.k = "SagaStepSent"
  BY <1>2 DEF SagasAfter
<1>3. CASE e.k = "SagaStepAcked"
  BY <1>3 DEF SagasAfter
<1>4. CASE e.k = "SagaTerminated"
  <2>1. SagasAfter(g, e) = [g EXCEPT ![e.s].st = IF @ = "none" THEN @ ELSE e.out]
        /\ SagasAfter(h, e) = [h EXCEPT ![e.s].st = IF @ = "none" THEN @ ELSE e.out]
    BY <1>4 DEF SagasAfter
  <2>2. QED
    BY <2>1
<1>5. CASE e.k \notin {"SagaBegun", "SagaStepSent", "SagaStepAcked", "SagaTerminated"}
  BY <1>5 DEF SagasAfter
<1>6. QED
  BY <1>1, <1>2, <1>3, <1>4, <1>5

LEMMA RangeStays ==
  ASSUME NEW g \in [SagaIds -> SagaRec], InRange(g), NEW e, EventOK(e)
  PROVE  InRange(SagasAfter(g, e))
<1> SUFFICES ASSUME NEW s \in SagaIds, SagasAfter(g, e)[s].st = "Waiting"
             PROVE  SagasAfter(g, e)[s].i < Sagas[s].steps
  BY DEF InRange
<1>1. CASE s # e.s
  <2>1. SagasAfter(g, e)[s] = g[s]
    BY <1>1, SagasLocal
  <2>2. QED
    BY <2>1 DEF InRange
<1>2. CASE s = e.s /\ e.k = "SagaBegun"
  BY <1>2 DEF SagasAfter
<1>3. CASE s = e.s /\ e.k = "SagaStepSent"
  BY <1>3 DEF SagasAfter, EventOK
<1>4. CASE s = e.s /\ e.k = "SagaStepAcked"
  BY <1>4 DEF SagasAfter, InRange
<1>5. CASE s = e.s /\ e.k = "SagaTerminated"
  <2>1. SagasAfter(g, e) = [g EXCEPT ![s].st = IF @ = "none" THEN @ ELSE e.out]
    BY <1>5 DEF SagasAfter
  <2>2. SagasAfter(g, e)[s].st \in {"none", "Completed", "Aborted"}
    BY <1>5, <2>1 DEF EventOK, SagaRec
  <2>3. QED
    BY <2>2
<1>6. CASE e.k \notin {"SagaBegun", "SagaStepSent", "SagaStepAcked", "SagaTerminated"}
  <2>1. SagasAfter(g, e) = g
    BY <1>6 DEF SagasAfter
  <2>2. QED
    BY <2>1 DEF InRange
<1>7. QED
  BY <1>1, <1>2, <1>3, <1>4, <1>5, <1>6

LEMMA Applies ==
  ASSUME NEW m, Shaped(m), NEW e, EventOK(e)
  PROVE  /\ Shaped(ApplyLogged(m, e).m)
         /\ Applied(m, e, ApplyLogged(m, e))
         /\ ApplyLogged(m, e).m.sagas = SagasAfter(m.sagas, e)
<1>1. Applied(m, e, ApplyLogged(m, e))
  BY AppliesLifecycle, AppliesParticipation, AppliesCap, AppliesApproval, AppliesSaga, AppliesPolicy, AppliesOther
<1>2. ApplyLogged(m, e).m.sagas = SagasAfter(m.sagas, e)
  BY SagasFollow
<1>3. QED
  BY <1>1, <1>2, SagasStay DEF Shaped, Applied

-----------------------------------------------------------------------------
(* The inductive invariant of the session task.  The predicates take what  *)
(* they read of the state: S is sent, K the sagas, G the gates, t the      *)
(* effects still to execute, B the sagas that were set back.               *)

\* The sagas as the log has them.
Kept == Replay(log).m.sagas

\* A participant was sent step i of s.
Heard(S, s, i) == \E n \in DOMAIN S[s] : S[s][n][1] = "step" /\ S[s][n][2] = i

\* A bundle that may be handed to the saga machine.
Grounds(S, b) == b \in BundleIds /\ (Bundles[b].kind = "ack" => Heard(S, Bundles[b].saga, Bundles[b].step))

TimerOK(S, t) ==
  \/ t[1] = "approval"
  \/ t[1] = "defer" /\ t[2] \in BundleIds
  \/ t[1] = "saga" /\ t[2] \in SagaIds /\ Heard(S, t[2], t[3])

LetterOK(S, x) ==
  \/ x.k = "timer" /\ TimerOK(S, x.t)
  \/ x.k = "bundle" /\ Grounds(S, x.b)

SagaEvents == {"SagaBegun", "SagaStepSent", "SagaStepAcked", "SagaTerminated"}

\* An effect that moves no saga and sets no gate.
Plain(S, f) ==
  \/ f.k = "persist" /\ EventOK(f.e) /\ f.e.k \notin GateEvents \cup SagaEvents
  \/ f.k = "arm" /\ TimerOK(S, f.t)
  \/ f.k = "deliver" /\ Grounds(S, f.b)
  \/ f.k \in {"cancel", "close"}

AllPlain(S, t) == \A n \in 1..Len(t) : Plain(S, t[n])

\* The effects of a saga that are left, from each of them on.  The last of a
\* step's is to arm its timer, plain once its bundle is sent.
Arming(S, t, s, i)   == t # <<>> /\ Head(t) = SetTimer(SagaTimer(s, i)) /\ AllPlain(S, Tail(t))

Sending(S, t, s, i)  == t # <<>> /\ Head(t) = Send("step", s, i) /\ Arming(S, Tail(t), s, i)

Stepping(S, t, s, i) ==
  t # <<>> /\ Head(t) = Persist([k |-> "SagaStepSent", s |-> s, i |-> i]) /\ Sending(S, Tail(t), s, i)

Beginning(S, t, s)   ==
  t # <<>> /\ Head(t) = Persist([k |-> "SagaBegun", s |-> s]) /\ Stepping(S, Tail(t), s, 0)

Ending(S, t, s, how) ==
  t # <<>> /\ Head(t) = Persist([k |-> "SagaTerminated", s |-> s, out |-> how]) /\ AllPlain(S, Tail(t))

\* The compensations of the steps before c are left.
Undoing(S, t, s, c) ==
  /\ Len(t) > 2 * c
  /\ \A n \in 0..(c - 1) :
       /\ t[2 * n + 1] = Persist([k |-> "SagaCompensated", s |-> s, i |-> c - 1 - n])
       /\ t[2 * n + 2] = Send("comp", s, c - 1 - n)
  /\ t[2 * c + 1] = Persist([k |-> "SagaTerminated", s |-> s, out |-> "Aborted"])
  /\ \A n \in (2 * c + 2)..Len(t) : Plain(S, t[n])

\* So is the bundle that compensates step c.
Recalling(S, t, s, c) == t # <<>> /\ Head(t) = Send("comp", s, c) /\ Undoing(S, Tail(t), s, c)

Acking(S, t, s, i) ==
  /\ t # <<>>
  /\ \/ (\E out : out # "Committed" /\ Head(t) = Acked(s, i, out)) /\ Undoing(S, Tail(t), s, i)
     \/ /\ Head(t) = Acked(s, i, "Committed")
        /\ IF i + 1 < Sagas[s].steps THEN Stepping(S, Tail(t), s, i + 1) ELSE Ending(S, Tail(t), s, "Completed")

\* Saga s was sent q, unless it is one of B, of which nothing is said.
Told(B, S, s, q) == s \in B \/ S[s] = q

At(K, s, how, i) == K[s] = [st |-> how, i |-> i]

\* Where memory and the bundles of saga s are when the effects t are left.
StepWork(B, S, K, t, s, i) ==
  \/ At(K, s, "Running", IF i = 0 THEN 0 ELSE i - 1) /\ Told(B, S, s, Trace(i, 0)) /\ Stepping(S, t, s, i)
  \/ At(K, s, "Waiting", i) /\ Told(B, S, s, Trace(i, 0)) /\ Sending(S, t, s, i)
  \/ At(K, s, "Waiting", i) /\ Told(B, S, s, Trace(i + 1, 0)) /\ Acking(S, t, s, i)
  \/ /\ At(K, s, "Running", i) /\ i + 1 = Sagas[s].steps
     /\ Told(B, S, s, Trace(i + 1, 0)) /\ Ending(S, t, s, "Completed")
  \/ /\ At(K, s, "Compensating", i)
     /\ \E c \in 0..i : Told(B, S, s, Trace(i + 1, i - c)) /\ Undoing(S, t, s, c)
  \/ /\ At(K, s, "Compensating", i)
     /\ \E c \in 0..(i - 1) : Told(B, S, s, Trace(i + 1, i - 1 - c)) /\ Recalling(S, t, s, c)

SagaWork(B, S, K, t) ==
  \E s \in SagaIds :
    \/ K[s].st = "none" /\ Told(B, S, s, <<>>) /\ Beginning(S, t, s) /\ Sagas[s].steps > 0
    \/ \E i \in 0..(Sagas[s].steps - 1) : StepWork(B, S, K, t, s, i)

\* What may stand before them.
Lead(f) == f.k = "cancel" \/ (f.k = "persist" /\ f.e.k = "DelegationRequested")

\* A gate event is persisted when its gate is in memory.
Gating(S, G, t) ==
  /\ t # <<>> /\ Head(t).k = "persist" /\ Head(t).e.k \in GateEvents
  /\ Head(t).e.b \in BundleIds /\ G[Head(t).e.b].kind # "none"
  /\ AllPlain(S, Tail(t))

Sound(B, S, K, G, t) ==
  \/ AllPlain(S, t)
  \/ Gating(S, G, t)
  \/ SagaWork(B, S, K, t)
  \/ t # <<>> /\ Lead(Head(t)) /\ SagaWork(B, S, K, Tail(t))

\* What is known of a saga whatever was lost of its effects.
SagaSound(B, S, K, s) ==
  /\ K[s].st = "none" => Told(B, S, s, <<>>)
  /\ K[s].st = "Waiting" =>
       K[s].i < Sagas[s].steps /\ (Told(B, S, s, Trace(K[s].i, 0)) \/ Told(B, S, s, Trace(K[s].i + 1, 0)))
  /\ K[s].st = "Completed" => Told(B, S, s, Trace(Sagas[s].steps, 0))
  /\ K[s].st = "Aborted" => s \in B \/ \E k \in 1..Sagas[s].steps : S[s] = Trace(k, k - 1)

HeldSound(S, G) == \A b \in BundleIds : G[b].held => Grounds(S, b)

MailSound(S, ts, q) ==
  /\ \A t \in ts : TimerOK(S, t)
  /\ \A n \in 1..Len(q) : LetterOK(S, q[n])

TaskType ==
  /\ Shaped(mem)
  /\ IsSeq(log) /\ IsSeq(todo) /\ IsSeq(inbox)
  /\ DOMAIN sent = SagaIds /\ \A s \in SagaIds : IsSeq(sent[s])
  /\ \A n \in 1..Len(log) : EventOK(log[n])
  /\ restarts \in Nat
  /\ missed \in [SagaIds -> Nat]

\* A task that died has no memory; what there is of the sagas is in the log.
Lost == ~running /\ mem = NewMemory

View == IF Lost THEN Kept ELSE mem.sagas

\* The log has a saga as memory has it unless an event of it was not written.
MemKept == \A s \in SagaIds : missed[s] = 0 => View[s] = Kept[s]

TaskInv ==
  /\ TaskType
  /\ MemKept
  /\ HeldSound(sent, mem.gates)
  /\ MailSound(sent, timers, inbox)
  /\ \A s \in SagaIds : SagaSound(behind, sent, View, s)
  /\ IF running THEN Sound(behind, sent, View, mem.gates, todo) ELSE todo = <<>>
  /\ GateHolds

-----------------------------------------------------------------------------
(* Lemmas on these predicates.                                             *)

\* A later sent.
Grown(S, R) == \A s \in SagaIds : \A i : Heard(S, s, i) => Heard(R, s, i)

LEMMA StaysPlain ==
  ASSUME NEW S, NEW R, Grown(S, R)
  PROVE  /\ \A b : Grounds(S, b) => Grounds(R, b)
         /\ \A t : TimerOK(S, t) => TimerOK(R, t)
         /\ \A x : LetterOK(S, x) => LetterOK(R, x)
         /\ \A f : Plain(S, f) => Plain(R, f)
         /\ \A t : AllPlain(S, t) => AllPlain(R, t)
<1>1. ASSUME NEW b, Grounds(S, b) PROVE Grounds(R, b)
  BY <1>1, SagasAssumption DEF Grounds, Grown
<1>2. ASSUME NEW t, TimerOK(S, t) PROVE TimerOK(R, t)
  BY <1>2 DEF TimerOK, Grown
<1>3. ASSUME NEW x, LetterOK(S, x) PROVE LetterOK(R, x)
  BY <1>1, <1>2, <1>3 DEF LetterOK
<1>4. ASSUME NEW f, Plain(S, f) PROVE Plain(R, f)
  BY <1>1, <1>2, <1>4 DEF Plain
<1>5. ASSUME NEW t, AllPlain(S, t) PROVE AllPlain(R, t)
  BY <1>4, <1>5 DEF AllPlain
<1>6. QED
  BY <1>1, <1>2, <1>3, <1>4, <1>5

LEMMA PlainTail ==
  ASSUME NEW S, NEW t, IsSeq(t), t # <<>>, AllPlain(S, t)
  PROVE  Plain(S, Head(t)) /\ AllPlain(S, Tail(t)) /\ IsSeq(Tail(t))
<1>1. /\ IsSeq(Tail(t)) /\ Len(Tail(t)) = Len(t) - 1 /\ Head(t) = t[1] /\ Len(t) \in Nat \ {0}
      /\ \A n \in 1..(Len(t) - 1) : Tail(t)[n] = t[n + 1]
  BY Rest
<1>2. Plain(S, t[1])
  BY <1>1 DEF AllPlain
<1>3. ASSUME NEW n \in 1..(Len(t) - 1) PROVE Plain(S, Tail(t)[n])
  BY <1>1 DEF AllPlain
<1>4. QED
  BY <1>1, <1>2, <1>3 DEF AllPlain

LEMMA PlainCat ==
  ASSUME NEW S, NEW p, NEW q, IsSeq(p), IsSeq(q), AllPlain(S, p), AllPlain(S, q)
  PROVE  AllPlain(S, p \o q) /\ IsSeq(p \o q)
<1>1. /\ IsSeq(p \o q) /\ Len(p \o q) = Len(p) + Len(q)
      /\ \A n \in 1..Len(p) : (p \o q)[n] = p[n]
      /\ \A n \in 1..Len(q) : (p \o q)[Len(p) + n] = q[n]
  BY Cat
<1>2. Len(p) \in Nat /\ Len(q) \in Nat
  BY SeqShape
<1>3. ASSUME NEW n \in 1..(Len(p) + Len(q)) PROVE Plain(S, (p \o q)[n])
  <2>1. CASE n \in 1..Len(p)
    BY <1>1, <2>1 DEF AllPlain
  <2>2. CASE n \notin 1..Len(p)
    <3>1. n - Len(p) \in 1..Len(q) /\ n = Len(p) + (n - Len(p))
      BY <1>2, <2>2
    <3>2. (p \o q)[n] = q[n - Len(p)]
      BY <1>1, <3>1
    <3>3. QED
      BY <3>1, <3>2 DEF AllPlain
  <2>3. QED
    BY <2>1, <2>2
<1>4. QED
  BY <1>1, <1>3 DEF AllPlain

LEMMA EchoPlain ==
  ASSUME NEW S, NEW m, NEW e, NEW f, EventOK(e), HeldSound(S, m.gates), Echo(m, e, f)
  PROVE  Plain(S, f)
<1>1. CASE f.k = "cancel"
  BY <1>1 DEF Plain
<1>2. CASE f.k = "deliver" /\ f.b \in BundleIds /\ m.gates[f.b].held
  BY <1>2 DEF Plain, HeldSound
<1>3. CASE f.k = "arm" /\ e.k = "BundleDeferred" /\ f.t = DeferTimer(e.b)
  <2>1. e.b \in BundleIds
    BY <1>3 DEF EventOK, GateEvents
  <2>2. f.t[1] = "defer" /\ f.t[2] = e.b
    BY <1>3 DEF DeferTimer
  <2>3. QED
    BY <1>3, <2>1, <2>2 DEF Plain, TimerOK
<1>4. QED
  BY <1>1, <1>2, <1>3 DEF Echo

\* The effects of a replayed event, and the gates after it.
LEMMA EchoesPlain ==
  ASSUME NEW S, NEW m, NEW e, EventOK(e), Shaped(m), HeldSound(S, m.gates)
  PROVE  LET r == ApplyLogged(m, e) IN
         IsSeq(r.fx) /\ AllPlain(S, r.fx) /\ HeldSound(S, r.m.gates)
<1> DEFINE r == ApplyLogged(m, e)
<1>1. Applied(m, e, r)
  BY Applies
<1> HIDE DEF r
<1>2. \A n \in 1..Len(r.fx) : Plain(S, r.fx[n])
  BY <1>1, EchoPlain DEF Applied
<1>3. HeldSound(S, r.m.gates)
  BY <1>1 DEF Applied, GatesFollow, HeldSound
<1>4. QED
  BY <1>1, <1>2, <1>3 DEF Applied, AllPlain, r

LEMMA NoTrace == Trace(0, 0) = <<>>
BY DEF Trace

LEMMA HeardTrace ==
  ASSUME NEW S, NEW s, NEW k \in Nat, S[s] = Trace(k, 0), NEW i, Heard(S, s, i)
  PROVE  i \in 0..(k - 1)
<1>1. PICK n \in DOMAIN S[s] : S[s][n][1] = "step" /\ S[s][n][2] = i
  BY DEF Heard
<1>2. n \in 1..k
  BY <1>1 DEF Trace
<1>3. Trace(k, 0)[n] = <<"step", n - 1>>
  BY <1>2 DEF Trace
<1>4. i = n - 1
  BY <1>1, <1>3
<1>5. QED
  BY <1>2, <1>4

LEMMA TraceIsSeq ==
  ASSUME NEW j \in Nat, NEW c \in Nat
  PROVE  IsSeq(Trace(j, c)) /\ Len(Trace(j, c)) = j + c
<1> DEFINE W == Range(Trace(j, c))
<1>1. Trace(j, c) \in [1..(j + c) -> W]
  BY DEF Trace, Range
<1>2. Trace(j, c) \in Seq(W)
  BY <1>1, SeqDef
<1>3. QED
  BY <1>1, <1>2, LenProperties DEF IsSeq

LEMMA TraceStep ==
  ASSUME NEW i \in Nat
  PROVE  Append(Trace(i, 0), <<"step", i>>) = Trace(i + 1, 0)
<1> DEFINE p == Append(Trace(i, 0), <<"step", i>>)
           q == Trace(i + 1, 0)
<1>1. /\ IsSeq(p) /\ Len(p) = i + 1
      /\ \A n \in 1..i : p[n] = Trace(i, 0)[n]
      /\ p[i + 1] = <<"step", i>>
  <2>1. IsSeq(Trace(i, 0)) /\ Len(Trace(i, 0)) = i
    BY TraceIsSeq
  <2>2. QED
    BY <2>1, AddOne
<1>2. IsSeq(q) /\ Len(q) = i + 1
  BY TraceIsSeq
<1>3. ASSUME NEW n \in 1..(i + 1) PROVE p[n] = q[n]
  <2>1. CASE n \in 1..i
    <3>1. Trace(i, 0)[n] = <<"step", n - 1>> /\ q[n] = <<"step", n - 1>>
      BY <2>1 DEF Trace
    <3>2. QED
      BY <1>1, <2>1, <3>1
  <2>2. CASE n = i + 1
    <3>1. q[n] = <<"step", n - 1>>
      BY <2>2 DEF Trace
    <3>2. QED
      BY <1>1, <2>2, <3>1
  <2> HIDE DEF p, q
  <2>3. QED
    BY <2>1, <2>2
<1> HIDE DEF p, q
<1>4. DOMAIN p = 1..(i + 1) /\ DOMAIN q = 1..(i + 1)
  BY <1>1, <1>2, SeqShape
<1>5. p = [n \in 1..(i + 1) |-> p[n]] /\ q = [n \in 1..(i + 1) |-> q[n]]
  BY <1>1, <1>2, <1>4 DEF IsSeq
<1>6. p = q
  BY <1>3, <1>5
<1>7. QED
  BY <1>6 DEF p, q

LEMMA TraceComp ==
  ASSUME NEW i \in Nat, NEW c \in 0..(i - 1)
  PROVE  Append(Trace(i + 1, i - 1 - c), <<"comp", c>>) = Trace(i + 1, i - c)
<1> DEFINE p == Append(Trace(i + 1, i - 1 - c), <<"comp", c>>)
           q == Trace(i + 1, i - c)
           L == 2 * i - c
<1>0. i - 1 - c \in Nat /\ i - c \in Nat /\ i + 1 \in Nat /\ L \in Nat
      /\ (i + 1) + (i - 1 - c) = L /\ (i + 1) + (i - c) = L + 1
  OBVIOUS
<1>1. /\ IsSeq(p) /\ Len(p) = L + 1
      /\ \A n \in 1..L : p[n] = Trace(i + 1, i - 1 - c)[n]
      /\ p[L + 1] = <<"comp", c>>
  <2>1. IsSeq(Trace(i + 1, i - 1 - c)) /\ Len(Trace(i + 1, i - 1 - c)) = L
    BY <1>0, TraceIsSeq
  <2> HIDE DEF L
  <2>2. QED
    BY <2>1, AddOne
<1>2. IsSeq(q) /\ Len(q) = L + 1
  BY <1>0, TraceIsSeq
<1>3. ASSUME NEW n \in 1..(L + 1) PROVE p[n] = q[n]
  <2>1. CASE n \in 1..L
    <3>1. Trace(i + 1, i - 1 - c)[n] = q[n]
      BY <1>0, <2>1 DEF Trace
    <3>2. QED
      BY <1>1, <2>1, <3>1
  <2>2. CASE n = L + 1
    <3>1. n \in 1..(i + 1 + (i - c)) /\ ~(n <= i + 1) /\ 2 * (i + 1) - 1 - n = c
      BY <1>0, <2>2
    <3>2. q[n] = <<"comp", c>>
      BY <3>1 DEF Trace
    <3>3. QED
      BY <1>1, <2>2, <3>2
  <2>3. n \in 1..L \/ n = L + 1
    BY <1>0
  <2> HIDE DEF p, q, L
  <2>4. QED
    BY <2>1, <2>2, <2>3
<1> HIDE DEF p, q
<1>4. DOMAIN p = 1..(L + 1) /\ DOMAIN q = 1..(L + 1)
  BY <1>1, <1>2, SeqShape
<1> HIDE DEF L
<1>5. p = [n \in 1..(L + 1) |-> p[n]] /\ q = [n \in 1..(L + 1) |-> q[n]]
  BY <1>1, <1>2, <1>4 DEF IsSeq
<1>6. p = q
  BY <1>3, <1>5
<1>7. QED
  BY <1>6 DEF p, q

-----------------------------------------------------------------------------
(* What a replayed log looks like.                                         *)

Sane(acc) ==
  /\ Shaped(acc.m) /\ InRange(acc.m.sagas)
  /\ \A b \in BundleIds : ~acc.m.gates[b].held
  /\ \A t \in acc.ts : t[1] = "defer" /\ t[2] \in BundleIds

\* Nothing is known yet of a saga or of a bundle.
Early(acc) ==
  /\ Sane(acc)
  /\ acc.m.sagas = NewMemory.sagas
  /\ \A b \in BundleIds : acc.m.gates[b].kind = "none"

LEMMA BlankEarly == Early(Blank)
<1>1. Shaped(NewMemory)
  BY DEF Shaped, NewMemory, Fields, SagaRec, GateRec
<1>2. \A b \in BundleIds : NewMemory.gates[b] = [kind |-> "none", held |-> FALSE]
  BY DEF NewMemory
<1>3. InRange(NewMemory.sagas)
  BY DEF InRange, NewMemory
<1>4. QED
  BY <1>1, <1>2, <1>3 DEF Early, Sane, Blank

LEMMA RowSane ==
  ASSUME NEW acc, Sane(acc), NEW e, EventOK(e)
  PROVE  /\ Sane(ReplayRow(acc, e))
         /\ ReplayRow(acc, e).m = ApplyLogged(acc.m, e).m
<1> DEFINE r == ApplyLogged(acc.m, e)
           armed == {r.fx[n].t : n \in {x \in DOMAIN r.fx : r.fx[x].k = "arm"}}
<1>1. Shaped(r.m) /\ Applied(acc.m, e, r)
  BY Applies DEF Sane
<1>2. ReplayRow(acc, e).m = r.m /\ ReplayRow(acc, e).ts \subseteq acc.ts \cup armed
  BY DEF ReplayRow
<1> HIDE DEF r
<1>3. \A b \in BundleIds : ~r.m.gates[b].held
  BY <1>1 DEF Applied, GatesFollow, Sane
<1>4. ASSUME NEW t \in armed PROVE t[1] = "defer" /\ t[2] \in BundleIds
  <2>1. PICK n \in DOMAIN r.fx : r.fx[n].k = "arm" /\ t = r.fx[n].t
    OBVIOUS
  <2>2. n \in 1..Len(r.fx)
    BY <1>1, SeqShape DEF Applied
  <2>3. e.k = "BundleDeferred" /\ t = DeferTimer(e.b)
    BY <1>1, <2>1, <2>2 DEF Applied, Echo
  <2>4. QED
    BY <2>3 DEF DeferTimer, EventOK, GateEvents
<1>5. InRange(r.m.sagas)
  <2>1. acc.m.sagas \in [SagaIds -> SagaRec] /\ InRange(acc.m.sagas) /\ Shaped(acc.m)
    BY DEF Sane, Shaped
  <2>2. r.m.sagas = SagasAfter(acc.m.sagas, e)
    BY <2>1, Applies DEF r
  <2>3. QED
    BY <2>1, <2>2, RangeStays
<1> HIDE DEF armed
<1>6. QED
  BY <1>1, <1>2, <1>3, <1>4, <1>5 DEF Sane, r

LEMMA ReplaySane ==
  ASSUME NEW rows, IsSeq(rows), \A n \in 1..Len(rows) : EventOK(rows[n])
  PROVE  Sane(Replay(rows))
<1>1. PICK f : Replays(f, rows, Len(rows)) /\ Replay(rows) = f[Len(rows)]
  BY ReplayIsRun
<1> DEFINE Bad == {n \in 0..Len(rows) : ~Sane(f[n])}
<1>2. Len(rows) \in Nat
  BY SeqShape
<1>3. SUFFICES ASSUME Bad # {} PROVE FALSE
  BY <1>1, <1>2
<1>4. PICK x \in Bad : \A y \in Bad : x <= y
  <2>1. Bad \subseteq Nat
    BY <1>2
  <2> HIDE DEF Bad
  <2>2. QED
    BY <1>3, <2>1, LeastNat
<1>5. x # 0
  BY <1>1, BlankEarly DEF Replays, Early
<1>6. x - 1 \in 0..Len(rows) /\ x - 1 \notin Bad /\ x \in 1..Len(rows)
  BY <1>2, <1>4, <1>5
<1>7. Sane(f[x - 1]) /\ f[x] = ReplayRow(f[x - 1], rows[x]) /\ EventOK(rows[x])
  BY <1>1, <1>6 DEF Replays
<1>8. Sane(f[x])
  BY <1>7, RowSane
<1>9. QED
  BY <1>8

LEMMA SceneEarly ==
  ASSUME NEW rows, IsSeq(rows),
         \A n \in 1..Len(rows) : rows[n].k \notin SagaAlgebra \cup (PolicyAlgebra \ {"PolicySet"})
  PROVE  Early(Replay(rows)) /\ \A n \in 1..Len(rows) : EventOK(rows[n])
<1>1. PICK f : Replays(f, rows, Len(rows)) /\ Replay(rows) = f[Len(rows)]
  BY ReplayIsRun
<1>0. \A n \in 1..Len(rows) : EventOK(rows[n]) /\ rows[n].k \notin GateEvents
  BY DEF EventOK, SagaAlgebra, PolicyAlgebra, GateEvents
<1> DEFINE Bad == {n \in 0..Len(rows) : ~Early(f[n])}
<1>2. Len(rows) \in Nat
  BY SeqShape
<1>3. SUFFICES ASSUME Bad # {} PROVE FALSE
  BY <1>0, <1>1, <1>2
<1>4. PICK x \in Bad : \A y \in Bad : x <= y
  <2>1. Bad \subseteq Nat
    BY <1>2
  <2> HIDE DEF Bad
  <2>2. QED
    BY <1>3, <2>1, LeastNat
<1>5. x # 0
  BY <1>1, BlankEarly DEF Replays
<1>6. x - 1 \in 0..Len(rows) /\ x - 1 \notin Bad /\ x \in 1..Len(rows)
  BY <1>2, <1>4, <1>5
<1>7. /\ Early(f[x - 1]) /\ f[x] = ReplayRow(f[x - 1], rows[x]) /\ EventOK(rows[x])
      /\ rows[x].k \notin SagaAlgebra /\ rows[x].k \notin GateEvents
  BY <1>0, <1>1, <1>6 DEF Replays
<1> DEFINE m == f[x - 1].m
           e == rows[x]
           r == ApplyLogged(m, e)
<1>8. Sane(f[x]) /\ f[x].m = r.m
  BY <1>7, RowSane DEF Early
<1>9. Applied(m, e, r) /\ r.m.sagas = SagasAfter(m.sagas, e)
  BY SMTT(40), <1>7, Applies DEF Early, Sane
<1>10. SagasAfter(m.sagas, e) = m.sagas
  BY <1>7 DEF SagasAfter, SagaAlgebra
<1>11. \A b \in BundleIds : r.m.gates[b].kind = "none"
  <2> HIDE DEF r, e
  <2>1. \A b \in BundleIds : m.gates[b].kind = "none" /\ ~r.m.gates[b].held /\ e.k \notin GateEvents
    BY <1>7, <1>8 DEF Early, Sane, e
  <2>2. QED
    BY <1>9, <2>1 DEF Applied, GatesFollow
<1>12. Early(f[x])
  <2> HIDE DEF r
  <2>1. f[x].m.sagas = NewMemory.sagas
    BY <1>7, <1>8, <1>9, <1>10 DEF Early
  <2>2. QED
    BY <1>8, <1>11, <2>1 DEF Early
<1>13. QED
  BY <1>12

LEMMA KeptGrows ==
  ASSUME NEW rows, IsSeq(rows), \A n \in 1..Len(rows) : EventOK(rows[n]), NEW e, EventOK(e)
  PROVE  Replay(Append(rows, e)).m.sagas = SagasAfter(Replay(rows).m.sagas, e)
<1>1. Sane(Replay(rows))
  BY ReplaySane
<1>2. Replay(Append(rows, e)).m = ApplyLogged(Replay(rows).m, e).m
  BY <1>1, ReplayGrows, RowSane
<1>3. QED
  BY <1>1, <1>2, Applies DEF Sane

-----------------------------------------------------------------------------
(* A persisted event of a saga: what the log then says, what is left.      *)

LEMMA UndoingSeq ==
  ASSUME NEW S, NEW t, IsSeq(t), NEW s, NEW c \in Nat, Undoing(S, t, s, c)
  PROVE  /\ t # <<>> /\ IsSeq(Tail(t))
         /\ c = 0 => /\ Head(t) = Persist([k |-> "SagaTerminated", s |-> s, out |-> "Aborted"])
                     /\ AllPlain(S, Tail(t))
         /\ c > 0 => /\ Head(t) = Persist([k |-> "SagaCompensated", s |-> s, i |-> c - 1])
                     /\ Recalling(S, Tail(t), s, c - 1)
<1>1. Len(t) \in Nat /\ Len(t) > 2 * c
  BY SeqShape DEF Undoing
<1>2. t # <<>>
  BY <1>1, SeqShape
<1>3. /\ IsSeq(Tail(t)) /\ Len(Tail(t)) = Len(t) - 1 /\ Head(t) = t[1]
      /\ \A n \in 1..(Len(t) - 1) : Tail(t)[n] = t[n + 1]
  BY <1>2, Rest
<1>4. ASSUME c = 0
      PROVE  /\ Head(t) = Persist([k |-> "SagaTerminated", s |-> s, out |-> "Aborted"])
             /\ AllPlain(S, Tail(t))
  <2>1. t[1] = Persist([k |-> "SagaTerminated", s |-> s, out |-> "Aborted"])
        /\ \A n \in 2..Len(t) : Plain(S, t[n])
    BY <1>4 DEF Undoing
  <2>2. ASSUME NEW n \in 1..(Len(t) - 1) PROVE Plain(S, Tail(t)[n])
    BY <1>1, <1>3, <2>1
  <2>3. QED
    BY <1>3, <2>1, <2>2 DEF AllPlain
<1>5. ASSUME c > 0
      PROVE  /\ Head(t) = Persist([k |-> "SagaCompensated", s |-> s, i |-> c - 1])
             /\ Recalling(S, Tail(t), s, c - 1)
  <2> DEFINE u == Tail(t)
             v == Tail(u)
  <2>1. 0 \in 0..(c - 1) /\ 2 * 0 + 1 = 1 /\ 2 * 0 + 2 = 2 /\ c - 1 - 0 = c - 1
    BY <1>5
  <2>2. t[1] = Persist([k |-> "SagaCompensated", s |-> s, i |-> c - 1]) /\ t[2] = Send("comp", s, c - 1)
    BY <2>1 DEF Undoing
  <2>3. Len(u) = Len(t) - 1 /\ Len(u) > 1 /\ IsSeq(u) /\ u[1] = t[2]
    BY <1>1, <1>3, <1>5
  <2> HIDE DEF u
  <2>4. u # <<>>
    BY <2>3, SeqShape
  <2>5. /\ IsSeq(v) /\ Len(v) = Len(u) - 1 /\ Head(u) = u[1]
        /\ \A n \in 1..(Len(u) - 1) : v[n] = u[n + 1]
    BY <2>3, <2>4, Rest
  <2> HIDE DEF v
  <2>6. Len(v) = Len(t) - 2 /\ \A n \in 1..(Len(t) - 2) : v[n] = t[n + 2]
    <3>1. \A n \in 1..(Len(t) - 2) : n \in 1..(Len(u) - 1) /\ n + 1 \in 1..(Len(t) - 1)
      BY <1>1, <2>3
    <3>2. \A n \in 1..(Len(t) - 1) : u[n] = t[n + 1]
      BY <1>3 DEF u
    <3>3. ASSUME NEW n \in 1..(Len(t) - 2) PROVE v[n] = t[n + 2]
      <4>1. v[n] = u[n + 1] /\ u[n + 1] = t[(n + 1) + 1] /\ (n + 1) + 1 = n + 2
        BY <2>5, <3>1, <3>2
      <4>2. QED
        BY <4>1
    <3>4. QED
      BY <1>1, <2>3, <2>5, <3>3
  <2> DEFINE d == c - 1
  <2>7. d \in Nat /\ Len(v) > 2 * d
    BY <1>1, <1>5, <2>6
  <2>8. ASSUME NEW n \in 0..(d - 1)
        PROVE  /\ v[2 * n + 1] = Persist([k |-> "SagaCompensated", s |-> s, i |-> d - 1 - n])
               /\ v[2 * n + 2] = Send("comp", s, d - 1 - n)
    <3>1. /\ n + 1 \in 0..(c - 1) /\ 2 * (n + 1) + 1 = 2 * n + 3 /\ 2 * (n + 1) + 2 = 2 * n + 4
          /\ c - 1 - (n + 1) = d - 1 - n
      BY <1>5
    <3>2. /\ t[2 * n + 3] = Persist([k |-> "SagaCompensated", s |-> s, i |-> d - 1 - n])
          /\ t[2 * n + 4] = Send("comp", s, d - 1 - n)
      BY <3>1 DEF Undoing
    <3>3. /\ 2 * n + 1 \in 1..(Len(t) - 2) /\ 2 * n + 2 \in 1..(Len(t) - 2)
          /\ (2 * n + 1) + 2 = 2 * n + 3 /\ (2 * n + 2) + 2 = 2 * n + 4
      BY <1>1, <1>5
    <3>4. v[2 * n + 1] = t[2 * n + 3] /\ v[2 * n + 2] = t[2 * n + 4]
      BY <2>6, <3>3
    <3>5. QED
      BY <3>2, <3>4
  <2>9. v[2 * d + 1] = Persist([k |-> "SagaTerminated", s |-> s, out |-> "Aborted"])
    <3>1. 2 * d + 1 \in 1..(Len(t) - 2) /\ (2 * d + 1) + 2 = 2 * c + 1
      BY <1>1, <1>5
    <3>2. v[2 * d + 1] = t[2 * c + 1]
      BY <2>6, <3>1
    <3>3. QED
      BY <3>2 DEF Undoing
  <2>10. ASSUME NEW n \in (2 * d + 2)..Len(v) PROVE Plain(S, v[n])
    <3>1. n \in 1..(Len(t) - 2) /\ n + 2 \in (2 * c + 2)..Len(t)
      BY <1>1, <1>5, <2>6
    <3>2. QED
      BY <2>6, <3>1 DEF Undoing
  <2>11. Undoing(S, v, s, d)
    BY <2>7, <2>8, <2>9, <2>10 DEF Undoing
  <2>12. QED
    BY <1>3, <2>2, <2>3, <2>4, <2>5, <2>11 DEF Recalling, u, v
<1>6. QED
  BY <1>2, <1>3, <1>4, <1>5

LEMMA PersistsSaga ==
  ASSUME NEW B, NEW S, NEW K \in [SagaIds -> SagaRec], NEW t, IsSeq(t), t # <<>>,
         NEW e, Head(t).k = "persist", Head(t).e = e, SagaWork(B, S, K, t),
         NEW R, R = SagasAfter(K, e),
         \A s \in SagaIds : SagaSound(B, S, K, s)
  PROVE  /\ EventOK(e) /\ e.k \in SagaAlgebra
         /\ \A s \in SagaIds : SagaSound(B, S, R, s)
         /\ IsSeq(Tail(t))
         /\ AllPlain(S, Tail(t)) \/ SagaWork(B, S, R, Tail(t))
<1> DEFINE u == Tail(t)
<1>0. IsSeq(u)
  BY Rest
<1>1. PICK s \in SagaIds :
        \/ K[s].st = "none" /\ Told(B, S, s, <<>>) /\ Beginning(S, t, s) /\ Sagas[s].steps > 0
        \/ \E i \in 0..(Sagas[s].steps - 1) : StepWork(B, S, K, t, s, i)
  BY DEF SagaWork
<1>2. Sagas[s].steps \in Nat
  BY SagasAssumption
<1>3. \A x : Head(t) = Persist(x) => x = e
  BY DEF Persist
<1>4. \A w, x, y : Head(t) # Send(w, x, y)
  BY DEF Persist, Send
<1> HIDE DEF u
<1>5. ASSUME \A z \in SagaIds \ {s} : R[z] = K[z], SagaSound(B, S, R, s)
      PROVE  \A z \in SagaIds : SagaSound(B, S, R, z)
  <2>1. ASSUME NEW z \in SagaIds, z # s PROVE SagaSound(B, S, R, z)
    <3>1. R[z] = K[z] /\ SagaSound(B, S, K, z)
      BY <1>5, <2>1
    <3>2. QED
      BY <3>1 DEF SagaSound
  <2>2. QED
    BY <1>5, <2>1
<1>6. CASE K[s].st = "none" /\ Told(B, S, s, <<>>) /\ Beginning(S, t, s) /\ Sagas[s].steps > 0
  <2>1. e = [k |-> "SagaBegun", s |-> s] /\ Stepping(S, u, s, 0)
    BY <1>3, <1>6 DEF Beginning, u
  <2>2. R = [K EXCEPT ![s] = [st |-> "Running", i |-> 0]]
    BY <2>1 DEF SagasAfter
  <2>3. At(R, s, "Running", 0) /\ \A z \in SagaIds \ {s} : R[z] = K[z]
    BY <2>2 DEF At
  <2>4. SagaSound(B, S, R, s)
    BY <2>3 DEF SagaSound, At
  <2>5. StepWork(B, S, R, u, s, 0)
    BY <1>6, <2>1, <2>3, NoTrace DEF StepWork
  <2>6. EventOK(e) /\ e.k \in SagaAlgebra
    BY <2>1 DEF EventOK, SagaAlgebra, GateEvents
  <2>7. SagaWork(B, S, R, u)
    BY <1>2, <1>6, <2>5 DEF SagaWork
  <2>8. QED
    BY <1>0, <1>5, <2>3, <2>4, <2>6, <2>7 DEF u
<1>7. ASSUME NEW i \in 0..(Sagas[s].steps - 1), StepWork(B, S, K, t, s, i)
      PROVE  /\ EventOK(e) /\ e.k \in SagaAlgebra
             /\ \A z \in SagaIds : SagaSound(B, S, R, z)
             /\ AllPlain(S, u) \/ SagaWork(B, S, R, u)
  <2>1. CASE At(K, s, "Running", IF i = 0 THEN 0 ELSE i - 1) /\ Told(B, S, s, Trace(i, 0)) /\ Stepping(S, t, s, i)
    <3>1. e = [k |-> "SagaStepSent", s |-> s, i |-> i] /\ Sending(S, u, s, i)
      BY <1>3, <2>1 DEF Stepping, u
    <3>2. K[s].st = "Running"
      BY <2>1 DEF At
    <3>3. R = [K EXCEPT ![s] = [st |-> "Waiting", i |-> i]]
      <4>1. e.k = "SagaStepSent" /\ e.s = s /\ e.i = i
        BY <3>1
      <4>2. R = [K EXCEPT ![e.s] = IF @.st = "none" THEN @ ELSE [st |-> "Waiting", i |-> e.i]]
        BY <4>1 DEF SagasAfter
      <4>3. QED
        BY <3>2, <4>1, <4>2
    <3>4. At(R, s, "Waiting", i) /\ \A z \in SagaIds \ {s} : R[z] = K[z]
      BY <3>3 DEF At
    <3>5. SagaSound(B, S, R, s)
      BY <1>2, <2>1, <3>4 DEF SagaSound, At
    <3>6. StepWork(B, S, R, u, s, i)
      BY <2>1, <3>1, <3>4 DEF StepWork
    <3>7. EventOK(e) /\ e.k \in SagaAlgebra
      BY <1>2, <3>1 DEF EventOK, SagaAlgebra, GateEvents
    <3>8. QED
      BY <1>5, <3>4, <3>5, <3>6, <3>7 DEF SagaWork
  <2>2. CASE At(K, s, "Waiting", i) /\ Told(B, S, s, Trace(i, 0)) /\ Sending(S, t, s, i)
    BY <1>4, <2>2 DEF Sending
  <2>3. CASE At(K, s, "Waiting", i) /\ Told(B, S, s, Trace(i + 1, 0)) /\ Acking(S, t, s, i)
    <3>0. PICK out : Head(t) = Acked(s, i, out)
      BY <2>3 DEF Acking
    <3>1. e = [k |-> "SagaStepAcked", s |-> s, i |-> i, out |-> out]
      BY <1>3, <3>0 DEF Acked
    <3>2. \A o : Head(t) = Acked(s, i, o) => o = out
      BY <1>3, <3>1 DEF Acked
    <3>3. R = [K EXCEPT ![s] = [st |-> IF out = "Committed" THEN "Running" ELSE "Compensating", i |-> i]]
      <4>1. e.k = "SagaStepAcked" /\ e.s = s /\ e.i = i /\ e.out = out
        BY <3>1
      <4>2. R = [K EXCEPT ![e.s] = IF @ # [st |-> "Waiting", i |-> e.i] THEN @
                   ELSE [st |-> IF e.out = "Committed" THEN "Running" ELSE "Compensating", i |-> e.i]]
        BY <4>1 DEF SagasAfter
      <4>3. K[s] = [st |-> "Waiting", i |-> i]
        BY <2>3 DEF At
      <4>4. QED
        BY <4>1, <4>2, <4>3
    <3>4. EventOK(e) /\ e.k \in SagaAlgebra
      BY <3>1 DEF EventOK, SagaAlgebra, GateEvents
    <3>5. \A z \in SagaIds \ {s} : R[z] = K[z]
      BY <3>3
    <3>6. CASE out # "Committed"
      <4>1. At(R, s, "Compensating", i)
        BY <3>3, <3>6 DEF At
      <4>2. Undoing(S, u, s, i)
        BY <2>3, <3>2, <3>6 DEF Acking, u
      <4>3. i \in 0..i /\ Told(B, S, s, Trace(i + 1, i - i))
        BY <1>2, <2>3
      <4>4. StepWork(B, S, R, u, s, i)
        BY <4>1, <4>2, <4>3 DEF StepWork
      <4>5. SagaSound(B, S, R, s)
        BY <4>1 DEF SagaSound, At
      <4>6. QED
        BY <1>5, <3>4, <3>5, <4>4, <4>5 DEF SagaWork
    <3>7. CASE out = "Committed"
      <4>1. At(R, s, "Running", i)
        BY <3>3, <3>7 DEF At
      <4>2. SagaSound(B, S, R, s)
        BY <4>1 DEF SagaSound, At
      <4>3. IF i + 1 < Sagas[s].steps THEN Stepping(S, u, s, i + 1) ELSE Ending(S, u, s, "Completed")
        BY <2>3, <3>2, <3>7 DEF Acking, u
      <4>4. SagaWork(B, S, R, u)
        <5>1. CASE i + 1 < Sagas[s].steps
          <6>1. i + 1 \in 0..(Sagas[s].steps - 1) /\ i + 1 # 0 /\ (i + 1) - 1 = i
            BY <1>2, <5>1
          <6>2. StepWork(B, S, R, u, s, i + 1)
            BY <2>3, <4>1, <4>3, <5>1, <6>1 DEF StepWork
          <6>3. QED
            BY <6>1, <6>2 DEF SagaWork
        <5>2. CASE ~(i + 1 < Sagas[s].steps)
          <6>1. i + 1 = Sagas[s].steps
            BY <1>2, <5>2
          <6>2. StepWork(B, S, R, u, s, i)
            BY <2>3, <4>1, <4>3, <5>2, <6>1 DEF StepWork
          <6>3. QED
            BY <6>2 DEF SagaWork
        <5>3. QED
          BY <5>1, <5>2
      <4>5. QED
        BY <1>5, <3>4, <3>5, <4>2, <4>4
    <3>8. QED
      BY <3>6, <3>7
  <2>4. CASE /\ At(K, s, "Running", i) /\ i + 1 = Sagas[s].steps
             /\ Told(B, S, s, Trace(i + 1, 0)) /\ Ending(S, t, s, "Completed")
    <3>1. e = [k |-> "SagaTerminated", s |-> s, out |-> "Completed"] /\ AllPlain(S, u)
      BY <1>3, <2>4 DEF Ending, u
    <3>2. K[s].st = "Running" /\ R = [K EXCEPT ![s].st = IF @ = "none" THEN @ ELSE "Completed"]
      <4>1. K[s].st = "Running"
        BY <2>4 DEF At
      <4>2. e.k = "SagaTerminated" /\ e.s = s /\ e.out = "Completed"
        BY <3>1
      <4>3. R = [K EXCEPT ![e.s].st = IF @ = "none" THEN @ ELSE e.out]
        BY <4>2 DEF SagasAfter
      <4>4. QED
        BY <4>1, <4>2, <4>3
    <3>3. R[s].st = "Completed" /\ \A z \in SagaIds \ {s} : R[z] = K[z]
      BY <3>2 DEF SagaRec
    <3>4. SagaSound(B, S, R, s)
      BY <2>4, <3>3 DEF SagaSound
    <3>5. EventOK(e) /\ e.k \in SagaAlgebra
      BY <3>1 DEF EventOK, SagaAlgebra, GateEvents
    <3>6. QED
      BY <1>5, <3>1, <3>3, <3>4, <3>5
  <2>5. CASE /\ At(K, s, "Compensating", i)
             /\ \E c \in 0..i : Told(B, S, s, Trace(i + 1, i - c)) /\ Undoing(S, t, s, c)
    <3>1. PICK c \in 0..i : Told(B, S, s, Trace(i + 1, i - c)) /\ Undoing(S, t, s, c)
      BY <2>5
    <3>2. CASE c = 0
      <4>1. e = [k |-> "SagaTerminated", s |-> s, out |-> "Aborted"] /\ AllPlain(S, u)
        BY <1>3, <3>1, <3>2, UndoingSeq DEF u
      <4>2. K[s].st = "Compensating" /\ R = [K EXCEPT ![s].st = IF @ = "none" THEN @ ELSE "Aborted"]
        <5>1. K[s].st = "Compensating"
          BY <2>5 DEF At
        <5>2. e.k = "SagaTerminated" /\ e.s = s /\ e.out = "Aborted"
          BY <4>1
        <5>3. R = [K EXCEPT ![e.s].st = IF @ = "none" THEN @ ELSE e.out]
          BY <5>2 DEF SagasAfter
        <5>4. QED
          BY <5>1, <5>2, <5>3
      <4>3. R[s].st = "Aborted" /\ \A z \in SagaIds \ {s} : R[z] = K[z]
        BY <4>2 DEF SagaRec
      <4>4. i + 1 \in 1..Sagas[s].steps /\ i - c = (i + 1) - 1
        BY <1>2, <3>2
      <4>5. SagaSound(B, S, R, s)
        BY <3>1, <4>3, <4>4 DEF SagaSound, Told
      <4>6. EventOK(e) /\ e.k \in SagaAlgebra
        BY <4>1 DEF EventOK, SagaAlgebra, GateEvents
      <4>7. QED
        BY <1>5, <4>1, <4>3, <4>5, <4>6
    <3>3. CASE c > 0
      <4>1. c \in Nat /\ c - 1 \in 0..(i - 1) /\ i - c = i - 1 - (c - 1)
        BY <3>3
      <4>2. e = [k |-> "SagaCompensated", s |-> s, i |-> c - 1] /\ Recalling(S, u, s, c - 1)
        BY ZenonT(60), <1>3, <3>1, <3>3, <4>1, UndoingSeq DEF u
      <4>3. R = K
        BY <4>2 DEF SagasAfter
      <4>4. Told(B, S, s, Trace(i + 1, i - 1 - (c - 1)))
        BY <3>1, <4>1
      <4>5. StepWork(B, S, R, u, s, i)
        BY <2>5, <4>1, <4>2, <4>3, <4>4 DEF StepWork
      <4>6. EventOK(e) /\ e.k \in SagaAlgebra
        BY <4>2 DEF EventOK, SagaAlgebra, GateEvents
      <4>7. QED
        BY <4>3, <4>5, <4>6 DEF SagaWork
    <3>4. QED
      BY <3>2, <3>3
  <2>6. CASE /\ At(K, s, "Compensating", i)
             /\ \E c \in 0..(i - 1) : Told(B, S, s, Trace(i + 1, i - 1 - c)) /\ Recalling(S, t, s, c)
    BY <1>4, <2>6 DEF Recalling
  <2>7. QED
    BY <1>7, <2>1, <2>2, <2>3, <2>4, <2>5, <2>6 DEF StepWork
<1>8. QED
  BY <1>0, <1>1, <1>6, <1>7 DEF u

LEMMA ConsSeq ==
  ASSUME NEW c, NEW u, IsSeq(u)
  PROVE  /\ IsSeq(<<c>> \o u) /\ <<c>> \o u # <<>>
         /\ Head(<<c>> \o u) = c /\ Tail(<<c>> \o u) = u
         /\ <<>> \o u = u
<1> DEFINE p == <<c>>
           v == p \o u
           W == Range(u)
<1>1. IsSeq(p) /\ Len(p) = 1 /\ p[1] = c
  BY OneSeq
<1>2. <<>> \o u = u
  BY ConcatEmptySeq DEF IsSeq
<1> HIDE DEF p
<1>3. /\ IsSeq(v) /\ Len(v) = Len(p) + Len(u)
      /\ \A n \in 1..Len(p) : v[n] = p[n]
      /\ \A n \in 1..Len(u) : v[Len(p) + n] = u[n]
  <2>1. IsSeq(p)
    BY <1>1
  <2>2. IsSeq(u)
    OBVIOUS
  <2>3. QED
    BY <2>1, <2>2, Cat
<1>4. Len(u) \in Nat
  BY SeqShape
<1> HIDE DEF v
<1>5. Len(v) = Len(u) + 1 /\ v[1] = c /\ v # <<>>
  BY <1>1, <1>3, <1>4, SeqShape
<1>6. /\ IsSeq(Tail(v)) /\ Len(Tail(v)) = Len(v) - 1 /\ Head(v) = v[1]
      /\ \A n \in 1..(Len(v) - 1) : Tail(v)[n] = v[n + 1]
  BY <1>3, <1>5, Rest
<1>7. Len(Tail(v)) = Len(u) /\ \A n \in 1..Len(u) : Tail(v)[n] = u[n]
  BY <1>1, <1>3, <1>4, <1>5, <1>6
<1>8. Tail(v) = u
  <2> DEFINE X == Range(Tail(v)) \cup Range(u)
  <2>1. Tail(v) \in Seq(X) /\ u \in Seq(X)
    BY <1>6, SeqMonotonic DEF IsSeq
  <2> HIDE DEF X
  <2>2. QED
    BY <1>7, <2>1, SeqEqual
<1>9. QED
  BY <1>2, <1>3, <1>5, <1>6, <1>8 DEF v, p

-----------------------------------------------------------------------------
(* The steps of the effect list.                                           *)

\* What holds of an event that is persisted, v are the effects after it.
Persisted(B, S, m, e, v) ==
  LET r == ApplyLogged(m, e)
      u == r.fx \o v
  IN  /\ EventOK(e) /\ Shaped(r.m) /\ HeldSound(S, r.m.gates)
      /\ r.m.sagas = SagasAfter(m.sagas, e)
      /\ e.k \notin SagaAlgebra => r.m.sagas = m.sagas
      /\ IsSeq(u) /\ Sound(B, S, r.m.sagas, r.m.gates, u)
      /\ \A s \in SagaIds : SagaSound(B, S, r.m.sagas, s)
      /\ e.k \in GateEvents => m.gates[e.b].kind # "none"

LEMMA PersistSound ==
  ASSUME NEW B, NEW S, NEW m, Shaped(m), HeldSound(S, m.gates), NEW t, IsSeq(t), t # <<>>,
         NEW e, Head(t).k = "persist", Head(t).e = e,
         Sound(B, S, m.sagas, m.gates, t),
         \A s \in SagaIds : SagaSound(B, S, m.sagas, s)
  PROVE  Persisted(B, S, m, e, Tail(t))
<1> DEFINE r == ApplyLogged(m, e)
           u == r.fx \o Tail(t)
<1>0. IsSeq(Tail(t))
  BY Rest
<1>1. m.sagas \in [SagaIds -> SagaRec]
  BY DEF Shaped
<1>2. ASSUME EventOK(e)
      PROVE  /\ Shaped(r.m) /\ r.m.sagas = SagasAfter(m.sagas, e)
             /\ IsSeq(r.fx) /\ AllPlain(S, r.fx) /\ HeldSound(S, r.m.gates)
  BY <1>2, Applies, EchoesPlain
<1>3. e.k \notin SagaEvents => SagasAfter(m.sagas, e) = m.sagas
  BY DEF SagasAfter, SagaEvents
<1>4. CASE AllPlain(S, t) \/ Gating(S, m.gates, t)
  <2>1. /\ EventOK(e) /\ e.k \notin SagaEvents /\ AllPlain(S, Tail(t))
        /\ e.k \in GateEvents => m.gates[e.b].kind # "none"
    <3>1. CASE AllPlain(S, t)
      <4>1. Plain(S, Head(t)) /\ AllPlain(S, Tail(t))
        BY <3>1, PlainTail
      <4>2. QED
        BY <4>1 DEF Plain
    <3>2. CASE Gating(S, m.gates, t)
      BY <3>2 DEF Gating, EventOK, SagaEvents, GateEvents
    <3>3. QED
      BY <1>4, <3>1, <3>2
  <2>2. r.m.sagas = m.sagas /\ Shaped(r.m) /\ IsSeq(r.fx) /\ AllPlain(S, r.fx) /\ HeldSound(S, r.m.gates)
        /\ r.m.sagas = SagasAfter(m.sagas, e)
    BY <1>2, <1>3, <2>1
  <2> HIDE DEF r
  <2>3. IsSeq(u) /\ AllPlain(S, u)
    BY <1>0, <2>1, <2>2, PlainCat
  <2>4. Sound(B, S, r.m.sagas, r.m.gates, u)
    BY <2>3 DEF Sound
  <2>5. QED
    BY <2>1, <2>2, <2>3, <2>4 DEF r, Persisted
<1>5. CASE SagaWork(B, S, m.sagas, t)
  <2> DEFINE R == SagasAfter(m.sagas, e)
  <2>1. /\ EventOK(e) /\ e.k \in SagaAlgebra
        /\ \A s \in SagaIds : SagaSound(B, S, R, s)
        /\ AllPlain(S, Tail(t)) \/ SagaWork(B, S, R, Tail(t))
    BY <1>1, <1>5, PersistsSaga
  <2>2. Shaped(r.m) /\ r.m.sagas = R /\ IsSeq(r.fx) /\ AllPlain(S, r.fx) /\ HeldSound(S, r.m.gates)
    BY <1>2, <2>1
  <2>3. r.fx = <<>> \/ r.fx = <<Cancel(SagaTimer(e.s, e.i))>>
    <3>1. r = ApplySaga(m, e)
      BY <2>1, AppliesSaga
    <3>2. QED
      BY <2>1, <3>1 DEF ApplySaga, Result, SagaAlgebra
  <2>4. e.k \notin GateEvents
    BY <2>1 DEF SagaAlgebra, GateEvents
  <2> HIDE DEF r, R
  <2>5. IsSeq(u) /\ Sound(B, S, R, r.m.gates, u)
    <3>1. CASE AllPlain(S, Tail(t))
      <4>1. IsSeq(u) /\ AllPlain(S, u)
        BY <1>0, <2>2, <3>1, PlainCat
      <4>2. QED
        BY <4>1 DEF Sound
    <3>2. CASE SagaWork(B, S, R, Tail(t)) /\ r.fx = <<>>
      <4>1. u = Tail(t)
        BY <1>0, <3>2, ConsSeq
      <4>2. QED
        BY <1>0, <3>2, <4>1 DEF Sound
    <3>3. CASE SagaWork(B, S, R, Tail(t)) /\ r.fx = <<Cancel(SagaTimer(e.s, e.i))>>
      <4>1. IsSeq(u) /\ u # <<>> /\ Head(u) = Cancel(SagaTimer(e.s, e.i)) /\ Tail(u) = Tail(t)
        BY <1>0, <3>3, ConsSeq
      <4>2. Lead(Head(u))
        BY <4>1 DEF Lead, Cancel
      <4>3. QED
        BY <3>3, <4>1, <4>2 DEF Sound
    <3>4. QED
      BY <2>1, <2>3, <3>1, <3>2, <3>3
  <2>6. QED
    BY <2>1, <2>2, <2>4, <2>5 DEF r, R, Persisted
<1>6. CASE Lead(Head(t)) /\ SagaWork(B, S, m.sagas, Tail(t))
  <2>1. e.k = "DelegationRequested"
    BY <1>6 DEF Lead
  <2>2. EventOK(e) /\ e.k \notin SagaEvents /\ e.k \notin GateEvents
    BY <2>1 DEF EventOK, GateEvents, SagaEvents
  <2>3. r = Result(m, <<>>)
    BY <2>1, AppliesOther DEF Lifecycle, Participation, CapAlgebra, ApprovalAlgebra, SagaAlgebra, PolicyAlgebra
  <2>4. r.m = m /\ r.fx = <<>>
    BY <2>3 DEF Result
  <2>5. r.m.sagas = SagasAfter(m.sagas, e)
    BY <1>2, <2>2
  <2> HIDE DEF r
  <2>6. u = Tail(t)
    BY <1>0, <2>4, ConsSeq
  <2>7. Sound(B, S, r.m.sagas, r.m.gates, u)
    BY <1>6, <2>4, <2>6 DEF Sound
  <2>8. QED
    BY <1>0, <2>2, <2>4, <2>5, <2>6, <2>7 DEF r, Persisted
<1>7. QED
  BY <1>4, <1>5, <1>6 DEF Sound

LEMMA SagaHead ==
  ASSUME NEW B, NEW S, NEW K, NEW t, IsSeq(t), SagaWork(B, S, K, t)
  PROVE  t # <<>> /\ Head(t).k \in {"persist", "bundle"}
<1>1. PICK s \in SagaIds :
        \/ K[s].st = "none" /\ Told(B, S, s, <<>>) /\ Beginning(S, t, s) /\ Sagas[s].steps > 0
        \/ \E i \in 0..(Sagas[s].steps - 1) : StepWork(B, S, K, t, s, i)
  BY DEF SagaWork
<1>2. CASE Beginning(S, t, s)
  BY <1>2 DEF Beginning, Persist
<1>3. ASSUME NEW i \in 0..(Sagas[s].steps - 1), StepWork(B, S, K, t, s, i)
      PROVE  t # <<>> /\ Head(t).k \in {"persist", "bundle"}
  <2>1. CASE Stepping(S, t, s, i)
    BY <2>1 DEF Stepping, Persist
  <2>2. CASE Sending(S, t, s, i)
    BY <2>2 DEF Sending, Send
  <2>3. CASE Acking(S, t, s, i)
    <3>1. t # <<>> /\ \E o : Head(t) = Acked(s, i, o)
      BY <2>3 DEF Acking
    <3>2. QED
      BY <3>1 DEF Acked, Persist
  <2>4. CASE Ending(S, t, s, "Completed")
    BY <2>4 DEF Ending, Persist
  <2>5. CASE \E c \in 0..i : Undoing(S, t, s, c)
    <3>1. PICK c \in 0..i : Undoing(S, t, s, c)
      BY <2>5
    <3>2. c \in Nat
      BY SagasAssumption
    <3>3. t # <<>> /\ \E x : Head(t) = Persist(x)
      <4>1. CASE c = 0
        BY <3>1, <3>2, <4>1, UndoingSeq
      <4>2. CASE c > 0
        BY <3>1, <3>2, <4>2, UndoingSeq
      <4>3. QED
        BY <3>2, <4>1, <4>2
    <3>4. QED
      BY <3>3 DEF Persist
  <2>6. CASE \E c \in 0..(i - 1) : Recalling(S, t, s, c)
    BY <2>6 DEF Recalling, Send
  <2>7. QED
    BY <1>3, <2>1, <2>2, <2>3, <2>4, <2>5, <2>6 DEF StepWork
<1>4. QED
  BY <1>1, <1>2, <1>3

\* What is handed to the reflector.
Handed(S, f) == [S EXCEPT ![f.s] = Append(@, <<f.what, f.i>>)]

LEMMA HandedGrows ==
  ASSUME NEW S, DOMAIN S = SagaIds, \A s \in SagaIds : IsSeq(S[s]), NEW f
  PROVE  /\ Grown(S, Handed(S, f))
         /\ DOMAIN Handed(S, f) = SagaIds /\ \A s \in SagaIds : IsSeq(Handed(S, f)[s])
<1> DEFINE R == Handed(S, f)
           x == <<f.what, f.i>>
<1>1. DOMAIN R = SagaIds /\ \A s \in SagaIds : R[s] = IF s = f.s THEN Append(S[s], x) ELSE S[s]
  BY DEF Handed
<1> HIDE DEF x, R
<1>2. ASSUME NEW s \in SagaIds
      PROVE  IsSeq(R[s]) /\ \A i : Heard(S, s, i) => Heard(R, s, i)
  <2>1. CASE s = f.s
    <3>1. IsSeq(S[s])
      OBVIOUS
    <3>2. /\ IsSeq(Append(S[s], x)) /\ Len(Append(S[s], x)) = Len(S[s]) + 1
          /\ \A n \in 1..Len(S[s]) : Append(S[s], x)[n] = S[s][n]
      BY <3>1, AddOne
    <3>3. R[s] = Append(S[s], x)
      BY <1>1, <2>1
    <3>4. DOMAIN S[s] = 1..Len(S[s]) /\ DOMAIN R[s] = 1..(Len(S[s]) + 1) /\ Len(S[s]) \in Nat
      BY <3>1, <3>2, <3>3, SeqShape
    <3>5. ASSUME NEW i, Heard(S, s, i) PROVE Heard(R, s, i)
      <4>1. PICK n \in DOMAIN S[s] : S[s][n][1] = "step" /\ S[s][n][2] = i
        BY <3>5 DEF Heard
      <4>2. n \in DOMAIN R[s] /\ R[s][n] = S[s][n]
        BY <3>2, <3>3, <3>4, <4>1
      <4>3. QED
        BY <4>1, <4>2 DEF Heard
    <3>6. QED
      BY <3>2, <3>3, <3>5
  <2>2. CASE s # f.s
    <3>1. R[s] = S[s]
      BY <1>1, <2>2
    <3>2. QED
      BY <3>1 DEF Heard
  <2>3. QED
    BY <2>1, <2>2
<1>3. QED
  BY <1>1, <1>2 DEF R, Grown

\* A bundle of a saga: what was then sent, what is left.
LEMMA SendsSaga ==
  ASSUME NEW B, NEW S, DOMAIN S = SagaIds, \A s \in SagaIds : IsSeq(S[s]),
         NEW K \in [SagaIds -> SagaRec], NEW t, IsSeq(t), SagaWork(B, S, K, t), Head(t).k = "bundle",
         \A s \in SagaIds : SagaSound(B, S, K, s),
         NEW R, R = Handed(S, Head(t))
  PROVE  /\ \A s \in SagaIds : SagaSound(B, R, K, s)
         /\ AllPlain(R, Tail(t)) \/ SagaWork(B, R, K, Tail(t))
<1> DEFINE u == Tail(t)
           f == Head(t)
<1>0. t # <<>>
  BY SagaHead
<1>00. IsSeq(u)
  BY <1>0, Rest
<1>1. PICK s \in SagaIds :
        \/ K[s].st = "none" /\ Told(B, S, s, <<>>) /\ Beginning(S, t, s) /\ Sagas[s].steps > 0
        \/ \E i \in 0..(Sagas[s].steps - 1) : StepWork(B, S, K, t, s, i)
  BY DEF SagaWork
<1>2. Sagas[s].steps \in Nat
  BY SagasAssumption
<1>3. \A x : f # Persist(x)
  BY DEF Persist
<1>4. Grown(S, R)
  BY HandedGrows
<1>5. ASSUME NEW w, NEW i, f = Send(w, s, i)
      PROVE  R[s] = Append(S[s], <<w, i>>) /\ \A z \in SagaIds \ {s} : R[z] = S[z]
  <2>1. f.s = s /\ f.what = w /\ f.i = i
    BY <1>5 DEF Send
  <2>2. R = [S EXCEPT ![f.s] = Append(@, <<f.what, f.i>>)]
    BY DEF Handed
  <2> HIDE DEF f
  <2>3. QED
    BY <2>1, <2>2
<1> HIDE DEF u, f
<1>6. ASSUME \A z \in SagaIds \ {s} : R[z] = S[z], SagaSound(B, R, K, s)
      PROVE  \A z \in SagaIds : SagaSound(B, R, K, z)
  <2>1. ASSUME NEW z \in SagaIds, z # s PROVE SagaSound(B, R, K, z)
    <3>1. R[z] = S[z] /\ SagaSound(B, S, K, z)
      BY <1>6, <2>1
    <3>2. QED
      BY <3>1 DEF SagaSound, Told
  <2>2. QED
    BY <1>6, <2>1
<1>7. CASE Beginning(S, t, s)
  BY <1>3, <1>7 DEF Beginning, f
<1>8. ASSUME NEW i \in 0..(Sagas[s].steps - 1), StepWork(B, S, K, t, s, i)
      PROVE  /\ \A z \in SagaIds : SagaSound(B, R, K, z)
             /\ AllPlain(R, u) \/ SagaWork(B, R, K, u)
  <2>0. i \in Nat
    BY <1>2
  <2>1. CASE Stepping(S, t, s, i)
    BY <1>3, <2>1 DEF Stepping, f
  <2>2. CASE At(K, s, "Waiting", i) /\ Told(B, S, s, Trace(i, 0)) /\ Sending(S, t, s, i)
    <3>1. f = Send("step", s, i) /\ Arming(S, u, s, i)
      BY <2>2 DEF Sending, f, u
    <3>2. R[s] = Append(S[s], <<"step", i>>) /\ \A z \in SagaIds \ {s} : R[z] = S[z]
      BY <1>5, <3>1
    <3>3. Told(B, R, s, Trace(i + 1, 0))
      BY <2>0, <2>2, <3>2, TraceStep DEF Told
    <3>4. SagaSound(B, R, K, s)
      BY <1>2, <2>2, <3>3 DEF SagaSound, At
    <3>5. Heard(R, s, i)
      <4>1. IsSeq(S[s])
        OBVIOUS
      <4>0. PICK q, x : q = S[s] /\ x = <<"step", i>>
        OBVIOUS
      <4>20. /\ IsSeq(Append(q, x)) /\ Len(Append(q, x)) = Len(q) + 1
             /\ Append(q, x)[Len(q) + 1] = x
        BY <4>0, <4>1, AddOne
      <4>2. /\ IsSeq(R[s]) /\ Len(R[s]) = Len(S[s]) + 1
            /\ R[s][Len(S[s]) + 1] = <<"step", i>>
        BY <3>2, <4>0, <4>20
      <4>3. Len(S[s]) \in Nat /\ DOMAIN R[s] = 1..(Len(S[s]) + 1)
        BY <4>1, <4>2, SeqShape
      <4>4. Len(S[s]) + 1 \in DOMAIN R[s]
        BY <4>3
      <4>5. QED
        BY <4>2, <4>4 DEF Heard
    <3>6. AllPlain(R, u)
      <4>1. u # <<>> /\ Head(u) = SetTimer(SagaTimer(s, i)) /\ AllPlain(S, Tail(u))
        BY <3>1 DEF Arming
      <4>2. /\ Head(u) = u[1] /\ Len(u) \in Nat \ {0} /\ Len(Tail(u)) = Len(u) - 1
            /\ \A n \in 1..(Len(u) - 1) : Tail(u)[n] = u[n + 1]
        BY <1>00, <4>1, Rest
      <4>3. AllPlain(R, Tail(u))
        BY <1>4, <4>1, StaysPlain
      <4>4. Plain(R, u[1])
        <5>1. TimerOK(R, SagaTimer(s, i))
          BY <3>5 DEF TimerOK, SagaTimer
        <5>2. u[1].k = "arm" /\ u[1].t = SagaTimer(s, i)
          BY <4>1, <4>2 DEF SetTimer
        <5>3. QED
          BY <5>1, <5>2 DEF Plain
      <4>5. ASSUME NEW n \in 1..Len(u), n # 1 PROVE Plain(R, u[n])
        <5>1. n - 1 \in 1..(Len(u) - 1) /\ n = (n - 1) + 1
          BY <4>2, <4>5
        <5>2. Tail(u)[n - 1] = u[n]
          BY <4>2, <5>1
        <5>3. QED
          BY <4>2, <4>3, <5>1, <5>2 DEF AllPlain
      <4>6. QED
        BY <4>4, <4>5 DEF AllPlain
    <3>7. QED
      BY <1>6, <3>2, <3>4, <3>6
  <2>3. CASE Acking(S, t, s, i)
    BY <1>3, <2>3 DEF Acking, Acked, f
  <2>4. CASE Ending(S, t, s, "Completed")
    BY <1>3, <2>4 DEF Ending, f
  <2>5. CASE \E c \in 0..i : Undoing(S, t, s, c)
    <3>1. PICK c \in 0..i : Undoing(S, t, s, c)
      BY <2>5
    <3>2. c \in Nat
      BY <2>0
    <3>3. \E x : Head(t) = Persist(x)
      <4>1. CASE c = 0
        BY <3>1, <3>2, <4>1, UndoingSeq
      <4>2. CASE c > 0
        BY <3>1, <3>2, <4>2, UndoingSeq
      <4>3. QED
        BY <3>2, <4>1, <4>2
    <3>4. QED
      BY <1>3, <3>3 DEF f
  <2>6. CASE /\ At(K, s, "Compensating", i)
             /\ \E c \in 0..(i - 1) : Told(B, S, s, Trace(i + 1, i - 1 - c)) /\ Recalling(S, t, s, c)
    <3>1. PICK c \in 0..(i - 1) : Told(B, S, s, Trace(i + 1, i - 1 - c)) /\ Recalling(S, t, s, c)
      BY <2>6
    <3>2. f = Send("comp", s, c) /\ Undoing(S, u, s, c)
      BY <3>1 DEF Recalling, f, u
    <3>3. R[s] = Append(S[s], <<"comp", c>>) /\ \A z \in SagaIds \ {s} : R[z] = S[z]
      BY <1>5, <3>2
    <3>4. Told(B, R, s, Trace(i + 1, i - c))
      BY <2>0, <3>1, <3>3, TraceComp DEF Told
    <3>5. SagaSound(B, R, K, s)
      BY <2>6 DEF SagaSound, At
    <3>6. Undoing(R, u, s, c)
      <4>1. \A x : Plain(S, x) => Plain(R, x)
        BY <1>4, StaysPlain
      <4>2. QED
        BY <3>2, <4>1 DEF Undoing
    <3>7. c \in 0..i
      BY <2>0
    <3>8. StepWork(B, R, K, u, s, i)
      BY <2>6, <3>4, <3>6, <3>7 DEF StepWork
    <3>9. QED
      BY <1>6, <3>3, <3>5, <3>8 DEF SagaWork
  <2>7. QED
    BY <1>8, <2>1, <2>2, <2>3, <2>4, <2>5, <2>6 DEF StepWork
<1>9. QED
  BY <1>1, <1>7, <1>8 DEF u

LEMMA ReplayedKeeps ==
  ASSUME TaskInv, Persisting, NEW e, e = Head(todo).e, Replayed(e),
         \/ log' = Append(log, e) /\ missed' = missed
         \/ log' = log /\ missed' = missed /\ e.k \notin SagaAlgebra
         \/ log' = log /\ e.k \in SagaAlgebra /\ missed' = [missed EXCEPT ![e.s] = @ + 1]
  PROVE  TaskInv'
<1> DEFINE r == ApplyLogged(mem, e)
<1>1. /\ running /\ todo # <<>> /\ Head(todo).k = "persist"
      /\ mem' = r.m /\ todo' = r.fx \o Tail(todo)
      /\ UNCHANGED <<timers, inbox, running, sent, arrivals, deliveries, restarts, behind, inputs>>
  BY DEF Persisting, Replayed
<1>2. /\ Shaped(mem) /\ IsSeq(log) /\ IsSeq(todo) /\ IsSeq(inbox)
      /\ DOMAIN sent = SagaIds /\ \A s \in SagaIds : IsSeq(sent[s])
      /\ \A n \in 1..Len(log) : EventOK(log[n])
      /\ restarts \in Nat /\ missed \in [SagaIds -> Nat]
  BY DEF TaskInv, TaskType
<1>3. View = mem.sagas /\ View' = mem'.sagas
  BY <1>1 DEF View, Lost
<1>4. /\ HeldSound(sent, mem.gates) /\ Sound(behind, sent, mem.sagas, mem.gates, todo)
      /\ \A s \in SagaIds : SagaSound(behind, sent, mem.sagas, s)
  BY SMTT(40), <1>1, <1>3 DEF TaskInv
<1>5. /\ EventOK(e) /\ Shaped(r.m) /\ HeldSound(sent, r.m.gates)
      /\ r.m.sagas = SagasAfter(mem.sagas, e)
      /\ e.k \notin SagaAlgebra => r.m.sagas = mem.sagas
      /\ IsSeq(todo') /\ Sound(behind, sent, r.m.sagas, r.m.gates, todo')
      /\ \A s \in SagaIds : SagaSound(behind, sent, r.m.sagas, s)
      /\ e.k \in GateEvents => mem.gates[e.b].kind # "none"
  <2>1. Head(todo).k = "persist" /\ Head(todo).e = e /\ todo # <<>>
    BY <1>1
  <2>2. Persisted(behind, sent, mem, e, Tail(todo))
    BY <1>2, <1>4, <2>1, PersistSound
  <2>3. todo' = r.fx \o Tail(todo)
    BY <1>1
  <2>4. QED
    BY <2>2, <2>3 DEF Persisted
<1>6. GatesFollow(mem, e, r)
  BY <1>2, <1>5, Applies DEF Applied
<1> HIDE DEF r
<1>7. /\ IsSeq(log') /\ (\A n \in 1..Len(log') : EventOK(log'[n]))
      /\ Kept' = IF log' = log THEN Kept ELSE SagasAfter(Kept, e)
      /\ Kept \in [SagaIds -> SagaRec]
  <2>0. Kept \in [SagaIds -> SagaRec]
    BY <1>2, ReplaySane DEF Sane, Shaped, Kept
  <2>1. CASE log' = Append(log, e)
    <3>2. /\ IsSeq(log') /\ Len(log') = Len(log) + 1 /\ log'[Len(log) + 1] = e
          /\ \A n \in 1..Len(log) : log'[n] = log[n]
      BY <1>2, <2>1, AddOne
    <3>3. Len(log) \in Nat
      BY <1>2, SeqShape
    <3>4. ASSUME NEW n \in 1..Len(log') PROVE EventOK(log'[n])
      <4>1. n \in 1..Len(log) \/ n = Len(log) + 1
        BY <3>2, <3>3
      <4>2. QED
        BY <1>2, <1>5, <3>2, <4>1
    <3>5. Kept' = SagasAfter(Kept, e)
      BY <1>2, <1>5, <2>1, KeptGrows DEF Kept
    <3>6. log' # log
      BY <3>2, <3>3
    <3>7. QED
      BY <2>0, <3>2, <3>4, <3>5, <3>6
  <2>2. CASE log' = log
    BY <1>2, <2>0, <2>2 DEF Kept
  <2>3. QED
    BY <2>1, <2>2
<1>8. TaskType'
  <2>1. missed' \in [SagaIds -> Nat]
    BY <1>2
  <2>2. QED
    BY <1>1, <1>2, <1>5, <1>7, <2>1 DEF TaskType
<1>9. GateHolds'
  <2>1. ASSUME NEW b \in BundleIds, restarts = 0, r.m.gates[b].kind # "none" PROVE r.m.gates[b].held
    <3>1. mem.gates[b].kind # "none" => mem.gates[b].held
      BY <1>1, <2>1 DEF TaskInv, GateHolds
    <3>2. QED
      BY <1>5, <1>6, <2>1, <3>1 DEF GatesFollow
  <2>2. QED
    BY <1>1, <2>1 DEF GateHolds
<1>10. MailSound(sent, timers, inbox)' /\ HeldSound(sent', mem'.gates)
  BY <1>1, <1>5 DEF TaskInv
<1>11. (\A s \in SagaIds : SagaSound(behind, sent, View, s))' /\ Sound(behind', sent', View', mem'.gates, todo')
  BY <1>1, <1>3, <1>5
<1>12. MemKept'
  <2> SUFFICES ASSUME NEW s \in SagaIds, missed'[s] = 0 PROVE mem'.sagas[s] = Kept'[s]
    BY <1>3 DEF MemKept
  <2>1. mem'.sagas = SagasAfter(mem.sagas, e) /\ mem.sagas \in [SagaIds -> SagaRec]
    BY <1>1, <1>2, <1>5 DEF Shaped
  <2>2. missed[s] = 0 => mem.sagas[s] = Kept[s]
    BY <1>3 DEF TaskInv, MemKept
  <2>3. CASE log' # log
    <3>1. missed[s] = 0 /\ Kept' = SagasAfter(Kept, e)
      BY <1>7, <2>3
    <3>2. mem.sagas[s] = Kept[s]
      BY <2>2, <3>1
    <3>3. SagasAfter(mem.sagas, e)[s] = SagasAfter(Kept, e)[s]
      BY <1>7, <2>1, <3>2, SagasLocal
    <3>4. QED
      BY <2>1, <3>1, <3>3
  <2>4. CASE log' = log /\ missed' = missed /\ e.k \notin SagaAlgebra
    BY <1>1, <1>5, <1>7, <2>2, <2>4
  <2>5. CASE log' = log /\ e.k \in SagaAlgebra /\ missed' = [missed EXCEPT ![e.s] = @ + 1]
    <3>1. s # e.s /\ missed[s] = 0
      BY <1>2, <2>5
    <3>2. SagasAfter(mem.sagas, e)[s] = mem.sagas[s]
      BY <1>7, <2>1, <3>1, SagasLocal
    <3>3. QED
      BY <1>7, <2>1, <2>2, <2>5, <3>1, <3>2
  <2>6. log' = Append(log, e) => log' # log
    <3>1. Len(Append(log, e)) = Len(log) + 1
      BY <1>2, AddOne
    <3>2. Len(log) \in Nat
      BY <1>2, SeqShape
    <3>3. QED
      BY <3>1, <3>2
  <2>7. QED
    BY <2>3, <2>4, <2>5, <2>6
<1>13. running'
  BY <1>1
<1>14. QED
  BY <1>8, <1>9, <1>10, <1>11, <1>12, <1>13 DEF TaskInv

LEMMA RunPersistKeeps == TaskInv /\ RunPersist => TaskInv'
<1> SUFFICES ASSUME TaskInv, RunPersist PROVE TaskInv'
  OBVIOUS
<1>1. PICK e : e = Head(todo).e
  OBVIOUS
<1>2. /\ Persisting /\ Replayed(e) /\ missed' = missed
      /\ log' = IF Autonomous(e) THEN Append(log, e) ELSE log
  BY <1>1 DEF RunPersist
<1>3. ~Autonomous(e) => e.k \notin SagaAlgebra
  BY DEF Autonomous
<1>4. \/ log' = Append(log, e) /\ missed' = missed
      \/ log' = log /\ missed' = missed /\ e.k \notin SagaAlgebra
  BY <1>2, <1>3
<1>5. QED
  BY <1>1, <1>2, <1>4, ReplayedKeeps

LEMMA RunFallbackKeeps == TaskInv /\ RunFallback => TaskInv'
<1> SUFFICES ASSUME TaskInv, RunFallback PROVE TaskInv'
  OBVIOUS
<1>1. PICK e : e = Head(todo).e
  OBVIOUS
<1>2. /\ Persisting /\ Replayed(e) /\ log' = log
      /\ missed' = IF e.k \in SagaAlgebra THEN [missed EXCEPT ![e.s] = @ + 1] ELSE missed
  BY <1>1 DEF RunFallback
<1>3. \/ log' = log /\ missed' = missed /\ e.k \notin SagaAlgebra
      \/ log' = log /\ e.k \in SagaAlgebra /\ missed' = [missed EXCEPT ![e.s] = @ + 1]
  BY <1>2
<1>4. QED
  BY <1>1, <1>2, <1>3, ReplayedKeeps

LEMMA RunTimerKeeps == TaskInv /\ RunTimer => TaskInv'
<1> SUFFICES ASSUME TaskInv, RunTimer PROVE TaskInv'
  OBVIOUS
<1> DEFINE f == Head(todo)
<1>1. /\ running /\ todo # <<>> /\ f.k \in {"arm", "cancel"}
      /\ timers' = IF f.k = "arm" THEN timers \cup {f.t} ELSE timers \ {f.t}
      /\ todo' = Tail(todo)
      /\ UNCHANGED <<mem, log, missed, behind, inbox, running, sent, restarts>>
  BY DEF RunTimer, world, logged
<1>2. TaskType /\ IsSeq(todo) /\ Sound(behind, sent, View, mem.gates, todo)
  BY <1>1 DEF TaskInv, TaskType
<1>3. IsSeq(Tail(todo))
  BY <1>1, <1>2, Rest
<1>4. (f.k = "arm" => TimerOK(sent, f.t)) /\ Sound(behind, sent, View, mem.gates, Tail(todo))
  <2>1. CASE AllPlain(sent, todo)
    <3>1. Plain(sent, f) /\ AllPlain(sent, Tail(todo))
      BY <1>1, <1>2, <2>1, PlainTail
    <3>2. QED
      BY <3>1 DEF Plain, Sound
  <2>2. CASE Gating(sent, mem.gates, todo)
    BY <1>1, <2>2 DEF Gating
  <2>3. CASE SagaWork(behind, sent, View, todo)
    BY <1>1, <1>2, <2>3, SagaHead
  <2>4. CASE Lead(f) /\ SagaWork(behind, sent, View, Tail(todo))
    BY <1>1, <2>4 DEF Lead, Sound
  <2>5. QED
    BY <1>2, <2>1, <2>2, <2>3, <2>4 DEF Sound
<1>5. MailSound(sent, timers', inbox)
  BY <1>1, <1>4 DEF MailSound, TaskInv
<1> HIDE DEF f
<1>6. TaskType'
  BY <1>1, <1>2, <1>3 DEF TaskType
<1>7. View' = View /\ Kept' = Kept
  BY <1>1 DEF View, Lost, Kept
<1>8. QED
  BY <1>1, <1>4, <1>5, <1>6, <1>7 DEF TaskInv, MemKept, GateHolds

LEMMA MailPost ==
  ASSUME NEW S, NEW q, IsSeq(q), \A n \in 1..Len(q) : LetterOK(S, q[n]), NEW x, LetterOK(S, x)
  PROVE  IsSeq(Append(q, x)) /\ \A n \in 1..Len(Append(q, x)) : LetterOK(S, Append(q, x)[n])
<1> DEFINE p == Append(q, x)
<1>1. /\ IsSeq(p) /\ Len(p) = Len(q) + 1 /\ p[Len(q) + 1] = x
      /\ \A n \in 1..Len(q) : p[n] = q[n]
  BY AddOne
<1>2. Len(q) \in Nat
  BY SeqShape
<1> HIDE DEF p
<1>3. ASSUME NEW n \in 1..Len(p) PROVE LetterOK(S, p[n])
  <2>1. n \in 1..Len(q) \/ n = Len(q) + 1
    BY <1>1, <1>2
  <2>2. QED
    BY <1>1, <2>1
<1>4. QED
  BY <1>1, <1>3 DEF p

LEMMA RunSendKeeps == TaskInv /\ RunSend => TaskInv'
<1> SUFFICES ASSUME TaskInv, RunSend PROVE TaskInv'
  OBVIOUS
<1> DEFINE f == Head(todo)
<1>1. /\ running /\ todo # <<>> /\ f.k \in {"bundle", "deliver", "close"}
      /\ sent' = IF f.k = "bundle" THEN Handed(sent, f) ELSE sent
      /\ inbox' = IF f.k = "deliver" THEN Append(inbox, [k |-> "bundle", b |-> f.b]) ELSE inbox
      /\ todo' = Tail(todo)
      /\ UNCHANGED <<mem, log, missed, behind, timers, running, restarts>>
  BY DEF RunSend, Handed, logged
<1>2. /\ Shaped(mem) /\ IsSeq(log) /\ IsSeq(todo) /\ IsSeq(inbox)
      /\ DOMAIN sent = SagaIds /\ \A s \in SagaIds : IsSeq(sent[s])
      /\ \A n \in 1..Len(log) : EventOK(log[n])
      /\ restarts \in Nat /\ missed \in [SagaIds -> Nat]
  BY DEF TaskInv, TaskType
<1>3. /\ Sound(behind, sent, View, mem.gates, todo) /\ HeldSound(sent, mem.gates)
      /\ MailSound(sent, timers, inbox) /\ \A s \in SagaIds : SagaSound(behind, sent, View, s)
      /\ GateHolds /\ View = mem.sagas
  BY <1>1 DEF TaskInv, View, Lost
<1>4. IsSeq(Tail(todo))
  BY <1>1, <1>2, Rest
<1> HIDE DEF f
<1>5. View' = View /\ GateHolds' /\ MemKept' /\ behind' = behind
  <2>1. View' = View /\ Kept' = Kept
    BY <1>1 DEF View, Lost, Kept
  <2>2. QED
    BY <1>1, <1>3, <2>1 DEF TaskInv, GateHolds, MemKept
<1>6. CASE f.k = "bundle"
  <2>1. SagaWork(behind, sent, View, todo)
    <3>1. ~AllPlain(sent, todo)
      <4>1. ~Plain(sent, f)
        BY <1>6 DEF Plain
      <4>2. QED
        BY <1>1, <1>2, <4>1, PlainTail DEF f
    <3>2. ~Gating(sent, mem.gates, todo) /\ ~Lead(Head(todo))
      BY <1>6 DEF Gating, Lead, f
    <3>3. QED
      BY <1>3, <3>1, <3>2 DEF Sound
  <2>2. View \in [SagaIds -> SagaRec]
    BY <1>2, <1>3 DEF Shaped
  <2>3. sent' = Handed(sent, Head(todo)) /\ Head(todo).k = "bundle"
    BY <1>1, <1>6 DEF f
  <2>4. /\ \A s \in SagaIds : SagaSound(behind', sent', View, s)
        /\ AllPlain(sent', Tail(todo)) \/ SagaWork(behind', sent', View, Tail(todo))
    BY <1>2, <1>3, <1>5, <2>1, <2>2, <2>3, SendsSaga
  <2>5. Grown(sent, sent') /\ DOMAIN sent' = SagaIds /\ \A s \in SagaIds : IsSeq(sent'[s])
    BY <1>2, <2>3, HandedGrows
  <2>6. /\ \A b : Grounds(sent, b) => Grounds(sent', b)
        /\ \A t : TimerOK(sent, t) => TimerOK(sent', t)
        /\ \A x : LetterOK(sent, x) => LetterOK(sent', x)
    BY <2>5, StaysPlain
  <2>7. inbox' = inbox
    BY <1>1, <1>6
  <2>8. HeldSound(sent', mem'.gates) /\ MailSound(sent', timers', inbox')
    BY <1>1, <1>3, <2>6, <2>7 DEF HeldSound, MailSound
  <2>9. TaskType'
    BY <1>1, <1>2, <1>4, <2>5, <2>7 DEF TaskType
  <2>10. Sound(behind', sent', View', mem'.gates, todo')
    BY <1>1, <1>5, <2>4 DEF Sound
  <2>11. QED
    BY <1>1, <1>5, <2>4, <2>8, <2>9, <2>10 DEF TaskInv
<1>7. CASE f.k # "bundle"
  <2>1. Plain(sent, f) /\ AllPlain(sent, Tail(todo))
    <3>1. CASE AllPlain(sent, todo)
      BY <1>1, <1>2, <3>1, PlainTail DEF f
    <3>2. CASE Gating(sent, mem.gates, todo)
      BY <1>1, <3>2 DEF Gating, f
    <3>3. CASE SagaWork(behind, sent, View, todo)
      <4>1. f.k \in {"persist", "bundle"}
        BY <1>2, <3>3, SagaHead DEF f
      <4>2. QED
        BY <1>1, <1>7, <4>1
    <3>4. CASE Lead(Head(todo))
      BY <1>1, <3>4 DEF Lead, f
    <3>5. QED
      BY <1>3, <3>1, <3>2, <3>3, <3>4 DEF Sound
  <2>2. sent' = sent
    BY <1>1, <1>7
  <2>3. IsSeq(inbox') /\ \A n \in 1..Len(inbox') : LetterOK(sent, inbox'[n])
    <3>1. \A n \in 1..Len(inbox) : LetterOK(sent, inbox[n])
      BY <1>3 DEF MailSound
    <3>2. CASE f.k = "deliver"
      <4>1. LetterOK(sent, [k |-> "bundle", b |-> f.b])
        BY <2>1, <3>2 DEF Plain, LetterOK
      <4>2. inbox' = Append(inbox, [k |-> "bundle", b |-> f.b])
        BY <1>1, <3>2
      <4>3. QED
        BY <1>2, <3>1, <4>1, <4>2, MailPost
    <3>3. CASE f.k # "deliver"
      BY <1>1, <1>2, <3>1, <3>3
    <3>4. QED
      BY <3>2, <3>3
  <2>4. MailSound(sent', timers', inbox') /\ HeldSound(sent', mem'.gates)
    BY <1>1, <1>3, <2>2, <2>3 DEF MailSound
  <2>5. TaskType'
    BY <1>1, <1>2, <1>4, <2>2, <2>3 DEF TaskType
  <2>6. Sound(behind', sent', View', mem'.gates, todo')
    BY <1>1, <2>1, <2>2 DEF Sound
  <2>7. QED
    BY <1>1, <1>3, <1>5, <2>2, <2>4, <2>5, <2>6 DEF TaskInv
<1>8. QED
  BY <1>6, <1>7

LEMMA FireKeeps == ASSUME NEW t, Fire(t), TaskInv PROVE TaskInv'
<1> DEFINE x == [k |-> "timer", t |-> t]
<1>1. /\ running /\ t \in timers /\ timers' = timers \ {t} /\ inbox' = Append(inbox, x)
      /\ UNCHANGED <<mem, todo, log, missed, behind, running, sent, restarts>>
  BY DEF Fire, world, logged
<1>2. TaskType /\ IsSeq(inbox) /\ MailSound(sent, timers, inbox)
  BY DEF TaskInv, TaskType
<1>3. LetterOK(sent, x)
  BY <1>1, <1>2 DEF LetterOK, MailSound
<1>4. IsSeq(inbox') /\ \A n \in 1..Len(inbox') : LetterOK(sent, inbox'[n])
  <2>1. \A n \in 1..Len(inbox) : LetterOK(sent, inbox[n])
    BY <1>2 DEF MailSound
  <2> HIDE DEF x
  <2>2. QED
    BY <1>1, <1>2, <1>3, <2>1, MailPost
<1>5. MailSound(sent', timers', inbox')
  BY <1>1, <1>2, <1>4 DEF MailSound
<1>6. TaskType' /\ Kept' = Kept /\ View' = View
  BY <1>1, <1>2, <1>4 DEF TaskType, Kept, View, Lost
<1>7. QED
  BY <1>1, <1>5, <1>6 DEF TaskInv, MemKept, GateHolds

LEMMA StopKeeps == TaskInv /\ Stop => TaskInv'
<1> SUFFICES ASSUME TaskInv, Stop PROVE TaskInv'
  OBVIOUS
<1>1. /\ running /\ todo = <<>> /\ ~running' /\ inbox' = <<>> /\ timers' = {} /\ mem.state = "Archived"
      /\ UNCHANGED <<mem, todo, log, missed, behind, sent, restarts>>
  BY DEF Stop, Listening, world, logged
<1>2. MailSound(sent', timers', inbox')
  BY <1>1, NoSeq DEF MailSound
<1>3. TaskType' /\ Kept' = Kept
  BY <1>1, NoSeq DEF TaskInv, TaskType, Kept
<1>4. View' = View
  <2>0. NewMemory.state = "Active"
    BY DEF NewMemory
  <2>1. mem # NewMemory
    BY <1>1, <2>0
  <2>2. QED
    BY <1>1, <2>1 DEF View, Lost
<1>5. QED
  BY <1>1, <1>2, <1>3, <1>4 DEF TaskInv, MemKept, GateHolds

\* What is lost of the memory of a saga is known of those that are not behind.
LEMMA CrashKeeps == TaskInv /\ Crash => TaskInv'
<1> SUFFICES ASSUME TaskInv, Crash PROVE TaskInv'
  OBVIOUS
<1>1. /\ running /\ ~running' /\ todo' = <<>> /\ inbox' = <<>> /\ timers' = {} /\ mem' = NewMemory
      /\ restarts' = restarts + 1
      /\ behind' = behind \cup {s \in SagaIds : Kept[s] # mem.sagas[s]}
      /\ missed' = [s \in SagaIds |-> 0]
      /\ UNCHANGED <<log, sent>>
  BY DEF Crash, world, Kept
<1>2. MailSound(sent', timers', inbox')
  BY <1>1, NoSeq DEF MailSound
<1>3. Shaped(NewMemory) /\ HeldSound(sent, NewMemory.gates)
  BY BlankEarly DEF Early, Sane, Blank, HeldSound
<1>4. TaskType' /\ Kept' = Kept
  BY <1>1, <1>3, NoSeq DEF TaskInv, TaskType, Kept
<1>5. HeldSound(sent', mem'.gates)
  BY <1>1, <1>3
<1>6. View = mem.sagas /\ View' = Kept
  BY <1>1, <1>4 DEF View, Lost
<1>7. (\A s \in SagaIds : SagaSound(behind, sent, View, s))'
  <2>1. InRange(Kept)
    BY ReplaySane DEF TaskInv, TaskType, Sane, Kept
  <2>2. ASSUME NEW s \in SagaIds PROVE SagaSound(behind', sent, Kept, s)
    <3>1. CASE s \in behind'
      BY <2>1, <3>1 DEF SagaSound, Told, InRange
    <3>2. CASE s \notin behind'
      <4>1. Kept[s] = mem.sagas[s] /\ s \notin behind
        BY <1>1, <3>2
      <4>2. SagaSound(behind, sent, mem.sagas, s)
        BY <1>6 DEF TaskInv
      <4>3. QED
        BY <3>2, <4>1, <4>2 DEF SagaSound, Told
    <3>3. QED
      BY <3>1, <3>2
  <2>3. QED
    BY <1>1, <1>6, <2>2
<1>8. MemKept'
  BY <1>4, <1>6 DEF MemKept
<1>9. QED
  BY <1>1, <1>2, <1>4, <1>5, <1>7, <1>8 DEF TaskInv, GateHolds

LEMMA RestartKeeps == TaskInv /\ Restart => TaskInv'
<1> SUFFICES ASSUME TaskInv, Restart PROVE TaskInv'
  OBVIOUS
<1>1. /\ ~running /\ restarts > 0 /\ mem = NewMemory
      /\ running' /\ mem' = Replay(log).m /\ timers' = Replay(log).ts
      /\ UNCHANGED <<todo, log, missed, behind, inbox, sent, restarts>>
  BY DEF Restart, world, logged
<1>2. Sane(Replay(log))
  BY ReplaySane DEF TaskInv, TaskType
<1>3. \A t \in timers' : TimerOK(sent, t)
  BY <1>1, <1>2 DEF Sane, TimerOK
<1>4. MailSound(sent', timers', inbox')
  BY <1>1, <1>3 DEF TaskInv, MailSound
<1>5. Shaped(mem') /\ HeldSound(sent', mem'.gates)
  BY <1>1, <1>2 DEF Sane, HeldSound
<1>6. TaskType' /\ Kept' = Kept /\ View' = View
  BY <1>1, <1>5 DEF TaskInv, TaskType, Kept, View, Lost
<1>7. Sound(behind', sent', View', mem'.gates, todo')
  BY <1>1, NoSeq DEF TaskInv, Sound, AllPlain
<1>8. GateHolds'
  <2>1. restarts \in Nat
    BY DEF TaskInv, TaskType
  <2>2. restarts' # 0
    BY <1>1, <2>1
  <2>3. QED
    BY <2>2 DEF GateHolds
<1>9. MemKept'
  BY <1>1, <1>6 DEF TaskInv, MemKept
<1>10. QED
  BY <1>1, <1>4, <1>5, <1>6, <1>7, <1>8, <1>9 DEF TaskInv

LEMMA TaskFrame ==
  TaskInv /\ UNCHANGED <<mem, todo, log, missed, behind, timers, inbox, running, sent, restarts>> => TaskInv'
<1> SUFFICES ASSUME TaskInv,
                    UNCHANGED <<mem, todo, log, missed, behind, timers, inbox, running, sent, restarts>>
             PROVE TaskInv'
  OBVIOUS
<1>1. TaskType' /\ Kept' = Kept /\ View' = View
  BY DEF TaskInv, TaskType, Kept, View, Lost
<1>2. QED
  BY <1>1 DEF TaskInv, MemKept, GateHolds

LEMMA TaskInit == Init => TaskInv
<1> SUFFICES ASSUME Init PROVE TaskInv
  OBVIOUS
<1>1. PICK scene \in Scenes : Start(scene.rows)
  BY DEF Init
<1>2. /\ mem = Replay(log).m /\ timers = Replay(log).ts /\ log = scene.rows
      /\ todo = <<>> /\ inbox = <<>> /\ running = TRUE
      /\ sent = [s \in SagaIds |-> <<>>] /\ restarts = 0
      /\ missed = [s \in SagaIds |-> 0]
  BY <1>1 DEF Init, Start
<1>3. /\ IsSeq(log)
      /\ \A n \in 1..Len(log) : log[n].k \notin SagaAlgebra \cup (PolicyAlgebra \ {"PolicySet"})
  <2>1. IsSeq(log)
    BY <1>2, ScenesAssumption DEF IsSeq
  <2>2. DOMAIN log = 1..Len(log)
    BY <2>1, SeqShape
  <2>3. QED
    BY <1>2, <2>1, <2>2, ScenesAssumption
<1>4. Early(Replay(log)) /\ \A n \in 1..Len(log) : EventOK(log[n])
  BY <1>3, SceneEarly
<1>5. /\ Shaped(mem) /\ mem.sagas = NewMemory.sagas
      /\ \A b \in BundleIds : ~mem.gates[b].held /\ mem.gates[b].kind = "none"
      /\ \A t \in timers : t[1] = "defer" /\ t[2] \in BundleIds
  BY <1>2, <1>4 DEF Early, Sane
<1>6. TaskType
  BY <1>2, <1>3, <1>4, <1>5, NoSeq DEF TaskType
<1>70. View = Kept /\ Kept = mem.sagas
  BY <1>2 DEF View, Lost, Kept
<1>7. MailSound(sent, timers, inbox) /\ HeldSound(sent, mem.gates)
  BY <1>2, <1>5, NoSeq DEF MailSound, TimerOK, HeldSound
<1>8. \A s \in SagaIds : SagaSound(behind, sent, View, s)
  <2>1. ASSUME NEW s \in SagaIds PROVE SagaSound(behind, sent, View, s)
    <3>1. View[s].st = "none"
      BY <1>5, <1>70 DEF NewMemory
    <3>2. sent[s] = <<>>
      BY <1>2
    <3>3. QED
      BY <3>1, <3>2 DEF SagaSound, Told
  <2>2. QED
    BY <2>1
<1>9. Sound(behind, sent, View, mem.gates, todo)
  BY <1>2, NoSeq DEF Sound, AllPlain
<1>10. GateHolds /\ MemKept
  BY <1>2, <1>5, <1>70 DEF GateHolds, MemKept
<1>11. QED
  BY <1>2, <1>6, <1>7, <1>8, <1>9, <1>10 DEF TaskInv

-----------------------------------------------------------------------------
(* One live event.                                                         *)

\* What a handler's result must be, S is sent and m the memory before it.
ResultOK(B, S, m, r) ==
  /\ Shaped(r.m) /\ r.m.sagas = m.sagas
  /\ IsSeq(r.fx)
  /\ HeldSound(S, r.m.gates)
  /\ \A b \in BundleIds : r.m.gates[b].kind # "none" => r.m.gates[b].held \/ r.m.gates[b] = m.gates[b]
  /\ Sound(B, S, m.sagas, r.m.gates, r.fx)

\* What a handler may rely on.
Ready(B, S, m) ==
  /\ Shaped(m) /\ HeldSound(S, m.gates)
  /\ \A s \in SagaIds : SagaSound(B, S, m.sagas, s)

LEMMA HandleKeeps ==
  ASSUME TaskInv, NEW r, Handle(r), ResultOK(behind, sent, mem, r), sent' = sent,
         inbox' = inbox \/ (inbox # <<>> /\ inbox' = Tail(inbox))
  PROVE  TaskInv'
<1>1. /\ running /\ mem' = r.m /\ todo' = r.fx
      /\ UNCHANGED <<log, missed, behind, timers, running, restarts>>
  BY DEF Handle, Listening, logged
<1>2. View = mem.sagas /\ View' = View /\ Kept' = Kept
  BY <1>1 DEF View, Lost, Kept, ResultOK
<1>3. IsSeq(inbox') /\ MailSound(sent', timers', inbox')
  <2>1. IsSeq(inbox) /\ MailSound(sent, timers, inbox)
    BY DEF TaskInv, TaskType
  <2>2. CASE inbox' = inbox
    BY <1>1, <2>1, <2>2
  <2>3. CASE inbox # <<>> /\ inbox' = Tail(inbox)
    <3>1. /\ IsSeq(inbox') /\ Len(inbox') = Len(inbox) - 1 /\ Len(inbox) \in Nat \ {0}
          /\ \A n \in 1..(Len(inbox) - 1) : inbox'[n] = inbox[n + 1]
      BY <2>1, <2>3, Rest
    <3>2. ASSUME NEW n \in 1..Len(inbox') PROVE LetterOK(sent, inbox'[n])
      <4>1. n + 1 \in 1..Len(inbox) /\ inbox'[n] = inbox[n + 1]
        BY <3>1
      <4>2. QED
        BY <2>1, <4>1 DEF MailSound
    <3>3. QED
      BY <1>1, <2>1, <3>1, <3>2 DEF MailSound
  <2>4. QED
    BY <2>2, <2>3
<1>4. TaskType'
  BY <1>1, <1>3 DEF TaskInv, TaskType, ResultOK
<1>5. GateHolds'
  BY <1>1 DEF TaskInv, GateHolds, ResultOK
<1>6. MemKept'
  BY <1>1, <1>2 DEF TaskInv, MemKept
<1>7. HeldSound(sent', mem'.gates) /\ Sound(behind', sent', View', mem'.gates, todo')
  BY <1>1, <1>2 DEF ResultOK
<1>8. (\A s \in SagaIds : SagaSound(behind, sent, View, s))'
  BY <1>1, <1>2 DEF TaskInv
<1>9. QED
  BY <1>1, <1>3, <1>4, <1>5, <1>6, <1>7, <1>8 DEF TaskInv

LEMMA OnePlain ==
  ASSUME NEW S, NEW fx, fx = <<>> \/ \E f : fx = <<f>> /\ Plain(S, f)
  PROVE  IsSeq(fx) /\ AllPlain(S, fx)
<1>1. CASE fx = <<>>
  BY <1>1, NoSeq DEF AllPlain
<1>2. CASE \E f : fx = <<f>> /\ Plain(S, f)
  <2>1. PICK f : fx = <<f>> /\ Plain(S, f)
    BY <1>2
  <2>2. IsSeq(fx) /\ Len(fx) = 1 /\ fx[1] = f
    BY <2>1, OneSeq
  <2>3. QED
    BY <2>1, <2>2 DEF AllPlain
<1>3. QED
  BY <1>1, <1>2

LEMMA TwoSeq ==
  ASSUME NEW a, NEW b
  PROVE  /\ IsSeq(<<a, b>>) /\ <<a, b>> # <<>> /\ Len(<<a, b>>) = 2
         /\ Head(<<a, b>>) = a /\ Tail(<<a, b>>) = <<b>>
         /\ <<a, b>>[1] = a /\ <<a, b>>[2] = b
<1>1. <<a, b>> \in Seq({a, b})
  OBVIOUS
<1>2. Tail(<<a, b>>) = <<b>> /\ Head(<<a, b>>) = a /\ Len(<<a, b>>) = 2 /\ <<a, b>> # <<>>
  OBVIOUS
<1>3. IsSeq(<<a, b>>)
  BY <1>1, SeqIsSeq
<1>4. <<a, b>>[1] = a /\ <<a, b>>[2] = b
  OBVIOUS
<1>5. QED
  BY <1>2, <1>3, <1>4

LEMMA ThreeSeq ==
  ASSUME NEW a, NEW b, NEW c
  PROVE  /\ IsSeq(<<a, b, c>>) /\ <<a, b, c>> # <<>>
         /\ Head(<<a, b, c>>) = a /\ Tail(<<a, b, c>>) = <<b, c>>
<1>1. <<a, b, c>> \in Seq({a, b, c})
  OBVIOUS
<1>2. Tail(<<a, b, c>>) = <<b, c>> /\ Head(<<a, b, c>>) = a /\ <<a, b, c>> # <<>>
  OBVIOUS
<1>3. IsSeq(<<a, b, c>>)
  BY <1>1, SeqIsSeq
<1>4. QED
  BY <1>2, <1>3

LEMMA TwoPlain ==
  ASSUME NEW S, NEW a, NEW b, Plain(S, a), Plain(S, b)
  PROVE  IsSeq(<<a, b>>) /\ AllPlain(S, <<a, b>>)
<1> DEFINE x == <<a, b>>
<1>1. IsSeq(x) /\ Len(x) = 2 /\ x[1] = a /\ x[2] = b
  BY TwoSeq
<1> HIDE DEF x
<1>2. \A n \in 1..Len(x) : Plain(S, x[n])
  BY <1>1
<1>3. QED
  BY <1>1, <1>2 DEF AllPlain, x

\* An event of another kind.
LEMMA PlainPersist ==
  ASSUME NEW S, NEW e, e.k \notin GateEvents \cup SagaEvents
  PROVE  Plain(S, Persist(e))
BY DEF Plain, Persist, EventOK, GateEvents, SagaEvents

LEMMA PlainRest ==
  ASSUME NEW S
  PROVE  /\ \A a, c : Plain(S, Close(a, c))
         /\ \A t : Plain(S, Cancel(t))
         /\ \A t : TimerOK(S, t) => Plain(S, SetTimer(t))
         /\ \A b : Grounds(S, b) => Plain(S, Deliver(b))
BY DEF Plain, Close, Cancel, SetTimer, Deliver

LEMMA Quiet ==
  ASSUME NEW B, NEW S, NEW m, Ready(B, S, m), NEW r,
         DOMAIN r.m = Fields, r.m.sagas = m.sagas, r.m.gates = m.gates,
         IsSeq(r.fx), AllPlain(S, r.fx)
  PROVE  ResultOK(B, S, m, r)
BY DEF Ready, ResultOK, Shaped, Sound

LEMMA QuietOne ==
  ASSUME NEW B, NEW S, NEW m, Ready(B, S, m), NEW r,
         DOMAIN r.m = Fields, r.m.sagas = m.sagas, r.m.gates = m.gates,
         r.fx = <<>> \/ \E f : r.fx = <<f>> /\ Plain(S, f)
  PROVE  ResultOK(B, S, m, r)
<1>1. IsSeq(r.fx) /\ AllPlain(S, r.fx)
  BY OnePlain
<1>2. QED
  BY <1>1, Quiet

LEMMA QuietPersist ==
  ASSUME NEW B, NEW S, NEW m, Ready(B, S, m), NEW r, r.m = m,
         r.fx = <<>> \/ \E e : r.fx = <<Persist(e)>> /\ e.k \notin GateEvents \cup SagaEvents
  PROVE  ResultOK(B, S, m, r)
<1>1. r.fx = <<>> \/ \E f : r.fx = <<f>> /\ Plain(S, f)
  BY PlainPersist
<1>2. DOMAIN r.m = Fields
  BY DEF Ready, Shaped
<1>3. QED
  BY <1>1, <1>2, QuietOne

LEMMA NothingOK == ASSUME NEW B, NEW S, NEW m, Ready(B, S, m) PROVE ResultOK(B, S, m, Nothing(m))
BY QuietPersist DEF Nothing, Result

LEMMA AttendOK == ASSUME NEW B, NEW S, NEW m, Ready(B, S, m), NEW a PROVE ResultOK(B, S, m, Attend(m, a))
<1> DEFINE r == Attend(m, a)
<1>1. DOMAIN r.m = Fields /\ r.m.sagas = m.sagas /\ r.m.gates = m.gates /\ r.fx = <<>>
  BY DEF Ready, Shaped, Fields, Attend, Result
<1> HIDE DEF r
<1>2. QED
  BY <1>1, QuietOne DEF r

LEMMA PresenceOK ==
  ASSUME NEW B, NEW S, NEW m, Ready(B, S, m), NEW a
  PROVE  /\ ResultOK(B, S, m, LiveConnected(m, a))
         /\ ResultOK(B, S, m, LiveReconnected(m, a))
         /\ ResultOK(B, S, m, LiveDisconnected(m, a))
         /\ ResultOK(B, S, m, LiveDetach(m, a))
         /\ \A c \in CapIds : ResultOK(B, S, m, LiveAttach(m, a, c))
<1>0. DOMAIN m = Fields
  BY DEF Ready, Shaped
<1>1. ASSUME NEW x, NEW c, NEW r, r = Result(m, <<Close(x, c)>>) PROVE ResultOK(B, S, m, r)
  <2>1. r.m = m /\ r.fx = <<Close(x, c)>> /\ Plain(S, Close(x, c))
    BY <1>1, PlainRest DEF Result
  <2>2. QED
    BY <1>0, <2>1, QuietOne
<1>2. ResultOK(B, S, m, LiveConnected(m, a))
  BY <1>1, AttendOK DEF LiveConnected
<1>3. ResultOK(B, S, m, LiveReconnected(m, a))
  BY AttendOK DEF LiveReconnected
<1>4. ResultOK(B, S, m, LiveDisconnected(m, a))
  <2> DEFINE r == LiveDisconnected(m, a)
             W == {p \in Approvals : m.appr[p].by = a /\ Open(m.appr[p].st)}
             cut == SetToSeq(W)
             E(p) == Persist([k |-> "ApprovalInterrupted", p |-> p])
             X == {E(p) : p \in W}
  <2>1. DOMAIN r.m = Fields /\ r.m.sagas = m.sagas /\ r.m.gates = m.gates
    BY <1>0 DEF Fields, LiveDisconnected, Result
  <2>2. r.fx = [n \in DOMAIN cut |-> E(cut[n])]
    BY DEF LiveDisconnected, Result
  <2>3. cut \in Seq(W)
    <3>1. IsFiniteSet(W)
      BY FS_Subset, SagasAssumption
    <3> HIDE DEF W
    <3>2. QED
      BY <3>1, Listed
  <2>4. \A f \in X : Plain(S, f)
    <3>1. ASSUME NEW p PROVE Plain(S, E(p))
      BY PlainPersist DEF GateEvents, SagaEvents
    <3>2. QED
      BY <3>1
  <2> HIDE DEF r, cut, W
  <2>5. Len(cut) \in Nat /\ DOMAIN cut = 1..Len(cut) /\ \A n \in 1..Len(cut) : cut[n] \in W
    BY <2>3, SeqIsSeq
  <2>6. r.fx \in [1..Len(cut) -> X]
    BY <2>2, <2>5
  <2> HIDE DEF X, E
  <2>7. r.fx \in Seq(X)
    BY <2>5, <2>6, SeqDef
  <2>8. IsSeq(r.fx) /\ \A n \in 1..Len(r.fx) : r.fx[n] \in X
    BY <2>7, SeqIsSeq
  <2>9. AllPlain(S, r.fx)
    BY <2>4, <2>8 DEF AllPlain
  <2>10. QED
    BY <2>1, <2>8, <2>9, Quiet DEF r
<1>5. ResultOK(B, S, m, LiveDetach(m, a))
  <2>1. [k |-> "AgentDetached", a |-> a].k \notin GateEvents \cup SagaEvents
    BY DEF GateEvents, SagaEvents
  <2>2. QED
    BY <2>1, QuietPersist DEF LiveDetach, Result
<1>6. ASSUME NEW c \in CapIds PROVE ResultOK(B, S, m, LiveAttach(m, a, c))
  <2>1. [k |-> "AgentAttached", a |-> a].k \notin GateEvents \cup SagaEvents
    BY DEF GateEvents, SagaEvents
  <2>2. ResultOK(B, S, m, Result(m, <<Persist([k |-> "AgentAttached", a |-> a])>>))
    BY <2>1, QuietPersist DEF Result
  <2>3. QED
    BY <1>1, <2>2 DEF LiveAttach
<1>7. QED
  BY <1>2, <1>3, <1>4, <1>5, <1>6

LEMMA AdminOK ==
  ASSUME NEW B, NEW S, NEW m, Ready(B, S, m)
  PROVE  /\ ResultOK(B, S, m, LivePause(m)) /\ ResultOK(B, S, m, LiveResume(m)) /\ ResultOK(B, S, m, LiveArchive(m))
         /\ \A a, b : ResultOK(B, S, m, LiveTransfer(m, a, b))
         /\ ResultOK(B, S, m, LivePost(m)) /\ ResultOK(B, S, m, LiveForwarded(m))
<1>1. ASSUME NEW e, e.k \notin GateEvents \cup SagaEvents PROVE ResultOK(B, S, m, Result(m, <<Persist(e)>>))
  BY <1>1, QuietPersist DEF Result
<1>2. ResultOK(B, S, m, LivePause(m))
  BY <1>1, NothingOK DEF LivePause, GateEvents, SagaEvents
<1>3. ResultOK(B, S, m, LiveResume(m))
  BY <1>1, NothingOK DEF LiveResume, GateEvents, SagaEvents
<1>4. ResultOK(B, S, m, LiveArchive(m))
  BY <1>1 DEF LiveArchive, GateEvents, SagaEvents
<1>5. ASSUME NEW a, NEW b PROVE ResultOK(B, S, m, LiveTransfer(m, a, b))
  BY <1>1 DEF LiveTransfer, GateEvents, SagaEvents
<1>6. ResultOK(B, S, m, LivePost(m)) /\ ResultOK(B, S, m, LiveForwarded(m))
  BY <1>1, NothingOK DEF LivePost, LiveForwarded, GateEvents, SagaEvents
<1>7. QED
  BY <1>2, <1>3, <1>4, <1>5, <1>6

LEMMA ApprovalOK ==
  ASSUME NEW B, NEW S, NEW m, Ready(B, S, m), NEW p
  PROVE  /\ \A a, timed : ResultOK(B, S, m, LiveCreate(m, p, a, timed))
         /\ \A a, d : ResultOK(B, S, m, LiveVote(m, p, a, d))
         /\ ResultOK(B, S, m, LiveClaim(m, p)) /\ ResultOK(B, S, m, LiveCancel(m, p))
<1>0. DOMAIN m = Fields
  BY DEF Ready, Shaped
<1>1. ASSUME NEW fx, IsSeq(fx), AllPlain(S, fx) PROVE ResultOK(B, S, m, Result(m, fx))
  BY <1>0, <1>1, Quiet DEF Result
<1>2. ASSUME NEW e, e.k \notin GateEvents \cup SagaEvents
      PROVE  IsSeq(<<Persist(e)>>) /\ AllPlain(S, <<Persist(e)>>) /\ Plain(S, Persist(e))
             /\ ResultOK(B, S, m, Result(m, <<Persist(e)>>))
  <2>1. Plain(S, Persist(e))
    BY <1>2, PlainPersist
  <2>2. IsSeq(<<Persist(e)>>) /\ AllPlain(S, <<Persist(e)>>)
    BY <2>1, OnePlain
  <2>3. QED
    BY <1>1, <2>1, <2>2
<1>3. TimerOK(S, ApprovalTimer(p))
  BY DEF TimerOK, ApprovalTimer
<1>4. ASSUME NEW a, NEW timed PROVE ResultOK(B, S, m, LiveCreate(m, p, a, timed))
  <2> DEFINE e == [k |-> "ApprovalRequested", p |-> p, a |-> a]
             g == IF timed THEN <<SetTimer(ApprovalTimer(p))>> ELSE <<>>
  <2>1. IsSeq(<<Persist(e)>>) /\ AllPlain(S, <<Persist(e)>>)
    BY <1>2 DEF GateEvents, SagaEvents
  <2>2. Plain(S, SetTimer(ApprovalTimer(p)))
    BY <1>3, PlainRest
  <2>3. IsSeq(g) /\ AllPlain(S, g)
    BY <2>2, OnePlain
  <2> HIDE DEF e, g
  <2>4. IsSeq(<<Persist(e)>> \o g) /\ AllPlain(S, <<Persist(e)>> \o g)
    BY <2>1, <2>3, PlainCat
  <2>5. ResultOK(B, S, m, Result(m, <<Persist(e)>> \o g))
    BY <1>1, <2>4
  <2>6. QED
    BY <2>5, NothingOK DEF LiveCreate, e, g
<1>5. ASSUME NEW a, NEW d PROVE ResultOK(B, S, m, LiveVote(m, p, a, d))
  <2> DEFINE v == <<Persist([k |-> "ApprovalVoted", p |-> p, a |-> a, d |-> d])>>
             g == <<Persist([k |-> "ApprovalGranted", p |-> p]), Cancel(ApprovalTimer(p))>>
             h == <<Persist([k |-> "ApprovalDenied", p |-> p]), Cancel(ApprovalTimer(p))>>
  <2>1. IsSeq(v) /\ AllPlain(S, v)
    BY <1>2 DEF GateEvents, SagaEvents
  <2>2. Plain(S, Cancel(ApprovalTimer(p)))
    BY PlainRest
  <2>3. Plain(S, Persist([k |-> "ApprovalGranted", p |-> p])) /\ Plain(S, Persist([k |-> "ApprovalDenied", p |-> p]))
    BY <1>2 DEF GateEvents, SagaEvents
  <2>4. IsSeq(g) /\ AllPlain(S, g) /\ IsSeq(h) /\ AllPlain(S, h)
    BY <2>2, <2>3, TwoPlain
  <2> HIDE DEF v, g, h
  <2>5. IsSeq(v \o g) /\ AllPlain(S, v \o g) /\ IsSeq(v \o h) /\ AllPlain(S, v \o h)
    BY <2>1, <2>4, PlainCat
  <2>6. ResultOK(B, S, m, Result(m, v)) /\ ResultOK(B, S, m, Result(m, v \o g)) /\ ResultOK(B, S, m, Result(m, v \o h))
    BY <1>1, <2>1, <2>5
  <2>7. LiveVote(m, p, a, d) \in {Nothing(m), Result(m, v), Result(m, v \o g), Result(m, v \o h)}
    BY DEF LiveVote, v, g, h
  <2>8. QED
    BY <2>6, <2>7, NothingOK
<1>6. ResultOK(B, S, m, LiveClaim(m, p))
  BY <1>2, NothingOK DEF LiveClaim, GateEvents, SagaEvents
<1>7. ResultOK(B, S, m, LiveCancel(m, p))
  BY <1>2 DEF LiveCancel, GateEvents, SagaEvents
<1>8. QED
  BY <1>4, <1>5, <1>6, <1>7

\* The effects of one step.
LEMMA StepFx ==
  ASSUME NEW S, NEW s, NEW i
  PROVE  Stepping(S, SendStep(s, i), s, i) /\ IsSeq(SendStep(s, i))
<1> DEFINE a == Persist([k |-> "SagaStepSent", s |-> s, i |-> i])
           b == Send("step", s, i)
           c == SetTimer(SagaTimer(s, i))
<1>1. SendStep(s, i) = <<a, b, c>>
  BY DEF SendStep
<1> HIDE DEF a, b, c
<1>2. Head(<<c>>) = c /\ Tail(<<c>>) = <<>> /\ <<c>> # <<>>
  OBVIOUS
<1>3. AllPlain(S, <<>>)
  BY NoSeq DEF AllPlain
<1>4. Arming(S, <<c>>, s, i)
  BY <1>2, <1>3 DEF Arming, c
<1>5. Head(<<b, c>>) = b /\ Tail(<<b, c>>) = <<c>> /\ <<b, c>> # <<>>
  BY TwoSeq
<1>6. Sending(S, <<b, c>>, s, i)
  BY <1>4, <1>5 DEF Sending, b
<1>7. IsSeq(<<a, b, c>>) /\ Head(<<a, b, c>>) = a /\ Tail(<<a, b, c>>) = <<b, c>> /\ <<a, b, c>> # <<>>
  BY ThreeSeq
<1>8. Stepping(S, <<a, b, c>>, s, i)
  BY <1>6, <1>7 DEF Stepping, a
<1>9. QED
  BY <1>1, <1>7, <1>8

\* The end of a saga.
LEMMA TerminateFx ==
  ASSUME NEW S, NEW s, NEW how
  PROVE  \E v : /\ IsSeq(v) /\ AllPlain(S, v)
                /\ Terminate(s, how) = <<Persist([k |-> "SagaTerminated", s |-> s, out |-> how])>> \o v
<1> DEFINE g == [k |-> "DelegationResolved", s |-> s, p |-> Sagas[s].source,
                 d |-> IF how = "Completed" THEN "Granted" ELSE "Denied"]
           v == IF Sagas[s].source = NoApproval THEN <<>> ELSE <<Persist(g)>>
<1>1. Plain(S, Persist(g))
  BY PlainPersist DEF GateEvents, SagaEvents
<1>2. IsSeq(v) /\ AllPlain(S, v)
  BY <1>1, OnePlain
<1>3. Terminate(s, how) = <<Persist([k |-> "SagaTerminated", s |-> s, out |-> how])>> \o v
  BY DEF Terminate
<1> HIDE DEF v
<1>4. QED
  BY <1>2, <1>3

LEMMA EndFx ==
  ASSUME NEW S, NEW s
  PROVE  Ending(S, Terminate(s, "Completed"), s, "Completed") /\ IsSeq(Terminate(s, "Completed"))
<1>1. PICK v : /\ IsSeq(v) /\ AllPlain(S, v)
               /\ Terminate(s, "Completed") = <<Persist([k |-> "SagaTerminated", s |-> s, out |-> "Completed"])>> \o v
  BY ZenonT(60), TerminateFx
<1> DEFINE c == Persist([k |-> "SagaTerminated", s |-> s, out |-> "Completed"])
           t == <<c>> \o v
<1>2. IsSeq(t) /\ t # <<>> /\ Head(t) = c /\ Tail(t) = v
  BY <1>1, ConsSeq
<1>3. QED
  BY <1>1, <1>2 DEF Ending

LEMMA UndoFx ==
  ASSUME NEW S, NEW s, NEW c \in Nat
  PROVE  LET t == Compensations(s, c) \o Terminate(s, "Aborted") IN
         Undoing(S, t, s, c) /\ IsSeq(t) /\ IsSeq(Compensations(s, c)) /\ IsSeq(Terminate(s, "Aborted"))
<1> DEFINE p == Compensations(s, c)
           e == Persist([k |-> "SagaTerminated", s |-> s, out |-> "Aborted"])
           q == Terminate(s, "Aborted")
           t == p \o q
<1>1. PICK v : IsSeq(v) /\ AllPlain(S, v) /\ q = <<e>> \o v
  BY ZenonT(60), TerminateFx
<1>2. IsSeq(p) /\ Len(p) = 2 * c
  <2>1. p \in [1..(2 * c) -> Range(p)]
    BY DEF Compensations, Range
  <2>2. 2 * c \in Nat
    OBVIOUS
  <2> HIDE DEF p
  <2>3. p \in Seq(Range(p))
    BY <2>1, <2>2, SeqDef
  <2>4. DOMAIN p = 1..(2 * c)
    BY <2>1
  <2>5. QED
    BY <2>2, <2>3, <2>4, LenProperties DEF IsSeq
<1>3. ASSUME NEW n \in 0..(c - 1)
      PROVE  /\ 2 * n + 1 \in 1..(2 * c) /\ 2 * n + 2 \in 1..(2 * c)
             /\ p[2 * n + 1] = Persist([k |-> "SagaCompensated", s |-> s, i |-> c - 1 - n])
             /\ p[2 * n + 2] = Send("comp", s, c - 1 - n)
  <2>1. 2 * n + 1 \in 1..(2 * c) /\ 2 * n + 2 \in 1..(2 * c)
    OBVIOUS
  <2>2. (2 * n + 1) % 2 = 1 /\ ((2 * n + 1) - 1) \div 2 = n /\ (2 * n + 2) % 2 = 0 /\ ((2 * n + 2) - 1) \div 2 = n
    OBVIOUS
  <2>3. p[2 * n + 1] = Persist([k |-> "SagaCompensated", s |-> s, i |-> c - 1 - n])
    BY <2>1, <2>2 DEF Compensations
  <2>4. p[2 * n + 2] = Send("comp", s, c - 1 - n)
    BY <2>1, <2>2 DEF Compensations
  <2>5. QED
    BY <2>1, <2>3, <2>4
<1>4. /\ IsSeq(q) /\ Len(q) = 1 + Len(v) /\ q[1] = e /\ Len(v) \in Nat
      /\ \A n \in 1..Len(v) : q[1 + n] = v[n]
  <2>1. IsSeq(<<e>>) /\ Len(<<e>>) = 1 /\ <<e>>[1] = e
    BY OneSeq
  <2> DEFINE d == <<e>>
  <2>2. q = d \o v /\ IsSeq(d) /\ Len(d) = 1 /\ d[1] = e
    BY <1>1, <2>1
  <2> HIDE DEF d, q, e
  <2>3. IsSeq(v)
    BY <1>1
  <2>30. IsSeq(d)
    BY <2>2
  <2>4. /\ IsSeq(d \o v) /\ Len(d \o v) = Len(d) + Len(v)
        /\ \A n \in 1..Len(d) : (d \o v)[n] = d[n]
        /\ \A n \in 1..Len(v) : (d \o v)[Len(d) + n] = v[n]
    BY <2>3, <2>30, Cat
  <2>5. Len(v) \in Nat
    BY <2>3, SeqShape
  <2>6. QED
    BY <2>2, <2>4, <2>5
<1> HIDE DEF p, q, e
<1>5. /\ IsSeq(t) /\ Len(t) = Len(p) + Len(q)
      /\ \A n \in 1..Len(p) : t[n] = p[n]
      /\ \A n \in 1..Len(q) : t[Len(p) + n] = q[n]
  <2>1. IsSeq(p)
    BY <1>2
  <2>2. IsSeq(q)
    BY <1>4
  <2>3. QED
    BY <2>1, <2>2, Cat
<1> HIDE DEF t
<1>6. Len(t) = 2 * c + 1 + Len(v)
  BY <1>2, <1>4, <1>5
<1>7. t[2 * c + 1] = e
  BY <1>2, <1>4, <1>5
<1>8. ASSUME NEW n \in (2 * c + 2)..Len(t) PROVE Plain(S, t[n])
  <2>1. n - (2 * c + 1) \in 1..Len(v)
    BY <1>4, <1>6
  <2>2. 1 + (n - (2 * c + 1)) \in 1..Len(q) /\ 2 * c + (1 + (n - (2 * c + 1))) = n
    BY <1>4, <2>1
  <2>3. t[n] = q[1 + (n - (2 * c + 1))]
    BY <1>2, <1>5, <2>2
  <2>4. t[n] = v[n - (2 * c + 1)]
    BY <1>4, <2>1, <2>3
  <2>5. QED
    BY <1>1, <2>1, <2>4 DEF AllPlain
<1>9. ASSUME NEW n \in 0..(c - 1)
      PROVE  /\ t[2 * n + 1] = Persist([k |-> "SagaCompensated", s |-> s, i |-> c - 1 - n])
             /\ t[2 * n + 2] = Send("comp", s, c - 1 - n)
  BY <1>2, <1>3, <1>5
<1>10. Undoing(S, t, s, c)
  BY <1>4, <1>6, <1>7, <1>8, <1>9 DEF Undoing, e
<1>11. QED
  BY <1>2, <1>4, <1>5, <1>10 DEF t, p, q

\* Effects that begin or carry on a saga.
LEMMA WorkOK ==
  ASSUME NEW B, NEW S, NEW m, Ready(B, S, m), NEW r, r.m = m, IsSeq(r.fx),
         SagaWork(B, S, m.sagas, r.fx) \/ (r.fx # <<>> /\ Lead(Head(r.fx)) /\ SagaWork(B, S, m.sagas, Tail(r.fx)))
  PROVE  ResultOK(B, S, m, r)
BY DEF Ready, ResultOK, Sound

LEMMA BeginOK ==
  ASSUME NEW B, NEW S, NEW m, Ready(B, S, m), NEW s \in SagaIds, m.sagas[s].st = "none"
  PROVE  ResultOK(B, S, m, LiveSagaBegin(m, s)) /\ ResultOK(B, S, m, LiveDelegate(m, s))
<1> DEFINE c == Persist([k |-> "SagaBegun", s |-> s])
           d == Persist([k |-> "DelegationRequested", s |-> s])
           t == <<c>> \o SendStep(s, 0)
           w == <<d>> \o t
<1>1. Sagas[s].steps \in Nat /\ Told(B, S, s, <<>>)
  BY SagasAssumption DEF Ready, SagaSound
<1>2. Stepping(S, SendStep(s, 0), s, 0) /\ IsSeq(SendStep(s, 0))
  BY StepFx
<1>3. IsSeq(t) /\ t # <<>> /\ Head(t) = c /\ Tail(t) = SendStep(s, 0)
  BY <1>2, ConsSeq
<1> HIDE DEF t
<1>4. Sagas[s].steps # 0 => SagaWork(B, S, m.sagas, t)
  <2>1. Beginning(S, t, s)
    BY <1>2, <1>3 DEF Beginning
  <2>2. QED
    BY <1>1, <2>1 DEF SagaWork
<1>5. IsSeq(w) /\ w # <<>> /\ Head(w) = d /\ Tail(w) = t
  BY <1>3, ConsSeq
<1>6. Lead(d)
  BY DEF Lead, Persist
<1> HIDE DEF w, d, c
<1>7. CASE Sagas[s].steps = 0
  <2>1. LiveSagaBegin(m, s) = Nothing(m)
    BY <1>7 DEF LiveSagaBegin
  <2>2. LiveDelegate(m, s) = Result(m, <<d>> \o <<>>)
    BY <2>1 DEF LiveDelegate, Nothing, Result, d
  <2>3. IsSeq(<<d>>) /\ <<d>> \o <<>> = <<d>>
    BY OneSeq, ConcatEmptySeq DEF IsSeq
  <2>4. ResultOK(B, S, m, Result(m, <<d>>))
    <3>1. [k |-> "DelegationRequested", s |-> s].k \notin GateEvents \cup SagaEvents
      BY DEF GateEvents, SagaEvents
    <3>2. QED
      BY <3>1, QuietPersist DEF Result, d
  <2>5. QED
    BY <2>1, <2>2, <2>3, <2>4, NothingOK
<1>8. CASE Sagas[s].steps # 0
  <2>1. LiveSagaBegin(m, s) = Result(m, t)
    BY <1>8 DEF LiveSagaBegin, t, c
  <2>2. LiveDelegate(m, s) = Result(m, w)
    BY <2>1 DEF LiveDelegate, Result, w, d
  <2>3. ResultOK(B, S, m, Result(m, t))
    BY <1>3, <1>4, <1>8, WorkOK DEF Result
  <2>4. ResultOK(B, S, m, Result(m, w))
    BY <1>4, <1>5, <1>6, <1>8, WorkOK DEF Result
  <2>5. QED
    BY <2>1, <2>2, <2>3, <2>4
<1>9. QED
  BY <1>7, <1>8

LEMMA AckOK ==
  ASSUME NEW B, NEW S, NEW m, Ready(B, S, m), NEW s \in SagaIds, NEW i, Heard(S, s, i), NEW out
  PROVE  ResultOK(B, S, m, LiveSagaAck(m, s, i, out))
<1> DEFINE c == Cancel(SagaTimer(s, i))
           K == m.sagas
<1>1. CASE K[s] # [st |-> "Waiting", i |-> i]
  BY <1>1, NothingOK DEF LiveSagaAck
<1>2. CASE K[s] = [st |-> "Waiting", i |-> i]
  <2>1. Sagas[s].steps \in Nat /\ i \in Nat /\ K[s].st = "Waiting" /\ K[s].i = i
    <3>1. K[s] \in SagaRec
      BY DEF Ready, Shaped
    <3>2. K[s].i \in Nat
      BY <3>1 DEF SagaRec
    <3>3. QED
      BY <1>2, <3>2, SagasAssumption
  <2>2. i < Sagas[s].steps /\ (Told(B, S, s, Trace(i, 0)) \/ Told(B, S, s, Trace(i + 1, 0)))
    BY <2>1 DEF Ready, SagaSound
  <2>3. Told(B, S, s, Trace(i + 1, 0))
    <3>1. ASSUME s \notin B, S[s] = Trace(i, 0) PROVE FALSE
      <4>1. i \in 0..(i - 1)
        BY <2>1, <3>1, HeardTrace
      <4>2. QED
        BY <2>1, <4>1
    <3>2. QED
      BY <2>2, <3>1 DEF Told
  <2>4. i \in 0..(Sagas[s].steps - 1)
    BY <2>1, <2>2
  <2>5. ASSUME NEW t, IsSeq(t), Acking(S, t, s, i)
        PROVE  ResultOK(B, S, m, Result(m, <<c>> \o t))
    <3>1. StepWork(B, S, K, t, s, i)
      BY <1>2, <2>3, <2>5 DEF StepWork, At
    <3>2. SagaWork(B, S, K, t)
      BY <2>4, <3>1 DEF SagaWork
    <3> DEFINE w == <<c>> \o t
    <3>3. IsSeq(w) /\ w # <<>> /\ Head(w) = c /\ Tail(w) = t
      BY <2>5, ConsSeq
    <3> HIDE DEF w
    <3>4. Lead(Head(w))
      BY <3>3 DEF Lead, Cancel
    <3>5. Result(m, w).m = m /\ Result(m, w).fx = w
      BY DEF Result
    <3>6. ResultOK(B, S, m, Result(m, w))
      BY <3>2, <3>3, <3>4, <3>5, WorkOK
    <3>7. QED
      BY <3>6 DEF w
  <2>6. ResultOK(B, S, m, Result(m, <<c>> \o Advance(s, i)))
    <3> DEFINE a == Acked(s, i, "Committed")
               u == IF i + 1 < Sagas[s].steps THEN SendStep(s, i + 1) ELSE Terminate(s, "Completed")
               t == <<a>> \o u
    <3>1. IsSeq(u) /\ IF i + 1 < Sagas[s].steps THEN Stepping(S, u, s, i + 1) ELSE Ending(S, u, s, "Completed")
      BY StepFx, EndFx
    <3>2. Advance(s, i) = t
      BY DEF Advance
    <3> HIDE DEF u
    <3>3. IsSeq(t) /\ t # <<>> /\ Head(t) = a /\ Tail(t) = u
      BY <3>1, ConsSeq
    <3> HIDE DEF t
    <3>4. Acking(S, t, s, i)
      BY <3>1, <3>3 DEF Acking
    <3>5. QED
      BY <2>5, <3>2, <3>3, <3>4
  <2>7. ASSUME out # "Committed" PROVE ResultOK(B, S, m, Result(m, <<c>> \o Abort(s, i, out)))
    <3> DEFINE a == Acked(s, i, out)
               p == Compensations(s, i)
               q == Terminate(s, "Aborted")
               u == p \o q
               t == <<a>> \o u
    <3>1. Undoing(S, u, s, i) /\ IsSeq(u) /\ IsSeq(p) /\ IsSeq(q)
      BY <2>1, UndoFx
    <3> HIDE DEF p, q
    <3>2. Abort(s, i, out) = t
      <4> DEFINE X == {a} \cup Range(p) \cup Range(q)
      <4>1. <<a>> \in Seq(X) /\ p \in Seq(X) /\ q \in Seq(X)
        <5>1. <<a>> \in Seq(X)
          OBVIOUS
        <5>2. QED
          BY <3>1, <5>1, SeqMonotonic DEF IsSeq
      <4>2. Abort(s, i, out) = (<<a>> \o p) \o q
        BY DEF Abort, p, q
      <4> HIDE DEF X
      <4>3. QED
        BY <4>1, <4>2, ConcatAssociative
    <3> HIDE DEF u
    <3>3. IsSeq(t) /\ t # <<>> /\ Head(t) = a /\ Tail(t) = u
      BY <3>1, ConsSeq
    <3> HIDE DEF t
    <3>4. Acking(S, t, s, i)
      BY <2>7, <3>1, <3>3 DEF Acking
    <3>5. QED
      BY <2>5, <3>2, <3>3, <3>4
  <2>8. ResultOK(B, S, m, Result(m, <<c>> \o <<>>))
    <3>1. <<c>> \o <<>> = <<c>>
      BY OneSeq, ConcatEmptySeq DEF IsSeq
    <3>2. Plain(S, c) /\ DOMAIN m = Fields
      BY PlainRest DEF Ready, Shaped
    <3> HIDE DEF c
    <3>3. ResultOK(B, S, m, Result(m, <<c>>))
      BY <3>2, QuietOne DEF Result
    <3>4. QED
      BY <3>1, <3>3
  <2>9. Reduce(s, out) \in {"pending", "advance", "abort"} /\ (Reduce(s, out) = "abort" => out # "Committed")
    BY DEF Reduce, ApprovalAck, FirstAck
  <2>10. LiveSagaAck(m, s, i, out) =
           Result(m, <<c>> \o CASE Reduce(s, out) = "pending" -> <<>>
                                [] Reduce(s, out) = "advance" -> Advance(s, i)
                                [] Reduce(s, out) = "abort"   -> Abort(s, i, out))
    BY <1>2 DEF LiveSagaAck
  <2> HIDE DEF c
  <2>11. CASE Reduce(s, out) = "pending"
    BY <2>8, <2>10, <2>11
  <2>12. CASE Reduce(s, out) = "advance"
    BY <2>6, <2>10, <2>12
  <2>13. CASE Reduce(s, out) = "abort"
    BY <2>7, <2>9, <2>10, <2>13
  <2>14. QED
    BY <2>9, <2>11, <2>12, <2>13
<1>3. QED
  BY <1>1, <1>2

\* A gate that is set keeps its bundle until its event is in the log.
LEMMA GateOK ==
  ASSUME NEW B, NEW S, NEW m, Ready(B, S, m), NEW b, Grounds(S, b), NEW kind \in {"defer", "approval"},
         NEW r, r.m = [m EXCEPT !.gates[b] = [kind |-> kind, held |-> TRUE]],
         IsSeq(r.fx), r.fx # <<>>, NEW e, Head(r.fx) = Persist(e), e.k \in GateEvents, e.b = b,
         AllPlain(S, Tail(r.fx))
  PROVE  ResultOK(B, S, m, r)
<1> DEFINE g == [kind |-> kind, held |-> TRUE]
<1>1. b \in BundleIds /\ DOMAIN m = Fields /\ m.gates \in [BundleIds -> GateRec] /\ m.sagas \in [SagaIds -> SagaRec]
  BY DEF Grounds, Ready, Shaped
<1>2. g \in GateRec
  BY DEF GateRec
<1>3. DOMAIN r.m = Fields /\ r.m.sagas = m.sagas /\ r.m.gates = [m.gates EXCEPT ![b] = g]
  BY <1>1 DEF Fields
<1>4. r.m.gates \in [BundleIds -> GateRec]
  BY <1>1, <1>2, <1>3
<1>5. \A x \in BundleIds : r.m.gates[x] = m.gates[x] \/ (x = b /\ r.m.gates[x] = g)
  BY <1>1, <1>3
<1>6. r.m.gates[b] = g
  BY <1>1, <1>3
<1>7. Shaped(r.m)
  BY <1>1, <1>3, <1>4 DEF Shaped
<1>8. HeldSound(S, r.m.gates)
  BY <1>5 DEF HeldSound, Ready
<1>9. Gating(S, r.m.gates, r.fx)
  BY <1>1, <1>6 DEF Gating, Persist
<1>10. QED
  BY <1>3, <1>5, <1>7, <1>8, <1>9 DEF ResultOK, Sound

LEMMA DisposeOK ==
  ASSUME NEW B, NEW S, NEW m, Ready(B, S, m), NEW b, Grounds(S, b)
  PROVE  ResultOK(B, S, m, Dispose(m, b))
<1> DEFINE d == Disposition(m, b)
<1>0. DOMAIN m = Fields
  BY DEF Ready, Shaped
<1>1. Plain(S, Deliver(b)) /\ b \in BundleIds
  BY PlainRest DEF Grounds
<1>2. AllPlain(S, <<>>)
  BY NoSeq DEF AllPlain
<1>3. CASE d = "annotate"
  <2> DEFINE e == [k |-> "BundleAnnotated", b |-> b]
  <2>1. Plain(S, Persist(e))
    BY PlainPersist DEF GateEvents, SagaEvents
  <2> HIDE DEF e
  <2>2. IsSeq(<<Persist(e), Deliver(b)>>) /\ AllPlain(S, <<Persist(e), Deliver(b)>>)
    BY <1>1, <2>1, TwoPlain
  <2>3. ResultOK(B, S, m, Result(m, <<Persist(e), Deliver(b)>>))
    BY <1>0, <2>2, Quiet DEF Result
  <2>4. QED
    BY <1>3, <2>3 DEF Dispose, e
<1>4. CASE d = "reject"
  <2>1. [k |-> "BundleRejected", b |-> b].k \notin GateEvents \cup SagaEvents
    BY DEF GateEvents, SagaEvents
  <2>2. ResultOK(B, S, m, Result(m, <<Persist([k |-> "BundleRejected", b |-> b])>>))
    BY <2>1, QuietPersist DEF Result
  <2>3. QED
    BY <1>4, <2>2 DEF Dispose
<1>5. CASE d = "defer"
  <2> DEFINE e == [k |-> "BundleDeferred", b |-> b]
             f == SetTimer(DeferTimer(b))
             h == [m EXCEPT !.gates[b] = [kind |-> "defer", held |-> TRUE]]
             r == Result(h, <<Persist(e), f>>)
  <2>1. IsSeq(<<Persist(e), f>>) /\ <<Persist(e), f>> # <<>> /\ Head(<<Persist(e), f>>) = Persist(e)
        /\ Tail(<<Persist(e), f>>) = <<f>>
    BY TwoSeq
  <2>2. Plain(S, f)
    <3>1. TimerOK(S, DeferTimer(b))
      BY <1>1 DEF TimerOK, DeferTimer
    <3>2. QED
      BY <3>1, PlainRest
  <2>3. AllPlain(S, <<f>>)
    BY <2>2, OnePlain
  <2>4. e.k \in GateEvents /\ e.b = b
    BY DEF GateEvents
  <2>5. r.m = h /\ r.fx = <<Persist(e), f>>
    BY DEF Result
  <2>6. Dispose(m, b) = r
    BY <1>5 DEF Dispose
  <2> HIDE DEF r, e, f
  <2>7. IsSeq(r.fx) /\ r.fx # <<>> /\ Head(r.fx) = Persist(e) /\ AllPlain(S, Tail(r.fx))
    BY <2>1, <2>3, <2>5
  <2>8. ResultOK(B, S, m, r)
    BY <2>4, <2>5, <2>7, GateOK
  <2>9. QED
    BY <2>6, <2>8
<1>6. CASE d = "approval"
  <2> DEFINE e == [k |-> "BundleApprovalGated", b |-> b]
             h == [m EXCEPT !.gates[b] = [kind |-> "approval", held |-> TRUE]]
             r == Result(h, <<Persist(e)>>)
             x == Persist(e)
  <2>1. IsSeq(<<x>>) /\ <<x>> # <<>> /\ Head(<<x>>) = x /\ Tail(<<x>>) = <<>>
    BY OneSeq
  <2>2. e.k \in GateEvents /\ e.b = b
    BY DEF GateEvents
  <2>3. r.m = h /\ r.fx = <<x>>
    BY DEF Result
  <2>4. Dispose(m, b) = r
    BY <1>6 DEF Dispose
  <2> HIDE DEF r, e
  <2>5. IsSeq(r.fx) /\ r.fx # <<>> /\ Head(r.fx) = Persist(e) /\ AllPlain(S, Tail(r.fx))
    BY <1>2, <2>1, <2>3
  <2>6. ResultOK(B, S, m, r)
    BY <2>2, <2>3, <2>5, GateOK
  <2>7. QED
    BY <2>4, <2>6
<1>7. CASE d \notin {"annotate", "reject", "defer", "approval"}
  <2>1. ResultOK(B, S, m, Result(m, <<Deliver(b)>>))
    BY <1>0, <1>1, QuietOne DEF Result
  <2>2. Dispose(m, b) = Result(m, <<Deliver(b)>>)
    BY <1>7 DEF Dispose
  <2>3. QED
    BY <2>1, <2>2
<1>8. QED
  BY <1>3, <1>4, <1>5, <1>6, <1>7

LEMMA ReceivedOK ==
  ASSUME NEW B, NEW S, NEW m, Ready(B, S, m), NEW b, Grounds(S, b), NEW fresh \in BOOLEAN
  PROVE  ResultOK(B, S, m, LiveReceived(m, b, fresh))
<1>1. CASE fresh /\ Bundles[b].kind = "ack"
  <2> DEFINE k == Bundles[b]
  <2>1. k.saga \in SagaIds /\ Heard(S, k.saga, k.step)
    BY <1>1, SagasAssumption DEF Grounds
  <2>2. ResultOK(B, S, m, LiveSagaAck(m, k.saga, k.step, k.out))
    BY <2>1, AckOK
  <2>3. LiveReceived(m, b, fresh) = AckReceived(m, k)
    BY <1>1 DEF LiveReceived
  <2> HIDE DEF k
  <2>4. QED
    BY <2>2, <2>3, NothingOK DEF AckReceived
<1>2. CASE fresh /\ Bundles[b].kind = "step"
  <2>1. [k |-> "Received", b |-> b].k \notin GateEvents \cup SagaEvents
    BY DEF GateEvents, SagaEvents
  <2>2. ResultOK(B, S, m, Result(m, <<Persist([k |-> "Received", b |-> b])>>))
    BY <2>1, QuietPersist DEF Result
  <2>3. QED
    BY <1>2, <2>2 DEF LiveReceived, StepReceived
<1>3. CASE ~(fresh /\ Bundles[b].kind \in {"ack", "step"})
  BY <1>3, NothingOK DEF LiveReceived
<1>4. QED
  BY <1>1, <1>2, <1>3

LEMMA TimerFires ==
  ASSUME NEW B, NEW S, NEW m, Ready(B, S, m), NEW t, TimerOK(S, t), NEW fresh \in BOOLEAN
  PROVE  ResultOK(B, S, m, LiveTimer(m, t, fresh))
<1>1. CASE t[1] = "approval"
  <2>1. [k |-> "ApprovalExpired", p |-> t[2]].k \notin GateEvents \cup SagaEvents
    BY DEF GateEvents, SagaEvents
  <2>2. ResultOK(B, S, m, Result(m, <<Persist([k |-> "ApprovalExpired", p |-> t[2]])>>))
    BY <2>1, QuietPersist DEF Result
  <2>3. QED
    BY <1>1, <2>2, NothingOK DEF LiveTimer
<1>2. CASE t[1] = "defer" /\ t[2] \in BundleIds
  <2> DEFINE b == t[2]
             g == [kind |-> "none", held |-> FALSE]
             r == LiveTimer(m, t, fresh)
  <2>1. r = Result([m EXCEPT !.gates[b] = g], IF m.gates[b].held /\ fresh THEN <<Deliver(b)>> ELSE <<>>)
    BY <1>2 DEF LiveTimer
  <2>2. DOMAIN m = Fields /\ m.gates \in [BundleIds -> GateRec] /\ m.sagas \in [SagaIds -> SagaRec] /\ HeldSound(S, m.gates)
    BY DEF Ready, Shaped
  <2>3. g \in GateRec
    BY DEF GateRec
  <2>4. r.m = [m EXCEPT !.gates[b] = g] /\ r.fx = IF m.gates[b].held /\ fresh THEN <<Deliver(b)>> ELSE <<>>
    BY <2>1 DEF Result
  <2> HIDE DEF r
  <2>5. DOMAIN r.m = Fields /\ r.m.sagas = m.sagas /\ r.m.gates = [m.gates EXCEPT ![b] = g]
    BY <2>2, <2>4 DEF Fields
  <2>6. r.m.gates \in [BundleIds -> GateRec] /\ \A x \in BundleIds : r.m.gates[x] = m.gates[x] \/ r.m.gates[x] = g
    BY <2>2, <2>3, <2>5
  <2>7. HeldSound(S, r.m.gates) /\ \A x \in BundleIds : r.m.gates[x].kind # "none" => r.m.gates[x] = m.gates[x]
    BY <2>2, <2>6 DEF HeldSound
  <2>8. m.gates[b].held => Plain(S, Deliver(b))
    BY <1>2, <2>2, PlainRest DEF HeldSound
  <2>9. r.fx = <<>> \/ \E f : r.fx = <<f>> /\ Plain(S, f)
    BY <2>4, <2>8
  <2>10. IsSeq(r.fx) /\ AllPlain(S, r.fx)
    BY <2>9, OnePlain
  <2>11. Shaped(r.m)
    BY <2>2, <2>5, <2>6 DEF Shaped
  <2>12. ResultOK(B, S, m, r)
    BY <2>5, <2>7, <2>10, <2>11 DEF ResultOK, Sound
  <2>13. QED
    BY <2>12 DEF r
<1>3. CASE t[1] = "saga" /\ t[2] \in SagaIds /\ Heard(S, t[2], t[3])
  <2>1. ResultOK(B, S, m, LiveSagaAck(m, t[2], t[3], "Rejected"))
    BY <1>3, AckOK
  <2>2. LiveTimer(m, t, fresh) = LiveSagaAck(m, t[2], t[3], "Rejected")
    BY <1>3 DEF LiveTimer
  <2>3. QED
    BY <2>1, <2>2
<1>4. QED
  BY <1>1, <1>2, <1>3 DEF TimerOK

-----------------------------------------------------------------------------
(* The steps of the session task.                                          *)

LEMMA TaskReady == TaskInv /\ Listening => Ready(behind, sent, mem)
<1> SUFFICES ASSUME TaskInv, Listening PROVE Ready(behind, sent, mem)
  OBVIOUS
<1>1. View = mem.sagas
  BY DEF View, Lost, Listening
<1>2. QED
  BY <1>1 DEF TaskInv, TaskType, Ready

LEMMA ClientsKeep == TaskInv /\ (Presence \/ Admin \/ Post \/ Approval \/ Settle) => TaskInv'
<1> SUFFICES ASSUME TaskInv PROVE Presence \/ Admin \/ Post \/ Approval \/ Settle => TaskInv'
  OBVIOUS
<1>1. ASSUME NEW r, Handle(r), UNCHANGED <<inbox, world>>, Ready(behind, sent, mem) => ResultOK(behind, sent, mem, r)
      PROVE  TaskInv'
  <2>1. Ready(behind, sent, mem)
    BY <1>1, TaskReady DEF Handle
  <2>2. sent' = sent /\ inbox' = inbox
    BY <1>1 DEF world
  <2>3. QED
    BY <1>1, <2>1, <2>2, HandleKeeps
<1>2. ASSUME Presence PROVE TaskInv'
  <2>1. PICK a \in Actors :
          /\ \/ Handle(LiveConnected(mem, a))
             \/ Handle(LiveReconnected(mem, a))
             \/ Handle(LiveDisconnected(mem, a))
             \/ Handle(LiveDetach(mem, a))
             \/ \E c \in CapIds : Handle(LiveAttach(mem, a, c))
          /\ UNCHANGED <<inbox, world>>
    BY <1>2 DEF Presence
  <2>2. \E r : Handle(r) /\ (Ready(behind, sent, mem) => ResultOK(behind, sent, mem, r))
    BY <2>1, PresenceOK
  <2>3. QED
    BY <1>1, <2>1, <2>2
<1>3. ASSUME Admin PROVE TaskInv'
  <2>1. \E r : Handle(r) /\ (Ready(behind, sent, mem) => ResultOK(behind, sent, mem, r))
    BY <1>3, AdminOK DEF Admin
  <2>2. QED
    BY <1>1, <1>3, <2>1 DEF Admin
<1>4. ASSUME Post PROVE TaskInv'
  <2>1. \E r : Handle(r) /\ (Ready(behind, sent, mem) => ResultOK(behind, sent, mem, r))
    BY <1>4, AdminOK DEF Post
  <2>2. QED
    BY <1>1, <1>4, <2>1 DEF Post
<1>5. ASSUME Approval PROVE TaskInv'
  <2>1. UNCHANGED <<inbox, world>> /\ \E p \in Approvals :
          \/ \E a \in Actors, timed \in BOOLEAN : Handle(LiveCreate(mem, p, a, timed))
          \/ \E a \in Actors, d \in {"approve", "deny"} : Handle(LiveVote(mem, p, a, d))
    BY <1>5 DEF Approval
  <2>2. \E r : Handle(r) /\ (Ready(behind, sent, mem) => ResultOK(behind, sent, mem, r))
    BY <2>1, ApprovalOK
  <2>3. QED
    BY <1>1, <2>1, <2>2
<1>6. ASSUME Settle PROVE TaskInv'
  <2>1. \E r : Handle(r) /\ (Ready(behind, sent, mem) => ResultOK(behind, sent, mem, r))
    BY <1>6, ApprovalOK DEF Settle
  <2>2. QED
    BY <1>1, <1>6, <2>1 DEF Settle
<1>7. QED
  BY <1>2, <1>3, <1>4, <1>5, <1>6

LEMMA BeginSagaKeeps == TaskInv /\ BeginSaga => TaskInv'
<1> SUFFICES ASSUME TaskInv, BeginSaga PROVE TaskInv'
  OBVIOUS
<1>1. PICK s \in SagaIds :
        /\ mem.sagas[s].st = "none"
        /\ Handle(LiveSagaBegin(mem, s)) \/ Handle(LiveDelegate(mem, s))
        /\ UNCHANGED <<inbox, world>>
  BY DEF BeginSaga
<1>2. Ready(behind, sent, mem)
  BY <1>1, TaskReady DEF Handle
<1>3. ResultOK(behind, sent, mem, LiveSagaBegin(mem, s)) /\ ResultOK(behind, sent, mem, LiveDelegate(mem, s))
  BY <1>1, <1>2, BeginOK
<1>4. sent' = sent /\ inbox' = inbox
  BY <1>1 DEF world
<1>5. QED
  BY <1>1, <1>3, <1>4, HandleKeeps

LEMMA AckSagaKeeps == TaskInv /\ AckSaga => TaskInv'
<1> SUFFICES ASSUME TaskInv, AckSaga PROVE TaskInv'
  OBVIOUS
<1>1. PICK s \in SagaIds, out \in {"Committed", "Rejected"} :
        \E n \in DOMAIN sent[s] :
            /\ sent[s][n][1] = "step"
            /\ Handle(LiveSagaAck(mem, s, sent[s][n][2], out))
            /\ UNCHANGED <<inbox, world>>
  BY DEF AckSaga
<1>2. PICK n \in DOMAIN sent[s] :
            /\ sent[s][n][1] = "step"
            /\ Handle(LiveSagaAck(mem, s, sent[s][n][2], out))
            /\ UNCHANGED <<inbox, world>>
  BY <1>1
<1>3. Ready(behind, sent, mem)
  BY <1>2, TaskReady DEF Handle
<1>4. Heard(sent, s, sent[s][n][2])
  BY <1>2 DEF Heard
<1>5. ResultOK(behind, sent, mem, LiveSagaAck(mem, s, sent[s][n][2], out))
  BY <1>3, <1>4, AckOK
<1>6. sent' = sent /\ inbox' = inbox
  BY <1>2 DEF world
<1>7. QED
  BY <1>2, <1>5, <1>6, HandleKeeps

LEMMA InterceptKeeps == TaskInv /\ Intercept => TaskInv'
<1> SUFFICES ASSUME TaskInv, Intercept PROVE TaskInv'
  OBVIOUS
<1>1. PICK b \in BundleIds, fresh \in BOOLEAN :
        /\ Answerable(b) /\ Handle(LiveIntercepted(mem, b, fresh))
        /\ UNCHANGED <<inbox, sent>>
  BY DEF Intercept
<1>2. Ready(behind, sent, mem)
  BY <1>1, TaskReady DEF Handle
<1>3. Grounds(sent, b)
  BY <1>1 DEF Answerable, Grounds, Heard
<1>4. ResultOK(behind, sent, mem, LiveIntercepted(mem, b, fresh))
  BY <1>2, <1>3, DisposeOK, NothingOK DEF LiveIntercepted
<1>5. QED
  BY <1>1, <1>4, HandleKeeps

LEMMA ReceiveKeeps == TaskInv /\ Receive => TaskInv'
<1> SUFFICES ASSUME TaskInv, Receive PROVE TaskInv'
  OBVIOUS
<1> DEFINE x == Head(inbox)
<1>1. inbox # <<>> /\ inbox' = Tail(inbox) /\ sent' = sent
  BY DEF Receive
<1>2. PICK fresh \in BOOLEAN :
        IF x.k = "timer" THEN Handle(LiveTimer(mem, x.t, fresh)) ELSE Handle(LiveReceived(mem, x.b, fresh))
  BY DEF Receive
<1>3. LetterOK(sent, x)
  <2>1. IsSeq(inbox) /\ MailSound(sent, timers, inbox)
    BY DEF TaskInv, TaskType
  <2>2. x = inbox[1] /\ Len(inbox) \in Nat \ {0}
    BY <1>1, <2>1, Rest
  <2> HIDE DEF x
  <2>3. QED
    BY <2>1, <2>2 DEF MailSound
<1> HIDE DEF x
<1>4. Ready(behind, sent, mem)
  BY <1>2, TaskReady DEF Handle
<1>5. CASE x.k = "timer"
  <2>1. TimerOK(sent, x.t)
    BY <1>3, <1>5 DEF LetterOK
  <2>2. ResultOK(behind, sent, mem, LiveTimer(mem, x.t, fresh))
    BY <1>4, <2>1, TimerFires
  <2>3. QED
    BY <1>1, <1>2, <1>5, <2>2, HandleKeeps
<1>6. CASE x.k # "timer"
  <2>1. Grounds(sent, x.b)
    BY <1>3, <1>6 DEF LetterOK
  <2>2. ResultOK(behind, sent, mem, LiveReceived(mem, x.b, fresh))
    BY <1>4, <2>1, ReceivedOK
  <2>3. QED
    BY <1>1, <1>2, <1>6, <2>2, HandleKeeps
<1>7. QED
  BY <1>5, <1>6

LEMMA TaskNext == TaskInv /\ [Next]_vars => TaskInv'
<1> SUFFICES ASSUME TaskInv, [Next]_vars PROVE TaskInv'
  OBVIOUS
<1>1. CASE Presence \/ Admin \/ Post \/ Approval \/ Settle
  BY <1>1, ClientsKeep
<1>2. CASE BeginSaga \/ AckSaga \/ Intercept \/ Receive
  BY <1>2, BeginSagaKeeps, AckSagaKeeps, InterceptKeeps, ReceiveKeeps
<1>3. CASE RunPersist \/ RunFallback \/ RunTimer \/ RunSend
  BY <1>3, RunPersistKeeps, RunFallbackKeeps, RunTimerKeeps, RunSendKeeps
<1>4. CASE \E t \in timers : Fire(t)
  BY <1>4, FireKeeps
<1>5. CASE Stop \/ Crash \/ Restart
  BY <1>5, StopKeeps, CrashKeeps, RestartKeeps
<1>6. CASE HubDecides \/ UNCHANGED vars
  BY <1>6, TaskFrame DEF HubDecides, vars, logged
<1>7. QED
  BY <1>1, <1>2, <1>3, <1>4, <1>5, <1>6 DEF Next

(* Whatever late and repeated acknowledgements, timeouts, gates, outages and
   restarts come between: the log has the sagas of memory but those an event of
   which it misses, the effects that are left carry on where memory and the sent
   bundles stand - of the sagas no restart set back -, and whatever still waits
   in a timer, the mailbox or a gate answers a step that was sent. *)
THEOREM TaskSound == Spec => []TaskInv
BY TaskInit, TaskNext, PTL DEF Spec

LEMMA InvCompensated == TaskInv => CompensatedExactly
<1> SUFFICES ASSUME TaskInv, NEW s \in SagaIds \ behind
             PROVE  /\ mem.sagas[s].st = "Completed" => sent[s] = Trace(Sagas[s].steps, 0)
                    /\ mem.sagas[s].st = "Aborted" => \E k \in 1..Sagas[s].steps : sent[s] = Trace(k, k - 1)
  BY DEF CompensatedExactly
<1>1. CASE ~Lost
  <2>1. SagaSound(behind, sent, mem.sagas, s)
    BY <1>1 DEF TaskInv, View
  <2>2. QED
    BY <2>1 DEF SagaSound, Told
<1>2. CASE Lost
  <2>1. mem.sagas[s].st = "none"
    BY <1>2 DEF Lost, NewMemory
  <2>2. QED
    BY <2>1
<1>3. QED
  BY <1>1, <1>2

(* A saga that completed sent each step once and in order and compensated
   nothing; one that aborted compensated exactly the steps before the failed
   one, the last one first (live_saga_ack); the sagas that a restart found set
   back for want of rows are the only exception (handle_persist). *)
THEOREM SagasCompensateExactly == Spec => []CompensatedExactly
BY TaskSound, InvCompensated, PTL

(* A task that died at any point of its effect list would find a saga again as
   its memory has it, if no event of that saga went without its row since the
   task started (real_persist, shadow_persist, replay_history). *)
THEOREM SagasComeBack == Spec => []SagaRecoverable
<1>1. TaskInv => SagaRecoverable
  BY DEF TaskInv, MemKept, View, Lost, SagaRecoverable, Kept
<1>2. QED
  BY <1>1, TaskSound, PTL

(* A gate set while the task lives keeps its bundle (live_bundle_intercepted,
   apply_bundle_deferred). *)
THEOREM GatesHoldBundles == Spec => []GateHolds
<1>1. TaskInv => GateHolds
  BY DEF TaskInv
<1>2. QED
  BY <1>1, TaskSound, PTL

RowKept == DOMAIN row = Sources

(* The answer of a delegation is applied to an approval that is still pending
   and to no other, however late it comes (CrossSessionDelegationResolved). *)
THEOREM SourcesDecidedOnce == Spec => SourceDecidedOnce
<1>1. Init => RowKept
  BY DEF Init, RowKept
<1>2. ASSUME RowKept, [Next]_vars
      PROVE  RowKept' /\ \A p \in Sources : row[p] # "Pending" => row'[p] = row[p]
  <2>1. CASE RunPersist \/ RunFallback
    BY <1>2, <2>1 DEF RunPersist, RunFallback, Replayed, ResolveSource, RowKept
  <2>2. CASE HubDecides
    BY <1>2, <2>2 DEF HubDecides, RowKept
  <2>3. CASE UNCHANGED row
    BY SMTT(40), <1>2, <2>3 DEF RowKept
  <2>4. RunPersist \/ RunFallback \/ HubDecides \/ UNCHANGED row
    BY <1>2 DEF Next, vars, world, Presence, Admin, Post, Approval, Settle, BeginSaga, AckSaga, Intercept,
                Receive, RunTimer, RunSend, Fire, Stop, Crash, Restart
  <2>5. QED
    BY SMTT(40), <2>1, <2>2, <2>3, <2>4
<1>3. RowKept /\ [Next]_vars => RowKept' /\ [\A p \in Sources : row[p] # "Pending" => row'[p] = row[p]]_vars
  BY <1>2
<1>4. QED
  BY <1>1, <1>3, PTL DEF Spec, SourceDecidedOnce

=============================================================================
