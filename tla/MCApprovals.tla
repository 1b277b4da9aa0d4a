--------------------------- MODULE MCApprovals ---------------------------
(* The small instances of Approvals that TLC explores.  A history variable
   separates the behaviours in which somebody stays attached and nothing fails. *)
EXTENDS Approvals, TLC

\* Handlers are interchangeable; so are the members the session starts with.
Symm == Permutations(Handlers) \union Permutations(Founders)

VARIABLE calm   \* no announcement was skipped or repeated, no snapshot lost, no crash

MCInit == Init /\ calm = TRUE

\* Bound: a member who joins late and a fault do not meet in one behaviour.
NoLateMember == members = Founders
MCNext ==
  \/ Attended /\ (calm \/ NoLateMember') /\ UNCHANGED calm
  \/ NoLateMember /\ (Skips \/ Repeats \/ Invalidate \/ Crash) /\ calm' = FALSE
MCSpec == MCInit /\ [][MCNext]_<<vars, calm>>

CalmDecided == calm => Decided
CalmView == calm => ViewOfLog
=============================================================================
